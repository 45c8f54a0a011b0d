----------------------------- MODULE UefSession -----------------------------
(***************************************************************************)
(* *UEF LOAD and the WiCFS reader on the Acorn (rom-side/1mhz-wifi/src/     *)
(* uef.asm and the incremental-stream changes to wicfs.asm), talking to the *)
(* Pi's UEF stream through a mailbox that may lose a request or a reply.    *)
(* The service driver between them is not in the repository: it carries the *)
(* last generation the Pi reported and repeats a request that got no answer *)
(* a bounded number of times.                                               *)
(***************************************************************************)
EXTENDS UefStream

CONSTANTS
  Files,       \* the source files, as byte sequences
  PageSize,    \* bytes of a JIM page (256)
  PageRun,     \* jim_page_usable: bytes getbyte takes of each page (151)
  MaxLosses,   \* bound: requests and replies the mailbox loses in a behaviour
  MaxTries,    \* bound: times the driver repeats an unanswered request
  MaxLoads,    \* bound: *UEF LOAD commands in a behaviour
  MaxRewinds   \* bound: rewinds in a behaviour

ASSUME SessionAssumption ==
  /\ Files \subseteq Seq(Byte)
  /\ PageSize \in Nat /\ PageRun \in 1..PageSize
  /\ {MaxLosses, MaxTries, MaxLoads, MaxRewinds} \subseteq Nat

VARIABLES
  hpc,      \* where the host program is
  file,     \* the open source file
  sent,     \* source bytes already in the Pi (acknowledged APPENDs)
  request,  \* what the driver is asking: [op, value]
  link,     \* "idle", "request", "reply" or "lost"
  tries, losses, loads, rewinds,
  hgen,     \* drv_uef_generation
  left,     \* sbufl/sbufh: bytes of the window not read yet
  pos,      \* pr_r/pr_y: the next byte of the window
  final,    \* sbuft bits 7 and 6: no stream, or the Pi said this is its last window
  got       \* the bytes handed to the cassette parser since the last rewind

hostVars == <<hpc, file, sent, hgen, left, pos, final, got, loads, rewinds>>
linkVars == <<request, link, tries, losses>>
sessionVars == <<vars, hostVars, linkVars>>

\* What normalising a file yields: the tape that is loaded, its stamps repaired.
Unpacked(f) == IF f = <<>> \/ f[1] \in Magic THEN f
               ELSE IF f \in DOMAIN Decode /\ Decode[f].result = "ok" THEN Decode[f].out
               ELSE <<>>
Tape(f) == [i \in DOMAIN Unpacked(f) |->
              IF i > 1 /\ Unpacked(f)[i] = Stamp THEN Scratch ELSE Unpacked(f)[i]]

\* The tape in the Pi.
Stream == IF ready THEN Content(buf, streamLength) ELSE <<>>

\* A container that is refused after some of it was inflated over the upload.
RefusedLate(f) ==
  /\ f \in DOMAIN Decode /\ f[1] \notin Magic
  /\ Decode[f].result \in {"overflow", "malformed"} /\ Decode[f].out # <<>>

\* The upload window uef.asm fills next: a full one, or what is left.
ChunkOf(f, n) == SubSeq(f, n + 1, IF n + UploadMax < Len(f) THEN n + UploadMax
                                                            ELSE Len(f))

SessionInit ==
  /\ Init
  /\ hpc = "idle" /\ file = <<>> /\ sent = 0
  /\ request = [op |-> "none", value |-> 0] /\ link = "idle"
  /\ tries = 0 /\ losses = 0 /\ loads = 0 /\ rewinds = 0
  /\ hgen = 0 /\ left = 0 /\ pos = 0 /\ final = FALSE /\ got = <<>>

-----------------------------------------------------------------------------
(* The mailbox and the driver's retries.                                    *)

Ask(op, v) ==
  /\ link = "idle"
  /\ request' = [op |-> op, value |-> v]
  /\ link' = "request"
  /\ tries' = 0
  /\ UNCHANGED losses

PiServes ==
  /\ link = "request"
  /\ CASE request.op = "PROBE"    -> Probe
       [] request.op = "BEGIN"    -> Begin
       [] request.op = "APPEND"   -> Append93(0, request.value, 0, "none")
       [] request.op = "FINALIZE" -> Finalize(0)
       [] request.op = "GUARD"    -> GuardImage(TRUE)
       [] request.op = "REWIND"   -> Rewind(0)
       [] request.op = "REFILL"   -> Refill(0, request.value)
       [] request.op = "CLOSE"    -> Close(0)
  /\ link' = "reply"
  /\ UNCHANGED <<hostVars, request, tries, losses>>

Lose ==
  /\ link \in {"request", "reply"}
  /\ losses < MaxLosses
  /\ losses' = losses + 1
  /\ link' = "lost"
  /\ UNCHANGED <<vars, hostVars, request, tries>>

\* The guard is published once: nothing repeats a request that got no answer.
Retries == IF request.op = "GUARD" THEN 0 ELSE MaxTries

Retry ==
  /\ link = "lost" /\ tries < Retries
  /\ tries' = tries + 1
  /\ link' = "request"
  /\ UNCHANGED <<vars, hostVars, request, losses>>

Answered == link = "reply"
Succeeded == Answered /\ result = Ok
Failed == (Answered /\ result # Ok) \/ (link = "lost" /\ tries = Retries)
Hangup == link' = "idle" /\ UNCHANGED <<request, tries, losses>>

\* The next request of a host that is not waiting for one any more.
Follow(op) ==
  /\ request' = [op |-> op, value |-> 0]
  /\ link' = "request" /\ tries' = 0
  /\ UNCHANGED losses

-----------------------------------------------------------------------------
(* uef_cmd: open, upload, finalise.                                         *)

\* A new *UEF LOAD; the command opens the file and probes for a session.
UefLoad(f) ==
  /\ hpc \in {"idle", "eof", "failed", "readerror", "escaped", "legacy"}
  /\ loads < MaxLoads
  /\ loads' = loads + 1
  /\ file' = f /\ sent' = 0 /\ got' = <<>>
  /\ hpc' = "probe"
  /\ Ask("PROBE", 0)
  /\ UNCHANGED <<vars, hgen, left, pos, final, rewinds>>

ProbeDone ==
  /\ hpc = "probe" /\ Succeeded
  /\ hpc' = "begin"
  /\ Follow("BEGIN")
  /\ UNCHANGED <<vars, file, sent, hgen, left, pos, final, got, loads, rewinds>>

BeginDone ==
  /\ hpc = "begin" /\ Succeeded
  /\ hpc' = "read" /\ hgen' = generation
  /\ Hangup
  /\ UNCHANGED <<vars, file, sent, left, pos, final, got, loads, rewinds>>

\* The OSBGET loop fills the window and writes its length to the trailer.
ReadWindow ==
  /\ hpc = "read" /\ sent < Len(file)
  /\ HostWrites(ChunkOf(file, sent))
  /\ hpc' = "append"
  /\ Ask("APPEND", hgen)
  /\ UNCHANGED <<file, sent, hgen, left, pos, final, got, loads, rewinds>>

\* OSBGET reports an error: the file is closed and the command ends.
ReadError ==
  /\ hpc = "read" /\ sent < Len(file)
  /\ hpc' = "readerror"
  /\ UNCHANGED <<vars, file, sent, hgen, left, pos, final, got, loads, rewinds,
                 linkVars>>

\* Escape at a page boundary: close the file and the Pi session.
Escape ==
  /\ hpc = "read" /\ sent < Len(file)
  /\ hpc' = "escaping"
  /\ Ask("CLOSE", 0)
  /\ UNCHANGED <<vars, file, sent, hgen, left, pos, final, got, loads, rewinds>>

AppendDone ==
  /\ hpc = "append" /\ Succeeded
  /\ sent' = sent + Len(ChunkOf(file, sent))
  /\ hgen' = generation
  /\ hpc' = "read"
  /\ Hangup
  /\ UNCHANGED <<vars, file, left, pos, final, got, loads, rewinds>>

\* End of file: OSFIND closes it (and may use the aperture), then FINALIZE.
EndOfFile ==
  /\ hpc = "read" /\ sent = Len(file)
  /\ ForeignUse
  /\ hpc' = "finalize"
  /\ Ask("FINALIZE", 0)
  /\ UNCHANGED <<file, sent, hgen, left, pos, final, got, loads, rewinds>>

FinalizeDone ==
  /\ hpc = "finalize" /\ Succeeded
  /\ hpc' = "install" /\ hgen' = generation
  /\ Hangup
  /\ UNCHANGED <<vars, file, sent, left, pos, final, got, loads, rewinds>>

\* Mutant: only a failed APPEND is handled.
AppendFailed ==
  /\ hpc = "append" /\ Failed
  /\ hpc' = "closing"
  /\ Follow("CLOSE")
  /\ UNCHANGED <<vars, file, sent, hgen, left, pos, final, got, loads, rewinds>>

\* A failed step of the upload: uef_stream_failed closes the session.
UploadFailed ==
  /\ hpc \in {"append", "finalize"} /\ Failed
  /\ hpc' = "closing"
  /\ Follow("CLOSE")
  /\ UNCHANGED <<vars, file, sent, hgen, left, pos, final, got, loads, rewinds>>

\* A Pi that does not open a session: the command goes on with the legacy
\* normalisation (command 93 without a header), which UefStream models.
BeginFailed ==
  /\ hpc \in {"probe", "begin"} /\ Failed
  /\ hpc' = "legacy"
  /\ Hangup
  /\ UNCHANGED <<vars, file, sent, hgen, left, pos, final, got, loads, rewinds>>

Closed ==
  /\ hpc \in {"closing", "escaping"} /\ (Answered \/ Failed)
  /\ hpc' = IF hpc = "closing" THEN "failed" ELSE "escaped"
  /\ Hangup
  /\ UNCHANGED <<vars, file, sent, hgen, left, pos, final, got, loads, rewinds>>

-----------------------------------------------------------------------------
(* WiCFS: install, rewind, read.                                            *)

\* Installing publishes the guard when a stream is in and no Tube is active; it
\* fails quietly.
PublishGuard ==
  /\ hpc = "install"
  /\ hpc' = "guard"
  /\ Ask("GUARD", 0)
  /\ UNCHANGED <<vars, file, sent, hgen, left, pos, final, got, loads, rewinds>>

\* cfsinit: select the first window again and start reading it.
CfsInit ==
  /\ \/ hpc = "install" /\ link = "idle"
     \/ hpc = "guard" /\ (Answered \/ Failed)
     \/ hpc \in {"play", "eof"} /\ link = "idle"
  /\ rewinds < MaxRewinds
  /\ rewinds' = rewinds + 1
  /\ got' = <<>>
  /\ hpc' = "rewind"
  /\ Follow("REWIND")
  /\ UNCHANGED <<vars, file, sent, hgen, left, pos, final, loads>>

\* A window has arrived: its length and final flag are the reply's.
TakeWindow ==
  /\ left' = pubLength /\ pos' = 0 /\ final' = pubFinal /\ hgen' = generation

RewindDone ==
  /\ hpc = "rewind" /\ Succeeded
  /\ TakeWindow
  /\ hpc' = "play"
  /\ Hangup
  /\ UNCHANGED <<vars, file, sent, got, loads, rewinds>>

\* The n-th byte of a walk over the pages that takes PageRun bytes of each.
Walk(n) == PageSize * (n \div PageRun) + (n % PageRun)

\* Mutant: the page is stepped where the address wraps.
WalkWholePages(n) == n

\* getbyte takes jim_page_usable bytes of a page, whatever lies in it.
ReaderCell(n) == Walk(n)

\* Where uef_stream_publish puts byte i of a window: uef_window_scatter leaves the
\* top of each page to the guard; without one the window is copied as it is.
WindowCell(i) == IF jim.shape = "guard" THEN Walk(i) ELSE i

\* What the aperture holds at a place.
ByteAt(c) ==
  IF \E i \in DOMAIN jim.laid : WindowCell(i) = c
  THEN jim.laid[CHOOSE i \in DOMAIN jim.laid : WindowCell(i) = c] ELSE Junk

\* getbyte, with bytes left in the window.
GetByte ==
  /\ hpc = "play" /\ left > 0
  /\ got' = Append(got, ByteAt(ReaderCell(pos)))
  /\ left' = left - 1 /\ pos' = pos + 1
  /\ UNCHANGED <<vars, hpc, file, sent, hgen, final, loads, rewinds, linkVars>>

\* wicfs_refill_if_available: the window is empty and was not the last.  A
\* parser that asks again after a failed refill asks the Pi again.
AskRefill ==
  /\ hpc \in {"play", "eof"} /\ left = 0 /\ ~final
  /\ hpc' = "refill"
  /\ Ask("REFILL", hgen)
  /\ UNCHANGED <<vars, file, sent, hgen, left, pos, final, got, loads, rewinds>>

RefillDone ==
  /\ hpc = "refill" /\ Succeeded
  /\ TakeWindow
  /\ hpc' = IF pubLength = 0 THEN "eof" ELSE "play"
  /\ Hangup
  /\ UNCHANGED <<vars, file, sent, got, loads, rewinds>>

\* The last window is empty.
EndOfTape ==
  /\ hpc = "play" /\ left = 0 /\ final
  /\ hpc' = "eof"
  /\ UNCHANGED <<vars, file, sent, hgen, left, pos, final, got, loads, rewinds,
                 linkVars>>

\* A refill or rewind that fails reads as end of tape; cfsinit_stream_failed
\* also drops the stream flag, so that nothing more is asked for.
ReadFailed ==
  /\ hpc \in {"refill", "rewind"} /\ Failed
  /\ hpc' = "eof"
  /\ left' = 0
  /\ final' = (final \/ hpc = "rewind")
  /\ Hangup
  /\ UNCHANGED <<vars, file, sent, hgen, pos, got, loads, rewinds>>

SessionNext ==
  \/ \E f \in Files : UefLoad(f)
  \/ ProbeDone \/ BeginDone \/ ReadWindow \/ ReadError \/ Escape \/ AppendDone \/ EndOfFile
  \/ FinalizeDone \/ UploadFailed \/ BeginFailed \/ Closed
  \/ PublishGuard \/ CfsInit \/ RewindDone \/ GetByte \/ AskRefill
  \/ RefillDone \/ EndOfTape \/ ReadFailed
  \/ PiServes \/ Lose \/ Retry

\* The Pi's cooperative loop keeps running and the 6502 keeps executing: each
\* keeps taking its steps.  Losing messages and the user's choices are free.
SessionSpec ==
  /\ SessionInit /\ [][SessionNext]_sessionVars
  /\ WF_sessionVars(PiServes \/ Retry)
  /\ WF_sessionVars(ProbeDone \/ BeginDone \/ ReadWindow \/ AppendDone \/ EndOfFile \/ FinalizeDone
                    \/ UploadFailed \/ BeginFailed \/ Closed \/ CfsInit \/ RewindDone
                    \/ GetByte \/ AskRefill \/ RefillDone \/ EndOfTape \/ ReadFailed)

-----------------------------------------------------------------------------
(* Properties.                                                              *)

\* An upload the Pi accepted is the file's own tape, byte for byte, even when
\* APPENDs were repeated because their replies were lost, and a file that is none
\* is never accepted.  The exception is a container that FINALIZE refuses after
\* inflating a part of it over the upload: when that answer is lost, the repeated
\* FINALIZE takes what lies there for a raw tape.
UploadExact ==
  hpc \in {"install", "guard", "rewind", "play", "refill", "eof"} =>
    ready /\ (Stream = Tape(file) \/ (RefusedLate(file) /\ losses > 0))

\* The end of the tape in the Pi is reported before all of it was asked for only if
\* the mailbox lost one request with all its retries, and with the guard published
\* what was read is then that tape: windows that end short, pages that leave room
\* for the guard, rewinds and repeated refills never look like the end.  Without a
\* guard (a Tube is active, or the one request was lost) getbyte steps the page
\* early and reads other bytes, but as many.
EofUnlessLost ==
  hpc = "eof" /\ losses <= MaxTries =>
    Len(got) = streamLength /\ (guard => got = Stream)

\* Nobody waits for ever, whatever the mailbox loses: every *UEF LOAD has its tape
\* in or has failed, and reading comes to the end of the tape or fails.
SessionEnds ==
  /\ hpc = "probe" ~> hpc \in {"install", "failed", "readerror", "escaped", "legacy"}
  /\ hpc = "play" ~> hpc \in {"eof", "rewind"}

UefTapeSpec == INSTANCE UefTape WITH
  Tapes <- Seq(Byte),
  tape  <- Stream,
  out   <- IF guard THEN got ELSE <<>>,
  state <- CASE guard /\ hpc \in {"play", "refill"} -> "playing"
             [] guard /\ hpc = "eof" /\ got = Stream -> "end"
             [] guard /\ hpc = "eof" /\ got # Stream -> "fault"
             [] OTHER -> "stopped"

\* Host, mailbox and Pi together are a cassette with the tape that is in the Pi, as
\* long as the guard is published: the layout uef_window_scatter gives a window is
\* the one getbyte walks.  (In the flat layout of a machine without the guard the
\* bytes come in another order, and no cassette is claimed.)
IsATape == UefTapeSpec!Spec
=============================================================================

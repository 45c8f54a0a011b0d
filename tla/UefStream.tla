------------------------------ MODULE UefStream ------------------------------
(***************************************************************************)
(* The Pi side of the incremental UEF tape (command 93, header "IUEF"),     *)
(* the legacy command-93 normalisation that shares its buffer, and the      *)
(* filing-vector guard (command 86) that changes the shape of the public    *)
(* window.  Source: emulator/pi1mhz-mailbox/src/pi1mhz_net_backend.c.       *)
(*                                                                         *)
(* The buffer uef_stream is a function on 0..Capacity-1: a shorter stream   *)
(* leaves the tail of an older one behind it, exactly as the C buffer does. *)
(* The CRC32 of an upload window is modelled by the bytes themselves: two   *)
(* different windows of one length are taken to have different CRCs.        *)
(***************************************************************************)
EXTENDS Integers, Sequences

CONSTANTS
  Byte,         \* the byte values the properties tell apart
  Junk,         \* a byte of Byte that no tape holds: whatever memory held
  Magic,        \* the bytes that can start a raw UEF ("UEF File!")
  Decode,       \* zlib and the ZIP header check: packed image -> outcome
  Capacity,     \* UEF_STREAM_CAPACITY
  UploadMax,    \* UEF_UPLOAD_MAX
  LegacyMax,    \* UEF_CAPACITY, the legacy window
  FlatWindow,   \* UEF_FLAT_WINDOW
  GuardWindow,  \* UEF_GUARD_WINDOW
  TokenMod,     \* 2^32 for the session token
  GenMod,       \* 2^32 for the window generation
  Stamp,        \* a `?&212` of a BASIC loader, told apart as one byte
  Scratch,      \* the `?&900` it is repaired to (Stamp itself: the repair is off)
  GuardTrailer, \* the last two guard bytes, read as a length
  Chunks        \* the windows a host may put into JIM

Outcome == [container : {"gzip", "zip"},
            result : {"ok", "overflow", "malformed", "declaredTooLarge"},
            out : Seq(Byte)]

ASSUME ConstantsAssumption ==
  /\ {Junk, Stamp, Scratch} \subseteq Byte
  /\ Magic \subseteq Byte \ {Junk}
  /\ Capacity \in Nat \ {0}
  /\ UploadMax \in 1..Capacity
  /\ LegacyMax \in 1..Capacity
  /\ FlatWindow \in 1..Capacity
  /\ GuardWindow \in 1..FlatWindow
  /\ TokenMod \in Nat /\ TokenMod > 2
  /\ GenMod \in Nat /\ GenMod > 2
  /\ GuardTrailer \in 0..Capacity
  /\ Chunks \subseteq Seq(Byte)
  /\ \A s \in Chunks : Len(s) <= Capacity

\* What Decode tells of an image: what zlib would write fits the buffer, a
\* complete result is a non-empty raw UEF.
ASSUME DecodeAssumption ==
  /\ \A s \in DOMAIN Decode :
       /\ Decode[s] \in Outcome
       /\ Len(Decode[s].out) <= Capacity
       /\ Decode[s].result = "ok" =>
            Decode[s].out # <<>> /\ Decode[s].out[1] \in Magic

VARIABLES
  buf,           \* uef_stream
  streamLength,  \* uef_stream_length
  cursor,        \* uef_stream_cursor
  pubOffset,     \* uef_published_offset
  pubLength,     \* uef_published_length
  pubFinal,      \* uef_published_final
  token,         \* uef_stream_token
  generation,    \* uef_window_generation
  lastAppend,    \* uef_last_append_sequence, and its bytes (length and CRC)
  ready,         \* uef_stream_ready
  uploadActive,  \* uef_upload_active
  format,        \* uef_stream_format
  guard,         \* guard_image_valid
  jim,           \* the public 64K aperture: bytes, how they are laid out, trailer
  result         \* the reply the last command left for the host

streamVars == <<buf, streamLength, format, ready, uploadActive, lastAppend>>
windowVars == <<cursor, pubOffset, pubLength, pubFinal>>
vars == <<streamVars, windowVars, token, generation, guard, jim, result>>

None == "none"
NoAppend == [seq |-> GenMod - 1, bytes |-> <<>>]
Ok == "OK"
Param == "PARAM"
Texts == {Ok, Param, "CONN", "INVALID", "TOO LARGE", "OFF"}

Window(s) == [i \in 0..Len(s) - 1 |-> s[i + 1]]

\* Reading a position the buffer does not have yields an unknown byte.
ReadBuf(b, i) == IF i < Capacity THEN b[i] ELSE Junk
WriteBuf(b, at, s) ==
  [i \in DOMAIN b |-> IF i - at \in 0..Len(s) - 1 THEN s[i - at + 1] ELSE b[i]]

\* uef_repair_filev_stamp rewrites the first n bytes in place, after the header.
uef_repair_filev_stamp(b, n) ==
  [i \in DOMAIN b |-> IF i \in 1..n - 1 /\ b[i] = Stamp THEN Scratch ELSE b[i]]

Content(b, n) == [i \in 1..n |-> b[i - 1]]

Shape(g) == IF g THEN "guard" ELSE "flat"
Limit(g) == IF g THEN GuardWindow ELSE FlatWindow
NextToken(t) == IF t = TokenMod - 1 THEN 1 ELSE t + 1   \* 0 is skipped
Succ(g) == IF g = GenMod - 1 THEN 0 ELSE g + 1

\* Positions 0..k-1 of a window of k bytes.
LaidWindows == UNION {[0..k - 1 -> Byte] : k \in 0..Capacity}
Aperture == [laid : LaidWindows,
             shape : {"upload", "legacy", "flat", "guard", "other"},
             trailer : 0..Capacity]

TypeOK ==
  /\ buf \in [0..Capacity - 1 -> Byte]
  /\ streamLength \in 0..Capacity
  /\ cursor \in Nat /\ pubOffset \in Nat
  /\ pubLength \in 0..FlatWindow
  /\ pubFinal \in BOOLEAN /\ ready \in BOOLEAN
  /\ uploadActive \in BOOLEAN /\ guard \in BOOLEAN
  /\ token \in 0..TokenMod - 1
  /\ generation \in 0..GenMod - 1
  /\ lastAppend \in [seq : 0..GenMod - 1, bytes : Seq(Byte)]
  /\ format \in {None, "R", "G", "Z"}
  /\ jim \in Aperture
  /\ result \in Texts

Init ==
  /\ buf = [i \in 0..Capacity - 1 |-> Junk]
  /\ streamLength = 0 /\ cursor = 0 /\ pubOffset = 0 /\ pubLength = 0
  /\ pubFinal = FALSE /\ ready = FALSE /\ uploadActive = FALSE
  /\ token = 0 /\ generation = 0
  /\ lastAppend = NoAppend
  /\ format = None /\ guard = FALSE
  /\ jim = [laid |-> Window(<<>>), shape |-> "other", trailer |-> 0]
  /\ result = Ok

-----------------------------------------------------------------------------
(* uef_stream_publish: lay the next window of stream b (n bytes) from c.    *)

\* available is a size_t: a cursor past the end wraps to a huge number, so
\* the window is then a full one.
Count(n, c, g) == IF c <= n /\ n - c < Limit(g) THEN n - c ELSE Limit(g)
Laid(b, c, k) == [i \in 0..k - 1 |-> ReadBuf(b, c + i)]

\* Mutants: the cursor moves by a whole window; the last byte is taken for the end.
PublishWholeWindow(b, n, c, g) ==
  LET k == Count(n, c, g) IN
  /\ pubOffset' = c
  /\ cursor' = c + Limit(g)
  /\ pubLength' = k
  /\ pubFinal' = (c + k = n)
  /\ jim' = IF k = 0 THEN [jim EXCEPT !.trailer = 0]
            ELSE [laid |-> Laid(b, c, k), shape |-> Shape(g), trailer |-> k]

PublishFinalEarly(b, n, c, g) ==
  LET k == Count(n, c, g) IN
  /\ pubOffset' = c
  /\ cursor' = c + k
  /\ pubLength' = k
  /\ pubFinal' = (c + k >= n - 1)
  /\ jim' = IF k = 0 THEN [jim EXCEPT !.trailer = 0]
            ELSE [laid |-> Laid(b, c, k), shape |-> Shape(g), trailer |-> k]

uef_stream_publish(b, n, c, g) ==
  LET k == Count(n, c, g) IN
  /\ pubOffset' = c
  /\ cursor' = c + k
  /\ pubLength' = k
  /\ pubFinal' = (c + k = n)
  /\ jim' = IF k = 0 THEN [jim EXCEPT !.trailer = 0]
            ELSE [laid |-> Laid(b, c, k), shape |-> Shape(g), trailer |-> k]

\* Mutant: a retry lays the bytes from the cursor.
RepublishFromCursor ==
  jim' = IF pubLength = 0 THEN jim
         ELSE [laid |-> Laid(buf, cursor, pubLength),
               shape |-> Shape(guard), trailer |-> pubLength]

uef_stream_republish ==
  jim' = IF pubLength = 0 THEN jim
         ELSE [laid |-> Laid(buf, pubOffset, pubLength),
               shape |-> Shape(guard), trailer |-> pubLength]

uef_stream_clear ==
  /\ streamLength' = 0 /\ cursor' = 0 /\ pubOffset' = 0 /\ pubLength' = 0
  /\ generation' = 0
  /\ lastAppend' = NoAppend
  /\ pubFinal' = FALSE /\ ready' = FALSE
  /\ format' = None
  /\ jim' = [jim EXCEPT !.trailer = 0]
  /\ UNCHANGED buf

Refuse == result' = Param /\ UNCHANGED <<streamVars, windowVars, token,
                                         generation, guard, jim>>

-----------------------------------------------------------------------------
(* incremental_uef_control, one action per operation.  t is the request's   *)
(* token (0 when the host leaves it out), v its value field.                *)

Probe == result' = Ok /\ UNCHANGED <<streamVars, windowVars, token,
                                     generation, guard, jim>>

Begin ==
  /\ uef_stream_clear
  /\ uploadActive' = TRUE
  /\ token' = NextToken(token)
  /\ result' = Ok
  /\ UNCHANGED guard

\* The window APPEND takes: n bytes from the start of JIM, or as many as the
\* trailer says when the request gives no length.
UploadLength(n) == IF n = 0 THEN jim.trailer ELSE n
UploadBytes(n) ==
  [i \in 1..n |-> IF jim.shape \in {"upload", "legacy"} /\ i - 1 \in DOMAIN jim.laid
                  THEN jim.laid[i - 1] ELSE Junk]

\* The request's CRC field: left out (zero), that of the bytes, or not.
Crcs == {"none", "good", "bad"}
CrcMatches(crc) == crc # "bad"

\* Mutant: a repeated APPEND is applied again.
AppendRepeats(t, v, n, crc) ==
  LET len == UploadLength(n)
      s   == UploadBytes(len)
  IN
  IF \/ ~uploadActive
     \/ t # 0 /\ t # token
     \/ len \notin 1..UploadMax
     \/ v # generation /\ Succ(v) # generation
     \/ streamLength + len > Capacity
     \/ ~CrcMatches(crc)
  THEN Refuse
  ELSE /\ buf' = WriteBuf(buf, streamLength, s)
       /\ streamLength' = streamLength + len
       /\ lastAppend' = [seq |-> v, bytes |-> s]
       /\ generation' = Succ(generation)
       /\ result' = Ok
       /\ UNCHANGED <<format, ready, uploadActive, windowVars, token, guard, jim>>

Append93(t, v, n, crc) ==
  LET len == UploadLength(n)
      s   == UploadBytes(len)
  IN
  IF \/ ~uploadActive
     \/ t # 0 /\ t # token
     \/ len \notin 1..UploadMax
  THEN Refuse
  ELSE
    \/ /\ v = generation
       /\ streamLength + len <= Capacity
       /\ CrcMatches(crc)
       /\ buf' = WriteBuf(buf, streamLength, s)
       /\ streamLength' = streamLength + len
       /\ lastAppend' = [seq |-> v, bytes |-> s]
       /\ generation' = Succ(generation)
       /\ result' = Ok
       /\ UNCHANGED <<format, ready, uploadActive, windowVars, token, guard, jim>>
    \/ /\ v = generation
       /\ streamLength + len > Capacity \/ ~CrcMatches(crc)
       /\ Refuse
    \/ /\ v # generation
       /\ Succ(v) = generation /\ lastAppend = [seq |-> v, bytes |-> s]
       /\ CrcMatches(crc)
       /\ Probe                          \* the retry of an applied APPEND
    \/ /\ v # generation
       /\ ~(Succ(v) = generation /\ lastAppend = [seq |-> v, bytes |-> s]
            /\ CrcMatches(crc))
       /\ Refuse

\* FINALIZE succeeded with n bytes in b: repair them and publish window zero.
Finished(b, n, f) ==
  /\ buf' = uef_repair_filev_stamp(b, n)
  /\ streamLength' = n
  /\ format' = f
  /\ ready' = TRUE /\ uploadActive' = FALSE
  /\ generation' = Succ(generation)
  /\ uef_stream_publish(uef_repair_filev_stamp(b, n), n, 0, guard)
  /\ result' = Ok
  /\ UNCHANGED <<lastAppend, token, guard>>

\* FINALIZE failed: what was inflated stays in uef_stream, the rest is as it
\* was, the upload still active.
Unfinished(b, text) ==
  /\ buf' = b
  /\ result' = text
  /\ UNCHANGED <<streamLength, format, ready, uploadActive, lastAppend,
                 windowVars, token, generation, guard, jim>>

\* The inflate calls return 1 when the output does not fit, which FINALIZE
\* compares with Z_BUF_ERROR: the overflow is reported as INVALID.
OverflowText == "INVALID"

Finalize(t) ==
  LET image == Content(buf, streamLength) IN
  IF \/ ~uploadActive
     \/ t # 0 /\ t # token
     \/ streamLength = 0
  THEN Refuse
  ELSE
    \/ /\ image[1] \in Magic
       /\ Finished(buf, streamLength, "R")
    \/ /\ image[1] \notin Magic /\ image \notin DOMAIN Decode
       /\ Unfinished(buf, "INVALID")
    \/ /\ image[1] \notin Magic /\ image \in DOMAIN Decode
       /\ LET d == Decode[image]
              b == WriteBuf(buf, 0, d.out)
          IN \/ /\ d.result = "ok"
                /\ Finished(b, Len(d.out), IF d.container = "gzip" THEN "G" ELSE "Z")
             \/ /\ d.result = "overflow"
                /\ Unfinished(b, OverflowText)
             \/ /\ d.result = "malformed"
                /\ Unfinished(b, "INVALID")
             \/ /\ d.result = "declaredTooLarge"
                /\ Unfinished(buf, "TOO LARGE")

NotReady(t) == ~ready \/ (t # 0 /\ t # token)

Rewind(t) ==
  IF NotReady(t) THEN Refuse
  ELSE /\ generation' = Succ(generation)
       /\ uef_stream_publish(buf, streamLength, 0, guard)
       /\ result' = Ok
       /\ UNCHANGED <<streamVars, token, guard>>

\* A refill naming the current generation (or naming none) moves on; one
\* naming the generation before is the retry of a refill already applied.
Advances(t, v) == (t = 0 /\ v = 0) \/ v = GenMod - 1 \/ v = generation

\* Once the cursor is past the whole buffer the C code reads memory that is
\* not the stream's; the model stops advancing there.
CursorBound == Capacity

Refill(t, v) ==
  IF NotReady(t) THEN Refuse
  ELSE
    \/ /\ Advances(t, v)
       /\ cursor <= CursorBound
       /\ generation' = Succ(generation)
       /\ uef_stream_publish(buf, streamLength, cursor, guard)
       /\ result' = Ok
       /\ UNCHANGED <<streamVars, token, guard>>
    \/ /\ ~Advances(t, v) /\ Succ(v) = generation
       /\ uef_stream_republish
       /\ result' = Ok
       /\ UNCHANGED <<streamVars, windowVars, token, generation, guard>>
    \/ /\ ~Advances(t, v) /\ Succ(v) # generation
       /\ Refuse

Republish(t) ==
  IF NotReady(t) THEN Refuse
  ELSE /\ uef_stream_republish
       /\ result' = Ok
       /\ UNCHANGED <<streamVars, windowVars, token, generation, guard>>

Close(t) ==
  IF t # 0 /\ t # token THEN Refuse
  ELSE /\ uef_stream_clear
       /\ uploadActive' = FALSE
       /\ result' = Ok
       /\ UNCHANGED <<token, guard>>

-----------------------------------------------------------------------------
(* Command 86: publish or withdraw the guard, then uef_window_relayout.     *)

\* Mutant: the window after the published one is laid under the new rule.
GuardFromCursor(on) ==
  /\ guard' = on
  /\ result' = IF on THEN Ok ELSE "OFF"
  /\ \/ /\ ready
        /\ uef_stream_publish(buf, streamLength, cursor, on)
     \/ /\ ~ready
        /\ jim' = IF on THEN [jim EXCEPT !.trailer = GuardTrailer] ELSE jim
        /\ UNCHANGED windowVars
  /\ UNCHANGED <<streamVars, token, generation>>

\* guard_stamp writes to the top of page &FF, over the length trailer;
\* publishing a window afterwards writes the trailer again.
GuardImage(on) ==
  /\ guard' = on
  /\ result' = IF on THEN Ok ELSE "OFF"
  /\ \/ /\ ready
        /\ uef_stream_publish(buf, streamLength, pubOffset, on)
     \/ /\ ~ready
        /\ jim' = IF on THEN [jim EXCEPT !.trailer = GuardTrailer] ELSE jim
        /\ UNCHANGED windowVars
  /\ UNCHANGED <<streamVars, token, generation>>

GuardImageBadLength == Refuse

(* normalize_uef_control: the legacy whole-window import.  The bytes come   *)
(* from and go back to JIM page 0; the stream buffer takes a copy, and only *)
(* that copy is repaired.                                                   *)

Legacy(n, out, f) ==
  /\ buf' = uef_repair_filev_stamp(WriteBuf(buf, 0, out), n)
  /\ streamLength' = n
  /\ cursor' = 0
  /\ ready' = TRUE /\ uploadActive' = FALSE
  /\ token' = NextToken(token)
  /\ format' = f
  /\ jim' = [laid |-> Window(out), shape |-> "legacy", trailer |-> n]
  /\ result' = Ok
  /\ UNCHANGED <<lastAppend, pubOffset, pubLength, pubFinal, generation, guard>>

LegacyReject(text, j) ==
  /\ jim' = j
  /\ result' = text
  /\ UNCHANGED <<streamVars, windowVars, token, generation, guard>>

\* s is packed: decode it over the window.
LegacyUnpack(s) ==
  LET d == Decode[s]
      long == Len(d.out) > LegacyMax
      over == [jim EXCEPT !.laid = Window(d.out)]
  IN
  \/ \E j \in {jim, over} : LegacyReject("CONN", j)        \* malloc failed
  \/ /\ d.result = "declaredTooLarge" \/ (d.container = "zip" /\ long)
     /\ LegacyReject("TOO LARGE", jim)
  \/ /\ d.result = "overflow" \/ (d.container = "gzip" /\ long)
     /\ LegacyReject("TOO LARGE", over)
  \/ d.result = "malformed" /\ ~long /\ LegacyReject("INVALID", over)
  \/ d.result = "ok" /\ ~long
     /\ Legacy(Len(d.out), d.out, IF d.container = "gzip" THEN "G" ELSE "Z")

\* Mutant: what is neither raw nor packed is taken as raw.
NormalizeAnything ==
  LET s == UploadBytes(jim.trailer) IN
  IF jim.trailer \notin 1..LegacyMax THEN LegacyReject("INVALID", jim)
  ELSE
    \/ s \notin DOMAIN Decode /\ Legacy(Len(s), s, "R")
    \/ s[1] \notin Magic /\ s \in DOMAIN Decode /\ LegacyUnpack(s)

normalize_uef_control ==
  LET s == UploadBytes(jim.trailer) IN
  IF jim.trailer \notin 1..LegacyMax THEN LegacyReject("INVALID", jim)
  ELSE
    \/ s[1] \in Magic /\ Legacy(Len(s), s, "R")
    \/ s[1] \notin Magic /\ s \notin DOMAIN Decode /\ LegacyReject("INVALID", jim)
    \/ s[1] \notin Magic /\ s \in DOMAIN Decode /\ LegacyUnpack(s)

-----------------------------------------------------------------------------
(* What the host does to the shared aperture between commands.              *)

\* The host copies a source window into JIM from page 0 and writes its length.
HostWrites(s) ==
  /\ jim' = [laid |-> Window(s), shape |-> "upload", trailer |-> Len(s)]
  /\ UNCHANGED <<streamVars, windowVars, token, generation, guard, result>>

\* Another service or a filing system uses the aperture.
ForeignUse ==
  /\ jim' = [laid |-> Window(<<>>), shape |-> "other", trailer |-> 0]
  /\ UNCHANGED <<streamVars, windowVars, token, generation, guard, result>>

-----------------------------------------------------------------------------
(* A host that may send any request at any time.                            *)

Tokens == 0..TokenMod - 1
Values == 0..GenMod - 1

IncrementalNext ==
  \/ Probe
  \/ Begin
  \/ \E t \in Tokens, v \in Values, n \in 0..UploadMax, crc \in Crcs :
       Append93(t, v, n, crc)
  \/ \E t \in Tokens : Finalize(t) \/ Rewind(t) \/ Republish(t) \/ Close(t)
  \/ \E t \in Tokens, v \in Values : Refill(t, v)
  \/ \E on \in BOOLEAN : GuardImage(on)
  \/ GuardImageBadLength
  \/ \E s \in Chunks : HostWrites(s)
  \/ ForeignUse

Next == IncrementalNext \/ normalize_uef_control

\* Hosts that speak stream ABI 1 only, and hosts that mix in the legacy form.
IncrementalSpec == Init /\ [][IncrementalNext]_vars
Spec == Init /\ [][Next]_vars

-----------------------------------------------------------------------------
(* Properties.                                                              *)

\* The cursor stands exactly behind the published window and never passes the
\* end of the stream, and the final flag tells whether it is there: what keeps
\* `available` in uef_stream_publish from wrapping, and a refill from skipping
\* or repeating tape, whatever mix of refills, rewinds, retries and guard
\* changes the host sends.
InStep ==
  ready => /\ cursor = pubOffset + pubLength
           /\ cursor <= streamLength
           /\ pubFinal <=> cursor = streamLength

\* While the aperture shows a published window, it shows exactly the bytes of
\* the stream at the published offset, in the shape the guard prescribes.
WindowIsStream ==
  ready /\ jim.shape \in {"flat", "guard"} /\ pubLength > 0 =>
    /\ jim.shape = Shape(guard)
    /\ jim.laid = Laid(buf, pubOffset, pubLength)
    /\ jim.trailer = pubLength

\* Nothing is offered to WiCFS that does not start as a UEF, whichever of the
\* two normalisers accepted it and whatever was uploaded, refused or retried.
OnlyUefOffered == ready => streamLength > 0 /\ buf[0] \in Magic

\* An upload in progress and a readable stream exclude each other.
UploadOrStream == ~(ready /\ uploadActive)

\* "Lay the same bytes down again under the new rule": a change of the guard
\* shows the host the bytes the aperture held, as many as the new shape holds.
GuardKeepsBytes ==
  [][guard' # guard /\ ready /\ jim.shape \in {"legacy", "flat", "guard"} =>
       \A i \in DOMAIN jim'.laid \cap DOMAIN jim.laid : jim'.laid[i] = jim.laid[i]]_vars
=============================================================================

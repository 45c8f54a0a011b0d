---------------------------- MODULE MediaService ----------------------------
(***************************************************************************)
(* The media session of pi-side/pi1mhz/overlay/src/media_service_core.c: a  *)
(* container is bound, then listed and read one bounded reply at a time.    *)
(* The session is a struct of the caller; the file being streamed is kept   *)
(* in static variables of the module, beside it.                            *)
(***************************************************************************)
EXTENDS MediaCatalogue

CONSTANTS
  Images,       \* containers a host uploads
  NoImage,      \* no container: a null pointer or length zero
  ReplyMax,     \* MEDIA_SVC_REPLY_MAX
  Header,       \* bytes of an OPEN reply, and of a READ reply before the data
  LineSize,     \* bytes of a catalogue line
  InfoSize,     \* bytes an INFO reply may need
  Capacities    \* reply capacities the dispatcher is called with

ASSUME ServiceAssumption ==
  /\ {ReplyMax, Header, LineSize, InfoSize} \subseteq Nat
  /\ Capacities \subseteq Nat
  /\ Header < ReplyMax

Indices == 0..MaxEntries

Entries == [name : STRING, length : Nat, offset : Nat, locked : BOOLEAN,
            crc_ok : BOOLEAN]

\* What the decoder returns for a container it identifies.
ASSUME ImagesAssumption ==
  /\ NoImage \notin Images
  /\ \A image \in Images : media_identify(image) # "unknown" =>
       /\ media_catalogue(image).entries \in Seq(Entries)
       /\ Len(media_catalogue(image).entries) <= MaxEntries
       /\ media_catalogue(image).total \in Nat
       /\ media_catalogue(image).issues \in Nat
       /\ \A index \in Indices : LET data == media_extract(image, index).data
                                 IN  data \in Seq(Range(data))

VARIABLES
  service,      \* the media_service struct
  stream,       \* stream_data, stream_length, stream_index, stream_valid
  reply,        \* the answer to the last dispatch
  taken,        \* what the host has: bytes of the file it reads, lines listed
  tidy          \* since the last CLOSE: no container bound, and no READ of
                \* another file refused, while a file was half read

vars == <<service, stream, reply, taken, tidy>>

Closed == [open |-> FALSE, image |-> NoImage, entries |-> <<>>, total |-> 0, issues |-> 0,
           cat_cursor |-> 0, read_index |-> 0, read_offset |-> 0]
NoReply == [command |-> "none", status |-> "ok", index |-> 0, from |-> 0,
            remaining |-> 0, data |-> <<>>]
Nothing == [index |-> 0, bytes |-> 0, lines |-> 0, more |-> FALSE]

Init ==
  /\ service = Closed
  /\ stream = [valid |-> FALSE, index |-> 0, data |-> <<>>]
  /\ reply = NoReply /\ taken = Nothing /\ tidy = TRUE

\* The host is in the middle of a file: its last READ of it was not the end.
Reading == taken.more

Answer(command, status) == reply' = [NoReply EXCEPT !.command = command, !.status = status]

-----------------------------------------------------------------------------
\* media_service_open: the session is reset first, whatever follows; the
\* static stream is not.
media_service_open(image) ==
  /\ LET known == image # NoImage /\ media_identify(image) # "unknown"
     IN  /\ service' = IF known
                         THEN [Closed EXCEPT !.open = TRUE, !.image = image,
                                             !.entries = media_catalogue(image).entries,
                                             !.total = media_catalogue(image).total,
                                             !.issues = media_catalogue(image).issues]
                         ELSE Closed
         /\ Answer("bind", IF known THEN "ok"
                           ELSE IF image = NoImage THEN "param" ELSE "format")
  /\ taken' = Nothing /\ tidy' = (tidy /\ ~Reading)
  /\ UNCHANGED stream

\* The guards every command makes in this order; capacity is clamped first.
Guard(index, capacity, least) ==
  IF ~service.open THEN "param"
  ELSE IF index >= Len(service.entries) THEN "range"
  ELSE IF Upto(capacity, ReplyMax) < least THEN "range"
  ELSE "ok"

\* OPEN and INFO report what is bound and change nothing.
dispatch_open(capacity) ==
  /\ Answer("open", IF ~service.open THEN "param"
                    ELSE IF Upto(capacity, ReplyMax) < Header THEN "range" ELSE "ok")
  /\ UNCHANGED <<service, stream, taken, tidy>>

dispatch_info(index, capacity) ==
  /\ LET status == Guard(index, capacity, InfoSize)
     IN  reply' = [NoReply EXCEPT !.command = "info", !.status = status, !.index = index,
                     !.remaining = IF status = "ok" THEN service.entries[index + 1].length
                                   ELSE 0]
  /\ UNCHANGED <<service, stream, taken, tidy>>

\* Mutant: the cursor moves although the line did not fit.
CatAdvances(capacity) ==
  /\ LET status == IF ~service.open THEN "param"
                   ELSE IF service.cat_cursor >= Len(service.entries) THEN "eof"
                   ELSE IF Upto(capacity, ReplyMax) < LineSize THEN "range" ELSE "ok"
     IN  /\ reply' = [NoReply EXCEPT !.command = "cat", !.status = status,
                                     !.index = service.cat_cursor]
         /\ service' = IF status \in {"ok", "range"}
                         THEN [service EXCEPT !.cat_cursor = @ + 1] ELSE service
         /\ taken' = IF status = "ok" THEN [taken EXCEPT !.lines = @ + 1] ELSE taken
  /\ UNCHANGED <<stream, tidy>>

\* CAT: one line of the listing, if it fits.
dispatch_cat(capacity) ==
  /\ LET status == IF ~service.open THEN "param"
                   ELSE IF service.cat_cursor >= Len(service.entries) THEN "eof"
                   ELSE IF Upto(capacity, ReplyMax) < LineSize THEN "range" ELSE "ok"
     IN  /\ reply' = [NoReply EXCEPT !.command = "cat", !.status = status,
                                     !.index = service.cat_cursor]
         /\ service' = IF status = "ok" THEN [service EXCEPT !.cat_cursor = @ + 1]
                                        ELSE service
         /\ taken' = IF status = "ok" THEN [taken EXCEPT !.lines = @ + 1] ELSE taken
  /\ UNCHANGED <<stream, tidy>>

-----------------------------------------------------------------------------
(* READ.                                                                    *)

\* Mutants: a stream is live until another file is asked for; or until it ends.
NeedsExtractOther(index) == stream.index # index \/ service.read_index # index
NeedsExtractOnce(index) == ~stream.valid

\* A different index, or no live stream, starts a new one.
NeedsExtract(index) ==
  ~stream.valid \/ stream.index # index \/ service.read_index # index

\* A failed extraction has already emptied the buffer it writes to, and the
\* stream that lived there stays marked valid.
ReadFails(index, status) ==
  /\ stream' = [stream EXCEPT !.data = <<>>]
  /\ reply' = [NoReply EXCEPT !.command = "read", !.index = index,
                 !.status = IF status = "range" THEN "range" ELSE "format"]
  /\ tidy' = (tidy /\ ~Reading)
  /\ UNCHANGED <<service, taken>>

\* The next window of the live stream, or its end.
Window(live, offset, capacity) ==
  Upto(Upto(Len(live) - offset, ReplyMax - Header), Upto(capacity, ReplyMax) - Header)

\* before: what the host has of this file already.
ReadWindow(index, live, offset, capacity) ==
  LET window == Window(live, offset, capacity)
      before == IF Reading /\ taken.index = index THEN taken.bytes ELSE 0
      ended  == offset >= Len(live)
  IN  /\ stream' = [valid |-> ~ended, index |-> index, data |-> live]
      /\ service' = [service EXCEPT !.read_index = index,
                       !.read_offset = IF ended THEN 0 ELSE offset + window]
      /\ taken' = [taken EXCEPT !.index = index, !.more = ~ended,
                     !.bytes = IF ended THEN 0 ELSE before + window]
      /\ reply' = [NoReply EXCEPT !.command = "read", !.index = index, !.from = before,
                     !.status = IF ended THEN "eof" ELSE "ok",
                     !.remaining = IF ended THEN 0 ELSE Len(live) - offset,
                     !.data = IF ended THEN <<>>
                              ELSE SubSeq(live, offset + 1, offset + window)]

dispatch_read(index, capacity) ==
  LET guard == Guard(index, capacity, Header)
      fresh == media_extract(service.image, index)
  IN  \/ /\ guard # "ok"
         /\ reply' = [NoReply EXCEPT !.command = "read", !.status = guard,
                                     !.index = index]
         /\ UNCHANGED <<service, stream, taken, tidy>>
      \/ /\ guard = "ok" /\ NeedsExtract(index) /\ fresh.status # "ok"
         /\ ReadFails(index, fresh.status)
      \/ /\ guard = "ok" /\ NeedsExtract(index) /\ fresh.status = "ok"
         /\ ReadWindow(index, fresh.data, 0, capacity)
         /\ UNCHANGED tidy
      \/ /\ guard = "ok" /\ ~NeedsExtract(index)
         /\ ReadWindow(index, stream.data, service.read_offset, capacity)
         /\ UNCHANGED tidy

dispatch_close ==
  /\ service' = Closed /\ stream' = [stream EXCEPT !.valid = FALSE]
  /\ taken' = Nothing /\ tidy' = TRUE
  /\ Answer("close", "ok")

\* A command outside the range, of which there is nothing to do.
dispatch_unknown ==
  /\ Answer("unknown", "param")
  /\ UNCHANGED <<service, stream, taken, tidy>>

media_service_dispatch ==
  \/ dispatch_close \/ dispatch_unknown
  \/ \E capacity \in Capacities : dispatch_open(capacity) \/ dispatch_cat(capacity)
  \/ \E index \in Indices, capacity \in Capacities :
       dispatch_info(index, capacity) \/ dispatch_read(index, capacity)

Next == media_service_dispatch
          \/ \E image \in Images \cup {NoImage} : media_service_open(image)

Spec == Init /\ [][Next]_vars

-----------------------------------------------------------------------------
(* Properties.                                                              *)

Sessions == [open : BOOLEAN, image : Images \cup {NoImage}, entries : Seq(Entries),
             total : Nat, issues : Nat, cat_cursor : Nat, read_index : Indices,
             read_offset : Nat]

\* The types of session and stream; the listing cursor is inside the entries.
TypeOK ==
  /\ service \in Sessions
  /\ stream.valid \in BOOLEAN /\ stream.index \in Indices
  /\ service.open <=> service.image # NoImage
  /\ service.cat_cursor <= Len(service.entries)
  /\ Len(service.entries) <= MaxEntries

Answered(command, status) == reply.command = command /\ reply.status = status
Asked == media_extract(service.image, reply.index)

\* A READ returns the bytes of the file asked for, in the container that is
\* bound, right after those the host has of it, and counts what is left
\* (test_media_service_core.c, test_read_streams_exact_bytes_across_windows);
\* files may be switched at any point, which starts them again.  It relies on
\* tidy: media_service_open and a refused READ disturb a half-read stream.
ReadExact ==
  tidy /\ Answered("read", "ok") =>
    /\ Asked.status = "ok"
    /\ reply.data = SubSeq(Asked.data, reply.from + 1, reply.from + Len(reply.data))
    /\ reply.remaining = Len(Asked.data) - reply.from

\* The end of a file is reported when the host has all of it, not before, with
\* the same exceptions: after a refused READ of another file, or a container bound
\* while a file is half read, the end may come early.
EofWhole ==
  tidy /\ Answered("read", "eof") =>
    Asked.status = "ok" /\ reply.from = Len(Asked.data)

\* The listing gives every entry once, in order, before its end is reported,
\* whatever replies were too small in between.
ListComplete ==
  /\ Answered("cat", "ok") => reply.index = taken.lines - 1
  /\ Answered("cat", "eof") => taken.lines = Len(service.entries)

\* The listing and the extraction, two walks over a damaged or well-formed
\* container, agree: lengths match, and the files are all the bytes there are.
\* "A truncated or malformed container yields the entries that could be recovered
\* plus a non-zero issue count" (media_catalogue.h:16-18): without an issue every
\* block of every chunk is in a file.  One exception: a data chunk of which not
\* even the first block decodes is passed over and not counted (uef_walk,
\* media_catalogue.c:154), so that the header's promise does not hold for it.
CatalogueTrue ==
  service.open => /\ LengthsAgree(service.image)
                  /\ service.image.magic => /\ Covers(service.image)
                                            /\ NothingDropped(service.image)

=============================================================================

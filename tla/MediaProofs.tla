----------------------------- MODULE MediaProofs -----------------------------
(***************************************************************************)
(* Proofs about the media session, for every set of containers and every    *)
(* reply size.  The decoder is used through ImagesAssumption alone.         *)
(***************************************************************************)
EXTENDS MediaService, TLAPS

USE CatalogueAssumption, ServiceAssumption

Takings == [index : Indices, bytes : Nat, lines : Nat, more : BOOLEAN]

\* What moving the listing cursor leaves of the session.
LEMMA CursorMoves ==
  ASSUME NEW s \in Sessions, NEW n \in Nat, NEW t, t = [s EXCEPT !.cat_cursor = n]
  PROVE  /\ t \in Sessions /\ t.open = s.open /\ t.image = s.image
         /\ t.entries = s.entries /\ t.cat_cursor = n
         /\ t.read_index = s.read_index /\ t.read_offset = s.read_offset
<1>1. t \in Sessions
  BY DEF Sessions
<1> QED BY <1>1 DEF Sessions

\* The session, the static stream and the host's account of them are records;
\* an open session has a container the decoder knows.
Shape ==
  /\ tidy \in BOOLEAN
  /\ taken \in Takings
  /\ stream = [valid |-> stream.valid, index |-> stream.index, data |-> stream.data]
  /\ stream.data \in Seq(Range(stream.data))
  /\ service.open => /\ service.image \in Images
                     /\ media_identify(service.image) # "unknown"

\* What the host holds is a prefix of the file its session streams.
Tracks ==
  /\ service.open
  /\ stream.index = taken.index /\ service.read_index = taken.index
  /\ media_extract(service.image, taken.index).status = "ok"
  /\ stream.data = media_extract(service.image, taken.index).data
  /\ service.read_offset = taken.bytes
  /\ taken.bytes <= Len(stream.data)

\* While the host is tidy a stream is live exactly when it reads, and tracked.
StreamLive == tidy => (stream.valid <=> Reading) /\ (Reading => Tracks)

\* The listing cursor is the number of lines the host has.
ListTracks == taken.lines = service.cat_cursor

IInv == TypeOK /\ Shape /\ StreamLive /\ ListTracks
          /\ ReadExact /\ EofWhole /\ ListComplete

\* No session, no stream: nothing to be wrong about.
LEMMA InitIInv == Init => IInv
<1> SUFFICES ASSUME Init PROVE IInv
  OBVIOUS
<1>1. /\ <<>> \in Seq(Entries) /\ Len(<<>>) = 0 /\ 0 \in Indices
      /\ MaxEntries \in Nat
  BY DEF Indices
<1>2. TypeOK
  BY <1>1 DEF Init, TypeOK, Closed, Sessions
<1>3. Shape
  BY <1>1 DEF Init, Shape, Nothing, Closed, Takings
<1>4. StreamLive /\ ListTracks
  BY DEF Init, StreamLive, ListTracks, Reading, Nothing, Closed
<1>5. ReadExact /\ EofWhole /\ ListComplete
  BY DEF Init, ReadExact, EofWhole, ListComplete, Answered, NoReply
<1> QED BY <1>2, <1>3, <1>4, <1>5 DEF IInv

\* An answer that carries nothing satisfies what is said of READ and CAT.
LEMMA PlainAnswer ==
  ASSUME reply'.command \notin {"read", "cat"}
  PROVE  (ReadExact /\ EofWhole /\ ListComplete)'
  BY DEF ReadExact, EofWhole, ListComplete, Answered

\* media_service_open resets the session; the stream survives only unused.
LEMMA OpenStep ==
  ASSUME IInv, NEW image \in Images \cup {NoImage}, media_service_open(image)
  PROVE  IInv'
<1> DEFINE known == image # NoImage /\ media_identify(image) # "unknown"
<1>1. /\ service' = IF known
                      THEN [Closed EXCEPT !.open = TRUE, !.image = image,
                                          !.entries = media_catalogue(image).entries,
                                          !.total = media_catalogue(image).total,
                                          !.issues = media_catalogue(image).issues]
                      ELSE Closed
      /\ taken' = Nothing /\ tidy' = (tidy /\ ~Reading) /\ stream' = stream
      /\ reply'.command = "bind"
  BY DEF media_service_open, Answer, NoReply
<1>2. (TypeOK /\ Shape)'
  <2>1. /\ <<>> \in Seq(Entries) /\ Len(<<>>) = 0 /\ 0 \in Indices
        /\ MaxEntries \in Nat
    BY DEF Indices
  <2>2. taken' \in Takings
    BY <1>1, <2>1 DEF Nothing, Takings
  <2>3. /\ stream'.valid \in BOOLEAN /\ stream'.index \in Indices /\ tidy' \in BOOLEAN
        /\ stream' = [valid |-> stream'.valid, index |-> stream'.index,
                      data |-> stream'.data]
        /\ stream'.data \in Seq(Range(stream'.data))
    BY <1>1 DEF IInv, TypeOK, Shape, Reading
  <2>4. CASE known
    <3>1. /\ image \in Images /\ image # NoImage
          /\ media_catalogue(image).entries \in Seq(Entries)
          /\ Len(media_catalogue(image).entries) <= MaxEntries
          /\ media_catalogue(image).total \in Nat
          /\ media_catalogue(image).issues \in Nat
      BY <2>4, ImagesAssumption
    <3>2. service' = [open |-> TRUE, image |-> image,
                      entries |-> media_catalogue(image).entries,
                      total |-> media_catalogue(image).total,
                      issues |-> media_catalogue(image).issues,
                      cat_cursor |-> 0, read_index |-> 0, read_offset |-> 0]
      BY <1>1, <2>4 DEF Closed
    <3>3. 0 <= Len(media_catalogue(image).entries)
      BY <3>1
    <3> HIDE DEF known
    <3> QED BY <2>1, <2>2, <2>3, <2>4, <3>1, <3>2, <3>3 DEF TypeOK, Shape, known, Sessions
  <2>5. CASE ~known
    BY <1>1, <2>1, <2>2, <2>3, <2>5 DEF TypeOK, Shape, Closed, Sessions
  <2> QED BY <2>4, <2>5
<1>3. (StreamLive /\ ListTracks)'
  BY <1>1 DEF IInv, StreamLive, ListTracks, Reading, Nothing, Closed, Shape
<1> QED BY <1>1, <1>2, <1>3, PlainAnswer DEF IInv

\* OPEN, INFO and an unknown command change no state.
LEMMA QuietStep ==
  ASSUME IInv, UNCHANGED <<service, stream, taken, tidy>>,
         reply'.command \notin {"read", "cat"}
  PROVE  IInv'
<1>1. (TypeOK /\ Shape /\ StreamLive /\ ListTracks)'
  BY DEF IInv, TypeOK, Shape, StreamLive, ListTracks, Reading, Tracks
<1> QED BY <1>1, PlainAnswer DEF IInv

\* CAT moves the cursor and the host's count together.
LEMMA CatStep ==
  ASSUME IInv, NEW capacity \in Capacities, dispatch_cat(capacity)
  PROVE  IInv'
<1> DEFINE status == IF ~service.open THEN "param"
                     ELSE IF service.cat_cursor >= Len(service.entries) THEN "eof"
                     ELSE IF Upto(capacity, ReplyMax) < LineSize THEN "range" ELSE "ok"
<1>1. /\ service' = IF status = "ok" THEN [service EXCEPT !.cat_cursor = @ + 1]
                                     ELSE service
      /\ taken' = IF status = "ok" THEN [taken EXCEPT !.lines = @ + 1] ELSE taken
      /\ stream' = stream /\ tidy' = tidy
      /\ reply'.command = "cat" /\ reply'.status = status
      /\ reply'.index = service.cat_cursor
  BY DEF dispatch_cat, NoReply
<1>2. status = "ok" => service.cat_cursor < Len(service.entries)
  BY DEF IInv, TypeOK, Sessions
<1>3. status = "eof" => service.cat_cursor >= Len(service.entries)
  BY DEF IInv, TypeOK, Sessions
<1> HIDE DEF status
<1>4. (TypeOK /\ Shape)'
  <2>1. CASE status = "ok"
    <3>1. service' = [service EXCEPT !.cat_cursor = @ + 1]
      BY <1>1, <2>1
    <3>2. /\ service' \in Sessions
          /\ service'.open = service.open /\ service'.image = service.image
          /\ service'.entries = service.entries
          /\ service'.cat_cursor = service.cat_cursor + 1
      <4>1. service \in Sessions /\ service.cat_cursor + 1 \in Nat
        BY DEF IInv, TypeOK, Sessions
      <4> QED BY <3>1, <4>1, CursorMoves
    <3>3. service'.cat_cursor <= Len(service'.entries)
      BY <1>2, <2>1, <3>2 DEF IInv, TypeOK, Sessions
    <3>4. taken' \in Takings
      BY <1>1, <2>1, SMTT(30) DEF IInv, Shape, Takings
    <3>5. TypeOK'
      BY <1>1, <3>2, <3>3 DEF IInv, TypeOK
    <3>6. Shape'
      BY <1>1, <3>2, <3>4 DEF IInv, Shape
    <3> QED BY <3>5, <3>6
  <2>2. CASE status # "ok"
    BY <1>1, <2>2 DEF IInv, TypeOK, Shape
  <2> QED BY <2>1, <2>2
<1>5. (StreamLive /\ ListTracks)'
  BY <1>1 DEF IInv, StreamLive, ListTracks, Reading, Tracks, TypeOK, Shape, Sessions, Takings
<1>6. (ReadExact /\ EofWhole)'
  BY <1>1 DEF ReadExact, EofWhole, Answered
<1>7. ListComplete'
  BY <1>1, <1>2, <1>3, SMTT(30)
  DEF IInv, ListComplete, ListTracks, Answered, TypeOK, Shape, Sessions, Takings
<1> QED BY <1>4, <1>5, <1>6, <1>7 DEF IInv

-----------------------------------------------------------------------------
\* The smaller of two numbers.
LEMMA UptoLeast ==
  ASSUME NEW a \in Int, NEW b \in Int
  PROVE  Upto(a, b) \in {a, b} /\ Upto(a, b) <= a /\ Upto(a, b) <= b
  BY DEF Upto

\* A window that starts inside the file ends inside it.
LEMMA WindowBound ==
  ASSUME NEW live, Len(live) \in Nat, NEW offset \in Nat, offset < Len(live),
         NEW capacity \in Capacities, Upto(capacity, ReplyMax) >= Header
  PROVE  /\ Window(live, offset, capacity) \in Nat
         /\ offset + Window(live, offset, capacity) <= Len(live)
<1> DEFINE left == Len(live) - offset
           room == Upto(capacity, ReplyMax) - Header
           part == Upto(left, ReplyMax - Header)
<1>1. left \in Nat /\ room \in Nat /\ ReplyMax - Header \in Nat
  BY UptoLeast
<1>2. part \in Nat /\ part <= left
  BY <1>1, UptoLeast
<1>3. Upto(part, room) \in Nat /\ Upto(part, room) <= part
  BY <1>1, <1>2, UptoLeast
<1>4. Window(live, offset, capacity) = Upto(part, room)
  BY DEF Window
<1> QED BY <1>2, <1>3, <1>4

\* A window of the file asked for, from where the host is, keeps the invariant.
LEMMA WindowStep ==
  ASSUME IInv, NEW index \in Indices, NEW capacity \in Capacities, NEW live,
         NEW offset \in Nat,
         ReadWindow(index, live, offset, capacity), UNCHANGED tidy,
         service.open, Upto(capacity, ReplyMax) >= Header,
         tidy => /\ media_extract(service.image, index).status = "ok"
                 /\ live = media_extract(service.image, index).data
                 /\ offset = IF Reading /\ taken.index = index THEN taken.bytes ELSE 0
                 /\ offset <= Len(live),
         live \in Seq(Range(live))
  PROVE  IInv'
<1> DEFINE window == Window(live, offset, capacity)
           before == IF Reading /\ taken.index = index THEN taken.bytes ELSE 0
           ended  == offset >= Len(live)
           reached == IF ended THEN 0 ELSE offset + window
           got    == IF ended THEN 0 ELSE before + window
<1>1. /\ stream' = [valid |-> ~ended, index |-> index, data |-> live]
      /\ service' = [service EXCEPT !.read_index = index,
                       !.read_offset = reached]
      /\ taken' = [taken EXCEPT !.index = index, !.more = ~ended, !.bytes = got]
      /\ reply'.command = "read" /\ reply'.index = index /\ reply'.from = before
      /\ reply'.status = IF ended THEN "eof" ELSE "ok"
      /\ reply'.remaining = IF ended THEN 0 ELSE Len(live) - offset
      /\ reply'.data = IF ended THEN <<>> ELSE SubSeq(live, offset + 1, offset + window)
  BY DEF ReadWindow, NoReply
<1>0. Len(live) \in Nat
  OBVIOUS
<1>2. ~ended => window \in Nat /\ offset + window <= Len(live)
  BY <1>0, WindowBound
<1>3. before \in Nat
  BY DEF IInv, Shape, Takings
<1>r. reached \in Nat /\ got \in Nat /\ ended \in BOOLEAN
  BY <1>2, <1>3
<1> HIDE DEF window, before
<1>a. /\ service' \in Sessions
      /\ service'.open = service.open /\ service'.image = service.image
      /\ service'.entries = service.entries
      /\ service'.cat_cursor = service.cat_cursor
      /\ service'.read_index = index /\ service'.read_offset = reached
  <2>1. service \in Sessions
    BY DEF IInv, TypeOK
  <2>2. /\ service' = [service EXCEPT !.read_index = index, !.read_offset = reached]
        /\ reached \in Nat
    BY <1>1, <1>r
  <2> HIDE DEF reached
  <2> HIDE DEF ended, window
  <2>3. service' \in Sessions
    BY <2>1, <2>2 DEF Sessions
  <2> QED BY <2>1, <2>2, <2>3 DEF Sessions
<1>b. /\ taken' \in Takings /\ taken'.index = index /\ taken'.more = ~ended
      /\ taken'.bytes = got /\ taken'.lines = taken.lines
  <2>1. taken \in Takings
    BY DEF IInv, Shape
  <2>2. taken' = [taken EXCEPT !.index = index, !.more = ~ended, !.bytes = got]
    BY <1>1
  <2>3. (~ended) \in BOOLEAN /\ got \in Nat
    BY <1>r
  <2> HIDE DEF got, ended
  <2>4. taken' \in Takings
    BY <2>1, <2>2, <2>3 DEF Takings
  <2> QED BY <2>1, <2>2, <2>3, <2>4 DEF Takings
<1>4. TypeOK'
  BY <1>1, <1>a DEF IInv, TypeOK
<1>5. Shape'
  BY <1>1, <1>a, <1>b DEF IInv, Shape
<1>6. tidy => before = offset
  BY DEF before
<1>7. StreamLive'
  BY <1>1, <1>2, <1>3, <1>6, <1>a, <1>b DEF StreamLive, Reading, Tracks
<1>8. ListTracks'
  BY <1>a, <1>b DEF IInv, ListTracks
<1>9. ReadExact'
  <2> SUFFICES ASSUME tidy, ~ended PROVE ReadExact'
    BY <1>1 DEF ReadExact, Answered
  <2>1. service'.image = service.image
    BY <1>a
  <2>2. Asked' = media_extract(service.image, index)
    BY <1>1, <2>1 DEF Asked
  <2>3. Len(reply'.data) = window
    <3>1. reply'.data = SubSeq(live, offset + 1, offset + window)
      BY <1>1
    <3>2. Len(SubSeq(live, offset + 1, offset + window)) = window
      BY <1>2
    <3> QED BY <3>1, <3>2
  <2> QED BY <1>1, <1>6, <2>2, <2>3 DEF ReadExact, Answered
<1>10. EofWhole'
  <2> SUFFICES ASSUME tidy, ended PROVE EofWhole'
    BY <1>1 DEF EofWhole, Answered
  <2>1. service'.image = service.image
    BY <1>a
  <2>2. Asked' = media_extract(service.image, index)
    BY <1>1, <2>1 DEF Asked
  <2> QED BY <1>1, <1>6, <2>2 DEF EofWhole, Answered
<1>11. ListComplete'
  BY <1>1 DEF ListComplete, Answered
<1> QED BY <1>4, <1>5, <1>7, <1>8, <1>9, <1>10, <1>11 DEF IInv

\* READ: refused, failed, from a new stream, or from the live one.
LEMMA ReadStep ==
  ASSUME IInv, NEW index \in Indices, NEW capacity \in Capacities,
         dispatch_read(index, capacity)
  PROVE  IInv'
<1> DEFINE guard == Guard(index, capacity, Header)
           fresh == media_extract(service.image, index)
<1>1. CASE /\ guard # "ok"
           /\ reply' = [NoReply EXCEPT !.command = "read", !.status = guard,
                                       !.index = index]
           /\ UNCHANGED <<service, stream, taken, tidy>>
  <2>1. reply'.command = "read" /\ reply'.status \notin {"ok", "eof"}
    BY <1>1 DEF NoReply, Guard
  <2>2. (TypeOK /\ Shape /\ StreamLive /\ ListTracks)'
    BY <1>1 DEF IInv, TypeOK, Shape, StreamLive, ListTracks, Reading, Tracks
  <2> QED BY <2>1, <2>2 DEF IInv, ReadExact, EofWhole, ListComplete, Answered
<1>2. CASE ReadFails(index, fresh.status)
  <2>1. /\ reply'.command = "read" /\ reply'.status \notin {"ok", "eof"}
        /\ stream' = [stream EXCEPT !.data = <<>>] /\ tidy' = (tidy /\ ~Reading)
        /\ service' = service /\ taken' = taken
    BY <1>2 DEF ReadFails, NoReply
  <2>2. (TypeOK /\ Shape)'
    <3>1. stream' = [valid |-> stream.valid, index |-> stream.index, data |-> <<>>]
      BY <2>1 DEF IInv, Shape
    <3>2. <<>> \in Seq(Range(<<>>))
      OBVIOUS
    <3> QED BY <2>1, <3>1, <3>2 DEF IInv, TypeOK, Shape, Reading
  <2>3. (StreamLive /\ ListTracks)'
    BY <2>1 DEF IInv, StreamLive, ListTracks, Reading, Shape
  <2> QED BY <2>1, <2>2, <2>3 DEF IInv, ReadExact, EofWhole, ListComplete, Answered
<1>3. guard = "ok" => service.open /\ Upto(capacity, ReplyMax) >= Header
  BY DEF Guard, Upto
<1>4. service.open => fresh.data \in Seq(Range(fresh.data))
  BY ImagesAssumption DEF IInv, Shape
<1>5. CASE /\ guard = "ok" /\ NeedsExtract(index) /\ fresh.status = "ok"
           /\ ReadWindow(index, fresh.data, 0, capacity) /\ UNCHANGED tidy
  <2>1. tidy => ~(Reading /\ taken.index = index)
    BY <1>5 DEF IInv, StreamLive, Tracks, NeedsExtract, Shape
  <2> QED BY <1>3, <1>4, <1>5, <2>1, WindowStep
<1>6. CASE /\ guard = "ok" /\ ~NeedsExtract(index)
           /\ ReadWindow(index, stream.data, service.read_offset, capacity)
           /\ UNCHANGED tidy
  <2>1. stream.valid /\ stream.index = index
    BY <1>6 DEF NeedsExtract, IInv, TypeOK
  <2>2. tidy => /\ fresh.status = "ok" /\ stream.data = fresh.data
                /\ Reading /\ taken.index = index /\ service.read_offset = taken.bytes
                /\ taken.bytes <= Len(stream.data)
    BY <2>1 DEF IInv, StreamLive, Tracks
  <2>3. service.read_offset \in Nat /\ stream.data \in Seq(Range(stream.data))
    BY DEF IInv, TypeOK, Shape, Sessions
  <2> QED BY <1>3, <1>6, <2>2, <2>3, WindowStep
<1> QED BY <1>1, <1>2, <1>5, <1>6 DEF dispatch_read

\* CLOSE forgets the session and marks the stream dead: tidy again.
LEMMA CloseStep ==
  ASSUME IInv, dispatch_close
  PROVE  IInv'
<1>1. /\ service' = Closed /\ stream' = [stream EXCEPT !.valid = FALSE]
      /\ taken' = Nothing /\ tidy' = TRUE /\ reply'.command = "close"
  BY DEF dispatch_close, Answer, NoReply
<1>2. /\ <<>> \in Seq(Entries) /\ Len(<<>>) = 0 /\ 0 \in Indices
      /\ MaxEntries \in Nat
  BY DEF Indices
<1>3. /\ stream'.valid = FALSE /\ stream'.index = stream.index
      /\ stream'.data = stream.data
      /\ stream' = [valid |-> FALSE, index |-> stream.index, data |-> stream.data]
  BY <1>1 DEF IInv, Shape
<1>4. TypeOK'
  BY <1>1, <1>2, <1>3 DEF IInv, TypeOK, Closed, Sessions
<1>5. Shape'
  BY <1>1, <1>2, <1>3 DEF IInv, Shape, Closed, Nothing, Takings
<1>6. (StreamLive /\ ListTracks)'
  BY <1>1, <1>3 DEF StreamLive, ListTracks, Reading, Nothing, Closed
<1> QED BY <1>1, <1>4, <1>5, <1>6, PlainAnswer DEF IInv

\* Every step keeps the inductive invariant.
LEMMA NextIInv == IInv /\ [Next]_vars => IInv'
<1> SUFFICES ASSUME IInv, [Next]_vars PROVE IInv'
  OBVIOUS
<1>1. ASSUME NEW capacity \in Capacities, dispatch_open(capacity) PROVE IInv'
  <2>1. reply'.command = "open" /\ UNCHANGED <<service, stream, taken, tidy>>
    BY <1>1 DEF dispatch_open, Answer, NoReply
  <2> QED BY <2>1, QuietStep
<1>2. ASSUME NEW index \in Indices, NEW capacity \in Capacities,
             dispatch_info(index, capacity)
      PROVE  IInv'
  <2>1. reply'.command = "info" /\ UNCHANGED <<service, stream, taken, tidy>>
    BY <1>2 DEF dispatch_info, NoReply
  <2> QED BY <2>1, QuietStep
<1>3. CASE dispatch_unknown
  <2>1. reply'.command = "unknown" /\ UNCHANGED <<service, stream, taken, tidy>>
    BY <1>3 DEF dispatch_unknown, Answer, NoReply
  <2> QED BY <2>1, QuietStep
<1>4. CASE UNCHANGED vars
  BY <1>4 DEF vars, IInv, TypeOK, Shape, StreamLive, ListTracks, Tracks, Reading,
              ReadExact, EofWhole, ListComplete, Answered, Asked
<1>5. CASE media_service_dispatch
  BY <1>1, <1>2, <1>3, <1>5, CatStep, ReadStep, CloseStep DEF media_service_dispatch
<1> QED BY <1>4, <1>5, OpenStep DEF Next

\* For every container the decoder handles and every reply capacity: a READ
\* returns the bytes that follow what the host has, however READs of several
\* files, CATs and INFOs are interleaved (dispatch_read), as long as tidy holds:
\* since the last CLOSE no container was bound, and no extraction of another file
\* failed, while a file was half read.  In those two cases the code does return
\* bytes of the wrong file or from the wrong place.
THEOREM MediaReads == Spec => []ReadExact
<1>1. IInv => ReadExact
  BY DEF IInv
<1> QED BY <1>1, InitIInv, NextIInv, PTL DEF Spec

\* dispatch_read reports the end of a file only once the host has all of it, as
\* long as tidy holds: after a failed extraction of another file, or a container
\* bound while a file was half read, it may report the end early.
THEOREM MediaEnds == Spec => []EofWhole
<1>1. IInv => EofWhole
  BY DEF IInv
<1> QED BY <1>1, InitIInv, NextIInv, PTL DEF Spec

\* The listing gives every entry once and in order before it ends (dispatch_cat).
THEOREM MediaLists == Spec => []ListComplete
<1>1. IInv => ListComplete
  BY DEF IInv
<1> QED BY <1>1, InitIInv, NextIInv, PTL DEF Spec

\* The session's fields stay in range; in particular the cursor stays within
\* the entries array (media_service, media_service_core.h).
THEOREM MediaTypes == Spec => []TypeOK
<1>1. IInv => TypeOK
  BY DEF IInv
<1> QED BY <1>1, InitIInv, NextIInv, PTL DEF Spec
=============================================================================

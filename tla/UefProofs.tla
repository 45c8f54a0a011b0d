------------------------------ MODULE UefProofs ------------------------------
(***************************************************************************)
(* Proofs about the UEF tape: the Pi side alone, under any host, and the    *)
(* whole session of host, mailbox and Pi.  They hold for every buffer and   *)
(* window size, every set of bytes, every decoder and every set of files.   *)
(***************************************************************************)
EXTENDS UefSession, SequenceTheorems, TLAPS

USE ConstantsAssumption

\* Writing a sequence of bytes over a buffer gives a buffer.
LEMMA WriteBufType ==
  ASSUME NEW b \in [0..Capacity - 1 -> Byte], NEW at \in Nat, NEW s \in Seq(Byte)
  PROVE  WriteBuf(b, at, s) \in [0..Capacity - 1 -> Byte]
<1>1. \A i \in 0..Capacity - 1 :
        (IF i - at \in 0..Len(s) - 1 THEN s[i - at + 1] ELSE b[i]) \in Byte
  OBVIOUS
<1>2. DOMAIN b = 0..Capacity - 1
  OBVIOUS
<1> QED BY <1>1, <1>2 DEF WriteBuf

\* A window laid from any position of a buffer is a window of bytes.
LEMMA LaidType ==
  ASSUME NEW b \in [0..Capacity - 1 -> Byte], NEW c \in Nat, NEW k \in 0..Capacity
  PROVE  Laid(b, c, k) \in LaidWindows
<1>1. \A i \in 0..k - 1 : ReadBuf(b, c + i) \in Byte
  BY DEF ReadBuf
<1>2. Laid(b, c, k) \in [0..k - 1 -> Byte]
  BY <1>1 DEF Laid
<1> QED BY <1>2 DEF LaidWindows

\* A host window is a window of bytes.
LEMMA WindowType ==
  ASSUME NEW s \in Seq(Byte), Len(s) <= Capacity
  PROVE  Window(s) \in LaidWindows
<1>1. Len(s) \in 0..Capacity
  OBVIOUS
<1>2. Window(s) \in [0..Len(s) - 1 -> Byte]
  BY DEF Window
<1> QED BY <1>1, <1>2 DEF LaidWindows

\* A window with nothing laid in it is one the aperture may hold.
LEMMA EmptyWindowType == Window(<<>>) \in LaidWindows
<1>1. Window(<<>>) \in [0..0 - 1 -> Byte]
  BY DEF Window
<1> QED BY <1>1, 0 \in 0..Capacity DEF LaidWindows

\* How many bytes uef_stream_publish lays, and that from within the stream it
\* never lays more than there are.
LEMMA CountFacts ==
  ASSUME NEW n \in Nat, NEW c \in Nat, NEW g \in BOOLEAN
  PROVE  /\ Count(n, c, g) \in 0..FlatWindow
         /\ c <= n => c + Count(n, c, g) <= n
BY DEF Count, Limit

\* The aperture holds bytes.
LEMMA LaidBytes == TypeOK => \A i \in DOMAIN jim.laid : jim.laid[i] \in Byte
<1> SUFFICES ASSUME TypeOK PROVE \A i \in DOMAIN jim.laid : jim.laid[i] \in Byte
  OBVIOUS
<1>1. jim \in Aperture
  BY DEF TypeOK
<1>2. jim.laid \in LaidWindows
  BY <1>1 DEF Aperture
<1> DEFINE laid == jim.laid
<1>3. laid \in LaidWindows
  BY <1>2
<1> HIDE DEF laid
<1>4. \A i \in DOMAIN laid : laid[i] \in Byte
  BY <1>3 DEF LaidWindows
<1> QED BY <1>4 DEF laid

\* What APPEND reads from the aperture is a sequence of the length asked for.
LEMMA UploadBytesType ==
  ASSUME TypeOK, NEW n \in Nat
  PROVE  UploadBytes(n) \in Seq(Byte) /\ Len(UploadBytes(n)) = n
<1>1. \A i \in DOMAIN jim.laid : jim.laid[i] \in Byte
  BY LaidBytes
<1>2. \A i \in 1..n : (IF jim.shape \in {"upload", "legacy"} /\ i - 1 \in DOMAIN jim.laid
                       THEN jim.laid[i - 1] ELSE Junk) \in Byte
  BY <1>1
<1>3. UploadBytes(n) \in [1..n -> Byte]
  BY <1>2 DEF UploadBytes
<1> QED BY <1>3

\* The repair leaves a buffer of bytes.
LEMMA RepairType ==
  ASSUME NEW b \in [0..Capacity - 1 -> Byte], NEW n \in 0..Capacity
  PROVE  uef_repair_filev_stamp(b, n) \in [0..Capacity - 1 -> Byte]
BY ConstantsAssumption DEF uef_repair_filev_stamp

\* Writing the length trailer leaves an aperture.
LEMMA TrailerType ==
  ASSUME NEW j \in Aperture, NEW n \in 0..Capacity
  PROVE  [j EXCEPT !.trailer = n] \in Aperture
BY DEF Aperture

-----------------------------------------------------------------------------
(* Type correctness.                                                        *)

\* uef_stream_publish from anywhere in a typed buffer keeps the types of what
\* it assigns.
LEMMA PublishType ==
  ASSUME TypeOK, NEW b \in [0..Capacity - 1 -> Byte], NEW n \in 0..Capacity,
         NEW c \in Nat, NEW g \in BOOLEAN, uef_stream_publish(b, n, c, g)
  PROVE  /\ cursor' \in Nat /\ pubOffset' \in Nat
         /\ pubLength' \in 0..FlatWindow
         /\ pubFinal' \in BOOLEAN
         /\ jim' \in Aperture
<1> DEFINE k == Count(n, c, g)
<1>1. k \in 0..FlatWindow /\ k \in 0..Capacity
  <2>1. n \in Nat
    OBVIOUS
  <2>2. Count(n, c, g) \in 0..FlatWindow
    BY <2>1, CountFacts
  <2> QED BY <2>2
<1>2. Laid(b, c, k) \in LaidWindows
  BY <1>1, LaidType
<1>3. Shape(g) \in {"flat", "guard"}
  BY DEF Shape
<1>4. /\ pubOffset' = c /\ cursor' = c + k /\ pubLength' = k
      /\ pubFinal' = (c + k = n)
      /\ jim' = IF k = 0 THEN [jim EXCEPT !.trailer = 0]
               ELSE [laid |-> Laid(b, c, k), shape |-> Shape(g), trailer |-> k]
  BY DEF uef_stream_publish
<1> HIDE DEF k
<1>5. pubFinal' \in BOOLEAN
  BY <1>4, Zenon
<1>6. jim' \in Aperture
  <2>1. CASE k = 0
    <3>1. jim' = [jim EXCEPT !.trailer = 0] /\ jim \in Aperture /\ 0 \in 0..Capacity
      BY <1>4, <2>1 DEF TypeOK
    <3> QED BY <3>1, TrailerType
  <2>2. CASE k # 0
    <3>1. jim' = [laid |-> Laid(b, c, k), shape |-> Shape(g), trailer |-> k]
      BY <1>4, <2>2
    <3> QED BY <1>1, <1>2, <1>3, <3>1 DEF Aperture
  <2> QED BY <2>1, <2>2
<1> QED BY <1>1, <1>4, <1>5, <1>6

\* uef_stream_republish lays down a window of the right shape and moves no
\* cursor.
LEMMA RepublishType ==
  ASSUME TypeOK, uef_stream_republish
  PROVE  jim' \in Aperture
<1>1. Laid(buf, pubOffset, pubLength) \in LaidWindows
  BY LaidType DEF TypeOK
<1>2. Shape(guard) \in {"flat", "guard"}
  BY DEF Shape
<1>3. CASE pubLength = 0
  BY <1>3 DEF TypeOK, Aperture, uef_stream_republish
<1>4. CASE pubLength # 0
  <2>1. jim' = [laid |-> Laid(buf, pubOffset, pubLength),
                shape |-> Shape(guard), trailer |-> pubLength]
    BY <1>4 DEF uef_stream_republish
  <2>2. pubLength \in 0..Capacity
    BY DEF TypeOK
  <2> QED BY <1>1, <1>2, <2>1, <2>2 DEF Aperture
<1> QED BY <1>3, <1>4

\* What Decode yields fits a buffer and a window.
LEMMA DecodeType ==
  ASSUME NEW s \in DOMAIN Decode
  PROVE  /\ Decode[s].out \in Seq(Byte)
         /\ Len(Decode[s].out) \in 0..Capacity
         /\ \A b \in [0..Capacity - 1 -> Byte] :
              WriteBuf(b, 0, Decode[s].out) \in [0..Capacity - 1 -> Byte]
<1>1. Decode[s].out \in Seq(Byte) /\ Len(Decode[s].out) <= Capacity
  BY DecodeAssumption DEF Outcome
<1> QED BY <1>1, WriteBufType

\* A refused command changes the reply alone.
LEMMA RefuseType == TypeOK /\ Refuse => TypeOK'
BY DEF TypeOK, Refuse, streamVars, windowVars, Texts, Param

\* PROBE changes the reply alone.
LEMMA ProbeType == TypeOK /\ Probe => TypeOK'
BY DEF TypeOK, Probe, streamVars, windowVars, Texts, Ok

\* uef_stream_clear leaves an empty stream and an empty aperture.
LEMMA ClearType ==
  ASSUME TypeOK, uef_stream_clear, uploadActive' \in BOOLEAN,
         token' \in 0..TokenMod - 1, result' \in Texts, guard' = guard
  PROVE  TypeOK'
<1>1. jim' \in Aperture
  <2>1. jim' = [jim EXCEPT !.trailer = 0] /\ jim \in Aperture /\ 0 \in 0..Capacity
    BY DEF TypeOK, uef_stream_clear
  <2> QED BY <2>1, TrailerType
<1>2. NoAppend \in [seq : 0..GenMod - 1, bytes : Seq(Byte)]
  BY DEF NoAppend
<1>3. /\ streamLength' = 0 /\ cursor' = 0 /\ pubOffset' = 0 /\ pubLength' = 0
      /\ generation' = 0 /\ lastAppend' = NoAppend
      /\ pubFinal' = FALSE /\ ready' = FALSE /\ format' = None /\ buf' = buf
  BY DEF uef_stream_clear
<1>4. /\ 0 \in 0..Capacity /\ 0 \in Nat /\ 0 \in 0..FlatWindow
      /\ 0 \in 0..GenMod - 1
  OBVIOUS
<1> QED BY <1>1, <1>2, <1>3, <1>4, Zenon DEF TypeOK

\* APPEND, stored, repeated or refused, stays within uef_stream and keeps the
\* record of the last append well formed.
LEMMA AppendType ==
  ASSUME TypeOK, NEW t \in Tokens, NEW v \in Values, NEW n \in 0..UploadMax,
         NEW crc \in Crcs, Append93(t, v, n, crc)
  PROVE  TypeOK'
<1> DEFINE len == UploadLength(n)
           s == UploadBytes(len)
<1>1. CASE Refuse
  BY <1>1, RefuseType
<1>2. CASE Probe
  BY <1>2, ProbeType
<1>3. CASE /\ len \in 1..UploadMax
           /\ streamLength + len <= Capacity
           /\ buf' = WriteBuf(buf, streamLength, s)
           /\ streamLength' = streamLength + len
           /\ lastAppend' = [seq |-> v, bytes |-> s]
           /\ generation' = Succ(generation)
           /\ result' = Ok
           /\ UNCHANGED <<format, ready, uploadActive, windowVars, token, guard, jim>>
  <2>1. len \in Nat /\ s \in Seq(Byte) /\ Len(s) = len
    BY <1>3, UploadBytesType
  <2> HIDE DEF len, s
  <2>2. buf' \in [0..Capacity - 1 -> Byte]
    BY <1>3, <2>1, WriteBufType DEF TypeOK
  <2>3. Succ(generation) \in 0..GenMod - 1 /\ v \in 0..GenMod - 1
    BY DEF Succ, Values, TypeOK
  <2>4. lastAppend' \in [seq : 0..GenMod - 1, bytes : Seq(Byte)]
    BY <1>3, <2>1, <2>3
  <2>5. streamLength' \in 0..Capacity
    BY <1>3, <2>1 DEF TypeOK
  <2> QED BY <1>3, <2>2, <2>3, <2>4, <2>5 DEF TypeOK, windowVars, Texts, Ok
<1> QED BY <1>1, <1>2, <1>3 DEF Append93

\* A FINALIZE that accepts a stream leaves it ready and published from its
\* start.
LEMMA FinishedType ==
  ASSUME TypeOK, NEW b \in [0..Capacity - 1 -> Byte], NEW n \in 0..Capacity,
         NEW f \in {"R", "G", "Z"}, Finished(b, n, f)
  PROVE  TypeOK'
<1> DEFINE r == uef_repair_filev_stamp(b, n)
<1>0. r \in [0..Capacity - 1 -> Byte]
  BY RepairType
<1>1. uef_stream_publish(r, n, 0, guard) /\ guard \in BOOLEAN
  BY DEF Finished, TypeOK
<1>2. Succ(generation) \in 0..GenMod - 1
  BY DEF Succ, TypeOK
<1>3. /\ cursor' \in Nat /\ pubOffset' \in Nat
      /\ pubLength' \in 0..FlatWindow
      /\ pubFinal' \in BOOLEAN
      /\ jim' \in Aperture
  <2> HIDE DEF r
  <2> QED BY <1>0, <1>1, PublishType
<1>4. /\ buf' = r /\ streamLength' = n /\ format' = f
      /\ ready' = TRUE /\ uploadActive' = FALSE
      /\ generation' = Succ(generation) /\ result' = Ok
      /\ lastAppend' = lastAppend /\ token' = token /\ guard' = guard
  BY DEF Finished
<1> HIDE DEF r
<1> QED BY <1>0, <1>2, <1>3, <1>4 DEF TypeOK, Texts, Ok

\* A FINALIZE that fails may have changed bytes of uef_stream and nothing else.
LEMMA UnfinishedType ==
  ASSUME TypeOK, NEW b \in [0..Capacity - 1 -> Byte], NEW text \in Texts,
         Unfinished(b, text)
  PROVE  TypeOK'
BY DEF Unfinished, TypeOK, windowVars

\* FINALIZE, with any container and any outcome of inflating it.
LEMMA FinalizeType ==
  ASSUME TypeOK, NEW t \in Tokens, Finalize(t)
  PROVE  TypeOK'
<1> DEFINE image == Content(buf, streamLength)
           d == Decode[image]
           b == WriteBuf(buf, 0, d.out)
<1>1. CASE Refuse
  BY <1>1, RefuseType
<1>2. CASE Finished(buf, streamLength, "R")
  BY <1>2, FinishedType DEF TypeOK
<1>3. CASE Unfinished(buf, "INVALID") \/ Unfinished(buf, "TOO LARGE")
  BY <1>3, UnfinishedType DEF TypeOK, Texts
<1>4. CASE image \in DOMAIN Decode /\ Unfinished(b, OverflowText)
  BY <1>4, DecodeType, UnfinishedType DEF TypeOK, Texts, OverflowText
<1>5. CASE image \in DOMAIN Decode /\ Unfinished(b, "INVALID")
  BY <1>5, DecodeType, UnfinishedType DEF TypeOK, Texts
<1>6. CASE image \in DOMAIN Decode
           /\ Finished(b, Len(d.out), IF d.container = "gzip" THEN "G" ELSE "Z")
  BY <1>6, DecodeType, FinishedType DEF TypeOK
<1> QED BY <1>1, <1>2, <1>3, <1>4, <1>5, <1>6 DEF Finalize

\* REWIND, REFILL, REPUBLISH and the guard publish from where they stand.
LEMMA PublishStepType ==
  ASSUME TypeOK, NEW c \in Nat, NEW g \in BOOLEAN,
         uef_stream_publish(buf, streamLength, c, g),
         guard' \in BOOLEAN, generation' \in 0..GenMod - 1, result' \in Texts,
         UNCHANGED <<streamVars, token>>
  PROVE  TypeOK'
<1>1. buf \in [0..Capacity - 1 -> Byte] /\ streamLength \in 0..Capacity
  BY DEF TypeOK
<1>2. /\ cursor' \in Nat /\ pubOffset' \in Nat
      /\ pubLength' \in 0..FlatWindow
      /\ pubFinal' \in BOOLEAN
      /\ jim' \in Aperture
  BY <1>1, PublishType
<1> QED BY <1>2 DEF TypeOK, streamVars

\* A step that touches the aperture alone.
LEMMA JimStepType ==
  ASSUME TypeOK, jim' \in Aperture, result' \in Texts,
         guard' \in BOOLEAN,
         UNCHANGED <<streamVars, windowVars, token, generation>>
  PROVE  TypeOK'
BY DEF TypeOK, streamVars, windowVars

\* REWIND, REFILL, REPUBLISH and CLOSE.
LEMMA ReadStepsType ==
  ASSUME TypeOK, NEW t \in Tokens,
         \/ Rewind(t) \/ Republish(t) \/ Close(t)
         \/ \E v \in Values : Refill(t, v)
  PROVE  TypeOK'
<1>1. Succ(generation) \in 0..GenMod - 1
  BY DEF Succ, TypeOK
<1>2. CASE Refuse
  BY <1>2, RefuseType
<1>3. CASE Rewind(t) /\ ~Refuse
  BY <1>1, <1>3, PublishStepType DEF Rewind, Texts, Ok, TypeOK
<1>4. CASE (\E v \in Values : Refill(t, v)) /\ ~Refuse
  <2>1. CASE /\ generation' = Succ(generation)
             /\ uef_stream_publish(buf, streamLength, cursor, guard)
             /\ result' = Ok
             /\ UNCHANGED <<streamVars, token, guard>>
    BY <1>1, <2>1, PublishStepType DEF Texts, Ok, TypeOK
  <2>2. CASE /\ uef_stream_republish
             /\ result' = Ok
             /\ UNCHANGED <<streamVars, windowVars, token, generation, guard>>
    BY <2>2, RepublishType, JimStepType DEF Texts, Ok, TypeOK
  <2> QED BY <1>4, <2>1, <2>2 DEF Refill
<1>5. CASE Republish(t) /\ ~Refuse
  BY <1>5, RepublishType, JimStepType DEF Republish, Texts, Ok, TypeOK
<1>6. CASE Close(t) /\ ~Refuse
  BY <1>6, ClearType DEF Close, Texts, Ok, TypeOK
<1> QED BY <1>2, <1>3, <1>4, <1>5, <1>6

\* The guard command, with a length it takes and with one it refuses.
LEMMA GuardType ==
  ASSUME TypeOK, NEW on \in BOOLEAN, GuardImage(on)
  PROVE  TypeOK'
<1>1. result' \in Texts /\ guard' \in BOOLEAN /\ generation' \in 0..GenMod - 1
  BY DEF GuardImage, Texts, Ok, TypeOK
<1>2. CASE uef_stream_publish(buf, streamLength, pubOffset, on)
  BY <1>1, <1>2, PublishStepType DEF GuardImage, TypeOK
<1>3. CASE /\ jim' = IF on THEN [jim EXCEPT !.trailer = GuardTrailer] ELSE jim
           /\ UNCHANGED windowVars
  <2>1. jim \in Aperture /\ GuardTrailer \in 0..Capacity
    BY DEF TypeOK
  <2>2. jim' \in Aperture
    BY <1>3, <2>1, TrailerType
  <2> QED BY <1>1, <1>3, <2>2, JimStepType DEF GuardImage
<1> QED BY <1>2, <1>3 DEF GuardImage

\* What the host and other users of the aperture write there.
LEMMA HostType ==
  ASSUME TypeOK, ForeignUse \/ \E s \in Chunks : HostWrites(s)
  PROVE  TypeOK'
<1>1. CASE ForeignUse
  <2>3. jim' \in Aperture
    BY <1>1, EmptyWindowType, 0 \in 0..Capacity DEF ForeignUse, Aperture
  <2> QED BY <1>1, <2>3, JimStepType DEF ForeignUse, TypeOK
<1>2. ASSUME NEW s \in Chunks, HostWrites(s)
      PROVE  TypeOK'
  <2>1. s \in Seq(Byte) /\ Len(s) \in 0..Capacity
    OBVIOUS
  <2>2. Window(s) \in LaidWindows
    BY <2>1, WindowType
  <2>3. jim' \in Aperture
    BY <1>2, <2>1, <2>2 DEF HostWrites, Aperture
  <2> QED BY <1>2, <2>3, JimStepType DEF HostWrites, TypeOK
<1> QED BY <1>1, <1>2

\* Every step of the incremental protocol keeps the types: one case per command.
LEMMA IncrementalType == TypeOK /\ [IncrementalNext]_vars => TypeOK'
<1> SUFFICES ASSUME TypeOK, [IncrementalNext]_vars PROVE TypeOK'
  OBVIOUS
<1>1. CASE Probe
  BY <1>1, ProbeType
<1>2. CASE Begin
  <2>1. NextToken(token) \in 0..TokenMod - 1
    BY DEF NextToken, TypeOK
  <2> QED BY <1>2, <2>1, ClearType DEF Begin, Texts, Ok
<1>3. CASE \E t \in Tokens, v \in Values, n \in 0..UploadMax, crc \in Crcs :
             Append93(t, v, n, crc)
  BY <1>3, AppendType
<1>4. CASE \E t \in Tokens : Finalize(t)
  BY <1>4, FinalizeType
<1>5. CASE \E t \in Tokens : Rewind(t) \/ Republish(t) \/ Close(t)
  BY <1>5, ReadStepsType
<1>6. CASE \E t \in Tokens, v \in Values : Refill(t, v)
  BY <1>6, ReadStepsType
<1>7. CASE \E on \in BOOLEAN : GuardImage(on)
  BY <1>7, GuardType
<1>8. CASE GuardImageBadLength
  BY <1>8, RefuseType DEF GuardImageBadLength
<1>9. CASE (\E s \in Chunks : HostWrites(s)) \/ ForeignUse
  BY <1>9, HostType
<1>10. CASE UNCHANGED vars
  BY <1>10 DEF vars, streamVars, windowVars, TypeOK
<1> QED BY <1>1, <1>2, <1>3, <1>4, <1>5, <1>6, <1>7, <1>8, <1>9, <1>10
        DEF IncrementalNext

\* The backend is created with well-typed state.
LEMMA InitType == Init => TypeOK
<1> SUFFICES ASSUME Init PROVE TypeOK
  OBVIOUS
<1>1. <<>> \in Seq(Byte) /\ Len(<<>>) = 0
  OBVIOUS
<1>3. jim \in Aperture
  BY EmptyWindowType, 0 \in 0..Capacity DEF Init, Aperture
<1>4. lastAppend \in [seq : 0..GenMod - 1, bytes : Seq(Byte)]
  BY <1>1 DEF Init, NoAppend
<1>5. buf \in [0..Capacity - 1 -> Byte]
  BY DEF Init
<1>6. /\ 0 \in 0..Capacity /\ 0 \in Nat /\ 0 \in 0..FlatWindow
      /\ 0 \in 0..GenMod - 1 /\ 0 \in 0..TokenMod - 1
  OBVIOUS
<1> QED BY <1>3, <1>4, <1>5, <1>6, Zenon DEF Init, TypeOK, Texts, Ok

\* Every behaviour of a host that speaks stream ABI 1 keeps every field of the
\* backend's UEF state in its range: in particular the stream never outgrows
\* uef_stream and the published length fits its 16 bits.
THEOREM IncrementalTypeOK == IncrementalSpec => []TypeOK
<1> QED BY InitType, IncrementalType, PTL DEF IncrementalSpec

-----------------------------------------------------------------------------
(* The window is in step with the stream.                                   *)

InStepInv == InStep /\ WindowIsStream /\ UploadOrStream

\* Publishing from within the stream establishes all three at once.
LEMMA PublishInStep ==
  ASSUME TypeOK, TypeOK', NEW c \in Nat, c <= streamLength',
         uef_stream_publish(buf', streamLength', c, guard')
  PROVE  InStep' /\ WindowIsStream'
<1> DEFINE k == Count(streamLength', c, guard')
<1>1. streamLength' \in Nat /\ guard' \in BOOLEAN
  BY DEF TypeOK
<1>2. k \in Nat /\ c + k <= streamLength'
  <2>1. /\ Count(streamLength', c, guard') \in 0..FlatWindow
        /\ c <= streamLength' => c + Count(streamLength', c, guard') <= streamLength'
    BY <1>1, CountFacts
  <2> QED BY <2>1
<1>3. /\ pubOffset' = c /\ cursor' = c + k /\ pubLength' = k
      /\ (pubFinal' <=> c + k = streamLength')
      /\ k # 0 => jim' = [laid |-> Laid(buf', c, k), shape |-> Shape(guard'),
                          trailer |-> k]
  BY DEF uef_stream_publish
<1> HIDE DEF k
<1>4. InStep'
  BY <1>2, <1>3 DEF InStep
<1>5. WindowIsStream'
  <2> SUFFICES ASSUME pubLength' > 0
               PROVE  /\ jim'.shape = Shape(guard')
                      /\ jim'.laid = Laid(buf', pubOffset', pubLength')
                      /\ jim'.trailer = pubLength'
    BY DEF WindowIsStream
  <2>1. jim' = [laid |-> Laid(buf', c, k), shape |-> Shape(guard'), trailer |-> k]
    BY <1>2, <1>3
  <2> QED BY <1>3, <2>1
<1> QED BY <1>4, <1>5

\* A step that leaves the stream and its published window alone keeps InStep.
LEMMA UnchangedInStep ==
  ASSUME InStepInv, UNCHANGED <<streamVars, windowVars, guard>>,
         jim' = jim \/ jim'.shape \notin {"flat", "guard"}
  PROVE  InStepInv'
BY DEF InStepInv, InStep, WindowIsStream, UploadOrStream, streamVars, windowVars,
       Laid, ReadBuf, Shape

\* uef_stream_republish keeps the cursor right after the window it lays down.
LEMMA RepublishInStep ==
  ASSUME InStepInv, UNCHANGED <<streamVars, windowVars, guard>>, uef_stream_republish
  PROVE  InStepInv'
<1>1. CASE pubLength = 0
  BY <1>1, UnchangedInStep DEF uef_stream_republish
<1>2. CASE pubLength # 0
  <2>1. jim' = [laid |-> Laid(buf, pubOffset, pubLength),
                shape |-> Shape(guard), trailer |-> pubLength]
    BY <1>2 DEF uef_stream_republish
  <2>2. /\ buf' = buf /\ pubOffset' = pubOffset /\ pubLength' = pubLength
        /\ guard' = guard
    BY DEF streamVars, windowVars
  <2>3. WindowIsStream'
    BY <2>1, <2>2 DEF WindowIsStream
  <2>4. InStep' /\ UploadOrStream'
    BY DEF InStepInv, InStep, UploadOrStream, streamVars, windowVars
  <2> QED BY <2>3, <2>4 DEF InStepInv
<1> QED BY <1>1, <1>2

\* InStep asks nothing while no stream is ready.
LEMMA NotReadyInStep ==
  ASSUME ready' = FALSE
  PROVE  InStepInv'
BY DEF InStepInv, InStep, WindowIsStream, UploadOrStream

\* Every step of the incremental protocol keeps the cursor in step: one case per
\* command.
LEMMA IncrementalInStep ==
  TypeOK /\ TypeOK' /\ InStepInv /\ [IncrementalNext]_vars => InStepInv'
<1> SUFFICES ASSUME TypeOK, TypeOK', InStepInv, [IncrementalNext]_vars
             PROVE  InStepInv'
  OBVIOUS
<1>0. 0 <= streamLength /\ 0 <= streamLength' /\ 0 \in Nat
  BY DEF TypeOK
<1>1. CASE Refuse \/ Probe \/ GuardImageBadLength
  BY <1>1, UnchangedInStep DEF Refuse, Probe, GuardImageBadLength
<1>2. CASE Begin \/ \E t \in Tokens : Close(t) /\ ~Refuse
  BY <1>2, NotReadyInStep DEF Begin, Close, uef_stream_clear
<1>3. CASE \E t \in Tokens, v \in Values, n \in 0..UploadMax, crc \in Crcs :
             Append93(t, v, n, crc) /\ ~Refuse /\ ~Probe
  <2>1. uploadActive /\ ready' = ready
    BY <1>3 DEF Append93
  <2>2. ready' = FALSE
    BY <2>1 DEF InStepInv, UploadOrStream, TypeOK
  <2> QED BY <2>2, NotReadyInStep
<1>4. CASE \E t \in Tokens : Finalize(t) /\ ~Refuse
  <2>1. uploadActive
    BY <1>4 DEF Finalize
  <2>2. CASE \E b, n, f : Finished(b, n, f)
    <3>1. PICK b, n, f : Finished(b, n, f)
      BY <2>2
    <3>2. /\ uef_stream_publish(buf', streamLength', 0, guard')
          /\ uploadActive' = FALSE
      BY <3>1 DEF Finished, uef_stream_publish
    <3>3. InStep' /\ WindowIsStream'
      BY <1>0, <3>2, PublishInStep
    <3> QED BY <3>2, <3>3 DEF InStepInv, UploadOrStream
  <2>3. CASE \E b, text : Unfinished(b, text)
    <3>1. ready' = ready
      BY <2>3 DEF Unfinished
    <3>2. ready' = FALSE
      BY <2>1, <3>1 DEF InStepInv, UploadOrStream, TypeOK
    <3> QED BY <3>2, NotReadyInStep
  <2> QED BY <1>4, <2>2, <2>3 DEF Finalize
<1>5. CASE \E t \in Tokens : Rewind(t) /\ ~Refuse
  <2>1. /\ uef_stream_publish(buf', streamLength', 0, guard')
        /\ UNCHANGED streamVars
    BY <1>5 DEF Rewind, uef_stream_publish, streamVars
  <2>2. InStep' /\ WindowIsStream'
    BY <1>0, <2>1, PublishInStep
  <2> QED BY <2>1, <2>2 DEF InStepInv, UploadOrStream, streamVars
<1>6. CASE \E t \in Tokens, v \in Values : Refill(t, v) /\ ~Refuse
  <2>1. ready
    BY <1>6 DEF Refill, NotReady
  <2>2. CASE /\ uef_stream_publish(buf, streamLength, cursor, guard)
             /\ UNCHANGED <<streamVars, token, guard>>
    <3>1. /\ uef_stream_publish(buf', streamLength', cursor, guard')
          /\ UNCHANGED streamVars
      BY <2>2 DEF uef_stream_publish, streamVars
    <3>2. cursor <= streamLength' /\ cursor \in Nat
      BY <2>1, <3>1 DEF InStepInv, InStep, TypeOK, streamVars
    <3>3. InStep' /\ WindowIsStream'
      BY <3>1, <3>2, PublishInStep
    <3> QED BY <3>1, <3>3 DEF InStepInv, UploadOrStream, streamVars
  <2>3. CASE /\ uef_stream_republish
             /\ UNCHANGED <<streamVars, windowVars, token, generation, guard>>
    BY <2>3, RepublishInStep
  <2> QED BY <1>6, <2>2, <2>3 DEF Refill
<1>7. CASE \E t \in Tokens : Republish(t) /\ ~Refuse
  BY <1>7, RepublishInStep DEF Republish
<1>8. CASE \E on \in BOOLEAN : GuardImage(on)
  <2>1. PICK on \in BOOLEAN : GuardImage(on)
    BY <1>8
  <2>2. guard' = on /\ UNCHANGED streamVars
    BY <2>1 DEF GuardImage
  <2>3. CASE ready
    <3>1. uef_stream_publish(buf', streamLength', pubOffset, guard')
      BY <2>1, <2>2, <2>3 DEF GuardImage, uef_stream_publish, streamVars
    <3>2. pubOffset <= streamLength' /\ pubOffset \in Nat
      BY <2>2, <2>3 DEF InStepInv, InStep, TypeOK, streamVars
    <3>3. InStep' /\ WindowIsStream'
      BY <3>1, <3>2, PublishInStep
    <3> QED BY <2>2, <3>3 DEF InStepInv, UploadOrStream, streamVars
  <2>4. CASE ~ready
    BY <2>2, <2>4, NotReadyInStep DEF streamVars, TypeOK
  <2> QED BY <2>3, <2>4
<1>9. CASE (\E s \in Chunks : HostWrites(s)) \/ ForeignUse
  <2>1. UNCHANGED <<streamVars, windowVars, guard>>
        /\ jim'.shape \notin {"flat", "guard"}
    BY <1>9 DEF HostWrites, ForeignUse
  <2> QED BY <2>1, UnchangedInStep
<1>10. CASE UNCHANGED vars
  BY <1>10, UnchangedInStep DEF vars
<1> QED BY <1>1, <1>2, <1>3, <1>4, <1>5, <1>6, <1>7, <1>8, <1>9, <1>10
        DEF IncrementalNext

\* No stream is ready when the backend is created.
LEMMA InitInStep == Init => InStepInv
BY DEF Init, InStepInv, InStep, WindowIsStream, UploadOrStream

\* Whatever a stream-ABI host sends, in whatever order, lost and repeated as it
\* may be: the cursor stands behind the published window and inside the
\* stream, so `available` in uef_stream_publish never wraps.
THEOREM CursorInStep == IncrementalSpec => []InStep
<1>1. InStepInv => InStep
  BY DEF InStepInv
<1> QED BY <1>1, InitType, IncrementalType, InitInStep, IncrementalInStep, PTL
        DEF IncrementalSpec

\* ... and a published window the host can still see is exactly the bytes of
\* the stream at the published offset, in the current shape.
THEOREM WindowFaithful == IncrementalSpec => []WindowIsStream
<1>1. InStepInv => WindowIsStream
  BY DEF InStepInv
<1> QED BY <1>1, InitType, IncrementalType, InitInStep, IncrementalInStep, PTL
        DEF IncrementalSpec

-----------------------------------------------------------------------------
(* With the legacy import, and hosts that mix both forms of command 93.     *)

\* The legacy import leaves a stream of the length of what it took.
LEMMA LegacyType ==
  ASSUME TypeOK, NEW s \in Seq(Byte), Len(s) \in 0..Capacity, NEW f \in {"R", "G", "Z"},
         Legacy(Len(s), s, f)
  PROVE  TypeOK'
<1> DEFINE b == WriteBuf(buf, 0, s)
           n == Len(s)
<1>1. b \in [0..Capacity - 1 -> Byte]
  BY WriteBufType DEF TypeOK
<1>2. uef_repair_filev_stamp(b, n) \in [0..Capacity - 1 -> Byte]
  <2> HIDE DEF b
  <2> QED BY <1>1, RepairType
<1>3. Window(s) \in LaidWindows
  BY WindowType
<1>4. NextToken(token) \in 0..TokenMod - 1
  BY DEF NextToken, TypeOK
<1>5. jim' \in Aperture
  BY <1>3 DEF Legacy, Aperture
<1>6. /\ buf' = uef_repair_filev_stamp(b, n) /\ streamLength' = n /\ cursor' = 0
      /\ ready' = TRUE /\ uploadActive' = FALSE /\ token' = NextToken(token)
      /\ format' = f /\ result' = Ok /\ lastAppend' = lastAppend /\ pubOffset' = pubOffset
      /\ pubLength' = pubLength /\ pubFinal' = pubFinal /\ generation' = generation
      /\ guard' = guard
  BY DEF Legacy
<1>7. n \in 0..Capacity /\ 0 \in Nat
  OBVIOUS
<1> HIDE DEF b, n
<1> QED BY <1>2, <1>4, <1>5, <1>6, <1>7 DEF TypeOK, Texts, Ok

\* A refused import may have inflated into the aperture.
LEMMA LegacyRejectType ==
  ASSUME TypeOK, NEW text \in Texts, NEW j \in Aperture, LegacyReject(text, j)
  PROVE  TypeOK'
<1>1. jim' \in Aperture /\ result' \in Texts /\ guard' \in BOOLEAN
  BY DEF LegacyReject, TypeOK
<1>2. UNCHANGED <<streamVars, windowVars, token, generation>>
  BY DEF LegacyReject
<1> QED BY <1>1, <1>2, JimStepType

\* What the legacy import may come to: a refusal, or a stream that starts as a UEF.
LEMMA NormalizeCases ==
  ASSUME TypeOK, normalize_uef_control
  PROVE  \/ \E text \in Texts, j \in Aperture : LegacyReject(text, j)
         \/ \E s \in Seq(Byte), f \in {"R", "G", "Z"} :
              Legacy(Len(s), s, f) /\ Len(s) \in 1..Capacity /\ s[1] \in Magic
<1> DEFINE s == UploadBytes(jim.trailer)
           d == Decode[s]
           over == [jim EXCEPT !.laid = Window(d.out)]
<1>0. jim \in Aperture /\ jim.trailer \in 0..Capacity
  BY DEF TypeOK, Aperture
<1>1. s \in Seq(Byte) /\ Len(s) = jim.trailer
  BY <1>0, UploadBytesType
<1>2. CASE \E text \in Texts : LegacyReject(text, jim)
  BY <1>0, <1>2
<1>3. CASE s \in DOMAIN Decode /\ \E text \in Texts : LegacyReject(text, over)
  <2>1. Window(d.out) \in LaidWindows
    <3>1. d.out \in Seq(Byte) /\ Len(d.out) <= Capacity
      BY <1>3, DecodeType
    <3> QED BY <3>1, WindowType
  <2>2. over \in Aperture
    <3> DEFINE w == Window(d.out)
    <3> HIDE DEF w
    <3>1. [jim EXCEPT !.laid = w] \in Aperture
      BY <1>0, <2>1 DEF Aperture, w
    <3> QED BY <3>1 DEF w
  <2> QED BY <1>3, <2>2
<1>4. CASE jim.trailer \in 1..LegacyMax /\ s[1] \in Magic /\ Legacy(Len(s), s, "R")
  <2>1. Len(s) \in 1..Capacity
    BY <1>0, <1>1, <1>4
  <2> QED BY <1>1, <1>4, <2>1
<1>5. CASE s \in DOMAIN Decode /\ d.result = "ok"
           /\ Legacy(Len(d.out), d.out, IF d.container = "gzip" THEN "G" ELSE "Z")
  <2>1. d.out \in Seq(Byte) /\ Len(d.out) <= Capacity /\ d.out # <<>> /\ d.out[1] \in Magic
    BY <1>5, DecodeAssumption DEF Outcome
  <2> DEFINE o == d.out
             f == IF d.container = "gzip" THEN "G" ELSE "Z"
  <2>2. f \in {"R", "G", "Z"} /\ Legacy(Len(o), o, f)
    BY <1>5
  <2>3. o \in Seq(Byte) /\ Len(o) <= Capacity /\ o # <<>> /\ o[1] \in Magic
    BY <2>1
  <2> HIDE DEF o, f
  <2>4. Len(o) \in 1..Capacity
    BY <2>3
  <2> QED BY <2>2, <2>3, <2>4
<1>6. {"CONN", "TOO LARGE", "INVALID"} \subseteq Texts
  BY DEF Texts
<1>7. \/ \E text \in Texts : LegacyReject(text, jim)
      \/ s \in DOMAIN Decode /\ LegacyUnpack(s)
      \/ jim.trailer \in 1..LegacyMax /\ s[1] \in Magic /\ Legacy(Len(s), s, "R")
  BY <1>6 DEF normalize_uef_control
<1>8. ASSUME s \in DOMAIN Decode, LegacyUnpack(s)
      PROVE  \/ \E text \in Texts : LegacyReject(text, jim)
             \/ \E text \in Texts : LegacyReject(text, over)
             \/ d.result = "ok"
                /\ Legacy(Len(d.out), d.out, IF d.container = "gzip" THEN "G" ELSE "Z")
  BY <1>6, <1>8 DEF LegacyUnpack
<1> QED BY <1>2, <1>3, <1>4, <1>5, <1>7, <1>8

\* The legacy import keeps the types.
LEMMA NormalizeType ==
  ASSUME TypeOK, normalize_uef_control
  PROVE  TypeOK'
<1>1. ASSUME NEW s \in Seq(Byte), NEW f \in {"R", "G", "Z"}, Legacy(Len(s), s, f),
             Len(s) \in 1..Capacity
      PROVE  TypeOK'
  <2>1. Len(s) \in 0..Capacity
    BY <1>1
  <2> QED BY <1>1, <2>1, LegacyType
<1> QED BY <1>1, NormalizeCases, LegacyRejectType

OfferInv == OnlyUefOffered /\ UploadOrStream

\* A step that leaves the stream alone offers what was offered before.
LEMMA UnchangedOffer ==
  ASSUME OfferInv, UNCHANGED streamVars
  PROVE  OfferInv'
BY DEF OfferInv, OnlyUefOffered, UploadOrStream, streamVars

\* The repair leaves the first byte, and so the mark of a UEF.
LEMMA RepairKeepsFirst ==
  ASSUME NEW b \in [0..Capacity - 1 -> Byte], NEW n \in 0..Capacity
  PROVE  uef_repair_filev_stamp(b, n)[0] = b[0]
<1>1. 0 \in DOMAIN b /\ 0 \notin 1..n - 1
  OBVIOUS
<1> QED BY <1>1 DEF uef_repair_filev_stamp

\* What is written over the start of the buffer starts it.
LEMMA WrittenFirst ==
  ASSUME NEW b \in [0..Capacity - 1 -> Byte], NEW s \in Seq(Byte), Len(s) > 0
  PROVE  WriteBuf(b, 0, s)[0] = s[1]
<1>1. 0 \in DOMAIN b /\ 0 - 0 \in 0..Len(s) - 1 /\ 0 - 0 + 1 = 1
  OBVIOUS
<1> QED BY <1>1 DEF WriteBuf

\* FINALIZE offers what starts as a UEF.
LEMMA FinishedOffer ==
  ASSUME NEW b \in [0..Capacity - 1 -> Byte], NEW n \in 0..Capacity, NEW f,
         n > 0, b[0] \in Magic, Finished(b, n, f)
  PROVE  OfferInv'
<1>1. /\ buf' = uef_repair_filev_stamp(b, n) /\ streamLength' = n /\ uploadActive' = FALSE
  BY DEF Finished
<1> QED BY <1>1, RepairKeepsFirst DEF OfferInv, OnlyUefOffered, UploadOrStream

\* FINALIZE: the image is raw, or what it inflates to is.
LEMMA FinalizeOffer ==
  ASSUME TypeOK, OfferInv, NEW t \in Tokens, Finalize(t)
  PROVE  OfferInv'
<1> DEFINE image == Content(buf, streamLength)
           d == Decode[image]
           o == d.out
           b == WriteBuf(buf, 0, o)
           f == IF d.container = "gzip" THEN "G" ELSE "Z"
<1>0. /\ buf \in [0..Capacity - 1 -> Byte] /\ streamLength \in 0..Capacity
      /\ ready \in BOOLEAN
  BY DEF TypeOK
<1>1. CASE Refuse
  BY <1>1, UnchangedOffer DEF Refuse
<1>2. CASE streamLength # 0 /\ image[1] \in Magic /\ Finished(buf, streamLength, "R")
  <2>1. image[1] = buf[0] /\ streamLength > 0
    <3>1. 1 \in 1..streamLength /\ streamLength > 0
      BY <1>0, <1>2
    <3>2. image[1] = buf[1 - 1]
      BY <3>1 DEF Content
    <3> QED BY <3>1, <3>2
  <2> QED BY <1>0, <1>2, <2>1, FinishedOffer
<1>3. CASE uploadActive /\ \E c, text : Unfinished(c, text)
  <2>1. ready' = ready /\ uploadActive' = uploadActive
    BY <1>3 DEF Unfinished
  <2>2. ~ready
    BY <1>3 DEF OfferInv, UploadOrStream
  <2> QED BY <2>1, <2>2 DEF OfferInv, OnlyUefOffered, UploadOrStream
<1>4. CASE image \in DOMAIN Decode /\ d.result = "ok" /\ Finished(b, Len(o), f)
  <2>1. o \in Seq(Byte) /\ Len(o) \in 0..Capacity /\ o # <<>> /\ o[1] \in Magic
    BY <1>4, DecodeAssumption, DecodeType
  <2> HIDE DEF o, f
  <2>2. Len(o) > 0
    BY <2>1
  <2>3. b \in [0..Capacity - 1 -> Byte] /\ b[0] = o[1]
    BY <1>0, <2>1, <2>2, WriteBufType, WrittenFirst
  <2> HIDE DEF b
  <2> QED BY <1>4, <2>1, <2>2, <2>3, FinishedOffer
<1> HIDE DEF image, b
<1>5. \/ Refuse
      \/ /\ uploadActive /\ streamLength # 0
         /\ \/ image[1] \in Magic /\ Finished(buf, streamLength, "R")
            \/ \E c, text : Unfinished(c, text)
            \/ image \in DOMAIN Decode /\ d.result = "ok" /\ Finished(b, Len(o), f)
  BY DEF Finalize, image, b
<1> QED BY <1>1, <1>2, <1>3, <1>4, <1>5

\* The legacy import offers what starts as a UEF, or nothing new.
LEMMA NormalizeOffer ==
  ASSUME TypeOK, OfferInv, normalize_uef_control
  PROVE  OfferInv'
<1>1. ASSUME NEW text \in Texts, NEW j \in Aperture, LegacyReject(text, j) PROVE OfferInv'
  BY <1>1, UnchangedOffer DEF LegacyReject
<1>2. ASSUME NEW s \in Seq(Byte), NEW f \in {"R", "G", "Z"}, Legacy(Len(s), s, f),
             Len(s) \in 1..Capacity, s[1] \in Magic
      PROVE  OfferInv'
  <2> DEFINE b == WriteBuf(buf, 0, s)
             n == Len(s)
  <2>1. b \in [0..Capacity - 1 -> Byte] /\ b[0] = s[1]
    BY <1>2, WriteBufType, WrittenFirst DEF TypeOK
  <2>2. /\ buf' = uef_repair_filev_stamp(b, n) /\ streamLength' = n /\ uploadActive' = FALSE
    BY <1>2 DEF Legacy
  <2>3. n \in 0..Capacity /\ n > 0
    BY <1>2
  <2> HIDE DEF b, n
  <2> QED BY <1>2, <2>1, <2>2, <2>3, RepairKeepsFirst
          DEF OfferInv, OnlyUefOffered, UploadOrStream
<1> QED BY <1>1, <1>2, NormalizeCases

\* Every step, of either form of the command, keeps the offer sound.
LEMMA NextOffer ==
  ASSUME TypeOK, OfferInv, [Next]_vars
  PROVE  OfferInv'
<1>1. CASE Refuse \/ Probe \/ GuardImageBadLength
  BY <1>1, UnchangedOffer DEF Refuse, Probe, GuardImageBadLength
<1>2. CASE Begin \/ \E t \in Tokens : Close(t) /\ ~Refuse
  <2>1. ready' = FALSE
    BY <1>2 DEF Begin, Close, uef_stream_clear
  <2> QED BY <2>1 DEF OfferInv, OnlyUefOffered, UploadOrStream
<1>3. CASE \E t \in Tokens, v \in Values, n \in 0..UploadMax, crc \in Crcs :
             Append93(t, v, n, crc) /\ ~Refuse /\ ~Probe
  <2>1. uploadActive /\ ready' = ready
    BY <1>3 DEF Append93
  <2>2. ~ready'
    BY <2>1 DEF OfferInv, UploadOrStream
  <2> QED BY <2>2 DEF OfferInv, OnlyUefOffered, UploadOrStream
<1>4. CASE \E t \in Tokens : Finalize(t)
  BY <1>4, FinalizeOffer
<1>5. CASE \E t \in Tokens : Rewind(t) \/ Republish(t)
  BY <1>5, UnchangedOffer DEF Rewind, Republish, Refuse
<1>6. CASE \E t \in Tokens, v \in Values : Refill(t, v)
  BY <1>6, UnchangedOffer DEF Refill, Refuse
<1>7. CASE \E on \in BOOLEAN : GuardImage(on)
  BY <1>7, UnchangedOffer DEF GuardImage
<1>8. CASE (\E s \in Chunks : HostWrites(s)) \/ ForeignUse
  BY <1>8, UnchangedOffer DEF HostWrites, ForeignUse
<1>9. CASE normalize_uef_control
  BY <1>9, NormalizeOffer
<1>10. CASE UNCHANGED vars
  BY <1>10, UnchangedOffer DEF vars
<1> QED BY <1>1, <1>2, <1>3, <1>4, <1>5, <1>6, <1>7, <1>8, <1>9, <1>10
        DEF Next, IncrementalNext

\* Whichever form of command 93 a host uses, and however it mixes them: a stream
\* WiCFS may read is not empty and starts as a UEF (uef_stream_ready is set only
\* behind the check of the header, and uef_stream is not written while it is set).
THEOREM UefOffered == Spec => []OnlyUefOffered
<1>1. Init => TypeOK /\ OfferInv
  BY InitType DEF Init, OfferInv, OnlyUefOffered, UploadOrStream
<1>2. TypeOK /\ OfferInv /\ [Next]_vars => (TypeOK /\ OfferInv)'
  <2> SUFFICES ASSUME TypeOK, OfferInv, [Next]_vars PROVE TypeOK' /\ OfferInv'
    OBVIOUS
  <2>1. TypeOK'
    BY IncrementalType, NormalizeType DEF Next
  <2> QED BY <2>1, NextOffer
<1>3. OfferInv => OnlyUefOffered
  BY DEF OfferInv
<1> QED BY <1>1, <1>2, <1>3, PTL DEF Spec

-----------------------------------------------------------------------------
(* A change of the guard.                                                   *)

\* An empty window is published only at the end of the stream, and a stream-ABI
\* host sees no legacy window.
Whole == ready /\ pubLength = 0 => pubOffset = streamLength
Modern == jim.shape # "legacy"

\* Publishing from within the stream lays nothing only at its end.
LEMMA PublishWhole ==
  ASSUME TypeOK, TypeOK', Modern, NEW c \in Nat, c <= streamLength',
         uef_stream_publish(buf', streamLength', c, guard')
  PROVE  Whole' /\ Modern'
<1> DEFINE n == streamLength'
           k == Count(n, c, guard')
<1>1. n \in Nat /\ guard' \in BOOLEAN /\ jim \in Aperture
  BY DEF TypeOK
<1>2. k = 0 => c = n
  <2> DEFINE l == Limit(guard')
  <2>1. l \in Nat /\ l > 0
    BY DEF Limit
  <2>2. k = IF c <= n /\ n - c < l THEN n - c ELSE l
    BY DEF Count
  <2>3. n \in Nat /\ c <= n
    BY <1>1
  <2> HIDE DEF k, l, n
  <2> QED BY <2>1, <2>2, <2>3
<1>3. /\ pubOffset' = c /\ pubLength' = k
      /\ jim' = IF k = 0 THEN [jim EXCEPT !.trailer = 0]
                ELSE [laid |-> Laid(buf', c, k), shape |-> Shape(guard'), trailer |-> k]
  BY DEF uef_stream_publish
<1> HIDE DEF k
<1>4. Whole'
  BY <1>2, <1>3 DEF Whole
<1>5. Modern'
  <2>1. CASE k = 0
    BY <1>1, <1>3, <2>1 DEF Modern, Aperture
  <2>2. CASE k # 0
    BY <1>3, <2>2 DEF Modern, Shape
  <2> QED BY <2>1, <2>2
<1> QED BY <1>4, <1>5

\* A step that publishes nothing.
LEMMA UnpublishedWhole ==
  ASSUME TypeOK, Whole, Modern,
         \/ jim' = jim \/ jim'.shape \in {"flat", "guard", "upload", "other"}
         \/ \E n : jim' = [jim EXCEPT !.trailer = n],
         \/ ready' = FALSE
         \/ UNCHANGED <<ready, streamLength, pubOffset, pubLength>>
  PROVE  Whole' /\ Modern'
<1>1. Whole'
  BY DEF Whole
<1>2. Modern'
  BY DEF Modern, TypeOK, Aperture
<1> QED BY <1>1, <1>2

\* Every step of the incremental protocol keeps both.
LEMMA IncrementalWhole ==
  ASSUME TypeOK, TypeOK', InStepInv, Whole, Modern, [IncrementalNext]_vars
  PROVE  Whole' /\ Modern'
<1> USE DEF streamVars, windowVars
<1>0. 0 <= streamLength /\ 0 <= streamLength' /\ 0 \in Nat
  BY DEF TypeOK
<1>1. CASE Refuse \/ Probe \/ GuardImageBadLength
  BY <1>1, UnpublishedWhole DEF Refuse, Probe, GuardImageBadLength
<1>2. CASE Begin \/ \E t \in Tokens : Close(t) /\ ~Refuse
  BY <1>2, UnpublishedWhole DEF Begin, Close, uef_stream_clear
<1>3. CASE \E t \in Tokens, v \in Values, n \in 0..UploadMax, crc \in Crcs :
             Append93(t, v, n, crc) /\ ~Refuse /\ ~Probe
  <2>1. uploadActive /\ ready' = ready /\ jim' = jim
    BY <1>3 DEF Append93
  <2>2. ready' = FALSE
    BY <2>1 DEF InStepInv, UploadOrStream, TypeOK
  <2> QED BY <2>1, <2>2, UnpublishedWhole
<1>4. CASE \E t \in Tokens : Finalize(t) /\ ~Refuse
  <2>1. uploadActive
    BY <1>4 DEF Finalize
  <2>2. CASE \E b, n, f : Finished(b, n, f)
    <3>1. uef_stream_publish(buf', streamLength', 0, guard')
      BY <2>2 DEF Finished, uef_stream_publish
    <3> QED BY <1>0, <3>1, PublishWhole
  <2>3. CASE \E b, text : Unfinished(b, text)
    <3>1. ready' = ready /\ jim' = jim
      BY <2>3 DEF Unfinished
    <3>2. ready' = FALSE
      BY <2>1, <3>1 DEF InStepInv, UploadOrStream, TypeOK
    <3> QED BY <3>1, <3>2, UnpublishedWhole
  <2> QED BY <1>4, <2>2, <2>3 DEF Finalize
<1>5. CASE \E t \in Tokens : Rewind(t) /\ ~Refuse
  <2>1. uef_stream_publish(buf', streamLength', 0, guard')
    BY <1>5 DEF Rewind, uef_stream_publish
  <2> QED BY <1>0, <2>1, PublishWhole
<1>6. CASE \E t \in Tokens, v \in Values : Refill(t, v) /\ ~Refuse
  <2>1. ready
    BY <1>6 DEF Refill, NotReady
  <2>2. CASE /\ uef_stream_publish(buf, streamLength, cursor, guard)
             /\ UNCHANGED <<streamVars, token, guard>>
    <3>1. uef_stream_publish(buf', streamLength', cursor, guard') /\ streamLength' = streamLength
      BY <2>2 DEF uef_stream_publish
    <3>2. cursor <= streamLength' /\ cursor \in Nat
      BY <2>1, <3>1 DEF InStepInv, InStep, TypeOK
    <3> QED BY <3>1, <3>2, PublishWhole
  <2>3. CASE /\ uef_stream_republish
             /\ UNCHANGED <<streamVars, windowVars, token, generation, guard>>
    BY <2>3, UnpublishedWhole DEF uef_stream_republish, Shape
  <2> QED BY <1>6, <2>2, <2>3 DEF Refill
<1>7. CASE \E t \in Tokens : Republish(t) /\ ~Refuse
  <2>1. UNCHANGED <<ready, streamLength, pubOffset, pubLength>>
    BY <1>7 DEF Republish
  <2>2. jim' = jim \/ jim'.shape \in {"flat", "guard", "upload", "other"}
    BY <1>7 DEF Republish, uef_stream_republish, Shape
  <2> QED BY <2>1, <2>2, UnpublishedWhole
<1>8. CASE \E on \in BOOLEAN : GuardImage(on)
  <2>1. PICK on \in BOOLEAN : GuardImage(on)
    BY <1>8
  <2>2. guard' = on /\ UNCHANGED streamVars
    BY <2>1 DEF GuardImage
  <2>3. CASE ready
    <3>1. uef_stream_publish(buf', streamLength', pubOffset, guard')
      BY <2>1, <2>2, <2>3 DEF GuardImage, uef_stream_publish
    <3>2. pubOffset <= streamLength' /\ pubOffset \in Nat
      BY <2>2, <2>3 DEF InStepInv, InStep, TypeOK
    <3> QED BY <3>1, <3>2, PublishWhole
  <2>4. CASE ~ready
    <3>1. jim' = jim \/ jim' = [jim EXCEPT !.trailer = GuardTrailer]
      BY <2>1, <2>4 DEF GuardImage
    <3> QED BY <2>2, <2>4, <3>1, UnpublishedWhole DEF TypeOK
  <2> QED BY <2>3, <2>4
<1>9. CASE (\E s \in Chunks : HostWrites(s)) \/ ForeignUse
  <2>1. UNCHANGED <<ready, streamLength, pubOffset, pubLength>>
    BY <1>9 DEF HostWrites, ForeignUse
  <2>2. jim'.shape \in {"flat", "guard", "upload", "other"}
    BY <1>9 DEF HostWrites, ForeignUse
  <2> QED BY <2>1, <2>2, UnpublishedWhole
<1>10. CASE UNCHANGED vars
  BY <1>10, UnpublishedWhole DEF vars
<1> QED BY <1>1, <1>2, <1>3, <1>4, <1>5, <1>6, <1>7, <1>8, <1>9, <1>10
        DEF IncrementalNext

\* A step that changes the guard is command 86, and shows the same bytes again.
LEMMA GuardSame ==
  ASSUME TypeOK, InStepInv, Whole, Modern, IncrementalNext, guard' # guard, ready,
         jim.shape \in {"legacy", "flat", "guard"},
         NEW i \in DOMAIN jim'.laid \cap DOMAIN jim.laid
  PROVE  jim'.laid[i] = jim.laid[i]
<1>1. PICK on \in BOOLEAN : GuardImage(on)
  <2>1. ~(Probe \/ Begin \/ GuardImageBadLength \/ ForeignUse)
    BY DEF Probe, Begin, GuardImageBadLength, Refuse, ForeignUse
  <2>2. ~\E t \in Tokens : Finalize(t) \/ Rewind(t) \/ Republish(t) \/ Close(t)
    BY DEF Finalize, Finished, Unfinished, Rewind, Republish, Close, Refuse
  <2>3. ~\E t \in Tokens, v \in Values : Refill(t, v)
    BY DEF Refill, Refuse
  <2>4. ~\E t \in Tokens, v \in Values, n \in 0..UploadMax, crc \in Crcs : Append93(t, v, n, crc)
    BY ZenonT(60) DEF Append93, Refuse, Probe
  <2>5. ~\E s \in Chunks : HostWrites(s)
    BY DEF HostWrites
  <2> QED BY <2>1, <2>2, <2>3, <2>4, <2>5 DEF IncrementalNext
<1> DEFINE k == Count(streamLength, pubOffset, on)
<1>2. jim' = IF k = 0 THEN [jim EXCEPT !.trailer = 0]
             ELSE [laid |-> Laid(buf, pubOffset, k), shape |-> Shape(on), trailer |-> k]
  BY <1>1 DEF GuardImage, uef_stream_publish
<1>3. /\ pubOffset \in Nat /\ streamLength \in Nat /\ pubLength \in Nat /\ jim \in Aperture
      /\ cursor = pubOffset + pubLength /\ cursor <= streamLength
  BY DEF TypeOK, InStepInv, InStep
<1>4. CASE k = 0
  BY <1>2, <1>3, <1>4 DEF Aperture
<1>5. CASE k # 0
  <2>1. pubLength > 0
    <3> SUFFICES ASSUME pubLength = 0 PROVE k = 0
      BY <1>3, <1>5
    <3>1. pubOffset = streamLength
      BY DEF Whole
    <3> QED BY <1>3, <3>1 DEF Count, Limit
  <2>2. jim.laid = Laid(buf, pubOffset, pubLength)
    BY <2>1 DEF InStepInv, WindowIsStream, Modern
  <2> HIDE DEF k
  <2>3. jim'.laid = Laid(buf, pubOffset, k)
    BY <1>2, <1>5
  <2>4. i \in 0..k - 1 /\ i \in 0..pubLength - 1
    BY <2>2, <2>3 DEF Laid
  <2> QED BY <2>2, <2>3, <2>4 DEF Laid
<1> QED BY <1>4, <1>5

\* "Lay the same bytes down again under the new rule" (uef_window_relayout): under a
\* change of the guard every byte the aperture goes on showing is the byte it showed,
\* for all window sizes and at every place of the tape.
THEOREM GuardLaysSame == IncrementalSpec => GuardKeepsBytes
<1> DEFINE I == TypeOK /\ InStepInv /\ Whole /\ Modern
           A == guard' # guard /\ ready /\ jim.shape \in {"legacy", "flat", "guard"} =>
                  \A i \in DOMAIN jim'.laid \cap DOMAIN jim.laid : jim'.laid[i] = jim.laid[i]
<1>1. Init => I
  BY InitType, InitInStep DEF Init, Whole, Modern
<1>2. I /\ [IncrementalNext]_vars => I'
  BY IncrementalType, IncrementalInStep, IncrementalWhole
<1>3. I /\ [IncrementalNext]_vars => [A]_vars
  BY GuardSame
<1> QED BY <1>1, <1>2, <1>3, PTL DEF IncrementalSpec, GuardKeepsBytes

-----------------------------------------------------------------------------
(* The host, the mailbox and the stream together.                           *)

Uploading == {"probe", "begin", "read", "append", "finalize"}
Reading == {"install", "guard", "rewind", "play", "refill", "eof"}
Over == {"idle", "closing", "escaping", "failed", "readerror", "escaped", "legacy"}
Waits == {"probe", "begin", "append", "finalize", "guard", "rewind", "refill", "closing",
          "escaping"}

\* Windows the Pi may still publish: no more than Capacity + 1 for the upload, for
\* each rewind and for each repeated one.
Budget(n) == (Capacity + 1) * n

\* The generation does not come round within a session.
Unwrapped == Budget(MaxRewinds + MaxLosses + 2) < GenMod - 1

HostOK ==
  /\ hpc \in Uploading \cup Reading \cup Over
  /\ file \in Seq(Byte) /\ (hpc # "idle" => file \in Files)
  /\ sent \in 0..Len(file) /\ hgen \in 0..(GenMod - 1)
  /\ left \in Nat /\ pos \in Nat /\ final \in BOOLEAN /\ got \in Seq(Byte)
  /\ rewinds \in 0..MaxRewinds

\* A request is out exactly while the host waits for one, and it is the one this
\* place asks; each repetition had its loss.
LinkOK ==
  /\ request.value \in 0..(GenMod - 1)
  /\ link \in {"idle", "request", "reply", "lost"} /\ (link = "idle" <=> hpc \notin Waits)
  /\ tries \in 0..MaxTries /\ losses \in 0..MaxLosses
  /\ tries <= losses /\ (link = "lost" => tries < losses)
  /\ hpc = "probe" => request.op = "PROBE"
  /\ hpc = "begin" => request.op = "BEGIN"
  /\ hpc = "append" => request.op = "APPEND"
  /\ hpc = "finalize" => request.op = "FINALIZE"
  /\ hpc = "guard" => request.op = "GUARD"
  /\ hpc = "rewind" => request.op = "REWIND"
  /\ hpc = "refill" => request.op = "REFILL"
  /\ hpc \in {"closing", "escaping"} => request.op = "CLOSE"

\* The Pi holds the first n bytes of f and waits for more.
Uploaded(f, n) ==
  /\ uploadActive /\ ~ready /\ streamLength = n /\ generation <= n
  /\ \A i \in 1..n : buf[i - 1] = f[i]

\* The Pi has a tape, and it is the file's, or that of the exception UploadExact names.
Held == ready /\ streamLength > 0 /\ generation > 0
Exact == Stream = Tape(file) \/ (RefusedLate(file) /\ losses > 0)

\* A refused container lies over the upload; who does not hear of it lost an answer.
Spoilt ==
  /\ RefusedLate(file) /\ uploadActive /\ ~ready /\ generation <= Capacity
  /\ link = "reply" \/ losses > 0

Taken == link = "reply" /\ result = Ok

\* The upload, place by place: what was asked has been done or has not.
Appends ==
  /\ sent < Len(file) /\ request.value = hgen
  /\ jim = [laid |-> Window(ChunkOf(file, sent)), shape |-> "upload",
            trailer |-> Len(ChunkOf(file, sent))]
  /\ \/ hgen = generation /\ Uploaded(file, sent) /\ ~Taken
     \/ /\ hgen + 1 = generation /\ Uploaded(file, sent + Len(ChunkOf(file, sent)))
        /\ lastAppend = [seq |-> hgen, bytes |-> ChunkOf(file, sent)]

Finalizes ==
  /\ sent = Len(file)
  /\ \/ (Uploaded(file, sent) \/ Spoilt) /\ ~Taken
     \/ Held /\ Exact /\ generation <= Capacity + 1

Uploads ==
  /\ hpc \in Uploading \cup {"closing", "escaping"} => got = <<>>
  /\ hpc \in {"probe", "begin"} => sent = 0
  /\ hpc = "begin" /\ link = "reply" => Uploaded(file, 0)
  /\ hpc = "read" => hgen = generation /\ Uploaded(file, sent)
  /\ hpc = "append" => Appends
  /\ hpc = "finalize" => Finalizes

\* The aperture shows the published window.
Shown == pubLength > 0 /\ jim.shape = Shape(guard)

\* A refill by a host that has n bytes and knows generation g: not served yet, or
\* served and perhaps not heard of.
Due(g, n) ==
  /\ g > 0
  /\ \/ g = generation /\ n = cursor /\ cursor < streamLength
     \/ g + 1 = generation /\ n = pubOffset /\ pubLength > 0

Spare == IF hpc = "rewind" /\ link \in {"request", "lost"} THEN 1 ELSE 0
Allowance == (2 + rewinds + losses) - Spare
Paid == generation + (streamLength - cursor) <= Budget(Allowance)

Plays ==
  /\ hpc = "play" =>
       /\ Shown /\ hgen = generation /\ final = pubFinal
       /\ pubOffset + pos = Len(got) /\ pos + left = pubLength
  /\ hpc = "refill" =>
       /\ left = 0 /\ ~final /\ request.value = hgen /\ Due(hgen, Len(got))
       /\ link = "reply" => result = Ok /\ hgen # generation /\ Shown
  /\ hpc = "eof" =>
       /\ left = 0 /\ (~final => Due(hgen, Len(got)))
       /\ Len(got) # streamLength => losses > MaxTries

\* With the guard, what was read is the stream.
InStream == guard => \A i \in 1..Len(got) : got[i] = buf[i - 1]

Reads ==
  hpc \in Reading =>
    /\ Held
    /\ Len(got) <= streamLength /\ InStream
    /\ IF hpc \in {"install", "guard"} THEN generation <= Capacity + 1 ELSE Paid
    /\ hpc \in {"install", "guard", "rewind"} => got = <<>>
    /\ hpc = "rewind" /\ link = "reply" => result = Ok /\ pubOffset = 0 /\ Shown
    /\ Plays

Loads == hpc \in Reading => Exact

SessionInv == TypeOK /\ InStepInv /\ HostOK /\ LinkOK /\ Uploads /\ Reads /\ Loads

-----------------------------------------------------------------------------
(* Numbers and tapes.                                                       *)

\* One more costs Capacity + 1.
LEMMA BudgetStep ==
  ASSUME NEW n \in Nat
  PROVE  Budget(n) \in Nat /\ Budget(n + 1) = Budget(n) + Capacity + 1
<1> DEFINE c == Capacity + 1
<1>1. c \in Nat
  OBVIOUS
<1> HIDE DEF c
<1>2. c * n \in Nat /\ c * (n + 1) = c * n + c
  BY <1>1
<1> QED BY <1>2 DEF Budget, c

\* More is allowed of more.
LEMMA BudgetMonotone ==
  ASSUME NEW m \in Nat, NEW n \in Nat, m <= n
  PROVE  Budget(m) <= Budget(n)
<1> DEFINE c == Capacity + 1
<1>1. c \in Nat
  OBVIOUS
<1> HIDE DEF c
<1>2. c * m <= c * n
  BY <1>1, SMTT(30)
<1> QED BY <1>2 DEF Budget, c

\* Two spends cover an upload.
LEMMA BudgetOfTwo == Budget(2) = Capacity + Capacity + 2
BY DEF Budget

\* What a session spends is less than the generations there are.
LEMMA BudgetEnough ==
  ASSUME Unwrapped, NEW n \in 0..(MaxRewinds + MaxLosses + 2)
  PROVE  Budget(n) \in Nat /\ Budget(n) < GenMod - 1
<1>1. MaxRewinds + MaxLosses + 2 \in Nat /\ n \in Nat /\ n <= MaxRewinds + MaxLosses + 2
  BY SessionAssumption
<1>2. Budget(n) \in Nat /\ Budget(MaxRewinds + MaxLosses + 2) \in Nat
  BY <1>1, BudgetStep
<1>3. Budget(n) <= Budget(MaxRewinds + MaxLosses + 2)
  BY <1>1, BudgetMonotone
<1> QED BY <1>2, <1>3 DEF Unwrapped

\* An upload alone is far from the last generation.
LEMMA BudgetUpload ==
  ASSUME Unwrapped
  PROVE  Capacity + Capacity + 2 < GenMod - 1
<1>1. 2 \in 0..(MaxRewinds + MaxLosses + 2)
  BY SessionAssumption
<1> QED BY <1>1, BudgetEnough, BudgetOfTwo

\* What a file unpacks to, and the tape it makes.
LEMMA TapeType ==
  ASSUME NEW f \in Seq(Byte)
  PROVE  /\ Unpacked(f) \in Seq(Byte) /\ Tape(f) \in Seq(Byte)
         /\ Len(Tape(f)) = Len(Unpacked(f))
         /\ \A i \in 1..Len(Tape(f)) :
              Tape(f)[i] = IF i > 1 /\ Unpacked(f)[i] = Stamp THEN Scratch ELSE Unpacked(f)[i]
<1>1. Unpacked(f) \in Seq(Byte)
  <2>1. <<>> \in Seq(Byte)
    OBVIOUS
  <2>2. f \in DOMAIN Decode => Decode[f].out \in Seq(Byte)
    BY DecodeType
  <2> QED BY <2>1, <2>2 DEF Unpacked
<1> DEFINE u == Unpacked(f)
           t == [i \in 1..Len(u) |-> IF i > 1 /\ u[i] = Stamp THEN Scratch ELSE u[i]]
<1>2. Tape(f) = t
  BY <1>1 DEF Tape
<1> HIDE DEF u
<1>3. u \in Seq(Byte)
  BY <1>1 DEF u
<1>4. t \in Seq(Byte) /\ Len(t) = Len(u)
  BY <1>3
<1> QED BY <1>2, <1>3, <1>4 DEF u

\* The first n bytes of the buffer are a sequence of bytes.
LEMMA ContentType ==
  ASSUME NEW b \in [0..Capacity - 1 -> Byte], NEW n \in 0..Capacity
  PROVE  Content(b, n) \in Seq(Byte)
<1>1. \A i \in 1..n : i - 1 \in 0..Capacity - 1
  OBVIOUS
<1>2. [i \in 1..n |-> b[i - 1]] \in Seq(Byte)
  BY <1>1
<1> QED BY <1>2 DEF Content

\* The tape in the Pi is as long as the stream, and its bytes are the buffer's.
LEMMA StreamFacts ==
  ASSUME TypeOK, ready
  PROVE  /\ Len(Stream) = streamLength /\ Stream \in Seq(Byte)
         /\ \A i \in 1..streamLength : Stream[i] = buf[i - 1] /\ Stream[i] \in Byte
<1>1. Stream = [i \in 1..streamLength |-> buf[i - 1]]
  BY DEF Stream, Content
<1>2. streamLength \in Nat
  BY DEF TypeOK
<1>3. ASSUME NEW i \in 1..streamLength PROVE Stream[i] = buf[i - 1] /\ buf[i - 1] \in Byte
  <2>1. Stream[i] = buf[i - 1]
    BY <1>1
  <2>2. i - 1 \in 0..Capacity - 1
    BY <1>2 DEF TypeOK
  <2> QED BY <2>1, <2>2 DEF TypeOK
<1>4. [i \in 1..streamLength |-> buf[i - 1]] \in Seq(Byte)
  BY <1>2, <1>3
<1>5. Stream \in Seq(Byte) /\ Len(Stream) = streamLength
  BY <1>1, <1>2, <1>4
<1> QED BY <1>3, <1>5

\* Quotient and remainder.
LEMMA Quotient ==
  ASSUME NEW n \in Nat
  PROVE  /\ n \div PageRun \in Nat /\ n % PageRun \in 0..PageRun - 1
         /\ n = PageRun * (n \div PageRun) + (n % PageRun)
BY SessionAssumption, SMTT(30)

\* Two places of the walk are the same place only of the same byte: the pages do not
\* overlap, for a run is no longer than a page.
LEMMA WalkInjective ==
  ASSUME NEW m \in Nat, NEW n \in Nat, Walk(m) = Walk(n)
  PROVE  m = n
<1> DEFINE a == m \div PageRun
           b == n \div PageRun
           c == m % PageRun
           d == n % PageRun
<1>1. /\ a \in Nat /\ b \in Nat /\ c \in 0..PageRun - 1 /\ d \in 0..PageRun - 1
      /\ m = PageRun * a + c /\ n = PageRun * b + d
  BY Quotient
<1>2. PageSize \in Nat /\ PageRun \in Nat /\ PageRun >= 1 /\ PageRun <= PageSize
  BY SessionAssumption
<1>3. PageSize * a + c = PageSize * b + d
  BY DEF Walk
<1> HIDE DEF a, b, c, d
<1>4. ASSUME NEW x \in Nat, NEW y \in Nat, NEW u \in 0..PageRun - 1, NEW v \in 0..PageRun - 1,
             x < y
      PROVE  PageSize * x + u # PageSize * y + v
  <2>1. PICK z \in Nat : y = (x + 1) + z
    <3>1. y - (x + 1) \in Nat /\ y = (x + 1) + (y - (x + 1))
      BY <1>4
    <3> QED BY <3>1
  <2>2. PageSize * y = PageSize * x + PageSize + PageSize * z /\ PageSize * z \in Nat
        /\ PageSize * x \in Nat
    BY <1>2, <2>1, SMTT(30)
  <2> DEFINE px == PageSize * x
             py == PageSize * y
             pz == PageSize * z
  <2>3. py = px + PageSize + pz /\ pz \in Nat /\ px \in Nat
    BY <2>2
  <2> HIDE DEF px, py, pz
  <2>4. px + u # py + v
    BY <1>2, <2>3
  <2> QED BY <2>4 DEF px, py
<1>5. a = b
  <2>1. ~(a < b)
    BY <1>1, <1>3, <1>4
  <2>2. ~(b < a)
    BY <1>1, <1>3, <1>4
  <2> QED BY <1>1, <2>1, <2>2
<1>6. c = d
  <2> DEFINE q == PageSize * a
  <2>1. q \in Nat /\ q + c = q + d
    BY <1>1, <1>2, <1>3, <1>5, SMTT(30)
  <2> HIDE DEF q
  <2> QED BY <1>1, <2>1
<1> QED BY <1>1, <1>5, <1>6

\* With the guard getbyte finds the byte of the window it is at.
LEMMA GuardedByte ==
  ASSUME jim.shape = "guard", NEW k \in Nat, DOMAIN jim.laid = 0..k - 1, NEW n \in 0..k - 1
  PROVE  ByteAt(ReaderCell(n)) = jim.laid[n]
<1>1. ReaderCell(n) = Walk(n) /\ \A i : WindowCell(i) = Walk(i)
  BY DEF ReaderCell, WindowCell
<1>2. n \in DOMAIN jim.laid /\ WindowCell(n) = Walk(n)
  BY <1>1
<1>3. ASSUME NEW i \in DOMAIN jim.laid, WindowCell(i) = Walk(n) PROVE i = n
  BY <1>1, <1>3, WalkInjective
<1> DEFINE w == CHOOSE i \in DOMAIN jim.laid : WindowCell(i) = Walk(n)
<1>4. w \in DOMAIN jim.laid /\ WindowCell(w) = Walk(n)
  BY <1>2
<1>5. w = n
  BY <1>3, <1>4
<1>6. ByteAt(Walk(n)) = jim.laid[w]
  BY <1>2 DEF ByteAt
<1> QED BY <1>1, <1>5, <1>6

\* A byte of the aperture is a byte.
LEMMA ByteAtType ==
  ASSUME TypeOK, NEW c
  PROVE  ByteAt(c) \in Byte
<1>1. \A i \in DOMAIN jim.laid : jim.laid[i] \in Byte
  BY LaidBytes
<1>2. Junk \in Byte
  OBVIOUS
<1>3. CASE \E i \in DOMAIN jim.laid : WindowCell(i) = c
  <2> DEFINE w == CHOOSE i \in DOMAIN jim.laid : WindowCell(i) = c
  <2>1. w \in DOMAIN jim.laid
    BY <1>3
  <2>2. ByteAt(c) = jim.laid[w]
    BY <1>3 DEF ByteAt
  <2> QED BY <1>1, <2>1, <2>2
<1>4. CASE ~\E i \in DOMAIN jim.laid : WindowCell(i) = c
  BY <1>2, <1>4 DEF ByteAt
<1> QED BY <1>3, <1>4

\* The window uef.asm fills next.
LEMMA ChunkFacts ==
  ASSUME NEW f \in Seq(Byte), NEW n \in 0..Len(f), n < Len(f)
  PROVE  /\ ChunkOf(f, n) \in Seq(Byte) /\ Len(ChunkOf(f, n)) \in 1..UploadMax
         /\ n + Len(ChunkOf(f, n)) \in 0..Len(f)
         /\ \A i \in 1..Len(ChunkOf(f, n)) : ChunkOf(f, n)[i] = f[n + i]
<1> DEFINE e == IF n + UploadMax < Len(f) THEN n + UploadMax ELSE Len(f)
<1>1. Len(f) \in Nat /\ UploadMax \in Nat /\ UploadMax >= 1
  OBVIOUS
<1>2. e \in Int /\ n + 1 <= e /\ e <= Len(f) /\ e <= n + UploadMax
  BY <1>1
<1>3. ChunkOf(f, n) = SubSeq(f, n + 1, e)
  BY DEF ChunkOf
<1> HIDE DEF e
<1>4. \A i \in (n + 1)..e : f[i] \in Byte
  BY <1>1, <1>2
<1>5. SubSeq(f, n + 1, e) = [i \in 1..(e - n) |-> f[n + i]]
  BY <1>1, <1>2
<1>6. SubSeq(f, n + 1, e) \in Seq(Byte) /\ Len(SubSeq(f, n + 1, e)) = e - n
  BY <1>1, <1>2, <1>4
<1>7. e - n \in 1..UploadMax /\ n + (e - n) \in 0..Len(f)
  BY <1>1, <1>2
<1>8. \A i \in 1..(e - n) : SubSeq(f, n + 1, e)[i] = f[n + i]
  BY <1>5
<1> QED BY <1>3, <1>6, <1>7, <1>8

-----------------------------------------------------------------------------
(* What the Pi does for a request.                                          *)

\* The Pi serves what the host's place asks.
LEMMA ServesPlace ==
  ASSUME LinkOK, PiServes
  PROVE  /\ link = "request" /\ link' = "reply" /\ hpc \in Waits
         /\ UNCHANGED <<hostVars, request, tries, losses>>
         /\ hpc = "probe" => Probe
         /\ hpc = "begin" => Begin
         /\ hpc = "append" => Append93(0, request.value, 0, "none")
         /\ hpc = "finalize" => Finalize(0)
         /\ hpc = "guard" => GuardImage(TRUE)
         /\ hpc = "rewind" => Rewind(0)
         /\ hpc = "refill" => Refill(0, request.value)
         /\ hpc \in {"closing", "escaping"} => Close(0)
BY DEF LinkOK, PiServes, Waits

\* A step of the session is one the stream allows to any host.
LEMMA SessionStream ==
  ASSUME TypeOK, InStepInv, HostOK, LinkOK, [SessionNext]_sessionVars
  PROVE  TypeOK' /\ InStepInv'
<1>1. ASSUME UNCHANGED vars PROVE TypeOK' /\ InStepInv'
  <2>1. [IncrementalNext]_vars
    BY <1>1
  <2> QED BY <2>1, IncrementalType, IncrementalInStep
<1>2. ASSUME IncrementalNext PROVE TypeOK' /\ InStepInv'
  BY <1>2, IncrementalType, IncrementalInStep
<1>3. CASE PiServes
  <2>1. 0 \in Tokens /\ 0 \in 0..UploadMax /\ "none" \in Crcs /\ request.value \in Values
    BY DEF Tokens, Values, Crcs, LinkOK
  <2>2. \/ Probe \/ Begin \/ Append93(0, request.value, 0, "none") \/ Finalize(0)
        \/ GuardImage(TRUE) \/ Rewind(0) \/ Refill(0, request.value) \/ Close(0)
    BY <1>3, ServesPlace DEF Waits
  <2>3. IncrementalNext
    BY <2>1, <2>2 DEF IncrementalNext
  <2> QED BY <1>2, <2>3
<1>4. CASE ReadWindow
  <2> DEFINE s == ChunkOf(file, sent)
             j == [laid |-> Window(s), shape |-> "upload", trailer |-> Len(s)]
  <2>1. s \in Seq(Byte) /\ Len(s) \in 1..UploadMax
    BY <1>4, ChunkFacts DEF ReadWindow, HostOK
  <2>2. /\ jim' = j /\ UNCHANGED <<streamVars, windowVars, token, generation, guard, result>>
    BY <1>4 DEF ReadWindow, HostWrites
  <2> HIDE DEF s
  <2>3. j \in Aperture /\ j.shape \notin {"flat", "guard"}
    <3>1. Window(s) \in LaidWindows /\ Len(s) \in 0..Capacity
      BY <2>1, WindowType
    <3> QED BY <3>1 DEF Aperture
  <2>4. TypeOK'
    BY <2>2, <2>3, JimStepType DEF TypeOK
  <2>5. InStepInv'
    BY <2>2, <2>3, UnchangedInStep
  <2> QED BY <2>4, <2>5
<1>5. CASE EndOfFile
  BY <1>2, <1>5 DEF EndOfFile, IncrementalNext
<1>6. CASE UNCHANGED sessionVars
  BY <1>1, <1>6 DEF sessionVars
<1>7. CASE \/ \E f \in Files : UefLoad(f)
           \/ ProbeDone \/ BeginDone \/ ReadError \/ Escape \/ AppendDone
           \/ FinalizeDone \/ UploadFailed \/ BeginFailed \/ Closed
  BY <1>1, <1>7 DEF UefLoad, ProbeDone, BeginDone, ReadError, Escape, AppendDone,
     FinalizeDone, UploadFailed, BeginFailed, Closed
<1>8. CASE \/ PublishGuard \/ CfsInit \/ RewindDone \/ GetByte \/ AskRefill
           \/ RefillDone \/ EndOfTape \/ ReadFailed \/ Lose \/ Retry
  BY <1>1, <1>8 DEF PublishGuard, CfsInit, RewindDone, GetByte, AskRefill,
     RefillDone, EndOfTape, ReadFailed, Lose, Retry
<1> QED BY <1>3, <1>4, <1>5, <1>6, <1>7, <1>8 DEF SessionNext

\* BEGIN leaves the Pi with nothing, ready for any file.
LEMMA BeginServed ==
  ASSUME Begin, NEW f
  PROVE  Uploaded(f, 0)' /\ result' = Ok
<1>1. /\ uploadActive' = TRUE /\ ready' = FALSE /\ streamLength' = 0 /\ generation' = 0
      /\ result' = Ok
  BY DEF Begin, uef_stream_clear
<1> QED BY <1>1 DEF Uploaded

\* The bytes APPEND finds are the chunk the host wrote.
LEMMA AppendBytes ==
  ASSUME NEW s \in Seq(Byte), jim = [laid |-> Window(s), shape |-> "upload", trailer |-> Len(s)]
  PROVE  UploadLength(0) = Len(s) /\ UploadBytes(Len(s)) = s
<1>1. jim.laid = Window(s) /\ jim.shape = "upload" /\ jim.trailer = Len(s)
  OBVIOUS
<1>2. Len(s) \in Nat /\ s = [i \in 1..Len(s) |-> s[i]]
  OBVIOUS
<1>3. ASSUME NEW i \in 1..Len(s) PROVE i - 1 \in DOMAIN Window(s) /\ Window(s)[i - 1] = s[i]
  BY <1>2, SMTT(30) DEF Window
<1>4. UploadBytes(Len(s)) = [i \in 1..Len(s) |-> s[i]]
  BY <1>1, <1>3 DEF UploadBytes
<1> QED BY <1>1, <1>2, <1>4 DEF UploadLength

\* APPEND, for the first time or once more: the chunk is in the stream once.
LEMMA AppendServed ==
  ASSUME Unwrapped, TypeOK, HostOK, Appends, Append93(0, request.value, 0, "none"),
         link' = "reply", UNCHANGED <<hostVars, request>>
  PROVE  Appends'
<1> DEFINE s == ChunkOf(file, sent)
<1>1. /\ s \in Seq(Byte) /\ Len(s) \in 1..UploadMax /\ sent + Len(s) \in 0..Len(file)
      /\ \A i \in 1..Len(s) : s[i] = file[sent + i]
  BY ChunkFacts DEF Appends, HostOK
<1>2. UploadLength(0) = Len(s) /\ UploadBytes(Len(s)) = s
  BY <1>1, AppendBytes DEF Appends
<1>3. /\ sent' = sent /\ file' = file /\ hgen' = hgen /\ request' = request
      /\ (ChunkOf(file, sent))' = s
  BY DEF hostVars
<1>4. uploadActive /\ request.value = hgen
  BY DEF Appends, Uploaded
<1> DEFINE applied == /\ hgen = generation /\ streamLength + Len(s) <= Capacity
                      /\ buf' = WriteBuf(buf, streamLength, s)
                      /\ streamLength' = streamLength + Len(s)
                      /\ lastAppend' = [seq |-> hgen, bytes |-> s]
                      /\ generation' = Succ(generation)
                      /\ UNCHANGED <<ready, uploadActive, jim>>
           again == hgen # generation /\ lastAppend = [seq |-> hgen, bytes |-> s] /\ Probe
           refused == Refuse /\ (hgen = generation \/ Succ(hgen) # generation
                                   \/ lastAppend # [seq |-> hgen, bytes |-> s])
<1>5. applied \/ again \/ refused
  <2> HIDE DEF s
  <2>1. ~(~uploadActive \/ (0 # 0 /\ 0 # token) \/ Len(s) \notin 1..UploadMax)
    BY <1>1, <1>4
  <2>2. CrcMatches("none")
    BY DEF CrcMatches
  <2> QED BY <1>2, <1>4, <2>1, <2>2 DEF Append93
<1>6. CASE applied
  <2> HIDE DEF s
  <2>0. generation \in Int
    BY DEF TypeOK
  <2>1. Uploaded(file, sent)
    BY <1>6, <2>0, SMTT(30) DEF Appends
  <2>2. generation + 1 < GenMod - 1 /\ generation \in Nat /\ streamLength \in Nat
    BY <2>1, BudgetUpload DEF Uploaded, TypeOK
  <2>3. generation' = generation + 1
    BY <1>6, <2>2 DEF Succ
  <2>4. \A i \in 1..(sent + Len(s)) : buf'[i - 1] = file[i]
    <3>1. /\ \A i \in 1..sent : buf[i - 1] = file[i]
          /\ streamLength = sent /\ sent \in Nat /\ file \in Seq(Byte)
          /\ buf \in [0..Capacity - 1 -> Byte]
      BY <2>1 DEF Uploaded, HostOK, TypeOK
    <3>2. sent + Len(s) <= Capacity /\ buf' = WriteBuf(buf, sent, s)
      BY <1>6, <3>1
    <3>3. s \in Seq(Byte) /\ \A i \in 1..Len(s) : s[i] = file[sent + i]
      BY <1>1
    <3> SUFFICES ASSUME NEW i \in 1..(sent + Len(s))
                 PROVE  WriteBuf(buf, sent, s)[i - 1] = file[i]
      BY <3>2
    <3> DEFINE j == i - 1
    <3>a. j \in Nat /\ j < sent + Len(s)
      BY <1>1, <3>1
    <3>b. WriteBuf(buf, sent, s)[j] = IF j < sent THEN buf[j] ELSE s[(j - sent) + 1]
      <4> HIDE DEF j
      <4>1. /\ buf \in [0..Capacity - 1 -> Byte] /\ sent \in Nat /\ s \in Seq(Byte)
            /\ j \in Nat /\ sent + Len(s) <= Capacity /\ j < sent + Len(s)
        BY <3>1, <3>2, <3>3, <3>a
      <4>2. Len(s) \in Nat /\ j \in 0..Capacity - 1 /\ DOMAIN buf = 0..Capacity - 1
        BY <4>1
      <4>3. WriteBuf(buf, sent, s)[j]
              = IF j - sent \in 0..Len(s) - 1 THEN s[(j - sent) + 1] ELSE buf[j]
        BY <4>2 DEF WriteBuf
      <4>4. j - sent \in 0..Len(s) - 1 <=> ~(j < sent)
        BY <4>1, <4>2
      <4> QED BY <4>3, <4>4
    <3>c. (i - 1 < sent <=> i <= sent) /\ ((i - 1) - sent) + 1 = i - sent
      BY <3>1
    <3>4. WriteBuf(buf, sent, s)[i - 1] = IF i <= sent THEN buf[i - 1] ELSE s[i - sent]
      BY <3>b, <3>c
    <3>5. CASE i <= sent
      BY <3>1, <3>4, <3>5
    <3>6. CASE i > sent
      <4>1. i - sent \in 1..Len(s) /\ sent + (i - sent) = i /\ ~(i <= sent)
        BY <1>1, <3>1, <3>6
      <4>2. s[i - sent] = file[sent + (i - sent)]
        BY <3>3, <4>1
      <4> QED BY <3>4, <4>1, <4>2
    <3> QED BY <3>1, <3>5, <3>6
  <2>5. Uploaded(file, sent + Len(s))'
    <3>1. /\ uploadActive' /\ ~ready' /\ streamLength' = sent + Len(s)
          /\ generation' <= sent + Len(s)
      BY <1>1, <1>6, <2>1, <2>2, <2>3 DEF Uploaded
    <3> QED BY <1>3, <2>4, <3>1 DEF Uploaded, s
  <2>6. hgen + 1 = generation'
    BY <1>6, <2>3
  <2> QED BY <1>3, <1>6, <2>5, <2>6 DEF Appends, s
<1>7. CASE again
  <2>1. UNCHANGED <<streamVars, generation, jim>>
    BY <1>7 DEF Probe
  <2>2. /\ hgen + 1 = generation /\ Uploaded(file, sent + Len(s))
        /\ lastAppend = [seq |-> hgen, bytes |-> s]
    BY <1>7 DEF Appends
  <2>3. Uploaded(file, sent + Len(s))'
    BY <1>3, <2>1, <2>2 DEF Uploaded, streamVars
  <2> QED BY <1>3, <2>1, <2>2, <2>3 DEF Appends, streamVars
<1>8. CASE refused
  <2>1. UNCHANGED <<streamVars, generation, jim>> /\ result' # Ok
    BY <1>8 DEF Refuse, Param, Ok
  <2>2. hgen = generation /\ Uploaded(file, sent)
    <3>1. (hgen \in Nat /\ hgen # GenMod - 1) \/ (hgen = generation /\ Uploaded(file, sent))
      <4>1. ASSUME hgen + 1 = generation PROVE hgen \in Nat /\ hgen # GenMod - 1
        BY <4>1 DEF HostOK, TypeOK
      <4> QED BY <4>1 DEF Appends
    <3>2. hgen + 1 = generation => Succ(hgen) = generation \/ hgen = generation
      BY <3>1 DEF Succ
    <3> QED BY <1>8, <3>2 DEF Appends, HostOK
  <2>3. Uploaded(file, sent)'
    BY <1>3, <2>1, <2>2 DEF Uploaded, streamVars
  <2> QED BY <1>3, <2>1, <2>2, <2>3 DEF Appends, streamVars, Taken
<1> QED BY <1>5, <1>6, <1>7, <1>8

\* A stream that is not touched is still there.
LEMMA SameHeld ==
  ASSUME Held, UNCHANGED streamVars, generation' >= generation,
         generation \in Nat, generation' \in Nat
  PROVE  Held'
BY DEF Held, streamVars

\* FINALIZE that succeeds leaves a tape.
LEMMA FinishedHeld ==
  ASSUME NEW b, NEW n \in 1..Capacity, NEW fmt,
         Finished(b, n, fmt), generation \in 0..(GenMod - 2)
  PROVE  Held' /\ generation' = generation + 1
<1>1. streamLength' = n /\ ready' = TRUE /\ generation' = Succ(generation)
  BY DEF Finished
<1>2. generation' = generation + 1 /\ generation' > 0
  BY <1>1 DEF Succ
<1> QED BY <1>1, <1>2 DEF Held

\* On what f unpacks to it leaves the tape of f.
LEMMA FinishedTape ==
  ASSUME NEW f \in Seq(Byte), NEW b \in [0..Capacity - 1 -> Byte], NEW n \in 1..Capacity, NEW fmt,
         Finished(b, n, fmt),
         Len(Unpacked(f)) = n, \A i \in 1..n : b[i - 1] = Unpacked(f)[i]
  PROVE  Stream' = Tape(f)
<1> DEFINE r == uef_repair_filev_stamp(b, n)
<1>1. /\ buf' = r /\ streamLength' = n /\ ready' = TRUE
  BY DEF Finished
<1>3. ASSUME NEW i \in 1..n
      PROVE  r[i - 1] = IF i > 1 /\ Unpacked(f)[i] = Stamp THEN Scratch ELSE Unpacked(f)[i]
  <2>1. i - 1 \in 0..Capacity - 1 /\ DOMAIN b = 0..Capacity - 1
    OBVIOUS
  <2>2. r[i - 1] = IF i - 1 \in 1..n - 1 /\ b[i - 1] = Stamp THEN Scratch ELSE b[i - 1]
    BY <2>1 DEF uef_repair_filev_stamp
  <2>3. i - 1 \in 1..n - 1 <=> i > 1
    OBVIOUS
  <2>4. b[i - 1] = Unpacked(f)[i]
    OBVIOUS
  <2> QED BY <2>2, <2>3, <2>4
<1>4. /\ Tape(f) \in Seq(Byte) /\ Len(Tape(f)) = n
      /\ \A i \in 1..n :
           Tape(f)[i] = IF i > 1 /\ Unpacked(f)[i] = Stamp THEN Scratch ELSE Unpacked(f)[i]
  BY TapeType
<1> HIDE DEF r
<1>5. Content(r, n) = Tape(f)
  <2>1. Tape(f) = [i \in 1..n |-> Tape(f)[i]]
    BY <1>4
  <2>2. \A i \in 1..n : Tape(f)[i] = r[i - 1]
    BY <1>3, <1>4
  <2> QED BY <2>1, <2>2 DEF Content
<1>6. Stream' = Content(r, n)
  BY <1>1 DEF Stream, Content
<1> QED BY <1>5, <1>6

\* FINALIZE over a container it refused before takes it, or refuses again.
LEMMA SpoiltServed ==
  ASSUME Unwrapped, TypeOK, Spoilt, Finalize(0), sent = Len(file),
         link = "request", link' = "reply", UNCHANGED <<hostVars, losses>>
  PROVE  Finalizes'
<1>1. sent' = sent /\ file' = file /\ losses > 0 /\ losses' > 0 /\ RefusedLate(file)
      /\ uploadActive /\ ~ready /\ generation <= Capacity
  BY DEF hostVars, Spoilt
<1>2. generation \in Nat /\ streamLength \in 0..Capacity /\ buf \in [0..Capacity - 1 -> Byte]
  BY DEF TypeOK
<1>3. generation \in 0..(GenMod - 2)
  BY <1>1, <1>2, BudgetUpload
<1>4. RefusedLate(file)'
  BY <1>1 DEF RefusedLate
<1>5. ASSUME UNCHANGED <<ready, uploadActive, generation>>, result' # Ok PROVE Finalizes'
  <2>1. Spoilt' /\ ~Taken'
    BY <1>1, <1>4, <1>5 DEF Spoilt, Taken
  <2> QED BY <1>1, <2>1 DEF Finalizes
<1>6. ASSUME NEW b, NEW n \in 1..Capacity, NEW fmt, Finished(b, n, fmt) PROVE Finalizes'
  <2>1. Held' /\ generation' = generation + 1
    BY <1>3, <1>6, FinishedHeld
  <2>2. Exact' /\ generation' <= Capacity + 1
    BY <1>1, <1>2, <1>4, <2>1 DEF Exact
  <2> QED BY <1>1, <2>1, <2>2 DEF Finalizes
<1>7. ASSUME NEW b, NEW text, Unfinished(b, text), text # Ok PROVE Finalizes'
  BY <1>5, <1>7 DEF Unfinished
<1>8. CASE streamLength = 0
  <2>1. Refuse
    BY <1>8 DEF Finalize
  <2> QED BY <1>5, <2>1 DEF Refuse, Param, Ok, streamVars
<1>9. CASE streamLength # 0
  <2> DEFINE image == Content(buf, streamLength)
             d == Decode[image]
             b == WriteBuf(buf, 0, d.out)
  <2>1. \/ Finished(buf, streamLength, "R")
        \/ Unfinished(buf, "INVALID")
        \/ /\ image \in DOMAIN Decode
           /\ \/ d.result = "ok" /\ \E fmt : Finished(b, Len(d.out), fmt)
              \/ Unfinished(b, OverflowText) \/ Unfinished(b, "INVALID")
              \/ Unfinished(buf, "TOO LARGE")
    BY <1>1, <1>9 DEF Finalize
  <2>2. CASE Finished(buf, streamLength, "R")
    BY <1>2, <1>6, <1>9, <2>2
  <2>3. ASSUME image \in DOMAIN Decode, d.result = "ok" PROVE Len(d.out) \in 1..Capacity
    <3>1. d.out \in Seq(Byte) /\ Len(d.out) \in 0..Capacity /\ d.out # <<>>
      BY <2>3, DecodeType, DecodeAssumption
    <3> HIDE DEF d
    <3> QED BY <3>1
  <2>4. "INVALID" # Ok /\ "TOO LARGE" # Ok /\ OverflowText # Ok
    BY DEF Ok, OverflowText
  <2> HIDE DEF image, d, b
  <2> QED BY <1>6, <1>7, <2>1, <2>2, <2>3, <2>4
<1> QED BY <1>8, <1>9

\* FINALIZE, once or again: the tape is in the Pi, or the upload is as it was and
\* the host hears so.
LEMMA FinalizeServed ==
  ASSUME Unwrapped, TypeOK, InStepInv, HostOK, file \in Files, Finalizes, Finalize(0),
         link = "request", link' = "reply", UNCHANGED <<hostVars, losses>>
  PROVE  Finalizes'
<1>1. sent' = sent /\ file' = file /\ sent = Len(file) /\ file \in Seq(Byte)
  BY DEF hostVars, Finalizes, HostOK
<1>2. generation \in Nat /\ streamLength \in 0..Capacity /\ buf \in [0..Capacity - 1 -> Byte]
  BY DEF TypeOK
<1>3. ASSUME Held, Exact, generation <= Capacity + 1 PROVE Finalizes'
  <2>1. ~uploadActive
    BY <1>3 DEF InStepInv, UploadOrStream, Held
  <2>2. UNCHANGED <<streamVars, generation>>
    BY <2>1 DEF Finalize, Refuse
  <2>3. Held' /\ Exact'
    BY <1>1, <1>3, <2>2 DEF Held, Exact, Stream, Content, streamVars, Tape, Unpacked, RefusedLate
  <2> QED BY <1>1, <1>3, <2>2, <2>3 DEF Finalizes
<1>4. ASSUME Uploaded(file, sent) PROVE Finalizes'
  <2>1. /\ uploadActive /\ streamLength = Len(file) /\ generation <= streamLength
        /\ \A i \in 1..Len(file) : buf[i - 1] = file[i]
    BY <1>1, <1>4 DEF Uploaded
  <2>2. Content(buf, streamLength) = file
    BY <1>1, <2>1 DEF Content
  <2>3. generation + 1 <= Capacity + 1 /\ generation \in 0..(GenMod - 2)
    BY <1>2, <2>1, BudgetUpload
  <2>4. ASSUME UNCHANGED <<buf, streamLength, ready, uploadActive, generation>>, result' # Ok
        PROVE  Finalizes'
    <3>1. Uploaded(file, sent)' /\ ~Taken'
      BY <1>1, <1>4, <2>4 DEF Uploaded, Taken
    <3> QED BY <1>1, <3>1 DEF Finalizes
  <2>5. ASSUME NEW b \in [0..Capacity - 1 -> Byte], NEW n \in 1..Capacity, NEW fmt,
               Finished(b, n, fmt), Len(Unpacked(file)) = n,
               \A i \in 1..n : b[i - 1] = Unpacked(file)[i]
        PROVE  Finalizes'
    <3>1. Held' /\ generation' = generation + 1
      BY <2>3, <2>5, FinishedHeld
    <3>2. Stream' = Tape(file) /\ Tape(file)' = Tape(file)
      BY <1>1, <2>5, FinishedTape DEF Tape, Unpacked
    <3> QED BY <1>1, <2>3, <3>1, <3>2 DEF Finalizes, Exact
  <2>6. ASSUME NEW text, Unfinished(buf, text), text # Ok PROVE Finalizes'
    BY <2>4, <2>6 DEF Unfinished
  <2>7. CASE streamLength = 0
    <3>1. Refuse
      BY <2>7 DEF Finalize
    <3> QED BY <2>4, <3>1 DEF Refuse, Param, Ok, streamVars
  <2>8. CASE streamLength # 0
    <3>0. file # <<>> /\ Len(file) \in 1..Capacity
      BY <1>1, <1>2, <2>1, <2>8
    <3>1. CASE file[1] \in Magic
      <4>1. Finished(buf, streamLength, "R")
        BY <2>1, <2>2, <2>8, <3>1 DEF Finalize
      <4>2. Unpacked(file) = file
        BY <3>1 DEF Unpacked
      <4> QED BY <1>2, <2>1, <2>5, <3>0, <4>1, <4>2
    <3>2. CASE file[1] \notin Magic /\ file \notin DOMAIN Decode
      <4>1. Unfinished(buf, "INVALID")
        BY <2>1, <2>2, <2>8, <3>2 DEF Finalize
      <4> QED BY <2>6, <4>1 DEF Ok
    <3>3. CASE file[1] \notin Magic /\ file \in DOMAIN Decode
      <4> DEFINE d == Decode[file]
                 b == WriteBuf(buf, 0, d.out)
      <4>1. \/ d.result = "ok" /\ \E fmt : Finished(b, Len(d.out), fmt)
            \/ d.result = "overflow" /\ Unfinished(b, OverflowText)
            \/ d.result = "malformed" /\ Unfinished(b, "INVALID")
            \/ d.result = "declaredTooLarge" /\ Unfinished(buf, "TOO LARGE")
        BY <2>1, <2>2, <2>8, <3>3 DEF Finalize
      <4>2. d.out \in Seq(Byte) /\ Len(d.out) \in 0..Capacity /\ b \in [0..Capacity - 1 -> Byte]
        BY <1>2, <3>3, DecodeType
      <4>3. CASE d.result = "ok"
        <5>1. d.out # <<>> /\ Unpacked(file) = d.out
          BY <3>0, <3>3, <4>3, DecodeAssumption DEF Unpacked
        <5>2. PICK fmt : Finished(b, Len(d.out), fmt)
          BY <4>1, <4>3
        <5>3. Len(d.out) \in 1..Capacity
          BY <4>2, <5>1
        <5>4. ASSUME NEW i \in 1..Len(d.out) PROVE b[i - 1] = Unpacked(file)[i]
          <6> DEFINE j == i - 1
                     o == d.out
          <6>1. j \in Nat /\ j < 0 + Len(o) /\ (j - 0) + 1 = i /\ ~(j < 0)
            BY <4>2
          <6>2. buf \in [0..Capacity - 1 -> Byte] /\ o \in Seq(Byte) /\ 0 + Len(o) <= Capacity
            BY <1>2, <4>2
          <6>3. WriteBuf(buf, 0, o)[j] = IF j < 0 THEN buf[j] ELSE o[(j - 0) + 1]
            <7> HIDE DEF j, o
            <7>1. Len(o) \in Nat /\ j \in 0..Capacity - 1 /\ DOMAIN buf = 0..Capacity - 1
              BY <6>1, <6>2
            <7>2. WriteBuf(buf, 0, o)[j] = IF j - 0 \in 0..Len(o) - 1 THEN o[(j - 0) + 1] ELSE buf[j]
              BY <7>1 DEF WriteBuf
            <7>3. j - 0 \in 0..Len(o) - 1 <=> ~(j < 0)
              BY <6>1, <7>1
            <7> QED BY <7>2, <7>3
          <6> QED BY <5>1, <6>1, <6>3
        <5> HIDE DEF b, d
        <5> QED BY <2>5, <4>2, <5>1, <5>2, <5>3, <5>4
      <4>4. CASE d.result \in {"overflow", "malformed"}
        <5>0. CASE d.out # <<>>
          <6>1. RefusedLate(file)'
            BY <1>1, <3>3, <4>4, <5>0 DEF RefusedLate
          <6>2. UNCHANGED <<uploadActive, ready, generation>> /\ result' # Ok
            BY <4>1, <4>4 DEF Unfinished, OverflowText, Ok
          <6>3. ~ready /\ generation <= Capacity
            BY <1>2, <1>4, <2>1 DEF Uploaded
          <6>4. Spoilt' /\ ~Taken'
            BY <2>1, <6>1, <6>2, <6>3 DEF Spoilt, Taken
          <6> QED BY <1>1, <6>4 DEF Finalizes
        <5>1. SUFFICES ASSUME d.out = <<>> PROVE Finalizes'
          BY <5>0
        <5>2. b = buf
          <6>1. Len(d.out) = 0 /\ \A i \in DOMAIN buf : i - 0 \notin 0..Len(d.out) - 1
            BY <1>2, <5>1
          <6>2. b = [i \in DOMAIN buf |-> buf[i]]
            BY <6>1 DEF WriteBuf
          <6> QED BY <1>2, <6>2
        <5>3. \E text \in {"INVALID"} : Unfinished(buf, text) /\ text # Ok
          BY <4>1, <4>4, <5>2 DEF OverflowText, Ok
        <5> QED BY <2>6, <5>3
      <4>5. CASE d.result = "declaredTooLarge"
        <5>1. Unfinished(buf, "TOO LARGE") /\ "TOO LARGE" # Ok
          BY <4>1, <4>5 DEF Ok
        <5> QED BY <2>6, <5>1
      <4> QED BY <4>1, <4>3, <4>4, <4>5
    <3> QED BY <3>1, <3>2, <3>3
  <2> QED BY <2>7, <2>8
<1>5. ASSUME Spoilt PROVE Finalizes'
  BY <1>1, <1>5, SpoiltServed
<1> QED BY <1>3, <1>4, <1>5 DEF Finalizes

\* A window cut from within the stream has bytes, and the aperture shows it.
LEMMA PublishShown ==
  ASSUME TypeOK, NEW c \in Nat, c < streamLength, guard' = guard,
         uef_stream_publish(buf, streamLength, c, guard)
  PROVE  /\ Shown' /\ pubOffset' = c
         /\ cursor' = c + pubLength' /\ pubLength' \in Nat /\ pubLength' > 0
         /\ cursor' \in Nat
<1> DEFINE k == Count(streamLength, c, guard)
<1>1. k \in Nat /\ k > 0 /\ c + k <= streamLength
  BY DEF TypeOK, Count, Limit
<1>2. /\ pubOffset' = c /\ cursor' = c + k /\ pubLength' = k
      /\ jim' = IF k = 0 THEN [jim EXCEPT !.trailer = 0]
                ELSE [laid |-> Laid(buf, c, k), shape |-> Shape(guard), trailer |-> k]
  BY DEF uef_stream_publish
<1> HIDE DEF k
<1>3. jim'.shape = Shape(guard) /\ (Shape(guard))' = Shape(guard)
  BY <1>1, <1>2 DEF Shape
<1>4. c + k \in Nat
  BY <1>1
<1> QED BY <1>1, <1>2, <1>3, <1>4 DEF Shown

\* REWIND shows the first window again, at the cost of a generation.
LEMMA RewindServed ==
  ASSUME TypeOK, Held, generation < GenMod - 1, Rewind(0)
  PROVE  /\ Held' /\ result' = Ok /\ pubOffset' = 0 /\ Shown'
         /\ generation' = generation + 1 /\ streamLength' = streamLength
         /\ cursor' \in Nat
<1>1. /\ generation' = Succ(generation) /\ uef_stream_publish(buf, streamLength, 0, guard)
      /\ result' = Ok /\ UNCHANGED <<streamVars, token, guard>>
  BY DEF Rewind, NotReady, Held
<1>2. generation \in Nat /\ generation' = generation + 1
  BY <1>1 DEF Succ, TypeOK
<1>3. 0 < streamLength /\ guard' = guard
  BY <1>1 DEF Held
<1>4. Shown' /\ pubOffset' = 0
  BY <1>1, <1>3, PublishShown
<1>5. Held'
  BY <1>1, <1>2, SameHeld
<1>6. streamLength' = streamLength
  BY <1>1 DEF streamVars
<1>7. cursor' \in Nat
  BY <1>1, <1>3, PublishShown
<1> QED BY <1>1, <1>2, <1>4, <1>5, <1>6, <1>7

\* REFILL, once or again: the window after the n bytes the host has.
LEMMA RefillServed ==
  ASSUME TypeOK, InStepInv, NEW g \in 0..(GenMod - 1), NEW n \in Nat, Held, Due(g, n),
         generation < GenMod - 1, Refill(0, g)
  PROVE  /\ Held' /\ result' = Ok /\ Shown' /\ Due(g, n)' /\ g # generation'
         /\ generation' \in Nat
         /\ generation' + (streamLength' - cursor') <= generation + (streamLength - cursor)
         /\ streamLength' = streamLength
<1>0. /\ generation \in Nat /\ cursor \in Nat /\ streamLength \in Nat /\ pubLength \in Nat
      /\ cursor <= streamLength /\ g # 0 /\ g # GenMod - 1
  BY DEF TypeOK, InStepInv, InStep, Held, Due
<1>1. ~NotReady(0)
  BY DEF NotReady, Held
<1>2. Advances(0, g) <=> g = generation
  BY <1>0 DEF Advances
<1>3. CASE g = generation
  <2>1. n = cursor /\ cursor < streamLength
    BY <1>0, <1>3 DEF Due
  <2>2. /\ generation' = Succ(generation) /\ uef_stream_publish(buf, streamLength, cursor, guard)
        /\ result' = Ok /\ UNCHANGED <<streamVars, token, guard>>
    BY <1>1, <1>2, <1>3 DEF Refill
  <2>3. generation' = generation + 1
    BY <1>0, <2>2 DEF Succ
  <2>4. Shown' /\ pubOffset' = cursor
    BY <1>0, <2>1, <2>2, PublishShown
  <2>a. cursor' = cursor + pubLength' /\ pubLength' \in Nat /\ pubLength' > 0
    BY <1>0, <2>1, <2>2, PublishShown
  <2>5. Held' /\ streamLength' = streamLength
    BY <1>0, <2>2, <2>3, SameHeld DEF streamVars
  <2>6. Due(g, n)'
    <3>1. g > 0 /\ g + 1 = generation' /\ n = pubOffset'
      BY <1>0, <1>3, <2>1, <2>3, <2>4
    <3> QED BY <2>a, <3>1 DEF Due
  <2>7. generation' + (streamLength' - cursor') <= generation + (streamLength - cursor)
    <3>1. streamLength' = streamLength
      BY <2>5
    <3>2. \A a, b, c, d \in Nat : d > 0 => (a + 1) + (b - (c + d)) <= a + (b - c)
      OBVIOUS
    <3>3. (generation + 1) + (streamLength - (cursor + pubLength')) <= generation + (streamLength - cursor)
      BY <1>0, <2>a, <3>2
    <3>4. cursor' = cursor + pubLength'
      BY <2>a
    <3> QED BY <2>3, <3>1, <3>3, <3>4
  <2>8. generation' \in Nat /\ g # generation'
    BY <1>0, <1>3, <2>3
  <2> QED BY <2>2, <2>4, <2>5, <2>6, <2>7, <2>8
<1>4. CASE g # generation
  <2>1. g + 1 = generation /\ n = pubOffset /\ pubLength > 0 /\ Succ(g) = generation
    BY <1>0, <1>4 DEF Due, Succ
  <2>2. /\ uef_stream_republish /\ result' = Ok
        /\ UNCHANGED <<streamVars, windowVars, token, generation, guard>>
    BY <1>1, <1>2, <1>4, <2>1 DEF Refill
  <2>3. jim'.shape = Shape(guard)
    <3>1. jim' = [laid |-> Laid(buf, pubOffset, pubLength),
                  shape |-> Shape(guard), trailer |-> pubLength]
      BY <2>1, <2>2 DEF uef_stream_republish
    <3> QED BY <3>1
  <2>4. Shown'
    BY <2>1, <2>2, <2>3 DEF Shown, windowVars, Shape
  <2>5. Held'
    BY <1>0, <2>2, SameHeld
  <2>6. /\ generation' = generation /\ pubOffset' = pubOffset /\ pubLength' = pubLength
        /\ cursor' = cursor /\ streamLength' = streamLength
    BY <2>2 DEF windowVars, streamVars
  <2>7. g > 0
    BY DEF Due
  <2>8. Due(g, n)'
    BY <2>1, <2>6, <2>7 DEF Due
  <2>9. generation' + (streamLength' - cursor') <= generation + (streamLength - cursor)
    BY <1>0, <2>6
  <2>10. generation' \in Nat /\ g # generation'
    BY <1>0, <1>4, <2>6
  <2> QED BY <2>2, <2>4, <2>5, <2>6, <2>8, <2>9, <2>10
<1> QED BY <1>3, <1>4

-----------------------------------------------------------------------------
(* The steps of the session.                                                *)

\* While the spending is kept to, the generation has not come round.
LEMMA PaidBound ==
  ASSUME Unwrapped, TypeOK, InStepInv, HostOK, LinkOK, Held, Paid
  PROVE  generation < GenMod - 1
<1> DEFINE n == Allowance
<1>1. Spare \in {0, 1}
  BY DEF Spare
<1>2. n \in 0..(MaxRewinds + MaxLosses + 2)
  BY <1>1, SessionAssumption, SMTT(30) DEF HostOK, LinkOK, Allowance
<1>3. Budget(n) < GenMod - 1 /\ Budget(n) \in Nat
  <2> HIDE DEF n
  <2> QED BY <1>2, BudgetEnough
<1>4. generation \in Nat /\ streamLength \in Nat /\ cursor \in Nat /\ cursor <= streamLength
  BY DEF TypeOK, InStepInv, InStep, Held
<1>5. generation + (streamLength - cursor) <= Budget(n)
  BY DEF Paid
<1> HIDE DEF n
<1> QED BY <1>3, <1>4, <1>5

\* getbyte hands the parser a byte, and with the guard the next one of the stream.
LEMMA ByteRead ==
  ASSUME TypeOK, InStepInv, HostOK, Reads, GetByte
  PROVE  \E x \in Byte : /\ got' = Append(got, x) /\ Len(got) + 1 <= streamLength
                         /\ guard => x = buf[Len(got)]
<1> DEFINE x == ByteAt(ReaderCell(pos))
<1>1. hpc = "play" /\ left > 0 /\ got' = Append(got, x)
  BY DEF GetByte
<1>2. /\ Held /\ Shown /\ pubOffset + pos = Len(got) /\ pos + left = pubLength
  BY <1>1 DEF Reads, Plays, Reading
<1>3. /\ cursor = pubOffset + pubLength /\ cursor <= streamLength
      /\ jim.laid = Laid(buf, pubOffset, pubLength)
  BY <1>2 DEF Shown, Shape, InStepInv, InStep, WindowIsStream, Held
<1>4. /\ pos \in 0..(pubLength - 1) /\ pubLength \in Nat /\ pubOffset \in Nat
      /\ Len(got) < streamLength /\ streamLength <= Capacity /\ Len(got) \in Nat
      /\ streamLength \in Nat
  <2>1. /\ left \in Nat /\ pos \in Nat /\ pubLength \in Nat /\ pubOffset \in Nat
        /\ streamLength \in 0..Capacity
    BY DEF TypeOK, HostOK
  <2> QED BY <1>1, <1>2, <1>3, <2>1
<1>5. DOMAIN jim.laid = 0..(pubLength - 1) /\ jim.laid[pos] = ReadBuf(buf, pubOffset + pos)
  BY <1>3, <1>4 DEF Laid
<1>6. ReadBuf(buf, pubOffset + pos) = buf[Len(got)]
  BY <1>2, <1>4 DEF ReadBuf
<1>7. guard => x = jim.laid[pos]
  <2>1. guard => jim.shape = "guard"
    BY <1>2 DEF Shown, Shape
  <2> QED BY <1>4, <1>5, <2>1, GuardedByte
<1>8. x \in Byte
  BY ByteAtType
<1>9. Len(got) + 1 <= streamLength
  BY <1>4
<1> HIDE DEF x
<1> QED BY <1>1, <1>5, <1>6, <1>7, <1>8, <1>9

\* The host's variables and the mailbox keep their shape: the command ...
LEMMA UploadLink ==
  ASSUME SessionInv,
         \/ \E f \in Files : UefLoad(f)
         \/ ProbeDone \/ BeginDone \/ ReadWindow \/ ReadError \/ Escape \/ AppendDone
         \/ EndOfFile \/ FinalizeDone \/ UploadFailed \/ BeginFailed \/ Closed
  PROVE  HostOK' /\ LinkOK'
<1> USE SessionAssumption DEF Uploading, Reading, Over, Waits
<1>a. TypeOK /\ HostOK /\ LinkOK /\ Uploads
  BY DEF SessionInv
<1>0. generation \in 0..(GenMod - 1) /\ 0 \in 0..(GenMod - 1)
  <2>1. generation \in 0..(GenMod - 1)
    BY <1>a DEF TypeOK
  <2>2. 0 \in 0..(GenMod - 1)
    OBVIOUS
  <2> QED BY <2>1, <2>2
<1>1. CASE \E f \in Files : UefLoad(f)
  <2>1. PICK f \in Files : UefLoad(f)
    BY <1>1
  <2>2. f \in Seq(Byte) /\ <<>> \in Seq(Byte) /\ 0 \in 0..Len(f)
    OBVIOUS
  <2>3. HostOK'
    BY <1>a, <2>1, <2>2 DEF HostOK, UefLoad
  <2> QED BY <1>a, <1>0, <2>1, <2>3 DEF LinkOK, UefLoad, Ask
<1>2. CASE ProbeDone
  <2>1. HostOK'
    BY <1>a, <1>2 DEF HostOK, ProbeDone
  <2> QED BY <1>a, <1>0, <1>2, <2>1 DEF LinkOK, ProbeDone, Follow
<1>3. CASE UploadFailed
  <2>1. HostOK'
    BY <1>a, <1>3 DEF HostOK, UploadFailed
  <2> QED BY <1>a, <1>0, <1>3, <2>1 DEF LinkOK, UploadFailed, Follow
<1>4. CASE BeginDone \/ FinalizeDone
  <2>1. HostOK'
    BY <1>a, <1>0, <1>4 DEF HostOK, BeginDone, FinalizeDone
  <2> QED BY <1>a, <1>4, <2>1 DEF LinkOK, BeginDone, FinalizeDone, Hangup
<1>5. CASE BeginFailed \/ Closed
  <2>1. HostOK'
    BY <1>a, <1>5 DEF HostOK, BeginFailed, Closed
  <2> QED BY <1>a, <1>5, <2>1 DEF LinkOK, BeginFailed, Closed, Hangup
<1>6. CASE ReadWindow
  <2>1. HostOK'
    BY <1>a, <1>6 DEF HostOK, ReadWindow
  <2> QED BY <1>a, <1>6, <2>1 DEF LinkOK, ReadWindow, Ask, HostOK
<1>7. CASE Escape
  <2>1. HostOK'
    BY <1>a, <1>7 DEF HostOK, Escape
  <2> QED BY <1>a, <1>0, <1>7, <2>1 DEF LinkOK, Escape, Ask
<1>8. CASE EndOfFile
  <2>1. HostOK'
    BY <1>a, <1>8 DEF HostOK, EndOfFile
  <2> QED BY <1>a, <1>0, <1>8, <2>1 DEF LinkOK, EndOfFile, Ask
<1>9. CASE ReadError
  <2>1. HostOK'
    BY <1>a, <1>9 DEF HostOK, ReadError
  <2> QED BY <1>a, <1>9, <2>1 DEF LinkOK, ReadError, linkVars
<1>10. CASE AppendDone
  <2>1. sent + Len(ChunkOf(file, sent)) \in 0..Len(file)
    BY <1>a, <1>10, ChunkFacts DEF AppendDone, Uploads, Appends, HostOK
  <2>2. HostOK'
    BY <1>a, <1>0, <1>10, <2>1 DEF HostOK, AppendDone
  <2> QED BY <1>a, <1>10, <2>2 DEF LinkOK, AppendDone, Hangup
<1> QED BY <1>1, <1>2, <1>3, <1>4, <1>5, <1>6, <1>7, <1>8, <1>9, <1>10

\* ... the reader, the Pi and the mailbox.
LEMMA ReadLink ==
  ASSUME SessionInv,
         \/ PublishGuard \/ CfsInit \/ RewindDone \/ GetByte \/ AskRefill
         \/ RefillDone \/ EndOfTape \/ ReadFailed \/ PiServes \/ Lose \/ Retry
  PROVE  HostOK' /\ LinkOK'
<1> USE SessionAssumption DEF Uploading, Reading, Over, Waits
<1>a. TypeOK /\ InStepInv /\ HostOK /\ LinkOK /\ Reads
  BY DEF SessionInv
<1>0. /\ generation \in 0..(GenMod - 1) /\ 0 \in 0..(GenMod - 1)
      /\ pubLength \in Nat /\ pubFinal \in BOOLEAN
  BY <1>a DEF TypeOK
<1>1. CASE PublishGuard
  <2>1. HostOK'
    BY <1>a, <1>1 DEF HostOK, PublishGuard
  <2> QED BY <1>a, <1>0, <1>1, <2>1 DEF LinkOK, PublishGuard, Ask
<1>2. CASE AskRefill
  <2>1. HostOK'
    BY <1>a, <1>2 DEF HostOK, AskRefill
  <2> QED BY <1>a, <1>2, <2>1 DEF LinkOK, AskRefill, Ask, HostOK
<1>3. CASE CfsInit
  <2>1. <<>> \in Seq(Byte)
    OBVIOUS
  <2>2. HostOK'
    BY <1>a, <1>3, <2>1 DEF HostOK, CfsInit
  <2> QED BY <1>a, <1>0, <1>3, <2>2 DEF LinkOK, CfsInit, Follow
<1>4. CASE RewindDone \/ RefillDone
  <2>1. hpc' \in {"play", "eof"} /\ hpc \in {"rewind", "refill"} /\ TakeWindow /\ Hangup
        /\ UNCHANGED <<file, sent, got, rewinds>>
    BY <1>4 DEF RewindDone, RefillDone
  <2>2. HostOK'
    BY <1>a, <1>0, <2>1 DEF HostOK, TakeWindow
  <2> QED BY <1>a, <2>1, <2>2 DEF LinkOK, Hangup
<1>5. CASE GetByte
  <2>1. PICK x \in Byte : got' = Append(got, x)
    BY <1>a, <1>5, ByteRead
  <2>2. got' \in Seq(Byte)
    BY <1>a, <2>1 DEF HostOK
  <2>3. left' \in Nat /\ pos' \in Nat
    BY <1>a, <1>5 DEF GetByte, HostOK
  <2>4. UNCHANGED <<hpc, file, sent, hgen, final, rewinds, linkVars>>
    BY <1>5 DEF GetByte
  <2>5. HostOK'
    BY <1>a, <2>2, <2>3, <2>4 DEF HostOK
  <2> QED BY <1>a, <2>4, <2>5 DEF LinkOK, linkVars
<1>6. CASE EndOfTape
  <2>1. HostOK'
    BY <1>a, <1>6 DEF HostOK, EndOfTape
  <2> QED BY <1>a, <1>6, <2>1 DEF LinkOK, EndOfTape, linkVars
<1>7. CASE ReadFailed
  <2>1. HostOK'
    BY <1>a, <1>7 DEF HostOK, ReadFailed
  <2> QED BY <1>a, <1>7, <2>1 DEF LinkOK, ReadFailed, Hangup
<1>8. CASE PiServes
  <2>1. /\ link = "request" /\ link' = "reply" /\ hpc \in Waits
        /\ UNCHANGED <<hostVars, request, tries, losses>>
    BY <1>a, <1>8, ServesPlace
  <2>2. HostOK'
    BY <1>a, <2>1 DEF HostOK, hostVars
  <2> QED BY <1>a, <2>1, <2>2 DEF LinkOK, hostVars
<1>9. CASE Lose
  <2>1. HostOK'
    BY <1>a, <1>9 DEF HostOK, Lose, hostVars
  <2>2. losses' \in 0..MaxLosses /\ tries' <= losses' /\ tries' < losses'
    BY <1>a, <1>9 DEF Lose, LinkOK
  <2>3. link' = "lost" /\ link # "idle" /\ UNCHANGED <<hpc, request, tries>>
    BY <1>9 DEF Lose, hostVars
  <2> QED BY <1>a, <2>1, <2>2, <2>3 DEF LinkOK
<1>10. CASE Retry
  <2>1. HostOK'
    BY <1>a, <1>10 DEF HostOK, Retry, hostVars
  <2>2. tries' \in 0..MaxTries /\ tries' <= losses'
    BY <1>a, <1>10 DEF Retry, Retries, LinkOK
  <2>3. link' = "request" /\ link # "idle" /\ UNCHANGED <<hpc, request, losses>>
    BY <1>10 DEF Retry, hostVars
  <2> QED BY <1>a, <2>1, <2>2, <2>3 DEF LinkOK
<1> QED BY <1>1, <1>2, <1>3, <1>4, <1>5, <1>6, <1>7, <1>8, <1>9, <1>10

\* The upload, step by step: the host ...
LEMMA UploadHost ==
  ASSUME SessionInv,
         \/ \E f \in Files : UefLoad(f)
         \/ ProbeDone \/ BeginDone \/ ReadWindow \/ ReadError \/ Escape \/ AppendDone
         \/ EndOfFile \/ FinalizeDone \/ UploadFailed \/ BeginFailed \/ Closed
  PROVE  Uploads'
<1> USE DEF Uploading
<1>a. TypeOK /\ HostOK /\ LinkOK /\ Uploads
  BY DEF SessionInv
<1>1. CASE \E f \in Files : UefLoad(f)
  BY <1>1 DEF UefLoad, Uploads
<1>2. CASE ProbeDone
  <2>1. hpc = "probe" /\ hpc' = "begin" /\ link' = "request" /\ UNCHANGED <<got, sent>>
    BY <1>2 DEF ProbeDone, Follow
  <2> QED BY <1>a, <2>1 DEF Uploads
<1>3. CASE BeginDone
  <2>1. /\ hpc = "begin" /\ link = "reply" /\ hpc' = "read" /\ hgen' = generation
        /\ UNCHANGED <<vars, got, sent, file>>
    BY <1>3 DEF BeginDone, Succeeded, Answered
  <2>2. sent = 0 /\ Uploaded(file, 0) /\ got = <<>>
    BY <1>a, <2>1 DEF Uploads
  <2>3. UNCHANGED <<buf, streamLength, generation, uploadActive, ready>>
    BY <2>1 DEF vars, streamVars
  <2>4. Uploaded(file, sent)'
    BY <2>1, <2>2, <2>3 DEF Uploaded
  <2> QED BY <2>1, <2>2, <2>3, <2>4 DEF Uploads
<1>4. CASE ReadWindow
  <2>1. /\ hpc = "read" /\ hpc' = "append" /\ link' = "request" /\ request'.value = hgen
        /\ sent < Len(file) /\ UNCHANGED <<got, sent, file, hgen>>
        /\ HostWrites(ChunkOf(file, sent))
    BY <1>4 DEF ReadWindow, Ask
  <2>2. hgen = generation /\ Uploaded(file, sent) /\ got = <<>>
    BY <1>a, <2>1 DEF Uploads
  <2>3. /\ UNCHANGED <<buf, streamLength, generation, uploadActive, ready>>
        /\ jim' = [laid |-> Window(ChunkOf(file, sent)), shape |-> "upload",
                   trailer |-> Len(ChunkOf(file, sent))]
    BY <2>1 DEF HostWrites, streamVars
  <2>4. Uploaded(file, sent)'
    BY <2>1, <2>2, <2>3 DEF Uploaded
  <2>5. (ChunkOf(file, sent))' = ChunkOf(file, sent)
    BY <2>1 DEF ChunkOf
  <2>6. Appends'
    BY <2>1, <2>2, <2>3, <2>4, <2>5 DEF Appends, Taken
  <2> QED BY <2>1, <2>2, <2>6 DEF Uploads
<1>5. CASE AppendDone
  <2>1. /\ hpc = "append" /\ Taken /\ hpc' = "read" /\ hgen' = generation
        /\ sent' = sent + Len(ChunkOf(file, sent)) /\ UNCHANGED <<vars, got, file>>
    BY <1>5 DEF AppendDone, Succeeded, Answered, Taken
  <2>2. Uploaded(file, sent + Len(ChunkOf(file, sent))) /\ got = <<>>
    BY <1>a, <2>1 DEF Uploads, Appends
  <2>3. UNCHANGED <<buf, streamLength, generation, uploadActive, ready>>
    BY <2>1 DEF vars, streamVars
  <2>4. Uploaded(file, sent)'
    BY <2>1, <2>2, <2>3 DEF Uploaded
  <2> QED BY <2>1, <2>2, <2>3, <2>4 DEF Uploads
<1>6. CASE EndOfFile
  <2>1. /\ hpc = "read" /\ hpc' = "finalize" /\ link' = "request" /\ sent = Len(file)
        /\ ForeignUse /\ UNCHANGED <<got, sent, file>>
    BY <1>6 DEF EndOfFile, Ask
  <2>2. Uploaded(file, sent) /\ got = <<>>
    BY <1>a, <2>1 DEF Uploads
  <2>3. UNCHANGED <<buf, streamLength, generation, uploadActive, ready>>
    BY <2>1 DEF ForeignUse, streamVars
  <2>4. Uploaded(file, sent)' /\ ~Taken'
    BY <2>1, <2>2, <2>3 DEF Uploaded, Taken
  <2>5. Finalizes'
    BY <2>1, <2>4 DEF Finalizes
  <2> QED BY <2>1, <2>2, <2>5 DEF Uploads
<1>7. CASE ReadError \/ FinalizeDone \/ BeginFailed \/ Closed
  <2>1. hpc' \notin Uploading \cup {"closing", "escaping"}
    BY <1>7 DEF ReadError, FinalizeDone, BeginFailed, Closed
  <2> QED BY <2>1 DEF Uploads
<1>8. CASE Escape \/ UploadFailed
  <2>1. hpc \in Uploading /\ hpc' \notin Uploading /\ got' = got
    BY <1>8 DEF Escape, UploadFailed
  <2> QED BY <1>a, <2>1 DEF Uploads
<1> QED BY <1>1, <1>2, <1>3, <1>4, <1>5, <1>6, <1>7, <1>8

\* ... the Pi and the mailbox.
LEMMA UploadOther ==
  ASSUME Unwrapped, SessionInv,
         \/ PublishGuard \/ CfsInit \/ RewindDone \/ GetByte \/ AskRefill
         \/ RefillDone \/ EndOfTape \/ ReadFailed \/ PiServes \/ Lose \/ Retry
  PROVE  Uploads'
<1> USE DEF Uploading
<1>a. TypeOK /\ InStepInv /\ HostOK /\ LinkOK /\ Uploads
  BY DEF SessionInv
<1>1. CASE \/ PublishGuard \/ CfsInit \/ RewindDone \/ GetByte \/ AskRefill
           \/ RefillDone \/ EndOfTape \/ ReadFailed
  <2>1. hpc' \notin Uploading \cup {"closing", "escaping"}
    BY <1>1 DEF PublishGuard, CfsInit, RewindDone, GetByte, AskRefill, RefillDone, EndOfTape,
       ReadFailed
  <2> QED BY <2>1 DEF Uploads
<1>2. CASE PiServes
  <2>1. /\ link = "request" /\ link' = "reply" /\ UNCHANGED <<hostVars, request, losses>>
        /\ hpc = "begin" => Begin
        /\ hpc = "append" => Append93(0, request.value, 0, "none")
        /\ hpc = "finalize" => Finalize(0)
        /\ hpc # "read"
    BY <1>a, <1>2, ServesPlace DEF Waits
  <2>2. UNCHANGED <<hpc, got, sent, file>>
    BY <2>1 DEF hostVars
  <2>3. hpc = "begin" => Uploaded(file, 0)'
    BY <2>1, <2>2, BeginServed DEF Uploaded
  <2>4. hpc = "append" => Appends'
    BY <1>a, <2>1, AppendServed DEF Uploads
  <2>5. hpc = "finalize" => Finalizes'
    BY <1>a, <2>1, FinalizeServed DEF Uploads, HostOK
  <2> QED BY <1>a, <2>1, <2>2, <2>3, <2>4, <2>5 DEF Uploads
<1>3. CASE Lose \/ Retry
  <2>1. UNCHANGED <<vars, hostVars, request>> /\ link' # "reply"
    BY <1>3 DEF Lose, Retry
  <2>2. /\ UNCHANGED <<hpc, got, sent, file, hgen>>
        /\ UNCHANGED <<buf, streamLength, generation, uploadActive, ready, jim, lastAppend>>
    BY <2>1 DEF hostVars, vars, streamVars
  <2>3. hpc = "read" => Uploaded(file, sent)'
    BY <1>a, <2>2 DEF Uploads, Uploaded
  <2>4. hpc = "append" => Appends'
    <3> SUFFICES ASSUME hpc = "append", Appends PROVE Appends'
      BY <1>a DEF Uploads
    <3>1. (ChunkOf(file, sent))' = ChunkOf(file, sent)
      BY <2>2 DEF ChunkOf
    <3>2. Uploaded(file, sent) => Uploaded(file, sent)'
      BY <2>2 DEF Uploaded
    <3>3. Uploaded(file, sent + Len(ChunkOf(file, sent)))
            => Uploaded(file, sent + Len(ChunkOf(file, sent)))'
      BY <2>2, <3>1 DEF Uploaded
    <3> QED BY <2>1, <2>2, <3>1, <3>2, <3>3 DEF Appends, Taken
  <2>5. hpc = "finalize" => Finalizes'
    <3> SUFFICES ASSUME hpc = "finalize", Finalizes PROVE Finalizes'
      BY <1>a DEF Uploads
    <3>1. Uploaded(file, sent) => Uploaded(file, sent)'
      BY <2>2 DEF Uploaded
    <3>2. Held => Held'
      BY <2>2 DEF Held
    <3>3. losses' \in Nat /\ losses \in Nat /\ losses' >= losses /\ (losses > 0 \/ losses' > 0)
      <4>1. losses \in Nat /\ (link = "lost" => losses > 0)
        BY <1>a, SessionAssumption DEF LinkOK
      <4> QED BY <1>3, <4>1 DEF Lose, Retry
    <3>4. Exact => Exact'
      BY <2>2, <3>3 DEF Exact, Stream, Content, Tape, Unpacked, RefusedLate
    <3>5. Spoilt => Spoilt'
      BY <2>2, <3>3 DEF Spoilt, RefusedLate
    <3> QED BY <2>1, <2>2, <3>1, <3>2, <3>4, <3>5 DEF Finalizes, Taken
  <2> QED BY <1>a, <2>1, <2>2, <2>3, <2>4, <2>5 DEF Uploads
<1> QED BY <1>1, <1>2, <1>3

\* More allowance or less to spend: still paid for.
LEMMA PaidKept ==
  ASSUME TypeOK, TypeOK', HostOK, LinkOK, HostOK', LinkOK', Paid, Allowance <= Allowance',
         generation' + (streamLength' - cursor') <= generation + (streamLength - cursor)
  PROVE  Paid'
<1>1. Allowance \in Nat /\ Allowance' \in Nat
  <2>1. Spare \in {0, 1} /\ Spare' \in {0, 1}
    BY DEF Spare
  <2>2. /\ rewinds \in Nat /\ losses \in Nat /\ rewinds' \in Nat /\ losses' \in Nat
    BY SessionAssumption DEF HostOK, LinkOK
  <2>3. \A r, l \in Nat : \A s \in {0, 1} : (2 + r + l) - s \in Nat
    OBVIOUS
  <2>4. (2 + rewinds + losses) - Spare \in Nat /\ (2 + rewinds' + losses') - Spare' \in Nat
    BY <2>1, <2>2, <2>3
  <2> QED BY <2>4 DEF Allowance
<1>2. /\ Budget(Allowance) <= Budget(Allowance') /\ Budget(Allowance) \in Nat
      /\ Budget(Allowance') \in Nat
  <2> DEFINE m == Allowance
             n == Allowance'
  <2>1. m \in Nat /\ n \in Nat /\ m <= n
    BY <1>1
  <2> HIDE DEF m, n
  <2>2. Budget(m) <= Budget(n) /\ Budget(m) \in Nat /\ Budget(n) \in Nat
    BY <2>1, BudgetMonotone, BudgetStep
  <2> QED BY <2>2 DEF m, n
<1>3. /\ generation + (streamLength - cursor) \in Int
      /\ generation' + (streamLength' - cursor') \in Int
  BY SMTT(30) DEF TypeOK
<1>4. generation + (streamLength - cursor) <= Budget(Allowance)
  BY DEF Paid
<1>5. generation' + (streamLength' - cursor') <= Budget(Allowance')
  <2>1. \A a, b, c, d \in Int : b <= a /\ a <= c /\ c <= d => b <= d
    OBVIOUS
  <2>2. /\ generation' + (streamLength' - cursor') <= generation + (streamLength - cursor)
        /\ generation + (streamLength - cursor) <= Budget(Allowance)
        /\ Budget(Allowance) <= Budget(Allowance')
        /\ Budget(Allowance) \in Int /\ Budget(Allowance') \in Int
    BY <1>2, <1>4
  <2> DEFINE a == generation + (streamLength - cursor)
             b == generation' + (streamLength' - cursor')
             c == Budget(Allowance)
             d == Budget(Allowance')
  <2>3. a \in Int /\ b \in Int /\ c \in Int /\ d \in Int /\ b <= a /\ a <= c /\ c <= d
    BY <1>3, <2>2
  <2> HIDE DEF a, b, c, d
  <2>4. b <= d
    BY <2>1, <2>3
  <2> QED BY <2>4 DEF b, d
<1>6. Budget(Allowance') = Budget(Allowance)'
  BY DEF Budget
<1> QED BY <1>5, <1>6 DEF Paid

\* What the reader relies on stays while the Pi's state does.
LEMMA ReadsKept ==
  ASSUME UNCHANGED vars
  PROVE  /\ Held => Held'
         /\ Shown => Shown'
         /\ UNCHANGED <<buf, streamLength, cursor, generation, pubOffset, pubLength, pubFinal,
                        result, ready, guard, Stream>>
<1>1. /\ UNCHANGED <<buf, streamLength, cursor, generation, pubOffset, pubLength, pubFinal,
                     result, ready, jim, guard>>
  BY DEF vars, streamVars, windowVars
<1>2. Stream' = Stream
  BY <1>1 DEF Stream, Content
<1>3. Shown => Shown'
  BY <1>1 DEF Shown, Shape
<1>4. Held => Held'
  BY <1>1 DEF Held
<1> QED BY <1>1, <1>2, <1>3, <1>4

\* Reading the tape: the command only brings it in.
LEMMA ReadsUpload ==
  ASSUME SessionInv,
         \/ \E f \in Files : UefLoad(f)
         \/ ProbeDone \/ BeginDone \/ ReadWindow \/ ReadError \/ Escape \/ AppendDone
         \/ EndOfFile \/ FinalizeDone \/ UploadFailed \/ BeginFailed \/ Closed
  PROVE  Reads'
<1> USE DEF Reading
<1>1. CASE \/ \E f \in Files : UefLoad(f)
           \/ ProbeDone \/ BeginDone \/ ReadWindow \/ ReadError \/ Escape \/ AppendDone
           \/ EndOfFile \/ UploadFailed \/ BeginFailed \/ Closed
  <2>1. hpc' \notin Reading
    BY <1>1 DEF UefLoad, ProbeDone, BeginDone, ReadWindow, ReadError, Escape, AppendDone,
       EndOfFile, UploadFailed, BeginFailed, Closed
  <2> QED BY <2>1 DEF Reads
<1>2. CASE FinalizeDone
  <2>1. /\ hpc = "finalize" /\ Taken /\ hpc' = "install" /\ UNCHANGED <<vars, file, got>>
    BY <1>2 DEF FinalizeDone, Succeeded, Answered, Taken
  <2>2. got = <<>> /\ Held /\ generation <= Capacity + 1 /\ TypeOK
    BY <2>1 DEF SessionInv, Uploads, Uploading, Finalizes
  <2>3. Held' /\ generation' = generation /\ streamLength' = streamLength
    BY <2>1, <2>2, ReadsKept
  <2>4. Len(got') = 0 /\ got' = <<>> /\ 0 <= streamLength
    BY <2>1, <2>2 DEF TypeOK
  <2>5. Plays'
    BY <2>1 DEF Plays
  <2>6. Len(got') <= streamLength' /\ InStream'
    BY <2>3, <2>4 DEF InStream
  <2> QED BY <2>1, <2>2, <2>3, <2>4, <2>5, <2>6 DEF Reads
<1> QED BY <1>1, <1>2

\* An allowance that never shrinks while the Pi's state stays keeps the spending.
LEMMA PaidSame ==
  ASSUME TypeOK, TypeOK', HostOK, LinkOK, HostOK', LinkOK', Paid, UNCHANGED <<vars, file>>,
         Allowance <= Allowance'
  PROVE  Paid'
<1>1. generation' = generation /\ streamLength' = streamLength /\ cursor' = cursor
  BY ReadsKept
<1>2. generation + (streamLength - cursor) \in Int
  BY DEF TypeOK
<1>3. generation' + (streamLength' - cursor') <= generation + (streamLength - cursor)
  BY <1>1, <1>2
<1> QED BY <1>3, PaidKept

\* ... the reader rewinds it ...
LEMMA ReadsRewind ==
  ASSUME SessionInv, TypeOK', HostOK', LinkOK', PublishGuard \/ CfsInit \/ RewindDone
  PROVE  Reads'
<1> USE DEF Reading
<1>a. TypeOK /\ InStepInv /\ HostOK /\ LinkOK /\ Reads
  BY DEF SessionInv
<1>b. UNCHANGED <<vars, file>>
  BY DEF PublishGuard, CfsInit, RewindDone
<1>c. hpc \in Reading
  BY DEF PublishGuard, CfsInit, RewindDone
<1>d. /\ Held' /\ Len(got) <= streamLength
      /\ IF hpc \in {"install", "guard"} THEN generation <= Capacity + 1 ELSE Paid
  BY <1>a, <1>b, <1>c, ReadsKept DEF Reads
<1>e. /\ (Shown => Shown')
      /\ UNCHANGED <<streamLength, cursor, generation, pubOffset, pubLength, pubFinal, result>>
  BY <1>b, ReadsKept
<1>f. ASSUME got' = <<>> PROVE Len(got') <= streamLength' /\ InStream'
  <2>1. Len(got') = 0 /\ streamLength' \in Nat
    BY <1>f DEF TypeOK
  <2> QED BY <2>1 DEF InStream
<1>g. Spare \in {0, 1} /\ Spare' \in {0, 1} /\ rewinds \in Nat /\ losses \in Nat
  BY <1>a, SessionAssumption DEF Spare, HostOK, LinkOK
<1>1. CASE PublishGuard
  <2>1. hpc = "install" /\ hpc' = "guard" /\ got' = got
    BY <1>1 DEF PublishGuard
  <2>2. got = <<>>
    BY <1>a, <2>1 DEF Reads
  <2>3. Plays'
    BY <2>1 DEF Plays
  <2> QED BY <1>d, <1>e, <1>f, <2>1, <2>2, <2>3 DEF Reads
<1>2. CASE CfsInit
  <2>1. /\ hpc' = "rewind" /\ got' = <<>> /\ link' = "request" /\ rewinds' = rewinds + 1
        /\ losses' = losses /\ hpc \in {"install", "guard", "play", "eof"}
    BY <1>2 DEF CfsInit, Follow
  <2>2. Plays'
    BY <2>1 DEF Plays
  <2>3. Spare = 0 /\ Spare' = 1
    BY <2>1 DEF Spare
  <2>4. Allowance' = 2 + rewinds + losses /\ Allowance = 2 + rewinds + losses
    BY <1>g, <2>1, <2>3 DEF Allowance
  <2>5. Paid'
    <3>1. CASE hpc \in {"play", "eof"}
      <4>1. Paid /\ Allowance <= Allowance'
        BY <1>d, <1>g, <2>4, <3>1
      <4> QED BY <1>a, <1>b, <4>1, PaidSame
    <3>2. CASE hpc \in {"install", "guard"}
      <4> DEFINE n == Allowance'
      <4>1. n \in Nat /\ 2 <= n
        BY <1>g, <2>4
      <4>2. Budget(2) <= Budget(n) /\ Budget(n) \in Nat
        <5> HIDE DEF n
        <5> QED BY <4>1, BudgetMonotone, BudgetStep
      <4>3. Capacity + Capacity + 2 <= Budget(n)
        BY <4>2, BudgetOfTwo
      <4>4. /\ generation \in Nat /\ streamLength \in Nat /\ cursor \in Nat
            /\ generation <= Capacity + 1 /\ streamLength <= Capacity
        BY <1>a, <1>d, <3>2 DEF TypeOK
      <4>5. generation + (streamLength - cursor) <= Budget(n)
        <5> HIDE DEF n
        <5> QED BY <4>2, <4>3, <4>4
      <4>6. Budget(Allowance)' = Budget(n)
        BY DEF Budget
      <4> QED BY <1>e, <4>5, <4>6 DEF Paid
    <3> QED BY <2>1, <3>1, <3>2
  <2> QED BY <1>d, <1>f, <2>1, <2>2, <2>5 DEF Reads
<1>3. CASE RewindDone
  <2>1. /\ hpc = "rewind" /\ hpc' = "play" /\ link = "reply" /\ got' = got
        /\ left' = pubLength /\ pos' = 0 /\ final' = pubFinal /\ hgen' = generation
        /\ rewinds' = rewinds /\ losses' = losses
    BY <1>3 DEF RewindDone, Succeeded, Answered, TakeWindow, Hangup
  <2>2. got = <<>> /\ pubOffset = 0 /\ Shown /\ Paid
    BY <1>a, <2>1 DEF Reads
  <2>3. Spare = 0 /\ Spare' = 0
    BY <2>1 DEF Spare
  <2>4. Allowance' = Allowance /\ Allowance \in Int
    BY <1>g, <2>1, <2>3 DEF Allowance
  <2>5. Paid'
    BY <1>a, <1>b, <2>2, <2>4, PaidSame
  <2>6. pubOffset' + pos' = Len(got') /\ pos' + left' = pubLength'
    <3>1. pubLength \in Int /\ Len(got') = 0
      BY <1>a, <2>1, <2>2 DEF TypeOK
    <3> QED BY <1>e, <2>1, <2>2, <3>1
  <2>7. Plays'
    BY <1>e, <2>1, <2>2, <2>6 DEF Plays
  <2> QED BY <1>d, <1>f, <2>1, <2>2, <2>5, <2>7 DEF Reads
<1> QED BY <1>1, <1>2, <1>3

\* A place that reads on where it is spends nothing and loses no allowance.
LEMMA AllowanceSame ==
  ASSUME HostOK, LinkOK, hpc # "rewind" \/ link \in {"request", "lost"}, hpc' # "rewind",
         UNCHANGED <<rewinds, losses>>
  PROVE  Allowance <= Allowance'
<1>1. Spare \in {0, 1} /\ Spare' = 0
  BY DEF Spare
<1>2. rewinds \in Nat /\ losses \in Nat
  BY SessionAssumption DEF HostOK, LinkOK
<1>3. Allowance = (2 + rewinds + losses) - Spare /\ Allowance' = (2 + rewinds + losses) - 0
  BY <1>1 DEF Allowance
<1> QED BY <1>1, <1>2, <1>3

\* ... reads it byte by byte ...
LEMMA ReadsByte ==
  ASSUME SessionInv, TypeOK', HostOK', LinkOK', GetByte
  PROVE  Reads'
<1> USE DEF Reading
<1>a. TypeOK /\ InStepInv /\ HostOK /\ LinkOK /\ Reads
  BY DEF SessionInv
<1>b. /\ UNCHANGED <<vars, file>> /\ UNCHANGED <<hpc, hgen, final, rewinds, linkVars>>
      /\ hpc = "play" /\ left > 0 /\ left' = left - 1 /\ pos' = pos + 1
  BY DEF GetByte
<1>c. /\ Held /\ Len(got) <= streamLength /\ InStream
      /\ Paid /\ Shown /\ hgen = generation /\ final = pubFinal
      /\ pubOffset + pos = Len(got) /\ pos + left = pubLength
  BY <1>a, <1>b DEF Reads, Plays
<1>d. /\ Held' /\ Shown'
      /\ UNCHANGED <<buf, guard, streamLength, generation, pubOffset, pubLength, pubFinal>>
  BY <1>b, <1>c, ReadsKept
<1>e. PICK x \in Byte : /\ got' = Append(got, x) /\ Len(got) + 1 <= streamLength
                        /\ guard => x = buf[Len(got)]
  BY <1>a, ByteRead
<1>f. Len(got') = Len(got) + 1 /\ Len(got) \in Nat
      /\ \A i \in 1..Len(got') : got'[i] = IF i <= Len(got) THEN got[i] ELSE x
  BY <1>a, <1>e, SMTT(30) DEF HostOK
<1>g. InStream'
  <2> SUFFICES ASSUME guard, NEW i \in 1..Len(got') PROVE got'[i] = buf[i - 1]
    BY <1>d DEF InStream
  <2>1. CASE i <= Len(got)
    BY <1>c, <1>f, <2>1 DEF InStream
  <2>2. CASE i > Len(got)
    <3>1. i = Len(got) + 1 /\ ~(i <= Len(got)) /\ i - 1 = Len(got)
      BY <1>f, <2>2
    <3> QED BY <1>e, <1>f, <3>1
  <2> QED BY <1>f, <2>1, <2>2
<1>h. Len(got') <= streamLength'
  BY <1>d, <1>e, <1>f
<1>i. Paid'
  <2>1. Allowance <= Allowance'
    BY <1>a, <1>b, AllowanceSame DEF linkVars
  <2> QED BY <1>a, <1>b, <1>c, <2>1, PaidSame
<1>j. pubOffset' + pos' = Len(got') /\ pos' + left' = pubLength'
  <2>1. pubOffset \in Nat /\ pos \in Nat /\ left \in Nat
    BY <1>a DEF TypeOK, HostOK
  <2> QED BY <1>b, <1>c, <1>d, <1>f, <2>1
<1>k. Plays'
  BY <1>b, <1>c, <1>d, <1>j DEF Plays
<1> QED BY <1>b, <1>d, <1>g, <1>h, <1>i, <1>k DEF Reads

\* ... and window by window, until its end or a fault.
LEMMA ReadsWindow ==
  ASSUME SessionInv, TypeOK', HostOK', LinkOK', AskRefill \/ RefillDone \/ EndOfTape \/ ReadFailed
  PROVE  Reads'
<1> USE DEF Reading
<1>a. TypeOK /\ InStepInv /\ HostOK /\ LinkOK /\ Reads
  BY DEF SessionInv
<1>b. UNCHANGED <<vars, file, got, rewinds, losses>>
  BY DEF AskRefill, RefillDone, EndOfTape, ReadFailed, linkVars, Ask, Hangup
<1>c. /\ hpc \in {"play", "eof", "refill", "rewind"} /\ hpc' \in {"play", "eof", "refill"}
      /\ hpc = "rewind" => ReadFailed
  BY DEF AskRefill, RefillDone, EndOfTape, ReadFailed
<1>d. Held /\ Len(got) <= streamLength /\ InStream /\ Paid /\ Plays
  BY <1>a, <1>c DEF Reads
<1>e. /\ Held' /\ (Shown => Shown')
      /\ UNCHANGED <<buf, guard, streamLength, cursor, generation, pubOffset, pubLength, pubFinal, result>>
  BY <1>b, <1>d, ReadsKept
<1>f. ReadFailed => link = "lost" /\ tries = MaxTries /\ losses > MaxTries
  <2> SUFFICES ASSUME ReadFailed PROVE link = "lost" /\ tries = MaxTries /\ losses > MaxTries
    OBVIOUS
  <2>1. hpc \in {"refill", "rewind"} /\ Failed
    BY DEF ReadFailed
  <2>2. link = "reply" => result = Ok
    BY <1>a, <2>1 DEF Reads, Plays
  <2>3. link = "lost" /\ tries = MaxTries
    BY <1>a, <2>1, <2>2 DEF Failed, Answered, Retries, LinkOK
  <2>4. tries < losses /\ tries \in Nat /\ losses \in Nat
    BY <1>a, <2>3, SessionAssumption DEF LinkOK
  <2> QED BY <2>3, <2>4
<1>g. Paid'
  <2>1. Allowance <= Allowance'
    BY <1>a, <1>b, <1>c, <1>f, AllowanceSame
  <2> QED BY <1>a, <1>b, <1>d, <2>1, PaidSame
<1>h. InStep /\ ready
  BY <1>a, <1>d DEF InStepInv, Held
<1>i. /\ cursor \in Nat /\ streamLength \in Nat /\ pubOffset \in Nat /\ pubLength \in Nat
      /\ pos \in Nat /\ left \in Nat /\ Len(got) \in Nat /\ generation \in Nat /\ generation > 0
  BY <1>a, <1>d DEF TypeOK, HostOK, Held
<1>j. /\ cursor = pubOffset + pubLength /\ cursor <= streamLength
      /\ pubFinal <=> cursor = streamLength
  BY <1>h DEF InStep
<1>k. hpc = "play" /\ left = 0 => Len(got) = cursor
  BY <1>d, <1>i, <1>j DEF Plays
<1>l. SUFFICES Plays'
  <2>1. InStream'
    BY <1>b, <1>d, <1>e DEF InStream
  <2> QED BY <1>b, <1>c, <1>d, <1>e, <1>g, <2>1 DEF Reads
<1>1. CASE AskRefill
  <2>1. /\ hpc' = "refill" /\ left = 0 /\ ~final /\ link' = "request" /\ request'.value = hgen
        /\ UNCHANGED <<left, final, hgen>> /\ hpc \in {"play", "eof"}
    BY <1>1 DEF AskRefill, Ask
  <2>2. Due(hgen, Len(got))
    <3>1. CASE hpc = "play"
      <4>1. hgen = generation /\ ~pubFinal
        BY <1>d, <2>1, <3>1 DEF Plays
      <4>2. Len(got) = cursor /\ cursor < streamLength
        BY <1>i, <1>j, <1>k, <2>1, <3>1, <4>1
      <4> QED BY <1>i, <4>1, <4>2 DEF Due
    <3>2. CASE hpc = "eof"
      BY <1>d, <2>1, <3>2 DEF Plays
    <3> QED BY <2>1, <3>1, <3>2
  <2>3. Due(hgen, Len(got))'
    BY <1>b, <1>e, <2>1, <2>2 DEF Due
  <2> QED BY <2>1, <2>3 DEF Plays
<1>2. CASE RefillDone
  <2>1. /\ hpc = "refill" /\ hpc' = (IF pubLength = 0 THEN "eof" ELSE "play") /\ link = "reply"
        /\ left' = pubLength /\ pos' = 0 /\ final' = pubFinal /\ hgen' = generation
    BY <1>2 DEF RefillDone, Succeeded, Answered, TakeWindow
  <2>2. Due(hgen, Len(got)) /\ hgen # generation /\ Shown
    BY <1>d, <2>1 DEF Plays
  <2>3. Len(got) = pubOffset /\ pubLength > 0
    BY <2>2 DEF Due
  <2>4. hpc' = "play"
    BY <1>i, <2>1, <2>3
  <2>5. pubOffset' + pos' = Len(got') /\ pos' + left' = pubLength'
    BY <1>b, <1>e, <1>i, <2>1, <2>3
  <2> QED BY <1>e, <2>1, <2>2, <2>4, <2>5 DEF Plays
<1>3. CASE EndOfTape
  <2>1. hpc = "play" /\ left = 0 /\ final /\ hpc' = "eof" /\ UNCHANGED <<left, final, hgen>>
    BY <1>3 DEF EndOfTape
  <2>2. Len(got) = streamLength
    BY <1>d, <1>j, <1>k, <2>1 DEF Plays
  <2> QED BY <1>b, <1>e, <2>1, <2>2 DEF Plays
<1>4. CASE ReadFailed
  <2>1. /\ hpc' = "eof" /\ left' = 0 /\ final' = (final \/ hpc = "rewind")
        /\ hpc \in {"refill", "rewind"} /\ hgen' = hgen
    BY <1>4 DEF ReadFailed
  <2>2. losses' > MaxTries
    BY <1>b, <1>4, <1>f
  <2>3. ~final' => Due(hgen, Len(got))
    BY <1>d, <2>1 DEF Plays
  <2>4. Due(hgen, Len(got)) => Due(hgen, Len(got))'
    BY <1>b, <1>e, <2>1 DEF Due
  <2> QED BY <2>1, <2>2, <2>3, <2>4 DEF Plays
<1> QED BY <1>1, <1>2, <1>3, <1>4

\* The Pi serves the reader: the tape stays, a window costs its generation.
LEMMA ReadsServed ==
  ASSUME Unwrapped, SessionInv, TypeOK', HostOK', LinkOK', PiServes
  PROVE  Reads'
<1> USE DEF Reading
<1>a. TypeOK /\ InStepInv /\ HostOK /\ LinkOK /\ Reads
  BY DEF SessionInv
<1>b. /\ link = "request" /\ link' = "reply" /\ hpc \in Waits
      /\ UNCHANGED <<hostVars, request, tries, losses>>
      /\ hpc = "guard" => GuardImage(TRUE)
      /\ hpc = "rewind" => Rewind(0)
      /\ hpc = "refill" => Refill(0, request.value)
  BY <1>a, ServesPlace
<1>c. UNCHANGED <<hpc, file, got, hgen, left, final, rewinds, request, losses>>
  BY <1>b DEF hostVars
<1>e. generation \in Nat /\ streamLength \in Nat /\ cursor \in Nat /\ streamLength <= Capacity
  BY <1>a DEF TypeOK
<1>0. SUFFICES ASSUME hpc \in {"guard", "rewind", "refill"} PROVE Reads'
  BY <1>b, <1>c DEF Waits, Reads
<1>f. Held /\ Len(got) <= streamLength /\ InStream
  BY <1>a, <1>0 DEF Reads
<1>1. CASE hpc = "guard"
  <2>1. UNCHANGED streamVars /\ generation' = generation
    BY <1>b, <1>1 DEF GuardImage
  <2>2. Held'
    BY <1>f, <2>1 DEF Held, streamVars
  <2>3. streamLength' = streamLength
    BY <2>1 DEF streamVars
  <2>4. got = <<>> /\ generation <= Capacity + 1
    BY <1>a, <1>1 DEF Reads
  <2>5. Plays'
    BY <1>c, <1>1 DEF Plays
  <2>6. InStream'
    BY <1>c, <2>4 DEF InStream
  <2> QED BY <1>c, <1>f, <1>1, <2>1, <2>2, <2>3, <2>4, <2>5, <2>6 DEF Reads
<1>2. CASE hpc = "rewind"
  <2>1. Paid /\ got = <<>>
    BY <1>a, <1>2 DEF Reads
  <2>2. generation < GenMod - 1
    BY <1>a, <1>f, <2>1, PaidBound
  <2>3. /\ result' = Ok /\ pubOffset' = 0 /\ Shown' /\ generation' = generation + 1
        /\ streamLength' = streamLength /\ cursor' \in Nat
    BY <1>a, <1>b, <1>f, <1>2, <2>2, RewindServed
  <2>4. Held'
    <3>1. UNCHANGED streamVars
      BY <1>b, <1>f, <1>2 DEF Rewind, NotReady, Held
    <3>2. ready' = ready /\ buf' = buf /\ generation' > 0
      BY <1>e, <2>3, <3>1 DEF streamVars
    <3> QED BY <1>f, <2>3, <3>2 DEF Held
  <2>5. Allowance' = Allowance + 1 /\ Allowance \in Nat
    <3>1. Spare = 1 /\ Spare' = 0
      BY <1>b, <1>c, <1>2 DEF Spare
    <3>2. rewinds \in Nat /\ losses \in Nat
      BY <1>a, SessionAssumption DEF HostOK, LinkOK
    <3>3. Allowance = (2 + rewinds + losses) - 1 /\ Allowance' = (2 + rewinds + losses) - 0
      BY <1>c, <3>1 DEF Allowance
    <3> QED BY <3>2, <3>3
  <2>6. Paid'
    <3> DEFINE n == Allowance
    <3>1. n \in Nat
      BY <2>5
    <3>2. Budget(n) \in Nat /\ Budget(n + 1) = Budget(n) + Capacity + 1
      <4> HIDE DEF n
      <4> QED BY <3>1, BudgetStep
    <3>3. generation + (streamLength - cursor) <= Budget(n)
      BY <2>1 DEF Paid
    <3>4. cursor <= streamLength
      BY <1>a, <1>f DEF InStepInv, InStep, Held
    <3>5. (generation + 1) + (streamLength - cursor') <= Budget(n) + Capacity + 1
      <4> HIDE DEF n
      <4> QED BY <1>e, <2>3, <3>2, <3>3, <3>4
    <3>6. Budget(Allowance)' = Budget(n + 1)
      BY <2>5 DEF Budget
    <3> QED BY <2>3, <3>2, <3>5, <3>6 DEF Paid
  <2>7. Plays'
    BY <1>c, <1>2 DEF Plays
  <2>8. InStream'
    BY <1>c, <2>1 DEF InStream
  <2> QED BY <1>c, <1>f, <1>2, <2>1, <2>3, <2>4, <2>6, <2>7, <2>8 DEF Reads
<1>3. CASE hpc = "refill"
  <2>1. /\ Paid /\ left = 0 /\ ~final /\ request.value = hgen /\ Due(hgen, Len(got))
    BY <1>a, <1>3 DEF Reads, Plays
  <2>2. generation < GenMod - 1
    BY <1>a, <1>f, <2>1, PaidBound
  <2>3. hgen \in 0..(GenMod - 1) /\ Len(got) \in Nat /\ Refill(0, hgen)
    BY <1>a, <1>b, <1>3, <2>1 DEF HostOK
  <2> DEFINE g == hgen
             n == Len(got)
  <2>4. /\ result' = Ok /\ Shown' /\ g # generation' /\ generation' \in Nat
        /\ generation' + (streamLength' - cursor') <= generation + (streamLength - cursor)
        /\ streamLength' = streamLength
    BY <1>a, <1>f, <2>1, <2>2, <2>3, RefillServed
  <2>5. Held'
    BY <1>a, <1>f, <2>1, <2>2, <2>3, RefillServed
  <2>6. InStream'
    <3>1. UNCHANGED <<streamVars, guard>>
      BY <2>3 DEF Refill, Refuse
    <3> QED BY <1>c, <1>f, <3>1 DEF InStream, streamVars
  <2>7. Due(hgen, Len(got))'
    <3>1. ASSUME NEW a \in 0..(GenMod - 1), NEW b \in Nat, Due(a, b), Refill(0, a)
          PROVE  Due(a, b)'
      BY <1>a, <1>f, <2>2, <3>1, RefillServed
    <3>2. \A a \in 0..(GenMod - 1), b \in Nat : Due(a, b) /\ Refill(0, a) => Due(a, b)'
      BY <3>1
    <3>3. hgen' = hgen /\ Len(got') = Len(got)
      BY <1>c
    <3> QED BY <2>1, <2>3, <3>2, <3>3 DEF Due
  <2>8. Paid'
    <3>1. Allowance <= Allowance'
      BY <1>a, <1>c, <1>3, AllowanceSame
    <3> QED BY <1>a, <2>1, <2>4, <3>1, PaidKept
  <2>9. Plays'
    BY <1>c, <1>3, <2>1, <2>4, <2>7 DEF Plays
  <2> QED BY <1>c, <1>f, <1>3, <2>4, <2>5, <2>6, <2>8, <2>9 DEF Reads
<1> QED BY <1>0, <1>1, <1>2, <1>3

\* The mailbox loses and the driver asks again: a rewind to be repeated was paid for.
LEMMA ReadsMailbox ==
  ASSUME SessionInv, TypeOK', HostOK', LinkOK', Lose \/ Retry
  PROVE  Reads'
<1> USE DEF Reading
<1>a. TypeOK /\ HostOK /\ LinkOK /\ Reads
  BY DEF SessionInv
<1>b. /\ UNCHANGED <<vars, hostVars, request>> /\ link' \in {"lost", "request"}
      /\ (losses' = losses /\ link = "lost") \/ losses' = losses + 1
  BY DEF Lose, Retry
<1>c. UNCHANGED <<hpc, file, got, hgen, left, pos, final, rewinds, request>>
  BY <1>b DEF hostVars
<1>d. /\ Held => Held'
      /\ (Shown => Shown')
      /\ UNCHANGED <<buf, guard, streamLength, cursor, generation, pubOffset, pubLength, pubFinal>>
  BY <1>b, <1>c, ReadsKept
<1>e. Allowance <= Allowance'
  <2>1. Spare \in {0, 1} /\ Spare' \in {0, 1} /\ (link = "lost" => Spare' = Spare)
    BY <1>b, <1>c DEF Spare
  <2>2. rewinds \in Nat /\ losses \in Nat
    BY <1>a, SessionAssumption DEF HostOK, LinkOK
  <2>3. Allowance = (2 + rewinds + losses) - Spare /\ Allowance' = (2 + rewinds + losses') - Spare'
    BY <1>c DEF Allowance
  <2> QED BY <1>b, <2>1, <2>2, <2>3
<1>f. Paid => Paid'
  BY <1>a, <1>b, <1>c, <1>e, PaidSame
<1>g. Due(hgen, Len(got)) => Due(hgen, Len(got))'
  BY <1>c, <1>d DEF Due
<1>h. losses > MaxTries => losses' > MaxTries
  BY <1>a, <1>b, SessionAssumption DEF LinkOK
<1>i. Plays => Plays'
  BY <1>b, <1>c, <1>d, <1>g, <1>h DEF Plays
<1>j. InStream => InStream'
  BY <1>c, <1>d DEF InStream
<1> QED BY <1>a, <1>b, <1>c, <1>d, <1>f, <1>i, <1>j DEF Reads

\* What was accepted stays what it was while it is read.
LEMMA LoadsKept ==
  ASSUME Unwrapped, SessionInv, SessionNext
  PROVE  Loads'
<1>a. TypeOK /\ InStepInv /\ HostOK /\ LinkOK /\ Uploads /\ Reads /\ Loads
  BY DEF SessionInv
<1>b. losses \in Nat
  BY <1>a, SessionAssumption DEF LinkOK
<1>0. ASSUME Exact, UNCHANGED <<file, Stream>>, losses' = losses \/ losses' = losses + 1
      PROVE  Loads'
  BY <1>b, <1>0 DEF Loads, Exact, Tape, Unpacked, RefusedLate
<1>1. CASE \/ \E f \in Files : UefLoad(f)
           \/ ProbeDone \/ BeginDone \/ ReadWindow \/ ReadError \/ Escape \/ AppendDone
           \/ EndOfFile \/ UploadFailed \/ BeginFailed \/ Closed
  <2>1. hpc' \notin Reading
    BY <1>1 DEF UefLoad, ProbeDone, BeginDone, ReadWindow, ReadError, Escape, AppendDone,
       EndOfFile, UploadFailed, BeginFailed, Closed, Reading
  <2> QED BY <2>1 DEF Loads
<1>2. CASE FinalizeDone
  <2>1. hpc = "finalize" /\ Taken /\ UNCHANGED <<vars, file, losses>>
    BY <1>2 DEF FinalizeDone, Succeeded, Answered, Taken, Hangup
  <2>2. Exact
    BY <1>a, <2>1 DEF Uploads, Finalizes
  <2> QED BY <1>0, <2>1, <2>2, ReadsKept
<1>3. CASE \/ PublishGuard \/ CfsInit \/ RewindDone \/ GetByte \/ AskRefill
           \/ RefillDone \/ EndOfTape \/ ReadFailed
  <2>1. hpc \in Reading /\ UNCHANGED <<vars, file, losses>>
    BY <1>3 DEF PublishGuard, CfsInit, RewindDone, GetByte, AskRefill, RefillDone, EndOfTape,
       ReadFailed, Reading, Ask, Follow, Hangup, linkVars
  <2> QED BY <1>a, <1>0, <2>1, ReadsKept DEF Loads
<1>4. CASE Lose \/ Retry
  <2>1. UNCHANGED <<vars, hpc, file>> /\ (losses' = losses \/ losses' = losses + 1)
    BY <1>4 DEF Lose, Retry, hostVars
  <2>2. CASE hpc \in Reading
    BY <1>a, <1>0, <2>1, <2>2, ReadsKept DEF Loads
  <2>3. CASE hpc \notin Reading
    BY <2>1, <2>3 DEF Loads
  <2> QED BY <2>2, <2>3
<1>5. CASE PiServes
  <2>1. /\ UNCHANGED <<hpc, file, losses>>
        /\ hpc = "guard" => GuardImage(TRUE)
        /\ hpc = "rewind" => Rewind(0)
        /\ hpc = "refill" => Refill(0, request.value)
        /\ hpc \in Waits
    BY <1>a, <1>5, ServesPlace DEF hostVars
  <2>2. CASE hpc \in Reading
    <3>1. hpc \in {"guard", "rewind", "refill"}
      BY <2>1, <2>2 DEF Reading, Waits
    <3>2. UNCHANGED streamVars
      BY <2>1, <3>1 DEF GuardImage, Rewind, Refill, Refuse
    <3>3. Stream' = Stream
      BY <3>2 DEF Stream, Content, streamVars
    <3> QED BY <1>a, <1>0, <2>1, <2>2, <3>3 DEF Loads
  <2>3. CASE hpc \notin Reading
    BY <2>1, <2>3 DEF Loads
  <2> QED BY <2>2, <2>3
<1> QED BY <1>1, <1>2, <1>3, <1>4, <1>5 DEF SessionNext

\* A session starts with nothing asked and nothing loaded.
LEMMA SessionStart == SessionInit => SessionInv /\ UefTapeSpec!Init
<1> SUFFICES ASSUME SessionInit PROVE SessionInv /\ UefTapeSpec!Init
  OBVIOUS
<1>1. /\ Init /\ hpc = "idle" /\ file = <<>> /\ sent = 0 /\ request.value = 0 /\ link = "idle"
      /\ tries = 0 /\ losses = 0 /\ rewinds = 0
      /\ hgen = 0 /\ left = 0 /\ pos = 0 /\ final = FALSE /\ got = <<>>
  BY DEF SessionInit
<1>2. TypeOK /\ InStepInv
  BY <1>1, InitType, InitInStep
<1>3. HostOK
  <2>1. /\ <<>> \in Seq(Byte) /\ 0 \in 0..Len(<<>>) /\ 0 \in 0..(GenMod - 1)
        /\ 0 \in 0..MaxRewinds /\ 0 \in Nat
    BY SessionAssumption
  <2>2. /\ file \in Seq(Byte) /\ sent \in 0..Len(file) /\ got \in Seq(Byte)
        /\ hgen \in 0..(GenMod - 1) /\ rewinds \in 0..MaxRewinds
        /\ left \in Nat /\ pos \in Nat
    BY <1>1, <2>1
  <2>3. final \in BOOLEAN /\ hpc = "idle" /\ hpc \in Over
    BY <1>1 DEF Over
  <2> QED BY <2>2, <2>3 DEF HostOK
<1>4. LinkOK
  <2>1. 0 \in 0..(GenMod - 1) /\ 0 \in 0..MaxTries /\ 0 \in 0..MaxLosses
    BY SessionAssumption
  <2> QED BY <1>1, <2>1 DEF LinkOK, Waits
<1>5. Uploads /\ Reads /\ Loads
  BY <1>1 DEF Uploads, Reads, Loads, Uploading, Reading
<1>6. UefTapeSpec!Init
  <2>1. Stream = <<>> /\ guard = FALSE
    BY <1>1 DEF Init, Stream
  <2> QED BY <1>1, <2>1 DEF UefTapeSpec!Init
<1> QED BY <1>2, <1>3, <1>4, <1>5, <1>6 DEF SessionInv

\* Every step of the host, the mailbox and the Pi keeps the session's invariant.
LEMMA SessionStep ==
  ASSUME Unwrapped, SessionInv, [SessionNext]_sessionVars
  PROVE  SessionInv'
<1>1. TypeOK' /\ InStepInv'
  BY SessionStream DEF SessionInv
<1>2. CASE \/ \E f \in Files : UefLoad(f)
           \/ ProbeDone \/ BeginDone \/ ReadWindow \/ ReadError \/ Escape \/ AppendDone
           \/ EndOfFile \/ FinalizeDone \/ UploadFailed \/ BeginFailed \/ Closed
  <2>1. HostOK' /\ LinkOK'
    BY <1>2, UploadLink
  <2>2. Uploads' /\ Reads'
    BY <1>2, UploadHost, ReadsUpload
  <2>3. Loads'
    BY <1>2, LoadsKept DEF SessionNext
  <2> QED BY <1>1, <2>1, <2>2, <2>3 DEF SessionInv
<1>3. CASE \/ PublishGuard \/ CfsInit \/ RewindDone \/ GetByte \/ AskRefill
           \/ RefillDone \/ EndOfTape \/ ReadFailed \/ PiServes \/ Lose \/ Retry
  <2>1. HostOK' /\ LinkOK'
    BY <1>3, ReadLink
  <2>2. Uploads'
    BY <1>3, UploadOther
  <2>3. Reads'
    BY <1>1, <1>3, <2>1, ReadsRewind, ReadsByte, ReadsWindow, ReadsServed, ReadsMailbox
  <2>4. Loads'
    BY <1>3, LoadsKept DEF SessionNext
  <2> QED BY <1>1, <2>1, <2>2, <2>3, <2>4 DEF SessionInv
<1>4. CASE UNCHANGED sessionVars
  <2>0. HostOK /\ LinkOK /\ Uploads /\ Reads /\ Loads
    BY DEF SessionInv
  <2>1. UNCHANGED <<vars, hostVars, linkVars>>
    BY <1>4 DEF sessionVars
  <2>2. /\ UNCHANGED <<hpc, file, sent, hgen, left, pos, final, got, rewinds>>
        /\ UNCHANGED <<request, link, tries, losses>>
    BY <2>1 DEF hostVars, linkVars
  <2>3. /\ UNCHANGED <<buf, streamLength, format, ready, uploadActive, lastAppend>>
        /\ UNCHANGED <<cursor, pubOffset, pubLength, pubFinal, generation, guard, jim, result>>
    BY <2>1 DEF vars, streamVars, windowVars
  <2>4. HostOK'
    BY <2>0, <2>2 DEF HostOK
  <2>5. LinkOK'
    BY <2>0, <2>2 DEF LinkOK
  <2>6. (Held => Held') /\ (Shown => Shown') /\ Stream' = Stream
    BY <2>1, ReadsKept
  <2>a. Exact => Exact'
    BY <2>2, <2>6 DEF Exact, Tape, Unpacked, RefusedLate
  <2>b. InStream => InStream'
    BY <2>2, <2>3 DEF InStream
  <2>7. Uploads'
    <3>1. (ChunkOf(file, sent))' = ChunkOf(file, sent)
      BY <2>2 DEF ChunkOf
    <3>2. Uploaded(file, 0) => Uploaded(file, 0)'
      BY <2>2, <2>3 DEF Uploaded
    <3>3. Uploaded(file, sent) => Uploaded(file, sent)'
      BY <2>2, <2>3 DEF Uploaded
    <3>4. Uploaded(file, sent + Len(ChunkOf(file, sent)))
            => Uploaded(file, sent + Len(ChunkOf(file, sent)))'
      BY <2>2, <2>3, <3>1 DEF Uploaded
    <3>5. Taken' <=> Taken
      BY <2>2, <2>3 DEF Taken
    <3>6. Appends => Appends'
      BY <2>2, <2>3, <3>1, <3>3, <3>4, <3>5 DEF Appends
    <3>7. Finalizes => Finalizes'
      <4>1. Spoilt => Spoilt'
        BY <2>2, <2>3 DEF Spoilt, RefusedLate
      <4> QED BY <2>2, <2>3, <2>6, <2>a, <3>3, <3>5, <4>1 DEF Finalizes
    <3> QED BY <2>0, <2>2, <2>3, <3>2, <3>3, <3>6, <3>7 DEF Uploads
  <2>8. Reads'
    <3>1. Paid => Paid'
      BY <2>2, <2>3 DEF Paid, Allowance, Spare, Budget
    <3>2. Due(hgen, Len(got)) => Due(hgen, Len(got))'
      BY <2>2, <2>3 DEF Due
    <3>3. Plays => Plays'
      BY <2>2, <2>3, <2>6, <3>2 DEF Plays
    <3> QED BY <2>0, <2>2, <2>3, <2>6, <2>b, <3>1, <3>3 DEF Reads
  <2>9. Loads'
    BY <2>0, <2>2, <2>a DEF Loads
  <2> QED BY <1>1, <2>4, <2>5, <2>7, <2>8, <2>9 DEF SessionInv
<1> QED BY <1>2, <1>3, <1>4 DEF SessionNext

\* An upload the Pi accepted is the file's own tape, whatever the mailbox lost and
\* the driver repeated: an APPEND sent again is not applied again.  Excepted is what
\* UploadExact excepts: a container refused after inflating, whose refusal was lost.
THEOREM UploadIsExact ==
  ASSUME Unwrapped
  PROVE  SessionSpec => []UploadExact
<1>1. SessionInv => UploadExact
  BY DEF SessionInv, Reads, Reading, Held, Loads, Exact, UploadExact
<1>2. SessionInit => SessionInv
  BY SessionStart
<1>3. SessionInv /\ [SessionNext]_sessionVars => SessionInv'
  BY SessionStep
<1> QED BY <1>1, <1>2, <1>3, PTL DEF SessionSpec

\* With the guard, as many bytes as the stream has are the stream.
LEMMA AllRead ==
  ASSUME SessionInv, hpc \in Reading, guard, Len(got) = streamLength
  PROVE  got = Stream
<1>1. TypeOK /\ HostOK /\ ready /\ InStream
  BY DEF SessionInv, Reads, Held
<1>2. /\ Stream \in Seq(Byte) /\ Len(Stream) = Len(got) /\ got \in Seq(Byte)
      /\ \A i \in 1..Len(got) : got[i] = Stream[i]
  BY <1>1, StreamFacts DEF HostOK, InStream
<1> QED BY <1>2, SeqEqual

\* wicfs.asm reports the end of the tape with bytes not asked for only when one
\* request was lost with all its repetitions; with the guard what it was given then is
\* the tape in the Pi.
THEOREM EofIsTheEnd ==
  ASSUME Unwrapped
  PROVE  SessionSpec => []EofUnlessLost
<1>1. SessionInv => EofUnlessLost
  <2> SUFFICES ASSUME SessionInv, hpc = "eof", losses <= MaxTries
               PROVE  Len(got) = streamLength /\ (guard => got = Stream)
    BY DEF EofUnlessLost
  <2>1. Len(got) # streamLength => losses > MaxTries
    BY DEF SessionInv, Reads, Reading, Plays
  <2>2. losses \in Nat /\ MaxTries \in Nat
    BY SessionAssumption DEF SessionInv, LinkOK
  <2>3. Len(got) = streamLength
    BY <2>1, <2>2
  <2> QED BY <2>3, AllRead DEF Reading
<1>2. SessionInit => SessionInv
  BY SessionStart
<1>3. SessionInv /\ [SessionNext]_sessionVars => SessionInv'
  BY SessionStep
<1> QED BY <1>1, <1>2, <1>3, PTL DEF SessionSpec

-----------------------------------------------------------------------------
(* A cassette.                                                              *)

\* A refill that is due has bytes of the tape to bring.
LEMMA DueShort ==
  ASSUME SessionInv, Held, Due(hgen, Len(got))
  PROVE  got # Stream
<1>1. TypeOK /\ InStep /\ HostOK /\ ready
  BY DEF SessionInv, InStepInv, Held
<1>2. /\ cursor = pubOffset + pubLength /\ cursor <= streamLength
      /\ cursor \in Nat /\ pubOffset \in Nat /\ pubLength \in Nat /\ streamLength \in Nat
  BY <1>1 DEF InStep, TypeOK
<1>3. Len(got) < streamLength
  BY <1>2 DEF Due
<1>4. Len(Stream) = streamLength
  BY <1>1, StreamFacts
<1> QED BY <1>2, <1>3, <1>4

\* Where the last window ends, all of the tape has been read.
LEMMA LastWindowWhole ==
  ASSUME SessionInv, EndOfTape, guard
  PROVE  got = Stream
<1>1. TypeOK /\ InStepInv /\ HostOK /\ Reads /\ hpc = "play" /\ left = 0 /\ final
  BY DEF SessionInv, EndOfTape
<1>2. Held /\ final = pubFinal /\ pubOffset + pos = Len(got) /\ pos + left = pubLength
  BY <1>1 DEF Reads, Plays, Reading
<1>3. cursor = pubOffset + pubLength /\ cursor = streamLength
  BY <1>1, <1>2 DEF InStepInv, InStep, Held
<1>4. pos \in Nat /\ pubOffset \in Nat /\ pubLength \in Nat
  BY <1>1 DEF TypeOK, HostOK
<1>5. Len(got) = streamLength
  BY <1>1, <1>2, <1>3, <1>4
<1> QED BY <1>1, <1>5, AllRead DEF Reading

\* Every step of the session is one of a cassette, or none.
LEMMA CassetteStep ==
  ASSUME SessionInv, SessionInv', [SessionNext]_sessionVars
  PROVE  [UefTapeSpec!Next]_(UefTapeSpec!tapeVars)
<1>a. TypeOK /\ InStepInv /\ HostOK /\ LinkOK /\ Reads /\ Uploads
  BY DEF SessionInv
<1>b. UNCHANGED vars => Stream' = Stream /\ guard' = guard
  BY ReadsKept
<1>c. TypeOK' /\ Uploads' /\ Reads'
  BY DEF SessionInv
<1>d. Stream' \in Seq(Byte)
  <2>1. buf' \in [0..Capacity - 1 -> Byte] /\ streamLength' \in 0..Capacity
    BY <1>c DEF TypeOK
  <2>2. Content(buf', streamLength') \in Seq(Byte) /\ <<>> \in Seq(Byte)
    BY <2>1, ContentType
  <2>3. Stream' = IF ready' THEN Content(buf', streamLength') ELSE <<>>
    BY DEF Stream, Content
  <2> QED BY <2>2, <2>3
<1>1. CASE \E f \in Files : UefLoad(f)
  <2>1. got' = <<>> /\ hpc' = "probe" /\ UNCHANGED vars
    BY <1>1 DEF UefLoad
  <2>2. UefTapeSpec!Rewind
    BY <1>b, <2>1 DEF UefTapeSpec!Rewind
  <2> QED BY <2>2 DEF UefTapeSpec!Next
<1>2. CASE \/ ProbeDone \/ BeginDone \/ ReadError \/ Escape \/ AppendDone
           \/ FinalizeDone \/ UploadFailed \/ BeginFailed \/ Closed \/ PublishGuard
           \/ Lose \/ Retry \/ UNCHANGED sessionVars
  <2>1. /\ UNCHANGED <<vars, got>>
        /\ \/ hpc' = hpc
           \/ hpc \notin {"play", "refill", "eof"} /\ hpc' \notin {"play", "refill", "eof"}
    BY <1>2 DEF ProbeDone, BeginDone, ReadError, Escape, AppendDone, FinalizeDone, UploadFailed,
       BeginFailed, Closed, PublishGuard, Lose, Retry, sessionVars, hostVars
  <2> QED BY <1>b, <2>1 DEF UefTapeSpec!tapeVars
<1>3. CASE ReadWindow \/ EndOfFile
  <2>1. /\ hpc = "read" /\ hpc' \in {"append", "finalize"} /\ UNCHANGED <<got, streamVars>>
    BY <1>3 DEF ReadWindow, EndOfFile, HostWrites, ForeignUse
  <2>2. got = <<>>
    BY <1>a, <2>1 DEF Uploads, Uploading
  <2>3. Stream' = Stream
    BY <2>1 DEF Stream, Content, streamVars
  <2> QED BY <2>1, <2>2, <2>3 DEF UefTapeSpec!tapeVars
<1>4. CASE CfsInit
  <2>1. hpc' = "rewind" /\ got' = <<>> /\ UNCHANGED vars
    BY <1>4 DEF CfsInit
  <2>2. UefTapeSpec!Rewind
    BY <1>b, <2>1 DEF UefTapeSpec!Rewind
  <2> QED BY <2>2 DEF UefTapeSpec!Next
<1>5. CASE /\ ~guard
           /\ RewindDone \/ GetByte \/ AskRefill \/ RefillDone \/ EndOfTape \/ ReadFailed
  <2>1. UNCHANGED vars
    BY <1>5 DEF RewindDone, GetByte, AskRefill, RefillDone, EndOfTape, ReadFailed
  <2> QED BY <1>b, <1>5, <2>1 DEF UefTapeSpec!tapeVars
<1>6. CASE guard /\ RewindDone
  <2>1. hpc = "rewind" /\ hpc' = "play" /\ UNCHANGED <<vars, got>>
    BY <1>6 DEF RewindDone
  <2>2. got = <<>>
    BY <1>a, <2>1 DEF Reads, Reading
  <2>3. UefTapeSpec!Start
    BY <1>b, <1>6, <2>1, <2>2 DEF UefTapeSpec!Start
  <2> QED BY <2>3 DEF UefTapeSpec!Next
<1>7. CASE guard /\ GetByte
  <2>1. hpc = "play" /\ hpc' = "play" /\ UNCHANGED vars
    BY <1>7 DEF GetByte
  <2>2. ready
    BY <1>a, <2>1 DEF Reads, Reading, Held
  <2>3. PICK x \in Byte : /\ got' = Append(got, x) /\ Len(got) + 1 <= streamLength
                          /\ x = buf[Len(got)]
    BY <1>a, <1>7, ByteRead
  <2>4. Len(got) \in Nat /\ streamLength \in Nat
    BY <1>a DEF HostOK, TypeOK
  <2>5. Len(got) < Len(Stream) /\ Stream[Len(got) + 1] = x
    <3>1. Len(got) + 1 \in 1..streamLength /\ (Len(got) + 1) - 1 = Len(got)
      BY <2>3, <2>4
    <3>2. Len(Stream) = streamLength /\ Stream[Len(got) + 1] = buf[(Len(got) + 1) - 1]
      BY <1>a, <2>2, <3>1, StreamFacts
    <3> QED BY <2>3, <2>4, <3>1, <3>2
  <2>6. UefTapeSpec!Play
    BY <1>b, <1>7, <2>1, <2>3, <2>5 DEF UefTapeSpec!Play
  <2> QED BY <2>6 DEF UefTapeSpec!Next
<1>8. CASE guard /\ AskRefill
  <2>1. hpc \in {"play", "eof"} /\ hpc' = "refill" /\ ~final /\ UNCHANGED <<vars, got>>
    BY <1>8 DEF AskRefill
  <2>2. CASE hpc = "play"
    BY <1>b, <2>1, <2>2 DEF UefTapeSpec!tapeVars
  <2>3. CASE hpc = "eof"
    <3>1. Held /\ Due(hgen, Len(got))
      BY <1>a, <2>1, <2>3 DEF Reads, Plays, Reading
    <3>2. got # Stream
      BY <3>1, DueShort
    <3>3. UefTapeSpec!Resume
      BY <1>b, <1>8, <2>1, <2>3, <3>2 DEF UefTapeSpec!Resume
    <3> QED BY <3>3 DEF UefTapeSpec!Next
  <2> QED BY <2>1, <2>2, <2>3
<1>9. CASE guard /\ RefillDone
  <2>1. /\ hpc = "refill" /\ hpc' = (IF pubLength = 0 THEN "eof" ELSE "play") /\ link = "reply"
        /\ UNCHANGED <<vars, got>>
    BY <1>9 DEF RefillDone, Succeeded, Answered
  <2>2. pubLength > 0
    BY <1>a, <2>1 DEF Reads, Plays, Reading, Shown
  <2>3. hpc' = "play"
    BY <2>1, <2>2
  <2> QED BY <1>b, <2>1, <2>3 DEF UefTapeSpec!tapeVars
<1>10. CASE guard /\ EndOfTape
  <2>1. hpc = "play" /\ hpc' = "eof" /\ UNCHANGED <<vars, got>>
    BY <1>10 DEF EndOfTape
  <2>2. got = Stream
    BY <1>10, LastWindowWhole
  <2>3. UefTapeSpec!End
    BY <1>b, <1>10, <2>1, <2>2 DEF UefTapeSpec!End
  <2> QED BY <2>3 DEF UefTapeSpec!Next
<1>11. CASE guard /\ ReadFailed
  <2>1. hpc \in {"refill", "rewind"} /\ hpc' = "eof" /\ UNCHANGED <<vars, got>>
    BY <1>11 DEF ReadFailed
  <2>2. got # Stream
    <3>1. Held
      BY <1>a, <2>1 DEF Reads, Reading
    <3>2. CASE hpc = "rewind"
      <4>1. got = <<>> /\ Len(Stream) = streamLength /\ streamLength > 0
        BY <1>a, <3>1, <3>2, StreamFacts DEF Reads, Reading, Held
      <4> QED BY <1>a, <4>1 DEF TypeOK
    <3>3. CASE hpc = "refill"
      <4>1. Due(hgen, Len(got))
        BY <1>a, <3>3 DEF Reads, Plays, Reading
      <4> QED BY <3>1, <4>1, DueShort
    <3> QED BY <2>1, <3>2, <3>3
  <2>3. UefTapeSpec!Fault
    BY <1>b, <1>11, <2>1, <2>2 DEF UefTapeSpec!Fault
  <2> QED BY <2>3 DEF UefTapeSpec!Next
<1>12. CASE PiServes
  <2>1. /\ UNCHANGED <<hpc, got>> /\ hpc \in Waits
        /\ hpc = "guard" => GuardImage(TRUE)
        /\ hpc = "rewind" => Rewind(0)
        /\ hpc = "refill" => Refill(0, request.value)
    BY <1>a, <1>12, ServesPlace DEF hostVars
  <2>2. CASE hpc = "refill"
    <3>1. UNCHANGED <<streamVars, guard>>
      BY <2>1, <2>2 DEF Refill, Refuse
    <3>2. Stream' = Stream
      BY <3>1 DEF Stream, Content, streamVars
    <3> QED BY <2>1, <2>2, <3>1, <3>2 DEF UefTapeSpec!tapeVars
  <2>3. CASE hpc # "refill"
    <3>1. got = <<>> /\ hpc \notin {"play", "refill", "eof"}
      BY <1>a, <2>1, <2>3 DEF Waits, Uploads, Uploading, Reads, Reading
    <3>2. UefTapeSpec!Insert
      BY <1>d, <2>1, <3>1 DEF UefTapeSpec!Insert
    <3> QED BY <3>2 DEF UefTapeSpec!Next
  <2> QED BY <2>2, <2>3
<1> QED BY <1>1, <1>2, <1>3, <1>4, <1>5, <1>6, <1>7, <1>8, <1>9, <1>10, <1>11, <1>12
   DEF SessionNext

\* Host, mailbox and Pi together are a cassette while the guard is published: whatever
\* is lost and repeated, the parser of wicfs.asm is handed the bytes of the tape in the
\* Pi in their order, from the start, up to its end or to a fault, after which it may
\* go on where it was: the pages uef_window_scatter fills are those getbyte walks.
THEOREM SessionIsATape ==
  ASSUME Unwrapped
  PROVE  SessionSpec => IsATape
<1>1. SessionInit => SessionInv /\ UefTapeSpec!Init
  BY SessionStart
<1>2. SessionInv /\ [SessionNext]_sessionVars => SessionInv'
  BY SessionStep
<1>3. SessionInv /\ SessionInv' /\ [SessionNext]_sessionVars
        => [UefTapeSpec!Next]_(UefTapeSpec!tapeVars)
  BY CassetteStep
<1> QED BY <1>1, <1>2, <1>3, PTL DEF SessionSpec, IsATape, UefTapeSpec!Spec
=============================================================================

------------------------------ MODULE FtpProofs ------------------------------
(***************************************************************************)
(* The FTP service, for every set of servers, every size of file, ring and  *)
(* request, and any number of requests: host, FIQ handler, poll, lwIP and   *)
(* server interleave freely.                                                *)
(*                                                                         *)
(* Basic and Owed are about the struct: what each slot, the ring and a      *)
(* clean control connection hold at each step of an operation.  Flow is     *)
(* about the request in the mailbox, HostHas about the bytes of a download. *)
(***************************************************************************)
EXTENDS FtpService, SequenceTheorems, FiniteSetTheorems, TLAPS

States == {"CLOSED", "DNS", "CONNECTING", "GREETING", "READY", "ERROR"}
Early == {"CLOSED", "DNS", "CONNECTING", "GREETING"}
Sends == {"SIMPLE_SEND", "EPSV_SEND", "PASV_SEND"}
Replied == {"SIMPLE_REPLY", "EPSV_REPLY", "PASV_REPLY"}
Opened == {"DATA_CONNECT", "TRANSFER_SEND", "TRANSFER_REPLY"}
Moving == {"READ", "WRITE", "WRITE_FINISH"}
Ops == {"NONE"} \cup Sends \cup Replied \cup Opened \cup Moving
Results == {"OK", "EOF", "PENDING", "PARAM", "CONNECT", "DNS", "TIMEOUT"}
Replies == [code : Nat, id : Nat]
Places == 0..(DataCapacity - 1)

Structs ==
  [state : States, operation : Ops, control : {None} \cup Controls,
   data : {None} \cup Connections, address : Params, dnsDone : BOOLEAN, dnsOk : BOOLEAN,
   dataConnected : BOOLEAN, dataEof : BOOLEAN, dataError : BOOLEAN,
   transfer : {"NONE", "READ", "WRITE", "LIST"}, verb : Verbs, host : Params,
   text : Seq(Replies), lastReply : Replies, ring : [Places -> Int], head : Places,
   tail : Places, count : 0..DataCapacity, live : Int]

-----------------------------------------------------------------------------
(* The struct.                                                              *)

\* Every pcb is in a slot.
Own(f) == f.live = (IF f.control = None THEN 0 ELSE 1) + (IF f.data = None THEN 0 ELSE 1)

\* What the ring holds, while it belongs to the data connection.
Holds(f) ==
  f.operation \in Opened \cup {"READ"} /\ f.data # None =>
    /\ f.count <= f.data.moved
    /\ f.head = (f.tail + f.count) % DataCapacity
    /\ \A i \in 1..f.count :
         f.ring[(f.tail + (i - 1)) % DataCapacity] = f.data.moved - f.count + i
    /\ f.operation \in Opened => f.count = f.data.moved

\* A session that is not ready has sent nothing; nor has one whose connection may
\* still come up, though the request that asked for it has failed.
Begins(f) ==
  /\ f.state \in Early =>
       /\ f.operation = "NONE" /\ f.data = None
       /\ f.state \in {"CLOSED", "DNS"} => f.control = None
       /\ f.control # None => f.control.issued = 0 /\ f.control.wire = <<>> /\ f.control.owes = 0
       /\ f.text # <<>> => f.state = "GREETING" /\ Len(f.text) = 1
  /\ f.control # None /\ ~f.control.connected =>
       /\ f.state \in {"CONNECTING", "ERROR"} /\ f.operation = "NONE" /\ f.data = None
       /\ f.control.issued = 0 /\ f.control.wire = <<>> /\ f.control.owes = 0
       /\ f.text = <<>>

Basic(f) == f \in Structs /\ Own(f) /\ Holds(f) /\ Begins(f)

\* What is outstanding on a control connection c that has text to be read.
Nothing(c, text) == text = <<>> /\ c.wire = <<>> /\ c.owes = 0
Asking(c, text) == text = <<>> /\ Len(c.wire) = 1 /\ c.wire[1].id = c.issued /\ c.owes = 0
Answered(c, text) ==
  /\ Len(text) = 1 /\ text[1].id = c.issued /\ text[1].code # 150
  /\ c.wire = <<>> /\ c.owes = 0
Accepted(c, text) ==
  /\ text # <<>> /\ text[1].id = c.issued /\ text[1].code = 150 /\ c.wire = <<>>
  /\ \/ Len(text) = 1 /\ c.owes = c.issued
     \/ Len(text) = 2 /\ text[2].id = c.issued /\ c.owes = 0
Ending(c, text) ==
  /\ c.wire = <<>>
  /\ \/ text = <<>> /\ c.owes = c.issued
     \/ Len(text) = 1 /\ text[1].id = c.issued /\ c.owes = 0

\* A clean connection owes what the operation waits for, and nothing else.
Clean(f) == f.control # None /\ f.control.clean
Owed(f) ==
  Clean(f) =>
    /\ f.state = "READY" =>
         CASE f.operation \in {"NONE"} \cup Sends -> Nothing(f.control, f.text) /\ f.data = None
           [] f.operation \in Replied -> /\ f.data = None
                                         /\ \/ Asking(f.control, f.text)
                                            \/ Answered(f.control, f.text)
           [] f.operation \in {"DATA_CONNECT", "TRANSFER_SEND"} -> Nothing(f.control, f.text)
           [] f.operation = "TRANSFER_REPLY" -> \/ Asking(f.control, f.text)
                                                \/ Answered(f.control, f.text)
                                                \/ Accepted(f.control, f.text)
           [] OTHER -> TRUE
    /\ f.operation \in Moving => Ending(f.control, f.text)
    /\ f.operation = "WRITE_FINISH" => f.data = None

-----------------------------------------------------------------------------
(* The request in the mailbox, and the host.                                *)

Mailbox ==
  /\ {pending, cancel, started} \subseteq BOOLEAN
  /\ command \in {"OPEN", "EXEC", "READ", "WRITE", "CLOSE"} /\ param \in Params
  /\ ppc \in {"idle", "processed", "cleared"} /\ outcome \in Results \ {"PENDING"}
  /\ hpc \in {"idle", "waiting", "cancelling"}
  /\ received \in Seq(Int) /\ scratch \in Seq(Int)

Flow ==
  /\ pending => status = "PENDING" /\ hpc # "idle"
  /\ ppc = "processed" => pending
  /\ ppc # "idle" => hpc # "idle" /\ (hpc = "waiting" => status = "PENDING")
  /\ ppc = "cleared" => ~pending
  /\ started => pending
  /\ pending /\ command \in {"READ", "WRITE"} => param \in Nat
  /\ hpc = "cancelling" /\ ~cancel => ~pending /\ ftp.data = None
  /\ Clean(ftp) /\ ftp.operation \notin {"NONE"} \cup Moving =>
       started /\ command = "EXEC" /\ ppc = "idle"

\* The request of the host has succeeded.
Done == status = "OK" \/ (ppc # "idle" /\ outcome = "OK")

\* The bytes of the download the host has: all that left the ring.
HostHas ==
  ftp.operation = "READ" /\ ftp.data # None /\ hpc # "cancelling" /\ ~cancel =>
    IF command = "EXEC" /\ hpc = "waiting" /\ Done THEN ftp.count = ftp.data.moved
    ELSE received \o InScratch = [i \in 1..(ftp.data.moved - ftp.count) |-> i]

FtpInv == Basic(ftp) /\ Owed(ftp) /\ Mailbox /\ Flow /\ HostHas /\ ReplyInStep

-----------------------------------------------------------------------------
(* Structs.                                                                 *)

\* The sizes are positive.
LEMMA Sizes == DataCapacity \in Nat /\ DataCapacity > 0 /\ ReadMax \in Nat /\ 0 \in Places
BY FtpAssumption DEF Places

\* The fields the invariants of a struct are about, its operation aside.
Alike(f, g) ==
  /\ g.state = f.state /\ g.control = f.control /\ g.data = f.data /\ g.text = f.text
  /\ g.ring = f.ring /\ g.head = f.head /\ g.tail = f.tail /\ g.count = f.count
  /\ g.live = f.live

\* A struct that is like another one but for an operation that lays no claim to
\* the ring.
LEMMA AlikeBasic ==
  ASSUME NEW f, NEW g \in Structs, Basic(f), Alike(f, g),
         \/ g.operation = f.operation
         \/ g.operation \notin Opened \cup {"READ"}
         \/ f.operation = "DATA_CONNECT" /\ g.operation = "TRANSFER_SEND"
         \/ f.operation = "TRANSFER_SEND" /\ g.operation = "TRANSFER_REPLY"
         \/ f.operation = "TRANSFER_REPLY" /\ g.operation = "READ",
         g.operation = "NONE" \/ g.operation = f.operation \/ g.state = "READY"
  PROVE  Basic(g)
<1>1. Own(g)
  BY DEF Basic, Own, Alike
<1>2. Holds(g)
  BY DEF Basic, Holds, Alike, Opened
<1>3. Begins(g)
  BY DEF Basic, Begins, Alike, Early
<1> QED BY <1>1, <1>2, <1>3 DEF Basic

\* The operation of a struct replaced.
LEMMA Operates ==
  ASSUME NEW f \in Structs, NEW o \in Ops
  PROVE  LET g == [f EXCEPT !.operation = o] IN
         g \in Structs /\ Alike(f, g) /\ g.operation = o /\ g.lastReply = f.lastReply
         /\ g.verb = f.verb /\ g.transfer = f.transfer
<1> DEFINE g == [f EXCEPT !.operation = o]
<1>1. g \in Structs
  BY DEF Structs
<1> QED BY <1>1 DEF Structs, Alike

\* An error ends the operation.
LEMMA Errs ==
  ASSUME NEW f, Basic(f)
  PROVE  Basic(ftp_error(f)) /\ ftp_error(f).operation = "NONE"
<1> DEFINE g == ftp_error(f)
<1>1. f \in Structs
  BY DEF Basic
<1>2. g \in Structs /\ g.state = "ERROR" /\ g.operation = "NONE"
  BY <1>1 DEF ftp_error, Structs, States, Ops
<1>3. g.control = f.control /\ g.data = f.data /\ g.live = f.live /\ g.text = f.text
  BY <1>1 DEF ftp_error, Structs
<1> HIDE DEF g
<1>4. Own(g)
  BY <1>3 DEF Basic, Own
<1>5. Holds(g) /\ Begins(g)
  BY <1>2, <1>3 DEF Basic, Holds, Begins, Early, Opened
<1> QED BY <1>2, <1>4, <1>5 DEF Basic, g

\* The data connection is dropped.
LEMMA DropsData ==
  ASSUME NEW f, Basic(f)
  PROVE  LET g == ftp_detach(f, "data") IN
         /\ Basic(g) /\ g.data = None /\ g.state = f.state /\ g.operation = f.operation
         /\ g.control = f.control /\ g.text = f.text /\ g.lastReply = f.lastReply
         /\ g.live = IF f.control = None THEN 0 ELSE 1
<1> DEFINE g == ftp_detach(f, "data")
<1>0. f \in Structs /\ Own(f) /\ f.live \in Int
  BY DEF Basic, Structs
<1>1. CASE f.data = None
  <2>1. g = f
    BY <1>1 DEF ftp_detach
  <2>2. f.live = IF f.control = None THEN 0 ELSE 1
    BY <1>0, <1>1 DEF Own
  <2> QED BY <1>1, <2>1, <2>2
<1>2. CASE f.data # None
  <2> DEFINE n == f.live - 1
             h == [f EXCEPT !.data = None, !.live = n]
  <2>1. g = h
    BY <1>2 DEF ftp_detach
  <2>2. n = IF f.control = None THEN 0 ELSE 1
    BY <1>0, <1>2 DEF Own
  <2>3. n \in Int
    BY <1>0
  <2> HIDE DEF n
  <2>4. h \in Structs
    BY <1>0, <2>3 DEF Structs
  <2>5. /\ h.data = None /\ h.state = f.state /\ h.operation = f.operation
        /\ h.control = f.control /\ h.text = f.text /\ h.lastReply = f.lastReply /\ h.live = n
    BY <1>0 DEF Structs
  <2> HIDE DEF h
  <2>6. Own(h)
    BY <2>2, <2>5 DEF Own
  <2>7. Holds(h)
    BY <2>5 DEF Holds
  <2>8. Begins(h)
    BY <2>5 DEF Basic, Begins
  <2> QED BY <2>1, <2>2, <2>4, <2>5, <2>6, <2>7, <2>8 DEF Basic
<1> QED BY <1>1, <1>2

\* The empty struct.
LEMMA BlankBasic ==
  Basic(Blank) /\ Blank.operation = "NONE" /\ Blank.control = None /\ Blank.data = None
  /\ Blank.state = "CLOSED" /\ Blank.text = <<>>
<1> DEFINE r == [i \in 0..DataCapacity - 1 |-> 0]
<1>1. r \in [Places -> Int]
  BY DEF Places
<1>2. <<>> \in Seq(Replies) /\ NoReply \in Replies
  BY DEF NoReply, Replies
<1>3. Blank = [state |-> "CLOSED", operation |-> "NONE", control |-> None, data |-> None,
          address |-> None, dnsDone |-> FALSE, dnsOk |-> FALSE,
          dataConnected |-> FALSE, dataEof |-> FALSE, dataError |-> FALSE,
          transfer |-> "NONE", verb |-> "SIMPLE", host |-> None, text |-> <<>>,
          lastReply |-> NoReply, ring |-> r, head |-> 0, tail |-> 0, count |-> 0, live |-> 0]
  BY DEF Blank
<1> HIDE DEF r
<1>4. 0 \in 0..DataCapacity /\ 0 \in Places /\ None \in Params
  BY Sizes DEF Params
<1>5. Blank \in Structs
  BY <1>1, <1>2, <1>3, <1>4 DEF Structs, States, Ops, Verbs
<1>6. /\ Blank.operation = "NONE" /\ Blank.control = None /\ Blank.data = None
      /\ Blank.state = "CLOSED" /\ Blank.text = <<>> /\ Blank.live = 0
  BY <1>3
<1>7. Own(Blank) /\ Holds(Blank) /\ Begins(Blank)
  BY <1>6 DEF Own, Holds, Begins, Opened
<1> QED BY <1>5, <1>6, <1>7 DEF Basic

\* A reset leaves the empty struct: no pcb is left behind.
LEMMA Resets ==
  ASSUME NEW f, Basic(f)
  PROVE  ftp_reset(f) = Blank
<1> DEFINE g == ftp_detach(f, "data")
           h == ftp_detach(g, "control")
<1>1. Basic(g) /\ g.control = f.control /\ g.live = IF f.control = None THEN 0 ELSE 1
  BY DropsData
<1> HIDE DEF g
<1>2. h.live = 0
  <2>1. CASE g.control = None
    BY <1>1, <2>1 DEF ftp_detach
  <2>2. CASE g.control # None
    <3> DEFINE n == g.live - 1
    <3>1. h = [g EXCEPT !.control = None, !.live = n]
      BY <2>2 DEF ftp_detach
    <3>2. g \in Structs /\ n = 0
      BY <1>1, <2>2 DEF Basic
    <3> HIDE DEF n, h
    <3>3. h.live = n
      BY <3>1, <3>2 DEF Structs
    <3> QED BY <3>2, <3>3
  <2> QED BY <2>1, <2>2
<1>3. ftp_reset(f) = [Blank EXCEPT !.live = h.live]
  BY DEF ftp_reset, g, h
<1> HIDE DEF h
<1>4. [Blank EXCEPT !.live = 0] = Blank
  <2>1. Blank \in Structs /\ Blank.live = 0
    BY BlankBasic DEF Basic, Own
  <2>2. \A s \in Structs : [s EXCEPT !.live = s.live] = s
    BY DEF Structs
  <2> QED BY <2>1, <2>2
<1> QED BY <1>2, <1>3, <1>4

\* Taking a reply shortens the text.
LEMMA Takes ==
  ASSUME NEW f, Basic(f), f.text # <<>>
  PROVE  LET g == TakeReply(f) IN
         /\ g \in Structs /\ g.state = f.state /\ g.control = f.control /\ g.data = f.data
         /\ g.ring = f.ring /\ g.head = f.head /\ g.tail = f.tail /\ g.count = f.count
         /\ g.live = f.live /\ g.operation = f.operation /\ g.lastReply = f.text[1]
         /\ g.text = Tail(f.text) /\ Own(g) /\ Holds(g) /\ Code(f) = f.text[1].code
         /\ f.state # "GREETING" => Basic(g)
<1> DEFINE g == TakeReply(f)
           a == Head(f.text)
           b == Tail(f.text)
<1>1. f \in Structs /\ f.text \in Seq(Replies)
  BY DEF Basic, Structs
<1>2. a \in Replies /\ b \in Seq(Replies) /\ a = f.text[1] /\ Code(f) = f.text[1].code
  BY <1>1 DEF Code
<1>3. g = [f EXCEPT !.lastReply = a, !.text = b]
  BY DEF TakeReply
<1> HIDE DEF a, b
<1>4. g \in Structs
  BY <1>1, <1>2, <1>3 DEF Structs
<1>5. /\ g.state = f.state /\ g.control = f.control /\ g.data = f.data
      /\ g.ring = f.ring /\ g.head = f.head /\ g.tail = f.tail /\ g.count = f.count
      /\ g.live = f.live /\ g.operation = f.operation /\ g.lastReply = a /\ g.text = b
  BY <1>1, <1>3 DEF Structs
<1> HIDE DEF g
<1>6. Own(g)
  BY <1>5 DEF Basic, Own
<1>7. Holds(g)
  BY <1>5 DEF Basic, Holds
<1>8. ASSUME f.state # "GREETING" PROVE Basic(g)
  <2>1. Begins(g)
    BY <1>5, <1>8 DEF Basic, Begins
  <2> QED BY <1>4, <1>6, <1>7, <2>1 DEF Basic
<1> QED BY <1>2, <1>4, <1>5, <1>6, <1>7, <1>8 DEF g, b

\* The only reply is taken, or the first of two.
LEMMA Shorter ==
  ASSUME NEW s \in Seq(Replies)
  PROVE  /\ Len(s) = 1 => Tail(s) = <<>>
         /\ Len(s) = 2 => Len(Tail(s)) = 1 /\ Tail(s)[1] = s[2] /\ Tail(s) # <<>>
<1>1. Len(s) = 1 => Tail(s) = <<>>
  <2> SUFFICES ASSUME Len(s) = 1 PROVE Tail(s) = <<>>
    OBVIOUS
  <2>1. Tail(s) \in Seq(Replies) /\ Len(Tail(s)) = 0
    OBVIOUS
  <2> QED BY <2>1, EmptySeq
<1>2. Len(s) = 2 => Len(Tail(s)) = 1 /\ Tail(s)[1] = s[2]
  OBVIOUS
<1>3. \A x : Len(x) = 1 => x # <<>>
  OBVIOUS
<1>4. Len(s) = 2 => Tail(s) # <<>>
  BY <1>2, <1>3
<1> QED BY <1>1, <1>2, <1>4

-----------------------------------------------------------------------------
(* A poll that returns.                                                     *)

Rest == {"NONE"} \cup Moving

\* A request is being polled; its parameter and its answer keep their types.
Polled == ppc = "idle" /\ ~cancel /\ pending
Inputs ==
  /\ param' \in Params /\ (command \in {"READ", "WRITE"} => param' \in Nat)
  /\ scratch' \in Seq(Int)

\* A host that polls for its request waits, and has not been answered.
LEMMA PolledWaits ==
  ASSUME FtpInv, Polled
  PROVE  hpc = "waiting" /\ status = "PENDING" /\ ~Done /\ InScratch = <<>>
BY DEF FtpInv, Flow, Mailbox, Polled, Done, InScratch

\* What f brings the host.
Brings(f, r) ==
  f.operation = "READ" /\ f.data # None =>
    \/ ftp.operation = "READ" /\ f.data = ftp.data /\ f.count = ftp.count /\ r # "OK"
    \/ command = "EXEC" /\ r = "OK" /\ f.count = f.data.moved
    \/ /\ command = "READ" /\ r = "OK"
       /\ received \o scratch' = [i \in 1..(f.data.moved - f.count) |-> i]

\* A poll that returns the struct f and the result r keeps the invariant, if f is
\* sound and its operation is where r says it is.
LEMMA Returns ==
  ASSUME FtpInv, Polled, Inputs, NEW f, NEW r \in Results, Return(f, r), Basic(f),
         r \in {"OK", "EOF", "PENDING"} => Owed(f),
         r \in {"OK", "EOF"} /\ Clean(f) => f.operation \in Rest,
         r = "PENDING" /\ Clean(f) /\ f.operation \notin Rest => command = "EXEC",
         r = "EOF" \/ (command = "EXEC" /\ r = "OK") =>
           (Clean(f) => f.lastReply.id = f.control.issued),
         Brings(f, r)
  PROVE  FtpInv'
<1> DEFINE spoilt == [f EXCEPT !.control.clean = FALSE]
<1>0. f \in Structs /\ f.control \in {None} \cup Controls
  BY DEF Basic, Structs
<1>1. /\ hpc = "waiting" /\ status = "PENDING" /\ ~Done /\ InScratch = <<>>
      /\ Mailbox /\ Flow /\ HostHas
  BY PolledWaits DEF FtpInv
<1>2. /\ started' = TRUE /\ pending' = pending /\ cancel' = cancel /\ command' = command
      /\ status' = status /\ hpc' = hpc /\ received' = received
      /\ IF r = "PENDING" THEN ppc' = ppc /\ outcome' = outcome
         ELSE ppc' = "processed" /\ outcome' = r
  BY DEF Return, pollVars, hostVars
<1>3. ASSUME f.control # None
      PROVE  /\ spoilt.control # None /\ ~spoilt.control.clean /\ spoilt.operation = f.operation
             /\ spoilt.data = f.data /\ spoilt.count = f.count /\ Basic(spoilt)
  <2> DEFINE c == [f.control EXCEPT !.clean = FALSE]
             g == [f EXCEPT !.control = c]
  <2>1. spoilt = g
    BY <1>0
  <2>2. c \in Controls /\ c.clean = FALSE /\ c.issued = f.control.issued
        /\ c.wire = f.control.wire /\ c.owes = f.control.owes
        /\ c.connected = f.control.connected
    BY <1>0, <1>3 DEF Controls
  <2>3. c # None
    BY <2>2, NoneAssumption
  <2> HIDE DEF c
  <2>4. g \in Structs
    BY <1>0, <2>2 DEF Structs
  <2>5. /\ g.control = c /\ g.state = f.state /\ g.operation = f.operation /\ g.data = f.data
        /\ g.text = f.text /\ g.ring = f.ring /\ g.head = f.head /\ g.tail = f.tail
        /\ g.count = f.count /\ g.live = f.live
    BY <1>0 DEF Structs
  <2> HIDE DEF g
  <2>6. Own(g)
    BY <1>3, <2>3, <2>5 DEF Basic, Own
  <2>7. Holds(g)
    BY <2>5 DEF Basic, Holds
  <2>8. Begins(g)
    BY <1>3, <2>2, <2>5 DEF Basic, Begins
  <2>9. Basic(g)
    BY <2>4, <2>6, <2>7, <2>8 DEF Basic
  <2> QED BY <2>1, <2>2, <2>3, <2>5, <2>9
<1>4. \/ ftp' = f /\ (r \in {"OK", "EOF", "PENDING"} \/ f.control = None)
      \/ ftp' = spoilt /\ f.control # None /\ r \notin {"OK", "EOF", "PENDING"}
  BY DEF Return
<1> HIDE DEF spoilt
<1>5. /\ Basic(ftp') /\ ftp'.operation = f.operation /\ ftp'.data = f.data /\ ftp'.count = f.count
      /\ Clean(ftp') => ftp' = f /\ Clean(f) /\ r \in {"OK", "EOF", "PENDING"}
  BY <1>3, <1>4 DEF Clean
<1>6. Owed(ftp')
  <2>1. CASE Clean(ftp')
    BY <1>5, <2>1
  <2>2. CASE ~Clean(ftp')
    BY <2>2 DEF Owed
  <2> QED BY <2>1, <2>2
<1>7. Mailbox'
  <2>1. /\ pending' \in BOOLEAN /\ cancel' \in BOOLEAN /\ started' \in BOOLEAN
        /\ command' \in {"OPEN", "EXEC", "READ", "WRITE", "CLOSE"}
        /\ hpc' \in {"idle", "waiting", "cancelling"} /\ received' \in Seq(Int)
    BY <1>1, <1>2 DEF Mailbox
  <2>2. ppc' \in {"idle", "processed", "cleared"} /\ outcome' \in Results \ {"PENDING"}
    BY <1>1, <1>2 DEF Mailbox
  <2> QED BY <2>1, <2>2 DEF Mailbox, Inputs
<1>8. Flow'
  <2>1. Clean(ftp') /\ ftp'.operation \notin Rest => command = "EXEC" /\ r = "PENDING"
    BY <1>5
  <2>2. /\ (pending => status = "PENDING" /\ hpc # "idle")' /\ (ppc = "processed" => pending)'
        /\ (ppc # "idle" => hpc # "idle" /\ (hpc = "waiting" => status = "PENDING"))'
        /\ (ppc = "cleared" => ~pending)' /\ (started => pending)'
    BY <1>1, <1>2 DEF Polled
  <2>3. (pending /\ command \in {"READ", "WRITE"} => param \in Nat)'
    BY <1>2 DEF Inputs
  <2>4. (hpc = "cancelling" /\ ~cancel => ~pending /\ ftp.data = None)'
    BY <1>1, <1>2
  <2>5. (Clean(ftp) /\ ftp.operation \notin Rest => started /\ command = "EXEC" /\ ppc = "idle")'
    BY <1>2, <2>1 DEF Polled
  <2> QED BY <2>2, <2>3, <2>4, <2>5 DEF Flow, Rest
<1>9. HostHas'
  <2> SUFFICES ASSUME f.operation = "READ", f.data # None
               PROVE  IF command = "EXEC" /\ Done' THEN f.count = f.data.moved
                      ELSE received \o InScratch' = [i \in 1..(f.data.moved - f.count) |-> i]
    BY <1>1, <1>2, <1>5 DEF HostHas
  <2>1. Done' = (r = "OK")
    BY <1>1, <1>2 DEF Done, Polled
  <2>2. InScratch' = IF command = "READ" /\ r = "OK" THEN scratch' ELSE <<>>
    BY <1>1, <1>2 DEF InScratch, Polled
  <2>3. CASE ftp.operation = "READ" /\ f.data = ftp.data /\ f.count = ftp.count /\ r # "OK"
    <3>1. received \o <<>> = [i \in 1..(ftp.data.moved - ftp.count) |-> i]
      BY <1>1, <2>3 DEF HostHas, Polled
    <3> QED BY <2>1, <2>2, <2>3, <3>1
  <2>4. CASE command = "EXEC" /\ r = "OK" /\ f.count = f.data.moved
    BY <2>1, <2>4
  <2>5. CASE /\ command = "READ" /\ r = "OK"
             /\ received \o scratch' = [i \in 1..(f.data.moved - f.count) |-> i]
    BY <2>2, <2>5
  <2> QED BY <2>3, <2>4, <2>5 DEF Brings
<1>10. ReplyInStep'
  BY <1>2, <1>5 DEF ReplyInStep, Clean, Polled
<1> QED BY <1>5, <1>6, <1>7, <1>8, <1>9, <1>10 DEF FtpInv

\* A poll that changes nothing, and waits or fails.
LEMMA Waits ==
  ASSUME FtpInv, Polled, Inputs, NEW r \in Results \ {"OK", "EOF"}, Return(ftp, r)
  PROVE  FtpInv'
<1>1. Basic(ftp) /\ Owed(ftp) /\ Flow
  BY DEF FtpInv
<1>2. Clean(ftp) /\ ftp.operation \notin Rest => command = "EXEC"
  BY <1>1 DEF Flow, Rest
<1>3. Brings(ftp, r)
  BY DEF Brings
<1> QED BY <1>1, <1>2, <1>3, Returns

\* A poll that leaves no operation, and waits or fails.
LEMMA Rests ==
  ASSUME FtpInv, Polled, Inputs, NEW f, NEW r \in Results \ {"OK", "EOF"}, Return(f, r),
         Basic(f), f.operation = "NONE", r = "PENDING" => Owed(f)
  PROVE  FtpInv'
<1>1. f.operation \in Rest /\ Brings(f, r)
  BY DEF Rest, Brings
<1> QED BY <1>1, Returns

\* A session that is not ready owes nothing.
LEMMA EarlyOwes ==
  ASSUME NEW f, Basic(f), f.state \in Early
  PROVE  Owed(f) /\ f.operation = "NONE"
<1>1. f.operation = "NONE"
  BY DEF Basic, Begins
<1> QED BY <1>1 DEF Owed, Early, Moving

-----------------------------------------------------------------------------
(* OPEN.                                                                    *)

\* A poll of a command that leaves mailbox parameter and scratch page alone.
LEMMA QuietInputs ==
  ASSUME FtpInv, pending, param' = param, scratch' = scratch
  PROVE  Inputs
BY DEF FtpInv, Mailbox, Flow, Inputs

\* The struct the first poll of an OPEN starts from.
LEMMA FreshIs ==
  ASSUME FtpInv, ~started, command = "OPEN"
  PROVE  /\ Basic(Begun) /\ Begun.state = "CLOSED" /\ Begun.operation = "NONE"
         /\ Begun.control = None
<1> DEFINE g == [Blank EXCEPT !.host = param]
<1>1. ftp_reset(ftp) = Blank
  BY Resets DEF FtpInv
<1>2. Begun = g
  BY <1>1 DEF Begun
<1>3. Blank \in Structs /\ param \in Params /\ Basic(Blank)
  BY BlankBasic DEF Basic, FtpInv, Mailbox
<1>4. g \in Structs /\ Alike(Blank, g) /\ g.operation = Blank.operation
  BY <1>3 DEF Structs, Alike
<1> HIDE DEF g
<1>5. Basic(g)
  BY <1>3, <1>4, AlikeBasic
<1> QED BY <1>2, <1>4, <1>5, BlankBasic DEF Alike

\* The struct any poll starts from.
LEMMA BegunIs ==
  ASSUME FtpInv
  PROVE  /\ Basic(Begun)
         /\ Begun = ftp \/ (~started /\ Begun.operation = "NONE")
         /\ command \notin {"OPEN", "EXEC"} => Begun = ftp
         /\ command = "EXEC" =>
              /\ Alike(ftp, Begun) /\ Begun.lastReply = ftp.lastReply
              /\ started => Begun = ftp
              /\ ~started => Begun.operation = "NONE"
<1>1. CASE started
  BY <1>1 DEF Begun, FtpInv, Alike
<1>2. CASE ~started /\ command = "OPEN"
  BY <1>2, FreshIs
<1>3. CASE ~started /\ command = "EXEC"
  <2>1. Begun = [ftp EXCEPT !.operation = "NONE"] /\ Basic(ftp)
    BY <1>3 DEF Begun, FtpInv
  <2>2. "NONE" \in Ops /\ ftp \in Structs
    BY <2>1 DEF Ops, Basic
  <2>3. /\ Begun \in Structs /\ Alike(ftp, Begun) /\ Begun.operation = "NONE"
        /\ Begun.lastReply = ftp.lastReply
    BY <2>1, <2>2, Operates
  <2>4. Basic(Begun)
    BY <2>1, <2>3, AlikeBasic DEF Opened
  <2> QED BY <1>3, <2>3, <2>4
<1>4. CASE ~started /\ command \notin {"OPEN", "EXEC"}
  BY <1>4 DEF Begun, FtpInv
<1> QED BY <1>1, <1>2, <1>3, <1>4

\* A poll that ends or waits without an operation.
LEMMA OpenRests ==
  ASSUME FtpInv, Polled, Inputs, NEW f, Basic(f), f.state \in Early,
         \/ Wait(f) \/ WaitOrFail(f) \/ Return(f, "PENDING")
         \/ \E r \in {"PARAM", "CONNECT", "DNS"} : Return(f, r) \/ Return(ftp_error(f), r)
  PROVE  FtpInv'
<1>1. Owed(f) /\ f.operation = "NONE"
  BY EarlyOwes
<1>2. Basic(ftp_error(f)) /\ ftp_error(f).operation = "NONE"
  BY Errs
<1>3. PICK r \in {"PARAM", "CONNECT", "DNS", "TIMEOUT", "PENDING"} :
        Return(f, r) \/ (Return(ftp_error(f), r) /\ r # "PENDING")
  BY DEF Wait, WaitOrFail
<1>4. r \in Results \ {"OK", "EOF"}
  BY DEF Results
<1> QED BY <1>1, <1>2, <1>3, <1>4, Rests

\* The control connection is refused or begins.
LEMMA StartsControl ==
  ASSUME FtpInv, Polled, Inputs, NEW f, Basic(f), f.state = "DNS", ftp_start_control(f)
  PROVE  FtpInv'
<1> DEFINE c == [peer |-> f.address, connected |-> FALSE, issued |-> 0, wire |-> <<>>,
                 owes |-> 0, clean |-> TRUE]
           n == f.live + 1
           g == [f EXCEPT !.control = c, !.live = n, !.state = "CONNECTING"]
<1>1. Return(ftp_error(f), "CONNECT") \/ Return(g, "PENDING")
  BY DEF ftp_start_control
<1>2. CASE Return(ftp_error(f), "CONNECT")
  BY <1>2, OpenRests DEF Early
<1>3. CASE Return(g, "PENDING")
  <2>1. f \in Structs /\ Own(f) /\ Begins(f) /\ f.address \in Params /\ f.live \in Int
    BY DEF Basic, Structs
  <2>2. f.control = None /\ f.data = None /\ f.operation = "NONE" /\ f.text = <<>>
    BY <2>1 DEF Begins, Early
  <2>3. n = 1 /\ n \in Int
    BY <2>1, <2>2 DEF Own
  <2>4. c \in Controls /\ c.issued = 0 /\ c.wire = <<>> /\ c.owes = 0
    BY <2>1 DEF Controls
  <2>5. c # None
    BY <2>4, NoneAssumption
  <2> HIDE DEF c, n
  <2>6. g \in Structs
    BY <2>1, <2>3, <2>4 DEF Structs, States
  <2>7. /\ g.control = c /\ g.live = n /\ g.state = "CONNECTING" /\ g.data = f.data
        /\ g.operation = f.operation /\ g.text = f.text
    BY <2>1 DEF Structs
  <2> HIDE DEF g
  <2>8. Own(g)
    BY <2>2, <2>3, <2>5, <2>7 DEF Own
  <2>9. Holds(g) /\ Begins(g)
    BY <2>2, <2>4, <2>7 DEF Holds, Begins, Opened
  <2>10. Basic(g) /\ g.state \in Early
    BY <2>6, <2>7, <2>8, <2>9 DEF Basic, Early
  <2> QED BY <1>3, <2>10, OpenRests DEF g
<1> QED BY <1>1, <1>2, <1>3

\* The state and the fields of a lookup change nothing else.
LEMMA LooksUp ==
  ASSUME NEW b, Basic(b), b.state \in {"CLOSED", "DNS"}, NEW f \in Structs, f.state = "DNS",
         f.control = b.control, f.data = b.data, f.operation = b.operation, f.text = b.text,
         f.live = b.live
  PROVE  Basic(f)
<1>1. Own(f)
  BY DEF Basic, Own
<1>2. Begins(f) /\ Holds(f)
  BY DEF Basic, Begins, Holds, Early, Opened
<1> QED BY <1>1, <1>2 DEF Basic

\* Every poll of an OPEN before the greeting.
LEMMA OpenStep ==
  ASSUME FtpInv, OpenFailed \/ OpenEarly \/ OpenLookup \/ OpenDns \/ OpenConnecting
  PROVE  FtpInv'
<1>0. /\ Polled /\ Inputs /\ command = "OPEN" /\ Basic(Begun)
  <2>1. /\ Polling("OPEN") /\ param' = param /\ scratch' = scratch
    BY DEF OpenFailed, OpenEarly, OpenLookup, OpenDns, OpenConnecting, Opening, Quiet
  <2> QED BY <2>1, QuietInputs, BegunIs DEF Polling, Polled
<1>1. CASE OpenFailed
  <2>1. Begun.state = "ERROR" /\ Return(Begun, "CONNECT")
    BY <1>1 DEF OpenFailed, Opening
  <2>2. Begun = ftp
    BY <1>0, <2>1, FreshIs DEF Begun
  <2> QED BY <1>0, <2>1, <2>2, Waits DEF Results
<1>2. CASE OpenEarly
  <2>1. Begun.state = "CLOSED" /\ (Return(Begun, "PARAM") \/ Wait(Begun))
    BY <1>2 DEF OpenEarly, Opening
  <2> QED BY <1>0, <2>1, OpenRests DEF Early
<1>3. CASE OpenLookup
  <2> DEFINE f == [Begun EXCEPT !.state = "DNS"]
             g == [f EXCEPT !.dnsDone = TRUE, !.dnsOk = TRUE, !.address = f.host]
  <2>1. Begun.state = "CLOSED"
    BY <1>3 DEF OpenLookup, Opening
  <2>2. \/ ftp_start_control(g) \/ ftp_start_control(f)
        \/ Return(ftp_error(f), "DNS") \/ Return(f, "PENDING")
    BY <1>3 DEF OpenLookup
  <2>3. Begun \in Structs
    BY <1>0 DEF Basic
  <2>4. /\ f \in Structs /\ f.state = "DNS" /\ f.control = Begun.control /\ f.data = Begun.data
        /\ f.operation = Begun.operation /\ f.text = Begun.text /\ f.live = Begun.live
    BY <2>3 DEF Structs, States
  <2> HIDE DEF f
  <2>5. /\ g \in Structs /\ g.state = f.state /\ g.control = f.control /\ g.data = f.data
        /\ g.operation = f.operation /\ g.text = f.text /\ g.live = f.live
    BY <2>4 DEF Structs
  <2> HIDE DEF g
  <2>6. Basic(f)
    BY <1>0, <2>1, <2>4, LooksUp
  <2>7. Basic(g)
    BY <2>4, <2>5, <2>6, LooksUp
  <2> QED BY <1>0, <2>2, <2>4, <2>5, <2>6, <2>7, StartsControl, OpenRests DEF Early
<1>4. CASE OpenDns
  <2>1. /\ Begun.state = "DNS"
        /\ WaitOrFail(Begun) \/ Return(ftp_error(Begun), "DNS") \/ ftp_start_control(Begun)
    BY <1>4 DEF OpenDns, Opening
  <2> QED BY <1>0, <2>1, StartsControl, OpenRests DEF Early
<1>5. CASE OpenConnecting
  <2>1. Begun.state = "CONNECTING" /\ WaitOrFail(Begun)
    BY <1>5 DEF OpenConnecting, Opening
  <2> QED BY <1>0, <2>1, OpenRests DEF Early
<1> QED BY <1>1, <1>2, <1>3, <1>4, <1>5

\* The greeting ends an OPEN; the session is ready and owes nothing.
LEMMA GreetingStep ==
  ASSUME FtpInv, OpenGreeting
  PROVE  FtpInv'
<1> DEFINE f == Begun
           u == TakeReply(f)
           g == [u EXCEPT !.state = "READY", !.operation = "NONE"]
<1>0. /\ Polled /\ Inputs /\ command = "OPEN" /\ Basic(f) /\ f.state = "GREETING"
  <2>1. /\ Polling("OPEN") /\ param' = param /\ scratch' = scratch /\ f.state = "GREETING"
    BY DEF OpenGreeting, Opening, Quiet
  <2> QED BY <2>1, QuietInputs, BegunIs DEF Polling, Polled
<1>1. \/ WaitOrFail(f)
      \/ f.text # <<>> /\ (Return(ftp_error(u), "CONNECT") \/ Return(g, "OK"))
  BY DEF OpenGreeting, ftp_reply
<1>2. CASE WaitOrFail(f)
  BY <1>0, <1>2, OpenRests DEF Early
<1>3. CASE f.text # <<>> /\ (Return(ftp_error(u), "CONNECT") \/ Return(g, "OK"))
  <2>1. /\ u \in Structs /\ u.control = f.control /\ u.data = f.data /\ u.live = f.live
        /\ u.operation = f.operation /\ u.text = Tail(f.text) /\ Own(u) /\ Holds(u)
    BY <1>0, <1>3, Takes
  <2>2. /\ f.operation = "NONE" /\ f.data = None /\ Len(f.text) = 1 /\ f.text \in Seq(Replies)
        /\ f.control # None => /\ f.control.issued = 0 /\ f.control.wire = <<>>
                               /\ f.control.owes = 0 /\ f.control.connected
    BY <1>0, <1>3 DEF Basic, Begins, Early, Structs
  <2>3. u.text = <<>>
    BY <2>1, <2>2, Shorter
  <2> HIDE DEF u
  <2>4. CASE Return(ftp_error(u), "CONNECT")
    <3> DEFINE e == ftp_error(u)
    <3>1. e \in Structs /\ e.state = "ERROR" /\ e.operation = "NONE"
      BY <2>1 DEF ftp_error, Structs, States, Ops
    <3>2. e.control = u.control /\ e.data = u.data /\ e.live = u.live
      BY <2>1 DEF ftp_error, Structs
    <3> HIDE DEF e
    <3>3. Own(e)
      BY <2>1, <3>2 DEF Own
    <3>4. Holds(e) /\ Begins(e)
      BY <2>1, <2>2, <3>1, <3>2 DEF Holds, Begins, Early, Opened
    <3>5. Basic(e)
      BY <3>1, <3>3, <3>4 DEF Basic
    <3> QED BY <1>0, <2>4, <3>1, <3>5, Rests DEF e, Results
  <2>5. CASE Return(g, "OK")
    <3>1. /\ g \in Structs /\ g.state = "READY" /\ g.operation = "NONE"
      BY <2>1 DEF Structs, States, Ops
    <3>2. /\ g.control = u.control /\ g.data = u.data /\ g.live = u.live /\ g.text = u.text
      BY <2>1 DEF Structs
    <3> HIDE DEF g
    <3>3. Own(g)
      BY <2>1, <3>2 DEF Own
    <3>4. Holds(g) /\ Begins(g)
      BY <2>1, <2>2, <3>1, <3>2 DEF Holds, Begins, Early, Opened
    <3>5. Basic(g)
      BY <3>1, <3>3, <3>4 DEF Basic
    <3>6. Owed(g)
      BY <2>1, <2>2, <2>3, <3>1, <3>2 DEF Owed, Clean, Nothing, Moving, Replied, Sends
    <3>7. g.operation \in Rest /\ Brings(g, "OK")
      BY <3>1 DEF Rest, Brings
    <3> QED BY <1>0, <2>5, <3>5, <3>6, <3>7, Returns DEF g, Results
  <2> QED BY <1>3, <2>4, <2>5
<1> QED BY <1>1, <1>2, <1>3

-----------------------------------------------------------------------------
(* EXEC.                                                                    *)

\* A command goes out on a connection that owes nothing, or the poll waits.
LEMMA SendsCommand ==
  ASSUME FtpInv, Polled, command = "EXEC", NEW f, Basic(f), Owed(f), f.state = "READY",
         NEW verb \in Verbs, NEW next, SendThen(f, verb, next),
         \/ f.operation \in Sends /\ next \in Replied
         \/ f.operation = "TRANSFER_SEND" /\ next = "TRANSFER_REPLY"
  PROVE  FtpInv'
<1> DEFINE id == f.control.issued + 1
           cmd == [verb |-> verb, id |-> id]
           w == Append(f.control.wire, cmd)
           sent == [f.control EXCEPT !.issued = id, !.wire = w]
           g == [f EXCEPT !.operation = next, !.control = sent]
<1>0. Inputs
  <2>1. param' = param /\ scratch' = scratch
    BY DEF SendThen, Quiet
  <2> QED BY <2>1, QuietInputs DEF Polled
<1>1. \/ f.control # None /\ Return(g, "PENDING")
      \/ \E r \in {"TIMEOUT", "PENDING"} : Return(f, r)
  BY DEF SendThen, Wait
<1>2. ASSUME NEW r \in {"TIMEOUT", "PENDING"}, Return(f, r) PROVE FtpInv'
  <2>1. Brings(f, r) /\ r \in Results /\ r \notin {"OK", "EOF"}
    BY DEF Brings, Sends, Results
  <2> QED BY <1>0, <1>2, <2>1, Returns
<1>3. CASE f.control # None /\ Return(g, "PENDING")
  <2>0. next \in Ops
    BY DEF Ops, Opened
  <2>1. f \in Structs /\ f.control \in Controls /\ next \in Ops
    BY <1>3, <2>0 DEF Basic, Structs
  <2>2. /\ f.control.issued \in Nat /\ f.control.wire \in Seq([verb : Verbs, id : Nat])
        /\ f.control.owes \in Nat
    BY <2>1 DEF Controls
  <2>3. id \in Nat
    BY <2>2
  <2> HIDE DEF id
  <2>4. cmd \in [verb : Verbs, id : Nat] /\ cmd.id = id
    BY <2>3
  <2> HIDE DEF cmd
  <2>5. w \in Seq([verb : Verbs, id : Nat])
    BY <2>2, <2>4
  <2>6. f.control.wire = <<>> => Len(w) = 1 /\ w[1] = cmd
    BY <2>2, <2>4
  <2> HIDE DEF w
  <2>7. /\ sent \in Controls /\ sent.issued = id /\ sent.wire = w /\ sent.owes = f.control.owes
        /\ sent.clean = f.control.clean /\ sent.connected = f.control.connected
    BY <2>1, <2>3, <2>5 DEF Controls
  <2>8. sent # None
    BY <2>7, NoneAssumption
  <2> HIDE DEF sent
  <2>9. g \in Structs
    BY <2>1, <2>7 DEF Structs
  <2>10. /\ g.operation = next /\ g.control = sent /\ g.state = f.state /\ g.data = f.data
         /\ g.text = f.text /\ g.live = f.live /\ g.ring = f.ring /\ g.head = f.head
         /\ g.tail = f.tail /\ g.count = f.count
    BY <2>1 DEF Structs
  <2> HIDE DEF g
  <2>11. Own(g)
    BY <1>3, <2>8, <2>10 DEF Basic, Own
  <2>12. Holds(g)
    BY <2>10 DEF Basic, Holds, Opened, Replied
  <2>13. Begins(g)
    BY <1>3, <2>7, <2>10 DEF Basic, Begins, Early
  <2>14. Basic(g)
    BY <2>9, <2>11, <2>12, <2>13 DEF Basic
  <2>15. Owed(g)
    <3> SUFFICES ASSUME sent.clean
                 PROVE  /\ Asking(sent, f.text)
                        /\ next \in Replied => f.data = None
      BY <2>10 DEF Owed, Clean, Moving, Replied, Sends
    <3>1. /\ Nothing(f.control, f.text)
          /\ next \in Replied => f.data = None
      BY <1>3, <2>7 DEF Owed, Clean, Sends, Replied
    <3> QED BY <2>4, <2>6, <2>7, <3>1 DEF Nothing, Asking
  <2>16. Brings(g, "PENDING")
    BY <2>10 DEF Brings, Replied
  <2> QED BY <1>0, <1>3, <2>14, <2>15, <2>16, Returns DEF g, Results
<1> QED BY <1>1, <1>2, <1>3

\* The poll of an EXEC at a step of its operation.
LEMMA AtStep ==
  ASSUME FtpInv, NEW op, op # "NONE", Executing(op)
  PROVE  /\ Polled /\ command = "EXEC" /\ Begun = ftp /\ ftp.operation = op
         /\ ftp.state = "READY" /\ Basic(ftp) /\ Owed(ftp) /\ ftp \in Structs
         /\ ftp.text \in Seq(Replies)
         /\ param' = param /\ scratch' = scratch => Inputs
<1>1. Polled /\ command = "EXEC" /\ Begun.operation = op /\ Begun.state = "READY" /\ pending
  BY DEF Executing, Polling, Polled
<1>2. Begun = ftp
  BY <1>1, BegunIs
<1>3. Basic(ftp) /\ Owed(ftp) /\ ftp \in Structs /\ ftp.text \in Seq(Replies)
  BY DEF FtpInv, Basic, Structs
<1> QED BY <1>1, <1>2, <1>3, QuietInputs

\* The steps that send.
LEMMA SendStep ==
  ASSUME FtpInv, ExecSimpleSend \/ ExecEpsvSend \/ ExecPasvSend \/ ExecTransferSend
  PROVE  FtpInv'
<1>0. ftp.verb \in Verbs
  BY DEF FtpInv, Basic, Structs
<1>1. CASE ExecSimpleSend
  BY <1>0, <1>1, AtStep, SendsCommand DEF ExecSimpleSend, Sends, Replied
<1>2. CASE ExecEpsvSend
  BY <1>2, AtStep, SendsCommand DEF ExecEpsvSend, Sends, Replied, Verbs
<1>3. CASE ExecPasvSend
  BY <1>3, AtStep, SendsCommand DEF ExecPasvSend, Sends, Replied, Verbs
<1>4. CASE ExecTransferSend
  BY <1>0, <1>4, AtStep, SendsCommand DEF ExecTransferSend
<1> QED BY <1>1, <1>2, <1>3, <1>4

\* The first step of an EXEC: an unfinished transfer makes the connection unclean.
LEMMA StartStep ==
  ASSUME FtpInv, ExecStart
  PROVE  FtpInv'
<1> DEFINE f == Begun
           left == IF ftp.operation \in {"READ", "WRITE", "WRITE_FINISH"} /\ f.control # None
                   THEN [f EXCEPT !.control.clean = FALSE] ELSE f
<1>0. /\ Polled /\ command = "EXEC" /\ f.operation = "NONE" /\ f.state = "READY" /\ Basic(f)
      /\ Alike(ftp, f) /\ pending
  <2>1. Executing("NONE")
    BY DEF ExecStart
  <2> QED BY <2>1, BegunIs DEF Executing, Polling, Polled
<1>1. CASE /\ \E t \in {"READ", "WRITE"} : Return([f EXCEPT !.transfer = t], "PARAM")
           /\ Quiet
  <2>1. PICK t \in {"READ", "WRITE"} : Return([f EXCEPT !.transfer = t], "PARAM")
    BY <1>1
  <2> DEFINE g == [f EXCEPT !.transfer = t]
  <2>2. f \in Structs
    BY <1>0 DEF Basic
  <2>3. g \in Structs /\ Alike(f, g) /\ g.operation = f.operation
    BY <2>2 DEF Structs, Alike
  <2> HIDE DEF g
  <2>4. Basic(g)
    BY <1>0, <2>3, AlikeBasic
  <2>5. Inputs
    BY <1>0, <1>1, QuietInputs DEF Quiet
  <2> QED BY <1>0, <2>1, <2>3, <2>4, <2>5, Rests DEF g, Results
<1>2. /\ Basic(left) /\ left.operation = "NONE" /\ left.state = "READY"
      /\ Clean(left) => Nothing(left.control, left.text) /\ left.data = None
  <2>1. CASE ftp.operation \in Moving /\ f.control # None
    <3> DEFINE c == [f.control EXCEPT !.clean = FALSE]
               g == [f EXCEPT !.control = c]
    <3>0. f \in Structs /\ f.control \in Controls
      BY <1>0, <2>1 DEF Basic, Structs
    <3>1. left = g
      BY <2>1 DEF Moving
    <3>2. c \in Controls /\ ~c.clean /\ c.connected = f.control.connected
      BY <3>0 DEF Controls
    <3>3. c # None
      BY <3>2, NoneAssumption
    <3> HIDE DEF c
    <3>4. g \in Structs
      BY <3>0, <3>2 DEF Structs
    <3>5. /\ g.control = c /\ g.state = f.state /\ g.operation = f.operation /\ g.data = f.data
          /\ g.live = f.live
      BY <3>0 DEF Structs
    <3> HIDE DEF g, left
    <3>6. Own(g)
      BY <1>0, <2>1, <3>3, <3>5 DEF Basic, Own
    <3>7. Holds(g) /\ Begins(g)
      BY <1>0, <2>1, <3>2, <3>5 DEF Basic, Holds, Begins, Opened, Early
    <3>8. Basic(g) /\ ~Clean(g)
      BY <3>2, <3>4, <3>5, <3>6, <3>7 DEF Basic, Clean
    <3> QED BY <1>0, <3>1, <3>5, <3>8
  <2>2. CASE ~(ftp.operation \in Moving /\ f.control # None)
    <3>1. left = f
      BY <2>2 DEF Moving
    <3> HIDE DEF left
    <3> SUFFICES ASSUME Clean(f) PROVE Nothing(f.control, f.text) /\ f.data = None
      BY <1>0, <3>1
    <3>2. /\ Clean(ftp) /\ ftp.state = "READY" /\ ftp.operation \notin Moving
          /\ f.control = ftp.control /\ f.text = ftp.text /\ f.data = ftp.data
      BY <1>0, <2>2 DEF Clean, Alike
    <3>3. ftp.operation = "NONE"
      BY <1>0, <3>2, BegunIs DEF FtpInv, Flow
    <3> QED BY <3>2, <3>3 DEF FtpInv, Owed, Sends, Replied
  <2> QED BY <2>1, <2>2
<1> HIDE DEF left
<1>3. ASSUME NEW op \in Sends, NEW tr \in {"NONE", "READ", "WRITE", "LIST"}, NEW v \in Verbs,
             SendThen([left EXCEPT !.operation = op, !.transfer = tr, !.verb = v], v,
                      "SIMPLE_REPLY")
      PROVE  FtpInv'
  <2> DEFINE g == [left EXCEPT !.operation = op, !.transfer = tr, !.verb = v]
  <2>1. left \in Structs /\ op \in Ops
    BY <1>2 DEF Basic, Ops
  <2>2. g \in Structs /\ Alike(left, g) /\ g.operation = op
    BY <2>1 DEF Structs, Alike
  <2> HIDE DEF g
  <2>3. Basic(g)
    BY <1>2, <2>2, AlikeBasic DEF Sends, Opened, Alike, Early
  <2>4. Owed(g)
    BY <1>2, <2>2 DEF Owed, Alike, Clean, Sends, Moving, Replied
  <2>5. g.state = "READY"
    BY <1>2, <2>2 DEF Alike
  <2> QED BY <1>0, <1>3, <2>2, <2>3, <2>4, <2>5, SendsCommand DEF g, Replied
<1>4. CASE /\ ftp_is_transfer(param)
           /\ SendThen([left EXCEPT !.operation = "EPSV_SEND", !.transfer = param,
                                    !.verb = param], param, "SIMPLE_REPLY")
  <2>1. /\ param \in {"NONE", "READ", "WRITE", "LIST"} /\ param \in Verbs
        /\ "EPSV_SEND" \in Sends
    BY <1>4 DEF ftp_is_transfer, Verbs, Sends
  <2> QED BY <1>3, <1>4, <2>1
<1>5. CASE SendThen([left EXCEPT !.operation = "SIMPLE_SEND", !.transfer = "NONE",
                                 !.verb = "SIMPLE"], "SIMPLE", "SIMPLE_REPLY")
  <2>1. "SIMPLE" \in Verbs /\ "SIMPLE_SEND" \in Sends
    BY DEF Verbs, Sends
  <2> QED BY <1>3, <1>5, <2>1
<1> QED BY <1>1, <1>4, <1>5 DEF ExecStart, left

\* The reply to a command is taken: the connection owes nothing more.
LEMMA TakesAnswer ==
  ASSUME NEW f, Basic(f), Owed(f), f.state = "READY", f.operation \in Replied, f.text # <<>>
  PROVE  LET u == TakeReply(f) IN
         /\ u \in Structs /\ Basic(u) /\ u.state = "READY" /\ u.operation = f.operation
         /\ Clean(u) => /\ Nothing(u.control, u.text) /\ u.data = None
                        /\ u.lastReply.id = u.control.issued
<1> DEFINE u == TakeReply(f)
<1>1. /\ u \in Structs /\ u.state = f.state /\ u.control = f.control /\ u.data = f.data
      /\ u.operation = f.operation /\ u.lastReply = f.text[1] /\ u.text = Tail(f.text)
      /\ Basic(u)
  BY Takes
<1> HIDE DEF u
<1>2. f.text \in Seq(Replies)
  BY DEF Basic, Structs
<1>3. ASSUME Clean(u)
      PROVE  /\ Nothing(u.control, u.text) /\ u.data = None
             /\ u.lastReply.id = u.control.issued
  <2>1. f.data = None /\ Answered(f.control, f.text)
    BY <1>1, <1>3 DEF Owed, Clean, Asking, Replied, Sends
  <2> QED BY <1>1, <1>2, <2>1, Shorter DEF Answered, Nothing
<1> QED BY <1>1, <1>3 DEF u

\* A simple command ends with its reply.
LEMMA SimpleReplyStep ==
  ASSUME FtpInv, ExecSimpleReply
  PROVE  FtpInv'
<1> DEFINE u == TakeReply(ftp)
           g == [u EXCEPT !.operation = "NONE"]
<1>0. Executing("SIMPLE_REPLY") /\ param' = param /\ scratch' = scratch
  BY DEF ExecSimpleReply, Quiet
<1>1. /\ Polled /\ command = "EXEC" /\ Begun = ftp /\ ftp.operation = "SIMPLE_REPLY"
      /\ ftp.state = "READY" /\ Basic(ftp) /\ Owed(ftp) /\ Inputs
  BY <1>0, AtStep
<1>2. \/ Wait(ftp)
      \/ ftp.text # <<>> /\ Return(g, "OK")
  BY <1>1 DEF ExecSimpleReply, ftp_reply
<1>3. CASE Wait(ftp)
  BY <1>1, <1>3, Waits DEF Wait, Results
<1>4. CASE ftp.text # <<>> /\ Return(g, "OK")
  <2>1. /\ u \in Structs /\ Basic(u) /\ u.state = "READY"
        /\ Clean(u) => /\ Nothing(u.control, u.text) /\ u.data = None
                       /\ u.lastReply.id = u.control.issued
    BY <1>1, <1>4, TakesAnswer DEF Replied
  <2> HIDE DEF u
  <2>2. g \in Structs /\ Alike(u, g) /\ g.operation = "NONE" /\ g.lastReply = u.lastReply
    BY <2>1, Operates DEF Ops
  <2> HIDE DEF g
  <2>3. Basic(g)
    BY <2>1, <2>2, AlikeBasic DEF Opened
  <2>4. Owed(g)
    BY <2>1, <2>2 DEF Owed, Clean, Alike, Moving, Sends, Replied
  <2>5. Clean(g) => g.lastReply.id = g.control.issued
    BY <2>1, <2>2 DEF Clean, Alike
  <2>6. g.operation \in Rest /\ Brings(g, "OK") /\ "OK" \in Results
    BY <2>2 DEF Rest, Brings, Results
  <2> QED BY <1>1, <1>4, <2>3, <2>4, <2>5, <2>6, Returns DEF g
<1> QED BY <1>2, <1>3, <1>4

\* The data connection of a transfer begins with an empty ring.
LEMMA StartsData ==
  ASSUME FtpInv, Polled, Inputs, command = "EXEC", NEW f, Basic(f), f.state = "READY",
         Clean(f) => Nothing(f.control, f.text), ftp_start_data(f)
  PROVE  FtpInv'
<1> DEFINE d == ftp_detach(f, "data")
           g == [d EXCEPT
                   !.operation = "DATA_CONNECT", !.dataConnected = FALSE, !.dataEof = FALSE,
                   !.dataError = FALSE, !.head = 0, !.tail = 0, !.count = 0]
           c == [peer |-> f.address, feeding |-> FALSE, moved |-> 0]
           n == g.live + 1
           h == [g EXCEPT !.data = c, !.live = n]
<1>1. Return(g, "CONNECT") \/ Return(h, "PENDING")
  BY DEF ftp_start_data
<1>2. /\ Basic(d) /\ d.data = None /\ d.state = f.state /\ d.control = f.control
      /\ d.text = f.text /\ d.live = IF f.control = None THEN 0 ELSE 1
  BY DropsData
<1>3. d \in Structs /\ f.address \in Params
  BY <1>2 DEF Basic, Structs
<1> HIDE DEF d
<1>4. g \in Structs
  BY <1>3, Sizes, SMTT(30) DEF Structs, Ops, Opened
<1>5. /\ g.operation = "DATA_CONNECT" /\ g.count = 0 /\ g.head = 0 /\ g.tail = 0
      /\ g.data = d.data /\ g.state = d.state /\ g.control = d.control /\ g.text = d.text
      /\ g.live = d.live
  BY <1>3 DEF Structs
<1>6. c \in Connections /\ c.moved = 0
  BY <1>3 DEF Connections
<1>7. c # None
  BY <1>6, NoneAssumption
<1> HIDE DEF g, c
<1>8. g.live \in Int /\ n \in Int /\ n = g.live + 1
  BY <1>4 DEF Structs
<1> HIDE DEF n
<1>9. h \in Structs
  BY <1>4, <1>6, <1>8, ZenonT(60) DEF Structs
<1>10. /\ h.operation = g.operation /\ h.count = g.count /\ h.head = g.head /\ h.tail = g.tail
       /\ h.data = c /\ h.state = g.state /\ h.control = g.control /\ h.text = g.text
       /\ h.live = n
  BY <1>4 DEF Structs
<1> HIDE DEF h
<1>11. CASE Return(g, "CONNECT")
  <2>1. Own(g)
    BY <1>2, <1>5 DEF Own
  <2>2. Holds(g) /\ Begins(g)
    BY <1>2, <1>5 DEF Basic, Holds, Begins, Early
  <2>3. Basic(g) /\ Brings(g, "CONNECT")
    BY <1>4, <1>5, <2>1, <2>2 DEF Basic, Brings
  <2> QED BY <1>11, <2>3, Returns DEF Results
<1>12. CASE Return(h, "PENDING")
  <2>1. Own(h)
    BY <1>2, <1>5, <1>7, <1>8, <1>10 DEF Own
  <2>2. Holds(h)
    <3>1. 0 % DataCapacity = 0
      BY Sizes
    <3> QED BY <1>5, <1>6, <1>10, <3>1 DEF Holds
  <2>3. Begins(h)
    BY <1>2, <1>5, <1>10 DEF Basic, Begins, Early
  <2>4. Owed(h)
    BY <1>2, <1>5, <1>10 DEF Owed, Clean, Sends, Replied, Moving
  <2>5. Basic(h) /\ Brings(h, "PENDING")
    BY <1>5, <1>9, <1>10, <2>1, <2>2, <2>3 DEF Basic, Brings
  <2> QED BY <1>12, <2>4, <2>5, Returns DEF Results
<1> QED BY <1>1, <1>11, <1>12

\* The reply to EPSV or PASV leads to the data connection, to PASV, or nowhere.
LEMMA PassiveStep ==
  ASSUME FtpInv, ExecEpsvReply \/ ExecPasvReply
  PROVE  FtpInv'
<1> DEFINE u == TakeReply(ftp)
           g == [u EXCEPT !.operation = "PASV_SEND"]
<1>1. /\ Polled /\ command = "EXEC" /\ Begun = ftp /\ ftp.operation \in Replied
      /\ ftp.state = "READY" /\ Basic(ftp) /\ Owed(ftp) /\ Inputs
  <2>1. /\ Executing("EPSV_REPLY") \/ Executing("PASV_REPLY")
        /\ param' = param /\ scratch' = scratch
    BY DEF ExecEpsvReply, ExecPasvReply, Quiet
  <2> QED BY <2>1, AtStep DEF Replied
<1>2. \/ Wait(ftp)
      \/ /\ ftp.text # <<>>
         /\ ftp_start_data(u) \/ Return(g, "PENDING") \/ Return(u, "CONNECT")
  BY <1>1 DEF ExecEpsvReply, ExecPasvReply, ftp_reply
<1>3. CASE Wait(ftp)
  BY <1>1, <1>3, Waits DEF Wait, Results
<1>4. CASE /\ ftp.text # <<>>
           /\ ftp_start_data(u) \/ Return(g, "PENDING") \/ Return(u, "CONNECT")
  <2>1. /\ u \in Structs /\ Basic(u) /\ u.state = "READY" /\ u.operation \in Replied
        /\ Clean(u) => Nothing(u.control, u.text) /\ u.data = None
    BY <1>1, <1>4, TakesAnswer
  <2> HIDE DEF u
  <2>2. CASE ftp_start_data(u)
    BY <1>1, <2>1, <2>2, StartsData
  <2>3. CASE Return(u, "CONNECT")
    <3>1. Brings(u, "CONNECT")
      BY <2>1 DEF Brings, Replied
    <3> QED BY <1>1, <2>1, <2>3, <3>1, Returns DEF Results
  <2>4. CASE Return(g, "PENDING")
    <3>1. g \in Structs /\ Alike(u, g) /\ g.operation = "PASV_SEND"
      BY <2>1, Operates DEF Ops, Sends
    <3> HIDE DEF g
    <3>2. Basic(g)
      BY <2>1, <3>1, AlikeBasic DEF Opened, Alike, Early
    <3>3. Owed(g)
      BY <2>1, <3>1 DEF Owed, Clean, Alike, Moving, Sends, Replied
    <3>4. Brings(g, "PENDING")
      BY <3>1 DEF Brings
    <3> QED BY <1>1, <2>4, <3>2, <3>3, <3>4, Returns DEF g, Results
  <2> QED BY <1>4, <2>2, <2>3, <2>4
<1> QED BY <1>2, <1>3, <1>4

\* The data connection is there: the transfer command goes out.
LEMMA ConnectStep ==
  ASSUME FtpInv, ExecDataConnect
  PROVE  FtpInv'
<1> DEFINE g == [ftp EXCEPT !.operation = "TRANSFER_SEND"]
<1>1. /\ Polled /\ command = "EXEC" /\ Begun = ftp /\ ftp.operation = "DATA_CONNECT"
      /\ ftp.state = "READY" /\ Basic(ftp) /\ Owed(ftp) /\ ftp \in Structs
      /\ param' = param /\ scratch' = scratch => Inputs
  BY AtStep DEF ExecDataConnect
<1>2. \/ Quiet /\ (Wait(ftp) \/ Return(ftp, "CONNECT"))
      \/ SendThen(g, ftp.verb, "TRANSFER_REPLY")
  BY <1>1 DEF ExecDataConnect
<1>3. CASE Quiet /\ (Wait(ftp) \/ Return(ftp, "CONNECT"))
  BY <1>1, <1>3, Waits DEF Wait, Results, Quiet
<1>4. CASE SendThen(g, ftp.verb, "TRANSFER_REPLY")
  <2>1. g \in Structs /\ Alike(ftp, g) /\ g.operation = "TRANSFER_SEND"
    BY <1>1, Operates DEF Ops, Opened
  <2>2. ftp.verb \in Verbs
    BY <1>1 DEF Structs
  <2> HIDE DEF g
  <2>3. Basic(g) /\ g.state = "READY"
    BY <1>1, <2>1, AlikeBasic DEF Alike, Early
  <2>4. Owed(g)
    BY <1>1, <2>1 DEF Owed, Clean, Alike, Moving, Sends, Replied
  <2> QED BY <1>1, <1>4, <2>1, <2>2, <2>3, <2>4, SendsCommand
<1> QED BY <1>2, <1>3, <1>4

\* The reply to the transfer command: the transfer starts, or is over.
LEMMA TransferReplyStep ==
  ASSUME FtpInv, ExecTransferReply
  PROVE  FtpInv'
<1> DEFINE u == TakeReply(ftp)
           d == ftp_detach(u, "data")
           o == IF ftp.transfer = "WRITE" THEN "WRITE" ELSE "READ"
           g == [d EXCEPT !.operation = "NONE", !.transfer = "NONE"]
           h == [u EXCEPT !.operation = o]
<1>0. Executing("TRANSFER_REPLY") /\ param' = param /\ scratch' = scratch
  BY DEF ExecTransferReply, Quiet
<1>1. /\ Polled /\ command = "EXEC" /\ Begun = ftp /\ ftp.operation = "TRANSFER_REPLY"
      /\ ftp.state = "READY" /\ Basic(ftp) /\ Owed(ftp) /\ Inputs /\ ftp.text \in Seq(Replies)
  BY <1>0, AtStep
<1>2. \/ Wait(ftp)
      \/ ftp.text # <<>> /\ Code(ftp) # 150 /\ Return(g, "OK")
      \/ ftp.text # <<>> /\ Code(ftp) = 150 /\ Return(h, "OK")
  BY <1>1 DEF ExecTransferReply, ftp_reply
<1>3. CASE Wait(ftp)
  BY <1>1, <1>3, Waits DEF Wait, Results
<1>4. ASSUME ftp.text # <<>>
      PROVE  /\ u \in Structs /\ u.state = ftp.state /\ u.control = ftp.control /\ u.data = ftp.data
             /\ u.count = ftp.count /\ u.operation = ftp.operation /\ u.lastReply = ftp.text[1]
             /\ u.text = Tail(ftp.text) /\ Basic(u) /\ Code(ftp) = ftp.text[1].code
  BY <1>1, <1>4, Takes
<1>5. CASE ftp.text # <<>> /\ Code(ftp) # 150 /\ Return(g, "OK")
  <2>0. /\ u.state = ftp.state /\ u.control = ftp.control /\ u.lastReply = ftp.text[1]
        /\ u.text = Tail(ftp.text) /\ Basic(u) /\ ftp.text[1].code # 150
    BY <1>4, <1>5
  <2> HIDE DEF u
  <2>1. /\ Basic(d) /\ d.data = None /\ d.state = u.state /\ d.control = u.control
        /\ d.text = u.text /\ d.lastReply = u.lastReply
    BY <2>0, DropsData
  <2> HIDE DEF d
  <2>2. d \in Structs
    BY <2>1 DEF Basic
  <2>3. g \in Structs /\ Alike(d, g) /\ g.operation = "NONE" /\ g.lastReply = d.lastReply
    BY <2>2 DEF Structs, Alike, Ops
  <2> HIDE DEF g
  <2>4. Basic(g)
    BY <2>1, <2>3, AlikeBasic DEF Opened
  <2>5. Clean(ftp) => Answered(ftp.control, ftp.text)
    BY <1>1, <1>5, <2>0 DEF Owed, Asking, Accepted, Sends, Replied
  <2>6. Clean(g) => Nothing(g.control, g.text) /\ g.lastReply.id = g.control.issued
    <3>1. Clean(g) => Clean(ftp) /\ g.control = ftp.control
      BY <2>0, <2>1, <2>3 DEF Clean, Alike
    <3>2. g.text = Tail(ftp.text) /\ g.lastReply = ftp.text[1]
      BY <2>0, <2>1, <2>3 DEF Alike
    <3> QED BY <1>1, <2>5, <3>1, <3>2, Shorter DEF Answered, Nothing
  <2>7. Owed(g)
    BY <2>1, <2>3, <2>6 DEF Owed, Alike, Sends, Replied, Moving
  <2>8. g.operation \in Rest /\ Brings(g, "OK") /\ "OK" \in Results
    BY <2>3 DEF Rest, Brings, Results
  <2> QED BY <1>1, <1>5, <2>4, <2>6, <2>7, <2>8, Returns DEF g
<1>6. CASE ftp.text # <<>> /\ Code(ftp) = 150 /\ Return(h, "OK")
  <2>0. /\ u \in Structs /\ u.state = ftp.state /\ u.control = ftp.control /\ u.data = ftp.data
        /\ u.count = ftp.count /\ u.operation = ftp.operation /\ u.lastReply = ftp.text[1]
        /\ u.text = Tail(ftp.text) /\ Basic(u) /\ ftp.text[1].code = 150
    BY <1>4, <1>6
  <2>1. o \in {"READ", "WRITE"} /\ o \in Ops
    BY DEF Ops, Moving
  <2> HIDE DEF u, o
  <2>2. h \in Structs /\ Alike(u, h) /\ h.operation = o /\ h.lastReply = u.lastReply
    BY <2>0, <2>1, Operates
  <2> HIDE DEF h
  <2>3. Basic(h)
    BY <1>1, <2>0, <2>1, <2>2, AlikeBasic DEF Opened, Early, Alike
  <2>4. Clean(ftp) => Accepted(ftp.control, ftp.text)
    BY <1>1, <1>6, <2>0 DEF Owed, Asking, Answered, Sends, Replied
  <2>5. Clean(h) => Ending(h.control, h.text) /\ h.lastReply.id = h.control.issued
    <3>1. Clean(h) => Clean(ftp) /\ h.control = ftp.control
      BY <2>0, <2>2 DEF Clean, Alike
    <3>2. h.text = Tail(ftp.text) /\ h.lastReply = ftp.text[1]
      BY <2>0, <2>2 DEF Alike
    <3> QED BY <1>1, <2>4, <3>1, <3>2, Shorter DEF Accepted, Ending
  <2>6. Owed(h)
    BY <2>1, <2>2, <2>5 DEF Owed, Alike, Sends, Replied, Moving
  <2>7. h.operation \in Rest /\ "OK" \in Results
    BY <2>1, <2>2 DEF Rest, Moving, Results
  <2>8. Brings(h, "OK")
    BY <1>1, <2>0, <2>2 DEF Brings, Basic, Holds, Opened, Alike
  <2> QED BY <1>1, <1>6, <2>3, <2>5, <2>6, <2>7, <2>8, Returns, ZenonT(60) DEF h
<1> QED BY <1>2, <1>3, <1>5, <1>6

\* Requests that find nothing to do.
LEMMA RefusedStep ==
  ASSUME FtpInv, EmptyRequest \/ ExecNotReady \/ ReadNothing \/ WriteNothing
  PROVE  FtpInv'
<1>0. /\ Polled /\ Inputs
  <2>1. pending /\ ppc = "idle" /\ ~cancel /\ param' = param /\ scratch' = scratch
    BY DEF EmptyRequest, ExecNotReady, ReadNothing, WriteNothing, Polling, Quiet
  <2> QED BY <2>1, QuietInputs DEF Polled
<1>1. CASE EmptyRequest
  BY <1>0, <1>1, Waits DEF EmptyRequest, Results
<1>2. CASE ExecNotReady
  <2>1. Return(Begun, "CONNECT") /\ Basic(Begun) /\ (Begun = ftp \/ Begun.operation = "NONE")
    BY <1>2, BegunIs DEF ExecNotReady
  <2> QED BY <1>0, <2>1, Waits, Rests DEF Results
<1>3. CASE ReadNothing
  <2>1. Return(Begun, "PARAM") /\ Begun = ftp
    BY <1>3, BegunIs DEF ReadNothing, Polling
  <2> QED BY <1>0, <2>1, Waits DEF Results
<1>4. CASE WriteNothing
  <2>1. Return(Begun, "PARAM") /\ Begun = ftp
    BY <1>4, BegunIs DEF WriteNothing, Polling
  <2> QED BY <1>0, <2>1, Waits DEF Results
<1> QED BY <1>1, <1>2, <1>3, <1>4

-----------------------------------------------------------------------------
(* The ring.                                                                *)

\* A remainder that has gone once round at most.
LEMMA ModOnce ==
  ASSUME NEW D \in Nat \ {0}, NEW a \in Nat, a < 2 * D
  PROVE  a % D = IF a < D THEN a ELSE a - D
<1>1. CASE a < D
  BY <1>1
<1>2. CASE a >= D
  BY <1>2
<1> QED BY <1>1, <1>2

\* Going round in two steps.
LEMMA ModTwice ==
  ASSUME NEW D \in Nat \ {0}, NEW t \in 0..(D - 1), NEW n \in Nat, NEW k \in Nat, n + k <= D
  PROVE  /\ (t + n) % D \in 0..(D - 1)
         /\ (((t + n) % D) + k) % D = (t + (n + k)) % D
<1> DEFINE a == t + n
           b == t + (n + k)
           x == a % D
<1>1. a \in Nat /\ b \in Nat /\ a < 2 * D /\ b < 2 * D /\ b = a + k
  OBVIOUS
<1> HIDE DEF a, b
<1>2. x = IF a < D THEN a ELSE a - D
  BY <1>1, ModOnce
<1>3. b % D = IF b < D THEN b ELSE b - D
  BY <1>1, ModOnce
<1> HIDE DEF x
<1> DEFINE y == x + k
<1>4. x \in 0..(D - 1) /\ y \in Nat /\ y < 2 * D /\ y = x + k
  BY <1>1, <1>2
<1> HIDE DEF y
<1>5. y % D = IF y < D THEN y ELSE y - D
  BY <1>4, ModOnce
<1>6. y % D = b % D
  BY <1>1, <1>2, <1>3, <1>4, <1>5
<1> QED BY <1>4, <1>6 DEF x, a, b, y

\* How far place p is from place h, going up.
LEMMA ModApart ==
  ASSUME NEW D \in Nat \ {0}, NEW p \in 0..(D - 1), NEW h \in 0..(D - 1)
  PROVE  (p - h) % D = IF p >= h THEN p - h ELSE p - h + D
<1>1. CASE p >= h
  BY <1>1
<1>2. CASE p < h
  BY <1>2
<1> QED BY <1>1, <1>2

\* Two runs of numbers are one.
LEMMA JoinRuns ==
  ASSUME NEW a \in Nat, NEW n \in Nat
  PROVE  [i \in 1..a |-> i] \o [i \in 1..n |-> a + i] = [i \in 1..(a + n) |-> i]
<1> DEFINE s == [i \in 1..a |-> i]
           t == [i \in 1..n |-> a + i]
           u == [i \in 1..(a + n) |-> i]
<1>1. s \in Seq(Int) /\ Len(s) = a /\ t \in Seq(Int) /\ Len(t) = n
  OBVIOUS
<1>2. \A i \in 1..a : s[i] = i
  OBVIOUS
<1>3. \A i \in 1..n : t[i] = a + i
  OBVIOUS
<1> HIDE DEF s, t
<1>4. s \o t \in Seq(Int) /\ Len(s \o t) = a + n
  BY <1>1, ConcatProperties
<1>5. \A i \in 1..(a + n) : (s \o t)[i] = i
  BY <1>1, <1>2, <1>3
<1>6. u \in Seq(Int) /\ Len(u) = a + n
  OBVIOUS
<1>7. \A i \in 1..(a + n) : u[i] = i
  OBVIOUS
<1> HIDE DEF u
<1>8. s \o t = u
  BY <1>4, <1>5, <1>6, <1>7, SeqEqual
<1> QED BY <1>8 DEF s, t, u

-----------------------------------------------------------------------------
(* READ, WRITE and CLOSE.                                                   *)

\* The bytes a READ takes leave the ring in order.
LEMMA ReadBytesStep ==
  ASSUME FtpInv, ReadBytes
  PROVE  FtpInv'
<1> DEFINE D == DataCapacity
           n == ReadCount(ftp)
           tl == (ftp.tail + n) % D
           left == ftp.count - n
           g == [ftp EXCEPT !.tail = tl, !.count = left]
<1>1. Polled /\ command = "READ" /\ Begun = ftp
  BY BegunIs DEF ReadBytes, Reading, Polling, Polled
<1>2. /\ n > 0 /\ scratch' = Taken(ftp, n) /\ param' = n /\ Return(g, "OK")
      /\ ftp.operation = "READ"
  BY <1>1 DEF ReadBytes, Reading
<1>3. /\ ftp \in Structs /\ ftp.count \in 0..D /\ ftp.tail \in 0..(D - 1)
      /\ ftp.ring \in [0..(D - 1) -> Int] /\ Basic(ftp) /\ Owed(ftp) /\ param \in Nat
      /\ D \in Nat \ {0} /\ ftp.head \in 0..(D - 1)
  BY <1>1, Sizes DEF FtpInv, Basic, Structs, Places, Flow, Polled
<1>4. n \in Nat /\ n <= ftp.count
  BY <1>2, <1>3 DEF ReadCount
<1> HIDE DEF n
<1> DEFINE c == ftp.count
<1>c. c \in 0..D /\ n <= c /\ left = c - n
  BY <1>3, <1>4
<1> HIDE DEF c, left
<1>d. left \in 0..D /\ n + left = c /\ n + left <= D /\ left \in Nat
  BY <1>3, <1>4, <1>c
<1>5. tl \in 0..(D - 1)
  BY <1>3, <1>4, <1>d, ModTwice
<1>6. \A k \in Nat : n + k <= D => (tl + k) % D = (ftp.tail + (n + k)) % D
  BY <1>3, <1>4, ModTwice
<1> HIDE DEF tl
<1>7. g \in Structs
  BY <1>3, <1>5, <1>d DEF Structs, Places
<1>8. /\ g.tail = tl /\ g.count = left /\ g.data = ftp.data /\ g.control = ftp.control
      /\ g.state = ftp.state /\ g.operation = ftp.operation /\ g.text = ftp.text
      /\ g.ring = ftp.ring /\ g.head = ftp.head /\ g.live = ftp.live
  BY <1>3 DEF Structs
<1> HIDE DEF g
<1>9. Own(g) /\ Begins(g)
  BY <1>3, <1>8 DEF Basic, Own, Begins
<1>10. ASSUME ftp.data # None
       PROVE  /\ ftp.data.moved \in Nat /\ c <= ftp.data.moved
              /\ ftp.head = (ftp.tail + c) % D
              /\ \A i \in 1..c : ftp.ring[(ftp.tail + (i - 1)) % D] = ftp.data.moved - c + i
  <2>1. ftp.data \in Connections
    BY <1>3, <1>10 DEF Structs
  <2>2. ftp.data.moved \in Nat
    BY <2>1 DEF Connections
  <2> QED BY <1>2, <1>3, <1>10, <2>2 DEF Basic, Holds, c
<1> DEFINE m == ftp.data.moved
<1>11. Holds(g)
  <2> SUFFICES ASSUME ftp.data # None
               PROVE  /\ left <= m
                      /\ ftp.head = (tl + left) % D
                      /\ \A i \in 1..left : ftp.ring[(tl + (i - 1)) % D] = m - left + i
    BY <1>2, <1>8 DEF Holds, Opened
  <2>0. /\ m \in Nat /\ c <= m /\ ftp.head = (ftp.tail + c) % D
        /\ \A i \in 1..c : ftp.ring[(ftp.tail + (i - 1)) % D] = m - c + i
    BY <1>10
  <2> HIDE DEF m
  <2>1. left <= m
    BY <1>4, <1>c, <1>d, <2>0
  <2>2. ftp.head = (tl + left) % D
    BY <1>6, <1>d, <2>0
  <2>3. ASSUME NEW i \in 1..left
        PROVE  ftp.ring[(tl + (i - 1)) % D] = m - left + i
    <3> DEFINE j == n + i
    <3>1. j \in 1..c /\ i - 1 \in Nat /\ n + (i - 1) <= D /\ j - 1 = n + (i - 1)
      BY <1>3, <1>4, <1>c, <1>d
    <3>2. (tl + (i - 1)) % D = (ftp.tail + (n + (i - 1))) % D
      BY <1>6, <3>1
    <3>3. m - c + j = m - left + i
      BY <1>3, <1>4, <1>c, <1>d, <2>0
    <3> HIDE DEF j
    <3>4. ftp.ring[(ftp.tail + (j - 1)) % D] = m - c + j
      BY <2>0, <3>1
    <3> QED BY <3>1, <3>2, <3>3, <3>4
  <2> QED BY <2>1, <2>2, <2>3
<1>12. Basic(g)
  BY <1>7, <1>9, <1>11 DEF Basic
<1>13. Owed(g) /\ g.operation \in Rest
  BY <1>2, <1>3, <1>8 DEF Owed, Clean, Rest, Moving
<1>14. scratch' \in Seq(Int)
  <2>1. \A i \in 1..n : (ftp.tail + i - 1) % D \in 0..(D - 1)
    BY <1>3, SMTT(30)
  <2>2. scratch' \in [1..n -> Int]
    BY <1>2, <1>3, <2>1 DEF Taken
  <2> QED BY <1>4, <2>2
<1>15. Inputs
  <2>1. n \in Params
    BY <1>4 DEF Params
  <2> QED BY <1>2, <1>4, <1>14, <2>1 DEF Inputs
<1>16. Brings(g, "OK")
  <2> SUFFICES ASSUME ftp.data # None
               PROVE  received \o scratch' = [i \in 1..(m - left) |-> i]
    BY <1>1, <1>2, <1>8 DEF Brings
  <2>0. /\ m \in Nat /\ c <= m
        /\ \A i \in 1..c : ftp.ring[(ftp.tail + (i - 1)) % D] = m - c + i
    BY <1>10
  <2> DEFINE a == m - c
  <2>2. received \o <<>> = [i \in 1..a |-> i] /\ received \in Seq(Int)
    BY <1>1, <1>2, PolledWaits DEF FtpInv, HostHas, Polled, Mailbox, c
  <2> HIDE DEF m
  <2>1. a \in Nat /\ m - left = a + n
    BY <1>4, <1>c, <1>d, <2>0
  <2>3. scratch' = [i \in 1..n |-> a + i]
    <3>1. ASSUME NEW i \in 1..n
          PROVE  ftp.ring[(ftp.tail + i - 1) % D] = a + i
      <4>1. i \in 1..c /\ ftp.tail + i - 1 = ftp.tail + (i - 1)
        BY <1>3, <1>4, <1>c
      <4> QED BY <2>0, <4>1
    <3>2. scratch' = [i \in 1..n |-> ftp.ring[(ftp.tail + i - 1) % D]]
      BY <1>2 DEF Taken
    <3> HIDE DEF a
    <3> QED BY <3>1, <3>2
  <2> HIDE DEF a
  <2>4. received = [i \in 1..a |-> i]
    BY <2>2, ConcatEmptySeq
  <2> QED BY <1>4, <2>1, <2>3, <2>4, JoinRuns
<1> QED BY <1>1, <1>2, <1>12, <1>13, <1>15, <1>16, Returns DEF g, left, tl, Results

\* The last reply of a transfer ends it.
LEMMA EndsTransfer ==
  ASSUME FtpInv, Polled, Inputs, command # "EXEC", NEW f, Basic(f), Owed(f),
         f.operation \in Moving, f.operation = "READ" \/ Clean(f) => f.data = None,
         ftp_transfer_reply(f)
  PROVE  FtpInv'
<1> DEFINE u == TakeReply(f)
           g == [u EXCEPT !.operation = "NONE", !.transfer = "NONE"]
<1>1. \/ Wait(f)
      \/ f.text # <<>> /\ Return(g, "EOF")
  BY DEF ftp_transfer_reply, ftp_reply
<1>2. CASE Wait(f)
  <2>1. PICK r \in {"TIMEOUT", "PENDING"} : Return(f, r)
    BY <1>2 DEF Wait
  <2>2. Brings(f, r) /\ f.operation \in Rest /\ r \in Results
    BY DEF Brings, Rest, Results
  <2> QED BY <2>1, <2>2, Returns
<1>3. CASE f.text # <<>> /\ Return(g, "EOF")
  <2>0. f.text \in Seq(Replies) /\ f.state # "GREETING"
    BY DEF Basic, Structs, Begins, Early, Moving
  <2>1. /\ u \in Structs /\ u.control = f.control /\ u.data = f.data /\ Basic(u)
        /\ u.lastReply = f.text[1] /\ u.text = Tail(f.text)
    BY <1>3, <2>0, Takes
  <2> HIDE DEF u
  <2>2. g \in Structs /\ Alike(u, g) /\ g.operation = "NONE" /\ g.lastReply = u.lastReply
    BY <2>1 DEF Structs, Alike, Ops
  <2> HIDE DEF g
  <2>3. Basic(g)
    BY <2>1, <2>2, AlikeBasic DEF Opened
  <2>4. /\ g.control = f.control /\ g.data = f.data /\ g.text = Tail(f.text)
        /\ g.lastReply = f.text[1]
    BY <2>1, <2>2 DEF Alike
  <2>5. ASSUME Clean(g)
        PROVE  /\ Nothing(g.control, g.text) /\ g.data = None
               /\ g.lastReply.id = g.control.issued
    <3>1. Clean(f) /\ f.data = None
      BY <2>4, <2>5 DEF Clean
    <3>2. Ending(f.control, f.text)
      BY <3>1 DEF Owed
    <3> QED BY <1>3, <2>0, <2>4, <3>1, <3>2, Shorter DEF Ending, Nothing
  <2>6. Owed(g)
    BY <2>2, <2>5 DEF Owed, Sends, Replied, Moving
  <2>7. g.operation \in Rest /\ Brings(g, "EOF") /\ "EOF" \in Results
    BY <2>2 DEF Rest, Brings, Results
  <2> QED BY <1>3, <2>3, <2>5, <2>6, <2>7, Returns DEF g
<1> QED BY <1>1, <1>2, <1>3

\* A READ with nothing to take waits, fails, or sees the end of the data.
LEMMA ReadEndStep ==
  ASSUME FtpInv, ReadEnd
  PROVE  FtpInv'
<1> DEFINE d == ftp_detach(ftp, "data")
<1>1. /\ Polled /\ command = "READ" /\ Begun = ftp /\ ftp.operation = "READ"
  BY BegunIs DEF ReadEnd, Reading, Polling, Polled
<1>2. Inputs /\ Basic(ftp) /\ Owed(ftp)
  <2>1. param' = 0 /\ scratch' = scratch /\ 0 \in Params
    BY DEF ReadEnd, Params
  <2> QED BY <2>1 DEF Inputs, FtpInv, Mailbox
<1>3. Return(ftp, "CONNECT") \/ Wait(ftp) \/ ftp_transfer_reply(d)
  BY <1>1 DEF ReadEnd
<1>4. CASE Return(ftp, "CONNECT") \/ Wait(ftp)
  BY <1>1, <1>2, <1>4, Waits DEF Wait, Results
<1>5. CASE ftp_transfer_reply(d)
  <2>1. /\ Basic(d) /\ d.data = None /\ d.state = ftp.state /\ d.operation = ftp.operation
        /\ d.control = ftp.control /\ d.text = ftp.text
    BY <1>2, DropsData
  <2> HIDE DEF d
  <2>2. Owed(d)
    BY <1>1, <1>2, <2>1 DEF Owed, Clean, Moving, Sends, Replied
  <2>3. d.operation \in Moving
    BY <1>1, <2>1 DEF Moving
  <2> QED BY <1>1, <1>2, <1>5, <2>1, <2>2, <2>3, EndsTransfer
<1> QED BY <1>3, <1>4, <1>5

\* The polls of a WRITE.
LEMMA WriteStep ==
  ASSUME FtpInv, WriteFinish \/ WriteClose \/ WriteBytes
  PROVE  FtpInv'
<1>1. /\ Polled /\ command = "WRITE" /\ Begun = ftp /\ param' = param /\ scratch' = scratch
  BY BegunIs DEF WriteFinish, WriteClose, WriteBytes, Writing, Polling, Polled, Quiet
<1>2. /\ Inputs /\ Basic(ftp) /\ Owed(ftp) /\ ftp \in Structs /\ Own(ftp) /\ Flow
  BY <1>1, QuietInputs DEF FtpInv, Basic, Polled
<1>3. CASE WriteFinish
  <2>1. ftp.operation = "WRITE_FINISH" /\ ftp_transfer_reply(ftp)
    BY <1>1, <1>3 DEF WriteFinish
  <2>2. Clean(ftp) => ftp.data = None
    BY <1>2, <2>1 DEF Owed
  <2> QED BY <1>1, <1>2, <2>1, <2>2, EndsTransfer DEF Moving
<1>4. CASE WriteClose
  <2> DEFINE n == ftp.live - 1
             g == [ftp EXCEPT !.data = None, !.live = n, !.operation = "WRITE_FINISH"]
  <2>1. /\ ftp.operation = "WRITE" /\ ftp.data # None
        /\ Wait(ftp) \/ Return(g, "PENDING")
    BY <1>1, <1>4 DEF WriteClose, Writing
  <2>2. CASE Wait(ftp)
    BY <1>1, <1>2, <2>2, Waits DEF Wait, Results
  <2>3. CASE Return(g, "PENDING")
    <3>1. n = (IF ftp.control = None THEN 0 ELSE 1) /\ n \in Int
      BY <1>2, <2>1 DEF Own
    <3> HIDE DEF n
    <3>2. g \in Structs
      BY <1>2, <3>1, ZenonT(60) DEF Structs, Ops, Moving
    <3>3. /\ g.data = None /\ g.live = n /\ g.operation = "WRITE_FINISH" /\ g.state = ftp.state
          /\ g.control = ftp.control /\ g.text = ftp.text
      BY <1>2 DEF Structs
    <3> HIDE DEF g
    <3>4. Own(g)
      BY <3>1, <3>3 DEF Own
    <3>5. Holds(g) /\ Begins(g)
      BY <1>2, <2>1, <3>3 DEF Holds, Begins, Basic
    <3>6. Owed(g)
      BY <1>2, <2>1, <3>3 DEF Owed, Clean, Moving, Sends, Replied
    <3>7. Basic(g) /\ g.operation \in Rest /\ Brings(g, "PENDING")
      BY <3>2, <3>3, <3>4, <3>5 DEF Basic, Rest, Moving, Brings
    <3> QED BY <1>1, <1>2, <2>3, <3>6, <3>7, Returns DEF g, Results
  <2> QED BY <2>1, <2>2, <2>3
<1>5. CASE WriteBytes
  <2> DEFINE n == ftp.data.moved + param
             c == [ftp.data EXCEPT !.moved = n]
             g == [ftp EXCEPT !.data = c]
  <2>1. /\ ftp.operation = "WRITE" /\ ftp.data # None /\ ftp.data \in Connections /\ param \in Nat
    BY <1>1, <1>2, <1>5 DEF WriteBytes, Writing, Structs, Flow, Polled
  <2>2. Wait(ftp) \/ Return(ftp, "PENDING") \/ Return(g, "OK")
    BY <1>1, <1>5 DEF WriteBytes
  <2>3. CASE Wait(ftp) \/ Return(ftp, "PENDING")
    BY <1>1, <1>2, <2>3, Waits DEF Wait, Results
  <2>4. CASE Return(g, "OK")
    <3>1. ftp.data.moved \in Nat
      BY <2>1 DEF Connections
    <3>2. n \in Nat
      BY <2>1, <3>1
    <3> HIDE DEF n
    <3>3. c \in Connections
      BY <2>1, <3>2 DEF Connections
    <3>4. c # None
      BY <3>3, NoneAssumption
    <3> HIDE DEF c
    <3>5. g \in Structs
      BY <1>2, <3>3 DEF Structs
    <3>6. /\ g.data = c /\ g.live = ftp.live /\ g.operation = ftp.operation /\ g.state = ftp.state
          /\ g.control = ftp.control /\ g.text = ftp.text
      BY <1>2 DEF Structs
    <3> HIDE DEF g
    <3>7. Own(g)
      BY <1>2, <2>1, <3>4, <3>6 DEF Own
    <3>8. Holds(g) /\ Begins(g)
      BY <1>2, <2>1, <3>6 DEF Holds, Begins, Basic, Opened
    <3>9. Owed(g)
      BY <1>2, <2>1, <3>6 DEF Owed, Clean, Moving, Sends, Replied
    <3>10. Basic(g) /\ g.operation \in Rest /\ Brings(g, "OK")
      BY <2>1, <3>5, <3>6, <3>7, <3>8 DEF Basic, Rest, Moving, Brings
    <3> QED BY <1>1, <1>2, <2>4, <3>9, <3>10, Returns DEF g, Results
  <2> QED BY <2>2, <2>3, <2>4
<1> QED BY <1>3, <1>4, <1>5

\* CLOSE drops both connections.
LEMMA CloseStep ==
  ASSUME FtpInv, Close
  PROVE  FtpInv'
<1> DEFINE r == [code |-> 221, id |-> 0]
           g == [Blank EXCEPT !.lastReply = r]
<1>1. Polled /\ command = "CLOSE" /\ Inputs /\ Basic(ftp)
  <2>1. /\ ppc = "idle" /\ ~cancel /\ pending /\ command = "CLOSE" /\ param' = param
        /\ scratch' = scratch
    BY DEF Close, Polling, Quiet
  <2> QED BY <2>1, QuietInputs DEF Polled, FtpInv
<1>2. Return(g, "OK")
  BY <1>1, Resets DEF Close
<1>3. Blank \in Structs /\ Basic(Blank)
  BY BlankBasic DEF Basic
<1>4. r \in Replies
  BY DEF Replies
<1> HIDE DEF r
<1>5. g \in Structs /\ Alike(Blank, g) /\ g.operation = Blank.operation
  BY <1>3, <1>4 DEF Structs, Alike
<1> HIDE DEF g
<1>6. Basic(g)
  BY <1>3, <1>5, AlikeBasic
<1>7. g.state \in Early /\ g.operation \in Rest /\ g.data = None
  BY <1>5, BlankBasic DEF Alike, Early, Rest
<1>8. Owed(g) /\ Brings(g, "OK")
  BY <1>6, <1>7, EarlyOwes DEF Brings
<1> QED BY <1>1, <1>2, <1>6, <1>7, <1>8, Returns DEF Results

\* Every poll of a request.
LEMMA ProcessStep ==
  ASSUME FtpInv, ftp_process
  PROVE  FtpInv'
BY OpenStep, GreetingStep, SendStep, StartStep, SimpleReplyStep, PassiveStep, ConnectStep,
   TransferReplyStep, RefusedStep, ReadBytesStep, ReadEndStep, WriteStep, CloseStep
   DEF ftp_process

-----------------------------------------------------------------------------
(* The poll around a request, the FIQ side and the host.                    *)

\* The struct is empty: nothing is owed and nothing is being moved.
LEMMA BlankRests ==
  /\ Basic(Blank) /\ Owed(Blank) /\ Blank.data = None /\ Blank.operation = "NONE" /\ ~Clean(Blank)
  /\ Blank.control = None
BY BlankBasic DEF Owed, Clean

\* A cancelled request is dropped with its session.
LEMMA PollCancelStep ==
  ASSUME FtpInv, PollCancel
  PROVE  FtpInv'
<1>1. /\ ppc = "idle" /\ cancel /\ Basic(ftp) /\ Mailbox /\ Flow
      /\ ftp' = ftp_reset(ftp) /\ pending' = FALSE /\ cancel' = FALSE /\ started' = FALSE
      /\ status' = "ABORT" /\ command' = command /\ param' = param /\ scratch' = scratch
      /\ ppc' = ppc /\ outcome' = outcome /\ hpc' = hpc /\ received' = received
  BY DEF FtpInv, PollCancel, pollVars, hostVars
<1>2. ftp' = Blank
  BY <1>1, Resets
<1>3. Basic(ftp') /\ Owed(ftp') /\ HostHas' /\ ReplyInStep'
  BY <1>1, <1>2, BlankRests DEF HostHas, ReplyInStep
<1>4. Mailbox' /\ Flow'
  BY <1>1, <1>2, BlankRests DEF Mailbox, Flow
<1> QED BY <1>3, <1>4 DEF FtpInv

\* The flags of a finished request are cleared, then the host is told.
LEMMA PollEndStep ==
  ASSUME FtpInv, PollClear \/ PollAnswer
  PROVE  FtpInv'
<1>1. /\ ftp' = ftp /\ cancel' = cancel /\ command' = command /\ param' = param
      /\ scratch' = scratch /\ outcome' = outcome /\ hpc' = hpc /\ received' = received
  BY DEF PollClear, PollAnswer, hostVars
<1>2. Mailbox /\ Flow /\ HostHas
  BY DEF FtpInv
<1>3. CASE PollClear
  <2>1. /\ ppc = "processed" /\ ppc' = "cleared" /\ ~pending' /\ ~started' /\ status' = status
        /\ pending' \in BOOLEAN /\ started' \in BOOLEAN
    BY <1>3 DEF PollClear
  <2>2. Mailbox' /\ Flow'
    BY <1>1, <1>2, <2>1 DEF Mailbox, Flow
  <2>3. HostHas' /\ ReplyInStep'
    BY <1>1, <1>2, <2>1 DEF HostHas, Done, InScratch, ReplyInStep
  <2> QED BY <1>1, <2>2, <2>3 DEF FtpInv
<1>4. CASE PollAnswer
  <2>1. /\ ppc = "cleared" /\ ppc' = "idle" /\ pending' = pending /\ started' = started
        /\ status' = outcome
    BY <1>4 DEF PollAnswer
  <2>2. Mailbox' /\ Flow'
    BY <1>1, <1>2, <2>1 DEF Mailbox, Flow
  <2>3. HostHas' /\ ReplyInStep'
    BY <1>1, <1>2, <2>1 DEF HostHas, Done, InScratch, ReplyInStep, Flow
  <2> QED BY <1>1, <2>2, <2>3 DEF FtpInv
<1> QED BY <1>3, <1>4

\* The host asks.
LEMMA RequestStep ==
  ASSUME FtpInv, NEW a \in Asked, HostRequest(a)
  PROVE  FtpInv'
<1>1. Mailbox /\ Flow /\ HostHas /\ hpc = "idle" /\ ppc = "idle" /\ ~pending
  BY DEF FtpInv, HostRequest, Flow
<1>2. /\ ftp' = ftp /\ cancel' = cancel /\ scratch' = scratch /\ ppc' = ppc /\ outcome' = outcome
      /\ received' = received /\ hpc' = "waiting" /\ pending' = TRUE /\ started' = FALSE
      /\ command' = a[1] /\ param' = a[2] /\ status' = "PENDING"
  BY <1>1 DEF HostRequest, Request, pollVars
<1>3. /\ a[1] \in {"OPEN", "EXEC", "READ", "WRITE", "CLOSE"} /\ a[2] \in Params
      /\ a[1] \in {"READ", "WRITE"} => a[2] \in Nat
  BY Sizes DEF Asked, Params
<1>4. Mailbox'
  BY <1>1, <1>2, <1>3 DEF Mailbox
<1>5. Flow'
  BY <1>1, <1>2, <1>3 DEF Flow
<1>6. HostHas' /\ ReplyInStep'
  BY <1>1, <1>2 DEF HostHas, Done, InScratch, ReplyInStep
<1> QED BY <1>2, <1>4, <1>5, <1>6 DEF FtpInv

\* Escape: a request under way is marked, otherwise the session goes at once.
LEMMA EscapeStep ==
  ASSUME FtpInv, HostEscape
  PROVE  FtpInv'
<1>1. Mailbox /\ Flow /\ HostHas /\ ReplyInStep /\ Basic(ftp) /\ Owed(ftp)
  BY DEF FtpInv
<1>2. /\ hpc = "waiting" /\ hpc' = "cancelling" /\ pending' = pending /\ started' = started
      /\ command' = command /\ param' = param /\ scratch' = scratch /\ ppc' = ppc
      /\ outcome' = outcome /\ received' = received
  BY DEF HostEscape, Cancel, pollVars
<1>3. CASE pending
  <2>1. cancel' = TRUE /\ status' = "PENDING" /\ ftp' = ftp
    BY <1>3 DEF HostEscape, Cancel
  <2>2. Mailbox' /\ Flow'
    BY <1>1, <1>2, <2>1 DEF Mailbox, Flow
  <2>3. HostHas' /\ ReplyInStep'
    BY <1>1, <1>2, <2>1 DEF HostHas, ReplyInStep
  <2> QED BY <1>1, <2>1, <2>2, <2>3 DEF FtpInv
<1>4. CASE ~pending
  <2>1. cancel' = cancel /\ status' = "ABORT" /\ ftp' = ftp_reset(ftp)
    BY <1>4 DEF HostEscape, Cancel
  <2>2. ftp' = Blank
    BY <1>1, <2>1, Resets
  <2>3. Mailbox' /\ Flow'
    BY <1>1, <1>2, <1>4, <2>1, <2>2, BlankRests DEF Mailbox, Flow
  <2>4. HostHas' /\ ReplyInStep' /\ Basic(ftp') /\ Owed(ftp')
    BY <1>2, <2>2, BlankRests DEF HostHas, ReplyInStep
  <2> QED BY <2>3, <2>4 DEF FtpInv
<1> QED BY <1>3, <1>4

\* The host sees the status and takes what a READ left.
LEMMA SeesStep ==
  ASSUME FtpInv, HostSees
  PROVE  FtpInv'
<1>1. Mailbox /\ Flow /\ HostHas
  BY DEF FtpInv
<1>2. /\ hpc \in {"waiting", "cancelling"} /\ ppc = "idle" /\ status # "PENDING" /\ hpc' = "idle"
      /\ ftp' = ftp /\ pending' = pending /\ cancel' = cancel /\ started' = started
      /\ command' = command /\ param' = param /\ scratch' = scratch /\ status' = status
      /\ ppc' = ppc /\ outcome' = outcome
      /\ received' = CASE hpc = "waiting" /\ status = "OK" /\ command = "READ" ->
                            received \o scratch
                       [] hpc = "waiting" /\ status = "OK" /\ command = "EXEC" -> <<>>
                       [] OTHER -> received
  BY DEF HostSees, mailboxVars, pollVars
<1>3. received' \in Seq(Int)
  <2>1. received \o scratch \in Seq(Int) /\ <<>> \in Seq(Int) /\ received \in Seq(Int)
    BY <1>1, ConcatProperties DEF Mailbox
  <2> QED BY <1>2, <2>1
<1>4. Mailbox' /\ Flow'
  BY <1>1, <1>2, <1>3 DEF Mailbox, Flow
<1>5. HostHas'
  <2> SUFFICES ASSUME ftp.operation = "READ", ftp.data # None, ~cancel
               PROVE  received' \o <<>> = [i \in 1..(ftp.data.moved - ftp.count) |-> i]
    BY <1>2 DEF HostHas, InScratch
  <2>0. received' \o <<>> = received' /\ received \o <<>> = received
    BY <1>1, <1>3, ConcatEmptySeq DEF Mailbox
  <2>1. hpc = "waiting"
    BY <1>1, <1>2 DEF Flow
  <2>2. CASE status = "OK" /\ command = "READ"
    <3>1. received' = received \o scratch /\ InScratch = scratch
      BY <1>2, <2>1, <2>2 DEF InScratch
    <3> QED BY <1>1, <2>0, <2>1, <2>2, <3>1 DEF HostHas
  <2>3. CASE status = "OK" /\ command = "EXEC"
    <3>1. received' = <<>> /\ ftp.count = ftp.data.moved
      BY <1>1, <1>2, <2>1, <2>3 DEF HostHas, Done
    <3>2. ftp.count \in Int
      BY DEF FtpInv, Basic, Structs
    <3>3. 1..(ftp.data.moved - ftp.count) = {}
      BY <3>1, <3>2
    <3>4. [i \in 1..(ftp.data.moved - ftp.count) |-> i] = <<>>
      BY <3>3
    <3> QED BY <2>0, <3>1, <3>4
  <2>4. CASE ~(status = "OK" /\ command \in {"READ", "EXEC"})
    <3>1. received' = received /\ InScratch = <<>> /\ ~(command = "EXEC" /\ Done)
      BY <1>2, <2>4 DEF InScratch, Done
    <3> QED BY <1>1, <2>0, <2>1, <3>1 DEF HostHas
  <2> QED BY <2>2, <2>3, <2>4
<1>6. ReplyInStep'
  BY <1>2 DEF ReplyInStep
<1> QED BY <1>2, <1>4, <1>5, <1>6 DEF FtpInv

-----------------------------------------------------------------------------
(* lwIP and the server.                                                     *)

\* A callback changes no operation, and the ring only as the data connection.
LEMMA CallsBack ==
  ASSUME FtpInv, NEW f, Callback(f), Basic(f), Owed(f), f.operation = ftp.operation,
         Clean(f) => Clean(ftp),
         f.data # None => /\ ftp.data # None
                          /\ f.data.moved - f.count = ftp.data.moved - ftp.count
  PROVE  FtpInv'
<1>1. Mailbox /\ Flow /\ HostHas /\ Basic(ftp)
  BY DEF FtpInv
<1>2. /\ ppc = "idle" /\ ftp' = f /\ pending' = pending /\ cancel' = cancel /\ started' = started
      /\ command' = command /\ param' = param /\ scratch' = scratch /\ status' = status
      /\ ppc' = ppc /\ outcome' = outcome /\ hpc' = hpc /\ received' = received
  BY DEF Callback, mailboxVars, pollVars, hostVars
<1>3. Mailbox'
  BY <1>1, <1>2 DEF Mailbox
<1>4. Flow'
  BY <1>1, <1>2 DEF Flow
<1>5. HostHas'
  <2> SUFFICES ASSUME f.operation = "READ", f.data # None, hpc # "cancelling", ~cancel
               PROVE  IF command = "EXEC" /\ hpc = "waiting" /\ Done THEN f.count = f.data.moved
                      ELSE received \o InScratch = [i \in 1..(f.data.moved - f.count) |-> i]
    BY <1>2 DEF HostHas, Done, InScratch
  <2>1. /\ f.count \in Int /\ ftp.count \in Int /\ f.data \in Connections /\ ftp.data \in Connections
    BY <1>1 DEF Basic, Structs
  <2>2. f.data.moved \in Int /\ ftp.data.moved \in Int
    BY <2>1 DEF Connections
  <2>3. ftp.count = ftp.data.moved => f.count = f.data.moved
    BY <2>1, <2>2
  <2> QED BY <1>1, <2>3 DEF HostHas
<1>6. ReplyInStep'
  BY <1>2 DEF ReplyInStep
<1> QED BY <1>2, <1>3, <1>4, <1>5, <1>6 DEF FtpInv

\* A callback that leaves everything the invariants are about.
LEMMA CallsBackAlike ==
  ASSUME FtpInv, NEW f \in Structs, Callback(f), Alike(ftp, f), f.operation = ftp.operation
  PROVE  FtpInv'
<1>1. Basic(ftp) /\ Owed(ftp)
  BY DEF FtpInv
<1>2. Basic(f)
  BY <1>1, AlikeBasic
<1>3. /\ f.state = ftp.state /\ f.control = ftp.control /\ f.data = ftp.data /\ f.text = ftp.text
      /\ f.count = ftp.count
  BY DEF Alike
<1>4. Owed(f) /\ (Clean(f) => Clean(ftp))
  BY <1>1, <1>3 DEF Owed, Clean
<1> QED BY <1>2, <1>3, <1>4, CallsBack

\* A connection that is gone leaves its slot.
LEMMA ControlGone ==
  ASSUME FtpInv, ftp.control # None,
         Callback([ftp EXCEPT !.control = None, !.live = @ - 1, !.state = "ERROR"])
  PROVE  FtpInv'
<1> DEFINE n == ftp.live - 1
           f == [ftp EXCEPT !.control = None, !.live = n, !.state = "ERROR"]
<1>1. Basic(ftp) /\ ftp \in Structs /\ Own(ftp) /\ ftp.control # None /\ Callback(f)
  BY DEF FtpInv, Basic
<1>2. n = (IF ftp.data = None THEN 0 ELSE 1) /\ n \in Int
  BY <1>1 DEF Own
<1> HIDE DEF n
<1>3. f \in Structs
  BY <1>1, <1>2 DEF Structs, States
<1>4. /\ f.control = None /\ f.live = n /\ f.state = "ERROR" /\ f.data = ftp.data
      /\ f.operation = ftp.operation /\ f.ring = ftp.ring /\ f.head = ftp.head
      /\ f.tail = ftp.tail /\ f.count = ftp.count
  BY <1>1 DEF Structs
<1> HIDE DEF f
<1>5. Own(f)
  BY <1>2, <1>4 DEF Own
<1>6. Holds(f)
  BY <1>1, <1>4 DEF Basic, Holds
<1>7. Begins(f) /\ Owed(f) /\ ~Clean(f)
  BY <1>4 DEF Begins, Early, Owed, Clean
<1>8. Basic(f)
  BY <1>3, <1>5, <1>6, <1>7 DEF Basic
<1> QED BY <1>1, <1>4, <1>7, <1>8, CallsBack

LEMMA DataGone ==
  ASSUME FtpInv, ftp.data # None,
         Callback([ftp EXCEPT !.data = None, !.live = @ - 1, !.dataError = TRUE])
  PROVE  FtpInv'
<1> DEFINE n == ftp.live - 1
           f == [ftp EXCEPT !.data = None, !.live = n, !.dataError = TRUE]
<1>1. Basic(ftp) /\ Owed(ftp) /\ ftp \in Structs /\ Own(ftp) /\ ftp.data # None /\ Callback(f)
  BY DEF FtpInv, Basic
<1>2. n = (IF ftp.control = None THEN 0 ELSE 1) /\ n \in Int
  BY <1>1 DEF Own
<1> HIDE DEF n
<1>3. f \in Structs
  BY <1>1, <1>2 DEF Structs
<1>4. /\ f.data = None /\ f.live = n /\ f.state = ftp.state /\ f.control = ftp.control
      /\ f.operation = ftp.operation /\ f.text = ftp.text
  BY <1>1 DEF Structs
<1> HIDE DEF f
<1>5. Own(f) /\ Holds(f)
  BY <1>2, <1>4 DEF Own, Holds
<1>6. Begins(f)
  BY <1>1, <1>4 DEF Basic, Begins
<1>7. Owed(f) /\ (Clean(f) => Clean(ftp))
  BY <1>1, <1>4 DEF Owed, Clean
<1>8. Basic(f)
  BY <1>3, <1>5, <1>6 DEF Basic
<1> QED BY <1>1, <1>4, <1>7, <1>8, CallsBack

\* Callbacks that set flags of the struct, or report a connection that is gone.
LEMMA FlagStep ==
  ASSUME FtpInv, \/ \E h \in Hosts, found \in BOOLEAN : ftp_dns_found(h, found)
                 \/ ftp_data_connected \/ DataFin \/ DataReceiveError
                 \/ ftp_data_error \/ ftp_control_error
  PROVE  FtpInv'
<1>0. ftp \in Structs
  BY DEF FtpInv, Basic
<1>1. ASSUME NEW h \in Hosts, NEW found \in BOOLEAN, ftp_dns_found(h, found) PROVE FtpInv'
  <2> DEFINE f == [ftp EXCEPT !.dnsDone = TRUE, !.dnsOk = TRUE, !.address = h]
             g == [ftp EXCEPT !.dnsDone = TRUE]
  <2>1. Callback(f) \/ Callback(g)
    BY <1>1 DEF ftp_dns_found
  <2>2. h \in Params
    BY DEF Params
  <2>3. f \in Structs /\ Alike(ftp, f) /\ f.operation = ftp.operation
    BY <1>0, <2>2 DEF Structs, Alike
  <2>4. g \in Structs /\ Alike(ftp, g) /\ g.operation = ftp.operation
    BY <1>0 DEF Structs, Alike
  <2> HIDE DEF f, g
  <2> QED BY <2>1, <2>3, <2>4, CallsBackAlike
<1>2. CASE ftp_data_connected
  <2> DEFINE f == [ftp EXCEPT !.dataConnected = TRUE]
  <2>1. ftp.data # None
        /\ \/ Callback(f)
           \/ Callback([ftp EXCEPT !.data = None, !.live = @ - 1, !.dataError = TRUE])
    BY <1>2 DEF ftp_data_connected
  <2>2. f \in Structs /\ Alike(ftp, f) /\ f.operation = ftp.operation
    BY <1>0 DEF Structs, Alike
  <2> HIDE DEF f
  <2> QED BY <2>1, <2>2, CallsBackAlike, DataGone
<1>3. CASE DataFin \/ DataReceiveError
  <2> DEFINE f == [ftp EXCEPT !.dataEof = TRUE]
             g == [ftp EXCEPT !.dataError = TRUE]
  <2>1. Callback(f) \/ Callback(g)
    BY <1>3 DEF DataFin, DataReceiveError
  <2>2. f \in Structs /\ Alike(ftp, f) /\ f.operation = ftp.operation
    BY <1>0 DEF Structs, Alike
  <2>3. g \in Structs /\ Alike(ftp, g) /\ g.operation = ftp.operation
    BY <1>0 DEF Structs, Alike
  <2> HIDE DEF f, g
  <2> QED BY <2>1, <2>2, <2>3, CallsBackAlike
<1>4. CASE ftp_data_error
  BY <1>4, DataGone DEF ftp_data_error
<1>5. CASE ftp_control_error
  BY <1>5, ControlGone DEF ftp_control_error
<1> QED BY <1>1, <1>2, <1>3, <1>4, <1>5

\* The connection is made, or not.
LEMMA ConnectedStep ==
  ASSUME FtpInv, ftp_control_connected
  PROVE  FtpInv'
<1> DEFINE c == [ftp.control EXCEPT !.connected = TRUE]
           f == [ftp EXCEPT !.control = c, !.state = "GREETING"]
<1>1. /\ Basic(ftp) /\ ftp \in Structs /\ ftp.control # None /\ ~ftp.control.connected
      /\ \/ Callback(f)
         \/ Callback([ftp EXCEPT !.control = None, !.live = @ - 1, !.state = "ERROR"])
  BY DEF FtpInv, Basic, ftp_control_connected
<1>2. ftp.control \in Controls
  BY <1>1 DEF Structs
<1>3. /\ c \in Controls /\ c.connected /\ c.issued = ftp.control.issued
      /\ c.wire = ftp.control.wire /\ c.owes = ftp.control.owes
      /\ c.clean = ftp.control.clean
  BY <1>2 DEF Controls
<1>4. c # None
  BY <1>3, NoneAssumption
<1> HIDE DEF c
<1>5. f \in Structs
  BY <1>1, <1>3 DEF Structs, States
<1>6. /\ f.state = "GREETING" /\ f.control = c /\ f.data = ftp.data /\ f.text = ftp.text
      /\ f.live = ftp.live /\ f.operation = ftp.operation
  BY <1>1 DEF Structs
<1> HIDE DEF f
<1>7. Own(f)
  BY <1>1, <1>4, <1>6 DEF Basic, Own
<1>8. Begins(f) /\ Holds(f) /\ f.data = None
  BY <1>1, <1>3, <1>6 DEF Basic, Begins, Holds, Early, Opened
<1>9. Basic(f)
  BY <1>5, <1>7, <1>8 DEF Basic
<1>10. Owed(f) /\ (Clean(f) => Clean(ftp))
  BY <1>1, <1>3, <1>6, <1>9, EarlyOwes DEF Early, Clean
<1> QED BY <1>1, <1>6, <1>8, <1>9, <1>10, CallsBack, ControlGone

\* Where place i of a ring that holds c values lies from its head: behind the n
\* next places if it is taken, and among them, in order, if it is not.
LEMMA RingGrows ==
  ASSUME NEW D \in Nat \ {0}, NEW t \in 0..(D - 1), NEW c \in Nat, NEW n \in Nat, c + n <= D,
         NEW h, h = (t + c) % D, NEW i \in 1..(c + n),
         NEW p, p = (t + (i - 1)) % D, NEW k, k = (p - h) % D
  PROVE  /\ p \in 0..(D - 1)
         /\ i <= c => k >= n
         /\ i > c => k = i - 1 - c
<1> DEFINE a == t + c
           b == t + (i - 1)
<1>1. a \in Nat /\ b \in Nat /\ a < 2 * D /\ b < 2 * D /\ b - a = i - 1 - c
  OBVIOUS
<1>2. h = a % D /\ p = b % D
  OBVIOUS
<1> HIDE DEF a, b
<1>3. h = IF a < D THEN a ELSE a - D
  BY <1>1, <1>2, ModOnce
<1>4. p = IF b < D THEN b ELSE b - D
  BY <1>1, <1>2, ModOnce
<1>5. h \in 0..(D - 1) /\ p \in 0..(D - 1)
  BY <1>1, <1>3, <1>4
<1>6. k = IF p >= h THEN p - h ELSE p - h + D
  BY <1>5, ModApart
<1>7. i <= c => k >= n
  BY <1>1, <1>3, <1>4, <1>5, <1>6
<1>8. i > c => k = i - 1 - c
  BY <1>1, <1>3, <1>4, <1>5, <1>6
<1> QED BY <1>5, <1>7, <1>8

\* Received bytes go in behind the bytes that wait in the ring.
LEMMA ReceiveStep ==
  ASSUME FtpInv, NEW n \in 1..Segment, ftp_data_receive(n)
  PROVE  FtpInv'
<1> DEFINE D == DataCapacity
           m == ftp.data.moved
           c == ftp.count
           h == ftp.head
           t == ftp.tail
           ring == ftp.ring
           r == [i \in DOMAIN ring |-> LET k == (i - h) % D IN IF k < n THEN m + k + 1 ELSE ring[i]]
           hd == (h + n) % D
           cn == c + n
           mv == m + n
           d == [ftp.data EXCEPT !.moved = mv]
           f == [ftp EXCEPT !.ring = r, !.head = hd, !.count = cn, !.data = d]
<1>1. Basic(ftp) /\ Owed(ftp) /\ ftp \in Structs /\ ftp.data # None /\ n <= D - c /\ n \in Nat
  BY FtpAssumption DEF FtpInv, Basic, ftp_data_receive
<1>2. Callback(f)
  BY <1>1 DEF ftp_data_receive, Structs
<1>3. /\ ftp.data \in Connections /\ D \in Nat \ {0} /\ h \in 0..(D - 1) /\ t \in 0..(D - 1)
      /\ c \in 0..D /\ ring \in [0..(D - 1) -> Int]
  BY <1>1, Sizes DEF Structs, Places
<1>4. m \in Nat
  BY <1>3 DEF Connections
<1>5. Holds(ftp) /\ Own(ftp) /\ Begins(ftp)
  BY <1>1 DEF Basic
<1> HIDE DEF c, h, t, m
<1>6. mv \in Nat /\ cn \in 0..D /\ c + n <= D /\ c \in Nat /\ mv - cn = m - c
  BY <1>1, <1>3, <1>4
<1>7. hd \in 0..(D - 1)
  BY <1>1, <1>3
<1>8. /\ r \in [0..(D - 1) -> Int]
      /\ \A i \in 0..(D - 1) :
           r[i] = IF (i - h) % D < n THEN m + ((i - h) % D) + 1 ELSE ring[i]
  <2> DEFINE x(i) == (i - h) % D
             v(i) == IF x(i) < n THEN m + x(i) + 1 ELSE ring[i]
  <2>1. \A i \in 0..(D - 1) : x(i) \in Int
    BY <1>3
  <2>2. r = [i \in 0..(D - 1) |-> v(i)]
    BY <1>3
  <2> HIDE DEF x, r, ring
  <2>3. \A i \in 0..(D - 1) : v(i) \in Int
    BY <1>1, <1>3, <1>4, <2>1
  <2>4. \A i \in 0..(D - 1) : v(i) = IF x(i) < n THEN m + x(i) + 1 ELSE ring[i]
    OBVIOUS
  <2> HIDE DEF v
  <2>5. r \in [0..(D - 1) -> Int] /\ \A i \in 0..(D - 1) : r[i] = v(i)
    BY <2>2, <2>3
  <2> QED BY <2>4, <2>5 DEF x
<1> HIDE DEF r, hd, cn, mv
<1>9. d \in Connections /\ d.moved = mv
  BY <1>3, <1>6 DEF Connections
<1>10. d # None
  BY <1>9, NoneAssumption
<1> HIDE DEF d
<1>11. f \in Structs
  BY <1>1, <1>6, <1>7, <1>8, <1>9 DEF Structs, Places
<1>12. /\ f.ring = r /\ f.head = hd /\ f.count = cn /\ f.data = d /\ f.tail = t
       /\ f.state = ftp.state /\ f.control = ftp.control /\ f.operation = ftp.operation
       /\ f.text = ftp.text /\ f.live = ftp.live
  BY <1>1 DEF Structs, t
<1> HIDE DEF f, ring
<1>13. Own(f)
  BY <1>1, <1>5, <1>10, <1>12 DEF Own
<1>14. ftp.state \notin Early
  BY <1>1, <1>5 DEF Begins
<1>15. Begins(f)
  BY <1>1, <1>5, <1>12, <1>14 DEF Begins
<1>16. Holds(f)
  <2> SUFFICES ASSUME ftp.operation \in Opened \cup {"READ"}
               PROVE  /\ cn <= mv
                      /\ hd = (t + cn) % D
                      /\ \A i \in 1..cn : r[(t + (i - 1)) % D] = mv - cn + i
                      /\ ftp.operation \in Opened => cn = mv
    BY <1>9, <1>10, <1>12 DEF Holds
  <2>1. /\ c <= m /\ h = (t + c) % D
        /\ \A i \in 1..c : ring[(t + (i - 1)) % D] = m - c + i
        /\ ftp.operation \in Opened => c = m
    BY <1>1, <1>5 DEF Holds, c, m, h, t, ring
  <2>2. cn <= mv /\ (c = m => cn = mv)
    BY <1>1, <1>3, <1>4, <1>6, <2>1 DEF cn, mv
  <2>3. hd = (t + cn) % D
    BY <1>1, <1>3, <1>6, <2>1, ModTwice, ZenonT(60) DEF hd, cn
  <2>4. ASSUME NEW i \in 1..cn
        PROVE  r[(t + (i - 1)) % D] = mv - cn + i
    <3> DEFINE p == (t + (i - 1)) % D
               k == (p - h) % D
    <3>1. i \in 1..(c + n)
      BY DEF cn
    <3>2. p \in 0..(D - 1) /\ (i <= c => k >= n) /\ (i > c => k = i - 1 - c)
      <4>1. /\ D \in Nat \ {0} /\ t \in 0..(D - 1) /\ c \in Nat /\ n \in Nat /\ c + n <= D
            /\ h = (t + c) % D /\ i \in 1..(c + n)
        BY <1>1, <1>3, <1>6, <2>1, <3>1
      <4>2. p = (t + (i - 1)) % D /\ k = (p - h) % D
        OBVIOUS
      <4> HIDE DEF D, p, k
      <4> QED BY <4>1, <4>2, RingGrows
    <3> HIDE DEF p
    <3>3. r[p] = IF k < n THEN m + k + 1 ELSE ring[p]
      <4> HIDE DEF D
      <4> QED BY <1>8, <3>2
    <3>4. k \in Int
      BY <1>3, <3>2
    <3> HIDE DEF k
    <3>5. CASE i <= c
      <4>1. i \in 1..c
        BY <3>1, <3>5, <1>6
      <4>2. ring[p] = m - c + i
        BY <2>1, <4>1 DEF p
      <4> QED BY <1>1, <1>6, <3>2, <3>3, <3>4, <3>5, <4>2 DEF p
    <3>6. CASE i > c
      <4>1. k < n /\ m + k + 1 = m - c + i
        BY <1>1, <1>4, <1>6, <3>1, <3>2, <3>4, <3>6
      <4> QED BY <1>6, <3>3, <4>1 DEF p
    <3> QED BY <1>6, <3>1, <3>5, <3>6
  <2> QED BY <2>1, <2>2, <2>3, <2>4
<1>17. Basic(f)
  BY <1>11, <1>13, <1>15, <1>16 DEF Basic
<1>18. Owed(f) /\ (Clean(f) => Clean(ftp))
  BY <1>1, <1>10, <1>12 DEF Owed, Clean
<1>19. f.data.moved - f.count = ftp.data.moved - ftp.count
  BY <1>6, <1>9, <1>12 DEF m, c
<1> QED BY <1>1, <1>2, <1>12, <1>17, <1>18, <1>19, CallsBack

\* A reply goes behind the text, or ends the session when the text is full.
LEMMA Hears ==
  ASSUME NEW f \in Structs, NEW code \in Nat, NEW id \in Nat, NEW g,
         g = ftp_control_receive(f, code, id)
  PROVE  /\ g \in Structs
         /\ g.operation = f.operation /\ g.control = f.control /\ g.data = f.data
         /\ g.ring = f.ring /\ g.head = f.head /\ g.tail = f.tail /\ g.count = f.count
         /\ g.live = f.live
         /\ \/ g.state = "ERROR" /\ g.text = f.text /\ Len(f.text) = TextCapacity
            \/ g.state = f.state /\ g.text = Append(f.text, [code |-> code, id |-> id])
<1> DEFINE e == [code |-> code, id |-> id]
           s == Append(f.text, e)
<1>1. f.text \in Seq(Replies) /\ e \in Replies
  BY DEF Structs, Replies
<1>2. s \in Seq(Replies)
  BY <1>1, AppendProperties
<1> HIDE DEF e
<1>3. CASE Len(f.text) = TextCapacity
  <2>1. g = [f EXCEPT !.state = "ERROR"]
    BY <1>3 DEF ftp_control_receive
  <2> QED BY <1>3, <2>1 DEF Structs, States
<1>4. CASE Len(f.text) # TextCapacity
  <2>1. g = [f EXCEPT !.text = s]
    BY <1>4 DEF ftp_control_receive, e
  <2> HIDE DEF s
  <2>2. g \in Structs
    BY <1>2, <2>1 DEF Structs
  <2>3. /\ g.operation = f.operation /\ g.control = f.control /\ g.data = f.data
        /\ g.ring = f.ring /\ g.head = f.head /\ g.tail = f.tail /\ g.count = f.count
        /\ g.live = f.live /\ g.state = f.state /\ g.text = s
    BY <2>1 DEF Structs
  <2> QED BY <2>2, <2>3 DEF s, e
<1> QED BY <1>3, <1>4

\* The server speaks: only the text, the state and what is owed change.
LEMMA Speaks ==
  ASSUME FtpInv, NEW g \in Structs, Callback(g), g.operation = ftp.operation,
         g.ring = ftp.ring, g.head = ftp.head, g.tail = ftp.tail, g.count = ftp.count,
         g.live = ftp.live, ftp.control # None, g.control # None,
         g.control.clean = ftp.control.clean, g.data = None <=> ftp.data = None,
         g.data # None => g.data.moved = ftp.data.moved, Begins(g), Owed(g)
  PROVE  FtpInv'
<1>1. Basic(ftp)
  BY DEF FtpInv
<1>2. Own(g)
  BY <1>1 DEF Basic, Own
<1>3. Holds(g)
  BY <1>1 DEF Basic, Holds
<1>4. Basic(g) /\ (Clean(g) => Clean(ftp))
  BY <1>2, <1>3 DEF Basic, Clean
<1>5. g.data # None => g.data.moved - g.count = ftp.data.moved - ftp.count
  OBVIOUS
<1> QED BY <1>4, <1>5, CallsBack

\* A receive that fails ends the session, and keeps its connection.
LEMMA ReceiveErrorStep ==
  ASSUME FtpInv, ControlReceiveError
  PROVE  FtpInv'
<1> DEFINE g == [ftp EXCEPT !.state = "ERROR"]
<1>1. /\ Basic(ftp) /\ Owed(ftp) /\ ftp \in Structs /\ ftp.control # None
      /\ ftp.control.connected /\ Callback(g)
  BY DEF FtpInv, Basic, ControlReceiveError
<1>2. g \in Structs
  BY <1>1 DEF Structs, States
<1>3. /\ g.state = "ERROR" /\ g.operation = ftp.operation /\ g.control = ftp.control
      /\ g.data = ftp.data /\ g.text = ftp.text /\ g.ring = ftp.ring /\ g.head = ftp.head
      /\ g.tail = ftp.tail /\ g.count = ftp.count /\ g.live = ftp.live
  BY <1>1 DEF Structs
<1> HIDE DEF g
<1>4. Begins(g)
  BY <1>1, <1>3 DEF Begins, Early
<1>5. Owed(g)
  BY <1>1, <1>3 DEF Owed, Clean
<1> QED BY <1>1, <1>2, <1>3, <1>4, <1>5, Speaks

\* A text of one reply, and of one reply more.
LEMMA OneMore ==
  ASSUME NEW s \in Seq(Replies), NEW e \in Replies
  PROVE  /\ s = <<>> => Len(Append(s, e)) = 1 /\ Append(s, e)[1] = e
         /\ Len(s) = 1 => /\ Len(Append(s, e)) = 2 /\ Append(s, e)[1] = s[1]
                          /\ Append(s, e)[2] = e
         /\ Append(s, e) # <<>>
<1>1. /\ Append(s, e) \in Seq(Replies) /\ Len(Append(s, e)) = Len(s) + 1
      /\ \A i \in 1..Len(s) : Append(s, e)[i] = s[i]
      /\ Append(s, e)[Len(s) + 1] = e
  BY AppendProperties
<1>2. s = <<>> => Len(s) = 0
  OBVIOUS
<1>3. Len(s) \in Nat
  OBVIOUS
<1>4. Append(s, e) # <<>>
  BY <1>1, <1>3
<1> DEFINE x == Append(s, e)
           n == Len(s)
<1> HIDE DEF x, n
<1>5. Len(x) = n + 1 /\ n \in Nat /\ x[n + 1] = e /\ \A i \in 1..n : x[i] = s[i]
  BY <1>1, <1>3 DEF x, n
<1>6. n = 0 => Len(x) = 1 /\ x[1] = e
  BY <1>5
<1>7. n = 1 => Len(x) = 2 /\ x[2] = e /\ x[1] = s[1]
  BY <1>5
<1> QED BY <1>2, <1>4, <1>6, <1>7 DEF x, n

\* The server greets once, on a connection that has said nothing.
LEMMA GreetsStep ==
  ASSUME FtpInv, Greets
  PROVE  FtpInv'
<1>1. PICK code \in {220, 421} : Callback(ftp_control_receive(ftp, code, 0))
  BY DEF Greets
<1> DEFINE g == ftp_control_receive(ftp, code, 0)
           e == [code |-> code, id |-> 0]
<1>2. /\ Basic(ftp) /\ Owed(ftp) /\ ftp \in Structs /\ ftp.control # None /\ ftp.state = "GREETING"
      /\ ftp.text = <<>> /\ code \in Nat /\ Begins(ftp)
  BY DEF FtpInv, Basic, Greets
<1>3. Callback(g) /\ g = ftp_control_receive(ftp, code, 0)
  BY <1>1
<1> HIDE DEF g
<1>4. /\ g \in Structs
      /\ g.operation = ftp.operation /\ g.control = ftp.control /\ g.data = ftp.data
      /\ g.ring = ftp.ring /\ g.head = ftp.head /\ g.tail = ftp.tail /\ g.count = ftp.count
      /\ g.live = ftp.live
      /\ \/ g.state = "ERROR"
         \/ g.state = ftp.state /\ g.text = Append(ftp.text, e)
  BY <1>2, <1>3, Hears
<1>5. ftp.text \in Seq(Replies) /\ e \in Replies
  BY <1>2 DEF Structs, Replies
<1> HIDE DEF e
<1>6. Len(Append(ftp.text, e)) = 1
  BY <1>2, <1>5, OneMore
<1>7. Begins(g) /\ g.state # "READY" /\ g.operation = "NONE"
  <2>1. /\ ftp.operation = "NONE" /\ ftp.data = None /\ ftp.control.issued = 0
        /\ ftp.control.wire = <<>> /\ ftp.control.owes = 0 /\ ftp.control.connected
    BY <1>2 DEF Begins, Early
  <2>2. CASE g.state = "ERROR"
    BY <1>4, <2>1, <2>2 DEF Begins, Early
  <2>3. CASE g.state = "GREETING" /\ g.text = Append(ftp.text, e)
    <3>1. Len(g.text) = 1
      BY <1>6, <2>3
    <3> QED BY <1>4, <2>1, <2>3, <3>1 DEF Begins
  <2> QED BY <1>2, <1>4, <2>2, <2>3
<1>8. Owed(g)
  BY <1>7 DEF Owed, Moving
<1> QED BY <1>2, <1>3, <1>4, <1>7, <1>8, Speaks

\* The server finishes a transfer: its last reply waits behind the first one, or
\* alone.
LEMMA FinishesStep ==
  ASSUME FtpInv, ServerFinishes
  PROVE  FtpInv'
<1> DEFINE c == [ftp.control EXCEPT !.owes = 0]
           o == ftp.control.owes
           f == [ftp EXCEPT !.control = c]
           g == ftp_control_receive(f, 226, o)
           e == [code |-> 226, id |-> o]
<1>1. /\ Basic(ftp) /\ Owed(ftp) /\ ftp \in Structs /\ ftp.control # None /\ Begins(ftp)
      /\ ftp.control.owes # 0
  BY DEF FtpInv, Basic, ServerFinishes
<1>2. ftp.control \in Controls
  BY <1>1 DEF Structs
<1>3. o \in Nat
  BY <1>2 DEF Controls
<1>4. Callback(g)
  BY <1>1 DEF ServerFinishes
<1>5. /\ c \in Controls /\ c.owes = 0 /\ c.wire = ftp.control.wire
      /\ c.issued = ftp.control.issued /\ c.clean = ftp.control.clean
      /\ c.connected = ftp.control.connected
  BY <1>2 DEF Controls
<1>6. c # None
  BY <1>5, NoneAssumption
<1> HIDE DEF c, o
<1>7. f \in Structs
  BY <1>1, <1>5 DEF Structs
<1>8. /\ f.control = c /\ f.operation = ftp.operation /\ f.data = ftp.data /\ f.state = ftp.state
      /\ f.ring = ftp.ring /\ f.head = ftp.head /\ f.tail = ftp.tail /\ f.count = ftp.count
      /\ f.live = ftp.live /\ f.text = ftp.text
  BY <1>1 DEF Structs
<1>9. g = ftp_control_receive(f, 226, o)
  OBVIOUS
<1> HIDE DEF f, g
<1>10. /\ g \in Structs
       /\ g.operation = ftp.operation /\ g.control = c /\ g.data = ftp.data
       /\ g.ring = ftp.ring /\ g.head = ftp.head /\ g.tail = ftp.tail /\ g.count = ftp.count
       /\ g.live = ftp.live
       /\ \/ g.state = "ERROR" /\ g.text = ftp.text /\ Len(ftp.text) = TextCapacity
          \/ g.state = ftp.state /\ g.text = Append(ftp.text, e)
  <2>1. 226 \in Nat
    OBVIOUS
  <2>2. /\ g \in Structs
        /\ g.operation = f.operation /\ g.control = f.control /\ g.data = f.data
        /\ g.ring = f.ring /\ g.head = f.head /\ g.tail = f.tail /\ g.count = f.count
        /\ g.live = f.live
        /\ \/ g.state = "ERROR" /\ g.text = f.text /\ Len(f.text) = TextCapacity
           \/ g.state = f.state /\ g.text = Append(f.text, [code |-> 226, id |-> o])
    BY <1>3, <1>7, <1>9, <2>1, Hears
  <2> QED BY <1>8, <2>2
<1>11. ftp.text \in Seq(Replies) /\ e \in Replies /\ e.id = o
  BY <1>1, <1>3 DEF Structs, Replies
<1> HIDE DEF e
<1>12. ftp.state \notin Early /\ g.state \notin Early /\ ftp.control.connected
  BY <1>1, <1>10 DEF Begins, Early
<1>13. Begins(g)
  BY <1>5, <1>10, <1>12 DEF Begins
<1>14. ASSUME ftp.text = <<>> PROVE g.state = ftp.state /\ Len(g.text) = 1 /\ g.text[1].id = o
  <2>1. Len(ftp.text) # TextCapacity
    BY <1>14, FtpAssumption
  <2> QED BY <1>10, <1>11, <1>14, <2>1, OneMore, ZenonT(60)
<1>15. Owed(g)
  <2> SUFFICES ASSUME Clean(g) PROVE Owed(g)
    BY DEF Owed
  <2>1. Clean(ftp)
    BY <1>1, <1>5, <1>10 DEF Clean
  <2>2. CASE ftp.operation \in Moving
    <3>1. Ending(ftp.control, ftp.text) /\ (ftp.operation = "WRITE_FINISH" => ftp.data = None)
      BY <1>1, <2>1, <2>2 DEF Owed
    <3>2. ftp.text = <<>> /\ o = ftp.control.issued /\ ftp.control.wire = <<>>
      BY <1>1, <3>1 DEF Ending, o
    <3>3. Ending(c, g.text)
      BY <1>5, <1>14, <3>2 DEF Ending
    <3> QED BY <1>10, <2>2, <3>1, <3>3 DEF Owed, Moving, Sends, Replied
  <2>3. CASE ftp.operation \notin Moving /\ g.state = "READY"
    <3>1. ftp.state = "READY" /\ g.text = Append(ftp.text, e)
      BY <1>10, <2>3
    <3>2. ftp.operation = "TRANSFER_REPLY" /\ Accepted(ftp.control, ftp.text)
      <4>1. ftp.operation \in Ops
        BY <1>1 DEF Structs
      <4> QED BY <1>1, <2>1, <2>3, <3>1, <4>1
              DEF Owed, Nothing, Asking, Answered, Sends, Replied, Ops, Opened, Moving
    <3>3. /\ Len(ftp.text) = 1 /\ ftp.control.wire = <<>> /\ o = ftp.control.issued
          /\ ftp.text[1].id = ftp.control.issued /\ ftp.text[1].code = 150
      BY <1>1, <3>2 DEF Accepted, o
    <3>4. Len(g.text) = 2 /\ g.text[1] = ftp.text[1] /\ g.text[2] = e /\ g.text # <<>>
      BY <1>11, <3>1, <3>3, OneMore
    <3>5. Accepted(c, g.text)
      BY <1>5, <1>11, <3>3, <3>4 DEF Accepted
    <3> QED BY <1>10, <2>3, <3>2, <3>5 DEF Owed, Moving, Sends, Replied
  <2>4. CASE ftp.operation \notin Moving /\ g.state # "READY"
    BY <1>10, <2>4 DEF Owed, Moving
  <2> QED BY <2>2, <2>3, <2>4
<1> QED BY <1>1, <1>4, <1>5, <1>6, <1>10, <1>13, <1>15, Speaks

\* A transfer is accepted only on a data connection.
LEMMA NeedsData ==
  ASSUME NEW verb, 150 \in Codes(verb)
  PROVE  ftp.data # None
BY DEF Codes

\* The server answers the oldest command; where it accepts a transfer it owes
\* another reply.
LEMMA RepliesStep ==
  ASSUME FtpInv, NEW code \in {150, 200, 227, 229, 425, 500}, ServerReplies(code)
  PROVE  FtpInv'
<1> DEFINE q == Head(ftp.control.wire)
           id == q.id
           rest == Tail(ftp.control.wire)
           c == [ftp.control EXCEPT !.wire = rest]
           f == [ftp EXCEPT !.control = c]
           g == ftp_control_receive(f, code, id)
           h == [g EXCEPT !.data.feeding = (q.verb # "WRITE"), !.control.owes = id]
           e == [code |-> code, id |-> id]
<1>1. /\ Basic(ftp) /\ Owed(ftp) /\ ftp \in Structs /\ ftp.control # None /\ Begins(ftp)
      /\ ftp.control.wire # <<>>
  BY DEF FtpInv, Basic, ServerReplies
<1>2. ftp.control \in Controls
  BY <1>1 DEF Structs
<1>3. ftp.control.wire \in Seq([verb : Verbs, id : Nat])
  BY <1>2 DEF Controls
<1>4. /\ q = ftp.control.wire[1] /\ q \in [verb : Verbs, id : Nat]
      /\ rest \in Seq([verb : Verbs, id : Nat])
  <2> DEFINE S == [verb : Verbs, id : Nat]
             w == ftp.control.wire
  <2>1. w \in Seq(S) /\ w # <<>>
    BY <1>1, <1>3
  <2> HIDE DEF S, w
  <2>2. Head(w) = w[1] /\ Head(w) \in S /\ Tail(w) \in Seq(S)
    BY <2>1
  <2> QED BY <2>2 DEF S, w
<1>5. id \in Nat /\ code \in Nat
  BY <1>4
<1>6. Len(ftp.control.wire) = 1 => rest = <<>>
  <2> SUFFICES ASSUME Len(ftp.control.wire) = 1 PROVE rest = <<>>
    OBVIOUS
  <2>1. Len(rest) = 0
    BY <1>1, <1>3
  <2> QED BY <1>4, <2>1, EmptySeq, ZenonT(60)
<1>7. Callback(IF code = 150 THEN h ELSE g) /\ code \in Codes(q.verb)
  <2>1. f = [ftp EXCEPT !.control.wire = Tail(@)]
    BY <1>1, <1>2 DEF Structs
  <2> HIDE DEF f
  <2> QED BY <2>1 DEF ServerReplies
<1> HIDE DEF rest, id
<1>8. /\ c \in Controls /\ c.owes = ftp.control.owes /\ c.wire = rest
      /\ c.issued = ftp.control.issued /\ c.clean = ftp.control.clean
      /\ c.connected = ftp.control.connected
  BY <1>2, <1>4 DEF Controls
<1>9. c # None
  BY <1>8, NoneAssumption
<1> HIDE DEF c
<1>10. f \in Structs
  BY <1>1, <1>8 DEF Structs
<1>11. /\ f.control = c /\ f.operation = ftp.operation /\ f.data = ftp.data /\ f.state = ftp.state
       /\ f.ring = ftp.ring /\ f.head = ftp.head /\ f.tail = ftp.tail /\ f.count = ftp.count
       /\ f.live = ftp.live /\ f.text = ftp.text
  BY <1>1 DEF Structs
<1>12. g = ftp_control_receive(f, code, id)
  OBVIOUS
<1> HIDE DEF f, g
<1>13. /\ g \in Structs
       /\ g.operation = ftp.operation /\ g.control = c /\ g.data = ftp.data
       /\ g.ring = ftp.ring /\ g.head = ftp.head /\ g.tail = ftp.tail /\ g.count = ftp.count
       /\ g.live = ftp.live
       /\ \/ g.state = "ERROR"
          \/ g.state = ftp.state /\ g.text = Append(ftp.text, e)
  <2>1. /\ g \in Structs
        /\ g.operation = f.operation /\ g.control = f.control /\ g.data = f.data
        /\ g.ring = f.ring /\ g.head = f.head /\ g.tail = f.tail /\ g.count = f.count
        /\ g.live = f.live
        /\ \/ g.state = "ERROR" /\ g.text = f.text /\ Len(f.text) = TextCapacity
           \/ g.state = f.state /\ g.text = Append(f.text, [code |-> code, id |-> id])
    BY <1>5, <1>10, <1>12, Hears
  <2> QED BY <1>11, <2>1
<1>14. ftp.text \in Seq(Replies) /\ e \in Replies /\ e.id = id /\ e.code = code
  BY <1>1, <1>5 DEF Structs, Replies
<1> HIDE DEF e
<1>15. ftp.state \notin Early /\ g.state \notin Early /\ c.connected
  BY <1>1, <1>8, <1>13 DEF Begins, Early
<1>16. ASSUME Clean(ftp)
       PROVE  /\ ftp.operation \notin Moving
              /\ ftp.state = "READY" =>
                   /\ ftp.operation \in Replied \cup {"TRANSFER_REPLY"}
                   /\ Asking(ftp.control, ftp.text)
                   /\ ftp.operation \in Replied => ftp.data = None
  <2>1. ftp.operation \notin Moving
    BY <1>1, <1>16 DEF Owed, Ending
  <2>2. ftp.operation \in Ops
    BY <1>1 DEF Structs
  <2> QED BY <1>1, <1>16, <2>1, <2>2
          DEF Owed, Nothing, Answered, Accepted, Sends, Replied, Ops, Opened, Moving
<1>17. ASSUME Clean(ftp), g.state = "READY"
       PROVE  /\ rest = <<>> /\ ftp.control.owes = 0 /\ Len(g.text) = 1 /\ g.text # <<>>
              /\ g.text[1].id = c.issued /\ g.text[1].code = code
  <2>1. Asking(ftp.control, ftp.text) /\ g.text = Append(ftp.text, e)
    BY <1>13, <1>16, <1>17
  <2>2. id = ftp.control.issued
    BY <1>4, <2>1 DEF Asking, id
  <2>3. Len(g.text) = 1 /\ g.text[1] = e /\ g.text # <<>>
    BY <1>14, <2>1, OneMore DEF Asking
  <2> QED BY <1>6, <1>8, <1>14, <2>1, <2>2, <2>3 DEF Asking
<1>18. CASE code # 150
  <2>1. Callback(g)
    BY <1>7, <1>18
  <2>2. Begins(g)
    BY <1>13, <1>15 DEF Begins
  <2>3. Owed(g)
    <3> SUFFICES ASSUME Clean(g) PROVE Owed(g)
      BY DEF Owed
    <3>1. Clean(ftp)
      BY <1>1, <1>8, <1>13 DEF Clean
    <3>2. CASE g.state = "READY"
      <4>1. Answered(g.control, g.text)
        BY <1>8, <1>13, <1>17, <1>18, <3>1, <3>2 DEF Answered
      <4>2. ftp.state = "READY"
        BY <1>13, <3>2
      <4> QED BY <1>13, <1>16, <3>1, <4>1, <4>2 DEF Owed, Moving, Sends, Replied
    <3>3. CASE g.state # "READY"
      BY <1>13, <1>16, <3>1, <3>3 DEF Owed, Moving
    <3> QED BY <3>2, <3>3
  <2> QED BY <1>1, <1>8, <1>9, <1>13, <2>1, <2>2, <2>3, Speaks
<1>19. CASE code = 150
  <2>1. Callback(h) /\ ftp.data # None
    BY <1>7, <1>19, NeedsData
  <2> DEFINE b == (q.verb # "WRITE")
             d == [g.data EXCEPT !.feeding = b]
             k == [g.control EXCEPT !.owes = id]
             l == [g EXCEPT !.data = d, !.control = k]
  <2>2. h = l
    BY <1>13 DEF Structs
  <2>3. g.data \in Connections /\ g.control \in Controls
    BY <1>8, <1>13, <2>1 DEF Structs
  <2>4. d \in Connections /\ d.moved = ftp.data.moved
    <3>1. b \in BOOLEAN
      OBVIOUS
    <3> HIDE DEF b
    <3> QED BY <1>13, <2>3, <3>1 DEF Connections
  <2>5. /\ k \in Controls /\ k.owes = id /\ k.wire = rest /\ k.issued = c.issued
        /\ k.clean = ftp.control.clean /\ k.connected = c.connected
    BY <1>5, <1>8, <1>13, <2>3 DEF Controls
  <2>6. d # None /\ k # None
    BY <2>4, <2>5, NoneAssumption
  <2> HIDE DEF d, k, h
  <2>7. l \in Structs
    BY <1>13, <2>4, <2>5, ZenonT(60) DEF Structs
  <2>8. /\ l.control = k /\ l.data = d /\ l.operation = g.operation /\ l.state = g.state
        /\ l.ring = g.ring /\ l.head = g.head /\ l.tail = g.tail /\ l.count = g.count
        /\ l.live = g.live /\ l.text = g.text
    BY <1>13 DEF Structs
  <2> HIDE DEF l
  <2>9. Begins(l)
    BY <1>15, <2>5, <2>8 DEF Begins
  <2>10. Owed(l)
    <3> SUFFICES ASSUME Clean(l) PROVE Owed(l)
      BY DEF Owed
    <3>1. Clean(ftp)
      BY <1>1, <2>5, <2>8 DEF Clean
    <3>2. CASE g.state = "READY"
      <4>1. ftp.state = "READY"
        BY <1>13, <3>2
      <4>2. ftp.operation = "TRANSFER_REPLY" /\ Asking(ftp.control, ftp.text)
        BY <1>16, <2>1, <3>1, <4>1
      <4>3. id = ftp.control.issued
        BY <1>4, <4>2 DEF Asking, id
      <4>4. Accepted(k, g.text)
        BY <1>8, <1>17, <1>19, <2>5, <3>1, <3>2, <4>3 DEF Accepted
      <4> QED BY <1>13, <2>8, <4>2, <4>4 DEF Owed, Moving, Sends, Replied
    <3>3. CASE g.state # "READY"
      BY <1>13, <1>16, <2>8, <3>1, <3>3 DEF Owed, Moving
    <3> QED BY <3>2, <3>3
  <2>11. Callback(l)
    BY <2>1, <2>2
  <2> QED BY <1>1, <1>13, <2>1, <2>4, <2>5, <2>6, <2>7, <2>8, <2>9, <2>10, <2>11, Speaks
<1> QED BY <1>18, <1>19

-----------------------------------------------------------------------------
(* The specification.                                                       *)

\* The clock, the address of the WiFi context and the bounds are no part of the
\* invariant.
LEMMA IdleStep ==
  ASSUME FtpInv, TimerExpires \/ AddressReady \/ UNCHANGED vars
  PROVE  FtpInv'
<1>1. /\ ftp' = ftp /\ pending' = pending /\ cancel' = cancel /\ started' = started
      /\ command' = command /\ param' = param /\ scratch' = scratch /\ status' = status
      /\ ppc' = ppc /\ outcome' = outcome /\ hpc' = hpc /\ received' = received
  BY DEF TimerExpires, AddressReady, vars, mailboxVars, pollVars, hostVars
<1>2. Mailbox' /\ Flow'
  BY <1>1 DEF FtpInv, Mailbox, Flow
<1>3. HostHas' /\ ReplyInStep'
  BY <1>1 DEF FtpInv, HostHas, InScratch, Done, ReplyInStep
<1> QED BY <1>1, <1>2, <1>3 DEF FtpInv

\* The service starts with an empty struct and no request.
LEMMA InitStep ==
  ASSUME Init
  PROVE  FtpInv
<1>1. None \in Params
  BY DEF Params
<1>2. Mailbox /\ Flow
  <2>1. <<>> \in Seq(Int)
    OBVIOUS
  <2> QED BY <1>1, <2>1, BlankRests DEF Init, Mailbox, Flow, Results
<1>3. HostHas /\ ReplyInStep
  BY BlankRests DEF Init, HostHas, ReplyInStep
<1> QED BY <1>2, <1>3, BlankRests DEF Init, FtpInv

\* Every step keeps the invariant.
LEMMA FtpStep ==
  ASSUME FtpInv, [Next]_vars
  PROVE  FtpInv'
<1>1. CASE ftp_service_poll
  BY <1>1, ProcessStep, PollCancelStep, PollEndStep DEF ftp_service_poll
<1>2. CASE (\E a \in Asked : HostRequest(a)) \/ HostEscape \/ HostSees
  BY <1>2, RequestStep, EscapeStep, SeesStep
<1>3. CASE Environment
  BY <1>3, FlagStep, ConnectedStep, ReceiveErrorStep, ReceiveStep, IdleStep,
     GreetsStep, FinishesStep, RepliesStep DEF Environment
<1>4. CASE TimerExpires \/ UNCHANGED vars
  BY <1>4, IdleStep
<1> QED BY <1>1, <1>2, <1>3, <1>4 DEF Next

\* The inductive invariant of the FTP service (ftp_service.c with its callbacks).
THEOREM FtpInvariant == Spec => []FtpInv
<1>1. Init => FtpInv
  BY InitStep
<1>2. FtpInv /\ [Next]_vars => FtpInv'
  BY FtpStep
<1> QED BY <1>1, <1>2, PTL DEF Spec

\* Through ftp_reset by the poll and by the FIQ handler, ftp_detach and the error
\* callbacks, every pcb lwIP holds for the service is in a slot, and no slot names
\* a pcb that is gone.
THEOREM FtpSocketsOwned == Spec => []SocketsOwned
<1>1. FtpInv => SocketsOwned
  <2> SUFFICES ASSUME FtpInv PROVE SocketsOwned
    OBVIOUS
  <2> DEFINE S == {slot \in {"control", "data"} : ftp[slot] # None}
  <2>1. Own(ftp)
    BY DEF FtpInv, Basic
  <2>2. CASE ftp.control = None /\ ftp.data = None
    <3>1. S = {}
      BY <2>2
    <3> QED BY <2>1, <2>2, <3>1, FS_EmptySet DEF SocketsOwned, Own
  <2>3. CASE ftp.control # None /\ ftp.data = None
    <3>1. S = {"control"}
      BY <2>3
    <3>2. Cardinality({"control"}) = 1
      BY FS_Singleton
    <3> QED BY <2>1, <2>3, <3>1, <3>2 DEF SocketsOwned, Own
  <2>4. CASE ftp.control = None /\ ftp.data # None
    <3>1. S = {"data"}
      BY <2>4
    <3>2. Cardinality({"data"}) = 1
      BY FS_Singleton
    <3> QED BY <2>1, <2>4, <3>1, <3>2 DEF SocketsOwned, Own
  <2>5. CASE ftp.control # None /\ ftp.data # None
    <3>1. S = {"control"} \cup {"data"}
      BY <2>5
    <3>2. IsFiniteSet({"control"}) /\ Cardinality({"control"}) = 1
      BY FS_Singleton
    <3>3. Cardinality(S) = 2
      <4> DEFINE T == {"control"}
      <4>1. "data" \notin T
        OBVIOUS
      <4>2. IsFiniteSet(T) /\ Cardinality(T) = 1 /\ S = T \cup {"data"}
        BY <3>1, <3>2
      <4> HIDE DEF S, T
      <4>3. Cardinality(T \cup {"data"}) = Cardinality(T) + 1
        BY <4>1, <4>2, FS_AddElement
      <4> QED BY <4>2, <4>3
    <3> QED BY <2>1, <2>5, <3>3 DEF SocketsOwned, Own
  <2> QED BY <2>2, <2>3, <2>4, <2>5
<1> QED BY <1>1, FtpInvariant, PTL

\* While nothing has failed on a control connection and no transfer was abandoned,
\* the reply ftp_reply hands to the user answers the last command ftp_send sent.
THEOREM FtpReplyInStep == Spec => []ReplyInStep
<1>1. FtpInv => ReplyInStep
  BY DEF FtpInv
<1> QED BY <1>1, FtpInvariant, PTL

\* What the host has taken with READ, what waits in the scratch page and what waits
\* in the ring of ftp_data_receive are the first bytes of the file, each once and
\* in order.
THEOREM FtpDownloadInOrder == Spec => []DownloadInOrder
<1>1. FtpInv => DownloadInOrder
  <2> SUFFICES ASSUME FtpInv, ftp.operation = "READ", ftp.data # None, hpc # "cancelling",
                      ~cancel, ~(command = "EXEC" /\ hpc = "waiting")
               PROVE  received \o InScratch \o Waiting = [i \in 1..ftp.data.moved |-> i]
    BY DEF DownloadInOrder
  <2> DEFINE D == DataCapacity
             m == ftp.data.moved
             c == ftp.count
             a == m - c
  <2>1. ftp \in Structs /\ Holds(ftp) /\ HostHas
    BY DEF FtpInv, Basic
  <2>2. ftp.data \in Connections /\ c \in 0..D /\ ftp.tail \in 0..(D - 1) /\ D \in Nat
    BY <2>1, Sizes DEF Structs, Places
  <2>3. m \in Nat
    BY <2>2 DEF Connections
  <2>4. c <= m /\ \A i \in 1..c : ftp.ring[(ftp.tail + (i - 1)) % D] = m - c + i
    BY <2>1 DEF Holds
  <2>5. received \o InScratch = [i \in 1..a |-> i]
    BY <2>1 DEF HostHas
  <2>6. Waiting = [i \in 1..c |-> ftp.ring[(ftp.tail + i - 1) % D]]
    BY DEF Waiting
  <2> HIDE DEF m, c
  <2>7. \A i \in 1..c : ftp.ring[(ftp.tail + i - 1) % D] = a + i
    <3> TAKE i \in 1..c
    <3>1. ftp.tail + i - 1 = ftp.tail + (i - 1)
      BY <2>2
    <3> QED BY <2>4, <3>1
  <2>8. a \in Nat /\ c \in Nat /\ a + c = m
    BY <2>2, <2>3, <2>4
  <2> HIDE DEF a
  <2>9. Waiting = [i \in 1..c |-> a + i]
    BY <2>6, <2>7
  <2>10. [i \in 1..a |-> i] \o [i \in 1..c |-> a + i] = [i \in 1..(a + c) |-> i]
    BY <2>8, JoinRuns
  <2> QED BY <2>5, <2>8, <2>9, <2>10 DEF m
<1> QED BY <1>1, FtpInvariant, PTL
=============================================================================

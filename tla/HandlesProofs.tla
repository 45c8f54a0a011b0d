--------------------------- MODULE HandlesProofs ---------------------------
(***************************************************************************)
(* The network handle, for every set of servers, every length of header,    *)
(* body, request and buffer, and any number of opens.                       *)
(*                                                                         *)
(* One invariant carries the four results.  It says where the bytes of the  *)
(* response are: in the client, in the handle's buffer or still to come     *)
(* from the socket; and whose connection the handle has while it is opened  *)
(* in several requests.  A client that inherited the handle after a reset   *)
(* of the machine is left out, as the properties leave it out.              *)
(***************************************************************************)
EXTENDS NetHandles, SequenceTheorems, TLAPS

Handles ==
  [fd : {None} \cup Sockets, opening : BOOLEAN, opened : BOOLEAN, url : {None} \cup Urls,
   http : BOOLEAN, raw : BOOLEAN, requestSet : BOOLEAN, requestSent : Nat,
   response : Seq(0..BodyLen), headersDone : BOOLEAN, declared : {None} \cup 0..BodyLen,
   bodyRead : Nat]

Clients == [pc : {"closed", "opening", "open", "failed", "ended"}, want : {None} \cup Urls,
            got : Seq(0..BodyLen), eof : BOOLEAN, inherited : BOOLEAN]

\* A connection carries the header and then the body, and no more is taken than
\* has arrived.
Carries(s) ==
  /\ s \in Sockets
  /\ s.header <= Len(s.stream)
  /\ \A i \in 1..Len(s.stream) : s.stream[i] = IF i <= s.header THEN 0 ELSE i - s.header
  /\ s.taken <= s.arrived /\ s.arrived <= Len(s.stream)

HandleOK(h) ==
  /\ h \in Handles
  /\ h.fd # None => Carries(h.fd) /\ h.url \in Urls
  /\ h.opening \/ h.opened => h.fd # None
  /\ ~(h.opening /\ h.opened)

ClientOK(c) == c \in Clients /\ (c.pc = "opening" => c.want \in Urls)

\* Nothing of a response has been seen.
Blank(h) == h.response = <<>> /\ ~h.headersDone /\ h.declared = None /\ h.bodyRead = 0

\* Connection s was made for URL u.
Serves(s, u) == s.peer = u.host /\ (u.scheme # "HTTP" => s.header = 0)

InOrder(got) == \A i \in 1..Len(got) : got[i] = i

\* Where the bytes taken from the socket are.
Account(h, got) ==
  IF h.http /\ ~h.headersDone
  THEN /\ got = <<>> /\ h.bodyRead = 0
       /\ Len(h.response) = h.fd.taken
       /\ \A i \in 1..Len(h.response) : h.response[i] = h.fd.stream[i]
  ELSE IF h.http
  THEN /\ h.fd.header + Len(got) + Len(h.response) = h.fd.taken
       /\ \A i \in 1..Len(h.response) : h.response[i] = Len(got) + i
       /\ h.bodyRead = Len(got)
  ELSE h.fd.header = 0 /\ Len(got) = h.fd.taken

\* A client and the handle it alone has used.
Own(h, c) ==
  /\ c.pc = "closed" => h.fd = None /\ Blank(h) /\ c.got = <<>>
  /\ c.pc = "opening" => /\ ~h.opened /\ Blank(h) /\ c.got = <<>>
                         /\ h.fd # None => /\ h.fd.taken = 0 /\ h.url = c.want
                                           /\ Serves(h.fd, c.want)
  /\ c.pc = "open" => h.opened /\ Serves(h.fd, c.want) /\ Account(h, c.got)
  /\ InOrder(c.got)
  /\ c.eof => /\ c.pc = "ended"
              /\ h.http /\ h.declared # None => Len(c.got) >= h.declared

Joint(h, c) == HandleOK(h) /\ ClientOK(c) /\ (~c.inherited => Own(h, c))

HandlesInv == Joint(handle, client) /\ NoLeak

-----------------------------------------------------------------------------
(* Connections.                                                             *)

\* A part of a sequence.
LEMMA Slice ==
  ASSUME NEW S, NEW q \in Seq(S), NEW m \in Nat, NEW n \in Nat, m <= n, n <= Len(q)
  PROVE  /\ SubSeq(q, m + 1, n) \in Seq(S) /\ Len(SubSeq(q, m + 1, n)) = n - m
         /\ \A i \in 1..(n - m) : SubSeq(q, m + 1, n)[i] = q[m + i]
<1> DEFINE a == m + 1
<1>1. a \in Int /\ n \in Int /\ \A i \in a..n : q[i] \in S
  <2>1. \A i \in a..n : i \in 1..Len(q)
    OBVIOUS
  <2> QED BY <2>1, ElementOfSeq
<1>2. (IF a <= n THEN n - a + 1 ELSE 0) = n - m /\ n - a + 1 = n - m
  OBVIOUS
<1>3. \A i \in 1..(n - m) : a + i - 1 = m + i
  OBVIOUS
<1> HIDE DEF a
<1>4. /\ SubSeq(q, a, n) \in Seq(S) /\ Len(SubSeq(q, a, n)) = n - m
      /\ \A i \in 1..(n - m) : SubSeq(q, a, n)[i] = q[a + i - 1]
  BY <1>1, <1>2, SubSeqProperties
<1> QED BY <1>3, <1>4 DEF a

\* A socket that carries a response is a socket.
LEMMA CarriesIsSome == ASSUME NEW s, Carries(s) PROVE s # None
BY NoneAssumption DEF Carries

\* A change of state, of what arrived or of the peer's end keeps a connection.
LEMMA NetKeeps ==
  ASSUME NEW s, Carries(s), NEW v,
         \/ v = [s EXCEPT !.state = "up"]
         \/ v = [s EXCEPT !.state = "dead"]
         \/ v = [s EXCEPT !.closed = TRUE]
         \/ s.arrived < Len(s.stream) /\ v = [s EXCEPT !.arrived = @ + 1]
  PROVE  /\ Carries(v) /\ v.peer = s.peer /\ v.header = s.header
         /\ v.stream = s.stream /\ v.taken = s.taken
<1>1. s \in Sockets /\ s.arrived \in Nat /\ s.taken \in Nat /\ Len(s.stream) \in Nat
  BY DEF Carries, Sockets
<1>2. v \in Sockets
  <2>1. s.arrived + 1 \in Nat
    BY <1>1
  <2>2. CASE v = [s EXCEPT !.state = "up"] \/ v = [s EXCEPT !.state = "dead"]
    BY <1>1, <2>2 DEF Sockets
  <2>3. CASE v = [s EXCEPT !.closed = TRUE]
    BY <1>1, <2>3 DEF Sockets
  <2>4. CASE v = [s EXCEPT !.arrived = s.arrived + 1]
    BY <1>1, <2>1, <2>4 DEF Sockets
  <2> QED BY <2>2, <2>3, <2>4
<1>3. /\ v.peer = s.peer /\ v.header = s.header /\ v.stream = s.stream /\ v.taken = s.taken
      /\ v.arrived = s.arrived \/ (s.arrived < Len(s.stream) /\ v.arrived = s.arrived + 1)
  BY <1>1 DEF Sockets
<1>4. v.taken <= v.arrived /\ v.arrived <= Len(v.stream)
  BY <1>1, <1>3 DEF Carries
<1> QED BY <1>2, <1>3, <1>4 DEF Carries

\* recv: what comes next in the stream.
LEMMA RecvBytes ==
  ASSUME NEW s, Carries(s), NEW max \in Nat, NEW k \in Recv(s, max)
  PROVE  /\ k \in Nat /\ k > 0
         /\ Received(s, k) \in Seq(0..BodyLen) /\ Len(Received(s, k)) = k
         /\ \A i \in 1..k : /\ Received(s, k)[i] = s.stream[s.taken + i]
                            /\ s.taken + i \in 1..Len(s.stream)
         /\ Carries([s EXCEPT !.taken = @ + k])
<1>1. s \in Sockets /\ s.arrived \in Nat /\ s.taken \in Nat /\ s.stream \in Seq(0..BodyLen)
      /\ Len(s.stream) \in Nat
  BY DEF Carries, Sockets
<1>2. s.taken <= s.arrived /\ s.arrived <= Len(s.stream)
  BY DEF Carries
<1>3. k \in Nat /\ k > 0 /\ s.taken + k <= s.arrived
  <2>1. CASE s.arrived - s.taken < max
    BY <1>1, <2>1 DEF Recv, Waiting
  <2>2. CASE ~(s.arrived - s.taken < max)
    BY <1>1, <2>2 DEF Recv, Waiting
  <2> QED BY <2>1, <2>2
<1>4. s.taken + k \in Nat /\ s.taken <= s.taken + k /\ s.taken + k <= Len(s.stream)
      /\ (s.taken + k) - s.taken = k
  BY <1>1, <1>2, <1>3
<1>5. /\ Received(s, k) \in Seq(0..BodyLen) /\ Len(Received(s, k)) = k
      /\ \A i \in 1..k : Received(s, k)[i] = s.stream[s.taken + i]
  <2> DEFINE n == s.taken + k
             m == s.taken
             q == s.stream
             S == 0..BodyLen
  <2>1. q \in Seq(S) /\ m \in Nat /\ n \in Nat /\ m <= n /\ n <= Len(q) /\ n - m = k
    BY <1>1, <1>4
  <2> HIDE DEF n, m, q, S
  <2>2. /\ SubSeq(q, m + 1, n) \in Seq(S) /\ Len(SubSeq(q, m + 1, n)) = n - m
        /\ \A i \in 1..(n - m) : SubSeq(q, m + 1, n)[i] = q[m + i]
    BY <2>1, Slice
  <2>3. /\ SubSeq(q, m + 1, n) \in Seq(S) /\ Len(SubSeq(q, m + 1, n)) = k
        /\ \A i \in 1..k : SubSeq(q, m + 1, n)[i] = q[m + i]
    BY <2>1, <2>2, Zenon
  <2> QED BY <2>3 DEF Received, n, m, q, S
<1>6. \A i \in 1..k : s.taken + i \in 1..Len(s.stream)
  BY <1>1, <1>3, <1>4
<1>7. Carries([s EXCEPT !.taken = @ + k])
  <2> DEFINE v == [s EXCEPT !.taken = s.taken + k]
  <2>1. v \in Sockets /\ v.taken = s.taken + k /\ v.arrived = s.arrived /\ v.stream = s.stream /\ v.header = s.header
    BY <1>1, <1>4 DEF Sockets
  <2> HIDE DEF v
  <2>2. Carries(v)
    BY <1>2, <1>3, <2>1 DEF Carries
  <2> QED BY <2>2 DEF v
<1> QED BY <1>3, <1>5, <1>6, <1>7

\* What a server sends is the header and then the body.
LEMMA StreamOf ==
  ASSUME NEW m \in Nat, NEW n \in 0..BodyLen
  PROVE  /\ Header(m) \o Body(n) \in Seq(0..BodyLen) /\ Len(Header(m) \o Body(n)) = m + n
         /\ \A i \in 1..(m + n) : (Header(m) \o Body(n))[i] = IF i <= m THEN 0 ELSE i - m
         /\ Body(n) \in Seq(0..BodyLen) /\ Len(Body(n)) = n /\ \A i \in 1..n : Body(n)[i] = i
<1>0. BodyLen \in Nat /\ n \in Nat /\ n <= BodyLen
  BY HandlesAssumption
<1> DEFINE S == 0..BodyLen
           h == Header(m)
           c == Body(n)
<1>1. h \in [1..m -> S] /\ c \in [1..n -> S] /\ (\A i \in 1..m : h[i] = 0) /\ (\A i \in 1..n : c[i] = i)
  BY <1>0 DEF Header, Body
<1> HIDE DEF S, h, c
<1>2. h \in Seq(S) /\ Len(h) = m /\ c \in Seq(S) /\ Len(c) = n
  BY <1>0, <1>1
<1>3. /\ h \o c \in Seq(S) /\ Len(h \o c) = m + n
      /\ \A i \in 1..(m + n) : (h \o c)[i] = IF i <= m THEN h[i] ELSE c[i - m]
  BY <1>2, ConcatProperties
<1>4. \A i \in 1..(m + n) : (i <= m => i \in 1..m) /\ (~(i <= m) => i - m \in 1..n)
  BY <1>0
<1>5. \A i \in 1..(m + n) : (h \o c)[i] = IF i <= m THEN 0 ELSE i - m
  BY <1>1, <1>3, <1>4
<1> QED BY <1>1, <1>2, <1>3, <1>5 DEF S, h, c

\* A connection that is being made, or is there at once.
LEMMA NewConnection ==
  ASSUME NEW u \in Urls, NEW s \in Answers(u.host, u.scheme), NEW state \in {"connecting", "up"},
         NEW v, v = [s EXCEPT !.state = state]
  PROVE  Carries(v) /\ v.taken = 0 /\ Serves(v, u)
<1>0. u.host \in Hosts /\ BodyLen \in Nat /\ HeaderLens \subseteq Nat
  BY HandlesAssumption DEF Urls
<1>1. PICK m \in {0} \cup HeaderLens, n \in 0..BodyLen, ok \in BOOLEAN, d \in {None, BodyLen} :
        s = Answer(u.host, m, n, ok, d) /\ (u.scheme # "HTTP" => m = 0)
  <2>1. CASE u.scheme = "HTTP"
    <3>1. Answers(u.host, u.scheme) = {Answer(u.host, m, n, ok, d) : m \in HeaderLens,
             n \in 0..BodyLen, ok \in BOOLEAN, d \in {None, BodyLen}}
      BY <2>1 DEF Answers
    <3> QED BY <2>1, <3>1
  <2>2. CASE u.scheme # "HTTP"
    <3>1. Answers(u.host, u.scheme) = {Answer(u.host, 0, n, TRUE, None) : n \in 0..BodyLen}
      BY <2>2 DEF Answers
    <3> QED BY <2>2, <3>1
  <2> QED BY <2>1, <2>2
<1>4. d \in {None} \cup 0..BodyLen /\ m \in Nat /\ m <= m + n /\ 0 <= m + n
  BY <1>0
<1> DEFINE q == Header(m) \o Body(n)
<1>2. q \in Seq(0..BodyLen) /\ Len(q) = m + n /\ \A i \in 1..(m + n) : q[i] = IF i <= m THEN 0 ELSE i - m
  BY <1>4, StreamOf
<1>3. s = [peer |-> u.host, state |-> "connecting", header |-> m, stream |-> q,
           ok |-> ok, declared |-> d, arrived |-> 0, taken |-> 0, closed |-> FALSE]
  BY <1>1 DEF Answer
<1> HIDE DEF q
<1>5. s \in Sockets
  BY <1>0, <1>2, <1>3, <1>4 DEF Sockets
<1>6. v \in Sockets
  BY <1>5 DEF Sockets
<1>7. v.peer = u.host /\ v.header = m /\ v.stream = q /\ v.arrived = 0 /\ v.taken = 0
  BY <1>3, <1>5 DEF Sockets
<1> QED BY <1>1, <1>2, <1>4, <1>6, <1>7 DEF Carries, Serves

-----------------------------------------------------------------------------
(* Opening.                                                                 *)

\* The parts of a handle that Own looks at, besides its flags.
SameBytes(g, h) ==
  /\ g.response = h.response /\ g.headersDone = h.headersDone
  /\ g.declared = h.declared /\ g.bodyRead = h.bodyRead

\* The outcome p of one request to open, with handle g for handle h.
LEMMA Outcome ==
  ASSUME NEW h, NEW c, Joint(h, c), c.pc = "opening", NEW p \in {"opening", "open", "failed"},
         NEW g, HandleOK(g), SameBytes(g, h), g.fd = h.fd, g.url = h.url,
         p = "opening" => ~g.opened \/ c.inherited,
         p = "open" => g.opened /\ (~c.inherited => (g.http <=> c.want.scheme = "HTTP"))
  PROVE  Joint(g, [c EXCEPT !.pc = p])
<1> DEFINE d == [c EXCEPT !.pc = p]
<1>1. c \in Clients /\ c.want \in Urls
  BY DEF Joint, ClientOK
<1>2. d \in Clients /\ d.pc = p /\ d.want = c.want /\ d.got = c.got /\ d.eof = c.eof /\ d.inherited = c.inherited
  BY <1>1 DEF Clients
<1> HIDE DEF d
<1>3. ClientOK(d)
  BY <1>1, <1>2 DEF ClientOK
<1>4. ASSUME ~d.inherited PROVE Own(g, d)
  <2>1. Own(h, c) /\ ~c.eof /\ c.got = <<>> /\ InOrder(c.got) /\ Blank(h) /\ ~h.opened
    BY <1>2, <1>4 DEF Joint, Own
  <2>2. h.fd # None => h.fd.taken = 0 /\ h.url = c.want /\ Serves(h.fd, c.want)
    BY <2>1 DEF Own
  <2>3. Blank(g) /\ g.bodyRead = 0 /\ g.response = <<>>
    BY <2>1 DEF Blank, SameBytes
  <2>4. p = "open" => g.opened /\ Serves(g.fd, c.want) /\ Account(g, c.got)
    <3> SUFFICES ASSUME p = "open" PROVE Serves(g.fd, c.want) /\ Account(g, c.got)
      OBVIOUS
    <3>1. g.fd # None /\ g.opened /\ (g.http <=> c.want.scheme = "HTTP")
      BY <1>2, <1>4 DEF HandleOK
    <3>2. Serves(g.fd, c.want) /\ g.fd.taken = 0
      BY <2>2, <3>1
    <3>3. Len(<<>>) = 0 /\ ~g.headersDone
      BY <2>3 DEF Blank
    <3>4. ~g.http => g.fd.header = 0
      BY <3>1, <3>2 DEF Serves
    <3> QED BY <2>1, <2>3, <3>2, <3>3, <3>4 DEF Account
  <2>5. p = "opening" => /\ ~g.opened /\ Blank(g) /\ c.got = <<>>
                         /\ g.fd # None => /\ g.fd.taken = 0 /\ g.url = c.want /\ Serves(g.fd, c.want)
    BY <1>2, <1>4, <2>1, <2>2, <2>3
  <2> QED BY <1>2, <2>1, <2>4, <2>5 DEF Own
<1> QED BY <1>3, <1>4 DEF Joint, d

\* What Replied does to the client.
LEMMA RepliedIs ==
  /\ Replied("OK") => client' = [client EXCEPT !.pc = "open"]
  /\ Replied("PENDING") => client' = [client EXCEPT !.pc = "opening"]
  /\ \A r \in {"CONN", "DNS", "PARAM"} : Replied(r) => client' = [client EXCEPT !.pc = "failed"]
BY DEF Replied

\* live_finish_open keeps the connection.
LEMMA FinishOpen ==
  ASSUME NEW h, Joint(h, client), client.pc = "opening", h.fd # None, ~h.opening,
         ~client.inherited => (h.http <=> client.want.scheme = "HTTP"),
         live_finish_open(h)
  PROVE  Joint(handle', client') /\ handle'.fd = h.fd
<1>0. HandleOK(h) /\ h \in Handles
  BY DEF Joint, HandleOK
<1>1. CASE /\ ~h.http
           /\ handle' = [h EXCEPT !.opened = TRUE] /\ Replied("OK")
  <2>1. handle' \in Handles
    BY <1>0, <1>1 DEF Handles
  <2>2. /\ SameBytes(handle', h) /\ handle'.fd = h.fd /\ handle'.url = h.url /\ handle'.http = h.http
        /\ handle'.opened /\ handle'.opening = h.opening
    BY <1>0, <1>1 DEF Handles, SameBytes
  <2>3. HandleOK(handle')
    BY <1>0, <2>1, <2>2 DEF HandleOK
  <2>4. client' = [client EXCEPT !.pc = "open"]
    BY <1>1, RepliedIs
  <2> QED BY <2>2, <2>3, <2>4, Outcome
<1>2. ASSUME h.http, h.requestSent < RequestLen, NEW k \in Sends(h.fd, RequestLen - h.requestSent),
             handle' = [h EXCEPT !.requestSet = TRUE, !.requestSent = h.requestSent + k,
                                 !.opened = (h.requestSent + k = RequestLen)],
             Replied(IF h.requestSent + k = RequestLen THEN "OK" ELSE "PENDING")
      PROVE  Joint(handle', client') /\ handle'.fd = h.fd
  <2> DEFINE sent == h.requestSent + k
  <2>1. sent \in Nat
    <3>1. h.requestSent \in Nat /\ RequestLen \in Nat
      BY <1>0, HandlesAssumption DEF Handles
    <3>2. k \in Nat
      BY <1>2, <3>1 DEF Sends
    <3> QED BY <3>1, <3>2
  <2> HIDE DEF sent
  <2>2. CASE sent = RequestLen
    <3>1. handle' = [h EXCEPT !.requestSet = TRUE, !.requestSent = sent, !.opened = TRUE]
      <4>1. (sent = RequestLen) = TRUE
        BY <2>2
      <4> QED BY <1>2, <4>1 DEF sent
    <3>2. handle' \in Handles
      BY <1>0, <2>1, <3>1 DEF Handles
    <3>3. /\ SameBytes(handle', h) /\ handle'.fd = h.fd /\ handle'.url = h.url /\ handle'.http = h.http
          /\ handle'.opened /\ handle'.opening = h.opening
      BY <1>0, <3>1 DEF Handles, SameBytes
    <3>4. HandleOK(handle')
      BY <1>0, <3>2, <3>3 DEF HandleOK
    <3>5. client' = [client EXCEPT !.pc = "open"]
      BY <1>2, <2>2, RepliedIs DEF sent
    <3> QED BY <3>3, <3>4, <3>5, Outcome
  <2>3. CASE sent # RequestLen
    <3>1. handle' = [h EXCEPT !.requestSet = TRUE, !.requestSent = sent, !.opened = FALSE]
      <4>1. (sent = RequestLen) = FALSE
        BY <2>3
      <4> QED BY <1>2, <4>1 DEF sent
    <3>2. handle' \in Handles
      BY <1>0, <2>1, <3>1 DEF Handles
    <3>3. /\ SameBytes(handle', h) /\ handle'.fd = h.fd /\ handle'.url = h.url /\ handle'.http = h.http
          /\ ~handle'.opened /\ handle'.opening = h.opening
      BY <1>0, <3>1 DEF Handles, SameBytes
    <3>4. HandleOK(handle')
      BY <1>0, <3>2, <3>3 DEF HandleOK
    <3>5. client' = [client EXCEPT !.pc = "opening"]
      BY <1>2, <2>3, RepliedIs DEF sent
    <3>6. ~client.inherited => ~h.opened
      BY DEF Joint, Own
    <3> QED BY <3>3, <3>4, <3>5, <3>6, Outcome
  <2> QED BY <2>2, <2>3
<1>3. CASE handle' = [h EXCEPT !.requestSet = TRUE] /\ Replied("CONN")
  <2>1. handle' \in Handles
    BY <1>0, <1>3 DEF Handles
  <2>2. /\ SameBytes(handle', h) /\ handle'.fd = h.fd /\ handle'.url = h.url /\ handle'.http = h.http
        /\ handle'.opened = h.opened /\ handle'.opening = h.opening
    BY <1>0, <1>3 DEF Handles, SameBytes
  <2>3. HandleOK(handle')
    BY <1>0, <2>1, <2>2 DEF HandleOK
  <2>4. client' = [client EXCEPT !.pc = "failed"]
    BY <1>3, RepliedIs
  <2> QED BY <2>2, <2>3, <2>4, Outcome
<1> QED BY <1>1, <1>2, <1>3 DEF live_finish_open

\* The flags of a handle under way, and its socket dropped or made.
LEMMA Underway ==
  ASSUME NEW h, NEW c, Joint(h, c), c.pc = "opening", NEW b \in BOOLEAN
  PROVE  /\ Joint([h EXCEPT !.http = b], c)
         /\ ~h.opened => Joint([h EXCEPT !.opening = FALSE], c)
         /\ ~h.opened => Joint([h EXCEPT !.fd = None, !.opening = FALSE], c)
<1>0. h \in Handles /\ HandleOK(h) /\ ClientOK(c)
  BY DEF Joint, HandleOK
<1>1. Joint([h EXCEPT !.http = b], c)
  <2> DEFINE g == [h EXCEPT !.http = b]
  <2>1. g \in Handles
    BY <1>0 DEF Handles
  <2>2. /\ SameBytes(g, h) /\ g.fd = h.fd /\ g.url = h.url /\ g.opened = h.opened /\ g.opening = h.opening
    BY <1>0 DEF Handles, SameBytes
  <2> HIDE DEF g
  <2>3. HandleOK(g)
    BY <1>0, <2>1, <2>2 DEF HandleOK
  <2>4. ~c.inherited => Own(g, c)
    BY <2>2 DEF Joint, Own, SameBytes, Blank
  <2>5. Joint(g, c)
    BY <1>0, <2>3, <2>4 DEF Joint
  <2> QED BY <2>5 DEF g
<1>2. ASSUME ~h.opened PROVE Joint([h EXCEPT !.opening = FALSE], c)
  <2> DEFINE g == [h EXCEPT !.opening = FALSE]
  <2>1. g \in Handles
    BY <1>0 DEF Handles
  <2>2. /\ SameBytes(g, h) /\ g.fd = h.fd /\ g.url = h.url /\ g.opened = h.opened /\ ~g.opening
    BY <1>0 DEF Handles, SameBytes
  <2> HIDE DEF g
  <2>3. HandleOK(g)
    BY <1>0, <2>1, <2>2 DEF HandleOK
  <2>4. ~c.inherited => Own(g, c)
    BY <2>2 DEF Joint, Own, SameBytes, Blank
  <2>5. Joint(g, c)
    BY <1>0, <2>3, <2>4 DEF Joint
  <2> QED BY <2>5 DEF g
<1>3. ASSUME ~h.opened PROVE Joint([h EXCEPT !.fd = None, !.opening = FALSE], c)
  <2> DEFINE g == [h EXCEPT !.fd = None, !.opening = FALSE]
  <2>1. g \in Handles
    BY <1>0 DEF Handles
  <2>2. /\ SameBytes(g, h) /\ g.fd = None /\ g.url = h.url /\ g.opened = h.opened /\ ~g.opening
    BY <1>0 DEF Handles, SameBytes
  <2> HIDE DEF g
  <2>3. HandleOK(g)
    BY <1>0, <1>3, <2>1, <2>2 DEF HandleOK
  <2>4. ~c.inherited => Own(g, c)
    BY <2>2 DEF Joint, Own, SameBytes, Blank
  <2>5. Joint(g, c)
    BY <1>0, <2>3, <2>4 DEF Joint
  <2> QED BY <2>5 DEF g
<1> QED BY <1>1, <1>2, <1>3

\* The socket of an open request serves the URL the request asked for.
LEMMA Made ==
  ASSUME NEW h, NEW c, Joint(h, c), c.pc = "opening", h.fd = None, h.url \in Urls,
         ~c.inherited => h.url = c.want,
         NEW v, Carries(v), v.taken = 0, Serves(v, h.url), NEW b \in BOOLEAN
  PROVE  Joint([h EXCEPT !.fd = v, !.opening = b], c)
<1>0. h \in Handles /\ HandleOK(h) /\ ClientOK(c) /\ v \in Sockets /\ ~h.opened /\ ~h.opening
  BY DEF Joint, HandleOK, Carries
<1> DEFINE g == [h EXCEPT !.fd = v, !.opening = b]
<1>1. g \in Handles
  BY <1>0 DEF Handles
<1>2. /\ SameBytes(g, h) /\ g.fd = v /\ g.url = h.url /\ g.opened = h.opened
  BY <1>0 DEF Handles, SameBytes
<1> HIDE DEF g
<1>3. HandleOK(g)
  BY <1>0, <1>1, <1>2, CarriesIsSome DEF HandleOK
<1>4. ~c.inherited => Own(g, c)
  BY <1>0, <1>2 DEF Joint, Own, SameBytes, Blank
<1>5. Joint(g, c)
  BY <1>0, <1>3, <1>4 DEF Joint
<1> QED BY <1>5 DEF g

\* What a handle does for the account of sockets.
Counted(h, n) == n = IF h.fd = None THEN 0 ELSE 1

\* One request of live_open, from a handle with the URL to be opened.
LEMMA LiveOpen ==
  ASSUME NEW h0, Joint(h0, client), client.pc = "opening", h0.url \in Urls,
         ~client.inherited => h0.url = client.want,
         Counted(h0, sockets), live_open(h0)
  PROVE  Joint(handle', client') /\ Counted(handle', sockets')
<1> DEFINE u == h0.url
           b == (u.scheme = "HTTP")
           h == [h0 EXCEPT !.http = b]
<1>0. h0 \in Handles /\ HandleOK(h0) /\ b \in BOOLEAN /\ (b <=> u.scheme = "HTTP")
  BY DEF Joint, HandleOK
<1>1. Joint(h, client)
  <2> HIDE DEF b
  <2> QED BY <1>0, Underway
<1>2. /\ h.fd = h0.fd /\ h.url = h0.url /\ h.opening = h0.opening /\ h.opened = h0.opened
      /\ h.http = b
  BY <1>0 DEF Handles
<1>3. ~client.inherited => (h.http <=> client.want.scheme = "HTTP")
  BY <1>0, <1>2
<1> HIDE DEF b, h
<1>4. ASSUME NEW g, Joint(g, client), g.url \in Urls, handle' = g, NEW r \in {"CONN", "DNS", "PARAM"}, Replied(r)
      PROVE  Joint(handle', client')
  <2>1. client' = [client EXCEPT !.pc = "failed"]
    BY <1>4, RepliedIs
  <2>2. HandleOK(g) /\ SameBytes(g, g)
    BY <1>4 DEF Joint, SameBytes
  <2> QED BY <1>4, <2>1, <2>2, Outcome
<1>5. CASE u.scheme = "BAD" /\ handle' = h0 /\ Replied("PARAM") /\ UNCHANGED sockets
  <2>1. Joint(handle', client')
    BY <1>4, <1>5
  <2> QED BY <1>5, <2>1
<1>6. CASE h0.opening /\ handle' = h /\ Replied("PENDING") /\ UNCHANGED sockets
  <2>1. client' = [client EXCEPT !.pc = "opening"]
    BY <1>6, RepliedIs
  <2>2. HandleOK(h) /\ SameBytes(h, h) /\ ~h.opened
    BY <1>0, <1>1, <1>2, <1>6 DEF Joint, SameBytes, HandleOK
  <2> QED BY <1>1, <1>2, <1>6, <2>1, <2>2, Outcome DEF Counted
<1>7. CASE /\ h0.opening /\ handle' = [h EXCEPT !.fd = None, !.opening = FALSE]
           /\ sockets' = sockets - 1 /\ Replied("CONN")
  <2>1. ~h.opened /\ h0.fd # None /\ h \in Handles
    BY <1>0, <1>1, <1>2, <1>7 DEF HandleOK, Joint
  <2>2. Joint(handle', client) /\ handle'.fd = None /\ handle'.url = h.url
    BY <1>1, <1>7, <2>1, Underway DEF Handles
  <2>3. Joint(handle', client')
    BY <1>2, <1>4, <1>7, <2>2
  <2> QED BY <1>7, <2>1, <2>2, <2>3 DEF Counted
<1>8. CASE h0.opening /\ live_finish_open([h EXCEPT !.opening = FALSE]) /\ UNCHANGED sockets
  <2> DEFINE g == [h EXCEPT !.opening = FALSE]
  <2>1. ~h.opened /\ h0.fd # None /\ h \in Handles
    BY <1>0, <1>1, <1>2, <1>8 DEF HandleOK, Joint
  <2>2. g.fd = h.fd /\ g.http = h.http /\ ~g.opening
    BY <2>1 DEF Handles
  <2>3. Joint(g, client)
    BY <1>1, <2>1, Underway
  <2>4. live_finish_open(g)
    BY <1>8
  <2> HIDE DEF g
  <2>5. Joint(handle', client') /\ handle'.fd = g.fd
    BY <1>2, <1>3, <2>1, <2>2, <2>3, <2>4, FinishOpen
  <2> QED BY <1>2, <1>8, <2>2, <2>5 DEF Counted
<1>9. CASE ~h0.opening /\ h0.fd # None /\ live_finish_open(h) /\ UNCHANGED sockets
  <2>1. Joint(handle', client') /\ handle'.fd = h.fd
    BY <1>1, <1>2, <1>3, <1>9, FinishOpen
  <2> QED BY <1>2, <1>9, <2>1 DEF Counted
<1>10. CASE handle' = h /\ (Replied("DNS") \/ Replied("CONN")) /\ UNCHANGED sockets
  <2>1. Joint(handle', client')
    BY <1>1, <1>2, <1>4, <1>10
  <2> QED BY <1>2, <1>10, <2>1 DEF Counted
<1>11. ASSUME ~h0.opening, h0.fd = None, NEW s \in Answers(u.host, u.scheme), sockets' = sockets + 1,
              \/ live_finish_open([h EXCEPT !.fd = [s EXCEPT !.state = "up"]])
              \/ handle' = [h EXCEPT !.fd = s, !.opening = TRUE] /\ Replied("PENDING")
       PROVE  Joint(handle', client') /\ Counted(handle', sockets')
  <2>0. h \in Handles /\ ~h.opening /\ h.fd = None /\ sockets = 0 /\ ~h.opened
    BY <1>0, <1>1, <1>2, <1>11 DEF HandleOK, Joint, Counted
  <2>1. CASE live_finish_open([h EXCEPT !.fd = [s EXCEPT !.state = "up"]])
    <3> DEFINE v == [s EXCEPT !.state = "up"]
               g == [h EXCEPT !.fd = v]
    <3>1. Carries(v) /\ v.taken = 0 /\ Serves(v, u)
      BY <1>11, NewConnection
    <3> HIDE DEF v
    <3>2. g = [h EXCEPT !.fd = v, !.opening = FALSE] /\ g.fd = v /\ g.http = h.http /\ ~g.opening
      BY <2>0 DEF Handles
    <3> HIDE DEF g
    <3>3. Joint(g, client)
      BY <1>1, <1>2, <2>0, <3>1, <3>2, Made
    <3>4. live_finish_open(g) /\ g.fd # None
      BY <2>1, <3>1, <3>2, CarriesIsSome DEF g, v
    <3>5. Joint(handle', client') /\ handle'.fd = g.fd
      BY <1>3, <3>2, <3>3, <3>4, FinishOpen
    <3> QED BY <1>11, <2>0, <3>4, <3>5 DEF Counted
  <2>2. CASE handle' = [h EXCEPT !.fd = s, !.opening = TRUE] /\ Replied("PENDING")
    <3>1. Carries(s) /\ s.taken = 0 /\ Serves(s, u)
      <4>1. s = [s EXCEPT !.state = "connecting"]
        BY <1>11 DEF Answers, Answer
      <4> QED BY <1>11, <4>1, NewConnection
    <3>2. Joint(handle', client)
      BY <1>1, <1>2, <2>0, <2>2, <3>1, Made
    <3>3. handle'.fd = s /\ handle'.opened = h.opened /\ HandleOK(handle') /\ SameBytes(handle', handle')
      BY <2>0, <2>2, <3>2 DEF Handles, Joint, SameBytes
    <3>4. client' = [client EXCEPT !.pc = "opening"]
      BY <2>2, RepliedIs
    <3>5. Joint(handle', client')
      BY <2>0, <3>2, <3>3, <3>4, Outcome
    <3> QED BY <1>11, <2>0, <3>1, <3>3, <3>5, CarriesIsSome DEF Counted
  <2> QED BY <1>11, <2>1, <2>2
<1> QED
  <2>1. live_open(h0) =>
          \/ u.scheme = "BAD" /\ handle' = h0 /\ Replied("PARAM") /\ UNCHANGED sockets
          \/ h0.opening /\ handle' = h /\ Replied("PENDING") /\ UNCHANGED sockets
          \/ /\ h0.opening /\ handle' = [h EXCEPT !.fd = None, !.opening = FALSE]
             /\ sockets' = sockets - 1 /\ Replied("CONN")
          \/ h0.opening /\ live_finish_open([h EXCEPT !.opening = FALSE]) /\ UNCHANGED sockets
          \/ ~h0.opening /\ h0.fd # None /\ live_finish_open(h) /\ UNCHANGED sockets
          \/ handle' = h /\ (Replied("DNS") \/ Replied("CONN")) /\ UNCHANGED sockets
          \/ /\ ~h0.opening /\ h0.fd = None
             /\ \E s \in Answers(u.host, u.scheme) :
                  /\ sockets' = sockets + 1
                  /\ \/ live_finish_open([h EXCEPT !.fd = [s EXCEPT !.state = "up"]])
                     \/ handle' = [h EXCEPT !.fd = s, !.opening = TRUE] /\ Replied("PENDING")
    BY Zenon DEF live_open, h, b
  <2> QED BY <1>5, <1>6, <1>7, <1>8, <1>9, <1>10, <1>11, <2>1

-----------------------------------------------------------------------------
(* Reading.                                                                 *)

\* Bytes that continue the body.
LEMMA Continued ==
  ASSUME NEW got \in Seq(0..BodyLen), InOrder(got), NEW bytes \in Seq(0..BodyLen),
         \A i \in 1..Len(bytes) : bytes[i] = Len(got) + i
  PROVE  /\ got \o bytes \in Seq(0..BodyLen) /\ Len(got \o bytes) = Len(got) + Len(bytes)
         /\ InOrder(got \o bytes)
<1> DEFINE n == Len(got)
           k == Len(bytes)
           S == 0..BodyLen
<1>1. n \in Nat /\ k \in Nat /\ got \in Seq(S) /\ bytes \in Seq(S)
  OBVIOUS
<1>2. (\A i \in 1..n : got[i] = i) /\ (\A i \in 1..k : bytes[i] = n + i)
  BY DEF InOrder
<1> HIDE DEF S
<1>3. /\ got \o bytes \in Seq(S) /\ Len(got \o bytes) = n + k
      /\ \A i \in 1..(n + k) : (got \o bytes)[i] = IF i <= n THEN got[i] ELSE bytes[i - n]
  BY <1>1, ConcatProperties
<1> HIDE DEF n, k
<1>4. \A i \in 1..(n + k) : /\ i <= n => i \in 1..n
                            /\ ~(i <= n) => i - n \in 1..k /\ n + (i - n) = i
  BY <1>1
<1>5. \A i \in 1..(n + k) : (got \o bytes)[i] = i
  BY <1>2, <1>3, <1>4
<1> QED BY <1>3, <1>5 DEF InOrder, S, n, k

\* A client that is told of a failure, or of the end.
LEMMA Stopped ==
  ASSUME NEW h, NEW c, Joint(h, c), c.pc = "open"
  PROVE  /\ Joint(h, [c EXCEPT !.pc = "failed"])
         /\ (h.http /\ h.declared # None => h.bodyRead >= h.declared) /\ (h.http => h.headersDone) =>
              Joint(h, [c EXCEPT !.pc = "ended", !.eof = TRUE])
<1>0. HandleOK(h) /\ ClientOK(c) /\ c \in Clients
  BY DEF Joint, ClientOK
<1>1. Joint(h, [c EXCEPT !.pc = "failed"])
  <2> DEFINE d == [c EXCEPT !.pc = "failed"]
  <2>1. d \in Clients /\ d.pc = "failed" /\ d.got = c.got /\ d.eof = c.eof /\ d.inherited = c.inherited
    BY <1>0 DEF Clients
  <2> HIDE DEF d
  <2>2. ~d.inherited => Own(h, d)
    BY <2>1 DEF Joint, Own
  <2>3. Joint(h, d)
    BY <1>0, <2>1, <2>2 DEF Joint, ClientOK
  <2> QED BY <2>3 DEF d
<1>2. ASSUME h.http /\ h.declared # None => h.bodyRead >= h.declared, h.http => h.headersDone
      PROVE  Joint(h, [c EXCEPT !.pc = "ended", !.eof = TRUE])
  <2> DEFINE d == [c EXCEPT !.pc = "ended", !.eof = TRUE]
  <2>1. d \in Clients /\ d.pc = "ended" /\ d.got = c.got /\ d.inherited = c.inherited
    BY <1>0 DEF Clients
  <2> HIDE DEF d
  <2>2. ~d.inherited => Own(h, d)
    <3> SUFFICES ASSUME ~d.inherited PROVE Own(h, d)
      OBVIOUS
    <3>1. Account(h, c.got) /\ InOrder(c.got)
      BY <2>1 DEF Joint, Own
    <3>2. h.http => h.bodyRead = Len(c.got)
      BY <1>2, <3>1 DEF Account
    <3> QED BY <1>2, <2>1, <3>1, <3>2 DEF Own
  <2>3. Joint(h, d)
    BY <1>0, <2>1, <2>2 DEF Joint, ClientOK
  <2> QED BY <2>3 DEF d
<1> QED BY <1>1, <1>2

\* The handle after bytes went to the client: from its buffer, or from the socket.
LEMMA Delivered ==
  ASSUME NEW h, NEW c, Joint(h, c), c.pc = "open", h.opened, h.http => h.headersDone,
         NEW g \in Handles, HandleOK(g), NEW bytes \in Seq(0..BodyLen),
         g.opened = h.opened, g.http = h.http, g.headersDone = h.headersDone, g.fd # None,
         g.fd.peer = h.fd.peer, g.fd.header = h.fd.header, g.fd.stream = h.fd.stream,
         g.bodyRead = IF h.http THEN h.bodyRead + Len(bytes) ELSE h.bodyRead,
         ~c.inherited =>
           /\ \A i \in 1..Len(bytes) : bytes[i] = Len(c.got) + i
           /\ h.http => /\ g.fd.header + (Len(c.got) + Len(bytes)) + Len(g.response) = g.fd.taken
                        /\ \A i \in 1..Len(g.response) :
                             g.response[i] = (Len(c.got) + Len(bytes)) + i
           /\ ~h.http => Len(c.got) + Len(bytes) = g.fd.taken
  PROVE  Joint(g, [c EXCEPT !.got = @ \o bytes])
<1> DEFINE d == [c EXCEPT !.got = @ \o bytes]
<1>0. HandleOK(h) /\ ClientOK(c) /\ c \in Clients /\ c.got \in Seq(0..BodyLen)
  BY DEF Joint, ClientOK, Clients
<1>1. d \in Clients /\ d.pc = "open" /\ d.got = c.got \o bytes /\ d.eof = c.eof /\ d.want = c.want
      /\ d.inherited = c.inherited
  <2>1. c.got \o bytes \in Seq(0..BodyLen)
    BY <1>0, ConcatProperties
  <2> QED BY <1>0, <2>1 DEF Clients
<1> HIDE DEF d
<1>2. ClientOK(d)
  BY <1>1 DEF ClientOK
<1>3. ASSUME ~d.inherited PROVE Own(g, d)
  <2>1. Own(h, c) /\ InOrder(c.got) /\ ~c.eof /\ Serves(h.fd, c.want) /\ Account(h, c.got)
    BY <1>1, <1>3 DEF Joint, Own
  <2>2. Len(d.got) = Len(c.got) + Len(bytes) /\ InOrder(d.got)
    <3>1. \A i \in 1..Len(bytes) : bytes[i] = Len(c.got) + i
      BY <1>1, <1>3
    <3> QED BY <1>0, <1>1, <2>1, <3>1, Continued, ZenonT(60)
  <2>3. Serves(g.fd, d.want)
    BY <1>1, <2>1 DEF Serves
  <2>4. CASE h.http
    <3>1. h.bodyRead = Len(c.got)
      BY <2>1, <2>4 DEF Account
    <3>2. g.bodyRead = Len(d.got)
      BY <2>2, <2>4, <3>1
    <3>3. Account(g, d.got)
      BY <1>1, <1>3, <2>2, <2>4, <3>2 DEF Account
    <3> QED BY <1>1, <2>1, <2>2, <2>3, <3>3 DEF Own
  <2>5. CASE ~h.http
    <3>1. h.fd.header = 0
      BY <2>1, <2>5 DEF Account
    <3>2. Account(g, d.got)
      BY <1>1, <1>3, <2>2, <2>5, <3>1 DEF Account
    <3> QED BY <1>1, <2>1, <2>2, <2>3, <3>2 DEF Own
  <2> QED BY <2>4, <2>5
<1>4. Joint(g, d)
  BY <1>2, <1>3 DEF Joint
<1> QED BY <1>4 DEF d

\* The body of a read: from the header's buffer, from the socket, or nothing.
LEMMA ReadBodyKeeps ==
  ASSUME NEW h, Joint(h, client), client.pc = "open", h.opened, h.http => h.headersDone, ReadBody(h)
  PROVE  Joint(handle', client') /\ handle'.fd # None
<1> DEFINE n == Len(client.got)
           t == h.fd.taken
           m == h.fd.header
           S == 0..BodyLen
<1>0. HandleOK(h) /\ h \in Handles /\ h.fd # None /\ Carries(h.fd) /\ h.url \in Urls /\ ReadMax \in Nat \ {0}
  BY HandlesAssumption DEF Joint, HandleOK
<1>1. /\ h.response \in Seq(S) /\ h.bodyRead \in Nat /\ h.fd \in Sockets /\ h.http \in BOOLEAN
      /\ client.got \in Seq(S) /\ n \in Nat /\ t \in Nat /\ m \in Nat
  BY <1>0, HandlesAssumption DEF Handles, Joint, ClientOK, Clients, Carries, Sockets
<1> HIDE DEF n, t, m, S
<1>2. CASE h.http /\ h.response # <<>>
  <2> DEFINE q == h.response
             l == Len(q)
             k == IF ReadMax < l THEN ReadMax ELSE l
             bytes == SubSeq(q, 1, k)
             rest == SubSeq(q, k + 1, l)
             read == h.bodyRead + Len(bytes)
  <2>1. Deliver([h EXCEPT !.response = rest], bytes)
    BY <1>2 DEF ReadBody
  <2>2. q \in Seq(S) /\ l \in Nat /\ l <= Len(q)
    BY <1>1
  <2> HIDE DEF q, l
  <2>3. k \in Nat /\ k <= l /\ 0 \in Nat /\ 0 <= k /\ 0 + 1 = 1 /\ k - 0 = k /\ k <= Len(q)
    BY <1>0, <2>2
  <2> HIDE DEF k
  <2>4. bytes \in Seq(S) /\ Len(bytes) = k /\ \A i \in 1..k : bytes[i] = q[i]
    <3>1. /\ SubSeq(q, 0 + 1, k) \in Seq(S) /\ Len(SubSeq(q, 0 + 1, k)) = k - 0
          /\ \A i \in 1..(k - 0) : SubSeq(q, 0 + 1, k)[i] = q[0 + i]
      BY <2>2, <2>3, Slice
    <3>2. \A i \in 1..k : 0 + i = i
      OBVIOUS
    <3> QED BY <2>3, <3>1, <3>2
  <2>5. rest \in Seq(S) /\ Len(rest) = l - k /\ \A i \in 1..(l - k) : rest[i] = q[k + i]
    BY <2>2, <2>3, Slice
  <2> HIDE DEF bytes, rest
  <2>6. read \in Nat
    BY <1>1, <2>3, <2>4
  <2> HIDE DEF read
  <2>7. handle' = [h EXCEPT !.response = rest, !.bodyRead = read]
        /\ client' = [client EXCEPT !.got = @ \o bytes]
    <3>1. [h EXCEPT !.response = rest].http /\ [h EXCEPT !.response = rest].bodyRead = h.bodyRead
      BY <1>0, <1>2 DEF Handles
    <3> QED BY <2>1, <3>1 DEF Deliver, read
  <2>8. handle' \in Handles
    BY <1>0, <2>5, <2>6, <2>7 DEF Handles, S
  <2>9. /\ handle'.fd = h.fd /\ handle'.opened = h.opened /\ handle'.opening = h.opening /\ handle'.url = h.url
        /\ handle'.http = h.http /\ handle'.headersDone = h.headersDone /\ handle'.response = rest
        /\ handle'.bodyRead = read
    BY <1>0, <2>7 DEF Handles
  <2>10. HandleOK(handle')
    BY <1>0, <2>8, <2>9 DEF HandleOK
  <2>11. ASSUME ~client.inherited
         PROVE  /\ \A i \in 1..Len(bytes) : bytes[i] = n + i
                /\ m + (n + Len(bytes)) + Len(rest) = t
                /\ \A i \in 1..Len(rest) : rest[i] = (n + Len(bytes)) + i
    <3>1. m + n + l = t /\ \A i \in 1..l : q[i] = n + i
      BY <1>2, <2>11 DEF Joint, Own, Account, q, l, n, t, m
    <3>2. \A i \in 1..k : i \in 1..l
      BY <2>2, <2>3
    <3>3. \A i \in 1..(l - k) : k + i \in 1..l /\ n + (k + i) = (n + k) + i
      BY <1>1, <2>2, <2>3
    <3>4. m + (n + k) + (l - k) = t
      BY <1>1, <2>2, <2>3, <3>1
    <3>5. \A i \in 1..k : bytes[i] = n + i
      BY <2>4, <3>1, <3>2
    <3>6. \A i \in 1..(l - k) : rest[i] = (n + k) + i
      BY <2>5, <3>1, <3>3
    <3> QED BY <2>4, <2>5, <3>4, <3>5, <3>6
  <2>12. ~client.inherited =>
           /\ \A i \in 1..Len(bytes) : bytes[i] = Len(client.got) + i
           /\ h.http => /\ handle'.fd.header + (Len(client.got) + Len(bytes)) + Len(handle'.response)
                             = handle'.fd.taken
                        /\ \A i \in 1..Len(handle'.response) :
                             handle'.response[i] = (Len(client.got) + Len(bytes)) + i
           /\ ~h.http => Len(client.got) + Len(bytes) = handle'.fd.taken
    BY <1>2, <2>9, <2>11 DEF n, m, t
  <2>13. handle'.bodyRead = IF h.http THEN h.bodyRead + Len(bytes) ELSE h.bodyRead
    BY <1>2, <2>9 DEF read
  <2>14. bytes \in Seq(0..BodyLen)
    BY <2>4 DEF S
  <2>15. Joint(handle', [client EXCEPT !.got = @ \o bytes])
    BY <1>0, <2>8, <2>9, <2>10, <2>12, <2>13, <2>14, Delivered
  <2> QED BY <1>0, <2>7, <2>9, <2>15
<1>3. ASSUME ~(h.http /\ h.response # <<>>), NEW k \in Recv(h.fd, ReadMax),
             Deliver([h EXCEPT !.fd.taken = @ + k], Received(h.fd, k))
      PROVE  Joint(handle', client') /\ handle'.fd # None
  <2> DEFINE bytes == Received(h.fd, k)
             s == [h.fd EXCEPT !.taken = @ + k]
             read == IF h.http THEN h.bodyRead + Len(bytes) ELSE h.bodyRead
             q == h.fd.stream
  <2>1. /\ k \in Nat /\ k > 0 /\ bytes \in Seq(0..BodyLen) /\ Len(bytes) = k
        /\ \A i \in 1..k : bytes[i] = q[t + i] /\ t + i \in 1..Len(q)
        /\ Carries(s)
    BY <1>0, <1>3, RecvBytes DEF t
  <2>2. s.peer = h.fd.peer /\ s.header = m /\ s.stream = q /\ s.taken = t + k
    BY <1>1 DEF Sockets, m, t
  <2>3. [h EXCEPT !.fd.taken = @ + k] = [h EXCEPT !.fd = s]
    BY <1>0 DEF Handles
  <2>4. read \in Nat
    <3> HIDE DEF bytes
    <3> QED BY <1>1, <2>1
  <2> HIDE DEF bytes, s, read, q
  <2>5. handle' = [h EXCEPT !.fd = s, !.bodyRead = read] /\ client' = [client EXCEPT !.got = @ \o bytes]
    <3>1. [h EXCEPT !.fd = s].http = h.http /\ [h EXCEPT !.fd = s].bodyRead = h.bodyRead
      BY <1>0 DEF Handles
    <3> QED BY <1>3, <2>3, <3>1 DEF Deliver, read, bytes
  <2>6. s \in Sockets /\ s # None
    BY <2>1, CarriesIsSome DEF Carries
  <2>7. handle' \in Handles
    BY <1>0, <2>4, <2>5, <2>6 DEF Handles
  <2>8. /\ handle'.fd = s /\ handle'.opened = h.opened /\ handle'.opening = h.opening /\ handle'.url = h.url
        /\ handle'.http = h.http /\ handle'.headersDone = h.headersDone /\ handle'.response = h.response
        /\ handle'.bodyRead = read
    BY <1>0, <2>5 DEF Handles
  <2>9. HandleOK(handle')
    BY <1>0, <2>1, <2>6, <2>7, <2>8 DEF HandleOK
  <2>10. ASSUME ~client.inherited
         PROVE  /\ \A i \in 1..k : bytes[i] = n + i
                /\ h.http => h.response = <<>> /\ m + (n + k) + 0 = t + k
                /\ ~h.http => n + k = t + k
    <3>1. h.http => h.response = <<>> /\ Len(h.response) = 0
      BY <1>3
    <3>2. Account(h, client.got)
      BY <2>10 DEF Joint, Own
    <3>3. (h.http => m + n + 0 = t) /\ (~h.http => m = 0 /\ n = t)
      BY <3>1, <3>2 DEF Account, m, n, t
    <3>4. m + n = t
      BY <1>1, <3>3
    <3>5. \A i \in 1..Len(q) : q[i] = IF i <= m THEN 0 ELSE i - m
      BY <1>0 DEF Carries, q, m
    <3>6. \A i \in 1..k : ~(t + i <= m) /\ (t + i) - m = n + i
      BY <1>1, <3>4
    <3>7. \A i \in 1..k : bytes[i] = n + i
      BY <2>1, <3>5, <3>6
    <3>8. m + (n + k) + 0 = t + k
      BY <1>1, <2>1, <3>4
    <3>9. ~h.http => n + k = t + k
      BY <1>1, <2>1, <3>3
    <3> QED BY <3>1, <3>7, <3>8, <3>9
  <2>11. ~client.inherited =>
           /\ \A i \in 1..Len(bytes) : bytes[i] = Len(client.got) + i
           /\ h.http => /\ handle'.fd.header + (Len(client.got) + Len(bytes)) + Len(handle'.response)
                             = handle'.fd.taken
                        /\ \A i \in 1..Len(handle'.response) :
                             handle'.response[i] = (Len(client.got) + Len(bytes)) + i
           /\ ~h.http => Len(client.got) + Len(bytes) = handle'.fd.taken
    <3> SUFFICES ASSUME ~client.inherited
                 PROVE  /\ \A i \in 1..Len(bytes) : bytes[i] = n + i
                        /\ h.http => /\ m + (n + Len(bytes)) + Len(h.response) = t + k
                                     /\ \A i \in 1..Len(h.response) : h.response[i] = (n + Len(bytes)) + i
                        /\ ~h.http => n + Len(bytes) = t + k
      BY <2>2, <2>8 DEF n
    <3>1. Len(<<>>) = 0 /\ 1..0 = {}
      OBVIOUS
    <3>2. Len(bytes) = k
      BY <2>1
    <3>3. \A i \in 1..Len(bytes) : bytes[i] = n + i
      BY <2>10, <3>2
    <3>4. ~h.http => n + Len(bytes) = t + k
      BY <2>10, <3>2
    <3>5. ASSUME h.http
          PROVE  /\ m + (n + Len(bytes)) + Len(h.response) = t + k
                 /\ \A i \in 1..Len(h.response) : h.response[i] = (n + Len(bytes)) + i
      <4>1. h.response = <<>> /\ m + (n + k) + 0 = t + k
        BY <2>10, <3>5
      <4>2. Len(h.response) = 0 /\ 1..Len(h.response) = {}
        BY <3>1, <4>1
      <4> QED BY <3>2, <4>1, <4>2
    <3> QED BY <3>3, <3>4, <3>5
  <2>12. handle'.bodyRead = IF h.http THEN h.bodyRead + Len(bytes) ELSE h.bodyRead
    BY <2>8 DEF read
  <2>13. Joint(handle', [client EXCEPT !.got = @ \o bytes])
    BY <1>0, <2>1, <2>2, <2>6, <2>7, <2>8, <2>9, <2>11, <2>12, Delivered DEF q, m
  <2> QED BY <2>5, <2>6, <2>8, <2>13
<1>4. CASE handle' = h /\ (Nothing \/ Fail)
  <2>1. client' = client \/ client' = [client EXCEPT !.pc = "failed"]
    BY <1>4 DEF Nothing, Fail
  <2>2. Joint(h, [client EXCEPT !.pc = "failed"])
    BY Stopped
  <2>3. Joint(h, client')
    BY <2>1, <2>2
  <2> QED BY <1>0, <1>4, <2>3
<1>5. CASE /\ handle' = h /\ ~(h.declared # None /\ h.bodyRead < h.declared)
           /\ client' = [client EXCEPT !.pc = "ended", !.eof = TRUE]
  <2>1. h.declared # None => h.bodyRead >= h.declared
    <3>1. h.declared \in {None} \cup 0..BodyLen
      BY <1>0 DEF Handles
    <3> QED BY <1>1, <1>5, <3>1, HandlesAssumption
  <2> QED BY <1>0, <1>5, <2>1, Stopped
<1> QED BY <1>2, <1>3, <1>4, <1>5 DEF ReadBody

\* The header comes in pieces, and its last piece may bring some of the body.
LEMMA ReadHeaderKeeps ==
  ASSUME Joint(handle, client), ReadHeader
  PROVE  Joint(handle', client') /\ handle.fd # None /\ handle'.fd # None
<1> DEFINE s == handle.fd
           t == s.taken
           m == s.header
           q == s.stream
           S == 0..BodyLen
           resp == handle.response
<1>0. /\ HandleOK(handle) /\ handle \in Handles /\ s # None /\ Carries(s) /\ handle.url \in Urls
      /\ client.pc = "open" /\ handle.opened /\ handle.http /\ ~handle.headersDone
      /\ ~handle.opening
  BY DEF Joint, HandleOK, ReadHeader, HeaderDue, Reading
<1>1. /\ resp \in Seq(S) /\ s \in Sockets /\ Len(resp) \in Nat
      /\ t \in Nat /\ m \in Nat /\ q \in Seq(S) /\ Len(q) \in Nat /\ ResponseMax \in Nat
      /\ s.declared \in {None} \cup 0..BodyLen
  BY <1>0, HandlesAssumption DEF Handles, Carries, Sockets
<1>2. CASE handle' = handle /\ (Nothing \/ Fail)
  <2>1. client' = client \/ client' = [client EXCEPT !.pc = "failed"]
    BY <1>2 DEF Nothing, Fail
  <2>2. Joint(handle, [client EXCEPT !.pc = "failed"])
    BY <1>0, Stopped
  <2>3. Joint(handle, client')
    BY <2>1, <2>2
  <2> QED BY <1>0, <1>2, <2>3
<1>3. ASSUME Len(resp) < ResponseMax, NEW k \in Recv(s, HeaderRoom),
             LET r == handle.response \o Received(s, k)
                 h == [handle EXCEPT !.fd.taken = @ + k, !.response = r]
             IN \/ Len(r) < s.header /\ handle' = h /\ Nothing
                \/ Len(r) >= s.header /\ handle' = h /\ Fail
                \/ /\ Len(r) >= s.header
                   /\ ReadBody([h EXCEPT !.headersDone = TRUE, !.declared = s.declared,
                                         !.response = SubSeq(r, s.header + 1, Len(r))])
      PROVE  Joint(handle', client') /\ handle'.fd # None
  <2> DEFINE bytes == Received(s, k)
             r == resp \o bytes
             l == Len(r)
             v == [s EXCEPT !.taken = @ + k]
             h == [handle EXCEPT !.fd = v, !.response = r]
             rest == SubSeq(r, m + 1, l)
             g == [h EXCEPT !.headersDone = TRUE, !.declared = s.declared, !.response = rest]
  <2>1. HeaderRoom \in Nat
    BY <1>1, <1>3 DEF HeaderRoom
  <2>2. /\ k \in Nat /\ k > 0 /\ bytes \in Seq(S) /\ Len(bytes) = k
        /\ \A i \in 1..k : bytes[i] = q[t + i] /\ t + i \in 1..Len(q)
        /\ Carries(v)
    BY <1>0, <1>3, <2>1, RecvBytes
  <2>3. v.peer = s.peer /\ v.header = m /\ v.stream = q /\ v.taken = t + k /\ v \in Sockets /\ v # None
    BY <1>1, <2>2, CarriesIsSome DEF Sockets, Carries
  <2>4. [handle EXCEPT !.fd.taken = @ + k, !.response = r] = h
    BY <1>0 DEF Handles
  <2>5. \/ l < m /\ handle' = h /\ Nothing
        \/ l >= m /\ handle' = h /\ Fail
        \/ l >= m /\ ReadBody(g)
    BY <1>3, <2>4
  <2> HIDE DEF bytes, v, S
  <2>6. /\ r \in Seq(S) /\ Len(r) = Len(resp) + k
        /\ \A i \in 1..(Len(resp) + k) : r[i] = IF i <= Len(resp) THEN resp[i] ELSE bytes[i - Len(resp)]
    BY <1>1, <2>2, ConcatProperties, ZenonT(60)
  <2>7. l \in Nat /\ l = Len(resp) + k
    BY <1>1, <2>2, <2>6
  <2> HIDE DEF r, l
  <2>8. /\ h \in Handles /\ h.fd = v /\ h.response = r /\ h.http /\ ~h.headersDone /\ h.opened
        /\ ~h.opening /\ h.url = handle.url /\ h.bodyRead = handle.bodyRead
        /\ h.declared = handle.declared
    BY <1>0, <2>3, <2>6 DEF Handles, S
  <2> HIDE DEF h
  <2>9. HandleOK(h)
    <3>1. h \in Handles /\ h.fd # None /\ Carries(h.fd) /\ h.url \in Urls /\ ~h.opening
      BY <1>0, <2>2, <2>3, <2>8
    <3> QED BY <3>1 DEF HandleOK
  <2>10. ASSUME ~client.inherited
         PROVE  /\ Own(handle, client) /\ client.got = <<>> /\ handle.bodyRead = 0
                /\ l = t + k /\ \A i \in 1..l : r[i] = q[i]
    <3>1. Own(handle, client) /\ Account(handle, client.got)
      BY <1>0, <2>10 DEF Joint, Own
    <3>2. /\ client.got = <<>> /\ handle.bodyRead = 0 /\ Len(resp) = t
          /\ \A i \in 1..Len(resp) : resp[i] = q[i]
      BY <1>0, <3>1 DEF Account
    <3>3. l = t + k
      BY <2>7, <3>2
    <3>4. \A i \in 1..l : /\ i <= t => i \in 1..t
                          /\ ~(i <= t) => i - t \in 1..k /\ t + (i - t) = i
      <4> HIDE DEF t, resp, q
      <4> QED BY <1>1, <2>2, <3>3
    <3>5. \A i \in 1..l : r[i] = IF i <= t THEN resp[i] ELSE bytes[i - t]
      BY <2>6, <2>7, <3>2
    <3>6. \A i \in 1..t : resp[i] = q[i]
      BY <3>2
    <3>7. \A i \in 1..l : r[i] = q[i]
      BY <2>2, <3>4, <3>5, <3>6
    <3> QED BY <3>1, <3>2, <3>3, <3>7
  <2>11. Joint(h, client)
    <3>1. ASSUME ~client.inherited PROVE Own(h, client)
      <4>1. Serves(s, client.want) /\ InOrder(client.got) /\ ~client.eof
        BY <1>0, <2>10, <3>1 DEF Own
      <4>2. Serves(v, client.want)
        BY <2>3, <4>1 DEF Serves
      <4>3. Account(h, client.got)
        BY <2>3, <2>8, <2>10, <3>1 DEF Account, l
      <4> QED BY <1>0, <2>8, <4>1, <4>2, <4>3 DEF Own
    <3> QED BY <2>9, <3>1 DEF Joint
  <2>12. CASE handle' = h /\ (Nothing \/ Fail)
    <3>1. client' = client \/ client' = [client EXCEPT !.pc = "failed"]
      BY <2>12 DEF Nothing, Fail
    <3>2. Joint(h, [client EXCEPT !.pc = "failed"])
      BY <1>0, <2>11, Stopped
    <3>3. Joint(h, client')
      BY <2>11, <3>1, <3>2
    <3> QED BY <2>3, <2>8, <2>12, <3>3
  <2>13. CASE l >= m /\ ReadBody(g)
    <3>1. m <= l /\ l <= Len(r) /\ r \in Seq(S)
      BY <1>1, <2>6, <2>7, <2>13
    <3>2. rest \in Seq(S) /\ Len(rest) = l - m /\ \A i \in 1..(l - m) : rest[i] = r[m + i]
      <4> HIDE DEF m, t, resp, q
      <4> QED BY <1>1, <2>7, <3>1, Slice, SMTT(30)
    <3> HIDE DEF rest
    <3>3. /\ g \in Handles /\ g.fd = v /\ g.response = rest /\ g.http /\ g.headersDone /\ g.opened
          /\ ~g.opening /\ g.url = handle.url /\ g.bodyRead = handle.bodyRead
      BY <1>1, <2>8, <3>2 DEF Handles, S
    <3> HIDE DEF g
    <3>4. HandleOK(g)
      <4>1. g \in Handles /\ g.fd # None /\ Carries(g.fd) /\ g.url \in Urls /\ ~g.opening
        BY <1>0, <2>2, <2>3, <3>3
      <4> QED BY <4>1 DEF HandleOK
    <3>5. ASSUME ~client.inherited PROVE Own(g, client)
      <4>1. Serves(s, client.want) /\ InOrder(client.got) /\ ~client.eof
        BY <1>0, <2>10, <3>5 DEF Own
      <4>2. Serves(v, client.want)
        BY <2>3, <4>1 DEF Serves
      <4>3. client.got = <<>> /\ Len(client.got) = 0 /\ handle.bodyRead = 0 /\ l = t + k
        BY <2>10, <3>5
      <4>4. m + 0 + (l - m) = t + k
        BY <1>1, <2>7, <4>3
      <4>5. \A i \in 1..(l - m) : m + i \in 1..l /\ ~(m + i <= m) /\ (m + i) - m = 0 + i
        <5> HIDE DEF m, t, resp, q
        <5> QED BY <1>1, <2>7, <3>1
      <4>6. \A i \in 1..l : i \in 1..Len(q)
        <5>1. t + k <= Len(q)
          BY <2>2, <2>3 DEF Carries
        <5> QED BY <1>1, <2>2, <4>3, <5>1
      <4>7. \A i \in 1..Len(q) : q[i] = IF i <= m THEN 0 ELSE i - m
        BY <1>0 DEF Carries
      <4>8. \A i \in 1..(l - m) : rest[i] = 0 + i
        BY <2>10, <3>2, <3>5, <4>5, <4>6, <4>7
      <4>9. Account(g, client.got)
        BY <2>3, <3>2, <3>3, <4>3, <4>4, <4>8 DEF Account
      <4> QED BY <1>0, <3>3, <4>1, <4>2, <4>9 DEF Own
    <3>6. Joint(g, client)
      BY <3>4, <3>5 DEF Joint
    <3> QED BY <1>0, <2>13, <3>3, <3>6, ReadBodyKeeps
  <2> QED BY <2>5, <2>12, <2>13
<1> QED BY <1>0, <1>2, <1>3, Zenon DEF ReadHeader

-----------------------------------------------------------------------------
(* The invariant.                                                           *)

\* The network changes a connection, never what it carries or what was taken.
LEMMA NetStep ==
  ASSUME HandlesInv, Connects \/ Breaks \/ Arrives \/ PeerCloses
  PROVE  HandlesInv'
<1>1. PICK v : /\ handle.fd # None /\ NetChanges(v)
               /\ \/ v = [handle.fd EXCEPT !.state = "up"]
                  \/ v = [handle.fd EXCEPT !.state = "dead"]
                  \/ v = [handle.fd EXCEPT !.closed = TRUE]
                  \/ /\ handle.fd.arrived < Len(handle.fd.stream)
                     /\ v = [handle.fd EXCEPT !.arrived = @ + 1]
  BY DEF Connects, Breaks, Arrives, PeerCloses
<1>2. HandleOK(handle) /\ handle \in Handles /\ Carries(handle.fd) /\ Joint(handle, client)
  BY <1>1 DEF HandlesInv, Joint, HandleOK
<1>3. /\ Carries(v) /\ v.peer = handle.fd.peer /\ v.header = handle.fd.header
      /\ v.stream = handle.fd.stream /\ v.taken = handle.fd.taken
  BY <1>1, <1>2, NetKeeps
<1>4. v \in Sockets /\ v # None
  BY <1>3, CarriesIsSome DEF Carries
<1>5. /\ handle' = [handle EXCEPT !.fd = v] /\ client' = client /\ sockets' = sockets
  BY <1>1 DEF NetChanges
<1>6. /\ handle' \in Handles /\ handle'.fd = v /\ handle'.opened = handle.opened
      /\ handle'.opening = handle.opening /\ handle'.url = handle.url /\ handle'.http = handle.http
      /\ SameBytes(handle', handle)
  BY <1>2, <1>4, <1>5 DEF Handles, SameBytes
<1>7. HandleOK(handle')
  <2>1. handle.url \in Urls /\ ~(handle.opening /\ handle.opened)
    BY <1>1, <1>2 DEF HandleOK
  <2>2. handle'.url \in Urls /\ ~(handle'.opening /\ handle'.opened)
    BY <1>6, <2>1
  <2>3. handle'.fd # None /\ Carries(handle'.fd)
    BY <1>3, <1>4, <1>6
  <2> QED BY <1>6, <2>2, <2>3 DEF HandleOK
<1>8. ASSUME ~client.inherited PROVE Own(handle', client)
  <2>1. Own(handle, client)
    BY <1>2, <1>8 DEF Joint
  <2>2. \A u : Serves(handle.fd, u) <=> Serves(v, u)
    BY <1>3 DEF Serves
  <2>3. Blank(handle') <=> Blank(handle)
    BY <1>6 DEF Blank, SameBytes
  <2>4. Account(handle, client.got) <=> Account(handle', client.got)
    BY <1>3, <1>6 DEF Account, SameBytes
  <2>5. handle'.declared = handle.declared
    BY <1>6 DEF SameBytes
  <2> QED BY <1>1, <1>3, <1>4, <1>6, <2>1, <2>2, <2>3, <2>4, <2>5 DEF Own
<1>9. Joint(handle', client')
  BY <1>2, <1>5, <1>7, <1>8 DEF Joint
<1> QED BY <1>1, <1>4, <1>5, <1>6, <1>9 DEF HandlesInv, NoLeak

\* The handle an open is dispatched with has a URL, and it is the client's.
LEMMA Aimed ==
  ASSUME Joint(handle, client), client.pc = "opening"
  PROVE  /\ client.want \in Urls
         /\ LET g == [handle EXCEPT !.url = client.want] IN
            Joint(g, client) /\ g.url = client.want /\ g.fd = handle.fd
         /\ handle.fd # None => handle.url \in Urls /\ (~client.inherited => handle.url = client.want)
<1> DEFINE g == [handle EXCEPT !.url = client.want]
<1>1. HandleOK(handle) /\ handle \in Handles /\ ClientOK(client) /\ client.want \in Urls
  BY DEF Joint, HandleOK, ClientOK
<1>2. /\ g \in Handles /\ g.url = client.want /\ g.fd = handle.fd /\ SameBytes(g, handle)
      /\ g.opened = handle.opened /\ g.opening = handle.opening
  BY <1>1 DEF Handles, SameBytes
<1> HIDE DEF g
<1>3. HandleOK(g)
  BY <1>1, <1>2 DEF HandleOK
<1>4. ~client.inherited => Own(g, client)
  <2> SUFFICES ASSUME ~client.inherited PROVE Own(g, client)
    OBVIOUS
  <2>1. Own(handle, client)
    BY DEF Joint
  <2>2. Blank(g) <=> Blank(handle)
    BY <1>2 DEF Blank, SameBytes
  <2>3. InOrder(client.got) /\ ~client.eof
    BY <2>1 DEF Own
  <2> QED BY <1>2, <2>1, <2>2, <2>3 DEF Own
<1>5. Joint(g, client)
  BY <1>1, <1>3, <1>4 DEF Joint
<1>6. handle.fd # None => handle.url \in Urls /\ (~client.inherited => handle.url = client.want)
  BY <1>1 DEF Joint, HandleOK, Own
<1> QED BY <1>1, <1>2, <1>5, <1>6 DEF g

\* One request to open or to connect.
LEMMA OpenStep ==
  ASSUME HandlesInv, do_open \/ do_raw_connect
  PROVE  HandlesInv'
<1>1. Joint(handle, client) /\ HandleOK(handle) /\ Counted(handle, sockets) /\ client.pc = "opening"
  BY DEF HandlesInv, NoLeak, Counted, Joint, do_open, do_raw_connect
<1> DEFINE g == [handle EXCEPT !.url = client.want]
<1>2. live_open(g) \/ (handle.fd # None /\ live_open(handle))
  BY <1>1 DEF do_open, do_raw_connect, Target, HandleOK
<1>3. /\ client.want \in Urls /\ Joint(g, client) /\ g.url = client.want /\ g.fd = handle.fd
      /\ handle.fd # None => handle.url \in Urls /\ (~client.inherited => handle.url = client.want)
  BY <1>1, Aimed
<1> HIDE DEF g
<1>4. Counted(g, sockets)
  BY <1>1, <1>3 DEF Counted
<1>5. Joint(handle', client') /\ Counted(handle', sockets')
  <2>1. CASE live_open(g)
    BY <1>1, <1>3, <1>4, <2>1, LiveOpen
  <2>2. CASE handle.fd # None /\ live_open(handle)
    BY <1>1, <1>3, <2>2, LiveOpen
  <2> QED BY <1>2, <2>1, <2>2
<1> QED BY <1>5 DEF HandlesInv, NoLeak, Counted

\* The steps of the client that touch no connection.
LEMMA ClientStep ==
  ASSUME HandlesInv,
         \/ \E u \in Urls : UrlOpen(u)
         \/ \E h \in Hosts : RawOpen(h)
         \/ GiveUp \/ HostReset \/ do_write
  PROVE  HandlesInv'
<1>0. /\ Joint(handle, client) /\ HandleOK(handle) /\ handle \in Handles /\ ClientOK(client)
      /\ client \in Clients /\ NoLeak /\ client.got \in Seq(0..BodyLen)
  BY DEF HandlesInv, Joint, HandleOK, ClientOK, Clients
<1>1. ASSUME client.pc = "closed", sockets' = sockets, NEW u \in Urls, NEW g \in Handles, handle' = g,
             SameBytes(g, handle), g.fd = handle.fd, g.url = handle.url, g.opening = handle.opening,
             g.opened = handle.opened,
             client' = [client EXCEPT !.pc = "opening", !.want = u]
      PROVE  HandlesInv'
  <2>1. /\ client' \in Clients /\ client'.pc = "opening" /\ client'.want = u /\ client'.got = client.got
        /\ client'.eof = client.eof /\ client'.inherited = client.inherited
    BY <1>0, <1>1 DEF Clients
  <2>2. HandleOK(g)
    BY <1>0, <1>1 DEF HandleOK
  <2>3. ASSUME ~client.inherited PROVE Own(g, client')
    <3>1. Own(handle, client) /\ handle.fd = None /\ Blank(handle) /\ client.got = <<>>
          /\ InOrder(client.got) /\ ~client.eof /\ ~handle.opened
      BY <1>0, <1>1, <2>3 DEF Joint, Own, HandleOK
    <3> QED BY <1>1, <2>1, <3>1 DEF Own, Blank, SameBytes
  <2>4. Joint(handle', client')
    BY <1>1, <2>1, <2>2, <2>3 DEF Joint, ClientOK
  <2> QED BY <1>0, <1>1, <2>4 DEF HandlesInv, NoLeak
<1>2. ASSUME NEW u \in Urls, UrlOpen(u) PROVE HandlesInv'
  BY <1>0, <1>1, <1>2 DEF UrlOpen, SameBytes
<1>3. ASSUME client.pc \in {"opening", "open", "closed"}, handle' = handle, sockets' = sockets,
             client' = [client EXCEPT !.pc = "failed"]
      PROVE  HandlesInv'
  <2>1. /\ client' \in Clients /\ client'.pc = "failed" /\ client'.got = client.got /\ client'.want = client.want
        /\ client'.eof = client.eof /\ client'.inherited = client.inherited
    BY <1>0, <1>3 DEF Clients
  <2>2. ~client.inherited => InOrder(client.got) /\ ~client.eof
    BY <1>0, <1>3 DEF Joint, Own
  <2>3. ~client.inherited => Own(handle, client')
    BY <2>1, <2>2 DEF Own
  <2>4. Joint(handle', client')
    BY <1>0, <1>3, <2>1, <2>3 DEF Joint, ClientOK
  <2> QED BY <1>0, <1>3, <2>4 DEF HandlesInv, NoLeak
<1>4. ASSUME NEW host \in Hosts, RawOpen(host) PROVE HandlesInv'
  <2>1. CASE handle.raw \/ handle.opened \/ handle.opening
    BY <1>3, <1>4, <2>1 DEF RawOpen
  <2>2. CASE ~(handle.raw \/ handle.opened \/ handle.opening)
    <3> DEFINE u == [scheme |-> "RAW", host |-> host]
    <3>1. u \in Urls
      BY <1>4 DEF Urls, Schemes
    <3>2. /\ client.pc = "closed" /\ sockets' = sockets /\ handle' = [handle EXCEPT !.raw = TRUE, !.http = FALSE]
          /\ client' = [client EXCEPT !.pc = "opening", !.want = u]
      BY <1>4, <2>2 DEF RawOpen
    <3>3. /\ handle' \in Handles /\ SameBytes(handle', handle) /\ handle'.fd = handle.fd
          /\ handle'.url = handle.url /\ handle'.opening = handle.opening /\ handle'.opened = handle.opened
      BY <1>0, <3>2 DEF Handles, SameBytes
    <3> HIDE DEF u
    <3> QED BY <1>1, <3>1, <3>2, <3>3
  <2> QED BY <2>1, <2>2
<1>5. CASE GiveUp
  BY <1>3, <1>5 DEF GiveUp
<1>6. CASE HostReset
  <2>1. handle' = handle /\ sockets' = sockets /\ client' = [NoClient EXCEPT !.inherited = TRUE]
    BY <1>6 DEF HostReset
  <2>2. <<>> \in Seq(0..BodyLen)
    BY EmptySeq
  <2>3. client' \in Clients /\ client'.inherited /\ client'.pc = "closed"
    BY <2>1, <2>2 DEF Clients, NoClient
  <2>4. Joint(handle', client')
    BY <1>0, <2>1, <2>3 DEF Joint, ClientOK
  <2> QED BY <1>0, <2>1, <2>4 DEF HandlesInv, NoLeak
<1>7. CASE do_write
  <2>1. client.pc = "open" /\ handle' = handle /\ sockets' = sockets
        /\ (client' = client \/ client' = [client EXCEPT !.pc = "failed"])
    BY <1>7 DEF do_write, Reading, Fail, Nothing
  <2>2. CASE client' = client
    BY <1>0, <2>1, <2>2 DEF HandlesInv, NoLeak
  <2> QED BY <1>3, <2>1, <2>2
<1> QED BY <1>2, <1>4, <1>5, <1>6, <1>7

\* A close leaves no descriptor, no byte and no client behind.
LEMMA CloseStep ==
  ASSUME HandlesInv, do_close
  PROVE  HandlesInv'
<1>1. handle \in Handles /\ NoLeak
  BY DEF HandlesInv, Joint, HandleOK
<1>2. /\ handle' = [Fresh EXCEPT !.url = handle.url, !.http = handle.http] /\ client' = NoClient
      /\ sockets' = IF handle.fd = None THEN sockets ELSE sockets - 1
  BY DEF do_close
<1>3. <<>> \in Seq(0..BodyLen) /\ 0 \in Nat /\ Len(<<>>) = 0 /\ 1..0 = {}
  BY EmptySeq
<1>4. /\ handle'.fd = None /\ ~handle'.opening /\ ~handle'.opened /\ Blank(handle')
  BY <1>2 DEF Fresh, Blank
<1>5. handle' \in Handles
  BY <1>1, <1>2, <1>3 DEF Fresh, Handles
<1>6. /\ client' \in Clients /\ client'.pc = "closed" /\ client'.got = <<>> /\ ~client'.eof
  BY <1>2, <1>3 DEF NoClient, Clients
<1>7. InOrder(<<>>)
  BY <1>3 DEF InOrder
<1>8. Joint(handle', client')
  BY <1>4, <1>5, <1>6, <1>7 DEF Joint, HandleOK, ClientOK, Own
<1>9. sockets' = 0
  BY <1>1, <1>2 DEF NoLeak
<1> QED BY <1>4, <1>8, <1>9 DEF HandlesInv, NoLeak

\* Init and every step keep the invariant.
THEOREM HandlesInvariant == Spec => []HandlesInv
<1>1. Init => HandlesInv
  <2> SUFFICES ASSUME Init PROVE HandlesInv
    OBVIOUS
  <2>1. handle = Fresh /\ client = NoClient /\ sockets = 0
    BY DEF Init
  <2>2. <<>> \in Seq(0..BodyLen) /\ 0 \in Nat /\ Len(<<>>) = 0 /\ 1..0 = {}
    BY EmptySeq
  <2>3. /\ handle.fd = None /\ ~handle.opening /\ ~handle.opened /\ Blank(handle)
    BY <2>1 DEF Fresh, Blank
  <2>4. handle \in Handles
    BY <2>1, <2>2 DEF Fresh, Handles
  <2>5. /\ client \in Clients /\ client.pc = "closed" /\ client.got = <<>> /\ ~client.eof
    BY <2>1, <2>2 DEF NoClient, Clients
  <2>6. InOrder(<<>>)
    BY <2>2 DEF InOrder
  <2>7. Joint(handle, client)
    BY <2>3, <2>4, <2>5, <2>6 DEF Joint, HandleOK, ClientOK, Own
  <2> QED BY <2>1, <2>3, <2>7 DEF HandlesInv, NoLeak
<1>2. HandlesInv /\ [Next]_vars => HandlesInv'
  <2> SUFFICES ASSUME HandlesInv, [Next]_vars PROVE HandlesInv'
    OBVIOUS
  <2>1. ASSUME NEW u \in {w \in Urls : w.scheme # "RAW"}, UrlOpen(u) PROVE HandlesInv'
    BY <2>1, ClientStep
  <2>2. ASSUME NEW h \in Hosts, RawOpen(h) PROVE HandlesInv'
    BY <2>2, ClientStep
  <2>3. CASE do_open \/ do_raw_connect
    BY <2>3, OpenStep
  <2>4. CASE GiveUp \/ HostReset \/ do_write
    BY <2>4, ClientStep
  <2>5. CASE ReadHeader
    <3>1. Joint(handle', client') /\ handle.fd # None /\ handle'.fd # None
      BY <2>5, ReadHeaderKeeps DEF HandlesInv
    <3>2. sockets' = sockets
      BY <2>5 DEF ReadHeader
    <3> QED BY <3>1, <3>2 DEF HandlesInv, NoLeak
  <2>6. CASE do_read
    <3>1. Joint(handle, client) /\ client.pc = "open" /\ handle.opened /\ (handle.http => handle.headersDone)
      BY <2>6 DEF do_read, Reading, HeaderDue, HandlesInv
    <3>2. sockets' = sockets /\ ReadBody(handle)
      BY <2>6 DEF do_read
    <3>3. Joint(handle', client') /\ handle'.fd # None
      BY <3>1, <3>2, ReadBodyKeeps
    <3>4. handle.fd # None
      BY <3>1 DEF Joint, HandleOK
    <3> QED BY <3>2, <3>3, <3>4 DEF HandlesInv, NoLeak
  <2>7. CASE do_close
    BY <2>7, CloseStep
  <2>8. CASE Connects \/ Breaks \/ Arrives \/ PeerCloses
    BY <2>8, NetStep
  <2>9. CASE UNCHANGED vars
    BY <2>9 DEF vars, HandlesInv, NoLeak
  <2> QED BY <2>1, <2>2, <2>3, <2>4, <2>5, <2>6, <2>7, <2>8, <2>9 DEF Next
<1> QED BY <1>1, <1>2, PTL DEF Spec

-----------------------------------------------------------------------------
(* The results.                                                             *)

\* However an open ends - refused, failed, retried, given up on, interrupted by a
\* reset of the machine - the handle knows every descriptor the backend has.
THEOREM HandleNeverLeaks == Spec => []NoLeak
<1>1. HandlesInv => NoLeak
  BY DEF HandlesInv
<1> QED BY <1>1, HandlesInvariant, PTL

\* An open reported complete leads to the server that was asked for.
THEOREM HandleReachesPeer == Spec => []RightPeer
<1>1. HandlesInv => RightPeer
  <2> SUFFICES ASSUME HandlesInv, client.pc = "open", ~client.inherited
               PROVE  handle.fd # None /\ handle.fd.peer = client.want.host
    BY DEF RightPeer
  <2>1. HandleOK(handle) /\ Own(handle, client)
    BY DEF HandlesInv, Joint
  <2>2. handle.opened /\ Serves(handle.fd, client.want)
    BY <2>1 DEF Own
  <2> QED BY <2>1, <2>2 DEF HandleOK, Serves
<1> QED BY <1>1, HandlesInvariant, PTL

\* The bytes a client reads are the body's, each once and in order, however the
\* header and the body are cut into pieces and whatever size the reads have.
THEOREM HandleReadsBody == Spec => []BodyInOrder
<1>1. HandlesInv => BodyInOrder
  <2> SUFFICES ASSUME HandlesInv, ~client.inherited
               PROVE  client.got = Body(Len(client.got))
    BY DEF BodyInOrder
  <2> DEFINE got == client.got
             n == Len(got)
  <2>1. got \in Seq(0..BodyLen) /\ InOrder(got)
    BY DEF HandlesInv, Joint, ClientOK, Clients, Own
  <2> HIDE DEF got
  <2>2. got = [i \in 1..n |-> got[i]]
    BY <2>1
  <2>3. \A i \in 1..n : got[i] = i
    BY <2>1 DEF InOrder
  <2>4. [i \in 1..n |-> got[i]] = [i \in 1..n |-> i]
    BY <2>3
  <2>5. got = Body(n)
    BY <2>2, <2>4 DEF Body
  <2> QED BY <2>5 DEF got
<1> QED BY <1>1, HandlesInvariant, PTL

\* A client told "EOF" has at least the length the response declared.
THEOREM HandleEndsWhole == Spec => []EofWhole
<1>1. HandlesInv => EofWhole
  BY DEF HandlesInv, Joint, Own, EofWhole
<1> QED BY <1>1, HandlesInvariant, PTL
=============================================================================

----------------------------- MODULE NetHandles -----------------------------
(***************************************************************************)
(* A network handle of the live backend (pi1mhz_net_backend.c): URL_OPEN,   *)
(* which the client dispatches again until it is no longer PENDING,         *)
(* URL_READ with its HTTP header and length handling, URL_WRITE, URL_CLOSE, *)
(* and the raw OPEN and CONNECT that share the handle.  Sockets are         *)
(* non-blocking: every call meets whatever has arrived by then.             *)
(*                                                                         *)
(* The client is any of the NetTools: it may give up at any time, and it    *)
(* closes the handle after a failure before it opens it again.  Only a      *)
(* reset of the host machine, which the backend does not see, skips that.   *)
(***************************************************************************)
EXTENDS Integers, Sequences

CONSTANTS
  Hosts,        \* the servers
  None,         \* no socket, no URL
  HeaderLens,   \* bytes an HTTP response header may have
  BodyLen,      \* the longest body
  RequestLen,   \* bytes of the GET request
  ResponseMax,  \* sizeof handle->response - 1
  ReadMax,      \* bytes one URL_READ asks for
  MaxOpens      \* bound: opens in a behaviour

ASSUME HandlesAssumption ==
  /\ {BodyLen, MaxOpens} \subseteq Nat
  /\ HeaderLens \subseteq Nat
  /\ {RequestLen, ResponseMax, ReadMax} \subseteq Nat \ {0}

VARIABLES
  handle,   \* the net_handle
  sockets,  \* file descriptors open in the process
  client,   \* the program: what it does, the URL it wants, the bytes it has, and
            \* whether a reset left it the handle as another program used it
  opens

vars == <<handle, sockets, client, opens>>

\* What parse_url makes of a URL: "BAD" is one it refuses.  "RAW" is the
\* TCP://a.b.c.d:port/ that CONNECT composes.
Schemes == {"HTTP", "TCP", "RAW", "BAD"}
Urls == [scheme : Schemes, host : Hosts]

\* A connection: its peer, what the peer sends (header bytes are 0, the body is
\* 1, 2, ...) and the length it declares, how much of that has arrived and has
\* been received, and whether the peer has closed or the connection failed.
Sockets == [peer : Hosts, state : {"connecting", "up", "dead"},
            header : {0} \cup HeaderLens, stream : Seq(0..BodyLen), ok : BOOLEAN,
            declared : {None} \cup 0..BodyLen, arrived : Nat, taken : Nat, closed : BOOLEAN]

ASSUME NoneAssumption == None \notin Sockets

Fresh == [fd |-> None, opening |-> FALSE, opened |-> FALSE, url |-> None,
          http |-> FALSE, raw |-> FALSE, requestSet |-> FALSE, requestSent |-> 0,
          response |-> <<>>, headersDone |-> FALSE, declared |-> None, bodyRead |-> 0]

NoClient == [pc |-> "closed", want |-> None, got |-> <<>>, eof |-> FALSE, inherited |-> FALSE]

Init ==
  /\ handle = Fresh /\ sockets = 0 /\ opens = 0
  /\ client = NoClient

-----------------------------------------------------------------------------
(* The connection and what the network makes of it.                         *)

Body(n) == [i \in 1..n |-> i]
Header(n) == [i \in 1..n |-> 0]

\* A connection to host h whose server sends a header of m bytes and a body of n.
Answer(h, m, n, ok, d) ==
  [peer |-> h, state |-> "connecting", header |-> m, stream |-> Header(m) \o Body(n),
   ok |-> ok, declared |-> d, arrived |-> 0, taken |-> 0, closed |-> FALSE]

\* What a server may do with a connection for scheme s.
Answers(h, s) ==
  IF s = "HTTP"
  THEN {Answer(h, m, n, ok, d) :
          m \in HeaderLens, n \in 0..BodyLen, ok \in BOOLEAN, d \in {None, BodyLen}}
  ELSE {Answer(h, 0, n, TRUE, None) : n \in 0..BodyLen}

NetChanges(s) ==
  /\ handle.fd # None
  /\ handle' = [handle EXCEPT !.fd = s]
  /\ UNCHANGED <<sockets, client, opens>>

Connects == handle.fd # None /\ handle.fd.state = "connecting"
            /\ NetChanges([handle.fd EXCEPT !.state = "up"])

Breaks == handle.fd # None /\ handle.fd.state # "dead"
          /\ NetChanges([handle.fd EXCEPT !.state = "dead"])

\* An HTTP server answers the whole request only.
Arrives ==
  /\ handle.fd # None /\ handle.fd.state = "up"
  /\ handle.fd.arrived < Len(handle.fd.stream)
  /\ handle.http => handle.requestSent = RequestLen
  /\ NetChanges([handle.fd EXCEPT !.arrived = @ + 1])

PeerCloses ==
  /\ handle.fd # None /\ handle.fd.state = "up" /\ ~handle.fd.closed
  /\ handle.fd.arrived = Len(handle.fd.stream)
  /\ NetChanges([handle.fd EXCEPT !.closed = TRUE])

Waiting(s) == s.arrived - s.taken

\* recv of at most max bytes: how many it may return.
Recv(s, max) == 1..(IF Waiting(s) < max THEN Waiting(s) ELSE max)
Received(s, k) == SubSeq(s.stream, s.taken + 1, s.taken + k)
WouldBlock(s) == s.state # "dead" /\ Waiting(s) = 0 /\ ~s.closed
AtEnd(s) == s.state # "dead" /\ Waiting(s) = 0 /\ s.closed
Fails(s) == s.state = "dead"

\* send of n bytes takes some of them, or none while the connection is being made.
Sends(s, n) == IF s.state = "up" THEN 0..n ELSE {0}

\* getsockopt(SO_ERROR) fails on a connection that failed.  It reports one still
\* being made as EINPROGRESS or, as Linux does, as no error at all.
SoError(s) ==
  CASE s.state = "up" -> {"none"}
    [] s.state = "dead" -> {"failed"}
    [] OTHER -> {"none", "in progress"}

-----------------------------------------------------------------------------
(* live_open                                                                *)

\* What the client makes of a reply to its open: PENDING is dispatched again,
\* anything but OK is shown and the handle closed.
Replied(r) ==
  client' = [client EXCEPT !.pc = CASE r = "OK" -> "open"
                                    [] r = "PENDING" -> "opening"
                                    [] OTHER -> "failed"]

\* live_finish_open: a request goes out in as many pieces as the socket takes.  A
\* request already sent leaves nothing to send, which is taken for a failure.
live_finish_open(h) ==
  \/ /\ ~h.http
     /\ handle' = [h EXCEPT !.opened = TRUE] /\ Replied("OK")
  \/ /\ h.http /\ h.fd.state # "dead" /\ h.requestSent < RequestLen
     /\ \E k \in Sends(h.fd, RequestLen - h.requestSent) :
          LET sent == h.requestSent + k IN
          /\ handle' = [h EXCEPT !.requestSet = TRUE, !.requestSent = sent,
                                 !.opened = (sent = RequestLen)]
          /\ Replied(IF sent = RequestLen THEN "OK" ELSE "PENDING")
  \/ /\ h.http /\ (h.fd.state = "dead" \/ h.requestSent = RequestLen)
     /\ handle' = [h EXCEPT !.requestSet = TRUE] /\ Replied("CONN")

live_open(h0) ==
  LET u == h0.url
      h == [h0 EXCEPT !.http = (u.scheme = "HTTP")]
  IN
  \/ /\ u.scheme = "BAD"
     /\ handle' = h0 /\ Replied("PARAM") /\ UNCHANGED sockets
  \/ /\ u.scheme # "BAD" /\ h0.opening
     /\ \/ /\ "in progress" \in SoError(h.fd)
           /\ handle' = h /\ Replied("PENDING") /\ UNCHANGED sockets
        \/ /\ "failed" \in SoError(h.fd)
           /\ handle' = [h EXCEPT !.fd = None, !.opening = FALSE]
           /\ sockets' = sockets - 1
           /\ Replied("CONN")
        \/ /\ "none" \in SoError(h.fd)
           /\ live_finish_open([h EXCEPT !.opening = FALSE])
           /\ UNCHANGED sockets
  \/ /\ u.scheme # "BAD" /\ ~h0.opening /\ h0.fd # None
     /\ live_finish_open(h) /\ UNCHANGED sockets
  \/ /\ u.scheme # "BAD" /\ ~h0.opening /\ h0.fd = None
     /\ \/ /\ handle' = h /\ Replied("DNS") /\ UNCHANGED sockets
        \/ /\ handle' = h /\ Replied("CONN") /\ UNCHANGED sockets   \* no address answers
        \/ \E s \in Answers(u.host, u.scheme) :
             \/ /\ live_finish_open([h EXCEPT !.fd = [s EXCEPT !.state = "up"]])
                /\ sockets' = sockets + 1
             \/ /\ handle' = [h EXCEPT !.fd = s, !.opening = TRUE]
                /\ sockets' = sockets + 1
                /\ Replied("PENDING")

-----------------------------------------------------------------------------
(* The commands.                                                            *)

\* Mutant: a handle keeps the URL of its first open.
TargetKept(u) == IF handle.url = None THEN [handle EXCEPT !.url = u] ELSE handle

\* do_open: the URL is taken unless an open is under way.
Target(u) == IF ~handle.opening /\ ~handle.opened THEN [handle EXCEPT !.url = u] ELSE handle

\* The client starts an open ...
UrlOpen(u) ==
  /\ client.pc = "closed" /\ opens < MaxOpens
  /\ opens' = opens + 1
  /\ client' = [client EXCEPT !.pc = "opening", !.want = u]
  /\ UNCHANGED <<handle, sockets>>

\* ... and dispatches it until it is answered, or gives up.
do_open ==
  /\ client.pc = "opening" /\ client.want.scheme # "RAW"
  /\ live_open(Target(client.want))
  /\ UNCHANGED opens

GiveUp ==
  /\ client.pc \in {"opening", "open"}
  /\ client' = [client EXCEPT !.pc = "failed"]
  /\ UNCHANGED <<handle, sockets, opens>>

\* The raw OPEN claims an idle handle; CONNECT names the peer.
RawOpen(h) ==
  /\ client.pc = "closed" /\ opens < MaxOpens
  /\ opens' = opens + 1
  /\ IF handle.raw \/ handle.opened \/ handle.opening
     THEN client' = [client EXCEPT !.pc = "failed"] /\ UNCHANGED handle
     ELSE /\ handle' = [handle EXCEPT !.raw = TRUE, !.http = FALSE]
          /\ client' = [client EXCEPT !.pc = "opening",
                                      !.want = [scheme |-> "RAW", host |-> h]]
  /\ UNCHANGED sockets

do_raw_connect ==
  /\ client.pc = "opening" /\ client.want.scheme = "RAW"
  /\ live_open(IF ~handle.opening /\ ~handle.opened /\ handle.fd = None
               THEN [handle EXCEPT !.url = client.want] ELSE handle)
  /\ UNCHANGED opens

-----------------------------------------------------------------------------
(* do_read and do_write                                                     *)

Reading == client.pc = "open" /\ handle.opened
HeaderDue == Reading /\ handle.http /\ ~handle.headersDone
Fail == client' = [client EXCEPT !.pc = "failed"]
Nothing == UNCHANGED client

\* Mutant: the bytes asked for are counted, not those that came.
DeliverCountsAsked(h, bytes) ==
  /\ handle' = [h EXCEPT !.bodyRead = IF h.http THEN @ + ReadMax ELSE @]
  /\ client' = [client EXCEPT !.got = @ \o bytes]

\* Bytes for the client from handle h.
Deliver(h, bytes) ==
  /\ handle' = [h EXCEPT !.bodyRead = IF h.http THEN @ + Len(bytes) ELSE @]
  /\ client' = [client EXCEPT !.got = @ \o bytes]

\* The rest of the command once the header is out of the way: what the header's
\* last piece brought along, then the socket.
ReadBody(h) ==
  \/ /\ h.http /\ h.response # <<>>
     /\ LET k == IF ReadMax < Len(h.response) THEN ReadMax ELSE Len(h.response) IN
        Deliver([h EXCEPT !.response = SubSeq(@, k + 1, Len(@))], SubSeq(h.response, 1, k))
  \/ /\ ~(h.http /\ h.response # <<>>)
     /\ \/ \E k \in Recv(h.fd, ReadMax) :
             /\ ~Fails(h.fd)
             /\ Deliver([h EXCEPT !.fd.taken = @ + k], Received(h.fd, k))
        \/ WouldBlock(h.fd) /\ handle' = h /\ Nothing
        \/ Fails(h.fd) /\ handle' = h /\ Fail
        \/ /\ AtEnd(h.fd) /\ handle' = h
           /\ IF h.declared # None /\ h.bodyRead < h.declared
              THEN Fail                                   \* TCP_CLOSED
              ELSE client' = [client EXCEPT !.pc = "ended", !.eof = TRUE]

\* The room left for the header.
HeaderRoom == ResponseMax - Len(handle.response)

ReadHeader ==
  /\ HeaderDue
  /\ \/ /\ Len(handle.response) >= ResponseMax /\ UNCHANGED handle /\ Fail
     \/ /\ Len(handle.response) < ResponseMax
        /\ \/ WouldBlock(handle.fd) /\ UNCHANGED handle /\ Nothing
           \/ (Fails(handle.fd) \/ AtEnd(handle.fd)) /\ UNCHANGED handle /\ Fail
           \/ \E k \in Recv(handle.fd, HeaderRoom) :
                LET s == handle.fd
                    r == handle.response \o Received(s, k)
                    h == [handle EXCEPT !.fd.taken = @ + k, !.response = r]
                IN
                /\ ~Fails(s)
                /\ \/ Len(r) < s.header /\ handle' = h /\ Nothing
                   \/ Len(r) >= s.header /\ ~s.ok /\ handle' = h /\ Fail
                   \/ /\ Len(r) >= s.header /\ s.ok
                      /\ ReadBody([h EXCEPT !.headersDone = TRUE,
                                            !.declared = s.declared,
                                            !.response = SubSeq(r, s.header + 1, Len(r))])
  /\ UNCHANGED <<sockets, opens>>

do_read ==
  /\ Reading /\ ~HeaderDue
  /\ ReadBody(handle)
  /\ UNCHANGED <<sockets, opens>>

\* do_write: send takes a part, blocks or fails; the client retries the tail.
do_write ==
  /\ Reading
  /\ UNCHANGED <<handle, sockets, opens>>
  /\ IF Fails(handle.fd) THEN Fail ELSE Nothing

\* Mutant: only a completed open is closed.
CloseOpened ==
  /\ client.pc \in {"failed", "ended"}
  /\ handle' = [Fresh EXCEPT !.url = handle.url, !.http = handle.http]
  /\ sockets' = IF handle.opened THEN sockets - 1 ELSE sockets
  /\ client' = NoClient
  /\ UNCHANGED opens

\* Mutant: the response buffer of the last exchange is not emptied.
CloseKeepsResponse ==
  /\ client.pc \in {"failed", "ended"}
  /\ handle' = [Fresh EXCEPT !.url = handle.url, !.http = handle.http,
                             !.response = handle.response]
  /\ sockets' = IF handle.fd = None THEN sockets ELSE sockets - 1
  /\ client' = NoClient
  /\ UNCHANGED opens

do_close ==
  /\ client.pc \in {"failed", "ended"}
  /\ handle' = [Fresh EXCEPT !.url = handle.url, !.http = handle.http]
  /\ sockets' = IF handle.fd = None THEN sockets ELSE sockets - 1
  /\ client' = NoClient
  /\ UNCHANGED opens

\* BREAK: the program is gone, the backend keeps the handle as it was.
HostReset ==
  /\ client.pc # "closed"
  /\ client' = [NoClient EXCEPT !.inherited = TRUE]
  /\ UNCHANGED <<handle, sockets, opens>>

Next ==
  \/ \E u \in {w \in Urls : w.scheme # "RAW"} : UrlOpen(u)
  \/ \E h \in Hosts : RawOpen(h)
  \/ do_open \/ do_raw_connect \/ GiveUp
  \/ ReadHeader \/ do_read \/ do_write \/ do_close
  \/ HostReset
  \/ Connects \/ Breaks \/ Arrives \/ PeerCloses

Spec == Init /\ [][Next]_vars

-----------------------------------------------------------------------------
(* Properties.                                                              *)

\* The handle knows every descriptor the backend has opened: an open that
\* fails, is retried or given up on leaves none behind.
NoLeak == sockets = IF handle.fd = None THEN 0 ELSE 1

\* Until a program that was reset left the handle as it was: an open the client
\* was told is complete leads to the server it asked for, not to one an earlier
\* open had begun to connect to.
RightPeer ==
  client.pc = "open" /\ ~client.inherited =>
    handle.fd # None /\ handle.fd.peer = client.want.host

\* The client's bytes are those of the body, from its first, in order: none of
\* the header's, none of an earlier response, none lost between the header's
\* buffer and the socket.
BodyInOrder == ~client.inherited => client.got = Body(Len(client.got))

\* "EOF" after an HTTP response that declared its length means no less came.
EofWhole ==
  client.eof /\ ~client.inherited /\ handle.http /\ handle.declared # None =>
    Len(client.got) >= handle.declared
=============================================================================

----------------------------- MODULE FtpService -----------------------------
(***************************************************************************)
(* The interactive FTP client on the Pi (pi-side/pi1mhz/overlay/src/        *)
(* ftp_service.c) between three parties that interleave freely: the host's  *)
(* commands, which arrive in the FIQ handler ftp_service_command; the       *)
(* cooperative poll ftp_service_poll, which the FIQ can interrupt; and the  *)
(* lwIP callbacks, which run between two polls.                             *)
(*                                                                         *)
(* A reply line is its code and the number of the command it answers; a     *)
(* downloaded file is the bytes 1, 2, ..., FileLen.  The system timer is    *)
(* the flag timer: armed by ftp_set_deadline, expired some time after.      *)
(***************************************************************************)
EXTENDS Integers, Sequences, FiniteSets

CONSTANTS
  Hosts,         \* the server names *FTP is used with
  None,          \* NULL, or no value yet
  BadUrl,        \* a target ftp_parse_url refuses
  FileLen,       \* length of the remote file
  DataCapacity,  \* FTP_DATA_CAPACITY
  TextCapacity,  \* FTP_CONTROL_CAPACITY, in replies
  Segment,       \* the most bytes one received pbuf carries
  ReadMax,       \* the most bytes one READ asks for
  Kinds,         \* the EXEC commands the host may send
  MaxRequests    \* bound: host requests in a behaviour

ASSUME FtpAssumption ==
  /\ Hosts # {} /\ BadUrl \notin Hosts
  /\ {FileLen, MaxRequests} \subseteq Nat
  /\ {DataCapacity, TextCapacity, Segment, ReadMax} \subseteq Nat \ {0}
  /\ Kinds \subseteq {"SIMPLE", "READ", "WRITE", "LIST", "NOARG", "EMPTY"}

VARIABLES
  ftp,       \* the static struct ftp
  timer,     \* "armed" or "expired": ftp.deadline_ms against the clock
  pending, cancel, started,   \* request_pending, _cancel, _started
  command,   \* request_command
  param,     \* the byte or text after the command byte in the mailbox
  scratch,   \* the bytes READ left in the scratch page
  status,    \* the status byte the host reads
  ppc,       \* where ftp_service_poll is when a FIQ interrupts it
  outcome,   \* its local result
  hpc,       \* the host: "idle", "waiting" or "cancelling"
  received,  \* bytes the host has taken from READs of this transfer
  requests,  \* counted against its bound
  refusals,  \* turns over with every altcp_write of file data that lwIP refuses
  lookups,   \* DNS queries lwIP will still call back for
  online     \* the WiFi context has an address

mailboxVars == <<pending, cancel, started, command, param, scratch, status>>
pollVars == <<ppc, outcome>>
hostVars == <<hpc, received, requests>>
netVars == <<lookups, refusals, online>>
vars == <<ftp, timer, mailboxVars, pollVars, hostVars, netVars>>

NoReply == [code |-> 0, id |-> 0]

\* A control connection has a peer, whether it is up (ftp.control_connected), the
\* number of commands that went out on it (issued), those of them the server has
\* not answered yet (wire), the transfer whose final reply it owes, and whether
\* every request so far succeeded and no transfer was left unfinished (clean).  A data connection has a peer, whether
\* the server feeds a file into it, and how many bytes have gone through (moved).
Params == {None, BadUrl} \cup Hosts \cup Kinds \cup Nat
Verbs == {"SIMPLE", "READ", "WRITE", "LIST", "EPSV", "PASV"}
Controls == [peer : Params, connected : BOOLEAN, issued : Nat,
             wire : Seq([verb : Verbs, id : Nat]), owes : Nat, clean : BOOLEAN]
Connections == [peer : Params, feeding : BOOLEAN, moved : Nat]

ASSUME NoneAssumption == None \notin Controls /\ None \notin Connections

\* memset(&ftp, 0, sizeof ftp).  The field live is not in the C struct: it is
\* the number of pcbs lwIP holds with this service's callbacks.
Blank == [state |-> "CLOSED", operation |-> "NONE", control |-> None, data |-> None,
          address |-> None, dnsDone |-> FALSE, dnsOk |-> FALSE,
          dataConnected |-> FALSE, dataEof |-> FALSE, dataError |-> FALSE,
          transfer |-> "NONE", verb |-> "SIMPLE", host |-> None, text |-> <<>>,
          lastReply |-> NoReply, ring |-> [i \in 0..DataCapacity - 1 |-> 0],
          head |-> 0, tail |-> 0, count |-> 0, live |-> 0]

Init ==
  /\ ftp = Blank /\ timer = "armed"
  /\ pending = FALSE /\ cancel = FALSE /\ started = FALSE
  /\ command = "CLOSE" /\ param = None /\ scratch = <<>> /\ status = None
  /\ ppc = "idle" /\ outcome = "OK"
  /\ hpc = "idle" /\ received = <<>> /\ requests = 0 /\ refusals = 0
  /\ lookups = {}
  /\ online \in BOOLEAN

-----------------------------------------------------------------------------
(* Helpers of the poll: each takes the struct and yields the new one.       *)

ftp_detach(f, slot) ==
  IF f[slot] = None THEN f ELSE [f EXCEPT ![slot] = None, !.live = @ - 1]

ftp_reset(f) ==
  [Blank EXCEPT !.live = ftp_detach(ftp_detach(f, "data"), "control").live]

ftp_error(f) == [f EXCEPT !.state = "ERROR", !.operation = "NONE"]

\* What the first poll of a request does before anything else.
Begun ==
  IF started THEN ftp
  ELSE CASE command = "OPEN" -> [ftp_reset(ftp) EXCEPT !.host = param]
         [] command = "EXEC" -> [ftp EXCEPT !.operation = "NONE"]
         [] OTHER -> ftp

Expired == started /\ timer = "expired"

\* ftp_process returns r: PENDING keeps the request, anything else ends it.
Return(f, r) ==
  /\ ftp' = IF r \in {"OK", "EOF", "PENDING"} \/ f.control = None THEN f
            ELSE [f EXCEPT !.control.clean = FALSE]
  /\ started' = TRUE
  /\ IF r = "PENDING" THEN UNCHANGED pollVars ELSE ppc' = "processed" /\ outcome' = r
  /\ UNCHANGED <<pending, cancel, command, status, hostVars, online>>

\* The first poll and every ftp_set_deadline arm the timer.
Armed == timer' = "armed"
KeepTimer == timer' = IF started THEN timer ELSE "armed"
Quiet == UNCHANGED <<param, scratch, lookups, refusals>>

\* Mutant: the deadline is not looked at.
WaitForever(f) == KeepTimer /\ Return(f, "PENDING")

\* "ftp_expired() ? FTP_RESULT_TIMEOUT : FTP_RESULT_PENDING"
Wait(f) ==
  /\ KeepTimer
  /\ Return(f, IF Expired THEN "TIMEOUT" ELSE "PENDING")
WaitOrFail(f) ==
  /\ KeepTimer
  /\ IF Expired THEN Return(ftp_error(f), "TIMEOUT") ELSE Return(f, "PENDING")

\* ftp_reply: a complete reply is taken from the control text.
ftp_reply(f) == f.text # <<>>
\* Mutant: the reply stays in the text.
TakeReplyAgain(f) == [f EXCEPT !.lastReply = Head(f.text)]

TakeReply(f) == [f EXCEPT !.lastReply = Head(f.text), !.text = Tail(f.text)]
Code(f) == Head(f.text).code

\* ftp_send and the step of the operation that follows it: the command goes
\* out, or lwIP has no room (or there is no connection) and the poll waits.
SendThen(f, verb, next) ==
  \/ /\ f.control # None
     /\ LET id == f.control.issued + 1
            sent == [f.control EXCEPT !.issued = id,
                                      !.wire = Append(@, [verb |-> verb, id |-> id])]
        IN Return([f EXCEPT !.operation = next, !.control = sent], "PENDING")
     /\ Armed /\ Quiet
  \/ Wait(f) /\ Quiet

-----------------------------------------------------------------------------
(* ftp_process, one action per command and state.                           *)

Polling(c) == ppc = "idle" /\ ~cancel /\ pending /\ command = c

\* ftp_copy_request finds no text: nothing is touched.
EmptyRequest ==
  /\ Polling("OPEN") \/ Polling("EXEC")
  /\ ~started /\ param = "EMPTY"
  /\ Return(ftp, "PARAM")
  /\ UNCHANGED timer /\ Quiet

Opening(s) == Polling("OPEN") /\ param # "EMPTY" /\ Begun.state = s

OpenFailed ==
  /\ Opening("ERROR")
  /\ Return(Begun, "CONNECT") /\ KeepTimer /\ Quiet

\* The URL is bad, or WiFi has no address yet.
OpenEarly ==
  /\ Opening("CLOSED")
  /\ \/ Begun.host = BadUrl /\ Return(Begun, "PARAM") /\ KeepTimer
     \/ Begun.host # BadUrl /\ ~online /\ Wait(Begun)
  /\ Quiet

\* lwIP refuses the connection, or begins it.
ftp_start_control(f) ==
  \/ Return(ftp_error(f), "CONNECT") /\ KeepTimer
  \/ /\ Return([f EXCEPT !.control = [peer |-> f.address, connected |-> FALSE, issued |-> 0,
                                      wire |-> <<>>, owes |-> 0, clean |-> TRUE],
                         !.live = @ + 1, !.state = "CONNECTING"], "PENDING")
     /\ Armed

\* dns_gethostbyname knows the name, asks for it, or fails.
OpenLookup ==
  LET f == [Begun EXCEPT !.state = "DNS"] IN
  /\ Opening("CLOSED") /\ Begun.host # BadUrl /\ online
  /\ \/ /\ ftp_start_control([f EXCEPT !.dnsDone = TRUE, !.dnsOk = TRUE,
                                       !.address = f.host])
        /\ UNCHANGED lookups
     \/ Return(ftp_error(f), "DNS") /\ KeepTimer /\ UNCHANGED lookups
     \/ /\ lookups' = lookups \cup {f.host}
        /\ IF ~f.dnsDone THEN Return(f, "PENDING") /\ Armed
           ELSE IF f.dnsOk THEN ftp_start_control(f)
           ELSE Return(ftp_error(f), "DNS") /\ Armed
  /\ UNCHANGED <<param, scratch, refusals>>

OpenDns ==
  LET f == Begun IN
  /\ Opening("DNS")
  /\ \/ ~f.dnsDone /\ WaitOrFail(f)
     \/ f.dnsDone /\ ~f.dnsOk /\ Return(ftp_error(f), "DNS") /\ KeepTimer
     \/ f.dnsDone /\ f.dnsOk /\ ftp_start_control(f)
  /\ Quiet

OpenConnecting == Opening("CONNECTING") /\ WaitOrFail(Begun) /\ Quiet

OpenGreeting ==
  LET f == Begun IN
  /\ Opening("GREETING")
  /\ \/ ~ftp_reply(f) /\ WaitOrFail(f)
     \/ /\ ftp_reply(f) /\ KeepTimer
        /\ IF Code(f) # 220 THEN Return(ftp_error(TakeReply(f)), "CONNECT")
           ELSE Return([TakeReply(f) EXCEPT !.state = "READY", !.operation = "NONE"], "OK")
  /\ Quiet

-----------------------------------------------------------------------------
(* ftp_exec_poll                                                            *)

Executing(op) ==
  /\ Polling("EXEC") /\ ~(~started /\ param = "EMPTY")
  /\ Begun.state = "READY" /\ Begun.operation = op

ExecNotReady ==
  /\ Polling("EXEC") /\ param # "EMPTY"
  /\ Begun.state # "READY"
  /\ Return(Begun, "CONNECT") /\ KeepTimer /\ Quiet

\* GET, PUT, DIR and LS are transfers.  ftp_make_command renames the others; the
\* command buffer holds the longest request with its new name.
ftp_is_transfer(kind) == kind \in {"READ", "WRITE", "LIST"}
ftp_make_command(kind) == kind = "SIMPLE"

\* FTP_OP_NONE: a transfer prepares EPSV_SEND, anything else SIMPLE_SEND; both
\* fall through to the case that sends the command itself.
ExecStart ==
  LET f == Begun
      left == IF ftp.operation \in {"READ", "WRITE", "WRITE_FINISH"} /\ f.control # None
              THEN [f EXCEPT !.control.clean = FALSE] ELSE f
  IN
  /\ Executing("NONE")
  /\ \/ /\ param = "NOARG"
        /\ \E t \in {"READ", "WRITE"} : Return([f EXCEPT !.transfer = t], "PARAM")
        /\ KeepTimer /\ Quiet
     \/ /\ ftp_is_transfer(param)
        /\ SendThen([left EXCEPT !.operation = "EPSV_SEND", !.transfer = param,
                                 !.verb = param], param, "SIMPLE_REPLY")
     \/ /\ ftp_make_command(param)
        /\ SendThen([left EXCEPT !.operation = "SIMPLE_SEND", !.transfer = "NONE",
                                 !.verb = "SIMPLE"], "SIMPLE", "SIMPLE_REPLY")

ExecSimpleSend == Executing("SIMPLE_SEND") /\ SendThen(Begun, Begun.verb, "SIMPLE_REPLY")

ExecSimpleReply ==
  LET f == Begun IN
  /\ Executing("SIMPLE_REPLY")
  /\ \/ ~ftp_reply(f) /\ Wait(f)
     \/ /\ ftp_reply(f) /\ KeepTimer
        /\ Return([TakeReply(f) EXCEPT !.operation = "NONE"], "OK")
  /\ Quiet

ExecEpsvSend == Executing("EPSV_SEND") /\ SendThen(Begun, "EPSV", "EPSV_REPLY")
ExecPasvSend == Executing("PASV_SEND") /\ SendThen(Begun, "PASV", "PASV_REPLY")

\* ftp_start_data: drop an old data connection, empty the ring, connect to the
\* control peer's address.
ftp_start_data(f) ==
  LET g == [ftp_detach(f, "data") EXCEPT
              !.operation = "DATA_CONNECT", !.dataConnected = FALSE, !.dataEof = FALSE,
              !.dataError = FALSE, !.head = 0, !.tail = 0, !.count = 0]
  IN \/ Return(g, "CONNECT") /\ KeepTimer
     \/ /\ Return([g EXCEPT !.data = [peer |-> f.address, feeding |-> FALSE, moved |-> 0],
                            !.live = @ + 1], "PENDING")
        /\ Armed

\* The port of the reply, if it names one.
ftp_parse_epsv(f) == Code(f) = 229
ftp_parse_pasv(f) == Code(f) = 227

ExecEpsvReply ==
  LET f == Begun IN
  /\ Executing("EPSV_REPLY")
  /\ \/ ~ftp_reply(f) /\ Wait(f)
     \/ ftp_reply(f) /\ ftp_parse_epsv(f) /\ ftp_start_data(TakeReply(f))
     \/ /\ ftp_reply(f) /\ Code(f) >= 400
        /\ Return([TakeReply(f) EXCEPT !.operation = "PASV_SEND"], "PENDING") /\ KeepTimer
     \/ /\ ftp_reply(f) /\ Code(f) < 400 /\ ~ftp_parse_epsv(f)
        /\ Return(TakeReply(f), "CONNECT") /\ KeepTimer
  /\ Quiet

ExecPasvReply ==
  LET f == Begun IN
  /\ Executing("PASV_REPLY")
  /\ \/ ~ftp_reply(f) /\ Wait(f)
     \/ ftp_reply(f) /\ ftp_parse_pasv(f) /\ ftp_start_data(TakeReply(f))
     \/ ftp_reply(f) /\ ~ftp_parse_pasv(f) /\ Return(TakeReply(f), "CONNECT") /\ KeepTimer
  /\ Quiet

ExecDataConnect ==
  LET f == Begun IN
  /\ Executing("DATA_CONNECT")
  /\ \/ f.dataError /\ Return(f, "CONNECT") /\ KeepTimer /\ Quiet
     \/ ~f.dataError /\ ~f.dataConnected /\ Wait(f) /\ Quiet
     \/ /\ ~f.dataError /\ f.dataConnected
        /\ SendThen([f EXCEPT !.operation = "TRANSFER_SEND"], f.verb, "TRANSFER_REPLY")

ExecTransferSend == Executing("TRANSFER_SEND") /\ SendThen(Begun, Begun.verb, "TRANSFER_REPLY")

ExecTransferReply ==
  LET f == Begun IN
  /\ Executing("TRANSFER_REPLY")
  /\ \/ ~ftp_reply(f) /\ Wait(f)
     \/ /\ ftp_reply(f) /\ KeepTimer
        /\ IF Code(f) # 150
           THEN Return([ftp_detach(TakeReply(f), "data") EXCEPT
                          !.operation = "NONE", !.transfer = "NONE"], "OK")
           ELSE Return([TakeReply(f) EXCEPT
                          !.operation = IF f.transfer = "WRITE" THEN "WRITE" ELSE "READ"], "OK")
  /\ Quiet

-----------------------------------------------------------------------------
(* READ, WRITE and CLOSE                                                    *)

\* ftp_transfer_reply: the reply after the data, whatever its code.
ftp_transfer_reply(f) ==
  \/ ~ftp_reply(f) /\ Wait(f)
  \/ /\ ftp_reply(f) /\ KeepTimer
     /\ Return([TakeReply(f) EXCEPT !.operation = "NONE", !.transfer = "NONE"], "EOF")

\* Mutant: the byte after the tail is taken.
TakenLate(f, n) == [i \in 1..n |-> f.ring[(f.tail + i) % DataCapacity]]

\* Taking n bytes from the ring; the count overwrites the request's maximum.
Taken(f, n) == [i \in 1..n |-> f.ring[(f.tail + i - 1) % DataCapacity]]
ReadCount(f) == IF param < f.count THEN param ELSE f.count

ReadNothing ==
  /\ Polling("READ")
  /\ Begun.operation # "READ" \/ Begun.transfer = "WRITE"
  /\ Return(Begun, "PARAM") /\ KeepTimer /\ Quiet

Reading == Polling("READ") /\ Begun.operation = "READ" /\ Begun.transfer # "WRITE"

ReadBytes ==
  LET f == Begun
      n == ReadCount(f)
  IN
  /\ Reading /\ n > 0
  /\ scratch' = Taken(f, n)
  /\ param' = n
  /\ Return([f EXCEPT !.tail = (@ + n) % DataCapacity, !.count = @ - n], "OK")
  /\ Armed
  /\ UNCHANGED <<lookups, refusals>>

ReadEnd ==
  LET f == Begun IN
  /\ Reading /\ ReadCount(f) = 0
  /\ param' = 0
  /\ \/ f.dataError /\ Return(f, "CONNECT") /\ KeepTimer
     \/ ~f.dataError /\ ~f.dataEof /\ Wait(f)
     \/ ~f.dataError /\ f.dataEof /\ ftp_transfer_reply(ftp_detach(f, "data"))
  /\ UNCHANGED <<scratch, lookups, refusals>>

WriteFinish ==
  /\ Polling("WRITE") /\ Begun.operation = "WRITE_FINISH"
  /\ ftp_transfer_reply(Begun) /\ Quiet

WriteNothing ==
  /\ Polling("WRITE")
  /\ Begun.operation \notin {"WRITE", "WRITE_FINISH"} \/
     (Begun.operation = "WRITE" /\ (Begun.transfer # "WRITE" \/ Begun.data = None))
  /\ Return(Begun, "PARAM") /\ KeepTimer /\ Quiet

Writing ==
  /\ Polling("WRITE") /\ Begun.operation = "WRITE"
  /\ Begun.transfer = "WRITE" /\ Begun.data # None

\* A count of zero ends the upload: altcp_close, retried while lwIP is short
\* of memory.
WriteClose ==
  LET f == Begun IN
  /\ Writing /\ param = 0
  /\ \/ Wait(f) /\ Quiet
     \/ /\ Return([f EXCEPT !.data = None, !.live = @ - 1, !.operation = "WRITE_FINISH"],
                  "PENDING")
        /\ Armed /\ Quiet

\* The bytes are queued; or altcp_sndbuf has no room for them, which the deadline
\* ends; or altcp_write refuses them, and the poll tries again without looking at
\* the deadline.
WriteBytes ==
  LET f == Begun IN
  /\ Writing /\ param > 0
  /\ \/ Return([f EXCEPT !.data.moved = @ + param], "OK") /\ Armed /\ Quiet
     \/ Wait(f) /\ Quiet
     \/ /\ Return(f, "PENDING") /\ KeepTimer
        /\ refusals' = 1 - refusals
        /\ UNCHANGED <<param, scratch, lookups>>

\* QUIT is sent if it can be; the connections are closed either way.
Close ==
  /\ Polling("CLOSE")
  /\ Return([ftp_reset(ftp) EXCEPT !.lastReply = [code |-> 221, id |-> 0]], "OK")
  /\ KeepTimer /\ Quiet

ftp_process ==
  \/ EmptyRequest
  \/ OpenFailed \/ OpenEarly \/ OpenLookup \/ OpenDns \/ OpenConnecting \/ OpenGreeting
  \/ ExecNotReady \/ ExecStart \/ ExecSimpleSend \/ ExecSimpleReply
  \/ ExecEpsvSend \/ ExecEpsvReply \/ ExecPasvSend \/ ExecPasvReply
  \/ ExecDataConnect \/ ExecTransferSend \/ ExecTransferReply
  \/ ReadNothing \/ ReadBytes \/ ReadEnd
  \/ WriteFinish \/ WriteNothing \/ WriteClose \/ WriteBytes \/ Close

-----------------------------------------------------------------------------
(* ftp_service_poll around ftp_process, and the FIQ side.                   *)

PollCancel ==
  /\ ppc = "idle" /\ cancel
  /\ ftp' = ftp_reset(ftp)
  /\ pending' = FALSE /\ cancel' = FALSE /\ started' = FALSE
  /\ status' = "ABORT"
  /\ UNCHANGED <<timer, command, param, scratch, pollVars, hostVars, netVars>>

\* The request ends in two steps: the flags, then the status byte.
PollClear ==
  /\ ppc = "processed"
  /\ pending' = FALSE /\ started' = FALSE
  /\ ppc' = "cleared"
  /\ UNCHANGED <<ftp, timer, cancel, command, param, scratch, status, outcome,
                 hostVars, netVars>>

PollAnswer ==
  /\ ppc = "cleared"
  /\ status' = outcome
  /\ ppc' = "idle"
  /\ UNCHANGED <<ftp, timer, pending, cancel, started, command, param, scratch,
                 outcome, hostVars, netVars>>

\* ftp_service_command for anything but CANCEL.
Request(c, v) ==
  /\ IF pending THEN UNCHANGED <<pending, started, command>>
     ELSE pending' = TRUE /\ started' = FALSE /\ command' = c
  /\ param' = v
  /\ status' = "PENDING"
  /\ UNCHANGED <<cancel, scratch>>

\* ftp_service_command for CANCEL: without a request the sockets go at once.
Cancel ==
  /\ IF pending
     THEN cancel' = TRUE /\ status' = "PENDING" /\ UNCHANGED ftp
     ELSE ftp' = ftp_reset(ftp) /\ status' = "ABORT" /\ UNCHANGED cancel
  /\ UNCHANGED <<pending, started, command, param, scratch>>

\* The host (ftp.asm): one request at a time, then wait for its status.  The
\* Pi finishes a poll before the 6502 can react to what it wrote.
Asked == {<<"OPEN", h>> : h \in Hosts \cup {BadUrl}} \cup {<<"EXEC", k>> : k \in Kinds}
         \cup {<<"READ", n>> : n \in {ReadMax}} \cup {<<"WRITE", n>> : n \in 0..1}
         \cup {<<"CLOSE", 0>>}

HostRequest(a) ==
  /\ hpc = "idle" /\ ppc = "idle"
  /\ requests < MaxRequests
  /\ requests' = requests + 1
  /\ hpc' = "waiting"
  /\ Request(a[1], a[2])
  /\ UNCHANGED <<received, ftp, timer, pollVars, netVars>>

\* Escape while waiting: net_dispatch_wait gives up and CANCEL is sent.
HostEscape ==
  /\ hpc = "waiting" /\ status = "PENDING"
  /\ hpc' = "cancelling"
  /\ Cancel
  /\ UNCHANGED <<timer, pollVars, received, requests, netVars>>

HostSees ==
  /\ hpc \in {"waiting", "cancelling"} /\ ppc = "idle"
  /\ status # "PENDING"
  /\ hpc' = "idle"
  /\ received' = CASE hpc = "waiting" /\ status = "OK" /\ command = "READ" ->
                        received \o scratch
                   [] hpc = "waiting" /\ status = "OK" /\ command = "EXEC" -> <<>>
                   [] OTHER -> received
  /\ UNCHANGED <<ftp, timer, mailboxVars, pollVars, requests, netVars>>

-----------------------------------------------------------------------------
(* lwIP: its callbacks run between two polls.                               *)

Callback(f) ==
  /\ ppc = "idle"
  /\ ftp' = f
  /\ UNCHANGED <<timer, mailboxVars, pollVars, hostVars, refusals, online>>

\* The answer to a query may come after its session has gone.
ftp_dns_found(h, found) ==
  /\ h \in lookups
  /\ lookups' = lookups \ {h}
  /\ Callback(IF found THEN [ftp EXCEPT !.dnsDone = TRUE, !.dnsOk = TRUE, !.address = h]
                       ELSE [ftp EXCEPT !.dnsDone = TRUE])

\* The connection is up, perhaps after the request that asked for it timed out;
\* or it failed, and lwIP keeps no pcb.
ftp_control_connected ==
  /\ ftp.control # None /\ ~ftp.control.connected
  /\ \/ Callback([ftp EXCEPT !.control.connected = TRUE, !.state = "GREETING"])
     \/ Callback([ftp EXCEPT !.control = None, !.live = @ - 1, !.state = "ERROR"])
  /\ UNCHANGED lookups

ftp_control_error ==
  /\ ftp.control # None
  /\ Callback([ftp EXCEPT !.control = None, !.live = @ - 1, !.state = "ERROR"])
  /\ UNCHANGED lookups

\* A reply reaches ftp_control_receive: an overfull text ends the session.
ftp_control_receive(f, code, id) ==
  IF Len(f.text) = TextCapacity THEN [f EXCEPT !.state = "ERROR"]
  ELSE [f EXCEPT !.text = Append(@, [code |-> code, id |-> id])]

\* ftp_control_receive is called with an error; the pcb stays.
ControlReceiveError ==
  /\ ftp.control # None /\ ftp.control.connected
  /\ Callback([ftp EXCEPT !.state = "ERROR"])
  /\ UNCHANGED lookups

ftp_data_connected ==
  /\ ftp.data # None /\ ~ftp.dataConnected
  /\ \/ Callback([ftp EXCEPT !.dataConnected = TRUE])
     \/ Callback([ftp EXCEPT !.data = None, !.live = @ - 1, !.dataError = TRUE])
  /\ UNCHANGED lookups

\* Mutant: the pcb lwIP has freed stays in its slot.
DataErrorKeepsPcb ==
  /\ ftp.data # None
  /\ Callback([ftp EXCEPT !.live = @ - 1, !.dataError = TRUE])
  /\ UNCHANGED lookups

ftp_data_error ==
  /\ ftp.data # None
  /\ Callback([ftp EXCEPT !.data = None, !.live = @ - 1, !.dataError = TRUE])
  /\ UNCHANGED lookups

\* n bytes of the file arrive; ERR_MEM leaves them with lwIP, to come again.
ftp_data_receive(n) ==
  /\ ftp.data # None /\ ftp.data.feeding /\ ~ftp.dataEof
  /\ ftp.data.moved + n <= FileLen
  /\ n <= DataCapacity - ftp.count
  /\ Callback([ftp EXCEPT
       !.ring = [i \in DOMAIN @ |->
                   LET k == (i - ftp.head) % DataCapacity
                   IN IF k < n THEN ftp.data.moved + k + 1 ELSE @[i]],
       !.head = (@ + n) % DataCapacity,
       !.count = @ + n,
       !.data.moved = @ + n])
  /\ UNCHANGED lookups

\* The server closes the data connection, at the end of the file or before.
DataFin ==
  /\ ftp.data # None /\ ftp.dataConnected /\ ~ftp.dataEof
  /\ Callback([ftp EXCEPT !.dataEof = TRUE])
  /\ UNCHANGED lookups

\* ftp_data_receive is called with an error; the pcb stays.
DataReceiveError ==
  /\ ftp.data # None /\ ftp.dataConnected
  /\ Callback([ftp EXCEPT !.dataError = TRUE])
  /\ UNCHANGED lookups

\* The clock passes ftp.deadline_ms.
TimerExpires ==
  /\ timer = "armed" /\ pending /\ started /\ ppc = "idle"
  /\ timer' = "expired"
  /\ UNCHANGED <<ftp, mailboxVars, pollVars, hostVars, netVars>>

\* DHCP completes.
AddressReady ==
  /\ ~online /\ online' = TRUE
  /\ UNCHANGED <<ftp, timer, mailboxVars, pollVars, hostVars, lookups, refusals>>

-----------------------------------------------------------------------------
(* The FTP server.                                                          *)

Greets ==
  /\ ftp.control # None /\ ftp.state = "GREETING"
  /\ ftp.control.issued = 0 /\ ftp.text = <<>>
  /\ \E code \in {220, 421} : Callback(ftp_control_receive(ftp, code, 0))
  /\ UNCHANGED lookups

\* What a server may say to a command: a transfer starts only on a data
\* connection that is not in use.  A 229 or 227 without a port is a 200 here.
Codes(verb) ==
  CASE verb = "EPSV" -> {229, 200, 500}
    [] verb = "PASV" -> {227, 200, 500}
    [] verb = "SIMPLE" -> {200, 500}
    [] OTHER -> {425} \cup (IF ftp.data # None /\ ftp.dataConnected /\ ~ftp.data.feeding
                            THEN {150} ELSE {})

ServerReplies(code) ==
  /\ ftp.control # None /\ ftp.control.wire # <<>>
  /\ LET c == Head(ftp.control.wire)
         f == ftp_control_receive([ftp EXCEPT !.control.wire = Tail(@)], code, c.id)
     IN
     /\ code \in Codes(c.verb)
     /\ Callback(IF code = 150
                 THEN [f EXCEPT !.data.feeding = (c.verb # "WRITE"), !.control.owes = c.id]
                 ELSE f)
  /\ UNCHANGED lookups

\* The reply after the data: 226, or 426 when the data connection broke.
ServerFinishes ==
  /\ ftp.control # None /\ ftp.control.owes # 0
  /\ ~(ftp.data # None /\ ~ftp.data.feeding)      \* an upload is still open
  /\ Callback(ftp_control_receive([ftp EXCEPT !.control.owes = 0], 226, ftp.control.owes))
  /\ UNCHANGED lookups

Environment ==
  \/ \E h \in Hosts, found \in BOOLEAN : ftp_dns_found(h, found)
  \/ ftp_control_connected \/ ftp_control_error \/ ControlReceiveError
  \/ ftp_data_connected \/ ftp_data_error \/ DataFin \/ DataReceiveError
  \/ \E n \in 1..Segment : ftp_data_receive(n)
  \/ AddressReady \/ Greets \/ ServerFinishes
  \/ \E code \in {150, 200, 227, 229, 425, 500} : ServerReplies(code)

ftp_service_poll == ftp_process \/ PollCancel \/ PollClear \/ PollAnswer

Next ==
  \/ ftp_service_poll
  \/ (\E a \in Asked : HostRequest(a)) \/ HostEscape \/ HostSees
  \/ TimerExpires \/ Environment

\* The Pi's main loop polls every service, the clock runs, and the host looks
\* at the status byte; the network and the user promise nothing.
Spec ==
  /\ Init /\ [][Next]_vars
  /\ WF_vars(ftp_service_poll) /\ WF_vars(TimerExpires) /\ WF_vars(HostSees)

-----------------------------------------------------------------------------
(* Properties.                                                              *)

\* Every pcb lwIP holds for the service is in one of its two slots, and a slot
\* never names a pcb that is gone: through resets by the poll and by the FIQ,
\* errors, and a transfer that replaces another's data connection.
SocketsOwned ==
  ftp.live = Cardinality({slot \in {"control", "data"} : ftp[slot] # None})

\* The ring hands the file over in order: what the host has, what waits in the
\* scratch page and what waits in the ring are the first bytes of the file (a
\* cancelled READ drops its bytes, and the session with them).
Waiting == [i \in 1..ftp.count |-> ftp.ring[(ftp.tail + i - 1) % DataCapacity]]
InScratch == IF command = "READ" /\ hpc = "waiting"
                /\ (status = "OK" \/ (ppc # "idle" /\ outcome = "OK"))
             THEN scratch ELSE <<>>
DownloadInOrder ==
  ftp.operation = "READ" /\ ftp.data # None /\ ftp.data.feeding
  /\ hpc # "cancelling" /\ ~cancel /\ ~(command = "EXEC" /\ hpc = "waiting") =>
    received \o InScratch \o Waiting = [i \in 1..ftp.data.moved |-> i]

\* On a connection where nothing has failed and no transfer was abandoned, a
\* reply shown to the user answers the last command sent, though replies wait
\* in the same buffer and come when they like.
ReplyInStep ==
  ppc = "processed" /\ ftp.control # None /\ ftp.control.clean
  /\ ((command = "EXEC" /\ outcome = "OK") \/ outcome = "EOF") =>
    ftp.lastReply.id = ftp.control.issued

\* Every request ends, with an answer, a failure or the deadline, and a cancelled
\* one is acknowledged, whatever the network does, with one exception: while
\* altcp_write refuses the bytes of an upload although altcp_sndbuf has room for
\* them, the poll looks at no deadline (ftp_write_poll), so that a request may
\* stay pending for as long as lwIP keeps refusing.
RefusedForEver == []<><<TRUE>>_refusals
RequestEnds == RefusedForEver \/ []<>(hpc = "idle")

\* "Every cancellation must [...] leave the next FTP session usable": only a
\* request the user cancelled is reported as aborted.
AbortOnlyOwn == hpc = "waiting" => status # "ABORT"
=============================================================================

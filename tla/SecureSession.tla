--------------------------- MODULE SecureSession ---------------------------
(***************************************************************************)
(* The managed SSH session of the live backend: the provider of             *)
(* pi1mhz_wolfssh.c, which every handle shares, SSH_OPEN to SSH_PASSWORD of *)
(* do_secure, and the SSH program of the host, which dispatches OPEN again  *)
(* until it is no longer PENDING, asks about an unknown host key, asks for  *)
(* a password once, and closes on every way out but a reset of its machine. *)
(*                                                                         *)
(* wolfSSH, the servers and the address lookup are external: a call returns *)
(* any of the results the code tells apart.                                 *)
(***************************************************************************)
EXTENDS Integers

CONSTANTS
  Servers,  \* the host identities (host_id)
  Keys,     \* host keys
  None,     \* no key, no connection, no answer
  MaxRekeys \* bound: changes of a server's key

ASSUME SecureAssumption == None \notin Servers \cup Keys /\ MaxRekeys \in Nat

VARIABLES
  provider,  \* struct pi1mhz_wolfssh
  known,     \* known_hosts on disk: the key on the first line of each server, the
             \* keys on all its lines, and (history) whether a failing file has
             \* changed the outcome of a check or a write
  identity,  \* does the directory hold the key pair?
  handle,    \* opened and open_polls of the net_handle
  program,   \* the SSH program: where it is, its server, trust flag, whether the
             \* password was tried, and whether a reset left it a used session
  presents,  \* the key each server presents
  rekeys

secureVars == <<provider, known, identity, handle, program, presents, rekeys>>

Idle == [stage |-> "IDLE", fd |-> FALSE, ctx |-> FALSE, ssh |-> FALSE, keys |-> FALSE,
         password |-> FALSE, host |-> None, trust |-> FALSE, problem |-> "none",
         accepted |-> None]
NoHandle == [opened |-> FALSE, polls |-> FALSE]
NoProgram == [pc |-> "exit", want |-> None, trust |-> FALSE, tried |-> FALSE, inherited |-> FALSE]

Providers ==
  [stage : {"IDLE", "TCP", "SSH", "RESIZE", "UP"}, fd : BOOLEAN, ctx : BOOLEAN,
   ssh : BOOLEAN, keys : BOOLEAN, password : BOOLEAN, host : Servers \cup {None},
   trust : BOOLEAN, problem : {"none", "unknown", "changed"}, accepted : Keys \cup {None}]
Lists == [first : [Servers -> Keys \cup {None}], listed : [Servers -> SUBSET Keys],
          misread : BOOLEAN]
Programs ==
  [pc : {"exit", "opening", "confirm", "password", "connected", "closing"},
   want : Servers \cup {None}, trust : BOOLEAN, tried : BOOLEAN, inherited : BOOLEAN]

\* The types of the session's state.
SecureTypeOK ==
  /\ provider \in Providers /\ program \in Programs
  /\ program.pc # "exit" => program.want \in Servers
  /\ known \in Lists
  /\ identity \in BOOLEAN
  /\ handle \in [opened : BOOLEAN, polls : BOOLEAN]
  /\ presents \in [Servers -> Keys]
  /\ rekeys \in 0..MaxRekeys

SecureInit ==
  /\ provider = Idle
  /\ known = [first |-> [s \in Servers |-> None], listed |-> [s \in Servers |-> {}],
              misread |-> FALSE]
  /\ identity \in BOOLEAN
  /\ handle = NoHandle /\ program = NoProgram
  /\ presents \in [Servers -> Keys] /\ rekeys = 0

-----------------------------------------------------------------------------
(* The provider.                                                            *)

\* A reset that forgets the socket of an attempt that has no ssh object yet.
ResetKeepsSocket(p, keep) ==
  [p EXCEPT !.stage = "IDLE", !.fd = @ /\ ~p.ssh, !.ctx = FALSE, !.ssh = FALSE,
            !.keys = FALSE, !.password = @ /\ keep, !.accepted = None]

\* reset_connection: the connection and the keys go, the password unless kept.
\* host and the flags of the last attempt stay.
reset_connection(p, keep) ==
  [p EXCEPT !.stage = "IDLE", !.fd = FALSE, !.ctx = FALSE, !.ssh = FALSE, !.keys = FALSE,
            !.password = @ /\ keep, !.accepted = None]

Result(r, p) == [result |-> r, provider |-> p]
FailedWith(r, p) == Result(r, reset_connection(p, FALSE))

\* begin_tcp: what it may answer.  It may refuse the URL; without a key pair a
\* password is needed; then the lookup or every connect may fail.
begin_tcp(p, server, trust) ==
  LET q == [p EXCEPT !.host = server, !.trust = trust, !.problem = "none", !.keys = identity] IN
  IF ~identity /\ ~p.password
  THEN {FailedWith("PARAM", p), FailedWith("AUTH", q)}
  ELSE {FailedWith("PARAM", p), FailedWith("DNS", q), FailedWith("CONN", q),
        Result("PENDING", [q EXCEPT !.stage = "TCP", !.fd = TRUE])}

\* start_ssh: the socket failed, or an object cannot be made, or it goes on.
start_ssh(p) ==
  {Result("PENDING", p), FailedWith("CONN", p), FailedWith("CONN", [p EXCEPT !.ctx = TRUE]),
   Result("PENDING", [p EXCEPT !.stage = "SSH", !.ctx = TRUE, !.ssh = TRUE])}

\* check_known_host compares the key with the first line of the server.  A list
\* that cannot be opened, though it is there, counts as a changed key; one that
\* cannot be read as far as that line counts as having none.
check_known_host(server, key) ==
  LET truth == IF known.first[server] = None THEN "unknown"
               ELSE IF known.first[server] = key THEN "known" ELSE "changed"
  IN {[found |-> f, list |-> [known EXCEPT !.misread = @ \/ f # truth]] :
        f \in {truth, "changed", "unknown"}}

\* write_known_host: the line is appended to a copy that replaces the list; if the
\* list cannot be opened for the copy, the line alone does.
Appended(list, server, key) ==
  [list EXCEPT !.first[server] = IF @ = None THEN key ELSE @,
               !.listed[server] = @ \cup {key}]
OneLine(server, key) ==
  [first |-> [s \in Servers |-> IF s = server THEN key ELSE None],
   listed |-> [s \in Servers |-> IF s = server THEN {key} ELSE {}], misread |-> TRUE]
write_known_host(list, server, key) == {Appended(list, server, key), OneLine(server, key)}

\* A check that takes the trust flag before it looks at the list.
TrustsFirst(p) ==
  LET key == presents[p.host] IN
  IF p.trust \/ known.first[p.host] = key
  THEN {[provider |-> [p EXCEPT !.accepted = key],
         known |-> [known EXCEPT !.first[p.host] = key, !.listed[p.host] = {key}]]}
  ELSE {[provider |-> [p EXCEPT !.problem = "unknown"], known |-> known]}

\* A write that the connection does not wait for.
AcceptsUnwritten(p) ==
  IF p.trust \/ known.first[p.host] = presents[p.host]
  THEN {[provider |-> [p EXCEPT !.accepted = presents[p.host]], known |-> known]}
  ELSE {[provider |-> [p EXCEPT !.problem = "unknown"], known |-> known]}

\* hostkey_callback: a key that is not known is written if it is to be trusted, and
\* accepted once it is; a failed write leaves the list alone.
hostkey_callback(p) ==
  LET key == presents[p.host] IN
  UNION {
    CASE c.found = "known" -> {[provider |-> [p EXCEPT !.accepted = key], known |-> c.list]}
      [] c.found = "changed" \/ (c.found = "unknown" /\ ~p.trust) ->
           {[provider |-> [p EXCEPT !.problem = c.found], known |-> c.list]}
      [] OTHER ->
           {[provider |-> p, known |-> c.list]} \cup
           {[provider |-> [p EXCEPT !.accepted = key], known |-> l] :
              l \in write_known_host(c.list, p.host, key)} :
    c \in check_known_host(p.host, key)}

\* The end of wolfSSH_connect with an error.
ConnectFailed(p) ==
  LET r == CASE p.problem = "unknown" -> "UNKNOWN" [] p.problem = "changed" -> "PROTOCOL"
             [] OTHER -> "AUTH"
  IN Result(r, reset_connection(p, r = "UNKNOWN"))

\* wolfSSH_connect once the host key is accepted: it needs more time, is refused,
\* or has a shell.  A password or key pair is what auth_callback can offer.
Authenticates(p) ==
  {Result("PENDING", p), ConnectFailed(p),
   Result("PENDING", [p EXCEPT !.stage = "RESIZE", !.keys = FALSE, !.password = FALSE])}

\* wolfSSH_connect, which may be interrupted before the key exchange.
Connects(p) ==
  IF p.accepted # None
  THEN {[answer |-> a, known |-> known] : a \in Authenticates(p)}
  ELSE {[answer |-> a, known |-> known] : a \in {Result("PENDING", p), ConnectFailed(p)}}
       \cup UNION {{[answer |-> a, known |-> k.known] :
                      a \in IF k.provider.accepted = None THEN {ConnectFailed(k.provider)}
                            ELSE Authenticates(k.provider)} : k \in hostkey_callback(p)}

\* wolfSSH_ChangeTerminalSize.
Resizes(p) ==
  {Result("OK", [p EXCEPT !.stage = "UP"]), Result("PENDING", p), FailedWith("PROTOCOL", p)}

\* pi1mhz_wolfssh_open.
pi1mhz_wolfssh_open(p, server, trust) ==
  CASE p.stage = "IDLE" -> {[answer |-> a, known |-> known] : a \in begin_tcp(p, server, trust)}
    [] p.stage = "TCP" -> {[answer |-> a, known |-> known] : a \in start_ssh(p)}
    [] p.stage = "SSH" -> Connects(p)
    [] p.stage = "RESIZE" -> {[answer |-> a, known |-> known] : a \in Resizes(p)}
    [] p.stage = "UP" -> {[answer |-> Result("OK", p), known |-> known]}

-----------------------------------------------------------------------------
(* The program and the commands it dispatches.                              *)

\* A URL is typed and the program makes its first OPEN.
Start(s) ==
  /\ program.pc = "exit"
  /\ program' = [program EXCEPT !.pc = "opening", !.want = s, !.trust = FALSE, !.tried = FALSE]
  /\ UNCHANGED <<provider, known, identity, handle, presents, rekeys>>

\* Where the program goes with the result of an OPEN (ssh.asm).
After(r) ==
  CASE r = "PENDING" -> "opening"
    [] r = "OK" -> "connected"
    [] r = "UNKNOWN" /\ ~program.trust -> "confirm"
    [] r = "AUTH" /\ ~program.tried -> "password"
    [] OTHER -> "closing"

\* SSH_OPEN.
Open ==
  /\ program.pc = "opening"
  /\ \E o \in pi1mhz_wolfssh_open(provider, program.want, program.trust) :
       /\ provider' = o.answer.provider
       /\ known' = o.known
       /\ handle' = [handle EXCEPT !.polls = o.answer.result # "UNKNOWN",
                                   !.opened = @ \/ o.answer.result = "OK"]
       /\ program' = [program EXCEPT !.pc = After(o.answer.result)]
  /\ UNCHANGED <<identity, presents, rekeys>>

\* The answer to the fingerprint: OPEN again with bit 0, or close.
Confirm(yes) ==
  /\ program.pc = "confirm"
  /\ program' = [program EXCEPT !.pc = IF yes THEN "opening" ELSE "closing", !.trust = yes]
  /\ UNCHANGED <<provider, known, identity, handle, presents, rekeys>>

\* The password prompt: none is typed, or SSH_PASSWORD stores it and the session
\* is opened anew.
NoPasswordTyped ==
  /\ program.pc = "password"
  /\ program' = [program EXCEPT !.pc = "closing"]
  /\ UNCHANGED <<provider, known, identity, handle, presents, rekeys>>

Password ==
  /\ program.pc = "password"
  /\ IF provider.stage = "IDLE"
     THEN /\ provider' = [provider EXCEPT !.password = TRUE]
          /\ program' = [program EXCEPT !.pc = "opening", !.trust = FALSE, !.tried = TRUE]
     ELSE program' = [program EXCEPT !.pc = "closing"] /\ UNCHANGED provider
  /\ UNCHANGED <<known, identity, handle, presents, rekeys>>

\* SSH_READ and SSH_WRITE leave the session as it is; at the end of the stream, an
\* error or a key the program closes.
Finish ==
  /\ program.pc = "connected"
  /\ program' = [program EXCEPT !.pc = "closing"]
  /\ UNCHANGED <<provider, known, identity, handle, presents, rekeys>>

\* net_dispatch_wait gives up on an OPEN that stays PENDING.
GiveUp ==
  /\ program.pc = "opening"
  /\ program' = [program EXCEPT !.pc = "closing"]
  /\ UNCHANGED <<provider, known, identity, handle, presents, rekeys>>

\* SSH_CLOSE, and the program ends.
Close ==
  /\ program.pc = "closing"
  /\ provider' = reset_connection(provider, FALSE)
  /\ handle' = NoHandle
  /\ program' = NoProgram
  /\ UNCHANGED <<known, identity, presents, rekeys>>

\* A reset of the host machine, which the backend does not see.
HostReset ==
  /\ program.pc # "exit"
  /\ program' = [NoProgram EXCEPT !.inherited = TRUE]
  /\ UNCHANGED <<provider, known, identity, handle, presents, rekeys>>

\* A server presents another key from now on.
Rekey(s) ==
  /\ rekeys < MaxRekeys
  /\ \E k \in Keys \ {presents[s]} : presents' = [presents EXCEPT ![s] = k]
  /\ rekeys' = rekeys + 1
  /\ UNCHANGED <<provider, known, identity, handle, program>>

Session ==
  \/ \E s \in Servers : Start(s) \/ Rekey(s)
  \/ \E yes \in BOOLEAN : Confirm(yes)
  \/ Open \/ NoPasswordTyped \/ Password \/ Finish \/ GiveUp \/ Close \/ HostReset

\* pi1mhz_wolfssh_destroy, or a process that is killed, and pi1mhz_wolfssh_create;
\* the emulated machine starts with the process.
SecureRestart ==
  /\ provider' = Idle /\ handle' = NoHandle /\ program' = NoProgram
  /\ identity' \in BOOLEAN
  /\ UNCHANGED <<known, presents, rekeys>>

-----------------------------------------------------------------------------
(* Properties.                                                              *)

\* What the provider holds is what its stage needs: a socket from the connect on,
\* the wolfSSH objects from the handshake on, and no key material once the shell
\* is up or the session is over.  A program that ended by itself leaves nothing
\* behind, whatever it was doing (secure_service_abi.md, command 99).
SessionOwned ==
  /\ provider.fd <=> provider.stage # "IDLE"
  /\ provider.ssh <=> provider.stage \in {"SSH", "RESIZE", "UP"}
  /\ provider.ctx <=> provider.ssh
  /\ provider.keys \/ provider.password => provider.stage \notin {"RESIZE", "UP"}
  /\ provider.keys => provider.stage \in {"TCP", "SSH"}
  /\ program.pc = "exit" /\ ~program.inherited =>
       provider.stage = "IDLE" /\ ~provider.password /\ handle = NoHandle

\* A shell is up only with a server whose key is on the list: an accepted key is
\* written before the session goes on.  As long as no failure of the file has
\* changed an outcome, it is the key of the first line, the one that every later
\* session is compared with.
KeyOnList ==
  provider.stage \in {"RESIZE", "UP"} =>
    /\ provider.accepted \in known.listed[provider.host]
    /\ ~known.misread => known.first[provider.host] = provider.accepted

\* "A changed key fails closed and is never overridden by bit 0"
\* (host-tools/docs/secure_service_abi.md:67), through accepted keys, changed servers,
\* failed writes and restarts alike: the key a server is compared with stays, with
\* one exception.  write_known_host takes a list that cannot be opened for one
\* that is not there: the keys of all servers are then lost, and the list is the
\* one line of a server the user has just trusted.
KnownKept ==
  [][\/ \A s \in Servers : known.first[s] # None => known'.first[s] = known.first[s]
     \/ provider.trust /\ known' = OneLine(provider.host, presents[provider.host])]_known
=============================================================================

---------------------------- MODULE WifiControl ----------------------------
(***************************************************************************)
(* The ElkWiFi control commands of pi1mhz_net_backend.c and the profile     *)
(* file that JOIN saves and the next process loads.  Association and DHCP   *)
(* are deadlines: nothing happens at them, wifi_update looks at the clock   *)
(* at the start of every command.  A deadline is the time left to it, so    *)
(* the clock itself needs no variable.                                      *)
(*                                                                         *)
(* A password is its length and whether it is all hexadecimal digits, which *)
(* is what the validation tells apart.  The text of the answers and the     *)
(* field set of SCAN (LAPOPT) are left out.                                 *)
(***************************************************************************)
EXTENDS Integers

CONSTANTS
  Requests,        \* what JOIN may carry: [ssid, mode, password]
  AssociateDelay,  \* PI1MHZ_WIFI_ASSOCIATE_MS
  DhcpDelay,       \* PI1MHZ_WIFI_DHCP_MS
  Absent,          \* no profile file, no join yet
  Torn             \* a profile file of fewer than four lines, which does not load

Modes == {"OPEN", "AUTO", "WPA", "WEP"}
NoSsid == "none"
FixtureSsid == "Pi1MHz-Fixture"
NoPassword == [len |-> 0, hex |-> TRUE]
Passwords == [len : Nat, hex : BOOLEAN]
Ssids == {NoSsid, FixtureSsid} \cup {r.ssid : r \in Requests}
Networks == [ssid : Ssids, password : Passwords]
Credentials == [security : Modes, ssid : Ssids, password : Passwords]

\* The mode of a request is the prefix of the password text, "none" without one.
ASSUME WifiAssumption ==
  /\ AssociateDelay \in Nat /\ DhcpDelay \in Nat
  /\ Absent \notin Credentials /\ Torn \notin Credentials /\ Absent \notin Networks
  /\ \A r \in Requests : /\ r.ssid # NoSsid
                         /\ r.mode \in Modes \cup {"none"}
                         /\ r.password \in Passwords

VARIABLES
  launch,   \* the environment of this process: is there a radio, a profile path
  wifi,     \* the wifi_ fields of the backend
  profile,  \* the profile file on disk
  story     \* history: ssid and password of the last join, time since then, whether
            \* LEAVE or OFF came last, whether a save failed in this process

wifiVars == <<launch, wifi, profile, story>>

Launches == [present : BOOLEAN, persistent : BOOLEAN]

Links ==
  [enabled : BOOLEAN, connecting : BOOLEAN, associated : BOOLEAN, has_address : BOOLEAN,
   associate_in : 0..AssociateDelay, dhcp_in : 0..(AssociateDelay + DhcpDelay),
   credentials : Credentials]
Stories ==
  [joined : {Absent} \cup Networks, since : 0..(AssociateDelay + DhcpDelay),
   left : BOOLEAN, failed : BOOLEAN]

\* The types of the WiFi state and of the profile file.
WifiTypeOK ==
  /\ launch \in Launches /\ wifi \in Links /\ story \in Stories
  /\ profile \in {Absent, Torn} \cup Credentials

-----------------------------------------------------------------------------
(* Credentials and the profile file.                                        *)

\* wifi_parse_credentials: OPEN has no password, no prefix is AUTO.
Parsed(r) ==
  [ssid |-> r.ssid,
   security |-> IF r.mode = "none" THEN "AUTO" ELSE r.mode,
   password |-> IF r.mode = "OPEN" THEN NoPassword ELSE r.password]

\* wifi_credentials_valid.
Valid(c) ==
  LET n == c.password.len IN
  /\ n <= 64
  /\ CASE c.security = "OPEN" -> n = 0
       [] c.security = "AUTO" -> n = 0 \/ n \in 8..63
       [] c.security = "WPA"  -> n \in 8..63
       [] c.security = "WEP"  -> n \in {5, 13} \/ (n \in {10, 26} /\ c.password.hex)

\* What a write of c that stops early may leave: too few lines, or a shorter
\* last line, which fgets takes as it is.
Cut(c) ==
  {Torn} \cup
  {[c EXCEPT !.password = [len |-> k, hex |-> h]] :
     k \in 1..(c.password.len - 1), h \in {TRUE, c.password.hex}}

\* wifi_profile_load.
Loads(p) == p \notin {Absent, Torn} /\ Valid(p)

\* wifi_profile_save: the outcomes and the file each leaves.  Without a path it
\* saves nothing and succeeds; the file is truncated as it is opened, and a close
\* that fails may have written all of it.
Saves(c) ==
  IF ~launch.persistent
  THEN {[ok |-> TRUE, file |-> profile]}
  ELSE {[ok |-> TRUE, file |-> c], [ok |-> FALSE, file |-> profile]}
       \cup {[ok |-> FALSE, file |-> f] : f \in Cut(c) \cup {c}}

-----------------------------------------------------------------------------
(* The commands.                                                            *)

\* wifi_update, before every command.
Updated(w) ==
  LET a == w.associated \/ w.associate_in = 0
      up == a /\ w.dhcp_in = 0
  IN IF w.connecting
     THEN [w EXCEPT !.associated = a, !.has_address = @ \/ up, !.connecting = ~up]
     ELSE w

\* wifi_start_join.
wifi_start_join(w) ==
  [w EXCEPT !.enabled = TRUE, !.connecting = TRUE, !.associated = FALSE,
            !.has_address = FALSE, !.associate_in = AssociateDelay,
            !.dhcp_in = AssociateDelay + DhcpDelay]

Joining(c) == [story EXCEPT !.joined = [ssid |-> c.ssid, password |-> c.password],
                            !.since = 0, !.left = FALSE]

\* STATUS turns the radio on, the other queries only update.
Query(on) ==
  /\ wifi' = [Updated(wifi) EXCEPT !.enabled = @ \/ (on /\ launch.present)]
  /\ UNCHANGED <<launch, profile, story>>

Rejoins(w) == w.credentials.ssid # NoSsid /\ ~w.associated /\ ~w.connecting

Radio ==
  LET w == Updated(wifi) IN
  /\ UNCHANGED <<launch, profile>>
  /\ \/ /\ ~launch.present
        /\ wifi' = w /\ UNCHANGED story
     \/ /\ launch.present /\ Rejoins(w)
        /\ wifi' = wifi_start_join(w)
        /\ story' = Joining(w.credentials)
     \/ /\ launch.present /\ ~Rejoins(w)
        /\ wifi' = [w EXCEPT !.enabled = TRUE]
        /\ UNCHANGED story

\* A leave that lets a join under way go on.
LeaveConnecting(off) ==
  /\ wifi' = [Updated(wifi) EXCEPT !.associated = FALSE, !.has_address = FALSE,
                                   !.enabled = @ /\ ~off]
  /\ story' = [story EXCEPT !.left = TRUE]
  /\ UNCHANGED <<launch, profile>>

\* JOIN with operation 2 (leave) or 3 (off).
Leave(off) ==
  /\ wifi' = [Updated(wifi) EXCEPT !.associated = FALSE, !.has_address = FALSE,
                                   !.connecting = FALSE, !.enabled = @ /\ ~off]
  /\ story' = [story EXCEPT !.left = TRUE]
  /\ UNCHANGED <<launch, profile>>

\* JOIN with operation 1.  The security is stored before it is validated.  (A name or
\* text too long for its field is refused before that: Query(FALSE).)
JoinRefused(r) ==
  LET c == Parsed(r) IN
  /\ ~Valid(c)
  /\ wifi' = [Updated(wifi) EXCEPT !.credentials.security = c.security]
  /\ UNCHANGED <<launch, profile, story>>

\* A join that is not written to the file.
JoinUnsaved(r) ==
  LET c == Parsed(r) IN
  /\ Valid(c)
  /\ wifi' = wifi_start_join([Updated(wifi) EXCEPT !.credentials = c])
  /\ story' = Joining(c)
  /\ UNCHANGED <<launch, profile>>

JoinSaved(r) ==
  LET c == Parsed(r) IN
  /\ Valid(c)
  /\ \E s \in Saves(c) :
       /\ profile' = s.file
       /\ LET w == [Updated(wifi) EXCEPT !.credentials = c] IN
          IF s.ok THEN wifi' = wifi_start_join(w) /\ story' = Joining(c)
                  ELSE wifi' = w /\ story' = [story EXCEPT !.failed = TRUE]
  /\ UNCHANGED launch

Control ==
  \/ \E on \in BOOLEAN : Query(on)
  \/ Radio
  \/ \E off \in BOOLEAN : Leave(off)
  \/ \E r \in Requests : JoinRefused(r) \/ JoinSaved(r)

\* Time passes.
Elapse ==
  LET Less(n) == IF n = 0 THEN 0 ELSE n - 1 IN
  /\ wifi' = [wifi EXCEPT !.associate_in = Less(@), !.dhcp_in = Less(@)]
  /\ story' = [story EXCEPT !.since = IF @ = AssociateDelay + DhcpDelay THEN @ ELSE @ + 1]
  /\ UNCHANGED <<launch, profile>>

-----------------------------------------------------------------------------
(* The process.                                                             *)

Blank(l) ==
  [enabled |-> l.present, connecting |-> FALSE, associated |-> FALSE,
   has_address |-> FALSE, associate_in |-> 0, dhcp_in |-> 0,
   credentials |-> [security |-> "AUTO", ssid |-> NoSsid, password |-> NoPassword]]

NoStory == [joined |-> Absent, since |-> AssociateDelay + DhcpDelay, left |-> FALSE, failed |-> FALSE]

\* pi1mhz_net_backend_create, which finds file p where l has a profile path.
Created(l, p) ==
  LET b == Blank(l) IN
  IF ~l.persistent
  THEN [wifi |-> [b EXCEPT !.credentials.ssid = FixtureSsid, !.associated = l.present,
                           !.has_address = l.present],
        story |-> NoStory]
  ELSE IF l.present /\ Loads(p)
  THEN [wifi |-> wifi_start_join([b EXCEPT !.credentials = p]),
        story |-> [NoStory EXCEPT !.joined = [ssid |-> p.ssid, password |-> p.password],
                                  !.since = 0]]
  ELSE [wifi |-> b, story |-> NoStory]

WifiInit ==
  /\ launch \in Launches
  /\ profile = Absent
  /\ wifi = Created(launch, Absent).wifi
  /\ story = NoStory

\* The process ends, by pi1mhz_net_backend_destroy or because it is killed, and
\* another one is created.  One that is killed while JOIN writes the profile
\* leaves the file cut anywhere.
WifiRestart(saving) ==
  \E l \in Launches :
    /\ launch' = l
    /\ \/ ~saving /\ UNCHANGED profile
       \/ \E r \in Requests :
            /\ saving /\ launch.persistent /\ Valid(Parsed(r))
            /\ profile' \in Cut(Parsed(r)) \cup {Parsed(r)}
    /\ wifi' = Created(l, profile').wifi
    /\ story' = Created(l, profile').story

-----------------------------------------------------------------------------
(* Properties.                                                              *)

\* While the radio is joining or joined, the network in memory is the one it was
\* told to join, and it is the one a restart would join: JOIN saves before it
\* starts the association (pi-side/README.md, "Association behavior").  Until a
\* save fails: then memory and file are those of the refused JOIN.
JoinedIsStored ==
  wifi.connecting \/ wifi.associated =>
    story.joined = Absent \/ story.failed
    \/ /\ story.joined.ssid = wifi.credentials.ssid
       /\ story.joined.password = wifi.credentials.password
       /\ launch.persistent => /\ Loads(profile)
                               /\ profile.ssid = story.joined.ssid
                               /\ profile.password = story.joined.password

\* Association and address are those of the last join: after LEAVE or OFF there is
\* neither, however late the deadlines of an earlier join are looked at, and an
\* address is there only once the delays of the last join have passed, never left
\* over from the network before.
AssociationFresh ==
  /\ story.left => ~wifi.connecting /\ ~wifi.associated /\ ~wifi.has_address
  /\ wifi.has_address => wifi.associated /\ story.since >= AssociateDelay + DhcpDelay
=============================================================================

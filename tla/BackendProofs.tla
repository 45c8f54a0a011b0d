--------------------------- MODULE BackendProofs ---------------------------
(***************************************************************************)
(* Backend, for every set of requests, servers and keys and all delays.     *)
(*                                                                         *)
(* The WiFi part needs two more facts: the time since the last join and the *)
(* time left to its DHCP deadline add up to the whole delay, and a network  *)
(* in memory that was not changed by a failed save is the one in the file.  *)
(* The SSH part needs that an accepted key was on the list when accepted,   *)
(* and that the server of a running connection is the one the program asks  *)
(* for, unless a reset of the host came between.                            *)
(***************************************************************************)
EXTENDS Backend, TLAPS

-----------------------------------------------------------------------------
(* WiFi.                                                                    *)

Delay == AssociateDelay + DhcpDelay

\* The deadline of the join under way is not before its delays have passed.
DeadlineKept == wifi.connecting => story.since + wifi.dhcp_in >= Delay

\* The file holds network c.
Filed(c) == Loads(profile) /\ profile.ssid = c.ssid /\ profile.password = c.password

\* A network in memory is in the file, where there is one, until a save fails.
MemoryFiled ==
  launch.persistent /\ ~story.failed /\ wifi.credentials.ssid # NoSsid =>
    Filed(wifi.credentials)

\* A file names its network, and what is joined is what is in memory.
FileNamed == profile \in Credentials => profile.ssid # NoSsid
JoinedKnown ==
  (wifi.connecting \/ wifi.associated) /\ story.joined # Absent /\ ~story.failed =>
    /\ story.joined.ssid = wifi.credentials.ssid
    /\ story.joined.password = wifi.credentials.password
    /\ wifi.credentials.ssid # NoSsid

WifiInv ==
  WifiTypeOK /\ AssociationFresh /\ DeadlineKept /\ MemoryFiled /\ FileNamed /\ JoinedKnown

\* What wifi_update may change: a join under way comes to its association and
\* address, and only when its deadlines have passed.
LEMMA UpdatedLink ==
  ASSUME WifiInv
  PROVE  LET w == Updated(wifi)
         IN  /\ w \in Links
             /\ w.credentials = wifi.credentials /\ w.dhcp_in = wifi.dhcp_in
             /\ w.connecting => wifi.connecting
             /\ w.associated => wifi.associated \/ wifi.connecting
             /\ w.has_address => w.associated /\ story.since >= Delay
             /\ story.left => ~w.connecting /\ ~w.associated /\ ~w.has_address
<1>1. wifi \in Links /\ story \in Stories
  BY DEF WifiInv, WifiTypeOK
<1>2. CASE wifi.connecting
  <2>1. Updated(wifi) = [wifi EXCEPT
             !.associated = wifi.associated \/ wifi.associate_in = 0,
             !.has_address = wifi.has_address
                 \/ ((wifi.associated \/ wifi.associate_in = 0) /\ wifi.dhcp_in = 0),
             !.connecting = ~((wifi.associated \/ wifi.associate_in = 0) /\ wifi.dhcp_in = 0)]
    BY <1>1, <1>2 DEF Updated, Links
  <2>2. wifi.dhcp_in = 0 => story.since >= Delay
    BY <1>1, <1>2 DEF WifiInv, DeadlineKept, Links, Stories, Delay
  <2> QED BY <1>1, <1>2, <2>1, <2>2 DEF WifiInv, AssociationFresh, Links, Delay
<1>3. CASE ~wifi.connecting
  <2>1. Updated(wifi) = wifi
    BY <1>1, <1>3 DEF Updated
  <2> QED BY <1>1, <1>3, <2>1 DEF WifiInv, AssociationFresh, Delay
<1> QED BY <1>1, <1>2, <1>3 DEF Links

\* A request is parsed into credentials.
LEMMA ParsedType ==
  ASSUME NEW r \in Requests
  PROVE  Parsed(r) \in Credentials /\ Parsed(r).ssid # NoSsid
BY WifiAssumption DEF Parsed, Credentials, Ssids, Modes, NoPassword, Passwords

\* The deadlines are in their ranges when they are set.
LEMMA Deadlines ==
  /\ 0 \in 0..AssociateDelay /\ AssociateDelay \in 0..AssociateDelay
  /\ 0 \in 0..(AssociateDelay + DhcpDelay)
  /\ AssociateDelay + DhcpDelay \in 0..(AssociateDelay + DhcpDelay)
BY WifiAssumption

\* A join that starts has its whole delay before it.
LEMMA StartLink ==
  ASSUME NEW w \in Links
  PROVE  /\ wifi_start_join(w) \in Links
         /\ wifi_start_join(w).connecting /\ ~wifi_start_join(w).associated
         /\ ~wifi_start_join(w).has_address /\ wifi_start_join(w).dhcp_in = Delay
         /\ wifi_start_join(w).credentials = w.credentials
<1>1. wifi_start_join(w) \in Links
  BY Deadlines DEF wifi_start_join, Links
<1>2. wifi_start_join(w).dhcp_in = Delay /\ wifi_start_join(w).credentials = w.credentials
  BY DEF wifi_start_join, Links, Delay
<1>3. /\ wifi_start_join(w).connecting /\ ~wifi_start_join(w).associated
      /\ ~wifi_start_join(w).has_address
  BY DEF wifi_start_join, Links
<1> QED BY <1>1, <1>2, <1>3

\* The record of a join.
LEMMA JoiningStory ==
  ASSUME story \in Stories, NEW c \in Credentials
  PROVE  /\ Joining(c) \in Stories
         /\ Joining(c).joined = [ssid |-> c.ssid, password |-> c.password]
         /\ Joining(c).joined # Absent
         /\ Joining(c).since = 0 /\ Joining(c).left = FALSE
         /\ Joining(c).failed = story.failed
<1>1. [ssid |-> c.ssid, password |-> c.password] \in Networks
  BY DEF Networks, Credentials
<1>2. [ssid |-> c.ssid, password |-> c.password] # Absent
  BY <1>1, WifiAssumption
<1>3. Joining(c) \in Stories
  BY <1>1, Deadlines DEF Joining, Stories
<1> QED BY <1>2, <1>3 DEF Joining, Stories

\* A cut profile is torn or another set of credentials.
LEMMA CutType ==
  ASSUME NEW c \in Credentials, NEW f \in Cut(c)
  PROVE  f \in {Torn} \cup Credentials
<1>1. CASE f = Torn
  BY <1>1
<1>2. ASSUME NEW k \in 1..(c.password.len - 1), NEW h \in {TRUE, c.password.hex},
             f = [c EXCEPT !.password = [len |-> k, hex |-> h]]
      PROVE  f \in Credentials
  <2>1. c.password \in Passwords
    BY DEF Credentials
  <2>2. k \in Nat
    BY <2>1 DEF Passwords
  <2>3. h \in BOOLEAN
    BY <2>1 DEF Passwords
  <2>4. [len |-> k, hex |-> h] \in Passwords
    BY <2>2, <2>3 DEF Passwords
  <2> QED BY <1>2, <2>4 DEF Credentials
<1> QED BY <1>1, <1>2 DEF Cut

\* The process as created.
LEMMA CreatedInv ==
  ASSUME NEW l \in Launches, NEW p \in {Absent, Torn} \cup Credentials,
         p \in Credentials => p.ssid # NoSsid,
         launch' = l, profile' = p,
         wifi' = Created(l, p).wifi, story' = Created(l, p).story
  PROVE  WifiInv'
<1>0. NoStory \in Stories /\ NoStory.joined = Absent /\ NoStory.since = Delay
      /\ NoStory.left = FALSE /\ NoStory.failed = FALSE
  BY Deadlines DEF NoStory, Stories, Delay
<1>1. Blank(l) \in Links
  <2>1. [security |-> "AUTO", ssid |-> NoSsid, password |-> NoPassword] \in Credentials
    BY DEF Credentials, Ssids, Modes, Passwords, NoPassword
  <2>2. l.present \in BOOLEAN
    BY DEF Launches
  <2> QED BY Deadlines, <2>1, <2>2 DEF Blank, Links
<1>2. CASE ~l.persistent
  <2>1. /\ wifi' = [Blank(l) EXCEPT !.credentials.ssid = FixtureSsid, !.associated = l.present,
                                  !.has_address = l.present]
        /\ story' = NoStory
    BY <1>2 DEF Created
  <2>2. l.present \in BOOLEAN /\ FixtureSsid \in Ssids
    BY DEF Launches, Ssids
  <2>3. [Blank(l).credentials EXCEPT !.ssid = FixtureSsid] \in Credentials
    BY <1>1, <2>2 DEF Links, Credentials
  <2>4. wifi' \in Links
    BY <1>1, <2>1, <2>2, <2>3 DEF Links
  <2>5. ~wifi'.connecting /\ (wifi'.has_address => wifi'.associated)
    BY <2>1 DEF Blank
  <2>6. WifiTypeOK'
    BY <1>0, <2>1, <2>4 DEF WifiTypeOK
  <2>7. story'.since >= Delay
    BY <1>0, <2>1, WifiAssumption DEF Delay
  <2>8. AssociationFresh' /\ DeadlineKept'
    BY <1>0, <2>1, <2>5, <2>7 DEF AssociationFresh, DeadlineKept, Delay
  <2>9. MemoryFiled' /\ FileNamed' /\ JoinedKnown'
    BY <1>0, <1>2, <2>1 DEF MemoryFiled, FileNamed, JoinedKnown
  <2> QED BY <2>6, <2>8, <2>9 DEF WifiInv
<1>3. CASE l.persistent /\ l.present /\ Loads(p)
  <2>1. /\ wifi' = wifi_start_join([Blank(l) EXCEPT !.credentials = p])
        /\ story' = [NoStory EXCEPT !.joined = [ssid |-> p.ssid, password |-> p.password],
                                    !.since = 0]
    BY <1>3 DEF Created
  <2>2. p \in Credentials
    BY <1>3 DEF Loads
  <2>3. [Blank(l) EXCEPT !.credentials = p] \in Links
        /\ [Blank(l) EXCEPT !.credentials = p].credentials = p
    BY <1>1, <2>2 DEF Links
  <2>4. /\ wifi' \in Links /\ wifi'.connecting /\ ~wifi'.associated /\ ~wifi'.has_address
        /\ wifi'.dhcp_in = Delay /\ wifi'.credentials = p
    BY <2>1, <2>3, StartLink
  <2>5. [ssid |-> p.ssid, password |-> p.password] \in Networks
    BY <2>2 DEF Networks, Credentials
  <2>6. story' \in Stories
    BY <1>0, <2>1, <2>5, Deadlines DEF Stories
  <2>7. /\ story'.since = 0 /\ story'.left = FALSE
        /\ story'.joined = [ssid |-> p.ssid, password |-> p.password]
    BY <1>0, <2>1 DEF Stories
  <2>8. WifiTypeOK'
    BY <2>4, <2>6 DEF WifiTypeOK
  <2>9. AssociationFresh'
    BY <2>4, <2>7 DEF AssociationFresh
  <2>10. DeadlineKept'
    BY <2>4, <2>7, WifiAssumption DEF DeadlineKept, Delay
  <2>11. Loads(profile') /\ profile'.ssid = p.ssid /\ profile'.password = p.password
    BY <1>3
  <2>12. MemoryFiled' /\ FileNamed'
    BY <2>4, <2>11 DEF MemoryFiled, FileNamed, Filed, Loads
  <2>13. JoinedKnown'
    BY <2>2, <2>4, <2>7 DEF JoinedKnown
  <2> QED BY <2>8, <2>9, <2>10, <2>12, <2>13 DEF WifiInv
<1>4. CASE l.persistent /\ ~(l.present /\ Loads(p))
  <2>1. wifi' = Blank(l) /\ story' = NoStory
    BY <1>4 DEF Created
  <2>2. ~wifi'.connecting /\ ~wifi'.associated /\ ~wifi'.has_address
        /\ wifi'.credentials.ssid = NoSsid
    BY <2>1 DEF Blank
  <2>3. WifiTypeOK'
    BY <1>0, <1>1, <2>1 DEF WifiTypeOK
  <2> QED BY <2>2, <2>3
          DEF WifiInv, AssociationFresh, DeadlineKept, MemoryFiled, FileNamed, JoinedKnown
<1> QED BY <1>2, <1>3, <1>4 DEF Launches

\* A status query changes the link only as wifi_update lets it.
LEMMA QueryInv == ASSUME WifiInv, NEW on \in BOOLEAN, Query(on) PROVE WifiInv'
<1> DEFINE w == Updated(wifi)
<1>1. launch \in Launches /\ story \in Stories
  BY DEF WifiInv, WifiTypeOK
<1>2. (w.enabled \/ (on /\ launch.present)) \in BOOLEAN
  BY <1>1, UpdatedLink DEF Launches, Links
<1>3. /\ wifi' \in Links /\ wifi'.credentials = wifi.credentials
      /\ wifi'.connecting = w.connecting /\ wifi'.associated = w.associated
      /\ wifi'.has_address = w.has_address /\ wifi'.dhcp_in = w.dhcp_in
  BY <1>2, UpdatedLink DEF Query, Links
<1> QED BY <1>3, UpdatedLink DEF Query, WifiInv, WifiTypeOK, AssociationFresh, DeadlineKept,
        MemoryFiled, FileNamed, JoinedKnown, Filed, Delay

\* Switching the radio keeps the invariant.
LEMMA RadioInv == ASSUME WifiInv, Radio PROVE WifiInv'
<1> DEFINE w == Updated(wifi)
<1>1. CASE ~launch.present
  BY <1>1, UpdatedLink DEF Radio, WifiInv, WifiTypeOK, AssociationFresh, DeadlineKept,
     MemoryFiled, FileNamed, JoinedKnown, Filed, Delay
<1>2. CASE launch.present /\ Rejoins(w)
  <2>1. wifi' = wifi_start_join(w) /\ story' = Joining(w.credentials)
        /\ UNCHANGED <<launch, profile>>
    BY <1>2 DEF Radio
  <2>2. w.credentials \in Credentials /\ w.credentials = wifi.credentials
        /\ w.credentials.ssid # NoSsid
    BY <1>2, UpdatedLink DEF Links, Rejoins
  <2>3. /\ wifi' \in Links /\ wifi'.connecting /\ ~wifi'.associated
        /\ ~wifi'.has_address /\ wifi'.dhcp_in = Delay /\ wifi'.credentials = wifi.credentials
    BY <2>1, <2>2, UpdatedLink, StartLink
  <2>4. /\ story' \in Stories /\ story'.since = 0 /\ story'.left = FALSE
        /\ story'.joined = [ssid |-> wifi.credentials.ssid, password |-> wifi.credentials.password]
        /\ story'.failed = story.failed
    BY <2>1, <2>2, JoiningStory DEF WifiInv, WifiTypeOK
  <2>5. WifiTypeOK' /\ AssociationFresh'
    BY <2>1, <2>3, <2>4 DEF WifiInv, WifiTypeOK, AssociationFresh
  <2>6. DeadlineKept'
    BY <2>3, <2>4, WifiAssumption DEF DeadlineKept, Delay
  <2>7. MemoryFiled' /\ FileNamed' /\ JoinedKnown'
    BY <2>1, <2>2, <2>3, <2>4 DEF WifiInv, MemoryFiled, FileNamed, JoinedKnown, Filed
  <2> QED BY <2>5, <2>6, <2>7 DEF WifiInv
<1>3. CASE launch.present /\ ~Rejoins(w)
  <2>1. wifi' = [w EXCEPT !.enabled = TRUE] /\ UNCHANGED <<launch, profile, story>>
    BY <1>3 DEF Radio
  <2>2. /\ wifi' \in Links /\ wifi'.credentials = wifi.credentials
        /\ wifi'.connecting = w.connecting /\ wifi'.associated = w.associated
        /\ wifi'.has_address = w.has_address /\ wifi'.dhcp_in = w.dhcp_in
    BY <2>1, UpdatedLink DEF Links
  <2> QED BY <2>1, <2>2, UpdatedLink DEF WifiInv, WifiTypeOK, AssociationFresh, DeadlineKept,
          MemoryFiled, FileNamed, JoinedKnown, Filed, Delay
<1> QED BY <1>1, <1>2, <1>3

\* Leaving a network, with or without its profile, keeps the invariant.
LEMMA LeaveInv == ASSUME WifiInv, NEW off \in BOOLEAN, Leave(off) PROVE WifiInv'
<1> DEFINE w == Updated(wifi)
<1>1. (w.enabled /\ ~off) \in BOOLEAN
  BY UpdatedLink DEF Links
<1>2. /\ wifi' \in Links /\ wifi'.credentials = wifi.credentials
      /\ ~wifi'.connecting /\ ~wifi'.associated /\ ~wifi'.has_address
  BY <1>1, UpdatedLink DEF Leave, Links
<1>3. story' \in Stories /\ story'.failed = story.failed
  BY DEF WifiInv, WifiTypeOK, Leave, Stories
<1> QED BY <1>2, <1>3 DEF Leave, WifiInv, WifiTypeOK, AssociationFresh, DeadlineKept,
        MemoryFiled, FileNamed, JoinedKnown, Filed

\* A join that is refused leaves network and profile alone.
LEMMA JoinRefusedInv == ASSUME WifiInv, NEW r \in Requests, JoinRefused(r) PROVE WifiInv'
<1> DEFINE w == Updated(wifi)
<1>1. Parsed(r).security \in Modes
  BY ParsedType DEF Credentials
<1>2. /\ [w.credentials EXCEPT !.security = Parsed(r).security] \in Credentials
      /\ [w.credentials EXCEPT !.security = Parsed(r).security].ssid = wifi.credentials.ssid
      /\ [w.credentials EXCEPT !.security = Parsed(r).security].password
           = wifi.credentials.password
  BY <1>1, UpdatedLink DEF Links, Credentials
<1>3. /\ wifi' \in Links /\ wifi'.credentials.ssid = wifi.credentials.ssid
      /\ wifi'.credentials.password = wifi.credentials.password
      /\ wifi'.connecting = w.connecting /\ wifi'.associated = w.associated
      /\ wifi'.has_address = w.has_address /\ wifi'.dhcp_in = w.dhcp_in
  BY <1>2, UpdatedLink DEF JoinRefused, Links
<1> QED BY <1>3, UpdatedLink DEF JoinRefused, WifiInv, WifiTypeOK, AssociationFresh,
        DeadlineKept, MemoryFiled, FileNamed, JoinedKnown, Filed, Delay

\* What a save may leave in the file.
LEMMA SavesType ==
  ASSUME WifiInv, NEW r \in Requests, NEW s \in Saves(Parsed(r))
  PROVE  /\ s.file \in {Absent, Torn} \cup Credentials
         /\ s.file \in Credentials => s.file.ssid # NoSsid
         /\ s.ok /\ launch.persistent => s.file = Parsed(r)
         /\ s.ok \in BOOLEAN
<1>1. Parsed(r) \in Credentials /\ Parsed(r).ssid # NoSsid
  BY ParsedType
<1>2. ASSUME NEW f \in Cut(Parsed(r))
      PROVE  f \in {Torn} \cup Credentials /\ (f \in Credentials => f.ssid # NoSsid)
  <2>1. f \in {Torn} \cup Credentials
    BY <1>1, CutType
  <2>2. f = Torn \/ f.ssid = Parsed(r).ssid
    BY <1>1 DEF Cut, Credentials
  <2> QED BY <1>1, <2>1, <2>2, WifiAssumption
<1>3. profile \in {Absent, Torn} \cup Credentials
      /\ (profile \in Credentials => profile.ssid # NoSsid)
  BY DEF WifiInv, WifiTypeOK, FileNamed
<1>4. CASE ~launch.persistent
  <2>1. s = [ok |-> TRUE, file |-> profile]
    BY <1>4 DEF Saves
  <2>2. s.ok = TRUE /\ s.file = profile
    BY <2>1
  <2> QED BY <1>3, <1>4, <2>2
<1>5. CASE launch.persistent
  <2>1. \/ s = [ok |-> TRUE, file |-> Parsed(r)]
        \/ s = [ok |-> FALSE, file |-> profile]
        \/ \E f \in Cut(Parsed(r)) \cup {Parsed(r)} : s = [ok |-> FALSE, file |-> f]
    BY <1>5 DEF Saves
  <2>2. \/ s.ok = TRUE /\ s.file = Parsed(r)
        \/ s.ok = FALSE /\ s.file = profile
        \/ s.ok = FALSE /\ s.file \in Cut(Parsed(r)) \cup {Parsed(r)}
    BY <2>1
  <2> QED BY <1>1, <1>2, <1>3, <2>2
<1> QED BY <1>4, <1>5

\* A join that is saved changes network, memory and profile together.
LEMMA JoinSavedInv == ASSUME WifiInv, NEW r \in Requests, JoinSaved(r) PROVE WifiInv'
<1> DEFINE c == Parsed(r)
           w == [Updated(wifi) EXCEPT !.credentials = c]
<1>1. PICK s \in Saves(c) :
        /\ profile' = s.file
        /\ IF s.ok THEN wifi' = wifi_start_join(w) /\ story' = Joining(c)
                   ELSE wifi' = w /\ story' = [story EXCEPT !.failed = TRUE]
  BY DEF JoinSaved
<1>2. Valid(c) /\ launch' = launch
  BY DEF JoinSaved
<1>3. c \in Credentials /\ c.ssid # NoSsid
  BY ParsedType
<1>4. /\ w \in Links /\ w.credentials = c /\ w.connecting = Updated(wifi).connecting
      /\ w.associated = Updated(wifi).associated /\ w.has_address = Updated(wifi).has_address
      /\ w.dhcp_in = Updated(wifi).dhcp_in
  BY <1>3, UpdatedLink DEF Links
<1>5. FileNamed' /\ launch' \in Launches /\ profile' \in {Absent, Torn} \cup Credentials
  BY <1>1, <1>2, SavesType DEF FileNamed, WifiInv, WifiTypeOK
<1>6. CASE s.ok
  <2>1. /\ wifi' \in Links /\ wifi'.connecting /\ ~wifi'.associated
        /\ ~wifi'.has_address /\ wifi'.dhcp_in = Delay /\ wifi'.credentials = c
    BY <1>1, <1>4, <1>6, StartLink
  <2>2. /\ story' \in Stories /\ story'.since = 0 /\ story'.left = FALSE
        /\ story'.joined = [ssid |-> c.ssid, password |-> c.password]
    BY <1>1, <1>3, <1>6, JoiningStory DEF WifiInv, WifiTypeOK
  <2>3. WifiTypeOK' /\ AssociationFresh'
    BY <1>5, <2>1, <2>2 DEF WifiTypeOK, AssociationFresh
  <2>4. DeadlineKept'
    BY <2>1, <2>2, WifiAssumption DEF DeadlineKept, Delay
  <2>5. launch.persistent => Loads(profile') /\ profile' = c
    BY <1>1, <1>2, <1>3, <1>6, SavesType, WifiAssumption DEF Loads
  <2>6. MemoryFiled' /\ JoinedKnown'
    BY <1>2, <1>3, <2>1, <2>2, <2>5 DEF MemoryFiled, JoinedKnown, Filed, Loads
  <2> QED BY <1>5, <2>3, <2>4, <2>6 DEF WifiInv
<1>7. CASE ~s.ok
  <2>1. wifi' = w /\ story' = [story EXCEPT !.failed = TRUE]
    BY <1>1, <1>7
  <2>2. /\ story' \in Stories /\ story'.failed /\ story'.since = story.since
        /\ story'.left = story.left
    BY <2>1 DEF WifiInv, WifiTypeOK, Stories
  <2>3. WifiTypeOK' /\ AssociationFresh' /\ DeadlineKept'
    BY <1>4, <1>5, <2>1, <2>2, UpdatedLink
       DEF WifiInv, WifiTypeOK, AssociationFresh, DeadlineKept, Delay
  <2> QED BY <1>5, <2>2, <2>3 DEF WifiInv, MemoryFiled, JoinedKnown
<1> QED BY <1>6, <1>7

\* Time passing settles association and address of the last join only.
LEMMA ElapseInv == ASSUME WifiInv, Elapse PROVE WifiInv'
<1> DEFINE Less(n) == IF n = 0 THEN 0 ELSE n - 1
<1>1. wifi \in Links /\ story \in Stories
  BY DEF WifiInv, WifiTypeOK
<1>2. wifi' = [wifi EXCEPT !.associate_in = Less(wifi.associate_in),
                          !.dhcp_in = Less(wifi.dhcp_in)]
  BY <1>1 DEF Elapse, Links
<1>3. Less(wifi.associate_in) \in 0..AssociateDelay /\ Less(wifi.dhcp_in) \in 0..Delay
  BY <1>1, WifiAssumption DEF Links, Delay
<1>4. /\ wifi' \in Links /\ wifi'.connecting = wifi.connecting
      /\ wifi'.associated = wifi.associated /\ wifi'.has_address = wifi.has_address
      /\ wifi'.credentials = wifi.credentials /\ wifi'.dhcp_in = Less(wifi.dhcp_in)
  BY <1>1, <1>2, <1>3 DEF Links, Delay
<1> DEFINE since == IF story.since = Delay THEN story.since ELSE story.since + 1
<1>5. since \in 0..Delay /\ since >= story.since
  BY <1>1, WifiAssumption DEF Stories, Delay
<1>6. /\ story' \in Stories /\ story'.since = since /\ story'.left = story.left
      /\ story'.failed = story.failed /\ story'.joined = story.joined
  BY <1>1, <1>5 DEF Elapse, Stories, Delay
<1>7. story.since >= Delay => since >= Delay
  BY <1>1, <1>5, WifiAssumption DEF Stories, Delay
<1>8. story.since + wifi.dhcp_in >= Delay => since + Less(wifi.dhcp_in) >= Delay
  BY <1>1, WifiAssumption DEF Links, Stories, Delay
<1> QED BY <1>4, <1>6, <1>7, <1>8 DEF Elapse, WifiInv, WifiTypeOK, AssociationFresh,
        DeadlineKept, MemoryFiled, FileNamed, JoinedKnown, Filed, Delay

\* A restart loads what the profile file holds.
LEMMA WifiRestartInv == ASSUME WifiInv, NEW saving \in BOOLEAN, WifiRestart(saving) PROVE WifiInv'
<1>1. PICK l \in Launches :
        /\ launch' = l
        /\ \/ ~saving /\ UNCHANGED profile
           \/ \E r \in Requests :
                /\ saving /\ launch.persistent /\ Valid(Parsed(r))
                /\ profile' \in Cut(Parsed(r)) \cup {Parsed(r)}
        /\ wifi' = Created(l, profile').wifi
        /\ story' = Created(l, profile').story
  BY DEF WifiRestart
<1>2. profile' \in {Absent, Torn} \cup Credentials
      /\ (profile' \in Credentials => profile'.ssid # NoSsid)
  <2>1. CASE profile' = profile
    BY <2>1 DEF WifiInv, WifiTypeOK, FileNamed
  <2>2. ASSUME NEW r \in Requests, profile' \in Cut(Parsed(r)) \cup {Parsed(r)}
        PROVE  profile' \in {Absent, Torn} \cup Credentials
               /\ (profile' \in Credentials => profile'.ssid # NoSsid)
    <3>1. Parsed(r) \in Credentials /\ Parsed(r).ssid # NoSsid
      BY ParsedType
    <3>2. profile' \in {Torn} \cup Credentials
      BY <2>2, <3>1, CutType
    <3>3. profile' = Torn \/ profile'.ssid = Parsed(r).ssid
      BY <2>2, <3>1 DEF Cut, Credentials
    <3> QED BY <3>1, <3>2, <3>3, WifiAssumption
  <2> QED BY <1>1, <2>1, <2>2
<1> QED BY <1>1, <1>2, CreatedInv

\* Every WiFi step keeps the invariant.
LEMMA WifiControlInv == WifiInv /\ Control => WifiInv'
BY QueryInv, RadioInv, LeaveInv, JoinRefusedInv, JoinSavedInv DEF Control

-----------------------------------------------------------------------------
(* SSH.                                                                     *)

\* What provider p holds is what its stage needs.
Holds(p) ==
  /\ p.fd <=> p.stage # "IDLE"
  /\ p.ssh <=> p.stage \in {"SSH", "RESIZE", "UP"}
  /\ p.ctx <=> p.ssh
  /\ p.keys \/ p.password => p.stage \notin {"RESIZE", "UP"}
  /\ p.keys => p.stage \in {"TCP", "SSH"}

\* An accepted key is on list k, a shell has one, a connection has a server.
Vouched(p, k) ==
  /\ p.accepted # None => /\ p.stage \in {"SSH", "RESIZE", "UP"}
                          /\ p.accepted \in k.listed[p.host]
                          /\ ~k.misread => k.first[p.host] = p.accepted
  /\ p.stage \in {"RESIZE", "UP"} => p.accepted # None
  /\ p.stage # "IDLE" => p.host \in Servers

Sound(p, k) == p \in Providers /\ Holds(p) /\ Vouched(p, k)

\* The first key of a server is one of its keys.
Listing(k) == k \in Lists /\ \A s \in Servers : k.first[s] # None => k.first[s] \in k.listed[s]

\* The keys of list k are kept in list l, or l is the one line of a trusted server.
Kept(k, l) ==
  \/ \A s \in Servers : k.first[s] # None => l.first[s] = k.first[s]
  \/ provider.trust /\ l = OneLine(provider.host, presents[provider.host])

\* What an OPEN may answer.
Answer(o) ==
  /\ Listing(o.known) /\ Kept(known, o.known)
  /\ Sound(o.answer.provider, o.known)

Left ==
  program.pc = "exit" /\ ~program.inherited =>
    provider.stage = "IDLE" /\ ~provider.password /\ handle = NoHandle

SecureInv == SecureTypeOK /\ Listing(known) /\ Sound(provider, known) /\ Left

\* A reset leaves nothing behind.
LEMMA ResetSound ==
  ASSUME NEW p \in Providers, NEW keep \in BOOLEAN, NEW k
  PROVE  /\ Sound(reset_connection(p, keep), k)
         /\ reset_connection(p, keep).stage = "IDLE"
         /\ ~keep => ~reset_connection(p, keep).password
<1> DEFINE q == reset_connection(p, keep)
<1>1. (p.password /\ keep) \in BOOLEAN
  OBVIOUS
<1>2. q \in Providers
  BY <1>1 DEF reset_connection, Providers
<1>3. /\ q.stage = "IDLE" /\ q.fd = FALSE /\ q.ctx = FALSE /\ q.ssh = FALSE /\ q.keys = FALSE
      /\ q.accepted = None /\ q.password = (p.password /\ keep)
  BY DEF reset_connection, Providers
<1> QED BY <1>2, <1>3 DEF Sound, Holds, Vouched

\* A failed open leaves the provider idle and sound.
LEMMA FailedSound ==
  ASSUME NEW p \in Providers, NEW r, NEW k
  PROVE  /\ FailedWith(r, p).result = r
         /\ Sound(FailedWith(r, p).provider, k) /\ FailedWith(r, p).provider.stage = "IDLE"
<1>1. FailedWith(r, p).result = r /\ FailedWith(r, p).provider = reset_connection(p, FALSE)
  BY DEF FailedWith, Result
<1> QED BY <1>1, ResetSound

\* A failed handshake leaves the provider idle and sound, and is never reported as OK.
LEMMA ConnectFailedSound ==
  ASSUME NEW p \in Providers, NEW k
  PROVE  /\ ConnectFailed(p).result # "OK"
         /\ Sound(ConnectFailed(p).provider, k) /\ ConnectFailed(p).provider.stage = "IDLE"
<1> DEFINE r == CASE p.problem = "unknown" -> "UNKNOWN" [] p.problem = "changed" -> "PROTOCOL"
                  [] OTHER -> "AUTH"
<1>1. ConnectFailed(p).result = r /\ ConnectFailed(p).provider = reset_connection(p, r = "UNKNOWN")
  BY DEF ConnectFailed, Result
<1>2. r # "OK" /\ (r = "UNKNOWN") \in BOOLEAN
  OBVIOUS
<1> QED BY <1>1, <1>2, ResetSound

\* The first OPEN.
LEMMA BeginAnswer ==
  ASSUME SecureInv, provider.stage = "IDLE", NEW server \in Servers, NEW trust \in BOOLEAN,
         NEW a \in begin_tcp(provider, server, trust)
  PROVE  Answer([answer |-> a, known |-> known])
<1> DEFINE q == [provider EXCEPT !.host = server, !.trust = trust, !.problem = "none",
                                 !.keys = identity]
           t == [q EXCEPT !.stage = "TCP", !.fd = TRUE]
<1>0. provider \in Providers /\ identity \in BOOLEAN /\ Holds(provider) /\ Vouched(provider, known)
  BY DEF SecureInv, SecureTypeOK, Sound
<1>1. q \in Providers
  BY <1>0 DEF Providers
<1>2. \/ \E r : a = FailedWith(r, provider) /\ r # "OK"
      \/ \E r : a = FailedWith(r, q) /\ r # "OK"
      \/ a = Result("PENDING", t)
  BY DEF begin_tcp
<1>3. CASE \E r : a = FailedWith(r, provider) /\ r # "OK"
  BY <1>0, <1>3, FailedSound DEF Answer, Kept, SecureInv, SecureTypeOK
<1>4. CASE \E r : a = FailedWith(r, q) /\ r # "OK"
  BY <1>1, <1>4, FailedSound DEF Answer, Kept, SecureInv, SecureTypeOK
<1>5. CASE a = Result("PENDING", t)
  <2>1. a.result = "PENDING" /\ a.provider = t
    BY <1>5 DEF Result
  <2>2. t \in Providers
    BY <1>1 DEF Providers
  <2>3. /\ t.stage = "TCP" /\ t.fd = TRUE /\ t.host = server /\ t.accepted = provider.accepted
        /\ t.ssh = provider.ssh /\ t.ctx = provider.ctx
    BY <1>0 DEF Providers
  <2>4. Sound(t, known)
    BY <1>0, <2>2, <2>3 DEF Sound, Holds, Vouched
  <2> QED BY <2>1, <2>3, <2>4 DEF Answer, Kept, SecureInv, SecureTypeOK
<1> QED BY <1>2, <1>3, <1>4, <1>5

\* The handshake begins.
LEMMA StartAnswer ==
  ASSUME SecureInv, provider.stage = "TCP", NEW a \in start_ssh(provider)
  PROVE  Answer([answer |-> a, known |-> known])
<1> DEFINE c == [provider EXCEPT !.ctx = TRUE]
           t == [provider EXCEPT !.stage = "SSH", !.ctx = TRUE, !.ssh = TRUE]
<1>0. provider \in Providers /\ Sound(provider, known)
  BY DEF SecureInv, Sound
<1>1. c \in Providers /\ t \in Providers
  BY <1>0 DEF Providers
<1>2. \/ a = Result("PENDING", provider) \/ a = FailedWith("CONN", provider)
      \/ a = FailedWith("CONN", c) \/ a = Result("PENDING", t)
  BY DEF start_ssh
<1>3. CASE a = Result("PENDING", provider)
  BY <1>0, <1>3 DEF Answer, Kept, SecureInv, SecureTypeOK, Result
<1>4. CASE a = FailedWith("CONN", provider) \/ a = FailedWith("CONN", c)
  BY <1>0, <1>1, <1>4, FailedSound DEF Answer, Kept, SecureInv, SecureTypeOK
<1>5. CASE a = Result("PENDING", t)
  <2>1. a.result = "PENDING" /\ a.provider = t
    BY <1>5 DEF Result
  <2>2. /\ t.stage = "SSH" /\ t.fd = provider.fd /\ t.host = provider.host
        /\ t.accepted = provider.accepted /\ t.ssh = TRUE /\ t.ctx = TRUE
    BY <1>0 DEF Providers
  <2>3. Sound(t, known)
    BY <1>0, <1>1, <2>2 DEF Sound, Holds, Vouched
  <2> QED BY <2>1, <2>2, <2>3 DEF Answer, Kept, SecureInv, SecureTypeOK
<1> QED BY <1>2, <1>3, <1>4, <1>5

\* What a check leaves of the list: at most the mark that it was misread.
LEMMA CheckKeeps ==
  ASSUME Listing(known), NEW server \in Servers, NEW key \in Keys,
         NEW c \in check_known_host(server, key)
  PROVE  /\ c.found \in {"known", "changed", "unknown"}
         /\ Listing(c.list) /\ c.list.first = known.first /\ c.list.listed = known.listed
         /\ c.found = "known" => known.first[server] = key
         /\ c.found = "unknown" /\ ~c.list.misread => known.first[server] = None
<1> DEFINE truth == IF known.first[server] = None THEN "unknown"
                    ELSE IF known.first[server] = key THEN "known" ELSE "changed"
<1>1. PICK f \in {truth, "changed", "unknown"} :
        c = [found |-> f, list |-> [known EXCEPT !.misread = @ \/ f # truth]]
  BY DEF check_known_host
<1> DEFINE m == known.misread \/ f # truth
           l == [known EXCEPT !.misread = m]
<1>2. known \in Lists /\ m \in BOOLEAN
  BY DEF Listing
<1>3. c.found = f /\ c.list = l
  BY <1>1
<1>4. (f = "known" => truth = "known") /\ truth \in {"known", "changed", "unknown"}
  OBVIOUS
<1>5. (truth = "known" => known.first[server] = key)
      /\ (truth = "unknown" => known.first[server] = None)
  BY SecureAssumption
<1>6. ~m => f = truth
  OBVIOUS
<1> HIDE DEF m, truth
<1>7. l \in Lists /\ l.first = known.first /\ l.listed = known.listed /\ l.misread = m
  BY <1>2 DEF Lists
<1> QED BY <1>3, <1>4, <1>5, <1>6, <1>7 DEF Listing

\* The line of a server appended to list k.
LEMMA AppendKeeps ==
  ASSUME NEW k, Listing(k), NEW server \in Servers, NEW key \in Keys
  PROVE  LET l == Appended(k, server, key) IN
         /\ Listing(l) /\ key \in l.listed[server] /\ l.misread = k.misread
         /\ \A s \in Servers : k.first[s] # None => l.first[s] = k.first[s]
         /\ k.first[server] = None => l.first[server] = key
<1> DEFINE fs == [k.first EXCEPT ![server] = IF @ = None THEN key ELSE @]
           ks == [k.listed EXCEPT ![server] = @ \cup {key}]
           l == Appended(k, server, key)
           m == [k EXCEPT !.first = fs, !.listed = ks]
<1>1. /\ k \in Lists /\ k.first \in [Servers -> Keys \cup {None}]
      /\ k.listed \in [Servers -> SUBSET Keys]
  BY DEF Listing, Lists
<1>2. l = m
  BY <1>1 DEF Appended, Lists
<1>3. fs \in [Servers -> Keys \cup {None}] /\ ks \in [Servers -> SUBSET Keys]
  BY <1>1
<1>4. /\ \A s \in Servers : k.first[s] # None => fs[s] = k.first[s]
      /\ k.first[server] = None => fs[server] = key
      /\ \A s \in Servers : fs[s] = k.first[s] \/ (s = server /\ fs[s] = key)
  BY <1>1
<1>5. key \in ks[server] /\ \A s \in Servers : k.listed[s] \subseteq ks[s]
  BY <1>1
<1> HIDE DEF fs, ks
<1>6. m \in Lists /\ m.first = fs /\ m.listed = ks /\ m.misread = k.misread
  BY <1>1, <1>3 DEF Lists
<1> HIDE DEF l, m
<1>7. \A s \in Servers : fs[s] # None => fs[s] \in ks[s]
  BY <1>4, <1>5 DEF Listing
<1> QED BY <1>2, <1>4, <1>5, <1>6, <1>7 DEF Listing, l

\* The list that is one line.
LEMMA OneLineIs ==
  ASSUME NEW server \in Servers, NEW key \in Keys
  PROVE  LET l == OneLine(server, key) IN
         Listing(l) /\ key \in l.listed[server] /\ l.misread
<1> DEFINE fs == [s \in Servers |-> IF s = server THEN key ELSE None]
           ks == [s \in Servers |-> IF s = server THEN {key} ELSE {}]
           l == OneLine(server, key)
<1>1. l = [first |-> fs, listed |-> ks, misread |-> TRUE]
  BY DEF OneLine
<1>2. fs \in [Servers -> Keys \cup {None}] /\ ks \in [Servers -> SUBSET Keys]
  OBVIOUS
<1>3. key \in ks[server] /\ \A s \in Servers : fs[s] # None => fs[s] \in ks[s]
  OBVIOUS
<1> HIDE DEF fs, ks, l
<1> QED BY <1>1, <1>2, <1>3 DEF Listing, Lists, l

\* What hostkey_callback may leave: p with a problem, or with a key that is on the
\* list now; the list keeps what it has, or is one line.
LEMMA CallbackKeeps ==
  ASSUME SecureInv, provider.stage = "SSH", provider.accepted = None,
         NEW k \in hostkey_callback(provider)
  PROVE  /\ Listing(k.known) /\ Kept(known, k.known) /\ k.provider \in Providers
         /\ k.provider.accepted # None => Sound(k.provider, k.known) /\ k.provider.stage = "SSH"
<1> DEFINE p == provider
           key == presents[p.host]
           good == [p EXCEPT !.accepted = key]
<1>0. p \in Providers /\ Holds(p) /\ Vouched(p, known) /\ Listing(known)
  BY DEF SecureInv, Sound
<1>1. p.host \in Servers /\ key \in Keys /\ key # None
  BY <1>0, SecureAssumption DEF Vouched, SecureInv, SecureTypeOK
<1>2. good \in Providers /\ good.host = p.host /\ good.stage = "SSH" /\ good.accepted = key
  BY <1>0, <1>1 DEF Providers
<1>3. good.fd = p.fd /\ good.ctx = p.ctx /\ good.ssh = p.ssh /\ good.keys = p.keys
      /\ good.password = p.password
  BY <1>0 DEF Providers
<1>4. Holds(good)
  BY <1>0, <1>2, <1>3 DEF Holds
<1>5. PICK c \in check_known_host(p.host, key) :
        \/ c.found = "known" /\ k = [provider |-> good, known |-> c.list]
        \/ c.found \in {"changed", "unknown"}
           /\ k = [provider |-> [p EXCEPT !.problem = c.found], known |-> c.list]
        \/ k = [provider |-> p, known |-> c.list]
        \/ /\ c.found = "unknown" /\ p.trust
           /\ \E l \in write_known_host(c.list, p.host, key) : k = [provider |-> good, known |-> l]
  <2>1. PICK c \in check_known_host(p.host, key) :
          k \in CASE c.found = "known" -> {[provider |-> good, known |-> c.list]}
              [] c.found = "changed" \/ (c.found = "unknown" /\ ~p.trust) ->
                   {[provider |-> [p EXCEPT !.problem = c.found], known |-> c.list]}
              [] OTHER ->
                   {[provider |-> p, known |-> c.list]} \cup
                   {[provider |-> good, known |-> l] :
                      l \in write_known_host(c.list, p.host, key)}
    BY DEF hostkey_callback
  <2>2. c.found \in {"known", "changed", "unknown"} /\ p.trust \in BOOLEAN
    BY <1>0, <1>1, CheckKeeps DEF Providers
  <2> HIDE DEF p, key, good
  <2> QED BY <2>1, <2>2
<1>6. /\ Listing(c.list) /\ c.list.first = known.first /\ c.list.listed = known.listed
      /\ c.found = "known" => known.first[p.host] = key
      /\ c.found = "unknown" /\ ~c.list.misread => known.first[p.host] = None
  BY <1>0, <1>1, CheckKeeps
<1>7. Kept(known, c.list)
  BY <1>6 DEF Kept
<1>8. CASE c.found = "known" /\ k = [provider |-> good, known |-> c.list]
  <2>1. k.provider = good /\ k.known = c.list
    BY <1>8
  <2>2. key \in c.list.listed[p.host] /\ c.list.first[p.host] = key
    BY <1>0, <1>1, <1>6, <1>8 DEF Listing
  <2>3. Vouched(good, c.list)
    BY <1>1, <1>2, <2>2 DEF Vouched
  <2> QED BY <1>2, <1>4, <1>6, <1>7, <2>1, <2>3 DEF Sound
<1>9. CASE \/ k = [provider |-> p, known |-> c.list]
           \/ /\ c.found \in {"changed", "unknown"}
              /\ k = [provider |-> [p EXCEPT !.problem = c.found], known |-> c.list]
  <2>1. k.known = c.list /\ k.provider \in Providers /\ k.provider.accepted = None
    BY <1>0, <1>9 DEF Providers
  <2> QED BY <1>6, <1>7, <2>1
<1>10. ASSUME c.found = "unknown", p.trust, NEW l \in write_known_host(c.list, p.host, key),
              k = [provider |-> good, known |-> l]
       PROVE  /\ Listing(k.known) /\ Kept(known, k.known) /\ k.provider \in Providers
              /\ Sound(k.provider, k.known) /\ k.provider.stage = "SSH"
  <2>1. k.provider = good /\ k.known = l
    BY <1>10
  <2>2. l = Appended(c.list, p.host, key) \/ l = OneLine(p.host, key)
    BY <1>10 DEF write_known_host
  <2>3. /\ Listing(l) /\ key \in l.listed[p.host] /\ Kept(known, l)
        /\ ~l.misread => l.first[p.host] = key
    <3>1. CASE l = Appended(c.list, p.host, key)
      <4>1. /\ Listing(l) /\ key \in l.listed[p.host] /\ l.misread = c.list.misread
            /\ \A s \in Servers : c.list.first[s] # None => l.first[s] = c.list.first[s]
            /\ c.list.first[p.host] = None => l.first[p.host] = key
        BY <1>1, <1>6, <3>1, AppendKeeps
      <4> QED BY <1>6, <1>10, <4>1 DEF Kept
    <3>2. CASE l = OneLine(p.host, key)
      <4>1. Listing(l) /\ key \in l.listed[p.host] /\ l.misread
        BY <1>1, <3>2, OneLineIs
      <4> QED BY <1>10, <3>2, <4>1 DEF Kept
    <3> QED BY <2>2, <3>1, <3>2
  <2>4. Vouched(good, l)
    BY <1>1, <1>2, <2>3 DEF Vouched
  <2> QED BY <1>2, <1>4, <2>1, <2>3, <2>4 DEF Sound
<1> QED BY <1>5, <1>8, <1>9, <1>10

\* What follows an accepted key.
LEMMA AuthAnswer ==
  ASSUME NEW p \in Providers, NEW k, Sound(p, k), p.stage = "SSH", p.accepted # None,
         NEW a \in Authenticates(p)
  PROVE  Sound(a.provider, k)
<1> DEFINE t == [p EXCEPT !.stage = "RESIZE", !.keys = FALSE, !.password = FALSE]
<1>1. a = Result("PENDING", p) \/ a = ConnectFailed(p) \/ a = Result("PENDING", t)
  BY DEF Authenticates
<1>2. CASE a = Result("PENDING", p)
  BY <1>2 DEF Result
<1>3. CASE a = ConnectFailed(p)
  BY <1>3, ConnectFailedSound
<1>4. CASE a = Result("PENDING", t)
  <2>1. a.result = "PENDING" /\ a.provider = t
    BY <1>4 DEF Result
  <2>2. t \in Providers
    BY DEF Providers
  <2>3. /\ t.stage = "RESIZE" /\ t.fd = p.fd /\ t.host = p.host /\ t.keys = FALSE
        /\ t.password = FALSE /\ t.accepted = p.accepted /\ t.ssh = p.ssh /\ t.ctx = p.ctx
    BY DEF Providers
  <2>4. Sound(t, k)
    BY <2>2, <2>3 DEF Sound, Holds, Vouched
  <2> QED BY <2>1, <2>3, <2>4
<1> QED BY <1>1, <1>2, <1>3, <1>4

\* What a connect may answer leaves a sound provider.
LEMMA ConnectsAnswer ==
  ASSUME SecureInv, provider.stage = "SSH", NEW o \in Connects(provider)
  PROVE  Answer(o)
<1>0. provider \in Providers /\ Sound(provider, known) /\ Listing(known) /\ Kept(known, known)
  BY DEF SecureInv, Sound, Kept
<1>1. CASE provider.accepted # None
  <2>1. PICK a \in Authenticates(provider) : o = [answer |-> a, known |-> known]
    BY <1>1 DEF Connects
  <2>2. o.answer = a /\ o.known = known
    BY <2>1
  <2> QED BY <1>0, <1>1, <2>2, AuthAnswer DEF Answer
<1>2. CASE provider.accepted = None
  <2>1. \/ \E a \in {Result("PENDING", provider), ConnectFailed(provider)} :
              o = [answer |-> a, known |-> known]
        \/ \E k \in hostkey_callback(provider) :
             \E a \in IF k.provider.accepted = None THEN {ConnectFailed(k.provider)}
                     ELSE Authenticates(k.provider) :
               o = [answer |-> a, known |-> k.known]
    BY <1>2 DEF Connects
  <2>2. CASE o = [answer |-> Result("PENDING", provider), known |-> known]
    BY <1>0, <2>2 DEF Answer, Result
  <2>3. CASE o = [answer |-> ConnectFailed(provider), known |-> known]
    <3>1. o.answer = ConnectFailed(provider) /\ o.known = known
      BY <2>3
    <3> QED BY <1>0, <3>1, ConnectFailedSound DEF Answer
  <2>4. ASSUME NEW k \in hostkey_callback(provider),
               NEW a \in IF k.provider.accepted = None THEN {ConnectFailed(k.provider)}
                         ELSE Authenticates(k.provider),
               o = [answer |-> a, known |-> k.known]
        PROVE  Answer(o)
    <3>1. o.answer = a /\ o.known = k.known
      BY <2>4
    <3>2. /\ Listing(k.known) /\ Kept(known, k.known) /\ k.provider \in Providers
          /\ k.provider.accepted # None => Sound(k.provider, k.known) /\ k.provider.stage = "SSH"
      BY <1>2, CallbackKeeps
    <3>3. CASE k.provider.accepted = None
      <4>1. a = ConnectFailed(k.provider)
        BY <3>3
      <4> QED BY <3>1, <3>2, <4>1, ConnectFailedSound DEF Answer
    <3>4. CASE k.provider.accepted # None
      <4>1. a \in Authenticates(k.provider)
        BY <3>4
      <4> QED BY <3>1, <3>2, <3>4, <4>1, AuthAnswer DEF Answer
    <3> QED BY <3>3, <3>4
  <2> QED BY <2>1, <2>2, <2>3, <2>4
<1> QED BY <1>1, <1>2

\* A resize of a running shell leaves a sound provider.
LEMMA ResizesAnswer ==
  ASSUME SecureInv, provider.stage = "RESIZE", NEW a \in Resizes(provider)
  PROVE  Answer([answer |-> a, known |-> known])
<1> DEFINE t == [provider EXCEPT !.stage = "UP"]
<1>0. provider \in Providers /\ Sound(provider, known) /\ Listing(known) /\ Kept(known, known)
  BY DEF SecureInv, Sound, Kept
<1>1. a = Result("OK", t) \/ a = Result("PENDING", provider) \/ a = FailedWith("PROTOCOL", provider)
  BY DEF Resizes
<1>2. CASE a = Result("OK", t)
  <2>1. a.result = "OK" /\ a.provider = t
    BY <1>2 DEF Result
  <2>2. t \in Providers
    BY <1>0 DEF Providers
  <2>3. /\ t.stage = "UP" /\ t.fd = provider.fd /\ t.host = provider.host /\ t.keys = provider.keys
        /\ t.password = provider.password /\ t.accepted = provider.accepted
        /\ t.ssh = provider.ssh /\ t.ctx = provider.ctx
    BY <1>0 DEF Providers
  <2>4. Sound(t, known)
    BY <1>0, <2>2, <2>3 DEF Sound, Holds, Vouched
  <2> QED BY <1>0, <2>1, <2>3, <2>4 DEF Answer
<1>3. CASE a = Result("PENDING", provider)
  BY <1>0, <1>3 DEF Answer, Result
<1>4. CASE a = FailedWith("PROTOCOL", provider)
  BY <1>0, <1>4, FailedSound DEF Answer
<1> QED BY <1>1, <1>2, <1>3, <1>4

\* Whatever an open request does to the provider, it is sound and about its server.
LEMMA OpenAnswer ==
  ASSUME SecureInv, NEW server \in Servers, NEW trust \in BOOLEAN,
         NEW o \in pi1mhz_wolfssh_open(provider, server, trust)
  PROVE  Answer(o)
<1>0. provider \in Providers /\ Sound(provider, known) /\ Listing(known) /\ Kept(known, known)
  BY DEF SecureInv, Sound, Kept
<1>1. CASE provider.stage = "IDLE"
  BY <1>1, BeginAnswer DEF pi1mhz_wolfssh_open
<1>2. CASE provider.stage = "TCP"
  BY <1>2, StartAnswer DEF pi1mhz_wolfssh_open
<1>3. CASE provider.stage = "SSH"
  BY <1>3, ConnectsAnswer DEF pi1mhz_wolfssh_open
<1>4. CASE provider.stage = "RESIZE"
  BY <1>4, ResizesAnswer DEF pi1mhz_wolfssh_open
<1>5. CASE provider.stage = "UP"
  <2>1. o = [answer |-> Result("OK", provider), known |-> known]
    BY <1>5 DEF pi1mhz_wolfssh_open
  <2>2. o.answer.result = "OK" /\ o.answer.provider = provider /\ o.known = known
    BY <2>1 DEF Result
  <2> QED BY <1>0, <1>5, <2>2 DEF Answer
<1> QED BY <1>0, <1>1, <1>2, <1>3, <1>4, <1>5 DEF Providers

\* An open request keeps the invariant.
LEMMA OpenInv ==
  ASSUME SecureInv, Open
  PROVE  SecureInv' /\ Kept(known, known')
<1>1. program.pc = "opening" /\ UNCHANGED <<identity, presents, rekeys>>
  BY DEF Open
<1>2. PICK o \in pi1mhz_wolfssh_open(provider, program.want, program.trust) :
       /\ provider' = o.answer.provider
       /\ known' = o.known
       /\ handle' = [handle EXCEPT !.polls = o.answer.result # "UNKNOWN",
                                   !.opened = @ \/ o.answer.result = "OK"]
       /\ program' = [program EXCEPT !.pc = After(o.answer.result)]
  BY DEF Open
<1>3. program \in Programs /\ program.want \in Servers /\ program.trust \in BOOLEAN
  BY <1>1 DEF SecureInv, SecureTypeOK, Programs
<1>4. Answer(o)
  BY <1>2, <1>3, OpenAnswer
<1>5. After(o.answer.result) \in {"opening", "connected", "confirm", "password", "closing"}
  BY DEF After
<1>6. /\ program' \in Programs /\ program'.pc = After(o.answer.result)
      /\ program'.want = program.want /\ program'.inherited = program.inherited
  BY <1>2, <1>3, <1>5 DEF Programs
<1>7. handle' \in [opened : BOOLEAN, polls : BOOLEAN]
  <2>1. handle \in [opened : BOOLEAN, polls : BOOLEAN]
    BY DEF SecureInv, SecureTypeOK
  <2>2. (o.answer.result # "UNKNOWN") \in BOOLEAN
        /\ (handle.opened \/ o.answer.result = "OK") \in BOOLEAN
    OBVIOUS
  <2> QED BY <1>2, <2>1, <2>2
<1>8. SecureTypeOK' /\ Sound(provider, known)'
  BY <1>1, <1>2, <1>3, <1>4, <1>6, <1>7 DEF SecureInv, SecureTypeOK, Answer, Sound, Listing
<1>9. Left'
  BY <1>5, <1>6 DEF Left
<1> QED BY <1>2, <1>4, <1>8, <1>9 DEF SecureInv, Answer

\* A step that only moves the program on.
LEMMA ProgramStep ==
  ASSUME SecureInv, UNCHANGED <<provider, known, identity, handle, presents, rekeys>>,
         program' \in Programs, program'.want \in Servers, program'.pc # "exit"
  PROVE  SecureInv'
BY DEF SecureInv, SecureTypeOK, Sound, Holds, Vouched, Left

\* A program that starts keeps the invariant.
LEMMA StartInv == ASSUME SecureInv, NEW s \in Servers, Start(s) PROVE SecureInv'
<1>1. program \in Programs
  BY DEF SecureInv, SecureTypeOK
<1>2. /\ program' \in Programs /\ program'.want = s /\ program'.pc = "opening"
      /\ program'.inherited = program.inherited
  BY <1>1 DEF Start, Programs
<1> QED BY <1>2, ProgramStep DEF Start

\* The answer about an unknown key keeps the invariant.
LEMMA ConfirmInv == ASSUME SecureInv, NEW yes \in BOOLEAN, Confirm(yes) PROVE SecureInv'
<1>1. program \in Programs /\ program.want \in Servers
  BY DEF Confirm, SecureInv, SecureTypeOK
<1>2. /\ program' \in Programs /\ program'.want = program.want
      /\ program'.pc \in {"opening", "closing"} /\ program'.inherited = program.inherited
  BY <1>1 DEF Confirm, Programs
<1> QED BY <1>1, <1>2, ProgramStep DEF Confirm

\* A program that gives up or finishes keeps the invariant.
LEMMA ClosingInv == ASSUME SecureInv, NoPasswordTyped \/ Finish \/ GiveUp PROVE SecureInv'
<1>1. /\ program' = [program EXCEPT !.pc = "closing"] /\ program.pc # "exit"
      /\ UNCHANGED <<provider, known, identity, handle, presents, rekeys>>
  BY DEF NoPasswordTyped, Finish, GiveUp
<1>2. program \in Programs /\ program.want \in Servers
  BY <1>1 DEF SecureInv, SecureTypeOK
<1>3. /\ program' \in Programs /\ program'.want = program.want
      /\ program'.pc = "closing" /\ program'.inherited = program.inherited
  BY <1>1, <1>2 DEF Programs
<1> QED BY <1>1, <1>2, <1>3, ProgramStep

\* The password step keeps the invariant.
LEMMA PasswordInv == ASSUME SecureInv, Password PROVE SecureInv'
<1>1. program \in Programs /\ program.want \in Servers /\ provider \in Providers
      /\ Sound(provider, known)
  BY DEF Password, SecureInv, SecureTypeOK
<1>2. CASE provider.stage = "IDLE"
  <2>1. /\ provider' = [provider EXCEPT !.password = TRUE]
        /\ program' = [program EXCEPT !.pc = "opening", !.trust = FALSE, !.tried = TRUE]
        /\ UNCHANGED <<known, identity, handle, presents, rekeys>>
    BY <1>2 DEF Password
  <2>2. program' \in Programs /\ program'.pc = "opening" /\ program'.want = program.want
    BY <1>1, <2>1 DEF Programs
  <2>3. provider' \in Providers
    BY <1>1, <2>1 DEF Providers
  <2>4. /\ provider'.stage = "IDLE" /\ provider'.fd = provider.fd /\ provider'.ctx = provider.ctx
        /\ provider'.ssh = provider.ssh /\ provider'.keys = provider.keys
        /\ provider'.accepted = provider.accepted
    BY <1>1, <1>2, <2>1 DEF Providers
  <2>5. Sound(provider, known)'
    BY <1>1, <1>2, <2>1, <2>3, <2>4 DEF Sound, Holds, Vouched
  <2> QED BY <1>1, <2>1, <2>2, <2>3, <2>4, <2>5 DEF SecureInv, SecureTypeOK, Left
<1>3. CASE provider.stage # "IDLE"
  <2>1. /\ program' = [program EXCEPT !.pc = "closing"]
        /\ UNCHANGED <<provider, known, identity, handle, presents, rekeys>>
    BY <1>3 DEF Password
  <2>2. /\ program' \in Programs /\ program'.want = program.want
        /\ program'.pc = "closing" /\ program'.inherited = program.inherited
    BY <1>1, <2>1 DEF Programs
  <2> QED BY <1>1, <2>1, <2>2, ProgramStep
<1> QED BY <1>2, <1>3

\* Closing the session keeps the invariant.
LEMMA CloseInv == ASSUME SecureInv, Close PROVE SecureInv'
<1>1. provider \in Providers
  BY DEF SecureInv, SecureTypeOK
<1>2. /\ Sound(provider', known) /\ provider'.stage = "IDLE" /\ ~provider'.password
  BY <1>1, ResetSound DEF Close
<1>3. NoProgram \in Programs /\ NoProgram.pc = "exit" /\ NoHandle \in [opened : BOOLEAN, polls : BOOLEAN]
  BY DEF NoProgram, Programs, NoHandle
<1> QED BY <1>2, <1>3 DEF Close, SecureInv, SecureTypeOK, Sound, Holds, Vouched, Left

\* A host reset drops the program and leaves the provider alone.
LEMMA HostResetInv == ASSUME SecureInv, HostReset PROVE SecureInv'
<1>1. program' = [NoProgram EXCEPT !.inherited = TRUE]
      /\ UNCHANGED <<provider, known, identity, handle, presents, rekeys>>
  BY DEF HostReset
<1>2. program' \in Programs /\ program'.pc = "exit" /\ program'.inherited
  BY <1>1 DEF NoProgram, Programs
<1> QED BY <1>1, <1>2 DEF SecureInv, SecureTypeOK, Sound, Holds, Vouched, Left

\* A server with a new key changes no list and no session.
LEMMA RekeyInv == ASSUME SecureInv, NEW s \in Servers, Rekey(s) PROVE SecureInv'
<1>1. presents' \in [Servers -> Keys]
  BY DEF Rekey, SecureInv, SecureTypeOK
<1>2. rekeys' \in 0..MaxRekeys
  BY SecureAssumption DEF Rekey, SecureInv, SecureTypeOK
<1> QED BY <1>1, <1>2 DEF Rekey, SecureInv, SecureTypeOK, Sound, Holds, Vouched, Left

\* A new process has nothing but the files.
LEMMA IdleSound == ASSUME NEW k PROVE Sound(Idle, k)
BY DEF Idle, Sound, Providers, Holds, Vouched

\* A restart of the emulator keeps the list of known hosts and nothing else.
LEMMA SecureRestartInv == ASSUME SecureInv, SecureRestart PROVE SecureInv'
<1>1. NoProgram \in Programs /\ NoProgram.pc = "exit" /\ NoHandle \in [opened : BOOLEAN, polls : BOOLEAN]
  BY DEF NoProgram, Programs, NoHandle
<1>2. Sound(provider', known') /\ provider'.stage = "IDLE" /\ ~provider'.password
  BY IdleSound DEF SecureRestart, Idle
<1> QED BY <1>1, <1>2 DEF SecureRestart, SecureInv, SecureTypeOK, Sound, Left

\* The first state is sound.
LEMMA SecureInitInv == SecureInit => SecureInv
<1> SUFFICES ASSUME SecureInit PROVE SecureInv
  OBVIOUS
<1>1. NoProgram \in Programs /\ NoProgram.pc = "exit" /\ NoHandle \in [opened : BOOLEAN, polls : BOOLEAN]
  BY DEF NoProgram, Programs, NoHandle
<1>2. Sound(provider, known) /\ provider.stage = "IDLE" /\ ~provider.password
  BY IdleSound DEF SecureInit, Idle
<1>3. rekeys \in 0..MaxRekeys
  BY SecureAssumption DEF SecureInit
<1>4. Listing(known)
  BY DEF SecureInit, Listing, Lists
<1> QED BY <1>1, <1>2, <1>3, <1>4 DEF SecureInit, SecureInv, SecureTypeOK, Listing, Sound, Left

\* Every step of the secure session keeps the invariant.
LEMMA SessionInv == SecureInv /\ Session => SecureInv'
BY StartInv, RekeyInv, ConfirmInv, OpenInv, ClosingInv, PasswordInv, CloseInv, HostResetInv
   DEF Session

-----------------------------------------------------------------------------
(* The process.                                                             *)

Inv == WifiInv /\ SecureInv

\* The first state of both components satisfies the invariant.
LEMMA InitInv == Init => Inv
<1> SUFFICES ASSUME Init PROVE Inv
  OBVIOUS
<1>1. WifiInv
  <2>1. launch \in Launches /\ profile = Absent /\ wifi = Created(launch, Absent).wifi
        /\ story = NoStory
    BY DEF Init, WifiInit
  <2>2. NoStory \in Stories /\ NoStory.joined = Absent /\ NoStory.since = Delay
        /\ NoStory.left = FALSE /\ NoStory.failed = FALSE
    BY Deadlines DEF NoStory, Stories, Delay
  <2>3. ~Loads(Absent)
    BY DEF Loads
  <2>4. Blank(launch) \in Links
    <3>1. [security |-> "AUTO", ssid |-> NoSsid, password |-> NoPassword] \in Credentials
      BY DEF Credentials, Ssids, Modes, Passwords, NoPassword
    <3>2. launch.present \in BOOLEAN
      BY <2>1 DEF Launches
    <3> QED BY Deadlines, <3>1, <3>2 DEF Blank, Links
  <2>5. /\ wifi \in Links /\ ~wifi.connecting /\ (wifi.has_address => wifi.associated)
        /\ launch.persistent => wifi.credentials.ssid = NoSsid
    <3>1. CASE ~launch.persistent
      <4>1. wifi = [Blank(launch) EXCEPT !.credentials.ssid = FixtureSsid,
                      !.associated = launch.present, !.has_address = launch.present]
        BY <2>1, <3>1 DEF Created
      <4>2. launch.present \in BOOLEAN /\ FixtureSsid \in Ssids
        BY <2>1 DEF Launches, Ssids
      <4>3. [Blank(launch).credentials EXCEPT !.ssid = FixtureSsid] \in Credentials
        BY <2>4, <4>2 DEF Links, Credentials
      <4>4. wifi \in Links
        BY <2>4, <4>1, <4>2, <4>3 DEF Links
      <4>5. ~wifi.connecting /\ (wifi.has_address => wifi.associated)
        BY <4>1 DEF Blank
      <4> QED BY <3>1, <4>4, <4>5
    <3>2. CASE launch.persistent
      <4>1. wifi = Blank(launch)
        BY <2>1, <2>3, <3>2 DEF Created
      <4> QED BY <2>4, <4>1 DEF Blank
    <3> QED BY <3>1, <3>2
  <2>6. WifiTypeOK
    BY <2>1, <2>2, <2>5 DEF WifiTypeOK
  <2>7. story.since >= Delay
    BY <2>1, <2>2, WifiAssumption DEF Delay
  <2>8. AssociationFresh /\ DeadlineKept
    BY <2>1, <2>2, <2>5, <2>7 DEF AssociationFresh, DeadlineKept, Delay
  <2>9. MemoryFiled /\ FileNamed /\ JoinedKnown
    BY <2>1, <2>2, <2>5, WifiAssumption DEF MemoryFiled, FileNamed, JoinedKnown
  <2> QED BY <2>6, <2>8, <2>9 DEF WifiInv
<1>2. SecureInv
  BY SecureInitInv DEF Init
<1> QED BY <1>1, <1>2 DEF Inv

\* Every step of either component keeps the invariant of both.
LEMMA NextInv == Inv /\ [Next]_vars => Inv'
<1> SUFFICES ASSUME Inv, [Next]_vars PROVE Inv'
  OBVIOUS
<1> USE DEF Inv
<1>1. CASE (Command \/ ("wifi" \in workload /\ Elapse)) /\ UNCHANGED secureVars
  <2>1. WifiInv'
    BY <1>1, WifiControlInv, ElapseInv DEF Command
  <2>2. SecureInv'
    BY <1>1 DEF secureVars, SecureInv, SecureTypeOK, Sound, Holds, Vouched, Left
  <2> QED BY <2>1, <2>2
<1>2. CASE "ssh" \in workload /\ Session /\ UNCHANGED wifiVars
  <2>1. SecureInv'
    BY <1>2, SessionInv
  <2>2. WifiInv'
    BY <1>2 DEF wifiVars, WifiInv, WifiTypeOK, AssociationFresh, DeadlineKept, MemoryFiled,
                FileNamed, JoinedKnown, Filed
  <2> QED BY <2>1, <2>2
<1>3. CASE \E saving \in BOOLEAN : Restart(saving)
  BY <1>3, WifiRestartInv, SecureRestartInv DEF Restart
<1>4. CASE UNCHANGED vars
  BY <1>4 DEF vars, wifiVars, secureVars, SecureInv, SecureTypeOK, Sound, Holds, Vouched,
              Left, WifiInv, WifiTypeOK, AssociationFresh, DeadlineKept, MemoryFiled,
              FileNamed, JoinedKnown, Filed
<1> QED BY <1>1, <1>2, <1>3, <1>4 DEF Next

\* The invariant of both components holds throughout.
LEMMA Invariant == Spec => []Inv
BY InitInv, NextInv, PTL DEF Spec

\* The WiFi fields, the profile file, the SSH provider, its program and the list
\* of known hosts keep their types through every command, failed save and restart
\* of the process.
THEOREM BackendTypes == Spec => []TypeOK
<1>1. Init => workload \in Workloads
  BY DEF Init
<1>2. workload \in Workloads /\ [Next]_vars => (workload \in Workloads)'
  BY DEF Next, vars
<1>3. Inv /\ workload \in Workloads => TypeOK
  BY DEF Inv, WifiInv, SecureInv, TypeOK
<1> QED BY Invariant, <1>1, <1>2, <1>3, PTL DEF Spec

\* The network being joined is the one in memory and, in a persistent setup, the
\* one in the file, until a save fails: wifi_join saves before wifi_start_join.
THEOREM NetworkStored == Spec => []JoinedIsStored
<1>1. Inv => JoinedIsStored
  BY DEF Inv, WifiInv, MemoryFiled, JoinedKnown, Filed, JoinedIsStored
<1> QED BY Invariant, <1>1, PTL

\* Association and address are those of the last join, whatever the delays are and
\* however late wifi_update looks at their deadlines.
THEOREM LinkFresh == Spec => []AssociationFresh
<1>1. Inv => AssociationFresh
  BY DEF Inv, WifiInv
<1> QED BY Invariant, <1>1, PTL

\* The provider holds what its stage needs and nothing after a clean exit:
\* reset_connection and pi1mhz_wolfssh_open, with a reset, a crash or a change of
\* keys at any moment.
THEOREM SessionsOwned == Spec => []SessionOwned
<1>1. Inv => SessionOwned
  BY DEF Inv, SecureInv, Sound, Holds, Left, SessionOwned
<1> QED BY Invariant, <1>1, PTL

\* A shell has a key that is on the list of known hosts, for any servers and keys
\* (hostkey_callback).
THEOREM ShellKeyListed == Spec => []KeyOnList
<1>1. Inv => KeyOnList
  BY DEF Inv, SecureInv, Sound, Vouched, KeyOnList
<1> QED BY Invariant, <1>1, PTL

\* No step of anyone changes the key a server is compared with, but for the one
\* that write_known_host takes when the list cannot be opened: then a server the
\* user has just trusted is all that is left on it.
THEOREM KeysKept == Spec => KnownKept
<1> DEFINE Step ==
      \/ \A s \in Servers : known.first[s] # None => known'.first[s] = known.first[s]
      \/ provider.trust /\ known' = OneLine(provider.host, presents[provider.host])
<1>1. Inv /\ [Next]_vars => [Step]_known
  <2> SUFFICES ASSUME Inv, [Next]_vars, known' # known PROVE Step
    OBVIOUS
  <2>1. Session
    BY DEF Next, vars, secureVars, Restart, SecureRestart
  <2>2. Open
    BY <2>1 DEF Session, Start, Rekey, Confirm, NoPasswordTyped, Password, Finish, GiveUp,
                Close, HostReset
  <2>3. Kept(known, known')
    BY <2>2, OpenInv DEF Inv
  <2> QED BY <2>3 DEF Kept
<1> QED BY Invariant, <1>1, PTL DEF Spec, KnownKept
=============================================================================

--------------------------- MODULE NetPortProofs ---------------------------
(* Why a client that waits net_bus_settle between accesses loses none of them, *)
(* for every latency the settle outlasts.                                     *)
EXTENDS NetPort, SequenceTheorems, TLAPS

\* An access a routine makes settles, or is the command and waits for its poll.
Accesses == [port : Ports, at : PageByte, value : Int \cup Byte, write : BOOLEAN, gap : Nat]
Steady == {s \in Accesses : s.gap = Settle \/ (s.port = Command /\ s.gap = DispatchGap)}

Event(e) == e.valid \in BOOLEAN /\ (e.valid => e.write \in BOOLEAN)

\* The host's part of the type.
TypeHost == shadow \in Cursors /\ look \in 1..3 /\ todo \in Seq(Steady) /\ wait \in Nat

\* The 6502 waits at least as long as the event it posted still needs; nothing
\* is posted behind a callback.
Paced ==
  /\ captureLeft \in 0..CaptureDelay /\ callbackLeft \in Nat
  /\ Event(posted) /\ Event(active)
  /\ ~(posted.valid /\ active.valid)
  /\ Matters(posted) => wait >= captureLeft + CallbackTicks(posted)
  /\ active.valid => IF Matters(active) THEN wait >= callbackLeft ELSE callbackLeft = 0

\* What capture_posted_event charges: nothing for a read it has no callback for.
LEMMA TicksType ==
  ASSUME NEW e, e.write \in BOOLEAN
  PROVE  /\ CallbackTicks(e) \in Nat
         /\ ~(e.write \/ e.port = Data) => CallbackTicks(e) = 0
         /\ CallbackTicks(e) \in {0, PageDelay, CallbackDelay}
BY MailboxAssumption DEF CallbackTicks, Selectors

\* A settled access is steady, whatever its port.
LEMMA SettledSteady ==
  ASSUME NEW port \in Ports, NEW at \in PageByte, NEW v \in Int \cup Byte
  PROVE  Store(port, at, v, Settle) \in Steady /\ Load(port, at) \in Steady
<1>1. Settle \in Nat /\ 0 \in Int \cup Byte
  BY NetPortAssumption
<1> QED BY <1>1 DEF Steady, Accesses, Store, Load

\* So is a write to a register.
LEMMA WriteSteady ==
  ASSUME NEW port \in Ports, NEW v \in Int \cup Byte
  PROVE  Write(port, v) \in Steady
<1>1. 0 \in PageByte
  BY MailboxAssumption DEF PageByte
<1> QED BY <1>1, SettledSteady DEF Write

\* So is the command that starts a service.
LEMMA CommandSteady == Store(Command, 0, Busy, DispatchGap) \in Steady
<1>1. DispatchGap \in Nat /\ 0 \in PageByte /\ Busy \in Int \cup Byte
  BY NetPortAssumption, MailboxAssumption DEF PageByte
<1>2. Command \in Ports
  BY DEF Ports
<1> QED BY <1>1, <1>2 DEF Steady, Accesses, Store

\* If the delays outlast a capture and a callback, so does the one after any access
\* the ARM has to act on.
LEMMA SteadyOutlasts ==
  ASSUME Unhurried, NEW s \in Steady, s.write \/ s.port = Data
  PROVE  s.gap >= CaptureDelay + CallbackTicks(s)
BY NetPortAssumption, MailboxAssumption
   DEF Steady, Accesses, Unhurried, Outlasts, CallbackTicks, Selectors, Command, PageHi,
       PageMid, PageLo

\* A digit is a number.
LEMMA DigitInt ==
  ASSUME NEW c \in Cursors, NEW port \in {Lo, Mid, Hi}
  PROVE  Digit(c, port) \in Int
BY MailboxAssumption DEF Digit, Lo, Mid, Hi, Cursors

\* net_apply_cursor and the page selection are steady.
LEMMA CursorSteady ==
  ASSUME NEW c \in Cursors
  PROVE  net_apply_cursor(c) \in Seq(Steady)
<1>1. {Lo, Mid, Hi} \subseteq Ports
  BY DEF Ports
<1>2. /\ Write(Lo, Digit(c, Lo)) \in Steady
      /\ Write(Mid, Digit(c, Mid)) \in Steady
      /\ Write(Hi, Digit(c, Hi)) \in Steady
  BY <1>1, DigitInt, WriteSteady
<1> QED BY <1>2 DEF net_apply_cursor

\* Selecting a page of the window is a run of settled writes.
LEMMA PageSteady ==
  ASSUME NEW q \in Pages
  PROVE  SelectPage(q) \in Seq(Steady)
<1>1. Selectors \subseteq Ports
  BY DEF Ports
<1>2. q.hi \in Int /\ q.mid \in Int /\ q.lo \in Int
  BY NetPortAssumption, MailboxAssumption
<1>3. /\ Write(PageHi, q.hi) \in Steady
      /\ Write(PageMid, q.mid) \in Steady
      /\ Write(PageLo, q.lo) \in Steady
  BY <1>1, <1>2, WriteSteady DEF Selectors
<1> QED BY <1>3 DEF SelectPage

\* Calling a routine with steady accesses.
LEMMA CallSteady ==
  ASSUME TypeHost, NEW routine, NEW accesses \in Seq(Steady), NEW looks,
         Call(routine, accesses, looks), shadow' \in Cursors
  PROVE  TypeHost'
BY DEF TypeHost, Call

\* Going round, a cursor stays one.
LEMMA NextCursorType == \A c \in Cursors : NextCursor(c) \in Cursors
<1> DEFINE n == Radix * Radix * Radix
<1>1. n \in Nat /\ n > 0
  BY MailboxAssumption, SMTT(30)
<1>2. ASSUME NEW c \in 0..n - 1 PROVE (c + 1) % n \in 0..n - 1
  <2> HIDE DEF n
  <2> QED BY <1>1
<1> QED BY <1>2 DEF NextCursor, Cursors

\* The routines a program calls make steady accesses.
LEMMA CallsSteady ==
  ASSUME TypeHost, Calls
  PROVE  TypeHost'
<1>0. /\ shadow \in Cursors /\ NextCursor(shadow) \in Cursors
      /\ NextCursor(CommandCell) \in Cursors
  BY NextCursorType, MailboxAssumption DEF TypeHost
<1>1. /\ net_apply_cursor(shadow) \in Seq(Steady)
      /\ net_apply_cursor(CommandCell) \in Seq(Steady)
  BY CursorSteady, MailboxAssumption DEF TypeHost
<1>2. Data \in Ports /\ Command \in Ports /\ Window \in Ports
  BY DEF Ports
<1>3. \A v \in Values : Write(Data, v) \in Steady /\ Write(Command, v) \in Steady
  BY <1>2, WriteSteady, NetPortAssumption
<1>4. CASE net_probe
  BY <1>0, <1>1, <1>4, CallSteady DEF net_probe
<1>5. CASE net_data_read
  <2>1. Load(Data, 0) \in Steady
    <3>1. 0 \in PageByte /\ 0 \in Int \cup Byte
      BY MailboxAssumption DEF PageByte
    <3> QED BY <1>2, <3>1, SettledSteady
  <2>2. net_apply_cursor(shadow) \o <<Load(Data, 0)>> \in Seq(Steady)
    BY <1>1, <2>1
  <2> QED BY <1>0, <1>5, <2>2, CallSteady DEF net_data_read
<1>6. CASE net_dispatch
  <2> DEFINE s == Store(Command, 0, Busy, DispatchGap)
  <2>4. s \in Steady
    BY CommandSteady
  <2>5. <<s>> \in Seq(Steady)
    BY <2>4
  <2> QED BY <1>0, <1>6, <2>5, CallSteady DEF net_dispatch
<1>7. CASE \E c \in Cells : net_select_address(c)
  BY <1>7, CursorSteady, CallSteady, NetPortAssumption DEF net_select_address
<1>8. CASE \E v \in Values : net_data_write(v) \/ net_begin(v) \/ ForeignCommand(v)
  <2>1. PICK v \in Values : net_data_write(v) \/ net_begin(v) \/ ForeignCommand(v)
    BY <1>8
  <2>2. /\ net_apply_cursor(shadow) \o <<Write(Data, v)>> \in Seq(Steady)
        /\ net_apply_cursor(CommandCell) \o net_apply_cursor(CommandCell)
             \o <<Write(Data, v)>> \in Seq(Steady)
        /\ <<Write(Command, v)>> \in Seq(Steady)
    BY <1>1, <1>3
  <2> QED BY <1>0, <2>1, <2>2, CallSteady DEF net_data_write, net_begin, ForeignCommand
<1>9. CASE \E q \in Pages, at \in PageByte : PageFetch(q, at)
  <2>1. PICK q \in Pages, at \in PageByte : PageFetch(q, at)
    BY <1>9
  <2>2. Load(Window, at) \in Steady
    <3>1. 0 \in Int \cup Byte
      OBVIOUS
    <3> QED BY <1>2, <3>1, SettledSteady
  <2>3. SelectPage(q) \o <<Load(Window, at)>> \in Seq(Steady)
    BY <2>2, PageSteady
  <2> QED BY <1>0, <2>1, <2>3, CallSteady DEF PageFetch
<1>10. CASE \E q \in Pages, at \in PageByte, v \in Values : PageStore(q, at, v)
  <2>1. PICK q \in Pages, at \in PageByte, v \in Values : PageStore(q, at, v)
    BY <1>10
  <2>2. Store(Window, at, v, Settle) \in Steady
    BY <1>2, SettledSteady, NetPortAssumption
  <2>3. SelectPage(q) \o <<Store(Window, at, v, Settle)>> \in Seq(Steady)
    BY <2>2, PageSteady
  <2> QED BY <1>0, <2>1, <2>3, CallSteady DEF PageStore
<1>11. CASE \E c \in Cells, q \in Pages : ForeignUse(c, q)
  <2>1. PICK c \in Cells, q \in Pages : ForeignUse(c, q)
    BY <1>11
  <2>2. net_apply_cursor(c) \o SelectPage(q) \in Seq(Steady)
    BY CursorSteady, PageSteady, NetPortAssumption
  <2> QED BY <1>0, <2>1, <2>2, CallSteady DEF ForeignUse
<1> QED BY <1>4, <1>5, <1>6, <1>7, <1>8, <1>9, <1>10, <1>11 DEF Calls

\* A call leaves the device and the pace alone.
LEMMA CallsQuiet ==
  ASSUME Calls
  PROVE  UNCHANGED <<device, wait>>
BY DEF Calls, net_probe, net_data_read, net_dispatch, net_select_address, net_data_write,
       net_begin, ForeignCommand, PageFetch, PageStore, ForeignUse, Call

\* The bus is free for the next access only when nothing that matters is left.
LEMMA PacedSettled == ASSUME Paced, Turns PROVE ~active.valid /\ ~Matters(posted)
<1>1. ~active.valid
  BY DEF Paced, Turns, Urgent, CallbackDue
<1>2. ~Matters(posted)
  <2> SUFFICES ASSUME Matters(posted) PROVE FALSE
    OBVIOUS
  <2>1. CallbackTicks(posted) \in Nat
    BY TicksType DEF Paced, Event, Matters
  <2>2. captureLeft = 0
    BY <2>1, MailboxAssumption DEF Paced, Turns
  <2> QED BY <1>1, <2>2 DEF Turns, Urgent, CaptureDue, Matters
<1> QED BY <1>1, <1>2

\* One access on the free bus.
LEMMA PostPaced ==
  ASSUME Paced, Turns, NEW port, NEW at, NEW v, NEW write \in BOOLEAN, NEW gap \in Nat,
         bus_access(port, at, v, write), wait' = gap,
         write \/ port = Data =>
           gap >= CaptureDelay + CallbackTicks([port |-> port, write |-> write])
  PROVE  Paced'
<1>1. ~active.valid
  BY PacedSettled
<1>2. /\ posted'.valid = TRUE /\ posted'.port = port /\ posted'.write = write
      /\ UNCHANGED <<active, callbackLeft>>
      /\ captureLeft' \in 0..CaptureDelay
  BY MailboxAssumption DEF bus_access, Paced
<1>3. CallbackTicks(posted)' = CallbackTicks([port |-> port, write |-> write])
  BY <1>2 DEF CallbackTicks
<1>4. Matters(posted)' => wait' >= captureLeft' + CallbackTicks(posted)'
  <2>1. CallbackTicks([port |-> port, write |-> write]) \in Nat
    BY TicksType
  <2> QED BY <1>2, <1>3, <2>1, MailboxAssumption DEF Matters
<1> QED BY <1>1, <1>2, <1>4 DEF Paced, Event

\* A read of a register that has no callback.
LEMMA ReadPaced ==
  ASSUME Paced, Turns, NEW port \in Ports \ {Data}, NEW gap \in Nat,
         Reads(port, gap)
  PROVE  Paced'
BY PostPaced DEF Reads

\* Every step keeps the pace.
LEMMA NextPaced == ASSUME Unhurried, TypeHost, Paced, [Next]_vars PROVE Paced'
<1>1. ASSUME Calls PROVE Paced'
  <2>1. UNCHANGED <<device, wait>>
    BY <1>1, CallsQuiet
  <2> QED BY <2>1 DEF device, Paced, Event, Matters, CallbackTicks
<1>2. ASSUME Runs PROVE Paced'
  <2>1. CASE Access
    <3> DEFINE s == Head(todo)
    <3>1. s \in Steady
      BY <2>1 DEF Access, TypeHost
    <3>2. CallbackTicks(s) = CallbackTicks([port |-> s.port, write |-> s.write])
      BY DEF CallbackTicks
    <3>3. /\ bus_access(s.port, s.at, s.value, s.write) /\ wait' = s.gap /\ Turns
          /\ s.write \in BOOLEAN /\ s.gap \in Nat
      BY <2>1, <3>1 DEF Access, Steady, Accesses
    <3> HIDE DEF s
    <3>4. s.write \/ s.port = Data => s.gap >= CaptureDelay + CallbackTicks(s)
      BY <3>1, SteadyOutlasts
    <3> QED BY <3>2, <3>3, <3>4, PostPaced
  <2>2. CASE CursorSeen \/ CursorLate \/ CursorTimeout
    <3>1. Look[look] \in Ports \ {Data}
      BY DEF TypeHost, Look, Ports, Lo, Mid, Hi, Data
    <3>2. Turns /\ Reads(Look[look], Turn)
      BY <2>2 DEF CursorSeen, CursorLate, CursorTimeout, Looking
    <3> QED BY <3>1, <3>2, ReadPaced, NetPortAssumption
  <2>3. CASE PollAnswered \/ PollBusy \/ PollTimeout
    <3>1. Command \in Ports \ {Data}
      BY DEF Ports, Command, Data
    <3>2. Turns /\ (Reads(Command, Turn) \/ Reads(Command, Frame))
      BY <2>3 DEF PollAnswered, PollBusy, PollTimeout, Polling
    <3> QED BY <3>1, <3>2, ReadPaced, NetPortAssumption
  <2> QED BY <1>2, <2>1, <2>2, <2>3 DEF Runs
<1>3. ASSUME Drain PROVE Paced'
  <2> USE DEF Paced, Event, Matters, NoEvent
  <2>1. UNCHANGED wait
    BY <1>3 DEF Drain, host
  <2>2. CASE capture_posted_event
    <3>1. /\ active' = posted /\ posted'.valid = FALSE /\ UNCHANGED captureLeft
          /\ callbackLeft' = CallbackTicks(posted) /\ captureLeft = 0 /\ posted.valid
      BY <2>2 DEF capture_posted_event, CaptureDue
    <3>2. /\ CallbackTicks(posted) \in Nat
          /\ ~Matters(posted) => CallbackTicks(posted) = 0
      BY <3>1, TicksType
    <3>3. (Matters(active))' = Matters(posted) /\ ~(Matters(posted))'
      BY <3>1
    <3>4. (Event(active))' /\ (Event(posted))'
      BY <3>1
    <3>5. Matters(posted) => wait' >= callbackLeft'
      BY <2>1, <3>1, <3>2
    <3> HIDE DEF Matters, Event, NoEvent
    <3> QED BY <2>1, <3>1, <3>2, <3>3, <3>4, <3>5
  <2>3. CASE complete_active_callback
    <3>1. /\ active'.valid = FALSE /\ UNCHANGED <<posted, captureLeft, callbackLeft>>
          /\ active.valid
      BY <2>3 DEF complete_active_callback, CallbackDue
    <3> QED BY <2>1, <3>1
  <2> QED BY <1>3, <2>2, <2>3 DEF Drain, drain_zero_time_transitions
<1>4. ASSUME Tick PROVE Paced'
  <2>1. /\ UNCHANGED <<posted, active>> /\ wait \in Nat
        /\ ~CaptureDue /\ ~CallbackDue
        /\ captureLeft' = IF posted.valid /\ captureLeft > 0 THEN captureLeft - 1
                                                             ELSE captureLeft
        /\ callbackLeft' = IF active.valid THEN callbackLeft - 1 ELSE callbackLeft
        /\ wait' = IF wait > 0 THEN wait - 1 ELSE 0
    BY <1>4 DEF Tick, tick_fiq, Urgent, TypeHost
  <2>2. CallbackTicks(posted)' = CallbackTicks(posted)
    BY <2>1 DEF CallbackTicks
  <2>3. Matters(posted) => CallbackTicks(posted) \in Nat
    BY TicksType DEF Paced, Event, Matters
  <2>4. (Matters(posted))' = Matters(posted) /\ (Matters(active))' = Matters(active)
    BY <2>1 DEF Matters
  <2>5. wait' \in Nat /\ captureLeft' \in 0..CaptureDelay /\ callbackLeft' \in Nat
    BY <2>1, MailboxAssumption DEF Paced, CallbackDue
  <2>6. Matters(posted)' => wait' >= captureLeft' + CallbackTicks(posted)'
    BY <2>1, <2>2, <2>3, <2>4, MailboxAssumption DEF Paced, CaptureDue, Matters
  <2>7. active'.valid => IF Matters(active)' THEN wait' >= callbackLeft' ELSE callbackLeft' = 0
    BY <2>1, <2>4 DEF Paced, CallbackDue
  <2> QED BY <2>1, <2>5, <2>6, <2>7 DEF Paced, Event
<1>5. ASSUME UNCHANGED vars PROVE Paced'
  BY <1>5 DEF vars, device, host, Paced, Event, Matters, CallbackTicks
<1> QED BY <1>1, <1>2, <1>3, <1>4, <1>5 DEF Next

\* At power-up no event waits and the host has nothing to do.
LEMMA InitPaced == ASSUME Init PROVE Paced
<1>1. wait = 0 /\ captureLeft = 0 /\ callbackLeft = 0
  BY DEF Init, DeviceInit
<1>2. posted = [valid |-> FALSE] /\ active = [valid |-> FALSE]
  BY DEF Init, DeviceInit, NoEvent
<1>3. posted.valid = FALSE /\ active.valid = FALSE
  BY <1>2
<1>4. 0 \in 0..CaptureDelay
  BY MailboxAssumption
<1> QED BY <1>1, <1>3, <1>4 DEF Paced, Event, Matters

\* The host's variables keep their range.
LEMMA NextTypeHost == ASSUME TypeHost, [Next]_vars PROVE TypeHost'
<1>1. CASE Calls
  BY <1>1, CallsSteady
<1>2. CASE Runs
  <2>1. CASE Access
    <3>1. Head(todo) \in Steady /\ Tail(todo) \in Seq(Steady)
      BY <2>1 DEF Access, TypeHost
    <3>2. Head(todo).gap \in Nat
      BY <3>1 DEF Steady, Accesses
    <3> QED BY <2>1, <3>1, <3>2 DEF Access, TypeHost
  <2>2. wait' \in Nat \/ Access
    BY <1>2, NetPortAssumption
       DEF Runs, CursorSeen, CursorLate, CursorTimeout, Looking, PollAnswered, PollBusy,
           PollTimeout, Reads
  <2>3. CASE CursorSeen /\ ~Access
    <3>1. UNCHANGED <<shadow, todo>> /\ (look' = look \/ (look < 3 /\ look' = look + 1))
      BY <2>3 DEF CursorSeen
    <3> QED BY <2>2, <2>3, <3>1 DEF TypeHost
  <2>4. CASE CursorLate /\ ~Access
    BY <2>2, <2>4 DEF CursorLate, TypeHost
  <2>5. CASE (CursorTimeout \/ PollAnswered \/ PollBusy \/ PollTimeout) /\ ~Access
    <3>1. UNCHANGED <<shadow, look, todo>>
      BY <2>5 DEF CursorTimeout, PollAnswered, PollBusy, PollTimeout
    <3> QED BY <2>2, <2>5, <3>1 DEF TypeHost
  <2> QED BY <1>2, <2>1, <2>3, <2>4, <2>5 DEF Runs
<1>3. CASE Drain \/ Tick \/ UNCHANGED vars
  BY <1>3 DEF Drain, Tick, host, vars, TypeHost
<1> QED BY <1>1, <1>2, <1>3 DEF Next

\* At power-up the host has nothing to do.
LEMMA InitTypeHost == ASSUME Init PROVE TypeHost
<1>1. 0 \in Cursors
  <2>1. Radix * Radix * Radix \in Nat /\ Radix * Radix * Radix > 0
    BY MailboxAssumption, SMTT(30)
  <2> QED BY <2>1 DEF Cursors
<1>2. <<>> \in Seq(Steady)
  OBVIOUS
<1> QED BY <1>1, <1>2 DEF Init, TypeHost

\* For all latencies, if net_bus_settle and the way from the command to its first
\* poll outlast a capture and a callback, the 6502 never touches the bus while
\* an event the ARM has to act on is still in the one slot or in its callback:
\* no access of pi1mhz_net.asm is lost, and none reads a register too early.
THEOREM SettledBus == ASSUME Unhurried PROVE Spec => []BusSettled
<1>1. Init => TypeHost /\ Paced
  BY InitTypeHost, InitPaced
<1>2. TypeHost /\ Paced /\ [Next]_vars => (TypeHost /\ Paced)'
  BY NextTypeHost, NextPaced
<1>3. TypeHost /\ Paced => BusSettled
  BY PacedSettled DEF BusSettled, Matters
<1> QED BY <1>1, <1>2, <1>3, PTL DEF Spec

-----------------------------------------------------------------------------
(* The slot alone needs less: each latency on its own within the delays.    *)

\* No latency is longer than a delay of the client, whatever their sum.
Brisk == \A d \in {CaptureDelay, CallbackDelay, PageDelay} : d <= Settle /\ d <= DispatchGap

\* An access the ARM has to act on leaves the slot before the 6502 moves: the wait
\* covers its capture, and the callback that holds it up.
Kept ==
  /\ captureLeft \in 0..CaptureDelay /\ callbackLeft \in Nat
  /\ Event(posted) /\ Event(active)
  /\ active.valid => callbackLeft <= Settle /\ callbackLeft <= DispatchGap
  /\ Matters(posted) => wait >= captureLeft /\ (active.valid => wait >= callbackLeft)

\* The 6502 moves only when nothing that matters waits in the slot.
LEMMA KeptFree == ASSUME TypeHost, Kept, Turns PROVE ~Matters(posted)
<1> SUFFICES ASSUME Matters(posted) PROVE FALSE
  OBVIOUS
<1>1. captureLeft = 0 /\ (active.valid => callbackLeft = 0)
  BY MailboxAssumption DEF Kept, Turns
<1>2. active.valid \in BOOLEAN /\ posted.valid
  BY DEF Kept, Event, Matters
<1> QED BY <1>1, <1>2 DEF Turns, Urgent, CaptureDue, CallbackDue

\* One access, whatever callback still runs.
LEMMA PostKept ==
  ASSUME Brisk, Kept, NEW port, NEW at, NEW v, NEW write \in BOOLEAN, NEW gap \in Nat,
         bus_access(port, at, v, write), wait' = gap,
         write \/ port = Data => gap = Settle \/ gap = DispatchGap
  PROVE  Kept'
<1>1. /\ posted'.valid = TRUE /\ posted'.port = port /\ posted'.write = write
      /\ UNCHANGED <<active, callbackLeft>>
      /\ captureLeft' \in 0..CaptureDelay
  BY MailboxAssumption DEF bus_access, Kept
<1>2. ASSUME write \/ port = Data
      PROVE  wait' >= captureLeft' /\ (active.valid => wait' >= callbackLeft)
  BY <1>1, <1>2, MailboxAssumption, NetPortAssumption DEF Brisk, Kept
<1>3. Matters(posted)' => write \/ port = Data
  BY <1>1 DEF Matters
<1> QED BY <1>1, <1>2, <1>3 DEF Kept, Event

\* A read of a register that has no callback.
LEMMA ReadKept ==
  ASSUME Brisk, Kept, NEW port \in Ports \ {Data}, NEW gap \in Nat, Reads(port, gap)
  PROVE  Kept'
BY PostKept DEF Reads

\* Every step leaves the slot to the access that is in it.
LEMMA NextKept == ASSUME Brisk, TypeHost, Kept, [Next]_vars PROVE Kept'
<1>1. ASSUME Calls PROVE Kept'
  <2>1. UNCHANGED <<device, wait>>
    BY <1>1, CallsQuiet
  <2> QED BY <2>1 DEF device, Kept, Event, Matters
<1>2. ASSUME Runs PROVE Kept'
  <2>1. CASE Access
    <3> DEFINE s == Head(todo)
    <3>1. s \in Steady
      BY <2>1 DEF Access, TypeHost
    <3>2. /\ bus_access(s.port, s.at, s.value, s.write) /\ wait' = s.gap
          /\ s.write \in BOOLEAN /\ s.gap \in Nat
          /\ s.gap = Settle \/ s.gap = DispatchGap
      BY <2>1, <3>1 DEF Access, Steady, Accesses
    <3> HIDE DEF s
    <3> QED BY <3>2, PostKept
  <2>2. CASE CursorSeen \/ CursorLate \/ CursorTimeout
    <3>1. Look[look] \in Ports \ {Data}
      BY DEF TypeHost, Look, Ports, Lo, Mid, Hi, Data
    <3>2. Reads(Look[look], Turn)
      BY <2>2 DEF CursorSeen, CursorLate, CursorTimeout, Looking
    <3> QED BY <3>1, <3>2, ReadKept, NetPortAssumption
  <2>3. CASE PollAnswered \/ PollBusy \/ PollTimeout
    <3>1. Command \in Ports \ {Data}
      BY DEF Ports, Command, Data
    <3>2. Reads(Command, Turn) \/ Reads(Command, Frame)
      BY <2>3 DEF PollAnswered, PollBusy, PollTimeout
    <3> QED BY <3>1, <3>2, ReadKept, NetPortAssumption
  <2> QED BY <1>2, <2>1, <2>2, <2>3 DEF Runs
<1>3. ASSUME Drain PROVE Kept'
  <2>1. UNCHANGED wait
    BY <1>3 DEF Drain, host
  <2>2. CASE capture_posted_event
    <3>1. /\ active' = posted /\ posted'.valid = FALSE /\ UNCHANGED captureLeft
          /\ callbackLeft' = CallbackTicks(posted) /\ posted.valid
      BY <2>2 DEF capture_posted_event, CaptureDue, NoEvent
    <3>2. CallbackTicks(posted) \in {0, PageDelay, CallbackDelay}
      BY <3>1, TicksType DEF Kept, Event
    <3>3. callbackLeft' \in Nat /\ callbackLeft' <= Settle /\ callbackLeft' <= DispatchGap
      BY <3>1, <3>2, MailboxAssumption, NetPortAssumption DEF Brisk
    <3>4. (Event(active))' /\ (Event(posted))' /\ ~(Matters(posted))'
      BY <3>1 DEF Kept, Event, Matters
    <3> QED BY <3>1, <3>3, <3>4 DEF Kept
  <2>3. CASE complete_active_callback
    <3>1. /\ active'.valid = FALSE /\ UNCHANGED <<posted, captureLeft, callbackLeft>>
      BY <2>3 DEF complete_active_callback, NoEvent
    <3> QED BY <2>1, <3>1 DEF Kept, Event, Matters
  <2> QED BY <1>3, <2>2, <2>3 DEF Drain, drain_zero_time_transitions
<1>4. ASSUME Tick PROVE Kept'
  <2>1. /\ UNCHANGED <<posted, active>> /\ wait \in Nat
        /\ ~CallbackDue
        /\ captureLeft' = IF posted.valid /\ captureLeft > 0 THEN captureLeft - 1
                                                             ELSE captureLeft
        /\ callbackLeft' = IF active.valid THEN callbackLeft - 1 ELSE callbackLeft
        /\ wait' = IF wait > 0 THEN wait - 1 ELSE 0
    BY <1>4 DEF Tick, tick_fiq, Urgent, TypeHost
  <2>2. (Matters(posted))' = Matters(posted) /\ (Matters(posted) => posted.valid)
    BY <2>1 DEF Matters
  <2>3. active.valid => callbackLeft > 0
    BY <2>1 DEF Kept, CallbackDue
  <2>4. /\ captureLeft' \in 0..CaptureDelay /\ callbackLeft' \in Nat
        /\ active.valid => callbackLeft' <= Settle /\ callbackLeft' <= DispatchGap
    BY <2>1, <2>3, MailboxAssumption, NetPortAssumption DEF Kept
  <2>5. Matters(posted) => wait' >= captureLeft' /\ (active.valid => wait' >= callbackLeft')
    BY <2>1, <2>2, <2>3, MailboxAssumption DEF Kept
  <2> QED BY <2>1, <2>2, <2>4, <2>5 DEF Kept, Event
<1>5. ASSUME UNCHANGED vars PROVE Kept'
  BY <1>5 DEF vars, device, host, Kept, Event, Matters
<1> QED BY <1>1, <1>2, <1>3, <1>4, <1>5 DEF Next

\* At power-up the slot is empty.
LEMMA InitKept == ASSUME Init PROVE Kept
<1>1. captureLeft = 0 /\ callbackLeft = 0
  BY DEF Init, DeviceInit
<1>2. posted.valid = FALSE /\ active.valid = FALSE
  BY DEF Init, DeviceInit, NoEvent
<1>3. 0 \in 0..CaptureDelay
  BY MailboxAssumption
<1> QED BY <1>1, <1>2, <1>3 DEF Kept, Event, Matters

\* Even when a callback is slower than net_bus_settle allows for (the capture and
\* the callback together outlast it), as long as neither alone does, the 6502
\* never posts an access over one the ARM has not captured: post_fiq_event
\* overwrites nothing that matters, and only what is read may be stale.
THEOREM SlotAlwaysFree == ASSUME Brisk PROVE Spec => []SlotFree
<1>1. Init => TypeHost /\ Kept
  BY InitTypeHost, InitKept
<1>2. TypeHost /\ Kept /\ [Next]_vars => (TypeHost /\ Kept)'
  BY NextTypeHost, NextKept
<1>3. TypeHost /\ Kept => SlotFree
  BY KeptFree DEF SlotFree
<1> QED BY <1>1, <1>2, <1>3, PTL DEF Spec
-----------------------------------------------------------------------------
(* The digits of a cursor.                                                  *)

Digits == 0..Radix - 1

\* The remainder, as numbers.
LEMMA Remainder ==
  ASSUME NEW n \in Nat, n > 0, NEW k \in Nat
  PROVE  /\ k \div n \in Nat /\ k % n \in 0..n - 1
         /\ k = n * (k \div n) + (k % n)
BY SMTT(30)

\* A number is its quotient and its remainder, and no other pair.
LEMMA Division ==
  ASSUME NEW n \in Nat, n > 0, NEW q \in Nat, NEW r \in 0..n - 1
  PROVE  /\ q * n + r \in Nat
         /\ (q * n + r) \div n = q /\ (q * n + r) % n = r
<1>1. q * n + r \in Nat
  BY SMTT(30)
<1>2. (q * n + r) \div n \in Nat /\ (q * n + r) % n \in 0..n - 1
  BY <1>1, Remainder
<1>3. q * n + r = n * ((q * n + r) \div n) + ((q * n + r) % n)
  BY <1>1, Remainder
<1>4. \A a, b \in Nat, x, y \in 0..n - 1 : n * a + x = n * b + y => a = b /\ x = y
  <2> TAKE a, b \in Nat, x, y \in 0..n - 1
  <2> HAVE n * a + x = n * b + y
  <2>1. CASE a < b
    <3>1. b >= a + 1
      BY <2>1
    <3>2. n * b >= n * (a + 1) /\ n * (a + 1) = n * a + n
      BY <3>1, SMTT(30)
    <3> QED BY <3>2, SMTT(30)
  <2>2. CASE b < a
    <3>1. a >= b + 1
      BY <2>2
    <3>2. n * a >= n * (b + 1) /\ n * (b + 1) = n * b + n
      BY <3>1, SMTT(30)
    <3> QED BY <3>2, SMTT(30)
  <2> QED BY <2>1, <2>2, SMTT(30)
<1>5. q * n + r = n * q + r
  BY SMTT(30)
<1> DEFINE k == q * n + r  a == k \div n  x == k % n
<1>6. a \in Nat /\ x \in 0..n - 1 /\ n * q + r = n * a + x
  BY <1>2, <1>3, <1>5
<1> HIDE DEF a, x
<1>7. a = q /\ x = r
  BY <1>4, <1>6
<1> QED BY <1>1, <1>7 DEF a, x, k

\* The cursor its three registers spell.
Spelt(h, m, l) == h * (Radix * Radix) + (m * Radix + l)

\* Its registers read back those digits.
LEMMA SpeltDigits ==
  ASSUME NEW h \in Digits, NEW m \in Digits, NEW l \in Digits
  PROVE  /\ Spelt(h, m, l) \in Cursors
         /\ Digit(Spelt(h, m, l), Lo) = l
         /\ Digit(Spelt(h, m, l), Mid) = m
         /\ Digit(Spelt(h, m, l), Hi) = h
<1> DEFINE R == Radix  RR == R * R  c == Spelt(h, m, l)
<1>1. R \in Nat /\ R > 0 /\ RR \in Nat /\ RR > 0
  BY MailboxAssumption, SMTT(30)
<1>2. h \in Nat /\ m \in Nat /\ l \in Nat /\ h <= R - 1 /\ m <= R - 1 /\ l <= R - 1
  BY <1>1 DEF Digits
<1>3. m * R <= (R - 1) * R /\ (R - 1) * R = RR - R /\ m * R \in Nat
  BY <1>1, <1>2, SMTT(30)
<1>4. m * R + l \in 0..RR - 1
  BY <1>1, <1>2, <1>3
<1>5. c \in Nat /\ c \div RR = h
  BY <1>1, <1>2, <1>4, Division DEF Spelt
<1>6. c = (h * R + m) * R + l
  BY <1>1, <1>2, SMTT(30) DEF Spelt
<1>7. h * R + m \in Nat
  BY <1>1, <1>2, SMTT(30)
<1>8. c % R = l /\ c \div R = h * R + m
  <2>1. l \in 0..R - 1
    BY <1>1, <1>2
  <2> QED BY <1>1, <1>6, <1>7, <2>1, Division
<1>9. (h * R + m) % R = m
  <2>1. m \in 0..R - 1
    BY <1>1, <1>2
  <2> QED BY <1>1, <1>2, <2>1, Division
<1>10. c \in Cursors
  <2>1. /\ h * RR <= (R - 1) * RR /\ (R - 1) * RR = R * R * R - RR
        /\ h * RR \in Nat /\ R * R * R \in Nat
    BY <1>1, <1>2, SMTT(30)
  <2>2. c = h * RR + (m * R + l)
    BY DEF Spelt
  <2>3. \A a, b, k, x \in Nat : a <= x - k /\ b <= k - 1 => a + b \in 0..x - 1
    OBVIOUS
  <2> QED BY <1>1, <1>4, <2>1, <2>2, <2>3 DEF Cursors
<1>11. /\ Digit(c, Lo) = c % R /\ Digit(c, Mid) = (c \div R) % R /\ Digit(c, Hi) = c \div RR
  BY DEF Digit, Lo, Mid, Hi
<1> HIDE DEF c
<1>12. Digit(c, Lo) = l /\ Digit(c, Mid) = m /\ Digit(c, Hi) = h
  BY <1>5, <1>8, <1>9, <1>11
<1> QED BY <1>10, <1>12 DEF c

\* Every cursor is spelt by its digits.
LEMMA CursorSpelt ==
  ASSUME NEW c \in Cursors
  PROVE  /\ Digit(c, Lo) \in Digits /\ Digit(c, Mid) \in Digits /\ Digit(c, Hi) \in Digits
         /\ c = Spelt(Digit(c, Hi), Digit(c, Mid), Digit(c, Lo))
<1> DEFINE R == Radix  RR == R * R  a == c \div R  l == c % R  h == a \div R  m == a % R
<1>1. R \in Nat /\ R > 0 /\ RR \in Nat /\ RR > 0 /\ R * R * R \in Nat
  BY MailboxAssumption, SMTT(30)
<1>2. c \in Nat /\ c <= R * R * R - 1
  BY <1>1 DEF Cursors
<1>3. a \in Nat /\ l \in 0..R - 1 /\ c = R * a + l
  BY <1>1, <1>2, Remainder
<1>4. h \in Nat /\ m \in 0..R - 1 /\ a = R * h + m
  BY <1>1, <1>3, Remainder
<1> HIDE DEF a, l, h, m
<1>5. c = h * RR + (m * R + l)
  <2>1. R * a = R * (R * h) + R * m
    BY <1>1, <1>4, SMTT(30)
  <2>2. R * (R * h) = h * RR /\ R * m = m * R
    BY <1>1, <1>4, SMTT(30)
  <2>3. \A x, y, z, k \in Int : z = x + y /\ k = z + l => k = x + (y + l)
    BY <1>3
  <2>4. R * a \in Int /\ h * RR \in Int /\ m * R \in Int /\ c \in Int
    BY <1>1, <1>2, <1>3, <1>4, SMTT(30)
  <2> QED BY <1>3, <2>1, <2>2, <2>3, <2>4
<1>6. m * R + l \in 0..RR - 1
  <2>1. m * R <= (R - 1) * R /\ (R - 1) * R = RR - R /\ m * R \in Nat
    BY <1>1, <1>4, SMTT(30)
  <2> QED BY <1>1, <1>3, <2>1
<1>7. c \div RR = h
  BY <1>1, <1>4, <1>5, <1>6, Division
<1>8. h <= R - 1
  <2> SUFFICES ASSUME h >= R PROVE FALSE
    BY <1>1, <1>4
  <2>1. h * RR >= R * RR /\ R * RR = R * R * R /\ h * RR \in Nat
    BY <1>1, <1>4, SMTT(30)
  <2>2. c >= h * RR
    BY <1>1, <1>5, <1>6, <2>1
  <2> QED BY <1>1, <1>2, <2>1, <2>2
<1>9. Digit(c, Lo) = l /\ Digit(c, Mid) = m /\ Digit(c, Hi) = h
  BY <1>7 DEF Digit, Lo, Mid, Hi, a, l, m
<1>10. l \in Digits /\ m \in Digits /\ h \in Digits
  BY <1>1, <1>3, <1>4, <1>8 DEF Digits
<1> QED BY <1>5, <1>9, <1>10 DEF Spelt

\* A write to a cursor register replaces its digit alone.
LEMMA WithDigitSpelt ==
  ASSUME NEW c \in Cursors, NEW v \in Digits
  PROVE  /\ WithDigit(c, Lo, v) = Spelt(Digit(c, Hi), Digit(c, Mid), v)
         /\ WithDigit(c, Mid, v) = Spelt(Digit(c, Hi), v, Digit(c, Lo))
         /\ WithDigit(c, Hi, v) = Spelt(v, Digit(c, Mid), Digit(c, Lo))
<1> DEFINE R == Radix  h == Digit(c, Hi)  m == Digit(c, Mid)  l == Digit(c, Lo)
<1>1. /\ h \in Digits /\ m \in Digits /\ l \in Digits
      /\ c = h * (R * R) + (m * R + l)
  BY CursorSpelt DEF Spelt
<1>2. /\ WithDigit(c, Lo, v) = c + (v - l) * 1
      /\ WithDigit(c, Mid, v) = c + (v - m) * R
      /\ WithDigit(c, Hi, v) = c + (v - h) * (R * R)
  BY DEF WithDigit, Weight, Lo, Mid, Hi
<1> HIDE DEF h, m, l
<1>3. R \in Int /\ h \in Int /\ m \in Int /\ l \in Int /\ v \in Int
  BY <1>1, MailboxAssumption DEF Digits
<1>4. /\ c + (v - l) * 1 = h * (R * R) + (m * R + v)
      /\ c + (v - m) * R = h * (R * R) + (v * R + l)
      /\ c + (v - h) * (R * R) = v * (R * R) + (m * R + l)
  BY <1>1, <1>3, SMTT(30)
<1> QED BY <1>2, <1>4 DEF Spelt, h, m, l

\* ... so the register reads back what was written, the others what they held.
LEMMA WithDigitKeeps ==
  ASSUME NEW c \in Cursors, NEW v \in Digits
  PROVE  /\ Digit(WithDigit(c, Lo, v), Lo) = v
         /\ Digit(WithDigit(c, Mid, v), Mid) = v
         /\ Digit(WithDigit(c, Hi, v), Hi) = v
         /\ Digit(WithDigit(c, Mid, v), Lo) = Digit(c, Lo)
         /\ Digit(WithDigit(c, Hi, v), Lo) = Digit(c, Lo)
         /\ Digit(WithDigit(c, Hi, v), Mid) = Digit(c, Mid)
BY CursorSpelt, WithDigitSpelt, SpeltDigits

\* ... and the cursor stays one.
LEMMA WithDigitCursor ==
  ASSUME NEW c \in Cursors, NEW v \in Digits, NEW p \in {Lo, Mid, Hi}
  PROVE  WithDigit(c, p, v) \in Cursors
BY CursorSpelt, WithDigitSpelt, SpeltDigits

\* Two cursors with the same digits are one.
LEMMA SameDigits ==
  ASSUME NEW c \in Cursors, NEW b \in Cursors, Digit(c, Lo) = Digit(b, Lo),
         Digit(c, Mid) = Digit(b, Mid), Digit(c, Hi) = Digit(b, Hi)
  PROVE  c = b
BY CursorSpelt

-----------------------------------------------------------------------------
(* A routine's accesses, one at a time.                                     *)

\* The accesses of a run are made in order.
LEMMA NextOfRun ==
  ASSUME NEW S, NEW a \in S, NEW r \in Seq(S)
  PROVE  /\ <<a>> \o r \in Seq(S) /\ <<a>> \o r # <<>>
         /\ Head(<<a>> \o r) = a /\ Tail(<<a>> \o r) = r
<1> DEFINE t == <<a>> \o r
<1>1. <<a>> \in Seq(S) /\ Len(<<a>>) = 1 /\ <<a>>[1] = a
  OBVIOUS
<1>2. /\ t \in Seq(S) /\ Len(t) = 1 + Len(r)
      /\ \A i \in 1..1 + Len(r) : t[i] = IF i <= 1 THEN a ELSE r[i - 1]
  BY <1>1, ConcatProperties
<1> HIDE DEF t
<1>3. Len(r) \in Nat
  BY LenProperties
<1>4. t # <<>> /\ t[1] = a /\ \A i \in 1..Len(r) : t[i + 1] = r[i]
  BY <1>2, <1>3
<1>5. /\ Head(t) = t[1] /\ Tail(t) \in Seq(S) /\ Len(Tail(t)) = Len(t) - 1
      /\ \A i \in 1..Len(Tail(t)) : Tail(t)[i] = t[i + 1]
  BY <1>2, <1>4, HeadTailProperties
<1>6. Len(Tail(t)) = Len(r) /\ \A i \in 1..Len(r) : Tail(t)[i] = r[i]
  BY <1>2, <1>3, <1>4, <1>5
<1>7. Tail(t) = r
  BY <1>5, <1>6, SeqEqual
<1> QED BY <1>2, <1>4, <1>5, <1>7 DEF t

\* Of a run of two or three as well.
LEMMA NextOfTwo ==
  ASSUME NEW S, NEW a \in S, NEW b \in S, NEW r \in Seq(S)
  PROVE  <<a, b>> \o r = <<a>> \o (<<b>> \o r) /\ <<b>> \o r \in Seq(S)
<1>1. <<a>> \in Seq(S) /\ <<b>> \in Seq(S)
  OBVIOUS
<1>2. <<a, b>> = <<a>> \o <<b>>
  <2> DEFINE t == <<a>> \o <<b>>
  <2>1. t \in Seq(S) /\ Len(t) = 2 /\ t[1] = a /\ t[2] = b
    OBVIOUS
  <2> HIDE DEF t
  <2>2. <<a, b>> = t
    BY <2>1
  <2> QED BY <2>2 DEF t
<1>3. <<b>> \o r \in Seq(S)
  BY <1>1, ConcatProperties
<1>4. (<<a>> \o <<b>>) \o r = <<a>> \o (<<b>> \o r)
  BY <1>1, ConcatAssociative
<1> QED BY <1>2, <1>3, <1>4

\* ... and the second of three.
LEMMA NextOfThree ==
  ASSUME NEW S, NEW a \in S, NEW b \in S, NEW c \in S, NEW r \in Seq(S)
  PROVE  <<a, b, c>> \o r = <<a>> \o (<<b, c>> \o r) /\ <<b, c>> \o r \in Seq(S)
<1>1. <<a>> \in Seq(S) /\ <<b, c>> \in Seq(S)
  OBVIOUS
<1>2. <<a, b, c>> = <<a>> \o <<b, c>>
  <2> DEFINE t == <<a>> \o <<b, c>>
  <2>1. t \in Seq(S) /\ Len(t) = 3 /\ t[1] = a /\ t[2] = b /\ t[3] = c
    OBVIOUS
  <2> HIDE DEF t
  <2>2. <<a, b, c>> = t
    BY <2>1
  <2> QED BY <2>2 DEF t
<1>3. <<b, c>> \o r \in Seq(S)
  BY <1>1, ConcatProperties
<1>4. (<<a>> \o <<b, c>>) \o r = <<a>> \o (<<b, c>> \o r)
  BY <1>1, ConcatAssociative
<1> QED BY <1>2, <1>3, <1>4

-----------------------------------------------------------------------------
(* What the host has done to the device, the access in flight included.     *)

\* The device a program needs: the Pi's loop is not held up, and a service answers
\* within the frames net_dispatch waits for it.
Responsive == ~Stalls /\ ServiceDelay <= Polls * Frame

\* The device as its callbacks and services leave it.
Device == [jim |-> jim, cursor |-> cursor, page |-> page, data |-> dataReg,
           window |-> window, command |-> commandReg, pending |-> servicePending,
           left |-> serviceLeft]

ClampedSet(v) == IF v > MaxSet THEN MaxSet ELSE v

\* The memory, the cursor, the page and the window once an event had its callback.
JimAfter(d, e) ==
  IF e.write /\ e.port = Data THEN [d.jim EXCEPT ![ServicesBase + d.cursor] = e.value]
  ELSE IF e.write /\ e.port = Window
    THEN [d.jim EXCEPT ![PageBase(d.page) + e.at] = e.value] ELSE d.jim
CursorAfter(d, e) ==
  IF e.port = Data THEN NextCursor(d.cursor)
  ELSE IF e.write /\ e.port \in {Lo, Mid, Hi} THEN WithDigit(d.cursor, e.port, e.value)
  ELSE d.cursor
PageAfter(d, e) ==
  IF ~e.write THEN d.page
  ELSE IF e.port = PageLo THEN [d.page EXCEPT !.lo = e.value]
  ELSE IF e.port = PageMid THEN [d.page EXCEPT !.mid = e.value]
  ELSE IF e.port = PageHi THEN [d.page EXCEPT !.hi = ClampedSet(e.value)]
  ELSE d.page
WindowAfter(d, e) ==
  IF ~e.write THEN d.window
  ELSE IF e.port = Window THEN [d.window EXCEPT ![e.at] = e.value]
  ELSE IF e.port \in Selectors THEN WindowOf(d.jim, PageAfter(d, e)) ELSE d.window
DataAfter(d, e) ==
  IF e.port = Data \/ (e.write /\ e.port \in {Lo, Mid, Hi})
    THEN JimAfter(d, e)[ServicesBase + CursorAfter(d, e)] ELSE d.data
Commands(e) == e.write /\ e.port = Command

Apply(d, e) ==
  [jim |-> JimAfter(d, e), cursor |-> CursorAfter(d, e), page |-> PageAfter(d, e),
   data |-> DataAfter(d, e), window |-> WindowAfter(d, e),
   command |-> IF Commands(e) THEN e.value ELSE d.command,
   pending |-> IF Commands(e) THEN e.value = Busy ELSE d.pending,
   left |-> IF Commands(e) /\ e.value = Busy THEN ServiceDelay ELSE d.left]

\* An access is in flight until its callback.
Live == Matters(posted) \/ Matters(active)
InFlight == IF Matters(posted) THEN posted ELSE active

\* The device once the access in flight has had its effect.
Eff == IF Live THEN Apply(Device, InFlight) ELSE Device

Memories == [0..JimSize - 1 -> Byte \ {Busy}]
Fits(d) == /\ d.jim \in Memories /\ d.cursor \in Cursors
           /\ d.page \in [hi : Int, mid : Int, lo : Int]
           /\ d.pending \in BOOLEAN

-----------------------------------------------------------------------------
(* How far a routine is.                                                    *)

Shows(d, c) == d.cursor = c /\ d.data = d.jim[ServicesBase + c]

\* On its way through net_apply_cursor: t is left to do, rest comes after it.
Selecting(t, d, c, rest) ==
  \/ t = net_apply_cursor(c) \o rest
  \/ /\ t = <<Write(Mid, Digit(c, Mid)), Write(Hi, Digit(c, Hi))>> \o rest
     /\ Digit(d.cursor, Lo) = Digit(c, Lo)
  \/ /\ t = <<Write(Hi, Digit(c, Hi))>> \o rest
     /\ Digit(d.cursor, Lo) = Digit(c, Lo) /\ Digit(d.cursor, Mid) = Digit(c, Mid)
  \/ t = rest /\ Shows(d, c)

\* ... and through a page selection.
Paging(t, d, q, rest) ==
  \/ t = SelectPage(q) \o rest
  \/ /\ t = <<Write(PageMid, q.mid), Write(PageLo, q.lo)>> \o rest
     /\ d.page.hi = ClampedSet(q.hi)
  \/ /\ t = <<Write(PageLo, q.lo)>> \o rest
     /\ d.page.hi = ClampedSet(q.hi) /\ d.page.mid = q.mid
  \/ t = rest /\ d.page = Clamped(q) /\ d.window = WindowOf(d.jim, d.page)

\* Accesses that move the shared cursor, page or command register only.
Harmless == {s \in Steady :
  /\ s.write
  /\ \/ s.port \in {Lo, Mid, Hi} \cup Selectors /\ s.value \in Digits
     \/ s.port = Command /\ s.value # Busy}

Settled(d) == d.jim = meant /\ ~d.pending

Wandering(d) == op \in {"select", "foreign"} /\ Settled(d) /\ todo \in Seq(Harmless)
Probing(d) == op = "probe" /\ Settled(d) /\ Selecting(todo, d, CommandCell, <<>>)

\* The write still to come is the one the memory lacks of what was meant.
Writing(d) ==
  /\ op \in {"write", "begin"} /\ ~d.pending
  /\ \/ todo = <<>> /\ d.jim = meant /\ d.cursor = shadow
     \/ \E c \in Cursors, v \in Values :
          /\ NextCursor(c) = shadow /\ meant = [d.jim EXCEPT ![ServicesBase + c] = v]
          /\ \/ Selecting(todo, d, c, <<Write(Data, v)>>)
             \/ Selecting(todo, d, c, net_apply_cursor(c) \o <<Write(Data, v)>>)
Reading(d) ==
  /\ op = "read" /\ Settled(d) /\ got.of = "read"
  /\ \/ todo = <<>> /\ d.cursor = shadow /\ got.value = got.due
     \/ \E c \in Cursors :
          /\ NextCursor(c) = shadow /\ got.due = meant[ServicesBase + c]
          /\ Selecting(todo, d, c, <<Load(Data, 0)>>)
Storing(d) ==
  /\ op = "store" /\ ~d.pending
  /\ \E q \in Pages, at \in PageByte, v \in Values :
       /\ meant = [d.jim EXCEPT ![PageBase(Clamped(q)) + at] = v]
       /\ Paging(todo, d, q, <<Store(Window, at, v, Settle)>>)
Fetching(d) ==
  /\ op = "fetch" /\ Settled(d) /\ got.of = "fetch"
  /\ \E q \in Pages, at \in PageByte :
       /\ got.due = meant[PageBase(Clamped(q)) + at]
       /\ Paging(todo, d, q, <<Load(Window, at)>>)

\* A dispatch waits to be posted, for its service, which ends before the polls do,
\* or for the poll that sees its answer.
Asked(d) == todo = <<Store(Command, 0, Busy, DispatchGap)>> /\ polls = Polls /\ ~d.pending
Served(d) ==
  /\ todo = <<>> /\ d.pending /\ d.command = Busy /\ polls \in Nat
  /\ d.left \in Nat /\ d.left > 0
  /\ d.left <= polls * Frame + (IF Live THEN 0 ELSE wait)
Dispatching(d) ==
  /\ op = "dispatch" /\ got.of = "dispatch" /\ got.due # Busy
  /\ \/ /\ got.due = d.jim[ServicesBase + CommandCell]
        /\ meant = [d.jim EXCEPT ![ReplyCell] = got.due]
        /\ Asked(d) \/ Served(d)
     \/ todo = <<>> /\ Settled(d) /\ d.command = got.due

Stage(d) ==
  \/ op = "idle" /\ todo = <<>> /\ Settled(d)
  \/ Wandering(d) \/ Probing(d) \/ Writing(d) \/ Reading(d) \/ Storing(d)
  \/ Fetching(d) \/ Dispatching(d)

\* A routine that returned gave what was due.
Returned == got.of \in {"read", "fetch", "dispatch"} /\ op # got.of => got.value = got.due

\* No look and no probe ever gives up.
NoTimeout == ~cursorTimeout /\ found

NetInv ==
  /\ Fits(Eff) /\ Stage(Eff) /\ Returned /\ NoTimeout
  /\ servicePending => ~Live
-----------------------------------------------------------------------------
(* What each access does.                                                   *)

\* Going through the memory of services, a cell is a cell of JIM.
LEMMA ServicesCell == \A c \in Cursors : ServicesBase + c \in 0..JimSize - 1
<1> DEFINE n == Radix * Radix * Radix  k == JimSize
<1>1. n \in Int
  BY MailboxAssumption, SMTT(30)
<1>2. k \in Int
  <2>1. Radix \in Int /\ PageSize \in Int /\ MaxSet \in Int
    BY MailboxAssumption
  <2> QED BY <2>1, SMTT(30) DEF JimSize, SetSize
<1>3. ServicesBase = k - n /\ ServicesBase \in Nat /\ Cursors = 0..n - 1
  BY MailboxAssumption DEF ServicesBase, Cursors
<1> HIDE DEF n, k
<1>4. \A c \in 0..n - 1 : k - n + c \in 0..k - 1
  BY <1>1, <1>2, <1>3
<1> QED BY <1>3, <1>4 DEF k

\* A write to a cursor register moves the cursor and shows the byte behind it.
LEMMA CursorWrite ==
  ASSUME NEW d, Fits(d), NEW e, NEW p \in {Lo, Mid, Hi}, NEW v \in Digits,
         e.port = p, e.write, e.value = v, NEW f, f = Apply(d, e)
  PROVE  /\ Fits(f) /\ f.jim = d.jim /\ f.pending = d.pending
         /\ f.cursor = WithDigit(d.cursor, p, v)
         /\ f.data = f.jim[ServicesBase + f.cursor]
<1>1. p # Data /\ p # Window /\ p # Command /\ p \notin Selectors
      /\ p # PageLo /\ p # PageMid /\ p # PageHi
  BY DEF Lo, Mid, Hi, Data, Window, Command, Selectors, PageLo, PageMid, PageHi
<1>2. /\ f.jim = JimAfter(d, e) /\ f.cursor = CursorAfter(d, e) /\ f.page = PageAfter(d, e)
      /\ f.data = DataAfter(d, e)
      /\ f.pending = IF Commands(e) THEN e.value = Busy ELSE d.pending
  BY DEF Apply
<1>3. JimAfter(d, e) = d.jim /\ CursorAfter(d, e) = WithDigit(d.cursor, p, v)
      /\ PageAfter(d, e) = d.page /\ ~Commands(e)
  BY <1>1 DEF JimAfter, CursorAfter, PageAfter, Commands
<1>4. DataAfter(d, e) = JimAfter(d, e)[ServicesBase + CursorAfter(d, e)]
  BY DEF DataAfter
<1>5. WithDigit(d.cursor, p, v) \in Cursors
  BY WithDigitCursor DEF Fits
<1> QED BY <1>2, <1>3, <1>4, <1>5 DEF Fits

\* A write to a page register moves the page and loads the window.
LEMMA PageWrite ==
  ASSUME NEW d, Fits(d), NEW e, NEW v \in Digits,
         e.port \in Selectors, e.write, e.value = v, NEW f, f = Apply(d, e)
  PROVE  /\ Fits(f) /\ f.jim = d.jim /\ f.pending = d.pending
         /\ f.page.hi = IF e.port = PageHi THEN ClampedSet(v) ELSE d.page.hi
         /\ f.page.mid = IF e.port = PageMid THEN v ELSE d.page.mid
         /\ f.page.lo = IF e.port = PageLo THEN v ELSE d.page.lo
         /\ f.window = WindowOf(f.jim, f.page)
<1> DEFINE p == e.port
<1>1. p # Data /\ p # Window /\ p # Command /\ p \notin {Lo, Mid, Hi}
      /\ p \in {PageLo, PageMid, PageHi} /\ PageLo # PageMid /\ PageLo # PageHi
      /\ PageMid # PageHi
  BY DEF Lo, Mid, Hi, Data, Window, Command, Selectors, PageLo, PageMid, PageHi
<1>2. /\ f.jim = JimAfter(d, e) /\ f.cursor = CursorAfter(d, e) /\ f.page = PageAfter(d, e)
      /\ f.window = WindowAfter(d, e)
      /\ f.pending = IF Commands(e) THEN e.value = Busy ELSE d.pending
  BY DEF Apply
<1>3. JimAfter(d, e) = d.jim /\ CursorAfter(d, e) = d.cursor /\ ~Commands(e)
      /\ WindowAfter(d, e) = WindowOf(d.jim, PageAfter(d, e))
  BY <1>1 DEF JimAfter, CursorAfter, WindowAfter, Commands
<1>4. /\ e.port = PageHi => PageAfter(d, e) = [d.page EXCEPT !.hi = ClampedSet(v)]
      /\ e.port = PageMid => PageAfter(d, e) = [d.page EXCEPT !.mid = v]
      /\ e.port = PageLo => PageAfter(d, e) = [d.page EXCEPT !.lo = v]
  BY <1>1 DEF PageAfter
<1>5. v \in Int /\ ClampedSet(v) \in Int
  BY MailboxAssumption DEF Digits, ClampedSet
<1>6. PageAfter(d, e) \in [hi : Int, mid : Int, lo : Int]
  BY <1>1, <1>4, <1>5 DEF Fits
<1>7. /\ f.page.hi = IF e.port = PageHi THEN ClampedSet(v) ELSE d.page.hi
      /\ f.page.mid = IF e.port = PageMid THEN v ELSE d.page.mid
      /\ f.page.lo = IF e.port = PageLo THEN v ELSE d.page.lo
  BY <1>1, <1>2, <1>4 DEF Fits
<1> QED BY <1>2, <1>3, <1>6, <1>7 DEF Fits

\* A data access goes through the cursor and leaves it at the next cell.
LEMMA DataAccess ==
  ASSUME NEW d, Fits(d), NEW e, e.port = Data, e.write \in BOOLEAN,
         e.write => e.value \in Byte \ {Busy}, NEW f, f = Apply(d, e)
  PROVE  /\ Fits(f) /\ f.pending = d.pending /\ f.cursor = NextCursor(d.cursor)
         /\ f.jim = JimAfter(d, e)
<1>1. Data # Command /\ Data # Window /\ Data # PageLo /\ Data # PageMid /\ Data # PageHi
  BY DEF Data, Command, Window, PageLo, PageMid, PageHi
<1>2. /\ f.jim = JimAfter(d, e) /\ f.cursor = CursorAfter(d, e) /\ f.page = PageAfter(d, e)
      /\ f.pending = IF Commands(e) THEN e.value = Busy ELSE d.pending
  BY DEF Apply
<1>3. /\ JimAfter(d, e) = IF e.write THEN [d.jim EXCEPT ![ServicesBase + d.cursor] = e.value]
                                     ELSE d.jim
      /\ CursorAfter(d, e) = NextCursor(d.cursor) /\ PageAfter(d, e) = d.page
      /\ ~Commands(e)
  BY <1>1 DEF JimAfter, CursorAfter, PageAfter, Commands
<1>4. NextCursor(d.cursor) \in Cursors
  BY NextCursorType DEF Fits
<1>5. JimAfter(d, e) \in Memories
  BY <1>3 DEF Fits, Memories
<1> QED BY <1>2, <1>3, <1>4, <1>5 DEF Fits

\* A store to the window goes to the page it shows.
LEMMA WindowStore ==
  ASSUME NEW d, Fits(d), NEW e, e.port = Window, e.write,
         e.value \in Byte \ {Busy}, NEW f, f = Apply(d, e)
  PROVE  Fits(f) /\ f.pending = d.pending /\ f.jim = JimAfter(d, e)
<1>1. /\ Window # Command /\ Window # Data /\ Window # PageLo /\ Window # PageMid
      /\ Window # PageHi /\ Window \notin {Lo, Mid, Hi}
  BY DEF Data, Command, Window, PageLo, PageMid, PageHi, Lo, Mid, Hi
<1>2. /\ f.jim = JimAfter(d, e) /\ f.cursor = CursorAfter(d, e) /\ f.page = PageAfter(d, e)
      /\ f.pending = IF Commands(e) THEN e.value = Busy ELSE d.pending
  BY DEF Apply
<1>3. /\ JimAfter(d, e) = [d.jim EXCEPT ![PageBase(d.page) + e.at] = e.value]
      /\ CursorAfter(d, e) = d.cursor /\ PageAfter(d, e) = d.page
      /\ ~Commands(e)
  BY <1>1 DEF JimAfter, CursorAfter, PageAfter, Commands
<1>4. JimAfter(d, e) \in Memories
  BY <1>3 DEF Fits, Memories
<1> QED BY <1>2, <1>3, <1>4 DEF Fits

\* A write to the command register starts a service or forgets one.
LEMMA CommandWrite ==
  ASSUME NEW d, Fits(d), NEW e, e.port = Command, e.write, NEW f, f = Apply(d, e)
  PROVE  /\ Fits(f) /\ f.jim = d.jim /\ f.pending = (e.value = Busy)
         /\ f.command = e.value /\ (e.value = Busy => f.left = ServiceDelay)
<1>1. /\ Command # Window /\ Command # Data /\ Command # PageLo /\ Command # PageMid
      /\ Command # PageHi /\ Command \notin {Lo, Mid, Hi}
  BY DEF Data, Command, Window, PageLo, PageMid, PageHi, Lo, Mid, Hi
<1>2. /\ f.jim = JimAfter(d, e) /\ f.cursor = CursorAfter(d, e) /\ f.page = PageAfter(d, e)
      /\ f.pending = (IF Commands(e) THEN e.value = Busy ELSE d.pending)
      /\ f.command = (IF Commands(e) THEN e.value ELSE d.command)
      /\ f.left = (IF Commands(e) /\ e.value = Busy THEN ServiceDelay ELSE d.left)
  BY DEF Apply
<1>3. /\ JimAfter(d, e) = d.jim
      /\ CursorAfter(d, e) = d.cursor /\ PageAfter(d, e) = d.page
      /\ Commands(e)
  BY <1>1 DEF JimAfter, CursorAfter, PageAfter, Commands
<1> QED BY <1>2, <1>3 DEF Fits
-----------------------------------------------------------------------------
(* A step of a selection.                                                   *)

\* What net_apply_cursor and a page selection are made of.
LEMMA WriteFields ==
  ASSUME NEW p, NEW v
  PROVE  /\ Write(p, v).port = p /\ Write(p, v).value = v /\ Write(p, v).write
         /\ Write(p, v).at = 0
BY DEF Write, Store

\* The accesses of a selection are steady.
LEMMA CursorWrites ==
  ASSUME NEW p \in {Lo, Mid, Hi} \cup Selectors, NEW v \in Digits
  PROVE  Write(p, v) \in Steady
<1>1. p \in Ports /\ v \in Int \cup Byte
  BY MailboxAssumption DEF Ports, Digits, Selectors
<1> QED BY <1>1, WriteSteady

\* Through net_apply_cursor, one register at a time.
LEMMA SelectingStep ==
  ASSUME NEW d, Fits(d), NEW c \in Cursors, NEW rest \in Seq(Steady), NEW t,
         Selecting(t, d, c, rest)
  PROVE  \/ t = rest /\ Shows(d, c)
         \/ /\ t # <<>> /\ \E p \in {Lo, Mid, Hi}, v \in Digits : Head(t) = Write(p, v)
            /\ Selecting(Tail(t), Apply(d, Head(t)), c, rest)
<1> DEFINE wl == Write(Lo, Digit(c, Lo))  wm == Write(Mid, Digit(c, Mid))
           wh == Write(Hi, Digit(c, Hi))  f == Apply(d, Head(t))
<1>1. Digit(c, Lo) \in Digits /\ Digit(c, Mid) \in Digits /\ Digit(c, Hi) \in Digits
  BY CursorSpelt
<1>2. wl \in Steady /\ wm \in Steady /\ wh \in Steady
  BY <1>1, CursorWrites
<1>3. /\ <<wl, wm, wh>> \o rest = <<wl>> \o (<<wm, wh>> \o rest)
      /\ <<wm, wh>> \o rest = <<wm>> \o (<<wh>> \o rest)
      /\ <<wm, wh>> \o rest \in Seq(Steady) /\ <<wh>> \o rest \in Seq(Steady)
  <2> HIDE DEF wl, wm, wh
  <2>1. /\ <<wl, wm, wh>> \o rest = <<wl>> \o (<<wm, wh>> \o rest)
        /\ <<wm, wh>> \o rest \in Seq(Steady)
    BY <1>2, NextOfThree, SMTT(60)
  <2>2. /\ <<wm, wh>> \o rest = <<wm>> \o (<<wh>> \o rest)
        /\ <<wh>> \o rest \in Seq(Steady)
    BY <1>2, NextOfTwo, SMTT(60)
  <2> QED BY <2>1, <2>2
<1>4. CASE t = net_apply_cursor(c) \o rest
  <2>1. t = <<wl>> \o (<<wm, wh>> \o rest)
    BY <1>3, <1>4 DEF net_apply_cursor
  <2>2. t # <<>> /\ Head(t) = wl /\ Tail(t) = <<wm, wh>> \o rest
    <3> HIDE DEF wl, wm, wh
    <3> QED BY <1>2, <1>3, <2>1, NextOfRun
  <2>3. wl.port = Lo /\ wl.value = Digit(c, Lo) /\ wl.write
    BY WriteFields
  <2>4. f.cursor = WithDigit(d.cursor, Lo, Digit(c, Lo))
    <3> HIDE DEF wl
    <3> QED BY <1>1, <2>2, <2>3, CursorWrite
  <2>5. Digit(f.cursor, Lo) = Digit(c, Lo)
    <3> DEFINE x == d.cursor  v == Digit(c, Lo)
    <3>1. x \in Cursors /\ v \in Digits
      BY <1>1 DEF Fits
    <3> HIDE DEF x, v
    <3>2. Digit(WithDigit(x, Lo, v), Lo) = v
      BY <3>1, WithDigitKeeps
    <3> HIDE DEF f
    <3> QED BY <2>4, <3>2 DEF x, v
  <2>6. Selecting(Tail(t), f, c, rest)
    <3> HIDE DEF f
    <3> QED BY <2>2, <2>5 DEF Selecting
  <2> QED BY <1>1, <2>2, <2>6
<1>5. CASE t = <<wm, wh>> \o rest /\ Digit(d.cursor, Lo) = Digit(c, Lo)
  <2>1. t = <<wm>> \o (<<wh>> \o rest)
    BY <1>3, <1>5
  <2>2. t # <<>> /\ Head(t) = wm /\ Tail(t) = <<wh>> \o rest
    <3> HIDE DEF wl, wm, wh
    <3> QED BY <1>2, <1>3, <2>1, NextOfRun
  <2>3. wm.port = Mid /\ wm.value = Digit(c, Mid) /\ wm.write
    BY WriteFields
  <2>4. f.cursor = WithDigit(d.cursor, Mid, Digit(c, Mid))
    <3> HIDE DEF wm
    <3> QED BY <1>1, <2>2, <2>3, CursorWrite
  <2>5. Digit(f.cursor, Mid) = Digit(c, Mid) /\ Digit(f.cursor, Lo) = Digit(c, Lo)
    <3> DEFINE x == d.cursor  v == Digit(c, Mid)
    <3>1. x \in Cursors /\ v \in Digits
      BY <1>1 DEF Fits
    <3> HIDE DEF x, v
    <3>2. Digit(WithDigit(x, Mid, v), Mid) = v /\ Digit(WithDigit(x, Mid, v), Lo) = Digit(x, Lo)
      BY <3>1, WithDigitKeeps
    <3> HIDE DEF f
    <3> QED BY <1>5, <2>4, <3>2 DEF x, v
  <2>6. Selecting(Tail(t), f, c, rest)
    <3> HIDE DEF f
    <3> QED BY <2>2, <2>5 DEF Selecting
  <2> QED BY <1>1, <2>2, <2>6
<1>6. CASE /\ t = <<wh>> \o rest
           /\ Digit(d.cursor, Lo) = Digit(c, Lo) /\ Digit(d.cursor, Mid) = Digit(c, Mid)
  <2>2. t # <<>> /\ Head(t) = wh /\ Tail(t) = rest
    <3> HIDE DEF wl, wm, wh
    <3> QED BY <1>2, <1>6, NextOfRun
  <2>3. wh.port = Hi /\ wh.value = Digit(c, Hi) /\ wh.write
    BY WriteFields
  <2>4. /\ f.cursor = WithDigit(d.cursor, Hi, Digit(c, Hi)) /\ f.cursor \in Cursors
        /\ f.data = f.jim[ServicesBase + f.cursor]
    <3>1. \A g : g = f => /\ Fits(g) /\ g.cursor = WithDigit(d.cursor, Hi, Digit(c, Hi))
                          /\ g.data = g.jim[ServicesBase + g.cursor]
      <4> HIDE DEF wh
      <4> QED BY <1>1, <2>2, <2>3, CursorWrite
    <3> HIDE DEF f
    <3> QED BY <3>1 DEF Fits
  <2>5. /\ Digit(f.cursor, Hi) = Digit(c, Hi) /\ Digit(f.cursor, Mid) = Digit(c, Mid)
        /\ Digit(f.cursor, Lo) = Digit(c, Lo)
    <3> DEFINE x == d.cursor  v == Digit(c, Hi)
    <3>1. x \in Cursors /\ v \in Digits
      BY <1>1 DEF Fits
    <3> HIDE DEF x, v
    <3>2. /\ Digit(WithDigit(x, Hi, v), Hi) = v /\ Digit(WithDigit(x, Hi, v), Mid) = Digit(x, Mid)
          /\ Digit(WithDigit(x, Hi, v), Lo) = Digit(x, Lo)
      BY <3>1, WithDigitKeeps
    <3> HIDE DEF f
    <3> QED BY <1>6, <2>4, <3>2 DEF x, v
  <2>6. f.cursor = c
    <3> HIDE DEF f
    <3> QED BY <2>4, <2>5, SameDigits
  <2>7. Selecting(Tail(t), f, c, rest)
    <3> HIDE DEF f
    <3> QED BY <2>2, <2>4, <2>6 DEF Selecting, Shows
  <2> QED BY <1>1, <2>2, <2>7
<1> QED BY <1>4, <1>5, <1>6 DEF Selecting

\* Through a page selection, one register at a time.
LEMMA PagingStep ==
  ASSUME NEW d, Fits(d), NEW q \in Pages, NEW rest \in Seq(Steady), NEW t,
         Paging(t, d, q, rest)
  PROVE  \/ t = rest /\ d.page = Clamped(q) /\ d.window = WindowOf(d.jim, d.page)
         \/ /\ t # <<>> /\ \E p \in Selectors, v \in Digits : Head(t) = Write(p, v)
            /\ Paging(Tail(t), Apply(d, Head(t)), q, rest)
<1> DEFINE wh == Write(PageHi, q.hi)  wm == Write(PageMid, q.mid)
           wl == Write(PageLo, q.lo)  f == Apply(d, Head(t))
<1>1. /\ q.hi \in Digits /\ q.mid \in Digits /\ q.lo \in Digits
      /\ q = [hi |-> q.hi, mid |-> q.mid, lo |-> q.lo]
  BY NetPortAssumption DEF Digits
<1>0. /\ PageHi \in Selectors /\ PageMid \in Selectors /\ PageLo \in Selectors
      /\ PageHi # PageMid /\ PageHi # PageLo /\ PageMid # PageLo
  BY DEF Selectors, PageHi, PageMid, PageLo
<1>2. wl \in Steady /\ wm \in Steady /\ wh \in Steady
  BY <1>0, <1>1, CursorWrites
<1>3. /\ <<wh, wm, wl>> \o rest = <<wh>> \o (<<wm, wl>> \o rest)
      /\ <<wm, wl>> \o rest = <<wm>> \o (<<wl>> \o rest)
      /\ <<wm, wl>> \o rest \in Seq(Steady) /\ <<wl>> \o rest \in Seq(Steady)
  <2> HIDE DEF wl, wm, wh
  <2>1. /\ <<wh, wm, wl>> \o rest = <<wh>> \o (<<wm, wl>> \o rest)
        /\ <<wm, wl>> \o rest \in Seq(Steady)
    BY <1>2, NextOfThree, SMTT(60)
  <2>2. /\ <<wm, wl>> \o rest = <<wm>> \o (<<wl>> \o rest)
        /\ <<wl>> \o rest \in Seq(Steady)
    BY <1>2, NextOfTwo, SMTT(60)
  <2> QED BY <2>1, <2>2
<1>7. d.page \in [hi : Int, mid : Int, lo : Int]
  BY DEF Fits
<1>4. CASE t = SelectPage(q) \o rest
  <2>1. t = <<wh>> \o (<<wm, wl>> \o rest)
    BY <1>3, <1>4 DEF SelectPage
  <2>2. t # <<>> /\ Head(t) = wh /\ Tail(t) = <<wm, wl>> \o rest
    <3> HIDE DEF wl, wm, wh
    <3> QED BY <1>2, <1>3, <2>1, NextOfRun
  <2>3. wh.port = PageHi /\ wh.value = q.hi /\ wh.write
    BY WriteFields
  <2>4. f.page.hi = ClampedSet(q.hi)
    <3>1. /\ Head(t).port = PageHi /\ Head(t).port \in Selectors /\ Head(t).write
          /\ Head(t).value = q.hi
      BY <1>0, <2>2, <2>3
    <3>2. \A g : g = f => /\ Fits(g) /\ g.window = WindowOf(g.jim, g.page)
                          /\ g.page.hi = ClampedSet(q.hi)
                          /\ g.page.mid = d.page.mid
                          /\ g.page.lo = d.page.lo
      BY <1>0, <1>1, <3>1, PageWrite
    <3> HIDE DEF f
    <3> QED BY <3>2 DEF Fits
  <2>5. f.page.hi = ClampedSet(q.hi)
    BY <2>4
  <2>6. Paging(Tail(t), f, q, rest)
    <3> HIDE DEF f
    <3> QED BY <2>2, <2>5 DEF Paging
  <2> QED BY <1>0, <1>1, <2>2, <2>6
<1>5. CASE t = <<wm, wl>> \o rest /\ d.page.hi = ClampedSet(q.hi)
  <2>1. t = <<wm>> \o (<<wl>> \o rest)
    BY <1>3, <1>5
  <2>2. t # <<>> /\ Head(t) = wm /\ Tail(t) = <<wl>> \o rest
    <3> HIDE DEF wl, wm, wh
    <3> QED BY <1>2, <1>3, <2>1, NextOfRun
  <2>3. wm.port = PageMid /\ wm.value = q.mid /\ wm.write
    BY WriteFields
  <2>4. f.page.hi = d.page.hi /\ f.page.mid = q.mid
    <3>1. /\ Head(t).port = PageMid /\ Head(t).port \in Selectors /\ Head(t).write
          /\ Head(t).value = q.mid
      BY <1>0, <2>2, <2>3
    <3>2. \A g : g = f => /\ Fits(g) /\ g.window = WindowOf(g.jim, g.page)
                          /\ g.page.hi = d.page.hi
                          /\ g.page.mid = q.mid
                          /\ g.page.lo = d.page.lo
      BY <1>0, <1>1, <3>1, PageWrite
    <3> HIDE DEF f
    <3> QED BY <3>2 DEF Fits
  <2>5. f.page.hi = ClampedSet(q.hi) /\ f.page.mid = q.mid
    <3> HIDE DEF f
    <3> QED BY <1>5, <1>7, <2>4
  <2>6. Paging(Tail(t), f, q, rest)
    <3> HIDE DEF f
    <3> QED BY <2>2, <2>5 DEF Paging
  <2> QED BY <1>0, <1>1, <2>2, <2>6
<1>6. CASE t = <<wl>> \o rest /\ d.page.hi = ClampedSet(q.hi) /\ d.page.mid = q.mid
  <2>2. t # <<>> /\ Head(t) = wl /\ Tail(t) = rest
    <3> HIDE DEF wl, wm, wh
    <3> QED BY <1>2, <1>6, NextOfRun
  <2>3. wl.port = PageLo /\ wl.value = q.lo /\ wl.write
    BY WriteFields
  <2>4. /\ f.page.hi = d.page.hi /\ f.page.mid = d.page.mid /\ f.page.lo = q.lo
        /\ f.page \in [hi : Int, mid : Int, lo : Int] /\ f.window = WindowOf(f.jim, f.page)
    <3>1. /\ Head(t).port = PageLo /\ Head(t).port \in Selectors /\ Head(t).write
          /\ Head(t).value = q.lo
      BY <1>0, <2>2, <2>3
    <3>2. \A g : g = f => /\ Fits(g) /\ g.window = WindowOf(g.jim, g.page)
                          /\ g.page.hi = d.page.hi
                          /\ g.page.mid = d.page.mid
                          /\ g.page.lo = q.lo
      BY <1>0, <1>1, <3>1, PageWrite
    <3> HIDE DEF f
    <3> QED BY <3>2 DEF Fits
  <2>5. f.page = [hi |-> ClampedSet(q.hi), mid |-> q.mid, lo |-> q.lo]
    <3> HIDE DEF f
    <3> QED BY <1>6, <1>7, <2>4
  <2>6. Clamped(q) = [hi |-> ClampedSet(q.hi), mid |-> q.mid, lo |-> q.lo]
    BY <1>1 DEF Clamped, ClampedSet
  <2>7. Paging(Tail(t), f, q, rest)
    <3> HIDE DEF f
    <3> QED BY <2>2, <2>4, <2>5, <2>6 DEF Paging
  <2> QED BY <1>0, <1>1, <2>2, <2>7
<1> QED BY <1>4, <1>5, <1>6 DEF Paging

\* Nothing is left to do only when the selection is over.
LEMMA SelectingDone ==
  ASSUME NEW d, Fits(d), NEW c \in Cursors, NEW rest \in Seq(Steady),
         Selecting(<<>>, d, c, rest)
  PROVE  rest = <<>> /\ Shows(d, c)
BY SelectingStep

\* The same of a page selection.
LEMMA PagingDone ==
  ASSUME NEW d, Fits(d), NEW q \in Pages, NEW rest \in Seq(Steady),
         Paging(<<>>, d, q, rest)
  PROVE  rest = <<>>
BY PagingStep
-----------------------------------------------------------------------------
(* What a step does to the device as the host has left it.                  *)

\* complete_active_callback is what Apply says.
LEMMA CallbackApplies ==
  ASSUME complete_active_callback, Matters(active), active.write \in BOOLEAN
  PROVE  Device' = Apply(Device, active)
<1> DEFINE e == active
<1>1. /\ Device.jim = jim /\ Device.cursor = cursor /\ Device.page = page
      /\ Device.data = dataReg /\ Device.window = window /\ Device.command = commandReg
      /\ Device.pending = servicePending /\ Device.left = serviceLeft
  BY DEF Device
<1>2. /\ {Lo, Mid, Hi} \cap ({Data, Command, Window} \cup Selectors) = {}
      /\ Selectors \cap {Data, Command, Window} = {} /\ Selectors = {PageHi, PageMid, PageLo}
      /\ Data # Command /\ Data # Window /\ Command # Window
      /\ PageHi # PageMid /\ PageHi # PageLo /\ PageMid # PageLo
  BY DEF Lo, Mid, Hi, Data, Command, Window, Selectors, PageHi, PageMid, PageLo
<1>3. ASSUME ServicesCallback
      PROVE  /\ jim' = JimAfter(Device, e) /\ cursor' = CursorAfter(Device, e)
             /\ page' = PageAfter(Device, e) /\ dataReg' = DataAfter(Device, e)
             /\ window' = WindowAfter(Device, e) /\ ~Commands(e)
             /\ UNCHANGED <<commandReg, servicePending, serviceLeft>>
  <2>0. /\ e.port \in {Lo, Mid, Hi, Data} /\ UNCHANGED <<commandReg, servicePending, serviceLeft>>
        /\ e.port # Command /\ e.port # Window /\ e.port \notin Selectors
        /\ e.port # PageHi /\ e.port # PageMid /\ e.port # PageLo
    BY <1>2, <1>3 DEF ServicesCallback
  <2>1. jim' = JimAfter(Device, e) /\ cursor' = CursorAfter(Device, e)
    BY <1>1, <1>2, <1>3, <2>0 DEF ServicesCallback, publish_service_cursor, JimAfter, CursorAfter
  <2>2. e.port = Data \/ (e.write /\ e.port \in {Lo, Mid, Hi})
    BY <1>3 DEF ServicesCallback
  <2>3. dataReg' = jim'[ServicesBase + cursor']
    BY <1>3 DEF ServicesCallback, publish_service_cursor
  <2>4. dataReg' = DataAfter(Device, e)
    BY <2>1, <2>2, <2>3 DEF DataAfter
  <2>5. page' = page /\ window' = window
    BY <1>3 DEF ServicesCallback
  <2>6. PageAfter(Device, e) = page /\ WindowAfter(Device, e) = window /\ ~Commands(e)
    BY <1>1, <2>0 DEF PageAfter, WindowAfter, Commands
  <2> QED BY <2>0, <2>1, <2>4, <2>5, <2>6
<1>4. ASSUME CommandCallback
      PROVE  /\ jim' = JimAfter(Device, e) /\ cursor' = CursorAfter(Device, e)
             /\ page' = PageAfter(Device, e) /\ dataReg' = DataAfter(Device, e)
             /\ window' = WindowAfter(Device, e) /\ Commands(e)
             /\ commandReg' = e.value /\ servicePending' = (e.value = Busy)
             /\ serviceLeft' = IF e.value = Busy THEN ServiceDelay ELSE serviceLeft
  <2>1. /\ e.port = Command /\ e.write /\ UNCHANGED <<jim, cursor, page, window, dataReg>>
        /\ commandReg' = e.value /\ servicePending' = (e.value = Busy)
        /\ serviceLeft' = IF e.value = Busy THEN ServiceDelay ELSE serviceLeft
    BY <1>4 DEF CommandCallback
  <2>2. /\ e.port # Data /\ e.port # Window /\ e.port \notin Selectors
        /\ e.port \notin {Lo, Mid, Hi}
        /\ e.port # PageHi /\ e.port # PageMid /\ e.port # PageLo
    BY <1>2, <2>1
  <2>3. JimAfter(Device, e) = jim /\ CursorAfter(Device, e) = cursor
    BY <1>1, <2>2 DEF JimAfter, CursorAfter
  <2>4. DataAfter(Device, e) = dataReg
    BY <1>1, <2>2 DEF DataAfter
  <2>5. PageAfter(Device, e) = page /\ WindowAfter(Device, e) = window
    BY <1>1, <2>2 DEF PageAfter, WindowAfter
  <2> QED BY <2>1, <2>3, <2>4, <2>5 DEF Commands
<1>5. ASSUME PageCallback
      PROVE  /\ jim' = JimAfter(Device, e) /\ cursor' = CursorAfter(Device, e)
             /\ page' = PageAfter(Device, e) /\ dataReg' = DataAfter(Device, e)
             /\ window' = WindowAfter(Device, e) /\ ~Commands(e)
             /\ UNCHANGED <<commandReg, servicePending, serviceLeft>>
  <2>0. /\ e.write /\ UNCHANGED <<cursor, dataReg, commandReg, servicePending, serviceLeft>>
    BY <1>5 DEF PageCallback
  <2>1. CASE e.port \in Selectors
    <3>1. /\ e.port # Data /\ e.port # Window /\ e.port # Command /\ e.port \notin {Lo, Mid, Hi}
          /\ e.port \in {PageHi, PageMid, PageLo}
      BY <1>2, <2>1
    <3>2. /\ jim' = jim /\ window' = WindowOf(jim, page')
          /\ page' = CASE e.port = PageLo -> [page EXCEPT !.lo = e.value]
                       [] e.port = PageMid -> [page EXCEPT !.mid = e.value]
                       [] e.port = PageHi ->
                            [page EXCEPT !.hi = IF e.value > MaxSet THEN MaxSet ELSE e.value]
      BY <1>5, <3>1 DEF PageCallback
    <3>3. page' = PageAfter(Device, e)
      BY <1>1, <1>2, <2>0, <3>1, <3>2 DEF PageAfter, ClampedSet
    <3>4. JimAfter(Device, e) = jim /\ CursorAfter(Device, e) = cursor
      BY <1>1, <3>1 DEF JimAfter, CursorAfter
    <3>5. DataAfter(Device, e) = dataReg /\ ~Commands(e)
      BY <1>1, <3>1 DEF DataAfter, Commands
    <3>6. WindowAfter(Device, e) = WindowOf(jim, PageAfter(Device, e))
      BY <1>1, <2>0, <2>1, <3>1 DEF WindowAfter
    <3> QED BY <2>0, <3>2, <3>3, <3>4, <3>5, <3>6
  <2>2. CASE e.port = Window
    <3>1. /\ e.port # Data /\ e.port # Command /\ e.port \notin {Lo, Mid, Hi}
          /\ e.port \notin Selectors
          /\ e.port # PageHi /\ e.port # PageMid /\ e.port # PageLo
      BY <1>2, <2>2
    <3>2. /\ jim' = [jim EXCEPT ![PageBase(page) + e.at] = e.value] /\ page' = page
          /\ window' = [window EXCEPT ![e.at] = e.value]
      BY <1>5, <3>1 DEF PageCallback
    <3>3. JimAfter(Device, e) = jim' /\ CursorAfter(Device, e) = cursor
      BY <1>1, <2>0, <2>2, <3>1, <3>2 DEF JimAfter, CursorAfter
    <3>4. DataAfter(Device, e) = dataReg /\ ~Commands(e)
      BY <1>1, <3>1 DEF DataAfter, Commands
    <3>5. PageAfter(Device, e) = page /\ WindowAfter(Device, e) = window'
      BY <1>1, <2>0, <2>2, <3>1, <3>2 DEF PageAfter, WindowAfter
    <3> QED BY <2>0, <3>2, <3>3, <3>4, <3>5
  <2> QED BY <1>5, <2>1, <2>2 DEF PageCallback
<1>6. ~IdleCallback
  BY DEF IdleCallback, Matters
<1>7. ServicesCallback \/ CommandCallback \/ PageCallback
  BY <1>6 DEF complete_active_callback
<1>8. /\ jim' = JimAfter(Device, e) /\ cursor' = CursorAfter(Device, e)
      /\ page' = PageAfter(Device, e) /\ dataReg' = DataAfter(Device, e)
      /\ window' = WindowAfter(Device, e)
      /\ commandReg' = IF Commands(e) THEN e.value ELSE Device.command
      /\ servicePending' = IF Commands(e) THEN e.value = Busy ELSE Device.pending
      /\ serviceLeft' = IF Commands(e) /\ e.value = Busy THEN ServiceDelay ELSE Device.left
  BY <1>1, <1>3, <1>4, <1>5, <1>7
<1> QED BY <1>8 DEF Device, Apply

\* What has no callback changes nothing.
LEMMA CallbackIdle ==
  ASSUME complete_active_callback, ~(active.write \/ active.port = Data)
  PROVE  Device' = Device
<1>1. IdleCallback
  BY DEF complete_active_callback, ServicesCallback, CommandCallback, PageCallback
<1> QED BY <1>1 DEF IdleCallback, Device

\* When the 6502 may touch the bus, the device is what it did to it.
LEMMA EffTurns == ASSUME Paced, Turns PROVE ~Live /\ ~active.valid /\ Eff = Device
<1>1. ~active.valid /\ ~Matters(posted)
  BY PacedSettled
<1>2. ~Live
  BY <1>1 DEF Live, Matters
<1> QED BY <1>1, <1>2 DEF Eff

\* Capturing an event and running its callback change nothing of that.
LEMMA DrainEff ==
  ASSUME Paced, Drain, servicePending => ~Live
  PROVE  Eff' = Eff /\ (Live' => Live) /\ (servicePending => ~Live)' /\ UNCHANGED host
<1>0. UNCHANGED host
  BY DEF Drain
<1>1. CASE capture_posted_event
  <2>1. /\ ~active.valid /\ active' = posted /\ posted'.valid = FALSE
        /\ UNCHANGED <<jim, cursor, page, dataReg, commandReg, window, serviceLeft,
                       servicePending>>
    BY <1>1 DEF capture_posted_event, CaptureDue, NoEvent
  <2>2. Device' = Device
    BY <2>1 DEF Device
  <2>3. ~Matters(active) /\ ~(Matters(posted))' /\ (Matters(active))' = Matters(posted)
    BY <2>1 DEF Matters
  <2>4. Live = Matters(posted) /\ Live' = Matters(posted)
    BY <2>1, <2>3 DEF Live, Matters
  <2>5. Live => InFlight = posted /\ InFlight' = posted
    BY <2>1, <2>3, <2>4 DEF InFlight
  <2>6. Eff = (IF Live THEN Apply(Device, posted) ELSE Device)
    BY <2>5 DEF Eff
  <2>7. Eff' = (IF Live' THEN Apply(Device', InFlight') ELSE Device')
    BY DEF Eff, Apply, JimAfter, CursorAfter, PageAfter, WindowAfter, DataAfter, Commands
  <2>8. Eff' = Eff
    BY <2>2, <2>4, <2>5, <2>6, <2>7
  <2> QED BY <1>0, <2>1, <2>4, <2>8
<1>2. CASE complete_active_callback
  <2>1. active.valid /\ active'.valid = FALSE /\ posted' = posted
    BY <1>2 DEF complete_active_callback, CallbackDue, NoEvent
  <2>2. ~posted.valid /\ active.write \in BOOLEAN
    BY <2>1 DEF Paced, Event
  <2>3. ~Live' /\ (Live = Matters(active)) /\ ~Matters(posted)
    BY <2>1, <2>2 DEF Live, Matters
  <2>4. Eff' = Device'
    BY <2>3 DEF Eff
  <2>5. CASE Matters(active)
    <3>1. Eff = Apply(Device, active)
      BY <2>3, <2>5 DEF Eff, InFlight
    <3>2. Device' = Apply(Device, active)
      BY <1>2, <2>2, <2>5, CallbackApplies
    <3> QED BY <1>0, <2>3, <2>4, <3>1, <3>2
  <2>6. CASE ~Matters(active)
    <3>1. Device' = Device
      BY <1>2, <2>1, <2>6, CallbackIdle DEF Matters
    <3>2. Eff = Device
      BY <2>3, <2>6 DEF Eff
    <3> QED BY <1>0, <2>3, <2>4, <3>1, <3>2
  <2> QED BY <2>5, <2>6
<1> QED BY <1>1, <1>2 DEF Drain, drain_zero_time_transitions

\* An event is its port, its place, its byte and its direction.
LEMMA ApplySame ==
  ASSUME NEW d, NEW e, NEW g, e.port = g.port, e.at = g.at, e.value = g.value,
         e.write = g.write
  PROVE  Apply(d, e) = Apply(d, g)
<1>1. JimAfter(d, e) = JimAfter(d, g) /\ CursorAfter(d, e) = CursorAfter(d, g)
  BY DEF JimAfter, CursorAfter
<1>2. PageAfter(d, e) = PageAfter(d, g)
  BY DEF PageAfter
<1>3. WindowAfter(d, e) = WindowAfter(d, g)
  BY <1>2 DEF WindowAfter
<1>4. DataAfter(d, e) = DataAfter(d, g)
  BY <1>1 DEF DataAfter
<1>5. Commands(e) = Commands(g)
  BY DEF Commands
<1> QED BY <1>1, <1>2, <1>3, <1>4, <1>5 DEF Apply

\* An access on the free bus is in flight if the ARM has to act on it.
LEMMA AccessEff ==
  ASSUME Paced, Turns, NEW s, s.write \in BOOLEAN,
         bus_access(s.port, s.at, s.value, s.write)
  PROVE  /\ Live' = (s.write \/ s.port = Data)
         /\ Eff' = IF s.write \/ s.port = Data THEN Apply(Eff, s) ELSE Eff
         /\ servicePending' = servicePending
<1>1. ~Live /\ ~active.valid /\ Eff = Device
  BY EffTurns
<1>2. /\ posted'.valid = TRUE /\ posted'.port = s.port /\ posted'.at = s.at
      /\ posted'.value = s.value /\ posted'.write = s.write
      /\ UNCHANGED <<jim, cursor, page, dataReg, commandReg, window, active, serviceLeft,
                     servicePending>>
  BY DEF bus_access
<1>3. Device' = Device
  BY <1>2 DEF Device
<1>4. (Matters(posted))' = (s.write \/ s.port = Data) /\ ~(Matters(active))'
  BY <1>1, <1>2 DEF Matters
<1>5. Live' = (s.write \/ s.port = Data)
  BY <1>4 DEF Live
<1>6. Live' => InFlight' = posted'
  BY <1>4, <1>5 DEF InFlight
<1>7. Eff' = (IF Live' THEN Apply(Device', InFlight') ELSE Device')
  BY DEF Eff, Apply, JimAfter, CursorAfter, PageAfter, WindowAfter, DataAfter, Commands
<1>8. Apply(Device, posted') = Apply(Device, s)
  BY <1>2, ApplySame
<1>9. Eff' = IF s.write \/ s.port = Data THEN Apply(Eff, s) ELSE Eff
  BY <1>1, <1>3, <1>5, <1>6, <1>7, <1>8
<1> QED BY <1>2, <1>5, <1>9

\* What a tick leaves of the host.
Quiet == UNCHANGED <<op, todo, shadow, polls, cursorTimeout, found, got, meant>>

\* A tick moves only a service that waits, and then nothing is in flight.
LEMMA TickEff ==
  ASSUME Paced, Tick, ~Stalls, servicePending => ~Live
  PROVE  /\ Live' = Live /\ (servicePending => ~Live)' /\ Quiet
         /\ \/ Eff' = Eff /\ (Eff.pending => Live)
            \/ /\ ~Live /\ Eff.pending /\ Eff'.pending /\ Eff.left > 1 /\ Eff'.left = Eff.left - 1
               /\ Eff'.jim = Eff.jim /\ Eff'.cursor = Eff.cursor /\ Eff'.page = Eff.page
               /\ Eff'.command = Eff.command
            \/ /\ ~Live /\ Eff.pending /\ Eff'.pending = FALSE /\ Eff.left = 1
               /\ Eff'.jim = [Eff.jim EXCEPT ![ReplyCell] = Eff.jim[ServicesBase + CommandCell]]
               /\ Eff'.cursor = Eff.cursor /\ Eff'.page = Eff.page
               /\ Eff'.command = Eff.jim[ServicesBase + CommandCell]
<1>1. UNCHANGED <<posted, active, cursor, page, dataReg, window>> /\ Quiet /\ ~CallbackDue
  BY DEF Tick, tick_fiq, Quiet, Urgent
<1>2. Live' = Live /\ InFlight' = InFlight
  BY <1>1 DEF Live, InFlight, Matters
<1>3. Eff = (IF Live THEN Apply(Device, InFlight) ELSE Device)
      /\ Eff' = (IF Live' THEN Apply(Device', InFlight') ELSE Device')
  BY DEF Eff
<1>4. CASE ~servicePending
  <2>1. UNCHANGED <<jim, commandReg, servicePending, serviceLeft>>
    BY <1>4 DEF Tick, tick_fiq
  <2>2. Device' = Device
    BY <1>1, <2>1 DEF Device
  <2>3. Eff' = Eff
    BY <1>2, <1>3, <2>2
  <2>4. Eff.pending => Live
    BY <1>3, <1>4 DEF Device
  <2> QED BY <1>1, <1>2, <1>4, <2>1, <2>3, <2>4
<1>5. CASE servicePending
  <2>1. ~Live /\ ~Live' /\ Eff = Device /\ Eff' = Device'
    BY <1>2, <1>3, <1>5
  <2>2. ~active.valid
    BY <1>1, <2>1 DEF Paced, CallbackDue, Live
  <2>3. \/ servicePending /\ serviceLeft = 1 /\ complete_service
        \/ /\ servicePending /\ serviceLeft > 1 /\ serviceLeft' = serviceLeft - 1
           /\ UNCHANGED <<jim, commandReg, servicePending>>
    BY <1>5, <2>2 DEF Tick, tick_fiq
  <2>4. /\ Eff.jim = jim /\ Eff.cursor = cursor /\ Eff.page = page
        /\ Eff.command = commandReg
        /\ Eff.pending = servicePending /\ Eff.left = serviceLeft
        /\ Eff'.jim = jim' /\ Eff'.cursor = cursor' /\ Eff'.page = page'
        /\ Eff'.command = commandReg'
        /\ Eff'.pending = servicePending' /\ Eff'.left = serviceLeft'
    BY <2>1 DEF Device
  <2>5. CASE servicePending /\ serviceLeft = 1 /\ complete_service
    <3>1. /\ servicePending' = FALSE
          /\ commandReg' = jim[ServicesBase + CommandCell]
          /\ jim' = [jim EXCEPT ![ReplyCell] = jim[ServicesBase + CommandCell]]
      BY <2>5 DEF complete_service
    <3>2. Eff'.jim = [Eff.jim EXCEPT ![ReplyCell] = Eff.jim[ServicesBase + CommandCell]]
      BY <2>4, <3>1
    <3> QED BY <1>1, <1>2, <2>1, <2>4, <2>5, <3>1, <3>2
  <2>6. CASE /\ servicePending /\ serviceLeft > 1 /\ serviceLeft' = serviceLeft - 1
             /\ UNCHANGED <<jim, commandReg, servicePending>>
    BY <1>1, <1>2, <2>1, <2>4, <2>6
  <2> QED BY <2>3, <2>5, <2>6
<1> QED BY <1>4, <1>5

\* A step that leaves the routine and what was done to the device alone.
LEMMA StageKeeps ==
  ASSUME Eff' = Eff, UNCHANGED <<op, todo, shadow, polls, got, meant>>, Stage(Eff),
         Served(Eff) => Served(Eff)'
  PROVE  Stage(Eff)'
<1>1. \A t, c, r : Selecting(t, Eff, c, r) = Selecting(t, Eff', c, r)
  OBVIOUS
<1>2. \A t, q, r : Paging(t, Eff, q, r) = Paging(t, Eff', q, r)
  OBVIOUS
<1>3. Settled(Eff)' = Settled(Eff)
  BY DEF Settled
<1>4. Wandering(Eff) => Wandering(Eff)'
  BY <1>3 DEF Wandering
<1>5. Probing(Eff) => Probing(Eff)'
  BY <1>1, <1>3 DEF Probing
<1>6. Writing(Eff) => Writing(Eff)'
  BY <1>1 DEF Writing
<1>7. Reading(Eff) => Reading(Eff)'
  BY <1>1, <1>3 DEF Reading
<1>8. Storing(Eff) => Storing(Eff)'
  BY <1>2 DEF Storing
<1>9. Fetching(Eff) => Fetching(Eff)'
  BY <1>2, <1>3 DEF Fetching
<1>10. Dispatching(Eff) => Dispatching(Eff)'
  BY <1>3 DEF Dispatching, Asked
<1> QED BY <1>3, <1>4, <1>5, <1>6, <1>7, <1>8, <1>9, <1>10 DEF Stage

\* Capturing and calling back.
LEMMA DrainNet == ASSUME TypeHost, Paced, NetInv, Drain PROVE NetInv'
<1>1. Eff' = Eff /\ (Live' => Live) /\ (servicePending => ~Live)' /\ UNCHANGED host
  BY DrainEff DEF NetInv
<1>2. /\ UNCHANGED <<op, todo, shadow, polls, got, meant>>
      /\ wait' = wait /\ wait \in Nat /\ UNCHANGED <<cursorTimeout, found>>
  BY <1>1 DEF host, TypeHost
<1>3. Served(Eff) => Served(Eff)'
  <2> SUFFICES ASSUME Served(Eff) PROVE Served(Eff)'
    OBVIOUS
  <2>1. polls * Frame \in Int /\ Eff.left \in Int
    BY NetPortAssumption, SMTT(30) DEF Served
  <2> DEFINE k == polls * Frame
  <2>2. Eff.left <= k + (IF Live THEN 0 ELSE wait)
    BY DEF Served
  <2> HIDE DEF k
  <2>3. Eff.left <= k + (IF Live' THEN 0 ELSE wait)
    BY <1>1, <1>2, <2>1, <2>2 DEF k
  <2>4. Eff'.left <= polls' * Frame + (IF Live' THEN 0 ELSE wait')
    BY <1>1, <1>2, <2>3 DEF k
  <2> QED BY <1>1, <1>2, <2>4 DEF Served
<1>4. Stage(Eff)'
  BY <1>1, <1>2, <1>3, StageKeeps DEF NetInv
<1>5. Fits(Eff)'
  BY <1>1 DEF NetInv, Fits
<1> QED BY <1>1, <1>2, <1>4, <1>5 DEF NetInv, Returned, NoTimeout

\* A service on its way answers before the polls run out.
LEMMA ServiceNet ==
  ASSUME TypeHost, Paced, NetInv, Tick, ~Stalls, Eff.pending, ~Live
  PROVE  Served(Eff) /\ op = "dispatch"
<1>1. ~Settled(Eff)
  BY DEF Settled
<1>2. op = "dispatch" /\ (Asked(Eff) \/ Served(Eff))
  BY <1>1 DEF NetInv, Stage, Wandering, Probing, Writing, Reading, Storing, Fetching, Dispatching
<1> QED BY <1>2 DEF Asked

\* Time passes.
LEMMA TickNet == ASSUME TypeHost, Paced, NetInv, Tick, ~Stalls PROVE NetInv'
<1>1. Live' = Live /\ (servicePending => ~Live)' /\ Quiet
  BY TickEff DEF NetInv
<1>2. UNCHANGED <<op, todo, shadow, polls, got, meant, cursorTimeout, found>>
  BY <1>1 DEF Quiet
<1>3. /\ wait \in Nat /\ wait' = (IF wait > 0 THEN wait - 1 ELSE 0)
  BY DEF Tick, TypeHost
<1>4. Returned' /\ NoTimeout'
  BY <1>2 DEF NetInv, Returned, NoTimeout
<1>5. CASE Eff' = Eff /\ (Eff.pending => Live)
  <2>1. Served(Eff) => Served(Eff)'
    BY <1>1, <1>2, <1>5 DEF Served
  <2>2. Stage(Eff)'
    BY <1>2, <1>5, <2>1, StageKeeps DEF NetInv
  <2>3. Fits(Eff)'
    BY <1>5 DEF NetInv, Fits
  <2> QED BY <1>1, <1>4, <2>2, <2>3 DEF NetInv
<1>6. CASE /\ ~Live /\ Eff.pending /\ Eff'.pending /\ Eff.left > 1 /\ Eff'.left = Eff.left - 1
           /\ Eff'.jim = Eff.jim /\ Eff'.cursor = Eff.cursor /\ Eff'.page = Eff.page
           /\ Eff'.command = Eff.command
  <2>1. Served(Eff) /\ op = "dispatch"
    BY <1>6, ServiceNet
  <2>2. Fits(Eff)'
    BY <1>6 DEF NetInv, Fits
  <2>3. polls * Frame \in Int /\ Eff.left \in Nat
    BY <2>1, NetPortAssumption, SMTT(30) DEF Served
  <2>4. Eff'.left <= polls' * Frame + (IF Live' THEN 0 ELSE wait')
    <3> DEFINE k == polls * Frame
    <3>1. Eff.left <= k + wait /\ Eff.left <= k + (IF Live THEN 0 ELSE wait)
      BY <1>6, <2>1 DEF Served
    <3>2. k \in Int
      BY <2>3
    <3> HIDE DEF k
    <3>3. \A x \in Nat, w \in Nat : x <= k + w => x - 1 <= k + (IF w > 0 THEN w - 1 ELSE 0)
      BY <3>2
    <3>4. Eff'.left <= k + wait'
      BY <1>3, <1>6, <2>3, <3>1, <3>3
    <3> QED BY <1>1, <1>2, <1>6, <3>4 DEF k
  <2>5. Eff'.left \in Nat /\ Eff'.left > 0
    BY <1>6, <2>3
  <2>6. Served(Eff)'
    BY <1>2, <1>6, <2>1, <2>4, <2>5 DEF Served
  <2>7. /\ got.of = "dispatch" /\ got.due # Busy
        /\ got.due = Eff.jim[ServicesBase + CommandCell]
        /\ meant = [Eff.jim EXCEPT ![ReplyCell] = got.due]
    BY <1>6, <2>1 DEF NetInv, Stage, Wandering, Probing, Writing, Reading, Storing, Fetching,
                      Dispatching, Settled
  <2>8. Dispatching(Eff)'
    BY <1>2, <1>6, <2>1, <2>6, <2>7 DEF Dispatching
  <2> QED BY <1>1, <1>4, <2>2, <2>8 DEF NetInv, Stage
<1>7. CASE /\ ~Live /\ Eff.pending /\ Eff'.pending = FALSE /\ Eff.left = 1
           /\ Eff'.jim = [Eff.jim EXCEPT ![ReplyCell] = Eff.jim[ServicesBase + CommandCell]]
           /\ Eff'.cursor = Eff.cursor /\ Eff'.page = Eff.page
           /\ Eff'.command = Eff.jim[ServicesBase + CommandCell]
  <2>1. Served(Eff) /\ op = "dispatch"
    BY <1>7, ServiceNet
  <2>2. /\ got.of = "dispatch" /\ got.due # Busy
        /\ got.due = Eff.jim[ServicesBase + CommandCell]
        /\ meant = [Eff.jim EXCEPT ![ReplyCell] = got.due]
    BY <1>7, <2>1 DEF NetInv, Stage, Wandering, Probing, Writing, Reading, Storing, Fetching,
                      Dispatching, Settled
  <2>3. Eff'.jim = meant' /\ Eff'.command = got'.due
    BY <1>2, <1>7, <2>2
  <2>4. Eff'.jim \in Memories
    <3>1. ServicesBase + CommandCell \in 0..JimSize - 1
      BY ServicesCell, MailboxAssumption
    <3>2. Eff.jim \in Memories
      BY DEF NetInv, Fits
    <3>3. Eff.jim[ServicesBase + CommandCell] \in Byte \ {Busy}
      BY <3>1, <3>2 DEF Memories
    <3> QED BY <1>7, <3>2, <3>3 DEF Memories
  <2>5. Fits(Eff)'
    BY <1>7, <2>4 DEF NetInv, Fits
  <2>6. Dispatching(Eff)'
    BY <1>2, <1>7, <2>1, <2>2, <2>3 DEF Dispatching, Settled, Served
  <2> QED BY <1>1, <1>4, <2>5, <2>6 DEF NetInv, Stage
<1> QED BY <1>5, <1>6, <1>7, TickEff DEF NetInv

-----------------------------------------------------------------------------
(* A routine is called.                                                     *)

\* Between routines the memory is what was meant.
LEMMA IdleSettled ==
  ASSUME NetInv, op = "idle"
  PROVE  Settled(Eff) /\ todo = <<>>
BY DEF NetInv, Stage, Wandering, Probing, Writing, Reading, Storing, Fetching, Dispatching

\* What a selection makes is harmless.
LEMMA HarmlessWrites ==
  ASSUME NEW p \in {Lo, Mid, Hi} \cup Selectors, NEW v \in Digits
  PROVE  Write(p, v) \in Harmless
BY CursorWrites, WriteFields DEF Harmless

\* Selecting a cursor is harmless to the memory.
LEMMA HarmlessCursor == ASSUME NEW c \in Cursors PROVE net_apply_cursor(c) \in Seq(Harmless)
<1>1. /\ Write(Lo, Digit(c, Lo)) \in Harmless
      /\ Write(Mid, Digit(c, Mid)) \in Harmless
      /\ Write(Hi, Digit(c, Hi)) \in Harmless
  BY CursorSpelt, HarmlessWrites
<1> QED BY <1>1 DEF net_apply_cursor

\* So is selecting a page.
LEMMA HarmlessPage == ASSUME NEW q \in Pages PROVE SelectPage(q) \in Seq(Harmless)
<1>1. q.hi \in Digits /\ q.mid \in Digits /\ q.lo \in Digits
  BY NetPortAssumption DEF Digits
<1>2. /\ Write(PageHi, q.hi) \in Harmless
      /\ Write(PageMid, q.mid) \in Harmless
      /\ Write(PageLo, q.lo) \in Harmless
  BY <1>1, HarmlessWrites DEF Selectors
<1> QED BY <1>2 DEF SelectPage

\* What every call does.
LEMMA CallNet ==
  ASSUME NetInv, NEW routine, NEW accesses, NEW looks, Call(routine, accesses, looks)
  PROVE  /\ Eff' = Eff /\ Live' = Live /\ Settled(Eff) /\ Fits(Eff)' /\ Fits(Eff)
         /\ op = "idle" /\ op' = routine /\ todo' = accesses /\ NoTimeout'
         /\ (servicePending => ~Live)'
         /\ UNCHANGED got /\ routine \notin {"read", "fetch", "dispatch"} => Returned'
<1>1. /\ op = "idle" /\ op' = routine /\ todo' = accesses
      /\ UNCHANGED <<device, wait, cursorTimeout, found>>
  BY DEF Call
<1>2. UNCHANGED <<jim, cursor, page, dataReg, commandReg, window, posted, active,
                  serviceLeft, servicePending>>
  BY <1>1 DEF device
<1>3. Device' = Device /\ Live' = Live /\ InFlight' = InFlight
  BY <1>2 DEF Device, Live, InFlight, Matters
<1>4. Eff = (IF Live THEN Apply(Device, InFlight) ELSE Device)
      /\ Eff' = (IF Live' THEN Apply(Device', InFlight') ELSE Device')
  BY DEF Eff
<1>5. Eff' = Eff
  BY <1>3, <1>4
<1>6. Fits(Eff) /\ Fits(Eff)'
  BY <1>5 DEF NetInv, Fits
<1>7. Settled(Eff)
  BY <1>1, IdleSettled
<1>8. UNCHANGED got /\ routine \notin {"read", "fetch", "dispatch"} => Returned'
  BY <1>1 DEF NetInv, Returned
<1> QED BY <1>1, <1>2, <1>3, <1>5, <1>6, <1>7, <1>8 DEF NetInv, NoTimeout

\* net_probe selects the command block.
LEMMA ProbeCalled == ASSUME NetInv, net_probe PROVE NetInv'
<1>1. /\ Call("probe", net_apply_cursor(CommandCell), 1)
      /\ UNCHANGED <<shadow, polls, got, meant>>
  BY DEF net_probe
<1>2. /\ Eff' = Eff /\ Settled(Eff) /\ Fits(Eff)' /\ op' = "probe"
      /\ todo' = net_apply_cursor(CommandCell) /\ NoTimeout' /\ (servicePending => ~Live)'
      /\ Returned'
  BY <1>1, CallNet
<1>3. todo' = net_apply_cursor(CommandCell) \o <<>>
  BY <1>2, ConcatEmptySeq, CursorSteady, MailboxAssumption
<1>4. Selecting(todo', Eff', CommandCell, <<>>)
  BY <1>3 DEF Selecting
<1>5. Probing(Eff)'
  BY <1>1, <1>2, <1>4 DEF Probing, Settled
<1> QED BY <1>2, <1>5 DEF NetInv, Stage

\* net_select_address moves the cursor only.
LEMMA SelectCalled == ASSUME NetInv, NEW c \in Cells, net_select_address(c) PROVE NetInv'
<1>1. Call("select", net_apply_cursor(c), 1) /\ UNCHANGED <<polls, got, meant>>
  BY DEF net_select_address
<1>2. /\ Eff' = Eff /\ Settled(Eff) /\ Fits(Eff)' /\ op' = "select"
      /\ todo' = net_apply_cursor(c) /\ NoTimeout' /\ (servicePending => ~Live)' /\ Returned'
  BY <1>1, CallNet
<1>3. todo' \in Seq(Harmless)
  BY <1>2, HarmlessCursor, NetPortAssumption
<1>4. Wandering(Eff)'
  BY <1>1, <1>2, <1>3 DEF Wandering, Settled
<1> QED BY <1>2, <1>4 DEF NetInv, Stage

\* Another ROM moves what is shared, and stores nothing.
LEMMA ForeignCalled ==
  ASSUME NetInv, NEW run \in Seq(Harmless), Call("foreign", run, 1),
         UNCHANGED <<shadow, polls, got, meant>>
  PROVE  NetInv'
<1>2. /\ Eff' = Eff /\ Settled(Eff) /\ Fits(Eff)' /\ op' = "foreign"
      /\ todo' = run /\ NoTimeout' /\ (servicePending => ~Live)' /\ Returned'
  BY CallNet
<1>4. Wandering(Eff)'
  BY <1>2 DEF Wandering, Settled
<1> QED BY <1>2, <1>4 DEF NetInv, Stage

\* net_data_write and net_begin: one byte is still to be written.
LEMMA WriteCalled ==
  ASSUME TypeHost, NetInv, NEW v \in Values, net_data_write(v) \/ net_begin(v) PROVE NetInv'
<1> DEFINE c == IF net_data_write(v) THEN shadow ELSE CommandCell
           w == <<Write(Data, v)>>  a == net_apply_cursor(c)
<1>0. c \in Cursors
  BY MailboxAssumption DEF TypeHost
<1>1. \E routine \in {"write", "begin"} :
        /\ \/ Call(routine, a \o w, Tries) \/ Call(routine, a \o a \o w, Tries)
        /\ shadow' = NextCursor(c) /\ meant' = [meant EXCEPT ![ServicesBase + c] = v]
        /\ UNCHANGED <<polls, got>>
  BY DEF net_data_write, net_begin
<1> HIDE DEF c
<1>2. PICK routine \in {"write", "begin"} :
        /\ \/ Call(routine, a \o w, Tries) \/ Call(routine, a \o a \o w, Tries)
        /\ shadow' = NextCursor(c) /\ meant' = [meant EXCEPT ![ServicesBase + c] = v]
        /\ UNCHANGED <<polls, got>>
  BY <1>1
<1>3. /\ Eff' = Eff /\ Settled(Eff) /\ Fits(Eff)' /\ op' = routine
      /\ (todo' = a \o w \/ todo' = a \o a \o w) /\ NoTimeout' /\ (servicePending => ~Live)'
      /\ Returned'
  BY <1>2, CallNet
<1>4. a \o a \o w = a \o (a \o w)
  <2>1. a \in Seq(Steady)
    BY <1>0, CursorSteady
  <2>2. w \in Seq(Steady)
    <3>1. Data \in Ports /\ v \in Int \cup Byte
      BY NetPortAssumption DEF Ports
    <3> QED BY <3>1, WriteSteady
  <2> HIDE DEF a, w
  <2> QED BY <2>1, <2>2, ConcatAssociative
<1>5. Selecting(todo', Eff', c, w) \/ Selecting(todo', Eff', c, a \o w)
  BY <1>3, <1>4 DEF Selecting
<1>6. meant' = [Eff'.jim EXCEPT ![ServicesBase + c] = v] /\ ~Eff'.pending
  BY <1>2, <1>3 DEF Settled
<1>7. Writing(Eff)'
  BY <1>0, <1>2, <1>3, <1>5, <1>6 DEF Writing
<1> QED BY <1>3, <1>7 DEF NetInv, Stage

\* net_data_read: the byte at the shadow cursor is due.
LEMMA ReadCalled == ASSUME TypeHost, NetInv, net_data_read PROVE NetInv'
<1>1. /\ Call("read", net_apply_cursor(shadow) \o <<Load(Data, 0)>>, Tries)
      /\ shadow' = NextCursor(shadow) /\ UNCHANGED meant
      /\ got' = [of |-> "read", value |-> Busy, due |-> meant[ServicesBase + shadow]]
  BY DEF net_data_read, Expect
<1>2. /\ Eff' = Eff /\ Settled(Eff) /\ Fits(Eff)' /\ op' = "read"
      /\ todo' = net_apply_cursor(shadow) \o <<Load(Data, 0)>>
      /\ NoTimeout' /\ (servicePending => ~Live)'
  BY <1>1, CallNet
<1>3. got'.of = "read" /\ got'.due = meant'[ServicesBase + shadow]
  BY <1>1
<1>4. Selecting(todo', Eff', shadow, <<Load(Data, 0)>>)
  BY <1>2 DEF Selecting
<1>5. shadow \in Cursors
  BY DEF TypeHost
<1>6. Reading(Eff)'
  BY <1>1, <1>2, <1>3, <1>4, <1>5 DEF Reading, Settled
<1>7. Returned'
  BY <1>2, <1>3 DEF Returned
<1> QED BY <1>2, <1>6, <1>7 DEF NetInv, Stage

\* net_dispatch: the result of the command in memory now is due.
LEMMA DispatchCalled == ASSUME NetInv, net_dispatch PROVE NetInv'
<1> DEFINE due == meant[ServicesBase + CommandCell]
<1>1. /\ Call("dispatch", <<Store(Command, 0, Busy, DispatchGap)>>, 1)
      /\ polls' = Polls /\ meant' = [meant EXCEPT ![ReplyCell] = due]
      /\ got' = [of |-> "dispatch", value |-> Busy, due |-> due]
  BY DEF net_dispatch, Expect
<1>2. /\ Eff' = Eff /\ Settled(Eff) /\ Fits(Eff)' /\ Fits(Eff) /\ op' = "dispatch"
      /\ todo' = <<Store(Command, 0, Busy, DispatchGap)>>
      /\ NoTimeout' /\ (servicePending => ~Live)'
  BY <1>1, CallNet
<1>3. got'.of = "dispatch" /\ got'.due = due
  BY <1>1
<1>4. Eff.jim = meant /\ ~Eff.pending
  BY <1>2 DEF Settled
<1>5. due \in Byte \ {Busy}
  <2>1. ServicesBase + CommandCell \in 0..JimSize - 1
    BY ServicesCell, MailboxAssumption
  <2> QED BY <1>2, <1>4, <2>1 DEF Fits, Memories
<1>6. got'.due # Busy /\ got'.due = Eff'.jim[ServicesBase + CommandCell]
  BY <1>2, <1>3, <1>4, <1>5
<1>7. meant' = [Eff'.jim EXCEPT ![ReplyCell] = got'.due]
  BY <1>1, <1>2, <1>3, <1>4
<1>8. Asked(Eff)'
  BY <1>1, <1>2, <1>4 DEF Asked
<1>9. Dispatching(Eff)'
  BY <1>2, <1>3, <1>6, <1>7, <1>8 DEF Dispatching
<1>10. Returned'
  BY <1>2, <1>3 DEF Returned
<1> QED BY <1>2, <1>9, <1>10 DEF NetInv, Stage

\* A store to a page: one byte is still to be written.
LEMMA StoreCalled ==
  ASSUME NetInv, NEW q \in Pages, NEW at \in PageByte, NEW v \in Values, PageStore(q, at, v)
  PROVE  NetInv'
<1>0. meant' = [meant EXCEPT ![PageBase(Clamped(q)) + at] = v]
  BY DEF PageStore
<1>1. Call("store", SelectPage(q) \o <<Store(Window, at, v, Settle)>>, 1) /\ UNCHANGED got
  BY DEF PageStore
<1>2. /\ Eff' = Eff /\ Settled(Eff) /\ Fits(Eff)' /\ op' = "store"
      /\ todo' = SelectPage(q) \o <<Store(Window, at, v, Settle)>>
      /\ NoTimeout' /\ (servicePending => ~Live)' /\ Returned'
  <2> DEFINE run == SelectPage(q) \o <<Store(Window, at, v, Settle)>>
  <2>1. Call("store", run, 1) /\ UNCHANGED got
    BY <1>1
  <2> HIDE DEF run
  <2>2. /\ Eff' = Eff /\ Settled(Eff) /\ Fits(Eff)' /\ op' = "store" /\ todo' = run
        /\ NoTimeout' /\ (servicePending => ~Live)' /\ Returned'
    BY <2>1, CallNet
  <2> QED BY <2>2 DEF run
<1>3. Paging(todo', Eff', q, <<Store(Window, at, v, Settle)>>)
  BY <1>2 DEF Paging
<1>4. meant' = [Eff'.jim EXCEPT ![PageBase(Clamped(q)) + at] = v] /\ ~Eff'.pending
  BY <1>0, <1>2 DEF Settled
<1>5. Storing(Eff)'
  BY <1>2, <1>3, <1>4 DEF Storing
<1> QED BY <1>2, <1>5 DEF NetInv, Stage

\* A fetch from a page: the byte in memory is due.
LEMMA FetchCalled ==
  ASSUME NetInv, NEW q \in Pages, NEW at \in PageByte, PageFetch(q, at)
  PROVE  NetInv'
<1>1. /\ Call("fetch", SelectPage(q) \o <<Load(Window, at)>>, 1) /\ UNCHANGED meant
      /\ got' = [of |-> "fetch", value |-> Busy, due |-> meant[PageBase(Clamped(q)) + at]]
  BY DEF PageFetch, Expect
<1>2. /\ Eff' = Eff /\ Settled(Eff) /\ Fits(Eff)' /\ op' = "fetch"
      /\ todo' = SelectPage(q) \o <<Load(Window, at)>>
      /\ NoTimeout' /\ (servicePending => ~Live)'
  BY <1>1, CallNet
<1>3. got'.of = "fetch" /\ got'.due = meant'[PageBase(Clamped(q)) + at]
  BY <1>1
<1>4. Paging(todo', Eff', q, <<Load(Window, at)>>)
  BY <1>2 DEF Paging
<1>5. Fetching(Eff)'
  BY <1>1, <1>2, <1>3, <1>4 DEF Fetching, Settled
<1>6. Returned'
  BY <1>2, <1>3 DEF Returned
<1> QED BY <1>2, <1>5, <1>6 DEF NetInv, Stage

\* Whatever routine is called.
LEMMA CallsNet == ASSUME TypeHost, NetInv, Calls PROVE NetInv'
<1>1. ASSUME NEW c \in Cells, NEW q \in Pages, ForeignUse(c, q) PROVE NetInv'
  <2>1. net_apply_cursor(c) \o SelectPage(q) \in Seq(Harmless)
    <3>1. net_apply_cursor(c) \in Seq(Harmless) /\ SelectPage(q) \in Seq(Harmless)
      BY HarmlessCursor, HarmlessPage, NetPortAssumption
    <3> QED BY <3>1, ConcatProperties
  <2> QED BY <1>1, <2>1, ForeignCalled DEF ForeignUse
<1>2. ASSUME NEW v \in Values, ForeignCommand(v) PROVE NetInv'
  <2>1. Write(Command, v) \in Harmless
    <3>1. Command \in Ports /\ v \in Int \cup Byte /\ v # Busy
      BY NetPortAssumption DEF Ports
    <3> QED BY <3>1, WriteSteady, WriteFields DEF Harmless
  <2>2. <<Write(Command, v)>> \in Seq(Harmless)
    BY <2>1
  <2> QED BY <1>2, <2>2, ForeignCalled DEF ForeignCommand
<1> QED BY <1>1, <1>2, ProbeCalled, ReadCalled, DispatchCalled, SelectCalled, WriteCalled,
           FetchCalled, StoreCalled DEF Calls

-----------------------------------------------------------------------------
(* A routine makes its next access.                                         *)

\* Whoever has an access to make waits for no service.
LEMMA BusyNone == ASSUME NetInv, todo # <<>> PROVE ~Eff.pending /\ op # "idle"
BY DEF NetInv, Stage, Wandering, Probing, Writing, Reading, Storing, Fetching, Dispatching,
       Settled, Asked, Served

\* What every access does.
LEMMA AccessFacts ==
  ASSUME TypeHost, Paced, NetInv, Access, NEW s, s = Head(todo)
  PROVE  /\ todo # <<>> /\ s \in Steady /\ s.write \in BOOLEAN /\ Eff = Device
         /\ Live' = (s.write \/ s.port = Data) /\ (servicePending => ~Live)'
         /\ Eff' = IF s.write \/ s.port = Data THEN Apply(Eff, s) ELSE Eff
         /\ todo' = Tail(todo) /\ op' = IF todo' = <<>> /\ op \in Plain THEN "idle" ELSE op
         /\ got' = IF s.write THEN got ELSE [got EXCEPT !.value = ReadValue(s.port, s.at)]
         /\ UNCHANGED <<shadow, polls, meant>> /\ NoTimeout'
<1>1. todo # <<>> /\ todo \in Seq(Steady) /\ Turns /\ bus_access(s.port, s.at, s.value, s.write)
  BY DEF Access, TypeHost
<1>2. s \in Steady
  BY <1>1, HeadTailProperties
<1>3. s.write \in BOOLEAN
  BY <1>2 DEF Steady, Accesses
<1>4. /\ todo' = Tail(todo) /\ op' = IF todo' = <<>> /\ op \in Plain THEN "idle" ELSE op
      /\ got' = IF s.write THEN got ELSE [got EXCEPT !.value = ReadValue(s.port, s.at)]
      /\ UNCHANGED <<shadow, polls, meant, cursorTimeout, found>>
  BY DEF Access
<1>5. /\ Live' = (s.write \/ s.port = Data) /\ servicePending' = servicePending
      /\ Eff' = IF s.write \/ s.port = Data THEN Apply(Eff, s) ELSE Eff
  BY <1>1, <1>3, AccessEff
<1>6. Eff = Device
  BY <1>1, EffTurns
<1>7. ~servicePending
  BY <1>1, <1>6, BusyNone DEF Device
<1>8. NoTimeout'
  BY <1>4 DEF NoTimeout, NetInv
<1> QED BY <1>1, <1>2, <1>3, <1>4, <1>5, <1>6, <1>7, <1>8

\* A store is nothing the program gets.
LEMMA ReturnedKept ==
  ASSUME NetInv, UNCHANGED got, op' \in {op, "idle"}, op \notin {"read", "fetch", "dispatch"}
  PROVE  Returned'
BY DEF NetInv, Returned

\* net_select_address and another ROM, between two registers.
LEMMA WanderAccess == ASSUME TypeHost, Paced, NetInv, Access, Wandering(Eff) PROVE NetInv'
<1> DEFINE s == Head(todo)
<1>1. todo \in Seq(Harmless) /\ op \in {"select", "foreign"} /\ Settled(Eff) /\ Fits(Eff)
  BY DEF Wandering, NetInv
<1>2. /\ todo # <<>> /\ (servicePending => ~Live)' /\ NoTimeout'
      /\ Eff' = (IF s.write \/ s.port = Data THEN Apply(Eff, s) ELSE Eff)
      /\ todo' = Tail(todo) /\ op' = (IF todo' = <<>> /\ op \in Plain THEN "idle" ELSE op)
      /\ got' = (IF s.write THEN got ELSE [got EXCEPT !.value = ReadValue(s.port, s.at)])
      /\ UNCHANGED meant
  BY AccessFacts
<1>3. s \in Harmless /\ Tail(todo) \in Seq(Harmless)
  BY <1>1, <1>2, HeadTailProperties
<1> HIDE DEF s
<1>4. /\ s.write
      /\ \/ s.port \in {Lo, Mid, Hi} /\ s.value \in Digits
         \/ s.port \in Selectors /\ s.value \in Digits
         \/ s.port = Command /\ s.value # Busy
  BY <1>3 DEF Harmless
<1>5. Eff' = Apply(Eff, s) /\ got' = got
  BY <1>2, <1>4
<1>6. Fits(Eff') /\ Eff'.jim = Eff.jim /\ ~Eff'.pending
  <2>0. ~Eff.pending
    BY <1>1 DEF Settled
  <2>1. CASE s.port \in {Lo, Mid, Hi} /\ s.value \in Digits
    BY <1>1, <1>4, <1>5, <2>0, <2>1, CursorWrite
  <2>2. CASE s.port \in Selectors /\ s.value \in Digits
    BY <1>1, <1>4, <1>5, <2>0, <2>2, PageWrite
  <2>3. CASE s.port = Command /\ s.value # Busy
    BY <1>1, <1>4, <1>5, <2>3, CommandWrite
  <2> QED BY <1>4, <2>1, <2>2, <2>3
<1>7. Settled(Eff)' /\ Fits(Eff)'
  BY <1>1, <1>2, <1>6 DEF Settled, Fits
<1>8. Returned'
  BY <1>1, <1>2, <1>5, ReturnedKept
<1>9. Stage(Eff)'
  BY <1>1, <1>2, <1>3, <1>7 DEF Stage, Wandering, Plain
<1> QED BY <1>2, <1>7, <1>8, <1>9 DEF NetInv

\* One register of a selection, in whichever routine makes it.
LEMMA SelectAccess ==
  ASSUME TypeHost, Paced, NetInv, Access, NEW c \in Cursors, NEW rest \in Seq(Steady),
         Selecting(todo, Eff, c, rest), ~(todo = rest /\ Shows(Eff, c))
  PROVE  /\ Selecting(todo', Eff', c, rest) /\ Fits(Eff)' /\ Eff'.jim = Eff.jim
         /\ ~Eff'.pending /\ UNCHANGED got /\ todo # <<>>
<1> DEFINE s == Head(todo)
<1>1. Fits(Eff)
  BY DEF NetInv
<1>2. /\ todo # <<>> /\ \E p \in {Lo, Mid, Hi}, v \in Digits : s = Write(p, v)
      /\ Selecting(Tail(todo), Apply(Eff, s), c, rest)
  BY <1>1, SelectingStep
<1>3. /\ Eff' = (IF s.write \/ s.port = Data THEN Apply(Eff, s) ELSE Eff)
      /\ todo' = Tail(todo)
      /\ got' = (IF s.write THEN got ELSE [got EXCEPT !.value = ReadValue(s.port, s.at)])
  BY AccessFacts
<1>4. ~Eff.pending
  BY <1>2, BusyNone
<1> HIDE DEF s
<1>5. PICK p \in {Lo, Mid, Hi}, v \in Digits : s = Write(p, v)
  BY <1>2
<1>6. s.port = p /\ s.write /\ s.value = v
  BY <1>5, WriteFields
<1>7. Eff' = Apply(Eff, s) /\ got' = got
  BY <1>3, <1>6
<1>8. Fits(Eff') /\ Eff'.jim = Eff.jim /\ Eff'.pending = Eff.pending
  BY <1>1, <1>6, <1>7, CursorWrite
<1>9. Fits(Eff)'
  BY <1>8 DEF Fits
<1> QED BY <1>2, <1>3, <1>4, <1>7, <1>8, <1>9

\* One register of a page selection.
LEMMA PageAccess ==
  ASSUME TypeHost, Paced, NetInv, Access, NEW q \in Pages, NEW rest \in Seq(Steady),
         Paging(todo, Eff, q, rest),
         ~(todo = rest /\ Eff.page = Clamped(q) /\ Eff.window = WindowOf(Eff.jim, Eff.page))
  PROVE  /\ Paging(todo', Eff', q, rest) /\ Fits(Eff)' /\ Eff'.jim = Eff.jim
         /\ ~Eff'.pending /\ UNCHANGED got /\ todo # <<>>
<1> DEFINE s == Head(todo)
<1>1. Fits(Eff)
  BY DEF NetInv
<1>2. /\ todo # <<>> /\ \E p \in Selectors, v \in Digits : s = Write(p, v)
      /\ Paging(Tail(todo), Apply(Eff, s), q, rest)
  BY <1>1, PagingStep
<1>3. /\ Eff' = (IF s.write \/ s.port = Data THEN Apply(Eff, s) ELSE Eff)
      /\ todo' = Tail(todo)
      /\ got' = (IF s.write THEN got ELSE [got EXCEPT !.value = ReadValue(s.port, s.at)])
  BY AccessFacts
<1>4. ~Eff.pending
  BY <1>2, BusyNone
<1> HIDE DEF s
<1>5. PICK p \in Selectors, v \in Digits : s = Write(p, v)
  BY <1>2
<1>6. s.port = p /\ s.write /\ s.value = v
  BY <1>5, WriteFields
<1>7. Eff' = Apply(Eff, s) /\ got' = got
  BY <1>3, <1>6
<1>8. Fits(Eff') /\ Eff'.jim = Eff.jim /\ Eff'.pending = Eff.pending
  BY <1>1, <1>6, <1>7, PageWrite
<1>9. Fits(Eff)'
  BY <1>8 DEF Fits
<1> QED BY <1>2, <1>3, <1>4, <1>7, <1>8, <1>9

\* net_probe, between two registers.
LEMMA ProbeAccess == ASSUME TypeHost, Paced, NetInv, Access, Probing(Eff) PROVE NetInv'
<1>1. op = "probe" /\ Settled(Eff) /\ Selecting(todo, Eff, CommandCell, <<>>)
  BY DEF Probing
<1>2. /\ todo # <<>> /\ (servicePending => ~Live)' /\ NoTimeout'
      /\ op' = (IF todo' = <<>> /\ op \in Plain THEN "idle" ELSE op) /\ UNCHANGED meant
  BY AccessFacts
<1>3. <<>> \in Seq(Steady) /\ CommandCell \in Cursors
  BY MailboxAssumption
<1>4. /\ Selecting(todo', Eff', CommandCell, <<>>) /\ Fits(Eff)' /\ Eff'.jim = Eff.jim
      /\ ~Eff'.pending /\ UNCHANGED got
  BY <1>1, <1>2, <1>3, SelectAccess
<1>5. op' = "probe"
  BY <1>1, <1>2 DEF Plain
<1>6. Probing(Eff)'
  BY <1>1, <1>2, <1>4, <1>5 DEF Probing, Settled
<1>7. Returned'
  BY <1>1, <1>4, <1>5, ReturnedKept
<1> QED BY <1>2, <1>4, <1>6, <1>7 DEF NetInv, Stage

\* net_data_write and net_begin, up to the byte they write.
LEMMA WriteAccess == ASSUME TypeHost, Paced, NetInv, Access, Writing(Eff) PROVE NetInv'
<1>1. /\ todo # <<>> /\ (servicePending => ~Live)' /\ NoTimeout'
      /\ op' = (IF todo' = <<>> /\ op \in Plain THEN "idle" ELSE op)
      /\ UNCHANGED <<shadow, meant>>
  BY AccessFacts
<1>2. PICK c \in Cursors, v \in Values :
        /\ NextCursor(c) = shadow /\ meant = [Eff.jim EXCEPT ![ServicesBase + c] = v]
        /\ \/ Selecting(todo, Eff, c, <<Write(Data, v)>>)
           \/ Selecting(todo, Eff, c, net_apply_cursor(c) \o <<Write(Data, v)>>)
  BY <1>1 DEF Writing
<1> DEFINE w == Write(Data, v)  a == net_apply_cursor(c)
<1>3. op' = op /\ op \in {"write", "begin"} /\ Fits(Eff)
  BY <1>1 DEF Writing, Plain, NetInv
<1>4. w \in Steady /\ <<w>> \in Seq(Steady) /\ a \o <<w>> \in Seq(Steady)
  <2>1. Data \in Ports /\ v \in Int \cup Byte
    BY NetPortAssumption DEF Ports
  <2>2. w \in Steady
    BY <2>1, WriteSteady
  <2>3. a \in Seq(Steady)
    BY CursorSteady
  <2> HIDE DEF w, a
  <2> QED BY <2>2, <2>3, ConcatProperties
<1>5. ASSUME NEW rest \in Seq(Steady), rest \in {<<w>>, a \o <<w>>},
             Selecting(todo, Eff, c, rest), ~(todo = rest /\ Shows(Eff, c))
      PROVE  NetInv'
  <2>1. /\ Selecting(todo', Eff', c, rest) /\ Fits(Eff)' /\ Eff'.jim = Eff.jim
        /\ ~Eff'.pending /\ UNCHANGED got
    BY <1>5, SelectAccess
  <2>2. /\ NextCursor(c) = shadow' /\ meant' = [Eff'.jim EXCEPT ![ServicesBase + c] = v]
        /\ Selecting(todo', Eff', c, <<w>>) \/ Selecting(todo', Eff', c, a \o <<w>>)
    BY <1>1, <1>2, <1>5, <2>1
  <2>3. Writing(Eff)'
    BY <1>3, <2>1, <2>2 DEF Writing
  <2>4. Returned'
    BY <1>3, <2>1, ReturnedKept
  <2> QED BY <1>1, <2>1, <2>3, <2>4 DEF NetInv, Stage
<1>6. CASE todo = <<w>> /\ Shows(Eff, c)
  <2>1. Head(todo) = w /\ Tail(todo) = <<>>
    BY <1>6
  <2>2. w.port = Data /\ w.write /\ w.value = v /\ v \in Byte \ {Busy}
    BY WriteFields, NetPortAssumption
  <2> HIDE DEF w
  <2>3. /\ Eff' = (IF w.write \/ w.port = Data THEN Apply(Eff, w) ELSE Eff)
        /\ todo' = Tail(todo)
        /\ got' = (IF w.write THEN got ELSE [got EXCEPT !.value = ReadValue(w.port, w.at)])
    BY <2>1, AccessFacts
  <2>4. Eff' = Apply(Eff, w) /\ got' = got /\ todo' = <<>>
    BY <2>1, <2>2, <2>3
  <2>5. /\ Fits(Eff') /\ Eff'.pending = Eff.pending /\ Eff'.cursor = NextCursor(Eff.cursor)
        /\ Eff'.jim = JimAfter(Eff, w)
    <3>1. w.write \in BOOLEAN /\ w.value \in Byte \ {Busy}
      BY <2>2
    <3> QED BY <1>3, <2>2, <2>4, <3>1, DataAccess
  <2>6. Eff.cursor = c
    BY <1>6 DEF Shows
  <2>7. Eff'.jim = meant' /\ Eff'.cursor = shadow'
    <3>1. JimAfter(Eff, w) = [Eff.jim EXCEPT ![ServicesBase + Eff.cursor] = v]
      BY <2>2 DEF JimAfter
    <3> QED BY <1>1, <1>2, <2>5, <2>6, <3>1
  <2>8. ~Eff'.pending
    BY <1>1, <2>5, BusyNone
  <2>9. Writing(Eff)'
    BY <1>3, <2>4, <2>7, <2>8 DEF Writing
  <2>10. Returned'
    BY <1>3, <2>4, ReturnedKept
  <2>11. Fits(Eff)'
    BY <2>5 DEF Fits
  <2> QED BY <1>1, <2>9, <2>10, <2>11 DEF NetInv, Stage
<1>7. CASE todo = a \o <<w>> /\ Shows(Eff, c)
  <2>1. Selecting(todo, Eff, c, <<w>>)
    BY <1>7 DEF Selecting
  <2>2. CASE todo = <<w>>
    BY <1>6, <1>7, <2>2
  <2> QED BY <1>4, <1>5, <2>1, <2>2
<1> QED BY <1>2, <1>4, <1>5, <1>6, <1>7

\* net_data_read, up to the byte it reads.
LEMMA ReadAccess == ASSUME TypeHost, Paced, NetInv, Access, Reading(Eff) PROVE NetInv'
<1>1. /\ todo # <<>> /\ (servicePending => ~Live)' /\ NoTimeout' /\ Eff = Device
      /\ op' = (IF todo' = <<>> /\ op \in Plain THEN "idle" ELSE op)
      /\ UNCHANGED <<shadow, meant>>
  BY AccessFacts
<1>2. PICK c \in Cursors :
        /\ NextCursor(c) = shadow /\ got.due = meant[ServicesBase + c]
        /\ Selecting(todo, Eff, c, <<Load(Data, 0)>>)
  BY <1>1 DEF Reading
<1> DEFINE w == Load(Data, 0)
<1>3. op' = "read" /\ op = "read" /\ Fits(Eff) /\ Settled(Eff) /\ got.of = "read"
  BY <1>1 DEF Reading, Plain, NetInv
<1>4. w \in Steady /\ <<w>> \in Seq(Steady)
  <2>1. Data \in Ports /\ 0 \in PageByte /\ 0 \in Int \cup Byte
    BY MailboxAssumption DEF Ports, PageByte
  <2>2. w \in Steady
    BY <2>1, SettledSteady
  <2> HIDE DEF w
  <2> QED BY <2>2
<1>5. CASE ~(todo = <<w>> /\ Shows(Eff, c))
  <2>1. /\ Selecting(todo', Eff', c, <<w>>) /\ Fits(Eff)' /\ Eff'.jim = Eff.jim
        /\ ~Eff'.pending /\ UNCHANGED got
    BY <1>2, <1>4, <1>5, SelectAccess
  <2>2. NextCursor(c) = shadow' /\ got'.due = meant'[ServicesBase + c]
    BY <1>1, <1>2, <2>1
  <2>3. Reading(Eff)'
    BY <1>1, <1>3, <2>1, <2>2 DEF Reading, Settled
  <2>4. Returned'
    BY <1>3, <2>1 DEF Returned
  <2> QED BY <1>1, <2>1, <2>3, <2>4 DEF NetInv, Stage
<1>6. CASE todo = <<w>> /\ Shows(Eff, c)
  <2>1. Head(todo) = w /\ Tail(todo) = <<>>
    BY <1>6
  <2>2. w.port = Data /\ w.write = FALSE
    BY DEF Load
  <2> HIDE DEF w
  <2>3. /\ Eff' = (IF w.write \/ w.port = Data THEN Apply(Eff, w) ELSE Eff)
        /\ todo' = Tail(todo)
        /\ got' = (IF w.write THEN got ELSE [got EXCEPT !.value = ReadValue(w.port, w.at)])
    BY <2>1, AccessFacts
  <2>4. Eff' = Apply(Eff, w) /\ todo' = <<>>
        /\ got' = [got EXCEPT !.value = ReadValue(Data, w.at)]
    BY <2>1, <2>2, <2>3
  <2>5. /\ Fits(Eff') /\ Eff'.pending = Eff.pending /\ Eff'.cursor = NextCursor(Eff.cursor)
        /\ Eff'.jim = Eff.jim
    <3>1. JimAfter(Eff, w) = Eff.jim
      BY <2>2 DEF JimAfter, Data, Window
    <3> QED BY <1>3, <2>2, <2>4, <3>1, DataAccess
  <2>6. Eff.cursor = c /\ Eff.data = Eff.jim[ServicesBase + c] /\ Eff.jim = meant
    BY <1>3, <1>6 DEF Shows, Settled
  <2>7. ReadValue(Data, w.at) = Eff.data
    <3>1. ReadValue(Data, w.at) = dataReg
      BY DEF ReadValue, Data, Lo, Mid, Hi, Command, PageLo, PageMid, PageHi, Window
    <3> QED BY <1>1, <3>1 DEF Device
  <2>8. got'.value = got'.due /\ got'.of = "read"
    BY <1>2, <1>3, <2>4, <2>6, <2>7
  <2>9. Settled(Eff)' /\ Eff'.cursor = shadow'
    BY <1>1, <1>2, <1>3, <2>2, <2>5, <2>6 DEF Settled
  <2>10. Reading(Eff)'
    BY <1>3, <2>4, <2>8, <2>9 DEF Reading
  <2>11. Fits(Eff)' /\ Returned'
    BY <1>3, <2>5, <2>8 DEF Fits, Returned
  <2> QED BY <1>1, <2>10, <2>11 DEF NetInv, Stage
<1> QED BY <1>5, <1>6

\* A store to a page, up to the byte it stores.
LEMMA StoreAccess == ASSUME TypeHost, Paced, NetInv, Access, Storing(Eff) PROVE NetInv'
<1>1. /\ todo # <<>> /\ (servicePending => ~Live)' /\ NoTimeout'
      /\ op' = (IF todo' = <<>> /\ op \in Plain THEN "idle" ELSE op)
      /\ UNCHANGED <<shadow, meant>>
  BY AccessFacts
<1>2. PICK q \in Pages, at \in PageByte, v \in Values :
        /\ meant = [Eff.jim EXCEPT ![PageBase(Clamped(q)) + at] = v]
        /\ Paging(todo, Eff, q, <<Store(Window, at, v, Settle)>>)
  BY DEF Storing
<1> DEFINE w == Store(Window, at, v, Settle)
<1>3. op = "store" /\ "store" \in Plain /\ Fits(Eff)
  BY DEF Storing, Plain, NetInv
<1>4. w \in Steady /\ <<w>> \in Seq(Steady) /\ <<w>> # <<>>
  <2>1. Window \in Ports /\ v \in Int \cup Byte
    BY NetPortAssumption DEF Ports
  <2>2. w \in Steady
    BY <2>1, SettledSteady
  <2> HIDE DEF w
  <2> QED BY <2>2
<1>5. CASE ~(todo = <<w>> /\ Eff.page = Clamped(q) /\ Eff.window = WindowOf(Eff.jim, Eff.page))
  <2>1. /\ Paging(todo', Eff', q, <<w>>) /\ Fits(Eff)' /\ Eff'.jim = Eff.jim
        /\ ~Eff'.pending /\ UNCHANGED got
    BY <1>2, <1>4, <1>5, PageAccess
  <2>2. Fits(Eff')
    BY <2>1 DEF Fits
  <2>3. todo' # <<>>
    <3> HIDE DEF w
    <3> QED BY <1>4, <2>1, <2>2, PagingDone
  <2>4. op' = "store"
    BY <1>1, <1>3, <2>3
  <2>5. meant' = [Eff'.jim EXCEPT ![PageBase(Clamped(q)) + at] = v]
    BY <1>1, <1>2, <2>1
  <2>6. Storing(Eff)'
    BY <2>1, <2>4, <2>5 DEF Storing
  <2>7. Returned'
    BY <1>3, <2>1, <2>4, ReturnedKept
  <2> QED BY <1>1, <2>1, <2>6, <2>7 DEF NetInv, Stage
<1>6. CASE todo = <<w>> /\ Eff.page = Clamped(q) /\ Eff.window = WindowOf(Eff.jim, Eff.page)
  <2>1. Head(todo) = w /\ Tail(todo) = <<>>
    BY <1>6
  <2>2. /\ w.port = Window /\ w.write = TRUE /\ w.value = v /\ w.at = at
        /\ v \in Byte \ {Busy}
    BY NetPortAssumption DEF Store
  <2> HIDE DEF w
  <2>3. /\ Eff' = (IF w.write \/ w.port = Data THEN Apply(Eff, w) ELSE Eff)
        /\ todo' = Tail(todo)
        /\ got' = (IF w.write THEN got ELSE [got EXCEPT !.value = ReadValue(w.port, w.at)])
    BY <2>1, AccessFacts
  <2>4. Eff' = Apply(Eff, w) /\ got' = got /\ todo' = <<>> /\ op' = "idle"
    BY <1>1, <1>3, <2>1, <2>2, <2>3
  <2>5. Fits(Eff') /\ Eff'.pending = Eff.pending /\ Eff'.jim = JimAfter(Eff, w)
    BY <1>3, <2>2, <2>4, WindowStore
  <2>6. Eff'.jim = meant'
    <3>1. JimAfter(Eff, w) = [Eff.jim EXCEPT ![PageBase(Eff.page) + at] = v]
      BY <2>2 DEF JimAfter, Window, Data
    <3> QED BY <1>1, <1>2, <1>6, <2>5, <3>1
  <2>7. ~Eff'.pending
    BY <1>1, <2>5, BusyNone
  <2>8. Returned'
    BY <1>3, <2>4, ReturnedKept
  <2>9. Fits(Eff)'
    BY <2>5 DEF Fits
  <2> QED BY <1>1, <2>4, <2>6, <2>7, <2>8, <2>9 DEF NetInv, Stage, Settled
<1> QED BY <1>5, <1>6

\* A fetch from a page, up to the byte it fetches.
LEMMA FetchAccess == ASSUME TypeHost, Paced, NetInv, Access, Fetching(Eff) PROVE NetInv'
<1>1. /\ todo # <<>> /\ (servicePending => ~Live)' /\ NoTimeout' /\ Eff = Device
      /\ op' = (IF todo' = <<>> /\ op \in Plain THEN "idle" ELSE op)
      /\ UNCHANGED <<shadow, meant>>
  BY AccessFacts
<1>2. PICK q \in Pages, at \in PageByte :
        /\ got.due = meant[PageBase(Clamped(q)) + at]
        /\ Paging(todo, Eff, q, <<Load(Window, at)>>)
  BY DEF Fetching
<1> DEFINE w == Load(Window, at)
<1>3. /\ op = "fetch" /\ "fetch" \in Plain /\ Fits(Eff) /\ Settled(Eff) /\ got.of = "fetch"
  BY DEF Fetching, Plain, NetInv
<1>4. w \in Steady /\ <<w>> \in Seq(Steady) /\ <<w>> # <<>>
  <2>1. Window \in Ports /\ 0 \in Int \cup Byte
    BY DEF Ports
  <2>2. w \in Steady
    BY <2>1, SettledSteady
  <2> HIDE DEF w
  <2> QED BY <2>2
<1>5. CASE ~(todo = <<w>> /\ Eff.page = Clamped(q) /\ Eff.window = WindowOf(Eff.jim, Eff.page))
  <2>1. /\ Paging(todo', Eff', q, <<w>>) /\ Fits(Eff)' /\ Eff'.jim = Eff.jim
        /\ ~Eff'.pending /\ UNCHANGED got
    BY <1>2, <1>4, <1>5, PageAccess
  <2>2. Fits(Eff')
    BY <2>1 DEF Fits
  <2>3. todo' # <<>>
    <3> HIDE DEF w
    <3> QED BY <1>4, <2>1, <2>2, PagingDone
  <2>4. op' = "fetch"
    BY <1>1, <1>3, <2>3
  <2>5. got'.due = meant'[PageBase(Clamped(q)) + at]
    BY <1>1, <1>2, <2>1
  <2>6. Fetching(Eff)'
    BY <1>1, <1>3, <2>1, <2>4, <2>5 DEF Fetching, Settled
  <2>7. Returned'
    BY <1>3, <2>1, <2>4 DEF Returned
  <2> QED BY <1>1, <2>1, <2>6, <2>7 DEF NetInv, Stage
<1>6. CASE todo = <<w>> /\ Eff.page = Clamped(q) /\ Eff.window = WindowOf(Eff.jim, Eff.page)
  <2>1. Head(todo) = w /\ Tail(todo) = <<>>
    BY <1>6
  <2>2. w.port = Window /\ w.write = FALSE /\ w.at = at /\ w.port # Data
    BY DEF Load, Window, Data
  <2> HIDE DEF w
  <2>3. /\ Eff' = (IF w.write \/ w.port = Data THEN Apply(Eff, w) ELSE Eff)
        /\ todo' = Tail(todo)
        /\ got' = (IF w.write THEN got ELSE [got EXCEPT !.value = ReadValue(w.port, w.at)])
    BY <2>1, AccessFacts
  <2>4. /\ Eff' = Eff /\ todo' = <<>> /\ op' = "idle"
        /\ got' = [got EXCEPT !.value = ReadValue(Window, at)]
    BY <1>1, <1>3, <2>1, <2>2, <2>3
  <2>5. ReadValue(Window, at) = Eff.window[at]
    <3>1. ReadValue(Window, at) = window[at]
      BY DEF ReadValue, Data, Lo, Mid, Hi, Command, PageLo, PageMid, PageHi, Window
    <3> QED BY <1>1, <3>1 DEF Device
  <2>6. Eff.window[at] = Eff.jim[PageBase(Clamped(q)) + at]
    BY <1>6 DEF WindowOf
  <2>7. ReadValue(Window, at) = got.due
    BY <1>2, <1>3, <2>5, <2>6 DEF Settled
  <2>9. Returned'
    <3>1. got'.value = got'.due \/ got'.of \notin {"read", "fetch", "dispatch"}
      BY <1>3, <2>4, <2>7
    <3> QED BY <3>1 DEF Returned
  <2>10. Fits(Eff)' /\ Settled(Eff)'
    BY <1>1, <1>3, <2>4 DEF Fits, Settled
  <2> QED BY <1>1, <2>4, <2>9, <2>10 DEF NetInv, Stage
<1> QED BY <1>5, <1>6

\* net_dispatch posts its command: the service has all the polls before it.
LEMMA DispatchAccess ==
  ASSUME Responsive, TypeHost, Paced, NetInv, Access, Dispatching(Eff) PROVE NetInv'
<1>1. /\ todo # <<>> /\ (servicePending => ~Live)' /\ NoTimeout'
      /\ op' = (IF todo' = <<>> /\ op \in Plain THEN "idle" ELSE op)
      /\ UNCHANGED <<shadow, meant, polls>>
  BY AccessFacts
<1> DEFINE w == Store(Command, 0, Busy, DispatchGap)
<1>2. /\ todo = <<w>> /\ polls = Polls /\ got.of = "dispatch" /\ got.due # Busy
      /\ got.due = Eff.jim[ServicesBase + CommandCell]
      /\ meant = [Eff.jim EXCEPT ![ReplyCell] = got.due]
  BY <1>1 DEF Dispatching, Asked, Served
<1>3. op = "dispatch" /\ op' = "dispatch" /\ Fits(Eff)
  BY <1>1 DEF Dispatching, Plain, NetInv
<1>4. Head(todo) = w /\ Tail(todo) = <<>>
  BY <1>2
<1>5. w.port = Command /\ w.write = TRUE /\ w.value = Busy
  BY DEF Store
<1> HIDE DEF w
<1>6. /\ Eff' = (IF w.write \/ w.port = Data THEN Apply(Eff, w) ELSE Eff)
      /\ Live' = (w.write \/ w.port = Data)
      /\ todo' = Tail(todo)
      /\ got' = (IF w.write THEN got ELSE [got EXCEPT !.value = ReadValue(w.port, w.at)])
  BY <1>4, AccessFacts
<1>7. Eff' = Apply(Eff, w) /\ got' = got /\ todo' = <<>> /\ Live'
  BY <1>4, <1>5, <1>6
<1>8. /\ Fits(Eff') /\ Eff'.jim = Eff.jim /\ Eff'.pending /\ Eff'.command = Busy
      /\ Eff'.left = ServiceDelay
  BY <1>3, <1>5, <1>7, CommandWrite
<1>9. ServiceDelay \in Nat /\ ServiceDelay > 0 /\ Polls \in Nat /\ Polls * Frame \in Int
      /\ ServiceDelay <= Polls * Frame
  <2>1. Polls \in Nat /\ Frame \in Nat /\ ServiceDelay \in Nat /\ ServiceDelay > 0
    BY NetPortAssumption, MailboxAssumption
  <2> QED BY <2>1, SMTT(30) DEF Responsive
<1>10. Eff'.left <= polls' * Frame + (IF Live' THEN 0 ELSE wait')
  <2> DEFINE k == Polls * Frame
  <2>1. k \in Int /\ Eff'.left <= k /\ polls' * Frame = k
    BY <1>1, <1>2, <1>8, <1>9
  <2> HIDE DEF k
  <2> QED BY <1>7, <2>1
<1>11. Served(Eff)'
  BY <1>1, <1>2, <1>7, <1>8, <1>9, <1>10 DEF Served
<1>12. Dispatching(Eff)'
  BY <1>1, <1>2, <1>3, <1>7, <1>8, <1>11 DEF Dispatching
<1>13. Fits(Eff)' /\ Returned'
  BY <1>2, <1>3, <1>7, <1>8 DEF Fits, Returned
<1> QED BY <1>1, <1>12, <1>13 DEF NetInv, Stage

\* Whatever routine runs.
LEMMA AccessNet == ASSUME Responsive, TypeHost, Paced, NetInv, Access PROVE NetInv'
<1>1. todo # <<>>
  BY DEF Access
<1> QED BY <1>1, WanderAccess, ProbeAccess, WriteAccess, ReadAccess, StoreAccess, FetchAccess,
           DispatchAccess DEF NetInv, Stage

-----------------------------------------------------------------------------
(* A routine looks at the cursor, or polls.                                 *)

\* Reading a register that has no callback leaves everything as it is.
LEMMA ReadsEff ==
  ASSUME Paced, Turns, NEW port \in Ports \ {Data}, NEW gap, Reads(port, gap)
  PROVE  ~Live /\ ~Live' /\ Eff = Device /\ Eff' = Eff /\ wait' = gap /\ wait = 0
<1> DEFINE s == [port |-> port, at |-> 0, value |-> ReadValue(port, 0), write |-> FALSE]
<1>1. /\ s.port = port /\ s.at = 0 /\ s.value = ReadValue(port, 0) /\ s.write = FALSE
      /\ port # Data /\ wait = 0 /\ wait' = gap
  BY DEF Turns, Reads
<1>2. bus_access(s.port, s.at, s.value, s.write) /\ s.write \in BOOLEAN
  BY <1>1 DEF Reads
<1> HIDE DEF s
<1>3. /\ Live' = (s.write \/ s.port = Data)
      /\ Eff' = IF s.write \/ s.port = Data THEN Apply(Eff, s) ELSE Eff
  BY <1>1, <1>2, AccessEff
<1> QED BY <1>1, <1>3, EffTurns

\* A routine that has made its accesses finds the cursor it waits for.
LEMMA LookFacts ==
  ASSUME NetInv, op \in Checked, todo = <<>>
  PROVE  /\ Settled(Eff) /\ Eff.cursor = Target
         /\ got.of \in {"read", "fetch", "dispatch"} => got.value = got.due
<1>1. Probing(Eff) \/ Writing(Eff) \/ Reading(Eff)
  BY DEF NetInv, Stage, Wandering, Storing, Fetching, Dispatching, Checked
<1>2. Fits(Eff)
  BY DEF NetInv
<1>3. CASE Probing(Eff)
  <2>1. op = "probe" /\ Settled(Eff) /\ Selecting(<<>>, Eff, CommandCell, <<>>)
    BY <1>3 DEF Probing
  <2>2. <<>> \in Seq(Steady) /\ CommandCell \in Cursors
    BY MailboxAssumption
  <2>3. Eff.cursor = CommandCell
    BY <1>2, <2>1, <2>2, SelectingDone DEF Shows
  <2> QED BY <2>1, <2>3 DEF Target, NetInv, Returned
<1>4. CASE Writing(Eff)
  <2>1. op \in {"write", "begin"} /\ ~Eff.pending
    BY <1>4 DEF Writing
  <2>2. ASSUME NEW c \in Cursors, NEW v \in Values,
               \/ Selecting(<<>>, Eff, c, <<Write(Data, v)>>)
               \/ Selecting(<<>>, Eff, c, net_apply_cursor(c) \o <<Write(Data, v)>>)
        PROVE  FALSE
    <3> DEFINE w == Write(Data, v)  a == net_apply_cursor(c)
    <3>1. w \in Steady
      <4>1. Data \in Ports /\ v \in Int \cup Byte
        BY NetPortAssumption DEF Ports
      <4> QED BY <4>1, WriteSteady
    <3>2. a \in Seq(Steady)
      BY CursorSteady
    <3>3. Selecting(<<>>, Eff, c, <<w>>) \/ Selecting(<<>>, Eff, c, a \o <<w>>)
      BY <2>2
    <3> HIDE DEF w, a
    <3>4. <<w>> \in Seq(Steady) /\ <<w>> # <<>>
      BY <3>1
    <3>5. a \o <<w>> \in Seq(Steady) /\ a \o <<w>> # <<>>
      BY <3>2, <3>4, ConcatProperties, ConcatEqualIffEmpty
    <3> QED BY <1>2, <3>3, <3>4, <3>5, SelectingDone
  <2>3. Eff.jim = meant /\ Eff.cursor = shadow
    BY <1>4, <2>2 DEF Writing
  <2> QED BY <2>1, <2>3 DEF Settled, Target, NetInv, Returned
<1>5. CASE Reading(Eff)
  <2>1. op = "read" /\ Settled(Eff)
    BY <1>5 DEF Reading
  <2>2. ASSUME NEW c \in Cursors, Selecting(<<>>, Eff, c, <<Load(Data, 0)>>)
        PROVE  FALSE
    <3> DEFINE w == Load(Data, 0)
    <3>1. w \in Steady
      <4>1. Data \in Ports /\ 0 \in PageByte /\ 0 \in Int \cup Byte
        BY MailboxAssumption DEF Ports, PageByte
      <4> QED BY <4>1, SettledSteady
    <3>2. Selecting(<<>>, Eff, c, <<w>>)
      BY <2>2
    <3> HIDE DEF w
    <3>3. <<w>> \in Seq(Steady) /\ <<w>> # <<>>
      BY <3>1
    <3> QED BY <1>2, <3>2, <3>3, SelectingDone
  <2>3. Eff.cursor = shadow /\ got.value = got.due
    BY <1>5, <2>2 DEF Reading
  <2> QED BY <2>1, <2>3 DEF Target
<1> QED BY <1>1, <1>3, <1>4, <1>5

\* net_wait_cursor and net_probe see the cursor at the first look.
LEMMA LookNet ==
  ASSUME TypeHost, Paced, NetInv, CursorSeen \/ CursorLate \/ CursorTimeout PROVE NetInv'
<1>1. Turns /\ op \in Checked /\ todo = <<>> /\ Reads(Look[look], Turn)
  BY DEF CursorSeen, CursorLate, CursorTimeout, Looking
<1>2. Look[look] \in Ports \ {Data}
  BY DEF TypeHost, Look, Ports, Lo, Mid, Hi, Data
<1>3. ~Live' /\ Eff = Device /\ Eff' = Eff
  BY <1>1, <1>2, ReadsEff
<1>4. /\ Settled(Eff) /\ Eff.cursor = Target
      /\ got.of \in {"read", "fetch", "dispatch"} => got.value = got.due
  BY <1>1, LookFacts
<1>5. Matches
  BY <1>3, <1>4 DEF Matches, Device
<1>6. CursorSeen
  BY <1>5 DEF CursorLate, CursorTimeout
<1>7. /\ UNCHANGED <<todo, shadow, polls, cursorTimeout, got, meant>>
      /\ (UNCHANGED <<op, found>> \/ (op' = "idle" /\ (found' = TRUE \/ found' = found)))
  BY <1>6 DEF CursorSeen
<1>8. Fits(Eff)' /\ Settled(Eff)'
  BY <1>3, <1>4, <1>7 DEF NetInv, Fits, Settled
<1>9. NoTimeout' /\ Returned'
  BY <1>4, <1>7 DEF NetInv, NoTimeout, Returned
<1>10. Stage(Eff)'
  <2>1. CASE UNCHANGED op
    <3>1. ~Served(Eff)
      BY <1>4 DEF Settled, Served
    <3> QED BY <1>3, <1>7, <2>1, <3>1, StageKeeps DEF NetInv
  <2>2. CASE op' = "idle"
    BY <1>1, <1>7, <1>8, <2>2 DEF Stage
  <2> QED BY <1>7, <2>1, <2>2
<1> QED BY <1>3, <1>8, <1>9, <1>10 DEF NetInv

\* net_dispatch polls until its answer is there, and never gives up.
LEMMA PollNet ==
  ASSUME TypeHost, Paced, NetInv, PollAnswered \/ PollBusy \/ PollTimeout PROVE NetInv'
<1>0. Command \in Ports \ {Data} /\ Frame \in Nat
  BY NetPortAssumption DEF Ports, Command, Data
<1>1. /\ Turns /\ op = "dispatch" /\ todo = <<>>
      /\ \E gap : Reads(Command, gap)
  BY DEF PollAnswered, PollBusy, PollTimeout, Polling
<1>2. ~Live /\ ~Live' /\ Eff = Device /\ Eff' = Eff /\ wait = 0
  BY <1>0, <1>1, ReadsEff
<1>3. Eff.command = commandReg
  BY <1>2 DEF Device
<1>4. Dispatching(Eff) /\ Fits(Eff)
  BY <1>1 DEF NetInv, Stage, Wandering, Probing, Writing, Reading, Storing, Fetching
<1>5. /\ got.of = "dispatch" /\ got.due # Busy
      /\ \/ Served(Eff)
         \/ Settled(Eff) /\ Eff.command = got.due
  BY <1>1, <1>4 DEF Dispatching, Asked
<1>6. Fits(Eff)'
  BY <1>2, <1>4 DEF Fits
<1>7. UNCHANGED <<todo, shadow, meant, cursorTimeout, found>>
  BY DEF PollAnswered, PollBusy, PollTimeout
<1>8. NoTimeout'
  BY <1>7 DEF NetInv, NoTimeout
<1>9. CASE PollAnswered
  <2>1. commandReg # Busy /\ op' = "idle" /\ got' = [got EXCEPT !.value = commandReg]
    BY <1>9 DEF PollAnswered
  <2>2. Settled(Eff) /\ commandReg = got.due
    BY <1>3, <1>5, <2>1 DEF Served
  <2>3. got'.value = got'.due \/ got'.of \notin {"read", "fetch", "dispatch"}
    BY <1>5, <2>1, <2>2
  <2>4. Returned' /\ Settled(Eff)'
    BY <1>2, <1>7, <2>2, <2>3 DEF Returned, Settled
  <2> QED BY <1>1, <1>2, <1>6, <1>7, <1>8, <2>1, <2>4 DEF NetInv, Stage
<1>10. CASE PollBusy \/ PollTimeout
  <2>1. commandReg = Busy
    BY <1>10 DEF PollBusy, PollTimeout
  <2>2. Served(Eff)
    BY <1>3, <1>5, <2>1
  <2> DEFINE k == polls * Frame
  <2>3. /\ polls \in Nat /\ Eff.left \in Nat /\ Eff.left > 0
        /\ Eff.left <= k + (IF Live THEN 0 ELSE wait)
    BY <2>2 DEF Served
  <2>4. k \in Int
    BY <1>0, <2>3, SMTT(30)
  <2>5. Eff.left <= k
    <3> HIDE DEF k
    <3> QED BY <1>2, <2>3, <2>4
  <2>6. polls # 0
    <3> SUFFICES ASSUME polls = 0 PROVE FALSE
      OBVIOUS
    <3>1. k = 0
      BY <1>0
    <3> HIDE DEF k
    <3> QED BY <2>3, <2>5, <3>1
  <2>7. /\ PollBusy /\ polls' = polls - 1 /\ wait' = Frame /\ UNCHANGED <<op, got>>
    BY <1>10, <2>6 DEF PollBusy, PollTimeout, Reads
  <2>8. polls' \in Nat /\ polls' * Frame + Frame = k
    BY <1>0, <2>3, <2>6, <2>7, SMTT(30)
  <2>9. Eff'.left <= polls' * Frame + (IF Live' THEN 0 ELSE wait')
    BY <1>2, <2>5, <2>7, <2>8
  <2>10. Served(Eff)'
    BY <1>2, <1>7, <2>2, <2>8, <2>9 DEF Served
  <2>11. Dispatching(Eff)'
    <3>1. ~Settled(Eff)
      BY <2>2 DEF Settled, Served
    <3> QED BY <1>2, <1>4, <1>7, <2>7, <2>10, <3>1 DEF Dispatching
  <2>12. Returned'
    BY <1>1, <1>5, <2>7 DEF Returned
  <2> QED BY <1>2, <1>6, <1>8, <2>11, <2>12 DEF NetInv, Stage
<1> QED BY <1>9, <1>10

\* At power-up memory and program agree.
LEMMA InitNet == ASSUME Init PROVE NetInv
<1>1. /\ jim = [i \in 0..JimSize - 1 |-> 0] /\ cursor = 0
      /\ page = [hi |-> 0, mid |-> 0, lo |-> 0] /\ servicePending = FALSE
      /\ posted.valid = FALSE /\ active.valid = FALSE
      /\ op = "idle" /\ todo = <<>> /\ meant = jim /\ cursorTimeout = FALSE /\ found = TRUE
      /\ got.of = "none"
  BY DEF Init, DeviceInit, NoEvent
<1>2. ~Live
  BY <1>1 DEF Live, Matters
<1>3. /\ Eff.jim = jim /\ Eff.cursor = cursor /\ Eff.page = page
      /\ Eff.pending = servicePending
  BY <1>2 DEF Eff, Device
<1>4. jim \in Memories
  <2>1. 0 \in Byte \ {Busy}
    BY MailboxAssumption
  <2> QED BY <1>1, <2>1 DEF Memories
<1>5. 0 \in Cursors
  BY InitTypeHost, <1>1 DEF TypeHost, Init
<1>6. page \in [hi : Int, mid : Int, lo : Int]
  BY <1>1
<1> QED BY <1>1, <1>2, <1>3, <1>4, <1>5, <1>6
    DEF NetInv, Fits, Stage, Settled, Returned, NoTimeout

\* Every step keeps the program's order.
LEMMA NextNet ==
  ASSUME Responsive, TypeHost, Paced, NetInv, [Next]_vars
  PROVE  NetInv'
<1>1. ~Stalls
  BY DEF Responsive
<1>2. ASSUME UNCHANGED vars PROVE NetInv'
  <2>1. UNCHANGED <<jim, cursor, page, dataReg, commandReg, window, posted, active,
                    serviceLeft, servicePending>>
        /\ UNCHANGED <<op, todo, wait, shadow, polls, cursorTimeout, found, got, meant>>
    BY <1>2 DEF vars, device, host
  <2>2. Device' = Device /\ Live' = Live /\ InFlight' = InFlight
    BY <2>1 DEF Device, Live, InFlight, Matters
  <2>3. Eff = (IF Live THEN Apply(Device, InFlight) ELSE Device)
        /\ Eff' = (IF Live' THEN Apply(Device', InFlight') ELSE Device')
    BY DEF Eff
  <2>4. Eff' = Eff
    BY <2>2, <2>3
  <2>5. Served(Eff) => Served(Eff)'
    BY <2>1, <2>2, <2>4 DEF Served
  <2>6. Stage(Eff)'
    BY <2>1, <2>4, <2>5, StageKeeps DEF NetInv
  <2> QED BY <2>1, <2>2, <2>4, <2>6 DEF NetInv, Fits, Returned, NoTimeout
<1> QED BY <1>1, <1>2, CallsNet, AccessNet, LookNet, PollNet, DrainNet, TickNet DEF Next, Runs

\* The inductive invariant, with the pace it rests on.
LEMMA NetInvariant ==
  ASSUME Unhurried, Responsive
  PROVE  Spec => [](TypeHost /\ Paced /\ NetInv)
<1>1. Init => TypeHost /\ Paced /\ NetInv
  BY InitTypeHost, InitPaced, InitNet
<1>2. TypeHost /\ Paced /\ NetInv /\ [Next]_vars => (TypeHost /\ Paced /\ NetInv)'
  BY NextTypeHost, NextPaced, NextNet
<1> QED BY <1>1, <1>2, PTL DEF Spec

\* For all latencies, if net_bus_settle outlasts a capture and a callback and services
\* answer within the frames net_dispatch polls for: between routines the memory is
\* what their program order makes of it, through the services cursor or the page
\* window, whoever else moved either meanwhile.
THEOREM PortIsExact == ASSUME Unhurried, Responsive PROVE Spec => []PortExact
<1>1. TypeHost /\ Paced /\ NetInv => PortExact
  <2> SUFFICES ASSUME TypeHost, Paced, NetInv, op = "idle", Turns PROVE jim = meant
    BY DEF PortExact
  <2>1. Eff = Device /\ Eff.jim = meant
    BY EffTurns, IdleSettled DEF Settled
  <2> QED BY <2>1 DEF Device
<1> QED BY <1>1, NetInvariant, PTL

\* Under the same conditions a byte read through the services port or a page is the
\* byte last stored there, by the program or by a service that ran since.
THEOREM ReadIsExact == ASSUME Unhurried, Responsive PROVE Spec => []ReadExact
<1>1. TypeHost /\ Paced /\ NetInv => ReadExact
  BY DEF NetInv, Returned, ReadExact
<1> QED BY <1>1, NetInvariant, PTL

\* ... and what net_dispatch returns is the result of its own command: neither what
\* an earlier one left in the register nor NET_LOCAL_TIMEOUT.
THEOREM AnswerIsFresh == ASSUME Unhurried, Responsive PROVE Spec => []AnswerFresh
<1>1. TypeHost /\ Paced /\ NetInv => AnswerFresh
  BY DEF NetInv, Returned, AnswerFresh
<1> QED BY <1>1, NetInvariant, PTL

\* The bounded waits of net_wait_cursor and net_probe never run out either: no
\* routine reports a cursor that did not arrive.
THEOREM CursorArrives == ASSUME Unhurried, Responsive PROVE Spec => []NoTimeout
<1>1. NetInv => NoTimeout
  BY DEF NetInv
<1> QED BY <1>1, NetInvariant, PTL
=============================================================================

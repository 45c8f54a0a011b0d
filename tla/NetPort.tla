------------------------------ MODULE NetPort ------------------------------
(***************************************************************************)
(* The 6502 client of the services port, on the device of Mailbox:          *)
(* host-tools/src/common/pi1mhz_net.asm, and the page access of             *)
(* rom-side/1mhz-wifi/src/uef.asm.                                          *)
(*                                                                         *)
(* A routine is the sequence of bus accesses it makes, each with the least  *)
(* time that passes before the next; interrupts may make it longer.  The    *)
(* net_cursor_* shadow is reselected for every byte, and a data access ends *)
(* only when the cursor it leaves behind is seen.                           *)
(***************************************************************************)
EXTENDS Mailbox, Sequences

CONSTANTS
  Settle,        \* least ticks net_bus_settle and wicfs_bus_delay take
  Turn,          \* least ticks between two reads of the cursor
  DispatchGap,   \* least ticks from the command to the first poll
  Frame,         \* least ticks of OSBYTE 19
  Tries,         \* looks at the cursor before net_cursor_timeout (256)
  Polls,         \* frames before NET_LOCAL_TIMEOUT (300)
  LocalTimeout,  \* NET_LOCAL_TIMEOUT
  Values,        \* bytes a program writes
  Cells,         \* services addresses it selects
  Pages,         \* pages it selects
  MaxOps         \* bound on the routines called

\* The counted delays outlast the capture of an access and its callback.
Outlasts(gap) == gap >= CaptureDelay + CallbackDelay
Unhurried == /\ Outlasts(Settle) /\ Settle >= CaptureDelay + PageDelay
             /\ Outlasts(DispatchGap)

ASSUME NetPortAssumption ==
  /\ {Settle, Turn, DispatchGap, Frame, Polls, MaxOps} \subseteq Nat
  /\ Tries \in Nat \ {0}
  /\ LocalTimeout \in Byte
  /\ Values \subseteq Byte \ {Busy}
  /\ Cells \subseteq Cursors
  /\ Pages \subseteq [hi : 0..Radix - 1, mid : 0..Radix - 1, lo : 0..Radix - 1]

VARIABLES
  op,          \* the routine that runs, or "idle"
  todo,        \* the accesses it has still to make
  wait,        \* ticks before the 6502 makes its next access
  shadow,      \* net_cursor_lo, _mi and _hi
  look,        \* which cursor register net_wait_cursor reads next
  tries, polls,
  cursorTimeout,   \* net_cursor_timeout
  found,       \* the carry net_probe returns
  got,         \* what the last read or dispatch returned, and should have
  meant,       \* the memory a program that runs in order would have left
  ops

host == <<op, todo, wait, shadow, look, tries, polls, cursorTimeout, found, got,
          meant, ops>>
vars == <<device, host>>

Plain == {"select", "foreign", "store", "fetch"}
Checked == {"begin", "write", "read", "probe"}
Look == <<Lo, Mid, Hi>>

Store(port, at, v, gap) ==
  [port |-> port, at |-> at, value |-> v, write |-> TRUE, gap |-> gap]
Load(port, at) ==
  [port |-> port, at |-> at, value |-> 0, write |-> FALSE, gap |-> Settle]
\* Mutant: no net_bus_settle after a write.
WriteUnsettled(port, v) == Store(port, 0, v, 0)

Write(port, v) == Store(port, 0, v, Settle)

\* net_apply_cursor: the whole address, settled byte by byte.
net_apply_cursor(c) ==
  <<Write(Lo, Digit(c, Lo)), Write(Mid, Digit(c, Mid)), Write(Hi, Digit(c, Hi))>>

\* wicfs_select_public_zero and the store to pagereg.
SelectPage(q) == <<Write(PageHi, q.hi), Write(PageMid, q.mid), Write(PageLo, q.lo)>>

Clamped(q) == [q EXCEPT !.hi = IF q.hi > MaxSet THEN MaxSet ELSE q.hi]

Init ==
  /\ DeviceInit
  /\ op = "idle" /\ todo = <<>> /\ wait = 0 /\ shadow = 0
  /\ look = 1 /\ tries = 1 /\ polls = 0
  /\ cursorTimeout = FALSE /\ found = TRUE
  /\ got = [of |-> "none", value |-> 0, due |-> 0]
  /\ meant = jim /\ ops = 0

-----------------------------------------------------------------------------
(* The routines a program calls.                                            *)

\* The program calls a routine: the accesses it makes, the looks it may take.
Call(routine, accesses, looks) ==
  /\ op = "idle" /\ ops < MaxOps /\ ~Urgent
  /\ op' = routine /\ todo' = accesses /\ ops' = ops + 1
  /\ look' = 1 /\ tries' = looks
  /\ UNCHANGED <<device, wait, cursorTimeout, found>>

\* What the byte that comes back has to be.
Expect(routine, v) == got' = [of |-> routine, value |-> Busy, due |-> v]

net_probe ==
  /\ Call("probe", net_apply_cursor(CommandCell), 1)
  /\ UNCHANGED <<shadow, polls, got, meant>>

net_select_address(c) ==
  /\ Call("select", net_apply_cursor(c), 1)
  /\ shadow' = c
  /\ UNCHANGED <<polls, got, meant>>

\* Mutant: the auto-incremented cursor is trusted.
WriteAtCursor(v) ==
  /\ Call("write", <<Write(Data, v)>>, Tries)
  /\ shadow' = NextCursor(shadow)
  /\ meant' = [meant EXCEPT ![ServicesBase + shadow] = v]
  /\ UNCHANGED <<polls, got>>

\* net_data_write at the shadow cursor, and net_begin, which selects the
\* command block first.
net_data_write(v) ==
  /\ Call("write", net_apply_cursor(shadow) \o <<Write(Data, v)>>, Tries)
  /\ shadow' = NextCursor(shadow)
  /\ meant' = [meant EXCEPT ![ServicesBase + shadow] = v]
  /\ UNCHANGED <<polls, got>>

net_begin(v) ==
  /\ Call("begin", net_apply_cursor(CommandCell) \o net_apply_cursor(CommandCell)
                     \o <<Write(Data, v)>>, Tries)
  /\ shadow' = NextCursor(CommandCell)
  /\ meant' = [meant EXCEPT ![ServicesBase + CommandCell] = v]
  /\ UNCHANGED <<polls, got>>

net_data_read ==
  /\ Call("read", net_apply_cursor(shadow) \o <<Load(Data, 0)>>, Tries)
  /\ shadow' = NextCursor(shadow)
  /\ Expect("read", meant[ServicesBase + shadow])
  /\ UNCHANGED <<polls, meant>>

\* net_dispatch_start; the interrupt state comes back before the first poll.
net_dispatch ==
  /\ Call("dispatch", <<Store(Command, 0, Busy, DispatchGap)>>, 1)
  /\ polls' = Polls
  /\ Expect("dispatch", meant[ServicesBase + CommandCell])
  /\ meant' = [meant EXCEPT ![ReplyCell] = meant[ServicesBase + CommandCell]]
  /\ UNCHANGED shadow

\* uef_have_space and uef_commit_length: a byte of a page is stored.
PageStore(q, at, v) ==
  /\ Call("store", SelectPage(q) \o <<Store(Window, at, v, Settle)>>, 1)
  /\ meant' = [meant EXCEPT ![PageBase(Clamped(q)) + at] = v]
  /\ UNCHANGED <<shadow, polls, got>>

\* getbyte: a byte of a page is fetched.
PageFetch(q, at) ==
  /\ Call("fetch", SelectPage(q) \o <<Load(Window, at)>>, 1)
  /\ Expect("fetch", meant[PageBase(Clamped(q)) + at])
  /\ UNCHANGED <<shadow, polls, meant>>

\* Another ROM uses the shared cursor and page between two routines.
ForeignUse(c, q) ==
  /\ Call("foreign", net_apply_cursor(c) \o SelectPage(q), 1)
  /\ UNCHANGED <<shadow, polls, got, meant>>

\* ... or gives the command register a value that starts no service.
ForeignCommand(v) ==
  /\ Call("foreign", <<Write(Command, v)>>, 1)
  /\ UNCHANGED <<shadow, polls, got, meant>>

-----------------------------------------------------------------------------
(* What the 6502 does next.                                                 *)

Turns == wait = 0 /\ ~Urgent

\* The next access of the routine.
Access ==
  /\ Turns /\ op # "idle" /\ todo # <<>>
  /\ LET s == Head(todo) IN
       /\ bus_access(s.port, s.at, s.value, s.write)
       /\ wait' = s.gap
       /\ got' = IF s.write THEN got ELSE [got EXCEPT !.value = ReadValue(s.port, s.at)]
  /\ todo' = Tail(todo)
  /\ op' = IF Tail(todo) = <<>> /\ op \in Plain THEN "idle" ELSE op
  /\ UNCHANGED <<shadow, look, tries, polls, cursorTimeout, found, meant, ops>>

\* net_wait_cursor reads a cursor register; net_probe looks once.
Reads(port, gap) == bus_access(port, 0, ReadValue(port, 0), FALSE) /\ wait' = gap
Target == IF op = "probe" THEN CommandCell ELSE shadow
Looking == Turns /\ op \in Checked /\ todo = <<>> /\ Reads(Look[look], Turn)
Matches == Digit(cursor, Look[look]) = Digit(Target, Look[look])

CursorSeen ==
  /\ Looking /\ Matches
  /\ IF look < 3
       THEN look' = look + 1 /\ UNCHANGED <<op, found>>
       ELSE /\ op' = "idle" /\ UNCHANGED look
            /\ found' = IF op = "probe" THEN TRUE ELSE found
  /\ UNCHANGED <<todo, shadow, tries, polls, cursorTimeout, got, meant, ops>>

CursorLate ==
  /\ Looking /\ ~Matches /\ tries > 1
  /\ tries' = tries - 1 /\ look' = 1
  /\ UNCHANGED <<op, todo, shadow, polls, cursorTimeout, found, got, meant, ops>>

CursorTimeout ==
  /\ Looking /\ ~Matches /\ tries = 1
  /\ op' = "idle"
  /\ IF op = "probe" THEN found' = FALSE /\ UNCHANGED cursorTimeout
                     ELSE cursorTimeout' = TRUE /\ UNCHANGED found
  /\ UNCHANGED <<todo, shadow, look, tries, polls, got, meant, ops>>

\* net_dispatch_busy polls the command register once a frame.
Polling == Turns /\ op = "dispatch" /\ todo = <<>>

PollAnswered ==
  /\ Polling /\ commandReg # Busy
  /\ Reads(Command, Turn)
  /\ op' = "idle" /\ got' = [got EXCEPT !.value = commandReg]
  /\ UNCHANGED <<todo, shadow, look, tries, polls, cursorTimeout, found, meant, ops>>

\* Mutant: the frame counter is not decremented.
PollUnbounded ==
  /\ Polling /\ commandReg = Busy
  /\ Reads(Command, Frame)
  /\ UNCHANGED <<op, todo, shadow, look, tries, polls, cursorTimeout, found, got,
                 meant, ops>>

PollBusy ==
  /\ Polling /\ commandReg = Busy /\ polls > 0
  /\ Reads(Command, Frame)
  /\ polls' = polls - 1
  /\ UNCHANGED <<op, todo, shadow, look, tries, cursorTimeout, found, got, meant, ops>>

PollTimeout ==
  /\ Polling /\ commandReg = Busy /\ polls = 0
  /\ Reads(Command, Turn)
  /\ op' = "idle" /\ got' = [got EXCEPT !.value = LocalTimeout]
  /\ UNCHANGED <<todo, shadow, look, tries, polls, cursorTimeout, found, meant, ops>>

-----------------------------------------------------------------------------
Tick ==
  /\ tick_fiq
  /\ wait' = IF wait > 0 THEN wait - 1 ELSE 0
  /\ UNCHANGED <<op, todo, shadow, look, tries, polls, cursorTimeout, found, got,
                 meant, ops>>

Drain == drain_zero_time_transitions /\ UNCHANGED host

Calls ==
  \/ net_probe \/ net_data_read \/ net_dispatch
  \/ \E c \in Cells : net_select_address(c)
  \/ \E v \in Values : net_data_write(v) \/ net_begin(v) \/ ForeignCommand(v)
  \/ \E q \in Pages, at \in PageByte : PageFetch(q, at)
  \/ \E q \in Pages, at \in PageByte, v \in Values : PageStore(q, at, v)
  \/ \E c \in Cells, q \in Pages : ForeignUse(c, q)

Runs == Access \/ CursorSeen \/ CursorLate \/ CursorTimeout
          \/ PollAnswered \/ PollBusy \/ PollTimeout

Next == Calls \/ Runs \/ Drain \/ Tick

\* The 6502 runs its routines, time passes, and what is due is done.
Spec == Init /\ [][Next]_vars /\ WF_vars(Runs) /\ WF_vars(Drain) /\ WF_vars(Tick)

-----------------------------------------------------------------------------
(* Properties.                                                              *)

\* An event the ARM has to act on: losing any other read changes nothing.
Matters(e) == e.valid /\ (e.write \/ e.port = Data)

\* pi1mhz_net.asm:229-230 "without issuing another FRED/JIM transaction, which
\* would replace the still-pending one-slot FIQ event": whenever the 6502 may
\* touch the bus, no write or data read still waits in the slot.
SlotFree == Turns => ~Matters(posted)

\* Nor is one still in its callback, so what the 6502 reads is not stale.
BusSettled == Turns => ~Matters(posted) /\ ~Matters(active)

\* Between routines the memory is what their program order makes of it, through
\* either aperture, whoever else moved the shared cursor and page meanwhile.
PortExact == op = "idle" /\ Turns => jim = meant

\* A byte read through the services port or a page is the byte last stored
\* there, by the program or by a service that ran since.
ReadExact == op = "idle" /\ got.of \in {"read", "fetch"} => got.value = got.due

\* The result net_dispatch returns is that of its own command: neither what an
\* earlier one left in the register nor a timeout.
AnswerFresh == op = "idle" /\ got.of = "dispatch" => got.value = got.due

\* Every routine returns, even when callbacks or services are slow
\* (pi1mhz_net.asm:193 "The wait is bounded", :307-308 "This remains bounded
\* when the service is absent or wedged").
RoutineEnds == op # "idle" ~> op = "idle"
=============================================================================

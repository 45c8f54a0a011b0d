------------------------------ MODULE Mailbox ------------------------------
(***************************************************************************)
(* The Pi1MHz services and JIM device as the emulator models it             *)
(* (emulator/pi1mhz-mailbox/src/pi1mhz_mailbox.c).  A bus access is one     *)
(* sample in a slot the next access overwrites; the FIQ captures it after a *)
(* latency, its callback takes effect after another, and the service a      *)
(* command starts runs later still.  Reads return what was last published.  *)
(*                                                                         *)
(* Registers are digits base Radix (256 in the code).  JIM is one memory of *)
(* MaxSet + 1 sets; the services aperture is the end of it.  The latencies  *)
(* are positive: the zero-latency fixture mode of the tests is left out.    *)
(***************************************************************************)
EXTENDS Integers

CONSTANTS
  Radix,          \* values of a register
  PageSize,       \* bytes of the &FD00 window
  MaxSet,         \* the last installed JIM set
  Byte,           \* byte values
  Busy,           \* PI1MHZ_NET_BUSY
  CaptureDelay,   \* capture_delay_ticks
  CallbackDelay,  \* callback_delay_ticks
  PageDelay,      \* page_callback_delay_ticks
  ServiceDelay,   \* service_delay_ticks
  Stalls,         \* whether the Pi's foreground loop may be held up
  CommandCell     \* the services byte dispatch reads its command from

Lo == "ADDR_LO"
Mid == "ADDR_MID"
Hi == "ADDR_HI"
Data == "DATA"
Command == "COMMAND"
PageLo == "PAGE_LO"
PageMid == "PAGE_MID"
PageHi == "PAGE_HI"
Window == "PAGE"      \* &FD00-&FDFF, one port for each byte of the page
PageByte == 0..PageSize - 1
Selectors == {PageHi, PageMid, PageLo}
Ports == {Lo, Mid, Hi, Data, Command, Window} \cup Selectors

SetSize == Radix * Radix * PageSize
JimSize == (MaxSet + 1) * SetSize
Cursors == 0..Radix * Radix * Radix - 1
ServicesBase == JimSize - Radix * Radix * Radix

ASSUME MailboxAssumption ==
  /\ Radix \in Nat /\ Radix > 1
  /\ PageSize \in Nat \ {0}
  /\ MaxSet \in 0..Radix - 1
  /\ ServicesBase \in Nat
  /\ 0..Radix - 1 \subseteq Byte /\ Busy \in Byte /\ Busy # 0
  /\ {CaptureDelay, CallbackDelay, PageDelay, ServiceDelay} \subseteq Nat \ {0}
  /\ CommandCell \in Cursors /\ Stalls \in BOOLEAN

VARIABLES
  jim, cursor, page,     \* the memory, mailbox->address and ->page
  dataReg, commandReg,   \* vpu_registers[3] and [4]
  window,                \* page_window
  posted, active,        \* the sample in the slot, the callback that runs
  captureLeft, callbackLeft, serviceLeft,   \* ticks remaining
  servicePending

NoEvent == [valid |-> FALSE]

device == <<jim, cursor, page, dataReg, commandReg, window, posted, active,
            captureLeft, callbackLeft, serviceLeft, servicePending>>

PageBase(p) == p.hi * SetSize + (p.mid * Radix + p.lo) * PageSize
WindowOf(m, p) == [i \in PageByte |-> m[PageBase(p) + i]]

DeviceInit ==
  /\ jim = [i \in 0..JimSize - 1 |-> 0]
  /\ cursor = 0 /\ page = [hi |-> 0, mid |-> 0, lo |-> 0]
  /\ dataReg = 0 /\ commandReg = 0
  /\ window = [i \in PageByte |-> 0]
  /\ posted = NoEvent /\ active = NoEvent
  /\ captureLeft = 0 /\ callbackLeft = 0 /\ serviceLeft = 0
  /\ servicePending = FALSE

-----------------------------------------------------------------------------
(* The cursor's digits.                                                     *)

Digit(c, port) == CASE port = Lo -> c % Radix
                    [] port = Mid -> (c \div Radix) % Radix
                    [] port = Hi -> c \div (Radix * Radix)
Weight(port) == CASE port = Lo -> 1 [] port = Mid -> Radix [] port = Hi -> Radix * Radix
WithDigit(c, port, v) == c + (v - Digit(c, port)) * Weight(port)

NextCursor(c) == (c + 1) % (Radix * Radix * Radix)

\* Mutant: the byte behind the cursor is not refreshed.
PublishAddressOnly(c, m) == cursor' = c /\ dataReg' = dataReg

\* publish_service_cursor: the cursor, and the byte behind it, become readable.
publish_service_cursor(c, m) == cursor' = c /\ dataReg' = m[ServicesBase + c]

-----------------------------------------------------------------------------
(* What the bus and the FIQ do.                                             *)

\* What a read returns without waiting for the ARM.
ReadValue(port, at) ==
  CASE port \in {Lo, Mid, Hi} -> Digit(cursor, port)
    [] port = Data -> dataReg
    [] port = Command -> commandReg
    [] port = PageLo -> page.lo
    [] port = PageMid -> page.mid
    [] port = PageHi -> page.hi
    [] port = Window -> window[at]

\* pi1mhz_mailbox_bus_access and post_fiq_event: the newest access takes the
\* slot, and the latency already running is not restarted.
bus_access(port, at, v, write) ==
  /\ posted' = [valid |-> TRUE, port |-> port, at |-> at, value |-> v, write |-> write]
  /\ captureLeft' = IF posted.valid THEN captureLeft ELSE CaptureDelay
  /\ UNCHANGED <<jim, cursor, page, dataReg, commandReg, window, active,
                 callbackLeft, serviceLeft, servicePending>>

\* capture_posted_event: how long its callback takes.
CallbackTicks(e) ==
  IF ~e.write /\ e.port # Data THEN 0
  ELSE IF e.write /\ e.port \in Selectors THEN PageDelay ELSE CallbackDelay

CaptureDue == ~active.valid /\ posted.valid /\ captureLeft = 0
CallbackDue == active.valid /\ callbackLeft = 0

\* drain_zero_time_transitions runs all that is due before anyone else moves.
Urgent == CaptureDue \/ CallbackDue

capture_posted_event ==
  /\ CaptureDue
  /\ active' = posted /\ posted' = NoEvent
  /\ callbackLeft' = CallbackTicks(posted)
  /\ UNCHANGED <<jim, cursor, page, dataReg, commandReg, window, captureLeft,
                 serviceLeft, servicePending>>

\* complete_active_callback, for the services registers...
ServicesCallback ==
  /\ \/ /\ active.port = Data /\ ~active.write
        /\ publish_service_cursor(NextCursor(cursor), jim)
        /\ UNCHANGED jim
     \/ /\ active.port = Data /\ active.write
        /\ jim' = [jim EXCEPT ![ServicesBase + cursor] = active.value]
        /\ publish_service_cursor(NextCursor(cursor), jim')
     \/ /\ active.port \in {Lo, Mid, Hi} /\ active.write
        /\ publish_service_cursor(WithDigit(cursor, active.port, active.value), jim)
        /\ UNCHANGED jim
  /\ UNCHANGED <<page, window, commandReg, servicePending, serviceLeft>>

\* Mutant: accepting a command does not publish BUSY.
CommandNotBusy ==
  /\ active.port = Command /\ active.write
  /\ servicePending' = (active.value = Busy) /\ serviceLeft' = ServiceDelay
  /\ UNCHANGED <<jim, cursor, page, window, dataReg, commandReg>>

\* ... the command register, where a dispatch selector starts a service and any
\* other value is echoed and forgets one that waits ...
CommandCallback ==
  /\ active.port = Command /\ active.write
  /\ \/ /\ active.value = Busy
        /\ commandReg' = Busy
        /\ servicePending' = TRUE /\ serviceLeft' = ServiceDelay
     \/ /\ active.value # Busy
        /\ commandReg' = active.value
        /\ servicePending' = FALSE /\ UNCHANGED serviceLeft
  /\ UNCHANGED <<jim, cursor, page, window, dataReg>>

\* ... the page selector, whose set is clamped, and the window.
PageCallback ==
  /\ active.write
  /\ \/ /\ active.port \in Selectors
        /\ page' = CASE active.port = PageLo -> [page EXCEPT !.lo = active.value]
                     [] active.port = PageMid -> [page EXCEPT !.mid = active.value]
                     [] active.port = PageHi ->
                          [page EXCEPT !.hi = IF active.value > MaxSet THEN MaxSet
                                                                       ELSE active.value]
        /\ window' = WindowOf(jim, page')
        /\ UNCHANGED jim
     \/ /\ active.port = Window
        /\ jim' = [jim EXCEPT ![PageBase(page) + active.at] = active.value]
        /\ window' = [window EXCEPT ![active.at] = active.value]
        /\ UNCHANGED page
  /\ UNCHANGED <<cursor, dataReg, commandReg, servicePending, serviceLeft>>

\* Any other read has no callback.
IdleCallback ==
  /\ ~active.write /\ active.port # Data
  /\ UNCHANGED <<jim, cursor, page, window, dataReg, commandReg, servicePending,
                 serviceLeft>>

complete_active_callback ==
  /\ CallbackDue
  /\ ServicesCallback \/ CommandCallback \/ PageCallback \/ IdleCallback
  /\ active' = NoEvent
  /\ UNCHANGED <<posted, captureLeft, callbackLeft>>

\* complete_service.  The backend behind dispatch is external here: it answers
\* with its command byte and leaves a reply after it.
ReplyCell == ServicesBase + NextCursor(CommandCell)

complete_service ==
  /\ servicePending' = FALSE /\ serviceLeft' = 0
  /\ commandReg' = jim[ServicesBase + CommandCell]
  /\ jim' = [jim EXCEPT ![ReplyCell] = jim[ServicesBase + CommandCell]]

\* pi1mhz_mailbox_tick_fiq: the foreground service moves only between
\* callbacks (on the Pi it may also be held up, "particularly while lwIP is
\* active"); a latency elapses even while a callback runs.
tick_fiq ==
  /\ ~Urgent
  /\ \/ /\ ~active.valid /\ servicePending /\ serviceLeft = 1
        /\ complete_service
     \/ /\ ~active.valid /\ servicePending /\ serviceLeft > 1
        /\ serviceLeft' = serviceLeft - 1
        /\ UNCHANGED <<jim, commandReg, servicePending>>
     \/ /\ active.valid \/ ~servicePending \/ Stalls
        /\ UNCHANGED <<jim, commandReg, servicePending, serviceLeft>>
  /\ captureLeft' = IF posted.valid /\ captureLeft > 0 THEN captureLeft - 1 ELSE captureLeft
  /\ callbackLeft' = IF active.valid THEN callbackLeft - 1 ELSE callbackLeft
  /\ UNCHANGED <<cursor, page, dataReg, window, posted, active>>

drain_zero_time_transitions == capture_posted_event \/ complete_active_callback
=============================================================================

------------------------------- MODULE Ap5Tube -------------------------------
(***************************************************************************)
(* The Tube ULA of integrations/elkulator/tube/ap5_tube.c: four registers   *)
(* between a host and a parasite processor, each with a way there (h) and a *)
(* way back (p), flow flags for both sides, interrupt lines, resets, and    *)
(* the clock that paces the parasite.  Register 1 back is a ring buffer,    *)
(* register 3 a pair of bytes, the others single latches.                   *)
(*                                                                         *)
(* The processor core (vrEmu6502) is external: of it the model has the      *)
(* register accesses of its program, its interrupt pins and its ticks.      *)
(* Parasite memory and the constant low bits of a status are left out.      *)
(***************************************************************************)
EXTENDS Integers, Sequences, FiniteSets

CONSTANTS
  RingSize,      \* R1_FIFO_SIZE
  Wrap,          \* 128: the host's cycle counter starts again here
  Controls,      \* control writes a host makes: [set, bits, clear], clear for T
  Advances,      \* host cycles between two accesses
  HostUses, ParasiteUses,   \* channels the programs on the two sides write
  MaxWork        \* bound: bytes sent, control writes, stretches of cycles, resets

\* Channels are named by register and by the side that writes them.
HostChannels == {"r1h", "r2h", "r3h", "r4h"}
ParasiteChannels == {"r1p", "r2p", "r3p", "r4p"}
HostLatches == HostChannels \ {"r3h"}       \* channels that are single latches

ASSUME TubeAssumption ==
  /\ RingSize \in Nat \ {0} /\ Wrap \in Nat \ {0}
  /\ Controls \subseteq [set : BOOLEAN, bits : SUBSET {"Q", "I", "J", "M", "V", "P"},
                         clear : BOOLEAN]
  /\ \A write \in Controls : write.clear => write.set
  /\ Advances \subseteq 1..(Wrap - 1)
  /\ MaxWork \in Nat
  /\ HostUses \subseteq HostChannels /\ ParasiteUses \subseteq ParasiteChannels

Registers == {"r1", "r2", "r3", "r4"}
Latched == {"r1", "r2", "r4"}       \* host to parasite
LatchedBack == {"r2", "r4"}         \* parasite to host
Slots == 0..(RingSize - 1)

VARIABLES
  ula,       \* tube_ula
  pins,      \* the parasite's irq and nmi pins, and nmi_asserted
  board,     \* selected, parasite_rom_mapped
  pace,      \* half_cycle, host_clock and the host's cycle counter
  ran,       \* since the last reset: cycles the host passed while the parasite
             \* could run, and ticks the parasite was given
  work,      \* how much of MaxWork is done
  received   \* the last byte a side took out of a channel

vars == <<ula, pins, board, pace, ran, work, received>>

-----------------------------------------------------------------------------
(* Resets and signals.                                                      *)

FreshUla ==
  [ring |-> [i \in Slots |-> 0], head |-> 0, tail |-> 0, count |-> 0,
   p2h |-> [r \in LatchedBack |-> 0], h2p |-> [r \in Latched |-> 0],
   p2h_r3 |-> <<>>, h2p_r3 |-> <<>>,
   host_status |-> [r \in Registers |-> IF r = "r3" THEN {"space", "data"}
                                        ELSE {"space"}],
   parasite_status |-> [r \in Registers |-> IF r = "r3" THEN {} ELSE {"space"}],
   control |-> {}]

IrqLevel(u) == \/ "I" \in u.control /\ "data" \in u.parasite_status["r1"]
               \/ "J" \in u.control /\ "data" \in u.parasite_status["r4"]
NmiLevel(u) == "M" \in u.control /\ "data" \in u.parasite_status["r3"]

\* The irq pin follows its level; a rising nmi level requests one interrupt.
update_signals(p, u) ==
  [irq |-> IrqLevel(u), nmi |-> p.nmi \/ (NmiLevel(u) /\ ~p.asserted),
   asserted |-> NmiLevel(u)]

Quiet == [irq |-> FALSE, nmi |-> FALSE, asserted |-> FALSE]
TubeNothing == [channel |-> "none", byte |-> 0]
NotRun == [passed |-> 0, ticks |-> 0]

\* What ap5_tube_init leaves: this parasite selected, and a reset.
Init ==
  /\ ula = FreshUla /\ pins = Quiet /\ received = TubeNothing
  /\ board = [selected |-> TRUE, rom_mapped |-> TRUE]
  /\ pace = [half_cycle |-> 0, valid |-> FALSE, last_cycle |-> 0, counter |-> 0]
  /\ ran = NotRun /\ work = 0

\* A host access brings the parasite up to date first, so nothing is owed.
Access == pace.valid => pace.last_cycle = pace.counter

\* ap5_tube_reset: a BREAK, or the selection of this parasite.
TubeReset ==
  /\ ula' = FreshUla /\ pins' = Quiet
  /\ pace' = [pace EXCEPT !.half_cycle = 0, !.valid = FALSE]
  /\ ran' = NotRun /\ UNCHANGED received

ap5_tube_reset ==
  /\ work < MaxWork
  /\ board' = [board EXCEPT !.rom_mapped = TRUE]
  /\ TubeReset
  /\ work' = work + 1

\* Register 6 of the host selects a coprocessor; another one silences this.
SelectCopro(this) ==
  /\ Access /\ work < MaxWork
  /\ IF this THEN TubeReset /\ board' = [board EXCEPT !.selected = TRUE,
                                                      !.rom_mapped = TRUE]
     ELSE /\ ula' = FreshUla
          /\ pins' = update_signals([pins EXCEPT !.asserted = FALSE], FreshUla)
          /\ board' = [board EXCEPT !.selected = FALSE]
          /\ UNCHANGED <<pace, ran, received>>
  /\ work' = work + 1

-----------------------------------------------------------------------------
(* Flow control.  A register access is a change of the ULA.                 *)

Add(flags, r, new) == [flags EXCEPT ![r] = @ \cup new]
Drop(flags, r, old) == [flags EXCEPT ![r] = @ \ old]

\* Single latches: there, and back.
LatchWrite(u, r, byte) ==
  [u EXCEPT !.h2p[r] = byte, !.parasite_status = Add(@, r, {"data"}),
            !.host_status = Drop(@, r, {"space"})]

\* Mutant: a read leaves the sender without space.
LatchReadNoSpace(u, r) == [u EXCEPT !.parasite_status = Drop(@, r, {"data"})]

LatchRead(u, r) ==
  [u EXCEPT !.parasite_status = Drop(@, r, {"data"}),
            !.host_status = Add(@, r, {"space"})]
BackWrite(u, r, byte) ==
  [u EXCEPT !.p2h[r] = byte, !.host_status = Add(@, r, {"data"}),
            !.parasite_status = Drop(@, r, {"space"})]
BackRead(u, r) ==
  [u EXCEPT !.host_status = Drop(@, r, {"data"}),
            !.parasite_status = Add(@, r, {"space"})]

\* The ring of register 1: a full one drops the byte, an empty one gives none.
RingWrite(u, byte) ==
  IF u.count = RingSize THEN u
  ELSE [u EXCEPT !.ring[u.tail] = byte, !.tail = (@ + 1) % RingSize, !.count = @ + 1,
                 !.host_status = Add(@, "r1", {"data"}),
                 !.parasite_status = IF u.count + 1 = RingSize
                                       THEN Drop(@, "r1", {"space"}) ELSE @]
RingRead(u) ==
  IF u.count = 0 THEN u
  ELSE [u EXCEPT !.head = (@ + 1) % RingSize, !.count = @ - 1,
                 !.host_status = IF u.count = 1 THEN Drop(@, "r1", {"data"}) ELSE @,
                 !.parasite_status = Add(@, "r1", {"space"})]

\* Register 3: one or two bytes make a transfer, as V says.
Transfer(u) == IF "V" \in u.control THEN 2 ELSE 1

PairWrite(u, byte) ==
  IF Len(u.h2p_r3) = 2 THEN u
  ELSE [u EXCEPT !.h2p_r3 = Append(@, byte),
          !.parasite_status = IF Len(u.h2p_r3) + 1 >= Transfer(u)
                                THEN Add(@, "r3", {"data"}) ELSE @,
          !.host_status = IF Len(u.h2p_r3) + 1 >= Transfer(u)
                            THEN Drop(@, "r3", {"space"}) ELSE @]
PairRead(u) ==
  IF u.h2p_r3 = <<>> THEN u
  ELSE [u EXCEPT !.h2p_r3 = Tail(@),
          !.parasite_status = IF Len(u.h2p_r3) = 1 THEN Drop(@, "r3", {"data"}) ELSE @,
          !.host_status = IF Len(u.h2p_r3) = 1 THEN Add(@, "r3", {"space", "data"})
                          ELSE @]
PairBackWrite(u, byte) ==
  IF Len(u.p2h_r3) = 2 THEN u
  ELSE [u EXCEPT !.p2h_r3 = Append(@, byte),
          !.host_status = IF Len(u.p2h_r3) + 1 >= Transfer(u)
                            THEN Add(@, "r3", {"data"}) ELSE @,
          !.parasite_status = IF Len(u.p2h_r3) + 1 >= Transfer(u)
                                THEN Drop(@, "r3", {"space", "data"}) ELSE @]

\* Mutant: the second byte is not moved up.
PairBackReadStays(u) ==
  IF u.p2h_r3 = <<>> THEN u
  ELSE [u EXCEPT !.p2h_r3 = SubSeq(@, 1, Len(@) - 1)]

PairBackRead(u) ==
  IF u.p2h_r3 = <<>> THEN u
  ELSE [u EXCEPT !.p2h_r3 = Tail(@),
          !.host_status = IF Len(u.p2h_r3) = 1 THEN Drop(@, "r3", {"data"}) ELSE @,
          !.parasite_status = IF Len(u.p2h_r3) = 1
                                THEN Add(@, "r3", {"space", "data"}) ELSE @]

-----------------------------------------------------------------------------
(* The channels as they stand in the ULA.                                   *)

Register(c) == CASE c \in {"r1h", "r1p"} -> "r1" [] c \in {"r2h", "r2p"} -> "r2"
                 [] c \in {"r3h", "r3p"} -> "r3" [] OTHER -> "r4"

Held(u, c) ==
  LET r == Register(c)
  IN  CASE c = "r1p" -> [i \in 1..u.count |-> u.ring[(u.head + i - 1) % RingSize]]
        [] c = "r3p" -> u.p2h_r3
        [] c = "r3h" -> u.h2p_r3
        [] c \in HostLatches -> IF "data" \in u.parasite_status[r] THEN <<u.h2p[r]>>
                                ELSE <<>>
        [] OTHER -> IF "data" \in u.host_status[r] THEN <<u.p2h[r]>> ELSE <<>>

Written(u, c, byte) ==
  CASE c = "r1p" -> RingWrite(u, byte)
    [] c = "r3p" -> PairBackWrite(u, byte)
    [] c = "r3h" -> PairWrite(u, byte)
    [] c \in HostLatches -> LatchWrite(u, Register(c), byte)
    [] OTHER -> BackWrite(u, Register(c), byte)

Taken(u, c) ==
  CASE c = "r1p" -> RingRead(u)
    [] c = "r3p" -> PairBackRead(u)
    [] c = "r3h" -> PairRead(u)
    [] c \in HostLatches -> LatchRead(u, Register(c))
    [] OTHER -> BackRead(u, Register(c))

\* A program writes a latch only when its side's flag shows space; the ring and
\* the pairs it may write at any time.
SpaceShown(c) ==
  CASE c \in {"r1p", "r3p", "r3h"} -> TRUE
    [] c \in HostLatches -> "space" \in ula.host_status[Register(c)]
    [] OTHER -> "space" \in ula.parasite_status[Register(c)]

Running == board.selected /\ "P" \notin ula.control

SendOn(c) ==
  /\ work < MaxWork /\ SpaceShown(c)
  /\ ula' = Written(ula, c, work + 1)
  /\ pins' = update_signals(pins, ula')
  /\ work' = work + 1
  /\ UNCHANGED <<board, pace, ran, received>>

TakeFrom(c) ==
  /\ ula' = Taken(ula, c)
  /\ pins' = update_signals(pins, ula')
  /\ received' = IF Held(ula, c) = <<>> THEN received
                 ELSE [channel |-> c, byte |-> Head(Held(ula, c))]
  /\ UNCHANGED <<board, pace, ran, work>>

\* The data registers of the two sides, and the parasite's status register,
\* the first read of which unmaps its boot ROM.
HostWrite(c) == Access /\ board.selected /\ SendOn(c)
HostRead(c) == Access /\ board.selected /\ TakeFrom(c)
parasite_write(c) == Running /\ SendOn(c)
parasite_read(c) == Running /\ TakeFrom(c)
ParasiteStatus ==
  /\ Running /\ board.rom_mapped
  /\ board' = [board EXCEPT !.rom_mapped = FALSE]
  /\ pins' = update_signals(pins, ula)
  /\ UNCHANGED <<ula, pace, ran, work, received>>

\* The processor takes a requested nmi.
TakeNmi == /\ Running /\ pins.nmi
           /\ pins' = [pins EXCEPT !.nmi = FALSE]
           /\ UNCHANGED <<ula, board, pace, ran, work, received>>

\* Register 0 of the host sets or clears control bits.  T empties the channels
\* and keeps the control bits; it is not stored.  Clearing bits other than P
\* while P is set restarts the processor.
Control(set, bits, clear) ==
  /\ Access /\ board.selected
  /\ work < MaxWork
  /\ LET base    == IF clear THEN [FreshUla EXCEPT !.control = ula.control] ELSE ula
         restart == ~set /\ "P" \notin bits /\ "P" \in ula.control
         before  == IF clear THEN update_signals([pins EXCEPT !.asserted = FALSE], FreshUla)
                    ELSE IF restart THEN [Quiet EXCEPT !.asserted = pins.asserted]
                    ELSE pins
     IN  /\ ula' = [base EXCEPT !.control = IF set THEN @ \cup bits ELSE @ \ bits]
         /\ pins' = update_signals(before, ula')
         /\ board' = [board EXCEPT !.rom_mapped = @ \/ restart]
  /\ work' = work + 1
  /\ UNCHANGED <<pace, ran, received>>

-----------------------------------------------------------------------------
(* The clock.                                                               *)

HostRuns(advance) ==
  /\ Access /\ work < MaxWork
  /\ pace' = [pace EXCEPT !.counter = (@ + advance) % Wrap]
  /\ work' = work + 1
  /\ ran' = [ran EXCEPT !.passed = IF pace.valid /\ Running THEN @ + advance ELSE @]
  /\ UNCHANGED <<ula, pins, board, received>>

\* Cycles since the last look, when the counter may have wrapped once.
Elapsed == (pace.counter - pace.last_cycle)
             + (IF pace.counter < pace.last_cycle THEN Wrap ELSE 0)

\* Mutant: the odd half is dropped.
TicksDropHalf(cycles, half) == [ticks |-> cycles + (cycles \div 2), half |-> 0]

\* Three parasite cycles for two of the host, the odd half carried over.
Ticks(cycles, half) ==
  LET odd == half + (cycles % 2)
  IN  [ticks |-> cycles + cycles \div 2 + (IF odd >= 2 THEN 1 ELSE 0),
       half |-> IF odd >= 2 THEN odd - 2 ELSE odd]

ap5_tube_sync_host_clock ==
  /\ IF ~pace.valid
       THEN /\ pace' = [pace EXCEPT !.valid = TRUE, !.last_cycle = pace.counter]
            /\ UNCHANGED ran
       ELSE LET run == Ticks(Elapsed, pace.half_cycle)
            IN  /\ pace' = [pace EXCEPT !.last_cycle = pace.counter,
                              !.half_cycle = IF Running THEN run.half ELSE @]
                /\ ran' = [ran EXCEPT !.ticks = IF Running THEN @ + run.ticks ELSE @]
  /\ UNCHANGED <<ula, pins, board, work, received>>

\* The host's counter is set back after it reads its reset vector.
ap5_tube_rebase_host_clock ==
  /\ Access
  /\ pace' = [pace EXCEPT !.counter = 0, !.valid = TRUE, !.last_cycle = 0]
  /\ UNCHANGED <<ula, pins, board, ran, work, received>>

Next ==
  \/ ap5_tube_reset
  \/ \E this \in BOOLEAN : SelectCopro(this)
  \/ \E c \in HostUses : HostWrite(c) \/ parasite_read(c)
  \/ \E c \in ParasiteUses : HostRead(c) \/ parasite_write(c)
  \/ ParasiteStatus \/ TakeNmi
  \/ \E write \in Controls : Control(write.set, write.bits, write.clear)
  \/ \E advance \in Advances : HostRuns(advance)
  \/ ap5_tube_sync_host_clock \/ ap5_tube_rebase_host_clock

Spec == Init /\ [][Next]_vars

-----------------------------------------------------------------------------
(* Properties.                                                              *)

\* On registers 1, 2 and 4 the flag one side writes by and the flag the other
\* side reads by tell the same story, whatever order the two sides act in; on
\* the ring, space and data follow its count.
FlagsAgree ==
  /\ \A r \in Latched :
       "space" \in ula.host_status[r] <=> "data" \notin ula.parasite_status[r]
  /\ \A r \in LatchedBack :
       "space" \in ula.parasite_status[r] <=> "data" \notin ula.host_status[r]
  /\ "data" \in ula.host_status["r1"] <=> ula.count > 0
  /\ "space" \in ula.parasite_status["r1"] <=> ula.count < RingSize

\* The parasite's 3 MHz: whenever a side looks, it was given three ticks for
\* every two cycles the host passed, to the half cycle, over any pattern of
\* accesses, counter wraps, rebases, and stretches in which it was held.
ClockExact == Access => 2 * ran.ticks + pace.half_cycle = 3 * ran.passed

\* The ULA implements the bounded, ordered channels of TubeChannels.
Queues == [c \in HostUses \cup ParasiteUses |-> Held(ula, c)]
Capacities == [c \in HostUses \cup ParasiteUses |->
                 IF c = "r1p" THEN RingSize
                 ELSE IF c \in {"r3h", "r3p"} THEN 2 ELSE 1]
Promise == INSTANCE TubeChannels
             WITH Channels <- HostUses \cup ParasiteUses,
                  Capacity <- Capacities, Bytes <- 1..MaxWork, queue <- Queues,
                  received <- received
PromiseKept == Promise!Spec
=============================================================================

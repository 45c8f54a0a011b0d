------------------------------ MODULE UefTape ------------------------------
(***************************************************************************)
(* What *UEF LOAD and WiCFS promise together: a cassette.  The bytes handed *)
(* to the cassette parser are those of the loaded tape, from its start, one *)
(* after the other, until its end; the tape may be rewound or changed at    *)
(* any time, and a fault may stop it.                                       *)
(***************************************************************************)
EXTENDS Naturals, Sequences

CONSTANTS Tapes       \* the tapes that can be in the machine

VARIABLES tape,       \* the one that is, or <<>>
          out,        \* the bytes delivered since it was last rewound
          state       \* "stopped", "playing", "end" or "fault"

tapeVars == <<tape, out, state>>

Init == tape = <<>> /\ out = <<>> /\ state = "stopped"

Insert == tape' \in Tapes /\ out' = <<>> /\ state' = "stopped"

Rewind == out' = <<>> /\ state' = "stopped" /\ UNCHANGED tape

Start == state = "stopped" /\ out = <<>> /\ state' = "playing" /\ UNCHANGED <<tape, out>>

\* A parser that met a fault may ask again.
Resume == state = "fault" /\ state' = "playing" /\ UNCHANGED <<tape, out>>

Play == /\ state = "playing"
        /\ Len(out) < Len(tape)
        /\ out' = Append(out, tape[Len(out) + 1])
        /\ UNCHANGED <<tape, state>>

End == state = "playing" /\ out = tape /\ state' = "end" /\ UNCHANGED <<tape, out>>

Fault == out # tape /\ state' = "fault" /\ UNCHANGED <<tape, out>>

Next == Insert \/ Rewind \/ Start \/ Resume \/ Play \/ End \/ Fault

Spec == Init /\ [][Next]_tapeVars
=============================================================================

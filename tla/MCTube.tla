------------------------------- MODULE MCTube -------------------------------
(* A ring of two bytes, which three sends take around its end; a counter of  *)
(* four, which two advances wrap.                                            *)
EXTENDS Ap5Tube

Write(set, bits, clear) == [set |-> set, bits |-> bits, clear |-> clear]
ControlWrites == {Write(TRUE, {"I", "M"}, FALSE), Write(TRUE, {"V", "P"}, FALSE),
                  Write(FALSE, {"P"}, FALSE), Write(FALSE, {"I"}, FALSE),
                  Write(TRUE, {}, TRUE)}
=============================================================================

----------------------------- MODULE MCNetPort -----------------------------
(* Two-valued registers: three-digit cursors 0..7 over one set of eight bytes, *)
(* so that a cursor carries and wraps and set 1 has to be clamped.            *)
EXTENDS NetPort

Bytes == 0..3
TwoCells == {3, 7}
Bits == {0, 1}
TwoPages == {[hi |-> 1, mid |-> 0, lo |-> 1], [hi |-> 0, mid |-> 1, lo |-> 0]}
OnePage == {[hi |-> 0, mid |-> 1, lo |-> 0]}
=============================================================================

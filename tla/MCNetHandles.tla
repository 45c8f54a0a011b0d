---------------------------- MODULE MCNetHandles ----------------------------
(* Two servers, headers that fit the buffer and not, bodies of up to three.  *)
EXTENDS NetHandles

TwoHosts == {"a", "b"}
=============================================================================

---------------------------- MODULE TubeChannels ----------------------------
(***************************************************************************)
(* What a Tube promises the programs on its two sides: eight bounded,       *)
(* ordered channels that a reset empties, and nothing else loses, repeats   *)
(* or makes up a byte.                                                      *)
(***************************************************************************)
EXTENDS Integers, Sequences

CONSTANTS Channels, Capacity, Bytes

VARIABLES
  queue,      \* per channel, the bytes sent and not received
  received    \* the last byte received, and from where

vars == <<queue, received>>

Nothing == [channel |-> "none", byte |-> 0]

Init == queue = [c \in Channels |-> <<>>] /\ received = Nothing

Send(c, byte) ==
  /\ Len(queue[c]) < Capacity[c]
  /\ queue' = [queue EXCEPT ![c] = Append(@, byte)]
  /\ UNCHANGED received

Receive(c) ==
  /\ queue[c] # <<>>
  /\ received' = [channel |-> c, byte |-> Head(queue[c])]
  /\ queue' = [queue EXCEPT ![c] = Tail(@)]

Reset == queue' = [c \in Channels |-> <<>>] /\ UNCHANGED received

Next == \/ \E c \in Channels : Receive(c) \/ \E byte \in Bytes : Send(c, byte)
        \/ Reset

Spec == Init /\ [][Next]_vars
=============================================================================

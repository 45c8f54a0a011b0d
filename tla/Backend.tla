------------------------------ MODULE Backend ------------------------------
(***************************************************************************)
(* The process of the emulator's backend around its WiFi control and its    *)
(* SSH session: pi1mhz_net_backend_create and _destroy, and a process that  *)
(* is killed at any moment.  The files survive it: the WiFi profile, which  *)
(* is rewritten in place, and the list of known hosts, which is replaced by *)
(* a rename.  The 6502 runs one thing at a time, so a WiFi command is given *)
(* only while no SSH program runs.                                          *)
(***************************************************************************)
EXTENDS WifiControl, SecureSession

\* Bound: what the host does in a behaviour.  The two parts have the process in
\* common and nothing else, so that one at a time is enough for their properties.
CONSTANT Workloads

ASSUME WorkloadAssumption == Workloads \subseteq SUBSET {"wifi", "ssh"}

VARIABLE workload

vars == <<wifiVars, secureVars, workload>>

\* The types of all the state of the process and of its files.
TypeOK == WifiTypeOK /\ SecureTypeOK /\ workload \in Workloads

Init == WifiInit /\ SecureInit /\ workload \in Workloads

\* pi1mhz_net_backend_dispatch.
Command == "wifi" \in workload /\ program.pc = "exit" /\ Control

Restart(saving) ==
  /\ saving => "wifi" \in workload /\ program.pc = "exit"
  /\ WifiRestart(saving) /\ SecureRestart

Next ==
  /\ UNCHANGED workload
  /\ \/ (Command \/ ("wifi" \in workload /\ Elapse)) /\ UNCHANGED secureVars
     \/ "ssh" \in workload /\ Session /\ UNCHANGED wifiVars
     \/ \E saving \in BOOLEAN : Restart(saving)

Spec == Init /\ [][Next]_vars
=============================================================================

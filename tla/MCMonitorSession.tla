-------------------------- MODULE MCMonitorSession --------------------------
(* Instance of MonitorSession for TLC.                                      *)
EXTENDS MonitorSession, TLC

Symmetry == Permutations(Device) \cup Permutations(Code) \cup Permutations(Task)
=============================================================================

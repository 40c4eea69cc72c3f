------------------------------ MODULE MCRelay ------------------------------
(* Instance of Relay for TLC: every connection comes from one address, and  *)
(* connections and devices are interchangeable.                             *)
EXTENDS Relay, TLC

OneAddress == [s \in Socket |-> CHOOSE a \in Address : TRUE]
Symmetry == Permutations(Socket) \cup Permutations(Device)
=============================================================================

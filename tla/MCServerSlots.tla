---------------------------- MODULE MCServerSlots ----------------------------
(* Instances of ServerSlots.  Init lets the names be configured in any order,   *)
(* so names are symmetric as threads are.                                       *)
EXTENDS ServerSlots, TLC

Symmetry == Permutations(Threads) \cup Permutations(Names)

=============================================================================

---------------------------- MODULE MCClientCache ----------------------------
(* Instances of ClientCache.                                                  *)
EXTENDS ClientCache, TLC

\* Bound: entries in the list, of which a path may have several.
CONSTANT MaxEntries
FewEntries == Len(list) <= MaxEntries

Symmetry == Permutations(Paths) \cup Permutations(Data)

=============================================================================

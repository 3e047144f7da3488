---------------------------- MODULE MCProjectCards ----------------------------
(* An instance of ProjectCards for TLC: two cards with the same name, and a   *)
(* second project that a description may name.  Cards, boards and chains are *)
(* interchangeable.                                                          *)
EXTENDS ProjectCards, TLC
CONSTANTS c, d, here, there, x, y
MCCards == {c, d}
MCProjects == {"p", "q"}
MCBoards == {here, there}
MCChains == {x, y}
MCSlug == [card \in MCCards |-> "p"]
Symmetry ==
  Permutations(MCCards) \cup Permutations(MCBoards) \cup Permutations(MCChains)
=============================================================================

---------------------------- MODULE MCIncremental ----------------------------
(* Incremental with its environments spelt out. *)
EXTENDS Incremental, TLC
MCSymmetry == Permutations(Builders) \cup Permutations(Inodes)
MCPassing ==
  {{"abort", "bypass"}, {"revert", "mixed"}, {"edit_during_build"}, {"whole"}, {"aggressive"}}
MCQuiet == {{}}
==============================================================================

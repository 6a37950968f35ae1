--------------------------- MODULE MCLibrarySync ----------------------------
(* Small instances of LibrarySync for TLC. *)
EXTENDS LibrarySync, TLC

Symmetry ==
  Permutations(Slots) \cup Permutations(Devices \ Ahead) \cup Permutations(Ids)
    \cup Permutations(Bodies \ Unsynced)
=============================================================================

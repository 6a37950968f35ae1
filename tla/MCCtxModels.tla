---------------------------- MODULE MCCtxModels -----------------------------
(* A small instance of CtxModels for TLC. *)
EXTENDS CtxModels, TLC

Symmetry == Permutations(Slots)

MCReleased == [v \in Videos |-> IF v = "v1" THEN 1 ELSE 2]
MCAddons == <<"a1">>
MCListed == <<"a", "b", "c", "d", "e">>
=============================================================================

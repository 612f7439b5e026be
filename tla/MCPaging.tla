------------------------------ MODULE MCPaging ------------------------------
(* Values for the model checker: see the README for why they are enough. *)
EXTENDS Paging, TLC

MCSymmetry == Permutations(Feeds)
=============================================================================

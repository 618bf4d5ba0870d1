--------------------------- MODULE MCBatchDialog ---------------------------
(* Instances of BatchDialog for TLC: the user's and the network's freedom are *)
(* switched on one at a time by the configurations.                           *)
EXTENDS BatchDialog, TLC

CONSTANTS j1, j2, d1, d2

AnyJob == Permutations(Jobs)
AnyDoc == Permutations(Docs)
=============================================================================

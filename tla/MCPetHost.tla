----------------------------- MODULE MCPetHost -----------------------------
(* Instances of PetHost for TLC.                                           *)
EXTENDS PetHost, TLC

CONSTANTS t1, t2

AnyThread == Permutations(Threads)
=============================================================================

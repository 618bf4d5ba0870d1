-------------------------- MODULE MCUpdateDownload --------------------------
(* Instances of UpdateDownload for TLC. *)
EXTENDS UpdateDownload, TLC

\* Downloads, file names and digests are interchangeable.
Symmetric ==
  Permutations(Workers) \union Permutations(Names) \union Permutations(Digests)
=============================================================================

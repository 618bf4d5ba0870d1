---------------------------- MODULE MCTabsEditor ----------------------------
(* Instances of TabsEditor for TLC.                                        *)
EXTENDS TabsEditor, TLC

CONSTANTS d1, d2

AnyDoc == Permutations(Docs)
=============================================================================

--------------------------- MODULE MCBatchConvert ---------------------------
(* Instances of BatchConvert for TLC. *)
EXTENDS BatchConvert, TLC

CONSTANTS j1, j2, c1, c2, s1, s2, s3, a, b

\* report.docx, report.pdf and notes.docx in one folder.
Stem3 == (s1 :> a) @@ (s2 :> a) @@ (s3 :> b)

\* Everybody may select everything.
All == [t \in Threads |-> Sources]
=============================================================================

-------------------------- MODULE MCExportCommit --------------------------
(* Instances of ExportCommit for TLC. *)
EXTENDS ExportCommit, TLC

CONSTANTS r1, r2, t1, t2, i1, i2

\* One request exports to t1, the other to the same path or to another.
SharedOrNot == (r1 :> {t1}) @@ (r2 :> {t1, t2})
=============================================================================

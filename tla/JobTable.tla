------------------------------ MODULE JobTable ------------------------------
(***************************************************************************)
(* The table of conversion jobs (CONVERT_JOBS) as the server's threads and *)
(* the page's workbench share it.                                          *)
(***************************************************************************)
EXTENDS Naturals, Sequences

CONSTANTS
  Jobs,      \* batch jobs, each started at most once
  MaxItems,  \* bound: items of one job
  None       \* no file, no job, no request

VARIABLES
  status,    \* statuses of the items of each job, as the progress route shows them
  cancel,    \* the job's cancel flag
  finished   \* the job's finished flag; running is its complement

Outcomes == {"ok", "skipped", "error"}
Statuses == {"queued", "running", "canceled"} \union Outcomes
=============================================================================

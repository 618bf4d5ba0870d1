---------------------------- MODULE JobProgress ----------------------------
(***************************************************************************)
(* What a batch conversion job shows to whoever asks for its progress: a   *)
(* list of items that is worked through from front to back, one item at a  *)
(* time, until the end of the list or until a cancel is noticed between    *)
(* two items.  No threads, no converter and no files.                      *)
(***************************************************************************)
EXTENDS Naturals, Sequences

CONSTANTS
  Jobs,      \* job ids
  MaxItems   \* bound: the longest list

VARIABLES
  status,    \* [Jobs -> Seq(Statuses)]; the empty list before the job exists
  cancel,    \* [Jobs -> BOOLEAN]
  finished   \* [Jobs -> BOOLEAN]

vars == <<status, cancel, finished>>

Outcomes == {"ok", "skipped", "error"}
Statuses == {"queued", "running", "canceled"} \union Outcomes

Exists(j) == status[j] # <<>>
InState(j, s) == {i \in DOMAIN status[j] : status[j][i] = s}

Init ==
  /\ status = [j \in Jobs |-> <<>>]
  /\ cancel = [j \in Jobs |-> FALSE]
  /\ finished = [j \in Jobs |-> FALSE]

Start(j, n) ==
  /\ ~Exists(j)
  /\ status' = [status EXCEPT ![j] = [i \in 1..n |-> "queued"]]
  /\ UNCHANGED <<cancel, finished>>

\* The next item is the first that is queued, and nothing else is running.
Take(j) ==
  /\ ~cancel[j]
  /\ InState(j, "running") = {}
  /\ \E i \in InState(j, "queued") :
       /\ \A k \in InState(j, "queued") : i <= k
       /\ status' = [status EXCEPT ![j][i] = "running"]
  /\ UNCHANGED <<cancel, finished>>

Record(j, outcome) ==
  /\ \E i \in InState(j, "running") : status' = [status EXCEPT ![j][i] = outcome]
  /\ UNCHANGED <<cancel, finished>>

\* A cancel is accepted at any time after the start, also after the end.
Cancel(j) ==
  /\ Exists(j)
  /\ cancel' = [cancel EXCEPT ![j] = TRUE]
  /\ UNCHANGED <<status, finished>>

\* Between two items: the rest is given up when a cancel came, and the job ends
\* when nothing is left.
Finish(j) ==
  /\ Exists(j) /\ ~finished[j]
  /\ InState(j, "running") = {}
  /\ cancel[j] \/ InState(j, "queued") = {}
  /\ status' = [status EXCEPT ![j] = [i \in DOMAIN status[j] |->
                  IF status[j][i] = "queued" THEN "canceled" ELSE status[j][i]]]
  /\ finished' = [finished EXCEPT ![j] = TRUE]
  /\ UNCHANGED cancel

Next ==
  \E j \in Jobs :
    \/ \E n \in 1..MaxItems : Start(j, n)
    \/ Take(j)
    \/ \E o \in Outcomes : Record(j, o)
    \/ Cancel(j)
    \/ Finish(j)

Spec == Init /\ [][Next]_vars
=============================================================================

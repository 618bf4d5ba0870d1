----------------------------- MODULE CommitRace -----------------------------
(***************************************************************************)
(* What cancellation of one long request promises, with no table, no disk  *)
(* and no threads: a task is decided exactly once, either by its own       *)
(* commit or by a cancel, and everything anybody is told about it agrees   *)
(* with that decision.                                                     *)
(***************************************************************************)
CONSTANT Tasks

VARIABLES
  outcome,  \* [Tasks -> Outcomes]: the decision
  told,     \* [Tasks -> SUBSET Verdicts]: what callers of cancel were answered
  reply     \* [Tasks -> Replies]: what the request itself was answered

vars == <<outcome, told, reply>>

Outcomes == {"undecided", "committed", "cancelled"}
Verdicts == {"cancelling", "finished"}
Replies  == {"none", "ok", "cancelled", "error"}

TypeOK ==
  /\ outcome \in [Tasks -> Outcomes]
  /\ told \in [Tasks -> SUBSET Verdicts]
  /\ reply \in [Tasks -> Replies]

Init ==
  /\ outcome = [t \in Tasks |-> "undecided"]
  /\ told = [t \in Tasks |-> {}]
  /\ reply = [t \in Tasks |-> "none"]

\* The task reaches its commit point before any cancel.
Commit(t) ==
  /\ outcome[t] = "undecided"
  /\ outcome' = [outcome EXCEPT ![t] = "committed"]
  /\ UNCHANGED <<told, reply>>

\* A cancel reaches the task before its commit point.
CancelWins(t) ==
  /\ outcome[t] \in {"undecided", "cancelled"}
  /\ outcome' = [outcome EXCEPT ![t] = "cancelled"]
  /\ told' = [told EXCEPT ![t] = @ \union {"cancelling"}]
  /\ UNCHANGED reply

\* A cancel reaches the task after its commit point.
CancelLoses(t) ==
  /\ outcome[t] = "committed"
  /\ told' = [told EXCEPT ![t] = @ \union {"finished"}]
  /\ UNCHANGED <<outcome, reply>>

\* The request is answered once: success only for a committed task, "cancelled"
\* only for a cancelled one, an error for either (a failed render or rename).
Answer(t, v) ==
  /\ reply[t] = "none"
  /\ v = "ok" => outcome[t] = "committed"
  /\ v = "cancelled" => outcome[t] = "cancelled"
  /\ reply' = [reply EXCEPT ![t] = v]
  /\ UNCHANGED <<outcome, told>>

Next ==
  \E t \in Tasks :
    \/ Commit(t)
    \/ CancelWins(t)
    \/ CancelLoses(t)
    \/ \E v \in Replies \ {"none"} : Answer(t, v)

Spec == Init /\ [][Next]_vars
=============================================================================

------------------------- MODULE ExportCommitProofs -------------------------
(***************************************************************************)
(* What holds of ExportCommit for every number of requests, task ids and   *)
(* targets, shared or not.                                                 *)
(***************************************************************************)
EXTENDS ExportCommit, TLAPS

\* A staged export that has begun to write, and has not yet renamed or removed
\* its part.
OwnsPart(r) ==
  Staged(r) /\ pc[r] \in {"writing", "written", "rename", "remove", "removeTwice"}

\* Every part on disk is some running request's to rename or remove.
PartOwned ==
  ~crashed =>
    /\ \A r \in Requests : pc[r] # "dead"
    /\ \A t \in Targets : disk[<<"part", t>>] # None =>
         \E r \in Requests : OwnsPart(r) /\ req[r].target = t

\* The steps after which a task's fate is decided one way or the other.
Decided ==
  \A r \in Requests :
    /\ ~(flag[r] /\ committed[r])
    /\ "cancelling" \in told[r] <=> flag[r]
    /\ "finished" \in told[r] => committed[r]
    /\ pc[r] = "rename" => committed[r]
    /\ pc[r] \in {"rename", "written"} => Staged(r)
    /\ pc[r] \in {"idle", "dialog", "register"} => ~committed[r]
    /\ pc[r] \in {"check", "precommit"} => HasTask(r) /\ ~committed[r]
    /\ pc[r] = "precommit" => req[r].format = "tex"
    /\ pc[r] = "written" => ~committed[r]
    /\ pc[r] \in {"render", "writing"} =>
         (committed[r] <=> HasTask(r) /\ req[r].format = "tex")
    /\ HasTask(r) /\ answer[r] = "ok" => committed[r]
    /\ answer[r] = "cancelled" => flag[r]
    /\ pc[r] \in Waiting \union {"check", "precommit", "render", "writing", "written", "rename"}
         => answer[r] = "none"

\* The type invariant is inductive by itself.
THEOREM TypeCorrect == Spec => []TypeOK
<1>1. Init => TypeOK
  <2> SUFFICES ASSUME Init PROVE TypeOK
    OBVIOUS
  <2>1. disk \in [Names -> Inodes \union {None}]
    BY DEF Init, Inodes
  <2>2. bytes \in [Inodes -> [by: Requests \union {None}, whole: BOOLEAN]]
    BY DEF Init
  <2>3. req \in [Requests -> [id: TaskIds \union {NoTask},
                             target: Targets \union {None}, format: Formats]]
    BY DEF Init, Formats
  <2>4. QED
    BY <2>1, <2>2, <2>3 DEF Init, TypeOK, Waiting, Working, Stopped, Answers, Verdicts
<1>2. TypeOK /\ [Next]_vars => TypeOK'
  <2> SUFFICES ASSUME TypeOK, [Next]_vars PROVE TypeOK'
    OBVIOUS
  <2> USE ConstantsAssumption DEF TypeOK, Waiting, Working, Stopped
  <2>1. ASSUME NEW r \in Requests, Arrive(r) PROVE TypeOK'
    <3>1. PICK i \in TaskIds \union {NoTask}, t \in MayTarget[r], f \in Offered :
            req' = [req EXCEPT ![r] = [id |-> i, target |-> t, format |-> f]]
      BY <2>1 DEF Arrive
    <3>2. [id |-> i, target |-> t, format |-> f]
            \in [id: TaskIds \union {NoTask}, target: Targets \union {None}, format: Formats]
      BY <3>1
    <3>3. /\ req' \in [Requests -> [id: TaskIds \union {NoTask},
                                    target: Targets \union {None}, format: Formats]]
          /\ req'[r].target = t /\ \A q \in Requests \ {r} : req'[q] = req[q]
      BY <3>1, <3>2
    <3>4. /\ pc' \in {[pc EXCEPT ![r] = "dialog"], [pc EXCEPT ![r] = "register"]}
          /\ UNCHANGED <<table, flag, committed, disk, bytes, handle, answer, told, crashed>>
      BY <2>1 DEF Arrive, Goto, taskVars, diskVars
    <3>5. /\ pc' \in [Requests -> Waiting \union Working \union Stopped]
          /\ pc'[r] # "writing" /\ \A q \in Requests \ {r} : pc'[q] = pc[q]
      BY <3>4
    <3>6. \A q \in Requests :
            /\ pc'[q] # "idle" => req'[q].target \in MayTarget[q]
            /\ pc'[q] = "writing" => handle'[q] # None
      BY <3>3, <3>4, <3>5
    <3>7. QED
      BY <3>3, <3>4, <3>5, <3>6
  <2>2. ASSUME NEW r \in Requests, DialogPicked(r) \/ DialogDismissed(r) PROVE TypeOK'
    <3>1. CASE DialogPicked(r)
      <4>1. /\ pc' = [pc EXCEPT ![r] = "register"] /\ pc[r] = "dialog"
            /\ UNCHANGED <<req, table, flag, committed, disk, bytes, handle, answer, told,
                           crashed>>
        BY <3>1 DEF DialogPicked, Goto, taskVars, diskVars
      <4>2. pc' \in [Requests -> Waiting \union Working \union Stopped]
        BY <4>1
      <4>3. \A q \in Requests :
              /\ pc'[q] # "idle" => req'[q].target \in MayTarget[q]
              /\ pc'[q] = "writing" => handle'[q] # None
        BY <4>1
      <4>4. QED
        BY <4>1, <4>2, <4>3
    <3>2. CASE DialogDismissed(r)
      BY <3>2 DEF DialogDismissed, Goto, Reply, taskVars, diskVars, Answers
    <3>3. QED
      BY <2>2, <3>1, <3>2
  <2>3. ASSUME NEW r \in Requests, Register(r) PROVE TypeOK'
    <3>1. table' \in [TaskIds -> Requests \union {None}]
      BY <2>3 DEF Register, HasTask
    <3>2. pc' = [pc EXCEPT ![r] = "check"] \/ pc' = [pc EXCEPT ![r] = "render"]
      BY <2>3 DEF Register, Goto
    <3>3. QED
      BY <2>3, <3>1, <3>2 DEF Register, diskVars
  <2>4. ASSUME NEW r \in Requests, CheckCancelled(r) PROVE TypeOK'
    <3>1. answer' \in [Requests -> Answers]
      BY <2>4 DEF CheckCancelled, Reply, Answers
    <3>2. \E l \in {"drop", "render", "precommit"} : pc' = [pc EXCEPT ![r] = l]
      BY <2>4 DEF CheckCancelled, Goto
    <3>3. QED
      BY <2>4, <3>1, <3>2 DEF CheckCancelled, taskVars, diskVars
  <2>5. ASSUME NEW r \in Requests, Precommit(r) PROVE TypeOK'
    <3>1. answer' \in [Requests -> Answers]
      BY <2>5 DEF Precommit, Reply, Answers
    <3>2. \E l \in {"drop", "render"} : pc' = [pc EXCEPT ![r] = l]
      BY <2>5 DEF Precommit, Goto
    <3>3. QED
      BY <2>5, <3>1, <3>2 DEF Precommit, TryCommit, diskVars
  <2>6. ASSUME NEW r \in Requests, RenderFails(r) \/ WriteFails(r) PROVE TypeOK'
    <3>1. answer' \in [Requests -> Answers]
      BY <2>6 DEF RenderFails, WriteFails, FailExport, Reply, Answers
    <3>2. \E l \in {"remove", "drop"} : pc' = [pc EXCEPT ![r] = l]
      BY <2>6 DEF RenderFails, WriteFails, FailExport, Goto
    <3>3. QED
      <4>1. handle' = [handle EXCEPT ![r] = None] \/ handle' = handle
        BY <2>6 DEF RenderFails, WriteFails
      <4>2. handle' \in [Requests -> Inodes \union {None}]
        BY <4>1
      <4>3. \A q \in Requests : pc'[q] = "writing" => handle'[q] # None
        BY <3>2, <4>1
      <4>4. QED
        <5>1. UNCHANGED <<req, table, flag, committed, disk, bytes, told, crashed>>
          BY <2>6 DEF RenderFails, WriteFails, FailExport, taskVars
        <5>2. pc[r] # "idle"
          BY <2>6 DEF RenderFails, WriteFails
        <5>3. QED
          <6>1. pc' \in [Requests -> Waiting \union Working \union Stopped]
            BY <3>2
          <6>2. \A q \in Requests : pc'[q] # "idle" => req'[q].target \in MayTarget[q]
            BY <3>2, <5>1, <5>2
          <6>3. QED
            BY <5>1, <6>1, <6>2, <3>1, <4>2, <4>3
  <2>7. ASSUME NEW r \in Requests, RenderPanics(r) PROVE TypeOK'
    BY <2>7 DEF RenderPanics, Goto, Reply, taskVars, diskVars, Answers
  <2>8. ASSUME NEW r \in Requests, WriteAtomic(r) PROVE TypeOK'
    <3>1. answer' \in [Requests -> Answers]
      BY <2>8 DEF WriteAtomic, Wrote, Reply, Answers
    <3>2. \E l \in {"written", "drop"} : pc' = [pc EXCEPT ![r] = l]
      BY <2>8 DEF WriteAtomic, Wrote, Goto
    <3>3. QED
      <4>1. disk' \in [Names -> Inodes \union {None}]
        BY <2>8 DEF WriteAtomic, Inodes
      <4>2. bytes' \in [Inodes -> [by: Requests \union {None}, whole: BOOLEAN]]
        BY <2>8 DEF WriteAtomic
      <4>3. QED
        BY <2>8, <3>1, <3>2, <4>1, <4>2 DEF WriteAtomic, taskVars
  <2>9. ASSUME NEW r \in Requests, WriteOpen(r) PROVE TypeOK'
    <3>1. req[r].target \in Targets
      BY <2>9 DEF WriteOpen
    <3>2. WriteTo(r) \in Names
      BY <3>1 DEF WriteTo, Part, File, Names
    <3>3. PICK inode \in Inodes :
             /\ inode # None
             /\ disk' = [disk EXCEPT ![WriteTo(r)] = inode]
             /\ bytes' = [bytes EXCEPT ![inode] = [by |-> r, whole |-> FALSE]]
             /\ handle' = [handle EXCEPT ![r] = inode]
      BY <2>9, <3>2 DEF WriteOpen, Inodes
    <3>4. QED
      BY <2>9, <3>2, <3>3 DEF WriteOpen, Goto, taskVars
  <2>10. ASSUME NEW r \in Requests, WriteClose(r) PROVE TypeOK'
    <3>1. answer' \in [Requests -> Answers]
      BY <2>10 DEF WriteClose, Wrote, Reply, Answers
    <3>2. \E l \in {"written", "drop"} : pc' = [pc EXCEPT ![r] = l]
      BY <2>10 DEF WriteClose, Wrote, Goto
    <3>3. QED
      BY <2>10, <3>1, <3>2 DEF WriteClose, taskVars
  <2>11. ASSUME NEW r \in Requests, CommitPoint(r) PROVE TypeOK'
    <3>1. answer' \in [Requests -> Answers]
      BY <2>11 DEF CommitPoint, RemoveAfterCommit, Reply, Answers
    <3>2. \E l \in {"rename", "remove", "removeTwice"} : pc' = [pc EXCEPT ![r] = l]
      BY <2>11 DEF CommitPoint, RemoveAfterCommit, Goto
    <3>3. QED
      BY <2>11, <3>1, <3>2 DEF CommitPoint, TryCommit, diskVars
  <2>12. ASSUME NEW r \in Requests, Publish(r) PROVE TypeOK'
    <3>1. Part(r) \in Names /\ File(r) \in Names
      BY <2>12 DEF Publish, Part, File, Names
    <3>2. disk' \in [Names -> Inodes \union {None}]
      BY <2>12, <3>1 DEF Publish
    <3>3. QED
      BY <2>12, <3>2 DEF Publish, Goto, Reply, taskVars, Answers
  <2>13. ASSUME NEW r \in Requests, PublishFails(r) PROVE TypeOK'
    BY <2>13 DEF PublishFails, RemoveAfterCommit, Goto, Reply, taskVars, diskVars, Answers
  <2>14. ASSUME NEW r \in Requests, RemovePart(r) PROVE TypeOK'
    BY <2>14 DEF RemovePart, Goto, taskVars
  <2>15. ASSUME NEW r \in Requests, DropGuard(r) PROVE TypeOK'
    BY <2>15 DEF DropGuard, Goto, diskVars
  <2>16. ASSUME NEW i \in TaskIds, Cancel(i) PROVE TypeOK'
    <3>1. told' \in [Requests -> SUBSET Verdicts]
      BY <2>16 DEF Cancel, Tell, Verdicts
    <3>2. flag' \in [Requests -> BOOLEAN]
      BY <2>16 DEF Cancel
    <3>3. QED
      BY <2>16, <3>1, <3>2 DEF Cancel, diskVars
  <2>17. ASSUME Crash PROVE TypeOK'
    BY <2>17 DEF Crash, diskVars
  <2>18. CASE UNCHANGED vars
    BY <2>18 DEF vars
  <2>19. QED
    BY <2>1, <2>2, <2>3, <2>4, <2>5, <2>6, <2>7, <2>8, <2>9, <2>10, <2>11, <2>12,
       <2>13, <2>14, <2>15, <2>16, <2>17, <2>18 DEF Next, Handle
<1>3. QED
  BY <1>1, <1>2, PTL DEF Spec
-----------------------------------------------------------------------------
(* Cancel and commit decide each task once.                                *)

\* Decided is an invariant: the table lock makes try_commit and cancel
\* exclude each other, which is what keeps flag and committed apart.
LEMMA DecidedOnce == Spec => []Decided
<1>1. Init => Decided
  BY DEF Init, Decided, Waiting
<1>2. TypeOK /\ Decided /\ [Next]_vars => Decided'
  <2> SUFFICES ASSUME TypeOK, Decided, [Next]_vars PROVE Decided'
    OBVIOUS
  <2> USE DEF Decided, Waiting, HasTask, Staged
  <2> USE TypeOK DEF TypeOK
  <2>1. ASSUME NEW r \in Requests, Arrive(r) PROVE Decided'
    BY <2>1 DEF Arrive, Goto, taskVars, diskVars
  <2>2. ASSUME NEW r \in Requests, DialogPicked(r) \/ DialogDismissed(r) PROVE Decided'
    BY <2>2 DEF DialogPicked, DialogDismissed, Goto, Reply, taskVars, diskVars
  <2>3. ASSUME NEW r \in Requests, Register(r) PROVE Decided'
    BY <2>3 DEF Register, Goto, diskVars
  <2>4. ASSUME NEW r \in Requests, CheckCancelled(r) PROVE Decided'
    BY <2>4 DEF CheckCancelled, Goto, Reply, taskVars, diskVars
  <2>5. ASSUME NEW r \in Requests, Precommit(r) PROVE Decided'
    <3>1. CASE flag[r]
      BY <2>5, <3>1 DEF Precommit, TryCommit, Goto, Reply, diskVars
    <3>2. CASE ~flag[r]
      <4>1. committed' = [committed EXCEPT ![r] = TRUE]
        BY <2>5, <3>2 DEF Precommit, TryCommit
      <4>2. pc' = [pc EXCEPT ![r] = "render"]
        BY <2>5, <3>2 DEF Precommit, Goto
      <4>3. UNCHANGED <<req, flag, answer, told>>
        BY <2>5, <3>2 DEF Precommit, TryCommit
      <4>4. pc[r] = "precommit"
        BY <2>5 DEF Precommit
      <4>5. QED
        BY <3>2, <4>1, <4>2, <4>3, <4>4
    <3>3. QED
      BY <3>1, <3>2
  <2>6. ASSUME NEW r \in Requests, RenderFails(r) \/ WriteFails(r) PROVE Decided'
    BY <2>6 DEF RenderFails, WriteFails, FailExport, Goto, Reply, taskVars
  <2>7. ASSUME NEW r \in Requests, RenderPanics(r) PROVE Decided'
    BY <2>7 DEF RenderPanics, Goto, Reply, taskVars, diskVars
  <2>8. ASSUME NEW r \in Requests, WriteAtomic(r) \/ WriteClose(r) PROVE Decided'
    BY <2>8 DEF WriteAtomic, WriteClose, Wrote, Goto, Reply, taskVars
  <2>9. ASSUME NEW r \in Requests, WriteOpen(r) PROVE Decided'
    BY <2>9 DEF WriteOpen, Goto, taskVars
  <2>10. ASSUME NEW r \in Requests, CommitPoint(r) PROVE Decided'
    <3>1. CASE flag[r]
      BY <2>10, <3>1 DEF CommitPoint, TryCommit, RemoveAfterCommit, Goto, Reply, diskVars
    <3>2. CASE ~flag[r]
      <4>1. committed' = [committed EXCEPT ![r] = TRUE]
        BY <2>10, <3>2 DEF CommitPoint, TryCommit
      <4>2. pc' = [pc EXCEPT ![r] = "rename"]
        BY <2>10, <3>2 DEF CommitPoint, Goto
      <4>3. UNCHANGED <<req, flag, answer, told>>
        BY <2>10, <3>2 DEF CommitPoint, TryCommit
      <4>4. pc[r] = "written"
        BY <2>10 DEF CommitPoint
      <4>5. QED
        BY <3>2, <4>1, <4>2, <4>3, <4>4
    <3>3. QED
      BY <3>1, <3>2
  <2>11. ASSUME NEW r \in Requests, Publish(r) \/ PublishFails(r) PROVE Decided'
    BY <2>11 DEF Publish, PublishFails, RemoveAfterCommit, Goto, Reply, taskVars, diskVars
  <2>12. ASSUME NEW r \in Requests, RemovePart(r) \/ DropGuard(r) PROVE Decided'
    BY <2>12 DEF RemovePart, DropGuard, Goto, taskVars, diskVars
  <2>13. ASSUME NEW i \in TaskIds, Cancel(i) PROVE Decided'
    <3>1. CASE table[i] = None
      BY <2>13, <3>1 DEF Cancel, Tell, diskVars
    <3>2. CASE table[i] # None /\ committed[table[i]]
      BY <2>13, <3>2 DEF Cancel, Tell, diskVars
    <3>3. CASE table[i] # None /\ ~committed[table[i]]
      BY <2>13, <3>3 DEF Cancel, Tell, diskVars
    <3>4. QED
      BY <3>1, <3>2, <3>3
  <2>14. ASSUME Crash PROVE Decided'
    BY <2>14 DEF Crash, diskVars
  <2>15. CASE UNCHANGED vars
    BY <2>15 DEF vars
  <2>16. QED
    BY <2>1, <2>2, <2>3, <2>4, <2>5, <2>6, <2>7, <2>8, <2>9, <2>10, <2>11, <2>12,
       <2>13, <2>14, <2>15 DEF Next, Handle
<1>3. QED
  BY <1>1, <1>2, TypeCorrect, PTL DEF Spec

\* A cancel answered "cancelling" is final, and only such a cancel makes a request
\* answer "cancelled".
THEOREM CancelFinal == Spec => []CancelIsFinal
<1>1. Decided => CancelIsFinal
  BY DEF Decided, CancelIsFinal
<1>2. QED
  BY <1>1, DecidedOnce, PTL
-----------------------------------------------------------------------------
(* The handler, the table and the cancel route implement CommitRace.       *)

\* A step that leaves flags, phases and answers alone is invisible.
LEMMA QuietStep ==
  ASSUME UNCHANGED <<req, flag, committed, answer, told>>
  PROVE  UNCHANGED Race!vars
BY DEF Race!vars, outcomeBar, toldBar, replyBar, HasTask

\* Answering a request is Race!Answer, or invisible if it has no task.
LEMMA AnswerStep ==
  ASSUME TypeOK, NEW r \in Requests, NEW v \in {"ok", "cancelled", "error"},
         UNCHANGED <<req, flag, committed, told>>,
         answer' = [answer EXCEPT ![r] = v], answer[r] = "none",
         v = "ok" /\ HasTask(r) => committed[r],
         v = "cancelled" => flag[r] /\ ~committed[r]
  PROVE  [Race!Next]_(Race!vars)
<1>1. outcomeBar' = outcomeBar /\ toldBar' = toldBar
  BY DEF outcomeBar, toldBar
<1>2. CASE HasTask(r)
  <2>1. replyBar' = [replyBar EXCEPT ![r] = v] /\ replyBar[r] = "none"
    BY <1>2 DEF replyBar, HasTask, TypeOK
  <2>2. /\ v = "ok" => outcomeBar[r] = "committed"
        /\ v = "cancelled" => outcomeBar[r] = "cancelled"
    BY <1>2 DEF outcomeBar
  <2>3. Race!Answer(r, v)
    BY <1>1, <2>1, <2>2 DEF Race!Answer
  <2>4. v \in Race!Replies \ {"none"}
    BY DEF Race!Replies
  <2>5. QED
    BY <2>3, <2>4 DEF Race!Next
<1>3. CASE ~HasTask(r)
  <2>1. replyBar' = replyBar
    BY <1>3 DEF replyBar, HasTask, TypeOK
  <2>2. QED
    BY <1>1, <2>1 DEF Race!vars
<1>4. QED
  BY <1>2, <1>3

\* Passing the commit point with the flag down is Race!Commit.
LEMMA CommitStep ==
  ASSUME TypeOK, NEW r \in Requests, ~flag[r], ~committed[r],
         committed' = [committed EXCEPT ![r] = TRUE],
         UNCHANGED <<req, flag, answer, told>>
  PROVE  Race!Next
<1>1. outcomeBar' = [outcomeBar EXCEPT ![r] = "committed"] /\ outcomeBar[r] = "undecided"
  BY DEF outcomeBar, TypeOK
<1>2. toldBar' = toldBar /\ replyBar' = replyBar
  BY DEF toldBar, replyBar, HasTask
<1>3. QED
  BY <1>1, <1>2 DEF Race!Commit, Race!Next

\* try_commit with the flag up commits nothing.
LEMMA RefusedCommit ==
  ASSUME TypeOK, NEW r \in Requests, TryCommit(r), flag[r], ~committed[r]
  PROVE  UNCHANGED committed
BY DEF TryCommit, TypeOK

\* Every cancel is one of the two cancels of the race, or finds nobody.
LEMMA CancelStep ==
  ASSUME TypeOK, Decided, NEW i \in TaskIds, Cancel(i)
  PROVE  [Race!Next]_(Race!vars)
<1>1. replyBar' = replyBar
  BY DEF Cancel, replyBar, HasTask, diskVars
<1>2. CASE table[i] = None
  <2>1. outcomeBar' = outcomeBar
    BY <1>2 DEF Cancel, outcomeBar
  <2>2. toldBar' = toldBar
    BY <1>2 DEF Cancel, Tell, toldBar
  <2>3. QED
    BY <1>1, <2>1, <2>2 DEF Race!vars
<1>3. CASE table[i] # None /\ committed[table[i]]
  <2> DEFINE r == table[i]
  <2>1. r \in Requests /\ outcomeBar[r] = "committed" /\ outcomeBar' = outcomeBar
    BY <1>3 DEF Cancel, outcomeBar, TypeOK
  <2>2. toldBar' = [toldBar EXCEPT ![r] = @ \union {"finished"}]
    <3>1. told' = [q \in Requests |-> IF q = r THEN told[q] \union {"finished"} ELSE told[q]]
      BY <1>3, <2>1 DEF Cancel, Tell
    <3>2. \A q \in Requests : (told[q] \union {"finished"}) \ {"unknown"}
                             = (told[q] \ {"unknown"}) \union {"finished"}
      OBVIOUS
    <3>3. QED
      BY <2>1, <3>1, <3>2 DEF toldBar
  <2>3. QED
    BY <1>1, <2>1, <2>2 DEF Race!CancelLoses, Race!Next
<1>4. CASE table[i] # None /\ ~committed[table[i]]
  <2> DEFINE r == table[i]
  <2>1. r \in Requests /\ flag' = [flag EXCEPT ![r] = TRUE] /\ UNCHANGED committed
    BY <1>4 DEF Cancel, TypeOK
  <2>2. /\ outcomeBar[r] \in {"undecided", "cancelled"}
        /\ outcomeBar' = [outcomeBar EXCEPT ![r] = "cancelled"]
    BY <1>4, <2>1 DEF outcomeBar, TypeOK
  <2>3. toldBar' = [toldBar EXCEPT ![r] = @ \union {"cancelling"}]
    <3>1. told' = [q \in Requests |-> IF q = r THEN told[q] \union {"cancelling"} ELSE told[q]]
      BY <1>4, <2>1 DEF Cancel, Tell
    <3>2. \A q \in Requests : (told[q] \union {"cancelling"}) \ {"unknown"}
                             = (told[q] \ {"unknown"}) \union {"cancelling"}
      OBVIOUS
    <3>3. QED
      BY <2>1, <3>1, <3>2 DEF toldBar
  <2>4. QED
    BY <1>1, <2>1, <2>2, <2>3 DEF Race!CancelWins, Race!Next
<1>5. QED
  BY <1>2, <1>3, <1>4

\* The whole export path refines the race between one commit and its cancels.
THEOREM RefinesRace == Spec => RaceSpec
<1>1. Init => Race!Init
  BY DEF Init, Race!Init, outcomeBar, toldBar, replyBar, HasTask
<1>2. TypeOK /\ Decided /\ [Next]_vars => [Race!Next]_(Race!vars)
  <2> SUFFICES ASSUME TypeOK, Decided, [Next]_vars PROVE [Race!Next]_(Race!vars)
    OBVIOUS
  <2>1. ASSUME NEW r \in Requests, Arrive(r) PROVE UNCHANGED Race!vars
    <3>1. pc[r] = "idle" /\ answer[r] = "none"
      BY <2>1 DEF Arrive, Decided, Waiting
    <3>2. outcomeBar' = outcomeBar /\ toldBar' = toldBar
      BY <2>1 DEF Arrive, taskVars, outcomeBar, toldBar
    <3>3. replyBar' = replyBar
      BY <2>1, <3>1 DEF Arrive, replyBar, HasTask, TypeOK
    <3>4. QED
      BY <3>2, <3>3 DEF Race!vars
  <2>2. ASSUME NEW r \in Requests, DialogDismissed(r) PROVE UNCHANGED Race!vars
    <3>1. answer[r] = "none"
      BY <2>2 DEF DialogDismissed, Decided, Waiting
    <3>2. outcomeBar' = outcomeBar /\ toldBar' = toldBar
      BY <2>2 DEF DialogDismissed, taskVars, outcomeBar, toldBar
    <3>3. replyBar' = replyBar
      BY <2>2, <3>1 DEF DialogDismissed, Reply, replyBar, HasTask, TypeOK
    <3>4. QED
      BY <3>2, <3>3 DEF Race!vars
  <2>3. ASSUME NEW r \in Requests,
               DialogPicked(r) \/ Register(r) \/ WriteOpen(r) \/ RemovePart(r) \/ DropGuard(r)
        PROVE UNCHANGED Race!vars
    BY <2>3, QuietStep DEF DialogPicked, Register, WriteOpen, RemovePart, DropGuard, taskVars
  <2>4. ASSUME NEW r \in Requests, CheckCancelled(r) PROVE [Race!Next]_(Race!vars)
    <3>1. CASE flag[r]
      BY <2>4, <3>1, AnswerStep DEF CheckCancelled, Reply, taskVars, Decided
    <3>2. CASE ~flag[r]
      BY <2>4, <3>2, QuietStep DEF CheckCancelled, taskVars
    <3>3. QED
      BY <3>1, <3>2
  <2>5. ASSUME NEW r \in Requests, Precommit(r) \/ CommitPoint(r)
        PROVE [Race!Next]_(Race!vars)
    <3>1. ~committed[r] /\ answer[r] = "none" /\ TryCommit(r)
      BY <2>5 DEF Precommit, CommitPoint, Decided
    <3>2. UNCHANGED <<req, flag, told>>
      BY <2>5, <3>1 DEF Precommit, CommitPoint, TryCommit
    <3>3. CASE flag[r]
      <4>1. answer' = [answer EXCEPT ![r] = "cancelled"]
        BY <2>5, <3>3 DEF Precommit, CommitPoint, Reply
      <4>2. QED
        BY <3>1, <3>2, <3>3, <4>1, RefusedCommit, AnswerStep
    <3>4. CASE ~flag[r]
      <4>1. UNCHANGED answer /\ committed' = [committed EXCEPT ![r] = TRUE]
        BY <2>5, <3>4 DEF Precommit, CommitPoint, TryCommit
      <4>2. QED
        BY <3>1, <3>2, <3>4, <4>1, CommitStep
    <3>5. QED
      BY <3>3, <3>4
  <2>6. ASSUME NEW r \in Requests,
               RenderFails(r) \/ RenderPanics(r) \/ WriteFails(r) \/ PublishFails(r)
        PROVE [Race!Next]_(Race!vars)
    <3>1. /\ answer[r] = "none"
          /\ answer' = [answer EXCEPT ![r] = "error"]
          /\ UNCHANGED <<req, flag, committed, told>>
      BY <2>6 DEF RenderFails, RenderPanics, WriteFails, PublishFails, FailExport, Reply,
         taskVars, Decided
    <3>2. QED
      BY <3>1, AnswerStep
  <2>7. ASSUME NEW r \in Requests, WriteAtomic(r) \/ WriteClose(r)
        PROVE [Race!Next]_(Race!vars)
    <3>1. answer[r] = "none" /\ UNCHANGED <<req, flag, committed, told>>
      BY <2>7 DEF WriteAtomic, WriteClose, taskVars, Decided
    <3>2. CASE Staged(r)
      BY <2>7, <3>1, <3>2, QuietStep DEF WriteAtomic, WriteClose, Wrote
    <3>3. CASE ~Staged(r)
      <4>1. answer' = [answer EXCEPT ![r] = "ok"]
        BY <2>7, <3>3 DEF WriteAtomic, WriteClose, Wrote, Reply
      <4>2. HasTask(r) => committed[r]
        BY <2>7, <3>3 DEF WriteAtomic, WriteClose, Staged, Decided, TypeOK
      <4>3. QED
        BY <3>1, <4>1, <4>2, AnswerStep
    <3>4. QED
      BY <3>2, <3>3
  <2>8. ASSUME NEW r \in Requests, Publish(r) PROVE [Race!Next]_(Race!vars)
    <3>1. /\ answer[r] = "none" /\ committed[r]
          /\ answer' = [answer EXCEPT ![r] = "ok"]
          /\ UNCHANGED <<req, flag, committed, told>>
      BY <2>8 DEF Publish, Reply, taskVars, Decided
    <3>2. QED
      BY <3>1, AnswerStep
  <2>9. ASSUME NEW i \in TaskIds, Cancel(i) PROVE [Race!Next]_(Race!vars)
    BY <2>9, CancelStep
  <2>10. ASSUME Crash PROVE UNCHANGED Race!vars
    BY <2>10, QuietStep DEF Crash
  <2>11. CASE UNCHANGED vars
    BY <2>11, QuietStep DEF vars
  <2>12. QED
    BY <2>1, <2>2, <2>3, <2>4, <2>5, <2>6, <2>7, <2>8, <2>9, <2>10, <2>11 DEF Next, Handle
<1>3. QED
  BY <1>1, <1>2, TypeCorrect, DecidedOnce, PTL DEF Spec, RaceSpec, Race!Spec
-----------------------------------------------------------------------------
(* No staging file is left behind.                                         *)

\* The part names and the file names of all targets are different names.
LEMMA NamesDiffer ==
  ASSUME NEW t, NEW u
  PROVE  <<"part", t>> # <<"file", u>> /\ (<<"part", t>> = <<"part", u>> => t = u)
OBVIOUS

\* Every part on disk belongs to a request that will still rename or remove it.
LEMMA PartsOwned == Spec => []PartOwned
<1>1. Init => PartOwned
  BY DEF Init, PartOwned
<1>2. TypeOK /\ Decided /\ PartOwned /\ [Next]_vars => PartOwned'
  <2> SUFFICES ASSUME TypeOK, Decided, PartOwned, [Next]_vars PROVE PartOwned'
    OBVIOUS
  <2> USE DEF PartOwned, OwnsPart, Staged, HasTask
  <2>1. ASSUME NEW r \in Requests,
               \/ Arrive(r) \/ DialogPicked(r) \/ DialogDismissed(r) \/ Register(r)
               \/ CheckCancelled(r) \/ Precommit(r) \/ RenderFails(r) \/ RenderPanics(r)
               \/ WriteFails(r) \/ CommitPoint(r) \/ PublishFails(r) \/ DropGuard(r)
        PROVE PartOwned'
    <3>1. UNCHANGED <<disk, crashed>>
      BY <2>1 DEF Arrive, DialogPicked, DialogDismissed, Register, CheckCancelled, Precommit,
         RenderFails, RenderPanics, WriteFails, FailExport, CommitPoint, PublishFails,
         DropGuard, diskVars
    <3>2. \A q \in Requests \ {r} : pc'[q] = pc[q] /\ req'[q] = req[q]
      BY <2>1 DEF Arrive, DialogPicked, DialogDismissed, Register, CheckCancelled, Precommit,
         RenderFails, RenderPanics, WriteFails, FailExport, CommitPoint, RemoveAfterCommit,
         PublishFails, DropGuard, Goto, TypeOK
    <3>3. pc'[r] # "dead"
      BY <2>1 DEF Arrive, DialogPicked, DialogDismissed, Register, CheckCancelled, Precommit,
         RenderFails, RenderPanics, WriteFails, FailExport, CommitPoint, RemoveAfterCommit,
         PublishFails, DropGuard, Goto, TypeOK
    <3>4. OwnsPart(r) => OwnsPart(r)' /\ req'[r] = req[r]
      BY <2>1 DEF Arrive, DialogPicked, DialogDismissed, Register, CheckCancelled, Precommit,
         RenderFails, RenderPanics, WriteFails, FailExport, CommitPoint, RemoveAfterCommit,
         PublishFails, DropGuard, Goto, TypeOK
    <3>5. QED
      BY <3>1, <3>2, <3>3, <3>4
  <2>2. ASSUME NEW r \in Requests, WriteAtomic(r) \/ WriteOpen(r) \/ WriteClose(r)
        PROVE PartOwned'
    <3>1. pc' \in {[pc EXCEPT ![r] = "written"], [pc EXCEPT ![r] = "writing"],
                   [pc EXCEPT ![r] = "drop"]}
      BY <2>2 DEF WriteAtomic, WriteOpen, WriteClose, Wrote, Goto
    <3>2. UNCHANGED <<req, crashed>>
      BY <2>2 DEF WriteAtomic, WriteOpen, WriteClose
    <3>3. CASE Staged(r)
      <4>1. OwnsPart(r)'
        BY <2>2, <3>2, <3>3 DEF WriteAtomic, WriteOpen, WriteClose, Wrote, Goto, TypeOK
      <4>2. \A t \in Targets : t # req[r].target => disk'[<<"part", t>>] = disk[<<"part", t>>]
        <5>1. \A n \in Names : n # Part(r) => disk'[n] = disk[n]
          BY <2>2, <3>3 DEF WriteAtomic, WriteOpen, WriteClose, WriteTo, TypeOK
        <5>2. QED
          BY <5>1, NamesDiffer DEF Part, Names
      <4>3. QED
        <5>1. \A q \in Requests : pc'[q] # "dead" \/ pc[q] = "dead"
          BY <3>1 DEF TypeOK
        <5>2. \A q \in Requests \ {r} : OwnsPart(q) => OwnsPart(q)'
          BY <3>1, <3>2 DEF TypeOK
        <5>3. QED
          BY <3>2, <4>1, <4>2, <5>1, <5>2
    <3>4. CASE ~Staged(r)
      <4>1. \A t \in Targets : disk'[<<"part", t>>] = disk[<<"part", t>>]
        <5>1. \A n \in Names : n # File(r) => disk'[n] = disk[n]
          BY <2>2, <3>4 DEF WriteAtomic, WriteOpen, WriteClose, WriteTo, TypeOK
        <5>2. QED
          BY <5>1, NamesDiffer DEF File, Names
      <4>2. ~OwnsPart(r)
        BY <3>4
      <4>3. \A q \in Requests : pc'[q] # "dead" \/ pc[q] = "dead"
        BY <3>1 DEF TypeOK
      <4>4. \A q \in Requests \ {r} : pc'[q] = pc[q]
        BY <3>1 DEF TypeOK
      <4>5. \A q \in Requests : OwnsPart(q) => OwnsPart(q)'
        BY <3>2, <4>2, <4>4
      <4>6. QED
        BY <3>2, <4>1, <4>3, <4>5
    <3>5. QED
      BY <3>3, <3>4
  <2>3. ASSUME NEW r \in Requests, Publish(r) \/ RemovePart(r) PROVE PartOwned'
    <3>1. UNCHANGED <<req, crashed>> /\ \E l \in {"drop", "remove"} : pc' = [pc EXCEPT ![r] = l]
      BY <2>3 DEF Publish, RemovePart, Goto
    <3>2. req[r].target \in Targets
      BY <2>3, ConstantsAssumption DEF Publish, RemovePart, TypeOK
    <3>3. \A t \in Targets :
            disk'[<<"part", t>>] =
              IF t = req[r].target THEN None ELSE disk[<<"part", t>>]
      <4>1. Part(r) \in Names /\ disk'[Part(r)] = None
        BY <2>3, <3>2 DEF Publish, RemovePart, Part, TypeOK, Names
      <4>2. \A n \in Names : n \notin {Part(r), File(r)} => disk'[n] = disk[n]
        BY <2>3 DEF Publish, RemovePart, TypeOK
      <4>3. \A t \in Targets : t # req[r].target => <<"part", t>> \notin {Part(r), File(r)}
        BY NamesDiffer DEF Part, File
      <4>4. QED
        BY <4>1, <4>2, <4>3 DEF Part, Names
    <3>4. QED
      BY <3>1, <3>2, <3>3 DEF TypeOK
  <2>4. ASSUME NEW i \in TaskIds, Cancel(i) PROVE PartOwned'
    BY <2>4 DEF Cancel, diskVars
  <2>5. ASSUME Crash PROVE PartOwned'
    BY <2>5 DEF Crash
  <2>6. CASE UNCHANGED vars
    BY <2>6 DEF vars
  <2>7. QED
    BY <2>1, <2>2, <2>3, <2>4, <2>5, <2>6 DEF Next, Handle
<1>3. QED
  BY <1>1, <1>2, TypeCorrect, DecidedOnce, PTL DEF Spec

\* Without a crash, once the requests are over no part is left on disk.
THEOREM NoPartSurvives == Spec => []NoStagingLeft
<1>1. TypeOK /\ PartOwned => NoStagingLeft
  BY DEF PartOwned, OwnsPart, NoStagingLeft, Waiting, Stopped
<1>2. QED
  BY <1>1, TypeCorrect, PartsOwned, PTL
-----------------------------------------------------------------------------
(* One export with a target of its own.                                    *)

Old == [by |-> None, whole |-> TRUE]
Whole(r) == [by |-> r, whole |-> TRUE]

\* The inodes that can have the names of t.
InodesOf(t) == {t} \union {q \in Requests : req[q].target = t}

\* Only who was given a target comes near its names and its inodes.
Sorted ==
  /\ \A q \in Requests : pc[q] = "idle" => req[q].target = None /\ ~HasTask(q) /\ handle[q] = None
  /\ \A t \in Targets : /\ disk[<<"file", t>>] \in InodesOf(t) \union {None}
                        /\ disk[<<"part", t>>] \in (InodesOf(t) \ {t}) \union {None}
  /\ \A q \in Requests : handle[q] # None => handle[q] \in InodesOf(req[q].target)
  /\ \A t \in Targets : (\A q \in Requests : req[q].target # t) => bytes[t] = Old

\* Only tasks are in the table, and so only tasks are cancelled.
TasksOnly ==
  /\ \A i \in TaskIds : table[i] # None => HasTask(table[i])
  /\ \A q \in Requests : flag[q] => HasTask(q)

\* A task with its target to itself: before its commit point it has not touched what was
\* there; if it is staged, it never does but by its rename.
Held(r) ==
  LET t == req[r].target IN
  /\ ~committed[r] => disk[<<"file", t>>] # r
  /\ Staged(r) \/ ~committed[r] => bytes[t] = Old
  /\ Staged(r) =>
       /\ disk[<<"file", t>>] = r => bytes[r] = Whole(r) /\ pc[r] \in {"drop"} \union Stopped
       /\ pc[r] = "writing" => handle[r] = r
       /\ pc[r] \in {"writing", "written", "rename"} => disk[<<"part", t>>] = r
       /\ pc[r] \in {"written", "rename"} => bytes[r] = Whole(r)
       /\ answer[r] = "ok" => disk[<<"file", t>>] = r

Alone(r) == pc[r] # "idle" /\ HasTask(r) /\ HasTargetAlone(r)
AloneHeld == \A r \in Requests : Alone(r) => Held(r)

\* The steps of the handler of q.
Acts(q) == Arrive(q) \/ DialogPicked(q) \/ DialogDismissed(q) \/ Handle(q)

\* Those that touch no file.
Plain(q) ==
  \/ Arrive(q) \/ DialogPicked(q) \/ DialogDismissed(q) \/ Register(q) \/ CheckCancelled(q)
  \/ Precommit(q) \/ RenderFails(q) \/ RenderPanics(q) \/ CommitPoint(q) \/ PublishFails(q)
  \/ DropGuard(q)

LEMMA PlainStep ==
  ASSUME NEW q \in Requests, Plain(q)
  PROVE  UNCHANGED diskVars
BY DEF Plain, Arrive, DialogPicked, DialogDismissed, Register, CheckCancelled, Precommit,
   RenderFails, RenderPanics, FailExport, CommitPoint, PublishFails, DropGuard, diskVars

\* What a handler leaves alone of the others.
LEMMA OthersKeep ==
  ASSUME TypeOK, NEW q \in Requests, Acts(q), NEW r \in Requests, r # q
  PROVE  /\ pc'[r] = pc[r] /\ req'[r] = req[r] /\ committed'[r] = committed[r]
         /\ handle'[r] = handle[r] /\ answer'[r] = answer[r]
<1> USE DEF TypeOK, Goto, Reply, taskVars, diskVars
<1>1. CASE Arrive(q) \/ DialogPicked(q) \/ DialogDismissed(q)
  BY <1>1 DEF Arrive, DialogPicked, DialogDismissed
<1>2. CASE Register(q) \/ CheckCancelled(q) \/ Precommit(q)
  BY <1>2 DEF Register, CheckCancelled, Precommit, TryCommit
<1>3. CASE RenderFails(q) \/ RenderPanics(q) \/ WriteFails(q)
  BY <1>3 DEF RenderFails, RenderPanics, WriteFails, FailExport
<1>4. CASE WriteAtomic(q) \/ WriteOpen(q) \/ WriteClose(q)
  BY <1>4 DEF WriteAtomic, WriteOpen, WriteClose, Wrote
<1>5. CASE CommitPoint(q) \/ Publish(q) \/ PublishFails(q)
  BY <1>5 DEF CommitPoint, TryCommit, Publish, PublishFails, RemoveAfterCommit
<1>6. CASE RemovePart(q) \/ DropGuard(q)
  BY <1>6 DEF RemovePart, DropGuard
<1>7. QED
  BY <1>1, <1>2, <1>3, <1>4, <1>5, <1>6 DEF Acts, Handle

\* A handler is told its target once, and never becomes idle again.
LEMMA ReqStays ==
  ASSUME TypeOK, NEW q \in Requests, Acts(q)
  PROVE  /\ pc'[q] # "idle" /\ flag' = flag
         /\ pc[q] # "idle" => req' = req /\ ~Arrive(q)
<1> USE DEF TypeOK, Goto, taskVars, diskVars
<1>1. CASE Arrive(q) \/ DialogPicked(q) \/ DialogDismissed(q)
  BY <1>1 DEF Arrive, DialogPicked, DialogDismissed
<1>2. CASE Register(q) \/ CheckCancelled(q) \/ Precommit(q)
  BY <1>2 DEF Register, CheckCancelled, Precommit, TryCommit, Arrive
<1>3. CASE RenderFails(q) \/ RenderPanics(q) \/ WriteFails(q)
  BY <1>3 DEF RenderFails, RenderPanics, WriteFails, FailExport, Arrive
<1>4. CASE WriteAtomic(q) \/ WriteOpen(q) \/ WriteClose(q)
  BY <1>4 DEF WriteAtomic, WriteOpen, WriteClose, Wrote, Arrive
<1>5. CASE CommitPoint(q) \/ Publish(q) \/ PublishFails(q)
  BY <1>5 DEF CommitPoint, TryCommit, Publish, PublishFails, RemoveAfterCommit, Arrive
<1>6. CASE RemovePart(q) \/ DropGuard(q)
  BY <1>6 DEF RemovePart, DropGuard, Arrive
<1>7. QED
  BY <1>1, <1>2, <1>3, <1>4, <1>5, <1>6 DEF Acts, Handle

\* A handler writes under the names of its target and into the inodes that can have them.
LEMMA Ground ==
  ASSUME TypeOK, Sorted, NEW q \in Requests, Acts(q), ~Arrive(q),
         NEW t, t = req[q].target
  PROVE  /\ t \in Targets
         /\ \A u \in Targets : u # t => /\ disk'[<<"file", u>>] = disk[<<"file", u>>]
                                        /\ disk'[<<"part", u>>] = disk[<<"part", u>>]
         /\ disk'[<<"file", t>>] \in InodesOf(t) \union {None}
         /\ disk'[<<"part", t>>] \in (InodesOf(t) \ {t}) \union {None}
         /\ \A i \in Inodes : i \notin InodesOf(t) => bytes'[i] = bytes[i]
         /\ handle'[q] # None => handle'[q] \in InodesOf(t)
<1>1. t \in Targets /\ pc[q] # "idle" /\ req' = req
  <2>1. pc[q] # "idle"
    BY DEF Acts, Handle, DialogPicked, DialogDismissed, Register, CheckCancelled, Precommit,
       RenderFails, RenderPanics, WriteFails, WriteAtomic, WriteOpen, WriteClose, CommitPoint,
       Publish, PublishFails, RemovePart, DropGuard
  <2>2. QED
    BY <2>1, ReqStays, ConstantsAssumption DEF TypeOK
<1>2. /\ <<"file", t>> \in Names /\ <<"part", t>> \in Names
      /\ <<"file", t>> # <<"part", t>>
      /\ \A u \in Targets : u # t => /\ <<"file", u>> \in Names /\ <<"part", u>> \in Names
                                     /\ <<"file", u>> \notin {<<"file", t>>, <<"part", t>>}
                                     /\ <<"part", u>> \notin {<<"file", t>>, <<"part", t>>}
  BY <1>1 DEF Names
<1>3. /\ disk[<<"file", t>>] \in InodesOf(t) \union {None}
      /\ disk[<<"part", t>>] \in (InodesOf(t) \ {t}) \union {None}
      /\ handle[q] # None => handle[q] \in InodesOf(t)
      /\ q \in InodesOf(t) \ {t} /\ q \in Inodes
      /\ q # None
  BY <1>1, ConstantsAssumption DEF Sorted, InodesOf, Inodes
<1>4. CASE Plain(q)
  BY <1>1, <1>3, <1>4, PlainStep DEF diskVars
<1>5. WriteTo(q) \in {<<"file", t>>, <<"part", t>>}
  BY DEF WriteTo, Part, File
<1>6. CASE WriteAtomic(q)
  <2>1. /\ disk' = [disk EXCEPT ![WriteTo(q)] = q]
        /\ bytes' = [bytes EXCEPT ![q] = Whole(q)]
        /\ handle' = handle
    BY <1>6 DEF WriteAtomic, Whole
  <2>2. QED
    BY <1>1, <1>2, <1>3, <1>5, <2>1 DEF TypeOK
<1>7. CASE WriteOpen(q)
  <2> DEFINE inode == IF disk[WriteTo(q)] = None THEN q ELSE disk[WriteTo(q)]
  <2>1. /\ disk' = [disk EXCEPT ![WriteTo(q)] = inode]
        /\ bytes' = [bytes EXCEPT ![inode] = [by |-> q, whole |-> FALSE]]
        /\ handle' = [handle EXCEPT ![q] = inode]
    BY <1>7 DEF WriteOpen
  <2>2. inode \in InodesOf(t) /\ (WriteTo(q) = <<"part", t>> => inode # t)
    BY <1>2, <1>3, <1>5
  <2> HIDE DEF inode
  <2>3. QED
    BY <1>1, <1>2, <1>3, <1>5, <2>1, <2>2 DEF TypeOK
<1>8. CASE WriteClose(q)
  <2>1. /\ disk' = disk /\ handle' = [handle EXCEPT ![q] = None]
        /\ bytes' = [bytes EXCEPT ![handle[q]] = Whole(q)] /\ handle[q] # None
    BY <1>8 DEF WriteClose, Whole, TypeOK
  <2>2. QED
    BY <1>1, <1>3, <2>1 DEF TypeOK
<1>9. CASE WriteFails(q)
  <2>1. UNCHANGED <<disk, bytes>> /\ handle' = [handle EXCEPT ![q] = None]
    BY <1>9 DEF WriteFails, FailExport
  <2>2. QED
    BY <1>1, <1>3, <2>1 DEF TypeOK
<1>10. CASE Publish(q)
  <2>1. /\ disk' = [disk EXCEPT ![<<"file", t>>] = disk[<<"part", t>>], ![<<"part", t>>] = None]
        /\ UNCHANGED <<bytes, handle>>
    BY <1>10 DEF Publish, File, Part
  <2>2. QED
    BY <1>1, <1>2, <1>3, <2>1 DEF TypeOK
<1>11. CASE RemovePart(q)
  <2>1. disk' = [disk EXCEPT ![<<"part", t>>] = None] /\ UNCHANGED <<bytes, handle>>
    BY <1>11 DEF RemovePart, Part
  <2>2. QED
    BY <1>1, <1>2, <1>3, <2>1 DEF TypeOK
<1>12. QED
  BY <1>4, <1>6, <1>7, <1>8, <1>9, <1>10, <1>11 DEF Acts, Handle, Plain

LEMMA TasksOnlyStep ==
  ASSUME TypeOK, Sorted, TasksOnly, [Next]_vars
  PROVE  TasksOnly'
<1>1. ASSUME NEW q \in Requests, Acts(q) PROVE TasksOnly'
  <2>1. \A r \in Requests : HasTask(r) => HasTask(r)'
    BY <1>1, OthersKeep, ReqStays DEF Sorted, HasTask
  <2>2. \A i \in TaskIds : table'[i] \in {table[i], None} \/ (table'[i] = q /\ HasTask(q))
    <3>1. CASE Register(q)
      BY <3>1 DEF Register, HasTask, TypeOK
    <3>2. CASE DropGuard(q)
      BY <3>2 DEF DropGuard
    <3>3. CASE ~Register(q) /\ ~DropGuard(q)
      BY <1>1, <3>3 DEF Acts, Handle, Arrive, DialogPicked, DialogDismissed, CheckCancelled,
         Precommit, TryCommit, RenderFails, RenderPanics, WriteFails, FailExport, WriteAtomic,
         WriteOpen, WriteClose, CommitPoint, Publish, PublishFails, RemovePart, taskVars
    <3>4. QED
      BY <3>1, <3>2, <3>3
  <2>3. flag' = flag
    BY <1>1, ReqStays
  <2>4. ASSUME NEW i \in TaskIds, table'[i] # None PROVE HasTask(table[i])'
    <3>1. CASE table'[i] = table[i]
      BY <2>1, <2>4, <3>1 DEF TasksOnly, TypeOK, HasTask
    <3>2. CASE table'[i] = q /\ HasTask(q)
      BY <2>1, <3>2 DEF HasTask
    <3>3. QED
      BY <2>2, <2>4, <3>1, <3>2
  <2>5. QED
    BY <2>1, <2>3, <2>4 DEF TasksOnly
<1>2. ASSUME NEW i \in TaskIds, Cancel(i) PROVE TasksOnly'
  <2>1. UNCHANGED <<table, req>>
    BY <1>2 DEF Cancel
  <2>2. flag' = flag \/ (table[i] # None /\ flag' = [flag EXCEPT ![table[i]] = TRUE])
    BY <1>2 DEF Cancel
  <2>3. QED
    BY <2>1, <2>2 DEF TasksOnly, HasTask, TypeOK
<1>3. ASSUME Crash PROVE TasksOnly'
  BY <1>3 DEF Crash, TasksOnly, HasTask
<1>4. CASE UNCHANGED vars
  BY <1>4 DEF vars, TasksOnly, HasTask
<1>5. QED
  BY <1>1, <1>2, <1>3, <1>4 DEF Next, Acts

\* A target is given to a request that had none.
LEMMA SortedArrive ==
  ASSUME TypeOK, Sorted, NEW q \in Requests, Arrive(q)
  PROVE  Sorted'
<1>1. /\ pc[q] = "idle" /\ UNCHANGED diskVars
      /\ \A r \in Requests : r # q => req'[r] = req[r] /\ pc'[r] = pc[r]
      /\ pc'[q] # "idle" /\ req[q].target = None
  BY OthersKeep, ReqStays DEF Arrive, Sorted, Acts
<1>2. \A t \in Targets : InodesOf(t) \subseteq InodesOf(t)'
  BY <1>1, ConstantsAssumption DEF InodesOf
<1>3. \A r \in Requests :
        pc'[r] = "idle" => req'[r].target = None /\ ~HasTask(r)' /\ handle'[r] = None
  BY <1>1 DEF Sorted, HasTask, diskVars
<1>4. ASSUME NEW t \in Targets
      PROVE  /\ disk'[<<"file", t>>] \in InodesOf(t)' \union {None}
             /\ disk'[<<"part", t>>] \in (InodesOf(t)' \ {t}) \union {None}
  BY <1>1, <1>2 DEF Sorted, diskVars
<1>5. ASSUME NEW r \in Requests, handle'[r] # None
      PROVE  handle'[r] \in InodesOf(req[r].target)'
  <2>1. handle[r] \in InodesOf(req[r].target) /\ handle'[r] = handle[r]
    BY <1>1, <1>5 DEF Sorted, diskVars
  <2>2. r # q
    BY <1>1, <1>5, <2>1 DEF Sorted
  <2>3. pc[r] # "idle"
    BY <2>1, <1>5 DEF Sorted
  <2>4. req[r].target \in Targets /\ req'[r] = req[r]
    BY <1>1, <2>2, <2>3, ConstantsAssumption DEF TypeOK
  <2>5. QED
    BY <1>2, <2>1, <2>4 DEF InodesOf
<1>6. ASSUME NEW t \in Targets, \A r \in Requests : req'[r].target # t
      PROVE  bytes'[t] = Old
  BY <1>1, <1>6, ConstantsAssumption DEF Sorted, diskVars
<1>7. QED
  BY <1>3, <1>4, <1>5, <1>6 DEF Sorted

LEMMA SortedStep ==
  ASSUME TypeOK, Sorted, [Next]_vars
  PROVE  Sorted'
<1>1. ASSUME NEW q \in Requests, Acts(q), ~Arrive(q) PROVE Sorted'
  <2> DEFINE t == req[q].target
  <2>1. /\ pc[q] # "idle" /\ pc'[q] # "idle" /\ req' = req
        /\ \A r \in Requests : r # q => pc'[r] = pc[r] /\ handle'[r] = handle[r]
    <3>1. pc[q] # "idle"
      BY <1>1 DEF Acts, Handle, DialogPicked, DialogDismissed, Register, CheckCancelled,
         Precommit, RenderFails, RenderPanics, WriteFails, WriteAtomic, WriteOpen, WriteClose,
         CommitPoint, Publish, PublishFails, RemovePart, DropGuard
    <3>2. QED
      BY <1>1, <3>1, ReqStays, OthersKeep
  <2>2. /\ t \in Targets
        /\ \A u \in Targets : u # t => /\ disk'[<<"file", u>>] = disk[<<"file", u>>]
                                       /\ disk'[<<"part", u>>] = disk[<<"part", u>>]
        /\ disk'[<<"file", t>>] \in InodesOf(t) \union {None}
        /\ disk'[<<"part", t>>] \in (InodesOf(t) \ {t}) \union {None}
        /\ \A i \in Inodes : i \notin InodesOf(t) => bytes'[i] = bytes[i]
        /\ handle'[q] # None => handle'[q] \in InodesOf(t)
    BY <1>1, Ground
  <2> HIDE DEF t
  <2>3. \A u : InodesOf(u)' = InodesOf(u)
    BY <2>1 DEF InodesOf
  <2>4. ASSUME NEW u \in Targets
        PROVE  /\ disk'[<<"file", u>>] \in InodesOf(u)' \union {None}
               /\ disk'[<<"part", u>>] \in (InodesOf(u)' \ {u}) \union {None}
    BY <2>2, <2>3 DEF Sorted
  <2>5. ASSUME NEW r \in Requests, handle'[r] # None
        PROVE  handle'[r] \in InodesOf(req[r].target)'
    BY <2>1, <2>2, <2>3, <2>5 DEF Sorted, t
  <2>6. ASSUME NEW u \in Targets, \A r \in Requests : req[r].target # u PROVE bytes'[u] = Old
    <3>1. u \in Inodes /\ u # t /\ u \notin InodesOf(t)
      BY <2>6, ConstantsAssumption DEF Inodes, InodesOf, t
    <3>2. QED
      BY <2>2, <2>6, <3>1 DEF Sorted
  <2>7. \A r \in Requests :
          pc'[r] = "idle" => req'[r].target = None /\ ~HasTask(r)' /\ handle'[r] = None
    BY <2>1 DEF Sorted, HasTask
  <2>8. QED
    BY <2>1, <2>4, <2>5, <2>6, <2>7 DEF Sorted
<1>2. ASSUME NEW i \in TaskIds, Cancel(i) PROVE Sorted'
  BY <1>2 DEF Cancel, diskVars, Sorted, HasTask, InodesOf
<1>3. ASSUME Crash PROVE Sorted'
  <2>1. /\ UNCHANGED <<req, disk, bytes, handle>>
        /\ \A r \in Requests : pc'[r] = "idle" => pc[r] = "idle"
    BY <1>3 DEF Crash, diskVars
  <2>2. QED
    BY <2>1 DEF Sorted, HasTask, InodesOf
<1>4. CASE UNCHANGED vars
  BY <1>4 DEF vars, Sorted, HasTask, InodesOf
<1>5. QED
  BY <1>1, <1>2, <1>3, <1>4, SortedArrive DEF Next, Acts

\* A request that begins with a target of its own finds there what was there before.
LEMMA HeldArrive ==
  ASSUME TypeOK, Decided, Sorted, NEW q \in Requests, Arrive(q), Alone(q)'
  PROVE  Held(q)'
<1> DEFINE t == req'[q].target
<1>1. /\ pc[q] = "idle" /\ pc'[q] \in {"dialog", "register"} /\ req[q].target = None
      /\ UNCHANGED <<committed, disk, bytes, answer>>
      /\ \A r \in Requests : r # q => req'[r] = req[r]
      /\ t \in Targets
  <2>1. pc[q] = "idle" /\ UNCHANGED <<committed, disk, bytes, answer>>
    BY DEF Arrive, taskVars, diskVars
  <2>2. pc'[q] \in {"dialog", "register"}
    BY DEF Arrive, TypeOK, Goto
  <2>3. t \in Targets
    <3>1. PICK i \in TaskIds \union {NoTask}, u \in MayTarget[q], f \in Offered :
            req' = [req EXCEPT ![q] = [id |-> i, target |-> u, format |-> f]]
      BY DEF Arrive
    <3>2. t = u
      BY <3>1 DEF TypeOK
    <3>3. QED
      BY <3>2, ConstantsAssumption
  <2>4. \A r \in Requests : r # q => req'[r] = req[r]
    BY OthersKeep DEF Acts
  <2>5. QED
    BY <2>1, <2>2, <2>3, <2>4 DEF Sorted
<1>2. \A r \in Requests : req[r].target # t
  BY <1>1, ConstantsAssumption DEF Alone, HasTargetAlone
<1>3. bytes[t] = Old /\ disk[<<"file", t>>] # q
  BY <1>1, <1>2, ConstantsAssumption DEF Sorted, InodesOf
<1>4. answer[q] = "none"
  BY <1>1 DEF Decided, Waiting
<1>5. QED
  BY <1>1, <1>3, <1>4 DEF Held, Stopped

\* What others do is done elsewhere.
LEMMA HeldBeside ==
  ASSUME TypeOK, Sorted, NEW q \in Requests, Acts(q), NEW r \in Requests, r # q, Alone(r)', Held(r)
  PROVE  Held(r)'
<1> DEFINE t == req[r].target
<1>1. /\ pc'[r] = pc[r] /\ req'[r] = req[r] /\ committed'[r] = committed[r]
      /\ handle'[r] = handle[r] /\ answer'[r] = answer[r]
  BY OthersKeep
<1>2. t \in Targets /\ req'[q].target # t
  BY <1>1, ConstantsAssumption DEF Alone, HasTargetAlone, TypeOK
<1>3. disk'[<<"file", t>>] = disk[<<"file", t>>] /\ disk'[<<"part", t>>] = disk[<<"part", t>>]
      /\ bytes'[t] = bytes[t] /\ bytes'[r] = bytes[r]
  <2>1. CASE Arrive(q)
    BY <2>1, PlainStep DEF Plain, diskVars
  <2>2. CASE ~Arrive(q)
    <3> DEFINE u == req[q].target
    <3>1. u # t
      <4>1. CASE pc[q] = "idle"
        BY <1>2, <4>1, ConstantsAssumption DEF Sorted
      <4>2. CASE pc[q] # "idle"
        BY <1>2, <4>2, ReqStays
      <4>3. QED
        BY <4>1, <4>2
    <3>2. /\ u \in Targets
          /\ \A v \in Targets : v # u => /\ disk'[<<"file", v>>] = disk[<<"file", v>>]
                                         /\ disk'[<<"part", v>>] = disk[<<"part", v>>]
          /\ disk'[<<"file", u>>] \in InodesOf(u) \union {None}
          /\ disk'[<<"part", u>>] \in (InodesOf(u) \ {u}) \union {None}
          /\ \A i \in Inodes : i \notin InodesOf(u) => bytes'[i] = bytes[i]
          /\ handle'[q] # None => handle'[q] \in InodesOf(u)
      BY <2>2, Ground, Zenon
    <3>3. t \notin InodesOf(u) /\ r \notin InodesOf(u) /\ t \in Inodes /\ r \in Inodes
      BY <1>2, <3>1, <3>2, ConstantsAssumption DEF InodesOf, Inodes
    <3>4. QED
      BY <1>2, <3>1, <3>2, <3>3
  <2>3. QED
    BY <2>1, <2>2
<1>4. QED
  BY <1>1, <1>3 DEF Held, Staged, HasTask

\* What a task does itself at a target of its own.
LEMMA HeldOwn ==
  ASSUME TypeOK, Decided, Sorted, NEW q \in Requests, Acts(q), ~Arrive(q), Alone(q), Held(q)
  PROVE  Held(q)'
<1> DEFINE t == req[q].target
           F == <<"file", t>>
           P == <<"part", t>>
<1>1. /\ t \in Targets /\ req' = req /\ HasTask(q)
      /\ F \in Names /\ P \in Names /\ F # P /\ q \in Inodes /\ t \in Inodes /\ q # t
  BY ReqStays, ConstantsAssumption DEF Alone, TypeOK, Names, Inodes
<1>2. disk[P] \in {q, None} /\ q # None
  BY <1>1, ConstantsAssumption DEF Sorted, InodesOf, Alone, HasTargetAlone
<1>3. /\ (Staged(q) <=> Staged(q)') /\ t = req'[q].target
      /\ Staged(q) => req[q].format # "tex"
  BY <1>1 DEF Staged, HasTask
<1>4. /\ ~committed[q] => disk[F] # q
      /\ Staged(q) \/ ~committed[q] => bytes[t] = Old
      /\ Staged(q) =>
           /\ disk[F] = q => bytes[q] = Whole(q) /\ pc[q] \in {"drop"} \union Stopped
           /\ pc[q] = "writing" => handle[q] = q
           /\ pc[q] \in {"writing", "written", "rename"} => disk[P] = q
           /\ pc[q] \in {"written", "rename"} => bytes[q] = Whole(q)
           /\ answer[q] = "ok" => disk[F] = q
  BY DEF Held
<1> HIDE DEF t, F, P
<1>5. SUFFICES
      /\ ~committed'[q] => disk'[F] # q
      /\ Staged(q) \/ ~committed'[q] => bytes'[t] = Old
      /\ Staged(q) =>
           /\ disk'[F] = q => bytes'[q] = Whole(q) /\ pc'[q] \in {"drop"} \union Stopped
           /\ pc'[q] = "writing" => handle'[q] = q
           /\ pc'[q] \in {"writing", "written", "rename"} => disk'[P] = q
           /\ pc'[q] \in {"written", "rename"} => bytes'[q] = Whole(q)
           /\ answer'[q] = "ok" => disk'[F] = q
  BY <1>3 DEF Held, F, P, Whole, Old
<1>6. CASE Plain(q)
  <2>1. UNCHANGED <<disk, bytes, handle>>
    BY <1>6, PlainStep DEF diskVars
  <2>2. committed[q] => committed'[q]
    BY <1>6 DEF Plain, DialogPicked, DialogDismissed, Register, CheckCancelled, Precommit,
       TryCommit, RenderFails, RenderPanics, FailExport, CommitPoint, PublishFails, DropGuard,
       Decided, TypeOK, taskVars
  <2>3. answer'[q] = "ok" => answer[q] = "ok"
    BY <1>6 DEF Plain, DialogPicked, DialogDismissed, Register, CheckCancelled, Precommit,
       RenderFails, RenderPanics, FailExport, CommitPoint, PublishFails, DropGuard, Reply, TypeOK
  <2>4. /\ pc'[q] \notin {"writing", "written"} /\ (pc'[q] = "rename" => pc[q] = "written")
        /\ pc[q] \in {"drop"} \union Stopped => pc'[q] = "done"
    BY <1>6 DEF Plain, DialogPicked, DialogDismissed, Register, CheckCancelled, Precommit,
       RenderFails, RenderPanics, FailExport, CommitPoint, PublishFails, RemoveAfterCommit,
       DropGuard, Goto, TypeOK, Stopped
  <2>5. QED
    BY <1>4, <2>1, <2>2, <2>3, <2>4 DEF Stopped
<1>7. CASE ~Staged(q) /\ (WriteAtomic(q) \/ WriteOpen(q) \/ WriteClose(q) \/ WriteFails(q))
  <2>1. pc[q] \in {"render", "writing"} /\ committed' = committed
    BY <1>7 DEF WriteAtomic, WriteOpen, WriteClose, WriteFails, FailExport, taskVars
  <2>2. committed[q]
    BY <1>1, <1>7, <2>1 DEF Decided, Staged
  <2>3. QED
    BY <1>7, <2>1, <2>2
<1>8. CASE Staged(q) /\ WriteAtomic(q)
  <2>1. /\ disk' = [disk EXCEPT ![P] = q] /\ bytes' = [bytes EXCEPT ![q] = Whole(q)]
        /\ pc[q] = "render" /\ pc' = [pc EXCEPT ![q] = "written"]
        /\ UNCHANGED <<committed, answer>>
    BY <1>8 DEF WriteAtomic, WriteTo, Wrote, Goto, Part, Whole, P, t, taskVars
  <2>2. QED
    BY <1>1, <1>4, <1>8, <2>1 DEF TypeOK, Stopped
<1>9. CASE Staged(q) /\ WriteOpen(q)
  <2>1. /\ disk' = [disk EXCEPT ![P] = q] /\ \E b : bytes' = [bytes EXCEPT ![q] = b]
        /\ pc[q] = "render" /\ pc' = [pc EXCEPT ![q] = "writing"]
        /\ handle' = [handle EXCEPT ![q] = q]
        /\ UNCHANGED <<committed, answer>>
    <3>1. (IF disk[WriteTo(q)] = None THEN q ELSE disk[WriteTo(q)]) = q /\ WriteTo(q) = P
      BY <1>2, <1>9 DEF WriteTo, Part, P, t
    <3>2. QED
      BY <1>9, <3>1 DEF WriteOpen, Goto, taskVars
  <2>2. QED
    BY <1>1, <1>4, <1>9, <2>1 DEF TypeOK, Stopped
<1>10. CASE Staged(q) /\ WriteClose(q)
  <2>1. /\ bytes' = [bytes EXCEPT ![q] = Whole(q)] /\ UNCHANGED <<disk, committed, answer>>
        /\ pc[q] = "writing" /\ pc' = [pc EXCEPT ![q] = "written"]
    BY <1>4, <1>10 DEF WriteClose, Wrote, Goto, Whole, taskVars
  <2>2. QED
    BY <1>1, <1>4, <1>10, <2>1 DEF TypeOK, Stopped
<1>11. CASE Staged(q) /\ WriteFails(q)
  <2>1. /\ UNCHANGED <<disk, bytes, committed>> /\ pc[q] = "writing"
        /\ pc' \in {[pc EXCEPT ![q] = "remove"], [pc EXCEPT ![q] = "drop"]}
        /\ answer' = [answer EXCEPT ![q] = "error"]
    BY <1>11 DEF WriteFails, FailExport, Goto, Reply, taskVars
  <2>2. QED
    BY <1>1, <1>4, <1>11, <2>1 DEF TypeOK, Stopped
<1>12. CASE Publish(q)
  <2>1. /\ disk' = [disk EXCEPT ![F] = disk[P], ![P] = None] /\ UNCHANGED <<bytes, committed>>
        /\ pc[q] = "rename" /\ pc' = [pc EXCEPT ![q] = "drop"]
    BY <1>12 DEF Publish, Goto, File, Part, F, P, t, taskVars
  <2>2. Staged(q) /\ committed[q]
    BY <2>1 DEF Decided
  <2>3. QED
    BY <1>1, <1>4, <2>1, <2>2 DEF TypeOK
<1>13. CASE RemovePart(q)
  <2>1. /\ disk' = [disk EXCEPT ![P] = None] /\ UNCHANGED <<bytes, committed, answer>>
        /\ pc[q] \in {"remove", "removeTwice"}
        /\ pc' \in {[pc EXCEPT ![q] = "remove"], [pc EXCEPT ![q] = "drop"]}
    BY <1>13 DEF RemovePart, Goto, Part, P, t, taskVars
  <2>2. QED
    BY <1>1, <1>4, <2>1 DEF TypeOK, Stopped
<1>14. QED
  BY <1>6, <1>7, <1>8, <1>9, <1>10, <1>11, <1>12, <1>13 DEF Acts, Handle, Plain

LEMMA AloneHeldStep ==
  ASSUME TypeOK, Decided, Sorted, AloneHeld, [Next]_vars
  PROVE  AloneHeld'
<1>1. ASSUME NEW q \in Requests, Acts(q), NEW r \in Requests, Alone(r)' PROVE Held(r)'
  <2>1. CASE r = q /\ Arrive(q)
    BY <1>1, <2>1, HeldArrive
  <2>2. CASE r = q /\ ~Arrive(q)
    <3>1. pc[q] # "idle"
      BY <1>1, <2>2 DEF Acts, Handle, DialogPicked, DialogDismissed, Register, CheckCancelled,
         Precommit, RenderFails, RenderPanics, WriteFails, WriteAtomic, WriteOpen, WriteClose,
         CommitPoint, Publish, PublishFails, RemovePart, DropGuard
    <3>2. Alone(q)
      BY <1>1, <2>2, <3>1, ReqStays DEF Alone, HasTask, HasTargetAlone
    <3>3. QED
      BY <1>1, <2>2, <3>2, HeldOwn DEF AloneHeld
  <2>3. CASE r # q
    <3>1. pc[r] # "idle" /\ req'[r] = req[r]
      BY <1>1, <2>3, OthersKeep DEF Alone
    <3>2. Alone(r)
      <4>1. ASSUME NEW p \in Requests \ {r} PROVE req[p].target # req[r].target
        <5>1. req[r].target \in Targets
          BY <3>1, ConstantsAssumption DEF TypeOK
        <5>2. req'[p].target # req'[r].target
          BY <1>1 DEF Alone, HasTargetAlone
        <5>3. CASE p = q /\ pc[p] = "idle"
          BY <5>1, <5>3, ConstantsAssumption DEF Sorted
        <5>4. CASE p # q \/ pc[p] # "idle"
          BY <1>1, <3>1, <5>2, <5>4, OthersKeep, ReqStays
        <5>5. QED
          BY <5>3, <5>4
      <4>2. QED
        BY <1>1, <3>1, <4>1 DEF Alone, HasTask, HasTargetAlone
    <3>3. QED
      BY <1>1, <2>3, <3>2, HeldBeside DEF AloneHeld
  <2>4. QED
    BY <2>1, <2>2, <2>3
<1>2. ASSUME NEW i \in TaskIds, Cancel(i) PROVE AloneHeld'
  BY <1>2 DEF Cancel, diskVars, AloneHeld, Alone, HasTargetAlone, Held, Staged, HasTask
<1>3. ASSUME Crash, NEW r \in Requests, Alone(r)' PROVE Held(r)'
  <2>1. /\ UNCHANGED <<req, committed, disk, bytes, handle, answer>>
        /\ pc[r] # "idle" /\ pc'[r] \in Stopped
    BY <1>3 DEF Crash, diskVars, Alone, Stopped
  <2>2. Held(r)
    BY <1>3, <2>1 DEF AloneHeld, Alone, HasTask, HasTargetAlone
  <2>3. QED
    BY <2>1, <2>2 DEF Held, Staged, HasTask, Stopped
<1>4. CASE UNCHANGED vars
  BY <1>4 DEF vars, AloneHeld, Alone, HasTargetAlone, Held, Staged, HasTask
<1>5. QED
  BY <1>1, <1>2, <1>3, <1>4 DEF Next, Acts, AloneHeld

ExportInv == TypeOK /\ Decided /\ Sorted /\ TasksOnly /\ AloneHeld

LEMMA ExportCorrect == Spec => []ExportInv
<1>1. Init => Sorted /\ TasksOnly /\ AloneHeld
  <2> SUFFICES ASSUME Init PROVE Sorted /\ TasksOnly /\ AloneHeld
    OBVIOUS
  <2>1. Sorted
    <3>1. /\ \A q \in Requests : req[q].target = None /\ ~HasTask(q) /\ handle[q] = None
          /\ \A t \in Targets : bytes[t] = Old
      BY DEF Init, HasTask, Old, Inodes
    <3>2. \A t \in Targets : disk[<<"part", t>>] = None /\ disk[<<"file", t>>] \in {t, None}
      BY DEF Init
    <3>3. QED
      BY <3>1, <3>2 DEF Sorted, InodesOf
  <2>2. TasksOnly /\ AloneHeld
    BY DEF Init, TasksOnly, AloneHeld, Alone
  <2>3. QED
    BY <2>1, <2>2
<1>2. TypeOK /\ Decided /\ Sorted /\ TasksOnly /\ AloneHeld /\ [Next]_vars
        => (Sorted /\ TasksOnly /\ AloneHeld)'
  BY SortedStep, TasksOnlyStep, AloneHeldStep
<1>3. QED
  BY <1>1, <1>2, TypeCorrect, DecidedOnce, PTL DEF Spec, ExportInv

\* A staged export with its target to itself replaces it in one step, for any number of
\* other exports, cancels, failures and a crash.
THEOREM AllOrNothing == Spec => []StagedAllOrNothing
<1>1. ExportInv => StagedAllOrNothing
  <2> SUFFICES ASSUME ExportInv, NEW r \in Requests,
                      pc[r] # "idle", Staged(r), HasTargetAlone(r)
               PROVE  /\ HasFile(req[r].target) => FileBytes(req[r].target).whole
                      /\ answer[r] = "ok" => /\ HasFile(req[r].target)
                                             /\ FileBytes(req[r].target).by = r
    BY DEF StagedAllOrNothing
  <2> DEFINE t == req[r].target
  <2>1. Held(r)
    BY DEF ExportInv, AloneHeld, Alone, Staged
  <2>2. t \in Targets /\ r # None
    BY ConstantsAssumption DEF ExportInv, TypeOK
  <2>3. disk[<<"file", t>>] \in {t, r, None}
    BY <2>2 DEF ExportInv, Sorted, InodesOf, HasTargetAlone
  <2>4. QED
    BY <2>1, <2>2, <2>3 DEF Held, HasFile, FileBytes, Old, Whole
<1>2. QED
  BY <1>1, ExportCorrect, PTL

\* A cancel that was told "cancelling" leaves nothing of its task at a target that is the
\* task's own.
THEOREM CancelledLeavesNothing == Spec => []CancelledLeavesNoFile
<1>1. ExportInv => CancelledLeavesNoFile
  <2> SUFFICES ASSUME ExportInv, NEW r \in Requests, "cancelling" \in told[r], HasTargetAlone(r),
                      HasFile(req[r].target)
               PROVE  FileBytes(req[r].target).by # r
    BY DEF CancelledLeavesNoFile, NothingLeftBy
  <2> DEFINE t == req[r].target
  <2>1. flag[r] /\ ~committed[r] /\ HasTask(r)
    BY DEF ExportInv, Decided, TasksOnly
  <2>2. pc[r] # "idle"
    BY <2>1 DEF ExportInv, Sorted
  <2>3. Held(r)
    BY <2>1, <2>2 DEF ExportInv, AloneHeld, Alone
  <2>4. t \in Targets /\ r # None
    BY <2>2, ConstantsAssumption DEF ExportInv, TypeOK
  <2>5. disk[<<"file", t>>] \in {t, r, None}
    BY <2>4 DEF ExportInv, Sorted, InodesOf, HasTargetAlone
  <2>6. QED
    BY <2>1, <2>3, <2>4, <2>5 DEF Held, HasFile, FileBytes, Old
<1>2. QED
  BY <1>1, ExportCorrect, PTL
=============================================================================

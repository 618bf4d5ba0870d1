---------------------------- MODULE ExportCommit ----------------------------
(***************************************************************************)
(* Cancellable export: the global task table (cancel.rs), the export       *)
(* handler (server.rs, h_export) and the cancel route (h_task_cancel).     *)
(*                                                                         *)
(* Every request runs on its own connection thread, so the steps of        *)
(* different requests interleave freely with each other and with cancels.  *)
(* Only the task table is behind a lock; the staging file                  *)
(* <target>.readmd-part is shared by all requests for the same target.     *)
(***************************************************************************)
EXTENDS Naturals, FiniteSets

CONSTANTS
  Requests,   \* export requests; each runs the handler once
  TaskIds,    \* well-formed task ids (cancel.rs, valid_id)
  NoTask,     \* a request without a (valid) task_id
  Targets,    \* output paths
  MayTarget,  \* [Requests -> SUBSET Targets]: the paths a request may be given
  Offered,    \* the formats requests ask for
  None        \* no table entry, no file, no open handle

\* html and epub are written in place with fs::write; docx and pdf go through
\* a temporary and a rename; presentation like docx, but it cleans up twice;
\* tex is never staged.
Formats == {"html", "docx", "presentation", "tex"}

ASSUME ConstantsAssumption ==
  /\ MayTarget \in [Requests -> SUBSET Targets]
  /\ Offered \subseteq Formats
  /\ NoTask \notin TaskIds
  /\ None \notin Requests \union Targets
  /\ Requests \intersect Targets = {}

VARIABLES
  pc,         \* where the handler of each request is
  req,        \* [id, target, format] of each request, fixed on arrival
  table,      \* the task table: task id -> the request owning the entry, or None
  flag,       \* Entry.cancel of each request's entry
  committed,  \* Entry.phase = COMMITTED
  disk,       \* name -> inode or None; each target has a "file" and a "part" name
  bytes,      \* inode -> who wrote its bytes last, and whether all of them
  handle,     \* inode a request holds open while fs::write runs
  answer,     \* what the request was answered
  told,       \* history: what cancel answered about the task of each request
  crashed     \* the process was killed and started again (once: the bound)

taskVars == <<table, flag, committed>>
diskVars == <<disk, bytes, handle>>
vars == <<pc, req, table, flag, committed, disk, bytes, handle, answer, told, crashed>>

\* Before a request has a table entry, between entry and removal, and after.
Waiting  == {"idle", "dialog", "register"}
Working  == {"check", "precommit", "render", "writing", "written", "rename",
             "remove", "removeTwice", "drop"}
Stopped  == {"done", "dead"}
Answers  == {"none", "ok", "cancelled", "error", "dismissed"}
Verdicts == {"cancelling", "finished", "unknown"}
Inodes   == Requests \union Targets   \* a target's own inode holds its old content
Names    == {"file", "part"} \X Targets

HasTask(r) == req[r].id # NoTask

\* The task path stages everything but tex, which copies assets beside its output.
Staged(r) == HasTask(r) /\ req[r].format # "tex"

Part(r)    == <<"part", req[r].target>>
File(r)    == <<"file", req[r].target>>

\* Mutant: every export writes in place.
WriteInPlace(r) == File(r)

WriteTo(r) == IF Staged(r) THEN Part(r) ELSE File(r)

Goto(r, label)  == pc' = [pc EXCEPT ![r] = label]
Reply(r, value) == answer' = [answer EXCEPT ![r] = value]

Init ==
  /\ pc = [r \in Requests |-> "idle"]
  /\ req = [r \in Requests |-> [id |-> NoTask, target |-> None, format |-> "html"]]
  /\ table = [i \in TaskIds |-> None]
  /\ flag = [r \in Requests |-> FALSE]
  /\ committed = [r \in Requests |-> FALSE]
  /\ disk \in {d \in [Names -> Targets \union {None}] :
                 \A t \in Targets : d[<<"part", t>>] = None /\ d[<<"file", t>>] \in {t, None}}
  /\ bytes = [i \in Inodes |-> [by |-> None, whole |-> TRUE]]
  /\ handle = [r \in Requests |-> None]
  /\ answer = [r \in Requests |-> "none"]
  /\ told = [r \in Requests |-> {}]
  /\ crashed = FALSE
-----------------------------------------------------------------------------
(* The handler, up to the first byte written.                              *)

\* The body is parsed; without an out_path the native save dialog opens first,
\* before the task is registered.
Arrive(r) ==
  /\ pc[r] = "idle"
  /\ \E i \in TaskIds \union {NoTask}, t \in MayTarget[r], f \in Offered :
       req' = [req EXCEPT ![r] = [id |-> i, target |-> t, format |-> f]]
  /\ Goto(r, "dialog") \/ Goto(r, "register")
  /\ UNCHANGED <<taskVars, diskVars, answer, told, crashed>>

DialogPicked(r) ==
  /\ pc[r] = "dialog"
  /\ Goto(r, "register")
  /\ UNCHANGED <<req, taskVars, diskVars, answer, told, crashed>>

DialogDismissed(r) ==
  /\ pc[r] = "dialog"
  /\ Reply(r, "dismissed")
  /\ Goto(r, "done")
  /\ UNCHANGED <<req, taskVars, diskVars, told, crashed>>

\* cancel::register inserts a fresh entry; an older entry under the same id is
\* replaced and can no longer be cancelled.
Register(r) ==
  /\ pc[r] = "register"
  /\ IF HasTask(r)
       THEN /\ table' = [table EXCEPT ![req[r].id] = r]
            /\ Goto(r, "check")
       ELSE /\ UNCHANGED table
            /\ Goto(r, "render")
  /\ UNCHANGED <<req, flag, committed, diskVars, answer, told, crashed>>

CheckCancelled(r) ==
  /\ pc[r] = "check"
  /\ IF flag[r]
       THEN Reply(r, "cancelled") /\ Goto(r, "drop")
       ELSE /\ UNCHANGED answer
            /\ Goto(r, IF Staged(r) THEN "render" ELSE "precommit")
  /\ UNCHANGED <<req, taskVars, diskVars, told, crashed>>

\* TaskGuard::try_commit, under the table lock: the cancel flag decides.
TryCommit(r) ==
  /\ committed' = [committed EXCEPT ![r] = ~flag[r]]
  /\ UNCHANGED <<table, flag>>

\* The commit point of an unstaged (tex) export is before it writes.
Precommit(r) ==
  /\ pc[r] = "precommit"
  /\ TryCommit(r)
  /\ IF flag[r]
       THEN Reply(r, "cancelled") /\ Goto(r, "drop")
       ELSE UNCHANGED answer /\ Goto(r, "render")
  /\ UNCHANGED <<req, diskVars, told, crashed>>
-----------------------------------------------------------------------------
(* Rendering and writing.                                                  *)

\* An Err or ok:false result ends in commit(false), which removes the part of a
\* staged export; a presentation that fails to render skips that.
FailExport(r) ==
  /\ Reply(r, "error")
  /\ \/ Goto(r, IF Staged(r) THEN "remove" ELSE "drop")
     \/ req[r].format = "presentation" /\ pc[r] = "render" /\ Goto(r, "drop")
  /\ UNCHANGED <<req, taskVars, disk, bytes, told, crashed>>

RenderFails(r) ==
  /\ pc[r] = "render"
  /\ FailExport(r)
  /\ UNCHANGED handle

\* A panic unwinds through dispatch_guarded: the guard drops, nothing is removed.
RenderPanics(r) ==
  /\ pc[r] = "render"
  /\ Reply(r, "error")
  /\ Goto(r, "drop")
  /\ UNCHANGED <<req, taskVars, diskVars, told, crashed>>

\* After the last byte: a staged export goes on to its commit point, the others
\* are done.
Wrote(r) ==
  IF Staged(r)
    THEN Goto(r, "written") /\ UNCHANGED answer
    ELSE Goto(r, "drop") /\ Reply(r, "ok")

\* write_bytes_atomic: the name moves to a complete new inode in one rename.
WriteAtomic(r) ==
  /\ pc[r] = "render"
  /\ req[r].format # "html"
  /\ disk' = [disk EXCEPT ![WriteTo(r)] = r]
  /\ bytes' = [bytes EXCEPT ![r] = [by |-> r, whole |-> TRUE]]
  /\ Wrote(r)
  /\ UNCHANGED <<req, taskVars, handle, told, crashed>>

\* fs::write (also the fallback of write_bytes_atomic): open truncates whatever
\* inode the name has, or creates one.
WriteOpen(r) ==
  LET inode == IF disk[WriteTo(r)] = None THEN r ELSE disk[WriteTo(r)] IN
  /\ pc[r] = "render"
  /\ disk' = [disk EXCEPT ![WriteTo(r)] = inode]
  /\ bytes' = [bytes EXCEPT ![inode] = [by |-> r, whole |-> FALSE]]
  /\ handle' = [handle EXCEPT ![r] = inode]
  /\ Goto(r, "writing")
  /\ UNCHANGED <<req, taskVars, answer, told, crashed>>

WriteClose(r) ==
  /\ pc[r] = "writing"
  /\ bytes' = [bytes EXCEPT ![handle[r]] = [by |-> r, whole |-> TRUE]]
  /\ handle' = [handle EXCEPT ![r] = None]
  /\ Wrote(r)
  /\ UNCHANGED <<req, taskVars, disk, told, crashed>>

WriteFails(r) ==
  /\ pc[r] = "writing"
  /\ handle' = [handle EXCEPT ![r] = None]
  /\ FailExport(r)
-----------------------------------------------------------------------------
(* The commit closure and the end of the handler.                          *)

\* The presentation branch calls commit(false) once more after a failed commit.
RemoveAfterCommit(r) ==
  Goto(r, IF req[r].format = "presentation" THEN "removeTwice" ELSE "remove")

\* Mutant: the commit closure ignores what try_commit returns.
CommitPointIgnored(r) ==
  /\ pc[r] = "written"
  /\ TryCommit(r)
  /\ Goto(r, "rename")
  /\ UNCHANGED <<req, diskVars, answer, told, crashed>>

CommitPoint(r) ==
  /\ pc[r] = "written"
  /\ TryCommit(r)
  /\ IF flag[r]
       THEN Reply(r, "cancelled") /\ RemoveAfterCommit(r)
       ELSE UNCHANGED answer /\ Goto(r, "rename")
  /\ UNCHANGED <<req, diskVars, told, crashed>>

Publish(r) ==
  /\ pc[r] = "rename"
  /\ disk[Part(r)] # None
  /\ disk' = [disk EXCEPT ![File(r)] = disk[Part(r)], ![Part(r)] = None]
  /\ Reply(r, "ok")
  /\ Goto(r, "drop")
  /\ UNCHANGED <<req, taskVars, bytes, handle, told, crashed>>

\* Mutant: a failed rename leaves the part behind.
PublishFailsKeepsPart(r) ==
  /\ pc[r] = "rename"
  /\ Reply(r, "error")
  /\ Goto(r, "drop")
  /\ UNCHANGED <<req, taskVars, diskVars, told, crashed>>

\* The rename is refused (target held open, read-only) or the part is gone.
PublishFails(r) ==
  /\ pc[r] = "rename"
  /\ Reply(r, "error")
  /\ RemoveAfterCommit(r)
  /\ UNCHANGED <<req, taskVars, diskVars, told, crashed>>

RemovePart(r) ==
  /\ pc[r] \in {"remove", "removeTwice"}
  /\ disk' = [disk EXCEPT ![Part(r)] = None]
  /\ Goto(r, IF pc[r] = "removeTwice" THEN "remove" ELSE "drop")
  /\ UNCHANGED <<req, taskVars, bytes, handle, answer, told, crashed>>

\* Mutant: the guard forgets its entry.
DropGuardKeepsEntry(r) ==
  /\ pc[r] = "drop"
  /\ Goto(r, "done")
  /\ UNCHANGED <<req, taskVars, diskVars, answer, told, crashed>>

\* Drop for TaskGuard: the entry leaves the table unless it was replaced.
DropGuard(r) ==
  /\ pc[r] = "drop"
  /\ table' = [i \in TaskIds |-> IF table[i] = r THEN None ELSE table[i]]
  /\ Goto(r, "done")
  /\ UNCHANGED <<req, flag, committed, diskVars, answer, told, crashed>>
-----------------------------------------------------------------------------
(* The cancel route, and the end of the process.                           *)

Tell(rs, verdict) ==
  told' = [r \in Requests |-> IF r \in rs THEN told[r] \union {verdict} ELSE told[r]]

\* Mutant: the phase of the entry is not looked at.
CancelIgnoresPhase(i) ==
  LET r == table[i] IN
  /\ \/ /\ r = None
        /\ Tell({q \in Requests : pc[q] \in Stopped /\ req[q].id = i}, "unknown")
        /\ UNCHANGED flag
     \/ /\ r # None
        /\ Tell({r}, "cancelling")
        /\ flag' = [flag EXCEPT ![r] = TRUE]
  /\ UNCHANGED <<pc, req, table, committed, diskVars, answer, crashed>>

\* cancel::cancel under the table lock. "unknown" is recorded for the requests
\* that carried the id and are over (convert jobs have ids of their own).
Cancel(i) ==
  LET r == table[i] IN
  /\ \/ /\ r = None
        /\ Tell({q \in Requests : pc[q] \in Stopped /\ req[q].id = i}, "unknown")
        /\ UNCHANGED flag
     \/ /\ r # None /\ committed[r]
        /\ Tell({r}, "finished")
        /\ UNCHANGED flag
     \/ /\ r # None /\ ~committed[r]
        /\ Tell({r}, "cancelling")
        /\ flag' = [flag EXCEPT ![r] = TRUE]
  /\ UNCHANGED <<pc, req, table, committed, diskVars, answer, crashed>>

\* The process dies and starts again: every handler stops where it is, the table
\* is empty, the disk stays. Nothing sweeps part files at the next start.
Crash ==
  /\ ~crashed
  /\ crashed' = TRUE
  /\ pc' = [r \in Requests |-> IF pc[r] \in {"idle", "done"} THEN pc[r] ELSE "dead"]
  /\ table' = [i \in TaskIds |-> None]
  /\ UNCHANGED <<req, flag, committed, diskVars, answer, told>>

\* The steps a handler thread takes by itself; the user decides on dialogs.
Handle(r) ==
  \/ Register(r) \/ CheckCancelled(r) \/ Precommit(r)
  \/ RenderFails(r) \/ RenderPanics(r)
  \/ WriteAtomic(r) \/ WriteOpen(r) \/ WriteClose(r) \/ WriteFails(r)
  \/ CommitPoint(r) \/ Publish(r) \/ PublishFails(r)
  \/ RemovePart(r) \/ DropGuard(r)

Next ==
  \/ \E r \in Requests :
       Arrive(r) \/ DialogPicked(r) \/ DialogDismissed(r) \/ Handle(r)
  \/ \E i \in TaskIds : Cancel(i)
  \/ Crash

\* A connection thread that has work is scheduled; nothing is assumed of users,
\* of cancels or of crashes.
Fairness == \A r \in Requests : WF_vars(Handle(r))

Spec == Init /\ [][Next]_vars
FairSpec == Spec /\ Fairness
-----------------------------------------------------------------------------
(* Properties.                                                             *)

TypeOK ==
  /\ pc \in [Requests -> Waiting \union Working \union Stopped]
  /\ req \in [Requests -> [id: TaskIds \union {NoTask},
                           target: Targets \union {None}, format: Formats]]
  /\ \A r \in Requests : pc[r] # "idle" => req[r].target \in MayTarget[r]
  /\ table \in [TaskIds -> Requests \union {None}]
  /\ flag \in [Requests -> BOOLEAN]
  /\ committed \in [Requests -> BOOLEAN]
  /\ disk \in [Names -> Inodes \union {None}]
  /\ bytes \in [Inodes -> [by: Requests \union {None}, whole: BOOLEAN]]
  /\ handle \in [Requests -> Inodes \union {None}]
  /\ \A r \in Requests : pc[r] = "writing" => handle[r] # None
  /\ answer \in [Requests -> Answers]
  /\ told \in [Requests -> SUBSET Verdicts]
  /\ crashed \in BOOLEAN

\* A cancel answered "cancelling" is final: the task never reaches its commit
\* point, is never answered with success and never called "finished"; and a
\* request answers "cancelled" only when some cancel was told so (the module
\* comment of cancel.rs).
CancelIsFinal ==
  \A r \in Requests :
    /\ "cancelling" \in told[r] =>
         /\ ~committed[r] /\ pc[r] # "rename"
         /\ HasTask(r) => answer[r] # "ok"
         /\ "finished" \notin told[r]
    /\ answer[r] = "cancelled" => "cancelling" \in told[r]

\* Seen through the decision of each task, the handler, the table and the cancel
\* route are the race between commit and cancel and nothing more.
outcomeBar == [r \in Requests |-> IF committed[r] THEN "committed"
                                  ELSE IF flag[r] THEN "cancelled" ELSE "undecided"]
toldBar    == [r \in Requests |-> told[r] \ {"unknown"}]
replyBar   == [r \in Requests |->
                 IF HasTask(r) /\ answer[r] # "dismissed" THEN answer[r] ELSE "none"]

Race == INSTANCE CommitRace
          WITH Tasks <- Requests, outcome <- outcomeBar, told <- toldBar, reply <- replyBar
RaceSpec == Race!Spec

\* Without a crash no staging file outlives the requests, whatever mix of
\* failures, cancels and exports of one target they were (the tests of h_export:
\* "no staging file may survive").
NoStagingLeft ==
  ~crashed /\ (\A r \in Requests : pc[r] \in Waiting \union Stopped)
    => \A t \in Targets : disk[<<"part", t>>] = None

FileBytes(t) == bytes[disk[<<"file", t>>]]
HasFile(t)   == disk[<<"file", t>>] # None

\* No other request was given the path of r so far.
HasTargetAlone(r) == \A q \in Requests \ {r} : req[q].target # req[r].target

\* A staged export that has its target to itself replaces it in one step: neither
\* a failure nor a crash leaves half of it there, and once it is answered "ok" its
\* own bytes are there (the staging name of h_export and its rename).
StagedAllOrNothing ==
  \A r \in Requests :
    pc[r] # "idle" /\ Staged(r) /\ HasTargetAlone(r) =>
      LET t == req[r].target IN
      /\ HasFile(t) => FileBytes(t).whole
      /\ answer[r] = "ok" => HasFile(t) /\ FileBytes(t).by = r

NothingLeftBy(r) == HasFile(req[r].target) => FileBytes(req[r].target).by # r

\* A cancel that wins leaves no file behind (cancel.rs, lines 6-8): nothing a request
\* wrote is found under its target, if it has the target to itself.  (Two exports to
\* one target share its part file, and one can publish what the other wrote.)
CancelledLeavesNoFile ==
  \A r \in Requests : "cancelling" \in told[r] /\ HasTargetAlone(r) => NothingLeftBy(r)

\* Every export that got past the dialog ends, or its process does, and its
\* entry leaves the task table.
RequestsEnd ==
  \A r \in Requests :
    pc[r] \in Working ~> pc[r] \in Stopped /\ \A i \in TaskIds : table[i] # r
=============================================================================

---------------------------- MODULE BatchConvert ----------------------------
(***************************************************************************)
(* Conversion of documents to Markdown (batch2.rs): the job table          *)
(* CONVERT_JOBS with one worker thread per job, the cancel and progress    *)
(* routes, and the single-file route h_convert on its connection threads.  *)
(*                                                                         *)
(* The table is behind a lock; the output files are not.  Every thread     *)
(* looks for an existing output, and then writes it with a plain fs::write *)
(* (truncate, then write), so threads that share an output can interleave  *)
(* between the look and the write.                                         *)
(***************************************************************************)
EXTENDS JobTable

CONSTANTS
  Singles,        \* requests of the single-file route, each asked once
  Sources,        \* documents that can be converted
  Stem,           \* [Sources -> Stems]: folder and name without extension
  Stems,
  MayConvert,     \* [Jobs \union Singles -> SUBSET Sources]: what users may select
  Uploads,        \* sources below <data>/uploads, whose output is always replaced
  MaxCopies,      \* bound: copies free_output_path tries, at least one (9999 in the code)
  CheckMayPanic,  \* may mdcheck_check, which no catch_unwind covers, panic?
  Empty,          \* a file just truncated, or whose write failed
  Old,            \* a file from before
  Mixed           \* the bytes of two writers over each other

Threads == Jobs \union Singles

ASSUME ConvertAssumption ==
  /\ Stem \in [Sources -> Stems]
  /\ MayConvert \in [Threads -> SUBSET Sources]
  /\ Jobs \intersect Singles = {}
  /\ Uploads \subseteq Sources
  /\ MaxItems \in Nat /\ MaxCopies \in Nat \ {0}
  /\ CheckMayPanic \in BOOLEAN
  /\ {None, Empty, Old, Mixed} \intersect (Threads \X Sources) = {}
  /\ None \notin {Empty, Old, Mixed}

VARIABLES
  sources,    \* the sources of the items
  overwrite,  \* of a job; of a single request, whether on_exists is "overwrite"
  rename,     \* of a single request, whether on_exists is "rename"
  pc,         \* where each thread is
  target,     \* the output path each thread has decided on
  result,     \* what each thread will record or answer
  files,      \* path -> None, or who wrote it
  spared      \* history: items still queued when a cancel of their job was accepted

jobVars == <<status, cancel, finished, sources>>
vars == <<status, cancel, finished, sources, overwrite, rename, pc, target, result, files, spared>>

Paths == ({"plain"} \X Stems) \union ({"copy"} \X Stems \X (1..MaxCopies))
           \union ({"digest"} \X Sources)

Labels   == {"idle", "take", "convert", "pick", "exists", "open", "close", "record",
             "over", "dead"}

\* The item a worker is at: the only one that is running.
Running(j) == {i \in DOMAIN status[j] : status[j][i] = "running"}
Queued(j)  == {i \in DOMAIN status[j] : status[j][i] = "queued"}

\* The source a thread is converting (a single request has one item and no status).
Source(t) == IF t \in Jobs THEN sources[t][CHOOSE i \in Running(t) : TRUE] ELSE sources[t][1]

Goto(t, label) == pc' = [pc EXCEPT ![t] = label]

Init ==
  /\ status = [j \in Jobs |-> <<>>]
  /\ cancel = [j \in Jobs |-> FALSE]
  /\ finished = [j \in Jobs |-> FALSE]
  /\ sources = [t \in Threads |-> <<>>]
  /\ overwrite = [t \in Threads |-> FALSE]
  /\ rename = [t \in Threads |-> FALSE]
  /\ pc = [t \in Threads |-> "idle"]
  /\ target = [t \in Threads |-> None]
  /\ result = [t \in Threads |-> "error"]
  /\ files \in {f \in [Paths -> {None, Old}] : \A p \in Paths : p[1] # "plain" => f[p] = None}
  /\ spared = [j \in Jobs |-> {}]
-----------------------------------------------------------------------------
(* Starting.                                                               *)

\* Lists of different sources: h_convert_batch drops repeated selections.
Batches(t) ==
  UNION {{s \in [1..n -> MayConvert[t]] : \A i, k \in 1..n : i # k => s[i] # s[k]}
         : n \in 1..MaxItems}

\* Mutant: every item gets <stem>.md, taken or not.
PlannedPlain(s, i) == <<"plain", Stem[s[i]]>>

\* batch_output_paths: the first source of a stem gets <stem>.md, the others a name
\* with their digest, before any worker runs.
Planned(s, i) ==
  IF \E k \in 1..(i - 1) : Stem[s[k]] = Stem[s[i]]
    THEN <<"digest", s[i]>>
    ELSE <<"plain", Stem[s[i]]>>

\* h_convert_batch and start_convert_job
Start(j) ==
  /\ pc[j] = "idle"
  /\ \E s \in Batches(j), o \in BOOLEAN :
       /\ sources' = [sources EXCEPT ![j] = s]
       /\ status' = [status EXCEPT ![j] = [i \in 1..Len(s) |-> "queued"]]
       /\ overwrite' = [overwrite EXCEPT ![j] = o]
  /\ Goto(j, "take")
  /\ UNCHANGED <<cancel, finished, rename, target, result, files, spared>>

\* h_convert with on_exists = skip, overwrite or rename
Ask(c) ==
  /\ pc[c] = "idle"
  /\ \E s \in MayConvert[c] : sources' = [sources EXCEPT ![c] = <<s>>]
  /\ \E o, r \in BOOLEAN :
       /\ ~(o /\ r)
       /\ overwrite' = [overwrite EXCEPT ![c] = o]
       /\ rename' = [rename EXCEPT ![c] = r]
  /\ Goto(c, "convert")
  /\ UNCHANGED <<status, cancel, finished, target, result, files, spared>>
-----------------------------------------------------------------------------
(* The worker's two critical sections.                                     *)

\* Under the lock: a cancel gives up the items not yet begun, the end of the list
\* finishes the job, and otherwise the next item begins.
TakeItem(j) ==
  /\ pc[j] = "take"
  /\ ~cancel[j] /\ Queued(j) # {}
  /\ \E i \in Queued(j) :
       /\ \A k \in Queued(j) : i <= k
       /\ status' = [status EXCEPT ![j][i] = "running"]
  /\ Goto(j, "convert")
  /\ UNCHANGED <<cancel, finished, sources, overwrite, rename, target, result, files, spared>>

\* Mutant: a cancel repaints the items that are over, too.
FinishJobCancelsAll(j) ==
  /\ pc[j] = "take"
  /\ cancel[j] \/ Queued(j) = {}
  /\ status' = [status EXCEPT ![j] =
       IF cancel[j] THEN [i \in DOMAIN status[j] |-> "canceled"] ELSE @]
  /\ finished' = [finished EXCEPT ![j] = TRUE]
  /\ Goto(j, "over")
  /\ UNCHANGED <<cancel, sources, overwrite, rename, target, result, files, spared>>

FinishJob(j) ==
  /\ pc[j] = "take"
  /\ cancel[j] \/ Queued(j) = {}
  /\ status' = [status EXCEPT ![j] = [i \in DOMAIN status[j] |->
                  IF status[j][i] = "queued" THEN "canceled" ELSE status[j][i]]]
  /\ finished' = [finished EXCEPT ![j] = TRUE]
  /\ Goto(j, "over")
  /\ UNCHANGED <<cancel, sources, overwrite, rename, target, result, files, spared>>

\* Mutant: the worker returns after an item that failed.
RecordItemStops(j) ==
  /\ pc[j] = "record"
  /\ status' = [status EXCEPT ![j] = [i \in DOMAIN status[j] |->
                  IF i \in Running(j) THEN result[j] ELSE status[j][i]]]
  /\ Goto(j, IF result[j] = "error" THEN "over" ELSE "take")
  /\ UNCHANGED <<cancel, finished, sources, overwrite, rename, target, result, files, spared>>

\* Under the lock: the outcome of the item.
RecordItem(j) ==
  /\ pc[j] = "record"
  /\ status' = [status EXCEPT ![j] = [i \in DOMAIN status[j] |->
                  IF i \in Running(j) THEN result[j] ELSE status[j][i]]]
  /\ Goto(j, "take")
  /\ UNCHANGED <<cancel, finished, sources, overwrite, rename, target, result, files, spared>>
-----------------------------------------------------------------------------
(* Converting and writing, by workers and by the single-file route.        *)

\* With its outcome decided a worker records it and a single request answers it.
Settle(t, outcome) ==
  /\ result' = [result EXCEPT ![t] = outcome]
  /\ Goto(t, IF t \in Jobs THEN "record" ELSE "over")

\* The converter returns an error or no text; for a worker a panic counts as that,
\* and for a single request the panic is answered by dispatch_guarded.
ConvertFails(t) ==
  /\ pc[t] = "convert"
  /\ Settle(t, "error")
  /\ UNCHANGED <<jobVars, overwrite, rename, target, files, spared>>

\* A worker has its planned output; the single route decides on one now.
Converted(t) ==
  /\ pc[t] = "convert"
  /\ target' = [target EXCEPT ![t] =
       IF t \in Jobs THEN Planned(sources[t], CHOOSE i \in Running(t) : TRUE)
                     ELSE <<"plain", Stem[Source(t)]>>]
  /\ Goto(t, IF t \in Singles /\ rename[t] /\ Source(t) \notin Uploads THEN "pick" ELSE "exists")
  /\ UNCHANGED <<jobVars, overwrite, rename, result, files, spared>>

\* mdcheck_check panics on the converted text: a worker thread is gone, a single
\* request is answered with an error.
CheckPanics(t) ==
  /\ CheckMayPanic
  /\ pc[t] = "convert"
  /\ result' = [result EXCEPT ![t] = "error"]
  /\ Goto(t, IF t \in Jobs THEN "dead" ELSE "over")
  /\ UNCHANGED <<jobVars, overwrite, rename, target, files, spared>>

\* free_output_path: the plain name if it is free, or the first free copy; when
\* there is none, the plain name after all.
Pick(c) ==
  LET st == Stem[Source(c)]
      free == {n \in 1..MaxCopies : files[<<"copy", st, n>>] = None} IN
  /\ pc[c] = "pick"
  /\ IF files[<<"plain", st>>] = None \/ free = {}
       THEN target' = [target EXCEPT ![c] = <<"plain", st>>]
       ELSE \E n \in free :
              /\ \A m \in free : n <= m
              /\ target' = [target EXCEPT ![c] = <<"copy", st, n>>]
  /\ Goto(c, "exists")
  /\ UNCHANGED <<jobVars, overwrite, rename, result, files, spared>>

\* An existing output may be replaced by request, below the upload folder, or when
\* the name was just found to be free.
MayReplace(t) == overwrite[t] \/ rename[t] \/ Source(t) \in Uploads

\* Mutant: the look at the output is forgotten.
DontCheckExists(t) ==
  /\ pc[t] = "exists"
  /\ Goto(t, "open") /\ UNCHANGED result
  /\ UNCHANGED <<jobVars, overwrite, rename, target, files, spared>>

CheckExists(t) ==
  /\ pc[t] = "exists"
  /\ IF files[target[t]] # None /\ ~MayReplace(t)
       THEN Settle(t, "skipped")
       ELSE Goto(t, "open") /\ UNCHANGED result
  /\ UNCHANGED <<jobVars, overwrite, rename, target, files, spared>>

\* write_md, fs::write: the file is there and empty,
WriteOpen(t) ==
  /\ pc[t] = "open"
  /\ files' = [files EXCEPT ![target[t]] = Empty]
  /\ Goto(t, "close")
  /\ UNCHANGED <<jobVars, overwrite, rename, target, result, spared>>

\* and then it holds the text; what another thread wrote meanwhile may stick out
\* behind a shorter text.
WriteClose(t) ==
  /\ pc[t] = "close"
  /\ \E b \in {<<t, Source(t)>>} \union (IF files[target[t]] = Empty THEN {} ELSE {Mixed}) :
       files' = [files EXCEPT ![target[t]] = b]
  /\ Settle(t, "ok")
  /\ UNCHANGED <<jobVars, overwrite, rename, target, spared>>

\* The open or the write fails; the latter leaves the truncated file.
WriteFails(t) ==
  /\ pc[t] \in {"open", "close"}
  /\ Settle(t, "error")
  /\ UNCHANGED <<jobVars, overwrite, rename, target, files, spared>>
-----------------------------------------------------------------------------
\* h_convert_cancel, and cancel_convert_job behind /api/task/cancel: the latter
\* leaves a finished job alone, the former does not.
Cancel(j) ==
  /\ status[j] # <<>>
  /\ cancel' = [cancel EXCEPT ![j] = TRUE]
  /\ spared' = [spared EXCEPT ![j] = @ \union Queued(j)]
  /\ UNCHANGED <<status, finished, sources, overwrite, rename, pc, target, result, files>>

Work(t) ==
  \/ t \in Jobs /\ (TakeItem(t) \/ FinishJob(t) \/ RecordItem(t))
  \/ t \in Singles /\ Pick(t)
  \/ ConvertFails(t) \/ Converted(t) \/ CheckPanics(t)
  \/ CheckExists(t) \/ WriteOpen(t) \/ WriteClose(t) \/ WriteFails(t)

Next ==
  \/ \E j \in Jobs : Start(j) \/ Cancel(j)
  \/ \E c \in Singles : Ask(c)
  \/ \E t \in Threads : Work(t)

\* Threads are scheduled, and the converter returns.
Fairness == \A t \in Threads : WF_vars(Work(t))

Spec == Init /\ [][Next]_vars
FairSpec == Spec /\ Fairness
-----------------------------------------------------------------------------
(* Properties.                                                             *)

TypeOK ==
  /\ status \in [Jobs -> Seq(Statuses)]
  /\ cancel \in [Jobs -> BOOLEAN]
  /\ finished \in [Jobs -> BOOLEAN]
  /\ sources \in [Threads -> Seq(Sources)]
  /\ overwrite \in [Threads -> BOOLEAN]
  /\ rename \in [Threads -> BOOLEAN]
  /\ pc \in [Threads -> Labels]
  /\ target \in [Threads -> Paths \union {None}]
  /\ result \in [Threads -> Outcomes]
  /\ files \in [Paths -> {None, Empty, Old, Mixed} \union (Threads \X Sources)]
  /\ \A j \in Jobs : spared[j] \subseteq DOMAIN status[j]

\* The job table, seen by the progress route, is a list worked through from front
\* to back: one item at a time, none after a cancel was noticed, none twice.
Progress == INSTANCE JobProgress
ProgressSpec == Progress!Spec

\* A cancel spares every item that had not begun: none of them is converted, and a
\* finished job leaves no item behind (convert_worker: the flag is read again
\* between items).
CancelSparesQueued ==
  \A j \in Jobs :
    /\ \A i \in spared[j] : status[j][i] \in {"queued", "canceled"}
    /\ finished[j] => \A i \in DOMAIN status[j] :
         status[j][i] \in Outcomes \/ (cancel[j] /\ status[j][i] = "canceled")

\* An item reported "ok", or a single request answered "saved", has its own text
\* in its own output.
OkIsThereOf(t) ==
  IF t \in Jobs
    THEN \A i \in DOMAIN status[t] :
           status[t][i] = "ok" => files[Planned(sources[t], i)] = <<t, sources[t][i]>>
    ELSE pc[t] = "over" /\ result[t] = "ok" => files[target[t]] = <<t, Source(t)>>

StemsOf(t) == {Stem[sources[t][i]] : i \in DOMAIN sources[t]}

\* No other job or request converts a document of the same folder and name so far.
HasStemsAlone(t) == \A u \in Threads \ {t} : StemsOf(t) \intersect StemsOf(u) = {}

\* Within one job no output is written twice and no success is false, whatever its
\* sources are called (comment of h_convert_batch: otherwise two workers could "race
\* on the same output and report a false success").
OkIsThere == \A t \in Threads : HasStemsAlone(t) => OkIsThereOf(t)

\* Only a request to overwrite, or the upload folder, replaces a file: neither
\* "skip" nor "rename" does (OnExists; convert_worker, allow_overwrite), nor a job
\* its own outputs, as long as nobody else converts the same name.
Replaces(t) == pc[t] = "open" /\ pc'[t] = "close" /\ files[target[t]] # None
ReplacesOnlyOnRequest ==
  [][\A t \in Threads :
       Replaces(t) /\ HasStemsAlone(t) => overwrite[t] \/ Source(t) \in Uploads]_vars

\* A job that was started finishes, cancelled or not, unless its worker is lost to
\* a panic in the one call of convert_worker that is outside its catch_unwind.
JobsFinish == \A j \in Jobs : status[j] # <<>> ~> finished[j] \/ pc[j] = "dead"
=============================================================================

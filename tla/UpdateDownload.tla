--------------------------- MODULE UpdateDownload ---------------------------
(***************************************************************************)
(* The in-app update lane of batch2.rs: one shared DownloadState behind a  *)
(* mutex, one detached worker thread per accepted download, and the        *)
(* begin, cancel and apply routes, each on its own connection thread.      *)
(*                                                                         *)
(* A package is abstracted to its SHA-256 digest, so the bytes of a file   *)
(* are a member of Digests, or Bad when no asset has that digest.          *)
(***************************************************************************)
EXTENDS Naturals

CONSTANTS
  Workers,       \* download threads; the number of downloads that may be accepted
  Names,         \* package file names under <temp>/ReadMDUpdates
  Digests,       \* digests the release page announces
  Bad,           \* bytes with any other digest (truncated, corrupted, replaced)
  None,          \* no file, and the empty string of the state's text fields
  MaxChunks,     \* bound: reads a response body may take
  SpawnMayFail   \* may the operating system refuse the worker thread?

ASSUME UpdateAssumption ==
  /\ Bad \notin Digests
  /\ None \notin Names \union Digests \union {Bad}
  /\ MaxChunks \in Nat
  /\ SpawnMayFail \in BOOLEAN

VARIABLES
  state,      \* DownloadState, guarded by DOWNLOAD_STATE
  pc,         \* where each worker is
  job,        \* DownloadJob of each worker: what was asked for
  part,       \* the worker's own .part file: None, Bad while partial, or its bytes
  chunks,     \* reads the worker has left
  files,      \* name -> bytes of the published package, or None
  apply,      \* the apply route: idle, or the snapshot it is about to check
  replaced,   \* names whose file somebody outside replaced since its publication
  published,  \* history: workers that renamed their part onto the final name
  stopped,    \* history: workers, alone and still to look at the flag, when a
              \* cancel was answered true
  accepted    \* history: [name, bytes] the apply gate let through

vars == <<state, pc, job, part, chunks, files, apply, replaced, published, stopped, accepted>>
workerVars == <<job, part, chunks>>
history    == <<published, stopped, accepted>>

Job == [name: Names, sha: Digests]
NoJob == [name |-> None, sha |-> None]

\* Between the acceptance of a download and the end of its thread. "spawn" is
\* still the route's own thread; from "lowered" on, the worker has written its
\* final status and only cleans up.
Fetching == {"fetch", "check", "read", "eof", "hash", "publish", "ready", "fail"}
Ending   == {"lowered", "guard", "unwind"}
Over     == {"ended", "panicked", "unborn"}
Labels   == {"idle", "spawn"} \union Fetching \union Ending \union Over
Statuses == {"idle", "downloading", "verifying", "ready", "cancelled", "error"}

Goto(w, label) == pc' = [pc EXCEPT ![w] = label]

Init ==
  /\ state = [running |-> FALSE, status |-> "idle", cancel |-> FALSE,
              target |-> None, expected |-> None, verified |-> None]
  /\ pc = [w \in Workers |-> "idle"]
  /\ job = [w \in Workers |-> NoJob]
  /\ part = [w \in Workers |-> None]
  /\ chunks = [w \in Workers |-> MaxChunks]
  /\ files = [n \in Names |-> None]
  /\ apply = NoJob
  /\ replaced = {}
  /\ published = {} /\ stopped = {} /\ accepted = {}
-----------------------------------------------------------------------------
(* Starting.                                                               *)

\* begin_download after its checks: refused while running, otherwise every field
\* is reset in one critical section and the caller owes a thread.
Begin(w, j) ==
  /\ pc[w] = "idle"
  /\ ~state.running
  /\ state' = [running |-> TRUE, status |-> "downloading", cancel |-> FALSE,
               target |-> j.name, expected |-> j.sha, verified |-> None]
  /\ job' = [job EXCEPT ![w] = j]
  /\ Goto(w, "spawn")
  /\ UNCHANGED <<part, chunks, files, apply, replaced, history>>

Spawn(w) ==
  /\ pc[w] = "spawn"
  /\ Goto(w, "fetch")
  /\ UNCHANGED <<state, workerVars, files, apply, replaced, history>>

\* thread::spawn panics when no thread can be made; the route answers 500 and no
\* RunningDownloadGuard was ever built.
SpawnFails(w) ==
  /\ SpawnMayFail
  /\ pc[w] = "spawn"
  /\ Goto(w, "unborn")
  /\ UNCHANGED <<state, workerVars, files, apply, replaced, history>>
-----------------------------------------------------------------------------
(* The worker: run_download and land_download.                             *)

\* The response arrives and the part file is created.
HttpAnswers(w) ==
  /\ pc[w] = "fetch"
  /\ part' = [part EXCEPT ![w] = Bad]
  /\ Goto(w, "check")
  /\ UNCHANGED <<state, job, chunks, files, apply, replaced, history>>

\* The request, the creation of the part, a read or a write returns an error.
TransferFails(w) ==
  /\ pc[w] \in {"fetch", "read", "eof"}
  /\ Goto(w, "fail")
  /\ UNCHANGED <<state, workerVars, files, apply, replaced, history>>

\* A panic inside the HTTP client unwinds to the guard.
TransferPanics(w) ==
  /\ pc[w] \in {"fetch", "read"}
  /\ Goto(w, "unwind")
  /\ UNCHANGED <<state, workerVars, files, apply, replaced, history>>

\* Mutant: the flag is looked at before the first read only.
CheckCancelOnce(w) ==
  /\ pc[w] = "check"
  /\ IF state.cancel /\ chunks[w] = MaxChunks
       THEN /\ part' = [part EXCEPT ![w] = None]
            /\ state' = [state EXCEPT !.status = "cancelled", !.running = FALSE]
            /\ Goto(w, "guard")
       ELSE /\ UNCHANGED <<part, state>>
            /\ Goto(w, "read")
  /\ UNCHANGED <<job, chunks, files, apply, replaced, history>>

\* The loop looks at the shared cancel flag before every read, not after the last.
CheckCancel(w) ==
  /\ pc[w] = "check"
  /\ IF state.cancel
       THEN /\ part' = [part EXCEPT ![w] = None]
            /\ state' = [state EXCEPT !.status = "cancelled", !.running = FALSE]
            /\ Goto(w, "guard")
       ELSE /\ UNCHANGED <<part, state>>
            /\ Goto(w, "read")
  /\ UNCHANGED <<job, chunks, files, apply, replaced, history>>

ReadChunk(w) ==
  /\ pc[w] = "read"
  /\ chunks[w] > 0
  /\ chunks' = [chunks EXCEPT ![w] = @ - 1]
  /\ Goto(w, "check")
  /\ UNCHANGED <<state, job, part, files, apply, replaced, history>>

\* The body ends: the part holds the announced package or something else.
ReadEof(w) ==
  /\ pc[w] = "read"
  /\ \E b \in {job[w].sha, Bad} : part' = [part EXCEPT ![w] = b]
  /\ Goto(w, "eof")
  /\ UNCHANGED <<state, job, chunks, files, apply, replaced, history>>

SetVerifying(w) ==
  /\ pc[w] = "eof"
  /\ state' = [state EXCEPT !.status = "verifying"]
  /\ Goto(w, "hash")
  /\ UNCHANGED <<workerVars, files, apply, replaced, history>>

\* Mutant: the digest is computed and not compared.
CompareNothing(w) ==
  /\ pc[w] = "hash"
  /\ Goto(w, "publish")
  /\ UNCHANGED <<state, workerVars, files, apply, replaced, history>>

Compare(w) ==
  /\ pc[w] = "hash"
  /\ Goto(w, IF part[w] = job[w].sha THEN "publish" ELSE "fail")
  /\ UNCHANGED <<state, workerVars, files, apply, replaced, history>>

Publish(w) ==
  /\ pc[w] = "publish"
  /\ files' = [files EXCEPT ![job[w].name] = part[w]]
  /\ part' = [part EXCEPT ![w] = None]
  /\ replaced' = replaced \ {job[w].name}
  /\ published' = published \union {w}
  /\ Goto(w, "ready")
  /\ UNCHANGED <<state, job, chunks, apply, stopped, accepted>>

\* Hashing or the rename fails.
PublishFails(w) ==
  /\ pc[w] \in {"hash", "publish"}
  /\ Goto(w, "fail")
  /\ UNCHANGED <<state, workerVars, files, apply, replaced, history>>

SetReady(w) ==
  /\ pc[w] = "ready"
  /\ state' = [state EXCEPT !.status = "ready", !.running = FALSE, !.verified = job[w].sha]
  /\ Goto(w, "guard")
  /\ UNCHANGED <<workerVars, files, apply, replaced, history>>

\* fail_download
Fail(w) ==
  /\ pc[w] = "fail"
  /\ state' = [state EXCEPT !.status = "error", !.running = FALSE,
                            !.target = None, !.expected = None]
  /\ Goto(w, "lowered")
  /\ UNCHANGED <<workerVars, files, apply, replaced, history>>

CleanupPart(w) ==
  /\ pc[w] = "lowered"
  /\ part' = [part EXCEPT ![w] = None]
  /\ Goto(w, "guard")
  /\ UNCHANGED <<state, job, chunks, files, apply, replaced, history>>

\* Mutant: no guard, so that only the explicit exits lower the flag.
NoGuard(w) ==
  /\ pc[w] \in {"guard", "unwind"}
  /\ Goto(w, IF pc[w] = "guard" THEN "ended" ELSE "panicked")
  /\ UNCHANGED <<state, workerVars, files, apply, replaced, history>>

\* Drop for RunningDownloadGuard: lowers the flag again, whoever raised it last.
DropGuard(w) ==
  /\ pc[w] \in {"guard", "unwind"}
  /\ state' = [state EXCEPT !.running = FALSE]
  /\ Goto(w, IF pc[w] = "guard" THEN "ended" ELSE "panicked")
  /\ UNCHANGED <<workerVars, files, apply, replaced, history>>
-----------------------------------------------------------------------------
(* The cancel and apply routes, and the world outside.                     *)

\* No other download is under way, nor the end of an earlier one.
WorksAlone(w) == \A v \in Workers \ {w} : pc[v] \in {"idle"} \union Over

\* h_update_cancel, when it answers true; otherwise it changes nothing.
Cancel ==
  /\ state.running
  /\ state' = [state EXCEPT !.cancel = TRUE, !.status = "cancelled"]
  /\ stopped' = stopped \union {w \in Workers :
                   pc[w] \in {"spawn", "fetch", "check"} /\ WorksAlone(w)}
  /\ UNCHANGED <<pc, workerVars, files, apply, replaced, published, accepted>>

\* validate_ready_update copies the state once; what it refuses on the copy alone
\* changes nothing. A file_path in the body must name the trusted target.
ApplySnapshot ==
  /\ apply = NoJob
  /\ state.status = "ready"
  /\ state.expected # None
  /\ apply' = [name |-> state.target, sha |-> state.expected, verified |-> state.verified]
  /\ UNCHANGED <<state, pc, workerVars, files, replaced, history>>

\* Mutant: the gate trusts the digest the worker left in the state.
ApplyTrustsState ==
  /\ apply # NoJob
  /\ apply' = NoJob
  /\ accepted' = IF apply.verified = apply.sha
                   THEN accepted \union {[name |-> apply.name, sha |-> files[apply.name]]}
                   ELSE accepted
  /\ UNCHANGED <<state, pc, workerVars, files, replaced, published, stopped>>

\* Then it hashes the file as it is now and compares the three digests.
ApplyHash ==
  /\ apply # NoJob
  /\ apply' = NoJob
  /\ accepted' = IF files[apply.name] = apply.sha /\ apply.verified = apply.sha
                   THEN accepted \union {[name |-> apply.name, sha |-> files[apply.name]]}
                   ELSE accepted
  /\ UNCHANGED <<state, pc, workerVars, files, replaced, published, stopped>>

\* Something outside replaces a staged package in the temporary folder (once: the
\* bound).
Replace(n) ==
  /\ replaced = {}
  /\ files[n] # None
  /\ files' = [files EXCEPT ![n] = Bad]
  /\ replaced' = {n}
  /\ UNCHANGED <<state, pc, workerVars, apply, history>>

Work(w) ==
  \/ Spawn(w) \/ SpawnFails(w)
  \/ HttpAnswers(w) \/ TransferFails(w) \/ TransferPanics(w)
  \/ CheckCancel(w) \/ ReadChunk(w) \/ ReadEof(w)
  \/ SetVerifying(w) \/ Compare(w) \/ Publish(w) \/ PublishFails(w) \/ SetReady(w)
  \/ Fail(w) \/ CleanupPart(w) \/ DropGuard(w)

Next ==
  \/ \E w \in Workers : (\E j \in Job : Begin(w, j)) \/ Work(w)
  \/ Cancel \/ ApplySnapshot \/ ApplyHash
  \/ \E n \in Names : Replace(n)

\* Threads are scheduled and the 25 s client timeout ends every transfer.
Fairness == \A w \in Workers : WF_vars(Work(w))

Spec == Init /\ [][Next]_vars
FairSpec == Spec /\ Fairness
-----------------------------------------------------------------------------
(* Properties.                                                             *)

TypeOK ==
  /\ state \in [running: BOOLEAN, status: Statuses, cancel: BOOLEAN,
                target: Names \union {None}, expected: Digests \union {None},
                verified: Digests \union {None}]
  /\ pc \in [Workers -> Labels]
  /\ job \in [Workers -> Job \union {NoJob}]
  /\ \A w \in Workers : pc[w] # "idle" => job[w] \in Job
  /\ part \in [Workers -> Digests \union {Bad, None}]
  /\ chunks \in [Workers -> 0..MaxChunks]
  /\ files \in [Names -> Digests \union {Bad, None}]
  /\ apply \in {NoJob} \union [name: Names, sha: Digests,
                               verified: Digests \union {None}]
  /\ replaced \subseteq Names
  /\ published \subseteq Workers /\ stopped \subseteq Workers
  /\ accepted \subseteq Job

\* Whatever the workers do to each other's state, a package under its final name
\* is the one some worker was asked for and hashed (land_download: the published
\* name is only produced by a verified rename).
PublishedIsVerified ==
  \A n \in Names \ replaced :
    files[n] # None => \E w \in published : job[w] = [name |-> n, sha |-> files[n]]

\* The apply gate lets through only a package that was published under that name
\* with those bytes, even when the state was mixed from two downloads or the file
\* was replaced after its verification.
AcceptedIsVerified == \A a \in accepted : \E w \in published : job[w] = a

\* Whichever way a download ends, short of a panic, its part file is gone.
NoPartLeft ==
  \A w \in Workers : pc[w] \in {"unborn", "ended"} => part[w] = None

\* A raised running flag is lowered again, so that no download is refused for ever
\* (comment of RunningDownloadGuard) - unless a thread could not be made: the guard
\* is built by the thread, and nobody else lowers the flag.
RunningIsLowered == state.running ~> ~state.running \/ \E w \in Workers : pc[w] = "unborn"

\* A download whose cancel was answered true while it had still to look at the flag is
\* never published (comment of h_update_cancel: "the worker clears it when it observes
\* the flag"), as long as it works alone: the end of an earlier worker can let a third
\* download begin, and that one resets the flag.
CancelledIsNotPublished == stopped \intersect published = {}
=============================================================================

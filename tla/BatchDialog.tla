---------------------------- MODULE BatchDialog ----------------------------
(***************************************************************************)
(* The batch workbench of the page (features/batch.js, features/convert.js)*)
(* in front of the conversion jobs of the server (JobProgress).            *)
(*                                                                         *)
(* JavaScript runs a handler to its next await without interruption, so a  *)
(* handler is one action per stretch between awaits.  The variables of     *)
(* batch.js are global to the page: a handler that was begun by an earlier *)
(* run of the workbench goes on working on the variables of the current    *)
(* one.                                                                    *)
(***************************************************************************)
EXTENDS JobTable, FiniteSets

CONSTANTS
  Docs,            \* paths of documents
  MaxImages,       \* bound: images of one run
  MaxRuns,         \* bound: times enqueueBatchFiles is called
  Polls,           \* bound: progress requests in flight; with one, each is answered
                   \* within the 600 ms of the interval, which does not wait for it
  Interrupts,      \* may the user close the workbench, or drop files on the page or
                   \* on the pet, while a batch is running?
  RequestsMayFail, \* may a progress request, or the answer to the start of a job, be lost?
  FilesMayVanish   \* may a document be gone when the server looks (Path::is_file)?

ASSUME DialogAssumption ==
  /\ MaxItems \in Nat /\ MaxImages \in Nat /\ MaxRuns \in Nat
  /\ {Interrupts, RequestsMayFail, FilesMayVanish} \subseteq BOOLEAN
  /\ None \notin Jobs

VARIABLES
  jobDocs,    \* the sources of each job
  run,        \* how often enqueueBatchFiles ran
  docs,       \* the documents of each run
  images,     \* the number of images of each run
  docRow,     \* batchRowsBySrc: the current run's row of each document
  imgRow,     \* the rows each OCR lane holds
  lane,       \* where runBatchDocsLane of each run is
  laneJob,    \* the job it was answered
  ocr,        \* where runBatchOcrLane of each run is
  image,      \* the image it waits for
  jobId,      \* batchJobId
  timer,      \* batchJobTimer: the job the interval asks about
  polls,      \* progress requests in flight, with their answer once there is one
  posted,     \* cancel requests in flight
  cancelRequested, ocrCanceled, docsDone, ocrDone, batchFinished,
  batchActive,
  count,      \* batchCount
  disturbed   \* history: what got in the way so far

server == <<status, cancel, finished>>
request == <<run, docs, images>>
docLane == <<lane, laneJob>>
ocrLane == <<ocr, image>>
cancels == <<cancelRequested, ocrCanceled>>
ending == <<docsDone, ocrDone, batchFinished, batchActive>>
page == <<request, docLane, ocrLane, jobId, timer, posted, cancels, ending>>
rows == <<docRow, imgRow, count>>
dialogVars == <<server, jobDocs, polls, page, rows, disturbed>>

Server == INSTANCE JobProgress

Runs  == 1..MaxRuns
Kinds == {"ok", "skipped", "error", "canceled"}
NoRow == [shown |-> "none", done |-> FALSE]
QueuedRow == [shown |-> "queued", done |-> FALSE]

\* Lists of different documents.
DocLists == UNION {{s \in [1..n -> Docs] : \A i, k \in 1..n : i # k => s[i] # s[k]}
                   : n \in 0..MaxItems}

DialogInit ==
  /\ Server!Init
  /\ jobDocs = [j \in Jobs |-> <<>>]
  /\ run = 0
  /\ docs = [r \in Runs |-> <<>>]
  /\ images = [r \in Runs |-> 0]
  /\ docRow = [d \in Docs |-> NoRow]
  /\ imgRow = [r \in Runs |-> [i \in 1..MaxImages |-> NoRow]]
  /\ lane = [r \in Runs |-> "none"]
  /\ laneJob = [r \in Runs |-> None]
  /\ ocr = [r \in Runs |-> "none"]
  /\ image = [r \in Runs |-> 0]
  /\ jobId = None /\ timer = None
  /\ polls = [p \in Polls |-> None]
  /\ posted = {}
  /\ cancelRequested = FALSE /\ ocrCanceled = FALSE
  /\ docsDone = FALSE /\ ocrDone = FALSE /\ batchFinished = FALSE
  /\ batchActive = FALSE
  /\ count = [k \in Kinds |-> 0]
  /\ disturbed = {}
-----------------------------------------------------------------------------
(* Rows, counters and the end of a batch.                                  *)

\* setBatchRow and countBatchRow: any painted status but "queued" closes the row's
\* account, also "running", which is in no counter.
Paint(row, s) == [shown |-> s, done |-> TRUE]

\* Mutant: one lane is enough.
MaybeFinishEither(docsOver, ocrOver) ==
  /\ docsDone' = docsOver
  /\ ocrDone' = ocrOver
  /\ IF ~batchFinished /\ (docsOver \/ ocrOver)
       THEN batchFinished' = TRUE /\ batchActive' = FALSE
       ELSE UNCHANGED <<batchFinished, batchActive>>

\* Mutant: the check comes before the lane's own flag is set.
MaybeFinishEarly(docsOver, ocrOver) ==
  /\ docsDone' = docsOver
  /\ ocrDone' = ocrOver
  /\ IF ~batchFinished /\ docsDone /\ ocrDone
       THEN batchFinished' = TRUE /\ batchActive' = FALSE
       ELSE UNCHANGED <<batchFinished, batchActive>>

\* maybeFinishBatch with the lanes' flags as they are now.
MaybeFinish(docsOver, ocrOver) ==
  /\ docsDone' = docsOver
  /\ ocrDone' = ocrOver
  /\ IF ~batchFinished /\ docsOver /\ ocrOver
       THEN batchFinished' = TRUE /\ batchActive' = FALSE
       ELSE UNCHANGED <<batchFinished, batchActive>>

\* failBatchDocsLane: polling stops, and whatever row is open shows an error.
FailDocsLane ==
  LET open == {d \in Docs : docRow[d] # NoRow /\ ~docRow[d].done} IN
  /\ timer' = None
  /\ docRow' = [d \in Docs |-> IF d \in open THEN Paint(docRow[d], "error") ELSE docRow[d]]
  /\ count' = [count EXCEPT !["error"] = @ + Cardinality(open)]
  /\ MaybeFinish(TRUE, ocrDone)
  /\ UNCHANGED imgRow
-----------------------------------------------------------------------------
(* Opening and closing.                                                    *)

\* What enqueueBatchFiles and openBatchModal do to the page, but for the interval: the
\* variables are reset and the lanes start.
Reset(r, ds, n) ==
  /\ run' = r
  /\ docs' = [docs EXCEPT ![r] = ds]
  /\ images' = [images EXCEPT ![r] = n]
  /\ docRow' = [d \in Docs |-> IF \E i \in DOMAIN ds : ds[i] = d THEN QueuedRow ELSE NoRow]
  /\ imgRow' = [imgRow EXCEPT ![r] = [i \in 1..MaxImages |-> IF i <= n THEN QueuedRow ELSE NoRow]]
  /\ lane' = [lane EXCEPT ![r] = IF ds = <<>> THEN "over" ELSE "module"]
  /\ ocr' = [ocr EXCEPT ![r] = IF n = 0 THEN "over" ELSE "module"]
  /\ jobId' = None
  /\ cancelRequested' = FALSE /\ ocrCanceled' = FALSE /\ batchFinished' = FALSE
  /\ docsDone' = (ds = <<>>) /\ ocrDone' = (n = 0)
  /\ batchActive' = TRUE
  /\ count' = [k \in Kinds |-> 0]
  /\ UNCHANGED <<server, jobDocs, laneJob, image, polls, posted>>

Interrupted == disturbed' = disturbed \union (IF batchActive THEN {"interrupted"} ELSE {})

\* Mutant: startBatchConvert does not ask isBatchRunning.
EnqueueWhileRunning(ds, n) ==
  /\ run < MaxRuns /\ Len(ds) + n > 0
  /\ Reset(run + 1, ds, n)
  /\ timer' = None
  /\ UNCHANGED disturbed

\* startBatchConvert refuses while a batch is running; the drop handlers and the pet
\* call enqueueBatchFiles at once.
Enqueue(ds, n) ==
  /\ run < MaxRuns /\ Len(ds) + n > 0
  /\ batchActive => Interrupts
  /\ Reset(run + 1, ds, n) /\ Interrupted
  /\ timer' = None

\* closeConvertModal, closeBatchModal: polling stops and the lock is released.
Close ==
  /\ Interrupts /\ batchActive
  /\ timer' = None
  /\ batchActive' = FALSE
  /\ disturbed' = disturbed \union {"interrupted"}
  /\ UNCHANGED <<server, jobDocs, polls, rows, request, docLane, ocrLane, jobId,
                 posted, cancels, docsDone, ocrDone, batchFinished>>

\* onBatchCancel and sendBatchCancel; without a job id the request waits for it.  The
\* button is there while the batch is running and the workbench is open.
CancelClicked ==
  /\ batchActive
  /\ ocrCanceled' = TRUE /\ cancelRequested' = TRUE
  /\ posted' = IF jobId # None THEN posted \union {jobId} ELSE posted
  /\ UNCHANGED <<server, jobDocs, disturbed, polls, rows, request, docLane, ocrLane, jobId,
                 timer, ending>>
-----------------------------------------------------------------------------
(* The document lane.                                                      *)

ModuleReady(r) ==
  /\ lane[r] = "module"
  /\ lane' = [lane EXCEPT ![r] = "posting"]
  /\ UNCHANGED <<server, jobDocs, disturbed, polls, rows, request, laneJob, ocrLane, jobId,
                 timer, posted, cancels, ending>>

\* The convert module does not load, the server refuses the batch, or its answer is lost.
DocsLaneFails(r) ==
  /\ lane[r] \in {"module", "posting"} \/ (RequestsMayFail /\ lane[r] = "answered")
  /\ lane' = [lane EXCEPT ![r] = "over"]
  /\ FailDocsLane
  /\ disturbed' = disturbed \union (IF lane[r] = "answered" THEN {"lost"} ELSE {})
  /\ UNCHANGED <<server, jobDocs, polls, request, laneJob, ocrLane, jobId, posted,
                 cancels>>

\* What is left of a list, in its order, when some of its documents are left out.
Sublists(s) ==
  {t \in DocLists : \E f \in [DOMAIN t -> DOMAIN s] :
                     /\ \A i, k \in DOMAIN t : i < k => f[i] < f[k]
                     /\ \A i \in DOMAIN t : t[i] = s[f[i]]}

\* The server starts a job for the posted documents that are still files.
PostArrives(r, j) ==
  /\ lane[r] = "posting"
  /\ \E kept \in Sublists(docs[r]) :
       /\ kept # <<>>
       /\ FilesMayVanish \/ kept = docs[r]
       /\ Server!Start(j, Len(kept))
       /\ disturbed' = disturbed \union (IF kept = docs[r] THEN {} ELSE {"vanished"})
       /\ jobDocs' = [jobDocs EXCEPT ![j] = kept]
  /\ lane' = [lane EXCEPT ![r] = "answered"]
  /\ laneJob' = [laneJob EXCEPT ![r] = j]
  /\ UNCHANGED <<polls, rows, request, ocrLane, jobId, timer, posted, cancels, ending>>

\* Mutant: a cancel from before the answer is forgotten.
PostAnsweredNoCancel(r) ==
  /\ lane[r] = "answered"
  /\ lane' = [lane EXCEPT ![r] = "over"]
  /\ jobId' = laneJob[r]
  /\ timer' = laneJob[r]
  /\ UNCHANGED <<server, jobDocs, disturbed, polls, rows, request, laneJob, ocrLane, posted,
                 cancels, ending>>

\* The answer gives the page its job id; a cancel that was waiting is sent, and the
\* interval starts.
PostAnswered(r) ==
  /\ lane[r] = "answered"
  /\ lane' = [lane EXCEPT ![r] = "over"]
  /\ jobId' = laneJob[r]
  /\ timer' = laneJob[r]
  /\ posted' = IF cancelRequested THEN posted \union {laneJob[r]} ELSE posted
  /\ UNCHANGED <<server, jobDocs, disturbed, polls, rows, request, laneJob, ocrLane, cancels,
                 ending>>

\* The interval of pollBatchJob sends a request, whether the one before was answered or
\* not, the server answers it with the state of the job at that moment,
Tick(p) ==
  /\ timer # None /\ polls[p] = None
  /\ polls' = [polls EXCEPT ![p] = [job |-> timer, items |-> <<>>, finished |-> FALSE]]
  /\ disturbed' = disturbed \union (IF \A q \in Polls : polls[q] = None THEN {}
                                                                   ELSE {"overtaken"})
  /\ UNCHANGED <<server, jobDocs, page, rows>>

PollAnswers(p) ==
  /\ polls[p] # None /\ polls[p].items = <<>>
  /\ polls' = [polls EXCEPT ![p].items = status[polls[p].job],
                            ![p].finished = finished[polls[p].job]]
  /\ UNCHANGED <<server, jobDocs, disturbed, page, rows>>

\* and the answer is painted over whatever rows the workbench has by now for the
\* job's documents (renderBatchProgress).
PollDelivered(p) ==
  LET src     == jobDocs[polls[p].job]
      items   == polls[p].items
      painted == {i \in DOMAIN items : items[i] # "queued" /\ docRow[src[i]] # NoRow} IN
  /\ polls[p] # None /\ polls[p].items # <<>>
  /\ docRow' = [d \in Docs |->
       IF \E i \in painted : src[i] = d
         THEN Paint(docRow[d], items[CHOOSE i \in painted : src[i] = d])
         ELSE docRow[d]]
  /\ count' = [k \in Kinds |-> count[k] +
       Cardinality({i \in painted : ~docRow[src[i]].done /\ items[i] = k})]
  /\ polls' = [polls EXCEPT ![p] = None]
  /\ IF polls[p].finished
       THEN timer' = None /\ MaybeFinish(TRUE, ocrDone)
       ELSE UNCHANGED <<timer, ending>>
  /\ UNCHANGED <<server, jobDocs, disturbed, imgRow, request, docLane, ocrLane, jobId, posted,
                 cancels>>

PollFails(p) ==
  /\ RequestsMayFail
  /\ polls[p] # None
  /\ polls' = [polls EXCEPT ![p] = None]
  /\ FailDocsLane
  /\ disturbed' = disturbed \union {"lost"}
  /\ UNCHANGED <<server, jobDocs, request, docLane, ocrLane, jobId, posted, cancels>>
-----------------------------------------------------------------------------
(* The OCR lane: one image after the other.                                *)

\* The rows of a lane and the counters after the images of "from" show s.
OcrPaint(r, painted, s) ==
  /\ imgRow' = [imgRow EXCEPT ![r] = [i \in 1..MaxImages |->
                  IF i \in painted THEN [shown |-> s[i], done |-> TRUE] ELSE imgRow[r][i]]]
  /\ count' = [k \in Kinds |-> count[k] +
                 Cardinality({i \in painted : ~imgRow[r][i].done /\ s[i] = k})]

\* The module is missing: every row shows an error.
OcrModuleFails(r) ==
  /\ ocr[r] = "module"
  /\ ocr' = [ocr EXCEPT ![r] = "over"] /\ UNCHANGED image
  /\ OcrPaint(r, 1..images[r], [i \in 1..MaxImages |-> "error"])
  /\ MaybeFinish(docsDone, TRUE)
  /\ UNCHANGED <<server, jobDocs, disturbed, polls, docRow, request, docLane, jobId, timer,
                 posted, cancels>>

\* The first image is begun whatever the cancel flag says.
OcrModuleReady(r) ==
  /\ ocr[r] = "module"
  /\ ocr' = [ocr EXCEPT ![r] = "image"] /\ image' = [image EXCEPT ![r] = 1]
  /\ imgRow' = [imgRow EXCEPT ![r][1].shown = "running"]
  /\ UNCHANGED <<server, jobDocs, disturbed, polls, docRow, count, request, docLane, jobId,
                 timer, posted, cancels, ending>>

\* An image is answered.  Then the loop goes on to its next await: the next image,
\* or the end, with the rest canceled if a cancel came.
OcrAnswered(r, outcome) ==
  LET i == image[r] IN
  /\ ocr[r] = "image"
  /\ IF i < images[r] /\ ~ocrCanceled
       THEN /\ image' = [image EXCEPT ![r] = i + 1] /\ UNCHANGED ocr
            /\ imgRow' = [imgRow EXCEPT ![r][i] = Paint(@, outcome),
                                        ![r][i + 1].shown = "running"]
            /\ count' = [count EXCEPT ![outcome] = IF imgRow[r][i].done THEN @ ELSE @ + 1]
            /\ UNCHANGED <<ending>>
       ELSE /\ ocr' = [ocr EXCEPT ![r] = "over"] /\ UNCHANGED image
            /\ OcrPaint(r, i..images[r],
                        [k \in 1..MaxImages |-> IF k = i THEN outcome ELSE "canceled"])
            /\ MaybeFinish(docsDone, TRUE)
  /\ UNCHANGED <<server, jobDocs, disturbed, polls, docRow, request, docLane, jobId, timer,
                 posted, cancels>>
-----------------------------------------------------------------------------
(* The server.                                                             *)

CancelArrives(j) ==
  /\ j \in posted
  /\ posted' = posted \ {j}
  /\ Server!Cancel(j)
  /\ UNCHANGED <<jobDocs, disturbed, polls, rows, request, docLane, ocrLane, jobId, timer,
                 cancels, ending>>

ServerWorks(j) ==
  /\ \/ Server!Take(j)
     \/ \E o \in Server!Outcomes : Server!Record(j, o)
     \/ Server!Finish(j)
  /\ UNCHANGED <<jobDocs, disturbed, polls, page, rows>>

\* What happens without the user.
WithoutUser ==
  \/ \E r \in Runs :
       \/ ModuleReady(r) \/ DocsLaneFails(r) \/ PostAnswered(r)
       \/ \E j \in Jobs : PostArrives(r, j)
       \/ OcrModuleReady(r) \/ OcrModuleFails(r)
       \/ \E o \in {"ok", "skipped", "error"} : OcrAnswered(r, o)
  \/ \E p \in Polls : Tick(p) \/ PollAnswers(p) \/ PollDelivered(p) \/ PollFails(p)
  \/ \E j \in Jobs : CancelArrives(j) \/ ServerWorks(j)

DialogNext ==
  \/ \E ds \in DocLists, n \in 0..MaxImages : Enqueue(ds, n)
  \/ Close \/ CancelClicked
  \/ WithoutUser

\* Requests are answered, jobs are worked on, the interval fires.
DialogFairness ==
  /\ \A r \in Runs :
       /\ WF_dialogVars(ModuleReady(r) \/ DocsLaneFails(r) \/ PostAnswered(r)
                    \/ \E j \in Jobs : PostArrives(r, j))
       /\ WF_dialogVars(OcrModuleReady(r) \/ OcrModuleFails(r)
                    \/ \E o \in {"ok", "skipped", "error"} : OcrAnswered(r, o))
  /\ \A p \in Polls : WF_dialogVars(Tick(p) \/ PollAnswers(p) \/ PollDelivered(p))
  /\ \A j \in Jobs : WF_dialogVars(CancelArrives(j)) /\ WF_dialogVars(ServerWorks(j))

DialogSpec == DialogInit /\ [][DialogNext]_dialogVars
DialogFairSpec == DialogSpec /\ DialogFairness
-----------------------------------------------------------------------------
(* Properties.                                                             *)

RowStates == {"none", "queued", "running"} \union Kinds
Row == [shown : RowStates, done : BOOLEAN]

\* The interval asks about the job of the workbench or is off, and an open row was
\* never counted.
DialogTypeOK ==
  /\ run \in 0..MaxRuns
  /\ docs \in [Runs -> DocLists] /\ images \in [Runs -> 0..MaxImages]
  /\ docRow \in [Docs -> Row] /\ imgRow \in [Runs -> [1..MaxImages -> Row]]
  /\ lane \in [Runs -> {"none", "module", "posting", "answered", "over"}]
  /\ ocr \in [Runs -> {"none", "module", "image", "over"}]
  /\ image \in [Runs -> 0..MaxImages] /\ \A r \in Runs : image[r] <= images[r]
  /\ laneJob \in [Runs -> Jobs \union {None}] /\ jobId \in Jobs \union {None}
  /\ timer \in {None, jobId}
  /\ posted \subseteq Jobs /\ jobDocs \in [Jobs -> DocLists]
  /\ {cancelRequested, ocrCanceled, docsDone, ocrDone, batchFinished, batchActive}
       \subseteq BOOLEAN
  /\ count \in [Kinds -> Nat]
  /\ disturbed \subseteq {"interrupted", "lost", "vanished", "overtaken"}

\* The rows of the workbench that show one of the states s.
ShownDocs(s) == {d \in Docs : docRow[d] # NoRow /\ docRow[d].shown \in s}
ShownImages(s) == IF run = 0 THEN {} ELSE {i \in 1..images[run] : imgRow[run][i].shown \in s}

\* A batch that is declared finished has a result in every row: neither lane is still
\* at work on it (comment of isBatchRunning, "True from enqueue until both lanes have
\* finished.").
FinishedRowsAreDone ==
  batchFinished => /\ ShownDocs({"queued", "running"}) = {}
                   /\ ShownImages({"queued", "running"}) = {}

\* It holds as long as nothing gets in the way, cancels apart: a vanished document's row
\* stays queued, a lost poll leaves a row that was seen running, a late answer repaints a
\* row as running, and an answer for the run before ends the current one.
FinishedRowsAreDoneUndisturbed == disturbed = {} => FinishedRowsAreDone

\* At most one job of this workbench is being worked on ("no parallel jobs",
\* setBatchTriggersBusy; startBatchConvert, "must not start a parallel job").
Unfinished(j) == Server!Exists(j) /\ ~finished[j]
OneJobAtATime == \A j, k \in Jobs : Unfinished(j) /\ Unfinished(k) => j = k

\* It holds as long as nobody closed the workbench or dropped files over a batch, and
\* every request was answered, each before the next was sent: the lock outlives the job.
OneJobAtATimeUndisturbed == disturbed \subseteq {"vanished"} => OneJobAtATime

\* A cancel reaches the job of the workbench, also when it was clicked before the
\* job had an id: it is on its way or it is there.
CancelReachesJob ==
  cancelRequested /\ jobId # None => jobId \in posted \/ cancel[jobId]

\* The workbench does not stay locked.
BatchEnds == batchActive ~> ~batchActive
=============================================================================

------------------------- MODULE BatchConvertProofs -------------------------
(***************************************************************************)
(* What holds of BatchConvert for every number of jobs, requests, sources  *)
(* and items; and, in the second part, of BatchDialog, the page in front   *)
(* of these jobs.                                                          *)
(***************************************************************************)
EXTENDS BatchConvert, BatchDialog, SequenceTheorems, FiniteSetTheorems, TLAPS

AtItem == {"convert", "exists", "open", "close", "record"}

\* A worker's place and its list: no item is running between two items, one is in
\* the middle of one, and the list is as long as the sources.
ShapeOf(j) ==
  /\ pc[j] \in AtItem \union {"idle", "take", "over", "dead"}
  /\ pc[j] = "idle" <=> status[j] = <<>>
  /\ pc[j] \in {"take", "over"} => Running(j) = {}
  /\ pc[j] \in AtItem => \E i \in DOMAIN status[j] : Running(j) = {i}
  /\ finished[j] <=> pc[j] = "over"
  /\ Len(sources[j]) = Len(status[j])
JobShape == \A j \in Jobs : ShapeOf(j)

\* A single request has its one source from the start.
SingleShape ==
  \A c \in Singles : pc[c] # "idle" => Len(sources[c]) = 1

\* What a cancel has seen queued is only ever given up, as no item is begun once the
\* flag is up; and items are given up at the end only.
SparingOf(j) ==
  /\ spared[j] # {} => cancel[j]
  /\ \A i \in spared[j] : status[j][i] \in {"queued", "canceled"}
  /\ \A i \in DOMAIN status[j] : status[j][i] = "canceled" => cancel[j] /\ finished[j]
  /\ finished[j] => Queued(j) = {}
Sparing == \A j \in Jobs : SparingOf(j)

IInv == /\ TypeOK /\ JobShape /\ SingleShape /\ Sparing
        /\ spared \in [Jobs -> SUBSET Nat]

\* The steps that leave the table alone.
Convert(t) ==
  \/ t \in Singles /\ Pick(t)
  \/ ConvertFails(t) \/ Converted(t) \/ CheckPanics(t)
  \/ CheckExists(t) \/ WriteOpen(t) \/ WriteClose(t) \/ WriteFails(t)
-----------------------------------------------------------------------------
\* The steps of a conversion move their thread and leave the table alone.
LEMMA ConvertStep ==
  ASSUME TypeOK, NEW t \in Threads, Convert(t)
  PROVE  /\ UNCHANGED <<jobVars, overwrite, rename, spared>>
         /\ pc[t] \in {"convert", "pick", "exists", "open", "close"}
         /\ t \in Jobs => pc[t] # "pick"
         /\ \E l \in {"pick", "exists", "open", "close", "record", "over", "dead"} :
              /\ pc' = [pc EXCEPT ![t] = l]
              /\ t \in Jobs => l \notin {"pick", "over"}
<1> USE ConvertAssumption DEF TypeOK, Threads, Goto, Settle
<1>1. CASE t \in Singles /\ Pick(t)
  BY <1>1 DEF Pick
<1>2. CASE ConvertFails(t) \/ CheckPanics(t)
  BY <1>2 DEF ConvertFails, CheckPanics
<1>3. CASE Converted(t)
  <2>1. CASE t \in Singles /\ rename[t] /\ Source(t) \notin Uploads
    BY <1>3, <2>1 DEF Converted
  <2>2. CASE ~(t \in Singles /\ rename[t] /\ Source(t) \notin Uploads)
    BY <1>3, <2>2 DEF Converted
  <2>3. QED
    BY <2>1, <2>2
<1>4. CASE CheckExists(t)
  <2>1. CASE files[target[t]] # None /\ ~MayReplace(t)
    BY <1>4, <2>1 DEF CheckExists
  <2>2. CASE ~(files[target[t]] # None /\ ~MayReplace(t))
    BY <1>4, <2>2 DEF CheckExists
  <2>3. QED
    BY <2>1, <2>2
<1>5. CASE WriteOpen(t) \/ WriteFails(t)
  BY <1>5 DEF WriteOpen, WriteFails
<1>6. CASE WriteClose(t)
  BY <1>6 DEF WriteClose
<1>7. QED
  BY <1>1, <1>2, <1>3, <1>4, <1>5, <1>6 DEF Convert

\* Nobody else is moved by them.
LEMMA ConvertOthers ==
  ASSUME TypeOK, NEW u \in Threads, Convert(u), NEW t \in Threads, t # u
  PROVE  pc'[t] = pc[t] /\ target'[t] = target[t] /\ result'[t] = result[t]
<1>1. pc'[t] = pc[t]
  <2>1. PICK l \in {"pick", "exists", "open", "close", "record", "over", "dead"} :
          pc' = [pc EXCEPT ![u] = l]
    BY ConvertStep
  <2>2. QED
    BY <2>1 DEF TypeOK
<1>2. target'[t] = target[t] /\ result'[t] = result[t]
  BY DEF Convert, Pick, ConvertFails, Converted, CheckPanics, CheckExists, WriteOpen,
         WriteClose, WriteFails, Settle, TypeOK
<1>3. QED
  BY <1>1, <1>2

\* A thread in the middle of a conversion has a source, and a job's is the one of the
\* running item.
LEMMA SourceTyped ==
  ASSUME TypeOK, JobShape, SingleShape, NEW t \in Threads,
         pc[t] \in {"convert", "pick", "exists", "open", "close"}
  PROVE  Source(t) \in Sources
<1> USE DEF TypeOK, Threads
<1>1. CASE t \in Jobs
  <2>1. PICK i \in DOMAIN status[t] : Running(t) = {i}
    BY <1>1 DEF JobShape, ShapeOf, AtItem
  <2>2. Source(t) = sources[t][i]
    BY <1>1, <2>1 DEF Source
  <2>3. status[t] \in Seq(Statuses) /\ sources[t] \in Seq(Sources)
    BY <1>1
  <2>4. i \in 1..Len(sources[t])
    BY <1>1, <2>1, <2>3, LenProperties DEF JobShape, ShapeOf
  <2>5. QED
    BY <2>2, <2>3, <2>4, ElementOfSeq
<1>2. CASE t \notin Jobs
  <2>1. sources[t] \in Seq(Sources) /\ Len(sources[t]) = 1
    BY <1>2 DEF SingleShape
  <2>2. sources[t][1] \in Sources
    BY <2>1, ElementOfSeq
  <2>3. QED
    BY <1>2, <2>2 DEF Source
<1>3. QED
  BY <1>1, <1>2

\* Every item has an output name.
LEMMA PlannedTyped ==
  ASSUME NEW s \in Seq(Sources), NEW i \in 1..Len(s)
  PROVE  Planned(s, i) \in Paths
<1>1. s[i] \in Sources
  BY ElementOfSeq
<1>2. Stem[s[i]] \in Stems
  BY <1>1, ConvertAssumption
<1>3. CASE \E k \in 1..(i - 1) : Stem[s[k]] = Stem[s[i]]
  BY <1>1, <1>3 DEF Planned, Paths
<1>4. CASE ~(\E k \in 1..(i - 1) : Stem[s[k]] = Stem[s[i]])
  BY <1>2, <1>4 DEF Planned, Paths
<1>5. QED
  BY <1>3, <1>4

\* What a conversion writes and decides has its type.
LEMMA ConvertTyped ==
  ASSUME TypeOK, JobShape, SingleShape, NEW t \in Threads, Convert(t)
  PROVE  /\ target' \in [Threads -> Paths \union {None}]
         /\ result' \in [Threads -> Outcomes]
         /\ files' \in [Paths -> {None, Empty, Old, Mixed} \union (Threads \X Sources)]
<1> USE DEF TypeOK
<1>0. Source(t) \in Sources /\ Stem[Source(t)] \in Stems
  BY ConvertStep, SourceTyped, ConvertAssumption
<1>1. CASE t \in Singles /\ Pick(t)
  <2> DEFINE st == Stem[Source(t)]
             free == {n \in 1..MaxCopies : files[<<"copy", st, n>>] = None}
  <2>1. UNCHANGED <<result, files>>
    BY <1>1 DEF Pick
  <2>2. <<"plain", st>> \in Paths
    BY <1>0 DEF Paths
  <2>3. CASE files[<<"plain", st>>] = None \/ free = {}
    BY <1>1, <2>1, <2>2, <2>3 DEF Pick
  <2>4. CASE ~(files[<<"plain", st>>] = None \/ free = {})
    <3>1. PICK n \in 1..MaxCopies : target' = [target EXCEPT ![t] = <<"copy", st, n>>]
      BY <1>1, <2>4 DEF Pick
    <3>2. <<"copy", st, n>> \in Paths
      BY <1>0 DEF Paths
    <3>3. QED
      BY <2>1, <3>1, <3>2
  <2>5. QED
    BY <2>3, <2>4
<1>2. CASE ConvertFails(t) \/ CheckPanics(t)
  BY <1>2 DEF ConvertFails, CheckPanics, Settle, Outcomes
<1>3. CASE Converted(t)
  <2>1. UNCHANGED <<result, files>>
    BY <1>3 DEF Converted
  <2>2. CASE t \in Jobs
    <3>1. PICK i \in DOMAIN status[t] : Running(t) = {i}
      BY <1>3, <2>2 DEF Converted, JobShape, ShapeOf, AtItem
    <3>2. i \in 1..Len(sources[t]) /\ sources[t] \in Seq(Sources)
      BY <2>2, <3>1, LenProperties DEF JobShape, ShapeOf, Threads
    <3>3. Planned(sources[t], i) \in Paths
      BY <3>2, PlannedTyped
    <3>4. target' = [target EXCEPT ![t] = Planned(sources[t], i)]
      BY <1>3, <2>2, <3>1 DEF Converted
    <3>5. QED
      BY <2>1, <3>3, <3>4
  <2>3. CASE t \notin Jobs
    <3>1. target' = [target EXCEPT ![t] = <<"plain", Stem[Source(t)]>>]
      BY <1>3, <2>3 DEF Converted
    <3>2. <<"plain", Stem[Source(t)]>> \in Paths
      BY <1>0 DEF Paths
    <3>3. QED
      BY <2>1, <3>1, <3>2
  <2>4. QED
    BY <2>2, <2>3
<1>4. CASE CheckExists(t)
  BY <1>4 DEF CheckExists, Settle, Outcomes
<1>5. CASE WriteOpen(t)
  BY <1>5 DEF WriteOpen
<1>6. CASE WriteClose(t)
  <2>1. PICK b \in {<<t, Source(t)>>, Mixed} : files' = [files EXCEPT ![target[t]] = b]
    BY <1>6 DEF WriteClose
  <2>2. b \in {Mixed} \union (Threads \X Sources)
    BY <1>0
  <2>3. UNCHANGED target /\ result' = [result EXCEPT ![t] = "ok"]
    BY <1>6 DEF WriteClose, Settle
  <2>4. QED
    BY <2>1, <2>2, <2>3 DEF Outcomes
<1>7. CASE WriteFails(t)
  BY <1>7 DEF WriteFails, Settle, Outcomes
<1>8. QED
  BY <1>1, <1>2, <1>3, <1>4, <1>5, <1>6, <1>7 DEF Convert
-----------------------------------------------------------------------------
\* A function on 1..n is a sequence of that length.
LEMMA FunctionIsSeq ==
  ASSUME NEW S, NEW n \in Nat, NEW q \in [1..n -> S]
  PROVE  q \in Seq(S) /\ Len(q) = n
<1>1. q \in Seq(S)
  OBVIOUS
<1>2. DOMAIN q = 1..Len(q) /\ Len(q) \in Nat
  BY <1>1, LenProperties
<1>3. QED
  BY <1>1, <1>2

\* A list of statuses stays one when items are repainted.
LEMMA Repainted ==
  ASSUME NEW s \in Seq(Statuses), NEW f \in [DOMAIN s -> Statuses]
  PROVE  f \in Seq(Statuses) /\ Len(f) = Len(s) /\ DOMAIN f = DOMAIN s
<1>1. DOMAIN s = 1..Len(s) /\ Len(s) \in Nat
  BY LenProperties
<1>2. f \in [1..Len(s) -> Statuses]
  BY <1>1
<1>3. f \in Seq(Statuses) /\ Len(f) = Len(s)
  BY <1>1, <1>2, FunctionIsSeq
<1>4. QED
  BY <1>3

\* So is the list of a new job,
LEMMA AllQueued ==
  ASSUME NEW n \in Nat
  PROVE  [i \in 1..n |-> "queued"] \in Seq(Statuses) /\ Len([i \in 1..n |-> "queued"]) = n
<1> DEFINE q == [i \in 1..n |-> "queued"]
<1>1. q \in [1..n -> Statuses]
  BY DEF Statuses
<1> HIDE DEF q
<1>2. q \in Seq(Statuses) /\ Len(q) = n
  BY <1>1, FunctionIsSeq
<1>3. QED
  BY <1>2 DEF q

\* in which every item is queued.
LEMMA StartEffect ==
  ASSUME TypeOK, NEW j \in Jobs, Start(j)
  PROVE  \E n \in 1..MaxItems :
           /\ status' = [status EXCEPT ![j] = [i \in 1..n |-> "queued"]]
           /\ [i \in 1..n |-> "queued"] \in Seq(Statuses)
           /\ Len([i \in 1..n |-> "queued"]) = n
           /\ sources' \in [Threads -> Seq(Sources)]
           /\ Len(sources'[j]) = n
           /\ \A t \in Threads \ {j} : sources'[t] = sources[t]
           /\ overwrite' \in [Threads -> BOOLEAN]
<1> USE ConvertAssumption DEF TypeOK, Threads
<1>1. PICK s \in Batches(j), o \in BOOLEAN :
        /\ sources' = [sources EXCEPT ![j] = s]
        /\ status' = [status EXCEPT ![j] = [i \in 1..Len(s) |-> "queued"]]
        /\ overwrite' = [overwrite EXCEPT ![j] = o]
  BY DEF Start
<1>2. PICK n \in 1..MaxItems : s \in [1..n -> MayConvert[j]]
  BY DEF Batches
<1>3. s \in [1..n -> Sources] /\ n \in Nat
  BY <1>2
<1>4. s \in Seq(Sources) /\ Len(s) = n
  BY <1>3, FunctionIsSeq
<1>6. [i \in 1..n |-> "queued"] \in Seq(Statuses) /\ Len([i \in 1..n |-> "queued"]) = n
  BY <1>3, AllQueued
<1>7. QED
  BY <1>1, <1>4, <1>6

\* The first queued item becomes the running one.
LEMMA TakeEffect ==
  ASSUME TypeOK, JobShape, NEW j \in Jobs, TakeItem(j)
  PROVE  \E i \in Queued(j) :
           /\ \A k \in Queued(j) : i <= k
           /\ status' = [status EXCEPT ![j] = [status[j] EXCEPT ![i] = "running"]]
           /\ status'[j] \in Seq(Statuses) /\ Len(status'[j]) = Len(status[j])
           /\ DOMAIN status'[j] = DOMAIN status[j]
           /\ Running(j) = {} /\ Running(j)' = {i}
<1> USE DEF TypeOK
<1>1. PICK i \in Queued(j) :
        /\ \A k \in Queued(j) : i <= k
        /\ status' = [status EXCEPT ![j][i] = "running"]
  BY DEF TakeItem
<1>2. i \in DOMAIN status[j] /\ status[j] \in Seq(Statuses)
  BY DEF Queued
<1>3. [status[j] EXCEPT ![i] = "running"] \in [DOMAIN status[j] -> Statuses]
  BY <1>2, LenProperties DEF Statuses
<1>4. status'[j] = [status[j] EXCEPT ![i] = "running"]
  BY <1>1
<1>5. /\ status'[j] \in Seq(Statuses) /\ Len(status'[j]) = Len(status[j])
      /\ DOMAIN status'[j] = DOMAIN status[j]
  BY <1>2, <1>3, <1>4, Repainted
<1>6. Running(j) = {}
  BY DEF TakeItem, JobShape, ShapeOf
<1>7. Running(j)' = {i}
  BY <1>2, <1>4, <1>5, <1>6 DEF Running
<1>8. QED
  BY <1>1, <1>5, <1>6, <1>7

\* The running item becomes what the conversion returned.
LEMMA RecordEffect ==
  ASSUME TypeOK, JobShape, NEW j \in Jobs, RecordItem(j)
  PROVE  \E i \in DOMAIN status[j] :
           /\ Running(j) = {i} /\ Running(j)' = {}
           /\ status' = [status EXCEPT ![j] = [status[j] EXCEPT ![i] = result[j]]]
           /\ status'[j] \in Seq(Statuses) /\ Len(status'[j]) = Len(status[j])
           /\ DOMAIN status'[j] = DOMAIN status[j]
<1> USE DEF TypeOK, Threads
<1>1. PICK i \in DOMAIN status[j] : Running(j) = {i}
  BY DEF RecordItem, JobShape, ShapeOf, AtItem
<1>2. result[j] \in Outcomes /\ result[j] \in Statuses /\ result[j] # "running"
  BY DEF Outcomes, Statuses
<1>3. status[j] \in Seq(Statuses) /\ status[j] \in [DOMAIN status[j] -> Statuses]
  BY LenProperties
<1>4. [k \in DOMAIN status[j] |-> IF k \in Running(j) THEN result[j] ELSE status[j][k]]
        = [status[j] EXCEPT ![i] = result[j]]
  BY <1>1, <1>3
<1>5. status' = [status EXCEPT ![j] = [status[j] EXCEPT ![i] = result[j]]]
  BY <1>4 DEF RecordItem
<1>6. status'[j] = [status[j] EXCEPT ![i] = result[j]]
  BY <1>5
<1>7. [status[j] EXCEPT ![i] = result[j]] \in [DOMAIN status[j] -> Statuses]
  BY <1>2, <1>3
<1>8. /\ status'[j] \in Seq(Statuses) /\ Len(status'[j]) = Len(status[j])
      /\ DOMAIN status'[j] = DOMAIN status[j]
  BY <1>3, <1>6, <1>7, Repainted
<1>9. Running(j)' = {}
  <2>1. \A k \in DOMAIN status[j] : status'[j][k] # "running"
    BY <1>1, <1>2, <1>3, <1>6 DEF Running
  <2>2. QED
    BY <1>8, <2>1 DEF Running
<1>10. QED
  BY <1>1, <1>5, <1>8, <1>9

\* The items still queued are given up.
LEMMA FinishEffect ==
  ASSUME TypeOK, JobShape, NEW j \in Jobs, FinishJob(j)
  PROVE  /\ status' = [status EXCEPT ![j] = [i \in DOMAIN status[j] |->
                         IF status[j][i] = "queued" THEN "canceled" ELSE status[j][i]]]
         /\ \A i \in DOMAIN status[j] :
              status'[j][i] = IF status[j][i] = "queued" THEN "canceled" ELSE status[j][i]
         /\ status'[j] \in Seq(Statuses) /\ Len(status'[j]) = Len(status[j])
         /\ DOMAIN status'[j] = DOMAIN status[j]
         /\ Running(j) = {} /\ Running(j)' = {}
<1> USE DEF TypeOK
<1> DEFINE f == [i \in DOMAIN status[j] |->
                   IF status[j][i] = "queued" THEN "canceled" ELSE status[j][i]]
<1>1. status' = [status EXCEPT ![j] = f] /\ Running(j) = {}
  BY DEF FinishJob, JobShape, ShapeOf
<1>2. status[j] \in Seq(Statuses) /\ status[j] \in [DOMAIN status[j] -> Statuses]
  BY LenProperties
<1>3. f \in [DOMAIN status[j] -> Statuses]
  BY <1>2 DEF Statuses
<1>4. status'[j] = f
  BY <1>1
<1>5. /\ status'[j] \in Seq(Statuses) /\ Len(status'[j]) = Len(status[j])
      /\ DOMAIN status'[j] = DOMAIN status[j]
  BY <1>2, <1>3, <1>4, Repainted
<1>6. Running(j)' = {}
  BY <1>1, <1>4, <1>5 DEF Running
<1>7. QED
  BY <1>1, <1>4, <1>5, <1>6
-----------------------------------------------------------------------------
\* A step of the job j leaves what is said of the other jobs true.
LEMMA OtherJobs ==
  ASSUME JobShape, Sparing, NEW j \in Jobs,
         \A k \in Jobs \ {j} : /\ status'[k] = status[k] /\ cancel'[k] = cancel[k]
                               /\ finished'[k] = finished[k] /\ sources'[k] = sources[k]
                               /\ pc'[k] = pc[k] /\ spared'[k] = spared[k]
  PROVE  /\ ShapeOf(j)' => JobShape'
         /\ SparingOf(j)' => Sparing'
<1>1. ASSUME NEW k \in Jobs \ {j} PROVE ShapeOf(k)' /\ SparingOf(k)'
  BY DEF JobShape, Sparing, ShapeOf, SparingOf, Running, Queued
<1>2. QED
  BY <1>1 DEF JobShape, Sparing

\* The invariant holds of the start of a job,
LEMMA StartKeeps == ASSUME IInv, NEW j \in Jobs, Start(j) PROVE IInv'
<1> USE DEF IInv
<1>1. PICK n \in 1..MaxItems :
        /\ status' = [status EXCEPT ![j] = [i \in 1..n |-> "queued"]]
        /\ [i \in 1..n |-> "queued"] \in Seq(Statuses)
        /\ Len([i \in 1..n |-> "queued"]) = n
        /\ sources' \in [Threads -> Seq(Sources)]
        /\ Len(sources'[j]) = n
        /\ \A t \in Threads \ {j} : sources'[t] = sources[t]
        /\ overwrite' \in [Threads -> BOOLEAN]
  BY StartEffect
<1>2. /\ pc[j] = "idle" /\ pc' = [pc EXCEPT ![j] = "take"]
      /\ UNCHANGED <<cancel, finished, rename, target, result, files, spared>>
  BY DEF Start, Goto
<1>3. status[j] = <<>> /\ spared[j] = {} /\ ~finished[j]
  <2>1. status[j] = <<>> /\ ~finished[j]
    BY <1>2 DEF JobShape, ShapeOf
  <2>2. spared[j] = {}
    BY <2>1 DEF TypeOK
  <2>3. QED
    BY <2>1, <2>2
<1>4. /\ status'[j] = [i \in 1..n |-> "queued"] /\ status'[j] \in Seq(Statuses)
      /\ Len(status'[j]) = n /\ n # 0
  BY <1>1 DEF TypeOK
<1>5. DOMAIN status'[j] = 1..n /\ \A i \in 1..n : status'[j][i] = "queued"
  BY <1>4
<1>6. status'[j] # <<>>
  BY <1>4, <1>5
<1>7. ShapeOf(j)'
  <2>1. pc'[j] = "take"
    BY <1>2 DEF TypeOK, Threads
  <2>2. Running(j)' = {}
    BY <1>5 DEF Running
  <2>3. QED
    BY <1>1, <1>2, <1>3, <1>4, <1>6, <2>1, <2>2 DEF ShapeOf, AtItem
<1>8. SparingOf(j)'
  BY <1>2, <1>3, <1>5 DEF SparingOf
<1>9. \A k \in Jobs \ {j} : status'[k] = status[k] /\ sources'[k] = sources[k] /\ pc'[k] = pc[k]
  BY <1>1, <1>2 DEF TypeOK, Threads
<1>10. JobShape' /\ Sparing'
  BY <1>2, <1>7, <1>8, <1>9, OtherJobs
<1>11. SingleShape'
  BY <1>1, <1>2, ConvertAssumption DEF SingleShape, TypeOK, Threads
<1>12. TypeOK'
  <2>1. pc' \in [Threads -> Labels]
    BY <1>2 DEF TypeOK, Labels
  <2>2. status' \in [Jobs -> Seq(Statuses)]
    BY <1>1 DEF TypeOK
  <2>3. \A k \in Jobs : spared'[k] \subseteq DOMAIN status'[k]
    BY <1>2, <1>3, <1>9 DEF TypeOK
  <2>4. QED
    BY <1>1, <1>2, <2>1, <2>2, <2>3 DEF TypeOK
<1>13. QED
  BY <1>2, <1>10, <1>11, <1>12

\* of the three steps of its worker at the table,
LEMMA TableKeeps ==
  ASSUME IInv, NEW j \in Jobs, TakeItem(j) \/ RecordItem(j) \/ FinishJob(j)
  PROVE  IInv'
<1> USE DEF IInv
<1>1. /\ UNCHANGED <<cancel, sources, overwrite, rename, target, result, files, spared>>
      /\ pc[j] \in {"take", "record"}
      /\ \E l \in {"take", "convert", "over"} : pc' = [pc EXCEPT ![j] = l]
      /\ \A k \in Jobs \ {j} : finished'[k] = finished[k]
  BY DEF TakeItem, RecordItem, FinishJob, Goto, TypeOK
<1>2. /\ \A k \in Jobs \ {j} : status'[k] = status[k]
      /\ status' \in [Jobs -> Seq(Statuses)]
      /\ Len(status'[j]) = Len(status[j])
      /\ DOMAIN status'[j] = DOMAIN status[j]
  <2>1. CASE TakeItem(j)
    <3>1. PICK i \in Queued(j) :
            /\ status' = [status EXCEPT ![j] = [status[j] EXCEPT ![i] = "running"]]
            /\ status'[j] \in Seq(Statuses) /\ Len(status'[j]) = Len(status[j])
            /\ DOMAIN status'[j] = DOMAIN status[j]
      BY <2>1, TakeEffect
    <3>2. QED
      BY <3>1 DEF TypeOK
  <2>2. CASE RecordItem(j)
    BY <2>2, RecordEffect DEF TypeOK
  <2>3. CASE FinishJob(j)
    BY <2>3, FinishEffect DEF TypeOK
  <2>4. QED
    BY <2>1, <2>2, <2>3
<1>3. status[j] # <<>> /\ status'[j] # <<>>
  <2>1. status[j] # <<>>
    BY <1>1 DEF JobShape, ShapeOf
  <2>2. Len(status[j]) # 0
    BY <2>1, EmptySeq DEF TypeOK
  <2>3. QED
    BY <1>2, <2>1, <2>2, EmptySeq
<1>4. ShapeOf(j)' /\ finished' \in [Jobs -> BOOLEAN]
  <2>1. CASE TakeItem(j)
    <3>1. pc'[j] = "convert" /\ finished' = finished /\ ~finished[j]
      BY <2>1 DEF TakeItem, Goto, TypeOK, Threads, JobShape, ShapeOf
    <3>2. \E i \in DOMAIN status'[j] : Running(j)' = {i}
      BY <2>1, TakeEffect DEF Queued
    <3>3. QED
      BY <1>1, <1>2, <1>3, <3>1, <3>2 DEF ShapeOf, AtItem, JobShape, TypeOK
  <2>2. CASE RecordItem(j)
    <3>1. pc'[j] = "take" /\ finished' = finished /\ ~finished[j]
      BY <2>2 DEF RecordItem, Goto, TypeOK, Threads, JobShape, ShapeOf
    <3>2. Running(j)' = {}
      BY <2>2, RecordEffect
    <3>3. QED
      BY <1>1, <1>2, <1>3, <3>1, <3>2 DEF ShapeOf, AtItem, JobShape, TypeOK
  <2>3. CASE FinishJob(j)
    <3>1. pc'[j] = "over" /\ finished' = [finished EXCEPT ![j] = TRUE]
      BY <2>3 DEF FinishJob, Goto, TypeOK, Threads
    <3>2. Running(j)' = {}
      BY <2>3, FinishEffect
    <3>3. QED
      BY <1>1, <1>2, <1>3, <3>1, <3>2 DEF ShapeOf, AtItem, JobShape, TypeOK
  <2>4. QED
    BY <2>1, <2>2, <2>3
<1>5. SparingOf(j)'
  <2>0. SparingOf(j) /\ spared[j] \subseteq DOMAIN status[j]
    BY DEF Sparing, TypeOK
  <2>1. CASE TakeItem(j)
    <3>1. ~cancel[j] /\ spared[j] = {} /\ finished' = finished /\ pc[j] = "take"
      BY <2>0, <2>1 DEF TakeItem, SparingOf
    <3>2. ~finished[j]
      BY <3>1 DEF JobShape, ShapeOf
    <3>3. PICK i \in Queued(j) :
            status' = [status EXCEPT ![j] = [status[j] EXCEPT ![i] = "running"]]
      BY <2>1, TakeEffect
    <3>4. status'[j] = [status[j] EXCEPT ![i] = "running"]
      BY <3>3 DEF TypeOK
    <3>5. \A k \in DOMAIN status[j] : status'[j][k] = "canceled" => status[j][k] = "canceled"
      BY <3>4
    <3>6. QED
      BY <1>1, <1>2, <2>0, <3>1, <3>2, <3>5 DEF SparingOf
  <2>2. CASE RecordItem(j)
    <3>1. PICK i \in DOMAIN status[j] :
            /\ Running(j) = {i}
            /\ status' = [status EXCEPT ![j] = [status[j] EXCEPT ![i] = result[j]]]
      BY <2>2, RecordEffect
    <3>2. status'[j] = [status[j] EXCEPT ![i] = result[j]] /\ status[j][i] = "running"
      BY <3>1 DEF TypeOK, Running
    <3>3. result[j] # "canceled"
      BY DEF TypeOK, Threads, Outcomes
    <3>4. finished' = finished /\ ~finished[j]
      BY <2>2 DEF RecordItem, JobShape, ShapeOf
    <3>5. \A k \in spared[j] : k # i /\ k \in DOMAIN status[j]
      BY <2>0, <3>2 DEF SparingOf
    <3>6. QED
      BY <1>1, <1>2, <2>0, <3>2, <3>3, <3>4, <3>5 DEF SparingOf
  <2>3. CASE FinishJob(j)
    <3>1. \A i \in DOMAIN status[j] :
            status'[j][i] = IF status[j][i] = "queued" THEN "canceled" ELSE status[j][i]
      BY <2>3, FinishEffect
    <3>2. finished'[j] /\ (cancel[j] \/ Queued(j) = {}) /\ pc[j] = "take"
      BY <2>3 DEF FinishJob, TypeOK
    <3>3. Queued(j)' = {}
      BY <1>2, <3>1 DEF Queued
    <3>4. \A i \in DOMAIN status[j] : status'[j][i] = "canceled" => cancel[j]
      BY <2>0, <3>1, <3>2 DEF Queued, SparingOf
    <3>5. QED
      BY <1>1, <1>2, <2>0, <3>1, <3>2, <3>3, <3>4 DEF SparingOf
  <2>4. QED
    BY <2>1, <2>2, <2>3
<1>6. \A k \in Jobs \ {j} : pc'[k] = pc[k]
  BY <1>1 DEF TypeOK, Threads
<1>7. JobShape' /\ Sparing'
  BY <1>1, <1>2, <1>4, <1>5, <1>6, OtherJobs
<1>8. SingleShape'
  BY <1>1, ConvertAssumption DEF SingleShape, TypeOK, Threads
<1>9. pc' \in [Threads -> Labels]
  BY <1>1 DEF TypeOK, Labels
<1>10. \A k \in Jobs : spared'[k] \subseteq DOMAIN status'[k]
  BY <1>1, <1>2 DEF TypeOK
<1>11. QED
  BY <1>1, <1>2, <1>4, <1>7, <1>8, <1>9, <1>10 DEF TypeOK

\* of the steps of a conversion,
LEMMA ConvertKeeps == ASSUME IInv, NEW t \in Threads, Convert(t) PROVE IInv'
<1> USE DEF IInv
<1>1. UNCHANGED <<status, cancel, finished, sources, overwrite, rename, spared>>
  BY ConvertStep DEF jobVars
<1>2. PICK l \in {"pick", "exists", "open", "close", "record", "over", "dead"} :
        pc' = [pc EXCEPT ![t] = l] /\ (t \in Jobs => l \notin {"pick", "over"})
  BY ConvertStep
<1>3. /\ pc[t] \in {"convert", "pick", "exists", "open", "close"}
      /\ t \in Jobs => pc[t] # "pick"
  BY ConvertStep
<1>4. pc' \in [Threads -> Labels]
  BY <1>2 DEF TypeOK, Labels
<1>5. TypeOK'
  BY <1>1, <1>4, ConvertTyped DEF TypeOK
<1>6. SingleShape'
  BY <1>1, <1>2, <1>3 DEF SingleShape, TypeOK, Threads
<1>7. JobShape' /\ Sparing'
  <2>1. CASE t \in Jobs
    <3>1. pc[t] \in AtItem /\ pc'[t] \in AtItem \union {"dead"}
      BY <1>2, <1>3, <2>1 DEF AtItem, TypeOK
    <3>2. Running(t)' = Running(t) /\ Queued(t)' = Queued(t)
      BY <1>1 DEF Running, Queued
    <3>3. ShapeOf(t)'
      BY <1>1, <2>1, <3>1, <3>2 DEF JobShape, ShapeOf, AtItem
    <3>4. SparingOf(t)'
      BY <1>1, <2>1, <3>2 DEF Sparing, SparingOf
    <3>5. \A k \in Jobs \ {t} : pc'[k] = pc[k]
      BY <1>2 DEF TypeOK, Threads
    <3>6. QED
      BY <1>1, <2>1, <3>3, <3>4, <3>5, OtherJobs
  <2>2. CASE t \notin Jobs
    <3>1. \A k \in Jobs : pc'[k] = pc[k]
      BY <1>2, <2>2 DEF TypeOK, Threads
    <3>2. ASSUME NEW k \in Jobs PROVE ShapeOf(k)' /\ SparingOf(k)'
      BY <1>1, <3>1 DEF JobShape, Sparing, ShapeOf, SparingOf, Running, Queued
    <3>3. QED
      BY <3>2 DEF JobShape, Sparing
  <2>3. QED
    BY <2>1, <2>2
<1>8. QED
  BY <1>1, <1>5, <1>6, <1>7

\* of a cancel, which remembers what it has seen queued,
LEMMA CancelKeeps == ASSUME IInv, NEW j \in Jobs, Cancel(j) PROVE IInv'
<1> USE DEF IInv
<1>1. /\ UNCHANGED <<status, finished, sources, overwrite, rename, pc, target, result, files>>
      /\ cancel' = [cancel EXCEPT ![j] = TRUE]
      /\ spared' = [spared EXCEPT ![j] = spared[j] \union Queued(j)]
  BY DEF Cancel
<1>2. spared'[j] = spared[j] \union Queued(j) /\ cancel'[j]
  BY <1>1 DEF TypeOK
<1>3. Queued(j) \subseteq DOMAIN status[j] /\ Queued(j) \subseteq Nat
  <2>1. DOMAIN status[j] \subseteq Nat
    BY LenProperties DEF TypeOK
  <2>2. QED
    BY <2>1 DEF Queued
<1>4. spared' \in [Jobs -> SUBSET Nat]
  BY <1>1, <1>3
<1>5. \A k \in Jobs : spared'[k] \subseteq DOMAIN status'[k]
  BY <1>1, <1>3 DEF TypeOK
<1>6. TypeOK'
  BY <1>1, <1>5 DEF TypeOK
<1>7. ShapeOf(j)'
  BY <1>1 DEF JobShape, ShapeOf, Running
<1>8. SparingOf(j)'
  BY <1>1, <1>2 DEF Sparing, SparingOf, Queued
<1>9. \A k \in Jobs \ {j} : cancel'[k] = cancel[k] /\ spared'[k] = spared[k]
  BY <1>1 DEF TypeOK
<1>10. JobShape' /\ Sparing'
  BY <1>1, <1>7, <1>8, <1>9, OtherJobs
<1>11. SingleShape'
  BY <1>1 DEF SingleShape
<1>12. QED
  BY <1>4, <1>6, <1>10, <1>11

\* of a single request, and of a step that changes nothing.
LEMMA AskKeeps == ASSUME IInv, NEW c \in Singles, Ask(c) PROVE IInv'
<1> USE ConvertAssumption DEF IInv
<1>1. PICK s \in MayConvert[c], o \in BOOLEAN, r \in BOOLEAN :
        /\ sources' = [sources EXCEPT ![c] = <<s>>]
        /\ overwrite' = [overwrite EXCEPT ![c] = o]
        /\ rename' = [rename EXCEPT ![c] = r]
  BY DEF Ask
<1>2. pc' = [pc EXCEPT ![c] = "convert"]
      /\ UNCHANGED <<status, cancel, finished, target, result, files, spared>>
  BY DEF Ask, Goto
<1>3. s \in Sources /\ <<s>> \in Seq(Sources) /\ Len(<<s>>) = 1
  BY DEF Threads
<1>4. sources' \in [Threads -> Seq(Sources)]
  BY <1>1, <1>3 DEF TypeOK
<1>5. pc' \in [Threads -> Labels]
  BY <1>2 DEF TypeOK, Labels
<1>6. TypeOK'
  BY <1>1, <1>2, <1>4, <1>5 DEF TypeOK
<1>7. sources'[c] = <<s>> /\ \A d \in Singles \ {c} : sources'[d] = sources[d] /\ pc'[d] = pc[d]
  BY <1>1, <1>2 DEF TypeOK, Threads
<1>8. SingleShape'
  BY <1>3, <1>7 DEF SingleShape
<1>9. \A k \in Jobs : sources'[k] = sources[k] /\ pc'[k] = pc[k]
  BY <1>1, <1>2 DEF TypeOK, Threads
<1>10. ASSUME NEW k \in Jobs PROVE ShapeOf(k)' /\ SparingOf(k)'
  BY <1>2, <1>9 DEF JobShape, Sparing, ShapeOf, SparingOf, Running, Queued
<1>11. QED
  BY <1>2, <1>6, <1>8, <1>10 DEF JobShape, Sparing

LEMMA Invariance == Spec => []IInv
<1>1. Init => IInv
  <2> SUFFICES ASSUME Init PROVE IInv
    OBVIOUS
  <2>1. /\ \A j \in Jobs : /\ pc[j] = "idle" /\ status[j] = <<>> /\ sources[j] = <<>>
                           /\ spared[j] = {} /\ finished[j] = FALSE
        /\ \A c \in Singles : pc[c] = "idle"
    BY DEF Init, Threads
  <2>2. TypeOK
    <3>1. status \in [Jobs -> Seq(Statuses)] /\ sources \in [Threads -> Seq(Sources)]
      BY EmptySeq DEF Init
    <3>2. files \in [Paths -> {None, Empty, Old, Mixed} \union (Threads \X Sources)]
      BY DEF Init
    <3>3. pc \in [Threads -> Labels] /\ result \in [Threads -> Outcomes]
      BY DEF Init, Labels, Outcomes
    <3>4. QED
      BY <2>1, <3>1, <3>2, <3>3 DEF Init, TypeOK
  <2>3. ASSUME NEW j \in Jobs PROVE ShapeOf(j) /\ SparingOf(j)
    BY <2>1 DEF ShapeOf, SparingOf, AtItem
  <2>4. spared \in [Jobs -> SUBSET Nat] /\ SingleShape
    BY <2>1 DEF Init, SingleShape
  <2>5. QED
    BY <2>2, <2>3, <2>4 DEF IInv, JobShape, Sparing
<1>2. IInv /\ [Next]_vars => IInv'
  <2> SUFFICES ASSUME IInv, [Next]_vars PROVE IInv'
    OBVIOUS
  <2>1. ASSUME NEW t \in Threads, Work(t) PROVE IInv'
    <3>1. CASE t \in Jobs /\ (TakeItem(t) \/ FinishJob(t) \/ RecordItem(t))
      BY <3>1, TableKeeps
    <3>2. CASE Convert(t)
      BY <3>2, ConvertKeeps
    <3>3. QED
      BY <2>1, <3>1, <3>2 DEF Work, Convert
  <2>2. CASE UNCHANGED vars
    <3>1. /\ UNCHANGED <<status, cancel, finished, sources, overwrite, rename>>
          /\ UNCHANGED <<pc, target, result, files, spared>>
      BY <2>2 DEF vars
    <3>2. TypeOK'
      BY <3>1 DEF IInv, TypeOK
    <3>3. ASSUME NEW k \in Jobs PROVE ShapeOf(k)' /\ SparingOf(k)'
      BY <3>1 DEF IInv, JobShape, Sparing, ShapeOf, SparingOf, Running, Queued
    <3>4. QED
      BY <3>1, <3>2, <3>3 DEF IInv, JobShape, Sparing, SingleShape
  <2>3. QED
    BY <2>1, <2>2, StartKeeps, CancelKeeps, AskKeeps DEF Next
<1>3. QED
  BY <1>1, <1>2, PTL DEF Spec

\* Every variable keeps its type: every thread in the middle of a conversion has a source,
\* and every source an output.
THEOREM TypeCorrect == Spec => []TypeOK
<1>1. IInv => TypeOK
  BY DEF IInv
<1>2. QED
  BY <1>1, Invariance, PTL

\* Nothing that was queued when a cancel was accepted is converted, and a finished job has
\* a result for every item.
THEOREM CancelSpares == Spec => []CancelSparesQueued
<1>1. IInv => CancelSparesQueued
  <2> SUFFICES ASSUME IInv, NEW j \in Jobs
               PROVE  /\ \A i \in spared[j] : status[j][i] \in {"queued", "canceled"}
                      /\ finished[j] => \A i \in DOMAIN status[j] :
                           status[j][i] \in Outcomes
                             \/ (cancel[j] /\ status[j][i] = "canceled")
    BY DEF CancelSparesQueued
  <2>1. SparingOf(j) /\ ShapeOf(j) /\ status[j] \in Seq(Statuses)
    BY DEF IInv, Sparing, JobShape, TypeOK
  <2>2. \A i \in DOMAIN status[j] : status[j][i] \in Statuses
    BY <2>1, LenProperties
  <2>3. finished[j] => \A i \in DOMAIN status[j] : status[j][i] \notin {"queued", "running"}
    BY <2>1 DEF SparingOf, ShapeOf, Running, Queued
  <2>4. QED
    BY <2>1, <2>2, <2>3 DEF SparingOf, Statuses
<1>2. QED
  BY <1>1, Invariance, PTL
-----------------------------------------------------------------------------
\* Each step is one of JobProgress, or nothing that the progress route shows.
LEMMA ProgressStep ==
  ASSUME IInv, [Next]_vars
  PROVE  [Progress!Next]_(Progress!vars)
<1> USE DEF IInv
<1>1. ASSUME NEW j \in Jobs, Start(j) PROVE \E n \in 1..MaxItems : Progress!Start(j, n)
  <2>1. PICK n \in 1..MaxItems : status' = [status EXCEPT ![j] = [i \in 1..n |-> "queued"]]
    BY <1>1, StartEffect
  <2>2. status[j] = <<>> /\ UNCHANGED <<cancel, finished>>
    BY <1>1 DEF Start, JobShape, ShapeOf
  <2>3. QED
    BY <2>1, <2>2 DEF Progress!Start, Progress!Exists
<1>2. ASSUME NEW j \in Jobs, TakeItem(j) PROVE Progress!Take(j)
  <2>1. PICK i \in Queued(j) :
          /\ \A k \in Queued(j) : i <= k
          /\ status' = [status EXCEPT ![j] = [status[j] EXCEPT ![i] = "running"]]
          /\ Running(j) = {}
    BY <1>2, TakeEffect
  <2>2. ~cancel[j] /\ UNCHANGED <<cancel, finished>>
    BY <1>2 DEF TakeItem
  <2>3. QED
    BY <2>1, <2>2 DEF Progress!Take, Progress!InState, Running, Queued
<1>3. ASSUME NEW j \in Jobs, RecordItem(j) PROVE Progress!Record(j, result[j])
  <2>1. PICK i \in DOMAIN status[j] :
          /\ Running(j) = {i}
          /\ status' = [status EXCEPT ![j] = [status[j] EXCEPT ![i] = result[j]]]
    BY <1>3, RecordEffect
  <2>2. UNCHANGED <<cancel, finished>>
    BY <1>3 DEF RecordItem
  <2>3. QED
    BY <2>1, <2>2 DEF Progress!Record, Progress!InState, Running
<1>4. ASSUME NEW j \in Jobs, FinishJob(j) PROVE Progress!Finish(j)
  <2>1. /\ pc[j] = "take" /\ (cancel[j] \/ Queued(j) = {})
        /\ finished' = [finished EXCEPT ![j] = TRUE]
        /\ UNCHANGED cancel
    BY <1>4 DEF FinishJob
  <2>2. status[j] # <<>> /\ ~finished[j] /\ Running(j) = {}
    BY <2>1 DEF JobShape, ShapeOf
  <2>3. status' = [status EXCEPT ![j] = [i \in DOMAIN status[j] |->
                    IF status[j][i] = "queued" THEN "canceled" ELSE status[j][i]]]
    BY <1>4, FinishEffect
  <2>4. QED
    BY <2>1, <2>2, <2>3 DEF Progress!Finish, Progress!Exists, Progress!InState, Running, Queued
<1>5. ASSUME NEW j \in Jobs, Cancel(j) PROVE Progress!Cancel(j)
  BY <1>5 DEF Cancel, Progress!Cancel, Progress!Exists
<1>6. ASSUME NEW t \in Threads, Convert(t) PROVE UNCHANGED Progress!vars
  BY <1>6, ConvertStep DEF jobVars, Progress!vars
<1>7. ASSUME NEW c \in Singles, Ask(c) PROVE UNCHANGED Progress!vars
  BY <1>7 DEF Ask, Progress!vars
<1>8. CASE UNCHANGED vars
  BY <1>8 DEF vars, Progress!vars
<1>9. \A j \in Jobs : result[j] \in Progress!Outcomes
  BY DEF TypeOK, Threads, Outcomes, Progress!Outcomes
<1>10. ASSUME NEW t \in Threads, Work(t) PROVE [Progress!Next]_(Progress!vars)
  <2>1. CASE t \in Jobs /\ (TakeItem(t) \/ FinishJob(t) \/ RecordItem(t))
    BY <1>2, <1>3, <1>4, <1>9, <2>1 DEF Progress!Next
  <2>2. CASE Convert(t)
    BY <1>6, <2>2
  <2>3. QED
    BY <1>10, <2>1, <2>2 DEF Work, Convert
<1>11. QED
  BY <1>1, <1>5, <1>7, <1>8, <1>10 DEF Next, Progress!Next

\* The table of jobs, as the progress route shows it, implements JobProgress.
THEOREM RefinesProgress == Spec => ProgressSpec
<1>1. Init => Progress!Init
  BY DEF Init, Progress!Init
<1>2. QED
  BY <1>1, ProgressStep, Invariance, PTL DEF Spec, ProgressSpec, Progress!Spec
-----------------------------------------------------------------------------
(***************************************************************************)
(* Why a success reported by BatchConvert is one: nobody else writes to    *)
(* the outputs of a folder and name that only one job or request converts, *)
(* and a job has a different output for each of its items.                 *)
(***************************************************************************)

\* The folder and name an output belongs to.
StemOf(p) == IF p[1] = "digest" THEN Stem[p[2]] ELSE p[2]

\* The items of a job are different documents, and a thread that has not begun has none.
SourcesShape ==
  /\ \A t \in Threads : pc[t] = "idle" => sources[t] = <<>>
  /\ \A j \in Jobs : \A i, k \in DOMAIN sources[j] : i # k => sources[j][i] # sources[j][k]

\* A worker's target is the planned output of the running item, a request's is an output
\* of its own folder and name.
TargetOf(t) ==
  IF t \in Jobs
    THEN pc[t] \in {"exists", "open", "close"} =>
           \A i \in Running(t) : target[t] = Planned(sources[t], i)
    ELSE pc[t] \in {"exists", "open", "close"} \/ (pc[t] = "over" /\ result[t] = "ok") =>
           target[t] \in Paths /\ StemOf(target[t]) = Stem[sources[t][1]]

\* Left alone, a thread finds the file it opened empty when it writes, and its text in
\* it from then on.
WrittenOf(t) ==
  /\ pc[t] = "close" => files[target[t]] = Empty
  /\ t \in Jobs /\ pc[t] = "record" /\ result[t] = "ok" =>
       \A i \in Running(t) : files[Planned(sources[t], i)] = <<t, sources[t][i]>>
  /\ OkIsThereOf(t)

OutputInv ==
  /\ SourcesShape
  /\ \A t \in Threads : TargetOf(t)
  /\ \A t \in Threads : HasStemsAlone(t) => WrittenOf(t)
-----------------------------------------------------------------------------
\* An item's output is one of its folder and name,
LEMMA PlannedStem ==
  ASSUME NEW s \in Seq(Sources), NEW i \in DOMAIN s
  PROVE  StemOf(Planned(s, i)) = Stem[s[i]]
BY DEF Planned, StemOf

\* and no other item has it: only the first of a stem gets the plain name.
LEMMA PlannedDistinct ==
  ASSUME NEW s \in Seq(Sources), NEW i \in DOMAIN s, NEW k \in DOMAIN s, i # k,
         \A m, n \in DOMAIN s : m # n => s[m] # s[n]
  PROVE  Planned(s, i) # Planned(s, k)
<1> DEFINE Later(m) == \E n \in 1..(m - 1) : Stem[s[n]] = Stem[s[m]]
<1>0. DOMAIN s = 1..Len(s) /\ Len(s) \in Nat
  BY LenProperties
<1>1. \A m \in DOMAIN s : /\ Later(m) => Planned(s, m) = <<"digest", s[m]>>
                          /\ ~Later(m) => Planned(s, m) = <<"plain", Stem[s[m]]>>
  BY DEF Planned
<1>2. Later(i) \/ Later(k) \/ Stem[s[i]] # Stem[s[k]]
  <2>1. CASE i < k
    BY <1>0, <2>1
  <2>2. CASE k < i
    BY <1>0, <2>2
  <2>3. QED
    BY <1>0, <2>1, <2>2
<1>3. s[i] # s[k]
  OBVIOUS
<1> HIDE DEF Later
<1>4. CASE Later(i) /\ Later(k)
  BY <1>1, <1>3, <1>4
<1>5. CASE ~Later(i) /\ ~Later(k)
  BY <1>1, <1>2, <1>5
<1>6. CASE Later(i) # Later(k)
  <2>1. "digest" # "plain"
    OBVIOUS
  <2>2. CASE Later(i) /\ ~Later(k)
    BY <1>1, <2>1, <2>2
  <2>3. CASE ~Later(i) /\ Later(k)
    BY <1>1, <2>1, <2>3
  <2>4. QED
    BY <1>4, <1>5, <2>2, <2>3
<1>7. QED
  BY <1>4, <1>5, <1>6

\* Whoever writes, writes to an output of a source of its own.
LEMMA OwnTarget ==
  ASSUME IInv, NEW u \in Threads, TargetOf(u), pc[u] \in {"exists", "open", "close"}
  PROVE  /\ target[u] \in Paths
         /\ StemOf(target[u]) \in StemsOf(u)
         /\ Source(u) \in Sources
         /\ u \in Jobs => \E i \in DOMAIN sources[u] :
                            /\ Running(u) = {i} /\ target[u] = Planned(sources[u], i)
                            /\ Source(u) = sources[u][i]
<1> USE DEF IInv
<1>0. sources[u] \in Seq(Sources) /\ Source(u) \in Sources
  BY SourceTyped DEF TypeOK
<1>1. CASE u \in Jobs
  <2>1. PICK i \in DOMAIN status[u] : Running(u) = {i}
    BY <1>1 DEF JobShape, ShapeOf, AtItem
  <2>2. status[u] \in Seq(Statuses) /\ Len(sources[u]) = Len(status[u])
    BY <1>1 DEF TypeOK, JobShape, ShapeOf
  <2>3. i \in DOMAIN sources[u] /\ i \in 1..Len(sources[u])
    BY <1>0, <2>1, <2>2, LenProperties
  <2>4. target[u] = Planned(sources[u], i) /\ Source(u) = sources[u][i]
    BY <1>1, <2>1 DEF TargetOf, Source
  <2>5. StemOf(target[u]) = Stem[sources[u][i]]
    BY <1>0, <2>3, <2>4, PlannedStem
  <2>6. target[u] \in Paths
    BY <1>0, <2>3, <2>4, PlannedTyped
  <2>7. QED
    BY <1>0, <2>1, <2>3, <2>4, <2>5, <2>6 DEF StemsOf
<1>2. CASE u \notin Jobs
  <2>1. target[u] \in Paths /\ StemOf(target[u]) = Stem[sources[u][1]]
    BY <1>2 DEF TargetOf
  <2>2. Len(sources[u]) = 1
    BY <1>2 DEF SingleShape, Threads
  <2>3. 1 \in DOMAIN sources[u]
    BY <1>0, <2>2, LenProperties
  <2>4. QED
    BY <1>0, <1>2, <2>1, <2>3 DEF StemsOf
<1>3. QED
  BY <1>1, <1>2

\* Threads do not lose sources,
LEMMA StemsKept ==
  ASSUME IInv, SourcesShape, [Next]_vars, NEW u \in Threads
  PROVE  StemsOf(u) \subseteq StemsOf(u)'
<1>1. sources'[u] = sources[u] \/ sources[u] = <<>>
  <2>1. ASSUME NEW j \in Jobs, Start(j) PROVE sources'[u] = sources[u] \/ sources[u] = <<>>
    BY <2>1 DEF Start, SourcesShape, IInv, TypeOK
  <2>2. ASSUME NEW c \in Singles, Ask(c) PROVE sources'[u] = sources[u] \/ sources[u] = <<>>
    BY <2>2 DEF Ask, SourcesShape, IInv, TypeOK
  <2>3. ASSUME NEW v \in Threads, Work(v) PROVE sources' = sources
    <3>1. CASE v \in Jobs /\ (TakeItem(v) \/ FinishJob(v) \/ RecordItem(v))
      BY <3>1 DEF TakeItem, FinishJob, RecordItem
    <3>2. CASE Convert(v)
      BY <3>2, ConvertStep DEF IInv, jobVars
    <3>3. QED
      BY <2>3, <3>1, <3>2 DEF Work, Convert
  <2>4. CASE UNCHANGED vars \/ \E j \in Jobs : Cancel(j)
    BY <2>4 DEF Cancel, vars
  <2>5. QED
    BY <2>1, <2>2, <2>3, <2>4 DEF Next
<1>2. QED
  BY <1>1 DEF StemsOf

\* so that one that is left alone was left alone before.
LEMMA AloneBefore ==
  ASSUME IInv, SourcesShape, [Next]_vars, NEW t \in Threads, HasStemsAlone(t)'
  PROVE  HasStemsAlone(t)
BY StemsKept DEF HasStemsAlone
-----------------------------------------------------------------------------
\* The sources of a job are different from its start, and do not change.
LEMMA SourcesStep == ASSUME IInv, SourcesShape, [Next]_vars PROVE SourcesShape'
<1> USE DEF IInv
<1>1. ASSUME UNCHANGED sources, \A t \in Threads : pc'[t] = "idle" => pc[t] = "idle"
      PROVE  SourcesShape'
  BY <1>1 DEF SourcesShape
<1>2. ASSUME NEW j \in Jobs, Start(j) PROVE SourcesShape'
  <2>1. PICK s \in Batches(j) : sources' = [sources EXCEPT ![j] = s]
    BY <1>2 DEF Start
  <2>2. \A i, k \in DOMAIN s : i # k => s[i] # s[k]
    BY <2>1 DEF Batches
  <2>3. pc' = [pc EXCEPT ![j] = "take"]
    BY <1>2 DEF Start, Goto
  <2>4. QED
    BY <2>1, <2>2, <2>3 DEF SourcesShape, TypeOK, Threads
<1>3. ASSUME NEW c \in Singles, Ask(c) PROVE SourcesShape'
  <2>1. /\ pc' = [pc EXCEPT ![c] = "convert"]
        /\ \A t \in Threads \ {c} : sources'[t] = sources[t]
    BY <1>3 DEF Ask, Goto, TypeOK
  <2>2. c \notin Jobs
    BY ConvertAssumption
  <2>3. QED
    BY <2>1, <2>2 DEF SourcesShape, TypeOK, Threads
<1>4. ASSUME NEW t \in Threads, Work(t) PROVE SourcesShape'
  <2>1. CASE t \in Jobs /\ (TakeItem(t) \/ FinishJob(t) \/ RecordItem(t))
    BY <1>1, <2>1 DEF TakeItem, FinishJob, RecordItem, Goto, TypeOK
  <2>2. CASE Convert(t)
    <3>1. \E l \in {"pick", "exists", "open", "close", "record", "over", "dead"} :
            pc' = [pc EXCEPT ![t] = l]
      BY <2>2, ConvertStep
    <3>2. UNCHANGED sources
      BY <2>2, ConvertStep DEF jobVars
    <3>3. QED
      BY <1>1, <3>1, <3>2 DEF TypeOK
  <2>3. QED
    BY <1>4, <2>1, <2>2 DEF Work, Convert
<1>5. CASE (\E j \in Jobs : Cancel(j)) \/ UNCHANGED vars
  BY <1>1, <1>5 DEF Cancel, vars
<1>6. QED
  BY <1>2, <1>3, <1>4, <1>5 DEF Next

\* Targets are decided by Converted and Pick.
LEMMA TargetStep ==
  ASSUME IInv, SourcesShape, NEW t \in Threads, TargetOf(t), [Next]_vars
  PROVE  TargetOf(t)'
<1> USE ConvertAssumption DEF IInv
<1>1. ASSUME /\ pc'[t] = pc[t] /\ target'[t] = target[t] /\ sources'[t] = sources[t]
             /\ result'[t] = result[t]
             /\ t \in Jobs => status'[t] = status[t]
      PROVE  TargetOf(t)'
  BY <1>1 DEF TargetOf, Running
<1>2. ASSUME NEW j \in Jobs, Start(j) \/ TakeItem(j) \/ RecordItem(j) \/ FinishJob(j)
      PROVE  TargetOf(t)'
  <2>1. \E l \in {"take", "convert", "over"} : pc' = [pc EXCEPT ![j] = l]
    BY <1>2 DEF Start, TakeItem, RecordItem, FinishJob, Goto
  <2>2. CASE t = j
    BY <2>1, <2>2 DEF TargetOf, TypeOK
  <2>3. CASE t # j
    BY <1>1, <1>2, <2>1, <2>3 DEF Start, TakeItem, RecordItem, FinishJob, TypeOK, Threads
  <2>4. QED
    BY <2>2, <2>3
<1>3. ASSUME NEW c \in Singles, Ask(c) PROVE TargetOf(t)'
  <2>1. pc' = [pc EXCEPT ![c] = "convert"]
    BY <1>3 DEF Ask, Goto
  <2>2. CASE t = c
    BY <2>1, <2>2 DEF TargetOf, TypeOK
  <2>3. CASE t # c
    BY <1>1, <1>3, <2>1, <2>3 DEF Ask, TypeOK, Threads
  <2>4. QED
    BY <2>2, <2>3
<1>4. CASE (\E j \in Jobs : Cancel(j)) \/ UNCHANGED vars
  BY <1>1, <1>4 DEF Cancel, vars
<1>5. ASSUME NEW u \in Threads, u # t, Convert(u) PROVE TargetOf(t)'
  <2>1. UNCHANGED <<status, sources>>
    BY <1>5, ConvertStep DEF jobVars
  <2>2. pc'[t] = pc[t] /\ target'[t] = target[t] /\ result'[t] = result[t]
    BY <1>5, ConvertOthers
  <2>3. QED
    BY <1>1, <2>1, <2>2
<1>6. ASSUME Convert(t) PROVE TargetOf(t)'
  <2>0. UNCHANGED <<status, sources>> /\ Running(t)' = Running(t)
    BY <1>6, ConvertStep DEF jobVars, Running
  <2>1. Source(t) \in Sources /\ sources[t] \in Seq(Sources)
    BY <1>6, ConvertStep, SourceTyped DEF TypeOK
  <2>2. CASE t \in Singles /\ Pick(t)
    <3>1. Source(t) = sources[t][1]
      BY <2>2 DEF Source
    <3>2. \/ target' = [target EXCEPT ![t] = <<"plain", Stem[Source(t)]>>]
          \/ \E n \in 1..MaxCopies :
               target' = [target EXCEPT ![t] = <<"copy", Stem[Source(t)], n>>]
      BY <2>2 DEF Pick
    <3>3. target'[t] \in Paths /\ StemOf(target'[t]) = Stem[Source(t)]
      BY <2>1, <3>2 DEF StemOf, Paths, TypeOK
    <3>4. QED
      BY <2>0, <2>2, <3>1, <3>3 DEF TargetOf, StemOf
  <2>3. CASE Converted(t)
    <3>1. CASE t \in Jobs
      <4>1. PICK i \in DOMAIN status[t] : Running(t) = {i}
        BY <2>3, <3>1 DEF Converted, JobShape, ShapeOf, AtItem
      <4>2. target' = [target EXCEPT ![t] = Planned(sources[t], i)]
        BY <2>3, <3>1, <4>1 DEF Converted
      <4>3. target'[t] = Planned(sources[t], i)
        BY <4>2 DEF TypeOK
      <4>4. \A k \in Running(t)' : target'[t] = Planned(sources'[t], k)
        BY <2>0, <4>1, <4>3
      <4>5. QED
        BY <3>1, <4>4 DEF TargetOf
    <3>2. CASE t \notin Jobs
      <4>1. target' = [target EXCEPT ![t] = <<"plain", Stem[Source(t)]>>]
        BY <2>3, <3>2 DEF Converted
      <4>2. Source(t) = sources[t][1]
        BY <3>2 DEF Source
      <4>3. target'[t] \in Paths /\ StemOf(target'[t]) = Stem[Source(t)]
        BY <2>1, <4>1 DEF StemOf, Paths, TypeOK
      <4>4. QED
        BY <2>0, <3>2, <4>2, <4>3 DEF TargetOf, StemOf
    <3>3. QED
      BY <3>1, <3>2
  <2>4. CASE ConvertFails(t) \/ CheckPanics(t) \/ WriteFails(t)
    <3>1. pc'[t] \in {"record", "over", "dead"} /\ result'[t] = "error"
      BY <2>4 DEF ConvertFails, CheckPanics, WriteFails, Settle, Goto, TypeOK
    <3>2. QED
      BY <3>1 DEF TargetOf
  <2>5. CASE CheckExists(t) \/ WriteOpen(t) \/ WriteClose(t)
    <3>1. target' = target /\ pc[t] \in {"exists", "open", "close"}
      BY <2>5 DEF CheckExists, WriteOpen, WriteClose
    <3>2. CASE t \in Jobs
      <4>1. \A i \in Running(t) : target[t] = Planned(sources[t], i)
        BY <3>1, <3>2 DEF TargetOf
      <4>2. \A i \in Running(t)' : target'[t] = Planned(sources'[t], i)
        BY <2>0, <3>1, <4>1
      <4>3. QED
        BY <3>2, <4>2 DEF TargetOf
    <3>3. CASE t \notin Jobs
      <4>1. target[t] \in Paths /\ StemOf(target[t]) = Stem[sources[t][1]]
        BY <3>1, <3>3 DEF TargetOf
      <4>2. target'[t] \in Paths /\ StemOf(target'[t]) = Stem[sources'[t][1]]
        BY <2>0, <3>1, <4>1
      <4>3. QED
        BY <3>3, <4>2 DEF TargetOf, StemOf
    <3>4. QED
      BY <3>2, <3>3
  <2>6. QED
    BY <1>6, <2>2, <2>3, <2>4, <2>5 DEF Convert
<1>7. QED
  BY <1>2, <1>3, <1>4, <1>5, <1>6 DEF Next, Work, Convert
-----------------------------------------------------------------------------
\* The conversion of one thread leaves the outputs of another alone.
LEMMA OthersOutputs ==
  ASSUME IInv, NEW t \in Threads, HasStemsAlone(t), NEW u \in Threads, u # t,
         TargetOf(u), Convert(u),
         NEW p \in Paths, StemOf(p) \in StemsOf(t)
  PROVE  files'[p] = files[p]
<1>1. CASE WriteOpen(u) \/ WriteClose(u)
  <2>1. StemOf(target[u]) \in StemsOf(u)
    BY <1>1, OwnTarget DEF WriteOpen, WriteClose
  <2>2. p # target[u]
    BY <2>1 DEF HasStemsAlone
  <2>3. QED
    BY <1>1, <2>2 DEF WriteOpen, WriteClose, IInv, TypeOK
<1>2. CASE ~(WriteOpen(u) \/ WriteClose(u))
  BY <1>2 DEF Convert, Pick, ConvertFails, Converted, CheckPanics, CheckExists, WriteFails
<1>3. QED
  BY <1>1, <1>2

\* The outputs an alone thread was told about stay what they are while others convert.
LEMMA WrittenByOthers ==
  ASSUME IInv, NEW t \in Threads, HasStemsAlone(t), TargetOf(t), WrittenOf(t),
         NEW u \in Threads, u # t, TargetOf(u), Convert(u)
  PROVE  WrittenOf(t)'
<1> USE DEF IInv
<1>1. UNCHANGED <<status, sources>> /\ pc'[t] = pc[t] /\ Running(t)' = Running(t)
  <2>1. UNCHANGED <<status, sources>> /\ pc'[t] = pc[t]
    BY ConvertStep, ConvertOthers DEF jobVars
  <2>2. QED
    BY <2>1 DEF Running
<1>2. target'[t] = target[t] /\ result'[t] = result[t]
  BY ConvertOthers
<1>3. \A p \in Paths : StemOf(p) \in StemsOf(t) => files'[p] = files[p]
  BY OthersOutputs
<1>4. sources[t] \in Seq(Sources)
  BY DEF TypeOK
<1>5. CASE t \in Jobs
  <2>1. \A i \in DOMAIN sources[t] :
          files'[Planned(sources[t], i)] = files[Planned(sources[t], i)]
    <3>1. ASSUME NEW i \in DOMAIN sources[t]
          PROVE  /\ Planned(sources[t], i) \in Paths
                 /\ StemOf(Planned(sources[t], i)) \in StemsOf(t)
      BY <1>4, PlannedStem, PlannedTyped, LenProperties DEF StemsOf
    <3>2. QED
      BY <1>3, <3>1
  <2>2. DOMAIN sources[t] = DOMAIN status[t] /\ Running(t) \subseteq DOMAIN status[t]
    <3>1. status[t] \in Seq(Statuses) /\ Len(sources[t]) = Len(status[t])
      BY <1>5 DEF TypeOK, JobShape, ShapeOf
    <3>2. QED
      BY <1>4, <3>1, LenProperties DEF Running
  <2>3. pc[t] = "close" => files'[target[t]] = files[target[t]]
    BY <1>3, OwnTarget
  <2>4. OkIsThereOf(t)'
    BY <1>1, <1>5, <2>1, <2>2 DEF WrittenOf, OkIsThereOf
  <2>5. pc[t] = "record" /\ result[t] = "ok" =>
          \A i \in Running(t) : files'[Planned(sources[t], i)] = <<t, sources[t][i]>>
    BY <1>5, <2>1, <2>2 DEF WrittenOf
  <2>6. pc'[t] = "close" => files'[target'[t]] = Empty
    BY <1>1, <1>2, <2>3 DEF WrittenOf
  <2>7. QED
    BY <1>1, <1>2, <2>4, <2>5, <2>6 DEF WrittenOf
<1>6. CASE t \notin Jobs
  <2>1. pc[t] = "close" => files'[target[t]] = files[target[t]]
    BY <1>3, OwnTarget
  <2>2. Source(t)' = Source(t) /\ Source(t) = sources[t][1]
    BY <1>1, <1>6 DEF Source
  <2>3. pc[t] = "over" /\ result[t] = "ok" => files'[target[t]] = files[target[t]]
    <3>1. SUFFICES ASSUME pc[t] = "over", result[t] = "ok"
                   PROVE  target[t] \in Paths /\ StemOf(target[t]) \in StemsOf(t)
      BY <1>3
    <3>2. target[t] \in Paths /\ StemOf(target[t]) = Stem[sources[t][1]]
      BY <1>6, <3>1 DEF TargetOf
    <3>3. Len(sources[t]) = 1
      BY <1>6, <3>1 DEF SingleShape, Threads
    <3>4. 1 \in DOMAIN sources[t]
      BY <1>4, <3>3, LenProperties
    <3>5. QED
      BY <3>2, <3>4 DEF StemsOf
  <2>4. OkIsThereOf(t)'
    BY <1>1, <1>2, <1>6, <2>2, <2>3 DEF WrittenOf, OkIsThereOf
  <2>5. pc'[t] = "close" => files'[target'[t]] = Empty
    BY <1>1, <1>2, <2>1 DEF WrittenOf
  <2>6. QED
    BY <1>6, <2>4, <2>5 DEF WrittenOf
<1>7. QED
  BY <1>5, <1>6

\* An item is reported "ok" after its own text was written, and the other items of the
\* job have other outputs.
LEMMA WrittenByItself ==
  ASSUME IInv, SourcesShape, NEW t \in Threads, TargetOf(t), WrittenOf(t), Convert(t)
  PROVE  WrittenOf(t)'
<1> USE DEF IInv
<1>1. UNCHANGED <<status, sources>> /\ Running(t)' = Running(t) /\ Source(t)' = Source(t)
  <2>1. UNCHANGED <<status, sources>>
    BY ConvertStep DEF jobVars
  <2>2. QED
    BY <2>1 DEF Running, Source
<1>2. sources[t] \in Seq(Sources)
  BY DEF TypeOK
<1>3. CASE WriteOpen(t)
  <2>1. pc'[t] = "close" /\ target' = target
    BY <1>3 DEF WriteOpen, Goto, TypeOK
  <2>2. target[t] \in Paths
    BY <1>3, OwnTarget DEF WriteOpen
  <2>3. files' = [files EXCEPT ![target[t]] = Empty]
    BY <1>3 DEF WriteOpen
  <2>4. files'[target'[t]] = Empty
    BY <2>1, <2>2, <2>3 DEF TypeOK
  <2>5. OkIsThereOf(t)'
    <3>1. CASE t \in Jobs
      <4>1. PICK i \in DOMAIN sources[t] : Running(t) = {i} /\ target[t] = Planned(sources[t], i)
        BY <1>3, <3>1, OwnTarget DEF WriteOpen
      <4>2. ASSUME NEW k \in DOMAIN status[t], status[t][k] = "ok"
            PROVE  files'[Planned(sources[t], k)] = <<t, sources[t][k]>>
        <5>1. k # i /\ k \in DOMAIN sources[t]
          <6>1. status[t] \in Seq(Statuses) /\ Len(sources[t]) = Len(status[t])
            BY <3>1 DEF TypeOK, JobShape, ShapeOf
          <6>2. k \in DOMAIN sources[t]
            BY <1>2, <6>1, LenProperties
          <6>3. QED
            BY <4>1, <4>2, <6>2 DEF Running
        <5>2. Planned(sources[t], k) # target[t]
          BY <1>2, <3>1, <4>1, <5>1, PlannedDistinct DEF SourcesShape
        <5>3. files'[Planned(sources[t], k)] = files[Planned(sources[t], k)]
          BY <2>3, <5>2 DEF TypeOK
        <5>4. QED
          BY <3>1, <4>2, <5>3 DEF WrittenOf, OkIsThereOf
      <4>3. QED
        BY <1>1, <3>1, <4>2 DEF OkIsThereOf
    <3>2. CASE t \notin Jobs
      BY <2>1, <3>2 DEF OkIsThereOf
    <3>3. QED
      BY <3>1, <3>2
  <2>6. QED
    BY <2>1, <2>4, <2>5 DEF WrittenOf
<1>4. CASE WriteClose(t)
  <2>1. /\ pc[t] = "close" /\ target' = target
        /\ result'[t] = "ok" /\ pc'[t] = IF t \in Jobs THEN "record" ELSE "over"
    BY <1>4 DEF WriteClose, Settle, Goto, TypeOK
  <2>2. files[target[t]] = Empty /\ target[t] \in Paths
    BY <2>1, OwnTarget DEF WrittenOf
  <2>3. files' = [files EXCEPT ![target[t]] = <<t, Source(t)>>]
    BY <1>4, <2>2 DEF WriteClose
  <2>4. files'[target[t]] = <<t, Source(t)>>
    BY <2>2, <2>3 DEF TypeOK
  <2>5. CASE t \in Jobs
    <3>1. PICK i \in DOMAIN sources[t] :
            /\ Running(t) = {i} /\ target[t] = Planned(sources[t], i)
            /\ Source(t) = sources[t][i]
      BY <2>1, <2>5, OwnTarget
    <3>2. ASSUME NEW k \in DOMAIN status[t], status[t][k] = "ok"
          PROVE  files'[Planned(sources[t], k)] = <<t, sources[t][k]>>
      <4>1. k # i /\ k \in DOMAIN sources[t]
        <5>1. status[t] \in Seq(Statuses) /\ Len(sources[t]) = Len(status[t])
          BY <2>5 DEF TypeOK, JobShape, ShapeOf
        <5>2. k \in DOMAIN sources[t]
          BY <1>2, <5>1, LenProperties
        <5>3. QED
          BY <3>1, <3>2, <5>2 DEF Running
      <4>2. Planned(sources[t], k) # target[t]
        BY <1>2, <2>5, <3>1, <4>1, PlannedDistinct DEF SourcesShape
      <4>3. files'[Planned(sources[t], k)] = files[Planned(sources[t], k)]
        BY <2>3, <4>2 DEF TypeOK
      <4>4. QED
        BY <2>5, <3>2, <4>3 DEF WrittenOf, OkIsThereOf
    <3>3. OkIsThereOf(t)'
      BY <1>1, <2>5, <3>2 DEF OkIsThereOf
    <3>4. \A k \in Running(t)' : files'[Planned(sources'[t], k)] = <<t, sources'[t][k]>>
      BY <1>1, <2>4, <3>1
    <3>5. QED
      BY <2>1, <2>5, <3>3, <3>4 DEF WrittenOf
  <2>6. CASE t \notin Jobs
    BY <1>1, <2>1, <2>4, <2>6 DEF WrittenOf, OkIsThereOf
  <2>7. QED
    BY <2>5, <2>6
<1>5. CASE ~(WriteOpen(t) \/ WriteClose(t))
  <2>1. files' = files /\ pc'[t] # "close"
    BY <1>5 DEF Convert, Pick, ConvertFails, Converted, CheckPanics, CheckExists, WriteFails,
                Settle, Goto, TypeOK
  <2>2. pc'[t] \in {"record", "over"} => result'[t] # "ok"
    <3>1. CASE CheckExists(t)
      BY <3>1 DEF CheckExists, Settle, Goto, TypeOK
    <3>2. CASE ~CheckExists(t)
      BY <1>5, <3>2 DEF Convert, Pick, ConvertFails, Converted, CheckPanics, WriteFails,
                        Settle, Goto, TypeOK
    <3>3. QED
      BY <3>1, <3>2
  <2>3. OkIsThereOf(t)'
    BY <1>1, <2>1, <2>2 DEF WrittenOf, OkIsThereOf
  <2>4. QED
    BY <2>1, <2>2, <2>3 DEF WrittenOf
<1>6. QED
  BY <1>3, <1>4, <1>5

\* A step that moves neither the thread nor its list says nothing new of it.
LEMMA WrittenUnmoved ==
  ASSUME NEW t \in Threads, WrittenOf(t),
         files' = files, target'[t] = target[t], result'[t] = result[t],
         pc'[t] = pc[t], sources'[t] = sources[t], t \in Jobs => status'[t] = status[t]
  PROVE  WrittenOf(t)'
<1>1. CASE t \in Jobs
  <2>1. Running(t)' = Running(t)
    BY <1>1 DEF Running
  <2>2. OkIsThereOf(t)'
    BY <1>1 DEF WrittenOf, OkIsThereOf
  <2>3. QED
    BY <2>1, <2>2 DEF WrittenOf
<1>2. CASE t \notin Jobs
  <2>1. Source(t)' = Source(t)
    BY <1>2 DEF Source
  <2>2. OkIsThereOf(t)'
    BY <1>2, <2>1 DEF WrittenOf, OkIsThereOf
  <2>3. QED
    BY <1>2, <2>2 DEF WrittenOf
<1>3. QED
  BY <1>1, <1>2

\* The table shows "ok" only of an item whose text was written.
LEMMA WrittenAtTable ==
  ASSUME IInv, NEW j \in Jobs, WrittenOf(j),
         Start(j) \/ TakeItem(j) \/ RecordItem(j) \/ FinishJob(j)
  PROVE  WrittenOf(j)'
<1> USE DEF IInv
<1>1. files' = files /\ pc'[j] \in {"take", "convert", "over"}
  BY DEF Start, TakeItem, RecordItem, FinishJob, Goto, TypeOK, Threads
<1>2. SUFFICES OkIsThereOf(j)'
  BY <1>1 DEF WrittenOf
<1>3. CASE Start(j)
  <2>1. PICK n \in 1..MaxItems : status' = [status EXCEPT ![j] = [i \in 1..n |-> "queued"]]
    BY <1>3, StartEffect
  <2>2. \A i \in DOMAIN status'[j] : status'[j][i] = "queued"
    BY <2>1 DEF TypeOK
  <2>3. QED
    BY <2>2 DEF OkIsThereOf
<1>4. ASSUME sources' = sources,
             \A i \in DOMAIN status'[j] :
               /\ i \in DOMAIN status[j]
               /\ status'[j][i] = "ok" =>
                    \/ status[j][i] = "ok"
                    \/ pc[j] = "record" /\ result[j] = "ok" /\ i \in Running(j)
      PROVE  OkIsThereOf(j)'
  BY <1>1, <1>4 DEF WrittenOf, OkIsThereOf
<1>5. CASE TakeItem(j)
  <2>1. PICK i \in Queued(j) :
          /\ status' = [status EXCEPT ![j] = [status[j] EXCEPT ![i] = "running"]]
          /\ DOMAIN status'[j] = DOMAIN status[j]
    BY <1>5, TakeEffect
  <2>2. status'[j] = [status[j] EXCEPT ![i] = "running"]
    BY <2>1 DEF TypeOK
  <2>3. sources' = sources
    BY <1>5 DEF TakeItem
  <2>4. QED
    BY <1>4, <2>1, <2>2, <2>3
<1>6. CASE RecordItem(j)
  <2>1. PICK i \in DOMAIN status[j] :
          /\ Running(j) = {i}
          /\ status' = [status EXCEPT ![j] = [status[j] EXCEPT ![i] = result[j]]]
          /\ DOMAIN status'[j] = DOMAIN status[j]
    BY <1>6, RecordEffect
  <2>2. status'[j] = [status[j] EXCEPT ![i] = result[j]]
    BY <2>1 DEF TypeOK
  <2>3. sources' = sources /\ pc[j] = "record"
    BY <1>6 DEF RecordItem
  <2>4. QED
    BY <1>4, <2>1, <2>2, <2>3
<1>7. CASE FinishJob(j)
  <2>1. /\ \A i \in DOMAIN status[j] :
             status'[j][i] = IF status[j][i] = "queued" THEN "canceled" ELSE status[j][i]
        /\ DOMAIN status'[j] = DOMAIN status[j]
    BY <1>7, FinishEffect
  <2>2. sources' = sources
    BY <1>7 DEF FinishJob
  <2>3. QED
    BY <1>4, <2>1, <2>2
<1>8. QED
  BY <1>3, <1>5, <1>6, <1>7

\* Every step keeps what is known of a thread that is left alone.
LEMMA WrittenStep ==
  ASSUME IInv, OutputInv, [Next]_vars, NEW t \in Threads, HasStemsAlone(t)
  PROVE  WrittenOf(t)'
<1> USE ConvertAssumption DEF IInv
<1>0. SourcesShape /\ WrittenOf(t) /\ \A u \in Threads : TargetOf(u)
  BY DEF OutputInv
<1>1. ASSUME NEW j \in Jobs, Start(j) \/ TakeItem(j) \/ RecordItem(j) \/ FinishJob(j)
      PROVE  WrittenOf(t)'
  <2>1. CASE t = j
    BY <1>0, <1>1, <2>1, WrittenAtTable
  <2>2. CASE t # j
    <3>1. \E l \in {"take", "convert", "over"} : pc' = [pc EXCEPT ![j] = l]
      BY <1>1 DEF Start, TakeItem, RecordItem, FinishJob, Goto
    <3>2. files' = files /\ target' = target /\ result' = result /\ pc'[t] = pc[t]
      BY <1>1, <2>2, <3>1 DEF Start, TakeItem, RecordItem, FinishJob, TypeOK
    <3>3. sources'[t] = sources[t] /\ (t \in Jobs => status'[t] = status[t])
      BY <1>1, <2>2 DEF Start, TakeItem, RecordItem, FinishJob, TypeOK
    <3>4. QED
      BY <1>0, <3>2, <3>3, WrittenUnmoved
  <2>3. QED
    BY <2>1, <2>2
<1>2. ASSUME NEW c \in Singles, Ask(c) PROVE WrittenOf(t)'
  <2>1. /\ pc' = [pc EXCEPT ![c] = "convert"]
        /\ UNCHANGED <<status, files, target, result>>
    BY <1>2 DEF Ask, Goto
  <2>2. CASE t = c
    <3>1. pc'[t] = "convert" /\ t \notin Jobs
      BY <2>1, <2>2 DEF TypeOK
    <3>2. QED
      BY <3>1 DEF WrittenOf, OkIsThereOf
  <2>3. CASE t # c
    <3>1. sources'[t] = sources[t] /\ pc'[t] = pc[t]
      BY <1>2, <2>1, <2>3 DEF Ask, TypeOK
    <3>2. QED
      BY <1>0, <2>1, <3>1, WrittenUnmoved
  <2>4. QED
    BY <2>2, <2>3
<1>3. CASE (\E j \in Jobs : Cancel(j)) \/ UNCHANGED vars
  <2>1. UNCHANGED <<status, files, target, result, pc, sources>>
    BY <1>3 DEF Cancel, vars
  <2>2. QED
    BY <1>0, <2>1, WrittenUnmoved
<1>4. ASSUME NEW u \in Threads, Convert(u) PROVE WrittenOf(t)'
  <2>1. CASE u = t
    BY <1>0, <1>4, <2>1, WrittenByItself
  <2>2. CASE u # t
    BY <1>0, <1>4, <2>2, WrittenByOthers
  <2>3. QED
    BY <2>1, <2>2
<1>5. QED
  BY <1>1, <1>2, <1>3, <1>4 DEF Next, Work, Convert

LEMMA OutputInit == ASSUME Init PROVE OutputInv
<1>1. \A t \in Threads : pc[t] = "idle" /\ sources[t] = <<>>
  BY DEF Init
<1>2. \A j \in Jobs : status[j] = <<>>
  BY DEF Init
<1>3. SourcesShape
  BY <1>1 DEF SourcesShape, Threads
<1>4. ASSUME NEW t \in Threads PROVE TargetOf(t) /\ WrittenOf(t)
  BY <1>1, <1>2 DEF TargetOf, WrittenOf, OkIsThereOf
<1>5. QED
  BY <1>3, <1>4 DEF OutputInv

LEMMA OutputStep == ASSUME IInv, OutputInv, [Next]_vars PROVE OutputInv'
<1>1. SourcesShape /\ \A t \in Threads : TargetOf(t)
  BY DEF OutputInv
<1>2. SourcesShape'
  BY <1>1, SourcesStep
<1>3. ASSUME NEW t \in Threads PROVE TargetOf(t)'
  BY <1>1, TargetStep
<1>4. ASSUME NEW t \in Threads, HasStemsAlone(t)' PROVE WrittenOf(t)'
  <2>1. HasStemsAlone(t)
    BY <1>1, <1>4, AloneBefore
  <2>2. QED
    BY <2>1, WrittenStep
<1>5. QED
  BY <1>2, <1>3, <1>4 DEF OutputInv

LEMMA OutputInvariance == Spec => []OutputInv
BY OutputInit, OutputStep, Invariance, PTL DEF Spec

\* An item reported "ok", or a request answered "saved", has its own text in its own
\* output as long as no other job or request converts a document of the same folder and
\* name: a job does not overwrite its own successes, whatever its sources are called.
THEOREM OkCorrect == Spec => []OkIsThere
<1>1. OutputInv => OkIsThere
  BY DEF OutputInv, WrittenOf, OkIsThere
<1>2. QED
  BY <1>1, OutputInvariance, PTL
-----------------------------------------------------------------------------
(***************************************************************************)
(* Why only a request to overwrite replaces a file: a thread that is alone *)
(* with its folders and names finds an output as it was when it looked.    *)
(***************************************************************************)

\* Jobs are never told to rename.
NoJobRenames == \A j \in Jobs : ~rename[j]

\* A numbered copy that is there was written by a request of its folder and name, and
\* that request writes no other.
CopiesAreTaken ==
  \A st \in Stems, n \in 1..MaxCopies :
    files[<<"copy", st, n>>] # None =>
      \E c \in Singles : pc[c] \in {"close", "over"} /\ st \in StemsOf(c)

\* May a thread replace what it finds at its output?
Requested(t) == overwrite[t] \/ Source(t) \in Uploads

\* One that may not has found its output free: when it picked the name, or when it looked.
FreeOf(t) ==
  (pc[t] = "open" \/ (pc[t] = "exists" /\ rename[t])) /\ ~Requested(t)
    => files[target[t]] = None

FreeInv ==
  /\ OutputInv /\ NoJobRenames /\ CopiesAreTaken
  /\ \A t \in Threads : HasStemsAlone(t) => FreeOf(t)
-----------------------------------------------------------------------------
\* A request that has begun to write goes on to its end, and stays there.
LEMMA EndStays ==
  ASSUME IInv, [Next]_vars, NEW c \in Singles, pc[c] \in {"close", "over"}
  PROVE  pc'[c] \in {"close", "over"}
<1> USE ConvertAssumption DEF IInv, Threads
<1>1. c \in Threads /\ c \notin Jobs
  OBVIOUS
<1>2. ASSUME NEW j \in Jobs, Start(j) \/ TakeItem(j) \/ RecordItem(j) \/ FinishJob(j)
      PROVE  pc'[c] = pc[c]
  BY <1>1, <1>2 DEF Start, TakeItem, RecordItem, FinishJob, Goto, TypeOK
<1>3. ASSUME NEW d \in Singles, Ask(d) PROVE pc'[c] = pc[c]
  BY <1>3 DEF Ask, Goto, TypeOK
<1>4. ASSUME NEW u \in Threads, u # c, Convert(u) PROVE pc'[c] = pc[c]
  BY <1>1, <1>4, ConvertOthers
<1>5. ASSUME Convert(c) PROVE pc'[c] \in {"close", "over"}
  <2>1. WriteClose(c) \/ WriteFails(c)
    BY <1>5 DEF Convert, Pick, ConvertFails, Converted, CheckPanics, CheckExists, WriteOpen
  <2>2. pc' = [pc EXCEPT ![c] = "over"]
    BY <1>1, <2>1 DEF WriteClose, WriteFails, Settle, Goto
  <2>3. QED
    BY <1>1, <2>2 DEF TypeOK
<1>6. CASE (\E j \in Jobs : Cancel(j)) \/ UNCHANGED vars
  BY <1>6 DEF Cancel, vars
<1>7. QED
  BY <1>2, <1>3, <1>4, <1>5, <1>6 DEF Next, Work, Convert

\* Files are written by conversions alone.
LEMMA FilesStep ==
  ASSUME [Next]_vars, files' # files
  PROVE  \E u \in Threads : WriteOpen(u) \/ WriteClose(u)
<1>1. ASSUME NEW j \in Jobs, Start(j) \/ Cancel(j) PROVE FALSE
  BY <1>1 DEF Start, Cancel
<1>2. ASSUME NEW c \in Singles, Ask(c) PROVE FALSE
  BY <1>2 DEF Ask
<1>3. ASSUME NEW u \in Threads, Work(u) PROVE WriteOpen(u) \/ WriteClose(u)
  BY <1>3 DEF Work, TakeItem, FinishJob, RecordItem, Pick, ConvertFails, Converted, CheckPanics,
              CheckExists, WriteFails
<1>4. CASE UNCHANGED vars
  BY <1>4 DEF vars
<1>5. QED
  BY <1>1, <1>2, <1>3, <1>4 DEF Next

\* A numbered copy is written by requests alone: no item is planned to have one.
LEMMA CopiesStep ==
  ASSUME IInv, OutputInv, CopiesAreTaken, [Next]_vars
  PROVE  CopiesAreTaken'
<1> USE ConvertAssumption DEF IInv
<1>0. SourcesShape /\ \A u \in Threads : TargetOf(u)
  BY DEF OutputInv
<1>1. SUFFICES ASSUME NEW st \in Stems, NEW n \in 1..MaxCopies,
                      files'[<<"copy", st, n>>] # None
               PROVE  \E c \in Singles : pc'[c] \in {"close", "over"} /\ st \in StemsOf(c)'
  BY DEF CopiesAreTaken
<1>2. CASE files[<<"copy", st, n>>] # None
  <2>1. PICK c \in Singles : pc[c] \in {"close", "over"} /\ st \in StemsOf(c)
    BY <1>2 DEF CopiesAreTaken
  <2>2. pc'[c] \in {"close", "over"}
    BY <2>1, EndStays
  <2>3. st \in StemsOf(c)'
    BY <1>0, <2>1, StemsKept DEF Threads
  <2>4. QED
    BY <2>2, <2>3
<1>3. CASE files[<<"copy", st, n>>] = None
  <2>1. PICK u \in Threads : WriteOpen(u) \/ WriteClose(u)
    BY <1>1, <1>3, FilesStep
  <2>2. target[u] = <<"copy", st, n>>
    <3>1. PICK b : files' = [files EXCEPT ![target[u]] = b]
      BY <2>1 DEF WriteOpen, WriteClose
    <3>2. <<"copy", st, n>> \in Paths
      BY DEF Paths
    <3>3. QED
      BY <1>1, <1>3, <3>1, <3>2 DEF TypeOK
  <2>3. /\ StemOf(target[u]) \in StemsOf(u)
        /\ u \in Jobs => \E i \in DOMAIN sources[u] : target[u] = Planned(sources[u], i)
    BY <1>0, <2>1, OwnTarget DEF WriteOpen, WriteClose
  <2>4. "copy" # "plain" /\ "copy" # "digest"
    OBVIOUS
  <2>5. u \notin Jobs
    <3>1. SUFFICES ASSUME u \in Jobs PROVE FALSE
      OBVIOUS
    <3>2. PICK i : target[u] = Planned(sources[u], i)
      BY <2>3, <3>1
    <3>3. target[u][1] \in {"plain", "digest"}
      BY <3>2 DEF Planned
    <3>4. target[u][1] = "copy"
      BY <2>2
    <3>5. QED
      BY <2>4, <3>3, <3>4
  <2>6. u \in Singles /\ st \in StemsOf(u)
    BY <2>2, <2>3, <2>4, <2>5 DEF StemOf, Threads
  <2>7. pc'[u] \in {"close", "over"}
    BY <2>1, <2>5 DEF WriteOpen, WriteClose, Settle, Goto, TypeOK
  <2>8. st \in StemsOf(u)'
    BY <1>0, <2>6, StemsKept
  <2>9. QED
    BY <2>6, <2>7, <2>8
<1>4. QED
  BY <1>2, <1>3
-----------------------------------------------------------------------------
\* A request that is alone finds every numbered copy free before it writes.
LEMMA CopiesAreFree ==
  ASSUME IInv, CopiesAreTaken, NEW c \in Singles, HasStemsAlone(c), pc[c] = "pick",
         NEW n \in 1..MaxCopies
  PROVE  files[<<"copy", Stem[Source(c)], n>>] = None
<1> USE ConvertAssumption DEF IInv, Threads
<1>1. Source(c) \in Sources /\ Source(c) = sources[c][1]
  BY SourceTyped DEF Source
<1>2. sources[c] \in Seq(Sources) /\ Len(sources[c]) = 1
  BY DEF TypeOK, SingleShape
<1>3. Stem[Source(c)] \in StemsOf(c) /\ Stem[Source(c)] \in Stems
  BY <1>1, <1>2, LenProperties DEF StemsOf
<1>4. SUFFICES ASSUME files[<<"copy", Stem[Source(c)], n>>] # None PROVE FALSE
  OBVIOUS
<1>5. PICK d \in Singles : pc[d] \in {"close", "over"} /\ Stem[Source(c)] \in StemsOf(d)
  BY <1>3, <1>4 DEF CopiesAreTaken
<1>6. d # c
  BY <1>5
<1>7. QED
  BY <1>3, <1>5, <1>6 DEF HasStemsAlone

\* So what it picks is free.
LEMMA PickedIsFree ==
  ASSUME IInv, CopiesAreTaken, NEW c \in Singles, HasStemsAlone(c), Pick(c)
  PROVE  files'[target'[c]] = None
<1> USE ConvertAssumption DEF IInv, Threads
<1> DEFINE st   == Stem[Source(c)]
           free == {n \in 1..MaxCopies : files[<<"copy", st, n>>] = None}
<1>1. pc[c] = "pick" /\ files' = files
  BY DEF Pick
<1>2. 1 \in free
  BY <1>1, CopiesAreFree
<1>3. CASE files[<<"plain", st>>] = None
  <2>1. target' = [target EXCEPT ![c] = <<"plain", st>>]
    BY <1>3 DEF Pick
  <2>2. QED
    BY <1>1, <1>3, <2>1 DEF TypeOK
<1>4. CASE files[<<"plain", st>>] # None
  <2>1. PICK n \in free : target' = [target EXCEPT ![c] = <<"copy", st, n>>]
    BY <1>2, <1>4 DEF Pick
  <2>2. QED
    BY <1>1, <2>1 DEF TypeOK
<1>5. QED
  BY <1>3, <1>4

\* Jobs are not asked to rename.
LEMMA NoJobRenamesStep == ASSUME IInv, NoJobRenames, [Next]_vars PROVE NoJobRenames'
<1> USE ConvertAssumption DEF NoJobRenames, IInv
<1>1. ASSUME NEW c \in Singles, Ask(c) PROVE NoJobRenames'
  <2>1. \A j \in Jobs : rename'[j] = rename[j]
    BY <1>1 DEF Ask, TypeOK
  <2>2. QED
    BY <2>1
<1>2. ASSUME NEW j \in Jobs, Start(j) \/ Cancel(j) PROVE NoJobRenames'
  BY <1>2 DEF Start, Cancel
<1>3. ASSUME NEW t \in Threads, Work(t) PROVE NoJobRenames'
  <2>1. rename' = rename
    <3>1. CASE Convert(t)
      BY <3>1, ConvertStep
    <3>2. CASE ~Convert(t)
      BY <1>3, <3>2 DEF Work, Convert, TakeItem, FinishJob, RecordItem
    <3>3. QED
      BY <3>1, <3>2
  <2>2. QED
    BY <2>1
<1>4. CASE UNCHANGED vars
  BY <1>4 DEF vars
<1>5. QED
  BY <1>1, <1>2, <1>3, <1>4 DEF Next

\* A step that moves neither the thread nor what is at its output says nothing new.
LEMMA FreeUnmoved ==
  ASSUME NEW t \in Threads, FreeOf(t),
         pc'[t] = pc[t], target'[t] = target[t], rename'[t] = rename[t],
         overwrite'[t] = overwrite[t], sources'[t] = sources[t],
         t \in Jobs => status'[t] = status[t],
         pc[t] \in {"open", "exists"} => files'[target[t]] = files[target[t]]
  PROVE  FreeOf(t)'
<1>1. CASE t \in Jobs
  <2>1. Running(t)' = Running(t)
    BY <1>1 DEF Running
  <2>2. Source(t)' = Source(t)
    BY <1>1, <2>1 DEF Source
  <2>3. QED
    BY <2>2 DEF FreeOf, Requested
<1>2. CASE t \notin Jobs
  <2>1. Source(t)' = Source(t)
    BY <1>2 DEF Source
  <2>2. QED
    BY <2>1 DEF FreeOf, Requested
<1>3. QED
  BY <1>1, <1>2

\* A thread's own conversion looks at its output, or picks a free one, before it opens it.
LEMMA FreeByItself ==
  ASSUME IInv, NoJobRenames, CopiesAreTaken,
         NEW t \in Threads, HasStemsAlone(t), FreeOf(t), Convert(t)
  PROVE  FreeOf(t)'
<1> USE ConvertAssumption DEF IInv
<1>1. UNCHANGED <<status, sources, overwrite, rename>> /\ Source(t)' = Source(t)
  <2>1. UNCHANGED <<status, sources, overwrite, rename>>
    BY ConvertStep DEF jobVars
  <2>2. Running(t)' = Running(t)
    BY <2>1 DEF Running
  <2>3. QED
    BY <2>1, <2>2 DEF Source
<1>2. CASE t \in Singles /\ Pick(t)
  BY <1>2, PickedIsFree DEF FreeOf
<1>3. CASE Converted(t)
  <2>1. pc'[t] = IF t \in Singles /\ rename[t] /\ Source(t) \notin Uploads
                   THEN "pick" ELSE "exists"
    BY <1>3 DEF Converted, Goto, TypeOK
  <2>2. t \in Jobs => ~rename[t]
    BY DEF NoJobRenames
  <2>3. QED
    BY <1>1, <2>1, <2>2 DEF FreeOf, Requested, Threads
<1>4. CASE CheckExists(t)
  <2>1. pc[t] = "exists" /\ target' = target /\ files' = files
    BY <1>4 DEF CheckExists
  <2>2. CASE files[target[t]] # None /\ ~MayReplace(t)
    <3>1. pc'[t] \in {"record", "over"}
      BY <1>4, <2>2 DEF CheckExists, Settle, Goto, TypeOK
    <3>2. QED
      BY <3>1 DEF FreeOf
  <2>3. CASE files[target[t]] = None
    BY <2>1, <2>3 DEF FreeOf
  <2>4. CASE MayReplace(t)
    <3>1. Requested(t) \/ rename[t]
      BY <2>4 DEF MayReplace, Requested
    <3>2. QED
      BY <1>1, <2>1, <3>1 DEF FreeOf, Requested
  <2>5. QED
    BY <2>2, <2>3, <2>4
<1>5. CASE ConvertFails(t) \/ CheckPanics(t) \/ WriteOpen(t) \/ WriteClose(t) \/ WriteFails(t)
  <2>1. pc'[t] \in {"record", "over", "dead", "close"}
    BY <1>5 DEF ConvertFails, CheckPanics, WriteOpen, WriteClose, WriteFails, Settle, Goto, TypeOK
  <2>2. QED
    BY <2>1 DEF FreeOf
<1>6. QED
  BY <1>2, <1>3, <1>4, <1>5 DEF Convert

\* Every step keeps the output of a thread that is left alone free until it opens it.
LEMMA FreeStep ==
  ASSUME IInv, FreeInv, [Next]_vars, NEW t \in Threads, HasStemsAlone(t)
  PROVE  FreeOf(t)'
<1> USE ConvertAssumption DEF IInv
<1>0. /\ SourcesShape /\ FreeOf(t) /\ NoJobRenames /\ CopiesAreTaken
      /\ \A u \in Threads : TargetOf(u)
  BY DEF FreeInv, OutputInv
<1>1. ASSUME NEW j \in Jobs, Start(j) \/ TakeItem(j) \/ RecordItem(j) \/ FinishJob(j)
      PROVE  FreeOf(t)'
  <2>1. \E l \in {"take", "convert", "over"} : pc' = [pc EXCEPT ![j] = l]
    BY <1>1 DEF Start, TakeItem, RecordItem, FinishJob, Goto
  <2>2. CASE t = j
    <3>1. pc'[t] \in {"take", "convert", "over"}
      BY <2>1, <2>2 DEF TypeOK
    <3>2. QED
      BY <3>1 DEF FreeOf
  <2>3. CASE t # j
    <3>1. files' = files /\ target' = target /\ rename' = rename /\ pc'[t] = pc[t]
      BY <1>1, <2>1, <2>3 DEF Start, TakeItem, RecordItem, FinishJob, TypeOK
    <3>2. /\ sources'[t] = sources[t] /\ overwrite'[t] = overwrite[t]
          /\ t \in Jobs => status'[t] = status[t]
      BY <1>1, <2>3 DEF Start, TakeItem, RecordItem, FinishJob, TypeOK
    <3>3. QED
      BY <1>0, <3>1, <3>2, FreeUnmoved
  <2>4. QED
    BY <2>2, <2>3
<1>2. ASSUME NEW c \in Singles, Ask(c) PROVE FreeOf(t)'
  <2>1. pc' = [pc EXCEPT ![c] = "convert"] /\ UNCHANGED <<status, files, target>>
    BY <1>2 DEF Ask, Goto
  <2>2. CASE t = c
    <3>1. pc'[t] = "convert"
      BY <2>1, <2>2 DEF TypeOK
    <3>2. QED
      BY <3>1 DEF FreeOf
  <2>3. CASE t # c
    <3>1. /\ pc'[t] = pc[t] /\ sources'[t] = sources[t]
          /\ overwrite'[t] = overwrite[t] /\ rename'[t] = rename[t]
      BY <1>2, <2>1, <2>3 DEF Ask, TypeOK
    <3>2. QED
      BY <1>0, <2>1, <3>1, FreeUnmoved
  <2>4. QED
    BY <2>2, <2>3
<1>3. CASE (\E j \in Jobs : Cancel(j)) \/ UNCHANGED vars
  <2>1. UNCHANGED <<status, files, target, pc, sources, overwrite, rename>>
    BY <1>3 DEF Cancel, vars
  <2>2. QED
    BY <1>0, <2>1, FreeUnmoved
<1>4. ASSUME NEW u \in Threads, Convert(u) PROVE FreeOf(t)'
  <2>1. CASE u = t
    BY <1>0, <1>4, <2>1, FreeByItself
  <2>2. CASE u # t
    <3>1. UNCHANGED <<status, sources, overwrite, rename>>
      BY <1>4, ConvertStep DEF jobVars
    <3>2. pc'[t] = pc[t] /\ target'[t] = target[t]
      BY <1>4, <2>2, ConvertOthers
    <3>3. pc[t] \in {"open", "exists"} => files'[target[t]] = files[target[t]]
      BY <1>0, <1>4, <2>2, OwnTarget, OthersOutputs
    <3>4. QED
      BY <1>0, <3>1, <3>2, <3>3, FreeUnmoved
  <2>3. QED
    BY <2>1, <2>2
<1>5. QED
  BY <1>1, <1>2, <1>3, <1>4 DEF Next, Work, Convert

LEMMA FreeInvariance == Spec => []FreeInv
<1>1. Init => FreeInv
  <2> SUFFICES ASSUME Init PROVE FreeInv
    OBVIOUS
  <2>1. NoJobRenames
    BY DEF Init, NoJobRenames, Threads
  <2>2. CopiesAreTaken
    <3>1. ASSUME NEW st \in Stems, NEW n \in 1..MaxCopies
          PROVE  files[<<"copy", st, n>>] = None
      <4>1. <<"copy", st, n>> \in Paths /\ <<"copy", st, n>>[1] # "plain"
        BY DEF Paths
      <4>2. QED
        BY <4>1 DEF Init
    <3>2. QED
      BY <3>1 DEF CopiesAreTaken
  <2>3. \A t \in Threads : FreeOf(t)
    BY DEF Init, FreeOf
  <2>4. QED
    BY <2>1, <2>2, <2>3, OutputInit DEF FreeInv
<1>2. IInv /\ FreeInv /\ [Next]_vars => FreeInv'
  <2> SUFFICES ASSUME IInv, FreeInv, [Next]_vars PROVE FreeInv'
    OBVIOUS
  <2>1. OutputInv /\ NoJobRenames /\ CopiesAreTaken /\ SourcesShape
    BY DEF FreeInv, OutputInv
  <2>2. OutputInv'
    BY <2>1, OutputStep
  <2>3. NoJobRenames' /\ CopiesAreTaken'
    BY <2>1, NoJobRenamesStep, CopiesStep
  <2>4. ASSUME NEW t \in Threads, HasStemsAlone(t)' PROVE FreeOf(t)'
    <3>1. HasStemsAlone(t)
      BY <2>1, <2>4, AloneBefore
    <3>2. QED
      BY <3>1, FreeStep
  <2>5. QED
    BY <2>2, <2>3, <2>4 DEF FreeInv
<1>3. QED
  BY <1>1, <1>2, Invariance, PTL DEF Spec

\* Neither "skip" nor "rename" replaces a file, nor does a job replace its own outputs, as
\* long as nobody else converts the same folder and name: only a request to overwrite does,
\* and the upload folder.  Between the look (or the search for a free name) and the write
\* nobody else gets at the output, and a request that is alone always finds a copy free.
THEOREM ReplacedOnRequest == Spec => ReplacesOnlyOnRequest
<1>1. IInv /\ FreeInv /\ [Next]_vars =>
        [\A t \in Threads :
           Replaces(t) /\ HasStemsAlone(t) => overwrite[t] \/ Source(t) \in Uploads]_vars
  BY DEF FreeInv, FreeOf, Requested, Replaces
<1>2. QED
  BY <1>1, FreeInvariance, Invariance, PTL DEF Spec, ReplacesOnlyOnRequest
-----------------------------------------------------------------------------
(***************************************************************************)
(* The batch workbench of the page (BatchDialog) in front of these jobs:   *)
(* what holds of it for every number of documents, images, runs and        *)
(* progress requests.  The two modules have the job table in common, and   *)
(* nothing else.                                                           *)
(***************************************************************************)
LaneStates == {"none", "module", "posting", "answered", "over"}
OcrStates  == {"none", "module", "image", "over"}
PollAnswer == [job : Jobs, items : Seq(Server!Statuses), finished : BOOLEAN]

TableTypes ==
  /\ status \in [Jobs -> Seq(Server!Statuses)]
  /\ cancel \in [Jobs -> BOOLEAN] /\ finished \in [Jobs -> BOOLEAN]
  /\ jobDocs \in [Jobs -> Seq(Docs)]

PageTypes ==
  /\ run \in 0..MaxRuns
  /\ docs \in [Runs -> Seq(Docs)] /\ images \in [Runs -> 0..MaxImages]
  /\ lane \in [Runs -> LaneStates] /\ laneJob \in [Runs -> Jobs \union {None}]
  /\ ocr \in [Runs -> OcrStates] /\ image \in [Runs -> Nat]
  /\ jobId \in Jobs \union {None} /\ timer \in Jobs \union {None}
  /\ {cancelRequested, ocrCanceled, docsDone, ocrDone, batchFinished, batchActive}
       \subseteq BOOLEAN

PollTypes == polls \in [Polls -> PollAnswer \union {None}]

RowTypes ==
  /\ docRow \in [Docs -> Row]
  /\ imgRow \in [Runs -> [1..MaxImages -> Row]]
  /\ \A r \in Runs : ocr[r] = "image" => image[r] > 0

\* A job has an item for each of its documents, and nothing to do once it is finished.
Open == {"queued", "running"}
TableSound ==
  \A j \in Jobs :
    /\ Len(status[j]) = Len(jobDocs[j])
    /\ finished[j] =>
         Server!Exists(j) /\ \A i \in DOMAIN status[j] : status[j][i] \notin Open

\* An answer under way is about the documents of its job.
PollsSound ==
  \A p \in Polls : polls[p] # None =>
    /\ polls[p].items # <<>> =>
         Server!Exists(polls[p].job) /\ Len(polls[p].items) = Len(jobDocs[polls[p].job])
    /\ polls[p].finished =>
         /\ finished[polls[p].job] /\ polls[p].items # <<>>
         /\ \A i \in DOMAIN polls[p].items : polls[p].items[i] \notin Open

Calm == disturbed \subseteq {"vanished"}

LanesOver ==
  \A r \in Runs \ {run} : lane[r] \in {"none", "over"} /\ ocr[r] \in {"none", "over"}

EndingSound ==
  /\ batchActive <=> run # 0 /\ ~batchFinished
  /\ batchFinished <=> run # 0 /\ docsDone /\ ocrDone
  /\ run # 0 => (ocrDone <=> ocr[run] = "over")
  /\ run # 0 /\ docsDone => lane[run] = "over"

\* The interval asks about the job of the current run, and one request is in flight.
PollsOfRun ==
  /\ timer # None => run # 0 /\ lane[run] = "over" /\ ~docsDone /\ timer = laneJob[run]
  /\ \A p \in Polls : polls[p] # None => polls[p].job = timer
  /\ \A p, q \in Polls : polls[p] # None /\ polls[q] # None => p = q

JobOfRun ==
  \A j \in Jobs : Unfinished(j) =>
    run # 0 /\ laneJob[run] = j /\ lane[run] \in {"answered", "over"} /\ ~docsDone

CalmState == LanesOver /\ EndingSound /\ PollsOfRun /\ JobOfRun
CalmInv == Calm => CalmState

PageInv == TableTypes /\ TableSound /\ PageTypes /\ PollTypes /\ PollsSound /\ RowTypes

DocRowsSound ==
  /\ run # 0 =>
       /\ \A d \in Docs : docRow[d] # NoRow => \E i \in DOMAIN docs[run] : docs[run][i] = d
       /\ lane[run] \in {"module", "posting", "answered"} =>
            \A d \in Docs : docRow[d] \in {NoRow, QueuedRow}
       /\ lane[run] = "answered" =>
            laneJob[run] \in Jobs /\ jobDocs[laneJob[run]] = docs[run]
  /\ timer # None => jobDocs[timer] = docs[run]
  /\ docsDone => \A d \in Docs : docRow[d] # NoRow => docRow[d].shown \notin Open

ImageRowsSound ==
  run # 0 =>
    /\ ocr[run] = "module" => images[run] > 0
    /\ ocr[run] = "image" =>
         /\ image[run] \in 1..images[run]
         /\ \A k \in 1..(image[run] - 1) : imgRow[run][k].shown \notin Open
    /\ ocrDone => \A k \in 1..images[run] : imgRow[run][k].shown \notin Open

RowsInv == disturbed = {} => DocRowsSound /\ ImageRowsSound
-----------------------------------------------------------------------------
\* A selection is a list of documents.
LEMMA ListTyped ==
  ASSUME NEW s \in DocLists
  PROVE  s \in Seq(Docs)
<1>1. PICK n \in 0..MaxItems : s \in [1..n -> Docs]
  BY DEF DocLists
<1>2. n \in Nat
  OBVIOUS
<1>3. QED
  BY <1>1, <1>2, FunctionIsSeq

\* Repainting the items of a job leaves it as many.
LEMMA RepaintedJob ==
  ASSUME TableTypes, NEW j \in Jobs, NEW f \in [DOMAIN status[j] -> Server!Statuses],
         status' = [status EXCEPT ![j] = f]
  PROVE  /\ status' \in [Jobs -> Seq(Server!Statuses)]
         /\ status'[j] = f /\ Len(f) = Len(status[j]) /\ DOMAIN f = DOMAIN status[j]
         /\ \A k \in Jobs : Len(status'[k]) = Len(status[k])
         /\ \A k \in Jobs \ {j} : status'[k] = status[k]
<1> USE DEF TableTypes
<1>1. DOMAIN status[j] = 1..Len(status[j]) /\ Len(status[j]) \in Nat
  BY LenProperties
<1>2. f \in [1..Len(status[j]) -> Server!Statuses]
  BY <1>1
<1>3. f \in Seq(Server!Statuses) /\ Len(f) = Len(status[j])
  BY <1>1, <1>2, FunctionIsSeq
<1>4. DOMAIN f = DOMAIN status[j]
  OBVIOUS
<1>5. QED
  BY <1>3, <1>4

\* The three steps of the worker, as repaintings.
LEMMA WorkEffect ==
  ASSUME TableTypes, TableSound, NEW j \in Jobs, ServerWorks(j)
  PROVE  /\ \E f \in [DOMAIN status[j] -> Server!Statuses] :
              /\ status' = [status EXCEPT ![j] = f]
              /\ finished'[j] => \A i \in DOMAIN f : f[i] \notin Open
         /\ finished' \in [Jobs -> BOOLEAN]
         /\ \A k \in Jobs : finished[k] => finished'[k]
         /\ \A k \in Jobs \ {j} : finished'[k] = finished[k]
         /\ cancel' = cancel /\ jobDocs' = jobDocs
         /\ Server!Exists(j)
<1> USE DEF TableTypes, TableSound
<1>0. /\ cancel' = cancel /\ jobDocs' = jobDocs
      /\ status[j] \in Seq(Server!Statuses)
      /\ status[j] \in [DOMAIN status[j] -> Server!Statuses]
  BY LenProperties DEF ServerWorks, Server!Take, Server!Record, Server!Finish
<1>1. CASE Server!Take(j)
  <2>1. PICK i \in Server!InState(j, "queued") :
          status' = [status EXCEPT ![j][i] = "running"]
    BY <1>1 DEF Server!Take
  <2>2. i \in DOMAIN status[j] /\ status[j][i] = "queued"
    BY <2>1 DEF Server!InState
  <2>3. [status[j] EXCEPT ![i] = "running"] \in [DOMAIN status[j] -> Server!Statuses]
    BY <1>0, <2>2 DEF Server!Statuses
  <2>4. status' = [status EXCEPT ![j] = [status[j] EXCEPT ![i] = "running"]]
    BY <2>1
  <2>5. finished' = finished /\ ~finished[j]
    BY <1>1, <2>2 DEF Server!Take, Open
  <2>6. Server!Exists(j)
    BY <2>2 DEF Server!Exists
  <2>7. QED
    BY <1>0, <2>3, <2>4, <2>5, <2>6
<1>2. CASE \E o \in Server!Outcomes : Server!Record(j, o)
  <2>1. PICK o \in Server!Outcomes, i \in Server!InState(j, "running") :
          status' = [status EXCEPT ![j][i] = o]
    BY <1>2 DEF Server!Record
  <2>2. i \in DOMAIN status[j] /\ status[j][i] = "running" /\ o \in Server!Statuses
    BY <2>1 DEF Server!InState, Server!Statuses
  <2>3. [status[j] EXCEPT ![i] = o] \in [DOMAIN status[j] -> Server!Statuses]
    BY <1>0, <2>2
  <2>4. status' = [status EXCEPT ![j] = [status[j] EXCEPT ![i] = o]]
    BY <2>1
  <2>5. finished' = finished /\ ~finished[j]
    BY <1>2, <2>2 DEF Server!Record, Open
  <2>6. Server!Exists(j)
    BY <2>2 DEF Server!Exists
  <2>7. QED
    BY <1>0, <2>3, <2>4, <2>5, <2>6
<1>3. CASE Server!Finish(j)
  <2> DEFINE f == [i \in DOMAIN status[j] |->
                     IF status[j][i] = "queued" THEN "canceled" ELSE status[j][i]]
  <2>1. status' = [status EXCEPT ![j] = f] /\ finished' = [finished EXCEPT ![j] = TRUE]
    BY <1>3 DEF Server!Finish
  <2>2. f \in [DOMAIN status[j] -> Server!Statuses]
    BY <1>0 DEF Server!Statuses
  <2>3. \A i \in DOMAIN status[j] : status[j][i] # "running"
    BY <1>3 DEF Server!Finish, Server!InState
  <2>4. \A i \in DOMAIN f : f[i] \notin Open
    BY <2>3 DEF Open
  <2>5. Server!Exists(j)
    BY <1>3 DEF Server!Finish
  <2> HIDE DEF f
  <2>6. QED
    BY <1>0, <2>1, <2>2, <2>4, <2>5
<1>4. QED
  BY <1>1, <1>2, <1>3 DEF ServerWorks

\* A new job has one item, not begun, for each document that is still there.
LEMMA PostEffect ==
  ASSUME TableTypes, TableSound, NEW r \in Runs, NEW j \in Jobs, PostArrives(r, j)
  PROVE  /\ \E s \in Seq(Docs) :
              /\ jobDocs' = [jobDocs EXCEPT ![j] = s]
              /\ disturbed' = {} => s = docs[r]
              /\ Len(status'[j]) = Len(s)
         /\ status' \in [Jobs -> Seq(Server!Statuses)]
         /\ \A k \in Jobs \ {j} : status'[k] = status[k]
         /\ finished' = finished /\ cancel' = cancel
         /\ ~Server!Exists(j) /\ ~finished[j]
<1> USE DEF TableTypes
<1>1. PICK s \in Sublists(docs[r]) :
        /\ Server!Start(j, Len(s))
        /\ disturbed' = disturbed \union (IF s = docs[r] THEN {} ELSE {"vanished"})
        /\ jobDocs' = [jobDocs EXCEPT ![j] = s]
  BY DEF PostArrives
<1>2. s \in Seq(Docs) /\ Len(s) \in Nat
  BY ListTyped, LenProperties DEF Sublists
<1> DEFINE q == [i \in 1..Len(s) |-> "queued"]
<1>3. q \in [1..Len(s) -> Server!Statuses]
  BY DEF Server!Statuses
<1>4. status' = [status EXCEPT ![j] = q] /\ finished' = finished /\ cancel' = cancel
  BY <1>1 DEF Server!Start
<1> HIDE DEF q
<1>5. q \in Seq(Server!Statuses) /\ Len(q) = Len(s)
  BY <1>2, <1>3, FunctionIsSeq
<1>6. ~Server!Exists(j) /\ ~finished[j]
  BY <1>1 DEF Server!Start, TableSound
<1>7. disturbed' = {} => s = docs[r]
  BY <1>1
<1>8. QED
  BY <1>1, <1>2, <1>4, <1>5, <1>6, <1>7

\* The other steps leave the table alone.
LEMMA TableCases ==
  ASSUME [DialogNext]_dialogVars
  PROVE  \/ UNCHANGED <<status, cancel, finished, jobDocs>>
         \/ \E r \in Runs, j \in Jobs : PostArrives(r, j)
         \/ \E j \in Jobs : CancelArrives(j) \/ ServerWorks(j)
<1>1. ASSUME NEW ds \in DocLists, NEW n \in 0..MaxImages, Enqueue(ds, n)
      PROVE  UNCHANGED <<status, cancel, finished, jobDocs>>
  BY <1>1 DEF Enqueue, Reset, server
<1>2. CASE Close \/ CancelClicked
  BY <1>2 DEF Close, CancelClicked, server
<1>3. ASSUME NEW r \in Runs,
             ModuleReady(r) \/ DocsLaneFails(r) \/ PostAnswered(r)
      PROVE  UNCHANGED <<status, cancel, finished, jobDocs>>
  BY <1>3 DEF ModuleReady, DocsLaneFails, PostAnswered, server
<1>4. ASSUME NEW r \in Runs, \/ OcrModuleReady(r) \/ OcrModuleFails(r)
                                  \/ \E o \in {"ok", "skipped", "error"} : OcrAnswered(r, o)
      PROVE  UNCHANGED <<status, cancel, finished, jobDocs>>
  BY <1>4 DEF OcrModuleReady, OcrModuleFails, OcrAnswered, server
<1>5. ASSUME NEW p \in Polls,
             Tick(p) \/ PollAnswers(p) \/ PollDelivered(p) \/ PollFails(p)
      PROVE  UNCHANGED <<status, cancel, finished, jobDocs>>
  BY <1>5 DEF Tick, PollAnswers, PollDelivered, PollFails, server
<1>6. CASE UNCHANGED dialogVars
  BY <1>6 DEF dialogVars, server
<1>7. QED
  BY <1>1, <1>2, <1>3, <1>4, <1>5, <1>6 DEF DialogNext, WithoutUser

\* A job stays what it is once it is there, and finished once it is.
LEMMA TableGrows ==
  ASSUME TableTypes, TableSound, [DialogNext]_dialogVars, NEW k \in Jobs
  PROVE  /\ finished[k] => finished'[k]
         /\ Server!Exists(k) => Server!Exists(k)' /\ jobDocs'[k] = jobDocs[k]
<1>1. CASE UNCHANGED <<status, cancel, finished, jobDocs>>
  BY <1>1 DEF Server!Exists
<1>2. ASSUME NEW r \in Runs, NEW j \in Jobs, PostArrives(r, j)
      PROVE  /\ finished[k] => finished'[k]
             /\ Server!Exists(k) => Server!Exists(k)' /\ jobDocs'[k] = jobDocs[k]
  <2>1. /\ ~Server!Exists(j) /\ finished' = finished
        /\ \A i \in Jobs \ {j} : status'[i] = status[i]
        /\ \E s : jobDocs' = [jobDocs EXCEPT ![j] = s]
    BY <1>2, PostEffect
  <2>2. QED
    BY <2>1 DEF Server!Exists, TableTypes
<1>3. ASSUME NEW j \in Jobs, CancelArrives(j)
      PROVE  /\ finished[k] => finished'[k]
             /\ Server!Exists(k) => Server!Exists(k)' /\ jobDocs'[k] = jobDocs[k]
  BY <1>3 DEF CancelArrives, Server!Cancel, Server!Exists
<1>4. ASSUME NEW j \in Jobs, ServerWorks(j)
      PROVE  /\ finished[k] => finished'[k]
             /\ Server!Exists(k) => Server!Exists(k)' /\ jobDocs'[k] = jobDocs[k]
  <2>1. PICK f \in [DOMAIN status[j] -> Server!Statuses] :
          status' = [status EXCEPT ![j] = f]
    BY <1>4, WorkEffect
  <2>2. \A i \in Jobs : Len(status'[i]) = Len(status[i])
    BY <2>1, RepaintedJob
  <2>3. status' \in [Jobs -> Seq(Server!Statuses)]
    BY <2>1, RepaintedJob
  <2>4. Server!Exists(k) => Server!Exists(k)'
    BY <2>2, <2>3, EmptySeq DEF TableTypes, Server!Exists
  <2>5. QED
    BY <1>4, <2>4, WorkEffect
<1>5. QED
  BY <1>1, <1>2, <1>3, <1>4, TableCases

\* Every step keeps the table sound.
LEMMA TableStep ==
  ASSUME TableTypes, TableSound, [DialogNext]_dialogVars
  PROVE  TableTypes' /\ TableSound'
<1>1. CASE UNCHANGED <<status, cancel, finished, jobDocs>>
  BY <1>1 DEF TableTypes, TableSound, Server!Exists
<1>2. ASSUME NEW r \in Runs, NEW j \in Jobs, PostArrives(r, j)
      PROVE  TableTypes' /\ TableSound'
  <2>1. PICK s \in Seq(Docs) :
          jobDocs' = [jobDocs EXCEPT ![j] = s] /\ Len(status'[j]) = Len(s)
    BY <1>2, PostEffect
  <2>2. /\ status' \in [Jobs -> Seq(Server!Statuses)]
        /\ \A k \in Jobs \ {j} : status'[k] = status[k]
        /\ finished' = finished /\ cancel' = cancel /\ ~finished[j]
    BY <1>2, PostEffect
  <2>3. TableTypes'
    BY <2>1, <2>2 DEF TableTypes
  <2>4. ASSUME NEW k \in Jobs
        PROVE  /\ Len(status'[k]) = Len(jobDocs'[k])
               /\ finished'[k] => /\ Server!Exists(k)'
                                  /\ \A i \in DOMAIN status'[k] : status'[k][i] \notin Open
    <3>1. CASE k = j
      BY <2>1, <2>2, <3>1 DEF TableTypes
    <3>2. CASE k # j
      BY <2>1, <2>2, <3>2 DEF TableTypes, TableSound, Server!Exists
    <3>3. QED
      BY <3>1, <3>2
  <2>5. QED
    BY <2>3, <2>4 DEF TableSound
<1>3. ASSUME NEW j \in Jobs, CancelArrives(j) PROVE TableTypes' /\ TableSound'
  <2>1. UNCHANGED <<status, finished, jobDocs>> /\ cancel' = [cancel EXCEPT ![j] = TRUE]
    BY <1>3 DEF CancelArrives, Server!Cancel
  <2>2. QED
    BY <2>1 DEF TableTypes, TableSound, Server!Exists
<1>4. ASSUME NEW j \in Jobs, ServerWorks(j) PROVE TableTypes' /\ TableSound'
  <2>1. PICK f \in [DOMAIN status[j] -> Server!Statuses] :
          /\ status' = [status EXCEPT ![j] = f]
          /\ finished'[j] => \A i \in DOMAIN f : f[i] \notin Open
    BY <1>4, WorkEffect
  <2>2. /\ finished' \in [Jobs -> BOOLEAN] /\ cancel' = cancel /\ jobDocs' = jobDocs
        /\ \A k \in Jobs \ {j} : finished'[k] = finished[k]
        /\ Server!Exists(j)
    BY <1>4, WorkEffect
  <2>3. /\ status' \in [Jobs -> Seq(Server!Statuses)]
        /\ status'[j] = f /\ Len(f) = Len(status[j]) /\ DOMAIN f = DOMAIN status[j]
        /\ \A k \in Jobs : Len(status'[k]) = Len(status[k])
        /\ \A k \in Jobs \ {j} : status'[k] = status[k]
    BY <2>1, RepaintedJob
  <2>4. TableTypes'
    BY <2>2, <2>3 DEF TableTypes
  <2>5. ASSUME NEW k \in Jobs
        PROVE  /\ Len(status'[k]) = Len(jobDocs'[k])
               /\ finished'[k] => /\ Server!Exists(k)'
                                  /\ \A i \in DOMAIN status'[k] : status'[k][i] \notin Open
    <3>1. Len(status'[k]) = Len(jobDocs'[k])
      BY <2>2, <2>3 DEF TableSound
    <3>2. CASE k = j
      <4>1. Server!Exists(j)'
        <5>1. Len(status[j]) # 0
          BY <2>2, EmptySeq DEF TableTypes, Server!Exists
        <5>2. QED
          BY <2>3, <5>1, EmptySeq DEF Server!Exists
      <4>2. QED
        BY <2>1, <2>3, <3>1, <3>2, <4>1
    <3>3. CASE k # j
      BY <2>2, <2>3, <3>1, <3>3 DEF TableSound, Server!Exists
    <3>4. QED
      BY <3>2, <3>3
  <2>6. QED
    BY <2>4, <2>5 DEF TableSound
<1>5. QED
  BY <1>1, <1>2, <1>3, <1>4, TableCases
-----------------------------------------------------------------------------
\* A new run of the workbench has its own number, documents and images.
LEMMA ResetTyped ==
  ASSUME PageTypes, RowTypes,
         NEW ds \in DocLists, NEW n \in 0..MaxImages, Enqueue(ds, n)
  PROVE  /\ PageTypes' /\ RowTypes'
         /\ run' \in Runs /\ run' = run + 1 /\ polls' = polls
<1> USE DialogAssumption DEF PageTypes, RowTypes
<1>1. run' = run + 1 /\ run + 1 \in Runs /\ polls' = polls
  BY DEF Enqueue, Reset, Runs
<1>2. docs' \in [Runs -> Seq(Docs)]
  BY <1>1, ListTyped DEF Enqueue, Reset
<1>3. images' \in [Runs -> 0..MaxImages]
  BY <1>1 DEF Enqueue, Reset
<1>4. lane' \in [Runs -> LaneStates] /\ ocr' \in [Runs -> OcrStates]
  BY <1>1 DEF Enqueue, Reset, LaneStates, OcrStates
<1>5. laneJob' = laneJob /\ image' = image /\ jobId' = None /\ timer' = None
  BY DEF Enqueue, Reset
<1>6. {cancelRequested', ocrCanceled', docsDone', ocrDone', batchFinished', batchActive'}
        \subseteq BOOLEAN
  BY DEF Enqueue, Reset
<1>7. docRow' \in [Docs -> Row]
  BY DEF Enqueue, Reset, Row, RowStates, NoRow, QueuedRow
<1>8. imgRow' \in [Runs -> [1..MaxImages -> Row]]
  <2>1. [i \in 1..MaxImages |-> IF i <= n THEN QueuedRow ELSE NoRow]
          \in [1..MaxImages -> Row]
    BY DEF Row, RowStates, NoRow, QueuedRow
  <2>2. QED
    BY <1>1, <2>1 DEF Enqueue, Reset
<1>9. PageTypes'
  <2>1. run' \in 0..MaxRuns
    BY <1>1, DialogAssumption DEF Runs
  <2>2. QED
    BY <1>2, <1>3, <1>4, <1>5, <1>6, <2>1 DEF PageTypes
<1>10. \A q \in Runs : ocr'[q] = "image" => image'[q] > 0
  <2>1. \A q \in Runs : ocr'[q] = "image" => ocr[q] = "image"
    BY <1>1 DEF Enqueue, Reset
  <2>2. QED
    BY <1>5, <2>1
<1>11. QED
  BY <1>1, <1>7, <1>8, <1>9, <1>10 DEF RowTypes

\* maybeFinishBatch only turns flags on and off.
LEMMA MaybeFinishTyped ==
  ASSUME PageTypes, NEW docsOver \in BOOLEAN, NEW ocrOver \in BOOLEAN,
         MaybeFinish(docsOver, ocrOver)
  PROVE  /\ {docsDone', ocrDone', batchFinished', batchActive'} \subseteq BOOLEAN
         /\ docsDone' = docsOver /\ ocrDone' = ocrOver
BY DEF MaybeFinish, PageTypes

LEMMA PageTypesStep ==
  ASSUME PageTypes, RowTypes, [DialogNext]_dialogVars PROVE PageTypes'
<1>0. {docsDone, ocrDone, TRUE} \subseteq BOOLEAN
  BY DEF PageTypes
<1>1. ASSUME NEW ds \in DocLists, NEW n \in 0..MaxImages, Enqueue(ds, n)
      PROVE  PageTypes'
  BY <1>1, ResetTyped
<1>2. CASE Close \/ CancelClicked
  BY <1>2 DEF Close, CancelClicked, PageTypes, request, docLane,
              ocrLane, cancels, ending
<1>3. ASSUME NEW r \in Runs, ModuleReady(r) PROVE PageTypes'
  BY <1>3 DEF ModuleReady, PageTypes, LaneStates, request, ocrLane, cancels,
              ending
<1>4. ASSUME NEW r \in Runs, DocsLaneFails(r) PROVE PageTypes'
  <2>1. {docsDone', ocrDone', batchFinished', batchActive'} \subseteq BOOLEAN
    BY <1>0, <1>4, MaybeFinishTyped DEF DocsLaneFails, FailDocsLane
  <2>2. timer' = None /\ lane' = [lane EXCEPT ![r] = "over"]
    BY <1>4 DEF DocsLaneFails, FailDocsLane
  <2>3. UNCHANGED <<run, docs, images, laneJob, ocr, image, jobId, cancelRequested, ocrCanceled>>
    BY <1>4 DEF DocsLaneFails, request, ocrLane, cancels
  <2>4. QED
    BY <2>1, <2>2, <2>3 DEF PageTypes, LaneStates
<1>5. ASSUME NEW r \in Runs, NEW j \in Jobs, PostArrives(r, j) PROVE PageTypes'
  BY <1>5 DEF PostArrives, PageTypes, LaneStates, request, ocrLane, cancels,
              ending
<1>6. ASSUME NEW r \in Runs, PostAnswered(r) PROVE PageTypes'
  BY <1>6 DEF PostAnswered, PageTypes, LaneStates, request, ocrLane,
              cancels, ending
<1>7. ASSUME NEW p \in Polls, Tick(p) \/ PollAnswers(p) PROVE PageTypes'
  BY <1>7 DEF Tick, PollAnswers, PageTypes, page, request, docLane,
              ocrLane, cancels, ending
<1>8. ASSUME NEW p \in Polls, PollDelivered(p) \/ PollFails(p) PROVE PageTypes'
  <2>1. /\ {docsDone', ocrDone', batchFinished', batchActive'} \subseteq BOOLEAN
        /\ timer' \in {timer, None}
    <3>1. CASE MaybeFinish(TRUE, ocrDone) /\ timer' = None
      BY <1>0, <3>1, MaybeFinishTyped
    <3>2. CASE UNCHANGED <<timer, ending>>
      BY <3>2 DEF PageTypes, ending
    <3>3. QED
      BY <1>8, <3>1, <3>2 DEF PollDelivered, PollFails, FailDocsLane
  <2>2. UNCHANGED <<run, docs, images, lane, laneJob, ocr, image, jobId, cancelRequested,
                    ocrCanceled>>
    BY <1>8 DEF PollDelivered, PollFails, request, docLane, ocrLane,
                cancels
  <2>3. QED
    BY <2>1, <2>2 DEF PageTypes
<1>9. ASSUME NEW r \in Runs, OcrModuleFails(r) PROVE PageTypes'
  <2>1. {docsDone', ocrDone', batchFinished', batchActive'} \subseteq BOOLEAN
    BY <1>0, <1>9, MaybeFinishTyped DEF OcrModuleFails
  <2>2. QED
    BY <1>9, <2>1
       DEF OcrModuleFails, PageTypes, OcrStates, request, docLane, cancels
<1>10. ASSUME NEW r \in Runs, OcrModuleReady(r) PROVE PageTypes'
  BY <1>10 DEF OcrModuleReady, PageTypes, OcrStates, request, docLane,
               cancels, ending
<1>11. ASSUME NEW r \in Runs, NEW o, OcrAnswered(r, o) PROVE PageTypes'
  <2>1. /\ {docsDone', ocrDone', batchFinished', batchActive'} \subseteq BOOLEAN
        /\ image' = image \/ image' = [image EXCEPT ![r] = image[r] + 1]
        /\ ocr' = ocr \/ ocr' = [ocr EXCEPT ![r] = "over"]
    <3>1. CASE image[r] < images[r] /\ ~ocrCanceled
      BY <1>11, <3>1 DEF OcrAnswered, PageTypes, ending
    <3>2. CASE ~(image[r] < images[r] /\ ~ocrCanceled)
      BY <1>0, <1>11, <3>2, MaybeFinishTyped DEF OcrAnswered
    <3>3. QED
      BY <3>1, <3>2
  <2>2. image' \in [Runs -> Nat]
    <3>1. image[r] + 1 \in Nat
      BY DEF PageTypes
    <3>2. QED
      BY <2>1, <3>1 DEF PageTypes
  <2>3. ocr' \in [Runs -> OcrStates]
    BY <2>1 DEF PageTypes, OcrStates
  <2>4. UNCHANGED <<run, docs, images, lane, laneJob, jobId, timer, cancelRequested,
                    ocrCanceled>>
    BY <1>11 DEF OcrAnswered, request, docLane, cancels
  <2>5. QED
    BY <2>1, <2>2, <2>3, <2>4 DEF PageTypes
<1>12. ASSUME NEW j \in Jobs, CancelArrives(j) \/ ServerWorks(j) PROVE PageTypes'
  BY <1>12 DEF CancelArrives, ServerWorks, PageTypes, page, request,
               docLane, ocrLane, cancels,
               ending
<1>13. CASE UNCHANGED dialogVars
  BY <1>13 DEF dialogVars, PageTypes, page, request, docLane, ocrLane,
               cancels, ending
<1>14. QED
  BY <1>1, <1>2, <1>3, <1>4, <1>5, <1>6, <1>7, <1>8, <1>9, <1>10, <1>11, <1>12, <1>13
     DEF DialogNext, WithoutUser

\* A painted row is a row.
LEMMA PaintTyped ==
  ASSUME NEW row, NEW s \in RowStates
  PROVE  /\ Paint(row, s) \in Row /\ Paint(row, s) # NoRow
         /\ Paint(row, s).shown = s /\ Paint(row, s).done
BY DEF Paint, Row, NoRow

\* Requests are sent, answered and delivered by the actions named so.
LEMMA PollCases ==
  ASSUME [DialogNext]_dialogVars
  PROVE  \/ polls' = polls
         \/ \E p \in Polls : \/ Tick(p) \/ PollAnswers(p)
                             \/ PollDelivered(p) \/ PollFails(p)
<1>1. ASSUME NEW ds \in DocLists, NEW n \in 0..MaxImages, Enqueue(ds, n)
      PROVE  polls' = polls
  BY <1>1 DEF Enqueue, Reset
<1>2. CASE Close \/ CancelClicked
  BY <1>2 DEF Close, CancelClicked
<1>3. ASSUME NEW r \in Runs,
             \/ ModuleReady(r) \/ DocsLaneFails(r) \/ PostAnswered(r)
             \/ \E j \in Jobs : PostArrives(r, j)
      PROVE  polls' = polls
  BY <1>3 DEF ModuleReady, DocsLaneFails, PostAnswered, PostArrives
<1>4. ASSUME NEW r \in Runs, \/ OcrModuleReady(r) \/ OcrModuleFails(r)
                                  \/ \E o \in {"ok", "skipped", "error"} : OcrAnswered(r, o)
      PROVE  polls' = polls
  BY <1>4 DEF OcrModuleReady, OcrModuleFails, OcrAnswered
<1>5. ASSUME NEW j \in Jobs, CancelArrives(j) \/ ServerWorks(j) PROVE polls' = polls
  BY <1>5 DEF CancelArrives, ServerWorks
<1>6. CASE UNCHANGED dialogVars
  BY <1>6 DEF dialogVars
<1>7. QED
  BY <1>1, <1>2, <1>3, <1>4, <1>5, <1>6 DEF DialogNext, WithoutUser

\* They are about jobs, and their answers are what the table said.
LEMMA PollTypesStep ==
  ASSUME TableTypes, TableSound, PageTypes, PollTypes, PollsSound, [DialogNext]_dialogVars
  PROVE  PollTypes' /\ PollsSound'
<1>1. ASSUME NEW a \in PollAnswer \union {None}, a # None,
             /\ a.items # <<>> => Server!Exists(a.job) /\ Len(a.items) = Len(jobDocs[a.job])
             /\ a.finished =>
                  /\ finished[a.job] /\ a.items # <<>>
                  /\ \A i \in DOMAIN a.items : a.items[i] \notin Open
      PROVE  /\ a.items # <<>> =>
                  Server!Exists(a.job)' /\ Len(a.items) = Len(jobDocs'[a.job])
             /\ a.finished =>
                  /\ finished'[a.job] /\ a.items # <<>>
                  /\ \A i \in DOMAIN a.items : a.items[i] \notin Open
  BY <1>1, TableGrows DEF PollAnswer
<1>2. CASE polls' = polls
  BY <1>1, <1>2 DEF PollTypes, PollsSound
<1>3. ASSUME NEW p \in Polls, Tick(p) PROVE PollTypes' /\ PollsSound'
  <2> DEFINE a == [job |-> timer, items |-> <<>>, finished |-> FALSE]
  <2>1. polls' = [polls EXCEPT ![p] = a]
    BY <1>3 DEF Tick
  <2>2. a \in PollAnswer
    BY <1>3, EmptySeq DEF Tick, PageTypes, PollAnswer
  <2>3. a.items = <<>> /\ ~a.finished
    OBVIOUS
  <2> HIDE DEF a
  <2>4. PollTypes'
    BY <2>1, <2>2 DEF PollTypes
  <2>5. \A q \in Polls : polls'[q] = a \/ polls'[q] = polls[q]
    BY <2>1 DEF PollTypes
  <2>6. PollsSound'
    BY <1>1, <2>3, <2>5 DEF PollsSound, PollTypes
  <2>7. QED
    BY <2>4, <2>6
<1>4. ASSUME NEW p \in Polls, PollAnswers(p) PROVE PollTypes' /\ PollsSound'
  <2> DEFINE j == polls[p].job
             a == [polls[p] EXCEPT !.items = status[j], !.finished = finished[j]]
  <2>1. polls[p] \in PollAnswer /\ j \in Jobs
    BY <1>4 DEF PollAnswers, PollTypes, PollAnswer
  <2>2. polls' = [polls EXCEPT ![p] = a]
    BY <1>4 DEF PollAnswers, PollTypes
  <2>3. a \in PollAnswer /\ a.job = j /\ a.items = status[j] /\ a.finished = finished[j]
    <3>1. status[j] \in Seq(Server!Statuses) /\ finished[j] \in BOOLEAN
      BY <2>1 DEF TableTypes
    <3>2. QED
      BY <2>1, <3>1 DEF PollAnswer
  <2> HIDE DEF a, j
  <2>4. PollTypes'
    BY <2>2, <2>3 DEF PollTypes
  <2>5. /\ a.items # <<>> => Server!Exists(a.job) /\ Len(a.items) = Len(jobDocs[a.job])
        /\ a.finished =>
             /\ finished[a.job] /\ a.items # <<>>
             /\ \A i \in DOMAIN a.items : a.items[i] \notin Open
    BY <2>1, <2>3 DEF TableSound, Server!Exists
  <2>6. \A q \in Polls : polls'[q] = a \/ polls'[q] = polls[q]
    BY <2>2 DEF PollTypes
  <2>7. PollsSound'
    BY <1>1, <2>3, <2>5, <2>6 DEF PollsSound, PollTypes
  <2>8. QED
    BY <2>4, <2>7
<1>5. ASSUME NEW p \in Polls, PollDelivered(p) \/ PollFails(p)
      PROVE  PollTypes' /\ PollsSound'
  <2>1. polls' = [polls EXCEPT ![p] = None]
    BY <1>5 DEF PollDelivered, PollFails
  <2>2. \A q \in Polls : polls'[q] = None \/ polls'[q] = polls[q]
    BY <2>1 DEF PollTypes
  <2>3. PollsSound'
    BY <1>1, <2>2 DEF PollsSound, PollTypes
  <2>4. QED
    BY <2>1, <2>3 DEF PollTypes
<1>6. QED
  BY <1>2, <1>3, <1>4, <1>5, PollCases
-----------------------------------------------------------------------------
\* An answer paints rows with what it says of their documents,
LEMMA DeliveredRows ==
  ASSUME TableTypes, PollTypes, RowTypes, NEW p \in Polls, PollDelivered(p)
  PROVE  /\ polls[p] \in PollAnswer
         /\ docRow' \in [Docs -> Row]
         /\ \A d \in Docs :
              \/ /\ docRow'[d] = docRow[d]
                 /\ docRow[d] # NoRow =>
                      \A i \in DOMAIN polls[p].items :
                        jobDocs[polls[p].job][i] = d => polls[p].items[i] = "queued"
              \/ /\ docRow[d] # NoRow
                 /\ \E i \in DOMAIN polls[p].items :
                      docRow'[d] = Paint(docRow[d], polls[p].items[i])
<1> DEFINE items   == polls[p].items
           src     == jobDocs[polls[p].job]
           painted == {i \in DOMAIN items : items[i] # "queued" /\ docRow[src[i]] # NoRow}
<1>1. polls[p] \in PollAnswer
  BY DEF PollDelivered, PollTypes
<1>2. items \in Seq(Server!Statuses) /\ \A i \in DOMAIN items : items[i] \in RowStates
  <2>1. items \in Seq(Server!Statuses)
    BY <1>1 DEF PollAnswer
  <2>2. \A i \in DOMAIN items : items[i] \in Server!Statuses
    BY <2>1, LenProperties, ElementOfSeq
  <2>3. Server!Statuses \subseteq RowStates
    BY DEF Server!Statuses, Server!Outcomes, RowStates, Kinds
  <2>4. QED
    BY <2>1, <2>2, <2>3
<1>3. docRow' = [d \in Docs |->
        IF \E i \in painted : src[i] = d
          THEN Paint(docRow[d], items[CHOOSE i \in painted : src[i] = d])
          ELSE docRow[d]]
  BY DEF PollDelivered
<1> HIDE DEF items, src
<1>4. ASSUME NEW d \in Docs, \E i \in painted : src[i] = d
      PROVE  /\ docRow[d] # NoRow
             /\ \E i \in DOMAIN items : docRow'[d] = Paint(docRow[d], items[i])
  <2>1. PICK k \in painted : k = CHOOSE i \in painted : src[i] = d
    BY <1>4
  <2>2. src[k] = d
    BY <1>4, <2>1
  <2>3. docRow'[d] = Paint(docRow[d], items[k])
    BY <1>3, <1>4, <2>1
  <2>4. QED
    BY <2>2, <2>3
<1>5. ASSUME NEW d \in Docs, ~\E i \in painted : src[i] = d
      PROVE  /\ docRow'[d] = docRow[d]
             /\ docRow[d] # NoRow =>
                  \A i \in DOMAIN items : src[i] = d => items[i] = "queued"
  BY <1>3, <1>5
<1>6. \A d \in Docs : docRow'[d] \in Row
  BY <1>2, <1>4, <1>5, PaintTyped DEF RowTypes
<1>7. docRow' \in [Docs -> Row]
  BY <1>3, <1>6
<1>8. QED
  BY <1>1, <1>4, <1>5, <1>7 DEF items, src

\* and a lane that fails paints those that are open.
LEMMA FailedRows ==
  ASSUME RowTypes, FailDocsLane
  PROVE  /\ docRow' \in [Docs -> Row]
         /\ \A d \in Docs :
              \/ docRow'[d] = docRow[d] /\ (docRow[d] = NoRow \/ docRow[d].done)
              \/ docRow[d] # NoRow /\ docRow'[d] = Paint(docRow[d], "error")
         /\ imgRow' = imgRow
<1>1. "error" \in RowStates
  BY DEF RowStates, Kinds
<1>2. QED
  BY <1>1, PaintTyped DEF FailDocsLane, RowTypes

\* The rows of a lane of images.
LEMMA PaintedImages ==
  ASSUME RowTypes, NEW r \in Runs, NEW painted,
         NEW s \in [1..MaxImages -> Kinds], OcrPaint(r, painted, s)
  PROVE  /\ imgRow' \in [Runs -> [1..MaxImages -> Row]]
         /\ \A q \in Runs \ {r} : imgRow'[q] = imgRow[q]
         /\ \A i \in 1..MaxImages :
              imgRow'[r][i] = IF i \in painted THEN [shown |-> s[i], done |-> TRUE]
                                               ELSE imgRow[r][i]
<1> DEFINE new == [i \in 1..MaxImages |->
                     IF i \in painted THEN [shown |-> s[i], done |-> TRUE] ELSE imgRow[r][i]]
<1>1. imgRow' = [imgRow EXCEPT ![r] = new]
  BY DEF OcrPaint
<1>2. new \in [1..MaxImages -> Row]
  <2>1. ASSUME NEW i \in 1..MaxImages PROVE [shown |-> s[i], done |-> TRUE] \in Row
    BY DEF Row, RowStates
  <2>2. QED
    BY <2>1 DEF RowTypes
<1>3. \A i \in 1..MaxImages :
        new[i] = IF i \in painted THEN [shown |-> s[i], done |-> TRUE] ELSE imgRow[r][i]
  OBVIOUS
<1> HIDE DEF new
<1>4. QED
  BY <1>1, <1>2, <1>3 DEF RowTypes

\* What the OCR lane does to its rows: the first image begins,
LEMMA FirstImage ==
  ASSUME RowTypes, NEW r \in Runs, OcrModuleReady(r)
  PROVE  /\ imgRow' \in [Runs -> [1..MaxImages -> Row]]
         /\ \A q \in Runs \ {r} : imgRow'[q] = imgRow[q]
<1>1. \A row \in Row : [row EXCEPT !.shown = "running"] \in Row
  BY DEF Row, RowStates
<1>2. imgRow[r] \in [1..MaxImages -> Row]
  BY DEF RowTypes
<1>3. [imgRow[r] EXCEPT ![1] = [imgRow[r][1] EXCEPT !.shown = "running"]]
        \in [1..MaxImages -> Row]
  <2>1. 1 \in 1..MaxImages => [imgRow[r][1] EXCEPT !.shown = "running"] \in Row
    BY <1>1, <1>2
  <2>2. QED
    BY <1>2, <2>1
<1>4. imgRow' = [imgRow EXCEPT ![r] =
                   [imgRow[r] EXCEPT ![1] = [imgRow[r][1] EXCEPT !.shown = "running"]]]
  BY DEF OcrModuleReady, RowTypes
<1>5. QED
  BY <1>3, <1>4 DEF RowTypes

\* and an answer closes its row and goes on to the next.
LEMMA NextImage ==
  ASSUME PageTypes, RowTypes, NEW r \in Runs,
         NEW o \in {"ok", "skipped", "error"},
         OcrAnswered(r, o), image[r] < images[r], ~ocrCanceled, image[r] > 0
  PROVE  /\ imgRow' \in [Runs -> [1..MaxImages -> Row]]
         /\ \A q \in Runs \ {r} : imgRow'[q] = imgRow[q]
         /\ \A k \in 1..MaxImages : k < image[r] => imgRow'[r][k] = imgRow[r][k]
         /\ imgRow'[r][image[r]].shown = o
<1> DEFINE i == image[r]
           old == imgRow[r]
<1>0. /\ i \in 1..MaxImages /\ i + 1 \in 1..MaxImages /\ i + 1 # i
      /\ old \in [1..MaxImages -> Row]
  <2>1. i \in Nat /\ images[r] \in 0..MaxImages
    BY DEF PageTypes
  <2>2. MaxImages \in Nat
    BY DialogAssumption
  <2>3. i \in 1..MaxImages /\ i + 1 \in 1..MaxImages /\ i + 1 # i
    BY <2>1, <2>2
  <2>4. QED
    BY <2>3 DEF RowTypes
<1>1. imgRow' = [imgRow EXCEPT ![r][i] = Paint(@, o), ![r][i + 1].shown = "running"]
  BY DEF OcrAnswered
<1> HIDE DEF i
<1>2. imgRow' = [imgRow EXCEPT ![r] = [[old EXCEPT ![i] = Paint(old[i], o)]
                    EXCEPT ![i + 1] = [old[i + 1] EXCEPT !.shown = "running"]]]
  BY <1>0, <1>1 DEF RowTypes
<1>3. Paint(old[i], o) \in Row /\ Paint(old[i], o).shown = o
  BY PaintTyped DEF RowStates, Kinds
<1>4. [old[i + 1] EXCEPT !.shown = "running"] \in Row
  <2>1. \A row \in Row : [row EXCEPT !.shown = "running"] \in Row
    BY DEF Row, RowStates
  <2>2. QED
    BY <1>0, <2>1
<1> DEFINE a == Paint(old[i], o)
           b == [old[i + 1] EXCEPT !.shown = "running"]
           new == [[old EXCEPT ![i] = a] EXCEPT ![i + 1] = b]
<1>5. imgRow' = [imgRow EXCEPT ![r] = new] /\ a \in Row /\ b \in Row /\ a.shown = o
  BY <1>2, <1>3, <1>4
<1> HIDE DEF a, b, old
<1>6. /\ new \in [1..MaxImages -> Row] /\ new[i] = a
      /\ \A k \in 1..MaxImages : k < i => new[k] = old[k]
  BY <1>0, <1>5
<1> HIDE DEF new
<1>7. imgRow'[r] = new
  BY <1>5 DEF RowTypes
<1>8. QED
  BY <1>5, <1>6, <1>7 DEF RowTypes, old, i

LEMMA RowTypesStep ==
  ASSUME TableTypes, PageTypes, PollTypes, RowTypes,
         [DialogNext]_dialogVars
  PROVE  RowTypes'
<1>1. ASSUME docRow' \in [Docs -> Row], UNCHANGED <<imgRow, ocr, image>> PROVE RowTypes'
  BY <1>1 DEF RowTypes
<1>2. ASSUME docRow' = docRow, imgRow' \in [Runs -> [1..MaxImages -> Row]],
             NEW r \in Runs,
             \A q \in Runs \ {r} : ocr'[q] = ocr[q] /\ image'[q] = image[q],
             ocr'[r] = "image" => image'[r] > 0
      PROVE  RowTypes'
  BY <1>2 DEF RowTypes
<1>3. ASSUME NEW ds \in DocLists, NEW n \in 0..MaxImages, Enqueue(ds, n)
      PROVE  RowTypes'
  BY <1>3, ResetTyped
<1>4. CASE Close \/ CancelClicked
  BY <1>4 DEF Close, CancelClicked, RowTypes, rows, ocrLane
<1>5. ASSUME NEW r \in Runs, \/ ModuleReady(r) \/ PostAnswered(r)
                                  \/ \E j \in Jobs : PostArrives(r, j)
      PROVE  RowTypes'
  BY <1>5
     DEF ModuleReady, PostAnswered, PostArrives, RowTypes, rows, ocrLane
<1>6. ASSUME NEW r \in Runs, DocsLaneFails(r) PROVE RowTypes'
  BY <1>1, <1>6, FailedRows DEF DocsLaneFails, ocrLane
<1>7. ASSUME NEW p \in Polls, Tick(p) \/ PollAnswers(p) PROVE RowTypes'
  BY <1>7 DEF Tick, PollAnswers, RowTypes, rows, page, ocrLane
<1>8. ASSUME NEW p \in Polls, PollDelivered(p) PROVE RowTypes'
  BY <1>1, <1>8, DeliveredRows DEF PollDelivered, ocrLane
<1>9. ASSUME NEW p \in Polls, PollFails(p) PROVE RowTypes'
  BY <1>1, <1>9, FailedRows DEF PollFails, ocrLane
<1>10. ASSUME NEW r \in Runs, OcrModuleFails(r) PROVE RowTypes'
  <2>1. [i \in 1..MaxImages |-> "error"] \in [1..MaxImages -> Kinds]
    BY DEF Kinds
  <2>2. imgRow' \in [Runs -> [1..MaxImages -> Row]]
    BY <1>10, <2>1, PaintedImages DEF OcrModuleFails
  <2>3. ocr' = [ocr EXCEPT ![r] = "over"] /\ image' = image /\ docRow' = docRow
    BY <1>10 DEF OcrModuleFails
  <2>4. QED
    BY <1>2, <2>2, <2>3 DEF PageTypes
<1>11. ASSUME NEW r \in Runs, OcrModuleReady(r) PROVE RowTypes'
  <2>1. imgRow' \in [Runs -> [1..MaxImages -> Row]]
    BY <1>11, FirstImage
  <2>2. /\ ocr' = [ocr EXCEPT ![r] = "image"] /\ image' = [image EXCEPT ![r] = 1]
        /\ docRow' = docRow
    BY <1>11 DEF OcrModuleReady
  <2>3. QED
    BY <1>2, <2>1, <2>2 DEF PageTypes
<1>12. ASSUME NEW r \in Runs, NEW o \in {"ok", "skipped", "error"}, OcrAnswered(r, o)
       PROVE  RowTypes'
  <2>1. image[r] \in Nat /\ image[r] > 0
    BY <1>12 DEF OcrAnswered, PageTypes, RowTypes
  <2>2. docRow' = docRow
    BY <1>12 DEF OcrAnswered
  <2>3. CASE image[r] < images[r] /\ ~ocrCanceled
    <3>1. imgRow' \in [Runs -> [1..MaxImages -> Row]]
      BY <1>12, <2>1, <2>3, NextImage
    <3>2. ocr' = ocr /\ image' = [image EXCEPT ![r] = image[r] + 1]
      BY <1>12, <2>3 DEF OcrAnswered
    <3>3. \A q \in Runs \ {r} : ocr'[q] = ocr[q] /\ image'[q] = image[q]
      BY <3>2 DEF PageTypes
    <3>4. image'[r] > 0
      BY <2>1, <3>2 DEF PageTypes
    <3>5. QED
      BY <1>2, <2>2, <3>1, <3>3, <3>4
  <2>4. CASE ~(image[r] < images[r] /\ ~ocrCanceled)
    <3>1. [k \in 1..MaxImages |-> IF k = image[r] THEN o ELSE "canceled"]
            \in [1..MaxImages -> Kinds]
      BY DEF Kinds
    <3>2. imgRow' \in [Runs -> [1..MaxImages -> Row]]
      BY <1>12, <2>4, <3>1, PaintedImages DEF OcrAnswered
    <3>3. ocr' = [ocr EXCEPT ![r] = "over"] /\ image' = image
      BY <1>12, <2>4 DEF OcrAnswered
    <3>4. QED
      BY <1>2, <2>2, <3>2, <3>3 DEF PageTypes
  <2>5. QED
    BY <2>3, <2>4
<1>13. ASSUME NEW j \in Jobs, CancelArrives(j) \/ ServerWorks(j) PROVE RowTypes'
  BY <1>13 DEF CancelArrives, ServerWorks, RowTypes, rows, page, ocrLane
<1>14. CASE UNCHANGED dialogVars
  BY <1>14 DEF dialogVars, RowTypes, rows, page, ocrLane
<1>15. QED
  BY <1>3, <1>4, <1>5, <1>6, <1>7, <1>8, <1>9, <1>10, <1>11, <1>12, <1>13, <1>14
     DEF DialogNext, WithoutUser
-----------------------------------------------------------------------------
\* A cancel that waits for the job's id is sent with it, and one that is sent arrives.
LEMMA CancelStep ==
  ASSUME PageInv, CancelReachesJob, [DialogNext]_dialogVars PROVE CancelReachesJob'
<1> USE DEF PageInv
<1>1. ASSUME UNCHANGED <<cancelRequested, jobId, posted, cancel>> PROVE CancelReachesJob'
  BY <1>1 DEF CancelReachesJob
<1>2. ASSUME NEW ds \in DocLists, NEW n \in 0..MaxImages, Enqueue(ds, n)
      PROVE  CancelReachesJob'
  BY <1>2 DEF Enqueue, Reset, CancelReachesJob
<1>3. CASE Close
  BY <1>1, <1>3 DEF Close, server, cancels
<1>4. CASE CancelClicked
  BY <1>4 DEF CancelClicked, CancelReachesJob
<1>5. ASSUME NEW r \in Runs, ModuleReady(r) \/ DocsLaneFails(r)
      PROVE  CancelReachesJob'
  BY <1>1, <1>5 DEF ModuleReady, DocsLaneFails, server, cancels
<1>6. ASSUME NEW r \in Runs, NEW j \in Jobs, PostArrives(r, j)
      PROVE  CancelReachesJob'
  BY <1>1, <1>6 DEF PostArrives, Server!Start, cancels
<1>7. ASSUME NEW r \in Runs, PostAnswered(r) PROVE CancelReachesJob'
  BY <1>7 DEF PostAnswered, CancelReachesJob, cancels
<1>8. ASSUME NEW p \in Polls,
             Tick(p) \/ PollAnswers(p) \/ PollDelivered(p) \/ PollFails(p)
      PROVE  CancelReachesJob'
  BY <1>1, <1>8 DEF Tick, PollAnswers, PollDelivered, PollFails,
                    server, page, cancels
<1>9. ASSUME NEW r \in Runs, \/ OcrModuleReady(r) \/ OcrModuleFails(r)
                                  \/ \E o \in {"ok", "skipped", "error"} : OcrAnswered(r, o)
      PROVE  CancelReachesJob'
  BY <1>1, <1>9
     DEF OcrModuleReady, OcrModuleFails, OcrAnswered, server, cancels
<1>10. ASSUME NEW j \in Jobs, CancelArrives(j) PROVE CancelReachesJob'
  <2>1. /\ posted' = posted \ {j} /\ cancel' = [cancel EXCEPT ![j] = TRUE]
        /\ jobId' = jobId /\ cancelRequested' = cancelRequested
    BY <1>10 DEF CancelArrives, Server!Cancel, cancels
  <2>2. jobId # None => jobId \in Jobs
    BY DEF PageTypes
  <2>3. QED
    BY <2>1, <2>2 DEF CancelReachesJob, TableTypes
<1>11. ASSUME NEW j \in Jobs, ServerWorks(j) PROVE CancelReachesJob'
  <2>1. cancel' = cancel
    BY <1>11, WorkEffect
  <2>2. QED
    BY <1>1, <1>11, <2>1 DEF ServerWorks, page, cancels
<1>12. CASE UNCHANGED dialogVars
  BY <1>1, <1>12 DEF dialogVars, server, page, cancels
<1>13. QED
  BY <1>2, <1>3, <1>4, <1>5, <1>6, <1>7, <1>8, <1>9, <1>10, <1>11, <1>12
     DEF DialogNext, WithoutUser
-----------------------------------------------------------------------------
\* What got in the way is not forgotten.
LEMMA NotForgotten == ASSUME [DialogNext]_dialogVars PROVE disturbed \subseteq disturbed'
<1>1. ASSUME NEW ds \in DocLists, NEW n \in 0..MaxImages, Enqueue(ds, n)
      PROVE  disturbed \subseteq disturbed'
  BY <1>1 DEF Enqueue, Interrupted
<1>2. CASE Close \/ CancelClicked
  BY <1>2 DEF Close, CancelClicked
<1>3. ASSUME NEW r \in Runs,
             \/ ModuleReady(r) \/ DocsLaneFails(r) \/ PostAnswered(r)
             \/ \E j \in Jobs : PostArrives(r, j)
      PROVE  disturbed \subseteq disturbed'
  BY <1>3 DEF ModuleReady, DocsLaneFails, PostAnswered, PostArrives
<1>4. ASSUME NEW r \in Runs, \/ OcrModuleReady(r) \/ OcrModuleFails(r)
                                  \/ \E o \in {"ok", "skipped", "error"} : OcrAnswered(r, o)
      PROVE  disturbed \subseteq disturbed'
  BY <1>4 DEF OcrModuleReady, OcrModuleFails, OcrAnswered
<1>5. ASSUME NEW p \in Polls,
             Tick(p) \/ PollAnswers(p) \/ PollDelivered(p) \/ PollFails(p)
      PROVE  disturbed \subseteq disturbed'
  BY <1>5 DEF Tick, PollAnswers, PollDelivered, PollFails
<1>6. ASSUME NEW j \in Jobs, CancelArrives(j) \/ ServerWorks(j)
      PROVE  disturbed \subseteq disturbed'
  BY <1>6 DEF CancelArrives, ServerWorks
<1>7. CASE UNCHANGED dialogVars
  BY <1>7 DEF dialogVars
<1>8. QED
  BY <1>1, <1>2, <1>3, <1>4, <1>5, <1>6, <1>7 DEF DialogNext, WithoutUser

\* A job is at work after a step if it was before, or if the step has started it.
LEMMA UnfinishedBefore ==
  ASSUME PageInv, [DialogNext]_dialogVars, NEW k \in Jobs, Unfinished(k)'
  PROVE  Unfinished(k) \/ \E r \in Runs : PostArrives(r, k)
<1> USE DEF PageInv
<1>1. ~finished[k]
  BY TableGrows DEF Unfinished
<1>2. SUFFICES ASSUME ~\E r \in Runs : PostArrives(r, k) PROVE Server!Exists(k)
  BY <1>1 DEF Unfinished
<1>3. CASE UNCHANGED <<status, cancel, finished, jobDocs>>
  BY <1>3 DEF Unfinished, Server!Exists
<1>4. ASSUME NEW r \in Runs, NEW j \in Jobs, PostArrives(r, j)
      PROVE  Server!Exists(k)
  <2>1. status'[k] = status[k]
    BY <1>2, <1>4, PostEffect
  <2>2. QED
    BY <2>1 DEF Unfinished, Server!Exists
<1>5. ASSUME NEW j \in Jobs, CancelArrives(j) PROVE Server!Exists(k)
  BY <1>5 DEF CancelArrives, Server!Cancel, Unfinished, Server!Exists
<1>6. ASSUME NEW j \in Jobs, ServerWorks(j) PROVE Server!Exists(k)
  <2>1. PICK f \in [DOMAIN status[j] -> Server!Statuses] :
          status' = [status EXCEPT ![j] = f]
    BY <1>6, WorkEffect
  <2>2. /\ status' \in [Jobs -> Seq(Server!Statuses)]
        /\ Len(status'[k]) = Len(status[k])
    BY <2>1, RepaintedJob
  <2>3. QED
    BY <2>2, EmptySeq DEF TableTypes, Unfinished, Server!Exists
<1>7. QED
  BY <1>3, <1>4, <1>5, <1>6, TableCases

\* A lane that is at work is the current run's, which nobody asks about yet.
LEMMA DocsAtWork ==
  ASSUME PageInv, CalmState,
         NEW r \in Runs, lane[r] \in {"module", "posting", "answered"}
  PROVE  /\ r = run /\ run # 0 /\ ~docsDone /\ timer = None
         /\ \A p \in Polls : polls[p] = None
<1>1. r = run /\ run # 0
  BY DialogAssumption DEF CalmState, LanesOver, Runs
<1>2. ~docsDone
  BY <1>1 DEF CalmState, EndingSound
<1>3. timer = None
  BY <1>1 DEF CalmState, PollsOfRun
<1>4. ASSUME NEW p \in Polls, polls[p] # None PROVE FALSE
  <2>1. polls[p].job \in Jobs
    BY <1>4 DEF PageInv, PollTypes, PollAnswer
  <2>2. polls[p].job = None
    BY <1>3, <1>4 DEF CalmState, PollsOfRun
  <2>3. QED
    BY <2>1, <2>2, DialogAssumption
<1>5. QED
  BY <1>1, <1>2, <1>3, <1>4

LEMMA ImagesAtWork ==
  ASSUME PageInv, CalmState, NEW r \in Runs, ocr[r] \in {"module",
         "image"}
  PROVE  r = run /\ run # 0 /\ ~ocrDone
<1>1. r = run /\ run # 0
  BY DialogAssumption DEF CalmState, LanesOver, Runs
<1>2. QED
  BY <1>1 DEF CalmState, EndingSound

\* The answer to a request that is in flight is about the current run's job.
LEMMA PollAtWork ==
  ASSUME PageInv, CalmState, NEW p \in Polls, polls[p] # None
  PROVE  /\ timer # None /\ timer = polls[p].job /\ timer \in Jobs
         /\ run # 0 /\ run \in Runs /\ lane[run] = "over" /\ ~docsDone
         /\ timer = laneJob[run]
         /\ \A q \in Polls \ {p} : polls[q] = None
<1>1. polls[p].job \in Jobs /\ polls[p].job = timer
  BY DEF PageInv, PollTypes, PollAnswer, CalmState, PollsOfRun
<1>2. timer # None
  BY <1>1, DialogAssumption
<1>3. run # 0 /\ lane[run] = "over" /\ ~docsDone /\ timer = laneJob[run]
  BY <1>2 DEF CalmState, PollsOfRun
<1>4. run \in Runs
  BY <1>3, DialogAssumption DEF PageInv, PageTypes, Runs
<1>5. \A q \in Polls \ {p} : polls[q] = None
  BY DEF CalmState, PollsOfRun
<1>6. QED
  BY <1>1, <1>2, <1>3, <1>4, <1>5
-----------------------------------------------------------------------------
\* Steps that leave the lanes and the ending alone, and do not send a request.
LEMMA CalmUnmoved ==
  ASSUME CalmState, UNCHANGED <<run, lane, laneJob, ocr, timer, ending>>,
         \A p \in Polls : polls'[p] # None => polls[p] # None /\ polls'[p].job = polls[p].job,
         \A j \in Jobs : Unfinished(j)' => Unfinished(j)
  PROVE  CalmState'
<1>1. LanesOver' /\ EndingSound'
  BY DEF CalmState, LanesOver, EndingSound, ending
<1>2. PollsOfRun'
  BY DEF CalmState, PollsOfRun, ending
<1>3. JobOfRun'
  BY DEF CalmState, JobOfRun, ending
<1>4. QED
  BY <1>1, <1>2, <1>3 DEF CalmState

\* The lane that ends last ends the batch.
LEMMA EndingKept ==
  ASSUME PageTypes, EndingSound, run # 0, run' = run,
         NEW docsOver \in BOOLEAN, NEW ocrOver \in BOOLEAN, MaybeFinish(docsOver, ocrOver),
         docsDone => docsOver, ocrDone => ocrOver,
         docsOver => lane'[run] = "over", ocrOver <=> ocr'[run] = "over"
  PROVE  EndingSound'
<1>1. /\ docsDone' = docsOver /\ ocrDone' = ocrOver
      /\ \/ ~batchFinished /\ docsOver /\ ocrOver /\ batchFinished' /\ ~batchActive'
         \/ /\ batchFinished \/ ~(docsOver /\ ocrOver)
            /\ batchFinished' = batchFinished /\ batchActive' = batchActive
  BY DEF MaybeFinish
<1>2. /\ batchActive <=> ~batchFinished
      /\ batchFinished <=> docsDone /\ ocrDone
  BY DEF EndingSound
<1>3. /\ batchActive' <=> ~batchFinished'
      /\ batchFinished' <=> docsDone' /\ ocrDone'
  BY <1>1, <1>2 DEF PageTypes
<1>4. QED
  BY <1>1, <1>3 DEF EndingSound

\* The actions that move the lanes.
LEMMA CalmEnqueue ==
  ASSUME PageInv, CalmState,
         NEW ds \in DocLists, NEW n \in 0..MaxImages, Enqueue(ds, n), Calm'
  PROVE  CalmState'
<1> USE DEF PageInv
<1>1. ~batchActive
  BY DEF Enqueue, Interrupted, Calm
<1>2. run # 0 => docsDone /\ ocrDone /\ lane[run] = "over" /\ ocr[run] = "over"
  BY <1>1 DEF CalmState, EndingSound
<1>3. timer = None /\ \A p \in Polls : polls[p] = None
  BY <1>2, PollAtWork DEF CalmState, PollsOfRun
<1>4. \A j \in Jobs : ~Unfinished(j)
  BY <1>2 DEF CalmState, JobOfRun
<1>5. run' = run + 1 /\ run' \in Runs /\ run' # 0 /\ run' # run /\ polls' = polls
  BY ResetTyped, DialogAssumption DEF PageTypes, Runs
<1>6. /\ lane' = [lane EXCEPT ![run'] = IF ds = <<>> THEN "over" ELSE "module"]
      /\ ocr' = [ocr EXCEPT ![run'] = IF n = 0 THEN "over" ELSE "module"]
      /\ timer' = None
      /\ docsDone' = (ds = <<>>) /\ ocrDone' = (n = 0) /\ ~batchFinished' /\ batchActive'
      /\ status' = status /\ finished' = finished
  BY <1>5 DEF Enqueue, Reset, server
<1>7. LanesOver'
  <2>1. ASSUME NEW r \in Runs, r # run'
        PROVE  lane'[r] \in {"none", "over"} /\ ocr'[r] \in {"none", "over"}
    <3>1. lane'[r] = lane[r] /\ ocr'[r] = ocr[r]
      BY <1>5, <1>6, <2>1 DEF PageTypes
    <3>2. CASE r = run
      BY <1>2, <3>1, <3>2 DEF Runs
    <3>3. CASE r # run
      BY <3>1, <3>3 DEF CalmState, LanesOver
    <3>4. QED
      BY <3>2, <3>3
  <2>2. QED
    BY <2>1 DEF LanesOver, Runs
<1>8. EndingSound'
  <2>1. ~(ds = <<>> /\ n = 0)
    <3>1. Len(ds) + n > 0
      BY DEF Enqueue
    <3>2. QED
      BY <3>1, EmptySeq
  <2>2. lane'[run'] = (IF ds = <<>> THEN "over" ELSE "module")
    BY <1>5, <1>6 DEF PageTypes
  <2>3. ocr'[run'] = IF n = 0 THEN "over" ELSE "module"
    BY <1>5, <1>6 DEF PageTypes
  <2>4. docsDone' <=> ds = <<>>
    BY <1>6
  <2>5. ocrDone' <=> n = 0
    BY <1>6
  <2>6. batchActive' /\ ~batchFinished'
    BY <1>6
  <2>7. docsDone' => lane'[run'] = "over"
    BY <2>2, <2>4
  <2>8. ocrDone' <=> ocr'[run'] = "over"
    BY <2>3, <2>5
  <2>9. QED
    BY <1>5, <2>1, <2>4, <2>5, <2>6, <2>7, <2>8 DEF EndingSound
<1>9. PollsOfRun'
  BY <1>3, <1>5, <1>6 DEF PollsOfRun
<1>10. JobOfRun'
  BY <1>4, <1>6 DEF JobOfRun, Unfinished, Server!Exists
<1>11. QED
  BY <1>7, <1>8, <1>9, <1>10 DEF CalmState

LEMMA CalmLane ==
  ASSUME PageInv, CalmState, NEW r \in Runs,
         ModuleReady(r) \/ PostAnswered(r) \/ DocsLaneFails(r), Calm'
  PROVE  CalmState'
<1> USE DEF PageInv
<1>1. /\ r = run /\ run # 0 /\ ~docsDone /\ timer = None
      /\ \A p \in Polls : polls[p] = None
      /\ lane[r] \in {"module", "posting", "answered"}
  <2>1. lane[r] \in {"module", "posting", "answered"}
    BY DEF ModuleReady, PostAnswered, DocsLaneFails
  <2>2. QED
    BY <2>1, DocsAtWork
<1>2. \E l \in {"posting", "over"} : lane' = [lane EXCEPT ![r] = l]
  BY DEF ModuleReady, PostAnswered, DocsLaneFails
<1>3. UNCHANGED <<run, polls, laneJob, ocr, status, finished>>
  BY DEF ModuleReady, PostAnswered, DocsLaneFails, request, ocrLane,
         server
<1>4. LanesOver'
  BY <1>1, <1>2, <1>3 DEF CalmState, LanesOver, PageTypes
<1>5. CASE ModuleReady(r)
  <2>1. lane'[r] = "posting" /\ lane[r] = "module" /\ UNCHANGED <<timer, ending>>
    BY <1>5 DEF ModuleReady, PageTypes
  <2>2. EndingSound' /\ PollsOfRun'
    BY <1>1, <1>3, <2>1 DEF CalmState, EndingSound, PollsOfRun, ending
  <2>3. JobOfRun'
    BY <1>1, <1>3, <2>1 DEF CalmState, JobOfRun, Unfinished, Server!Exists, ending
  <2>4. QED
    BY <1>4, <2>2, <2>3 DEF CalmState
<1>6. CASE PostAnswered(r)
  <2>1. lane'[r] = "over" /\ timer' = laneJob[r] /\ UNCHANGED ending
    BY <1>6 DEF PostAnswered, PageTypes
  <2>2. EndingSound' /\ PollsOfRun'
    BY <1>1, <1>3, <2>1 DEF CalmState, EndingSound, PollsOfRun, ending
  <2>3. JobOfRun'
    BY <1>1, <1>3, <2>1 DEF CalmState, JobOfRun, Unfinished, Server!Exists, ending
  <2>4. QED
    BY <1>4, <2>2, <2>3 DEF CalmState
<1>7. CASE DocsLaneFails(r)
  <2>1. lane[r] # "answered"
    BY <1>7 DEF DocsLaneFails, Calm
  <2>2. lane'[r] = "over" /\ timer' = None /\ MaybeFinish(TRUE, ocrDone)
    BY <1>7 DEF DocsLaneFails, FailDocsLane, PageTypes
  <2>3. EndingSound'
    <3>1. EndingSound /\ (ocrDone <=> ocr'[run] = "over") /\ ocrDone \in BOOLEAN
      BY <1>1, <1>3 DEF CalmState, EndingSound, PageTypes
    <3>2. QED
      BY <1>1, <1>3, <2>2, <3>1, EndingKept
  <2>4. PollsOfRun'
    BY <1>1, <1>3, <2>2 DEF PollsOfRun
  <2>5. JobOfRun'
    BY <1>1, <1>3, <2>1 DEF CalmState, JobOfRun, Unfinished, Server!Exists
  <2>6. QED
    BY <1>4, <2>3, <2>4, <2>5 DEF CalmState
<1>8. QED
  BY <1>5, <1>6, <1>7

LEMMA CalmPost ==
  ASSUME PageInv, CalmState, NEW r \in Runs, NEW j \in Jobs,
         PostArrives(r, j), [DialogNext]_dialogVars
  PROVE  CalmState'
<1> USE DEF PageInv
<1>1. /\ r = run /\ run # 0 /\ ~docsDone /\ timer = None
      /\ \A p \in Polls : polls[p] = None
      /\ lane[r] = "posting"
  BY DocsAtWork DEF PostArrives
<1>2. /\ lane' = [lane EXCEPT ![r] = "answered"] /\ laneJob' = [laneJob EXCEPT ![r] = j]
      /\ UNCHANGED <<run, polls, ocr, timer, ending>>
  BY DEF PostArrives, request, ocrLane
<1>3. lane'[r] = "answered" /\ laneJob'[r] = j
  BY <1>2 DEF PageTypes
<1>4. LanesOver'
  BY <1>1, <1>2 DEF CalmState, LanesOver, PageTypes
<1>5. EndingSound' /\ PollsOfRun'
  BY <1>1, <1>2, <1>3 DEF CalmState, EndingSound, PollsOfRun, ending
<1>6. JobOfRun'
  <2>1. ASSUME NEW k \in Jobs, Unfinished(k)' PROVE k = j
    <3>1. k # j => status'[k] = status[k] /\ finished'[k] = finished[k]
      BY PostEffect
    <3>2. ~Unfinished(k)
      BY <1>1 DEF CalmState, JobOfRun
    <3>3. QED
      BY <2>1, <3>1, <3>2 DEF Unfinished, Server!Exists
  <2>2. QED
    BY <1>1, <1>2, <1>3, <2>1 DEF JobOfRun, ending
<1>7. QED
  BY <1>4, <1>5, <1>6 DEF CalmState

LEMMA CalmPoll ==
  ASSUME PageInv, CalmState, NEW p \in Polls,
         Tick(p) \/ PollAnswers(p) \/ PollDelivered(p) \/ PollFails(p), Calm'
  PROVE  CalmState'
<1> USE DEF PageInv
<1>1. CASE Tick(p)
  <2>1. \A q \in Polls : polls[q] = None
    BY <1>1 DEF Tick, Calm
  <2>2. /\ timer # None
        /\ UNCHANGED <<run, lane, laneJob, ocr, timer, ending, status, finished>>
    BY <1>1 DEF Tick, page, request, docLane, ocrLane, server
  <2>3. polls' = [polls EXCEPT ![p] = [job |-> timer, items |-> <<>>, finished |-> FALSE]]
    BY <1>1 DEF Tick
  <2>4. polls'[p].job = timer /\ \A q \in Polls \ {p} : polls'[q] = None
    BY <2>1, <2>3 DEF PollTypes
  <2>5. LanesOver' /\ EndingSound'
    BY <2>2 DEF CalmState, LanesOver, EndingSound, ending
  <2>6. PollsOfRun'
    BY <2>2, <2>4 DEF CalmState, PollsOfRun, ending
  <2>7. JobOfRun'
    BY <2>2 DEF CalmState, JobOfRun, Unfinished, Server!Exists, ending
  <2>8. QED
    BY <2>5, <2>6, <2>7 DEF CalmState
<1>2. CASE PollAnswers(p)
  <2>1. UNCHANGED <<run, lane, laneJob, ocr, timer, ending, status, finished>>
    BY <1>2 DEF PollAnswers, page, request, docLane, ocrLane,
                 server
  <2>2. ASSUME NEW q \in Polls, polls'[q] # None
        PROVE  polls[q] # None /\ polls'[q].job = polls[q].job
    <3>1. CASE q = p
      <4> DEFINE a == [polls[p] EXCEPT !.items = status[polls[p].job],
                                       !.finished = finished[polls[p].job]]
      <4>1. polls[p] \in PollAnswer /\ polls[p] # None
        BY <1>2 DEF PollAnswers, PollTypes
      <4>2. polls' = [polls EXCEPT ![p] = a]
        BY <1>2 DEF PollAnswers, PollTypes
      <4>3. a.job = polls[p].job
        BY <4>1 DEF PollAnswer
      <4> HIDE DEF a
      <4>4. QED
        BY <3>1, <4>1, <4>2, <4>3 DEF PollTypes
    <3>2. CASE q # p
      BY <1>2, <2>2, <3>2 DEF PollAnswers, PollTypes
    <3>3. QED
      BY <3>1, <3>2
  <2>3. \A j \in Jobs : Unfinished(j)' => Unfinished(j)
    BY <2>1 DEF Unfinished, Server!Exists
  <2>4. QED
    BY <2>1, <2>2, <2>3, CalmUnmoved
<1>3. CASE PollDelivered(p)
  <2>1. /\ timer # None /\ timer = polls[p].job /\ timer \in Jobs
        /\ run # 0 /\ run \in Runs /\ lane[run] = "over" /\ ~docsDone
        /\ timer = laneJob[run]
        /\ \A q \in Polls \ {p} : polls[q] = None
    BY <1>3, PollAtWork DEF PollDelivered
  <2>2. /\ UNCHANGED <<run, lane, laneJob, ocr, status, finished>>
        /\ polls' = [polls EXCEPT ![p] = None]
    BY <1>3 DEF PollDelivered, request, docLane, ocrLane, server
  <2>3. \A q \in Polls : polls'[q] = None
    BY <2>1, <2>2 DEF PollTypes
  <2>4. LanesOver'
    BY <2>2 DEF CalmState, LanesOver
  <2>5. CASE polls[p].finished
    <3>1. timer' = None /\ MaybeFinish(TRUE, ocrDone)
      BY <1>3, <2>5 DEF PollDelivered
    <3>2. EndingSound'
      <4>1. EndingSound /\ (ocrDone <=> ocr'[run] = "over") /\ ocrDone \in BOOLEAN
        BY <2>1, <2>2 DEF CalmState, EndingSound, PageTypes
      <4>2. lane'[run] = "over" /\ run' = run
        BY <2>1, <2>2
      <4>3. QED
        BY <2>1, <3>1, <4>1, <4>2, EndingKept
    <3>3. PollsOfRun'
      BY <2>3, <3>1 DEF PollsOfRun
    <3>4. JobOfRun'
      <4>1. finished[timer]
        BY <1>3, <2>1, <2>5 DEF PollDelivered, PollsSound
      <4>2. \A j \in Jobs : ~Unfinished(j)
        BY <2>1, <4>1 DEF CalmState, JobOfRun, Unfinished
      <4>3. QED
        BY <2>2, <4>2 DEF JobOfRun, Unfinished, Server!Exists
    <3>5. QED
      BY <2>4, <3>2, <3>3, <3>4 DEF CalmState
  <2>6. CASE ~polls[p].finished
    <3>1. UNCHANGED <<timer, ending>>
      BY <1>3, <2>6 DEF PollDelivered
    <3>2. \A j \in Jobs : Unfinished(j)' => Unfinished(j)
      BY <2>2 DEF Unfinished, Server!Exists
    <3>3. QED
      BY <2>2, <2>3, <3>1, <3>2, CalmUnmoved
  <2>7. QED
    BY <2>5, <2>6
<1>4. CASE PollFails(p)
  BY <1>4 DEF PollFails, Calm
<1>5. QED
  BY <1>1, <1>2, <1>3, <1>4

LEMMA CalmImages ==
  ASSUME PageInv, CalmState, NEW r \in Runs,
         \/ OcrModuleReady(r) \/ OcrModuleFails(r)
         \/ \E o \in {"ok", "skipped", "error"} : OcrAnswered(r, o)
  PROVE  CalmState'
<1> USE DEF PageInv
<1>1. r = run /\ run # 0 /\ ~ocrDone /\ ocr[r] \in {"module", "image"}
  <2>1. ocr[r] \in {"module", "image"}
    BY DEF OcrModuleReady, OcrModuleFails, OcrAnswered
  <2>2. QED
    BY <2>1, ImagesAtWork
<1>2. UNCHANGED <<run, lane, laneJob, timer, polls, status, finished>>
  BY DEF OcrModuleReady, OcrModuleFails, OcrAnswered, request, docLane,
         server
<1>3. \A j \in Jobs : Unfinished(j)' => Unfinished(j)
  BY <1>2 DEF Unfinished, Server!Exists
<1>4. CASE UNCHANGED <<ocr, ending>>
  BY <1>2, <1>3, <1>4, CalmUnmoved
<1>5. CASE ocr' = [ocr EXCEPT ![r] = "image"] /\ UNCHANGED ending
  <2>1. LanesOver' /\ EndingSound'
    BY <1>1, <1>2, <1>5 DEF CalmState, LanesOver, EndingSound, PageTypes, ending
  <2>2. PollsOfRun'
    BY <1>2, <1>5 DEF CalmState, PollsOfRun, ending
  <2>3. JobOfRun'
    BY <1>2, <1>3, <1>5 DEF CalmState, JobOfRun, ending
  <2>4. QED
    BY <2>1, <2>2, <2>3 DEF CalmState
<1>6. CASE ocr' = [ocr EXCEPT ![r] = "over"] /\ MaybeFinish(docsDone, TRUE)
  <2>1. LanesOver'
    BY <1>1, <1>2, <1>6 DEF CalmState, LanesOver, PageTypes
  <2>2. docsDone' = docsDone
    BY <1>6 DEF MaybeFinish
  <2>3. EndingSound'
    <3>1. /\ EndingSound /\ docsDone \in BOOLEAN /\ ocr'[run] = "over"
          /\ docsDone => lane'[run] = "over"
      BY <1>1, <1>2, <1>6 DEF CalmState, EndingSound, PageTypes
    <3>2. QED
      BY <1>1, <1>2, <1>6, <3>1, EndingKept
  <2>4. PollsOfRun'
    BY <1>2, <2>2 DEF CalmState, PollsOfRun
  <2>5. JobOfRun'
    BY <1>2, <1>3, <2>2 DEF CalmState, JobOfRun
  <2>6. QED
    BY <2>1, <2>3, <2>4, <2>5 DEF CalmState
<1>7. QED
  BY <1>4, <1>5, <1>6 DEF OcrModuleReady, OcrModuleFails, OcrAnswered

LEMMA CalmStep ==
  ASSUME PageInv, CalmInv, [DialogNext]_dialogVars
  PROVE  CalmInv'
<1> SUFFICES ASSUME Calm' PROVE CalmState'
  BY DEF CalmInv
<1>0. CalmState
  BY NotForgotten DEF Calm, CalmInv
<1>1. ASSUME NEW ds \in DocLists, NEW n \in 0..MaxImages, Enqueue(ds, n)
      PROVE  CalmState'
  BY <1>0, <1>1, CalmEnqueue
<1>2. CASE Close
  BY <1>2 DEF Close, Calm
<1>3. CASE CancelClicked
  <2>1. UNCHANGED <<run, lane, laneJob, ocr, timer, ending, polls, status, finished>>
    BY <1>3 DEF CancelClicked, request, docLane, ocrLane, server
  <2>2. \A j \in Jobs : Unfinished(j)' => Unfinished(j)
    BY <2>1 DEF Unfinished, Server!Exists
  <2>3. QED
    BY <1>0, <2>1, <2>2, CalmUnmoved
<1>4. ASSUME NEW r \in Runs,
             ModuleReady(r) \/ PostAnswered(r) \/ DocsLaneFails(r)
      PROVE  CalmState'
  BY <1>0, <1>4, CalmLane
<1>5. ASSUME NEW r \in Runs, NEW j \in Jobs, PostArrives(r, j) PROVE CalmState'
  BY <1>0, <1>5, CalmPost
<1>6. ASSUME NEW p \in Polls,
             Tick(p) \/ PollAnswers(p) \/ PollDelivered(p) \/ PollFails(p)
      PROVE  CalmState'
  BY <1>0, <1>6, CalmPoll
<1>7. ASSUME NEW r \in Runs, \/ OcrModuleReady(r) \/ OcrModuleFails(r)
                                  \/ \E o \in {"ok", "skipped", "error"} : OcrAnswered(r, o)
      PROVE  CalmState'
  BY <1>0, <1>7, CalmImages
<1>8. ASSUME NEW j \in Jobs, CancelArrives(j) \/ ServerWorks(j) PROVE CalmState'
  <2>1. UNCHANGED <<run, lane, laneJob, ocr, timer, ending, polls>>
    BY <1>8 DEF CancelArrives, ServerWorks, page, request, docLane,
                ocrLane
  <2>2. ASSUME NEW k \in Jobs, Unfinished(k)' PROVE Unfinished(k)
    <3>1. ASSUME NEW r \in Runs, PostArrives(r, k) PROVE FALSE
      BY <2>1, <3>1 DEF PostArrives, PageInv, PageTypes
    <3>2. QED
      BY <2>2, <3>1, UnfinishedBefore
  <2>3. QED
    BY <1>0, <2>1, <2>2, CalmUnmoved
<1>9. CASE UNCHANGED dialogVars
  <2>1. UNCHANGED <<run, lane, laneJob, ocr, timer, ending, polls, status, finished>>
    BY <1>9 DEF dialogVars, page, request, docLane, ocrLane, server
  <2>2. \A j \in Jobs : Unfinished(j)' => Unfinished(j)
    BY <2>1 DEF Unfinished, Server!Exists
  <2>3. QED
    BY <1>0, <2>1, <2>2, CalmUnmoved
<1>10. QED
  BY <1>1, <1>2, <1>3, <1>4, <1>5, <1>6, <1>7, <1>8, <1>9 DEF DialogNext, WithoutUser
-----------------------------------------------------------------------------
\* Steps that leave the rows of the documents alone, and whose they are.
LEMMA DocRowsUnmoved ==
  ASSUME DocRowsSound, UNCHANGED <<run, docs, docRow, lane, laneJob, jobDocs, timer, docsDone>>
  PROVE  DocRowsSound'
BY DEF DocRowsSound

\* A selection fills the rows of its run.
LEMMA DocRowsEnqueued ==
  ASSUME PageInv, CalmState,
         NEW ds \in DocLists, NEW n \in 0..MaxImages, Enqueue(ds, n)
  PROVE  DocRowsSound'
<1> USE DEF PageInv
<1>1. run' = run + 1 /\ run' \in Runs
  BY ResetTyped
<1>2. /\ docs' = [docs EXCEPT ![run'] = ds]
      /\ docRow' = [d \in Docs |->
                      IF \E i \in DOMAIN ds : ds[i] = d THEN QueuedRow ELSE NoRow]
      /\ lane' = [lane EXCEPT ![run'] = IF ds = <<>> THEN "over" ELSE "module"]
      /\ timer' = None
  BY <1>1 DEF Enqueue, Reset
<1>3. docsDone' <=> ds = <<>>
  BY DEF Enqueue, Reset
<1>4. docs'[run'] = ds /\ lane'[run'] = IF ds = <<>> THEN "over" ELSE "module"
  BY <1>1, <1>2 DEF PageTypes
<1>5. \A d \in Docs : docRow'[d] # NoRow =>
        docRow'[d] = QueuedRow /\ \E i \in DOMAIN ds : ds[i] = d
  BY <1>2
<1>6. ds = <<>> => \A d \in Docs : docRow'[d] = NoRow
  BY <1>5
<1>7. lane'[run'] # "answered"
  BY <1>4
<1>8. QED
  BY <1>2, <1>3, <1>4, <1>5, <1>6, <1>7 DEF DocRowsSound

\* The lane of the documents goes from await to await.
LEMMA DocRowsLane ==
  ASSUME PageInv, CalmState, DocRowsSound, NEW r \in Runs,
         ModuleReady(r) \/ PostAnswered(r) \/ DocsLaneFails(r), disturbed' = {}
  PROVE  DocRowsSound'
<1> USE DEF PageInv
<1>1. /\ r = run /\ run # 0 /\ ~docsDone
      /\ lane[r] \in {"module", "posting", "answered"}
  <2>1. lane[r] \in {"module", "posting", "answered"}
    BY DEF ModuleReady, PostAnswered, DocsLaneFails
  <2>2. QED
    BY <2>1, DocsAtWork
<1>2. UNCHANGED <<run, docs, laneJob, jobDocs>>
  BY DEF ModuleReady, PostAnswered, DocsLaneFails, request
<1>3. CASE ModuleReady(r)
  <2>1. lane[r] = "module" /\ lane'[r] = "posting" /\ UNCHANGED <<docRow, timer, docsDone>>
    BY <1>3 DEF ModuleReady, PageTypes, rows, ending
  <2>2. QED
    BY <1>1, <1>2, <2>1 DEF DocRowsSound
<1>4. CASE PostAnswered(r)
  <2>1. /\ lane[r] = "answered" /\ lane'[r] = "over" /\ timer' = laneJob[r]
        /\ UNCHANGED <<docRow, docsDone>>
    BY <1>4 DEF PostAnswered, PageTypes, rows, ending
  <2>2. QED
    BY <1>1, <1>2, <2>1 DEF DocRowsSound
<1>5. CASE DocsLaneFails(r)
  <2>1. lane'[r] = "over" /\ timer' = None /\ docsDone'
    BY <1>5 DEF DocsLaneFails, FailDocsLane, MaybeFinish, PageTypes
  <2>2. ASSUME NEW d \in Docs, docRow'[d] # NoRow
        PROVE  docRow[d] # NoRow /\ docRow'[d] = Paint(docRow[d], "error")
    <3>1. docRow[d] \in {NoRow, QueuedRow}
      BY <1>1 DEF DocRowsSound
    <3>2. \/ docRow'[d] = docRow[d] /\ (docRow[d] = NoRow \/ docRow[d].done)
          \/ docRow[d] # NoRow /\ docRow'[d] = Paint(docRow[d], "error")
      BY <1>5, FailedRows DEF DocsLaneFails
    <3>3. ~QueuedRow.done
      BY DEF QueuedRow
    <3>4. QED
      BY <2>2, <3>1, <3>2, <3>3
  <2>3. \A d \in Docs : docRow'[d] # NoRow => docRow'[d].shown \notin Open
    BY <2>2 DEF Paint, Open
  <2>4. \A d \in Docs : docRow'[d] # NoRow => docRow[d] # NoRow
    BY <2>2
  <2>5. QED
    BY <1>1, <1>2, <2>1, <2>3, <2>4 DEF DocRowsSound
<1>6. QED
  BY <1>3, <1>4, <1>5

\* The job that is started is about all of them.
LEMMA DocRowsPosted ==
  ASSUME PageInv, CalmState, DocRowsSound, NEW r \in Runs,
         NEW j \in Jobs,
         PostArrives(r, j), disturbed' = {}
  PROVE  DocRowsSound'
<1> USE DEF PageInv
<1>1. r = run /\ run # 0 /\ ~docsDone /\ timer = None /\ lane[r] = "posting"
  BY DocsAtWork DEF PostArrives
<1>2. /\ lane' = [lane EXCEPT ![r] = "answered"] /\ laneJob' = [laneJob EXCEPT ![r] = j]
      /\ UNCHANGED <<run, docs, docRow, timer, docsDone>>
  BY DEF PostArrives, request, rows, ending
<1>3. lane'[r] = "answered" /\ laneJob'[r] = j
  BY <1>2 DEF PageTypes
<1>4. jobDocs'[j] = docs[r]
  <2>1. PICK s \in Seq(Docs) : jobDocs' = [jobDocs EXCEPT ![j] = s] /\ s = docs[r]
    BY PostEffect
  <2>2. QED
    BY <2>1 DEF TableTypes
<1>5. QED
  BY <1>1, <1>2, <1>3, <1>4 DEF DocRowsSound

\* The answer that ends the polling has a result for each of them.
LEMMA DocRowsDelivered ==
  ASSUME PageInv, CalmState, DocRowsSound, NEW p \in Polls,
         PollDelivered(p)
  PROVE  DocRowsSound'
<1> USE DEF PageInv
<1> DEFINE items == polls[p].items
           src   == jobDocs[timer]
<1>1. /\ timer # None /\ timer = polls[p].job /\ timer \in Jobs
      /\ run # 0 /\ run \in Runs /\ lane[run] = "over" /\ ~docsDone
  BY PollAtWork DEF PollDelivered
<1>2. src = docs[run]
  BY <1>1 DEF DocRowsSound
<1>3. UNCHANGED <<run, docs, lane, laneJob, jobDocs>>
  BY DEF PollDelivered, request, docLane
<1>4. \A d \in Docs :
        \/ /\ docRow'[d] = docRow[d]
           /\ docRow[d] # NoRow => \A i \in DOMAIN items : src[i] = d => items[i] = "queued"
        \/ /\ docRow[d] # NoRow
           /\ \E i \in DOMAIN items : docRow'[d] = Paint(docRow[d], items[i])
  BY <1>1, DeliveredRows
<1>5. items # <<>> /\ Len(items) = Len(src)
  BY <1>1 DEF PollDelivered, PollsSound
<1>6. DOMAIN items = DOMAIN src
  <2>1. items \in Seq(Server!Statuses) /\ src \in Seq(Docs)
    BY <1>1, DeliveredRows DEF PollAnswer, TableTypes
  <2>2. QED
    BY <1>5, <2>1, LenProperties
<1> HIDE DEF items, src
<1>7. \A d \in Docs : docRow'[d] # NoRow =>
        docRow[d] # NoRow /\ \E i \in DOMAIN docs[run] : docs[run][i] = d
  <2>1. \A d \in Docs : docRow'[d] # NoRow => docRow[d] # NoRow
    BY <1>4
  <2>2. QED
    BY <1>1, <2>1 DEF DocRowsSound
<1>8. timer' = timer \/ timer' = None
  BY DEF PollDelivered
<1>9. ASSUME docsDone', NEW d \in Docs, docRow'[d] # NoRow
      PROVE  docRow'[d].shown \notin Open
  <2>1. polls[p].finished
    BY <1>1, <1>9 DEF PollDelivered, ending
  <2>2. \A i \in DOMAIN items : items[i] \notin Open
    BY <2>1, <1>5 DEF PollsSound, PollDelivered, items
  <2>3. PICK k \in DOMAIN items : src[k] = d
    BY <1>2, <1>6, <1>7, <1>9
  <2>4. items[k] # "queued"
    BY <2>2 DEF Open
  <2>5. PICK i \in DOMAIN items : docRow'[d] = Paint(docRow[d], items[i])
    BY <1>4, <1>7, <1>9, <2>3, <2>4
  <2>6. QED
    BY <2>2, <2>5 DEF Paint
<1>10. timer' # None => jobDocs'[timer'] = docs'[run']
  BY <1>2, <1>3, <1>8 DEF src
<1>11. QED
  BY <1>1, <1>3, <1>7, <1>9, <1>10 DEF DocRowsSound

LEMMA DocRowsStep ==
  ASSUME PageInv, CalmState, DocRowsSound, [DialogNext]_dialogVars,
         disturbed' = {}
  PROVE  DocRowsSound'
<1>1. ASSUME NEW ds \in DocLists, NEW n \in 0..MaxImages, Enqueue(ds, n)
      PROVE  DocRowsSound'
  BY <1>1, DocRowsEnqueued
<1>2. CASE Close
  BY <1>2 DEF Close
<1>3. CASE CancelClicked
  BY <1>3, DocRowsUnmoved
     DEF CancelClicked, rows, request, docLane, ending
<1>4. ASSUME NEW r \in Runs,
             ModuleReady(r) \/ PostAnswered(r) \/ DocsLaneFails(r)
      PROVE  DocRowsSound'
  BY <1>4, DocRowsLane
<1>5. ASSUME NEW r \in Runs, NEW j \in Jobs, PostArrives(r, j) PROVE DocRowsSound'
  BY <1>5, DocRowsPosted
<1>6. ASSUME NEW p \in Polls, Tick(p) \/ PollAnswers(p) PROVE DocRowsSound'
  BY <1>6, DocRowsUnmoved DEF Tick, PollAnswers, page, rows, request,
                              docLane, ending
<1>7. ASSUME NEW p \in Polls, PollDelivered(p) PROVE DocRowsSound'
  BY <1>7, DocRowsDelivered
<1>8. ASSUME NEW p \in Polls, PollFails(p) PROVE DocRowsSound'
  BY <1>8 DEF PollFails
<1>9. ASSUME NEW r \in Runs, \/ OcrModuleReady(r) \/ OcrModuleFails(r)
                                  \/ \E o \in {"ok", "skipped", "error"} : OcrAnswered(r, o)
      PROVE  DocRowsSound'
  <2>1. docsDone' = docsDone
    BY <1>9 DEF OcrModuleReady, OcrModuleFails, OcrAnswered, MaybeFinish,
                ending
  <2>2. QED
    BY <1>9, <2>1, DocRowsUnmoved
       DEF OcrModuleReady, OcrModuleFails, OcrAnswered, request, docLane
<1>10. ASSUME NEW j \in Jobs, CancelArrives(j) \/ ServerWorks(j) PROVE DocRowsSound'
  BY <1>10, DocRowsUnmoved
     DEF CancelArrives, ServerWorks, page, rows, request, docLane,
         ending
<1>11. CASE UNCHANGED dialogVars
  BY <1>11, DocRowsUnmoved
     DEF dialogVars, page, rows, request, docLane, ending
<1>12. QED
  BY <1>1, <1>2, <1>3, <1>4, <1>5, <1>6, <1>7, <1>8, <1>9, <1>10, <1>11
     DEF DialogNext, WithoutUser
-----------------------------------------------------------------------------
\* The same of the rows of the images, which the OCR lane paints.
LEMMA ImageRowsUnmoved ==
  ASSUME ImageRowsSound, UNCHANGED <<run, images, imgRow, ocr, image, ocrDone>>
  PROVE  ImageRowsSound'
BY DEF ImageRowsSound

LEMMA ImageRowsEnqueued ==
  ASSUME PageInv,
         NEW ds \in DocLists, NEW n \in 0..MaxImages, Enqueue(ds, n)
  PROVE  ImageRowsSound'
<1> USE DEF PageInv
<1>1. run' = run + 1 /\ run' \in Runs
  BY ResetTyped
<1>2. /\ images' = [images EXCEPT ![run'] = n]
      /\ ocr' = [ocr EXCEPT ![run'] = IF n = 0 THEN "over" ELSE "module"]
  BY <1>1 DEF Enqueue, Reset
<1>3. ocrDone' <=> n = 0
  BY DEF Enqueue, Reset
<1>4. images'[run'] = n /\ ocr'[run'] = IF n = 0 THEN "over" ELSE "module"
  BY <1>1, <1>2 DEF PageTypes
<1>5. n \in Nat
  OBVIOUS
<1>6. ocr'[run'] = "module" => images'[run'] > 0
  BY <1>4, <1>5
<1>7. ocr'[run'] # "image"
  BY <1>4
<1>8. ocrDone' => 1..images'[run'] = {}
  BY <1>3, <1>4
<1>9. QED
  BY <1>6, <1>7, <1>8 DEF ImageRowsSound

LEMMA ImageRowsPainted ==
  ASSUME PageInv, CalmState, ImageRowsSound, NEW r \in Runs,
         \/ OcrModuleReady(r) \/ OcrModuleFails(r)
         \/ \E o \in {"ok", "skipped", "error"} : OcrAnswered(r, o)
  PROVE  ImageRowsSound'
<1> USE DEF PageInv
<1>1. r = run /\ run # 0 /\ ~ocrDone /\ run' = run /\ images' = images
  <2>1. ocr[r] \in {"module", "image"}
    BY DEF OcrModuleReady, OcrModuleFails, OcrAnswered
  <2>2. QED
    BY <2>1, ImagesAtWork
       DEF OcrModuleReady, OcrModuleFails, OcrAnswered, request
<1>2. images[r] \in Nat /\ 1..images[r] \subseteq 1..MaxImages /\ image[r] \in Nat
  <2>1. images[r] \in 0..MaxImages /\ image[r] \in Nat /\ MaxImages \in Nat
    BY DialogAssumption DEF PageTypes
  <2>2. QED
    BY <2>1
<1>3. CASE OcrModuleReady(r)
  <2>1. images[r] > 0
    BY <1>1, <1>3 DEF ImageRowsSound, OcrModuleReady
  <2>2. ocr'[r] = "image" /\ image'[r] = 1 /\ ocrDone' = ocrDone
    BY <1>3 DEF OcrModuleReady, PageTypes, ending
  <2>3. image'[r] \in 1..images[r] /\ 1..(image'[r] - 1) = {}
    BY <1>2, <2>1, <2>2
  <2>4. QED
    BY <1>1, <2>2, <2>3 DEF ImageRowsSound
<1>4. ASSUME ocr'[r] = "over", \A k \in 1..images[r] : imgRow'[r][k].shown \notin Open
      PROVE  ImageRowsSound'
  BY <1>1, <1>4 DEF ImageRowsSound
<1>5. CASE OcrModuleFails(r)
  <2>1. [i \in 1..MaxImages |-> "error"] \in [1..MaxImages -> Kinds]
    BY DEF Kinds
  <2>2. \A k \in 1..images[r] : imgRow'[r][k] = [shown |-> "error", done |-> TRUE]
    <3> DEFINE s == [i \in 1..MaxImages |-> "error"]
               painted == 1..images[r]
    <3>1. OcrPaint(r, painted, s)
      BY <1>5 DEF OcrModuleFails
    <3>2. s \in [1..MaxImages -> Kinds] /\ \A k \in 1..MaxImages : s[k] = "error"
      BY <2>1
    <3> HIDE DEF s, painted
    <3>3. \A k \in 1..MaxImages : k \in painted =>
            imgRow'[r][k] = [shown |-> s[k], done |-> TRUE]
      BY <3>1, <3>2, PaintedImages DEF OcrPaint
    <3>4. painted \subseteq 1..MaxImages
      BY <1>2 DEF painted
    <3>5. QED
      BY <3>2, <3>3, <3>4 DEF painted
  <2>3. ocr'[r] = "over"
    BY <1>5 DEF OcrModuleFails, PageTypes
  <2>4. QED
    BY <1>4, <2>2, <2>3 DEF Open
<1>6. ASSUME NEW o \in {"ok", "skipped", "error"}, OcrAnswered(r, o) PROVE ImageRowsSound'
  <2>0. o \notin Open /\ "canceled" \notin Open
    BY DEF Open
  <2>1. /\ ocr[r] = "image" /\ image[r] \in 1..images[r]
        /\ \A k \in 1..(image[r] - 1) : imgRow[r][k].shown \notin Open
    BY <1>1, <1>6 DEF OcrAnswered, ImageRowsSound
  <2>2. CASE image[r] < images[r] /\ ~ocrCanceled
    <3>1. /\ \A k \in 1..MaxImages : k < image[r] => imgRow'[r][k] = imgRow[r][k]
          /\ imgRow'[r][image[r]].shown = o
      BY <1>6, <2>1, <2>2, NextImage
    <3>2. ocr' = ocr /\ ocrDone' = ocrDone /\ image'[r] = image[r] + 1
      BY <1>6, <2>2 DEF OcrAnswered, PageTypes, ending
    <3>3. image'[r] \in 1..images[r]
      BY <1>2, <2>1, <2>2, <3>2
    <3>4. ASSUME NEW k \in 1..(image'[r] - 1) PROVE imgRow'[r][k].shown \notin Open
      <4>1. CASE k = image[r]
        BY <2>0, <3>1, <4>1
      <4>2. CASE k # image[r]
        <5>1. k \in 1..(image[r] - 1) /\ k \in 1..images[r] /\ k < image[r]
          BY <1>2, <2>1, <3>2, <4>2
        <5>2. QED
          BY <1>2, <2>1, <3>1, <5>1
      <4>3. QED
        BY <4>1, <4>2
    <3>5. QED
      BY <1>1, <2>1, <3>2, <3>3, <3>4 DEF ImageRowsSound
  <2>3. CASE ~(image[r] < images[r] /\ ~ocrCanceled)
    <3> DEFINE s == [k \in 1..MaxImages |-> IF k = image[r] THEN o ELSE "canceled"]
               painted == image[r]..images[r]
    <3>1. s \in [1..MaxImages -> Kinds] /\ \A k \in 1..MaxImages : s[k] \notin Open
      BY <2>0 DEF Kinds
    <3>2. OcrPaint(r, painted, s) /\ ocr'[r] = "over"
      BY <1>6, <2>3 DEF OcrAnswered, PageTypes
    <3> HIDE DEF s, painted
    <3>3. \A k \in 1..MaxImages :
            imgRow'[r][k] = IF k \in painted THEN [shown |-> s[k], done |-> TRUE]
                                         ELSE imgRow[r][k]
      BY <3>1, <3>2, PaintedImages DEF OcrPaint
    <3>4. ASSUME NEW k \in 1..images[r] PROVE imgRow'[r][k].shown \notin Open
      <4>0. k \in 1..MaxImages
        BY <1>2
      <4>1. CASE k \in painted
        <5>1. imgRow'[r][k] = [shown |-> s[k], done |-> TRUE]
          BY <3>3, <4>0, <4>1
        <5>2. QED
          BY <3>1, <4>0, <5>1
      <4>2. CASE k \notin painted
        <5>1. k \in 1..(image[r] - 1)
          BY <1>2, <4>2 DEF painted
        <5>2. QED
          BY <2>1, <3>3, <4>0, <4>2, <5>1
      <4>3. QED
        BY <4>1, <4>2
    <3>5. QED
      BY <1>4, <3>2, <3>4
  <2>4. QED
    BY <2>2, <2>3
<1>7. QED
  BY <1>3, <1>5, <1>6

LEMMA ImageRowsStep ==
  ASSUME PageInv, CalmState, ImageRowsSound, [DialogNext]_dialogVars,
         disturbed' = {}
  PROVE  ImageRowsSound'
<1> USE ImageRowsUnmoved
<1>1. ASSUME NEW ds \in DocLists, NEW n \in 0..MaxImages, Enqueue(ds, n)
      PROVE  ImageRowsSound'
  BY <1>1, ImageRowsEnqueued
<1>2. CASE Close
  BY <1>2 DEF Close
<1>3. CASE CancelClicked
  BY <1>3 DEF CancelClicked, rows, request, ocrLane, ending
<1>4. ASSUME NEW r \in Runs, ModuleReady(r) \/ PostAnswered(r)
      PROVE  ImageRowsSound'
  BY <1>4
     DEF ModuleReady, PostAnswered, rows, request, ocrLane, ending
<1>5. ASSUME NEW r \in Runs, DocsLaneFails(r) PROVE ImageRowsSound'
  <2>1. imgRow' = imgRow /\ ocrDone' = ocrDone
    BY <1>5 DEF DocsLaneFails, FailDocsLane, MaybeFinish
  <2>2. QED
    BY <1>5, <2>1 DEF DocsLaneFails, request, ocrLane
<1>6. ASSUME NEW r \in Runs, NEW j \in Jobs, PostArrives(r, j) PROVE ImageRowsSound'
  BY <1>6 DEF PostArrives, rows, request, ocrLane, ending
<1>7. ASSUME NEW p \in Polls, Tick(p) \/ PollAnswers(p) PROVE ImageRowsSound'
  BY <1>7 DEF Tick, PollAnswers, page, rows, request, ocrLane,
              ending
<1>8. ASSUME NEW p \in Polls, PollDelivered(p) PROVE ImageRowsSound'
  <2>1. ocrDone' = ocrDone
    BY <1>8 DEF PollDelivered, MaybeFinish, ending
  <2>2. QED
    BY <1>8, <2>1 DEF PollDelivered, request, ocrLane
<1>9. ASSUME NEW p \in Polls, PollFails(p) PROVE ImageRowsSound'
  BY <1>9 DEF PollFails
<1>10. ASSUME NEW r \in Runs, \/ OcrModuleReady(r) \/ OcrModuleFails(r)
                                   \/ \E o \in {"ok", "skipped", "error"} : OcrAnswered(r, o)
       PROVE  ImageRowsSound'
  BY <1>10, ImageRowsPainted
<1>11. ASSUME NEW j \in Jobs, CancelArrives(j) \/ ServerWorks(j) PROVE ImageRowsSound'
  BY <1>11 DEF CancelArrives, ServerWorks, page, rows, request,
               ocrLane, ending
<1>12. CASE UNCHANGED dialogVars
  BY <1>12 DEF dialogVars, page, rows, request, ocrLane, ending
<1>13. QED
  BY <1>1, <1>2, <1>3, <1>4, <1>5, <1>6, <1>7, <1>8, <1>9, <1>10, <1>11, <1>12
     DEF DialogNext, WithoutUser
-----------------------------------------------------------------------------
\* A page that was just opened.
LEMMA DialogBegins ==
  ASSUME DialogInit
  PROVE  PageInv /\ CancelReachesJob /\ CalmState /\ DocRowsSound /\ ImageRowsSound
<1> USE DEF DialogInit
<1>1. TableTypes /\ TableSound
  <2>1. <<>> \in Seq(Server!Statuses) /\ <<>> \in Seq(Docs)
    BY EmptySeq
  <2>2. \A j \in Jobs : status[j] = <<>> /\ jobDocs[j] = <<>> /\ finished[j] = FALSE
    BY DEF Server!Init
  <2>3. TableTypes
    BY <2>1 DEF TableTypes, Server!Init
  <2>4. TableSound
    BY <2>2 DEF TableSound
  <2>5. QED
    BY <2>3, <2>4
<1>2. PageTypes
  <2>1. <<>> \in Seq(Docs)
    BY EmptySeq
  <2>2. /\ run \in 0..MaxRuns /\ images \in [Runs -> 0..MaxImages]
        /\ docs \in [Runs -> Seq(Docs)]
    BY <2>1, DialogAssumption
  <2>3. /\ lane \in [Runs -> LaneStates] /\ laneJob \in [Runs -> Jobs \union {None}]
        /\ ocr \in [Runs -> OcrStates] /\ image \in [Runs -> Nat]
    BY DEF LaneStates, OcrStates
  <2>4. {cancelRequested, ocrCanceled, docsDone, ocrDone, batchFinished, batchActive}
          \subseteq BOOLEAN
    OBVIOUS
  <2>5. QED
    BY <2>2, <2>3, <2>4 DEF PageTypes
<1>3. PollTypes /\ PollsSound
  BY DEF PollTypes, PollsSound
<1>4. RowTypes
  BY DEF RowTypes, Row, RowStates, NoRow
<1>5. CancelReachesJob
  BY DEF CancelReachesJob
<1>6. CalmState
  <2>1. \A j \in Jobs : ~Unfinished(j)
    BY DEF Server!Init, Unfinished, Server!Exists
  <2>2. LanesOver /\ EndingSound /\ PollsOfRun
    BY DEF LanesOver, EndingSound, PollsOfRun
  <2>3. QED
    BY <2>1, <2>2 DEF CalmState, JobOfRun
<1>7. DocRowsSound /\ ImageRowsSound
  BY DEF DocRowsSound, ImageRowsSound
<1>8. QED
  BY <1>1, <1>2, <1>3, <1>4, <1>5, <1>6, <1>7 DEF PageInv

\* What is kept whatever happens, and what is kept as long as little got in the way.
DialogInv == PageInv /\ CancelReachesJob /\ CalmInv /\ RowsInv

LEMMA DialogStep ==
  ASSUME DialogInv, [DialogNext]_dialogVars
  PROVE  DialogInv'
<1> USE DEF DialogInv
<1>1. PageInv'
  BY TableStep, PageTypesStep, PollTypesStep, RowTypesStep DEF PageInv
<1>2. CancelReachesJob'
  BY CancelStep
<1>3. CalmInv'
  BY CalmStep
<1>4. ASSUME disturbed' = {} PROVE DocRowsSound' /\ ImageRowsSound'
  <2>1. disturbed = {}
    BY <1>4, NotForgotten
  <2>2. CalmState /\ DocRowsSound /\ ImageRowsSound
    BY <2>1 DEF Calm, CalmInv, RowsInv
  <2>3. QED
    BY <1>4, <2>2, DocRowsStep, ImageRowsStep
<1>5. RowsInv'
  BY <1>4 DEF RowsInv
<1>6. QED
  BY <1>1, <1>2, <1>3, <1>5

LEMMA DialogInvariance == DialogSpec => []DialogInv
<1>1. DialogInit => DialogInv
  BY DialogBegins DEF DialogInv, CalmInv, RowsInv
<1>2. DialogInv /\ [DialogNext]_dialogVars => DialogInv'
  BY DialogStep
<1>3. QED
  BY <1>1, <1>2, PTL DEF DialogSpec

\* A cancel reaches the job of the workbench, clicked before the answer to the start or
\* after it (sendBatchCancel, runBatchDocsLane).
THEOREM CancelReaches == DialogSpec => []CancelReachesJob
<1>1. DialogInv => CancelReachesJob
  BY DEF DialogInv
<1>2. QED
  BY <1>1, DialogInvariance, PTL

\* As long as the workbench is left alone and every request is answered before the next
\* is sent, at most one job of it is worked on (isBatchRunning is the lock).
THEOREM OneJob == DialogSpec => []OneJobAtATimeUndisturbed
<1>1. DialogInv => OneJobAtATimeUndisturbed
  BY DEF DialogInv, CalmInv, Calm, CalmState, JobOfRun, OneJobAtATimeUndisturbed,
         OneJobAtATime
<1>2. QED
  BY <1>1, DialogInvariance, PTL

LEMMA RowsShown ==
  ASSUME DialogInv
  PROVE  FinishedRowsAreDoneUndisturbed
<1> SUFFICES ASSUME disturbed = {}, batchFinished
             PROVE  ShownDocs(Open) = {} /\ ShownImages(Open) = {}
  BY DEF FinishedRowsAreDoneUndisturbed, FinishedRowsAreDone, Open
<1>1. CalmState /\ DocRowsSound /\ ImageRowsSound
  BY DEF DialogInv, CalmInv, RowsInv, Calm
<1>2. run # 0 /\ docsDone /\ ocrDone
  BY <1>1 DEF CalmState, EndingSound
<1>3. ShownDocs(Open) = {}
  BY <1>1, <1>2 DEF DocRowsSound, ShownDocs
<1>4. ShownImages(Open) = {}
  BY <1>1, <1>2 DEF ImageRowsSound, ShownImages
<1>5. QED
  BY <1>3, <1>4

\* As long as nothing got in the way, a batch that maybeFinishBatch ends has a result in
\* the row of each of its documents and images.
THEOREM RowsDone == DialogSpec => []FinishedRowsAreDoneUndisturbed
<1>1. DialogInv => FinishedRowsAreDoneUndisturbed
  BY RowsShown
<1>2. QED
  BY <1>1, DialogInvariance, PTL

\* The workbench asks of the server only what a job's life allows: a job is started once,
\* with at least one document.
LEMMA ServerStep ==
  ASSUME [DialogNext]_dialogVars
  PROVE  [Server!Next]_(Server!vars)
<1>1. ASSUME NEW r \in Runs, NEW j \in Jobs, PostArrives(r, j) PROVE Server!Next
  <2>1. PICK s \in DocLists : s # <<>> /\ Server!Start(j, Len(s))
    BY <1>1 DEF PostArrives, Sublists
  <2>2. PICK n \in 0..MaxItems : s \in [1..n -> Docs]
    BY DEF DocLists
  <2>3. n \in Nat
    OBVIOUS
  <2>4. s \in Seq(Docs) /\ Len(s) = n
    BY <2>2, <2>3, FunctionIsSeq
  <2>5. Len(s) \in 1..MaxItems
    BY <2>1, <2>4, EmptySeq, DialogAssumption
  <2>6. QED
    BY <2>1, <2>5 DEF Server!Next
<1>2. ASSUME NEW j \in Jobs, CancelArrives(j) \/ ServerWorks(j) PROVE Server!Next
  BY <1>2 DEF CancelArrives, ServerWorks, Server!Next
<1>3. CASE UNCHANGED <<status, cancel, finished, jobDocs>>
  BY <1>3 DEF Server!vars
<1>4. QED
  BY <1>1, <1>2, <1>3, TableCases

THEOREM DialogRefinesProgress == DialogSpec => Server!Spec
<1>1. DialogInit => Server!Init
  BY DEF DialogInit
<1>2. [DialogNext]_dialogVars => [Server!Next]_(Server!vars)
  BY ServerStep
<1>3. QED
  BY <1>1, <1>2, PTL DEF DialogSpec, Server!Spec
-----------------------------------------------------------------------------
\* The rest of the type invariant: lists are selections, jobs and images are those of
\* their run, and so are the rows, of which there are finitely many to count.
ListsKept == docs \in [Runs -> DocLists] /\ jobDocs \in [Jobs -> DocLists]

JobsNamed ==
  /\ posted \subseteq Jobs /\ timer \in {None, jobId}
  /\ \A r \in Runs : lane[r] = "answered" => laneJob[r] \in Jobs

ImagesInTurn ==
  \A r \in Runs :
    /\ image[r] <= images[r]
    /\ ocr[r] = "module" => images[r] > 0
    /\ r > run => image[r] = 0 /\ ocr[r] = "none"

RowsOfRun ==
  \A d \in Docs : docRow[d] # NoRow =>
    run # 0 /\ \E i \in DOMAIN docs[run] : docs[run][i] = d

Counted == count \in [Kinds -> Nat]

Interference == disturbed \subseteq {"interrupted", "lost", "vanished", "overtaken"}

Books == ListsKept /\ JobsNamed /\ ImagesInTurn /\ RowsOfRun /\ Counted /\ Interference

\* Only a new run has a new selection.
LEMMA SelectionCases ==
  ASSUME [DialogNext]_dialogVars
  PROVE  \/ \E ds \in DocLists, n \in 0..MaxImages : Enqueue(ds, n)
         \/ UNCHANGED request
<1>1. CASE Close \/ CancelClicked
  BY <1>1 DEF Close, CancelClicked
<1>2. ASSUME NEW r \in Runs,
             \/ ModuleReady(r) \/ DocsLaneFails(r) \/ PostAnswered(r)
             \/ \E j \in Jobs : PostArrives(r, j)
      PROVE  UNCHANGED request
  BY <1>2 DEF ModuleReady, DocsLaneFails, PostAnswered, PostArrives
<1>3. ASSUME NEW r \in Runs, \/ OcrModuleReady(r) \/ OcrModuleFails(r)
                                  \/ \E o \in {"ok", "skipped", "error"} : OcrAnswered(r, o)
      PROVE  UNCHANGED request
  BY <1>3 DEF OcrModuleReady, OcrModuleFails, OcrAnswered
<1>4. ASSUME NEW p \in Polls,
             Tick(p) \/ PollAnswers(p) \/ PollDelivered(p) \/ PollFails(p)
      PROVE  UNCHANGED request
  BY <1>4 DEF Tick, PollAnswers, PollDelivered, PollFails, page
<1>5. ASSUME NEW j \in Jobs, CancelArrives(j) \/ ServerWorks(j)
      PROVE  UNCHANGED request
  BY <1>5 DEF CancelArrives, ServerWorks, page
<1>6. CASE UNCHANGED dialogVars
  BY <1>6 DEF dialogVars, page
<1>7. QED
  BY <1>1, <1>2, <1>3, <1>4, <1>5, <1>6 DEF DialogNext, WithoutUser

LEMMA ListsStep ==
  ASSUME PageInv, ListsKept, [DialogNext]_dialogVars PROVE ListsKept'
<1>1. docs' \in [Runs -> DocLists]
  <2>1. ASSUME NEW ds \in DocLists, NEW n \in 0..MaxImages, Enqueue(ds, n)
        PROVE  docs' \in [Runs -> DocLists]
    BY <2>1 DEF Enqueue, Reset, ListsKept
  <2>2. QED
    BY <2>1, SelectionCases DEF ListsKept, request
<1>2. jobDocs' \in [Jobs -> DocLists]
  <2>1. ASSUME NEW r \in Runs, NEW j \in Jobs, PostArrives(r, j)
        PROVE  jobDocs' \in [Jobs -> DocLists]
    BY <2>1 DEF PostArrives, Sublists, ListsKept
  <2>2. ASSUME NEW j \in Jobs, CancelArrives(j) \/ ServerWorks(j)
        PROVE  jobDocs' = jobDocs
    BY <2>2 DEF CancelArrives, ServerWorks
  <2>3. QED
    BY <2>1, <2>2, TableCases DEF ListsKept
<1>3. QED
  BY <1>1, <1>2 DEF ListsKept

LEMMA NamedStep ==
  ASSUME PageInv, JobsNamed, [DialogNext]_dialogVars
  PROVE  JobsNamed'
<1> USE DEF PageInv, JobsNamed
<1>1. ASSUME NEW ds \in DocLists, NEW n \in 0..MaxImages, Enqueue(ds, n)
      PROVE  JobsNamed'
  <2>1. /\ posted' = posted /\ timer' = None /\ laneJob' = laneJob
        /\ lane' = [lane EXCEPT ![run + 1] = IF ds = <<>> THEN "over" ELSE "module"]
    BY <1>1 DEF Enqueue, Reset
  <2>2. \A r \in Runs : lane'[r] = "answered" => lane[r] = "answered"
    BY <2>1 DEF PageTypes
  <2>3. QED
    BY <2>1, <2>2
<1>2. CASE Close \/ CancelClicked
  BY <1>2 DEF Close, CancelClicked, docLane, PageTypes
<1>3. ASSUME NEW r \in Runs, ModuleReady(r) \/ DocsLaneFails(r) PROVE JobsNamed'
  <2>1. /\ \E l \in {"posting", "over"} : lane' = [lane EXCEPT ![r] = l]
        /\ laneJob' = laneJob /\ posted' = posted /\ jobId' = jobId /\ timer' \in {None, timer}
    BY <1>3 DEF ModuleReady, DocsLaneFails, FailDocsLane
  <2>2. \A q \in Runs : lane'[q] = "answered" => lane[q] = "answered"
    BY <2>1 DEF PageTypes
  <2>3. QED
    BY <2>1, <2>2
<1>4. ASSUME NEW r \in Runs, NEW j \in Jobs, PostArrives(r, j) PROVE JobsNamed'
  <2>1. /\ lane' = [lane EXCEPT ![r] = "answered"] /\ laneJob' = [laneJob EXCEPT ![r] = j]
        /\ UNCHANGED <<posted, jobId, timer>>
    BY <1>4 DEF PostArrives
  <2>2. QED
    BY <2>1 DEF PageTypes
<1>5. ASSUME NEW r \in Runs, PostAnswered(r) PROVE JobsNamed'
  <2>1. /\ laneJob[r] \in Jobs /\ laneJob' = laneJob
        /\ jobId' = laneJob[r] /\ timer' = laneJob[r]
        /\ posted' \in {posted, posted \union {laneJob[r]}}
        /\ lane' = [lane EXCEPT ![r] = "over"]
    BY <1>5 DEF PostAnswered
  <2>2. \A q \in Runs : lane'[q] = "answered" => lane[q] = "answered"
    BY <2>1 DEF PageTypes
  <2>3. QED
    BY <2>1, <2>2
<1>6. ASSUME NEW r \in Runs, \/ OcrModuleReady(r) \/ OcrModuleFails(r)
                                  \/ \E o \in {"ok", "skipped", "error"} : OcrAnswered(r, o)
      PROVE  JobsNamed'
  BY <1>6 DEF OcrModuleReady, OcrModuleFails, OcrAnswered, docLane
<1>7. ASSUME NEW p \in Polls,
             Tick(p) \/ PollAnswers(p) \/ PollDelivered(p) \/ PollFails(p)
      PROVE  JobsNamed'
  <2>1. UNCHANGED <<posted, lane, laneJob, jobId>> /\ timer' \in {None, timer}
    BY <1>7 DEF Tick, PollAnswers, PollDelivered, PollFails,
                FailDocsLane, page, docLane
  <2>2. QED
    BY <2>1
<1>8. ASSUME NEW j \in Jobs, CancelArrives(j) \/ ServerWorks(j) PROVE JobsNamed'
  BY <1>8 DEF CancelArrives, ServerWorks, page, docLane
<1>9. CASE UNCHANGED dialogVars
  BY <1>9 DEF dialogVars, page, docLane
<1>10. QED
  BY <1>1, <1>2, <1>3, <1>4, <1>5, <1>6, <1>7, <1>8, <1>9 DEF DialogNext, WithoutUser

LEMMA ImagesStep ==
  ASSUME PageInv, ImagesInTurn,
         [DialogNext]_dialogVars PROVE ImagesInTurn'
<1> USE DEF PageInv
<1>1. ASSUME UNCHANGED <<request, ocrLane>> PROVE ImagesInTurn'
  BY <1>1 DEF ImagesInTurn, request, ocrLane
<1>2. ASSUME NEW ds \in DocLists, NEW n \in 0..MaxImages, Enqueue(ds, n)
      PROVE  ImagesInTurn'
  <2>1. run' = run + 1 /\ run' \in Runs /\ run \in Nat /\ run' > run
    BY <1>2, ResetTyped, DialogAssumption DEF PageTypes
  <2>2. /\ images' = [images EXCEPT ![run'] = n] /\ image' = image
        /\ ocr' = [ocr EXCEPT ![run'] = IF n = 0 THEN "over" ELSE "module"]
    BY <1>2, <2>1 DEF Enqueue, Reset
  <2>3. ASSUME NEW r \in Runs
        PROVE  /\ image'[r] <= images'[r]
               /\ ocr'[r] = "module" => images'[r] > 0
               /\ r > run' => image'[r] = 0 /\ ocr'[r] = "none"
    <3>1. CASE r = run'
      <4>1. images'[r] = n /\ image'[r] = 0 /\ ocr'[r] = IF n = 0 THEN "over" ELSE "module"
        BY <2>1, <2>2, <3>1 DEF PageTypes, ImagesInTurn
      <4>2. n \in Nat
        OBVIOUS
      <4>3. QED
        BY <2>1, <3>1, <4>1, <4>2
    <3>2. CASE r # run'
      <4>1. images'[r] = images[r] /\ image'[r] = image[r] /\ ocr'[r] = ocr[r]
        BY <2>2, <3>2 DEF PageTypes
      <4>2. r > run' => r > run
        BY <2>1, DialogAssumption DEF Runs
      <4>3. QED
        BY <4>1, <4>2 DEF ImagesInTurn
    <3>3. QED
      BY <3>1, <3>2
  <2>4. QED
    BY <2>3 DEF ImagesInTurn
<1>3. ASSUME NEW r \in Runs, request' = request,
             ocr[r] # "none", ocr' \in [Runs -> OcrStates], image' \in [Runs -> Nat],
             \A q \in Runs \ {r} : ocr'[q] = ocr[q] /\ image'[q] = image[q],
             image'[r] <= images[r], ocr'[r] = "module" => images[r] > 0
      PROVE  ImagesInTurn'
  <2>1. run' = run /\ images' = images
    BY <1>3 DEF request
  <2>2. r <= run
    BY <1>3, DialogAssumption DEF ImagesInTurn, PageTypes, Runs
  <2>3. ~(r > run)
    BY <2>2, DialogAssumption DEF PageTypes, Runs
  <2>4. QED
    BY <1>3, <2>1, <2>3 DEF ImagesInTurn
<1>4. ASSUME NEW r \in Runs, OcrModuleReady(r) \/ OcrModuleFails(r)
      PROVE  ImagesInTurn'
  <2>1. images[r] \in Nat /\ image[r] \in Nat
    BY DialogAssumption DEF PageTypes
  <2>2. \/ ocr' = [ocr EXCEPT ![r] = "image"] /\ image' = [image EXCEPT ![r] = 1]
        \/ ocr' = [ocr EXCEPT ![r] = "over"] /\ image' = image
    BY <1>4 DEF OcrModuleReady, OcrModuleFails
  <2>3. ocr[r] = "module" /\ request' = request
    BY <1>4 DEF OcrModuleReady, OcrModuleFails
  <2>4. images[r] > 0 /\ image[r] <= images[r]
    BY <2>3 DEF ImagesInTurn
  <2>5. /\ image'[r] \in {1, image[r]} /\ ocr'[r] # "module"
        /\ \A q \in Runs \ {r} : ocr'[q] = ocr[q] /\ image'[q] = image[q]
        /\ ocr' \in [Runs -> OcrStates] /\ image' \in [Runs -> Nat]
    <3>1. ocr \in [Runs -> OcrStates] /\ image \in [Runs -> Nat]
      BY DEF PageTypes
    <3>2. CASE ocr' = [ocr EXCEPT ![r] = "image"] /\ image' = [image EXCEPT ![r] = 1]
      BY <3>1, <3>2 DEF OcrStates
    <3>3. CASE ocr' = [ocr EXCEPT ![r] = "over"] /\ image' = image
      BY <3>1, <3>3 DEF OcrStates
    <3>4. QED
      BY <2>2, <3>2, <3>3
  <2>6. image'[r] <= images[r]
    BY <2>1, <2>4, <2>5
  <2>7. QED
    BY <1>3, <2>3, <2>5, <2>6
<1>5. ASSUME NEW r \in Runs, NEW o, OcrAnswered(r, o) PROVE ImagesInTurn'
  <2>1. images[r] \in Nat /\ image[r] \in Nat /\ image[r] <= images[r]
    BY DialogAssumption DEF PageTypes, ImagesInTurn
  <2>2. \/ ocr' = ocr /\ image' = [image EXCEPT ![r] = image[r] + 1] /\ image[r] < images[r]
        \/ ocr' = [ocr EXCEPT ![r] = "over"] /\ image' = image
    BY <1>5 DEF OcrAnswered
  <2>3. ocr[r] = "image" /\ request' = request
    BY <1>5 DEF OcrAnswered
  <2>4. /\ ocr'[r] # "module"
        /\ image'[r] = image[r] \/ (image'[r] = image[r] + 1 /\ image[r] < images[r])
        /\ \A q \in Runs \ {r} : ocr'[q] = ocr[q] /\ image'[q] = image[q]
        /\ ocr' \in [Runs -> OcrStates] /\ image' \in [Runs -> Nat]
    <3>1. /\ ocr \in [Runs -> OcrStates] /\ image \in [Runs -> Nat]
          /\ image[r] + 1 \in Nat
      BY <2>1 DEF PageTypes
    <3>2. CASE ocr' = ocr /\ image' = [image EXCEPT ![r] = image[r] + 1] /\ image[r] < images[r]
      BY <2>3, <3>1, <3>2
    <3>3. CASE ocr' = [ocr EXCEPT ![r] = "over"] /\ image' = image
      BY <3>1, <3>3 DEF OcrStates
    <3>4. QED
      BY <2>2, <3>2, <3>3
  <2>5. image'[r] <= images[r]
    BY <2>1, <2>4
  <2>6. QED
    BY <1>3, <2>3, <2>4, <2>5
<1>6. CASE Close \/ CancelClicked
  BY <1>1, <1>6 DEF Close, CancelClicked
<1>7. ASSUME NEW r \in Runs,
             \/ ModuleReady(r) \/ DocsLaneFails(r) \/ PostAnswered(r)
             \/ \E j \in Jobs : PostArrives(r, j)
      PROVE  ImagesInTurn'
  BY <1>1, <1>7 DEF ModuleReady, DocsLaneFails, PostAnswered, PostArrives
<1>8. ASSUME NEW p \in Polls,
             Tick(p) \/ PollAnswers(p) \/ PollDelivered(p) \/ PollFails(p)
      PROVE  ImagesInTurn'
  BY <1>1, <1>8 DEF Tick, PollAnswers, PollDelivered, PollFails, page
<1>9. ASSUME NEW j \in Jobs, CancelArrives(j) \/ ServerWorks(j) PROVE ImagesInTurn'
  BY <1>1, <1>9 DEF CancelArrives, ServerWorks, page
<1>10. CASE UNCHANGED dialogVars
  BY <1>1, <1>10 DEF dialogVars, page
<1>11. QED
  BY <1>2, <1>4, <1>5, <1>6, <1>7, <1>8, <1>9, <1>10 DEF DialogNext, WithoutUser

LEMMA RowsOfRunStep ==
  ASSUME PageInv, RowsOfRun, [DialogNext]_dialogVars PROVE RowsOfRun'
<1> USE DEF PageInv
<1>1. ASSUME request' = request,
             \A d \in Docs : docRow'[d] # NoRow => docRow[d] # NoRow
      PROVE  RowsOfRun'
  BY <1>1 DEF RowsOfRun, request
<1>2. ASSUME NEW ds \in DocLists, NEW n \in 0..MaxImages, Enqueue(ds, n)
      PROVE  RowsOfRun'
  <2>1. run' = run + 1 /\ run' \in Runs
    BY <1>2, ResetTyped
  <2>2. docs' = [docs EXCEPT ![run'] = ds]
    BY <1>2, <2>1 DEF Enqueue, Reset
  <2>3. docs'[run'] = ds /\ run' # 0
    BY <2>1, <2>2 DEF PageTypes, Runs
  <2>4. docRow' = [d \in Docs |->
                     IF \E i \in DOMAIN ds : ds[i] = d THEN QueuedRow ELSE NoRow]
    BY <1>2 DEF Enqueue, Reset
  <2>5. \A d \in Docs : docRow'[d] # NoRow => \E i \in DOMAIN ds : ds[i] = d
    BY <2>4
  <2>6. QED
    BY <2>3, <2>5 DEF RowsOfRun
<1>3. CASE Close \/ CancelClicked
  BY <1>1, <1>3 DEF Close, CancelClicked, rows
<1>4. ASSUME NEW r \in Runs, \/ ModuleReady(r) \/ PostAnswered(r)
                                  \/ \E j \in Jobs : PostArrives(r, j)
      PROVE  RowsOfRun'
  BY <1>1, <1>4 DEF ModuleReady, PostAnswered, PostArrives, rows
<1>5. ASSUME NEW r \in Runs, DocsLaneFails(r) PROVE RowsOfRun'
  <2>1. \A d \in Docs : docRow'[d] # NoRow => docRow[d] # NoRow
    BY <1>5, FailedRows DEF DocsLaneFails
  <2>2. QED
    BY <1>1, <1>5, <2>1 DEF DocsLaneFails
<1>6. ASSUME NEW p \in Polls, Tick(p) \/ PollAnswers(p) PROVE RowsOfRun'
  BY <1>1, <1>6 DEF Tick, PollAnswers, page, rows
<1>7. ASSUME NEW p \in Polls, PollDelivered(p) PROVE RowsOfRun'
  <2>1. \A d \in Docs : docRow'[d] # NoRow => docRow[d] # NoRow
    BY <1>7, DeliveredRows
  <2>2. QED
    BY <1>1, <1>7, <2>1 DEF PollDelivered
<1>8. ASSUME NEW p \in Polls, PollFails(p) PROVE RowsOfRun'
  <2>1. \A d \in Docs : docRow'[d] # NoRow => docRow[d] # NoRow
    BY <1>8, FailedRows DEF PollFails
  <2>2. QED
    BY <1>1, <1>8, <2>1 DEF PollFails
<1>9. ASSUME NEW r \in Runs, \/ OcrModuleReady(r) \/ OcrModuleFails(r)
                                  \/ \E o \in {"ok", "skipped", "error"} : OcrAnswered(r, o)
      PROVE  RowsOfRun'
  BY <1>1, <1>9 DEF OcrModuleReady, OcrModuleFails, OcrAnswered
<1>10. ASSUME NEW j \in Jobs, CancelArrives(j) \/ ServerWorks(j) PROVE RowsOfRun'
  BY <1>1, <1>10 DEF CancelArrives, ServerWorks, rows, page
<1>11. CASE UNCHANGED dialogVars
  BY <1>1, <1>11 DEF dialogVars, rows, page
<1>12. QED
  BY <1>2, <1>3, <1>4, <1>5, <1>6, <1>7, <1>8, <1>9, <1>10, <1>11 DEF DialogNext, WithoutUser
-----------------------------------------------------------------------------
\* What can be counted: as many rows as documents of a list, items or images.
LEMMA Countable ==
  ASSUME NEW S, IsFiniteSet(S), NEW T \in SUBSET S
  PROVE  Cardinality(T) \in Nat
<1>1. Cardinality(T) = Cardinality(T)
  BY DEF Cardinality, Cardinality
<1>2. Cardinality(T) \in Nat
  BY FS_Subset, FS_CardinalityType
<1>3. QED
  BY <1>1, <1>2

LEMMA ListIsFinite ==
  ASSUME NEW S, NEW s \in Seq(S), NEW T, \A d \in T : \E i \in DOMAIN s : s[i] = d
  PROVE  IsFiniteSet(T)
<1> DEFINE R == {s[i] : i \in DOMAIN s}
<1>1. DOMAIN s = 1..Len(s) /\ Len(s) \in Nat /\ s \in [1..Len(s) -> R]
  BY LenProperties
<1>2. s \in Seq(R)
  BY <1>1
<1>3. \A d \in R : \E i \in 1..Len(s) : s[i] = d
  BY <1>1
<1> HIDE DEF R
<1>4. IsFiniteSet(R)
  BY <1>2, <1>3 DEF IsFiniteSet
<1>5. T \subseteq R
  BY DEF R
<1>6. QED
  BY <1>4, <1>5, FS_Subset

LEMMA CountGrows ==
  ASSUME Counted, NEW f \in [Kinds -> Nat], count' = [k \in Kinds |-> count[k] + f[k]]
  PROVE  Counted'
<1>1. \A k \in Kinds : count[k] + f[k] \in Nat
  BY DEF Counted
<1>2. QED
  BY <1>1 DEF Counted

\* The rows a failing lane closes,
LEMMA FailureCounts ==
  ASSUME PageInv, RowsOfRun, Counted, FailDocsLane
  PROVE  Counted'
<1> DEFINE open == {d \in Docs : docRow[d] # NoRow /\ ~docRow[d].done}
<1>1. Cardinality(open) \in Nat
  <2>1. IsFiniteSet(open)
    <3>1. CASE run = 0
      <4>1. open = {}
        BY <3>1 DEF RowsOfRun
      <4>2. QED
        BY <4>1, FS_EmptySet
    <3>2. CASE run # 0
      <4>1. run \in Runs
        BY <3>2, DialogAssumption DEF PageInv, PageTypes, Runs
      <4>2. docs[run] \in Seq(Docs)
        BY <4>1 DEF PageInv, PageTypes
      <4>3. \A d \in open : \E i \in DOMAIN docs[run] : docs[run][i] = d
        BY DEF RowsOfRun
      <4> HIDE DEF open
      <4>4. QED
        BY <4>2, <4>3, ListIsFinite
    <3>3. QED
      BY <3>1, <3>2
  <2>2. QED
    BY <2>1, Countable
<1>2. count' = [count EXCEPT !["error"] = @ + Cardinality(open)]
  BY DEF FailDocsLane
<1> HIDE DEF open
<1>3. count["error"] + Cardinality(open) \in Nat
  BY <1>1 DEF Counted, Kinds
<1>4. QED
  BY <1>2, <1>3 DEF Counted

\* those an answer closes,
LEMMA DeliveryCounts ==
  ASSUME PageInv, Counted, NEW p \in Polls, PollDelivered(p) PROVE Counted'
<1> DEFINE items == polls[p].items
           src   == jobDocs[polls[p].job]
           painted == {i \in DOMAIN items : items[i] # "queued" /\ docRow[src[i]] # NoRow}
           closed(k) == {i \in painted : ~docRow[src[i]].done /\ items[i] = k}
           f == [k \in Kinds |-> Cardinality(closed(k))]
<1>1. count' = [k \in Kinds |-> count[k] + Cardinality(closed(k))]
  BY DEF PollDelivered
<1>2. IsFiniteSet(DOMAIN items)
  <2>1. polls[p] \in PollAnswer
    BY DEF PollDelivered, PageInv, PollTypes
  <2>2. items \in Seq(Server!Statuses)
    BY <2>1 DEF PollAnswer
  <2>3. DOMAIN items = 1..Len(items) /\ Len(items) \in Int
    BY <2>2, LenProperties
  <2>4. QED
    BY <2>3, FS_Interval
<1>3. ASSUME NEW k \in Kinds PROVE Cardinality(closed(k)) \in Nat
  <2>1. closed(k) \in SUBSET (DOMAIN items)
    OBVIOUS
  <2> HIDE DEF closed, items
  <2>2. QED
    BY <1>2, <2>1, Countable
<1> HIDE DEF closed
<1>4. f \in [Kinds -> Nat] /\ count' = [k \in Kinds |-> count[k] + f[k]]
  BY <1>1, <1>3
<1> HIDE DEF f
<1>5. QED
  BY <1>4, CountGrows

\* and those of the images.
LEMMA PaintCounts ==
  ASSUME Counted, NEW r \in Runs, NEW painted, IsFiniteSet(painted), NEW s,
         OcrPaint(r, painted, s)
  PROVE  Counted'
<1> DEFINE closed(k) == {i \in painted : ~imgRow[r][i].done /\ s[i] = k}
           f == [k \in Kinds |-> Cardinality(closed(k))]
<1>1. count' = [k \in Kinds |-> count[k] + Cardinality(closed(k))]
  BY DEF OcrPaint
<1>2. ASSUME NEW k \in Kinds PROVE Cardinality(closed(k)) \in Nat
  <2>1. closed(k) \in SUBSET painted
    OBVIOUS
  <2> HIDE DEF closed
  <2>2. QED
    BY <2>1, Countable
<1> HIDE DEF closed
<1>3. f \in [Kinds -> Nat] /\ count' = [k \in Kinds |-> count[k] + f[k]]
  BY <1>1, <1>2
<1> HIDE DEF f
<1>4. QED
  BY <1>3, CountGrows

LEMMA CountedStep ==
  ASSUME PageInv, RowsOfRun, Counted,
         [DialogNext]_dialogVars PROVE Counted'
<1>1. CASE count' = count
  BY <1>1 DEF Counted
<1>2. ASSUME NEW ds \in DocLists, NEW n \in 0..MaxImages, Enqueue(ds, n) PROVE Counted'
  BY <1>2 DEF Enqueue, Reset, Counted
<1>3. CASE Close \/ CancelClicked
  BY <1>1, <1>3 DEF Close, CancelClicked, rows
<1>4. ASSUME NEW r \in Runs, \/ ModuleReady(r) \/ PostAnswered(r)
                                  \/ \E j \in Jobs : PostArrives(r, j)
      PROVE  Counted'
  BY <1>1, <1>4 DEF ModuleReady, PostAnswered, PostArrives, rows
<1>5. ASSUME NEW r \in Runs, DocsLaneFails(r) PROVE Counted'
  BY <1>5, FailureCounts DEF DocsLaneFails
<1>6. ASSUME NEW p \in Polls, Tick(p) \/ PollAnswers(p) PROVE Counted'
  BY <1>1, <1>6 DEF Tick, PollAnswers, rows
<1>7. ASSUME NEW p \in Polls, PollDelivered(p) PROVE Counted'
  BY <1>7, DeliveryCounts
<1>8. ASSUME NEW p \in Polls, PollFails(p) PROVE Counted'
  BY <1>8, FailureCounts DEF PollFails
<1>9. ASSUME NEW r \in Runs PROVE \A i \in Nat : IsFiniteSet(i..images[r])
  <2>1. images[r] \in Int
    BY DialogAssumption DEF PageInv, PageTypes
  <2>2. QED
    BY <2>1, FS_Interval
<1>10. ASSUME NEW r \in Runs, OcrModuleReady(r) PROVE Counted'
  BY <1>1, <1>10 DEF OcrModuleReady
<1>11. ASSUME NEW r \in Runs, OcrModuleFails(r) PROVE Counted'
  <2> DEFINE painted == 1..images[r]
             s == [i \in 1..MaxImages |-> "error"]
  <2>1. OcrPaint(r, painted, s)
    BY <1>11 DEF OcrModuleFails
  <2>2. IsFiniteSet(painted)
    BY <1>9
  <2> HIDE DEF painted, s
  <2>3. QED
    BY <2>1, <2>2, PaintCounts
<1>12. ASSUME NEW r \in Runs, NEW o \in {"ok", "skipped", "error"}, OcrAnswered(r, o)
       PROVE  Counted'
  <2>1. CASE image[r] < images[r] /\ ~ocrCanceled
    <3> DEFINE new == IF imgRow[r][image[r]].done THEN count[o] ELSE count[o] + 1
    <3>1. count' = [count EXCEPT ![o] = new]
      BY <1>12, <2>1 DEF OcrAnswered
    <3>2. new \in Nat
      BY DEF Counted, Kinds
    <3> HIDE DEF new
    <3>3. QED
      BY <3>1, <3>2 DEF Counted
  <2>2. CASE ~(image[r] < images[r] /\ ~ocrCanceled)
    <3> DEFINE painted == image[r]..images[r]
               s == [k \in 1..MaxImages |-> IF k = image[r] THEN o ELSE "canceled"]
    <3>1. OcrPaint(r, painted, s)
      BY <1>12, <2>2 DEF OcrAnswered
    <3>2. IsFiniteSet(painted)
      BY <1>9 DEF PageInv, PageTypes
    <3> HIDE DEF painted, s
    <3>3. QED
      BY <3>1, <3>2, PaintCounts
  <2>3. QED
    BY <2>1, <2>2
<1>13. ASSUME NEW j \in Jobs, CancelArrives(j) \/ ServerWorks(j) PROVE Counted'
  BY <1>1, <1>13 DEF CancelArrives, ServerWorks, rows
<1>14. CASE UNCHANGED dialogVars
  BY <1>1, <1>14 DEF dialogVars, rows
<1>15. QED
  BY <1>2, <1>3, <1>4, <1>5, <1>6, <1>7, <1>8, <1>10, <1>11, <1>12, <1>13, <1>14
     DEF DialogNext, WithoutUser
-----------------------------------------------------------------------------
LEMMA InterferenceStep == ASSUME Interference, [DialogNext]_dialogVars PROVE Interference'
<1> USE DEF Interference
<1>1. ASSUME NEW ds \in DocLists, NEW n \in 0..MaxImages, Enqueue(ds, n)
      PROVE  Interference'
  BY <1>1 DEF Enqueue, Interrupted
<1>2. CASE Close \/ CancelClicked
  BY <1>2 DEF Close, CancelClicked
<1>3. ASSUME NEW r \in Runs,
             \/ ModuleReady(r) \/ DocsLaneFails(r) \/ PostAnswered(r)
             \/ \E j \in Jobs : PostArrives(r, j)
      PROVE  Interference'
  BY <1>3 DEF ModuleReady, DocsLaneFails, PostAnswered, PostArrives
<1>4. ASSUME NEW r \in Runs, \/ OcrModuleReady(r) \/ OcrModuleFails(r)
                                  \/ \E o \in {"ok", "skipped", "error"} : OcrAnswered(r, o)
      PROVE  Interference'
  BY <1>4 DEF OcrModuleReady, OcrModuleFails, OcrAnswered
<1>5. ASSUME NEW p \in Polls,
             Tick(p) \/ PollAnswers(p) \/ PollDelivered(p) \/ PollFails(p)
      PROVE  Interference'
  BY <1>5 DEF Tick, PollAnswers, PollDelivered, PollFails
<1>6. ASSUME NEW j \in Jobs, CancelArrives(j) \/ ServerWorks(j) PROVE Interference'
  BY <1>6 DEF CancelArrives, ServerWorks
<1>7. CASE UNCHANGED dialogVars
  BY <1>7 DEF dialogVars
<1>8. QED
  BY <1>1, <1>2, <1>3, <1>4, <1>5, <1>6, <1>7 DEF DialogNext, WithoutUser

LEMMA BooksInit == ASSUME DialogInit PROVE Books
<1> USE DEF DialogInit
<1>1. <<>> \in DocLists
  <2>1. 0 \in 0..MaxItems /\ <<>> \in [1..0 -> Docs] /\ 1..0 = {}
    BY DialogAssumption
  <2>2. <<>> \in {s \in [1..0 -> Docs] : \A i, k \in 1..0 : i # k => s[i] # s[k]}
    BY <2>1
  <2>3. QED
    BY <2>1, <2>2 DEF DocLists
<1>2. ListsKept
  BY <1>1 DEF ListsKept
<1>3. JobsNamed /\ RowsOfRun /\ Interference
  BY DEF JobsNamed, RowsOfRun, Interference
<1>4. ImagesInTurn
  BY DEF ImagesInTurn
<1>5. Counted
  BY DEF Counted
<1>6. QED
  BY <1>2, <1>3, <1>4, <1>5 DEF Books

LEMMA BooksAreTypes == ASSUME PageInv, Books PROVE DialogTypeOK
<1> USE DEF PageInv, Books
<1>1. image \in [Runs -> 0..MaxImages] /\ \A r \in Runs : image[r] <= images[r]
  <2>1. \A r \in Runs :
          image[r] \in Nat /\ images[r] \in 0..MaxImages /\ image[r] <= images[r]
    BY DEF PageTypes, ImagesInTurn
  <2>2. \A r \in Runs : image[r] \in 0..MaxImages
    BY <2>1, DialogAssumption
  <2>3. QED
    BY <2>1, <2>2 DEF PageTypes
<1>2. QED
  BY <1>1 DEF DialogTypeOK, PageTypes, RowTypes, ListsKept, JobsNamed, Counted, Interference,
              LaneStates, OcrStates

\* The page's variables keep their types: above all the interval asks about the job of the
\* workbench or is off (pollBatchJob), and the lane of the images never runs past the last
\* one (runBatchOcrLane).
THEOREM DialogTypeCorrect == DialogSpec => []DialogTypeOK
<1>1. DialogInit => Books
  BY BooksInit
<1>2. DialogInv /\ Books /\ [DialogNext]_dialogVars => Books'
  BY ListsStep, NamedStep, ImagesStep, RowsOfRunStep, CountedStep, InterferenceStep
     DEF DialogInv, Books
<1>3. DialogInv /\ Books => DialogTypeOK
  BY BooksAreTypes DEF DialogInv
<1>4. QED
  BY <1>1, <1>2, <1>3, DialogInvariance, PTL DEF DialogSpec
=============================================================================

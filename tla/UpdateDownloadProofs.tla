------------------------ MODULE UpdateDownloadProofs ------------------------
(***************************************************************************)
(* What holds of UpdateDownload for every number of downloads, names and   *)
(* digests: the state that overlapping workers share may be wrong, what is *)
(* published and what is accepted never is.                                *)
(***************************************************************************)
EXTENDS UpdateDownload, TLAPS

\* Target and digest of the state are written and cleared together.
Coupled == state.target = None <=> state.expected = None

\* What links a worker's own progress to the files.
Verified ==
  /\ \A w \in Workers : pc[w] = "publish" => part[w] = job[w].sha
  /\ \A w \in published : pc[w] # "idle"
  /\ \A n \in replaced : files[n] = Bad

\* No part before the response, after the publication, or after the cleanup.
PartGone ==
  \A w \in Workers :
    pc[w] \in {"idle", "spawn", "unborn", "fetch", "ready", "guard", "ended"} => part[w] = None

\* Why a stopped download comes to nothing: until it looks at the flag it is alone, the
\* flag is up, and nobody may begin another download, which would lower it.
StoppedHalts ==
  /\ \A w \in published : pc[w] \in {"ready", "guard", "ended"}
  /\ \A w \in stopped :
       /\ w \notin published
       /\ pc[w] \notin {"idle", "read", "eof", "hash", "publish", "ready"}
       /\ pc[w] \in {"spawn", "fetch", "check"} =>
            state.cancel /\ state.running /\ WorksAlone(w)

StateType == [running: BOOLEAN, status: Statuses, cancel: BOOLEAN,
              target: Names \union {None}, expected: Digests \union {None},
              verified: Digests \union {None}]

\* The state is a record of its type whatever the steps of a worker.
LEMMA StateTyped ==
  ASSUME TypeOK, [Next]_vars
  PROVE  state' \in StateType
<1> USE DEF TypeOK, StateType, Statuses
<1>1. ASSUME NEW w \in Workers, NEW j \in Job, Begin(w, j) PROVE state' \in StateType
  BY <1>1 DEF Begin, Job
<1>2. ASSUME NEW w \in Workers, Work(w) PROVE state' \in StateType
  <2>1. CASE CheckCancel(w)
    BY <2>1 DEF CheckCancel
  <2>2. CASE SetVerifying(w)
    BY <2>2 DEF SetVerifying
  <2>3. CASE SetReady(w)
    <3>1. job[w] \in Job
      BY <2>3 DEF SetReady
    <3>2. QED
      BY <2>3, <3>1 DEF SetReady, Job
  <2>4. CASE Fail(w) \/ DropGuard(w)
    BY <2>4 DEF Fail, DropGuard
  <2>5. CASE \/ Spawn(w) \/ SpawnFails(w) \/ HttpAnswers(w) \/ TransferFails(w)
             \/ TransferPanics(w) \/ ReadChunk(w) \/ ReadEof(w) \/ Compare(w)
             \/ Publish(w) \/ PublishFails(w) \/ CleanupPart(w)
    BY <2>5 DEF Spawn, SpawnFails, HttpAnswers, TransferFails, TransferPanics, ReadChunk,
                ReadEof, Compare, Publish, PublishFails, CleanupPart
  <2>6. QED
    BY <1>2, <2>1, <2>2, <2>3, <2>4, <2>5 DEF Work
<1>3. CASE Cancel
  BY <1>3 DEF Cancel
<1>4. CASE ApplySnapshot \/ ApplyHash \/ \E n \in Names : Replace(n)
  BY <1>4 DEF ApplySnapshot, ApplyHash, Replace
<1>5. CASE UNCHANGED vars
  BY <1>5 DEF vars
<1>6. QED
  BY <1>1, <1>2, <1>3, <1>4, <1>5 DEF Next

\* The type invariant, with the coupling that gives the apply route a file name.
THEOREM TypeCorrect == Spec => [](TypeOK /\ Coupled)
<1>1. Init => TypeOK /\ Coupled
  <2> SUFFICES ASSUME Init PROVE TypeOK /\ Coupled
    OBVIOUS
  <2>1. pc \in [Workers -> Labels] /\ \A w \in Workers : pc[w] = "idle"
    BY DEF Init, Labels
  <2>2. Coupled
    BY DEF Init, Coupled
  <2>3. QED
    BY UpdateAssumption, <2>1, <2>2 DEF Init, TypeOK, Statuses
<1>2. TypeOK /\ Coupled /\ [Next]_vars => TypeOK' /\ Coupled'
  <2> SUFFICES ASSUME TypeOK, Coupled, [Next]_vars PROVE TypeOK' /\ Coupled'
    OBVIOUS
  <2>0. state' \in StateType
    BY StateTyped
  <2> USE UpdateAssumption DEF TypeOK, StateType
  <2>1. ASSUME NEW w \in Workers, NEW j \in Job, Begin(w, j) PROVE TypeOK' /\ Coupled'
    <3>1. job' \in [Workers -> Job \union {NoJob}] /\ pc' \in [Workers -> Labels]
      BY <2>1 DEF Begin, Goto, Labels
    <3>2. \A v \in Workers : pc'[v] # "idle" => job'[v] \in Job
      BY <2>1 DEF Begin, Goto
    <3>3. Coupled'
      BY <2>1 DEF Begin, Coupled, Job
    <3>4. QED
      BY <2>0, <2>1, <3>1, <3>2, <3>3 DEF Begin, workerVars, history
  <2>2. ASSUME NEW w \in Workers, Work(w) PROVE TypeOK' /\ Coupled'
    <3>1. pc[w] # "idle" /\ job[w] \in Job
      BY <2>2 DEF Work, Spawn, SpawnFails, HttpAnswers, TransferFails, TransferPanics,
                  CheckCancel, ReadChunk, ReadEof, SetVerifying, Compare, Publish,
                  PublishFails, SetReady, Fail, CleanupPart, DropGuard, Fetching
    <3>2. /\ pc' \in [Workers -> Labels]
          /\ \A v \in Workers : v # w => pc'[v] = pc[v]
          /\ job' = job
      BY <2>2 DEF Work, Spawn, SpawnFails, HttpAnswers, TransferFails, TransferPanics,
                  CheckCancel, ReadChunk, ReadEof, SetVerifying, Compare, Publish,
                  PublishFails, SetReady, Fail, CleanupPart, DropGuard,
                  Goto, workerVars, Labels, Fetching, Ending, Over
    <3>3. \A v \in Workers : pc'[v] # "idle" => job'[v] \in Job
      BY <3>1, <3>2
    <3>4. /\ apply' = apply
          /\ accepted' = accepted
          /\ stopped' = stopped
      BY <2>2 DEF Work, Spawn, SpawnFails, HttpAnswers, TransferFails, TransferPanics,
                  CheckCancel, ReadChunk, ReadEof, SetVerifying, Compare, Publish,
                  PublishFails, SetReady, Fail, CleanupPart, DropGuard, history
    <3>5. part' \in [Workers -> Digests \union {Bad, None}]
      <4>1. CASE HttpAnswers(w) \/ CheckCancel(w) \/ Publish(w) \/ CleanupPart(w)
        BY <4>1 DEF HttpAnswers, CheckCancel, Publish, CleanupPart
      <4>2. CASE ReadEof(w)
        <5>1. PICK b \in {job[w].sha, Bad} : part' = [part EXCEPT ![w] = b]
          BY <4>2 DEF ReadEof
        <5>2. b \in Digests \union {Bad}
          BY <3>1 DEF Job
        <5>3. QED
          BY <5>1, <5>2
      <4>3. CASE ~(\/ HttpAnswers(w) \/ CheckCancel(w) \/ Publish(w) \/ CleanupPart(w)
                   \/ ReadEof(w))
        BY <2>2, <4>3 DEF Work, Spawn, SpawnFails, TransferFails, TransferPanics, ReadChunk,
                    SetVerifying, Compare, PublishFails, SetReady, Fail, DropGuard, workerVars
      <4>4. QED
        BY <4>1, <4>2, <4>3
    <3>6. chunks' \in [Workers -> 0..MaxChunks]
      <4>1. CASE ReadChunk(w)
        BY <4>1 DEF ReadChunk
      <4>2. CASE ~ReadChunk(w)
        BY <2>2, <4>2 DEF Work, Spawn, SpawnFails, HttpAnswers, TransferFails, TransferPanics,
                  CheckCancel, ReadEof, SetVerifying, Compare, Publish,
                  PublishFails, SetReady, Fail, CleanupPart, DropGuard, workerVars
      <4>3. QED
        BY <4>1, <4>2
    <3>7. /\ files' \in [Names -> Digests \union {Bad, None}]
          /\ replaced' \subseteq Names
          /\ published' \subseteq Workers
      <4>1. CASE Publish(w)
        BY <4>1 DEF Publish
      <4>2. CASE ~Publish(w)
        BY <2>2, <4>2 DEF Work, Spawn, SpawnFails, HttpAnswers, TransferFails, TransferPanics,
                  CheckCancel, ReadChunk, ReadEof, SetVerifying, Compare,
                  PublishFails, SetReady, Fail, CleanupPart, DropGuard, history
      <4>3. QED
        BY <4>1, <4>2
    <3>8. Coupled'
      <4>1. CASE Fail(w)
        BY <4>1 DEF Fail, Coupled
      <4>2. CASE CheckCancel(w) \/ SetVerifying(w) \/ SetReady(w) \/ DropGuard(w)
        <5>1. state'.target = state.target /\ state'.expected = state.expected
          <6>1. CASE CheckCancel(w)
            BY <6>1 DEF CheckCancel
          <6>2. CASE SetVerifying(w)
            BY <6>2 DEF SetVerifying
          <6>3. CASE SetReady(w)
            BY <6>3 DEF SetReady
          <6>4. CASE DropGuard(w)
            BY <6>4 DEF DropGuard
          <6>5. QED
            BY <4>2, <6>1, <6>2, <6>3, <6>4
        <5>2. QED
          BY <5>1 DEF Coupled
      <4>3. CASE \/ Spawn(w) \/ SpawnFails(w) \/ HttpAnswers(w) \/ TransferFails(w)
                 \/ TransferPanics(w) \/ ReadChunk(w) \/ ReadEof(w) \/ Compare(w)
                 \/ Publish(w) \/ PublishFails(w) \/ CleanupPart(w)
        <5>1. state' = state
          BY <4>3 DEF Spawn, SpawnFails, HttpAnswers, TransferFails, TransferPanics,
                      ReadChunk, ReadEof, Compare, Publish, PublishFails, CleanupPart
        <5>2. QED
          BY <5>1 DEF Coupled
      <4>4. QED
        BY <2>2, <4>1, <4>2, <4>3 DEF Work
    <3>9. QED
      BY <2>0, <3>2, <3>3, <3>4, <3>5, <3>6, <3>7, <3>8
  <2>3. CASE Cancel
    BY <2>0, <2>3 DEF Cancel, Coupled, workerVars
  <2>4. CASE ApplySnapshot
    <3>1. state.target \in Names /\ state.expected \in Digests
      BY <2>4 DEF ApplySnapshot, Coupled
    <3>2. apply' \in [name: Names, sha: Digests, verified: Digests \union {None}]
      BY <2>4, <3>1 DEF ApplySnapshot
    <3>3. QED
      BY <2>0, <2>4, <3>2 DEF ApplySnapshot, Coupled, workerVars, history
  <2>5. CASE ApplyHash
    <3>1. apply \in [name: Names, sha: Digests, verified: Digests \union {None}]
      BY <2>5 DEF ApplyHash
    <3>2. accepted' \subseteq Job
      <4>1. CASE files[apply.name] = apply.sha /\ apply.verified = apply.sha
        BY <2>5, <3>1, <4>1 DEF ApplyHash, Job
      <4>2. CASE ~(files[apply.name] = apply.sha /\ apply.verified = apply.sha)
        BY <2>5, <4>2 DEF ApplyHash
      <4>3. QED
        BY <4>1, <4>2
    <3>3. QED
      BY <2>0, <2>5, <3>2 DEF ApplyHash, Coupled, workerVars
  <2>6. ASSUME NEW n \in Names, Replace(n) PROVE TypeOK' /\ Coupled'
    BY <2>0, <2>6 DEF Replace, Coupled, workerVars, history
  <2>7. CASE UNCHANGED vars
    BY <2>7 DEF vars, Coupled
  <2>8. QED
    BY <2>1, <2>2, <2>3, <2>4, <2>5, <2>6, <2>7 DEF Next
<1>3. QED
  BY <1>1, <1>2, PTL DEF Spec

\* A worker only publishes what it hashed, and only the world outside makes a
\* published file differ from what was hashed.
LEMMA VerifiedAlways == Spec => []Verified
<1>1. Init => Verified
  BY DEF Init, Verified
<1>2. TypeOK /\ Verified /\ [Next]_vars => Verified'
  <2> SUFFICES ASSUME TypeOK, Verified, [Next]_vars PROVE Verified'
    OBVIOUS
  <2> USE UpdateAssumption DEF Verified
  <2>1. ASSUME NEW w \in Workers, NEW j \in Job, Begin(w, j) PROVE Verified'
    BY <2>1 DEF Begin, Goto, history, TypeOK
  <2>2. ASSUME NEW w \in Workers, Work(w) PROVE Verified'
    <3>1. CASE Compare(w)
      <4>1. pc' = [pc EXCEPT ![w] = IF part[w] = job[w].sha THEN "publish" ELSE "fail"]
        BY <3>1 DEF Compare, Goto
      <4>2. UNCHANGED <<part, job, published, replaced, files>>
        BY <3>1 DEF Compare, workerVars, history
      <4>3. QED
        BY <4>1, <4>2 DEF TypeOK
    <3>2. CASE Publish(w)
      <4>1. /\ pc[w] = "publish" /\ pc' = [pc EXCEPT ![w] = "ready"]
            /\ part' = [part EXCEPT ![w] = None] /\ job' = job
            /\ published' = published \union {w}
        BY <3>2 DEF Publish, Goto
      <4>2. \A v \in Workers : pc'[v] = "publish" => part'[v] = job'[v].sha
        BY <4>1 DEF TypeOK
      <4>3. \A v \in published' : pc'[v] # "idle"
        BY <4>1 DEF TypeOK
      <4>4. \A n \in replaced' : files'[n] = Bad
        <5> SUFFICES ASSUME NEW n \in replaced' PROVE files'[n] = Bad
          OBVIOUS
        <5>1. n \in replaced /\ n # job[w].name /\ n \in Names
          BY <3>2 DEF Publish, TypeOK
        <5>2. files'[n] = files[n]
          BY <3>2, <5>1 DEF Publish, TypeOK
        <5>3. QED
          BY <5>1, <5>2
      <4>5. QED
        BY <4>2, <4>3, <4>4
    <3>3. CASE \/ HttpAnswers(w) \/ CheckCancel(w) \/ ReadEof(w) \/ CleanupPart(w)
      <4>1. /\ pc[w] # "publish"
            /\ pc' \in {[pc EXCEPT ![w] = "check"], [pc EXCEPT ![w] = "guard"],
                        [pc EXCEPT ![w] = "read"], [pc EXCEPT ![w] = "eof"]}
        BY <3>3 DEF HttpAnswers, CheckCancel, ReadEof, CleanupPart, Goto
      <4>2. \A v \in Workers : v # w => part'[v] = part[v]
        BY <3>3 DEF HttpAnswers, CheckCancel, ReadEof, CleanupPart, TypeOK
      <4>3. UNCHANGED <<job, published, replaced, files>>
        BY <3>3 DEF HttpAnswers, CheckCancel, ReadEof, CleanupPart, history
      <4>4. \A v \in Workers : pc'[v] = "publish" => v # w /\ pc[v] = "publish"
        BY <4>1 DEF TypeOK
      <4>5. \A v \in Workers : pc'[v] = "idle" => pc[v] = "idle"
        BY <4>1 DEF TypeOK
      <4>6. QED
        BY <4>2, <4>3, <4>4, <4>5 DEF TypeOK
    <3>4. CASE \/ Spawn(w) \/ SpawnFails(w) \/ TransferFails(w) \/ TransferPanics(w)
               \/ ReadChunk(w) \/ SetVerifying(w) \/ PublishFails(w) \/ SetReady(w)
               \/ Fail(w) \/ DropGuard(w)
      <4>1. UNCHANGED <<part, job, published, replaced, files>>
        BY <3>4 DEF Spawn, SpawnFails, TransferFails, TransferPanics, ReadChunk,
                    SetVerifying, PublishFails, SetReady, Fail, DropGuard, workerVars, history
      <4>2. \A v \in Workers : /\ pc'[v] = "publish" => pc[v] = "publish"
                               /\ pc'[v] = "idle" => pc[v] = "idle"
        BY <3>4 DEF Spawn, SpawnFails, TransferFails, TransferPanics, ReadChunk,
                    SetVerifying, PublishFails, SetReady, Fail, DropGuard, Goto, TypeOK
      <4>3. QED
        BY <4>1, <4>2 DEF TypeOK
    <3>5. QED
      BY <2>2, <3>1, <3>2, <3>3, <3>4 DEF Work
  <2>3. ASSUME NEW n \in Names, Replace(n) PROVE Verified'
    BY <2>3 DEF Replace, workerVars, history, TypeOK
  <2>4. CASE Cancel \/ ApplySnapshot \/ ApplyHash \/ UNCHANGED vars
    BY <2>4 DEF Cancel, ApplySnapshot, ApplyHash, workerVars, history, vars
  <2>5. QED
    BY <2>1, <2>2, <2>3, <2>4 DEF Next
<1>3. QED
  BY <1>1, <1>2, TypeCorrect, PTL DEF Spec

\* The witness of a publication keeps its job for ever.
LEMMA JobsKept ==
  ASSUME TypeOK, Verified, [Next]_vars
  PROVE  /\ published \subseteq published'
         /\ \A w \in published : job'[w] = job[w]
<1>1. ASSUME NEW w \in Workers, NEW j \in Job, Begin(w, j)
      PROVE  published' = published /\ \A v \in published : job'[v] = job[v]
  BY <1>1 DEF Begin, history, TypeOK, Verified
<1>2. ASSUME NEW w \in Workers, Work(w)
      PROVE  job' = job /\ published \subseteq published'
  BY <1>2 DEF Work, Spawn, SpawnFails, HttpAnswers, TransferFails, TransferPanics,
              CheckCancel, ReadChunk, ReadEof, SetVerifying, Compare, Publish,
              PublishFails, SetReady, Fail, CleanupPart, DropGuard, workerVars, history
<1>3. CASE Cancel \/ ApplySnapshot \/ ApplyHash \/ \E n \in Names : Replace(n)
  BY <1>3 DEF Cancel, ApplySnapshot, ApplyHash, Replace, workerVars, history
<1>4. CASE UNCHANGED vars
  BY <1>4 DEF vars
<1>5. QED
  BY <1>1, <1>2, <1>3, <1>4 DEF Next

\* Under its final name a package is what some worker was asked for and hashed.
THEOREM Published == Spec => []PublishedIsVerified
<1>1. Init => PublishedIsVerified
  BY DEF Init, PublishedIsVerified
<1>2. TypeOK /\ Verified /\ PublishedIsVerified /\ [Next]_vars => PublishedIsVerified'
  <2> SUFFICES ASSUME TypeOK, Verified, PublishedIsVerified, [Next]_vars,
                      NEW n \in Names \ replaced', files'[n] # None
               PROVE  \E w \in published' : job'[w] = [name |-> n, sha |-> files'[n]]
    BY DEF PublishedIsVerified
  <2>1. ASSUME NEW w \in Workers, Publish(w), job[w].name = n
        PROVE  \E v \in published' : job'[v] = [name |-> n, sha |-> files'[n]]
    <3>1. files'[n] = job[w].sha /\ job' = job /\ w \in published'
      BY <2>1 DEF Publish, TypeOK, Verified
    <3>2. job[w] \in Job
      BY <2>1 DEF Publish, TypeOK
    <3>3. job[w] = [name |-> n, sha |-> job[w].sha]
      BY <2>1, <3>2 DEF Job
    <3>4. QED
      BY <3>1, <3>3
  <2>2. CASE files'[n] = files[n] /\ n \notin replaced
    <3>1. PICK w \in published : job[w] = [name |-> n, sha |-> files[n]]
      BY <2>2 DEF PublishedIsVerified
    <3>2. QED
      BY <2>2, <3>1, JobsKept
  <2>3. ASSUME ~(\E w \in Workers : Publish(w) /\ job[w].name = n)
        PROVE  files'[n] = files[n] /\ n \notin replaced
    <3>1. CASE \E w \in Workers : Publish(w)
      <4>1. PICK w \in Workers : Publish(w) /\ job[w].name # n
        BY <2>3, <3>1
      <4>2. QED
        BY <4>1 DEF Publish, TypeOK
    <3>2. CASE \E m \in Names : Replace(m)
      BY <3>2 DEF Replace, TypeOK
    <3>3. CASE \E w \in Workers : Work(w) /\ ~Publish(w)
      BY <3>3 DEF Work, Spawn, SpawnFails, HttpAnswers, TransferFails, TransferPanics,
              CheckCancel, ReadChunk, ReadEof, SetVerifying, Compare,
              PublishFails, SetReady, Fail, CleanupPart, DropGuard
    <3>4. CASE (\E w \in Workers, j \in Job : Begin(w, j)) \/ Cancel \/ ApplySnapshot \/ ApplyHash
      BY <3>4 DEF Begin, Cancel, ApplySnapshot, ApplyHash
    <3>5. CASE UNCHANGED vars
      BY <3>5 DEF vars
    <3>6. QED
      BY <3>1, <3>2, <3>3, <3>4, <3>5 DEF Next
  <2>4. QED
    BY <2>1, <2>2, <2>3
<1>3. QED
  BY <1>1, <1>2, TypeCorrect, VerifiedAlways, PTL DEF Spec

\* The apply gate never lets through bytes nobody verified, although the state it
\* copies may mix two downloads and the file may change after the copy.
THEOREM Accepted == Spec => []AcceptedIsVerified
<1>1. Init => AcceptedIsVerified
  BY DEF Init, AcceptedIsVerified
<1>2. TypeOK /\ Verified /\ PublishedIsVerified /\ AcceptedIsVerified /\ [Next]_vars
        => AcceptedIsVerified'
  <2> SUFFICES ASSUME TypeOK, Verified, PublishedIsVerified, AcceptedIsVerified, [Next]_vars,
                      NEW a \in accepted'
               PROVE  \E w \in published' : job'[w] = a
    BY DEF AcceptedIsVerified
  <2>1. CASE a \in accepted
    BY <2>1, JobsKept DEF AcceptedIsVerified
  <2>2. CASE a \notin accepted
    <3>1. ApplyHash
      <4>1. ASSUME NEW w \in Workers, Work(w) PROVE accepted' = accepted
        BY <4>1 DEF Work, Spawn, SpawnFails, HttpAnswers, TransferFails, TransferPanics,
              CheckCancel, ReadChunk, ReadEof, SetVerifying, Compare, Publish,
              PublishFails, SetReady, Fail, CleanupPart, DropGuard, history
      <4>2. ASSUME NEW w \in Workers, NEW j \in Job, Begin(w, j) PROVE accepted' = accepted
        BY <4>2 DEF Begin, history
      <4>3. ASSUME Cancel \/ ApplySnapshot \/ (\E n \in Names : Replace(n)) \/ UNCHANGED vars
            PROVE  accepted' = accepted
        BY <4>3 DEF Cancel, ApplySnapshot, Replace, history, vars
      <4>4. QED
        BY <2>2, <4>1, <4>2, <4>3 DEF Next
    <3>2. /\ files[apply.name] = apply.sha
          /\ a = [name |-> apply.name, sha |-> files[apply.name]]
          /\ UNCHANGED <<job, published>>
      BY <2>2, <3>1 DEF ApplyHash, workerVars
    <3>3. apply.name \in Names /\ apply.sha \in Digests
      BY <3>1 DEF ApplyHash, TypeOK
    <3>4. apply.name \notin replaced
      BY <3>2, <3>3, UpdateAssumption DEF Verified
    <3>5. files[apply.name] # None
      BY <3>2, <3>3, UpdateAssumption
    <3>6. QED
      BY <3>2, <3>3, <3>4, <3>5 DEF PublishedIsVerified
  <2>3. QED
    BY <2>1, <2>2
<1>3. QED
  BY <1>1, <1>2, TypeCorrect, VerifiedAlways, Published, PTL DEF Spec

\* However a download ends, short of a panic, its part file is gone.
THEOREM NoPartOutlivesItsWorker == Spec => []NoPartLeft
<1>1. Init => PartGone
  BY DEF Init, PartGone
<1>2. TypeOK /\ PartGone /\ [Next]_vars => PartGone'
  <2> SUFFICES ASSUME TypeOK, PartGone, [Next]_vars PROVE PartGone'
    OBVIOUS
  <2> USE DEF TypeOK, PartGone
  <2>1. ASSUME NEW w \in Workers, NEW j \in Job, Begin(w, j) PROVE PartGone'
    BY <2>1 DEF Begin, Goto
  <2>2. ASSUME NEW w \in Workers, Work(w) PROVE PartGone'
    <3>1. \A v \in Workers : v # w => pc'[v] = pc[v] /\ part'[v] = part[v]
      BY <2>2 DEF Work, Spawn, SpawnFails, HttpAnswers, TransferFails, TransferPanics,
              CheckCancel, ReadChunk, ReadEof, SetVerifying, Compare, Publish,
              PublishFails, SetReady, Fail, CleanupPart, DropGuard, Goto, workerVars
    <3>2. \/ pc'[w] \in {"check", "read", "eof", "hash", "publish", "fail", "unwind",
                         "lowered", "panicked"}
          \/ part'[w] = None
      BY <2>2 DEF Work, Spawn, SpawnFails, HttpAnswers, TransferFails, TransferPanics,
              CheckCancel, ReadChunk, ReadEof, SetVerifying, Compare, Publish,
              PublishFails, SetReady, Fail, CleanupPart, DropGuard, Goto, workerVars
    <3>3. QED
      BY <3>1, <3>2
  <2>3. CASE Cancel \/ ApplySnapshot \/ ApplyHash \/ \E n \in Names : Replace(n)
    BY <2>3 DEF Cancel, ApplySnapshot, ApplyHash, Replace, workerVars
  <2>4. CASE UNCHANGED vars
    BY <2>4 DEF vars
  <2>5. QED
    BY <2>1, <2>2, <2>3, <2>4 DEF Next
<1>3. PartGone => NoPartLeft
  BY DEF PartGone, NoPartLeft
<1>4. QED
  BY <1>1, <1>2, <1>3, TypeCorrect, PTL DEF Spec

\* A download whose cancel was answered true in time, and that works alone, is never
\* published.
THEOREM CancelHalts == Spec => []CancelledIsNotPublished
<1>1. Init => StoppedHalts
  BY DEF Init, StoppedHalts
<1>2. TypeOK /\ StoppedHalts /\ [Next]_vars => StoppedHalts'
  <2> SUFFICES ASSUME TypeOK, StoppedHalts, [Next]_vars PROVE StoppedHalts'
    OBVIOUS
  <2> USE DEF TypeOK, StoppedHalts
  <2>1. ASSUME NEW v \in Workers, NEW j \in Job, Begin(v, j) PROVE StoppedHalts'
    <3>1. ~state.running /\ pc[v] = "idle" /\ pc' = [pc EXCEPT ![v] = "spawn"]
      BY <2>1 DEF Begin, Goto
    <3>2. published' = published /\ stopped' = stopped
      BY <2>1 DEF Begin, history
    <3>3. v \notin stopped /\ v \notin published
      BY <3>1
    <3>4. QED
      BY <3>1, <3>2, <3>3
  <2>2. ASSUME NEW v \in Workers, Work(v) PROVE StoppedHalts'
    <3>0. \A w \in Workers : w # v => pc'[w] = pc[w]
      BY <2>2 DEF Work, Spawn, SpawnFails, HttpAnswers, TransferFails, TransferPanics,
            CheckCancel, ReadChunk, ReadEof, SetVerifying, Compare, Publish,
            PublishFails, SetReady, Fail, CleanupPart, DropGuard, Goto
    <3>1. stopped' = stopped /\ published \subseteq published'
      BY <2>2 DEF Work, Spawn, SpawnFails, HttpAnswers, TransferFails, TransferPanics,
            CheckCancel, ReadChunk, ReadEof, SetVerifying, Compare, Publish,
            PublishFails, SetReady, Fail, CleanupPart, DropGuard, history
    <3>2. \A w \in published' : w = v \/ w \in published
      BY <2>2 DEF Work, Spawn, SpawnFails, HttpAnswers, TransferFails, TransferPanics,
            CheckCancel, ReadChunk, ReadEof, SetVerifying, Compare, Publish,
            PublishFails, SetReady, Fail, CleanupPart, DropGuard, history
    <3>3. v \in published' => pc'[v] \in {"ready", "guard", "ended"}
      <4>1. CASE Publish(v)
        BY <4>1 DEF Publish, Goto
      <4>2. CASE SetReady(v) \/ DropGuard(v)
        BY <4>2 DEF SetReady, DropGuard, Goto, history
      <4>3. CASE ~(Publish(v) \/ SetReady(v) \/ DropGuard(v))
        <5>1. published' = published /\ pc[v] \notin {"ready", "guard", "ended"}
          BY <2>2, <4>3 DEF Work, Spawn, SpawnFails, HttpAnswers, TransferFails,
               TransferPanics, CheckCancel, ReadChunk, ReadEof, SetVerifying, Compare,
               PublishFails, Fail, CleanupPart, history
        <5>2. QED
          BY <5>1
      <4>4. QED
        BY <4>1, <4>2, <4>3
    <3>4. ASSUME v \in stopped
          PROVE  /\ published' = published
                 /\ pc'[v] \notin {"idle", "read", "eof", "hash", "publish", "ready"}
                 /\ pc'[v] \in {"spawn", "fetch", "check"} =>
                      /\ state' = state
                      /\ pc[v] \in {"spawn", "fetch", "check"}
      <4>1. CASE CheckCancel(v)
        BY <3>4, <4>1 DEF CheckCancel, Goto, history
      <4>2. CASE Spawn(v) \/ SpawnFails(v) \/ HttpAnswers(v) \/ TransferFails(v)
                 \/ TransferPanics(v)
        BY <3>4, <4>2 DEF Spawn, SpawnFails, HttpAnswers, TransferFails, TransferPanics,
             Goto, history
      <4>3. CASE Fail(v) \/ CleanupPart(v) \/ DropGuard(v)
        BY <3>4, <4>3 DEF Fail, CleanupPart, DropGuard, Goto, history
      <4>4. CASE ReadChunk(v) \/ ReadEof(v) \/ SetVerifying(v) \/ Compare(v)
                 \/ Publish(v) \/ PublishFails(v) \/ SetReady(v)
        BY <3>4, <4>4 DEF ReadChunk, ReadEof, SetVerifying, Compare, Publish,
             PublishFails, SetReady
      <4>5. QED
        BY <2>2, <4>1, <4>2, <4>3, <4>4 DEF Work
    <3>5. pc[v] \notin {"idle"} \union Over
      BY <2>2 DEF Work, Spawn, SpawnFails, HttpAnswers, TransferFails, TransferPanics,
            CheckCancel, ReadChunk, ReadEof, SetVerifying, Compare, Publish,
            PublishFails, SetReady, Fail, CleanupPart, DropGuard, Over
    <3>6. ASSUME NEW w \in stopped
          PROVE  /\ w \notin published'
                 /\ pc'[w] \notin {"idle", "read", "eof", "hash", "publish", "ready"}
                 /\ pc'[w] \in {"spawn", "fetch", "check"} =>
                      state'.cancel /\ state'.running /\ WorksAlone(w)'
      <4>1. CASE w = v
        BY <3>0, <3>4, <4>1 DEF WorksAlone
      <4>2. CASE w # v
        <5>1. pc[w] \notin {"spawn", "fetch", "check"}
          BY <3>5, <4>2 DEF WorksAlone
        <5>2. QED
          BY <3>0, <3>2, <4>2, <5>1
      <4>3. QED
        BY <4>1, <4>2
    <3>7. QED
      BY <3>0, <3>1, <3>2, <3>3, <3>6
  <2>3. CASE Cancel
    <3>1. state'.cancel /\ state'.running = state.running /\ state.running
      BY <2>3 DEF Cancel
    <3>2. pc' = pc /\ published' = published
      BY <2>3 DEF Cancel
    <3>3. \A w \in stopped' : w \in stopped \/ (pc[w] \in {"spawn", "fetch", "check"}
                                                  /\ WorksAlone(w))
      BY <2>3 DEF Cancel
    <3>4. QED
      BY <3>1, <3>2, <3>3 DEF WorksAlone
  <2>4. CASE ApplySnapshot \/ ApplyHash \/ (\E n \in Names : Replace(n)) \/ UNCHANGED vars
    BY <2>4 DEF ApplySnapshot, ApplyHash, Replace, history, vars, WorksAlone
  <2>5. QED
    BY <2>1, <2>2, <2>3, <2>4 DEF Next
<1>3. StoppedHalts => CancelledIsNotPublished
  BY DEF StoppedHalts, CancelledIsNotPublished
<1>4. QED
  BY <1>1, <1>2, <1>3, TypeCorrect, PTL DEF Spec
=============================================================================

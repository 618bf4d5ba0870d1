--------------------------- MODULE PetHostProofs ---------------------------
(***************************************************************************)
(* What holds of PetHost for every set of threads, every bound on requests *)
(* and commands, and whatever goes wrong.                                  *)
(***************************************************************************)
EXTENDS PetHost, SequenceTheorems, TLAPS

\* The threads inside the lock of start_pet_host, and those that have it or have not yet noted
\* or given up what they started.
Locked == {"look", "owned", "spawn", "wait"}
Starts == {"spawn", "wait", "fill", "kill", "clear"}
Quiet == Places \ (Locked \union Starts)

LockHeld == \A t \in Threads : pc[t] \in Locked <=> lock = t

ChildHeld == \A t \in Threads : child[t] # None <=> pc[t] \in {"wait", "fill", "kill"}

Awake ==
  /\ slot # None => host[slot] # "booting"
  /\ \A t \in Threads : pc[t] = "fill" => host[child[t]] # "booting"

\* One start at a time, none while an overlay is in the slot, and no overlay that is in
\* neither.
Starter ==
  "gap" \notin events =>
    /\ \A t, u \in Threads : pc[t] \in Starts /\ pc[u] \in Starts => t = u
    /\ \A t \in Threads : pc[t] \in Starts => slot = None
    /\ Live \subseteq {slot} \union Starting

HostInv == TypeOK /\ LockHeld /\ ChildHeld /\ Awake /\ Starter
-----------------------------------------------------------------------------
LEMMA ChangedSeq ==
  ASSUME NEW S, NEW s \in Seq(S), NEW e \in S, NEW i
  PROVE  /\ [s EXCEPT ![i] = e] \in Seq(S)
         /\ DOMAIN [s EXCEPT ![i] = e] = DOMAIN s
<1>1. CASE i \in 1..Len(s)
  BY <1>1, ExceptSeq
<1>2. CASE i \notin 1..Len(s)
  <2>1. s \in [1..Len(s) -> S]
    BY LenProperties
  <2>2. [s EXCEPT ![i] = e] = s
    BY <1>2, <2>1
  <2>3. QED
    BY <2>2
<1>3. QED
  BY <1>1, <1>2

LEMMA StopHostType ==
  ASSUME TypeOK, StopHost
  PROVE  host' \in Seq({"booting", "ready", "gone"}) /\ DOMAIN host' = DOMAIN host
<1>1. [host EXCEPT ![slot] = "gone"] \in Seq({"booting", "ready", "gone"})
  BY ChangedSeq DEF TypeOK
<1>2. QED
  BY <1>1 DEF StopHost, TypeOK

LEMMA NamesType ==
  ASSUME NEW q \in Seq([id : Nat, what : Commands])
  PROVE  /\ Names(q) \in Seq(Nat)
         /\ Len(Names(q)) = Len(q)
         /\ \A i \in 1..Len(q) : Names(q)[i] = q[i].id
<1>1. q \in [1..Len(q) -> [id : Nat, what : Commands]] /\ Len(q) \in Nat
  BY LenProperties
<1>2. Names(q) \in [1..Len(q) -> Nat]
  BY <1>1 DEF Names
<1>3. Names(q) \in Seq(Nat)
  BY <1>1, <1>2, SeqDef
<1>4. QED
  BY <1>1, <1>2, <1>3, LenProperties DEF Names

LEMMA NoCfgType == NoCfg \in Cfgs
BY DEF NoCfg, Cfgs, Wishes

LEMMA FailedType == \A c \in Cfgs : [c EXCEPT !.failed = TRUE] \in Cfgs
BY DEF Cfgs

\* What becomes of the locals of a configure.
LEMMA CfgType ==
  ASSUME NEW c \in Cfgs, NEW b \in BOOLEAN, NEW w \in Wishes
  PROVE  /\ NoCfg \in Cfgs
         /\ [c EXCEPT !.wasIn = b, !.in = w] \in Cfgs
         /\ [c EXCEPT !.wasOn = b, !.on = w] \in Cfgs
         /\ \A v \in Wishes : [NoCfg EXCEPT !.active = TRUE, !.on = w, !.in = v] \in Cfgs
         /\ Wanted(w, b) \in Wishes
BY DEF Cfgs, Wishes, NoCfg, Wanted

LEMMA RemovedSeq ==
  ASSUME NEW S, NEW s \in Seq(S), NEW i \in 1..Len(s)
  PROVE  RemoveAt(s, i) \in Seq(S)
BY DEF RemoveAt

LEMMA StepType ==
  ASSUME TypeOK, NEW t \in Threads, Configure(t) \/ Refresh(t) \/ Drain(t) \/ Step(t)
  PROVE  TypeOK'
<1> USE DEF At, Goto, TypeOK, Places, Files, state, locals, disk, overlay, history
<1>1. CASE Configure(t)
  <2>1. PICK wish \in Wishes, wishIn \in Wishes : BeginConfigure(t, wish, wishIn)
    BY <1>1 DEF Configure
  <2>2. [NoCfg EXCEPT !.active = TRUE, !.on = wish, !.in = wishIn] \in Cfgs
    BY DEF NoCfg, Cfgs, Wishes
  <2>3. cfg' \in [Threads -> Cfgs]
    BY <2>1, <2>2 DEF BeginConfigure
  <2>4. pc' \in [Threads -> Places] /\ events' \subseteq {"configures", "publications", "gap"}
    BY <2>1 DEF BeginConfigure, Note
  <2>5. QED
    BY <1>1, <2>3, <2>4 DEF Configure, Serves
<1>2. CASE Refresh(t)
  BY <1>2 DEF Refresh, Serves
<1>3. CASE Drain(t)
  BY <1>3 DEF Drain, Serves
<1>4. CASE List(t)
  <2>1. Names(queue) \in Seq(Nat)
    BY NamesType
  <2>2. QED
    BY <1>4, <2>1 DEF List
<1>5. CASE Take(t)
  <2> DEFINE id == Head(list[t])
  <2>1. Where(id) \in 1..Len(queue) /\ id \in Nat
    <3>1. DOMAIN queue = 1..Len(queue)
      BY LenProperties
    <3>2. QED
      BY <1>5, <3>1, HeadTailProperties DEF Take, Where, Pending
  <2>2. queue' \in Seq([id : Nat, what : Commands])
    BY <1>5, <2>1, RemovedSeq DEF Take, TakeOff
  <2>3. executed' \in Seq(Nat)
    BY <1>5, <2>1 DEF Take
  <2>4. cfg' \in [Threads -> Cfgs]
    <3>1. cfg \in [Threads -> Cfgs]
      OBVIOUS
    <3>2. /\ [NoCfg EXCEPT !.active = TRUE, !.on = "no", !.in = "keep"] \in Cfgs
          /\ [NoCfg EXCEPT !.active = TRUE, !.on = "keep", !.in = "keep"] \in Cfgs
      BY DEF NoCfg, Cfgs, Wishes
    <3>3. QED
      BY <1>5, <3>1, <3>2 DEF Take, BeginConfigure
  <2>5. pc' \in [Threads -> Places] /\ events' \subseteq {"configures", "publications", "gap"}
    BY <1>5 DEF Take, BeginConfigure, Note
  <2>6. list' \in [Threads -> Seq(Nat)]
    BY <1>5 DEF Take
  <2>7. QED
    BY <1>5, <2>2, <2>3, <2>4, <2>5, <2>6 DEF Take
<1>6. CASE TakenByOther(t)
  BY <1>6 DEF TakenByOther
<1>7. CASE NothingLeft(t)
  BY <1>7 DEF NothingLeft
<1>8. CASE ReadInApp(t)
  <2>1. cfg[t] \in Cfgs /\ cfg[t].in \in Wishes
    BY DEF Cfgs
  <2>2. [cfg[t] EXCEPT !.wasIn = inApp, !.in = Wanted(cfg[t].in, inApp)] \in Cfgs
    BY <2>1, CfgType
  <2>3. cfg' \in [Threads -> Cfgs]
    BY <1>8, <2>2 DEF ReadInApp
  <2>4. QED
    BY <1>8, <2>3 DEF ReadInApp
<1>9. CASE ReadEnabled(t)
  <2>1. cfg[t] \in Cfgs /\ cfg[t].on \in Wishes
    BY DEF Cfgs
  <2>2. [cfg[t] EXCEPT !.wasOn = enabled, !.on = Wanted(cfg[t].on, enabled)] \in Cfgs
    BY <2>1, CfgType
  <2>3. cfg' \in [Threads -> Cfgs]
    BY <1>9, <2>2 DEF ReadEnabled
  <2>4. QED
    BY <1>9, <2>3 DEF ReadEnabled
<1>10. CASE StopMoved(t)
  <2>1. host' \in Seq({"booting", "ready", "gone"}) /\ DOMAIN host' = DOMAIN host
    BY <1>10, StopHostType DEF StopMoved
  <2>2. QED
    BY <1>10, <2>1 DEF StopMoved, StopHost
<1>11. CASE StopOff(t)
  <2>1. host' \in Seq({"booting", "ready", "gone"}) /\ DOMAIN host' = DOMAIN host
    BY <1>11, StopHostType DEF StopOff
  <2>2. QED
    BY <1>11, <2>1 DEF StopOff, StopHost
<1>12. CASE SetEnabled(t)
  BY <1>12 DEF SetEnabled
<1>13. CASE SetInApp(t)
  BY <1>13 DEF SetInApp
<1>14. CASE ReadPlace(t)
  BY <1>14 DEF ReadPlace, Note
<1>15. CASE ReadSnapshot(t)
  BY <1>15 DEF ReadSnapshot
<1>16. CASE OpenTmp(t)
  BY <1>16 DEF OpenTmp
<1>17. CASE WriteTmp(t)
  BY <1>17 DEF WriteTmp, Closed, Over, Says
<1>18. CASE WriteFails(t)
  <2>1. cfg' \in [Threads -> Cfgs]
    BY <1>18, NoCfgType DEF WriteFails, Published, Finish
  <2>2. QED
    BY <1>18, <2>1 DEF WriteFails, Suffer, Closed, Published, Finish
<1>19. CASE RenameTmp(t)
  BY <1>19 DEF RenameTmp
<1>20. CASE RenameRefused(t)
  BY <1>20 DEF RenameRefused, Suffer
<1>21. CASE RemoveTmp(t)
  <2>1. cfg' \in [Threads -> Cfgs]
    BY <1>21, NoCfgType DEF RemoveTmp, Published, Finish
  <2>2. QED
    BY <1>21, <2>1 DEF RemoveTmp, Published, Finish
<1>22. CASE Unavailable(t)
  BY <1>22 DEF Unavailable, Suffer
<1>23. CASE Lock(t)
  BY <1>23 DEF Lock, TakeLock
<1>24. CASE Look(t)
  BY <1>24 DEF Look, Note, Running
<1>25. CASE Owned(t)
  <2>1. cfg' \in [Threads -> Cfgs]
    BY <1>25, NoCfgType DEF Owned, Finish
  <2>2. QED
    BY <1>25, <2>1 DEF Owned, Unlock, Finish
<1>26. CASE NotOwned(t)
  BY <1>26 DEF NotOwned, Unlock
<1>27. CASE Spawn(t)
  BY <1>27 DEF Spawn
<1>28. CASE SpawnFails(t)
  BY <1>28 DEF SpawnFails, Suffer, Unlock
<1>29. CASE Healthy(t)
  BY <1>29 DEF Healthy, Unlock
<1>30. CASE Died(t)
  BY <1>30 DEF Died, Unlock
<1>31. CASE Unhealthy(t)
  BY <1>31 DEF Unhealthy, Unlock, Suffer
<1>32. CASE FillSlot(t)
  <2>1. cfg' \in [Threads -> Cfgs]
    BY <1>32, NoCfgType DEF FillSlot, Finish
  <2>2. QED
    BY <1>32, <2>1 DEF FillSlot, Finish
<1>33. CASE KillChild(t)
  <2>1. host' \in Seq({"booting", "ready", "gone"}) /\ DOMAIN host' = DOMAIN host
    BY <1>33, ChangedSeq DEF KillChild
  <2>2. QED
    BY <1>33, <2>1 DEF KillChild
<1>34. CASE ClearSlot(t)
  BY <1>34 DEF ClearSlot
<1>35. CASE Undo(t)
  <2>1. cfg[t] \in Cfgs
    OBVIOUS
  <2>2. cfg' \in [Threads -> Cfgs] /\ cfg[t].wasIn \in BOOLEAN
    BY <1>35, <2>1, FailedType DEF Undo, Cfgs
  <2>3. QED
    BY <1>35, <2>2 DEF Undo
<1>36. QED
  BY <1>1, <1>2, <1>3, <1>4, <1>5, <1>6, <1>7, <1>8, <1>9, <1>10, <1>11, <1>12, <1>13, <1>14,
     <1>15, <1>16, <1>17, <1>18, <1>19, <1>20, <1>21, <1>22, <1>23, <1>24, <1>25, <1>26, <1>27,
     <1>28, <1>29, <1>30, <1>31, <1>32, <1>33, <1>34, <1>35 DEF Step

LEMMA OverlayType ==
  ASSUME TypeOK, NEW h \in DOMAIN host, NEW what \in Commands,
         Ready(h) \/ Exits(h) \/ Gives(h, what)
  PROVE  TypeOK'
<1>1. CASE Ready(h)
  <2>1. host' \in Seq({"booting", "ready", "gone"}) /\ DOMAIN host' = DOMAIN host
    BY <1>1, ChangedSeq DEF Ready, TypeOK
  <2>2. QED
    BY <1>1, <2>1 DEF Ready, TypeOK, Files, state, locals, disk, history
<1>2. CASE Exits(h)
  <2>1. host' \in Seq({"booting", "ready", "gone"}) /\ DOMAIN host' = DOMAIN host
    BY <1>2, ChangedSeq DEF Exits, TypeOK
  <2>2. QED
    BY <1>2, <2>1 DEF Exits, Suffer, TypeOK, Files, state, locals, disk
<1>3. CASE Gives(h, what)
  <2>1. given' \in Nat /\ queue' \in Seq([id : Nat, what : Commands])
    BY <1>3 DEF Gives, TypeOK
  <2>2. QED
    BY <1>3, <2>1 DEF Gives, TypeOK, Files, state, locals, disk, history
<1>4. QED
  BY <1>1, <1>2, <1>3

LEMMA ReapType == TypeOK /\ Reap => TypeOK'
BY DEF Reap, TypeOK, Files, state, locals, disk, overlay, history

LEMMA InitType == Init => TypeOK
<1> SUFFICES ASSUME Init PROVE TypeOK
  OBVIOUS
<1>1. <<>> \in Seq(Nat) /\ <<>> \in Seq([id : Nat, what : Commands])
      /\ <<>> \in Seq({"booting", "ready", "gone"})
  OBVIOUS
<1>2. QED
  BY <1>1, NoCfgType DEF Init, TypeOK, Places, Files

LEMMA NextType == TypeOK /\ [Next]_vars => TypeOK'
<1> SUFFICES ASSUME TypeOK, [Next]_vars PROVE TypeOK'
  OBVIOUS
<1>1. ASSUME NEW t \in Threads, Configure(t) \/ Refresh(t) \/ Drain(t) \/ Step(t)
      PROVE  TypeOK'
  BY <1>1, StepType
<1>2. ASSUME NEW h \in DOMAIN host, Ready(h) \/ Exits(h) \/ \E what \in Commands : Gives(h, what)
      PROVE  TypeOK'
  <2>1. "hide" \in Commands
    BY DEF Commands
  <2>2. QED
    BY <1>2, <2>1, OverlayType
<1>3. CASE Reap
  BY <1>3, ReapType
<1>4. CASE UNCHANGED vars
  BY <1>4 DEF vars, state, locals, disk, overlay, history, TypeOK
<1>5. QED
  BY <1>1, <1>2, <1>3, <1>4 DEF Next

\* Type correctness, with what the overlays and the threads refer to: an overlay in the slot,
\* seen or being started is one that was started.
THEOREM TypeCorrect == Spec => []TypeOK
<1>1. QED
  BY InitType, NextType, PTL DEF Spec
-----------------------------------------------------------------------------
LEMMA Moved ==
  ASSUME TypeOK, NEW t \in Threads, NEW to, Goto(t, to)
  PROVE  pc'[t] = to /\ \A u \in Others(t) : pc'[u] = pc[u]
BY DEF Goto, Others, TypeOK

LEMMA SlotNumber == TypeOK => None \notin DOMAIN host
<1> SUFFICES ASSUME TypeOK PROVE None \notin DOMAIN host
  OBVIOUS
<1>1. DOMAIN host = 1..Len(host) /\ Len(host) \in Nat
  BY LenProperties DEF TypeOK
<1>2. QED
  BY <1>1, PetAssumption

\* A step that has nothing to do with the overlays.
LEMMA QuietStep ==
  ASSUME HostInv, NEW t \in Threads, NEW to \in Quiet, Goto(t, to), pc[t] \in Quiet,
         UNCHANGED <<slot, lock, child, host>>, events \subseteq events'
  PROVE  (LockHeld /\ ChildHeld /\ Awake /\ Starter)'
<1>1. \A u \in Threads : /\ pc'[u] \in Locked <=> pc[u] \in Locked
                         /\ pc'[u] \in Starts <=> pc[u] \in Starts
                         /\ pc'[u] \in {"wait", "fill", "kill"}
                              <=> pc[u] \in {"wait", "fill", "kill"}
                         /\ pc'[u] = "fill" <=> pc[u] = "fill"
  BY Moved DEF HostInv, Others, Quiet, Locked, Starts
<1>2. LockHeld' /\ ChildHeld' /\ Awake'
  BY <1>1 DEF HostInv, LockHeld, ChildHeld, Awake
<1>3. Live' = Live /\ Starting' = Starting
  BY DEF Live, Starting
<1>4. Starter'
  BY <1>1, <1>3 DEF HostInv, Starter
<1>5. QED
  BY <1>2, <1>4

\* stop_pet_host
LEMMA StopStep ==
  ASSUME HostInv, NEW t \in Threads, NEW to \in Quiet, Goto(t, to), pc[t] \in Quiet,
         StopHost \/ UNCHANGED <<host, slot>>, UNCHANGED <<lock, child, events>>
  PROVE  (LockHeld /\ ChildHeld /\ Awake /\ Starter)'
<1>1. CASE UNCHANGED <<host, slot>>
  BY <1>1, QuietStep
<1>2. CASE StopHost
  <2>1. \A u \in Threads : /\ pc'[u] \in Locked <=> pc[u] \in Locked
                           /\ pc'[u] \in Starts <=> pc[u] \in Starts
                           /\ pc'[u] \in {"wait", "fill", "kill"}
                                <=> pc[u] \in {"wait", "fill", "kill"}
                           /\ pc'[u] = "fill" <=> pc[u] = "fill"
    BY Moved DEF HostInv, Others, Quiet, Locked, Starts
  <2>2. /\ DOMAIN host' = DOMAIN host
        /\ \A h \in DOMAIN host : host'[h] = IF h = slot THEN "gone" ELSE host[h]
    BY <1>2, StopHostType, SlotNumber DEF HostInv, TypeOK, StopHost
  <2>3. LockHeld' /\ ChildHeld'
    BY <2>1 DEF HostInv, LockHeld, ChildHeld
  <2>4. Awake'
    BY <1>2, <2>1, <2>2 DEF HostInv, Awake, ChildHeld, StopHost, TypeOK
  <2>5. Live' = Live \ {slot} /\ Starting' = Starting
    BY <2>2 DEF Live, Starting
  <2>6. Starter'
    BY <1>2, <2>1, <2>5 DEF HostInv, Starter, StopHost
  <2>7. QED
    BY <2>3, <2>4, <2>6
<1>3. QED
  BY <1>1, <1>2

\* The steps of a thread outside start_pet_host.
LEMMA CalmSteps ==
  ASSUME HostInv, NEW t \in Threads,
         \/ Configure(t) \/ Refresh(t) \/ Drain(t)
         \/ List(t) \/ Take(t) \/ TakenByOther(t) \/ NothingLeft(t)
         \/ ReadInApp(t) \/ ReadEnabled(t) \/ StopMoved(t) \/ StopOff(t) \/ SetEnabled(t)
         \/ SetInApp(t) \/ ReadPlace(t) \/ ReadSnapshot(t) \/ OpenTmp(t) \/ WriteTmp(t)
         \/ WriteFails(t) \/ RenameTmp(t) \/ RenameRefused(t) \/ RemoveTmp(t)
         \/ Unavailable(t) \/ Undo(t)
  PROVE  (LockHeld /\ ChildHeld /\ Awake /\ Starter)'
<1> USE DEF Quiet, Places, Locked, Starts
<1>1. CASE StopMoved(t)
  BY <1>1, StopStep DEF StopMoved, At, history, locals
<1>2. CASE StopOff(t)
  BY <1>2, StopStep DEF StopOff, At, history, locals
<1>3. CASE TakenByOther(t)
  BY <1>3 DEF TakenByOther, HostInv, LockHeld, ChildHeld, Awake, Starter, Live, Starting,
              overlay, history
<1>4. CASE ~StopMoved(t) /\ ~StopOff(t) /\ ~TakenByOther(t)
  <2>1. pc[t] \in Quiet /\ events \subseteq events'
    BY <1>4 DEF Configure, BeginConfigure, Refresh, Drain, List, Take, NothingLeft, ReadInApp,
                ReadEnabled, SetEnabled, SetInApp, ReadPlace, ReadSnapshot, OpenTmp, WriteTmp,
                WriteFails, RenameTmp, RenameRefused, RemoveTmp, Unavailable, Undo, At, Note,
                history
  <2>2. UNCHANGED <<slot, lock, child, host>>
    BY <1>4 DEF Configure, Refresh, Drain, List, Take, NothingLeft, ReadInApp, ReadEnabled,
                SetEnabled, SetInApp, ReadPlace, ReadSnapshot, OpenTmp, WriteTmp, WriteFails,
                RenameTmp, RenameRefused, RemoveTmp, Unavailable, Undo, Published, Finish,
                overlay, locals
  <2>3. \E to \in Quiet : Goto(t, to)
    BY <1>4 DEF Configure, BeginConfigure, Refresh, Drain, List, Take, NothingLeft, ReadInApp,
                ReadEnabled, SetEnabled, SetInApp, ReadPlace, ReadSnapshot, OpenTmp, WriteTmp,
                WriteFails, RenameTmp, RenameRefused, RemoveTmp, Unavailable, Undo, Published,
                Finish
  <2>4. QED
    BY <2>1, <2>2, <2>3, QuietStep
<1>5. QED
  BY <1>1, <1>2, <1>3, <1>4

LEMMA LockStep ==
  ASSUME HostInv, NEW t \in Threads, Lock(t)
  PROVE  (LockHeld /\ ChildHeld /\ Awake /\ Starter)'
<1>1. pc'[t] = "look" /\ pc[t] = "start" /\ \A u \in Others(t) : pc'[u] = pc[u]
  BY Moved DEF Lock, TakeLock, At, HostInv
<1>2. lock = None /\ lock' = t /\ UNCHANGED <<slot, child, host, events>>
  BY DEF Lock, TakeLock, locals, overlay, history
<1>3. LockHeld'
  BY <1>1, <1>2, PetAssumption DEF HostInv, LockHeld, Locked, Others
<1>4. ChildHeld' /\ Awake' /\ Live' = Live /\ Starting' = Starting
  BY <1>1, <1>2 DEF HostInv, ChildHeld, Awake, Others, Live, Starting
<1>5. \A u \in Threads : pc'[u] \in Starts <=> pc[u] \in Starts
  BY <1>1 DEF Others, Starts
<1>6. Starter'
  BY <1>2, <1>4, <1>5 DEF HostInv, Starter
<1>7. QED
  BY <1>3, <1>4, <1>6

LEMMA LookStep ==
  ASSUME HostInv, NEW t \in Threads, Look(t)
  PROVE  (LockHeld /\ ChildHeld /\ Awake /\ Starter)'
<1>1. /\ pc[t] = "look" /\ \A u \in Others(t) : pc'[u] = pc[u]
      /\ pc'[t] = IF Running THEN "owned" ELSE "spawn"
      /\ slot' = IF Running THEN slot ELSE None
  BY Moved DEF Look, At, HostInv
<1>2. UNCHANGED <<lock, child, host>>
  BY DEF Look, overlay
<1>3. LockHeld' /\ ChildHeld' /\ Awake'
  BY <1>1, <1>2 DEF HostInv, LockHeld, ChildHeld, Awake, Others, Locked
<1>4. Live' = Live /\ Starting' = Starting
  BY <1>2 DEF Live, Starting
<1>5. ASSUME "gap" \notin events'
      PROVE  /\ \A u, v \in Threads : pc'[u] \in Starts /\ pc'[v] \in Starts => u = v
             /\ \A u \in Threads : pc'[u] \in Starts => slot' = None
             /\ Live' \subseteq {slot'} \union Starting'
  <2>1. "gap" \notin events /\ ~(~Running /\ \E u \in Others(t) : Unnoted(u))
    BY <1>5 DEF Look, Note
  <2>2. \A u \in Others(t) : pc[u] \notin Locked
    BY <1>1 DEF HostInv, LockHeld, Others, Locked
  <2>3. \A u \in Others(t) : pc[u] \in Starts => Running
    BY <2>1, <2>2 DEF Starts, Locked, Unnoted
  <2>4. \A u \in Threads : pc[u] \in Starts => ~Running
    BY <2>1 DEF HostInv, Starter, Running
  <2>5. \A u \in Others(t) : pc'[u] \notin Starts
    BY <1>1, <2>3, <2>4 DEF Others
  <2>6. Live \subseteq {slot'} \union Starting
    BY <1>1, <2>1, SlotNumber DEF HostInv, Starter, Running, Live
  <2>7. QED
    BY <1>1, <1>4, <2>5, <2>6 DEF Others, Starts
<1>6. QED
  BY <1>3, <1>5 DEF Starter

\* What ends at or after the look, without an overlay of its own.
LEMMA ReturnSteps ==
  ASSUME HostInv, NEW t \in Threads, Owned(t) \/ NotOwned(t) \/ SpawnFails(t)
  PROVE  (LockHeld /\ ChildHeld /\ Awake /\ Starter)'
<1>1. pc[t] \in {"owned", "spawn"} /\ lock' = None /\ UNCHANGED <<slot, child, host, events>>
  BY DEF Owned, NotOwned, SpawnFails, At, Unlock, locals, overlay, history
<1>2. pc'[t] \in {"idle", "list", "undo"} /\ \A u \in Others(t) : pc'[u] = pc[u]
  BY Moved DEF Owned, NotOwned, SpawnFails, Finish, HostInv
<1>3. LockHeld'
  BY <1>1, <1>2, PetAssumption DEF HostInv, LockHeld, Locked, Others
<1>4. ChildHeld' /\ Awake' /\ Live' = Live /\ Starting' = Starting
  BY <1>1, <1>2 DEF HostInv, ChildHeld, Awake, Others, Live, Starting
<1>5. \A u \in Threads : pc'[u] \in Starts => pc[u] \in Starts
  BY <1>1, <1>2 DEF Others, Starts
<1>6. Starter'
  BY <1>1, <1>4, <1>5 DEF HostInv, Starter
<1>7. QED
  BY <1>3, <1>4, <1>6

LEMMA SpawnStep ==
  ASSUME HostInv, NEW t \in Threads, Spawn(t)
  PROVE  (LockHeld /\ ChildHeld /\ Awake /\ Starter)'
<1>1. pc[t] = "spawn" /\ pc'[t] = "wait" /\ \A u \in Others(t) : pc'[u] = pc[u]
  BY Moved DEF Spawn, At, HostInv
<1>2. UNCHANGED <<lock, slot, events>>
  BY DEF Spawn, history
<1>3. /\ Len(host) \in Nat /\ Len(host') = Len(host) + 1
      /\ DOMAIN host = 1..Len(host) /\ DOMAIN host' = 1..(Len(host) + 1)
      /\ \A h \in DOMAIN host : host'[h] = host[h]
  BY DEF Spawn, HostInv, TypeOK
<1>4. child'[t] = Len(host) + 1 /\ \A u \in Others(t) : child'[u] = child[u]
  BY <1>3 DEF Spawn, HostInv, TypeOK, Others
<1>5. LockHeld'
  BY <1>1, <1>2 DEF HostInv, LockHeld, Others, Locked
<1>6. ChildHeld'
  BY <1>1, <1>3, <1>4, PetAssumption DEF HostInv, ChildHeld, Others
<1>7. Awake'
  <2>1. slot # None => host'[slot] # "booting"
    BY <1>3 DEF HostInv, Awake, TypeOK
  <2>2. ASSUME NEW u \in Threads, pc'[u] = "fill" PROVE host'[child'[u]] # "booting"
    <3>1. u \in Others(t) /\ pc[u] = "fill"
      BY <1>1, <2>2 DEF Others
    <3>2. child[u] \in DOMAIN host /\ child'[u] = child[u]
      BY <1>4, <3>1 DEF HostInv, ChildHeld, TypeOK, Others
    <3>3. QED
      BY <1>3, <3>1, <3>2 DEF HostInv, Awake, Others
  <2>3. QED
    BY <1>2, <2>1, <2>2 DEF Awake
<1>8. Starter'
  <2>1. Live' \subseteq Live \union {child'[t]}
    BY <1>3, <1>4 DEF Live
  <2>2. Starting \union {child'[t]} \subseteq Starting'
    <3>1. Starting \subseteq Starting'
      BY <1>1, <1>4 DEF Starting, HostInv, ChildHeld, Others
    <3>2. child'[t] \in Starting'
      <4>1. child'[t] # None
        BY <1>3, <1>4, PetAssumption
      <4>2. QED
        BY <4>1 DEF Starting
    <3>3. QED
      BY <3>1, <3>2
  <2>3. \A u \in Threads : pc'[u] \in Starts <=> pc[u] \in Starts
    BY <1>1 DEF Others, Starts
  <2>4. QED
    BY <1>2, <2>1, <2>2, <2>3 DEF HostInv, Starter
<1>9. QED
  BY <1>5, <1>6, <1>7, <1>8

\* The end of the wait.
LEMMA WaitStep ==
  ASSUME HostInv, NEW t \in Threads, Healthy(t) \/ Died(t) \/ Unhealthy(t)
  PROVE  (LockHeld /\ ChildHeld /\ Awake /\ Starter)'
<1>1. /\ pc[t] = "wait" /\ lock' = None /\ UNCHANGED <<slot, child, host, events>>
      /\ Healthy(t) => host[child[t]] = "ready"
  BY DEF Healthy, Died, Unhealthy, At, Unlock, locals, overlay, history
<1>2. /\ pc'[t] \in {"fill", "kill"} /\ (pc'[t] = "fill" => Healthy(t))
      /\ \A u \in Others(t) : pc'[u] = pc[u]
  BY Moved DEF Healthy, Died, Unhealthy, HostInv
<1>3. LockHeld'
  BY <1>1, <1>2, PetAssumption DEF HostInv, LockHeld, Locked, Others
<1>4. ChildHeld' /\ Awake' /\ Live' = Live /\ Starting' = Starting
  BY <1>1, <1>2 DEF HostInv, ChildHeld, Awake, Others, Live, Starting
<1>5. \A u \in Threads : pc'[u] \in Starts <=> pc[u] \in Starts
  BY <1>1, <1>2 DEF Others, Starts
<1>6. Starter'
  BY <1>1, <1>4, <1>5 DEF HostInv, Starter
<1>7. QED
  BY <1>3, <1>4, <1>6

LEMMA FillStep ==
  ASSUME HostInv, NEW t \in Threads, FillSlot(t)
  PROVE  (LockHeld /\ ChildHeld /\ Awake /\ Starter)'
<1>1. /\ pc[t] = "fill" /\ pc'[t] \in {"idle", "list"}
      /\ \A u \in Others(t) : pc'[u] = pc[u]
  BY Moved DEF FillSlot, Finish, At, HostInv
<1>2. /\ slot' = child[t] /\ child'[t] = None
      /\ \A u \in Others(t) : child'[u] = child[u]
      /\ UNCHANGED <<lock, host, events>>
  BY DEF FillSlot, HostInv, TypeOK, Others, overlay, history
<1>3. LockHeld' /\ ChildHeld' /\ Awake'
  BY <1>1, <1>2 DEF HostInv, LockHeld, ChildHeld, Awake, Others, Locked
<1>4. Live' = Live /\ Starting \subseteq Starting' \union {slot'}
  BY <1>2 DEF Live, Starting, Others
<1>5. \A u \in Threads : pc'[u] \in Starts => u # t /\ pc[u] \in Starts
  BY <1>1 DEF Others, Starts
<1>6. Starter'
  BY <1>1, <1>2, <1>4, <1>5, SlotNumber DEF HostInv, Starter, Starts, Live
<1>7. QED
  BY <1>3, <1>6

LEMMA KillStep ==
  ASSUME HostInv, NEW t \in Threads, KillChild(t)
  PROVE  (LockHeld /\ ChildHeld /\ Awake /\ Starter)'
<1>1. /\ pc[t] = "kill" /\ pc'[t] = "clear" /\ \A u \in Others(t) : pc'[u] = pc[u]
      /\ child'[t] = None /\ \A u \in Others(t) : child'[u] = child[u]
      /\ UNCHANGED <<lock, slot, events>>
  BY Moved DEF KillChild, At, HostInv, TypeOK, Others, history
<1>2. /\ DOMAIN host' = DOMAIN host
      /\ \A h \in DOMAIN host : host'[h] = IF h = child[t] THEN "gone" ELSE host[h]
  BY ChangedSeq DEF KillChild, HostInv, TypeOK
<1>3. LockHeld' /\ ChildHeld'
  BY <1>1 DEF HostInv, LockHeld, ChildHeld, Others, Locked
<1>4. Awake'
  <2>1. slot # None => host'[slot] # "booting"
    BY <1>2 DEF HostInv, Awake, TypeOK
  <2>2. ASSUME NEW u \in Threads, pc'[u] = "fill" PROVE host'[child'[u]] # "booting"
    <3>1. u \in Others(t) /\ pc[u] = "fill"
      BY <1>1, <2>2 DEF Others
    <3>2. child[u] \in DOMAIN host /\ child'[u] = child[u]
      BY <1>1, <3>1 DEF HostInv, ChildHeld, TypeOK, Others
    <3>3. QED
      BY <1>2, <3>1, <3>2 DEF HostInv, Awake, Others
  <2>3. QED
    BY <1>1, <2>1, <2>2 DEF Awake
<1>5. Live' \subseteq Live \ {child[t]} /\ Starting \subseteq Starting' \union {child[t]}
  BY <1>1, <1>2 DEF Live, Starting, Others
<1>6. \A u \in Threads : pc'[u] \in Starts <=> pc[u] \in Starts
  BY <1>1 DEF Others, Starts
<1>7. Starter'
  BY <1>1, <1>5, <1>6 DEF HostInv, Starter
<1>8. QED
  BY <1>3, <1>4, <1>7

LEMMA ClearStep ==
  ASSUME HostInv, NEW t \in Threads, ClearSlot(t)
  PROVE  (LockHeld /\ ChildHeld /\ Awake /\ Starter)'
<1>1. /\ pc[t] = "clear" /\ pc'[t] = "undo" /\ \A u \in Others(t) : pc'[u] = pc[u]
      /\ slot' = None /\ UNCHANGED <<lock, child, host, events>>
  BY Moved DEF ClearSlot, At, HostInv, locals, overlay, history
<1>2. LockHeld' /\ ChildHeld' /\ Awake'
  BY <1>1 DEF HostInv, LockHeld, ChildHeld, Awake, Others, Locked
<1>3. Live' = Live /\ Starting' = Starting
  BY <1>1 DEF Live, Starting
<1>4. \A u \in Threads : pc'[u] \in Starts => u # t /\ pc[u] \in Starts
  BY <1>1 DEF Others, Starts
<1>5. Starter'
  BY <1>1, <1>3, <1>4 DEF HostInv, Starter, Starts
<1>6. QED
  BY <1>2, <1>5

\* The overlays, which can become ready or gone, and the reaping of one that is gone.
LEMMA OverlaySteps ==
  ASSUME HostInv, Reap \/ \E h \in DOMAIN host : \/ Ready(h) \/ Exits(h)
                                                  \/ \E what \in Commands : Gives(h, what)
  PROVE  (LockHeld /\ ChildHeld /\ Awake /\ Starter)'
<1>1. UNCHANGED <<pc, lock, child, events>>
  BY DEF Ready, Exits, Gives, Reap, locals, history
<1>2. LockHeld' /\ ChildHeld' /\ Starting' = Starting
  BY <1>1 DEF HostInv, LockHeld, ChildHeld, Starting
<1>3. CASE Reap
  <2>1. slot # None /\ host[slot] = "gone" /\ slot' = None /\ host' = host
    BY <1>3 DEF Reap, overlay
  <2>2. Live' = Live /\ slot \notin Live
    BY <2>1 DEF Live
  <2>3. QED
    BY <1>1, <1>2, <2>1, <2>2 DEF HostInv, Awake, Starter
<1>4. CASE \E h \in DOMAIN host : Ready(h) \/ Exits(h) \/ \E what \in Commands : Gives(h, what)
  <2>1. slot' = slot
    BY <1>4 DEF Ready, Exits, Gives
  <2>2. /\ DOMAIN host' = DOMAIN host
        /\ \A h \in DOMAIN host : host'[h] \in {host[h], "ready", "gone"}
        /\ \A h \in DOMAIN host : host[h] = "gone" => host'[h] = "gone"
    BY <1>4, ChangedSeq DEF Ready, Exits, Gives, HostInv, TypeOK
  <2>3. Live' \subseteq Live
    BY <2>2 DEF Live
  <2>4. Awake'
    BY <1>1, <2>1, <2>2 DEF HostInv, Awake, ChildHeld, TypeOK
  <2>5. Starter'
    BY <1>1, <1>2, <2>1, <2>3 DEF HostInv, Starter
  <2>6. QED
    BY <1>2, <2>4, <2>5
<1>5. QED
  BY <1>3, <1>4

LEMMA HostInit == Init => HostInv
<1> SUFFICES ASSUME Init PROVE HostInv
  OBVIOUS
<1>1. TypeOK
  BY InitType
<1>2. LockHeld /\ ChildHeld /\ Awake
  BY PetAssumption DEF Init, LockHeld, ChildHeld, Awake, Locked
<1>3. Live = {}
  BY DEF Init, Live
<1>4. QED
  BY <1>1, <1>2, <1>3 DEF Init, HostInv, Starter, Starts

LEMMA HostStep == HostInv /\ [Next]_vars => HostInv'
<1> SUFFICES ASSUME HostInv, [Next]_vars PROVE HostInv'
  OBVIOUS
<1>1. TypeOK'
  BY NextType DEF HostInv
<1>2. (LockHeld /\ ChildHeld /\ Awake /\ Starter)'
  <2>1. ASSUME NEW t \in Threads, Configure(t) \/ Refresh(t) \/ Drain(t) \/ Step(t)
        PROVE  (LockHeld /\ ChildHeld /\ Awake /\ Starter)'
    BY <2>1, CalmSteps, LockStep, LookStep, ReturnSteps, SpawnStep, WaitStep, FillStep, KillStep,
       ClearStep DEF Step
  <2>2. CASE UNCHANGED vars
    BY <2>2 DEF vars, locals, overlay, history, HostInv, LockHeld, ChildHeld, Awake, Starter,
                Live, Starting
  <2>3. QED
    BY <2>1, <2>2, OverlaySteps DEF Next
<1>3. QED
  BY <1>1, <1>2 DEF HostInv

LEMMA HostInvariant == Spec => []HostInv
<1>1. QED
  BY HostInit, HostStep, PTL DEF Spec

\* As long as nobody looked between the release of the lock and the note in the slot, there is
\* one overlay at most and the kernel can stop it; and it never tracks one that has not
\* reported ready.
THEOREM SupervisedCorrect == Spec => []Supervised
<1>1. HostInv => Supervised
  <2> SUFFICES ASSUME HostInv PROVE Supervised
    OBVIOUS
  <2>1. slot # None => host[slot] # "booting"
    BY DEF HostInv, Awake
  <2>2. ASSUME "gap" \notin events
        PROVE  Live \subseteq {slot} \union Starting /\ \A h, k \in Live : h = k
    <3>1. /\ Live \subseteq {slot} \union Starting
          /\ \A h \in Starting : \E t \in Threads :
               h = child[t] /\ pc[t] \in Starts /\ slot = None
          /\ \A t, u \in Threads : pc[t] \in Starts /\ pc[u] \in Starts => t = u
      BY <2>2 DEF HostInv, Starter, ChildHeld, Starting, Starts
    <3>2. None \notin Live
      BY SlotNumber DEF HostInv, Live
    <3>3. QED
      BY <3>1, <3>2
  <2>3. QED
    BY <2>1, <2>2 DEF Supervised
<1>2. QED
  BY <1>1, HostInvariant, PTL
-----------------------------------------------------------------------------
(* The state file.                                                         *)

\* A publication that is alone finds its temporary file as it has left it.
AlonePublishes ==
  "publications" \notin events =>
    /\ \A t, u \in Threads : Publishing(t) /\ Publishing(u) => t = u
    /\ \A t \in Threads : pc[t] = "write" => handle[t] = "tmp" /\ tmp = "empty"
    /\ \A t \in Threads : pc[t] = "rename" => tmp = Says(visible[t])
    /\ shown \notin {"empty", "mixed"}

\* A step of a thread that is not publishing, and stays so.
LEMMA AlongsideStep ==
  ASSUME TypeOK, AlonePublishes, NEW t \in Threads, ~Publishing(t), ~Publishing(t)',
         \A u \in Others(t) : pc'[u] = pc[u], UNCHANGED disk,
         \A u \in Others(t) : visible'[u] = visible[u], events \subseteq events'
  PROVE  AlonePublishes'
BY DEF AlonePublishes, Publishing, Others, disk

LEMMA PublishSteps ==
  ASSUME TypeOK, AlonePublishes, NEW t \in Threads,
         \/ ReadPlace(t) \/ ReadSnapshot(t) \/ OpenTmp(t) \/ WriteTmp(t) \/ WriteFails(t)
         \/ RenameTmp(t) \/ RenameRefused(t) \/ RemoveTmp(t)
  PROVE  AlonePublishes'
<1> SUFFICES ASSUME "publications" \notin events'
             PROVE  /\ \A u, v \in Threads : Publishing(u)' /\ Publishing(v)' => u = v
                    /\ \A u \in Threads : pc'[u] = "write" => handle'[u] = "tmp" /\ tmp' = "empty"
                    /\ \A u \in Threads : pc'[u] = "rename" => tmp' = Says(visible'[u])
                    /\ shown' \notin {"empty", "mixed"}
  BY DEF AlonePublishes
<1> USE DEF At, Goto
<1>1. "publications" \notin events
  BY DEF ReadPlace, ReadSnapshot, OpenTmp, WriteTmp, WriteFails, RenameTmp, RenameRefused,
         RemoveTmp, Note, history
<1>2. \A u \in Others(t) : pc'[u] = pc[u]
  BY DEF ReadPlace, ReadSnapshot, OpenTmp, WriteTmp, WriteFails, RenameTmp, RenameRefused,
         RemoveTmp, Published, Finish, Others, TypeOK
<1>3. \A u \in Others(t) : ~Publishing(u)
  BY <1>1 DEF ReadPlace, ReadSnapshot, OpenTmp, WriteTmp, WriteFails, RenameTmp, RenameRefused,
              RemoveTmp, AlonePublishes, Publishing, Others, Note
<1>4. \A u \in Others(t) : ~Publishing(u)'
  BY <1>2, <1>3 DEF Publishing
<1>5. CASE ReadPlace(t) \/ ReadSnapshot(t)
  BY <1>1, <1>4, <1>5 DEF ReadPlace, ReadSnapshot, disk, AlonePublishes, Publishing, Others, TypeOK
<1>6. CASE OpenTmp(t)
  BY <1>1, <1>4, <1>6 DEF OpenTmp, AlonePublishes, Publishing, Others, TypeOK
<1>7. CASE WriteTmp(t)
  <2>1. handle[t] = "tmp" /\ tmp = "empty" /\ shown \notin {"empty", "mixed"}
    BY <1>1, <1>7 DEF WriteTmp, AlonePublishes
  <2>2. tmp' = Says(visible[t]) /\ shown' = shown /\ visible' = visible /\ pc'[t] = "rename"
    BY <1>7, <2>1 DEF WriteTmp, Over, locals, TypeOK
  <2>3. QED
    BY <1>4, <2>1, <2>2 DEF Publishing, Others
<1>8. CASE WriteFails(t)
  <2>1. shown' = shown /\ shown \notin {"empty", "mixed"}
    BY <1>1, <1>8 DEF WriteFails, AlonePublishes
  <2>2. ~Publishing(t)'
    BY <1>8 DEF WriteFails, Published, Finish, Publishing, TypeOK
  <2>3. QED
    BY <1>4, <2>1, <2>2 DEF Publishing, Others
<1>9. CASE RenameTmp(t)
  <2>1. tmp = Says(visible[t]) /\ shown' = tmp /\ pc'[t] = "tidy"
    BY <1>1, <1>9 DEF RenameTmp, AlonePublishes, Says, TypeOK
  <2>2. QED
    BY <1>4, <2>1 DEF Publishing, Others, Says
<1>10. CASE RenameRefused(t) \/ RemoveTmp(t)
  <2>1. shown' = shown /\ shown \notin {"empty", "mixed"}
    BY <1>1, <1>10 DEF RenameRefused, RemoveTmp, AlonePublishes, disk
  <2>2. pc'[t] \notin {"snapshot", "open", "write", "rename"}
    BY <1>10 DEF RenameRefused, RemoveTmp, Published, Finish, TypeOK
  <2>3. QED
    BY <1>4, <2>1, <2>2 DEF Publishing, Others
<1>11. QED
  BY <1>5, <1>6, <1>7, <1>8, <1>9, <1>10

LEMMA PublishNext == TypeOK /\ AlonePublishes /\ [Next]_vars => AlonePublishes'
<1> SUFFICES ASSUME TypeOK, AlonePublishes, [Next]_vars PROVE AlonePublishes'
  OBVIOUS
<1>1. ASSUME NEW t \in Threads,
             \/ Configure(t) \/ Refresh(t) \/ Drain(t)
             \/ List(t) \/ Take(t) \/ TakenByOther(t) \/ NothingLeft(t)
             \/ ReadInApp(t) \/ ReadEnabled(t) \/ StopMoved(t) \/ StopOff(t) \/ SetEnabled(t)
             \/ SetInApp(t) \/ Unavailable(t) \/ Lock(t) \/ Look(t) \/ Owned(t) \/ NotOwned(t)
             \/ Spawn(t) \/ SpawnFails(t) \/ Healthy(t) \/ Died(t) \/ Unhealthy(t)
             \/ FillSlot(t) \/ KillChild(t) \/ ClearSlot(t) \/ Undo(t)
      PROVE  AlonePublishes'
  <2>1. ~Publishing(t) /\ ~Publishing(t)'
    BY <1>1 DEF Configure, BeginConfigure, Refresh, Drain, List, Take, TakenByOther, NothingLeft,
         ReadInApp, ReadEnabled, StopMoved, StopOff, SetEnabled, SetInApp, Unavailable, Lock,
         TakeLock, Look, Owned, NotOwned, Spawn, SpawnFails, Healthy, Died, Unhealthy, FillSlot,
         KillChild, ClearSlot, Undo, Finish, At, Goto, Publishing, TypeOK
  <2>2. \A u \in Others(t) : pc'[u] = pc[u] /\ visible'[u] = visible[u]
    BY <1>1 DEF Configure, BeginConfigure, Refresh, Drain, List, Take, TakenByOther, NothingLeft,
         ReadInApp, ReadEnabled, StopMoved, StopOff, SetEnabled, SetInApp, Unavailable, Lock,
         TakeLock, Look, Owned, NotOwned, Spawn, SpawnFails, Healthy, Died, Unhealthy, FillSlot,
         KillChild, ClearSlot, Undo, Finish, Goto, Others, TypeOK, locals
  <2>3. UNCHANGED disk /\ events \subseteq events'
    BY <1>1 DEF Configure, BeginConfigure, Refresh, Drain, List, Take, TakenByOther, NothingLeft,
         ReadInApp, ReadEnabled, StopMoved, StopOff, SetEnabled, SetInApp, Unavailable, Lock,
         TakeLock, Look, Owned, NotOwned, Spawn, SpawnFails, Healthy, Died, Unhealthy, FillSlot,
         KillChild, ClearSlot, Undo, Note, history
  <2>4. QED
    BY <2>1, <2>2, <2>3, AlongsideStep
<1>2. ASSUME UNCHANGED <<pc, visible, disk, events>> PROVE AlonePublishes'
  BY <1>2 DEF AlonePublishes, Publishing, disk
<1>3. ASSUME \/ Reap \/ UNCHANGED vars
             \/ \E h \in DOMAIN host : Ready(h) \/ Exits(h) \/ \E what \in Commands : Gives(h, what)
      PROVE  UNCHANGED <<pc, visible, disk, events>>
  BY <1>3 DEF Ready, Exits, Gives, Reap, vars, locals, history
<1>4. QED
  BY <1>1, <1>2, <1>3, PublishSteps DEF Next, Step

\* The state file the overlay polls is never empty and never mixed from two texts, as long as
\* no two publications overlap, whatever fails and whoever is at work elsewhere.
THEOREM ShownIsWhole == Spec => []ShownWhole
<1>1. Init => AlonePublishes
  BY DEF Init, AlonePublishes, Publishing
<1>2. TypeOK /\ AlonePublishes /\ [Next]_vars => AlonePublishes'
  BY PublishNext
<1>3. AlonePublishes => ShownWhole
  BY DEF AlonePublishes, ShownWhole
<1>4. QED
  BY <1>1, <1>2, <1>3, TypeCorrect, PTL DEF Spec
-----------------------------------------------------------------------------
(* The commands.                                                           *)

\* The commands carried out, and after them those that wait, are numbered as they were
\* given; the list of a thread is a stretch of them that begins no later than with the first
\* that waits.
Stretch(s) ==
  /\ \A i \in 1..Len(s) : s[i] = s[1] + i - 1 /\ s[i] <= given
  /\ s # <<>> => s[1] <= Len(executed) + 1

Numbered ==
  /\ Len(executed) + Len(queue) = given
  /\ \A i \in 1..Len(executed) : executed[i] = i
  /\ \A i \in 1..Len(queue) : queue[i].id = Len(executed) + i
  /\ \A t \in Threads : Stretch(list[t])

LEMMA ListStep ==
  ASSUME TypeOK, Numbered, NEW t \in Threads, List(t)
  PROVE  Numbered'
<1>1. UNCHANGED <<executed, queue, given>> /\ list' = [list EXCEPT ![t] = Names(queue)]
  BY DEF List, overlay, history
<1>2. Stretch(Names(queue))
  <2>1. /\ Len(Names(queue)) = Len(queue) /\ Names(queue) \in Seq(Nat)
        /\ \A i \in 1..Len(queue) : Names(queue)[i] = queue[i].id
    BY NamesType DEF TypeOK
  <2>2. \A i \in 1..Len(queue) : Names(queue)[i] = Len(executed) + i
    BY <2>1 DEF Numbered
  <2>3. Names(queue) # <<>> => 1 \in 1..Len(queue)
    BY <2>1
  <2>4. Len(executed) \in Nat /\ Len(queue) \in Nat /\ given = Len(executed) + Len(queue)
    BY LenProperties DEF TypeOK, Numbered
  <2>5. ASSUME NEW i \in 1..Len(queue)
        PROVE  /\ Names(queue)[i] = Names(queue)[1] + i - 1
               /\ Names(queue)[i] <= given
    <3>1. 1 \in 1..Len(queue)
      BY <2>4
    <3>2. Names(queue)[i] = Len(executed) + i /\ Names(queue)[1] = Len(executed) + 1
      BY <2>2, <3>1
    <3>3. QED
      BY <2>4, <3>2
  <2>6. QED
    BY <2>1, <2>2, <2>3, <2>4, <2>5 DEF Stretch
<1>3. \A u \in Threads : Stretch(list'[u])
  BY <1>1, <1>2 DEF Numbered, TypeOK
<1>4. \A u \in Threads : Stretch(list[u])'
  BY <1>1, <1>3 DEF Stretch
<1>5. QED
  BY <1>1, <1>4 DEF Numbered

\* The first of a thread's list that still waits is the first that waits.
LEMMA TakeStep ==
  ASSUME TypeOK, Numbered, NEW t \in Threads, Take(t)
  PROVE  Numbered'
<1> DEFINE id == Head(list[t])
<1>1. /\ list[t] # <<>> /\ Pending(id) /\ TakeOff(id) /\ executed' = Append(executed, id)
      /\ list' = [list EXCEPT ![t] = <<>>] /\ given' = given
  BY DEF Take
<1>2. /\ list[t] \in Seq(Nat) /\ id = list[t][1] /\ id \in Nat /\ id <= Len(executed) + 1
      /\ Len(executed) \in Nat /\ Len(queue) \in Nat
      /\ DOMAIN queue = 1..Len(queue)
  BY <1>1, LenProperties, HeadTailProperties DEF TypeOK, Numbered, Stretch
<1>3. Where(id) \in 1..Len(queue) /\ queue[Where(id)].id = id
  BY <1>1, <1>2 DEF Pending, Where
<1>4. Where(id) = 1 /\ id = Len(executed) + 1 /\ Len(queue) > 0
  BY <1>2, <1>3 DEF Numbered
<1>5. queue' = SubSeq(queue, 1, 0) \o SubSeq(queue, 2, Len(queue))
  BY <1>1, <1>4 DEF TakeOff, RemoveAt
<1>6. /\ Len(queue') = Len(queue) - 1
      /\ \A i \in 1..(Len(queue) - 1) : queue'[i] = queue[i + 1]
  <2>1. queue \in Seq([id : Nat, what : Commands]) /\ Len(queue) \in Nat
    BY <1>2 DEF TypeOK
  <2>2. SubSeq(queue, 1, 0) = <<>>
    BY SubSeqEmpty
  <2>3. /\ SubSeq(queue, 2, Len(queue)) \in Seq([id : Nat, what : Commands])
        /\ Len(SubSeq(queue, 2, Len(queue))) = Len(queue) - 1
        /\ \A i \in 1..(Len(queue) - 1) : SubSeq(queue, 2, Len(queue))[i] = queue[i + 1]
    <3>1. \A i \in 2..Len(queue) : queue[i] \in [id : Nat, what : Commands]
      <4>1. 2..Len(queue) \subseteq 1..Len(queue)
        BY <2>1
      <4>2. QED
        BY <2>1, <4>1, ElementOfSeq
    <3>2. Len(queue) \in Int /\ 2 \in Int
      BY <2>1
    <3>3. /\ SubSeq(queue, 2, Len(queue)) \in Seq([id : Nat, what : Commands])
          /\ Len(SubSeq(queue, 2, Len(queue)))
               = IF 2 <= Len(queue) THEN Len(queue) - 2 + 1 ELSE 0
          /\ \A i \in 1..(Len(queue) - 2 + 1) :
               SubSeq(queue, 2, Len(queue))[i] = queue[2 + i - 1]
      BY <3>1, <3>2, SubSeqProperties
    <3>4. Len(SubSeq(queue, 2, Len(queue))) = Len(queue) - 1
      <4> DEFINE n == Len(queue)
      <4>1. n \in Nat /\ n > 0
        BY <1>4, <2>1
      <4>2. (IF 2 <= n THEN n - 2 + 1 ELSE 0) = n - 1
        <5> HIDE DEF n
        <5>1. QED
          BY <4>1
      <4>3. QED
        BY <3>3, <4>2
    <3>5. ASSUME NEW i \in 1..(Len(queue) - 1)
          PROVE  SubSeq(queue, 2, Len(queue))[i] = queue[i + 1]
      <4>1. i \in 1..(Len(queue) - 2 + 1) /\ 2 + i - 1 = i + 1
        BY <2>1
      <4>2. QED
        BY <3>3, <4>1
    <3>6. QED
      BY <3>3, <3>4, <3>5
  <2>4. queue' = SubSeq(queue, 2, Len(queue))
    BY <1>5, <2>2, <2>3, ConcatEmptySeq
  <2>5. QED
    BY <2>3, <2>4
<1>7. /\ Len(executed') = Len(executed) + 1
      /\ \A i \in 1..(Len(executed) + 1) :
           executed'[i] = IF i = Len(executed) + 1 THEN id ELSE executed[i]
  BY <1>1, <1>2 DEF TypeOK
<1>8. \A i \in 1..Len(executed') : executed'[i] = i
  <2>1. ASSUME NEW i \in 1..(Len(executed) + 1) PROVE executed'[i] = i
    <3>1. CASE i = Len(executed) + 1
      BY <1>4, <1>7, <3>1
    <3>2. CASE i # Len(executed) + 1
      <4>1. i \in 1..Len(executed)
        BY <1>2, <3>2
      <4>2. QED
        BY <1>7, <3>2, <4>1 DEF Numbered
    <3>3. QED
      BY <3>1, <3>2
  <2>2. QED
    BY <1>7, <2>1
<1>9. \A i \in 1..Len(queue') : queue'[i].id = Len(executed') + i
  BY <1>2, <1>6, <1>7 DEF Numbered
<1>10. ASSUME NEW u \in Threads PROVE Stretch(list[u])'
  <2>1. CASE u = t
    BY <1>1, <2>1 DEF Stretch, TypeOK
  <2>2. CASE u # t
    <3>1. list'[u] = list[u] /\ list[u] \in Seq(Nat)
      BY <1>1, <2>2 DEF TypeOK
    <3>2. list[u] # <<>> => list[u][1] \in Nat
      BY <3>1
    <3>3. Stretch(list[u]) /\ given' = given /\ list[u] = list'[u]
      BY <1>1, <3>1 DEF Numbered
    <3>4. /\ \A i \in 1..Len(list[u]) : list[u][i] = list[u][1] + i - 1 /\ list[u][i] <= given
          /\ list[u] # <<>> => list[u][1] <= Len(executed) + 1
      BY <3>3 DEF Stretch
    <3>5. list[u] # <<>> => list[u][1] <= Len(executed') + 1
      BY <1>2, <1>7, <3>2, <3>4
    <3>6. QED
      BY <3>3, <3>4, <3>5 DEF Stretch
  <2>3. QED
    BY <2>1, <2>2
<1>11. QED
  BY <1>1, <1>2, <1>6, <1>7, <1>8, <1>9, <1>10 DEF Numbered

\* One that another thread has is passed over.
LEMMA PassStep ==
  ASSUME TypeOK, Numbered, NEW t \in Threads, TakenByOther(t)
  PROVE  Numbered'
<1> DEFINE id == Head(list[t])
<1>1. /\ list[t] # <<>> /\ ~Pending(id) /\ list' = [list EXCEPT ![t] = Tail(list[t])]
      /\ UNCHANGED <<executed, queue, given>>
  BY DEF TakenByOther, overlay, history
<1>2. /\ list[t] \in Seq(Nat) /\ Len(list[t]) \in Nat \ {0} /\ id = list[t][1] /\ id \in Nat
      /\ id <= Len(executed) + 1 /\ id <= given
      /\ Len(executed) \in Nat /\ Len(queue) \in Nat /\ DOMAIN queue = 1..Len(queue)
  BY <1>1, LenProperties, HeadTailProperties, EmptySeq DEF TypeOK, Numbered, Stretch
<1>3. id <= Len(executed)
  <2> SUFFICES ASSUME id = Len(executed) + 1 PROVE FALSE
    BY <1>2
  <2>1. 1 \in DOMAIN queue /\ queue[1].id = id
    BY <1>2 DEF Numbered
  <2>2. QED
    BY <1>1, <2>1 DEF Pending
<1>4. /\ Tail(list[t]) \in Seq(Nat) /\ Len(Tail(list[t])) = Len(list[t]) - 1
      /\ \A i \in 1..(Len(list[t]) - 1) : Tail(list[t])[i] = list[t][i + 1]
  BY <1>1, <1>2, HeadTailProperties
<1>5. \A i \in 1..Len(list[t]) : list[t][i] = id + i - 1 /\ list[t][i] <= given
  BY <1>2 DEF Numbered, Stretch
<1>6. \A i \in 1..(Len(list[t]) - 1) : Tail(list[t])[i] = id + i /\ Tail(list[t])[i] <= given
  BY <1>2, <1>4, <1>5
<1>7. Stretch(Tail(list[t]))
  <2>1. Tail(list[t]) # <<>> => 1 \in 1..(Len(list[t]) - 1)
    BY <1>2, <1>4
  <2>2. \A i \in 1..(Len(list[t]) - 1) : 1 \in 1..(Len(list[t]) - 1)
    BY <1>2
  <2>3. QED
    <3>1. Tail(list[t]) # <<>> => Tail(list[t])[1] = id + 1
      BY <1>6, <2>1
    <3>2. ASSUME NEW i \in 1..(Len(list[t]) - 1)
          PROVE  /\ Tail(list[t])[i] = Tail(list[t])[1] + i - 1
                 /\ Tail(list[t])[i] <= given
      <4>1. Tail(list[t])[1] = id + 1 /\ Tail(list[t])[i] = id + i
        BY <1>6, <2>2
      <4>2. QED
        BY <1>2, <1>6, <4>1
    <3>3. Tail(list[t]) # <<>> => Tail(list[t])[1] <= Len(executed) + 1
      <4>1. ASSUME NEW i \in Nat, NEW n \in Nat, i <= n PROVE i + 1 <= n + 1
        BY <4>1
      <4>2. id + 1 <= Len(executed) + 1
        BY <1>2, <1>3, <4>1
      <4> HIDE DEF id
      <4>3. QED
        BY <3>1, <4>2
    <3>4. QED
      BY <1>4, <3>2, <3>3 DEF Stretch
<1>8. \A u \in Threads : Stretch(list'[u])
  BY <1>1, <1>7 DEF Numbered, TypeOK
<1>9. \A u \in Threads : Stretch(list[u])'
  BY <1>1, <1>8 DEF Stretch
<1>10. QED
  BY <1>1, <1>9 DEF Numbered

LEMMA GiveStep ==
  ASSUME TypeOK, Numbered, NEW h \in DOMAIN host, NEW what \in Commands, Gives(h, what)
  PROVE  Numbered'
<1>1. /\ given' = given + 1 /\ queue' = Append(queue, [id |-> given', what |-> what])
      /\ UNCHANGED <<executed, list>>
  BY DEF Gives, locals, history
<1>2. Len(executed) \in Nat /\ Len(queue) \in Nat /\ given \in Nat
  BY LenProperties DEF TypeOK
<1>3. /\ Len(queue') = Len(queue) + 1
      /\ \A i \in 1..Len(queue) : queue'[i] = queue[i]
      /\ queue'[Len(queue) + 1].id = given + 1
  BY <1>1, <1>2 DEF TypeOK
<1>4. \A i \in 1..Len(queue') : queue'[i].id = Len(executed) + i
  <2>1. ASSUME NEW i \in 1..(Len(queue) + 1) PROVE queue'[i].id = Len(executed) + i
    <3>1. CASE i = Len(queue) + 1
      BY <1>2, <1>3, <3>1 DEF Numbered
    <3>2. CASE i # Len(queue) + 1
      <4>1. i \in 1..Len(queue)
        BY <1>2, <3>2
      <4>2. QED
        BY <1>3, <4>1 DEF Numbered
    <3>3. QED
      BY <3>1, <3>2
  <2>2. QED
    BY <1>1, <1>3, <2>1
<1>5. ASSUME NEW u \in Threads PROVE Stretch(list[u])'
  <2>1. \A i \in 1..Len(list[u]) : list[u][i] \in Nat
    BY LenProperties DEF TypeOK
  <2>2. QED
    BY <1>1, <1>2, <2>1 DEF Numbered, Stretch
<1>6. QED
  BY <1>1, <1>2, <1>3, <1>4, <1>5 DEF Numbered

LEMMA NumberedNext == TypeOK /\ Numbered /\ [Next]_vars => Numbered'
<1> SUFFICES ASSUME TypeOK, Numbered, [Next]_vars PROVE Numbered'
  OBVIOUS
<1>1. ASSUME UNCHANGED <<executed, queue, given, list>> PROVE Numbered'
  BY <1>1 DEF Numbered, Stretch
<1>2. ASSUME NEW t \in Threads,
             \/ Configure(t) \/ Refresh(t) \/ Drain(t)
             \/ NothingLeft(t) \/ ReadInApp(t) \/ ReadEnabled(t) \/ StopMoved(t)
             \/ StopOff(t) \/ SetEnabled(t) \/ SetInApp(t) \/ ReadPlace(t) \/ ReadSnapshot(t)
             \/ OpenTmp(t) \/ WriteTmp(t) \/ WriteFails(t) \/ RenameTmp(t) \/ RenameRefused(t)
             \/ RemoveTmp(t) \/ Unavailable(t) \/ Lock(t) \/ Look(t) \/ Owned(t)
             \/ NotOwned(t) \/ Spawn(t) \/ SpawnFails(t) \/ Healthy(t) \/ Died(t)
             \/ Unhealthy(t) \/ FillSlot(t) \/ KillChild(t) \/ ClearSlot(t) \/ Undo(t)
      PROVE  UNCHANGED <<executed, queue, given, list>>
  BY <1>2 DEF Configure, Refresh, Drain, NothingLeft, ReadInApp, ReadEnabled, StopMoved, StopOff,
       SetEnabled, SetInApp, ReadPlace, ReadSnapshot, OpenTmp, WriteTmp, WriteFails, RenameTmp,
       RenameRefused, RemoveTmp, Unavailable, Lock, Look, Owned, NotOwned, Spawn, SpawnFails,
       Healthy, Died, Unhealthy, FillSlot, KillChild, ClearSlot, Undo, overlay, history, locals
<1>3. ASSUME \/ Reap \/ UNCHANGED vars \/ \E h \in DOMAIN host : Ready(h) \/ Exits(h)
      PROVE  UNCHANGED <<executed, queue, given, list>>
  BY <1>3 DEF Ready, Exits, Reap, vars, locals, overlay, history
<1>4. QED
  BY <1>1, <1>2, <1>3, ListStep, TakeStep, PassStep, GiveStep DEF Next, Step

\* However many threads drain the directory at once, every command is carried out once, in the
\* order given, and none is lost.
THEOREM CommandsAreOnce == Spec => []CommandsOnce
<1>1. Init => Numbered
  BY DEF Init, Numbered, Stretch
<1>2. TypeOK /\ Numbered => CommandsOnce
  <2> SUFFICES ASSUME TypeOK, Numbered PROVE CommandsOnce
    OBVIOUS
  <2>1. /\ Names(queue) \in Seq(Nat) /\ Len(Names(queue)) = Len(queue)
        /\ \A i \in 1..Len(queue) : Names(queue)[i] = Len(executed) + i
    BY NamesType DEF TypeOK, Numbered
  <2>2. /\ executed \in Seq(Nat) /\ Len(executed) \in Nat /\ Len(queue) \in Nat
        /\ given = Len(executed) + Len(queue)
    BY LenProperties DEF TypeOK, Numbered
  <2>3. /\ executed \o Names(queue) \in Seq(Nat) /\ Len(executed \o Names(queue)) = given
        /\ \A i \in 1..given : (executed \o Names(queue))[i] = i
    <3>1. /\ executed \o Names(queue) \in Seq(Nat)
          /\ Len(executed \o Names(queue)) = given
          /\ \A i \in 1..given : (executed \o Names(queue))[i] =
               IF i <= Len(executed) THEN executed[i] ELSE Names(queue)[i - Len(executed)]
      <4>1. /\ executed \o Names(queue) \in Seq(Nat)
            /\ Len(executed \o Names(queue)) = Len(executed) + Len(Names(queue))
            /\ \A i \in 1..(Len(executed) + Len(Names(queue))) :
                 (executed \o Names(queue))[i] =
                   IF i <= Len(executed) THEN executed[i] ELSE Names(queue)[i - Len(executed)]
        BY <2>1, <2>2, ConcatProperties
      <4>2. Len(executed) + Len(Names(queue)) = given
        BY <2>1, <2>2
      <4>3. QED
        BY <4>1, <4>2
    <3>2. ASSUME NEW i \in 1..given PROVE (executed \o Names(queue))[i] = i
      <4>1. CASE i <= Len(executed)
        <5>1. i \in 1..Len(executed)
          BY <2>2, <4>1
        <5>2. QED
          BY <3>1, <4>1, <5>1 DEF Numbered
      <4>2. CASE ~(i <= Len(executed))
        <5>1. i - Len(executed) \in 1..Len(queue)
          BY <2>2, <4>2
        <5>2. Names(queue)[i - Len(executed)] = Len(executed) + (i - Len(executed))
          BY <2>1, <5>1
        <5>3. QED
          BY <2>2, <3>1, <4>2, <5>2
      <4>3. QED
        BY <4>1, <4>2
    <3>3. QED
      BY <3>1, <3>2
  <2>4. executed \o Names(queue) = [i \in 1..given |-> i]
    BY <2>3, LenProperties
  <2>5. QED
    BY <2>4 DEF CommandsOnce
<1>3. QED
  BY <1>1, <1>2, NumberedNext, TypeCorrect, PTL DEF Spec
-----------------------------------------------------------------------------
(* What is left when the requests are answered.                            *)

Calling == {"idle", "list", "take"}
Publication == {"publish", "snapshot", "open", "write", "rename", "tidy"}
\* start_pet_host, and what follows a failure.
InStart == {"start", "look", "owned", "spawn", "wait", "fill", "kill", "clear", "undo"}
Changing == Places \ (Calling \union Publication)

\* Who is in configure_pet, and that a look in the gap takes two configures.
OneConfigure ==
  /\ \A t \in Threads : pc[t] \in Changing => cfg[t].active
  /\ \A t \in Threads : pc[t] \in Calling => ~cfg[t].active
  /\ \A t \in Threads : cfg[t].failed => cfg[t].active /\ pc[t] \in Publication
  /\ "configures" \notin events => \A t, u \in Threads : cfg[t].active /\ cfg[u].active => t = u
  /\ "gap" \in events => "configures" \in events

Calm ==
  /\ events \intersect {"configures", "publications"} = {}
  /\ faults \intersect {"install", "disk"} = {}

\* What a configure has read and done on its way.
Decided(t) ==
  /\ pc[t] \in {"wasOn", "stop", "stopOff", "set", "place"} => cfg[t].wasIn = inApp
  /\ pc[t] \in {"stop", "stopOff", "set"} => cfg[t].wasOn = enabled
  /\ pc[t] \in {"stop", "stopOff"} => cfg[t].on # "keep"
  /\ pc[t] = "stopOff" /\ Live # {} => ~MovesAway(cfg[t])
  /\ pc[t] \in {"set", "place"} /\ Live # {} => cfg[t].on = "yes" /\ cfg[t].in # "yes"
  /\ pc[t] = "place" \/ (pc[t] \in Publication /\ Given(t)) => enabled = (cfg[t].on = "yes")
  /\ pc[t] \in Publication /\ Given(t) => inApp = (cfg[t].in = "yes")
  /\ pc[t] \in InStart => Wish /\ shown # "earlier"
  /\ pc[t] = "owned" => slot \in {saw[t], None}
  /\ pc[t] = "undo" => Live = {}

\* A configure has changed the wish and has not yet begun to publish it.
Ahead == \E t \in Threads : cfg[t].active /\ pc[t] \in {"place", "publish"}

\* What a publication is about to write, and what it has written.
Written(t) ==
  /\ pc[t] \in {"place", "publish"} /\ Given(t) => visible[t] = enabled
  /\ pc[t] = "snapshot" /\ ~Ahead => visible[t] = ~inApp
  /\ pc[t] \in {"open", "write", "rename"} /\ ~Ahead => visible[t] = Wish
  /\ pc[t] = "tidy" => shown # "earlier"

Writing == \E t \in Threads : pc[t] \in {"snapshot", "open", "write", "rename"}

Agreed ==
  /\ Live # {} => Wish /\ shown # "earlier"
  /\ ~Ahead /\ ~Writing => shown \in {"earlier", Says(Wish)}

RestInv == Calm => Agreed /\ \A t \in Threads : Decided(t) /\ Written(t)
-----------------------------------------------------------------------------
\* A step of a thread leaves the locals of the others alone.
LEMMA OthersKeep ==
  ASSUME TypeOK, NEW t \in Threads, Configure(t) \/ Refresh(t) \/ Drain(t) \/ Step(t),
         NEW u \in Others(t)
  PROVE  pc'[u] = pc[u] /\ cfg'[u] = cfg[u] /\ visible'[u] = visible[u] /\ saw'[u] = saw[u]
<1> USE DEF Others, TypeOK, Goto, locals
<1>1. CASE Configure(t) \/ Refresh(t) \/ Drain(t)
  BY <1>1 DEF Configure, BeginConfigure, Refresh, Drain
<1>2. CASE List(t) \/ Take(t) \/ TakenByOther(t) \/ NothingLeft(t)
  BY <1>2 DEF List, Take, BeginConfigure, TakenByOther, NothingLeft
<1>3. CASE \/ ReadInApp(t) \/ ReadEnabled(t) \/ StopMoved(t) \/ StopOff(t) \/ SetEnabled(t)
           \/ SetInApp(t) \/ Undo(t)
  BY <1>3 DEF ReadInApp, ReadEnabled, StopMoved, StopOff, SetEnabled, SetInApp, Undo
<1>4. CASE \/ ReadPlace(t) \/ ReadSnapshot(t) \/ OpenTmp(t) \/ WriteTmp(t) \/ WriteFails(t)
           \/ RenameTmp(t) \/ RenameRefused(t) \/ RemoveTmp(t)
  BY <1>4 DEF ReadPlace, ReadSnapshot, OpenTmp, WriteTmp, WriteFails, RenameTmp, RenameRefused,
              RemoveTmp, Published, Finish
<1>5. CASE \/ Unavailable(t) \/ Lock(t) \/ Look(t) \/ Owned(t) \/ NotOwned(t) \/ Spawn(t)
           \/ SpawnFails(t) \/ Healthy(t) \/ Died(t) \/ Unhealthy(t) \/ FillSlot(t)
           \/ KillChild(t) \/ ClearSlot(t)
  BY <1>5 DEF Unavailable, Lock, Look, Owned, NotOwned, Spawn, SpawnFails, Healthy, Died,
              Unhealthy, FillSlot, KillChild, ClearSlot, Finish
<1>6. QED
  BY <1>1, <1>2, <1>3, <1>4, <1>5 DEF Step

\* Where a step takes its thread, and what it does to the configure of that.
LEMMA ConfigureKept ==
  ASSUME TypeOK, OneConfigure, NEW t \in Threads,
         Configure(t) \/ Refresh(t) \/ Drain(t) \/ Step(t)
  PROVE  /\ pc'[t] \in Changing => cfg'[t].active
         /\ pc'[t] \in Calling => ~cfg'[t].active
         /\ cfg'[t].failed => cfg'[t].active /\ pc'[t] \in Publication
         /\ cfg'[t].active /\ ~cfg[t].active =>
              Note("configures", \E u \in Others(t) : cfg[u].active)
<1> USE DEF Changing, Calling, Publication, Places, At, Goto
<1>0. cfg \in [Threads -> Cfgs] /\ pc \in [Threads -> Places]
  BY DEF TypeOK
<1>1. ASSUME NEW wish, NEW wishIn, BeginConfigure(t, wish, wishIn)
      PROVE  /\ cfg'[t].active /\ ~cfg'[t].failed /\ pc'[t] = "previous"
             /\ Note("configures", \E u \in Others(t) : cfg[u].active)
  BY <1>0, <1>1 DEF BeginConfigure, NoCfg
<1>2. ASSUME Finish(t) PROVE cfg'[t] = NoCfg /\ pc'[t] \in Calling
  BY <1>0, <1>2 DEF Finish
<1>3. CASE Configure(t) \/ Take(t)
  <2>1. CASE \E wish, wishIn : BeginConfigure(t, wish, wishIn)
    BY <1>1, <2>1
  <2>2. CASE ~\E wish, wishIn : BeginConfigure(t, wish, wishIn)
    <3>1. pc[t] = "take" /\ cfg' = cfg /\ pc'[t] = "publish"
      BY <1>0, <1>3, <2>2 DEF Configure, Take
    <3>2. QED
      BY <3>1 DEF OneConfigure
  <2>3. QED
    BY <2>1, <2>2
<1>4. CASE Refresh(t) \/ Drain(t) \/ List(t) \/ TakenByOther(t) \/ NothingLeft(t)
  <2>1. cfg' = cfg /\ pc[t] \in Calling /\ pc'[t] \in Calling \union {"publish"}
    BY <1>0, <1>4 DEF Refresh, Drain, List, TakenByOther, NothingLeft, locals
  <2>2. QED
    BY <2>1 DEF OneConfigure
<1>5. CASE ReadInApp(t) \/ ReadEnabled(t)
  <2>1. /\ cfg'[t].active = cfg[t].active /\ cfg'[t].failed = cfg[t].failed
        /\ pc[t] \in Changing /\ pc'[t] \in Changing
    BY <1>0, <1>5 DEF ReadInApp, ReadEnabled, Cfgs
  <2>2. QED
    BY <2>1 DEF OneConfigure
<1>6. CASE Undo(t)
  <2>1. cfg'[t].active = cfg[t].active /\ pc[t] \in Changing /\ pc'[t] = "publish"
    BY <1>0, <1>6 DEF Undo, Cfgs
  <2>2. QED
    BY <2>1 DEF OneConfigure
<1>7. CASE \/ StopMoved(t) \/ StopOff(t) \/ SetEnabled(t) \/ SetInApp(t) \/ Unavailable(t)
           \/ Lock(t) \/ Look(t) \/ NotOwned(t) \/ Spawn(t) \/ SpawnFails(t) \/ Healthy(t)
           \/ Died(t) \/ Unhealthy(t) \/ KillChild(t) \/ ClearSlot(t)
  <2>1. cfg' = cfg /\ pc[t] \in Changing /\ pc'[t] \in Changing \union {"publish"}
    BY <1>0, <1>7 DEF StopMoved, StopOff, SetEnabled, SetInApp, Unavailable, Lock, TakeLock, Look,
         NotOwned, Spawn, SpawnFails, Healthy, Died, Unhealthy, KillChild, ClearSlot, locals
  <2>2. QED
    BY <2>1 DEF OneConfigure
<1>8. CASE \/ ReadPlace(t) \/ ReadSnapshot(t) \/ OpenTmp(t) \/ WriteTmp(t) \/ RenameTmp(t)
           \/ RenameRefused(t)
  <2>1. cfg' = cfg /\ pc[t] \in Publication /\ pc'[t] \in Publication
    BY <1>0, <1>8 DEF ReadPlace, ReadSnapshot, OpenTmp, WriteTmp, RenameTmp, RenameRefused, locals
  <2>2. QED
    BY <2>1 DEF OneConfigure
<1>9. CASE WriteFails(t) \/ RemoveTmp(t) \/ Owned(t) \/ FillSlot(t)
  <2>1. CASE Finish(t)
    <3>1. ~NoCfg.active /\ ~NoCfg.failed
      BY DEF NoCfg
    <3>2. QED
      BY <1>2, <2>1, <3>1
  <2>2. CASE ~Finish(t)
    <3>1. pc'[t] = "start" /\ cfg' = cfg /\ Given(t)
      BY <1>0, <1>9, <2>2 DEF WriteFails, RemoveTmp, Owned, FillSlot, Published
    <3>2. QED
      BY <3>1 DEF Given
  <2>3. QED
    BY <2>1, <2>2
<1>10. QED
  BY <1>3, <1>4, <1>5, <1>6, <1>7, <1>8, <1>9 DEF Step

LEMMA NotesGrow ==
  ASSUME NEW t \in Threads, Configure(t) \/ Refresh(t) \/ Drain(t) \/ Step(t)
  PROVE  /\ events \subseteq events' /\ faults \subseteq faults'
         /\ "gap" \in events' /\ "gap" \notin events =>
              pc[t] = "look" /\ \E u \in Others(t) : Unnoted(u)
<1> USE DEF At, Note, Suffer, history
<1>1. CASE Configure(t) \/ Refresh(t) \/ Drain(t)
  BY <1>1 DEF Configure, BeginConfigure, Refresh, Drain
<1>2. CASE List(t) \/ Take(t) \/ TakenByOther(t) \/ NothingLeft(t)
  BY <1>2 DEF List, Take, BeginConfigure, TakenByOther, NothingLeft
<1>3. CASE \/ ReadInApp(t) \/ ReadEnabled(t) \/ StopMoved(t) \/ StopOff(t) \/ SetEnabled(t)
           \/ SetInApp(t) \/ Undo(t)
  BY <1>3 DEF ReadInApp, ReadEnabled, StopMoved, StopOff, SetEnabled, SetInApp, Undo
<1>4. CASE \/ ReadPlace(t) \/ ReadSnapshot(t) \/ OpenTmp(t) \/ WriteTmp(t) \/ WriteFails(t)
           \/ RenameTmp(t) \/ RenameRefused(t) \/ RemoveTmp(t)
  BY <1>4 DEF ReadPlace, ReadSnapshot, OpenTmp, WriteTmp, WriteFails, RenameTmp, RenameRefused,
              RemoveTmp
<1>5. CASE \/ Unavailable(t) \/ Lock(t) \/ Look(t) \/ Owned(t) \/ NotOwned(t) \/ Spawn(t)
           \/ SpawnFails(t) \/ Healthy(t) \/ Died(t) \/ Unhealthy(t) \/ FillSlot(t)
           \/ KillChild(t) \/ ClearSlot(t)
  BY <1>5 DEF Unavailable, Lock, Look, Owned, NotOwned, Spawn, SpawnFails, Healthy, Died,
              Unhealthy, FillSlot, KillChild, ClearSlot
<1>6. QED
  BY <1>1, <1>2, <1>3, <1>4, <1>5 DEF Step

LEMMA ConfigureStep ==
  ASSUME TypeOK, OneConfigure, NEW t \in Threads,
         Configure(t) \/ Refresh(t) \/ Drain(t) \/ Step(t)
  PROVE  OneConfigure'
<1>1. \A u \in Others(t) : pc'[u] = pc[u] /\ cfg'[u] = cfg[u]
  BY OthersKeep
<1>2. /\ pc'[t] \in Changing => cfg'[t].active
      /\ pc'[t] \in Calling => ~cfg'[t].active
      /\ cfg'[t].failed => cfg'[t].active /\ pc'[t] \in Publication
      /\ cfg'[t].active /\ ~cfg[t].active =>
           Note("configures", \E u \in Others(t) : cfg[u].active)
  BY ConfigureKept
<1>3. /\ \A u \in Threads : pc'[u] \in Changing => cfg'[u].active
      /\ \A u \in Threads : pc'[u] \in Calling => ~cfg'[u].active
      /\ \A u \in Threads : cfg'[u].failed => cfg'[u].active /\ pc'[u] \in Publication
  BY <1>1, <1>2 DEF OneConfigure, Others
<1>4. ASSUME "configures" \notin events', NEW u \in Threads, NEW v \in Threads,
             cfg'[u].active, cfg'[v].active
      PROVE  u = v
  <2>1. "configures" \notin events
    BY <1>4, NotesGrow
  <2>2. cfg'[t].active /\ ~cfg[t].active => \A w \in Others(t) : ~cfg[w].active
    BY <1>2, <1>4 DEF Note
  <2>3. QED
    BY <1>1, <1>4, <2>1, <2>2 DEF OneConfigure, Others
<1>5. ASSUME "gap" \in events' PROVE "configures" \in events'
  <2>1. CASE "gap" \in events
    BY <2>1, NotesGrow DEF OneConfigure
  <2>2. CASE "gap" \notin events
    <3>1. pc[t] = "look" /\ \E u \in Others(t) : Unnoted(u)
      BY <1>5, <2>2, NotesGrow
    <3>2. cfg[t].active /\ \E u \in Others(t) : cfg[u].active
      BY <3>1 DEF OneConfigure, Changing, Calling, Publication, Places, Unnoted, Others
    <3>3. QED
      BY <3>2, NotesGrow DEF OneConfigure, Others
  <2>3. QED
    BY <2>1, <2>2
<1>6. QED
  BY <1>3, <1>4, <1>5 DEF OneConfigure

\* What the overlays do, and the reaping of one.
LEMMA OverlaysKeep ==
  ASSUME \/ Reap \/ UNCHANGED vars
         \/ \E h \in DOMAIN host : Ready(h) \/ Exits(h) \/ \E what \in Commands : Gives(h, what)
  PROVE  UNCHANGED <<enabled, inApp, pc, cfg, visible, saw, child, tmp, shown, events>>
BY DEF Ready, Exits, Gives, Reap, vars, state, locals, disk, history

LEMMA ConfigureNext == TypeOK /\ OneConfigure /\ [Next]_vars => OneConfigure'
<1> SUFFICES ASSUME TypeOK, OneConfigure, [Next]_vars PROVE OneConfigure'
  OBVIOUS
<1>1. ASSUME UNCHANGED <<pc, cfg, events>> PROVE OneConfigure'
  BY <1>1 DEF OneConfigure
<1>2. QED
  BY <1>1, OverlaysKeep, ConfigureStep DEF Next

PetInv == HostInv /\ AlonePublishes /\ OneConfigure /\ RestInv

\* While all is calm: one configure, and what is live is in the slot or being started by it.
LEMMA CalmFacts ==
  ASSUME PetInv, Calm
  PROVE  /\ Agreed /\ \A t \in Threads : Decided(t) /\ Written(t)
         /\ \A t, u \in Threads : cfg[t].active /\ cfg[u].active => t = u
         /\ \A t \in Threads : pc[t] \in Changing => cfg[t].active
         /\ \A t \in Threads : pc[t] \in Changing \ {"wait", "fill", "kill"} =>
              Live \subseteq {slot}
         /\ \A t \in Threads : pc[t] \in {"spawn", "clear"} => Live = {}
         /\ None \notin Live
<1>1. Agreed /\ \A t \in Threads : Decided(t) /\ Written(t)
  BY DEF PetInv, RestInv
<1>2. /\ \A t, u \in Threads : cfg[t].active /\ cfg[u].active => t = u
      /\ \A t \in Threads : pc[t] \in Changing => cfg[t].active
      /\ "gap" \notin events
  BY DEF PetInv, OneConfigure, Calm
<1>3. /\ \A t \in Threads : pc[t] \in Starts => slot = None
      /\ Live \subseteq {slot} \union Starting
  BY <1>2 DEF PetInv, HostInv, Starter
<1>4. ASSUME NEW t \in Threads, pc[t] \in Changing \ {"wait", "fill", "kill"}
      PROVE  Starting = {}
  <2> SUFFICES ASSUME NEW u \in Threads, child[u] # None PROVE FALSE
    BY DEF Starting
  <2>1. pc[u] \in {"wait", "fill", "kill"}
    BY DEF PetInv, HostInv, ChildHeld
  <2>2. u = t
    BY <1>2, <1>4, <2>1 DEF Changing, Calling, Publication, Places
  <2>3. QED
    BY <1>4, <2>1, <2>2
<1>5. None \notin Live
  BY SlotNumber DEF PetInv, HostInv, Live
<1>6. ASSUME NEW t \in Threads, pc[t] \in {"spawn", "clear"} PROVE Live = {}
  BY <1>3, <1>4, <1>5, <1>6 DEF Starts, Changing, Calling, Publication, Places
<1>7. QED
  BY <1>1, <1>2, <1>3, <1>4, <1>5, <1>6

\* What a step of somebody else leaves of a configure and of a publication.
LEMMA DecidedKept ==
  ASSUME PetInv, Calm, NEW u \in Threads, pc'[u] = pc[u], cfg'[u] = cfg[u], saw'[u] = saw[u],
         shown' = shown \/ shown' # "earlier",
         cfg[u].active => /\ UNCHANGED <<enabled, inApp>>
                          /\ Live' \subseteq Live /\ slot' \in {slot, None}
  PROVE  Decided(u)'
<1>1. CASE cfg[u].active
  BY <1>1, CalmFacts DEF Decided, Given, MovesAway, Wish
<1>2. CASE ~cfg[u].active
  <2>1. pc[u] \notin Changing /\ ~Given(u)'
    BY <1>2, CalmFacts DEF Given
  <2>2. QED
    BY <2>1 DEF Decided, Changing, Calling, Publication, Places, InStart
<1>3. QED
  BY <1>1, <1>2

LEMMA WrittenKept ==
  ASSUME PetInv, Calm, NEW u \in Threads, pc'[u] = pc[u], cfg'[u] = cfg[u],
         visible'[u] = visible[u], shown' = shown \/ shown' # "earlier",
         cfg[u].active => UNCHANGED enabled,
         ~Ahead' /\ pc[u] \in {"snapshot", "open", "write", "rename"} =>
           ~Ahead /\ UNCHANGED <<enabled, inApp>>
  PROVE  Written(u)'
BY CalmFacts DEF Written, Given, Wish

\* A step of a thread that is not about the state file, nor changes the wish.
LEMMA AsideStep ==
  ASSUME PetInv, Calm, NEW t \in Threads,
         Configure(t) \/ Refresh(t) \/ Drain(t) \/ Step(t),
         UNCHANGED <<enabled, inApp, shown>>,
         pc[t] \notin {"place", "publish", "snapshot", "open", "write", "rename"},
         pc'[t] \notin {"place", "snapshot", "open", "write", "rename"},
         pc'[t] = "publish" => ~cfg'[t].active,
         ~cfg[t].active => UNCHANGED <<host, slot>>,
         Live' # {} => Live # {} \/ pc[t] \in InStart,
         Decided(t)', Written(t)'
  PROVE  Agreed' /\ \A u \in Threads : Decided(u)' /\ Written(u)'
<1>1. \A u \in Others(t) : pc'[u] = pc[u] /\ cfg'[u] = cfg[u] /\ visible'[u] = visible[u]
                           /\ saw'[u] = saw[u]
  BY OthersKeep DEF PetInv, HostInv
<1>2. Ahead' = Ahead
  BY <1>1 DEF Ahead, Others
<1>3. Writing' = Writing
  BY <1>1 DEF Writing, Others
<1>4. Wish' = Wish
  BY DEF Wish
<1>5. Agreed'
  BY <1>2, <1>3, <1>4, CalmFacts DEF Agreed, Decided
<1>6. ASSUME NEW u \in Others(t) PROVE Decided(u)' /\ Written(u)'
  <2>1. u \in Threads /\ u # t
    BY DEF Others
  <2>2. cfg[u].active => UNCHANGED <<host, slot>>
    BY <2>1, CalmFacts
  <2>3. cfg[u].active => Live' \subseteq Live
    BY <2>2 DEF Live
  <2>4. Decided(u)'
    BY <1>1, <2>1, <2>2, <2>3, DecidedKept
  <2>5. Written(u)'
    BY <1>1, <1>2, <2>1, WrittenKept
  <2>6. QED
    BY <2>4, <2>5
<1>7. QED
  BY <1>5, <1>6 DEF Others

\* Requests, and the taking of commands.
LEMMA RestCalls ==
  ASSUME PetInv, Calm, NEW t \in Threads,
         \/ Configure(t) \/ Refresh(t) \/ Drain(t)
         \/ List(t) \/ Take(t) \/ TakenByOther(t) \/ NothingLeft(t)
  PROVE  Agreed' /\ \A u \in Threads : Decided(u)' /\ Written(u)'
<1> USE DEF At, Goto
<1>0. cfg \in [Threads -> Cfgs] /\ pc \in [Threads -> Places]
  BY DEF PetInv, HostInv, TypeOK
<1>1. UNCHANGED <<enabled, inApp, shown, host, slot>>
  BY DEF Configure, Refresh, Drain, List, Take, TakenByOther, NothingLeft, state, disk, overlay
<1>2. pc[t] \in Calling
  BY <1>0 DEF Configure, Refresh, Drain, List, Take, TakenByOther, NothingLeft, Calling
<1>3. pc'[t] \in Calling \union {"previous", "publish"}
  BY <1>0 DEF Configure, BeginConfigure, Refresh, Drain, List, Take, TakenByOther, NothingLeft,
              Calling
<1>4. pc'[t] = "publish" => cfg' = cfg
  BY <1>0 DEF Configure, BeginConfigure, Refresh, Drain, List, Take, TakenByOther, NothingLeft,
              locals
<1>5. pc'[t] = "publish" => ~cfg'[t].active
  BY <1>2, <1>4 DEF PetInv, OneConfigure
<1>6. Decided(t)' /\ Written(t)'
  BY <1>3, <1>5 DEF Decided, Written, Calling, Publication, InStart, Given
<1>7. Live' = Live
  BY <1>1 DEF Live
<1>8. QED
  BY <1>1, <1>2, <1>3, <1>5, <1>6, <1>7, AsideStep DEF Calling, Step

\* A configure up to the change of the wish.
LEMMA RestReads ==
  ASSUME PetInv, Calm, NEW t \in Threads,
         ReadInApp(t) \/ ReadEnabled(t) \/ StopMoved(t) \/ StopOff(t)
  PROVE  Agreed' /\ \A u \in Threads : Decided(u)' /\ Written(u)'
<1> USE DEF At, Goto
<1>0. cfg \in [Threads -> Cfgs] /\ pc \in [Threads -> Places] /\ cfg[t] \in Cfgs
      /\ TypeOK /\ inApp \in BOOLEAN /\ enabled \in BOOLEAN
  BY DEF PetInv, HostInv, TypeOK
<1>1. /\ UNCHANGED <<enabled, inApp, shown>>
      /\ pc[t] \in {"previous", "wasOn", "stop", "stopOff"}
      /\ pc'[t] \in {"wasOn", "stop", "stopOff", "set"}
  BY <1>0 DEF ReadInApp, ReadEnabled, StopMoved, StopOff, state, disk
<1>2. Live \subseteq {slot} /\ cfg[t].active /\ Decided(t) /\ Agreed /\ None \notin Live
  BY <1>1, CalmFacts DEF Changing, Calling, Publication, Places
<1>3. ASSUME StopHost PROVE Live' = {}
  <2>1. /\ DOMAIN host' = DOMAIN host
        /\ \A h \in DOMAIN host : host'[h] = IF h = slot THEN "gone" ELSE host[h]
    BY <1>0, <1>3, StopHostType, SlotNumber DEF TypeOK, StopHost
  <2>2. QED
    BY <1>2, <2>1 DEF Live
<1>4. Live' \in {Live, {}}
  BY <1>3 DEF ReadInApp, ReadEnabled, StopMoved, StopOff, overlay, Live
<1>5. CASE ReadInApp(t)
  <2>1. pc'[t] = "wasOn" /\ cfg'[t].wasIn = inApp
    BY <1>0, <1>5 DEF ReadInApp, Cfgs
  <2>2. Decided(t)' /\ Written(t)'
    BY <1>1, <2>1 DEF Decided, Written, Publication, InStart
  <2>3. QED
    BY <1>1, <1>2, <1>4, <1>5, <2>1, <2>2, AsideStep DEF Step
<1>6. CASE ReadEnabled(t)
  <2>1. /\ pc'[t] = "stop" /\ cfg'[t].wasOn = enabled /\ cfg'[t].wasIn = inApp
        /\ cfg'[t].on = Wanted(cfg[t].on, enabled)
    BY <1>0, <1>2, <1>6 DEF ReadEnabled, Cfgs, Decided
  <2>2. Wanted(cfg[t].on, enabled) # "keep"
    BY DEF Wanted
  <2>3. Decided(t)' /\ Written(t)'
    BY <1>1, <2>1, <2>2 DEF Decided, Written, Publication, InStart
  <2>4. QED
    BY <1>1, <1>2, <1>4, <1>6, <2>1, <2>3, AsideStep DEF Step
<1>7. CASE StopMoved(t)
  <2>1. pc[t] = "stop" /\ pc'[t] = "stopOff" /\ cfg' = cfg
        /\ (MovesAway(cfg[t]) => Live' = {})
    BY <1>0, <1>3, <1>7 DEF StopMoved, locals
  <2>2. Decided(t)' /\ Written(t)'
    BY <1>1, <1>2, <2>1 DEF Decided, Written, Publication, InStart, MovesAway
  <2>3. QED
    BY <1>1, <1>2, <1>4, <1>7, <2>1, <2>2, AsideStep DEF Step
<1>8. CASE StopOff(t)
  <2>1. pc[t] = "stopOff" /\ pc'[t] = "set" /\ cfg' = cfg /\ (cfg[t].on = "no" => Live' = {})
    BY <1>0, <1>3, <1>8 DEF StopOff, locals
  <2>2. Live' # {} => cfg[t].on = "yes" /\ cfg[t].in # "yes"
    BY <1>0, <1>2, <1>4, <2>1 DEF Decided, Agreed, Wish, MovesAway, Cfgs, Wishes
  <2>3. Decided(t)' /\ Written(t)'
    BY <1>1, <1>2, <2>1, <2>2 DEF Decided, Written, Publication, InStart
  <2>4. QED
    BY <1>1, <1>2, <1>4, <1>8, <2>1, <2>3, AsideStep DEF Step
<1>9. QED
  BY <1>5, <1>6, <1>7, <1>8

\* The steps that change the wish: until it is published the state file may disagree.
LEMMA RestChanges ==
  ASSUME PetInv, Calm, NEW t \in Threads, SetEnabled(t) \/ SetInApp(t) \/ Undo(t)
  PROVE  Agreed' /\ \A u \in Threads : Decided(u)' /\ Written(u)'
<1> USE DEF At, Goto
<1>0. /\ cfg \in [Threads -> Cfgs] /\ pc \in [Threads -> Places] /\ cfg[t] \in Cfgs
      /\ visible \in [Threads -> BOOLEAN] /\ inApp \in BOOLEAN /\ enabled \in BOOLEAN
  BY DEF PetInv, HostInv, TypeOK
<1>1. /\ UNCHANGED <<host, slot, shown>> /\ pc[t] \in {"set", "place", "undo"}
      /\ pc'[t] \in {"place", "publish"}
  BY <1>0 DEF SetEnabled, SetInApp, Undo, disk, overlay
<1>2. Live' = Live
  BY <1>1 DEF Live
<1>3. cfg[t].active /\ Decided(t) /\ Written(t) /\ Agreed /\ ~cfg[t].failed
  BY <1>1, CalmFacts DEF Changing, Calling, Publication, Places, PetInv, OneConfigure
<1>4. cfg'[t].active
  BY <1>0, <1>3 DEF SetEnabled, SetInApp, Undo, locals, Cfgs
<1>5. Ahead'
  BY <1>1, <1>4 DEF Ahead
<1>6. ASSUME NEW u \in Others(t) PROVE Decided(u)' /\ Written(u)'
  <2>1. /\ pc'[u] = pc[u] /\ cfg'[u] = cfg[u] /\ visible'[u] = visible[u] /\ saw'[u] = saw[u]
    BY OthersKeep DEF PetInv, HostInv, Step
  <2>2. u \in Threads /\ ~cfg[u].active
    BY <1>3, CalmFacts DEF Others
  <2>3. QED
    BY <1>1, <1>5, <2>1, <2>2, DecidedKept, WrittenKept
<1>7. CASE SetEnabled(t)
  <2>1. /\ pc[t] = "set" /\ pc'[t] = "place" /\ cfg' = cfg /\ inApp' = inApp
        /\ enabled' = (cfg[t].on = "yes") /\ visible'[t] = enabled'
    BY <1>0, <1>3, <1>7 DEF SetEnabled, Decided
  <2>2. Decided(t)' /\ Written(t)'
    BY <1>1, <1>2, <1>3, <2>1 DEF Decided, Written, Publication, InStart
  <2>3. Agreed'
    BY <1>1, <1>2, <1>3, <1>5, <2>1 DEF Agreed, Wish, Decided
  <2>4. QED
    BY <1>6, <2>2, <2>3 DEF Others
<1>8. CASE SetInApp(t)
  <2>1. /\ pc[t] = "place" /\ pc'[t] = "publish" /\ cfg' = cfg /\ visible' = visible
        /\ inApp' = (cfg[t].in = "yes") /\ enabled' = enabled
    BY <1>0, <1>8 DEF SetInApp, locals
  <2>2. Decided(t)' /\ Written(t)'
    BY <1>1, <1>2, <1>3, <2>1 DEF Decided, Written, Publication, InStart, Given
  <2>3. Agreed'
    BY <1>1, <1>2, <1>3, <1>5, <2>1 DEF Agreed, Wish, Decided
  <2>4. QED
    BY <1>6, <2>2, <2>3 DEF Others
<1>9. CASE Undo(t)
  <2>1. pc[t] = "undo" /\ pc'[t] = "publish" /\ cfg'[t].failed
    BY <1>0, <1>9 DEF Undo, Cfgs
  <2>2. Decided(t)' /\ Written(t)'
    BY <1>5, <2>1 DEF Decided, Written, Publication, InStart, Given
  <2>3. Agreed'
    BY <1>2, <1>3, <1>5, <2>1 DEF Agreed, Decided
  <2>4. QED
    BY <1>6, <2>2, <2>3 DEF Others
<1>10. QED
  BY <1>7, <1>8, <1>9

\* start_pet_host.
LEMMA RestStarts ==
  ASSUME PetInv, Calm, Calm', NEW t \in Threads,
         \/ Unavailable(t) \/ Lock(t) \/ Look(t) \/ Owned(t) \/ NotOwned(t) \/ Spawn(t)
         \/ SpawnFails(t) \/ Healthy(t) \/ Died(t) \/ Unhealthy(t) \/ FillSlot(t)
         \/ KillChild(t) \/ ClearSlot(t)
  PROVE  Agreed' /\ \A u \in Threads : Decided(u)' /\ Written(u)'
<1> USE DEF At, Goto
<1>0. /\ cfg \in [Threads -> Cfgs] /\ pc \in [Threads -> Places] /\ TypeOK
      /\ saw \in [Threads -> DOMAIN host \union {None}]
  BY DEF PetInv, HostInv, TypeOK
<1>1. ~Unavailable(t)
  BY DEF Unavailable, Suffer, Calm
<1>2. /\ UNCHANGED <<enabled, inApp, shown>> /\ pc[t] \in InStart
      /\ pc'[t] \in InStart \union {"idle", "list"}
  BY <1>0, <1>1 DEF Lock, TakeLock, Look, Owned, NotOwned, Spawn, SpawnFails, Healthy, Died,
       Unhealthy, FillSlot, KillChild, ClearSlot, Finish, state, disk, InStart
<1>3. cfg[t].active /\ Decided(t) /\ Agreed /\ Wish /\ shown # "earlier" /\ None \notin Live
  BY <1>2, CalmFacts DEF InStart, Changing, Calling, Publication, Places, Decided
<1>4. pc'[t] = "owned" => slot' \in {saw'[t], None}
  BY <1>0, <1>1 DEF Lock, Look, Owned, NotOwned, Spawn, SpawnFails, Healthy, Died, Unhealthy,
       FillSlot, KillChild, ClearSlot, Finish
<1>5. pc'[t] = "undo" => Live' = {}
  <2>1. CASE NotOwned(t)
    <3>1. pc[t] = "owned" /\ slot # saw[t] /\ UNCHANGED <<host, slot>>
      BY <2>1 DEF NotOwned, overlay
    <3>2. slot = None /\ Live \subseteq {slot}
      BY <1>3, <3>1, CalmFacts DEF Decided, Changing, Calling, Publication, Places
    <3>3. QED
      BY <1>3, <3>1, <3>2 DEF Live
  <2>2. CASE SpawnFails(t) \/ ClearSlot(t)
    <3>1. pc[t] \in {"spawn", "clear"} /\ host' = host
      BY <2>2 DEF SpawnFails, ClearSlot, overlay
    <3>2. QED
      BY <3>1, CalmFacts DEF Live
  <2>3. CASE ~NotOwned(t) /\ ~SpawnFails(t) /\ ~ClearSlot(t)
    BY <1>0, <1>1, <2>3 DEF Lock, Look, Owned, Spawn, Healthy, Died, Unhealthy, FillSlot,
         KillChild, Finish
  <2>4. QED
    BY <2>1, <2>2, <2>3
<1>6. Wish' = Wish
  BY <1>2 DEF Wish
<1>7. Decided(t)' /\ Written(t)'
  BY <1>2, <1>3, <1>4, <1>5, <1>6 DEF Decided, Written, Publication, InStart
<1>8. QED
  BY <1>2, <1>3, <1>7, AsideStep DEF InStart, Step

\* publish_pet_runtime.
LEMMA RestPublishes ==
  ASSUME PetInv, Calm, Calm', NEW t \in Threads,
         \/ ReadPlace(t) \/ ReadSnapshot(t) \/ OpenTmp(t) \/ WriteTmp(t) \/ WriteFails(t)
         \/ RenameTmp(t) \/ RenameRefused(t) \/ RemoveTmp(t)
  PROVE  Agreed' /\ \A u \in Threads : Decided(u)' /\ Written(u)'
<1> USE DEF At, Goto
<1>0. /\ cfg \in [Threads -> Cfgs] /\ pc \in [Threads -> Places]
      /\ visible \in [Threads -> BOOLEAN] /\ inApp \in BOOLEAN /\ enabled \in BOOLEAN
  BY DEF PetInv, HostInv, TypeOK
<1>1. ~WriteFails(t) /\ ~RenameRefused(t)
  BY DEF WriteFails, RenameRefused, Suffer, Calm
<1>2. UNCHANGED <<enabled, inApp, host, slot>> /\ Live' = Live /\ Wish' = Wish
  <2>1. UNCHANGED <<enabled, inApp, host, slot>>
    BY <1>1 DEF ReadPlace, ReadSnapshot, OpenTmp, WriteTmp, RenameTmp, RemoveTmp, state, overlay
  <2>2. QED
    BY <2>1 DEF Live, Wish
<1>3. Agreed /\ Decided(t) /\ Written(t) /\ "publications" \notin events
  BY CalmFacts DEF Calm
<1>4. \A u \in Others(t) : pc'[u] = pc[u] /\ cfg'[u] = cfg[u] /\ visible'[u] = visible[u]
                           /\ saw'[u] = saw[u]
  BY OthersKeep DEF PetInv, HostInv, Step
<1>5. \A u \in Others(t) : ~Publishing(u)
  <2>1. CASE ReadPlace(t)
    BY <2>1 DEF ReadPlace, Note, Calm
  <2>2. CASE ~ReadPlace(t)
    <3>1. Publishing(t)
      BY <1>1, <2>2 DEF ReadSnapshot, OpenTmp, WriteTmp, RenameTmp, RemoveTmp, Publishing
    <3>2. QED
      BY <1>3, <3>1 DEF PetInv, AlonePublishes, Others
  <2>3. QED
    BY <2>1, <2>2
<1>6. CASE RemoveTmp(t)
  <2>1. /\ pc[t] = "tidy" /\ shown' = shown
        /\ \/ pc'[t] \in {"idle", "list"}
           \/ pc'[t] = "start" /\ Given(t) /\ cfg[t].on = "yes" /\ cfg[t].in = "no"
    BY <1>0, <1>6 DEF RemoveTmp, Published, Finish
  <2>2. pc'[t] = "start" => Wish /\ shown # "earlier"
    BY <1>3, <2>1 DEF Decided, Written, Wish, Publication
  <2>3. Decided(t)' /\ Written(t)'
    BY <1>2, <2>1, <2>2 DEF Decided, Written, Publication, InStart
  <2>4. QED
    BY <1>2, <1>6, <2>1, <2>3, AsideStep DEF Step
<1>7. CASE ~RemoveTmp(t)
  <2>1. ASSUME shown' = shown \/ shown' # "earlier",
               pc'[t] \in {"snapshot", "open", "write", "rename", "tidy"},
               Written(t)', pc'[t] \in {"open", "write", "rename", "tidy"} => cfg' = cfg,
               cfg' = cfg, ~Ahead' /\ ~Writing' => shown' \in {"earlier", Says(Wish)}
        PROVE  Agreed' /\ \A u \in Threads : Decided(u)' /\ Written(u)'
    <3>1. Agreed'
      BY <1>2, <1>3, <2>1 DEF Agreed
    <3>2. pc[t] \in Publication
      BY <1>1, <1>7 DEF ReadPlace, ReadSnapshot, OpenTmp, WriteTmp, RenameTmp, Publication
    <3>3. Decided(t)'
      BY <1>2, <1>3, <2>1, <3>2 DEF Decided, Given, Publication, InStart
    <3>4. ASSUME NEW u \in Others(t) PROVE Decided(u)' /\ Written(u)'
      <4>1. pc[u] \notin {"snapshot", "open", "write", "rename"} /\ u \in Threads
        BY <1>5, <3>4 DEF Publishing, Others
      <4>2. QED
        BY <1>2, <1>4, <2>1, <4>1, DecidedKept, WrittenKept
    <3>5. QED
      BY <2>1, <3>1, <3>3, <3>4 DEF Others
  <2>2. cfg' = cfg
    BY <1>1, <1>7 DEF ReadPlace, ReadSnapshot, OpenTmp, WriteTmp, RenameTmp, locals
  <2>3. CASE ReadPlace(t)
    <3>1. /\ pc[t] = "publish" /\ shown' = shown
          /\ pc'[t] = (IF Given(t) THEN "open" ELSE "snapshot")
          /\ visible'[t] = ((Given(t) => visible[t]) /\ ~inApp)
      BY <1>0, <2>3 DEF ReadPlace, disk
    <3>2. Written(t)'
      BY <1>2, <1>3, <3>1 DEF Written, Wish
    <3>3. Writing'
      BY <3>1 DEF Writing
    <3>4. QED
      BY <2>1, <2>2, <3>1, <3>2, <3>3
  <2>4. CASE ReadSnapshot(t) \/ OpenTmp(t) \/ WriteTmp(t)
    <3>1. pc'[t] \in {"open", "write", "rename"} /\ Ahead' = Ahead
      BY <1>0, <1>4, <2>2, <2>4 DEF ReadSnapshot, OpenTmp, WriteTmp, Ahead, Others
    <3>2. shown' = shown
      BY <1>3, <2>4 DEF ReadSnapshot, OpenTmp, WriteTmp, disk, PetInv, AlonePublishes
    <3>3. Written(t)'
      <4>1. CASE ReadSnapshot(t)
        <5>1. pc[t] = "snapshot" /\ pc'[t] = "open" /\ visible'[t] = (visible[t] /\ enabled)
          BY <1>0, <4>1 DEF ReadSnapshot
        <5>2. QED
          BY <1>2, <1>3, <3>1, <5>1 DEF Written, Wish
      <4>2. CASE OpenTmp(t) \/ WriteTmp(t)
        <5>1. pc[t] \in {"open", "write"} /\ visible' = visible
          BY <4>2 DEF OpenTmp, WriteTmp, locals
        <5>2. QED
          BY <1>2, <1>3, <3>1, <5>1 DEF Written
      <4>3. QED
        BY <2>4, <4>1, <4>2
    <3>4. Writing'
      BY <3>1 DEF Writing
    <3>5. QED
      BY <2>1, <2>2, <3>1, <3>2, <3>3, <3>4
  <2>5. CASE RenameTmp(t)
    <3>1. pc[t] = "rename" /\ pc'[t] = "tidy" /\ Ahead' = Ahead
      BY <1>0, <1>4, <2>2, <2>5 DEF RenameTmp, Ahead, Others
    <3>2. shown' = Says(visible[t]) /\ shown' # "earlier"
      BY <1>3, <2>5, <3>1 DEF RenameTmp, PetInv, AlonePublishes, Says
    <3>3. ~Ahead => visible[t] = Wish
      BY <1>3, <3>1 DEF Written
    <3>4. Written(t)'
      BY <3>1, <3>2 DEF Written
    <3>5. QED
      BY <2>1, <2>2, <3>1, <3>2, <3>3, <3>4
  <2>6. QED
    BY <1>1, <1>7, <2>3, <2>4, <2>5
<1>8. QED
  BY <1>6, <1>7

\* The overlays can only become fewer.
LEMMA RestOverlays ==
  ASSUME PetInv, Calm,
         \/ Reap \/ UNCHANGED vars
         \/ \E h \in DOMAIN host : Ready(h) \/ Exits(h) \/ \E what \in Commands : Gives(h, what)
  PROVE  Agreed' /\ \A u \in Threads : Decided(u)' /\ Written(u)'
<1>1. UNCHANGED <<enabled, inApp, pc, cfg, visible, saw, shown>>
  BY OverlaysKeep
<1>2. slot' \in {slot, None}
  BY DEF Reap, Ready, Exits, Gives, vars
<1>3. Live' \subseteq Live
  BY ChangedSeq DEF Reap, Ready, Exits, Gives, vars, overlay, Live, PetInv, HostInv, TypeOK
<1>4. Ahead' = Ahead /\ Writing' = Writing /\ Wish' = Wish
  BY <1>1 DEF Ahead, Writing, Wish
<1>5. Agreed'
  BY <1>1, <1>3, <1>4, CalmFacts DEF Agreed
<1>6. \A u \in Threads : Decided(u)'
  BY <1>1, <1>2, <1>3, DecidedKept
<1>7. \A u \in Threads : Written(u)'
  BY <1>1, <1>4, WrittenKept
<1>8. QED
  BY <1>5, <1>6, <1>7

LEMMA RestNext == PetInv /\ [Next]_vars => RestInv'
<1> SUFFICES ASSUME PetInv, [Next]_vars, Calm'
             PROVE  Agreed' /\ \A u \in Threads : Decided(u)' /\ Written(u)'
  BY DEF RestInv
<1>1. Calm
  <2>1. \A t \in Threads : Configure(t) \/ Refresh(t) \/ Drain(t) \/ Step(t) =>
          events \subseteq events' /\ faults \subseteq faults'
    BY NotesGrow
  <2>2. ASSUME \/ Reap \/ UNCHANGED vars
               \/ \E h \in DOMAIN host :
                    Ready(h) \/ Exits(h) \/ \E what \in Commands : Gives(h, what)
        PROVE  events \subseteq events' /\ faults \subseteq faults'
    BY <2>2 DEF Reap, Ready, Exits, Gives, Suffer, vars, history
  <2>3. events \subseteq events' /\ faults \subseteq faults'
    BY <2>1, <2>2 DEF Next
  <2>4. QED
    BY <2>3 DEF Calm
<1>2. ASSUME NEW t \in Threads, Configure(t) \/ Refresh(t) \/ Drain(t) \/ Step(t)
      PROVE  Agreed' /\ \A u \in Threads : Decided(u)' /\ Written(u)'
  BY <1>1, <1>2, RestCalls, RestReads, RestChanges, RestStarts, RestPublishes DEF Step
<1>3. QED
  BY <1>1, <1>2, RestOverlays DEF Next

LEMMA PetInvariant == Spec => []PetInv
<1>1. Init => PetInv
  <2> SUFFICES ASSUME Init PROVE PetInv
    OBVIOUS
  <2>1. HostInv /\ AlonePublishes
    BY HostInit DEF Init, AlonePublishes, Publishing
  <2>2. OneConfigure
    BY DEF Init, OneConfigure, NoCfg, Changing, Calling, Publication
  <2>3. Live = {}
    BY DEF Init, Live
  <2>4. RestInv
    BY <2>3 DEF Init, RestInv, Agreed, Decided, Written, Publication, InStart
  <2>5. QED
    BY <2>1, <2>2, <2>4 DEF PetInv
<1>2. PetInv /\ [Next]_vars => PetInv'
  BY HostStep, PublishNext, ConfigureNext, RestNext DEF PetInv, HostInv
<1>3. QED
  BY <1>1, <1>2, PTL DEF Spec

\* When the requests are answered, an overlay runs only if one is wanted, and the state file
\* says so - whatever overlays exited or failed to start, as long as neither configures nor
\* publications overlapped and disk and installation did not fail.
THEOREM RestIsAgreed == Spec => []RestAgrees
<1>1. PetInv => RestAgrees
  <2> SUFFICES ASSUME PetInv, AtRest, events \subseteq {"gap"},
                      {"install", "disk"} \intersect faults = {}
               PROVE  /\ Live # {} => Wish
                      /\ shown \in {"earlier", Says(Wish)}
                      /\ Live # {} => shown = "visible"
    BY DEF RestAgrees
  <2>1. Calm
    BY DEF Calm
  <2>2. Agreed
    BY <2>1 DEF PetInv, RestInv
  <2>3. ~Ahead /\ ~Writing
    BY DEF AtRest, Ahead, Writing
  <2>4. QED
    BY <2>2, <2>3 DEF Agreed, Says
<1>2. QED
  BY <1>1, PetInvariant, PTL
=============================================================================

------------------------ MODULE SingleInstanceProofs ------------------------
(***************************************************************************)
(* What holds of SingleInstance for every set of launches and files: who   *)
(* has the control port and the token, that there is one window, and that  *)
(* a file that was handed over is opened once.                             *)
(***************************************************************************)
EXTENDS SingleInstance, FiniteSetTheorems, TLAPS

\* Only launches with a file forward one.
Senders ==
  \A p \in Launches : pc[p] = "forward" \/ post[p] # "none" => p \in WithFile

TypeInv == TypeOK /\ Senders

\* The control port and instance.json: a process that serves the port has it, and once it
\* quits the token is gone before the port is.
PortHeld ==
  /\ \A p \in Launches : pc[p] \in {"publish", "resident"} => port = p
  /\ port # None => pc[port] \in {"publish", "resident", "quitting"}
  /\ port # None /\ pc[port] = "quitting" => instance = None

\* No other process is being launched or has a window.
Alone(p) == \A q \in Launches \ {p} : pc[q] \notin Launching \union Serving

FoundResident(p) ==
  \E r \in Launches : pc[r] = "resident" /\ port = r /\ instance = r /\ saw[p] = r

\* What makes one window, when nothing gets in the way: a process that goes on to bind is
\* alone, and one that pings is either alone or will hand over.
Orderly(p) ==
  /\ pc[p] # "extra"
  /\ pc[p] \in {"bind", "publish", "quitting"} => Alone(p)
  /\ pc[p] = "ping" => Alone(p) \/ FoundResident(p)
  /\ pc[p] = "forward" => FoundResident(p) /\ post[p] # "refused"
  /\ pc[p] \in {"off", "ping"} => post[p] = "none"
  /\ pc[p] = "resident" => instance = p

InOrder == NoneOf({"start", "leave", "late", "missing"}) => \A p \in Launches : Orderly(p)

\* The file f waits in the queue of p or on its page.
Holds(p, f) == f \in taken[p] \/ \E i \in DOMAIN queue[p] : queue[p][i] = f

Untouched(f) == opened[f] = 0 /\ \A p \in Launches : ~Holds(p, f)
Shown(f) == opened[f] = 1 /\ \A p \in Launches : ~Holds(p, f)
Coming(f) == /\ opened[f] = 0
             /\ \E p \in Launches : Holds(p, f) /\ \A q \in Launches \ {p} : ~Holds(q, f)

\* Where a file is, by what its process has done.
Handing(f) ==
  /\ pc[f] \in {"off", "ping", "bind", "publish"} => Untouched(f)
  /\ pc[f] = "forward" /\ post[f] # "accepted" => Untouched(f)
  /\ pc[f] = "forward" /\ post[f] = "accepted" => Shown(f) \/ Coming(f)
  /\ pc[f] = "handed" => Shown(f) \/ Coming(f)
  /\ pc[f] \in {"resident", "extra", "quitting"} => Shown(f)
  /\ pc[f] = "gone" => Shown(f) \/ Untouched(f)

\* The request of a process that waits is open at the owner of the port, which has read
\* its token or will compare it.
Posting(p) ==
  /\ pc[p] \in {"off", "ping"} => post[p] = "none"
  /\ pc[p] \in {"ping", "forward"} => saw[p] # None
  /\ post[p] = "sent" => pc[p] = "forward"
  /\ pc[p] = "forward" /\ post[p] \in {"sent", "accepted"} => port # None
  /\ pc[p] = "forward" /\ post[p] = "accepted" => pc[port] # "quitting"

\* A file is at most once in the hands of a process, and none is left when it quits.
Single(p) ==
  /\ \A i, j \in DOMAIN queue[p] : queue[p][i] = queue[p][j] => i = j
  /\ \A i \in DOMAIN queue[p] : queue[p][i] \notin taken[p]
  /\ pc[p] = "quitting" => queue[p] = <<>> /\ taken[p] = {}

HandOver ==
  NoneOf({"unread", "late", "lost"}) =>
    /\ \A f \in WithFile : Handing(f)
    /\ \A p \in Launches : Posting(p) /\ Single(p)
-----------------------------------------------------------------------------
\* What a step adds to the events is allowed, and what has not happened after it had not
\* happened before.
LEMMA EventsGrow ==
  ASSUME TypeOK, NEW new, Happen(new)
  PROVE  /\ events' \subseteq MayHappen
         /\ events \subseteq events'
         /\ new \subseteq events'
BY DEF TypeOK, Happen

THEOREM InitType == Init => TypeInv
<1> SUFFICES ASSUME Init PROVE TypeInv
  OBVIOUS
<1>1. <<>> \in Seq(WithFile)
  OBVIOUS
<1>2. QED
  BY <1>1, InstanceAssumption DEF Init, TypeInv, TypeOK, Senders, States

\* The launched process: its place, and the request it sends.
LEMMA StartType ==
  ASSUME TypeInv, NEW p \in Launches,
         Launch(p) \/ Start(p) \/ ForwardArrives(p) \/ PingTimesOut(p) \/ ForwardTimesOut(p)
  PROVE  TypeInv'
<1> USE DEF TypeInv, Senders
<1>0. \A a, b \in States : Go(p, a, b) => pc' \in [Launches -> States]
  BY DEF TypeOK, Go
<1>e. \A new : Happen(new) => events' \subseteq MayHappen
  BY EventsGrow
<1>1. CASE Launch(p)
  BY <1>1, <1>e DEF Launch, TypeOK, Go, States, Launching
<1>2. CASE PingAnswered(p)
  BY <1>2 DEF PingAnswered, TypeOK, Go, States, Launching
<1>3. CASE Forward(p)
  <2>1. CASE port = None
    BY <1>3, <2>1 DEF Forward, TypeOK, States, Launching
  <2>2. CASE port # None
    BY <1>3, <2>2 DEF Forward, TypeOK
  <2>3. QED
    BY <2>1, <2>2
<1>4. CASE ForwardAnswered(p)
  BY <1>4 DEF ForwardAnswered, TypeOK, Go, States, Launching
<1>5. CASE Bind(p)
  BY <1>5 DEF Bind, TypeOK, Go, States, Launching
<1>6. CASE BindElsewhere(p)
  <2>1. opened' \in [Launches -> Nat]
    BY <1>6 DEF BindElsewhere, OpenOwn, TypeOK
  <2>2. QED
    BY <1>6, <2>1 DEF BindElsewhere, TypeOK, Go, States, Serving, Windows
<1>7. CASE Publish(p)
  <2>1. opened' \in [Launches -> Nat]
    BY <1>7 DEF Publish, OpenOwn, TypeOK
  <2>2. QED
    BY <1>7, <2>1 DEF Publish, TypeOK, Go, States, Serving, Windows
<1>8. CASE ForwardArrives(p)
  <2>1. port \in Launches /\ p \in WithFile
    BY <1>8 DEF ForwardArrives, Answers, TypeOK
  <2>2. Append(queue[port], p) \in Seq(WithFile)
    BY <2>1 DEF TypeOK
  <2>3. queue' \in [Launches -> Seq(WithFile)]
    BY <1>8, <2>1, <2>2 DEF ForwardArrives, TypeOK
  <2>4. events' \subseteq MayHappen
    BY <1>8, <1>e DEF ForwardArrives, TypeOK
  <2>5. QED
    BY <1>8, <2>1, <2>3, <2>4 DEF ForwardArrives, TypeOK
<1>9. CASE PingTimesOut(p)
  BY <1>9, <1>e DEF PingTimesOut, TypeOK, Go, States, Launching
<1>10. CASE ForwardTimesOut(p)
  BY <1>10, <1>e DEF ForwardTimesOut, TypeOK, Go, States, Launching
<1>11. QED
  BY <1>1, <1>2, <1>3, <1>4, <1>5, <1>6, <1>7, <1>8, <1>9, <1>10 DEF Start

\* The process with a window: its queue, its page and its end.
LEMMA WindowType ==
  ASSUME TypeInv, NEW p \in Launches,
         Page(p) \/ PageReloads(p) \/ Quit(p) \/ Exit(p) \/ Crash(p)
  PROVE  TypeInv'
<1> USE DEF TypeInv, Senders
<1>e. \A new : Happen(new) => events' \subseteq MayHappen
  BY EventsGrow
<1>1. CASE PageAsks(p)
  <2>1. queue[p] \in Seq(WithFile) /\ queue[p] # <<>>
    BY <1>1 DEF PageAsks, TypeOK
  <2>2. Head(queue[p]) \in WithFile /\ Tail(queue[p]) \in Seq(WithFile)
    BY <2>1
  <2>3. QED
    BY <1>1, <2>2 DEF PageAsks, TypeOK
<1>2. ASSUME NEW f \in WithFile, PageOpens(p, f) PROVE TypeInv'
  BY <1>2, InstanceAssumption DEF PageOpens, TypeOK
<1>3. CASE PageReloads(p)
  BY <1>3, <1>e DEF PageReloads, TypeOK
<1>4. CASE Quit(p)
  <2>1. pc' = [pc EXCEPT ![p] = "quitting"] /\ "quitting" \in States
    BY <1>4 DEF Quit, Go, States, Serving
  <2>2. events' \subseteq MayHappen
    BY <1>4, <1>e DEF Quit
  <2>3. QED
    BY <1>4, <2>1, <2>2 DEF Quit, TypeOK
<1>5. ASSUME Vanish(p), pc' = [pc EXCEPT ![p] = "gone"], events' \subseteq MayHappen,
             UNCHANGED <<instance, saw, opened>>
      PROVE  TypeInv'
  <2>1. <<>> \in Seq(WithFile) /\ "gone" \in States
    BY DEF States
  <2>2. QED
    BY <1>5, <2>1 DEF Vanish, TypeOK
<1>6. CASE Exit(p)
  BY <1>5, <1>6 DEF Exit, Go, TypeOK
<1>7. CASE Crash(p)
  BY <1>5, <1>7, <1>e DEF Crash, Go
<1>8. QED
  BY <1>1, <1>2, <1>3, <1>4, <1>6, <1>7 DEF Page

LEMMA StepType == TypeInv /\ [Next]_vars => TypeInv'
<1> SUFFICES ASSUME TypeInv, [Next]_vars PROVE TypeInv'
  OBVIOUS
<1>1. CASE Next
  BY <1>1, StartType, WindowType DEF Next
<1>2. CASE UNCHANGED vars
  BY <1>2 DEF vars, TypeInv, TypeOK, Senders
<1>3. QED
  BY <1>1, <1>2

\* Type correctness of processes, requests, queues and pages.
THEOREM TypeCorrect == Spec => []TypeOK
<1>1. TypeInv => TypeOK
  BY DEF TypeInv
<1>2. QED
  BY InitType, StepType, <1>1, PTL DEF Spec
-----------------------------------------------------------------------------
(* The control port and the token.                                         *)

\* Only Bind, Publish, Quit and the end of a process touch the port or the token, and a
\* process that has them stays where it is in all other steps.
LEMMA StepPort ==
  ASSUME TypeInv, PortHeld, Next
  PROVE  PortHeld'
<1> PICK p \in Launches :
      \/ Launch(p) \/ Start(p) \/ ForwardArrives(p) \/ Page(p) \/ Exit(p)
      \/ PingTimesOut(p) \/ ForwardTimesOut(p) \/ PageReloads(p) \/ Quit(p) \/ Crash(p)
  BY DEF Next
<1> USE InstanceAssumption DEF TypeInv, TypeOK, PortHeld, Go
<1>1. CASE Launch(p)
  BY <1>1 DEF Launch
<1>2. CASE Start(p)
  <2>1. CASE PingAnswered(p)
    BY <2>1 DEF PingAnswered
  <2>2. CASE Forward(p)
    BY <2>2 DEF Forward
  <2>3. CASE ForwardAnswered(p)
    BY <2>3 DEF ForwardAnswered
  <2>4. CASE Bind(p)
    BY <2>4 DEF Bind
  <2>5. CASE BindElsewhere(p)
    BY <2>5 DEF BindElsewhere
  <2>6. CASE Publish(p)
    BY <2>6 DEF Publish
  <2>7. QED
    BY <1>2, <2>1, <2>2, <2>3, <2>4, <2>5, <2>6 DEF Start
<1>3. CASE ForwardArrives(p)
  BY <1>3 DEF ForwardArrives
<1>4. CASE Page(p)
  BY <1>4 DEF Page, PageAsks, PageOpens
<1>5. CASE Exit(p) \/ Crash(p)
  <2>1. pc' = [pc EXCEPT ![p] = "gone"] /\ UNCHANGED instance
    BY <1>5 DEF Exit, Crash
  <2>2. port' = IF port = p THEN None ELSE port
    BY <1>5 DEF Exit, Crash, Vanish
  <2>3. CASE port = p
    BY <2>1, <2>2, <2>3
  <2>4. CASE port # p
    BY <2>1, <2>2, <2>4
  <2>5. QED
    BY <2>3, <2>4
<1>6. CASE PingTimesOut(p) \/ ForwardTimesOut(p)
  BY <1>6 DEF PingTimesOut, ForwardTimesOut
<1>7. CASE PageReloads(p)
  BY <1>7 DEF PageReloads
<1>8. CASE Quit(p)
  BY <1>8 DEF Quit
<1>9. QED
  BY <1>1, <1>2, <1>3, <1>4, <1>5, <1>6, <1>7, <1>8

\* No token is lost: the last Publish was that of the resident, as it took the port from
\* nobody, and a Quit of another process is an orphan.
LEMMA StepNamed ==
  ASSUME TypeInv, PortHeld, ResidentIsNamed, Next
  PROVE  ResidentIsNamed'
<1> SUFFICES ASSUME NoneOf({"orphan"})', NEW r \in Launches, pc'[r] = "resident"
             PROVE  port' = r /\ instance' = r
  BY DEF ResidentIsNamed
<1> PICK p \in Launches :
      \/ Launch(p) \/ Start(p) \/ ForwardArrives(p) \/ Page(p) \/ Exit(p)
      \/ PingTimesOut(p) \/ ForwardTimesOut(p) \/ PageReloads(p) \/ Quit(p) \/ Crash(p)
  BY DEF Next
<1>0. port' = r
  BY StepPort DEF PortHeld
<1>1. CASE Quit(p)
  <2>1. pc[r] = "resident" /\ r # p
    BY <1>1 DEF Quit, Go, TypeInv, TypeOK
  <2>2. "orphan" \in events'
    BY <1>1, <2>1 DEF Quit, Happen, Mark
  <2>3. QED
    BY <2>2 DEF NoneOf
<1>2. CASE Publish(p)
  <2>1. port' = p
    BY <1>2 DEF Publish, Go, PortHeld
  <2>2. QED
    BY <1>0, <1>2, <2>1 DEF Publish
<1>3. CASE ~Quit(p) /\ ~Publish(p)
  <2>1. instance' = instance /\ pc[r] = "resident" /\ events \subseteq events'
    <3> USE <1>3 DEF Go, TypeInv, TypeOK, Happen
    <3>1. CASE Launch(p)
      BY <3>1 DEF Launch
    <3>2. CASE Start(p)
      BY <3>2 DEF Start, PingAnswered, Forward, ForwardAnswered, Bind, BindElsewhere
    <3>3. CASE ForwardArrives(p) \/ Page(p)
      BY <3>3 DEF ForwardArrives, Page, PageAsks, PageOpens
    <3>4. CASE Exit(p) \/ Crash(p)
      BY <3>4 DEF Exit, Crash, Vanish
    <3>5. CASE PingTimesOut(p) \/ ForwardTimesOut(p) \/ PageReloads(p)
      BY <3>5 DEF PingTimesOut, ForwardTimesOut, PageReloads
    <3>6. QED
      BY <3>1, <3>2, <3>3, <3>4, <3>5
  <2>2. QED
    BY <1>0, <2>1 DEF ResidentIsNamed, NoneOf
<1>4. QED
  BY <1>1, <1>2, <1>3

\* A process that serves the control port is the one instance.json names.
THEOREM ResidentNamed == Spec => []ResidentIsNamed
<1> DEFINE Inv == TypeInv /\ PortHeld /\ ResidentIsNamed
<1>1. Init => Inv
  BY InitType DEF Init, PortHeld, ResidentIsNamed
<1>2. Inv /\ [Next]_vars => Inv'
  <2>1. CASE Next
    BY <2>1, StepType, StepPort, StepNamed
  <2>2. CASE UNCHANGED vars
    BY <2>2, StepType DEF vars, PortHeld, ResidentIsNamed, NoneOf
  <2>3. QED
    BY <2>1, <2>2
<1>3. QED
  BY <1>1, <1>2, PTL DEF Spec
-----------------------------------------------------------------------------
(* One window.                                                             *)

Disorder == {"start", "leave", "late", "missing"}

\* With nobody resident, a process is launched among no others.
LEMMA LaunchOrder ==
  ASSUME TypeInv, PortHeld, \A q \in Launches : Orderly(q), NEW p \in Launches, Launch(p),
         NoneOf(Disorder)'
  PROVE  \A q \in Launches : Orderly(q)'
<1>1. /\ \/ Underway(p) = {}
         \/ \E q \in Launches : pc[q] = "resident"
      /\ \A q \in Launches : pc[q] # "quitting"
  BY DEF Launch, Happen, Mark, NoneOf, Disorder
<1>2. pc[p] = "off" /\ post[p] = "none" /\ saw'[p] = instance
  BY DEF Launch, Go, Orderly, TypeInv, TypeOK
<1>3. \A q \in Launches \ {p} : pc'[q] = pc[q] /\ saw'[q] = saw[q]
  BY DEF Launch, Go, TypeInv, TypeOK
<1>4. UNCHANGED <<port, instance, post>>
  BY DEF Launch
<1>5. CASE \E r \in Launches : pc[r] = "resident"
  <2> PICK r \in Launches : pc[r] = "resident"
    BY <1>5
  <2>1. port = r /\ instance = r /\ r # p /\ r # None
    BY <1>2, InstanceAssumption DEF PortHeld, Orderly
  <2>2. pc'[p] = "ping"
    BY <2>1 DEF Launch, Go, TypeInv, TypeOK
  <2>3. FoundResident(p)'
    BY <1>2, <1>3, <1>4, <2>1 DEF FoundResident
  <2>4. \A q \in Launches \ {p} : FoundResident(q) => FoundResident(q)'
    BY <1>2, <1>3, <1>4 DEF FoundResident
  <2>5. \A q \in Launches \ {p} : ~Alone(q) \/ q = r
    BY DEF Alone, Serving, Windows
  <2>6. QED
    BY <1>1, <1>2, <1>3, <1>4, <2>1, <2>2, <2>3, <2>4, <2>5 DEF Orderly
<1>6. CASE \A r \in Launches : pc[r] # "resident"
  <2>1. \A q \in Launches \ {p} : pc[q] \notin Launching \union Serving
    BY <1>1, <1>6 DEF Underway, Serving, Windows, Orderly, Launching
  <2>2. Alone(p)'
    BY <1>3, <2>1 DEF Alone
  <2>3. pc'[p] \in {"ping", "bind"}
    BY DEF Launch, Go, TypeInv, TypeOK
  <2>4. QED
    BY <1>2, <1>3, <1>4, <2>1, <2>2, <2>3 DEF Orderly, Launching, Serving, Windows
<1>7. QED
  BY <1>5, <1>6

\* A process that was alone stays so while it goes on.
LEMMA AloneGoesOn ==
  ASSUME TypeInv, NEW p \in Launches, Alone(p), \A q \in Launches : Orderly(q),
         NEW to \in States, pc' = [pc EXCEPT ![p] = to],
         UNCHANGED <<saw, post>>, UNCHANGED instance \/ instance' = p,
         to \in {"bind", "publish", "resident", "handed"}, pc[p] \in Launching,
         to = "resident" => instance' = p
  PROVE  \A q \in Launches : Orderly(q)'
<1>1. pc'[p] = to /\ \A q \in Launches \ {p} : pc'[q] = pc[q]
  BY DEF TypeInv, TypeOK
<1>2. \A q \in Launches \ {p} : pc[q] \notin Launching \union Serving
  BY DEF Alone
<1>3. Alone(p)'
  BY <1>1, <1>2 DEF Alone
<1>4. QED
  BY <1>1, <1>2, <1>3 DEF Orderly, Launching, Serving, Windows

\* A process that leaves, or that others have no use for, while the resident stays.
LEMMA OthersStay ==
  ASSUME TypeInv, NEW p \in Launches, \A q \in Launches : Orderly(q),
         FoundResident(p), pc[p] \in {"ping", "forward"},
         NEW to \in {"forward", "handed"}, pc' = [pc EXCEPT ![p] = to],
         post[p] # "refused", UNCHANGED <<port, instance, saw, post>>
  PROVE  \A q \in Launches : Orderly(q)'
<1>1. pc'[p] = to /\ \A q \in Launches \ {p} : pc'[q] = pc[q]
  BY DEF TypeInv, TypeOK
<1>2. \A q \in Launches : FoundResident(q) => FoundResident(q)'
  BY <1>1 DEF FoundResident
<1>3. \A q \in Launches : Alone(q) => Alone(q)'
  BY <1>1 DEF Alone, Launching
<1>4. QED
  BY <1>1, <1>2, <1>3 DEF Orderly

LEMMA StartOrder ==
  ASSUME TypeInv, PortHeld, \A q \in Launches : Orderly(q), NEW p \in Launches, Start(p)
  PROVE  \A q \in Launches : Orderly(q)'
<1>0. \A q \in Launches : Alone(q) => port = None \/ port = q
  BY DEF Alone, PortHeld, Serving, Windows, TypeInv, TypeOK
<1>1. CASE PingAnswered(p)
  <2>1. pc[p] = "ping" /\ post[p] = "none"
    BY <1>1 DEF PingAnswered, Go, Orderly
  <2>2. CASE FoundResident(p)
    <3>1. port # None /\ instance = saw[p]
      BY <2>2, InstanceAssumption DEF FoundResident
    <3>2. \E to \in {"forward", "handed"} : pc' = [pc EXCEPT ![p] = to]
      BY <1>1, <3>1 DEF PingAnswered, Go
    <3>3. QED
      BY <1>1, <2>1, <2>2, <3>2, OthersStay DEF PingAnswered
  <2>3. CASE Alone(p)
    <3>1. port = None
      BY <1>0, <2>1, <2>3 DEF PortHeld
    <3>2. pc' = [pc EXCEPT ![p] = "bind"]
      BY <1>1, <3>1 DEF PingAnswered, Go
    <3>3. QED
      BY <1>1, <2>1, <2>3, <3>2, AloneGoesOn DEF PingAnswered, States, Launching
  <2>4. QED
    BY <2>1, <2>2, <2>3 DEF Orderly
<1>2. CASE Forward(p)
  <2>1. FoundResident(p) /\ port # None /\ pc[p] = "forward"
    BY <1>2, InstanceAssumption DEF Forward, Orderly, FoundResident
  <2>2. post' = [post EXCEPT ![p] = "sent"] /\ UNCHANGED <<pc, port, instance, saw>>
    BY <1>2, <2>1 DEF Forward
  <2>3. \A q \in Launches : /\ Alone(q) => Alone(q)'
                            /\ FoundResident(q) => FoundResident(q)'
    BY <2>2 DEF Alone, FoundResident
  <2>4. \A q \in Launches \ {p} : post'[q] = post[q]
    BY <2>2 DEF TypeInv, TypeOK
  <2>5. post'[p] = "sent"
    BY <2>2 DEF TypeInv, TypeOK
  <2>6. QED
    BY <2>1, <2>2, <2>3, <2>4, <2>5 DEF Orderly
<1>3. CASE ForwardAnswered(p)
  <2>1. FoundResident(p) /\ post[p] # "refused" /\ pc[p] = "forward"
    BY <1>3 DEF ForwardAnswered, Go, Orderly
  <2>2. pc' = [pc EXCEPT ![p] = "handed"]
    BY <1>3, <2>1 DEF ForwardAnswered, Go
  <2>3. QED
    BY <1>3, <2>1, <2>2, OthersStay DEF ForwardAnswered
<1>4. CASE Bind(p)
  BY <1>4, AloneGoesOn DEF Bind, Go, Orderly, States, Launching
<1>5. CASE BindElsewhere(p)
  <2>1. pc[p] = "bind" /\ Alone(p)
    BY <1>5 DEF BindElsewhere, Go, Orderly
  <2>2. QED
    BY <1>0, <1>5, <2>1 DEF BindElsewhere, PortHeld
<1>6. CASE Publish(p)
  BY <1>6, AloneGoesOn DEF Publish, Go, Orderly, States, Launching, Serving, Windows
<1>7. QED
  BY <1>1, <1>2, <1>3, <1>4, <1>5, <1>6 DEF Start

\* The resident takes a file, as it has the token and the file.
LEMMA ArrivesOrder ==
  ASSUME TypeInv, \A q \in Launches : Orderly(q), NEW p \in Launches, ForwardArrives(p),
         NoneOf(Disorder)'
  PROVE  \A q \in Launches : Orderly(q)'
<1>1. post[p] = "sent" /\ UNCHANGED <<pc, port, instance, saw>>
  BY DEF ForwardArrives
<1>2. \A q \in Launches \ {p} : post'[q] = post[q]
  BY DEF ForwardArrives, TypeInv, TypeOK
<1>3. "missing" \notin events'
  BY DEF NoneOf, Disorder
<1>4. post'[p] = "accepted" \/ instance # saw[p]
  BY <1>3 DEF ForwardArrives, Happen, TypeInv, TypeOK
<1>5. pc[p] = "forward" => instance = saw[p]
  BY DEF Orderly, FoundResident
<1>6. \A q \in Launches : /\ Alone(q) => Alone(q)'
                          /\ FoundResident(q) => FoundResident(q)'
  BY <1>1 DEF Alone, FoundResident
<1>7. pc[p] \notin {"off", "ping"}
  BY <1>1 DEF Orderly
<1>8. QED
  BY <1>1, <1>2, <1>4, <1>5, <1>6, <1>7 DEF Orderly

\* A process that ends, or begins to, while no other is being launched.
LEMMA EndOrder ==
  ASSUME TypeInv, PortHeld, \A q \in Launches : Orderly(q), NEW p \in Launches,
         Quit(p) \/ Exit(p) \/ Crash(p), NoneOf(Disorder)'
  PROVE  \A q \in Launches : Orderly(q)'
<1>1. \/ pc[p] \in {"resident", "extra"} /\ pc' = [pc EXCEPT ![p] = "quitting"]
      \/ pc[p] \in Serving /\ pc' = [pc EXCEPT ![p] = "gone"]
  BY DEF Quit, Exit, Crash, Go, Serving
<1>2. Underway(p) = {}
  <2>1. CASE Exit(p)
    BY <2>1 DEF Exit, Go, Orderly, Alone, Underway
  <2>2. CASE Quit(p) \/ Crash(p)
    BY <2>2 DEF Quit, Crash, Happen, Harm, Mark, NoneOf, Disorder
  <2>3. QED
    BY <2>1, <2>2
<1>3. \A q \in Launches \ {p} : pc[q] \notin Launching \union Serving
  <2>1. \A q \in Launches \ {p} : pc[q] \notin Launching /\ pc[q] # "extra"
    BY <1>2 DEF Underway, Orderly
  <2>2. \A q \in Launches \ {p} : pc[q] # "resident"
    BY <1>1 DEF Orderly, PortHeld, Alone, Serving, Windows
  <2>3. \A q \in Launches \ {p} : pc[q] # "quitting"
    BY <1>1 DEF Orderly, Alone, Serving, Windows
  <2>4. QED
    BY <2>1, <2>2, <2>3 DEF Launching, Serving, Windows
<1>4. pc'[p] \in {"quitting", "gone"} /\ \A q \in Launches \ {p} : pc'[q] = pc[q]
  BY <1>1 DEF TypeInv, TypeOK
<1>5. Alone(p)'
  BY <1>3, <1>4 DEF Alone
<1>6. \A q \in Launches : post[q] = "none" => post'[q] = "none"
  BY DEF Quit, Exit, Crash, Vanish
<1>7. QED
  BY <1>3, <1>4, <1>5, <1>6 DEF Orderly, Launching, Serving, Windows

LEMMA StepOrder ==
  ASSUME TypeInv, PortHeld, InOrder, Next
  PROVE  InOrder'
<1> SUFFICES ASSUME NoneOf(Disorder)' PROVE \A q \in Launches : Orderly(q)'
  BY DEF InOrder, Disorder
<1> PICK p \in Launches :
      \/ Launch(p) \/ Start(p) \/ ForwardArrives(p) \/ Page(p) \/ Exit(p)
      \/ PingTimesOut(p) \/ ForwardTimesOut(p) \/ PageReloads(p) \/ Quit(p) \/ Crash(p)
  BY DEF Next
<1>1. events \subseteq events'
  <2>1. CASE Start(p)
    BY <2>1 DEF Start, PingAnswered, Forward, ForwardAnswered, Bind, BindElsewhere, Publish
  <2>2. CASE Page(p) \/ Exit(p)
    BY <2>2 DEF Page, PageAsks, PageOpens, Exit
  <2>3. CASE ~Start(p) /\ ~Page(p) /\ ~Exit(p)
    BY <2>3 DEF Launch, ForwardArrives, PingTimesOut, ForwardTimesOut, PageReloads, Quit,
                Crash, Happen
  <2>4. QED
    BY <2>1, <2>2, <2>3
<1>2. \A q \in Launches : Orderly(q)
  BY <1>1 DEF InOrder, NoneOf, Disorder
<1>3. CASE Launch(p)
  BY <1>2, <1>3, LaunchOrder
<1>4. CASE Start(p)
  BY <1>2, <1>4, StartOrder
<1>5. CASE ForwardArrives(p)
  BY <1>2, <1>5, ArrivesOrder
<1>6. CASE Quit(p) \/ Exit(p) \/ Crash(p)
  BY <1>2, <1>6, EndOrder
<1>7. CASE Page(p) \/ PageReloads(p)
  <2>1. UNCHANGED <<pc, port, instance, saw, post>>
    BY <1>7 DEF Page, PageAsks, PageOpens, PageReloads
  <2>2. QED
    BY <1>2, <2>1 DEF Orderly, Alone, FoundResident
<1>8. CASE PingTimesOut(p) \/ ForwardTimesOut(p)
  BY <1>8 DEF PingTimesOut, ForwardTimesOut, Happen, NoneOf, Disorder
<1>9. QED
  BY <1>3, <1>4, <1>5, <1>6, <1>7, <1>8

\* As long as processes are launched one after the other and answered in time there is one
\* window, whatever ended before.
THEOREM OneWindowOnly == Spec => []OneWindow
<1> DEFINE Inv == TypeInv /\ PortHeld /\ InOrder
<1>1. Init => Inv
  BY InitType, InstanceAssumption DEF Init, PortHeld, InOrder, Orderly
<1>2. Inv /\ [Next]_vars => Inv'
  <2>1. CASE Next
    BY <2>1, StepType, StepPort, StepOrder
  <2>2. CASE UNCHANGED vars
    BY <2>2, StepType DEF vars, PortHeld, InOrder, Orderly, Alone, FoundResident, NoneOf
  <2>3. QED
    BY <2>1, <2>2
<1>3. Inv => OneWindow
  <2> SUFFICES ASSUME Inv, NoneOf(Disorder), NEW p \in Launches, NEW q \in Launches,
                      pc[p] \in Windows, pc[q] \in Windows
               PROVE  p = q
    BY DEF OneWindow, Disorder
  <2>1. pc[p] # "extra" /\ pc[q] # "extra"
    BY DEF InOrder, Disorder, Orderly
  <2>2. QED
    BY <2>1 DEF PortHeld, Windows
<1>4. QED
  BY <1>1, <1>2, <1>3, PTL DEF Spec
-----------------------------------------------------------------------------
(* A file that was handed over is opened once.                             *)

Accounted ==
  /\ \A f \in WithFile : Handing(f)
  /\ \A p \in Launches : Posting(p) /\ Single(p)

\* Steps that touch no queue, page or file leave every file where it is.
LEMMA FilesStay ==
  ASSUME UNCHANGED <<queue, taken, opened>>
  PROVE  /\ \A f \in WithFile : /\ Untouched(f)' <=> Untouched(f)
                                /\ Shown(f)' <=> Shown(f)
                                /\ Coming(f)' <=> Coming(f)
         /\ \A p \in Launches :
              /\ (\A i, j \in DOMAIN queue[p] : queue[p][i] = queue[p][j] => i = j)'
                   <=> (\A i, j \in DOMAIN queue[p] : queue[p][i] = queue[p][j] => i = j)
              /\ (\A i \in DOMAIN queue[p] : queue[p][i] \notin taken[p])'
                   <=> (\A i \in DOMAIN queue[p] : queue[p][i] \notin taken[p])
BY DEF Untouched, Shown, Coming, Holds

\* The process itself opens the file it was given, which nobody else has.
LEMMA OpenedByItself ==
  ASSUME TypeInv, NEW p \in Launches, OpenOwn(p), UNCHANGED <<queue, taken>>
  PROVE  /\ p \in WithFile /\ Untouched(p) => Shown(p)'
         /\ \A f \in WithFile \ {p} : /\ Untouched(f)' <=> Untouched(f)
                                      /\ Shown(f)' <=> Shown(f)
                                      /\ Coming(f)' <=> Coming(f)
<1>1. \A f \in WithFile \ {p} : opened'[f] = opened[f]
  BY InstanceAssumption DEF OpenOwn, TypeInv, TypeOK
<1>2. p \in WithFile => opened'[p] = opened[p] + 1
  BY DEF OpenOwn, TypeInv, TypeOK
<1>3. \A q \in Launches, f \in WithFile : Holds(q, f)' <=> Holds(q, f)
  BY DEF Holds
<1>4. QED
  BY <1>1, <1>2, <1>3 DEF Untouched, Shown, Coming

LEMMA StartHands ==
  ASSUME TypeInv, PortHeld, Accounted, NEW p \in Launches, Launch(p) \/ Start(p)
  PROVE  Accounted'
<1> USE InstanceAssumption DEF TypeInv
<1>1. CASE Launch(p)
  <2>1. /\ pc[p] = "off"
        /\ \/ pc'[p] = "bind"
           \/ pc'[p] = "ping" /\ instance # None
        /\ saw'[p] = instance
        /\ \A q \in Launches \ {p} : pc'[q] = pc[q] /\ saw'[q] = saw[q]
    BY <1>1 DEF Launch, Go, TypeOK
  <2>2. UNCHANGED <<port, post, queue, taken, opened>>
    BY <1>1 DEF Launch
  <2>3. \A f \in WithFile : Handing(f)'
    BY <2>1, <2>2, FilesStay DEF Handing, Accounted
  <2>4. \A q \in Launches : Posting(q)'
    BY <2>1, <2>2 DEF Posting, Accounted, TypeOK
  <2>5. \A q \in Launches : Single(q)'
    BY <2>1, <2>2, FilesStay DEF Single, Accounted
  <2>6. QED
    BY <2>3, <2>4, <2>5 DEF Accounted
<1>2. CASE PingAnswered(p)
  <2>1. /\ pc[p] = "ping" /\ pc'[p] \in {"bind", "forward", "handed"}
        /\ p \in WithFile => pc'[p] # "handed"
        /\ \A q \in Launches \ {p} : pc'[q] = pc[q]
    BY <1>2 DEF PingAnswered, Go, TypeOK
  <2>2. UNCHANGED <<port, saw, post, queue, taken, opened>>
    BY <1>2 DEF PingAnswered
  <2>3. \A f \in WithFile : Handing(f)'
    BY <2>1, <2>2, FilesStay DEF Handing, Accounted, Posting
  <2>4. \A q \in Launches : Posting(q)'
    BY <2>1, <2>2 DEF Posting, Accounted, TypeOK
  <2>5. \A q \in Launches : Single(q)'
    BY <2>1, <2>2, FilesStay DEF Single, Accounted
  <2>6. QED
    BY <2>3, <2>4, <2>5 DEF Accounted
<1>3. CASE Forward(p)
  <2>1. pc[p] = "forward" /\ post[p] = "none" /\ UNCHANGED <<port, saw, queue, taken, opened>>
    BY <1>3 DEF Forward
  <2>2. CASE port = None
    <3>1. /\ pc'[p] = "bind" /\ UNCHANGED post
          /\ \A q \in Launches \ {p} : pc'[q] = pc[q]
      BY <1>3, <2>2 DEF Forward, TypeOK
    <3>2. \A f \in WithFile : Handing(f)'
      BY <2>1, <3>1, FilesStay DEF Handing, Accounted
    <3>3. \A q \in Launches : Posting(q)' /\ Single(q)'
      BY <2>1, <2>2, <3>1, FilesStay DEF Posting, Single, Accounted
    <3>4. QED
      BY <3>2, <3>3 DEF Accounted
  <2>3. CASE port # None
    <3>1. /\ post'[p] = "sent" /\ UNCHANGED pc
          /\ \A q \in Launches \ {p} : post'[q] = post[q]
      BY <1>3, <2>3 DEF Forward, TypeOK
    <3>2. \A f \in WithFile : Handing(f)'
      BY <2>1, <3>1, FilesStay DEF Handing, Accounted
    <3>3. \A q \in Launches : Posting(q)' /\ Single(q)'
      BY <2>1, <2>3, <3>1, FilesStay DEF Posting, Single, Accounted
    <3>4. QED
      BY <3>2, <3>3 DEF Accounted
  <2>4. QED
    BY <2>2, <2>3
<1>4. CASE ForwardAnswered(p)
  <2>1. /\ pc[p] = "forward"
        /\ \/ post[p] = "accepted" /\ pc'[p] = "handed"
           \/ post[p] = "refused" /\ pc'[p] = "bind"
        /\ \A q \in Launches \ {p} : pc'[q] = pc[q]
    BY <1>4 DEF ForwardAnswered, Go, TypeOK
  <2>2. UNCHANGED <<port, saw, post, queue, taken, opened>>
    BY <1>4 DEF ForwardAnswered
  <2>3. \A f \in WithFile : Handing(f)'
    BY <2>1, <2>2, FilesStay DEF Handing, Accounted
  <2>4. \A q \in Launches : Posting(q)'
    BY <2>1, <2>2 DEF Posting, Accounted, TypeOK
  <2>5. \A q \in Launches : Single(q)'
    BY <2>1, <2>2, FilesStay DEF Single, Accounted
  <2>6. QED
    BY <2>3, <2>4, <2>5 DEF Accounted
<1>5. CASE Bind(p)
  <2>1. /\ port = None /\ port' = p
        /\ pc[p] = "bind" /\ pc'[p] = "publish"
        /\ \A q \in Launches \ {p} : pc'[q] = pc[q]
        /\ UNCHANGED <<saw, post, queue, taken, opened>>
    BY <1>5 DEF Bind, Go, TypeOK
  <2>2. \A f \in WithFile : Handing(f)'
    BY <2>1, FilesStay DEF Handing, Accounted
  <2>3. \A q \in Launches : Posting(q)' /\ Single(q)'
    BY <2>1, FilesStay DEF Posting, Single, Accounted
  <2>4. QED
    BY <2>2, <2>3 DEF Accounted
<1>6. CASE BindElsewhere(p) \/ Publish(p)
  <2>1. /\ \/ pc[p] = "bind" /\ pc'[p] = "extra"
           \/ pc[p] = "publish" /\ pc'[p] = "resident"
        /\ \A q \in Launches \ {p} : pc'[q] = pc[q]
    BY <1>6 DEF BindElsewhere, Publish, Go, TypeOK
  <2>2. OpenOwn(p) /\ UNCHANGED <<port, saw, post, queue, taken>>
    BY <1>6 DEF BindElsewhere, Publish
  <2>3. \A f \in WithFile : Handing(f)'
    BY <2>1, <2>2, OpenedByItself DEF Handing, Accounted
  <2>4. \A q \in Launches : Posting(q)'
    BY <2>1, <2>2 DEF Posting, Accounted, TypeOK
  <2>5. \A q \in Launches : Single(q)'
    BY <2>1, <2>2 DEF Single, Accounted
  <2>6. QED
    BY <2>3, <2>4, <2>5 DEF Accounted
<1>7. QED
  BY <1>1, <1>2, <1>3, <1>4, <1>5, <1>6 DEF Start

\* A file that is accepted was nowhere, and is behind the others in one queue.
LEMMA ArrivesHands ==
  ASSUME TypeInv, PortHeld, Accounted, NEW p \in Launches, ForwardArrives(p)
  PROVE  Accounted'
<1> USE InstanceAssumption DEF TypeInv
<1>1. /\ post[p] = "sent" /\ pc[p] = "forward" /\ p \in WithFile /\ port \in Launches
      /\ saw[p] # None /\ Untouched(p)
      /\ UNCHANGED <<pc, port, instance, saw, taken, opened>>
  BY DEF ForwardArrives, Answers, TypeOK, Accounted, Posting, Senders, Handing
<1>2. \A q \in Launches \ {p} : post'[q] = post[q]
  BY DEF ForwardArrives, TypeOK
<1>3. CASE UNCHANGED queue /\ post'[p] = "refused"
  <2>1. \A f \in WithFile : Handing(f)'
    BY <1>1, <1>2, <1>3, FilesStay DEF Handing, Accounted
  <2>2. \A q \in Launches : Posting(q)' /\ Single(q)'
    BY <1>1, <1>2, <1>3, FilesStay DEF Posting, Single, Accounted
  <2>3. QED
    BY <2>1, <2>2 DEF Accounted
<1>4. CASE /\ instance = saw[p] /\ post'[p] = "accepted"
           /\ queue' = [queue EXCEPT ![port] = Append(@, p)]
  <2> DEFINE n == Len(queue[port]) + 1
  <2>1. pc[port] # "quitting"
    BY <1>1, <1>4 DEF PortHeld
  <2>2. /\ queue'[port] = Append(queue[port], p) /\ queue[port] \in Seq(WithFile)
        /\ \A q \in Launches \ {port} : queue'[q] = queue[q]
    BY <1>1, <1>4 DEF TypeOK
  <2>3. /\ DOMAIN queue'[port] = DOMAIN queue[port] \union {n}
        /\ queue'[port][n] = p /\ n \notin DOMAIN queue[port]
        /\ \A i \in DOMAIN queue[port] : queue'[port][i] = queue[port][i]
    BY <1>1, <2>2
  <2>4. \A q \in Launches, f \in WithFile :
          Holds(q, f)' <=> (Holds(q, f) \/ (q = port /\ f = p))
    BY <1>1, <2>2, <2>3 DEF Holds
  <2>5. Coming(p)'
    BY <1>1, <2>4 DEF Coming, Untouched
  <2>6. \A f \in WithFile \ {p} : /\ Untouched(f)' <=> Untouched(f)
                                  /\ Shown(f)' <=> Shown(f)
                                  /\ Coming(f)' <=> Coming(f)
    BY <1>1, <2>4 DEF Untouched, Shown, Coming
  <2>7. \A f \in WithFile : Handing(f)'
    BY <1>1, <1>2, <1>4, <2>5, <2>6 DEF Handing, Accounted
  <2>8. \A q \in Launches : Posting(q)'
    BY <1>1, <1>2, <1>4, <2>1 DEF Posting, Accounted
  <2>9. Single(port)'
    <3>1. ~Holds(port, p)
      BY <1>1 DEF Untouched
    <3>2. \A i \in DOMAIN queue[port] : queue[port][i] # p
      BY <3>1 DEF Holds
    <3>3. p \notin taken[port]
      BY <3>1 DEF Holds
    <3>4. Single(port)
      BY <1>1 DEF Accounted
    <3>5. (\A i, j \in DOMAIN queue[port] : queue[port][i] = queue[port][j] => i = j)'
      <4> SUFFICES ASSUME NEW i \in DOMAIN queue'[port], NEW j \in DOMAIN queue'[port],
                          queue'[port][i] = queue'[port][j]
                   PROVE  i = j
        BY <1>1
      <4>1. CASE i = n \/ j = n
        BY <2>3, <3>2, <4>1
      <4>2. CASE i # n /\ j # n
        <5>1. i \in DOMAIN queue[port] /\ j \in DOMAIN queue[port]
          BY <2>3, <4>2
        <5>2. queue[port][i] = queue[port][j]
          BY <2>3, <5>1
        <5>3. QED
          BY <3>4, <5>1, <5>2 DEF Single
      <4>3. QED
        BY <4>1, <4>2
    <3>6. (\A i \in DOMAIN queue[port] : queue[port][i] \notin taken[port])'
      BY <1>1, <2>3, <3>3, <3>4 DEF Single
    <3>7. QED
      BY <1>1, <2>1, <3>5, <3>6 DEF Single
  <2>10. \A q \in Launches \ {port} : Single(q)'
    BY <1>1, <2>2 DEF Single, Accounted
  <2>11. QED
    BY <1>1, <2>7, <2>8, <2>9, <2>10 DEF Accounted
<1>5. QED
  BY <1>3, <1>4 DEF ForwardArrives, TypeOK

\* The page takes the first file of the queue, which is nowhere else in it.
LEMMA PageAsksHands ==
  ASSUME TypeInv, Accounted, NEW p \in Launches, PageAsks(p)
  PROVE  Accounted'
<1> USE DEF TypeInv
<1> DEFINE s == queue[p]
<1>1. /\ s \in Seq(WithFile) /\ s # <<>> /\ pc[p] # "quitting" /\ p \in Launches
      /\ UNCHANGED <<pc, port, saw, post, opened>>
  BY DEF PageAsks, TypeOK
<1>2. /\ queue'[p] = Tail(s) /\ taken'[p] = taken[p] \union {Head(s)}
      /\ \A q \in Launches \ {p} : queue'[q] = queue[q] /\ taken'[q] = taken[q]
  BY DEF PageAsks, TypeOK
<1>3. /\ Head(s) = s[1] /\ DOMAIN s = 1..Len(s) /\ Len(s) \in Nat /\ Len(s) > 0
      /\ DOMAIN Tail(s) = 1..(Len(s) - 1)
      /\ \A i \in 1..(Len(s) - 1) : Tail(s)[i] = s[i + 1]
  BY <1>1
<1>4. \A f \in WithFile : (\E i \in DOMAIN s : s[i] = f)
                            <=> (f = s[1] \/ \E i \in DOMAIN Tail(s) : Tail(s)[i] = f)
  <2> SUFFICES ASSUME NEW f \in WithFile
               PROVE  (\E i \in DOMAIN s : s[i] = f)
                        <=> (f = s[1] \/ \E i \in DOMAIN Tail(s) : Tail(s)[i] = f)
    OBVIOUS
  <2>1. ASSUME NEW i \in DOMAIN s, s[i] = f, f # s[1]
        PROVE  \E j \in DOMAIN Tail(s) : Tail(s)[j] = f
    <3>1. i - 1 \in DOMAIN Tail(s) /\ Tail(s)[i - 1] = s[i]
      BY <1>3, <2>1
    <3>2. QED
      BY <2>1, <3>1
  <2>2. ASSUME NEW i \in DOMAIN Tail(s), Tail(s)[i] = f
        PROVE  \E j \in DOMAIN s : s[j] = f
    BY <1>3, <2>2
  <2>3. 1 \in DOMAIN s
    BY <1>3
  <2>4. QED
    BY <2>1, <2>2, <2>3
<1>5. \A q \in Launches, f \in WithFile : Holds(q, f)' <=> Holds(q, f)
  <2>1. \A f \in WithFile : Holds(p, f)' <=> Holds(p, f)
    BY <1>2, <1>3, <1>4 DEF Holds
  <2>2. \A q \in Launches \ {p}, f \in WithFile : Holds(q, f)' <=> Holds(q, f)
    BY <1>2 DEF Holds
  <2>3. QED
    BY <2>1, <2>2
<1>6. \A f \in WithFile : Handing(f)'
  BY <1>1, <1>5 DEF Handing, Accounted, Untouched, Shown, Coming
<1>7. Single(p)'
  <2>1. Single(p)
    BY DEF Accounted
  <2>2. \A i, j \in DOMAIN Tail(s) : Tail(s)[i] = Tail(s)[j] => i = j
    <3> SUFFICES ASSUME NEW i \in 1..(Len(s) - 1), NEW j \in 1..(Len(s) - 1), s[i + 1] = s[j + 1]
                 PROVE  i = j
      BY <1>3
    <3>1. i + 1 \in DOMAIN s /\ j + 1 \in DOMAIN s
      BY <1>3
    <3>2. i + 1 = j + 1
      BY <2>1, <3>1 DEF Single
    <3>3. QED
      BY <3>2
  <2>3. \A i \in DOMAIN Tail(s) : Tail(s)[i] # s[1] /\ Tail(s)[i] \notin taken[p]
    <3> SUFFICES ASSUME NEW i \in 1..(Len(s) - 1)
                 PROVE  s[i + 1] # s[1] /\ s[i + 1] \notin taken[p]
      BY <1>3
    <3>1. i + 1 \in DOMAIN s /\ 1 \in DOMAIN s /\ i + 1 # 1
      BY <1>3
    <3>2. QED
      BY <2>1, <3>1 DEF Single
  <2>4. QED
    BY <1>1, <1>2, <1>3, <2>2, <2>3 DEF Single
<1>8. \A q \in Launches \ {p} : Single(q)'
  BY <1>1, <1>2 DEF Single, Accounted
<1>9. \A q \in Launches : Posting(q)'
  BY <1>1 DEF Posting, Accounted
<1>10. QED
  BY <1>1, <1>6, <1>7, <1>8, <1>9 DEF Accounted

\* The page opens a file it has taken, which was not opened before.
LEMMA PageOpensHands ==
  ASSUME TypeInv, Accounted, NEW p \in Launches, NEW f \in WithFile, PageOpens(p, f)
  PROVE  Accounted'
<1> USE InstanceAssumption DEF TypeInv
<1>1. f \in taken[p] /\ pc[p] # "quitting" /\ UNCHANGED <<pc, port, saw, post, queue>>
  BY DEF PageOpens
<1>2. /\ taken'[p] = taken[p] \ {f}
      /\ \A q \in Launches \ {p} : taken'[q] = taken[q]
  BY DEF PageOpens, TypeOK
<1>3. /\ opened'[f] = opened[f] + 1
      /\ \A g \in WithFile \ {f} : opened'[g] = opened[g]
  BY DEF PageOpens, TypeOK
<1>4. Holds(p, f)
  BY <1>1 DEF Holds
<1>5. /\ Coming(f)
      /\ \/ pc[f] = "forward" /\ post[f] = "accepted"
         \/ pc[f] = "handed"
  BY <1>4 DEF Accounted, Handing, Untouched, Shown, TypeOK, States, Launching, Serving, Windows
<1>6. ~Holds(p, f)'
  BY <1>1, <1>2 DEF Holds, Accounted, Single
<1>7. Shown(f)'
  <2>1. opened[f] = 0 /\ \A q \in Launches \ {p} : ~Holds(q, f)
    BY <1>4, <1>5 DEF Coming
  <2>2. \A q \in Launches \ {p} : ~Holds(q, f)'
    BY <1>1, <1>2, <2>1 DEF Holds
  <2>3. QED
    BY <1>3, <1>6, <2>1, <2>2 DEF Shown
<1>8. \A q \in Launches, g \in WithFile \ {f} : Holds(q, g)' <=> Holds(q, g)
  BY <1>1, <1>2 DEF Holds
<1>9. \A g \in WithFile : Handing(g)'
  <2>1. Handing(f)'
    BY <1>1, <1>5, <1>7 DEF Handing
  <2>2. \A g \in WithFile \ {f} : Handing(g)'
    BY <1>1, <1>3, <1>8 DEF Handing, Accounted, Untouched, Shown, Coming
  <2>3. QED
    BY <2>1, <2>2
<1>10. \A q \in Launches : Posting(q)' /\ Single(q)'
  BY <1>1, <1>2 DEF Posting, Single, Accounted
<1>11. QED
  BY <1>9, <1>10 DEF Accounted

\* A process that ends has nothing left in its queue or on its page, and nobody waits for
\* its yes.
LEMMA EndHands ==
  ASSUME TypeInv, PortHeld, Accounted, NEW p \in Launches,
         Quit(p) \/ Exit(p) \/ Crash(p), NoneOf({"unread", "late", "lost"})'
  PROVE  Accounted'
<1> USE InstanceAssumption DEF TypeInv
<1>1. /\ pc[p] \in Serving /\ pc'[p] \in {"quitting", "gone"}
      /\ \A q \in Launches \ {p} : pc'[q] = pc[q]
      /\ pc'[p] = "quitting" => pc[p] \in {"resident", "extra"}
      /\ UNCHANGED <<saw, opened>>
  <2>1. \/ pc[p] \in {"resident", "extra"} /\ pc' = [pc EXCEPT ![p] = "quitting"]
        \/ pc[p] \in Serving /\ pc' = [pc EXCEPT ![p] = "gone"]
    BY DEF Quit, Exit, Crash, Go, Serving
  <2>2. UNCHANGED <<saw, opened>>
    BY DEF Quit, Exit, Crash
  <2>3. QED
    BY <2>1, <2>2 DEF TypeOK, Serving, Windows
<1>2. /\ queue[p] = <<>> /\ taken[p] = {}
      /\ \A q \in Launches : pc[q] = "forward" /\ post[q] = "accepted" => port # p
  <2>1. CASE Exit(p)
    BY <2>1 DEF Exit, Go, Accounted, Single, Posting
  <2>2. CASE Quit(p) \/ Crash(p)
    <3>1. ~Unread(p)
      BY <2>2 DEF Quit, Crash, Happen, Harm, Mark, NoneOf
    <3>2. QED
      BY <3>1 DEF Unread
  <2>3. QED
    BY <2>1, <2>2
<1>3. UNCHANGED <<queue, taken>>
  <2>1. CASE Quit(p)
    BY <2>1 DEF Quit
  <2>2. CASE Vanish(p)
    BY <1>2, <2>2 DEF Vanish, TypeOK
  <2>3. QED
    BY <2>1, <2>2 DEF Exit, Crash
<1>4. \/ UNCHANGED <<port, post>>
      \/ /\ port = p /\ port' = None
         /\ \A q \in Launches : post'[q] = IF post[q] # "none" THEN "refused" ELSE post[q]
  BY DEF Quit, Exit, Crash, Vanish, TypeOK
<1>5. \A f \in WithFile : Handing(f)'
  <2>1. \A f \in WithFile \ {p} : Handing(f)'
    BY <1>1, <1>2, <1>3, <1>4, FilesStay DEF Handing, Accounted
  <2>2. p \in WithFile => Handing(p)'
    BY <1>1, <1>3, FilesStay DEF Handing, Accounted, Serving, Windows
  <2>3. QED
    BY <2>1, <2>2
<1>6. \A q \in Launches : Single(q)'
  BY <1>1, <1>2, <1>3, FilesStay DEF Single, Accounted
<1>7. \A q \in Launches : Posting(q)'
  <2>1. CASE UNCHANGED <<port, post>>
    BY <1>1, <1>2, <2>1 DEF Posting, Accounted, TypeOK, Serving, Windows
  <2>2. CASE port' = None /\ \A q \in Launches :
               post'[q] = IF post[q] # "none" THEN "refused" ELSE post[q]
    BY <1>1, <2>2 DEF Posting, Accounted, TypeOK, Serving, Windows
  <2>3. QED
    BY <1>4, <2>1, <2>2
<1>8. QED
  BY <1>5, <1>6, <1>7 DEF Accounted

LEMMA StepHands ==
  ASSUME TypeInv, PortHeld, HandOver, Next
  PROVE  HandOver'
<1> SUFFICES ASSUME NoneOf({"unread", "late", "lost"})' PROVE Accounted'
  BY DEF HandOver, Accounted
<1> PICK p \in Launches :
      \/ Launch(p) \/ Start(p) \/ ForwardArrives(p) \/ Page(p) \/ Exit(p)
      \/ PingTimesOut(p) \/ ForwardTimesOut(p) \/ PageReloads(p) \/ Quit(p) \/ Crash(p)
  BY DEF Next
<1>1. events \subseteq events'
  <2>1. CASE Start(p)
    BY <2>1 DEF Start, PingAnswered, Forward, ForwardAnswered, Bind, BindElsewhere, Publish
  <2>2. CASE Page(p) \/ Exit(p)
    BY <2>2 DEF Page, PageAsks, PageOpens, Exit
  <2>3. CASE ~Start(p) /\ ~Page(p) /\ ~Exit(p)
    BY <2>3 DEF Launch, ForwardArrives, PingTimesOut, ForwardTimesOut, PageReloads, Quit,
                Crash, Happen
  <2>4. QED
    BY <2>1, <2>2, <2>3
<1>2. Accounted
  BY <1>1 DEF HandOver, Accounted, NoneOf
<1>3. CASE Launch(p) \/ Start(p)
  BY <1>2, <1>3, StartHands
<1>4. CASE ForwardArrives(p)
  BY <1>2, <1>4, ArrivesHands
<1>5. CASE Page(p)
  BY <1>2, <1>5, PageAsksHands, PageOpensHands DEF Page
<1>6. CASE Quit(p) \/ Exit(p) \/ Crash(p)
  BY <1>2, <1>6, EndHands
<1>7. CASE PingTimesOut(p) \/ ForwardTimesOut(p) \/ PageReloads(p)
  BY <1>7 DEF PingTimesOut, ForwardTimesOut, PageReloads, Happen, NoneOf
<1>8. QED
  BY <1>3, <1>4, <1>5, <1>6, <1>7

\* At most one process holds a file that is accounted for, and none one that was opened.
LEMMA OwedOnce ==
  ASSUME TypeInv, NEW f \in WithFile
  PROVE  /\ Shown(f) => opened[f] + Cardinality(Owed(f)) = 1
         /\ Coming(f) => opened[f] + Cardinality(Owed(f)) = 1
         /\ Untouched(f) => opened[f] + Cardinality(Owed(f)) = 0
<1>1. Owed(f) = {p \in Launches : Holds(p, f)}
  BY DEF Owed, Holds
<1>2. ASSUME \A p \in Launches : ~Holds(p, f) PROVE Cardinality(Owed(f)) = 0
  <2>1. Owed(f) = {}
    BY <1>1, <1>2
  <2>2. QED
    BY <2>1, FS_EmptySet
<1>3. ASSUME Coming(f) PROVE Cardinality(Owed(f)) = 1
  <2>1. \E p \in Launches : Owed(f) = {p}
    BY <1>1, <1>3 DEF Coming
  <2>2. QED
    BY <2>1, FS_Singleton
<1>4. QED
  BY <1>2, <1>3 DEF Shown, Coming, Untouched

\* A file that was handed over is opened once or still going to be, and no file is opened
\* twice, as long as answers are in time and nothing accepted is lost.
THEOREM HandedOnce == Spec => []HandedOverOnce
<1> DEFINE Inv == TypeInv /\ PortHeld /\ HandOver
<1>1. Init => Inv
  <2> SUFFICES ASSUME Init PROVE HandOver
    BY InitType, InstanceAssumption DEF Init, PortHeld
  <2>1. \A p \in Launches, f \in WithFile : ~Holds(p, f)
    BY DEF Init, Holds
  <2>2. \A f \in WithFile : Handing(f)
    BY <2>1, InstanceAssumption DEF Init, Handing, Untouched
  <2>3. \A p \in Launches : Posting(p) /\ Single(p)
    BY DEF Init, Posting, Single
  <2>4. QED
    BY <2>2, <2>3 DEF HandOver
<1>2. Inv /\ [Next]_vars => Inv'
  <2>1. CASE Next
    BY <2>1, StepType, StepPort, StepHands
  <2>2. ASSUME Inv, UNCHANGED vars PROVE Inv'
    <3>1. TypeInv' /\ PortHeld'
      BY <2>2, StepType DEF vars, PortHeld
    <3>2. \A f \in WithFile : Handing(f)' <=> Handing(f)
      BY <2>2, FilesStay DEF vars, Handing
    <3>3. \A p \in Launches : (Posting(p)' <=> Posting(p)) /\ (Single(p)' <=> Single(p))
      BY <2>2 DEF vars, Posting, Single
    <3>4. NoneOf({"unread", "late", "lost"})' <=> NoneOf({"unread", "late", "lost"})
      BY <2>2 DEF vars, NoneOf
    <3>5. QED
      BY <2>2, <3>1, <3>2, <3>3, <3>4 DEF HandOver
  <2>3. QED
    BY <2>1, <2>2
<1>3. Inv => HandedOverOnce
  <2> SUFFICES ASSUME Inv, NoneOf({"unread", "late", "lost"}), NEW f \in WithFile
               PROVE  /\ opened[f] + Cardinality(Owed(f)) <= 1
                      /\ pc[f] = "handed" => opened[f] + Cardinality(Owed(f)) = 1
    BY DEF HandedOverOnce
  <2>1. Handing(f) /\ f \in Launches
    BY InstanceAssumption DEF HandOver
  <2>2. Shown(f) \/ Coming(f) \/ Untouched(f)
    BY <2>1 DEF Handing, TypeInv, TypeOK, States, Launching, Serving, Windows
  <2>3. pc[f] = "handed" => Shown(f) \/ Coming(f)
    BY <2>1 DEF Handing
  <2>4. QED
    BY <2>2, <2>3, OwedOnce
<1>4. QED
  BY <1>1, <1>2, <1>3, PTL DEF Spec
=============================================================================

--------------------------- MODULE SingleInstance ---------------------------
(***************************************************************************)
(* One resident process: a launch that finds another process behind        *)
(* instance.json and the control port hands its file over and exits        *)
(* (main.rs); the resident queues the file for its page, which polls the   *)
(* queue (server.rs, render.js).                                           *)
(*                                                                         *)
(* A launch is a process of the program; it is named like the file it is   *)
(* given, if any, and like the token it writes into instance.json.  One    *)
(* data directory, and no other program on the control port.               *)
(***************************************************************************)
EXTENDS Naturals, Sequences, FiniteSets

CONSTANTS
  Launches,    \* processes; a process is launched once
  WithFile,    \* those that are given a file
  None,
  MayHappen    \* which of Events may happen

\* What the handing over is not proof against:
\*   "start"    a process is launched while another one is, with nobody resident
\*   "leave"    a process is ending while another one is being launched
\*   "orphan"   a process quits while another one is the resident
\*   "unread"   a process ends before its page has opened what it accepted
\*   "late"     an answer comes after the launched process has stopped waiting for it
\*   "missing"  the resident does not find the file
\*   "lost"     the page is reloaded between the queue and the opening
Events == {"start", "leave", "orphan", "unread", "late", "missing", "lost"}

ASSUME InstanceAssumption ==
  /\ None \notin Launches
  /\ WithFile \subseteq Launches
  /\ MayHappen \subseteq Events

VARIABLES
  pc,          \* where each process is
  port,        \* the process that has the control port
  instance,    \* the token in instance.json
  saw,         \* the token a process read there
  post,        \* the request of forward_open
  queue,       \* open_queue of each process
  taken,       \* what a page took from the queue and has not opened yet
  opened,      \* history: how often a file was opened
  events       \* history: what happened of Events

vars == <<pc, port, instance, saw, post, queue, taken, opened, events>>

Launching == {"ping", "forward", "bind", "publish"}
Windows == {"publish", "resident", "extra"}
Serving == Windows \union {"quitting"}

Init ==
  /\ pc = [p \in Launches |-> "off"]
  /\ port = None /\ instance = None
  /\ saw = [p \in Launches |-> None]
  /\ post = [p \in Launches |-> "none"]
  /\ queue = [p \in Launches |-> <<>>]
  /\ taken = [p \in Launches |-> {}]
  /\ opened = [p \in Launches |-> 0]
  /\ events = {}

Go(p, from, to) == pc[p] = from /\ pc' = [pc EXCEPT ![p] = to]
Happen(new) == new \subseteq MayHappen /\ events' = events \union new
Mark(what, when) == IF when THEN {what} ELSE {}

\* Processes other than p that have not got as far as a window or an exit.
Underway(p) == {q \in Launches \ {p} : pc[q] \in Launching}

\* The page of a process opens the file the process was given.
OpenOwn(p) ==
  opened' = IF p \in WithFile THEN [opened EXCEPT ![p] = @ + 1] ELSE opened
-----------------------------------------------------------------------------
(* A launched process.                                                     *)

\* read_instance
Launch(p) ==
  /\ Go(p, "off", IF instance = None THEN "bind" ELSE "ping")
  /\ saw' = [saw EXCEPT ![p] = instance]
  /\ Happen(Mark("start", Underway(p) # {} /\ \A q \in Launches : pc[q] # "resident")
               \union Mark("leave", \E q \in Launches : pc[q] = "quitting"))
  /\ UNCHANGED <<port, instance, post, queue, taken, opened>>

\* The owner of the control port answers once it accepts connections.
Answers == port # None /\ pc[port] # "publish"

\* Mutant: only a file keeps a second process from staying.
PingAnsweredFileless(p) ==
  /\ port = None \/ Answers
  /\ Go(p, "ping", IF port = None \/ instance # saw[p] \/ p \notin WithFile THEN "bind"
                   ELSE "forward")
  /\ UNCHANGED <<port, instance, saw, post, queue, taken, opened, events>>

\* ping_instance, then the choice what to do.
PingAnswered(p) ==
  /\ port = None \/ Answers
  /\ Go(p, "ping", IF port = None \/ instance # saw[p] THEN "bind"
                   ELSE IF p \in WithFile THEN "forward"
                   ELSE "handed")
  /\ UNCHANGED <<port, instance, saw, post, queue, taken, opened, events>>

PingTimesOut(p) ==
  /\ port # None
  /\ Go(p, "ping", "bind")
  /\ Happen({"late"})
  /\ UNCHANGED <<port, instance, saw, post, queue, taken, opened>>

\* forward_open connects.
Forward(p) ==
  /\ pc[p] = "forward" /\ post[p] = "none"
  /\ IF port = None
       THEN pc' = [pc EXCEPT ![p] = "bind"] /\ UNCHANGED post
       ELSE post' = [post EXCEPT ![p] = "sent"] /\ UNCHANGED pc
  /\ UNCHANGED <<port, instance, saw, queue, taken, opened, events>>

\* h_control_open, which may come to the request after the sender has given up.
ForwardArrives(p) ==
  /\ post[p] = "sent" /\ Answers
  /\ \/ /\ instance = saw[p]
        /\ queue' = [queue EXCEPT ![port] = Append(@, p)]
        /\ post' = [post EXCEPT ![p] = "accepted"]
        /\ UNCHANGED events
     \/ /\ instance # saw[p]
        /\ post' = [post EXCEPT ![p] = "refused"]
        /\ UNCHANGED <<queue, events>>
     \/ /\ instance = saw[p]
        /\ post' = [post EXCEPT ![p] = "refused"]
        /\ Happen({"missing"})
        /\ UNCHANGED queue
  /\ UNCHANGED <<pc, port, instance, saw, taken, opened>>

\* Mutant: any answer is taken for a yes.
ForwardAnsweredAlways(p) ==
  /\ post[p] \in {"accepted", "refused"}
  /\ Go(p, "forward", "handed")
  /\ UNCHANGED <<port, instance, saw, post, queue, taken, opened, events>>

ForwardAnswered(p) ==
  /\ post[p] \in {"accepted", "refused"}
  /\ Go(p, "forward", IF post[p] = "accepted" THEN "handed" ELSE "bind")
  /\ UNCHANGED <<port, instance, saw, post, queue, taken, opened, events>>

ForwardTimesOut(p) ==
  /\ post[p] \in {"sent", "accepted"}
  /\ Go(p, "forward", "bind")
  /\ Happen({"late"})
  /\ UNCHANGED <<port, instance, saw, post, queue, taken, opened>>

\* spawn binds the control port, or gets another one.
Bind(p) ==
  /\ port = None
  /\ Go(p, "bind", "publish")
  /\ port' = p
  /\ UNCHANGED <<instance, saw, post, queue, taken, opened, events>>

\* Mutant: the token is published on any port.
BindElsewherePublishes(p) ==
  /\ port # None
  /\ Go(p, "bind", "extra")
  /\ instance' = p
  /\ OpenOwn(p)
  /\ UNCHANGED <<port, saw, post, queue, taken, events>>

BindElsewhere(p) ==
  /\ port # None
  /\ Go(p, "bind", "extra")
  /\ OpenOwn(p)
  /\ UNCHANGED <<port, instance, saw, post, queue, taken, events>>

\* publish_instance, then accept_loop and the window.
Publish(p) ==
  /\ Go(p, "publish", "resident")
  /\ instance' = p
  /\ OpenOwn(p)
  /\ UNCHANGED <<port, saw, post, queue, taken, events>>
-----------------------------------------------------------------------------
(* A process with a window.                                                *)

\* Mutant: the file is looked at and left in the queue.
PageAsksKeeps(p) ==
  /\ pc[p] \in {"resident", "extra"} /\ queue[p] # <<>>
  /\ taken' = [taken EXCEPT ![p] = @ \union {Head(queue[p])}]
  /\ UNCHANGED <<pc, port, instance, saw, post, queue, opened, events>>

\* pollControl and h_control_next: one file per question.
PageAsks(p) ==
  /\ pc[p] \in {"resident", "extra"} /\ queue[p] # <<>>
  /\ queue' = [queue EXCEPT ![p] = Tail(@)]
  /\ taken' = [taken EXCEPT ![p] = @ \union {Head(queue[p])}]
  /\ UNCHANGED <<pc, port, instance, saw, post, opened, events>>

\* openExternalFile: answers may come in any order, as a question does not wait for the last.
PageOpens(p, f) ==
  /\ pc[p] \in {"resident", "extra"} /\ f \in taken[p]
  /\ taken' = [taken EXCEPT ![p] = @ \ {f}]
  /\ opened' = [opened EXCEPT ![f] = @ + 1]
  /\ UNCHANGED <<pc, port, instance, saw, post, queue, events>>

PageReloads(p) ==
  /\ pc[p] \in {"resident", "extra"} /\ taken[p] # {}
  /\ taken' = [taken EXCEPT ![p] = {}]
  /\ Happen({"lost"})
  /\ UNCHANGED <<pc, port, instance, saw, post, queue, opened>>

\* What p has accepted is not on its page, or the sender has not been told.
Unread(p) ==
  \/ queue[p] # <<>> \/ taken[p] # {}
  \/ port = p /\ \E q \in Launches : post[q] = "accepted" /\ pc[q] = "forward"

\* What the end of p may harm.
Harm(p) == Mark("leave", Underway(p) # {}) \union Mark("unread", Unread(p))

\* shutdown removes instance.json, whoever has written it; the process still has its port.
Quit(p) ==
  /\ \E from \in {"resident", "extra"} : Go(p, from, "quitting")
  /\ instance' = None
  /\ Happen(Harm(p) \union Mark("orphan", \E q \in Launches \ {p} : pc[q] = "resident"))
  /\ UNCHANGED <<port, saw, post, queue, taken, opened>>

\* The process is gone, and with it its port, its queue and its connections.
Vanish(p) ==
  /\ port' = IF port = p THEN None ELSE port
  /\ post' = [q \in Launches |-> IF port = p /\ post[q] # "none" THEN "refused" ELSE post[q]]
  /\ queue' = [queue EXCEPT ![p] = <<>>]
  /\ taken' = [taken EXCEPT ![p] = {}]

Exit(p) ==
  /\ Go(p, "quitting", "gone")
  /\ Vanish(p)
  /\ UNCHANGED <<instance, saw, opened, events>>

\* The process is killed, which leaves instance.json behind.
Crash(p) ==
  /\ \E from \in Serving : Go(p, from, "gone")
  /\ Vanish(p)
  /\ Happen(Harm(p))
  /\ UNCHANGED <<instance, saw, opened>>

Start(p) ==
  PingAnswered(p) \/ Forward(p) \/ ForwardAnswered(p) \/ Bind(p) \/ BindElsewhere(p) \/ Publish(p)

Page(p) == PageAsks(p) \/ \E f \in WithFile : PageOpens(p, f)

Next == \E p \in Launches :
  \/ Launch(p) \/ Start(p) \/ ForwardArrives(p) \/ Page(p) \/ Exit(p)
  \/ PingTimesOut(p) \/ ForwardTimesOut(p) \/ PageReloads(p) \/ Quit(p) \/ Crash(p)

\* A launched process gets on, the resident answers, and the page asks and opens; nobody
\* has to launch or to quit.
Fairness ==
  \A p \in Launches :
    /\ WF_vars(Start(p)) /\ WF_vars(ForwardArrives(p)) /\ WF_vars(Exit(p))
    /\ WF_vars(PageAsks(p)) /\ \A f \in WithFile : WF_vars(PageOpens(p, f))

Spec == Init /\ [][Next]_vars /\ Fairness
-----------------------------------------------------------------------------
(* Properties.                                                             *)

States == Launching \union Serving \union {"off", "handed", "gone"}

TypeOK ==
  /\ pc \in [Launches -> States]
  /\ port \in Launches \union {None} /\ instance \in Launches \union {None}
  /\ saw \in [Launches -> Launches \union {None}]
  /\ post \in [Launches -> {"none", "sent", "accepted", "refused"}]
  /\ queue \in [Launches -> Seq(WithFile)]
  /\ taken \in [Launches -> SUBSET WithFile]
  /\ opened \in [Launches -> Nat]
  /\ events \subseteq MayHappen

NoneOf(bad) == events \intersect bad = {}

\* As long as the processes are started one after the other and are answered in time, there
\* is one window, through any number of exits, crashes and stale tokens in between
\* (main.rs, "a second launch that finds a live instance hands over its file").
OneWindow ==
  NoneOf({"start", "leave", "late", "missing"}) =>
    \A p, q \in Launches : pc[p] \in Windows /\ pc[q] \in Windows => p = q

\* A process that serves the control port is the one instance.json names, so that the next
\* launch finds it; no exit of another process takes its token away.
ResidentIsNamed ==
  NoneOf({"orphan"}) =>
    \A p \in Launches : pc[p] = "resident" => port = p /\ instance = p

\* Files on their way from the queue of a process to its page.
Owed(f) == {p \in Launches : f \in taken[p] \/ \E i \in DOMAIN queue[p] : queue[p][i] = f}

\* A file that was handed over is opened once, or is still going to be; no file is opened
\* twice, neither by two processes nor by one.
HandedOverOnce ==
  NoneOf({"unread", "late", "lost"}) =>
    \A f \in WithFile :
      /\ opened[f] + Cardinality(Owed(f)) <= 1
      /\ pc[f] = "handed" => opened[f] + Cardinality(Owed(f)) = 1

\* Every file a process is launched with is opened in the end, by itself or by the resident,
\* unless the process that has accepted it or opens it ends first.
FileIsShown ==
  \A f \in WithFile :
    pc[f] \in Launching ~>
      (opened[f] > 0 \/ pc[f] = "gone" \/ ~NoneOf({"unread", "late", "lost"}))
=============================================================================

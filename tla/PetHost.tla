------------------------------ MODULE PetHost ------------------------------
(***************************************************************************)
(* The desktop pet: the kernel's side (parity_pets.rs, pet_launcher.rs,    *)
(* pet_host.rs) and the overlay process it starts, as far as the kernel    *)
(* sees it.                                                                *)
(*                                                                         *)
(* Every request runs in a thread of its own.  A thread sets what the pet  *)
(* should be (configure), writes the state file anew (refresh), or takes   *)
(* the commands the overlay has left in its queue and does the one or the  *)
(* other for each.  Nothing holds these steps together but three locks:    *)
(* one on the pet's state, taken for each look at it, one on the slot of   *)
(* the overlay that was started, and one from the look for a running       *)
(* overlay to the end of the wait for a new one.                           *)
(***************************************************************************)
EXTENDS Naturals, FiniteSets, SequencesExt

CONSTANTS
  Threads,      \* of the server
  MaxRequests,  \* bound: requests answered
  MaxInputs,    \* bound: requests, commands given by the overlays, and kinds of fault
  MaxPending,   \* MAX_PENDING_COMMANDS
  Faults,       \* what may go wrong: "install", "spawn", "health", "exit", "disk"
  None

ASSUME PetAssumption ==
  /\ {MaxRequests, MaxInputs, MaxPending} \subseteq Nat
  /\ Faults \subseteq {"install", "spawn", "health", "exit", "disk"}
  /\ None \notin Threads \union Nat

VARIABLES
  enabled, inApp,  \* PetApiState
  slot,     \* host_slot: the overlay the kernel tracks
  lock,     \* host_start_lock: who holds it
  pc,       \* where a thread is
  drains,   \* is it in drain_pet_commands?
  list,     \* the commands it found in the directory
  cfg,      \* the locals of configure_pet
  visible,  \* of publish_pet_runtime: what it is about to write
  saw,      \* of start_pet_host: the overlay found running
  child,    \* of start_pet_host: the overlay it has started
  handle,   \* the file its fs::write has open
  tmp, shown,  \* STATE_TMP_NAME and the state file the overlay reads
  host,     \* the overlays started so far
  queue,    \* the directory of commands, in the order of their names
  given,    \* how many commands were put there
  executed, \* history: the commands carried out
  served,   \* history: how many requests came
  faults,   \* history: what went wrong
  events    \* history: what happened to be going on at the same time

state == <<enabled, inApp>>
locals == <<drains, list, cfg, visible, saw, child>>
disk == <<handle, tmp, shown>>
overlay == <<host, queue, given>>
history == <<executed, served, faults, events>>
vars == <<state, slot, lock, pc, locals, disk, overlay, history>>

\* What a request asks configure_pet for: each of its two keys may be missing.
Wishes == {"yes", "no", "keep"}
NoCfg == [active |-> FALSE, on |-> "keep", in |-> "keep", wasOn |-> FALSE, wasIn |-> FALSE,
          failed |-> FALSE]
Wanted(wish, now) == IF wish # "keep" THEN wish ELSE IF now THEN "yes" ELSE "no"

\* A file: what it says of "visible", or why it says nothing.
Says(v) == IF v THEN "visible" ELSE "hidden"

Init ==
  /\ enabled = FALSE /\ inApp = TRUE
  /\ slot = None /\ lock = None
  /\ pc = [t \in Threads |-> "idle"]
  /\ drains = [t \in Threads |-> FALSE]
  /\ list = [t \in Threads |-> <<>>]
  /\ cfg = [t \in Threads |-> NoCfg]
  /\ visible = [t \in Threads |-> FALSE]
  /\ saw = [t \in Threads |-> None]
  /\ child = [t \in Threads |-> None]
  /\ handle = [t \in Threads |-> "none"]
  /\ tmp = "none" /\ shown = "earlier"
  /\ host = <<>> /\ queue = <<>> /\ given = 0
  /\ executed = <<>> /\ served = 0
  /\ faults = {} /\ events = {}

At(t, here) == pc[t] = here
Goto(t, there) == pc' = [pc EXCEPT ![t] = there]
Note(event, cond) == events' = IF cond THEN events \union {event} ELSE events
Others(t) == Threads \ {t}

\* What has come from outside so far.
Inputs == served + given + Cardinality(faults)

\* One more request.
Serves == served < MaxRequests /\ Inputs < MaxInputs /\ served' = served + 1

\* Something goes wrong, for the first time or again.
Suffer(kind) ==
  /\ kind \in Faults
  /\ faults' = faults \union {kind}
  /\ kind \in faults \/ Inputs < MaxInputs

\* A configure or a publication is over: the thread looks for the next command, or
\* answers.
Finish(t) ==
  /\ Goto(t, IF drains[t] THEN "list" ELSE "idle")
  /\ cfg' = [cfg EXCEPT ![t] = NoCfg]
-----------------------------------------------------------------------------
(* Requests.                                                               *)

BeginConfigure(t, wish, wishIn) ==
  /\ cfg' = [cfg EXCEPT ![t] = [NoCfg EXCEPT !.active = TRUE, !.on = wish, !.in = wishIn]]
  /\ Goto(t, "previous")
  /\ Note("configures", \E u \in Others(t) : cfg[u].active)

\* /api/pets/configure.
Configure(t) ==
  /\ At(t, "idle") /\ Serves
  /\ \E wish, wishIn \in Wishes : BeginConfigure(t, wish, wishIn)
  /\ UNCHANGED <<state, slot, lock, drains, list, visible, saw, child, disk, overlay,
                 executed, faults>>

\* The other requests that publish: a pet was chosen, or played with.
Refresh(t) ==
  /\ At(t, "idle") /\ Serves
  /\ Goto(t, "publish")
  /\ UNCHANGED <<state, slot, lock, locals, disk, overlay, executed, faults, events>>

\* The requests that begin with drain_pet_commands: status and the page's polls.
Drain(t) ==
  /\ At(t, "idle") /\ Serves
  /\ Goto(t, "list")
  /\ drains' = [drains EXCEPT ![t] = TRUE]
  /\ UNCHANGED <<state, slot, lock, list, cfg, visible, saw, child, disk, overlay,
                 executed, faults, events>>
-----------------------------------------------------------------------------
(* Taking commands.                                                        *)

\* The commands that change what is modelled here.
Commands == {"hide", "character", "interact"}

Names(q) == [i \in DOMAIN q |-> q[i].id]

List(t) ==
  /\ At(t, "list")
  /\ list' = [list EXCEPT ![t] = Names(queue)]
  /\ Goto(t, "take")
  /\ UNCHANGED <<state, slot, lock, drains, cfg, visible, saw, child, disk, overlay,
                 history>>

Pending(id) == \E i \in DOMAIN queue : queue[i].id = id
Where(id) == CHOOSE i \in DOMAIN queue : queue[i].id = id

\* Mutant: the command is read where it lies.
TakeOffReads(id) == UNCHANGED queue

\* The rename to a name of its own decides who has a command.
TakeOff(id) == queue' = RemoveAt(queue, Where(id))

\* The first command of the list that is still there is carried out, and the directory
\* is read again afterwards.
Take(t) ==
  LET id   == Head(list[t])
      what == queue[Where(id)].what
  IN
  /\ At(t, "take") /\ list[t] # <<>> /\ Pending(id)
  /\ TakeOff(id)
  /\ executed' = Append(executed, id)
  /\ list' = [list EXCEPT ![t] = <<>>]
  /\ \/ what = "hide" /\ BeginConfigure(t, "no", "keep")
     \/ what = "character" /\ BeginConfigure(t, "keep", "keep")
     \/ what = "interact" /\ Goto(t, "publish") /\ UNCHANGED <<cfg, events>>
  /\ UNCHANGED <<state, slot, lock, drains, visible, saw, child, disk, host, given, served,
                 faults>>

TakenByOther(t) ==
  /\ At(t, "take") /\ list[t] # <<>> /\ ~Pending(Head(list[t]))
  /\ list' = [list EXCEPT ![t] = Tail(@)]
  /\ UNCHANGED <<state, slot, lock, pc, drains, cfg, visible, saw, child, disk, overlay,
                 history>>

NothingLeft(t) ==
  /\ At(t, "take") /\ list[t] = <<>>
  /\ drains' = [drains EXCEPT ![t] = FALSE]
  /\ Goto(t, "idle")
  /\ UNCHANGED <<state, slot, lock, list, cfg, visible, saw, child, disk, overlay, history>>
-----------------------------------------------------------------------------
(* configure_pet, up to what the state file is to say.                     *)

ReadInApp(t) ==
  /\ At(t, "previous")
  /\ cfg' = [cfg EXCEPT ![t].wasIn = inApp, ![t].in = Wanted(@, inApp)]
  /\ Goto(t, "wasOn")
  /\ UNCHANGED <<state, slot, lock, drains, list, visible, saw, child, disk, overlay,
                 history>>

ReadEnabled(t) ==
  /\ At(t, "wasOn")
  /\ cfg' = [cfg EXCEPT ![t].wasOn = enabled, ![t].on = Wanted(@, enabled)]
  /\ Goto(t, "stop")
  /\ UNCHANGED <<state, slot, lock, drains, list, visible, saw, child, disk, overlay,
                 history>>

\* stop_pet_host kills and forgets the overlay in the slot, if there is one.
StopHost ==
  /\ host' = IF slot = None THEN host ELSE [host EXCEPT ![slot] = "gone"]
  /\ slot' = None

\* Mutant: a pet that moves into the window keeps its overlay.
MovesAwayIfOff(c) == c.on = "no" /\ c.in = "no"

MovesAway(c) == (c.in = "yes") # c.wasIn \/ (c.on = "no" /\ c.in = "no")

StopMoved(t) ==
  /\ At(t, "stop")
  /\ IF MovesAway(cfg[t]) THEN StopHost ELSE UNCHANGED <<host, slot>>
  /\ Goto(t, "stopOff")
  /\ UNCHANGED <<state, lock, locals, disk, queue, given, history>>

StopOff(t) ==
  /\ At(t, "stopOff")
  /\ IF cfg[t].on = "no" THEN StopHost ELSE UNCHANGED <<host, slot>>
  /\ Goto(t, "set")
  /\ UNCHANGED <<state, lock, locals, disk, queue, given, history>>

\* disable, enable, or the snapshot of what another request has left.
SetEnabled(t) ==
  /\ At(t, "set")
  /\ enabled' = (cfg[t].on = "yes" /\ (cfg[t].wasOn => enabled))
  /\ visible' = [visible EXCEPT ![t] = enabled']
  /\ Goto(t, "place")
  /\ UNCHANGED <<inApp, slot, lock, drains, list, cfg, saw, child, disk, overlay, history>>

SetInApp(t) ==
  /\ At(t, "place")
  /\ inApp' = (cfg[t].in = "yes")
  /\ Goto(t, "publish")
  /\ UNCHANGED <<enabled, slot, lock, locals, disk, overlay, history>>
-----------------------------------------------------------------------------
(* publish_pet_runtime.  Its bridge is made anew for each call, and so is  *)
(* the lock in it.                                                         *)

Publishing(t) == pc[t] \in {"snapshot", "open", "write", "rename", "tidy"}
Given(t) == cfg[t].active /\ ~cfg[t].failed

\* in_app is read first; a configure brings the state it has set.
ReadPlace(t) ==
  /\ At(t, "publish")
  /\ visible' = [visible EXCEPT ![t] = (Given(t) => @) /\ ~inApp]
  /\ Goto(t, IF Given(t) THEN "open" ELSE "snapshot")
  /\ Note("publications", \E u \in Others(t) : Publishing(u))
  /\ UNCHANGED <<state, slot, lock, drains, list, cfg, saw, child, disk, overlay, executed,
                 served, faults>>

ReadSnapshot(t) ==
  /\ At(t, "snapshot")
  /\ visible' = [visible EXCEPT ![t] = @ /\ enabled]
  /\ Goto(t, "open")
  /\ UNCHANGED <<state, slot, lock, drains, list, cfg, saw, child, disk, overlay, history>>

\* Mutant: the state file is written in place.
OpenShown(t) ==
  /\ At(t, "open")
  /\ shown' = "empty"
  /\ handle' = [handle EXCEPT ![t] = "shown"]
  /\ Goto(t, "write")
  /\ UNCHANGED <<state, slot, lock, locals, tmp, overlay, history>>

\* fs::write: the file of the fixed name is truncated, whoever has it open,
OpenTmp(t) ==
  /\ At(t, "open")
  /\ tmp' = "empty"
  /\ handle' = [handle EXCEPT ![t] = "tmp"]
  /\ Goto(t, "write")
  /\ UNCHANGED <<state, slot, lock, locals, shown, overlay, history>>

\* and written from its beginning; over a longer text that leaves the end of that.
Over(old, text) == IF old \in {"empty", text} THEN {text} ELSE {text, "mixed"}

Closed(t) == handle' = [handle EXCEPT ![t] = "none"]

WriteTmp(t) ==
  /\ At(t, "write")
  /\ tmp' \in IF handle[t] = "tmp" THEN Over(tmp, Says(visible[t])) ELSE {tmp}
  /\ shown' \in IF handle[t] = "shown" THEN Over(shown, Says(visible[t])) ELSE {shown}
  /\ Closed(t) /\ Goto(t, "rename")
  /\ UNCHANGED <<state, slot, lock, locals, overlay, history>>

\* What follows a publication: configure_pet starts the overlay.
Published(t) ==
  /\ IF Given(t) /\ cfg[t].on = "yes" /\ cfg[t].in = "no"
       THEN Goto(t, "start") /\ UNCHANGED cfg
       ELSE Finish(t)
  /\ visible' = [visible EXCEPT ![t] = FALSE]

WriteFails(t) ==
  /\ Suffer("disk")
  /\ At(t, "write")
  /\ tmp' = IF handle[t] = "tmp" THEN "mixed" ELSE tmp
  /\ shown' = IF handle[t] = "shown" THEN "mixed" ELSE shown
  /\ Closed(t) /\ Published(t)
  /\ UNCHANGED <<state, slot, lock, drains, list, saw, child, overlay, executed, served,
                 events>>

\* A handle stays with its file: what was the temporary file is then the state file.
RenameTmp(t) ==
  /\ At(t, "rename")
  /\ IF tmp = "none"
       THEN UNCHANGED disk
       ELSE /\ shown' = tmp /\ tmp' = "none"
            /\ handle' = [u \in Threads |-> CASE handle[u] = "tmp"   -> "shown"
                                              [] handle[u] = "shown" -> "lost"
                                              [] OTHER               -> handle[u]]
  /\ Goto(t, "tidy")
  /\ UNCHANGED <<state, slot, lock, locals, overlay, history>>

RenameRefused(t) ==
  /\ Suffer("disk")
  /\ At(t, "rename") /\ Goto(t, "tidy")
  /\ UNCHANGED <<state, slot, lock, locals, disk, overlay, executed, served, events>>

RemoveTmp(t) ==
  /\ At(t, "tidy")
  /\ tmp' = "none"
  /\ handle' = [u \in Threads |-> IF handle[u] = "tmp" THEN "lost" ELSE handle[u]]
  /\ Published(t)
  /\ UNCHANGED <<state, slot, lock, drains, list, saw, child, shown, overlay, history>>
-----------------------------------------------------------------------------
(* start_pet_host.                                                         *)

Running == slot # None /\ host[slot] # "gone"

\* Between the release of the lock and the note in the slot.
Unnoted(t) == pc[t] \in {"fill", "kill", "clear"}

Unlock == lock' = None

\* The installation does not verify; whether an overlay is running is not asked.
Unavailable(t) ==
  /\ Suffer("install")
  /\ At(t, "start") /\ Goto(t, "undo")
  /\ UNCHANGED <<state, slot, lock, locals, disk, overlay, executed, served, events>>

\* Mutant: no thread waits for another.
TakeLockAnyway(t) == At(t, "start") /\ lock' = t

TakeLock(t) == At(t, "start") /\ lock = None /\ lock' = t

Lock(t) ==
  /\ TakeLock(t)
  /\ Goto(t, "look")
  /\ UNCHANGED <<state, slot, locals, disk, overlay, history>>

\* host_liveness also forgets an overlay that has exited; a live one must still be the
\* one in the slot when that is asked for,
Look(t) ==
  /\ At(t, "look")
  /\ slot' = IF Running THEN slot ELSE None
  /\ saw' = [saw EXCEPT ![t] = slot']
  /\ Goto(t, IF Running THEN "owned" ELSE "spawn")
  /\ Note("gap", ~Running /\ \E u \in Others(t) : Unnoted(u))
  /\ UNCHANGED <<state, lock, drains, list, cfg, visible, child, disk, overlay, executed,
                 served, faults>>

Owned(t) ==
  /\ At(t, "owned") /\ slot = saw[t]
  /\ Unlock /\ Finish(t)
  /\ saw' = [saw EXCEPT ![t] = None]
  /\ UNCHANGED <<state, slot, drains, list, visible, child, disk, overlay, history>>

\* or it is taken for one that belongs to somebody else.
NotOwned(t) ==
  /\ At(t, "owned") /\ slot # saw[t]
  /\ Unlock /\ Goto(t, "undo")
  /\ saw' = [saw EXCEPT ![t] = None]
  /\ UNCHANGED <<state, slot, drains, list, cfg, visible, child, disk, overlay, history>>

Spawn(t) ==
  /\ At(t, "spawn")
  /\ host' = Append(host, "booting")
  /\ child' = [child EXCEPT ![t] = Len(host')]
  /\ Goto(t, "wait")
  /\ UNCHANGED <<state, slot, lock, drains, list, cfg, visible, saw, disk, queue, given,
                 history>>

SpawnFails(t) ==
  /\ Suffer("spawn")
  /\ At(t, "spawn")
  /\ Unlock /\ Goto(t, "undo")
  /\ UNCHANGED <<state, slot, locals, disk, overlay, executed, served, events>>

Healthy(t) ==
  /\ At(t, "wait") /\ host[child[t]] = "ready"
  /\ Unlock /\ Goto(t, "fill")
  /\ UNCHANGED <<state, slot, locals, disk, overlay, history>>

\* It has exited,
Died(t) ==
  /\ At(t, "wait") /\ host[child[t]] = "gone"
  /\ Unlock /\ Goto(t, "kill")
  /\ UNCHANGED <<state, slot, locals, disk, overlay, history>>

\* or reports an error, or the time is up.
Unhealthy(t) ==
  /\ Suffer("health")
  /\ At(t, "wait") /\ host[child[t]] = "booting"
  /\ Unlock /\ Goto(t, "kill")
  /\ UNCHANGED <<state, slot, locals, disk, overlay, executed, served, events>>

FillSlot(t) ==
  /\ At(t, "fill")
  /\ slot' = child[t]
  /\ child' = [child EXCEPT ![t] = None]
  /\ Finish(t)
  /\ UNCHANGED <<state, lock, drains, list, visible, saw, disk, overlay, history>>

KillChild(t) ==
  /\ At(t, "kill")
  /\ host' = [host EXCEPT ![child[t]] = "gone"]
  /\ child' = [child EXCEPT ![t] = None]
  /\ Goto(t, "clear")
  /\ UNCHANGED <<state, slot, lock, drains, list, cfg, visible, saw, disk, queue, given,
                 history>>

ClearSlot(t) ==
  /\ At(t, "clear")
  /\ slot' = None
  /\ Goto(t, "undo")
  /\ UNCHANGED <<state, lock, locals, disk, overlay, history>>

\* configure_pet takes a failed start back.
Undo(t) ==
  /\ At(t, "undo")
  /\ enabled' = FALSE /\ inApp' = cfg[t].wasIn
  /\ cfg' = [cfg EXCEPT ![t].failed = TRUE]
  /\ Goto(t, "publish")
  /\ UNCHANGED <<slot, lock, drains, list, visible, saw, child, disk, overlay, history>>
-----------------------------------------------------------------------------
(* The overlays, and the kernel's look at the one it tracks.               *)

Ready(h) ==
  /\ host[h] = "booting"
  /\ host' = [host EXCEPT ![h] = "ready"]
  /\ UNCHANGED <<state, slot, lock, pc, locals, disk, queue, given, history>>

Exits(h) ==
  /\ Suffer("exit")
  /\ host[h] # "gone"
  /\ host' = [host EXCEPT ![h] = "gone"]
  /\ UNCHANGED <<state, slot, lock, pc, locals, disk, queue, given, executed, served, events>>

\* A full queue takes no more commands.
Gives(h, what) ==
  /\ host[h] = "ready" /\ Inputs < MaxInputs
  /\ Len(queue) < MaxPending
  /\ given' = given + 1
  /\ queue' = Append(queue, [id |-> given', what |-> what])
  /\ UNCHANGED <<state, slot, lock, pc, locals, disk, host, history>>

Reap ==
  /\ slot # None /\ host[slot] = "gone"
  /\ slot' = None
  /\ UNCHANGED <<state, lock, pc, locals, disk, overlay, history>>

\* A thread that has something to do.
Step(t) ==
  \/ List(t) \/ Take(t) \/ TakenByOther(t) \/ NothingLeft(t)
  \/ ReadInApp(t) \/ ReadEnabled(t) \/ StopMoved(t) \/ StopOff(t) \/ SetEnabled(t)
  \/ SetInApp(t)
  \/ ReadPlace(t) \/ ReadSnapshot(t) \/ OpenTmp(t) \/ WriteTmp(t) \/ WriteFails(t)
  \/ RenameTmp(t) \/ RenameRefused(t) \/ RemoveTmp(t)
  \/ Unavailable(t) \/ Lock(t) \/ Look(t) \/ Owned(t) \/ NotOwned(t) \/ Spawn(t)
  \/ SpawnFails(t) \/ Healthy(t) \/ Died(t) \/ Unhealthy(t) \/ FillSlot(t) \/ KillChild(t)
  \/ ClearSlot(t) \/ Undo(t)

Next ==
  \/ \E t \in Threads : Configure(t) \/ Refresh(t) \/ Drain(t) \/ Step(t)
  \/ \E h \in DOMAIN host :
       Ready(h) \/ Exits(h) \/ \E what \in Commands : Gives(h, what)
  \/ Reap

Spec == Init /\ [][Next]_vars
-----------------------------------------------------------------------------
(* Properties.                                                             *)

Live == {h \in DOMAIN host : host[h] # "gone"}
Starting == {child[t] : t \in Threads} \ {None}

Places ==
  {"idle", "list", "take", "previous", "wasOn", "stop", "stopOff", "set", "place",
   "publish", "snapshot", "open", "write", "rename", "tidy",
   "start", "look", "owned", "spawn", "wait", "fill", "kill", "clear", "undo"}
Cfgs == [active : BOOLEAN, on : Wishes, in : Wishes, wasOn : BOOLEAN, wasIn : BOOLEAN,
         failed : BOOLEAN]
Files == {"none", "earlier", "empty", "visible", "hidden", "mixed"}

TypeOK ==
  /\ enabled \in BOOLEAN /\ inApp \in BOOLEAN
  /\ host \in Seq({"booting", "ready", "gone"})
  /\ slot \in DOMAIN host \union {None}
  /\ lock \in Threads \union {None}
  /\ pc \in [Threads -> Places]
  /\ drains \in [Threads -> BOOLEAN] /\ list \in [Threads -> Seq(Nat)]
  /\ cfg \in [Threads -> Cfgs]
  /\ visible \in [Threads -> BOOLEAN]
  /\ saw \in [Threads -> DOMAIN host \union {None}]
  /\ child \in [Threads -> DOMAIN host \union {None}]
  /\ handle \in [Threads -> {"none", "tmp", "shown", "lost"}]
  /\ tmp \in Files /\ shown \in Files
  /\ queue \in Seq([id : Nat, what : Commands])
  /\ executed \in Seq(Nat) /\ given \in Nat /\ served \in Nat
  /\ events \subseteq {"configures", "publications", "gap"} /\ faults \subseteq Faults

\* Every live overlay is one the kernel can stop, in the slot or about to get there, there
\* is one at most, and the slot holds none that has not reported ready.  A look in the gap
\* between the release of the lock and the note in the slot spoils it: the comment of
\* start_pet_host, "so a second /api/pets/configure cannot double-launch", overlooks it.
Supervised ==
  /\ "gap" \notin events =>
       /\ Live \subseteq {slot} \union Starting
       /\ \A h, k \in Live : h = k
  /\ slot # None => host[slot] # "booting"

\* Once the requests are answered there is an overlay only if one is wanted, and the
\* state file says whether it is - unless configures, or publications, overlapped or the disk
\* failed.
AtRest == \A t \in Threads : pc[t] = "idle"
Wish == enabled /\ ~inApp
RestAgrees ==
  AtRest /\ events \subseteq {"gap"} /\ {"install", "disk"} \intersect faults = {} =>
    /\ Live # {} => Wish
    /\ shown \in {"earlier", Says(Wish)}
    /\ Live # {} => shown = "visible"

\* The overlay, which polls the state file, finds a whole text in it at any moment (comment
\* of publish_pet_runtime, "atomically writing the narrow overlay state") - as long as
\* publications do not overlap: the temporary file has one name for all of them.
ShownWhole == "publications" \notin events => shown \notin {"empty", "mixed"}

\* Whoever asks for commands, and however many threads do so at once: each command is
\* carried out once, in the order they were given in, and none is lost on the way.
CommandsOnce == executed \o Names(queue) = [i \in 1..given |-> i]
=============================================================================

----------------------------- MODULE McpServer -----------------------------
(***************************************************************************)
(* readmd --mcp (mcp.rs): one thread reads requests, one per line, from    *)
(* standard input; every tools/call runs on a thread of its own, up to a   *)
(* limit, and writes its own answer.  Cancels are lines like the others.   *)
(* At the end of the input the reader waits for the running tools.         *)
(*                                                                         *)
(* The answers the reader gives by itself (initialize, ping, lists) touch  *)
(* nothing shared and are left out, and so are the tools, but for what     *)
(* those that write a file do to their target.                             *)
(***************************************************************************)
EXTENDS Naturals, FiniteSets

CONSTANTS
  Calls,         \* tools/call requests; each is sent at most once
  Ids,           \* JSON-RPC ids; nothing keeps a client from using one twice
  MayAsk,        \* [Calls -> SUBSET Request]: what each of them may ask for
  MaxTools,      \* MAX_CONCURRENT_TOOLS, 8 in the code
  MaxCancels,    \* bound: notifications/cancelled lines
  SpawnMayFail,  \* may the operating system refuse a thread?
  None, Existing

\* The tools: "create" are presentation and epub, which write_output writes, "export" is
\* readmd_export_document, written by mdexport; the others write no file of the user's.
Request == [id : Ids, kind : {"pure", "create", "export"}, overwrite : BOOLEAN]

ASSUME McpAssumption ==
  /\ MayAsk \in [Calls -> SUBSET Request]
  /\ MaxTools \in Nat \ {0} /\ MaxCancels \in Nat
  /\ SpawnMayFail \in BOOLEAN
  /\ None \notin Calls \union Ids /\ Existing \notin Calls \union {None}

VARIABLES
  reader,   \* what the reading thread is doing
  call,     \* the tools/call line it is at
  busy,     \* the counter of running tools
  table,    \* the map "cancelled": id -> the call whose flag it holds, or None
  flag,     \* the cancel flag of each call
  pc,       \* where each call is
  asked,    \* [id, kind, overwrite] of each call, fixed when it is read
  outcome,  \* what the tool returned
  answer,   \* what the client was answered
  file,     \* the output path: nobody's file, or the call that wrote it last
  cancels,  \* cancel lines read so far
  named,    \* history: calls a cancel named after they were accepted
  inTime    \* history: those that had not looked at their flag by then

input  == <<reader, call, cancels>>
status == <<busy, table, flag>>
tools  == <<asked, outcome, answer, file>>
heard  == <<named, inTime>>
vars == <<input, status, pc, tools, heard>>

\* A call's own thread exists from "check" to "lower".
Looking  == {"check", "work", "look"}
Live     == Looking \union {"send", "remove", "lower"}
Labels   == {"unsent", "read", "refused", "lost", "over"} \union Live
Outcomes == {"none", "ok", "exists", "error"}
NoRequest == [id |-> None, kind |-> "pure", overwrite |-> FALSE]

Goto(c, label) == pc' = [pc EXCEPT ![c] = label]

Init ==
  /\ reader = "reading" /\ call = None /\ cancels = 0
  /\ busy = 0
  /\ table = [i \in Ids |-> None]
  /\ flag = [c \in Calls |-> FALSE]
  /\ pc = [c \in Calls |-> "unsent"]
  /\ asked = [c \in Calls |-> NoRequest]
  /\ outcome = [c \in Calls |-> "none"]
  /\ answer = [c \in Calls |-> "none"]
  /\ file \in {None, Existing}
  /\ named = {} /\ inTime = {}
-----------------------------------------------------------------------------
(* The reader.                                                             *)

\* Mutant: one call too many.
ReadCallLate(c, q) ==
  /\ reader = "reading" /\ pc[c] = "unsent"
  /\ call' = c /\ asked' = [asked EXCEPT ![c] = q]
  /\ Goto(c, "read")
  /\ busy' = busy + 1
  /\ reader' = IF busy > MaxTools THEN "refuse" ELSE "insert"
  /\ UNCHANGED <<cancels, table, flag, outcome, answer, file, heard>>

\* A tools/call line: the counter is raised, and the value before decides.
ReadCall(c, q) ==
  /\ reader = "reading" /\ pc[c] = "unsent"
  /\ call' = c /\ asked' = [asked EXCEPT ![c] = q]
  /\ Goto(c, "read")
  /\ busy' = busy + 1
  /\ reader' = IF busy >= MaxTools THEN "refuse" ELSE "insert"
  /\ UNCHANGED <<cancels, table, flag, outcome, answer, file, heard>>

\* Mutant: the counter is not lowered again.
RefuseKeepsCount ==
  /\ reader = "refuse"
  /\ answer' = [answer EXCEPT ![call] = "error"]
  /\ Goto(call, "refused")
  /\ reader' = "reading"
  /\ UNCHANGED <<call, cancels, status, asked, outcome, file, heard>>

\* server_busy
Refuse ==
  /\ reader = "refuse"
  /\ busy' = busy - 1
  /\ answer' = [answer EXCEPT ![call] = "error"]
  /\ Goto(call, "refused")
  /\ reader' = "reading"
  /\ UNCHANGED <<call, cancels, table, flag, asked, outcome, file, heard>>

\* A fresh flag under the call's id; the flag of an earlier call with that id can no
\* longer be reached.
Insert ==
  /\ reader = "insert"
  /\ table' = [table EXCEPT ![asked[call].id] = call]
  /\ reader' = "spawn"
  /\ UNCHANGED <<call, cancels, busy, flag, pc, tools, heard>>

Spawn ==
  /\ reader = "spawn"
  /\ Goto(call, IF asked[call].kind = "pure" THEN "work" ELSE "check")
  /\ reader' = "reading"
  /\ UNCHANGED <<call, cancels, status, tools, heard>>

\* The error of Builder::spawn is dropped: no answer, and nothing is undone.
SpawnFails ==
  /\ SpawnMayFail
  /\ reader = "spawn"
  /\ Goto(call, "lost")
  /\ reader' = "reading"
  /\ UNCHANGED <<call, cancels, status, tools, heard>>

\* A notifications/cancelled line.
ReadCancel(i) ==
  LET named_now == {c \in Calls : asked[c].id = i /\ pc[c] \in Live \union {"lost", "over"}} IN
  /\ reader = "reading"
  /\ cancels < MaxCancels /\ cancels' = cancels + 1
  /\ flag' = [c \in Calls |-> flag[c] \/ table[i] = c]
  /\ named' = named \union named_now
  /\ inTime' = inTime \union {c \in named_now : pc[c] \in Looking}
  /\ UNCHANGED <<reader, call, busy, table, pc, tools>>

\* The input ends.
ReadEof ==
  /\ reader = "reading"
  /\ reader' = "waiting"
  /\ UNCHANGED <<call, cancels, status, pc, tools, heard>>

\* run_stdio waits for the counter to fall.
Exit ==
  /\ reader = "waiting"
  /\ busy = 0
  /\ reader' = "exited"
  /\ UNCHANGED <<call, cancels, status, pc, tools, heard>>
-----------------------------------------------------------------------------
(* A tool's thread.                                                        *)

Return(c, result) == outcome' = [outcome EXCEPT ![c] = result] /\ Goto(c, "look")

\* output_target: an existing file is refused unless overwrite was given.
CheckOutput(c) ==
  /\ pc[c] = "check"
  /\ IF file # None /\ ~asked[c].overwrite
       THEN Return(c, "exists")
       ELSE Goto(c, "work") /\ UNCHANGED outcome
  /\ UNCHANGED <<input, status, asked, answer, file, heard>>

\* Only create_new never touches what is there.
MayTouch(c) ==
  asked[c].kind # "pure" /\ (file = None \/ asked[c].overwrite \/ asked[c].kind = "export")

\* The tool fails, or panics inside catch_unwind; what it has written may stay.
ToolFails(c) ==
  /\ pc[c] = "work"
  /\ Return(c, "error")
  /\ file' \in {file} \union (IF MayTouch(c) THEN {c} ELSE {})
  /\ UNCHANGED <<input, status, asked, answer, heard>>

PureTool(c) ==
  /\ pc[c] = "work" /\ asked[c].kind = "pure"
  /\ Return(c, "ok")
  /\ UNCHANGED <<input, status, asked, answer, file, heard>>

\* write_output: create_new without overwrite, an atomic replacement with it.
WriteOutput(c) ==
  /\ pc[c] = "work" /\ asked[c].kind = "create"
  /\ IF file # None /\ ~asked[c].overwrite
       THEN Return(c, "exists") /\ UNCHANGED file
       ELSE Return(c, "ok") /\ file' = c
  /\ UNCHANGED <<input, status, asked, answer, heard>>

\* export_document hands the path it has checked to mdexport, which replaces.
ExportDocument(c) ==
  /\ pc[c] = "work" /\ asked[c].kind = "export"
  /\ file' = c /\ Return(c, "ok")
  /\ UNCHANGED <<input, status, asked, answer, heard>>

\* Mutant: the answer goes out whatever the flag says.
LookNever(c) ==
  /\ pc[c] = "look"
  /\ Goto(c, "send")
  /\ UNCHANGED <<input, status, tools, heard>>

Look(c) ==
  /\ pc[c] = "look"
  /\ Goto(c, IF flag[c] THEN "remove" ELSE "send")
  /\ UNCHANGED <<input, status, tools, heard>>

Send(c) ==
  /\ pc[c] = "send"
  /\ answer' = [answer EXCEPT ![c] = outcome[c]]
  /\ Goto(c, "remove")
  /\ UNCHANGED <<input, status, asked, outcome, file, heard>>

\* The entry of the id goes, also when it is that of a later call.
Remove(c) ==
  /\ pc[c] = "remove"
  /\ table' = [table EXCEPT ![asked[c].id] = None]
  /\ Goto(c, "lower")
  /\ UNCHANGED <<input, busy, flag, tools, heard>>

\* Mutant: the counter is lowered before the answer is written.
LowerEarly(c) ==
  \/ /\ pc[c] = "send" /\ answer[c] = "none"
     /\ busy' = busy - 1 /\ Goto(c, "over")
     /\ UNCHANGED <<input, table, flag, tools, heard>>
  \/ /\ pc[c] = "lower"
     /\ busy' = busy - 1 /\ Goto(c, "over")
     /\ UNCHANGED <<input, table, flag, tools, heard>>

Lower(c) ==
  /\ pc[c] = "lower"
  /\ busy' = busy - 1
  /\ Goto(c, "over")
  /\ UNCHANGED <<input, table, flag, tools, heard>>
-----------------------------------------------------------------------------
Handle  == Refuse \/ Insert \/ Spawn \/ SpawnFails \/ Exit
Work(c) ==
  \/ CheckOutput(c) \/ ToolFails(c) \/ PureTool(c) \/ WriteOutput(c) \/ ExportDocument(c)
  \/ Look(c) \/ Send(c) \/ Remove(c) \/ Lower(c)

Next ==
  \/ \E c \in Calls : \E q \in MayAsk[c] : ReadCall(c, q)
  \/ \E i \in Ids : ReadCancel(i)
  \/ ReadEof
  \/ Handle
  \/ \E c \in Calls : Work(c)

\* Both kinds of thread are scheduled, and tools return; nothing is assumed of the
\* client.
Fairness == WF_vars(Handle) /\ \A c \in Calls : WF_vars(Work(c))

Spec == Init /\ [][Next]_vars
FairSpec == Spec /\ Fairness
-----------------------------------------------------------------------------
(* Properties.                                                             *)

LiveCalls == {c \in Calls : pc[c] \in Live}
LostCalls == {c \in Calls : pc[c] = "lost"}
IsRead(c) == reader \in {"refuse", "insert", "spawn"} /\ call = c

TypeOK ==
  /\ reader \in {"reading", "refuse", "insert", "spawn", "waiting", "exited"}
  /\ call \in Calls \union {None}
  /\ cancels \in 0..MaxCancels
  /\ busy \in Nat
  /\ table \in [Ids -> Calls \union {None}]
  /\ flag \in [Calls -> BOOLEAN]
  /\ pc \in [Calls -> Labels]
  /\ asked \in [Calls -> Request \union {NoRequest}]
  /\ outcome \in [Calls -> Outcomes] /\ answer \in [Calls -> Outcomes]
  /\ file \in Calls \union {None, Existing}
  /\ named \subseteq Calls /\ inTime \subseteq Calls
  /\ \A c \in Calls : /\ pc[c] = "unsent" <=> asked[c] = NoRequest
                      /\ pc[c] = "read" <=> IsRead(c)

\* There are never more tool threads than the limit, and the counter is exact: it
\* is raised for every thread, for the call being read, and for the calls whose thread
\* could not be made, and by nothing else (MAX_CONCURRENT_TOOLS).
LimitHolds ==
  /\ Cardinality(LiveCalls) <= MaxTools
  /\ busy = Cardinality({c \in Calls : pc[c] \in Live \union {"lost", "read"}})

\* At the exit every call that was accepted is over and answered, or a cancel named it
\* (run_stdio: "waits for running tools").
ExitLeavesNothing ==
  reader = "exited" =>
    \A c \in Calls : pc[c] # "unsent" =>
      /\ pc[c] \in {"refused", "over"}
      /\ answer[c] # "none" \/ c \in named

\* A client may use an id again; then a cancel can miss.
IdOfItsOwn(c) == \A d \in Calls \ {c} : asked[d].id # asked[c].id

\* "A cancelled request gets no response": not if the cancel was read before the
\* tool's thread looked at the flag, and the id is not used twice; and a request gets
\* none for no other reason.
CancelledIsSilent ==
  \A c \in Calls :
    /\ c \in inTime /\ IdOfItsOwn(c) => answer[c] = "none"
    /\ pc[c] \in {"over", "refused"} /\ answer[c] = "none" => c \in named

\* The map of cancel flags does not grow: with no call in work it is empty, also after
\* cancels and ids used twice.
TableIsEmptied ==
  LiveCalls \union LostCalls = {} /\ reader \in {"reading", "waiting", "exited"}
    => table = [i \in Ids |-> None]

\* Only "overwrite: true" replaces a file, even if it appears between the check and
\* the write (module comment of mcp.rs) - except by readmd_export_document, which
\* checks and then writes.
Replaces(c) == file' = c /\ file \notin {None, c}
ReplacesWithOverwrite ==
  [][\A c \in Calls : Replaces(c) => asked[c].overwrite \/ asked[c].kind = "export"]_vars

\* The server ends after its input, unless a thread could not be made: its call stays
\* in the counter.
ServerStops == reader = "waiting" ~> reader = "exited" \/ LostCalls # {}
=============================================================================

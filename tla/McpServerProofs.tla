-------------------------- MODULE McpServerProofs --------------------------
(***************************************************************************)
(* What holds of McpServer for every set of calls and ids, every limit and *)
(* every number of cancels: the counter, the map of cancel flags, the      *)
(* answers and the output files.                                           *)
(***************************************************************************)
EXTENDS McpServer, FiniteSetTheorems, TLAPS

\* The calls the counter stands for: those with a thread, the lost ones, and the one
\* the reader has raised it for.
Counted == {c \in Calls : pc[c] \in Live \union {"lost", "read"}}

\* The counter is exact, and above the limit only until the call is refused.
CounterExact ==
  /\ IsFiniteSet(Counted)
  /\ busy = Cardinality(Counted)
  /\ busy <= IF reader = "refuse" THEN MaxTools + 1 ELSE MaxTools

\* The reader is at a call when it handles one, and is gone only once nothing runs.
ReaderSound ==
  /\ reader \in {"refuse", "insert", "spawn"} => call \in Calls
  /\ reader = "exited" => Counted = {}

\* A call may have an entry in the map from its insertion to its removal.
MayHaveEntry(c) ==
  pc[c] \in (Live \ {"lower"}) \union {"lost"} \/ (reader = "spawn" /\ call = c)

\* The map holds entries of such calls under their ids and of no other, and a call whose
\* id nobody else uses has its entry all that time.
TableSound ==
  /\ \A i \in Ids : table[i] # None => asked[table[i]].id = i /\ MayHaveEntry(table[i])
  /\ \A c \in Calls : IdOfItsOwn(c) /\ MayHaveEntry(c) => table[asked[c].id] = c

\* Why a call that has passed its look at the flag is answered or was named by a cancel.
AnswerSound ==
  \A c \in Calls :
    /\ flag[c] => c \in named
    /\ pc[c] \in {"look", "send"} => outcome[c] # "none"
    /\ pc[c] = "refused" => answer[c] # "none"
    /\ pc[c] \in {"remove", "lower", "over"} => answer[c] # "none" \/ c \in named

\* A call that was cancelled in time has its flag up and will not be answered.
SilentOnceCancelled ==
  \A c \in inTime :
    /\ pc[c] \in Live \union {"over"}
    /\ IdOfItsOwn(c) => flag[c] /\ pc[c] # "send" /\ answer[c] = "none"

\* Answers are given by Refuse and Send only.
NotAnsweredBefore ==
  \A c \in Calls : pc[c] \in Looking \union {"unsent", "read"} => answer[c] = "none"

IInv == /\ TypeOK /\ CounterExact /\ ReaderSound
        /\ TableSound /\ AnswerSound /\ SilentOnceCancelled /\ NotAnsweredBefore
-----------------------------------------------------------------------------
\* A step of a tool's thread moves that thread only, and leaves the reader, the flags
\* and what was asked alone.
LEMMA WorkStep ==
  ASSUME TypeOK, NEW c \in Calls, Work(c)
  PROVE  /\ pc[c] \in Live
         /\ \E l \in Live \union {"over"} :
              /\ pc' = [pc EXCEPT ![c] = l]
              /\ l = "over" => pc[c] = "lower"
              /\ l = "lower" => pc[c] = "remove"
         /\ UNCHANGED <<input, flag, asked, heard>>
<1> USE DEF TypeOK, Goto, Live, Looking, status
<1>1. CASE CheckOutput(c)
  <2>1. CASE file # None /\ ~asked[c].overwrite
    BY <1>1, <2>1 DEF CheckOutput, Return
  <2>2. CASE ~(file # None /\ ~asked[c].overwrite)
    BY <1>1, <2>2 DEF CheckOutput
  <2>3. QED
    BY <2>1, <2>2
<1>2. CASE ToolFails(c) \/ PureTool(c) \/ ExportDocument(c)
  BY <1>2 DEF ToolFails, PureTool, ExportDocument, Return
<1>3. CASE WriteOutput(c)
  BY <1>3 DEF WriteOutput, Return
<1>4. CASE Look(c)
  <2>1. CASE flag[c]
    BY <1>4, <2>1 DEF Look, tools
  <2>2. CASE ~flag[c]
    BY <1>4, <2>2 DEF Look, tools
  <2>3. QED
    BY <2>1, <2>2
<1>5. CASE Send(c) \/ Remove(c) \/ Lower(c)
  BY <1>5 DEF Send, Remove, Lower, tools
<1>6. QED
  BY <1>1, <1>2, <1>3, <1>4, <1>5 DEF Work

\* A call that is counted keeps the counter above zero.
LEMMA CountedIsPositive ==
  ASSUME CounterExact, NEW c \in Calls, c \in Counted
  PROVE  busy \in Nat /\ busy > 0
BY FS_CardinalityType, FS_EmptySet DEF CounterExact

\* Types of the initial state and of the reader's steps.
LEMMA TypeInit == Init => TypeOK
<1> SUFFICES ASSUME Init PROVE TypeOK
  OBVIOUS
<1> USE McpAssumption DEF Init
<1>1. pc \in [Calls -> Labels] /\ \A c \in Calls : pc[c] = "unsent"
  BY DEF Labels
<1>2. outcome \in [Calls -> Outcomes] /\ answer \in [Calls -> Outcomes]
  BY DEF Outcomes
<1>3. \A c \in Calls : ~IsRead(c)
  BY DEF IsRead
<1>4. QED
  BY <1>1, <1>2, <1>3 DEF TypeOK

\* Every step keeps the type invariant; a counter that is lowered was above zero.
LEMMA TypeStep ==
  ASSUME TypeOK, CounterExact, ReaderSound, [Next]_vars
  PROVE  TypeOK'
<1> USE McpAssumption DEF TypeOK
<1>0. NoRequest \notin Request
  BY DEF NoRequest, Request
<1>1. ASSUME NEW c \in Calls, NEW q \in MayAsk[c], ReadCall(c, q) PROVE TypeOK'
  <2>1. q \in Request
    OBVIOUS
  <2>2. asked' \in [Calls -> Request \union {NoRequest}] /\ pc' \in [Calls -> Labels]
    BY <1>1, <2>1 DEF ReadCall, Goto, Labels
  <2>3. \A d \in Calls : /\ pc'[d] = "unsent" <=> asked'[d] = NoRequest
                         /\ pc'[d] = "read" <=> IsRead(d)'
    <3>1. reader = "reading" /\ reader' \in {"refuse", "insert"} /\ call' = c
      BY <1>1 DEF ReadCall
    <3>2. pc' = [pc EXCEPT ![c] = "read"] /\ asked' = [asked EXCEPT ![c] = q]
      BY <1>1 DEF ReadCall, Goto
    <3>3. \A d \in Calls : pc[d] # "read"
      BY <3>1 DEF IsRead
    <3>4. QED
      BY <1>0, <2>1, <3>1, <3>2, <3>3 DEF IsRead
  <2>4. QED
    BY <1>1, <2>2, <2>3 DEF ReadCall, heard
<1>2. ASSUME NEW i \in Ids, ReadCancel(i) PROVE TypeOK'
  <2>1. cancels' \in 0..MaxCancels
    BY <1>2 DEF ReadCancel
  <2>2. QED
    BY <1>2, <2>1 DEF ReadCancel, tools, IsRead
<1>3. CASE ReadEof \/ Exit
  BY <1>3 DEF ReadEof, Exit, status, tools, heard, IsRead
<1>4. CASE Refuse
  <2>1. call \in Calls /\ pc[call] = "read" /\ call \in Counted
    BY <1>4 DEF Refuse, ReaderSound, IsRead, Counted
  <2>2. busy' \in Nat
    BY <1>4, <2>1, CountedIsPositive DEF Refuse
  <2>3. pc' = [pc EXCEPT ![call] = "refused"] /\ pc' \in [Calls -> Labels]
    BY <1>4 DEF Refuse, Goto, Labels
  <2>4. answer' \in [Calls -> Outcomes]
    BY <1>4 DEF Refuse, Outcomes
  <2>5. \A d \in Calls : /\ pc'[d] = "unsent" <=> asked'[d] = NoRequest
                         /\ pc'[d] = "read" <=> IsRead(d)'
    BY <1>4, <2>1, <2>3 DEF Refuse, IsRead
  <2>6. QED
    BY <1>4, <2>2, <2>3, <2>4, <2>5 DEF Refuse, heard
<1>5. CASE Insert
  <2>1. call \in Calls
    BY <1>5 DEF Insert, ReaderSound
  <2>2. QED
    BY <1>5, <2>1 DEF Insert, tools, heard, IsRead
<1>6. CASE Spawn \/ SpawnFails
  <2>1. reader = "spawn" /\ call \in Calls /\ pc[call] = "read"
    BY <1>6 DEF Spawn, SpawnFails, ReaderSound, IsRead
  <2>2. PICK l \in {"work", "check", "lost"} : pc' = [pc EXCEPT ![call] = l]
    <3>1. CASE SpawnFails
      BY <3>1 DEF SpawnFails, Goto
    <3>2. CASE Spawn /\ asked[call].kind = "pure"
      BY <3>2 DEF Spawn, Goto
    <3>3. CASE Spawn /\ asked[call].kind # "pure"
      BY <3>3 DEF Spawn, Goto
    <3>4. QED
      BY <1>6, <3>1, <3>2, <3>3
  <2>3. reader' = "reading" /\ UNCHANGED <<call, cancels, status, tools, heard>>
    BY <1>6 DEF Spawn, SpawnFails
  <2>4. l \in Labels /\ l # "unsent" /\ l # "read"
    BY DEF Labels, Live, Looking
  <2>5. \A d \in Calls : /\ pc'[d] = "unsent" <=> asked'[d] = NoRequest
                         /\ pc'[d] = "read" <=> IsRead(d)'
    BY <2>1, <2>2, <2>3, <2>4 DEF IsRead, tools
  <2>6. QED
    BY <2>2, <2>3, <2>4, <2>5 DEF status, tools, heard
<1>7. ASSUME NEW c \in Calls, Work(c) PROVE TypeOK'
  <2>1. PICK l \in Live \union {"over"} : pc' = [pc EXCEPT ![c] = l]
    BY <1>7, WorkStep
  <2>2. pc[c] \in Live /\ UNCHANGED <<input, flag, asked, heard>>
    BY <1>7, WorkStep
  <2>3. l \in Labels /\ {l, pc[c]} \cap {"unsent", "read"} = {}
    BY <2>2 DEF Labels, Live, Looking
  <2>4. \A d \in Calls : /\ pc'[d] = "unsent" <=> asked'[d] = NoRequest
                         /\ pc'[d] = "read" <=> IsRead(d)'
    BY <2>1, <2>2, <2>3 DEF IsRead, input
  <2>5. busy' \in Nat
    <3>1. CASE Lower(c)
      <4>1. c \in Counted
        BY <3>1 DEF Lower, Counted, Live
      <4>2. QED
        BY <3>1, <4>1, CountedIsPositive DEF Lower
    <3>2. CASE ~Lower(c)
      BY <1>7, <3>2 DEF Work, CheckOutput, ToolFails, PureTool, WriteOutput, ExportDocument,
                        Look, Send, Remove, status
    <3>3. QED
      BY <3>1, <3>2
  <2>6. table' \in [Ids -> Calls \union {None}]
    BY <1>7 DEF Work, CheckOutput, ToolFails, PureTool, WriteOutput, ExportDocument,
                Look, Send, Remove, Lower, status
  <2>7. outcome' \in [Calls -> Outcomes]
    BY <1>7 DEF Work, CheckOutput, ToolFails, PureTool, WriteOutput, ExportDocument,
                Look, Send, Remove, Lower, tools, Return, Outcomes
  <2>8. answer' \in [Calls -> Outcomes]
    BY <1>7 DEF Work, CheckOutput, ToolFails, PureTool, WriteOutput, ExportDocument,
                Look, Send, Remove, Lower, tools
  <2>9. file' \in Calls \union {None, Existing}
    <3>1. CASE ToolFails(c)
      BY <3>1 DEF ToolFails
    <3>2. CASE ~ToolFails(c)
      BY <1>7, <3>2 DEF Work, CheckOutput, PureTool, WriteOutput, ExportDocument,
                Look, Send, Remove, Lower, tools
    <3>3. QED
      BY <3>1, <3>2
  <2>10. QED
    BY <2>1, <2>2, <2>3, <2>4, <2>5, <2>6, <2>7, <2>8, <2>9 DEF input, heard
<1>8. CASE UNCHANGED vars
  BY <1>8 DEF vars, input, status, tools, heard, IsRead
<1>9. QED
  BY <1>1, <1>2, <1>3, <1>4, <1>5, <1>6, <1>7, <1>8 DEF Next, Handle

-----------------------------------------------------------------------------
\* One call is added to the counter, or one is taken off, or the counted calls stay.
LEMMA CounterStep ==
  ASSUME TypeOK, CounterExact, ReaderSound, [Next]_vars
  PROVE  CounterExact' /\ ReaderSound'
<1> USE McpAssumption DEF TypeOK, CounterExact, ReaderSound
<1>0. busy \in Nat /\ (Counted = {} <=> busy = 0)
  BY FS_CardinalityType, FS_EmptySet
<1>1. ASSUME NEW c \in Calls, NEW q \in MayAsk[c], ReadCall(c, q)
      PROVE  CounterExact' /\ ReaderSound'
  <2>1. pc' = [pc EXCEPT ![c] = "read"] /\ pc[c] = "unsent"
    BY <1>1 DEF ReadCall, Goto
  <2>2. Counted' = Counted \union {c} /\ c \notin Counted
    BY <2>1 DEF Counted, Live, Looking
  <2>3. IsFiniteSet(Counted') /\ Cardinality(Counted') = busy + 1
    BY <2>2, FS_AddElement
  <2>4. busy' = busy + 1 /\ reader = "reading" /\ call' = c
    BY <1>1 DEF ReadCall
  <2>5. CASE busy >= MaxTools
    BY <1>1, <2>3, <2>4, <2>5 DEF ReadCall
  <2>6. CASE ~(busy >= MaxTools)
    BY <1>1, <2>3, <2>4, <2>6 DEF ReadCall
  <2>7. QED
    BY <2>5, <2>6
<1>2. CASE ReadEof \/ Exit \/ Insert \/ (\E i \in Ids : ReadCancel(i))
  <2>1. pc' = pc /\ busy' = busy /\ call' = call
    BY <1>2 DEF ReadEof, Exit, Insert, ReadCancel, status
  <2>2. Counted' = Counted
    BY <2>1 DEF Counted
  <2>3. CASE ReadEof \/ Insert \/ (\E i \in Ids : ReadCancel(i))
    BY <2>1, <2>2, <2>3 DEF ReadEof, Insert, ReadCancel
  <2>4. CASE Exit
    BY <1>0, <2>1, <2>2, <2>4 DEF Exit
  <2>5. QED
    BY <1>2, <2>3, <2>4
<1>3. CASE Refuse
  <2>1. call \in Calls /\ pc[call] = "read" /\ reader = "refuse" /\ reader' = "reading"
    BY <1>3 DEF Refuse, IsRead
  <2>2. pc' = [pc EXCEPT ![call] = "refused"] /\ busy' = busy - 1
    BY <1>3 DEF Refuse, Goto
  <2>3. Counted' = Counted \ {call} /\ call \in Counted
    BY <2>1, <2>2 DEF Counted, Live, Looking
  <2>4. IsFiniteSet(Counted') /\ Cardinality(Counted') = busy - 1
    BY <2>3, FS_RemoveElement
  <2>5. QED
    BY <1>0, <2>1, <2>2, <2>4
<1>4. CASE Spawn \/ SpawnFails
  <2>1. reader = "spawn" /\ call \in Calls /\ pc[call] = "read"
    BY <1>4 DEF Spawn, SpawnFails, IsRead
  <2>2. PICK l \in {"work", "check", "lost"} : pc' = [pc EXCEPT ![call] = l]
    <3>1. CASE SpawnFails
      BY <3>1 DEF SpawnFails, Goto
    <3>2. CASE Spawn /\ asked[call].kind = "pure"
      BY <3>2 DEF Spawn, Goto
    <3>3. CASE Spawn /\ asked[call].kind # "pure"
      BY <3>3 DEF Spawn, Goto
    <3>4. QED
      BY <1>4, <3>1, <3>2, <3>3
  <2>3. Counted' = Counted
    BY <2>1, <2>2 DEF Counted, Live, Looking
  <2>4. reader' = "reading" /\ busy' = busy
    BY <1>4 DEF Spawn, SpawnFails, status
  <2>5. QED
    BY <2>1, <2>3, <2>4
<1>5. ASSUME NEW c \in Calls, Work(c) PROVE CounterExact' /\ ReaderSound'
  <2>1. PICK l \in Live \union {"over"} :
          pc' = [pc EXCEPT ![c] = l] /\ (l = "over" => pc[c] = "lower")
    BY <1>5, WorkStep
  <2>2. pc[c] \in Live /\ UNCHANGED <<reader, call>> /\ c \in Counted
    BY <1>5, WorkStep DEF input, Counted
  <2>3. CASE Lower(c)
    <3>1. pc' = [pc EXCEPT ![c] = "over"] /\ busy' = busy - 1
      BY <2>3 DEF Lower, Goto
    <3>2. Counted' = Counted \ {c}
      BY <3>1 DEF Counted, Live, Looking
    <3>3. IsFiniteSet(Counted') /\ Cardinality(Counted') = busy - 1
      BY <2>2, <3>2, FS_RemoveElement
    <3>4. QED
      BY <1>0, <2>2, <3>1, <3>2, <3>3
  <2>4. CASE ~Lower(c)
    <3>1. busy' = busy
      BY <1>5, <2>4 DEF Work, CheckOutput, ToolFails, PureTool, WriteOutput, ExportDocument,
                        Look, Send, Remove, status
    <3>2. pc[c] # "lower"
      BY <1>5, <2>4 DEF Work, CheckOutput, ToolFails, PureTool, WriteOutput, ExportDocument,
                        Look, Send, Remove
    <3>3. Counted' = Counted
      BY <2>1, <2>2, <3>2 DEF Counted
    <3>4. QED
      BY <2>2, <3>1, <3>3
  <2>5. QED
    BY <2>3, <2>4
<1>6. CASE UNCHANGED vars
  BY <1>6 DEF vars, input, status, Counted
<1>7. QED
  BY <1>1, <1>2, <1>3, <1>4, <1>5, <1>6 DEF Next, Handle

-----------------------------------------------------------------------------
\* What a call asked for is fixed when it is read, and an id that is used once now was
\* used once before.
LEMMA AskedFixed ==
  ASSUME TypeOK, [Next]_vars, NEW c \in Calls, asked[c] # NoRequest
  PROVE  asked'[c] = asked[c] /\ (IdOfItsOwn(c)' => IdOfItsOwn(c))
<1> USE McpAssumption DEF TypeOK
<1>1. \A d \in Calls : asked[d] # NoRequest => asked'[d] = asked[d]
  <2>1. ASSUME NEW d \in Calls, NEW q \in MayAsk[d], ReadCall(d, q)
        PROVE  \A e \in Calls : asked[e] # NoRequest => asked'[e] = asked[e]
    BY <2>1 DEF ReadCall
  <2>2. CASE ReadEof \/ Exit \/ Insert \/ Refuse \/ Spawn \/ SpawnFails
             \/ (\E i \in Ids : ReadCancel(i))
    BY <2>2 DEF ReadEof, Exit, Insert, Refuse, Spawn, SpawnFails, ReadCancel, tools
  <2>3. ASSUME NEW d \in Calls, Work(d) PROVE asked' = asked
    BY <2>3, WorkStep
  <2>4. CASE UNCHANGED vars
    BY <2>4 DEF vars, tools
  <2>5. QED
    BY <2>1, <2>2, <2>3, <2>4 DEF Next, Handle
<1>2. \A d \in Calls : asked[d] = NoRequest => asked[d].id # asked[c].id
  <2>1. asked[c] \in Request /\ asked[c].id \in Ids
    BY DEF Request
  <2>2. QED
    BY <2>1 DEF NoRequest
<1>3. QED
  BY <1>1, <1>2 DEF IdOfItsOwn

\* Entries come with Insert and go with Remove.
LEMMA TableStep ==
  ASSUME TypeOK, ReaderSound, TableSound, [Next]_vars
  PROVE  TableSound'
<1> USE McpAssumption DEF TypeOK
<1>0. \A c \in Calls : MayHaveEntry(c) => asked[c] # NoRequest
  BY DEF MayHaveEntry, Live, Looking, IsRead
<1>1. CASE /\ table' = table
           /\ \A c \in Calls : MayHaveEntry(c)' <=> MayHaveEntry(c)
  <2>1. ASSUME NEW i \in Ids, table'[i] # None
        PROVE  asked'[table'[i]].id = i /\ MayHaveEntry(table[i])'
    <3>1. table[i] \in Calls /\ MayHaveEntry(table[i]) /\ asked[table[i]].id = i
      BY <1>1, <2>1 DEF TableSound
    <3>2. asked'[table[i]] = asked[table[i]]
      BY <1>0, <3>1, AskedFixed
    <3>3. QED
      BY <1>1, <3>1, <3>2
  <2>2. ASSUME NEW c \in Calls, IdOfItsOwn(c)', MayHaveEntry(c)'
        PROVE  table'[asked'[c].id] = c
    <3>1. MayHaveEntry(c) /\ asked[c] # NoRequest
      BY <1>0, <1>1, <2>2
    <3>2. asked'[c] = asked[c] /\ IdOfItsOwn(c)
      BY <2>2, <3>1, AskedFixed
    <3>3. QED
      BY <1>1, <3>1, <3>2 DEF TableSound
  <2>3. QED
    BY <1>1, <2>1, <2>2 DEF TableSound
<1>2. ASSUME NEW c \in Calls, NEW q \in MayAsk[c], ReadCall(c, q) PROVE TableSound'
  <2>1. pc' = [pc EXCEPT ![c] = "read"] /\ pc[c] = "unsent" /\ table' = table
    BY <1>2 DEF ReadCall, Goto
  <2>2. reader = "reading" /\ reader' # "spawn"
    BY <1>2 DEF ReadCall
  <2>3. \A d \in Calls : MayHaveEntry(d)' <=> MayHaveEntry(d)
    BY <2>1, <2>2 DEF MayHaveEntry, Live, Looking
  <2>4. QED
    BY <1>1, <2>1, <2>3
<1>3. CASE Refuse
  <2>1. pc' = [pc EXCEPT ![call] = "refused"] /\ table' = table
    BY <1>3 DEF Refuse, Goto
  <2>2. call \in Calls /\ pc[call] = "read" /\ reader = "refuse" /\ reader' = "reading"
    BY <1>3 DEF Refuse, ReaderSound, IsRead
  <2>3. \A d \in Calls : MayHaveEntry(d)' <=> MayHaveEntry(d)
    BY <2>1, <2>2 DEF MayHaveEntry, Live, Looking
  <2>4. QED
    BY <1>1, <2>1, <2>3
<1>4. CASE Insert
  <2>1. /\ table' = [table EXCEPT ![asked[call].id] = call]
        /\ reader = "insert" /\ reader' = "spawn" /\ call' = call /\ pc' = pc
        /\ asked' = asked
    BY <1>4 DEF Insert, tools
  <2>2. call \in Calls /\ asked[call] \in Request /\ asked[call].id \in Ids
    BY <1>4 DEF Insert, ReaderSound, IsRead, Request
  <2>3. \A d \in Calls : MayHaveEntry(d)' <=> MayHaveEntry(d) \/ d = call
    BY <2>1, <2>2 DEF MayHaveEntry
  <2>4. \A i \in Ids : table'[i] = IF i = asked[call].id THEN call ELSE table[i]
    BY <2>1
  <2>5. \A i \in Ids : table'[i] # None => asked'[table'[i]].id = i /\ MayHaveEntry(table[i])'
    <3>1. SUFFICES ASSUME NEW i \in Ids, table'[i] # None
                   PROVE  asked'[table'[i]].id = i /\ MayHaveEntry(table[i])'
      OBVIOUS
    <3>2. CASE i = asked[call].id
      BY <2>1, <2>2, <2>3, <2>4, <3>2
    <3>3. CASE i # asked[call].id
      <4>1. table'[i] = table[i] /\ table[i] \in Calls
        BY <2>4, <3>1, <3>3
      <4>2. asked[table[i]].id = i /\ MayHaveEntry(table[i])
        BY <3>1, <4>1 DEF TableSound
      <4>3. MayHaveEntry(table[i])'
        BY <2>1, <4>1, <4>2, <2>3
      <4>4. QED
        BY <2>1, <4>1, <4>2, <4>3
    <3>4. QED
      BY <3>2, <3>3
  <2>6. ASSUME NEW d \in Calls, IdOfItsOwn(d)', MayHaveEntry(d)'
        PROVE  table'[asked'[d].id] = d
    <3>1. CASE d = call
      BY <2>1, <2>2, <2>4, <3>1
    <3>2. CASE d # call
      <4>1. MayHaveEntry(d) /\ IdOfItsOwn(d)
        BY <2>1, <2>3, <2>6, <3>2 DEF IdOfItsOwn
      <4>2. asked[d].id \in Ids /\ asked[d].id # asked[call].id
        BY <1>0, <2>2, <3>2, <4>1 DEF IdOfItsOwn, Request
      <4>3. QED
        BY <2>1, <2>4, <4>1, <4>2 DEF TableSound
    <3>3. QED
      BY <3>1, <3>2
  <2>7. QED
    BY <2>5, <2>6 DEF TableSound
<1>5. CASE Spawn \/ SpawnFails
  <2>1. reader = "spawn" /\ call \in Calls /\ pc[call] = "read" /\ reader' = "reading"
    BY <1>5 DEF Spawn, SpawnFails, ReaderSound, IsRead
  <2>2. PICK l \in {"work", "check", "lost"} : pc' = [pc EXCEPT ![call] = l]
    <3>1. CASE SpawnFails
      BY <3>1 DEF SpawnFails, Goto
    <3>2. CASE Spawn /\ asked[call].kind = "pure"
      BY <3>2 DEF Spawn, Goto
    <3>3. CASE Spawn /\ asked[call].kind # "pure"
      BY <3>3 DEF Spawn, Goto
    <3>4. QED
      BY <1>5, <3>1, <3>2, <3>3
  <2>3. table' = table
    BY <1>5 DEF Spawn, SpawnFails, status
  <2>4. \A d \in Calls : MayHaveEntry(d)' <=> MayHaveEntry(d)
    BY <2>1, <2>2 DEF MayHaveEntry, Live, Looking
  <2>5. QED
    BY <1>1, <2>3, <2>4
<1>6. CASE ReadEof \/ Exit \/ (\E i \in Ids : ReadCancel(i))
  <2>1. /\ pc' = pc /\ table' = table
        /\ reader # "spawn" /\ reader' # "spawn"
    BY <1>6 DEF ReadEof, Exit, ReadCancel, status
  <2>2. \A d \in Calls : MayHaveEntry(d)' <=> MayHaveEntry(d)
    BY <2>1 DEF MayHaveEntry
  <2>3. QED
    BY <1>1, <2>1, <2>2
<1>7. ASSUME NEW c \in Calls, Work(c) PROVE TableSound'
  <2>1. PICK l \in Live \union {"over"} :
          /\ pc' = [pc EXCEPT ![c] = l]
          /\ l = "over" => pc[c] = "lower"
          /\ l = "lower" => pc[c] = "remove"
    BY <1>7, WorkStep
  <2>2. pc[c] \in Live /\ UNCHANGED <<reader, call, asked>>
    BY <1>7, WorkStep DEF input
  <2>3. reader = "spawn" /\ call \in Calls => pc[call] = "read"
    BY DEF IsRead
  <2>4. CASE Remove(c)
    <3>1. table' = [table EXCEPT ![asked[c].id] = None] /\ pc[c] = "remove" /\ pc'[c] = "lower"
      BY <2>4 DEF Remove, Goto
    <3>2. \A d \in Calls : MayHaveEntry(d)' <=> MayHaveEntry(d) /\ d # c
      BY <2>1, <2>2, <2>3, <3>1 DEF MayHaveEntry, Live, Looking
    <3>3. asked[c] \in Request /\ asked[c].id \in Ids
      BY <3>1 DEF Request
    <3>4. ASSUME NEW i \in Ids, table'[i] # None
          PROVE  asked'[table'[i]].id = i /\ MayHaveEntry(table[i])'
      <4>1. i # asked[c].id /\ table'[i] = table[i] /\ table[i] \in Calls
        BY <3>1, <3>4
      <4>2. asked[table[i]].id = i /\ MayHaveEntry(table[i])
        BY <3>4, <4>1 DEF TableSound
      <4>3. table[i] # c
        BY <4>1, <4>2
      <4>4. MayHaveEntry(table[i])'
        BY <3>2, <4>1, <4>2, <4>3
      <4>5. QED
        BY <2>2, <4>1, <4>2, <4>4
    <3>5. ASSUME NEW d \in Calls, IdOfItsOwn(d)', MayHaveEntry(d)'
          PROVE  table'[asked'[d].id] = d
      <4>1. d # c /\ MayHaveEntry(d) /\ IdOfItsOwn(d)
        BY <2>2, <3>2, <3>5 DEF IdOfItsOwn
      <4>2. asked[d].id # asked[c].id /\ asked[d].id \in Ids
        BY <1>0, <4>1 DEF IdOfItsOwn, Request
      <4>3. QED
        BY <2>2, <3>1, <4>1, <4>2 DEF TableSound
    <3>6. QED
      BY <3>4, <3>5 DEF TableSound
  <2>5. CASE ~Remove(c)
    <3>1. table' = table /\ pc[c] # "remove"
      BY <1>7, <2>5 DEF Work, CheckOutput, ToolFails, PureTool, WriteOutput, ExportDocument,
                        Look, Send, Lower, status
    <3>2. pc[c] = "lower" => l = "over"
      BY <1>7, <2>1, <2>5 DEF Work, CheckOutput, ToolFails, PureTool, WriteOutput,
                              ExportDocument, Look, Send, Lower, Goto
    <3>3. \A d \in Calls : MayHaveEntry(d)' <=> MayHaveEntry(d)
      BY <2>1, <2>2, <2>3, <3>1, <3>2 DEF MayHaveEntry, Live, Looking
    <3>4. QED
      BY <1>1, <3>1, <3>3
  <2>6. QED
    BY <2>4, <2>5
<1>8. CASE UNCHANGED vars
  BY <1>1, <1>8 DEF vars, input, status, MayHaveEntry
<1>9. QED
  BY <1>2, <1>3, <1>4, <1>5, <1>6, <1>7, <1>8 DEF Next, Handle

-----------------------------------------------------------------------------
\* A tool's thread leaves "check" or "work" with an outcome, and passes its look with an
\* answer or because its flag is up.
LEMMA WorkAnswers ==
  ASSUME TypeOK, AnswerSound, NotAnsweredBefore, NEW c \in Calls, Work(c)
  PROVE  AnswerSound' /\ NotAnsweredBefore'
<1> USE DEF TypeOK, Goto, Looking, status
<1>0. flag' = flag /\ named' = named
  BY WorkStep DEF heard
<1>1. CASE CheckOutput(c)
  <2>1. CASE file # None /\ ~asked[c].overwrite
    BY <1>0, <1>1, <2>1 DEF CheckOutput, Return, AnswerSound, NotAnsweredBefore
  <2>2. CASE ~(file # None /\ ~asked[c].overwrite)
    BY <1>0, <1>1, <2>2 DEF CheckOutput, AnswerSound, NotAnsweredBefore
  <2>3. QED
    BY <2>1, <2>2
<1>2. CASE ToolFails(c) \/ PureTool(c) \/ WriteOutput(c) \/ ExportDocument(c)
  <2>1. PICK o \in {"ok", "error", "exists"} : outcome' = [outcome EXCEPT ![c] = o]
    BY <1>2 DEF ToolFails, PureTool, WriteOutput, ExportDocument, Return
  <2>2. pc' = [pc EXCEPT ![c] = "look"] /\ answer' = answer /\ pc[c] = "work"
    BY <1>2 DEF ToolFails, PureTool, WriteOutput, ExportDocument, Return
  <2>3. QED
    BY <1>0, <2>1, <2>2 DEF AnswerSound, NotAnsweredBefore
<1>3. CASE Look(c)
  <2>1. outcome' = outcome /\ answer' = answer /\ pc[c] = "look"
    BY <1>3 DEF Look, tools
  <2>2. CASE flag[c]
    BY <1>0, <1>3, <2>1, <2>2 DEF Look, AnswerSound, NotAnsweredBefore
  <2>3. CASE ~flag[c]
    BY <1>0, <1>3, <2>1, <2>3 DEF Look, AnswerSound, NotAnsweredBefore
  <2>4. QED
    BY <2>2, <2>3
<1>4. CASE Send(c)
  BY <1>0, <1>4 DEF Send, AnswerSound, NotAnsweredBefore
<1>5. CASE Remove(c) \/ Lower(c)
  BY <1>0, <1>5 DEF Remove, Lower, tools, AnswerSound, NotAnsweredBefore
<1>6. QED
  BY <1>1, <1>2, <1>3, <1>4, <1>5 DEF Work

\* The same for the reader: the flag a cancel finds belongs to a call it names.
LEMMA AnswerStep ==
  ASSUME TypeOK, ReaderSound, TableSound, AnswerSound, NotAnsweredBefore, [Next]_vars
  PROVE  AnswerSound' /\ NotAnsweredBefore'
<1> USE McpAssumption DEF TypeOK, AnswerSound, NotAnsweredBefore
<1>1. ASSUME NEW c \in Calls, NEW q \in MayAsk[c], ReadCall(c, q)
      PROVE  AnswerSound' /\ NotAnsweredBefore'
  BY <1>1 DEF ReadCall, Goto, Looking, heard
<1>2. ASSUME NEW i \in Ids, ReadCancel(i) PROVE AnswerSound' /\ NotAnsweredBefore'
  <2>1. pc' = pc /\ outcome' = outcome /\ answer' = answer /\ named \subseteq named'
    BY <1>2 DEF ReadCancel, tools
  <2>2. ASSUME NEW c \in Calls, flag'[c] PROVE c \in named'
    <3>1. CASE flag[c]
      BY <2>1, <3>1
    <3>2. CASE table[i] = c
      <4>1. asked[c].id = i /\ MayHaveEntry(c)
        BY <3>2 DEF TableSound
      <4>2. pc[c] \in Live \union {"lost", "over"}
        BY <1>2, <4>1 DEF MayHaveEntry, ReadCancel
      <4>3. QED
        BY <1>2, <4>1, <4>2 DEF ReadCancel
    <3>3. QED
      BY <1>2, <2>2, <3>1, <3>2 DEF ReadCancel
  <2>3. QED
    BY <2>1, <2>2
<1>3. CASE Refuse
  <2>1. call \in Calls
    BY <1>3 DEF Refuse, ReaderSound
  <2>2. QED
    BY <1>3, <2>1 DEF Refuse, Goto, Looking, status, heard
<1>4. CASE Spawn \/ SpawnFails
  <2>1. call \in Calls /\ pc[call] = "read"
    BY <1>4 DEF Spawn, SpawnFails, ReaderSound, IsRead
  <2>2. PICK l \in {"work", "check", "lost"} : pc' = [pc EXCEPT ![call] = l]
    <3>1. CASE SpawnFails
      BY <3>1 DEF SpawnFails, Goto
    <3>2. CASE Spawn /\ asked[call].kind = "pure"
      BY <3>2 DEF Spawn, Goto
    <3>3. CASE Spawn /\ asked[call].kind # "pure"
      BY <3>3 DEF Spawn, Goto
    <3>4. QED
      BY <1>4, <3>1, <3>2, <3>3
  <2>3. UNCHANGED <<flag, outcome, answer, named>>
    BY <1>4 DEF Spawn, SpawnFails, status, tools, heard
  <2>4. QED
    BY <2>1, <2>2, <2>3 DEF Looking
<1>5. CASE ReadEof \/ Exit \/ Insert
  BY <1>5 DEF ReadEof, Exit, Insert, status, tools, heard
<1>6. ASSUME NEW c \in Calls, Work(c) PROVE AnswerSound' /\ NotAnsweredBefore'
  BY <1>6, WorkAnswers
<1>7. CASE UNCHANGED vars
  BY <1>7 DEF vars, status, tools, heard
<1>8. QED
  BY <1>1, <1>2, <1>3, <1>4, <1>5, <1>6, <1>7 DEF Next, Handle

\* A cancel that comes in time raises the flag, the thread sees it, and nobody answers.
LEMMA SilentStep ==
  ASSUME TypeOK, ReaderSound, TableSound, NotAnsweredBefore, SilentOnceCancelled,
         [Next]_vars
  PROVE  SilentOnceCancelled'
<1> USE McpAssumption DEF TypeOK
<1>0. \A c \in inTime : c \in Calls /\ asked[c] # NoRequest
  BY DEF SilentOnceCancelled, Live, Looking
<1>1. ASSUME inTime' = inTime,
             \A c \in inTime : /\ pc'[c] = pc[c] /\ answer'[c] = answer[c]
                               /\ flag'[c] = flag[c]
      PROVE  SilentOnceCancelled'
  BY <1>0, <1>1, AskedFixed DEF SilentOnceCancelled
<1>2. ASSUME NEW c \in Calls, NEW q \in MayAsk[c], ReadCall(c, q)
      PROVE  SilentOnceCancelled'
  <2>1. c \notin inTime
    BY <1>2 DEF ReadCall, SilentOnceCancelled, Live, Looking
  <2>2. QED
    BY <1>0, <1>1, <1>2, <2>1 DEF ReadCall, Goto, heard
<1>3. ASSUME NEW i \in Ids, ReadCancel(i) PROVE SilentOnceCancelled'
  <2>1. /\ flag' = [c \in Calls |-> flag[c] \/ table[i] = c]
        /\ pc' = pc /\ answer' = answer /\ asked' = asked
    BY <1>3 DEF ReadCancel, tools
  <2>2. ASSUME NEW c \in inTime'
        PROVE  /\ pc[c] \in Live \union {"over"}
               /\ IdOfItsOwn(c) => flag'[c] /\ pc[c] # "send" /\ answer[c] = "none"
    <3>1. CASE c \in inTime
      BY <1>0, <2>1, <3>1 DEF SilentOnceCancelled
    <3>2. CASE c \notin inTime
      <4>1. c \in Calls /\ asked[c].id = i /\ pc[c] \in Looking
        BY <1>3, <2>2, <3>2 DEF ReadCancel
      <4>2. IdOfItsOwn(c) => table[i] = c
        BY <4>1 DEF TableSound, MayHaveEntry, Live, Looking
      <4>3. QED
        BY <2>1, <4>1, <4>2 DEF NotAnsweredBefore, Live, Looking
    <3>3. QED
      BY <3>1, <3>2
  <2>3. QED
    BY <2>1, <2>2 DEF SilentOnceCancelled, IdOfItsOwn
<1>4. CASE Refuse \/ Spawn \/ SpawnFails
  <2>1. call \in Calls /\ pc[call] = "read"
    BY <1>4 DEF Refuse, Spawn, SpawnFails, ReaderSound, IsRead
  <2>2. call \notin inTime
    BY <2>1 DEF SilentOnceCancelled, Live, Looking
  <2>3. \A c \in Calls : c # call => pc'[c] = pc[c] /\ answer'[c] = answer[c]
    BY <1>4 DEF Refuse, Spawn, SpawnFails, Goto, tools
  <2>4. flag' = flag /\ inTime' = inTime
    BY <1>4 DEF Refuse, Spawn, SpawnFails, status, heard
  <2>5. QED
    BY <1>0, <1>1, <2>2, <2>3, <2>4
<1>5. CASE ReadEof \/ Exit \/ Insert
  BY <1>1, <1>5 DEF ReadEof, Exit, Insert, status, tools, heard
<1>6. ASSUME NEW c \in Calls, Work(c) PROVE SilentOnceCancelled'
  <2>1. PICK l \in Live \union {"over"} : pc' = [pc EXCEPT ![c] = l]
    BY <1>6, WorkStep
  <2>2. UNCHANGED <<flag, asked, inTime>>
    BY <1>6, WorkStep DEF heard
  <2>3. ASSUME flag[c], pc[c] # "send" PROVE l # "send" /\ answer' = answer
    <3>1. CASE Look(c)
      <4>1. pc' = [pc EXCEPT ![c] = "remove"]
        BY <2>3, <3>1 DEF Look, Goto
      <4>2. QED
        BY <2>1, <3>1, <4>1 DEF Look, tools
    <3>2. CASE ~Look(c)
      BY <1>6, <2>1, <2>3, <3>2 DEF Work, CheckOutput, ToolFails, PureTool, WriteOutput,
           ExportDocument, Send, Remove, Lower, Return, Goto, tools
    <3>3. QED
      BY <3>1, <3>2
  <2>4. \A d \in Calls \ {c} : answer'[d] = answer[d]
    BY <1>6 DEF Work, CheckOutput, ToolFails, PureTool, WriteOutput,
         ExportDocument, Look, Send, Remove, Lower, tools
  <2>5. QED
    BY <1>0, <2>1, <2>2, <2>3, <2>4 DEF SilentOnceCancelled, IdOfItsOwn
<1>7. CASE UNCHANGED vars
  BY <1>1, <1>7 DEF vars, status, tools, heard
<1>8. QED
  BY <1>2, <1>3, <1>4, <1>5, <1>6, <1>7 DEF Next, Handle
-----------------------------------------------------------------------------
\* The invariant is inductive.
LEMMA Invariance == Spec => []IInv
<1>1. Init => IInv
  <2> SUFFICES ASSUME Init PROVE IInv
    OBVIOUS
  <2>1. TypeOK
    BY TypeInit
  <2>2. Counted = {}
    BY DEF Init, Counted, Live, Looking
  <2>3. CounterExact
    BY <2>2, FS_EmptySet, McpAssumption DEF Init, CounterExact
  <2>4. \A c \in Calls : ~MayHaveEntry(c)
    BY DEF Init, MayHaveEntry, Live, Looking
  <2>5. QED
    BY <2>1, <2>2, <2>3, <2>4 DEF Init, IInv, ReaderSound, TableSound, AnswerSound,
                                  SilentOnceCancelled, NotAnsweredBefore
<1>2. IInv /\ [Next]_vars => IInv'
  BY TypeStep, CounterStep, TableStep, AnswerStep, SilentStep DEF IInv
<1>3. QED
  BY <1>1, <1>2, PTL DEF Spec

\* Every variable keeps its type, and a call is unsent or being read exactly when the
\* reader says so.
THEOREM TypeCorrect == Spec => []TypeOK
<1>1. IInv => TypeOK
  BY DEF IInv
<1>2. QED
  BY <1>1, Invariance, PTL

\* Never more tool threads than MAX_CONCURRENT_TOOLS, and the counter counts them.
THEOREM LimitCorrect == Spec => []LimitHolds
<1>1. IInv => LimitHolds
  <2> SUFFICES ASSUME IInv PROVE LimitHolds
    OBVIOUS
  <2> USE McpAssumption DEF IInv, TypeOK, CounterExact
  <2>1. LiveCalls \in SUBSET Counted
    BY DEF LiveCalls, Counted
  <2>2. IsFiniteSet(LiveCalls) /\ Cardinality(LiveCalls) <= busy
    BY <2>1, FS_Subset
  <2>3. Cardinality(LiveCalls) <= MaxTools
    <3>1. CASE reader # "refuse"
      BY <2>2, <3>1, FS_CardinalityType
    <3>2. CASE reader = "refuse"
      <4>1. call \in Calls /\ pc[call] = "read"
        BY <3>2 DEF ReaderSound, IsRead
      <4>2. call \in Counted /\ LiveCalls \in SUBSET (Counted \ {call})
        BY <2>1, <4>1 DEF LiveCalls, Counted, Live, Looking
      <4>3. IsFiniteSet(Counted \ {call}) /\ Cardinality(Counted \ {call}) = busy - 1
        BY <4>2, FS_RemoveElement
      <4>4. Cardinality(LiveCalls) <= busy - 1
        BY <4>2, <4>3, FS_Subset
      <4>5. QED
        BY <2>2, <3>2, <4>4, FS_CardinalityType
    <3>3. QED
      BY <3>1, <3>2
  <2>4. QED
    BY <2>3 DEF LimitHolds, Counted
<1>2. QED
  BY <1>1, Invariance, PTL

\* The server goes with every accepted call over and answered or cancelled.
THEOREM ExitCorrect == Spec => []ExitLeavesNothing
<1>1. IInv => ExitLeavesNothing
  <2> SUFFICES ASSUME IInv, reader = "exited", NEW c \in Calls, pc[c] # "unsent"
               PROVE  pc[c] \in {"refused", "over"} /\ (answer[c] # "none" \/ c \in named)
    BY DEF ExitLeavesNothing
  <2>1. pc[c] \in {"refused", "over"}
    BY DEF IInv, ReaderSound, Counted, TypeOK, Labels
  <2>2. QED
    BY <2>1 DEF IInv, AnswerSound
<1>2. QED
  BY <1>1, Invariance, PTL

\* A cancelled call is silent unless its id is used twice, and only a cancelled one is.
THEOREM CancelCorrect == Spec => []CancelledIsSilent
<1>1. IInv => CancelledIsSilent
  BY DEF IInv, SilentOnceCancelled, AnswerSound, CancelledIsSilent
<1>2. QED
  BY <1>1, Invariance, PTL

\* The map of flags is empty whenever no call is in work.
THEOREM TableCorrect == Spec => []TableIsEmptied
<1>1. IInv => TableIsEmptied
  <2> SUFFICES ASSUME IInv, LiveCalls \union LostCalls = {},
                      reader \in {"reading", "waiting", "exited"}, NEW i \in Ids
               PROVE  table[i] = None
    BY DEF IInv, TypeOK, TableIsEmptied
  <2>1. \A c \in Calls : ~MayHaveEntry(c)
    BY DEF MayHaveEntry, LiveCalls, LostCalls
  <2>2. QED
    BY <2>1 DEF IInv, TypeOK, TableSound
<1>2. QED
  BY <1>1, Invariance, PTL

\* A file that somebody else has put at the output path is replaced only by a call that
\* asked for it, or by the export tool.
THEOREM OverwriteCorrect == Spec => ReplacesWithOverwrite
<1>1. TypeOK /\ [Next]_vars =>
        [\A c \in Calls : Replaces(c) => asked[c].overwrite \/ asked[c].kind = "export"]_vars
  <2> SUFFICES ASSUME TypeOK, Next, NEW c \in Calls, Replaces(c)
               PROVE  asked[c].overwrite \/ asked[c].kind = "export"
    OBVIOUS
  <2>1. file' = c /\ file # None /\ file # c
    BY DEF Replaces
  <2>2. PICK d \in Calls : ToolFails(d) \/ WriteOutput(d) \/ ExportDocument(d)
    BY <2>1 DEF Next, Handle, Work, ReadCall, ReadCancel, ReadEof, Exit, Refuse, Insert,
         Spawn, SpawnFails, CheckOutput, PureTool, Look, Send, Remove, Lower, tools
  <2>3. d = c
    BY <2>1, <2>2 DEF ToolFails, WriteOutput, ExportDocument
  <2>4. CASE ToolFails(c)
    BY <2>1, <2>4 DEF ToolFails, MayTouch
  <2>5. CASE WriteOutput(c)
    BY <2>1, <2>5 DEF WriteOutput
  <2>6. CASE ExportDocument(c)
    BY <2>6 DEF ExportDocument
  <2>7. QED
    BY <2>2, <2>3, <2>4, <2>5, <2>6
<1>2. QED
  BY <1>1, TypeCorrect, PTL DEF Spec, ReplacesWithOverwrite
=============================================================================

-------------------------- MODULE TabsEditorProofs --------------------------
(***************************************************************************)
(* What holds of TabsEditor for every set of documents and every number of *)
(* texts and writes: the times in the tabs, the text a save replaces, what *)
(* a tab without unsaved text shows, documents that stay apart, and drafts *)
(* that are kept.                                                          *)
(***************************************************************************)
EXTENDS TabsEditor, TLAPS

\* A handler that asks, saves or closes is about tabs that are there, and a save goes on
\* under no other handler than the one that began it or one that opens a document.
HandlersSound ==
  /\ load.stage # "none" => load.doc \in Docs
  /\ poll.doc = None => poll = NoPoll
  /\ flow.op \in {"switch", "open", "close", "closeOthers"} => flow.doc \in tabs
  /\ flow.left \subseteq tabs
  /\ flow.left # {} => flow.op \in {"closeOthers", "closeAll"}
  /\ flow.stage = "ask" /\ Closing => flow.asked \in tabs
  /\ save.stage # "none" =>
       /\ save.doc \in Docs /\ active # None
       /\ flow.stage \in {"none", "save"} \/ flow.op = "open"

TypeInv == TypeOK /\ HandlersSound

\* No time is ahead of the clock, and a time that is still a file's came with its text.
StampsSound ==
  /\ \A d \in Docs : disk[d].mtime <= clock
  /\ \A d \in tabs : tab[d].mtime <= clock
  /\ load.mtime <= clock /\ save.mtime <= clock
  /\ load.stage = "read" =>
       (load.mtime = disk[load.doc].mtime => load.text = disk[load.doc].text)
  /\ save.stage = "written" =>
       \A d \in Docs : save.mtime = disk[d].mtime => d = save.doc /\ save.text = disk[d].text

\* The editor was opened on what its tab takes to be in the file, and so was the text
\* that a save sends.
BasisSound ==
  NoneOf({"load", "others"}) =>
    /\ editing /\ load.stage # "shown" => basis = tab[active].original
    /\ save.stage = "sent" =>
         (save.mtime = disk[save.doc].mtime => save.basis = disk[save.doc].text)
-----------------------------------------------------------------------------
(* Types.                                                                  *)

LEMMA TextsType ==
  /\ Blank \in Texts /\ None \notin Docs
  /\ \A d \in Docs : First(d) \in Texts
  /\ \A d \in Docs, n \in 0..MaxTexts : <<d, n>> \in Texts
BY EditorAssumption DEF Texts, Blank, First

LEMMA FetchType ==
  ASSUME TypeOK, NEW d \in Docs
  PROVE  /\ Fetch(d) \in [doc : DocOrNone, stage : {"none", "read", "shown"}, text : Texts,
                          mtime : Stamps, again : BOOLEAN]
         /\ Fetch(d).stage = "read" /\ Fetch(d).doc = d
         /\ Fetch(d).text = disk[d].text /\ Fetch(d).mtime = disk[d].mtime
BY DEF Fetch, TypeOK, DocOrNone

LEMMA NoLoadType ==
  /\ NoLoad \in [doc : DocOrNone, stage : {"none", "read", "shown"}, text : Texts,
                 mtime : Stamps, again : BOOLEAN]
  /\ NoLoad.stage = "none" /\ NoLoad.mtime = 0
BY TextsType, EditorAssumption DEF NoLoad, DocOrNone, Stamps

LEMMA NoTabType == NoTab \in Tab
BY TextsType, EditorAssumption DEF NoTab, Tab, Stamps

LEMMA TabUpdate ==
  ASSUME NEW t \in Tab, NEW x \in Texts, NEW b \in BOOLEAN
  PROVE  /\ [t EXCEPT !.dirty = b] \in Tab /\ [t EXCEPT !.changed = b] \in Tab
         /\ [t EXCEPT !.content = x, !.dirty = b] \in Tab
BY DEF Tab

LEMMA InitType == Init => TypeInv
<1> SUFFICES ASSUME Init PROVE TypeInv
  OBVIOUS
<1>1. 0 \in Stamps /\ 0 \in 0..MaxTexts
  BY EditorAssumption DEF Stamps
<1>2. disk \in [Docs -> [text : Texts, mtime : Stamps]]
  BY <1>1, TextsType DEF Init
<1>3. tab \in [Docs -> Tab]
  BY NoTabType DEF Init
<1>4. drafts \in [Docs -> Texts] /\ buffer \in Texts /\ basis \in Texts
  BY TextsType DEF Init
<1>5. save \in [doc : DocOrNone, text : Texts, basis : Texts, mtime : Stamps, exit : BOOLEAN,
                stage : {"none", "sent", "written", "conflict", "rendering", "reloading"}]
  BY <1>1, TextsType DEF Init, NoSave, DocOrNone
<1>6. flow \in [op : {"none", "switch", "open", "exit", "close", "closeOthers", "closeAll"},
                doc : DocOrNone, asked : DocOrNone, left : SUBSET Docs,
                stage : {"none", "ask", "save", "go"}]
  BY DEF Init, NoFlow, DocOrNone
<1>7. poll \in [doc : tabs \union {None}, mtime : Stamps]
  BY <1>1 DEF Init, NoPoll
<1>8. TypeOK
  BY <1>1, <1>2, <1>3, <1>4, <1>5, <1>6, <1>7, NoLoadType DEF Init, TypeOK, DocOrNone
<1>9. HandlersSound
  BY DEF Init, HandlersSound, NoLoad, NoPoll, NoFlow, NoSave, Closing
<1>10. QED
  BY <1>8, <1>9 DEF TypeInv

\* An edited tab is there.
LEMMA Edited ==
  ASSUME TypeOK, editing
  PROVE  active \in tabs /\ active \in Docs /\ owner \in Docs
BY DEF TypeOK, DocOrNone

LEMMA ExitEditType ==
  ASSUME ExitEdit
  PROVE  /\ editing' = FALSE /\ buffer' \in Texts /\ owner' = None /\ basis' \in Texts
         /\ owner' \in DocOrNone
BY TextsType DEF ExitEdit, DocOrNone

LEMMA OverlapType ==
  ASSUME TypeOK, NEW new, Overlap(new)
  PROVE  overlaps' \subseteq MayOverlap /\ overlaps \subseteq overlaps' /\ new \subseteq overlaps'
BY DEF Overlap, TypeOK

\* The user's editor, and other programs.
LEMMA EditorType ==
  ASSUME TypeInv,
         \/ \E d \in Docs : Foreign(d)
         \/ StartEdit \/ EditorMounted \/ Type \/ Undo \/ GoHome \/ LeaveEdit \/ SaveKey
  PROVE  TypeInv'
<1> USE DEF TypeInv
<1>1. ASSUME NEW d \in Docs, Foreign(d) PROVE TypeInv'
  <2>1. made + 1 \in 0..MaxTexts /\ clock + 1 \in Stamps
    BY <1>1, EditorAssumption DEF Foreign, TypeOK, Stamps
  <2>2. [text |-> <<d, made + 1>>, mtime |-> clock + 1] \in [text : Texts, mtime : Stamps]
    BY <2>1, TextsType
  <2>3. disk' \in [Docs -> [text : Texts, mtime : Stamps]]
    BY <1>1, <2>2 DEF Foreign, TypeOK
  <2>4. UNCHANGED <<tabs, tab, active, editing, buffer, owner, basis, bundle, load, poll, save,
                    flow, drafts, overlaps>>
    BY <1>1 DEF Foreign, strip, editor
  <2>5. TypeOK'
    BY <1>1, <2>1, <2>3, <2>4 DEF Foreign, TypeOK
  <2>6. QED
    BY <2>4, <2>5 DEF HandlersSound, Closing
<1>2. CASE StartEdit
  <2>1. active \in tabs /\ active \in Docs
    BY <1>2 DEF StartEdit, TypeOK
  <2>2. /\ editing' = TRUE /\ owner' = active /\ buffer' \in Texts /\ basis' \in Texts
        /\ bundle' \in {"absent", "coming", "here"}
    BY <1>2, <2>1, TextsType DEF StartEdit, EditText, TypeOK, Tab
  <2>3. UNCHANGED <<disk, made, clock, tabs, tab, active, load, poll, save, flow, drafts>>
    BY <1>2 DEF StartEdit, files, strip
  <2>4. overlaps' \subseteq MayOverlap
    BY <1>2, OverlapType DEF StartEdit
  <2>5. TypeOK'
    BY <2>1, <2>2, <2>3, <2>4, EditorAssumption DEF TypeOK, DocOrNone
  <2>6. QED
    BY <2>3, <2>5 DEF HandlersSound, Closing
<1>3. CASE EditorMounted
  <2>1. buffer' \in Texts
    BY <1>3, Edited, TextsType DEF EditorMounted, TypeOK, Tab
  <2>2. bundle' = "here"
    BY <1>3 DEF EditorMounted
  <2>3. UNCHANGED <<disk, made, clock, tabs, tab, active, editing, owner, basis, load, poll,
                    save, flow, drafts, overlaps>>
    BY <1>3 DEF EditorMounted, files, strip
  <2>4. TypeOK'
    BY <2>1, <2>2, <2>3 DEF TypeOK
  <2>5. QED
    BY <2>3, <2>4 DEF HandlersSound, Closing
<1>4. CASE Type
  <2>1. active \in Docs /\ owner \in Docs
    BY <1>4, Edited DEF Type
  <2>2. made + 1 \in 0..MaxTexts
    BY <1>4, EditorAssumption DEF Type, TypeOK
  <2>3. <<owner, made + 1>> \in Texts
    BY <2>1, <2>2, TextsType
  <2>4. tab' \in [Docs -> Tab]
    <3>1. tab' = [tab EXCEPT ![active] =
                    [tab[active] EXCEPT !.content = <<owner, made + 1>>, !.dirty = TRUE]]
      BY <1>4, <2>1 DEF Type, TypeOK
    <3>2. [tab[active] EXCEPT !.content = <<owner, made + 1>>, !.dirty = TRUE] \in Tab
      BY <2>1, <2>3, TabUpdate DEF TypeOK
    <3>3. QED
      BY <3>1, <3>2 DEF TypeOK
  <2>5. drafts' \in [Docs -> Texts] /\ buffer' \in Texts /\ made' \in 0..MaxTexts
    BY <1>4, <2>2, <2>3 DEF Type, TypeOK
  <2>6. overlaps' \subseteq MayOverlap
    BY <1>4, OverlapType DEF Type
  <2>7. UNCHANGED <<disk, clock, tabs, active, editing, owner, basis, bundle, load, poll,
                    save, flow>>
    BY <1>4 DEF Type
  <2>8. TypeOK'
    BY <2>4, <2>5, <2>6, <2>7 DEF TypeOK
  <2>9. QED
    BY <2>7, <2>8 DEF HandlersSound, Closing
<1>5. CASE Undo
  <2>1. active \in Docs
    BY <1>5, Edited DEF Undo, Unsaved
  <2>2. tab' \in [Docs -> Tab] /\ buffer' \in Texts
    BY <1>5, <2>1 DEF Undo, TypeOK, Tab
  <2>3. drafts' \in [Docs -> Texts]
    BY <1>5, TextsType DEF Undo, TypeOK
  <2>4. overlaps' \subseteq MayOverlap
    BY <1>5, OverlapType DEF Undo
  <2>5. UNCHANGED <<disk, made, clock, tabs, active, editing, owner, basis, bundle, load, poll,
                    save, flow>>
    BY <1>5 DEF Undo, files
  <2>6. TypeOK'
    BY <2>2, <2>3, <2>4, <2>5 DEF TypeOK
  <2>7. QED
    BY <2>5, <2>6 DEF HandlersSound, Closing
<1>6. CASE GoHome
  <2>1. ExitEdit /\ active' = None /\ load' = NoLoad /\ save.stage = "none"
    BY <1>6 DEF GoHome, Home, Idle, NoSave
  <2>2. UNCHANGED <<disk, made, clock, tabs, tab, bundle, poll, save, flow, drafts, overlaps>>
    BY <1>6 DEF GoHome, files
  <2>3. TypeOK'
    BY <2>1, <2>2, ExitEditType, NoLoadType DEF TypeOK
  <2>4. QED
    BY <2>1, <2>2, <2>3, NoLoadType DEF HandlersSound, Closing
<1>7. CASE LeaveEdit
  <2>1. UNCHANGED <<disk, made, clock, tabs, tab, active, bundle, load, poll, save, drafts,
                    overlaps>>
    BY <1>7 DEF LeaveEdit, files, strip
  <2>2. save.stage = "none"
    BY <1>7 DEF LeaveEdit, Idle, NoSave
  <2>3. CASE Unsaved
    <3>1. flow' = [op |-> "exit", doc |-> None, asked |-> active, left |-> {}, stage |-> "ask"]
      BY <1>7, <2>3 DEF LeaveEdit, NoFlow
    <3>2. UNCHANGED <<editing, buffer, owner, basis>>
      BY <1>7, <2>3 DEF LeaveEdit, editor
    <3>3. TypeOK'
      BY <2>1, <3>1, <3>2 DEF TypeOK, DocOrNone
    <3>4. QED
      BY <2>1, <2>2, <3>1, <3>3 DEF HandlersSound, Closing
  <2>4. CASE ~Unsaved
    <3>1. ExitEdit /\ UNCHANGED flow
      BY <1>7, <2>4 DEF LeaveEdit
    <3>2. TypeOK'
      BY <2>1, <3>1, ExitEditType DEF TypeOK
    <3>3. QED
      BY <2>1, <3>1, <3>2 DEF HandlersSound, Closing
  <2>5. QED
    BY <2>3, <2>4
<1>8. CASE SaveKey
  <2>1. active \in Docs /\ editing /\ flow = NoFlow
    BY <1>8, Edited DEF SaveKey, Idle
  <2>2. save' = [doc |-> active, text |-> buffer, basis |-> basis, mtime |-> tab[active].mtime,
                 exit |-> FALSE, stage |-> "sent"]
    BY <1>8 DEF SaveKey, BeginSave
  <2>3. overlaps' \subseteq MayOverlap
    BY <1>8, OverlapType DEF SaveKey, BeginSave
  <2>4. UNCHANGED <<disk, made, clock, tabs, tab, active, editing, buffer, owner, basis, bundle,
                    load, poll, flow, drafts>>
    BY <1>8 DEF SaveKey, files, strip, editor
  <2>5. save' \in [doc : DocOrNone, text : Texts, basis : Texts, mtime : Stamps, exit : BOOLEAN,
                   stage : {"none", "sent", "written", "conflict", "rendering", "reloading"}]
    BY <2>1, <2>2 DEF TypeOK, Tab, DocOrNone
  <2>6. TypeOK'
    BY <2>3, <2>4, <2>5 DEF TypeOK
  <2>7. QED
    BY <2>1, <2>2, <2>4, <2>6, EditorAssumption DEF HandlersSound, Closing, NoFlow
<1>9. QED
  BY <1>1, <1>2, <1>3, <1>4, <1>5, <1>6, <1>7, <1>8

\* saveEdit from its request on.
LEMMA EndSaveType ==
  ASSUME TypeInv, NEW ok, NEW still, EndSave(ok, still),
         save.stage # "none", UNCHANGED <<tabs, tab>>
  PROVE  /\ save' = NoSave
         /\ flow' \in [op : {"none", "switch", "open", "exit", "close", "closeOthers", "closeAll"},
                       doc : DocOrNone, asked : DocOrNone, left : SUBSET Docs,
                       stage : {"none", "ask", "save", "go"}]
         /\ flow'.op \in {"switch", "open", "close", "closeOthers"} => flow'.doc \in tabs
         /\ flow'.left \subseteq tabs
         /\ flow'.left # {} => flow'.op \in {"closeOthers", "closeAll"}
         /\ flow'.stage = "ask" => flow' = flow
<1>1. save' = NoSave /\ flow' \in {flow, [flow EXCEPT !.stage = "go"], NoFlow}
  BY DEF EndSave
<1>2. CASE flow' = NoFlow
  BY <1>1, <1>2 DEF NoFlow, DocOrNone
<1>3. CASE flow' = flow
  BY <1>1, <1>3 DEF TypeInv, TypeOK, HandlersSound
<1>4. CASE flow' = [flow EXCEPT !.stage = "go"]
  BY <1>1, <1>4 DEF TypeInv, TypeOK, HandlersSound
<1>5. QED
  BY <1>1, <1>2, <1>3, <1>4

LEMMA NoSaveType ==
  /\ NoSave \in [doc : DocOrNone, text : Texts, basis : Texts, mtime : Stamps, exit : BOOLEAN,
                 stage : {"none", "sent", "written", "conflict", "rendering", "reloading"}]
  /\ NoSave.stage = "none" /\ NoSave.mtime = 0
BY TextsType, EditorAssumption DEF NoSave, DocOrNone, Stamps

LEMMA SaveType ==
  ASSUME TypeInv,
         ServerSaves \/ SaveAnswered \/ SaveDone \/ SaveGivenUp \/ ConflictReload
           \/ ConflictReloaded
  PROVE  TypeInv'
<1> USE DEF TypeInv
<1>1. CASE ServerSaves
  <2>1. UNCHANGED <<made, tabs, tab, active, editing, buffer, owner, basis, bundle, load, poll,
                    flow, overlaps>>
    BY <1>1 DEF ServerSaves, strip, editor
  <2>2. save.doc \in Docs /\ active # None /\ save.stage = "sent"
    BY <1>1 DEF ServerSaves, HandlersSound
  <2>3. CASE disk[save.doc].mtime = save.mtime
    <3>1. clock' = clock + 1 /\ clock + 1 \in Stamps
      BY <1>1, <2>3, EditorAssumption DEF ServerSaves, TypeOK, Stamps
    <3>2. disk' \in [Docs -> [text : Texts, mtime : Stamps]]
      BY <1>1, <2>3, <3>1 DEF ServerSaves, TypeOK
    <3>3. drafts' \in [Docs -> Texts]
      <4>1. drafts' = [d \in Docs |-> IF drafts[d] = save.text THEN Blank ELSE drafts[d]]
        BY <1>1, <2>3 DEF ServerSaves
      <4>2. QED
        BY <4>1, TextsType DEF TypeOK
    <3>4. save' = [save EXCEPT !.stage = "written", !.mtime = clock + 1]
      BY <1>1, <2>3 DEF ServerSaves
    <3>5. save' \in [doc : DocOrNone, text : Texts, basis : Texts, mtime : Stamps,
                     exit : BOOLEAN,
                     stage : {"none", "sent", "written", "conflict", "rendering", "reloading"}]
      BY <3>1, <3>4 DEF TypeOK
    <3>6. TypeOK'
      BY <2>1, <3>1, <3>2, <3>3, <3>5 DEF TypeOK
    <3>7. QED
      BY <2>1, <2>2, <3>4, <3>6 DEF HandlersSound, Closing, TypeOK
  <2>4. CASE disk[save.doc].mtime # save.mtime
    <3>1. save' = [save EXCEPT !.stage = "conflict"] /\ UNCHANGED <<disk, clock, drafts>>
      BY <1>1, <2>4 DEF ServerSaves
    <3>2. TypeOK'
      BY <2>1, <3>1 DEF TypeOK
    <3>3. QED
      BY <2>1, <2>2, <3>1, <3>2 DEF HandlersSound, Closing, TypeOK
  <2>5. QED
    BY <2>3, <2>4
<1>2. CASE SaveAnswered
  <2>1. UNCHANGED <<disk, made, clock, tabs, active, editing, buffer, owner, bundle, load, poll,
                    flow, drafts, overlaps>>
    BY <1>2 DEF SaveAnswered, files
  <2>2. tab' \in [Docs -> Tab] /\ basis' \in Texts
    BY <1>2, TextsType DEF SaveAnswered, TypeOK, Tab
  <2>3. save' = [save EXCEPT !.stage = "rendering"] /\ save.stage = "written"
    BY <1>2 DEF SaveAnswered
  <2>4. TypeOK'
    BY <2>1, <2>2, <2>3 DEF TypeOK
  <2>5. QED
    BY <2>1, <2>3, <2>4 DEF HandlersSound, Closing, TypeOK
<1>3. CASE SaveDone
  <2>1. /\ UNCHANGED <<disk, made, clock, tabs, tab, active, bundle, load, poll, drafts,
                       overlaps>>
        /\ save.stage # "none"
        /\ \E ok, still : EndSave(ok, still)
    BY <1>3 DEF SaveDone, files, strip
  <2>2. PICK ok, still : EndSave(ok, still)
    BY <2>1
  <2>3. /\ editing' \in BOOLEAN /\ buffer' \in Texts /\ owner' \in DocOrNone /\ basis' \in Texts
        /\ (editing' <=> owner' # None) /\ (editing' => active # None)
    BY <1>3, ExitEditType DEF SaveDone, editor, TypeOK
  <2>4. TypeOK'
    BY <2>1, <2>2, <2>3, EndSaveType, NoSaveType DEF TypeOK
  <2>5. QED
    BY <2>1, <2>2, <2>4, EndSaveType, NoSaveType DEF HandlersSound, Closing
<1>4. CASE SaveGivenUp \/ ConflictReloaded
  <2>1. /\ UNCHANGED <<disk, made, clock, tabs, tab, active, editing, buffer, owner, basis,
                       bundle, load, poll, drafts, overlaps>>
        /\ save.stage # "none"
        /\ \E ok, still : EndSave(ok, still)
    BY <1>4 DEF SaveGivenUp, ConflictReloaded, files, strip, editor
  <2>2. PICK ok, still : EndSave(ok, still)
    BY <2>1
  <2>3. TypeOK'
    BY <2>1, <2>2, EndSaveType, NoSaveType DEF TypeOK
  <2>4. QED
    BY <2>1, <2>2, <2>3, EndSaveType, NoSaveType DEF HandlersSound, Closing
<1>5. CASE ConflictReload
  <2>1. /\ UNCHANGED <<disk, made, clock, tabs, tab, active, bundle, poll, overlaps>>
        /\ save.stage = "conflict" /\ ExitEdit
        /\ active \in Docs /\ save.doc \in Docs
    BY <1>5 DEF ConflictReload, files, strip, HandlersSound, TypeOK
  <2>2. drafts' \in [Docs -> Texts]
    BY <1>5, TextsType DEF ConflictReload, TypeOK
  <2>3. CASE EndSave(TRUE, FALSE) /\ UNCHANGED load
    <3>1. TypeOK'
      BY <2>1, <2>2, <2>3, EndSaveType, NoSaveType, ExitEditType DEF TypeOK
    <3>2. QED
      BY <2>1, <2>3, <3>1, EndSaveType, NoSaveType DEF HandlersSound, Closing
  <2>4. CASE /\ load' = Fetch(active)
             /\ save' = [save EXCEPT !.stage = "reloading"] /\ UNCHANGED flow
    <3>1. TypeOK'
      BY <2>1, <2>2, <2>4, FetchType, ExitEditType DEF TypeOK
    <3>2. QED
      BY <2>1, <2>4, <3>1, FetchType DEF HandlersSound, Closing, TypeOK
  <2>5. QED
    BY <1>5, <2>3, <2>4 DEF ConflictReload
<1>6. QED
  BY <1>1, <1>2, <1>3, <1>4, <1>5

\* loadFile and startAutoReload.
LEMMA SwitchType ==
  ASSUME TypeInv, NEW op \in {"switch", "open"}, NEW d \in tabs, Switch(op, d),
         UNCHANGED <<disk, made, clock, tabs, active, bundle, poll, save, drafts>>,
         flow = NoFlow, op = "switch" => save.stage = "none"
  PROVE  TypeInv'
<1> USE DEF TypeInv
<1>1. tab' \in [Docs -> Tab]
  <2>1. CASE Unsaved
    <3>1. active \in Docs
      BY <2>1, Edited DEF Unsaved
    <3>2. tab' = [tab EXCEPT ![active] = [tab[active] EXCEPT !.dirty = TRUE]]
      BY <2>1, <3>1 DEF Switch, TypeOK
    <3>3. [tab[active] EXCEPT !.dirty = TRUE] \in Tab
      BY <3>1, TabUpdate, TextsType DEF TypeOK
    <3>4. QED
      BY <3>2, <3>3 DEF TypeOK
  <2>2. CASE ~Unsaved
    BY <2>2 DEF Switch, TypeOK
  <2>3. QED
    BY <2>1, <2>2
<1>2. flow' = [op |-> op, doc |-> d, asked |-> active, left |-> {},
               stage |-> IF Unsaved THEN "ask" ELSE "go"]
  BY DEF Switch, NoFlow
<1>3. load' = NoLoad /\ UNCHANGED <<editing, buffer, owner, basis>>
  BY DEF Switch, editor
<1>4. overlaps' \subseteq MayOverlap
  BY OverlapType DEF Switch
<1>5. TypeOK'
  BY <1>1, <1>2, <1>3, <1>4, NoLoadType DEF TypeOK, DocOrNone
<1>6. QED
  BY <1>2, <1>3, <1>5, NoLoadType DEF HandlersSound, Closing

LEMMA LoadType ==
  ASSUME TypeInv,
         \/ \E d \in Docs : Open(d) \/ PollAsks(d) \/ SwitchTab(d)
         \/ LoadArrives \/ LoadRendered \/ PollAnswered
  PROVE  TypeInv'
<1> USE DEF TypeInv
<1>1. ASSUME NEW d \in Docs, Open(d) PROVE TypeInv'
  <2>1. /\ UNCHANGED <<disk, made, clock, tabs, active, bundle, poll, save, drafts>>
        /\ flow = NoFlow
    BY <1>1 DEF Open, files
  <2>2. CASE d \in tabs /\ active # d
    BY <1>1, <2>1, <2>2, SwitchType DEF Open
  <2>3. CASE ~(d \in tabs /\ active # d)
    <3>1. /\ load' = Fetch(d) /\ UNCHANGED <<tab, flow>>
          /\ ExitEdit \/ UNCHANGED <<editing, buffer, owner, basis>>
      BY <1>1, <2>3 DEF Open, editor
    <3>2. overlaps' \subseteq MayOverlap
      BY <1>1, <2>3, OverlapType DEF Open
    <3>3. TypeOK'
      <4>1. /\ editing' \in BOOLEAN /\ buffer' \in Texts /\ owner' \in DocOrNone
            /\ basis' \in Texts
            /\ (editing' <=> owner' # None) /\ (editing' => active # None)
        <5>1. CASE ExitEdit
          BY <5>1, ExitEditType
        <5>2. CASE UNCHANGED <<editing, buffer, owner, basis>>
          BY <5>2 DEF TypeOK
        <5>3. QED
          BY <3>1, <5>1, <5>2
      <4>2. QED
        BY <2>1, <3>1, <3>2, <4>1, FetchType DEF TypeOK
    <3>4. QED
      BY <2>1, <3>1, <3>3, FetchType DEF HandlersSound, Closing
  <2>4. QED
    BY <2>2, <2>3
<1>2. ASSUME NEW d \in Docs, PollAsks(d) PROVE TypeInv'
  <2>1. d \in tabs /\ poll' = [doc |-> d, mtime |-> disk[d].mtime]
    BY <1>2 DEF PollAsks
  <2>2. UNCHANGED <<disk, made, clock, tabs, tab, active, editing, buffer, owner, basis, bundle,
                    load, save, flow, drafts, overlaps>>
    BY <1>2 DEF PollAsks, files, strip, editor
  <2>3. TypeOK'
    BY <2>1, <2>2 DEF TypeOK
  <2>4. QED
    BY <2>1, <2>2, <2>3, TextsType DEF HandlersSound, Closing
<1>3. ASSUME NEW d \in Docs, SwitchTab(d) PROVE TypeInv'
  BY <1>3, SwitchType DEF SwitchTab, Idle, NoSave, files
<1>4. CASE LoadArrives
  <2>1. UNCHANGED <<disk, made, clock, editing, buffer, owner, basis, bundle, poll, save, flow,
                    drafts>>
    BY <1>4 DEF LoadArrives, files, editor
  <2>2. load.doc \in Docs /\ load.stage = "read"
    BY <1>4 DEF LoadArrives, HandlersSound
  <2>3. Loaded(load.doc) \in Tab
    BY <2>2 DEF Loaded, TypeOK, Tab
  <2>4. tab' \in [Docs -> Tab]
    BY <1>4, <2>3 DEF LoadArrives, TypeOK
  <2>5. overlaps' \subseteq MayOverlap
    BY <1>4, OverlapType DEF LoadArrives
  <2>6. CASE load.again
    <3>1. load' = NoLoad /\ UNCHANGED <<tabs, active>>
      BY <1>4, <2>6 DEF LoadArrives
    <3>2. TypeOK'
      BY <2>1, <2>4, <2>5, <3>1, NoLoadType DEF TypeOK
    <3>3. QED
      BY <2>1, <3>1, <3>2, NoLoadType DEF HandlersSound, Closing
  <2>7. CASE ~load.again
    <3>1. /\ load' = [load EXCEPT !.stage = "shown"]
          /\ tabs' = tabs \union {load.doc} /\ active' = load.doc
      BY <1>4, <2>7 DEF LoadArrives
    <3>2. active' # None
      BY <2>2, <3>1, TextsType
    <3>3. TypeOK'
      BY <2>1, <2>2, <2>4, <2>5, <3>1, <3>2 DEF TypeOK
    <3>4. QED
      BY <2>1, <2>2, <3>1, <3>2, <3>3 DEF HandlersSound, Closing, TypeOK
  <2>8. QED
    BY <2>6, <2>7
<1>5. CASE LoadRendered
  <2>1. /\ UNCHANGED <<disk, made, clock, tabs, tab, active, bundle, poll, save, flow, drafts,
                       overlaps>>
        /\ load' = NoLoad /\ ExitEdit
    BY <1>5 DEF LoadRendered, files, strip
  <2>2. TypeOK'
    BY <2>1, NoLoadType, ExitEditType DEF TypeOK
  <2>3. QED
    BY <2>1, <2>2, NoLoadType DEF HandlersSound, Closing
<1>6. CASE PollAnswered
  <2>1. UNCHANGED <<disk, made, clock, tabs, active, bundle, save, flow, drafts, overlaps>>
    BY <1>6 DEF PollAnswered, files
  <2>2. poll' = NoPoll /\ NoPoll \in [doc : tabs \union {None}, mtime : Stamps]
    BY <1>6, EditorAssumption DEF PollAnswered, NoPoll, Stamps
  <2>3. tab' \in [Docs -> Tab]
    <3>1. poll.doc \in Docs
      BY <1>6 DEF PollAnswered, TypeOK, HandlersSound
    <3>2. tab' \in {tab, [tab EXCEPT ![poll.doc].changed = TRUE]}
      BY <1>6 DEF PollAnswered
    <3>3. [tab[poll.doc] EXCEPT !.changed = TRUE] \in Tab
      BY <3>1, TabUpdate, TextsType DEF TypeOK
    <3>4. [tab EXCEPT ![poll.doc].changed = TRUE]
            = [tab EXCEPT ![poll.doc] = [tab[poll.doc] EXCEPT !.changed = TRUE]]
      BY <3>1 DEF TypeOK
    <3>5. QED
      BY <3>2, <3>3, <3>4 DEF TypeOK
  <2>4. CASE load' = Fetch(poll.doc) /\ ExitEdit /\ active = poll.doc
    <3>1. poll.doc \in Docs
      BY <1>6 DEF PollAnswered, TypeOK, HandlersSound
    <3>2. TypeOK'
      BY <2>1, <2>2, <2>3, <2>4, <3>1, FetchType, ExitEditType DEF TypeOK
    <3>3. QED
      BY <2>1, <2>2, <2>4, <3>1, <3>2, FetchType DEF HandlersSound, Closing, NoPoll
  <2>5. CASE UNCHANGED <<load, editing, buffer, owner, basis>>
    <3>1. TypeOK'
      BY <2>1, <2>2, <2>3, <2>5 DEF TypeOK
    <3>2. QED
      BY <2>1, <2>2, <2>5, <3>1 DEF HandlersSound, Closing, NoPoll
  <2>6. QED
    BY <1>6, <2>4, <2>5 DEF PollAnswered, editor
<1>7. QED
  BY <1>1, <1>2, <1>3, <1>4, <1>5, <1>6

\* The questions, the closing of tabs and what follows them.
LEMMA ActivateType ==
  ASSUME TypeOK, NEW d \in Docs, NEW now \in [Docs -> Tab], NEW loading, NEW asked \in BOOLEAN,
         loading \in [doc : DocOrNone, stage : {"none", "read", "shown"}, text : Texts,
                      mtime : Stamps, again : BOOLEAN],
         loading.stage # "none" => loading.doc \in Docs,
         Activate(d, now, loading, asked)
  PROVE  /\ ExitEdit /\ active' = d
         /\ load' \in {loading, Fetch(d)}
         /\ load' \in [doc : DocOrNone, stage : {"none", "read", "shown"}, text : Texts,
                       mtime : Stamps, again : BOOLEAN]
         /\ load'.stage # "none" => load'.doc \in Docs
         /\ tab' \in [Docs -> Tab]
         /\ tab' = now \/ tab' = [now EXCEPT ![d] = [now[d] EXCEPT !.changed = FALSE]]
<1>1. ExitEdit /\ active' = d /\ load' \in {loading, Fetch(d)}
  BY DEF Activate
<1>2. [now EXCEPT ![d].changed = FALSE] = [now EXCEPT ![d] = [now[d] EXCEPT !.changed = FALSE]]
  OBVIOUS
<1>3. [now[d] EXCEPT !.changed = FALSE] \in Tab
  BY TabUpdate, TextsType
<1>4. tab' = now \/ tab' = [now EXCEPT ![d] = [now[d] EXCEPT !.changed = FALSE]]
  BY <1>2 DEF Activate
<1>5. tab' \in [Docs -> Tab]
  BY <1>3, <1>4
<1>6. CASE load' = loading
  BY <1>1, <1>4, <1>5, <1>6
<1>7. CASE load' = Fetch(d)
  BY <1>1, <1>4, <1>5, <1>7, FetchType
<1>8. QED
  BY <1>1, <1>6, <1>7

LEMMA RemoveType ==
  ASSUME TypeInv, NEW gone, Remove(gone)
  PROVE  /\ tabs' = tabs \ gone /\ tabs' \subseteq Docs
         /\ poll' \in [doc : tabs' \union {None}, mtime : Stamps]
         /\ poll'.doc = None => poll' = NoPoll
<1>1. CASE poll.doc \in gone
  BY <1>1, EditorAssumption DEF Remove, NoPoll, TypeInv, TypeOK, HandlersSound, Stamps
<1>2. CASE poll.doc \notin gone
  BY <1>2 DEF Remove, TypeInv, TypeOK, HandlersSound
<1>3. QED
  BY <1>1, <1>2

LEMMA WithoutType ==
  ASSUME TypeOK, NEW gone
  PROVE  Without(gone) \in [Docs -> Tab]
BY NoTabType DEF Without, TypeOK

LEMMA NoFlowType ==
  /\ NoFlow \in [op : {"none", "switch", "open", "exit", "close", "closeOthers", "closeAll"},
                 doc : DocOrNone, asked : DocOrNone, left : SUBSET Docs,
                 stage : {"none", "ask", "save", "go"}]
  /\ NoFlow.op = "none" /\ NoFlow.left = {} /\ NoFlow.stage = "none"
BY DEF NoFlow, DocOrNone

LEMMA GoType ==
  ASSUME TypeInv, Go
  PROVE  TypeInv'
<1> USE DEF TypeInv
<1>1. /\ flow.stage = "go"
      /\ UNCHANGED <<disk, made, clock, bundle, save, drafts>>
  BY DEF Go, files
<1>2. flow.op # "open" => save.stage = "none"
  BY <1>1 DEF HandlersSound
<1>3. CASE GoSwitch
  <2>1. flow.doc \in tabs /\ flow' = NoFlow /\ UNCHANGED <<tabs, poll>>
    BY <1>3 DEF GoSwitch, HandlersSound
  <2>2. /\ ExitEdit /\ active' = flow.doc /\ tab' \in [Docs -> Tab]
        /\ load' \in [doc : DocOrNone, stage : {"none", "read", "shown"}, text : Texts,
                      mtime : Stamps, again : BOOLEAN]
        /\ load'.stage # "none" => load'.doc \in Docs
    BY <1>3, <2>1, ActivateType DEF GoSwitch, TypeOK, HandlersSound
  <2>3. overlaps' \subseteq MayOverlap
    BY <1>3, OverlapType DEF GoSwitch
  <2>4. TypeOK'
    BY <1>1, <2>1, <2>2, <2>3, ExitEditType, NoFlowType DEF TypeOK
  <2>5. active' # None
    BY <2>1, <2>2, TextsType DEF TypeOK
  <2>6. QED
    BY <1>1, <2>1, <2>2, <2>4, <2>5, NoFlowType DEF HandlersSound, Closing
<1>4. CASE GoClose
  <2> DEFINE gone == {flow.doc}
  <2>1. /\ flow.doc \in tabs /\ Remove(gone) /\ flow' = NoFlow /\ UNCHANGED overlaps
        /\ save.stage = "none"
    BY <1>2, <1>4 DEF GoClose, HandlersSound
  <2>2. CASE tab' = Without(gone) /\ UNCHANGED <<active, editor, load>> /\ active # flow.doc
    <3>1. TypeOK'
      BY <1>1, <2>1, <2>2, RemoveType, WithoutType, NoFlowType DEF TypeOK, editor
    <3>2. QED
      BY <1>1, <2>1, <2>2, <3>1, RemoveType, NoFlowType DEF HandlersSound, Closing
  <2>3. CASE tab' = Without(gone) /\ Home
    <3>1. ExitEdit /\ active' = None /\ load' = NoLoad
      BY <2>3 DEF Home
    <3>2. TypeOK'
      BY <1>1, <2>1, <2>3, <3>1, RemoveType, WithoutType, NoFlowType, NoLoadType, ExitEditType
         DEF TypeOK
    <3>3. QED
      BY <1>1, <2>1, <3>1, <3>2, RemoveType, NoFlowType, NoLoadType DEF HandlersSound, Closing
  <2>4. ASSUME NEW d \in tabs \ gone, Activate(d, Without(gone), NoLoad, FALSE)
        PROVE  TypeInv'
    <3>1. d \in Docs /\ Without(gone) \in [Docs -> Tab]
      BY WithoutType DEF TypeOK
    <3>2. /\ ExitEdit /\ active' = d /\ tab' \in [Docs -> Tab]
          /\ load' \in [doc : DocOrNone, stage : {"none", "read", "shown"}, text : Texts,
                        mtime : Stamps, again : BOOLEAN]
          /\ load'.stage # "none" => load'.doc \in Docs
      BY <2>4, <3>1, NoLoadType, ActivateType
    <3>3. TypeOK'
      BY <1>1, <2>1, <2>4, <3>2, RemoveType, NoFlowType, ExitEditType DEF TypeOK
    <3>4. QED
      BY <1>1, <2>1, <3>2, <3>3, RemoveType, NoFlowType DEF HandlersSound, Closing
  <2>5. QED
    BY <1>4, <2>2, <2>3, <2>4 DEF GoClose
<1>5. ASSUME NEW d \in Docs, GoAsk(d) PROVE TypeInv'
  <2>1. /\ UNCHANGED <<tabs, tab, active, editing, buffer, owner, basis, load, poll, overlaps>>
        /\ flow' = [flow EXCEPT !.asked = d, !.left = flow.left \ {d}, !.stage = "ask"]
        /\ d \in tabs
    BY <1>5 DEF GoAsk, strip, editor, HandlersSound
  <2>2. flow.op \in {"closeOthers", "closeAll"}
    BY <1>5 DEF GoAsk, HandlersSound
  <2>3. TypeOK'
    <3>1. flow' \in [op : {"none", "switch", "open", "exit", "close", "closeOthers", "closeAll"},
                     doc : DocOrNone, asked : DocOrNone, left : SUBSET Docs,
                     stage : {"none", "ask", "save", "go"}]
      BY <2>1 DEF TypeOK, DocOrNone
    <3>2. QED
      BY <1>1, <2>1, <3>1 DEF TypeOK
  <2>4. QED
    BY <1>1, <1>2, <2>1, <2>2, <2>3 DEF HandlersSound, Closing, TypeOK
<1>6. CASE GoCloseOthers
  <2>1. /\ Remove(tabs \ {flow.doc}) /\ tab' = Without(Docs \ {flow.doc})
        /\ active' = flow.doc /\ load' = NoLoad /\ flow' = NoFlow
        /\ UNCHANGED <<editing, buffer, owner, basis>>
        /\ flow.doc \in tabs /\ save.stage = "none"
    BY <1>2, <1>6 DEF GoCloseOthers, editor, HandlersSound
  <2>2. overlaps' \subseteq MayOverlap
    BY <1>6, OverlapType DEF GoCloseOthers
  <2>3. active' \in tabs' /\ active' # None
    BY <2>1, RemoveType, TextsType DEF TypeOK
  <2>4. TypeOK'
    BY <1>1, <2>1, <2>2, <2>3, RemoveType, WithoutType, NoFlowType, NoLoadType DEF TypeOK
  <2>5. QED
    BY <1>1, <2>1, <2>4, RemoveType, NoFlowType, NoLoadType DEF HandlersSound, Closing
<1>7. CASE GoCloseAll
  <2>1. /\ Remove(tabs) /\ tab' = Without(Docs) /\ flow' = NoFlow /\ UNCHANGED overlaps
        /\ ExitEdit /\ active' = None /\ load' = NoLoad /\ save.stage = "none"
    BY <1>2, <1>7 DEF GoCloseAll, Home
  <2>2. TypeOK'
    BY <1>1, <2>1, RemoveType, WithoutType, NoFlowType, NoLoadType, ExitEditType DEF TypeOK
  <2>3. QED
    BY <1>1, <2>1, <2>2, RemoveType, NoFlowType, NoLoadType DEF HandlersSound, Closing
<1>8. QED
  BY <1>3, <1>4, <1>5, <1>6, <1>7 DEF Go

LEMMA QuestionType ==
  ASSUME TypeInv,
         \/ \E d \in Docs : CloseTab(d) \/ CloseTabs("closeOthers", d)
         \/ CloseTabs("closeAll", None)
         \/ AnswerCancel \/ AnswerDiscard \/ AnswerSave
  PROVE  TypeInv'
<1> USE DEF TypeInv
<1>1. ASSUME \/ \E d \in Docs : CloseTab(d) \/ CloseTabs("closeOthers", d)
             \/ CloseTabs("closeAll", None)
             \/ AnswerCancel
      PROVE  TypeInv'
  <2>1. UNCHANGED <<disk, made, clock, tabs, tab, active, editing, buffer, owner, basis, bundle,
                    load, poll, save, drafts, overlaps>>
    BY <1>1 DEF CloseTab, CloseTabs, AnswerCancel, files, strip, editor
  <2>2. /\ flow' \in [op : {"none", "switch", "open", "exit", "close", "closeOthers", "closeAll"},
                      doc : DocOrNone, asked : DocOrNone, left : SUBSET Docs,
                      stage : {"none", "ask", "save", "go"}]
        /\ flow'.op \in {"switch", "open", "close", "closeOthers"} => flow'.doc \in tabs
        /\ flow'.left \subseteq tabs
        /\ flow'.left # {} => flow'.op \in {"closeOthers", "closeAll"}
        /\ flow'.stage = "ask" => flow'.asked \in tabs
        /\ flow' = NoFlow \/ save.stage = "none"
    <3>1. ASSUME NEW d \in Docs, CloseTab(d)
          PROVE  /\ flow' = [op |-> "close", doc |-> d, asked |-> d, left |-> {},
                             stage |-> IF tab[d].dirty THEN "ask" ELSE "go"]
                 /\ d \in tabs /\ save.stage = "none"
      BY <3>1 DEF CloseTab, NoFlow, Idle, NoSave
    <3>2. ASSUME NEW op \in {"closeOthers", "closeAll"}, NEW d \in DocOrNone, CloseTabs(op, d)
          PROVE  /\ flow' = [op |-> op, doc |-> d, asked |-> None, left |-> tabs \ {d},
                             stage |-> "go"]
                 /\ op = "closeOthers" => d \in tabs
                 /\ save.stage = "none"
      BY <3>2 DEF CloseTabs, NoFlow, Idle, NoSave
    <3>3. CASE \E d \in Docs : CloseTab(d)
      BY <3>1, <3>3 DEF DocOrNone
    <3>4. CASE (\E d \in Docs : CloseTabs("closeOthers", d)) \/ CloseTabs("closeAll", None)
      BY <3>2, <3>4 DEF DocOrNone, TypeOK
    <3>5. CASE AnswerCancel
      BY <3>5, NoFlowType DEF AnswerCancel
    <3>6. QED
      BY <1>1, <3>3, <3>4, <3>5
  <2>3. TypeOK'
    BY <2>1, <2>2 DEF TypeOK
  <2>4. flow'.stage \in {"none", "save"} \/ flow'.op = "open" \/ save.stage = "none"
    BY <2>2, NoFlowType
  <2>5. QED
    BY <2>1, <2>2, <2>3, <2>4 DEF HandlersSound, Closing
<1>2. CASE AnswerDiscard
  <2> DEFINE d == IF flow.op = "exit" THEN active ELSE flow.asked
  <2>1. /\ UNCHANGED <<disk, made, clock, tabs, active, bundle, load, poll, save, overlaps>>
        /\ flow.stage = "ask"
        /\ flow' = IF flow.op = "exit" THEN NoFlow ELSE [flow EXCEPT !.stage = "go"]
    BY <1>2 DEF AnswerDiscard, files
  <2>2. drafts' \in [Docs -> Texts]
    BY <1>2, TextsType DEF AnswerDiscard, TypeOK
  <2>3. /\ flow' \in [op : {"none", "switch", "open", "exit", "close", "closeOthers", "closeAll"},
                      doc : DocOrNone, asked : DocOrNone, left : SUBSET Docs,
                      stage : {"none", "ask", "save", "go"}]
        /\ flow'.stage # "ask" /\ flow'.left \subseteq flow.left
        /\ flow'.left # {} => flow'.op = flow.op
        /\ flow'.op \in {"none", flow.op} /\ (flow'.op # "none" => flow'.doc = flow.doc)
        /\ flow'.op = "none" => flow'.stage \in {"none", "go"}
        /\ flow'.op = "open" \/ flow'.stage = "none" \/ flow.op # "open"
    BY <2>1, NoFlowType DEF TypeOK
  <2>4. tab' \in [Docs -> Tab]
    <3>1. CASE Closing
      BY <1>2, <3>1 DEF AnswerDiscard, TypeOK
    <3>2. CASE ~Closing
      <4>1. tab' = [tab EXCEPT ![d].content = tab[d].original, ![d].dirty = FALSE]
        BY <1>2, <3>2 DEF AnswerDiscard
      <4>2. CASE d \in Docs
        <5>1. tab[d] \in Tab /\ tab[d].original \in Texts
          BY <4>2 DEF TypeOK, Tab
        <5>2. [tab[d] EXCEPT !.content = tab[d].original, !.dirty = FALSE] \in Tab
          BY <5>1, TabUpdate
        <5>3. tab' = [tab EXCEPT ![d] =
                        [tab[d] EXCEPT !.content = tab[d].original, !.dirty = FALSE]]
          BY <4>1, <4>2 DEF TypeOK
        <5>4. QED
          BY <5>2, <5>3 DEF TypeOK
      <4>3. CASE d \notin Docs
        BY <4>1, <4>3 DEF TypeOK
      <4>4. QED
        BY <4>2, <4>3
    <3>3. QED
      BY <3>1, <3>2
  <2>5. /\ editing' \in BOOLEAN /\ buffer' \in Texts /\ owner' \in DocOrNone /\ basis' \in Texts
        /\ (editing' <=> owner' # None) /\ (editing' => active # None)
    <3>1. CASE ExitEdit
      BY <3>1, ExitEditType
    <3>2. CASE UNCHANGED <<editing, buffer, owner, basis>>
      BY <3>2 DEF TypeOK
    <3>3. QED
      BY <1>2, <3>1, <3>2 DEF AnswerDiscard, editor
  <2>6. TypeOK'
    BY <2>1, <2>2, <2>3, <2>4, <2>5 DEF TypeOK
  <2>7. save.stage # "none" => flow.op = "open"
    BY <2>1 DEF HandlersSound
  <2>8. QED
    BY <2>1, <2>3, <2>6, <2>7 DEF HandlersSound, Closing
<1>3. CASE AnswerSave
  <2>1. /\ UNCHANGED <<disk, made, clock, tabs, bundle, load, poll, drafts>>
        /\ flow.stage = "ask" /\ save = NoSave
    BY <1>3 DEF AnswerSave, files
  <2>2. ASSUME NEW d \in Docs, NEW text \in Texts, NEW base \in Texts,
               BeginSave(d, text, base, TRUE)
        PROVE  /\ save' = [doc |-> d, text |-> text, basis |-> base, mtime |-> tab[d].mtime,
                           exit |-> TRUE, stage |-> "sent"]
               /\ save' \in [doc : DocOrNone, text : Texts, basis : Texts, mtime : Stamps,
                             exit : BOOLEAN,
                             stage : {"none", "sent", "written", "conflict", "rendering",
                                      "reloading"}]
               /\ overlaps' \subseteq MayOverlap
    <3>1. save' = [doc |-> d, text |-> text, basis |-> base, mtime |-> tab[d].mtime,
                   exit |-> TRUE, stage |-> "sent"]
      BY <2>2 DEF BeginSave
    <3>2. overlaps' \subseteq MayOverlap
      BY <2>2, OverlapType DEF BeginSave
    <3>3. tab[d].mtime \in Stamps
      BY DEF TypeOK, Tab
    <3>4. QED
      BY <3>1, <3>2, <3>3 DEF DocOrNone
  <2>3. flow' = [flow EXCEPT !.stage = "save"] \/ flow' = [flow EXCEPT !.stage = "go"]
          \/ flow' = NoFlow
    BY <1>3 DEF AnswerSave
  <2>4. /\ flow' \in [op : {"none", "switch", "open", "exit", "close", "closeOthers", "closeAll"},
                      doc : DocOrNone, asked : DocOrNone, left : SUBSET Docs,
                      stage : {"none", "ask", "save", "go"}]
        /\ flow'.stage # "ask" /\ flow'.left \subseteq flow.left
        /\ flow'.left # {} => flow'.op = flow.op
        /\ flow'.op \in {"none", flow.op} /\ (flow'.op # "none" => flow'.doc = flow.doc)
    BY <2>3, NoFlowType DEF TypeOK
  <2>5. CASE Closing
    <3>1. flow.asked \in tabs /\ flow.asked \in Docs /\ flow.asked # None
      BY <2>1, <2>5, TextsType DEF HandlersSound, TypeOK
    <3>2. /\ ActivateTabForSave(flow.asked)
          /\ BeginSave(flow.asked, buffer', basis', TRUE)
          /\ flow' = [flow EXCEPT !.stage = "save"]
      BY <1>3, <2>5 DEF AnswerSave
    <3>3. /\ editing' = TRUE /\ owner' = flow.asked /\ active' = flow.asked
          /\ buffer' \in Texts /\ basis' \in Texts
      BY <3>1, <3>2 DEF ActivateTabForSave, EditText, TypeOK, Tab
    <3>4. tab' \in [Docs -> Tab]
      <4>1. CASE active # flow.asked /\ Unsaved
        <5>1. active \in Docs
          BY <4>1, Edited DEF Unsaved
        <5>2. [tab[active] EXCEPT !.content = buffer, !.dirty = TRUE] \in Tab
          BY <5>1, TabUpdate DEF TypeOK
        <5>3. tab' = [tab EXCEPT ![active] =
                        [tab[active] EXCEPT !.content = buffer, !.dirty = TRUE]]
          BY <3>2, <4>1, <5>1 DEF ActivateTabForSave, TypeOK
        <5>4. QED
          BY <5>2, <5>3 DEF TypeOK
      <4>2. CASE ~(active # flow.asked /\ Unsaved)
        BY <3>2, <4>2 DEF ActivateTabForSave, TypeOK
      <4>3. QED
        BY <4>1, <4>2
    <3>5. TypeOK'
      BY <2>1, <2>2, <2>4, <3>1, <3>2, <3>3, <3>4 DEF TypeOK, DocOrNone
    <3>6. save'.doc = flow.asked /\ flow'.stage = "save"
      <4>1. save' = [doc |-> flow.asked, text |-> buffer', basis |-> basis',
                     mtime |-> tab[flow.asked].mtime, exit |-> TRUE, stage |-> "sent"]
        BY <2>2, <3>1, <3>2, <3>3
      <4>2. flow'.stage = "save"
        BY <3>2 DEF TypeOK
      <4>3. QED
        BY <4>1, <4>2
    <3>7. QED
      BY <2>1, <2>4, <3>1, <3>3, <3>5, <3>6 DEF HandlersSound, Closing
  <2>6. CASE ~Closing /\ editing
    <3>1. /\ BeginSave(active, buffer, basis, TRUE)
          /\ flow' = [flow EXCEPT !.stage = "save"]
          /\ UNCHANGED <<tab, active, editing, buffer, owner, basis>>
      BY <1>3, <2>6 DEF AnswerSave, editor
    <3>2. active \in Docs /\ active # None /\ buffer \in Texts /\ basis \in Texts
      BY <2>6, Edited, TextsType DEF TypeOK
    <3>3. TypeOK'
      BY <2>1, <2>2, <2>4, <3>1, <3>2 DEF TypeOK
    <3>4. save'.doc = active /\ flow'.stage = "save"
      <4>1. save' = [doc |-> active, text |-> buffer, basis |-> basis,
                     mtime |-> tab[active].mtime, exit |-> TRUE, stage |-> "sent"]
        BY <2>2, <3>1, <3>2
      <4>2. flow'.stage = "save"
        BY <3>1 DEF TypeOK
      <4>3. QED
        BY <4>1, <4>2
    <3>5. QED
      BY <2>1, <2>4, <3>1, <3>2, <3>3, <3>4 DEF HandlersSound, Closing
  <2>7. CASE ~Closing /\ ~editing
    <3>1. UNCHANGED <<tab, active, editing, buffer, owner, basis, save, overlaps>>
      BY <1>3, <2>7 DEF AnswerSave, editor
    <3>2. TypeOK'
      BY <2>1, <2>4, <3>1 DEF TypeOK
    <3>3. save'.stage = "none"
      BY <2>1, <3>1 DEF NoSave
    <3>4. QED
      BY <2>1, <2>4, <3>1, <3>2, <3>3 DEF HandlersSound, Closing
  <2>8. QED
    BY <2>5, <2>6, <2>7
<1>4. QED
  BY <1>1, <1>2, <1>3

LEMMA StepType == TypeInv /\ [Next]_vars => TypeInv'
<1> SUFFICES ASSUME TypeInv, [Next]_vars PROVE TypeInv'
  OBVIOUS
<1>1. CASE Next
  BY <1>1, EditorType, SaveType, LoadType, GoType, QuestionType
     DEF Next, User, Events, SaveSteps
<1>2. CASE UNCHANGED vars
  <2>1. UNCHANGED <<disk, made, clock, tabs, tab, active, editing, buffer, owner, basis, bundle,
                    load, poll, save, flow, drafts, overlaps>>
    BY <1>2 DEF vars, files, strip, editor
  <2>2. TypeOK'
    BY <2>1 DEF TypeInv, TypeOK
  <2>3. QED
    BY <2>1, <2>2 DEF TypeInv, HandlersSound, Closing
<1>3. QED
  BY <1>1, <1>2

\* Every variable keeps its type, over every set of documents and every number of texts
\* and writes, and the editor is never open without a tab under it.
THEOREM TypeCorrect == Spec => []TypeOK
<1>1. Spec => []TypeInv
  BY InitType, StepType, PTL DEF Spec
<1>2. TypeInv => TypeOK
  BY DEF TypeInv
<1>3. QED
  BY <1>1, <1>2, PTL
-----------------------------------------------------------------------------
(* What a step does to a tab that is there after it.                       *)

\* It keeps its original text and time, is marked when its text is another one, and gets
\* a new text from the editor only.
Kept(d) ==
  /\ d \in tabs
  /\ tab'[d].original = tab[d].original /\ tab'[d].mtime = tab[d].mtime
  /\ \/ tab'[d].dirty
     \/ tab'[d].content = tab'[d].original
     \/ tab'[d].dirty = tab[d].dirty /\ tab'[d].content = tab[d].content
     \/ "undo" \in overlaps'
  /\ \/ tab'[d].content \in {tab[d].content, tab[d].original}
     \/ /\ d = active /\ editing /\ (load.stage = "shown" => "load" \in overlaps')
        /\ \/ tab'[d].content = <<owner, made + 1>>
           \/ tab'[d].content = buffer /\ (buffer = Blank => "mount" \in overlaps')

\* The text and the mark of a tab are the same.
Same(d) == tab'[d].dirty = tab[d].dirty /\ tab'[d].content = tab[d].content

\* Or it gets what was loaded, or what was saved.
Refilled(d) == LoadArrives /\ d = load.doc /\ tab'[d] = Loaded(d)
Saved(d) ==
  /\ SaveAnswered /\ d = active
  /\ tab'[d] = [content |-> save.text, original |-> save.text, mtime |-> save.mtime,
                dirty |-> FALSE, changed |-> FALSE]

LEMMA ActivateKeeps ==
  ASSUME NEW now \in [Docs -> Tab], NEW a \in Docs, NEW d \in Docs,
         tab' = now \/ tab' = [now EXCEPT ![a] = [now[a] EXCEPT !.changed = FALSE]]
  PROVE  /\ tab'[d].original = now[d].original /\ tab'[d].mtime = now[d].mtime
         /\ tab'[d].dirty = now[d].dirty /\ tab'[d].content = now[d].content
BY DEF Tab

LEMMA GoKeeps ==
  ASSUME TypeInv, Go, NEW d \in tabs'
  PROVE  Kept(d) /\ Same(d)
<1> USE DEF TypeInv
<1>1. tab \in [Docs -> Tab] /\ tabs \subseteq Docs
  BY DEF TypeOK
<1>2. CASE GoSwitch
  <2>1. flow.doc \in Docs /\ tabs' = tabs /\ Activate(flow.doc, tab, load, flow.op = "open")
    BY <1>1, <1>2 DEF GoSwitch, HandlersSound
  <2>2. tab' = tab \/ tab' = [tab EXCEPT ![flow.doc] = [tab[flow.doc] EXCEPT !.changed = FALSE]]
    BY <1>1, <2>1 DEF Activate
  <2>3. QED
    BY <1>1, <2>1, <2>2, ActivateKeeps DEF Kept, Same
<1>3. CASE GoClose
  <2> DEFINE now == Without({flow.doc})
  <2>1. tabs' = tabs \ {flow.doc} /\ now \in [Docs -> Tab]
    BY <1>3, WithoutType DEF GoClose, Remove
  <2>2. d \in tabs /\ d \in Docs /\ now[d] = tab[d]
    BY <1>1, <2>1 DEF Without
  <2>3. \/ tab' = now
        \/ \E a \in Docs : tab' = [now EXCEPT ![a] = [now[a] EXCEPT !.changed = FALSE]]
    <3>1. ASSUME NEW a \in tabs \ {flow.doc}, Activate(a, now, NoLoad, FALSE)
          PROVE  \/ tab' = now
                 \/ tab' = [now EXCEPT ![a] = [now[a] EXCEPT !.changed = FALSE]]
      <4>1. [now EXCEPT ![a].changed = FALSE]
              = [now EXCEPT ![a] = [now[a] EXCEPT !.changed = FALSE]]
        BY <1>1, <2>1
      <4>2. QED
        BY <3>1, <4>1 DEF Activate
    <3>2. QED
      BY <1>1, <1>3, <3>1 DEF GoClose
  <2>4. /\ tab'[d].original = now[d].original /\ tab'[d].mtime = now[d].mtime
        /\ tab'[d].dirty = now[d].dirty /\ tab'[d].content = now[d].content
    BY <2>1, <2>2, <2>3, ActivateKeeps
  <2>5. QED
    BY <2>2, <2>4 DEF Kept, Same
<1>4. ASSUME NEW e \in Docs, GoAsk(e) PROVE Kept(d) /\ Same(d)
  BY <1>4 DEF GoAsk, strip, Kept, Same
<1>5. CASE GoCloseOthers
  <2>1. tabs' = tabs \ (tabs \ {flow.doc}) /\ tab' = Without(Docs \ {flow.doc})
    BY <1>5 DEF GoCloseOthers, Remove
  <2>2. d \in tabs /\ tab'[d] = tab[d]
    BY <1>1, <2>1 DEF Without
  <2>3. QED
    BY <2>2 DEF Kept, Same
<1>6. CASE GoCloseAll
  BY <1>6 DEF GoCloseAll, Remove
<1>7. QED
  BY <1>2, <1>3, <1>4, <1>5, <1>6 DEF Go

LEMMA TabStep ==
  ASSUME TypeInv, Next, NEW d \in tabs'
  PROVE  Kept(d) \/ Refilled(d) \/ Saved(d)
<1> USE DEF TypeInv
<1>1. tab \in [Docs -> Tab] /\ tabs \subseteq Docs
  BY DEF TypeOK
<1>2. ASSUME UNCHANGED <<tabs, tab>> PROVE Kept(d)
  BY <1>2 DEF Kept
<1>3. CASE Go
  BY <1>3, GoKeeps
<1>4. CASE (\E e \in Docs : Foreign(e)) \/ StartEdit \/ EditorMounted \/ GoHome \/ LeaveEdit
           \/ SaveKey
  BY <1>2, <1>4 DEF Foreign, StartEdit, EditorMounted, GoHome, LeaveEdit, SaveKey, strip
<1>5. CASE Type
  <2>1. active \in Docs /\ tabs' = tabs
    BY <1>5, Edited DEF Type
  <2>2. tab' = [tab EXCEPT ![active] =
                  [tab[active] EXCEPT !.content = <<owner, made + 1>>, !.dirty = TRUE]]
    BY <1>1, <1>5, <2>1 DEF Type
  <2>3. d \in tabs /\ d \in Docs
    BY <1>1, <2>1
  <2>4. CASE d = active
    <3>1. editing /\ (load.stage = "shown" => "load" \in overlaps')
      BY <1>5 DEF Type, Overlap, Mark
    <3>2. /\ tab'[d].original = tab[d].original /\ tab'[d].mtime = tab[d].mtime
          /\ tab'[d].dirty /\ tab'[d].content = <<owner, made + 1>>
      BY <1>1, <2>2, <2>3, <2>4 DEF Tab
    <3>3. QED
      BY <2>3, <2>4, <3>1, <3>2 DEF Kept
  <2>5. CASE d # active
    BY <1>1, <2>2, <2>3, <2>5 DEF Kept
  <2>6. QED
    BY <2>4, <2>5
<1>6. CASE Undo
  <2>1. active \in Docs /\ tabs' = tabs /\ "undo" \in overlaps'
    BY <1>6, Edited DEF Undo, Unsaved, Overlap
  <2>2. tab' = [tab EXCEPT ![active] = [tab[active] EXCEPT !.dirty = FALSE]]
    BY <1>1, <1>6, <2>1 DEF Undo
  <2>3. QED
    BY <1>1, <2>1, <2>2 DEF Kept, Tab
<1>7. CASE ServerSaves \/ SaveDone \/ SaveGivenUp \/ ConflictReload \/ ConflictReloaded
  BY <1>2, <1>7 DEF ServerSaves, SaveDone, SaveGivenUp, ConflictReload, ConflictReloaded, strip
<1>8. CASE SaveAnswered
  <2>1. tabs' = tabs
    BY <1>8 DEF SaveAnswered
  <2>2. CASE d = active
    BY <1>1, <1>8, <2>1, <2>2 DEF SaveAnswered, Saved
  <2>3. CASE d # active
    BY <1>1, <1>8, <2>1, <2>3 DEF SaveAnswered, Kept
  <2>4. QED
    BY <2>2, <2>3
<1>9. ASSUME tabs' = tabs,
             tab' = IF Unsaved THEN [tab EXCEPT ![active].dirty = TRUE] ELSE tab
      PROVE  Kept(d)
  <2>1. CASE Unsaved
    <3>1. active \in Docs
      BY <2>1, Edited DEF Unsaved
    <3>2. tab' = [tab EXCEPT ![active] = [tab[active] EXCEPT !.dirty = TRUE]]
      BY <1>1, <1>9, <2>1, <3>1
    <3>3. d \in tabs /\ d \in Docs
      BY <1>1, <1>9
    <3>4. CASE d = active
      BY <1>1, <3>2, <3>3, <3>4 DEF Kept, Tab
    <3>5. CASE d # active
      BY <1>1, <3>2, <3>3, <3>5 DEF Kept, Tab
    <3>6. QED
      BY <3>4, <3>5
  <2>2. CASE ~Unsaved
    BY <1>2, <1>9, <2>2
  <2>3. QED
    BY <2>1, <2>2
<1>10. ASSUME NEW e \in Docs, Open(e) \/ SwitchTab(e) PROVE Kept(d)
  BY <1>2, <1>9, <1>10 DEF Open, SwitchTab, Switch
<1>11. CASE LoadArrives
  <2>1. load.doc \in Docs
    BY <1>11 DEF LoadArrives, HandlersSound
  <2>2. tab' = [tab EXCEPT ![load.doc] = Loaded(load.doc)] \/ (tab' = tab /\ tabs' = tabs)
    BY <1>11 DEF LoadArrives
  <2>3. CASE tab' = tab /\ tabs' = tabs
    BY <1>2, <2>3
  <2>4. CASE tab' = [tab EXCEPT ![load.doc] = Loaded(load.doc)] /\ d = load.doc
    BY <1>1, <1>11, <2>1, <2>4 DEF Refilled
  <2>5. CASE tab' = [tab EXCEPT ![load.doc] = Loaded(load.doc)] /\ d # load.doc
    <3>1. d \in tabs
      BY <1>11, <2>5 DEF LoadArrives
    <3>2. QED
      BY <1>1, <2>5, <3>1 DEF Kept
  <2>6. QED
    BY <2>2, <2>3, <2>4, <2>5
<1>12. CASE LoadRendered
  BY <1>2, <1>12 DEF LoadRendered, strip
<1>13. ASSUME NEW e \in Docs, PollAsks(e) PROVE Kept(d)
  BY <1>2, <1>13 DEF PollAsks, strip
<1>14. CASE PollAnswered
  <2>1. poll.doc \in Docs /\ tabs' = tabs
    BY <1>14 DEF PollAnswered, TypeOK, HandlersSound
  <2>2. tab' \in {tab, [tab EXCEPT ![poll.doc].changed = TRUE]}
    BY <1>14 DEF PollAnswered
  <2>3. [tab EXCEPT ![poll.doc].changed = TRUE]
          = [tab EXCEPT ![poll.doc] = [tab[poll.doc] EXCEPT !.changed = TRUE]]
    BY <1>1, <2>1
  <2>4. QED
    BY <1>1, <1>2, <2>1, <2>2, <2>3 DEF Kept, Tab
<1>15. CASE \/ \E e \in Docs : CloseTab(e) \/ CloseTabs("closeOthers", e)
            \/ CloseTabs("closeAll", None) \/ AnswerCancel
  BY <1>2, <1>15 DEF CloseTab, CloseTabs, AnswerCancel, strip
<1>16. CASE AnswerDiscard
  <2> DEFINE e == IF flow.op = "exit" THEN active ELSE flow.asked
  <2>1. tabs' = tabs /\ d \in tabs /\ d \in Docs
    BY <1>1, <1>16 DEF AnswerDiscard
  <2>2. CASE tab' = [tab EXCEPT ![e].content = tab[e].original, ![e].dirty = FALSE]
    <3>1. CASE e \in Docs
      <4>1. tab' = [tab EXCEPT ![e] =
                      [tab[e] EXCEPT !.content = tab[e].original, !.dirty = FALSE]]
        BY <1>1, <2>2, <3>1
      <4>2. QED
        BY <1>1, <2>1, <3>1, <4>1 DEF Kept, Tab
    <3>2. CASE e \notin Docs
      BY <1>1, <1>2, <2>1, <2>2, <3>2
    <3>3. QED
      BY <3>1, <3>2
  <2>3. CASE tab' = tab
    BY <1>2, <2>1, <2>3
  <2>4. QED
    BY <1>16, <2>2, <2>3 DEF AnswerDiscard
<1>17. CASE AnswerSave
  <2>1. tabs' = tabs
    BY <1>17 DEF AnswerSave
  <2>2. CASE /\ Closing /\ Unsaved
             /\ tab' = [tab EXCEPT ![active].content = buffer, ![active].dirty = TRUE]
    <3>1. active \in Docs
      BY <2>2, Edited DEF Unsaved
    <3>2. tab' = [tab EXCEPT ![active] =
                    [tab[active] EXCEPT !.content = buffer, !.dirty = TRUE]]
      BY <1>1, <2>2, <3>1
    <3>3. /\ editing /\ (load.stage = "shown" => "load" \in overlaps')
          /\ buffer = Blank => "mount" \in overlaps'
      BY <1>17, <2>2 DEF Unsaved, AnswerSave, BeginSave, Overlap, Mark
    <3>4. d \in tabs /\ d \in Docs
      BY <1>1, <2>1
    <3>5. CASE d = active
      <4>1. /\ tab'[d].original = tab[d].original /\ tab'[d].mtime = tab[d].mtime
            /\ tab'[d].dirty /\ tab'[d].content = buffer
        BY <1>1, <3>2, <3>4, <3>5 DEF Tab
      <4>2. QED
        BY <3>3, <3>4, <3>5, <4>1 DEF Kept
    <3>6. CASE d # active
      BY <1>1, <3>2, <3>4, <3>6 DEF Kept
    <3>7. QED
      BY <3>5, <3>6
  <2>3. CASE tab' = tab
    BY <1>2, <2>1, <2>3
  <2>4. QED
    BY <1>17, <2>2, <2>3 DEF AnswerSave, ActivateTabForSave
<1>18. QED
  BY <1>3, <1>4, <1>5, <1>6, <1>7, <1>8, <1>10, <1>11, <1>12, <1>13, <1>14, <1>15, <1>16, <1>17
     DEF Next, User, Events, SaveSteps

\* The overlaps are never forgotten.
LEMMA OverlapsGrow == Next => overlaps \subseteq overlaps'
<1> SUFFICES ASSUME Next PROVE overlaps \subseteq overlaps'
  OBVIOUS
<1>1. CASE Go
  BY <1>1 DEF Go, GoSwitch, GoClose, GoAsk, GoCloseOthers, GoCloseAll, Overlap
<1>2. CASE User
  BY <1>2 DEF User, StartEdit, LeaveEdit, Type, Undo, SaveKey, GoHome, SaveGivenUp,
     ConflictReload, AnswerCancel, AnswerDiscard, AnswerSave, CloseTabs, CloseTab, Open,
     SwitchTab, Switch, BeginSave, Overlap
<1>3. CASE Events
  BY <1>3 DEF Events, SaveSteps, EditorMounted, ServerSaves, SaveAnswered, SaveDone,
     ConflictReloaded, LoadArrives, LoadRendered, PollAnswered, Foreign, PollAsks, Overlap
<1>4. QED
  BY <1>1, <1>2, <1>3 DEF Next

\* A tab without unsaved text shows what it takes to be in its file, unless changes were
\* undone one by one.
THEOREM CleanTabs == Spec => []CleanTabsShowTheirFile
<1>1. Init => CleanTabsShowTheirFile
  BY DEF Init, CleanTabsShowTheirFile
<1>2. TypeInv /\ CleanTabsShowTheirFile /\ [Next]_vars => CleanTabsShowTheirFile'
  <2> SUFFICES ASSUME TypeInv, CleanTabsShowTheirFile, [Next]_vars
               PROVE  CleanTabsShowTheirFile'
    OBVIOUS
  <2>1. CASE Next
    <3> SUFFICES ASSUME NoneOf({"undo"})', NEW d \in tabs', ~tab'[d].dirty
                 PROVE  tab'[d].content = tab'[d].original
      BY DEF CleanTabsShowTheirFile
    <3>1. NoneOf({"undo"}) /\ "undo" \notin overlaps'
      BY <2>1, OverlapsGrow DEF NoneOf
    <3>2. CASE Kept(d)
      BY <3>1, <3>2 DEF Kept, CleanTabsShowTheirFile
    <3>3. CASE Refilled(d)
      BY <3>3 DEF Refilled, Loaded
    <3>4. CASE Saved(d)
      BY <3>4 DEF Saved
    <3>5. QED
      BY <2>1, <3>2, <3>3, <3>4, TabStep
  <2>2. CASE UNCHANGED vars
    BY <2>2 DEF vars, strip, CleanTabsShowTheirFile, NoneOf
  <2>3. QED
    BY <2>1, <2>2
<1>3. Spec => []TypeInv
  BY InitType, StepType, PTL DEF Spec
<1>4. QED
  BY <1>1, <1>2, <1>3, PTL DEF Spec
-----------------------------------------------------------------------------
(* What a step does to the files, the load and the save.                   *)

\* A write leaves the tabs and the load alone, and is the server's, for the save, or
\* another program's.
Written ==
  /\ clock' = clock + 1 /\ UNCHANGED <<tabs, tab, load, overlaps>>
  /\ \E d \in Docs, x \in Texts :
       /\ disk' = [disk EXCEPT ![d] = [text |-> x, mtime |-> clock + 1]]
       /\ \/ UNCHANGED save /\ x[1] = d
          \/ /\ save.stage = "sent" /\ d = save.doc /\ x = save.text
             /\ disk[d].mtime = save.mtime
             /\ \A e \in Docs : drafts'[e] = IF drafts[e] = x THEN Blank ELSE drafts[e]
             /\ save' = [save EXCEPT !.stage = "written", !.mtime = clock + 1]

LEMMA DiskStep ==
  ASSUME TypeInv, Next
  PROVE  UNCHANGED <<disk, clock>> \/ Written
<1> USE DEF TypeInv
<1>1. ASSUME NEW d \in Docs, Foreign(d) PROVE Written
  <2>1. made + 1 \in 0..MaxTexts
    BY <1>1, EditorAssumption DEF Foreign, TypeOK
  <2>2. <<d, made + 1>> \in Texts
    BY <2>1, TextsType
  <2>3. QED
    BY <1>1, <2>2 DEF Foreign, Written, strip
<1>2. CASE ServerSaves
  <2>1. CASE disk[save.doc].mtime = save.mtime
    <3>1. save.doc \in Docs /\ save.text \in Texts
      BY <1>2 DEF ServerSaves, TypeOK, HandlersSound
    <3>2. QED
      BY <1>2, <2>1, <3>1 DEF ServerSaves, Written, strip
  <2>2. CASE disk[save.doc].mtime # save.mtime
    BY <1>2, <2>2 DEF ServerSaves
  <2>3. QED
    BY <2>1, <2>2
<1>3. CASE Go
  BY <1>3 DEF Go, files
<1>4. CASE User
  BY <1>4 DEF User, StartEdit, LeaveEdit, Type, Undo, SaveKey, GoHome, SaveGivenUp,
     ConflictReload, AnswerCancel, AnswerDiscard, AnswerSave, CloseTabs, CloseTab, Open,
     SwitchTab, files
<1>5. CASE Events
  BY <1>1, <1>2, <1>5 DEF Events, SaveSteps, EditorMounted, SaveAnswered, SaveDone,
     ConflictReloaded, LoadArrives, LoadRendered, PollAnswered, PollAsks, files
<1>6. QED
  BY <1>3, <1>4, <1>5 DEF Next

LEMMA LoadStep ==
  ASSUME TypeInv, Next
  PROVE  \/ load' = load
         \/ load' = NoLoad
         \/ /\ LoadArrives /\ load.stage = "read"
            /\ load' = [load EXCEPT !.stage = "shown"]
         \/ \E d \in Docs : load' = Fetch(d)
<1> USE DEF TypeInv
<1>1. CASE Go
  <2>1. ASSUME GoSwitch PROVE load' = load \/ (load' = Fetch(flow.doc) /\ flow.doc \in Docs)
    BY <2>1 DEF GoSwitch, Activate, HandlersSound, TypeOK
  <2>2. ASSUME GoClose PROVE load' \in {load, NoLoad} \/ \E d \in Docs : load' = Fetch(d)
    BY <2>2 DEF GoClose, Activate, Home, TypeOK
  <2>3. QED
    BY <1>1, <2>1, <2>2 DEF Go, GoAsk, GoCloseOthers, GoCloseAll, Home
<1>2. ASSUME NEW d \in Docs, Open(d) \/ SwitchTab(d) PROVE load' \in {NoLoad, Fetch(d)}
  BY <1>2 DEF Open, SwitchTab, Switch
<1>3. CASE ConflictReload
  <2>1. active \in Docs
    BY <1>3, TextsType DEF ConflictReload, TypeOK, HandlersSound
  <2>2. QED
    BY <1>3, <2>1 DEF ConflictReload
<1>4. CASE User
  BY <1>2, <1>3, <1>4 DEF User, StartEdit, LeaveEdit, Type, Undo, SaveKey, GoHome, Home,
     SaveGivenUp, AnswerCancel, AnswerDiscard, AnswerSave, CloseTabs, CloseTab
<1>5. CASE PollAnswered
  <2>1. poll.doc \in Docs
    BY <1>5 DEF PollAnswered, TypeOK, HandlersSound
  <2>2. QED
    BY <1>5, <2>1 DEF PollAnswered
<1>6. CASE Events
  BY <1>5, <1>6 DEF Events, SaveSteps, EditorMounted, ServerSaves, SaveAnswered, SaveDone,
     ConflictReloaded, LoadArrives, LoadRendered, PollAsks, Foreign
<1>7. QED
  BY <1>1, <1>4, <1>6 DEF Next

\* A save that begins sends the time of its tab, and either the text of the tab, opened on
\* what the tab takes to be in the file, or that of the editor of the tab.
Begins(d) ==
  /\ d \in tabs /\ UNCHANGED <<disk, clock, drafts>>
  /\ load.stage = "shown" => "load" \in overlaps'
  /\ save'.stage = "sent" /\ save'.doc = d /\ save'.mtime = tab[d].mtime
  /\ active' = d
  /\ \/ save'.text = tab[d].content /\ save'.basis = tab[d].original
     \/ /\ editing /\ d = active /\ save'.text = buffer /\ save'.basis = basis
        /\ buffer = Blank => "mount" \in overlaps'

LEMMA SaveStep ==
  ASSUME TypeInv, Next
  PROVE  \/ save' = save
         \/ save' = NoSave
         \/ /\ save.stage # "none"
            /\ \E s \in {"rendering", "conflict", "reloading"} :
                 /\ save' = [save EXCEPT !.stage = s]
                 /\ s = "rendering" => save.stage = "written"
                 /\ s = "conflict" => save.stage = "sent"
                 /\ s = "reloading" => drafts'[save.doc] = Blank
         \/ Written
         \/ \E d \in tabs : Begins(d)
<1> USE DEF TypeInv
<1>1. CASE Go
  BY <1>1 DEF Go
<1>2. CASE ServerSaves
  <2>1. CASE disk[save.doc].mtime # save.mtime
    BY <1>2, <2>1 DEF ServerSaves
  <2>2. CASE disk[save.doc].mtime = save.mtime
    <3>1. save.doc \in Docs /\ save.text \in Texts
      BY <1>2 DEF ServerSaves, TypeOK, HandlersSound
    <3>2. QED
      BY <1>2, <2>2, <3>1 DEF ServerSaves, Written, strip
  <2>3. QED
    BY <2>1, <2>2
<1>3. CASE Events
  BY <1>2, <1>3 DEF Events, SaveSteps, EditorMounted, SaveAnswered, SaveDone, EndSave,
     ConflictReloaded, LoadArrives, LoadRendered, PollAnswered, PollAsks, Foreign
<1>4. CASE SaveKey
  <2>1. active \in tabs
    BY <1>4, Edited DEF SaveKey
  <2>2. Begins(active)
    BY <1>4, <2>1 DEF SaveKey, BeginSave, Begins, Overlap, Mark, files, strip
  <2>3. QED
    BY <2>1, <2>2
<1>5. CASE AnswerSave
  <2>1. UNCHANGED <<disk, clock, drafts>> /\ flow.stage = "ask"
    BY <1>5 DEF AnswerSave, files
  <2>2. CASE Closing
    <3>1. flow.asked \in tabs
      BY <2>1, <2>2 DEF HandlersSound
    <3>2. /\ BeginSave(flow.asked, buffer', basis', TRUE) /\ active' = flow.asked
          /\ buffer' = tab[flow.asked].content /\ basis' = tab[flow.asked].original
      BY <1>5, <2>2 DEF AnswerSave, ActivateTabForSave, EditText
    <3>3. Begins(flow.asked)
      BY <2>1, <3>1, <3>2 DEF BeginSave, Begins, Overlap, Mark
    <3>4. QED
      BY <3>1, <3>3
  <2>3. CASE ~Closing /\ editing
    <3>1. active \in tabs /\ active' = active /\ BeginSave(active, buffer, basis, TRUE)
      BY <1>5, <2>3, Edited DEF AnswerSave
    <3>2. Begins(active)
      BY <2>1, <2>3, <3>1 DEF BeginSave, Begins, Overlap, Mark
    <3>3. QED
      BY <3>1, <3>2
  <2>4. CASE ~Closing /\ ~editing
    BY <1>5, <2>4 DEF AnswerSave
  <2>5. QED
    BY <2>2, <2>3, <2>4
<1>6. CASE ConflictReload
  <2>1. save.stage = "conflict" /\ drafts'[save.doc] = Blank
    BY <1>6 DEF ConflictReload, HandlersSound, TypeOK
  <2>2. save' = NoSave \/ save' = [save EXCEPT !.stage = "reloading"]
    BY <1>6 DEF ConflictReload, EndSave
  <2>3. QED
    BY <2>1, <2>2
<1>7. CASE User
  BY <1>4, <1>5, <1>6, <1>7 DEF User, StartEdit, LeaveEdit, Type, Undo, GoHome, SaveGivenUp,
     EndSave, AnswerCancel, AnswerDiscard, CloseTabs, CloseTab, Open, SwitchTab
<1>8. QED
  BY <1>1, <1>3, <1>7 DEF Next
-----------------------------------------------------------------------------
(* Times.                                                                  *)

StampInv == StampsSound /\ MtimeStandsForText

LEMMA InitStamps == Init => StampInv
<1> SUFFICES ASSUME Init PROVE StampInv
  OBVIOUS
<1>1. StampsSound
  BY DEF Init, StampsSound, NoLoad, NoSave
<1>2. MtimeStandsForText
  BY DEF Init, MtimeStandsForText
<1>3. QED
  BY <1>1, <1>2 DEF StampInv

\* The numbers.
LEMMA StampsAreNumbers ==
  ASSUME TypeInv
  PROVE  /\ clock \in Nat /\ load.mtime \in Nat /\ save.mtime \in Nat
         /\ \A d \in Docs : disk[d].mtime \in Nat /\ tab[d].mtime \in Nat
BY EditorAssumption DEF TypeInv, TypeOK, Tab, Stamps

LEMMA WrittenStamps ==
  ASSUME TypeInv, StampInv, Written
  PROVE  StampInv'
<1> USE DEF TypeInv
<1>1. clock' = clock + 1 /\ UNCHANGED <<tabs, tab, load>>
  BY DEF Written
<1>2. PICK d \in Docs, x \in Texts :
        /\ disk' = [disk EXCEPT ![d] = [text |-> x, mtime |-> clock + 1]]
        /\ \/ UNCHANGED save
           \/ /\ save.stage = "sent" /\ d = save.doc /\ x = save.text
              /\ save' = [save EXCEPT !.stage = "written", !.mtime = clock + 1]
  BY DEF Written
<1>3. /\ disk'[d] = [text |-> x, mtime |-> clock + 1]
      /\ \A e \in Docs : e # d => disk'[e] = disk[e]
  BY <1>2 DEF TypeOK
<1>4. clock \in Nat /\ clock + 1 > clock /\ clock + 1 \in Nat
  BY StampsAreNumbers
<1>5. \A e \in Docs : disk'[e].mtime <= clock'
  BY <1>1, <1>3, <1>4, StampsAreNumbers DEF StampInv, StampsSound
<1>6. \A e \in tabs' : tab'[e].mtime <= clock' /\ tab'[e].mtime # clock + 1
  BY <1>1, <1>4, StampsAreNumbers DEF StampInv, StampsSound, TypeOK
<1>7. load'.mtime <= clock' /\ load'.mtime # clock + 1
  BY <1>1, <1>4, StampsAreNumbers DEF StampInv, StampsSound
<1>8. load'.stage = "read" =>
        (load'.mtime = disk'[load'.doc].mtime => load'.text = disk'[load'.doc].text)
  <2>1. SUFFICES ASSUME load.stage = "read", load.mtime = disk'[load.doc].mtime
                 PROVE  load.text = disk'[load.doc].text
    BY <1>1
  <2>2. load.doc \in Docs /\ load.doc # d
    BY <1>1, <1>3, <1>7, <2>1 DEF HandlersSound
  <2>3. QED
    BY <1>3, <2>1, <2>2 DEF StampInv, StampsSound
<1>9. /\ save'.mtime <= clock'
      /\ save'.stage = "written" =>
           \A e \in Docs : save'.mtime = disk'[e].mtime =>
                             e = save'.doc /\ save'.text = disk'[e].text
  <2>1. CASE UNCHANGED save
    <3>1. save'.mtime <= clock' /\ save'.mtime # clock + 1
      BY <1>1, <1>4, <2>1, StampsAreNumbers DEF StampInv, StampsSound
    <3>2. QED
      BY <1>3, <2>1, <3>1 DEF StampInv, StampsSound
  <2>2. CASE /\ save.stage = "sent" /\ d = save.doc /\ x = save.text
             /\ save' = [save EXCEPT !.stage = "written", !.mtime = clock + 1]
    <3>1. save'.mtime = clock + 1 /\ save'.doc = d /\ save'.text = x
      BY <2>2 DEF TypeOK
    <3>2. \A e \in Docs : e # d => disk'[e].mtime # clock + 1
      BY <1>3, <1>4, StampsAreNumbers DEF StampInv, StampsSound
    <3>3. QED
      BY <1>1, <1>3, <1>4, <3>1, <3>2
  <2>3. QED
    BY <1>2, <2>1, <2>2
<1>10. MtimeStandsForText'
  <2>1. SUFFICES ASSUME NEW e \in tabs, tab[e].mtime = disk'[e].mtime
                 PROVE  tab[e].original = disk'[e].text
    BY <1>1 DEF MtimeStandsForText
  <2>2. e \in Docs /\ e # d
    BY <1>1, <1>3, <1>6, <2>1 DEF TypeOK
  <2>3. QED
    BY <1>3, <2>1, <2>2 DEF StampInv, MtimeStandsForText
<1>11. QED
  BY <1>5, <1>6, <1>7, <1>8, <1>9, <1>10 DEF StampInv, StampsSound

LEMMA UnwrittenStamps ==
  ASSUME TypeInv, StampInv, Next, UNCHANGED <<disk, clock>>, ~Written
  PROVE  StampInv'
<1> USE DEF TypeInv
<1>1. ASSUME NEW d \in tabs'
      PROVE  /\ tab'[d].mtime <= clock'
             /\ tab'[d].mtime = disk'[d].mtime => tab'[d].original = disk'[d].text
  <2>1. CASE Kept(d)
    BY <2>1 DEF Kept, StampInv, StampsSound, MtimeStandsForText
  <2>2. CASE Refilled(d)
    <3>1. load.stage = "read" /\ d = load.doc
      BY <2>2 DEF Refilled, LoadArrives
    <3>2. tab'[d].mtime = load.mtime /\ tab'[d].original = load.text
      BY <2>2 DEF Refilled, Loaded
    <3>3. QED
      BY <3>1, <3>2 DEF StampInv, StampsSound
  <2>3. CASE Saved(d)
    <3>1. save.stage = "written" /\ d \in Docs
      BY <2>3 DEF Saved, SaveAnswered, TypeOK
    <3>2. tab'[d].mtime = save.mtime /\ tab'[d].original = save.text
      BY <2>3 DEF Saved
    <3>3. QED
      BY <3>1, <3>2 DEF StampInv, StampsSound
  <2>4. QED
    BY <2>1, <2>2, <2>3, TabStep
<1>2. /\ load'.mtime <= clock'
      /\ load'.stage = "read" =>
           (load'.mtime = disk'[load'.doc].mtime => load'.text = disk'[load'.doc].text)
  <2>1. CASE load' = load
    BY <2>1 DEF StampInv, StampsSound
  <2>2. CASE load' = NoLoad
    BY <2>2, NoLoadType, StampsAreNumbers
  <2>3. CASE load' = [load EXCEPT !.stage = "shown"]
    BY <2>3 DEF StampInv, StampsSound, TypeOK
  <2>4. ASSUME NEW d \in Docs, load' = Fetch(d)
        PROVE  /\ load'.mtime <= clock'
               /\ load'.mtime = disk'[load'.doc].mtime => load'.text = disk'[load'.doc].text
    BY <2>4, FetchType DEF StampInv, StampsSound
  <2>5. QED
    BY <2>1, <2>2, <2>3, <2>4, LoadStep
<1>3. /\ save'.mtime <= clock'
      /\ save'.stage = "written" =>
           \A e \in Docs : save'.mtime = disk'[e].mtime =>
                             e = save'.doc /\ save'.text = disk'[e].text
  <2>1. CASE save' = save
    BY <2>1 DEF StampInv, StampsSound
  <2>2. CASE save' = NoSave
    BY <2>2, NoSaveType, StampsAreNumbers
  <2>3. ASSUME NEW s \in {"rendering", "conflict", "reloading"}, save' = [save EXCEPT !.stage = s]
        PROVE  save'.mtime <= clock' /\ save'.stage # "written"
    BY <2>3 DEF StampInv, StampsSound, TypeOK
  <2>4. ASSUME NEW d \in tabs, Begins(d)
        PROVE  save'.mtime <= clock' /\ save'.stage # "written"
    BY <2>4 DEF Begins, StampInv, StampsSound
  <2>5. QED
    BY <2>1, <2>2, <2>3, <2>4, SaveStep
<1>4. QED
  BY <1>1, <1>2, <1>3 DEF StampInv, StampsSound, MtimeStandsForText

LEMMA StampStep == TypeInv /\ StampInv /\ [Next]_vars => StampInv'
<1> SUFFICES ASSUME TypeInv, StampInv, [Next]_vars PROVE StampInv'
  OBVIOUS
<1>1. CASE Next
  BY <1>1, DiskStep, WrittenStamps, UnwrittenStamps
<1>2. CASE UNCHANGED vars
  BY <1>2 DEF vars, files, strip, StampInv, StampsSound, MtimeStandsForText
<1>3. QED
  BY <1>1, <1>2

\* The time a tab sends as the expected one stands for the text the tab takes to be in
\* the file, over loads, saves, automatic reloads and other programs in any order, even
\* those the code does not expect.
THEOREM MtimesStand == Spec => []MtimeStandsForText
<1>1. TypeInv /\ StampInv /\ [Next]_vars => StampInv'
  BY StampStep
<1>2. Spec => [](TypeInv /\ StampInv)
  BY InitType, StepType, InitStamps, <1>1, PTL DEF Spec
<1>3. StampInv => MtimeStandsForText
  BY DEF StampInv
<1>4. QED
  BY <1>2, <1>3, PTL
-----------------------------------------------------------------------------
(* What a save replaces.                                                   *)

LEMMA InitBasis == Init => BasisSound
BY DEF Init, BasisSound, NoSave

\* A step after which there is an editor has opened or filled it, or left it and the tab
\* under it alone.
LEMMA EditorStep ==
  ASSUME TypeInv, Next, NoneOf({"load", "others"})', editing', load'.stage # "shown"
  PROVE  \/ StartEdit \/ EditorMounted \/ Type \/ Undo \/ SaveAnswered
         \/ AnswerSave /\ Closing
         \/ /\ UNCHANGED <<active, editing, buffer, owner, basis>>
            /\ load.stage # "shown" /\ (LoadArrives => load.doc # active)
<1> DEFINE Alone == /\ UNCHANGED <<active, editing, buffer, owner, basis>>
                    /\ load.stage # "shown" /\ (LoadArrives => load.doc # active)
<1> USE DEF TypeInv
<1>1. "load" \notin overlaps' /\ "others" \notin overlaps'
  BY DEF NoneOf
<1>2. CASE LoadArrives
  <2>1. UNCHANGED <<editing, buffer, owner, basis>> /\ load.stage = "read"
    BY <1>2 DEF LoadArrives, editor
  <2>2. load.again
    BY <1>2 DEF LoadArrives, TypeOK
  <2>3. active' = active /\ load.doc # active
    BY <1>1, <1>2, <2>1, <2>2 DEF LoadArrives, Overlap, Mark
  <2>4. QED
    BY <2>1, <2>3
<1>3. ASSUME UNCHANGED <<active, editing, buffer, owner, basis>>, load.stage # "shown",
             ~LoadArrives
      PROVE  Alone
  BY <1>3
<1>4. CASE Go
  <2>1. ~LoadArrives
    <3>1. flow' # flow
      BY <1>4, NoFlowType DEF Go, GoSwitch, GoClose, GoAsk, GoCloseOthers, GoCloseAll, TypeOK
    <3>2. QED
      BY <3>1 DEF LoadArrives
  <2>2. CASE GoSwitch
    BY <2>2 DEF GoSwitch, Activate, ExitEdit
  <2>3. CASE GoClose
    BY <1>3, <2>1, <2>3 DEF GoClose, Activate, Home, ExitEdit, editor
  <2>4. ASSUME NEW d \in Docs, GoAsk(d) PROVE Alone
    BY <1>3, <2>1, <2>4 DEF GoAsk, strip, editor
  <2>5. CASE GoCloseOthers
    <3>1. UNCHANGED <<editing, buffer, owner, basis>> /\ active' = flow.doc
      BY <2>5 DEF GoCloseOthers, editor
    <3>2. active = flow.doc /\ load.stage # "shown"
      BY <1>1, <2>5, <3>1 DEF GoCloseOthers, Overlap, Mark, Astray
    <3>3. QED
      BY <1>3, <2>1, <3>1, <3>2
  <2>6. CASE GoCloseAll
    BY <2>6 DEF GoCloseAll, Home, ExitEdit
  <2>7. QED
    BY <1>4, <2>2, <2>3, <2>4, <2>5, <2>6 DEF Go
<1>5. CASE GoHome \/ ConflictReload \/ LoadRendered
  BY <1>5 DEF GoHome, Home, ConflictReload, LoadRendered, ExitEdit
<1>6. CASE ~LoadArrives
  <2>1. ASSUME NEW d \in Docs, Open(d) \/ SwitchTab(d)
        PROVE  Alone
    <3>1. active' = active /\ ~Astray /\ UNCHANGED <<editing, buffer, owner, basis>>
      BY <1>1, <2>1 DEF Open, SwitchTab, Switch, Overlap, Mark, ExitEdit, editor
    <3>2. load.stage # "shown"
      BY <3>1 DEF Astray
    <3>3. QED
      BY <1>3, <1>6, <3>1, <3>2
  <2>2. ASSUME load' = load, UNCHANGED <<active, editing, buffer, owner, basis>>
        PROVE  Alone
    BY <1>3, <1>6, <2>2
  <2>3. CASE LeaveEdit \/ SaveDone \/ PollAnswered \/ AnswerDiscard
    BY <2>2, <2>3 DEF LeaveEdit, SaveDone, PollAnswered, AnswerDiscard, ExitEdit, strip, editor
  <2>4. ASSUME \/ SaveKey \/ SaveGivenUp \/ AnswerCancel \/ CloseTabs("closeAll", None)
               \/ \E d \in Docs : CloseTab(d) \/ CloseTabs("closeOthers", d)
        PROVE  Alone
    BY <2>2, <2>4 DEF SaveKey, SaveGivenUp, AnswerCancel, CloseTabs, CloseTab, strip, editor
  <2>5. CASE ServerSaves \/ ConflictReloaded \/ \E d \in Docs : Foreign(d) \/ PollAsks(d)
    BY <2>2, <2>5 DEF ServerSaves, ConflictReloaded, Foreign, PollAsks, strip, editor
  <2>6. CASE AnswerSave /\ ~Closing
    BY <2>2, <2>6 DEF AnswerSave, editor
  <2>7. CASE User
    <3>1. CASE \E d \in Docs : Open(d) \/ SwitchTab(d) \/ CloseTab(d) \/ CloseTabs("closeOthers", d)
      BY <2>1, <2>4, <3>1
    <3>2. CASE \/ StartEdit \/ LeaveEdit \/ Type \/ Undo \/ SaveKey \/ GoHome \/ SaveGivenUp
               \/ ConflictReload \/ AnswerCancel \/ AnswerDiscard \/ AnswerSave
               \/ CloseTabs("closeAll", None)
      BY <1>5, <2>3, <2>4, <2>6, <3>2
    <3>3. QED
      BY <2>7, <3>1, <3>2 DEF User
  <2>8. CASE Events
    <3>1. QED
      BY <1>5, <1>6, <2>3, <2>5, <2>8 DEF Events, SaveSteps
  <2>9. QED
    BY <1>4, <2>7, <2>8 DEF Next
<1>7. QED
  BY <1>2, <1>6

\* The text the editor was opened on, over a step.
LEMMA EditorBasis ==
  ASSUME TypeInv, BasisSound, Next, NoneOf({"load", "others"})',
         editing', load'.stage # "shown"
  PROVE  basis' = tab'[active'].original
<1> USE DEF TypeInv
<1>1. NoneOf({"load", "others"})
  BY OverlapsGrow DEF NoneOf
<1>2. editing /\ load.stage # "shown" => basis = tab[active].original
  BY <1>1 DEF BasisSound
<1>3. active' \in tabs'
  <2>1. TypeInv'
    BY StepType
  <2>2. QED
    BY <2>1 DEF TypeOK
<1>4. Kept(active') \/ Refilled(active') \/ Saved(active')
  BY <1>3, TabStep
<1>5. CASE StartEdit
  BY <1>5 DEF StartEdit, EditText, strip
<1>6. CASE EditorMounted \/ Type \/ Undo
  <2>1. UNCHANGED <<active, editing, basis, load>> /\ (UNCHANGED save \/ UNCHANGED tab)
    BY <1>6 DEF EditorMounted, Type, Undo, strip
  <2>2. ~LoadArrives /\ ~SaveAnswered
    BY <1>6, NoLoadType DEF EditorMounted, Type, Undo, LoadArrives, SaveAnswered, TypeOK
  <2>3. QED
    BY <1>2, <1>4, <2>1, <2>2 DEF Kept, Refilled, Saved
<1>7. CASE SaveAnswered
  <2>1. active' = active /\ editing' = editing /\ basis' = save.text /\ active \in Docs
    BY <1>3, <1>7 DEF SaveAnswered, TypeOK
  <2>2. tab'[active].original = save.text
    BY <1>7, <2>1 DEF SaveAnswered, TypeOK
  <2>3. QED
    BY <2>1, <2>2
<1>8. CASE AnswerSave /\ Closing
  <2>1. active' = flow.asked /\ basis' = tab[flow.asked].original /\ load' = load
    BY <1>8 DEF AnswerSave, ActivateTabForSave, EditText
  <2>2. ~LoadArrives /\ ~SaveAnswered
    BY <1>8, <2>1, NoLoadType DEF AnswerSave, NoSave, SaveAnswered, LoadArrives, TypeOK
  <2>3. QED
    BY <1>4, <2>1, <2>2 DEF Kept, Refilled, Saved
<1>9. CASE /\ UNCHANGED <<active, editing, basis>> /\ load.stage # "shown"
           /\ LoadArrives => load.doc # active
  <2>1. CASE SaveAnswered
    BY <1>7, <2>1
  <2>2. CASE ~SaveAnswered
    BY <1>2, <1>4, <1>9, <2>2 DEF Kept, Refilled, Saved
  <2>3. QED
    BY <2>1, <2>2
<1>10. QED
  BY <1>5, <1>6, <1>7, <1>8, <1>9, EditorStep

\* The basis of a save, over a step.
LEMMA SaveBasis ==
  ASSUME TypeInv, StampInv, BasisSound, Next, NoneOf({"load", "others"})',
         save'.stage = "sent", save'.mtime = disk'[save'.doc].mtime
  PROVE  save'.basis = disk'[save'.doc].text
<1> USE DEF TypeInv
<1>1. NoneOf({"load", "others"}) /\ "load" \notin overlaps'
  BY OverlapsGrow DEF NoneOf
<1>2. CASE Written
  <2>1. PICK d \in Docs, x \in Texts :
          /\ disk' = [disk EXCEPT ![d] = [text |-> x, mtime |-> clock + 1]]
          /\ \/ UNCHANGED save
             \/ save' = [save EXCEPT !.stage = "written", !.mtime = clock + 1]
    BY <1>2 DEF Written
  <2>2. UNCHANGED save
    BY <2>1 DEF TypeOK
  <2>3. save.mtime <= clock /\ save.mtime # clock + 1 /\ save.doc \in Docs
    BY <2>2, StampsAreNumbers DEF StampInv, StampsSound, HandlersSound
  <2>4. save.doc # d
    BY <2>1, <2>2, <2>3 DEF TypeOK
  <2>5. disk'[save.doc] = disk[save.doc]
    BY <2>1, <2>3, <2>4 DEF TypeOK
  <2>6. QED
    BY <1>1, <2>2, <2>5 DEF BasisSound
<1>3. CASE UNCHANGED <<disk, clock>> /\ ~Written
  <2>1. CASE save' = save
    BY <1>1, <1>3, <2>1 DEF BasisSound
  <2>2. ASSUME NEW d \in tabs, Begins(d)
        PROVE  save'.basis = disk'[save'.doc].text
    <3>1. /\ save'.doc = d /\ tab[d].mtime = disk[d].mtime /\ load.stage # "shown"
          /\ save'.basis = tab[d].original \/ (editing /\ d = active /\ save'.basis = basis)
      BY <1>1, <1>3, <2>2 DEF Begins
    <3>2. save'.basis = tab[d].original
      BY <1>1, <3>1 DEF BasisSound
    <3>3. QED
      BY <1>3, <3>1, <3>2 DEF StampInv, MtimeStandsForText
  <2>3. QED
    BY <1>3, <2>1, <2>2, SaveStep, NoSaveType DEF TypeOK
<1>4. QED
  BY <1>2, <1>3, DiskStep

LEMMA BasisStep == TypeInv /\ StampInv /\ BasisSound /\ [Next]_vars => BasisSound'
<1> SUFFICES ASSUME TypeInv, StampInv, BasisSound, [Next]_vars PROVE BasisSound'
  OBVIOUS
<1>1. CASE Next
  BY <1>1, EditorBasis, SaveBasis DEF BasisSound
<1>2. CASE UNCHANGED vars
  BY <1>2 DEF vars, files, strip, editor, BasisSound, NoneOf
<1>3. QED
  BY <1>1, <1>2

\* A save replaces the text the editor was opened on, and no later one that the user never
\* saw, though tabs are reloaded behind the editor's back.
THEOREM SavesReplaceRead == Spec => SavesReplaceWhatWasRead
<1>1. TypeInv /\ BasisSound /\ [Next]_vars
        => [NoneOf({"load", "others"}) /\ save.stage = "sent" /\ save'.stage = "written" =>
              disk[save.doc].text = save.basis]_vars
  <2> SUFFICES ASSUME TypeInv, BasisSound, Next, NoneOf({"load", "others"}),
                      save.stage = "sent", save'.stage = "written"
               PROVE  disk[save.doc].text = save.basis
    BY DEF vars
  <2>1. Written
    BY SaveStep, NoSaveType DEF Begins, TypeInv, TypeOK
  <2>2. save.mtime = disk[save.doc].mtime
    BY <2>1 DEF Written
  <2>3. QED
    BY <2>2 DEF BasisSound
<1>2. Spec => [](TypeInv /\ StampInv /\ BasisSound)
  BY InitType, StepType, InitStamps, StampStep, InitBasis, BasisStep, PTL DEF Spec
<1>3. QED
  BY <1>1, <1>2, PTL DEF Spec, SavesReplaceWhatWasRead
-----------------------------------------------------------------------------
(* Documents stay apart.                                                   *)

Astrays == {"load", "mount", "others"}

\* What is on its way to a file or a tab was written for it, and so was what the editor
\* of the active tab holds, unless it is still empty.
HandlersApart ==
  /\ load.stage # "none" => load.text[1] = load.doc
  /\ save.stage # "none" => save.doc = active /\ save.text[1] = active
  /\ editing /\ load.stage # "shown" => owner = active /\ buffer[1] \in {None, active}

TextsApart ==
  /\ \A d \in Docs : disk[d].text[1] = d
  /\ \A d \in tabs : tab[d].original[1] = d /\ tab[d].content[1] = d

Apart == NoneOf(Astrays) => TextsApart /\ HandlersApart

LEMMA InitApart == Init => Apart
BY DEF Init, Apart, TextsApart, HandlersApart, First, NoLoad, NoSave

LEMMA BlankText ==
  ASSUME NEW t \in Texts, t[1] = None
  PROVE  t = Blank
BY TextsType DEF Texts, Blank

\* The document of a save is the active one, as long as there is a save.
LEMMA SaveStays ==
  ASSUME TypeInv, Next, "load" \notin overlaps', save.stage # "none", save'.stage # "none"
  PROVE  active' = active
<1> USE DEF TypeInv
<1>1. save # NoSave /\ ~Idle
  BY NoSaveType DEF Idle
<1>2. CASE Go
  <2>1. GoSwitch
    BY <1>2, TextsType DEF Go, GoClose, GoAsk, GoCloseOthers, GoCloseAll, HandlersSound
  <2>2. QED
    BY <1>1, <2>1 DEF GoSwitch, Overlap, Mark
<1>3. CASE User
  BY <1>1, <1>3 DEF User, StartEdit, LeaveEdit, Type, Undo, SaveKey, GoHome, SaveGivenUp,
     ConflictReload, AnswerCancel, AnswerDiscard, AnswerSave, CloseTabs, CloseTab, Open,
     SwitchTab, strip
<1>4. CASE LoadArrives
  BY <1>1, <1>4 DEF LoadArrives, Overlap, Mark
<1>5. CASE Events
  BY <1>4, <1>5 DEF Events, SaveSteps, EditorMounted, ServerSaves, SaveAnswered, SaveDone,
     ConflictReloaded, LoadRendered, PollAnswered, PollAsks, Foreign, strip
<1>6. QED
  BY <1>2, <1>3, <1>5 DEF Next

LEMMA ApartStep == TypeInv /\ Apart /\ [Next]_vars => Apart'
<1> SUFFICES ASSUME TypeInv, Apart, [Next]_vars PROVE Apart'
  OBVIOUS
<1> USE DEF TypeInv
<1>1. CASE UNCHANGED vars
  BY <1>1 DEF vars, files, strip, editor, Apart, TextsApart, HandlersApart, NoneOf
<1>2. CASE Next
  <2> SUFFICES ASSUME NoneOf(Astrays)' PROVE TextsApart' /\ HandlersApart'
    BY DEF Apart
  <2>1. /\ TextsApart /\ HandlersApart
        /\ "load" \notin overlaps' /\ "mount" \notin overlaps' /\ "others" \notin overlaps'
    BY <1>2, OverlapsGrow DEF NoneOf, Astrays, Apart
  <2>2. TypeInv' /\ tabs \subseteq Docs
    BY StepType DEF TypeOK
  <2>3. \A d \in Docs : disk'[d].text[1] = d
    <3>1. CASE Written
      <4>1. PICK d \in Docs, x \in Texts :
              /\ disk' = [disk EXCEPT ![d] = [text |-> x, mtime |-> clock + 1]]
              /\ x[1] = d \/ (save.stage = "sent" /\ d = save.doc /\ x = save.text)
        BY <3>1 DEF Written
      <4>2. x[1] = d
        BY <2>1, <4>1 DEF HandlersApart
      <4>3. QED
        BY <2>1, <4>1, <4>2 DEF TextsApart, TypeOK
    <3>2. CASE UNCHANGED disk
      BY <2>1, <3>2 DEF TextsApart
    <3>3. QED
      BY <1>2, <3>1, <3>2, DiskStep
  <2>4. ASSUME NEW d \in tabs'
        PROVE  tab'[d].original[1] = d /\ tab'[d].content[1] = d
    <3>1. CASE Kept(d)
      <4>1. tab[d].original[1] = d /\ tab[d].content[1] = d /\ d \in Docs
        BY <2>1, <2>2, <3>1 DEF Kept, TextsApart
      <4>2. CASE tab'[d].content \in {tab[d].content, tab[d].original}
        BY <3>1, <4>1, <4>2 DEF Kept
      <4>3. CASE /\ d = active /\ editing /\ load.stage # "shown"
                 /\ \/ tab'[d].content = <<owner, made + 1>>
                    \/ tab'[d].content = buffer /\ buffer # Blank
        <5>1. owner = d /\ buffer[1] \in {None, d}
          BY <2>1, <4>3 DEF HandlersApart
        <5>2. buffer # Blank => buffer[1] = d
          BY <5>1, BlankText DEF TypeOK
        <5>3. QED
          BY <3>1, <4>1, <4>3, <5>1, <5>2 DEF Kept
      <4>4. QED
        BY <2>1, <3>1, <4>2, <4>3 DEF Kept
    <3>2. CASE Refilled(d)
      BY <2>1, <3>2 DEF Refilled, LoadArrives, Loaded, HandlersApart
    <3>3. CASE Saved(d)
      BY <2>1, <3>3 DEF Saved, SaveAnswered, HandlersApart
    <3>4. QED
      BY <1>2, <3>1, <3>2, <3>3, TabStep
  <2>5. load'.stage # "none" => load'.text[1] = load'.doc
    <3>1. CASE load' = load
      BY <2>1, <3>1 DEF HandlersApart
    <3>2. CASE load' = NoLoad
      BY <3>2, NoLoadType
    <3>3. CASE load.stage = "read" /\ load' = [load EXCEPT !.stage = "shown"]
      BY <2>1, <3>3 DEF HandlersApart, TypeOK
    <3>4. ASSUME NEW d \in Docs, load' = Fetch(d)
          PROVE  load'.text[1] = load'.doc
      BY <2>1, <3>4, FetchType DEF TextsApart
    <3>5. QED
      BY <1>2, <3>1, <3>2, <3>3, <3>4, LoadStep
  <2>6. save'.stage # "none" => save'.doc = active' /\ save'.text[1] = active'
    <3>1. SUFFICES ASSUME save'.stage # "none"
                   PROVE  save'.doc = active' /\ save'.text[1] = active'
      OBVIOUS
    <3>2. ASSUME NEW d \in tabs, Begins(d)
          PROVE  save'.doc = active' /\ save'.text[1] = active'
      <4>1. save'.doc = d /\ active' = d /\ load.stage # "shown" /\ d \in Docs
        BY <2>1, <2>2, <3>2 DEF Begins
      <4>2. CASE save'.text = tab[d].content
        BY <2>1, <4>1, <4>2 DEF TextsApart
      <4>3. CASE editing /\ d = active /\ save'.text = buffer /\ buffer # Blank
        <5>1. buffer[1] \in {None, d}
          BY <2>1, <4>1, <4>3 DEF HandlersApart
        <5>2. buffer[1] = d
          BY <4>3, <5>1, BlankText DEF TypeOK
        <5>3. QED
          BY <4>1, <4>3, <5>2
      <4>4. QED
        BY <2>1, <3>2, <4>2, <4>3 DEF Begins
    <3>3. ASSUME save'.doc = save.doc, save'.text = save.text, save.stage # "none"
          PROVE  save'.doc = active' /\ save'.text[1] = active'
      BY <1>2, <2>1, <3>1, <3>3, SaveStays DEF HandlersApart
    <3>4. CASE save' = save
      BY <3>1, <3>3, <3>4
    <3>5. CASE save' = NoSave
      BY <3>1, <3>5, NoSaveType
    <3>6. CASE /\ save.stage # "none"
               /\ \E s \in {"rendering", "conflict", "reloading"} :
                    save' = [save EXCEPT !.stage = s]
      <4>1. save'.doc = save.doc /\ save'.text = save.text
        BY <3>6 DEF TypeOK
      <4>2. QED
        BY <3>3, <3>6, <4>1
    <3>7. CASE Written
      <4>1. save'.doc = save.doc /\ save'.text = save.text /\ save.stage # "none"
        BY <3>1, <3>7 DEF Written, TypeOK
      <4>2. QED
        BY <3>3, <4>1
    <3>8. QED
      BY <1>2, <3>2, <3>4, <3>5, <3>6, <3>7, SaveStep
  <2>7. editing' /\ load'.stage # "shown" => owner' = active' /\ buffer'[1] \in {None, active'}
    <3>1. SUFFICES ASSUME editing', load'.stage # "shown"
                   PROVE  owner' = active' /\ buffer'[1] \in {None, active'}
      OBVIOUS
    <3>2. /\ \A d \in tabs : tab[d].original[1] = d /\ tab[d].content[1] = d
          /\ editing /\ load.stage # "shown" => owner = active /\ buffer[1] \in {None, active}
      BY <2>1 DEF TextsApart, HandlersApart
    <3>3. CASE StartEdit
      BY <3>2, <3>3 DEF StartEdit, EditText, strip, Blank, TypeOK
    <3>4. CASE EditorMounted \/ Undo
      <4>1. UNCHANGED <<active, owner, load>> /\ editing /\ buffer' = tab[active].original
        BY <3>1, <3>4 DEF EditorMounted, Undo, Unsaved, strip
      <4>2. QED
        BY <3>1, <3>2, <4>1, Edited
    <3>5. CASE Type
      BY <3>1, <3>2, <3>5 DEF Type
    <3>6. CASE SaveAnswered
      BY <3>1, <3>2, <3>6 DEF SaveAnswered
    <3>7. CASE AnswerSave /\ Closing
      BY <3>2, <3>7 DEF AnswerSave, ActivateTabForSave, EditText, HandlersSound
    <3>8. CASE UNCHANGED <<active, editing, buffer, owner, basis>> /\ load.stage # "shown"
      BY <3>1, <3>2, <3>8
    <3>9. NoneOf({"load", "others"})'
      BY <2>1 DEF NoneOf
    <3>10. QED
      BY <1>2, <3>1, <3>3, <3>4, <3>5, <3>6, <3>7, <3>8, <3>9, EditorStep
  <2>8. QED
    BY <2>3, <2>4, <2>5, <2>6, <2>7 DEF TextsApart, HandlersApart
<1>3. QED
  BY <1>1, <1>2

\* Neither a file nor a tab ever gets the text that was written for another document, over
\* switching, closing and saving background tabs with one editor for all of them.
THEOREM StayApart == Spec => []DocumentsStayApart
<1>1. Spec => [](TypeInv /\ Apart)
  BY InitType, StepType, InitApart, ApartStep, PTL DEF Spec
<1>2. Apart => DocumentsStayApart
  BY DEF Apart, TextsApart, DocumentsStayApart, Astrays
<1>3. QED
  BY <1>1, <1>2, PTL
-----------------------------------------------------------------------------
(* Drafts are kept.                                                        *)

DraftOverlaps == {"load", "mount", "others", "resume", "type"}

\* A document that is loaded as a new one has no tab.
Fresh ==
  /\ load.stage = "read" /\ ~load.again => load.doc \notin tabs
  /\ flow.op # "none" => flow.stage # "none"
  /\ flow.op = "closeAll" => flow.doc = None

InTabs ==
  \A d \in Docs : drafts[d] # Blank => d \in tabs /\ tab[d].dirty /\ tab[d].content = drafts[d]

\* There is no draft before CodeMirror is loaded, the draft of the active tab is what its
\* editor holds, and a new document has none.
InEditor ==
  /\ bundle # "here" => \A d \in Docs : drafts[d] = Blank
  /\ editing /\ load.stage # "shown" => drafts[active] \in {Blank, buffer}
  /\ load.stage = "shown" => active = load.doc /\ drafts[active] = Blank
  /\ flow.op \in {"switch", "open"} => load.stage # "shown"

\* A save sends the draft of its document.
InSave ==
  /\ save.stage \in {"sent", "conflict"} => drafts[save.doc] \in {Blank, save.text}
  /\ save.stage \in {"written", "rendering", "reloading"} => drafts[save.doc] = Blank

\* Tabs are closed when their draft was saved or given up, or they had none.
InFlow ==
  /\ flow.stage = "save" => save.stage # "none" /\ (Closing => save.doc = flow.asked)
  /\ flow.op = "close" => flow.doc = flow.asked
  /\ flow.op = "close" /\ flow.stage = "go" => drafts[flow.doc] = Blank
  /\ flow.op \in {"closeOthers", "closeAll"} =>
       \A d \in tabs \ (flow.left \union {flow.doc}) :
         drafts[d] = Blank \/ (flow.stage \in {"ask", "save"} /\ d = flow.asked)

DraftInv == Fresh /\ (NoneOf(DraftOverlaps) => InTabs /\ InEditor /\ InSave /\ InFlow)

LEMMA InitDrafts == Init => DraftInv
<1> SUFFICES ASSUME Init PROVE DraftInv
  OBVIOUS
<1>1. Fresh
  BY DEF Init, Fresh, NoLoad, NoFlow
<1>2. InTabs /\ InEditor /\ InSave /\ InFlow
  BY DEF Init, InTabs, InEditor, InSave, InFlow, NoLoad, NoSave, NoFlow, Closing
<1>3. QED
  BY <1>1, <1>2 DEF DraftInv

\* A draft changes by typing, or is gone.
LEMMA DraftsStep ==
  ASSUME TypeInv, Next, ~Type, NEW d \in Docs
  PROVE  drafts'[d] \in {drafts[d], Blank}
<1>1. drafts \in [Docs -> Texts]
  BY DEF TypeInv, TypeOK
<1>2. CASE Go
  BY <1>2 DEF Go
<1>3. CASE User
  BY <1>1, <1>3 DEF User, StartEdit, LeaveEdit, Undo, SaveKey, GoHome, SaveGivenUp,
     ConflictReload, AnswerCancel, AnswerDiscard, AnswerSave, CloseTabs, CloseTab, Open,
     SwitchTab
<1>4. CASE Events
  BY <1>1, <1>4 DEF Events, SaveSteps, EditorMounted, ServerSaves, SaveAnswered, SaveDone,
     ConflictReloaded, LoadArrives, LoadRendered, PollAnswered, PollAsks, Foreign
<1>5. QED
  BY <1>2, <1>3, <1>4 DEF Next

\* A tab is new by a load only.
LEMMA TabsStep ==
  ASSUME Next
  PROVE  tabs' \subseteq tabs \/ (LoadArrives /\ tabs' = tabs \union {load.doc})
<1>1. CASE Go
  BY <1>1 DEF Go, GoSwitch, GoClose, GoAsk, GoCloseOthers, GoCloseAll, Remove, strip
<1>2. CASE User
  BY <1>2 DEF User, StartEdit, LeaveEdit, Type, Undo, SaveKey, GoHome, SaveGivenUp,
     ConflictReload, AnswerCancel, AnswerDiscard, AnswerSave, CloseTabs, CloseTab, Open,
     SwitchTab, strip
<1>3. CASE Events
  BY <1>3 DEF Events, SaveSteps, EditorMounted, ServerSaves, SaveAnswered, SaveDone,
     ConflictReloaded, LoadArrives, LoadRendered, PollAnswered, PollAsks, Foreign, strip
<1>4. QED
  BY <1>1, <1>2, <1>3 DEF Next

LEMMA FlowStep ==
  ASSUME TypeInv, Next
  PROVE  \/ flow' = flow
         \/ flow' = NoFlow
         \/ flow.stage # "none" /\ \E s \in {"save", "go"} : flow' = [flow EXCEPT !.stage = s]
         \/ \E d \in Docs : GoAsk(d)
         \/ \E d \in Docs : CloseTab(d) \/ CloseTabs("closeOthers", d)
         \/ CloseTabs("closeAll", None)
         \/ \E d \in Docs, op \in {"switch", "open"} : Switch(op, d)
         \/ flow' = [op |-> "exit", doc |-> None, asked |-> active, left |-> {}, stage |-> "ask"]
<1>1. CASE Go
  BY <1>1 DEF Go, GoSwitch, GoClose, GoCloseOthers, GoCloseAll
<1>2. CASE SaveDone \/ SaveGivenUp \/ ConflictReload \/ ConflictReloaded
  <2>1. UNCHANGED flow \/ \E ok, still : EndSave(ok, still)
    BY <1>2 DEF SaveDone, SaveGivenUp, ConflictReload, ConflictReloaded
  <2>2. QED
    BY <2>1 DEF EndSave
<1>3. CASE User
  BY <1>2, <1>3 DEF User, StartEdit, LeaveEdit, NoFlow, Type, Undo, SaveKey, GoHome,
     AnswerCancel, AnswerDiscard, AnswerSave, Open, SwitchTab
<1>4. CASE Events
  BY <1>2, <1>4 DEF Events, SaveSteps, EditorMounted, ServerSaves, SaveAnswered,
     LoadArrives, LoadRendered, PollAnswered, PollAsks, Foreign
<1>5. QED
  BY <1>1, <1>3, <1>4 DEF Next

LEMMA FreshStep ==
  ASSUME TypeInv, Fresh, Next
  PROVE  Fresh'
<1> USE DEF TypeInv
<1>1. load'.stage = "read" /\ ~load'.again => load'.doc \notin tabs'
  <2>1. SUFFICES ASSUME load'.stage = "read", ~load'.again
                 PROVE  load'.doc \notin tabs'
    OBVIOUS
  <2>2. ~LoadArrives
    BY <2>1, NoLoadType DEF LoadArrives, TypeOK
  <2>3. tabs' \subseteq tabs
    BY <2>2, TabsStep
  <2>4. load' = load \/ \E d \in Docs : load' = Fetch(d)
    BY <2>1, NoLoadType, LoadStep DEF TypeOK
  <2>5. ASSUME NEW d \in Docs, load' = Fetch(d) PROVE load'.doc \notin tabs'
    <3>1. load'.again = (d \in tabs) /\ load'.doc = d
      BY <2>5 DEF Fetch
    <3>2. QED
      BY <2>1, <2>3, <3>1
  <2>6. CASE load' = load
    BY <2>1, <2>3, <2>6 DEF Fresh
  <2>7. QED
    BY <2>4, <2>5, <2>6
<1>2. /\ flow'.op # "none" => flow'.stage # "none"
      /\ flow'.op = "closeAll" => flow'.doc = None
  <2>1. CASE flow.stage # "none" /\ \E s \in {"save", "go"} : flow' = [flow EXCEPT !.stage = s]
    BY <2>1 DEF TypeOK, Fresh
  <2>2. ASSUME NEW d \in Docs, GoAsk(d)
        PROVE  flow'.stage # "none" /\ (flow'.op = "closeAll" => flow'.doc = None)
    BY <2>2 DEF GoAsk, TypeOK, Fresh
  <2>3. ASSUME NEW d \in Docs, CloseTab(d)
        PROVE  flow'.stage # "none" /\ flow'.op = "close"
    BY <2>3 DEF CloseTab, NoFlow
  <2>4. ASSUME NEW d, NEW op, CloseTabs(op, d)
        PROVE  flow'.stage # "none" /\ flow'.op = op /\ flow'.doc = d
    BY <2>4 DEF CloseTabs, NoFlow
  <2>5. ASSUME NEW d, NEW op \in {"switch", "open"}, Switch(op, d)
        PROVE  flow'.stage # "none" /\ flow'.op # "closeAll"
    BY <2>5 DEF Switch, NoFlow
  <2>6. CASE flow' = flow \/ flow' = NoFlow
    BY <2>6 DEF Fresh, NoFlow
  <2>7. QED
    BY <2>1, <2>2, <2>3, <2>4, <2>5, <2>6, FlowStep
<1>3. QED
  BY <1>1, <1>2 DEF Fresh

Before == /\ TypeInv /\ HandlersApart /\ Fresh /\ InTabs /\ InEditor /\ InSave /\ InFlow
          /\ Next /\ overlaps' \intersect DraftOverlaps = {}

LEMMA NoOverlap ==
  ASSUME overlaps' \intersect DraftOverlaps = {}
  PROVE  /\ "load" \notin overlaps' /\ "mount" \notin overlaps' /\ "others" \notin overlaps'
         /\ "resume" \notin overlaps' /\ "type" \notin overlaps'
         /\ NoneOf({"load", "others"})'
BY DEF DraftOverlaps, NoneOf

\* Typing: the editor is that of the active tab, and no save is under way.
LEMMA TypeAlone ==
  ASSUME Before, Type
  PROVE  /\ owner = active /\ active \in tabs /\ active \in Docs /\ load.stage # "shown"
         /\ save.stage = "none" /\ flow.op \notin {"closeOthers", "closeAll"}
         /\ ~(flow.op = "close" /\ flow.stage = "go")
         /\ bundle = "here"
<1>1. load.stage # "shown" /\ save = NoSave
  BY NoOverlap DEF Before, Type, Overlap, Mark
<1>2. active \in tabs /\ active \in Docs /\ owner = active
  BY <1>1, Edited DEF Before, Type, TypeInv, HandlersApart
<1>3. save.stage = "none" /\ flow.stage # "save"
  BY <1>1, NoSaveType DEF Before, InFlow
<1>4. flow.stage \notin {"ask", "go"}
  BY NoFlowType DEF Before, Next, Go, User, Type, GoSwitch, GoClose, GoAsk, GoCloseOthers,
     GoCloseAll, TypeInv, TypeOK
<1>5. flow.stage = "none"
  BY <1>3, <1>4 DEF Before, TypeInv, TypeOK
<1>6. QED
  BY <1>1, <1>2, <1>3, <1>5 DEF Before, Fresh, Type

LEMMA InTabsStep == Before => InTabs'
<1> SUFFICES ASSUME Before PROVE InTabs'
  OBVIOUS
<1> USE DEF TypeInv
<1>1. /\ TypeInv /\ Next /\ InTabs /\ Fresh
      /\ tab \in [Docs -> Tab] /\ tabs \subseteq Docs /\ drafts \in [Docs -> Texts]
  BY DEF Before, TypeOK
<1>2. CASE Type
  <2>1. owner = active /\ active \in tabs /\ active \in Docs
    BY <1>2, TypeAlone
  <2>2. /\ tab' = [tab EXCEPT ![active] =
                     [tab[active] EXCEPT !.content = <<owner, made + 1>>, !.dirty = TRUE]]
        /\ drafts' = [drafts EXCEPT ![active] = <<owner, made + 1>>] /\ tabs' = tabs
    BY <1>1, <1>2, <2>1 DEF Type
  <2>3. ASSUME NEW d \in Docs, drafts'[d] # Blank
        PROVE  d \in tabs' /\ tab'[d].dirty /\ tab'[d].content = drafts'[d]
    <3>1. CASE d = active
      BY <1>1, <2>1, <2>2, <3>1 DEF Tab
    <3>2. CASE d # active
      BY <1>1, <2>1, <2>2, <2>3, <3>2 DEF InTabs
    <3>3. QED
      BY <3>1, <3>2
  <2>4. QED
    BY <2>3 DEF InTabs
<1>3. CASE ~Type
  <2> SUFFICES ASSUME NEW d \in Docs, drafts'[d] # Blank
               PROVE  d \in tabs' /\ tab'[d].dirty /\ tab'[d].content = drafts'[d]
    BY DEF InTabs
  <2>1. /\ drafts'[d] = drafts[d] /\ drafts[d] # Blank
        /\ d \in tabs /\ tab[d].dirty /\ tab[d].content = drafts[d]
    BY <1>1, <1>3, DraftsStep DEF InTabs
  <2> DEFINE Still == d \in tabs' /\ tab'[d].dirty /\ tab'[d].content = tab[d].content
  <2>2. SUFFICES Still
    BY <2>1
  <2>3. ASSUME UNCHANGED <<tabs, tab>> PROVE Still
    BY <2>1, <2>3
  <2>4. CASE Go
    <3>1. d \in tabs'
      <4>1. flow.stage = "go"
        BY <2>4 DEF Go
      <4>2. CASE GoSwitch \/ \E e \in Docs : GoAsk(e)
        BY <2>1, <4>2 DEF GoSwitch, GoAsk, strip
      <4>3. CASE GoClose
        BY <2>1, <4>1, <4>3 DEF GoClose, Remove, Before, InFlow
      <4>4. CASE GoCloseOthers \/ GoCloseAll
        <5>1. flow.op \in {"closeOthers", "closeAll"} /\ \A e \in flow.left : ~tab[e].dirty
          BY <4>4 DEF GoCloseOthers, GoCloseAll
        <5>2. d = flow.doc
          BY <2>1, <4>1, <5>1 DEF Before, InFlow
        <5>3. flow.op # "closeAll"
          BY <1>1, <5>2, TextsType DEF Fresh
        <5>4. QED
          BY <2>1, <4>4, <5>2, <5>3 DEF GoCloseOthers, GoCloseAll, Remove
      <4>5. QED
        BY <2>4, <4>2, <4>3, <4>4 DEF Go
    <3>2. QED
      BY <1>1, <2>1, <2>4, <3>1, GoKeeps DEF Same
  <2>5. CASE Undo
    <3>1. active \in Docs /\ tabs' = tabs /\ drafts' = [drafts EXCEPT ![owner] = Blank]
      BY <1>1, <2>5, Edited DEF Undo, Unsaved
    <3>2. drafts'[active] = Blank
      <4>1. CASE load.stage = "shown"
        BY <1>1, <1>3, <3>1, <4>1, DraftsStep DEF Before, InEditor
      <4>2. CASE load.stage # "shown"
        BY <1>1, <2>5, <3>1, <4>2 DEF Before, HandlersApart, Undo, Unsaved
      <4>3. QED
        BY <4>1, <4>2
    <3>3. d # active
      BY <2>1, <3>2
    <3>4. QED
      BY <1>1, <2>1, <2>5, <3>1, <3>3 DEF Undo
  <2>6. CASE SaveAnswered
    <3>1. drafts[active] = Blank /\ tabs' = tabs
      BY <2>6 DEF SaveAnswered, Before, InSave, HandlersApart
    <3>2. d # active
      BY <2>1, <3>1
    <3>3. QED
      BY <1>1, <2>1, <2>6, <3>1, <3>2 DEF SaveAnswered
  <2>7. ASSUME NEW e \in Docs, Open(e) \/ SwitchTab(e) PROVE Still
    <3>1. tabs' = tabs /\ (tab' = tab \/ tab' = [tab EXCEPT ![active].dirty = TRUE])
      BY <2>7 DEF Open, SwitchTab, Switch
    <3>2. CASE tab' = [tab EXCEPT ![active].dirty = TRUE]
      <4>1. CASE d = active
        <5>1. tab' = [tab EXCEPT ![d] = [tab[d] EXCEPT !.dirty = TRUE]]
          BY <1>1, <3>2, <4>1
        <5>2. QED
          BY <1>1, <2>1, <3>1, <5>1 DEF Tab
      <4>2. CASE d # active
        BY <1>1, <2>1, <3>1, <3>2, <4>2
      <4>3. QED
        BY <4>1, <4>2
    <3>3. QED
      BY <2>3, <3>1, <3>2
  <2>8. CASE LoadArrives
    <3>1. load.doc # d
      <4>1. CASE load.again
        BY <2>1, <2>8, <4>1, NoOverlap DEF Before, LoadArrives, Overlap, Mark
      <4>2. CASE ~load.again
        BY <1>1, <2>1, <2>8, <4>2 DEF Fresh, LoadArrives
      <4>3. QED
        BY <4>1, <4>2
    <3>2. d \in tabs' /\ tab'[d] = tab[d]
      BY <1>1, <2>1, <2>8, <3>1 DEF LoadArrives
    <3>3. QED
      BY <2>1, <3>2
  <2>9. CASE PollAnswered
    <3>1. tabs' = tabs /\ (tab' = tab \/ tab' = [tab EXCEPT ![poll.doc].changed = TRUE])
      BY <2>9 DEF PollAnswered
    <3>2. CASE tab' = [tab EXCEPT ![poll.doc].changed = TRUE]
      <4>1. CASE d = poll.doc
        <5>1. tab' = [tab EXCEPT ![d] = [tab[d] EXCEPT !.changed = TRUE]]
          BY <1>1, <3>2, <4>1
        <5>2. QED
          BY <1>1, <2>1, <3>1, <5>1 DEF Tab
      <4>2. CASE d # poll.doc
        BY <1>1, <2>1, <3>1, <3>2, <4>2
      <4>3. QED
        BY <4>1, <4>2
    <3>3. QED
      BY <2>3, <3>1, <3>2
  <2>10. CASE AnswerDiscard
    <3> DEFINE e == IF flow.op = "exit" THEN active ELSE flow.asked
    <3>1. tabs' = tabs /\ drafts' = [drafts EXCEPT ![e] = Blank]
      BY <2>10 DEF AnswerDiscard
    <3>2. d # e
      BY <1>1, <2>1, <3>1
    <3>3. \/ tab' = tab
          \/ tab' = [tab EXCEPT ![e].content = tab[e].original, ![e].dirty = FALSE]
      BY <2>10 DEF AnswerDiscard
    <3>4. tab'[d] = tab[d]
      BY <1>1, <3>2, <3>3
    <3>5. QED
      BY <2>1, <3>1, <3>4
  <2>11. CASE AnswerSave
    <3>1. tabs' = tabs
      BY <2>11 DEF AnswerSave
    <3>2. CASE /\ Closing /\ Unsaved
               /\ tab' = [tab EXCEPT ![active].content = buffer, ![active].dirty = TRUE]
      <4>1. CASE d = active
        <5>1. load.stage # "shown"
          BY <2>11, <3>2, NoOverlap DEF Before, AnswerSave, BeginSave, Overlap, Mark
        <5>2. drafts[d] = buffer
          BY <2>1, <3>2, <4>1, <5>1 DEF Before, InEditor, Unsaved
        <5>3. tab' = [tab EXCEPT ![d] = [tab[d] EXCEPT !.content = buffer, !.dirty = TRUE]]
          BY <1>1, <3>2, <4>1
        <5>4. QED
          BY <1>1, <2>1, <3>1, <5>2, <5>3 DEF Tab
      <4>2. CASE d # active
        BY <1>1, <2>1, <3>1, <3>2, <4>2
      <4>3. QED
        BY <4>1, <4>2
    <3>3. CASE tab' = tab
      BY <2>3, <3>1, <3>3
    <3>4. QED
      BY <2>11, <3>2, <3>3 DEF AnswerSave, ActivateTabForSave
  <2>12. CASE User
    <3>1. CASE \E e \in Docs : CloseTab(e) \/ CloseTabs("closeOthers", e)
      BY <2>3, <3>1 DEF CloseTab, CloseTabs, strip
    <3>2. CASE \/ StartEdit \/ LeaveEdit \/ SaveKey \/ GoHome \/ SaveGivenUp \/ ConflictReload
               \/ AnswerCancel \/ CloseTabs("closeAll", None)
      BY <2>3, <3>2 DEF StartEdit, LeaveEdit, SaveKey, GoHome, SaveGivenUp, ConflictReload,
         AnswerCancel, CloseTabs, strip
    <3>3. QED
      BY <1>3, <2>5, <2>7, <2>10, <2>11, <2>12, <3>1, <3>2 DEF User
  <2>13. CASE Events
    <3>1. CASE \/ EditorMounted \/ ServerSaves \/ SaveDone \/ ConflictReloaded \/ LoadRendered
               \/ \E e \in Docs : Foreign(e) \/ PollAsks(e)
      BY <2>3, <3>1 DEF EditorMounted, ServerSaves, SaveDone, ConflictReloaded, LoadRendered,
         Foreign, PollAsks, strip
    <3>2. QED
      BY <2>6, <2>8, <2>9, <2>13, <3>1 DEF Events, SaveSteps
  <2>14. QED
    BY <1>1, <2>4, <2>12, <2>13 DEF Next
<1>4. QED
  BY <1>2, <1>3

\* A tab stays active while a new document is on the page.
LEMMA ShownStays ==
  ASSUME Before, load' = load, load.stage = "shown"
  PROVE  active' = active
<1> USE DEF TypeInv
<1>1. TypeInv /\ Next /\ load # NoLoad /\ "load" \notin overlaps' /\ "others" \notin overlaps'
  BY NoOverlap, NoLoadType DEF Before
<1>2. load' # NoLoad /\ \A d : load' # Fetch(d)
  BY <1>1 DEF Fetch
<1>3. CASE Go
  <2>1. ~GoSwitch
    BY DEF GoSwitch, Before, InEditor
  <2>2. ASSUME GoClose PROVE active' = active
    BY <1>2, <2>2 DEF GoClose, Activate, Home
  <2>3. QED
    BY <1>2, <1>3, <2>1, <2>2 DEF Go, GoAsk, GoCloseOthers, GoCloseAll, Home, strip
<1>4. CASE AnswerSave
  BY <1>1, <1>4 DEF AnswerSave, BeginSave, Overlap, Mark
<1>5. CASE User
  BY <1>2, <1>4, <1>5 DEF User, StartEdit, LeaveEdit, Type, Undo, SaveKey, GoHome, Home,
     SaveGivenUp, ConflictReload, AnswerCancel, AnswerDiscard, CloseTabs, CloseTab, Open,
     SwitchTab, strip
<1>6. CASE Events
  BY <1>6 DEF Events, SaveSteps, EditorMounted, ServerSaves, SaveAnswered, SaveDone,
     ConflictReloaded, LoadArrives, LoadRendered, PollAnswered, PollAsks, Foreign, strip
<1>7. QED
  BY <1>1, <1>3, <1>5, <1>6 DEF Next

\* CodeMirror is not unloaded.
LEMMA BundleStep == Next => bundle' = bundle \/ bundle' = "here" \/ bundle # "here"
<1> SUFFICES ASSUME Next PROVE bundle' = bundle \/ bundle' = "here" \/ bundle # "here"
  OBVIOUS
<1>1. CASE Go
  BY <1>1 DEF Go
<1>2. CASE User
  BY <1>2 DEF User, StartEdit, LeaveEdit, Type, Undo, SaveKey, GoHome, SaveGivenUp,
     ConflictReload, AnswerCancel, AnswerDiscard, AnswerSave, CloseTabs, CloseTab, Open,
     SwitchTab
<1>3. CASE Events
  BY <1>3 DEF Events, SaveSteps, EditorMounted, ServerSaves, SaveAnswered, SaveDone,
     ConflictReloaded, LoadArrives, LoadRendered, PollAnswered, PollAsks, Foreign
<1>4. QED
  BY <1>1, <1>2, <1>3 DEF Next

LEMMA InEditorStep == Before => InEditor'
<1> SUFFICES ASSUME Before PROVE InEditor'
  OBVIOUS
<1> USE DEF TypeInv
<1>1. /\ TypeInv /\ Next /\ InTabs /\ Fresh /\ InEditor
      /\ tabs \subseteq Docs /\ drafts \in [Docs -> Texts] /\ drafts' \in [Docs -> Texts]
      /\ active' \in tabs' \union {None} /\ tabs' \subseteq Docs
  BY StepType DEF Before, TypeOK
<1>2. bundle' # "here" => \A d \in Docs : drafts'[d] = Blank
  <2>1. SUFFICES ASSUME bundle' # "here", NEW d \in Docs PROVE drafts'[d] = Blank
    OBVIOUS
  <2>2. bundle # "here"
    BY <1>1, <2>1, BundleStep
  <2>3. ~Type
    BY <2>2 DEF Type
  <2>4. QED
    BY <1>1, <2>2, <2>3, DraftsStep DEF InEditor
<1>3. editing' /\ load'.stage # "shown" => drafts'[active'] \in {Blank, buffer'}
  <2>1. SUFFICES ASSUME editing', load'.stage # "shown"
                 PROVE  drafts'[active'] \in {Blank, buffer'}
    OBVIOUS
  <2>2. active' \in Docs
    <3>1. TypeInv'
      BY <1>1, StepType
    <3>2. QED
      BY <2>1, <3>1 DEF TypeOK
  <2>3. CASE StartEdit
    <3>1. ~tab[active].dirty /\ UNCHANGED <<active, drafts>>
      BY <2>3, NoOverlap DEF Before, StartEdit, Overlap, Mark, strip
    <3>2. QED
      BY <1>1, <2>2, <3>1 DEF InTabs
  <2>4. CASE EditorMounted
    BY <1>1, <2>2, <2>4 DEF EditorMounted, InEditor
  <2>5. CASE Type
    BY <1>1, <2>5, TypeAlone DEF Type
  <2>6. CASE Undo
    <3>1. UNCHANGED <<active, load, owner>> /\ editing
      BY <2>6 DEF Undo, Unsaved
    <3>2. owner = active
      BY <2>1, <3>1 DEF Before, HandlersApart
    <3>3. QED
      BY <1>1, <2>2, <2>6, <3>1, <3>2 DEF Undo
  <2>7. CASE AnswerSave /\ Closing
    <3>1. active' = flow.asked /\ buffer' = tab[flow.asked].content /\ drafts' = drafts
      BY <2>7 DEF AnswerSave, ActivateTabForSave, EditText
    <3>2. QED
      BY <1>1, <2>2, <3>1 DEF InTabs
  <2>8. CASE ~Type /\ UNCHANGED <<active, editing, buffer>> /\ load.stage # "shown"
    <3>1. drafts[active] \in {Blank, buffer}
      BY <1>1, <2>1, <2>8 DEF InEditor
    <3>2. QED
      BY <1>1, <2>2, <2>8, <3>1, DraftsStep
  <2>9. CASE SaveAnswered
    BY <1>1, <2>1, <2>9 DEF SaveAnswered, InEditor
  <2>10. QED
    BY <1>1, <2>1, <2>3, <2>4, <2>5, <2>6, <2>7, <2>8, <2>9, EditorStep, NoOverlap DEF Before
<1>4. load'.stage = "shown" => active' = load'.doc /\ drafts'[active'] = Blank
  <2>1. SUFFICES ASSUME load'.stage = "shown"
                 PROVE  active' = load'.doc /\ drafts'[active'] = Blank
    OBVIOUS
  <2>2. CASE load' = load
    <3>1. active' = active /\ active = load.doc /\ drafts[active] = Blank
      BY <1>1, <2>1, <2>2, ShownStays DEF InEditor
    <3>2. ~Type
      BY <2>1, <2>2, TypeAlone
    <3>3. active \in Docs
      BY <1>1, <2>1, <2>2, <3>1 DEF HandlersSound
    <3>4. QED
      BY <1>1, <2>2, <3>1, <3>2, <3>3, DraftsStep
  <2>3. CASE LoadArrives
    <3>1. load.doc \in Docs /\ load.doc \notin tabs
      BY <1>1, <2>1, <2>3, NoLoadType DEF LoadArrives, Fresh, HandlersSound
    <3>2. active' = load'.doc /\ load'.doc = load.doc /\ drafts' = drafts
      BY <1>1, <2>1, <2>3, NoLoadType DEF LoadArrives, TypeOK
    <3>3. QED
      BY <1>1, <3>1, <3>2 DEF InTabs
  <2>4. load' = load \/ LoadArrives
    BY <1>1, <2>1, LoadStep, NoLoadType, FetchType
  <2>5. QED
    BY <2>2, <2>3, <2>4
<1>5. flow'.op \in {"switch", "open"} => load'.stage # "shown"
  <2>1. SUFFICES ASSUME flow'.op \in {"switch", "open"}, load'.stage = "shown" PROVE FALSE
    OBVIOUS
  <2>2. CASE LoadArrives
    <3>1. flow' = flow /\ ~load.again
      BY <2>1, <2>2, NoLoadType DEF LoadArrives
    <3>2. flow = NoFlow
      BY <2>2, <3>1, NoOverlap DEF Before, LoadArrives, Overlap, Mark, Idle
    <3>3. QED
      BY <2>1, <3>1, <3>2, NoFlowType
  <2>3. CASE load' = load
    <3>1. flow.op \notin {"switch", "open"}
      BY <1>1, <2>1, <2>3 DEF InEditor
    <3>2. ASSUME NEW d, NEW op, Switch(op, d) PROVE FALSE
      BY <2>1, <3>2, NoLoadType DEF Switch
    <3>3. CASE \E s \in {"save", "go"} : flow' = [flow EXCEPT !.stage = s]
      BY <1>1, <2>1, <3>1, <3>3 DEF TypeOK
    <3>4. ASSUME NEW d,
                 GoAsk(d) \/ CloseTab(d) \/ CloseTabs("closeOthers", d)
                   \/ CloseTabs("closeAll", None)
          PROVE  FALSE
      BY <1>1, <2>1, <3>1, <3>4 DEF GoAsk, CloseTab, CloseTabs, NoFlow, TypeOK
    <3>5. QED
      BY <1>1, <2>1, <3>1, <3>2, <3>3, <3>4, FlowStep, NoFlowType
  <2>4. load' = load \/ LoadArrives
    BY <1>1, <2>1, LoadStep, NoLoadType, FetchType
  <2>5. QED
    BY <2>2, <2>3, <2>4
<1>6. QED
  BY <1>2, <1>3, <1>4, <1>5 DEF InEditor

LEMMA InSaveStep == Before => InSave'
<1> SUFFICES ASSUME Before PROVE InSave'
  OBVIOUS
<1> USE DEF TypeInv
<1>1. /\ TypeInv /\ Next /\ InTabs /\ InEditor /\ InSave
      /\ tabs \subseteq Docs /\ "load" \notin overlaps'
  BY NoOverlap DEF Before, TypeOK
<1>2. save.stage # "none" => save.doc \in Docs /\ ~Type
  BY <1>1, TypeAlone DEF HandlersSound
<1>3. CASE save' = save
  <2>1. save.stage # "none" => drafts'[save.doc] \in {drafts[save.doc], Blank}
    BY <1>1, <1>2, DraftsStep
  <2>2. QED
    BY <1>1, <1>3, <2>1 DEF InSave
<1>4. CASE save' = NoSave
  BY <1>4, NoSaveType DEF InSave
<1>5. ASSUME save.stage # "none", NEW s \in {"rendering", "conflict", "reloading"},
             save' = [save EXCEPT !.stage = s],
             s = "rendering" => save.stage = "written",
             s = "conflict" => save.stage = "sent",
             s = "reloading" => drafts'[save.doc] = Blank
      PROVE  InSave'
  <2>1. save'.stage = s /\ save'.doc = save.doc /\ save'.text = save.text
    BY <1>1, <1>5 DEF TypeOK
  <2>2. drafts'[save.doc] \in {drafts[save.doc], Blank}
    BY <1>1, <1>2, <1>5, DraftsStep
  <2>3. QED
    BY <1>1, <1>5, <2>1, <2>2 DEF InSave
<1>6. CASE Written /\ save' # save
  <2>1. /\ save.stage = "sent" /\ save'.stage = "written" /\ save'.doc = save.doc
        /\ drafts'[save.doc] = IF drafts[save.doc] = save.text THEN Blank ELSE drafts[save.doc]
    <3>1. /\ save.stage = "sent"
          /\ \A e \in Docs : drafts'[e] = IF drafts[e] = save.text THEN Blank ELSE drafts[e]
          /\ save' = [save EXCEPT !.stage = "written", !.mtime = clock + 1]
      BY <1>6 DEF Written
    <3>2. save'.stage = "written" /\ save'.doc = save.doc
      BY <1>1, <3>1 DEF TypeOK
    <3>3. QED
      BY <1>2, <3>1, <3>2
  <2>2. QED
    BY <1>1, <2>1 DEF InSave
<1>7. ASSUME NEW d \in tabs, Begins(d) PROVE InSave'
  <2>1. /\ drafts' = drafts /\ save'.doc = d /\ save'.stage = "sent" /\ load.stage # "shown"
        /\ d \in Docs
    BY <1>1, <1>7 DEF Begins
  <2>2. drafts[d] \in {Blank, save'.text}
    BY <1>1, <1>7, <2>1 DEF Begins, InTabs, InEditor
  <2>3. QED
    BY <2>1, <2>2 DEF InSave
<1>8. QED
  BY <1>1, <1>3, <1>4, <1>5, <1>6, <1>7, SaveStep

\* A handler that waits for a save goes on only with the end of the save.
LEMMA SaveUnderFlow ==
  ASSUME Before, flow.stage = "save", flow' = flow
  PROVE  save'.stage # "none" /\ save'.doc = save.doc
<1> USE DEF TypeInv
<1>1. /\ TypeInv /\ Next /\ save.stage # "none" /\ save # NoSave
      /\ save \in [doc : DocOrNone, text : Texts, basis : Texts, mtime : Stamps, exit : BOOLEAN,
                   stage : {"none", "sent", "written", "conflict", "rendering", "reloading"}]
  BY NoSaveType DEF Before, InFlow, TypeOK
<1>2. ASSUME NEW ok, NEW still, EndSave(ok, still) PROVE FALSE
  BY <1>1, <1>2, NoFlowType DEF EndSave, TypeOK
<1>3. CASE Go
  BY <1>3 DEF Go
<1>4. CASE User
  BY <1>1, <1>2, <1>4 DEF User, StartEdit, LeaveEdit, Type, Undo, SaveKey, GoHome, SaveGivenUp,
     ConflictReload, AnswerCancel, AnswerDiscard, AnswerSave, CloseTabs, CloseTab, Open,
     SwitchTab, Idle
<1>5. CASE Events
  BY <1>1, <1>2, <1>5 DEF Events, SaveSteps, EditorMounted, ServerSaves, SaveAnswered, SaveDone,
     ConflictReloaded, LoadArrives, LoadRendered, PollAnswered, PollAsks, Foreign
<1>6. QED
  BY <1>1, <1>3, <1>4, <1>5 DEF Next

\* A save that ends well has left no draft.
LEMMA EndSaveFlow ==
  ASSUME Before, SaveDone \/ SaveGivenUp \/ ConflictReload \/ ConflictReloaded, flow' # flow,
         flow' # NoFlow
  PROVE  /\ flow.stage = "save" /\ flow' = [flow EXCEPT !.stage = "go"]
         /\ Closing => drafts'[flow.asked] = Blank
<1> USE DEF TypeInv
<1>1. /\ TypeInv /\ InSave /\ InFlow /\ drafts \in [Docs -> Texts]
      /\ save.stage # "none" => save.doc \in Docs
  BY DEF Before, TypeOK, HandlersSound
<1>2. flow.stage = "save" /\ flow' = [flow EXCEPT !.stage = "go"]
  BY DEF SaveDone, SaveGivenUp, ConflictReload, ConflictReloaded, EndSave
<1>3. CASE SaveGivenUp
  <2>1. ~Closing
    BY <1>2, <1>3 DEF SaveGivenUp, EndSave, GoesOn, Closing
  <2>2. QED
    BY <1>2, <2>1
<1>4. CASE SaveDone \/ ConflictReloaded
  BY <1>1, <1>2, <1>4 DEF SaveDone, ConflictReloaded, InSave, InFlow
<1>5. CASE ConflictReload
  BY <1>1, <1>2, <1>5 DEF ConflictReload, InFlow
<1>6. QED
  BY <1>3, <1>4, <1>5

LEMMA InFlowStep == Before => InFlow'
<1> SUFFICES ASSUME Before PROVE InFlow'
  OBVIOUS
<1> USE DEF TypeInv
<1>1. /\ TypeInv /\ Next /\ InTabs /\ InSave /\ InFlow /\ Fresh
      /\ tabs \subseteq Docs /\ drafts \in [Docs -> Texts]
      /\ flow \in [op : {"none", "switch", "open", "exit", "close", "closeOthers", "closeAll"},
                   doc : DocOrNone, asked : DocOrNone, left : SUBSET Docs,
                   stage : {"none", "ask", "save", "go"}]
  BY DEF Before, TypeOK
\* The tabs that a closing handler has passed, over a step that leaves it as it is.
<1>2. ASSUME ~Type,
             flow.op \in {"closeOthers", "closeAll"},
             NEW d \in tabs' \ (flow.left \union {flow.doc}),
             ~(flow.stage \in {"ask", "save"} /\ d = flow.asked)
      PROVE  drafts'[d] = Blank
  <2>1. CASE d \in tabs
    <3>1. drafts[d] = Blank
      BY <1>1, <1>2, <2>1 DEF InFlow
    <3>2. QED
      BY <1>1, <1>2, <2>1, <3>1, DraftsStep
  <2>2. CASE d \notin tabs
    <3>1. LoadArrives /\ d = load.doc
      BY <1>1, <2>2, TabsStep
    <3>2. d \in Docs
      BY <1>1, <3>1 DEF LoadArrives, HandlersSound
    <3>3. drafts[d] = Blank
      BY <1>1, <2>2, <3>2 DEF InTabs
    <3>4. QED
      BY <1>1, <1>2, <3>2, <3>3, DraftsStep
  <2>3. QED
    BY <2>1, <2>2
<1>3. CASE flow' = flow
  <2>1. flow.stage # "go"
    BY <1>1, <1>3, NoFlowType DEF Next, Go, GoSwitch, GoClose, GoAsk, GoCloseOthers, GoCloseAll
  <2>2. flow.stage = "save" => save'.stage # "none" /\ (Closing => save'.doc = flow.asked)
    BY <1>1, <1>3, SaveUnderFlow DEF InFlow
  <2>3. flow.op \in {"closeOthers", "closeAll"} => ~Type
    BY TypeAlone
  <2>4. QED
    BY <1>1, <1>2, <1>3, <2>1, <2>2, <2>3 DEF InFlow, Closing
<1>4. CASE flow' = NoFlow
  BY <1>4, NoFlowType DEF InFlow
\* The stage of a handler that goes on.
<1>5. ASSUME NEW s \in {"save", "go"}, flow' = [flow EXCEPT !.stage = s], ~Type,
             tabs' \subseteq tabs, flow.stage \in {"ask", "save"},
             s = "save" => save'.stage # "none" /\ (Closing => save'.doc = flow.asked),
             s = "go" /\ Closing => drafts'[flow.asked] = Blank
      PROVE  InFlow'
  <2>1. /\ flow'.stage = s /\ flow'.op = flow.op /\ flow'.doc = flow.doc
        /\ flow'.asked = flow.asked /\ flow'.left = flow.left
    BY <1>1, <1>5
  <2>2. flow.op = "close" => flow.doc = flow.asked
    BY <1>1 DEF InFlow
  <2>3. flow'.op = "close" /\ flow'.stage = "go" => drafts'[flow'.doc] = Blank
    BY <1>5, <2>1, <2>2 DEF Closing
  <2>4. ASSUME flow'.op \in {"closeOthers", "closeAll"},
               NEW d \in tabs' \ (flow'.left \union {flow'.doc})
        PROVE  drafts'[d] = Blank \/ (flow'.stage \in {"ask", "save"} /\ d = flow'.asked)
    <3>1. CASE d = flow.asked
      BY <1>5, <2>1, <2>4, <3>1 DEF Closing
    <3>2. CASE d # flow.asked
      BY <1>2, <1>5, <2>1, <2>4, <3>2
    <3>3. QED
      BY <3>1, <3>2
  <2>5. QED
    BY <1>5, <2>1, <2>2, <2>3, <2>4 DEF InFlow, Closing
<1>6. CASE AnswerSave /\ flow' # flow /\ flow' # NoFlow
  <2>1. tabs' = tabs /\ flow.stage = "ask" /\ ~Type
    BY <1>6 DEF AnswerSave, Type
  <2>2. CASE Closing
    <3>1. flow.asked \in tabs
      BY <1>1, <2>1, <2>2 DEF HandlersSound
    <3>2. /\ flow' = [flow EXCEPT !.stage = "save"]
          /\ save'.stage = "sent" /\ save'.doc = flow.asked
      BY <1>6, <2>2 DEF AnswerSave, BeginSave
    <3>3. QED
      BY <1>5, <2>1, <3>2
  <2>3. CASE ~Closing /\ editing
    <3>1. flow' = [flow EXCEPT !.stage = "save"] /\ save'.stage = "sent"
      BY <1>6, <2>3 DEF AnswerSave, BeginSave
    <3>2. QED
      BY <1>5, <2>1, <2>3, <3>1
  <2>4. CASE ~Closing /\ ~editing
    <3>1. flow' = [flow EXCEPT !.stage = "go"]
      BY <1>6, <2>4 DEF AnswerSave
    <3>2. QED
      BY <1>5, <2>1, <2>4, <3>1
  <2>5. QED
    BY <2>2, <2>3, <2>4
<1>7. CASE AnswerDiscard /\ flow' # NoFlow
  <2>1. /\ tabs' = tabs /\ flow.stage = "ask" /\ ~Type /\ flow.op # "exit"
        /\ flow' = [flow EXCEPT !.stage = "go"]
        /\ drafts' = [drafts EXCEPT ![flow.asked] = Blank]
    BY <1>7 DEF AnswerDiscard, Type
  <2>2. Closing => flow.asked \in Docs
    BY <1>1, <2>1 DEF HandlersSound
  <2>3. Closing => drafts'[flow.asked] = Blank
    BY <1>1, <2>1, <2>2
  <2>4. QED
    BY <1>5, <2>1, <2>3
<1>8. CASE (SaveDone \/ SaveGivenUp \/ ConflictReload \/ ConflictReloaded)
             /\ flow' # flow /\ flow' # NoFlow
  <2>1. /\ flow.stage = "save" /\ flow' = [flow EXCEPT !.stage = "go"]
        /\ Closing => drafts'[flow.asked] = Blank
    BY <1>8, EndSaveFlow
  <2>2. tabs' = tabs /\ ~Type
    <3>1. tabs' = tabs
      BY <1>8 DEF SaveDone, SaveGivenUp, ConflictReload, ConflictReloaded, strip
    <3>2. ~Type
      BY <1>8 DEF Type
    <3>3. QED
      BY <3>1, <3>2
  <2>3. QED
    BY <1>5, <2>1, <2>2
<1>9. ASSUME NEW d \in Docs, GoAsk(d), Go PROVE InFlow'
  <2>1. /\ flow.stage = "go" /\ d \in flow.left /\ tabs' = tabs /\ drafts' = drafts
        /\ flow' = [flow EXCEPT !.asked = d, !.left = flow.left \ {d}, !.stage = "ask"]
    BY <1>9 DEF Go, GoAsk, strip
  <2>2. flow.op \in {"closeOthers", "closeAll"}
    BY <1>1, <2>1 DEF HandlersSound
  <2>3. /\ flow'.stage = "ask" /\ flow'.op = flow.op /\ flow'.doc = flow.doc
        /\ flow'.asked = d /\ flow'.left = flow.left \ {d}
    BY <1>1, <2>1
  <2>4. QED
    BY <1>1, <2>1, <2>2, <2>3 DEF InFlow
<1>10. ASSUME NEW d \in Docs, CloseTab(d) PROVE InFlow'
  <2>1. /\ flow' = [op |-> "close", doc |-> d, asked |-> d, left |-> {},
                    stage |-> IF tab[d].dirty THEN "ask" ELSE "go"]
        /\ drafts' = drafts
    BY <1>10 DEF CloseTab, NoFlow
  <2>2. ~tab[d].dirty => drafts[d] = Blank
    BY <1>1 DEF InTabs
  <2>3. QED
    BY <2>1, <2>2 DEF InFlow
<1>11. ASSUME NEW d \in DocOrNone, NEW op \in {"closeOthers", "closeAll"}, CloseTabs(op, d)
       PROVE  InFlow'
  <2>1. /\ flow' = [op |-> op, doc |-> d, asked |-> None, left |-> tabs \ {d}, stage |-> "go"]
        /\ tabs' = tabs
    BY <1>11 DEF CloseTabs, NoFlow, strip
  <2>2. QED
    BY <2>1 DEF InFlow
<1>12. ASSUME NEW d, NEW op \in {"switch", "open"}, Switch(op, d) PROVE InFlow'
  <2>1. flow' = [op |-> op, doc |-> d, asked |-> active, left |-> {},
                 stage |-> IF Unsaved THEN "ask" ELSE "go"]
    BY <1>12 DEF Switch, NoFlow
  <2>2. QED
    BY <2>1 DEF InFlow, Closing
<1>13. CASE LeaveEdit
  <2>1. flow' = flow
          \/ flow' = [op |-> "exit", doc |-> None, asked |-> active, left |-> {}, stage |-> "ask"]
    BY <1>13 DEF LeaveEdit, NoFlow
  <2>2. CASE flow' # flow
    BY <2>1, <2>2 DEF InFlow, Closing
  <2>3. QED
    BY <1>3, <2>2
<1>14. CASE Go
  BY <1>4, <1>9, <1>14 DEF Go, GoSwitch, GoClose, GoCloseOthers, GoCloseAll
<1>15. CASE User
  <2>1. CASE \E d \in Docs : Open(d) \/ SwitchTab(d)
    BY <1>3, <1>12, <2>1 DEF Open, SwitchTab
  <2>2. CASE CloseTabs("closeAll", None)
             \/ \E d \in Docs : CloseTab(d) \/ CloseTabs("closeOthers", d)
    BY <1>10, <1>11, <2>2 DEF DocOrNone
  <2>3. CASE StartEdit \/ Type \/ Undo \/ SaveKey \/ GoHome \/ AnswerCancel
    BY <1>3, <1>4, <2>3 DEF StartEdit, Type, Undo, SaveKey, GoHome, AnswerCancel
  <2>4. CASE LeaveEdit \/ SaveGivenUp \/ ConflictReload \/ AnswerDiscard \/ AnswerSave
    BY <1>3, <1>4, <1>6, <1>7, <1>8, <1>13, <2>4
  <2>5. QED
    BY <1>15, <2>1, <2>2, <2>3, <2>4 DEF User
<1>16. CASE Events
  BY <1>3, <1>4, <1>8, <1>16 DEF Events, SaveSteps, EditorMounted, ServerSaves, SaveAnswered,
     LoadArrives, LoadRendered, PollAnswered, PollAsks, Foreign
<1>17. QED
  BY <1>1, <1>14, <1>15, <1>16 DEF Next

\* What the user typed last for a document and has neither saved nor given up is in its
\* tab, and the tab is marked, so that closing it asks.
THEOREM KeepsDrafts == Spec => []DraftsAreKept
<1>1. TypeInv /\ Apart /\ DraftInv /\ [Next]_vars => DraftInv'
  <2> SUFFICES ASSUME TypeInv, Apart, DraftInv, [Next]_vars PROVE DraftInv'
    OBVIOUS
  <2>1. CASE UNCHANGED vars
    BY <2>1 DEF vars, files, strip, editor, DraftInv, Fresh, InTabs, InEditor, InSave, InFlow,
       Closing, NoneOf
  <2>2. CASE Next
    <3>1. Fresh'
      BY <2>2, FreshStep DEF DraftInv
    <3>2. ASSUME NoneOf(DraftOverlaps)' PROVE Before
      <4>1. overlaps' \intersect DraftOverlaps = {} /\ overlaps \subseteq overlaps'
        BY <2>2, <3>2, OverlapsGrow DEF NoneOf, DraftOverlaps
      <4>2. NoneOf(DraftOverlaps) /\ NoneOf(Astrays)
        BY <4>1 DEF NoneOf, DraftOverlaps, Astrays
      <4>3. QED
        BY <2>2, <4>1, <4>2 DEF Before, DraftInv, Apart
    <3>3. QED
      BY <3>1, <3>2, InTabsStep, InEditorStep, InSaveStep, InFlowStep DEF DraftInv
  <2>3. QED
    BY <2>1, <2>2
<1>2. Spec => [](TypeInv /\ Apart /\ DraftInv)
  BY InitType, StepType, InitApart, ApartStep, InitDrafts, <1>1, PTL DEF Spec
<1>3. DraftInv => DraftsAreKept
  BY DEF DraftInv, InTabs, DraftsAreKept, DraftOverlaps
<1>4. QED
  BY <1>2, <1>3, PTL
=============================================================================

----------------------------- MODULE TabsEditor -----------------------------
(***************************************************************************)
(* The tabs of the page and its editor (core/tabs.js, editor/preview.js),  *)
(* the loading of documents into tabs (loadFile), the automatic reload     *)
(* (startAutoReload) and the questions about unsaved text.                 *)
(*                                                                         *)
(* There is one editor for all tabs, and its handlers are asynchronous: a  *)
(* handler is one action per stretch between awaits.  The server is atomic *)
(* here; DocumentSave has its steps.                                       *)
(*                                                                         *)
(* A text carries the document it was written for: <<d, n>>.  Every write  *)
(* to a file gives it another modification time.                           *)
(***************************************************************************)
EXTENDS Naturals

CONSTANTS
  Docs,        \* paths of documents; a document has at most one tab
  None,
  MaxTexts,    \* bound: texts typed by the user or written by another program
  MaxWrites,   \* bound: writes to the files
  MayOverlap   \* which of Overlaps may happen

\* Orders of events that the code does not expect, each of which harms something:
\*   "load"    a document arrives at, or another one is asked for over, a page whose
\*             editor, save or question is about something else
\*   "mount"   a save begins while the editor is an empty textarea still
\*   "others"  closeOtherTabs makes a tab active under the editor of another one
\*   "resume"  the editor is opened on a tab that has unsaved text already
\*   "type"    a key is typed while a save is on its way
\*   "undo"    all changes are undone
Overlaps == {"load", "mount", "others", "resume", "type", "undo"}

ASSUME EditorAssumption ==
  /\ None \notin Docs
  /\ MaxTexts \in Nat /\ MaxWrites \in Nat
  /\ MayOverlap \subseteq Overlaps

VARIABLES
  disk,      \* [Docs -> [text, mtime]]: the files
  made,      \* texts made so far
  clock,     \* the last modification time given
  tabs,      \* state.tabs: the documents that have a tab
  tab,       \* what each tab keeps
  active,    \* state.activeTabId
  editing,   \* state.editing
  buffer,    \* getEditContent()
  bundle,    \* CodeMirror: "absent", "coming" or "here"
  load,      \* the load whose epoch is current
  poll,      \* the question of startAutoReload in flight
  save,      \* the run of saveEdit
  flow,      \* the run of switchTab, confirmExitEdit, loadFile, closeTab,
             \* closeOtherTabs or closeAllTabs that asks or saves
  owner,     \* history: the document whose text is in the editor
  basis,     \* history: the text it was based on
  drafts,    \* history: what was last typed for a document and neither saved nor given up
  overlaps   \* history: the overlaps that happened

files == <<disk, made, clock>>
strip == <<tabs, tab, active>>
editor == <<editing, buffer, owner, basis>>
vars == <<files, strip, editor, bundle, load, poll, save, flow, drafts, overlaps>>

Blank == <<None, 0>>     \* the empty textarea under CodeMirror
First(d) == <<d, 0>>
NoTab  == [content |-> Blank, original |-> Blank, mtime |-> 0,
           dirty |-> FALSE, changed |-> FALSE]
NoLoad == [doc |-> None, stage |-> "none", text |-> Blank, mtime |-> 0, again |-> FALSE]
NoPoll == [doc |-> None, mtime |-> 0]
NoSave == [doc |-> None, stage |-> "none", text |-> Blank, basis |-> Blank, mtime |-> 0,
           exit |-> FALSE]
NoFlow == [op |-> "none", doc |-> None, asked |-> None, left |-> {}, stage |-> "none"]

Init ==
  /\ disk = [d \in Docs |-> [text |-> First(d), mtime |-> 0]]
  /\ made = 0 /\ clock = 0
  /\ tabs = {} /\ tab = [d \in Docs |-> NoTab] /\ active = None
  /\ editing = FALSE /\ buffer = Blank /\ owner = None /\ basis = Blank
  /\ bundle = "absent"
  /\ load = NoLoad /\ poll = NoPoll /\ save = NoSave /\ flow = NoFlow
  /\ drafts = [d \in Docs |-> Blank]
  /\ overlaps = {}
-----------------------------------------------------------------------------
(* Pieces of the handlers.                                                 *)

\* The busy overlay of a save and an open question keep the mouse from the page.
Idle == save = NoSave /\ flow = NoFlow

\* hasUnsavedEditorChanges
Unsaved == editing /\ buffer # tab[active].original

\* exitEdit
ExitEdit ==
  /\ editing' = FALSE /\ buffer' = Blank /\ owner' = None /\ basis' = Blank

\* The editor is opened on a tab with a text.
EditText(d, text) ==
  /\ editing' = TRUE /\ buffer' = text /\ owner' = d /\ basis' = tab[d].original

\* beginDocumentLoad and the request, which the server answers at once with what the file
\* holds; a load that was in flight has no effect any more.
Fetch(d) == [doc |-> d, stage |-> "read", text |-> disk[d].text, mtime |-> disk[d].mtime,
             again |-> d \in tabs]

\* The end of switchTab: exitEdit, and d becomes the active tab.  If its file was seen
\* to change, or was asked for, it is loaded again.
Activate(d, now, loading, asked) ==
  LET stale == now[d].changed /\ ~now[d].dirty IN
  /\ ExitEdit
  /\ active' = d
  /\ load' = IF stale \/ asked THEN Fetch(d) ELSE loading
  /\ tab' = IF stale THEN [now EXCEPT ![d].changed = FALSE] ELSE now

\* goHome: the editor is left without a question, the tabs stay.
Home == ExitEdit /\ active' = None /\ load' = NoLoad

\* A new document is on the page, and the editor still has the text of another tab.
Astray == load.stage = "shown" /\ editing

\* The overlaps are recorded, and happen only where the instance has them.
Overlap(new) == new \subseteq MayOverlap /\ overlaps' = overlaps \union new
\* An overlap that happens if a condition holds.
Mark(what, when) == IF when THEN {what} ELSE {}

\* Mutant: no expected modification time.
BeginSaveUnchecked(d, text, base, exit) ==
  /\ save' = [doc |-> d, text |-> text, basis |-> base, mtime |-> disk[d].mtime,
              exit |-> exit, stage |-> "sent"]
  /\ Overlap(Mark("load", load.stage = "shown") \union Mark("mount", editing /\ buffer = Blank))

\* saveEdit up to its request: it takes what the editor and its tab hold by then.
BeginSave(d, text, base, exit) ==
  /\ save' = [doc |-> d, text |-> text, basis |-> base, mtime |-> tab[d].mtime,
              exit |-> exit, stage |-> "sent"]
  /\ Overlap(Mark("load", load.stage = "shown") \union Mark("mount", editing /\ buffer = Blank))
-----------------------------------------------------------------------------
(* Other programs, and the editor.                                         *)

Foreign(d) ==
  /\ made < MaxTexts /\ clock < MaxWrites
  /\ made' = made + 1 /\ clock' = clock + 1
  /\ disk' = [disk EXCEPT ![d] = [text |-> <<d, made + 1>>, mtime |-> clock + 1]]
  /\ UNCHANGED <<strip, editor, bundle, load, poll, save, flow, drafts, overlaps>>

\* toggleEdit: the editor opens on state.original.  The first time CodeMirror has to be
\* loaded, and until then it is an empty textarea.
StartEdit ==
  /\ Idle /\ active # None /\ ~editing
  /\ EditText(active, IF bundle = "here" THEN tab[active].original ELSE Blank)
  /\ bundle' = IF bundle = "here" THEN "here" ELSE "coming"
  /\ Overlap(Mark("resume", tab[active].dirty))
  /\ UNCHANGED <<files, strip, load, poll, save, flow, drafts>>

EditorMounted ==
  /\ bundle = "coming"
  /\ bundle' = "here"
  /\ buffer' = IF editing THEN tab[active].original ELSE Blank
  /\ UNCHANGED <<files, strip, editing, owner, basis, load, poll, save, flow, drafts,
                 overlaps>>

\* A key in the editor, then syncActiveTabDirty.
Type ==
  LET text == <<owner, made + 1>> IN
  /\ editing /\ bundle = "here" /\ flow.stage # "ask" /\ save.stage # "conflict"
  /\ made < MaxTexts
  /\ made' = made + 1
  /\ buffer' = text
  /\ tab' = [tab EXCEPT ![active].content = text, ![active].dirty = TRUE]
  /\ drafts' = [drafts EXCEPT ![owner] = text]
  /\ Overlap(Mark("load", load.stage = "shown") \union Mark("type", save # NoSave))
  /\ UNCHANGED <<disk, clock, tabs, active, editing, owner, basis, bundle, load,
                 poll, save, flow>>

\* Undo back to the original: the tab is clean again, but its content is not reset.
Undo ==
  /\ Idle /\ Unsaved /\ bundle = "here"
  /\ buffer' = tab[active].original
  /\ tab' = [tab EXCEPT ![active].dirty = FALSE]
  /\ drafts' = [drafts EXCEPT ![owner] = Blank]
  /\ Overlap({"undo"})
  /\ UNCHANGED <<files, tabs, active, editing, owner, basis, bundle, load, poll, save, flow>>

GoHome ==
  /\ Idle /\ active # None
  /\ Home
  /\ UNCHANGED <<files, tabs, tab, bundle, poll, save, flow, drafts, overlaps>>
-----------------------------------------------------------------------------
(* saveEdit.                                                               *)

SaveKey ==
  /\ Idle /\ editing
  /\ BeginSave(active, buffer, basis, FALSE)
  /\ UNCHANGED <<files, strip, editor, bundle, load, poll, flow, drafts>>

\* The server compares the modification time and writes, or refuses.
ServerSaves ==
  /\ save.stage = "sent"
  /\ IF disk[save.doc].mtime = save.mtime
       THEN /\ clock < MaxWrites
            /\ clock' = clock + 1
            /\ disk' = [disk EXCEPT ![save.doc] = [text |-> save.text, mtime |-> clock + 1]]
            /\ save' = [save EXCEPT !.stage = "written", !.mtime = clock + 1]
            /\ drafts' = [d \in Docs |-> IF drafts[d] = save.text THEN Blank ELSE drafts[d]]
       ELSE /\ save' = [save EXCEPT !.stage = "conflict"]
            /\ UNCHANGED <<disk, clock, drafts>>
  /\ UNCHANGED <<made, strip, editor, bundle, load, poll, flow, overlaps>>

\* syncSavedTab, applySavedMtime and renderSavedDocument up to its await: the answer
\* goes to the tab that is active by now.
SaveAnswered ==
  /\ save.stage = "written"
  /\ tab' = [tab EXCEPT ![active] = [content |-> save.text, original |-> save.text,
               mtime |-> save.mtime, dirty |-> FALSE, changed |-> FALSE]]
  /\ basis' = IF editing THEN save.text ELSE Blank
  /\ save' = [save EXCEPT !.stage = "rendering"]
  /\ UNCHANGED <<files, tabs, active, editing, buffer, owner, bundle, load, poll, flow,
                 drafts, overlaps>>

\* Does the handler that saved go on with its work?  It looks at the page again.
GoesOn(ok, stillEditing) ==
  CASE flow.op \in {"switch", "open", "exit"} -> ~stillEditing
    [] flow.op = "close"       -> ok /\ ~(active = flow.asked /\ stillEditing)
    [] flow.op = "closeOthers" -> ok /\ ~(flow.asked \in tabs /\ tab[flow.asked].dirty)
    [] flow.op = "closeAll"    -> ok /\ ~(active # None /\ tab[active].dirty) /\ ~stillEditing
    [] OTHER -> FALSE

\* saveEdit returns.
EndSave(ok, stillEditing) ==
  /\ save' = NoSave
  /\ flow' = IF flow.stage # "save" THEN flow
             ELSE IF GoesOn(ok, stillEditing) THEN [flow EXCEPT !.stage = "go"]
             ELSE NoFlow

SaveDone ==
  /\ save.stage = "rendering"
  /\ IF save.exit THEN ExitEdit ELSE UNCHANGED editor
  /\ EndSave(TRUE, editing /\ ~save.exit)
  /\ UNCHANGED <<files, strip, bundle, load, poll, drafts, overlaps>>

\* The server refuses, or the user keeps the editor when the save conflicts.
SaveGivenUp ==
  /\ save.stage \in {"sent", "conflict"}
  /\ EndSave(FALSE, editing)
  /\ UNCHANGED <<files, strip, editor, bundle, load, poll, drafts, overlaps>>

\* promptSaveConflict, "reload": exitEdit, then loadFile, which refuses a dirty tab.
ConflictReload ==
  /\ save.stage = "conflict"
  /\ ExitEdit
  /\ drafts' = [drafts EXCEPT ![save.doc] = Blank]
  /\ IF tab[active].dirty
       THEN EndSave(TRUE, FALSE) /\ UNCHANGED load
       ELSE /\ load' = Fetch(active)
            /\ save' = [save EXCEPT !.stage = "reloading"] /\ UNCHANGED flow
  /\ UNCHANGED <<files, strip, bundle, poll, overlaps>>

ConflictReloaded ==
  /\ save.stage = "reloading" /\ load.stage = "none"
  /\ EndSave(TRUE, editing)
  /\ UNCHANGED <<files, strip, editor, bundle, load, poll, drafts, overlaps>>
-----------------------------------------------------------------------------
(* loadFile.                                                               *)

\* switchTab up to its question.
Switch(op, d) ==
  /\ load' = NoLoad
  /\ tab' = IF Unsaved THEN [tab EXCEPT ![active].dirty = TRUE] ELSE tab
  /\ flow' = [NoFlow EXCEPT !.op = op, !.doc = d, !.asked = active,
                            !.stage = IF Unsaved THEN "ask" ELSE "go"]
  /\ Overlap(Mark("load", Astray))
  /\ UNCHANGED editor

\* loadFile, for the user or for a file another program opens (pollControl), which the
\* busy overlay does not keep away.  It refuses a document with unsaved text.
Open(d) ==
  /\ flow = NoFlow /\ save.stage # "conflict"
  /\ ~(d \in tabs /\ (tab[d].dirty \/ (active = d /\ Unsaved)))
  /\ IF d \in tabs /\ active # d
       THEN Switch("open", d)
       ELSE /\ load' = Fetch(d)
            /\ IF active = d THEN ExitEdit ELSE UNCHANGED editor
            /\ Overlap(Mark("load", Astray))
            /\ UNCHANGED <<tab, flow>>
  /\ UNCHANGED <<files, tabs, active, bundle, poll, save, drafts>>

\* Mutant: the modification time is left out.
LoadedOldTime(d) ==
  [content |-> load.text, original |-> load.text, mtime |-> tab[d].mtime, dirty |-> FALSE,
   changed |-> tab[d].changed]

\* The fields a load assigns.
Loaded(d) ==
  [content |-> load.text, original |-> load.text, mtime |-> load.mtime, dirty |-> FALSE,
   changed |-> tab[d].changed]

\* The answer fills the tab the document had when it was asked for, whatever was begun
\* there since, or makes a new tab the active one; the editor is left only after the
\* new document has been rendered.
LoadArrives ==
  LET d == load.doc IN
  /\ load.stage = "read"
  /\ IF load.again
       THEN /\ tab' = IF d \in tabs THEN [tab EXCEPT ![d] = Loaded(d)] ELSE tab
            /\ load' = NoLoad
            /\ Overlap(Mark("load", tab[d].dirty \/ (active = d /\ editing)))
            /\ UNCHANGED <<tabs, active>>
       ELSE /\ tab' = [tab EXCEPT ![d] = Loaded(d)]
            /\ tabs' = tabs \union {d} /\ active' = d
            /\ load' = [load EXCEPT !.stage = "shown"]
            /\ Overlap(Mark("load", ~Idle))
  /\ UNCHANGED <<files, editor, bundle, poll, save, flow, drafts>>

LoadRendered ==
  /\ load.stage = "shown"
  /\ load' = NoLoad
  /\ ExitEdit
  /\ UNCHANGED <<files, strip, bundle, poll, save, flow, drafts, overlaps>>
-----------------------------------------------------------------------------
(* startAutoReload.                                                        *)

\* A question whose answer will be that nothing has changed is left out.
PollAsks(d) ==
  /\ poll = NoPoll /\ ~editing
  /\ d \in tabs /\ ~tab[d].dirty /\ ~tab[d].changed
  /\ disk[d].mtime # tab[d].mtime
  /\ poll' = [doc |-> d, mtime |-> disk[d].mtime]
  /\ UNCHANGED <<files, strip, editor, bundle, load, save, flow, drafts, overlaps>>

\* Mutant: the tab notes the time it was told.
PollAnsweredNoted ==
  /\ poll # NoPoll
  /\ poll' = NoPoll
  /\ tab' = [tab EXCEPT ![poll.doc].mtime = poll.mtime, ![poll.doc].changed = TRUE]
  /\ UNCHANGED <<files, tabs, active, editor, bundle, load, save, flow, drafts, overlaps>>

\* By now the tab may be edited: loadFile leaves a clean editor and refuses a dirty tab.
PollAnswered ==
  LET d == poll.doc
      stale == tab[d].mtime # poll.mtime IN
  /\ poll # NoPoll
  /\ poll' = NoPoll
  /\ IF stale /\ active = d /\ ~tab[d].dirty /\ ~Unsaved
       THEN load' = Fetch(d) /\ ExitEdit
       ELSE UNCHANGED <<load, editor>>
  /\ tab' = IF stale /\ active # d THEN [tab EXCEPT ![d].changed = TRUE] ELSE tab
  /\ UNCHANGED <<files, tabs, active, bundle, save, flow, drafts, overlaps>>
-----------------------------------------------------------------------------
(* Handlers that ask: switchTab, confirmExitEdit and the closing of tabs.  *)

SwitchTab(d) ==
  /\ Idle /\ d \in tabs \ {active}
  /\ Switch("switch", d)
  /\ UNCHANGED <<files, tabs, active, bundle, poll, save, drafts>>

\* toggleEdit in the editor: confirmExitEdit.
LeaveEdit ==
  /\ Idle /\ editing
  /\ IF Unsaved
       THEN /\ flow' = [NoFlow EXCEPT !.op = "exit", !.asked = active, !.stage = "ask"]
            /\ UNCHANGED editor
       ELSE ExitEdit /\ UNCHANGED flow
  /\ UNCHANGED <<files, strip, bundle, load, poll, save, drafts, overlaps>>

\* Mutant: closeTab looks at the editor, not at the tab's mark.
CloseTabUnmarked(d) ==
  /\ Idle /\ d \in tabs
  /\ flow' = [NoFlow EXCEPT !.op = "close", !.doc = d, !.asked = d,
                            !.stage = IF active = d /\ Unsaved THEN "ask" ELSE "go"]
  /\ UNCHANGED <<files, strip, editor, bundle, load, poll, save, drafts, overlaps>>

\* closeTab asks about its own tab.
CloseTab(d) ==
  /\ Idle /\ d \in tabs
  /\ flow' = [NoFlow EXCEPT !.op = "close", !.doc = d, !.asked = d,
                            !.stage = IF tab[d].dirty THEN "ask" ELSE "go"]
  /\ UNCHANGED <<files, strip, editor, bundle, load, poll, save, drafts, overlaps>>

\* closeOtherTabs (d is kept) and closeAllTabs ask about one dirty tab after the other.
CloseTabs(op, d) ==
  /\ Idle /\ tabs # {} /\ (op = "closeOthers" => d \in tabs)
  /\ flow' = [NoFlow EXCEPT !.op = op, !.doc = d, !.left = tabs \ {d}, !.stage = "go"]
  /\ UNCHANGED <<files, strip, editor, bundle, load, poll, save, drafts, overlaps>>

AnswerCancel ==
  /\ flow.stage = "ask"
  /\ flow' = NoFlow
  /\ UNCHANGED <<files, strip, editor, bundle, load, poll, save, drafts, overlaps>>

Closing == flow.op \in {"close", "closeOthers", "closeAll"}

\* Mutant: the draft is left in its tab.
AnswerDiscardKept ==
  LET d == IF flow.op = "exit" THEN active ELSE flow.asked IN
  /\ flow.stage = "ask"
  /\ drafts' = [drafts EXCEPT ![d] = Blank]
  /\ flow' = IF flow.op = "exit" THEN NoFlow ELSE [flow EXCEPT !.stage = "go"]
  /\ IF Closing
       THEN UNCHANGED <<tab, editor>>
       ELSE tab' = [tab EXCEPT ![d].dirty = FALSE] /\ ExitEdit
  /\ UNCHANGED <<files, tabs, active, bundle, load, poll, save, overlaps>>

\* A tab that is to be closed keeps its text until it is; otherwise the editor is left
\* and its tab shows the original again.
AnswerDiscard ==
  LET d == IF flow.op = "exit" THEN active ELSE flow.asked IN
  /\ flow.stage = "ask"
  /\ drafts' = [drafts EXCEPT ![d] = Blank]
  /\ flow' = IF flow.op = "exit" THEN NoFlow ELSE [flow EXCEPT !.stage = "go"]
  /\ IF Closing
       THEN UNCHANGED <<tab, editor>>
       ELSE /\ tab' = [tab EXCEPT ![d].content = tab[d].original, ![d].dirty = FALSE]
            /\ ExitEdit
  /\ UNCHANGED <<files, tabs, active, bundle, load, poll, save, overlaps>>

\* Mutant: the editor keeps its text.
ActivateTabForSaveOnly(d) ==
  /\ active' = d
  /\ tab' = IF active # d /\ Unsaved
              THEN [tab EXCEPT ![active].content = buffer, ![active].dirty = TRUE]
              ELSE tab
  /\ EditText(d, buffer)

\* activateTabForSave: the tab's text, not the editor's, is what is going to be saved,
\* and the text of the tab that was being edited stays in it.
ActivateTabForSave(d) ==
  /\ active' = d
  /\ tab' = IF active # d /\ Unsaved
              THEN [tab EXCEPT ![active].content = buffer, ![active].dirty = TRUE]
              ELSE tab
  /\ EditText(d, tab[d].content)

\* saveEdit does nothing if the editor was left while the question was open.
AnswerSave ==
  /\ flow.stage = "ask" /\ save = NoSave
  /\ IF Closing
       THEN /\ ActivateTabForSave(flow.asked)
            /\ BeginSave(flow.asked, buffer', basis', TRUE)
            /\ flow' = [flow EXCEPT !.stage = "save"]
     ELSE IF editing
       THEN /\ BeginSave(active, buffer, basis, TRUE)
            /\ flow' = [flow EXCEPT !.stage = "save"]
            /\ UNCHANGED <<tab, active, editor>>
     ELSE /\ flow' = IF flow.op = "exit" THEN NoFlow ELSE [flow EXCEPT !.stage = "go"]
          /\ UNCHANGED <<tab, active, editor, save, overlaps>>
  /\ UNCHANGED <<files, tabs, bundle, load, poll, drafts>>

\* The tabs of a set are gone, with the requests that were made for them.
Remove(gone) ==
  /\ tabs' = tabs \ gone
  /\ poll' = IF poll.doc \in gone THEN NoPoll ELSE poll

Without(gone) == [d \in Docs |-> IF d \in gone THEN NoTab ELSE tab[d]]

GoSwitch ==
  /\ flow.op \in {"switch", "open"}
  /\ Activate(flow.doc, tab, load, flow.op = "open")
  /\ Overlap(Mark("load", save # NoSave))
  /\ flow' = NoFlow
  /\ UNCHANGED <<tabs, poll>>

\* splice; then switchTab, which has no tab to ask about any more, or goHome.
GoClose ==
  LET gone == {flow.doc} IN
  /\ flow.op = "close"
  /\ Remove(gone)
  /\ IF active # flow.doc
       THEN tab' = Without(gone) /\ UNCHANGED <<active, editor, load>>
     ELSE IF tabs = gone
       THEN tab' = Without(gone) /\ Home
     ELSE \E d \in tabs \ gone : Activate(d, Without(gone), NoLoad, FALSE)
  /\ flow' = NoFlow
  /\ UNCHANGED overlaps

GoAsk(d) ==
  /\ d \in flow.left /\ tab[d].dirty
  /\ flow' = [flow EXCEPT !.asked = d, !.left = @ \ {d}, !.stage = "ask"]
  /\ UNCHANGED <<strip, editor, load, poll, overlaps>>

\* The other tabs go without a look at the editor, which may hold the text of one.
GoCloseOthers ==
  /\ flow.op = "closeOthers" /\ \A d \in flow.left : ~tab[d].dirty
  /\ Remove(tabs \ {flow.doc}) /\ tab' = Without(Docs \ {flow.doc})
  /\ active' = flow.doc
  /\ load' = NoLoad
  /\ Overlap(Mark("others", editing /\ (active # flow.doc \/ Astray)))
  /\ flow' = NoFlow
  /\ UNCHANGED editor

GoCloseAll ==
  /\ flow.op = "closeAll" /\ \A d \in flow.left : ~tab[d].dirty
  /\ Remove(tabs) /\ tab' = Without(Docs)
  /\ Home
  /\ flow' = NoFlow
  /\ UNCHANGED overlaps

\* The rest of a handler runs before anything else.
Go ==
  /\ flow.stage = "go"
  /\ GoSwitch \/ GoClose \/ GoCloseOthers \/ GoCloseAll \/ \E d \in Docs : GoAsk(d)
  /\ UNCHANGED <<files, bundle, save, drafts>>

SaveSteps == ServerSaves \/ SaveAnswered \/ SaveDone \/ ConflictReloaded

User ==
  \/ StartEdit \/ LeaveEdit \/ Type \/ Undo \/ SaveKey \/ GoHome
  \/ SaveGivenUp \/ ConflictReload
  \/ AnswerCancel \/ AnswerDiscard \/ AnswerSave \/ CloseTabs("closeAll", None)
  \/ \E d \in Docs : Open(d) \/ SwitchTab(d) \/ CloseTab(d) \/ CloseTabs("closeOthers", d)

Events ==
  \/ EditorMounted \/ SaveSteps \/ LoadArrives \/ LoadRendered \/ PollAnswered
  \/ \E d \in Docs : Foreign(d) \/ PollAsks(d)

Next == Go \/ (flow.stage # "go" /\ (User \/ Events))

\* Requests are answered.  The interval asks about every tab in turn, and is long enough
\* for a load not to be overtaken by the next one for ever.
Fairness ==
  /\ WF_vars(Go) /\ WF_vars(LoadRendered) /\ WF_vars(PollAnswered)
  /\ SF_vars(LoadArrives)
  /\ \A d \in Docs : SF_vars(PollAsks(d))

Spec == Init /\ [][Next]_vars
FairSpec == Spec /\ Fairness
-----------------------------------------------------------------------------
(* Properties.                                                             *)

Texts == {Blank} \union {<<d, n>> : d \in Docs, n \in 0..MaxTexts}
Stamps == 0..MaxWrites
DocOrNone == Docs \union {None}
Tab == [content : Texts, original : Texts, mtime : Stamps, dirty : BOOLEAN, changed : BOOLEAN]

TypeOK ==
  /\ disk \in [Docs -> [text : Texts, mtime : Stamps]]
  /\ made \in 0..MaxTexts /\ clock \in Stamps
  /\ tabs \subseteq Docs /\ tab \in [Docs -> Tab] /\ active \in tabs \union {None}
  /\ editing \in BOOLEAN /\ buffer \in Texts /\ owner \in DocOrNone /\ basis \in Texts
  /\ (editing <=> owner # None) /\ (editing => active # None)
  /\ bundle \in {"absent", "coming", "here"}
  /\ load \in [doc : DocOrNone, stage : {"none", "read", "shown"}, text : Texts,
               mtime : Stamps, again : BOOLEAN]
  /\ poll \in [doc : tabs \union {None}, mtime : Stamps]
  /\ save \in [doc : DocOrNone, text : Texts, basis : Texts, mtime : Stamps, exit : BOOLEAN,
               stage : {"none", "sent", "written", "conflict", "rendering", "reloading"}]
  /\ flow \in [op : {"none", "switch", "open", "exit", "close", "closeOthers", "closeAll"},
               doc : DocOrNone, asked : DocOrNone, left : SUBSET Docs,
               stage : {"none", "ask", "save", "go"}]
  /\ drafts \in [Docs -> Texts]
  /\ overlaps \subseteq MayOverlap

NoneOf(bad) == overlaps \intersect bad = {}

\* Neither a file nor a tab ever gets the text that was written for another document,
\* over switching, closing and saving background tabs with one editor for all of them
\* (activateTabForSave; ui-tests, "saving a dirty background tab writes that tab, not the
\* active editor").
DocumentsStayApart ==
  NoneOf({"load", "mount", "others"}) =>
    /\ \A d \in Docs : disk[d].text[1] = d
    /\ \A d \in tabs : tab[d].original[1] = d /\ tab[d].content[1] = d

\* What the user typed last for a document and has neither saved nor given up is in its
\* tab, and the tab is marked, so that closing it asks (syncActiveTabDirty, closeTab).
DraftsAreKept ==
  NoneOf({"load", "mount", "others", "resume", "type"}) =>
    \A d \in Docs : drafts[d] # Blank =>
      d \in tabs /\ tab[d].dirty /\ tab[d].content = drafts[d]

\* The time a tab sends as the expected one stands for the text the tab takes to be in
\* the file: if it is still the file's, so is the text (loadFile, applySavedMtime).
MtimeStandsForText ==
  \A d \in tabs : tab[d].mtime = disk[d].mtime => tab[d].original = disk[d].text

\* A save replaces the text the editor was opened on, and no later one that the user
\* never saw, though tabs are reloaded behind the editor's back.
SavesReplaceWhatWasRead ==
  [][NoneOf({"load", "others"}) /\ save.stage = "sent" /\ save'.stage = "written" =>
       disk[save.doc].text = save.basis]_vars

\* A tab without unsaved text shows what it takes to be in its file (a discarded draft is
\* not left in it).
CleanTabsShowTheirFile ==
  NoneOf({"undo"}) => \A d \in tabs : ~tab[d].dirty => tab[d].content = tab[d].original

\* The document on the page, when it is not edited and its tab does not carry the mark of
\* a change, is in time the one on disk (startAutoReload).
Behind(d) ==
  active = d /\ ~editing /\ ~tab[d].dirty /\ ~tab[d].changed /\ tab[d].mtime # disk[d].mtime
ReloadCatchesUp == \A d \in Docs : Behind(d) ~> ~Behind(d)

\* Choosing "reload" when a save conflicts gives the local changes up
\* (assets/index.html, save-conflict-modal).
ReloadDiscards == [][ConflictReload => ~tab'[active'].dirty]_vars
=============================================================================

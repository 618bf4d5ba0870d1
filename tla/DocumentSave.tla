---------------------------- MODULE DocumentSave ----------------------------
(***************************************************************************)
(* Reading and saving one document: /api/file (h_file), /api/save (h_save),*)
(* the "save as" dialog (h_dialog_save_as), and py_save_text_atomic with   *)
(* write_bytes_atomic below them.                                          *)
(*                                                                         *)
(* Each request is served by a thread of its own, and no lock is held: the *)
(* look at the modification time, the backup, the temporary file and the   *)
(* rename are separate calls of the file system, between which other       *)
(* requests and other programs go on.                                      *)
(***************************************************************************)
EXTENDS Naturals, FiniteSets

CONSTANTS
  Pages,          \* windows, each with at most one request at a time
  MaxSaves,       \* bound: the saves of each page
  MaxForeign,     \* bound: writes by other programs
  Troubles,       \* what may happen on the way, see trouble
  MaxTroubles,    \* bound: how many of these in one run
  None,           \* no file, or no text
  Original,
  Torn            \* a file that was begun and not completed

ASSUME SaveAssumption ==
  /\ MaxSaves \in [Pages -> Nat] /\ MaxForeign \in Nat /\ MaxTroubles \in Nat
  /\ Troubles \subseteq {"race", "tick", "refused", "failed", "short", "killed"}
  /\ None # Original /\ None # Torn /\ Original # Torn

VARIABLES
  disk,      \* [text, mtime] of the document
  bak,       \* the text of <document>.bak
  tmp,       \* each request's temporary file, [text, mtime]
  clock,     \* the time in milliseconds
  foreign,   \* writes by other programs so far
  pc,        \* where each page's request is
  base,      \* the text the page takes the file to hold
  expected,  \* the modification time it goes with
  forced,    \* was the request a "save as", which expects nothing?
  copied,    \* the text the request is copying to the backup
  saves,     \* saves each page has asked for
  trouble    \* history: what has happened, of
             \*   "race"     a load, a save or a foreign write during another request
             \*   "tick"     two writes in one millisecond
             \*   "refused"  a rename (an open handle on Windows)
             \*   "failed"   a temporary file, half way (a full disk)
             \*   "short"    a copy or a write in place, half way
             \*   "killed"   the process, once

files == <<disk, bak, tmp, clock>>
pages == <<base, expected, forced, copied, saves>>
vars == <<files, foreign, pc, pages, trouble>>

Labels == {"idle", "loading", "check", "backup", "copy", "tmp", "tmpEnd", "rename",
           "direct", "directEnd", "answer"}
OwnTexts == UNION {{p} \X (1..MaxSaves[p]) : p \in Pages}
Foreigns == {"other"} \X (1..MaxForeign)
Texts    == {None, Original, Torn} \union OwnTexts \union Foreigns
ASSUME TextAssumption == {None, Torn} \intersect (OwnTexts \union Foreigns) = {}

NoFile == [text |-> None, mtime |-> 0]

Own(p) == <<p, saves[p]>>
Goto(p, label) == pc' = [pc EXCEPT ![p] = label]
Quiet == \A p \in Pages : pc[p] = "idle"

Suffer(what) == trouble' = trouble \union what

\* A request or a write begins, perhaps while another request is being served.
Begins == Suffer(IF Quiet THEN {} ELSE {"race"})

\* The modification times a write can get.
Now == {clock, clock + 1}

\* A file is written at time t, perhaps in the millisecond of the last write.
Written(t) ==
  /\ clock' = t
  /\ Suffer(IF t = clock THEN {"tick"} ELSE {})

Init ==
  /\ disk \in {NoFile, [text |-> Original, mtime |-> 1]}
  /\ bak = None
  /\ tmp = [p \in Pages |-> NoFile]
  /\ clock = 1
  /\ foreign = 0
  /\ pc = [p \in Pages |-> "idle"]
  /\ base = [p \in Pages |-> None]
  /\ expected = [p \in Pages |-> 0]
  /\ forced = [p \in Pages |-> FALSE]
  /\ copied = [p \in Pages |-> None]
  /\ saves = [p \in Pages |-> 0]
  /\ trouble = {}
-----------------------------------------------------------------------------
(* Loading: h_file reads the text, and then the modification time again.   *)

LoadText(p) ==
  /\ pc[p] = "idle"
  /\ disk.text # None
  /\ base' = [base EXCEPT ![p] = disk.text]
  /\ Goto(p, "loading") /\ Begins
  /\ UNCHANGED <<files, foreign, expected, forced, copied, saves>>

LoadTime(p) ==
  /\ pc[p] = "loading"
  /\ expected' = [expected EXCEPT ![p] = disk.mtime]
  /\ Goto(p, "idle")
  /\ UNCHANGED <<files, foreign, base, forced, copied, saves, trouble>>
-----------------------------------------------------------------------------
(* Saving.                                                                 *)

\* The page has loaded the document and saves it, or the user picks it in the dialog.
Ask(p, as) ==
  /\ pc[p] = "idle"
  /\ saves[p] < MaxSaves[p]
  /\ as \/ base[p] # None
  /\ saves' = [saves EXCEPT ![p] = @ + 1]
  /\ forced' = [forced EXCEPT ![p] = as]
  /\ Goto(p, "check") /\ Begins
  /\ UNCHANGED <<files, foreign, base, expected, copied>>

\* The request is over, and the page is told; how its own variables end is nothing
\* to anyone.
GiveUp(p) ==
  /\ Goto(p, "idle")
  /\ forced' = [forced EXCEPT ![p] = FALSE]
  /\ UNCHANGED <<base, expected, saves>>

\* The text cannot be written in the document's encoding: answered before anything
\* is done.
Unrepresentable(p) ==
  /\ pc[p] = "check"
  /\ GiveUp(p)
  /\ UNCHANGED <<files, foreign, copied, trouble>>

\* The modification time is the one the page expects.  A page whose time is 0, of a file
\* that was gone when it was asked, sends none.
Matches(p) == \/ forced[p] \/ expected[p] = 0
              \/ disk.text # None /\ disk.mtime = expected[p]

\* Mutant: whatever time the page expects, the save goes on.
CheckTimeIgnored(p) ==
  /\ pc[p] = "check"
  /\ Goto(p, IF disk.text = None THEN "tmp" ELSE "backup")
  /\ UNCHANGED <<files, foreign, pages, trouble>>

\* Only a file that is there when the request looks can need a backup.
CheckTime(p) ==
  /\ pc[p] = "check" /\ Matches(p)
  /\ Goto(p, IF disk.text = None THEN "tmp" ELSE "backup")
  /\ UNCHANGED <<files, foreign, pages, trouble>>

\* The file is gone, or has another modification time: a conflict.
Conflict(p) ==
  /\ pc[p] = "check" /\ ~Matches(p)
  /\ GiveUp(p)
  /\ UNCHANGED <<files, foreign, copied, trouble>>

\* Mutant: every save takes a backup.
BackupAlways(p) ==
  /\ pc[p] = "backup" /\ disk.text # None
  /\ bak' = Torn
  /\ copied' = [copied EXCEPT ![p] = disk.text]
  /\ Goto(p, "copy")
  /\ UNCHANGED <<disk, tmp, clock, foreign, base, expected, forced, saves, trouble>>

\* Only the first save of an existing file takes a backup: fs::copy opens the file
\* and truncates the backup,
BackupBegins(p) ==
  /\ pc[p] = "backup" /\ bak = None /\ disk.text # None
  /\ bak' = Torn
  /\ copied' = [copied EXCEPT ![p] = disk.text]
  /\ Goto(p, "copy")
  /\ UNCHANGED <<disk, tmp, clock, foreign, base, expected, forced, saves, trouble>>

\* and then writes it,
BackupEnds(p) ==
  /\ pc[p] = "copy"
  /\ bak' = copied[p]
  /\ copied' = [copied EXCEPT ![p] = None]
  /\ Goto(p, "tmp")
  /\ UNCHANGED <<disk, tmp, clock, foreign, base, expected, forced, saves, trouble>>

\* or fails, because the file is gone or half way, and the save is given up.
BackupFails(p) ==
  /\ \/ pc[p] = "backup" /\ bak = None /\ disk.text = None /\ UNCHANGED trouble
     \/ pc[p] = "copy" /\ Suffer({"short"})
  /\ copied' = [copied EXCEPT ![p] = None]
  /\ GiveUp(p)
  /\ UNCHANGED <<files, foreign>>

\* Mutant: a save may go on without the backup.
NoBackupEver(p) ==
  /\ pc[p] = "backup"
  /\ Goto(p, "tmp")
  /\ UNCHANGED <<files, foreign, pages, trouble>>

\* There is a backup already.
NoBackup(p) ==
  /\ pc[p] = "backup" /\ bak # None
  /\ Goto(p, "tmp")
  /\ UNCHANGED <<files, foreign, pages, trouble>>
-----------------------------------------------------------------------------
(* write_bytes_atomic: a temporary file, renamed over the document.        *)

\* Mutant: the document itself is opened and truncated.
TmpBeginsInPlace(p) ==
  /\ pc[p] = "tmp"
  /\ disk' = [disk EXCEPT !.text = Torn]
  /\ Goto(p, "tmpEnd")
  /\ UNCHANGED <<bak, tmp, clock, foreign, pages, trouble>>

TmpBegins(p) ==
  /\ pc[p] = "tmp"
  /\ tmp' = [tmp EXCEPT ![p].text = Torn]
  /\ Goto(p, "tmpEnd")
  /\ UNCHANGED <<disk, bak, clock, foreign, pages, trouble>>

\* The text is flushed to the temporary file before the rename.
TmpEnds(p) ==
  /\ pc[p] = "tmpEnd"
  /\ \E t \in Now : Written(t) /\ tmp' = [tmp EXCEPT ![p] = [text |-> Own(p), mtime |-> t]]
  /\ Goto(p, "rename")
  /\ UNCHANGED <<disk, bak, foreign, pages>>

\* The error returns at once, and what was written of the temporary file stays.
TmpFails(p) ==
  /\ pc[p] \in {"tmp", "tmpEnd"}
  /\ GiveUp(p) /\ Suffer({"failed"})
  /\ UNCHANGED <<files, foreign, copied>>

\* The document takes the text and the modification time of the temporary file.
Rename(p) ==
  /\ pc[p] = "rename"
  /\ disk' = tmp[p]
  /\ tmp' = [tmp EXCEPT ![p] = NoFile]
  /\ Goto(p, "answer")
  /\ UNCHANGED <<bak, clock, foreign, pages, trouble>>

\* The rename is refused: the document is written in place,
RenameRefused(p) ==
  /\ pc[p] = "rename"
  /\ Goto(p, "direct") /\ Suffer({"refused"})
  /\ UNCHANGED <<files, foreign, pages>>

DirectBegins(p) ==
  /\ pc[p] = "direct"
  /\ \E t \in Now : Written(t) /\ disk' = [text |-> Torn, mtime |-> t]
  /\ Goto(p, "directEnd")
  /\ UNCHANGED <<bak, tmp, foreign, pages>>

\* Mutant: the temporary file is left behind.
DirectEndsKeepsTmp(p) ==
  /\ pc[p] = "directEnd"
  /\ \E t \in Now : Written(t) /\ disk' = [text |-> Own(p), mtime |-> t]
  /\ Goto(p, "answer")
  /\ UNCHANGED <<bak, tmp, foreign, pages>>

\* and the temporary file removed, whether that worked
DirectEnds(p) ==
  /\ pc[p] = "directEnd"
  /\ \E t \in Now : Written(t) /\ disk' = [text |-> Own(p), mtime |-> t]
  /\ tmp' = [tmp EXCEPT ![p] = NoFile]
  /\ Goto(p, "answer")
  /\ UNCHANGED <<bak, foreign, pages>>

\* or not.
DirectFails(p) ==
  /\ \/ pc[p] = "direct" /\ UNCHANGED trouble
     \/ pc[p] = "directEnd" /\ Suffer({"short"})
  /\ tmp' = [tmp EXCEPT ![p] = NoFile]
  /\ GiveUp(p)
  /\ UNCHANGED <<disk, bak, clock, foreign, copied>>

\* The answer reads the modification time once more, and the page keeps it with the
\* text it sent (applySavedMtime, renderSavedDocument).
Answer(p) ==
  /\ pc[p] = "answer"
  /\ base' = [base EXCEPT ![p] = Own(p)]
  /\ expected' = [expected EXCEPT ![p] = disk.mtime]
  /\ forced' = [forced EXCEPT ![p] = FALSE]
  /\ Goto(p, "idle")
  /\ UNCHANGED <<files, foreign, copied, saves, trouble>>
-----------------------------------------------------------------------------
(* The environment.                                                        *)

\* Another program writes the document, or deletes it, also during a request.
Foreign ==
  /\ foreign < MaxForeign
  /\ foreign' = foreign + 1
  /\ \/ \E t \in Now : clock' = t /\ disk' = [text |-> <<"other", foreign + 1>>, mtime |-> t]
     \/ disk' = NoFile /\ UNCHANGED clock
  /\ Suffer((IF Quiet THEN {} ELSE {"race"})
            \union (IF disk'.mtime = clock THEN {"tick"} ELSE {}))
  /\ UNCHANGED <<bak, tmp, pc, pages>>

\* The process is killed; the pages are part of it.
Crash ==
  /\ "killed" \notin trouble
  /\ Suffer({"killed"})
  /\ pc' = [p \in Pages |-> "idle"]
  /\ base' = [p \in Pages |-> None]
  /\ expected' = [p \in Pages |-> 0]
  /\ forced' = [p \in Pages |-> FALSE]
  /\ copied' = [p \in Pages |-> None]
  /\ UNCHANGED <<files, foreign, saves>>

Serve(p) ==
  \/ LoadTime(p) \/ Unrepresentable(p) \/ CheckTime(p) \/ Conflict(p)
  \/ BackupBegins(p) \/ BackupEnds(p) \/ BackupFails(p) \/ NoBackup(p)
  \/ TmpBegins(p) \/ TmpEnds(p) \/ TmpFails(p)
  \/ Rename(p) \/ RenameRefused(p) \/ DirectBegins(p) \/ DirectEnds(p) \/ DirectFails(p)
  \/ Answer(p)

Next ==
  /\ \/ \E p \in Pages : LoadText(p) \/ Ask(p, TRUE) \/ Ask(p, FALSE) \/ Serve(p)
     \/ Foreign \/ Crash
  /\ trouble' \subseteq Troubles /\ Cardinality(trouble') <= MaxTroubles

Spec == Init /\ [][Next]_vars
-----------------------------------------------------------------------------
(* Properties.                                                             *)

File == [text : Texts, mtime : Nat]

\* A page that expects a time has loaded or saved the document; only a request that
\* has got so far has a temporary file of its own text.
TypeOK ==
  /\ disk \in File /\ bak \in Texts /\ tmp \in [Pages -> File]
  /\ clock \in Nat /\ disk.mtime <= clock /\ \A p \in Pages : tmp[p].mtime <= clock
  /\ foreign \in 0..MaxForeign
  /\ pc \in [Pages -> Labels]
  /\ base \in [Pages -> Texts] /\ expected \in [Pages -> 0..clock]
  /\ forced \in [Pages -> BOOLEAN]
  /\ copied \in [Pages -> Texts]
  /\ saves \in [Pages -> Nat] /\ \A p \in Pages : saves[p] <= MaxSaves[p]
  /\ trouble \subseteq Troubles
  /\ \A p \in Pages : pc[p] \notin {"idle", "loading"} => saves[p] > 0
  /\ \A p \in Pages : pc[p] \in {"rename", "direct"} => tmp[p].text = Own(p)

Spared(what) == trouble' \intersect what = {}

\* The step with which a save ends the old text of the document.
Replaces(p) == <<pc[p], pc'[p]>> \in {<<"rename", "answer">>, <<"direct", "directEnd">>}

\* As long as no rename was refused the document is never seen half written, whoever
\* saves at the same time, whatever fails, and also not after a crash ("Atomic write:
\* tmp file in the same directory then rename", write_text_atomic).
NeverTorn == "refused" \notin trouble => disk.text # Torn

\* Before the first save replaces a document, its text is in the backup (docs/CONTEXT.md:25,
\* "Ctrl+S" saves with an automatic .bak), unless requests overlap or a copy was left half
\* way: what is there then counts as a backup.
BackedUpFirst ==
  [][Spared({"race", "short", "killed"}) =>
       \A p \in Pages : Replaces(p) /\ disk.text # None => bak \notin {None, Torn}]_vars

\* A backup that was completed is never written again: it is the oldest text
\* (py_save_text_atomic, "!backup_path.exists()").  Two first saves at once both copy.
BackupKept == [][Spared({"race"}) /\ bak \notin {None, Torn} => bak' = bak]_vars

\* When no request is being served there is no temporary file, whether renames were
\* refused and whether the direct write failed then, unless a temporary file itself
\* could not be written or the process was killed (write_bytes_atomic returns at once
\* in the former case, and nothing sweeps temporary files).
NoTmpLeft ==
  Quiet /\ trouble \intersect {"failed", "killed"} = {} => \A p \in Pages : tmp[p] = NoFile

knownBar == [p \in Pages |-> IF pc[p] = "answer" THEN Own(p) ELSE base[p]]
askedBar == [p \in Pages |-> IF pc[p] \in {"idle", "loading"} THEN "nothing"
                             ELSE IF forced[p] THEN "save as" ELSE "save"]
Checked == INSTANCE CheckedSave WITH text <- disk.text, known <- knownBar, asked <- askedBar

\* Saving is one compare-and-replace, full disks and a crash included, until requests
\* overlap, two writes fall into one millisecond, or a rename is refused
\* (py_save_text_atomic, "a stale editor state comes back as the four-key conflict dict").
CheckedSpec ==
  Checked!Init /\ [][Spared({"race", "tick", "refused"}) => Checked!Next]_(Checked!vars)
=============================================================================

---------------------------- MODULE CheckedSave ----------------------------
(***************************************************************************)
(* What saving with an expected modification time promises to the user: a  *)
(* document on disk that several pages and other programs write, where the *)
(* save of a page succeeds only on top of the text that page last saw, as  *)
(* if it compared and replaced the file in one step.  No time stamps, no   *)
(* temporary files and no backup.                                          *)
(***************************************************************************)
CONSTANTS
  Pages,
  Texts,     \* what the file can hold, None when it does not exist included
  None

VARIABLES
  text,      \* what the file holds
  known,     \* [Pages -> Texts]: what each page takes the file to hold
  asked      \* what each page has asked for: "nothing", "save" or "save as"

vars == <<text, known, asked>>

Init ==
  /\ text \in Texts
  /\ known = [p \in Pages |-> None]
  /\ asked = [p \in Pages |-> "nothing"]

Load(p) ==
  /\ known' = [known EXCEPT ![p] = text]
  /\ UNCHANGED <<text, asked>>

Ask(p, what) ==
  /\ asked[p] = "nothing"
  /\ asked' = [asked EXCEPT ![p] = what]
  /\ UNCHANGED <<text, known>>

\* The page is answered, whether it was served or not.
Answer(p) ==
  /\ asked' = [asked EXCEPT ![p] = "nothing"]
  /\ UNCHANGED <<text, known>>

\* Only a save over the text the page knows replaces it.
Save(p, t) ==
  /\ asked[p] = "save" /\ text = known[p]
  /\ text' = t
  /\ known' = [known EXCEPT ![p] = t]
  /\ UNCHANGED asked

\* The user chose the file in the "save as" dialog.
SaveAs(p, t) ==
  /\ asked[p] = "save as"
  /\ text' = t
  /\ known' = [known EXCEPT ![p] = t]
  /\ UNCHANGED asked

Foreign(t) ==
  /\ text' = t
  /\ UNCHANGED <<known, asked>>

\* The pages are gone; the document is what it was.
Crash ==
  /\ known' = [p \in Pages |-> None]
  /\ asked' = [p \in Pages |-> "nothing"]
  /\ UNCHANGED text

Next ==
  \/ \E p \in Pages : Load(p) \/ Ask(p, "save") \/ Ask(p, "save as") \/ Answer(p)
  \/ \E p \in Pages, t \in Texts : Save(p, t) \/ SaveAs(p, t)
  \/ \E t \in Texts : Foreign(t)
  \/ Crash

Spec == Init /\ [][Next]_vars
=============================================================================

------------------------ MODULE DocumentSaveProofs ------------------------
(***************************************************************************)
(* What holds of DocumentSave for every set of pages and every bound: the  *)
(* document is whole, temporary files go, the backup is the oldest text,   *)
(* and a save is one compare-and-replace.                                  *)
(***************************************************************************)
EXTENDS DocumentSave, TLAPS

NoneOf(what) == trouble \intersect what = {}

\* Only the fallback of a refused rename writes in place.
Whole ==
  "refused" \notin trouble =>
    /\ disk.text # Torn
    /\ \A p \in Pages : pc[p] \notin {"direct", "directEnd"}

\* A temporary file belongs to a request that is between its first write and its end.
TmpOwned ==
  NoneOf({"failed", "killed"}) =>
    \A p \in Pages : tmp[p] # NoFile => pc[p] \in {"tmpEnd", "rename", "direct", "directEnd"}

\* Requests that do not overlap: one at a time.
OneRequest ==
  NoneOf({"race"}) =>
    /\ \A p, q \in Pages : pc[p] # "idle" /\ pc[q] # "idle" => p = q
    /\ \A p \in Pages : pc[p] = "copy" => bak = Torn

\* A torn backup or document is one that is being written.
Backed ==
  NoneOf({"race", "short", "killed"}) =>
    /\ bak = Torn => \E p \in Pages : pc[p] = "copy"
    /\ disk.text = Torn => \E p \in Pages : pc[p] = "directEnd"
    /\ \A p \in Pages :
         /\ pc[p] = "copy" => copied[p] \notin {None, Torn}
         /\ pc[p] \in {"tmp", "tmpEnd", "rename", "direct"} /\ disk.text # None => bak # None

\* A time stands for the text it was read with, and a request that has passed the check
\* has the page's text still in front of it.
Stamped ==
  NoneOf({"race", "tick", "refused"}) =>
    /\ disk.text # None => disk.mtime # 0
    /\ \A p \in Pages :
         /\ pc[p] # "loading" /\ base[p] # None => expected[p] # 0
         /\ pc[p] \notin {"loading", "answer"} /\ base[p] # None /\ expected[p] = disk.mtime
              => disk.text = base[p]
         /\ pc[p] = "loading" => disk.text = base[p] /\ base[p] # None
         /\ pc[p] \in {"backup", "copy", "tmp", "tmpEnd", "rename"} /\ ~forced[p]
              => disk.text = base[p]
         /\ pc[p] = "check" /\ ~forced[p] => base[p] # None
         /\ pc[p] = "rename" => /\ tmp[p].mtime > disk.mtime
                                /\ \A q \in Pages : tmp[p].mtime > expected[q]
         /\ pc[p] = "answer" => disk.text = Own(p)
-----------------------------------------------------------------------------
LEMMA TextFacts ==
  ASSUME TypeOK, NEW p \in Pages, saves[p] > 0
  PROVE  Own(p) \in Texts /\ Own(p) # Torn /\ Own(p) # None
<1>1. saves[p] \in 1..MaxSaves[p]
  BY SaveAssumption DEF TypeOK
<1>2. Own(p) \in OwnTexts
  BY <1>1 DEF Own, OwnTexts
<1>3. QED
  BY <1>2, TextAssumption DEF Texts

\* What has not happened after a step had not happened before it.
LEMMA TroubleGrows ==
  ASSUME NEW what, Suffer(what)
  PROVE  trouble \subseteq trouble' /\ what \subseteq trouble'
BY DEF Suffer

THEOREM InitType == Init => TypeOK
<1> SUFFICES ASSUME Init PROVE TypeOK
  OBVIOUS
<1>1. NoFile \in File /\ [text |-> Original, mtime |-> 1] \in File /\ None \in Texts
  BY DEF NoFile, File, Texts
<1>2. disk \in File /\ disk.mtime <= clock
  BY <1>1 DEF Init, NoFile
<1>3. tmp \in [Pages -> File] /\ \A p \in Pages : tmp[p].mtime <= clock
  BY <1>1 DEF Init, NoFile
<1>4. QED
  BY <1>1, <1>2, <1>3, SaveAssumption DEF Init, TypeOK, Labels

\* The steps that change nothing of what files and pages hold.
LEMMA StayType ==
  ASSUME TypeOK, NEW p \in Pages, NEW l \in Labels, Goto(p, l),
         trouble' \subseteq Troubles,
         l \notin {"idle", "loading"} => saves[p] > 0,
         l \in {"rename", "direct"} => tmp[p].text = Own(p),
         UNCHANGED <<files, foreign, pages>>
  PROVE  TypeOK'
<1>1. pc' \in [Pages -> Labels]
  BY DEF TypeOK, Goto
<1>2. \A q \in Pages : pc'[q] = IF q = p THEN l ELSE pc[q]
  BY DEF TypeOK, Goto
<1>3. QED
  BY <1>1, <1>2 DEF TypeOK, files, pages, Own

LEMMA GiveUpType ==
  ASSUME TypeOK, NEW p \in Pages, GiveUp(p), trouble' \subseteq Troubles,
         copied' \in [Pages -> Texts], UNCHANGED <<files, foreign>>
  PROVE  TypeOK'
<1>1. pc' \in [Pages -> Labels] /\ \A q \in Pages : pc'[q] = IF q = p THEN "idle" ELSE pc[q]
  BY DEF TypeOK, Goto, GiveUp, Labels
<1>2. forced' \in [Pages -> BOOLEAN]
  BY DEF TypeOK, GiveUp
<1>3. QED
  BY <1>1, <1>2 DEF TypeOK, files, GiveUp, Own

LEMMA WrittenNow ==
  ASSUME TypeOK, NEW t \in Now, Written(t)
  PROVE  t \in Nat /\ clock \in Nat /\ clock' = t /\ clock <= clock'
BY DEF TypeOK, Now, Written

THEOREM NextType == TypeOK /\ [Next]_vars => TypeOK'
<1> SUFFICES ASSUME TypeOK, [Next]_vars PROVE TypeOK'
  OBVIOUS
<1>1. CASE UNCHANGED vars
  BY <1>1 DEF TypeOK, vars, files, pages, Own
<1>2. CASE Next
  <2> USE <1>2 DEF Next
  <2>1. ASSUME NEW p \in Pages, LoadText(p) PROVE TypeOK'
    <3>1. base' \in [Pages -> Texts] /\ pc' \in [Pages -> Labels]
      BY <2>1 DEF LoadText, TypeOK, File, Goto, Labels
    <3>2. \A q \in Pages : pc'[q] = IF q = p THEN "loading" ELSE pc[q]
      BY <2>1 DEF LoadText, TypeOK, Goto
    <3>3. QED
      BY <2>1, <3>1, <3>2 DEF LoadText, TypeOK, files, Own
  <2>2. ASSUME NEW p \in Pages, LoadTime(p) PROVE TypeOK'
    <3>1. expected' \in [Pages -> 0..clock] /\ pc' \in [Pages -> Labels]
      BY <2>2 DEF LoadTime, TypeOK, File, Goto, Labels
    <3>2. \A q \in Pages : pc'[q] = IF q = p THEN "idle" ELSE pc[q]
      BY <2>2 DEF LoadTime, TypeOK, Goto
    <3>3. QED
      BY <2>2, <3>1, <3>2 DEF LoadTime, TypeOK, files, Own
  <2>3. ASSUME NEW p \in Pages, NEW as \in BOOLEAN, Ask(p, as) PROVE TypeOK'
    <3>1. forced' \in [Pages -> BOOLEAN]
      BY <2>3 DEF Ask, TypeOK
    <3>2. /\ pc' \in [Pages -> Labels]
          /\ \A q \in Pages : pc'[q] = IF q = p THEN "check" ELSE pc[q]
      BY <2>3 DEF Ask, TypeOK, Goto, Labels
    <3>3. /\ saves' \in [Pages -> Nat]
          /\ \A q \in Pages : saves'[q] = IF q = p THEN saves[q] + 1 ELSE saves[q]
      BY <2>3 DEF Ask, TypeOK
    <3>4. \A q \in Pages : saves'[q] <= MaxSaves[q]
      BY <2>3, <3>3, SaveAssumption DEF Ask, TypeOK
    <3>5. /\ \A q \in Pages : pc'[q] \notin {"idle", "loading"} => saves'[q] > 0
          /\ \A q \in Pages : pc'[q] \in {"rename", "direct"} => tmp'[q].text = Own(q)'
      BY <2>3, <3>2, <3>3 DEF Ask, TypeOK, files, Own
    <3>6. QED
      BY <2>3, <3>1, <3>2, <3>3, <3>4, <3>5 DEF Ask, TypeOK, files
  <2>4. ASSUME NEW p \in Pages, Unrepresentable(p) \/ Conflict(p) \/ TmpFails(p) PROVE TypeOK'
    <3>1. GiveUp(p) /\ UNCHANGED <<files, foreign, copied>>
      BY <2>4 DEF Unrepresentable, Conflict, TmpFails
    <3>2. copied' \in [Pages -> Texts]
      BY <3>1 DEF TypeOK
    <3>3. QED
      BY <3>1, <3>2, GiveUpType
  <2>5. ASSUME NEW p \in Pages, CheckTime(p) PROVE TypeOK'
    <3> DEFINE l == IF disk.text = None THEN "tmp" ELSE "backup"
    <3>1. l \in Labels /\ l \notin {"rename", "direct"} /\ saves[p] > 0
      BY <2>5 DEF Labels, CheckTime, TypeOK
    <3>2. Goto(p, l) /\ UNCHANGED <<files, foreign, pages>>
      BY <2>5 DEF CheckTime
    <3> HIDE DEF l
    <3>3. QED
      BY <3>1, <3>2, StayType
  <2>6. ASSUME NEW p \in Pages, BackupBegins(p) PROVE TypeOK'
    <3>1. /\ copied' \in [Pages -> Texts] /\ bak' \in Texts /\ pc' \in [Pages -> Labels]
          /\ \A q \in Pages : pc'[q] = IF q = p THEN "copy" ELSE pc[q]
      BY <2>6 DEF BackupBegins, TypeOK, File, Texts, Goto, Labels
    <3>2. QED
      BY <2>6, <3>1 DEF BackupBegins, TypeOK, Own
  <2>7. ASSUME NEW p \in Pages, BackupEnds(p) PROVE TypeOK'
    <3>1. /\ copied' \in [Pages -> Texts] /\ bak' \in Texts /\ pc' \in [Pages -> Labels]
          /\ \A q \in Pages : pc'[q] = IF q = p THEN "tmp" ELSE pc[q]
      BY <2>7 DEF BackupEnds, TypeOK, Texts, Goto, Labels
    <3>2. QED
      BY <2>7, <3>1 DEF BackupEnds, TypeOK, Own
  <2>8. ASSUME NEW p \in Pages, BackupFails(p) PROVE TypeOK'
    <3>1. copied' \in [Pages -> Texts]
      BY <2>8 DEF BackupFails, TypeOK, Texts
    <3>2. QED
      BY <2>8, <3>1, GiveUpType DEF BackupFails
  <2>9. ASSUME NEW p \in Pages, NoBackup(p) PROVE TypeOK'
    BY <2>9, StayType DEF NoBackup, Labels, TypeOK
  <2>10. ASSUME NEW p \in Pages, TmpBegins(p) PROVE TypeOK'
    <3>1. /\ pc' \in [Pages -> Labels]
          /\ \A q \in Pages : pc'[q] = IF q = p THEN "tmpEnd" ELSE pc[q]
      BY <2>10 DEF TmpBegins, TypeOK, Goto, Labels
    <3>2. /\ tmp' \in [Pages -> File]
          /\ \A q \in Pages : q # p => tmp'[q] = tmp[q]
          /\ tmp'[p].mtime = tmp[p].mtime
      BY <2>10 DEF TmpBegins, TypeOK, File, Texts
    <3>3. QED
      BY <2>10, <3>1, <3>2 DEF TmpBegins, TypeOK, pages, Own
  <2>11. ASSUME NEW p \in Pages, TmpEnds(p) PROVE TypeOK'
    <3>1. PICK t \in Now : Written(t) /\ tmp' = [tmp EXCEPT ![p] = [text |-> Own(p), mtime |-> t]]
      BY <2>11 DEF TmpEnds
    <3>2. /\ pc' \in [Pages -> Labels]
          /\ \A q \in Pages : pc'[q] = IF q = p THEN "rename" ELSE pc[q]
      BY <2>11 DEF TmpEnds, TypeOK, Goto, Labels
    <3>3. t \in Nat /\ clock' = t /\ clock <= clock'
      BY <3>1, WrittenNow
    <3>4. /\ tmp' \in [Pages -> File]
          /\ \A q \in Pages : tmp'[q] = IF q = p THEN [text |-> Own(p), mtime |-> t] ELSE tmp[q]
      BY <2>11, <3>1, <3>3, TextFacts DEF TypeOK, File, TmpEnds
    <3>5. expected' \in [Pages -> 0..clock'] /\ disk'.mtime <= clock'
          /\ \A q \in Pages : tmp'[q].mtime <= clock'
      BY <2>11, <3>3, <3>4 DEF TmpEnds, pages, TypeOK, File
    <3>6. Own(p)' = Own(p) /\ \A q \in Pages : Own(q)' = Own(q)
      BY <2>11 DEF TmpEnds, pages, Own
    <3>7. QED
      BY <2>11, <3>2, <3>3, <3>4, <3>5, <3>6 DEF TmpEnds, TypeOK, pages, Now
  <2>12. ASSUME NEW p \in Pages, Rename(p) PROVE TypeOK'
    <3>1. /\ pc' \in [Pages -> Labels]
          /\ \A q \in Pages : pc'[q] = IF q = p THEN "answer" ELSE pc[q]
      BY <2>12 DEF Rename, TypeOK, Goto, Labels
    <3>2. /\ tmp' \in [Pages -> File]
          /\ \A q \in Pages : tmp'[q] = IF q = p THEN NoFile ELSE tmp[q]
      BY <2>12 DEF Rename, TypeOK, File, Texts, NoFile
    <3>3. QED
      BY <2>12, <3>1, <3>2 DEF Rename, TypeOK, pages, Own, NoFile
  <2>13. ASSUME NEW p \in Pages, RenameRefused(p) PROVE TypeOK'
    BY <2>13, StayType DEF RenameRefused, Labels, TypeOK
  <2>14. ASSUME NEW p \in Pages, DirectBegins(p) \/ DirectEnds(p) PROVE TypeOK'
    <3>1. PICK t \in Now : Written(t)
      BY <2>14 DEF DirectBegins, DirectEnds
    <3>2. t \in Nat /\ clock' = t /\ clock <= clock' /\ clock \in Nat
      BY <3>1, WrittenNow
    <3>3. saves[p] > 0 /\ Own(p) \in Texts /\ Torn \in Texts
      BY <2>14, TextFacts DEF TypeOK, DirectBegins, DirectEnds, Texts
    <3>4. disk' \in File /\ disk'.mtime <= clock'
      BY <2>14, <3>2, <3>3 DEF DirectBegins, DirectEnds, Written, Now, File
    <3>5. /\ pc' \in [Pages -> Labels]
          /\ \A q \in Pages \ {p} : pc'[q] = pc[q]
          /\ pc'[p] \in {"directEnd", "answer"}
      BY <2>14 DEF DirectBegins, DirectEnds, TypeOK, Goto, Labels
    <3>6. /\ tmp' \in [Pages -> File]
          /\ \A q \in Pages \ {p} : tmp'[q] = tmp[q]
          /\ tmp'[p].mtime <= clock'
      BY <2>14, <3>2 DEF DirectBegins, DirectEnds, TypeOK, File, Texts, NoFile
    <3>7. UNCHANGED <<bak, foreign, pages>>
      BY <2>14 DEF DirectBegins, DirectEnds
    <3>8. /\ expected' \in [Pages -> 0..clock']
          /\ \A q \in Pages : tmp'[q].mtime <= clock'
      BY <3>2, <3>6, <3>7 DEF TypeOK, pages, File
    <3>9. /\ \A q \in Pages : pc'[q] \notin {"idle", "loading"} => saves'[q] > 0
          /\ \A q \in Pages : pc'[q] \in {"rename", "direct"} => tmp'[q].text = Own(q)'
      BY <3>3, <3>5, <3>6, <3>7 DEF TypeOK, pages, Own
    <3>10. QED
      BY <3>2, <3>4, <3>5, <3>6, <3>7, <3>8, <3>9 DEF TypeOK, pages
  <2>15. ASSUME NEW p \in Pages, DirectFails(p) PROVE TypeOK'
    <3>1. /\ tmp' \in [Pages -> File]
          /\ \A q \in Pages : tmp'[q] = IF q = p THEN NoFile ELSE tmp[q]
      BY <2>15 DEF DirectFails, TypeOK, File, Texts, NoFile
    <3>2. /\ pc' \in [Pages -> Labels] /\ forced' \in [Pages -> BOOLEAN]
          /\ \A q \in Pages : pc'[q] = IF q = p THEN "idle" ELSE pc[q]
      BY <2>15 DEF DirectFails, GiveUp, TypeOK, Goto, Labels
    <3>3. QED
      BY <2>15, <3>1, <3>2 DEF DirectFails, GiveUp, TypeOK, Own, NoFile
  <2>16. ASSUME NEW p \in Pages, Answer(p) PROVE TypeOK'
    <3>1. /\ base' \in [Pages -> Texts] /\ forced' \in [Pages -> BOOLEAN]
          /\ expected' \in [Pages -> 0..clock]
      BY <2>16, TextFacts DEF Answer, TypeOK, File
    <3>2. /\ pc' \in [Pages -> Labels]
          /\ \A q \in Pages : pc'[q] = IF q = p THEN "idle" ELSE pc[q]
      BY <2>16 DEF Answer, TypeOK, Goto, Labels
    <3>3. QED
      BY <2>16, <3>1, <3>2 DEF Answer, TypeOK, files, Own
  <2>17. CASE Foreign
    <3>1. foreign' \in 1..MaxForeign
      BY <2>17, SaveAssumption DEF Foreign, TypeOK
    <3>2. <<"other", foreign + 1>> \in Texts /\ None \in Texts
      BY <2>17, <3>1 DEF Foreign, Texts, Foreigns
    <3>3. clock' \in Nat /\ clock <= clock' /\ disk' \in File /\ disk'.mtime <= clock'
      <4>1. CASE disk' = NoFile /\ UNCHANGED clock
        BY <4>1, <3>2 DEF TypeOK, File, NoFile
      <4>2. CASE \E t \in Now : /\ clock' = t
                                /\ disk' = [text |-> <<"other", foreign + 1>>, mtime |-> t]
        BY <4>2, <3>2 DEF TypeOK, File, Now
      <4>3. QED
        BY <2>17, <4>1, <4>2 DEF Foreign
    <3>4. /\ expected' \in [Pages -> 0..clock']
          /\ \A q \in Pages : tmp'[q].mtime <= clock'
      BY <2>17, <3>3 DEF Foreign, TypeOK, File, pages
    <3>5. foreign' \in 0..MaxForeign
      BY <3>1, SaveAssumption
    <3>6. UNCHANGED <<bak, tmp, pc, pages>>
      BY <2>17 DEF Foreign
    <3>7. QED
      BY <3>3, <3>4, <3>5, <3>6 DEF TypeOK, pages, Own
  <2>18. CASE Crash
    <3>1. /\ pc' \in [Pages -> Labels] /\ base' \in [Pages -> Texts]
          /\ expected' \in [Pages -> 0..clock] /\ copied' \in [Pages -> Texts]
      BY <2>18 DEF Crash, TypeOK, Labels, Texts
    <3>2. QED
      BY <2>18, <3>1 DEF Crash, TypeOK, files, Own
  <2>19. QED
    BY <2>1, <2>2, <2>3, <2>4, <2>5, <2>6, <2>7, <2>8, <2>9, <2>10, <2>11, <2>12, <2>13,
       <2>14, <2>15, <2>16, <2>17, <2>18 DEF Serve
<1>3. QED
  BY <1>1, <1>2

\* Every variable has its type, and a request between its check and its answer has asked
\* for a save, whose text its finished temporary file holds.
THEOREM TypeCorrect == Spec => []TypeOK
BY InitType, NextType, PTL DEF Spec
-----------------------------------------------------------------------------
LEMMA Grows == [Next]_vars => trouble \subseteq trouble'
<1> USE DEF Suffer
<1>1. ASSUME NEW p \in Pages, LoadText(p) \/ Ask(p, TRUE) \/ Ask(p, FALSE)
      PROVE  trouble \subseteq trouble'
  BY <1>1 DEF LoadText, Ask, Begins
<1>2. ASSUME NEW p \in Pages, Serve(p) PROVE trouble \subseteq trouble'
  BY <1>2 DEF Serve, LoadTime, Unrepresentable, CheckTime, Conflict, BackupBegins, BackupEnds,
     BackupFails, NoBackup, TmpBegins, TmpEnds, TmpFails, Rename, RenameRefused, DirectBegins,
     DirectEnds, DirectFails, Answer, Written
<1>3. QED
  BY <1>1, <1>2 DEF Next, Foreign, Crash, vars

LEMMA NotBefore ==
  ASSUME [Next]_vars, NEW what, NoneOf(what)'
  PROVE  NoneOf(what)
BY Grows DEF NoneOf

\* Where a step leaves the requests: all but one where they are.
LEMMA OthersStay ==
  ASSUME TypeOK, NEW p \in Pages, NEW l, Goto(p, l)
  PROVE  \A q \in Pages : pc'[q] = IF q = p THEN l ELSE pc[q]
BY DEF TypeOK, Goto
-----------------------------------------------------------------------------
LEMMA WholeStep == TypeOK /\ Whole /\ [Next]_vars => Whole'
<1> SUFFICES ASSUME TypeOK, Whole, [Next]_vars, "refused" \notin trouble'
             PROVE  disk'.text # Torn /\ \A q \in Pages : pc'[q] \notin {"direct", "directEnd"}
  BY DEF Whole
<1>1. disk.text # Torn /\ \A q \in Pages : pc[q] \notin {"direct", "directEnd"}
  BY Grows DEF Whole
<1>2. CASE UNCHANGED vars
  BY <1>1, <1>2 DEF vars, files
<1>3. ASSUME NEW p \in Pages, LoadText(p) \/ Ask(p, TRUE) \/ Ask(p, FALSE) \/ LoadTime(p)
      PROVE  disk'.text # Torn /\ \A q \in Pages : pc'[q] \notin {"direct", "directEnd"}
  BY <1>1, <1>3, OthersStay DEF LoadText, Ask, LoadTime, files
<1>4. ASSUME NEW p \in Pages, Unrepresentable(p) \/ Conflict(p) \/ BackupFails(p) \/ TmpFails(p)
      PROVE  disk'.text # Torn /\ \A q \in Pages : pc'[q] \notin {"direct", "directEnd"}
  BY <1>1, <1>4, OthersStay DEF Unrepresentable, Conflict, BackupFails, TmpFails, GiveUp, files
<1>5. ASSUME NEW p \in Pages, CheckTime(p) \/ BackupBegins(p) \/ BackupEnds(p) \/ NoBackup(p)
      PROVE  disk'.text # Torn /\ \A q \in Pages : pc'[q] \notin {"direct", "directEnd"}
  BY <1>1, <1>5, OthersStay DEF CheckTime, BackupBegins, BackupEnds, NoBackup, files
<1>6. ASSUME NEW p \in Pages, TmpBegins(p) \/ TmpEnds(p) \/ Answer(p)
      PROVE  disk'.text # Torn /\ \A q \in Pages : pc'[q] \notin {"direct", "directEnd"}
  BY <1>1, <1>6, OthersStay DEF TmpBegins, TmpEnds, Answer, files
<1>7. ASSUME NEW p \in Pages, Rename(p)
      PROVE  disk'.text # Torn /\ \A q \in Pages : pc'[q] \notin {"direct", "directEnd"}
  BY <1>1, <1>7, OthersStay, TextFacts DEF Rename, TypeOK
<1>8. ASSUME NEW p \in Pages,
             RenameRefused(p) \/ DirectBegins(p) \/ DirectEnds(p) \/ DirectFails(p)
      PROVE  FALSE
  BY <1>1, <1>8 DEF RenameRefused, DirectBegins, DirectEnds, DirectFails, Suffer
<1>9. CASE Foreign
  <2>1. foreign + 1 \in 1..MaxForeign
    BY <1>9, SaveAssumption DEF Foreign, TypeOK
  <2>2. <<"other", foreign + 1>> # Torn /\ None # Torn
    BY <2>1, SaveAssumption, TextAssumption DEF Foreigns
  <2>3. QED
    BY <1>1, <1>9, <2>2 DEF Foreign, NoFile
<1>10. CASE Crash
  BY <1>1, <1>10 DEF Crash, files
<1>11. QED
  BY <1>2, <1>3, <1>4, <1>5, <1>6, <1>7, <1>8, <1>9, <1>10 DEF Next, Serve

\* As long as no rename was refused the document is never seen half written, for every
\* number of pages that save at once and wherever writes fail and the process is killed.
THEOREM AlwaysWhole == Spec => []NeverTorn
<1>1. Init => Whole
  BY SaveAssumption DEF Init, Whole, NoFile
<1>2. Whole => NeverTorn
  BY DEF Whole, NeverTorn
<1>3. QED
  BY <1>1, <1>2, TypeCorrect, WholeStep, PTL DEF Spec
-----------------------------------------------------------------------------
LEMMA TmpStep == TypeOK /\ TmpOwned /\ [Next]_vars => TmpOwned'
<1> DEFINE Bearing == {"tmpEnd", "rename", "direct", "directEnd"}
<1> SUFFICES ASSUME TypeOK, TmpOwned, [Next]_vars, NoneOf({"failed", "killed"})',
                    NEW q \in Pages
             PROVE  tmp'[q] # NoFile => pc'[q] \in Bearing
  BY DEF TmpOwned
<1>1. \A r \in Pages : tmp[r] # NoFile => pc[r] \in Bearing
  BY NotBefore DEF TmpOwned
<1>2. CASE UNCHANGED vars
  BY <1>1, <1>2 DEF vars, files
<1>3. ASSUME NEW p \in Pages, LoadText(p) \/ Ask(p, TRUE) \/ Ask(p, FALSE) \/ LoadTime(p)
      PROVE  tmp'[q] # NoFile => pc'[q] \in Bearing
  BY <1>1, <1>3, OthersStay DEF LoadText, Ask, LoadTime, files
<1>4. ASSUME NEW p \in Pages, Unrepresentable(p) \/ Conflict(p) \/ BackupFails(p)
      PROVE  tmp'[q] # NoFile => pc'[q] \in Bearing
  BY <1>1, <1>4, OthersStay DEF Unrepresentable, Conflict, BackupFails, GiveUp, files
<1>5. ASSUME NEW p \in Pages, CheckTime(p) \/ BackupBegins(p) \/ BackupEnds(p) \/ NoBackup(p)
      PROVE  tmp'[q] # NoFile => pc'[q] \in Bearing
  BY <1>1, <1>5, OthersStay DEF CheckTime, BackupBegins, BackupEnds, NoBackup, files
<1>6. ASSUME NEW p \in Pages, TmpBegins(p) \/ TmpEnds(p)
      PROVE  tmp'[q] # NoFile => pc'[q] \in Bearing
  BY <1>1, <1>6, OthersStay DEF TmpBegins, TmpEnds, TypeOK
<1>7. ASSUME NEW p \in Pages, Rename(p) \/ DirectEnds(p) \/ DirectFails(p)
      PROVE  tmp'[q] # NoFile => pc'[q] \in Bearing
  BY <1>1, <1>7, OthersStay DEF Rename, DirectEnds, DirectFails, GiveUp, TypeOK
<1>8. ASSUME NEW p \in Pages, RenameRefused(p) \/ DirectBegins(p) \/ Answer(p)
      PROVE  tmp'[q] # NoFile => pc'[q] \in Bearing
  BY <1>1, <1>8, OthersStay DEF RenameRefused, DirectBegins, Answer, files
<1>9. ASSUME NEW p \in Pages, TmpFails(p) PROVE FALSE
  BY <1>9 DEF TmpFails, Suffer, NoneOf
<1>10. CASE Foreign
  BY <1>1, <1>10 DEF Foreign
<1>11. CASE Crash
  BY <1>11 DEF Crash, Suffer, NoneOf
<1>12. QED
  BY <1>2, <1>3, <1>4, <1>5, <1>6, <1>7, <1>8, <1>9, <1>10, <1>11 DEF Next, Serve

\* At rest there is no temporary file, after refused renames and failed writes in place
\* too, unless a temporary file could not be written or the process was killed.
THEOREM NoTmpSurvives == Spec => []NoTmpLeft
<1>1. Init => TmpOwned
  BY DEF Init, TmpOwned
<1>2. TmpOwned => NoTmpLeft
  BY DEF TmpOwned, NoTmpLeft, Quiet, NoneOf
<1>3. QED
  BY <1>1, <1>2, TypeCorrect, TmpStep, PTL DEF Spec
-----------------------------------------------------------------------------
\* What OneRequest says, of given places and a given backup.
OneAt(at, b) ==
  /\ \A p, q \in Pages : at[p] # "idle" /\ at[q] # "idle" => p = q
  /\ \A p \in Pages : at[p] = "copy" => b = Torn

\* A request that begins without a race is the only one.
LEMMA BeginsAlone ==
  ASSUME TypeOK, NoneOf({"race"})', NEW p \in Pages, LoadText(p) \/ Ask(p, TRUE) \/ Ask(p, FALSE)
  PROVE  Quiet
BY DEF LoadText, Ask, Begins, Suffer, NoneOf

LEMMA OneStep == TypeOK /\ OneRequest /\ [Next]_vars => OneRequest'
<1> SUFFICES ASSUME TypeOK, OneRequest, [Next]_vars, NoneOf({"race"})' PROVE OneAt(pc', bak')
  BY DEF OneRequest, OneAt
<1>1. OneAt(pc, bak)
  BY NotBefore DEF OneRequest, OneAt
<1>2. CASE UNCHANGED vars
  BY <1>1, <1>2 DEF vars, files
<1>3. ASSUME NEW p \in Pages, LoadText(p) \/ Ask(p, TRUE) \/ Ask(p, FALSE)
      PROVE  OneAt(pc', bak')
  <2>1. \A q \in Pages : pc[q] = "idle"
    BY <1>3, BeginsAlone DEF Quiet
  <2>2. \A q \in Pages : q # p => pc'[q] = "idle"
    BY <1>3, <2>1, OthersStay DEF LoadText, Ask
  <2>3. pc'[p] # "copy"
    BY <1>3, OthersStay DEF LoadText, Ask
  <2>4. QED
    BY <2>2, <2>3 DEF OneAt
<1>4. ASSUME NEW p \in Pages, LoadTime(p) \/ CheckTime(p) \/ NoBackup(p) \/ Answer(p)
      PROVE  OneAt(pc', bak')
  BY <1>1, <1>4, OthersStay DEF OneAt, LoadTime, CheckTime, NoBackup, Answer, files
<1>5. ASSUME NEW p \in Pages, Unrepresentable(p) \/ Conflict(p) \/ BackupFails(p) \/ TmpFails(p)
      PROVE  OneAt(pc', bak')
  BY <1>1, <1>5, OthersStay DEF OneAt, Unrepresentable, Conflict, BackupFails, TmpFails, GiveUp,
     files
<1>6. ASSUME NEW p \in Pages, BackupBegins(p) \/ BackupEnds(p) PROVE OneAt(pc', bak')
  BY <1>1, <1>6, OthersStay DEF OneAt, BackupBegins, BackupEnds
<1>7. ASSUME NEW p \in Pages, TmpBegins(p) \/ TmpEnds(p) \/ Rename(p) \/ RenameRefused(p)
      PROVE  OneAt(pc', bak')
  BY <1>1, <1>7, OthersStay DEF OneAt, TmpBegins, TmpEnds, Rename, RenameRefused, files
<1>8. ASSUME NEW p \in Pages, DirectBegins(p) \/ DirectEnds(p) \/ DirectFails(p)
      PROVE  OneAt(pc', bak')
  BY <1>1, <1>8, OthersStay DEF OneAt, DirectBegins, DirectEnds, DirectFails, GiveUp
<1>9. CASE Foreign
  BY <1>1, <1>9 DEF Foreign
<1>10. CASE Crash
  BY <1>10 DEF Crash, OneAt
<1>11. QED
  BY <1>2, <1>3, <1>4, <1>5, <1>6, <1>7, <1>8, <1>9, <1>10 DEF Next, Serve

LEMMA OneAlways == Spec => [](TypeOK /\ OneRequest)
<1>1. Init => OneRequest
  BY DEF Init, OneRequest
<1>2. QED
  BY <1>1, TypeCorrect, OneStep, PTL DEF Spec

\* Only the backup's own two steps write it.
LEMMA BackupSteps ==
  ASSUME [Next]_vars, bak' # bak
  PROVE  \E p \in Pages : BackupBegins(p) \/ BackupEnds(p)
<1>1. CASE UNCHANGED vars
  BY <1>1 DEF vars, files
<1>2. ASSUME NEW p \in Pages, LoadText(p) \/ Ask(p, TRUE) \/ Ask(p, FALSE) PROVE FALSE
  BY <1>2 DEF LoadText, Ask, files
<1>3. ASSUME NEW p \in Pages, Serve(p) PROVE BackupBegins(p) \/ BackupEnds(p)
  BY <1>3 DEF Serve, LoadTime, Unrepresentable, CheckTime, Conflict, BackupFails, NoBackup,
     TmpBegins, TmpEnds, TmpFails, Rename, RenameRefused, DirectBegins, DirectEnds, DirectFails,
     Answer, files
<1>4. QED
  BY <1>1, <1>2, <1>3 DEF Next, Foreign, Crash, files

\* A backup that was completed stays what it is, unless requests overlap.
THEOREM BackupStays == Spec => BackupKept
<1>1. TypeOK /\ OneRequest /\ [Next]_vars
        => [Spared({"race"}) /\ bak \notin {None, Torn} => bak' = bak]_vars
  <2> SUFFICES ASSUME TypeOK, OneRequest, [Next]_vars, NoneOf({"race"})', bak' # bak
               PROVE  bak \in {None, Torn}
    BY DEF Spared, NoneOf
  <2>1. OneAt(pc, bak)
    BY NotBefore DEF OneRequest, OneAt
  <2>2. PICK p \in Pages : BackupBegins(p) \/ BackupEnds(p)
    BY BackupSteps
  <2>3. QED
    BY <2>1, <2>2 DEF OneAt, BackupBegins, BackupEnds
<1>2. QED
  BY <1>1, OneAlways, PTL DEF Spec, BackupKept
-----------------------------------------------------------------------------
\* What Backed says, of given places, texts, backup and copies.
BackedAt(at, text, b, copy) ==
  /\ b = Torn => \E p \in Pages : at[p] = "copy"
  /\ text = Torn => \E p \in Pages : at[p] = "directEnd"
  /\ \A p \in Pages :
       /\ at[p] = "copy" => copy[p] \notin {None, Torn}
       /\ at[p] \in {"tmp", "tmpEnd", "rename", "direct"} /\ text # None => b # None

\* A step of a request, when requests do not overlap.
LEMMA OnlyRequest ==
  ASSUME TypeOK, OneRequest, [Next]_vars, NoneOf({"race"})', NEW p \in Pages, pc[p] # "idle",
         NEW l, Goto(p, l)
  PROVE  /\ \A q \in Pages : q # p => pc[q] = "idle" /\ pc'[q] = "idle"
         /\ pc'[p] = l
BY NotBefore, OthersStay DEF OneRequest

LEMMA BackedStep == TypeOK /\ OneRequest /\ Backed /\ [Next]_vars => Backed'
<1> SUFFICES ASSUME TypeOK, OneRequest, Backed, [Next]_vars,
                    NoneOf({"race", "short", "killed"})'
             PROVE  BackedAt(pc', disk'.text, bak', copied')
  BY DEF Backed, BackedAt
<1>1. NoneOf({"race"})' /\ NoneOf({"short"})' /\ NoneOf({"killed"})'
  BY DEF NoneOf
<1>2. BackedAt(pc, disk.text, bak, copied)
  BY NotBefore DEF Backed, BackedAt
<1>3. CASE UNCHANGED vars
  BY <1>2, <1>3 DEF vars, files, pages
<1>4. ASSUME NEW p \in Pages, LoadText(p) \/ Ask(p, TRUE) \/ Ask(p, FALSE)
      PROVE  BackedAt(pc', disk'.text, bak', copied')
  <2>1. \A q \in Pages : pc[q] = "idle"
    BY <1>1, <1>4, BeginsAlone DEF Quiet
  <2>2. bak # Torn /\ disk.text # Torn
    BY <1>2, <2>1 DEF BackedAt
  <2>3. \A q \in Pages : pc'[q] \in {"idle", "loading", "check"}
    BY <1>4, <2>1, OthersStay DEF LoadText, Ask
  <2>4. QED
    BY <1>4, <2>2, <2>3 DEF BackedAt, LoadText, Ask, files
<1>5. ASSUME NEW p \in Pages, LoadTime(p) \/ CheckTime(p) \/ NoBackup(p)
      PROVE  BackedAt(pc', disk'.text, bak', copied')
  BY <1>1, <1>2, <1>5, OnlyRequest DEF BackedAt, LoadTime, CheckTime, NoBackup, files, pages
<1>6. ASSUME NEW p \in Pages, Unrepresentable(p) \/ Conflict(p) \/ TmpFails(p) \/ Answer(p)
      PROVE  BackedAt(pc', disk'.text, bak', copied')
  BY <1>1, <1>2, <1>6, OnlyRequest DEF BackedAt, Unrepresentable, Conflict, TmpFails, GiveUp,
     Answer, files
<1>7. ASSUME NEW p \in Pages, BackupBegins(p) PROVE BackedAt(pc', disk'.text, bak', copied')
  <2>1. copied'[p] = disk.text /\ disk.text \notin {None, Torn}
    BY <1>1, <1>2, <1>7, OnlyRequest DEF BackedAt, BackupBegins, TypeOK
  <2>2. QED
    BY <1>1, <1>2, <1>7, <2>1, OnlyRequest DEF BackedAt, BackupBegins
<1>8. ASSUME NEW p \in Pages, BackupEnds(p) PROVE BackedAt(pc', disk'.text, bak', copied')
  BY <1>1, <1>2, <1>8, OnlyRequest DEF BackedAt, BackupEnds
<1>9. ASSUME NEW p \in Pages, BackupFails(p) PROVE BackedAt(pc', disk'.text, bak', copied')
  <2>1. pc[p] = "backup"
    BY <1>1, <1>9 DEF BackupFails, Suffer, NoneOf
  <2>2. QED
    BY <1>1, <1>2, <1>9, <2>1, OnlyRequest DEF BackedAt, BackupFails, GiveUp, files
<1>10. ASSUME NEW p \in Pages, TmpBegins(p) \/ TmpEnds(p) \/ RenameRefused(p) \/ DirectBegins(p)
       PROVE  BackedAt(pc', disk'.text, bak', copied')
  BY <1>1, <1>2, <1>10, OnlyRequest DEF BackedAt, TmpBegins, TmpEnds, RenameRefused,
     DirectBegins, files, pages
<1>11. ASSUME NEW p \in Pages, Rename(p) \/ DirectEnds(p)
       PROVE  BackedAt(pc', disk'.text, bak', copied')
  <2>1. disk'.text = Own(p) /\ Own(p) # Torn
    BY <1>11, TextFacts DEF Rename, DirectEnds, TypeOK
  <2>2. QED
    BY <1>1, <1>2, <1>11, <2>1, OnlyRequest DEF BackedAt, Rename, DirectEnds, pages
<1>12. ASSUME NEW p \in Pages, DirectFails(p) PROVE BackedAt(pc', disk'.text, bak', copied')
  <2>1. pc[p] = "direct"
    BY <1>1, <1>12 DEF DirectFails, Suffer, NoneOf
  <2>2. QED
    BY <1>1, <1>2, <1>12, <2>1, OnlyRequest DEF BackedAt, DirectFails, GiveUp
<1>13. CASE Foreign
  <2>1. Quiet
    BY <1>1, <1>13 DEF Foreign, Suffer, NoneOf
  <2>2. foreign + 1 \in 1..MaxForeign
    BY <1>13, SaveAssumption DEF Foreign, TypeOK
  <2>3. disk'.text # Torn
    BY <1>13, <2>2, SaveAssumption, TextAssumption DEF Foreign, Foreigns, NoFile
  <2>4. QED
    BY <1>2, <1>13, <2>1, <2>3 DEF BackedAt, Foreign, Quiet, pages
<1>14. CASE Crash
  BY <1>1, <1>14 DEF Crash, Suffer, NoneOf
<1>15. QED
  BY <1>3, <1>4, <1>5, <1>6, <1>7, <1>8, <1>9, <1>10, <1>11, <1>12, <1>13, <1>14
     DEF Next, Serve

\* The document a save replaces has a whole backup, unless requests overlap or a copy was
\* left half way.
THEOREM BackupFirst == Spec => BackedUpFirst
<1>1. Init => Backed
  BY SaveAssumption DEF Init, Backed, NoFile
<1>2. TypeOK /\ OneRequest /\ Backed /\ [Next]_vars
        => [Spared({"race", "short", "killed"}) =>
              \A p \in Pages : Replaces(p) /\ disk.text # None => bak \notin {None, Torn}]_vars
  <2> SUFFICES ASSUME TypeOK, OneRequest, Backed, [Next]_vars,
                      NoneOf({"race", "short", "killed"})',
                      NEW p \in Pages, Replaces(p), disk.text # None
               PROVE  bak \notin {None, Torn}
    BY DEF Spared, NoneOf
  <2>1. BackedAt(pc, disk.text, bak, copied)
    BY NotBefore DEF Backed, BackedAt
  <2>2. pc[p] \in {"rename", "direct"}
    BY DEF Replaces
  <2>3. NoneOf({"race"})
    BY NotBefore DEF NoneOf
  <2>4. \A q \in Pages : pc[q] # "copy"
    BY <2>2, <2>3 DEF OneRequest
  <2>5. QED
    BY <2>1, <2>2, <2>4 DEF BackedAt
<1>3. QED
  BY <1>1, <1>2, OneAlways, BackedStep, PTL DEF Spec, BackedUpFirst
-----------------------------------------------------------------------------
\* What Stamped says of page p: of its place at, what it knows, and the document.
StampedAt(at, known, time, as, doc, file, own, times) ==
  /\ at # "loading" /\ known # None => time # 0
  /\ at \notin {"loading", "answer"} /\ known # None /\ time = doc.mtime => doc.text = known
  /\ at = "loading" => doc.text = known /\ known # None
  /\ at \in {"backup", "copy", "tmp", "tmpEnd", "rename"} /\ ~as => doc.text = known
  /\ at = "check" /\ ~as => known # None
  /\ at = "rename" => file.mtime > doc.mtime /\ \A q \in Pages : file.mtime > times[q]
  /\ at = "answer" => doc.text = own

PageStamped(p) ==
  StampedAt(pc[p], base[p], expected[p], forced[p], disk, tmp[p], Own(p), expected)
DiskStamped == disk.text # None => disk.mtime # 0

LEMMA StampedParts ==
  Stamped <=> (NoneOf({"race", "tick", "refused"}) =>
                 DiskStamped /\ \A p \in Pages : PageStamped(p))
BY DEF Stamped, DiskStamped, PageStamped, StampedAt

SaveInv == TypeOK /\ Whole /\ OneRequest /\ Stamped

LEMMA StampedStep == SaveInv /\ [Next]_vars => Stamped'
<1> SUFFICES ASSUME SaveInv, [Next]_vars, NoneOf({"race", "tick", "refused"})'
             PROVE  DiskStamped' /\ \A q \in Pages : PageStamped(q)'
  BY DEF Stamped, DiskStamped, PageStamped, StampedAt
<1>1. NoneOf({"race"})' /\ "tick" \notin trouble' /\ "refused" \notin trouble'
  BY DEF NoneOf
<1>2. DiskStamped /\ \A q \in Pages : PageStamped(q)
  BY NotBefore, StampedParts DEF SaveInv
<1>3. TypeOK /\ OneRequest /\ \A q \in Pages : pc[q] \notin {"direct", "directEnd"}
  BY <1>1, Grows DEF SaveInv, Whole
<1> USE <1>3
<1>4. CASE UNCHANGED vars
  BY <1>2, <1>4 DEF DiskStamped, PageStamped, StampedAt, Own, vars, files, pages
<1>5. ASSUME NEW p \in Pages, LoadText(p)
      PROVE  DiskStamped' /\ \A q \in Pages : PageStamped(q)'
  <2>1. \A q \in Pages : pc[q] = "idle"
    BY <1>1, <1>5, BeginsAlone DEF Quiet
  <2>2. \A q \in Pages : q # p => pc'[q] = "idle" /\ base'[q] = base[q]
    BY <1>5, <2>1, OthersStay DEF LoadText, TypeOK
  <2>3. pc'[p] = "loading" /\ base'[p] = disk.text /\ disk.text # None
    BY <1>5, OthersStay DEF LoadText, TypeOK
  <2>4. UNCHANGED <<disk, tmp, expected, forced>>
    BY <1>5 DEF LoadText, files
  <2>5. QED
    BY <1>2, <2>1, <2>2, <2>3, <2>4 DEF DiskStamped, PageStamped, StampedAt
<1>6. ASSUME NEW p \in Pages, NEW as \in BOOLEAN, Ask(p, as)
      PROVE  DiskStamped' /\ \A q \in Pages : PageStamped(q)'
  <2>1. \A q \in Pages : pc[q] = "idle"
    BY <1>1, <1>6, BeginsAlone DEF Quiet
  <2>2. \A q \in Pages : q # p => pc'[q] = "idle"
    BY <1>6, <2>1, OthersStay DEF Ask, TypeOK
  <2>3. pc'[p] = "check" /\ (~forced'[p] => base[p] # None)
    BY <1>6, OthersStay DEF Ask, TypeOK
  <2>4. UNCHANGED <<disk, tmp, expected, base>>
    BY <1>6 DEF Ask, files
  <2>5. QED
    BY <1>2, <2>1, <2>2, <2>3, <2>4 DEF DiskStamped, PageStamped, StampedAt
<1>7. ASSUME NEW p \in Pages, LoadTime(p)
      PROVE  DiskStamped' /\ \A q \in Pages : PageStamped(q)'
  <2>1. pc[p] = "loading" /\ pc'[p] = "idle" /\ \A q \in Pages : q # p => pc'[q] = "idle"
    BY <1>1, <1>7, OnlyRequest DEF LoadTime
  <2>2. expected'[p] = disk.mtime /\ \A q \in Pages : q # p => expected'[q] = expected[q]
    BY <1>7 DEF LoadTime, TypeOK
  <2>3. UNCHANGED <<disk, tmp, base, forced>>
    BY <1>7 DEF LoadTime, files
  <2>4. \A q \in Pages : q # p => pc[q] = "idle"
    BY <1>1, <1>7, OnlyRequest DEF LoadTime
  <2>5. QED
    BY <1>2, <2>1, <2>2, <2>3, <2>4 DEF DiskStamped, PageStamped, StampedAt
<1>8. ASSUME NEW p \in Pages,
             \/ Unrepresentable(p) \/ Conflict(p) \/ BackupFails(p) \/ TmpFails(p)
      PROVE  DiskStamped' /\ \A q \in Pages : PageStamped(q)'
  <2>1. /\ GiveUp(p) /\ UNCHANGED <<disk, tmp, base, expected>>
        /\ pc[p] \notin {"idle", "loading", "answer"}
    BY <1>8 DEF Unrepresentable, Conflict, BackupFails, TmpFails, GiveUp, files
  <2>2. pc'[p] = "idle" /\ \A q \in Pages : q # p => pc[q] = "idle" /\ pc'[q] = "idle"
    BY <1>1, <2>1, OnlyRequest DEF GiveUp
  <2>3. QED
    BY <1>2, <2>1, <2>2 DEF DiskStamped, PageStamped, StampedAt
<1>9. ASSUME NEW p \in Pages, CheckTime(p)
      PROVE  DiskStamped' /\ \A q \in Pages : PageStamped(q)'
  <2>1. pc[p] = "check" /\ pc'[p] \in {"tmp", "backup"}
        /\ \A q \in Pages : q # p => pc[q] = "idle" /\ pc'[q] = "idle"
    BY <1>1, <1>9, OnlyRequest DEF CheckTime
  <2>2. UNCHANGED <<disk, tmp, base, expected, forced>>
    BY <1>9 DEF CheckTime, files, pages
  <2>3. ~forced[p] => disk.text = base[p]
    BY <1>2, <1>9, <2>1 DEF PageStamped, StampedAt, CheckTime, Matches
  <2>4. QED
    BY <1>2, <2>1, <2>2, <2>3 DEF DiskStamped, PageStamped, StampedAt
<1>10. ASSUME NEW p \in Pages, BackupBegins(p) \/ BackupEnds(p) \/ NoBackup(p) \/ TmpBegins(p)
       PROVE  DiskStamped' /\ \A q \in Pages : PageStamped(q)'
  <2>1. pc[p] \in {"backup", "copy", "tmp"} /\ pc'[p] \in {"copy", "tmp", "tmpEnd"}
        /\ \A q \in Pages : q # p => pc[q] = "idle" /\ pc'[q] = "idle"
    BY <1>1, <1>10, OnlyRequest DEF BackupBegins, BackupEnds, NoBackup, TmpBegins
  <2>2. UNCHANGED <<disk, base, expected, forced>>
    BY <1>10 DEF BackupBegins, BackupEnds, NoBackup, TmpBegins, files, pages
  <2>3. QED
    BY <1>2, <2>1, <2>2 DEF DiskStamped, PageStamped, StampedAt
<1>11. ASSUME NEW p \in Pages, TmpEnds(p)
       PROVE  DiskStamped' /\ \A q \in Pages : PageStamped(q)'
  <2>1. PICK t \in Now : Written(t) /\ tmp' = [tmp EXCEPT ![p] = [text |-> Own(p), mtime |-> t]]
    BY <1>11 DEF TmpEnds
  <2>2. t = clock + 1 /\ tmp'[p].mtime = t
    BY <1>1, <2>1 DEF Now, Written, Suffer, TypeOK
  <2>3. tmp'[p].mtime > disk.mtime /\ \A q \in Pages : tmp'[p].mtime > expected[q]
    BY <2>2 DEF TypeOK, File
  <2>4. pc[p] = "tmpEnd" /\ pc'[p] = "rename"
        /\ \A q \in Pages : q # p => pc[q] = "idle" /\ pc'[q] = "idle"
    BY <1>1, <1>11, OnlyRequest DEF TmpEnds
  <2>5. UNCHANGED <<disk, base, expected, forced>>
    BY <1>11 DEF TmpEnds, files, pages
  <2>6. QED
    BY <1>2, <2>3, <2>4, <2>5 DEF DiskStamped, PageStamped, StampedAt
<1>12. ASSUME NEW p \in Pages, Rename(p)
       PROVE  DiskStamped' /\ \A q \in Pages : PageStamped(q)'
  <2>1. pc[p] = "rename" /\ pc'[p] = "answer"
        /\ \A q \in Pages : q # p => pc[q] = "idle" /\ pc'[q] = "idle"
    BY <1>1, <1>12, OnlyRequest DEF Rename
  <2>2. disk' = tmp[p] /\ disk'.text = Own(p) /\ UNCHANGED <<base, expected, forced, saves>>
    BY <1>12 DEF Rename, pages, TypeOK
  <2>3. disk'.mtime # 0 /\ \A q \in Pages : disk'.mtime # expected[q]
    <3>1. disk'.mtime \in Nat /\ disk.mtime \in Nat /\ \A q \in Pages : expected[q] \in Nat
      BY <2>2 DEF TypeOK, File
    <3>2. disk'.mtime > disk.mtime /\ \A q \in Pages : disk'.mtime > expected[q]
      BY <1>2, <2>1, <2>2 DEF PageStamped, StampedAt
    <3>3. QED
      BY <3>1, <3>2
  <2>4. QED
    BY <1>2, <2>1, <2>2, <2>3 DEF DiskStamped, PageStamped, StampedAt, Own
<1>13. ASSUME NEW p \in Pages, Answer(p)
       PROVE  DiskStamped' /\ \A q \in Pages : PageStamped(q)'
  <2>1. pc[p] = "answer" /\ pc'[p] = "idle"
        /\ \A q \in Pages : q # p => pc[q] = "idle" /\ pc'[q] = "idle"
    BY <1>1, <1>13, OnlyRequest DEF Answer
  <2>2. UNCHANGED disk /\ base'[p] = Own(p) /\ expected'[p] = disk.mtime
        /\ \A q \in Pages : q # p => base'[q] = base[q] /\ expected'[q] = expected[q]
    BY <1>13 DEF Answer, files, TypeOK
  <2>3. disk.text = Own(p) /\ disk.mtime # 0
    <3>1. disk.text = Own(p)
      BY <1>2, <2>1 DEF PageStamped, StampedAt
    <3>2. Own(p) # None
      BY <2>1, TextFacts DEF TypeOK
    <3>3. QED
      BY <1>2, <3>1, <3>2 DEF DiskStamped
  <2>4. QED
    BY <1>2, <2>1, <2>2, <2>3 DEF DiskStamped, PageStamped, StampedAt
<1>14. ASSUME NEW p \in Pages,
              RenameRefused(p) \/ DirectBegins(p) \/ DirectEnds(p) \/ DirectFails(p)
       PROVE  FALSE
  BY <1>1, <1>14 DEF RenameRefused, DirectBegins, DirectEnds, DirectFails, Suffer
<1>15. CASE Foreign
  <2>1. Quiet
    BY <1>1, <1>15 DEF Foreign, Suffer, NoneOf
  <2>2. UNCHANGED <<pc, base, expected, forced>>
    BY <1>15 DEF Foreign, pages
  <2>3. \/ disk' = NoFile
        \/ disk'.mtime = clock + 1
    BY <1>1, <1>15 DEF Foreign, Now, Suffer
  <2>4. CASE disk' = NoFile
    BY <1>2, <2>1, <2>2, <2>4 DEF DiskStamped, PageStamped, StampedAt, Quiet, NoFile
  <2>5. CASE disk'.mtime = clock + 1
    <3>1. disk'.mtime # 0 /\ \A q \in Pages : disk'.mtime # expected[q]
      BY <2>5 DEF TypeOK
    <3>2. QED
      BY <1>2, <2>1, <2>2, <3>1 DEF DiskStamped, PageStamped, StampedAt, Quiet
  <2>6. QED
    BY <2>3, <2>4, <2>5
<1>16. CASE Crash
  BY <1>2, <1>16 DEF Crash, files, DiskStamped, PageStamped, StampedAt
<1>17. QED
  BY <1>4, <1>5, <1>6, <1>7, <1>8, <1>9, <1>10, <1>11, <1>12, <1>13, <1>14, <1>15, <1>16
     DEF Next, Serve

\* How the two mapped variables follow the page's place and request.
LEMMA KnownChange ==
  ASSUME TypeOK, NEW p \in Pages, NEW l, Goto(p, l), UNCHANGED saves,
         \A q \in Pages : q # p => base'[q] = base[q]
  PROVE  knownBar' = [knownBar EXCEPT ![p] = IF l = "answer" THEN Own(p) ELSE base'[p]]
<1>1. \A q \in Pages : pc'[q] = IF q = p THEN l ELSE pc[q]
  BY OthersStay
<1>2. \A q \in Pages : Own(q)' = Own(q)
  BY DEF Own
<1>3. QED
  BY <1>1, <1>2 DEF knownBar

LEMMA AskedChange ==
  ASSUME TypeOK, NEW p \in Pages, NEW l, Goto(p, l),
         \A q \in Pages : q # p => forced'[q] = forced[q]
  PROVE  askedBar' = [askedBar EXCEPT ![p] = IF l \in {"idle", "loading"} THEN "nothing"
                                             ELSE IF forced'[p] THEN "save as" ELSE "save"]
<1> DEFINE asks(q) == IF pc[q] \in {"idle", "loading"} THEN "nothing"
                      ELSE IF forced[q] THEN "save as" ELSE "save"
<1>1. \A q \in Pages : pc'[q] = IF q = p THEN l ELSE pc[q]
  BY OthersStay
<1>2. \A q \in Pages : asks(q)' = IF q = p THEN asks(p)' ELSE asks(q)
  BY <1>1
<1>3. asks(p)' = IF l \in {"idle", "loading"} THEN "nothing"
                 ELSE IF forced'[p] THEN "save as" ELSE "save"
  BY <1>1
<1>4. askedBar = [q \in Pages |-> asks(q)] /\ askedBar' = [q \in Pages |-> asks(q)']
  BY DEF askedBar
<1> HIDE DEF asks
<1>5. askedBar' = [askedBar EXCEPT ![p] = asks(p)']
  BY <1>2, <1>4
<1>6. QED
  BY <1>3, <1>5

\* A request goes on, for the same thing.
LEMMA AskedStays ==
  ASSUME TypeOK, NEW p \in Pages, NEW l, Goto(p, l), UNCHANGED forced,
         pc[p] \in {"idle", "loading"} <=> l \in {"idle", "loading"}
  PROVE  askedBar' = askedBar
<1>1. \A q \in Pages : pc'[q] = IF q = p THEN l ELSE pc[q]
  BY OthersStay
<1>2. \A q \in Pages : pc'[q] \in {"idle", "loading"} <=> pc[q] \in {"idle", "loading"}
  BY <1>1
<1>3. QED
  BY <1>2 DEF askedBar

\* Until requests overlap, a time is not unique, or a document is written in place, a save
\* replaces the text its page took the document to hold, and no other.
THEOREM RefinesChecked == Spec => CheckedSpec
<1>1. Init => Checked!Init
  BY DEF Init, Checked!Init, knownBar, askedBar, NoFile, Texts
<1>2. SaveInv /\ [Next]_vars
        => [Spared({"race", "tick", "refused"}) => Checked!Next]_(Checked!vars)
  <2> SUFFICES ASSUME SaveInv, [Next]_vars, NoneOf({"race", "tick", "refused"})'
               PROVE  [Checked!Next]_(Checked!vars)
    BY DEF Spared, NoneOf
  <2>1. "refused" \notin trouble' /\ NoneOf({"race"})'
    BY DEF NoneOf
  <2>2. \A q \in Pages : PageStamped(q)
    BY NotBefore, StampedParts DEF SaveInv
  <2>3. TypeOK /\ OneRequest /\ \A q \in Pages : pc[q] \notin {"direct", "directEnd"}
    BY <2>1, Grows DEF SaveInv, Whole
  <2> USE <2>3
  <2>4. CASE UNCHANGED vars
    BY <2>4 DEF vars, files, pages, Checked!vars, knownBar, askedBar, Own
  <2>5. ASSUME NEW p \in Pages, LoadText(p) PROVE Checked!Next
    <3>1. knownBar' = [knownBar EXCEPT ![p] = disk.text]
      BY <2>5, KnownChange DEF LoadText, TypeOK
    <3>2. askedBar' = askedBar
      BY <2>5, AskedStays DEF LoadText
    <3>3. UNCHANGED disk
      BY <2>5 DEF LoadText, files
    <3>4. QED
      BY <3>1, <3>2, <3>3 DEF Checked!Load, Checked!Next
  <2>6. ASSUME NEW p \in Pages, NEW as \in BOOLEAN, Ask(p, as) PROVE Checked!Next
    <3>1. knownBar' = knownBar
      BY <2>6, OthersStay DEF Ask, TypeOK, knownBar, Own
    <3>2. askedBar' = [askedBar EXCEPT ![p] = IF forced'[p] THEN "save as" ELSE "save"]
      <4>1. Goto(p, "check") /\ \A q \in Pages : q # p => forced'[q] = forced[q]
        BY <2>6 DEF Ask, TypeOK
      <4>2. askedBar' = [askedBar EXCEPT ![p] = IF "check" \in {"idle", "loading"} THEN "nothing"
                                                ELSE IF forced'[p] THEN "save as" ELSE "save"]
        BY <4>1, AskedChange, Zenon
      <4>3. QED
        BY <4>2
    <3>3. askedBar[p] = "nothing" /\ UNCHANGED disk
      BY <2>6 DEF Ask, files, askedBar
    <3>4. CASE forced'[p]
      BY <3>1, <3>2, <3>3, <3>4 DEF Checked!Ask, Checked!Next
    <3>5. CASE ~forced'[p]
      BY <3>1, <3>2, <3>3, <3>5 DEF Checked!Ask, Checked!Next
    <3>6. QED
      BY <3>4, <3>5
  <2>7. ASSUME NEW p \in Pages, LoadTime(p) PROVE UNCHANGED Checked!vars
    BY <2>7, OthersStay DEF LoadTime, files, Checked!vars, knownBar, askedBar, Own
  <2>8. ASSUME NEW p \in Pages,
               Unrepresentable(p) \/ Conflict(p) \/ BackupFails(p) \/ TmpFails(p)
        PROVE  Checked!Next
    <3>1. GiveUp(p) /\ UNCHANGED disk /\ pc[p] # "answer"
      BY <2>8 DEF Unrepresentable, Conflict, BackupFails, TmpFails, files
    <3>2. knownBar' = knownBar
      BY <3>1, OthersStay DEF GiveUp, knownBar, Own
    <3>3. askedBar' = [askedBar EXCEPT ![p] = "nothing"]
      BY <3>1, AskedChange DEF GiveUp, TypeOK
    <3>4. QED
      BY <3>1, <3>2, <3>3 DEF Checked!Answer, Checked!Next
  <2>9. ASSUME NEW p \in Pages,
               \/ CheckTime(p) \/ BackupBegins(p) \/ BackupEnds(p) \/ NoBackup(p)
               \/ TmpBegins(p) \/ TmpEnds(p)
        PROVE  UNCHANGED Checked!vars
    <3>1. PICK l \in {"copy", "tmp", "backup", "tmpEnd", "rename"} : Goto(p, l)
      BY <2>9 DEF CheckTime, BackupBegins, BackupEnds, NoBackup, TmpBegins, TmpEnds
    <3>2. UNCHANGED <<disk, base, forced, saves>> /\ pc[p] \notin {"idle", "loading", "answer"}
      BY <2>9 DEF CheckTime, BackupBegins, BackupEnds, NoBackup, TmpBegins, TmpEnds, files, pages
    <3>3. \A q \in Pages : pc'[q] = IF q = p THEN l ELSE pc[q]
      BY <3>1, OthersStay
    <3>4. QED
      BY <3>2, <3>3 DEF Checked!vars, knownBar, askedBar, Own
  <2>10. ASSUME NEW p \in Pages, Rename(p) PROVE Checked!Next
    <3>1. /\ pc[p] = "rename" /\ disk'.text = Own(p) /\ Own(p) \in Texts
          /\ UNCHANGED <<base, forced, saves>>
      BY <2>10, TextFacts DEF Rename, pages, TypeOK
    <3>2. knownBar' = [knownBar EXCEPT ![p] = Own(p)]
      BY <2>10, <3>1, KnownChange DEF Rename
    <3>3. askedBar' = askedBar
      BY <2>10, <3>1, AskedStays DEF Rename
    <3>4. CASE forced[p]
      <4>1. askedBar[p] = "save as"
        BY <3>1, <3>4 DEF askedBar
      <4>2. QED
        BY <3>1, <3>2, <3>3, <4>1 DEF Checked!SaveAs, Checked!Next
    <3>5. CASE ~forced[p]
      <4>1. askedBar[p] = "save" /\ disk.text = knownBar[p]
        BY <2>2, <3>1, <3>5 DEF askedBar, knownBar, PageStamped, StampedAt
      <4>2. QED
        BY <3>1, <3>2, <3>3, <4>1 DEF Checked!Save, Checked!Next
    <3>6. QED
      BY <3>4, <3>5
  <2>11. ASSUME NEW p \in Pages, Answer(p) PROVE Checked!Next
    <3>1. pc[p] = "answer" /\ base'[p] = Own(p) /\ UNCHANGED <<disk, saves>>
          /\ \A q \in Pages : q # p => base'[q] = base[q] /\ forced'[q] = forced[q]
      BY <2>11 DEF Answer, files, TypeOK
    <3>2. knownBar' = knownBar
      BY <2>11, <3>1, OthersStay DEF Answer, knownBar, Own
    <3>3. askedBar' = [askedBar EXCEPT ![p] = "nothing"]
      BY <2>11, <3>1, AskedChange DEF Answer
    <3>4. QED
      BY <3>1, <3>2, <3>3 DEF Checked!Answer, Checked!Next
  <2>12. ASSUME NEW p \in Pages,
                RenameRefused(p) \/ DirectBegins(p) \/ DirectEnds(p) \/ DirectFails(p)
         PROVE  FALSE
    BY <2>1, <2>12 DEF RenameRefused, DirectBegins, DirectEnds, DirectFails, Suffer
  <2>13. CASE Foreign
    <3>1. foreign + 1 \in 1..MaxForeign
      BY <2>13, SaveAssumption DEF Foreign, TypeOK
    <3>2. disk'.text \in Texts
      BY <2>13, <3>1 DEF Foreign, Texts, Foreigns, NoFile
    <3>3. UNCHANGED <<knownBar, askedBar>>
      BY <2>13 DEF Foreign, pages, knownBar, askedBar, Own
    <3>4. QED
      BY <3>2, <3>3 DEF Checked!Foreign, Checked!Next
  <2>14. CASE Crash
    <3>1. knownBar' = [p \in Pages |-> None] /\ askedBar' = [p \in Pages |-> "nothing"]
      BY <2>14 DEF Crash, knownBar, askedBar
    <3>2. UNCHANGED disk
      BY <2>14 DEF Crash, files
    <3>3. QED
      BY <3>1, <3>2 DEF Checked!Crash, Checked!Next
  <2>15. QED
    BY <2>4, <2>5, <2>6, <2>7, <2>8, <2>9, <2>10, <2>11, <2>12, <2>13, <2>14 DEF Next, Serve
<1>3. Init => SaveInv
  <2>1. Init => Stamped
    BY SaveAssumption DEF Init, Stamped, NoFile
  <2>2. Init => Whole /\ OneRequest
    BY SaveAssumption DEF Init, Whole, OneRequest, NoFile
  <2>3. QED
    BY <2>1, <2>2, InitType DEF SaveInv
<1>4. SaveInv /\ [Next]_vars => SaveInv'
  BY NextType, WholeStep, OneStep, StampedStep DEF SaveInv
<1>5. QED
  BY <1>1, <1>2, <1>3, <1>4, PTL DEF Spec, CheckedSpec
===========================================================================

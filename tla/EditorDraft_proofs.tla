-------------------------- MODULE EditorDraft_proofs --------------------------
(***************************************************************************)
(* What holds of EditorDraft for any edits, any number of versions of the  *)
(* quote, of openings, of calls at a time and of faults.                   *)
(***************************************************************************)
EXTENDS EditorDraft, FiniteSetTheorems, TLAPS

USE DraftAssumption

(***************************************************************************)
(* The inductive invariant.  It says of each thing (the draft, the screen, *)
(* the copy, a quote being opened, each call under way) what ties it to    *)
(* the row of the server and to the others.                                *)
(***************************************************************************)
Asking == {"loading"} \cup OpenBoxes
Screens == [at : {"closed"} \cup Asking \cup Working, base : 0..MaxVersion, nb : 0..MaxVersion,
            text : Texts, print : 0..MaxVersion, dirty : BOOLEAN, timer : BOOLEAN,
            mute : BOOLEAN, kept : BOOLEAN, bare : BOOLEAN, over : Texts]
Drafts == [base : 0..MaxVersion, own : 0..MaxVersion, text : Texts, over : Texts,
           newer : BOOLEAN]
Saving == [st : {"sent", "done", "refused"}, base : 0..MaxVersion, text : Texts, over : Texts,
           deaf : BOOLEAN]
Fetching == [read : BOOLEAN, row : Rows, same : BOOLEAN, hn : Texts]
Closing == [read : BOOLEAN, row : Rows]

Lone(S) == \A x, y \in S : x = y

TypedBrowser ==
    /\ draft \in Drafts /\ scr \in Screens
    /\ copy \subseteq Texts /\ Lone(copy)
    /\ got \subseteq Rows /\ Lone(got)
    /\ scr.at \notin Working => scr.text = {} /\ ~scr.dirty /\ ~scr.timer /\ ~scr.kept
    /\ scr.timer => scr.dirty

TypedCalls ==
    /\ put \subseteq Saving /\ Lone(put)
    /\ old \subseteq Saving /\ Lone(old)
    /\ fetch \subseteq Fetching /\ Lone(fetch)
    /\ conv \subseteq Closing /\ Lone(conv)

\* Which of them there can be at which box.
Placed ==
    /\ got # {} <=> scr.at \in Asking
    /\ put # {} => scr.at = "edit"
    /\ fetch \cup conv # {} => scr.at \in Working

Typed == db \in Rows /\ TypedBrowser /\ TypedCalls /\ Placed

Main(text) == text \ (MyHn \cup TheirHn)

\* A quote as the server had it at some time.
Past(row) ==
    /\ row.print <= row.v /\ row.v <= db.v
    /\ row.v = db.v => row.text = db.text /\ row.print = db.print
    /\ row.print = db.print => Main(row.text) = Main(db.text)
    /\ row.text \cap Mine \subseteq saved

DraftFits ==
    /\ draft.own <= draft.base /\ draft.base <= db.v
    /\ draft.own = db.v => db.text \subseteq draft.text \cup draft.over
    /\ draft.base = db.v => Main(db.text) \subseteq draft.text \cup draft.over

\* Unsaved work on the version of the row is in a draft of that version.
Backed ==
    scr.dirty /\ ~scr.mute /\ ~scr.bare /\ scr.base = db.v
      => draft.base = db.v /\ draft.text = scr.text

Found == scr.text \cup swept \cup saved

ScreenFits ==
    scr.at \in Working =>
        /\ scr.base <= scr.nb /\ scr.nb <= db.v /\ scr.print <= db.v
        /\ ~scr.timer => Backed
        /\ ~scr.dirty => draft.base < db.v /\ scr.text \cap Mine \subseteq saved
        /\ draft.base = db.v => draft.text \cap Mine \subseteq Found
        /\ scr.base = db.v => db.text \subseteq scr.text \cup scr.over
        /\ scr.nb = db.v \/ scr.print = db.print => Main(db.text) \subseteq scr.text \cup scr.over

\* The copy made at a conflict, while the box of the conflict is there.
CopyFits ==
    scr.kept => /\ scr.at = "askReload"
                /\ scr.text \cap Mine \subseteq (UNION copy) \cup saved
                /\ (UNION copy) \cap Mine \subseteq Found

\* A quote being opened: its draft has been found to be of an earlier version
\* by the time the copy is asked about.
GotFits(row) ==
    /\ Past(row)
    /\ draft.base <= row.v
    /\ scr.at \in {"askCopy", "askDrop"} => draft.base < row.v
    /\ scr.at = "askDraft" => draft.base = row.v
    /\ draft.own = row.v => row.text \subseteq draft.text \cup draft.over
    /\ draft.base = row.v => Main(row.text) \subseteq draft.text \cup draft.over

AsRow(p) == [v |-> p.base, text |-> p.text, print |-> p.base]

\* A save on the version of the row holds what the user does not know to replace.
Informed(p) == p.st = "sent" /\ p.base = db.v => db.text \subseteq p.text \cup p.over

\* A save that is refused, or will be, has a draft behind it.
PutFits(p) ==
    /\ p.base <= db.v /\ Informed(p)
    /\ p.st = "done" => Past(AsRow(p))
    /\ p.st = "refused" \/ (p.st = "sent" /\ p.base # scr.base) => Backed
    /\ scr.text \cap Mine \subseteq p.text \cup saved

\* An editor that is gone left no draft that an opening would offer.
OldFits(p) ==
    /\ p.base <= db.v /\ Informed(p)
    /\ ~p.deaf /\ ~draft.newer =>
          draft.base < db.v /\ \A row \in got : draft.base < row.v

FetchFits(f) == (f.read => Past(f.row)) /\ (~f.same => scr.base = scr.print)

ConvFits(c) == Past(c.row) /\ (c.read => c.row.print = c.row.v)

IInv ==
    /\ Typed
    /\ Past(db)
    /\ DraftFits
    /\ ScreenFits
    /\ CopyFits
    /\ \A row \in got : GotFits(row)
    /\ \A p \in put : PutFits(p)
    /\ \A p \in old : OldFits(p)
    /\ \A f \in fetch : FetchFits(f)
    /\ \A c \in conv : ConvFits(c)

-----------------------------------------------------------------------------
(***************************************************************************)
(* Texts, rows and what the steps of the server do to them.                *)
(***************************************************************************)

\* A row that is not more than typed: a save that was stored is one too.
Quotes == [v : 0..MaxVersion, text : Texts, print : 0..MaxVersion]

LEMMA RowsAre ==
    /\ Rows \subseteq Quotes
    /\ \A row \in Rows : row.v \in 1..MaxVersion /\ row.print \in 1..MaxVersion
    /\ \A p \in Saving : AsRow(p) \in Quotes
    /\ NoRead.row \in Rows
BY DEF Rows, Quotes, Saving, AsRow, NoRead, Texts

\* No edit is of both parts, and none of both sides.
LEMMA Apart ==
    /\ \A e \in TheirMain \cup TheirHn : e \notin Mine
    /\ \A t, s \in Texts : Main(t) = Main(s) /\ HnOf(t) = HnOf(s) => t = s
    /\ \A t : \A e \in TheirHn : Main(t \cup {e}) = Main(t)
BY DEF DraftAssumption, Mine, Texts, Main, HnOf

\* The row stays, or it gets a version, and a print if the main part changed.
DbStep ==
    /\ saved \subseteq saved'
    /\ \/ db' = db
       \/ /\ db' \in Rows /\ db'.v = db.v + 1 /\ db'.print <= db'.v
          /\ db'.text \cap Mine \subseteq saved'
          /\ db'.print = db.print => Main(db'.text) = Main(db.text)
          /\ db'.print # db.print => db'.print = db'.v

LEMMA PastKept ==
  ASSUME db \in Rows, Past(db), DbStep
  PROVE  db' \in Rows /\ Past(db)' /\ \A row \in Quotes : Past(row) => Past(row)'
<1>1. db.v \in Nat /\ db.print \in Nat /\ db' \in Rows
  BY RowsAre DEF DbStep, Rows
<1>2. db'.v \in Nat /\ db'.print \in Nat
  BY <1>1 DEF Rows
<1>3. CASE db' = db
  <2>1. Past(db)'
    BY <1>1, <1>3 DEF DbStep, Past
  <2>2. ASSUME NEW row \in Quotes, Past(row) PROVE Past(row)'
    BY <1>1, <1>3, <2>2 DEF DbStep, Past
  <2> QED BY <1>1, <2>1, <2>2
<1>4. CASE db' # db
  <2>1. Past(db)'
    BY <1>1, <1>2, <1>4 DEF DbStep, Past
  <2>2. ASSUME NEW row \in Quotes, Past(row) PROVE Past(row)'
    <3>1. row.v \in Nat /\ row.print \in Nat
      BY DEF Quotes
    <3>2. row.print <= row.v /\ row.v <= db.v /\ db.print <= db.v
      BY <2>2 DEF Past
    <3>3. row.print # db'.print \/ db'.print = db.print
      BY <1>1, <1>2, <1>4, <3>1, <3>2 DEF DbStep
    <3>4. db'.v > row.v
      BY <1>1, <1>4, <3>1, <3>2 DEF DbStep
    <3> QED BY <1>1, <1>2, <1>4, <2>2, <3>1, <3>2, <3>3, <3>4 DEF DbStep, Past
  <2> QED BY <1>1, <2>1, <2>2
<1> QED BY <1>3, <1>4

\* What the server's steps leave in the browser fits the row after them, and
\* so does every call under way before them.
LEMMA BrowserStays ==
  ASSUME IInv, UNCHANGED browser, DbStep, swept' = swept
  PROVE  /\ db' \in Rows /\ TypedBrowser' /\ Past(db)'
         /\ DraftFits' /\ ScreenFits' /\ CopyFits' /\ \A row \in got' : GotFits(row)'
         /\ \A p \in put : PutFits(p)'
         /\ \A p \in old : OldFits(p)'
         /\ \A f \in fetch : FetchFits(f)'
         /\ \A c \in conv : ConvFits(c)'
<1>1. /\ draft' = draft /\ copy' = copy /\ scr' = scr /\ got' = got
      /\ saved \subseteq saved' /\ Found \subseteq Found'
  BY DEF browser, DbStep, Found
<1>2. /\ db' \in Rows /\ Past(db)' /\ \A row \in Quotes : Past(row) => Past(row)'
  BY PastKept DEF IInv, Typed
<1>3. TypedBrowser'
  BY <1>1 DEF IInv, Typed, TypedBrowser
<1>4. /\ db.v \in Nat /\ db.print \in Nat /\ db'.v \in Nat /\ db'.print \in Nat
      /\ draft.base \in Nat /\ draft.own \in Nat
      /\ scr.base \in Nat /\ scr.nb \in Nat /\ scr.print \in Nat
  BY <1>2 DEF IInv, Typed, TypedBrowser, Rows, Drafts, Screens
<1>5. /\ db.print <= db.v
      /\ db' = db \/ db'.v = db.v + 1
      /\ db'.print = db.print => Main(db'.text) = Main(db.text)
      /\ db'.print = db.print \/ db'.print = db.v + 1
  BY DEF DbStep, IInv, Past
<1>6. DraftFits'
  BY <1>1, <1>4, <1>5 DEF IInv, DraftFits
<1>7. ScreenFits'
  <2> SUFFICES ASSUME scr.at \in Working PROVE ScreenFits'
    BY <1>1 DEF ScreenFits
  <2>1. scr.base <= scr.nb /\ scr.nb <= db.v /\ scr.print <= db.v
    BY DEF IInv, ScreenFits
  <2>2. ~scr.timer => Backed'
    BY <1>1, <1>4, <1>5, <2>1 DEF IInv, ScreenFits, Backed
  <2>3. ~scr.dirty => draft.base < db'.v /\ scr.text \cap Mine \subseteq saved'
    BY <1>1, <1>4, <1>5 DEF IInv, ScreenFits
  <2>4. draft.base = db'.v => draft.text \cap Mine \subseteq Found'
    BY <1>1, <1>4, <1>5 DEF IInv, ScreenFits, DraftFits
  <2>5. /\ scr.base = db'.v => db'.text \subseteq scr.text \cup scr.over
        /\ scr.nb = db'.v \/ scr.print = db'.print => Main(db'.text) \subseteq scr.text \cup scr.over
    BY <1>4, <1>5, <2>1 DEF IInv, ScreenFits
  <2> QED BY <1>1, <1>4, <1>5, <2>1, <2>2, <2>3, <2>4, <2>5 DEF ScreenFits
<1>8. CopyFits'
  BY <1>1 DEF IInv, CopyFits
<1>9. \A row \in got : GotFits(row)'
  <2> SUFFICES ASSUME NEW row \in got PROVE GotFits(row)'
    OBVIOUS
  <2>1. row \in Quotes
    BY RowsAre DEF IInv, Typed, TypedBrowser
  <2> QED BY <1>1, <1>2, <2>1 DEF IInv, GotFits
<1>10. \A p \in put : PutFits(p)'
  <2> SUFFICES ASSUME NEW p \in put PROVE PutFits(p)'
    OBVIOUS
  <2>1. p \in Saving /\ PutFits(p) /\ scr.at \in Working
    BY DEF IInv, Typed, TypedCalls, Placed, Working
  <2>2. p.base \in Nat /\ p.base <= db.v /\ AsRow(p) \in Quotes
    BY <2>1, RowsAre DEF Saving, PutFits
  <2>3. scr.base <= db.v
    BY <1>4, <2>1 DEF IInv, ScreenFits
  <2>4. p.base <= db'.v /\ Informed(p)'
    BY <1>4, <1>5, <2>1, <2>2 DEF PutFits, Informed
  <2>5. p.st = "done" => Past(AsRow(p))'
    BY <1>2, <2>1, <2>2 DEF PutFits
  <2>6. Backed => Backed'
    BY <1>1, <1>4, <1>5, <2>3 DEF Backed
  <2>7. scr'.text \cap Mine \subseteq p.text \cup saved'
    BY <1>1, <2>1 DEF PutFits
  <2> QED BY <1>1, <2>1, <2>4, <2>5, <2>6, <2>7 DEF PutFits
<1>11. \A p \in old : OldFits(p)'
  <2> SUFFICES ASSUME NEW p \in old PROVE OldFits(p)'
    OBVIOUS
  <2>1. p \in Saving /\ OldFits(p)
    BY DEF IInv, Typed, TypedCalls
  <2>2. p.base \in Nat /\ p.base <= db.v
    BY <2>1 DEF Saving, OldFits
  <2> QED BY <1>1, <1>4, <1>5, <2>1, <2>2 DEF OldFits, Informed
<1>12. \A f \in fetch : FetchFits(f)'
  <2> SUFFICES ASSUME NEW f \in fetch PROVE FetchFits(f)'
    OBVIOUS
  <2>1. FetchFits(f) /\ f.row \in Quotes
    BY RowsAre DEF IInv, Typed, TypedCalls, Fetching
  <2> QED BY <1>1, <1>2, <2>1 DEF FetchFits
<1>13. \A c \in conv : ConvFits(c)'
  <2> SUFFICES ASSUME NEW c \in conv PROVE ConvFits(c)'
    OBVIOUS
  <2>1. ConvFits(c) /\ c.row \in Quotes
    BY RowsAre DEF IInv, Typed, TypedCalls, Closing
  <2> QED BY <1>1, <1>2, <2>1 DEF ConvFits
<1> QED BY <1>1, <1>2, <1>3, <1>6, <1>7, <1>8, <1>9, <1>10, <1>11, <1>12, <1>13

-----------------------------------------------------------------------------
(***************************************************************************)
(* The steps outside the browser: calls are sent, served and lost, and the *)
(* others write.                                                           *)
(***************************************************************************)
LEMMA Stays == saved' = saved /\ db' = db => DbStep
BY DEF DbStep

LEMMA CallsAsAre ==
  ASSUME IInv, UNCHANGED browser, DbStep, swept' = swept,
         put' = {} \/ put' = put,
         old' = old, fetch' = fetch, conv' = {} \/ conv' = conv
  PROVE  IInv'
<1>1. TypedCalls' /\ Placed'
  BY DEF IInv, Typed, TypedCalls, Placed, Lone, browser
<1> QED BY <1>1, BrowserStays DEF IInv, Typed, browser

LEMMA SaveSent == ASSUME IInv, Save PROVE IInv'
<1> PICK p : p = Call
  OBVIOUS
<1>1. /\ scr.at = "edit" /\ put' = {p} /\ UNCHANGED browser /\ swept' = swept
      /\ old' = old /\ fetch' = fetch /\ conv' = conv /\ saved' = saved /\ db' = db
  BY DEF Save, Rest, Ghosts
<1>2. p \in Saving /\ p.st = "sent" /\ p.base = scr.base /\ p.text = scr.text /\ p.over = scr.over
  BY DEF IInv, Typed, TypedBrowser, Screens, Call, Saving
<1>3. TypedCalls' /\ Placed'
  BY <1>1, <1>2 DEF IInv, Typed, TypedCalls, Placed, Lone, browser
<1>4. DbStep
  BY <1>1, Stays
<1>5. PutFits(p)'
  <2>1. ScreenFits' /\ scr' = scr /\ scr.at \in Working
    BY <1>1, <1>4, BrowserStays DEF browser, Working
  <2>2. /\ scr.base <= scr.nb /\ scr.nb <= db'.v
        /\ scr.base = db'.v => db'.text \subseteq scr.text \cup scr.over
    BY <2>1 DEF ScreenFits
  <2>3. scr.base \in Nat /\ scr.nb \in Nat /\ db'.v \in Nat
    BY <1>1 DEF IInv, Typed, TypedBrowser, Screens, Rows
  <2> QED BY <1>2, <2>1, <2>2, <2>3 DEF PutFits, Informed
<1> QED BY <1>1, <1>3, <1>4, <1>5, BrowserStays DEF IInv, Typed

LEMMA SaveLost == ASSUME IInv, SaveFails PROVE IInv'
<1>1. /\ UNCHANGED browser /\ swept' = swept /\ put' = {}
      /\ old' = old /\ fetch' = fetch /\ conv' = conv /\ saved' = saved /\ db' = db
  BY DEF SaveFails, Ghosts
<1> QED BY <1>1, Stays, CallsAsAre

LEMMA ConvertLost == ASSUME IInv, ConvertFails PROVE IInv'
<1>1. /\ UNCHANGED browser /\ swept' = swept /\ conv' = {}
      /\ old' = old /\ fetch' = fetch /\ put' = put /\ saved' = saved /\ db' = db
  BY DEF ConvertFails, Ghosts
<1> QED BY <1>1, Stays, CallsAsAre

LEMMA SavingSet ==
  ASSUME NEW p \in Saving, NEW s \in {"done", "refused"}, NEW b \in 0..MaxVersion
  PROVE  [p EXCEPT !.st = s, !.base = b] \in Saving
BY DEF Saving

\* A save that is served is stored, and the row is then what it stored, or it
\* is refused, and the row stays.
LEMMA ServedIs ==
  ASSUME IInv, NEW p \in Saving, p.base <= db.v, Served(p)
  PROVE  /\ DbStep /\ p.st = "sent"
         /\ Answer(p) \in Saving
         /\ Answer(p).text = p.text /\ Answer(p).over = p.over /\ Answer(p).deaf = p.deaf
         /\ Answer(p).base \in Nat /\ Answer(p).base <= db'.v
         /\ \/ /\ Answer(p).st = "done" /\ Answer(p).base = db'.v
               /\ p.base = db.v /\ db'.v = db.v + 1
               /\ db'.text = p.text /\ db'.print = db'.v
               /\ saved' = saved \cup (p.text \cap Mine)
            \/ /\ Answer(p).st = "refused" /\ Answer(p).base = p.base /\ p.base # db.v
               /\ db' = db /\ saved' = saved
<1>1. db \in Rows /\ db.v \in 1..MaxVersion /\ db.print \in 1..MaxVersion /\ db.print <= db.v
      /\ MaxVersion \in Nat
  BY DEF IInv, Typed, Rows, Past, DraftAssumption
<1>2. p.base \in 0..MaxVersion /\ p.text \in Texts /\ p.st = "sent"
  BY DEF Saving, Served
<1>3. CASE p.base = db.v
  <2>1. Accept(p)
    BY <1>3 DEF Served
  <2>2. /\ db.v < MaxVersion /\ db' = [v |-> db.v + 1, text |-> p.text, print |-> db.v + 1]
        /\ saved' = saved \cup (p.text \cap Mine)
    BY <2>1 DEF Accept
  <2>3. Answer(p) = [p EXCEPT !.st = "done", !.base = db.v + 1]
    BY <1>3 DEF Answer
  <2>4. /\ Answer(p).text = p.text /\ Answer(p).over = p.over /\ Answer(p).deaf = p.deaf
        /\ Answer(p).st = "done" /\ Answer(p).base = db.v + 1
    BY <2>3 DEF Saving
  <2>5. Answer(p) \in Saving
    <3>1. db.v + 1 \in 0..MaxVersion
      BY <1>1, <2>2
    <3> QED BY <2>3, <3>1, SavingSet
  <2>6. db' \in Rows /\ db'.v = db.v + 1 /\ db'.print = db.v + 1 /\ db'.text = p.text
    BY <1>1, <1>2, <2>2 DEF Rows
  <2>7. DbStep
    BY <1>1, <2>2, <2>6 DEF DbStep
  <2> QED BY <1>1, <1>2, <1>3, <2>2, <2>4, <2>5, <2>6, <2>7
<1>4. CASE p.base # db.v
  <2>1. db' = db /\ saved' = saved
    BY <1>4 DEF Served, Accept
  <2>2. Answer(p) = [p EXCEPT !.st = "refused", !.base = @]
    BY <1>4 DEF Answer
  <2>3. /\ Answer(p).text = p.text /\ Answer(p).over = p.over /\ Answer(p).deaf = p.deaf
        /\ Answer(p).st = "refused" /\ Answer(p).base = p.base
    BY <2>2 DEF Saving
  <2>4. Answer(p) \in Saving
    BY <1>2, <2>2, SavingSet
  <2> QED BY <1>1, <1>2, <1>4, <2>1, <2>3, <2>4, Stays
<1> QED BY <1>3, <1>4

LEMMA SaveServed == ASSUME IInv, ServeSave PROVE IInv'
<1>1. PICK p \in put : Served(p) /\ put' = {Answer(p)}
  BY DEF ServeSave
<1>2. /\ UNCHANGED browser /\ swept' = swept
      /\ old' = old /\ fetch' = fetch /\ conv' = conv
  BY DEF ServeSave
<1>3. p \in Saving /\ PutFits(p) /\ p.base <= db.v
  BY DEF IInv, Typed, TypedCalls, PutFits
<1> PICK a : a = Answer(p)
  OBVIOUS
<1>4. /\ DbStep /\ p.st = "sent" /\ a \in Saving /\ a.text = p.text /\ a.over = p.over
      /\ a.base \in Nat /\ a.base <= db'.v
      /\ \/ /\ a.st = "done" /\ a.base = db'.v
            /\ p.base = db.v /\ db'.v = db.v + 1
            /\ db'.text = p.text /\ db'.print = db'.v
            /\ saved' = saved \cup (p.text \cap Mine)
         \/ /\ a.st = "refused" /\ a.base = p.base /\ p.base # db.v
            /\ db' = db /\ saved' = saved
  BY <1>1, <1>3, ServedIs
<1>5. put' = {a}
  BY <1>1
<1>6. TypedCalls' /\ Placed'
  BY <1>2, <1>4, <1>5 DEF IInv, Typed, TypedCalls, Placed, Lone, browser
<1>7. PutFits(a)'
  <2>1. scr' = scr /\ draft' = draft
    BY <1>2 DEF browser
  <2>2. scr.text \cap Mine \subseteq a.text \cup saved'
    BY <1>3, <1>4 DEF PutFits
  <2>3. CASE a.st = "done"
    <3>1. Past(AsRow(a))'
      BY <1>4, <2>3 DEF Past, AsRow
    <3> QED BY <1>4, <2>1, <2>2, <2>3, <3>1 DEF PutFits, Informed
  <2>4. CASE a.st = "refused"
    <3>1. Backed
      BY <1>3, <1>4, <2>4 DEF PutFits, Backed
    <3>2. Backed'
      BY <1>4, <2>1, <2>4, <3>1 DEF Backed
    <3> QED BY <1>4, <2>1, <2>2, <2>4, <3>2 DEF PutFits, Informed
  <2> QED BY <1>4, <2>3, <2>4
<1> QED BY <1>2, <1>4, <1>5, <1>6, <1>7, BrowserStays DEF IInv, Typed

LEMMA OldSaveServed == ASSUME IInv, ServeOldSave PROVE IInv'
<1>1. PICK p \in old : Served(p) /\ old' = {Answer(p)}
  BY DEF ServeOldSave
<1>2. /\ UNCHANGED browser /\ swept' = swept
      /\ put' = put /\ fetch' = fetch /\ conv' = conv
  BY DEF ServeOldSave
<1>3. p \in Saving /\ OldFits(p) /\ p.base <= db.v
  BY DEF IInv, Typed, TypedCalls, OldFits
<1> PICK a : a = Answer(p)
  OBVIOUS
<1>4. /\ DbStep /\ a \in Saving /\ a.text = p.text /\ a.over = p.over /\ a.deaf = p.deaf
      /\ a.base \in Nat /\ a.base <= db'.v /\ a.st # "sent"
  BY <1>1, <1>3, ServedIs
<1>5. old' = {a}
  BY <1>1
<1>6. TypedCalls' /\ Placed'
  BY <1>2, <1>4, <1>5 DEF IInv, Typed, TypedCalls, Placed, Lone, browser
<1>7. OldFits(p)'
  BY <1>2, <1>4, BrowserStays
<1>8. OldFits(a)'
  BY <1>4, <1>7 DEF OldFits, Informed
<1> QED BY <1>2, <1>4, <1>5, <1>6, <1>8, BrowserStays DEF IInv, Typed

\* A version more with the same text, and, when the deal is closed, new pages.
LEMMA Touched ==
  ASSUME db \in Rows, Past(db), db.v < MaxVersion, saved' = saved,
         \/ db' = [db EXCEPT !.v = @ + 1]
         \/ db' = [db EXCEPT !.v = @ + 1, !.print = db.v + 1]
  PROVE  DbStep /\ (db'.print = db.print \/ db'.print = db'.v)
<1>1. db.v \in 1..MaxVersion /\ db.print \in 1..MaxVersion /\ MaxVersion \in Nat
  BY DEF Rows, DraftAssumption
<1>2. db' \in Rows /\ db'.v = db.v + 1 /\ db'.text = db.text
      /\ (db'.print = db.print \/ db'.print = db.v + 1)
  <2>1. CASE db' = [db EXCEPT !.v = @ + 1]
    BY <1>1, <2>1 DEF Rows
  <2>2. CASE db' = [db EXCEPT !.v = @ + 1, !.print = db.v + 1]
    <3>1. db.v + 1 \in 1..MaxVersion
      BY <1>1
    <3>2. PICK v \in 1..MaxVersion : v = db.v + 1
      BY <3>1
    <3>3. db' = [db EXCEPT !.v = v, !.print = v]
      BY <2>2, <3>2
    <3>4. db' \in Rows /\ db'.v = v /\ db'.print = v /\ db'.text = db.text
      BY <3>3 DEF Rows
    <3> QED BY <3>2, <3>4
  <2> QED BY <2>1, <2>2
<1> QED BY <1>1, <1>2 DEF DbStep, Past

LEMMA NoReadIs == NoRead \in Fetching /\ ~NoRead.read /\ NoRead.same
BY DEF NoRead, Fetching, Rows, Texts, DraftAssumption

\* A reload that has just been asked for fits any state.
LEMMA ReloadAsked ==
  ASSUME IInv, UNCHANGED browser, DbStep, swept' = swept, scr.at = "edit",
         put' = put, old' = old, conv' = conv, fetch' = {NoRead}
  PROVE  IInv'
<1>1. TypedCalls' /\ Placed'
  BY NoReadIs DEF IInv, Typed, TypedCalls, Placed, Lone, browser, Working
<1>2. FetchFits(NoRead)'
  BY NoReadIs DEF FetchFits
<1> QED BY <1>1, <1>2, BrowserStays DEF IInv, Typed

LEMMA Assigned == ASSUME IInv, Assign PROVE IInv'
<1>1. /\ UNCHANGED browser /\ swept' = swept /\ scr.at = "edit"
      /\ put' = put /\ old' = old /\ conv' = conv /\ fetch' = {NoRead}
      /\ db.v < MaxVersion /\ db' = [db EXCEPT !.v = @ + 1] /\ saved' = saved
  BY DEF Assign, Rest, Ghosts
<1>2. DbStep
  BY <1>1, Touched DEF IInv, Typed
<1> QED BY <1>1, <1>2, ReloadAsked

LEMMA Reviewed == ASSUME IInv, Review PROVE IInv'
<1>1. /\ UNCHANGED browser /\ swept' = swept /\ scr.at = "edit"
      /\ put' = put /\ old' = old /\ conv' = conv /\ fetch' = {NoRead}
      /\ db' = db /\ saved' = saved
  BY DEF Review, Rest, Ghosts
<1> QED BY <1>1, Stays, ReloadAsked

LEMMA Reloaded == ASSUME IInv, Reread PROVE IInv'
<1>1. PICK f \in fetch : ~f.read /\ fetch' = {[f EXCEPT !.read = TRUE, !.row = db]}
  BY DEF Reread
<1>2. /\ UNCHANGED browser /\ swept' = swept
      /\ put' = put /\ old' = old /\ conv' = conv /\ saved' = saved /\ db' = db
  BY DEF Reread, Rest, Ghosts
<1> PICK g : g = [f EXCEPT !.read = TRUE, !.row = db]
  OBVIOUS
<1>3. f \in Fetching /\ FetchFits(f) /\ db \in Rows
  BY DEF IInv, Typed, TypedCalls
<1>4. g \in Fetching /\ g.row = db /\ g.same = f.same
  BY <1>3 DEF Fetching
<1>5. fetch' = {g}
  BY <1>1
<1>6. TypedCalls' /\ Placed'
  BY <1>2, <1>4, <1>5 DEF IInv, Typed, TypedCalls, Placed, Lone, browser
<1>7. FetchFits(g)'
  BY <1>2, <1>3, <1>4 DEF FetchFits, IInv, Past, browser
<1> QED BY <1>2, <1>5, <1>6, <1>7, Stays, BrowserStays DEF IInv, Typed

LEMMA ConvertAsked == ASSUME IInv, Convert PROVE IInv'
<1> PICK c : c = [read |-> FALSE, row |-> db]
  OBVIOUS
<1>1. /\ UNCHANGED browser /\ swept' = swept /\ scr.at = "edit"
      /\ put' = put /\ old' = old /\ fetch' = fetch /\ conv' = {c} /\ saved' = saved /\ db' = db
  BY DEF Convert, Rest, Ghosts
<1>2. c \in Closing /\ ~c.read /\ c.row = db
  BY DEF IInv, Typed, Closing
<1>3. TypedCalls' /\ Placed'
  BY <1>1, <1>2 DEF IInv, Typed, TypedCalls, Placed, Lone, browser, Working
<1>4. ConvFits(c)'
  BY <1>1, <1>2 DEF ConvFits, IInv, Past
<1> QED BY <1>1, <1>3, <1>4, Stays, BrowserStays DEF IInv, Typed

LEMMA ConvertServed == ASSUME IInv, ServeConvert PROVE IInv'
<1> DEFINE c == [read |-> TRUE, row |-> db']
<1>1. /\ UNCHANGED browser /\ swept' = swept /\ conv # {}
      /\ put' = put /\ old' = old /\ fetch' = fetch /\ conv' = {c} /\ saved' = saved
      /\ db.v < MaxVersion /\ db' = [db EXCEPT !.v = @ + 1, !.print = db.v + 1]
  BY DEF ServeConvert, Rest, Ghosts
<1>2. DbStep /\ db'.print = db'.v
  BY <1>1, Touched DEF IInv, Typed, Rows
<1>3. db' \in Rows /\ Past(db)'
  BY <1>1, <1>2, BrowserStays
<1>4. c \in Closing /\ c.row = db'
  BY <1>3 DEF Closing
<1> HIDE DEF c
<1>5. TypedCalls' /\ Placed'
  BY <1>1, <1>4 DEF IInv, Typed, TypedCalls, Placed, Lone, browser
<1>6. \A d \in conv' : ConvFits(d)'
  BY <1>1, <1>2, <1>3, <1>4 DEF ConvFits, Past
<1> QED BY <1>1, <1>2, <1>5, <1>6, BrowserStays DEF IInv, Typed

LEMMA TheySaved == ASSUME IInv, NEW e \in TheirMain \cup TheirHn, TheySave(e) PROVE IInv'
<1>1. /\ UNCHANGED browser /\ swept' = swept
      /\ put' = put /\ old' = old /\ fetch' = fetch /\ conv' = conv /\ saved' = saved
      /\ db.v < MaxVersion
      /\ db' = [v |-> db.v + 1, text |-> db.text \cup {e},
                print |-> IF e \in TheirMain THEN db.v + 1 ELSE db.print]
  BY DEF TheySave, Rest, Ghosts, calls
<1>2. db.v \in 1..MaxVersion /\ db.print \in 1..MaxVersion /\ MaxVersion \in Nat /\ db.text \in Texts
  BY DEF IInv, Typed, Rows, DraftAssumption
<1>3. db' \in Rows /\ db'.v = db.v + 1 /\ db'.text = db.text \cup {e}
  BY <1>1, <1>2 DEF Rows, Texts
<1>4. db'.print = db.v + 1 \/ (db'.print = db.print /\ e \in TheirHn)
  BY <1>1
<1>5. Main(db.text \cup {e}) = Main(db.text) \/ e \notin TheirHn
  BY Apart
<1>6. e \notin Mine /\ db.text \cap Mine \subseteq saved /\ db.print <= db.v
  BY Apart DEF IInv, Past
<1>7. DbStep
  BY <1>1, <1>2, <1>3, <1>4, <1>5, <1>6 DEF DbStep
<1> QED BY <1>1, <1>7, CallsAsAre

LEMMA TheyTouched == ASSUME IInv, TheyTouch PROVE IInv'
<1>1. /\ UNCHANGED browser /\ swept' = swept
      /\ put' = put /\ old' = old /\ fetch' = fetch /\ conv' = conv /\ saved' = saved
      /\ db.v < MaxVersion /\ db' = [db EXCEPT !.v = @ + 1]
  BY DEF TheyTouch, Rest, Ghosts, calls
<1>2. DbStep
  BY <1>1, Touched DEF IInv, Typed
<1> QED BY <1>1, <1>2, CallsAsAre

-----------------------------------------------------------------------------
(***************************************************************************)
(* Opening the quote.                                                      *)
(***************************************************************************)
LEMMA ClosedIs ==
    /\ Closed \in Screens /\ Closed.at = "closed" /\ Closed.text = {} /\ Closed.over = {}
    /\ ~Closed.dirty /\ ~Closed.timer /\ ~Closed.mute /\ ~Closed.kept /\ ~Closed.bare
    /\ NoDraft \in Drafts /\ NoDraft.base = 0 /\ NoDraft.own = 0 /\ NoDraft.text = {}
    /\ ~NoDraft.newer
BY DEF Closed, Screens, NoDraft, Drafts, Texts, DraftAssumption

LEMMA AsksIs ==
  ASSUME NEW box \in Asking, NEW s, s = [Closed EXCEPT !.at = box]
  PROVE  s \in Screens /\ s.at = box /\ s.text = {} /\ ~s.dirty /\ ~s.timer /\ ~s.kept
<1> PICK c : c = Closed
  OBVIOUS
<1>1. c \in Screens /\ c.text = {} /\ ~c.dirty /\ ~c.timer /\ ~c.kept /\ s = [c EXCEPT !.at = box]
  BY ClosedIs
<1> QED BY <1>1 DEF Screens

LEMMA ShownIs ==
  ASSUME NEW row \in Quotes, NEW s, s = Shown(row)
  PROVE  /\ s \in Screens /\ s.at = "edit" /\ s.base = row.v /\ s.nb = row.v
         /\ s.text = row.text /\ s.print = row.print /\ s.over = {}
         /\ ~s.dirty /\ ~s.timer /\ ~s.mute /\ ~s.kept /\ ~s.bare
<1> PICK c : c = Closed
  OBVIOUS
<1>1. c \in Screens /\ c.over = {} /\ ~c.dirty /\ ~c.timer /\ ~c.mute /\ ~c.kept /\ ~c.bare
  BY ClosedIs
<1>2. s = [c EXCEPT !.at = "edit", !.base = row.v, !.nb = row.v,
                    !.text = row.text, !.print = row.print]
  BY DEF Shown
<1>3. row.v \in 0..MaxVersion /\ row.print \in 0..MaxVersion /\ row.text \in Texts
  BY DEF Quotes
<1>4. "edit" \in {"closed"} \cup Asking \cup Working
  BY DEF Working
<1>5. s \in Screens
  BY <1>1, <1>2, <1>3, <1>4 DEF Screens
<1>6. /\ s.at = "edit" /\ s.base = row.v /\ s.nb = row.v /\ s.text = row.text
      /\ s.print = row.print /\ s.over = {}
  BY <1>1, <1>2 DEF Screens
<1>7. ~s.dirty /\ ~s.timer /\ ~s.mute /\ ~s.kept /\ ~s.bare
  BY <1>1, <1>2 DEF Screens
<1> QED BY <1>5, <1>6, <1>7

\* What an editor that is opening has around it.
LEMMA OpeningIs ==
  ASSUME IInv, NEW row \in got
  PROVE  /\ scr.at \in Asking /\ scr.at \notin Working
         /\ put = {} /\ fetch = {} /\ conv = {} /\ got = {row}
         /\ row \in Rows /\ row \in Quotes /\ GotFits(row)
         /\ row.v \in Nat /\ row.v > 0 /\ row.v <= db.v /\ db.v \in Nat /\ db \in Rows
         /\ row.print \in Nat /\ row.print <= row.v
         /\ draft \in Drafts /\ draft.base \in Nat /\ draft.text \in Texts
<1>1. scr.at \in Asking
  BY DEF IInv, Typed, Placed
<1>2. scr.at \notin Working /\ scr.at # "edit"
  BY <1>1 DEF Asking, OpenBoxes, Working, SaveBoxes
<1>3. put = {} /\ fetch = {} /\ conv = {}
  BY <1>2 DEF IInv, Typed, Placed
<1>4. got = {row} /\ row \in Rows /\ GotFits(row) /\ db \in Rows /\ draft \in Drafts
  BY DEF IInv, Typed, TypedBrowser, Lone
<1>5. row.v \in Nat /\ row.v > 0 /\ row.print \in Nat /\ db.v \in Nat
  BY <1>4 DEF Rows
<1>6. row.v <= db.v /\ row.print <= row.v
  BY <1>4 DEF GotFits, Past
<1> QED BY <1>1, <1>2, <1>3, <1>4, <1>5, <1>6, RowsAre DEF Drafts

\* Steps that leave the row and what was stored leave what the server had.
LEMMA PastStays ==
  ASSUME db' = db, saved' = saved
  PROVE  \A row : Past(row)' <=> Past(row)
BY DEF Past

\* The draft goes, or it stays and the version shown is a later one.
LEMMA OpenedClean ==
  ASSUME IInv, NEW row \in got, scr' = Shown(row), got' = {},
         \/ draft' = draft /\ draft.base < row.v
         \/ draft' = NoDraft,
         copy' \subseteq copy,
         UNCHANGED <<db, put, old, fetch, conv, saved, swept>>
  PROVE  IInv'
<1>1. /\ put = {} /\ fetch = {} /\ conv = {} /\ row \in Quotes /\ GotFits(row)
      /\ row.v \in Nat /\ row.v > 0 /\ row.v <= db.v /\ db.v \in Nat
      /\ row.print \in Nat /\ row.print <= row.v
      /\ draft \in Drafts /\ draft.base \in Nat
  BY OpeningIs
<1>2. /\ scr' \in Screens /\ scr'.at = "edit" /\ scr'.base = row.v /\ scr'.nb = row.v
      /\ scr'.text = row.text /\ scr'.print = row.print /\ scr'.over = {}
      /\ ~scr'.dirty /\ ~scr'.timer /\ ~scr'.mute /\ ~scr'.kept /\ ~scr'.bare
  BY <1>1, ShownIs
<1>3. /\ draft' \in Drafts /\ draft'.base < row.v
      /\ draft'.base \in Nat /\ draft'.own \in Nat /\ draft'.own <= draft'.base
      /\ draft'.base # 0 => draft' = draft
  BY <1>1, ClosedIs DEF IInv, DraftFits, Drafts
<1>4. Typed'
  <2>1. TypedBrowser'
    BY <1>2, <1>3 DEF IInv, Typed, TypedBrowser, Lone, Working
  <2>2. TypedCalls' /\ Placed'
    BY <1>1, <1>2 DEF IInv, Typed, TypedCalls, Placed, Lone, Asking, OpenBoxes
  <2> QED BY <2>1, <2>2 DEF IInv, Typed
<1>5. Past(db)' /\ Past(row)
  BY <1>1, PastStays DEF IInv, GotFits
<1>6. DraftFits'
  BY <1>1, <1>3 DEF IInv, DraftFits
<1>7. ScreenFits'
  <2>1. row.text \cap Mine \subseteq saved /\ row.print <= db.v
    BY <1>1, <1>5 DEF Past
  <2>2. /\ row.v = db.v => db.text \subseteq row.text
        /\ row.v = db.v \/ row.print = db.print => Main(db.text) \subseteq row.text
    BY <1>5 DEF Past, Main
  <2> QED BY <1>1, <1>2, <1>3, <2>1, <2>2 DEF ScreenFits, Backed
<1>8. CopyFits'
  BY <1>2 DEF CopyFits
<1>9. \A p \in old : OldFits(p)'
  BY <1>1, <1>3 DEF IInv, OldFits, Informed
<1> QED BY <1>1, <1>4, <1>5, <1>6, <1>7, <1>8, <1>9 DEF IInv

\* An editor that asks keeps the quote it loaded.
LEMMA Asks ==
  ASSUME IInv, NEW row \in got, scr' \in Screens, scr'.at \in Asking, got' = got, copy' = copy,
         scr'.text = {}, ~scr'.dirty, ~scr'.timer, ~scr'.kept,
         \/ draft' = draft
         \/ draft' = NoDraft,
         scr'.at \in {"askCopy", "askDrop"} => draft'.base < row.v,
         scr'.at = "askDraft" => draft'.base = row.v,
         UNCHANGED <<db, put, old, fetch, conv, saved, swept>>
  PROVE  IInv'
<1>1. /\ put = {} /\ fetch = {} /\ conv = {} /\ got = {row} /\ GotFits(row)
      /\ row.v \in Nat /\ row.v > 0 /\ row.v <= db.v /\ db.v \in Nat
      /\ draft \in Drafts /\ draft.base \in Nat
  BY OpeningIs
<1>2. scr'.at \notin Working
  BY DEF Asking, OpenBoxes, Working, SaveBoxes
<1>3. /\ draft' \in Drafts /\ draft'.base \in Nat
      /\ draft' = draft \/ (draft'.base = 0 /\ draft'.own = 0)
  BY <1>1, ClosedIs
<1>4. Typed'
  <2>1. TypedBrowser'
    BY <1>2, <1>3 DEF IInv, Typed, TypedBrowser
  <2>2. TypedCalls' /\ Placed'
    BY <1>1 DEF IInv, Typed, TypedCalls, Placed
  <2> QED BY <2>1, <2>2 DEF IInv, Typed
<1>5. Past(db)' /\ Past(row)'
  BY <1>1, PastStays DEF IInv, GotFits
<1>6. DraftFits'
  BY <1>1, <1>3 DEF IInv, DraftFits
<1>7. ScreenFits' /\ CopyFits'
  BY <1>2 DEF ScreenFits, CopyFits
<1>8. GotFits(row)'
  BY <1>1, <1>3, <1>5 DEF GotFits
<1>9. \A p \in old : OldFits(p)'
  BY <1>1, <1>3 DEF IInv, OldFits, Informed
<1> QED BY <1>1, <1>4, <1>5, <1>6, <1>7, <1>8, <1>9 DEF IInv

LEMMA OpenKeeps == ASSUME IInv, Open PROVE IInv'
<1>1. /\ scr.at = "closed" /\ scr' = [scr EXCEPT !.at = "loading"] /\ got' = {db}
      /\ UNCHANGED <<db, draft, copy, put, old, fetch, conv, saved, swept>>
  BY DEF Open, calls
<1>2. scr.at \notin Working /\ scr.at \notin Asking
  BY <1>1 DEF Working, SaveBoxes, Asking, OpenBoxes
<1>3. put = {} /\ fetch = {} /\ conv = {} /\ got = {}
  BY <1>1, <1>2 DEF IInv, Typed, Placed
<1>4. /\ scr' \in Screens /\ scr'.at = "loading" /\ scr'.text = {} /\ ~scr'.dirty /\ ~scr'.timer
      /\ ~scr'.kept
  BY <1>1, <1>2 DEF IInv, Typed, TypedBrowser, Screens, Asking
<1>5. scr'.at \notin Working /\ scr'.at \in Asking
  BY <1>4 DEF Working, SaveBoxes, Asking
<1>6. Typed'
  <2>1. TypedBrowser'
    BY <1>1, <1>4, <1>5 DEF IInv, Typed, TypedBrowser, Lone
  <2>2. TypedCalls' /\ Placed'
    BY <1>1, <1>3, <1>5 DEF IInv, Typed, TypedCalls, Placed
  <2> QED BY <1>1, <2>1, <2>2 DEF IInv, Typed
<1>7. Past(db)'
  BY <1>1, PastStays DEF IInv
<1>8. DraftFits' /\ ScreenFits' /\ CopyFits'
  BY <1>1, <1>4, <1>5 DEF IInv, DraftFits, ScreenFits, CopyFits
<1>9. \A row \in got' : GotFits(row)'
  BY <1>1, <1>4, <1>7 DEF IInv, GotFits, DraftFits
<1>10. \A p \in old : OldFits(p)'
  BY <1>1 DEF IInv, OldFits, Informed
<1> QED BY <1>1, <1>3, <1>6, <1>7, <1>8, <1>9, <1>10 DEF IInv

\* Either the copy is asked about, or the quote is shown.
LEMMA AskedOrShown ==
  ASSUME IInv, NEW row \in got, AskCopyOrShow(row), copy' = copy,
         \/ draft' = draft /\ draft.base < row.v
         \/ draft' = NoDraft,
         UNCHANGED <<db, put, old, fetch, conv, saved, swept>>
  PROVE  IInv'
<1>1. CASE copy # {}
  <2>1. scr' = [Closed EXCEPT !.at = "askCopy"] /\ got' = got
    BY <1>1 DEF AskCopyOrShow
  <2>2. "askCopy" \in Asking
    BY DEF Asking, OpenBoxes
  <2>3. /\ scr' \in Screens /\ scr'.at = "askCopy" /\ scr'.text = {} /\ ~scr'.dirty
        /\ ~scr'.timer /\ ~scr'.kept
    BY <2>1, <2>2, AsksIs
  <2>4. draft'.base < row.v
    BY OpeningIs, ClosedIs
  <2> QED BY <2>1, <2>2, <2>3, <2>4, Asks
<1>2. CASE copy = {}
  BY <1>2, OpenedClean DEF AskCopyOrShow
<1> QED BY <1>1, <1>2

LEMMA LoadedKeeps == ASSUME IInv, Loaded PROVE IInv'
<1>1. PICK row \in got :
         IF draft.base = row.v
         THEN scr' = [Closed EXCEPT !.at = "askDraft"] /\ UNCHANGED got
         ELSE AskCopyOrShow(row)
  BY DEF Loaded
<1>2. UNCHANGED <<db, draft, copy, put, old, fetch, conv, saved, swept>>
  BY DEF Loaded, Rest, Ghosts, calls
<1>3. CASE draft.base = row.v
  <2>1. "askDraft" \in Asking
    BY DEF Asking, OpenBoxes
  <2>2. /\ scr' \in Screens /\ scr'.at = "askDraft" /\ scr'.text = {} /\ ~scr'.dirty
        /\ ~scr'.timer /\ ~scr'.kept
    BY <1>1, <1>3, <2>1, AsksIs
  <2> QED BY <1>1, <1>2, <1>3, <2>1, <2>2, Asks
<1>4. CASE draft.base # row.v
  <2>1. draft.base < row.v
    BY <1>4, OpeningIs DEF GotFits
  <2> QED BY <1>1, <1>2, <1>4, <2>1, AskedOrShown
<1> QED BY <1>3, <1>4

LEMMA DeclineDraftKeeps == ASSUME IInv, DeclineDraft PROVE IInv'
<1>1. PICK row \in got : AskCopyOrShow(row)
  BY DEF DeclineDraft
<1>2. draft' = NoDraft /\ UNCHANGED <<db, copy, put, old, fetch, conv, saved, swept>>
  BY DEF DeclineDraft, calls
<1> QED BY <1>1, <1>2, AskedOrShown

LEMMA DeclineCopyKeeps == ASSUME IInv, DeclineCopy PROVE IInv'
<1>1. /\ scr.at = "askCopy" /\ scr' = [scr EXCEPT !.at = "askDrop"]
      /\ UNCHANGED <<db, draft, copy, got, put, old, fetch, conv, saved, swept>>
  BY DEF DeclineCopy, Rest, Ghosts, calls
<1>2. scr.at \in Asking /\ "askDrop" \in Asking /\ scr.at \notin Working
  BY <1>1 DEF Asking, OpenBoxes, Working, SaveBoxes
<1>3. PICK row \in got : TRUE
  BY <1>2 DEF IInv, Typed, Placed
<1>4. /\ scr' \in Screens /\ scr'.at = "askDrop" /\ scr'.text = {} /\ ~scr'.dirty /\ ~scr'.timer
      /\ ~scr'.kept
  BY <1>1, <1>2 DEF IInv, Typed, TypedBrowser, Screens
<1>5. draft.base < row.v
  BY <1>1, OpeningIs DEF GotFits
<1> QED BY <1>1, <1>2, <1>4, <1>5, Asks

LEMMA DropOrKeepKeeps == ASSUME IInv, NEW drop \in BOOLEAN, DropOrKeepCopy(drop) PROVE IInv'
<1>1. PICK row \in got : scr' = Shown(row)
  BY DEF DropOrKeepCopy
<1>2. /\ scr.at = "askDrop" /\ got' = {} /\ copy' \subseteq copy
      /\ UNCHANGED <<db, draft, put, old, fetch, conv, saved, swept>>
  BY DEF DropOrKeepCopy, calls
<1>3. draft.base < row.v
  BY <1>2, OpeningIs DEF GotFits
<1> QED BY <1>1, <1>2, <1>3, OpenedClean

LEMMA RestoreKeeps == ASSUME IInv, RestoreDraft PROVE IInv'
<1>1. PICK row \in got :
         scr' = [Shown(row) EXCEPT !.base = draft.own, !.text = draft.text,
                                   !.over = draft.over, !.dirty = TRUE]
  BY DEF RestoreDraft
<1>2. /\ scr.at = "askDraft" /\ got' = {}
      /\ UNCHANGED <<db, draft, copy, put, old, fetch, conv, saved, swept>>
  BY DEF RestoreDraft, Rest, Ghosts, calls
<1>3. /\ put = {} /\ fetch = {} /\ conv = {} /\ row \in Quotes /\ GotFits(row)
      /\ row.v \in Nat /\ row.v > 0 /\ row.v <= db.v /\ db.v \in Nat
      /\ row.print \in Nat /\ row.print <= row.v
      /\ draft \in Drafts /\ draft.base \in Nat
  BY OpeningIs
<1>4. /\ draft.base = row.v /\ draft.own \in 0..MaxVersion /\ draft.own <= row.v
      /\ draft.own = row.v => row.text \subseteq draft.text \cup draft.over
      /\ Main(row.text) \subseteq draft.text \cup draft.over
  BY <1>2, <1>3 DEF IInv, DraftFits, GotFits, Drafts
<1> PICK s : s = Shown(row)
  OBVIOUS
<1>5. /\ s \in Screens /\ s.at = "edit" /\ s.base = row.v /\ s.nb = row.v /\ s.print = row.print
      /\ ~s.dirty /\ ~s.timer /\ ~s.mute /\ ~s.kept /\ ~s.bare
  BY <1>3, ShownIs
<1>6. /\ scr' \in Screens /\ scr'.at = "edit" /\ scr'.base = draft.own /\ scr'.nb = row.v
      /\ scr'.text = draft.text /\ scr'.print = row.print /\ scr'.over = draft.over
      /\ scr'.dirty /\ ~scr'.timer /\ ~scr'.kept
  <2>1. scr' = [s EXCEPT !.base = draft.own, !.text = draft.text, !.over = draft.over,
                         !.dirty = TRUE]
    BY <1>1
  <2>2. draft.text \in Texts /\ draft.over \in Texts
    BY <1>3 DEF Drafts
  <2> QED BY <1>4, <1>5, <2>1, <2>2 DEF Screens
<1>7. Typed'
  <2>1. TypedBrowser'
    BY <1>2, <1>6 DEF IInv, Typed, TypedBrowser, Lone, Working
  <2>2. TypedCalls' /\ Placed'
    BY <1>2, <1>3, <1>6 DEF IInv, Typed, TypedCalls, Placed, Lone, Asking, OpenBoxes
  <2> QED BY <1>2, <2>1, <2>2 DEF IInv, Typed
<1>8. Past(db)' /\ Past(row)
  BY <1>2, <1>3, PastStays DEF IInv, GotFits
<1>9. DraftFits' /\ CopyFits'
  BY <1>2, <1>6 DEF IInv, DraftFits, CopyFits
<1>10. ScreenFits'
  <2>1. row.print <= db.v
    BY <1>3
  <2>2. /\ draft.own = db.v => db.text \subseteq draft.text \cup draft.over
        /\ row.v = db.v \/ row.print = db.print
           => Main(db.text) \subseteq draft.text \cup draft.over
    BY <1>3, <1>4, <1>8 DEF Past
  <2> QED BY <1>2, <1>3, <1>4, <1>6, <2>1, <2>2 DEF ScreenFits, Backed, Found
<1>11. \A p \in old : OldFits(p)'
  BY <1>2 DEF IInv, OldFits, Informed
<1> QED BY <1>2, <1>3, <1>7, <1>8, <1>9, <1>10, <1>11 DEF IInv

LEMMA OpenCopyKeeps == ASSUME IInv, OpenCopy PROVE IInv'
<1>1. PICK row \in got, c \in copy :
         scr' = [Shown(row) EXCEPT !.text = c, !.over = row.text \ c, !.dirty = TRUE, !.bare = TRUE]
  BY DEF OpenCopy
<1>2. /\ scr.at = "askCopy" /\ got' = {} /\ copy' = {}
      /\ UNCHANGED <<db, draft, put, old, fetch, conv, saved, swept>>
  BY DEF OpenCopy, Rest, Ghosts, calls
<1>3. /\ put = {} /\ fetch = {} /\ conv = {} /\ row \in Quotes /\ GotFits(row) /\ row \in Rows
      /\ row.v \in Nat /\ row.v > 0 /\ row.v <= db.v /\ db.v \in Nat
      /\ row.print \in Nat /\ row.print <= row.v /\ draft.base \in Nat
  BY OpeningIs
<1>4. draft.base < row.v
  BY <1>2, <1>3 DEF GotFits
<1> PICK s : s = Shown(row)
  OBVIOUS
<1>5. /\ s \in Screens /\ s.at = "edit" /\ s.base = row.v /\ s.nb = row.v /\ s.print = row.print
      /\ ~s.timer /\ ~s.mute /\ ~s.kept
  BY <1>3, ShownIs
<1>6. /\ scr' \in Screens /\ scr'.at = "edit" /\ scr'.base = row.v /\ scr'.nb = row.v
      /\ scr'.text = c /\ scr'.print = row.print /\ scr'.over = row.text \ c
      /\ scr'.dirty /\ ~scr'.timer /\ ~scr'.kept /\ scr'.bare
  <2> PICK over : over = row.text \ c
    OBVIOUS
  <2>1. scr' = [s EXCEPT !.text = c, !.over = over, !.dirty = TRUE, !.bare = TRUE]
    BY <1>1
  <2>2. c \in Texts /\ over \in Texts
    BY <1>3 DEF IInv, Typed, TypedBrowser, Rows, Texts
  <2> QED BY <1>5, <2>1, <2>2 DEF Screens
<1>7. Typed'
  <2>1. TypedBrowser'
    BY <1>2, <1>6 DEF IInv, Typed, TypedBrowser, Lone, Working
  <2>2. TypedCalls' /\ Placed'
    BY <1>2, <1>3, <1>6 DEF IInv, Typed, TypedCalls, Placed, Lone, Asking, OpenBoxes
  <2> QED BY <1>2, <2>1, <2>2 DEF IInv, Typed
<1>8. Past(db)' /\ Past(row)
  BY <1>2, <1>3, PastStays DEF IInv, GotFits
<1>9. DraftFits' /\ CopyFits'
  BY <1>2, <1>6 DEF IInv, DraftFits, CopyFits
<1>10. ScreenFits'
  <2>1. row.print <= db.v
    BY <1>3
  <2>2. /\ row.v = db.v => db.text \subseteq c \cup (row.text \ c)
        /\ row.v = db.v \/ row.print = db.print
           => Main(db.text) \subseteq c \cup (row.text \ c)
    BY <1>8 DEF Past, Main
  <2> QED BY <1>2, <1>3, <1>4, <1>6, <2>1, <2>2 DEF ScreenFits, Backed
<1>11. \A p \in old : OldFits(p)'
  BY <1>2 DEF IInv, OldFits, Informed
<1> QED BY <1>2, <1>3, <1>7, <1>8, <1>9, <1>10, <1>11 DEF IInv

-----------------------------------------------------------------------------
(***************************************************************************)
(* Typing and the draft.                                                   *)
(***************************************************************************)

\* What a working screen has around it.
LEMMA WorkingIs ==
  ASSUME IInv, scr.at \in Working
  PROVE  /\ got = {} /\ scr.at \notin Asking /\ scr \in Screens /\ draft \in Drafts
         /\ db \in Rows /\ db.v \in Nat /\ db.v > 0 /\ db.print \in Nat /\ db.print <= db.v
         /\ scr.base \in Nat /\ scr.nb \in Nat /\ scr.print \in Nat
         /\ scr.base <= scr.nb /\ scr.nb <= db.v /\ scr.print <= db.v
         /\ draft.base \in Nat /\ draft.base <= db.v
<1>1. got = {} /\ scr.at \notin Asking
  BY DEF IInv, Typed, Placed, Asking, OpenBoxes, Working, SaveBoxes
<1>2. scr \in Screens /\ draft \in Drafts /\ db \in Rows
  BY DEF IInv, Typed, TypedBrowser
<1>3. /\ db.v \in Nat /\ db.v > 0 /\ db.print \in Nat
      /\ scr.base \in Nat /\ scr.nb \in Nat /\ scr.print \in Nat /\ draft.base \in Nat
  BY <1>2 DEF Rows, Screens, Drafts
<1> QED BY <1>1, <1>2, <1>3 DEF IInv, ScreenFits, Past, DraftFits

LEMMA TypeKeeps == ASSUME IInv, NEW e \in Mine, Type(e) PROVE IInv'
<1>1. /\ scr.at = "edit" /\ put = {}
      /\ scr' = [scr EXCEPT !.text = @ \cup {e}, !.dirty = TRUE, !.bare = FALSE,
                            !.timer = ~scr.mute]
      /\ UNCHANGED <<db, draft, copy, got, put, old, fetch, conv, saved, swept>>
  BY DEF Type, calls
<1>2. scr.at \in Working
  BY <1>1 DEF Working
<1>3. /\ got = {} /\ scr \in Screens /\ draft \in Drafts
      /\ scr.base \in Nat /\ scr.nb \in Nat /\ scr.print \in Nat
  BY <1>2, WorkingIs
<1>4. /\ scr' \in Screens /\ scr'.at = "edit" /\ scr'.base = scr.base /\ scr'.nb = scr.nb
      /\ scr'.text = scr.text \cup {e} /\ scr'.print = scr.print /\ scr'.over = scr.over
      /\ scr'.dirty /\ scr'.mute = scr.mute /\ scr'.timer = ~scr.mute /\ scr'.kept = scr.kept
  <2> PICK text : text = scr.text \cup {e}
    OBVIOUS
  <2>1. text \in Texts
    BY <1>3 DEF Screens, Texts
  <2>2. scr' = [scr EXCEPT !.text = text, !.dirty = TRUE, !.bare = FALSE, !.timer = ~scr.mute]
    BY <1>1
  <2> QED BY <1>1, <1>3, <2>1, <2>2 DEF Screens
<1>5. Typed'
  <2>1. TypedBrowser'
    BY <1>1, <1>2, <1>4 DEF IInv, Typed, TypedBrowser
  <2>2. TypedCalls' /\ Placed'
    BY <1>1, <1>4 DEF IInv, Typed, TypedCalls, Placed
  <2> QED BY <1>1, <2>1, <2>2 DEF IInv, Typed
<1>6. Past(db)' /\ DraftFits'
  BY <1>1, PastStays DEF IInv, DraftFits
<1>7. ScreenFits'
  BY <1>1, <1>2, <1>4 DEF IInv, ScreenFits, Backed, Found
<1>8. CopyFits'
  BY <1>1, <1>4 DEF IInv, CopyFits
<1>9. \A p \in old : OldFits(p)'
  BY <1>1 DEF IInv, OldFits, Informed
<1>10. \A f \in fetch : FetchFits(f)'
  BY <1>1, <1>4, PastStays DEF IInv, FetchFits
<1>11. \A c \in conv : ConvFits(c)'
  BY <1>1, PastStays DEF IInv, ConvFits
<1> QED BY <1>1, <1>3, <1>5, <1>6, <1>7, <1>8, <1>9, <1>10, <1>11 DEF IInv

LEMMA WrittenIs ==
  ASSUME scr \in Screens, NEW w, w = Written
  PROVE  /\ w \in Drafts /\ w.base = scr.nb /\ w.own = scr.base /\ w.text = scr.text /\ w.over = scr.over
         /\ w.newer <=> old # {}
BY DEF Written, Screens, Drafts

\* The draft is written, or the user has been told or `bare` says why not.
LEMMA DraftedKeeps ==
  ASSUME IInv, scr.at \in Working, scr.dirty, scr' \in Screens,
         scr'.at = scr.at, scr'.base = scr.base, scr'.nb = scr.nb, scr'.text = scr.text,
         scr'.print = scr.print, scr'.over = scr.over, scr'.dirty, ~scr'.timer,
         scr'.kept = scr.kept,
         \/ draft' = Written
         \/ draft' = draft /\ (scr'.mute \/ scr'.bare),
         UNCHANGED <<db, copy, got, put, old, fetch, conv, saved, swept>>
  PROVE  IInv'
<1>1. /\ got = {} /\ scr \in Screens /\ draft \in Drafts /\ db.v \in Nat
      /\ scr.base \in Nat /\ scr.nb \in Nat /\ scr.print \in Nat
      /\ scr.base <= scr.nb /\ scr.nb <= db.v /\ scr.print <= db.v
  BY WorkingIs
<1>2. \/ /\ draft' \in Drafts /\ draft'.base = scr.nb /\ draft'.own = scr.base
         /\ draft'.text = scr.text /\ draft'.over = scr.over /\ (draft'.newer <=> old # {})
      \/ draft' = draft /\ (scr'.mute \/ scr'.bare)
  BY <1>1, WrittenIs
<1>3. Typed'
  <2>1. TypedBrowser'
    BY <1>2 DEF IInv, Typed, TypedBrowser
  <2>2. TypedCalls' /\ Placed'
    BY DEF IInv, Typed, TypedCalls, Placed
  <2> QED BY <2>1, <2>2 DEF IInv, Typed
<1>4. Past(db)'
  BY PastStays DEF IInv
<1>5. DraftFits'
  <2>1. /\ scr.base = db.v => db.text \subseteq scr.text \cup scr.over
        /\ scr.nb = db.v => Main(db.text) \subseteq scr.text \cup scr.over
    BY DEF IInv, ScreenFits
  <2> QED BY <1>1, <1>2, <2>1 DEF IInv, DraftFits
<1>6. Backed'
  BY <1>1, <1>2 DEF Backed
<1>7. ScreenFits'
  <2>1. draft'.base = db.v => draft'.text \cap Mine \subseteq Found'
    BY <1>2 DEF IInv, ScreenFits, Found
  <2> QED BY <1>6, <2>1 DEF IInv, ScreenFits
<1>8. CopyFits'
  BY DEF IInv, CopyFits, Found
<1>9. \A p \in put : PutFits(p)'
  BY <1>6, PastStays DEF IInv, PutFits, Informed
<1>10. \A p \in old : OldFits(p)'
  BY <1>2 DEF IInv, OldFits, Informed
<1>11. \A f \in fetch : FetchFits(f)'
  BY PastStays DEF IInv, FetchFits
<1>12. \A c \in conv : ConvFits(c)'
  BY PastStays DEF IInv, ConvFits
<1> QED BY <1>1, <1>3, <1>4, <1>5, <1>7, <1>8, <1>9, <1>10, <1>11, <1>12 DEF IInv

LEMMA TimerKeeps == ASSUME IInv, NEW ok \in BOOLEAN, TimerFires(ok) PROVE IInv'
<1>1. /\ scr.at \in Working /\ scr.timer
      /\ draft' = IF ok THEN Written ELSE draft
      /\ scr' = [scr EXCEPT !.timer = FALSE, !.mute = ~ok]
      /\ UNCHANGED <<db, copy, got, put, old, fetch, conv, saved, swept>>
  BY DEF TimerFires, Ghosts, calls
<1>2. scr.dirty /\ scr \in Screens
  BY <1>1 DEF IInv, Typed, TypedBrowser
<1>3. /\ scr' \in Screens /\ scr'.at = scr.at /\ scr'.base = scr.base /\ scr'.nb = scr.nb
      /\ scr'.text = scr.text /\ scr'.print = scr.print /\ scr'.over = scr.over
      /\ scr'.dirty = scr.dirty /\ ~scr'.timer /\ scr'.kept = scr.kept /\ scr'.mute = ~ok
  BY <1>1, <1>2 DEF Screens
<1> QED BY <1>1, <1>2, <1>3, DraftedKeeps

LEMMA HideKeeps == ASSUME IInv, NEW ok \in BOOLEAN, Hide(ok) PROVE IInv'
<1>1. /\ scr.at \in Working /\ scr.dirty
      /\ draft' = IF ok THEN Written ELSE draft
      /\ scr' = [scr EXCEPT !.timer = FALSE, !.bare = ~ok]
      /\ UNCHANGED <<db, copy, got, put, old, fetch, conv, saved, swept>>
  BY DEF Hide, Ghosts, calls
<1>2. scr \in Screens
  BY <1>1 DEF IInv, Typed, TypedBrowser
<1>3. /\ scr' \in Screens /\ scr'.at = scr.at /\ scr'.base = scr.base /\ scr'.nb = scr.nb
      /\ scr'.text = scr.text /\ scr'.print = scr.print /\ scr'.over = scr.over
      /\ scr'.dirty = scr.dirty /\ ~scr'.timer /\ scr'.kept = scr.kept /\ scr'.bare = ~ok
  BY <1>1, <1>2 DEF Screens
<1> QED BY <1>1, <1>2, <1>3, DraftedKeeps

-----------------------------------------------------------------------------
(***************************************************************************)
(* The answers to a save.                                                  *)
(***************************************************************************)

\* A reload goes on with the quote it began with.
LEMMA DetachedIs ==
  ASSUME IInv, scr \in Screens
  PROVE  /\ Detached \subseteq Fetching /\ Lone(Detached)
         /\ fetch = {} => Detached = {}
         /\ \A f \in Detached : \E g \in fetch : f.read = g.read /\ f.row = g.row
<1>1. fetch \subseteq Fetching /\ Lone(fetch) /\ HnOf(scr.text) \in Texts
  BY DEF IInv, Typed, TypedCalls, Screens, HnOf, Texts
<1> DEFINE d(f) == IF f.same THEN [f EXCEPT !.same = FALSE, !.hn = HnOf(scr.text)] ELSE f
<1>2. ASSUME NEW f \in fetch
      PROVE  d(f) \in Fetching /\ d(f).read = f.read /\ d(f).row = f.row
  BY <1>1 DEF Fetching
<1>3. Detached = {d(f) : f \in fetch}
  BY DEF Detached
<1> HIDE DEF d
<1> QED BY <1>1, <1>2, <1>3 DEF Lone

LEMMA SavedReplied == ASSUME IInv, ReplySaved PROVE IInv'
<1>1. PICK p \in put :
         /\ p.st = "done"
         /\ scr' = [Shown([v |-> p.base, text |-> p.text, print |-> p.base])
                      EXCEPT !.mute = scr.mute]
  BY DEF ReplySaved
<1>2. /\ scr.at = "edit" /\ put' = {} /\ draft' = NoDraft /\ fetch' = Detached
      /\ UNCHANGED <<db, copy, got, old, conv, saved, swept>>
  BY DEF ReplySaved, Rest, Ghosts
<1>3. scr.at \in Working /\ p \in Saving /\ PutFits(p) /\ AsRow(p) \in Quotes /\ Past(AsRow(p))
  BY <1>1, <1>2, RowsAre DEF Working, IInv, Typed, TypedCalls, PutFits
<1>4. got = {} /\ scr \in Screens /\ db.v \in Nat /\ db.v > 0 /\ p.base \in Nat /\ db.print \in Nat
  BY <1>3, WorkingIs DEF Saving
<1> PICK s : s = Shown(AsRow(p))
  OBVIOUS
<1>5. /\ s \in Screens /\ s.at = "edit" /\ s.base = p.base /\ s.nb = p.base
      /\ s.text = p.text /\ s.print = p.base /\ s.over = {}
      /\ ~s.dirty /\ ~s.timer /\ ~s.kept /\ ~s.bare
  BY <1>3, ShownIs DEF AsRow
<1>6. /\ scr' \in Screens /\ scr'.at = "edit" /\ scr'.base = p.base /\ scr'.nb = p.base
      /\ scr'.text = p.text /\ scr'.print = p.base /\ scr'.over = {}
      /\ ~scr'.dirty /\ ~scr'.timer /\ ~scr'.kept
  <2>1. scr' = [s EXCEPT !.mute = scr.mute]
    BY <1>1 DEF AsRow
  <2>2. scr.mute \in BOOLEAN
    BY <1>4 DEF Screens
  <2> QED BY <1>5, <2>1, <2>2 DEF Screens
<1>7. /\ p.base <= db.v
      /\ p.base = db.v => db.text = p.text
      /\ p.base = db.v \/ p.base = db.print => Main(db.text) \subseteq p.text
      /\ p.text \cap Mine \subseteq saved
  BY <1>3 DEF Past, AsRow, Main
<1>8. NoDraft \in Drafts /\ NoDraft.base = 0 /\ NoDraft.own = 0
  BY ClosedIs
<1>9. Typed'
  <2>1. TypedBrowser'
    BY <1>2, <1>6, <1>8 DEF IInv, Typed, TypedBrowser, Working
  <2>2. TypedCalls' /\ Placed'
    BY <1>2, <1>4, <1>6, DetachedIs DEF IInv, Typed, TypedCalls, Placed, Lone, Working, Asking, OpenBoxes
  <2> QED BY <1>2, <2>1, <2>2 DEF IInv, Typed
<1>10. Past(db)' /\ DraftFits' /\ CopyFits'
  BY <1>2, <1>4, <1>6, <1>8, PastStays DEF IInv, DraftFits, CopyFits
<1>11. ScreenFits'
  BY <1>2, <1>4, <1>6, <1>7, <1>8 DEF ScreenFits, Backed
<1>12. \A q \in old : OldFits(q)'
  BY <1>2, <1>4, <1>8 DEF IInv, OldFits, Informed
<1>13. \A f \in fetch' : FetchFits(f)'
  <2>1. \A f \in Detached : f.read => Past(f.row)
    BY <1>4, DetachedIs DEF IInv, FetchFits
  <2> QED BY <1>2, <1>6, <2>1, PastStays DEF FetchFits
<1>14. \A c \in conv : ConvFits(c)'
  BY <1>2, PastStays DEF IInv, ConvFits
<1> QED BY <1>2, <1>4, <1>9, <1>10, <1>11, <1>12, <1>13, <1>14 DEF IInv

\* A box opens or closes over the screen, and the copy is made or goes.
LEMMA BoxedKeeps ==
  ASSUME IInv, scr.at \in Working, scr' \in Screens, scr'.at \in Working,
         scr'.base = scr.base, scr'.nb = scr.nb, scr'.text = scr.text,
         scr'.print = scr.print, scr'.over = scr.over, scr'.dirty = scr.dirty,
         scr'.mute = scr.mute, scr'.bare = scr.bare,
         \/ scr'.timer = scr.timer
         \/ ~scr'.timer /\ Backed,
         copy' \subseteq Texts, Lone(copy'),
         scr'.kept => /\ scr'.at = "askReload"
                      /\ scr.text \cap Mine \subseteq (UNION copy') \cup saved
                      /\ (UNION copy') \cap Mine \subseteq Found,
         put' = {}, UNCHANGED <<db, draft, got, old, fetch, conv, saved, swept>>
  PROVE  IInv'
<1>1. got = {} /\ scr'.at \notin Asking
  BY WorkingIs DEF Asking, OpenBoxes, Working, SaveBoxes
<1>2. Typed'
  <2>1. TypedBrowser'
    BY DEF IInv, Typed, TypedBrowser
  <2>2. TypedCalls' /\ Placed'
    BY <1>1 DEF IInv, Typed, TypedCalls, Placed, Lone
  <2> QED BY <2>1, <2>2 DEF IInv, Typed
<1>3. Past(db)' /\ DraftFits'
  BY PastStays DEF IInv, DraftFits
<1>4. ScreenFits'
  BY DEF IInv, ScreenFits, Backed, Found
<1>5. CopyFits'
  BY DEF CopyFits, Found
<1>6. \A p \in old : OldFits(p)'
  BY DEF IInv, OldFits, Informed
<1>7. \A f \in fetch : FetchFits(f)'
  BY PastStays DEF IInv, FetchFits
<1>8. \A c \in conv : ConvFits(c)'
  BY PastStays DEF IInv, ConvFits
<1> QED BY <1>1, <1>2, <1>3, <1>4, <1>5, <1>6, <1>7, <1>8 DEF IInv

\* The copy of the screen holds the screen and nothing else.
LEMMA CopyMade ==
  ASSUME IInv, scr \in Screens, copy' = {scr.text}
  PROVE  /\ copy' \subseteq Texts /\ Lone(copy')
         /\ scr.text \cap Mine \subseteq (UNION copy') \cup saved
         /\ (UNION copy') \cap Mine \subseteq Found
BY DEF Screens, Lone, Found

LEMMA ConflictKeeps == ASSUME IInv, NEW ok \in BOOLEAN, ReplyConflict(ok) PROVE IInv'
<1>1. PICK p \in put : p.st = "refused"
  BY DEF ReplyConflict
<1>2. /\ scr.at = "edit" /\ put' = {}
      /\ scr' = [scr EXCEPT !.timer = FALSE, !.kept = ok /\ copy = {},
                            !.at = IF copy = {} THEN "askReload" ELSE "askReplace"]
      /\ copy' = IF ok /\ copy = {} THEN {scr.text} ELSE copy
      /\ UNCHANGED <<db, draft, got, old, fetch, conv, saved, swept>>
  BY DEF ReplyConflict, Ghosts
<1>3. scr.at \in Working /\ scr \in Screens /\ Backed /\ copy \subseteq Texts /\ Lone(copy)
  BY <1>1, <1>2 DEF Working, IInv, Typed, TypedBrowser, PutFits
<1> PICK kept \in BOOLEAN, at \in {"askReload", "askReplace"} : kept = (ok /\ copy = {})
                                /\ at = IF copy = {} THEN "askReload" ELSE "askReplace"
  OBVIOUS
<1>4. at \in Working /\ (kept => at = "askReload")
  BY DEF Working, SaveBoxes
<1>5. scr' = [scr EXCEPT !.timer = FALSE, !.kept = kept, !.at = at]
  BY <1>2
<1>6. /\ scr' \in Screens /\ scr'.at = at /\ scr'.base = scr.base /\ scr'.nb = scr.nb
      /\ scr'.text = scr.text /\ scr'.print = scr.print /\ scr'.over = scr.over
      /\ scr'.dirty = scr.dirty /\ ~scr'.timer /\ scr'.mute = scr.mute
      /\ scr'.bare = scr.bare /\ scr'.kept = kept
  BY <1>3, <1>4, <1>5 DEF Screens
<1>7. /\ copy' \subseteq Texts /\ Lone(copy')
      /\ kept => /\ scr.text \cap Mine \subseteq (UNION copy') \cup saved
                 /\ (UNION copy') \cap Mine \subseteq Found
  <2>1. CASE kept
    <3>1. copy' = {scr.text}
      BY <1>2, <2>1
    <3> QED BY <1>3, <3>1, CopyMade
  <2>2. CASE ~kept
    <3>1. copy' = copy
      BY <1>2, <2>2
    <3> QED BY <1>3, <2>2, <3>1
  <2> QED BY <2>1, <2>2
<1> QED BY <1>2, <1>3, <1>4, <1>6, <1>7, BoxedKeeps

LEMMA ReplaceKeeps == ASSUME IInv, NEW yes \in BOOLEAN, NEW ok \in BOOLEAN, ReplaceCopy(yes, ok)
                      PROVE IInv'
<1>1. /\ scr.at = "askReplace"
      /\ scr' = [scr EXCEPT !.at = "askReload", !.kept = yes /\ ok]
      /\ copy' = IF yes /\ ok THEN {scr.text} ELSE copy
      /\ UNCHANGED <<db, draft, got, put, old, fetch, conv, saved, swept>>
  BY DEF ReplaceCopy, calls
<1>2. /\ scr.at \in Working /\ "askReload" \in Working
      /\ scr \in Screens /\ copy \subseteq Texts /\ Lone(copy)
  BY <1>1 DEF Working, SaveBoxes, IInv, Typed, TypedBrowser
<1>3. put' = {}
  BY <1>1 DEF IInv, Typed, Placed
<1> PICK kept \in BOOLEAN : kept = (yes /\ ok)
  OBVIOUS
<1>4. scr' = [scr EXCEPT !.at = "askReload", !.kept = kept]
  BY <1>1
<1>5. /\ scr' \in Screens /\ scr'.at = "askReload" /\ scr'.base = scr.base /\ scr'.nb = scr.nb
      /\ scr'.text = scr.text /\ scr'.print = scr.print /\ scr'.over = scr.over
      /\ scr'.dirty = scr.dirty /\ scr'.timer = scr.timer /\ scr'.mute = scr.mute
      /\ scr'.bare = scr.bare /\ scr'.kept = kept
  BY <1>2, <1>4 DEF Screens
<1>6. /\ copy' \subseteq Texts /\ Lone(copy')
      /\ kept => /\ scr.text \cap Mine \subseteq (UNION copy') \cup saved
                 /\ (UNION copy') \cap Mine \subseteq Found
  <2>1. CASE kept
    <3>1. copy' = {scr.text}
      BY <1>1, <2>1
    <3> QED BY <1>2, <3>1, CopyMade
  <2>2. CASE ~kept
    <3>1. copy' = copy
      BY <1>1, <2>2
    <3> QED BY <1>2, <2>2, <3>1
  <2> QED BY <2>1, <2>2
<1> QED BY <1>1, <1>2, <1>3, <1>5, <1>6, BoxedKeeps

LEMMA StayKeeps == ASSUME IInv, StayHere PROVE IInv'
<1>1. /\ scr.at = "askReload"
      /\ scr' = [scr EXCEPT !.at = "edit", !.kept = FALSE]
      /\ copy' = IF scr.kept THEN {} ELSE copy
      /\ UNCHANGED <<db, draft, got, put, old, fetch, conv, saved, swept>>
  BY DEF StayHere, Rest, Ghosts, calls
<1>2. /\ scr.at \in Working /\ "edit" \in Working
      /\ scr \in Screens /\ copy \subseteq Texts /\ Lone(copy)
  BY <1>1 DEF Working, SaveBoxes, IInv, Typed, TypedBrowser
<1>3. put' = {} /\ copy' \subseteq Texts /\ Lone(copy')
  BY <1>1, <1>2 DEF IInv, Typed, Placed, Lone
<1>4. /\ scr' \in Screens /\ scr'.at = "edit" /\ scr'.base = scr.base /\ scr'.nb = scr.nb
      /\ scr'.text = scr.text /\ scr'.print = scr.print /\ scr'.over = scr.over
      /\ scr'.dirty = scr.dirty /\ scr'.timer = scr.timer /\ scr'.mute = scr.mute
      /\ scr'.bare = scr.bare /\ ~scr'.kept
  BY <1>1, <1>2 DEF Screens
<1> QED BY <1>1, <1>2, <1>3, <1>4, BoxedKeeps

-----------------------------------------------------------------------------
(***************************************************************************)
(* Leaving, closing, crashing.                                             *)
(***************************************************************************)

\* The editor is gone: only the draft, the copy and its save are left.
LEMMA GoneKeeps ==
  ASSUME IInv, scr' = Closed, got' = {}, put' = {}, fetch' = {}, conv' = {},
         draft' \in Drafts, DraftFits', copy' = copy,
         old' \subseteq Saving, Lone(old'), \A p \in old' : OldFits(p)',
         UNCHANGED <<db, saved>>
  PROVE  IInv'
<1>1. /\ scr' \in Screens /\ scr'.at = "closed" /\ scr'.text = {}
      /\ ~scr'.dirty /\ ~scr'.timer /\ ~scr'.kept
      /\ scr'.at \notin Working /\ scr'.at \notin Asking
  BY ClosedIs DEF Working, SaveBoxes, Asking, OpenBoxes
<1>2. Typed'
  <2>1. TypedBrowser'
    BY <1>1 DEF IInv, Typed, TypedBrowser, Lone
  <2>2. TypedCalls' /\ Placed'
    BY <1>1 DEF IInv, Typed, TypedCalls, Placed, Lone
  <2> QED BY <2>1, <2>2 DEF IInv, Typed
<1>3. Past(db)'
  BY PastStays DEF IInv
<1>4. ScreenFits' /\ CopyFits'
  BY <1>1 DEF ScreenFits, CopyFits
<1> QED BY <1>2, <1>3, <1>4 DEF IInv

\* The save of an editor that is gone, with one that its answer cannot reach.
LEMMA DeafIs ==
  ASSUME NEW S \in SUBSET Saving, Lone(S)
  PROVE  /\ Deaf(S) \subseteq Saving /\ Lone(Deaf(S))
         /\ \A q \in Deaf(S) :
              q.deaf /\ \E p \in S : q.st = p.st /\ q.base = p.base /\ q.text = p.text /\ q.over = p.over
<1> DEFINE d(p) == [p EXCEPT !.deaf = TRUE]
<1>1. ASSUME NEW p \in S
      PROVE  /\ d(p) \in Saving /\ d(p).deaf /\ d(p).st = p.st /\ d(p).base = p.base
             /\ d(p).text = p.text /\ d(p).over = p.over
  BY DEF Saving
<1>2. Deaf(S) = {d(p) : p \in S}
  BY DEF Deaf
<1> HIDE DEF d
<1> QED BY <1>1, <1>2 DEF Lone

\* No editor is left and every save under way is deaf.
LEMMA DeafKeeps ==
  ASSUME IInv, put = {} \/ old = {}, scr' = Closed, got' = {}, put' = {}, fetch' = {}, conv' = {},
         draft' \in Drafts, DraftFits', copy' = copy, old' = Deaf(old \cup put),
         UNCHANGED <<db, saved>>
  PROVE  IInv'
<1>1. old \cup put \in SUBSET Saving /\ Lone(old \cup put)
  BY DEF IInv, Typed, TypedCalls
<1>2. \A p \in old \cup put : p.base <= db.v /\ Informed(p)
  BY DEF IInv, PutFits, OldFits
<1> DEFINE S == old \cup put
<1> HIDE DEF S
<1>3. /\ Deaf(S) \subseteq Saving /\ Lone(Deaf(S))
      /\ \A q \in Deaf(S) :
           q.deaf /\ \E p \in S : q.st = p.st /\ q.base = p.base /\ q.text = p.text /\ q.over = p.over
  BY <1>1, DeafIs DEF S
<1>4. ASSUME NEW q \in old' PROVE OldFits(q)'
  <2>1. PICK p \in old \cup put : q.st = p.st /\ q.base = p.base /\ q.text = p.text /\ q.over = p.over
    BY <1>3 DEF S
  <2>2. q.deaf
    BY <1>3 DEF S
  <2> QED BY <1>2, <2>1, <2>2 DEF OldFits, Informed
<1>5. old' \subseteq Saving /\ Lone(old')
  BY <1>3 DEF S
<1> QED BY <1>4, <1>5, GoneKeeps

LEMMA ReloadPageKeeps == ASSUME IInv, ReloadPage PROVE IInv'
<1>1. /\ scr.at = "askReload" /\ scr' = Closed
      /\ old' = Deaf(old) /\ fetch' = {} /\ conv' = {}
      /\ UNCHANGED <<db, draft, copy, got, put, saved>>
  BY DEF ReloadPage
<1>2. scr.at \in Working
  BY <1>1 DEF Working, SaveBoxes
<1>3. put = {} /\ got = {} /\ draft \in Drafts
  BY <1>1, <1>2, WorkingIs DEF IInv, Typed, Placed
<1>4. DraftFits' /\ old' = Deaf(old \cup put)
  BY <1>1, <1>3 DEF IInv, DraftFits
<1> QED BY <1>1, <1>3, <1>4, DeafKeeps

LEMMA CrashKeeps == ASSUME IInv, Crash PROVE IInv'
<1>1. /\ put = {} \/ old = {}
      /\ scr' = Closed /\ got' = {} /\ put' = {} /\ old' = Deaf(old \cup put)
      /\ fetch' = {} /\ conv' = {}
      /\ UNCHANGED <<db, draft, copy, saved>>
  BY DEF Crash, Ghosts
<1>2. draft' \in Drafts /\ DraftFits'
  BY <1>1 DEF IInv, DraftFits, Typed, TypedBrowser
<1> QED BY <1>1, <1>2, DeafKeeps

LEMMA CloseTabKeeps == ASSUME IInv, NEW ok \in BOOLEAN, CloseTab(ok) PROVE IInv'
<1>1. /\ scr.at \in Working /\ (put = {} \/ old = {})
      /\ draft' = IF scr.dirty /\ ~scr.mute /\ ok THEN Written ELSE draft
      /\ scr' = Closed /\ put' = {} /\ old' = Deaf(old \cup put) /\ fetch' = {} /\ conv' = {}
      /\ UNCHANGED <<db, copy, got, saved>>
  BY DEF CloseTab
<1>2. /\ got = {} /\ scr \in Screens /\ draft \in Drafts /\ db.v \in Nat
      /\ scr.base \in Nat /\ scr.nb \in Nat /\ scr.base <= scr.nb /\ scr.nb <= db.v
  BY <1>1, WorkingIs
<1>3. \/ draft' = draft
      \/ /\ draft' \in Drafts /\ draft'.base = scr.nb /\ draft'.own = scr.base
         /\ draft'.text = scr.text /\ draft'.over = scr.over
  BY <1>1, <1>2, WrittenIs
<1>4. /\ scr.base = db.v => db.text \subseteq scr.text \cup scr.over
      /\ scr.nb = db.v => Main(db.text) \subseteq scr.text \cup scr.over
  BY <1>1 DEF IInv, ScreenFits
<1>5. draft' \in Drafts /\ DraftFits'
  BY <1>1, <1>2, <1>3, <1>4 DEF IInv, DraftFits
<1> QED BY <1>1, <1>2, <1>5, DeafKeeps

LEMMA LeaveKeeps == ASSUME IInv, Leave PROVE IInv'
<1>1. /\ scr.at \in Working /\ (put = {} \/ old = {})
      /\ draft' = IF scr.dirty THEN NoDraft ELSE [draft EXCEPT !.newer = FALSE]
      /\ scr' = Closed /\ old' = old \cup put /\ put' = {} /\ fetch' = {} /\ conv' = {}
      /\ UNCHANGED <<db, copy, got, saved>>
  BY DEF Leave
<1>2. got = {} /\ draft \in Drafts /\ db.v \in Nat /\ db.v > 0
  BY <1>1, WorkingIs
<1>3. /\ draft' \in Drafts
      /\ \/ draft'.base = 0 /\ draft'.own = 0
         \/ ~scr.dirty /\ draft'.base = draft.base /\ draft'.own = draft.own
            /\ draft'.text = draft.text /\ draft'.over = draft.over
  <2>1. CASE scr.dirty
    <3>1. draft' = NoDraft
      BY <1>1, <2>1
    <3> QED BY <3>1, ClosedIs
  <2>2. CASE ~scr.dirty
    BY <1>1, <1>2, <2>2 DEF Drafts
  <2> QED BY <2>1, <2>2
<1>4. draft'.base < db.v
  BY <1>1, <1>2, <1>3 DEF IInv, ScreenFits
<1>5. DraftFits'
  BY <1>1, <1>2, <1>3, <1>4 DEF IInv, DraftFits, Drafts
<1>6. old' \subseteq Saving /\ Lone(old')
  BY <1>1 DEF IInv, Typed, TypedCalls
<1>7. \A p \in old' : OldFits(p)'
  BY <1>1, <1>2, <1>4 DEF IInv, OldFits, PutFits, Informed
<1> QED BY <1>1, <1>2, <1>3, <1>5, <1>6, <1>7, GoneKeeps

LEMMA LeaveOpeningKeeps == ASSUME IInv, LeaveOpening PROVE IInv'
<1>1. /\ scr.at \in Asking /\ scr' = Closed /\ got' = {}
      /\ UNCHANGED <<db, draft, copy, put, old, fetch, conv, saved>>
  BY DEF LeaveOpening, Rest, Ghosts, calls, Asking
<1>2. PICK row \in got : TRUE
  BY <1>1 DEF IInv, Typed, Placed
<1>3. put = {} /\ fetch = {} /\ conv = {} /\ draft \in Drafts
  BY OpeningIs
<1>4. DraftFits' /\ old' \subseteq Saving /\ Lone(old') /\ \A p \in old' : OldFits(p)'
  BY <1>1 DEF IInv, DraftFits, Typed, TypedCalls, OldFits, Informed
<1> QED BY <1>1, <1>3, <1>4, GoneKeeps

LEMMA LateReplyKeeps == ASSUME IInv, LateReply PROVE IInv'
<1>1. PICK p \in old : draft' = IF p.st = "done" /\ ~p.deaf /\ ~draft.newer THEN NoDraft ELSE draft
  BY DEF LateReply
<1>2. old' = {} /\ UNCHANGED <<db, copy, scr, got, put, fetch, conv, saved, swept>>
  BY DEF LateReply, Rest, Ghosts
<1>3. /\ draft \in Drafts /\ draft.base \in Nat /\ db.v \in Nat /\ db.v > 0
      /\ \A row \in got : row.v \in Nat /\ row.v > 0
  BY DEF IInv, Typed, TypedBrowser, Drafts, Rows
<1>4. \/ draft' = draft
      \/ /\ draft' = NoDraft /\ draft.base < db.v
         /\ \A row \in got : draft.base < row.v
  BY <1>1 DEF IInv, OldFits
<1>5. CASE draft' = draft
  <2>1. TypedCalls' /\ Placed' /\ TypedBrowser'
    BY <1>2, <1>5 DEF IInv, Typed, TypedCalls, Placed, TypedBrowser, Lone
  <2>2. DraftFits' /\ ScreenFits' /\ CopyFits'
    BY <1>2, <1>5 DEF IInv, DraftFits, ScreenFits, CopyFits, Backed, Found
  <2>3. Past(db)' /\ \A row \in got : GotFits(row)'
    BY <1>2, <1>5, PastStays DEF IInv, GotFits
  <2>4. \A q \in put : PutFits(q)'
    BY <1>2, <1>5, PastStays DEF IInv, PutFits, Backed, Informed
  <2>5. (\A f \in fetch : FetchFits(f)') /\ \A c \in conv : ConvFits(c)'
    BY <1>2, PastStays DEF IInv, FetchFits, ConvFits
  <2> QED BY <1>2, <2>1, <2>2, <2>3, <2>4, <2>5 DEF IInv, Typed
<1>6. CASE draft' = NoDraft /\ draft.base < db.v /\ \A row \in got : draft.base < row.v
  <2>0. draft' \in Drafts /\ draft'.base = 0 /\ draft'.own = 0
    BY <1>6, ClosedIs
  <2>1. TypedCalls' /\ Placed' /\ TypedBrowser'
    BY <1>2, <2>0 DEF IInv, Typed, TypedCalls, Placed, TypedBrowser, Lone
  <2>2. Backed => Backed'
    BY <1>2, <1>3, <1>6 DEF Backed
  <2>3. DraftFits' /\ CopyFits'
    BY <1>2, <1>3, <2>0 DEF IInv, DraftFits, CopyFits, Found
  <2>4. ScreenFits'
    BY <1>2, <1>3, <2>0, <2>2 DEF IInv, ScreenFits, Found
  <2>5. Past(db)'
    BY <1>2, PastStays DEF IInv
  <2>6. \A row \in got : GotFits(row)'
    BY <1>2, <1>3, <1>6, <2>0, PastStays DEF IInv, GotFits
  <2>7. \A q \in put : PutFits(q)'
    BY <1>2, <2>2, PastStays DEF IInv, PutFits, Informed
  <2>8. (\A f \in fetch : FetchFits(f)') /\ \A c \in conv : ConvFits(c)'
    BY <1>2, PastStays DEF IInv, FetchFits, ConvFits
  <2> QED BY <1>2, <2>1, <2>3, <2>4, <2>5, <2>6, <2>7, <2>8 DEF IInv, Typed
<1> QED BY <1>4, <1>5, <1>6

-----------------------------------------------------------------------------
(***************************************************************************)
(* The answers to a reload and to a close put a quote on the screen.       *)
(***************************************************************************)
LEMMA RetakenKeeps ==
  ASSUME IInv, scr.at \in Working, scr' \in Screens, scr'.at = scr.at,
         scr'.timer => scr'.dirty, ~scr'.dirty \/ scr'.bare,
         scr'.text \cap Mine \subseteq saved \/ scr'.text = scr.text,
         ScreenFits', CopyFits',
         fetch' \subseteq Fetching, Lone(fetch'), \A f \in fetch' : FetchFits(f)',
         conv' = {} \/ conv' = conv,
         UNCHANGED <<db, draft, copy, got, put, old, saved>>
  PROVE  IInv'
<1>1. got = {} /\ scr.at \notin Asking
  BY WorkingIs
<1>2. Typed'
  <2>1. TypedBrowser'
    BY DEF IInv, Typed, TypedBrowser
  <2>2. TypedCalls' /\ Placed'
    BY <1>1 DEF IInv, Typed, TypedCalls, Placed, Lone
  <2> QED BY <2>1, <2>2 DEF IInv, Typed
<1>3. Past(db)' /\ DraftFits'
  BY PastStays DEF IInv, DraftFits
<1>4. Backed'
  BY DEF Backed
<1>5. \A p \in put : PutFits(p)'
  BY <1>4, PastStays DEF IInv, PutFits, Informed
<1>6. \A p \in old : OldFits(p)'
  BY DEF IInv, OldFits, Informed
<1>7. \A c \in conv' : ConvFits(c)'
  BY PastStays DEF IInv, ConvFits
<1> QED BY <1>1, <1>2, <1>3, <1>5, <1>6, <1>7 DEF IInv

\* The text on the screen is the one of the row, if the prints are the same.
LEMMA SameTextIs ==
  ASSUME NEW f, f.same, SameText(f), Past(f.row), f.row.v = db.v,
         scr.print = db.print => Main(db.text) \subseteq scr.text \cup scr.over
  PROVE  db.text \subseteq scr.text \cup scr.over
<1>1. f.row.text = db.text /\ f.row.print = db.print
  BY DEF Past
<1>2. HnOf(scr.text) = HnOf(db.text) /\ scr.print = db.print
  BY <1>1 DEF SameText
<1>3. Main(db.text) \subseteq scr.text \cup scr.over
  BY <1>2
<1>4. \A e \in db.text : e \in Main(db.text) \/ e \in HnOf(db.text)
  BY DEF Main, HnOf
<1>5. HnOf(scr.text) \subseteq scr.text
  BY DEF HnOf
<1> QED BY <1>2, <1>3, <1>4, <1>5

LEMMA RereadTaken == ASSUME IInv, TakeReread PROVE IInv'
<1>1. PICK f \in fetch :
         /\ f.read
         /\ scr' = IF ~scr.dirty
                   THEN [Shown(f.row) EXCEPT !.at = scr.at, !.mute = scr.mute, !.kept = scr.kept]
                   ELSE IF SameText(f)
                   THEN [scr EXCEPT !.base = IF f.same THEN f.row.v ELSE @, !.nb = f.row.v,
                                    !.bare = TRUE]
                   ELSE scr
  BY DEF TakeReread
<1>2. /\ scr.at \in Working /\ fetch' = {}
      /\ UNCHANGED <<db, draft, copy, got, put, old, conv, saved, swept>>
  BY DEF TakeReread
<1>3. /\ got = {} /\ scr.at \notin Asking /\ scr \in Screens /\ draft \in Drafts
      /\ db.v \in Nat /\ db.print \in Nat /\ db.print <= db.v
      /\ scr.base \in Nat /\ scr.nb \in Nat /\ scr.print \in Nat
      /\ scr.base <= scr.nb /\ scr.nb <= db.v /\ scr.print <= db.v
      /\ draft.base \in Nat
  BY <1>2, WorkingIs
<1>4. /\ f.row \in Rows /\ f.row \in Quotes /\ Past(f.row) /\ (~f.same => scr.base = scr.print)
  BY <1>1, RowsAre DEF IInv, Typed, TypedCalls, Fetching, FetchFits
<1>5. /\ f.row.v \in Nat /\ f.row.print \in Nat /\ f.row.print <= f.row.v /\ f.row.v <= db.v
      /\ f.row.v \in 0..MaxVersion
      /\ f.row.text \cap Mine \subseteq saved
  BY <1>4 DEF Past, Quotes
<1>7. fetch' \subseteq Fetching /\ Lone(fetch') /\ \A g \in fetch' : FetchFits(g)'
  BY <1>2 DEF Lone
<1>8. CASE ~scr.dirty
  <2> PICK s : s = Shown(f.row)
    OBVIOUS
  <2>1. /\ s \in Screens /\ s.base = f.row.v /\ s.nb = f.row.v
        /\ s.text = f.row.text /\ s.print = f.row.print /\ s.over = {}
        /\ ~s.dirty /\ ~s.timer /\ ~s.bare
    BY <1>4, ShownIs
  <2>2. scr' = [s EXCEPT !.at = scr.at, !.mute = scr.mute, !.kept = scr.kept]
    BY <1>1, <1>8
  <2>3. /\ scr' \in Screens /\ scr'.at = scr.at /\ scr'.base = f.row.v /\ scr'.nb = f.row.v
        /\ scr'.text = f.row.text /\ scr'.print = f.row.print /\ scr'.over = {}
        /\ ~scr'.dirty /\ ~scr'.timer /\ scr'.kept = scr.kept
    BY <1>3, <2>1, <2>2 DEF Screens
  <2>4. /\ f.row.v = db.v => db.text \subseteq f.row.text
        /\ f.row.v = db.v \/ f.row.print = db.print => Main(db.text) \subseteq f.row.text
    BY <1>4 DEF Past, Main
  <2>5. draft.base < db.v /\ scr.text \cap Mine \subseteq saved
    BY <1>2, <1>8 DEF IInv, ScreenFits
  <2>6. ScreenFits'
    BY <1>2, <1>3, <1>5, <2>3, <2>4, <2>5 DEF ScreenFits, Backed
  <2>7. CopyFits'
    <3>1. Found \cap Mine \subseteq Found'
      BY <1>2, <2>3, <2>5 DEF Found
    <3>2. scr.kept => scr.at = "askReload" /\ (UNION copy) \cap Mine \subseteq Found
      BY DEF IInv, CopyFits
    <3>3. scr.kept => (UNION copy) \cap Mine \subseteq Found'
      BY <3>1, <3>2
    <3>4. scr'.text \cap Mine \subseteq (UNION copy) \cup saved
      BY <1>5, <2>3
    <3> QED BY <1>2, <2>3, <3>2, <3>3, <3>4 DEF CopyFits
  <2> QED BY <1>2, <1>5, <1>7, <2>3, <2>6, <2>7, RetakenKeeps
<1>9. CASE scr.dirty /\ SameText(f)
  <2> PICK b : b = IF f.same THEN f.row.v ELSE scr.base
    OBVIOUS
  <2>1. b \in 0..MaxVersion /\ b \in Nat /\ b <= f.row.v
    <3>1. CASE f.same
      BY <1>5, <3>1
    <3>2. CASE ~f.same
      <4>1. scr.base = f.row.print
        BY <1>4, <1>9, <3>2 DEF SameText
      <4>2. scr.base \in 0..MaxVersion
        BY <1>3 DEF Screens
      <4> QED BY <1>3, <1>5, <3>2, <4>1, <4>2
    <3> QED BY <3>1, <3>2
  <2>2. scr' = [scr EXCEPT !.base = b, !.nb = f.row.v, !.bare = TRUE]
    BY <1>1, <1>9
  <2>3. /\ scr' \in Screens /\ scr'.at = scr.at /\ scr'.base = b /\ scr'.nb = f.row.v
        /\ scr'.text = scr.text /\ scr'.print = scr.print /\ scr'.over = scr.over
        /\ scr'.dirty = scr.dirty /\ scr'.timer = scr.timer /\ scr'.kept = scr.kept /\ scr'.bare
    BY <1>3, <1>5, <2>1, <2>2 DEF Screens
  <2>4. /\ draft.base = db.v => draft.text \cap Mine \subseteq Found
        /\ scr.base = db.v => db.text \subseteq scr.text \cup scr.over
        /\ scr.print = db.print => Main(db.text) \subseteq scr.text \cup scr.over
    BY <1>2 DEF IInv, ScreenFits
  <2>5. b = db.v => db.text \subseteq scr.text \cup scr.over
    <3>1. CASE f.same
      BY <1>4, <1>9, <2>4, <3>1, SameTextIs
    <3>2. CASE ~f.same
      BY <2>4, <3>2
    <3> QED BY <3>1, <3>2
  <2>9. f.row.v = db.v => scr.print = db.print
    BY <1>4, <1>9 DEF SameText, Past
  <2>6. ScreenFits'
    BY <1>2, <1>3, <1>5, <1>9, <2>1, <2>3, <2>4, <2>5, <2>9 DEF ScreenFits, Backed, Found
  <2>7. CopyFits'
    BY <1>2, <2>3 DEF IInv, CopyFits, Found
  <2>8. scr.timer => scr.dirty
    BY DEF IInv, Typed, TypedBrowser
  <2> QED BY <1>2, <1>7, <2>3, <2>6, <2>7, <2>8, RetakenKeeps
<1>10. CASE scr.dirty /\ ~SameText(f)
  <2>1. scr' = scr
    BY <1>1, <1>10
  <2>3. TypedCalls' /\ Placed' /\ TypedBrowser'
    BY <1>2, <2>1 DEF IInv, Typed, TypedCalls, Placed, TypedBrowser, Lone
  <2>4. DraftFits' /\ ScreenFits' /\ CopyFits'
    BY <1>2, <2>1 DEF IInv, DraftFits, ScreenFits, CopyFits, Backed, Found
  <2>5. Past(db)'
    BY <1>2, PastStays DEF IInv
  <2>6. \A p \in put : PutFits(p)'
    BY <1>2, <2>1, PastStays DEF IInv, PutFits, Backed, Informed
  <2>7. \A p \in old : OldFits(p)'
    BY <1>2 DEF IInv, OldFits, Informed
  <2>8. \A c \in conv : ConvFits(c)'
    BY <1>2, PastStays DEF IInv, ConvFits
  <2> QED BY <1>2, <1>3, <2>3, <2>4, <2>5, <2>6, <2>7, <2>8 DEF IInv, Typed
<1> QED BY <1>8, <1>9, <1>10

LEMMA ConvertReplied == ASSUME IInv, ReplyConvert PROVE IInv'
<1>1. PICK c \in conv :
         /\ c.read
         /\ scr' = [scr EXCEPT !.base = c.row.v, !.nb = c.row.v, !.text = c.row.text,
                               !.print = c.row.print, !.over = {}, !.bare = scr.dirty]
         /\ swept' = swept \cup ((scr.text \ c.row.text) \cap Mine)
  BY DEF ReplyConvert
<1>2. /\ scr.at \in Working /\ conv' = {} /\ fetch' = Detached
      /\ UNCHANGED <<db, draft, copy, got, put, old, saved>>
  BY DEF ReplyConvert
<1>3. /\ got = {} /\ scr \in Screens /\ draft \in Drafts
      /\ db.v \in Nat /\ draft.base \in Nat
  BY <1>2, WorkingIs
<1>4. c.row \in Rows /\ c.row \in Quotes /\ Past(c.row) /\ c.row.print = c.row.v
  BY <1>1, RowsAre DEF IInv, Typed, TypedCalls, Closing, ConvFits
<1>5. /\ c.row.v \in Nat /\ c.row.v <= db.v /\ c.row.v \in 0..MaxVersion /\ c.row.text \in Texts
      /\ c.row.text \cap Mine \subseteq saved
      /\ c.row.v = db.v => db.text \subseteq c.row.text
      /\ c.row.v = db.v \/ c.row.print = db.print => Main(db.text) \subseteq c.row.text
  BY <1>4 DEF Past, Quotes, Main
<1>6. /\ scr' \in Screens /\ scr'.at = scr.at /\ scr'.base = c.row.v /\ scr'.nb = c.row.v
      /\ scr'.text = c.row.text /\ scr'.print = c.row.print /\ scr'.over = {}
      /\ scr'.dirty = scr.dirty /\ scr'.timer = scr.timer /\ scr'.kept = scr.kept
      /\ scr'.bare = scr.dirty
  <2> PICK v, text, dirty : v = c.row.v /\ text = c.row.text /\ dirty = scr.dirty
    OBVIOUS
  <2>1. scr' = [scr EXCEPT !.base = v, !.nb = v, !.text = text,
                           !.print = v, !.over = {}, !.bare = dirty]
    BY <1>1, <1>4
  <2>2. v \in 0..MaxVersion /\ text \in Texts /\ {} \in Texts /\ dirty \in BOOLEAN
    BY <1>3, <1>5 DEF Screens, Texts
  <2> QED BY <1>3, <1>4, <2>1, <2>2 DEF Screens
<1>7. \A f \in Detached : f \in Fetching /\ (f.read => Past(f.row))
  BY <1>3, DetachedIs DEF IInv, FetchFits
<1>8. fetch' \subseteq Fetching /\ Lone(fetch') /\ \A f \in fetch' : FetchFits(f)'
  BY <1>2, <1>3, <1>4, <1>6, <1>7, DetachedIs, PastStays DEF FetchFits
<1>9. ScreenFits'
  <2>1. scr.text \cap Mine \subseteq c.row.text \cup swept'
    BY <1>1
  <2>2. swept \subseteq swept'
    BY <1>1
  <2>3. /\ draft.base = db.v => draft.text \cap Mine \subseteq Found
        /\ ~scr.dirty => draft.base < db.v
    BY <1>2 DEF IInv, ScreenFits
  <2>4. draft.base = db.v => draft.text \cap Mine \subseteq Found'
    BY <1>2, <1>6, <2>1, <2>2, <2>3 DEF Found
  <2> QED BY <1>2, <1>3, <1>4, <1>5, <1>6, <2>3, <2>4 DEF ScreenFits, Backed
<1>10. CopyFits'
  <2>1. scr.text \cap Mine \subseteq c.row.text \cup swept' /\ swept \subseteq swept'
    BY <1>1
  <2>2. Found \cap Mine \subseteq Found'
    BY <1>2, <1>6, <2>1 DEF Found
  <2>3. scr.kept => scr.at = "askReload" /\ (UNION copy) \cap Mine \subseteq Found
    BY DEF IInv, CopyFits
  <2>4. scr.kept => (UNION copy) \cap Mine \subseteq Found'
    BY <2>2, <2>3
  <2>5. scr'.text \cap Mine \subseteq (UNION copy) \cup saved
    BY <1>5, <1>6
  <2> QED BY <1>2, <1>6, <2>3, <2>4, <2>5 DEF CopyFits
<1>11. (scr.timer => scr.dirty)
  BY DEF IInv, Typed, TypedBrowser
<1> QED BY <1>2, <1>5, <1>6, <1>8, <1>9, <1>10, <1>11, RetakenKeeps

-----------------------------------------------------------------------------
(***************************************************************************)
(* Every state reached fits.                                               *)
(***************************************************************************)
LEMMA InitFits == Init => IInv
<1> SUFFICES ASSUME Init PROVE IInv
  OBVIOUS
<1>1. /\ db = [v |-> 1, text |-> {}, print |-> 1] /\ draft = NoDraft /\ copy = {} /\ scr = Closed
      /\ got = {} /\ put = {} /\ old = {} /\ fetch = {} /\ conv = {}
  BY DEF Init
<1>2. db \in Rows /\ db.v = 1 /\ db.text = {} /\ db.print = 1
  BY <1>1 DEF Rows, Texts, DraftAssumption
<1>3. scr.at \notin Working /\ scr.at \notin Asking
  BY <1>1, ClosedIs DEF Working, SaveBoxes, Asking, OpenBoxes
<1>4. Typed
  BY <1>1, <1>2, <1>3, ClosedIs DEF Typed, TypedBrowser, TypedCalls, Placed, Lone
<1>5. Past(db) /\ DraftFits /\ ScreenFits /\ CopyFits
  BY <1>1, <1>2, <1>3, ClosedIs DEF Past, DraftFits, ScreenFits, CopyFits
<1> QED BY <1>1, <1>4, <1>5 DEF IInv

LEMMA NextKeeps == ASSUME IInv, [Next]_vars PROVE IInv'
<1>1. CASE Open \/ Loaded \/ RestoreDraft \/ DeclineDraft \/ OpenCopy \/ DeclineCopy
  BY <1>1, OpenKeeps, LoadedKeeps, RestoreKeeps, DeclineDraftKeeps, OpenCopyKeeps,
     DeclineCopyKeeps
<1>2. CASE \E e \in Mine : Type(e)
  BY <1>2, TypeKeeps
<1>3. CASE \E ok \in BOOLEAN : DropOrKeepCopy(ok) \/ TimerFires(ok) \/ Hide(ok)
  BY <1>3, DropOrKeepKeeps, TimerKeeps, HideKeeps
<1>4. CASE \E ok \in BOOLEAN : ReplyConflict(ok) \/ CloseTab(ok)
  BY <1>4, ConflictKeeps, CloseTabKeeps
<1>5. CASE Save \/ ServeSave \/ ServeOldSave \/ ReplySaved \/ SaveFails
  BY <1>5, SaveSent, SaveServed, OldSaveServed, SavedReplied, SaveLost
<1>6. CASE \E yes, ok \in BOOLEAN : ReplaceCopy(yes, ok)
  BY <1>6, ReplaceKeeps
<1>7. CASE ReloadPage \/ StayHere \/ Leave \/ LeaveOpening \/ Crash \/ LateReply
  BY <1>7, ReloadPageKeeps, StayKeeps, LeaveKeeps, LeaveOpeningKeeps, CrashKeeps, LateReplyKeeps
<1>8. CASE Assign \/ Review \/ Reread \/ TakeReread
  BY <1>8, Assigned, Reviewed, Reloaded, RereadTaken
<1>9. CASE Convert \/ ServeConvert \/ ReplyConvert \/ ConvertFails
  BY <1>9, ConvertAsked, ConvertServed, ConvertReplied, ConvertLost
<1>10. CASE \E e \in TheirMain \cup TheirHn : TheySave(e)
  BY <1>10, TheySaved
<1>11. CASE TheyTouch
  BY <1>11, TheyTouched
<1>12. CASE UNCHANGED vars
  BY <1>12, Stays, CallsAsAre DEF vars, browser
<1> QED BY <1>1, <1>2, <1>3, <1>4, <1>5, <1>6, <1>7, <1>8, <1>9, <1>10, <1>11, <1>12 DEF Next

LEMMA Inductive == Spec => []IInv
BY InitFits, NextKeeps, PTL DEF Spec

-----------------------------------------------------------------------------
(***************************************************************************)
(* What is kept of the user's work, step by step.                          *)
(***************************************************************************)

\* What the user typed is kept, or given up in a box, or swept by a close.
NothingLost == ((Kept \ Kept') \cap Mine) \subseteq given' \cup swept'

\* On a working screen a draft that an opening would offer has nothing of its own.
LEMMA WorkingLoses ==
  ASSUME IInv, scr.at \in Working, saved \subseteq saved', swept \subseteq swept',
         \A e \in Mine : e \in scr.text \/ (\E c \in copy : e \in c)
                           => e \in Kept' \/ e \in given' \/ e \in swept'
  PROVE  NothingLost
<1>1. draft.base = db.v => draft.text \cap Mine \subseteq Found
  BY DEF IInv, ScreenFits
<1>2. saved' \subseteq Kept'
  BY DEF Kept
<1>3. ASSUME NEW e \in Mine, e \in Kept
      PROVE  e \in scr.text \/ (\E c \in copy : e \in c) \/ e \in saved \/ e \in swept
  BY <1>1, <1>3 DEF Kept, Found
<1> QED BY <1>2, <1>3 DEF NothingLost

LEMMA ScreenIsKept ==
  /\ scr.text \subseteq Kept
  /\ \A c \in copy : c \subseteq Kept
  /\ draft.base = db.v => draft.text \subseteq Kept
  /\ saved \subseteq Kept
BY DEF Kept

\* Outside the browser only the version of the row moves on.
LEMMA OutsideKeepsWork ==
  ASSUME IInv, UNCHANGED browser, saved \subseteq saved', swept' = swept,
         db' = db \/ scr.at \in Working
  PROVE  NothingLost
<1>1. scr' = scr /\ draft' = draft /\ copy' = copy
  BY DEF browser
<1>2. CASE db' = db
  BY <1>1, <1>2 DEF NothingLost, Kept
<1>3. CASE scr.at \in Working
  <2>1. \A e \in Mine : e \in scr.text \/ (\E c \in copy : e \in c) => e \in Kept'
    BY <1>1 DEF Kept
  <2> QED BY <1>3, <2>1, WorkingLoses
<1> QED BY <1>2, <1>3

\* An editor that opens holds no work: it is in the draft, the copy, or saved.
LEMMA OpeningKeepsWork ==
  ASSUME IInv,
         Open \/ Loaded \/ RestoreDraft \/ DeclineDraft \/ OpenCopy \/ DeclineCopy
           \/ (\E drop \in BOOLEAN : DropOrKeepCopy(drop)) \/ LeaveOpening
  PROVE  NothingLost
<1>1. scr.at \notin Working
  BY DEF Open, Loaded, RestoreDraft, DeclineDraft, OpenCopy, DeclineCopy, DropOrKeepCopy,
         LeaveOpening, Working, SaveBoxes, OpenBoxes
<1>2. scr.text = {} /\ Lone(copy)
  BY <1>1 DEF IInv, Typed, TypedBrowser
<1>3. CASE Open \/ Loaded \/ DeclineCopy \/ LeaveOpening
  <2>1. draft' = draft /\ copy' = copy /\ db' = db /\ saved' = saved
    BY <1>3 DEF Open, Loaded, DeclineCopy, LeaveOpening, Rest, Ghosts
  <2> QED BY <1>2, <2>1 DEF NothingLost, Kept
<1>4. CASE RestoreDraft
  <2>1. draft' = draft /\ copy' = copy /\ db' = db /\ saved' = saved
    BY <1>4 DEF RestoreDraft, Rest, Ghosts
  <2> QED BY <1>2, <2>1 DEF NothingLost, Kept
<1>5. CASE DeclineDraft
  <2>1. given' = draft.text \cap Mine /\ copy' = copy /\ db' = db /\ saved' = saved
    BY <1>5 DEF DeclineDraft
  <2> QED BY <1>2, <2>1 DEF NothingLost, Kept
<1>6. CASE OpenCopy
  <2>1. PICK row \in got, c \in copy :
           scr' = [Shown(row) EXCEPT !.text = c, !.over = row.text \ c, !.dirty = TRUE, !.bare = TRUE]
    BY <1>6 DEF OpenCopy
  <2>2. draft' = draft /\ db' = db /\ saved' = saved
    BY <1>6 DEF OpenCopy, Rest, Ghosts
  <2> PICK s, over : s = Shown(row) /\ over = row.text \ c
    OBVIOUS
  <2>3. s \in Screens
    BY OpeningIs, ShownIs
  <2>4. scr' = [s EXCEPT !.text = c, !.over = over, !.dirty = TRUE, !.bare = TRUE]
    BY <2>1
  <2>5. scr'.text = c
    BY <2>3, <2>4 DEF Screens
  <2>6. \A d \in copy : d = c
    BY <1>2 DEF Lone
  <2> QED BY <1>2, <2>2, <2>5, <2>6 DEF NothingLost, Kept
<1>7. ASSUME NEW drop \in BOOLEAN, DropOrKeepCopy(drop) PROVE NothingLost
  <2>1. /\ draft' = draft /\ db' = db /\ saved' = saved
        /\ copy' = IF drop THEN {} ELSE copy
        /\ given' = IF drop THEN (UNION copy) \cap Mine ELSE {}
    BY <1>7 DEF DropOrKeepCopy
  <2> QED BY <1>2, <2>1 DEF NothingLost, Kept
<1> QED BY <1>3, <1>4, <1>5, <1>6, <1>7

LEMMA TypingKeepsWork ==
  ASSUME IInv,
         (\E e \in Mine : Type(e)) \/ \E ok \in BOOLEAN : TimerFires(ok) \/ Hide(ok)
  PROVE  NothingLost
<1>1. scr.at \in Working
  BY DEF Type, TimerFires, Hide, Working
<1>2. scr \in Screens
  BY DEF IInv, Typed, TypedBrowser
<1>3. copy' = copy /\ saved' = saved /\ swept' = swept
  BY DEF Type, TimerFires, Hide, Ghosts
<1>4. scr.text \subseteq scr'.text
  <2>1. ASSUME NEW e \in Mine, Type(e) PROVE scr'.text = scr.text \cup {e}
    BY <1>2, <2>1 DEF Type, Screens
  <2>2. ASSUME NEW ok \in BOOLEAN, TimerFires(ok) \/ Hide(ok) PROVE scr'.text = scr.text
    BY <1>2, <2>2 DEF TimerFires, Hide, Screens
  <2> QED BY <2>1, <2>2
<1>5. \A e \in Mine : e \in scr.text \/ (\E c \in copy : e \in c) => e \in Kept'
  BY <1>3, <1>4 DEF Kept
<1> QED BY <1>1, <1>3, <1>5, WorkingLoses

LEMMA RepliesKeepWork ==
  ASSUME IInv,
         \/ ReplySaved \/ (\E ok \in BOOLEAN : ReplyConflict(ok))
         \/ (\E yes, ok \in BOOLEAN : ReplaceCopy(yes, ok)) \/ StayHere
         \/ TakeReread \/ ReplyConvert
  PROVE  NothingLost
<1>1. scr.at \in Working
  BY DEF ReplySaved, ReplyConflict, ReplaceCopy, StayHere, TakeReread, ReplyConvert, Working, SaveBoxes
<1>2. scr \in Screens /\ Lone(copy)
  BY DEF IInv, Typed, TypedBrowser
<1>3. saved' = saved /\ swept \subseteq swept'
  BY DEF ReplySaved, ReplyConflict, ReplaceCopy, StayHere, TakeReread, ReplyConvert, Rest, Ghosts
<1> SUFFICES ASSUME NEW e \in Mine, e \in scr.text \/ (\E c \in copy : e \in c)
             PROVE  e \in Kept' \/ e \in given' \/ e \in swept'
  BY <1>1, <1>3, WorkingLoses
<1>4. CASE ReplySaved
  <2>1. PICK p \in put :
           /\ p.st = "done"
           /\ scr' = [Shown([v |-> p.base, text |-> p.text, print |-> p.base])
                        EXCEPT !.mute = scr.mute]
    BY <1>4 DEF ReplySaved
  <2>2. copy' = copy
    BY <1>4 DEF ReplySaved
  <2>3. PutFits(p) /\ AsRow(p) \in Quotes
    BY RowsAre DEF IInv, Typed, TypedCalls
  <2> PICK s : s = Shown(AsRow(p))
    OBVIOUS
  <2>4. s \in Screens /\ s.text = p.text
    BY <2>3, ShownIs DEF AsRow
  <2>5. scr' = [s EXCEPT !.mute = scr.mute]
    BY <2>1 DEF AsRow
  <2>6. scr'.text = p.text
    BY <2>4, <2>5 DEF Screens
  <2>7. e \in scr.text => e \in p.text \/ e \in saved
    BY <2>3 DEF PutFits
  <2> QED BY <1>3, <2>2, <2>6, <2>7 DEF Kept
<1>5. ASSUME NEW ok \in BOOLEAN, ReplyConflict(ok) PROVE e \in Kept'
  <2>1. copy' = IF ok /\ copy = {} THEN {scr.text} ELSE copy
    BY <1>5 DEF ReplyConflict
  <2>2. scr'.text = scr.text
    BY <1>2, <1>5 DEF ReplyConflict, Screens
  <2> QED BY <2>1, <2>2 DEF Kept
<1>6. ASSUME NEW yes \in BOOLEAN, NEW ok \in BOOLEAN, ReplaceCopy(yes, ok)
      PROVE  e \in Kept' \/ e \in given'
  <2>1. /\ copy' = IF yes /\ ok THEN {scr.text} ELSE copy
        /\ given' = IF yes /\ ok THEN (UNION copy) \cap Mine ELSE {}
    BY <1>6 DEF ReplaceCopy
  <2>2. scr'.text = scr.text
    BY <1>2, <1>6 DEF ReplaceCopy, Screens
  <2> QED BY <2>1, <2>2 DEF Kept
<1>7. CASE StayHere
  <2>1. copy' = IF scr.kept THEN {} ELSE copy
    BY <1>7 DEF StayHere
  <2>2. scr'.text = scr.text
    BY <1>2, <1>7 DEF StayHere, Screens
  <2>3. scr.kept => \A c \in copy : e \in c => e \in scr.text \/ e \in swept \/ e \in saved
    BY DEF IInv, CopyFits, Found
  <2> QED BY <1>3, <2>1, <2>2, <2>3 DEF Kept
<1>8. CASE TakeReread
  <2>1. copy' = copy
    BY <1>8 DEF TakeReread
  <2>2. CASE ~scr.dirty
    <3>1. e \in scr.text => e \in saved
      BY <1>1, <2>2 DEF IInv, ScreenFits
    <3> QED BY <1>3, <2>1, <3>1 DEF Kept
  <2>3. CASE scr.dirty
    <3>1. scr'.text = scr.text
      BY <1>2, <1>8, <2>3 DEF TakeReread, Screens
    <3> QED BY <2>1, <3>1 DEF Kept
  <2> QED BY <2>2, <2>3
<1>9. CASE ReplyConvert
  <2>1. PICK c \in conv :
           /\ scr' = [scr EXCEPT !.base = c.row.v, !.nb = c.row.v, !.text = c.row.text,
                                 !.print = c.row.print, !.over = {}, !.bare = scr.dirty]
           /\ swept' = swept \cup ((scr.text \ c.row.text) \cap Mine)
    BY <1>9 DEF ReplyConvert
  <2>2. copy' = copy
    BY <1>9 DEF ReplyConvert
  <2>3. scr'.text = c.row.text
    BY <1>2, <2>1 DEF Screens
  <2> QED BY <2>1, <2>2, <2>3 DEF Kept
<1> QED BY <1>4, <1>5, <1>6, <1>7, <1>8, <1>9

LEMMA GoingKeepsWork ==
  ASSUME IInv, ReloadPage \/ Leave \/ \E ok \in BOOLEAN : CloseTab(ok)
  PROVE  NothingLost
<1>1. scr.at \in Working
  BY DEF ReloadPage, Leave, CloseTab, Working, SaveBoxes
<1>2. copy' = copy /\ saved' = saved /\ swept' = swept /\ db' = db
  BY DEF ReloadPage, Leave, CloseTab
<1> SUFFICES ASSUME NEW e \in Mine, e \in scr.text \/ (\E c \in copy : e \in c)
             PROVE  e \in Kept' \/ e \in given' \/ e \in swept'
  BY <1>1, <1>2, WorkingLoses
<1>3. CASE \E c \in copy : e \in c
  BY <1>2, <1>3 DEF Kept
<1>4. CASE e \in scr.text
  <2>1. CASE ReloadPage
    <3>1. given' = IF scr.kept THEN {} ELSE scr.text \cap Mine
      BY <2>1 DEF ReloadPage
    <3>2. scr.kept => e \in saved \/ \E c \in copy : e \in c
      BY <1>4 DEF IInv, CopyFits
    <3> QED BY <1>2, <1>4, <3>1, <3>2 DEF Kept
  <2>2. ~scr.dirty => e \in saved
    BY <1>1, <1>4 DEF IInv, ScreenFits
  <2>3. CASE Leave
    <3>1. given' = IF scr.dirty THEN scr.text \cap Mine ELSE {}
      BY <2>3 DEF Leave
    <3> QED BY <1>2, <1>4, <2>2, <3>1 DEF Kept
  <2>4. ASSUME NEW ok \in BOOLEAN, CloseTab(ok) PROVE e \in Kept' \/ e \in given'
    <3> DEFINE writes == scr.dirty /\ ~scr.mute /\ ok
    <3>1. /\ draft' = IF writes THEN Written ELSE draft
          /\ given' = IF scr.dirty /\ ~(writes /\ scr.nb = db.v) THEN scr.text \cap Mine ELSE {}
      BY <2>4 DEF CloseTab
    <3>2. scr \in Screens
      BY DEF IInv, Typed, TypedBrowser
    <3>3. CASE writes /\ scr.nb = db.v
      <4>1. draft'.base = db'.v /\ draft'.text = scr.text
        BY <1>2, <3>1, <3>2, <3>3, WrittenIs
      <4> QED BY <1>4, <4>1 DEF Kept
    <3>4. CASE ~(writes /\ scr.nb = db.v)
      BY <1>2, <1>4, <2>2, <3>1, <3>4 DEF Kept
    <3> QED BY <3>3, <3>4
  <2> QED BY <2>1, <2>3, <2>4
<1> QED BY <1>3, <1>4

\* The draft that a late answer clears is of a version long gone.
LEMMA LateReplyKeepsWork ==
  ASSUME IInv, LateReply
  PROVE  NothingLost
<1>1. PICK p \in old : draft' = IF p.st = "done" /\ ~p.deaf /\ ~draft.newer THEN NoDraft ELSE draft
  BY DEF LateReply
<1>2. scr' = scr /\ copy' = copy /\ db' = db /\ saved' = saved
  BY DEF LateReply, Rest, Ghosts
<1>3. draft.base \in Nat /\ db.v \in Nat
  BY DEF IInv, Typed, TypedBrowser, Drafts, Rows
<1>4. draft' = draft \/ draft.base < db.v
  BY <1>1 DEF IInv, OldFits
<1> QED BY <1>2, <1>3, <1>4 DEF NothingLost, Kept

LEMMA StepKeepsWork ==
  ASSUME IInv, Next
  PROVE  NothingLost \/ Crash \/ (db' # db /\ scr.at \notin Working)
<1>1. CASE Open \/ Loaded \/ RestoreDraft \/ DeclineDraft \/ OpenCopy \/ DeclineCopy \/ LeaveOpening
  BY <1>1, OpeningKeepsWork
<1>2. CASE (\E e \in Mine : Type(e)) \/ \E ok \in BOOLEAN : TimerFires(ok) \/ Hide(ok)
  BY <1>2, TypingKeepsWork
<1>3. CASE \E drop \in BOOLEAN : DropOrKeepCopy(drop)
  BY <1>3, OpeningKeepsWork
<1>4. CASE \/ ReplySaved \/ (\E ok \in BOOLEAN : ReplyConflict(ok))
           \/ (\E yes, ok \in BOOLEAN : ReplaceCopy(yes, ok)) \/ StayHere
           \/ TakeReread \/ ReplyConvert
  BY <1>4, RepliesKeepWork
<1>5. CASE ReloadPage \/ Leave \/ \E ok \in BOOLEAN : CloseTab(ok)
  BY <1>5, GoingKeepsWork
<1>6. CASE LateReply
  BY <1>6, LateReplyKeepsWork
<1>7. CASE \/ Save \/ ServeSave \/ ServeOldSave \/ SaveFails
           \/ Assign \/ Review \/ Reread \/ Convert \/ ServeConvert \/ ConvertFails
           \/ (\E e \in TheirMain \cup TheirHn : TheySave(e)) \/ TheyTouch
  <2>1. UNCHANGED browser /\ swept' = swept
    BY <1>7 DEF Save, ServeSave, ServeOldSave, SaveFails, Assign, Review, Reread, Convert,
                ServeConvert, ConvertFails, TheySave, TheyTouch, Rest, Ghosts
  <2>2. saved \subseteq saved'
    BY <1>7 DEF Save, ServeSave, ServeOldSave, SaveFails, Assign, Review, Reread, Convert,
                ServeConvert, ConvertFails, TheySave, TheyTouch, Rest, Ghosts, Served, Accept
  <2> QED BY <2>1, <2>2, OutsideKeepsWork
<1> QED BY <1>1, <1>2, <1>3, <1>4, <1>5, <1>6, <1>7 DEF Next

-----------------------------------------------------------------------------
(***************************************************************************)
(* What a save removes.                                                    *)
(***************************************************************************)
LEMMA StepSeesWhatGoes ==
  ASSUME IInv, Next
  PROVE  (db.text \ db'.text) \subseteq UNION {p.over : p \in put \cup old}
<1>1. CASE ServeSave \/ ServeOldSave
  <2>1. PICK p \in put \cup old : Served(p)
    BY <1>1 DEF ServeSave, ServeOldSave
  <2>2. Informed(p)
    BY DEF IInv, PutFits, OldFits
  <2>3. CASE Accept(p) /\ p.st = "sent"
    <3>1. p.base = db.v /\ db'.text = p.text
      BY <2>3 DEF Accept
    <3> QED BY <2>2, <2>3, <3>1 DEF Informed
  <2> QED BY <2>1, <2>3 DEF Served
<1>2. CASE Assign \/ ServeConvert \/ TheyTouch
  <2>1. db \in Rows
    BY DEF IInv, Typed
  <2>2. db'.text = db.text
    BY <1>2, <2>1 DEF Assign, ServeConvert, TheyTouch, Rows
  <2> QED BY <2>2
<1>3. ASSUME NEW e \in TheirMain \cup TheirHn, TheySave(e) PROVE db.text \subseteq db'.text
  BY <1>3 DEF TheySave
<1>4. CASE db' = db
  BY <1>4
<1>5. CASE Open \/ Loaded \/ RestoreDraft \/ DeclineDraft \/ OpenCopy \/ DeclineCopy
             \/ (\E e \in Mine : Type(e)) \/ ReloadPage \/ StayHere \/ Leave \/ LeaveOpening
             \/ Crash \/ LateReply
  <2>1. db' = db
    BY <1>5 DEF Open, Loaded, RestoreDraft, DeclineDraft, OpenCopy, DeclineCopy, Type,
                ReloadPage, StayHere, Leave, LeaveOpening, Crash, LateReply
  <2> QED BY <2>1
<1>6. CASE Save \/ ReplySaved \/ SaveFails \/ Review \/ Reread \/ TakeReread \/ Convert
             \/ ReplyConvert \/ ConvertFails
  <2>1. db' = db
    BY <1>6 DEF Save, ReplySaved, SaveFails, Review, Reread, TakeReread, Convert,
                ReplyConvert, ConvertFails
  <2> QED BY <2>1
<1>7. ASSUME NEW ok \in BOOLEAN,
             DropOrKeepCopy(ok) \/ TimerFires(ok) \/ Hide(ok) \/ ReplyConflict(ok) \/ CloseTab(ok)
      PROVE  db' = db
  BY <1>7 DEF DropOrKeepCopy, TimerFires, Hide, ReplyConflict, CloseTab
<1>8. ASSUME NEW yes \in BOOLEAN, NEW ok \in BOOLEAN, ReplaceCopy(yes, ok) PROVE db' = db
  BY <1>8 DEF ReplaceCopy
<1> QED BY <1>1, <1>2, <1>3, <1>4, <1>5, <1>6, <1>7, <1>8 DEF Next

-----------------------------------------------------------------------------
(***************************************************************************)
(* The theorems.                                                           *)
(***************************************************************************)
LEMMA LoneIsSmall ==
  ASSUME NEW S, Lone(S)
  PROVE  Cardinality(S) <= 1
<1>1. CASE S = {}
  BY <1>1, FS_EmptySet
<1>2. ASSUME NEW x \in S PROVE Cardinality(S) <= 1
  <2>1. S = {x}
    BY DEF Lone
  <2>2. Cardinality(S) = 1
    BY <2>1, FS_Singleton
  <2> QED BY <2>2
<1> QED BY <1>1, <1>2

(* Every variable keeps its shape, there is one call of each kind at most, *)
(* and a loaded quote waits only while an editor is opening.               *)
THEOREM TypesHold == Spec => []TypeOK
<1>1. IInv => TypeOK
  <2> SUFFICES ASSUME IInv PROVE TypeOK
    OBVIOUS
  <2>1. /\ db \in Rows /\ {draft.base, draft.own} \subseteq 0..MaxVersion /\ draft.text \in Texts
        /\ scr.at \in {"closed", "loading"} \cup OpenBoxes \cup Working
    BY DEF IInv, Typed, TypedBrowser, Drafts, Screens, Asking
  <2>2. \A S \in {copy, got, put, old, fetch, conv} : Lone(S)
    BY DEF IInv, Typed, TypedBrowser, TypedCalls
  <2>3. \A S \in {copy, got, put, old, fetch, conv} : Cardinality(S) <= 1
    BY <2>2, LoneIsSmall
  <2>4. copy \subseteq Texts /\ got \subseteq Rows
    BY DEF IInv, Typed, TypedBrowser
  <2>5. /\ got # {} <=> scr.at \in {"loading"} \cup OpenBoxes
        /\ put # {} => scr.at = "edit"
        /\ fetch \cup conv # {} => scr.at \in Working
    BY DEF IInv, Typed, Placed, Asking
  <2> QED BY <2>1, <2>3, <2>4, <2>5 DEF TypeOK
<1> QED BY <1>1, Inductive, PTL

(* Once the timer ran, unsaved work on the screen is in a draft that an    *)
(* opening would offer while the row is unchanged.                         *)
THEOREM DraftsBackScreens == Spec => []DraftBacksScreen
<1>1. IInv => DraftBacksScreen
  BY DEF IInv, ScreenFits, Backed, DraftBacksScreen, Working
<1> QED BY <1>1, Inductive, PTL

(* Work in the editor is lost only where a box said so, in a crash, under  *)
(* a draft of an editor no longer open, or with the answer to a close.     *)
THEOREM WorkIsKept == Spec => WorkKept
<1>1. IInv /\ [Next]_vars =>
        [ \/ ((Kept \ Kept') \cap Mine) \subseteq given' \cup swept'
          \/ Crash
          \/ db' # db /\ scr.at \notin Working ]_vars
  BY StepKeepsWork DEF NothingLost
<1> QED BY <1>1, Inductive, PTL DEF Spec, WorkKept

(* Text of the server that a save of this user removes is text the user    *)
(* was told about: the save was built on the version it replaces, or on    *)
(* the copy kept at a conflict.                                            *)
THEOREM NothingUnseenGoes == Spec => NoUnseenOverwrite
<1>1. IInv /\ [Next]_vars =>
        [ (db.text \ db'.text) \subseteq UNION {p.over : p \in put \cup old} ]_vars
  BY StepSeesWhatGoes
<1> QED BY <1>1, Inductive, PTL DEF Spec, NoUnseenOverwrite
=============================================================================

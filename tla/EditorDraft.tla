---------------------------- MODULE EditorDraft ----------------------------
(***************************************************************************)
(* What a user types into the quote editor, from the keystroke to the      *)
(* server: the screen, the draft and the conflict copy that the browser    *)
(* keeps, the optimistic lock of the save, and the boxes that ask          *)
(* (src/web/src/pages/QuoteEditor.tsx, src/web/src/lib/localDraft.ts).     *)
(*                                                                         *)
(* One user, one tab, one quote that is on the server already.  The others *)
(* are one actor that saves, or writes without changing the text.  A text  *)
(* is the set of the edits it holds; a save stores the whole text.  An     *)
(* edit belongs to the main part or to the Hanoi tables.                   *)
(***************************************************************************)
EXTENDS Naturals, FiniteSets

CONSTANTS
    MyMain, MyHn,        \* edits of the user: main part, Hanoi tables
    TheirMain, TheirHn,  \* edits of the others
    MaxVersion,          \* bound of the model: versions of the row
    MaxOpens,            \* bound of the model: openings of the quote
    MaxFaults,           \* bound of the model: crashes, calls lost, drafts without room
    MaxCalls             \* bound of the model: calls under way at a time

ASSUME DraftAssumption ==
    /\ {MaxVersion, MaxOpens, MaxFaults, MaxCalls} \subseteq Nat /\ MaxVersion > 0
    /\ (MyMain \cup TheirMain) \cap (MyHn \cup TheirHn) = {}
    /\ (MyMain \cup MyHn) \cap (TheirMain \cup TheirHn) = {}

Mine == MyMain \cup MyHn
Texts == SUBSET (Mine \cup TheirMain \cup TheirHn)
HnOf(text) == text \cap (MyHn \cup TheirHn)

VARIABLES
    db,     \* the row: v (updatedAt), text, print (changes with the main part)
    draft,  \* the draft in the browser; base 0 when there is none
    copy,   \* the copy kept at a conflict: no text or one
    scr,    \* the editor and the box that is open
    got,    \* the quote the editor is opening: none or one
    put,    \* the save of the editor: none or one
    old,    \* the save of an editor that is gone: none or one
    fetch,  \* the reload after a Hanoi action: none or one
    conv,   \* the close of the deal: none or one
    opens, faults, \* counted for the bounds
    made,   \* ghost: edits the user has typed
    given,  \* ghost: edits the user gave up in the last step, told by a box
    saved,  \* ghost: edits of the user that some save stored
    swept   \* ghost: edits that the answer to a close took off the screen

vars == <<db, draft, copy, scr, got, put, old, fetch, conv,
          opens, faults, made, given, saved, swept>>
browser == <<draft, copy, scr, got>>
calls == <<put, old, fetch, conv>>

Rows == [v : 1..MaxVersion, text : Texts, print : 1..MaxVersion]

\* base: baseUpdatedAt, which the next opening compares with the row;
\* own: updatedAt of the quote in it, which a save after restoring sends;
\* over: ghost, edits of the server that the user knows the text replaces.
\* newer: written after the editor of `old` was gone (luuLuc > goLuc).
NoDraft == [base |-> 0, own |-> 0, text |-> {}, over |-> {}, newer |-> FALSE]

Closed == [at |-> "closed", base |-> 0, nb |-> 0, text |-> {}, print |-> 0, dirty |-> FALSE,
           timer |-> FALSE, mute |-> FALSE, kept |-> FALSE, bare |-> FALSE, over |-> {}]

\* base: q.updatedAt, sent with a save; nb: baseNhapRef, written in a draft;
\* mute: the browser cannot keep a draft and the user was told;
\* kept: the conflict copy holds the screen; bare: ghost, see DraftBacksScreen.
Shown(row) == [Closed EXCEPT !.at = "edit", !.base = row.v, !.nb = row.v,
                             !.text = row.text, !.print = row.print]

Ghosts == given' = {} /\ UNCHANGED <<opens, made, saved, swept>>
Rest == Ghosts /\ UNCHANGED faults

\* Calls under way.
Calls == Cardinality(put) + Cardinality(old) + Cardinality(fetch) + Cardinality(conv)

\* A fault happens, or not.
Fault(b) ==
    /\ b => faults < MaxFaults
    /\ faults' = IF b THEN faults + 1 ELSE faults

OpenBoxes == {"askDraft", "askCopy", "askDrop"}
SaveBoxes == {"askReplace", "askReload"}
Working == {"edit"} \cup SaveBoxes

Init ==
    /\ db = [v |-> 1, text |-> {}, print |-> 1]
    /\ draft = NoDraft /\ copy = {} /\ scr = Closed /\ got = {}
    /\ put = {} /\ old = {} /\ fetch = {} /\ conv = {}
    /\ opens = 0 /\ faults = 0 /\ made = {} /\ given = {} /\ saved = {} /\ swept = {}

-----------------------------------------------------------------------------
(* Opening the quote.                                                      *)

Open ==
    /\ scr.at = "closed" /\ opens < MaxOpens /\ opens' = opens + 1
    /\ scr' = [scr EXCEPT !.at = "loading"]
    /\ got' = {db}
    /\ UNCHANGED <<db, draft, copy>> /\ UNCHANGED calls /\ given' = {} /\ UNCHANGED <<faults, made, saved, swept>>

AskCopyOrShow(row) ==
    IF copy # {} THEN scr' = [Closed EXCEPT !.at = "askCopy"] /\ UNCHANGED got
                 ELSE scr' = Shown(row) /\ got' = {}

\* A draft is offered only on the version it was typed on.
Loaded ==
    /\ scr.at = "loading"
    /\ \E row \in got :
         IF draft.base = row.v
         THEN scr' = [Closed EXCEPT !.at = "askDraft"] /\ UNCHANGED got
         ELSE AskCopyOrShow(row)
    /\ UNCHANGED <<db, draft, copy>> /\ UNCHANGED calls /\ Rest

\* The quote of the draft is taken as it is, its own version with it; the
\* mark of the drafts to come and the print are those of the row loaded.
RestoreDraft ==
    /\ scr.at = "askDraft"
    /\ \E row \in got :
         scr' = [Shown(row) EXCEPT !.base = draft.own, !.text = draft.text,
                                   !.over = draft.over, !.dirty = TRUE]
    /\ got' = {}
    /\ UNCHANGED <<db, draft, copy>> /\ UNCHANGED calls /\ Rest

DeclineDraft ==
    /\ scr.at = "askDraft"
    /\ draft' = NoDraft
    /\ given' = draft.text \cap Mine
    /\ \E row \in got : AskCopyOrShow(row)
    /\ UNCHANGED <<db, copy, opens, faults, made, saved, swept>> /\ UNCHANGED calls

\* The copy goes on top of the version just loaded; it leaves the storage.
OpenCopy ==
    /\ scr.at = "askCopy"
    /\ \E row \in got, c \in copy :
         scr' = [Shown(row) EXCEPT !.text = c, !.over = row.text \ c, !.dirty = TRUE, !.bare = TRUE]
    /\ copy' = {} /\ got' = {}
    /\ UNCHANGED <<db, draft>> /\ UNCHANGED calls /\ Rest

DeclineCopy ==
    /\ scr.at = "askCopy"
    /\ scr' = [scr EXCEPT !.at = "askDrop"]
    /\ UNCHANGED <<db, draft, copy, got>> /\ UNCHANGED calls /\ Rest

DropOrKeepCopy(drop) ==
    /\ scr.at = "askDrop"
    /\ copy' = IF drop THEN {} ELSE copy
    /\ given' = IF drop THEN (UNION copy) \cap Mine ELSE {}
    /\ \E row \in got : scr' = Shown(row)
    /\ got' = {}
    /\ UNCHANGED <<db, draft, opens, faults, made, saved, swept>> /\ UNCHANGED calls

-----------------------------------------------------------------------------
(* Typing and the draft.                                                   *)

\* The grid is locked while a save is under way, and only then.
Type(e) ==
    /\ scr.at = "edit" /\ put = {} /\ e \in Mine \ made
    /\ scr' = [scr EXCEPT !.text = @ \cup {e}, !.dirty = TRUE, !.bare = FALSE, !.timer = ~scr.mute]
    /\ made' = made \cup {e}
    /\ UNCHANGED <<db, draft, copy, got, opens, faults, saved, swept>> /\ UNCHANGED calls /\ given' = {}

Written == [base |-> scr.nb, own |-> scr.base, text |-> scr.text, over |-> scr.over,
            newer |-> old # {}]

\* The timer of 1.2 s.  ok: there is room for the draft in the browser.
TimerFires(ok) ==
    /\ scr.at \in Working /\ scr.timer
    /\ draft' = IF ok THEN Written ELSE draft
    /\ scr' = [scr EXCEPT !.timer = FALSE, !.mute = ~ok]
    /\ UNCHANGED <<db, copy, got>> /\ UNCHANGED calls /\ Ghosts /\ Fault(~ok)

\* The page is hidden: the draft is written at once, and a failure is not told.
Hide(ok) ==
    /\ scr.at \in Working /\ scr.dirty /\ ~scr.mute
    /\ draft' = IF ok THEN Written ELSE draft
    /\ scr' = [scr EXCEPT !.timer = FALSE, !.bare = ~ok]
    /\ UNCHANGED <<db, copy, got>> /\ UNCHANGED calls /\ Ghosts /\ Fault(~ok)

-----------------------------------------------------------------------------
(* Saving.                                                                 *)

Call == [st |-> "sent", base |-> scr.base, text |-> scr.text, over |-> scr.over, deaf |-> FALSE]

\* Mutant: no lock while a save is under way.
SaveTwice ==
    /\ scr.at = "edit" /\ Calls < MaxCalls
    /\ put' = put \cup {Call}
    /\ UNCHANGED <<db, old, fetch, conv>> /\ UNCHANGED browser /\ Rest

Save ==
    /\ scr.at = "edit" /\ put = {} /\ Calls < MaxCalls
    /\ put' = {Call}
    /\ UNCHANGED <<db, old, fetch, conv>> /\ UNCHANGED browser /\ Rest

\* The server stores the text of a save whose version is the row's, and
\* refuses any other.  The pages are made anew, so the print changes.
Accept(p) ==
    /\ p.base = db.v /\ db.v < MaxVersion
    /\ db' = [v |-> db.v + 1, text |-> p.text, print |-> db.v + 1]
    /\ saved' = saved \cup (p.text \cap Mine)

Served(p) ==
    \/ Accept(p) /\ p.st = "sent"
    \/ p.st = "sent" /\ p.base # db.v /\ UNCHANGED <<db, saved>>

Answer(p) == [p EXCEPT !.st = IF p.base = db.v THEN "done" ELSE "refused",
                       !.base = IF p.base = db.v THEN db.v + 1 ELSE @]

ServeSave ==
    /\ \E p \in put : Served(p) /\ put' = {Answer(p)}
    /\ UNCHANGED <<old, fetch, conv, opens, faults, made, swept>> /\ UNCHANGED browser /\ given' = {}

ServeOldSave ==
    /\ \E p \in old : Served(p) /\ old' = {Answer(p)}
    /\ UNCHANGED <<put, fetch, conv, opens, faults, made, swept>> /\ UNCHANGED browser /\ given' = {}

\* The reload after a Hanoi action keeps the quote it began with: hn is what
\* that one held when the screen got another.
Detached == {IF f.same THEN [f EXCEPT !.same = FALSE, !.hn = HnOf(scr.text)] ELSE f : f \in fetch}

ReplySaved ==
    /\ scr.at = "edit"
    /\ \E p \in put :
         /\ p.st = "done"
         /\ scr' = [Shown([v |-> p.base, text |-> p.text, print |-> p.base]) EXCEPT !.mute = scr.mute]
    /\ put' = {} /\ draft' = NoDraft /\ fetch' = Detached
    /\ UNCHANGED <<db, copy, got, old, conv>> /\ Rest

\* The call or its answer is lost, or the server fails.
SaveFails ==
    /\ scr.at = "edit" /\ put # {}
    /\ put' = {}
    /\ UNCHANGED <<db, old, fetch, conv>> /\ UNCHANGED browser /\ Ghosts /\ Fault(TRUE)

\* Mutant: the copy of an earlier conflict is written over without asking.
ReplyConflictReplacing(ok) ==
    /\ scr.at = "edit"
    /\ \E p \in put : p.st = "refused"
    /\ scr' = [scr EXCEPT !.timer = FALSE, !.at = "askReload", !.kept = ok]
    /\ copy' = IF ok THEN {scr.text} ELSE copy
    /\ put' = {}
    /\ UNCHANGED <<db, draft, got, old, fetch, conv>> /\ Ghosts /\ Fault(~ok)

\* Somebody saved meanwhile: the screen is copied, unless a copy is there.
ReplyConflict(ok) ==
    /\ scr.at = "edit"
    /\ \E p \in put : p.st = "refused"
    /\ scr' = [scr EXCEPT !.timer = FALSE, !.kept = ok /\ copy = {},
                          !.at = IF copy = {} THEN "askReload" ELSE "askReplace"]
    /\ copy' = IF ok /\ copy = {} THEN {scr.text} ELSE copy
    /\ put' = {}
    /\ UNCHANGED <<db, draft, got, old, fetch, conv>> /\ Ghosts /\ Fault(~ok)

ReplaceCopy(yes, ok) ==
    /\ scr.at = "askReplace"
    /\ scr' = [scr EXCEPT !.at = "askReload", !.kept = yes /\ ok]
    /\ copy' = IF yes /\ ok THEN {scr.text} ELSE copy
    /\ given' = IF yes /\ ok THEN (UNION copy) \cap Mine ELSE {}
    /\ UNCHANGED <<db, draft, got, opens, made, saved, swept>> /\ UNCHANGED calls /\ Fault(yes /\ ~ok)

Deaf(ps) == {[p EXCEPT !.deaf = TRUE] : p \in ps}

\* Reload the page: what was not kept is lost, as the box says.
ReloadPage ==
    /\ scr.at = "askReload"
    /\ scr' = Closed
    /\ given' = IF scr.kept THEN {} ELSE scr.text \cap Mine
    /\ old' = Deaf(old) /\ fetch' = {} /\ conv' = {}
    /\ UNCHANGED <<db, draft, copy, got, put, opens, faults, made, saved, swept>>

\* Stay: the copy goes, the screen still has it all.
StayHere ==
    /\ scr.at = "askReload"
    /\ scr' = [scr EXCEPT !.at = "edit", !.kept = FALSE]
    /\ copy' = IF scr.kept THEN {} ELSE copy
    /\ UNCHANGED <<db, draft, got>> /\ UNCHANGED calls /\ Rest

-----------------------------------------------------------------------------
(* Leaving, closing, crashing.                                             *)

\* Another page of the application: unsaved work is given up in a box, and
\* its draft goes with it.  A save under way goes on without its editor.
Leave ==
    /\ scr.at \in Working /\ (put = {} \/ old = {})
    /\ draft' = IF scr.dirty THEN NoDraft ELSE [draft EXCEPT !.newer = FALSE]
    /\ given' = IF scr.dirty THEN scr.text \cap Mine ELSE {}
    /\ scr' = Closed
    /\ old' = old \cup put /\ put' = {} /\ fetch' = {} /\ conv' = {}
    /\ UNCHANGED <<db, copy, got, opens, faults, made, saved, swept>>

\* With the box of an opening still there: its answer is ignored later.
LeaveOpening ==
    /\ scr.at \in OpenBoxes \cup {"loading"}
    /\ scr' = Closed /\ got' = {}
    /\ UNCHANGED <<db, draft, copy>> /\ UNCHANGED calls /\ Rest

\* The tab is closed after the browser's own warning; the draft is written.
CloseTab(ok) ==
    /\ scr.at \in Working /\ (put = {} \/ old = {}) /\ (ok \/ (scr.dirty /\ ~scr.mute))
    /\ LET writes == scr.dirty /\ ~scr.mute /\ ok IN
         /\ draft' = IF writes THEN Written ELSE draft
         /\ given' = IF scr.dirty /\ ~(writes /\ scr.nb = db.v)
                     THEN scr.text \cap Mine ELSE {}
    /\ scr' = Closed
    /\ old' = Deaf(old \cup put) /\ put' = {} /\ fetch' = {} /\ conv' = {}
    /\ UNCHANGED <<db, copy, got, opens, made, saved, swept>> /\ Fault(~ok)

Crash ==
    /\ scr.at # "closed" /\ (put = {} \/ old = {})
    /\ scr' = Closed /\ got' = {}
    /\ old' = Deaf(old \cup put) /\ put' = {} /\ fetch' = {} /\ conv' = {}
    /\ UNCHANGED <<db, draft, copy>> /\ Ghosts /\ Fault(TRUE)

\* Mutant: the late answer clears whatever draft is there.
LateReplyClearing ==
    /\ \E p \in old :
         draft' = IF p.st = "done" /\ ~p.deaf THEN NoDraft ELSE draft
    /\ old' = {}
    /\ UNCHANGED <<db, copy, scr, got, put, fetch, conv>> /\ Rest

\* The answer for an editor that is gone clears only the draft it left.
LateReply ==
    /\ \E p \in old :
         draft' = IF p.st = "done" /\ ~p.deaf /\ ~draft.newer THEN NoDraft ELSE draft
    /\ old' = {}
    /\ UNCHANGED <<db, copy, scr, got, put, fetch, conv>> /\ Rest

-----------------------------------------------------------------------------
(* Hanoi actions and the close of the deal, from the open editor.          *)

NoRead == [read |-> FALSE, row |-> [v |-> 1, text |-> {}, print |-> 1], same |-> TRUE, hn |-> {}]

\* The Hanoi part is handed to somebody: a new version with the same text.
Assign ==
    /\ scr.at = "edit" /\ Calls < MaxCalls /\ fetch = {} /\ db.v < MaxVersion
    /\ db' = [db EXCEPT !.v = @ + 1]
    /\ fetch' = {NoRead}
    /\ UNCHANGED <<put, old, conv>> /\ UNCHANGED browser /\ Rest

\* A row of the Hanoi tables is reviewed: no new version.
Review ==
    /\ scr.at = "edit" /\ Calls < MaxCalls /\ fetch = {} /\ (scr.text \cap MyHn) \subseteq saved
    /\ fetch' = {NoRead}
    /\ UNCHANGED <<db, put, old, conv>> /\ UNCHANGED browser /\ Rest

Reread ==
    /\ \E f \in fetch : ~f.read /\ fetch' = {[f EXCEPT !.read = TRUE, !.row = db]}
    /\ UNCHANGED <<db, put, old, conv>> /\ UNCHANGED browser /\ Rest

\* Mutant: the new version is taken when the Hanoi tables are the same.
SameTextHnOnly(f) == (IF f.same THEN HnOf(scr.text) ELSE f.hn) = HnOf(f.row.text)

\* The new version is taken over only when nobody wrote the text meanwhile.
SameText(f) ==
    /\ (IF f.same THEN HnOf(scr.text) ELSE f.hn) = HnOf(f.row.text)
    /\ scr.print = f.row.print

\* A clean screen takes the server's quote; one with unsaved work keeps it.
TakeReread ==
    /\ scr.at \in Working
    /\ \E f \in fetch :
         /\ f.read
         /\ scr' = IF ~scr.dirty
                   THEN [Shown(f.row) EXCEPT !.at = scr.at, !.mute = scr.mute, !.kept = scr.kept]
                   ELSE IF SameText(f)
                   THEN [scr EXCEPT !.base = IF f.same THEN f.row.v ELSE @, !.nb = f.row.v, !.bare = TRUE]
                   ELSE scr
    /\ fetch' = {}
    /\ UNCHANGED <<db, draft, copy, got, put, old, conv, opens, faults, made, saved, swept>>
    /\ given' = {}

\* The deal is closed or lost: unsaved work is saved first.  The grid stays open.
Convert ==
    /\ scr.at = "edit" /\ ~scr.dirty /\ Calls < MaxCalls /\ conv = {}
    /\ conv' = {[read |-> FALSE, row |-> db]}
    /\ UNCHANGED <<db, put, old, fetch>> /\ UNCHANGED browser /\ Rest

ServeConvert ==
    /\ db.v < MaxVersion
    /\ \E c \in conv :
         /\ ~c.read
         /\ db' = [db EXCEPT !.v = @ + 1, !.print = db.v + 1]
         /\ conv' = {[read |-> TRUE, row |-> db']}
    /\ UNCHANGED <<put, old, fetch>> /\ UNCHANGED browser /\ Rest

\* The answer replaces the screen, with what was typed since the question.
ReplyConvert ==
    /\ scr.at \in Working
    /\ \E c \in conv :
         /\ c.read
         /\ scr' = [scr EXCEPT !.base = c.row.v, !.nb = c.row.v, !.text = c.row.text,
                               !.print = c.row.print, !.over = {}, !.bare = scr.dirty]
         /\ swept' = swept \cup ((scr.text \ c.row.text) \cap Mine)
    /\ conv' = {} /\ fetch' = Detached
    /\ UNCHANGED <<db, draft, copy, got, put, old, opens, faults, made, saved>>
    /\ given' = {}

ConvertFails ==
    /\ conv # {} /\ conv' = {}
    /\ UNCHANGED <<db, put, old, fetch>> /\ UNCHANGED browser /\ Ghosts /\ Fault(TRUE)

-----------------------------------------------------------------------------
(* The others.                                                             *)

TheySave(e) ==
    /\ db.v < MaxVersion /\ e \in (TheirMain \cup TheirHn) \ db.text
    /\ db' = [v |-> db.v + 1, text |-> db.text \cup {e},
              print |-> IF e \in TheirMain THEN db.v + 1 ELSE db.print]
    /\ UNCHANGED browser /\ UNCHANGED calls /\ Rest

TheyTouch ==
    /\ db.v < MaxVersion
    /\ db' = [db EXCEPT !.v = @ + 1]
    /\ UNCHANGED browser /\ UNCHANGED calls /\ Rest

-----------------------------------------------------------------------------

Next ==
    \/ Open \/ Loaded \/ RestoreDraft \/ DeclineDraft \/ OpenCopy \/ DeclineCopy
    \/ \E e \in Mine : Type(e)
    \/ \E ok \in BOOLEAN : \/ DropOrKeepCopy(ok) \/ TimerFires(ok) \/ Hide(ok)
                           \/ ReplyConflict(ok) \/ CloseTab(ok)
    \/ Save \/ ServeSave \/ ServeOldSave \/ ReplySaved \/ SaveFails
    \/ \E yes, ok \in BOOLEAN : ReplaceCopy(yes, ok)
    \/ ReloadPage \/ StayHere \/ Leave \/ LeaveOpening \/ Crash \/ LateReply
    \/ Assign \/ Review \/ Reread \/ TakeReread
    \/ Convert \/ ServeConvert \/ ReplyConvert \/ ConvertFails
    \/ \E e \in TheirMain \cup TheirHn : TheySave(e)
    \/ TheyTouch

Spec == Init /\ [][Next]_vars

-----------------------------------------------------------------------------
(* Properties.                                                             *)

\* Types of the variables.  There is one call of each kind at most, and a
\* loaded quote waits only while an editor is opening.
TypeOK ==
    /\ db \in Rows
    /\ {draft.base, draft.own} \subseteq 0..MaxVersion /\ draft.text \in Texts
    /\ Cardinality(copy) <= 1 /\ copy \subseteq Texts
    /\ scr.at \in {"closed", "loading"} \cup OpenBoxes \cup Working
    /\ \A s \in {got, put, old, fetch, conv} : Cardinality(s) <= 1
    /\ got \subseteq Rows /\ (got # {} <=> scr.at \in {"loading"} \cup OpenBoxes)
    /\ (put # {} => scr.at = "edit") /\ (fetch \cup conv # {} => scr.at \in Working)

\* Where work that a person typed can be found again: on the screen, in the
\* conflict copy, in a draft that the next opening will offer, or on the server.
Kept == scr.text \cup (UNION copy) \cup (IF draft.base = db.v THEN draft.text ELSE {}) \cup saved

\* Work in the editor is lost only when the user gave it up in a box that
\* said so, when the tab crashed (see DraftBacksScreen), when the row changed
\* under a draft of an editor no longer open, which the code drops unasked, or
\* when the answer to closing a deal swept it away (see NothingTypedIsLost).
WorkKept ==
    [][ \/ ((Kept \ Kept') \cap Mine) \subseteq given' \cup swept'
        \/ Crash
        \/ db' # db /\ scr.at \notin Working ]_vars

\* Text of the server that a save of this user removes is text the user was
\* told about: the save was built on the version it replaces, or on the
\* conflict copy, which the box says will overwrite the other's changes.  A
\* draft is restored on the version it was typed on, whatever its mark.
NoUnseenOverwrite ==
    [][ (db.text \ db'.text) \subseteq UNION {p.over : p \in put \cup old} ]_vars

\* "The mark of the draft must follow the version of the server just saved"
\* (QuoteEditor.tsx:924).  The code does not keep this for a reload that began
\* before the answer to a save and ends after it: it marks the quote it began
\* with, which is no longer on the screen, and the drafts to come.  A save of
\* such a draft is refused, as if somebody had saved (README, section 12).
MarkFollowsScreen == scr.at \in Working => scr.nb = scr.base

\* Once the timer ran, unsaved work on the screen is in a draft that an
\* opening would offer, while the row is unchanged.  `bare` marks the moments
\* where the code leaves it out: a conflict copy just opened, a version just
\* taken over after a Hanoi action, an answer to closing the deal, and a
\* draft that had no room when the page was hidden.
DraftBacksScreen ==
    scr.at = "edit" /\ scr.dirty /\ ~scr.timer /\ ~scr.mute /\ ~scr.bare /\ scr.base = db.v
      => draft.base = db.v /\ draft.text = scr.text

\* Saving before the deal is closed leaves nothing to lose
\* (QuoteEditor.tsx:994): what its answer takes off the screen is kept.
NothingTypedIsLost == swept \subseteq Kept

=============================================================================

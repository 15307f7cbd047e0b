----------------------------- MODULE HanoiCosts -----------------------------
(***************************************************************************)
(* The Hanoi cost rows of one quote (Quote.hnTables): the account who was  *)
(* assigned fills them in, managers review them row by row, the editor of  *)
(* the quote saves them too, and the accountants record which rows were    *)
(* paid (InputInvoiceEntry).  src/hnWorkflow.ts, src/hnDuyetHang.ts,       *)
(* src/khoanChi.ts and services/inputInvoiceService.ts.                    *)
(*                                                                         *)
(* A writer of the rows locks the Quote row first, reads, and writes: one  *)
(* action, since nothing it reads can change before it commits.  What it   *)
(* checked before the lock is an action of its own.  An accountant holds   *)
(* the Quote row FOR SHARE only, so several run at once, and takes the     *)
(* entry FOR UPDATE: those transactions are modelled statement by          *)
(* statement.                                                              *)
(*                                                                         *)
(* Abstractions.  A row is its rid, its amount (which stands for every     *)
(* field in the fingerprint of a row) and its review state; the rids are   *)
(* present and unique.  Members, notes, VAT invoices and the other fields  *)
(* an accountant writes are left out.  Whether the quote may be edited and *)
(* baseUpdatedAt are in QuoteLifecycle.                                    *)
(***************************************************************************)
EXTENDS Integers, FiniteSets, Functions

CONSTANTS
    Req,            \* the requests, each served once
    User,
    Fillers,        \* users with quote:hn:fill
    Editors,        \* users who may update the quote
    Managers,       \* editors with quote:hn:manage who are not account phu
    Payers,         \* users with invoice:input:pay
    Rid, Amount,
    Revs,           \* subset of BOOLEAN: TRUE = the account sends baseHnRev
    MaxProofs,      \* TRAN_ANH_MOI_KHOAN
    Kinds,          \* which handlers the requests call
    InitStates,     \* review states rows may start in
    NoOne,          \* hnAssigneeId is NULL
    NoAmount,       \* paidSnapshot is NULL
    Keep            \* the field is absent from the body

RowState == {"dang-lam", "cho-duyet", "da-duyet", "tra-lai"}
Legacy == "legacy"          \* a row stored before the states were kept per row
PartStatus == {"null", "assigned", "submitted", "approved", "rejected"}
OldMark == {"none", "paid", "image"}     \* the frozen JSON flags of a row
NoProof == 0
First == CHOOSE a \in Amount : TRUE      \* the amount of a new row

ASSUME PeopleAssumption ==
    /\ Fillers \subseteq User /\ Editors \subseteq User
    /\ Managers \subseteq Editors /\ Payers \subseteq User
    /\ NoOne \notin User
ASSUME CostAssumption ==
    /\ Amount \subseteq Nat /\ Amount # {} /\ NoAmount \notin Nat
    /\ Revs \subseteq BOOLEAN /\ MaxProofs \in Nat \ {0}
    /\ InitStates \subseteq RowState \cup {Legacy}
    /\ Kinds \subseteq {"fill", "save", "submit", "review", "assign", "delete", "pay"}
    /\ Keep \notin BOOLEAN

VARIABLES
    part,       \* Quote.hnStatus, hnAssigneeId, deletedAt
    rows,       \* Quote.hnTables: the rows, by rid
    entries,    \* InputInvoiceEntry, by rid
    pc, req,
    screen,     \* the rows as the client of a request loaded them
    taken,      \* what an accounting transaction read
    pending     \* whether it inserted the entry itself, not committed yet

db   == <<part, rows, entries>>
vars == <<db, pc, req, screen, taken, pending>>

(***************************************************************************)
(* Row states: a row without one derives it from the whole part.           *)
(***************************************************************************)
FromPart(status) ==
    CASE status = "approved"  -> "da-duyet"
      [] status = "submitted" -> "cho-duyet"
      [] status = "rejected"  -> "tra-lai"
      [] OTHER                -> "dang-lam"

StateOf(r) == IF rows[r].state = Legacy THEN FromPart(part.status) ELSE rows[r].state

Materialised == [r \in DOMAIN rows |-> [rows[r] EXCEPT !.state = StateOf(r)]]

(* tomTatHn: hnStatus as the summary of the rows; `empty` when there is none. *)
HasLegacy(table) == \E r \in DOMAIN table : table[r].state = Legacy
States(table) ==
    {IF table[r].state = Legacy THEN FromPart("null") ELSE table[r].state : r \in DOMAIN table}

SummaryRaw(table, assigned, empty) ==     \* defect: a row state not translated
    IF "cho-duyet" \in States(table) THEN "cho-duyet" ELSE empty

Summary(table, assigned, empty) ==
    LET found == States(table) IN
    CASE found = {}                                     -> empty
      [] "cho-duyet" \in found                          -> "submitted"
      [] found \cap {"cho-duyet", "tra-lai"} = {"tra-lai"} -> "rejected"
      [] found = {"da-duyet"}                           -> "approved"
      [] OTHER -> IF assigned THEN "assigned" ELSE "null"

(* KT-3: the entry decides whether a row is paid; without one, the old flag. *)
Paid(r) ==
    IF r \in DOMAIN entries THEN entries[r].paid
    ELSE r \in DOMAIN rows /\ rows[r].old = "paid"

VersionOf(r) == IF r \in DOMAIN entries THEN entries[r].version ELSE 0

(* gieoKhoan: the entry made from the old flags of a row.                  *)
SeedOf(old) ==
    [paid |-> old = "paid", amount |-> NoAmount, version |-> 0,
     proof |-> IF old = "paid" THEN 1 ELSE NoProof,
     made |-> IF old = "none" THEN 0 ELSE 1,
     live |-> IF old = "paid" THEN {1} ELSE {}]

(***************************************************************************)
(* Initial states: a part filled before or after the states were kept per  *)
(* row, with or without accounting entries.                                *)
(***************************************************************************)
NoRequest == [kind |-> "none", user |-> NoOne, payload |-> <<>>, rev |-> FALSE,
              act |-> "none", rids |-> {}, to |-> NoOne, base |-> 0,
              rid |-> NoOne, paid |-> Keep, proof |-> Keep]
NothingTaken == [there |-> FALSE, amount |-> NoAmount, approved |-> FALSE,
                 entry |-> SeedOf("none")]

StartEntries(old) ==
    {SeedOf(old), [SeedOf("none") EXCEPT !.paid = TRUE, !.version = 1, !.amount = First]}

Init ==
    /\ \E S \in SUBSET Rid, old \in OldMark :
          /\ rows \in [S -> [amount : {First}, state : InitStates, old : {old}]]
          /\ \E T \in SUBSET S : entries \in [T -> StartEntries(old)]
    /\ HasLegacy(rows) => \A r \in DOMAIN rows : rows[r].state = Legacy
    /\ \E who \in Fillers \cup {NoOne}, status \in PartStatus :
          /\ part = [status |-> status, assignee |-> who, deleted |-> FALSE]
          /\ IF rows = <<>> \/ HasLegacy(rows) THEN (status = "null") = (who = NoOne)
             ELSE status = Summary(rows, who # NoOne, "null")
    /\ pc = [p \in Req |-> "idle"]
    /\ req = [p \in Req |-> NoRequest]
    /\ screen = [p \in Req |-> <<>>]
    /\ taken = [p \in Req |-> NothingTaken]
    /\ pending = [p \in Req |-> FALSE]

(***************************************************************************)
(* Requests.                                                               *)
(***************************************************************************)
Final == {"ok", "refused"}
PayTx == {"seeding", "seeded", "locked"}

Finish(p, result) ==
    /\ pc' = [pc EXCEPT ![p] = result]
    /\ screen' = [screen EXCEPT ![p] = <<>>]
    /\ taken' = [taken EXCEPT ![p] = NothingTaken]
    /\ pending' = [pending EXCEPT ![p] = FALSE]
    /\ req' = [req EXCEPT ![p] = NoRequest]

RollBack(p) == Finish(p, "refused") /\ UNCHANGED db

(* The rows on the screen of a user, with the states presentQuote shows.   *)
Open(p) ==
    /\ pc[p] = "idle" /\ Kinds \cap {"fill", "save", "review"} # {}
    /\ ~part.deleted
    /\ pc' = [pc EXCEPT ![p] = "open"]
    /\ \E u \in User : req' = [req EXCEPT ![p].user = u]
    /\ screen' = [screen EXCEPT ![p] = Materialised]
    /\ UNCHANGED <<db, taken, pending>>

(* The handler's first read: the checks before any lock.                   *)
Send(p, r, allowed) ==
    IF allowed /\ ~part.deleted
    THEN /\ req' = [req EXCEPT ![p] = r]
         /\ pc' = [pc EXCEPT ![p] = "sent"]
         /\ UNCHANGED <<db, screen, taken, pending>>
    ELSE RollBack(p)

(* What a client sends back: the rows it loaded, one repriced, one left    *)
(* out, or one more, whose rid the client chooses.                         *)
EditsOf(same) ==
    {same} \cup {[same EXCEPT ![r] = a] : r \in DOMAIN same, a \in Amount}
       \cup {Restrict(same, DOMAIN same \ {r}) : r \in DOMAIN same}
       \cup {[x \in DOMAIN same \cup {r} |-> IF x = r THEN First ELSE same[x]]
                : r \in Rid \ DOMAIN same}
PayloadsOf(table) == EditsOf([r \in DOMAIN table |-> table[r].amount])

SendFill(p) ==
    /\ pc[p] = "open" /\ "fill" \in Kinds /\ req[p].user \in Fillers
    /\ \E pl \in PayloadsOf(screen[p]), b \in Revs :
          Send(p, [req[p] EXCEPT !.kind = "fill", !.payload = pl, !.rev = b],
               part.assignee = req[p].user)

SendSave(p) ==
    /\ pc[p] = "open" /\ "save" \in Kinds /\ req[p].user \in Editors
    /\ \E pl \in PayloadsOf(screen[p]) :
          Send(p, [req[p] EXCEPT !.kind = "save", !.payload = pl], TRUE)

(* A review names rows, or none: then it is about every pending row.       *)
SendReview(p) ==
    /\ pc[p] = "open" /\ "review" \in Kinds /\ req[p].user \in Managers
    /\ \E act \in {"duyet", "tra", "bo-duyet"}, rids \in SUBSET DOMAIN screen[p] :
          Send(p, [req[p] EXCEPT !.kind = "review", !.act = act, !.rids = rids],
               /\ part.assignee # req[p].user
               /\ act = "bo-duyet" => rids # {})

SendFrom(p, kind, people, r, allowed(_)) ==
    /\ pc[p] = "idle" /\ kind \in Kinds
    /\ \E u \in people :
          Send(p, [r EXCEPT !.kind = kind, !.user = u], allowed(u))

SendSubmit(p) ==
    \E rids \in SUBSET Rid :
        SendFrom(p, "submit", Fillers, [NoRequest EXCEPT !.act = "gui", !.rids = rids],
                 LAMBDA u : part.assignee = u)

SendAssign(p) ==
    \E who \in Fillers :
        SendFrom(p, "assign", Managers, [NoRequest EXCEPT !.to = who], LAMBDA u : TRUE)

SendDelete(p) == SendFrom(p, "delete", Editors, NoRequest, LAMBDA u : TRUE)

(***************************************************************************)
(* The writers of the rows: one transaction under the Quote row lock.      *)
(***************************************************************************)
ShareIgnored(p) == TRUE              \* defect: entries written without FOR SHARE
NoShare(p) == \A q \in Req : pc[q] \notin PayTx

Writes(p, kind) == pc[p] = "sent" /\ req[p].kind = kind /\ NoShare(p)

(* What a save refuses: a paid row left out, or repriced by someone who is *)
(* not an accountant, and a locked row changed or left out.                *)
RepricedByFlag(p) ==                 \* defect: the old flag, not the entry
    /\ req[p].user \notin Payers
    /\ \E r \in DOMAIN rows \cap DOMAIN req[p].payload :
          rows[r].old = "paid" /\ req[p].payload[r] # rows[r].amount
Repriced(p) ==
    /\ req[p].user \notin Payers
    /\ \E r \in DOMAIN rows \cap DOMAIN req[p].payload :
          Paid(r) /\ req[p].payload[r] # rows[r].amount

PaidLost(p) == \E r \in DOMAIN rows \ DOMAIN req[p].payload : Paid(r)

KeptAsLoaded(p, r) ==                \* defect: the state the client loaded
    IF r \in DOMAIN screen[p] THEN screen[p][r].state ELSE StateOf(r)
Kept(p, r) == StateOf(r)

LockedLost(p, locked) ==
    \E r \in DOMAIN rows :
        /\ Kept(p, r) \in locked
        /\ \/ r \notin DOMAIN req[p].payload
           \/ req[p].payload[r] # rows[r].amount

(* reconcileTrangThaiHn: a row keeps its stored state and old flags; a new *)
(* one is being worked on.                                                 *)
Merged(p) ==
    [r \in DOMAIN req[p].payload |->
        IF r \in DOMAIN rows
        THEN [rows[r] EXCEPT !.amount = req[p].payload[r], !.state = Kept(p, r)]
        ELSE [amount |-> req[p].payload[r], state |-> "dang-lam", old |-> "none"]]

SaveRows(p, locked, empty) ==
    IF Repriced(p) \/ PaidLost(p) \/ LockedLost(p, locked)
    THEN RollBack(p)
    ELSE /\ rows' = Merged(p)
         /\ part' = [part EXCEPT !.status =
                        Summary(rows', part.assignee # NoOne, empty)]
         /\ UNCHANGED entries
         /\ Finish(p, "ok")

(* hnRev, the fingerprint of the rows without their rids.                  *)
Content(table) == [a \in Amount |-> Cardinality({r \in DOMAIN table : table[r].amount = a})]

CommitFill(p) ==
    /\ Writes(p, "fill")
    /\ IF \/ part.deleted \/ part.assignee # req[p].user
          \/ req[p].rev /\ Content(screen[p]) # Content(rows)
       THEN RollBack(p)
       ELSE SaveRows(p, {"da-duyet", "cho-duyet"}, "assigned")

CommitSave(p) ==
    /\ Writes(p, "save")
    /\ SaveRows(p, IF req[p].user \in Managers THEN {"da-duyet"}
                   ELSE {"da-duyet", "cho-duyet"},
                IF part.assignee = NoOne THEN "null" ELSE "assigned")

(* apThaoTacHangHn: the rows an operation applies to, and their new state. *)
Eligible(act, chosen) ==
    CASE act = "gui"      -> {"dang-lam", "tra-lai"}
      [] act = "duyet"    -> IF chosen THEN RowState \ {"da-duyet"} ELSE {"cho-duyet"}
      [] act = "tra"      -> IF chosen THEN {"cho-duyet", "da-duyet"} ELSE {"cho-duyet"}
      [] act = "bo-duyet" -> IF chosen THEN {"da-duyet"} ELSE {}

TargetState(act) ==
    CASE act = "gui" -> "cho-duyet" [] act = "duyet" -> "da-duyet"
      [] act = "tra" -> "tra-lai"   [] act = "bo-duyet" -> "dang-lam"

Acted(act, rids) ==
    {r \in DOMAIN rows : /\ rids # {} => r \in rids
                         /\ StateOf(r) \in Eligible(act, rids # {})}

(* A part without rows keeps the rule of the whole part.                   *)
EmptyAllowed(act) ==
    \/ act = "gui" /\ part.status \in {"assigned", "rejected"}
    \/ act \in {"duyet", "tra"} /\ part.status = "submitted"

EmptyStatus(act) ==
    CASE act = "gui" -> "submitted" [] act = "duyet" -> "approved" [] OTHER -> "rejected"

ChangeStates(p) ==
    LET act == req[p].act
        hit == Acted(act, req[p].rids)
    IN IF part.deleted \/ (IF rows = <<>> THEN ~EmptyAllowed(act) ELSE hit = {})
       THEN RollBack(p)
       ELSE /\ rows' = [r \in DOMAIN rows |->
                           IF r \in hit THEN [rows[r] EXCEPT !.state = TargetState(act)]
                           ELSE Materialised[r]]
            /\ part' = [part EXCEPT !.status =
                          Summary(rows', part.assignee # NoOne, EmptyStatus(act))]
            /\ UNCHANGED entries
            /\ Finish(p, "ok")

CommitSubmit(p) ==
    /\ Writes(p, "submit")
    /\ IF part.assignee # req[p].user THEN RollBack(p) ELSE ChangeStates(p)

AnyReviewer(p) == TRUE               \* defect: not checked again under the lock
MayReview(p) == part.assignee # req[p].user

CommitReview(p) ==
    /\ Writes(p, "review")
    /\ IF MayReview(p) THEN ChangeStates(p) ELSE RollBack(p)

(* Assigning again: the rows of the old kind get their states first.  A    *)
(* quote deleted in between is not found, but the update still reaches it. *)
AssignedAsBefore == rows             \* defect: vatChatHoaHn missing
AssignedRows == IF part.deleted THEN rows ELSE Materialised
AssignedAlways == "assigned"         \* defect: the status of the whole part
AssignedStatus ==
    IF part.deleted THEN "assigned" ELSE Summary(AssignedRows, TRUE, "assigned")

CommitAssign(p) ==
    /\ Writes(p, "assign")
    /\ rows' = AssignedRows
    /\ part' = [part EXCEPT !.assignee = req[p].to, !.status = AssignedStatus]
    /\ UNCHANGED entries
    /\ Finish(p, "ok")

CommitDelete(p) ==
    /\ Writes(p, "delete")
    /\ IF part.deleted \/ \E r \in Rid : Paid(r)
       THEN RollBack(p)
       ELSE /\ part' = [part EXCEPT !.deleted = TRUE]
            /\ UNCHANGED <<rows, entries>>
            /\ Finish(p, "ok")

(***************************************************************************)
(* ghiKhoanChi: an accountant changes the entry of one row.                *)
(***************************************************************************)
OpenPage(p) ==
    /\ pc[p] = "idle" /\ "pay" \in Kinds
    /\ \E r \in DOMAIN rows \cup DOMAIN entries,
          paid \in {TRUE, FALSE, Keep}, proof \in {"new", "drop", Keep} :
          /\ paid # Keep \/ proof # Keep
          /\ req' = [req EXCEPT ![p] = [NoRequest EXCEPT !.kind = "pay", !.rid = r,
                         !.base = VersionOf(r), !.paid = paid, !.proof = proof]]
    /\ pc' = [pc EXCEPT ![p] = "page"]
    /\ UNCHANGED <<db, screen, taken, pending>>

(* Quote FOR SHARE, then the row.  A row not approved takes an accounting  *)
(* change only if it has an entry or an old mark already.                  *)
TakeShare(p) ==
    LET r == req[p].rid
        there == r \in DOMAIN rows
        approved == there /\ StateOf(r) = "da-duyet"
        known == r \in DOMAIN entries
    IN /\ pc[p] = "page"
       /\ IF \/ part.deleted
             \/ ~there /\ ~known
             \/ there /\ ~approved /\ ~known /\ rows[r].old = "none"
          THEN RollBack(p)
          ELSE /\ pc' = [pc EXCEPT ![p] = IF known THEN "seeded" ELSE "seeding"]
               /\ taken' = [taken EXCEPT ![p].there = there, ![p].approved = approved,
                              ![p].amount = IF there THEN rows[r].amount ELSE NoAmount]
               /\ UNCHANGED <<db, req, screen, pending>>

(* INSERT ... ON CONFLICT DO NOTHING: waits for another transaction that   *)
(* inserted the same entry and has not ended.                              *)
Seed(p) ==
    /\ pc[p] = "seeding"
    /\ \A q \in Req : pending[q] => req[q].rid # req[p].rid
    /\ pc' = [pc EXCEPT ![p] = "seeded"]
    /\ pending' = [pending EXCEPT ![p] = req[p].rid \notin DOMAIN entries]
    /\ UNCHANGED <<db, req, screen, taken>>

EntryNotLocked(p) == TRUE            \* defect: SELECT without FOR UPDATE
EntryFree(p) ==
    \A q \in Req \ {p} : ~(pc[q] = "locked" /\ req[q].rid = req[p].rid)

LockEntry(p) ==
    /\ pc[p] = "seeded" /\ EntryFree(p)
    /\ pc' = [pc EXCEPT ![p] = "locked"]
    /\ taken' = [taken EXCEPT ![p].entry =
                   IF pending[p] THEN SeedOf(rows[req[p].rid].old)
                   ELSE entries[req[p].rid]]
    /\ UNCHANGED <<db, req, screen, pending>>

(* rutAnh: the current proof goes to the history.                          *)
NotRetired(e) == [e EXCEPT !.proof = NoProof]     \* defect: still current
Retire(e) == [e EXCEPT !.proof = NoProof, !.live = @ \ {e.proof}]

Ticked(p, e) ==
    CASE req[p].paid = TRUE             -> [e EXCEPT !.paid = TRUE, !.amount = taken[p].amount]
      [] req[p].paid = FALSE /\ e.paid -> [Retire(e) EXCEPT !.paid = FALSE, !.amount = NoAmount]
      [] OTHER                          -> e

Proven(p, e) ==
    CASE req[p].proof = "new" ->
            LET n == e.made + 1 IN
            [Retire(e) EXCEPT !.made = n, !.proof = n, !.live = @ \cup {n}]
      [] req[p].proof = "drop" /\ e.proof # NoProof -> Retire(e)
      [] OTHER -> e

MayPay(p) ==
    LET e == taken[p].entry IN
    /\ e.version = req[p].base
    /\ req[p].paid = TRUE => taken[p].there /\ (e.paid \/ taken[p].approved)
    /\ req[p].proof = "new" =>
          taken[p].there /\ Ticked(p, e).paid /\ e.made < MaxProofs

CommitPay(p) ==
    /\ pc[p] = "locked"
    /\ IF ~MayPay(p)
       THEN RollBack(p)
       ELSE LET r == req[p].rid
                e == [Proven(p, Ticked(p, taken[p].entry)) EXCEPT !.version = @ + 1]
            IN /\ entries' = [x \in DOMAIN entries \cup {r} |->
                                 IF x = r THEN e ELSE entries[x]]
               /\ UNCHANGED <<part, rows>>
               /\ Finish(p, "ok")

(* A transaction of several statements fails between two of them.          *)
FailPay(p) == pc[p] \in PayTx /\ RollBack(p)

Served(p) == pc[p] \in Final \/ (part.deleted /\ pc[p] \in {"idle", "open"})
AllServed == (\A p \in Req : Served(p)) /\ UNCHANGED vars

Request(p) ==
    \/ Open(p) \/ SendFill(p) \/ SendSave(p) \/ SendReview(p) \/ SendSubmit(p)
    \/ SendAssign(p) \/ SendDelete(p)
    \/ CommitFill(p) \/ CommitSave(p) \/ CommitSubmit(p) \/ CommitReview(p)
    \/ CommitAssign(p) \/ CommitDelete(p)

Account(p) ==
    \/ OpenPage(p) \/ TakeShare(p) \/ Seed(p) \/ LockEntry(p) \/ CommitPay(p)
    \/ FailPay(p)

Next == AllServed \/ \E p \in Req : Request(p) \/ Account(p)

Spec == Init /\ [][Next]_vars

-----------------------------------------------------------------------------
Row == [amount : Amount, state : RowState \cup {Legacy}, old : OldMark]
Entry == [paid : BOOLEAN, amount : Amount \cup {NoAmount}, version : Nat,
          proof : Nat, made : Nat, live : SUBSET Nat]

(* Shape of the state; the status of the part is one of the five words the *)
(* lists know.                                                             *)
TypeOK ==
    /\ part \in [status : PartStatus, assignee : User \cup {NoOne}, deleted : BOOLEAN]
    /\ DOMAIN rows \subseteq Rid /\ rows \in [DOMAIN rows -> Row]
    /\ DOMAIN entries \subseteq Rid /\ entries \in [DOMAIN entries -> Entry]
    /\ pc \in [Req -> {"idle", "open", "sent", "page"} \cup PayTx \cup Final]
    /\ pending \in [Req -> BOOLEAN]

Does(p, kind) == pc[p] = "sent" /\ req[p].kind = kind /\ pc'[p] = "ok"

(* KT-4: a row that is paid stays in the quote, and the quote out of the   *)
(* recycle bin, while an accountant ticks it and others save or delete.    *)
PaidRowStays ==
    [][\A r \in Rid : Paid(r) \/ Paid(r)' => r \in DOMAIN rows' /\ ~part'.deleted]_vars

(* The amount of a paid row only changes by a save of someone who may tick.*)
PaidAmountKept ==
    [][\A r \in DOMAIN rows \cap DOMAIN rows' :
          Paid(r) /\ rows'[r].amount # rows[r].amount =>
             \E p \in Req : (Does(p, "fill") \/ Does(p, "save")) /\ req[p].user \in Payers]_vars

(* What an accountant records as paid is the amount of a row that is in    *)
(* the quote and, when it was not paid before, approved at that moment.    *)
PaidAsApproved ==
    [][\A r \in DOMAIN entries' :
          entries'[r].paid /\ ~Paid(r) =>
             /\ r \in DOMAIN rows' /\ StateOf(r)' = "da-duyet"
             /\ entries'[r].amount = rows'[r].amount]_vars

(* A review state changes by a submission or a review that is about the    *)
(* row, and by nothing else: no save and no new assignment resets it, not  *)
(* even that of a row which had none of its own.                           *)
ReviewStateKept ==
    [][\A r \in DOMAIN rows \cap DOMAIN rows' :
          ~part.deleted /\ StateOf(r)' # StateOf(r) =>
             \E p \in Req : /\ Does(p, "submit") \/ Does(p, "review")
                            /\ req[p].rids # {} => r \in req[p].rids]_vars

(* KT-5: an approved row is neither changed nor removed by anybody, a      *)
(* pending one only by a manager's save, whatever was on the screen.       *)
LockedRowKept ==
    [][\A r \in DOMAIN rows :
          r \notin DOMAIN rows' \/ rows'[r].amount # rows[r].amount =>
             /\ StateOf(r) # "da-duyet"
             /\ StateOf(r) = "cho-duyet" =>
                   \E p \in Req : Does(p, "save") /\ req[p].user \in Managers]_vars

(* hnStatus is the summary of the rows, whichever handler wrote last.      *)
SummaryMatches ==
    rows # <<>> /\ ~HasLegacy(rows) /\ ~part.deleted =>
        part.status = Summary(rows, part.assignee # NoOne, "null")

(* Nobody reviews the part while it is assigned to them, not even when it  *)
(* is assigned to them after the handler looked.                           *)
NoSelfApproval ==
    [][\A p \in Req : Does(p, "review") => part.assignee # req[p].user]_vars

(* Two accountants on one row: the second never overwrites what the first  *)
(* wrote after the second loaded the page.                                 *)
NoLostEntry ==
    [][\A p \in Req : pc[p] = "locked" /\ pc'[p] = "ok" =>
          VersionOf(req[p].rid) = req[p].base]_vars

(* The current proof is the only one of its entry that is not retired, and *)
(* an entry that is not paid has none.                                     *)
ProofsConsistent ==
    \A r \in DOMAIN entries :
        /\ entries[r].live = {entries[r].proof} \ {NoProof}
        /\ ~entries[r].paid => entries[r].proof = NoProof

(* Of two managers who saw the same pending row, the second to decide does *)
(* not overwrite the decision of the first.  The code does not keep this   *)
(* when the rows are named (README, section 12).                           *)
ReviewNotOverwritten ==
    [][\A p \in Req, r \in DOMAIN rows :
          /\ Does(p, "review") /\ req[p].act \in {"duyet", "tra"}
          /\ r \in DOMAIN screen[p] /\ screen[p][r].state = "cho-duyet"
          /\ StateOf(r) \in {"da-duyet", "tra-lai"}
          => StateOf(r)' = StateOf(r)]_vars

(* A review stands: nothing but a review or a submission about the row     *)
(* changes its state, nobody reviews their own part, and a row under       *)
(* review or approved does not change under it.                            *)
ReviewStands == ReviewStateKept /\ LockedRowKept /\ NoSelfApproval

(* A payment stands: its row stays in the quote at the amount paid, and    *)
(* was approved when it was paid.                                          *)
PaidStands == PaidRowStays /\ PaidAmountKept /\ PaidAsApproved

(* An entry is what the accountants wrote, one after the other, proofs     *)
(* included.                                                               *)
EntryIsRecord == []ProofsConsistent /\ NoLostEntry
=============================================================================

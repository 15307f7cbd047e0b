---------------------------- MODULE InvoiceSplit ----------------------------
(***************************************************************************)
(* The pages of one closed quote, split into invoices: the split and the   *)
(* redo of the quote's owner (src/src/invoiceSplit.ts,                     *)
(* src/src/services/invoiceSplitService.ts), the accountant's invoice and  *)
(* payment fields, the customer's decision, the close of the deal and the  *)
(* editor's save (src/src/services/quoteService.ts), and the dialog that   *)
(* previews a split (src/web/src/lib/hoaDonChia.ts).                       *)
(*                                                                         *)
(* Every writer locks the QuoteSheet rows first and reads them under the   *)
(* lock, so each is one action.  The save is two: it decides that the      *)
(* quote may be edited before its transaction starts.                      *)
(*                                                                         *)
(* The shared invoice fields are two here: the invoice number, for those a *)
(* redo clears, and the day of payment, for those it keeps.                *)
(***************************************************************************)
EXTENDS Naturals, Sequences, FiniteSets, SequencesExt

CONSTANTS
    Numbers,     \* invoice numbers the accountant may type
    Days,        \* days of payment
    None,        \* the field is empty
    MaxGroup,    \* largest invoice number of a split (99 in the code)
    FirstPages,  \* pages of the quote at the start
    MaxPages,    \* bound of the model: pages of the quote
    MaxCode      \* bound of the model: page codes ever given

ASSUME SplitAssumption ==
    /\ None \notin Numbers \cup Days
    /\ MaxGroup \in Nat /\ FirstPages \in 1..MaxPages /\ MaxPages \in Nat
    /\ MaxCode \in Nat /\ FirstPages =< MaxCode

VARIABLES
    pages,    \* the QuoteSheet rows, in display order
    seq,      \* Quote.sheetCodeSeq, the highest page code given
    status,   \* Quote.status
    editor    \* a save that has passed canEdit and not reached its transaction,
              \* and whether it read a status it will set back to draft

vars == <<pages, seq, status, editor>>

Holds == {"none", "later", "skip"}
Pages == [code: 1..MaxCode, group: 0..MaxGroup, hold: Holds,
          no: Numbers \cup {None}, paid: Days \cup {None}, rejected: BOOLEAN]
Closed == "converted"
Statuses == {"draft", "sent", Closed}
Editors == {"away", "saves", "reopens"}

NewPage(c) == [code |-> c, group |-> 0, hold |-> "none", no |-> None, paid |-> None,
               rejected |-> FALSE]

Init ==
    /\ pages = [i \in 1..FirstPages |-> NewPage(i)]
    /\ seq = FirstPages
    /\ status \in {"draft", "sent"}
    /\ editor = "away"

-----------------------------------------------------------------------------
(* The rules of invoiceSplit.ts.  An invoice of a quote that is not split  *)
(* is one page; of a split quote, the pages of one group.                  *)
IsSplit(ps) == \E i \in DOMAIN ps : ps[i].group # 0 \/ ps[i].hold # "none"

KeyOf(page, split) ==
    IF ~split THEN <<"sheet", page.code>>
    ELSE IF page.hold = "skip" THEN <<"skip", 0>>
    ELSE IF page.hold = "later" \/ page.group = 0 THEN <<"later", 0>>
    ELSE <<"group", page.group>>
Key(ps, i) == KeyOf(ps[i], IsSplit(ps))

Held(ps, i) == Key(ps, i)[1] \in {"skip", "later"}
Grouped(ps, i) == Key(ps, i)[1] = "group"
InvoiceNumber(ps, i) == Key(ps, i)[2]
Together(ps, i) ==
    LET split == IsSplit(ps)
        key == KeyOf(ps[i], split)
    IN {j \in DOMAIN ps : KeyOf(ps[j], split) = key}

(* A page the customer refused is in no invoice while nothing was issued   *)
(* or paid for it.                                                         *)
Hidden(p) == p.rejected /\ p.no = None /\ p.paid = None
Counted(ps, i) == {j \in Together(ps, i) : ~Hidden(ps[j])}

Invoiced == \E i \in DOMAIN pages : pages[i].no # None

-----------------------------------------------------------------------------
(* apDungChiaTrongTx: what a split may do to pages that went out.          *)
Mark(g, h) == [group |-> g, hold |-> h]
FullSplits == [n \in 1..MaxPages |->
    [1..n -> {Mark(g, "none") : g \in 1..MaxGroup} \cup {Mark(0, "later"), Mark(0, "skip")}]]
Splits == [n \in 1..MaxPages |-> FullSplits[n] \cup {[i \in 1..n |-> Mark(0, "none")]}]

Marked(ps, split) ==
    [i \in DOMAIN ps |-> [ps[i] EXCEPT !.group = split[i].group, !.hold = split[i].hold]]

IssuedKept(old, new) ==
    \A i \in DOMAIN old : old[i].no # None /\ ~Held(old, i) =>
        /\ Counted(new, i) = Counted(old, i)
        /\ InvoiceNumber(new, i) = InvoiceNumber(old, i)

PaidNotHeld(new) == \A i \in DOMAIN new : new[i].paid # None => ~Held(new, i)

OneDay(new) ==
    \A i \in DOMAIN new : ~Held(new, i) =>
        Cardinality({new[j].paid : j \in Counted(new, i)}) =< 1

\* Mutant: the set of pages of an issued invoice is not compared.
AllowedWithNumber(old, new) ==
    /\ \A i \in DOMAIN old : old[i].no # None /\ ~Held(old, i) =>
          InvoiceNumber(new, i) = InvoiceNumber(old, i)
    /\ PaidNotHeld(new) /\ OneDay(new)

Allowed(old, new) == IssuedKept(old, new) /\ PaidNotHeld(new) /\ OneDay(new)

(* The first value that is not empty, in display order, goes to every page *)
(* of the invoice.                                                         *)
FirstGiven(values) ==
    LET given == {j \in DOMAIN values : values[j] # None}
    IN IF given = {} THEN None ELSE values[Min(given)]

Merged(ps) ==
    [i \in DOMAIN ps |->
        LET C == Counted(ps, i) IN
        IF Grouped(ps, i) /\ i \in C
        THEN [ps[i] EXCEPT !.no = FirstGiven([j \in C |-> ps[j].no]),
                           !.paid = FirstGiven([j \in C |-> ps[j].paid])]
        ELSE ps[i]]

\* Mutant: a paid page may be left for later.
DivideUnpaid(split) ==
    LET new == Marked(pages, split)
    IN IssuedKept(pages, new) /\ OneDay(new) /\ pages' = Merged(new)

\* Mutant: the days of payment are not compared.
DivideAnyDay(split) ==
    LET new == Marked(pages, split)
    IN IssuedKept(pages, new) /\ PaidNotHeld(new) /\ pages' = Merged(new)

Divide(split) ==
    LET new == Marked(pages, split)
    IN Allowed(pages, new) /\ pages' = Merged(new)

(* PUT /:id/invoice-split, by the owner. *)
Split(split) ==
    /\ status = Closed
    /\ Divide(split)
    /\ UNCHANGED <<seq, status, editor>>

(* markConverted, with a split in the same transaction or without.         *)
Close ==
    /\ status # Closed
    /\ status' = Closed
    /\ \/ UNCHANGED pages
       \/ \E split \in Splits[Len(pages)] : Divide(split)
    /\ UNCHANGED <<seq, editor>>

-----------------------------------------------------------------------------
(* updateSheetInvoice: the fields typed on one page go to every page of    *)
(* its invoice the customer has not refused.                               *)
\* Mutant: only the page itself is written.
RecipientItself(i) == {i}

Recipients(i) ==
    {i} \cup IF Grouped(pages, i)
             THEN {j \in Together(pages, i) : ~pages[j].rejected} ELSE {}

WriteNumber(i, n) ==
    /\ status = Closed /\ ~Held(pages, i)
    /\ pages' = [j \in DOMAIN pages |->
                    IF j \in Recipients(i) THEN [pages[j] EXCEPT !.no = n] ELSE pages[j]]
    /\ UNCHANGED <<seq, status, editor>>

WritePaid(i, d) ==
    /\ status = Closed /\ ~Held(pages, i)
    /\ pages' = [j \in DOMAIN pages |->
                    IF j \in Recipients(i) THEN [pages[j] EXCEPT !.paid = d] ELSE pages[j]]
    /\ UNCHANGED <<seq, status, editor>>

(* POST /:id/invoice-redo: the whole invoice loses its number. *)
Redo(i) ==
    /\ status = Closed
    /\ \E j \in Together(pages, i) : pages[j].no # None
    /\ pages' = [j \in DOMAIN pages |->
                    IF j \in Together(pages, i) THEN [pages[j] EXCEPT !.no = None]
                    ELSE pages[j]]
    /\ UNCHANGED <<seq, status, editor>>

(* setSheetCustomerDecision, refused under the lock once a page has a      *)
(* number.                                                                 *)
Decide(i, rejected) ==
    /\ ~Invoiced
    /\ pages' = [pages EXCEPT ![i].rejected = rejected]
    /\ UNCHANGED <<seq, status, editor>>

-----------------------------------------------------------------------------
(* updateQuote: canEdit and the status are those of the first read.  A     *)
(* client that sends the updatedAt it read is refused after a close; the   *)
(* model keeps the client that does not, whose saves do everything the     *)
(* other's do.                                                             *)
OpenSave ==
    /\ editor = "away" /\ ~Invoiced
    /\ editor' = IF status = "sent" THEN "reopens" ELSE "saves"
    /\ UNCHANGED <<pages, seq, status>>

(* The stored page each page of the payload is, or 0 for a new one: the    *)
(* pages as they were, without one of them, or with one more.  A save that *)
(* does several of these is several saves here; that a save may also turn  *)
(* the pages round is in QuoteLifecycle.                                   *)
Carries ==
    LET same == [k \in DOMAIN pages |-> k]
        without(i) == [k \in 1..(Len(pages) - 1) |-> IF k < i THEN k ELSE k + 1]
    IN {same}
       \cup (IF Len(pages) > 1 THEN {without(i) : i \in DOMAIN pages} ELSE {})
       \cup (IF Len(pages) < MaxPages THEN {Append(same, 0)} ELSE {})

\* Mutant: a new page is numbered by its place.
CodeByPlace(carry, k) == IF carry[k] # 0 THEN pages[carry[k]].code ELSE k

CodeOf(carry, k) ==
    IF carry[k] # 0 THEN pages[carry[k]].code
    ELSE seq + Cardinality({j \in 1..k : carry[j] = 0})

(* A renumbering is refused once anything of the quote went out. *)
MayRenumber == \A i \in DOMAIN pages : pages[i].no = None /\ pages[i].paid = None

Carried(carry, k, code) ==
    IF carry[k] = 0 THEN NewPage(code) ELSE [pages[carry[k]] EXCEPT !.code = code]

Save(carry, renumber) ==
    /\ editor # "away" /\ (renumber => MayRenumber)
    /\ pages' = [k \in DOMAIN carry |->
                    Carried(carry, k, IF renumber THEN k ELSE CodeOf(carry, k))]
    /\ seq' = IF renumber THEN Len(carry)
              ELSE seq + Cardinality({k \in DOMAIN carry : carry[k] = 0})
    /\ seq' =< MaxCode
    /\ status' = IF editor = "reopens" THEN "draft" ELSE status
    /\ editor' = "away"

Saves == \E carry \in Carries, renumber \in BOOLEAN : Save(carry, renumber)

Next ==
    \/ \E split \in Splits[Len(pages)] : Split(split)
    \/ Close
    \/ \E i \in DOMAIN pages :
          \/ \E n \in Numbers \cup {None} : WriteNumber(i, n)
          \/ \E d \in Days \cup {None} : WritePaid(i, d)
          \/ Redo(i)
          \/ \E r \in BOOLEAN : Decide(i, r)
    \/ OpenSave
    \/ Saves

Spec == Init /\ [][Next]_vars

-----------------------------------------------------------------------------
(* The dialog (hoaDonChia.ts): what it shows for a choice, what it sends. *)
Selections == FullSplits[Len(pages)]

IsDefault(ps, choice) ==
    \A i \in DOMAIN ps :
        \/ choice[i] = Mark(ps[i].code, "none")
        \/ Hidden(ps[i]) /\ choice[i] = Mark(0, "skip")

Previewed(ps, choice) ==
    LET in == {i \in DOMAIN ps : ~Hidden(ps[i]) /\ choice[i].group # 0}
    IN {<<choice[i].group, {j \in in : choice[j].group = choice[i].group}>> : i \in in}

\* Mutant: the default sends nothing, split or not.
SentUnlessDefault(ps, choice) == IF IsDefault(ps, choice) THEN ps ELSE Marked(ps, choice)

Sent(ps, choice) ==
    IF ~IsDefault(ps, choice) THEN Marked(ps, choice)
    ELSE IF IsSplit(ps) THEN Marked(ps, [i \in DOMAIN ps |-> Mark(0, "none")]) ELSE ps

-----------------------------------------------------------------------------
(* Properties.                                                             *)

(* Every variable keeps its shape, and the codes of the pages differ.      *)
TypeOK ==
    /\ pages \in Seq(Pages) /\ Len(pages) \in 1..MaxPages
    /\ \A i, j \in DOMAIN pages : pages[i].code = pages[j].code => i = j
    /\ \A i \in DOMAIN pages : pages[i].code =< seq /\ (pages[i].group = 0 \/ pages[i].hold = "none")
    /\ seq \in 0..MaxCode /\ status \in Statuses
    /\ editor \in Editors

(* A page left for later or never to be invoiced carries neither an        *)
(* invoice number nor a day of payment: nothing that went out or came in   *)
(* disappears into the two boxes (rule (a) of invoiceSplitService.ts).     *)
HeldIsIdle ==
    \A i \in DOMAIN pages : Held(pages, i) => pages[i].no = None /\ pages[i].paid = None

(* The pages of one invoice the customer has not refused carry one         *)
(* invoice number, whatever splits, redos, decisions and saves came        *)
(* between two writes of it.                                               *)
NumberShared ==
    \A i, j \in DOMAIN pages :
        /\ Grouped(pages, i) /\ j \in Together(pages, i)
        /\ ~pages[i].rejected /\ ~pages[j].rejected
        => pages[i].no = pages[j].no

(* What the dialog shows for a choice is what the accountant sees and what *)
(* the server groups once the choice is stored.                            *)
PreviewIsStored ==
    \A choice \in Selections :
        LET new == Sent(pages, choice) IN
        Allowed(pages, new) =>
            {<<InvoiceNumber(new, i), Counted(new, i)>> :
                i \in {k \in DOMAIN new : ~Held(new, k) /\ ~Hidden(new[k])}}
            = Previewed(pages, choice)

(* An invoice that has a number stands: no split of the quote, no second   *)
(* close, no work on another invoice and no save gives it another number   *)
(* in the code or another page, and none but a save takes a page from it.  *)
CodesOf(ps, S) == {ps[i].code : i \in S}
InvoiceStands(i, k) ==
    /\ InvoiceNumber(pages', k) = InvoiceNumber(pages, i)
    /\ CodesOf(pages', Counted(pages', k))
         = CodesOf(pages, Counted(pages, i)) \cap CodesOf(pages', DOMAIN pages')
    /\ CodesOf(pages, Counted(pages, i)) \subseteq CodesOf(pages', DOMAIN pages') \/ Saves
WorkOn(i) ==
    \E j \in Together(pages, i) :
        Redo(j) \/ (\E n \in Numbers \cup {None} : WriteNumber(j, n))
                \/ (\E d \in Days \cup {None} : WritePaid(j, d))
IssuedStands ==
    [][\A i \in DOMAIN pages, k \in DOMAIN pages' :
          pages[i].no # None /\ pages[i].code = pages'[k].code
          => InvoiceStands(i, k) \/ WorkOn(i)]_vars

(* The recorded payment of a page changes only when somebody types a day   *)
(* of payment on its invoice: a split never copies a payment to a page     *)
(* nobody was paid for, and neither it nor a redo, a close or a save loses *)
(* one of a page that stays.                                               *)
PaymentStands ==
    [][\A i \in DOMAIN pages, k \in DOMAIN pages' :
          pages[i].code = pages'[k].code /\ pages[i].paid # pages'[k].paid
          => \E j \in Together(pages, i), d \in Days \cup {None} : WritePaid(j, d)]_vars

(* updateSheetInvoice: one invoice has one number and is paid once.  The   *)
(* code does not keep this for a paid page that is refused (README,        *)
(* section 12).                                                            *)
OneInvoice ==
    \A i, j \in DOMAIN pages :
        Grouped(pages, i) /\ i \in Counted(pages, j) /\ j \in Counted(pages, i)
        => pages[i].no = pages[j].no /\ pages[i].paid = pages[j].paid

(* What went out and what came in stands, whatever is split, redone,       *)
(* decided or saved afterwards, and under one number for all its pages.    *)
BooksStand == IssuedStands /\ PaymentStands /\ []HeldIsIdle /\ []NumberShared
=============================================================================

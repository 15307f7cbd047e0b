----------------------------- MODULE SerialQuote -----------------------------
(***************************************************************************)
(* What the handlers of one quote promise together: every request is       *)
(* answered once, and one that succeeds does all it does at one moment, to *)
(* the quote as it is then, its checks of the status included, as if no    *)
(* other request were running.  There are no locks, no reads before the    *)
(* write and no stamps here.                                               *)
(*                                                                         *)
(* The checks that are left out are those the code does not make at that   *)
(* moment (README, section 12): that a page has an invoice, by a save or a *)
(* header edit; that the quote is in the bin, by the customer's decision,  *)
(* the close and the loss.                                                 *)
(***************************************************************************)
EXTENDS Integers, Sequences

CONSTANTS
    Req,                        \* the requests
    Keep,                       \* a field that is not in the payload
    Nothing,                    \* the request of somebody who has not asked
    Carry(_, _),                \* payload, rows: the row each page stands for
    Codes(_, _, _),             \* carry, rows, mark: the code each page gets
    Rows(_, _, _, _, _),        \* the rows a save makes
    Amount(_, _)                \* rows, VAT: the total

VARIABLES
    status, vat, deleted, mark, \* the quote, its highest code ever
    total,
    rows,                       \* the pages, by row id
    next,                       \* the next row id
    asked,                      \* what each request asks
    answer                      \* its outcome, or "open"

quote == <<status, vat, deleted, mark, total, rows, next>>
vars  == <<quote, asked, answer>>

Closed    == {"converted", "lost"}
Pipeline  == {"pending", "approved", "sent"}
Editable  == {"draft", "rejected"}
HasNumber == \E i \in DOMAIN rows : rows[i].inv

Init ==
    /\ ~deleted
    /\ asked = [p \in Req |-> Nothing]
    /\ answer = [p \in Req |-> "open"]

\* The handler's first checks passed: what p asks does not change any more.
Ask(p) ==
    /\ answer[p] = "open" /\ asked[p].kind = "none" /\ ~deleted
    /\ asked' = [asked EXCEPT ![p] = asked'[p]]
    /\ UNCHANGED <<quote, answer>>

Answer(p, a) ==
    /\ answer[p] = "open"
    /\ answer' = [answer EXCEPT ![p] = a]
    /\ asked' = [asked EXCEPT ![p] = Nothing]

\* A request that is refused or fails has changed nothing.
GiveUp(p) ==
    /\ Answer(p, "refused") \/ Answer(p, "failed")
    /\ UNCHANGED quote

May(right) == right \/ status \in Editable
Reopened   == IF status \in Pipeline THEN "draft" ELSE status

NewCodes(r) == r.renumber /\ ~HasNumber
NewRows(r) ==
    LET carry == Carry(r.payload, rows)
    IN Rows(r.payload, carry, IF NewCodes(r) THEN [k \in DOMAIN carry |-> k]
                              ELSE Codes(carry, rows, mark), rows, next)

Highest(n, S) == n \in S /\ \A m \in S : m =< n

Save(p) ==
    LET r == asked[p]
        new == NewRows(r)
    IN /\ r.kind = "save" /\ ~deleted /\ May(r.right)
       /\ rows' = new
       /\ next' = next + Len(r.payload)
       /\ vat' = IF r.vat = Keep THEN vat ELSE r.vat
       /\ total' = Amount(new, vat')
       /\ status' = Reopened
       /\ IF NewCodes(r) THEN mark' = Len(r.payload)
          ELSE Highest(mark', {mark} \cup {new[j].code : j \in DOMAIN new})
       /\ UNCHANGED deleted
       /\ Answer(p, "ok")

EditHead(p) ==
    LET r == asked[p]
    IN /\ r.kind = "head" /\ ~deleted /\ May(r.right)
       /\ IF r.vat = Keep THEN UNCHANGED <<vat, total, status>>
          ELSE vat' = r.vat /\ total' = Amount(rows, r.vat) /\ status' = Reopened
       /\ UNCHANGED <<deleted, mark, rows, next>>
       /\ Answer(p, "ok")

WritePage(p, kind, field, value) ==
    LET i == asked[p].target
    IN /\ asked[p].kind = kind /\ i \in DOMAIN rows
       /\ rows' = [rows EXCEPT ![i] = [@ EXCEPT ![field] = value]]
       /\ UNCHANGED <<status, vat, deleted, mark, total, next>>
       /\ Answer(p, "ok")

Decide(p)  == ~HasNumber /\ WritePage(p, "decide", "cust", asked[p].value)
Invoice(p) == /\ status = "converted" /\ ~deleted
              /\ WritePage(p, "invoice", "inv", asked[p].value = "set")
Sign(p)    == /\ status = "converted" /\ ~deleted
              /\ WritePage(p, "sign", "signed", asked[p].value = "set")

Close(p, kind, outcome) ==
    /\ asked[p].kind = kind /\ status \notin Closed
    /\ status' = outcome
    /\ UNCHANGED <<vat, deleted, mark, total, rows, next>>
    /\ Answer(p, "ok")

Delete(p) ==
    /\ asked[p].kind = "delete" /\ ~deleted
    /\ status # "converted" /\ May(asked[p].right)
    /\ deleted' = TRUE
    /\ UNCHANGED <<status, vat, mark, total, rows, next>>
    /\ Answer(p, "ok")

Next == \E p \in Req :
    \/ Ask(p) \/ GiveUp(p)
    \/ Save(p) \/ EditHead(p)
    \/ Decide(p) \/ Invoice(p) \/ Sign(p)
    \/ Close(p, "convert", "converted") \/ Close(p, "lost", "lost")
    \/ Delete(p)

Spec == Init /\ [][Next]_vars
=============================================================================

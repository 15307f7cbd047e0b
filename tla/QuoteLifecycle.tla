--------------------------- MODULE QuoteLifecycle ---------------------------
(***************************************************************************)
(* One quote (bao gia) and the handlers of src/services/quoteService.ts    *)
(* that write it, run by concurrent HTTP requests against PostgreSQL in    *)
(* READ COMMITTED.  A handler reads the quote outside any transaction,     *)
(* checks what it read, opens a transaction, locks the QuoteSheet rows in  *)
(* id order, then (a save) the Quote row, reads again, and commits.        *)
(*                                                                         *)
(* A save deletes every sheet row and creates new ones.  A SELECT ... FOR  *)
(* UPDATE that waited for a row which was then deleted locks nothing in    *)
(* its place: the new rows are not in the statement's snapshot.  The model *)
(* keeps row locks one by one for that reason.                             *)
(*                                                                         *)
(* Abstractions.  A page is its net price, the customer's decision, the    *)
(* invoice number and signature as flags, and its code number; a total is  *)
(* net * (100 + VAT percent), the rounding of src/money.ts left out.       *)
(* Every write of updatedAt gives a new stamp (two writes in the same      *)
(* millisecond are not distinguished by the code).  INCREMENTAL_QUOTE_SAVE *)
(* is off, its default.                                                    *)
(***************************************************************************)
EXTENDS Integers, FiniteSets, Sequences, FiniteSetsExt, Functions

CONSTANTS
    Req,            \* the requests, each served once
    Kinds,          \* which handlers the requests call
    Bases,          \* subset of BOOLEAN: TRUE = the client sends baseUpdatedAt
    Senders,        \* subset of BOOLEAN: whether the user holds quote:send
    Edits,          \* what the editor does to the page list before a save
    Prices,         \* net prices a page may have
    Vats,           \* VAT percentages
    VatEdits,       \* VAT percentages a save or a header edit sends, or Keep
    Renumbers,      \* subset of BOOLEAN: TRUE = the save asks danhLaiMaSheet
    InitPages,      \* number of pages at the start
    InitStatus,     \* statuses the quote may start in
    Keep,           \* the field is absent from the payload
    NoReq,          \* nobody holds the Quote row
    NoTotal         \* convertedTotal is NULL

Status == {"draft", "pending", "approved", "sent", "rejected", "converted", "lost"}
Terminal == {"converted", "lost"}
Decision == {"none", "approved", "rejected"}
NewPage == 0        \* a payload page without an id
NoBase == 0         \* the client sent no baseUpdatedAt

ASSUME KindsAssumption ==
    Kinds \subseteq {"save", "head", "decide", "invoice", "sign", "convert",
                     "lost", "delete"}
ASSUME EditsAssumption ==
    Edits \subseteq {"reprice", "append", "replace", "copy", "reverse", "noIds"}
ASSUME ChoiceAssumption ==
    /\ Bases \subseteq BOOLEAN /\ Senders \subseteq BOOLEAN
    /\ Renumbers \subseteq BOOLEAN
ASSUME DataAssumption ==
    /\ Prices \subseteq Nat /\ Prices # {} /\ Vats \subseteq Nat /\ Vats # {}
    /\ Keep \notin Nat /\ NoTotal \notin Nat /\ VatEdits \subseteq Vats \cup {Keep}
    /\ InitPages \in Nat \ {0} /\ InitStatus \subseteq Status
    /\ NoReq \notin Req

VARIABLES
    quote,          \* the Quote row
    total,          \* Quote.total
    convertedTotal, \* Quote.convertedTotal
    sheets,         \* the QuoteSheet rows, by id
    nextId,         \* the next QuoteSheet id the database gives
    history,        \* QuoteVersion: version number -> total
    issued,         \* every <<code, page>> ever given (history of codeNo)
    quoteLock,      \* the request that holds the Quote row lock
    pc, req, loaded, seen, fresh, want, held   \* per request

db    == <<quote, total, convertedTotal, sheets, nextId, history, issued>>
locks == <<quoteLock, want, held>>
local == <<req, loaded, seen, fresh>>
vars  == <<db, locks, pc, local>>

(***************************************************************************)
(* Pages and money.                                                        *)
(***************************************************************************)
NthSmallest(S, k) == CHOOSE x \in S : Cardinality({y \in S : y =< x}) = k
InOrder(S) == [k \in 1..Cardinality(S) |-> NthSmallest(S, k)]

PriceList(pages) == [i \in DOMAIN pages |-> pages[i].price]
TotalOf(pages, vat) == SumFunction(PriceList(pages)) * (100 + vat)
ConvertedTotalOf(pages, vat) ==
    TotalOf(RestrictValues(pages, LAMBDA s : s.cust # "rejected"), vat)

Invoiced(pages) == \E i \in DOMAIN pages : pages[i].inv

(***************************************************************************)
(* What the editor sends: the pages it loaded, in order, after one edit.   *)
(***************************************************************************)
PayloadOf(edit, pages, price) ==
    LET ids  == InOrder(DOMAIN pages)
        n    == Len(ids)
        same == [k \in 1..n |-> [id |-> ids[k], price |-> pages[ids[k]]]]
        new  == [id |-> NewPage, price |-> price]
    IN CASE edit = "reprice" -> [same EXCEPT ![1].price = price]
         [] edit = "append"  -> Append(same, new)
         [] edit = "replace" -> Append(Tail(same), new)
         [] edit = "copy"    -> Append(same, same[1])
         [] edit = "reverse" -> [k \in 1..n |-> same[n + 1 - k]]
         [] edit = "noIds"   -> [k \in 1..n |-> [id |-> NewPage, price |-> price]]

(***************************************************************************)
(* carrySheetState: the stored page each payload page stands for, or       *)
(* NewPage.  By id, each stored page once; a payload with no id at all is  *)
(* matched by position when it has as many pages.                          *)
(***************************************************************************)
CarryById(payload, pages) ==     \* defect: no match by position
    [k \in DOMAIN payload |->
        IF /\ payload[k].id \in DOMAIN pages
           /\ \A j \in 1..(k - 1) : payload[j].id # payload[k].id
        THEN payload[k].id ELSE NewPage]

CarryFrom(payload, pages) ==
    IF \E k \in DOMAIN payload : payload[k].id # NewPage
    THEN CarryById(payload, pages)
    ELSE IF Len(payload) = Cardinality(DOMAIN pages)
         THEN InOrder(DOMAIN pages)
         ELSE [k \in DOMAIN payload |-> NewPage]

(* capSoMaSheet: a carried page keeps its code, a new page takes the next  *)
(* one above both the high-water mark and every code still in use.         *)
CodesAfterLast(carry, pages, seq) ==   \* defect: no high-water mark
    LET kept == {k \in DOMAIN carry : carry[k] # NewPage}
        last == Max({0} \cup {pages[carry[k]].code : k \in kept})
    IN [k \in DOMAIN carry |->
          IF k \in kept THEN pages[carry[k]].code
          ELSE last + Cardinality(1..k \ kept)]

CodesFor(carry, pages, seq) ==
    LET kept == {k \in DOMAIN carry : carry[k] # NewPage}
        mark == Max({seq} \cup {pages[carry[k]].code : k \in kept})
    IN [k \in DOMAIN carry |->
          IF k \in kept THEN pages[carry[k]].code
          ELSE mark + Cardinality(1..k \ kept)]

(* buildSheetsCreate: the rows a save creates, ids from `first` on.        *)
RecreatedSheets(payload, carry, codes, pages, first) ==
    [i \in first..(first + Len(payload) - 1) |->
        LET k == i - first + 1 IN
        IF carry[k] = NewPage
        THEN [page |-> i, price |-> payload[k].price, cust |-> "none",
              inv |-> FALSE, signed |-> FALSE, code |-> codes[k]]
        ELSE [pages[carry[k]] EXCEPT !.price = payload[k].price,
                                     !.code = codes[k]]]

CodesOf(pages) == {<<pages[i].code, pages[i].page>> : i \in DOMAIN pages}

(***************************************************************************)
(* Initial states: a quote just created, or one already in the status.     *)
(***************************************************************************)
NoRequest == [kind |-> "none", target |-> NewPage, value |-> "none",
              payload |-> <<>>, vat |-> Keep, base |-> NoBase,
              renumber |-> FALSE, right |-> FALSE]
NothingLoaded == [pages |-> <<>>, vat |-> Keep]
NothingSeen   == [status |-> "draft", seq |-> 0]
NothingRead   == [sheets |-> <<>>, status |-> "draft", vat |-> Keep, won |-> FALSE]

Init ==
    /\ sheets = [i \in 1..InitPages |->
                   [page |-> i, price |-> Min(Prices), cust |-> "none",
                    inv |-> FALSE, signed |-> FALSE, code |-> i]]
    /\ \E st \in InitStatus :
          /\ quote = [status |-> st, vat |-> Min(Vats), updatedAt |-> 1,
                      deleted |-> FALSE, version |-> 1, seq |-> InitPages]
          /\ total = TotalOf(sheets, Min(Vats))
          /\ convertedTotal \in (IF st = "converted" THEN {total, NoTotal}
                                                    ELSE {NoTotal})
    /\ nextId = InitPages + 1
    /\ history = [v \in {1} |-> total]
    /\ issued = CodesOf(sheets)
    /\ quoteLock = NoReq
    /\ pc = [p \in Req |-> "idle"]
    /\ req = [p \in Req |-> NoRequest]
    /\ loaded = [p \in Req |-> NothingLoaded]
    /\ seen = [p \in Req |-> NothingSeen]
    /\ fresh = [p \in Req |-> NothingRead]
    /\ want = [p \in Req |-> {}]
    /\ held = [p \in Req |-> {}]

(***************************************************************************)
(* A request ends: its transaction commits or rolls back, its locks go.    *)
(***************************************************************************)
Final == {"ok", "refused", "failed"}
InTx  == {"rows", "quote", "read", "erase", "commit"}

FinishKeepingQuote(p, result) ==   \* defect: the Quote row is never released
    /\ pc' = [pc EXCEPT ![p] = result]
    /\ want' = [want EXCEPT ![p] = {}]
    /\ held' = [held EXCEPT ![p] = {}]
    /\ UNCHANGED <<quoteLock, req, loaded, seen, fresh>>

Finish(p, result) ==
    /\ pc' = [pc EXCEPT ![p] = result]
    /\ quoteLock' = IF quoteLock = p THEN NoReq ELSE quoteLock
    /\ want' = [want EXCEPT ![p] = {}]
    /\ held' = [held EXCEPT ![p] = {}]
    /\ req' = [req EXCEPT ![p] = NoRequest]
    /\ loaded' = [loaded EXCEPT ![p] = NothingLoaded]
    /\ seen' = [seen EXCEPT ![p] = NothingSeen]
    /\ fresh' = [fresh EXCEPT ![p] = NothingRead]

RollBack(p, result) == Finish(p, result) /\ UNCHANGED db

(***************************************************************************)
(* The handler's first read and its checks, outside any transaction.       *)
(***************************************************************************)
Submit(p, r, allowed, phase) ==
    IF allowed /\ ~quote.deleted
    THEN /\ req' = [req EXCEPT ![p] = r]
         /\ seen' = [seen EXCEPT ![p] = [status |-> quote.status, seq |-> quote.seq]]
         /\ pc' = [pc EXCEPT ![p] = phase]
         /\ UNCHANGED <<db, locks, loaded, fresh>>
    ELSE RollBack(p, "refused")

(* canEdit: nobody once a page has an invoice number; without quote:send,  *)
(* only a draft or a returned quote.                                       *)
CanEdit(right) ==
    ~Invoiced(sheets) /\ (right \/ quote.status \in {"draft", "rejected"})

BaseMatches(r) == r.base = NoBase \/ r.base = quote.updatedAt

Load(p) ==
    /\ pc[p] = "idle" /\ Kinds \cap {"save", "head"} # {}
    /\ ~quote.deleted
    /\ pc' = [pc EXCEPT ![p] = "editing"]
    /\ loaded' = [loaded EXCEPT ![p] = [pages |-> PriceList(sheets), vat |-> quote.vat]]
    /\ \E b \in Bases : req' = [req EXCEPT
            ![p] = [NoRequest EXCEPT !.base = IF b THEN quote.updatedAt ELSE NoBase]]
    /\ UNCHANGED <<db, locks, seen, fresh>>

ArriveSave(p) ==
    /\ pc[p] = "editing" /\ "save" \in Kinds
    /\ \E e \in Edits, price \in Prices, v \in VatEdits, n \in Renumbers, s \in Senders :
          LET r == [req[p] EXCEPT !.kind = "save", !.vat = v, !.renumber = n, !.right = s,
                    !.payload = PayloadOf(e, loaded[p].pages, price)]
          IN Submit(p, r, CanEdit(s) /\ BaseMatches(r), "arrived")

ArriveHead(p) ==
    /\ pc[p] = "editing" /\ "head" \in Kinds
    /\ \E v \in VatEdits, s \in Senders :
          LET r == [req[p] EXCEPT !.kind = "head", !.vat = v, !.right = s]
          IN Submit(p, r, CanEdit(s) /\ BaseMatches(r),
                    IF v = Keep THEN "commit" ELSE "arrived")

(* The three routes that write one page.  An invoice number and a         *)
(* signature are for a quote read as converted.                            *)
OnePage(p, kind, values, allowed, phase) ==
    /\ pc[p] = "idle" /\ kind \in Kinds
    /\ \E i \in DOMAIN sheets, v \in values :
          Submit(p, [NoRequest EXCEPT !.kind = kind, !.target = i, !.value = v],
                 allowed, phase)

ArriveDecide(p)  == OnePage(p, "decide", Decision, TRUE, "arrived")
ArriveInvoice(p) == OnePage(p, "invoice", {"set", "clear"},
                            quote.status = "converted", "arrived")
ArriveSign(p)    == OnePage(p, "sign", {"set", "clear"},
                            quote.status = "converted", "commit")

WholeQuote(p, kind, phase) ==
    /\ pc[p] = "idle" /\ kind \in Kinds
    /\ Submit(p, [NoRequest EXCEPT !.kind = kind], quote.status \notin Terminal, phase)

ArriveConvert(p) == WholeQuote(p, "convert", "arrived")
ArriveLost(p)    == WholeQuote(p, "lost", "commit")

(* The right of a delete is quote:delete:all; without it the owner deletes *)
(* a draft or a returned quote only.                                       *)
MayDelete(right) ==
    /\ quote.status # "converted"
    /\ right \/ quote.status \in {"draft", "rejected"}

ArriveDelete(p) ==
    /\ pc[p] = "idle" /\ "delete" \in Kinds
    /\ \E s \in Senders :
          Submit(p, [NoRequest EXCEPT !.kind = "delete", !.right = s],
                 MayDelete(s), "commit")

(***************************************************************************)
(* Row locks: SELECT id FROM "QuoteSheet" ... ORDER BY id FOR UPDATE.      *)
(* The statement sees the rows of its snapshot (want) and takes them in id *)
(* order; one deleted meanwhile is skipped, and its successor is not seen. *)
(***************************************************************************)
NotLocked(i, p) == TRUE              \* defect: FOR UPDATE missing
RowFree(i, p) == \A q \in Req \ {p} : i \notin held[q]
QuoteFree(p) == quoteLock \in {NoReq, p}
NextRowUnordered(p) ==               \* defect: a save without ORDER BY id
    IF req[p].kind = "save" THEN Max(want[p] \cap DOMAIN sheets)
                            ELSE Min(want[p] \cap DOMAIN sheets)
NextRow(p) == Min(want[p] \cap DOMAIN sheets)

StartWithoutRows(p) ==               \* defect: a save reads before it locks
    /\ pc[p] = "arrived"
    /\ pc' = [pc EXCEPT ![p] = "rows"]
    /\ want' = [want EXCEPT ![p] = IF req[p].kind = "save" THEN {} ELSE DOMAIN sheets]
    /\ UNCHANGED <<db, quoteLock, held, local>>

StartRows(p) ==
    /\ pc[p] = "arrived"
    /\ pc' = [pc EXCEPT ![p] = "rows"]
    /\ want' = [want EXCEPT ![p] = DOMAIN sheets]
    /\ UNCHANGED <<db, quoteLock, held, local>>

ReadAgain(p) ==                      \* defect: reads again after it has waited
    CASE req[p].kind = "invoice" -> "commit"
      [] pc[p] = "rows" /\ req[p].kind = "save" -> "quote"
      [] OTHER -> "read"
AfterRows(p) ==
    CASE pc[p] = "erase" \/ req[p].kind = "invoice" -> "commit"
      [] pc[p] = "rows" /\ req[p].kind = "save" -> "quote"
      [] OTHER -> "read"

LockRow(p) ==
    /\ pc[p] \in {"rows", "erase"}
    /\ LET rest == want[p] \cap DOMAIN sheets
           i == NextRow(p)
       IN IF rest = {}
          THEN /\ want' = [want EXCEPT ![p] = {}]
               /\ pc' = [pc EXCEPT ![p] = AfterRows(p)]
               /\ UNCHANGED held
          ELSE /\ RowFree(i, p)
               /\ held' = [held EXCEPT ![p] = @ \cup {i}]
               /\ want' = [want EXCEPT ![p] = rest \ {i}]
               /\ pc' = [pc EXCEPT ![p] = IF rest = {i} THEN AfterRows(p) ELSE pc[p]]
    /\ UNCHANGED <<db, quoteLock, local>>

(* SELECT ... FROM "Quote" ... FOR NO KEY UPDATE, by a save.               *)
LockQuote(p) ==
    /\ pc[p] = "quote" /\ quoteLock = NoReq
    /\ quoteLock' = p
    /\ pc' = [pc EXCEPT ![p] = "read"]
    /\ UNCHANGED <<db, want, held, local>>

(* The reads after the locks.  A save then deletes every row it now sees,  *)
(* which first locks those it does not hold.  A customer's decision stops  *)
(* here when a page already has an invoice number.                         *)
InvoiceIgnored(p) == FALSE           \* defect: no daXuatHoaDon after the lock
InvoiceStops(p) == req[p].kind = "decide" /\ Invoiced(sheets)

Read(p) ==
    /\ pc[p] = "read"
    /\ IF InvoiceStops(p)
       THEN RollBack(p, "refused")
       ELSE /\ fresh' = [fresh EXCEPT ![p] =
                           [sheets |-> sheets, status |-> quote.status,
                            vat |-> quote.vat, won |-> convertedTotal # NoTotal]]
            /\ LET rest == IF req[p].kind = "save" THEN DOMAIN sheets \ held[p] ELSE {}
               IN /\ want' = [want EXCEPT ![p] = rest]
                  /\ pc' = [pc EXCEPT ![p] = IF rest = {} THEN "commit" ELSE "erase"]
            /\ UNCHANGED <<db, quoteLock, held, req, loaded, seen>>

(***************************************************************************)
(* The writes, each with the commit that publishes it.                     *)
(***************************************************************************)
(* chotKhoaLacQuan: UPDATE ... WHERE "updatedAt" = the client's base.      *)
BaseNotChecked(p) == TRUE            \* defect: checked before the transaction only
BaseHolds(p) == req[p].base = NoBase \/ req[p].base = quote.updatedAt

VatAsLoaded(p) == IF req[p].vat # Keep THEN req[p].vat ELSE loaded[p].vat  \* defect: stale VAT
VatFor(p) == IF req[p].vat # Keep THEN req[p].vat ELSE fresh[p].vat
VatStored(p) == IF req[p].vat # Keep THEN req[p].vat ELSE quote.vat

(* A price-affecting edit of a quote in the old approval pipeline reopens  *)
(* it; the status tested is the one the handler read first.                *)
Reopened(p) == IF seen[p].status \in {"pending", "approved", "sent"}
               THEN "draft" ELSE quote.status

(* snapshotQuoteVersion: upsert at the current version, unless deleted.    *)
SnapshotAhead(version, amount) ==    \* defect: recorded under the next number
    [v \in DOMAIN history \cup {version + 1} |->
        IF v = version + 1 THEN amount ELSE history[v]]
SnapshotBefore(version, amount) ==   \* defect: taken before the update
    [v \in DOMAIN history \cup {version} |-> IF v = version THEN total ELSE history[v]]

Snapshot(version, amount) ==
    IF quote.deleted THEN history
    ELSE [v \in DOMAIN history \cup {version} |->
            IF v = version THEN amount ELSE history[v]]

(* coTheDanhLaiMaSheet, for a quote no personnel record names.             *)
RenumberAsked(p) == req[p].renumber  \* defect: codes on invoices not looked at
MayRenumber(p) == req[p].renumber /\ ~Invoiced(fresh[p].sheets)

SameVersion(p) == quote.version      \* defect: no increment
NextVersion(p) == quote.version + 1

(* The recorded revenue follows a change of price or VAT; NULL stays NULL. *)
RevenueKept(p, pages) == convertedTotal    \* defect: written once, at the close
RevenueAlways(p, pages) ==                 \* defect: NULL filled in
    IF fresh[p].status = "converted" THEN ConvertedTotalOf(pages, VatFor(p))
    ELSE convertedTotal
RevenueAfter(p, pages) ==
    IF fresh[p].status = "converted" /\ fresh[p].won
    THEN ConvertedTotalOf(pages, VatFor(p)) ELSE convertedTotal

(* The last steps of a save or of a VAT change, on the pages `pages`.      *)
WritePriced(p, pages, seq) ==
    /\ quote' = [quote EXCEPT !.vat = VatStored(p), !.status = Reopened(p), !.seq = seq,
                              !.updatedAt = @ + 1, !.version = NextVersion(p)]
    /\ total' = TotalOf(pages, VatFor(p))
    /\ convertedTotal' = RevenueAfter(p, pages)
    /\ history' = Snapshot(NextVersion(p), total')

SaveSheets(p) ==
    LET old == fresh[p].sheets
        carry == CarryFrom(req[p].payload, old)
        codes == IF MayRenumber(p) THEN [k \in DOMAIN carry |-> k]
                 ELSE CodesFor(carry, old, seen[p].seq)
    IN RecreatedSheets(req[p].payload, carry, codes, old, nextId)

CommitSave(p) ==
    /\ pc[p] = "commit" /\ req[p].kind = "save"
    /\ IF ~BaseHolds(p)
       THEN RollBack(p, "refused")
       ELSE LET new == SaveSheets(p)
                top == Max({new[i].code : i \in DOMAIN new})
            IN /\ sheets' = new
               /\ nextId' = nextId + Len(req[p].payload)
               /\ issued' = (IF MayRenumber(p) THEN {} ELSE issued) \cup CodesOf(new)
               /\ WritePriced(p, new, IF MayRenumber(p) THEN Len(req[p].payload)
                                      ELSE Max({seen[p].seq, top}))
               /\ Finish(p, "ok")

CommitHead(p) ==
    /\ pc[p] = "commit" /\ req[p].kind = "head" /\ QuoteFree(p)
    /\ IF ~BaseHolds(p)
       THEN RollBack(p, "refused")
       ELSE /\ IF req[p].vat = Keep
               THEN /\ quote' = [quote EXCEPT !.updatedAt = @ + 1]
                    /\ history' = Snapshot(quote.version, total)
                    /\ UNCHANGED <<total, convertedTotal>>
               ELSE WritePriced(p, fresh[p].sheets, quote.seq)
            /\ UNCHANGED <<sheets, nextId, issued>>
            /\ Finish(p, "ok")

(* A page recreated by a save that ran in between is gone: Prisma P2025.   *)
CommitDecide(p) ==
    /\ pc[p] = "commit" /\ req[p].kind = "decide"
    /\ IF req[p].target \notin DOMAIN sheets
       THEN RollBack(p, "failed")
       ELSE /\ sheets' = [sheets EXCEPT ![req[p].target].cust = req[p].value]
            /\ IF fresh[p].status = "converted" /\ fresh[p].won
               THEN /\ QuoteFree(p)
                    /\ convertedTotal' = ConvertedTotalOf(sheets', fresh[p].vat)
               ELSE UNCHANGED convertedTotal
            /\ UNCHANGED <<quote, total, nextId, history, issued>>
            /\ Finish(p, "ok")

(* Both write the QuoteSheet row only; neither touches Quote.updatedAt.    *)
WritePage(p, kind, pages) ==
    /\ pc[p] = "commit" /\ req[p].kind = kind
    /\ IF req[p].target \notin DOMAIN sheets
       THEN RollBack(p, "failed")
       ELSE /\ RowFree(req[p].target, p)
            /\ sheets' = pages
            /\ UNCHANGED <<quote, total, convertedTotal, nextId, history, issued>>
            /\ Finish(p, "ok")

CommitInvoice(p) ==
    WritePage(p, "invoice", [sheets EXCEPT ![req[p].target].inv = (req[p].value = "set")])
CommitSign(p) ==
    WritePage(p, "sign", [sheets EXCEPT ![req[p].target].signed = (req[p].value = "set")])

(* updateMany ... WHERE status NOT IN ('converted', 'lost').               *)
AnyStatus == TRUE                    \* defect: updateMany without the status
NotTerminal == quote.status \notin Terminal

WriteStatus(p, kind, status, revenue) ==
    /\ pc[p] = "commit" /\ req[p].kind = kind /\ QuoteFree(p)
    /\ IF ~NotTerminal
       THEN RollBack(p, "refused")
       ELSE /\ quote' = [quote EXCEPT !.updatedAt = @ + 1, !.status = status]
            /\ convertedTotal' = revenue
            /\ UNCHANGED <<total, sheets, nextId, history, issued>>
            /\ Finish(p, "ok")

CommitConvert(p) == WriteStatus(p, "convert", "converted",
                                ConvertedTotalOf(fresh[p].sheets, fresh[p].vat))
CommitLost(p)    == WriteStatus(p, "lost", "lost", convertedTotal)

(* deleteQuote checks again under the Quote row lock.                      *)
StillThere(p) == ~quote.deleted      \* defect: the status is not read again
StillDeletable(p) == ~quote.deleted /\ MayDelete(req[p].right)

CommitDelete(p) ==
    /\ pc[p] = "commit" /\ req[p].kind = "delete" /\ QuoteFree(p)
    /\ IF ~StillDeletable(p)
       THEN RollBack(p, "refused")
       ELSE /\ quote' = [quote EXCEPT !.deleted = TRUE, !.updatedAt = @ + 1]
            /\ UNCHANGED <<total, convertedTotal, sheets, nextId, history, issued>>
            /\ Finish(p, "ok")

(***************************************************************************)
(* Lock waits, PostgreSQL's deadlock detector, and transactions that fail  *)
(* at any step (DB_TX_TIMEOUT, a lost connection, a crash of the server).  *)
(***************************************************************************)
Blocker(p) ==
    LET row == CASE pc[p] \in {"rows", "erase"} /\ want[p] \cap DOMAIN sheets # {}
                       -> {NextRow(p)}
                 [] pc[p] = "commit" /\ req[p].kind = "sign" -> {req[p].target}
                 [] OTHER -> {}
        needsQuote == \/ pc[p] = "quote"
                      \/ pc[p] = "commit" /\ req[p].kind \in {"head", "convert", "lost", "delete"}
                      \/ /\ pc[p] = "commit" /\ req[p].kind = "decide"
                         /\ fresh[p].status = "converted" /\ fresh[p].won
    IN {q \in Req \ {p} : held[q] \cap row # {} \/ (needsQuote /\ quoteLock = q)}

WaitInCircle(S) ==
    \A q \in S : Blocker(q) \cap S # {} /\ \E r \in S : q \in Blocker(r)
InLockCycle(p) == \E S \in SUBSET Req : p \in S /\ WaitInCircle(S)

DeadlockAbort(p) == InLockCycle(p) /\ RollBack(p, "failed")
Fail(p) == pc[p] \in InTx /\ RollBack(p, "failed")

Step(p) ==
    \/ StartRows(p) \/ LockRow(p) \/ LockQuote(p) \/ Read(p)
    \/ CommitSave(p) \/ CommitHead(p) \/ CommitDecide(p) \/ CommitInvoice(p)
    \/ CommitSign(p) \/ CommitConvert(p) \/ CommitLost(p) \/ CommitDelete(p)
    \/ DeadlockAbort(p)

Arrive(p) ==
    \/ Load(p) \/ ArriveSave(p) \/ ArriveHead(p) \/ ArriveDecide(p) \/ ArriveInvoice(p)
    \/ ArriveSign(p) \/ ArriveConvert(p) \/ ArriveLost(p) \/ ArriveDelete(p)

AllServed ==
    /\ \A p \in Req : pc[p] \in Final \/ (pc[p] = "idle" /\ quote.deleted)
    /\ UNCHANGED vars

Next == AllServed \/ \E p \in Req : Arrive(p) \/ Step(p) \/ Fail(p)

Spec == Init /\ [][Next]_vars

-----------------------------------------------------------------------------
Page == [page : Nat, price : Prices, cust : Decision, inv : BOOLEAN,
         signed : BOOLEAN, code : Nat]

(* Shape of the state: rows have ids below nextId, a request in its        *)
(* transaction has a kind, versions in the history do not pass the current.*)
TypeOK ==
    /\ quote \in [status : Status, vat : Vats, updatedAt : Nat, deleted : BOOLEAN,
                  version : Nat, seq : Nat]
    /\ nextId \in Nat /\ DOMAIN sheets \subseteq 1..(nextId - 1)
    /\ sheets \in [DOMAIN sheets -> Page]
    /\ DOMAIN history \subseteq 1..quote.version
    /\ quoteLock \in Req \cup {NoReq}
    /\ pc \in [Req -> {"idle", "editing", "arrived"} \cup InTx \cup Final]
    /\ \A p \in Req : pc[p] \in InTx => req[p].kind \in Kinds
    /\ held \in [Req -> SUBSET (1..(nextId - 1))]
    /\ want \in [Req -> SUBSET (1..(nextId - 1))]

(* No row is locked by two transactions, and only a request in its         *)
(* transaction holds a lock: a handler never returns with one.             *)
LocksExclusive ==
    /\ \A p, q \in Req : p # q => held[p] \cap held[q] = {}
    /\ \A p \in Req : pc[p] \notin InTx => held[p] = {} /\ quoteLock # p

(* MONEY-06: Quote.total is the total of the pages stored now at the VAT   *)
(* stored now, whichever of a save and a VAT change came between the reads *)
(* and the writes of the other.                                            *)
TotalMatchesPages == total = TotalOf(sheets, quote.vat)

(* MONEY-01: the revenue recorded when the customer closed the deal stays  *)
(* the sum of the pages not rejected, through later saves, VAT changes and *)
(* decisions.                                                              *)
ConvertedTotalMatches ==
    quote.status = "converted" /\ convertedTotal # NoTotal =>
        convertedTotal = ConvertedTotalOf(sheets, quote.vat)

(* A recorded revenue is never lost, and one that is NULL is only set by   *)
(* the transition to converted.                                            *)
ConvertedTotalKept ==
    [][/\ convertedTotal # NoTotal => convertedTotal' # NoTotal
       /\ convertedTotal = NoTotal /\ convertedTotal' # NoTotal =>
            quote.status \notin Terminal /\ quote'.status = "converted"]_vars

Saves(p) == /\ pc[p] = "commit" /\ req[p].kind \in {"save", "head"}
            /\ pc'[p] = "ok"

(* What one user wrote is not overwritten by a save of another who loaded  *)
(* the quote before: a save with a base replaces the pages, prices and VAT *)
(* its client loaded.                                                      *)
NoLostUpdate ==
    [][\A p \in Req : Saves(p) /\ req[p].base # NoBase =>
          PriceList(sheets) = loaded[p].pages /\ quote.vat = loaded[p].vat]_vars

StateOf(s) == <<s.cust, s.inv, s.signed>>

(* A save recreates every page; the decision, invoice number and signature *)
(* other users put on a page the payload names, even after the handler's   *)
(* first read, are on exactly one page afterwards, unchanged.              *)
SheetStateSurvivesSave ==
    [][\A p \in Req : Saves(p) =>
          \A k \in DOMAIN req[p].payload :
             LET id == req[p].payload[k].id IN
             id \in DOMAIN sheets =>
                LET now == {j \in DOMAIN sheets' : sheets'[j].page = sheets[id].page}
                IN /\ Cardinality(now) = 1
                   /\ \A j \in now : StateOf(sheets'[j]) = StateOf(sheets[id])]_vars

(* The same for a payload without ids, matched by position.                *)
PositionalSaveKeepsState ==
    [][\A p \in Req :
          /\ Saves(p) /\ req[p].kind = "save"
          /\ \A k \in DOMAIN req[p].payload : req[p].payload[k].id = NewPage
          /\ Len(req[p].payload) = Cardinality(DOMAIN sheets)
          => [k \in DOMAIN req[p].payload |-> StateOf(sheets[InOrder(DOMAIN sheets)[k]])]
             = [k \in DOMAIN req[p].payload |-> StateOf(sheets'[InOrder(DOMAIN sheets')[k]])]]_vars

(* A deal closed or lost stays so: nothing takes a quote out of a terminal *)
(* status.                                                                 *)
TerminalIsFinal == [][quote.status \in Terminal => quote'.status = quote.status]_vars

(* A closed deal is never put in the recycle bin.                          *)
ConvertedNotDeleted == [][~quote.deleted /\ quote'.deleted => quote.status # "converted"]_vars

(* ... nor is a quote in the recycle bin closed.  The code does not keep   *)
(* this (README, section 12).                                              *)
DeletedNotConverted == ~(quote.deleted /\ quote.status = "converted")

(* An invoice number or a signature is on a closed deal only.              *)
DocumentsOnlyOnClosedDeal ==
    \A i \in DOMAIN sheets : sheets[i].inv \/ sheets[i].signed => quote.status = "converted"

(* The version history: the current version is recorded with the current   *)
(* total, and no earlier version is ever rewritten or dropped.             *)
HistoryMatches ==
    ~quote.deleted => quote.version \in DOMAIN history /\ history[quote.version] = total
HistoryAppendOnly ==
    [][\A v \in DOMAIN history : v \in DOMAIN history' /\ history'[v] = history[v]]_vars

(* A production code names one page for ever, even after that page is gone *)
(* and its code was the highest.                                           *)
CodeNeverReissued == \A a, b \in issued : a[1] = b[1] => a[2] = b[2]

(* Once a page has an invoice number its production code does not change.  *)
InvoicedCodeFrozen ==
    [][\A i \in DOMAIN sheets, j \in DOMAIN sheets' :
          sheets[i].page = sheets'[j].page /\ sheets[i].inv => sheets'[j].code = sheets[i].code]_vars

(* Once a page has an invoice number no decision of the customer changes.  *)
DecisionFrozenByInvoice ==
    [][Invoiced(sheets) =>
         \A i \in DOMAIN sheets, j \in DOMAIN sheets' :
             sheets[i].page = sheets'[j].page => sheets'[j].cust = sheets[i].cust]_vars

(* Once a page has an invoice number it stays, at the price on the invoice.*)
InvoicedPageFrozen ==
    [][\A i \in DOMAIN sheets : sheets[i].inv =>
         \E j \in DOMAIN sheets' :
            sheets'[j].page = sheets[i].page /\ sheets'[j].price = sheets[i].price]_vars

(* Every handler locks QuoteSheet in id order and then Quote, so that no   *)
(* two transactions wait for each other.                                   *)
NoLockCycle == \A p \in Req : ~InLockCycle(p)

(* More than two can, in one way only: around a save that waited for rows  *)
(* which the save of somebody else, now answered, has replaced, and that   *)
(* holds Quote while it waits to delete the new rows.                      *)
CyclesNeedErase ==
    \A S \in SUBSET Req : S # {} /\ WaitInCircle(S) =>
        /\ \E q \in S : pc[q] = "erase" /\ quoteLock = q
        /\ \E q \in Req \ S : pc[q] = "ok"

(* When the next step of p is enabled: what it waits for is free, or it     *)
(* stands in a cycle that the detector breaks.                             *)
NeedsRow(p) == pc[p] = "commit" /\ req[p].kind \in {"invoice", "sign"}
NeedsQuote(p) ==
    /\ pc[p] = "commit"
    /\ \/ req[p].kind \in {"head", "convert", "lost", "delete"}
       \/ req[p].kind = "decide" /\ fresh[p].status = "converted" /\ fresh[p].won

Free(p) ==
    /\ pc[p] \in {"rows", "erase"} /\ want[p] \cap DOMAIN sheets # {} => RowFree(NextRow(p), p)
    /\ pc[p] = "quote" => quoteLock = NoReq
    /\ NeedsRow(p) /\ req[p].target \in DOMAIN sheets => RowFree(req[p].target, p)
    /\ NeedsQuote(p) => QuoteFree(p)

Able(p) == pc[p] \in InTx /\ (Free(p) \/ InLockCycle(p))

(* Nobody is left waiting: while a transaction is open, PostgreSQL can run  *)
(* the next statement of one of them or abort it out of a cycle.  A row     *)
(* left locked by a transaction that has ended would stop the others.       *)
SomebodyIsAble == (\E p \in Req : pc[p] \in InTx) => \E p \in Req : Able(p)
AbleIsEnabled  == \A p \in Req : pc[p] \in InTx => (Able(p) <=> ENABLED Step(p))
SomebodyGoesOn == SomebodyIsAble /\ AbleIsEnabled

(* How far a request is: where its handler stands, and the rows it has     *)
(* still to lock.                                                          *)
Stage == [idle |-> 0, editing |-> 1, arrived |-> 2, rows |-> 3, quote |-> 4, read |-> 5,
          erase |-> 6, commit |-> 7, ok |-> 8, refused |-> 8, failed |-> 8]
RowsLeft(p) == want[p] \cap DOMAIN sheets

Nearer(p) ==
    \/ Stage[pc[p]] < Stage[pc'[p]]
    \/ /\ pc'[p] = pc[p]
       /\ RowsLeft(p)' \subseteq RowsLeft(p) /\ RowsLeft(p)' # RowsLeft(p)

StepCounts ==
    \E p \in Req : /\ Nearer(p)
                  /\ \A q \in Req \ {p} : pc'[q] = pc[q] /\ RowsLeft(q)' \subseteq RowsLeft(q)

(* No handler starts over and none keeps another at work: every step takes *)
(* one request nearer to its answer and sets no other back, the rows that  *)
(* a save deletes and creates under those who wait for them included.  With*)
(* SomebodyGoesOn, every transaction ends.                                 *)
EveryStepCounts == [][StepCounts]_vars

(* The recorded revenue: right while it is recorded, never lost, and only  *)
(* made by the close (MONEY-01).                                           *)
RevenueIsRight == []ConvertedTotalMatches /\ ConvertedTotalKept

(* The history: complete, and never rewritten.                             *)
HistoryIsRecord == []HistoryMatches /\ HistoryAppendOnly

(* The row locks: none is held twice, no cycle forms, and a wait is never   *)
(* made longer by who is waited for.                                       *)
LocksWork == []LocksExclusive /\ []NoLockCycle /\ EveryStepCounts

(* What others wrote on a page stays on it: through a save, and once there *)
(* is an invoice the decision too.                                         *)
PageStateStays == SheetStateSurvivesSave /\ DecisionFrozenByInvoice

(* A code belongs to one page, and an invoiced page keeps it.              *)
CodesStand == []CodeNeverReissued /\ InvoicedCodeFrozen

(* A deal that is closed stays closed and out of the bin, and only a closed *)
(* deal has documents.                                                     *)
ClosedIsFinal == TerminalIsFinal /\ ConvertedNotDeleted /\ []DocumentsOnlyOnClosedDeal

(* The quote as SerialQuote sees it: no locks, no reads, no stamps.        *)
Outcome == [p \in Req |-> IF pc[p] \in Final THEN pc[p] ELSE "open"]

Serial == INSTANCE SerialQuote WITH
    Nothing <- NoRequest, Carry <- CarryFrom, Codes <- CodesFor, Rows <- RecreatedSheets,
    Amount <- TotalOf, status <- quote.status, vat <- quote.vat, deleted <- quote.deleted,
    mark <- quote.seq, total <- total, rows <- sheets, next <- nextId,
    asked <- req, answer <- Outcome

(* Every request that succeeds takes effect at once, as if it ran alone at *)
(* that moment, and one that does not changes nothing: the reads outside   *)
(* the transaction, the row locks and the conditional update add up to that*)
(* for clients that send their base.                                       *)
RunsAsAlone == Serial!Spec

(* No write is lost: a save replaces what its client loaded, and the       *)
(* requests have the effect of running one after the other.                *)
NothingOverwritten == NoLostUpdate /\ RunsAsAlone
=============================================================================

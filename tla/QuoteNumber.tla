----------------------------- MODULE QuoteNumber -----------------------------
(***************************************************************************)
(* Allocation of quote numbers and project codes (src/quoteNumber.ts and   *)
(* the transactions that call it in quoteService.ts: createQuote,          *)
(* duplicateQuote, the change of a number in updateQuote).                 *)
(*                                                                         *)
(* A row of QuoteCounter is locked by the transaction that moves it until  *)
(* that transaction ends, and keeps its old value if it rolls back.  What  *)
(* the transaction will write is in own[r]; counter is what is committed.  *)
(* A transaction that meets a unique index is rolled back, the taken value *)
(* is recorded in the counter OUTSIDE of it, and the whole of it is tried  *)
(* again, four times at most.                                              *)
(***************************************************************************)
EXTENDS Integers, FiniteSets, FiniteSetsExt

CONSTANTS
    Reqs,        \* identities of requests; each makes one call
    Prefixes,    \* Company.quotePrefix
    Owners,      \* User.projectCode: prefixes of project codes
    Years,       \* consecutive two-digit years of the Vietnamese calendar
    Legacy,      \* quotes migrated with numbers and codes no counter gave
    Manual,      \* numbers a client may type
    Kinds,       \* the calls that happen, a subset of AllKinds
    MaxValue,    \* bound: no call starts once a counter has passed this
    None

\* A number and a project code are <<prefix, year, n>>.
AllKinds == {"create", "copy", "version", "renumber"}
Numbers  == Prefixes \X Years \X (Nat \ {0})
Codes    == Owners \X Years \X (Nat \ {0})
Keys     == (Prefixes \cup Owners) \X Years
MaxTries == 4

\* A row of Quote.  The base of a new version may be a number, not a code.
\* auto: nextQuoteNumber made the number.
QuoteRow == [id: Nat, num: Numbers, code: Codes \cup Numbers \cup {None},
             ver: Nat \ {0}, auto: BOOLEAN, deleted: BOOLEAN]

\* No row of Quote leaves the table here: a delete marks it.
NextId(rows) == Cardinality(rows)

ASSUME NumberAssumption ==
    /\ Years \subseteq Nat /\ Years # {} /\ IsFiniteSet(Years)
    /\ Legacy \subseteq QuoteRow /\ IsFiniteSet(Legacy)
    /\ \A q \in Legacy : ~q.auto /\ q.id < NextId(Legacy)
    /\ \A q, p \in Legacy : q.id = p.id => q = p
    /\ Manual \subseteq Numbers
    /\ Kinds \subseteq AllKinds
    /\ MaxValue \in Nat
    /\ Prefixes \cap Owners = {}
    /\ None \notin Codes \cup Numbers \cup Reqs

VARIABLES
    year,        \* what namVN() returns
    counter,     \* committed values of QuoteCounter, 0: no row
    lock,        \* the transaction that holds a row of QuoteCounter
    quotes,      \* committed rows of Quote
    pc, req,     \* per request
    own,         \* own[r]: counter rows the transaction of r has written
    todo,        \* todo[r]: taken values to be recorded before the next try
    hits,        \* hits[r]: values found taken (history)
    lost,        \* lost[r]: a counter update failed and was swallowed (history)
    given,       \* every number and code a committed quote has had (history)
    blind        \* those given without their counter (history)

db   == <<counter, quotes>>
hist == <<hits, lost, given, blind>>
vars == <<year, counter, lock, quotes, pc, req, own, todo, hits, lost, given, blind>>

\* askedYear: the year nextQuoteNumber put into its upsert; id: the quote an
\* update is about.
Request == [kind: AllKinds, prefix: Prefixes \cup {None}, owner: Owners \cup {None},
            manual: Numbers \cup {None}, base: Codes \cup Numbers \cup {None},
            baseVer: Nat, attempt: 0 .. MaxTries - 1, askedYear: Years \cup {None},
            followed: BOOLEAN, num: Numbers \cup {None}, code: Codes \cup Numbers \cup {None},
            ver: Nat \ {0}, id: Nat]

Ended  == {"idle", "done", "conflict", "aborted"}
InTx   == {"number", "upsert", "code", "write"}

Blank(k, p, o, m, b, v) ==
    [kind |-> k, prefix |-> p, owner |-> o, manual |-> m, base |-> b,
     baseVer |-> v, attempt |-> 0, askedYear |-> None,
     followed |-> FALSE, num |-> None, code |-> None, ver |-> 1, id |-> 0]
NoCall == Blank("create", None, None, None, None, 0)

TypeOK ==
    /\ year \in Years
    /\ counter \in [Keys -> Nat]
    /\ lock \in [Keys -> Reqs \cup {None}]
    /\ quotes \subseteq QuoteRow
    /\ pc \in [Reqs -> Ended \cup InTx \cup {"again"}]
    /\ req \in [Reqs -> Request]
    /\ \A r \in Reqs : /\ DOMAIN own[r] \subseteq Keys
                       /\ \A k \in DOMAIN own[r] : own[r][k] \in Nat
    /\ todo \in [Reqs -> SUBSET {"number", "code"}]
    /\ lost \in [Reqs -> BOOLEAN]
    /\ blind \subseteq given /\ given \subseteq Numbers \cup Codes

Init ==
    /\ year \in {y \in Years : \A z \in Years : y <= z}
    /\ counter = [k \in Keys |-> 0]
    /\ lock = [k \in Keys |-> None]
    /\ quotes = Legacy
    /\ pc = [r \in Reqs |-> "idle"]
    /\ req = [r \in Reqs |-> NoCall]
    /\ own = [r \in Reqs |-> <<>>]
    /\ todo = [r \in Reqs |-> {}]
    /\ hits = [r \in Reqs |-> {}]
    /\ lost = [r \in Reqs |-> FALSE]
    /\ given = ({q.num : q \in Legacy} \cup {q.code : q \in Legacy}) \ {None}
    /\ blind = given

-----------------------------------------------------------------------------
(***************************************************************************)
(* The counters.                                                           *)
(***************************************************************************)

Set(f, k, v) == [x \in DOMAIN f \cup {k} |-> IF x = k THEN v ELSE f[x]]

\* The row of k is locked by nobody else.
MayLock(r, k) == lock[k] \in {None, r}

\* What the transaction of r sees in the row of k.
Value(r, k) == IF k \in DOMAIN own[r] THEN own[r][k] ELSE counter[k]

\* Mutant: the value recorded replaces the counter.
RaisedBlindly(a, n) == n
\* GREATEST
Raised(a, n) == IF a < n THEN n ELSE a

\* An upsert in the transaction of r: it holds the row from here on.
WriteCounter(r, k, v) ==
    /\ MayLock(r, k)
    /\ lock' = [lock EXCEPT ![k] = r]
    /\ own' = [own EXCEPT ![r] = Set(@, k, v)]

\* The regular expression of syncQuoteCounter, applied to a number num.
Fits(num, prefix) == num[1] = prefix /\ num[2] = year

\* Mutant: the rows stay locked.
KeepLocks(r) == lock
FreeLocks(r) == [k \in Keys |-> IF lock[k] = r THEN None ELSE lock[k]]

EndTransaction(r) ==
    /\ lock' = FreeLocks(r)
    /\ own' = [own EXCEPT ![r] = <<>>]

\* The call has answered; what it knew is gone.
End(r, how) ==
    /\ pc' = [pc EXCEPT ![r] = how]
    /\ req' = [req EXCEPT ![r] = NoCall]
    /\ hits' = [hits EXCEPT ![r] = {}]
    /\ lost' = [lost EXCEPT ![r] = FALSE]

TakenNumbers == {q.num : q \in quotes}
TakenCodes   == {<<q.code, q.ver>> : q \in {p \in quotes : p.code # None}}

VersionsOf(code) == {q.ver : q \in {p \in quotes : p.code = code}}

-----------------------------------------------------------------------------
(***************************************************************************)
(* The calls, up to their transaction.                                     *)
(***************************************************************************)

Begin(r, c) ==
    /\ pc[r] = "idle"
    /\ \A k \in Keys : counter[k] <= MaxValue
    /\ req' = [req EXCEPT ![r] = c]
    /\ pc' = [pc EXCEPT ![r] = "number"]
    /\ UNCHANGED <<year, db, lock, own, todo, hist>>

\* createQuote, with or without a number of the client's own.  One already
\* taken is refused at once.
ArriveCreate(r) ==
    \E p \in Prefixes, o \in Owners \cup {None}, m \in Manual \cup {None} :
        /\ "create" \in Kinds
        /\ m \notin TakenNumbers
        /\ Begin(r, Blank("create", p, o, m, None, 0))

\* duplicateQuote into a project of the caller's.
ArriveCopy(r) ==
    \E p \in Prefixes, o \in Owners \cup {None} :
        /\ "copy" \in Kinds
        /\ \E q \in quotes : ~q.deleted
        /\ Begin(r, Blank("copy", p, o, None, None, 0))

\* duplicateQuote with sameProject: the next version of q.
ArriveVersion(r) ==
    \E p \in Prefixes, q \in quotes :
        /\ "version" \in Kinds
        /\ ~q.deleted
        /\ LET base == IF q.code = None THEN q.num ELSE q.code IN
           Begin(r, Blank("version", p, None, None, base, q.ver))

\* updateQuote that changes the number of a quote.  base stands for the
\* baseUpdatedAt of a client that sends one: the number it has seen.
ArriveRenumber(r) ==
    \E p \in Prefixes, q \in quotes, m \in Manual : \E base \in {q.num, None} :
        /\ "renumber" \in Kinds
        /\ ~q.deleted
        /\ m \notin TakenNumbers
        /\ Begin(r, [Blank("renumber", p, None, m, base, 0) EXCEPT !.id = q.id])

-----------------------------------------------------------------------------
(***************************************************************************)
(* The transaction.                                                        *)
(***************************************************************************)

\* nextQuoteNumber: the year is put into the upsert ...
AskNumber(r) ==
    /\ pc[r] = "number"
    /\ req[r].manual = None
    /\ req' = [req EXCEPT ![r].askedYear = year]
    /\ pc' = [pc EXCEPT ![r] = "upsert"]
    /\ UNCHANGED <<year, db, lock, own, todo, hist>>

\* ... and read once more for the number, when the row has been locked.
GetNumber(r) ==
    LET k == <<req[r].prefix, req[r].askedYear>>
        n == Value(r, k) + 1 IN
    /\ pc[r] = "upsert"
    /\ WriteCounter(r, k, n)
    /\ req' = [req EXCEPT ![r].num = <<req[r].prefix, year, n>>]
    /\ pc' = [pc EXCEPT ![r] = "code"]
    /\ UNCHANGED <<year, db, todo, hist>>

\* syncQuoteCounter in the transaction, for a number a client has typed.
Follows(r) == Fits(req[r].manual, req[r].prefix)

TakeManual(r) ==
    /\ pc[r] = "number"
    /\ req[r].manual # None
    /\ LET m == req[r].manual k == <<m[1], m[2]>> IN
       /\ IF Follows(r) THEN WriteCounter(r, k, Raised(Value(r, k), m[3]))
                        ELSE UNCHANGED <<lock, own>>
       /\ req' = [req EXCEPT ![r].num = m, ![r].followed = Follows(r)]
    /\ pc' = [pc EXCEPT ![r] = IF req[r].kind = "renumber" THEN "write" ELSE "code"]
    /\ UNCHANGED <<year, db, todo, hist>>

\* nextProjectCode.
GetCode(r) ==
    LET k == <<req[r].owner, year>>
        n == Value(r, k) + 1 IN
    /\ pc[r] = "code"
    /\ req[r].owner # None
    /\ WriteCounter(r, k, n)
    /\ req' = [req EXCEPT ![r].code = <<req[r].owner, year, n>>]
    /\ pc' = [pc EXCEPT ![r] = "write"]
    /\ UNCHANGED <<year, db, todo, hist>>

\* The caller has no project code; or the version after the highest one of
\* the project, quotes that were deleted included.
NoCode(r) ==
    /\ pc[r] = "code"
    /\ req[r].owner = None
    /\ req' = [req EXCEPT ![r].code = req[r].base,
                          ![r].ver = IF req[r].kind = "version"
                                     THEN Max({req[r].baseVer} \cup VersionsOf(req[r].base)) + 1
                                     ELSE 1]
    /\ pc' = [pc EXCEPT ![r] = "write"]
    /\ UNCHANGED <<year, db, lock, own, todo, hist>>

NumberTaken(r) == req[r].num \in TakenNumbers
CodeTaken(r)   == /\ req[r].kind # "renumber"
                  /\ <<req[r].code, req[r].ver>> \in TakenCodes

\* updateQuote writes the row by its id.  For a client that sends its base the
\* row must be as it was; for another one it may have got a new number since
\* it was read, or have been deleted.
Renumbered(r) ==
    {q \in quotes : /\ q.id = req[r].id
                    /\ req[r].base # None => q.num = req[r].base /\ ~q.deleted}

NewRow(r) == [id |-> NextId(quotes), num |-> req[r].num, code |-> req[r].code, ver |-> req[r].ver,
              auto |-> req[r].manual = None, deleted |-> FALSE]

Written(r) ==
    IF req[r].kind = "renumber"
    THEN (quotes \ Renumbered(r))
           \cup {[q EXCEPT !.num = req[r].num, !.auto = FALSE] : q \in Renumbered(r)}
    ELSE quotes \cup {NewRow(r)}

\* The counter the number belongs to does not know it: the number was typed
\* and does not fit, or a new year began between the two reads of it.
Unseen(r) == IF req[r].manual = None THEN req[r].num[2] # req[r].askedYear
                                     ELSE ~req[r].followed

Commit(r) ==
    /\ pc[r] = "write"
    /\ ~NumberTaken(r) /\ ~CodeTaken(r)
    /\ req[r].kind = "renumber" => Renumbered(r) # {}
    /\ quotes' = Written(r)
    /\ counter' = [k \in Keys |-> Value(r, k)]
    /\ given' = given \cup ({req[r].num, req[r].code} \ {None})
    /\ blind' = blind \cup (IF Unseen(r) THEN {req[r].num} ELSE {})
    /\ EndTransaction(r)
    /\ End(r, "done")
    /\ UNCHANGED <<year, todo>>

-----------------------------------------------------------------------------
(***************************************************************************)
(* A unique index was met (P2002).                                         *)
(***************************************************************************)

\* Mutant: one try too many.
LastTryLate(r) == req[r].attempt = MaxTries
LastTry(r) == req[r].attempt = MaxTries - 1

\* Mutant: duplicateQuote records the number whatever index was met.
RecordsAnyNumber(r, onNumber) == ~(req[r].kind = "create" /\ ~onNumber)
RecordsNumber(r, onNumber) == onNumber

\* createQuote records the code if the code was taken; duplicateQuote always.
RecordsCode(r, onNumber) ==
    /\ req[r].owner # None
    /\ req[r].kind = "copy" \/ ~onNumber

\* Whoever typed the number gets a 409 if it is taken, and so does everyone
\* whose fourth try has failed.
GivesUp(r, onNumber) ==
    \/ LastTry(r)
    \/ req[r].kind = "renumber"
    \/ onNumber /\ req[r].manual # None

\* What the attempt leaves to be recorded, in this order: number, code.
\* Mutant: createQuote records nothing.
RecordedByCopies(r, onNumber) ==
    {v \in {"number", "code"} :
        /\ req[r].kind # "create"
        /\ IF v = "number" THEN RecordsNumber(r, onNumber) ELSE RecordsCode(r, onNumber)}
Recorded(r, onNumber) ==
    {v \in {"number", "code"} :
        IF v = "number" THEN RecordsNumber(r, onNumber) ELSE RecordsCode(r, onNumber)}

\* A number, or a code with a version: what a unique index holds.
Met(r, onNumber) ==
    IF onNumber THEN <<req[r].num, 1>> ELSE <<req[r].code, req[r].ver>>

\* Postgres names one index; which one, if both values are taken, is open.
Collide(r) ==
    /\ pc[r] = "write"
    /\ \E onNumber \in BOOLEAN :
        /\ IF onNumber THEN NumberTaken(r) ELSE CodeTaken(r)
        /\ hits' = [hits EXCEPT ![r] = @ \cup {Met(r, onNumber)}]
        /\ pc' = [pc EXCEPT ![r] = IF GivesUp(r, onNumber) THEN "conflict" ELSE "again"]
        /\ todo' = [todo EXCEPT ![r] = IF GivesUp(r, onNumber) THEN {}
                                       ELSE Recorded(r, onNumber)]
    /\ EndTransaction(r)
    /\ UNCHANGED <<year, db, req, lost, given, blind>>

\* One upsert outside of any transaction; it waits for the row.
Record(k, n) ==
    /\ lock[k] = None
    /\ counter' = [counter EXCEPT ![k] = Raised(@, n)]

RecordNumber(r) ==
    /\ pc[r] = "again"
    /\ "number" \in todo[r]
    /\ LET m == req[r].num IN
       IF Fits(m, req[r].prefix) THEN Record(<<m[1], m[2]>>, m[3])
                                 ELSE UNCHANGED counter
    /\ todo' = [todo EXCEPT ![r] = @ \ {"number"}]
    /\ UNCHANGED <<year, quotes, lock, pc, req, own, hist>>

RecordCode(r) ==
    /\ pc[r] = "again"
    /\ todo[r] = {"code"}
    /\ LET c == req[r].code IN Record(<<c[1], c[2]>>, c[3])
    /\ todo' = [todo EXCEPT ![r] = {}]
    /\ UNCHANGED <<year, quotes, lock, pc, req, own, hist>>

\* .catch(() => {}): an update failed, and nobody hears of it.
RecordFails(r) ==
    /\ pc[r] = "again"
    /\ todo[r] # {}
    /\ todo' = [todo EXCEPT ![r] = IF "number" \in @ THEN @ \ {"number"} ELSE {}]
    /\ lost' = [lost EXCEPT ![r] = TRUE]
    /\ UNCHANGED <<year, db, lock, pc, req, own, hits, given, blind>>

\* The next try runs the whole transaction again.
Retry(r) ==
    /\ pc[r] = "again"
    /\ todo[r] = {}
    /\ req' = [req EXCEPT ![r].attempt = @ + 1]
    /\ pc' = [pc EXCEPT ![r] = "number"]
    /\ UNCHANGED <<year, db, lock, own, todo, hist>>

\* updateQuote: the quote has changed or gone since the client read it (409).
Refuse(r) ==
    /\ pc[r] = "write"
    /\ req[r].kind = "renumber"
    /\ Renumbered(r) = {}
    /\ EndTransaction(r)
    /\ End(r, "aborted")
    /\ UNCHANGED <<year, db, todo, given, blind>>

-----------------------------------------------------------------------------
(***************************************************************************)
(* What happens around the calls.                                          *)
(***************************************************************************)

\* The connection, the process or a statement timeout: the transaction is
\* rolled back; an error that is not P2002 is thrown on.
Abort(r) ==
    /\ pc[r] \in InTx
    /\ EndTransaction(r)
    /\ End(r, "aborted")
    /\ UNCHANGED <<year, db, todo, given, blind>>

\* deleteQuote: the row stays, marked, and so does its number.
Delete(q) ==
    /\ q \in quotes /\ ~q.deleted
    /\ quotes' = (quotes \ {q}) \cup {[q EXCEPT !.deleted = TRUE]}
    /\ UNCHANGED <<year, counter, lock, pc, req, own, todo, hist>>

NewYear ==
    /\ year + 1 \in Years
    /\ year' = year + 1
    /\ UNCHANGED <<db, lock, pc, req, own, todo, hist>>

Arrive(r) ==
    \/ ArriveCreate(r) \/ ArriveCopy(r) \/ ArriveVersion(r) \/ ArriveRenumber(r)

Step(r) ==
    \/ AskNumber(r) \/ GetNumber(r) \/ TakeManual(r) \/ GetCode(r) \/ NoCode(r)
    \/ Commit(r) \/ Collide(r) \/ Refuse(r)
    \/ RecordNumber(r) \/ RecordCode(r) \/ Retry(r)

Stop(r) == RecordFails(r) \/ Abort(r)

Next ==
    \/ \E r \in Reqs : Arrive(r) \/ Step(r) \/ Stop(r)
    \/ \E q \in quotes : Delete(q)
    \/ NewYear

\* A call that has begun goes on: Node runs every continuation, Postgres every
\* statement.  Nothing has to arrive, fail or be deleted.
Fairness == \A r \in Reqs : WF_vars(Step(r))

Spec == Init /\ [][Next]_vars /\ Fairness

-----------------------------------------------------------------------------
(***************************************************************************)
(* Properties.                                                             *)
(***************************************************************************)

\* "No burned/gap numbers": a counter stands at a number that some quote has
\* had, or that was given a later year because a new year began between the
\* two reads.  A transaction that failed, a collision recorded although the
\* number was free, or a version that collided leave no hole in the numbers.
NumberNotBurnt ==
    \A p \in Prefixes, y \in Years :
        LET n == counter[<<p, y>>] IN
        n > 0 => \/ <<p, y, n>> \in given
                 \/ \E z \in Years : z > y /\ <<p, z, n>> \in blind

\* The same of project codes, which the code does not keep for a copy whose
\* number collides (README, section 12).
CodeNotBurnt ==
    \A o \in Owners, y \in Years :
        counter[<<o, y>>] > 0 => <<o, y, counter[<<o, y>>]>> \in given

\* The four tries are worth something: unless the record of a collision was
\* lost, each try that fails has met another value.  Without it a call repeats
\* one collision four times and answers 409 for a number nobody asked for.
EachTryMeetsAnother ==
    \A r \in Reqs :
        ~lost[r] => /\ pc[r] \in InTx => Cardinality(hits[r]) = req[r].attempt
                    /\ pc[r] \in {"again", "conflict"} =>
                           Cardinality(hits[r]) = req[r].attempt + 1

\* Within a year, a value a counter has given is met by nobody else: who did not type a
\* number collides only with values that came past the counters, or with a
\* version another call has just taken.
OnlyBlindCollisions ==
    year = Min(Years) => \A r \in Reqs : \A h \in hits[r] :
        h[1] \in blind \/ h[1] = req[r].manual \/ h[2] > 1

\* "Concurrent callers each receive a unique sequential value": no number that
\* nextQuoteNumber has made is met as taken by another of its callers.  The
\* code does not keep this when a year begins between its two reads of the
\* clock (README, section 12).
SequentialUnique ==
    \A r \in Reqs : req[r].manual = None =>
        \A q \in quotes : q.auto => <<q.num, 1>> \notin hits[r]

\* When the next step of r is enabled: the counter row it waits for, if any, is
\* not somebody else's.
Free(r) ==
    LET m == req[r].manual n == req[r].num c == req[r].code IN
    /\ pc[r] = "number" /\ m # None /\ Follows(r) => MayLock(r, <<m[1], m[2]>>)
    /\ pc[r] = "upsert" => MayLock(r, <<req[r].prefix, req[r].askedYear>>)
    /\ pc[r] = "code" /\ req[r].owner # None => MayLock(r, <<req[r].owner, year>>)
    /\ pc[r] = "again" =>
         /\ "number" \in todo[r] /\ Fits(n, req[r].prefix) => lock[<<n[1], n[2]>>] = None
         /\ todo[r] = {"code"} => lock[<<c[1], c[2]>>] = None

Able(r) == pc[r] \notin Ended /\ Free(r)

\* How far a call is: the tries it has used, where its try stands, and what is
\* left to record after a collision.
Answered == {"done", "conflict", "aborted"}
Stage == [idle |-> 0, number |-> 1, upsert |-> 2, code |-> 3, write |-> 4, again |-> 5,
          done |-> 6, conflict |-> 6, aborted |-> 6]

Nearer(r) ==
    \/ pc[r] \notin Answered /\ pc'[r] \in Answered
    \/ req[r].attempt < req'[r].attempt /\ req'[r].attempt < MaxTries
    \/ req'[r].attempt = req[r].attempt /\ Stage[pc[r]] < Stage[pc'[r]]
    \/ /\ req'[r].attempt = req[r].attempt /\ pc'[r] = pc[r]
       /\ todo'[r] \subseteq todo[r] /\ todo'[r] # todo[r]

StepCounts ==
    \/ \E r \in Reqs :
         /\ Nearer(r)
         /\ \A s \in Reqs \ {r} : /\ pc'[s] = pc[s] /\ todo'[s] = todo[s]
                                 /\ req'[s].attempt = req[s].attempt
    \/ UNCHANGED <<pc, req, todo>> /\ (NewYear \/ \E q \in quotes : Delete(q))

\* No call goes round for ever: every step takes one call nearer to its answer,
\* in four tries at most, and sets no other back; a new year and a delete leave
\* all of them where they are.  With SomebodyGoesOn, every call ends.
EveryStepCounts == [][StepCounts]_vars

\* Nobody waits for ever for a counter row: while a call is under way, the next
\* step of some call is possible.  A row left locked by a transaction that has
\* ended, or two transactions that take two rows in opposite orders, stop here.
SomebodyIsAble == (\E r \in Reqs : pc[r] \notin Ended) => \E r \in Reqs : Able(r)
AbleIsEnabled  == \A r \in Reqs : Able(r) <=> ENABLED Step(r)
SomebodyGoesOn == SomebodyIsAble /\ AbleIsEnabled

\* Why a try fails: never for the value that failed it before, and within a
\* year never for a value that a counter gave.
TriesMeetOthers == EachTryMeetsAnother /\ OnlyBlindCollisions

\* The tries lead somewhere: they are bounded, each step counts, and no try is
\* spent on the value that failed before.
TriesLead == []TriesMeetOthers /\ EveryStepCounts
=============================================================================

----------------------------- MODULE ExportGate -----------------------------
(***************************************************************************)
(* Admission of quote exports (src/exportQueue.ts, src/saveBudget.ts).     *)
(*                                                                         *)
(* An export (runExportJob) takes a slot of the concurrency gate, then     *)
(* rows of the budget gate, generates the file in a worker thread, returns *)
(* both, and may fall back to a serial chain on the main thread.  Each     *)
(* action is the code between two awaits: JavaScript runs it without       *)
(* interruption.  The continuations of several jobs interleave freely      *)
(* here; Node runs them in the order their promises settled, one of the    *)
(* orders allowed.                                                         *)
(*                                                                         *)
(* The two gates keep counters (active, dangBay); who holds what is only   *)
(* visible in pc.  That the counters never drift from the holders is what  *)
(* CountersMatch and the two refinements of FairGate check.                *)
(***************************************************************************)
EXTENDS Integers, Sequences, FiniteSets, SequencesExt, FiniteSetsExt

CONSTANTS
    Jobs,           \* identities of export requests; reused after they end
    Background,     \* the jobs of worker.ts: no abort signal, no inline path
    Rows,           \* Rows[j]: demDongXuat of the quote of j, at least 1
    MaxActive,      \* EXPORT_MAX_ACTIVE
    MaxPending,     \* EXPORT_MAX_PENDING, the limit of both queues
    Budget,         \* EXPORT_BUDGET_ROWS
    MaxInline       \* MAX_PENDING of the inline chain

ASSUME ExportAssumption ==
    /\ IsFiniteSet(Jobs)
    /\ Background \subseteq Jobs
    /\ Rows \in [Jobs -> Nat \ {0}]
    /\ MaxActive \in Nat \ {0}
    /\ MaxPending \in Nat
    /\ Budget \in Nat \ {0}
    /\ MaxInline \in Nat

VARIABLES
    pc,             \* where runExportJob(j) stands
    gone,           \* gone[j]: the AbortSignal of j has fired
    active,         \* slots taken, as the concurrency gate counts them
    waiters,        \* jobs waiting for a slot
    dangBay,        \* rows in flight, as the budget gate counts them
    hang,           \* jobs waiting for rows
    chain,          \* jobs on the inline chain; the head is next or running
    pending         \* length of the chain, as runExport counts it

gateVars   == <<active, waiters, dangBay, hang>>
inlineVars == <<chain, pending>>
vars       == <<pc, gone, active, waiters, dangBay, hang, chain, pending>>

\* Not called yet, file returned, or an error thrown: 499 after an abort, 503
\* from a full gate, 429 from a full inline chain, or the generator's own.
Ended == {"idle", "file", "error"}

\* "slot", "rows": the promise of the gate has been resolved and its
\* continuation has not run.  "giveUp", "turnedAway": that of the budget has
\* been rejected and the slot has not been returned.
HoldsSlot  == {"slot", "giveUp", "turnedAway", "waitRows", "rows", "working"}
HoldsRows  == {"rows", "working"}
InFlight   == HoldsSlot \cup {"waitSlot", "chained", "inline"}

SlotHolders == {j \in Jobs : pc[j] \in HoldsSlot}
RowHolders  == {j \in Jobs : pc[j] \in HoldsRows}

Init ==
    /\ pc = [j \in Jobs |-> "idle"]
    /\ gone = [j \in Jobs |-> FALSE]
    /\ active = 0 /\ waiters = <<>>
    /\ dangBay = 0 /\ hang = <<>>
    /\ chain = <<>> /\ pending = 0

-----------------------------------------------------------------------------
(***************************************************************************)
(* The gates.                                                              *)
(***************************************************************************)

\* A request larger than the whole budget takes all of it and runs alone.
Can(j) == IF Rows[j] <= Budget THEN Rows[j] ELSE Budget

\* Mutant: the limit is reached one too late.
SlotFreeBeyond == active <= MaxActive /\ waiters = <<>>
\* A newcomer is let in only if nobody waits.
SlotFree == active < MaxActive /\ waiters = <<>>

\* Mutant: a newcomer that fits passes those who wait.
RowsFreeBarging(j) == dangBay + Can(j) <= Budget
RowsFree(j) == hang = <<>> /\ dangBay + Can(j) <= Budget

\* The rows that a set of jobs is charged, and how many they are.
RowsOf(S)   == UNION {{j} \X (1 .. Can(j)) : j \in S}
RowCount(S) == Cardinality(RowsOf(S))

\* chuyenSuat, after a return left some rows in flight: how many waiters are
\* served.  The loop stops at the first that does not fit; since each of them
\* takes at least one row, that is the longest prefix that fits.
First(n)           == ToSet(SubSeq(hang, 1, n))
RowsAfter(left, n) == left + RowCount(First(n))

\* Mutants: no hand-over at all; a waiter that fits exactly is left out.
ServedNobody(left) == 0
ServedStrictly(left) ==
    Max({0} \cup {n \in 1 .. Len(hang) : RowsAfter(left, n) < Budget})
Served(left) ==
    Max({0} \cup {n \in 1 .. Len(hang) : RowsAfter(left, n) <= Budget})

\* release() of the concurrency gate: the slot goes to the first waiter
\* without passing through the counter.
ReleaseSlot ==
    IF waiters # <<>>
    THEN waiters' = Tail(waiters) /\ UNCHANGED active
    ELSE active' = active - 1 /\ UNCHANGED waiters

\* Mutant: the counter is not stopped at 0.
RowsLeftUnclamped(j) == dangBay - Rows[j]
\* tra(can) gets the unclamped weight; the counter stops at 0.
RowsLeft(j) == IF dangBay > Rows[j] THEN dangBay - Rows[j] ELSE 0

ReturnRows(j) ==
    LET left == RowsLeft(j) n == Served(left) IN
    /\ dangBay' = RowsAfter(left, n)
    /\ hang' = SubSeq(hang, n + 1, Len(hang))

\* The jobs whose promise a release of the slot, of the rows of j, resolves.
GetsSlot    == IF waiters = <<>> THEN {} ELSE {Head(waiters)}
GetsRows(j) == First(Served(RowsLeft(j)))

\* j goes on at next, and so do the jobs whose promise has been resolved.
MoveOn(j, next, served) ==
    [i \in Jobs |-> IF i = j THEN next
                    ELSE IF i \in GetsSlot THEN "slot"
                    ELSE IF i \in served THEN "rows" ELSE pc[i]]

\* The inner finally of runExportJob: both gates are left in one go.
LeaveGates(j, next) ==
    /\ ReleaseSlot
    /\ ReturnRows(j)
    /\ LET served == GetsRows(j) IN pc' = MoveOn(j, next, served)

\* indexOf and splice: whoever waits leaves its queue, anyone else is not there.
Splice(q, j) ==
    IF j \in ToSet(q) THEN RemoveAt(q, CHOOSE i \in DOMAIN q : q[i] = j) ELSE q

-----------------------------------------------------------------------------
(***************************************************************************)
(* A job calls runExportJob: acquire runs synchronously in the call.  Its  *)
(* first test, a signal that has already fired, has no case here: the      *)
(* routes create the signal in the same call (tinHieuHuy).                 *)
(***************************************************************************)

Begin(j) ==
    /\ pc[j] \in Ended
    /\ gone' = [gone EXCEPT ![j] = FALSE]
    /\ UNCHANGED <<dangBay, hang, chain, pending>>

TakeSlot(j) ==
    /\ Begin(j)
    /\ SlotFree
    /\ active' = active + 1
    /\ pc' = [pc EXCEPT ![j] = "slot"]
    /\ UNCHANGED waiters

RefuseSlot(j) ==
    /\ Begin(j)
    /\ ~SlotFree
    /\ Len(waiters) >= MaxPending
    /\ pc' = [pc EXCEPT ![j] = "error"]
    /\ UNCHANGED <<active, waiters>>

\* Mutant: the newcomer is put in front of the line.
JoinInFront(j) ==
    /\ Begin(j)
    /\ ~SlotFree
    /\ Len(waiters) < MaxPending
    /\ waiters' = <<j>> \o waiters
    /\ pc' = [pc EXCEPT ![j] = "waitSlot"]
    /\ UNCHANGED active

JoinWaiters(j) ==
    /\ Begin(j)
    /\ ~SlotFree
    /\ Len(waiters) < MaxPending
    /\ waiters' = Append(waiters, j)
    /\ pc' = [pc EXCEPT ![j] = "waitSlot"]
    /\ UNCHANGED active

(***************************************************************************)
(* The slot has been granted: xin.  A rejection (the signal has fired, or  *)
(* the queue is full) reaches the catch block in a later step.             *)
(***************************************************************************)

AskRows(j) ==
    /\ pc[j] = "slot"
    /\ \/ /\ gone[j]
          /\ pc' = [pc EXCEPT ![j] = "giveUp"]
          /\ UNCHANGED <<dangBay, hang>>
       \/ /\ ~gone[j] /\ RowsFree(j)
          /\ dangBay' = dangBay + Can(j)
          /\ pc' = [pc EXCEPT ![j] = "rows"]
          /\ UNCHANGED hang
       \/ /\ ~gone[j] /\ ~RowsFree(j) /\ Len(hang) >= MaxPending
          /\ pc' = [pc EXCEPT ![j] = "turnedAway"]
          /\ UNCHANGED <<dangBay, hang>>
       \/ /\ ~gone[j] /\ ~RowsFree(j) /\ Len(hang) < MaxPending
          /\ hang' = Append(hang, j)
          /\ pc' = [pc EXCEPT ![j] = "waitRows"]
          /\ UNCHANGED dangBay
    /\ UNCHANGED <<gone, active, waiters, chain, pending>>

\* Mutant: the catch block throws on and keeps the slot.
ReturnNothing(j) ==
    /\ pc[j] \in {"giveUp", "turnedAway"}
    /\ pc' = [pc EXCEPT ![j] = "error"]
    /\ UNCHANGED <<gone, active, waiters, dangBay, hang, chain, pending>>

\* The catch block after xin: the slot is returned, the error is thrown on.
ReturnSlot(j) ==
    /\ pc[j] \in {"giveUp", "turnedAway"}
    /\ ReleaseSlot
    /\ pc' = MoveOn(j, "error", {})
    /\ UNCHANGED <<gone, dangBay, hang, chain, pending>>

(***************************************************************************)
(* The rows have been granted: the signal is read again, then the worker   *)
(* thread is started.                                                      *)
(***************************************************************************)

\* Mutant: the signal is not read again before the worker is started.
StartUnchecked(j) ==
    /\ pc[j] = "rows"
    /\ pc' = [pc EXCEPT ![j] = "working"]
    /\ UNCHANGED <<gone, active, waiters, dangBay, hang, chain, pending>>

StartWorker(j) ==
    /\ pc[j] = "rows"
    /\ \/ /\ gone[j]
          /\ LeaveGates(j, "error")
       \/ /\ ~gone[j]
          /\ pc' = [pc EXCEPT ![j] = "working"]
          /\ UNCHANGED gateVars
    /\ UNCHANGED <<gone, chain, pending>>

\* generateInWorker settles: a valid buffer.
WorkerDelivers(j) ==
    /\ pc[j] = "working"
    /\ LeaveGates(j, "file")
    /\ UNCHANGED <<gone, chain, pending>>

\* generateInWorker settles: an error, the timeout, or an invalid buffer.
\* An HTTP export goes to the inline chain, unless the chain is full.
WorkerFails(j) ==
    /\ pc[j] = "working"
    /\ \/ /\ j \in Background \/ pending >= MaxInline
          /\ LeaveGates(j, "error")
          /\ UNCHANGED inlineVars
       \/ /\ j \notin Background /\ pending < MaxInline
          /\ LeaveGates(j, "chained")
          /\ chain' = Append(chain, j)
          /\ pending' = pending + 1
    /\ UNCHANGED gone

(***************************************************************************)
(* runExport: the chain runs one generation at a time.                     *)
(***************************************************************************)

RunInline(j) ==
    /\ pc[j] = "chained"
    /\ j = Head(chain)
    /\ pc' = [pc EXCEPT ![j] = "inline"]
    /\ UNCHANGED <<gone, active, waiters, dangBay, hang, chain, pending>>

InlineEnds(j) ==
    /\ pc[j] = "inline"
    /\ \E how \in {"file", "error"} : pc' = [pc EXCEPT ![j] = how]
    /\ chain' = Tail(chain)
    /\ pending' = pending - 1
    /\ UNCHANGED <<gone, active, waiters, dangBay, hang>>

(***************************************************************************)
(* The signal of an HTTP export fires: the response closed or its deadline *)
(* passed (tinHieuHuy).  A job that waits leaves its queue at once; any    *)
(* other finds out where it reads the signal next, if it does.             *)
(***************************************************************************)

Abort(j) ==
    /\ j \notin Background
    /\ pc[j] \in InFlight
    /\ ~gone[j]
    /\ gone' = [gone EXCEPT ![j] = TRUE]
    /\ waiters' = Splice(waiters, j)
    /\ hang' = Splice(hang, j)
    /\ pc' = [pc EXCEPT ![j] = CASE @ = "waitSlot" -> "error"
                                 [] @ = "waitRows" -> "giveUp"
                                 [] OTHER          -> @]
    /\ UNCHANGED <<active, dangBay, chain, pending>>

-----------------------------------------------------------------------------

Arrive(j) == TakeSlot(j) \/ RefuseSlot(j) \/ JoinWaiters(j)

\* What the event loop or the worker thread does next for j.
Step(j) ==
    \/ AskRows(j) \/ ReturnSlot(j) \/ StartWorker(j)
    \/ WorkerDelivers(j) \/ WorkerFails(j)
    \/ RunInline(j) \/ InlineEnds(j)

Next == \E j \in Jobs : Arrive(j) \/ Step(j) \/ Abort(j)

\* The event loop runs every continuation, generateInWorker is bounded by
\* EXPORT_GEN_TIMEOUT_MS, and the inline generator, which has no ceiling, is
\* taken to end.  Nobody has to arrive or to give up.
Fairness == \A j \in Jobs : WF_vars(Step(j))

Spec == Init /\ [][Next]_vars /\ Fairness

-----------------------------------------------------------------------------
(***************************************************************************)
(* Properties.                                                             *)
(***************************************************************************)

\* The variables have their types and stay within the configured limits.
TypeOK ==
    /\ pc \in [Jobs -> Ended \cup InFlight]
    /\ gone \in [Jobs -> BOOLEAN]
    /\ active \in 0 .. MaxActive
    /\ waiters \in Seq(Jobs) /\ Len(waiters) <= MaxPending
    /\ dangBay \in 0 .. Budget
    /\ hang \in Seq(Jobs) /\ Len(hang) <= MaxPending
    /\ chain \in Seq(Jobs)
    /\ pending \in 0 .. MaxInline

\* The counters say what is held: active the jobs with a slot, dangBay the
\* clamped rows of the jobs that were granted rows, pending the chain.  A
\* slot or a row lost on some path (abort, refusal, failed worker, timeout)
\* or returned twice shows here.
CountersMatch ==
    /\ active = Cardinality(SlotHolders)
    /\ dangBay = RowCount(RowHolders)
    /\ pending = Len(chain)

\* No lost wake-up: whoever waits for a slot waits because all are taken, and
\* whoever waits for rows waits for a job that was granted some and will
\* return them, so the two gates in a row cannot block each other (the
\* comment KHÔNG BẾ TẮC of runExportJob).
NoStrandedWaiter ==
    /\ waiters # <<>> => active = MaxActive
    /\ hang # <<>> => RowHolders # {}
    /\ \A j \in Jobs : /\ pc[j] = "waitSlot" <=> j \in ToSet(waiters)
                       /\ pc[j] = "waitRows" <=> j \in ToSet(hang)

\* Whoever queues for rows holds a slot, so with a queue not shorter than the
\* other slots (20 and 3 by default) the second gate never turns anybody away:
\* an export that was let in cannot end with a 503.
NeverTurnedAway ==
    MaxActive <= MaxPending + 1 => \A j \in Jobs : pc[j] # "turnedAway"

\* Once its signal has fired a job is handed nothing: no slot, no rows, no
\* worker thread ("a file nobody receives").
NothingForTheGone ==
    [][\A j \in Jobs : gone[j] /\ gone'[j] =>
          /\ j \in SlotHolders' => j \in SlotHolders
          /\ j \in RowHolders' => j \in RowHolders
          /\ pc'[j] = "working" => pc[j] = "working"]_vars

\* The comment at the end of runExportJob: an abort must not fall back to the
\* inline chain, because the caller has left and the main thread would be
\* blocked for a result nobody reads.  The code does not keep this when the
\* signal fires while the worker thread runs (README, section 12).
AbandonedNeverInline ==
    [][\A j \in Jobs : pc[j] # "chained" /\ pc'[j] = "chained" => ~gone[j]]_vars

\* Every export ends, however many others keep arriving: nobody starves in
\* either queue.
EveryJobEnds == \A j \in Jobs : pc[j] \in InFlight ~> pc[j] \in Ended

\* How far a call is; whose signal has fired it is nearer to its end.
Stage == [idle |-> 0, waitSlot |-> 1, slot |-> 2, waitRows |-> 3, rows |-> 4, giveUp |-> 4,
          turnedAway |-> 4, working |-> 5, chained |-> 6, inline |-> 7, file |-> 8, error |-> 8]

Nearer(j) ==
    /\ pc[j] \in InFlight
    /\ \/ Stage[pc[j]] < Stage[pc'[j]]
       \/ pc'[j] = pc[j] /\ ~gone[j] /\ gone'[j]

\* Who stands in the line q before and in the line r after has lost no place.
KeepsPlace(q, r) == \A k \in DOMAIN q, m \in DOMAIN r : q[k] = r[m] => m <= k

StepCounts ==
    /\ \E j \in Jobs : Arrive(j) \/ Nearer(j)
    /\ \A j \in Jobs : pc[j] \in InFlight =>
          Nearer(j) \/ (pc'[j] = pc[j] /\ gone'[j] = gone[j])
    /\ KeepsPlace(waiters, waiters') /\ KeepsPlace(hang, hang') /\ KeepsPlace(chain, chain')

\* What stands behind EveryJobEnds, for each step: it begins a call or takes one
\* nearer to its end, sets no other back, and nobody in one of the three lines
\* is overtaken.
EveryStepCounts == [][StepCounts]_vars

\* Each gate is a FairGate: within its capacity, first come first served,
\* and handed over without a gap.
Slots == INSTANCE FairGate
           WITH Clients <- Jobs, Capacity <- MaxActive, MaxWaiting <- MaxPending,
                Weight <- [j \in Jobs |-> 1],
                inside <- SlotHolders, line <- waiters
SlotGateIsFair == Slots!Spec

RowGate == INSTANCE FairGate
             WITH Clients <- Jobs, Capacity <- Budget, MaxWaiting <- MaxPending,
                  Weight <- [j \in Jobs |-> Can(j)],
                  inside <- RowHolders, line <- hang
RowGateIsFair == RowGate!Spec

\* Slots and rows are handed from hand to hand: none is lost, nobody waits
\* without cause, and who has left is handed nothing.
NothingIsLost == []CountersMatch /\ []NoStrandedWaiter /\ NothingForTheGone

\* The second gate is fair and, with a queue that is long enough, refuses nobody.
RowGateServesAll == RowGateIsFair /\ []NeverTurnedAway

\* The line in front of each gate: served in its order, and moving.
LinesAreFair == SlotGateIsFair /\ RowGateServesAll /\ EveryStepCounts
=============================================================================

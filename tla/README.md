# Quản Lý Báo Giá: a verification project

TLA+ modules of this repository (`src/`: an Express/Prisma monolith on PostgreSQL that makes
quotations, closes deals, and keeps the books of what was invoiced and paid, with a worker process,
an object store and a web client), TLC configurations that check them on small instances, and TLAPS
proofs of what matters most for every instance.

    tlc -config QuotePairs.cfg MCQuoteLifecycle      # one run
    tlapm QuoteLifecycle_proofs.tla                  # one module of proofs

Source references are `file:line` below `src/` of the repository unless a directory is given; `web/`
is `web/src/` there.

## 1. The system and its parts

A quote is a row of `Quote` with pages (`QuoteSheet`), an internal cost table for the Hanoi office
(`Quote.hnTables`), a version history (`QuoteVersion`) and accounting entries (`InputInvoiceEntry`,
`InputInvoiceProof`). Nearly everything the program promises is about these rows under concurrent
requests: several people edit one quote, the customer decides page by page, sales closes the deal,
accounting writes invoice numbers and ticks payments. Requests are Express handlers in several
processes; their synchronisation is PostgreSQL row locks and a timestamp (`Quote.updatedAt`) that
clients send back.

| Component | State | Operations | Hard behaviour | What makes it correct | Module |
|---|---|---|---|---|---|
| Quote write path (`services/quoteService.ts`, `quoteUtils.ts`, `quoteVersion.ts`, `money.ts`) | Quote, QuoteSheet, QuoteVersion, row locks | save with or without pages, decision, invoice, signature, close, lose, delete | first read outside the transaction; pages deleted and recreated under other writers; READ COMMITTED lock waits; deadlock; timeouts | totals and recorded revenue match the pages; nothing written is lost; final statuses, invoiced pages and codes stay; history is kept; no lock cycle; the handlers add up to one write at a time | QuoteLifecycle, SerialQuote |
| Hanoi costs (`hnWorkflow.ts`, `hnDuyetHang.ts`) and input-invoice accounting (`khoanChi.ts`, `services/inputInvoiceService.ts`) | `hnTables`, `hnStatus`, `hnAssigneeId`, entries, proofs | fill, save, submit, review, assign, delete; tick, attach, drop | six writers of one JSON column; rows older than the row states; FOR SHARE against FOR UPDATE; two accountants on one entry | a paid row stays at the amount paid; approved rows are locked; no self-approval; the summary matches | HanoiCosts |
| Numbers and codes (`quoteNumber.ts`, createQuote, duplicateQuote, change of a number) | QuoteCounter rows and their locks | allocate, type, collide, record, retry | counter rolled back with the quote, moved outside the transaction after a collision; the year read twice | no hole, each try meets another value, nobody waits for ever | QuoteNumber |
| Export and save admission (`exportQueue.ts`, `saveBudget.ts`) | slots, rows in flight, two queues | acquire, release, abort | hand-over to a waiter that gives up; two resources per job | no slot lost, limits kept, FIFO | ExportGate, FairGate |
| Background jobs (`queue.ts`, `worker.ts`, `routes/jobs.routes.ts`, `web/lib/exportQuote.ts`) | jobs and deduplication keys in Redis, files in the store | click, add, retry, take, store, complete, poll | commands out of time that run later; crash between storing and completing; two tabs | the file is as new as the click, one job per key, a retry is not the old failure | BackgroundExport |
| Files (`routes/files.routes.ts`, `retention.ts`, `storage.ts`) | UploadObject rows and objects in the store | sign, put, finalize, multipart, delete, retention | no transaction covers row and object; a process cut between two statements | row and object agree, one call copies, no object without a row | Uploads |
| Invoice split (`invoiceSplit.ts`, `services/invoiceSplitService.ts`, `web/lib/hoaDonChia.ts`) | invoiceGroup / invoiceHold and the shared invoice fields of the pages | close, split, redo, number, payment | against issued invoices, payments and stale saves | what was issued and paid stands; the preview is what is stored | InvoiceSplit |
| Quote editor (`web/pages/QuoteEditor.tsx`, `web/lib/localDraft.ts`) | screen, draft, conflict copy, calls under way | type, save, leave, reload, Hanoi actions, close the deal | answers that arrive late; another user saves meanwhile; crash | typed work is kept, nothing is overwritten unseen | EditorDraft |
| Sessions, tokens, login (`jwt.ts`, `authCore.ts`, `mfa.ts`) | RefreshToken families, counters, codes | login, refresh, revoke | two refreshes with one token | – | left out (13) |
| Realtime, webhooks | SSE clients, HTTP | publish | external services | best effort; clients reload | left out |
| Documents, money and formulas, authorization, directories, privacy, read side, shell, rest of the client, deployment | none, or single rows | sequential | – | unit-tested conversions and tables | left out |

How they interact. The write path, the Hanoi workflow, accounting and the invoice fields share the
database only: they lock the same `Quote` row, always after page rows; `customerDecision`,
`signSheet` and `updateSheetInvoice` lock page rows and do not touch `Quote.updatedAt`; accountants
take `Quote` FOR SHARE. The editor meets the write path in `baseUpdatedAt` and its 409; exports read
a committed quote and carry its `updatedAt` in the key of their job; creation and duplication run in
transactions of their own that take counter rows. `PROJECT.json` lists the components with their
sources and status, and 40 hazards, each at its line with the property that is about it.

## 2. Plan and status

Written: the eight models above, each with a run, and proofs about every one (section 11). The order
was: the quote's rows first (QuoteLifecycle, HanoiCosts), the gates, then what surrounds the rows
(numbers, split, jobs, files, editor).

Left, in this order:

1. The same budget gate as it admits saves and reads (`gacNganSachLuu`, `gacNganSachDoc`): one
   resource instead of two, so a smaller ExportGate.
2. Under which conditions RevenueIsRight holds of three requests and more (without a save that
   replaces rows it is proved for all, section 11).
3. Liveness of BackgroundExport and of the retention job, once the fairness of BullMQ and of the
   scheduler is stated from their sources, which are not in this repository.

## 3. QuoteLifecycle: the quote write path

`QuoteLifecycle.tla` is one quote with its pages and a set `Req` of requests, each served once. The
state has the columns the promises are about: `quote` (status, vatPercent, updatedAt as a counter,
deletedAt, currentVersion, sheetCodeSeq), `sheets` (row id → logical page, subtotal, custStatus,
invoiceNo, signedAt, codeNo), `total`, `convertedTotal`, `history`, the row locks (`held`, `want`,
`quoteLock`), and per request the copy its client edited (`loaded`), the handler's first read
(`seen`) and what it read inside the transaction (`fresh`). `issued` records which code went to
which page.

| Code | Actions |
|---|---|
| client loads the quote | `Load` |
| updateQuote 721-799: first read, canEdit, base | `ArriveSave`, `ArriveHead` |
| `SELECT … ORDER BY id FOR UPDATE` (927-930) | `StartRows`, `LockRow`: one row at a time, and a row deleted while waited for locks nothing |
| `FOR NO KEY UPDATE` (934), reads under the locks | `LockQuote`, `Read` |
| carry, codes, delete and recreate, total, VAT, revenue, history (981-1069) | `CommitSave` |
| the branch without sheets (1070-1125) | `CommitHead` |
| setSheetCustomerDecision, updateSheetInvoice, signSheet | `Arrive…` and `Commit…` of each |
| markConverted, markLost, deleteQuote | likewise |
| deadlock detector, DB_TX_TIMEOUT, refusal | `DeadlockAbort`, `Fail`, `RollBack` |

A commit is one action because the writes of a transaction are invisible until then and its rows are
locked; everything it decided earlier is a separate step. A page that a save recreates has a new row
id and keeps its logical identity `page`, which the properties follow.

Abstracted: items, names and text of a page are its price; prices and VAT rates are small sets;
rights are a Boolean the caller has (`Senders`); timestamps are a counter. Not in the model: copying
of invoice fields within a group of pages (1758-1771; see InvoiceSplit), checks of cost rows kept on
pages (931-935, 1013-1026), sub-account scopes, renumbering's lookup in other tables (it sees
invoices only), `INCREMENTAL_QUOTE_SAVE` (off by default).

### Runs

| Run | Question | Instance |
|---|---|---|
| QuotePairs | every pair of requests, every kind of payload, with and without `baseUpdatedAt`: TotalMatchesPages, RevenueIsRight, HistoryIsRecord, PositionalSaveKeepsState, LocksWork, SomebodyGoesOn | 2 requests, 2 pages, 2 prices, 2 VAT rates, 3 start statuses |
| QuoteTriples | three requests at once, codes and renumbering included: NothingOverwritten, PageStateStays, CodesStand, ClosedIsFinal, CyclesNeedErase | 3 requests, one price, every client sends its base |
| FindingInvoicedPage | "once an invoice is issued the quote is locked" (quoteUtils.ts 89-92) | 2 requests, 1 page |

Several properties are conjunctions of parts that belong together: `RevenueIsRight` is
ConvertedTotalMatches (the recorded revenue is the sum of the pages not rejected) and
ConvertedTotalKept; `HistoryIsRecord` is HistoryMatches and HistoryAppendOnly; `NothingOverwritten`
is NoLostUpdate and RunsAsAlone (below); `PageStateStays` is
SheetStateSurvivesSave and DecisionFrozenByInvoice; `CodesStand` is CodeNeverReissued and
InvoicedCodeFrozen; `ClosedIsFinal` is TerminalIsFinal, ConvertedNotDeleted and
DocumentsOnlyOnClosedDeal; `LocksWork` is LocksExclusive, NoLockCycle and EveryStepCounts. The
mutants break the parts one by one.

Two requests already show how any two handlers interfere, with every payload. The third request is
there for "a save replaces the rows while a second request waits for the old ones, and a third
writes the new ones". Two pages are needed for lock order, for reordering and for codes of pages
removed; two prices and rates make a stale total visible. Bounds are all in the cfg files: each
request is served once, so every counter is bounded by the number of requests.

One write at a time. `SerialQuote.tla` is what the handlers promise together: a request that
succeeds does all it does at one moment, to the quote as it is then, its checks of the status
included, and one that is refused or fails changes nothing. It has no locks, no copies read earlier
and no stamps. `RunsAsAlone` says that QuoteLifecycle implements it for clients that send their
base: a request's moment is its commit, what it asks is fixed when its first checks pass, and
everything it read before (rows in `LockRow`, codes and VAT in `Read`, the status in `Arrive…`) is
still true then, or it is refused. What the pure helpers compute (carried state, codes, rows, total)
are parameters, since serialization does not depend on it. SerialQuote leaves out the checks that
the code does not make at that moment: whether a page has an invoice, by a save or a header edit
(FindingInvoicedPage), and whether the quote is in the bin, by the decision, the close and the loss
(section 12). Recorded revenue, history and stamps are not in it; properties of their own are about
them.

Progress. `SomebodyGoesOn` says that while a transaction is open some `Step` is enabled: no
transaction ends with a lock, and a cycle has its detector. `EveryStepCounts` says that every step
of a request, its waits for rows included, brings it closer to its answer (`Nearer`: a later stage,
or fewer rows left to lock) and sets no other back: nothing is read again, nothing starts over. So
with a database that runs what it can (it grants a free lock, and aborts one of a cycle or one past
DB_TX_TIMEOUT, `config.ts` 165) every transaction ends. No client must send anything.

Deadlock. Page rows are locked by id and Quote after them, so two requests never wait for each
other (`NoLockCycle`, part of LocksWork). Three can, in QuoteTriples too: FOR UPDATE that waited for
replaced rows skips them, the save takes Quote, and its next statement (1057) deletes rows inserted
meanwhile, which another may hold that waits for Quote. `CyclesNeedErase` says this is the only way:
in every circle is a save with Quote that erases, and outside it a request answered before, the save
that made those rows. It is checked for three requests and proved for any number. The detector aborts
one of the circle; nothing of it is written and its user is told to try again (`middleware.ts` 308).

Beyond the bounds: a client that sends no `baseUpdatedAt` (older than that field) can reopen a deal
closed meanwhile, invoices included (876), get a code issued again (1030: `sheetCodeSeq` is from the
first read) and, with another page set, leave a total of the VAT it read (1090). `Bases = {TRUE}` in
QuoteTriples and `FALSE \notin Bases` in the theorems marked "with bases" state exactly that
dependence.

## 4. HanoiCosts: the cost rows and their accounting

`HanoiCosts.tla` is the Hanoi part of one quote: `part` (hnStatus, hnAssigneeId, deletedAt), `rows`
(rid → amount, review state, frozen JSON flags), `entries` (rid → paid, amount recorded, version,
proofs), and the requests.

| Code | Actions |
|---|---|
| a screen loads the rows (presentQuote derives old states) | `Open` |
| first reads of saveHn, updateQuote, reviewHn, submitHn, assignHn, deleteQuote | `SendFill`, `SendSave`, `SendReview`, `SendSubmit`, `SendAssign`, `SendDelete` |
| their transactions under `Quote FOR UPDATE` / `FOR NO KEY UPDATE` | `CommitFill` … `CommitDelete`: one action each, since all they read is written under the same lock |
| ghiKhoanChi (inputInvoiceService 381-546) under FOR SHARE | `OpenPage`, `TakeShare`, `Seed`, `LockEntry`, `CommitPay`, `FailPay` |

`SaveRows` has the refusals of both saves (a paid row repriced or left out, a locked row changed or
left out) and `reconcileTrangThaiHn`; `ChangeStates` is `doiTrangThaiHang` with `apThaoTacHangHn`;
`Summary` is `tomTatHn`, the cache the lists read. `Retire` and `live` are the proof history: `live`
has the proofs with `retiredAt` NULL.

Abstracted: a row's amount stands for all its fingerprinted fields; rids are present and unique (the
repair of rows without one is left out); sub-account membership is assumed as loaded; notes, payment
method and VAT proofs of an entry are left out; `MaxProofs = 2` stands for `TRAN_ANH_MOI_KHOAN =
20`. Whether the quote may be edited at all and `baseUpdatedAt` are in QuoteLifecycle, so here a
save is always accepted that far. Rows of the HCM and customer-fee tables live on the pages; they
follow the same rules under the same locks and are not repeated.

One run, HanoiCosts: any two requests of the six writers and the accountants, by three users with
different rights, on two rows in every mix of states, old rows included. `ann` only fills rows,
`bao` fills and manages (self-approval could happen), and `chi` edits and may tick payments but not
review. Two requests are enough for each property, whose statements are about one step of one
request against what a second one did since the first looked; the proofs (section 11) cover any
number. `ReviewStands` is ReviewStateKept (a save or an assignment changes the review state of no
row it does not change), LockedRowKept and NoSelfApproval; `PaidStands` is PaidRowStays,
PaidAmountKept and PaidAsApproved; `EntryIsRecord` is ProofsConsistent and NoLostEntry.

`SummaryMatches` and `ReviewStateKept` are about quotes not in the bin: assignHn on a quote deleted
after its first read still writes the part (hnWorkflow.ts 47; nothing restores a quote).
`NoSelfApproval` is what the code checks, the *current* assignee; rows filled by A, then assigned to
B, may be approved by A. A review approves what is stored, seen or not (hnWorkflow.ts 345), and an
entry records the amount of the row at that moment although its version does not change with the row
(inputInvoiceService.ts 484): both as the code intends.

## 5. ExportGate: the admission of exports

`FairGate.tla` is what an admission gate promises: clients inside weigh at most `Capacity`, the line
is first come first served, a newcomer enters only past an empty line, and room given back goes to
the head of the line in the same step. It has no counters: the weight inside is computed from who is
inside. `ExportGate.tla` is `runExportJob` with its two gates in a row, and both gates are shown to
implement `FairGate`: the slot gate with weight 1, the budget with the clamped number of rows.
State: `pc[j]`, where a job stands; `gone[j]`, its AbortSignal; the counters and queues `active`,
`waiters` (exportQueue.ts), `dangBay`, `hang` (saveBudget.ts); `chain`, `pending` of the inline
fallback. An action is the code between two awaits, which Node runs in one piece.

| Code | Actions |
|---|---|
| `acquire` of the slot gate, in the call of runExportJob | `TakeSlot`, `RefuseSlot`, `JoinWaiters` |
| `xin(demDongXuat(quote))` after the slot | `AskRows`; its rejection is handled in `ReturnSlot` |
| `throwIfAborted` after the rows, start of the worker thread | `StartWorker` |
| generateInWorker settles; the inner `finally` returns rows and slot | `WorkerDelivers`, `WorkerFails`, both with `LeaveGates` |
| `release` hands the slot over; `tra` and `chuyenSuat` hand over rows | `ReleaseSlot`, `ReturnRows` (`Served`: the longest prefix that fits) |
| runExport's chain on the main thread | `RunInline`, `InlineEnds` |
| `tinHieuHuy`: the response closed or the deadline passed | `Abort` |

A promise that has been resolved and whose continuation has not run is a state of its own (`slot`,
`rows`, `giveUp`, `turnedAway`): there an abort, an arrival or another release comes between.
Abstracted: the file is `"file"` or `"error"`; the errors 499, 503 and 429 are one end.

| Run | Question | Instance |
|---|---|---|
| ExportAdmission | counters, lost wake-ups, aborted jobs, and that every job ends | 5 jobs of 1, 1, 1, 3 and 4 rows, 3 slots, 3 rows, queues of 1 |
| ExportFairness | both gates implement FairGate; who has a slot is not refused rows | the same jobs, queues of 2, small jobs interchangeable |

`NothingIsLost` is CountersMatch, NoStrandedWaiter and NothingForTheGone. `LinesAreFair` is
SlotGateIsFair and RowGateIsFair (each gate implements FairGate), NeverTurnedAway, and
EveryStepCounts: a step begins an export or takes one closer to its end, sets no other back, and in
none of the three lines (slots, rows, the inline chain) is anybody overtaken.

Five jobs on three slots and queues of one reach both refusals and a wait in each queue at once;
queues of two are needed for order and for a return of three rows that serves two waiters. One job
is larger than the budget: production excludes it by its start-up check and the save validators, but
the gate's clamp is there for it, and its unclamped return is covered. Background jobs (no signal,
no inline path) and HTTP jobs are mixed; in production worker.ts is a process with gates of its own,
so the mix allows more than either. Symmetry is used only in the safety run.

Fairness is weak fairness of `Step(j)`: the event loop runs every continuation, generateInWorker
settles within EXPORT_GEN_TIMEOUT_MS, and the inline generator, which has no ceiling, is taken to
end. No fairness for arrivals or aborts. `EveryJobEnds` then says that no stream of newcomers
starves a large job. `EveryStepCounts` is the safety half of its argument, for any number of jobs.

## 6. QuoteNumber: numbers and project codes

`QuoteNumber.tla` is the QuoteCounter rows with their locks and the calls that move them. `counter`
is what is committed, `own[r]` what the transaction of call `r` will write, `lock[k]` who holds row
`k`: an upsert of a counter locks its row to the end of the transaction, which is why two callers
get successive values. `quotes` are the rows with their unique indexes (number; code with version)
and their ids, by which updateQuote writes: a client that sends its base gets 409 when the row has a
new number or is deleted, one that does not (789) renumbers it as it is by then.

| Code | Actions |
|---|---|
| createQuote 379-486, duplicateQuote 2197-2392 (new project, new version), a typed number in updateQuote | `ArriveCreate`, `ArriveCopy`, `ArriveVersion`, `ArriveRenumber` |
| nextQuoteNumber: the year, then the upsert that waits for the row (quoteNumber.ts 24) | `AskNumber`, `GetNumber` |
| a typed number, and syncing the counter behind it | `TakeManual` |
| nextProjectCode, or none for an employee without one | `GetCode`, `NoCode` |
| the INSERT / UPDATE: commit, or a unique index and rollback | `Commit`, `Collide` |
| recording the taken value outside the transaction, its failure swallowed | `RecordNumber`, `RecordCode`, `RecordFails` |
| the next of four tries, or 409 | `Retry`, `Refuse` |
| any other error or timeout; deleteQuote; New Year | `Abort`, `Delete`, `NewYear` |

Run QuoteNumbers: any two calls of the four kinds at the turn of a year, with two numbers and a code
that were migrated without counters, so that a call can meet a taken value on each of its tries.
`NumberNotBurnt`: a counter stands at a number some quote has had. `TriesLead` is TriesMeetOthers
(no try fails for the value that failed the one before, and within a year nobody meets a value a
counter gave) and EveryStepCounts (every step of a call, a try rolled back included, takes it closer
to its answer, and no try follows the fourth). `SomebodyGoesOn`: while a call is under way, some
call can take a step (locks of ended transactions, opposite lock orders). `given`, `blind`, `hits`
and `lost` are history variables. Left out: nextCustomerCode (one upsert, no retry),
previewNextNumber (a read).

## 7. BackgroundExport: from the click to the file

`BackgroundExport.tla` is a quote too large to export in the request: the synchronous route answered
413, the tab asks for a job and polls. One quote, one format, one user with several tabs: only those
share a deduplication key (`jobs.routes.ts` 104), whose varying part is `Quote.updatedAt`, the
version here.

| Code | Actions |
|---|---|
| click in a tab (`dangChay` stops a second one) and the route's add; getState and remove of a failed job; the second add | `Click`, `Add`, `CheckState`, `RemoveFailed`, `AddAgain` |
| a Redis command out of time (`queue.ts` 166), which may still be executed | `…TimesOut` of each, `LateCommand` |
| the poll: getJob, then getState, then the file; the five-minute deadline | `PollGetJob`, `PollGetState`, `Download`, `PollSlow`, `DownloadSlow`, `GiveUpWaiting` |
| worker.ts: take the job and read the quote; make the file and putObject; return | `Take`, `Put`, `Complete` |
| a failed step, an error that must not be retried, death, a lock lost | `StepFails`, `CannotBuild`, `Crash`, `LoseLock` |
| BullMQ: stalled jobs, deduplication, expiry of a key | `Stall`, `QueueAdd`, `QueueRemove`, `ExpireKey` (external) |

BullMQ is modelled from how the code uses it: a key survives completion and failure within its time
to live and goes with its job only if that job holds it; a job stalled more often than MaxStalled
fails; a worker without the lock neither completes nor fails its job. Waiting and delayed are one
state; reading the quote belongs to taking the job, and making the file to storing it. Removal of
old jobs by age is left out.

Run BackgroundExport: two tabs, two workers, two versions, two jobs, two clicks and up to two faults
(commands out of time, failed steps, deaths, lost locks). `FileIsRight`: the file handed over shows
the quote as it was at the click or later, and a completed job has its file. `NoTwinJobs`: no two
unfinished jobs have one key within its time to live. `NoOldFailure`: a retry is not answered the
failure it retries. No fairness is assumed and no liveness claimed: whether a job is run is
BullMQ's.

## 8. Uploads: rows in the database, bytes in the store

`Uploads.tla` is one account's files. `row`, `age`, `staging`, `final` are what is stored; `req` are
calls of the routes, each at the statement it has reached; `prune` is a round of the retention job.

| Code | Actions |
|---|---|
| sign-upload: count, then create (files.routes.ts 269) | `CountPending`, `CreateRow` |
| the client's PUT to the staging address, at any time while it is valid | `Put` (external) |
| finalize: find, read size and bytes, delete and refuse, claim (396), copy (407), revert, delete the staging object | `Find`, `Read`, `DeleteUnwanted`, `Refuse`, `Claim`, `Copy`, `CopyFails`, `Revert`, `DeleteStaging` |
| multipart: put the object, create the row | `Store`, `CreateStored` |
| an admin's DELETE | `DeleteObject` |
| retention: take a batch, delete the objects one by one, delete the rows by id | `Take`, `Drop`, `DropFails`, `DeleteRows` |
| the process ends between two statements; time passes | `Cut`, `CutRound`, `Pass` |

Abstracted: the bytes under one address never change between two PUTs (`Bad` are the files whose
bytes are not what was signed for); `age` is 0 valid, 1 expired, 2 old enough for retention; the
reads of finalize are one step; the rounds for pending and rejected rows are independent. A late
PUT, or a failed delete after the copy, leaves a staging object behind a *finalized* row, which the
retention job never visits: storage kept for nothing, and still traceable by its row, which is what
`StagingTraceable` asks.

Run Uploads: three files (one bad), two calls at a time, a limit of one, batches of one, one fault
anywhere, one file deleted by an admin (two of each, and batches of two, were checked too).
`FinishedStands` is FinishedIsStored (a finalized row has its object), OneCopies and ReadyStays
(neither retention nor a second finalize touches a finished file). `PendingBounded`:
count-then-create is no transaction, so the limit may be passed, but never by as many as there are
calls. The only row found without its object is that of a finalize *cut* between claim and copy
(`cut`, section 12).

## 9. InvoiceSplit: the pages and their invoices

`InvoiceSplit.tla` is a quote's pages with the mark of each (invoice group, later, never) and two of
the fields the pages of one invoice share: the number, which a redo clears, and the day of payment,
which it keeps. Every writer locks the page rows first and reads them under the lock, so each is one
action; the save is two (`OpenSave` before its transaction, `Save`), because it decides from a
status it read earlier.

| Code | Actions |
|---|---|
| markConverted with a split; chiaHoaDon; lamLaiHoaDon (invoiceSplitService.ts) | `Close`, `Split`, `Redo` |
| updateSheetInvoice (quoteService.ts 1740-1771): the page and its recipients | `WriteNumber`, `WritePaid` |
| setSheetCustomerDecision | `Decide` |
| updateQuote: same pages, one less, one more, renumbered or not | `OpenSave`, `Save` |
| the dialog: preview and what it sends (`web/lib/hoaDonChia.ts`) | `Previewed`, `SentUnlessDefault` (operators) |

`Allowed` is the code's three checks of a new split; `Merged` what the pages of one invoice are
given. Page ids that are stale give a 409 and change nothing, so they are left out, as are losing
and deleting a quote.

Run InvoiceSplit: two pages growing to three, two groups, one number, one day. `BooksStand` is
IssuedStands (an issued invoice keeps its number and its pages unless somebody works on that very
invoice), PaymentStands (a payment changes only when somebody types a day), HeldIsIdle (a page in a
box has neither) and NumberShared (the pages of one invoice not refused carry one number).
`PreviewIsStored`: for every choice in the dialog the groups shown are the groups stored.

## 10. EditorDraft: what a user types

`EditorDraft.tla` is one tab on one quote that is on the server already, and the others as one
actor. A text is the set of edits it holds, `draft` and `copy` are the browser's stored draft and
conflict copy, `scr` the editor and its open box; `put`, `old`, `fetch`, `conv` are calls under way:
the editor's save, the save of an editor left, the reload after a Hanoi action, the close of the
deal. `print` changes with every write of the main part, as the fingerprint the reload compares
does.

| Code (QuoteEditor.tsx, localDraft.ts) | Actions |
|---|---|
| opening, the boxes about a draft and a conflict copy | `Open`, `Loaded`, `RestoreDraft`, `DeclineDraft`, `OpenCopy`, `DeclineCopy`, `DropOrKeepCopy` |
| keystroke, the timer that writes the draft, the page hidden | `Type`, `TimerFires`, `Hide` |
| save, its answer or its failure, the 409 and its boxes (903-960) | `Save`, `ServeSave`, `ReplySaved`, `SaveFails`, `ReplyConflict`, `ReplaceCopy`, `ReloadPage`, `StayHere` |
| leaving, closing, crashing; the answer to the editor left | `Leave`, `LeaveOpening`, `CloseTab`, `Crash`, `ServeOldSave`, `LateReply` |
| assign (bumps `updatedAt`), review (does not), the reload and what it keeps (1160) | `Assign`, `Review`, `Reread`, `TakeReread` |
| the close of the deal (1049-1057) | `Convert`, `ServeConvert`, `ReplyConvert`, `ConvertFails` |

Run EditorDraft: one edit of each kind for the user and for the others, three versions, two
openings, one fault, two calls at a time (four versions, and three openings, were checked too).
`WorkKept`: typed work is always on the screen, in the copy, in a draft an opening will offer or on
the server, unless the user gave it up in a box that said so. `NoUnseenOverwrite`: a save removes
another's text only when the user was told. `DraftBacksScreen`: once the timer ran, a draft that an
opening would offer holds the screen's text.

A draft has two versions: the mark (`base`, `baseUpdatedAt`), which decides whether an opening
offers it, and that of the quote inside (`own`), which a save sends after the draft is restored
(599-607, 891). They differ once a reload put the mark before the screen's version
(MarkFollowsScreen in section 12), and then the second is what keeps another's text: the save is
refused.

What these three except. A draft of an older version of the row is dropped unasked (575-577, by
design): `WorkKept` excepts a change of the row while no editor is open. `bare` marks four windows
in which unsaved text is on the screen and in no usable draft until the next keystroke or hiding: a
conflict copy just opened (though the comment at 643 says the normal draft takes over), a version
just adopted after a Hanoi action (the stored draft keeps its old base), the answer to closing the
deal, and a write that failed on hiding. The answer to closing the deal sweeps text away altogether:
FindingTypedIsLost.

Not modelled: a quote never saved ("moi"), several tabs, change of user, the seven-day expiry of
drafts, images stripped from a draft, merging of pages after a conflict (`ghepTrangXungDot`),
preview.

## 11. Proofs

| Module | Content |
|---|---|
| QuoteLifecycle_proofs | lemmas about the pages: sums, order of ids, carried state, recreated rows, codes; `Typed` is inductive; TypeOK, LocksExclusive, HistoryIsRecord, NoLostUpdate, ConvertedTotalKept, EveryStepCounts, SomebodyIsAble; with bases NothingOverwritten (the handlers implement SerialQuote), ClosedIsFinal, TotalMatchesPages, PageStateStays, PositionalSaveKeepsState, CodesStand; CyclesNeedErase; RevenueIsRight and LocksWork of any two requests, revenue and NoLockCycle of any number until a save replaces rows |
| HanoiCosts_proofs | TypeOK, SummaryMatches, EntryIsRecord, PaidStands, ReviewStands |
| ExportGate_proofs | lemmas about queues in which nobody stands twice, the rows a set of jobs is charged, `Served` as the longest prefix that fits; TypeOK, NothingIsLost, LinesAreFair (both gates implement FairGate, EveryStepCounts) |
| BackgroundExport_proofs | TypeOK, FileIsRight, NoTwinJobs, NoOldFailure |
| QuoteNumber_proofs | lemmas about least numbers and sums; TypeOK, NumberNotBurnt, TriesLead, SomebodyIsAble |
| Uploads_proofs | TypeOK, StagingTraceable, PendingBounded, FinishedStands |
| InvoiceSplit_proofs | TypeOK, NumberShared, PreviewIsStored, BooksStand |
| EditorDraft_proofs | TypeOK, DraftBacksScreen, WorkKept, NoUnseenOverwrite |

Assumptions: those of the module (constants are sets of the expected kind; `Req` is any set).
Theorems marked "with bases" assume `FALSE \notin Bases`: every client sends the version it loaded.

QuoteLifecycle. `TypeOK` is not inductive: a commit writes what the request read, so `Typed` adds,
for each phase of a request, the shape of its local copies and that the stamps in them are not from
the future. `StepKinds` then splits every step into six: a copy loaded, a request accepted, a wait
advanced, a read under locks, an end without effect, a write. From it come the invariants the
theorems rest on:

* `Stamps`: a step that changes the Quote row gives it a stamp no request has; otherwise status, VAT
  and prices are what they were. So a copy with the current stamp is current:
* `Based`: a client's copy with the current stamp has the stored prices and VAT, which is
  NoLostUpdate;
* `Informed`, `Stamped`: a handler's first read with the current stamp has the stored status and
  total inputs, and a save with a base that passes chotKhoaLacQuan has read just that. A final
  status is never overwritten, and the total written is that of the VAT stored;
* `Holding`: between its lock and its commit a save holds every row it read, unless it was deleted
  under it, so by LocksExclusive no decision, invoice or signature comes between (LocksExclusive
  itself needs only that a row is granted when free, and everything is released at the end);
* `PagesOnce`: a logical page has one row, so the payload's ids name different pages and carrying
  state is injective.

What this leaves to the single properties of QuoteLifecycle:

* PageStateStays needs `Deciding`: a decision about to commit, if its page is still there, holds
  every page, and none has a number; so no number comes between its check and its write;
* CodesStand needs `CodesKnown`: a code in use was issued, is not above the mark the next one is
  taken from, and is on one page. A save takes its codes above the mark of its first read, which is
  the stored one if its base is current;
* PositionalSaveKeepsState compares two orders of the same rows: what stands k-th by id before the
  save stands k-th after it, because new ids are given in the order of the payload;
* CyclesNeedErase rests on `Queues`: who waits for a row before it has Quote holds only rows of
  lower ids; Quote is held by a save that reads, erases or commits, and only erasing waits. If no
  holder of Quote were in a circle, all would wait for rows, and whoever wants the highest would wait
  for one that holds it and wants a row still higher. By `Ordered` nobody erases before
  rows are replaced, by `SaveAnswered` the one who replaced them has its answer, and nobody with an
  answer blocks. Two requests are too few for that (`PairsDoNotWait`), and so is any number before
  the first such save (`NoCycleBeforeSave`);
* RevenueIsRight rests on `ReadsCurrent`: before the first save whoever writes from what it read
  after its locks holds every page, so what it read is current at its commit. ConvertedTotalKept
  also needs that a total is a number: `SumNat` proves it of the fold that adds the prices, by a
  smallest set whose sum is none. The assumption that NoTotal is no number (the NULL of the column)
  is there for it;
* NothingOverwritten rests on `Alone`: what a request that was let in still finds (`Allowed`: who
  opened a save or a header edit may still edit and the quote is not in the bin, while its base is
  current; a quote with an invoice or a signature under way is not in the bin), with Informed,
  Stamped, Holding, and what decisions and documents under way may rely on. Each action is then a
  step of SerialQuote: a wait or a read is a stutter, a commit the one write, an answer without
  effect `GiveUp`. The hard step is the save, whose rows, codes, total and status are computed from
  four reads at different moments: `Informed`, `Stamped` and `Holding` show each to be what it would
  be at the commit;
* EveryStepCounts: of the rows a request waits for only those still stored count (`RowsLeft`): a
  lock takes the least of them off or ends the wait, and a save of another, which deletes rows and
  makes new ones with new ids, leaves no more of them;
* SomebodyIsAble (of any finite number of requests): whoever is not able waits for somebody who is
  in a transaction (`WaitsForSomebody`: a request that waits for Quote waits for its holder). A
  smallest set of requests that wait for each other is a cycle, and in a cycle the detector makes
  its members able. `QuoteLast` says that Quote is taken after the pages, with the one exception of
  the rows a save recreates.

ExportGate. The only assumption is ExportAssumption: any finite set of jobs, any limits. `Inv` adds
to the properties that a queue holds exactly the jobs whose `pc` waits in it, each once, and that
none of them has been aborted. Every action has one of five effects on each gate (kept, taken,
awaited, renounced, returned; `SlotEffect`, `RowEffect`), and each effect is shown once to preserve
the invariant and to be a step of FairGate. Two facts carry the row gate: `LeftIsOthers` (what `tra`
computes with the unclamped weight is what the other jobs hold) and `ServedIsLongest`.
`NeverTurnedAway` needs that who queues for rows holds a slot: with `MaxActive <= MaxPending + 1` (3
and 20 by default) the queue for rows is never full when somebody asks. EveryStepCounts follows from
the effects too: a line loses its head, a longest prefix or one who gave up, and gains at its end,
so `KeepsPlace` holds of each; who is served or aborted moves to a later `Stage`.

HanoiCosts. The assumptions are those of the module: the kinds of people are sets of users, amounts
are not the absent value. No number of requests or rows is assumed. `Shaped` types what every
request carries and says what a request must be to stand where it stands. `StepKinds` splits a step
by what it does to one request and the tables: nothing (`Quiet`), a FOR SHARE taken, an entry
seeded, an entry locked, the rows written (by a save, a review, an assignment, a delete), an entry
written. Three invariants carry the rest:

* `Booked`: whoever has locked an entry holds it as it is stored, and of two who insert the same
  entry only one is pending; so no entry is overwritten unseen and its proofs stay exact;
* `Current`: what an accountant read of the row under FOR SHARE (there, amount, approved) stays true
  until the transaction ends, because no writer of rows commits while one is open;
* `PaidThere`: a row paid is in the table, which a save keeps by its refusals and a payment by
  `Current`.

SummaryMatches needs no invariant beyond the types: each writer stores the summary of what it
writes; reviews stand because `Merged` keeps the state of every row it does not change.

BackgroundExport. `IInv` joins TypeOK with what an unfinished job, a worker and a tab know: the job
a worker has is known and what it shows is no older than the job's key (`RunnerShape`); a file shows
no less than its key (`ObjectShape`); a tab waits for a job of the version it saw (`TabShape`); an
unfinished job holds its key until that expires (`HoldsItsKey`), also against the late commands
(`LateShape`). `JobStep` lists the ways a step may change a job, `TabMoves` those of a tab, so each
conjunct is shown once for all actions. NoTwinJobs is then immediate: one key, one holder.
NoOldFailure needs `RetryShape`: the jobs that had failed at the click stay over; until the tab has
removed the one it was given, the key names no other of them, and afterwards none.

QuoteNumber. For any calls, years and employees; NumberAssumption says what is migrated.
`LocksFollow`: who has written a counter row holds its lock, and nobody else does. `GivenKnown`: the
counters know every value given that is not `blind` (a typed value whose recording failed). `Passed`
is why a retry helps: each value met is behind the counter, of another year, or still to be recorded
before the next try asks. NumberNotBurnt follows because a counter moves only with a commit that
uses its value or to a value somebody has. SomebodyIsAble: the row of a number is taken before that
of a code (`NumbersFirst`), so who holds the row of a code waits for nobody, and who holds only the
row of a number waits at most for one of those. EveryStepCounts: within a try each step is
to a later `Stage` or takes a value off `todo`; `Retry`, the only one back, needs `attempt` below
its bound, which `LastTry` guards.

Uploads. UploadAssumption: limits are numbers and the absent file is no file. `Newcomer`: a call
that makes a new row is alone with its file. `ClaimHolds`: between claim and end of a finalize its
row is finalized, so no second claim succeeds: OneCopies. `RoundIsOld`: what a round took is of age
2, its address no longer valid, so no PUT can come between the deletion of the object and that of
the row: StagingTraceable. PendingBounded needs `RoomLeft`: the pending rows and the calls that have
counted and not yet created are together fewer than the limit and all calls; the proof is one of
cardinalities.

InvoiceSplit. TypeOK, HeldIsIdle and NumberShared are inductive together. Numbers shared follow from
the marks, because every writer reads the pages it writes under the lock; each writer is shown once
to change the fields of whole invoices. PreviewIsStored compares two programs (`hoaDonChia.ts` and
the server's check) for every choice, whatever the state.

EditorDraft. Whatever the edits and the other constants (DraftAssumption: MaxVersion is above 0).

* `Past`: a quote read at some time is no newer than the row; with the row's version it has the
  row's text and fingerprint, with the row's fingerprint its main part;
* `Backed`: unsaved work on the version of the row is in a draft of that version, once the timer ran
  (`bare` and `mute` excepted); a save that was refused, or will be, relies on it;
* `ScreenFits`: base, next base and row are in order; under a clean screen the draft is dead and the
  text saved; what a draft an opening would offer holds of the user's is on the screen, given up or
  on the server;
* `DraftFits`, `Informed`: a draft whose own version is the row's, or a save on it, holds the row's
  text but for what the user was told of, which is NoUnseenOverwrite; a draft only marked with it
  holds the row's main part, since a reload compares that before it moves the mark;
* `CopyFits`: while the box of a conflict is open, the text on the screen is in the conflict copy or
  on the server;
* `OldFits`, `FetchFits`, `ConvFits`, `GotFits`: what each late answer may find. The save of an
  editor left leaves no draft that an opening would offer; a reload that is not of the screen's own
  version finds base and fingerprint of the screen equal.

WorkKept then asks of each action where the edits it takes off the screen went.

Only model-checked: that `Able`, the guards of the steps spelled out, is ENABLED of the step
(AbleIsEnabled, the other half of SomebodyGoesOn in QuoteLifecycle and QuoteNumber); EveryJobEnds of
ExportGate (liveness; that every step counts is proved). Not true in general, so neither:
RevenueIsRight and NoLockCycle when three requests or more meet a save that replaces rows (sections
3 and 12; CyclesNeedErase is what is true of locks then). ENABLED and liveness are outside the
prover's reach. Of sums it is proved on what they depend and that they are numbers, not their value.

FairGate and SerialQuote are the abstract specifications: ExportGate implements the first twice,
QuoteLifecycle the second, each checked as a property of a run and proved step by step.

The proofs corrected the models too. `AfterRows` had two CASE guards that were both true for a save
with rows still to delete: TLC takes the first, while the semantics leaves it open, and
SomebodyIsAble could not be proved before the guards excluded each other.

## 12. Promises of comments that the code does not keep

Two have a run of their own. **FindingInvoicedPage**: `canEdit` locks a quote from its first invoice
on (`quoteUtils.ts` 89-92), but updateQuote asks on its first read only (732). An invoice issued
while the save waits is not seen (updateSheetInvoice leaves `Quote.updatedAt` alone), and the save
reprices the invoiced page. The number itself survives (SheetStateSurvivesSave).
**FindingTypedIsLost**: the deal is closed "with nothing left to lose" (`web/pages/QuoteEditor.tsx`
994), but the grid is not locked while its calls are under way (only `saving` locks it), and the
answer replaces the quote as a whole (1057).

The others are definitions of the modules that no configuration lists. Each is refuted by a cfg of
section 3 to 9 whose properties are replaced by that one name; the length is that of the
counterexample.

| Definition, cfg | What a comment says, and what happens |
|---|---|
| ConvertedTotalMatches, QuoteTriples (20 states) | The revenue is that of the pages accepted (MONEY-01). markConverted locks the pages before it sums them (1818-1823), but when those rows were replaced by a save it waited for, it has locked none of the new ones, and a decision comes between its sum and its write |
| DeletedNotConverted, QuotePairs (9) | A closed deal is in no bin: "nobody may remove it" (2157), and deleteQuote checks again under its lock for that reason (2172-2175). markConverted's update tests the status and not `deletedAt` (1837): a quote deleted after the first read is closed in the bin |
| ReviewNotOverwritten, HanoiCosts (7) | "the second sees the row changed → 400" (hnWorkflow.ts 321-322). So it is for a review of *every pending row*; with `rids`, which the screens send, `duyet` accepts a row rejected meanwhile and `tra` one approved meanwhile (hnDuyetHang.ts 261-262) |
| AbandonedNeverInline, ExportAdmission (6) | "an abort must not fall back to inline" (exportQueue.ts 351-352). When the signal fires while the worker thread runs and the worker then fails, only the error is looked at (353): a job nobody waits for blocks the main thread |
| CodeNotBurnt, QuoteNumbers (14) | "no burned numbers" (quoteService.ts 2333-2336, 2370-2373). duplicateQuote records the project code as taken whichever index collided (2381-2383), and the code of the failed try is skipped for ever; createQuote tells the two apart (466) |
| SequentialUnique, QuoteNumbers (12) | "Concurrent callers each receive a unique sequential value" (head of quoteNumber.ts). The year is read for the counter row and again, after the wait for it, for the number (24): when a year begins in between, a number of the new year is made from the old counter, and the new counter makes it again |
| CompletedHasUrl, BackgroundExport (9) | a completed job gives its link (worker.ts 236-237). The route reads the job first and its state afterwards (jobs.routes.ts 246): a job that completes in between is "completed" without a result, and the client reports an error (exportQuote.ts 230) |
| RetryRunsAgain, BackgroundExport (10) | "a retry after a failure really runs" (jobs.routes.ts 128). Two tabs retry: a job the other has just removed is 'unknown' (142), and nothing is queued |
| OneInvoice, InvoiceSplit (5) | one invoice has one number and is paid once (quoteService.ts 1740). updateSheetInvoice skips refused pages (1768-1770), while a refused page that is paid stays in its invoice (invoiceSplitService.ts 87, `web/lib/format.tsx` 92-95) |
| MarkFollowsScreen, EditorDraft (10) | "the mark of the draft must follow the version just saved" (QuoteEditor.tsx 924). The reload after a Hanoi action that began before a save was answered and ends after it gives its version to the quote it began with and to the drafts to come (1160), not to the quote on the screen. Such a draft is offered as typed on the row's version and restored on its own (607), so its save is answered with 409 as if somebody had saved; nothing is overwritten |

Without a definition of their own: a finalize cut between its claim (files.routes.ts 396) and its
copy (407) leaves a row finalized with nothing behind it, and a second finalize answers that it is
done, though the comment at 404-405 wants the state never to say so with an empty key (`cut` in
FinishedIsStored); retention.ts 185 says finalize copies before it changes the status, the code
claims first; a save may delete a page that is paid and has no number (InvoiceSplit, `IssuedStands`
is about pages with a number).

## 13. Not modelled, and why

Sessions, tokens and login are left out on purpose: their properties are about who may get in and
want a review of their own with the cryptography they rest on. Realtime and webhooks are hand-overs
to Redis and HTTP, whose guarantees are theirs. Documents, formulas, money formatting and imports
are data conversions without state; the grid (`GridTable.tsx`), Excel output and the other pages of
the client are the bulk of the repository's lines and belong here. Authorization is a table whose
result the models take as input; directories are single-row updates; reads have no effects; the
shell is wiring; deployment has no behaviour to check. Each is a component of `PROJECT.json` with
its sources and reason, and what is left out of a component that is modelled in part is said in its
section above.

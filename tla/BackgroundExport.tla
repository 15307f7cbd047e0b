-------------------------- MODULE BackgroundExport --------------------------
(* The export of a large quote in the background: the route that queues the  *)
(* work (jobs.routes.ts), the queue (BullMQ on Redis, external), the worker   *)
(* processes (worker.ts) and the browser tab that waits for the file          *)
(* (web/src/lib/exportQuote.ts).                                              *)
(*                                                                            *)
(* One quote, one format, one user with several tabs: only then can two calls *)
(* meet in the queue, because the deduplication key holds all three and the   *)
(* time of the last change of the quote, which is its version here.           *)
EXTENDS Integers

CONSTANTS
    Tabs,         \* browser tabs of the user; each keeps its own lock (dangChay)
    Runners,      \* worker processes, one export at a time in each
    MaxJobs,      \* bound: jobs the queue creates
    MaxVersion,   \* bound: versions of the quote
    MaxClicks,    \* bound: clicks of all tabs together
    MaxFaults,    \* bound: commands out of time, failed steps, deaths and lost locks
    Attempts,     \* attempts of a job (3 in queue.ts)
    MaxStalled    \* times a job may stall and be run again (1 in BullMQ)

ASSUME ConstantsFit ==
    /\ {MaxJobs, MaxVersion, Attempts} \subseteq Nat \ {0}
    /\ {MaxClicks, MaxFaults, MaxStalled} \subseteq Nat
    /\ 0 \notin Runners

VARIABLES
    version,   \* Quote.updatedAt
    job,       \* the jobs the queue keeps in Redis
    keyHolder, \* the deduplication keys: the job that holds each, 0 when expired
    expired,   \* jobs whose deduplication key ended by its time to live
    object,    \* the file stored for each job: the version it shows, 0 when none
    runner,    \* what each worker process is doing
    tab,       \* the wait of each tab
    late,      \* commands whose caller gave up and Redis may still execute
    clicks,    \* clicks so far
    faults     \* faults so far

vars == <<version, job, keyHolder, expired, object, runner, tab, late, clicks, faults>>

Versions == 1..MaxVersion
Jobs == 1..MaxJobs
NoJob == 0
NoFile == 0

JobStates == {"none", "waiting", "active", "completed", "failed", "removed"}
Job == [state : JobStates, key : Versions, made : 0..Attempts,
        stalled : 0..MaxStalled, hasResult : BOOLEAN, lock : Runners \cup {NoJob}]
FreshJob(state, k) == [state |-> state, key |-> k, made |-> 0, stalled |-> 0,
                       hasResult |-> FALSE, lock |-> NoJob]

Runner == [at : {"idle", "build", "done"}, job : Jobs \cup {NoJob},
           shows : Versions \cup {NoFile}]
IdleRunner == [at |-> "idle", job |-> NoJob, shows |-> NoFile]

\* Where a wait is, and how the last one ended.
Waits == {"add", "check", "remove", "again", "poll", "state", "file"}
Ends == {"none", "error", "file", "noUrl"}
\* seen, dead: the version of the quote, and the jobs that had failed, at the click
\* slow: some command of the route ran into its time limit
\* snapshot: whether the job, as it was read for this poll, had a result
Tab == [at : {"idle"} \cup Waits, end : Ends, job : Jobs \cup {NoJob},
        seen : Versions, dead : SUBSET Jobs, slow : BOOLEAN,
        snapshot : BOOLEAN, got : Versions \cup {NoFile}]
\* A click that read version v; a wait that ended with file g.
Asking(v, failed) ==
    [at |-> "add", end |-> "none", job |-> NoJob, seen |-> v, dead |-> failed,
     slow |-> FALSE, snapshot |-> FALSE, got |-> NoFile]
Ended(how, v, g) ==
    [at |-> "idle", end |-> how, job |-> NoJob, seen |-> v, dead |-> {},
     slow |-> FALSE, snapshot |-> FALSE, got |-> g]

LateCommands == [op : {"add"}, key : Versions] \cup [op : {"remove"}, job : Jobs]

Init ==
    /\ version = 1
    /\ job = [j \in Jobs |-> FreshJob("none", 1)]
    /\ keyHolder = [k \in Versions |-> NoJob]
    /\ expired = {}
    /\ object = [j \in Jobs |-> NoFile]
    /\ runner = [w \in Runners |-> IdleRunner]
    /\ tab = [t \in Tabs |-> Ended("none", 1, NoFile)]
    /\ late = {}
    /\ clicks = 0
    /\ faults = 0

\* Everything that goes wrong is counted.
Fault == faults < MaxFaults /\ faults' = faults + 1

Exists(j) == job[j].state \notin {"none", "removed"}
Unfinished(j) == job[j].state \in {"waiting", "active"}

------------------------------------------------------------------------------
(* What the queue does with a command.                                        *)

\* Mutant: the key without the time of the last change.
KeyWithoutVersion(v) == 1
\* The deduplication key of a click that read version v (khoaGop).
KeyOf(v) == v

\* Mutant: jobs are added without deduplication.
NeverHolds(k) == FALSE
\* A job that holds key k takes the new one's place.
Holds(k) == keyHolder[k] # NoJob

\* Job ids are given in order.
Unused(j) == job[j].state = "none" /\ \A i \in 1..(j - 1) : job[i].state # "none"
NextId == CHOOSE j \in Jobs : Unused(j)
Added(k) == IF Holds(k) THEN keyHolder[k] ELSE NextId

\* queue.add with a deduplication key: the job that holds the key, or a new one.
QueueAdd(k) ==
    /\ Holds(k) \/ \E j \in Jobs : Unused(j)
    /\ keyHolder' = [keyHolder EXCEPT ![k] = Added(k)]
    /\ job' = IF Holds(k) THEN job
              ELSE [job EXCEPT ![NextId] = FreshJob("waiting", k)]

\* job.remove: the job and, when the job is its holder, its deduplication key.
QueueRemove(j) ==
    /\ job' = IF job[j].state = "active" \/ ~Exists(j) THEN job
              ELSE [job EXCEPT ![j].state = "removed", ![j].hasResult = FALSE]
    /\ keyHolder' = [k \in Versions |->
                       IF keyHolder[k] = j /\ job[j].state # "active"
                       THEN NoJob ELSE keyHolder[k]]

\* The time to live of a key ends, whatever became of the job.
ExpireKey(k) ==
    /\ Holds(k)
    /\ expired' = expired \cup {keyHolder[k]}
    /\ keyHolder' = [keyHolder EXCEPT ![k] = NoJob]
    /\ UNCHANGED <<version, job, object, runner, tab, late, clicks, faults>>

\* A command whose caller has given up is executed all the same.
LateCommand ==
    \E c \in late :
        /\ late' = late \ {c}
        /\ IF c.op = "add" THEN QueueAdd(c.key) ELSE QueueRemove(c.job)
        /\ UNCHANGED <<version, expired, object, runner, tab, clicks, faults>>

------------------------------------------------------------------------------
(* The tab and the route.                                                     *)

Goto(t, place) == tab' = [tab EXCEPT ![t].at = place]
\* The wait ends; every message but "no link" is an error to the user.
Finish(t, how) == tab' = [tab EXCEPT ![t] = Ended(how, 1, NoFile)]
\* A Redis command of the route meets its time limit: it is lost, or late.
GivesUp(c) == late' \in {late, late \cup {c}}

Edit ==
    /\ version < MaxVersion
    /\ version' = version + 1
    /\ UNCHANGED <<job, keyHolder, expired, object, runner, tab, late, clicks, faults>>

\* A click: the export over HTTP answers 413 and the tab posts to the route,
\* which reads the quote.
Click(t) ==
    /\ tab[t].at = "idle"
    /\ clicks < MaxClicks
    /\ clicks' = clicks + 1
    /\ tab' = [tab EXCEPT ![t] =
                 Asking(version, {j \in Jobs : job[j].state = "failed"})]
    /\ UNCHANGED <<version, job, keyHolder, expired, object, runner, late, faults>>

Add(t) ==
    /\ tab[t].at = "add"
    /\ QueueAdd(KeyOf(tab[t].seen))
    /\ tab' = [tab EXCEPT ![t].at = "check", ![t].job = Added(KeyOf(tab[t].seen))]
    /\ UNCHANGED <<version, expired, object, runner, late, clicks, faults>>

AddTimesOut(t) ==
    /\ tab[t].at = "add"
    /\ GivesUp([op |-> "add", key |-> KeyOf(tab[t].seen)])
    /\ Finish(t, "error")
    /\ Fault
    /\ UNCHANGED <<version, job, keyHolder, expired, object, runner, clicks>>

\* Mutant: the failed job is answered again.
KeepsFailed(j) == FALSE
\* The route runs the work again when the job it was given has failed.
Retries(j) == job[j].state = "failed"

CheckState(t) ==
    /\ tab[t].at = "check"
    /\ Goto(t, IF Retries(tab[t].job) THEN "remove" ELSE "poll")
    /\ UNCHANGED <<version, job, keyHolder, expired, object, runner, late, clicks, faults>>

CheckTimesOut(t) ==
    /\ tab[t].at = "check"
    /\ tab' = [tab EXCEPT ![t].at = "poll", ![t].slow = TRUE]
    /\ Fault
    /\ UNCHANGED <<version, job, keyHolder, expired, object, runner, late, clicks>>

RemoveFailed(t) ==
    /\ tab[t].at = "remove"
    /\ QueueRemove(tab[t].job)
    /\ Goto(t, "again")
    /\ UNCHANGED <<version, expired, object, runner, late, clicks, faults>>

RemoveTimesOut(t) ==
    /\ tab[t].at = "remove"
    /\ GivesUp([op |-> "remove", job |-> tab[t].job])
    /\ tab' = [tab EXCEPT ![t].at = "poll", ![t].slow = TRUE]
    /\ Fault
    /\ UNCHANGED <<version, job, keyHolder, expired, object, runner, clicks>>

AddAgain(t) ==
    /\ tab[t].at = "again"
    /\ QueueAdd(KeyOf(tab[t].seen))
    /\ tab' = [tab EXCEPT ![t].at = "poll", ![t].job = Added(KeyOf(tab[t].seen))]
    /\ UNCHANGED <<version, expired, object, runner, late, clicks, faults>>

\* The second add runs out of time: the answer names the job that was removed.
AddAgainTimesOut(t) ==
    /\ tab[t].at = "again"
    /\ GivesUp([op |-> "add", key |-> KeyOf(tab[t].seen)])
    /\ tab' = [tab EXCEPT ![t].at = "poll", ![t].slow = TRUE]
    /\ Fault
    /\ UNCHANGED <<version, job, keyHolder, expired, object, runner, clicks>>

\* 503 job_state_timeout: the tab asks again later.
PollSlow(t) ==
    /\ tab[t].at = "state"
    /\ tab' = [tab EXCEPT ![t].at = "poll", ![t].snapshot = FALSE]
    /\ UNCHANGED <<version, job, keyHolder, expired, object, runner, late, clicks, faults>>

\* The five minutes of the tab are over: it takes no answer but a final one.
GiveUpWaiting(t) ==
    /\ tab[t].at \in {"poll", "state"}
    /\ Unfinished(tab[t].job)
    /\ Finish(t, "error")
    /\ UNCHANGED <<version, job, keyHolder, expired, object, runner, late, clicks, faults>>

\* First command of a poll: the job as it is now, its result included.
PollGetJob(t) ==
    /\ tab[t].at = "poll"
    /\ IF Exists(tab[t].job)
       THEN tab' = [tab EXCEPT ![t].at = "state",
                               ![t].snapshot = job[tab[t].job].hasResult]
       ELSE Finish(t, "error")
    /\ UNCHANGED <<version, job, keyHolder, expired, object, runner, late, clicks, faults>>

\* Second command: the state of the job, answered with the result read before.
PollGetState(t) ==
    LET state == job[tab[t].job].state IN
    /\ tab[t].at = "state"
    /\ CASE state = "completed" /\ tab[t].snapshot  -> Goto(t, "file")
         [] state = "completed" /\ ~tab[t].snapshot -> Finish(t, "noUrl")
         [] state \in {"failed", "removed"}         -> Finish(t, "error")
         [] Unfinished(tab[t].job)                  -> Goto(t, "poll")
    /\ UNCHANGED <<version, job, keyHolder, expired, object, runner, late, clicks, faults>>

\* The browser follows the link: the route streams the object of the job.
Download(t) ==
    LET j == tab[t].job IN
    /\ tab[t].at = "file"
    /\ IF Exists(j) /\ job[j].hasResult /\ object[j] # NoFile
       THEN tab' = [tab EXCEPT ![t] = Ended("file", tab[t].seen, object[j])]
       ELSE Finish(t, "error")
    /\ UNCHANGED <<version, job, keyHolder, expired, object, runner, late, clicks, faults>>

\* Redis is slow for the link, which nobody asks for again.
DownloadSlow(t) ==
    /\ tab[t].at = "file"
    /\ Finish(t, "error")
    /\ UNCHANGED <<version, job, keyHolder, expired, object, runner, late, clicks, faults>>

------------------------------------------------------------------------------
(* The workers.                                                               *)

Owns(w) == runner[w].at # "idle" /\ job[runner[w].job].lock = w

\* A worker takes a job and reads the quote as it is now.
Take(w) ==
    \E j \in Jobs :
        /\ runner[w].at = "idle"
        /\ job[j].state = "waiting"
        /\ runner' = [runner EXCEPT ![w] = [at |-> "build", job |-> j, shows |-> version]]
        /\ job' = [job EXCEPT ![j].state = "active", ![j].lock = w]
        /\ UNCHANGED <<version, keyHolder, expired, object, tab, late, clicks, faults>>

\* The file is made and stored.
\* The object of a job has the job's own name: a second run overwrites it.
Put(w) ==
    /\ runner[w].at = "build"
    /\ object' = [object EXCEPT ![runner[w].job] = runner[w].shows]
    /\ runner' = [runner EXCEPT ![w].at = "done"]
    /\ UNCHANGED <<version, job, keyHolder, expired, tab, late, clicks, faults>>

\* Mutant: the upload is not awaited.
MayReturnEarly(w) == runner[w].at \in {"build", "done"}
\* The handler returns.
Returned(w) == runner[w].at = "done"

\* A worker that has lost its lock can neither complete nor fail the job.
Complete(w) ==
    /\ Returned(w)
    /\ job' = IF Owns(w)
              THEN [job EXCEPT ![runner[w].job].state = "completed",
                               ![runner[w].job].hasResult = TRUE,
                               ![runner[w].job].lock = NoJob]
              ELSE job
    /\ runner' = [runner EXCEPT ![w] = IdleRunner]
    /\ UNCHANGED <<version, keyHolder, expired, object, tab, late, clicks, faults>>

\* Mutant: one attempt too many.
LastAttemptLate(j) == job[j].made + 1 > Attempts
LastAttempt(j) == job[j].made + 1 >= Attempts

\* The handler throws: the job waits for its next attempt or has failed.
FailAttempt(w, final) ==
    LET j == runner[w].job IN
    /\ job' = IF ~Owns(w) THEN job
              ELSE [job EXCEPT ![j].state = IF final \/ LastAttempt(j)
                                            THEN "failed" ELSE "waiting",
                               ![j].made = @ + 1, ![j].lock = NoJob]
    /\ runner' = [runner EXCEPT ![w] = IdleRunner]
    /\ Fault
    /\ UNCHANGED <<version, keyHolder, expired, object, tab, late, clicks>>

\* A database, a thread or a store that fails is tried again ...
StepFails(w) == runner[w].at = "build" /\ FailAttempt(w, FALSE)
\* ... a quote over the limit, or a file not made in time, is not.
CannotBuild(w) == runner[w].at = "build" /\ FailAttempt(w, TRUE)

\* A worker process dies with its work; its lock ends with its time.
Crash(w) ==
    /\ runner[w].at # "idle"
    /\ job' = IF Owns(w) THEN [job EXCEPT ![runner[w].job].lock = NoJob] ELSE job
    /\ runner' = [runner EXCEPT ![w] = IdleRunner]
    /\ Fault
    /\ UNCHANGED <<version, keyHolder, expired, object, tab, late, clicks>>

\* A worker too busy to renew its lock loses it and goes on without it.
LoseLock(w) ==
    /\ Owns(w)
    /\ job' = [job EXCEPT ![runner[w].job].lock = NoJob]
    /\ Fault
    /\ UNCHANGED <<version, keyHolder, expired, object, runner, tab, late, clicks>>

RunAgain(j) == job[j].stalled < MaxStalled

\* The check of stalled jobs: an active job without a lock runs again or fails.
Stall(j) ==
    /\ job[j].state = "active"
    /\ job[j].lock = NoJob
    /\ job' = IF RunAgain(j)
              THEN [job EXCEPT ![j].state = "waiting", ![j].stalled = @ + 1]
              ELSE [job EXCEPT ![j].state = "failed"]
    /\ UNCHANGED <<version, keyHolder, expired, object, runner, tab, late, clicks, faults>>

------------------------------------------------------------------------------
RouteStep(t) ==
    \/ Add(t) \/ AddTimesOut(t) \/ CheckState(t) \/ CheckTimesOut(t)
    \/ RemoveFailed(t) \/ RemoveTimesOut(t) \/ AddAgain(t) \/ AddAgainTimesOut(t)
PollStep(t) ==
    \/ PollSlow(t) \/ PollGetJob(t) \/ PollGetState(t)
    \/ GiveUpWaiting(t) \/ Download(t) \/ DownloadSlow(t)
RunnerStep(w) ==
    \/ Take(w) \/ Put(w) \/ Complete(w)
    \/ StepFails(w) \/ CannotBuild(w) \/ Crash(w)

Next ==
    \/ Edit
    \/ LateCommand
    \/ \E k \in Versions : ExpireKey(k)
    \/ \E t \in Tabs : Click(t) \/ RouteStep(t) \/ PollStep(t)
    \/ \E w \in Runners : RunnerStep(w) \/ LoseLock(w)
    \/ \E j \in Jobs : Stall(j)

Spec == Init /\ [][Next]_vars

------------------------------------------------------------------------------
\* What the variables hold.
Typed ==
    /\ version \in Versions
    /\ job \in [Jobs -> Job]
    /\ keyHolder \in [Versions -> Jobs \cup {NoJob}]
    /\ expired \subseteq Jobs
    /\ object \in [Jobs -> Versions \cup {NoFile}]
    /\ runner \in [Runners -> Runner]
    /\ tab \in [Tabs -> Tab]
    /\ late \subseteq LateCommands
    /\ clicks \in 0..MaxClicks
    /\ faults \in 0..MaxFaults

\* The state is what the code can store: in particular a job that is not
\* finished has an attempt left (jobOptionsFor), and none stalls once too often.
TypeOK == Typed /\ \A j \in Jobs : Unfinished(j) => job[j].made < Attempts

\* The file a user is given shows the quote as it was at the click or later,
\* although the job may be another tab's, may be run again after a crash and may
\* be written by a worker that has lost it (jobs.routes.ts, updatedAt in khoaGop).
FileAsFresh == \A t \in Tabs : tab[t].end = "file" => tab[t].got >= tab[t].seen

\* A job is completed only when its file is in the store, at whatever step a
\* worker died or lost its lock before (worker.ts: putObject before return).
CompletedHasFile == \A j \in Jobs : job[j].state = "completed" => object[j] # NoFile

\* Clicks on the same quote, from any tab, with retries and with commands that
\* are executed late, never run two jobs for the same key unless the time to
\* live of the key has passed (jobs.routes.ts: deduplication).
NoTwinJobs ==
    \A i, j \in Jobs \ expired :
        Unfinished(i) /\ Unfinished(j) /\ job[i].key = job[j].key => i = j

\* A click whose route met no slow command is never answered the failure of a
\* job that had failed before the click, from whatever tab it came: trying again
\* does not show the old error again (jobs.routes.ts, getState and remove).
NoOldFailure ==
    \A t \in Tabs :
        tab[t].at \in {"poll", "state"} /\ ~tab[t].slow
        /\ tab[t].job \in tab[t].dead => job[tab[t].job].state # "failed"

\* ... and is answered a job that runs, or ran after the click
\* (jobs.routes.ts:128, "THỬ LẠI SAU KHI JOB HỎNG PHẢI CHẠY THẬT"): the code
\* does not keep this for two tabs that try again at once (README, section 12).
RetryRunsAgain ==
    \A t \in Tabs :
        tab[t].at \in {"poll", "state", "file"} /\ ~tab[t].slow
            => tab[t].job \notin tab[t].dead

\* A tab that learns its job is completed is given the link of the file
\* (worker.ts:236, "GET /api/jobs/export/:id trả đường tải"): the code does not
\* keep this when the job ends during the poll (README, section 12).
CompletedHasUrl == \A t \in Tabs : tab[t].end # "noUrl"

\* A finished export is there, and is the one that was asked for.
FileIsRight == FileAsFresh /\ CompletedHasFile
=============================================================================

----------------------- MODULE BackgroundExport_proofs -----------------------
(* Proofs about BackgroundExport for any tabs, workers and bounds.             *)
EXTENDS BackgroundExport, TLAPS

------------------------------------------------------------------------------
(* The inductive invariant.                                                    *)

\* A tab knows its job from the first add to the end of its wait.
HasJob(t) == tab[t].at \in {"check", "remove", "again", "poll", "state", "file"}
Known(j) == job[j].state # "none"
Working(w) == runner[w].at # "idle"

\* Only an active job has a lock; one that is not finished has an attempt left.
JobShape ==
    \A j \in Jobs :
        /\ job[j].lock # NoJob => job[j].state = "active"
        /\ Unfinished(j) => job[j].made < Attempts
        /\ Known(j) => job[j].key <= version
        /\ job[j].state = "completed" => object[j] # NoFile

\* A worker shows a version no older than the one its job is about.
RunnerShape ==
    \A w \in Runners :
        /\ Working(w) => /\ runner[w].job \in Jobs
                         /\ Known(runner[w].job)
                         /\ runner[w].shows \in Versions
                         /\ runner[w].shows >= job[runner[w].job].key
        /\ runner[w].at = "done" => object[runner[w].job] # NoFile

\* ... and so does the file of a job.
ObjectShape ==
    \A j \in Jobs : object[j] # NoFile => Known(j) /\ object[j] >= job[j].key

\* The job a tab waits for is about the version the tab has seen.
TabShape ==
    \A t \in Tabs :
        /\ tab[t].seen <= version
        /\ HasJob(t) => /\ tab[t].job \in Jobs
                        /\ Known(tab[t].job)
                        /\ job[tab[t].job].key = tab[t].seen

\* A key is held by a job that has that key.
KeyShape ==
    \A k \in Versions : keyHolder[k] # NoJob =>
        /\ Known(keyHolder[k])
        /\ job[keyHolder[k]].key = k

\* An unfinished job holds its key until the key expires.
HoldsItsKey ==
    \A j \in Jobs : Unfinished(j) => j \in expired \/ keyHolder[job[j].key] = j

\* A late command is about a version the quote has had.
LateShape == \A c \in late : c.op = "add" => c.key <= version

IInv ==
    /\ Typed
    /\ JobShape
    /\ RunnerShape
    /\ ObjectShape
    /\ TabShape
    /\ KeyShape
    /\ HoldsItsKey
    /\ LateShape
    /\ FileAsFresh

LEMMA NextIdIsUnused ==
    ASSUME \E j \in Jobs : Unused(j)
    PROVE  NextId \in Jobs /\ job[NextId].state = "none"
BY DEF NextId, Unused

\* The initial state is as the invariant says.
LEMMA InitIsFine == Init => IInv
BY ConstantsFit DEF Init, IInv, Typed, JobShape, RunnerShape, ObjectShape, TabShape,
  KeyShape, HoldsItsKey, LateShape, FileAsFresh, FreshJob, IdleRunner, Ended,
  Job, Runner, Tab, Jobs, Versions, NoJob, NoFile, JobStates, Waits, Ends, HasJob,
  Known, Working, Unfinished, LateCommands

------------------------------------------------------------------------------
(* Type correctness.                                                           *)

\* Adding a job keeps the shape of what the queue stores.
LEMMA AddKeepsTypes ==
    ASSUME Typed, NEW k \in Versions, QueueAdd(k)
    PROVE  /\ job' \in [Jobs -> Job]
           /\ keyHolder' \in [Versions -> Jobs \cup {NoJob}]
           /\ Added(k) \in Jobs
<1>1. Added(k) \in Jobs
  BY NextIdIsUnused DEF Typed, QueueAdd, Added, Holds
<1>2. FreshJob("waiting", k) \in Job
  BY ConstantsFit DEF FreshJob, Job, JobStates, NoJob, Versions
<1> QED BY <1>1, <1>2 DEF Typed, QueueAdd

LEMMA FieldsOfJob ==
    ASSUME NEW r \in Job
    PROVE  /\ [r EXCEPT !.state = "removed", !.hasResult = FALSE] \in Job
           /\ [r EXCEPT !.lock = NoJob] \in Job
           /\ [r EXCEPT !.state = "failed"] \in Job
           /\ [r EXCEPT !.state = "completed", !.hasResult = TRUE, !.lock = NoJob] \in Job
           /\ \A w \in Runners : [r EXCEPT !.state = "active", !.lock = w] \in Job
           /\ r.stalled < MaxStalled =>
                [r EXCEPT !.state = "waiting", !.stalled = @ + 1] \in Job
           /\ \A q \in {"waiting", "failed"} : r.made < Attempts =>
                [r EXCEPT !.state = q, !.made = @ + 1, !.lock = NoJob] \in Job
<1>1. r.stalled < MaxStalled => r.stalled + 1 \in 0..MaxStalled
  BY ConstantsFit DEF Job
<1>2. r.made < Attempts => r.made + 1 \in 0..Attempts
  BY ConstantsFit DEF Job
<1>3. /\ [r EXCEPT !.state = "removed", !.hasResult = FALSE] \in Job
      /\ [r EXCEPT !.lock = NoJob] \in Job
      /\ [r EXCEPT !.state = "failed"] \in Job
      /\ [r EXCEPT !.state = "completed", !.hasResult = TRUE, !.lock = NoJob] \in Job
      /\ \A w \in Runners : [r EXCEPT !.state = "active", !.lock = w] \in Job
  BY DEF Job, JobStates, NoJob
<1>4. ASSUME r.stalled < MaxStalled
      PROVE  [r EXCEPT !.state = "waiting", !.stalled = @ + 1] \in Job
  BY <1>1, <1>4 DEF Job, JobStates, NoJob
<1>5. ASSUME NEW q \in {"waiting", "failed"}, r.made < Attempts
      PROVE  [r EXCEPT !.state = q, !.made = @ + 1, !.lock = NoJob] \in Job
  BY <1>2, <1>5 DEF Job, JobStates, NoJob
<1> QED BY <1>3, <1>4, <1>5

LEMMA RemoveKeepsTypes ==
    ASSUME Typed, NEW j \in Jobs, QueueRemove(j)
    PROVE  /\ job' \in [Jobs -> Job]
           /\ keyHolder' \in [Versions -> Jobs \cup {NoJob}]
<1>1. [job[j] EXCEPT !.state = "removed", !.hasResult = FALSE] \in Job
  BY FieldsOfJob DEF Typed
<1> QED BY <1>1 DEF Typed, QueueRemove

LEMMA FieldsOfTab ==
    ASSUME NEW r \in Tab, NEW a \in Waits
    PROVE  /\ [r EXCEPT !.at = a] \in Tab
           /\ \A j \in Jobs : [r EXCEPT !.at = a, !.job = j] \in Tab
           /\ [r EXCEPT !.at = a, !.slow = TRUE] \in Tab
           /\ \A b \in BOOLEAN : [r EXCEPT !.at = a, !.snapshot = b] \in Tab
BY DEF Tab, Waits

LEMMA WaitsAreTabs ==
    ASSUME NEW e \in Ends, NEW v \in Versions, NEW g \in Versions \cup {NoFile},
           NEW d \in SUBSET Jobs
    PROVE  /\ Ended(e, v, g) \in Tab
           /\ Asking(v, d) \in Tab
BY ConstantsFit DEF Ended, Asking, Tab, Waits, Ends, Versions, NoFile, NoJob

LEMMA FinishIsTab ==
    ASSUME Typed, NEW t \in Tabs, NEW e \in Ends, Finish(t, e)
    PROVE  tab' \in [Tabs -> Tab]
<1>1. Ended(e, 1, NoFile) \in Tab
  BY WaitsAreTabs, ConstantsFit DEF Versions, NoFile
<1> QED BY <1>1 DEF Finish, Typed

LEMMA GotoIsTab ==
    ASSUME Typed, NEW t \in Tabs, NEW a \in Waits, Goto(t, a)
    PROVE  tab' \in [Tabs -> Tab]
BY FieldsOfTab DEF Goto, Typed

\* Every step of a tab and of the route.
LEMMA TabKeepsTypes ==
    ASSUME IInv, NEW t \in Tabs, RouteStep(t) \/ PollStep(t) \/ Click(t)
    PROVE  Typed'
<1> USE DEF Typed
<1>t. Typed /\ tab[t] \in Tab /\ (HasJob(t) => tab[t].job \in Jobs)
  BY DEF IInv, TabShape
<1>s. tab[t].seen \in Versions /\ tab[t].snapshot \in BOOLEAN
  BY <1>t DEF Tab
<1>w. /\ {"add", "check", "remove", "again", "poll", "state", "file"} \subseteq Waits
      /\ {"error", "file", "noUrl"} \subseteq Ends
  BY DEF Waits, Ends
<1>1. CASE Add(t)
  <2>1. Added(tab[t].seen) \in Jobs /\ job' \in [Jobs -> Job]
          /\ keyHolder' \in [Versions -> Jobs \cup {NoJob}]
    BY <1>1, <1>s, <1>t, AddKeepsTypes DEF Add, KeyOf
  <2>2. [tab[t] EXCEPT !.at = "check", !.job = Added(tab[t].seen)] \in Tab
    BY <2>1, <1>t, <1>w, FieldsOfTab
  <2> QED BY <1>1, <1>t, <2>1, <2>2 DEF Add, KeyOf
<1>2. CASE AddTimesOut(t)
  <2>1. late' \subseteq LateCommands
    BY <1>2, <1>s, <1>t DEF AddTimesOut, GivesUp, LateCommands, KeyOf
  <2>2. tab' \in [Tabs -> Tab]
    BY <1>2, <1>t, <1>w, FinishIsTab DEF AddTimesOut
  <2> QED BY <1>2, <1>t, <2>1, <2>2, ConstantsFit DEF AddTimesOut, Fault
<1>3. CASE CheckState(t)
  <2>1. tab' \in [Tabs -> Tab]
    BY <1>3, <1>t, <1>w, GotoIsTab DEF CheckState
  <2> QED BY <1>3, <1>t, <2>1 DEF CheckState
<1>4. CASE CheckTimesOut(t)
  <2>1. [tab[t] EXCEPT !.at = "poll", !.slow = TRUE] \in Tab
    BY <1>t, <1>w, FieldsOfTab
  <2> QED BY <1>4, <1>t, <2>1, ConstantsFit DEF CheckTimesOut, Fault
<1>5. CASE RemoveFailed(t)
  <2>1. job' \in [Jobs -> Job] /\ keyHolder' \in [Versions -> Jobs \cup {NoJob}]
    BY <1>5, <1>t, RemoveKeepsTypes DEF RemoveFailed, HasJob
  <2>2. tab' \in [Tabs -> Tab]
    BY <1>5, <1>t, <1>w, GotoIsTab DEF RemoveFailed
  <2> QED BY <1>5, <1>t, <2>1, <2>2 DEF RemoveFailed
<1>6. CASE RemoveTimesOut(t)
  <2>1. late' \subseteq LateCommands
    BY <1>6, <1>t DEF RemoveTimesOut, GivesUp, LateCommands, HasJob
  <2>2. [tab[t] EXCEPT !.at = "poll", !.slow = TRUE] \in Tab
    BY <1>t, <1>w, FieldsOfTab
  <2> QED BY <1>6, <1>t, <2>1, <2>2, ConstantsFit DEF RemoveTimesOut, Fault
<1>7. CASE AddAgain(t)
  <2>1. Added(tab[t].seen) \in Jobs /\ job' \in [Jobs -> Job]
          /\ keyHolder' \in [Versions -> Jobs \cup {NoJob}]
    BY <1>7, <1>s, <1>t, AddKeepsTypes DEF AddAgain, KeyOf
  <2>2. [tab[t] EXCEPT !.at = "poll", !.job = Added(tab[t].seen)] \in Tab
    BY <2>1, <1>t, <1>w, FieldsOfTab
  <2> QED BY <1>7, <1>t, <2>1, <2>2 DEF AddAgain, KeyOf
<1>8. CASE AddAgainTimesOut(t)
  <2>1. late' \subseteq LateCommands
    BY <1>8, <1>s, <1>t DEF AddAgainTimesOut, GivesUp, LateCommands, KeyOf
  <2>2. [tab[t] EXCEPT !.at = "poll", !.slow = TRUE] \in Tab
    BY <1>t, <1>w, FieldsOfTab
  <2> QED BY <1>8, <1>t, <2>1, <2>2, ConstantsFit DEF AddAgainTimesOut, Fault
<1>9. CASE PollSlow(t)
  <2>1. [tab[t] EXCEPT !.at = "poll", !.snapshot = FALSE] \in Tab
    BY <1>t, <1>w, FieldsOfTab
  <2> QED BY <1>9, <1>t, <2>1 DEF PollSlow
<1>10. CASE GiveUpWaiting(t) \/ DownloadSlow(t)
  <2>1. tab' \in [Tabs -> Tab]
    BY <1>10, <1>t, <1>w, FinishIsTab DEF GiveUpWaiting, DownloadSlow
  <2> QED BY <1>10, <1>t, <2>1 DEF GiveUpWaiting, DownloadSlow
<1>11. CASE PollGetJob(t)
  <2>1. job[tab[t].job].hasResult \in BOOLEAN
    BY <1>11, <1>t DEF PollGetJob, HasJob, Job
  <2>2. [tab[t] EXCEPT !.at = "state", !.snapshot = job[tab[t].job].hasResult] \in Tab
    BY <2>1, <1>t, <1>w, FieldsOfTab
  <2>3. tab' \in [Tabs -> Tab]
    BY <1>11, <1>t, <1>w, <2>2, FinishIsTab DEF PollGetJob
  <2> QED BY <1>11, <1>t, <2>3 DEF PollGetJob
<1>12. CASE PollGetState(t)
  <2>1. \/ Goto(t, "file") \/ Goto(t, "poll")
        \/ Finish(t, "noUrl") \/ Finish(t, "error")
    <3>1. job[tab[t].job].state \in JobStates
      BY <1>12, <1>t DEF PollGetState, HasJob, Job
    <3>2. Known(tab[t].job)
      BY <1>12 DEF PollGetState, IInv, TabShape, HasJob
    <3> QED BY <1>12, <1>s, <3>1, <3>2 DEF PollGetState, JobStates, Known, Unfinished
  <2>2. tab' \in [Tabs -> Tab]
    BY <1>t, <1>w, <2>1, FinishIsTab, GotoIsTab
  <2> QED BY <1>12, <1>t, <2>2 DEF PollGetState
<1>13. CASE Download(t)
  <2>1. object[tab[t].job] \in Versions \cup {NoFile}
    BY <1>13, <1>t DEF Download, HasJob
  <2>2. Ended("file", tab[t].seen, object[tab[t].job]) \in Tab
    BY <2>1, <1>s, <1>w, WaitsAreTabs
  <2>3. tab' \in [Tabs -> Tab]
    BY <1>13, <1>t, <1>w, <2>2, FinishIsTab DEF Download
  <2> QED BY <1>13, <1>t, <2>3 DEF Download
<1>14. CASE Click(t)
  <2> DEFINE d == {j \in Jobs : job[j].state = "failed"}
  <2>1. Asking(version, d) \in Tab
    BY <1>t, <1>w, WaitsAreTabs, NoFile \in Versions \cup {NoFile}
  <2>2. clicks' \in 0..MaxClicks
    BY <1>14, <1>t, ConstantsFit DEF Click
  <2> QED BY <1>14, <1>t, <2>1, <2>2 DEF Click
<1> QED
  BY <1>1, <1>2, <1>3, <1>4, <1>5, <1>6, <1>7, <1>8, <1>9, <1>10, <1>11, <1>12, <1>13, <1>14
    DEF RouteStep, PollStep

LEMMA FieldsOfRunner ==
    ASSUME NEW j \in Jobs, NEW v \in Versions, NEW r \in Runner
    PROVE  /\ IdleRunner \in Runner
           /\ [at |-> "build", job |-> j, shows |-> v] \in Runner
           /\ [r EXCEPT !.at = "done"] \in Runner
BY DEF IdleRunner, Runner, NoJob, NoFile

\* An attempt that fails leaves a job of the right shape, whoever held it.
LEMMA FailKeepsTypes ==
    ASSUME IInv, NEW w \in Runners, NEW final \in BOOLEAN,
           runner[w].at = "build", FailAttempt(w, final)
    PROVE  Typed'
<1> DEFINE j == runner[w].job
<1> USE DEF Typed
<1>1. Typed /\ j \in Jobs /\ job[j] \in Job
  BY DEF IInv, RunnerShape, Working
<1>2. Owns(w) => job[j].made < Attempts
  BY <1>1, ConstantsFit DEF Owns, IInv, JobShape, Unfinished, NoJob
<1> DEFINE q == IF final \/ LastAttempt(j) THEN "failed" ELSE "waiting"
<1>3. Owns(w) => [job[j] EXCEPT !.state = q, !.made = @ + 1, !.lock = NoJob] \in Job
  <2>1. q \in {"waiting", "failed"}
    OBVIOUS
  <2> HIDE DEF q
  <2> QED BY <1>1, <1>2, <2>1, FieldsOfJob
<1>4. job' \in [Jobs -> Job]
  BY <1>1, <1>3 DEF FailAttempt
<1>5. runner' \in [Runners -> Runner]
  <2>1. IdleRunner \in Runner
    BY DEF IdleRunner, Runner, NoJob, NoFile
  <2> QED BY <1>1, <2>1 DEF FailAttempt
<1>6. faults' \in 0..MaxFaults
  BY <1>1, ConstantsFit DEF FailAttempt, Fault
<1> QED BY <1>1, <1>4, <1>5, <1>6 DEF FailAttempt

\* Every step of a worker.
LEMMA RunnerKeepsTypes ==
    ASSUME IInv, NEW w \in Runners, RunnerStep(w) \/ LoseLock(w)
    PROVE  Typed'
<1> USE DEF Typed
<1>t. Typed /\ runner[w] \in Runner
  BY DEF IInv
<1>j. Working(w) => runner[w].job \in Jobs /\ job[runner[w].job] \in Job
  BY DEF IInv, RunnerShape
<1>i. IdleRunner \in Runner
  BY DEF IdleRunner, Runner, NoJob, NoFile
<1>1. CASE Take(w)
  <2>1. PICK j \in Jobs :
          /\ runner' = [runner EXCEPT ![w] = [at |-> "build", job |-> j, shows |-> version]]
          /\ job' = [job EXCEPT ![j].state = "active", ![j].lock = w]
    BY <1>1 DEF Take
  <2>2. [job[j] EXCEPT !.state = "active", !.lock = w] \in Job
    BY <1>t, FieldsOfJob
  <2>3. [at |-> "build", job |-> j, shows |-> version] \in Runner
    BY <1>t, FieldsOfRunner
  <2> QED BY <1>1, <1>t, <2>1, <2>2, <2>3 DEF Take
<1>2. CASE Put(w)
  <2>1. [runner[w] EXCEPT !.at = "done"] \in Runner
    BY <1>t DEF Runner
  <2>2. runner[w].shows \in Versions
    BY <1>2 DEF Put, IInv, RunnerShape, Working
  <2> QED BY <1>2, <1>t, <2>1, <2>2 DEF Put
<1>3. CASE Complete(w)
  <2>1. Owns(w) => [job[runner[w].job] EXCEPT !.state = "completed", !.hasResult = TRUE,
                                              !.lock = NoJob] \in Job
    BY <1>j, FieldsOfJob DEF Owns, Working
  <2> QED BY <1>3, <1>t, <1>i, <2>1 DEF Complete
<1>4. CASE StepFails(w) \/ CannotBuild(w)
  BY <1>4, FailKeepsTypes DEF StepFails, CannotBuild
<1>5. CASE Crash(w)
  <2>1. Owns(w) => [job[runner[w].job] EXCEPT !.lock = NoJob] \in Job
    BY <1>j, FieldsOfJob DEF Owns, Working
  <2>2. faults' \in 0..MaxFaults
    BY <1>5, <1>t, ConstantsFit DEF Crash, Fault
  <2> QED BY <1>5, <1>t, <1>i, <2>1, <2>2 DEF Crash
<1>6. CASE LoseLock(w)
  <2>1. [job[runner[w].job] EXCEPT !.lock = NoJob] \in Job
    BY <1>6, <1>j, FieldsOfJob DEF LoseLock, Owns, Working
  <2>2. faults' \in 0..MaxFaults
    BY <1>6, <1>t, ConstantsFit DEF LoseLock, Fault
  <2> QED BY <1>6, <1>t, <2>1, <2>2 DEF LoseLock, Owns
<1> QED
  BY <1>1, <1>2, <1>3, <1>4, <1>5, <1>6 DEF RunnerStep

LEMMA QueueKeepsTypes ==
    ASSUME IInv, Edit \/ LateCommand \/ (\E k \in Versions : ExpireKey(k))
                 \/ (\E j \in Jobs : Stall(j))
    PROVE  Typed'
<1> USE DEF Typed
<1>t. Typed
  BY DEF IInv
<1>1. CASE Edit
  BY <1>1, <1>t, ConstantsFit DEF Edit, Versions
<1>2. CASE LateCommand
  <2>1. PICK c \in late : /\ late' = late \ {c}
                          /\ IF c.op = "add" THEN QueueAdd(c.key) ELSE QueueRemove(c.job)
    BY <1>2 DEF LateCommand
  <2>2. (c.op = "add" => c.key \in Versions) /\ (c.op # "add" => c.job \in Jobs)
    BY <1>t DEF LateCommands
  <2>3. job' \in [Jobs -> Job] /\ keyHolder' \in [Versions -> Jobs \cup {NoJob}]
    BY <1>t, <2>1, <2>2, AddKeepsTypes, RemoveKeepsTypes
  <2> QED BY <1>2, <1>t, <2>1, <2>3 DEF LateCommand
<1>3. ASSUME NEW k \in Versions, ExpireKey(k)
      PROVE  Typed'
  BY <1>3, <1>t DEF ExpireKey, Holds
<1>4. ASSUME NEW j \in Jobs, Stall(j)
      PROVE  Typed'
  <2>1. RunAgain(j) => [job[j] EXCEPT !.state = "waiting", !.stalled = @ + 1] \in Job
    BY <1>t, FieldsOfJob DEF RunAgain
  <2>2. [job[j] EXCEPT !.state = "failed"] \in Job
    BY <1>t, FieldsOfJob
  <2> QED BY <1>4, <1>t, <2>1, <2>2 DEF Stall
<1> QED BY <1>1, <1>2, <1>3, <1>4

LEMMA NextKeepsTypes == IInv /\ [Next]_vars => Typed'
<1> SUFFICES ASSUME IInv, [Next]_vars PROVE Typed'
  OBVIOUS
<1>1. CASE UNCHANGED vars
  BY <1>1 DEF IInv, Typed, vars
<1>2. CASE Next
  BY <1>2, TabKeepsTypes, RunnerKeepsTypes, QueueKeepsTypes DEF Next
<1> QED BY <1>1, <1>2

------------------------------------------------------------------------------
(* What a step may do to the jobs and their keys.                              *)

\* Job j, not finished, becomes r: the same job, completed only with its file.
Moved(j, r) ==
    /\ job' = [job EXCEPT ![j] = r]
    /\ keyHolder' = keyHolder
    /\ Known(j) /\ Unfinished(j)
    /\ r.key = job[j].key
    /\ r.state # "none"
    /\ r.lock # NoJob => r.state = "active"
    /\ r.state \in {"waiting", "active"} => r.made < Attempts
    /\ r.state = "completed" => object[j] # NoFile

JobStep ==
    \/ job' = job /\ keyHolder' = keyHolder /\ expired' = expired
    \/ expired' = expired /\ \E j \in Jobs : \E r \in Job : Moved(j, r)
    \/ expired' = expired /\ \E k \in Versions : k <= version /\ QueueAdd(k)
    \/ expired' = expired /\ \E j \in Jobs : QueueRemove(j)
    \/ \E k \in Versions : ExpireKey(k)

LEMMA TabStepIsJobStep ==
    ASSUME IInv, NEW t \in Tabs, RouteStep(t) \/ PollStep(t) \/ Click(t)
    PROVE  JobStep
<1>1. tab[t].seen \in Versions /\ tab[t].seen <= version
  BY DEF IInv, Typed, Tab, TabShape
<1>2. HasJob(t) => tab[t].job \in Jobs
  BY DEF IInv, TabShape
<1>3. CASE Add(t) \/ AddAgain(t)
  BY <1>1, <1>3 DEF Add, AddAgain, KeyOf, JobStep
<1>4. CASE RemoveFailed(t)
  BY <1>2, <1>4 DEF RemoveFailed, HasJob, JobStep
<1>5. CASE \/ Click(t) \/ AddTimesOut(t) \/ CheckState(t) \/ CheckTimesOut(t)
           \/ RemoveTimesOut(t) \/ AddAgainTimesOut(t) \/ PollStep(t)
  BY <1>5 DEF Click, AddTimesOut, CheckState, CheckTimesOut, RemoveTimesOut, AddAgainTimesOut,
    PollStep, PollSlow, PollGetJob, PollGetState, GiveUpWaiting, Download, DownloadSlow, JobStep
<1> QED BY <1>3, <1>4, <1>5 DEF RouteStep

LEMMA RunnerStepIsJobStep ==
    ASSUME IInv, NEW w \in Runners, RunnerStep(w) \/ LoseLock(w)
    PROVE  JobStep
<1> DEFINE j == runner[w].job
<1>n. NoJob \notin Runners
  BY ConstantsFit DEF NoJob
<1>j. Working(w) => j \in Jobs /\ job[j] \in Job /\ Known(j)
  BY DEF IInv, Typed, RunnerShape
<1>o. Owns(w) => /\ Working(w)
                 /\ job[j].state = "active" /\ Unfinished(j)
                 /\ job[j].made < Attempts
  BY <1>n, <1>j DEF Owns, Working, IInv, JobShape, Unfinished
<1>1. CASE Take(w)
  <2>1. PICK i \in Jobs : /\ job[i].state = "waiting"
                          /\ job' = [job EXCEPT ![i].state = "active", ![i].lock = w]
    BY <1>1 DEF Take
  <2> DEFINE r == [job[i] EXCEPT !.state = "active", !.lock = w]
  <2>2. job[i] \in Job
    BY DEF IInv, Typed
  <2>3. r \in Job
    BY <2>2, FieldsOfJob
  <2>4. r.state = "active" /\ r.key = job[i].key /\ r.made = job[i].made
    BY <2>2 DEF Job
  <2>5. job[i].made < Attempts /\ Known(i) /\ Unfinished(i)
    BY <2>1 DEF IInv, JobShape, Unfinished, Known
  <2>6. job' = [job EXCEPT ![i] = r]
    BY <2>1
  <2>7. keyHolder' = keyHolder /\ expired' = expired
    BY <1>1 DEF Take
  <2>8. Moved(i, r)
    <3> HIDE DEF r
    <3> QED BY <2>4, <2>5, <2>6, <2>7 DEF Moved
  <2> QED BY <2>3, <2>7, <2>8 DEF JobStep
<1>2. CASE Put(w)
  BY <1>2 DEF Put, JobStep
<1>3. CASE Complete(w) /\ Owns(w)
  <2> DEFINE r == [job[j] EXCEPT !.state = "completed", !.hasResult = TRUE, !.lock = NoJob]
  <2>1. r \in Job
    BY <1>3, <1>o, <1>j, FieldsOfJob
  <2>2. r.state = "completed" /\ r.key = job[j].key /\ r.lock = NoJob
    BY <1>3, <1>o, <1>j DEF Job
  <2>3. object[j] # NoFile
    BY <1>3 DEF Complete, Returned, IInv, RunnerShape
  <2>4. job' = [job EXCEPT ![j] = r] /\ keyHolder' = keyHolder /\ expired' = expired
    BY <1>3 DEF Complete
  <2>5. Moved(j, r)
    <3> HIDE DEF r
    <3> QED BY <1>3, <1>o, <1>j, <2>2, <2>3, <2>4 DEF Moved
  <2> HIDE DEF r
  <2> QED BY <1>3, <1>o, <1>j, <2>1, <2>4, <2>5 DEF JobStep
<1>4. ASSUME NEW final \in BOOLEAN, FailAttempt(w, final), Owns(w)
      PROVE  JobStep
  <2> DEFINE q == IF final \/ LastAttempt(j) THEN "failed" ELSE "waiting"
             r == [job[j] EXCEPT !.state = q, !.made = @ + 1, !.lock = NoJob]
  <2>1. q \in {"waiting", "failed"}
    OBVIOUS
  <2>2. r \in Job
    <3> HIDE DEF q
    <3> QED BY <1>4, <1>o, <1>j, <2>1, FieldsOfJob
  <2>3. r.state = q /\ r.key = job[j].key /\ r.lock = NoJob /\ r.made = job[j].made + 1
    BY <1>4, <1>o, <1>j DEF Job
  <2>4. q = "waiting" => job[j].made + 1 < Attempts
    BY <1>4, <1>o, <1>j, ConstantsFit DEF LastAttempt, Job
  <2>5. job' = [job EXCEPT ![j] = r] /\ keyHolder' = keyHolder /\ expired' = expired
    BY <1>4 DEF FailAttempt
  <2>6. Moved(j, r)
    <3> HIDE DEF r, q
    <3> QED BY <1>4, <1>o, <1>j, <2>1, <2>3, <2>4, <2>5 DEF Moved, Unfinished
  <2> HIDE DEF r
  <2> QED BY <1>4, <1>o, <1>j, <2>2, <2>5, <2>6 DEF JobStep
<1>5. ASSUME job' = [job EXCEPT ![j].lock = NoJob], Owns(w),
             keyHolder' = keyHolder, expired' = expired
      PROVE  JobStep
  <2> DEFINE r == [job[j] EXCEPT !.lock = NoJob]
  <2>1. r \in Job
    BY <1>5, <1>o, <1>j, FieldsOfJob
  <2>2. r.state = "active" /\ r.key = job[j].key /\ r.lock = NoJob /\ r.made = job[j].made
    BY <1>5, <1>o, <1>j DEF Job
  <2>3. job' = [job EXCEPT ![j] = r]
    BY <1>5
  <2>4. Moved(j, r)
    <3> HIDE DEF r
    <3> QED BY <1>5, <1>o, <1>j, <2>2, <2>3 DEF Moved, Unfinished
  <2> HIDE DEF r
  <2> QED BY <1>5, <1>o, <1>j, <2>1, <2>4 DEF JobStep
<1>6. CASE Crash(w) \/ LoseLock(w)
  BY <1>5, <1>6 DEF Crash, LoseLock, JobStep
<1>7. CASE StepFails(w) \/ CannotBuild(w)
  <2>1. PICK final \in BOOLEAN : FailAttempt(w, final)
    BY <1>7 DEF StepFails, CannotBuild
  <2>2. CASE ~Owns(w)
    BY <2>1, <2>2 DEF FailAttempt, JobStep
  <2> QED BY <1>4, <2>1, <2>2
<1>8. CASE Complete(w) /\ ~Owns(w)
  BY <1>8 DEF Complete, JobStep
<1> QED BY <1>1, <1>2, <1>3, <1>6, <1>7, <1>8 DEF RunnerStep

LEMMA QueueStepIsJobStep ==
    ASSUME IInv, Edit \/ LateCommand \/ (\E k \in Versions : ExpireKey(k))
                 \/ (\E j \in Jobs : Stall(j))
    PROVE  JobStep
<1>1. CASE Edit
  BY <1>1 DEF Edit, JobStep
<1>2. CASE LateCommand
  <2>1. PICK c \in late : IF c.op = "add" THEN QueueAdd(c.key) ELSE QueueRemove(c.job)
    BY <1>2 DEF LateCommand
  <2>2. /\ c.op = "add" => c.key \in Versions /\ c.key <= version
        /\ c.op # "add" => c.job \in Jobs
    BY DEF IInv, Typed, LateCommands, LateShape
  <2> QED BY <1>2, <2>1, <2>2 DEF LateCommand, JobStep
<1>3. CASE \E k \in Versions : ExpireKey(k)
  BY <1>3 DEF JobStep
<1>4. ASSUME NEW j \in Jobs, Stall(j)
      PROVE  JobStep
  <2> DEFINE r == IF RunAgain(j) THEN [job[j] EXCEPT !.state = "waiting", !.stalled = @ + 1]
                  ELSE [job[j] EXCEPT !.state = "failed"]
  <2>1. job[j] \in Job /\ job[j].state = "active" /\ job[j].lock = NoJob
    BY <1>4 DEF IInv, Typed, Stall
  <2>2. r \in Job
    BY <2>1, FieldsOfJob DEF RunAgain
  <2>3. /\ r.state \in {"waiting", "failed"}
        /\ r.key = job[j].key /\ r.lock = NoJob /\ r.made = job[j].made
    BY <2>1 DEF Job
  <2>4. job[j].made < Attempts
    BY <2>1 DEF IInv, JobShape, Unfinished
  <2>5. job' = [job EXCEPT ![j] = r] /\ keyHolder' = keyHolder /\ expired' = expired
    BY <1>4 DEF Stall
  <2>6. Moved(j, r)
    <3> HIDE DEF r
    <3> QED BY <2>1, <2>3, <2>4, <2>5 DEF Moved, Unfinished, Known
  <2> HIDE DEF r
  <2> QED BY <2>2, <2>5, <2>6 DEF JobStep
<1> QED BY <1>1, <1>2, <1>3, <1>4

LEMMA EveryStepIsJobStep == IInv /\ [Next]_vars => JobStep
<1> SUFFICES ASSUME IInv, [Next]_vars PROVE JobStep
  OBVIOUS
<1>1. CASE UNCHANGED vars
  BY <1>1 DEF vars, JobStep
<1>2. CASE Next
  BY <1>2, TabStepIsJobStep, RunnerStepIsJobStep, QueueStepIsJobStep DEF Next
<1> QED BY <1>1, <1>2

\* A job keeps its key for ever, and versions only grow.
KeysStay == \A j \in Jobs : Known(j) => Known(j)' /\ job'[j].key = job[j].key

LEMMA KeysAreKept == IInv /\ JobStep => KeysStay
<1> SUFFICES ASSUME IInv, JobStep PROVE KeysStay
  OBVIOUS
<1>t. job \in [Jobs -> Job]
  BY DEF IInv, Typed
<1>1. CASE job' = job
  BY <1>1 DEF KeysStay, Known
<1>2. ASSUME NEW j \in Jobs, NEW r \in Job, Moved(j, r)
      PROVE  KeysStay
  BY <1>2, <1>t DEF Moved, KeysStay, Known
<1>3. ASSUME NEW k \in Versions, QueueAdd(k)
      PROVE  KeysStay
  <2>1. CASE Holds(k)
    BY <1>3, <2>1 DEF QueueAdd, KeysStay, Known
  <2>2. CASE ~Holds(k)
    BY <1>3, <1>t, <2>2, NextIdIsUnused DEF QueueAdd, KeysStay, Known
  <2> QED BY <2>1, <2>2
<1>4. ASSUME NEW j \in Jobs, QueueRemove(j)
      PROVE  KeysStay
  <2>1. [job[j] EXCEPT !.state = "removed", !.hasResult = FALSE].key = job[j].key
    BY <1>t DEF Job
  <2>2. [job[j] EXCEPT !.state = "removed", !.hasResult = FALSE].state = "removed"
    BY <1>t DEF Job
  <2> QED BY <1>4, <1>t, <2>1, <2>2 DEF QueueRemove, KeysStay, Known
<1>5. ASSUME NEW k \in Versions, ExpireKey(k)
      PROVE  KeysStay
  BY <1>5 DEF ExpireKey, KeysStay, Known
<1> QED BY <1>1, <1>2, <1>3, <1>4, <1>5 DEF JobStep

LEMMA VersionsGrow ==
    ASSUME IInv, [Next]_vars
    PROVE  version \in Nat /\ version' \in Nat /\ version <= version'
<1>1. version \in Nat
  BY ConstantsFit DEF IInv, Typed, Versions
<1>2. version' = version \/ version' = version + 1
  BY DEF Next, vars, Edit, LateCommand, ExpireKey, Click, RouteStep, PollStep, RunnerStep, Add,
    AddTimesOut, CheckState, CheckTimesOut, RemoveFailed, RemoveTimesOut, AddAgain,
    AddAgainTimesOut, PollSlow, PollGetJob, PollGetState, GiveUpWaiting, Download, DownloadSlow,
    Take, Put, Complete, StepFails, CannotBuild, FailAttempt, Crash, LoseLock, Stall
<1> QED BY <1>1, <1>2

\* Files are written, never deleted, and only Put writes one.
LEMMA FilesStay ==
    ASSUME IInv, [Next]_vars
    PROVE  object' = object \/ \E w \in Runners : Put(w)
BY DEF Next, vars, Edit, LateCommand, ExpireKey, Click, RouteStep, PollStep, RunnerStep, Add,
    AddTimesOut, CheckState, CheckTimesOut, RemoveFailed, RemoveTimesOut, AddAgain,
    AddAgainTimesOut, PollSlow, PollGetJob, PollGetState, GiveUpWaiting, Download, DownloadSlow,
    Take, Complete, StepFails, CannotBuild, FailAttempt, Crash, LoseLock, Stall

LEMMA NoFileIsLost ==
    ASSUME IInv, [Next]_vars, NEW j \in Jobs, object[j] # NoFile
    PROVE  object'[j] # NoFile
<1>1. ASSUME NEW w \in Runners, Put(w)
      PROVE  object'[j] # NoFile
  <2>1. runner[w].shows \in Versions
    BY <1>1 DEF Put, IInv, RunnerShape, Working
  <2> QED BY <1>1, <2>1, ConstantsFit DEF Put, IInv, Typed, Versions, NoFile
<1> QED BY <1>1, FilesStay

LEMMA JobShapeStays ==
    ASSUME IInv, [Next]_vars
    PROVE  JobShape'
<1>v. version \in Nat /\ version' \in Nat /\ version <= version' /\ Versions \subseteq Nat
  BY VersionsGrow, ConstantsFit DEF Versions
<1>t. job \in [Jobs -> Job] /\ JobShape
  BY DEF IInv, Typed
<1>k. \A j \in Jobs : job[j].key \in Nat
  BY <1>t, <1>v DEF Job
<1>o. \A j \in Jobs : object[j] # NoFile => object'[j] # NoFile
  BY NoFileIsLost
<1>1. CASE job' = job
  BY <1>1, <1>v, <1>t, <1>k, <1>o DEF JobShape, Known, Unfinished
<1>2. ASSUME NEW j \in Jobs, NEW r \in Job, Moved(j, r)
      PROVE  JobShape'
  BY <1>2, <1>v, <1>t, <1>k, <1>o DEF Moved, JobShape, Known, Unfinished
<1>3. ASSUME NEW k \in Versions, k <= version, QueueAdd(k)
      PROVE  JobShape'
  <2>1. CASE Holds(k)
    BY <1>1, <1>3, <2>1 DEF QueueAdd
  <2>2. CASE ~Holds(k)
    <3>1. NextId \in Jobs /\ job' = [job EXCEPT ![NextId] = FreshJob("waiting", k)]
      BY <1>3, <2>2, NextIdIsUnused DEF QueueAdd
    <3>2. /\ FreshJob("waiting", k).state = "waiting" /\ FreshJob("waiting", k).key = k
          /\ FreshJob("waiting", k).made = 0 /\ FreshJob("waiting", k).lock = NoJob
      BY DEF FreshJob
    <3>3. 0 < Attempts
      BY ConstantsFit
    <3> QED BY <1>3, <1>v, <1>t, <1>k, <1>o, <3>1, <3>2, <3>3 DEF JobShape, Known, Unfinished
  <2> QED BY <2>1, <2>2
<1>4. ASSUME NEW j \in Jobs, QueueRemove(j)
      PROVE  JobShape'
  <2> DEFINE r == [job[j] EXCEPT !.state = "removed", !.hasResult = FALSE]
  <2>1. r.key = job[j].key /\ r.state = "removed" /\ r.lock = job[j].lock
    BY <1>t DEF Job
  <2>2. \/ job' = job
        \/ job[j].state # "active" /\ Known(j) /\ job' = [job EXCEPT ![j] = r]
    BY <1>4 DEF QueueRemove, Exists, Known
  <2> HIDE DEF r
  <2> QED BY <1>1, <1>v, <1>t, <1>k, <1>o, <2>1, <2>2 DEF JobShape, Known, Unfinished
<1>5. ASSUME NEW k \in Versions, ExpireKey(k)
      PROVE  JobShape'
  BY <1>1, <1>5 DEF ExpireKey
<1> QED BY <1>1, <1>2, <1>3, <1>4, <1>5, EveryStepIsJobStep DEF JobStep

LEMMA ObjectShapeStays ==
    ASSUME IInv, [Next]_vars
    PROVE  ObjectShape'
<1>1. KeysStay
  BY EveryStepIsJobStep, KeysAreKept
<1>2. ASSUME NEW w \in Runners, Put(w)
      PROVE  ObjectShape'
  <2>1. /\ runner[w].job \in Jobs /\ Known(runner[w].job)
        /\ runner[w].shows >= job[runner[w].job].key
    BY <1>2 DEF Put, IInv, RunnerShape, Working
  <2> QED BY <1>1, <1>2, <2>1 DEF Put, IInv, Typed, ObjectShape, KeysStay, Known
<1>3. CASE object' = object
  BY <1>1, <1>3 DEF IInv, ObjectShape, KeysStay, Known
<1> QED BY <1>2, <1>3, FilesStay

\* A worker changes to another job only by taking one, at the present version.
LEMMA RunnerMoves ==
    ASSUME IInv, [Next]_vars, NEW w \in Runners
    PROVE  \/ runner'[w] = runner[w]
           \/ runner'[w] = IdleRunner
           \/ \E j \in Jobs : /\ runner'[w] = [at |-> "build", job |-> j, shows |-> version]
                              /\ Known(j)
           \/ Put(w)
<1>t. runner \in [Runners -> Runner]
  BY DEF IInv, Typed
<1>1. ASSUME NEW v \in Runners, RunnerStep(v) \/ LoseLock(v)
      PROVE  \/ runner'[w] = runner[w]
             \/ runner'[w] = IdleRunner
             \/ \E j \in Jobs : /\ runner'[w] = [at |-> "build", job |-> j, shows |-> version]
                                /\ Known(j)
             \/ Put(w)
  <2>1. CASE Take(v)
    BY <1>t, <2>1 DEF Take, Known
  <2>2. CASE Put(v)
    BY <1>t, <2>2 DEF Put
  <2>3. CASE Complete(v) \/ Crash(v) \/ StepFails(v) \/ CannotBuild(v) \/ LoseLock(v)
    BY <1>t, <2>3 DEF Complete, Crash, StepFails, CannotBuild, FailAttempt, LoseLock
  <2> QED BY <1>1, <2>1, <2>2, <2>3 DEF RunnerStep
<1>2. CASE \/ UNCHANGED vars \/ Edit \/ LateCommand \/ (\E k \in Versions : ExpireKey(k))
           \/ (\E j \in Jobs : Stall(j))
           \/ (\E t \in Tabs : Click(t) \/ RouteStep(t) \/ PollStep(t))
  BY <1>2 DEF vars, Edit, LateCommand, ExpireKey, Click, RouteStep, PollStep, Add,
    AddTimesOut, CheckState, CheckTimesOut, RemoveFailed, RemoveTimesOut, AddAgain,
    AddAgainTimesOut, PollSlow, PollGetJob, PollGetState, GiveUpWaiting, Download,
    DownloadSlow, Stall
<1> QED BY <1>1, <1>2 DEF Next

LEMMA RunnerShapeStays ==
    ASSUME IInv, [Next]_vars
    PROVE  RunnerShape'
<1> SUFFICES ASSUME NEW w \in Runners
             PROVE  /\ Working(w)' => /\ runner'[w].job \in Jobs
                                      /\ Known(runner[w].job)'
                                      /\ runner'[w].shows \in Versions
                                      /\ runner'[w].shows >= job'[runner'[w].job].key
                    /\ runner'[w].at = "done" => object'[runner'[w].job] # NoFile
  BY DEF RunnerShape
<1>k. KeysStay
  BY EveryStepIsJobStep, KeysAreKept
<1>o. \A j \in Jobs : object[j] # NoFile => object'[j] # NoFile
  BY NoFileIsLost
<1>s. Working(w) => /\ runner[w].job \in Jobs
                    /\ Known(runner[w].job)
                    /\ runner[w].shows \in Versions
                    /\ runner[w].shows >= job[runner[w].job].key
  BY DEF IInv, RunnerShape
<1>1. CASE runner'[w] = runner[w]
  <2>1. runner[w].at = "done" => object[runner[w].job] # NoFile
    BY DEF IInv, RunnerShape
  <2> QED BY <1>1, <1>k, <1>o, <1>s, <2>1 DEF Working, KeysStay, Known
<1>2. CASE runner'[w] = IdleRunner
  BY <1>2 DEF IdleRunner, Working
<1>3. ASSUME NEW j \in Jobs, Known(j),
             runner'[w] = [at |-> "build", job |-> j, shows |-> version]
      PROVE  /\ Working(w)' => /\ runner'[w].job \in Jobs
                               /\ Known(runner[w].job)'
                               /\ runner'[w].shows \in Versions
                               /\ runner'[w].shows >= job'[runner'[w].job].key
             /\ runner'[w].at = "done" => object'[runner'[w].job] # NoFile
  <2>1. job[j].key <= version /\ version \in Versions /\ job'[j].key = job[j].key /\ Known(j)'
    BY <1>3, <1>k DEF IInv, Typed, JobShape, KeysStay
  <2>2. runner'[w].job = j /\ runner'[w].shows = version /\ runner'[w].at = "build"
    BY <1>3
  <2>3. version >= job[j].key
    BY <2>1, ConstantsFit DEF IInv, Typed, Job, Versions
  <2> QED BY <2>1, <2>2, <2>3 DEF Known
<1>4. CASE Put(w)
  <2>1. Working(w) /\ runner[w].shows # NoFile
    BY <1>4, <1>s, ConstantsFit DEF Put, Working, Versions, NoFile
  <2>2. /\ runner'[w].job = runner[w].job /\ runner'[w].shows = runner[w].shows
        /\ object'[runner[w].job] = runner[w].shows
    BY <1>4, <1>s, <2>1 DEF Put, IInv, Typed, Runner
  <2> QED BY <1>k, <1>s, <2>1, <2>2 DEF KeysStay, Known
<1> QED BY <1>1, <1>2, <1>3, <1>4, RunnerMoves

\* What QueueAdd answers: a job about the version that was asked for.
LEMMA AddedIsKnown ==
    ASSUME IInv, NEW k \in Versions, QueueAdd(k)
    PROVE  Added(k) \in Jobs /\ job'[Added(k)].state # "none" /\ job'[Added(k)].key = k
<1>1. Added(k) \in Jobs
  BY AddKeepsTypes DEF IInv
<1>2. CASE Holds(k)
  BY <1>1, <1>2 DEF QueueAdd, Added, Holds, IInv, KeyShape, Known
<1>3. CASE ~Holds(k)
  <2>1. Added(k) = NextId /\ job' = [job EXCEPT ![NextId] = FreshJob("waiting", k)]
    BY <1>3 DEF QueueAdd, Added
  <2>2. FreshJob("waiting", k).state = "waiting" /\ FreshJob("waiting", k).key = k
    BY DEF FreshJob
  <2> QED BY <1>1, <2>1, <2>2 DEF IInv, Typed
<1> QED BY <1>2, <1>3

\* A tab's wait is moved by its own steps only.
LEMMA TabsAlone ==
    ASSUME IInv, [Next]_vars, NEW t \in Tabs
    PROVE  (RouteStep(t) \/ PollStep(t) \/ Click(t)) \/ tab'[t] = tab[t]
<1>t. tab \in [Tabs -> Tab]
  BY DEF IInv, Typed
<1>1. ASSUME NEW u \in Tabs, u # t, RouteStep(u) \/ PollStep(u) \/ Click(u)
      PROVE  tab'[t] = tab[t]
  <2>1. CASE RouteStep(u) \/ Click(u)
    BY <1>1, <1>t, <2>1 DEF Click, RouteStep, Add, AddTimesOut, CheckState, CheckTimesOut,
      RemoveFailed, RemoveTimesOut, AddAgain, AddAgainTimesOut, Goto, Finish
  <2>2. CASE PollSlow(u) \/ PollGetJob(u) \/ GiveUpWaiting(u) \/ Download(u) \/ DownloadSlow(u)
    BY <1>1, <1>t, <2>2 DEF PollSlow, PollGetJob, GiveUpWaiting, Download, DownloadSlow, Goto, Finish
  <2>3. CASE PollGetState(u)
    <3>1. job[tab[u].job].state \in JobStates /\ tab[u].snapshot \in BOOLEAN /\ Known(tab[u].job)
      BY <2>3 DEF PollGetState, HasJob, IInv, TabShape, Typed, Job, Tab
    <3>2. \/ Goto(u, "file") \/ Goto(u, "poll") \/ Finish(u, "noUrl") \/ Finish(u, "error")
      BY <2>3, <3>1 DEF PollGetState, JobStates, Known, Unfinished
    <3> QED BY <1>1, <1>t, <3>2 DEF Goto, Finish
  <2> QED BY <1>1, <2>1, <2>2, <2>3 DEF PollStep
<1>2. CASE \/ UNCHANGED vars \/ Edit \/ LateCommand \/ (\E k \in Versions : ExpireKey(k))
           \/ (\E j \in Jobs : Stall(j))
           \/ (\E w \in Runners : RunnerStep(w) \/ LoseLock(w))
  BY <1>2 DEF vars, Edit, LateCommand, ExpireKey, RunnerStep, Take, Put, Complete, StepFails,
    CannotBuild, FailAttempt, Crash, LoseLock, Stall
<1> QED BY <1>1, <1>2 DEF Next

\* What a step may do to the wait of a tab.
TabMove(t) ==
    \/ tab'[t] = tab[t]
    \/ /\ tab'[t].seen = tab[t].seen /\ tab'[t].job = tab[t].job
       /\ HasJob(t)' => HasJob(t)
       /\ tab'[t].end = tab[t].end /\ tab'[t].got = tab[t].got
    \/ /\ tab'[t].seen = tab[t].seen
       /\ tab'[t].job \in Jobs /\ Known(tab[t].job)' /\ job'[tab'[t].job].key = tab[t].seen
       /\ tab'[t].end = tab[t].end /\ tab'[t].got = tab[t].got
    \/ \E e \in Ends \ {"file"} : tab'[t] = Ended(e, 1, NoFile)
    \/ tab'[t] = Asking(version, {j \in Jobs : job[j].state = "failed"})
    \/ /\ HasJob(t) /\ object[tab[t].job] # NoFile
       /\ tab'[t] = Ended("file", tab[t].seen, object[tab[t].job])

LEMMA TabMoves ==
    ASSUME IInv, [Next]_vars, NEW t \in Tabs
    PROVE  TabMove(t)
<1>t. tab \in [Tabs -> Tab] /\ tab[t] \in Tab /\ tab[t].seen \in Versions
  BY DEF IInv, Typed, Tab
<1>2. CASE Add(t) \/ AddAgain(t)
  <2>1. Added(tab[t].seen) \in Jobs /\ job'[Added(tab[t].seen)].state # "none"
          /\ job'[Added(tab[t].seen)].key = tab[t].seen
    BY <1>2, <1>t, AddedIsKnown DEF Add, AddAgain, KeyOf
  <2>2. /\ tab'[t].job = Added(tab[t].seen) /\ tab'[t].seen = tab[t].seen
        /\ tab'[t].end = tab[t].end /\ tab'[t].got = tab[t].got
    BY <1>2, <1>t DEF Add, AddAgain, KeyOf, Tab
  <2> QED BY <2>1, <2>2 DEF TabMove, Known
<1>3. ASSUME NEW e \in Ends \ {"file"}, Finish(t, e)
      PROVE  TabMove(t)
  BY <1>3, <1>t DEF Finish, TabMove
<1>4. CASE \/ CheckState(t) \/ CheckTimesOut(t) \/ RemoveFailed(t) \/ RemoveTimesOut(t)
           \/ AddAgainTimesOut(t) \/ PollSlow(t)
  <2>1. /\ HasJob(t)
        /\ tab'[t].seen = tab[t].seen /\ tab'[t].job = tab[t].job
        /\ tab'[t].end = tab[t].end /\ tab'[t].got = tab[t].got
    BY <1>4, <1>t DEF CheckState, CheckTimesOut, RemoveFailed, RemoveTimesOut,
      AddAgainTimesOut, PollSlow, Goto, Tab, HasJob
  <2> QED BY <2>1 DEF TabMove
<1>5. CASE AddTimesOut(t) \/ GiveUpWaiting(t) \/ DownloadSlow(t)
  BY <1>3, <1>5 DEF AddTimesOut, GiveUpWaiting, DownloadSlow, Ends
<1>6. CASE PollGetJob(t)
  <2>1. CASE Exists(tab[t].job)
    <3>1. /\ HasJob(t)
          /\ tab'[t].seen = tab[t].seen /\ tab'[t].job = tab[t].job
          /\ tab'[t].end = tab[t].end /\ tab'[t].got = tab[t].got
      BY <1>6, <1>t, <2>1 DEF PollGetJob, Tab, HasJob
    <3> QED BY <3>1 DEF TabMove
  <2>2. CASE ~Exists(tab[t].job)
    BY <1>3, <1>6, <2>2 DEF PollGetJob, Ends
  <2> QED BY <2>1, <2>2
<1>7. CASE PollGetState(t)
  <2>1. HasJob(t) /\ tab[t].job \in Jobs /\ Known(tab[t].job)
    BY <1>7 DEF PollGetState, HasJob, IInv, TabShape
  <2>2. \/ Goto(t, "file") \/ Goto(t, "poll") \/ Finish(t, "noUrl") \/ Finish(t, "error")
    <3>1. job[tab[t].job].state \in JobStates /\ tab[t].snapshot \in BOOLEAN
      BY <1>t, <2>1 DEF IInv, Typed, Job, Tab
    <3> QED BY <1>7, <2>1, <3>1 DEF PollGetState, JobStates, Known, Unfinished
  <2>3. ASSUME NEW a \in Waits, Goto(t, a)
        PROVE  TabMove(t)
    <3>1. /\ tab'[t].seen = tab[t].seen /\ tab'[t].job = tab[t].job
          /\ tab'[t].end = tab[t].end /\ tab'[t].got = tab[t].got
      BY <1>t, <2>3 DEF Goto, Tab
    <3> QED BY <2>1, <3>1 DEF TabMove
  <2> QED BY <1>3, <2>2, <2>3 DEF Ends, Waits
<1>8. CASE Download(t)
  <2>1. CASE Exists(tab[t].job) /\ job[tab[t].job].hasResult /\ object[tab[t].job] # NoFile
    BY <1>8, <1>t, <2>1 DEF Download, TabMove, HasJob
  <2>2. CASE ~(Exists(tab[t].job) /\ job[tab[t].job].hasResult /\ object[tab[t].job] # NoFile)
    BY <1>3, <1>8, <2>2 DEF Download, Ends
  <2> QED BY <2>1, <2>2
<1>9. CASE Click(t)
  BY <1>9, <1>t DEF Click, TabMove
<1>10. CASE tab'[t] = tab[t]
  BY <1>10 DEF TabMove
<1> QED BY <1>2, <1>4, <1>5, <1>6, <1>7, <1>8, <1>9, <1>10, TabsAlone DEF RouteStep, PollStep

LEMMA TabShapeStays ==
    ASSUME IInv, [Next]_vars
    PROVE  TabShape' /\ FileAsFresh'
<1>k. KeysStay
  BY EveryStepIsJobStep, KeysAreKept
<1>v. version \in Nat /\ version' \in Nat /\ version <= version' /\ version >= 1
  BY VersionsGrow, ConstantsFit DEF IInv, Typed, Versions
<1> SUFFICES ASSUME NEW t \in Tabs
             PROVE  /\ tab'[t].seen <= version'
                    /\ HasJob(t)' => /\ tab'[t].job \in Jobs
                                     /\ Known(tab[t].job)'
                                     /\ job'[tab'[t].job].key = tab'[t].seen
                    /\ tab'[t].end = "file" => tab'[t].got >= tab'[t].seen
  BY DEF TabShape, FileAsFresh
<1>t. /\ tab[t].seen \in Nat /\ tab[t].seen <= version
      /\ HasJob(t) => /\ tab[t].job \in Jobs
                      /\ Known(tab[t].job)
                      /\ job[tab[t].job].key = tab[t].seen
      /\ tab[t].end = "file" => tab[t].got >= tab[t].seen
  BY DEF IInv, Typed, Tab, Versions, TabShape, FileAsFresh
<1>1. CASE tab'[t] = tab[t]
  BY <1>1, <1>k, <1>v, <1>t DEF HasJob, KeysStay, Known
<1>2. CASE /\ tab'[t].seen = tab[t].seen /\ tab'[t].job = tab[t].job
           /\ HasJob(t)' => HasJob(t)
           /\ tab'[t].end = tab[t].end /\ tab'[t].got = tab[t].got
  BY <1>2, <1>k, <1>v, <1>t DEF KeysStay, Known
<1>3. CASE /\ tab'[t].seen = tab[t].seen
           /\ tab'[t].job \in Jobs /\ Known(tab[t].job)' /\ job'[tab'[t].job].key = tab[t].seen
           /\ tab'[t].end = tab[t].end /\ tab'[t].got = tab[t].got
  BY <1>3, <1>v, <1>t DEF Known
<1>4. CASE \E e \in Ends \ {"file"} : tab'[t] = Ended(e, 1, NoFile)
  BY <1>4, <1>v DEF Ended, HasJob
<1>5. CASE tab'[t] = Asking(version, {j \in Jobs : job[j].state = "failed"})
  BY <1>5, <1>v DEF Asking, HasJob
<1>6. CASE /\ HasJob(t) /\ object[tab[t].job] # NoFile
           /\ tab'[t] = Ended("file", tab[t].seen, object[tab[t].job])
  <2>1. object[tab[t].job] >= tab[t].seen
    BY <1>6, <1>t DEF IInv, ObjectShape
  <2> QED BY <1>6, <1>v, <1>t, <2>1 DEF Ended, HasJob
<1> QED BY <1>1, <1>2, <1>3, <1>4, <1>5, <1>6, TabMoves DEF TabMove

LEMMA KeysHoldTheirJobs ==
    ASSUME IInv, [Next]_vars
    PROVE  KeyShape' /\ HoldsItsKey'
<1>t. /\ job \in [Jobs -> Job] /\ keyHolder \in [Versions -> Jobs \cup {NoJob}]
      /\ KeyShape /\ HoldsItsKey /\ NoJob \notin Jobs
      /\ \A j \in Jobs : job[j].key \in Versions
  BY DEF IInv, Typed, Job, NoJob, Jobs
<1>k. JobStep => KeysStay
  BY KeysAreKept
<1>1. CASE job' = job /\ keyHolder' = keyHolder /\ expired' = expired
  BY <1>1, <1>t DEF KeyShape, HoldsItsKey, Known, Unfinished
<1>2. ASSUME NEW j \in Jobs, NEW r \in Job, Moved(j, r), expired' = expired
      PROVE  KeyShape' /\ HoldsItsKey'
  <2>1. /\ job' = [job EXCEPT ![j] = r] /\ keyHolder' = keyHolder
        /\ r.key = job[j].key /\ r.state # "none"
        /\ r.state \in {"waiting", "active"} => job[j].state \in {"waiting", "active"}
    BY <1>2 DEF Moved, Unfinished
  <2>2. KeyShape'
    BY <1>t, <2>1 DEF KeyShape, Known
  <2>3. HoldsItsKey'
    BY <1>2, <1>t, <2>1 DEF HoldsItsKey, Unfinished
  <2> QED BY <2>2, <2>3
<1>3. ASSUME NEW k \in Versions, QueueAdd(k), expired' = expired
      PROVE  KeyShape' /\ HoldsItsKey'
  <2>1. CASE Holds(k)
    <3>1. keyHolder' = keyHolder /\ job' = job
      BY <1>3, <1>t, <2>1 DEF QueueAdd, Added, Holds
    <3> QED BY <1>1, <1>3, <3>1
  <2>2. CASE ~Holds(k)
    <3>1. /\ NextId \in Jobs /\ job[NextId].state = "none"
          /\ job' = [job EXCEPT ![NextId] = FreshJob("waiting", k)]
          /\ keyHolder' = [keyHolder EXCEPT ![k] = NextId]
          /\ keyHolder[k] = NoJob
      BY <1>3, <2>2, NextIdIsUnused DEF QueueAdd, Added, Holds
    <3>2. FreshJob("waiting", k).state = "waiting" /\ FreshJob("waiting", k).key = k
      BY DEF FreshJob
    <3>3. KeyShape'
      BY <1>t, <3>1, <3>2 DEF KeyShape, Known
    <3>4. HoldsItsKey'
      BY <1>3, <1>t, <3>1, <3>2 DEF HoldsItsKey, Unfinished
    <3> QED BY <3>3, <3>4
  <2> QED BY <2>1, <2>2
<1>4. ASSUME NEW j \in Jobs, QueueRemove(j), expired' = expired
      PROVE  KeyShape' /\ HoldsItsKey'
  <2> DEFINE r == [job[j] EXCEPT !.state = "removed", !.hasResult = FALSE]
  <2>1. r.key = job[j].key /\ r.state = "removed"
    BY <1>t DEF Job
  <2>2. \/ job' = job /\ (job[j].state = "active" \/ ~Exists(j))
        \/ job' = [job EXCEPT ![j] = r]
    BY <1>4 DEF QueueRemove
  <2>3. \A k \in Versions : keyHolder'[k] = IF keyHolder[k] = j /\ job[j].state # "active"
                                            THEN NoJob ELSE keyHolder[k]
    BY <1>4 DEF QueueRemove
  <2> HIDE DEF r
  <2>4. KeyShape'
    BY <1>t, <2>1, <2>2, <2>3 DEF KeyShape, Known
  <2>5. HoldsItsKey'
    BY <1>4, <1>t, <2>1, <2>2, <2>3 DEF HoldsItsKey, Unfinished, Exists
  <2> QED BY <2>4, <2>5
<1>5. ASSUME NEW k \in Versions, ExpireKey(k)
      PROVE  KeyShape' /\ HoldsItsKey'
  <2>1. /\ job' = job /\ expired' = expired \cup {keyHolder[k]}
        /\ keyHolder' = [keyHolder EXCEPT ![k] = NoJob]
    BY <1>5 DEF ExpireKey
  <2> QED BY <1>t, <2>1 DEF KeyShape, HoldsItsKey, Known, Unfinished
<1> QED BY <1>1, <1>2, <1>3, <1>4, <1>5, EveryStepIsJobStep DEF JobStep

LEMMA LateShapeStays ==
    ASSUME IInv, [Next]_vars
    PROVE  LateShape'
<1>v. version \in Nat /\ version' \in Nat /\ version <= version' /\ Versions \subseteq Nat
  BY VersionsGrow, ConstantsFit DEF Versions
<1>s. \A t \in Tabs : tab[t].seen \in Nat /\ tab[t].seen <= version
  BY <1>v DEF IInv, Typed, Tab, TabShape
<1>1. \A c \in late' : c \in late \/ (c.op = "remove") \/ (\E t \in Tabs : c.key = tab[t].seen)
  <2>1. ASSUME NEW t \in Tabs, RouteStep(t)
        PROVE  \A c \in late' : c \in late \/ (c.op = "remove") \/ c.key = tab[t].seen
    BY <2>1 DEF RouteStep, Add, AddTimesOut, CheckState, CheckTimesOut, RemoveFailed,
      RemoveTimesOut, AddAgain, AddAgainTimesOut, GivesUp, KeyOf
  <2>2. CASE \/ UNCHANGED vars \/ Edit \/ LateCommand \/ (\E k \in Versions : ExpireKey(k))
             \/ (\E j \in Jobs : Stall(j))
             \/ (\E t \in Tabs : Click(t) \/ PollStep(t))
    BY <2>2 DEF vars, Edit, LateCommand, ExpireKey, Click, PollStep, PollSlow, PollGetJob,
      PollGetState, GiveUpWaiting, Download, DownloadSlow, Stall
  <2>3. CASE \E w \in Runners : RunnerStep(w) \/ LoseLock(w)
    BY <2>3 DEF RunnerStep, Take, Put, Complete, StepFails, CannotBuild, FailAttempt, Crash,
      LoseLock
  <2> QED BY <2>1, <2>2, <2>3 DEF Next
<1>2. \A c \in late : c.op = "add" => c.key \in Nat
  BY <1>v DEF IInv, Typed, LateCommands
<1> QED BY <1>v, <1>s, <1>1, <1>2 DEF IInv, LateShape

------------------------------------------------------------------------------
(* The theorems.                                                               *)

LEMMA InvariantStays == IInv /\ [Next]_vars => IInv'
BY NextKeepsTypes, JobShapeStays, RunnerShapeStays, ObjectShapeStays, TabShapeStays,
  KeysHoldTheirJobs, LateShapeStays DEF IInv

LEMMA InvariantHolds == Spec => []IInv
BY InitIsFine, InvariantStays, PTL DEF Spec

\* Types: whatever the bounds, no job is tried or stalls more often than it may.
THEOREM TypesHold == Spec => []TypeOK
<1>1. IInv => TypeOK
  BY DEF IInv, JobShape, TypeOK
<1> QED BY <1>1, InvariantHolds, PTL

\* The file a user is given is never older than the click that asked for it.
THEOREM FileIsFresh == Spec => []FileAsFresh
<1>1. IInv => FileAsFresh
  BY DEF IInv
<1> QED BY <1>1, InvariantHolds, PTL

\* A completed job has its file, however many workers died or lost their lock.
THEOREM FileIsThere == Spec => []CompletedHasFile
<1>1. IInv => CompletedHasFile
  BY DEF IInv, JobShape, CompletedHasFile
<1> QED BY <1>1, InvariantHolds, PTL

\* For any number of tabs, faults and late commands: one job for a key while the
\* key lives.
THEOREM NoTwins == Spec => []NoTwinJobs
<1>1. IInv => NoTwinJobs
  BY DEF IInv, HoldsItsKey, NoTwinJobs
<1> QED BY <1>1, InvariantHolds, PTL

\* Both at once: a completed job has its file and nobody is given an older one.
THEOREM FilesAreRight == Spec => []FileIsRight
BY FileIsFresh, FileIsThere, PTL DEF FileIsRight

------------------------------------------------------------------------------
(* Trying again: what a tab knows of the jobs that had failed at its click.     *)

Over(j) == job[j].state \in {"failed", "removed"}

\* A job that is over stays so, and no key is given to a job that was known.
LEMMA OverStays ==
    ASSUME IInv, JobStep
    PROVE  /\ \A j \in Jobs : Over(j) => Over(j)' /\ (job[j].state = "removed" => job'[j].state = "removed")
           /\ \A k \in Versions : \/ keyHolder'[k] \in {keyHolder[k], NoJob}
                                  \/ keyHolder'[k] \in Jobs /\ job[keyHolder'[k]].state = "none"
<1>t. job \in [Jobs -> Job] /\ keyHolder \in [Versions -> Jobs \cup {NoJob}]
  BY DEF IInv, Typed
<1>1. CASE job' = job /\ keyHolder' = keyHolder
  BY <1>1 DEF Over
<1>2. ASSUME NEW j \in Jobs, NEW r \in Job, Moved(j, r)
      PROVE  /\ \A i \in Jobs : Over(i) => Over(i)' /\ (job[i].state = "removed" => job'[i].state = "removed")
             /\ \A k \in Versions : keyHolder'[k] = keyHolder[k]
  BY <1>2, <1>t DEF Moved, Over, Unfinished
<1>3. ASSUME NEW k \in Versions, QueueAdd(k), ~Holds(k)
      PROVE  /\ \A i \in Jobs : Over(i) => Over(i)' /\ (job[i].state = "removed" => job'[i].state = "removed")
             /\ \A l \in Versions : \/ keyHolder'[l] \in {keyHolder[l], NoJob}
                                    \/ keyHolder'[l] \in Jobs /\ job[keyHolder'[l]].state = "none"
  <2>1. /\ NextId \in Jobs /\ job[NextId].state = "none"
        /\ job' = [job EXCEPT ![NextId] = FreshJob("waiting", k)]
        /\ keyHolder' = [keyHolder EXCEPT ![k] = NextId]
    BY <1>3, NextIdIsUnused DEF QueueAdd, Added
  <2> QED BY <1>t, <2>1 DEF Over
<1>4. ASSUME NEW k \in Versions, QueueAdd(k), Holds(k)
      PROVE  job' = job /\ keyHolder' = keyHolder
  BY <1>4, <1>t DEF QueueAdd, Added, Holds
<1>5. ASSUME NEW j \in Jobs, QueueRemove(j)
      PROVE  /\ \A i \in Jobs : Over(i) => Over(i)' /\ (job[i].state = "removed" => job'[i].state = "removed")
             /\ \A k \in Versions : keyHolder'[k] \in {keyHolder[k], NoJob}
  <2> DEFINE r == [job[j] EXCEPT !.state = "removed", !.hasResult = FALSE]
  <2>1. r.state = "removed"
    BY <1>t DEF Job
  <2>2. job' = job \/ job' = [job EXCEPT ![j] = r]
    BY <1>5 DEF QueueRemove
  <2>3. \A k \in Versions : keyHolder'[k] \in {keyHolder[k], NoJob}
    BY <1>5 DEF QueueRemove
  <2> HIDE DEF r
  <2> QED BY <1>t, <2>1, <2>2, <2>3 DEF Over
<1>6. ASSUME NEW k \in Versions, ExpireKey(k)
      PROVE  job' = job /\ \A l \in Versions : keyHolder'[l] \in {keyHolder[l], NoJob}
  BY <1>6, <1>t DEF ExpireKey
<1>7. CASE \E k \in Versions : ExpireKey(k)
  BY <1>6, <1>7 DEF Over
<1>8. CASE \E k \in Versions : QueueAdd(k)
  BY <1>1, <1>3, <1>4, <1>8
<1> QED BY <1>1, <1>2, <1>5, <1>7, <1>8 DEF JobStep

\* The jobs that had failed at the click are over.  Until the tab has removed the
\* one it was given, its key names no other of them; after that it names none.
RetryOf(t) ==
    /\ \A j \in tab[t].dead : Over(j)
    /\ tab[t].at \in {"check", "remove"} /\ keyHolder[tab[t].seen] \in tab[t].dead
         => keyHolder[tab[t].seen] = tab[t].job
    /\ tab[t].at = "remove" => Over(tab[t].job)
    /\ tab[t].at = "again" => keyHolder[tab[t].seen] \notin tab[t].dead
    /\ tab[t].at \in {"poll", "state"} /\ ~tab[t].slow /\ tab[t].job \in tab[t].dead
         => job[tab[t].job].state # "failed"

RetryShape == \A t \in Tabs : RetryOf(t)

LEMMA InitRetry == Init => RetryShape
<1> SUFFICES ASSUME Init, NEW t \in Tabs PROVE RetryOf(t)
  BY DEF RetryShape
<1>1. tab[t] = Ended("none", 1, NoFile)
  BY DEF Init
<1>2. tab[t].at = "idle" /\ tab[t].dead = {}
  BY <1>1 DEF Ended
<1> QED BY <1>2 DEF RetryOf

\* What others do to the queue leaves it so.
LEMMA RetryKept ==
    ASSUME IInv, JobStep, NEW t \in Tabs, RetryOf(t), tab'[t] = tab[t]
    PROVE  RetryOf(t)'
<1>1. tab[t] \in Tab
  BY DEF IInv, Typed
<1>2. tab[t].seen \in Versions /\ tab[t].dead \subseteq Jobs
  BY <1>1 DEF Tab
<1>3. tab[t].at \in {"remove", "poll", "state"} => tab[t].job \in Jobs
  BY DEF IInv, TabShape, HasJob
<1>4. NoJob \notin Jobs
  BY DEF NoJob, Jobs
<1> PICK w, k : w = tab[t] /\ k = keyHolder'[tab[t].seen]
  OBVIOUS
<1>5. k \in {keyHolder[w.seen], NoJob} \/ (k \in Jobs /\ job[k].state = "none")
  BY <1>2, OverStays
<1>6. k \in w.dead => k = keyHolder[w.seen]
  BY <1>2, <1>4, <1>5 DEF RetryOf, Over
<1>7. \A j \in w.dead : Over(j)'
  BY <1>2, OverStays DEF RetryOf
<1>8. w.at = "remove" => Over(w.job)'
  BY <1>3, OverStays DEF RetryOf
<1>9. w.at \in {"poll", "state"} /\ ~w.slow /\ w.job \in w.dead => job'[w.job].state # "failed"
  <2>1. SUFFICES ASSUME w.at \in {"poll", "state"}, ~w.slow, w.job \in w.dead
                 PROVE  job'[w.job].state # "failed"
    OBVIOUS
  <2>2. job[w.job].state = "removed"
    BY <2>1 DEF RetryOf, Over
  <2>3. job'[w.job].state = "removed"
    BY <1>2, <2>1, <2>2, OverStays DEF Over
  <2> QED BY <2>3
<1> QED BY <1>6, <1>7, <1>8, <1>9 DEF RetryOf, Over

LEMMA AddRetry ==
    ASSUME IInv, NEW t \in Tabs, RetryOf(t), Add(t) \/ AddAgain(t)
    PROVE  RetryOf(t)'
<1> PICK w, k, a : w = tab[t] /\ k = tab[t].seen /\ a = Added(tab[t].seen)
  OBVIOUS
<1>1. w \in Tab /\ tab \in [Tabs -> Tab] /\ keyHolder \in [Versions -> Jobs \cup {NoJob}]
  BY DEF IInv, Typed
<1>2. k \in Versions /\ w.dead \subseteq Jobs
  BY <1>1 DEF Tab
<1>3. QueueAdd(k)
  BY DEF Add, AddAgain, KeyOf
<1>4. keyHolder'[k] = a /\ (a = keyHolder[k] \/ (a \in Jobs /\ job[a].state = "none"))
  BY <1>1, <1>2, <1>3, NextIdIsUnused DEF QueueAdd, Added
<1>5. \A j \in w.dead : Over(j) /\ Over(j)'
  <2>1. JobStep
    BY TabStepIsJobStep DEF RouteStep
  <2> QED BY <1>2, <2>1, OverStays DEF RetryOf
<1>6. CASE Add(t)
  <2>1. tab'[t].at = "check" /\ tab'[t].job = a /\ tab'[t].seen = k /\ tab'[t].dead = w.dead
    BY <1>1, <1>6 DEF Add, KeyOf, Tab
  <2> QED BY <1>4, <1>5, <2>1 DEF RetryOf, Over
<1>7. CASE AddAgain(t)
  <2>1. tab'[t].at = "poll" /\ tab'[t].job = a /\ tab'[t].seen = k /\ tab'[t].dead = w.dead
    BY <1>1, <1>7 DEF AddAgain, KeyOf, Tab
  <2>2. a \notin w.dead
    BY <1>4, <1>5, <1>7 DEF AddAgain, RetryOf, Over
  <2> QED BY <1>5, <2>1, <2>2 DEF RetryOf, Over
<1> QED BY <1>6, <1>7

LEMMA RemoveRetry ==
    ASSUME IInv, NEW t \in Tabs, RetryOf(t), RemoveFailed(t)
    PROVE  RetryOf(t)'
<1> PICK w, k, h : w = tab[t] /\ k = tab[t].seen /\ h = keyHolder'[tab[t].seen]
  OBVIOUS
<1>1. w \in Tab /\ tab \in [Tabs -> Tab] /\ keyHolder \in [Versions -> Jobs \cup {NoJob}]
  BY DEF IInv, Typed
<1>2. k \in Versions /\ w.dead \subseteq Jobs /\ NoJob \notin Jobs
  BY <1>1 DEF Tab, NoJob, Jobs
<1>3. QueueRemove(w.job) /\ w.at = "remove"
  BY DEF RemoveFailed
<1>4. h = IF keyHolder[k] = w.job /\ job[w.job].state # "active" THEN NoJob ELSE keyHolder[k]
  BY <1>2, <1>3 DEF QueueRemove
<1>5. job[w.job].state # "active"
  BY <1>3 DEF RetryOf, Over
<1>6. h \notin w.dead
  BY <1>2, <1>3, <1>4, <1>5 DEF RetryOf
<1>7. \A j \in w.dead : Over(j)'
  <2>1. JobStep
    BY TabStepIsJobStep DEF RouteStep
  <2> QED BY <1>2, <2>1, OverStays DEF RetryOf
<1>8. tab'[t].at = "again" /\ tab'[t].seen = k /\ tab'[t].dead = w.dead
  BY <1>1 DEF RemoveFailed, Goto, Tab
<1> QED BY <1>6, <1>7, <1>8 DEF RetryOf, Over

\* The other steps of a tab write nothing in the queue.
LEMMA WaitRetry ==
    ASSUME IInv, NEW t \in Tabs, RetryOf(t), UNCHANGED <<job, keyHolder>>,
           \/ Click(t) \/ PollStep(t)
           \/ AddTimesOut(t) \/ CheckState(t) \/ CheckTimesOut(t) \/ RemoveTimesOut(t)
           \/ AddAgainTimesOut(t)
    PROVE  RetryOf(t)'
<1> PICK w, n : w = tab[t] /\ n = tab'[t]
  OBVIOUS
<1>1. w \in Tab /\ tab \in [Tabs -> Tab]
  BY DEF IInv, Typed
<1>2. HasJob(t) => w.job \in Jobs /\ Known(w.job)
  BY DEF IInv, TabShape
<1>3. ASSUME n.dead = {}, n.at = "idle" PROVE RetryOf(t)'
  BY <1>3 DEF RetryOf
<1>4. ASSUME NEW e, NEW v, NEW g, n = Ended(e, v, g) PROVE RetryOf(t)'
  <2>1. n.dead = {} /\ n.at = "idle"
    BY <1>4 DEF Ended
  <2> QED BY <1>3, <2>1
<1>5. ASSUME NEW e, Finish(t, e) PROVE RetryOf(t)'
  BY <1>1, <1>4, <1>5 DEF Finish
<1>6. ASSUME n.dead = w.dead, n.job = w.job, n.slow = w.slow, n.at \in {"poll", "state", "file"},
             \/ w.at \in {"poll", "state"}
             \/ job[w.job].state # "failed"
      PROVE  RetryOf(t)'
  BY <1>6 DEF RetryOf, Over
<1>7. ASSUME n.dead = w.dead, n.slow = TRUE, n.at = "poll" PROVE RetryOf(t)'
  BY <1>7 DEF RetryOf, Over
<1>8. CASE Click(t)
  <2>1. n.at = "add" /\ n.dead = {j \in Jobs : job[j].state = "failed"}
    BY <1>1, <1>8 DEF Click, Asking
  <2> QED BY <2>1 DEF RetryOf, Over
<1>9. CASE AddTimesOut(t) \/ GiveUpWaiting(t) \/ DownloadSlow(t)
  BY <1>5, <1>9 DEF AddTimesOut, GiveUpWaiting, DownloadSlow
<1>10. CASE CheckTimesOut(t) \/ RemoveTimesOut(t) \/ AddAgainTimesOut(t)
  <2>1. n.dead = w.dead /\ n.slow = TRUE /\ n.at = "poll"
    BY <1>1, <1>10 DEF CheckTimesOut, RemoveTimesOut, AddAgainTimesOut, Tab
  <2> QED BY <1>7, <2>1
<1>11. CASE CheckState(t)
  <2>1. /\ n.dead = w.dead /\ n.job = w.job /\ n.slow = w.slow /\ n.seen = w.seen
        /\ n.at = (IF job[w.job].state = "failed" THEN "remove" ELSE "poll") /\ w.at = "check"
    BY <1>1, <1>11 DEF CheckState, Goto, Retries, Tab
  <2>2. CASE job[w.job].state = "failed"
    BY <2>1, <2>2 DEF RetryOf, Over
  <2>3. CASE job[w.job].state # "failed"
    BY <1>6, <2>1, <2>3
  <2> QED BY <2>2, <2>3
<1>12. ASSUME NEW a \in {"poll", "file"}, Goto(t, a), w.at \in {"poll", "state"} PROVE RetryOf(t)'
  <2>1. n.dead = w.dead /\ n.job = w.job /\ n.slow = w.slow /\ n.at = a
    BY <1>1, <1>12 DEF Goto, Tab
  <2> QED BY <1>6, <1>12, <2>1
<1>13. CASE PollSlow(t)
  <2>1. n.dead = w.dead /\ n.job = w.job /\ n.slow = w.slow /\ n.at = "poll" /\ w.at = "state"
    BY <1>1, <1>13 DEF PollSlow, Tab
  <2> QED BY <1>6, <2>1
<1>14. CASE PollGetJob(t)
  <2>1. CASE Exists(w.job)
    <3>1. n.dead = w.dead /\ n.job = w.job /\ n.slow = w.slow /\ n.at = "state" /\ w.at = "poll"
      BY <1>1, <1>14, <2>1 DEF PollGetJob, Tab
    <3> QED BY <1>6, <3>1
  <2>2. CASE ~Exists(w.job)
    BY <1>5, <1>14, <2>2 DEF PollGetJob
  <2> QED BY <2>1, <2>2
<1>15. CASE PollGetState(t)
  <2>1. w.at = "state" /\ job[w.job] \in Job /\ Known(w.job) /\ w.snapshot \in BOOLEAN
    BY <1>1, <1>2, <1>15 DEF PollGetState, HasJob, IInv, Typed, Tab
  <2>2. \/ Goto(t, "file") \/ Goto(t, "poll") \/ Finish(t, "noUrl") \/ Finish(t, "error")
    <3>1. job[w.job].state \in JobStates
      BY <2>1 DEF Job
    <3> QED BY <1>15, <2>1, <3>1 DEF PollGetState, JobStates, Known, Unfinished
  <2> QED BY <1>5, <1>12, <2>1, <2>2
<1>16. CASE Download(t)
  <2>1. Finish(t, "error") \/ n = Ended("file", w.seen, object[w.job])
    BY <1>1, <1>16 DEF Download
  <2> QED BY <1>4, <1>5, <2>1
<1> QED BY <1>8, <1>9, <1>10, <1>11, <1>13, <1>14, <1>15, <1>16 DEF PollStep

LEMMA NextRetry == IInv /\ RetryShape /\ [Next]_vars => RetryShape'
<1> SUFFICES ASSUME IInv, RetryShape, [Next]_vars, NEW t \in Tabs PROVE RetryOf(t)'
  BY DEF RetryShape
<1>1. RetryOf(t) /\ JobStep
  BY EveryStepIsJobStep DEF RetryShape
<1>2. CASE tab'[t] = tab[t]
  BY <1>1, <1>2, RetryKept
<1>3. CASE RouteStep(t) \/ PollStep(t) \/ Click(t)
  <2>1. CASE Add(t) \/ AddAgain(t) \/ RemoveFailed(t)
    BY <1>1, <2>1, AddRetry, RemoveRetry
  <2>2. CASE \/ Click(t) \/ PollStep(t)
             \/ AddTimesOut(t) \/ CheckState(t) \/ CheckTimesOut(t) \/ RemoveTimesOut(t)
             \/ AddAgainTimesOut(t)
    <3>1. UNCHANGED <<job, keyHolder>>
      BY <2>2 DEF Click, AddTimesOut, CheckState, CheckTimesOut, RemoveTimesOut,
        AddAgainTimesOut, PollStep, PollSlow, PollGetJob, PollGetState, GiveUpWaiting, Download,
        DownloadSlow
    <3> QED BY <1>1, <2>2, <3>1, WaitRetry
  <2> QED BY <1>3, <2>1, <2>2 DEF RouteStep
<1>4. (RouteStep(t) \/ PollStep(t) \/ Click(t)) \/ tab'[t] = tab[t]
  BY TabsAlone
<1> QED BY <1>2, <1>3, <1>4

LEMMA RetryShapeHolds == Spec => []RetryShape
BY InitRetry, NextRetry, InvariantHolds, PTL DEF Spec

\* For any number of tabs that try again at once, any faults and late commands:
\* nobody whose route met no slow command is answered a failure from before.
THEOREM NoOldFailures == Spec => []NoOldFailure
<1>1. RetryShape => NoOldFailure
  BY DEF RetryShape, RetryOf, NoOldFailure
<1> QED BY <1>1, RetryShapeHolds, PTL

=============================================================================

---------------------------- MODULE TaskLifespan ----------------------------
(***************************************************************************)
(* How tasks are driven over their minions: the tasks watcher (release of  *)
(* locked minions, busy check, batches, the decision to finish, stopping), *)
(* the taskiq workers that turn job returns and job errors into task       *)
(* minion statuses, the jobs watcher's follow-up of a timed out return,    *)
(* and the REST calls run, stop and restart_failed.  Jobs and returns      *)
(* change by the atomic writes of JobLedger, which Jobs is shown to        *)
(* implement.  One Salt master with all its minions active, tasks of type  *)
(* 'task' (policies also fill, order and wait), retry_delay = 0.           *)
(* A step is one database round trip, except where the comment says why    *)
(* two may be one.                                                         *)
(***************************************************************************)
EXTENDS JobLedger, FiniteSets

CONSTANTS
    Tasks,
    StateApply,    \* tasks whose fun is 'state.apply'
    TtlTasks,      \* tasks with a ttl_task
    BatchSize,     \* task.batch_size, 0 for no limit
    MaxJobs,       \* task.max_jobs_count_at_same_time
    MaxRetries,    \* task.max_retries
    LateAnswers,   \* TRUE: minions answer after the time-out, rets are re-sent
    SlowJobs,      \* TRUE: a job, or what follows its answer, may take longer
                   \* than tasks_locked_minion_min_age
    MaxUserOps,    \* bound: stops, re-runs and restarts by users
    MaxLosses      \* bound: crashes, failed calls and lost messages

ASSUME TaskAssumption ==
    /\ Tasks # {} /\ IsFiniteSet(Minions) /\ StateApply \subseteq Tasks /\ TtlTasks \subseteq Tasks
    /\ TaskJobs = Jids /\ Jids \subseteq Nat    \* a JID is a time stamp
    /\ BatchSize \in Nat /\ MaxJobs \in Nat \ {0} /\ MaxRetries \in Nat
    /\ LateAnswers \in BOOLEAN /\ SlowJobs \in BOOLEAN
    /\ MaxUserOps \in Nat /\ MaxLosses \in Nat

VARIABLES
    status,     \* task -> status
    tm,         \* <<task, minion>> -> task minion status
    reopened,   \* history: task minions that users or late answers set pending from
                \* another status than in_work, till a busy check finds them pending
    old,        \* task minions taken longer than the minimal lock age ago
    owner, tgt, \* job -> its task and its minions
    lost,       \* jobs inserted but never pushed to the master
    rerun,      \* finished jobs whose new event was handled once more
    wPc, wQueue, wTask, wPick, wActive, wNew, wRel,  \* the tasks watcher
    wk, errQ,   \* process_task_job_return / process_task_job_error messages
    toPc, toRet,         \* the jobs watcher after a time-out
    rPc, rTask, rSet,    \* a restart_failed request
    ops, losses          \* what the bounds count

wvars  == <<wPc, wQueue, wTask, wPick, wActive, wNew, wRel>>
tmvars == <<tm, reopened>>
jvars  == <<owner, tgt, lost, rerun>>
msgs   == <<wk, errQ>>
tovars == <<toPc, toRet>>
rvars  == <<rPc, rTask, rSet>>
bounds == <<ops, losses>>
vars   == <<lvars, status, tmvars, old, jvars, wvars, msgs, tovars, rvars, bounds>>

TaskStatus == {"created", "running", "stopping", "stopped", "finished"}
TaskMinionStatus == {"pending", "busy", "in_work", "success", "failed"}
Outcomes == {"success", "failed", "pending"}
TM == Tasks \X Minions
None == "none"

JobsOf(t) == {j \in Jids : owner[j] = t}
ActiveJobs(t) == {j \in JobsOf(t) : job[j] \in {"starting", "running"}}

\* No active job, but those set running again by a redelivered new event.
Quiet(t) == ActiveJobs(t) \subseteq rerun

Pending(t) == {m \in Minions : tm[<<t, m>>] = "pending"}

\* Minions that are set pending, and were not already, nor in work.
Reopened(X) == reopened \cup {x \in X : tm[x] \notin {"pending", "in_work"}}

\* count_runs: the number of the task's job returns for the minion.
CountRuns(x) == Cardinality({j \in JobsOf(x[1]) : rstat[<<j, x[2]>>] # "none"})
AfterFailure_OneMore(x) ==             \* mutant: > for >=
    IF CountRuns(x) > MaxRetries THEN "failed" ELSE "pending"
AfterFailure(x) == IF CountRuns(x) >= MaxRetries THEN "failed" ELSE "pending"

TypeOK ==
    /\ LTypeOK
    /\ status \in [Tasks -> TaskStatus]
    /\ tm \in [TM -> TaskMinionStatus]
    /\ reopened \subseteq TM /\ old \subseteq TM
    /\ owner \in [Jids -> Tasks \cup {None}] /\ tgt \in [Jids -> SUBSET Minions]
    /\ lost \subseteq Jids /\ rerun \subseteq Jids
    /\ wPc \in {"idle", "release", "next", "busy", "unbusy", "count", "pick", "take",
                "create", "decide", "finish", "stopping", "stop"}
    /\ wQueue \subseteq Tasks \X TaskStatus /\ wTask \in Tasks
    /\ wPick \subseteq Minions /\ wActive \in Nat
    /\ wNew \in Nat /\ wRel \subseteq TM \X Outcomes
    /\ wk \in [Returns -> {"idle", "queued"} \cup Outcomes] /\ errQ \subseteq Jids
    /\ toPc \in {"idle", "read"} \cup Outcomes
    /\ toPc # "idle" => toRet \in Returns
    /\ rPc \in {"idle", "minions", "status"} /\ rTask \in Tasks /\ rSet \subseteq Minions
    /\ ops \in 0..MaxUserOps /\ losses \in 0..MaxLosses

Init ==
    /\ LInit
    /\ status = [t \in Tasks |-> "created"]
    /\ tm = [x \in TM |-> "pending"]
    /\ reopened = {} /\ old = {}
    /\ owner = [j \in Jids |-> None] /\ tgt = [j \in Jids |-> {}] /\ lost = {} /\ rerun = {}
    /\ wPc = "idle" /\ wQueue = {} /\ wTask = (CHOOSE t \in Tasks : TRUE)
    /\ wPick = {} /\ wActive = 0 /\ wNew = 0 /\ wRel = {}
    /\ wk = [p \in Returns |-> "idle"] /\ errQ = {}
    /\ toPc = "idle" /\ toRet = (CHOOSE p \in Returns : TRUE)
    /\ rPc = "idle" /\ rTask = (CHOOSE t \in Tasks : TRUE) /\ rSet = {}
    /\ ops = 0 /\ losses = 0
-----------------------------------------------------------------------------
(* The tasks watcher: release_locked_task_minions.  The list is read with  *)
(* count_runs in it, the releases are written one by one.                  *)
Locked_OnlyWithReturns ==              \* mutant: minions without any job are missed
    {x \in old : /\ tm[x] = "in_work"
                 /\ CountRuns(x) > 0
                 /\ \A j \in JobsOf(x[1]) : rstat[<<j, x[2]>>] # "waiting"}

Locked ==
    {x \in old : /\ tm[x] = "in_work"
                 /\ \A j \in JobsOf(x[1]) : rstat[<<j, x[2]>>] # "waiting"}

ReadLocked ==
    /\ wPc = "idle"
    /\ wRel' = {<<x, AfterFailure(x)>> : x \in Locked}
    /\ wPc' = "release"
    /\ UNCHANGED <<lvars, status, tmvars, old, jvars, wQueue, wTask, wPick, wActive, wNew,
                   msgs, tovars, rvars, bounds>>

ReleaseMinion(r) ==
    /\ wPc = "release" /\ r \in wRel
    /\ wRel' = wRel \ {r}
    /\ tm' = [tm EXCEPT ![r[1]] = r[2]]
    /\ UNCHANGED <<lvars, status, reopened, old, jvars, wPc, wQueue, wTask, wPick, wActive, wNew,
                   msgs, tovars, rvars, bounds>>

(* The list of active tasks; each is handled by the status it had here.    *)
ReadTasks ==
    /\ wPc = "release" /\ wRel = {}
    /\ wQueue' = {q \in Tasks \X {"running", "stopping"} : status[q[1]] = q[2]}
    /\ wPc' = "next"
    /\ UNCHANGED <<lvars, status, tmvars, old, jvars, wTask, wPick, wActive, wNew, wRel,
                   msgs, tovars, rvars, bounds>>

NextTask(q) ==
    /\ wPc = "next" /\ q \in wQueue
    /\ wQueue' = wQueue \ {q}
    /\ wTask' = q[1]
    /\ wPc' = IF q[2] = "running" THEN "busy" ELSE "stopping"
    /\ UNCHANGED <<lvars, status, tmvars, old, jvars, wPick, wActive, wNew, wRel,
                   msgs, tovars, rvars, bounds>>

EndPass ==
    /\ wPc = "next" /\ wQueue = {}
    /\ wPc' = "idle"
    /\ UNCHANGED <<lvars, status, tmvars, old, jvars, wQueue, wTask, wPick, wActive, wNew,
                   wRel, msgs, tovars, rvars, bounds>>
-----------------------------------------------------------------------------
(* handle_running_status: check_busy_task_minions.  Reading and writing    *)
(* are one step in each half: only this process makes minions in_work, so  *)
(* between them a minion can only stop being busy, which the next pass     *)
(* sees as well.                                                           *)
Busy_OwnFunOnly(t, m) ==               \* mutant: other tasks' minions are not looked at
    /\ t \in StateApply
    /\ \E j \in Jids : owner[j] \in StateApply /\ rstat[<<j, m>>] = "waiting"

Busy(t, m) ==
    \/ /\ t \in StateApply
       /\ \E j \in Jids : owner[j] \in StateApply /\ rstat[<<j, m>>] = "waiting"
    \/ \E u \in Tasks \ {t} : tm[<<u, m>>] = "in_work"

CheckBusy ==
    /\ wPc = "busy"
    /\ tm' = [x \in TM |-> IF x[1] = wTask /\ tm[x] = "pending" /\ Busy(wTask, x[2])
                           THEN "busy" ELSE tm[x]]
    /\ reopened' = reopened \ ({wTask} \X Pending(wTask))
    /\ wPc' = "unbusy"
    /\ UNCHANGED <<lvars, status, old, jvars, wQueue, wTask, wPick, wActive, wNew, wRel,
                   msgs, tovars, rvars, bounds>>

CheckUnbusy ==
    /\ wPc = "unbusy"
    /\ tm' = [x \in TM |-> IF x[1] = wTask /\ tm[x] = "busy" /\ ~Busy(wTask, x[2])
                           THEN "pending" ELSE tm[x]]
    /\ wPc' = "count"
    /\ UNCHANGED <<lvars, status, reopened, old, jvars, wQueue, wTask, wPick, wActive, wNew,
                   wRel, msgs, tovars, rvars, bounds>>

CountJobs ==
    /\ wPc = "count"
    /\ wActive' = Cardinality(ActiveJobs(wTask))
    /\ wNew' = 0
    /\ wPc' = "pick"
    /\ UNCHANGED <<lvars, status, tmvars, old, jvars, wQueue, wTask, wPick, wRel,
                   msgs, tovars, rvars, bounds>>

(* create_job: a batch of pending minions, taken under a guard on their    *)
(* status, then the job for those that were taken.                         *)
Batches(S) ==
    IF BatchSize = 0 \/ Cardinality(S) <= BatchSize
    THEN {S} ELSE {B \in SUBSET S : Cardinality(B) = BatchSize}

ReadPending ==
    /\ wPc = "pick"
    /\ \/ /\ wActive < MaxJobs
          /\ wPick' \in Batches(Pending(wTask))
          /\ wPc' = IF wPick' = {} THEN "decide" ELSE "take"
       \/ /\ wActive >= MaxJobs
          /\ wPc' = "decide" /\ wPick' = {}
    /\ UNCHANGED <<lvars, status, tmvars, old, jvars, wQueue, wTask, wActive, wNew, wRel,
                   msgs, tovars, rvars, bounds>>

TakeMinions ==
    /\ wPc = "take"
    /\ wPick' = wPick \cap Pending(wTask)
    /\ tm' = [x \in TM |-> IF x[1] = wTask /\ x[2] \in wPick' THEN "in_work" ELSE tm[x]]
    /\ old' = old \ ({wTask} \X wPick')
    /\ wPc' = IF wPick' = {} THEN "decide" ELSE "create"
    /\ UNCHANGED <<lvars, status, reopened, jvars, wQueue, wTask, wActive, wNew, wRel,
                   msgs, tovars, rvars, bounds>>

NewJob(j) ==
    /\ Create(j)
    /\ \A k \in Jids : k < j => job[k] # "none"
    /\ owner' = [owner EXCEPT ![j] = wTask]
    /\ tgt' = [tgt EXCEPT ![j] = wPick]

CreateJob_NotCounted(j) ==             \* mutant: active_jobs_count is not raised
    /\ wPc = "create"
    /\ NewJob(j)
    /\ wNew' = wNew + Cardinality(wPick)
    /\ wPc' = IF Cardinality(wPick) < BatchSize THEN "decide" ELSE "pick"
    /\ wPick' = {}
    /\ UNCHANGED <<status, tmvars, old, lost, rerun, wQueue, wTask, wRel, wActive,
                   msgs, tovars, rvars, bounds>>

CreateJob(j) ==
    /\ wPc = "create"
    /\ NewJob(j)
    /\ wActive' = wActive + 1
    /\ wNew' = wNew + Cardinality(wPick)
    /\ wPc' = IF Cardinality(wPick) < BatchSize THEN "decide" ELSE "pick"
    /\ wPick' = {}
    /\ UNCHANGED <<status, tmvars, old, lost, rerun, wQueue, wTask, wRel,
                   msgs, tovars, rvars, bounds>>

WatcherStops ==
    /\ wPc' = "idle" /\ wQueue' = {} /\ wPick' = {} /\ wRel' = {}
    /\ wActive' = 0 /\ wNew' = 0
    /\ UNCHANGED wTask

\* job_service.create raises, before or after the document was inserted but
\* before the push: the minions are put back and the watcher dies of the error.
CreateJobRaises ==
    /\ wPc = "create" /\ losses < MaxLosses
    /\ losses' = losses + 1
    /\ tm' = [x \in TM |-> IF x[1] = wTask /\ x[2] \in wPick THEN "pending" ELSE tm[x]]
    /\ \/ UNCHANGED <<lvars, jvars>>
       \/ \E j \in Jids : NewJob(j) /\ lost' = lost \cup {j} /\ UNCHANGED rerun
    /\ WatcherStops
    /\ UNCHANGED <<status, reopened, old, msgs, tovars, rvars, ops>>

WatcherCrash ==
    /\ wPc # "idle" /\ losses < MaxLosses
    /\ losses' = losses + 1
    /\ WatcherStops
    /\ UNCHANGED <<lvars, status, tmvars, old, jvars, msgs, tovars, rvars, ops>>

(* Nothing active, nothing created and no minion left to work on: finish.  *)
(* (Otherwise sync_jobs, whose update_status is FinishJob below.)          *)
DecideOn(unfinished) ==
    /\ wPc = "decide"
    /\ wPc' = IF /\ wActive = 0 /\ wNew = 0
                 /\ \A m \in Minions : tm[<<wTask, m>>] \notin unfinished
              THEN "finish" ELSE "next"
    /\ UNCHANGED <<lvars, status, tmvars, old, jvars, wQueue, wTask, wPick, wActive, wNew,
                   wRel, msgs, tovars, rvars, bounds>>

\* mutants: minions in work are forgotten; failed ones count as work
Decide_ForgetsInWork == DecideOn({"pending", "busy"})
Decide_FailedIsWork  == DecideOn({"pending", "busy", "in_work", "failed"})

Decide == DecideOn({"pending", "busy", "in_work"})

(* handle_stopping_status. *)
StopUnless(active) ==
    /\ wPc = "stopping"
    /\ wPc' = IF \E j \in JobsOf(wTask) : job[j] \in active THEN "next" ELSE "stop"
    /\ UNCHANGED <<lvars, status, tmvars, old, jvars, wQueue, wTask, wPick, wActive, wNew,
                   wRel, msgs, tovars, rvars, bounds>>

\* mutants: a starting job is not waited for; a launch error is no end
CheckStopping_RunningOnly == StopUnless({"running"})
CheckStopping_NotFinished == StopUnless({"starting", "running", "launch_error"})

CheckStopping == StopUnless({"starting", "running"})

(* update_task writes its new status over whatever the status is now.      *)
UpdateTask ==
    /\ \/ wPc = "finish" /\ status' = [status EXCEPT ![wTask] = "finished"]
       \/ wPc = "stop" /\ status' = [status EXCEPT ![wTask] = "stopped"]
    /\ wPc' = "next"
    /\ UNCHANGED <<lvars, tmvars, old, jvars, wQueue, wTask, wPick, wActive, wNew, wRel,
                   msgs, tovars, rvars, bounds>>
-----------------------------------------------------------------------------
(* REST.  TaskService.stop is a transaction; stop_job does nothing yet.    *)
Stop(t) ==
    /\ status[t] = "running"
    /\ status' = [status EXCEPT ![t] = "stopping"]
    /\ tm' = [x \in TM |-> IF x[1] = t /\ tm[x] = "busy" THEN "pending" ELSE tm[x]]
    /\ reopened' = Reopened({x \in TM : x[1] = t /\ tm[x] = "busy"})
    /\ UNCHANGED <<lvars, old, jvars, msgs, tovars, rvars, losses>>

UserStop(t) ==
    /\ ops < MaxUserOps
    /\ ops' = ops + 1
    /\ Stop(t)
    /\ UNCHANGED wvars

\* TaskLifespanService.process stops a task whose ttl_task has passed.
TtlStop(q) ==
    /\ wPc = "next" /\ q \in wQueue
    /\ q[2] = "running" /\ q[1] \in TtlTasks
    /\ wQueue' = wQueue \ {q}
    /\ \/ Stop(q[1])
       \/ /\ status[q[1]] # "running"
          /\ UNCHANGED <<lvars, status, tmvars, old, jvars, msgs, tovars, rvars, losses>>
    /\ UNCHANGED <<wPc, wTask, wPick, wActive, wNew, wRel, ops>>

RunTask(t) ==
    /\ \/ status[t] = "created" /\ UNCHANGED ops
       \/ status[t] = "stopped" /\ ops < MaxUserOps /\ ops' = ops + 1
    /\ status' = [status EXCEPT ![t] = "running"]
    /\ UNCHANGED <<lvars, tmvars, old, jvars, wvars, msgs, tovars, rvars, losses>>

\* restart_failed: the failed minions and the task's status are read, then the
\* minions and the status are written without looking again.
RestartRead(t) ==
    /\ rPc = "idle" /\ ops < MaxUserOps
    /\ status[t] # "stopping"
    /\ ops' = ops + 1
    /\ rTask' = t
    /\ rSet' = {m \in Minions : tm[<<t, m>>] = "failed"}
    /\ rPc' = "minions"
    /\ UNCHANGED <<lvars, status, tmvars, old, jvars, wvars, msgs, tovars, losses>>

RestartMinions ==
    /\ rPc = "minions"
    /\ tm' = [x \in TM |-> IF x[1] = rTask /\ x[2] \in rSet THEN "pending" ELSE tm[x]]
    /\ reopened' = Reopened({rTask} \X rSet)
    /\ rPc' = "status"
    /\ UNCHANGED <<lvars, status, old, jvars, wvars, msgs, tovars, rTask, rSet, bounds>>

RestartStatus ==
    /\ rPc = "status"
    /\ status' = [status EXCEPT ![rTask] = "running"]
    /\ rPc' = "idle" /\ rSet' = {}
    /\ UNCHANGED <<lvars, tmvars, old, jvars, wvars, msgs, tovars, rTask, bounds>>
-----------------------------------------------------------------------------
(* Jobs, by the writes of JobLedger.                                       *)
rest == <<status, tmvars, jvars, wvars, rvars, bounds>>

Launch(j) ==
    /\ job[j] = "starting" /\ j \notin lost
    /\ Run(j) \/ LaunchError(j)
    /\ UNCHANGED <<rest, old, msgs, tovars>>

\* The worker died before it acknowledged the new event: it is handled again,
\* which sets the job running whatever it is by now.
Relaunch(j) ==
    /\ losses < MaxLosses
    /\ losses' = losses + 1
    /\ job[j] = "finished"
    /\ Run(j)
    /\ rerun' = rerun \cup {j}
    /\ UNCHANGED <<status, tmvars, old, owner, tgt, lost, wvars, msgs, tovars, rvars, ops>>

ReturnsCreated(j) ==
    /\ job[j] \in {"running", "finished"}
    /\ \E live \in SUBSET tgt[j] : CreateReturns(j, live, tgt[j] \ live)
    /\ \A m \in tgt[j] : rstat[<<j, m>>] = "none"
    /\ UNCHANGED <<rest, old, msgs, tovars>>

MinionAnswers(p) ==
    /\ rstat[p] = "waiting" \/ (LateAnswers /\ rstat[p] = "timeout")
    /\ \E rc \in Retcodes : Answer(p, rc)
    /\ UNCHANGED <<rest, old, msgs, tovars>>

FinishJob(j) ==
    /\ job[j] = "running" /\ ~HasWaiting(j)
    /\ Finish({j})
    /\ UNCHANGED <<rest, old, msgs, tovars>>

TellReturn(p) ==
    /\ NotifyReturn(p)
    /\ wk[p] = "idle" /\ (p \notin kiqRet \/ LateAnswers)
    /\ wk' = [wk EXCEPT ![p] = "queued"]
    /\ UNCHANGED <<rest, old, errQ, tovars>>

TellError(j) ==
    /\ job[j] = "launch_error" /\ j \notin kiqErr
    /\ NotifyError(j)
    /\ errQ' = errQ \cup {j}
    /\ UNCHANGED <<rest, old, wk, tovars>>

LoseMessage ==
    /\ losses < MaxLosses
    /\ losses' = losses + 1
    /\ \/ \E p \in Returns : wk[p] # "idle" /\ wk' = [wk EXCEPT ![p] = "idle"]
                             /\ UNCHANGED errQ
       \/ \E j \in errQ : errQ' = errQ \ {j} /\ UNCHANGED wk
    /\ UNCHANGED <<lvars, status, tmvars, old, jvars, wvars, tovars, rvars, ops>>
-----------------------------------------------------------------------------
(* process_task_job_return: read the return, the task and count_runs, then *)
(* write the task minion's status, whatever it is by now.                  *)
XOf(p) == <<owner[p[1]], p[2]>>

ReadReturn(p) ==
    /\ wk[p] = "queued"
    /\ wk' = [wk EXCEPT ![p] = IF rcode[p] = "zero" THEN "success"
                               ELSE AfterFailure(XOf(p))]
    /\ UNCHANGED <<lvars, rest, old, errQ, tovars>>

WriteReturn(p) ==
    /\ wk[p] \in Outcomes
    /\ tm' = [tm EXCEPT ![XOf(p)] = wk[p]]
    /\ reopened' = IF wk[p] = "pending" THEN Reopened({XOf(p)}) ELSE reopened
    /\ wk' = [wk EXCEPT ![p] = "idle"]
    /\ UNCHANGED <<lvars, status, old, jvars, wvars, errQ, tovars, rvars, bounds>>

(* process_task_job_error: all minions of the job fail.                    *)
WorkError(j) ==
    /\ j \in errQ
    /\ errQ' = errQ \ {j}
    /\ tm' = [x \in TM |-> IF x[1] = owner[j] /\ x[2] \in tgt[j] THEN "failed" ELSE tm[x]]
    /\ UNCHANGED <<lvars, status, reopened, old, jvars, wvars, wk, tovars, rvars, bounds>>

(* JobsWatcher.timeout_job_return: time out the return, read the task      *)
(* minion unless it is pending, write its status.                          *)
TimeoutReturn(p) ==
    /\ toPc = "idle"
    /\ Timeout(p)
    /\ toRet' = p /\ toPc' = "read"
    /\ UNCHANGED <<rest, old, msgs>>

TimeoutRead ==
    /\ toPc = "read"
    /\ toPc' = IF tm[XOf(toRet)] = "pending" THEN "idle" ELSE AfterFailure(XOf(toRet))
    /\ UNCHANGED <<lvars, rest, old, msgs, toRet>>

TimeoutWrite ==
    /\ toPc \in Outcomes
    /\ tm' = [tm EXCEPT ![XOf(toRet)] = toPc]
    /\ reopened' = IF toPc = "pending" THEN Reopened({XOf(toRet)}) ELSE reopened
    /\ toPc' = "idle"
    /\ UNCHANGED <<lvars, status, old, jvars, wvars, msgs, toRet, rvars, bounds>>

(* start_last_dt falls behind tasks_locked_minion_min_age.  Without        *)
(* SlowJobs that takes longer than the job on the minion and the messages  *)
(* that follow from its end, unless they were lost.                        *)
Settled(j, m) ==
    \/ j \in lost
    \/ job[j] = "launch_error" /\ j \in kiqErr /\ j \notin errQ
    \/ /\ rstat[<<j, m>>] \notin {"none", "waiting"}
       /\ toPc = "idle" \/ toRet # <<j, m>>
       /\ rcode[<<j, m>>] = "null" \/ (<<j, m>> \in kiqRet /\ wk[<<j, m>>] = "idle")

GetsOld(x) ==
    /\ tm[x] = "in_work" /\ x \notin old
    /\ SlowJobs \/ \A j \in JobsOf(x[1]) : x[2] \in tgt[j] => Settled(j, x[2])
    /\ wPc = "create" => x \notin {wTask} \X wPick
    /\ old' = old \cup {x}
    /\ UNCHANGED <<lvars, rest, msgs, tovars>>
-----------------------------------------------------------------------------
HandleTask ==
    \/ CheckBusy \/ CheckUnbusy \/ CountJobs \/ ReadPending \/ TakeMinions
    \/ \E j \in Jids : CreateJob(j)
    \/ Decide \/ CheckStopping \/ UpdateTask

TasksWatcher ==
    \/ ReadLocked \/ \E r \in wRel : ReleaseMinion(r)
    \/ ReadTasks \/ \E q \in wQueue : NextTask(q)
    \/ EndPass \/ HandleTask

User == \/ \E t \in Tasks : UserStop(t) \/ RunTask(t) \/ RestartRead(t)
        \/ RestartMinions \/ RestartStatus

Worker(p) == ReadReturn(p) \/ WriteReturn(p)

JobSteps(j) == ReturnsCreated(j) \/ FinishJob(j) \/ TellError(j)

Next ==
    \/ TasksWatcher \/ CreateJobRaises \/ WatcherCrash
    \/ \E q \in wQueue : TtlStop(q)
    \/ User
    \/ \E j \in Jids : Launch(j) \/ Relaunch(j) \/ JobSteps(j) \/ WorkError(j)
    \/ \E p \in Returns : MinionAnswers(p) \/ TellReturn(p) \/ Worker(p) \/ TimeoutReturn(p)
    \/ LoseMessage \/ TimeoutRead \/ TimeoutWrite
    \/ \E x \in TM : GetsOld(x)

Spec == Init /\ [][Next]_vars

(* The processes keep running, Salt launches or refuses what it is given   *)
(* and time passes; minions and users owe nothing.  The jobs watcher owes  *)
(* a time-out to the returns of running jobs only.                         *)
Fairness ==
    /\ WF_vars(TasksWatcher)
    /\ WF_vars(TimeoutRead \/ TimeoutWrite)
    /\ WF_vars(RestartMinions \/ RestartStatus)
    /\ \A j \in Jids : /\ WF_vars(Launch(j)) /\ WF_vars(ReturnsCreated(j))
                       /\ WF_vars(FinishJob(j)) /\ WF_vars(TellError(j))
                       /\ WF_vars(WorkError(j))
    /\ \A p \in Returns : /\ WF_vars(TellReturn(p) /\ p \notin kiqRet)
                          /\ WF_vars(Worker(p))
                          /\ SF_vars(job[p[1]] = "running" /\ TimeoutReturn(p))
    /\ \A x \in TM : WF_vars(GetsOld(x))

FairSpec == Spec /\ Fairness
-----------------------------------------------------------------------------
(* Properties. *)

\* max_jobs_count_at_same_time: the watcher counts the active jobs once per
\* pass and jobs end meanwhile, yet a task never has more than that many (but
\* those set running again by a redelivered new event).
ActiveJobsBounded == \A t \in Tasks : Cardinality(ActiveJobs(t) \ rerun) <= MaxJobs

Dispatched(x) ==
    {j \in JobsOf(x[1]) \ lost : x[2] \in tgt[j] /\ job[j] # "launch_error"}

\* A minion is not sent the task's job more than max_retries times (once if it
\* is 0), though crashes, time-outs, lost notifications and the release of
\* locked minions all put it back to pending.
RunsBounded ==
    \A x \in TM : Cardinality(Dispatched(x)) <= (IF MaxRetries = 0 THEN 1 ELSE MaxRetries)

\* A task that the watcher finished left nothing to do: no job active (but those
\* set running again) and no minion pending, busy or in work, although finish is
\* decided from three reads; a minion is pending only if a restart or a late
\* answer set it so after it was done.
FinishedIsComplete ==
    \A t \in Tasks : status[t] = "finished" =>
        /\ Quiet(t)
        /\ \A m \in Minions :
              \/ tm[<<t, m>>] \in {"success", "failed"}
              \/ tm[<<t, m>>] = "pending" /\ <<t, m>> \in reopened

\* A minion is in work for one task at a time: what check_busy_task_minions
\* found still holds when create_job takes the minions, but for those that were
\* not pending when it looked and that a stop, a restart or a late answer set
\* pending since.
OneTaskPerMinion ==
    \A m \in Minions, t, u \in Tasks :
        /\ tm[<<t, m>>] = "in_work" /\ <<t, m>> \notin reopened
        /\ tm[<<u, m>>] = "in_work" /\ <<u, m>> \notin reopened
        => t = u

\* A stopped task has no job that starts or runs: jobs created by a watcher
\* that had not seen the stop are waited for.  Only a redelivered new event can
\* set a finished job running again.
StoppedIsQuiet ==
    \A t \in Tasks : status[t] = "stopped" => Quiet(t)

\* Nobody ends a job that was inserted but never pushed, and nobody times out
\* a return created after its job had finished (Jobs, WaitingReturnEnds).
Forgotten(t, m) ==
    \E j \in JobsOf(t) : rstat[<<j, m>>] = "waiting" /\ job[j] # "running"
Stuck(t) == JobsOf(t) \cap lost # {} \/ \E m \in Minions : Forgotten(t, m)

\* No minion stays locked by a task: lost notifications, a crash between taking
\* the minions and creating the job, launch errors and ignored returns included,
\* the forgotten return excepted.
InWorkEnds ==
    \A x \in TM : tm[x] = "in_work" ~> (tm[x] # "in_work" \/ Forgotten(x[1], x[2]))

\* A running task ends (finished, or stopped by a user) unless it is stuck on
\* a job that was never pushed or on a forgotten return.
RunningTaskEnds ==
    \A t \in Tasks : status[t] = "running" ~> (status[t] # "running" \/ Stuck(t))

\* A stop request is completed, unless a job was inserted but never pushed.
StoppingEnds ==
    \A t \in Tasks : status[t] = "stopping" ~>
        (status[t] # "stopping" \/ JobsOf(t) \cap lost # {})
=============================================================================

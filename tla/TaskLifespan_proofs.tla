------------------------ MODULE TaskLifespan_proofs ------------------------
(***************************************************************************)
(* What TaskLifespan promises, for every number of tasks, minions and jobs *)
(* and whatever the batches, retries, late answers, users and losses are.  *)
(* The watcher acts on what it read earlier, so each invariant says what   *)
(* such a reading is still worth at each of its steps:                     *)
(*   TypeInv    types, finitely many jobs, and that these have an owner;   *)
(*   CountInv   its count of active jobs is not below their number;        *)
(*   StopInv    a task it read as running is not stopped or finished, and  *)
(*              one it is about to stop or finish has no active job;       *)
(*   MinionInv  minions that its busy check left pending are free, and a   *)
(*              task it is about to finish has no minion left to work on;  *)
(*   RunsInv    whoever may send a minion to work again (a pending minion, *)
(*              one taken or about to be released, an outcome a worker has *)
(*              read) does so with nothing left to work off and room for   *)
(*              one more run, if answers come in time.                     *)
(* Each is inductive together with those above it.  The last part is about *)
(* what MCRetries puts beside the tasks, Salt's events:                    *)
(*   EventsInv  the attempts at an event, and those still left to the      *)
(*              messages that carry it, are not above the bound.           *)
(***************************************************************************)
EXTENDS MCRetries, SequenceTheorems, FiniteSetTheorems, TLAPS

Ended == {"stopped", "finished"}

USE DEF Ended, tmvars, wvars, jvars, msgs, tovars, rvars, bounds, lvars, rest
-----------------------------------------------------------------------------
(* Types. *)

Created == {j \in Jids : job[j] # "none"}
\* Who reads a job's owner reads that of a job that was created.
JobsAreOwned ==
    /\ \A j \in Created : owner[j] \in Tasks
    /\ \A p \in Returns : rstat[p] # "none" => p[1] \in Created
    /\ \A p \in Returns : wk[p] # "idle" => p[1] \in Created
    /\ toPc # "idle" => toRet[1] \in Created
TypeInv == TypeOK /\ IsFiniteSet(Created) /\ JobsAreOwned

\* No job, answer or job owner exists at first.
LEMMA TypeInit == Init => TypeInv
  <1> SUFFICES ASSUME Init PROVE TypeInv OBVIOUS
  <1>0. IsFiniteSet(Created) /\ JobsAreOwned
    <2>1. Created = {} BY DEF Init, LInit, Created
    <2>2. QED BY <2>1, FS_EmptySet DEF Init, LInit, JobsAreOwned, Returns
  <1>1. TypeOK
    BY TaskAssumption DEF Init, LInit, TypeOK, LTypeOK, TM, TaskStatus,
        TaskMinionStatus, Returns, Replies, Retcodes
  <1>2. QED BY <1>0, <1>1 DEF TypeInv

\* A failure is a verdict on the minion, or another try.
LEMMA OutcomeOfFailure == ASSUME NEW x PROVE AfterFailure(x) \in {"failed", "pending"}
  BY DEF AfterFailure

\* The minions set pending anew are task minions.
LEMMA ReopenedType == ASSUME TypeOK, NEW X \in SUBSET TM PROVE Reopened(X) \subseteq TM
  BY DEF TypeOK, Reopened

\* There are finitely many active jobs, so that they can be counted.
LEMMA ActiveAreCreated == ASSUME TypeInv, NEW t
   PROVE  /\ ActiveJobs(t) \subseteq Created /\ IsFiniteSet(ActiveJobs(t))
          /\ Cardinality(ActiveJobs(t)) \in Nat
  <1>1. ActiveJobs(t) \subseteq Created BY DEF ActiveJobs, JobsOf, Created
  <1>2. QED BY <1>1, FS_Subset, FS_CardinalityType DEF TypeInv

\* The watcher between two tasks.
LEMMA TypeBetweenTasks ==
    ASSUME TypeInv,
        ReadLocked \/ (\E r \in wRel : ReleaseMinion(r)) \/ ReadTasks \/
            (\E q \in wQueue : NextTask(q)) \/ EndPass
    PROVE  TypeOK'
  <1>1. CASE ReadLocked
    BY <1>1, OutcomeOfFailure DEF ReadLocked, TypeInv, TypeOK, LTypeOK, Locked, Outcomes
  <1>2. ASSUME NEW r \in wRel, ReleaseMinion(r) PROVE TypeOK'
    BY <1>2 DEF ReleaseMinion, TypeInv, TypeOK, LTypeOK, Outcomes, TaskMinionStatus
  <1>3. CASE ReadTasks
    BY <1>3 DEF ReadTasks, TypeInv, TypeOK, LTypeOK, TaskStatus
  <1>4. ASSUME NEW q \in wQueue, NextTask(q) PROVE TypeOK'
    BY <1>4 DEF NextTask, TypeInv, TypeOK, LTypeOK
  <1>5. CASE EndPass
    BY <1>5 DEF EndPass, TypeInv, TypeOK, LTypeOK
  <1>6. QED BY <1>1, <1>2, <1>3, <1>4, <1>5

\* The watcher at work on a task.
LEMMA TypeAtATask ==
    ASSUME TypeInv, HandleTask
    PROVE  TypeOK'
  <1>1. CASE CheckBusy
    BY <1>1 DEF CheckBusy, TypeInv, TypeOK, LTypeOK, TaskMinionStatus
  <1>2. CASE CheckUnbusy
    BY <1>2 DEF CheckUnbusy, TypeInv, TypeOK, LTypeOK, TaskMinionStatus
  <1>3. CASE CountJobs
    BY <1>3, ActiveAreCreated DEF CountJobs, TypeInv, TypeOK, LTypeOK
  <1>4. CASE ReadPending
    BY <1>4 DEF ReadPending, TypeInv, TypeOK, LTypeOK, Batches, Pending
  <1>5. CASE TakeMinions
    BY <1>5 DEF TakeMinions, TypeInv, TypeOK, LTypeOK, Pending, TaskMinionStatus
  <1>6. ASSUME NEW j \in Jids, CreateJob(j) PROVE TypeOK'
    <2>1. Cardinality(wPick) \in Nat
      BY TaskAssumption, FS_Subset, FS_CardinalityType DEF TypeInv, TypeOK
    <2>2. QED BY <2>1, <1>6 DEF CreateJob, NewJob, Create, TypeInv, TypeOK, LTypeOK,
        JobStatus
  <1>7. CASE Decide
    BY <1>7 DEF Decide, DecideOn, TypeInv, TypeOK, LTypeOK
  <1>8. CASE CheckStopping
    BY <1>8 DEF CheckStopping, StopUnless, TypeInv, TypeOK, LTypeOK
  <1>9. CASE UpdateTask
    BY <1>9 DEF UpdateTask, TypeInv, TypeOK, LTypeOK, TaskStatus
  <1>10. QED BY <1>1, <1>2, <1>3, <1>4, <1>5, <1>6, <1>7, <1>8, <1>9 DEF HandleTask

\* Errors of the watcher, users and ttl_task.
LEMMA TypeUsers ==
    ASSUME TypeInv,
        CreateJobRaises \/ WatcherCrash \/ User \/ \E q \in wQueue : TtlStop(q)
    PROVE  TypeOK'
  <1>1. CASE CreateJobRaises
    <2>1. losses' \in 0..MaxLosses
      BY TaskAssumption, <1>1 DEF CreateJobRaises, TypeInv, TypeOK
    <2>2. /\ LTypeOK' /\ owner' \in [Jids -> Tasks \cup {None}]
          /\ tgt' \in [Jids -> SUBSET Minions]
          /\ lost' \subseteq Jids /\ rerun' \subseteq Jids
      <3>1. CASE UNCHANGED <<lvars, jvars>>
        BY <3>1 DEF TypeInv, TypeOK, LTypeOK
      <3>2. ASSUME NEW j \in Jids, NewJob(j), lost' = lost \cup {j}, UNCHANGED rerun
            PROVE  /\ LTypeOK' /\ owner' \in [Jids -> Tasks \cup {None}]
                   /\ tgt' \in [Jids -> SUBSET Minions]
                   /\ lost' \subseteq Jids /\ rerun' \subseteq Jids
        BY <3>2 DEF NewJob, Create, TypeInv, TypeOK, LTypeOK, JobStatus
      <3>3. QED BY <1>1, <3>1, <3>2 DEF CreateJobRaises
    <2>3. tm' \in [TM -> TaskMinionStatus]
      BY <1>1 DEF CreateJobRaises, TypeInv, TypeOK, TaskMinionStatus
    <2>4. QED BY <1>1, <2>1, <2>2, <2>3
           DEF CreateJobRaises, WatcherStops, TypeInv, TypeOK
  <1>2. CASE WatcherCrash
    BY TaskAssumption, <1>2 DEF WatcherCrash, WatcherStops, TypeInv, TypeOK, LTypeOK
  <1>3. ASSUME NEW t \in Tasks, UserStop(t) PROVE TypeOK'
    <2>1. reopened' \subseteq TM BY <1>3, ReopenedType DEF UserStop, Stop, TypeInv
    <2>2. QED BY TaskAssumption, <1>3, <2>1
           DEF UserStop, Stop, TypeInv, TypeOK, LTypeOK, TaskStatus, TaskMinionStatus
  <1>4. ASSUME NEW q \in wQueue, TtlStop(q) PROVE TypeOK'
    <2>1. reopened' \subseteq TM BY <1>4, ReopenedType
           DEF TtlStop, Stop, TypeInv, TypeOK
    <2>2. QED BY <1>4, <2>1 DEF TtlStop, Stop, TypeInv, TypeOK, LTypeOK, TaskStatus,
        TaskMinionStatus
  <1>5. ASSUME NEW t \in Tasks, RunTask(t) PROVE TypeOK'
    BY TaskAssumption, <1>5 DEF RunTask, TypeInv, TypeOK, LTypeOK, TaskStatus
  <1>6. ASSUME NEW t \in Tasks, RestartRead(t) PROVE TypeOK'
    BY TaskAssumption, <1>6 DEF RestartRead, TypeInv, TypeOK, LTypeOK
  <1>7. CASE RestartMinions
    <2>1. {rTask} \X rSet \subseteq TM BY DEF TypeInv, TypeOK, TM
    <2>2. reopened' \subseteq TM BY <1>7, <2>1, ReopenedType DEF RestartMinions, TypeInv
    <2>3. QED BY <1>7, <2>2 DEF RestartMinions, TypeInv, TypeOK, LTypeOK,
        TaskMinionStatus
  <1>8. CASE RestartStatus
    BY <1>8 DEF RestartStatus, TypeInv, TypeOK, LTypeOK, TaskStatus
  <1>9. QED BY <1>1, <1>2, <1>3, <1>4, <1>5, <1>6, <1>7, <1>8 DEF User

\* The steps of a job, from its launch to its last answer.
LEMMA TypeJobs ==
    ASSUME TypeInv, NEW j \in Jids,
        Launch(j) \/ Relaunch(j) \/ JobSteps(j) \/ WorkError(j)
    PROVE  TypeOK'
  <1>1. CASE Launch(j)
    BY <1>1 DEF Launch, Run, LaunchError, TypeInv, TypeOK, LTypeOK, JobStatus
  <1>2. CASE Relaunch(j)
    BY TaskAssumption, <1>2 DEF Relaunch, Run, TypeInv, TypeOK, LTypeOK, JobStatus
  <1>3. CASE ReturnsCreated(j)
    BY <1>3 DEF ReturnsCreated, CreateReturns, TypeInv, TypeOK, LTypeOK,
        JobReturnStatus, Returns
  <1>4. CASE FinishJob(j)
    BY <1>4 DEF FinishJob, Finish, TypeInv, TypeOK, LTypeOK, JobStatus
  <1>5. CASE TellError(j)
    BY <1>5 DEF TellError, NotifyError, TypeInv, TypeOK, LTypeOK
  <1>6. CASE WorkError(j)
    BY <1>6 DEF WorkError, TypeInv, TypeOK, LTypeOK, TaskMinionStatus
  <1>7. QED BY <1>1, <1>2, <1>3, <1>4, <1>5, <1>6 DEF JobSteps

\* Whoever writes the task minion of a return writes one that exists.
LEMMA OwnedMinion == ASSUME TypeInv, NEW p \in Returns,
    p[1] \in Created PROVE XOf(p) \in TM
  BY DEF XOf, TM, TypeInv, JobsAreOwned, Returns

\* A minion's answer on its way to the database.
LEMMA TypeReturns ==
    ASSUME TypeInv, NEW p \in Returns,
           MinionAnswers(p) \/ TellReturn(p) \/ Worker(p) \/ TimeoutReturn(p)
    PROVE  TypeOK'
  <1>1. CASE MinionAnswers(p)
    BY <1>1 DEF MinionAnswers, Answer, StatusOf, TypeInv, TypeOK, LTypeOK,
        JobReturnStatus, Replies
  <1>2. CASE TellReturn(p)
    BY <1>2 DEF TellReturn, NotifyReturn, TypeInv, TypeOK, LTypeOK
  <1>3. CASE ReadReturn(p)
    BY <1>3, OutcomeOfFailure DEF ReadReturn, TypeInv, TypeOK, LTypeOK, Outcomes
  <1>4. CASE WriteReturn(p)
    <2>1. XOf(p) \in TM BY <1>4, OwnedMinion
           DEF WriteReturn, Outcomes, TypeInv, JobsAreOwned
    <2>2. reopened' \subseteq TM
      <3>1. {XOf(p)} \in SUBSET TM BY <2>1
      <3>2. QED BY <1>4, <3>1, ReopenedType DEF WriteReturn, TypeInv, TypeOK
    <2>3. QED BY <1>4, <2>2 DEF WriteReturn, Outcomes, TypeInv, TypeOK, LTypeOK,
        TaskMinionStatus
  <1>5. CASE TimeoutReturn(p)
    BY <1>5 DEF TimeoutReturn, Timeout, TypeInv, TypeOK, LTypeOK, JobReturnStatus
  <1>6. QED BY <1>1, <1>2, <1>3, <1>4, <1>5 DEF Worker

\* Losses, the return timeout and answers of earlier tries.
LEMMA TypeOthers ==
    ASSUME TypeInv,
        LoseMessage \/ TimeoutRead \/ TimeoutWrite \/ (\E x \in TM : GetsOld(x))
    PROVE  TypeOK'
  <1>1. CASE LoseMessage
    <2>1. wk' \in [Returns -> {"idle", "queued"} \cup Outcomes] /\ errQ' \subseteq Jids
      BY <1>1 DEF LoseMessage, TypeInv, TypeOK
    <2>2. losses' \in 0..MaxLosses
      BY TaskAssumption, <1>1 DEF LoseMessage, TypeInv, TypeOK
    <2>3. QED BY <1>1, <2>1, <2>2 DEF LoseMessage, TypeInv, TypeOK, LTypeOK
  <1>2. CASE TimeoutRead
    BY <1>2, OutcomeOfFailure DEF TimeoutRead, TypeInv, TypeOK, LTypeOK, Outcomes
  <1>3. CASE TimeoutWrite
    <2>1. XOf(toRet) \in TM BY <1>3, OwnedMinion
           DEF TimeoutWrite, Outcomes, TypeInv, TypeOK, JobsAreOwned
    <2>2. reopened' \subseteq TM
      <3>1. {XOf(toRet)} \in SUBSET TM BY <2>1
      <3>2. QED BY <1>3, <3>1, ReopenedType DEF TimeoutWrite, TypeInv, TypeOK
    <2>3. QED BY <1>3, <2>2 DEF TimeoutWrite, Outcomes, TypeInv, TypeOK, LTypeOK,
        TaskMinionStatus
  <1>4. ASSUME NEW x \in TM, GetsOld(x) PROVE TypeOK'
    BY <1>4 DEF GetsOld, TypeInv, TypeOK, LTypeOK
  <1>5. QED BY <1>1, <1>2, <1>3, <1>4

\* Only create_job makes jobs, and it gives them an owner first.
LEMMA OwnedNext == ASSUME TypeInv,
    [Next]_vars PROVE IsFiniteSet(Created)' /\ JobsAreOwned'
  <1>1. ASSUME NEW j \in Jids, NewJob(j), UNCHANGED <<wk, tovars>>,
      wPc = "create" PROVE IsFiniteSet(Created)' /\ JobsAreOwned'
    <2>1. Created' = Created \cup {j}
      BY <1>1 DEF NewJob, Create, Created, TypeInv, TypeOK, LTypeOK
    <2>2. IsFiniteSet(Created)' BY <2>1, FS_AddElement DEF TypeInv
    <2>3. wTask \in Tasks /\ owner' = [owner EXCEPT ![j] = wTask] /\ UNCHANGED rstat
      BY <1>1 DEF NewJob, Create, TypeInv, TypeOK
    <2>4. \A i \in Created' : owner'[i] \in Tasks
      BY <2>1, <2>3 DEF JobsAreOwned, TypeInv, TypeOK
    <2>5. JobsAreOwned' BY <1>1, <2>1, <2>3, <2>4 DEF JobsAreOwned, TypeInv
    <2>6. QED BY <2>2, <2>5
  <1>2. ASSUME Created' = Created, UNCHANGED owner,
          \A p \in Returns : rstat'[p] # "none" => p[1] \in Created,
          \A p \in Returns : wk'[p] # "idle" => p[1] \in Created,
          toPc' # "idle" => toRet'[1] \in Created
        PROVE IsFiniteSet(Created)' /\ JobsAreOwned'
    BY <1>2 DEF TypeInv, JobsAreOwned
  <1>3. ASSUME UNCHANGED <<job, owner, rstat, wk,
      tovars>> PROVE IsFiniteSet(Created)' /\ JobsAreOwned'
    BY <1>2, <1>3 DEF TypeInv, JobsAreOwned, Created
  <1>4. CASE TasksWatcher \/ CreateJobRaises \/ WatcherCrash \/ User \/
      \E q \in wQueue : TtlStop(q)
    <2>1. CASE (\E j \in Jids : CreateJob(j)) \/ CreateJobRaises
      BY <2>1, <1>1, <1>3 DEF CreateJob, CreateJobRaises
    <2>2. CASE ReadLocked \/ (\E r \in wRel : ReleaseMinion(r)) \/ ReadTasks \/
        (\E q \in wQueue : NextTask(q)) \/ EndPass
      BY <2>2, <1>3 DEF ReadLocked, ReleaseMinion, ReadTasks, NextTask, EndPass
    <2>3. CASE CheckBusy \/ CheckUnbusy \/ CountJobs \/ ReadPending \/ TakeMinions \/
        Decide \/ CheckStopping \/ UpdateTask
      BY <2>3, <1>3 DEF CheckBusy, CheckUnbusy, CountJobs, ReadPending, TakeMinions,
          Decide, DecideOn, CheckStopping, StopUnless, UpdateTask
    <2>4. CASE WatcherCrash \/ User \/ \E q \in wQueue : TtlStop(q)
      BY <2>4, <1>3 DEF WatcherCrash, User, UserStop, RunTask, RestartRead,
          RestartMinions, RestartStatus, TtlStop, Stop
    <2>5. QED BY <1>4, <2>1, <2>2, <2>3, <2>4 DEF TasksWatcher, HandleTask
  <1>5. ASSUME NEW j \in Jids, Launch(j) \/ Relaunch(j) \/ JobSteps(j) \/ WorkError(j)
        PROVE  IsFiniteSet(Created)' /\ JobsAreOwned'
    <2>1. CASE Launch(j) \/ Relaunch(j) \/ FinishJob(j)
      <3>1. UNCHANGED <<owner, rstat, wk, tovars>> BY <2>1
             DEF Launch, Relaunch, FinishJob, Run, LaunchError, Finish
      <3>2. Created' = Created
        BY <2>1 DEF Launch, Relaunch, FinishJob, Run, LaunchError, Finish, Created,
            TypeInv, TypeOK, LTypeOK
      <3>3. QED BY <1>2, <3>1, <3>2 DEF TypeInv, JobsAreOwned
    <2>2. CASE ReturnsCreated(j)
      <3>1. UNCHANGED <<job, owner, wk, tovars>> /\ j \in Created BY <2>2
             DEF ReturnsCreated, CreateReturns, Created
      <3>2. \A p \in Returns : rstat'[p] # "none" => p[1] \in Created
        BY <2>2, <3>1 DEF ReturnsCreated, CreateReturns, TypeInv, JobsAreOwned
      <3>3. QED BY <1>2, <3>1, <3>2 DEF TypeInv, JobsAreOwned, Created
    <2>3. CASE TellError(j) \/ WorkError(j)
      BY <2>3, <1>3 DEF TellError, NotifyError, WorkError
    <2>4. QED BY <1>5, <2>1, <2>2, <2>3 DEF JobSteps
  <1>6. ASSUME NEW p \in Returns,
               MinionAnswers(p) \/ TellReturn(p) \/ Worker(p) \/ TimeoutReturn(p)
        PROVE  IsFiniteSet(Created)' /\ JobsAreOwned'
    <2>1. UNCHANGED <<job, owner>> BY <1>6
           DEF MinionAnswers, Answer, TellReturn, NotifyReturn, Worker, ReadReturn,
               WriteReturn, TimeoutReturn, Timeout
    <2>2. \A r \in Returns : rstat'[r] # "none" => r[1] \in Created
      BY <1>6 DEF MinionAnswers, Answer, StatusOf, TellReturn, NotifyReturn, Worker,
          ReadReturn, WriteReturn, TimeoutReturn, Timeout, TypeInv, JobsAreOwned,
              TypeOK, LTypeOK
    <2>3. \A r \in Returns : wk'[r] # "idle" => r[1] \in Created
      BY <1>6 DEF MinionAnswers, Answer, TellReturn, NotifyReturn, Worker, ReadReturn,
          WriteReturn, TimeoutReturn, Timeout, TypeInv, JobsAreOwned, TypeOK, LTypeOK
    <2>4. toPc' # "idle" => toRet'[1] \in Created
      BY <1>6 DEF MinionAnswers, Answer, TellReturn, NotifyReturn, Worker, ReadReturn,
          WriteReturn, TimeoutReturn, Timeout, TypeInv, JobsAreOwned, TypeOK, LTypeOK
    <2>5. QED BY <1>2, <2>1, <2>2, <2>3, <2>4 DEF Created
  <1>7. CASE LoseMessage \/ TimeoutRead \/ TimeoutWrite \/ \E x \in TM : GetsOld(x)
    <2>1. UNCHANGED <<job, owner, rstat, toRet>> /\ (toPc' # "idle" => toPc # "idle")
      BY <1>7 DEF LoseMessage, TimeoutRead, TimeoutWrite, GetsOld
    <2>2. \A r \in Returns : wk'[r] # "idle" => wk[r] # "idle"
      BY <1>7 DEF LoseMessage, TimeoutRead, TimeoutWrite, GetsOld, TypeInv, TypeOK
    <2>3. Created' = Created BY <2>1 DEF Created
    <2>4. QED BY <1>2, <2>1, <2>2, <2>3 DEF TypeInv, JobsAreOwned
  <1>8. CASE UNCHANGED vars
    BY <1>8, <1>3 DEF vars
  <1>9. QED BY <1>4, <1>5, <1>6, <1>7, <1>8 DEF Next

\* Every step keeps the types, finitely many jobs and their owners.
LEMMA TypeNext == ASSUME TypeInv, [Next]_vars PROVE TypeInv'
  <1>1. CASE Next
    <2>1. TypeOK' BY <1>1, TypeBetweenTasks, TypeAtATask, TypeUsers, TypeJobs,
                     TypeReturns, TypeOthers DEF Next, TasksWatcher
    <2>2. QED BY <2>1, OwnedNext DEF TypeInv
  <1>2. CASE UNCHANGED vars
    <2>1. TypeOK' BY <1>2 DEF vars, TypeInv, TypeOK, LTypeOK
    <2>2. QED BY <2>1, OwnedNext DEF TypeInv
  <1>3. QED BY <1>1, <1>2

\* Every variable keeps its type, and no worker handles a return of a job that has
\* no task: the keys it writes are those of task minions.
THEOREM TaskTypes == Spec => []TypeInv
  BY TypeInit, TypeNext, PTL DEF Spec
-----------------------------------------------------------------------------
(* The number of active jobs. *)

Counted(t) == ActiveJobs(t) \ rerun

\* The watcher's count of a task's active jobs, with those it has created since, is
\* never below their number, and it creates a job only below the limit.
CountInv ==
    /\ wPc \in {"pick", "take", "create", "decide"} =>
          Cardinality(Counted(wTask)) <= wActive
    /\ wPc \in {"take", "create"} => wActive < MaxJobs
    /\ ActiveJobsBounded

\* Cardinalities, as the proofs below need them.
LEMMA SizeOfSubset ==
    ASSUME NEW S, NEW T, IsFiniteSet(S), T \subseteq S
    PROVE  /\ IsFiniteSet(T) /\ Cardinality(T) \in Nat /\ Cardinality(S) \in Nat
           /\ Cardinality(T) <= Cardinality(S)
  BY FS_Subset, FS_CardinalityType

\* A set that grows by one element at most grows by one at most.
LEMMA SizeWithOneMore ==
    ASSUME NEW S, NEW x, NEW T, IsFiniteSet(S), T \subseteq S \cup {x}
    PROVE  Cardinality(T) \in Nat /\ Cardinality(T) <= Cardinality(S) + 1
  <1>1. IsFiniteSet(S \cup {x}) BY FS_AddElement
  <1>2. Cardinality(S \cup {x}) = IF x \in S THEN Cardinality(S) ELSE Cardinality(S) + 1
    BY FS_AddElement
  <1>3. Cardinality(S) \in Nat BY FS_CardinalityType
  <1>4. Cardinality(T) \in Nat /\ Cardinality(T) <= Cardinality(S \cup {x})
    BY <1>1, SizeOfSubset
  <1>5. QED BY <1>2, <1>3, <1>4

\* The jobs that count against a task's limit can be counted.
LEMMA CountedIsFinite ==
    ASSUME TypeInv, NEW t
    PROVE  IsFiniteSet(Counted(t)) /\ Cardinality(Counted(t)) \in Nat
  BY ActiveAreCreated, SizeOfSubset DEF Counted

\* A step that makes no job active makes no task's count larger.
LEMMA FewerAreCounted ==
    ASSUME TypeInv, NEW t, Counted(t)' \subseteq Counted(t)
    PROVE  /\ Cardinality(Counted(t)') \in Nat /\ Cardinality(Counted(t)) \in Nat
           /\ Cardinality(Counted(t)') <= Cardinality(Counted(t))
  BY CountedIsFinite, SizeOfSubset

\* A new job is the only one that is counted more.
LEMMA OneMoreIsCounted ==
    ASSUME TypeInv, NEW j \in Jids, NewJob(j), UNCHANGED <<rerun, wTask>>
    PROVE  /\ Cardinality(Counted(wTask)') \in Nat
           /\ Cardinality(Counted(wTask)') <= Cardinality(Counted(wTask)) + 1
           /\ \A t \in Tasks \ {wTask} : Counted(t)' \subseteq Counted(t)
  <1>1. /\ job' = [job EXCEPT ![j] = "starting"] /\ owner' = [owner EXCEPT ![j] = wTask]
        /\ job \in [Jids -> JobStatus \cup {"none"}]
        /\ owner \in [Jids -> Tasks \cup {None}]
    BY DEF NewJob, Create, TypeInv, TypeOK, LTypeOK
  <1>2. \A t \in Tasks \ {wTask} : Counted(t)' \subseteq Counted(t)
    BY <1>1 DEF Counted, ActiveJobs, JobsOf
  <1>3. Counted(wTask)' \subseteq Counted(wTask) \cup {j}
    BY <1>1 DEF Counted, ActiveJobs, JobsOf
  <1>4. QED BY <1>2, <1>3, CountedIsFinite, SizeWithOneMore

\* Steps by which no job becomes active, and where the watcher may be after them.
LEMMA NoMoreAreCounted ==
    ASSUME TypeInv, CountInv,
           \A t : Counted(t)' \subseteq Counted(t),
           \/ UNCHANGED <<wPc, wTask, wActive>>
           \/ wPc' \notin {"pick", "take", "create", "decide"}
           \/ /\ UNCHANGED <<wTask, wActive>>
              /\ wPc \in {"pick", "take", "create", "decide"}
              /\ \/ wPc' = "decide" \/ (wPc = "take" /\ wPc' = "create")
                 \/ wPc' = "take" /\ wActive < MaxJobs
    PROVE  CountInv'
  <1>1. ASSUME NEW t
        PROVE  /\ Cardinality(Counted(t)') \in Nat /\ Cardinality(Counted(t)) \in Nat
               /\ Cardinality(Counted(t)') <= Cardinality(Counted(t))
    BY FewerAreCounted
  <1>2. ActiveJobsBounded'
    <2>1. \A t \in Tasks : Cardinality(Counted(t)) <= MaxJobs
      BY DEF CountInv, ActiveJobsBounded, Counted
    <2>2. \A t \in Tasks : Cardinality(Counted(t)') <= MaxJobs
      BY <1>1, <2>1, TaskAssumption
    <2>3. QED BY <2>2 DEF ActiveJobsBounded, Counted
  <1>3. wTask' = wTask =>
          /\ Cardinality(Counted(wTask)') \in Nat /\ Cardinality(Counted(wTask)) \in Nat
          /\ Cardinality(Counted(wTask)') <= Cardinality(Counted(wTask))
    <2>1. PICK t : t = wTask OBVIOUS
    <2>2. wTask' = wTask => Counted(t)' = Counted(wTask)'
      BY <2>1 DEF Counted, ActiveJobs, JobsOf
    <2>3. QED BY <1>1, <2>1, <2>2
  <1>4. wActive \in Nat BY DEF TypeInv, TypeOK
  <1>5. CASE UNCHANGED <<wPc, wTask, wActive>>
    BY <1>2, <1>3, <1>4, <1>5 DEF CountInv
  <1>6. CASE wPc' \notin {"pick", "take", "create", "decide"}
    BY <1>2, <1>6 DEF CountInv
  <1>7. CASE /\ UNCHANGED <<wTask, wActive>>
             /\ wPc \in {"pick", "take", "create", "decide"}
             /\ \/ wPc' = "decide" \/ (wPc = "take" /\ wPc' = "create")
                \/ wPc' = "take" /\ wActive < MaxJobs
    <2>1. Cardinality(Counted(wTask)') <= wActive'
      BY <1>3, <1>4, <1>7 DEF CountInv
    <2>2. wPc' \in {"take", "create"} => wActive' < MaxJobs
      BY <1>7 DEF CountInv
    <2>3. QED BY <1>2, <2>1, <2>2 DEF CountInv
  <1>8. QED BY <1>5, <1>6, <1>7

\* Nothing is counted before the first pass.
LEMMA CountInit == Init => CountInv
  <1> SUFFICES ASSUME Init PROVE CountInv OBVIOUS
  <1>1. \A t : ActiveJobs(t) \ rerun = {} BY DEF Init, LInit, ActiveJobs, JobsOf
  <1>2. wPc = "idle" BY DEF Init
  <1>3. QED BY <1>1, <1>2, FS_EmptySet, TaskAssumption DEF CountInv, ActiveJobsBounded

\* Every step keeps the watcher's count an upper bound.
LEMMA CountNext == ASSUME TypeInv, CountInv, [Next]_vars PROVE CountInv'
  <1>1. ASSUME UNCHANGED <<job, owner, rerun>>
        PROVE  \A t : Counted(t)' \subseteq Counted(t)
    BY <1>1 DEF Counted, ActiveJobs, JobsOf
  <1>2. ASSUME UNCHANGED <<job, owner, rerun, wPc, wTask, wActive>> PROVE CountInv'
    BY <1>1, <1>2, NoMoreAreCounted
  <1>3. CASE CountJobs
    <2>1. wPc' = "pick" /\ wTask' = wTask /\ wActive' = Cardinality(ActiveJobs(wTask))
      BY <1>3 DEF CountJobs
    <2>2. Cardinality(Counted(wTask)) <= Cardinality(ActiveJobs(wTask))
      BY ActiveAreCreated, SizeOfSubset DEF Counted
    <2>3. Counted(wTask)' = Counted(wTask)
      BY <1>3 DEF CountJobs, Counted, ActiveJobs, JobsOf
    <2>4. ActiveJobsBounded'
      BY <1>3 DEF CountJobs, CountInv, ActiveJobsBounded, ActiveJobs, JobsOf
    <2>5. QED BY <2>1, <2>2, <2>3, <2>4 DEF CountInv
  <1>4. ASSUME NEW j \in Jids, NewJob(j), UNCHANGED rerun, wPc = "create",
               \/ CreateJob(j)
               \/ wPc' = "idle" /\ UNCHANGED wTask
        PROVE  CountInv'
    <2>1. wTask' = wTask BY <1>4 DEF CreateJob
    <2>2. /\ Cardinality(Counted(wTask)') \in Nat
          /\ Cardinality(Counted(wTask)') <= Cardinality(Counted(wTask)) + 1
          /\ \A t \in Tasks \ {wTask} : Counted(t)' \subseteq Counted(t)
      BY <1>4, <2>1, OneMoreIsCounted
    <2>3. /\ Cardinality(Counted(wTask)) <= wActive /\ wActive < MaxJobs
          /\ wActive \in Nat /\ MaxJobs \in Nat /\ Cardinality(Counted(wTask)) \in Nat
      BY <1>4, TaskAssumption, CountedIsFinite DEF CountInv, TypeInv, TypeOK
    <2>4. /\ Cardinality(Counted(wTask)') <= wActive + 1
          /\ Cardinality(Counted(wTask)') <= MaxJobs
      BY <2>2, <2>3
    <2>5. ASSUME NEW t \in Tasks PROVE Cardinality(Counted(t)') <= MaxJobs
      <3>1. CASE t = wTask BY <2>1, <2>4, <3>1 DEF Counted, ActiveJobs, JobsOf
      <3>2. CASE t # wTask
        <4>1. Cardinality(Counted(t)) <= MaxJobs BY
               DEF CountInv, ActiveJobsBounded, Counted
        <4>2. QED BY <2>2, <2>3, <3>2, <4>1, FewerAreCounted
      <3>3. QED BY <3>1, <3>2
    <2>6. ActiveJobsBounded' BY <2>5 DEF ActiveJobsBounded, Counted
    <2>7. (wPc' \in {"decide", "pick"} /\ wActive' = wActive + 1) \/ wPc' = "idle"
      BY <1>4 DEF CreateJob
    <2>8. QED BY <2>4, <2>6, <2>7 DEF CountInv
  <1>5. CASE TasksWatcher
    <2>1. CASE \E j \in Jids : CreateJob(j) BY <1>4, <2>1 DEF CreateJob
    <2>2. CASE ReadLocked \/ (\E r \in wRel : ReleaseMinion(r)) \/ ReadTasks
               \/ (\E q \in wQueue : NextTask(q)) \/ EndPass
               \/ CheckBusy \/ CheckUnbusy \/ CheckStopping \/ UpdateTask
      <3>1. /\ UNCHANGED <<job, owner, rerun>>
            /\ \/ wPc' \notin {"pick", "take", "create", "decide"}
               \/ UNCHANGED <<wPc, wTask, wActive>>
        BY <2>2 DEF ReadLocked, ReleaseMinion, ReadTasks, NextTask, EndPass, CheckBusy,
                    CheckUnbusy, CheckStopping, StopUnless, UpdateTask
      <3>2. \A t : Counted(t)' \subseteq Counted(t) BY <1>1, <3>1
      <3>3. QED BY <3>1, <3>2, NoMoreAreCounted
    <2>3. CASE ReadPending \/ TakeMinions \/ Decide
      <3>1. UNCHANGED <<job, owner, rerun>>
        BY <2>3 DEF ReadPending, TakeMinions, Decide, DecideOn
      <3>2. \A t : Counted(t)' \subseteq Counted(t) BY <1>1, <3>1
      <3>3. CASE Decide
        BY <3>2, <3>3, NoMoreAreCounted DEF Decide, DecideOn
      <3>4. CASE ReadPending \/ TakeMinions
        <4>1. UNCHANGED <<wTask, wActive>> /\ wPc \in {"pick", "take"}
          BY <3>4 DEF ReadPending, TakeMinions
        <4>2. \/ wPc' = "decide" \/ (wPc = "take" /\ wPc' = "create")
              \/ wPc' = "take" /\ wActive < MaxJobs
          BY <3>4 DEF ReadPending, TakeMinions
        <4>3. QED BY <3>2, <4>1, <4>2, NoMoreAreCounted
      <3>5. QED BY <2>3, <3>3, <3>4
    <2>4. QED BY <1>3, <1>5, <2>1, <2>2, <2>3 DEF TasksWatcher, HandleTask
  <1>6. CASE CreateJobRaises \/ WatcherCrash
    <2>1. wPc' = "idle" /\ UNCHANGED wTask
      BY <1>6 DEF CreateJobRaises, WatcherCrash, WatcherStops
    <2>2. CASE UNCHANGED <<job, owner, rerun>> BY <1>1, <2>1, <2>2, NoMoreAreCounted
    <2>3. CASE wPc = "create" /\ UNCHANGED rerun /\ \E j \in Jids : NewJob(j)
      BY <1>4, <2>1, <2>3
    <2>4. QED BY <1>6, <2>2, <2>3 DEF CreateJobRaises, WatcherCrash
  <1>7. CASE User \/ \E q \in wQueue : TtlStop(q)
    BY <1>2, <1>7 DEF User, UserStop, RunTask, RestartRead, RestartMinions,
        RestartStatus,
                      TtlStop, Stop
  <1>8. ASSUME NEW j \in Jids, Launch(j) \/ Relaunch(j) \/ JobSteps(j) \/ WorkError(j)
        PROVE  CountInv'
    <2>1. CASE Launch(j) \/ Relaunch(j) \/ FinishJob(j)
      <3>1. UNCHANGED <<owner, wPc, wTask, wActive>> BY <2>1
             DEF Launch, Relaunch, FinishJob, Run, LaunchError, Finish
      <3>2. \A t : Counted(t)' \subseteq Counted(t)
        BY <2>1 DEF Launch, Relaunch, FinishJob, Run, LaunchError, Finish,
                    Counted, ActiveJobs, JobsOf, TypeInv, TypeOK, LTypeOK
      <3>3. QED BY <3>1, <3>2, NoMoreAreCounted
    <2>2. CASE ReturnsCreated(j) \/ TellError(j) \/ WorkError(j)
      BY <1>2, <2>2 DEF ReturnsCreated, CreateReturns, TellError, NotifyError, WorkError
    <2>3. QED BY <1>8, <2>1, <2>2 DEF JobSteps
  <1>9. ASSUME NEW p \in Returns,
               MinionAnswers(p) \/ TellReturn(p) \/ Worker(p) \/ TimeoutReturn(p)
        PROVE  CountInv'
    BY <1>2, <1>9 DEF MinionAnswers, Answer, TellReturn, NotifyReturn, Worker,
        ReadReturn,
                      WriteReturn, TimeoutReturn, Timeout
  <1>10. CASE LoseMessage \/ TimeoutRead \/ TimeoutWrite \/ \E x \in TM : GetsOld(x)
    BY <1>2, <1>10 DEF LoseMessage, TimeoutRead, TimeoutWrite, GetsOld
  <1>11. CASE UNCHANGED vars
    BY <1>2, <1>11 DEF vars
  <1>12. QED BY <1>5, <1>6, <1>7, <1>8, <1>9, <1>10, <1>11 DEF Next

\* CountJobs and CreateJob: what the watcher believes of the number of active jobs
\* is never less than the truth, though they are launched, end and fail meanwhile.
THEOREM CountsAreRight == Spec => []CountInv
  <1>1. TypeInv /\ CountInv /\ [Next]_vars => CountInv' BY CountNext
  <1>2. QED BY <1>1, CountInit, TaskTypes, PTL DEF Spec

\* max_jobs_count_at_same_time holds at every moment, for crashes between a job's
\* insertion and its push and for users who restart a task while it runs too.
THEOREM NotTooManyActiveJobs == Spec => []ActiveJobsBounded
  <1>1. CountInv => ActiveJobsBounded BY DEF CountInv
  <1>2. QED BY <1>1, CountsAreRight, PTL
-----------------------------------------------------------------------------
(* Stopped and finished tasks have no active job. *)

\* Steps at which the watcher works on a task it read as running.
Working == {"busy", "unbusy", "count", "pick", "take", "create", "decide", "finish"}

StopTypes ==
    /\ job \in [Jids -> JobStatus \cup {"none"}]
    /\ owner \in [Jids -> Tasks \cup {None}]
    /\ status \in [Tasks -> TaskStatus]
    /\ wQueue \subseteq Tasks \X {"running", "stopping"}
    /\ wTask \in Tasks

\* Only the watcher stops a task, and only one it read as stopping.  So a task
\* it read as running, handled or still queued, is not stopped by now, and one
\* whose active jobs it found ended gets none before UpdateTask.
WatcherView ==
    /\ wPc \in Working => status[wTask] \notin Ended
    /\ wPc \in {"stop", "finish"} => Quiet(wTask)
    /\ wPc \in Working \cup {"stopping", "stop"} => \A q \in wQueue : q[1] # wTask
    /\ \A q \in wQueue : q[2] = "running" => status[q[1]] \notin Ended
    /\ \A q, r \in wQueue : q[1] = r[1] => q = r

EndedIsQuiet == \A t \in Tasks : status[t] \in Ended => Quiet(t)

StopInv == StopTypes /\ WatcherView /\ EndedIsQuiet

IsActive(j, t) ==
    owner[j] = t /\ job[j] \in {"starting", "running"} /\ j \notin rerun

\* A task is quiet if none of the jobs is active for it,
LEMMA NoActiveJobs ==
    ASSUME NEW t, \A j \in Jids : ~IsActive(j, t)
    PROVE  Quiet(t)
  BY DEF Quiet, ActiveJobs, JobsOf, IsActive

\* and only then.
LEMMA EveryJobInactive ==
    ASSUME NEW t, Quiet(t)
    PROVE  \A j \in Jids : ~IsActive(j, t)
  BY DEF Quiet, ActiveJobs, JobsOf, IsActive

\* A task whose count of active jobs is zero is quiet.
LEMMA NothingCounted ==
    ASSUME TypeInv, NEW t, Cardinality(Counted(t)) <= 0
    PROVE  Quiet(t)
  <1>1. Counted(t) = {} BY CountedIsFinite, FS_EmptySet
  <1>2. QED BY <1>1 DEF Counted, Quiet

\* What keeps quiet tasks quiet: no job becomes active except those of tasks
\* that are not stopped, and no active task becomes stopped.
LEMMA QuietPreserved ==
    ASSUME NEW t,
           Quiet(t),
           \A j \in Jids : IsActive(j, t)' => IsActive(j, t)
    PROVE  Quiet(t)'
  <1>1. \A j \in Jids : ~IsActive(j, t)' BY EveryJobInactive
  <1>2. QED BY <1>1 DEF Quiet, ActiveJobs, JobsOf, IsActive

\* Steps that touch neither job statuses and owners nor task statuses nor what
\* the watcher is doing.
LEMMA OtherStepsKeepStopInv ==
    ASSUME StopInv, UNCHANGED <<job, owner, rerun, status, wPc, wQueue, wTask>>
    PROVE  StopInv'
  BY DEF StopInv, StopTypes, WatcherView, EndedIsQuiet, Quiet, ActiveJobs, JobsOf

\* Job statuses change without any job becoming active.
LEMMA JobStepsKeepStopInv ==
    ASSUME StopInv, UNCHANGED <<owner, rerun, status, wPc, wQueue, wTask>>,
           job' \in [Jids -> JobStatus \cup {"none"}],
           \A j \in Jids : job'[j] \in {"starting", "running"}
                              => job[j] \in {"starting", "running"}
    PROVE  StopInv'
  <1>1. StopTypes' BY DEF StopInv, StopTypes
  <1>2. \A t : Quiet(t) => Quiet(t)'
    <2> SUFFICES ASSUME NEW t, Quiet(t) PROVE Quiet(t)' OBVIOUS
    <2>1. \A j \in Jids : IsActive(j, t)' => IsActive(j, t) BY DEF IsActive
    <2>2. QED BY <2>1, QuietPreserved
  <1>3. WatcherView' BY <1>2 DEF StopInv, WatcherView
  <1>4. EndedIsQuiet' BY <1>2 DEF StopInv, EndedIsQuiet
  <1>5. QED BY <1>1, <1>3, <1>4 DEF StopInv

(* The watcher goes from one step to the next with its task.               *)
LEMMA WatcherMovesKeepStopInv ==
    ASSUME StopInv, TypeInv, CountInv,
           \/ ReadLocked \/ EndPass \/ CheckBusy \/ CheckUnbusy \/ CountJobs
           \/ ReadPending \/ TakeMinions \/ Decide \/ CheckStopping
    PROVE  StopInv'
  <1>1. UNCHANGED <<job, owner, rerun, status, wQueue, wTask>>
    BY DEF ReadLocked, EndPass, CheckBusy, CheckUnbusy, CountJobs, ReadPending,
       TakeMinions, Decide, DecideOn, CheckStopping, StopUnless
  <1>2. \/ wPc' \in {"release", "idle", "next"}
        \/ wPc \in Working /\ wPc' \in Working \ {"finish"}
        \/ wPc = "stopping" /\ wPc' = "stop" /\ Quiet(wTask)
        \/ wPc = "decide" /\ wPc' = "finish" /\ wActive = 0
    BY DEF ReadLocked, EndPass, CheckBusy, CheckUnbusy, CountJobs, ReadPending,
       TakeMinions, Decide, DecideOn, CheckStopping, StopUnless, Working, Quiet,
       ActiveJobs
  <1>3. StopTypes' /\ EndedIsQuiet'
    BY <1>1 DEF StopInv, StopTypes, EndedIsQuiet, Quiet, ActiveJobs, JobsOf
  <1>4. wPc = "decide" /\ wActive = 0 => Quiet(wTask)
    BY NothingCounted DEF CountInv
  <1>5. WatcherView'
    BY <1>1, <1>2, <1>4 DEF StopInv, WatcherView, Working, Quiet, ActiveJobs, JobsOf
  <1>6. QED BY <1>3, <1>5 DEF StopInv

(* A pass begins with the active tasks and takes them one by one.          *)
LEMMA QueueStepsKeepStopInv ==
    ASSUME StopInv, ReadTasks \/ \E q \in wQueue : NextTask(q)
    PROVE  StopInv'
  <1>1. CASE ReadTasks
    <2>1. UNCHANGED <<job, owner, rerun, status, wTask>> BY <1>1 DEF ReadTasks
    <2>2. StopTypes' /\ EndedIsQuiet'
      BY <1>1, <2>1 DEF ReadTasks, StopInv, StopTypes, EndedIsQuiet, Quiet, ActiveJobs,
          JobsOf
    <2>3. WatcherView'
      <3>1. wQueue' = {q \in Tasks \X {"running", "stopping"} : status[q[1]] = q[2]}
        BY <1>1 DEF ReadTasks
      <3>2. \A q \in wQueue' : q[2] = status[q[1]] /\ q = <<q[1], q[2]>>
        BY <3>1
      <3>3. QED BY <1>1, <2>1, <3>2 DEF ReadTasks, WatcherView, Working
    <2>4. QED BY <2>2, <2>3 DEF StopInv
  <1>2. ASSUME NEW q \in wQueue, NextTask(q) PROVE StopInv'
    <2>1. UNCHANGED <<job, owner, rerun,
        status>> /\ wQueue' = wQueue \ {q} /\ wTask' = q[1]
      BY <1>2 DEF NextTask
    <2>2. q[1] \in Tasks BY DEF StopInv, StopTypes
    <2>3. StopTypes' /\ EndedIsQuiet'
      BY <2>1, <2>2 DEF StopInv, StopTypes, EndedIsQuiet, Quiet, ActiveJobs, JobsOf
    <2>4. WatcherView'
      BY <1>2, <2>1 DEF NextTask, StopInv, WatcherView, Working
    <2>5. QED BY <2>3, <2>4 DEF StopInv
  <1>3. QED BY <1>1, <1>2

(* A new job belongs to a task that is not stopped.                        *)
LEMMA NewJobKeepsQuiet ==
    ASSUME StopInv, wPc = "create", NEW j \in Jids, NewJob(j),
           UNCHANGED <<status, rerun>>
    PROVE  /\ job' \in [Jids -> JobStatus \cup {"none"}]
           /\ owner' \in [Jids -> Tasks \cup {None}]
           /\ EndedIsQuiet'
  <1>1. /\ job' = [job EXCEPT ![j] = "starting"]
        /\ owner' = [owner EXCEPT ![j] = wTask]
    BY DEF NewJob, Create
  <1>2. /\ job' \in [Jids -> JobStatus \cup {"none"}]
        /\ owner' \in [Jids -> Tasks \cup {None}]
    BY <1>1 DEF StopInv, StopTypes, JobStatus
  <1>3. status[wTask] \notin Ended BY DEF StopInv, WatcherView, Working
  <1>4. ASSUME NEW t \in Tasks, status[t] \in Ended PROVE Quiet(t)'
    <2>1. t # wTask BY <1>3, <1>4
    <2>2. Quiet(t) BY <1>4 DEF StopInv, EndedIsQuiet
    <2>3. \A i \in Jids : IsActive(i, t)' => IsActive(i, t)
      BY <1>1, <2>1 DEF IsActive, StopInv, StopTypes
    <2>4. QED BY <2>2, <2>3, QuietPreserved
  <1>5. EndedIsQuiet' BY <1>4 DEF EndedIsQuiet
  <1>6. QED BY <1>2, <1>5

(* create_job succeeds, raises, or the watcher dies.                       *)
LEMMA CreateStepsKeepStopInv ==
    ASSUME StopInv, (\E j \in Jids : CreateJob(j)) \/ CreateJobRaises \/ WatcherCrash
    PROVE  StopInv'
  <1>1. ASSUME NEW j \in Jids, CreateJob(j) PROVE StopInv'
    <2>1. /\ wPc = "create" /\ NewJob(j) /\ wPc' \in {"decide", "pick"}
          /\ UNCHANGED <<status, rerun, wQueue, wTask>>
      BY <1>1 DEF CreateJob
    <2>2. StopTypes' /\ EndedIsQuiet'
      BY <2>1, NewJobKeepsQuiet DEF StopInv, StopTypes
    <2>3. WatcherView' BY <2>1 DEF StopInv, WatcherView, Working
    <2>4. QED BY <2>2, <2>3 DEF StopInv
  <1>2. ASSUME CreateJobRaises \/ WatcherCrash PROVE StopInv'
    <2>1. wPc' = "idle" /\ wQueue' = {} /\ UNCHANGED <<status, wTask>>
      BY <1>2 DEF CreateJobRaises, WatcherCrash, WatcherStops
    <2>2. WatcherView' BY <2>1 DEF WatcherView, Working
    <2>3. CASE UNCHANGED <<job, owner, rerun>>
      <3>1. StopTypes' /\ EndedIsQuiet'
        BY <2>1, <2>3 DEF StopInv, StopTypes, EndedIsQuiet, Quiet, ActiveJobs, JobsOf
      <3>2. QED BY <2>2, <3>1 DEF StopInv
    <2>4. CASE wPc = "create" /\ UNCHANGED rerun /\ \E j \in Jids : NewJob(j)
      <3>1. StopTypes' /\ EndedIsQuiet'
        BY <2>1, <2>4, NewJobKeepsQuiet DEF StopInv, StopTypes
      <3>2. QED BY <2>2, <3>1 DEF StopInv
    <2>5. QED BY <1>2, <2>3, <2>4 DEF CreateJobRaises, WatcherCrash
  <1>3. QED BY <1>1, <1>2

(* The watcher's verdict: `stopped` only after no active job was found.    *)
LEMMA UpdateTaskKeepsStopInv ==
    ASSUME StopInv, UpdateTask
    PROVE  StopInv'
  <1>1. /\ UNCHANGED <<job, owner, rerun, wQueue, wTask>> /\ wPc' = "next"
        /\ \A t : Quiet(t)' = Quiet(t)
    BY DEF UpdateTask, Quiet, ActiveJobs, JobsOf
  <1>2. /\ wPc \in {"finish", "stop"} /\ wTask \in Tasks
        /\ status' = [status EXCEPT ![wTask] = IF wPc = "stop" THEN "stopped"
                                               ELSE "finished"]
    BY DEF UpdateTask, StopInv, StopTypes
  <1>3. StopTypes' BY <1>1, <1>2 DEF StopInv, StopTypes, TaskStatus
  <1>4. EndedIsQuiet'
    BY <1>1, <1>2 DEF StopInv, StopTypes, WatcherView, EndedIsQuiet
  <1>5. WatcherView'
    BY <1>1, <1>2 DEF StopInv, StopTypes, WatcherView, Working
  <1>6. QED BY <1>3, <1>4, <1>5 DEF StopInv

(* Users and ttl_task never make a task stopped.                           *)
LEMMA UserStepsKeepStopInv ==
    ASSUME StopInv,
           \/ \E t \in Tasks : UserStop(t) \/ RunTask(t)
           \/ \E q \in wQueue : TtlStop(q)
           \/ RestartStatus
    PROVE  StopInv'
  <1>1. /\ UNCHANGED <<job, owner, rerun, wPc, wTask>> /\ wQueue' \subseteq wQueue
        /\ \A t : Quiet(t)' = Quiet(t)
    BY DEF UserStop, RunTask, TtlStop, Stop, RestartStatus, Quiet, ActiveJobs, JobsOf
  <1>2. \/ UNCHANGED status
        \/ \E t : \E s \in {"running", "stopping"} : status' = [status EXCEPT ![t] = s]
    BY DEF UserStop, RunTask, TtlStop, Stop, RestartStatus
  <1>3. /\ status' \in [Tasks -> TaskStatus]
        /\ \A t \in Tasks : status'[t] \in Ended => status[t] \in Ended
    BY <1>2 DEF StopInv, StopTypes, TaskStatus
  <1>4. StopTypes' /\ EndedIsQuiet'
    BY <1>1, <1>3 DEF StopInv, StopTypes, EndedIsQuiet
  <1>5. WatcherView'
    <2>1. \A q \in wQueue' : q \in wQueue /\ q[1] \in Tasks
      BY <1>1 DEF StopInv, StopTypes
    <2>2. QED BY <1>1, <1>3, <2>1 DEF StopInv, StopTypes, WatcherView
  <1>6. QED BY <1>4, <1>5 DEF StopInv

(* What happens to jobs once they are created.                             *)
LEMMA LaunchAndFinishKeepStopInv ==
    ASSUME StopInv, NEW j \in Jids, Launch(j) \/ FinishJob(j)
    PROVE  StopInv'
  <1>1. UNCHANGED <<owner, rerun, status, wPc, wQueue, wTask>>
    BY DEF Launch, FinishJob
  <1>2. /\ job[j] \in {"starting", "running"}
        /\ \E s \in {"running", "launch_error", "finished"} :
              job' = [i \in Jids |-> IF i = j THEN s ELSE job[i]]
    BY DEF Launch, FinishJob, Run, LaunchError, Finish, StopInv, StopTypes
  <1>3. QED BY <1>1, <1>2, JobStepsKeepStopInv DEF StopInv, StopTypes, JobStatus

\* A restarted job belongs to `rerun`, which the invariant leaves out.
LEMMA RelaunchKeepsStopInv ==
    ASSUME StopInv, NEW j \in Jids, Relaunch(j)
    PROVE  StopInv'
  <1>1. /\ UNCHANGED <<owner, status, wPc, wQueue, wTask>>
        /\ rerun' = rerun \cup {j}
        /\ job' = [job EXCEPT ![j] = "running"]
    BY DEF Relaunch, Run
  <1>2. \A t : Quiet(t) => Quiet(t)'
    <2> SUFFICES ASSUME NEW t, Quiet(t) PROVE Quiet(t)' OBVIOUS
    <2>1. \A i \in Jids : IsActive(i, t)' => IsActive(i, t)
      BY <1>1 DEF IsActive, StopInv, StopTypes
    <2>2. QED BY <2>1, QuietPreserved
  <1>3. StopTypes' BY <1>1 DEF StopInv, StopTypes, JobStatus
  <1>4. EndedIsQuiet' BY <1>1, <1>2 DEF StopInv, EndedIsQuiet
  <1>5. WatcherView' BY <1>1, <1>2 DEF StopInv, WatcherView
  <1>6. QED BY <1>3, <1>4, <1>5 DEF StopInv

\* The watcher has read nothing at first.
LEMMA StopInvInit == Init => StopInv
  <1> SUFFICES ASSUME Init PROVE StopInv OBVIOUS
  <1>1. StopTypes /\ WatcherView /\ EndedIsQuiet
    BY TaskAssumption
       DEF Init, LInit, StopTypes, WatcherView, EndedIsQuiet, Working, TaskStatus
  <1>2. QED BY <1>1 DEF StopInv

\* Every step keeps what the watcher read of a task's status good enough.
LEMMA NextKeepsStopInv == ASSUME StopInv, TypeInv, CountInv, [Next]_vars PROVE StopInv'
  <1>1. CASE TasksWatcher
    <2>1. ASSUME NEW r \in wRel, ReleaseMinion(r) PROVE StopInv'
      BY <2>1, OtherStepsKeepStopInv DEF ReleaseMinion
    <2>2. QED BY <1>1, <2>1, WatcherMovesKeepStopInv, QueueStepsKeepStopInv,
                 CreateStepsKeepStopInv, UpdateTaskKeepsStopInv
              DEF TasksWatcher, HandleTask
  <1>2. CASE CreateJobRaises \/ WatcherCrash
    BY <1>2, CreateStepsKeepStopInv
  <1>3. CASE User \/ \E q \in wQueue : TtlStop(q)
    <2>1. ASSUME NEW t \in Tasks, RestartRead(t) PROVE StopInv'
      BY <2>1, OtherStepsKeepStopInv DEF RestartRead
    <2>2. CASE RestartMinions
      BY <2>2, OtherStepsKeepStopInv DEF RestartMinions
    <2>3. QED BY <1>3, <2>1, <2>2, UserStepsKeepStopInv DEF User
  <1>4. ASSUME NEW j \in Jids,
               Launch(j) \/ Relaunch(j) \/ JobSteps(j) \/ WorkError(j)
        PROVE  StopInv'
    <2>1. CASE Launch(j) \/ FinishJob(j)
      BY <2>1, LaunchAndFinishKeepStopInv
    <2>2. CASE ReturnsCreated(j) \/ TellError(j) \/ WorkError(j)
      BY <2>2, OtherStepsKeepStopInv
         DEF ReturnsCreated, CreateReturns, TellError, NotifyError, WorkError
    <2>3. QED BY <1>4, <2>1, <2>2, RelaunchKeepsStopInv DEF JobSteps
  <1>5. ASSUME NEW p \in Returns,
               MinionAnswers(p) \/ TellReturn(p) \/ Worker(p) \/ TimeoutReturn(p)
        PROVE  StopInv'
    BY <1>5, OtherStepsKeepStopInv
       DEF MinionAnswers, Answer, TellReturn, NotifyReturn, Worker, ReadReturn,
           WriteReturn, TimeoutReturn, Timeout
  <1>6. CASE LoseMessage \/ TimeoutRead \/ TimeoutWrite \/ \E x \in TM : GetsOld(x)
    BY <1>6, OtherStepsKeepStopInv DEF LoseMessage, TimeoutRead, TimeoutWrite, GetsOld
  <1>7. CASE UNCHANGED vars
    BY <1>7, OtherStepsKeepStopInv DEF vars
  <1>8. QED BY <1>1, <1>2, <1>3, <1>4, <1>5, <1>6, <1>7 DEF Next

(* The invariant that carries the proof: what the watcher's reading of the *)
(* task list at the start of its pass still guarantees at every step.      *)
THEOREM WatcherNeverMisled == Spec => []StopInv
  <1>1. Init => StopInv BY StopInvInit
  <1>2. StopInv /\ TypeInv /\ CountInv /\ [Next]_vars => StopInv' BY NextKeepsStopInv
  <1>3. QED BY <1>1, <1>2, TaskTypes, CountsAreRight, PTL DEF Spec

\* handle_stopping_status: when a task is `stopped` none of its jobs starts or
\* runs, and none will be created while it stays so, however stops, re-runs,
\* crashes and the watcher's pass interleave.
THEOREM StoppedTasksAreQuiet == Spec => []StoppedIsQuiet
  <1>1. StopInv => StoppedIsQuiet BY DEF StopInv, EndedIsQuiet, StoppedIsQuiet
  <1>2. QED BY <1>1, WatcherNeverMisled, PTL
-----------------------------------------------------------------------------
(* Minions at work. *)

Done(x) == tm[x] \in {"success", "failed"} \/ (tm[x] = "pending" /\ x \in reopened)

\* Steps between the watcher's busy check and its taking minions to work.
Checked == {"unbusy", "count", "pick", "take", "create"}

\* What the busy check found: a pending minion works for no other task.
FreeMinions ==
    wPc \in Checked => \A m \in Minions, u \in Tasks :
        /\ tm[<<wTask, m>>] = "pending" /\ <<wTask, m>> \notin reopened
        /\ tm[<<u, m>>] = "in_work"
        => <<u, m>> \in reopened

\* No minion of a finished task, or one that the watcher is about to finish, has
\* work left, and none of them is released.
FinishedMinions ==
    /\ \A t \in Tasks : status[t] = "finished" => \A m \in Minions : Done(<<t, m>>)
    /\ wPc = "finish" => \A m \in Minions : Done(<<wTask, m>>)
    /\ wRel # {} => wPc = "release"
    /\ \A r \in wRel : status[r[1][1]] # "finished"

MinionInv == OneTaskPerMinion /\ FreeMinions /\ FinishedMinions

\* What anyone but the watcher does to task minions.
Outside ==
    /\ reopened \subseteq reopened'
    /\ \A x \in TM : \/ tm'[x] = tm[x]
                     \/ tm'[x] \in {"success", "failed"}
                     \/ tm'[x] = "pending" /\ (tm[x] = "in_work" \/ x \in reopened')

\* Steps outside the watcher finish minions and never put one to work
\* unless they mark it reopened.
LEMMA OutsideKeepsMinionInv ==
    ASSUME MinionInv, TypeInv, Outside, UNCHANGED <<wPc, wTask, wRel>>,
           \A t \in Tasks : status'[t] = "finished" => status[t] = "finished"
    PROVE  MinionInv'
  <1>1. \A x \in TM : Done(x) => Done(x)' BY DEF Outside, Done
  <1>2. wTask \in Tasks /\ wRel \subseteq TM \X Outcomes BY DEF TypeInv, TypeOK
  <1>3. FinishedMinions'
    <2>1. \A t \in Tasks, m \in Minions : <<t, m>> \in TM BY DEF TM
    <2>2. \A r \in wRel : r[1][1] \in Tasks BY <1>2 DEF TM
    <2>3. QED BY <1>1, <1>2, <2>1, <2>2 DEF MinionInv, FinishedMinions
  <1>4. OneTaskPerMinion'
    BY DEF Outside, MinionInv, OneTaskPerMinion, TM
  <1>5. FreeMinions'
    BY <1>2 DEF Outside, MinionInv, OneTaskPerMinion, FreeMinions, TM
  <1>6. QED BY <1>3, <1>4, <1>5 DEF MinionInv

\* Steps that leave task minions alone, and where the watcher may be after them.
LEMMA NothingHappensToMinions ==
    ASSUME MinionInv, TypeInv, UNCHANGED <<tm, reopened>>,
           \A t \in Tasks : status'[t] = "finished" =>
               status[t] = "finished" \/ \A m \in Minions : Done(<<t, m>>),
           wPc' \in Checked => wTask' = wTask /\ wPc \in Checked,
           wPc' = "finish" => \A m \in Minions : Done(<<wTask', m>>),
           wRel' # {} =>
               wPc' = "release" /\ \A r \in wRel' : status'[r[1][1]] # "finished"
    PROVE  MinionInv'
  <1>1. \A x : Done(x)' = Done(x) BY DEF Done
  <1>2. FinishedMinions' BY <1>1 DEF MinionInv, FinishedMinions
  <1>3. OneTaskPerMinion' BY DEF MinionInv, OneTaskPerMinion
  <1>4. FreeMinions' BY DEF MinionInv, FreeMinions
  <1>5. QED BY <1>2, <1>3, <1>4 DEF MinionInv

\* No minion is at work at first.
LEMMA MinionInit == Init => MinionInv
  BY DEF Init, MinionInv, OneTaskPerMinion, FreeMinions, Checked, FinishedMinions, TM

\* Reading and bookkeeping of the watcher.
LEMMA WatcherKeepsMinionInv ==
    ASSUME MinionInv, StopInv, TypeInv,
           \/ ReadLocked \/ ReadTasks \/ (\E q \in wQueue : NextTask(q)) \/ EndPass
           \/ CountJobs \/ ReadPending \/ (\E j \in Jids : CreateJob(j))
           \/ Decide \/ CheckStopping \/ UpdateTask \/ WatcherCrash
    PROVE  MinionInv'
  <1>1. CASE ReadLocked
    <2>1. ASSUME NEW r \in wRel' PROVE status'[r[1][1]] # "finished"
      <3>1. PICK x \in Locked : r = <<x, AfterFailure(x)>> BY <1>1 DEF ReadLocked
      <3>2. x \in TM /\ tm[x] = "in_work" BY DEF Locked, TypeInv, TypeOK
      <3>3. x = <<x[1], x[2]>> /\ x[1] \in Tasks /\ x[2] \in Minions BY <3>2 DEF TM
      <3>4. status[x[1]] # "finished"
        BY <3>2, <3>3 DEF MinionInv, FinishedMinions, Done
      <3>5. QED BY <1>1, <3>1, <3>4 DEF ReadLocked
    <2>2. QED BY <1>1, <2>1, NothingHappensToMinions DEF ReadLocked, Checked
  <1>2. CASE ReadTasks
    BY <1>2, NothingHappensToMinions DEF ReadTasks, Checked
  <1>3. CASE (\E q \in wQueue : NextTask(q)) \/ EndPass
    BY <1>3, NothingHappensToMinions
           DEF NextTask, EndPass, Checked, MinionInv, FinishedMinions
  <1>4. CASE CountJobs
    BY <1>4, NothingHappensToMinions DEF CountJobs, Checked, MinionInv, FinishedMinions
  <1>5. CASE ReadPending
    BY <1>5, NothingHappensToMinions
           DEF ReadPending, Checked, MinionInv, FinishedMinions
  <1>6. CASE \E j \in Jids : CreateJob(j)
    BY <1>6, NothingHappensToMinions DEF CreateJob, Checked, MinionInv, FinishedMinions
  <1>7. CASE Decide
    <2>1. wPc' = "finish" => \A m \in Minions : Done(<<wTask, m>>)
      BY <1>7 DEF Decide, DecideOn, Done, TypeInv, TypeOK, TM, TaskMinionStatus
    <2>2. QED BY <1>7, <2>1, NothingHappensToMinions
              DEF Decide, DecideOn, Checked, MinionInv, FinishedMinions
  <1>8. CASE CheckStopping
    BY <1>8, NothingHappensToMinions
           DEF CheckStopping, StopUnless, Checked, MinionInv, FinishedMinions
  <1>9. CASE UpdateTask
    <2>1. \A t \in Tasks : status'[t] = "finished" =>
               status[t] = "finished" \/ \A m \in Minions : Done(<<t, m>>)
      BY <1>9 DEF UpdateTask, TypeInv, TypeOK, MinionInv, FinishedMinions
    <2>2. QED BY <1>9, <2>1, NothingHappensToMinions
           DEF UpdateTask, Checked, MinionInv, FinishedMinions
  <1>10. CASE WatcherCrash
    BY <1>10, NothingHappensToMinions DEF WatcherCrash, WatcherStops, Checked
  <1>11. QED BY <1>1, <1>2, <1>3, <1>4, <1>5, <1>6, <1>7, <1>8, <1>9, <1>10

\* What the watcher does to the minions of its task, which is not finished.
LEMMA TasksMinionsKeepMinionInv ==
    ASSUME MinionInv, StopInv, TypeInv,
           CheckBusy \/ CheckUnbusy \/ TakeMinions \/ CreateJobRaises
    PROVE  MinionInv'
  <1>1. /\ wTask \in Tasks /\ status[wTask] # "finished"
        /\ UNCHANGED <<status, wTask>> /\ wRel' = {} /\ wPc' # "finish" /\ wRel = {}
    BY DEF CheckBusy, CheckUnbusy, TakeMinions, CreateJobRaises, WatcherStops,
           StopInv, StopTypes, WatcherView, Working, Ended, MinionInv, FinishedMinions
  <1>2. ASSUME NEW t \in Tasks \ {wTask}, NEW m \in Minions
        PROVE  /\ tm'[<<t, m>>] = tm[<<t, m>>]
               /\ <<t, m>> \in reopened' <=> <<t, m>> \in reopened
    BY DEF CheckBusy, CheckUnbusy, TakeMinions, CreateJobRaises, TM
  <1>3. FinishedMinions'
    BY <1>1, <1>2 DEF MinionInv, FinishedMinions, Done
  <1>4. ASSUME CheckBusy PROVE OneTaskPerMinion' /\ FreeMinions'
    <2>1. \A x \in TM : tm'[x] = "in_work" =>
              tm[x] = "in_work" /\ (x \in reopened <=> x \in reopened')
      BY <1>4 DEF CheckBusy, Pending, TM
    <2>2. OneTaskPerMinion' BY <2>1 DEF MinionInv, OneTaskPerMinion, TM
    <2>3. \A m \in Minions, u \in Tasks : tm'[<<wTask, m>>] = "pending" => tm'[<<u,
        m>>] # "in_work"
      BY <1>1, <1>4 DEF CheckBusy, Busy, TM
    <2>4. FreeMinions' BY <1>1, <2>3 DEF FreeMinions
    <2>5. QED BY <2>2, <2>4
  <1>5. ASSUME CheckUnbusy PROVE OneTaskPerMinion' /\ FreeMinions'
    <2>1. \A x \in TM : tm'[x] = "in_work" => tm[x] = "in_work"
      BY <1>5 DEF CheckUnbusy
    <2>2. OneTaskPerMinion' BY <1>5, <2>1
           DEF CheckUnbusy, MinionInv, OneTaskPerMinion, TM
    <2>3. \A m \in Minions, u \in Tasks :
             tm'[<<wTask, m>>] = "pending" /\ tm[<<wTask, m>>] # "pending" => tm'[<<u,
                 m>>] # "in_work"
      BY <1>1, <1>5 DEF CheckUnbusy, Busy, TM
    <2>4. FreeMinions'
      BY <1>1, <1>5, <2>1, <2>3 DEF CheckUnbusy, MinionInv, FreeMinions, Checked, TM
    <2>5. QED BY <2>2, <2>4
  <1>6. ASSUME TakeMinions PROVE OneTaskPerMinion' /\ FreeMinions'
    <2>1. \A x \in TM : \/ tm'[x] = tm[x]
                        \/ x[1] = wTask /\ tm[x] = "pending" /\ tm'[x] = "in_work"
      BY <1>6 DEF TakeMinions, Pending, TM
    <2>2. reopened' = reopened /\ wPc = "take" BY <1>6 DEF TakeMinions
    <2>3. OneTaskPerMinion'
      BY <1>1, <2>1, <2>2 DEF MinionInv, OneTaskPerMinion, FreeMinions, Checked, TM
    <2>4. FreeMinions'
      BY <1>1, <2>1, <2>2 DEF MinionInv, FreeMinions, Checked, TM
    <2>5. QED BY <2>3, <2>4
  <1>7. ASSUME CreateJobRaises PROVE OneTaskPerMinion' /\ FreeMinions'
    BY <1>7 DEF CreateJobRaises, WatcherStops, MinionInv, OneTaskPerMinion,
        FreeMinions, Checked, TM
  <1>8. QED BY <1>3, <1>4, <1>5, <1>6, <1>7 DEF MinionInv

\* release_locked_task_minions runs before any task is looked at.
LEMMA ReleaseKeepsMinionInv ==
    ASSUME MinionInv, TypeInv, NEW r \in wRel, ReleaseMinion(r)
    PROVE  MinionInv'
  <1>1. /\ r[1] \in TM /\ r[2] \in Outcomes /\ status[r[1][1]] # "finished"
        /\ wPc = "release" /\ tm' = [tm EXCEPT ![r[1]] = r[2]] /\ wRel' = wRel \ {r}
        /\ UNCHANGED <<status, reopened, wPc, wTask>>
    BY DEF ReleaseMinion, TypeInv, TypeOK, MinionInv, FinishedMinions
  <1>2. tm \in [TM -> TaskMinionStatus] BY DEF TypeInv, TypeOK
  <1>3. FinishedMinions' BY <1>1, <1>2 DEF MinionInv, FinishedMinions, Done, TM
  <1>4. OneTaskPerMinion' BY <1>1, <1>2 DEF MinionInv, OneTaskPerMinion, Outcomes, TM
  <1>5. FreeMinions' BY <1>1 DEF FreeMinions, Checked
  <1>6. QED BY <1>3, <1>4, <1>5 DEF MinionInv

\* Users, workers, Salt and time are outside the watcher in this sense.
LEMMA OutsideSteps ==
    ASSUME TypeInv,
           \/ \E t \in Tasks : UserStop(t) \/ RunTask(t) \/ RestartRead(t)
           \/ RestartMinions \/ RestartStatus \/ (\E q \in wQueue : TtlStop(q))
           \/ \E j \in Jids : Launch(j) \/ Relaunch(j) \/ JobSteps(j) \/ WorkError(j)
           \/ \E p \in Returns : MinionAnswers(p) \/ TellReturn(p) \/ Worker(p) \/
               TimeoutReturn(p)
           \/ LoseMessage \/ TimeoutRead \/ TimeoutWrite
           \/ \E x \in TM : GetsOld(x)
    PROVE  /\ Outside /\ UNCHANGED <<wPc, wTask, wRel>>
           /\ \A t \in Tasks : status'[t] = "finished" => status[t] = "finished"
  <1>1. ASSUME NEW t \in Tasks, Stop(t)
        PROVE  /\ Outside
               /\ \A u \in Tasks : status'[u] = "finished" => status[u] = "finished"
    BY <1>1 DEF Stop, Outside, Reopened, TypeInv, TypeOK
  <1>2. CASE (\E t \in Tasks : UserStop(t)) \/ (\E q \in wQueue : TtlStop(q))
    <2>1. \A q \in wQueue : q[1] \in Tasks BY DEF TypeInv, TypeOK
    <2>2. (\E t \in Tasks : Stop(t)) \/ UNCHANGED <<tm, reopened, status>>
      BY <1>2, <2>1 DEF UserStop, TtlStop
    <2>3. UNCHANGED <<wPc, wTask, wRel>> BY <1>2 DEF UserStop, TtlStop
    <2>4. QED BY <1>1, <2>2, <2>3 DEF Outside
  <1>3. CASE (\E t \in Tasks : RunTask(t) \/ RestartRead(t)) \/ RestartStatus
    BY <1>3 DEF RunTask, RestartRead, RestartStatus, Outside, TypeInv, TypeOK
  <1>4. CASE RestartMinions
    BY <1>4 DEF RestartMinions, Outside, Reopened, TypeInv, TypeOK, TM
  <1>5. CASE \E j \in Jids : Launch(j) \/ Relaunch(j) \/ JobSteps(j) \/ WorkError(j)
    BY <1>5 DEF Launch, Relaunch, JobSteps, WorkError, ReturnsCreated, FinishJob,
        TellError, Outside
  <1>6. CASE \E p \in Returns : WriteReturn(p)
    <2>1. PICK p \in Returns : WriteReturn(p) BY <1>6
    <2>2. /\ tm' = [tm EXCEPT ![XOf(p)] = wk[p]]
          /\ wk[p] \in {"success", "failed", "pending"}
          /\ reopened' = IF wk[p] = "pending" THEN Reopened({XOf(p)}) ELSE reopened
          /\ UNCHANGED <<status, wPc, wTask, wRel>>
      BY <2>1 DEF WriteReturn, Outcomes
    <2>3. QED BY <2>2 DEF Outside, Reopened, TypeInv, TypeOK
  <1>7. CASE TimeoutWrite
    <2>1. /\ tm' = [tm EXCEPT ![XOf(toRet)] = toPc]
          /\ toPc \in {"success", "failed", "pending"}
          /\ reopened' = IF toPc = "pending" THEN Reopened({XOf(toRet)}) ELSE reopened
          /\ UNCHANGED <<status, wPc, wTask, wRel>>
      BY <1>7 DEF TimeoutWrite, Outcomes
    <2>2. QED BY <2>1 DEF Outside, Reopened, TypeInv, TypeOK
  <1>8. CASE \/ \E p \in Returns : \/ MinionAnswers(p) \/ TellReturn(p)
                                  \/ ReadReturn(p) \/ TimeoutReturn(p)
             \/ LoseMessage \/ TimeoutRead
             \/ \E x \in TM : GetsOld(x)
    BY <1>8 DEF MinionAnswers, TellReturn, ReadReturn, TimeoutReturn, LoseMessage,
        TimeoutRead, GetsOld, Outside
  <1>9. QED BY <1>2, <1>3, <1>4, <1>5, <1>6, <1>7, <1>8 DEF Worker

\* Every step keeps the minions of the tasks apart.
LEMMA MinionNext == ASSUME MinionInv, StopInv, TypeInv, [Next]_vars PROVE MinionInv'
  <1>1. CASE TasksWatcher \/ CreateJobRaises \/ WatcherCrash
    BY <1>1, WatcherKeepsMinionInv, TasksMinionsKeepMinionInv, ReleaseKeepsMinionInv
       DEF TasksWatcher, HandleTask
  <1>2. CASE UNCHANGED vars
    BY <1>2, NothingHappensToMinions DEF vars, MinionInv, FinishedMinions
  <1>3. CASE ~(TasksWatcher \/ CreateJobRaises \/ WatcherCrash) /\ Next
    BY <1>3, OutsideSteps, OutsideKeepsMinionInv DEF Next, User
  <1>4. QED BY <1>1, <1>2, <1>3 DEF Next

\* check_busy_task_minions, create_job and the decision to finish rely on what
\* they read earlier of task minions; MinionInv is what remains true of it.
THEOREM MinionsOfOneTask == Spec => []MinionInv
  <1>1. MinionInv /\ StopInv /\ TypeInv /\ [Next]_vars => MinionInv' BY MinionNext
  <1>2. QED BY <1>1, MinionInit, WatcherNeverMisled, TaskTypes, PTL DEF Spec

\* No minion is in work for two tasks, but through a stop, a restart or a late
\* answer that set it pending after the watcher had looked at it.
THEOREM MinionsServeOneTask == Spec => []OneTaskPerMinion
  <1>1. MinionInv => OneTaskPerMinion BY DEF MinionInv
  <1>2. QED BY <1>1, MinionsOfOneTask, PTL

\* A finished task has no active job, and no minion left to work on but one that
\* a restart or a late answer set pending after the watcher's decision.
THEOREM FinishedTasksAreComplete == Spec => []FinishedIsComplete
  <1>1. MinionInv /\ StopInv => FinishedIsComplete
    BY DEF MinionInv, StopInv, FinishedMinions, Done, EndedIsQuiet, FinishedIsComplete
  <1>2. QED BY <1>1, MinionsOfOneTask, WatcherNeverMisled, PTL
-----------------------------------------------------------------------------
(* How often a minion is sent a task's job. *)

\* Nobody answers after the time-out or twice, the age at which minions are released is above
\* what a job and the messages about its end take, and users only run tasks.
InTime == ~SlowJobs /\ ~LateAnswers /\ MaxUserOps = 0

Answered == {"success", "failed"}

\* What the writes of jobs and returns leave of each other.
Ledger ==
    /\ \A p \in Returns :
          /\ rstat[p] # "none" => p[2] \in tgt[p[1]] /\ job[p[1]] \in {"running", "finished"}
          /\ rcode[p] = "null" <=> rstat[p] \notin Answered
          /\ p \in kiqRet => rstat[p] \in Answered
          /\ wk[p] # "idle" => p \in kiqRet
    /\ \A j \in Jids :
          /\ job[j] = "none" => tgt[j] = {}
          /\ j \in lost => job[j] = "starting"
          /\ j \in kiqErr => job[j] = "launch_error"
          /\ j \in errQ => j \in kiqErr
    /\ toPc # "idle" => rstat[toRet] = "timeout"
    /\ rPc = "idle"

\* The jobs of a task minion whose end has not been worked off.
Open(x) == {j \in JobsOf(x[1]) : x[2] \in tgt[j] /\ ~Settled(j, x[2])}
\* The minion may be sent another job.
Room(x) == Dispatched(x) = {} \/ Cardinality(Dispatched(x)) < MaxRetries
Limit == IF MaxRetries = 0 THEN 1 ELSE MaxRetries
IsTaken(x) == wPc = "create" /\ x[1] = wTask /\ x[2] \in wPick

MinionRuns(x) ==
    /\ tm[x] # "in_work" \/ x \in old => Open(x) = {}
    /\ tm[x] \in {"pending", "busy"} => Room(x)
    /\ IsTaken(x) => tm[x] = "in_work" /\ x \notin old /\ Open(x) = {} /\ Room(x)
    /\ \A j, k \in Open(x) : j = k
    /\ Cardinality(Dispatched(x)) <= Limit
Verdicts ==
    /\ \A p \in Returns : wk[p] = "pending" => Room(XOf(p))
    /\ toPc = "pending" => Room(XOf(toRet))
    /\ \A r \in wRel : /\ wPc = "release" /\ tm[r[1]] = "in_work" /\ r[1] \in old
                       /\ r[2] = "pending" => Room(r[1])
    /\ \A r, s \in wRel : r[1] = s[1] => r = s
RunsInv == Ledger /\ (\A x \in TM : MinionRuns(x)) /\ Verdicts

USE DEF Answered

\* No return, error or time-out is on record at first.
LEMMA LedgerInit == Init => Ledger
BY DEF Init, LInit, Ledger, Returns

\* The watcher writes a job, which is new, and no return; users do neither.
LEMMA LedgerWatcher ==
    ASSUME InTime, TypeInv, Ledger,
           TasksWatcher \/ CreateJobRaises \/ WatcherCrash \/ User \/ (\E q \in wQueue : TtlStop(q))
    PROVE  Ledger'
<1>t. /\ job \in [Jids -> JobStatus \cup {"none"}] /\ rstat \in [Returns -> JobReturnStatus \cup {"none"}]
      /\ tgt \in [Jids -> SUBSET Minions] /\ ops = 0
  BY TaskAssumption DEF TypeInv, TypeOK, LTypeOK, InTime
<1>1. ASSUME UNCHANGED <<lvars, tgt, lost, wk, errQ, tovars, rPc>> PROVE Ledger'
  BY <1>1 DEF Ledger
<1>2. ASSUME NEW j \in Jids, NewJob(j), lost' = lost \/ lost' = lost \cup {j},
             UNCHANGED <<wk, errQ, tovars, rPc>>
      PROVE  Ledger'
  <2>1. /\ job[j] = "none" /\ job' = [job EXCEPT ![j] = "starting"]
        /\ UNCHANGED <<rstat, rcode, kiqRet, kiqErr>> /\ tgt' = [tgt EXCEPT ![j] = wPick]
    BY <1>2 DEF NewJob, Create
  <2>2. job'[j] = "starting" /\ \A i \in Jids \ {j} : job'[i] = job[i] /\ tgt'[i] = tgt[i]
    BY <1>t, <2>1
  <2>3. \A p \in Returns : rstat[p] # "none" => p[1] # j /\ p[1] \in Jids
    BY <2>1 DEF Ledger, Returns
  <2>4. \A i \in Jids : /\ i \in lost' => job'[i] = "starting"
                        /\ job'[i] = "none" => tgt'[i] = {}
                        /\ i \in kiqErr => job'[i] = "launch_error"
                        /\ i \in errQ => i \in kiqErr
    BY <1>2, <2>1, <2>2 DEF Ledger
  <2>5. \A p \in Returns :
          rstat[p] # "none" => p[2] \in tgt'[p[1]] /\ job'[p[1]] \in {"running", "finished"}
    BY <2>2, <2>3 DEF Ledger
  <2> QED  BY <1>2, <2>1, <2>4, <2>5 DEF Ledger
<1>3. CASE TasksWatcher
  <2>1. ASSUME NEW j \in Jids, CreateJob(j) PROVE Ledger'
    BY <1>2, <2>1 DEF CreateJob
  <2>2. CASE ReadLocked \/ (\E r \in wRel : ReleaseMinion(r)) \/ ReadTasks \/
             (\E q \in wQueue : NextTask(q)) \/ EndPass
    BY <1>1, <2>2 DEF ReadLocked, ReleaseMinion, ReadTasks, NextTask, EndPass
  <2>3. CASE CheckBusy \/ CheckUnbusy \/ CountJobs \/ ReadPending \/ TakeMinions \/
             Decide \/ CheckStopping \/ UpdateTask
    BY <1>1, <2>3 DEF CheckBusy, CheckUnbusy, CountJobs, ReadPending, TakeMinions,
          Decide, DecideOn, CheckStopping, StopUnless, UpdateTask
  <2> QED  BY <1>3, <2>1, <2>2, <2>3 DEF TasksWatcher, HandleTask
<1>4. CASE CreateJobRaises
  BY <1>1, <1>2, <1>4 DEF CreateJobRaises
<1>5. CASE WatcherCrash \/ \E q \in wQueue : TtlStop(q)
  BY <1>1, <1>5 DEF WatcherCrash, TtlStop, Stop
<1>6. CASE User
  BY <1>1, <1>t, <1>6 DEF User, UserStop, RunTask, RestartRead, RestartMinions, RestartStatus,
     InTime, Ledger
<1> QED  BY <1>3, <1>4, <1>5, <1>6

\* What Salt makes of a job, and the worker of its error.
LEMMA LedgerJobs ==
    ASSUME InTime, TypeInv, Ledger, NEW j \in Jids,
           Launch(j) \/ Relaunch(j) \/ JobSteps(j) \/ WorkError(j)
    PROVE  Ledger'
<1>t. /\ job \in [Jids -> JobStatus \cup {"none"}] /\ rstat \in [Returns -> JobReturnStatus \cup {"none"}]
      /\ tgt \in [Jids -> SUBSET Minions]
  BY DEF TypeInv, TypeOK, LTypeOK
<1>1. CASE Launch(j)
  <2>1. /\ job[j] = "starting" /\ j \notin lost /\ UNCHANGED <<rstat, rcode, kiqRet, kiqErr>>
        /\ UNCHANGED <<tgt, lost, wk, errQ, tovars, rPc>>
        /\ \A i \in Jids \ {j} : job'[i] = job[i]
        /\ job'[j] \in {"running", "launch_error"}
    BY <1>t, <1>1 DEF Launch, Run, LaunchError
  <2>2. \A p \in Returns : rstat[p] # "none" => p[1] # j /\ p[1] \in Jids
    BY <2>1 DEF Ledger, Returns
  <2>3. \A i \in Jids : /\ i \in lost => job'[i] = "starting"
                        /\ job'[i] = "none" => tgt[i] = {}
                        /\ i \in kiqErr => job'[i] = "launch_error"
                        /\ i \in errQ => i \in kiqErr
    BY <2>1 DEF Ledger
  <2> QED  BY <2>1, <2>2, <2>3 DEF Ledger
<1>2. CASE Relaunch(j) \/ FinishJob(j)
  <2>1. /\ job[j] \in {"running", "finished"} /\ UNCHANGED <<rstat, rcode, kiqRet, kiqErr>>
        /\ UNCHANGED <<tgt, lost, wk, errQ, tovars, rPc>>
        /\ \A i \in Jids \ {j} : job'[i] = job[i]
        /\ job'[j] \in {"running", "finished"}
    BY <1>t, <1>2 DEF Relaunch, FinishJob, Run, Finish
  <2>2. \A p \in Returns : rstat[p] # "none" => p[1] \in Jids
    BY DEF Returns
  <2>3. \A i \in Jids : /\ i \in lost => job'[i] = "starting"
                        /\ job'[i] = "none" => tgt[i] = {}
                        /\ i \in kiqErr => job'[i] = "launch_error"
                        /\ i \in errQ => i \in kiqErr
    BY <2>1 DEF Ledger
  <2> QED  BY <2>1, <2>2, <2>3 DEF Ledger
<1>3. CASE ReturnsCreated(j)
  <2>1. /\ job[j] \in {"running", "finished"} /\ UNCHANGED <<job, rcode, kiqRet, kiqErr>>
        /\ UNCHANGED <<tgt, lost, wk, errQ, tovars, rPc>>
        /\ \A p \in Returns : \/ rstat'[p] = rstat[p]
                              \/ /\ p[1] = j /\ p[2] \in tgt[j] /\ rstat[p] = "none"
                                 /\ rstat'[p] \in {"waiting", "ignored"}
    BY <1>t, <1>3 DEF ReturnsCreated, CreateReturns, Returns
  <2>2. toPc # "idle" => toRet \in Returns
    BY DEF TypeInv, TypeOK
  <2> QED  BY <2>1, <2>2 DEF Ledger
<1>4. CASE TellError(j)
  <2>1. /\ job[j] = "launch_error" /\ kiqErr' = kiqErr \cup {j} /\ errQ' = errQ \cup {j}
        /\ UNCHANGED <<job, rstat, rcode, kiqRet>>
        /\ UNCHANGED <<tgt, lost, wk, tovars, rPc>>
    BY <1>4 DEF TellError, NotifyError
  <2> QED  BY <2>1 DEF Ledger
<1>5. CASE WorkError(j)
  <2>1. errQ' = errQ \ {j} /\ UNCHANGED <<lvars, tgt, lost, wk, tovars, rPc>>
    BY <1>5 DEF WorkError
  <2> QED  BY <2>1 DEF Ledger
<1> QED  BY <1>1, <1>2, <1>3, <1>4, <1>5 DEF JobSteps

\* Answers, time-outs and the messages about them.
LEMMA LedgerReturns ==
    ASSUME InTime, TypeInv, Ledger, NEW p \in Returns,
           MinionAnswers(p) \/ TellReturn(p) \/ Worker(p) \/ TimeoutReturn(p)
    PROVE  Ledger'
<1>t. /\ rstat \in [Returns -> JobReturnStatus \cup {"none"}] /\ rcode \in [Returns -> Replies]
      /\ wk \in [Returns -> {"idle", "queued"} \cup Outcomes]
      /\ toPc # "idle" => toRet \in Returns
  BY DEF TypeInv, TypeOK, LTypeOK
<1>1. CASE MinionAnswers(p)
  <2>1. /\ rstat[p] = "waiting" /\ UNCHANGED <<job, kiqRet, kiqErr>>
        /\ UNCHANGED <<tgt, lost, wk, errQ, tovars, rPc>>
        /\ \A r \in Returns \ {p} : rstat'[r] = rstat[r] /\ rcode'[r] = rcode[r]
        /\ rstat'[p] \in Answered /\ rcode'[p] # "null"
    BY <1>t, <1>1 DEF MinionAnswers, Answer, InTime, StatusOf, Retcodes
  <2> QED  BY <1>t, <2>1 DEF Ledger
<1>2. CASE TellReturn(p)
  <2>1. /\ rstat[p] \in Answered /\ kiqRet' = kiqRet \cup {p}
        /\ UNCHANGED <<job, rstat, rcode, kiqErr>>
        /\ UNCHANGED <<tgt, lost, errQ, tovars, rPc>>
        /\ \A r \in Returns \ {p} : wk'[r] = wk[r]
    BY <1>t, <1>2 DEF TellReturn, NotifyReturn
  <2> QED  BY <2>1 DEF Ledger
<1>3. CASE Worker(p)
  <2>1. /\ wk[p] # "idle" /\ UNCHANGED <<lvars, tgt, lost, errQ, tovars, rPc>>
        /\ \A r \in Returns \ {p} : wk'[r] = wk[r]
    BY <1>t, <1>3 DEF Worker, ReadReturn, WriteReturn, Outcomes
  <2> QED  BY <2>1 DEF Ledger
<1>4. CASE TimeoutReturn(p)
  <2>1. /\ rstat[p] = "waiting" /\ UNCHANGED <<job, rcode, kiqRet, kiqErr>>
        /\ UNCHANGED <<tgt, lost, wk, errQ, rPc>> /\ toRet' = p
        /\ \A r \in Returns \ {p} : rstat'[r] = rstat[r]
        /\ rstat'[p] = "timeout"
    BY <1>t, <1>4 DEF TimeoutReturn, Timeout
  <2> QED  BY <2>1 DEF Ledger
<1> QED  BY <1>1, <1>2, <1>3, <1>4

\* Lost messages, the rest of a time-out and the passing of time.
LEMMA LedgerOthers ==
    ASSUME InTime, TypeInv, Ledger,
           LoseMessage \/ TimeoutRead \/ TimeoutWrite \/ (\E x \in TM : GetsOld(x))
    PROVE  Ledger'
<1>1. CASE LoseMessage
  <2>1. /\ UNCHANGED <<lvars, tgt, lost, tovars, rPc>> /\ errQ' \subseteq errQ
        /\ \A r \in Returns : wk'[r] # "idle" => wk[r] # "idle"
    BY <1>1 DEF LoseMessage, TypeInv, TypeOK
  <2> QED  BY <2>1 DEF Ledger
<1>2. CASE TimeoutRead \/ TimeoutWrite \/ (\E x \in TM : GetsOld(x))
  <2>1. /\ UNCHANGED <<lvars, tgt, lost, wk, errQ, toRet, rPc>> /\ (toPc' # "idle" => toPc # "idle")
    BY <1>2 DEF TimeoutRead, TimeoutWrite, GetsOld
  <2> QED  BY <2>1 DEF Ledger
<1> QED  BY <1>1, <1>2

\* The ledger holds on.
LEMMA LedgerNext == ASSUME InTime, TypeInv, Ledger, [Next]_vars PROVE Ledger'
<1>1. CASE UNCHANGED vars
  BY <1>1 DEF vars, Ledger
<1> QED  BY <1>1, LedgerWatcher, LedgerJobs, LedgerReturns, LedgerOthers DEF Next

-----------------------------------------------------------------------------
\* Once what follows of a job on a minion is over, it stays so.
LEMMA SettledStays ==
    ASSUME InTime, TypeInv, Ledger, [Next]_vars, NEW i \in Jids, NEW m \in Minions, Settled(i, m)
    PROVE  Settled(i, m)'
<1> DEFINE q == <<i, m>>
<1>t. /\ job \in [Jids -> JobStatus \cup {"none"}] /\ rstat \in [Returns -> JobReturnStatus \cup {"none"}]
      /\ rcode \in [Returns -> Replies] /\ wk \in [Returns -> {"idle", "queued"} \cup Outcomes]
      /\ toPc # "idle" => toRet \in Returns
      /\ q \in Returns
  BY DEF TypeInv, TypeOK, LTypeOK, Returns
<1>l. /\ rstat[q] # "none" => job[i] \in {"running", "finished"}
      /\ rcode[q] = "null" <=> rstat[q] \notin Answered
      /\ q \in kiqRet => rstat[q] \in Answered
      /\ wk[q] # "idle" => q \in kiqRet
      /\ i \in lost => job[i] = "starting"
      /\ i \in kiqErr => job[i] = "launch_error"
      /\ toPc # "idle" => rstat[toRet] = "timeout"
  BY <1>t DEF Ledger
<1>s. \/ i \in lost
      \/ job[i] = "launch_error" /\ i \in kiqErr /\ i \notin errQ
      \/ /\ rstat[q] \notin {"none", "waiting"}
         /\ toPc = "idle" \/ toRet # q
         /\ rcode[q] = "null" \/ (q \in kiqRet /\ wk[q] = "idle")
  BY DEF Settled
<1>1. ASSUME i \in lost => i \in lost',
             job[i] = "launch_error" /\ i \in kiqErr /\ i \notin errQ =>
                job'[i] = "launch_error" /\ i \in kiqErr' /\ i \notin errQ',
             rstat[q] \notin {"none", "waiting"} =>
                /\ rstat'[q] = rstat[q] /\ rcode'[q] = rcode[q]
                /\ toPc = "idle" \/ toRet # q => toPc' = "idle" \/ toRet' # q
                /\ q \in kiqRet /\ wk[q] = "idle" => q \in kiqRet' /\ wk'[q] = "idle"
      PROVE  Settled(i, m)'
  BY <1>1, <1>s DEF Settled
<1> HIDE DEF q
<1>2. ASSUME UNCHANGED <<rstat, rcode, kiqRet, kiqErr, wk, errQ, tovars>>,
             i \in lost => i \in lost', job[i] = "launch_error" => job'[i] = "launch_error"
      PROVE  Settled(i, m)'
  BY <1>1, <1>2
<1>3. CASE TasksWatcher \/ CreateJobRaises \/ WatcherCrash \/ User \/ (\E r \in wQueue : TtlStop(r))
  <2>1. ASSUME NEW j \in Jids, NewJob(j) PROVE job[i] = "launch_error" => job'[i] = "launch_error"
    BY <1>t, <2>1 DEF NewJob, Create
  <2>2. CASE TasksWatcher
    <3>1. ASSUME NEW j \in Jids, CreateJob(j) PROVE Settled(i, m)'
      BY <1>2, <2>1, <3>1 DEF CreateJob, NewJob, Create
    <3>2. CASE ReadLocked \/ (\E r \in wRel : ReleaseMinion(r)) \/ ReadTasks \/
               (\E r \in wQueue : NextTask(r)) \/ EndPass
      BY <1>2, <3>2 DEF ReadLocked, ReleaseMinion, ReadTasks, NextTask, EndPass
    <3>3. CASE CheckBusy \/ CheckUnbusy \/ CountJobs \/ ReadPending \/ TakeMinions \/
               Decide \/ CheckStopping \/ UpdateTask
      BY <1>2, <3>3 DEF CheckBusy, CheckUnbusy, CountJobs, ReadPending, TakeMinions,
            Decide, DecideOn, CheckStopping, StopUnless, UpdateTask
    <3> QED  BY <2>2, <3>1, <3>2, <3>3 DEF TasksWatcher, HandleTask
  <2>3. CASE CreateJobRaises
    <3>1. CASE UNCHANGED <<lvars, jvars>>
      BY <1>2, <2>3, <3>1 DEF CreateJobRaises
    <3>2. ASSUME NEW j \in Jids, NewJob(j), lost' = lost \cup {j} PROVE Settled(i, m)'
      BY <1>2, <2>1, <2>3, <3>2 DEF CreateJobRaises, NewJob, Create
    <3> QED  BY <2>3, <3>1, <3>2 DEF CreateJobRaises
  <2>4. CASE WatcherCrash \/ User \/ \E r \in wQueue : TtlStop(r)
    BY <1>2, <2>4 DEF WatcherCrash, TtlStop, Stop, User, UserStop, RunTask, RestartRead,
       RestartMinions, RestartStatus
  <2> QED  BY <1>3, <2>2, <2>3, <2>4
<1>4. ASSUME NEW j \in Jids, Launch(j) \/ Relaunch(j) \/ JobSteps(j) \/ WorkError(j)
      PROVE  Settled(i, m)'
  <2>1. CASE Launch(j) \/ Relaunch(j) \/ FinishJob(j)
    <3>1. job[i] = "launch_error" => job'[i] = "launch_error"
      BY <1>t, <2>1 DEF Launch, Relaunch, FinishJob, Run, LaunchError, Finish
    <3> QED  BY <1>2, <2>1, <3>1 DEF Launch, Relaunch, FinishJob, Run, LaunchError, Finish
  <2>2. CASE ReturnsCreated(j)
    <3>1. rstat[q] # "none" => rstat'[q] = rstat[q]
      BY <1>t, <2>2 DEF ReturnsCreated, CreateReturns, Returns
    <3>2. UNCHANGED <<job, rcode, kiqRet, kiqErr, lost, wk, errQ, tovars>>
      BY <2>2 DEF ReturnsCreated, CreateReturns
    <3> QED  BY <1>1, <3>1, <3>2
  <2>3. CASE TellError(j)
    <3>1. i \in kiqErr => j # i
      BY <2>3 DEF TellError
    <3>2. kiqErr' = kiqErr \cup {j} /\ errQ' = errQ \cup {j}
          /\ UNCHANGED <<job, rstat, rcode, kiqRet, lost, wk, tovars>>
      BY <2>3 DEF TellError, NotifyError
    <3> QED  BY <1>1, <3>1, <3>2
  <2>4. CASE WorkError(j)
    <3>1. errQ' = errQ \ {j} /\ UNCHANGED <<lvars, lost, wk, tovars>>
      BY <2>4 DEF WorkError
    <3> QED  BY <1>1, <3>1
  <2> QED  BY <1>4, <2>1, <2>2, <2>3, <2>4 DEF JobSteps
<1>5. ASSUME NEW p \in Returns,
             MinionAnswers(p) \/ TellReturn(p) \/ Worker(p) \/ TimeoutReturn(p)
      PROVE  Settled(i, m)'
  <2>1. CASE MinionAnswers(p)
    <3>1. rstat[p] = "waiting" /\ UNCHANGED <<job, kiqRet, kiqErr, lost, wk, errQ, tovars>>
      BY <2>1 DEF MinionAnswers, Answer, InTime
    <3>2. p # q => rstat'[q] = rstat[q] /\ rcode'[q] = rcode[q]
      BY <1>t, <2>1 DEF MinionAnswers, Answer
    <3> QED  BY <1>1, <3>1, <3>2
  <2>2. CASE TellReturn(p)
    <3>1. /\ p \notin kiqRet /\ kiqRet' = kiqRet \cup {p}
          /\ UNCHANGED <<job, rstat, rcode, kiqErr, lost, errQ, tovars>>
      BY <2>2 DEF TellReturn, NotifyReturn, InTime
    <3>2. p # q => wk'[q] = wk[q]
      BY <1>t, <2>2 DEF TellReturn
    <3> QED  BY <1>1, <3>1, <3>2
  <2>3. CASE Worker(p)
    <3>1. wk[p] # "idle" /\ UNCHANGED <<lvars, lost, errQ, tovars>>
      BY <2>3 DEF Worker, ReadReturn, WriteReturn, Outcomes
    <3>2. p # q => wk'[q] = wk[q]
      BY <1>t, <2>3 DEF Worker, ReadReturn, WriteReturn
    <3> QED  BY <1>1, <3>1, <3>2
  <2>4. CASE TimeoutReturn(p)
    <3>1. rstat[p] = "waiting" /\ UNCHANGED <<job, rcode, kiqRet, kiqErr, lost, wk, errQ>> /\ toRet' = p
      BY <2>4 DEF TimeoutReturn, Timeout
    <3>2. p # q => rstat'[q] = rstat[q]
      BY <1>t, <2>4 DEF TimeoutReturn, Timeout
    <3> QED  BY <1>1, <3>1, <3>2
  <2> QED  BY <1>5, <2>1, <2>2, <2>3, <2>4
<1>6. CASE LoseMessage
  <2>1. UNCHANGED <<lvars, lost, tovars>> /\ errQ' \subseteq errQ /\ (wk[q] = "idle" => wk'[q] = "idle")
    BY <1>t, <1>6 DEF LoseMessage
  <2> QED  BY <1>1, <2>1
<1>7. CASE TimeoutRead \/ TimeoutWrite \/ (\E x \in TM : GetsOld(x))
  <2>1. UNCHANGED <<lvars, lost, wk, errQ, toRet>> /\ (toPc = "idle" => toPc' = "idle")
    BY <1>7 DEF TimeoutRead, TimeoutWrite, GetsOld, Outcomes
  <2> QED  BY <1>1, <2>1
<1>8. CASE UNCHANGED vars
  BY <1>2, <1>8 DEF vars
<1> QED  BY <1>3, <1>4, <1>5, <1>6, <1>7, <1>8 DEF Next

\* Who refuses a job does so for good.
LEMMA RefusedStays ==
    ASSUME TypeInv, [Next]_vars, NEW i \in Jids, job[i] = "launch_error"
    PROVE  job'[i] = "launch_error"
<1>t. job \in [Jids -> JobStatus \cup {"none"}]
  BY DEF TypeInv, TypeOK, LTypeOK
<1>1. ASSUME NEW j \in Jids, NewJob(j) PROVE job'[i] = "launch_error"
  BY <1>t, <1>1 DEF NewJob, Create
<1>2. CASE TasksWatcher \/ CreateJobRaises \/ WatcherCrash \/ User \/ (\E r \in wQueue : TtlStop(r))
  <2>1. job' = job \/ \E j \in Jids : NewJob(j)
    BY <1>2 DEF TasksWatcher, HandleTask, ReadLocked, ReleaseMinion, ReadTasks, NextTask, EndPass,
       CheckBusy, CheckUnbusy, CountJobs, ReadPending, TakeMinions, CreateJob, Decide, DecideOn,
       CheckStopping, StopUnless, UpdateTask, CreateJobRaises, WatcherCrash, TtlStop, Stop,
       User, UserStop, RunTask, RestartRead, RestartMinions, RestartStatus
  <2> QED  BY <1>1, <2>1
<1>3. ASSUME NEW j \in Jids, Launch(j) \/ Relaunch(j) \/ JobSteps(j) \/ WorkError(j)
      PROVE  job'[i] = "launch_error"
  BY <1>t, <1>3 DEF Launch, Relaunch, JobSteps, WorkError, ReturnsCreated, FinishJob, TellError,
     Run, LaunchError, CreateReturns, Finish, NotifyError
<1>4. ASSUME NEW p \in Returns,
             MinionAnswers(p) \/ TellReturn(p) \/ Worker(p) \/ TimeoutReturn(p)
      PROVE  job'[i] = "launch_error"
  BY <1>4 DEF MinionAnswers, Answer, TellReturn, NotifyReturn, Worker, ReadReturn, WriteReturn,
     TimeoutReturn, Timeout
<1>5. CASE LoseMessage \/ TimeoutRead \/ TimeoutWrite \/ (\E x \in TM : GetsOld(x)) \/ UNCHANGED vars
  BY <1>5 DEF LoseMessage, TimeoutRead, TimeoutWrite, GetsOld, vars
<1> QED  BY <1>2, <1>3, <1>4, <1>5 DEF Next

\* A task minion's jobs are finitely many: they were all created.
LEMMA DispatchedIsFinite ==
    ASSUME TypeInv, Ledger, NEW x
    PROVE  IsFiniteSet(Dispatched(x)) /\ Cardinality(Dispatched(x)) \in Nat
<1>1. Dispatched(x) \subseteq Created
  BY DEF Dispatched, JobsOf, Created, Ledger
<1> QED  BY <1>1, FS_Subset, FS_CardinalityType DEF TypeInv

\* Fewer jobs leave more room.
LEMMA FewerJobs ==
    ASSUME TypeInv, Ledger, NEW x, Dispatched(x)' \subseteq Dispatched(x)
    PROVE  /\ Room(x) => Room(x)'
           /\ Cardinality(Dispatched(x)) <= Limit => Cardinality(Dispatched(x)') <= Limit
<1>1. /\ IsFiniteSet(Dispatched(x)) /\ Cardinality(Dispatched(x)) \in Nat
      /\ Cardinality(Dispatched(x)') \in Nat /\ Cardinality(Dispatched(x)') <= Cardinality(Dispatched(x))
  BY DispatchedIsFinite, FS_Subset, FS_CardinalityType
<1>2. MaxRetries \in Nat /\ Limit \in Nat
  BY TaskAssumption DEF Limit
<1>3. Room(x) => Room(x)'
  BY <1>1, <1>2 DEF Room
<1> QED  BY <1>1, <1>2, <1>3

\* As long as no job is created, a task minion has neither more jobs nor more to work off.
LEMMA NoMoreJobs ==
    ASSUME InTime, TypeInv, Ledger, [Next]_vars, UNCHANGED <<owner, tgt, lost>>, NEW x \in TM
    PROVE  Open(x)' \subseteq Open(x) /\ Dispatched(x)' \subseteq Dispatched(x)
<1>1. Dispatched(x)' \subseteq Dispatched(x)
  BY RefusedStays DEF Dispatched, JobsOf
<1>2. Open(x)' \subseteq Open(x)
  <2>1. x[2] \in Minions
    BY DEF TM
  <2>2. \A i \in Jids : Settled(i, x[2]) => Settled(i, x[2])'
    BY <2>1, SettledStays
  <2> QED  BY <2>2 DEF Open, JobsOf
<1> QED  BY <1>1, <1>2

\* A step that makes no job, and frees or fails only minions that have nothing to work off.
LEMMA CalmStep ==
    ASSUME InTime, TypeInv, RunsInv, [Next]_vars,
           \A x \in TM : Open(x)' \subseteq Open(x) /\ Dispatched(x)' \subseteq Dispatched(x),
           \A i \in Created : owner'[i] = owner[i],
           \A x \in TM :
              /\ tm'[x] # "in_work" \/ x \in old' =>
                    tm[x] # "in_work" \/ x \in old \/ Open(x) = {} \/ Open(x)' = {}
              /\ tm'[x] \in {"pending", "busy"} => tm[x] \in {"pending", "busy"} \/ Room(x)
              /\ IsTaken(x)' => tm'[x] = "in_work" /\ x \notin old' /\ Open(x) = {} /\ Room(x),
           \A p \in Returns : wk'[p] = "pending" =>
              wk[p] # "idle" /\ (wk[p] = "pending" \/ Room(XOf(p))),
           toPc' = "pending" =>
              toPc # "idle" /\ toRet' = toRet /\ (toPc = "pending" \/ Room(XOf(toRet))),
           \A r \in wRel' : /\ wPc' = "release" /\ tm'[r[1]] = "in_work" /\ r[1] \in old'
                            /\ r[2] = "pending" => Room(r[1]),
           \A r, s \in wRel' : r[1] = s[1] => r = s
    PROVE  RunsInv'
<1>1. Ledger' /\ TypeInv'
  BY LedgerNext, TypeNext DEF RunsInv
<1>2. ASSUME NEW x \in TM PROVE (Room(x) => Room(x)') /\ Cardinality(Dispatched(x)') <= Limit
  BY <1>2, FewerJobs DEF RunsInv, MinionRuns
<1>3. ASSUME NEW x \in TM PROVE MinionRuns(x)'
  <2>1. /\ tm[x] # "in_work" \/ x \in old => Open(x) = {}
        /\ tm[x] \in {"pending", "busy"} => Room(x)
        /\ \A j, k \in Open(x) : j = k
    BY <1>3 DEF RunsInv, MinionRuns
  <2>2. Open(x)' \subseteq Open(x)
    BY <1>3
  <2>3. tm'[x] # "in_work" \/ x \in old' => Open(x)' = {}
    BY <1>3, <2>1, <2>2
  <2>4. tm'[x] \in {"pending", "busy"} => Room(x)'
    BY <1>2, <1>3, <2>1
  <2>5. IsTaken(x)' => tm'[x] = "in_work" /\ x \notin old' /\ Open(x)' = {} /\ Room(x)'
    BY <1>2, <1>3, <2>2
  <2>6. \A j, k \in Open(x)' : j = k
    BY <2>1, <2>2
  <2> QED  BY <1>2, <1>3, <2>3, <2>4, <2>5, <2>6 DEF MinionRuns, Limit
<1>4. ASSUME NEW p \in Returns, p[1] \in Created PROVE XOf(p) \in TM /\ XOf(p)' = XOf(p)
  BY <1>4, OwnedMinion DEF XOf
<1>5. ASSUME NEW p \in Returns, wk'[p] = "pending" PROVE Room(XOf(p))'
  <2>1. p[1] \in Created /\ Room(XOf(p))
    BY <1>5 DEF RunsInv, Verdicts, TypeInv, JobsAreOwned
  <2>2. PICK x \in TM : x = XOf(p) /\ XOf(p)' = x
    BY <1>4, <2>1
  <2>3. Room(x)'
    BY <1>2, <2>1, <2>2
  <2> QED  BY <2>2, <2>3 DEF Room, Dispatched, JobsOf
<1>6. ASSUME toPc' = "pending" PROVE Room(XOf(toRet))'
  <2>1. toRet \in Returns /\ toRet[1] \in Created /\ Room(XOf(toRet)) /\ toRet' = toRet
    BY <1>6 DEF RunsInv, Verdicts, TypeInv, TypeOK, JobsAreOwned
  <2>2. PICK p \in Returns : p = toRet
    BY <2>1
  <2>3. PICK x \in TM : x = XOf(p) /\ XOf(p)' = x
    BY <1>4, <2>1, <2>2
  <2>4. Room(x)'
    BY <1>2, <2>1, <2>2, <2>3
  <2>5. XOf(toRet)' = x
    BY <2>1, <2>2, <2>3 DEF XOf
  <2> QED  BY <2>4, <2>5 DEF Room, Dispatched, JobsOf
<1>7. ASSUME NEW r \in wRel', r[2] = "pending" PROVE Room(r[1])'
  <2>1. r[1] \in TM
    BY <1>1, <1>7 DEF TypeInv, TypeOK
  <2> QED  BY <1>2, <1>7, <2>1
<1>8. Verdicts'
  BY <1>5, <1>6, <1>7 DEF Verdicts
<1> QED  BY <1>1, <1>3, <1>8 DEF RunsInv

\* The same, where neither the task minions nor the watcher have a part in the step.
LEMMA QuietStep ==
    ASSUME InTime, TypeInv, RunsInv, [Next]_vars, UNCHANGED <<owner, tgt, lost>>,
           UNCHANGED <<tm, old, wPc, wTask, wPick, wRel>>,
           \A p \in Returns : wk'[p] = "pending" =>
              wk[p] # "idle" /\ (wk[p] = "pending" \/ Room(XOf(p))),
           toPc' = "pending" =>
              toPc # "idle" /\ toRet' = toRet /\ (toPc = "pending" \/ Room(XOf(toRet)))
    PROVE  RunsInv'
<1>1. \A x \in TM : Open(x)' \subseteq Open(x) /\ Dispatched(x)' \subseteq Dispatched(x)
  BY NoMoreJobs DEF RunsInv
<1>2. \A x \in TM :
              /\ tm'[x] # "in_work" \/ x \in old' =>
                    tm[x] # "in_work" \/ x \in old \/ Open(x) = {} \/ Open(x)' = {}
              /\ tm'[x] \in {"pending", "busy"} => tm[x] \in {"pending", "busy"} \/ Room(x)
              /\ IsTaken(x)' => tm'[x] = "in_work" /\ x \notin old' /\ Open(x) = {} /\ Room(x)
  BY DEF RunsInv, MinionRuns, IsTaken
<1>3. /\ \A r \in wRel' : /\ wPc' = "release" /\ tm'[r[1]] = "in_work" /\ r[1] \in old'
                          /\ r[2] = "pending" => Room(r[1])
      /\ \A r, s \in wRel' : r[1] = s[1] => r = s
  BY DEF RunsInv, Verdicts
<1>4. \A i \in Created : owner'[i] = owner[i]
  OBVIOUS
<1> QED  BY <1>1, <1>2, <1>3, <1>4, CalmStep

\* The same, where the watcher is not at its releases and leaves what it took.
LEMMA WatcherStep ==
    ASSUME InTime, TypeInv, RunsInv, [Next]_vars, UNCHANGED <<owner, tgt, lost>>,
           UNCHANGED <<wk, toPc, toRet>>, wRel' = {},
           \A x \in TM :
              /\ tm'[x] # "in_work" \/ x \in old' => tm[x] # "in_work" \/ x \in old \/ Open(x) = {}
              /\ tm'[x] \in {"pending", "busy"} => tm[x] \in {"pending", "busy"} \/ Room(x)
              /\ IsTaken(x)' => tm'[x] = "in_work" /\ x \notin old' /\ Open(x) = {} /\ Room(x)
    PROVE  RunsInv'
<1>1. \A x \in TM : Open(x)' \subseteq Open(x) /\ Dispatched(x)' \subseteq Dispatched(x)
  BY NoMoreJobs DEF RunsInv
<1>2. \A i \in Created : owner'[i] = owner[i]
  OBVIOUS
<1> QED  BY <1>1, <1>2, CalmStep

\* A failure that leaves the minion pending leaves room for its next job, if what is
\* not worked off has come to a return.
LEMMA FailureLeavesRoom ==
    ASSUME TypeInv, Ledger, NEW x \in TM, \A j \in Open(x) : rstat[<<j, x[2]>>] # "none",
           AfterFailure(x) = "pending"
    PROVE  Room(x)
<1>1. PICK C : C = {j \in JobsOf(x[1]) : rstat[<<j, x[2]>>] # "none"}
  OBVIOUS
<1>2. x[2] \in Minions
  BY DEF TM
<1>3. C \subseteq Created
  <2>1. ASSUME NEW j \in C PROVE j \in Created
    <3>1. j \in Jids /\ <<j, x[2]>> \in Returns /\ rstat[<<j, x[2]>>] # "none"
      BY <1>1, <1>2 DEF JobsOf, Returns
    <3> QED  BY <3>1 DEF TypeInv, JobsAreOwned
  <2> QED  BY <2>1
<1>4. Dispatched(x) \subseteq C
  <2>1. ASSUME NEW j \in Dispatched(x) PROVE rstat[<<j, x[2]>>] # "none"
    <3>1. j \in JobsOf(x[1]) /\ j \notin lost /\ x[2] \in tgt[j] /\ job[j] # "launch_error"
      BY DEF Dispatched
    <3>2. CASE Settled(j, x[2])
      BY <3>1, <3>2 DEF Settled
    <3>3. CASE ~Settled(j, x[2])
      BY <3>1, <3>3 DEF Open
    <3> QED  BY <3>2, <3>3
  <2> QED  BY <1>1, <2>1 DEF Dispatched
<1>5. IsFiniteSet(C) /\ Cardinality(C) \in Nat
  BY <1>3, FS_Subset, FS_CardinalityType DEF TypeInv
<1>6. Cardinality(Dispatched(x)) \in Nat /\ Cardinality(Dispatched(x)) <= Cardinality(C)
  BY <1>4, <1>5, FS_Subset, FS_CardinalityType
<1>7. ~(Cardinality(C) >= MaxRetries)
  BY <1>1 DEF AfterFailure, CountRuns
<1> QED  BY TaskAssumption, <1>5, <1>6, <1>7 DEF Room

\* What a worker or the jobs watcher has in hand is not worked off.
LEMMA InHandIsOpen ==
    ASSUME TypeInv, Ledger, NEW p \in Returns,
           wk[p] # "idle" \/ (toPc # "idle" /\ p = toRet)
    PROVE  XOf(p) \in TM /\ p[1] \in Open(XOf(p)) /\ rstat[p] \notin {"none", "waiting"}
<1>1. p[1] \in Created /\ p[1] \in Jids /\ p[2] \in Minions /\ p = <<p[1], p[2]>>
  BY DEF TypeInv, JobsAreOwned, Returns
<1>2. XOf(p) \in TM
  BY <1>1, OwnedMinion
<1>3. rstat[p] \notin {"none", "waiting"}
  BY DEF Ledger
<1>4. p[2] \in tgt[p[1]] /\ job[p[1]] \in {"running", "finished"} /\ p[1] \notin lost
  BY <1>1, <1>3 DEF Ledger
<1>5. ~Settled(p[1], p[2])
  <2>1. ~((toPc = "idle" \/ toRet # p) /\ (rcode[p] = "null" \/ (p \in kiqRet /\ wk[p] = "idle")))
    BY DEF Ledger
  <2> QED  BY <1>1, <1>4, <2>1 DEF Settled
<1>6. p[1] \in Open(XOf(p))
  BY <1>1, <1>4, <1>5 DEF Open, XOf, JobsOf
<1> QED  BY <1>2, <1>3, <1>6

-----------------------------------------------------------------------------
\* At first nothing was sent.
LEMMA RunsInit == Init => RunsInv
<1> SUFFICES ASSUME Init PROVE RunsInv
  OBVIOUS
<1>1. \A x \in TM : Open(x) = {} /\ Dispatched(x) = {}
  BY DEF Init, Open, Dispatched, JobsOf, TM
<1>2. 0 <= Limit
  BY TaskAssumption DEF Limit
<1>3. \A x \in TM : MinionRuns(x)
  BY <1>1, <1>2, FS_EmptySet DEF MinionRuns, Room, IsTaken, Init
<1>4. Verdicts
  BY DEF Init, Verdicts, Returns
<1> QED  BY <1>3, <1>4, LedgerInit DEF RunsInv

\* Only the release of locked minions has some at hand.
LEMMA NoneReleased == ASSUME RunsInv, wPc # "release" PROVE wRel = {}
BY DEF RunsInv, Verdicts

\* The watcher releases minions that have nothing to work off.
LEMMA RunsReleases ==
    ASSUME InTime, TypeInv, RunsInv, ReadLocked \/ (\E r \in wRel : ReleaseMinion(r))
    PROVE  RunsInv'
<1>n. [Next]_vars
  BY DEF Next, TasksWatcher
<1>t. tm \in [TM -> TaskMinionStatus] /\ wRel \subseteq TM \X Outcomes
  BY DEF TypeInv, TypeOK
<1>1. UNCHANGED <<owner, tgt, lost, wk, toPc, toRet, old, wTask, wPick>>
  BY DEF ReadLocked, ReleaseMinion
<1>2. \A x \in TM : Open(x)' \subseteq Open(x) /\ Dispatched(x)' \subseteq Dispatched(x)
  BY <1>n, <1>1, NoMoreJobs DEF RunsInv
<1>3. CASE ReadLocked
  <2>1. /\ wPc' = "release" /\ tm' = tm /\ wRel' = {<<x, AfterFailure(x)>> : x \in Locked}
    BY <1>3 DEF ReadLocked
  <2>2. ASSUME NEW r \in wRel'
        PROVE  /\ tm'[r[1]] = "in_work" /\ r[1] \in old'
               /\ r[2] = "pending" => Room(r[1])
    <3>1. PICK x \in Locked : r = <<x, AfterFailure(x)>>
      BY <2>1, <2>2
    <3>2. x \in TM /\ x \in old /\ tm[x] = "in_work"
      BY <3>1 DEF Locked, TypeInv, TypeOK
    <3>3. Open(x) = {}
      BY <3>2 DEF RunsInv, MinionRuns
    <3>4. AfterFailure(x) = "pending" => Room(x)
      BY <3>2, <3>3, FailureLeavesRoom DEF RunsInv
    <3> QED  BY <1>1, <2>1, <3>1, <3>2, <3>4
  <2>3. \A r, s \in wRel' : r[1] = s[1] => r = s
    BY <2>1
  <2>4. \A x \in TM : ~IsTaken(x)'
    BY <2>1 DEF IsTaken
  <2>5. \A x \in TM :
              /\ tm'[x] # "in_work" \/ x \in old' =>
                    tm[x] # "in_work" \/ x \in old \/ Open(x) = {} \/ Open(x)' = {}
              /\ tm'[x] \in {"pending", "busy"} => tm[x] \in {"pending", "busy"} \/ Room(x)
              /\ IsTaken(x)' => tm'[x] = "in_work" /\ x \notin old' /\ Open(x) = {} /\ Room(x)
    BY <1>1, <2>1, <2>4
  <2>6. \A p \in Returns : wk'[p] = "pending" =>
              wk[p] # "idle" /\ (wk[p] = "pending" \/ Room(XOf(p)))
    BY <1>1
  <2> QED  BY <1>n, <1>1, <1>2, <2>1, <2>2, <2>3, <2>5, <2>6, CalmStep
<1>4. ASSUME NEW r \in wRel, ReleaseMinion(r) PROVE RunsInv'
  <2>1. /\ wPc = "release" /\ wPc' = "release" /\ wRel' = wRel \ {r}
        /\ tm' = [tm EXCEPT ![r[1]] = r[2]]
    BY <1>4 DEF ReleaseMinion
  <2>2. r[1] \in TM /\ tm[r[1]] = "in_work" /\ r[1] \in old /\ (r[2] = "pending" => Room(r[1]))
        /\ r[2] \in Outcomes
    BY <1>t DEF RunsInv, Verdicts
  <2>3. /\ tm'[r[1]] = r[2] /\ \A x \in TM \ {r[1]} : tm'[x] = tm[x]
    BY <1>t, <2>1, <2>2
  <2>4. \A s \in wRel' : s[1] # r[1] /\ s \in wRel /\ s[1] \in TM
    BY <1>t, <2>1 DEF RunsInv, Verdicts
  <2>5. \A s \in wRel' : /\ tm'[s[1]] = "in_work" /\ s[1] \in old'
                         /\ s[2] = "pending" => Room(s[1])
    BY <1>1, <2>3, <2>4 DEF RunsInv, Verdicts
  <2>6. \A s, u \in wRel' : s[1] = u[1] => s = u
    BY <2>4 DEF RunsInv, Verdicts
  <2>7. \A x \in TM : ~IsTaken(x)'
    BY <2>1 DEF IsTaken
  <2>8. \A x \in TM :
              /\ tm'[x] # "in_work" \/ x \in old' =>
                    tm[x] # "in_work" \/ x \in old \/ Open(x) = {} \/ Open(x)' = {}
              /\ tm'[x] \in {"pending", "busy"} => tm[x] \in {"pending", "busy"} \/ Room(x)
              /\ IsTaken(x)' => tm'[x] = "in_work" /\ x \notin old' /\ Open(x) = {} /\ Room(x)
    BY <1>1, <2>2, <2>3, <2>7 DEF Outcomes
  <2>9. \A p \in Returns : wk'[p] = "pending" =>
              wk[p] # "idle" /\ (wk[p] = "pending" \/ Room(XOf(p)))
    BY <1>1
  <2> QED  BY <1>n, <1>1, <1>2, <2>1, <2>5, <2>6, <2>8, <2>9, CalmStep
<1> QED  BY <1>3, <1>4

\* The watcher's other steps make nothing to work off of any minion.
LEMMA RunsWatcher ==
    ASSUME InTime, TypeInv, RunsInv,
           \/ ReadTasks \/ (\E q \in wQueue : NextTask(q)) \/ EndPass
           \/ CheckBusy \/ CheckUnbusy \/ CountJobs \/ ReadPending \/ TakeMinions
           \/ Decide \/ CheckStopping \/ UpdateTask \/ WatcherCrash
           \/ (\E q \in wQueue : TtlStop(q))
    PROVE  RunsInv'
<1>n. [Next]_vars
  BY DEF Next, TasksWatcher, HandleTask
<1>t. tm \in [TM -> TaskMinionStatus] /\ wTask \in Tasks
  BY DEF TypeInv, TypeOK
<1>1. UNCHANGED <<owner, tgt, lost, wk, toPc, toRet>>
  BY DEF ReadTasks, NextTask, EndPass, CheckBusy, CheckUnbusy, CountJobs, ReadPending, TakeMinions,
     Decide, DecideOn, CheckStopping, StopUnless, UpdateTask, WatcherCrash, TtlStop, Stop
<1>2. wRel' = {}
  BY NoneReleased DEF ReadTasks, NextTask, EndPass, CheckBusy, CheckUnbusy, CountJobs, ReadPending,
     TakeMinions, Decide, DecideOn, CheckStopping, StopUnless, UpdateTask, WatcherCrash,
     WatcherStops, TtlStop
<1>i. \A x \in TM : MinionRuns(x)
  BY DEF RunsInv
<1> DEFINE Fine ==
      \A x \in TM :
              /\ tm'[x] # "in_work" \/ x \in old' => tm[x] # "in_work" \/ x \in old \/ Open(x) = {}
              /\ tm'[x] \in {"pending", "busy"} => tm[x] \in {"pending", "busy"} \/ Room(x)
              /\ IsTaken(x)' => tm'[x] = "in_work" /\ x \notin old' /\ Open(x) = {} /\ Room(x)
<1>3. ASSUME ReadTasks \/ (\E q \in wQueue : NextTask(q)) \/ EndPass \/ CountJobs \/ ReadPending \/
             Decide \/ CheckStopping \/ UpdateTask \/ WatcherCrash
      PROVE  Fine
  <2>1. UNCHANGED <<tm, old>> /\ wPc' # "create"
    BY <1>3 DEF ReadTasks, NextTask, EndPass, CountJobs, ReadPending, Decide, DecideOn,
       CheckStopping, StopUnless, UpdateTask, WatcherCrash, WatcherStops
  <2> QED  BY <2>1 DEF IsTaken
<1>4. ASSUME CheckBusy \/ CheckUnbusy \/ (\E q \in wQueue : TtlStop(q)) PROVE Fine
  <2>1. /\ old' = old /\ wPc' # "create"
        /\ \A x \in TM : tm'[x] = tm[x] \/
              (tm[x] \in {"pending", "busy"} /\ tm'[x] \in {"pending", "busy"})
    BY <1>4 DEF CheckBusy, CheckUnbusy, TtlStop, Stop
  <2> QED  BY <2>1 DEF IsTaken
<1>5. ASSUME TakeMinions PROVE Fine
  <2>1. /\ wTask' = wTask /\ wPick' \subseteq Pending(wTask) /\ old' = old \ ({wTask} \X wPick')
        /\ \A x \in TM : tm'[x] = IF x[1] = wTask /\ x[2] \in wPick' THEN "in_work" ELSE tm[x]
    BY <1>5 DEF TakeMinions
  <2>2. ASSUME NEW x \in TM, x[1] = wTask, x[2] \in wPick'
        PROVE  /\ tm[x] = "pending" /\ tm'[x] = "in_work" /\ x \notin old'
               /\ Open(x) = {} /\ Room(x)
    <3>1. x = <<wTask, x[2]>>
      BY <2>2 DEF TM
    <3>2. tm[x] = "pending"
      BY <2>1, <2>2, <3>1 DEF Pending
    <3>3. x \notin old'
      BY <2>1, <2>2, <3>1
    <3> QED  BY <1>i, <2>1, <2>2, <3>2, <3>3 DEF MinionRuns
  <2>3. \A x \in TM : IsTaken(x)' => x[1] = wTask /\ x[2] \in wPick'
    BY <2>1 DEF IsTaken
  <2>4. \A x \in TM : x \in old' => x \in old
    BY <2>1
  <2> QED  BY <2>1, <2>2, <2>3, <2>4
<1>6. Fine
  BY <1>3, <1>4, <1>5
<1> QED  BY <1>n, <1>1, <1>2, <1>6, WatcherStep

\* Users only run tasks, which is no matter to the minions.
LEMMA RunsUser == ASSUME InTime, TypeInv, RunsInv, User PROVE RunsInv'
<1>n. [Next]_vars
  BY DEF Next
<1>1. ops = 0 /\ rPc = "idle"
  BY TaskAssumption DEF InTime, TypeInv, TypeOK, RunsInv, Ledger
<1>2. UNCHANGED <<owner, tgt, lost, tm, old, wPc, wTask, wPick, wRel, wk, toPc, toRet>>
  BY <1>1 DEF User, UserStop, RunTask, RestartRead, RestartMinions, RestartStatus, InTime
<1>3. \A p \in Returns : wk'[p] = "pending" =>
              wk[p] # "idle" /\ (wk[p] = "pending" \/ Room(XOf(p)))
  BY <1>2
<1> QED  BY <1>n, <1>2, <1>3, QuietStep

\* What a worker or the jobs watcher makes of a failure leaves room for the next job.
LEMMA WorkLeavesRoom ==
    ASSUME TypeInv, RunsInv, NEW p \in Returns, wk[p] # "idle" \/ (toPc # "idle" /\ p = toRet),
           AfterFailure(XOf(p)) = "pending"
    PROVE  Room(XOf(p))
<1>1. PICK x \in TM : x = XOf(p)
  BY InHandIsOpen DEF RunsInv
<1>2. p[1] \in Open(x) /\ rstat[p] \notin {"none", "waiting"}
  BY <1>1, InHandIsOpen DEF RunsInv
<1>3. p = <<p[1], x[2]>>
  BY <1>1 DEF Returns, XOf
<1>4. \A j \in Open(x) : j = p[1]
  BY <1>1, <1>2 DEF RunsInv, MinionRuns
<1>5. \A j \in Open(x) : rstat[<<j, x[2]>>] # "none"
  BY <1>2, <1>3, <1>4
<1> QED  BY <1>1, <1>5, FailureLeavesRoom DEF RunsInv

\* Jobs, answers and messages are no matter to the minions until they are worked off.
LEMMA RunsQuiet ==
    ASSUME InTime, TypeInv, RunsInv,
           \/ \E j \in Jids : Launch(j) \/ Relaunch(j) \/ JobSteps(j)
           \/ \E p \in Returns : MinionAnswers(p) \/ TellReturn(p) \/ ReadReturn(p) \/ TimeoutReturn(p)
           \/ LoseMessage \/ TimeoutRead \/ UNCHANGED vars
    PROVE  RunsInv'
<1>n. [Next]_vars
  BY DEF Next, Worker
<1>t. /\ wk \in [Returns -> {"idle", "queued"} \cup Outcomes] /\ (toPc # "idle" => toRet \in Returns)
  BY DEF TypeInv, TypeOK
<1>1. UNCHANGED <<owner, tgt, lost, tm, old, wPc, wTask, wPick, wRel>>
  BY DEF Launch, Relaunch, JobSteps, ReturnsCreated, FinishJob, TellError, MinionAnswers, TellReturn,
     ReadReturn, TimeoutReturn, LoseMessage, TimeoutRead, vars
<1>2. \A p \in Returns : wk'[p] = "pending" => wk[p] # "idle" /\ (wk[p] = "pending" \/ Room(XOf(p)))
  <2>1. ASSUME NEW q \in Returns, ReadReturn(q), NEW p \in Returns, wk'[p] = "pending"
        PROVE  wk[p] # "idle" /\ (wk[p] = "pending" \/ Room(XOf(p)))
    <3>1. p # q => wk[p] = "pending"
      BY <1>t, <2>1 DEF ReadReturn
    <3>2. p = q => wk[p] = "queued" /\ AfterFailure(XOf(p)) = "pending"
      BY <1>t, <2>1 DEF ReadReturn
    <3> QED  BY <3>1, <3>2, WorkLeavesRoom
  <2>2. ASSUME NEW q \in Returns, TellReturn(q), NEW p \in Returns, wk'[p] = "pending"
        PROVE  wk[p] = "pending"
    BY <1>t, <2>2 DEF TellReturn
  <2>3. ASSUME LoseMessage, NEW p \in Returns, wk'[p] = "pending" PROVE wk[p] = "pending"
    BY <1>t, <2>3 DEF LoseMessage
  <2>4. CASE wk' = wk
    BY <2>4
  <2>5. \/ wk' = wk \/ LoseMessage \/ \E q \in Returns : ReadReturn(q) \/ TellReturn(q)
    BY DEF Launch, Relaunch, JobSteps, ReturnsCreated, FinishJob, TellError, MinionAnswers,
       TimeoutReturn, TimeoutRead, vars
  <2> QED  BY <2>1, <2>2, <2>3, <2>4, <2>5
<1>3. toPc' = "pending" =>
              toPc # "idle" /\ toRet' = toRet /\ (toPc = "pending" \/ Room(XOf(toRet)))
  <2>1. CASE TimeoutRead
    <3>1. ASSUME toPc' = "pending" PROVE toPc = "read" /\ AfterFailure(XOf(toRet)) = "pending"
      BY <2>1, <3>1 DEF TimeoutRead
    <3> QED  BY <1>t, <2>1, <3>1, WorkLeavesRoom DEF TimeoutRead
  <2>2. CASE UNCHANGED tovars \/ toPc' = "read"
    BY <2>2
  <2>3. TimeoutRead \/ UNCHANGED tovars \/ toPc' = "read"
    BY DEF Launch, Relaunch, JobSteps, ReturnsCreated, FinishJob, TellError, MinionAnswers, TellReturn,
       ReadReturn, TimeoutReturn, LoseMessage, vars
  <2> QED  BY <2>1, <2>2, <2>3
<1> QED  BY <1>n, <1>1, <1>2, <1>3, QuietStep

\* Minions are written whose last job is worked off by it.
LEMMA WorkedOff ==
    ASSUME InTime, TypeInv, RunsInv, [Next]_vars,
           UNCHANGED <<owner, tgt, lost, old, wPc, wTask, wPick, wRel>>,
           \A x \in TM : \/ tm'[x] = tm[x]
                         \/ /\ Open(x) # {} /\ Open(x)' = {}
                            /\ tm'[x] \in {"pending", "busy"} => Room(x),
           \A p \in Returns : wk'[p] = "pending" => wk[p] = "pending",
           toPc' = "pending" => toPc = "pending" /\ toRet' = toRet
    PROVE  RunsInv'
<1>1. \A x \in TM : Open(x)' \subseteq Open(x) /\ Dispatched(x)' \subseteq Dispatched(x)
  BY NoMoreJobs DEF RunsInv
<1>2. \A x \in TM : MinionRuns(x)
  BY DEF RunsInv
<1>3. \A x \in TM : Open(x) = {} => tm'[x] = tm[x]
  OBVIOUS
<1>4. \A x \in TM :
              /\ tm'[x] # "in_work" \/ x \in old' =>
                    tm[x] # "in_work" \/ x \in old \/ Open(x) = {} \/ Open(x)' = {}
              /\ tm'[x] \in {"pending", "busy"} => tm[x] \in {"pending", "busy"} \/ Room(x)
              /\ IsTaken(x)' => tm'[x] = "in_work" /\ x \notin old' /\ Open(x) = {} /\ Room(x)
  <2>1. ASSUME NEW x \in TM, IsTaken(x)' PROVE tm'[x] = "in_work" /\ x \notin old' /\ Open(x) = {} /\ Room(x)
    BY <1>2, <1>3, <2>1 DEF IsTaken, MinionRuns
  <2>2. ASSUME NEW x \in TM, tm'[x] # "in_work" \/ x \in old'
        PROVE  tm[x] # "in_work" \/ x \in old \/ Open(x) = {} \/ Open(x)' = {}
    BY <2>2
  <2> QED  BY <2>1, <2>2
<1>5. ASSUME NEW r \in wRel' PROVE /\ wPc' = "release" /\ tm'[r[1]] = "in_work" /\ r[1] \in old'
                                   /\ r[2] = "pending" => Room(r[1])
  <2>1. r \in wRel /\ wPc = "release" /\ tm[r[1]] = "in_work" /\ r[1] \in old
        /\ (r[2] = "pending" => Room(r[1]))
    BY DEF RunsInv, Verdicts
  <2>2. r[1] \in TM
    BY <2>1 DEF TypeInv, TypeOK
  <2>3. Open(r[1]) = {}
    BY <1>2, <2>1, <2>2 DEF MinionRuns
  <2> QED  BY <1>3, <2>1, <2>2, <2>3
<1>6. \A r, s \in wRel' : r[1] = s[1] => r = s
  BY DEF RunsInv, Verdicts
<1>7. \A i \in Created : owner'[i] = owner[i]
  OBVIOUS
<1> QED  BY <1>1, <1>4, <1>5, <1>6, <1>7, CalmStep

\* A return is worked off by the worker that read it, or by the jobs watcher.
LEMMA RunsWriteReturn ==
    ASSUME InTime, TypeInv, RunsInv, NEW p \in Returns,
           WriteReturn(p) \/ (TimeoutWrite /\ p = toRet)
    PROVE  RunsInv'
<1>n. [Next]_vars
  BY DEF Next, Worker
<1>t. /\ wk \in [Returns -> {"idle", "queued"} \cup Outcomes]
      /\ tm \in [TM -> TaskMinionStatus]
  BY DEF TypeInv, TypeOK
<1>1. wk[p] # "idle" \/ (toPc # "idle" /\ p = toRet)
  BY DEF WriteReturn, TimeoutWrite, Outcomes
<1>2. PICK x \in TM : x = XOf(p)
  BY <1>1, InHandIsOpen DEF RunsInv
<1>3. p[1] \in Open(x) /\ rstat[p] \notin {"none", "waiting"}
  BY <1>1, <1>2, InHandIsOpen DEF RunsInv
<1>4. \A j \in Open(x) : j = p[1]
  BY <1>2, <1>3 DEF RunsInv, MinionRuns
<1>5. UNCHANGED <<owner, tgt, lost, old, wPc, wTask, wPick, wRel, lvars, toRet>>
  BY DEF WriteReturn, TimeoutWrite
<1>6. p = <<p[1], x[2]>> /\ p[1] \in Jids /\ x[2] \in Minions
  BY <1>2 DEF Returns, XOf
<1>7. Settled(p[1], x[2])'
  <2>1. CASE WriteReturn(p)
    <3>1. /\ rstat[p] \in Answered /\ rcode[p] # "null" /\ p \in kiqRet
          /\ toPc # "idle" => rstat[toRet] = "timeout"
      BY <2>1 DEF WriteReturn, Outcomes, RunsInv, Ledger
    <3>2. toPc' = toPc /\ wk'[p] = "idle"
      BY <1>t, <2>1 DEF WriteReturn
    <3>3. toPc' = "idle" \/ toRet' # p
      BY <1>5, <3>1, <3>2
    <3> QED  BY <1>3, <1>5, <1>6, <3>1, <3>2, <3>3 DEF Settled
  <2>2. CASE TimeoutWrite /\ p = toRet
    <3>1. rstat[p] = "timeout" /\ rcode[p] = "null" /\ toPc' = "idle"
      BY <2>2 DEF TimeoutWrite, Outcomes, RunsInv, Ledger
    <3> QED  BY <1>5, <1>6, <3>1 DEF Settled
  <2> QED  BY <2>1, <2>2
<1>8. Open(x)' = {}
  <2>1. Open(x)' \subseteq Open(x)
    BY <1>n, <1>5, NoMoreJobs DEF RunsInv
  <2>2. p[1] \notin Open(x)'
    BY <1>7 DEF Open
  <2> QED  BY <1>4, <2>1, <2>2
<1>9. \A y \in TM \ {x} : tm'[y] = tm[y]
  BY <1>t, <1>2 DEF WriteReturn, TimeoutWrite
<1>10. tm'[x] \in {"pending", "busy"} => Room(x)
  <2>1. CASE WriteReturn(p)
    <3>1. tm'[x] = wk[p] /\ wk[p] \in Outcomes
      BY <1>t, <1>2, <2>1 DEF WriteReturn
    <3>2. wk[p] = "pending" => Room(x)
      BY <1>2 DEF RunsInv, Verdicts
    <3> QED  BY <3>1, <3>2 DEF Outcomes
  <2>2. CASE TimeoutWrite /\ p = toRet
    <3>1. tm'[x] = toPc /\ toPc \in Outcomes
      BY <1>t, <1>2, <2>2 DEF TimeoutWrite
    <3>2. toPc = "pending" => Room(x)
      BY <1>2, <2>2 DEF RunsInv, Verdicts
    <3> QED  BY <3>1, <3>2 DEF Outcomes
  <2> QED  BY <2>1, <2>2
<1>11. \A y \in TM : \/ tm'[y] = tm[y]
                     \/ /\ Open(y) # {} /\ Open(y)' = {}
                        /\ tm'[y] \in {"pending", "busy"} => Room(y)
  BY <1>3, <1>8, <1>9, <1>10
<1>12. /\ \A r \in Returns : wk'[r] = "pending" => wk[r] = "pending"
       /\ toPc' = "pending" => toPc = "pending" /\ toRet' = toRet
  BY <1>t, <1>5 DEF WriteReturn, TimeoutWrite
<1> QED  BY <1>n, <1>5, <1>11, <1>12, WorkedOff

\* The error of a job is worked off for all its minions.
LEMMA RunsWorkError ==
    ASSUME InTime, TypeInv, RunsInv, NEW j \in Jids, WorkError(j)
    PROVE  RunsInv'
<1>n. [Next]_vars
  BY DEF Next
<1>1. /\ j \in errQ /\ errQ' = errQ \ {j}
      /\ UNCHANGED <<lvars, owner, tgt, lost, old, wPc, wTask, wPick, wRel, wk, toPc, toRet>>
      /\ \A x \in TM : tm'[x] = IF x[1] = owner[j] /\ x[2] \in tgt[j] THEN "failed" ELSE tm[x]
  BY DEF WorkError
<1>2. j \in kiqErr /\ job[j] = "launch_error" /\ j \notin lost
  BY <1>1 DEF RunsInv, Ledger
<1>3. ASSUME NEW x \in TM, x[1] = owner[j], x[2] \in tgt[j]
      PROVE  Open(x) # {} /\ Open(x)' = {}
  <2>1. rstat[<<j, x[2]>>] = "none"
    <3>1. <<j, x[2]>> \in Returns
      BY DEF Returns, TM
    <3> QED  BY <1>2, <3>1 DEF RunsInv, Ledger
  <2>2. j \in Open(x)
    BY <1>1, <1>2, <1>3, <2>1 DEF Open, JobsOf, Settled
  <2>3. \A i \in Open(x) : i = j
    BY <2>2 DEF RunsInv, MinionRuns
  <2>4. j \notin Open(x)'
    BY <1>1, <1>2 DEF Open, Settled
  <2>5. Open(x)' \subseteq Open(x)
    BY <1>n, <1>1, NoMoreJobs DEF RunsInv
  <2> QED  BY <2>2, <2>3, <2>4, <2>5
<1>4. \A x \in TM : \/ tm'[x] = tm[x]
                    \/ /\ Open(x) # {} /\ Open(x)' = {}
                       /\ tm'[x] \in {"pending", "busy"} => Room(x)
  <2>1. ASSUME NEW x \in TM
        PROVE  tm'[x] = tm[x] \/ (tm'[x] = "failed" /\ Open(x) # {} /\ Open(x)' = {})
    BY <1>1, <1>3
  <2> QED  BY <2>1
<1> QED  BY <1>n, <1>1, <1>4, WorkedOff

\* A minion is in work for long only if there is nothing to work off.
LEMMA RunsGetsOld ==
    ASSUME InTime, TypeInv, RunsInv, NEW y \in TM, GetsOld(y)
    PROVE  RunsInv'
<1>n. [Next]_vars
  BY DEF Next
<1>1. /\ tm[y] = "in_work" /\ y \notin old /\ old' = old \cup {y}
      /\ \A j \in JobsOf(y[1]) : y[2] \in tgt[j] => Settled(j, y[2])
      /\ wPc = "create" => y \notin {wTask} \X wPick
      /\ UNCHANGED <<owner, tgt, lost, tm, wPc, wTask, wPick, wRel, wk, toPc, toRet>>
  BY DEF GetsOld, InTime
<1>2. Open(y) = {}
  BY <1>1 DEF Open
<1>3. \A x \in TM : Open(x)' \subseteq Open(x) /\ Dispatched(x)' \subseteq Dispatched(x)
  BY <1>n, <1>1, NoMoreJobs DEF RunsInv
<1>4. ~IsTaken(y)
  <2>1. y = <<y[1], y[2]>>
    BY DEF TM
  <2> QED  BY <1>1, <2>1 DEF IsTaken
<1>5. \A x \in TM :
              /\ tm'[x] # "in_work" \/ x \in old' =>
                    tm[x] # "in_work" \/ x \in old \/ Open(x) = {} \/ Open(x)' = {}
              /\ tm'[x] \in {"pending", "busy"} => tm[x] \in {"pending", "busy"} \/ Room(x)
              /\ IsTaken(x)' => tm'[x] = "in_work" /\ x \notin old' /\ Open(x) = {} /\ Room(x)
  <2>1. ASSUME NEW x \in TM, IsTaken(x)'
        PROVE  tm'[x] = "in_work" /\ x \notin old' /\ Open(x) = {} /\ Room(x)
    <3>1. IsTaken(x)
      BY <1>1, <2>1 DEF IsTaken
    <3> QED  BY <1>1, <1>4, <3>1 DEF RunsInv, MinionRuns
  <2> QED  BY <1>1, <1>2, <2>1
<1>6. \A p \in Returns : wk'[p] = "pending" =>
              wk[p] # "idle" /\ (wk[p] = "pending" \/ Room(XOf(p)))
  BY <1>1
<1>7. /\ \A r \in wRel' : /\ wPc' = "release" /\ tm'[r[1]] = "in_work" /\ r[1] \in old'
                          /\ r[2] = "pending" => Room(r[1])
      /\ \A r, s \in wRel' : r[1] = s[1] => r = s
  BY <1>1 DEF RunsInv, Verdicts
<1> QED  BY <1>n, <1>1, <1>3, <1>5, <1>6, <1>7, CalmStep

\* A new job is one more for the minions it is created for, unless it is lost.
LEMMA NewJobAddsOne ==
    ASSUME TypeInv, Ledger, NEW j \in Jids, NewJob(j), lost' = lost \/ lost' = lost \cup {j},
           UNCHANGED <<wk, errQ, toPc, toRet>>, NEW x \in TM
    PROVE  /\ Open(x)' \subseteq Open(x) \cup {j} /\ Dispatched(x)' \subseteq Dispatched(x) \cup {j}
           /\ j \in lost' \/ x[1] # wTask \/ x[2] \notin wPick =>
                 Open(x)' \subseteq Open(x) /\ Dispatched(x)' \subseteq Dispatched(x)
<1>t. /\ job \in [Jids -> JobStatus \cup {"none"}] /\ owner \in [Jids -> Tasks \cup {None}]
      /\ tgt \in [Jids -> SUBSET Minions]
  BY DEF TypeInv, TypeOK, LTypeOK
<1>1. /\ owner'[j] = wTask /\ tgt'[j] = wPick
      /\ \A i \in Jids \ {j} : job'[i] = job[i] /\ owner'[i] = owner[i] /\ tgt'[i] = tgt[i]
      /\ UNCHANGED <<rstat, rcode, kiqRet, kiqErr>>
  BY <1>t DEF NewJob, Create
<1>2. ASSUME NEW i \in Jids, i # j PROVE Settled(i, x[2])' <=> Settled(i, x[2])
  <2>1. (i \in lost') <=> (i \in lost)
    BY <1>2
  <2> QED  BY <1>1, <1>2, <2>1 DEF Settled
<1>3. ASSUME NEW i \in Open(x)', i # j PROVE i \in Open(x)
  <2>1. i \in Jids /\ owner'[i] = x[1] /\ x[2] \in tgt'[i] /\ ~Settled(i, x[2])'
    BY DEF Open, JobsOf
  <2> QED  BY <1>1, <1>2, <1>3, <2>1 DEF Open, JobsOf
<1>4. ASSUME NEW i \in Dispatched(x)', i # j PROVE i \in Dispatched(x)
  <2>1. i \in Jids /\ owner'[i] = x[1] /\ x[2] \in tgt'[i] /\ i \notin lost' /\ job'[i] # "launch_error"
    BY DEF Dispatched, JobsOf
  <2> QED  BY <1>1, <1>4, <2>1 DEF Dispatched, JobsOf
<1>5. j \in lost' \/ x[1] # wTask \/ x[2] \notin wPick => j \notin Open(x)' /\ j \notin Dispatched(x)'
  BY <1>1 DEF Open, Dispatched, JobsOf, Settled
<1> QED  BY <1>3, <1>4, <1>5

\* A job is created for minions that have room for it and nothing to work off.
LEMMA RunsCreateJob ==
    ASSUME InTime, TypeInv, RunsInv, NEW j \in Jids, CreateJob(j)
    PROVE  RunsInv'
<1>n. [Next]_vars
  BY DEF Next, TasksWatcher, HandleTask
<1>1. /\ wPc = "create" /\ wPc' # "create" /\ wPc' # "release" /\ NewJob(j)
      /\ UNCHANGED <<tm, old, lost, wRel, wk, errQ, toPc, toRet>>
  BY DEF CreateJob
<1>2. Ledger' /\ TypeInv' /\ wRel = {}
  BY <1>n, <1>1, LedgerNext, TypeNext, NoneReleased DEF RunsInv
<1>3. ASSUME NEW x \in TM PROVE MinionRuns(x)
  BY <1>3 DEF RunsInv
<1>4. ASSUME NEW x \in TM
      PROVE  /\ Open(x)' \subseteq Open(x) \cup {j} /\ Dispatched(x)' \subseteq Dispatched(x) \cup {j}
             /\ ~IsTaken(x) => Open(x)' \subseteq Open(x) /\ Dispatched(x)' \subseteq Dispatched(x)
  BY <1>1, <1>4, NewJobAddsOne DEF RunsInv, IsTaken
<1>5. ASSUME NEW x \in TM, ~IsTaken(x) PROVE (Room(x) => Room(x)') /\ MinionRuns(x)'
  <2>1. Open(x)' \subseteq Open(x) /\ Dispatched(x)' \subseteq Dispatched(x)
    BY <1>4, <1>5
  <2>2. Room(x) => Room(x)'
    BY <2>1, FewerJobs DEF RunsInv
  <2>3. Cardinality(Dispatched(x)') <= Limit
    BY <1>3, <2>1, FewerJobs DEF RunsInv, MinionRuns
  <2>4. ~IsTaken(x)'
    BY <1>1 DEF IsTaken
  <2>5. /\ tm'[x] # "in_work" \/ x \in old' => Open(x)' = {}
        /\ tm'[x] \in {"pending", "busy"} => Room(x)'
        /\ \A i, k \in Open(x)' : i = k
    BY <1>1, <1>3, <2>1, <2>2 DEF MinionRuns
  <2> QED  BY <2>2, <2>3, <2>4, <2>5 DEF MinionRuns, Limit
<1>6. ASSUME NEW x \in TM, IsTaken(x) PROVE MinionRuns(x)'
  <2>1. tm[x] = "in_work" /\ x \notin old /\ Open(x) = {} /\ Room(x)
    BY <1>3, <1>6 DEF MinionRuns
  <2>2. Cardinality(Dispatched(x)') <= Limit
    <3>1. PICK n \in Nat : n = Cardinality(Dispatched(x))
      BY DispatchedIsFinite DEF RunsInv
    <3>2. PICK D : D = Dispatched(x) \cup {j}
      OBVIOUS
    <3>3. IsFiniteSet(D) /\ Cardinality(D) \in Nat /\ Cardinality(D) <= n + 1
      BY <3>1, <3>2, DispatchedIsFinite, FS_AddElement DEF RunsInv
    <3>4. Cardinality(Dispatched(x)') <= n + 1 /\ Cardinality(Dispatched(x)') \in Nat
      <4>1. Dispatched(x)' \subseteq D
        BY <1>4, <3>2
      <4>2. Cardinality(Dispatched(x)') \in Nat /\ Cardinality(Dispatched(x)') <= Cardinality(D)
        BY <3>3, <4>1, FS_Subset, FS_CardinalityType
      <4> QED  BY <3>1, <3>3, <4>2
    <3>5. n = 0 \/ n < MaxRetries
      BY <2>1, <3>1, FS_EmptySet DEF Room
    <3>6. n + 1 <= Limit /\ Limit \in Nat
      BY TaskAssumption, <3>1, <3>5 DEF Limit
    <3> QED  BY <3>1, <3>4, <3>6
  <2>3. ~IsTaken(x)'
    BY <1>1 DEF IsTaken
  <2>4. \A i, k \in Open(x)' : i = k
    BY <1>4, <2>1
  <2>5. tm'[x] = "in_work" /\ x \notin old'
    BY <1>1, <2>1
  <2> QED  BY <2>2, <2>3, <2>4, <2>5 DEF MinionRuns, Limit
<1>7. ASSUME NEW p \in Returns, wk[p] # "idle" \/ (toPc # "idle" /\ p = toRet), Room(XOf(p))
      PROVE  Room(XOf(p))'
  <2>1. PICK x \in TM : x = XOf(p) /\ p[1] \in Open(x)
    BY <1>7, InHandIsOpen DEF RunsInv
  <2>2. ~IsTaken(x)
    BY <1>3, <2>1 DEF MinionRuns
  <2>3. Room(x)'
    BY <1>5, <1>7, <2>1, <2>2
  <2>4. p[1] \in Jids /\ job[p[1]] # "none"
    BY <1>7 DEF TypeInv, JobsAreOwned, Created
  <2>5. XOf(p)' = x
    BY <1>1, <2>1, <2>4 DEF XOf, NewJob, Create, TypeInv, TypeOK
  <2> QED  BY <2>3, <2>5 DEF Room, Dispatched, JobsOf
<1>8. \A p \in Returns : wk'[p] = "pending" => Room(XOf(p))'
  BY <1>1, <1>7 DEF RunsInv, Verdicts
<1>9. toPc' = "pending" => Room(XOf(toRet))'
  <2>1. ASSUME toPc = "pending" PROVE Room(XOf(toRet))'
    <3>1. PICK p \in Returns : p = toRet /\ p = toRet'
      BY <1>1, <2>1 DEF TypeInv, TypeOK
    <3>2. Room(XOf(p))'
      BY <1>7, <2>1, <3>1 DEF RunsInv, Verdicts
    <3> QED  BY <3>1, <3>2 DEF Room, Dispatched, JobsOf, XOf
  <2> QED  BY <1>1, <2>1
<1>10. Verdicts'
  BY <1>1, <1>2, <1>8, <1>9 DEF Verdicts
<1> QED  BY <1>2, <1>5, <1>6, <1>10 DEF RunsInv

\* The minions of a job that could not be created are put back; the job is lost.
LEMMA RunsCreateJobRaises ==
    ASSUME InTime, TypeInv, RunsInv, CreateJobRaises
    PROVE  RunsInv'
<1>n. [Next]_vars
  BY DEF Next
<1>1. /\ wPc = "create" /\ wPc' = "idle" /\ wRel' = {}
      /\ UNCHANGED <<old, wk, errQ, toPc, toRet>>
      /\ \A x \in TM : tm'[x] = IF x[1] = wTask /\ x[2] \in wPick THEN "pending" ELSE tm[x]
  BY DEF CreateJobRaises, WatcherStops
<1>2. \A x \in TM :
              /\ tm'[x] # "in_work" \/ x \in old' => tm[x] # "in_work" \/ x \in old \/ Open(x) = {}
              /\ tm'[x] \in {"pending", "busy"} => tm[x] \in {"pending", "busy"} \/ Room(x)
              /\ IsTaken(x)' => tm'[x] = "in_work" /\ x \notin old' /\ Open(x) = {} /\ Room(x)
  <2>1. \A x \in TM : ~IsTaken(x)' /\ (IsTaken(x) => Open(x) = {} /\ Room(x))
                      /\ (~IsTaken(x) => tm'[x] = tm[x])
    BY <1>1 DEF IsTaken, RunsInv, MinionRuns
  <2> QED  BY <1>1, <2>1
<1>3. CASE UNCHANGED <<lvars, jvars>>
  BY <1>n, <1>1, <1>2, <1>3, WatcherStep
<1>4. ASSUME NEW j \in Jids, NewJob(j), lost' = lost \cup {j} PROVE RunsInv'
  <2>1. \A x \in TM : Open(x)' \subseteq Open(x) /\ Dispatched(x)' \subseteq Dispatched(x)
    BY <1>1, <1>4, NewJobAddsOne DEF RunsInv
  <2>2. \A i \in Created : owner'[i] = owner[i]
    BY <1>4 DEF NewJob, Create, Created, TypeInv, TypeOK
  <2>3. \A p \in Returns : wk'[p] = "pending" =>
              wk[p] # "idle" /\ (wk[p] = "pending" \/ Room(XOf(p)))
    BY <1>1
  <2> QED  BY <1>n, <1>1, <1>2, <2>1, <2>2, <2>3, CalmStep
<1> QED  BY <1>3, <1>4 DEF CreateJobRaises

\* No step sends a minion more jobs than it may be sent.
LEMMA RunsNext == ASSUME InTime, TypeInv, RunsInv, [Next]_vars PROVE RunsInv'
<1>1. CASE TasksWatcher
  <2>1. CASE \E j \in Jids : CreateJob(j)
    BY <2>1, RunsCreateJob
  <2>2. CASE ReadLocked \/ \E r \in wRel : ReleaseMinion(r)
    BY <2>2, RunsReleases
  <2>3. CASE \/ ReadTasks \/ (\E q \in wQueue : NextTask(q)) \/ EndPass
             \/ CheckBusy \/ CheckUnbusy \/ CountJobs \/ ReadPending \/ TakeMinions
             \/ Decide \/ CheckStopping \/ UpdateTask
    BY <2>3, RunsWatcher
  <2> QED  BY <1>1, <2>1, <2>2, <2>3 DEF TasksWatcher, HandleTask
<1>2. CASE WatcherCrash \/ \E q \in wQueue : TtlStop(q)
  BY <1>2, RunsWatcher
<1>3. CASE CreateJobRaises \/ User
  BY <1>3, RunsCreateJobRaises, RunsUser
<1>4. CASE \E j \in Jids : Launch(j) \/ Relaunch(j) \/ JobSteps(j) \/ WorkError(j)
  BY <1>4, RunsQuiet, RunsWorkError
<1>5. ASSUME NEW p \in Returns, MinionAnswers(p) \/ TellReturn(p) \/ Worker(p) \/ TimeoutReturn(p)
      PROVE  RunsInv'
  <2>1. CASE WriteReturn(p)
    BY <2>1, RunsWriteReturn
  <2> QED  BY <1>5, <2>1, RunsQuiet DEF Worker
<1>6. CASE TimeoutWrite
  <2>1. toRet \in Returns
    BY <1>6 DEF TimeoutWrite, Outcomes, TypeInv, TypeOK
  <2> QED  BY <1>6, <2>1, RunsWriteReturn
<1>7. CASE LoseMessage \/ TimeoutRead \/ UNCHANGED vars
  BY <1>7, RunsQuiet
<1>8. CASE \E x \in TM : GetsOld(x)
  BY <1>8, RunsGetsOld
<1> QED  BY <1>1, <1>2, <1>3, <1>4, <1>5, <1>6, <1>7, <1>8 DEF Next

\* If answers come in time and users only run tasks, RunsInv holds throughout.
THEOREM RunsAreCounted == ASSUME InTime PROVE Spec => []RunsInv
<1>1. TypeInv /\ RunsInv /\ [Next]_vars => RunsInv'
  BY RunsNext
<1> QED  BY <1>1, RunsInit, TaskTypes, PTL DEF Spec

\* Then a minion is not sent the task's job more than max_retries times.
THEOREM RunsStayBounded == ASSUME InTime PROVE Spec => []RunsBounded
<1>1. RunsInv => RunsBounded
  BY DEF RunsInv, MinionRuns, RunsBounded, Limit
<1> QED  BY <1>1, RunsAreCounted, PTL
-----------------------------------------------------------------------------
(* How often an event is handled. *)

EventsTyped ==
    /\ buffer \in Seq(Message) /\ batch \in Seq(Message) /\ sent \in Seq(Message)
    /\ work \in [EventWorkers -> Work \cup {NoEvent}] /\ attempts \in [Events -> Nat]
    /\ over \subseteq Events /\ doubled \subseteq Events /\ dropped \subseteq Events
    /\ eventFaults \in 0..MaxFaults

\* The tries of an event that are left to the messages of a list, and to the workers:
\* one for each message and each number of its coming tries.
Numbers == 1..Retries
TriesIn(s, e) == {x \in (DOMAIN s) \X Numbers : s[x[1]].event = e /\ s[x[1]].retries < x[2]}
TriesAt(W, e) == {x \in EventWorkers \X Numbers :
    W[x[1]] # NoEvent /\ W[x[1]].event = e /\ W[x[1]].retries + 1 < x[2]}
Tries(s, e) == Cardinality(TriesIn(s, e))
Held(W, e) == Cardinality(TriesAt(W, e))
Left(e) == Tries(buffer, e) + Tries(batch, e) + Tries(sent, e) + Held(work, e)
\* The same of one message, and of what a worker has.
TriesOf(m, e) == IF m.event = e THEN Retries - m.retries ELSE 0
TriesAfter(v, e) == IF v # NoEvent /\ v.event = e THEN Retries - v.retries - 1 ELSE 0

Bound(D, f, e) == Retries * (IF e \in D THEN 1 + f ELSE 1) + f

AttemptsInv ==
    \A e \in Events : /\ attempts[e] + Left(e) <= Bound(doubled, eventFaults, e)
                      /\ e \notin Seen => attempts[e] = 0
EventsInv == EventsTyped /\ AttemptsInv

\* What a pair of a list's place and of something else is.
LEMMA IsPlace ==
    ASSUME NEW s, NEW B
    PROVE  \A x : x \in (DOMAIN s) \X B <=> x = <<x[1], x[2]>> /\ x[1] \in DOMAIN s /\ x[2] \in B
<1>1. ASSUME NEW D, NEW E
      PROVE  \A x : x \in D \X E <=> x = <<x[1], x[2]>> /\ x[1] \in D /\ x[2] \in E
  OBVIOUS
<1> QED  BY <1>1, Zenon

\* What a try of a list is.
LEMMA IsTry ==
    ASSUME NEW s, NEW e
    PROVE  \A x : x \in TriesIn(s, e) <=> /\ x = <<x[1], x[2]>> /\ x[1] \in DOMAIN s /\ x[2] \in Numbers
                                         /\ s[x[1]].event = e /\ s[x[1]].retries < x[2]
<1>1. \A x : x \in TriesIn(s, e) <=> /\ x \in (DOMAIN s) \X Numbers
                                     /\ s[x[1]].event = e /\ s[x[1]].retries < x[2]
  BY DEF TriesIn
<1>2. \A x : x \in (DOMAIN s) \X Numbers <=>
                 x = <<x[1], x[2]>> /\ x[1] \in DOMAIN s /\ x[2] \in Numbers
  BY IsPlace
<1> QED  BY <1>1, <1>2

\* Of two sets with nothing in common, the first finite, the other as large as a third.
LEMMA Disjoint ==
    ASSUME NEW S, NEW T, IsFiniteSet(S), IsFiniteSet(T), S \cap T = {}
    PROVE  /\ IsFiniteSet(S \cup T) /\ Cardinality(S) \in Nat /\ Cardinality(T) \in Nat
           /\ Cardinality(S \cup T) = Cardinality(S) + Cardinality(T)
<1>1. Cardinality(S \cup T) = Cardinality(S) + Cardinality(T) - Cardinality(S \cap T)
  BY FS_Union
<1>2. Cardinality(S \cap T) = 0
  BY FS_EmptySet
<1>3. Cardinality(S) \in Nat /\ Cardinality(T) \in Nat /\ IsFiniteSet(S \cup T)
  BY FS_CardinalityType, FS_Union
<1> QED  BY <1>1, <1>2, <1>3

\* Numbers above one, beside a given first component.
LEMMA Column ==
    ASSUME NEW a, NEW k \in Nat, k <= Retries
    PROVE  /\ IsFiniteSet({x \in {a} \X Numbers : k < x[2]})
           /\ Cardinality({x \in {a} \X Numbers : k < x[2]}) = Retries - k
<1>1. PICK I : I = (k + 1)..Retries
  OBVIOUS
<1>2. Retries \in Nat /\ \A i : i \in I <=> i \in Numbers /\ k < i
  BY <1>1, SaltBufferAssumption DEF SaltBufferAssumption, Numbers
<1>3. IsFiniteSet(I) /\ Cardinality(I) = Retries - k
  <2>1. k + 1 \in Int /\ Retries \in Int
    BY <1>2
  <2>2. IsFiniteSet(I) /\ Cardinality(I) = IF k + 1 > Retries THEN 0 ELSE Retries - (k + 1) + 1
    BY <1>1, <2>1, FS_Interval
  <2> QED  BY <1>2, <2>2
<1>4. PICK T : T = {x \in {a} \X Numbers : k < x[2]}
  OBVIOUS
<1> DEFINE f == [i \in I |-> <<a, i>>]
<1>5. f \in [I -> T]
  BY <1>2, <1>4
<1>6. \A i, j \in I : f[i] = f[j] => i = j
  OBVIOUS
<1>7. \A x \in T : \E i \in I : f[i] = x
  <2>1. ASSUME NEW x \in T PROVE x[2] \in I /\ f[x[2]] = x
    BY <1>2, <1>4
  <2> QED  BY <2>1
<1> HIDE DEF f
<1>8. ExistsBijection(I, T)
  BY <1>5, <1>6, <1>7 DEF ExistsBijection, Bijection, Injection, Surjection, IsInjective
<1>9. IsFiniteSet(T) /\ Cardinality(T) = Retries - k
  BY <1>3, <1>8, FS_Bijection
<1> QED  BY <1>4, <1>9

\* The tries left to a list are finitely many.
LEMMA TriesAreFinite ==
    ASSUME NEW s \in Seq(Message), NEW e
    PROVE  IsFiniteSet(TriesIn(s, e)) /\ Cardinality(TriesIn(s, e)) \in Nat
<1>1. PICK D : D = DOMAIN s
  OBVIOUS
<1>2. IsFiniteSet(D)
  BY <1>1, FS_Interval, LenProperties
<1>3. IsFiniteSet(Numbers)
  BY SaltBufferAssumption, FS_Interval DEF SaltBufferAssumption, Numbers
<1>4. IsFiniteSet(D \X Numbers)
  BY <1>2, <1>3, FS_Product
<1>5. TriesIn(s, e) \subseteq D \X Numbers
  BY <1>1, IsTry
<1> QED  BY <1>4, <1>5, FS_Subset, FS_CardinalityType

\* The tries left to a list of one message are that message's.
LEMMA TriesOfOne ==
    ASSUME NEW m \in Message, NEW e
    PROVE  /\ Cardinality(TriesIn(<<m>>, e)) = TriesOf(m, e) /\ TriesOf(m, e) \in 0..Retries
<1>1. m.retries \in Nat /\ Retries \in Nat /\ m.retries < Retries
  BY SaltBufferAssumption DEF SaltBufferAssumption, Message
<1>2. PICK s : s = <<m>>
  OBVIOUS
<1>3. DOMAIN s = {1} /\ s[1] = m
  BY <1>2
<1>4. \A x : x \in TriesIn(s, e) <=> /\ x = <<x[1], x[2]>> /\ x[1] = 1 /\ x[2] \in Numbers
                                     /\ m.event = e /\ m.retries < x[2]
  BY <1>3, IsTry
<1>5. CASE m.event = e
  <2>1. PICK C : C = {x \in {1} \X Numbers : m.retries < x[2]}
    OBVIOUS
  <2>2. \A x : x \in C <=> x = <<x[1], x[2]>> /\ x[1] = 1 /\ x[2] \in Numbers /\ m.retries < x[2]
    BY <2>1
  <2>3. TriesIn(s, e) = C
    BY <1>4, <1>5, <2>2
  <2>4. PICK k \in Nat : k = m.retries
    BY <1>1
  <2>5. C = {x \in {1} \X Numbers : k < x[2]} /\ k <= Retries
    BY <1>1, <2>1, <2>4
  <2>6. Cardinality(C) = Retries - k
    BY <2>5, Column
  <2> QED  BY <1>1, <1>2, <1>5, <2>3, <2>4, <2>6 DEF TriesOf
<1>6. CASE m.event # e
  <2>1. TriesIn(s, e) = {}
    BY <1>4, <1>6
  <2> QED  BY <1>1, <1>2, <1>6, <2>1, FS_EmptySet DEF TriesOf
<1> QED  BY <1>5, <1>6

\* Those left to a list are those left to its parts.
LEMMA TriesOfParts ==
    ASSUME NEW s \in Seq(Message), NEW t \in Seq(Message), NEW e
    PROVE  Cardinality(TriesIn(s \o t, e)) = Cardinality(TriesIn(s, e)) + Cardinality(TriesIn(t, e))
<1>1. PICK u \in Seq(Message) : u = s \o t
  BY ConcatProperties
<1>2. PICK n \in Nat : n = Len(s)
  BY LenProperties
<1>3. PICK l \in Nat : l = Len(t)
  BY LenProperties
<1>4. PICK D, E, F : D = 1..n /\ E = 1..l /\ F = (n + 1)..(n + l)
  OBVIOUS
<1>5. /\ DOMAIN s = D /\ DOMAIN t = E /\ DOMAIN u = D \cup F /\ D \cap F = {}
      /\ \A i \in D : u[i] = s[i]
      /\ \A i \in E : n + i \in F /\ u[n + i] = t[i]
      /\ \A i, j \in E : n + i = n + j => i = j
      /\ \A i \in F : i - n \in E /\ n + (i - n) = i
  <2>1. Len(u) = n + l /\ \A i \in 1..(n + l) : u[i] = IF i <= n THEN s[i] ELSE t[i - n]
    BY <1>1, <1>2, <1>3, ConcatProperties
  <2>2. DOMAIN s = D /\ DOMAIN t = E /\ DOMAIN u = 1..(n + l)
    BY <1>2, <1>3, <1>4, <2>1, LenProperties
  <2>3. 1..(n + l) = D \cup F /\ D \cap F = {}
    BY <1>4
  <2>4. ASSUME NEW i \in D PROVE u[i] = s[i]
    BY <1>4, <2>1
  <2>5. ASSUME NEW i \in E PROVE n + i \in F /\ u[n + i] = t[i]
    <3>1. n + i \in 1..(n + l) /\ ~(n + i <= n) /\ (n + i) - n = i /\ n + i \in F
      BY <1>4
    <3> QED  BY <2>1, <3>1
  <2>6. /\ \A i, j \in E : n + i = n + j => i = j
        /\ \A i \in F : i - n \in E /\ n + (i - n) = i
    BY <1>4
  <2> QED  BY <2>2, <2>3, <2>4, <2>5, <2>6
<1> DEFINE Of(x) == u[x[1]].event = e /\ u[x[1]].retries < x[2]
           Pair(x) == x = <<x[1], x[2]>> /\ x[2] \in Numbers
<1>6. PICK S, T, U : S = TriesIn(s, e) /\ T = TriesIn(t, e) /\ U = {x \in F \X Numbers : Of(x)}
  OBVIOUS
<1>7. \A x : x \in S <=> Pair(x) /\ x[1] \in D /\ Of(x)
  <2>1. \A x : x \in S <=> /\ Pair(x) /\ x[1] \in D
                           /\ s[x[1]].event = e /\ s[x[1]].retries < x[2]
    <3>1. \A x : x \in TriesIn(s, e) <=> /\ Pair(x) /\ x[1] \in DOMAIN s
                                          /\ s[x[1]].event = e /\ s[x[1]].retries < x[2]
      BY IsTry
    <3>2. \A i : i \in DOMAIN s <=> i \in D
      BY <1>5
    <3> HIDE DEF Pair
    <3> QED  BY <1>6, <3>1, <3>2
  <2> QED  BY <1>5, <2>1
<1>8. \A x : x \in T <=> /\ Pair(x) /\ x[1] \in E
                         /\ u[n + x[1]].event = e /\ u[n + x[1]].retries < x[2]
  <2>1. \A x : x \in T <=> /\ Pair(x) /\ x[1] \in E
                           /\ t[x[1]].event = e /\ t[x[1]].retries < x[2]
    <3>1. \A x : x \in TriesIn(t, e) <=> /\ Pair(x) /\ x[1] \in DOMAIN t
                                          /\ t[x[1]].event = e /\ t[x[1]].retries < x[2]
      BY IsTry
    <3>2. \A i : i \in DOMAIN t <=> i \in E
      BY <1>5
    <3> HIDE DEF Pair
    <3> QED  BY <1>6, <3>1, <3>2
  <2> QED  BY <1>5, <2>1
<1>9. \A x : x \in U <=> Pair(x) /\ x[1] \in F /\ Of(x)
  <2>1. \A x : x \in U <=> x \in F \X Numbers /\ Of(x)
    BY <1>6
  <2>2. \A x : x \in F \X Numbers <=> Pair(x) /\ x[1] \in F
    OBVIOUS
  <2> QED  BY <2>1, <2>2
<1>10. TriesIn(u, e) = S \cup U /\ S \cap U = {}
  <2>1. \A x : x \in TriesIn(u, e) <=> Pair(x) /\ x[1] \in D \cup F /\ Of(x)
    <3>1. \A x : x \in TriesIn(u, e) <=> Pair(x) /\ x[1] \in DOMAIN u /\ Of(x)
      BY IsTry
    <3>2. \A i : i \in DOMAIN u <=> i \in D \cup F
      BY <1>5
    <3> HIDE DEF Pair, Of
    <3> QED  BY <3>1, <3>2
  <2> QED  BY <1>5, <1>7, <1>9, <2>1
<1>11. IsFiniteSet(T) /\ IsFiniteSet(S)
  BY <1>6, TriesAreFinite
<1>12. Cardinality(U) = Cardinality(T) /\ IsFiniteSet(U)
  <2> DEFINE f == [x \in T |-> <<n + x[1], x[2]>>]
  <2>1. ASSUME NEW x \in T PROVE f[x] \in U
    <3>1. PICK y : y = <<n + x[1], x[2]>>
      OBVIOUS
    <3>2. y[1] = n + x[1] /\ y[2] = x[2] /\ f[x] = y
      BY <3>1
    <3>3. Pair(y) /\ y[1] \in F /\ Of(y)
      BY <1>5, <1>8, <3>1, <3>2
    <3> QED  BY <1>9, <3>2, <3>3
  <2>2. ASSUME NEW x \in T, NEW y \in T, f[x] = f[y] PROVE x = y
    <3>1. Pair(x) /\ x[1] \in E /\ Pair(y) /\ y[1] \in E
      BY <1>8
    <3>2. n + x[1] = n + y[1] /\ x[2] = y[2]
      BY <2>2
    <3>3. x[1] = y[1]
      BY <1>5, <3>1, <3>2
    <3> QED  BY <3>1, <3>2, <3>3
  <2>3. ASSUME NEW y \in U PROVE \E x \in T : f[x] = y
    <3>1. Pair(y) /\ y[1] \in F /\ Of(y)
      BY <1>9
    <3>2. PICK x : x = <<y[1] - n, y[2]>>
      OBVIOUS
    <3>3. Pair(x) /\ x[1] \in E /\ n + x[1] = y[1] /\ x[2] = y[2]
      BY <1>5, <3>1, <3>2
    <3>4. x \in T
      BY <1>8, <3>1, <3>3
    <3> QED  BY <3>1, <3>3, <3>4
  <2>4. f \in [T -> U]
    BY <2>1
  <2> HIDE DEF f
  <2>5. ExistsBijection(T, U)
    BY <2>2, <2>3, <2>4 DEF ExistsBijection, Bijection, Injection, Surjection, IsInjective
  <2> QED  BY <1>11, <2>5, FS_Bijection
<1>13. Cardinality(S \cup U) = Cardinality(S) + Cardinality(T)
  BY <1>10, <1>11, <1>12, Disjoint
<1> QED  BY <1>1, <1>6, <1>10, <1>13

\* What a worker has counts apart from what the others have.
LEMMA TriesOfWorker ==
    ASSUME NEW W \in [EventWorkers -> Work \cup {NoEvent}], NEW e, NEW w \in EventWorkers,
           NEW v \in Work \cup {NoEvent}
    PROVE  /\ Held(W, e) \in Nat /\ Held([W EXCEPT ![w] = v], e) \in Nat
           /\ TriesAfter(v, e) \in 0..Retries /\ TriesAfter(W[w], e) \in 0..Retries
           /\ Held([W EXCEPT ![w] = v], e) + TriesAfter(W[w], e) = Held(W, e) + TriesAfter(v, e)
<1>1. PICK O : O = {x \in (EventWorkers \ {w}) \X Numbers :
                        W[x[1]] # NoEvent /\ W[x[1]].event = e /\ W[x[1]].retries + 1 < x[2]}
  OBVIOUS
<1>2. IsFiniteSet(O)
  <2>1. IsFiniteSet(Numbers) /\ IsFiniteSet(EventWorkers \ {w})
    BY SaltBufferAssumption, FS_Interval, FS_Subset DEF SaltBufferAssumption, Numbers
  <2>2. IsFiniteSet((EventWorkers \ {w}) \X Numbers)
    BY <2>1, FS_Product
  <2> QED  BY <1>1, <2>2, FS_Subset
<1>3. ASSUME NEW V \in [EventWorkers -> Work \cup {NoEvent}],
             \A o \in EventWorkers \ {w} : V[o] = W[o]
      PROVE  /\ Cardinality(TriesAt(V, e)) = Cardinality(O) + TriesAfter(V[w], e)
             /\ Cardinality(O) \in Nat /\ TriesAfter(V[w], e) \in 0..Retries
  <2>1. PICK C : C = {x \in {w} \X Numbers :
                          V[x[1]] # NoEvent /\ V[x[1]].event = e /\ V[x[1]].retries + 1 < x[2]}
    OBVIOUS
  <2>2. TriesAt(V, e) = O \cup C /\ O \cap C = {}
    BY <1>1, <1>3, <2>1 DEF TriesAt
  <2>3. Retries \in Nat
    BY SaltBufferAssumption DEF SaltBufferAssumption
  <2>4. IsFiniteSet(C) /\ Cardinality(C) = TriesAfter(V[w], e) /\ TriesAfter(V[w], e) \in 0..Retries
    <3>1. CASE V[w] # NoEvent /\ V[w].event = e
      <4>1. V[w].retries \in Nat /\ V[w].retries + 1 <= Retries
        <5>1. V[w] \in Work
          BY <3>1
        <5> QED  BY <2>3, <5>1 DEF Work
      <4>2. PICK k \in Nat : k = V[w].retries + 1
        BY <4>1
      <4>3. C = {x \in {w} \X Numbers : k < x[2]}
        BY <2>1, <3>1, <4>2
      <4>4. IsFiniteSet(C) /\ Cardinality(C) = Retries - k
        BY <4>1, <4>2, <4>3, Column
      <4> QED  BY <2>3, <3>1, <4>1, <4>2, <4>4 DEF TriesAfter
    <3>2. CASE ~(V[w] # NoEvent /\ V[w].event = e)
      <4>1. C = {}
        BY <2>1, <3>2
      <4> QED  BY <2>3, <3>2, <4>1, FS_EmptySet DEF TriesAfter
    <3> QED  BY <3>1, <3>2
  <2> QED  BY <1>2, <2>2, <2>4, Disjoint
<1>4. PICK V \in [EventWorkers -> Work \cup {NoEvent}] : V = [W EXCEPT ![w] = v]
  OBVIOUS
<1>5. V[w] = v /\ \A o \in EventWorkers \ {w} : V[o] = W[o]
  BY <1>4
<1>6. /\ Cardinality(TriesAt(V, e)) = Cardinality(O) + TriesAfter(v, e)
      /\ Cardinality(O) \in Nat /\ TriesAfter(v, e) \in 0..Retries
  BY <1>3, <1>5
<1>7. /\ Cardinality(TriesAt(W, e)) = Cardinality(O) + TriesAfter(W[w], e)
      /\ TriesAfter(W[w], e) \in 0..Retries
  BY <1>3
<1>8. PICK o, a, b \in Nat : o = Cardinality(O) /\ a = TriesAfter(v, e) /\ b = TriesAfter(W[w], e)
  BY <1>6, <1>7, SaltBufferAssumption DEF SaltBufferAssumption
<1> QED  BY <1>4, <1>6, <1>7, <1>8 DEF Held

-----------------------------------------------------------------------------
\* What the messages of a list are about, part by part.
LEMMA EventsOfParts ==
    ASSUME NEW s \in Seq(Message), NEW t \in Seq(Message)
    PROVE  InList(s \o t) = InList(s) \cup InList(t)
<1>1. PICK u \in Seq(Message) : u = s \o t
  BY ConcatProperties
<1>2. /\ Len(u) = Len(s) + Len(t) /\ DOMAIN u = 1..Len(u) /\ DOMAIN s = 1..Len(s)
      /\ DOMAIN t = 1..Len(t) /\ Len(s) \in Nat /\ Len(t) \in Nat
      /\ \A i \in 1..(Len(s) + Len(t)) : u[i] = IF i <= Len(s) THEN s[i] ELSE t[i - Len(s)]
  BY <1>1, ConcatProperties, LenProperties
<1>3. ASSUME NEW e \in InList(u) PROVE e \in InList(s) \cup InList(t)
  <2>1. PICK i \in DOMAIN u : u[i].event = e
    BY <1>3 DEF InList
  <2>2. CASE i <= Len(s)
    BY <1>2, <2>1, <2>2 DEF InList
  <2>3. CASE ~(i <= Len(s))
    <3>1. i - Len(s) \in DOMAIN t /\ u[i] = t[i - Len(s)]
      BY <1>2, <2>1, <2>3
    <3> QED  BY <2>1, <3>1 DEF InList
  <2> QED  BY <2>2, <2>3
<1>4. ASSUME NEW e \in InList(s) PROVE e \in InList(u)
  <2>1. PICK i \in DOMAIN s : s[i].event = e
    BY <1>4 DEF InList
  <2>2. i \in DOMAIN u /\ u[i] = s[i]
    BY <1>2, <2>1
  <2> QED  BY <2>1, <2>2 DEF InList
<1>5. ASSUME NEW e \in InList(t) PROVE e \in InList(u)
  <2>1. PICK i \in DOMAIN t : t[i].event = e
    BY <1>5 DEF InList
  <2>2. Len(s) + i \in DOMAIN u /\ ~(Len(s) + i <= Len(s)) /\ (Len(s) + i) - Len(s) = i
    BY <1>2, <2>1
  <2>3. u[Len(s) + i] = t[i]
    BY <1>2, <2>2
  <2> QED  BY <2>1, <2>2, <2>3 DEF InList
<1> QED  BY <1>1, <1>3, <1>4, <1>5

\* A message at the head of a list, and one at its end.
LEMMA OneMore ==
    ASSUME NEW s \in Seq(Message), NEW m \in Message, NEW e
    PROVE  /\ <<m>> \o s \in Seq(Message) /\ Append(s, m) \in Seq(Message)
           /\ Tries(<<m>> \o s, e) = TriesOf(m, e) + Tries(s, e)
           /\ Tries(Append(s, m), e) = Tries(s, e) + TriesOf(m, e)
           /\ InList(<<m>> \o s) = {m.event} \cup InList(s)
           /\ InList(Append(s, m)) = InList(s) \cup {m.event}
           /\ Tries(s, e) \in Nat /\ TriesOf(m, e) \in 0..Retries
<1>1. PICK l \in Seq(Message) : l = <<m>>
  <2>1. <<m>> \in Seq(Message)
    OBVIOUS
  <2> QED  BY <2>1, Zenon
<1>2. l \o s \in Seq(Message) /\ Append(s, m) = s \o l /\ s \o l \in Seq(Message)
  BY <1>1, ConcatProperties, AppendIsConcat
<1>3. Tries(l, e) = TriesOf(m, e) /\ TriesOf(m, e) \in 0..Retries /\ InList(l) = {m.event}
  <2>1. DOMAIN l = {1} /\ l[1] = m
    BY <1>1
  <2>2. InList(l) = {m.event}
    BY <2>1 DEF InList
  <2> QED  BY <1>1, <2>2, TriesOfOne DEF Tries
<1>4. Tries(l \o s, e) = Tries(l, e) + Tries(s, e) /\ Tries(s \o l, e) = Tries(s, e) + Tries(l, e)
  BY TriesOfParts DEF Tries
<1>5. InList(l \o s) = InList(l) \cup InList(s) /\ InList(s \o l) = InList(s) \cup InList(l)
  BY EventsOfParts
<1>6. Tries(s, e) \in Nat
  BY TriesAreFinite DEF Tries
<1> QED  BY <1>1, <1>2, <1>3, <1>4, <1>5, <1>6

\* A list that is not empty is its head, before its tail.
LEMMA HeadAndTail ==
    ASSUME NEW s \in Seq(Message), s # <<>>, NEW e
    PROVE  /\ Head(s) \in Message /\ Tail(s) \in Seq(Message)
           /\ Tries(s, e) = TriesOf(Head(s), e) + Tries(Tail(s), e)
           /\ InList(s) = {Head(s).event} \cup InList(Tail(s))
           /\ Tries(Tail(s), e) \in Nat /\ TriesOf(Head(s), e) \in 0..Retries
<1>1. Head(s) \in Message /\ Tail(s) \in Seq(Message)
  BY HeadTailProperties
<1>2. PICK m \in Message : m = Head(s)
  BY <1>1
<1>3. PICK t \in Seq(Message) : t = Tail(s)
  BY <1>1
<1>4. s = <<m>> \o t
  BY <1>2, <1>3
<1>5. /\ Tries(<<m>> \o t, e) = TriesOf(m, e) + Tries(t, e)
      /\ InList(<<m>> \o t) = {m.event} \cup InList(t)
      /\ Tries(t, e) \in Nat /\ TriesOf(m, e) \in 0..Retries
  BY OneMore
<1> QED  BY <1>2, <1>3, <1>4, <1>5

\* A batch and what it leaves are the list they were taken from.
LEMMA BatchAndRest ==
    ASSUME NEW s \in Seq(Message), NEW n \in 0..Len(s), NEW e
    PROVE  LET b == SubSeq(s, 1, n)
               r == SubSeq(s, n + 1, Len(s))
           IN  /\ b \in Seq(Message) /\ r \in Seq(Message)
               /\ Tries(s, e) = Tries(b, e) + Tries(r, e) /\ InList(s) = InList(b) \cup InList(r)
               /\ Tries(b, e) \in Nat /\ Tries(r, e) \in Nat
<1>1. Len(s) \in Nat
  BY LenProperties
<1>2. SubSeq(s, 1, n) \in Seq(Message) /\ SubSeq(s, n + 1, Len(s)) \in Seq(Message)
  BY <1>1
<1>3. PICK b \in Seq(Message) : b = SubSeq(s, 1, n)
  BY <1>2
<1>4. PICK r \in Seq(Message) : r = SubSeq(s, n + 1, Len(s))
  BY <1>2
<1>5. b \o r = s
  <2>1. 1 \in 1..(Len(s) + 1) /\ n \in (1 - 1)..Len(s) /\ Len(s) \in n..Len(s)
    BY <1>1
  <2>2. SubSeq(s, 1, n) \o SubSeq(s, n + 1, Len(s)) = SubSeq(s, 1, Len(s))
    BY <2>1, ConcatAdjacentSubSeq
  <2>3. SubSeq(s, 1, Len(s)) = s
    BY SubSeqFull
  <2> QED  BY <1>3, <1>4, <2>2, <2>3
<1>6. Tries(b \o r, e) = Tries(b, e) + Tries(r, e) /\ Tries(b, e) \in Nat /\ Tries(r, e) \in Nat
  BY TriesOfParts, TriesAreFinite DEF Tries
<1>7. InList(b \o r) = InList(b) \cup InList(r)
  BY EventsOfParts
<1> QED  BY <1>3, <1>4, <1>5, <1>6, <1>7

-----------------------------------------------------------------------------
\* The bound grows with each fault: by one, and by the tries of a message for an event
\* that was sent twice.
LEMMA BoundGrows ==
    ASSUME NEW D, NEW E, D \subseteq E, NEW f \in Nat, NEW e
    PROVE  /\ Bound(D, f, e) \in Nat /\ Bound(E, f + 1, e) \in Nat /\ Bound(D, f, e) >= Retries
           /\ Bound(E, f + 1, e) >= Bound(D, f, e) + 1
           /\ e \in E => Bound(E, f + 1, e) >= Bound(D, f, e) + Retries + 1
<1>1. Retries \in Nat
  BY SaltBufferAssumption DEF SaltBufferAssumption
<1>2. /\ Retries * 1 = Retries /\ Retries * (1 + (f + 1)) = Retries * (1 + f) + Retries
      /\ Retries * (1 + f) = Retries + Retries * f /\ Retries * f \in Nat
  BY <1>1
<1>3. PICK r \in Nat : r = Retries * f
  BY <1>2
<1>4. /\ Bound(D, f, e) = (IF e \in D THEN Retries + r ELSE Retries) + f
      /\ Bound(E, f + 1, e) = (IF e \in E THEN Retries + r + Retries ELSE Retries) + (f + 1)
  BY <1>1, <1>2, <1>3 DEF Bound
<1> QED  BY <1>1, <1>3, <1>4

\* The tries at the workers are finitely many.
LEMMA HeldIsNat ==
    ASSUME NEW W, NEW e
    PROVE  Held(W, e) \in Nat
<1>1. IsFiniteSet(Numbers) /\ IsFiniteSet(EventWorkers)
  BY SaltBufferAssumption, FS_Interval DEF SaltBufferAssumption, Numbers
<1>2. IsFiniteSet(EventWorkers \X Numbers)
  BY <1>1, FS_Product
<1>3. TriesAt(W, e) \subseteq EventWorkers \X Numbers
  BY DEF TriesAt
<1> QED  BY <1>2, <1>3, FS_Subset, FS_CardinalityType DEF Held

\* What lpop takes is a part of the list, from its head.
LEMMA BatchSizes ==
    ASSUME EventsTyped, lpop
    PROVE  \E n \in 0..Len(buffer) :
               batch' = SubSeq(buffer, 1, n) /\ buffer' = SubSeq(buffer, n + 1, Len(buffer))
<1>1. Len(buffer) \in Nat /\ EventBatch \in Nat
  BY SaltBufferAssumption, LenProperties DEF SaltBufferAssumption, EventsTyped
<1>2. PICK n : n = IF Len(buffer) < EventBatch THEN Len(buffer) ELSE EventBatch
  OBVIOUS
<1>3. n \in 0..Len(buffer)
  BY <1>1, <1>2
<1>4. batch' = SubSeq(buffer, 1, n) /\ buffer' = SubSeq(buffer, n + 1, Len(buffer))
  BY <1>2 DEF lpop
<1> QED  BY <1>3, <1>4

\* The tries at a worker are the workers' in all: none when all of them are free.
LEMMA NothingHeld ==
    ASSUME NEW W, NEW e, \A w \in EventWorkers : W[w] = NoEvent \/ W[w].event # e
    PROVE  Held(W, e) = 0
<1>1. TriesAt(W, e) = {}
  BY DEF TriesAt
<1> QED  BY <1>1, FS_EmptySet DEF Held

\* A list has no tries of an event that none of its messages is about.
LEMMA NothingLeft ==
    ASSUME NEW s, NEW e, e \notin InList(s)
    PROVE  Tries(s, e) = 0
<1>1. TriesIn(s, e) = {}
  BY IsTry DEF InList
<1> QED  BY <1>1, FS_EmptySet DEF Tries

\* Nothing is left of an event that nobody has.
LEMMA InitEventsInv == SaltBufferInit => EventsInv
<1> SUFFICES ASSUME SaltBufferInit PROVE EventsInv
  OBVIOUS
<1>1. EventsTyped
  BY SaltBufferAssumption DEF SaltBufferInit, EventsTyped, SaltBufferAssumption
<1>2. ASSUME NEW e \in Events
      PROVE  attempts[e] + Left(e) <= Bound(doubled, eventFaults, e) /\ attempts[e] = 0
  <2>1. InList(<<>>) = {}
    BY DEF InList
  <2>2. Tries(<<>>, e) = 0
    BY <2>1, NothingLeft
  <2>3. Held(work, e) = 0
    BY NothingHeld DEF SaltBufferInit
  <2>4. Bound({}, 0, e) \in Nat
    BY BoundGrows
  <2>5. buffer = <<>> /\ batch = <<>> /\ sent = <<>> /\ attempts[e] = 0
        /\ doubled = {} /\ eventFaults = 0
    BY DEF SaltBufferInit
  <2> QED  BY <2>2, <2>3, <2>4, <2>5 DEF Left
<1> QED  BY <1>1, <1>2 DEF EventsInv, AttemptsInv

\* Every step keeps the types of the events' way.
LEMMA EventsStayTyped == EventsTyped /\ [SaltBufferNext]_saltBufferVars => EventsTyped'
<1> SUFFICES ASSUME EventsTyped, [SaltBufferNext]_saltBufferVars PROVE EventsTyped'
  OBVIOUS
<1> USE DEF EventsTyped
<1>0. /\ Chain \in Nat /\ EventBatch \in Nat \ {0} /\ Retries \in Nat \ {0} /\ MaxFaults \in Nat
      /\ \A s \in {buffer, batch, sent} : \A i \in DOMAIN s : s[i] \in Message
  BY SaltBufferAssumption DEF SaltBufferAssumption
<1>m. \A m \in Message : m.event \in Events /\ m.retries \in 0..(Retries - 1)
  BY DEF Message
<1>w. \A v \in Work : v.event \in Events /\ v.retries \in 0..(Retries - 1) /\ v.done \in 0..Chain
  BY DEF Work
<1>l. \A s \in {buffer, batch, sent} : InList(s) \subseteq Events
  BY <1>0, <1>m DEF InList
<1>1. ASSUME NEW e \in Events, Receive(e) PROVE EventsTyped'
  <2>1. [event |-> e, retries |-> 0] \in Message
    BY <1>0 DEF Message
  <2>2. Append(buffer, [event |-> e, retries |-> 0]) \in Seq(Message)
    BY <2>1, AppendProperties
  <2> QED  BY <1>1, <2>2 DEF Receive
<1>2. ASSUME lpop PROVE EventsTyped'
  <2>1. PICK n \in 0..Len(buffer) :
            batch' = SubSeq(buffer, 1, n) /\ buffer' = SubSeq(buffer, n + 1, Len(buffer))
    BY <1>2, BatchSizes
  <2>2. batch' \in Seq(Message) /\ buffer' \in Seq(Message)
    BY <2>1, BatchAndRest
  <2> QED  BY <1>2, <2>2 DEF lpop
<1>3. ASSUME kiq PROVE EventsTyped'
  <2>1. Head(batch) \in Message /\ Tail(batch) \in Seq(Message)
    BY <1>3, HeadTailProperties DEF kiq
  <2>2. Append(sent, Head(batch)) \in Seq(Message)
    BY <2>1, AppendProperties
  <2> QED  BY <1>3, <2>1, <2>2 DEF kiq
<1>4. ASSUME SendTaskError PROVE EventsTyped'
  <2>1. Head(batch) \in Message /\ Tail(batch) \in Seq(Message)
    BY <1>4, HeadTailProperties DEF SendTaskError
  <2>2. Append(sent, Head(batch)) \in Seq(Message) /\ <<Head(batch)>> \o buffer \in Seq(Message)
    BY <2>1, OneMore
  <2>3. Head(batch).event \in Events /\ eventFaults' \in 0..MaxFaults
    BY <1>0, <1>4, <1>m, <2>1 DEF SendTaskError, Fault
  <2> QED  BY <1>4, <2>1, <2>2, <2>3 DEF SendTaskError
<1>5. ASSUME ManagerCrash \/ BrokerRestart PROVE EventsTyped'
  <2>1. eventFaults' \in 0..MaxFaults
    BY <1>0, <1>5 DEF ManagerCrash, BrokerRestart, Fault
  <2>2. <<>> \in Seq(Message)
    OBVIOUS
  <2> QED  BY <1>5, <1>l, <2>1, <2>2 DEF ManagerCrash, BrokerRestart
<1>6. ASSUME NEW w \in EventWorkers, process_event(w) PROVE EventsTyped'
  <2>1. Head(sent) \in Message /\ Tail(sent) \in Seq(Message)
    BY <1>6, HeadTailProperties DEF process_event
  <2>2. [event |-> Head(sent).event, retries |-> Head(sent).retries, done |-> 0] \in Work
    BY <1>0, <1>m, <2>1 DEF Work
  <2>3. work' \in [EventWorkers -> Work \cup {NoEvent}]
    BY <1>6, <2>2 DEF process_event
  <2>4. attempts' \in [Events -> Nat]
    BY <1>6, <1>m, <2>1 DEF process_event
  <2> QED  BY <1>6, <2>1, <2>3, <2>4 DEF process_event
<1>7. ASSUME NEW w \in EventWorkers, handle(w) PROVE EventsTyped'
  <2>1. work[w] \in Work
    BY <1>7 DEF handle
  <2>2. CASE work[w].done + 1 < Chain /\ work' = [work EXCEPT ![w].done = @ + 1] /\ UNCHANGED over
    <3>1. [work[w] EXCEPT !.done = @ + 1] \in Work
      <4>1. PICK v \in Work : v = work[w]
        BY <2>1
      <4>2. v.done + 1 \in 0..Chain
        BY <1>0, <1>w, <2>2, <4>1
      <4>3. [v EXCEPT !.done = v.done + 1] \in Work
        BY <4>2 DEF Work
      <4> QED  BY <4>1, <4>3
    <3>2. work' = [work EXCEPT ![w] = [work[w] EXCEPT !.done = @ + 1]]
      BY <2>2
    <3>3. work' \in [EventWorkers -> Work \cup {NoEvent}]
      BY <3>1, <3>2
    <3> QED  BY <1>7, <2>2, <3>3 DEF handle
  <2>3. CASE work' = [work EXCEPT ![w] = NoEvent] /\ over' = over \cup {work[w].event}
    BY <1>7, <1>w, <2>1, <2>3 DEF handle
  <2> QED  BY <1>7, <2>2, <2>3 DEF handle
<1>8. ASSUME NEW w \in EventWorkers, push_failed_event(w) PROVE EventsTyped'
  <2>1. work[w] \in Work
    BY <1>8 DEF push_failed_event
  <2>2. PICK r : r = work[w].retries + 1
    OBVIOUS
  <2>3. CASE r >= Retries
    BY <1>8, <1>w, <2>1, <2>2, <2>3 DEF push_failed_event
  <2>4. CASE ~(r >= Retries)
    <3>1. [event |-> work[w].event, retries |-> r] \in Message
      BY <1>0, <1>w, <2>1, <2>2, <2>4 DEF Message
    <3>2. Append(buffer, [event |-> work[w].event, retries |-> r]) \in Seq(Message)
      BY <3>1, AppendProperties
    <3> QED  BY <1>8, <2>2, <2>4, <3>2 DEF push_failed_event
  <2> QED  BY <2>3, <2>4
<1>9. ASSUME NEW w \in EventWorkers, EventWorkerCrash(w) PROVE EventsTyped'
  <2>1. work[w] \in Work
    BY <1>9 DEF EventWorkerCrash
  <2>2. [event |-> work[w].event, retries |-> work[w].retries] \in Message
    BY <1>w, <2>1 DEF Message
  <2>3. <<[event |-> work[w].event, retries |-> work[w].retries]>> \o sent \in Seq(Message)
    BY <2>2, OneMore
  <2>4. eventFaults' \in 0..MaxFaults
    BY <1>0, <1>9 DEF EventWorkerCrash, Fault
  <2> QED  BY <1>9, <2>3, <2>4 DEF EventWorkerCrash
<1>10. CASE UNCHANGED saltBufferVars
  BY <1>10 DEF saltBufferVars
<1> QED  BY <1>1, <1>2, <1>3, <1>4, <1>5, <1>6, <1>7, <1>8, <1>9, <1>10
      DEF SaltBufferNext, Manager, EventWorker

\* What a step makes of the tries begun and left of an event stays within its bound.
LEMMA AttemptsStayBounded ==
    ASSUME EventsInv, [SaltBufferNext]_saltBufferVars, NEW e \in Events
    PROVE  /\ attempts'[e] + Left(e)' <= Bound(doubled', eventFaults', e)
           /\ e \notin Seen' => attempts'[e] = 0
<1>t. /\ EventsTyped
      /\ buffer \in Seq(Message) /\ batch \in Seq(Message) /\ sent \in Seq(Message)
      /\ work \in [EventWorkers -> Work \cup {NoEvent}] /\ attempts \in [Events -> Nat]
  BY DEF EventsInv, EventsTyped
<1>0. /\ Chain \in Nat /\ EventBatch \in Nat \ {0} /\ Retries \in Nat \ {0}
      /\ eventFaults \in Nat /\ attempts[e] \in Nat
  BY <1>t, SaltBufferAssumption DEF SaltBufferAssumption, EventsTyped
<1>a. PICK a, b, c, d, h \in Nat :
          /\ a = attempts[e] /\ b = Tries(buffer, e) /\ c = Tries(batch, e)
          /\ d = Tries(sent, e) /\ h = Held(work, e)
  <2>1. Tries(buffer, e) \in Nat /\ Tries(batch, e) \in Nat /\ Tries(sent, e) \in Nat
    BY <1>t, TriesAreFinite DEF Tries
  <2>2. Held(work, e) \in Nat
    BY HeldIsNat
  <2> QED  BY <1>0, <2>1, <2>2
<1>b. PICK k \in Nat : k = Bound(doubled, eventFaults, e) /\ k >= Retries
  BY <1>0, BoundGrows
<1>i. a + b + c + d + h <= k /\ (e \notin Seen => a = 0)
  <2>1. attempts[e] + Left(e) <= k /\ (e \notin Seen => attempts[e] = 0)
    BY <1>b DEF EventsInv, AttemptsInv
  <2>2. Left(e) = b + c + d + h
    BY <1>a DEF Left
  <2> QED  BY <1>a, <2>1, <2>2
<1>p. PICK a1, b1, c1, d1, h1, k1 \in Nat :
          /\ a1 = attempts'[e] /\ b1 = Tries(buffer', e) /\ c1 = Tries(batch', e)
          /\ d1 = Tries(sent', e) /\ h1 = Held(work', e) /\ k1 = Bound(doubled', eventFaults', e)
  <2>1. EventsTyped'
    BY <1>t, EventsStayTyped
  <2>2. /\ buffer' \in Seq(Message) /\ batch' \in Seq(Message) /\ sent' \in Seq(Message)
        /\ attempts'[e] \in Nat /\ eventFaults' \in Nat
    BY <2>1, SaltBufferAssumption DEF EventsTyped, SaltBufferAssumption
  <2>3. Tries(buffer', e) \in Nat /\ Tries(batch', e) \in Nat /\ Tries(sent', e) \in Nat
    BY <2>2, TriesAreFinite DEF Tries
  <2>4. Held(work', e) \in Nat /\ Bound(doubled', eventFaults', e) \in Nat
    BY <2>2, HeldIsNat, BoundGrows
  <2> QED  BY <2>2, <2>3, <2>4
<1> DEFINE Stays == a1 + b1 + c1 + d1 + h1 <= k1 /\ (e \notin Seen' => a1 = 0)
<1> HIDE DEF Stays
<1>f. ASSUME Fault
      PROVE  /\ doubled' = doubled => k1 >= k + 1
             /\ \A m \in Events : doubled' = doubled \cup {m} =>
                    k1 >= k + 1 /\ (m = e => k1 >= k + Retries + 1)
  <2>1. eventFaults' = eventFaults + 1
    BY <1>f DEF Fault
  <2>2. Bound(doubled, eventFaults + 1, e) >= k + 1
    BY <1>0, <1>b, BoundGrows
  <2>3. ASSUME NEW m \in Events
        PROVE  /\ Bound(doubled \cup {m}, eventFaults + 1, e) >= k + 1
               /\ m = e => Bound(doubled \cup {m}, eventFaults + 1, e) >= k + Retries + 1
    <3>1. doubled \subseteq doubled \cup {m}
      OBVIOUS
    <3> QED  BY <1>0, <1>b, <3>1, BoundGrows
  <2>4. doubled' = doubled => k1 >= k + 1
    BY <1>p, <2>1, <2>2
  <2>5. ASSUME NEW m \in Events, doubled' = doubled \cup {m}
        PROVE  k1 >= k + 1 /\ (m = e => k1 >= k + Retries + 1)
    BY <1>p, <2>1, <2>3, <2>5
  <2> QED  BY <2>4, <2>5
<1>s. UNCHANGED <<doubled, eventFaults>> => k1 = k
  BY <1>b, <1>p
<1>1. ASSUME NEW n \in Events, Receive(n) PROVE Stays
  <2>1. PICK m \in Message : m = [event |-> n, retries |-> 0]
    <3>1. [event |-> n, retries |-> 0] \in Message
      BY <1>0 DEF Message
    <3> QED  BY <3>1, Zenon
  <2>2. PICK x \in 0..Retries : x = TriesOf(m, e)
    BY <1>t, OneMore
  <2>3. b + x = Tries(Append(buffer, m), e) /\ InList(Append(buffer, m)) = InList(buffer) \cup {m.event}
    BY <1>a, <1>t, <2>2, OneMore
  <2>4. buffer' = Append(buffer, m) /\ n \notin Seen
        /\ UNCHANGED <<batch, sent, work, over, attempts, doubled, dropped, eventFaults>>
    BY <1>1, <2>1 DEF Receive
  <2>5. a1 = a /\ b1 = b + x /\ c1 = c /\ d1 = d /\ h1 = h /\ k1 = k
    BY <1>a, <1>p, <1>s, <2>3, <2>4
  <2>6. Seen \subseteq Seen'
    BY <2>3, <2>4 DEF Seen, InWork
  <2>7. CASE n = e
    <3>1. e \notin InList(buffer) /\ e \notin InList(batch) /\ e \notin InList(sent)
          /\ \A w \in EventWorkers : work[w] = NoEvent \/ work[w].event # e
      BY <2>4, <2>7 DEF Seen, InWork
    <3>2. b = 0 /\ c = 0 /\ d = 0 /\ h = 0 /\ a = 0
      BY <1>a, <1>i, <2>4, <2>7, <3>1, NothingLeft, NothingHeld
    <3> QED  BY <1>0, <1>b, <2>5, <3>2 DEF Stays
  <2>8. CASE n # e
    <3>1. x = 0
      BY <2>1, <2>2, <2>8 DEF TriesOf
    <3> QED  BY <1>i, <2>5, <2>6, <3>1 DEF Stays
  <2> QED  BY <2>7, <2>8
<1>2. ASSUME lpop PROVE Stays
  <2>1. PICK n \in 0..Len(buffer) :
            batch' = SubSeq(buffer, 1, n) /\ buffer' = SubSeq(buffer, n + 1, Len(buffer))
    BY <1>t, <1>2, BatchSizes
  <2>2. b = c1 + b1 /\ InList(buffer) = InList(batch') \cup InList(buffer')
    BY <1>a, <1>p, <1>t, <2>1, BatchAndRest
  <2>3. /\ batch = <<>>
        /\ UNCHANGED <<sent, work, over, attempts, doubled, dropped, eventFaults>>
    BY <1>2 DEF lpop
  <2>4. InList(batch) = {}
    BY <2>3 DEF InList
  <2>5. c = 0
    BY <1>a, <2>4, NothingLeft
  <2>6. Seen = Seen'
    BY <2>2, <2>3, <2>4 DEF Seen, InWork
  <2>7. a1 = a /\ d1 = d /\ h1 = h /\ k1 = k
    BY <1>a, <1>p, <1>s, <2>3
  <2> QED  BY <1>i, <2>2, <2>5, <2>6, <2>7 DEF Stays
<1>3. ASSUME kiq PROVE Stays
  <2>1. PICK m \in Message : m = Head(batch)
    BY <1>t, <1>3, HeadTailProperties DEF kiq
  <2>2. PICK x \in 0..Retries : x = TriesOf(m, e)
    BY <1>t, OneMore
  <2>3. /\ sent' = Append(sent, m) /\ batch' = Tail(batch) /\ batch # <<>>
        /\ UNCHANGED <<buffer, work, over, attempts, doubled, dropped, eventFaults>>
    BY <1>3, <2>1 DEF kiq
  <2>4. c = x + c1 /\ InList(batch) = {m.event} \cup InList(batch')
    BY <1>a, <1>p, <1>t, <2>1, <2>2, <2>3, HeadAndTail
  <2>5. d1 = d + x /\ InList(sent') = InList(sent) \cup {m.event}
    BY <1>a, <1>p, <1>t, <2>2, <2>3, OneMore
  <2>6. Seen = Seen'
    BY <2>3, <2>4, <2>5 DEF Seen, InWork
  <2>7. a1 = a /\ b1 = b /\ h1 = h /\ k1 = k
    BY <1>a, <1>p, <1>s, <2>3
  <2> QED  BY <1>i, <2>4, <2>5, <2>6, <2>7 DEF Stays
<1>4. ASSUME SendTaskError PROVE Stays
  <2>1. PICK m \in Message : m = Head(batch)
    BY <1>t, <1>4, HeadTailProperties DEF SendTaskError
  <2>2. PICK x \in 0..Retries : x = TriesOf(m, e)
    BY <1>t, OneMore
  <2>3. /\ buffer' = <<m>> \o buffer /\ batch' = Tail(batch) /\ batch # <<>> /\ Fault
        /\ UNCHANGED <<work, over, attempts, dropped>>
    BY <1>4, <2>1 DEF SendTaskError
  <2>4. c = x + c1 /\ InList(batch) = {m.event} \cup InList(batch')
    BY <1>a, <1>p, <1>t, <2>1, <2>2, <2>3, HeadAndTail
  <2>5. b1 = x + b /\ InList(buffer') = {m.event} \cup InList(buffer)
    BY <1>a, <1>p, <1>t, <2>2, <2>3, OneMore
  <2>6. a1 = a /\ h1 = h
    BY <1>a, <1>p, <2>3
  <2>7. CASE UNCHANGED <<sent, doubled>>
    <3>1. Seen = Seen'
      BY <2>3, <2>4, <2>5, <2>7 DEF Seen, InWork
    <3>2. d1 = d /\ k1 >= k + 1
      BY <1>a, <1>f, <1>p, <2>3, <2>7
    <3> QED  BY <1>i, <2>4, <2>5, <2>6, <3>1, <3>2 DEF Stays
  <2>8. CASE sent' = Append(sent, m) /\ doubled' = doubled \cup {m.event}
    <3>1. d1 = d + x /\ InList(sent') = InList(sent) \cup {m.event}
      BY <1>a, <1>p, <1>t, <2>2, <2>8, OneMore
    <3>2. Seen = Seen'
      BY <2>3, <2>4, <2>5, <2>8, <3>1 DEF Seen, InWork
    <3>3. m.event \in Events
      BY DEF Message
    <3>4. k1 >= k + 1 /\ (m.event = e => k1 >= k + Retries + 1)
      BY <1>f, <2>3, <2>8, <3>3
    <3>5. m.event = e \/ x = 0
      BY <2>2 DEF TriesOf
    <3>6. k1 >= k + x
      BY <1>0, <3>4, <3>5
    <3> QED  BY <1>i, <2>4, <2>5, <2>6, <3>1, <3>2, <3>6 DEF Stays
  <2> QED  BY <1>4, <2>1, <2>7, <2>8 DEF SendTaskError
<1>5. ASSUME ManagerCrash PROVE Stays
  <2>1. /\ batch' = <<>> /\ dropped' = dropped \cup InList(batch) /\ Fault
        /\ UNCHANGED <<buffer, sent, work, over, attempts, doubled>>
    BY <1>5 DEF ManagerCrash
  <2>2. InList(batch') = {}
    BY <2>1 DEF InList
  <2>3. c1 = 0
    BY <1>p, <2>2, NothingLeft
  <2>4. Seen \subseteq Seen'
    BY <2>1, <2>2 DEF Seen, InWork
  <2>5. a1 = a /\ b1 = b /\ d1 = d /\ h1 = h /\ k1 >= k + 1
    BY <1>a, <1>f, <1>p, <2>1
  <2> QED  BY <1>i, <2>3, <2>4, <2>5 DEF Stays
<1>6. ASSUME BrokerRestart PROVE Stays
  <2>1. /\ sent' = <<>> /\ dropped' = dropped \cup InList(sent) /\ Fault
        /\ UNCHANGED <<buffer, batch, work, over, attempts, doubled>>
    BY <1>6 DEF BrokerRestart
  <2>2. InList(sent') = {}
    BY <2>1 DEF InList
  <2>3. d1 = 0
    BY <1>p, <2>2, NothingLeft
  <2>4. Seen \subseteq Seen'
    BY <2>1, <2>2 DEF Seen, InWork
  <2>5. a1 = a /\ b1 = b /\ c1 = c /\ h1 = h /\ k1 >= k + 1
    BY <1>a, <1>f, <1>p, <2>1
  <2> QED  BY <1>i, <2>3, <2>4, <2>5 DEF Stays
<1>7. ASSUME NEW w \in EventWorkers, process_event(w) PROVE Stays
  <2>1. PICK m \in Message : m = Head(sent)
    BY <1>t, <1>7, HeadTailProperties DEF process_event
  <2>2. PICK x \in 0..Retries : x = TriesOf(m, e)
    BY <1>t, OneMore
  <2>3. m.event \in Events /\ m.retries \in 0..(Retries - 1)
    BY DEF Message
  <2>4. PICK v \in Work : v = [event |-> m.event, retries |-> m.retries, done |-> 0]
    <3>1. [event |-> m.event, retries |-> m.retries, done |-> 0] \in Work
      BY <1>0, <2>3 DEF Work
    <3> QED  BY <3>1, Zenon
  <2>5. /\ work[w] = NoEvent /\ work' = [work EXCEPT ![w] = v] /\ sent' = Tail(sent) /\ sent # <<>>
        /\ attempts' = [attempts EXCEPT ![m.event] = attempts[m.event] + 1]
        /\ UNCHANGED <<buffer, batch, over, doubled, dropped, eventFaults>>
    BY <1>7, <2>1, <2>4 DEF process_event
  <2>6. v # NoEvent /\ v.event = m.event /\ v.retries = m.retries
    BY <1>0, <2>4 DEF NoEvent
  <2>7. PICK y \in 0..Retries : y = TriesAfter(v, e)
    BY <1>t, TriesOfWorker
  <2>8. h1 = h + y
    <3>1. TriesAfter(work[w], e) = 0
      BY <2>5 DEF TriesAfter
    <3>2. h1 + 0 = h + y
      BY <1>a, <1>p, <1>t, <2>5, <2>7, <3>1, TriesOfWorker
    <3> QED  BY <3>2
  <2>9. d = x + d1 /\ InList(sent) = {m.event} \cup InList(sent')
    BY <1>a, <1>p, <1>t, <2>1, <2>2, <2>5, HeadAndTail
  <2>10. b1 = b /\ c1 = c /\ k1 = k
    BY <1>a, <1>p, <1>s, <2>5
  <2>11. Seen \subseteq Seen' /\ m.event \in Seen'
    <3>1. work'[w] = v /\ \A o \in EventWorkers : work[o] # NoEvent => work'[o] = work[o]
      BY <1>t, <2>5
    <3>2. m.event \in InWork'
      BY <2>6, <3>1 DEF InWork
    <3>3. InWork \subseteq InWork'
      BY <3>1 DEF InWork
    <3> QED  BY <2>5, <2>9, <3>2, <3>3 DEF Seen
  <2>12. CASE m.event = e
    <3>1. x = y + 1
      BY <1>0, <2>2, <2>3, <2>6, <2>7, <2>12 DEF TriesOf, TriesAfter
    <3>2. a1 = a + 1
      BY <1>a, <1>p, <1>t, <2>5, <2>12
    <3> QED  BY <1>i, <2>8, <2>9, <2>10, <2>11, <2>12, <3>1, <3>2 DEF Stays
  <2>13. CASE m.event # e
    <3>1. x = 0 /\ y = 0
      BY <2>2, <2>6, <2>7, <2>13 DEF TriesOf, TriesAfter
    <3>2. a1 = a
      BY <1>a, <1>p, <1>t, <2>5, <2>13
    <3> QED  BY <1>i, <2>8, <2>9, <2>10, <2>11, <3>1, <3>2 DEF Stays
  <2> QED  BY <2>12, <2>13
<1>8. ASSUME NEW w \in EventWorkers, handle(w) PROVE Stays
  <2>1. work[w] # NoEvent /\ UNCHANGED <<buffer, batch, sent, attempts, doubled, dropped, eventFaults>>
    BY <1>8 DEF handle
  <2>2. PICK u \in Work : u = work[w]
    BY <1>t, <2>1
  <2>3. PICK x \in 0..Retries : x = TriesAfter(u, e)
    BY <1>t, TriesOfWorker
  <2>4. a1 = a /\ b1 = b /\ c1 = c /\ d1 = d /\ k1 = k
    BY <1>a, <1>p, <1>s, <2>1
  <2>5. CASE work[w].done + 1 < Chain /\ work' = [work EXCEPT ![w].done = @ + 1] /\ UNCHANGED over
    <3>1. u.done + 1 \in 0..Chain
      <4>1. u.done \in 0..Chain
        BY DEF Work
      <4> QED  BY <1>0, <2>2, <2>5, <4>1
    <3>2. PICK v \in Work : v = [u EXCEPT !.done = u.done + 1]
      <4>1. [u EXCEPT !.done = u.done + 1] \in Work
        BY <3>1 DEF Work
      <4> QED  BY <4>1, Zenon
    <3>3. v.event = u.event /\ v.retries = u.retries /\ v.done = u.done + 1
      BY <3>2 DEF Work
    <3>4. v # NoEvent
      BY <1>0, <3>1, <3>3 DEF NoEvent
    <3>5. work' = [work EXCEPT ![w] = v]
      BY <2>2, <2>5, <3>2
    <3>6. TriesAfter(v, e) = x
      BY <2>1, <2>2, <2>3, <3>3, <3>4 DEF TriesAfter
    <3>7. h1 + x = h + x
      <4>1. v \in Work \cup {NoEvent}
        OBVIOUS
      <4>2. Held([work EXCEPT ![w] = v], e) + TriesAfter(work[w], e)
              = Held(work, e) + TriesAfter(v, e)
        BY <1>t, <4>1, TriesOfWorker
      <4> QED  BY <1>a, <1>p, <2>2, <2>3, <3>5, <3>6, <4>2
    <3>8. Seen \subseteq Seen'
      <4>1. work'[w] = v /\ \A o \in EventWorkers \ {w} : work'[o] = work[o]
        BY <1>t, <3>5
      <4>2. InWork \subseteq InWork'
        BY <2>2, <3>3, <3>4, <4>1 DEF InWork
      <4> QED  BY <2>1, <2>5, <4>2 DEF Seen
    <3> QED  BY <1>i, <2>4, <3>7, <3>8 DEF Stays
  <2>6. CASE work' = [work EXCEPT ![w] = NoEvent] /\ over' = over \cup {work[w].event}
    <3>1. TriesAfter(NoEvent, e) = 0
      BY DEF TriesAfter
    <3>2. h1 + x = h + 0
      BY <1>a, <1>p, <1>t, <2>2, <2>3, <2>6, <3>1, TriesOfWorker
    <3>3. Seen \subseteq Seen'
      <4>1. \A o \in EventWorkers \ {w} : work'[o] = work[o]
        BY <1>t, <2>6
      <4>2. InWork \subseteq InWork' \cup over'
        BY <2>6, <4>1 DEF InWork
      <4> QED  BY <2>1, <2>6, <4>2 DEF Seen
    <3> QED  BY <1>0, <1>i, <2>4, <3>2, <3>3 DEF Stays
  <2> QED  BY <1>8, <2>5, <2>6 DEF handle
<1>9. ASSUME NEW w \in EventWorkers, work[w] # NoEvent, work' = [work EXCEPT ![w] = NoEvent]
      PROVE  \E u \in Work, x \in 0..Retries :
                 /\ u = work[w] /\ x = TriesAfter(u, e) /\ h = h1 + x
                 /\ InWork \subseteq InWork' \cup {u.event}
                 /\ u.event \in Events /\ u.retries \in 0..(Retries - 1)
  <2>1. PICK u \in Work : u = work[w]
    BY <1>t, <1>9
  <2>2. PICK x \in 0..Retries : x = TriesAfter(u, e)
    BY <1>t, TriesOfWorker
  <2>3. TriesAfter(NoEvent, e) = 0
    BY DEF TriesAfter
  <2>4. h1 + x = h + 0
    BY <1>a, <1>p, <1>t, <1>9, <2>1, <2>2, <2>3, TriesOfWorker
  <2>5. \A o \in EventWorkers \ {w} : work'[o] = work[o]
    BY <1>t, <1>9
  <2>6. InWork \subseteq InWork' \cup {u.event}
    BY <2>1, <2>5 DEF InWork
  <2>7. u.event \in Events /\ u.retries \in 0..(Retries - 1)
    BY DEF Work
  <2>8. h = h1 + x
    BY <1>0, <2>4
  <2> QED  BY <2>1, <2>2, <2>6, <2>7, <2>8
<1>10. ASSUME NEW w \in EventWorkers, push_failed_event(w) PROVE Stays
  <2>1. /\ work[w] # NoEvent /\ work' = [work EXCEPT ![w] = NoEvent]
        /\ UNCHANGED <<batch, sent, attempts, doubled, dropped, eventFaults>>
    BY <1>10 DEF push_failed_event
  <2>2. PICK u \in Work, x \in 0..Retries :
                 /\ u = work[w] /\ x = TriesAfter(u, e) /\ h = h1 + x
                 /\ InWork \subseteq InWork' \cup {u.event}
                 /\ u.event \in Events /\ u.retries \in 0..(Retries - 1)
    BY <1>9, <2>1
  <2>3. a1 = a /\ c1 = c /\ d1 = d /\ k1 = k
    BY <1>a, <1>p, <1>s, <2>1
  <2>4. CASE u.retries + 1 >= Retries
    <3>1. over' = over \cup {u.event} /\ buffer' = buffer
      BY <1>10, <2>2, <2>4 DEF push_failed_event
    <3>2. b1 = b
      BY <1>a, <1>p, <3>1
    <3>3. Seen \subseteq Seen'
      BY <2>1, <2>2, <3>1 DEF Seen
    <3> QED  BY <1>0, <1>i, <2>2, <2>3, <3>2, <3>3 DEF Stays
  <2>5. CASE ~(u.retries + 1 >= Retries)
    <3>1. PICK m \in Message : m = [event |-> u.event, retries |-> u.retries + 1]
      <4>1. u.retries + 1 \in 0..(Retries - 1)
        BY <1>0, <2>2, <2>5
      <4>2. [event |-> u.event, retries |-> u.retries + 1] \in Message
        BY <2>2, <4>1 DEF Message
      <4> QED  BY <4>2, Zenon
    <3>2. buffer' = Append(buffer, m) /\ over' = over
      BY <1>10, <2>2, <2>5, <3>1 DEF push_failed_event
    <3>3. TriesOf(m, e) = x
      <4>1. m.event = u.event /\ m.retries = u.retries + 1 /\ u # NoEvent
        BY <2>1, <2>2, <3>1
      <4>2. Retries - (u.retries + 1) = Retries - u.retries - 1
        BY <1>0, <2>2
      <4> QED  BY <2>2, <4>1, <4>2 DEF TriesOf, TriesAfter
    <3>4. b1 = b + x /\ InList(buffer') = InList(buffer) \cup {m.event}
      BY <1>a, <1>p, <1>t, <3>2, <3>3, OneMore
    <3>5. Seen \subseteq Seen'
      BY <2>1, <2>2, <3>1, <3>2, <3>4 DEF Seen
    <3> QED  BY <1>0, <1>i, <2>2, <2>3, <3>4, <3>5 DEF Stays
  <2> QED  BY <2>4, <2>5
<1>11. ASSUME NEW w \in EventWorkers, EventWorkerCrash(w) PROVE Stays
  <2>1. /\ work[w] # NoEvent /\ work' = [work EXCEPT ![w] = NoEvent] /\ Fault
        /\ UNCHANGED <<buffer, batch, over, attempts, doubled, dropped>>
    BY <1>11 DEF EventWorkerCrash
  <2>2. PICK u \in Work, x \in 0..Retries :
                 /\ u = work[w] /\ x = TriesAfter(u, e) /\ h = h1 + x
                 /\ InWork \subseteq InWork' \cup {u.event}
                 /\ u.event \in Events /\ u.retries \in 0..(Retries - 1)
    BY <1>9, <2>1
  <2>3. PICK m \in Message : m = [event |-> u.event, retries |-> u.retries]
    <3>1. [event |-> u.event, retries |-> u.retries] \in Message
      BY <2>2 DEF Message
    <3> QED  BY <3>1, Zenon
  <2>4. sent' = <<m>> \o sent
    BY <1>11, <2>2, <2>3 DEF EventWorkerCrash
  <2>5. PICK y \in 0..Retries : y = TriesOf(m, e)
    BY <1>t, OneMore
  <2>6. d1 = y + d /\ InList(sent') = {m.event} \cup InList(sent)
    BY <1>a, <1>p, <1>t, <2>4, <2>5, OneMore
  <2>7. y <= x + 1
    <3>1. m.event = u.event /\ m.retries = u.retries /\ u # NoEvent
      BY <2>1, <2>2, <2>3
    <3>2. CASE u.event = e
      BY <1>0, <2>2, <2>5, <3>1, <3>2 DEF TriesOf, TriesAfter
    <3>3. CASE u.event # e
      BY <1>0, <2>2, <2>5, <3>1, <3>3 DEF TriesOf, TriesAfter
    <3> QED  BY <3>2, <3>3
  <2>8. Seen \subseteq Seen'
    BY <2>1, <2>2, <2>3, <2>6 DEF Seen
  <2>9. a1 = a /\ b1 = b /\ c1 = c /\ k1 >= k + 1
    BY <1>a, <1>f, <1>p, <2>1
  <2> QED  BY <1>0, <1>i, <2>2, <2>6, <2>7, <2>8, <2>9 DEF Stays
<1>12. ASSUME UNCHANGED saltBufferVars PROVE Stays
  <2>1. UNCHANGED <<buffer, batch, sent, work, over, attempts, doubled, dropped, eventFaults>>
    BY <1>12 DEF saltBufferVars
  <2>2. Seen' = Seen
    BY <2>1 DEF Seen, InWork
  <2>3. a1 = a /\ b1 = b /\ c1 = c /\ d1 = d /\ h1 = h /\ k1 = k
    BY <1>a, <1>p, <1>s, <2>1
  <2> QED  BY <1>i, <2>2, <2>3 DEF Stays
<1>13. Stays
  BY <1>1, <1>2, <1>3, <1>4, <1>5, <1>6, <1>7, <1>8, <1>10, <1>11, <1>12
     DEF SaltBufferNext, Manager, EventWorker
<1>14. Left(e)' = b1 + c1 + d1 + h1
  BY <1>p DEF Left
<1> QED  BY <1>p, <1>13, <1>14 DEF Stays

\* The invariant of the events' way.
LEMMA EventsInvariant == SaltBufferSpec => []EventsInv
<1>1. EventsInv /\ [SaltBufferNext]_saltBufferVars => EventsInv'
  BY EventsStayTyped, AttemptsStayBounded DEF EventsInv, AttemptsInv
<1> QED  BY <1>1, InitEventsInv, PTL DEF SaltBufferSpec

\* What is left counts on top of what was tried.
LEMMA AttemptsInBounds == EventsInv => AttemptsBounded
<1> SUFFICES ASSUME EventsInv, NEW e \in Events
             PROVE  attempts[e] <= Bound(doubled, eventFaults, e)
  BY DEF AttemptsBounded, Bound
<1>1. Tries(buffer, e) \in Nat /\ Tries(batch, e) \in Nat /\ Tries(sent, e) \in Nat
  BY TriesAreFinite DEF EventsInv, EventsTyped, Tries
<1>2. Held(work, e) \in Nat /\ attempts[e] \in Nat
  BY HeldIsNat DEF EventsInv, EventsTyped
<1>3. Bound(doubled, eventFaults, e) \in Nat
  <2>1. eventFaults \in Nat
    BY SaltBufferAssumption DEF EventsInv, EventsTyped, SaltBufferAssumption
  <2> QED  BY <2>1, BoundGrows
<1> QED  BY <1>1, <1>2, <1>3 DEF EventsInv, AttemptsInv, Left

\* The handlers get an event at most `Retries' times, and once more for each fault; an event
\* that was sent although it seemed not, that often for each fault.
THEOREM TriesOfEventsBounded == SaltBufferSpec => []AttemptsBounded
BY EventsInvariant, AttemptsInBounds, PTL
-----------------------------------------------------------------------------
(* Both together, as MCRetries puts them. *)

\* What either part keeps while it is at work, the other keeps by standing still.
THEOREM BothAreCounted == ASSUME InTime PROVE RetriesSpec => [](TypeInv /\ RunsInv /\ EventsInv)
<1> DEFINE Inv == TypeInv /\ RunsInv /\ EventsInv
<1>1. RetriesInit => Inv
  BY TypeInit, RunsInit, InitEventsInv DEF RetriesInit
<1>2. Inv /\ [RetriesNext]_<<at_work, vars, saltBufferVars>> => Inv'
  <2> SUFFICES ASSUME Inv, [RetriesNext]_<<at_work, vars, saltBufferVars>> PROVE Inv'
    OBVIOUS
  <2>1. [Next]_vars /\ [SaltBufferNext]_saltBufferVars
    BY DEF RetriesNext
  <2>2. TypeInv' /\ RunsInv'
    BY <2>1, TypeNext, RunsNext
  <2>3. EventsInv'
    BY <2>1, EventsStayTyped, AttemptsStayBounded DEF EventsInv, AttemptsInv
  <2> QED  BY <2>2, <2>3
<1> HIDE DEF Inv
<1>3. RetriesSpec => []Inv
  BY <1>1, <1>2, PTL DEF RetriesSpec
<1> QED  BY <1>3, PTL DEF Inv

\* What fails is not run again without end: neither the job of a minion, if answers come
\* in time, nor the handlers of an event.
THEOREM NothingIsRetriedForEver == ASSUME InTime PROVE RetriesSpec => []RetriesBounded
<1>1. TypeInv /\ RunsInv /\ EventsInv => RetriesBounded
  <2> SUFFICES ASSUME TypeInv, RunsInv, EventsInv PROVE RetriesBounded
    OBVIOUS
  <2>1. TypeOK /\ RunsBounded
    BY DEF TypeInv, RunsInv, MinionRuns, RunsBounded, Limit
  <2>2. SaltBufferTypeOK
    BY DEF EventsInv, EventsTyped, SaltBufferTypeOK
  <2>3. AttemptsBounded
    BY AttemptsInBounds
  <2> QED  BY <2>1, <2>2, <2>3 DEF RetriesBounded
<1> QED  BY <1>1, BothAreCounted, PTL
=============================================================================

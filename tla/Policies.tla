------------------------------ MODULE Policies ------------------------------
(***************************************************************************)
(* Tasks of type 'policy' on their minions: they take in minions that join *)
(* the target collection, wait for their turn in the minion's queue        *)
(* (PolicyOrdering), and go to sleep in wait_minions instead of finishing. *)
(* The jobs themselves are in TaskLifespan and Jobs: here a minion in work *)
(* answers, and is retried at most MaxRetries times.  One Salt master, no  *)
(* batches.                                                                *)
(***************************************************************************)
EXTENDS PolicyOrdering, FiniteSets

CONSTANTS
    Policies, Minions, Collections,
    Setups,       \* collections and requirements given to the policies
    MaxRetries,   \* task.max_retries
    MaxStops      \* bound: stops by users

VARIABLES
    status,    \* policy -> task status
    collOf,    \* policy -> its target collection
    reqs,      \* policy -> its requirements
    joined,    \* minions the target queries match
    docs,      \* minion -> its policies, in the order of the documents
    tm,        \* <<policy, minion>> -> task minion status
    runs,      \* <<policy, minion>> -> jobs so far
    wPc, wQueue, wTask, wWas, wPlan, wNew,   \* the tasks watcher
    stops      \* what MaxStops counts

vars == <<status, collOf, reqs, joined, docs, tm, runs,
          wPc, wQueue, wTask, wWas, wPlan, wNew, stops>>
wvars == <<wPc, wQueue, wTask, wWas, wPlan, wNew>>
fixed == <<collOf, reqs>>

TM == Policies \X Minions
None == "none"
TaskStatus == {"created", "wait_minions", "running", "stopping", "stopped"}
TaskMinionStatus == {"pending", "blocked", "unreachable", "busy", "in_work",
                     "success", "failed"}
Requirement == [task : Policies, result : Results]

(* TaskService.__validate_requirements: other policies of the collection.  *)
ValidRequirements(p, R, coll) == \A r \in R : r.task # p /\ coll[r.task] = coll[p]

ASSUME PoliciesAssumption ==
    /\ MaxRetries \in Nat /\ MaxStops \in Nat
    /\ \A s \in Setups :
          /\ s.coll \in [Policies -> Collections]
          /\ s.reqs \in [Policies -> SUBSET Requirement]
          /\ \A p \in Policies : ValidRequirements(p, s.reqs[p], s.coll)

needs == [p \in Policies |-> {r.task : r \in reqs[p]}]
Queue(m) == QueueOf(docs[m], collOf, needs)

Init ==
    /\ status = [p \in Policies |-> "created"]
    /\ \E s \in Setups : collOf = s.coll /\ reqs = s.reqs
    /\ joined = {}
    /\ docs = [m \in Minions |-> <<>>]
    /\ tm = [x \in TM |-> "none"] /\ runs = [x \in TM |-> 0]
    /\ wPc = "idle" /\ wQueue = {} /\ wTask = None
    /\ wWas = "stopping" /\ wPlan = {} /\ wNew = FALSE
    /\ stops = 0
-----------------------------------------------------------------------------
JoinCollection(m) ==
    /\ m \notin joined
    /\ joined' = joined \cup {m}
    /\ UNCHANGED <<status, fixed, docs, tm, runs, wvars, stops>>

RunTask(p) ==
    /\ status[p] \in {"created", "stopped"}
    /\ status' = [status EXCEPT ![p] = "running"]
    /\ UNCHANGED <<fixed, joined, docs, tm, runs, wvars, stops>>

StopTask(p) ==
    /\ status[p] \in {"running", "wait_minions"}
    /\ stops < MaxStops
    /\ stops' = stops + 1
    /\ status' = [status EXCEPT ![p] = "stopping"]
    /\ tm' = [x \in TM |-> IF x[1] = p /\ tm[x] = "busy" THEN "pending" ELSE tm[x]]
    /\ UNCHANGED <<fixed, joined, docs, runs, wvars>>

\* process_task_job_return, or what the jobs watcher does after a time-out.
MinionReturns(x) ==
    /\ tm[x] = "in_work"
    /\ \/ tm' = [tm EXCEPT ![x] = "success"]
       \/ tm' = [tm EXCEPT ![x] = IF runs[x] >= MaxRetries THEN "failed" ELSE "pending"]
    /\ UNCHANGED <<status, fixed, joined, docs, runs, wvars, stops>>
-----------------------------------------------------------------------------
(* The tasks watcher, one policy after the other by the status it had when *)
(* the active tasks were listed.                                           *)
ReadTasks ==
    /\ wPc = "idle"
    /\ wQueue' = {q \in Policies \X {"running", "wait_minions", "stopping"} :
                     status[q[1]] = q[2]}
    /\ wPc' = "next"
    /\ UNCHANGED <<status, fixed, joined, docs, tm, runs, wTask, wWas, wPlan, wNew, stops>>

NextTask(q) ==
    /\ wPc = "next" /\ q \in wQueue
    /\ wQueue' = wQueue \ {q}
    /\ wTask' = q[1] /\ wWas' = q[2]
    /\ wPc' = IF q[2] = "stopping" THEN "stopping" ELSE "fill"
    /\ UNCHANGED <<status, fixed, joined, docs, tm, runs, wPlan, wNew, stops>>

EndPass ==
    /\ wPc = "next" /\ wQueue = {}
    /\ wPc' = "idle"
    /\ UNCHANGED <<status, fixed, joined, docs, tm, runs,
                   wQueue, wTask, wWas, wPlan, wNew, stops>>

\* TaskLifespanService lives as long as one task is handled.
Goto(pc) == wPc' = pc /\ UNCHANGED <<wTask, wWas, wNew>>
Leave == wPc' = "next" /\ wTask' = None /\ wWas' = "stopping" /\ wNew' = FALSE

(* fill_task_minions: documents for the target's minions that have none.   *)
New == {m \in joined : tm[<<wTask, m>>] = "none"}

FillTaskMinions ==
    /\ wPc = "fill"
    /\ docs' = [m \in Minions |-> IF m \in New THEN Append(docs[m], wTask) ELSE docs[m]]
    /\ tm' = [x \in TM |-> IF x \in {wTask} \X New THEN "pending" ELSE tm[x]]
    /\ wPc' = IF wWas = "wait_minions" /\ New # {} THEN "resume" ELSE "check"
    /\ UNCHANGED <<status, fixed, joined, runs, wQueue, wTask, wWas, wPlan, wNew, stops>>

(* check_policy_requirements_task_minions: what it reads, then what it     *)
(* writes, whatever the statuses are by then.                              *)
Exec(p, m) ==
    SelectSeq(Queue(m), LAMBDA q : q = p \/ IsActivePredecessor(status[q], tm[<<q, m>>]))

CheckedStatus(p, m) ==
    ExecutionStatus(p, Exec(p, m), [q \in Policies |-> tm[<<q, m>>]], reqs[p])

CheckRequirements ==
    /\ wPc = "check"
    /\ wPlan' = {c \in ({wTask} \X Minions) \X {"pending", "blocked", "unreachable"} :
                    /\ tm[c[1]] \in {"pending", "blocked", "unreachable"} \ {c[2]}
                    /\ c[2] = CheckedStatus(wTask, c[1][2])}
    /\ wPc' = "plan"
    /\ UNCHANGED <<status, fixed, joined, docs, tm, runs, wQueue, wTask, wWas, wNew, stops>>

WriteChecked ==
    /\ wPc = "plan"
    /\ tm' = [x \in TM |-> IF \E s \in TaskMinionStatus : <<x, s>> \in wPlan
                           THEN CHOOSE s \in TaskMinionStatus : <<x, s>> \in wPlan
                           ELSE tm[x]]
    /\ wPlan' = {}
    /\ wPc' = IF wWas = "running" THEN "busy" ELSE "asleep"
    /\ UNCHANGED <<status, fixed, joined, docs, runs, wQueue, wTask, wWas, wNew, stops>>

(* handle_wait_minion_status wakes the policy up for a pending minion.     *)
Mine == {<<wTask, m>> : m \in Minions}

\* Mutant: only a minion that is new wakes the policy up.
CheckPending_Sleeps ==
    /\ wPc = "asleep"
    /\ Leave
    /\ UNCHANGED <<status, fixed, joined, docs, tm, runs, wQueue, wPlan, stops>>

CheckPending ==
    /\ wPc = "asleep"
    /\ \/ (\E x \in Mine : tm[x] = "pending") /\ Goto("resume")
       \/ (\A x \in Mine : tm[x] # "pending") /\ Leave
    /\ UNCHANGED <<status, fixed, joined, docs, tm, runs, wQueue, wPlan, stops>>

(* check_busy_task_minions, as in TaskLifespan (jobs of state.apply tasks  *)
(* are left to that module).                                               *)
Busy(x) == \E p \in Policies \ {x[1]} : tm[<<p, x[2]>>] = "in_work"

CheckBusy ==
    /\ wPc = "busy"
    /\ tm' = [x \in TM |-> IF x \in Mine /\ tm[x] = "pending" /\ Busy(x)
                           THEN "busy" ELSE tm[x]]
    /\ wPc' = "unbusy"
    /\ UNCHANGED <<status, fixed, joined, docs, runs, wQueue, wTask, wWas, wPlan, wNew, stops>>

CheckUnbusy ==
    /\ wPc = "unbusy"
    /\ tm' = [x \in TM |-> IF x \in Mine /\ tm[x] = "busy" /\ ~Busy(x)
                           THEN "pending" ELSE tm[x]]
    /\ wPc' = "take"
    /\ UNCHANGED <<status, fixed, joined, docs, runs, wQueue, wTask, wWas, wPlan, wNew, stops>>

(* create_job for the minions that are pending; the count of active jobs   *)
(* is taken as that of the minions in work.                                *)
CreateJob ==
    /\ wPc = "take"
    /\ LET taken == {x \in Mine : tm[x] = "pending"} IN
          /\ tm' = [x \in TM |-> IF x \in taken THEN "in_work" ELSE tm[x]]
          /\ runs' = [x \in TM |-> IF x \in taken THEN runs[x] + 1 ELSE runs[x]]
          /\ wNew' = (taken # {} \/ \E x \in Mine : tm[x] = "in_work")
    /\ wPc' = "decide"
    /\ UNCHANGED <<status, fixed, joined, docs, wQueue, wTask, wWas, wPlan, stops>>

Decide ==
    /\ wPc = "decide"
    /\ LET left == wNew \/ \E x \in Mine :
                              tm[x] \in {"pending", "busy", "in_work", "blocked"}
       IN  (left /\ Leave) \/ (~left /\ Goto("sleep"))
    /\ UNCHANGED <<status, fixed, joined, docs, tm, runs, wQueue, wPlan, stops>>

CheckStopping ==
    /\ wPc = "stopping"
    /\ LET left == \E x \in Mine : tm[x] = "in_work"
       IN  (left /\ Leave) \/ (~left /\ Goto("stop"))
    /\ UNCHANGED <<status, fixed, joined, docs, tm, runs, wQueue, wPlan, stops>>

\* update_task writes over whatever the status is by now.
UpdateTask ==
    /\ \/ wPc = "sleep" /\ status' = [status EXCEPT ![wTask] = "wait_minions"]
       \/ wPc = "resume" /\ status' = [status EXCEPT ![wTask] = "running"]
       \/ wPc = "stop" /\ status' = [status EXCEPT ![wTask] = "stopped"]
    /\ Leave
    /\ UNCHANGED <<fixed, joined, docs, tm, runs, wQueue, wPlan, stops>>
-----------------------------------------------------------------------------
Watcher ==
    \/ ReadTasks \/ (\E q \in wQueue : NextTask(q)) \/ EndPass
    \/ FillTaskMinions \/ CheckRequirements \/ WriteChecked \/ CheckPending
    \/ CheckBusy \/ CheckUnbusy \/ CreateJob \/ Decide \/ CheckStopping \/ UpdateTask

Next ==
    \/ Watcher
    \/ \E m \in Minions : JoinCollection(m)
    \/ \E p \in Policies : RunTask(p) \/ StopTask(p)
    \/ \E x \in TM : MinionReturns(x)

Spec == Init /\ [][Next]_vars

(* The watcher runs, and a minion in work answers or is timed out.         *)
Fairness == WF_vars(Watcher) /\ \A x \in TM : WF_vars(MinionReturns(x))

FairSpec == Spec /\ Fairness
-----------------------------------------------------------------------------
(* Properties. *)

Taken == {x \in TM : tm[x] # "in_work" /\ tm'[x] = "in_work"}

\* A policy is launched on a minion only with each of its requirements met by
\* that minion, though the check wrote `pending` from an older reading.
RequirementsMet ==
    [][\A x \in Taken : \A r \in reqs[x[1]] : Satisfied(r.result, tm[<<r.task, x[2]>>])]_vars

\* CHANGELOG "ordered policy launch": a policy is launched on a minion when
\* those before it in the minion's queue are done.
OrderedLaunch ==
    [][\A x \in Taken : \A q \in Before(Queue(x[2]), x[1]) :
          IsActivePredecessor(status[q], tm[<<q, x[2]>>]) => tm[<<q, x[2]>>] \in Resolved]_vars

Started(p) == status[p] \in {"running", "wait_minions"}

\* A minion that joined the collection is served by each started policy: it does
\* not stay without a document, pending, blocked, busy or in work.
MinionServed ==
    \A x \in TM : (x[2] \in joined /\ Started(x[1]))
                     ~> (tm[x] \in Resolved \/ ~Started(x[1]))
=============================================================================

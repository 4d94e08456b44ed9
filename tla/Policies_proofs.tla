-------------------------- MODULE Policies_proofs --------------------------
(***************************************************************************)
(* A policy is launched on a minion with its requirements met, for every   *)
(* number of policies, minions and collections, every queue and all        *)
(* requirements that pass the validation.  The check reads the queue and   *)
(* writes `pending` later, another step finds the minion free, and a third *)
(* takes it: IInv says what `pending`, `busy` and the plan of the check    *)
(* are worth at each of these steps.  Neither the order of the queue nor   *)
(* which policies are active matters, so both stay unexpanded.             *)
(***************************************************************************)
EXTENDS Policies, TLAPS

Checked == {"pending", "blocked", "unreachable"}
Working == {"fill", "check", "plan", "busy", "unbusy", "take", "decide", "asleep"}
Pcs == Working \cup {"idle", "next", "sleep", "resume", "stopping", "stop"}
Listed == {"running", "wait_minions", "stopping"}

PTypes ==
    /\ tm \in [TM -> TaskMinionStatus \cup {"none"}]
    /\ reqs \in [Policies -> SUBSET Requirement]
    /\ wPc \in Pcs
    /\ wPc \in Working => wTask \in Policies
    /\ wQueue \subseteq Policies \X Listed

\* The requirements of a policy are met by a minion.
Met(x) == \A r \in reqs[x[1]] : Satisfied(r.result, tm[<<r.task, x[2]>>])

\* A minion that works for a policy, or would if it were not busy, meets the
\* requirements: they were checked, and what met them is final.
LaunchedMet == \A x \in TM : tm[x] \in {"busy", "in_work"} => Met(x)

\* Once what was checked is written, a pending minion of the policy at hand
\* meets its requirements.
PendingMet ==
    wPc \in {"busy", "unbusy", "take"} => \A x \in Mine : tm[x] = "pending" => Met(x)

\* What the check is about to write, older than the statuses it writes over.
PlanSound ==
    wPc = "plan" =>
        /\ wPlan \subseteq Mine \X Checked
        /\ \A c \in wPlan : /\ tm[c[1]] \in Checked
                            /\ c[2] = "pending" => Met(c[1])
        /\ \A x \in Mine :
              tm[x] = "pending" => Met(x) \/ \E s \in Checked : <<x, s>> \in wPlan

IInv == PTypes /\ LaunchedMet /\ PendingMet /\ PlanSound
-----------------------------------------------------------------------------
\* resolve_execution_status answers pending only if every requirement is
\* satisfied, whatever the queue.
LEMMA PendingIsSatisfied ==
  ASSUME NEW p, NEW exec, NEW st, NEW R, ExecutionStatus(p, exec, st, R) = "pending"
  PROVE  \A r \in R : Satisfied(r.result, st[r.task])
  BY DEF ExecutionStatus

\* The requirement check answers with one of its three statuses.
LEMMA CheckedStatusIsChecked ==
  ASSUME NEW p, NEW m
  PROVE  CheckedStatus(p, m) \in Checked
  BY DEF CheckedStatus, ExecutionStatus, Checked

\* A minion the check calls pending meets its policy's requirements.
LEMMA CheckedMeansMet ==
  ASSUME PTypes, NEW x \in TM, CheckedStatus(x[1], x[2]) = "pending"
  PROVE  Met(x)
<1> DEFINE st == [q \in Policies |-> tm[<<q, x[2]>>]]
<1>1. \A r \in reqs[x[1]] : Satisfied(r.result, st[r.task])
  BY PendingIsSatisfied DEF CheckedStatus
<1>2. \A r \in reqs[x[1]] : r.task \in Policies
  BY DEF PTypes, Requirement, TM
<1> QED
  BY <1>1, <1>2 DEF Met

\* A satisfied requirement is about a minion whose work is done.
LEMMA SatisfiedIsDone ==
  ASSUME NEW result \in Results, NEW s, Satisfied(result, s)
  PROVE  s \in {"success", "failed"}
  BY DEF Satisfied, Results

\* Nothing changes a minion whose work is done.
DoneStays == \A x \in TM : tm[x] \in {"success", "failed"} => tm'[x] = tm[x]

\* Requirements once met stay met: they are about minions that are done.
LEMMA MetStays ==
  ASSUME PTypes, DoneStays, reqs' = reqs, NEW x \in TM, Met(x)
  PROVE  Met(x)'
<1> SUFFICES ASSUME NEW r \in reqs[x[1]]
             PROVE  Satisfied(r.result, tm'[<<r.task, x[2]>>])
  BY DEF Met
<1>1. r.task \in Policies /\ r.result \in Results /\ <<r.task, x[2]>> \in TM
  BY DEF PTypes, Requirement, TM
<1>2. Satisfied(r.result, tm[<<r.task, x[2]>>])
  BY DEF Met
<1>3. tm[<<r.task, x[2]>>] \in {"success", "failed"}
  BY <1>1, <1>2, SatisfiedIsDone
<1> QED
  BY <1>1, <1>2, <1>3 DEF DoneStays

\* The invariant holds initially.
LEMMA InitIInv == Init => IInv
<1> SUFFICES ASSUME Init PROVE IInv
  OBVIOUS
<1>1. reqs \in [Policies -> SUBSET Requirement]
  BY PoliciesAssumption DEF Init
<1>2. PTypes
  BY <1>1 DEF Init, PTypes, Pcs, Working
<1> QED
  BY <1>2 DEF IInv, Init, LaunchedMet, PendingMet, PlanSound

\* Outside of the steps of the watcher a minion changes in few ways.
LEMMA OthersKeepIInv ==
  ASSUME IInv, UNCHANGED wvars, reqs' = reqs, DoneStays,
         tm' \in [TM -> TaskMinionStatus \cup {"none"}],
         \A x \in TM : tm'[x] # tm[x] =>
             /\ tm[x] \in {"busy", "in_work"}
             /\ tm'[x] \in {"pending", "success", "failed"}
  PROVE  IInv'
<1> USE DEF IInv
<1>1. PTypes'
  BY DEF PTypes, wvars
<1>2. \A x \in TM : Met(x) => Met(x)'
  BY MetStays
<1>3. LaunchedMet'
  BY <1>2 DEF LaunchedMet
<1>4. Mine' = Mine /\ (wPc \in Working => Mine \subseteq TM)
  BY DEF Mine, wvars, PTypes, TM
<1>5. PendingMet'
  BY <1>2, <1>4 DEF PendingMet, LaunchedMet, wvars, Working
<1>6. PlanSound'
  <2>1. SUFFICES ASSUME wPc = "plan" PROVE PlanSound'
    BY DEF PlanSound, wvars
  <2>2. \A c \in wPlan : c[1] \in TM /\ tm[c[1]] \in Checked
    BY <2>1, <1>4 DEF PlanSound, Working
  <2>3. \A c \in wPlan : tm'[c[1]] = tm[c[1]] /\ (c[2] = "pending" => Met(c[1])')
    BY <2>1, <2>2, <1>2 DEF PlanSound, Checked
  <2>4. \A x \in Mine : tm'[x] = "pending" =>
            Met(x)' \/ \E s \in Checked : <<x, s>> \in wPlan
    BY <2>1, <1>2, <1>4 DEF PlanSound, LaunchedMet, Working
  <2> QED
    BY <2>1, <2>2, <2>3, <2>4, <1>4 DEF PlanSound, wvars
<1> QED
  BY <1>1, <1>3, <1>5, <1>6

\* Users, new minions and answers do not disturb what the check relied on.
LEMMA EnvironmentKeepsIInv ==
  ASSUME IInv,
         \/ \E m \in Minions : JoinCollection(m)
         \/ \E p \in Policies : RunTask(p) \/ StopTask(p)
         \/ \E x \in TM : MinionReturns(x)
  PROVE  IInv' /\ DoneStays
<1> USE DEF IInv, PTypes
<1>1. CASE \E m \in Minions : JoinCollection(m)
  <2>1. UNCHANGED <<wvars, tm, reqs>>
    BY <1>1 DEF JoinCollection, fixed
  <2> QED
    BY <2>1, OthersKeepIInv DEF DoneStays
<1>2. CASE \E p \in Policies : RunTask(p)
  <2>1. UNCHANGED <<wvars, tm, reqs>>
    BY <1>2 DEF RunTask, fixed
  <2> QED
    BY <2>1, OthersKeepIInv DEF DoneStays
<1>3. CASE \E p \in Policies : StopTask(p)
  <2>1. UNCHANGED <<wvars, reqs>>
    BY <1>3 DEF StopTask, fixed
  <2>2. /\ tm' \in [TM -> TaskMinionStatus \cup {"none"}]
        /\ \A x \in TM : tm'[x] # tm[x] => tm[x] = "busy" /\ tm'[x] = "pending"
    BY <1>3 DEF StopTask, TaskMinionStatus
  <2>3. DoneStays
    BY <2>2 DEF DoneStays
  <2> QED
    BY <2>1, <2>2, <2>3, OthersKeepIInv
<1>4. CASE \E x \in TM : MinionReturns(x)
  <2>1. UNCHANGED <<wvars, reqs>>
    BY <1>4 DEF MinionReturns, fixed
  <2>2. /\ tm' \in [TM -> TaskMinionStatus \cup {"none"}]
        /\ \A x \in TM : tm'[x] # tm[x] =>
               tm[x] = "in_work" /\ tm'[x] \in {"pending", "success", "failed"}
    BY <1>4 DEF MinionReturns, TaskMinionStatus
  <2>3. DoneStays
    BY <2>2 DEF DoneStays
  <2> QED
    BY <2>1, <2>2, <2>3, OthersKeepIInv
<1> QED
  BY <1>1, <1>2, <1>3, <1>4

\* Steps of the watcher that leave the minions alone.
LEMMA QuietStepKeepsIInv ==
  ASSUME IInv,
         \/ ReadTasks \/ (\E q \in wQueue : NextTask(q)) \/ EndPass
         \/ CheckPending \/ Decide \/ CheckStopping \/ UpdateTask
  PROVE  IInv' /\ DoneStays
<1> USE DEF IInv
<1>1. UNCHANGED <<tm, reqs, wPlan>>
  BY DEF ReadTasks, NextTask, EndPass, CheckPending, Decide, CheckStopping, UpdateTask,
         fixed
<1>2. /\ wPc' \in {"next", "fill", "stopping", "idle", "resume", "sleep", "stop"}
      /\ wPc' = "fill" => wTask' \in Policies
      /\ wQueue' \subseteq Policies \X Listed
  BY DEF ReadTasks, NextTask, EndPass, CheckPending, Decide, CheckStopping, UpdateTask,
         Goto, Leave, PTypes, Listed
<1>3. PTypes'
  BY <1>1, <1>2 DEF PTypes, Pcs, Working
<1>4. LaunchedMet' /\ DoneStays
  BY <1>1 DEF LaunchedMet, DoneStays, Met
<1>5. PendingMet' /\ PlanSound'
  BY <1>2 DEF PendingMet, PlanSound
<1> QED
  BY <1>3, <1>4, <1>5

\* A minion that joined is pending before anything is checked.
LEMMA FillKeepsIInv ==
  ASSUME IInv, FillTaskMinions
  PROVE  IInv' /\ DoneStays
<1> USE DEF IInv
<1>1. /\ tm' \in [TM -> TaskMinionStatus \cup {"none"}]
      /\ \A x \in TM : tm'[x] # tm[x] => tm[x] = "none" /\ tm'[x] = "pending"
  BY DEF FillTaskMinions, PTypes, TaskMinionStatus, New, TM
<1>2. reqs' = reqs /\ wTask' = wTask /\ wQueue' = wQueue /\ wTask \in Policies
  BY DEF FillTaskMinions, fixed, PTypes, Working
<1>3. wPc' \in {"resume", "check"}
  BY DEF FillTaskMinions
<1>4. PTypes'
  BY <1>1, <1>2, <1>3 DEF PTypes, Pcs, Working
<1>5. DoneStays
  BY <1>1 DEF DoneStays
<1>6. LaunchedMet'
  BY <1>1, <1>2, <1>5, MetStays DEF LaunchedMet
<1> QED
  BY <1>3, <1>4, <1>5, <1>6 DEF PendingMet, PlanSound

\* The check plans only what it found, and reads every minion of the task.
LEMMA CheckKeepsIInv ==
  ASSUME IInv, CheckRequirements
  PROVE  IInv' /\ DoneStays
<1> USE DEF IInv
<1>1. UNCHANGED <<tm, reqs, wTask, wQueue>> /\ wTask \in Policies /\ wPc' = "plan"
  BY DEF CheckRequirements, fixed, PTypes, Working
<1>2. Mine \subseteq TM /\ Mine = {wTask} \X Minions /\ Mine' = Mine
  BY <1>1 DEF Mine, TM
<1>3. wPlan' = {c \in Mine \X Checked :
                   /\ tm[c[1]] \in Checked \ {c[2]}
                   /\ c[2] = CheckedStatus(wTask, c[1][2])}
  BY <1>2 DEF CheckRequirements, Checked
<1>4. PTypes' /\ LaunchedMet' /\ DoneStays
  BY <1>1 DEF PTypes, Pcs, Working, LaunchedMet, DoneStays, Met
<1>5. \A x \in Mine : x \in TM /\ x[1] = wTask /\ Met(x)' = Met(x)
  BY <1>1, <1>2 DEF TM, Met
<1>6. \A c \in wPlan' : c[2] = "pending" => Met(c[1])
  BY <1>3, <1>5, CheckedMeansMet
<1>7. \A x \in Mine :
        tm[x] = "pending" => Met(x) \/ \E s \in Checked : <<x, s>> \in wPlan'
  <2> SUFFICES ASSUME NEW x \in Mine, tm[x] = "pending", ~Met(x)
               PROVE  \E s \in Checked : <<x, s>> \in wPlan'
    OBVIOUS
  <2> DEFINE s == CheckedStatus(wTask, x[2])
  <2>1. s \in Checked
    BY CheckedStatusIsChecked
  <2>2. s # "pending"
    BY <1>5, CheckedMeansMet
  <2>3. <<x, s>> \in Mine \X Checked /\ tm[x] \in Checked \ {s}
    BY <2>1, <2>2 DEF Checked
  <2>4. <<x, s>> \in wPlan'
    BY <1>3, <2>3
  <2> QED
    BY <2>1, <2>4
<1>8. PlanSound'
  BY <1>1, <1>2, <1>3, <1>5, <1>6, <1>7 DEF PlanSound
<1> QED
  BY <1>1, <1>4, <1>8 DEF PendingMet

\* A minion that is pending now either met its requirements at the check, or is
\* written over, or does so by the plan itself.
LEMMA WriteKeepsIInv ==
  ASSUME IInv, WriteChecked
  PROVE  IInv' /\ DoneStays
<1> USE DEF IInv
<1>1. UNCHANGED <<reqs, wTask, wQueue>> /\ wTask \in Policies /\ wPc = "plan"
  BY DEF WriteChecked, fixed, PTypes, Working
<1>2. Mine \subseteq TM /\ Mine' = Mine
  BY <1>1 DEF Mine, TM
<1> DEFINE Planned(x, s) == <<x, s>> \in wPlan
<1>3. \A x, s : Planned(x, s) => x \in Mine /\ s \in Checked /\ s \in TaskMinionStatus
  BY <1>1 DEF PlanSound, Checked, TaskMinionStatus
<1>4. tm' = [x \in TM |-> IF \E s \in TaskMinionStatus : Planned(x, s)
                          THEN CHOOSE s \in TaskMinionStatus : Planned(x, s) ELSE tm[x]]
  BY DEF WriteChecked
<1>5. \A x \in TM : \/ tm'[x] = tm[x] /\ \A s : ~Planned(x, s)
                    \/ Planned(x, tm'[x])
  BY <1>3, <1>4
<1>6. tm' \in [TM -> TaskMinionStatus \cup {"none"}]
  <2>1. \A x \in TM : tm'[x] \in TaskMinionStatus \cup {"none"}
    BY <1>3, <1>5 DEF PTypes
  <2> QED
    BY <1>4, <2>1
<1>7. DoneStays
  BY <1>1, <1>5 DEF DoneStays, PlanSound, Checked
<1>8. \A x \in TM : Met(x) => Met(x)'
  BY <1>1, <1>7, MetStays
<1>9. wPc' \in {"busy", "asleep"}
  BY DEF WriteChecked
<1>10. PTypes'
  BY <1>1, <1>6, <1>9 DEF PTypes, Pcs, Working
<1>11. LaunchedMet'
  BY <1>3, <1>5, <1>8 DEF LaunchedMet, Checked
<1>12. \A x \in Mine : tm'[x] = "pending" => Met(x)'
  BY <1>1, <1>2, <1>5, <1>8 DEF PlanSound
<1> QED
  BY <1>2, <1>7, <1>9, <1>10, <1>11, <1>12 DEF PendingMet, PlanSound

\* The busy check and the creation of the job, for minions that meet the
\* requirements as long as they are pending.
LEMMA LaunchKeepsIInv ==
  ASSUME IInv, CheckBusy \/ CheckUnbusy \/ CreateJob
  PROVE  IInv' /\ DoneStays
<1> USE DEF IInv
<1>1. UNCHANGED <<reqs, wTask, wQueue>> /\ wTask \in Policies
      /\ wPc \in {"busy", "unbusy", "take"}
  BY DEF CheckBusy, CheckUnbusy, CreateJob, fixed, PTypes, Working
<1>2. Mine \subseteq TM /\ Mine' = Mine
  BY <1>1 DEF Mine, TM
<1>3. /\ tm' \in [TM -> TaskMinionStatus \cup {"none"}]
      /\ \A x \in TM : tm'[x] # tm[x] =>
             /\ x \in Mine
             /\ tm[x] \in {"pending", "busy"}
             /\ tm'[x] \in {"pending", "busy", "in_work"}
  <2>1. CASE CheckBusy
    BY <2>1 DEF CheckBusy, PTypes, TaskMinionStatus
  <2>2. CASE CheckUnbusy
    BY <2>2 DEF CheckUnbusy, PTypes, TaskMinionStatus
  <2>3. CASE CreateJob
    BY <2>3 DEF CreateJob, PTypes, TaskMinionStatus
  <2> QED
    BY <2>1, <2>2, <2>3
<1>4. DoneStays
  BY <1>3 DEF DoneStays
<1>5. \A x \in TM : Met(x) => Met(x)'
  BY <1>1, <1>4, MetStays
<1>6. wPc' \in {"unbusy", "take", "decide"}
  BY DEF CheckBusy, CheckUnbusy, CreateJob
<1>7. \A x \in Mine : tm[x] \in {"pending", "busy"} => Met(x)
  BY <1>1, <1>2 DEF PendingMet, LaunchedMet
<1>8. LaunchedMet'
  BY <1>3, <1>5, <1>7 DEF LaunchedMet
<1>9. PendingMet'
  BY <1>2, <1>3, <1>5, <1>7 DEF PendingMet
<1>10. PTypes'
  BY <1>1, <1>3, <1>6 DEF PTypes, Pcs, Working
<1> QED
  BY <1>4, <1>6, <1>8, <1>9, <1>10 DEF PlanSound

\* Every step keeps the invariant, and leaves minions that are done alone.
LEMMA NextKeepsIInv == IInv /\ [Next]_vars => IInv' /\ DoneStays
<1> SUFFICES ASSUME IInv, [Next]_vars PROVE IInv' /\ DoneStays
  OBVIOUS
<1>1. CASE UNCHANGED vars
  BY <1>1, OthersKeepIInv DEF vars, wvars, fixed, IInv, PTypes, DoneStays
<1>2. CASE Watcher
  BY <1>2, QuietStepKeepsIInv, FillKeepsIInv, CheckKeepsIInv, WriteKeepsIInv,
     LaunchKeepsIInv DEF Watcher
<1> QED
  BY <1>1, <1>2, EnvironmentKeepsIInv DEF Next

\* What launches a minion is create_job alone.
LEMMA TakenMeetRequirements ==
  ASSUME IInv, [Next]_vars, NEW x \in Taken
  PROVE  Met(x)
<1> USE DEF IInv, Taken
<1>1. CASE CreateJob
  <2>1. wPc = "take" /\ (tm'[x] # tm[x] => x \in Mine /\ tm[x] = "pending")
    BY <1>1 DEF CreateJob
  <2> QED
    BY <2>1 DEF PendingMet
<1>2. CASE ~CreateJob
  <2>1. \A y \in TM : tm[y] # "in_work" => tm'[y] # "in_work"
    <3>1. CASE WriteChecked
      <4>1. \A y, s : <<y, s>> \in wPlan => s \in Checked
        BY <3>1 DEF WriteChecked, PlanSound
      <4> DEFINE Planned(y, s) == <<y, s>> \in wPlan
      <4>2. tm' = [y \in TM |-> IF \E s \in TaskMinionStatus : Planned(y, s)
                                THEN CHOOSE s \in TaskMinionStatus : Planned(y, s)
                                ELSE tm[y]]
        BY <3>1 DEF WriteChecked
      <4>3. \A y \in TM : tm'[y] = tm[y] \/ Planned(y, tm'[y])
        BY <4>2
      <4> QED
        BY <4>1, <4>3 DEF Checked
    <3>2. CASE CheckBusy \/ CheckUnbusy \/ FillTaskMinions
      BY <3>2 DEF CheckBusy, CheckUnbusy, FillTaskMinions
    <3>3. CASE \E y \in TM : MinionReturns(y)
      BY <3>3 DEF MinionReturns, PTypes
    <3>4. CASE \E p \in Policies : StopTask(p)
      BY <3>4 DEF StopTask
    <3>5. CASE UNCHANGED tm
      BY <3>5
    <3> QED
      BY <1>2, <3>1, <3>2, <3>3, <3>4, <3>5
      DEF Next, Watcher, vars, JoinCollection, RunTask,
         ReadTasks, NextTask, EndPass, CheckRequirements, CheckPending, Decide,
         CheckStopping, UpdateTask
  <2> QED
    BY <2>1
<1> QED
  BY <1>1, <1>2

\* The inductive invariant.
THEOREM CheckIsRelied == Spec => []IInv
<1>1. IInv /\ [Next]_vars => IInv'
  BY NextKeepsIInv
<1> QED
  BY <1>1, InitIInv, PTL DEF Spec

\* "A policy is launched on a minion only with each of its requirements met", whatever
\* joins, answers and is stopped between the check, its writes and the launch.
THEOREM LaunchesMeetRequirements == Spec => RequirementsMet
<1>1. IInv /\ [Next]_vars =>
          [\A x \in Taken :
               \A r \in reqs[x[1]] : Satisfied(r.result, tm[<<r.task, x[2]>>])]_vars
  BY TakenMeetRequirements DEF Met
<1> QED
  BY <1>1, CheckIsRelied, PTL DEF Spec, RequirementsMet
=============================================================================

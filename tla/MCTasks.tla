------------------------------ MODULE MCTasks ------------------------------
(***************************************************************************)
(* Two tasks that want one minion, for TLC, with what goes on around them  *)
(* in three parts: answers that come late; answers in time and one stop by *)
(* a user; and the first task alone, which users stop, run and restart.    *)
(***************************************************************************)
EXTENDS TaskLifespan

CONSTANTS t1, t2

VARIABLE at_work   \* which of the three

AnswersInTime == \A p \in Returns : rstat[p] = "timeout" => rcode'[p] = rcode[p]

TasksInit == Init /\ at_work \in {"late answers", "a stop", "users"}
TasksNext ==
    \/ at_work = "late answers" /\ Next /\ UNCHANGED <<at_work, ops>>
    \/ at_work = "a stop" /\ Next /\ AnswersInTime /\ UNCHANGED <<at_work, rPc>>
                               /\ ops' < 2 /\ status'[t2] # "stopping"
    \/ at_work = "users" /\ Next /\ AnswersInTime /\ status'[t2] = "created" /\ UNCHANGED at_work
TasksSpec == TasksInit /\ [][TasksNext]_<<at_work, vars>>
=============================================================================

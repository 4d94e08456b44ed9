----------------------------- MODULE MCRetries -----------------------------
(***************************************************************************)
(* What is tried again, for TLC: a task's minion (TaskLifespan) and Salt's *)
(* events on their way to the handlers (SaltBuffer).  A behaviour has one  *)
(* of the two at work, while the other is as it began.                     *)
(***************************************************************************)
EXTENDS TaskLifespan, SaltBuffer

VARIABLE at_work   \* what is at work

TaskStep == at_work = "task"
EventsStep == at_work = "events"

RetriesInit == at_work \in {"task", "events"} /\ Init /\ SaltBufferInit
RetriesNext ==
    \/ TaskStep /\ Next /\ UNCHANGED <<at_work, saltBufferVars>>
    \/ EventsStep /\ SaltBufferNext /\ UNCHANGED <<at_work, vars>>

\* Fairness and EventsFairness, each where its own part is at work.
RetriesSpec ==
    /\ RetriesInit /\ [][RetriesNext]_<<at_work, vars, saltBufferVars>>
    /\ WF_vars(TaskStep /\ TasksWatcher)
    /\ WF_vars(TaskStep /\ (TimeoutRead \/ TimeoutWrite))
    /\ WF_vars(TaskStep /\ (RestartMinions \/ RestartStatus))
    /\ \A j \in Jids : /\ WF_vars(TaskStep /\ Launch(j)) /\ WF_vars(TaskStep /\ ReturnsCreated(j))
                       /\ WF_vars(TaskStep /\ FinishJob(j)) /\ WF_vars(TaskStep /\ TellError(j))
                       /\ WF_vars(TaskStep /\ WorkError(j))
    /\ \A p \in Returns : /\ WF_vars(TaskStep /\ TellReturn(p) /\ p \notin kiqRet)
                          /\ WF_vars(TaskStep /\ Worker(p))
                          /\ SF_vars(TaskStep /\ job[p[1]] = "running" /\ TimeoutReturn(p))
    /\ \A x \in TM : WF_vars(TaskStep /\ GetsOld(x))
    /\ WF_saltBufferVars(EventsStep /\ Manager)
    /\ \A w \in EventWorkers : WF_saltBufferVars(EventsStep /\ EventWorker(w))

\* What fails is not run again without end, be it the job of a minion or the handlers
\* of an event, whose retries are counted in the event wherever it is.
RetriesBounded == TypeOK /\ RunsBounded /\ SaltBufferTypeOK /\ AttemptsBounded
=============================================================================

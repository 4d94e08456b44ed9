------------------------------ MODULE JobLedger ------------------------------
(***************************************************************************)
(* What the two MongoDB collections `jobs` and `job_returns` promise to    *)
(* everything that reads them (task watcher, REST, taskiq workers): which  *)
(* status changes exist at all, whoever performs them and in whatever      *)
(* order events arrive.  Every action is one atomic write; the readers,    *)
(* the retries and the races that lead to the writes are in Jobs, which    *)
(* implements this module.  One Salt master is modelled, so a return is    *)
(* identified by <<jid, minion_id>>.                                       *)
(***************************************************************************)
EXTENDS Naturals

CONSTANTS Jids,        \* the job ids in play
          Minions,     \* the minion ids of the master
          TaskJobs,    \* jobs whose source.type is 'task'
          SystemJobs   \* jobs whose source.type is 'task_system' (pings)

ASSUME SourceAssumption ==
    /\ TaskJobs \subseteq Jids
    /\ SystemJobs \subseteq Jids
    /\ TaskJobs \cap SystemJobs = {}

VARIABLES
    job,      \* jid -> job status, "none" while there is no document
    rstat,    \* <<jid, minion>> -> return status, "none" without a document
    rcode,    \* <<jid, minion>> -> retcode, "null" until a minion answered
    kiqRet,   \* process_task_job_return messages sent to the default worker
    kiqErr    \* process_task_job_error messages sent to the default worker

lvars == <<job, rstat, rcode, kiqRet, kiqErr>>

JobStatus == {"starting", "running", "finished", "launch_error"}
JobReturnStatus == {"waiting", "success", "failed", "timeout", "ignored"}
Retcodes == {"zero", "nonzero"}
Replies == Retcodes \cup {"null"}    \* an event may carry no retcode at all
Returns == Jids \X Minions

\* JobReturnMessageHandler.normalize_data: only retcode 0 is a success.
StatusOf(rc) == IF rc = "zero" THEN "success" ELSE "failed"

\* Some return of the job is still waiting.
HasWaiting(j) == \E m \in Minions : rstat[<<j, m>>] = "waiting"

LTypeOK ==
    /\ job \in [Jids -> JobStatus \cup {"none"}]
    /\ rstat \in [Returns -> JobReturnStatus \cup {"none"}]
    /\ rcode \in [Returns -> Replies]
    /\ kiqRet \subseteq Returns
    /\ kiqErr \subseteq Jids

LInit ==
    /\ job = [j \in Jids |-> "none"]
    /\ rstat = [p \in Returns |-> "none"]
    /\ rcode = [p \in Returns |-> "null"]
    /\ kiqRet = {}
    /\ kiqErr = {}
-----------------------------------------------------------------------------
(* JobService.create inserts the document. *)
Create(j) ==
    /\ job[j] = "none"
    /\ job' = [job EXCEPT ![j] = "starting"]
    /\ UNCHANGED <<rstat, rcode, kiqRet, kiqErr>>

(* JobNewMessageHandler.get_job: running, whatever the status was; a job   *)
(* started outside SaltBox gets its document here.                         *)
Run(j) ==
    /\ job' = [job EXCEPT ![j] = "running"]
    /\ UNCHANGED <<rstat, rcode, kiqRet, kiqErr>>

(* JobNewMessageHandler.process: bulk_create under the unique index.       *)
CreateReturns(j, found, missing) ==
    /\ job[j] # "none"
    /\ found \cap missing = {}
    /\ \A m \in found \cup missing : rstat[<<j, m>>] = "none"
    /\ rstat' = [p \in Returns |-> IF p[1] = j /\ p[2] \in found THEN "waiting"
                              ELSE IF p[1] = j /\ p[2] \in missing THEN "ignored"
                              ELSE rstat[p]]
    /\ UNCHANGED <<job, rcode, kiqRet, kiqErr>>

(* JobReturnMessageHandler._update_job_return_object: guarded on retcode.  *)
Answer(p, rc) ==
    /\ rstat[p] # "none"
    /\ rcode[p] = "null"
    /\ rstat' = [rstat EXCEPT ![p] = StatusOf(rc)]
    /\ rcode' = [rcode EXCEPT ![p] = rc]
    /\ UNCHANGED <<job, kiqRet, kiqErr>>

(* JobsWatcher.timeout_job_return: guarded on the status.                  *)
Timeout(p) ==
    /\ rstat[p] = "waiting"
    /\ rstat' = [rstat EXCEPT ![p] = "timeout"]
    /\ UNCHANGED <<job, rcode, kiqRet, kiqErr>>

(* update_status (one job, unguarded) and finish_completed_jobs (several). *)
Finish(J) ==
    /\ \A j \in J : job[j] \in JobStatus \ {"starting"}
    /\ job' = [j \in Jids |-> IF j \in J THEN "finished" ELSE job[j]]
    /\ UNCHANGED <<rstat, rcode, kiqRet, kiqErr>>

(* JobErrorHandler.process. *)
LaunchError(j) ==
    /\ job[j] # "none"
    /\ job' = [job EXCEPT ![j] = "launch_error"]
    /\ UNCHANGED <<rstat, rcode, kiqRet, kiqErr>>

(* The two taskiq messages by which the ledger tells the task subsystem.   *)
NotifyReturn(p) ==
    /\ p[1] \in TaskJobs
    /\ rstat[p] \in {"success", "failed"}
    /\ kiqRet' = kiqRet \cup {p}
    /\ UNCHANGED <<job, rstat, rcode, kiqErr>>

NotifyError(j) ==
    /\ j \in TaskJobs \cup SystemJobs
    /\ job[j] # "none"
    /\ kiqErr' = kiqErr \cup {j}
    /\ UNCHANGED <<job, rstat, rcode, kiqRet>>

LNext ==
    \/ \E j \in Jids : Create(j) \/ Run(j) \/ LaunchError(j) \/ NotifyError(j)
    \/ \E j \in Jids, found, missing \in SUBSET Minions :
          CreateReturns(j, found, missing)
    \/ \E p \in Returns : Timeout(p) \/ NotifyReturn(p)
    \/ \E p \in Returns, rc \in Replies : Answer(p, rc)
    \/ \E J \in SUBSET Jids : Finish(J)

LSpec == LInit /\ [][LNext]_lvars
=============================================================================

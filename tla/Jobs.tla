-------------------------------- MODULE Jobs --------------------------------
(***************************************************************************)
(* Jobs and their returns as the running system updates them: the service  *)
(* that creates a job and pushes it to the master's Redis list, the Salt   *)
(* events that come back through the buffer and the salt workers (in any   *)
(* order, retried, redelivered, re-sent or lost), the status re-check the  *)
(* task watcher calls, and the jobs watcher that times out what nobody     *)
(* answered.  One action is one database round trip of one of them, so     *)
(* whatever a handler read may be stale when it writes.                    *)
(***************************************************************************)
EXTENDS Naturals, FiniteSets

CONSTANTS
    Jids, Minions,   \* job ids and minion ids of one Salt master
    TaskJobs,        \* jobs with source.type 'task'
    SystemJobs,      \* jobs with source.type 'task_system'
    CliJobs,         \* jobs started on the master, unknown to SaltBox
    Target,          \* jid -> the minions the job targets
    EventRetries,    \* salt_buffer_manager_event_process_retries
    MaxCrashes,      \* bound: process crashes in a behaviour
    MaxTtlEdits      \* bound: TTL changes by users in a behaviour

ASSUME JobsAssumption ==
    /\ TaskJobs \subseteq Jids
    /\ SystemJobs \subseteq Jids
    /\ TaskJobs \cap SystemJobs = {}
    /\ CliJobs \subseteq Jids \ (TaskJobs \cup SystemJobs)
    /\ Target \in [Jids -> SUBSET Minions]
    /\ EventRetries \in Nat \ {0}
    /\ MaxCrashes \in Nat
    /\ MaxTtlEdits \in Nat

VARIABLES
    job, rstat, rcode,     \* documents: job status, return status, retcode
    own,                   \* returns with a TTL of their own (ttl not null)
    due, rdue,             \* jobs / own-TTL returns past waiting_expires_at_dt
    salt,                  \* where the request is: Redis list, master, ...
    found, reply,          \* what Salt reported: live minions, return codes
    newPc, newTries,       \* salt/job/<jid>/new and its handler
    retPc, retTries,       \* salt/job/<jid>/ret/<mid> and its handler
    errPc, errTries,       \* saltbox/job/<jid>/error and its handler
    syncPc,                \* update_status called by the task watcher
    wPc, wKind, wJobs, wRets, wIds,   \* the jobs watcher
    kiqRet, kiqErr,        \* taskiq messages to the task subsystem
    crashes, edits         \* what the two bounds count

docs   == <<job, rstat, rcode>>
ttls   == <<own, due, rdue, edits>>
bus    == <<salt, found, reply>>
newEv  == <<newPc, newTries>>
retEv  == <<retPc, retTries>>
errEv  == <<errPc, errTries>>
watch  == <<wPc, wKind, wJobs, wRets, wIds>>
kiqs   == <<kiqRet, kiqErr>>
vars   == <<docs, ttls, bus, newEv, retEv, errEv, syncPc, watch, kiqs, crashes>>

JobStatus == {"starting", "running", "finished", "launch_error"}
JobReturnStatus == {"waiting", "success", "failed", "timeout", "ignored"}
Replies == {"zero", "nonzero", "null"}
Returns == Jids \X Minions

Ledger == INSTANCE JobLedger

HasWaiting(j) == \E m \in Minions : rstat[<<j, m>>] = "waiting"

NewBusy == {"got"}
RetBusy == {"got", "updated", "checking", "finishing", "checked", "notified"}
ErrBusy == {"got", "updated"}
Idle == {"none", "queued", "done", "dropped"}

TypeOK ==
    /\ job \in [Jids -> JobStatus \cup {"none"}]
    /\ rstat \in [Returns -> JobReturnStatus \cup {"none"}]
    /\ rcode \in [Returns -> Replies]
    /\ own \subseteq Returns /\ due \subseteq Jids /\ rdue \subseteq Returns
    /\ salt \in [Jids -> {"none", "inserted", "listed", "published", "refused"}]
    /\ found \in [Jids -> SUBSET Minions]
    /\ reply \in [Returns -> Replies]
    /\ newPc \in [Jids -> Idle \cup NewBusy]
    /\ retPc \in [Returns -> Idle \cup RetBusy]
    /\ errPc \in [Jids -> Idle \cup ErrBusy]
    /\ newTries \in [Jids -> 0..EventRetries]
    /\ retTries \in [Returns -> 0..EventRetries]
    /\ errTries \in [Jids -> 0..EventRetries]
    /\ syncPc \in [Jids -> {"idle", "checking", "finishing"}]
    /\ wPc \in {"idle", "timeout", "write"} /\ wKind \in {"jobs", "returns"}
    /\ wJobs \subseteq Jids /\ wRets \subseteq Returns /\ wIds \subseteq Jids
    /\ kiqRet \subseteq Returns /\ kiqErr \subseteq Jids
    /\ crashes \in 0..MaxCrashes
    /\ edits \in 0..MaxTtlEdits

Init ==
    /\ job = [j \in Jids |-> "none"]
    /\ rstat = [p \in Returns |-> "none"]
    /\ rcode = [p \in Returns |-> "null"]
    /\ own = {} /\ due = {} /\ rdue = {} /\ edits = 0
    /\ salt = [j \in Jids |-> "none"]
    /\ found = [j \in Jids |-> {}]
    /\ reply = [p \in Returns |-> "null"]
    /\ newPc = [j \in Jids |-> "none"] /\ newTries = [j \in Jids |-> 0]
    /\ retPc = [p \in Returns |-> "none"] /\ retTries = [p \in Returns |-> 0]
    /\ errPc = [j \in Jids |-> "none"] /\ errTries = [j \in Jids |-> 0]
    /\ syncPc = [j \in Jids |-> "idle"]
    /\ wPc = "idle" /\ wKind = "jobs" /\ wJobs = {} /\ wRets = {} /\ wIds = {}
    /\ kiqRet = {} /\ kiqErr = {}
    /\ crashes = 0
-----------------------------------------------------------------------------
(* JobService.create: insert the document, then push to the Redis list;    *)
(* a crash or a Redis error in between leaves a job that nobody launches.  *)
CreateJob(j) ==
    /\ j \notin CliJobs
    /\ job[j] = "none"
    /\ job' = [job EXCEPT ![j] = "starting"]
    /\ salt' = [salt EXCEPT ![j] = "inserted"]
    /\ UNCHANGED <<rstat, rcode, ttls, found, reply, newEv, retEv, errEv,
                   syncPc, watch, kiqs, crashes>>

SendJobToMaster(j) ==
    /\ salt[j] = "inserted"
    /\ salt' = [salt EXCEPT ![j] = "listed"]
    /\ UNCHANGED <<docs, ttls, found, reply, newEv, retEv, errEv,
                   syncPc, watch, kiqs, crashes>>
-----------------------------------------------------------------------------
(* The Salt master and its minions (external): publish the job and report  *)
(* which targets are connected, or refuse it; answer, possibly twice.      *)
SaltPublish(j) ==
    /\ salt[j] = "listed" \/ (j \in CliJobs /\ salt[j] = "none")
    /\ \E live \in SUBSET Target[j] : found' = [found EXCEPT ![j] = live]
    /\ salt' = [salt EXCEPT ![j] = "published"]
    /\ newPc' = [newPc EXCEPT ![j] = "queued"]
    /\ UNCHANGED <<docs, ttls, reply, newTries, retEv, errEv,
                   syncPc, watch, kiqs, crashes>>

SaltRefuse(j) ==
    /\ salt[j] = "listed"
    /\ salt' = [salt EXCEPT ![j] = "refused"]
    /\ errPc' = [errPc EXCEPT ![j] = "queued"]
    /\ UNCHANGED <<docs, ttls, found, reply, newEv, retEv, errTries,
                   syncPc, watch, kiqs, crashes>>

MinionReturn(p) ==
    /\ salt[p[1]] = "published"
    /\ p[2] \in found[p[1]]
    /\ retPc[p] = "none"
    /\ \E rc \in Replies : reply' = [reply EXCEPT ![p] = rc]
    /\ retPc' = [retPc EXCEPT ![p] = "queued"]
    /\ UNCHANGED <<docs, ttls, salt, found, newEv, retTries, errEv,
                   syncPc, watch, kiqs, crashes>>

MinionResend(p) ==
    /\ retPc[p] \in {"done", "dropped"}
    /\ retPc' = [retPc EXCEPT ![p] = "queued"]
    /\ retTries' = [retTries EXCEPT ![p] = 0]
    /\ UNCHANGED <<docs, ttls, bus, newEv, errEv, syncPc, watch, kiqs, crashes>>
-----------------------------------------------------------------------------
(* SaltEventsHandler.push_failed_event: a handler that raised puts its     *)
(* event back into the buffer, and gives it up at the last retry.          *)
PcAfterFailure_OneTooMany(tries) ==    \* mutant: > for >=
    IF tries + 1 > EventRetries THEN "dropped" ELSE "queued"

PcAfterFailure(tries) == IF tries + 1 >= EventRetries THEN "dropped" ELSE "queued"

NewFails(j) ==
    /\ newPc' = [newPc EXCEPT ![j] = PcAfterFailure(newTries[j])]
    /\ newTries' = [newTries EXCEPT ![j] = @ + 1]
    /\ UNCHANGED <<docs, ttls, bus, retEv, errEv, syncPc, watch, kiqs, crashes>>

RetFails(p) ==
    /\ retPc' = [retPc EXCEPT ![p] = PcAfterFailure(retTries[p])]
    /\ retTries' = [retTries EXCEPT ![p] = @ + 1]
    /\ UNCHANGED <<docs, ttls, bus, newEv, errEv, syncPc, watch, kiqs, crashes>>

ErrFails(j) ==
    /\ errPc' = [errPc EXCEPT ![j] = PcAfterFailure(errTries[j])]
    /\ errTries' = [errTries EXCEPT ![j] = @ + 1]
    /\ UNCHANGED <<docs, ttls, bus, newEv, retEv, syncPc, watch, kiqs, crashes>>

(* Any database, Redis or broker call of a handler may raise.              *)
HandlerRaises ==
    \/ \E j \in Jids : newPc[j] \in NewBusy /\ NewFails(j)
    \/ \E p \in Returns : retPc[p] \in RetBusy /\ RetFails(p)
    \/ \E j \in Jids : errPc[j] \in ErrBusy /\ ErrFails(j)

(* The worker dies before its taskiq message is acknowledged: redelivery.  *)
(* The buffer manager dies between LPOP and kiq, or RabbitMQ restarts with *)
(* its non-durable queue: the event is lost.                               *)
WorkerCrash ==
    /\ crashes < MaxCrashes
    /\ crashes' = crashes + 1
    /\ \E pc \in {"queued", "dropped"} :
          \/ \E j \in Jids : /\ newPc[j] \in (NewBusy \cup {"queued"}) \ {pc}
                             /\ newPc' = [newPc EXCEPT ![j] = pc]
                             /\ UNCHANGED <<retPc, errPc>>
          \/ \E p \in Returns : /\ retPc[p] \in (RetBusy \cup {"queued"}) \ {pc}
                                /\ retPc' = [retPc EXCEPT ![p] = pc]
                                /\ UNCHANGED <<newPc, errPc>>
          \/ \E j \in Jids : /\ errPc[j] \in (ErrBusy \cup {"queued"}) \ {pc}
                             /\ errPc' = [errPc EXCEPT ![j] = pc]
                             /\ UNCHANGED <<newPc, retPc>>
    /\ UNCHANGED <<docs, ttls, bus, newTries, retTries, errTries,
                   syncPc, watch, kiqs>>
-----------------------------------------------------------------------------
(* JobNewMessageHandler.  get_job marks the job running (creating it if it *)
(* is unknown) before process creates the returns.                         *)
NewGetJob(j) ==
    /\ newPc[j] = "queued"
    /\ job' = [job EXCEPT ![j] = "running"]
    /\ newPc' = [newPc EXCEPT ![j] = "got"]
    /\ UNCHANGED <<rstat, rcode, ttls, bus, newTries, retEv, errEv,
                   syncPc, watch, kiqs, crashes>>

(* bulk_create under the unique index on (jid, salt_master, minion_id), and *)
(* the update that notifies clients: where it raises, or the worker dies    *)
(* before the event is acknowledged, the event comes again.                 *)
NewEnds(j) ==
    \/ /\ newPc' = [newPc EXCEPT ![j] = "done"]
       /\ UNCHANGED newTries
    \/ /\ newPc' = [newPc EXCEPT ![j] = PcAfterFailure(newTries[j])]
       /\ newTries' = [newTries EXCEPT ![j] = @ + 1]

NewProcess_NoUniqueIndex(j) ==         \* mutant: old documents are replaced
    /\ newPc[j] = "got"
    /\ rstat' = [p \in Returns |->
                    IF p[1] = j /\ p[2] \in found[j] THEN "waiting"
                    ELSE IF p[1] = j /\ p[2] \in Target[j] THEN "ignored"
                    ELSE rstat[p]]
    /\ NewEnds(j)
    /\ UNCHANGED <<job, rcode, ttls, bus, retEv, errEv, syncPc, watch, kiqs, crashes>>

NewProcess(j) ==
    /\ newPc[j] = "got"
    /\ \A m \in Target[j] : rstat[<<j, m>>] = "none"
    /\ rstat' = [p \in Returns |->
                    IF p[1] = j /\ p[2] \in found[j] THEN "waiting"
                    ELSE IF p[1] = j /\ p[2] \in Target[j] THEN "ignored"
                    ELSE rstat[p]]
    /\ NewEnds(j)
    /\ UNCHANGED <<job, rcode, ttls, bus, retEv, errEv, syncPc, watch, kiqs, crashes>>

NewDuplicate(j) ==
    /\ newPc[j] = "got"
    /\ \E m \in Target[j] : rstat[<<j, m>>] # "none"
    /\ NewFails(j)
-----------------------------------------------------------------------------
(* JobService.update_status in three round trips, for a caller whose       *)
(* program counter is in function pc under key k.                          *)
StatusRead(j) == IF job[j] = "running" THEN "checking" ELSE "checked"
StatusCheck(j) == IF HasWaiting(j) THEN "checked" ELSE "finishing"
StatusWrite(j) == job' = [job EXCEPT ![j] = "finished"]

(* JobReturnMessageHandler. *)
RetGetJob(p) ==
    /\ retPc[p] = "queued"
    /\ \/ /\ job[p[1]] # "none"
          /\ retPc' = [retPc EXCEPT ![p] = "got"]
          /\ UNCHANGED <<docs, ttls, bus, newEv, retTries, errEv,
                         syncPc, watch, kiqs, crashes>>
       \/ job[p[1]] = "none" /\ RetFails(p)

RetUpdate(p) ==
    /\ retPc[p] = "got"
    /\ rstat[p] # "none"
    /\ IF rcode[p] = "null"
       THEN /\ rstat' = [rstat EXCEPT ![p] = IF reply[p] = "zero" THEN "success"
                                                                  ELSE "failed"]
            /\ rcode' = [rcode EXCEPT ![p] = reply[p]]
       ELSE UNCHANGED <<rstat, rcode>>
    /\ retPc' = [retPc EXCEPT ![p] = "updated"]
    /\ UNCHANGED <<job, ttls, bus, newEv, retTries, errEv,
                   syncPc, watch, kiqs, crashes>>

RetUnknown_GoesOn(p) ==                \* mutant: the missing return is not raised
    /\ retPc[p] = "got"
    /\ rstat[p] = "none"
    /\ retPc' = [retPc EXCEPT ![p] = "updated"]
    /\ UNCHANGED <<docs, ttls, bus, newEv, retTries, errEv,
                   syncPc, watch, kiqs, crashes>>

RetUnknown(p) ==
    /\ retPc[p] = "got"
    /\ rstat[p] = "none"
    /\ RetFails(p)

RetStatusStep(p, from, to) ==
    /\ retPc[p] = from
    /\ retPc' = [retPc EXCEPT ![p] = to]
    /\ UNCHANGED <<rstat, rcode, ttls, bus, newEv, retTries, errEv,
                   syncPc, watch, crashes>>

RetReadStatus(p) ==
    RetStatusStep(p, "updated", StatusRead(p[1])) /\ UNCHANGED <<job, kiqs>>

RetCheckWaiting(p) ==
    RetStatusStep(p, "checking", StatusCheck(p[1])) /\ UNCHANGED <<job, kiqs>>

RetFinishJob(p) ==
    /\ RetStatusStep(p, "finishing", "checked")
    /\ StatusWrite(p[1])
    /\ UNCHANGED kiqs

RetNotifyTask_AnySource(p) ==          \* mutant: the source type is not looked at
    /\ RetStatusStep(p, "checked", "notified")
    /\ kiqRet' = kiqRet \cup {p}
    /\ UNCHANGED <<job, kiqErr>>

RetNotifyTask(p) ==
    /\ RetStatusStep(p, "checked", "notified")
    /\ kiqRet' = IF p[1] \in TaskJobs THEN kiqRet \cup {p} ELSE kiqRet
    /\ UNCHANGED <<job, kiqErr>>

\* _process_return and the presence update, which change no job document.
RetDone(p) == RetStatusStep(p, "notified", "done") /\ UNCHANGED <<job, kiqs>>
-----------------------------------------------------------------------------
(* JobErrorHandler: an unknown job is skipped, a known one is a            *)
(* launch_error whatever its status was.                                   *)
ErrStep(j, from, to) ==
    /\ errPc[j] = from
    /\ errPc' = [errPc EXCEPT ![j] = to]
    /\ UNCHANGED <<rstat, rcode, ttls, bus, newEv, retEv, errTries,
                   syncPc, watch, kiqRet, crashes>>

ErrGetJob(j) ==
    /\ ErrStep(j, "queued", IF job[j] = "none" THEN "done" ELSE "got")
    /\ UNCHANGED <<job, kiqErr>>

ErrUpdate(j) ==
    /\ ErrStep(j, "got", "updated")
    /\ job' = [job EXCEPT ![j] = "launch_error"]
    /\ UNCHANGED kiqErr

ErrNotifyTask(j) ==
    /\ ErrStep(j, "updated", "done")
    /\ kiqErr' = IF j \in TaskJobs \cup SystemJobs THEN kiqErr \cup {j} ELSE kiqErr
    /\ UNCHANGED job
-----------------------------------------------------------------------------
(* TaskLifespanService.sync_jobs: update_status, one running task job      *)
(* after the other.                                                        *)
SyncStep(j, from, to) ==
    /\ syncPc[j] = from
    /\ syncPc' = [syncPc EXCEPT ![j] = IF to = "checked" THEN "idle" ELSE to]
    /\ UNCHANGED <<rstat, rcode, ttls, bus, newEv, retEv, errEv,
                   watch, kiqs, crashes>>

SyncReadStatus(j) ==
    /\ j \in TaskJobs
    /\ \A k \in Jids : syncPc[k] = "idle"
    /\ job[j] = "running"
    /\ SyncStep(j, "idle", StatusRead(j))
    /\ UNCHANGED job

SyncCheckWaiting(j) == SyncStep(j, "checking", StatusCheck(j)) /\ UNCHANGED job

SyncFinishJob(j) == SyncStep(j, "finishing", "checked") /\ StatusWrite(j)
-----------------------------------------------------------------------------
(* Time and TTLs.  waiting_expires_at_dt is created + ttl; a user may set  *)
(* the TTL of a job or of single returns (JobService.set_ttl).             *)
JobExpires(j) ==
    /\ job[j] # "none" /\ j \notin due
    /\ due' = due \cup {j}
    /\ UNCHANGED <<docs, own, rdue, edits, bus, newEv, retEv, errEv,
                   syncPc, watch, kiqs, crashes>>

ReturnExpires(p) ==
    /\ p \in own \ rdue
    /\ rdue' = rdue \cup {p}
    /\ UNCHANGED <<docs, own, due, edits, bus, newEv, retEv, errEv,
                   syncPc, watch, kiqs, crashes>>

SetJobTtl(j) ==
    /\ edits < MaxTtlEdits
    /\ j \in due
    /\ due' = due \ {j}
    /\ edits' = edits + 1
    /\ UNCHANGED <<docs, own, rdue, bus, newEv, retEv, errEv,
                   syncPc, watch, kiqs, crashes>>

SetReturnTtl(p) ==
    /\ edits < MaxTtlEdits
    /\ rstat[p] # "none"
    /\ \/ own' = own \cup {p}
       \/ own' = own \ {p}
    /\ rdue' = rdue \ {p}
    /\ edits' = edits + 1
    /\ UNCHANGED <<docs, due, bus, newEv, retEv, errEv,
                   syncPc, watch, kiqs, crashes>>
-----------------------------------------------------------------------------
(* JobsWatcher.process: process_expired_jobs, process_expired_job_returns, *)
(* and again.  Both end in finish_completed_jobs.                          *)
WatchFrame == UNCHANGED <<rcode, ttls, bus, newEv, retEv, errEv, syncPc, kiqs, crashes>>

ReadExpiredJobs_OnlyWaiting ==         \* mutant: the id is added in the inner loop
    /\ wPc = "idle" /\ wKind = "jobs"
    /\ wJobs' = {j \in due : job[j] = "running"}
    /\ wIds' = {j \in wJobs' : HasWaiting(j)}
    /\ wPc' = "timeout"
    /\ UNCHANGED <<job, rstat, wKind, wRets>> /\ WatchFrame

ReadExpiredJobs ==
    /\ wPc = "idle" /\ wKind = "jobs"
    /\ wJobs' = {j \in due : job[j] = "running"}
    /\ wIds' = wJobs'
    /\ wPc' = "timeout"
    /\ UNCHANGED <<job, rstat, wKind, wRets>> /\ WatchFrame

ReadJobReturns(j) ==
    /\ wPc = "timeout" /\ wRets = {} /\ j \in wJobs
    /\ wJobs' = wJobs \ {j}
    /\ wRets' = {p \in Returns \ own : p[1] = j /\ rstat[p] = "waiting"}
    /\ UNCHANGED <<job, rstat, wPc, wKind, wIds>> /\ WatchFrame

ReadExpiredReturns ==
    /\ wPc = "idle" /\ wKind = "returns"
    /\ wRets' = {p \in own \cap rdue : rstat[p] = "waiting"}
    /\ wIds' = {p[1] : p \in wRets'}
    /\ wPc' = "timeout"
    /\ UNCHANGED <<job, rstat, wKind, wJobs>> /\ WatchFrame

TimeoutJobReturn_Unguarded(p) ==       \* mutant: the status is not in the query
    /\ wPc = "timeout" /\ p \in wRets
    /\ wRets' = wRets \ {p}
    /\ rstat' = [rstat EXCEPT ![p] = "timeout"]
    /\ UNCHANGED <<job, wPc, wKind, wJobs, wIds>> /\ WatchFrame

TimeoutJobReturn(p) ==
    /\ wPc = "timeout" /\ p \in wRets
    /\ wRets' = wRets \ {p}
    /\ rstat' = IF rstat[p] = "waiting" THEN [rstat EXCEPT ![p] = "timeout"] ELSE rstat
    /\ UNCHANGED <<job, wPc, wKind, wJobs, wIds>> /\ WatchFrame

ReadUncompleted ==
    /\ wPc = "timeout" /\ wJobs = {} /\ wRets = {}
    /\ wIds' = {j \in wIds : ~HasWaiting(j)}
    /\ wPc' = "write"
    /\ UNCHANGED <<job, rstat, wKind, wJobs, wRets>> /\ WatchFrame

FinishCompletedJobs ==
    /\ wPc = "write"
    /\ job' = [j \in Jids |-> IF j \in wIds /\ job[j] = "running"
                              THEN "finished" ELSE job[j]]
    /\ wIds' = {}
    /\ wPc' = "idle"
    /\ wKind' = IF wKind = "jobs" THEN "returns" ELSE "jobs"
    /\ UNCHANGED <<rstat, wJobs, wRets>> /\ WatchFrame

WatcherCrash ==
    /\ crashes < MaxCrashes
    /\ wPc # "idle"
    /\ crashes' = crashes + 1
    /\ wPc' = "idle" /\ wKind' = "jobs" /\ wJobs' = {} /\ wRets' = {} /\ wIds' = {}
    /\ UNCHANGED <<docs, ttls, bus, newEv, retEv, errEv, syncPc, kiqs>>
-----------------------------------------------------------------------------
Create  == \E j \in Jids : CreateJob(j) \/ SendJobToMaster(j)
Salt    == \/ \E j \in Jids : SaltPublish(j) \/ SaltRefuse(j)
           \/ \E p \in Returns : MinionReturn(p) \/ MinionResend(p)
NewHandler(j) == NewGetJob(j) \/ NewProcess(j) \/ NewDuplicate(j)
RetHandler(p) == \/ RetGetJob(p) \/ RetUpdate(p) \/ RetUnknown(p)
                 \/ RetReadStatus(p) \/ RetCheckWaiting(p) \/ RetFinishJob(p)
                 \/ RetNotifyTask(p) \/ RetDone(p)
ErrHandler(j) == ErrGetJob(j) \/ ErrUpdate(j) \/ ErrNotifyTask(j)
Sync(j) == SyncReadStatus(j) \/ SyncCheckWaiting(j) \/ SyncFinishJob(j)
Time    == \/ \E j \in Jids : JobExpires(j)
           \/ \E p \in Returns : ReturnExpires(p)
SetTtl  == \/ \E j \in Jids : SetJobTtl(j)
           \/ \E p \in Returns : SetReturnTtl(p)
Watcher == \/ ReadExpiredJobs \/ ReadExpiredReturns
           \/ \E j \in Jids : ReadJobReturns(j)
           \/ \E p \in Returns : TimeoutJobReturn(p)
           \/ ReadUncompleted \/ FinishCompletedJobs

Next ==
    \/ Create \/ Salt \/ HandlerRaises \/ WorkerCrash
    \/ \E j \in Jids : NewHandler(j) \/ ErrHandler(j) \/ Sync(j)
    \/ \E p \in Returns : RetHandler(p)
    \/ Time \/ SetTtl \/ Watcher \/ WatcherCrash

Spec == Init /\ [][Next]_vars

(* Workers and the watcher keep running and time passes; users and Salt    *)
(* owe nothing.                                                            *)
Fairness ==
    /\ WF_vars(Watcher)
    /\ \A j \in Jids : /\ WF_vars(NewHandler(j)) /\ WF_vars(ErrHandler(j))
                       /\ WF_vars(SyncCheckWaiting(j) \/ SyncFinishJob(j))
                       /\ WF_vars(JobExpires(j))
    /\ \A p \in Returns : /\ WF_vars(RetHandler(p))
                          /\ WF_vars(ReturnExpires(p))

FairSpec == Spec /\ Fairness
-----------------------------------------------------------------------------
(* Properties. *)

Answered == {"success", "failed"}

\* A ret event whose handler ran to its end left an answer in the job return,
\* and nothing that happens later (a watcher working from an old list, a
\* redelivered new event, a second ret) takes it away again.
HandledMeansRecorded ==
    \A p \in Returns : retPc[p] = "done" => rstat[p] \in Answered

\* The task subsystem is told about a return only once its answer is stored,
\* so process_task_job_return never reads a return without an outcome.
NotifiedMeansRecorded == \A p \in kiqRet : rstat[p] \in Answered

\* What the handlers between two round trips still rely on.  It makes the two
\* invariants above inductive, and every write an action of JobLedger: a handler
\* past its read works on a job that exists and was launched, and the live
\* minions Salt reported are targets of the job.
HandlersRelyOn ==
    /\ \A p \in Returns :
          /\ rcode[p] # "null" => rstat[p] \in Answered
          /\ retPc[p] \in RetBusy \ {"got"} => rstat[p] \in Answered
          /\ retPc[p] \in {"checking", "finishing"} =>
                job[p[1]] \in JobStatus \ {"starting"}
          /\ retPc[p] # "dropped" => retTries[p] < EventRetries
    /\ \A j \in Jids :
          /\ newPc[j] \in NewBusy => job[j] # "none"
          /\ errPc[j] \in ErrBusy => job[j] # "none"
          /\ syncPc[j] # "idle" => job[j] \in JobStatus \ {"starting"}
          /\ newPc[j] # "dropped" => newTries[j] < EventRetries
          /\ errPc[j] # "dropped" => errTries[j] < EventRetries
          /\ salt[j] \in {"none", "inserted", "listed"} =>
                newPc[j] = "none" /\ errPc[j] = "none"
          /\ job[j] = "none" /\ j \notin CliJobs => salt[j] = "none"
          /\ found[j] \subseteq Target[j]

\* Once a return carries a retcode neither its retcode nor its status changes:
\* JobsWatcher.timeout_job_return and a re-sent ret both respect the answer.
AnswerIsFinal ==
    [][\A p \in Returns : rcode[p] # "null" =>
          /\ rcode'[p] = rcode[p]
          /\ rstat'[p] = rstat[p]]_docs

\* A return that left `waiting` never waits again: a job whose returns are all
\* settled cannot start waiting for an old minion (new events redelivered).
SettledForGood ==
    [][\A p \in Returns : rstat[p] \notin {"none", "waiting"} =>
          rstat'[p] \notin {"none", "waiting"}]_docs

\* The documents change only in the ways JobLedger allows.
ImplementsLedger == Ledger!LSpec

\* A job that is running does not run forever: answers, time-outs and the
\* watcher's finish_completed_jobs end it.
RunningJobEnds == \A j \in Jids : job[j] = "running" ~> job[j] # "running"

\* JobReturnEditableFieldsMixin.ttl: a return without a TTL of its own is
\* governed by the job's TTL, so it does not wait forever.
WaitingReturnEnds ==
    \A p \in Returns : rstat[p] = "waiting" ~> rstat[p] # "waiting"

\* A TTL given to a single return takes priority over the job's: the watcher
\* does not time out a return with a TTL of its own before that TTL passed.
OverrideTakesPriority ==
    [][\A p \in Returns : (rstat[p] = "waiting" /\ rstat'[p] = "timeout" /\ p \in own)
          => p \in rdue]_docs
=============================================================================

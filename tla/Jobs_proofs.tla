---------------------------- MODULE Jobs_proofs ----------------------------
(***************************************************************************)
(* Theorems of Jobs, for any jobs, minions, targets and bounds.            *)
(* First the inductive invariant IInv, one lemma per group of actions,     *)
(* then that every step of Jobs is a step of the ledger (JobLedger) or     *)
(* leaves the documents alone, and last the two action properties, which   *)
(* the ledger gives and Jobs inherits: only the ledger's ten kinds of      *)
(* write need a case there, not the thirty actions of Jobs.                *)
(***************************************************************************)
EXTENDS Jobs, TLAPS

\* HandledMeansRecorded and NotifiedMeansRecorded are not inductive: they need
\* what a handler still relies on between its read and its write
\* (HandlersRelyOn), and that one needs the types.
IInv == TypeOK /\ HandledMeansRecorded /\ NotifiedMeansRecorded /\ HandlersRelyOn

USE DEF docs, ttls, bus, newEv, retEv, errEv, watch, kiqs, JobStatus, JobReturnStatus,
        Replies, Returns, Idle, NewBusy, RetBusy, ErrBusy, Answered

\* A failure in the handler of a new job, ...
LEMMA NewFailsKeepsInv ==
    ASSUME IInv, NEW j \in Jids, newPc[j] \in NewBusy, NewFails(j)
    PROVE  IInv'
  <1>1. TypeOK'
    <2> HIDE DEF Returns
    <2>1. newPc' \in [Jids -> Idle \cup NewBusy]
      BY DEF NewFails, PcAfterFailure, IInv, TypeOK
    <2>2. newTries' \in [Jids -> 0..EventRetries]
      BY JobsAssumption DEF NewFails, IInv, TypeOK, HandlersRelyOn
    <2>3. QED BY <2>1, <2>2 DEF NewFails, IInv, TypeOK
  <1>2. HandlersRelyOn'
    BY <1>1, JobsAssumption DEF NewFails, PcAfterFailure, IInv, TypeOK, HandlersRelyOn
  <1>3. HandledMeansRecorded' /\ NotifiedMeansRecorded'
    BY DEF NewFails, PcAfterFailure, IInv, TypeOK, HandledMeansRecorded, NotifiedMeansRecorded
  <1>4. QED BY <1>1, <1>2, <1>3 DEF IInv

\* ... of a return, ...
LEMMA RetFailsKeepsInv ==
    ASSUME IInv, NEW p \in Returns, retPc[p] \in RetBusy \cup {"queued"}, RetFails(p)
    PROVE  IInv'
  <1>1. TypeOK'
    <2> HIDE DEF Returns
    <2>1. retPc' \in [Returns -> Idle \cup RetBusy]
      BY DEF RetFails, PcAfterFailure, IInv, TypeOK
    <2>2. retTries' \in [Returns -> 0..EventRetries]
      BY JobsAssumption DEF RetFails, IInv, TypeOK, HandlersRelyOn
    <2>3. QED BY <2>1, <2>2 DEF RetFails, IInv, TypeOK
  <1>2. HandlersRelyOn'
    BY <1>1, JobsAssumption DEF RetFails, PcAfterFailure, IInv, TypeOK, HandlersRelyOn
  <1>3. HandledMeansRecorded' /\ NotifiedMeansRecorded'
    BY DEF RetFails, PcAfterFailure, IInv, TypeOK, HandledMeansRecorded, NotifiedMeansRecorded
  <1>4. QED BY <1>1, <1>2, <1>3 DEF IInv

\* ... and of an error keeps the invariant.
LEMMA ErrFailsKeepsInv ==
    ASSUME IInv, NEW j \in Jids, errPc[j] \in ErrBusy, ErrFails(j)
    PROVE  IInv'
  <1>1. TypeOK'
    <2> HIDE DEF Returns
    <2>1. errPc' \in [Jids -> Idle \cup ErrBusy]
      BY DEF ErrFails, PcAfterFailure, IInv, TypeOK
    <2>2. errTries' \in [Jids -> 0..EventRetries]
      BY JobsAssumption DEF ErrFails, IInv, TypeOK, HandlersRelyOn
    <2>3. QED BY <2>1, <2>2 DEF ErrFails, IInv, TypeOK
  <1>2. HandlersRelyOn'
    BY <1>1, JobsAssumption DEF ErrFails, PcAfterFailure, IInv, TypeOK, HandlersRelyOn
  <1>3. HandledMeansRecorded' /\ NotifiedMeansRecorded'
    BY DEF ErrFails, PcAfterFailure, IInv, TypeOK, HandledMeansRecorded, NotifiedMeansRecorded
  <1>4. QED BY <1>1, <1>2, <1>3 DEF IInv

(* Creating a job and pushing it to the master's list. *)
LEMMA CreateKeepsInv ==
    ASSUME IInv, Create
    PROVE  IInv'
  <1>1. ASSUME NEW j \in Jids, CreateJob(j) PROVE IInv'
    <2>1. TypeOK'
      BY <1>1, JobsAssumption DEF CreateJob, IInv, TypeOK, HandlersRelyOn
    <2>2. HandlersRelyOn'
      BY <1>1, <2>1, JobsAssumption DEF CreateJob, IInv, TypeOK, HandlersRelyOn
    <2>3. HandledMeansRecorded' /\ NotifiedMeansRecorded'
      BY <1>1 DEF CreateJob, IInv, TypeOK, HandlersRelyOn, HandledMeansRecorded,
        NotifiedMeansRecorded
    <2>4. QED BY <2>1, <2>2, <2>3 DEF IInv
  <1>2. ASSUME NEW j \in Jids, SendJobToMaster(j) PROVE IInv'
    <2>1. TypeOK'
      BY <1>2, JobsAssumption DEF SendJobToMaster, IInv, TypeOK, HandlersRelyOn
    <2>2. HandlersRelyOn'
      BY <1>2, <2>1, JobsAssumption DEF SendJobToMaster, IInv, TypeOK, HandlersRelyOn
    <2>3. HandledMeansRecorded' /\ NotifiedMeansRecorded'
      BY <1>2 DEF SendJobToMaster, IInv, TypeOK, HandlersRelyOn, HandledMeansRecorded,
        NotifiedMeansRecorded
    <2>4. QED BY <2>1, <2>2, <2>3 DEF IInv
  <1>3. QED BY <1>1, <1>2 DEF Create

(* What Salt and its minions do with a job. *)
LEMMA SaltKeepsInv ==
    ASSUME IInv, Salt
    PROVE  IInv'
  <1>1. ASSUME NEW j \in Jids, SaltPublish(j) PROVE IInv'
    <2>1. TypeOK'
      <3>1. PICK live \in SUBSET Target[j] : found' = [found EXCEPT ![j] = live]
        BY <1>1 DEF SaltPublish
      <3>2. found' \in [Jids -> SUBSET Minions]
        BY <3>1, JobsAssumption DEF IInv, TypeOK
      <3>3. QED BY <1>1, <3>2 DEF SaltPublish, IInv, TypeOK
    <2>2. HandlersRelyOn'
      BY <1>1, <2>1, JobsAssumption DEF SaltPublish, IInv, TypeOK, HandlersRelyOn
    <2>3. HandledMeansRecorded' /\ NotifiedMeansRecorded'
      BY <1>1 DEF SaltPublish, IInv, TypeOK, HandlersRelyOn, HandledMeansRecorded,
        NotifiedMeansRecorded
    <2>4. QED BY <2>1, <2>2, <2>3 DEF IInv
  <1>2. ASSUME NEW j \in Jids, SaltRefuse(j) PROVE IInv'
    <2>1. TypeOK'
      BY <1>2, JobsAssumption DEF SaltRefuse, IInv, TypeOK, HandlersRelyOn
    <2>2. HandlersRelyOn'
      BY <1>2, <2>1, JobsAssumption DEF SaltRefuse, IInv, TypeOK, HandlersRelyOn
    <2>3. HandledMeansRecorded' /\ NotifiedMeansRecorded'
      BY <1>2 DEF SaltRefuse, IInv, TypeOK, HandlersRelyOn, HandledMeansRecorded,
        NotifiedMeansRecorded
    <2>4. QED BY <2>1, <2>2, <2>3 DEF IInv
  <1>3. ASSUME NEW p \in Returns, MinionReturn(p) PROVE IInv'
    <2>1. TypeOK'
      BY <1>3, JobsAssumption DEF MinionReturn, IInv, TypeOK, HandlersRelyOn
    <2>2. HandlersRelyOn'
      BY <1>3, <2>1, JobsAssumption DEF MinionReturn, IInv, TypeOK, HandlersRelyOn
    <2>3. HandledMeansRecorded' /\ NotifiedMeansRecorded'
      BY <1>3 DEF MinionReturn, IInv, TypeOK, HandlersRelyOn, HandledMeansRecorded,
        NotifiedMeansRecorded
    <2>4. QED BY <2>1, <2>2, <2>3 DEF IInv
  <1>4. ASSUME NEW p \in Returns, MinionResend(p) PROVE IInv'
    <2>1. TypeOK'
      BY <1>4, JobsAssumption DEF MinionResend, IInv, TypeOK, HandlersRelyOn
    <2>2. HandlersRelyOn'
      BY <1>4, <2>1, JobsAssumption DEF MinionResend, IInv, TypeOK, HandlersRelyOn
    <2>3. HandledMeansRecorded' /\ NotifiedMeansRecorded'
      BY <1>4 DEF MinionResend, IInv, TypeOK, HandlersRelyOn, HandledMeansRecorded,
        NotifiedMeansRecorded
    <2>4. QED BY <2>1, <2>2, <2>3 DEF IInv
  <1>5. QED BY <1>1, <1>2, <1>3, <1>4 DEF Salt

(* Crashes of a worker and of the watcher. *)
LEMMA CrashKeepsInv ==
    ASSUME IInv, WorkerCrash \/ WatcherCrash
    PROVE  IInv'
  <1>1. CASE WorkerCrash
    <2>1. TypeOK'
      <3>1. crashes' \in 0..MaxCrashes
        BY <1>1, JobsAssumption DEF WorkerCrash, IInv, TypeOK
      <3>2. newPc' \in [Jids -> Idle \cup NewBusy]
        BY <1>1 DEF WorkerCrash, IInv, TypeOK
      <3>3. retPc' \in [Returns -> Idle \cup RetBusy]
        <4> HIDE DEF Returns
        <4> QED BY <1>1 DEF WorkerCrash, IInv, TypeOK
      <3>4. errPc' \in [Jids -> Idle \cup ErrBusy]
        BY <1>1 DEF WorkerCrash, IInv, TypeOK
      <3>5. QED BY <1>1, <3>1, <3>2, <3>3, <3>4 DEF WorkerCrash, IInv, TypeOK
    <2>2. HandlersRelyOn'
      BY <1>1, <2>1, JobsAssumption DEF WorkerCrash, IInv, TypeOK, HandlersRelyOn
    <2>3. HandledMeansRecorded' /\ NotifiedMeansRecorded'
      BY <1>1 DEF WorkerCrash, IInv, TypeOK, HandlersRelyOn, HandledMeansRecorded,
        NotifiedMeansRecorded
    <2>4. QED BY <2>1, <2>2, <2>3 DEF IInv
  <1>2. CASE WatcherCrash
    <2>1. TypeOK'
      BY <1>2, JobsAssumption DEF WatcherCrash, IInv, TypeOK, HandlersRelyOn
    <2>2. HandlersRelyOn'
      BY <1>2, <2>1, JobsAssumption DEF WatcherCrash, IInv, TypeOK, HandlersRelyOn
    <2>3. HandledMeansRecorded' /\ NotifiedMeansRecorded'
      BY <1>2 DEF WatcherCrash, IInv, TypeOK, HandlersRelyOn, HandledMeansRecorded,
        NotifiedMeansRecorded
    <2>4. QED BY <2>1, <2>2, <2>3 DEF IInv
  <1>3. QED BY <1>1, <1>2

(* The handler of the error event. *)
LEMMA ErrHandlerKeepsInv ==
    ASSUME IInv, NEW j \in Jids, ErrHandler(j)
    PROVE  IInv'
  <1>1. CASE ErrGetJob(j)
    <2>1. TypeOK'
      BY <1>1, JobsAssumption DEF ErrGetJob, ErrStep, IInv, TypeOK, HandlersRelyOn
    <2>2. HandlersRelyOn'
      BY <1>1, <2>1, JobsAssumption DEF ErrGetJob, ErrStep, IInv, TypeOK, HandlersRelyOn
    <2>3. HandledMeansRecorded' /\ NotifiedMeansRecorded'
      BY <1>1 DEF ErrGetJob, ErrStep, IInv, TypeOK, HandlersRelyOn, HandledMeansRecorded,
        NotifiedMeansRecorded
    <2>4. QED BY <2>1, <2>2, <2>3 DEF IInv
  <1>2. CASE ErrUpdate(j)
    <2>1. TypeOK'
      BY <1>2, JobsAssumption DEF ErrUpdate, ErrStep, IInv, TypeOK, HandlersRelyOn
    <2>2. HandlersRelyOn'
      BY <1>2, <2>1, JobsAssumption DEF ErrUpdate, ErrStep, IInv, TypeOK, HandlersRelyOn
    <2>3. HandledMeansRecorded' /\ NotifiedMeansRecorded'
      BY <1>2 DEF ErrUpdate, ErrStep, IInv, TypeOK, HandlersRelyOn, HandledMeansRecorded,
        NotifiedMeansRecorded
    <2>4. QED BY <2>1, <2>2, <2>3 DEF IInv
  <1>3. CASE ErrNotifyTask(j)
    <2>1. TypeOK'
      BY <1>3, JobsAssumption DEF ErrNotifyTask, ErrStep, IInv, TypeOK, HandlersRelyOn
    <2>2. HandlersRelyOn'
      BY <1>3, <2>1, JobsAssumption DEF ErrNotifyTask, ErrStep, IInv, TypeOK, HandlersRelyOn
    <2>3. HandledMeansRecorded' /\ NotifiedMeansRecorded'
      BY <1>3 DEF ErrNotifyTask, ErrStep, IInv, TypeOK, HandlersRelyOn, HandledMeansRecorded,
        NotifiedMeansRecorded
    <2>4. QED BY <2>1, <2>2, <2>3 DEF IInv
  <1>4. QED BY <1>1, <1>2, <1>3 DEF ErrHandler

(* The status re-check of the task watcher. *)
LEMMA SyncKeepsInv ==
    ASSUME IInv, NEW j \in Jids, Sync(j)
    PROVE  IInv'
  <1>1. CASE SyncReadStatus(j)
    <2>1. TypeOK'
      BY <1>1, JobsAssumption DEF SyncReadStatus, SyncStep, StatusRead, IInv, TypeOK, HandlersRelyOn
    <2>2. HandlersRelyOn'
      BY <1>1, <2>1, JobsAssumption DEF SyncReadStatus, SyncStep, StatusRead, IInv, TypeOK, HandlersRelyOn
    <2>3. HandledMeansRecorded' /\ NotifiedMeansRecorded'
      BY <1>1 DEF SyncReadStatus, SyncStep, StatusRead, IInv, TypeOK, HandlersRelyOn, HandledMeansRecorded,
        NotifiedMeansRecorded
    <2>4. QED BY <2>1, <2>2, <2>3 DEF IInv
  <1>2. CASE SyncCheckWaiting(j)
    <2>1. TypeOK'
      BY <1>2, JobsAssumption DEF SyncCheckWaiting, SyncStep, StatusCheck, IInv, TypeOK, HandlersRelyOn
    <2>2. HandlersRelyOn'
      BY <1>2, <2>1, JobsAssumption DEF SyncCheckWaiting, SyncStep, StatusCheck, IInv, TypeOK, HandlersRelyOn
    <2>3. HandledMeansRecorded' /\ NotifiedMeansRecorded'
      BY <1>2 DEF SyncCheckWaiting, SyncStep, StatusCheck, IInv, TypeOK, HandlersRelyOn, HandledMeansRecorded,
        NotifiedMeansRecorded
    <2>4. QED BY <2>1, <2>2, <2>3 DEF IInv
  <1>3. CASE SyncFinishJob(j)
    <2>1. TypeOK'
      BY <1>3, JobsAssumption DEF SyncFinishJob, SyncStep, StatusWrite, IInv, TypeOK, HandlersRelyOn
    <2>2. HandlersRelyOn'
      BY <1>3, <2>1, JobsAssumption DEF SyncFinishJob, SyncStep, StatusWrite, IInv, TypeOK, HandlersRelyOn
    <2>3. HandledMeansRecorded' /\ NotifiedMeansRecorded'
      BY <1>3 DEF SyncFinishJob, SyncStep, StatusWrite, IInv, TypeOK, HandlersRelyOn, HandledMeansRecorded,
        NotifiedMeansRecorded
    <2>4. QED BY <2>1, <2>2, <2>3 DEF IInv
  <1>4. QED BY <1>1, <1>2, <1>3 DEF Sync

(* The handler of the new event. *)
LEMMA NewHandlerKeepsInv ==
    ASSUME IInv, NEW j \in Jids, NewHandler(j)
    PROVE  IInv'
  <1>1. CASE NewGetJob(j)
    <2>1. TypeOK'
      BY <1>1, JobsAssumption DEF NewGetJob, IInv, TypeOK, HandlersRelyOn
    <2>2. HandlersRelyOn'
      BY <1>1, <2>1, JobsAssumption DEF NewGetJob, IInv, TypeOK, HandlersRelyOn
    <2>3. HandledMeansRecorded' /\ NotifiedMeansRecorded'
      BY <1>1 DEF NewGetJob, IInv, TypeOK, HandlersRelyOn, HandledMeansRecorded,
        NotifiedMeansRecorded
    <2>4. QED BY <2>1, <2>2, <2>3 DEF IInv
  <1>2. CASE NewProcess(j)
    <2>1. newPc' \in [Jids -> Idle \cup NewBusy] /\ newTries' \in [Jids -> 0..EventRetries]
      BY <1>2, JobsAssumption DEF NewProcess, NewEnds, PcAfterFailure, IInv, TypeOK,
        HandlersRelyOn
    <2>2. TypeOK'
      BY <1>2, <2>1, JobsAssumption DEF NewProcess, IInv, TypeOK
    <2>3. HandlersRelyOn'
      <3>1. \A p \in Returns :
               /\ rcode'[p] # "null" => rstat'[p] \in Answered
               /\ retPc'[p] \in RetBusy \ {"got"} => rstat'[p] \in Answered
               /\ retPc'[p] \in {"checking", "finishing"} =>
                     job'[p[1]] \in JobStatus \ {"starting"}
               /\ retPc'[p] # "dropped" => retTries'[p] < EventRetries
        BY <1>2, JobsAssumption DEF NewProcess, IInv, TypeOK, HandlersRelyOn
      <3>2. newTries'[j] < EventRetries \/ newPc'[j] = "dropped"
        BY <1>2, JobsAssumption DEF NewProcess, NewEnds, PcAfterFailure, IInv, TypeOK,
          HandlersRelyOn
      <3>3. /\ newPc'[j] \notin NewBusy
            /\ \A k \in Jids \ {j} : newPc'[k] = newPc[k] /\ newTries'[k] = newTries[k]
        BY <1>2 DEF NewProcess, NewEnds, PcAfterFailure, IInv, TypeOK
      <3>4. newPc[j] = "got" /\ UNCHANGED <<job, salt, found, errPc, errTries, syncPc>>
        BY <1>2 DEF NewProcess
      <3>5. QED BY <3>1, <3>2, <3>3, <3>4 DEF IInv, HandlersRelyOn
    <2>4. HandledMeansRecorded' /\ NotifiedMeansRecorded'
      BY <1>2 DEF NewProcess, IInv, TypeOK, HandlersRelyOn, HandledMeansRecorded,
        NotifiedMeansRecorded
    <2>5. QED BY <2>2, <2>3, <2>4 DEF IInv
  <1>3. CASE NewDuplicate(j)
    BY <1>3, NewFailsKeepsInv DEF NewDuplicate, NewBusy
  <1>4. QED BY <1>1, <1>2, <1>3 DEF NewHandler

(* The handler of the ret event. *)
LEMMA RetHandlerKeepsInv ==
    ASSUME IInv, NEW p \in Returns, RetHandler(p)
    PROVE  IInv'
  <1>1. ASSUME RetGetJob(p), job[p[1]] # "none" PROVE IInv'
    <2>1. TypeOK'
      BY <1>1, JobsAssumption DEF RetGetJob, RetFails, PcAfterFailure, IInv, TypeOK, HandlersRelyOn
    <2>2. HandlersRelyOn'
      BY <1>1, <2>1, JobsAssumption DEF RetGetJob, RetFails, PcAfterFailure, IInv, TypeOK, HandlersRelyOn
    <2>3. HandledMeansRecorded' /\ NotifiedMeansRecorded'
      BY <1>1 DEF RetGetJob, RetFails, PcAfterFailure, IInv, TypeOK, HandlersRelyOn, HandledMeansRecorded,
        NotifiedMeansRecorded
    <2>4. QED BY <2>1, <2>2, <2>3 DEF IInv
  <1>2. ASSUME RetGetJob(p), job[p[1]] = "none" PROVE IInv'
    BY <1>2, RetFailsKeepsInv DEF RetGetJob
  <1>3. CASE RetUpdate(p)
    <2>1. TypeOK'
      BY <1>3, JobsAssumption DEF RetUpdate, IInv, TypeOK, HandlersRelyOn
    <2>2. HandlersRelyOn'
      BY <1>3, <2>1, JobsAssumption DEF RetUpdate, IInv, TypeOK, HandlersRelyOn
    <2>3. HandledMeansRecorded' /\ NotifiedMeansRecorded'
      BY <1>3 DEF RetUpdate, IInv, TypeOK, HandlersRelyOn, HandledMeansRecorded,
        NotifiedMeansRecorded
    <2>4. QED BY <2>1, <2>2, <2>3 DEF IInv
  <1>4. CASE RetUnknown(p)
    BY <1>4, RetFailsKeepsInv DEF RetUnknown, RetBusy
  <1>5. CASE RetReadStatus(p)
    <2>1. TypeOK'
      BY <1>5, JobsAssumption DEF RetReadStatus, RetStatusStep, StatusRead, IInv, TypeOK, HandlersRelyOn
    <2>2. HandlersRelyOn'
      BY <1>5, <2>1, JobsAssumption DEF RetReadStatus, RetStatusStep, StatusRead, IInv, TypeOK, HandlersRelyOn
    <2>3. HandledMeansRecorded' /\ NotifiedMeansRecorded'
      BY <1>5 DEF RetReadStatus, RetStatusStep, StatusRead, IInv, TypeOK, HandlersRelyOn, HandledMeansRecorded,
        NotifiedMeansRecorded
    <2>4. QED BY <2>1, <2>2, <2>3 DEF IInv
  <1>6. CASE RetCheckWaiting(p)
    <2>1. TypeOK'
      BY <1>6, JobsAssumption DEF RetCheckWaiting, RetStatusStep, StatusCheck, IInv, TypeOK, HandlersRelyOn
    <2>2. HandlersRelyOn'
      BY <1>6, <2>1, JobsAssumption DEF RetCheckWaiting, RetStatusStep, StatusCheck, IInv, TypeOK, HandlersRelyOn
    <2>3. HandledMeansRecorded' /\ NotifiedMeansRecorded'
      BY <1>6 DEF RetCheckWaiting, RetStatusStep, StatusCheck, IInv, TypeOK, HandlersRelyOn, HandledMeansRecorded,
        NotifiedMeansRecorded
    <2>4. QED BY <2>1, <2>2, <2>3 DEF IInv
  <1>7. CASE RetFinishJob(p)
    <2>1. TypeOK'
      BY <1>7, JobsAssumption DEF RetFinishJob, RetStatusStep, StatusWrite, IInv, TypeOK, HandlersRelyOn
    <2>2. HandlersRelyOn'
      BY <1>7, <2>1, JobsAssumption DEF RetFinishJob, RetStatusStep, StatusWrite, IInv, TypeOK, HandlersRelyOn
    <2>3. HandledMeansRecorded' /\ NotifiedMeansRecorded'
      BY <1>7 DEF RetFinishJob, RetStatusStep, StatusWrite, IInv, TypeOK, HandlersRelyOn, HandledMeansRecorded,
        NotifiedMeansRecorded
    <2>4. QED BY <2>1, <2>2, <2>3 DEF IInv
  <1>8. CASE RetNotifyTask(p)
    <2>1. TypeOK'
      BY <1>8, JobsAssumption DEF RetNotifyTask, RetStatusStep, IInv, TypeOK, HandlersRelyOn
    <2>2. HandlersRelyOn'
      BY <1>8, <2>1, JobsAssumption DEF RetNotifyTask, RetStatusStep, IInv, TypeOK, HandlersRelyOn
    <2>3. HandledMeansRecorded' /\ NotifiedMeansRecorded'
      BY <1>8 DEF RetNotifyTask, RetStatusStep, IInv, TypeOK, HandlersRelyOn, HandledMeansRecorded,
        NotifiedMeansRecorded
    <2>4. QED BY <2>1, <2>2, <2>3 DEF IInv
  <1>9. CASE RetDone(p)
    <2>1. TypeOK'
      BY <1>9, JobsAssumption DEF RetDone, RetStatusStep, IInv, TypeOK, HandlersRelyOn
    <2>2. HandlersRelyOn'
      BY <1>9, <2>1, JobsAssumption DEF RetDone, RetStatusStep, IInv, TypeOK, HandlersRelyOn
    <2>3. HandledMeansRecorded' /\ NotifiedMeansRecorded'
      BY <1>9 DEF RetDone, RetStatusStep, IInv, TypeOK, HandlersRelyOn, HandledMeansRecorded,
        NotifiedMeansRecorded
    <2>4. QED BY <2>1, <2>2, <2>3 DEF IInv
  <1>10. QED BY <1>1, <1>2, <1>3, <1>4, <1>5, <1>6, <1>7, <1>8, <1>9 DEF RetHandler

(* Time passes and users edit TTLs: no document the invariant reads changes. *)
LEMMA TimeKeepsInv ==
    ASSUME IInv, Time \/ SetTtl
    PROVE  IInv'
  <1>1. CASE Time
    <2>1. TypeOK'
      BY <1>1, JobsAssumption DEF Time, JobExpires, ReturnExpires, IInv, TypeOK, HandlersRelyOn
    <2>2. HandlersRelyOn'
      BY <1>1, <2>1, JobsAssumption DEF Time, JobExpires, ReturnExpires, IInv, TypeOK, HandlersRelyOn
    <2>3. HandledMeansRecorded' /\ NotifiedMeansRecorded'
      BY <1>1 DEF Time, JobExpires, ReturnExpires, IInv, TypeOK, HandlersRelyOn, HandledMeansRecorded,
        NotifiedMeansRecorded
    <2>4. QED BY <2>1, <2>2, <2>3 DEF IInv
  <1>2. CASE SetTtl
    <2>1. TypeOK'
      BY <1>2, JobsAssumption DEF SetTtl, SetJobTtl, SetReturnTtl, IInv, TypeOK, HandlersRelyOn
    <2>2. HandlersRelyOn'
      BY <1>2, <2>1, JobsAssumption DEF SetTtl, SetJobTtl, SetReturnTtl, IInv, TypeOK, HandlersRelyOn
    <2>3. HandledMeansRecorded' /\ NotifiedMeansRecorded'
      BY <1>2 DEF SetTtl, SetJobTtl, SetReturnTtl, IInv, TypeOK, HandlersRelyOn, HandledMeansRecorded,
        NotifiedMeansRecorded
    <2>4. QED BY <2>1, <2>2, <2>3 DEF IInv
  <1>3. QED BY <1>1, <1>2

(* The jobs watcher. *)
LEMMA WatcherKeepsInv ==
    ASSUME IInv, Watcher
    PROVE  IInv'
  <1>1. CASE ReadExpiredJobs
    <2>1. TypeOK'
      BY <1>1, JobsAssumption DEF ReadExpiredJobs, WatchFrame, IInv, TypeOK, HandlersRelyOn
    <2>2. HandlersRelyOn'
      BY <1>1, <2>1, JobsAssumption DEF ReadExpiredJobs, WatchFrame, IInv, TypeOK, HandlersRelyOn
    <2>3. HandledMeansRecorded' /\ NotifiedMeansRecorded'
      BY <1>1 DEF ReadExpiredJobs, WatchFrame, IInv, TypeOK, HandlersRelyOn, HandledMeansRecorded,
        NotifiedMeansRecorded
    <2>4. QED BY <2>1, <2>2, <2>3 DEF IInv
  <1>2. ASSUME NEW j \in Jids, ReadJobReturns(j) PROVE IInv'
    <2>1. TypeOK'
      BY <1>2, JobsAssumption DEF ReadJobReturns, WatchFrame, IInv, TypeOK, HandlersRelyOn
    <2>2. HandlersRelyOn'
      BY <1>2, <2>1, JobsAssumption DEF ReadJobReturns, WatchFrame, IInv, TypeOK, HandlersRelyOn
    <2>3. HandledMeansRecorded' /\ NotifiedMeansRecorded'
      BY <1>2 DEF ReadJobReturns, WatchFrame, IInv, TypeOK, HandlersRelyOn, HandledMeansRecorded,
        NotifiedMeansRecorded
    <2>4. QED BY <2>1, <2>2, <2>3 DEF IInv
  <1>3. CASE ReadExpiredReturns
    <2>1. TypeOK'
      BY <1>3, JobsAssumption DEF ReadExpiredReturns, WatchFrame, IInv, TypeOK, HandlersRelyOn
    <2>2. HandlersRelyOn'
      BY <1>3, <2>1, JobsAssumption DEF ReadExpiredReturns, WatchFrame, IInv, TypeOK, HandlersRelyOn
    <2>3. HandledMeansRecorded' /\ NotifiedMeansRecorded'
      BY <1>3 DEF ReadExpiredReturns, WatchFrame, IInv, TypeOK, HandlersRelyOn, HandledMeansRecorded,
        NotifiedMeansRecorded
    <2>4. QED BY <2>1, <2>2, <2>3 DEF IInv
  <1>4. ASSUME NEW p \in Returns, TimeoutJobReturn(p) PROVE IInv'
    <2>1. TypeOK'
      BY <1>4, JobsAssumption DEF TimeoutJobReturn, WatchFrame, IInv, TypeOK, HandlersRelyOn
    <2>2. HandlersRelyOn'
      BY <1>4, <2>1, JobsAssumption DEF TimeoutJobReturn, WatchFrame, IInv, TypeOK, HandlersRelyOn
    <2>3. HandledMeansRecorded' /\ NotifiedMeansRecorded'
      BY <1>4 DEF TimeoutJobReturn, WatchFrame, IInv, TypeOK, HandlersRelyOn, HandledMeansRecorded,
        NotifiedMeansRecorded
    <2>4. QED BY <2>1, <2>2, <2>3 DEF IInv
  <1>5. CASE ReadUncompleted
    <2>1. TypeOK'
      BY <1>5, JobsAssumption DEF ReadUncompleted, WatchFrame, IInv, TypeOK, HandlersRelyOn
    <2>2. HandlersRelyOn'
      BY <1>5, <2>1, JobsAssumption DEF ReadUncompleted, WatchFrame, IInv, TypeOK, HandlersRelyOn
    <2>3. HandledMeansRecorded' /\ NotifiedMeansRecorded'
      BY <1>5 DEF ReadUncompleted, WatchFrame, IInv, TypeOK, HandlersRelyOn, HandledMeansRecorded,
        NotifiedMeansRecorded
    <2>4. QED BY <2>1, <2>2, <2>3 DEF IInv
  <1>6. CASE FinishCompletedJobs
    <2>1. TypeOK'
      BY <1>6, JobsAssumption DEF FinishCompletedJobs, WatchFrame, IInv, TypeOK, HandlersRelyOn
    <2>2. HandlersRelyOn'
      BY <1>6, <2>1, JobsAssumption DEF FinishCompletedJobs, WatchFrame, IInv, TypeOK, HandlersRelyOn
    <2>3. HandledMeansRecorded' /\ NotifiedMeansRecorded'
      BY <1>6 DEF FinishCompletedJobs, WatchFrame, IInv, TypeOK, HandlersRelyOn, HandledMeansRecorded,
        NotifiedMeansRecorded
    <2>4. QED BY <2>1, <2>2, <2>3 DEF IInv
  <1>7. QED BY <1>1, <1>2, <1>3, <1>4, <1>5, <1>6 DEF Watcher

\* The invariant holds initially ...
LEMMA InitInv == Init => IInv
  BY JobsAssumption DEF Init, IInv, TypeOK, HandledMeansRecorded,
     NotifiedMeansRecorded, HandlersRelyOn

\* ... and every step keeps it.
LEMMA NextKeepsInv == ASSUME IInv, [Next]_vars PROVE IInv'
  <1>1. CASE Create \/ Salt
    BY <1>1, CreateKeepsInv, SaltKeepsInv
  <1>2. CASE HandlerRaises
    BY <1>2, NewFailsKeepsInv, RetFailsKeepsInv, ErrFailsKeepsInv DEF HandlerRaises
  <1>3. CASE WorkerCrash \/ WatcherCrash
    BY <1>3, CrashKeepsInv
  <1>4. ASSUME NEW j \in Jids, NewHandler(j) \/ ErrHandler(j) \/ Sync(j) PROVE IInv'
    BY <1>4, NewHandlerKeepsInv, ErrHandlerKeepsInv, SyncKeepsInv
  <1>5. ASSUME NEW p \in Returns, RetHandler(p) PROVE IInv'
    BY <1>5, RetHandlerKeepsInv
  <1>6. CASE Time \/ SetTtl
    BY <1>6, TimeKeepsInv
  <1>7. CASE Watcher
    BY <1>7, WatcherKeepsInv
  <1>8. CASE UNCHANGED vars
    BY <1>8 DEF vars, IInv, TypeOK, HandledMeansRecorded, NotifiedMeansRecorded,
       HandlersRelyOn
  <1>9. QED BY <1>1, <1>2, <1>3, <1>4, <1>5, <1>6, <1>7, <1>8 DEF Next

(* In every behaviour of Jobs all variables keep their types (the retry    *)
(* counters stay below the limit at which push_failed_event drops), and    *)
(* the facts the handlers rely on between two round trips hold.            *)
THEOREM InvariantHolds == Spec => []IInv
  <1>1. Init => IInv BY InitInv
  <1>2. IInv /\ [Next]_vars => IInv' BY NextKeepsInv
  <1>3. QED BY <1>1, <1>2, PTL DEF Spec

(* Every variable keeps its type, so no event is tried more often than     *)
(* salt_buffer_manager_event_process_retries allows.                       *)
THEOREM TypeCorrect == Spec => []TypeOK
  <1>1. IInv => TypeOK BY DEF IInv
  <1>2. QED BY <1>1, InvariantHolds, PTL

(* Between two of its round trips a handler may rely on what it read: the  *)
(* job it updates exists and was launched, and an answer it stored stays.  *)
THEOREM RelianceHolds == Spec => []HandlersRelyOn
  <1>1. IInv => HandlersRelyOn BY DEF IInv
  <1>2. QED BY <1>1, InvariantHolds, PTL

(* A ret event whose handler completed (JobReturnMessageHandler.process)   *)
(* has left an outcome in its job return, for any number of jobs, minions, *)
(* retries and crashes.                                                    *)
THEOREM HandledIsRecorded == Spec => []HandledMeansRecorded
  <1>1. IInv => HandledMeansRecorded BY DEF IInv
  <1>2. QED BY <1>1, InvariantHolds, PTL

(* process_task_job_return is only ever sent for returns with an outcome.  *)
THEOREM NotifiedIsRecorded == Spec => []NotifiedMeansRecorded
  <1>1. IInv => NotifiedMeansRecorded BY DEF IInv
  <1>2. QED BY <1>1, InvariantHolds, PTL
-----------------------------------------------------------------------------
(* Refinement: every round trip of Jobs is one write of JobLedger or none. *)

LedgerStep == Ledger!LNext \/ UNCHANGED <<docs, kiqs>>

\* Creating a job and handling the news of one are steps of the ledger or stutter, ...
LEMMA CreateAndNewAreLedgerSteps ==
    ASSUME IInv, NEW j \in Jids, CreateJob(j) \/ NewHandler(j)
    PROVE  LedgerStep
  <1>1. CASE CreateJob(j)
    <2>1. Ledger!Create(j) BY <1>1 DEF CreateJob, Ledger!Create
    <2>2. QED BY <2>1 DEF LedgerStep, Ledger!LNext
  <1>2. CASE NewGetJob(j)
    <2>1. Ledger!Run(j) BY <1>2 DEF NewGetJob, Ledger!Run
    <2>2. QED BY <2>1 DEF LedgerStep, Ledger!LNext
  <1>3. CASE NewProcess(j)
    <2> DEFINE missing == Target[j] \ found[j]
    <2>1. found[j] \in SUBSET Minions /\ missing \in SUBSET Minions
      BY JobsAssumption DEF IInv, TypeOK
    <2>2. job[j] # "none" /\ found[j] \subseteq Target[j]
      BY <1>3 DEF NewProcess, IInv, HandlersRelyOn
    <2>3. \A m \in found[j] \cup missing : rstat[<<j, m>>] = "none"
      BY <1>3, <2>2 DEF NewProcess
    <2>4. rstat' = [p \in Ledger!Returns |->
                       IF p[1] = j /\ p[2] \in found[j] THEN "waiting"
                       ELSE IF p[1] = j /\ p[2] \in missing THEN "ignored"
                       ELSE rstat[p]]
      BY <1>3, <2>2 DEF NewProcess, Ledger!Returns
    <2>5. Ledger!CreateReturns(j, found[j], missing)
      BY <1>3, <2>2, <2>3, <2>4 DEF NewProcess, Ledger!CreateReturns
    <2>6. QED BY <2>1, <2>5 DEF LedgerStep, Ledger!LNext
  <1>4. CASE NewDuplicate(j)
    BY <1>4 DEF NewDuplicate, NewFails, LedgerStep
  <1>5. QED BY <1>1, <1>2, <1>3, <1>4 DEF NewHandler

\* ... and so are handling a return, ...
LEMMA RetIsLedgerStep ==
    ASSUME IInv, NEW p \in Returns, RetHandler(p)
    PROVE  LedgerStep
  <1>1. CASE RetUpdate(p)
    <2>1. CASE rcode[p] = "null"
      <3>1. reply[p] \in Ledger!Replies
        BY DEF IInv, TypeOK, Ledger!Replies, Ledger!Retcodes
      <3>2. Ledger!Answer(p, reply[p])
        BY <1>1, <2>1 DEF RetUpdate, Ledger!Answer, Ledger!StatusOf
      <3>3. QED BY <3>1, <3>2 DEF LedgerStep, Ledger!LNext, Ledger!Returns
    <2>2. CASE rcode[p] # "null"
      BY <1>1, <2>2 DEF RetUpdate, LedgerStep
    <2>3. QED BY <2>1, <2>2
  <1>2. CASE RetFinishJob(p)
    <2>1. p[1] \in Jids /\ job[p[1]] \in JobStatus \ {"starting"}
      BY <1>2 DEF RetFinishJob, RetStatusStep, IInv, HandlersRelyOn
    <2>2. job' = [j \in Jids |-> IF j \in {p[1]} THEN "finished" ELSE job[j]]
      BY <1>2, <2>1 DEF RetFinishJob, StatusWrite, IInv, TypeOK
    <2>3. Ledger!Finish({p[1]})
      BY <1>2, <2>1, <2>2 DEF RetFinishJob, RetStatusStep, Ledger!Finish, Ledger!JobStatus
    <2>4. QED BY <2>1, <2>3 DEF LedgerStep, Ledger!LNext
  <1>3. CASE RetNotifyTask(p)
    <2>1. CASE p[1] \in TaskJobs
      <3>1. rstat[p] \in Answered
        BY <1>3 DEF RetNotifyTask, RetStatusStep, IInv, HandlersRelyOn
      <3>2. Ledger!NotifyReturn(p)
        BY <1>3, <2>1, <3>1 DEF RetNotifyTask, RetStatusStep, Ledger!NotifyReturn
      <3>3. QED BY <3>2 DEF LedgerStep, Ledger!LNext, Ledger!Returns
    <2>2. CASE p[1] \notin TaskJobs
      BY <1>3, <2>2 DEF RetNotifyTask, RetStatusStep, LedgerStep
    <2>3. QED BY <2>1, <2>2
  <1>4. CASE ~(RetUpdate(p) \/ RetFinishJob(p) \/ RetNotifyTask(p))
    BY <1>4 DEF RetHandler, RetGetJob, RetUnknown, RetFails, RetReadStatus,
       RetCheckWaiting, RetDone, RetStatusStep, LedgerStep
  <1>5. QED BY <1>1, <1>2, <1>3, <1>4

\* ... an error, ...
LEMMA ErrIsLedgerStep ==
    ASSUME IInv, NEW j \in Jids, ErrHandler(j)
    PROVE  LedgerStep
  <1>1. CASE ErrGetJob(j)
    BY <1>1 DEF ErrGetJob, ErrStep, LedgerStep
  <1>2. CASE ErrUpdate(j)
    <2>1. Ledger!LaunchError(j)
      BY <1>2 DEF ErrUpdate, ErrStep, IInv, HandlersRelyOn, Ledger!LaunchError
    <2>2. QED BY <2>1 DEF LedgerStep, Ledger!LNext
  <1>3. CASE ErrNotifyTask(j) /\ j \in TaskJobs \cup SystemJobs
    <2>1. Ledger!NotifyError(j)
      BY <1>3 DEF ErrNotifyTask, ErrStep, IInv, HandlersRelyOn, Ledger!NotifyError
    <2>2. QED BY <2>1 DEF LedgerStep, Ledger!LNext
  <1>4. CASE ErrNotifyTask(j) /\ j \notin TaskJobs \cup SystemJobs
    BY <1>4 DEF ErrNotifyTask, ErrStep, LedgerStep
  <1>5. QED BY <1>1, <1>2, <1>3, <1>4 DEF ErrHandler

\* ... a synchronisation, ...
LEMMA SyncIsLedgerStep ==
    ASSUME IInv, NEW j \in Jids, Sync(j)
    PROVE  LedgerStep
  <1>1. CASE SyncFinishJob(j)
    <2>1. job[j] \in JobStatus \ {"starting"}
      BY <1>1 DEF SyncFinishJob, SyncStep, IInv, HandlersRelyOn
    <2>2. job' = [k \in Jids |-> IF k \in {j} THEN "finished" ELSE job[k]]
      BY <1>1 DEF SyncFinishJob, StatusWrite, IInv, TypeOK
    <2>3. Ledger!Finish({j})
      BY <1>1, <2>1, <2>2 DEF SyncFinishJob, SyncStep, Ledger!Finish, Ledger!JobStatus
    <2>4. QED BY <2>3 DEF LedgerStep, Ledger!LNext
  <1>2. CASE SyncReadStatus(j) \/ SyncCheckWaiting(j)
    BY <1>2 DEF SyncReadStatus, SyncCheckWaiting, SyncStep, LedgerStep
  <1>3. QED BY <1>1, <1>2 DEF Sync

\* ... the watcher, ...
LEMMA WatcherIsLedgerStep ==
    ASSUME IInv, Watcher
    PROVE  LedgerStep
  <1>1. ASSUME NEW p \in Returns, TimeoutJobReturn(p) PROVE LedgerStep
    <2>1. CASE rstat[p] = "waiting"
      <3>1. Ledger!Timeout(p)
        BY <1>1, <2>1 DEF TimeoutJobReturn, WatchFrame, Ledger!Timeout
      <3>2. QED BY <3>1 DEF LedgerStep, Ledger!LNext, Ledger!Returns
    <2>2. CASE rstat[p] # "waiting"
      BY <1>1, <2>2 DEF TimeoutJobReturn, WatchFrame, LedgerStep
    <2>3. QED BY <2>1, <2>2
  <1>2. CASE FinishCompletedJobs
    <2> DEFINE J == {j \in Jids : j \in wIds /\ job[j] = "running"}
    <2>1. job' = [j \in Jids |-> IF j \in J THEN "finished" ELSE job[j]]
      BY <1>2 DEF FinishCompletedJobs
    <2>2. Ledger!Finish(J)
      BY <1>2, <2>1 DEF FinishCompletedJobs, WatchFrame, Ledger!Finish, Ledger!JobStatus
    <2>3. QED BY <2>2 DEF LedgerStep, Ledger!LNext
  <1>3. CASE \/ ReadExpiredJobs \/ ReadExpiredReturns \/ ReadUncompleted
             \/ \E j \in Jids : ReadJobReturns(j)
    BY <1>3 DEF ReadExpiredJobs, ReadExpiredReturns, ReadUncompleted, ReadJobReturns,
       WatchFrame, LedgerStep
  <1>4. QED BY <1>1, <1>2, <1>3 DEF Watcher

\* ... and every step.
LEMMA NextIsLedgerStep == ASSUME IInv, [Next]_vars PROVE LedgerStep
  <1>1. CASE Salt \/ HandlerRaises \/ WorkerCrash \/ WatcherCrash \/ Time \/ SetTtl
    BY <1>1 DEF Salt, SaltPublish, SaltRefuse, MinionReturn, MinionResend,
       HandlerRaises, NewFails, RetFails, ErrFails, WorkerCrash, WatcherCrash,
       Time, JobExpires, ReturnExpires, SetTtl, SetJobTtl, SetReturnTtl, LedgerStep
  <1>2. ASSUME NEW j \in Jids, CreateJob(j) \/ NewHandler(j) PROVE LedgerStep
    BY <1>2, CreateAndNewAreLedgerSteps
  <1>3. ASSUME NEW j \in Jids, SendJobToMaster(j) PROVE LedgerStep
    BY <1>3 DEF SendJobToMaster, LedgerStep
  <1>4. ASSUME NEW j \in Jids, ErrHandler(j) \/ Sync(j) PROVE LedgerStep
    BY <1>4, ErrIsLedgerStep, SyncIsLedgerStep
  <1>5. ASSUME NEW p \in Returns, RetHandler(p) PROVE LedgerStep
    BY <1>5, RetIsLedgerStep
  <1>6. CASE Watcher BY <1>6, WatcherIsLedgerStep
  <1>7. CASE UNCHANGED vars BY <1>7 DEF vars, LedgerStep
  <1>8. QED BY <1>1, <1>2, <1>3, <1>4, <1>5, <1>6, <1>7 DEF Next, Create

(* The handlers, the watcher and the services together change the `jobs`   *)
(* and `job_returns` collections only in the ways JobLedger allows.        *)
THEOREM LedgerImplemented == Spec => ImplementsLedger
  <1>1. Init => Ledger!LInit BY DEF Init, Ledger!LInit, Ledger!Returns
  <1>2. IInv /\ [Next]_vars => [Ledger!LNext]_(Ledger!lvars)
    BY NextIsLedgerStep DEF LedgerStep, Ledger!lvars
  <1>3. QED BY <1>1, <1>2, InvariantHolds, PTL DEF Spec, ImplementsLedger, Ledger!LSpec

(* What the ledger's writes preserve, given what the handlers rely on: an  *)
(* answer stays (_update_job_return_object writes once), and a settled     *)
(* return never waits again.                                               *)
LEMMA LedgerKeepsAnswers ==
    ASSUME IInv, LedgerStep, NEW p \in Returns
    PROVE  /\ rcode[p] # "null" => rcode'[p] = rcode[p] /\ rstat'[p] = rstat[p]
           /\ rstat[p] \notin {"none", "waiting"} => rstat'[p] \notin {"none", "waiting"}
  <1>1. rcode[p] # "null" => rstat[p] \in Answered
    BY DEF IInv, HandlersRelyOn
  <1>2. CASE UNCHANGED <<docs, kiqs>> BY <1>2
  <1>3. ASSUME NEW q \in Returns, NEW rc \in Replies, Ledger!Answer(q, rc)
        PROVE  /\ rcode[p] # "null" => rcode'[p] = rcode[p] /\ rstat'[p] = rstat[p]
               /\ rstat[p] \notin {"none", "waiting"} =>
                     rstat'[p] \notin {"none", "waiting"}
    BY <1>3 DEF Ledger!Answer, Ledger!StatusOf, IInv, TypeOK
  <1>4. ASSUME NEW q \in Returns, Ledger!Timeout(q)
        PROVE  /\ rcode[p] # "null" => rcode'[p] = rcode[p] /\ rstat'[p] = rstat[p]
               /\ rstat[p] \notin {"none", "waiting"} =>
                     rstat'[p] \notin {"none", "waiting"}
    BY <1>1, <1>4 DEF Ledger!Timeout, IInv, TypeOK
  <1>5. ASSUME NEW j \in Jids, NEW live \in SUBSET Minions,
               NEW missing \in SUBSET Minions,
               Ledger!CreateReturns(j, live, missing)
        PROVE  /\ rcode'[p] = rcode[p]
               /\ rstat[p] # "none" => rstat'[p] = rstat[p]
    <2>1. p = <<p[1], p[2]>> OBVIOUS
    <2>2. QED BY <1>5, <2>1 DEF Ledger!CreateReturns, Ledger!Returns
  <1>6. CASE \/ \E j \in Jids : \/ Ledger!Create(j) \/ Ledger!Run(j)
                               \/ Ledger!LaunchError(j) \/ Ledger!NotifyError(j)
             \/ \E q \in Returns : Ledger!NotifyReturn(q)
             \/ \E J \in SUBSET Jids : Ledger!Finish(J)
    BY <1>6 DEF Ledger!Create, Ledger!Run, Ledger!LaunchError, Ledger!NotifyError,
       Ledger!NotifyReturn, Ledger!Finish
  <1>7. QED BY <1>1, <1>2, <1>3, <1>4, <1>5, <1>6
            DEF LedgerStep, Ledger!LNext, Ledger!Returns, Ledger!Replies, Ledger!Retcodes

(* No re-sent ret, redelivered event or watcher working from an old list   *)
(* changes a return that carries a retcode.                                *)
THEOREM AnswersAreFinal == Spec => AnswerIsFinal
  <1>1. IInv /\ [Next]_vars =>
          [\A p \in Returns : rcode[p] # "null" =>
              /\ rcode'[p] = rcode[p]
              /\ rstat'[p] = rstat[p]]_docs
    BY NextIsLedgerStep, LedgerKeepsAnswers
  <1>2. QED BY <1>1, InvariantHolds, PTL DEF Spec, AnswerIsFinal

(* A return that is answered, timed out or ignored never waits again.      *)
THEOREM ReturnsStaySettled == Spec => SettledForGood
  <1>1. IInv /\ [Next]_vars =>
          [\A p \in Returns : rstat[p] \notin {"none", "waiting"} =>
              rstat'[p] \notin {"none", "waiting"}]_docs
    BY NextIsLedgerStep, LedgerKeepsAnswers
  <1>2. QED BY <1>1, InvariantHolds, PTL DEF Spec, SettledForGood
=============================================================================

----------------------------- MODULE SaltBuffer -----------------------------
(***************************************************************************)
(* The way of a Salt event from a master's bridge to the handlers.  The    *)
(* bridge appends it to a list of Redis; SaltBufferManager pops a batch,   *)
(* sends each event as a Taskiq task, and puts back one that was not sent; *)
(* a worker gives the event to a chain of handlers, and appends it to the  *)
(* list again when one of them fails, up to a number of retries.           *)
(***************************************************************************)
EXTENDS Naturals, Sequences, FiniteSets

CONSTANTS
    Events,      \* what masters send, each once
    EventWorkers,
    Chain,       \* number of handlers
    EventBatch,  \* salt_buffer_manager_batch_size
    Retries,     \* salt_buffer_manager_event_process_retries
    MaxFaults    \* bound: crashes, and sends of which nobody knows the end

ASSUME SaltBufferAssumption ==
    /\ Chain \in Nat /\ EventBatch \in Nat \ {0}
    /\ Retries \in Nat \ {0} /\ MaxFaults \in Nat /\ IsFiniteSet(EventWorkers)

VARIABLES
    buffer,      \* list salt-events:<master>:to_process
    batch,       \* what run() has popped and not yet sent
    sent,        \* queue-salt of RabbitMQ, which does not survive it
    work,        \* worker -> its event, with the handlers that are done
    over,        \* events handled to the end, or skipped after their retries
    attempts,    \* history: event -> times that a worker began it
    doubled,     \* history: events that were sent although it seemed not
    dropped,     \* history: events that were in hand when something crashed
    eventFaults

saltBufferVars == <<buffer, batch, sent, work, over, attempts, doubled, dropped, eventFaults>>

Message == [event : Events, retries : 0..(Retries - 1)]
Work == [event : Events, retries : 0..(Retries - 1), done : 0..Chain]
NoEvent == [done |-> Chain + 1]
InList(s) == {s[i].event : i \in DOMAIN s}
InWork == {work[w].event : w \in {w \in EventWorkers : work[w] # NoEvent}}

SaltBufferTypeOK ==
    /\ \A s \in {buffer, batch, sent} : \A i \in DOMAIN s : s[i] \in Message
    /\ work \in [EventWorkers -> Work \cup {NoEvent}] /\ attempts \in [Events -> Nat]
    /\ over \subseteq Events /\ doubled \subseteq Events /\ dropped \subseteq Events
    /\ eventFaults \in 0..MaxFaults

SaltBufferInit ==
    /\ buffer = <<>> /\ batch = <<>> /\ sent = <<>>
    /\ work = [w \in EventWorkers |-> NoEvent] /\ attempts = [e \in Events |-> 0]
    /\ over = {} /\ doubled = {} /\ dropped = {} /\ eventFaults = 0

Seen == InList(buffer) \cup InList(batch) \cup InList(sent) \cup InWork \cup over \cup dropped
Fault == eventFaults < MaxFaults /\ eventFaults' = eventFaults + 1
-----------------------------------------------------------------------------
\* The bridge of a master appends an event.
Receive(e) ==
    /\ e \notin Seen
    /\ buffer' = Append(buffer, [event |-> e, retries |-> 0])
    /\ UNCHANGED <<batch, sent, work, over, attempts, doubled, dropped, eventFaults>>

\* lpop takes a batch from the list's head.
lpop ==
    /\ batch = <<>> /\ buffer # <<>>
    /\ LET n == IF Len(buffer) < EventBatch THEN Len(buffer) ELSE EventBatch
       IN  /\ batch' = SubSeq(buffer, 1, n)
           /\ buffer' = SubSeq(buffer, n + 1, Len(buffer))
    /\ UNCHANGED <<sent, work, over, attempts, doubled, dropped, eventFaults>>

kiq ==
    /\ batch # <<>>
    /\ sent' = Append(sent, Head(batch)) /\ batch' = Tail(batch)
    /\ UNCHANGED <<buffer, work, over, attempts, doubled, dropped, eventFaults>>

\* SendTaskError: back to the head of the list with the event, and on with the
\* batch.  RabbitMQ may have taken it all the same.
\* Mutant: an event that was not sent is gone.
SendTaskError_Forgets ==
    /\ batch # <<>> /\ Fault /\ batch' = Tail(batch)
    /\ UNCHANGED <<buffer, sent, work, over, attempts, doubled, dropped>>
SendTaskError ==
    /\ batch # <<>> /\ Fault
    /\ buffer' = <<Head(batch)>> \o buffer /\ batch' = Tail(batch)
    /\ \/ UNCHANGED <<sent, doubled>>
       \/ /\ sent' = Append(sent, Head(batch))
          /\ doubled' = doubled \cup {Head(batch).event}
    /\ UNCHANGED <<work, over, attempts, dropped>>

\* The manager dies, with what it has popped.
ManagerCrash ==
    /\ batch # <<>> /\ Fault
    /\ batch' = <<>> /\ dropped' = dropped \cup InList(batch)
    /\ UNCHANGED <<buffer, sent, work, over, attempts, doubled>>

\* RabbitMQ restarts: its queues are not durable.
BrokerRestart ==
    /\ sent # <<>> /\ Fault
    /\ sent' = <<>> /\ dropped' = dropped \cup InList(sent)
    /\ UNCHANGED <<buffer, batch, work, over, attempts, doubled>>
-----------------------------------------------------------------------------
process_event(w) ==
    /\ work[w] = NoEvent /\ sent # <<>>
    /\ work' = [work EXCEPT ![w] = [event |-> Head(sent).event,
                                    retries |-> Head(sent).retries, done |-> 0]]
    /\ sent' = Tail(sent)
    /\ attempts' = [attempts EXCEPT ![Head(sent).event] = @ + 1]
    /\ UNCHANGED <<buffer, batch, over, doubled, dropped, eventFaults>>

\* A handler is done with the event: the next one has it, if there is one and
\* this one did not raise StopProcessing.
handle(w) ==
    /\ work[w] # NoEvent
    /\ \/ /\ work[w].done + 1 < Chain
          /\ work' = [work EXCEPT ![w].done = @ + 1]
          /\ UNCHANGED over
       \/ /\ work' = [work EXCEPT ![w] = NoEvent] /\ over' = over \cup {work[w].event}
    /\ UNCHANGED <<buffer, batch, sent, attempts, doubled, dropped, eventFaults>>

\* A handler fails: the event goes to the list's end, or is skipped.
push_failed_event(w) ==
    /\ work[w] # NoEvent
    /\ LET retries == work[w].retries + 1
       IN  IF retries >= Retries
           THEN over' = over \cup {work[w].event} /\ UNCHANGED buffer
           ELSE /\ buffer' = Append(buffer, [event |-> work[w].event, retries |-> retries])
                /\ UNCHANGED over
    /\ work' = [work EXCEPT ![w] = NoEvent]
    /\ UNCHANGED <<batch, sent, attempts, doubled, dropped, eventFaults>>

\* A worker dies before the task is acknowledged: RabbitMQ gives it to another.
EventWorkerCrash(w) ==
    /\ work[w] # NoEvent /\ Fault
    /\ sent' = <<[event |-> work[w].event, retries |-> work[w].retries]>> \o sent
    /\ work' = [work EXCEPT ![w] = NoEvent]
    /\ UNCHANGED <<buffer, batch, over, attempts, doubled, dropped>>

Manager == lpop \/ kiq
EventWorker(w) == process_event(w) \/ handle(w) \/ push_failed_event(w)

SaltBufferNext ==
    \/ \E e \in Events : Receive(e)
    \/ Manager \/ SendTaskError \/ ManagerCrash \/ BrokerRestart
    \/ \E w \in EventWorkers : EventWorker(w) \/ EventWorkerCrash(w)

\* The manager's loop and the workers run on; a handler returns or raises.
EventsFairness ==
    /\ WF_saltBufferVars(Manager)
    /\ \A w \in EventWorkers : WF_saltBufferVars(EventWorker(w))
SaltBufferSpec == SaltBufferInit /\ [][SaltBufferNext]_saltBufferVars /\ EventsFairness
-----------------------------------------------------------------------------
\* Handlers run again for what failed, and what was done before is done again:
\* salt_buffer_manager_event_process_retries times, and once more for each fault.
AttemptsBounded ==
    \A e \in Events :
        attempts[e] <= Retries * (IF e \in doubled THEN 1 + eventFaults ELSE 1) + eventFaults

\* Every event that a master sent is handled or skipped, unless lost in a crash.
EveryEventEnds == \A e \in Events : e \in Seen ~> e \in over \cup dropped
=============================================================================

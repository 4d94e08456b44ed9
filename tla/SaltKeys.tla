------------------------------ MODULE SaltKeys ------------------------------
(***************************************************************************)
(* Keys of Salt minions, which their masters keep.  A request asks several *)
(* masters at once and waits a few seconds for each: a master that does    *)
(* not answer in time is left out of the result, and may do what it was    *)
(* asked to, then or later.  The keys of deleted minions are deleted by a  *)
(* taskiq task, which is tried again if it fails.                          *)
(***************************************************************************)
EXTENDS Naturals, FiniteSets

CONSTANTS
    SaltMasters, SaltMinions,
    Requests,      \* requests of users and runs of tasks
    MaxTries,      \* max_retries of the task
    MaxEvents     \* bound: minions deleted or come back, failures of the broker

VARIABLES
    key,       \* <<master, minion>> -> the status of the key
    setBy,     \* history: the request that set it so
    request,   \* request -> its action, about whom, the masters that were late
    asked,     \* <<request, master>> -> how far the master has come
    did,       \* request -> the keys that masters have changed for it
    result,    \* request -> the keys of which it says that they were changed
    removal,   \* <<master, minion>> -> the task that deletes the minion's key
    tries,     \* how often the task has run
    fresh,     \* history: keys of minions that came back after they were deleted
    events

keysVars == <<key, setBy, request, asked, did, result, removal, tries, fresh, events>>

Keys == SaltMasters \X SaltMinions
KeyStatus == {"none", "unaccepted", "accepted", "rejected"}
ACTIONS_TO_NEW_STATUS_MAP ==
    [action \in {"accept", "reject", "delete"} |->
        CASE action = "accept" -> "accepted" [] action = "reject" -> "rejected"
          [] action = "delete" -> "none"]
Unused == [action |-> "none", of |-> {}, all |-> FALSE, task |-> {}, late |-> {}, ended |-> FALSE]
Nobody == "nobody"

ASSUME KeysAssumption ==
    /\ {Nobody, "minion"} \cap Requests = {}
    /\ MaxTries \in Nat /\ MaxEvents \in Nat

KeysInit ==
    /\ key = [k \in Keys |-> "unaccepted"]
    /\ setBy = [k \in Keys |-> Nobody]
    /\ request = [r \in Requests |-> Unused]
    /\ asked = [x \in Requests \X SaltMasters |-> "none"]
    /\ did = [r \in Requests |-> {}]
    /\ result = [r \in Requests |-> {}]
    /\ removal = [k \in Keys |-> "none"] /\ tries = [k \in Keys |-> 0]
    /\ fresh = {} /\ events = 0

KeysTypeOK ==
    /\ key \in [Keys -> KeyStatus] /\ setBy \in [Keys -> Requests \cup {Nobody, "minion"}]
    /\ \A r \in Requests : DOMAIN request[r] = DOMAIN Unused /\ request[r].of \subseteq Keys
    /\ asked \in [Requests \X SaltMasters -> {"none", "sent", "acted"}]
    /\ did \in [Requests -> SUBSET Keys] /\ result \in [Requests -> SUBSET Keys]
    /\ removal \in [Keys -> {"none", "queued", "runs", "ended"}]
    /\ tries \in [Keys -> 0..(MaxTries + 1)] /\ fresh \subseteq Keys /\ events \in 0..MaxEvents

\* _action_on_salt_key: one message to each master, all sent before it waits.
_action_on_salt_key(r, action, of, all, task) ==
    /\ request[r] = Unused
    /\ request' = [request EXCEPT ![r] = [action |-> action, of |-> of, all |-> all,
                                              task |-> task, late |-> {}, ended |-> FALSE]]
    /\ LET to == {r} \X {k[1] : k \in of}
       IN  asked' = [x \in DOMAIN asked |-> IF x \in to THEN "sent" ELSE asked[x]]
    /\ UNCHANGED <<key, setBy, did, result, fresh, events>>

\* accept_keys, reject_keys and delete_keys; accept_all_keys and the like ask
\* some of the accepted masters: none, if the request comes with an empty list.
NamedKeys(r) ==
    /\ \E action \in DOMAIN ACTIONS_TO_NEW_STATUS_MAP, of \in SUBSET Keys \ {{}} :
           _action_on_salt_key(r, action, of, FALSE, {})
    /\ UNCHANGED <<removal, tries>>
AllKeys(r) ==
    /\ \E action \in DOMAIN ACTIONS_TO_NEW_STATUS_MAP, M \in SUBSET SaltMasters :
           _action_on_salt_key(r, action, M \X SaltMinions, TRUE, {})
    /\ UNCHANGED <<removal, tries>>

\* What the master does with a message, if it is there: named keys that it has, or those that
\* are not accepted yet (all there are, if they are deleted).
Changed(r, m) ==
    LET act == request[r].action
    IN  {k \in Keys : /\ k[1] = m /\ k \in request[r].of /\ key[k] # "none"
                      /\ request[r].all /\ act # "delete" => key[k] = "unaccepted"}
MasterActs(r, m) ==
    /\ asked[<<r, m>>] = "sent"
    /\ asked' = [asked EXCEPT ![<<r, m>>] = "acted"]
    /\ did' = [did EXCEPT ![r] = @ \cup Changed(r, m)]
    /\ LET done == Changed(r, m)
           new == ACTIONS_TO_NEW_STATUS_MAP[request[r].action]
       IN  /\ key' = [k \in Keys |-> IF k \in done THEN new ELSE key[k]]
           /\ setBy' = [k \in Keys |-> IF k \in done THEN r ELSE setBy[k]]
    /\ UNCHANGED <<request, result, removal, tries, fresh, events>>

\* send_message_and_wait_response_to_master raises after its time-out, of which
\* _send_action_on_salt_key_to_master makes None: a master that has not acted
\* by the end is too late, and so may one be that has.
TooLate(r) ==
    {M \in SUBSET SaltMasters : \A m \in SaltMasters : /\ m \in M => asked[<<r, m>>] # "none"
                                                       /\ asked[<<r, m>>] = "sent" => m \in M}

\* _parse_action_result: what the masters that answered say, or nothing.
_parse_action_result_Asked(r, late) ==       \* mutant: what they were asked
    IF request[r].action = "delete" THEN {} ELSE request[r].of
_parse_action_result(r, late) ==
    IF request[r].action = "delete" THEN {} ELSE {k \in did[r] : k[1] \notin late}
Return(r) ==
    /\ request[r] # Unused /\ ~request[r].ended
    /\ \E late \in TooLate(r) :
        /\ result' = [result EXCEPT ![r] = _parse_action_result(r, late)]
        /\ request' = [request EXCEPT ![r].ended = TRUE, ![r].late = late]
    /\ removal' = [k \in Keys |-> IF k \in request[r].task THEN "ended" ELSE removal[k]]
    /\ UNCHANGED <<key, setBy, asked, did, tries, fresh, events>>
-----------------------------------------------------------------------------
\* MinionService.delete_many sends delete_minion_salt_keys_task.
minion_delete(k) ==
    /\ events < MaxEvents /\ removal[k] = "none"
    /\ events' = events + 1
    /\ removal' = [removal EXCEPT ![k] = "queued"]
    /\ UNCHANGED <<key, setBy, request, asked, did, result, tries, fresh>>
delete_minion_salt_keys_task(k, r) ==
    /\ removal[k] = "queued"
    /\ _action_on_salt_key(r, "delete", {k}, FALSE, {k})
    /\ removal' = [removal EXCEPT ![k] = "runs"] /\ tries' = [tries EXCEPT ![k] = @ + 1]

\* The request fails before a master has acted on it (no connection to the
\* broker): the task is tried again, unless it was too often.
TaskFails_Ends(k) == "ended"           \* mutant: without retry_on_error
TaskFails(k) == IF tries[k] <= MaxTries THEN "queued" ELSE "ended"
RequestFails(r) ==
    /\ events < MaxEvents /\ request[r].task # {}
    /\ ~request[r].ended /\ \A m \in SaltMasters : asked[<<r, m>>] \in {"none", "sent"}
    /\ events' = events + 1
    /\ request' = [request EXCEPT ![r] = Unused]
    /\ asked' = [x \in DOMAIN asked |-> IF x[1] = r THEN "none" ELSE asked[x]]
    /\ removal' = [k \in Keys |-> IF k \in request[r].task THEN TaskFails(k) ELSE removal[k]]
    /\ UNCHANGED <<key, setBy, did, result, tries, fresh>>

\* A minion without a key on its master registers again.
Rejoin(k) ==
    /\ events < MaxEvents /\ key[k] = "none"
    /\ events' = events + 1
    /\ fresh' = IF removal[k] = "none" THEN fresh ELSE fresh \cup {k}
    /\ key' = [key EXCEPT ![k] = "unaccepted"] /\ setBy' = [setBy EXCEPT ![k] = "minion"]
    /\ UNCHANGED <<request, asked, did, result, removal, tries>>

KeysNext ==
    \/ \E r \in Requests : NamedKeys(r) \/ AllKeys(r) \/ Return(r) \/ RequestFails(r)
    \/ \E r \in Requests, m \in SaltMasters : MasterActs(r, m)
    \/ \E k \in Keys : \/ minion_delete(k) \/ Rejoin(k)
                       \/ \E r \in Requests : delete_minion_salt_keys_task(k, r)
KeysSpec == KeysInit /\ [][KeysNext]_keysVars
-----------------------------------------------------------------------------
\* What a request says it has changed was changed by it, and is so until another
\* one changes it, though masters answer late, not at all or in any order, and
\* requests overlap; and if no master was too late, nothing else was changed.
ReportedIsDone ==
    \A r \in Requests : request[r].ended =>
        /\ result[r] \subseteq did[r]
        /\ \A k \in Keys : setBy[k] = r /\ key[k] # "none" =>
               k \in result[r] \/ k[1] \in request[r].late

\* "Auto-delete salt key on minion removal": when the task of a deleted minion
\* has ended, the key it is about is gone, or new, unless the master did not
\* answer in time or the broker failed every time.
KeyIsDeleted ==
    \A k \in Keys : removal[k] = "ended" =>
        \/ key[k] = "none" \/ k \in fresh
        \/ tries[k] > MaxTries
        \/ \E r \in Requests : k \in request[r].task /\ k[1] \in request[r].late
=============================================================================

------------------------------- MODULE Masters -------------------------------
(***************************************************************************)
(* Salt masters and their registration.  A master's bridge sends auth with *)
(* its ssh keys until it is accepted, and sync_saltbox_done after a sync.  *)
(* Their handlers read the master's document and may write it back whole;  *)
(* users accept and reject masters meanwhile, and the masters of the       *)
(* status accepted are those whose keys are given to sshd.                 *)
(***************************************************************************)
EXTENDS Naturals, FiniteSets

CONSTANTS
    MasterIds,
    MaxKeys,       \* bound: pairs of keys a master makes
    MaxMessages    \* bound: messages of bridges, requests of users

ASSUME MastersAssumption == MaxKeys \in Nat \ {0} /\ MaxMessages \in Nat

VARIABLES
    master,    \* master -> its document
    bridge,    \* master -> the keys that its bridge has
    handled,   \* master -> handler -> the document it has read
    told,      \* masters that were told to sync
    approved,  \* history: <<master, keys>> a user has accepted
    messages

mastersVars == <<master, bridge, handled, told, approved, messages>>

MasterStatus == {"new", "accepted", "rejected", "keys_stale"}
Handlers == {"auth", "sync_done"}
MasterModel == [status : MasterStatus, keys : 1..MaxKeys, synced : BOOLEAN]
NoMaster == [status |-> "none", keys |-> 1, synced |-> FALSE]

MastersTypeOK ==
    /\ master \in [MasterIds -> MasterModel \cup {NoMaster}]
    /\ bridge \in [MasterIds -> 1..MaxKeys]
    /\ handled \in [MasterIds -> [Handlers -> MasterModel \cup {NoMaster}]]
    /\ told \subseteq MasterIds
    /\ approved \subseteq MasterIds \X (1..MaxKeys) /\ messages \in 0..MaxMessages

MastersInit ==
    /\ master = [m \in MasterIds |-> NoMaster] /\ bridge = [m \in MasterIds |-> 1]
    /\ handled = [m \in MasterIds |-> [h \in Handlers |-> NoMaster]]
    /\ told = {} /\ approved = {} /\ messages = 0

Known(m) == master[m] # NoMaster
Send == messages < MaxMessages /\ messages' = messages + 1
Handled(m, h) == handled' = [handled EXCEPT ![m][h] = NoMaster]
-----------------------------------------------------------------------------
\* The bridge makes new keys; that they are stale comes from outside the core.
Rekey(m) ==
    /\ bridge[m] < MaxKeys
    /\ bridge' = [bridge EXCEPT ![m] = @ + 1]
    /\ master' = IF Known(m) THEN [master EXCEPT ![m].status = "keys_stale"] ELSE master
    /\ UNCHANGED <<handled, told, approved, messages>>

\* auth: a master that is not known is created, the keys of one whose keys are
\* stale are taken, from the document that was read.  Others get their status.
auth(m) ==
    /\ Send
    /\ \/ /\ ~Known(m)
          /\ master' = [master EXCEPT ![m] = [status |-> "new", keys |-> bridge[m],
                                              synced |-> FALSE]]
          /\ UNCHANGED handled
       \/ /\ Known(m) /\ master[m].status = "keys_stale" /\ handled[m]["auth"] = NoMaster
          /\ handled' = [handled EXCEPT ![m]["auth"] = master[m]]
          /\ UNCHANGED master
    /\ UNCHANGED <<bridge, told, approved>>
\* Mutant: the keys alone are written.
WriteKeys_KeysOnly(m) ==
    /\ handled[m]["auth"] # NoMaster
    /\ master' = [master EXCEPT ![m].keys = bridge[m]]
    /\ Handled(m, "auth")
    /\ UNCHANGED <<bridge, told, approved, messages>>
WriteKeys(m) ==
    /\ handled[m]["auth"] # NoMaster
    /\ master' = [master EXCEPT ![m] = [handled[m]["auth"] EXCEPT !.status = "new",
                                                                  !.keys = bridge[m]]]
    /\ Handled(m, "auth")
    /\ UNCHANGED <<bridge, told, approved, messages>>

\* sync_saltbox_done: only the status of the sync is new, all is written.
\* MastersAuthMiddleware lets a message of any known master pass.
sync_saltbox_done(m) ==
    /\ Send /\ Known(m) /\ m \in told /\ handled[m]["sync_done"] = NoMaster
    /\ handled' = [handled EXCEPT ![m]["sync_done"] = master[m]]
    /\ told' = told \ {m}
    /\ UNCHANGED <<master, bridge, approved>>
WriteSynced(m) ==
    /\ handled[m]["sync_done"] # NoMaster
    /\ master' = [master EXCEPT ![m] = [handled[m]["sync_done"] EXCEPT !.synced = TRUE]]
    /\ Handled(m, "sync_done")
    /\ UNCHANGED <<bridge, told, approved, messages>>

\* A user's decision.  An accepted master is told to sync.
accept(m) ==
    /\ Send /\ Known(m)
    /\ master' = [master EXCEPT ![m].status = "accepted"]
    /\ approved' = approved \cup {<<m, master[m].keys>>}
    /\ told' = told \cup {m}
    /\ UNCHANGED <<bridge, handled>>
reject(m) ==
    /\ Send /\ Known(m)
    /\ master' = [master EXCEPT ![m].status = "rejected"]
    /\ UNCHANGED <<bridge, handled, told, approved>>

\* After a sync of sources every accepted master is told to sync.
notify_accepted_masters_on_repos_update ==
    /\ told' = told \cup {m \in MasterIds : master[m].status = "accepted"}
    /\ told' # told
    /\ UNCHANGED <<master, bridge, handled, approved, messages>>

\* A message on Redis that no one hears is gone.
LoseMessage(m) ==
    /\ m \in told /\ told' = told \ {m}
    /\ UNCHANGED <<master, bridge, handled, approved, messages>>

\* The masters whose keys sshd is given.
authorized_keys == {<<m, master[m].keys>> : m \in {m \in MasterIds : master[m].status = "accepted"}}

MastersNext ==
    \/ \E m \in MasterIds : \/ Rekey(m) \/ auth(m) \/ WriteKeys(m) \/ sync_saltbox_done(m)
                            \/ WriteSynced(m) \/ accept(m) \/ reject(m) \/ LoseMessage(m)
    \/ notify_accepted_masters_on_repos_update
MastersSpec == MastersInit /\ [][MastersNext]_mastersVars
-----------------------------------------------------------------------------
\* sshd is never given keys that no user has accepted, whatever is handled at
\* the same time, and with whatever document it began.
OnlyAcceptedKeys == authorized_keys \subseteq approved
=============================================================================

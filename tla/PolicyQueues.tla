---------------------------- MODULE PolicyQueues ----------------------------
(***************************************************************************)
(* What users may do to the policies of a minion: create them in a         *)
(* collection, change their requirements and their weight.  Requirements   *)
(* are validated one policy at a time (TaskService.__validate_requirements)*)
(* so that they may come to run in a circle; the minion's queue is what    *)
(* PolicyOrdering makes of the documents.                                  *)
(***************************************************************************)
EXTENDS Naturals, Sequences, FiniteSets

CONSTANTS
    Policies, Collections,
    Home,      \* policy -> the collections it may be created for
    Parent,    \* collection -> its parent
    Orders,    \* orders the collections may have among their siblings
    Weights    \* weights a user gives

VARIABLES
    docs,      \* the minion's policies, in the order of the documents
    collOf,    \* policy -> its collection
    needs,     \* policy -> the policies it requires
    weight,    \* policy -> weight
    order      \* collection -> order

vars == <<docs, collOf, needs, weight, order>>

ASSUME QueuesAssumption ==
    /\ Home \in [Policies -> SUBSET Collections]
    /\ Orders \subseteq [Collections -> Nat] /\ Weights \subseteq Nat
    /\ IsFiniteSet(Collections) /\ DOMAIN Parent = Collections

\* The tree is sound (see TreeIsSound of Collections): no collection is below itself.
ASSUME TreeAssumption ==
    \E depth \in [Collections -> 0..Cardinality(Collections)] :
        \A c \in Collections : Parent[c] \in Collections => depth[Parent[c]] < depth[c]

INSTANCE PolicyOrdering WITH Weight <- weight, Order <- order

Existing == ToSet(docs)
None == "none"
Queue == QueueOf(docs, collOf, needs)

\* __validate_requirements, of create and of update.
Requirable(p, coll) == {q \in Existing \ {p} : collOf[q] = coll}

Init ==
    /\ docs = <<>>
    /\ collOf = [p \in Policies |-> None]
    /\ needs = [p \in Policies |-> {}]
    /\ weight = [p \in Policies |-> 0]
    /\ order \in Orders

\* TaskService.create, whose fill_task_minions adds the minion's document.
CreatePolicy(p, c, w, R) ==
    /\ p \notin Existing /\ c \in Home[p] /\ R \subseteq Requirable(p, c)
    /\ docs' = Append(docs, p)
    /\ collOf' = [collOf EXCEPT ![p] = c]
    /\ needs' = [needs EXCEPT ![p] = R]
    /\ weight' = [weight EXCEPT ![p] = w]
    /\ UNCHANGED order

\* TaskService.update with requirements, and with a weight.
SetRequirements(p, R) ==
    /\ p \in Existing /\ R \subseteq Requirable(p, collOf[p])
    /\ needs' = [needs EXCEPT ![p] = R]
    /\ UNCHANGED <<docs, collOf, weight, order>>

SetWeight(p, w) ==
    /\ p \in Existing
    /\ weight' = [weight EXCEPT ![p] = w]
    /\ UNCHANGED <<docs, collOf, needs, order>>

Next == \E p \in Policies :
    \/ \E c \in Collections, w \in Weights, R \in SUBSET Policies : CreatePolicy(p, c, w, R)
    \/ \E R \in SUBSET Policies : SetRequirements(p, R)
    \/ \E w \in Weights : SetWeight(p, w)

Spec == Init /\ [][Next]_vars
-----------------------------------------------------------------------------
(* Properties. *)

\* The queue holds each of the minion's policies once, circles or not: what is
\* not in the queue would never be checked (resolve_execution_status's None).
QueueComplete ==
    /\ ToSet(Queue) = Existing
    /\ Len(Queue) = Len(docs)

\* Policies in a circle of requirements, or that wait for one.
InCircle == {p \in Existing : \E C \in SUBSET Existing :
                p \in C /\ \A q \in C : needs[q] \cap C # {}}

\* What a policy requires comes before it, unless it is in or behind a circle;
\* those come last in their collection.
RequirementsFirst ==
    \A p \in Existing \ InCircle :
        /\ needs[p] \subseteq Before(Queue, p)
        /\ \A q \in Before(Queue, p) \cap InCircle : collOf[q] # collOf[p]

\* Each policy of a collection is the lightest of those that could stand at its
\* place: those with nothing required left, or in a circle all that are left.
LightestFirst ==
    \A p \in Existing :
        LET rest == {q \in Existing : collOf[q] = collOf[p]} \ Before(Queue, p)
            free == {q \in rest : needs[q] \cap rest = {}}
        IN  \A q \in IF p \in InCircle THEN rest ELSE free : weight[p] <= weight[q]

\* Policies of a collection come before those of the collections below it, and
\* siblings take their turn, with all below them, by their order.
Above[c \in Collections] ==
    IF Parent[c] \in Collections THEN Above[Parent[c]] \cup {c} ELSE {c}
ParentsFirst ==
    \A p, q \in Existing : \A c \in Above[collOf[p]], d \in Above[collOf[q]] :
        \/ c \in Above[collOf[q]] \ {collOf[q]} /\ c = collOf[p]
        \/ Parent[c] = Parent[d] /\ order[c] < order[d]
        => p \in Before(Queue, q)

\* The queue is complete, and in the order that users are told of: by
\* requirements, then by weight, collection by collection from the tree's top.
QueueOrdered == QueueComplete /\ RequirementsFirst /\ LightestFirst /\ ParentsFirst
=============================================================================

--------------------------- MODULE PolicyOrdering ---------------------------
(***************************************************************************)
(* The order in which the policies of one minion take their turn, and what *)
(* a policy may do at its place in that queue (tasks/policy_ordering.py).  *)
(* Pure operators: the queue is a sequence of policies, docs the sequence  *)
(* of the minion's policies as the database returns them.                  *)
(***************************************************************************)
EXTENDS Naturals, Sequences, FiniteSets, SequencesExt

CONSTANTS
    Weight,   \* policy -> its weight
    Parent,   \* collection -> its parent, anything else for the root
    Order     \* collection -> its order among its siblings

Results == {"only_success", "only_failed", "any"}
Resolved == {"success", "failed", "unreachable"}    \* QUEUE_RESOLVED_STATUSES

\* S in a row by a strict order R of its elements, where the i-th of them is the one
\* that i - 1 come before (SetToSortSeq rests on SortSeq, which is TLC's alone; for
\* the empty sequence behind it TLC makes the row once, and not at each look at it).
Ranked(S, R) ==
    [i \in 1..Cardinality(S) |-> CHOOSE x \in S : Cardinality({y \in S : <<y, x>> \in R}) = i - 1]
        \o <<>>
\* The elements of s that are in T, in their order.
Those(s, T) ==
    LET at == Ranked({i \in DOMAIN s : s[i] \in T}, {x \in (DOMAIN s) \X (DOMAIN s) : x[1] < x[2]})
    IN  [i \in DOMAIN at |-> s[at[i]]]
\* Python's sort by weight, which is stable.
ByWeight(s) ==
    LET at == Ranked(DOMAIN s, {x \in (DOMAIN s) \X (DOMAIN s) :
                  \/ Weight[s[x[1]]] < Weight[s[x[2]]]
                  \/ Weight[s[x[1]]] = Weight[s[x[2]]] /\ x[1] < x[2]})
    IN  [i \in DOMAIN at |-> s[at[i]]]

Lexicographic(a, b) ==    \* order of tuples
    \E i \in 1..Len(b) : /\ Len(a) >= i - 1
                         /\ SubSeq(a, 1, i - 1) = SubSeq(b, 1, i - 1)
                         /\ Len(a) = i - 1 \/ a[i] < b[i]
-----------------------------------------------------------------------------
(* order_ids_by_requirements, for the policies of one collection.  needs is *)
(* a function from policies to the policies they require.                  *)
Needs(items, needs, p) == needs[p] \cap ToSet(items)

Ready(items, needs, done) == {q \in ToSet(items) : Needs(items, needs, q) \subseteq done}

\* Mutant: the policies that became ready wait behind the others.
KahnStep_NoSort(items, needs, st) ==
    IF st.ready = <<>> THEN st
    ELSE LET p == Head(st.ready)
             ordered == Append(st.ordered, p)
             freed == {q \in Ready(items, needs, ToSet(ordered)) : p \in Needs(items, needs, q)}
         IN  [ordered |-> ordered, ready |-> Tail(st.ready) \o Those(items, freed)]

KahnStep(items, needs, st) ==
    IF st.ready = <<>> THEN st
    ELSE LET p == Head(st.ready)
             ordered == Append(st.ordered, p)
             freed == {q \in Ready(items, needs, ToSet(ordered)) : p \in Needs(items, needs, q)}
         IN  [ordered |-> ordered, ready |-> ByWeight(Tail(st.ready) \o Those(items, freed))]

OrderByRequirements(items, needs) ==
    LET kahn[n \in 0..Len(items)] ==
            IF n = 0
            THEN [ordered |-> <<>>, ready |-> ByWeight(Those(items, Ready(items, needs, {})))]
            ELSE KahnStep(items, needs, kahn[n - 1])
        ordered == kahn[Len(items)].ordered
    IN  ordered \o ByWeight(Those(items, ToSet(items) \ ToSet(ordered)))

(* collection_order_path: the orders from the root down; `seen` ends a     *)
(* parent chain that runs in a circle.                                     *)
OrderPath(coll) ==
    LET Known == DOMAIN Parent
        up[x \in (Known \cup {Parent[c] : c \in Known}) \X SUBSET Known] ==
            IF x[1] \notin Known \ x[2] THEN <<>>
            ELSE Append(up[<<Parent[x[1]], x[2] \cup {x[1]}>>], Order[x[1]])
    IN  up[<<coll, {}>>]

(* TaskMinionService.get_policies_for_minion: one group per collection.    *)
QueueOf(docs, collOf, needs) ==
    LET colls == {collOf[p] : p \in ToSet(docs)}
        First(c) == CHOOSE i \in DOMAIN docs :
                        collOf[docs[i]] = c /\ \A k \in 1..(i - 1) : collOf[docs[k]] # c
        groups == Ranked(colls, {x \in colls \X colls :
                      \/ Lexicographic(OrderPath(x[1]), OrderPath(x[2]))
                      \/ OrderPath(x[1]) = OrderPath(x[2]) /\ First(x[1]) < First(x[2])})
        Group(c) == Those(docs, {p \in ToSet(docs) : collOf[p] = c})
    IN  FlattenSeq([i \in DOMAIN groups |-> OrderByRequirements(Group(groups[i]), needs)])

\* queue up to, without, p
Before(queue, p) == {queue[i] : i \in {k \in DOMAIN queue :
                                          p \notin ToSet(SubSeq(queue, 1, k))}}
-----------------------------------------------------------------------------
(* is_active_predecessor: a policy that is stopping counts only while the  *)
(* minion is in work for it.                                               *)
IsActivePredecessor(taskStatus, minionStatus) ==
    \/ taskStatus \in {"running", "wait_minions"}
    \/ taskStatus = "stopping" /\ minionStatus = "in_work"

Satisfied(result, minionStatus) ==
    minionStatus \in (CASE result = "only_success" -> {"success"}
                        [] result = "only_failed"  -> {"failed"}
                        [] result = "any"          -> {"success", "failed"})

\* Mutant: what a policy requires need only be resolved.
ExecutionStatus_AnyResult(p, exec, st, reqs) ==
    IF \E q \in Before(exec, p) : st[q] \notin Resolved THEN "blocked"
    ELSE IF \E r \in reqs : r.task \notin ToSet(exec) THEN "unreachable" ELSE "pending"

(* resolve_execution_status: exec is the queue without the policies that   *)
(* are not active, st the statuses of the minion, reqs p's requirements.   *)
ExecutionStatus(p, exec, st, reqs) ==
    IF \E q \in Before(exec, p) : st[q] \notin Resolved THEN "blocked"
    ELSE IF \E r \in reqs : r.task \notin ToSet(exec) \/ ~Satisfied(r.result, st[r.task])
         THEN "unreachable"
         ELSE "pending"
=============================================================================

----------------------------- MODULE Collections -----------------------------
(***************************************************************************)
(* The tree of minion collections.  A collection's minions are those of    *)
(* its parent that match its query, and the query may refer to other       *)
(* collections, so that parents and references together must form no       *)
(* circle.  Each edit is a transaction: it reads a snapshot, is validated  *)
(* on it, and is refused at its end only if a document it writes was       *)
(* changed meanwhile.  Two edits of different collections may both be      *)
(* valid on what they read and break the tree together.                    *)
(***************************************************************************)
EXTENDS Naturals, FiniteSets

CONSTANTS
    Nodes,         \* collections, but for the one with the slug "root"
    Editors,       \* transactions at the same time
    MaxReferences, \* bound: collections that a query refers to
    MaxEdits       \* bound: edits

root == "root"     \* made by _post_create_collection, as long as there is none
Parents == Nodes \cup {root}

ASSUME CollectionsAssumption ==
    IsFiniteSet(Nodes) /\ root \notin Nodes /\ MaxReferences \in Nat /\ MaxEdits \in Nat

VARIABLES
    tree,      \* collection -> whether it is there, its parent, what its query refers to
    edit,      \* editor -> its edit, and the tree as the transaction sees it
    skewed,    \* history: an edit was written over a tree it had not read
    edits

collectionsVars == <<tree, edit, skewed, edits>>

NoCollection == [there |-> FALSE, parent |-> root, refs |-> {}]
NoEdit == [op |-> "none", at |-> root, parent |-> root, refs |-> {}, seen |-> <<>>]
Queries == {R \in SUBSET Nodes : Cardinality(R) <= MaxReferences}
InTree(t) == {c \in Nodes : t[c].there}

\* _validate_no_reference_cycle: the references that resolve, and the parent.
Edges(t) == [c \in Nodes |->
    (t[c].refs \cap InTree(t)) \cup ({t[c].parent} \cap Nodes)]
\* What a walk along the edges comes to; it walks every edge once.
Reached(edges, from) ==
    LET reached[n \in 0..Cardinality(Nodes)] ==
            IF n = 0 THEN from
            ELSE reached[n - 1] \cup UNION {edges[c] : c \in reached[n - 1]}
    IN  reached[Cardinality(Nodes)]
find_cycle(start, edges) == start \in Reached(edges, edges[start])
\* get_descendants_ids, with the collection itself.
Children(t) == [c \in Nodes |-> {d \in InTree(t) : t[d].parent = c}]
Subtree(t, c) == Reached(Children(t), {c})

_validate_referenced_slugs_exist(t, refs) == refs \subseteq InTree(t)
validate_parent(t, p) == p = root \/ p \in InTree(t)
\* Mutant: references alone.
validate_no_cycle_OfReferences(t, c, parent, refs) ==
    ~find_cycle(c, [d \in Nodes |-> IF d = c THEN refs ELSE t[d].refs])
validate_no_cycle(t, c, parent, refs) ==
    ~find_cycle(c, Edges([t EXCEPT ![c].parent = parent, ![c].refs = refs]))
validate_delete(t, gone) == \A c \in InTree(t) \ gone : t[c].refs \cap gone = {}
-----------------------------------------------------------------------------
\* What makes a tree sound: parents and references are there, and collections
\* can be put in an order in which each comes after those it depends on.
Sound(t) ==
    /\ \A c \in InTree(t) : validate_parent(t, t[c].parent) /\ t[c].refs \subseteq InTree(t)
    /\ LET edges == Edges(t)
       IN  \E rank \in [InTree(t) -> 1..Cardinality(Nodes)] :
               \A c \in InTree(t) : \A d \in edges[c] : rank[d] < rank[c]

CollectionsInit ==
    /\ tree \in {t \in [Nodes -> [there : BOOLEAN, parent : Parents, refs : Queries]] :
                    (\A c \in Nodes : t[c].there \/ t[c] = NoCollection) /\ Sound(t)}
    /\ edit = [e \in Editors |-> NoEdit] /\ skewed = FALSE /\ edits = 0

CollectionsTypeOK ==
    /\ tree \in [Nodes -> [there : BOOLEAN, parent : Parents, refs : Queries]]
    /\ \A e \in Editors : /\ DOMAIN edit[e] = DOMAIN NoEdit /\ edit[e].at \in Parents
                          /\ edit[e].op \in {"none", "create", "change", "delete"}
    /\ skewed \in BOOLEAN /\ edits \in 0..MaxEdits

\* A transaction begins: what it reads is the tree of now, and is validated.
Begin(e, op, c, parent, refs) ==
    /\ edit[e].op = "none" /\ edits < MaxEdits
    /\ edit' = [edit EXCEPT ![e] = [op |-> op, at |-> c, parent |-> parent, refs |-> refs,
                                    seen |-> tree]]
    /\ edits' = edits + 1
    /\ UNCHANGED <<tree, skewed>>

\* A new collection's slug is not in use.  Nothing refers to it, and its query
\* cannot refer to it.
create_collection(e) ==
    \E c \in Nodes, p \in Parents, refs \in Queries :
        /\ ~tree[c].there /\ validate_parent(tree, p)
        /\ _validate_referenced_slugs_exist(tree, refs)
        /\ Begin(e, "create", c, p, refs)

\* The form gives both, the parent by its slug: neither the collection itself
\* nor one of its descendants.
update_by_slug(e) ==
    \E c \in InTree(tree), p \in Parents, refs \in Queries :
        /\ p \notin Subtree(tree, c) /\ validate_parent(tree, p)
        /\ _validate_referenced_slugs_exist(tree, refs)
        /\ validate_no_cycle(tree, c, p, refs)
        /\ Begin(e, "change", c, p, refs)

\* The collection is dragged elsewhere, and its query stays.
move(e) ==
    \E c \in InTree(tree), p \in Parents :
        /\ validate_parent(tree, p) /\ validate_no_cycle(tree, c, p, tree[c].refs)
        /\ Begin(e, "change", c, p, tree[c].refs)

\* Descendants are deleted with their collection.
delete_by_slug(e) ==
    \E c \in InTree(tree) :
        /\ validate_delete(tree, Subtree(tree, c))
        /\ Begin(e, "delete", c, root, {})

Written(r) == IF r.op = "delete" THEN Subtree(r.seen, r.at) ELSE {r.at}
Commit(e) ==
    LET r == edit[e]
    IN  /\ r.op # "none"
        /\ \A c \in Written(r) : tree[c] = r.seen[c]
        /\ tree' = [c \in Nodes |->
                       IF c \notin Written(r) THEN tree[c]
                       ELSE IF r.op = "delete" THEN NoCollection
                       ELSE [there |-> TRUE, parent |-> r.parent, refs |-> r.refs]]
        /\ skewed' = (skewed \/ tree # r.seen)
        /\ edit' = [edit EXCEPT ![e] = NoEdit]
        /\ UNCHANGED edits

\* A write conflict, or an error: nothing of the transaction is written.
Abort(e) ==
    /\ edit[e].op # "none" /\ edit' = [edit EXCEPT ![e] = NoEdit]
    /\ UNCHANGED <<tree, skewed, edits>>

CollectionsNext == \E e \in Editors :
    \/ create_collection(e) \/ update_by_slug(e) \/ move(e) \/ delete_by_slug(e)
    \/ Commit(e) \/ Abort(e)
CollectionsSpec == CollectionsInit /\ [][CollectionsNext]_collectionsVars
-----------------------------------------------------------------------------
\* "Collection references and parents form a cycle" is an error, as is a
\* reference to what is not there: every tree that users make of edits is sound,
\* unless two transactions that did not see each other were both written.
TreeIsSound == skewed \/ Sound(tree)
=============================================================================

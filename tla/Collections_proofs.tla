-------------------------- MODULE Collections_proofs --------------------------
(***************************************************************************)
(* The tree of collections, for any number of collections, editors and     *)
(* references.  That there is no circle is said without ranks: whatever    *)
(* collections one takes, one of them depends on none of the others        *)
(* (NoCircle).  SoundTrees shows that this is what Sound says; then each   *)
(* edit is shown to keep it, from what the edit was validated on.          *)
(*                                                                         *)
(* Then the migration of extra data: each entry is followed from what it   *)
(* was to what casting makes of it, through copies and merges.             *)
(*                                                                         *)
(* Last the queue of policies of a minion, over a tree of collections that *)
(* is sound: sorting puts a set in a row (Lists, RankedIs), the rounds of  *)
(* order_ids_by_requirements keep to each policy's turn (Rounds, InTurn),  *)
(* the rows of the collections are joined (Joined), and the paths by which *)
(* those are sorted go from the root down (OrderPathIs, AbovePaths).       *)
(***************************************************************************)
EXTENDS Collections, Migration, PolicyQueues, FiniteSetTheorems, WellFoundedInduction, TLAPS

TreeType == [Nodes -> [there : BOOLEAN, parent : Parents, refs : Queries]]

\* A set of natural numbers has a least one: strict inclusion of the sets 1..n is
\* well founded.
LEMMA Least ==
    ASSUME NEW T \in SUBSET Nat, T # {}
    PROVE  \E n \in T : \A m \in T : n <= m
<1>1. PICK F : F = {1..n : n \in T}
  OBVIOUS
<1>2. F # {} /\ F \subseteq FiniteSubsetsOf(Nat)
  <2>1. ASSUME NEW n \in T PROVE 1..n \in FiniteSubsetsOf(Nat)
    <3>1. IsFiniteSet(1..n)
      BY FS_Interval
    <3>2. 1..n \subseteq Nat
      OBVIOUS
    <3> QED  BY <3>1, <3>2 DEF FiniteSubsetsOf
  <2> QED  BY <1>1, <2>1
<1>3. IsWellFoundedOn(StrictSubsetOrdering(Nat), FiniteSubsetsOf(Nat))
  BY FS_StrictSubsetOrderingWellFounded
<1>4. PICK x \in F : \A y \in F : ~(<<y, x>> \in StrictSubsetOrdering(Nat))
  BY <1>2, <1>3, WFMin
<1>5. PICK n \in T : x = 1..n
  BY <1>1
<1>6. ASSUME NEW m \in T, m < n PROVE FALSE
  <2>1. 1..m \in F
    BY <1>1
  <2>2. 1..m \subseteq 1..n /\ 1..m # 1..n
    <3>1. n \in 1..n /\ n \notin 1..m
      BY <1>6
    <3> QED  BY <3>1, <1>6
  <2>3. 1..m \in SUBSET Nat /\ 1..n \in SUBSET Nat
    OBVIOUS
  <2>4. <<1..m, x>> \in StrictSubsetOrdering(Nat)
    BY <1>5, <2>2, <2>3 DEF StrictSubsetOrdering
  <2> QED  BY <1>4, <2>1, <2>4
<1> QED  BY <1>6

\* Induction up to a number, for the members of a set.
LEMMA UpTo ==
    ASSUME NEW k \in Nat, NEW S, 0 \in S,
           \A n \in 0..k : (n < k /\ n \in S) => n + 1 \in S
    PROVE  0..k \subseteq S
<1> SUFFICES ASSUME NEW i \in 0..k, i \notin S PROVE FALSE
  OBVIOUS
<1>1. PICK T : T = {n \in 0..k : n \notin S}
  OBVIOUS
<1>2. PICK n \in T : \A m \in T : n <= m
  <2>1. T \in SUBSET Nat /\ i \in T
    BY <1>1
  <2> QED  BY <2>1, Least
<1>3. n \in 0..k /\ n \notin S /\ n # 0
  BY <1>1, <1>2
<1>4. n - 1 \in 0..k /\ n - 1 < k /\ n - 1 \notin T /\ (n - 1) + 1 = n
  BY <1>1, <1>2, <1>3
<1> QED  BY <1>1, <1>3, <1>4

\* A walk comes to everything there is an edge to: as long as it is not closed each
\* round adds a node, and there are no more rounds needed than there are nodes.
LEMMA ReachedIsClosed ==
    ASSUME NEW edges \in [Nodes -> SUBSET Nodes], NEW from \in SUBSET Nodes
    PROVE  /\ from \subseteq Reached(edges, from) /\ Reached(edges, from) \subseteq Nodes
           /\ \A c \in Reached(edges, from) : edges[c] \subseteq Reached(edges, from)
<1> DEFINE K == Cardinality(Nodes)
           Further(S) == S \cup UNION {edges[c] : c \in S}
           Walk(f, k) == f = [n \in 0..k |-> IF n = 0 THEN from ELSE Further(f[n - 1])]
<1>1. K \in Nat /\ IsFiniteSet(Nodes)
  BY FS_CardinalityType, CollectionsAssumption DEF CollectionsAssumption
<1>2. \E f : Walk(f, K)
  <2>1. PICK S : S = {k \in Nat : \E f : Walk(f, k)}
    OBVIOUS
  <2>2. 0 \in S
    <3>1. Walk([n \in 0..0 |-> from], 0)
      OBVIOUS
    <3> QED  BY <2>1, <3>1
  <2>3. ASSUME NEW k \in 0..K, k \in S PROVE k + 1 \in S
    <3>1. PICK f : Walk(f, k)
      BY <2>1, <2>3
    <3>2. PICK g : g = [n \in 0..(k + 1) |-> IF n = k + 1 THEN Further(f[k]) ELSE f[n]]
      OBVIOUS
    <3> HIDE DEF Further
    <3>3. \A n \in 0..k : f[n] = IF n = 0 THEN from ELSE Further(f[n - 1])
      BY <3>1
    <3>4. ASSUME NEW n \in 0..(k + 1)
          PROVE g[n] = IF n = 0 THEN from ELSE Further(g[n - 1])
      <4>1. CASE n = k + 1
        <5>1. k \in 0..(k + 1) /\ k # k + 1 /\ n - 1 = k /\ n # 0
          BY <4>1
        <5> QED  BY <3>2, <4>1, <5>1
      <4>2. CASE n = 0
        BY <3>2, <3>3, <4>2
      <4>3. CASE n # k + 1 /\ n # 0
        <5>1. n \in 0..k /\ n - 1 \in 0..(k + 1) /\ n - 1 # k + 1
          BY <4>3
        <5> QED  BY <3>2, <3>3, <4>3, <5>1
      <4> QED  BY <4>1, <4>2, <4>3
    <3>5. Walk(g, k + 1)
      <4>1. g = [n \in 0..(k + 1) |-> g[n]]
        BY <3>2
      <4> QED  BY <3>4, <4>1
    <3>6. k + 1 \in Nat
      BY <1>1
    <3> HIDE DEF Walk
    <3> QED  BY <2>1, <3>5, <3>6
  <2> HIDE DEF Walk, K
  <2>4. 0..K \subseteq S
    BY <1>1, <2>2, <2>3, UpTo
  <2> QED  BY <1>1, <2>1, <2>4
<1>3. PICK f : f = CHOOSE g : Walk(g, K)
  OBVIOUS
<1>4. Reached(edges, from) = f[K]
  BY <1>3 DEF Reached
<1>5. Walk(f, K)
  <2> HIDE DEF Walk
  <2> QED  BY <1>2, <1>3
<1>6. \A n \in 0..K : f[n] = IF n = 0 THEN from ELSE Further(f[n - 1])
  BY <1>5
<1> DEFINE Closed(S) == \A c \in S : edges[c] \subseteq S
<1> HIDE DEF K, Walk
<1>7. \A n \in 0..K : f[n] \subseteq Nodes /\ from \subseteq f[n]
  <2>1. PICK S : S = {n \in 0..K : f[n] \subseteq Nodes /\ from \subseteq f[n]}
    OBVIOUS
  <2>2. 0 \in S
    <3>1. 0 \in 0..K
      BY <1>1
    <3>2. f[0] = from
      BY <1>6, <3>1
    <3> QED  BY <2>1, <3>1, <3>2
  <2>3. ASSUME NEW n \in 0..K, n < K, n \in S PROVE n + 1 \in S
    <3>1. n + 1 \in 0..K /\ n + 1 # 0 /\ (n + 1) - 1 = n
      BY <1>1, <2>3
    <3>2. f[n + 1] = Further(f[n])
      BY <1>6, <3>1
    <3> QED  BY <2>1, <2>3, <3>1, <3>2
  <2> QED  BY <1>1, <2>1, <2>2, <2>3, UpTo
<1>8. \A n \in 0..K : Closed(f[n]) \/ Cardinality(f[n]) >= n
  <2>1. PICK S : S = {n \in 0..K : Closed(f[n]) \/ Cardinality(f[n]) >= n}
    OBVIOUS
  <2>2. 0 \in S
    <3>1. 0 \in 0..K
      BY <1>1
    <3>2. Cardinality(f[0]) \in Nat
      BY <1>1, <1>7, <3>1, FS_Subset, FS_CardinalityType
    <3> QED  BY <2>1, <3>1, <3>2
  <2>3. ASSUME NEW n \in 0..K, n < K, n \in S PROVE n + 1 \in S
    <3>1. n + 1 \in 0..K /\ n + 1 # 0 /\ (n + 1) - 1 = n
      BY <1>1, <2>3
    <3>2. f[n + 1] = Further(f[n])
      BY <1>6, <3>1
    <3>3. CASE Closed(f[n])
      <4>1. f[n + 1] = f[n]
        BY <3>2, <3>3
      <4> QED  BY <2>1, <3>1, <3>3, <4>1
    <3>4. CASE ~Closed(f[n])
      <4>1. f[n] \in SUBSET f[n + 1] /\ f[n] # f[n + 1]
        BY <3>2, <3>4
      <4>2. IsFiniteSet(f[n + 1]) /\ Cardinality(f[n + 1]) \in Nat
        BY <1>1, <1>7, <3>1, FS_Subset, FS_CardinalityType
      <4>3. IsFiniteSet(f[n]) /\ Cardinality(f[n]) \in Nat
        BY <1>1, <1>7, FS_Subset, FS_CardinalityType
      <4>4. Cardinality(f[n]) <= Cardinality(f[n + 1]) /\ Cardinality(f[n]) # Cardinality(f[n + 1])
        BY <4>1, <4>2, FS_Subset
      <4>5. Cardinality(f[n]) >= n
        BY <2>1, <2>3, <3>4
      <4>6. Cardinality(f[n + 1]) >= n + 1
        BY <4>2, <4>3, <4>4, <4>5
      <4> HIDE DEF Closed
      <4> QED  BY <2>1, <3>1, <4>6
    <3> QED  BY <3>3, <3>4
  <2> HIDE DEF Closed
  <2> QED  BY <1>1, <2>1, <2>2, <2>3, UpTo
<1>9. Closed(f[K])
  <2>1. K \in 0..K
    BY <1>1
  <2>2. CASE Cardinality(f[K]) >= K
    <3>1. f[K] \in SUBSET Nodes
      BY <1>7, <2>1
    <3>2. Cardinality(f[K]) <= K /\ Cardinality(f[K]) \in Nat
      BY <1>1, <3>1, FS_Subset, FS_CardinalityType DEF K
    <3>3. f[K] = Nodes
      BY <1>1, <2>2, <3>1, <3>2, FS_Subset DEF K
    <3> QED  BY <3>3
  <2> QED  BY <1>8, <2>1, <2>2
<1>10. K \in 0..K
  BY <1>1
<1> QED  BY <1>4, <1>7, <1>9, <1>10
-----------------------------------------------------------------------------
\* Parents and references are there, and whatever collections one takes one of
\* them depends on none of the others.
Complete(t) == \A c \in InTree(t) : validate_parent(t, t[c].parent) /\ t[c].refs \subseteq InTree(t)
NoCircle(t) ==
    \A X \in SUBSET InTree(t) : X # {} => \E x \in X : Edges(t)[x] \cap X = {}

\* The edges of a tree lead to collections, and those of a complete one to
\* collections that are there.
EdgesAre(t) ==
    /\ Edges(t) \in [Nodes -> SUBSET Nodes] /\ Children(t) \in [Nodes -> SUBSET Nodes]
    /\ \A c \in Nodes : Edges(t)[c] = (t[c].refs \cap InTree(t)) \cup ({t[c].parent} \cap Nodes)
    /\ \A c \in Nodes : Children(t)[c] = {d \in InTree(t) : t[d].parent = c}
    /\ InTree(t) \subseteq Nodes /\ InTree(t) = {c \in Nodes : t[c].there}
    /\ Complete(t) => \A c \in InTree(t) : Edges(t)[c] \subseteq InTree(t)

\* What EdgesAre says holds of every tree.
LEMMA EdgesOfTrees == ASSUME NEW t \in TreeType PROVE EdgesAre(t)
<1>1. InTree(t) \subseteq Nodes /\ InTree(t) = {c \in Nodes : t[c].there}
  BY DEF InTree
<1>2. /\ Edges(t) \in [Nodes -> SUBSET Nodes]
      /\ \A c \in Nodes : Edges(t)[c] = (t[c].refs \cap InTree(t)) \cup ({t[c].parent} \cap Nodes)
  BY <1>1 DEF Edges
<1>3. /\ Children(t) \in [Nodes -> SUBSET Nodes]
      /\ \A c \in Nodes : Children(t)[c] = {d \in InTree(t) : t[d].parent = c}
  BY <1>1 DEF Children
<1>4. ASSUME Complete(t), NEW c \in InTree(t) PROVE Edges(t)[c] \subseteq InTree(t)
  <2>1. t[c].parent \in InTree(t) \/ t[c].parent = root
    BY <1>4 DEF Complete, validate_parent
  <2>2. root \notin Nodes
    BY CollectionsAssumption DEF CollectionsAssumption
  <2> QED  BY <1>1, <1>2, <1>4, <2>1, <2>2
<1> QED  BY <1>1, <1>2, <1>3, <1>4 DEF EdgesAre

\* Ranks say that there is no circle: of some collections the one of the least rank
\* depends on none of them.
LEMMA RanksForbidCircles ==
    ASSUME NEW t \in TreeType, Sound(t)
    PROVE  Complete(t) /\ NoCircle(t)
<1>1. Complete(t)
  BY DEF Sound, Complete
<1>2. PICK rank \in [InTree(t) -> 1..Cardinality(Nodes)] :
          \A c \in InTree(t) : \A d \in Edges(t)[c] : rank[d] < rank[c]
  BY DEF Sound
<1>3. Cardinality(Nodes) \in Nat
  BY FS_CardinalityType, CollectionsAssumption DEF CollectionsAssumption
<1>4. ASSUME NEW X \in SUBSET InTree(t), X # {}
      PROVE  \E x \in X : Edges(t)[x] \cap X = {}
  <2>1. PICK T : T = {rank[x] : x \in X}
    OBVIOUS
  <2>2. T \in SUBSET Nat /\ T # {}
    BY <1>2, <1>3, <1>4, <2>1
  <2>3. PICK n \in T : \A m \in T : n <= m
    BY <2>2, Least
  <2>4. PICK x \in X : rank[x] = n
    BY <2>1
  <2>5. ASSUME NEW d \in Edges(t)[x], d \in X PROVE FALSE
    <3>1. rank[d] < rank[x] /\ rank[d] \in T /\ rank[d] \in Nat /\ n \in Nat
      BY <1>2, <2>1, <2>2, <2>5
    <3> QED  BY <2>3, <2>4, <3>1
  <2> QED  BY <2>5
<1> QED  BY <1>1, <1>4 DEF NoCircle

\* Without a circle there are ranks: of the sets of collections that can be ranked
\* take a largest; if one is left out, one of those depends only on ranked ones and
\* can be ranked after them.
LEMMA NoCircleGivesRanks ==
    ASSUME NEW t \in TreeType, Complete(t), NoCircle(t)
    PROVE  Sound(t)
<1> DEFINE Ranks(D, rank) ==
               /\ rank \in [D -> 1..Cardinality(D)]
               /\ \A c \in D : Edges(t)[c] \subseteq D /\ \A d \in Edges(t)[c] : rank[d] < rank[c]
           Rankable(D) == D \subseteq InTree(t) /\ \E rank : Ranks(D, rank)
           Left(D) == Cardinality(InTree(t) \ D)
<1>1. IsFiniteSet(Nodes) /\ IsFiniteSet(InTree(t)) /\ InTree(t) \subseteq Nodes
  BY EdgesOfTrees, FS_Subset, CollectionsAssumption DEF EdgesAre, CollectionsAssumption
<1>2. \A D \in SUBSET InTree(t) :
          /\ IsFiniteSet(D) /\ Cardinality(D) \in Nat
          /\ IsFiniteSet(InTree(t) \ D) /\ Left(D) \in Nat
  BY <1>1, FS_Subset, FS_CardinalityType
<1>3. Rankable({})
  <2>1. [x \in {} |-> 0] \in [{} -> 1..Cardinality({})]
    OBVIOUS
  <2> QED  BY <2>1
<1> HIDE DEF Ranks
<1>4. PICK D \in SUBSET InTree(t) :
          Rankable(D) /\ \A E \in SUBSET InTree(t) : Rankable(E) => Left(D) <= Left(E)
  <2>1. PICK T : T = {Left(E) : E \in {F \in SUBSET InTree(t) : Rankable(F)}}
    OBVIOUS
  <2> HIDE DEF Left, Rankable
  <2>2. T \in SUBSET Nat /\ T # {}
    BY <1>2, <1>3, <2>1
  <2>3. PICK n \in T : \A m \in T : n <= m
    BY <2>2, Least
  <2> QED  BY <2>1, <2>3
<1>5. ASSUME D # InTree(t) PROVE FALSE
  <2>1. PICK x \in InTree(t) \ D : Edges(t)[x] \cap (InTree(t) \ D) = {}
    BY <1>4, <1>5 DEF NoCircle
  <2>2. Edges(t)[x] \subseteq D
    BY <2>1, EdgesOfTrees DEF EdgesAre
  <2>3. PICK rank : Ranks(D, rank)
    BY <1>4
  <2>4. PICK n \in Nat : n = Cardinality(D)
    BY <1>2
  <2>5. PICK E : E = D \cup {x}
    OBVIOUS
  <2>6. Cardinality(E) = n + 1 /\ E \in SUBSET InTree(t)
    BY <1>2, <2>1, <2>4, <2>5, FS_AddElement
  <2>7. PICK above : above = [c \in E |-> IF c = x THEN n + 1 ELSE rank[c]]
    OBVIOUS
  <2>8. above \in [E -> 1..Cardinality(E)]
    BY <2>3, <2>4, <2>5, <2>6, <2>7 DEF Ranks
  <2>9. ASSUME NEW c \in E
        PROVE  Edges(t)[c] \subseteq E /\ \A d \in Edges(t)[c] : above[d] < above[c]
    <3>1. CASE c = x
      BY <2>1, <2>2, <2>3, <2>4, <2>5, <2>7, <3>1 DEF Ranks
    <3>2. CASE c # x
      BY <2>1, <2>3, <2>5, <2>7, <3>2 DEF Ranks
    <3> QED  BY <3>1, <3>2
  <2>10. Rankable(E)
    BY <2>6, <2>8, <2>9 DEF Ranks
  <2>11. Left(E) = Left(D) - 1 /\ Left(D) \in Nat
    <3>1. InTree(t) \ E = (InTree(t) \ D) \ {x}
      BY <2>5
    <3>2. PICK S : S = InTree(t) \ D
      OBVIOUS
    <3>3. IsFiniteSet(S) /\ x \in S /\ Cardinality(S) \in Nat
      BY <1>2, <2>1, <3>2
    <3>4. Cardinality(S \ {x}) = Cardinality(S) - 1
      BY <3>3, FS_RemoveElement
    <3> QED  BY <3>1, <3>2, <3>3, <3>4
  <2>12. Left(D) <= Left(E)
    BY <1>4, <2>6, <2>10
  <2> HIDE DEF Left
  <2> QED  BY <2>11, <2>12
<1>6. PICK rank : Ranks(D, rank)
  BY <1>4
<1>7. Cardinality(D) <= Cardinality(Nodes) /\ Cardinality(D) \in Nat /\ Cardinality(Nodes) \in Nat
  BY <1>1, <1>4, FS_Subset, FS_CardinalityType
<1>8. rank \in [InTree(t) -> 1..Cardinality(Nodes)]
  BY <1>5, <1>6, <1>7 DEF Ranks
<1>9. \A c \in InTree(t) : \A d \in Edges(t)[c] : rank[d] < rank[c]
  BY <1>5, <1>6 DEF Ranks
<1> QED  BY <1>8, <1>9 DEF Sound, Complete

\* A sound tree is a complete one without a circle.
LEMMA SoundTrees ==
    ASSUME NEW t \in TreeType
    PROVE  Sound(t) <=> (Complete(t) /\ NoCircle(t))
<1> QED  BY RanksForbidCircles, NoCircleGivesRanks
-----------------------------------------------------------------------------
\* A new collection is in no circle: nothing that is there depends on it.
LEMMA CreationIsSound ==
    ASSUME NEW t \in TreeType, Complete(t), NoCircle(t),
           NEW c \in Nodes, NEW p \in Parents, NEW refs \in Queries,
           ~t[c].there, validate_parent(t, p), refs \subseteq InTree(t),
           NEW u \in TreeType,
           u[c].there, u[c].parent = p, u[c].refs = refs, \A d \in Nodes \ {c} : u[d] = t[d]
    PROVE  Complete(u) /\ NoCircle(u)
<1>0. EdgesAre(t) /\ EdgesAre(u)
  BY EdgesOfTrees
<1>1. u[c].there /\ u[c].parent = p /\ u[c].refs = refs /\ \A d \in Nodes \ {c} : u[d] = t[d]
  OBVIOUS
<1>2. InTree(u) = InTree(t) \cup {c} /\ c \notin InTree(t)
  BY <1>1, <1>0 DEF EdgesAre
<1>3. Complete(u)
  BY <1>1, <1>2, <1>0 DEF EdgesAre, Complete, validate_parent
<1>4. \A d \in InTree(t) : Edges(t)[d] \subseteq InTree(t) /\ Edges(u)[d] = Edges(t)[d]
  <2> SUFFICES ASSUME NEW d \in InTree(t)
               PROVE  Edges(t)[d] \subseteq InTree(t) /\ Edges(u)[d] = Edges(t)[d]
    OBVIOUS
  <2>1. d \in Nodes /\ d # c /\ u[d] = t[d] /\ t[d].refs \subseteq InTree(t)
    BY <1>1, <1>2, <1>0 DEF EdgesAre, Complete
  <2>2. /\ Edges(t)[d] = (t[d].refs \cap InTree(t)) \cup ({t[d].parent} \cap Nodes)
        /\ Edges(u)[d] = (t[d].refs \cap InTree(u)) \cup ({t[d].parent} \cap Nodes)
    BY <1>0, <2>1 DEF EdgesAre
  <2>3. Edges(t)[d] \subseteq InTree(t)
    BY <1>0 DEF EdgesAre
  <2> QED  BY <1>2, <2>1, <2>2, <2>3
<1>5. c \notin Edges(u)[c]
  <2>1. p # c
    BY <1>2, CollectionsAssumption DEF validate_parent, CollectionsAssumption
  <2> QED  BY <1>1, <1>2, <2>1, <1>0 DEF EdgesAre
<1>6. ASSUME NEW X \in SUBSET InTree(u), X # {}
      PROVE  \E x \in X : Edges(u)[x] \cap X = {}
  <2>1. CASE X \ {c} = {}
    BY <1>5, <1>6, <2>1
  <2>2. CASE X \ {c} # {}
    <3>1. X \ {c} \in SUBSET InTree(t)
      BY <1>2
    <3>2. PICK x \in X \ {c} : Edges(t)[x] \cap (X \ {c}) = {}
      BY <2>2, <3>1 DEF NoCircle
    <3> QED  BY <1>2, <1>4, <3>1, <3>2
  <2> QED  BY <2>1, <2>2
<1> QED  BY <1>3, <1>6 DEF NoCircle

\* A change that closes no circle through its collection closes none: what is reached
\* from there is as it was, and no other edge changes.
LEMMA ChangeIsSound ==
    ASSUME NEW t \in TreeType, Complete(t), NoCircle(t),
           NEW c \in Nodes, NEW p \in Parents, NEW refs \in Queries,
           t[c].there, validate_parent(t, p), refs \subseteq InTree(t),
           NEW u \in TreeType, ~find_cycle(c, Edges(u)),
           u[c].there, u[c].parent = p, u[c].refs = refs, \A d \in Nodes \ {c} : u[d] = t[d]
    PROVE  Complete(u) /\ NoCircle(u)
<1>0. EdgesAre(t) /\ EdgesAre(u)
  BY EdgesOfTrees
<1>1. u[c].there /\ u[c].parent = p /\ u[c].refs = refs /\ \A d \in Nodes \ {c} : u[d] = t[d]
  OBVIOUS
<1>2. InTree(u) = InTree(t) /\ c \in InTree(t)
  BY <1>1, <1>0 DEF EdgesAre
<1>3. Complete(u)
  BY <1>1, <1>2, <1>0 DEF EdgesAre, Complete, validate_parent
<1>4. ASSUME NEW d \in InTree(t) \ {c} PROVE Edges(u)[d] = Edges(t)[d]
  <2>1. d \in Nodes /\ u[d] = t[d]
    BY <1>0, <1>1 DEF EdgesAre
  <2>2. /\ Edges(t)[d] = (t[d].refs \cap InTree(t)) \cup ({t[d].parent} \cap Nodes)
        /\ Edges(u)[d] = (t[d].refs \cap InTree(u)) \cup ({t[d].parent} \cap Nodes)
    BY <1>0, <2>1 DEF EdgesAre
  <2> QED  BY <1>2, <2>2
<1>5. PICK R : R = Reached(Edges(u), Edges(u)[c])
  OBVIOUS
<1>6. c \notin R
  BY <1>5 DEF find_cycle
<1>7. Edges(u)[c] \subseteq R /\ \A d \in R : Edges(u)[d] \subseteq R
  BY <1>5, <1>0, ReachedIsClosed DEF EdgesAre
<1>8. ASSUME NEW X \in SUBSET InTree(u), X # {}
      PROVE  \E x \in X : Edges(u)[x] \cap X = {}
  <2>1. CASE X \cap R # {}
    <3>1. PICK x \in X \cap R : Edges(t)[x] \cap (X \cap R) = {}
      BY <1>2, <2>1 DEF NoCircle
    <3>2. Edges(u)[x] = Edges(t)[x] /\ Edges(u)[x] \subseteq R
      BY <1>2, <1>4, <1>6, <1>7, <3>1
    <3> QED  BY <3>1, <3>2
  <2>2. CASE X \cap R = {} /\ c \in X
    BY <1>7, <2>2
  <2>3. CASE c \notin X
    BY <1>2, <1>4, <1>8, <2>3 DEF NoCircle
  <2> QED  BY <2>1, <2>2, <2>3
<1> QED  BY <1>3, <1>8 DEF NoCircle

\* A deletion leaves nothing that refers to what is gone or is below it.
LEMMA DeletionIsSound ==
    ASSUME NEW t \in TreeType, Complete(t), NoCircle(t), NEW c \in Nodes,
           validate_delete(t, Subtree(t, c)),
           NEW u \in TreeType,
           \A d \in Nodes : u[d] = IF d \in Subtree(t, c) THEN NoCollection ELSE t[d]
    PROVE  Complete(u) /\ NoCircle(u)
<1>0. EdgesAre(t) /\ EdgesAre(u)
  BY EdgesOfTrees
<1>1. PICK gone : gone = Subtree(t, c)
  OBVIOUS
<1>2. InTree(u) = InTree(t) \ gone /\ \A d \in InTree(u) : u[d] = t[d]
  BY <1>1, <1>0 DEF EdgesAre, NoCollection
<1>3. ASSUME NEW d \in InTree(u) PROVE t[d].parent \notin gone
  <2>1. gone \subseteq Nodes /\ \A b \in gone : Children(t)[b] \subseteq gone
    <3>1. Children(t) \in [Nodes -> SUBSET Nodes] /\ {c} \in SUBSET Nodes
      BY <1>0 DEF EdgesAre
    <3> QED  BY <1>1, <3>1, ReachedIsClosed DEF Subtree
  <2> QED  BY <1>2, <2>1, <1>0 DEF EdgesAre
<1>4. Complete(u)
  BY <1>1, <1>2, <1>3, <1>0 DEF EdgesAre, Complete, validate_parent, validate_delete
<1>5. \A d \in InTree(u) : Edges(u)[d] \subseteq Edges(t)[d]
  BY <1>2, <1>0 DEF EdgesAre
<1>6. ASSUME NEW X \in SUBSET InTree(u), X # {}
      PROVE  \E x \in X : Edges(u)[x] \cap X = {}
  <2>1. PICK x \in X : Edges(t)[x] \cap X = {}
    BY <1>2, <1>6 DEF NoCircle
  <2> QED  BY <1>5, <2>1
<1> QED  BY <1>4, <1>6 DEF NoCircle
-----------------------------------------------------------------------------
EditType == [op : {"none", "create", "change", "delete"}, at : Parents, parent : Parents,
             refs : Queries, seen : TreeType \cup {<<>>}]

\* What an edit was validated on.  A move keeps the references there are.
Valid(r) ==
    /\ r.at \in Nodes /\ r.seen \in TreeType
    /\ r.op = "create" =>
           /\ ~r.seen[r.at].there /\ validate_parent(r.seen, r.parent)
           /\ r.refs \subseteq InTree(r.seen)
    /\ r.op = "change" =>
           /\ r.seen[r.at].there /\ validate_parent(r.seen, r.parent)
           /\ r.refs \subseteq InTree(r.seen) \/ r.refs = r.seen[r.at].refs
           /\ validate_no_cycle(r.seen, r.at, r.parent, r.refs)
    /\ r.op = "delete" => validate_delete(r.seen, Subtree(r.seen, r.at))

TreesTyped ==
    /\ tree \in TreeType /\ edit \in [Editors -> EditType]
    /\ skewed \in BOOLEAN /\ edits \in 0..MaxEdits
EditsValid == \A e \in Editors : edit[e].op # "none" => Valid(edit[e])
TreeInv == TreesTyped /\ EditsValid /\ TreeIsSound

\* The tree that an edit writes over the one it has seen.
Result(t, r) == [c \in Nodes |->
    IF c \notin Written(r) THEN t[c]
    ELSE IF r.op = "delete" THEN NoCollection
    ELSE [there |-> TRUE, parent |-> r.parent, refs |-> r.refs]]

\* An edit's result is a tree.
LEMMA ResultTyped ==
    ASSUME NEW t \in TreeType, NEW r \in EditType
    PROVE  Result(t, r) \in TreeType
<1>1. {} \in Queries
  BY FS_EmptySet, CollectionsAssumption DEF Queries, CollectionsAssumption
<1>2. ASSUME NEW c \in Nodes
      PROVE  Result(t, r)[c] \in [there : BOOLEAN, parent : Parents, refs : Queries]
  BY <1>1 DEF Result, TreeType, EditType, NoCollection, Parents
<1>3. Result(t, r) = [c \in Nodes |-> Result(t, r)[c]]
  BY DEF Result
<1> QED  BY <1>2, <1>3 DEF TreeType

\* An edit that is valid on a sound tree makes a sound one of it.
LEMMA EditsKeepTreesSound ==
    ASSUME NEW r \in EditType, r.op # "none", Valid(r), Sound(r.seen)
    PROVE  Sound(Result(r.seen, r))
<1>1. PICK t \in TreeType : t = r.seen
  BY DEF Valid
<1>2. PICK u \in TreeType : u = Result(t, r)
  BY ResultTyped
<1>3. PICK c \in Nodes : c = r.at
  BY DEF Valid
<1>4. Complete(t) /\ NoCircle(t)
  BY <1>1, SoundTrees
<1>5. r.parent \in Parents /\ r.refs \in Queries
  BY DEF EditType
<1>6. Complete(u) /\ NoCircle(u)
  <2>1. CASE r.op \in {"create", "change"}
    <3>1. /\ u[c] = [there |-> TRUE, parent |-> r.parent, refs |-> r.refs]
          /\ \A d \in Nodes \ {c} : u[d] = t[d]
      BY <1>2, <1>3, <2>1 DEF Result, Written
    <3>2. CASE r.op = "create"
      BY <1>1, <1>3, <1>4, <1>5, <3>1, <3>2, CreationIsSound DEF Valid
    <3>3. CASE r.op = "change"
      <4>1. r.refs \subseteq InTree(t)
        BY <1>1, <1>3, <1>4, <3>3, EdgesOfTrees DEF EdgesAre, Valid, Complete
      <4>3. t[c].there = TRUE
        BY <1>1, <1>3, <3>3 DEF Valid, TreeType
      <4>2. [t EXCEPT ![c].parent = r.parent, ![c].refs = r.refs] = u
        BY <3>1, <3>3, <4>3 DEF TreeType
      <4>4. ~find_cycle(c, Edges(u))
        BY <1>1, <1>3, <3>3, <4>2 DEF Valid, validate_no_cycle
      <4> QED  BY <1>1, <1>3, <1>4, <1>5, <3>1, <3>3, <4>1, <4>4, ChangeIsSound DEF Valid
    <3> QED  BY <2>1, <3>2, <3>3
  <2>2. CASE r.op = "delete"
    <3>1. \A d \in Nodes : u[d] = IF d \in Subtree(t, c) THEN NoCollection ELSE t[d]
      BY <1>1, <1>2, <1>3, <2>2 DEF Result, Written
    <3>2. validate_delete(t, Subtree(t, c))
      BY <1>1, <1>3, <2>2 DEF Valid
    <3> QED  BY <1>4, <3>1, <3>2, DeletionIsSound
  <2> QED  BY <2>1, <2>2 DEF EditType
<1> QED  BY <1>1, <1>2, <1>6, SoundTrees

\* The invariant holds of the first states: no edit is begun, and the tree is sound.
LEMMA TreeInvInit == CollectionsInit => TreeInv
<1> SUFFICES ASSUME CollectionsInit PROVE TreeInv
  OBVIOUS
<1>1. NoEdit \in EditType
  <2>1. {} \in Queries
    BY FS_EmptySet, CollectionsAssumption DEF Queries, CollectionsAssumption
  <2> QED  BY <2>1 DEF NoEdit, EditType, Parents
<1>2. TreesTyped
  <2>1. tree \in TreeType
    BY DEF CollectionsInit, TreeType
  <2>2. edit \in [Editors -> EditType]
    BY <1>1 DEF CollectionsInit
  <2>3. skewed \in BOOLEAN
    BY DEF CollectionsInit
  <2>4. edits \in 0..MaxEdits
    BY CollectionsAssumption DEF CollectionsInit, CollectionsAssumption
  <2> QED  BY <2>1, <2>2, <2>3, <2>4 DEF TreesTyped
<1>3. EditsValid
  BY DEF CollectionsInit, EditsValid, NoEdit
<1>4. TreeIsSound
  BY DEF CollectionsInit, TreeIsSound
<1> QED  BY <1>2, <1>3, <1>4 DEF TreeInv

\* An edit that begins is valid on the tree there is, which it keeps as it saw it.
LEMMA BeginKeepsTreeInv ==
    ASSUME TreeInv, NEW e \in Editors, NEW op \in {"create", "change", "delete"},
           NEW c \in Nodes, NEW p \in Parents, NEW refs \in Queries,
           Begin(e, op, c, p, refs),
           Valid([op |-> op, at |-> c, parent |-> p, refs |-> refs, seen |-> tree])
    PROVE  TreeInv'
<1>1. PICK r : r = [op |-> op, at |-> c, parent |-> p, refs |-> refs, seen |-> tree]
  OBVIOUS
<1>2. r \in EditType
  BY <1>1 DEF TreeInv, TreesTyped, EditType, Parents
<1>3. /\ tree' = tree /\ skewed' = skewed /\ edits' = edits + 1 /\ edits < MaxEdits
      /\ edit' = [edit EXCEPT ![e] = r]
  BY <1>1 DEF Begin
<1>4. TreesTyped'
  BY <1>2, <1>3, CollectionsAssumption DEF TreeInv, TreesTyped, CollectionsAssumption
<1>5. EditsValid'
  <2> SUFFICES ASSUME NEW a \in Editors, edit'[a].op # "none" PROVE Valid(edit'[a])
    BY DEF EditsValid
  <2> QED  BY <1>1, <1>3 DEF TreeInv, TreesTyped, EditsValid
<1>6. TreeIsSound'
  BY <1>3 DEF TreeInv, TreeIsSound
<1> QED  BY <1>4, <1>5, <1>6 DEF TreeInv

\* Every step keeps the invariant.
LEMMA TreeInvNext == TreeInv /\ [CollectionsNext]_collectionsVars => TreeInv'
<1> SUFFICES ASSUME TreeInv, [CollectionsNext]_collectionsVars PROVE TreeInv'
  OBVIOUS
<1>0. {} \in Queries /\ root \in Parents
  BY FS_EmptySet, CollectionsAssumption DEF Queries, CollectionsAssumption, Parents
<1>1. ASSUME NEW e \in Editors, create_collection(e) PROVE TreeInv'
  <2>1. PICK c \in Nodes, p \in Parents, refs \in Queries :
            /\ ~tree[c].there /\ validate_parent(tree, p)
            /\ _validate_referenced_slugs_exist(tree, refs)
            /\ Begin(e, "create", c, p, refs)
    BY <1>1 DEF create_collection
  <2>2. Valid([op |-> "create", at |-> c, parent |-> p, refs |-> refs, seen |-> tree])
    BY <2>1 DEF Valid, TreeInv, TreesTyped, _validate_referenced_slugs_exist
  <2> QED  BY <2>1, <2>2, BeginKeepsTreeInv
<1>2. ASSUME NEW e \in Editors, update_by_slug(e) PROVE TreeInv'
  <2>1. PICK c \in InTree(tree), p \in Parents, refs \in Queries :
            /\ validate_parent(tree, p) /\ _validate_referenced_slugs_exist(tree, refs)
            /\ validate_no_cycle(tree, c, p, refs) /\ Begin(e, "change", c, p, refs)
    BY <1>2 DEF update_by_slug
  <2>2. c \in Nodes /\ tree[c].there
    BY DEF InTree
  <2>3. Valid([op |-> "change", at |-> c, parent |-> p, refs |-> refs, seen |-> tree])
    BY <2>1, <2>2 DEF Valid, TreeInv, TreesTyped, _validate_referenced_slugs_exist
  <2> QED  BY <2>1, <2>2, <2>3, BeginKeepsTreeInv
<1>3. ASSUME NEW e \in Editors, move(e) PROVE TreeInv'
  <2>1. PICK c \in InTree(tree), p \in Parents :
            /\ validate_parent(tree, p) /\ validate_no_cycle(tree, c, p, tree[c].refs)
            /\ Begin(e, "change", c, p, tree[c].refs)
    BY <1>3 DEF move
  <2>2. c \in Nodes /\ tree[c].there
    BY DEF InTree
  <2>3. PICK refs \in Queries : refs = tree[c].refs
    BY <2>2 DEF TreeInv, TreesTyped, TreeType
  <2>4. Valid([op |-> "change", at |-> c, parent |-> p, refs |-> refs, seen |-> tree])
    BY <2>1, <2>2, <2>3 DEF Valid, TreeInv, TreesTyped
  <2> QED  BY <2>1, <2>2, <2>3, <2>4, BeginKeepsTreeInv
<1>4. ASSUME NEW e \in Editors, delete_by_slug(e) PROVE TreeInv'
  <2>1. PICK c \in InTree(tree) :
            validate_delete(tree, Subtree(tree, c)) /\ Begin(e, "delete", c, root, {})
    BY <1>4 DEF delete_by_slug
  <2>2. c \in Nodes
    BY DEF InTree
  <2>3. Valid([op |-> "delete", at |-> c, parent |-> root, refs |-> {}, seen |-> tree])
    BY <2>1, <2>2 DEF Valid, TreeInv, TreesTyped
  <2> QED  BY <1>0, <2>1, <2>2, <2>3, BeginKeepsTreeInv
<1>5. ASSUME NEW e \in Editors, edit[e].op # "none", edit' = [edit EXCEPT ![e] = NoEdit]
      PROVE  EditsValid' /\ edit' \in [Editors -> EditType]
  <2>1. NoEdit \in EditType /\ NoEdit.op = "none"
    BY <1>0 DEF NoEdit, EditType
  <2>2. edit' \in [Editors -> EditType]
    BY <1>5, <2>1 DEF TreeInv, TreesTyped
  <2>3. ASSUME NEW a \in Editors, edit'[a].op # "none" PROVE Valid(edit'[a])
    BY <1>5, <2>1, <2>3 DEF TreeInv, TreesTyped, EditsValid
  <2> QED  BY <2>2, <2>3 DEF EditsValid
<1>6. ASSUME NEW e \in Editors, Commit(e) PROVE TreeInv'
  <2>1. PICK r : r = edit[e]
    OBVIOUS
  <2>2. /\ r.op # "none" /\ edit' = [edit EXCEPT ![e] = NoEdit] /\ edits' = edits
        /\ tree' = Result(tree, r) /\ skewed' = (skewed \/ tree # r.seen)
    BY <1>6, <2>1 DEF Commit, Result
  <2>3. r \in EditType /\ Valid(r)
    BY <2>1, <2>2 DEF TreeInv, TreesTyped, EditsValid
  <2>4. tree' \in TreeType
    BY <2>2, <2>3, ResultTyped DEF TreeInv, TreesTyped
  <2>5. TreesTyped'
    BY <1>5, <2>1, <2>2, <2>4 DEF TreeInv, TreesTyped
  <2>6. TreeIsSound'
    <3>1. CASE skewed \/ tree # r.seen
      BY <2>2, <3>1 DEF TreeIsSound
    <3>2. CASE ~skewed /\ tree = r.seen
      <4>1. Sound(tree)
        BY <3>2 DEF TreeInv, TreeIsSound
      <4>2. Sound(Result(r.seen, r))
        BY <2>2, <2>3, <3>2, <4>1, EditsKeepTreesSound
      <4> QED  BY <2>2, <3>2, <4>2 DEF TreeIsSound
    <3> QED  BY <3>1, <3>2
  <2> QED  BY <1>5, <2>1, <2>2, <2>5, <2>6 DEF TreeInv
<1>7. ASSUME NEW e \in Editors, Abort(e) PROVE TreeInv'
  <2>1. /\ edit[e].op # "none" /\ edit' = [edit EXCEPT ![e] = NoEdit]
        /\ tree' = tree /\ skewed' = skewed /\ edits' = edits
    BY <1>7 DEF Abort
  <2> QED  BY <1>5, <2>1 DEF TreeInv, TreesTyped, TreeIsSound
<1>8. CASE UNCHANGED collectionsVars
  BY <1>8 DEF collectionsVars, TreeInv, TreesTyped, EditsValid, TreeIsSound
<1> QED  BY <1>1, <1>2, <1>3, <1>4, <1>6, <1>7, <1>8 DEF CollectionsNext

\* What edits are made of stays typed: the tree, and of every edit the collection, its
\* new parent and references (CollectionsTypeOK).
THEOREM CollectionsTypes == CollectionsSpec => []CollectionsTypeOK
<1>1. TreeInv => CollectionsTypeOK
  <2> SUFFICES ASSUME TreeInv PROVE CollectionsTypeOK
    OBVIOUS
  <2>1. ASSUME NEW e \in Editors
        PROVE  /\ DOMAIN edit[e] = DOMAIN NoEdit /\ edit[e].at \in Parents
               /\ edit[e].op \in {"none", "create", "change", "delete"}
    BY DEF TreeInv, TreesTyped, EditType, NoEdit
  <2> QED  BY <2>1 DEF TreeInv, TreesTyped, TreeType, CollectionsTypeOK
<1> QED  BY <1>1, TreeInvInit, TreeInvNext, PTL DEF CollectionsSpec

\* Edits that see one another leave parents and references that are there and form
\* no circle (find_cycle, validate_parent and the check of deletions suffice), for
\* any number of collections, references and transactions; what is left is the skew
\* of two that did not see each other.
THEOREM TreeStaysSound == CollectionsSpec => []TreeIsSound
<1>1. TreeInv => TreeIsSound
  BY DEF TreeInv
<1> QED  BY <1>1, TreeInvInit, TreeInvNext, PTL DEF CollectionsSpec
-----------------------------------------------------------------------------
(* What becomes of a value. *)
Data == Values \cup {Empty}
SingleTypes == {"str", "int"}
Casted(v, type) == LET cast == cast_value(v, type) IN IF cast = Invalid THEN Empty ELSE cast

\* What cast_value does, case by case.
LEMMA CastToStrIs ==
    ASSUME NEW v
    PROVE  cast_value(v, "str") = IF v = Empty THEN v ELSE cast_to_str(v)
<1>1. CASE v = Empty
  <2>1. cast_value(Empty, "str") = Empty
    BY Zenon DEF cast_value
  <2> QED  BY <1>1, <2>1
<1>2. CASE v # Empty
  <2>1. "str" \notin NUMBER_TYPES
    BY DEF NUMBER_TYPES
  <2> QED  BY <1>2, <2>1, Zenon DEF cast_value
<1> QED  BY <1>1, <1>2

\* What a value becomes as an integer: itself, its numeral read as one, or nothing valid.
LEMMA CastToIntIs ==
    ASSUME NEW v
    PROVE  cast_value(v, "int") =
               IF v = Empty THEN v
               ELSE IF v[1] = "int" THEN v
               ELSE IF v[1] \in {"float", "str"} /\ v[2] \in Integral THEN <<"int", v[2]>>
               ELSE Invalid
<1>1. "int" \in NUMBER_TYPES /\ "int" # "str" /\ "int" # "float"
  BY DEF NUMBER_TYPES
<1>2. CASE v = Empty
  BY <1>2, Zenon DEF cast_value
<1>3. CASE v # Empty
  <2>1. cast_value(v, "int") = cast_to_number(v, "int")
    BY <1>1, <1>3, Zenon DEF cast_value
  <2>2. CASE v[1] = "int"
    <3>1. cast_to_number(v, "int") = v
      BY <1>1, <2>2, Zenon DEF cast_to_number
    <3> QED  BY <1>3, <2>1, <2>2, <3>1
  <2>3. CASE v[1] # "int" /\ v[1] \in {"float", "str"} /\ v[2] \in Integral
    <3>1. cast_to_number(v, "int") = <<"int", v[2]>>
      BY <1>1, <2>3, Zenon DEF cast_to_number
    <3> QED  BY <1>3, <2>1, <2>3, <3>1
  <2>4. CASE v[1] # "int" /\ ~(v[1] \in {"float", "str"} /\ v[2] \in Integral)
    <3>1. cast_to_number(v, "int") = Invalid
      BY <1>1, <2>4, Zenon DEF cast_to_number
    <3> QED  BY <1>3, <2>1, <2>4, <3>1
  <2> QED  BY <2>2, <2>3, <2>4
<1> QED  BY <1>2, <1>3

\* What becomes of each value of the model's, as a text and as a number.
LEMMA CastNothing ==
    ASSUME NEW v, v = Empty
    PROVE  /\ cast_value(v, "str") = Empty /\ Casted(v, "str") = Empty
           /\ cast_value(v, "int") = Empty /\ Casted(v, "int") = Empty
<1>1. cast_value(v, "str") = Empty
  <2>1. cast_value(v, "str") = IF v = Empty THEN v ELSE cast_to_str(v)
    BY CastToStrIs, Zenon
  <2> QED  BY <2>1 DEF cast_to_str, Empty, Invalid
<1>2. cast_value(v, "int") = Empty
  <2>1. cast_value(v, "int") =
            IF v = Empty THEN v
            ELSE IF v[1] = "int" THEN v
            ELSE IF v[1] \in {"float", "str"} /\ v[2] \in Integral THEN <<"int", v[2]>>
            ELSE Invalid
    BY CastToIntIs, Zenon
  <2> QED  BY <2>1 DEF Empty, Invalid, Integral
<1>3. Empty # Invalid
  BY DEF Empty, Invalid
<1> QED  BY <1>1, <1>2, <1>3, Zenon DEF Casted

\* An integer stays one as a number and is written out as a text.
LEMMA CastFive ==
    ASSUME NEW v, v = <<"int", "5">>
    PROVE  /\ cast_value(v, "str") = <<"str", "5">> /\ Casted(v, "str") = <<"str", "5">>
           /\ cast_value(v, "int") = <<"int", "5">> /\ Casted(v, "int") = <<"int", "5">>
<1>1. cast_value(v, "str") = <<"str", "5">>
  <2>1. cast_value(v, "str") = IF v = Empty THEN v ELSE cast_to_str(v)
    BY CastToStrIs, Zenon
  <2> QED  BY <2>1 DEF cast_to_str, Empty, Invalid
<1>2. cast_value(v, "int") = <<"int", "5">>
  <2>1. cast_value(v, "int") =
            IF v = Empty THEN v
            ELSE IF v[1] = "int" THEN v
            ELSE IF v[1] \in {"float", "str"} /\ v[2] \in Integral THEN <<"int", v[2]>>
            ELSE Invalid
    BY CastToIntIs, Zenon
  <2> QED  BY <2>1 DEF Empty, Invalid, Integral
<1>3. <<"str", "5">> # Invalid /\ <<"int", "5">> # Invalid
  BY DEF Empty, Invalid
<1> QED  BY <1>1, <1>2, <1>3, Zenon DEF Casted

\* A text that is a numeral stays a text and becomes the number.
LEMMA CastTextFive ==
    ASSUME NEW v, v = <<"str", "5">>
    PROVE  /\ cast_value(v, "str") = <<"str", "5">> /\ Casted(v, "str") = <<"str", "5">>
           /\ cast_value(v, "int") = <<"int", "5">> /\ Casted(v, "int") = <<"int", "5">>
<1>1. cast_value(v, "str") = <<"str", "5">>
  <2>1. cast_value(v, "str") = IF v = Empty THEN v ELSE cast_to_str(v)
    BY CastToStrIs, Zenon
  <2> QED  BY <2>1 DEF cast_to_str, Empty, Invalid
<1>2. cast_value(v, "int") = <<"int", "5">>
  <2>1. cast_value(v, "int") =
            IF v = Empty THEN v
            ELSE IF v[1] = "int" THEN v
            ELSE IF v[1] \in {"float", "str"} /\ v[2] \in Integral THEN <<"int", v[2]>>
            ELSE Invalid
    BY CastToIntIs, Zenon
  <2> QED  BY <2>1 DEF Empty, Invalid, Integral
<1>3. <<"str", "5">> # Invalid /\ <<"int", "5">> # Invalid
  BY DEF Empty, Invalid
<1> QED  BY <1>1, <1>2, <1>3, Zenon DEF Casted

\* A text that is no numeral stays a text and is dropped from a number's field.
LEMMA CastText ==
    ASSUME NEW v, v = <<"str", "x">>
    PROVE  /\ cast_value(v, "str") = <<"str", "x">> /\ Casted(v, "str") = <<"str", "x">>
           /\ cast_value(v, "int") = Invalid /\ Casted(v, "int") = Empty
<1>1. cast_value(v, "str") = <<"str", "x">>
  <2>1. cast_value(v, "str") = IF v = Empty THEN v ELSE cast_to_str(v)
    BY CastToStrIs, Zenon
  <2> QED  BY <2>1 DEF cast_to_str, Empty, Invalid
<1>2. cast_value(v, "int") = Invalid
  <2>1. cast_value(v, "int") =
            IF v = Empty THEN v
            ELSE IF v[1] = "int" THEN v
            ELSE IF v[1] \in {"float", "str"} /\ v[2] \in Integral THEN <<"int", v[2]>>
            ELSE Invalid
    BY CastToIntIs, Zenon
  <2> QED  BY <2>1 DEF Empty, Invalid, Integral
<1>3. <<"str", "x">> # Invalid
  BY DEF Empty, Invalid
<1> QED  BY <1>1, <1>2, <1>3, Zenon DEF Casted

\* A flag can be cast to neither, so it is dropped from either field.
LEMMA CastFlag ==
    ASSUME NEW v, v = <<"bool", "x">>
    PROVE  /\ cast_value(v, "str") = Invalid /\ Casted(v, "str") = Empty
           /\ cast_value(v, "int") = Invalid /\ Casted(v, "int") = Empty
<1>1. cast_value(v, "str") = Invalid
  <2>1. cast_value(v, "str") = IF v = Empty THEN v ELSE cast_to_str(v)
    BY CastToStrIs, Zenon
  <2> QED  BY <2>1 DEF cast_to_str, Empty, Invalid
<1>2. cast_value(v, "int") = Invalid
  <2>1. cast_value(v, "int") =
            IF v = Empty THEN v
            ELSE IF v[1] = "int" THEN v
            ELSE IF v[1] \in {"float", "str"} /\ v[2] \in Integral THEN <<"int", v[2]>>
            ELSE Invalid
    BY CastToIntIs, Zenon
  <2> QED  BY <2>1 DEF Empty, Invalid, Integral
<1> QED  BY <1>1, <1>2, Zenon DEF Casted

\* Casting a value of the model's, to a type that fields come to have, gives a
\* value of that type or none, nothing for nothing only, and what it gives stays
\* as it is when it is cast again.
LEMMA CastFacts ==
    ASSUME NEW v \in Data, NEW type \in SingleTypes
    PROVE  /\ Casted(v, type) \in Data
           /\ Casted(v, type) = Empty \/ Casted(v, type)[1] = type
           /\ Casted(Casted(v, type), type) = Casted(v, type)
           /\ cast_value(v, type) = Empty <=> v = Empty
<1>1. CASE v = Empty
  <2>1. /\ Casted(v, "str") = Empty /\ Casted(v, "int") = Empty
        /\ cast_value(v, "str") = Empty <=> v = Empty
        /\ cast_value(v, "int") = Empty <=> v = Empty
    BY <1>1, CastNothing, Zenon
  <2>2. /\ Casted(Empty, "str") = Empty /\ Casted(Empty, "int") = Empty
    BY CastNothing, CastFive, CastTextFive, CastText, Zenon
  <2>3. /\ Empty \in Data /\ Empty \in Data
        /\ Empty = Empty \/ Empty[1] = "str"
        /\ Empty = Empty \/ Empty[1] = "int"
    BY DEF Data, Values, Empty
  <2>4. Casted(Casted(v, "str"), "str") = Casted(v, "str")
    BY <2>1, <2>2, Zenon
  <2>5. Casted(Casted(v, "int"), "int") = Casted(v, "int")
    BY <2>1, <2>2, Zenon
  <2> QED  BY <2>1, <2>3, <2>4, <2>5, Zenon DEF SingleTypes
<1>2. CASE v = <<"int", "5">>
  <2>1. /\ Casted(v, "str") = <<"str", "5">> /\ Casted(v, "int") = <<"int", "5">>
        /\ cast_value(v, "str") = Empty <=> v = Empty
        /\ cast_value(v, "int") = Empty <=> v = Empty
    <3>1. <<"int", "5">> # Empty /\ <<"str", "5">> # Empty
      BY DEF Empty, Invalid
    <3>2. cast_value(v, "str") = <<"str", "5">> /\ cast_value(v, "int") = <<"int", "5">>
      BY <1>2, CastFive, Zenon
    <3>3. Casted(v, "str") = <<"str", "5">> /\ Casted(v, "int") = <<"int", "5">>
      BY <1>2, CastFive, Zenon
    <3> QED  BY <1>2, <3>1, <3>2, <3>3, Zenon
  <2>2. /\ Casted(<<"str", "5">>, "str") = <<"str", "5">> /\ Casted(<<"int", "5">>, "int") = <<"int", "5">>
    BY CastNothing, CastFive, CastTextFive, CastText, Zenon
  <2>3. /\ <<"str", "5">> \in Data /\ <<"int", "5">> \in Data
        /\ <<"str", "5">> = Empty \/ <<"str", "5">>[1] = "str"
        /\ <<"int", "5">> = Empty \/ <<"int", "5">>[1] = "int"
    BY DEF Data, Values, Empty
  <2>4. Casted(Casted(v, "str"), "str") = Casted(v, "str")
    BY <2>1, <2>2, Zenon
  <2>5. Casted(Casted(v, "int"), "int") = Casted(v, "int")
    BY <2>1, <2>2, Zenon
  <2> QED  BY <2>1, <2>3, <2>4, <2>5, Zenon DEF SingleTypes
<1>3. CASE v = <<"str", "5">>
  <2>1. /\ Casted(v, "str") = <<"str", "5">> /\ Casted(v, "int") = <<"int", "5">>
        /\ cast_value(v, "str") = Empty <=> v = Empty
        /\ cast_value(v, "int") = Empty <=> v = Empty
    <3>1. <<"str", "5">> # Empty /\ <<"int", "5">> # Empty
      BY DEF Empty, Invalid
    <3>2. cast_value(v, "str") = <<"str", "5">> /\ cast_value(v, "int") = <<"int", "5">>
      BY <1>3, CastTextFive, Zenon
    <3>3. Casted(v, "str") = <<"str", "5">> /\ Casted(v, "int") = <<"int", "5">>
      BY <1>3, CastTextFive, Zenon
    <3> QED  BY <1>3, <3>1, <3>2, <3>3, Zenon
  <2>2. /\ Casted(<<"str", "5">>, "str") = <<"str", "5">> /\ Casted(<<"int", "5">>, "int") = <<"int", "5">>
    BY CastNothing, CastFive, CastTextFive, CastText, Zenon
  <2>3. /\ <<"str", "5">> \in Data /\ <<"int", "5">> \in Data
        /\ <<"str", "5">> = Empty \/ <<"str", "5">>[1] = "str"
        /\ <<"int", "5">> = Empty \/ <<"int", "5">>[1] = "int"
    BY DEF Data, Values, Empty
  <2>4. Casted(Casted(v, "str"), "str") = Casted(v, "str")
    BY <2>1, <2>2, Zenon
  <2>5. Casted(Casted(v, "int"), "int") = Casted(v, "int")
    BY <2>1, <2>2, Zenon
  <2> QED  BY <2>1, <2>3, <2>4, <2>5, Zenon DEF SingleTypes
<1>4. CASE v = <<"str", "x">>
  <2>1. /\ Casted(v, "str") = <<"str", "x">> /\ Casted(v, "int") = Empty
        /\ cast_value(v, "str") = Empty <=> v = Empty
        /\ cast_value(v, "int") = Empty <=> v = Empty
    <3>1. <<"str", "x">> # Empty /\ Invalid # Empty
      BY DEF Empty, Invalid
    <3>2. cast_value(v, "str") = <<"str", "x">> /\ cast_value(v, "int") = Invalid
      BY <1>4, CastText, Zenon
    <3>3. Casted(v, "str") = <<"str", "x">> /\ Casted(v, "int") = Empty
      BY <1>4, CastText, Zenon
    <3> QED  BY <1>4, <3>1, <3>2, <3>3, Zenon
  <2>2. /\ Casted(<<"str", "x">>, "str") = <<"str", "x">> /\ Casted(Empty, "int") = Empty
    BY CastNothing, CastFive, CastTextFive, CastText, Zenon
  <2>3. /\ <<"str", "x">> \in Data /\ Empty \in Data
        /\ <<"str", "x">> = Empty \/ <<"str", "x">>[1] = "str"
        /\ Empty = Empty \/ Empty[1] = "int"
    BY DEF Data, Values, Empty
  <2>4. Casted(Casted(v, "str"), "str") = Casted(v, "str")
    BY <2>1, <2>2, Zenon
  <2>5. Casted(Casted(v, "int"), "int") = Casted(v, "int")
    BY <2>1, <2>2, Zenon
  <2> QED  BY <2>1, <2>3, <2>4, <2>5, Zenon DEF SingleTypes
<1>5. CASE v = <<"bool", "x">>
  <2>1. /\ Casted(v, "str") = Empty /\ Casted(v, "int") = Empty
        /\ cast_value(v, "str") = Empty <=> v = Empty
        /\ cast_value(v, "int") = Empty <=> v = Empty
    <3>1. <<"bool", "x">> # Empty /\ Invalid # Empty
      BY DEF Empty, Invalid
    <3>2. cast_value(v, "str") = Invalid /\ cast_value(v, "int") = Invalid
      BY <1>5, CastFlag, Zenon
    <3>3. Casted(v, "str") = Empty /\ Casted(v, "int") = Empty
      BY <1>5, CastFlag, Zenon
    <3> QED  BY <1>5, <3>1, <3>2, <3>3, Zenon
  <2>2. /\ Casted(Empty, "str") = Empty /\ Casted(Empty, "int") = Empty
    BY CastNothing, CastFive, CastTextFive, CastText, Zenon
  <2>3. /\ Empty \in Data /\ Empty \in Data
        /\ Empty = Empty \/ Empty[1] = "str"
        /\ Empty = Empty \/ Empty[1] = "int"
    BY DEF Data, Values, Empty
  <2>4. Casted(Casted(v, "str"), "str") = Casted(v, "str")
    BY <2>1, <2>2, Zenon
  <2>5. Casted(Casted(v, "int"), "int") = Casted(v, "int")
    BY <2>1, <2>2, Zenon
  <2> QED  BY <2>1, <2>3, <2>4, <2>5, Zenon DEF SingleTypes
<1> QED  BY <1>1, <1>2, <1>3, <1>4, <1>5 DEF Data, Values

\* Of each combination of legacy types get_single_type makes one of the single types.
LEMMA SingleTypeOf ==
    ASSUME NEW T \in LegacyTypes
    PROVE  get_single_type(T) \in SingleTypes
<1>1. CASE T = {"none"}
  BY <1>1 DEF get_single_type, SingleTypes
<1>2. CASE T = {"int", "none"}
  <2>1. T \ {"none"} = {"int"} /\ Cardinality({"int"}) = 1
    BY <1>2, FS_Singleton
  <2>2. (CHOOSE t \in {"int"} : TRUE) = "int"
    OBVIOUS
  <2> QED  BY <2>1, <2>2 DEF get_single_type, SingleTypes
<1>3. CASE T = {"int", "str"}
  BY <1>3 DEF get_single_type, SingleTypes
<1>4. CASE T = {"bool", "int"}
  <2>1. T \ {"none"} = {"bool", "int"}
    BY <1>4
  <2>2. Cardinality({"bool", "int"}) # 1
    <3>1. IsFiniteSet({"int"}) /\ Cardinality({"int"}) = 1
      BY FS_Singleton
    <3>2. Cardinality({"int"} \cup {"bool"}) = 2
      BY <3>1, FS_AddElement
    <3>3. {"bool", "int"} = {"int"} \cup {"bool"}
      OBVIOUS
    <3> QED  BY <3>2, <3>3
  <2> QED  BY <2>1, <2>2 DEF get_single_type, SingleTypes, NUMBER_TYPES
<1> QED  BY <1>1, <1>2, <1>3, <1>4 DEF LegacyTypes

(* What becomes of the records. *)
\* Of each record: what it and its entry were, and what casting makes of them.
Fate == [id \in RecordIds |->
            [data |-> was.stored[id].data, entry |-> was.stored[id].entries[1].data,
             castData |-> Casted(was.stored[id].data, fields["record"].single),
             castEntry |-> Casted(was.stored[id].entries[1].data, fields["entry"].single)]]
Kept(F, id) ==
    \/ F[id].castData # Empty \/ F[id].castEntry # Empty
    \/ F[id].data = Empty /\ F[id].entry = Empty
Entries == [id : RecordIds, data : Data]
AsItWas(F, r, data, e) == e.id = r /\ data = F[r].data /\ e.data = F[r].entry
AsItBecomes(F, data, e) ==
    Kept(F, e.id) /\ data = F[e.id].castData /\ e.data = F[e.id].castEntry
EntriesSound(F, r, data, s) ==
    \A k \in DOMAIN s :
        s[k] \in Entries /\ (AsItWas(F, r, data, s[k]) \/ AsItBecomes(F, data, s[k]))
Become(F, data, s) == \A k \in DOMAIN s : s[k] \in Entries /\ AsItBecomes(F, data, s[k])
Holds(s, i) == \E k \in DOMAIN s : s[k].id = i
Once(s, i) == \A k, l \in DOMAIN s : s[k].id = i /\ s[l].id = i => k = l
\* The entries of which EntriesKept promises something.
Promised == RecordIds \ (doubled \cup overwritten)

ControlInv ==
    /\ minion_fields \subseteq Fields
    /\ at \in {"fields", "static", "records", "push", "delete", "done"}
    /\ seen \in {0} \cup RecordIds /\ doubled \cup overwritten \subseteq RecordIds
    /\ stops \in 0..MaxStops

FieldsInv ==
    /\ \A f \in Fields :
        /\ fields[f].single \in {""} \cup SingleTypes
        /\ fields[f].single = "" => fields[f].types \in LegacyTypes
        /\ fields[f].single = "" => (f \in minion_fields <=> f \in MinionFields)
        /\ fields[f].single # "" => (fields[f].of_minion = (f \in MinionFields))
    /\ DOMAIN types \subseteq Fields
    /\ \A f \in DOMAIN types : fields[f].single # "" /\ types[f] = fields[f].single
    /\ at # "fields" => DOMAIN types = Fields

WasInv ==
    /\ \A m \in MinionDocs : \E v \in Data : was.static[m] = [k \in {1} |-> v]
    /\ \A r \in RecordIds : \E v, e \in Data :
           was.stored[r] = [data |-> v, entries |-> [k \in {1} |-> [id |-> r, data |-> e]]]

\* Until all the fields have been migrated, nothing else has been.
FirstInv ==
    (\E f \in Fields : fields[f].single = "") => static = was.static /\ stored = was.stored

BecomesStatic(items, type) ==
    LET cast == cast_value(items[1], type)
    IN  IF cast = Invalid THEN Nothing ELSE [k \in {1} |-> cast]
StaticInv ==
    /\ static = [m \in MinionDocs |-> static[m]]
    /\ \A m \in MinionDocs :
        /\ static[m] \in {was.static[m], BecomesStatic(was.static[m], fields["item"].single)}
        /\ at \notin {"fields", "static"} =>
               static[m] = BecomesStatic(was.static[m], fields["item"].single)

StoredInv ==
    /\ stored = [r \in RecordIds |-> stored[r]]
    /\ \A r \in RecordIds :
        /\ stored[r] = [data |-> stored[r].data, entries |-> stored[r].entries]
        /\ stored[r].data \in Data
        /\ EntriesSound(Fate, r, stored[r].data, stored[r].entries)

\* A copy is what its record is, but for entries that were pushed to it since.
CopyInv(c) ==
    /\ c = [id |-> c.id, data |-> c.data, entries |-> c.entries]
    /\ c.id \in RecordIds /\ c.id <= seen /\ c.data = stored[c.id].data
    /\ EntriesSound(Fate, c.id, c.data, c.entries)
    /\ \A k \in DOMAIN stored[c.id].entries :
           \/ AsItBecomes(Fate, c.data, stored[c.id].entries[k])
           \/ \E l \in DOMAIN c.entries : c.entries[l] = stored[c.id].entries[k]
    /\ \A i \in Promised :
           /\ Holds(c.entries, i) <=> Holds(stored[c.id].entries, i)
           /\ Once(c.entries, i)
BatchInv ==
    /\ batch # {} => at \in {"records", "push", "delete"}
    /\ \A c \in batch : CopyInv(c)
    /\ \A c, d \in batch : c.id = d.id => c = d

MergeInv ==
    at \in {"push", "delete"} =>
        /\ merge.id \in RecordIds /\ merge.id <= seen /\ merge.data \in Data
        /\ \A c \in batch : c.id # merge.id
        /\ Become(Fate, merge.data, merge.entries)
        /\ \A i \in Promised :
               /\ Holds(merge.entries, i) <=> (Kept(Fate, i) /\ Holds(stored[merge.id].entries, i))
               /\ Once(merge.entries, i)

\* Entries are at one place each, those that have been pushed also where they were
\* until their record is deleted, and none is lost of which something can be kept.
PlacesInv ==
    \A i \in Promised :
        /\ \A r \in RecordIds : Once(stored[r].entries, i)
        /\ \A r, s \in RecordIds :
               Holds(stored[r].entries, i) /\ Holds(stored[s].entries, i) =>
                   \/ r = s
                   \/ at = "delete" /\ merge.id \in {r, s} /\ Holds(merge.entries, i)
        /\ Kept(Fate, i) => \E r \in RecordIds : /\ Holds(stored[r].entries, i)
                                                 /\ ~(at = "delete" /\ r = merge.id)

\* The records that the run is through with have been cast.
Through(r) ==
    \/ at = "done"
    \/ /\ at \in {"records", "push", "delete"} /\ r <= seen
       /\ \A c \in batch : c.id # r
       /\ at \in {"push", "delete"} => r # merge.id
ThroughInv ==
    \A r \in RecordIds : Through(r) => Become(Fate, stored[r].data, stored[r].entries)

MigrationInv ==
    /\ ControlInv /\ FieldsInv /\ WasInv /\ FirstInv /\ StaticInv
    /\ StoredInv /\ BatchInv /\ MergeInv /\ PlacesInv /\ ThroughInv

\* What is known of a record's fate once all the fields have their types.
LEMMA FateFacts ==
    ASSUME WasInv, fields["record"].single \in SingleTypes, fields["entry"].single \in SingleTypes,
           NEW id \in RecordIds
    PROVE  /\ Fate[id].data \in Data /\ Fate[id].entry \in Data
           /\ Fate[id].castData = Casted(Fate[id].data, fields["record"].single)
           /\ Fate[id].castEntry = Casted(Fate[id].entry, fields["entry"].single)
           /\ Fate[id].castData \in Data /\ Fate[id].castEntry \in Data
<1>1. PICK v, e \in Data :
          was.stored[id] = [data |-> v, entries |-> [k \in {1} |-> [id |-> id, data |-> e]]]
  BY DEF WasInv
<1>2. was.stored[id].data = v /\ was.stored[id].entries[1].data = e
  BY <1>1
<1>3. /\ Fate[id].data = v /\ Fate[id].entry = e
      /\ Fate[id].castData = Casted(v, fields["record"].single)
      /\ Fate[id].castEntry = Casted(e, fields["entry"].single)
  BY <1>2 DEF Fate
<1>4. Casted(v, fields["record"].single) \in Data /\ Casted(e, fields["entry"].single) \in Data
  BY CastFacts
<1> QED  BY <1>3, <1>4

\* After the fields' step the types in memory are those of the documents, for each field.
LEMMA AllTyped ==
    ASSUME FieldsInv, at # "fields", NEW f \in Fields
    PROVE  fields[f].single \in SingleTypes /\ types[f] = fields[f].single
BY DEF FieldsInv, SingleTypes

\* Casting an entry, whether it has been cast before or not: it is left if it is one
\* to be kept, and then is what it is to become.
LEMMA CastEntry ==
    ASSUME WasInv, FieldsInv, at # "fields",
           NEW r \in RecordIds, NEW c, c.data \in Data, NEW e \in Entries,
           AsItWas(Fate, r, c.data, e) \/ AsItBecomes(Fate, c.data, e)
    PROVE  /\ left(c, e) <=> Kept(Fate, e.id)
           /\ cast_data(c.data, "record") \in Data
           /\ [id |-> e.id, data |-> cast_data(e.data, "entry")] \in Entries
           /\ Kept(Fate, e.id) =>
                  AsItBecomes(Fate, cast_data(c.data, "record"),
                              [id |-> e.id, data |-> cast_data(e.data, "entry")])
<1> DEFINE i == e.id
           d == fields["record"].single
           t == fields["entry"].single
<1>1. "record" \in Fields /\ "entry" \in Fields
  BY DEF Fields
<1>2. d \in SingleTypes /\ t \in SingleTypes /\ types["record"] = d /\ types["entry"] = t
  BY <1>1, AllTyped
<1>3. i \in RecordIds /\ e.data \in Data
  BY DEF Entries
<1>4. /\ Fate[i].data \in Data /\ Fate[i].entry \in Data
      /\ Fate[i].castData = Casted(Fate[i].data, d)
      /\ Fate[i].castEntry = Casted(Fate[i].entry, t)
      /\ Fate[i].castData \in Data /\ Fate[i].castEntry \in Data
  BY <1>2, <1>3, FateFacts
<1>5. /\ cast_data(c.data, "record") = Casted(c.data, d)
      /\ cast_data(e.data, "entry") = Casted(e.data, t)
  BY <1>2, Zenon DEF cast_data, Casted
<1>6. /\ Casted(Fate[i].castData, d) = Fate[i].castData
      /\ Casted(Fate[i].castEntry, t) = Fate[i].castEntry
  <2>1. Casted(Casted(Fate[i].data, d), d) = Casted(Fate[i].data, d)
    BY <1>2, <1>4, CastFacts
  <2>2. Casted(Casted(Fate[i].entry, t), t) = Casted(Fate[i].entry, t)
    BY <1>2, <1>4, CastFacts
  <2> QED  BY <2>1, <2>2, <1>4
<1>7. Casted(c.data, d) = Fate[i].castData /\ Casted(e.data, t) = Fate[i].castEntry
  <2>1. CASE AsItWas(Fate, r, c.data, e)
    BY <2>1, <1>4, Zenon DEF AsItWas
  <2>2. CASE AsItBecomes(Fate, c.data, e)
    BY <2>2, <1>6, Zenon DEF AsItBecomes
  <2> QED  BY <2>1, <2>2
<1>8. left(c, e) <=> Kept(Fate, i)
  <2>1. CASE AsItWas(Fate, r, c.data, e)
    BY <2>1, <1>5, <1>7, Zenon DEF AsItWas, left, Kept
  <2>2. CASE AsItBecomes(Fate, c.data, e)
    BY <2>2, <1>5, <1>7, Zenon DEF AsItBecomes, left, Kept
  <2> QED  BY <2>1, <2>2
<1>9. [id |-> i, data |-> cast_data(e.data, "entry")] \in Entries
  BY <1>3, <1>4, <1>5, <1>7 DEF Entries
<1>10. cast_data(c.data, "record") \in Data
  BY <1>4, <1>5, <1>7
<1>11. Kept(Fate, i) => AsItBecomes(Fate, cast_data(c.data, "record"),
                                    [id |-> i, data |-> cast_data(e.data, "entry")])
  BY <1>5, <1>7 DEF AsItBecomes
<1> QED  BY <1>8, <1>9, <1>10, <1>11

\* Casting a record, or the copy of one.
LEMMA CastCopy ==
    ASSUME WasInv, FieldsInv, at # "fields",
           NEW c, c.id \in RecordIds, c.data \in Data,
           EntriesSound(Fate, c.id, c.data, c.entries)
    PROVE  /\ cast_data(c.data, "record") \in Data
           /\ Become(Fate, cast_data(c.data, "record"), cast_entries(c))
           /\ \A i : Holds(cast_entries(c), i) <=> (Kept(Fate, i) /\ Holds(c.entries, i))
           /\ \A i : Once(c.entries, i) => Once(cast_entries(c), i)
<1> DEFINE s == cast_entries(c)
           D == {k \in DOMAIN c.entries : left(c, c.entries[k])}
<1>1. cast_data(c.data, "record") \in Data
  <2>1. fields["record"].single \in SingleTypes /\ types["record"] = fields["record"].single
    BY AllTyped DEF Fields
  <2>2. cast_data(c.data, "record") = Casted(c.data, fields["record"].single)
    BY <2>1, Zenon DEF cast_data, Casted
  <2> QED  BY <2>1, <2>2, CastFacts
<1>2. /\ DOMAIN s = D
      /\ \A k \in D : s[k] = [id |-> c.entries[k].id, data |-> cast_data(c.entries[k].data, "entry")]
  BY DEF cast_entries
<1>3. \A k \in DOMAIN c.entries :
          /\ c.entries[k] \in Entries
          /\ left(c, c.entries[k]) <=> Kept(Fate, c.entries[k].id)
          /\ [id |-> c.entries[k].id, data |-> cast_data(c.entries[k].data, "entry")] \in Entries
          /\ Kept(Fate, c.entries[k].id) =>
                 AsItBecomes(Fate, cast_data(c.data, "record"),
                     [id |-> c.entries[k].id, data |-> cast_data(c.entries[k].data, "entry")])
  <2> TAKE k \in DOMAIN c.entries
  <2>1. /\ c.entries[k] \in Entries
        /\ AsItWas(Fate, c.id, c.data, c.entries[k]) \/ AsItBecomes(Fate, c.data, c.entries[k])
    BY DEF EntriesSound
  <2> QED  BY <2>1, CastEntry
<1>4. \A k \in D : s[k].id = c.entries[k].id
  <2> TAKE k \in D
  <2>1. s[k] = [id |-> c.entries[k].id, data |-> cast_data(c.entries[k].data, "entry")]
    BY <1>2
  <2> HIDE DEF s
  <2> QED  BY <2>1
<1>5. Become(Fate, cast_data(c.data, "record"), s)
  <2>1. ASSUME NEW k \in DOMAIN s
        PROVE  s[k] \in Entries /\ AsItBecomes(Fate, cast_data(c.data, "record"), s[k])
    <3>1. k \in D /\ k \in DOMAIN c.entries /\ left(c, c.entries[k])
      BY <2>1, <1>2
    <3> HIDE DEF s, D
    <3> QED  BY <3>1, <1>2, <1>3, Zenon
  <2> QED  BY <2>1 DEF Become
<1>6. ASSUME NEW i PROVE Holds(s, i) <=> (Kept(Fate, i) /\ Holds(c.entries, i))
  <2>1. Holds(s, i) <=> \E k \in D : c.entries[k].id = i
    <3> HIDE DEF s, D
    <3> QED  BY <1>2, <1>4, Zenon DEF Holds
  <2>2. (\E k \in D : c.entries[k].id = i) <=> (Kept(Fate, i) /\ Holds(c.entries, i))
    BY <1>3, Zenon DEF Holds
  <2> QED  BY <2>1, <2>2
<1>7. ASSUME NEW i, Once(c.entries, i) PROVE Once(s, i)
  <2>1. D \subseteq DOMAIN c.entries
    OBVIOUS
  <2> HIDE DEF s, D
  <2> QED  BY <2>1, <1>2, <1>4, <1>7, Zenon DEF Once
<1> QED  BY <1>1, <1>5, <1>6, <1>7

recordParts == <<fields, minion_fields, static, was, types, stops>>

\* What the steps over records leave as it is.
LEMMA RecordsFrame ==
    ASSUME MigrationInv, at \notin {"fields", "static"}, at' \notin {"fields", "static"},
           UNCHANGED recordParts
    PROVE  /\ FieldsInv' /\ WasInv' /\ FirstInv' /\ StaticInv' /\ Fate' = Fate
           /\ \A f \in Fields : fields[f].single # ""
<1>1. \A f \in Fields : fields[f].single # ""
  BY AllTyped DEF MigrationInv, SingleTypes
<1>2. FieldsInv'
  BY DEF MigrationInv, FieldsInv, recordParts
<1>3. WasInv'
  BY DEF MigrationInv, WasInv, recordParts
<1>4. FirstInv'
  BY <1>1 DEF FirstInv, recordParts
<1>5. StaticInv'
  BY DEF MigrationInv, StaticInv, recordParts
<1>6. Fate' = Fate
  BY DEF Fate, recordParts
<1> QED  BY <1>1, <1>2, <1>3, <1>4, <1>5, <1>6

\* A record is written as R, which has what was to be kept of it.
LEMMA RecordWritten ==
    ASSUME MigrationInv, MigrationAssumption, at = "records", UNCHANGED recordParts,
           UNCHANGED <<at, seen, merge, doubled, overwritten>>,
           NEW c \in batch, batch' = batch \ {c},
           NEW R, R = [data |-> R.data, entries |-> R.entries], R.data \in Data,
           Become(Fate, R.data, R.entries),
           \A i \in Promised :
               /\ Holds(R.entries, i) <=> (Kept(Fate, i) /\ Holds(stored[c.id].entries, i))
               /\ Once(R.entries, i),
           stored' = [stored EXCEPT ![c.id] = R]
    PROVE  MigrationInv'
<1>1. /\ FieldsInv' /\ WasInv' /\ FirstInv' /\ StaticInv' /\ Fate' = Fate
  BY RecordsFrame
<1>2. ControlInv'
  BY DEF MigrationInv, ControlInv, recordParts
<1>3. Promised' = Promised
  BY DEF Promised
<1>4. c.id \in RecordIds /\ c.id <= seen /\ CopyInv(c)
  BY DEF MigrationInv, BatchInv, CopyInv
<1>5. /\ stored' = [r \in RecordIds |-> IF r = c.id THEN R ELSE stored[r]]
      /\ stored'[c.id] = R /\ \A r \in RecordIds \ {c.id} : stored'[r] = stored[r]
  BY <1>4 DEF MigrationInv, StoredInv
<1>6. StoredInv'
  <2>1. ASSUME NEW r \in RecordIds
        PROVE  /\ stored'[r] = [data |-> stored'[r].data, entries |-> stored'[r].entries]
               /\ stored'[r].data \in Data
               /\ EntriesSound(Fate, r, stored'[r].data, stored'[r].entries)
    <3>1. CASE r = c.id
      <4>1. EntriesSound(Fate, r, R.data, R.entries)
        BY DEF EntriesSound, Become
      <4> QED  BY <3>1, <4>1, <1>5
    <3>2. CASE r # c.id
      BY <3>2, <1>5 DEF MigrationInv, StoredInv
    <3> QED  BY <3>1, <3>2
  <2>2. stored' = [r \in RecordIds |-> stored'[r]]
    BY <1>5
  <2> QED  BY <2>1, <2>2, <1>1 DEF StoredInv
<1>7. BatchInv'
  <2>1. ASSUME NEW d \in batch' PROVE CopyInv(d)'
    <3>1. d \in batch /\ CopyInv(d) /\ d.id # c.id
      BY DEF MigrationInv, BatchInv
    <3>2. stored'[d.id] = stored[d.id]
      BY <3>1, <1>5 DEF CopyInv
    <3> QED  BY <3>1, <3>2, <1>1, <1>3 DEF CopyInv
  <2> QED  BY <2>1 DEF MigrationInv, BatchInv
<1>8. MergeInv'
  BY DEF MergeInv
<1>9. PlacesInv'
  <2> SUFFICES ASSUME NEW i \in Promised
               PROVE  /\ \A r \in RecordIds : Once(stored'[r].entries, i)
                      /\ \A r, s \in RecordIds :
                             Holds(stored'[r].entries, i) /\ Holds(stored'[s].entries, i) => r = s
                      /\ Kept(Fate, i) => \E r \in RecordIds : Holds(stored'[r].entries, i)
    BY <1>1, <1>3 DEF PlacesInv
  <2>1. /\ \A r \in RecordIds : Once(stored[r].entries, i)
        /\ \A r, s \in RecordIds :
               Holds(stored[r].entries, i) /\ Holds(stored[s].entries, i) => r = s
        /\ Kept(Fate, i) => \E r \in RecordIds : Holds(stored[r].entries, i)
    BY DEF MigrationInv, PlacesInv
  <2>2. \A r \in RecordIds : Holds(stored'[r].entries, i) => Holds(stored[r].entries, i)
    BY <1>5
  <2>3. \A r \in RecordIds : Kept(Fate, i) /\ Holds(stored[r].entries, i) =>
                                 Holds(stored'[r].entries, i)
    BY <1>5
  <2>4. \A r \in RecordIds : Once(stored'[r].entries, i)
    BY <1>5, <2>1
  <2> QED  BY <2>1, <2>2, <2>3, <2>4
<1>10. ThroughInv'
  <2>1. ASSUME NEW r \in RecordIds, Through(r)'
        PROVE  Become(Fate, stored'[r].data, stored'[r].entries)
    <3>1. CASE r = c.id
      BY <3>1, <1>5
    <3>2. CASE r # c.id
      <4>1. Through(r)
        BY <2>1, <3>2 DEF Through
      <4> QED  BY <4>1, <3>2, <1>5 DEF MigrationInv, ThroughInv
    <3> QED  BY <3>1, <3>2
  <2> QED  BY <2>1, <1>1 DEF ThroughInv
<1> QED  BY <1>1, <1>2, <1>6, <1>7, <1>8, <1>9, <1>10 DEF MigrationInv

\* CastRecord: whichever of its four ways a copy goes (dropped, unchanged, written,
\* to be merged), the fate of each entry stays the one it had.
LEMMA CastRecordStep ==
    ASSUME MigrationInv, MigrationAssumption, CastRecord
    PROVE  MigrationInv'
<1>1. PICK c \in batch : /\ CastTo(c, cast_data(c.data, "record"), cast_entries(c))
                         /\ batch' = batch \ {c}
  BY DEF CastRecord
<1>2. at = "records" /\ UNCHANGED recordParts /\ UNCHANGED <<seen, doubled, overwritten>>
  BY DEF CastRecord, recordParts
<1>3. /\ CopyInv(c) /\ c.id \in RecordIds /\ c.id <= seen /\ c.data = stored[c.id].data
      /\ c.data \in Data /\ EntriesSound(Fate, c.id, c.data, c.entries)
  BY DEF MigrationInv, BatchInv, CopyInv, StoredInv
<1> DEFINE data == cast_data(c.data, "record")
           s == cast_entries(c)
<1>4. /\ data \in Data /\ Become(Fate, data, s)
      /\ \A i : Holds(s, i) <=> (Kept(Fate, i) /\ Holds(c.entries, i))
      /\ \A i : Once(c.entries, i) => Once(s, i)
  BY <1>2, <1>3, CastCopy DEF MigrationInv
<1>5. \A i \in Promised :
          /\ Holds(s, i) <=> (Kept(Fate, i) /\ Holds(stored[c.id].entries, i))
          /\ Once(s, i)
  BY <1>3, <1>4 DEF CopyInv
<1>6. CASE /\ data = Empty /\ DOMAIN s = {}
           /\ stored' = [stored EXCEPT ![c.id] = NoRecord] /\ UNCHANGED <<at, merge>>
  <2>1. /\ NoRecord = [data |-> NoRecord.data, entries |-> NoRecord.entries]
        /\ NoRecord.data \in Data /\ DOMAIN NoRecord.entries = {}
    BY DEF NoRecord, Nothing, Data
  <2>2. Become(Fate, NoRecord.data, NoRecord.entries)
    BY <2>1 DEF Become
  <2>3. \A i \in Promised :
          /\ Holds(NoRecord.entries, i) <=> (Kept(Fate, i) /\ Holds(stored[c.id].entries, i))
          /\ Once(NoRecord.entries, i)
    <3>1. \A i : ~Holds(NoRecord.entries, i) /\ Once(NoRecord.entries, i)
      BY <2>1 DEF Holds, Once
    <3>2. \A i : ~Holds(s, i)
      <4> HIDE DEF s
      <4> QED  BY <1>6 DEF Holds
    <3> HIDE DEF s
    <3> QED  BY <3>1, <3>2, <1>5
  <2> HIDE DEF data, s
  <2> QED  BY <1>1, <1>2, <1>6, <2>1, <2>2, <2>3, RecordWritten
<1>7. CASE data = c.data /\ s = c.entries /\ UNCHANGED <<stored, at, merge>>
  <2> DEFINE R == stored[c.id]
  <2>1. R = [data |-> R.data, entries |-> R.entries] /\ R.data \in Data
    BY <1>3 DEF MigrationInv, StoredInv
  <2>2. Become(Fate, R.data, R.entries)
    <3>1. ASSUME NEW k \in DOMAIN R.entries
          PROVE  R.entries[k] \in Entries /\ AsItBecomes(Fate, R.data, R.entries[k])
      <4>1. R.entries[k] \in Entries
        BY <1>3 DEF MigrationInv, StoredInv, EntriesSound
      <4>2. \/ AsItBecomes(Fate, c.data, R.entries[k])
            \/ \E l \in DOMAIN c.entries : c.entries[l] = R.entries[k]
        BY <1>3 DEF CopyInv
      <4>3. \A l \in DOMAIN c.entries : AsItBecomes(Fate, c.data, c.entries[l])
        <5> HIDE DEF data, s
        <5> QED  BY <1>4, <1>7 DEF Become
      <4>4. c.data = R.data
        BY <1>3
      <4> HIDE DEF R
      <4> QED  BY <4>1, <4>2, <4>3, <4>4
    <3> QED  BY <3>1 DEF Become
  <2>3. \A i \in Promised :
          /\ Holds(R.entries, i) <=> (Kept(Fate, i) /\ Holds(stored[c.id].entries, i))
          /\ Once(R.entries, i)
    <3> TAKE i \in Promised
    <3>1. Once(R.entries, i)
      BY <1>3 DEF MigrationInv, PlacesInv
    <3>2. Holds(s, i) <=> Holds(R.entries, i)
      BY <1>3, <1>7 DEF CopyInv
    <3> HIDE DEF s
    <3> QED  BY <3>1, <3>2, <1>5
  <2>4. stored' = [stored EXCEPT ![c.id] = R]
    BY <1>3, <1>7 DEF MigrationInv, StoredInv
  <2>5. PICK Q : Q = R
    OBVIOUS
  <2> HIDE DEF R, data, s
  <2>6. /\ Q = [data |-> Q.data, entries |-> Q.entries] /\ Q.data \in Data
        /\ Become(Fate, Q.data, Q.entries)
        /\ stored' = [stored EXCEPT ![c.id] = Q]
        /\ \A i \in Promised :
              /\ Holds(Q.entries, i) <=> (Kept(Fate, i) /\ Holds(stored[c.id].entries, i))
              /\ Once(Q.entries, i)
    BY <2>1, <2>2, <2>3, <2>4, <2>5
  <2> QED  BY <1>1, <1>2, <1>7, <2>6, RecordWritten
<1>8. CASE /\ stored' = [stored EXCEPT ![c.id] = [data |-> data, entries |-> s]]
           /\ UNCHANGED <<at, merge>>
  <2>1. PICK Q : Q = [data |-> data, entries |-> s]
    OBVIOUS
  <2> HIDE DEF data, s
  <2>2. /\ Q = [data |-> Q.data, entries |-> Q.entries] /\ Q.data = data /\ Q.entries = s
    BY <2>1
  <2>3. /\ Q.data \in Data
        /\ Become(Fate, Q.data, Q.entries)
        /\ stored' = [stored EXCEPT ![c.id] = Q]
        /\ \A i \in Promised :
              /\ Holds(Q.entries, i) <=> (Kept(Fate, i) /\ Holds(stored[c.id].entries, i))
              /\ Once(Q.entries, i)
    BY <2>1, <2>2, <1>4, <1>5, <1>8
  <2> QED  BY <1>1, <1>2, <1>8, <2>2, <2>3, RecordWritten
<1>9. CASE /\ merge' = [id |-> c.id, data |-> data, entries |-> s]
           /\ at' = "push" /\ UNCHANGED stored
  <2> HIDE DEF data, s
  <2>1. merge'.id = c.id /\ merge'.data = data /\ merge'.entries = s
    BY <1>9
  <2>2. FieldsInv' /\ WasInv' /\ FirstInv' /\ StaticInv' /\ Fate' = Fate
    BY <1>2, <1>9, RecordsFrame
  <2>3. Promised' = Promised
    BY <1>2 DEF Promised
  <2>4. ControlInv'
    BY <1>2, <1>9 DEF MigrationInv, ControlInv, recordParts
  <2>5. StoredInv'
    BY <1>9, <2>2 DEF MigrationInv, StoredInv
  <2>6. BatchInv'
    <3>1. ASSUME NEW d \in batch' PROVE CopyInv(d)'
      <4>1. CopyInv(d)
        BY <1>1 DEF MigrationInv, BatchInv
      <4> QED  BY <4>1, <1>2, <1>9, <2>2, <2>3 DEF CopyInv
    <3> QED  BY <1>1, <1>9, <3>1 DEF MigrationInv, BatchInv
  <2>7. MergeInv'
    <3>1. \A d \in batch' : d.id # merge'.id
      BY <1>1, <2>1 DEF MigrationInv, BatchInv
    <3>2. Become(Fate, merge'.data, merge'.entries)
      BY <1>4, <2>1
    <3>3. \A i \in Promised :
               /\ Holds(merge'.entries, i) <=>
                      (Kept(Fate, i) /\ Holds(stored'[merge'.id].entries, i))
               /\ Once(merge'.entries, i)
      BY <1>5, <1>9, <2>1
    <3>4. merge'.id \in RecordIds /\ merge'.id <= seen' /\ merge'.data \in Data
      BY <1>2, <1>3, <1>4, <2>1
    <3> QED  BY <3>1, <3>2, <3>3, <3>4, <2>2, <2>3 DEF MergeInv
  <2>8. PlacesInv'
    BY <1>2, <1>9, <2>2, <2>3 DEF MigrationInv, PlacesInv
  <2>9. ThroughInv'
    <3>1. ASSUME NEW r \in RecordIds, Through(r)' PROVE Through(r)
      BY <3>1, <1>1, <1>2, <1>9, <2>1 DEF Through
    <3> QED  BY <3>1, <1>9, <2>2 DEF MigrationInv, ThroughInv
  <2> QED  BY <2>2, <2>4, <2>5, <2>6, <2>7, <2>8, <2>9 DEF MigrationInv
<1>10. \/ /\ data = Empty /\ DOMAIN s = {}
          /\ stored' = [stored EXCEPT ![c.id] = NoRecord] /\ UNCHANGED <<at, merge>>
       \/ data = c.data /\ s = c.entries /\ UNCHANGED <<stored, at, merge>>
       \/ /\ stored' = [stored EXCEPT ![c.id] = [data |-> data, entries |-> s]]
          /\ UNCHANGED <<at, merge>>
       \/ /\ merge' = [id |-> c.id, data |-> data, entries |-> s]
          /\ at' = "push" /\ UNCHANGED stored
  <2> HIDE DEF data, s
  <2>1. CastTo(c, data, s)
    BY <1>1 DEF data, s
  <2> QED  BY <2>1, Zenon DEF CastTo
<1> QED  BY <1>6, <1>7, <1>8, <1>9, <1>10

\* FetchRecords: the copies a cursor fetches are what is stored, and pass over nothing.
LEMMA FetchStep ==
    ASSUME MigrationInv, MigrationAssumption, NEW n, FetchRecords(n)
    PROVE  MigrationInv'
<1> DEFINE rest == {r \in RecordIds : r > seen /\ IsThere(r)}
<1>1. PICK last \in rest :
          /\ batch' = {[id |-> r, data |-> stored[r].data, entries |-> stored[r].entries] :
                          r \in {q \in rest : q <= last}}
          /\ seen' = last
  BY DEF FetchRecords
<1>2. /\ at = "records" /\ at' = "records" /\ batch = {} /\ UNCHANGED recordParts
      /\ UNCHANGED <<stored, merge, doubled, overwritten>>
  BY DEF FetchRecords, recordParts, documents
<1>3. /\ RecordIds \subseteq Nat /\ seen \in Nat /\ last \in RecordIds /\ seen < last
      /\ \A r \in rest : r \in RecordIds /\ r > seen
  BY DEF MigrationAssumption, MigrationInv, ControlInv
<1>4. FieldsInv' /\ WasInv' /\ FirstInv' /\ StaticInv' /\ Fate' = Fate
  BY <1>2, RecordsFrame
<1>5. Promised' = Promised
  BY <1>2 DEF Promised
<1>6. ControlInv'
  BY <1>1, <1>2, <1>3 DEF MigrationInv, ControlInv, recordParts
<1>7. StoredInv'
  BY <1>2, <1>4 DEF MigrationInv, StoredInv
<1>8. BatchInv'
  <2>1. ASSUME NEW c \in batch' PROVE CopyInv(c)'
    <3>1. PICK r \in rest :
              /\ r <= last
              /\ c = [id |-> r, data |-> stored[r].data, entries |-> stored[r].entries]
      BY <1>1
    <3>2. /\ r \in RecordIds /\ c.id = r /\ c.data = stored[r].data
          /\ c.entries = stored[r].entries
      BY <3>1, <1>3
    <3>3. EntriesSound(Fate, r, stored[r].data, stored[r].entries)
      BY <3>2 DEF MigrationInv, StoredInv
    <3>4. \A i \in Promised : Once(stored[r].entries, i)
      BY <3>2 DEF MigrationInv, PlacesInv
    <3>5. c = [id |-> c.id, data |-> c.data, entries |-> c.entries] /\ c.id <= seen'
      BY <3>1, <3>2, <1>1
    <3>6. stored' = stored
      BY <1>2
    <3> QED  BY <3>2, <3>3, <3>4, <3>5, <3>6, <1>4, <1>5 DEF CopyInv
  <2>2. \A c, d \in batch' : c.id = d.id => c = d
    BY <1>1
  <2> QED  BY <1>2, <2>1, <2>2 DEF BatchInv
<1>9. MergeInv'
  BY <1>2 DEF MergeInv
<1>10. PlacesInv'
  BY <1>2, <1>4, <1>5 DEF MigrationInv, PlacesInv
<1>11. ThroughInv'
  <2>1. ASSUME NEW r \in RecordIds, Through(r)'
        PROVE  Become(Fate, stored[r].data, stored[r].entries)
    <3>1. r <= last /\ \A c \in batch' : c.id # r
      BY <2>1, <1>1, <1>2 DEF Through
    <3>2. CASE r <= seen
      <4>1. Through(r)
        BY <3>2, <1>2 DEF Through
      <4> QED  BY <4>1 DEF MigrationInv, ThroughInv
    <3>3. CASE r > seen
      <4>1. ~IsThere(r)
        <5>1. ASSUME IsThere(r) PROVE FALSE
          <6>1. r \in {q \in rest : q <= last}
            BY <5>1, <3>1, <3>3
          <6>2. [id |-> r, data |-> stored[r].data, entries |-> stored[r].entries] \in batch'
            BY <6>1, <1>1
          <6> QED  BY <6>2, <3>1
        <5> QED  BY <5>1
      <4> QED  BY <4>1 DEF IsThere, Become
    <3>4. r \in Nat
      BY <1>3
    <3> QED  BY <3>2, <3>3, <3>4, <1>3
  <2> QED  BY <2>1, <1>2, <1>4 DEF ThroughInv
<1> QED  BY <1>4, <1>6, <1>7, <1>8, <1>9, <1>10, <1>11 DEF MigrationInv

\* What is pushed is there with what was there.
LEMMA PushedIs ==
    ASSUME NEW s, NEW t
    PROVE  /\ \A k \in DOMAIN s :
                  <<1, k>> \in DOMAIN Pushed(s, t) /\ Pushed(s, t)[<<1, k>>] = s[k]
           /\ \A k \in DOMAIN t :
                  <<2, k>> \in DOMAIN Pushed(s, t) /\ Pushed(s, t)[<<2, k>>] = t[k]
           /\ \A x \in DOMAIN Pushed(s, t) : \/ \E k \in DOMAIN s : x = <<1, k>>
                                             \/ \E k \in DOMAIN t : x = <<2, k>>
<1>1. ASSUME NEW k \in DOMAIN s
      PROVE  <<1, k>> \in DOMAIN Pushed(s, t) /\ Pushed(s, t)[<<1, k>>] = s[k]
  BY DEF Pushed
<1>2. ASSUME NEW k \in DOMAIN t
      PROVE  <<2, k>> \in DOMAIN Pushed(s, t) /\ Pushed(s, t)[<<2, k>>] = t[k]
  BY DEF Pushed
<1>3. ASSUME NEW x \in DOMAIN Pushed(s, t)
      PROVE  (\E k \in DOMAIN s : x = <<1, k>>) \/ (\E k \in DOMAIN t : x = <<2, k>>)
  BY DEF Pushed
<1> QED  BY <1>1, <1>2, <1>3

\* An entry is in what has been pushed together if it was in either part, and once
\* if it was in one of them only.
LEMMA PushedHolds ==
    ASSUME NEW s, NEW t, NEW i
    PROVE  /\ Holds(Pushed(s, t), i) <=> (Holds(s, i) \/ Holds(t, i))
           /\ Once(s, i) /\ Once(t, i) /\ ~(Holds(s, i) /\ Holds(t, i)) => Once(Pushed(s, t), i)
<1> DEFINE u == Pushed(s, t)
<1>1. /\ \A k \in DOMAIN s : <<1, k>> \in DOMAIN u /\ u[<<1, k>>] = s[k]
      /\ \A k \in DOMAIN t : <<2, k>> \in DOMAIN u /\ u[<<2, k>>] = t[k]
      /\ \A x \in DOMAIN u : \/ \E k \in DOMAIN s : x = <<1, k>>
                             \/ \E k \in DOMAIN t : x = <<2, k>>
  BY PushedIs
<1> HIDE DEF u
<1>2. ASSUME Holds(u, i) PROVE Holds(s, i) \/ Holds(t, i)
  <2>1. PICK x \in DOMAIN u : u[x].id = i
    BY <1>2 DEF Holds
  <2> QED  BY <2>1, <1>1 DEF Holds
<1>3. Holds(s, i) => Holds(u, i)
  BY <1>1 DEF Holds
<1>4. Holds(t, i) => Holds(u, i)
  BY <1>1 DEF Holds
<1>5. ASSUME Once(s, i), Once(t, i), ~(Holds(s, i) /\ Holds(t, i)) PROVE Once(u, i)
  <2>1. ASSUME NEW x \in DOMAIN u, NEW y \in DOMAIN u, u[x].id = i, u[y].id = i PROVE x = y
    <3>1. CASE \E k \in DOMAIN s : x = <<1, k>>
      <4>1. PICK k \in DOMAIN s : x = <<1, k>>
        BY <3>1
      <4>2. s[k].id = i /\ Holds(s, i)
        BY <4>1, <2>1, <1>1 DEF Holds
      <4>3. ~\E l \in DOMAIN t : y = <<2, l>>
        BY <4>2, <2>1, <1>1, <1>5 DEF Holds
      <4>4. PICK l \in DOMAIN s : y = <<1, l>>
        BY <4>3, <1>1
      <4>5. s[l].id = i
        BY <4>4, <2>1, <1>1
      <4>6. k = l
        BY <4>2, <4>5, <1>5 DEF Once
      <4> QED  BY <4>1, <4>4, <4>6
    <3>2. CASE \E k \in DOMAIN t : x = <<2, k>>
      <4>1. PICK k \in DOMAIN t : x = <<2, k>>
        BY <3>2
      <4>2. t[k].id = i /\ Holds(t, i)
        BY <4>1, <2>1, <1>1 DEF Holds
      <4>3. ~\E l \in DOMAIN s : y = <<1, l>>
        BY <4>2, <2>1, <1>1, <1>5 DEF Holds
      <4>4. PICK l \in DOMAIN t : y = <<2, l>>
        BY <4>3, <1>1
      <4>5. t[l].id = i
        BY <4>4, <2>1, <1>1
      <4>6. k = l
        BY <4>2, <4>5, <1>5 DEF Once
      <4> QED  BY <4>1, <4>4, <4>6
    <3> QED  BY <3>1, <3>2, <1>1
  <2> QED  BY <2>1 DEF Once
<1> QED  BY <1>2, <1>3, <1>4, <1>5 DEF u

\* Pushing two sets of entries together makes up no entry.
LEMMA PushedEntries ==
    ASSUME NEW s, NEW t, NEW k \in DOMAIN Pushed(s, t)
    PROVE  \/ \E l \in DOMAIN s : Pushed(s, t)[k] = s[l]
           \/ \E l \in DOMAIN t : Pushed(s, t)[k] = t[l]
BY PushedIs

\* PushEntries: an entry pushed is in both records until its own is deleted, and only
\* there; one pushed to a record that has been fetched counts as overwritten.
LEMMA PushStep ==
    ASSUME MigrationInv, MigrationAssumption, PushEntries
    PROVE  MigrationInv'
<1>1. PICK r \in Other(merge.id, merge.data) :
          /\ stored' = [stored EXCEPT ![r].entries = Pushed(@, merge.entries)]
          /\ overwritten' = IF r \in {c.id : c \in batch} THEN overwritten \cup Ids(merge.entries)
                            ELSE overwritten
  BY DEF PushEntries
<1>2. /\ at = "push" /\ at' = "delete" /\ UNCHANGED recordParts
      /\ UNCHANGED <<batch, seen, merge, doubled>>
  BY DEF PushEntries, recordParts
<1>3. r \in RecordIds /\ r # merge.id /\ stored[r].data = merge.data
  BY <1>1 DEF Other
<1>4. /\ merge.id \in RecordIds /\ merge.id <= seen /\ merge.data \in Data
      /\ \A c \in batch : c.id # merge.id
      /\ Become(Fate, merge.data, merge.entries)
      /\ \A i \in Promised :
             /\ Holds(merge.entries, i) <=> (Kept(Fate, i) /\ Holds(stored[merge.id].entries, i))
             /\ Once(merge.entries, i)
  BY <1>2 DEF MigrationInv, MergeInv
<1>5. FieldsInv' /\ WasInv' /\ FirstInv' /\ StaticInv' /\ Fate' = Fate
  BY <1>2, RecordsFrame
<1> DEFINE pushed == Pushed(stored[r].entries, merge.entries)
<1>6. /\ stored' = [q \in RecordIds |-> stored'[q]]
      /\ stored'[r] = [data |-> stored[r].data, entries |-> pushed]
      /\ stored'[r].data = stored[r].data /\ stored'[r].entries = pushed
      /\ \A q \in RecordIds \ {r} : stored'[q] = stored[q]
  <2>1. stored = [q \in RecordIds |-> stored[q]]
    BY DEF MigrationInv, StoredInv
  <2>2. stored[r] = [data |-> stored[r].data, entries |-> stored[r].entries]
    BY <1>3 DEF MigrationInv, StoredInv
  <2>3. stored' = [q \in RecordIds |-> IF q = r THEN [stored[r] EXCEPT !.entries = pushed]
                                       ELSE stored[q]]
    BY <1>1, <1>3, <2>1
  <2>4. [stored[r] EXCEPT !.entries = pushed] = [data |-> stored[r].data, entries |-> pushed]
    <3> HIDE DEF pushed
    <3> QED  BY <2>2
  <2> HIDE DEF pushed
  <2> QED  BY <2>3, <2>4, <1>3
<1>7. /\ Promised' \subseteq Promised
      /\ \A i \in Promised' : (\E c \in batch : c.id = r) => ~Holds(merge.entries, i)
  <2>1. ASSUME NEW i, Holds(merge.entries, i) PROVE i \in Ids(merge.entries)
    BY <2>1 DEF Holds, Ids
  <2> QED  BY <1>1, <1>2, <2>1 DEF Promised
<1>8. \A k \in DOMAIN pushed : pushed[k] \in Entries /\
          \/ \E l \in DOMAIN stored[r].entries : pushed[k] = stored[r].entries[l]
          \/ AsItBecomes(Fate, stored[r].data, pushed[k])
  <2> TAKE k \in DOMAIN pushed
  <2>1. CASE \E l \in DOMAIN stored[r].entries : pushed[k] = stored[r].entries[l]
    <3>1. PICK l \in DOMAIN stored[r].entries : pushed[k] = stored[r].entries[l]
      BY <2>1
    <3>2. stored[r].entries[l] \in Entries
      BY <1>3 DEF MigrationInv, StoredInv, EntriesSound
    <3> HIDE DEF pushed
    <3> QED  BY <3>1, <3>2
  <2>2. CASE \E l \in DOMAIN merge.entries : pushed[k] = merge.entries[l]
    <3> HIDE DEF pushed
    <3> QED  BY <2>2, <1>3, <1>4 DEF Become
  <2> QED  BY <2>1, <2>2, PushedEntries
<1>9. \A i : Holds(pushed, i) <=> (Holds(stored[r].entries, i) \/ Holds(merge.entries, i))
  BY PushedHolds
<1> HIDE DEF pushed
<1>10. StoredInv'
  <2>1. ASSUME NEW q \in RecordIds
        PROVE  /\ stored'[q] = [data |-> stored'[q].data, entries |-> stored'[q].entries]
               /\ stored'[q].data \in Data
               /\ EntriesSound(Fate, q, stored'[q].data, stored'[q].entries)
    <3>1. CASE q = r
      <4>1. EntriesSound(Fate, r, stored[r].data, stored[r].entries) /\ stored[r].data \in Data
        BY <1>3 DEF MigrationInv, StoredInv
      <4>2. EntriesSound(Fate, r, stored[r].data, pushed)
        BY <4>1, <1>8 DEF EntriesSound
      <4> QED  BY <3>1, <4>1, <4>2, <1>6
    <3>2. CASE q # r
      BY <3>2, <1>6 DEF MigrationInv, StoredInv
    <3> QED  BY <3>1, <3>2
  <2> QED  BY <2>1, <1>5, <1>6 DEF StoredInv
<1>11. BatchInv'
  <2>1. ASSUME NEW c \in batch' PROVE CopyInv(c)'
    <3>1. CopyInv(c) /\ c \in batch
      BY <1>2 DEF MigrationInv, BatchInv
    <3>2. CASE c.id = r
      <4>1. /\ c = [id |-> c.id, data |-> c.data, entries |-> c.entries]
            /\ c.id \in RecordIds /\ c.id <= seen' /\ c.data = stored'[c.id].data
            /\ EntriesSound(Fate, c.id, c.data, c.entries)
        BY <3>1, <3>2, <1>2, <1>6 DEF CopyInv
      <4>2. ASSUME NEW k \in DOMAIN stored'[c.id].entries
            PROVE  \/ AsItBecomes(Fate, c.data, stored'[c.id].entries[k])
                   \/ \E l \in DOMAIN c.entries : c.entries[l] = stored'[c.id].entries[k]
        <5>1. \/ \E l \in DOMAIN stored[r].entries : pushed[k] = stored[r].entries[l]
              \/ AsItBecomes(Fate, stored[r].data, pushed[k])
          BY <1>6, <1>8, <3>2
        <5>2. c.data = stored[r].data /\ stored'[c.id].entries = pushed
          BY <3>1, <3>2, <1>6 DEF CopyInv
        <5>3. \A l \in DOMAIN stored[r].entries :
                  \/ AsItBecomes(Fate, c.data, stored[r].entries[l])
                  \/ \E m \in DOMAIN c.entries : c.entries[m] = stored[r].entries[l]
          BY <3>1, <3>2 DEF CopyInv
        <5> QED  BY <5>1, <5>2, <5>3
      <4>3. \A i \in Promised' : /\ Holds(c.entries, i) <=> Holds(stored'[c.id].entries, i)
                                 /\ Once(c.entries, i)
        <5> TAKE i \in Promised'
        <5>1. i \in Promised /\ ~Holds(merge.entries, i)
          BY <1>7, <3>1, <3>2
        <5>2. Holds(stored'[c.id].entries, i) <=> Holds(stored[r].entries, i)
          BY <5>1, <1>6, <1>9, <3>2
        <5> QED  BY <5>1, <5>2, <3>1, <3>2 DEF CopyInv
      <4> QED  BY <4>1, <4>2, <4>3, <1>5 DEF CopyInv
    <3>3. CASE c.id # r
      <4>1. stored'[c.id] = stored[c.id]
        BY <3>1, <3>3, <1>6 DEF CopyInv
      <4> QED  BY <4>1, <3>1, <1>2, <1>5, <1>7 DEF CopyInv
    <3> QED  BY <3>2, <3>3
  <2> QED  BY <2>1, <1>2 DEF MigrationInv, BatchInv
<1>12. MergeInv'
  <2>1. stored'[merge.id] = stored[merge.id]
    BY <1>3, <1>4, <1>6
  <2> QED  BY <2>1, <1>2, <1>4, <1>5, <1>7 DEF MergeInv
<1>13. PlacesInv'
  <2> SUFFICES ASSUME NEW i \in Promised'
               PROVE  /\ \A q \in RecordIds : Once(stored'[q].entries, i)
                      /\ \A p, q \in RecordIds :
                             Holds(stored'[p].entries, i) /\ Holds(stored'[q].entries, i) =>
                                 \/ p = q
                                 \/ merge.id \in {p, q} /\ Holds(merge.entries, i)
                      /\ Kept(Fate, i) => \E q \in RecordIds : /\ Holds(stored'[q].entries, i)
                                                               /\ q # merge.id
    BY <1>2, <1>5 DEF PlacesInv
  <2>1. /\ \A q \in RecordIds : Once(stored[q].entries, i)
        /\ \A p, q \in RecordIds :
               Holds(stored[p].entries, i) /\ Holds(stored[q].entries, i) => p = q
        /\ Kept(Fate, i) => \E q \in RecordIds : Holds(stored[q].entries, i)
    BY <1>2, <1>7 DEF MigrationInv, PlacesInv
  <2>2. /\ Holds(merge.entries, i) <=> (Kept(Fate, i) /\ Holds(stored[merge.id].entries, i))
        /\ Once(merge.entries, i)
    BY <1>4, <1>7
  <2>3. ~(Holds(stored[r].entries, i) /\ Holds(merge.entries, i))
    BY <2>1, <2>2, <1>3, <1>4
  <2>4. Once(pushed, i)
    BY <2>1, <2>2, <2>3, <1>3, PushedHolds DEF pushed
  <2>5. \A q \in RecordIds : Once(stored'[q].entries, i)
    BY <2>1, <2>4, <1>6
  <2>6. /\ Holds(stored'[r].entries, i) <=> (Holds(stored[r].entries, i) \/ Holds(merge.entries, i))
        /\ \A q \in RecordIds \ {r} : Holds(stored'[q].entries, i) <=> Holds(stored[q].entries, i)
    BY <1>6, <1>9
  <2>7. ASSUME NEW p \in RecordIds, NEW q \in RecordIds,
               Holds(stored'[p].entries, i), Holds(stored'[q].entries, i)
        PROVE  p = q \/ (merge.id \in {p, q} /\ Holds(merge.entries, i))
    <3>1. CASE Holds(merge.entries, i)
      <4>1. \A x \in RecordIds : Holds(stored'[x].entries, i) => x \in {r, merge.id}
        BY <3>1, <2>1, <2>2, <2>6, <1>4
      <4> QED  BY <3>1, <4>1, <2>7
    <3>2. CASE ~Holds(merge.entries, i)
      BY <3>2, <2>1, <2>6, <2>7
    <3> QED  BY <3>1, <3>2
  <2>8. ASSUME Kept(Fate, i)
        PROVE  \E q \in RecordIds : Holds(stored'[q].entries, i) /\ q # merge.id
    <3>1. PICK q \in RecordIds : Holds(stored[q].entries, i)
      BY <2>1, <2>8
    <3>2. CASE q = merge.id
      BY <3>1, <3>2, <2>2, <2>6, <2>8, <1>3
    <3>3. CASE q # merge.id
      BY <3>1, <3>3, <2>6
    <3> QED  BY <3>2, <3>3
  <2> QED  BY <2>5, <2>7, <2>8
<1>14. ThroughInv'
  <2>1. ASSUME NEW q \in RecordIds, Through(q)'
        PROVE  Become(Fate, stored'[q].data, stored'[q].entries)
    <3>1. Through(q)
      BY <2>1, <1>2 DEF Through
    <3>2. Become(Fate, stored[q].data, stored[q].entries)
      BY <3>1 DEF MigrationInv, ThroughInv
    <3>3. CASE q = r
      <4>1. Become(Fate, stored[r].data, pushed)
        BY <3>2, <3>3, <1>8 DEF Become
      <4> QED  BY <4>1, <3>3, <1>6
    <3>4. CASE q # r
      BY <3>2, <3>4, <1>6
    <3> QED  BY <3>3, <3>4
  <2> QED  BY <2>1, <1>5 DEF ThroughInv
<1>15. ControlInv'
  <2>1. Ids(merge.entries) \subseteq RecordIds
    BY <1>4 DEF Ids, Become, Entries
  <2> QED  BY <2>1, <1>1, <1>2 DEF MigrationInv, ControlInv, recordParts
<1> QED  BY <1>5, <1>10, <1>11, <1>12, <1>13, <1>14, <1>15 DEF MigrationInv

\* DeleteMerged: with its record goes nothing that has not been pushed before.
LEMMA DeleteStep ==
    ASSUME MigrationInv, MigrationAssumption, DeleteMerged
    PROVE  MigrationInv'
<1>1. /\ at = "delete" /\ at' = "records" /\ UNCHANGED recordParts
      /\ UNCHANGED <<batch, seen, doubled, overwritten>>
      /\ stored' = [stored EXCEPT ![merge.id] = NoRecord]
  BY DEF DeleteMerged, recordParts
<1>2. /\ merge.id \in RecordIds
      /\ \A c \in batch : c.id # merge.id
      /\ \A i \in Promised :
             Holds(merge.entries, i) <=> (Kept(Fate, i) /\ Holds(stored[merge.id].entries, i))
  BY <1>1 DEF MigrationInv, MergeInv
<1>3. FieldsInv' /\ WasInv' /\ FirstInv' /\ StaticInv' /\ Fate' = Fate
  BY <1>1, RecordsFrame
<1>4. Promised' = Promised
  BY <1>1 DEF Promised
<1>5. ControlInv'
  BY <1>1 DEF MigrationInv, ControlInv, recordParts
<1>6. /\ stored' = [q \in RecordIds |-> stored'[q]] /\ stored'[merge.id] = NoRecord
      /\ \A q \in RecordIds \ {merge.id} : stored'[q] = stored[q]
  BY <1>1, <1>2 DEF MigrationInv, StoredInv
<1>7. /\ NoRecord = [data |-> NoRecord.data, entries |-> NoRecord.entries]
      /\ NoRecord.data \in Data /\ DOMAIN NoRecord.entries = {}
  BY DEF NoRecord, Nothing, Data
<1>8. \A i : ~Holds(NoRecord.entries, i) /\ Once(NoRecord.entries, i)
  BY <1>7 DEF Holds, Once
<1>9. StoredInv'
  <2>1. ASSUME NEW q \in RecordIds
        PROVE  /\ stored'[q] = [data |-> stored'[q].data, entries |-> stored'[q].entries]
               /\ stored'[q].data \in Data
               /\ EntriesSound(Fate, q, stored'[q].data, stored'[q].entries)
    <3>1. EntriesSound(Fate, q, NoRecord.data, NoRecord.entries)
      BY <1>7 DEF EntriesSound
    <3>2. CASE q = merge.id
      BY <3>1, <3>2, <1>6, <1>7
    <3>3. CASE q # merge.id
      BY <3>3, <1>6 DEF MigrationInv, StoredInv
    <3> QED  BY <3>2, <3>3
  <2> QED  BY <2>1, <1>3, <1>6 DEF StoredInv
<1>10. BatchInv'
  <2>1. ASSUME NEW c \in batch' PROVE CopyInv(c)'
    <3>1. CopyInv(c) /\ c \in batch
      BY <1>1 DEF MigrationInv, BatchInv
    <3>2. stored'[c.id] = stored[c.id]
      BY <3>1, <1>2, <1>6 DEF CopyInv
    <3> QED  BY <3>1, <3>2, <1>1, <1>3, <1>4 DEF CopyInv
  <2> QED  BY <2>1, <1>1 DEF MigrationInv, BatchInv
<1>11. MergeInv'
  BY <1>1 DEF MergeInv
<1>12. PlacesInv'
  <2> SUFFICES ASSUME NEW i \in Promised
               PROVE  /\ \A q \in RecordIds : Once(stored'[q].entries, i)
                      /\ \A p, q \in RecordIds :
                             Holds(stored'[p].entries, i) /\ Holds(stored'[q].entries, i) => p = q
                      /\ Kept(Fate, i) => \E q \in RecordIds : Holds(stored'[q].entries, i)
    BY <1>1, <1>3, <1>4 DEF PlacesInv
  <2>1. /\ \A q \in RecordIds : Once(stored[q].entries, i)
        /\ \A p, q \in RecordIds :
               Holds(stored[p].entries, i) /\ Holds(stored[q].entries, i) =>
                   p = q \/ (merge.id \in {p, q} /\ Holds(merge.entries, i))
        /\ Kept(Fate, i) => \E q \in RecordIds : Holds(stored[q].entries, i) /\ q # merge.id
    BY <1>1 DEF MigrationInv, PlacesInv
  <2>2. \A q \in RecordIds : Holds(stored'[q].entries, i) =>
            q # merge.id /\ Holds(stored[q].entries, i)
    BY <1>6, <1>8
  <2>3. \A q \in RecordIds : Once(stored'[q].entries, i)
    BY <1>6, <1>8, <2>1
  <2>4. \A q \in RecordIds \ {merge.id} : Holds(stored[q].entries, i) => Holds(stored'[q].entries, i)
    BY <1>6
  <2> QED  BY <2>1, <2>2, <2>3, <2>4
<1>13. ThroughInv'
  <2>1. ASSUME NEW q \in RecordIds, Through(q)'
        PROVE  Become(Fate, stored'[q].data, stored'[q].entries)
    <3>1. CASE q = merge.id
      BY <3>1, <1>6, <1>7 DEF Become
    <3>2. CASE q # merge.id
      <4>1. Through(q)
        BY <2>1, <3>2, <1>1 DEF Through
      <4> QED  BY <4>1, <3>2, <1>6 DEF MigrationInv, ThroughInv
    <3> QED  BY <3>1, <3>2
  <2> QED  BY <2>1, <1>3 DEF ThroughInv
<1> QED  BY <1>3, <1>5, <1>9, <1>10, <1>11, <1>12, <1>13 DEF MigrationInv

\* EndRecords: no record is left that the cursor has not been through.
LEMMA EndRecordsStep ==
    ASSUME MigrationInv, MigrationAssumption, EndRecords
    PROVE  MigrationInv'
<1>1. /\ at = "records" /\ at' = "done" /\ batch = {} /\ UNCHANGED recordParts
      /\ UNCHANGED <<stored, batch, seen, merge, doubled, overwritten>>
      /\ \A r \in RecordIds : r > seen => ~IsThere(r)
  BY DEF EndRecords, recordParts, documents
<1>2. FieldsInv' /\ WasInv' /\ FirstInv' /\ StaticInv' /\ Fate' = Fate
  BY <1>1, RecordsFrame
<1>3. Promised' = Promised
  BY <1>1 DEF Promised
<1>4. ControlInv'
  BY <1>1 DEF MigrationInv, ControlInv, recordParts
<1>5. StoredInv'
  BY <1>1, <1>2 DEF MigrationInv, StoredInv
<1>6. BatchInv' /\ MergeInv'
  BY <1>1 DEF BatchInv, MergeInv
<1>7. PlacesInv'
  BY <1>1, <1>2, <1>3 DEF MigrationInv, PlacesInv
<1>8. ThroughInv'
  <2>1. ASSUME NEW r \in RecordIds PROVE Become(Fate, stored[r].data, stored[r].entries)
    <3>1. RecordIds \subseteq Nat /\ seen \in Nat
      BY DEF MigrationAssumption, MigrationInv, ControlInv
    <3>2. CASE r <= seen
      <4>1. Through(r)
        BY <3>2, <1>1 DEF Through
      <4> QED  BY <4>1 DEF MigrationInv, ThroughInv
    <3>3. CASE r > seen
      BY <3>3, <1>1 DEF IsThere, Become
    <3> QED  BY <3>1, <3>2, <3>3
  <2> QED  BY <2>1, <1>1, <1>2 DEF ThroughInv
<1> QED  BY <1>2, <1>4, <1>5, <1>6, <1>7, <1>8 DEF MigrationInv

\* StopMigration: a run that begins anew finds every entry as a first run would, cast
\* already or not; those of a record being deleted are counted as doubled.
LEMMA StopStep ==
    ASSUME MigrationInv, MigrationAssumption, StopMigration
    PROVE  MigrationInv'
<1>1. /\ at # "done" /\ at' = "fields" /\ types' = Nothing /\ batch' = {} /\ seen' = 0
      /\ stops < MaxStops /\ stops' = stops + 1
      /\ doubled' = IF at = "delete" THEN doubled \cup Ids(merge.entries) ELSE doubled
      /\ UNCHANGED <<fields, minion_fields, static, stored, was, overwritten>>
  BY DEF StopMigration, documents
<1>2. DOMAIN types' = {}
  BY <1>1 DEF Nothing
<1>3. FieldsInv'
  <2>1. \A f \in Fields :
        /\ fields'[f].single \in {""} \cup SingleTypes
        /\ fields'[f].single = "" => fields'[f].types \in LegacyTypes
        /\ fields'[f].single = "" => (f \in minion_fields' <=> f \in MinionFields)
        /\ fields'[f].single # "" => (fields'[f].of_minion = (f \in MinionFields))
    BY <1>1, Zenon DEF MigrationInv, FieldsInv
  <2> QED  BY <2>1, <1>1, <1>2 DEF FieldsInv
<1>4. WasInv' /\ FirstInv'
  BY <1>1 DEF MigrationInv, WasInv, FirstInv
<1>5. StaticInv'
  BY <1>1 DEF MigrationInv, StaticInv
<1>6. Fate' = Fate
  BY <1>1 DEF Fate
<1>7. StoredInv'
  BY <1>1, <1>6 DEF MigrationInv, StoredInv
<1>8. BatchInv' /\ MergeInv' /\ ThroughInv'
  BY <1>1 DEF BatchInv, MergeInv, ThroughInv, Through
<1>9. /\ Promised' \subseteq Promised
      /\ at = "delete" => \A i \in Promised' : ~Holds(merge.entries, i)
  BY <1>1 DEF Promised, Holds, Ids
<1>10. PlacesInv'
  <2> SUFFICES ASSUME NEW i \in Promised'
               PROVE  /\ \A r \in RecordIds : Once(stored[r].entries, i)
                      /\ \A r, s \in RecordIds :
                             Holds(stored[r].entries, i) /\ Holds(stored[s].entries, i) => r = s
                      /\ Kept(Fate, i) => \E r \in RecordIds : Holds(stored[r].entries, i)
    BY <1>1, <1>6 DEF PlacesInv
  <2> QED  BY <1>9 DEF MigrationInv, PlacesInv
<1>11. ControlInv'
  <2>1. at = "delete" => Ids(merge.entries) \subseteq RecordIds
    BY DEF MigrationInv, MergeInv, Ids, Become, Entries
  <2>2. stops' \in 0..MaxStops
    BY <1>1 DEF MigrationAssumption, MigrationInv, ControlInv
  <2> QED  BY <2>1, <2>2, <1>1 DEF MigrationInv, ControlInv
<1> QED  BY <1>3, <1>4, <1>5, <1>7, <1>8, <1>10, <1>11 DEF MigrationInv

\* While the fields are migrated, no record is being cast.
LEMMA NoRecordsYet ==
    ASSUME BatchInv, at' \in {"fields", "static"}, batch' = {}
    PROVE  BatchInv' /\ MergeInv' /\ ThroughInv'
BY DEF BatchInv, MergeInv, ThroughInv, Through

\* A category's fields have their single types, those they had if they had one.
LEMMA CategoryFields_single ==
    ASSUME FieldsInv, NEW f \in Fields
    PROVE  /\ get_category_field(f).single \in SingleTypes
           /\ get_category_field(f).of_minion = (f \in MinionFields)
           /\ fields[f].single # "" /\ f # "memory" => get_category_field(f).single = fields[f].single
<1>1. DOMAIN INVENTORY_FIELDS = {"memory"} /\ INVENTORY_FIELDS["memory"] = "int"
  BY DEF INVENTORY_FIELDS
<1>2. CASE f = "memory"
  <2>1. get_category_field(f) = [types |-> {}, single |-> "int", of_minion |-> FALSE]
    BY <1>1, <1>2 DEF get_category_field
  <2>2. (f \in MinionFields) = FALSE
    BY <1>2 DEF MinionFields
  <2>3. get_category_field(f).single = "int" /\ get_category_field(f).of_minion = FALSE
    BY <2>1
  <2>4. get_category_field(f).of_minion = (f \in MinionFields)
    BY <2>2, <2>3, Zenon
  <2>5. get_category_field(f).single \in SingleTypes
    BY <2>3 DEF SingleTypes
  <2> QED  BY <1>2, <2>4, <2>5, Zenon
<1>3. CASE f # "memory" /\ fields[f].single # ""
  <2>1. get_category_field(f) = fields[f]
    BY <1>1, <1>3 DEF get_category_field
  <2> QED  BY <1>3, <2>1, Zenon DEF FieldsInv
<1>4. CASE f # "memory" /\ fields[f].single = ""
  <2>1. get_category_field(f) = [types |-> {}, single |-> get_single_type(fields[f].types),
                                 of_minion |-> f \in minion_fields]
    BY <1>1, <1>4 DEF get_category_field
  <2>2. get_single_type(fields[f].types) \in SingleTypes
    BY <1>4, SingleTypeOf DEF FieldsInv
  <2>3. f \in minion_fields <=> f \in MinionFields
    BY <1>4 DEF FieldsInv
  <2>4. /\ get_category_field(f).single = get_single_type(fields[f].types)
        /\ get_category_field(f).of_minion = (f \in minion_fields)
    BY <2>1
  <2>5. (f \in minion_fields) = (f \in MinionFields)
    BY <2>3
  <2>6. get_category_field(f).of_minion = (f \in MinionFields)
    BY <2>4, <2>5, Zenon
  <2>7. get_category_field(f).single \in SingleTypes
    BY <2>2, <2>4, Zenon
  <2> QED  BY <1>4, <2>6, <2>7, Zenon
<1> QED  BY <1>2, <1>3, <1>4

\* MigrateCategory: a category written by an earlier run gets no other type.
LEMMA MigrateCategoryStep ==
    ASSUME MigrationInv, MigrationAssumption, MigrateCategory
    PROVE  MigrationInv'
<1>1. PICK F \in CategoryFields :
          /\ F \cap DOMAIN types = {}
          /\ fields' = [f \in Fields |-> IF f \in F THEN get_category_field(f) ELSE fields[f]]
          /\ minion_fields' = minion_fields \ F
          /\ types' = [f \in F \cup DOMAIN types |->
                           IF f \in F THEN fields'[f].single ELSE types[f]]
  BY DEF MigrateCategory
<1>2. /\ at = "fields" /\ at' = IF DOMAIN types' = Fields THEN "static" ELSE "fields"
      /\ at' \in {"fields", "static"}
      /\ UNCHANGED <<static, stored, was, batch, seen, merge, doubled, overwritten, stops>>
  BY DEF MigrateCategory
<1>3. /\ F \subseteq Fields /\ (F = {"memory"} \/ "memory" \notin F)
      /\ DOMAIN types' = F \cup DOMAIN types
  BY <1>1 DEF CategoryFields, Fields
<1>4. /\ \A f \in F : fields'[f] = get_category_field(f)
      /\ \A f \in Fields \ F : fields'[f] = fields[f]
  BY <1>1, <1>3
<1>5. \A f \in Fields :
          /\ get_category_field(f).single \in SingleTypes
          /\ get_category_field(f).of_minion = (f \in MinionFields)
          /\ fields[f].single # "" /\ f # "memory" =>
                 get_category_field(f).single = fields[f].single
  BY CategoryFields_single DEF MigrationInv
<1>6. FieldsInv'
  <2>1. ASSUME NEW f \in Fields
        PROVE  /\ fields'[f].single \in {""} \cup SingleTypes
               /\ fields'[f].single = "" => fields'[f].types \in LegacyTypes
               /\ fields'[f].single = "" => (f \in minion_fields' <=> f \in MinionFields)
               /\ fields'[f].single # "" => (fields'[f].of_minion = (f \in MinionFields))
    <3>1. CASE f \in F
      <4>1. fields'[f].single \in SingleTypes /\ fields'[f].of_minion = (f \in MinionFields)
        BY <3>1, <1>4, <1>5, Zenon
      <4>2. "" \notin SingleTypes
        BY DEF SingleTypes
      <4> QED  BY <4>1, <4>2, Zenon
    <3>2. CASE f \notin F
      <4>1. /\ fields[f].single \in {""} \cup SingleTypes
            /\ fields[f].single = "" => fields[f].types \in LegacyTypes
            /\ fields[f].single = "" => (f \in minion_fields <=> f \in MinionFields)
            /\ fields[f].single # "" => (fields[f].of_minion = (f \in MinionFields))
        BY Zenon DEF MigrationInv, FieldsInv
      <4>2. fields'[f] = fields[f] /\ (f \in minion_fields' <=> f \in minion_fields)
        BY <3>2, <1>1, <1>4
      <4> QED  BY <4>1, <4>2, Zenon
    <3> QED  BY <3>1, <3>2
  <2>2. DOMAIN types' \subseteq Fields
    BY <1>3 DEF MigrationInv, FieldsInv
  <2>3. ASSUME NEW f \in DOMAIN types'
        PROVE  fields'[f].single # "" /\ types'[f] = fields'[f].single
    <3>1. CASE f \in F
      <4>1. types'[f] = fields'[f].single
        BY <3>1, <1>1
      <4>2. fields'[f].single \in SingleTypes
        BY <3>1, <1>3, <1>4, <1>5
      <4> QED  BY <4>1, <4>2 DEF SingleTypes
    <3>2. CASE f \notin F
      <4>1. f \in DOMAIN types /\ f \in Fields \ F
        BY <3>2, <1>3, <2>2
      <4>2. types'[f] = types[f] /\ fields'[f] = fields[f]
        BY <4>1, <3>2, <1>1, <1>4
      <4> QED  BY <4>1, <4>2 DEF MigrationInv, FieldsInv
    <3> QED  BY <3>1, <3>2
  <2>4. at' # "fields" => DOMAIN types' = Fields
    BY <1>2
  <2> QED  BY <2>1, <2>2, <2>3, <2>4 DEF FieldsInv
<1>7. WasInv'
  BY <1>2 DEF MigrationInv, WasInv
<1>8. ASSUME NEW f \in Fields, f # "memory", fields[f].single # ""
      PROVE  fields'[f].single = fields[f].single
  BY <1>4, <1>5, <1>8
<1>9. (\E f \in Fields : fields'[f].single = "") => \E f \in Fields : fields[f].single = ""
  <2>1. \A f \in Fields : fields'[f].single = "" => f \notin F
    BY <1>4, <1>5 DEF SingleTypes
  <2> QED  BY <2>1, <1>4
<1>10. FirstInv'
  BY <1>2, <1>9 DEF MigrationInv, FirstInv
<1>11. BatchInv' /\ MergeInv' /\ ThroughInv'
  BY <1>2, NoRecordsYet DEF MigrationInv, BatchInv
<1>12. Promised' = Promised
  BY <1>2 DEF Promised
<1>13. ControlInv'
  BY <1>1, <1>2 DEF MigrationInv, ControlInv
<1>14. /\ DOMAIN Fate' = RecordIds /\ DOMAIN Fate = RecordIds
       /\ \A id \in RecordIds : Fate'[id].data = Fate[id].data /\ Fate'[id].entry = Fate[id].entry
  BY <1>2 DEF Fate
<1>15. "item" \in Fields /\ "record" \in Fields /\ "entry" \in Fields
  BY DEF Fields
<1>16. CASE \E f \in Fields : fields[f].single = ""
  <2>1. static = was.static /\ stored = was.stored
    BY <1>16 DEF MigrationInv, FirstInv
  <2>2. StaticInv'
    BY <2>1, <1>2 DEF MigrationInv, StaticInv
  <2>3. ASSUME NEW r \in RecordIds
        PROVE  \E v, e \in Data :
                   /\ stored[r] = [data |-> v, entries |-> [k \in {1} |-> [id |-> r, data |-> e]]]
                   /\ Fate'[r].data = v /\ Fate'[r].entry = e
    <3>1. PICK v, e \in Data :
              was.stored[r] = [data |-> v, entries |-> [k \in {1} |-> [id |-> r, data |-> e]]]
      BY DEF MigrationInv, WasInv
    <3>2. was.stored[r].data = v /\ was.stored[r].entries[1].data = e
      BY <3>1
    <3>3. Fate[r].data = v /\ Fate[r].entry = e
      BY <3>2 DEF Fate
    <3> QED  BY <2>1, <3>1, <3>3, <1>14
  <2>4. ASSUME NEW r \in RecordIds
        PROVE  /\ EntriesSound(Fate', r, stored[r].data, stored[r].entries)
               /\ \A i : Once(stored[r].entries, i)
               /\ \A i : Holds(stored[r].entries, i) <=> i = r
    <3>1. PICK v, e \in Data :
                   /\ stored[r] = [data |-> v, entries |-> [k \in {1} |-> [id |-> r, data |-> e]]]
                   /\ Fate'[r].data = v /\ Fate'[r].entry = e
      BY <2>3
    <3>2. /\ stored[r].data = v /\ DOMAIN stored[r].entries = {1}
          /\ stored[r].entries[1] = [id |-> r, data |-> e]
          /\ stored[r].entries[1].id = r /\ stored[r].entries[1].data = e
          /\ stored[r].entries[1] \in Entries
      BY <3>1 DEF Entries
    <3>3. EntriesSound(Fate', r, stored[r].data, stored[r].entries)
      BY <3>1, <3>2 DEF EntriesSound, AsItWas
    <3>4. \A i : Once(stored[r].entries, i)
      BY <3>2 DEF Once
    <3>5. \A i : Holds(stored[r].entries, i) <=> i = r
      BY <3>2 DEF Holds
    <3> QED  BY <3>3, <3>4, <3>5
  <2>5. StoredInv'
    BY <2>4, <1>2 DEF MigrationInv, StoredInv
  <2>6. PlacesInv'
    <3> SUFFICES ASSUME NEW i \in Promised
               PROVE  /\ \A r \in RecordIds : Once(stored[r].entries, i)
                      /\ \A r, s \in RecordIds :
                             Holds(stored[r].entries, i) /\ Holds(stored[s].entries, i) => r = s
                      /\ \E r \in RecordIds : Holds(stored[r].entries, i)
      BY <1>2, <1>12 DEF PlacesInv
    <3>1. i \in RecordIds
      BY DEF Promised
    <3> QED  BY <3>1, <2>4
  <2> QED  BY <2>2, <2>5, <2>6, <1>6, <1>7, <1>10, <1>11, <1>13 DEF MigrationInv
<1>17. CASE \A f \in Fields : fields[f].single # ""
  <2>1. /\ fields'["item"].single = fields["item"].single
        /\ fields'["record"].single = fields["record"].single
        /\ fields'["entry"].single = fields["entry"].single
    BY <1>8, <1>15, <1>17
  <2>2. Fate' = Fate
    BY <2>1, <1>2 DEF Fate
  <2>3. StaticInv'
    BY <2>1, <1>2 DEF MigrationInv, StaticInv
  <2>4. StoredInv'
    BY <2>2, <1>2 DEF MigrationInv, StoredInv
  <2>5. PlacesInv'
    <3>1. at # "delete" /\ at' # "delete"
      BY <1>2
    <3> QED  BY <2>2, <3>1, <1>2, <1>12 DEF MigrationInv, PlacesInv
  <2> QED  BY <2>3, <2>4, <2>5, <1>6, <1>7, <1>10, <1>11, <1>13 DEF MigrationInv
<1> QED  BY <1>16, <1>17

\* Casting the items of a minion, whether they were cast before or not.
LEMMA CastItems ==
    ASSUME NEW v \in Data, NEW type \in SingleTypes, types["item"] = type,
           NEW items, items = [k \in {1} |-> v]
    PROVE  /\ cast_items(items) = BecomesStatic(items, type)
           /\ cast_items(BecomesStatic(items, type)) = BecomesStatic(items, type)
           /\ \A k \in DOMAIN BecomesStatic(items, type) : BecomesStatic(items, type)[k] \in Data
<1>1. items[1] = v /\ DOMAIN items = {1}
  OBVIOUS
<1>2. \A u \in Data : cast_data(u, "item") = Casted(u, type)
  BY Zenon DEF cast_data, Casted
<1>3. /\ Casted(v, type) \in Data /\ Casted(Casted(v, type), type) = Casted(v, type)
      /\ cast_value(v, type) = Empty <=> v = Empty
  BY CastFacts
<1>4. Empty # Invalid
  BY DEF Empty, Invalid
<1>5. CASE cast_value(v, type) = Invalid
  <2>1. Casted(v, type) = Empty /\ v # Empty
    BY <1>3, <1>4, <1>5, Zenon DEF Casted
  <2>2. BecomesStatic(items, type) = Nothing
    BY <1>1, <1>5 DEF BecomesStatic
  <2>3. cast_data(v, "item") = Empty
    BY <1>2, <2>1
  <2>4. {k \in DOMAIN items : cast_data(items[k], "item") # Empty \/ items[k] = Empty} = {}
    BY <1>1, <2>1, <2>3
  <2>5. cast_items(items) = [k \in {} |-> cast_data(items[k], "item")]
    BY <2>4, Zenon DEF cast_items
  <2>6. cast_items(items) = Nothing
    BY <2>5 DEF Nothing
  <2>7. {k \in DOMAIN Nothing : cast_data(Nothing[k], "item") # Empty \/ Nothing[k] = Empty} = {}
    BY DEF Nothing
  <2>8. cast_items(Nothing) = [k \in {} |-> cast_data(Nothing[k], "item")]
    BY <2>7, Zenon DEF cast_items
  <2>9. cast_items(Nothing) = Nothing
    BY <2>8 DEF Nothing
  <2>10. DOMAIN Nothing = {}
    BY DEF Nothing
  <2> QED  BY <2>2, <2>6, <2>9, <2>10
<1>6. CASE cast_value(v, type) # Invalid
  <2> DEFINE w == Casted(v, type)
  <2>1. w = cast_value(v, type) /\ (w = Empty <=> v = Empty)
    BY <1>3, <1>6, Zenon DEF Casted
  <2>2. BecomesStatic(items, type) = [k \in {1} |-> w]
    BY <1>1, <1>6, <2>1 DEF BecomesStatic
  <2>3. cast_data(v, "item") = w /\ cast_data(w, "item") = w
    BY <1>2, <1>3
  <2>4. ASSUME NEW u \in Data, cast_data(u, "item") = w, w = Empty => u = Empty,
               NEW s, s = [k \in {1} |-> u]
        PROVE  cast_items(s) = [k \in {1} |-> w]
    <3>1. DOMAIN s = {1} /\ s[1] = u
      BY <2>4
    <3> HIDE DEF w
    <3>2. {k \in DOMAIN s : cast_data(s[k], "item") # Empty \/ s[k] = Empty} = {1}
      BY <2>4, <3>1
    <3>3. cast_items(s) = [k \in {1} |-> cast_data(s[k], "item")]
      BY <3>2, Zenon DEF cast_items
    <3> QED  BY <3>3, <3>1, <2>4
  <2>5. cast_items(items) = [k \in {1} |-> w]
    BY <2>1, <2>3, <2>4
  <2>6. cast_items([k \in {1} |-> w]) = [k \in {1} |-> w]
    BY <2>3, <2>4, <1>3
  <2> QED  BY <2>2, <2>5, <2>6, <1>3
<1> QED  BY <1>5, <1>6

\* What the invariant says of a minion's items, and of casting them once more.
LEMMA ItemsFacts ==
    ASSUME MigrationInv, at # "fields", NEW m \in MinionDocs
    PROVE  /\ cast_items(static[m]) = BecomesStatic(was.static[m], fields["item"].single)
           /\ \A k \in DOMAIN BecomesStatic(was.static[m], fields["item"].single) :
                  BecomesStatic(was.static[m], fields["item"].single)[k] \in Data
<1>1. PICK v \in Data : was.static[m] = [k \in {1} |-> v]
  BY DEF MigrationInv, WasInv
<1>2. fields["item"].single \in SingleTypes /\ types["item"] = fields["item"].single
  BY AllTyped DEF MigrationInv, Fields
<1>3. PICK items : items = was.static[m]
  OBVIOUS
<1>4. PICK type : type = fields["item"].single
  OBVIOUS
<1>5. /\ cast_items(items) = BecomesStatic(items, type)
      /\ cast_items(BecomesStatic(items, type)) = BecomesStatic(items, type)
      /\ \A k \in DOMAIN BecomesStatic(items, type) : BecomesStatic(items, type)[k] \in Data
  BY <1>1, <1>2, <1>3, <1>4, CastItems
<1>6. static[m] = items \/ static[m] = BecomesStatic(items, type)
  BY <1>3, <1>4 DEF MigrationInv, StaticInv
<1> QED  BY <1>3, <1>4, <1>5, <1>6

\* CastMinion: a minion's items become what they are to be, also if cast before.
LEMMA CastMinionStep ==
    ASSUME MigrationInv, MigrationAssumption, NEW m \in MinionDocs, CastMinion(m)
    PROVE  MigrationInv'
<1>1. /\ at = "static" /\ at' = "static"
      /\ static' = [static EXCEPT ![m] = cast_items(@)]
      /\ UNCHANGED <<fields, minion_fields, stored, was, types, batch, seen, merge,
                     doubled, overwritten, stops>>
  BY DEF CastMinion
<1>2. \A f \in Fields : fields[f].single # ""
  BY <1>1, AllTyped DEF MigrationInv, SingleTypes
<1>3. ControlInv' /\ FieldsInv' /\ WasInv'
  <2>1. UNCHANGED <<minion_fields, at, seen, doubled, overwritten, stops>> => ControlInv'
    BY DEF MigrationInv, ControlInv
  <2>2. UNCHANGED <<fields, minion_fields, types, at>> => FieldsInv'
    BY DEF MigrationInv, FieldsInv
  <2>3. was' = was => WasInv'
    BY DEF MigrationInv, WasInv
  <2>4. was' = was
    BY DEF CastMinion
  <2> QED  BY <1>1, <2>1, <2>2, <2>3, <2>4
<1>4. FirstInv'
  BY <1>1, <1>2 DEF FirstInv
<1>5. Fate' = Fate /\ Promised' = Promised
  BY <1>1 DEF Fate, Promised
<1>6. StoredInv'
  BY <1>1, <1>5 DEF MigrationInv, StoredInv
<1>7. BatchInv' /\ MergeInv' /\ ThroughInv'
  BY <1>1, NoRecordsYet DEF MigrationInv, BatchInv
<1>8. PlacesInv'
  BY <1>1, <1>5 DEF MigrationInv, PlacesInv
<1>9. StaticInv'
  <2>1. static = [n \in MinionDocs |-> static[n]]
    BY DEF MigrationInv, StaticInv
  <2>2. /\ static' = [n \in MinionDocs |-> static'[n]]
        /\ static'[m] = cast_items(static[m])
        /\ \A n \in MinionDocs \ {m} : static'[n] = static[n]
    BY <1>1, <2>1
  <2>3. cast_items(static[m]) = BecomesStatic(was.static[m], fields["item"].single)
    BY <1>1, ItemsFacts
  <2>4. ASSUME NEW n \in MinionDocs
        PROVE  static'[n] \in {was.static[n], BecomesStatic(was.static[n], fields["item"].single)}
    BY <2>2, <2>3 DEF MigrationInv, StaticInv
  <2> QED  BY <1>1, <2>2, <2>4 DEF StaticInv
<1> QED  BY <1>3, <1>4, <1>6, <1>7, <1>8, <1>9 DEF MigrationInv

\* EndStatic: each minion's items are what they are to be before records are begun.
LEMMA EndStaticStep ==
    ASSUME MigrationInv, MigrationAssumption, EndStatic
    PROVE  MigrationInv'
<1>1. /\ at = "static" /\ at' = "records" /\ batch' = {} /\ seen' = 0
      /\ UNCHANGED <<fields, minion_fields, static, stored, was, types, merge,
                     doubled, overwritten, stops>>
      /\ \A m \in MinionDocs : static[m] = cast_items(static[m])
  BY DEF EndStatic, documents
<1>2. \A f \in Fields : fields[f].single # ""
  BY <1>1, AllTyped DEF MigrationInv, SingleTypes
<1>3. ControlInv' /\ WasInv'
  BY <1>1 DEF MigrationInv, ControlInv, WasInv
<1>4. FieldsInv'
  BY <1>1 DEF MigrationInv, FieldsInv
<1>5. FirstInv'
  BY <1>1, <1>2 DEF FirstInv
<1>6. Fate' = Fate /\ Promised' = Promised
  BY <1>1 DEF Fate, Promised
<1>7. StoredInv'
  BY <1>1, <1>6 DEF MigrationInv, StoredInv
<1>8. BatchInv' /\ MergeInv'
  BY <1>1 DEF BatchInv, MergeInv
<1>9. ThroughInv'
  <2>1. \A r \in RecordIds : ~Through(r)'
    BY <1>1 DEF Through, MigrationAssumption
  <2> QED  BY <2>1 DEF ThroughInv
<1>10. PlacesInv'
  BY <1>1, <1>6 DEF MigrationInv, PlacesInv
<1>11. StaticInv'
  <2>1. \A m \in MinionDocs : static[m] = BecomesStatic(was.static[m], fields["item"].single)
    BY <1>1, ItemsFacts
  <2> QED  BY <1>1, <2>1 DEF MigrationInv, StaticInv
<1> QED  BY <1>3, <1>4, <1>5, <1>7, <1>8, <1>9, <1>10, <1>11 DEF MigrationInv

\* A field that has not been migrated.
LEMMA LegacyField ==
    ASSUME NEW T, NEW f, f = [types |-> T, single |-> "", of_minion |-> FALSE]
    PROVE  f.single = "" /\ f.types = T
OBVIOUS

\* The documents as the releases before the migration left them satisfy the invariant.
LEMMA MigrationInitInv ==
    ASSUME MigrationInit, MigrationAssumption
    PROVE  MigrationInv
<1>1. /\ fields \in [Fields -> {[types |-> T, single |-> "", of_minion |-> FALSE] :
                              T \in LegacyTypes}]
      /\ minion_fields = MinionFields
      /\ at = "fields" /\ types = Nothing /\ batch = {} /\ seen = 0 /\ merge = NoMerge
      /\ was = [static |-> static, stored |-> stored]
      /\ doubled = {} /\ overwritten = {} /\ stops = 0
  BY DEF MigrationInit
<1>2. PICK v \in ValuesOf("item") : static = [m \in MinionDocs |-> [k \in {1} |-> v]]
  BY DEF MigrationInit
<1>3. PICK data \in [RecordIds -> ValuesOf("record")], entry \in [RecordIds -> ValuesOf("entry")] :
          stored = [r \in RecordIds |->
                       [data |-> data[r], entries |-> [k \in {1} |-> [id |-> r, data |-> entry[r]]]]]
  BY DEF MigrationInit
<1>4. \A f : ValuesOf(f) \subseteq Data
  BY DEF ValuesOf, Data
<1>5. was.static = static /\ was.stored = stored
  BY <1>1
<1>6. ASSUME NEW f \in Fields
      PROVE  fields[f].single = "" /\ fields[f].types \in LegacyTypes
  <2>1. fields[f] \in {[types |-> T, single |-> "", of_minion |-> FALSE] : T \in LegacyTypes}
    BY <1>1
  <2>2. PICK T \in LegacyTypes : fields[f] = [types |-> T, single |-> "", of_minion |-> FALSE]
    BY <2>1
  <2> QED  BY <2>2, LegacyField
<1>7. ControlInv
  <2>1. stops \in 0..MaxStops
    <3>1. stops = 0
      BY <1>1, Zenon
    <3> QED  BY <3>1 DEF MigrationAssumption
  <2>2. minion_fields \subseteq Fields
    BY <1>1 DEF MinionFields, Fields
  <2> QED  BY <1>1, <2>1, <2>2, Zenon DEF ControlInv
<1>8. FieldsInv
  <2>1. DOMAIN types = {}
    BY <1>1 DEF Nothing
  <2> QED  BY <1>1, <1>6, <2>1 DEF FieldsInv
<1>9. ASSUME NEW r \in RecordIds
      PROVE  \E d, e \in Data :
                 stored[r] = [data |-> d, entries |-> [k \in {1} |-> [id |-> r, data |-> e]]]
  <2>1. data[r] \in Data /\ entry[r] \in Data
    BY <1>4
  <2>2. stored[r] = [data |-> data[r], entries |-> [k \in {1} |-> [id |-> r, data |-> entry[r]]]]
    BY <1>3
  <2> QED  BY <2>1, <2>2
<1>10. ASSUME NEW m \in MinionDocs PROVE \E d \in Data : static[m] = [k \in {1} |-> d]
  BY <1>2, <1>4
<1>11. WasInv
  BY <1>5, <1>9, <1>10 DEF WasInv
<1>12. FirstInv
  BY <1>5 DEF FirstInv
<1>13. StaticInv
  <2>1. static = [m \in MinionDocs |-> static[m]]
    BY <1>2
  <2> QED  BY <1>1, <1>5, <2>1 DEF StaticInv
<1>14. ASSUME NEW r \in RecordIds
       PROVE  /\ stored[r] = [data |-> stored[r].data, entries |-> stored[r].entries]
              /\ stored[r].data \in Data
              /\ EntriesSound(Fate, r, stored[r].data, stored[r].entries)
              /\ \A i : Once(stored[r].entries, i)
              /\ \A i : Holds(stored[r].entries, i) <=> i = r
  <2>1. PICK d, e \in Data :
            stored[r] = [data |-> d, entries |-> [k \in {1} |-> [id |-> r, data |-> e]]]
    BY <1>9
  <2>2. /\ stored[r].data = d /\ DOMAIN stored[r].entries = {1}
        /\ stored[r].entries[1] = [id |-> r, data |-> e]
        /\ stored[r].entries[1].id = r /\ stored[r].entries[1].data = e
        /\ stored[r].entries[1] \in Entries
    BY <2>1 DEF Entries
  <2>3. Fate[r].data = d /\ Fate[r].entry = e
    BY <1>5, <2>2 DEF Fate
  <2>4. EntriesSound(Fate, r, stored[r].data, stored[r].entries)
    BY <2>2, <2>3 DEF EntriesSound, AsItWas
  <2>5. \A i : Once(stored[r].entries, i)
    BY <2>2 DEF Once
  <2>6. \A i : Holds(stored[r].entries, i) <=> i = r
    BY <2>2 DEF Holds
  <2>7. stored[r] = [data |-> stored[r].data, entries |-> stored[r].entries]
    BY <2>1
  <2> QED  BY <2>2, <2>4, <2>5, <2>6, <2>7
<1>15. StoredInv
  <2>1. stored = [r \in RecordIds |-> stored[r]]
    BY <1>3
  <2> QED  BY <2>1, <1>14 DEF StoredInv
<1>16. BatchInv /\ MergeInv /\ ThroughInv
  BY <1>1 DEF BatchInv, MergeInv, ThroughInv, Through
<1>17. PlacesInv
  <2> SUFFICES ASSUME NEW i \in RecordIds
               PROVE  /\ \A r \in RecordIds : Once(stored[r].entries, i)
                      /\ \A r, s \in RecordIds :
                             Holds(stored[r].entries, i) /\ Holds(stored[s].entries, i) => r = s
                      /\ \E r \in RecordIds : Holds(stored[r].entries, i)
    BY <1>1 DEF PlacesInv, Promised
  <2> QED  BY <1>14
<1> QED  BY <1>7, <1>8, <1>11, <1>12, <1>13, <1>15, <1>16, <1>17 DEF MigrationInv

\* Every step of the migration, and every step that leaves it alone, keeps the invariant.
LEMMA MigrationStep ==
    ASSUME MigrationInv, MigrationAssumption, [MigrationNext]_migrationVars
    PROVE  MigrationInv'
<1>1. CASE MigrateCategory
  BY <1>1, MigrateCategoryStep
<1>2. CASE \E m \in MinionDocs : CastMinion(m)
  BY <1>2, CastMinionStep
<1>3. CASE EndStatic
  BY <1>3, EndStaticStep
<1>4. CASE \E n \in FetchSizes : FetchRecords(n)
  BY <1>4, FetchStep
<1>5. CASE CastRecord
  BY <1>5, CastRecordStep
<1>6. CASE PushEntries
  BY <1>6, PushStep
<1>7. CASE DeleteMerged
  BY <1>7, DeleteStep
<1>8. CASE EndRecords
  BY <1>8, EndRecordsStep
<1>9. CASE StopMigration
  BY <1>9, StopStep
<1>10. CASE UNCHANGED migrationVars
  <2>1. Fate' = Fate /\ Promised' = Promised
    BY <1>10 DEF Fate, Promised, migrationVars
  <2>2. ControlInv' /\ FieldsInv' /\ WasInv' /\ FirstInv' /\ StaticInv'
    <3>1. UNCHANGED <<minion_fields, at, seen, doubled, overwritten, stops>> => ControlInv'
      BY DEF MigrationInv, ControlInv
    <3>2. UNCHANGED <<fields, minion_fields, types, at>> => FieldsInv'
      BY DEF MigrationInv, FieldsInv
    <3>3. UNCHANGED was => WasInv'
      BY DEF MigrationInv, WasInv
    <3>4. UNCHANGED <<was, fields, static, stored>> => FirstInv'
      BY DEF MigrationInv, FirstInv
    <3>5. UNCHANGED <<was, fields, static, at>> => StaticInv'
      BY DEF MigrationInv, StaticInv
    <3> QED  BY <1>10, <3>1, <3>2, <3>3, <3>4, <3>5 DEF migrationVars
  <2>3. StoredInv' /\ MergeInv' /\ PlacesInv'
    BY <1>10, <2>1 DEF MigrationInv, StoredInv, MergeInv, PlacesInv, migrationVars
  <2>4. BatchInv'
    <3>1. ASSUME NEW c \in batch' PROVE CopyInv(c)'
      <4>1. CopyInv(c)
        BY <1>10 DEF MigrationInv, BatchInv, migrationVars
      <4> QED  BY <4>1, <1>10, <2>1 DEF CopyInv, migrationVars
    <3> QED  BY <3>1, <1>10 DEF MigrationInv, BatchInv, migrationVars
  <2>5. ThroughInv'
    <3>1. \A r \in RecordIds : Through(r)' => Through(r)
      BY <1>10 DEF Through, migrationVars
    <3> QED  BY <3>1, <2>1, <1>10 DEF MigrationInv, ThroughInv, migrationVars
  <2> QED  BY <2>2, <2>3, <2>4, <2>5 DEF MigrationInv
<1> QED  BY <1>1, <1>2, <1>3, <1>4, <1>5, <1>6, <1>7, <1>8, <1>9, <1>10 DEF MigrationNext

\* Every variable of the migration keeps its type.
THEOREM MigrationTypeCorrect == MigrationSpec => []MigrationTypeOK
<1>1. MigrationInv => MigrationTypeOK
  <2> SUFFICES ASSUME MigrationInv PROVE MigrationTypeOK
    OBVIOUS
  <2>1. ASSUME NEW m \in MinionDocs, NEW k \in DOMAIN static[m]
        PROVE  static[m][k] \in Values \cup {Empty}
    <3>1. PICK v \in Data : was.static[m] = [j \in {1} |-> v]
      BY DEF MigrationInv, WasInv
    <3>2. CASE static[m] = was.static[m]
      BY <2>1, <3>1, <3>2 DEF Data
    <3>3. CASE static[m] # was.static[m]
      <4>1. \A f \in Fields : fields[f].single # ""
        BY <3>3 DEF MigrationInv, FirstInv
      <4>2. fields["item"].single \in SingleTypes
        BY <4>1 DEF MigrationInv, FieldsInv, Fields
      <4>3. static[m] = BecomesStatic(was.static[m], fields["item"].single)
        BY <3>3 DEF MigrationInv, StaticInv
      <4>4. CASE cast_value(v, fields["item"].single) = Invalid
        BY <2>1, <3>1, <4>3, <4>4 DEF BecomesStatic, Nothing
      <4>5. CASE cast_value(v, fields["item"].single) # Invalid
        <5>1. Casted(v, fields["item"].single) = cast_value(v, fields["item"].single)
          BY <4>5, Zenon DEF Casted
        <5>2. Casted(v, fields["item"].single) \in Data
          BY <4>2, CastFacts
        <5> QED  BY <2>1, <3>1, <4>3, <4>5, <5>1, <5>2 DEF BecomesStatic, Data
      <4> QED  BY <4>4, <4>5
    <3> QED  BY <3>2, <3>3
  <2>2. ASSUME NEW r \in RecordIds, NEW k \in DOMAIN stored[r].entries
        PROVE  stored[r].entries[k].id \in RecordIds
    BY <2>2 DEF MigrationInv, StoredInv, EntriesSound, Entries
  <2> QED  BY <2>1, <2>2 DEF MigrationInv, ControlInv, FieldsInv, MigrationTypeOK
<1>2. MigrationInit => MigrationInv
  BY MigrationInitInv, MigrationAssumption
<1>3. MigrationInv /\ [MigrationNext]_migrationVars => MigrationInv'
  BY MigrationStep, MigrationAssumption
<1> QED  BY <1>1, <1>2, <1>3, PTL DEF MigrationSpec

\* When the migration has ended, however often it was started, entries of which
\* something can be cast are there once, and nothing else is, but for those of a
\* record that was merged and not deleted, or merged into one already fetched.
THEOREM MigrationKeepsEntries == MigrationSpec => []EntriesKept
<1>1. MigrationInv => EntriesKept
  <2> SUFFICES ASSUME MigrationInv, at = "done" PROVE EntriesKept
    BY DEF EntriesKept
  <2> DEFINE d == fields["record"].single
             t == fields["entry"].single
  <2>1. /\ d \in SingleTypes /\ types["record"] = d
        /\ t \in SingleTypes /\ types["entry"] = t
        /\ fields["item"].single \in SingleTypes /\ types["item"] = fields["item"].single
    BY AllTyped DEF MigrationInv, Fields
  <2>2. \A r \in RecordIds : Become(Fate, stored[r].data, stored[r].entries)
    BY DEF MigrationInv, ThroughInv, Through
  <2>3. ASSUME NEW r \in RecordIds
        PROVE  /\ Fate[r].data \in Data /\ Fate[r].entry \in Data
               /\ Fate[r].castData = Casted(Fate[r].data, d)
               /\ Fate[r].castEntry = Casted(Fate[r].entry, t)
               /\ Fate[r].data = was.stored[r].data
               /\ Fate[r].entry = was.stored[r].entries[1].data
    <3>1. Fate[r].data = was.stored[r].data /\ Fate[r].entry = was.stored[r].entries[1].data
      BY DEF Fate
    <3> QED  BY <2>1, <3>1, FateFacts DEF MigrationInv
  <2>4. ASSUME NEW r \in RecordIds \ (doubled \cup overwritten)
        PROVE  Copies(r) = IF CanBeKept(was.stored[r].data, was.stored[r].entries[1].data)
                           THEN 1 ELSE 0
    <3> DEFINE X == {x \in Places : stored[x[1]].entries[x[2]].id = r}
    <3>1. /\ \A q \in RecordIds : Once(stored[q].entries, r)
          /\ \A p, q \in RecordIds :
                 Holds(stored[p].entries, r) /\ Holds(stored[q].entries, r) => p = q
          /\ Kept(Fate, r) => \E q \in RecordIds : Holds(stored[q].entries, r)
      BY DEF MigrationInv, PlacesInv, Promised
    <3>2. CanBeKept(was.stored[r].data, was.stored[r].entries[1].data) <=> Kept(Fate, r)
      <4>1. ASSUME NEW v \in Data, NEW type \in SingleTypes
            PROVE  cast_value(v, type) \notin {Empty, Invalid} <=> Casted(v, type) # Empty
        <5>1. Empty # Invalid
          BY DEF Empty, Invalid
        <5> QED  BY <5>1 DEF Casted
      <4>2. /\ cast_value(Fate[r].data, d) \notin {Empty, Invalid} <=> Fate[r].castData # Empty
            /\ cast_value(Fate[r].entry, t) \notin {Empty, Invalid} <=> Fate[r].castEntry # Empty
        BY <2>1, <2>3, <4>1
      <4> HIDE DEF d, t
      <4> QED  BY <2>1, <2>3, <4>2 DEF CanBeKept, Kept
    <3>3. \A x \in Places : \E q \in RecordIds : \E k \in DOMAIN stored[q].entries : x = <<q, k>>
      BY DEF Places
    <3>4. \A q \in RecordIds : \A k \in DOMAIN stored[q].entries : <<q, k>> \in Places
      BY DEF Places
    <3>5. CASE Kept(Fate, r)
      <4>1. PICK q \in RecordIds : Holds(stored[q].entries, r)
        BY <3>1, <3>5
      <4>2. PICK k \in DOMAIN stored[q].entries : stored[q].entries[k].id = r
        BY <4>1 DEF Holds
      <4>3. <<q, k>> \in X
        BY <3>4, <4>2
      <4>4. ASSUME NEW x \in X PROVE x = <<q, k>>
        <5>1. PICK p \in RecordIds : \E l \in DOMAIN stored[p].entries : x = <<p, l>>
          BY <3>3
        <5>2. PICK l \in DOMAIN stored[p].entries : x = <<p, l>>
          BY <5>1
        <5>3. stored[p].entries[l].id = r
          BY <5>2
        <5>4. p = q
          BY <3>1, <4>1, <5>3 DEF Holds
        <5>5. l = k
          BY <3>1, <4>2, <5>3, <5>4 DEF Once
        <5> QED  BY <5>2, <5>4, <5>5
      <4>5. X = {<<q, k>>}
        BY <4>3, <4>4
      <4>6. Cardinality(X) = 1
        BY <4>5, FS_Singleton
      <4> QED  BY <4>6, <3>2, <3>5 DEF Copies
    <3>6. CASE ~Kept(Fate, r)
      <4>1. ASSUME NEW x \in X PROVE FALSE
        <5>1. PICK p \in RecordIds : \E l \in DOMAIN stored[p].entries : x = <<p, l>>
          BY <3>3
        <5>2. PICK l \in DOMAIN stored[p].entries : x = <<p, l>>
          BY <5>1
        <5>3. stored[p].entries[l].id = r
          BY <5>2
        <5> QED  BY <2>2, <3>6, <5>3 DEF Become, AsItBecomes
      <4>2. X = {}
        BY <4>1
      <4>3. Cardinality(X) = 0
        BY <4>2, FS_EmptySet
      <4> QED  BY <4>3, <3>2, <3>6 DEF Copies
    <3> QED  BY <3>5, <3>6
  <2>5. ASSUME NEW r \in RecordIds, IsThere(r)
        PROVE  /\ Typed(stored[r].data, "record")
               /\ \A k \in DOMAIN stored[r].entries : Typed(stored[r].entries[k].data, "entry")
    <3>1. ASSUME NEW k \in DOMAIN stored[r].entries
          PROVE  Typed(stored[r].data, "record") /\ Typed(stored[r].entries[k].data, "entry")
      <4>1. PICK i \in RecordIds : i = stored[r].entries[k].id
        BY <2>2 DEF Become, Entries
      <4>2. stored[r].data = Fate[i].castData /\ stored[r].entries[k].data = Fate[i].castEntry
        BY <2>2, <4>1 DEF Become, AsItBecomes
      <4>3. /\ Casted(Fate[i].data, d) = Empty \/ Casted(Fate[i].data, d)[1] = d
            /\ Casted(Fate[i].entry, t) = Empty \/ Casted(Fate[i].entry, t)[1] = t
        BY <2>1, <2>3, CastFacts
      <4> HIDE DEF d, t
      <4> QED  BY <2>1, <2>3, <4>2, <4>3 DEF Typed
    <3> QED  BY <3>1, <2>5 DEF IsThere
  <2>6. ASSUME NEW m \in MinionDocs
        PROVE  LET v == was.static[m][1]
                   cast == cast_value(v, types["item"])
               IN  static[m] = IF cast = Invalid THEN Nothing ELSE [k \in {1} |-> cast]
    <3>1. static[m] = BecomesStatic(was.static[m], fields["item"].single)
      BY DEF MigrationInv, StaticInv
    <3> QED  BY <2>1, <3>1, Zenon DEF BecomesStatic
  <2>7. ASSUME NEW f \in Fields
        PROVE  fields[f].single \in {"str", "int"} /\ fields[f].of_minion = (f \in MinionFields)
    <3>1. fields[f].single \in SingleTypes
      BY AllTyped DEF MigrationInv
    <3>2. fields[f].single # ""
      BY <3>1 DEF SingleTypes
    <3>3. fields[f].single # "" => (fields[f].of_minion = (f \in MinionFields))
      BY Zenon DEF MigrationInv, FieldsInv
    <3> QED  BY <3>1, <3>2, <3>3, Zenon DEF SingleTypes
  <2> HIDE DEF d, t
  <2> QED  BY <2>4, <2>5, <2>6, <2>7, Zenon DEF EntriesKept
<1>2. MigrationInit => MigrationInv
  BY MigrationInitInv, MigrationAssumption
<1>3. MigrationInv /\ [MigrationNext]_migrationVars => MigrationInv'
  BY MigrationStep, MigrationAssumption
<1> QED  BY <1>1, <1>2, <1>3, PTL DEF MigrationSpec
-----------------------------------------------------------------------------
(* Rows: what sorting and selecting make of sequences and sets.             *)

\* s holds each element of S once, and nothing else.
Lists(s, S) ==
    /\ s \in Seq(S)
    /\ \A x \in S : \E i \in DOMAIN s : s[i] = x
    /\ \A i, k \in DOMAIN s : s[i] = s[k] => i = k

\* R puts all of S in order.
StrictOrder(S, R) ==
    /\ \A a, b \in S : <<a, b>> \in R => <<b, a>> \notin R
    /\ \A a, b, c \in S : <<a, b>> \in R /\ <<b, c>> \in R => <<a, c>> \in R
    /\ \A a, b \in S : a # b => <<a, b>> \in R \/ <<b, a>> \in R

\* By a strict order of all its elements a finite set is put in a row: no two have
\* as many before them, so every number below their count is taken.
LEMMA RankedIs ==
    ASSUME NEW S, NEW R, IsFiniteSet(S), StrictOrder(S, R)
    PROVE  /\ Lists(Ranked(S, R), S) /\ Len(Ranked(S, R)) = Cardinality(S)
           /\ \A i, k \in DOMAIN Ranked(S, R) : i < k => <<Ranked(S, R)[i], Ranked(S, R)[k]>> \in R
<1> DEFINE n == Cardinality(S)
           before(x) == {y \in S : <<y, x>> \in R}
           rank == [x \in S |-> Cardinality(before(x))]
           r == [i \in 1..n |-> CHOOSE x \in S : Cardinality(before(x)) = i - 1]
<1>1. n \in Nat
  BY FS_CardinalityType
<1>2. ASSUME NEW x \in S PROVE Cardinality(before(x)) \in 0..(n - 1)
  <2>1. before(x) \in SUBSET S /\ x \notin before(x)
    BY DEF StrictOrder
  <2>2. before(x) # S
    BY <2>1
  <2> HIDE DEF before
  <2>3. IsFiniteSet(before(x)) /\ Cardinality(before(x)) <= n /\ Cardinality(before(x)) # n
    BY <2>1, <2>2, FS_Subset
  <2>4. Cardinality(before(x)) \in Nat
    BY <2>3, FS_CardinalityType
  <2> QED  BY <1>1, <2>3, <2>4
<1>3. ASSUME NEW x \in S, NEW y \in S, <<x, y>> \in R
      PROVE  Cardinality(before(x)) < Cardinality(before(y))
  <2>1. before(x) \in SUBSET before(y) /\ x \in before(y) /\ x \notin before(x)
    BY <1>3 DEF StrictOrder
  <2>2. before(y) \in SUBSET S
    OBVIOUS
  <2> HIDE DEF before
  <2>3. IsFiniteSet(before(y))
    BY <2>2, FS_Subset
  <2>4. Cardinality(before(x)) <= Cardinality(before(y))
        /\ Cardinality(before(x)) # Cardinality(before(y))
    BY <2>1, <2>3, FS_Subset
  <2>5. Cardinality(before(x)) \in Nat /\ Cardinality(before(y)) \in Nat
    BY <1>1, <1>2
  <2> QED  BY <2>4, <2>5
<1>4. rank \in Injection(S, 0..(n - 1))
  <2>1. rank \in [S -> 0..(n - 1)]
    BY <1>2
  <2>2. ASSUME NEW x \in S, NEW y \in S, rank[x] = rank[y] PROVE x = y
    <3>1. Cardinality(before(x)) = Cardinality(before(y))
      BY <2>2
    <3>2. Cardinality(before(x)) \in Int /\ Cardinality(before(y)) \in Int
      BY <1>1, <1>2
    <3> HIDE DEF before, rank
    <3>3. ~(<<x, y>> \in R) /\ ~(<<y, x>> \in R)
      BY <1>3, <3>1, <3>2
    <3> QED  BY <3>3 DEF StrictOrder
  <2> HIDE DEF rank, n
  <2> QED  BY <2>1, <2>2 DEF Injection, IsInjective
<1>5. rank \in Surjection(S, 0..(n - 1))
  <2>1. IsFiniteSet(0..(n - 1)) /\ Cardinality(0..(n - 1)) = n
    <3>1. 0 \in Int /\ n - 1 \in Int
      BY <1>1
    <3>2. /\ IsFiniteSet(0..(n - 1))
          /\ Cardinality(0..(n - 1)) = IF 0 > n - 1 THEN 0 ELSE (n - 1) - 0 + 1
      <4> HIDE DEF n
      <4> QED  BY <3>1, FS_Interval
    <3> QED  BY <1>1, <3>2
  <2> HIDE DEF rank
  <2> QED  BY <1>4, <2>1, FS_Injection
<1>6. r = [i \in 1..n |-> CHOOSE x \in S : Cardinality(before(x)) = i - 1]
  OBVIOUS
<1>7. ASSUME NEW i \in 1..n PROVE r[i] \in S /\ Cardinality(before(r[i])) = i - 1
  <2>1. i - 1 \in 0..(n - 1)
    BY <1>1
  <2>2. PICK x \in S : rank[x] = i - 1
    <3> HIDE DEF rank, n
    <3> QED  BY <1>5, <2>1 DEF Surjection
  <2>3. Cardinality(before(x)) = i - 1
    BY <2>2
  <2>4. r[i] = CHOOSE z \in S : Cardinality(before(z)) = i - 1
    <3> HIDE DEF before, n, r
    <3> QED  BY <1>6, Zenon
  <2> HIDE DEF before, n, r, rank
  <2> QED  BY <2>3, <2>4, Zenon
<1>8. DOMAIN r = 1..n
  <2> HIDE DEF before, n, r
  <2> QED  BY <1>6
<1>9. r \in Seq(S) /\ Len(r) = n
  <2>1. r \in [1..n -> S]
    <3> HIDE DEF before, n, r
    <3>1. r = [i \in 1..n |-> r[i]]
      BY <1>6
    <3> QED  BY <1>7, <3>1
  <2> HIDE DEF n, r
  <2> QED  BY <1>1, <2>1
<1>10. ASSUME NEW x \in S PROVE \E i \in 1..n : r[i] = x
  <2>1. PICK i : i = Cardinality(before(x)) + 1
    OBVIOUS
  <2>2. i \in 1..n /\ i - 1 = Cardinality(before(x))
    <3> HIDE DEF before, n
    <3> QED  BY <1>1, <1>2, <2>1
  <2>3. r[i] \in S /\ Cardinality(before(r[i])) = Cardinality(before(x))
    BY <1>7, <2>2
  <2>4. rank[r[i]] = rank[x]
    BY <2>3
  <2>5. r[i] = x
    <3> HIDE DEF rank, n, r, before
    <3> QED  BY <1>4, <2>3, <2>4 DEF Injection, IsInjective
  <2> QED  BY <2>2, <2>5
<1>11. ASSUME NEW i \in 1..n, NEW k \in 1..n, i < k PROVE <<r[i], r[k]>> \in R
  <2>1. r[i] \in S /\ r[k] \in S /\ Cardinality(before(r[i])) = i - 1
        /\ Cardinality(before(r[k])) = k - 1
    BY <1>7
  <2>2. i - 1 < k - 1 /\ i \in Int /\ k \in Int /\ ~(k - 1 < i - 1) /\ i - 1 # k - 1
    BY <1>1, <1>11
  <2> HIDE DEF before, n, r, rank
  <2>3. ~(<<r[k], r[i]>> \in R)
    BY <1>3, <2>1, <2>2
  <2>4. r[i] # r[k]
    BY <2>1, <2>2
  <2> QED  BY <2>1, <2>3, <2>4 DEF StrictOrder
<1>12. ASSUME NEW i \in 1..n, NEW k \in 1..n, r[i] = r[k] PROVE i = k
  <2> HIDE DEF before, n, r, rank
  <2>1. i - 1 = k - 1 /\ i \in Int /\ k \in Int
    BY <1>1, <1>7, <1>12
  <2> QED  BY <2>1
<1>13. Ranked(S, R) = r
  <2>1. Ranked(S, R) = r \o <<>>
    BY DEF Ranked
  <2> HIDE DEF n, r, before, rank
  <2> QED  BY <1>9, <2>1
<1> HIDE DEF n, r, before, rank
<1>14. Lists(r, S)
  BY <1>8, <1>9, <1>10, <1>12 DEF Lists
<1>15. \A i, k \in DOMAIN r : i < k => <<r[i], r[k]>> \in R
  BY <1>8, <1>11
<1> QED  BY <1>9, <1>13, <1>14, <1>15 DEF n

\* A row of places makes a row of what stands there.
LEMMA PlacesIs ==
    ASSUME NEW s, NEW S, Lists(s, S), NEW I \in SUBSET (DOMAIN s), NEW places, Lists(places, I),
           NEW T, T = {s[i] : i \in I}, NEW q, q = [i \in DOMAIN places |-> s[places[i]]]
    PROVE  Lists(q, T)
<1>1. places \in Seq(I) /\ DOMAIN q = DOMAIN places /\ DOMAIN places = 1..Len(places) /\ Len(places) \in Nat
  BY DEF Lists
<1>2. \A i \in DOMAIN places : places[i] \in I /\ q[i] = s[places[i]]
  BY <1>1
<1>3. q \in Seq(T)
  <2>1. \A i \in 1..Len(places) : q[i] \in T
    BY <1>1, <1>2
  <2>2. q \in [1..Len(places) -> T]
    BY <1>1, <2>1
  <2> QED  BY <1>1, <2>2
<1>4. ASSUME NEW x \in T PROVE \E i \in DOMAIN q : q[i] = x
  <2>1. PICK k \in I : x = s[k]
    OBVIOUS
  <2>2. PICK i \in DOMAIN places : places[i] = k
    BY DEF Lists
  <2> QED  BY <1>1, <1>2, <2>1, <2>2
<1>5. ASSUME NEW i \in DOMAIN q, NEW k \in DOMAIN q, q[i] = q[k] PROVE i = k
  <2>1. s[places[i]] = s[places[k]] /\ places[i] \in DOMAIN s /\ places[k] \in DOMAIN s
    BY <1>1, <1>2, <1>5
  <2>2. places[i] = places[k]
    BY <2>1 DEF Lists
  <2> QED  BY <1>1, <2>2 DEF Lists
<1> QED  BY <1>3, <1>4, <1>5 DEF Lists

\* What is selected of a row is a row of what is asked for.
LEMMA ThoseIs ==
    ASSUME NEW s, NEW S, Lists(s, S), NEW T
    PROVE  Lists(Those(s, T), S \cap T)
<1> DEFINE I == {i \in DOMAIN s : s[i] \in T}
           R == {x \in (DOMAIN s) \X (DOMAIN s) : x[1] < x[2]}
           places == Ranked(I, R)
<1>1. DOMAIN s = 1..Len(s) /\ Len(s) \in Nat /\ s \in Seq(S)
  BY DEF Lists
<1>2. IsFiniteSet(I)
  <2>1. IsFiniteSet(1..Len(s)) /\ I \in SUBSET (1..Len(s))
    BY <1>1, FS_Interval
  <2> HIDE DEF I
  <2> QED  BY <2>1, FS_Subset
<1>3. StrictOrder(I, R)
  <2>1. ASSUME NEW a \in I, NEW b \in I PROVE <<a, b>> \in R <=> a < b
    OBVIOUS
  <2>2. \A a \in I : a \in Int
    BY <1>1
  <2> HIDE DEF I, R
  <2> QED  BY <2>1, <2>2 DEF StrictOrder
<1>4. Lists(places, I)
  <2> HIDE DEF I, R
  <2> QED  BY <1>2, <1>3, RankedIs
<1>5. Those(s, T) = [i \in DOMAIN places |-> s[places[i]]]
  BY DEF Those
<1>6. S \cap T = {s[i] : i \in I}
  BY DEF Lists
<1> HIDE DEF places, I
<1>7. I \in SUBSET (DOMAIN s)
  BY DEF I
<1> QED  BY <1>4, <1>5, <1>6, <1>7, PlacesIs

\* Policies to be sorted, with numbers for weights.
Weighed(S) == S \subseteq Policies /\ weight \in [Policies -> Nat]

\* Sorting by weight puts the same in a row in which weights do not fall.
LEMMA ByWeightIs ==
    ASSUME NEW s, NEW S, Lists(s, S), Weighed(S)
    PROVE  /\ Lists(ByWeight(s), S)
           /\ \A i, k \in DOMAIN ByWeight(s) :
                  i < k => weight[ByWeight(s)[i]] <= weight[ByWeight(s)[k]]
<1> DEFINE I == DOMAIN s
           R == {x \in (DOMAIN s) \X (DOMAIN s) :
                    \/ weight[s[x[1]]] < weight[s[x[2]]]
                    \/ weight[s[x[1]]] = weight[s[x[2]]] /\ x[1] < x[2]}
           places == Ranked(I, R)
           q == ByWeight(s)
<1>1. DOMAIN s = 1..Len(s) /\ Len(s) \in Nat /\ s \in Seq(S)
  BY DEF Lists
<1>2. IsFiniteSet(I)
  BY <1>1, FS_Interval
<1>3. ASSUME NEW a \in I, NEW b \in I
      PROVE <<a, b>> \in R <=> \/ weight[s[a]] < weight[s[b]]
                               \/ weight[s[a]] = weight[s[b]] /\ a < b
  OBVIOUS
<1>4. \A a \in I : a \in Int /\ weight[s[a]] \in Int
  BY <1>1 DEF Weighed
<1>5. StrictOrder(I, R)
  <2> HIDE DEF I, R
  <2> QED  BY <1>3, <1>4 DEF StrictOrder
<1>6. /\ Lists(places, I)
      /\ \A i, k \in DOMAIN places : i < k => <<places[i], places[k]>> \in R
  <2> HIDE DEF I, R
  <2> QED  BY <1>2, <1>5, RankedIs
<1>7. q = [i \in DOMAIN places |-> s[places[i]]]
  BY DEF ByWeight
<1>8. S = {s[i] : i \in I}
  BY <1>1 DEF Lists
<1>9. Lists(q, S)
  <2> HIDE DEF q, places
  <2>1. I \in SUBSET (DOMAIN s)
    OBVIOUS
  <2> HIDE DEF I
  <2> QED  BY <1>6, <1>7, <1>8, <2>1, PlacesIs
<1> HIDE DEF q, places, I, R
<1>10. ASSUME NEW i \in DOMAIN q, NEW k \in DOMAIN q, i < k PROVE weight[q[i]] <= weight[q[k]]
  <2>1. i \in DOMAIN places /\ k \in DOMAIN places /\ q[i] = s[places[i]] /\ q[k] = s[places[k]]
    BY <1>7
  <2>2. places[i] \in I /\ places[k] \in I
    BY <1>6, <2>1 DEF Lists
  <2>3. <<places[i], places[k]>> \in R
    BY <1>6, <1>10, <2>1
  <2> QED  BY <1>3, <1>4, <2>1, <2>2, <2>3
<1> QED  BY <1>9, <1>10 DEF q
-----------------------------------------------------------------------------
(* Recursive functions.                                                     *)

\* A rule G for the values V at the places D, by the one at the next place, which is
\* nearer to the end by the measure m, or else the rule does not look at it.
Rule(D, V, N, m, next, G) ==
    /\ V # {} /\ N \in Nat /\ m \in [D -> 0..N] /\ next \in [D -> D] /\ G \in [D -> [V -> V]]
    /\ \A x \in D : m[next[x]] < m[x] \/ \A u, w \in V : G[x][u] = G[x][w]
\* f takes its value at each place from the one at the next by the rule.
Obeys(f, D, V, next, G) == f \in [D -> V] /\ \A x \in D : f[x] = G[x][f[next[x]]]

\* There is a function by each such rule.
LEMMA Recursion ==
    ASSUME NEW D, NEW V, NEW N, NEW m, NEW next, NEW G, Rule(D, V, N, m, next, G)
    PROVE  \E f : Obeys(f, D, V, next, G)
<1> DEFINE Upto(f, k) == f \in [D -> V] /\ \A x \in D : m[x] < k => f[x] = G[x][f[next[x]]]
<1>1. /\ N \in Nat /\ m \in [D -> 0..N] /\ next \in [D -> D] /\ G \in [D -> [V -> V]]
      /\ \A x \in D : m[next[x]] < m[x] \/ \A u, w \in V : G[x][u] = G[x][w]
  BY DEF Rule
<1>2. PICK v \in V : TRUE
  BY DEF Rule
<1>3. PICK S : S = {k \in 0..(N + 1) : \E f : Upto(f, k)}
  OBVIOUS
<1>4. 0 \in S
  <2>1. PICK f : f = [x \in D |-> v]
    OBVIOUS
  <2>2. Upto(f, 0)
    BY <1>1, <1>2, <2>1
  <2> HIDE DEF Upto
  <2> QED  BY <1>1, <1>3, <2>2
<1>5. ASSUME NEW k \in 0..(N + 1), k < N + 1, k \in S PROVE k + 1 \in S
  <2>1. PICK f : Upto(f, k)
    BY <1>3, <1>5
  <2>2. PICK g : g = [x \in D |-> G[x][f[next[x]]]]
    OBVIOUS
  <2>3. g \in [D -> V]
    BY <1>1, <2>1, <2>2
  <2>4. ASSUME NEW x \in D, m[x] < k + 1 PROVE g[x] = G[x][g[next[x]]]
    <3>1. g[x] = G[x][f[next[x]]] /\ next[x] \in D /\ f[next[x]] \in V /\ g[next[x]] \in V
      BY <1>1, <2>1, <2>2, <2>3
    <3>2. CASE m[next[x]] < m[x]
      <4>1. m[next[x]] \in Int /\ m[x] \in Int
        BY <1>1, <3>1
      <4>2. m[next[x]] < k
        BY <1>1, <2>4, <3>2, <4>1
      <4>3. f[next[x]] = G[next[x]][f[next[next[x]]]]
        BY <2>1, <3>1, <4>2
      <4>4. g[next[x]] = f[next[x]]
        BY <2>2, <3>1, <4>3
      <4> QED  BY <3>1, <4>4
    <3>3. CASE \A u, w \in V : G[x][u] = G[x][w]
      BY <3>1, <3>3
    <3> QED  BY <1>1, <3>2, <3>3
  <2>5. Upto(g, k + 1)
    BY <2>3, <2>4
  <2> HIDE DEF Upto
  <2>6. k + 1 \in 0..(N + 1)
    BY <1>1, <1>5
  <2> QED  BY <1>3, <2>5, <2>6
<1>6. N + 1 \in S
  <2>1. N + 1 \in Nat /\ \A k \in 0..(N + 1) : (k < N + 1 /\ k \in S) => k + 1 \in S
    BY <1>1, <1>5
  <2>2. 0..(N + 1) \subseteq S
    BY <1>4, <2>1, UpTo
  <2> QED  BY <1>1, <2>2
<1>7. PICK f : Upto(f, N + 1)
  BY <1>3, <1>6
<1>8. \A x \in D : m[x] < N + 1
  BY <1>1
<1> QED  BY <1>7, <1>8 DEF Obeys
-----------------------------------------------------------------------------
(* Rows put together and taken apart.                                       *)

\* What a row that lists a set is made of.
LEMMA ListsSet ==
    ASSUME NEW s, NEW S, Lists(s, S)
    PROVE  /\ ToSet(s) = S /\ DOMAIN s = 1..Len(s) /\ Len(s) \in Nat
           /\ \A i \in DOMAIN s : s[i] \in S
           /\ s = <<>> <=> S = {}
<1>1. s \in Seq(S) /\ DOMAIN s = 1..Len(s) /\ Len(s) \in Nat
  BY DEF Lists
<1>2. ToSet(s) = S
  BY <1>1 DEF Lists, ToSet
<1>3. s = <<>> <=> Len(s) = 0
  BY <1>1
<1>4. S = {} => Len(s) = 0
  BY <1>1
<1>5. S # {} => Len(s) # 0
  BY <1>1 DEF Lists
<1> QED  BY <1>1, <1>2, <1>3, <1>4, <1>5

\* One more at the end of a row.
LEMMA AppendIs ==
    ASSUME NEW s, NEW S, Lists(s, S), NEW x, x \notin S
    PROVE  /\ Lists(Append(s, x), S \cup {x}) /\ Len(Append(s, x)) = Len(s) + 1
           /\ \A i \in DOMAIN s : Append(s, x)[i] = s[i]
           /\ Append(s, x)[Len(s) + 1] = x
<1> DEFINE t == Append(s, x)
<1>1. s \in Seq(S) /\ s \in Seq(S \cup {x}) /\ DOMAIN s = 1..Len(s) /\ Len(s) \in Nat
  BY DEF Lists
<1>2. /\ t \in Seq(S \cup {x}) /\ Len(t) = Len(s) + 1 /\ DOMAIN t = 1..(Len(s) + 1)
      /\ \A i \in 1..Len(s) : t[i] = s[i]
      /\ t[Len(s) + 1] = x
  BY <1>1
<1> HIDE DEF t
<1>3. ASSUME NEW y \in S \cup {x} PROVE \E i \in DOMAIN t : t[i] = y
  <2>1. CASE y = x
    BY <1>1, <1>2, <2>1
  <2>2. CASE y \in S
    <3>1. PICK i \in 1..Len(s) : s[i] = y
      BY <1>1, <2>2 DEF Lists
    <3>2. i \in 1..(Len(s) + 1)
      BY <1>1
    <3> QED  BY <1>2, <3>1, <3>2
  <2> QED  BY <2>1, <2>2
<1>4. ASSUME NEW i \in DOMAIN t, NEW k \in DOMAIN t, t[i] = t[k] PROVE i = k
  <2>1. \A n \in DOMAIN t : \/ n = Len(s) + 1 /\ t[n] = x
                            \/ n \in DOMAIN s /\ t[n] = s[n] /\ t[n] \in S
    BY <1>1, <1>2
  <2> QED  BY <1>4, <2>1 DEF Lists
<1> QED  BY <1>1, <1>2, <1>3, <1>4 DEF Lists, t

\* u is s and then t.
Concats(u, s, t) ==
    /\ Len(u) = Len(s) + Len(t)
    /\ \A i \in DOMAIN s : u[i] = s[i]
    /\ \A i \in DOMAIN t : u[Len(s) + i] = t[i]

\* Two rows of disjoint sets make one of their union.
LEMMA ConcatIs ==
    ASSUME NEW s, NEW S, Lists(s, S), NEW t, NEW T, Lists(t, T), S \cap T = {}
    PROVE  Lists(s \o t, S \cup T) /\ Concats(s \o t, s, t)
<1> DEFINE u == s \o t
<1>1. /\ s \in Seq(S) /\ s \in Seq(S \cup T) /\ DOMAIN s = 1..Len(s) /\ Len(s) \in Nat
      /\ t \in Seq(T) /\ t \in Seq(S \cup T) /\ DOMAIN t = 1..Len(t) /\ Len(t) \in Nat
  BY DEF Lists
<1>2. /\ u \in Seq(S \cup T) /\ Len(u) = Len(s) + Len(t) /\ DOMAIN u = 1..(Len(s) + Len(t))
      /\ \A i \in 1..(Len(s) + Len(t)) : u[i] = IF i <= Len(s) THEN s[i] ELSE t[i - Len(s)]
  BY <1>1
<1> HIDE DEF u
<1>3. \A i \in DOMAIN s : i \in DOMAIN u /\ u[i] = s[i]
  BY <1>1, <1>2
<1>4. ASSUME NEW i \in DOMAIN t PROVE Len(s) + i \in DOMAIN u /\ u[Len(s) + i] = t[i]
  <2>1. Len(s) + i \in 1..(Len(s) + Len(t)) /\ ~(Len(s) + i <= Len(s)) /\ (Len(s) + i) - Len(s) = i
    BY <1>1
  <2> QED  BY <1>2, <2>1
<1>5. ASSUME NEW n \in DOMAIN u
      PROVE  \/ n \in DOMAIN s /\ u[n] = s[n] /\ u[n] \in S
             \/ n - Len(s) \in DOMAIN t /\ u[n] = t[n - Len(s)] /\ u[n] \in T /\ n > Len(s)
  BY <1>1, <1>2
<1>6. ASSUME NEW y \in S \cup T PROVE \E i \in DOMAIN u : u[i] = y
  <2>1. CASE y \in S
    BY <1>3, <2>1 DEF Lists
  <2>2. CASE y \in T
    BY <1>4, <2>2 DEF Lists
  <2> QED  BY <2>1, <2>2
<1>7. ASSUME NEW i \in DOMAIN u, NEW k \in DOMAIN u, u[i] = u[k] PROVE i = k
  <2>1. CASE i \in DOMAIN s /\ k \in DOMAIN s
    BY <1>3, <1>7, <2>1 DEF Lists
  <2>2. CASE ~(i \in DOMAIN s /\ k \in DOMAIN s)
    <3>1. i - Len(s) \in DOMAIN t /\ k - Len(s) \in DOMAIN t
          /\ t[i - Len(s)] = t[k - Len(s)]
      BY <1>5, <1>7, <2>2
    <3>2. i - Len(s) = k - Len(s)
      BY <3>1 DEF Lists
    <3> QED  BY <1>1, <1>2, <3>2
  <2> QED  BY <2>1, <2>2
<1>8. Lists(u, S \cup T) /\ Concats(u, s, t)
  BY <1>2, <1>3, <1>4, <1>6, <1>7 DEF Lists, Concats
<1> QED  BY <1>8 DEF u

\* A row without its first.
LEMMA TailIs ==
    ASSUME NEW s, NEW S, Lists(s, S), s # <<>>
    PROVE  /\ Head(s) \in S /\ Head(s) = s[1] /\ 1 \in DOMAIN s
           /\ Lists(Tail(s), S \ {Head(s)})
<1> DEFINE t == Tail(s)
<1>1. s \in Seq(S) /\ DOMAIN s = 1..Len(s) /\ Len(s) \in Nat /\ Len(s) # 0
  BY DEF Lists
<1>2. Head(s) = s[1] /\ 1 \in DOMAIN s /\ s[1] \in S
  BY <1>1
<1>3. /\ t \in Seq(S) /\ Len(t) = Len(s) - 1 /\ DOMAIN t = 1..(Len(s) - 1)
      /\ \A i \in 1..(Len(s) - 1) : t[i] = s[i + 1]
  BY <1>1
<1> HIDE DEF t
<1>4. ASSUME NEW i \in DOMAIN t PROVE i + 1 \in DOMAIN s /\ t[i] = s[i + 1] /\ t[i] # s[1]
  <2>1. i + 1 \in DOMAIN s /\ t[i] = s[i + 1] /\ i + 1 # 1
    BY <1>1, <1>3
  <2> QED  BY <1>2, <2>1 DEF Lists
<1>5. t \in Seq(S \ {s[1]})
  <2>1. t \in [1..(Len(s) - 1) -> S \ {s[1]}] /\ Len(s) - 1 \in Nat
    BY <1>1, <1>3, <1>4
  <2> QED  BY <2>1
<1>6. ASSUME NEW y \in S \ {s[1]} PROVE \E i \in DOMAIN t : t[i] = y
  <2>1. PICK k \in DOMAIN s : s[k] = y
    BY DEF Lists
  <2>2. k # 1 /\ k - 1 \in 1..(Len(s) - 1) /\ (k - 1) + 1 = k
    BY <1>1, <2>1
  <2> QED  BY <1>3, <2>1, <2>2
<1>7. ASSUME NEW i \in DOMAIN t, NEW k \in DOMAIN t, t[i] = t[k] PROVE i = k
  <2>1. i + 1 = k + 1
    BY <1>4, <1>7 DEF Lists
  <2> QED  BY <1>3, <2>1
<1> QED  BY <1>2, <1>5, <1>6, <1>7 DEF Lists, t

\* A row is as long as the set it lists has elements.
LEMMA ListsCount ==
    ASSUME NEW s, NEW S, Lists(s, S)
    PROVE  IsFiniteSet(S) /\ Cardinality(S) = Len(s)
<1>1. s \in Seq(S) /\ DOMAIN s = 1..Len(s) /\ Len(s) \in Nat /\ s \in [1..Len(s) -> S]
  BY DEF Lists
<1>2. IsFiniteSet(1..Len(s)) /\ Cardinality(1..Len(s)) = Len(s)
  <2>1. /\ IsFiniteSet(1..Len(s))
        /\ Cardinality(1..Len(s)) = IF 1 > Len(s) THEN 0 ELSE Len(s) - 1 + 1
    BY <1>1, FS_Interval
  <2> QED  BY <1>1, <2>1
<1>3. s \in Injection(1..Len(s), S) /\ s \in Surjection(1..Len(s), S)
  BY <1>1 DEF Lists, Injection, IsInjective, Surjection
<1> QED  BY <1>2, <1>3, FS_Surjection
-----------------------------------------------------------------------------
(* The policies of one collection, by requirements and then by weight.      *)

\* What stands before a place.
InFront(s, i) == {s[k] : k \in {j \in DOMAIN s : j < i}}
\* p of P may take its turn after those in F, and is as light as any that may.
MayFollow(P, p, F) ==
    /\ needs[p] \cap P \subseteq F
    /\ \A q \in P \ F : needs[q] \cap P \subseteq F => weight[p] <= weight[q]

\* What holds between two rounds: those that are ready are all whose requirements are
\* in order, lightest first, and each in order was the lightest of them in its round.
Rounds(P) == {st \in [ordered : Seq(P), ready : Seq(P)] :
    LET O == ToSet(st.ordered)
    IN  /\ Lists(st.ordered, O)
        /\ Lists(st.ready, {q \in P \ O : needs[q] \cap P \subseteq O})
        /\ \A i, k \in DOMAIN st.ready : i < k => weight[st.ready[i]] <= weight[st.ready[k]]
        /\ \A i \in DOMAIN st.ordered : MayFollow(P, st.ordered[i], InFront(st.ordered, i))}

\* A round puts one more in order as long as any is ready.
LEMMA RoundKept ==
    ASSUME NEW items, NEW P, Lists(items, P), Weighed(P), NEW st \in Rounds(P)
    PROVE  /\ KahnStep(items, needs, st) \in Rounds(P)
           /\ st.ready = <<>> => KahnStep(items, needs, st) = st
           /\ st.ready # <<>> => Len(KahnStep(items, needs, st).ordered) = Len(st.ordered) + 1
<1> DEFINE O == ToSet(st.ordered)
           Free == {q \in P \ O : needs[q] \cap P \subseteq O}
<1>1. /\ st.ordered \in Seq(P) /\ Lists(st.ordered, O) /\ Lists(st.ready, Free)
      /\ \A i, k \in DOMAIN st.ready : i < k => weight[st.ready[i]] <= weight[st.ready[k]]
      /\ \A i \in DOMAIN st.ordered : MayFollow(P, st.ordered[i], InFront(st.ordered, i))
  BY DEF Rounds
<1>2. CASE st.ready = <<>>
  BY <1>2 DEF KahnStep
<1>3. CASE st.ready # <<>>
  <2> DEFINE p == Head(st.ready)
             ordered == Append(st.ordered, p)
             freed == {q \in Ready(items, needs, ToSet(ordered)) : p \in Needs(items, needs, q)}
             next == Tail(st.ready) \o Those(items, freed)
             O2 == O \cup {p}
             Free2 == {q \in P \ O2 : needs[q] \cap P \subseteq O2}
             new == KahnStep(items, needs, st)
  <2>1. new = [ordered |-> ordered, ready |-> ByWeight(next)]
    BY <1>3 DEF KahnStep
  <2>2. /\ p \in Free /\ p = st.ready[1] /\ 1 \in DOMAIN st.ready
        /\ Lists(Tail(st.ready), Free \ {p})
    <3> HIDE DEF Free
    <3> QED  BY <1>1, <1>3, TailIs
  <2>3. /\ Lists(ordered, O2) /\ Len(ordered) = Len(st.ordered) + 1
        /\ \A i \in DOMAIN st.ordered : ordered[i] = st.ordered[i]
        /\ ordered[Len(st.ordered) + 1] = p
        /\ ToSet(ordered) = O2
    <3>1. p \notin O
      BY <2>2
    <3> HIDE DEF O, p
    <3>2. /\ Lists(ordered, O2) /\ Len(ordered) = Len(st.ordered) + 1
          /\ \A i \in DOMAIN st.ordered : ordered[i] = st.ordered[i]
          /\ ordered[Len(st.ordered) + 1] = p
      BY <1>1, <3>1, AppendIs
    <3> HIDE DEF ordered, O2
    <3> QED  BY <3>2, ListsSet
  <2>4. ToSet(items) = P /\ O \subseteq P
    BY <1>1, ListsSet DEF ToSet
  <2>5. freed = {q \in P : needs[q] \cap P \subseteq O2 /\ p \in needs[q] \cap P}
    <3> HIDE DEF p, ordered, O2
    <3> QED  BY <2>3, <2>4 DEF Ready, Needs
  <2>6. Lists(Those(items, freed), freed)
    <3>1. P \cap freed = freed
      BY <2>5
    <3> HIDE DEF freed
    <3> QED  BY <3>1, ThoseIs
  <2>7. (Free \ {p}) \cap freed = {}
    BY <2>2, <2>5
  <2>8. ASSUME NEW q \in O PROVE needs[q] \cap P \subseteq O /\ q \in P
    <3>1. PICK i \in DOMAIN st.ordered : st.ordered[i] = q
      BY <1>1 DEF Lists
    <3>2. InFront(st.ordered, i) \subseteq O
      BY <1>1 DEF InFront, Lists
    <3> QED  BY <1>1, <2>4, <3>1, <3>2 DEF MayFollow
  <2>9. (Free \ {p}) \cup freed = Free2
    <3>1. ASSUME NEW q \in Free \ {p} PROVE q \in Free2
      OBVIOUS
    <3>2. ASSUME NEW q \in freed PROVE q \in Free2
      <4>1. q \in P /\ needs[q] \cap P \subseteq O2 /\ p \in needs[q] \cap P /\ p \notin O
        BY <2>2, <2>5
      <4>2. q \notin O
        BY <2>8, <4>1
      <4>3. q # p
        BY <2>2, <4>1
      <4> QED  BY <4>1, <4>2, <4>3
    <3>3. ASSUME NEW q \in Free2 PROVE q \in (Free \ {p}) \cup freed
      <4>1. q \in P /\ q \notin O /\ q # p /\ needs[q] \cap P \subseteq O2
        OBVIOUS
      <4>2. CASE p \in needs[q] \cap P
        BY <2>5, <4>1, <4>2
      <4>3. CASE p \notin needs[q] \cap P
        BY <4>1, <4>3
      <4> QED  BY <4>2, <4>3
    <3> HIDE DEF Free, freed, Free2
    <3> QED  BY <3>1, <3>2, <3>3
  <2>10. Lists(next, Free2)
    <3> HIDE DEF Free, freed, Free2, p
    <3> QED  BY <2>2, <2>6, <2>7, <2>9, ConcatIs
  <2>11. /\ Lists(ByWeight(next), Free2)
         /\ \A i, k \in DOMAIN ByWeight(next) :
                i < k => weight[ByWeight(next)[i]] <= weight[ByWeight(next)[k]]
    <3>1. Weighed(Free2)
      BY DEF Weighed
    <3> HIDE DEF Free2, next
    <3> QED  BY <2>10, <3>1, ByWeightIs
  <2>12. ASSUME NEW i \in DOMAIN ordered PROVE MayFollow(P, ordered[i], InFront(ordered, i))
    <3>1. /\ DOMAIN ordered = 1..(Len(st.ordered) + 1) /\ Len(st.ordered) \in Nat
          /\ DOMAIN st.ordered = 1..Len(st.ordered)
      <4> HIDE DEF ordered, O2, O
      <4> QED  BY <1>1, <2>3, ListsSet
    <3>2. CASE i \in DOMAIN st.ordered
      <4>1. ordered[i] = st.ordered[i]
        <5> HIDE DEF ordered
        <5> QED  BY <2>3, <3>2
      <4>2. InFront(ordered, i) = InFront(st.ordered, i)
        <5> HIDE DEF ordered
        <5>1. \A j : j \in DOMAIN ordered /\ j < i <=> j \in DOMAIN st.ordered /\ j < i
          BY <3>1, <3>2
        <5> QED  BY <2>3, <5>1 DEF InFront
      <4> HIDE DEF ordered
      <4> QED  BY <1>1, <3>2, <4>1, <4>2
    <3>3. CASE i = Len(st.ordered) + 1
      <4>1. ordered[i] = p
        <5> HIDE DEF ordered, p
        <5> QED  BY <2>3, <3>3
      <4>2. InFront(ordered, i) = O
        <5> HIDE DEF ordered
        <5>1. \A j : j \in DOMAIN ordered /\ j < i <=> j \in DOMAIN st.ordered
          BY <3>1, <3>3
        <5>2. InFront(ordered, i) = {st.ordered[k] : k \in DOMAIN st.ordered}
          BY <2>3, <5>1 DEF InFront
        <5> QED  BY <5>2 DEF ToSet
      <4>3. ASSUME NEW q \in P \ O, needs[q] \cap P \subseteq O PROVE weight[p] <= weight[q]
        <5>1. q \in Free /\ Weighed(Free)
          BY <4>3 DEF Weighed
        <5>2. PICK k \in DOMAIN st.ready : st.ready[k] = q
          BY <1>1, <5>1 DEF Lists
        <5>3. k \in Int /\ 1 <= k /\ 1 \in DOMAIN st.ready
          <6> HIDE DEF Free, p
          <6> QED  BY <1>1, <2>2, ListsSet
        <5>4. CASE k = 1
          <6>1. p = q
            <7> HIDE DEF p
            <7> QED  BY <2>2, <5>2, <5>4
          <6>2. weight[q] \in Nat
            BY <5>1 DEF Weighed
          <6> HIDE DEF p
          <6> QED  BY <6>1, <6>2
        <5>5. CASE k # 1
          <6>1. 1 < k
            BY <5>3, <5>5
          <6> HIDE DEF p
          <6> QED  BY <1>1, <2>2, <5>2, <5>3, <6>1
        <5> QED  BY <5>4, <5>5
      <4>4. needs[p] \cap P \subseteq O
        BY <2>2
      <4> HIDE DEF p, ordered, O
      <4> QED  BY <4>1, <4>2, <4>3, <4>4 DEF MayFollow
    <3> HIDE DEF ordered
    <3> QED  BY <3>1, <3>2, <3>3
  <2>13. new \in Rounds(P)
    <3>1. p \in P
      BY <2>2
    <3>2. ordered \in Seq(P) /\ ByWeight(next) \in Seq(P)
      <4>1. O2 \subseteq P /\ Free2 \subseteq P
        BY <2>4, <3>1
      <4>2. ordered \in Seq(O2) /\ ByWeight(next) \in Seq(Free2)
        <5> HIDE DEF ordered, next, O2, Free2
        <5> QED  BY <2>3, <2>11 DEF Lists
      <4> HIDE DEF ordered, next, O2, Free2
      <4> QED  BY <4>1, <4>2
    <3>3. new.ordered = ordered /\ new.ready = ByWeight(next) /\ new \in [ordered : Seq(P), ready : Seq(P)]
      <4> HIDE DEF new, ordered, next
      <4> QED  BY <2>1, <3>2
    <3>4. Free2 = {q \in P \ O2 : needs[q] \cap P \subseteq O2}
      OBVIOUS
    <3> HIDE DEF new, ordered, next, O2, Free2, p
    <3> QED  BY <2>3, <2>11, <2>12, <3>3, <3>4 DEF Rounds
  <2>14. Len(new.ordered) = Len(st.ordered) + 1
    <3> HIDE DEF new, ordered, next
    <3> QED  BY <2>1, <2>3
  <2> QED  BY <1>3, <2>13, <2>14, Zenon
<1> QED  BY <1>2, <1>3

\* r lists P: first those in O, each in its turn, and then what is left, by weight,
\* of which each waits for another.
InTurn(r, P, O) ==
    /\ Lists(r, P) /\ O \subseteq P
    /\ \A i \in DOMAIN r : r[i] \in O =>
           MayFollow(P, r[i], InFront(r, i)) /\ InFront(r, i) \subseteq O
    /\ \A p \in P \ O : (needs[p] \cap P) \ O # {}
    /\ \A i, k \in DOMAIN r : i < k /\ r[i] \notin O => weight[r[i]] <= weight[r[k]]

\* Once no round is left to be made, or none is ready, what has not been put in order
\* goes behind what has.
LEMMA LeftoversLast ==
    ASSUME NEW P, Weighed(P), NEW items, Lists(items, P), NEW st \in Rounds(P), st.ready = <<>>
    PROVE  LET O == ToSet(st.ordered)
           IN  InTurn(st.ordered \o ByWeight(Those(items, P \ O)), P, O)
<1> DEFINE O == ToSet(st.ordered)
           behind == ByWeight(Those(items, P \ O))
           s == st.ordered
           r == s \o behind
<1>1. /\ s \in Seq(P) /\ Lists(s, O) /\ Lists(st.ready, {q \in P \ O : needs[q] \cap P \subseteq O})
      /\ \A i \in DOMAIN s : MayFollow(P, s[i], InFront(s, i))
  BY DEF Rounds
<1>2. O \subseteq P
  BY <1>1 DEF ToSet
<1>3. \A q \in P \ O : (needs[q] \cap P) \ O # {}
  <2>1. {q \in P \ O : needs[q] \cap P \subseteq O} = {}
    <3> HIDE DEF O
    <3> QED  BY <1>1, ListsSet
  <2> QED  BY <2>1
<1>4. Lists(Those(items, P \ O), P \ O)
  <2>1. P \cap (P \ O) = P \ O
    OBVIOUS
  <2> HIDE DEF O
  <2> QED  BY <2>1, ThoseIs
<1>5. /\ Lists(behind, P \ O)
      /\ \A i, k \in DOMAIN behind : i < k => weight[behind[i]] <= weight[behind[k]]
  <2>1. Weighed(P \ O)
    BY DEF Weighed
  <2> HIDE DEF O
  <2> QED  BY <1>4, <2>1, ByWeightIs
<1> HIDE DEF O, behind, s
<1>6. /\ Lists(r, P) /\ Len(r) = Len(s) + Len(behind)
      /\ \A i \in DOMAIN s : r[i] = s[i]
      /\ \A i \in DOMAIN behind : r[Len(s) + i] = behind[i]
  <2>1. O \cap (P \ O) = {} /\ O \cup (P \ O) = P
    BY <1>2
  <2>2. PICK T : T = P \ O
    OBVIOUS
  <2>3. Lists(s, O) /\ Lists(behind, T) /\ O \cap T = {}
    BY <1>1, <1>5, <2>1, <2>2
  <2>4. Lists(r, O \cup T) /\ Concats(r, s, behind)
    BY <2>3, ConcatIs
  <2> HIDE DEF r
  <2> QED  BY <2>1, <2>2, <2>4 DEF Concats
<1>7. /\ DOMAIN s = 1..Len(s) /\ Len(s) \in Nat /\ DOMAIN behind = 1..Len(behind) /\ Len(behind) \in Nat
      /\ DOMAIN r = 1..(Len(s) + Len(behind))
      /\ \A i \in DOMAIN s : s[i] \in O
      /\ \A i \in DOMAIN behind : behind[i] \in P \ O
  <2> HIDE DEF r
  <2> QED  BY <1>1, <1>5, <1>6, ListsSet
<1> HIDE DEF r
<1>8. ASSUME NEW i \in DOMAIN r
      PROVE  \/ i \in DOMAIN s /\ r[i] = s[i] /\ r[i] \in O
             \/ i - Len(s) \in DOMAIN behind /\ r[i] = behind[i - Len(s)] /\ r[i] \notin O /\ i > Len(s)
  <2>1. CASE i <= Len(s)
    BY <1>6, <1>7, <2>1
  <2>2. CASE ~(i <= Len(s))
    <3>1. i - Len(s) \in 1..Len(behind) /\ Len(s) + (i - Len(s)) = i /\ i > Len(s)
      BY <1>7, <2>2
    <3> QED  BY <1>6, <1>7, <3>1
  <2> QED  BY <2>1, <2>2
<1>9. ASSUME NEW i \in DOMAIN r, r[i] \in O
      PROVE  MayFollow(P, r[i], InFront(r, i)) /\ InFront(r, i) \subseteq O
  <2>1. i \in DOMAIN s /\ r[i] = s[i]
    BY <1>8, <1>9
  <2>2. \A j : j \in DOMAIN r /\ j < i <=> j \in DOMAIN s /\ j < i
    BY <1>7, <2>1
  <2>3. InFront(r, i) = InFront(s, i)
    BY <1>6, <2>2 DEF InFront
  <2>4. InFront(s, i) \subseteq O
    BY <1>7 DEF InFront
  <2> QED  BY <1>1, <2>1, <2>3, <2>4
<1>10. ASSUME NEW i \in DOMAIN r, NEW k \in DOMAIN r, i < k, r[i] \notin O
       PROVE  weight[r[i]] <= weight[r[k]]
  <2>1. i - Len(s) \in DOMAIN behind /\ r[i] = behind[i - Len(s)] /\ i > Len(s)
    BY <1>8, <1>10
  <2>2. k - Len(s) \in DOMAIN behind /\ r[k] = behind[k - Len(s)]
    <3>1. ~(k \in DOMAIN s)
      BY <1>7, <1>10, <2>1
    <3> QED  BY <1>8, <3>1
  <2>3. i - Len(s) < k - Len(s)
    BY <1>7, <1>10
  <2> QED  BY <1>5, <2>1, <2>2, <2>3
<1>11. InTurn(r, P, O)
  BY <1>2, <1>3, <1>6, <1>9, <1>10 DEF InTurn
<1> QED  BY <1>11 DEF r, s, O, behind

\* As many rounds as there are policies put all in order, or leave none ready.
LEMMA OrderIs ==
    ASSUME NEW P, Weighed(P), NEW items, Lists(items, P)
    PROVE  \E O \in SUBSET P : InTurn(OrderByRequirements(items, needs), P, O)
<1> DEFINE K == Len(items)
           start == [ordered |-> <<>>, ready |-> ByWeight(Those(items, Ready(items, needs, {})))]
           Kahn(f) == f = [n \in 0..K |-> IF n = 0 THEN start ELSE KahnStep(items, needs, f[n - 1])]
           V == Rounds(P)
<1>1. K \in Nat /\ ToSet(items) = P
  BY ListsSet
<1>2. start \in V
  <2> DEFINE Free == {q \in P : needs[q] \cap P \subseteq {}}
  <2>1. Ready(items, needs, {}) = Free
    BY <1>1 DEF Ready, Needs
  <2>2. Lists(Those(items, Free), Free)
    <3>1. P \cap Free = Free
      OBVIOUS
    <3> HIDE DEF Free
    <3> QED  BY <3>1, ThoseIs
  <2>3. /\ Lists(ByWeight(Those(items, Free)), Free)
        /\ \A i, k \in DOMAIN ByWeight(Those(items, Free)) : i < k =>
               weight[ByWeight(Those(items, Free))[i]] <= weight[ByWeight(Those(items, Free))[k]]
    <3>1. Weighed(Free)
      BY DEF Weighed
    <3> HIDE DEF Free
    <3> QED  BY <2>2, <3>1, ByWeightIs
  <2>4. start.ordered = <<>> /\ start.ready = ByWeight(Those(items, Free))
    BY <2>1
  <2>5. start \in [ordered : Seq(P), ready : Seq(P)]
    <3>1. Free \subseteq P /\ ByWeight(Those(items, Free)) \in Seq(Free)
      BY <2>3 DEF Lists
    <3>2. ByWeight(Those(items, Free)) \in Seq(P)
      <4> HIDE DEF Free
      <4> QED  BY <3>1
    <3> HIDE DEF Free
    <3> QED  BY <2>1, <3>2
  <2>6. ToSet(<<>>) = {} /\ DOMAIN <<>> = {}
    BY DEF ToSet
  <2>7. Lists(<<>>, {})
    BY <2>6 DEF Lists
  <2>8. Free = {q \in P \ {} : needs[q] \cap P \subseteq {}}
    OBVIOUS
  <2> HIDE DEF start, Free
  <2> QED  BY <2>3, <2>4, <2>5, <2>6, <2>7, <2>8 DEF Rounds
<1>3. \E f : Kahn(f)
  <2> DEFINE next == [n \in 0..K |-> IF n = 0 THEN 0 ELSE n - 1]
             G == [n \in 0..K |-> [st \in V |-> IF n = 0 THEN start ELSE KahnStep(items, needs, st)]]
             m == [n \in 0..K |-> n]
  <2>1. m \in [0..K -> 0..K] /\ next \in [0..K -> 0..K]
    <3> HIDE DEF K
    <3> QED  BY <1>1
  <2>2. G \in [0..K -> [V -> V]]
    <3> HIDE DEF K, start, V
    <3>1. ASSUME NEW st \in V PROVE KahnStep(items, needs, st) \in V
      BY <3>1, RoundKept DEF V
    <3> QED  BY <1>2, <3>1
  <2>3. ASSUME NEW n \in 0..K
        PROVE m[next[n]] < m[n] \/ \A u, w \in V : G[n][u] = G[n][w]
    <3> HIDE DEF K, start, V
    <3> QED  BY <1>1
  <2>4. PICK f \in [0..K -> V] : \A n \in 0..K : f[n] = G[n][f[next[n]]]
    <3>1. Rule(0..K, V, K, m, next, G)
      <4> HIDE DEF K, m, next, G, V, start
      <4>1. \A n \in 0..K : m[next[n]] < m[n] \/ \A u, w \in V : G[n][u] = G[n][w]
        BY <2>3
      <4>2. V # {}
        BY <1>2
      <4> QED  BY <1>1, <2>1, <2>2, <4>1, <4>2 DEF Rule
    <3> HIDE DEF K, m, next, G, V, start
    <3>2. PICK f : Obeys(f, 0..K, V, next, G)
      BY <3>1, Recursion
    <3> QED  BY <3>2 DEF Obeys
  <2>5. ASSUME NEW n \in 0..K
        PROVE  f[n] = IF n = 0 THEN start ELSE KahnStep(items, needs, f[n - 1])
    <3>1. next[n] \in 0..K /\ f[next[n]] \in V
      <4> HIDE DEF K, next, V
      <4> QED  BY <2>1, <2>4
    <3>2. f[n] = IF n = 0 THEN start ELSE KahnStep(items, needs, f[next[n]])
      <4> HIDE DEF K, V, start
      <4> QED  BY <2>4, <3>1
    <3>3. n # 0 => next[n] = n - 1
      OBVIOUS
    <3> HIDE DEF K, V, start, next
    <3> QED  BY <3>2, <3>3
  <2>6. f = [n \in 0..K |-> f[n]]
    <3> HIDE DEF K, V
    <3> QED  BY <2>4
  <2>7. Kahn(f)
    <3> HIDE DEF K, V, start
    <3> QED  BY <2>5, <2>6
  <2> HIDE DEF Kahn
  <2> QED  BY <2>7
<1>4. PICK f : f = CHOOSE g : Kahn(g)
  OBVIOUS
<1>5. OrderByRequirements(items, needs) =
          f[K].ordered \o ByWeight(Those(items, ToSet(items) \ ToSet(f[K].ordered)))
  BY <1>4 DEF OrderByRequirements
<1>6. Kahn(f)
  <2> HIDE DEF Kahn
  <2> QED  BY <1>3, <1>4
<1>7. \A n \in 0..K : f[n] = IF n = 0 THEN start ELSE KahnStep(items, needs, f[n - 1])
  <2> HIDE DEF start, K
  <2> QED  BY <1>6
<1> HIDE DEF K, Kahn, V, start
<1>8. f[K] \in V /\ (f[K].ready = <<>> \/ Len(f[K].ordered) = K)
  <2>1. PICK S : S = {n \in 0..K : f[n] \in V /\ (f[n].ready = <<>> \/ Len(f[n].ordered) = n)}
    OBVIOUS
  <2>2. 0 \in S
    <3>1. f[0] = start /\ 0 \in 0..K
      BY <1>1, <1>7
    <3>2. Len(start.ordered) = 0
      BY DEF start
    <3> QED  BY <1>2, <2>1, <3>1, <3>2
  <2>3. ASSUME NEW n \in 0..K, n < K, n \in S PROVE n + 1 \in S
    <3>1. n + 1 \in 0..K /\ n + 1 # 0 /\ (n + 1) - 1 = n
      BY <1>1, <2>3
    <3>2. f[n + 1] = KahnStep(items, needs, f[n])
      BY <1>7, <3>1
    <3>3. f[n] \in V /\ (f[n].ready = <<>> \/ Len(f[n].ordered) = n)
      BY <2>1, <2>3
    <3>4. /\ f[n + 1] \in V
          /\ f[n].ready = <<>> => f[n + 1] = f[n]
          /\ f[n].ready # <<>> => Len(f[n + 1].ordered) = Len(f[n].ordered) + 1
      BY <3>2, <3>3, RoundKept DEF V
    <3>5. f[n + 1].ready = <<>> \/ Len(f[n + 1].ordered) = n + 1
      BY <3>3, <3>4
    <3> QED  BY <2>1, <3>1, <3>4, <3>5
  <2>4. 0..K \subseteq S
    BY <1>1, <2>2, <2>3, UpTo
  <2> QED  BY <1>1, <2>1, <2>4
<1>9. f[K].ready = <<>>
  <2> SUFFICES ASSUME Len(f[K].ordered) = K PROVE f[K].ready = <<>>
    BY <1>8
  <2> DEFINE O == ToSet(f[K].ordered)
             Free == {q \in P \ O : needs[q] \cap P \subseteq O}
  <2>1. /\ f[K].ordered \in Seq(P) /\ Lists(f[K].ordered, O) /\ Lists(f[K].ready, Free)
    BY <1>8 DEF V, Rounds
  <2>2. O \subseteq P
    BY <2>1 DEF ToSet
  <2>3. O = P
    <3> HIDE DEF O
    <3>1. Cardinality(P) = K /\ IsFiniteSet(P)
      BY ListsCount DEF K
    <3>2. Cardinality(O) = K
      BY <2>1, ListsCount
    <3> QED  BY <2>2, <3>1, <3>2, FS_Subset
  <2>4. Free = {}
    BY <2>3
  <2> HIDE DEF Free
  <2> QED  BY <2>1, <2>4, ListsSet
<1> DEFINE O == ToSet(f[K].ordered)
<1>10. f[K] \in Rounds(P)
  BY <1>8 DEF V
<1>11. InTurn(f[K].ordered \o ByWeight(Those(items, P \ O)), P, O)
  BY <1>9, <1>10, LeftoversLast
<1>12. O \in SUBSET P
  <2> HIDE DEF O
  <2> QED  BY <1>11 DEF InTurn
<1> HIDE DEF O
<1>13. OrderByRequirements(items, needs) = f[K].ordered \o ByWeight(Those(items, P \ O))
  BY <1>1, <1>5 DEF O
<1> QED  BY <1>11, <1>12, <1>13
-----------------------------------------------------------------------------
(* Rows of several sets, one after the other.                               *)

\* Before a place in the second of two rows stands all of the first.
LEMMA ConcatFront ==
    ASSUME NEW s, NEW S, Lists(s, S), NEW t, NEW T, Lists(t, T), S \cap T = {}
    PROVE  /\ \A i \in DOMAIN s : InFront(s \o t, i) = InFront(s, i)
           /\ \A i \in DOMAIN t : InFront(s \o t, Len(s) + i) = S \cup InFront(t, i)
<1> DEFINE u == s \o t
<1>1. /\ DOMAIN s = 1..Len(s) /\ Len(s) \in Nat /\ DOMAIN t = 1..Len(t) /\ Len(t) \in Nat
      /\ \A i \in DOMAIN s : s[i] \in S
  BY ListsSet
<1>2. Lists(u, S \cup T) /\ Concats(u, s, t)
  BY ConcatIs
<1> HIDE DEF u
<1>3. \A i \in DOMAIN s : u[i] = s[i]
  BY <1>2 DEF Concats
<1>4. \A i \in DOMAIN t : u[Len(s) + i] = t[i]
  BY <1>2 DEF Concats
<1>5. DOMAIN u = 1..(Len(s) + Len(t))
  BY <1>2, ListsSet DEF Concats
<1>6. ASSUME NEW i \in DOMAIN s PROVE InFront(u, i) = InFront(s, i)
  <2>1. \A j : j \in DOMAIN u /\ j < i <=> j \in DOMAIN s /\ j < i
    BY <1>1, <1>5
  <2> QED  BY <1>3, <2>1 DEF InFront
<1>7. ASSUME NEW i \in DOMAIN t PROVE InFront(u, Len(s) + i) = S \cup InFront(t, i)
  <2>1. ASSUME NEW x \in InFront(u, Len(s) + i) PROVE x \in S \cup InFront(t, i)
    <3>1. PICK j \in DOMAIN u : j < Len(s) + i /\ x = u[j]
      BY DEF InFront
    <3>2. CASE j \in DOMAIN s
      BY <1>1, <1>3, <3>1, <3>2
    <3>3. CASE j \notin DOMAIN s
      <4>1. j - Len(s) \in DOMAIN t /\ Len(s) + (j - Len(s)) = j /\ j - Len(s) < i
        BY <1>1, <1>5, <3>1, <3>3
      <4>2. x = t[j - Len(s)]
        BY <1>4, <3>1, <4>1
      <4> QED  BY <4>1, <4>2 DEF InFront
    <3> QED  BY <3>2, <3>3
  <2>2. ASSUME NEW x \in S PROVE x \in InFront(u, Len(s) + i)
    <3>1. PICK j \in DOMAIN s : s[j] = x
      BY DEF Lists
    <3>2. j \in DOMAIN u /\ j < Len(s) + i /\ u[j] = x
      BY <1>1, <1>3, <1>5, <3>1
    <3> QED  BY <3>2 DEF InFront
  <2>3. ASSUME NEW x \in InFront(t, i) PROVE x \in InFront(u, Len(s) + i)
    <3>1. PICK j \in DOMAIN t : j < i /\ x = t[j]
      BY DEF InFront
    <3>2. Len(s) + j \in DOMAIN u /\ Len(s) + j < Len(s) + i /\ u[Len(s) + j] = x
      BY <1>1, <1>4, <1>5, <3>1
    <3> QED  BY <3>2 DEF InFront
  <2> QED  BY <2>1, <2>2, <2>3
<1> QED  BY <1>6, <1>7 DEF u

\* What the first k of the sets S hold.
Together(S, k) == UNION {S[h] : h \in 1..k}
\* r lists the first k of the sets S, one after the other, each as its row does.
Joined(r, rows, S, k) ==
    /\ Lists(r, Together(S, k))
    /\ \A h \in 1..k : \A i \in DOMAIN rows[h] : \E j \in DOMAIN r :
           /\ r[j] = rows[h][i]
           /\ InFront(r, j) = Together(S, h - 1) \cup InFront(rows[h], i)

\* One more row at the end.
LEMMA JoinedStep ==
    ASSUME NEW n \in Nat, NEW S, NEW rows,
           \A h \in 1..n : Lists(rows[h], S[h]),
           \A h, l \in 1..n : h # l => S[h] \cap S[l] = {},
           NEW k \in 0..n, k < n, NEW r, Joined(r, rows, S, k)
    PROVE  Joined(r \o rows[k + 1], rows, S, k + 1)
<1> DEFINE A == Together(S, k)
           t == rows[k + 1]
           B == S[k + 1]
           u == r \o t
<1>1. k + 1 \in 1..n /\ k \in Nat /\ (k + 1) - 1 = k
  OBVIOUS
<1>2. Lists(r, A) /\ Lists(t, B)
  BY <1>1 DEF Joined
<1>3. A \cap B = {}
  <2>1. ASSUME NEW h \in 1..k PROVE S[h] \cap B = {}
    <3>1. h \in 1..n /\ h # k + 1
      BY <1>1
    <3> QED  BY <1>1, <3>1
  <2> QED  BY <2>1 DEF Together
<1>4. A \cup B = Together(S, k + 1)
  <2>1. 1..(k + 1) = (1..k) \cup {k + 1}
    BY <1>1
  <2> QED  BY <2>1 DEF Together
<1> HIDE DEF A, B, t
<1>5. Lists(u, A \cup B) /\ Concats(u, r, t)
  BY <1>2, <1>3, ConcatIs
<1>8. \A i \in DOMAIN r : InFront(u, i) = InFront(r, i)
  BY <1>2, <1>3, ConcatFront
<1>9. \A i \in DOMAIN t : InFront(u, Len(r) + i) = A \cup InFront(t, i)
  BY <1>2, <1>3, ConcatFront
<1> HIDE DEF u
<1>6. \A i \in DOMAIN r : u[i] = r[i]
  BY <1>5 DEF Concats
<1>7. \A i \in DOMAIN t : u[Len(r) + i] = t[i]
  BY <1>5 DEF Concats
<1>10. Len(u) = Len(r) + Len(t)
  BY <1>5 DEF Concats
<1>11. /\ DOMAIN u = 1..(Len(r) + Len(t)) /\ DOMAIN r = 1..Len(r) /\ DOMAIN t = 1..Len(t)
       /\ Len(r) \in Nat /\ Len(t) \in Nat
  BY <1>2, <1>5, <1>10, ListsSet
<1>12. ASSUME NEW h \in 1..(k + 1), NEW i \in DOMAIN rows[h]
       PROVE  \E j \in DOMAIN u : /\ u[j] = rows[h][i]
                                  /\ InFront(u, j) = Together(S, h - 1) \cup InFront(rows[h], i)
  <2>1. CASE h \in 1..k
    <3>1. PICK j \in DOMAIN r : /\ r[j] = rows[h][i]
                                /\ InFront(r, j) = Together(S, h - 1) \cup InFront(rows[h], i)
      BY <1>12, <2>1 DEF Joined
    <3>2. j \in DOMAIN u
      BY <1>11
    <3> QED  BY <1>6, <1>8, <3>1, <3>2
  <2>2. CASE h = k + 1
    <3>1. i \in DOMAIN t /\ rows[h] = t /\ h - 1 = k
      BY <1>1, <1>12, <2>2 DEF t
    <3>2. Len(r) + i \in DOMAIN u
      BY <1>11, <3>1
    <3>3. u[Len(r) + i] = t[i] /\ InFront(u, Len(r) + i) = A \cup InFront(t, i)
      BY <1>7, <1>9, <3>1
    <3> QED  BY <3>1, <3>2, <3>3 DEF A
  <2> QED  BY <1>1, <2>1, <2>2
<1>13. Joined(u, rows, S, k + 1)
  BY <1>4, <1>5, <1>12 DEF Joined
<1> QED  BY <1>13 DEF u, t

\* FlattenSeq makes one row of rows of disjoint sets.
LEMMA FlattenIs ==
    ASSUME NEW n \in Nat, NEW X, NEW S \in [1..n -> SUBSET X], NEW rows \in [1..n -> Seq(X)],
           \A h \in 1..n : Lists(rows[h], S[h]),
           \A h, l \in 1..n : h # l => S[h] \cap S[l] = {}
    PROVE  Joined(FlattenSeq(rows), rows, S, n)
<1>1. rows \in Seq(Seq(X)) /\ Len(rows) = n /\ DOMAIN rows = 1..n
  OBVIOUS
<1>2. CASE n = 0
  <2>1. FlattenSeq(rows) = rows /\ rows = <<>>
    BY <1>1, <1>2 DEF FlattenSeq
  <2>2. Together(S, 0) = {} /\ DOMAIN <<>> = {} /\ 1..0 = {}
    BY DEF Together
  <2>3. Lists(<<>>, {})
    BY <2>2 DEF Lists
  <2> QED  BY <1>2, <2>1, <2>2, <2>3 DEF Joined
<1>3. CASE n # 0
  <2> DEFINE Flat(f) == f = [i \in 1..n |-> IF i = 1 THEN rows[i] ELSE f[i - 1] \o rows[i]]
             V == Seq(X)
             next == [i \in 1..n |-> IF i = 1 THEN 1 ELSE i - 1]
             m == [i \in 1..n |-> i]
             G == [i \in 1..n |-> [v \in V |-> IF i = 1 THEN rows[i] ELSE v \o rows[i]]]
  <2>1. \E f : Flat(f)
    <3>1. Rule(1..n, V, n, m, next, G)
      <4>1. m \in [1..n -> 0..n] /\ next \in [1..n -> 1..n]
        BY <1>3
      <4>2. G \in [1..n -> [V -> V]]
        <5>1. ASSUME NEW i \in 1..n, NEW v \in V PROVE v \o rows[i] \in V /\ rows[i] \in V
          OBVIOUS
        <5> HIDE DEF V
        <5> QED  BY <5>1
      <4>3. ASSUME NEW i \in 1..n
            PROVE m[next[i]] < m[i] \/ \A u, w \in V : G[i][u] = G[i][w]
        <5> HIDE DEF V
        <5> QED  OBVIOUS
      <4>4. V # {}
        BY <1>3
      <4> HIDE DEF V, m, next, G
      <4> QED  BY <4>1, <4>2, <4>3, <4>4 DEF Rule
    <3> HIDE DEF V, m, next, G
    <3>2. PICK f : Obeys(f, 1..n, V, next, G)
      BY <3>1, Recursion
    <3>3. ASSUME NEW i \in 1..n PROVE f[i] = IF i = 1 THEN rows[i] ELSE f[i - 1] \o rows[i]
      <4>1. next[i] \in 1..n /\ (i # 1 => next[i] = i - 1)
        BY DEF next
      <4>2. f[next[i]] \in V /\ f[i] = G[i][f[next[i]]]
        BY <3>2, <4>1 DEF Obeys
      <4>3. f[i] = IF i = 1 THEN rows[i] ELSE f[next[i]] \o rows[i]
        BY <4>2 DEF G
      <4> QED  BY <4>1, <4>3
    <3>4. f = [i \in 1..n |-> f[i]]
      BY <3>2 DEF Obeys
    <3>5. Flat(f)
      BY <3>3, <3>4
    <3> HIDE DEF Flat
    <3> QED  BY <3>5
  <2>2. PICK f : f = CHOOSE g : Flat(g)
    OBVIOUS
  <2>3. FlattenSeq(rows) = f[n]
    BY <1>1, <1>3, <2>2 DEF FlattenSeq
  <2>4. Flat(f)
    <3> HIDE DEF Flat
    <3> QED  BY <2>1, <2>2
  <2>5. \A i \in 1..n : f[i] = IF i = 1 THEN rows[i] ELSE f[i - 1] \o rows[i]
    BY <2>4
  <2> HIDE DEF Flat, V, next, m, G
  <2>6. PICK T : T = {k \in 0..n : k = 0 \/ Joined(f[k], rows, S, k)}
    OBVIOUS
  <2>7. ASSUME NEW k \in 0..n, k < n, k \in T PROVE k + 1 \in T
    <3>1. k + 1 \in 1..n /\ (k + 1) - 1 = k
      BY <2>7
    <3>2. CASE k = 0
      <4>1. f[1] = rows[1] /\ 1 \in 1..n
        BY <2>5, <3>1, <3>2
      <4>2. Together(S, 1) = S[1] /\ Together(S, 0) = {}
        BY DEF Together
      <4>3. Lists(f[1], Together(S, 1))
        BY <4>1, <4>2
      <4>4. ASSUME NEW h \in 1..1, NEW i \in DOMAIN rows[h]
            PROVE  \E j \in DOMAIN f[1] : /\ f[1][j] = rows[h][i]
                                          /\ InFront(f[1], j) = Together(S, h - 1) \cup InFront(rows[h], i)
        <5>1. h = 1 /\ h - 1 = 0
          OBVIOUS
        <5> QED  BY <4>1, <4>2, <4>4, <5>1
      <4>5. Joined(f[1], rows, S, 1)
        BY <4>3, <4>4 DEF Joined
      <4> QED  BY <2>6, <3>1, <3>2, <4>5
    <3>3. CASE k # 0
      <4>1. Joined(f[k], rows, S, k)
        BY <2>6, <2>7, <3>3
      <4>2. f[k + 1] = f[k] \o rows[k + 1]
        <5>1. k + 1 # 1
          BY <2>7, <3>3
        <5> QED  BY <2>5, <3>1, <5>1
      <4>3. Joined(f[k] \o rows[k + 1], rows, S, k + 1)
        <5>1. /\ n \in Nat /\ k \in 0..n /\ k < n
              /\ \A h \in 1..n : Lists(rows[h], S[h])
              /\ \A h, l \in 1..n : h # l => S[h] \cap S[l] = {}
          BY <2>7
        <5> QED  BY <4>1, <5>1, JoinedStep
      <4>4. Joined(f[k + 1], rows, S, k + 1)
        BY <4>2, <4>3
      <4> QED  BY <2>6, <3>1, <4>4
    <3> QED  BY <3>2, <3>3
  <2>8. 0..n \subseteq T
    <3>1. 0 \in T
      BY <2>6
    <3> QED  BY <2>7, <3>1, UpTo
  <2> QED  BY <1>3, <2>3, <2>6, <2>8
<1> QED  BY <1>2, <1>3
-----------------------------------------------------------------------------
(* The tree of collections, and its order.                                  *)

\* Each collection has a place among its siblings.
IsTree == \A c \in Collections : order[c] \in Nat

\* A walk towards the root remembers where it has been; no collection being below
\* itself, that never ends it.
LEMMA OrderPathIs ==
    ASSUME IsTree, QueuesAssumption, TreeAssumption, NEW c \in Collections
    PROVE  /\ OrderPath(c) \in Seq(Nat)
           /\ Parent[c] \notin Collections => OrderPath(c) = <<order[c]>>
           /\ Parent[c] \in Collections => OrderPath(c) = Append(OrderPath(Parent[c]), order[c])
<1> DEFINE C == Collections
           X == DOMAIN Parent \cup {Parent[b] : b \in DOMAIN Parent}
           D == X \X SUBSET DOMAIN Parent
           Ends(x) == x[1] \notin DOMAIN Parent \ x[2]
           Up(f) == f = [x \in D |-> IF Ends(x) THEN <<>>
                                     ELSE Append(f[<<Parent[x[1]], x[2] \cup {x[1]}>>], order[x[1]])]
           V == Seq(Nat)
           K == Cardinality(C)
           next == [x \in D |-> IF Ends(x) THEN x ELSE <<Parent[x[1]], x[2] \cup {x[1]}>>]
           m == [x \in D |-> Cardinality(C \ x[2])]
           G == [x \in D |-> [v \in V |-> IF Ends(x) THEN <<>> ELSE Append(v, order[x[1]])]]
<1>1. IsFiniteSet(C) /\ DOMAIN Parent = C /\ K \in Nat
  BY FS_CardinalityType DEF QueuesAssumption
<1>2. ASSUME NEW x \in D
      PROVE  /\ x[1] \in X /\ x[2] \in SUBSET C /\ IsFiniteSet(C \ x[2])
             /\ Cardinality(C \ x[2]) \in 0..K
             /\ ~Ends(x) => /\ x[1] \in C /\ x[1] \notin x[2]
                            /\ <<Parent[x[1]], x[2] \cup {x[1]}>> \in D
                            /\ Cardinality(C \ (x[2] \cup {x[1]})) = Cardinality(C \ x[2]) - 1
  <2>1. x[1] \in X /\ x[2] \in SUBSET C
    BY <1>1
  <2>2. IsFiniteSet(C \ x[2]) /\ Cardinality(C \ x[2]) <= Cardinality(C)
    <3>1. C \ x[2] \in SUBSET C
      OBVIOUS
    <3> QED  BY <1>1, <3>1, FS_Subset
  <2>3. Cardinality(C \ x[2]) \in Nat
    BY <2>2, FS_CardinalityType
  <2>4. ASSUME ~Ends(x)
        PROVE  /\ x[1] \in C /\ x[1] \notin x[2]
               /\ <<Parent[x[1]], x[2] \cup {x[1]}>> \in D
               /\ Cardinality(C \ (x[2] \cup {x[1]})) = Cardinality(C \ x[2]) - 1
    <3>1. x[1] \in C /\ x[1] \notin x[2]
      BY <1>1, <2>4
    <3>2. C \ (x[2] \cup {x[1]}) = (C \ x[2]) \ {x[1]} /\ x[1] \in C \ x[2]
      BY <3>1
    <3>3. Cardinality((C \ x[2]) \ {x[1]}) = Cardinality(C \ x[2]) - 1
      <4>1. PICK T, a : T = C \ x[2] /\ a = x[1]
        OBVIOUS
      <4>2. IsFiniteSet(T) /\ a \in T
        BY <2>2, <3>2, <4>1
      <4>3. Cardinality(T \ {a}) = Cardinality(T) - 1
        BY <4>2, FS_RemoveElement
      <4> QED  BY <4>1, <4>3
    <3>4. Parent[x[1]] \in X /\ x[2] \cup {x[1]} \in SUBSET DOMAIN Parent
      BY <1>1, <2>1, <3>1
    <3> QED  BY <3>1, <3>2, <3>3, <3>4
  <2> HIDE DEF D, Ends
  <2> QED  BY <2>1, <2>2, <2>3, <2>4
<1>3. \E f : Up(f) /\ f \in [D -> V]
  <2>1. m \in [D -> 0..K]
    <3> HIDE DEF D, Ends
    <3> QED  BY <1>2
  <2>2. next \in [D -> D]
    <3> HIDE DEF D, Ends
    <3> QED  BY <1>2
  <2>3. G \in [D -> [V -> V]]
    <3>1. ASSUME NEW x \in D, NEW v \in V, ~Ends(x) PROVE Append(v, order[x[1]]) \in V
      <4>1. order[x[1]] \in Nat
        BY <1>2, <3>1 DEF IsTree
      <4> QED  BY <4>1
    <3>2. <<>> \in V
      OBVIOUS
    <3> HIDE DEF V, D, Ends
    <3> QED  BY <3>1, <3>2
  <2>4. ASSUME NEW x \in D PROVE m[next[x]] < m[x] \/ \A u, w \in V : G[x][u] = G[x][w]
    <3>1. CASE Ends(x)
      <4> HIDE DEF D, V, Ends
      <4> QED  BY <3>1
    <3>2. CASE ~Ends(x)
      <4>1. PICK y : y = <<Parent[x[1]], x[2] \cup {x[1]}>>
        OBVIOUS
      <4>2. y \in D /\ y[2] = x[2] \cup {x[1]}
        BY <1>2, <3>2, <4>1
      <4>3. next[x] = y
        <5> HIDE DEF D, Ends
        <5> QED  BY <3>2, <4>1
      <4>4. m[y] = Cardinality(C \ y[2]) /\ m[x] = Cardinality(C \ x[2])
        <5> HIDE DEF D
        <5> QED  BY <4>2
      <4>5. Cardinality(C \ y[2]) = Cardinality(C \ x[2]) - 1
        BY <1>2, <3>2, <4>2
      <4>6. Cardinality(C \ x[2]) \in Nat
        <5> HIDE DEF D, Ends, K
        <5>1. Cardinality(C \ x[2]) \in 0..K
          BY <1>2
        <5> QED  BY <1>1, <5>1
      <4> HIDE DEF next, m, G
      <4> QED  BY <4>3, <4>4, <4>5, <4>6
    <3> QED  BY <3>1, <3>2
  <2>5. Rule(D, V, K, m, next, G)
    <3>1. <<>> \in V
      OBVIOUS
    <3> HIDE DEF D, V, K, m, next, G
    <3> QED  BY <1>1, <2>1, <2>2, <2>3, <2>4, <3>1 DEF Rule
  <2>6. PICK f : Obeys(f, D, V, next, G)
    <3> HIDE DEF D, V, K, m, next, G
    <3> QED  BY <2>5, Recursion
  <2>7. ASSUME NEW x \in D
        PROVE  f[x] = IF Ends(x) THEN <<>>
                      ELSE Append(f[<<Parent[x[1]], x[2] \cup {x[1]}>>], order[x[1]])
    <3>1. next[x] \in D /\ f \in [D -> V] /\ f[x] = G[x][f[next[x]]]
      <4> HIDE DEF D, V, next, G
      <4> QED  BY <2>2, <2>6 DEF Obeys
    <3>2. f[x] = IF Ends(x) THEN <<>> ELSE Append(f[next[x]], order[x[1]])
      <4> HIDE DEF D, V, next, Ends
      <4> QED  BY <3>1
    <3>3. ~Ends(x) => next[x] = <<Parent[x[1]], x[2] \cup {x[1]}>>
      <4> HIDE DEF D, Ends
      <4> QED  OBVIOUS
    <3> HIDE DEF D, Ends, next
    <3> QED  BY <3>2, <3>3
  <2>8. f \in [D -> V] /\ f = [x \in D |-> f[x]]
    <3> HIDE DEF D, V, next, G
    <3> QED  BY <2>6 DEF Obeys
  <2>9. Up(f)
    <3> HIDE DEF D, V, Ends
    <3> QED  BY <2>7, <2>8
  <2> HIDE DEF D, V, Up
  <2> QED  BY <2>8, <2>9
<1>4. PICK up : up = CHOOSE g : Up(g)
  OBVIOUS
<1>5. \A b : OrderPath(b) = up[<<b, {}>>]
  BY <1>4 DEF OrderPath
<1>6. Up(up)
  <2> HIDE DEF Up
  <2> QED  BY <1>3, <1>4
<1>7. ASSUME NEW b \in X, NEW s \in SUBSET C
      PROVE  up[<<b, s>>] = IF b \in C /\ b \notin s
                            THEN Append(up[<<Parent[b], s \cup {b}>>], order[b])
                            ELSE <<>>
  <2>1. PICK x : x = <<b, s>>
    OBVIOUS
  <2>2. x \in D /\ x[1] = b /\ x[2] = s
    BY <1>1, <2>1
  <2>3. up[x] = IF Ends(x) THEN <<>>
                ELSE Append(up[<<Parent[x[1]], x[2] \cup {x[1]}>>], order[x[1]])
    <3> HIDE DEF D, Ends
    <3> QED  BY <1>6, <2>2
  <2>4. Ends(x) <=> ~(b \in C /\ b \notin s)
    BY <1>1, <2>2
  <2> HIDE DEF Ends, D
  <2> QED  BY <2>1, <2>2, <2>3, <2>4
<1>8. C \subseteq X /\ \A b \in C : Parent[b] \in X
  BY <1>1
<1> HIDE DEF D, Ends, Up, X, V, K, next, m, G
<1>9. PICK depth \in [C -> 0..K] : \A b \in C : Parent[b] \in C => depth[Parent[b]] < depth[b]
  BY DEF TreeAssumption, K
<1> DEFINE Ahead(b, s) == \A a \in s : depth[a] > depth[b]
<1>10. \A b \in C : \A s \in SUBSET C :
          Ahead(b, s) => up[<<b, s>>] = up[<<b, {}>>] /\ up[<<b, s>>] \in Seq(Nat)
  <2>1. PICK T : T = {k \in 0..(K + 1) : \A b \in C : \A s \in SUBSET C :
             (depth[b] < k /\ Ahead(b, s)) => up[<<b, s>>] = up[<<b, {}>>] /\ up[<<b, s>>] \in Seq(Nat)}
    OBVIOUS
  <2>2. 0 \in T
    <3>1. \A b \in C : ~(depth[b] < 0)
      BY <1>1, <1>9
    <3> HIDE DEF Ahead
    <3> QED  BY <1>1, <2>1, <3>1
  <2>3. ASSUME NEW k \in 0..(K + 1), k < K + 1, k \in T PROVE k + 1 \in T
    <3>1. ASSUME NEW b \in C, NEW s \in SUBSET C, depth[b] < k + 1, Ahead(b, s)
          PROVE  up[<<b, s>>] = up[<<b, {}>>] /\ up[<<b, s>>] \in Seq(Nat)
      <4>1. b \notin s /\ depth[b] \in Int /\ \A a \in s : depth[a] \in Int
        BY <1>1, <1>9, <3>1
      <4>2. /\ up[<<b, s>>] = Append(up[<<Parent[b], s \cup {b}>>], order[b])
            /\ up[<<b, {}>>] = Append(up[<<Parent[b], {b}>>], order[b])
        <5>1. b \in X /\ b \notin {} /\ {} \cup {b} = {b} /\ {} \in SUBSET C
          BY <1>8
        <5>2. up[<<b, s>>] = Append(up[<<Parent[b], s \cup {b}>>], order[b])
          BY <1>7, <4>1, <5>1
        <5>3. up[<<b, {}>>] = Append(up[<<Parent[b], {} \cup {b}>>], order[b])
          BY <1>7, <5>1
        <5> QED  BY <5>1, <5>2, <5>3
      <4>3. order[b] \in Nat
        BY DEF IsTree
      <4>4. /\ up[<<Parent[b], s \cup {b}>>] = up[<<Parent[b], {b}>>]
            /\ up[<<Parent[b], s \cup {b}>>] \in Seq(Nat)
        <5>1. CASE Parent[b] \notin C
          <6>1. s \cup {b} \in SUBSET C /\ {b} \in SUBSET C /\ Parent[b] \in X
            BY <1>8
          <6>2. up[<<Parent[b], s \cup {b}>>] = <<>> /\ up[<<Parent[b], {b}>>] = <<>>
            BY <1>7, <5>1, <6>1
          <6> QED  BY <6>2
        <5>2. CASE Parent[b] \in C
          <6>1. depth[Parent[b]] < depth[b] /\ depth[Parent[b]] \in Int
            BY <1>1, <1>9, <5>2
          <6>2. depth[Parent[b]] < k
            BY <2>3, <3>1, <4>1, <6>1
          <6>3. Ahead(Parent[b], s \cup {b}) /\ Ahead(Parent[b], {b})
            BY <3>1, <4>1, <6>1
          <6>4. s \cup {b} \in SUBSET C /\ {b} \in SUBSET C
            OBVIOUS
          <6> HIDE DEF Ahead
          <6>5. \A t \in SUBSET C : Ahead(Parent[b], t) =>
                    up[<<Parent[b], t>>] = up[<<Parent[b], {}>>] /\ up[<<Parent[b], t>>] \in Seq(Nat)
            BY <2>1, <2>3, <5>2, <6>2
          <6>6. /\ up[<<Parent[b], s \cup {b}>>] = up[<<Parent[b], {}>>]
                /\ up[<<Parent[b], s \cup {b}>>] \in Seq(Nat)
            BY <6>3, <6>4, <6>5
          <6>7. up[<<Parent[b], {b}>>] = up[<<Parent[b], {}>>]
            BY <6>3, <6>4, <6>5
          <6> QED  BY <6>6, <6>7
        <5> QED  BY <5>1, <5>2
      <4> QED  BY <4>2, <4>3, <4>4
    <3>2. k + 1 \in 0..(K + 1)
      BY <1>1, <2>3
    <3> HIDE DEF Ahead
    <3> QED  BY <2>1, <3>1, <3>2
  <2>4. K + 1 \in T
    <3>1. K + 1 \in Nat /\ K + 1 \in 0..(K + 1)
      BY <1>1
    <3> QED  BY <2>2, <2>3, <3>1, UpTo
  <2>5. \A b \in C : depth[b] < K + 1
    BY <1>1, <1>9
  <2> HIDE DEF Ahead
  <2> QED  BY <2>1, <2>4, <2>5
<1>11. ASSUME NEW b \in C PROVE up[<<b, {}>>] \in Seq(Nat)
  <2>1. {} \in SUBSET C /\ Ahead(b, {})
    OBVIOUS
  <2> HIDE DEF Ahead
  <2> QED  BY <1>10, <2>1
<1>12. up[<<c, {}>>] = Append(up[<<Parent[c], {c}>>], order[c])
  <2>1. c \in X /\ {} \cup {c} = {c} /\ {} \in SUBSET C /\ c \notin {}
    BY <1>8
  <2>2. up[<<c, {}>>] = Append(up[<<Parent[c], {} \cup {c}>>], order[c])
    BY <1>7, <2>1
  <2> QED  BY <2>1, <2>2
<1>13. CASE Parent[c] \notin C
  <2>1. up[<<Parent[c], {c}>>] = <<>>
    <3>1. Parent[c] \in X /\ {c} \in SUBSET C
      BY <1>8
    <3> QED  BY <1>7, <1>13, <3>1
  <2>2. Append(<<>>, order[c]) = <<order[c]>>
    OBVIOUS
  <2>3. OrderPath(c) = <<order[c]>>
    BY <1>5, <1>12, <2>1, <2>2
  <2>4. OrderPath(c) \in Seq(Nat)
    BY <1>5, <1>11
  <2> QED  BY <1>13, <2>3, <2>4
<1>14. CASE Parent[c] \in C
  <2>1. Ahead(Parent[c], {c}) /\ {c} \in SUBSET C
    <3>1. depth[Parent[c]] \in Int /\ depth[c] \in Int
      BY <1>1, <1>9, <1>14
    <3> QED  BY <1>9, <1>14, <3>1
  <2>2. up[<<Parent[c], {c}>>] = up[<<Parent[c], {}>>]
    <3> HIDE DEF Ahead
    <3> QED  BY <1>10, <1>14, <2>1
  <2> QED  BY <1>5, <1>11, <1>12, <1>14, <2>2
<1> QED  BY <1>13, <1>14

\* A collection and those it is below.
LEMMA AboveIs ==
    ASSUME QueuesAssumption, TreeAssumption, NEW c \in Collections
    PROVE  /\ Above[c] \subseteq Collections
           /\ Above[c] = IF Parent[c] \in Collections THEN Above[Parent[c]] \cup {c} ELSE {c}
<1> DEFINE C == Collections
           Up(f) == f = [b \in C |-> IF Parent[b] \in C THEN f[Parent[b]] \cup {b} ELSE {b}]
           V == SUBSET C
           K == Cardinality(C)
           next == [b \in C |-> IF Parent[b] \in C THEN Parent[b] ELSE b]
           G == [b \in C |-> [v \in V |-> IF Parent[b] \in C THEN v \cup {b} ELSE {b}]]
<1>1. K \in Nat
  BY FS_CardinalityType DEF QueuesAssumption
<1>2. PICK depth \in [C -> 0..K] : \A b \in C : Parent[b] \in C => depth[Parent[b]] < depth[b]
  BY DEF TreeAssumption
<1>3. \E f : Up(f) /\ f \in [C -> V]
  <2>1. next \in [C -> C] /\ G \in [C -> [V -> V]]
    OBVIOUS
  <2>2. ASSUME NEW b \in C PROVE depth[next[b]] < depth[b] \/ \A u, w \in V : G[b][u] = G[b][w]
    BY <1>2
  <2>3. Rule(C, V, K, depth, next, G)
    <3>1. {} \in V
      OBVIOUS
    <3> HIDE DEF V, K, next, G
    <3> QED  BY <1>1, <1>2, <2>1, <2>2, <3>1 DEF Rule
  <2>4. PICK f : Obeys(f, C, V, next, G)
    <3> HIDE DEF V, K, next, G
    <3> QED  BY <2>3, Recursion
  <2>5. ASSUME NEW b \in C PROVE f[b] = IF Parent[b] \in C THEN f[Parent[b]] \cup {b} ELSE {b}
    <3>1. next[b] \in C /\ f[next[b]] \in V /\ f[b] = G[b][f[next[b]]]
      <4> HIDE DEF V, next, G
      <4> QED  BY <2>1, <2>4 DEF Obeys
    <3>2. f[b] = IF Parent[b] \in C THEN f[next[b]] \cup {b} ELSE {b}
      <4> HIDE DEF V, next
      <4> QED  BY <3>1
    <3> HIDE DEF V, G
    <3> QED  BY <3>2
  <2>6. f \in [C -> V] /\ f = [b \in C |-> f[b]]
    <3> HIDE DEF V, next, G
    <3> QED  BY <2>4 DEF Obeys
  <2>7. Up(f)
    <3> HIDE DEF V
    <3> QED  BY <2>5, <2>6
  <2> HIDE DEF Up, V
  <2> QED  BY <2>6, <2>7
<1>4. Above = CHOOSE g : Up(g)
  BY DEF Above
<1>5. Up(Above)
  <2> HIDE DEF Up
  <2> QED  BY <1>3, <1>4
<1>6. \A b \in C : Above[b] = IF Parent[b] \in C THEN Above[Parent[b]] \cup {b} ELSE {b}
  <2> HIDE DEF C
  <2> QED  BY <1>5
<1>7. Above[c] \subseteq C
  <2>1. PICK T : T = {k \in 0..(K + 1) : \A b \in C : depth[b] < k => Above[b] \subseteq C}
    OBVIOUS
  <2>2. 0 \in T
    <3>1. \A b \in C : ~(depth[b] < 0)
      BY <1>1, <1>2
    <3> HIDE DEF K
    <3> QED  BY <1>1, <2>1, <3>1
  <2>3. ASSUME NEW k \in 0..(K + 1), k < K + 1, k \in T PROVE k + 1 \in T
    <3>1. ASSUME NEW b \in C, depth[b] < k + 1 PROVE Above[b] \subseteq C
      <4>1. CASE Parent[b] \in C
        <5>1. depth[Parent[b]] < k
          <6>1. depth[b] \in Int /\ depth[Parent[b]] \in Int /\ depth[Parent[b]] < depth[b] /\ k \in Int
            <7> HIDE DEF K
            <7> QED  BY <1>1, <1>2, <2>3, <4>1
          <6> QED  BY <3>1, <6>1
        <5>2. Above[Parent[b]] \subseteq C
          BY <2>1, <2>3, <4>1, <5>1
        <5>3. Above[b] = Above[Parent[b]] \cup {b}
          BY <1>6, <4>1
        <5> QED  BY <5>2, <5>3
      <4>2. CASE Parent[b] \notin C
        <5>1. Above[b] = {b}
          BY <1>6, <4>2
        <5> QED  BY <5>1
      <4> QED  BY <4>1, <4>2
    <3>2. k + 1 \in 0..(K + 1)
      <4> HIDE DEF K
      <4> QED  BY <1>1, <2>3
    <3> HIDE DEF K
    <3> QED  BY <2>1, <3>1, <3>2
  <2>4. K + 1 \in T
    <3>1. K + 1 \in Nat /\ K + 1 \in 0..(K + 1)
      <4> HIDE DEF K
      <4> QED  BY <1>1
    <3> HIDE DEF K
    <3> QED  BY <2>2, <2>3, <3>1, UpTo
  <2>5. depth[c] < K + 1
    <3> HIDE DEF K
    <3> QED  BY <1>1, <1>2
  <2> QED  BY <2>1, <2>4, <2>5
<1> QED  BY <1>6, <1>7

\* The path of a collection goes on from that of each it is below, and ends in its
\* order.
LEMMA AbovePaths ==
    ASSUME IsTree, QueuesAssumption, TreeAssumption
    PROVE  \A x \in Collections : \A c \in Above[x] :
               /\ c \in Collections
               /\ Len(OrderPath(c)) <= Len(OrderPath(x))
               /\ c # x => Len(OrderPath(c)) < Len(OrderPath(x))
               /\ \A i \in 1..Len(OrderPath(c)) : OrderPath(x)[i] = OrderPath(c)[i]
<1> DEFINE C == Collections
           K == Cardinality(C)
           Along(x) == \A c \in Above[x] :
               /\ Len(OrderPath(c)) <= Len(OrderPath(x))
               /\ c # x => Len(OrderPath(c)) < Len(OrderPath(x))
               /\ \A i \in 1..Len(OrderPath(c)) : OrderPath(x)[i] = OrderPath(c)[i]
<1>1. K \in Nat
  BY FS_CardinalityType DEF QueuesAssumption
<1>2. PICK depth \in [C -> 0..K] : \A b \in C : Parent[b] \in C => depth[Parent[b]] < depth[b]
  BY DEF TreeAssumption
<1>3. \A x \in C : OrderPath(x) \in Seq(Nat) /\ Above[x] \subseteq C
  BY OrderPathIs, AboveIs
<1>4. PICK T : T = {k \in 0..(K + 1) : \A x \in C : depth[x] < k => Along(x)}
  OBVIOUS
<1> HIDE DEF K
<1>5. 0 \in T
  <2>1. \A b \in C : ~(depth[b] < 0)
    BY <1>1, <1>2
  <2> HIDE DEF Along
  <2> QED  BY <1>1, <1>4, <2>1
<1>6. ASSUME NEW k \in 0..(K + 1), k < K + 1, k \in T PROVE k + 1 \in T
  <2>1. ASSUME NEW x \in C, depth[x] < k + 1 PROVE Along(x)
    <3>1. ASSUME Parent[x] \notin C PROVE Along(x)
      <4>1. Above[x] = {x}
        BY <3>1, AboveIs
      <4>2. Len(OrderPath(x)) \in Nat
        BY <1>3
      <4> QED  BY <4>1, <4>2
    <3>2. ASSUME Parent[x] \in C PROVE Along(x)
      <4> DEFINE y == Parent[x]
      <4>1. Above[x] = Above[y] \cup {x} /\ OrderPath(x) = Append(OrderPath(y), order[x])
        BY <3>2, AboveIs, OrderPathIs
      <4>2. depth[x] \in Int /\ depth[y] \in Int /\ depth[y] < depth[x] /\ k \in Int
        BY <1>1, <1>2, <1>6, <3>2
      <4>3. depth[y] < k
        BY <2>1, <4>2
      <4>4. Along(y)
        <5> HIDE DEF Along
        <5> QED  BY <1>4, <1>6, <3>2, <4>3
      <4>5. OrderPath(y) \in Seq(Nat) /\ OrderPath(x) \in Seq(Nat)
        BY <1>3, <3>2
      <4> HIDE DEF y
      <4>6. /\ Len(OrderPath(x)) = Len(OrderPath(y)) + 1 /\ Len(OrderPath(y)) \in Nat
            /\ \A i \in 1..Len(OrderPath(y)) : OrderPath(x)[i] = OrderPath(y)[i]
        BY <4>1, <4>5
      <4>7. ASSUME NEW c \in Above[x]
            PROVE  /\ Len(OrderPath(c)) <= Len(OrderPath(x))
                   /\ c # x => Len(OrderPath(c)) < Len(OrderPath(x))
                   /\ \A i \in 1..Len(OrderPath(c)) : OrderPath(x)[i] = OrderPath(c)[i]
        <5>1. Len(OrderPath(c)) \in Nat
          BY <1>3
        <5>2. CASE c = x
          BY <4>6, <5>2
        <5>3. CASE c \in Above[y]
          BY <4>4, <4>6, <5>1, <5>3
        <5> QED  BY <4>1, <5>2, <5>3
      <4> QED  BY <4>7
    <3> HIDE DEF Along
    <3> QED  BY <3>1, <3>2
  <2>2. k + 1 \in 0..(K + 1)
    BY <1>1, <1>6
  <2> HIDE DEF Along
  <2> QED  BY <1>4, <2>1, <2>2
<1>7. K + 1 \in T
  <2>1. K + 1 \in Nat /\ K + 1 \in 0..(K + 1)
    BY <1>1
  <2> QED  BY <1>5, <1>6, <2>1, UpTo
<1>8. \A x \in C : depth[x] < K + 1
  BY <1>1, <1>2
<1>9. \A x \in C : Along(x)
  <2> HIDE DEF Along
  <2> QED  BY <1>4, <1>7, <1>8
<1> QED  BY <1>3, <1>9

\* Where two paths part.
Parts(a, b, i) ==
    /\ i \in 1..Len(b) /\ i - 1 <= Len(a)
    /\ \A k \in 1..(i - 1) : a[k] = b[k]
    /\ Len(a) = i - 1 \/ a[i] < b[i]

\* A path comes before another where it ends first or goes on lower.
LEMMA LexicographicIs ==
    ASSUME NEW a \in Seq(Nat), NEW b \in Seq(Nat)
    PROVE  Lexicographic(a, b) <=> \E i \in Nat : Parts(a, b, i)
<1>1. ASSUME NEW i \in 1..Len(b), Len(a) >= i - 1
      PROVE  SubSeq(a, 1, i - 1) = SubSeq(b, 1, i - 1) <=> \A k \in 1..(i - 1) : a[k] = b[k]
  <2>1. i - 1 \in 0..Len(a) /\ i - 1 \in 0..Len(b)
    BY <1>1
  <2>2. SubSeq(a, 1, i - 1) = [k \in 1..(i - 1) |-> a[k]]
        /\ SubSeq(b, 1, i - 1) = [k \in 1..(i - 1) |-> b[k]]
    BY <2>1
  <2> QED  BY <2>2
<1>2. \A i \in 1..Len(b) : i \in Nat /\ (Len(a) >= i - 1 <=> i - 1 <= Len(a))
  OBVIOUS
<1> QED  BY <1>1, <1>2 DEF Lexicographic, Parts

\* Paths are compared by a strict order of all that differ.
LEMMA LexicographicOrder ==
    ASSUME NEW a \in Seq(Nat), NEW b \in Seq(Nat), NEW c \in Seq(Nat)
    PROVE  /\ ~(Lexicographic(a, b) /\ Lexicographic(b, a))
           /\ Lexicographic(a, b) /\ Lexicographic(b, c) => Lexicographic(a, c)
           /\ a # b => Lexicographic(a, b) \/ Lexicographic(b, a)
<1>1. /\ Len(a) \in Nat /\ Len(b) \in Nat /\ Len(c) \in Nat
      /\ \A i \in 1..Len(a) : a[i] \in Nat
      /\ \A i \in 1..Len(b) : b[i] \in Nat
      /\ \A i \in 1..Len(c) : c[i] \in Nat
  OBVIOUS
<1>2. ASSUME NEW i \in Nat, Parts(a, b, i), NEW j \in Nat, Parts(b, a, j) PROVE FALSE
  <2>1. i \in 1..Len(b) /\ j \in 1..Len(a) /\ i - 1 <= Len(a) /\ j - 1 <= Len(b)
    BY <1>2 DEF Parts
  <2>2. CASE i < j
    BY <1>1, <1>2, <2>1, <2>2 DEF Parts
  <2>3. CASE j < i
    BY <1>1, <1>2, <2>1, <2>3 DEF Parts
  <2>4. CASE i = j
    BY <1>1, <1>2, <2>1, <2>4 DEF Parts
  <2> QED  BY <2>2, <2>3, <2>4
<1>3. ASSUME NEW i \in Nat, Parts(a, b, i), NEW j \in Nat, Parts(b, c, j)
      PROVE  \E k \in Nat : Parts(a, c, k)
  <2>1. i \in 1..Len(b) /\ j \in 1..Len(c) /\ i - 1 <= Len(a) /\ j - 1 <= Len(b)
    BY <1>3 DEF Parts
  <2>2. CASE i < j
    <3>1. b[i] = c[i] /\ i \in 1..Len(c)
      BY <1>1, <1>3, <2>1, <2>2 DEF Parts
    <3>2. \A k \in 1..(i - 1) : a[k] = c[k]
      BY <1>1, <1>3, <2>1, <2>2 DEF Parts
    <3>3. Parts(a, c, i)
      BY <1>3, <3>1, <3>2 DEF Parts
    <3> QED  BY <3>3
  <2>3. CASE j <= i
    <3>1. b[j] < c[j] /\ j - 1 <= Len(a)
      BY <1>1, <1>3, <2>1, <2>3 DEF Parts
    <3>2. \A k \in 1..(j - 1) : a[k] = c[k]
      BY <1>1, <1>3, <2>1, <2>3 DEF Parts
    <3>3. Len(a) = j - 1 \/ a[j] < c[j]
      <4>1. CASE j < i
        <5>1. a[j] = b[j]
          BY <1>1, <1>3, <2>1, <4>1 DEF Parts
        <5> QED  BY <3>1, <5>1
      <4>2. CASE j = i
        <5>1. Len(a) = j - 1 \/ a[j] < b[j]
          BY <1>3, <4>2 DEF Parts
        <5>2. Len(a) # j - 1 => a[j] \in Nat /\ b[j] \in Nat /\ c[j] \in Nat
          BY <1>1, <2>1, <3>1, <4>2
        <5> QED  BY <3>1, <5>1, <5>2
      <4> QED  BY <2>3, <4>1, <4>2
    <3>4. Parts(a, c, j)
      BY <2>1, <3>1, <3>2, <3>3 DEF Parts
    <3> QED  BY <3>4
  <2> QED  BY <2>2, <2>3
<1>4. ASSUME a # b PROVE \E i \in Nat : Parts(a, b, i) \/ Parts(b, a, i)
  <2>1. PICK T : T = {i \in Nat \ {0} : \/ i = Len(a) + 1 \/ i = Len(b) + 1
                                        \/ i <= Len(a) /\ i <= Len(b) /\ a[i] # b[i]}
    OBVIOUS
  <2>2. PICK i \in T : \A k \in T : i <= k
    <3>1. Len(a) + 1 \in T /\ T \in SUBSET Nat
      BY <1>1, <2>1
    <3> QED  BY <3>1, Least
  <2>3. i \in Nat \ {0} /\ i - 1 <= Len(a) /\ i - 1 <= Len(b)
    <3>1. Len(a) + 1 \in T /\ Len(b) + 1 \in T
      BY <1>1, <2>1
    <3>2. i \in Nat \ {0} /\ i <= Len(a) + 1 /\ i <= Len(b) + 1
      BY <2>1, <2>2, <3>1
    <3> QED  BY <1>1, <3>2
  <2>4. ASSUME NEW k \in 1..(i - 1) PROVE a[k] = b[k]
    <3>1. k \in Nat \ {0} /\ ~(i <= k) /\ k <= Len(a) /\ k <= Len(b)
      BY <1>1, <2>3
    <3> QED  BY <2>1, <2>2, <3>1
  <2>5. CASE Len(a) = i - 1 /\ Len(b) = i - 1
    <3>1. \A k \in 1..Len(a) : a[k] = b[k]
      BY <2>4, <2>5
    <3> QED  BY <1>1, <1>4, <2>5, <3>1
  <2>6. CASE Len(a) = i - 1 /\ Len(b) # i - 1
    <3>1. i \in 1..Len(b)
      BY <1>1, <2>3, <2>6
    <3> QED  BY <2>3, <2>4, <2>6, <3>1 DEF Parts
  <2>7. CASE Len(a) # i - 1 /\ Len(b) = i - 1
    <3>1. i \in 1..Len(a)
      BY <1>1, <2>3, <2>7
    <3> QED  BY <2>3, <2>4, <2>7, <3>1 DEF Parts
  <2>8. CASE Len(a) # i - 1 /\ Len(b) # i - 1
    <3>1. Len(a) \in Nat /\ Len(b) \in Nat
      OBVIOUS
    <3>2. i \in 1..Len(a) /\ i \in 1..Len(b)
      BY <2>3, <2>8, <3>1
    <3>3. a[i] # b[i] /\ a[i] \in Nat /\ b[i] \in Nat
      BY <1>1, <2>1, <2>2, <2>3, <2>8, <3>2
    <3>4. CASE a[i] < b[i]
      BY <2>3, <2>4, <3>2, <3>4 DEF Parts
    <3>5. CASE b[i] < a[i]
      BY <2>3, <2>4, <3>2, <3>5 DEF Parts
    <3> QED  BY <3>3, <3>4, <3>5
  <2> QED  BY <2>5, <2>6, <2>7, <2>8
<1>5. ~(Lexicographic(a, b) /\ Lexicographic(b, a))
  BY <1>2, LexicographicIs
<1>6. Lexicographic(a, b) /\ Lexicographic(b, c) => Lexicographic(a, c)
  BY <1>3, LexicographicIs
<1>7. a # b => Lexicographic(a, b) \/ Lexicographic(b, a)
  BY <1>4, LexicographicIs
<1> QED  BY <1>5, <1>6, <1>7
-----------------------------------------------------------------------------
(* The queue of a minion.                                                   *)

\* The policies of a collection.
Class(c) == {p \in Existing : collOf[p] = c}

\* A minion has a policy once, each in a collection, and what it requires is in the
\* same one: both are looked at when a policy is written, and no policy moves.
QueueInv ==
    /\ Lists(docs, Existing) /\ Existing \subseteq Policies
    /\ collOf \in [Policies -> Collections \cup {None}]
    /\ needs \in [Policies -> SUBSET Policies]
    /\ weight \in [Policies -> Nat] /\ order \in [Collections -> Nat]
    /\ \A p \in Existing : collOf[p] \in Collections /\ needs[p] \subseteq Class(collOf[p])

\* The collections a minion has policies of stand in a row, those of lower paths
\* first, and two of the same path by their first policies.
LEMMA GroupsAre ==
    ASSUME QueueInv, QueuesAssumption, TreeAssumption
    PROVE  \E groups, rows :
               /\ Lists(groups, {collOf[p] : p \in Existing})
               /\ \A h, l \in DOMAIN groups :
                      Lexicographic(OrderPath(groups[h]), OrderPath(groups[l])) => h < l
               /\ rows = [h \in DOMAIN groups |->
                              OrderByRequirements(Those(docs, Class(groups[h])), needs)]
               /\ Queue = FlattenSeq(rows)
<1> DEFINE colls == {collOf[p] : p \in ToSet(docs)}
           First(c) == CHOOSE i \in DOMAIN docs :
                           collOf[docs[i]] = c /\ \A k \in 1..(i - 1) : collOf[docs[k]] # c
           R == {x \in colls \X colls :
                     \/ Lexicographic(OrderPath(x[1]), OrderPath(x[2]))
                     \/ OrderPath(x[1]) = OrderPath(x[2]) /\ First(x[1]) < First(x[2])}
           groups == Ranked(colls, R)
           Group(c) == Those(docs, {p \in ToSet(docs) : collOf[p] = c})
           rows == [i \in DOMAIN groups |-> OrderByRequirements(Group(groups[i]), needs)]
<1>1. Queue = FlattenSeq(rows)
  BY DEF Queue, QueueOf
<1>2. /\ colls = {collOf[p] : p \in Existing} /\ colls \subseteq Collections
      /\ DOMAIN docs = 1..Len(docs) /\ Len(docs) \in Nat
  BY ListsSet DEF QueueInv, Existing
<1>3. IsFiniteSet(colls)
  <2> HIDE DEF colls
  <2> QED  BY <1>2, FS_Subset DEF QueuesAssumption
<1>4. ASSUME NEW c \in colls PROVE First(c) \in DOMAIN docs /\ collOf[docs[First(c)]] = c
  <2>1. PICK i \in DOMAIN docs : collOf[docs[i]] = c
    BY <1>2 DEF QueueInv, Lists, Existing
  <2>2. PICK T : T = {k \in DOMAIN docs : collOf[docs[k]] = c}
    OBVIOUS
  <2>3. PICK k \in T : \A l \in T : k <= l
    <3>1. T \in SUBSET Nat /\ i \in T
      BY <1>2, <2>1, <2>2
    <3> QED  BY <3>1, Least
  <2>4. k \in DOMAIN docs /\ collOf[docs[k]] = c /\ k \in Nat
    BY <1>2, <2>2
  <2>5. \A l \in 1..(k - 1) : collOf[docs[l]] # c
    <3>1. ASSUME NEW l \in 1..(k - 1) PROVE l \in DOMAIN docs /\ ~(k <= l)
      BY <1>2, <2>4
    <3> QED  BY <2>2, <2>3, <3>1
  <2>6. First(c) = CHOOSE j \in DOMAIN docs :
            collOf[docs[j]] = c /\ \A l \in 1..(j - 1) : collOf[docs[l]] # c
    OBVIOUS
  <2> HIDE DEF First
  <2> QED  BY <2>4, <2>5, <2>6, Zenon
<1> HIDE DEF First
<1>5. \A c \in colls : OrderPath(c) \in Seq(Nat) /\ First(c) \in Int
  <2>1. IsTree
    BY DEF QueueInv, IsTree
  <2>2. \A c \in colls : OrderPath(c) \in Seq(Nat)
    <3> HIDE DEF colls
    <3> QED  BY <1>2, <2>1, OrderPathIs
  <2> HIDE DEF colls
  <2> QED  BY <1>2, <1>4, <2>2
<1>6. ASSUME NEW c \in colls, NEW d \in colls, c # d PROVE First(c) # First(d)
  <2> HIDE DEF colls
  <2> QED  BY <1>4, <1>6
<1>7. ASSUME NEW c \in colls, NEW d \in colls
      PROVE  <<c, d>> \in R <=> \/ Lexicographic(OrderPath(c), OrderPath(d))
                                \/ OrderPath(c) = OrderPath(d) /\ First(c) < First(d)
  <2> HIDE DEF colls
  <2> QED  OBVIOUS
<1> HIDE DEF R, colls
<1>8. ASSUME NEW c \in colls, NEW d \in colls, NEW e \in colls
      PROVE  /\ <<c, d>> \in R => <<d, c>> \notin R
             /\ <<c, d>> \in R /\ <<d, e>> \in R => <<c, e>> \in R
             /\ c # d => <<c, d>> \in R \/ <<d, c>> \in R
  <2>1. PICK a, b, f : a = OrderPath(c) /\ b = OrderPath(d) /\ f = OrderPath(e)
    OBVIOUS
  <2>2. a \in Seq(Nat) /\ b \in Seq(Nat) /\ f \in Seq(Nat)
    BY <1>5, <2>1
  <2>3. PICK L : /\ L[1] = Lexicographic(a, b) /\ L[2] = Lexicographic(b, a)
                 /\ L[3] = Lexicographic(b, f) /\ L[4] = Lexicographic(a, f)
                 /\ L[5] = Lexicographic(a, a)
    <3>1. PICK M : M = <<Lexicographic(a, b), Lexicographic(b, a), Lexicographic(b, f),
                         Lexicographic(a, f), Lexicographic(a, a)>>
      OBVIOUS
    <3> QED  BY <3>1
  <2> QED  BY <1>5, <1>6, <1>7, <2>1, <2>2, LexicographicOrder
<1>9. StrictOrder(colls, R)
  BY <1>8 DEF StrictOrder
<1>10. /\ Lists(groups, colls)
       /\ \A i, k \in DOMAIN groups : i < k => <<groups[i], groups[k]>> \in R
  BY <1>3, <1>9, RankedIs
<1> HIDE DEF groups
<1>11. ASSUME NEW h \in DOMAIN groups, NEW l \in DOMAIN groups,
              Lexicographic(OrderPath(groups[h]), OrderPath(groups[l]))
       PROVE  h < l
  <2>1. groups[h] \in colls /\ groups[l] \in colls /\ h \in Int /\ l \in Int
    BY <1>10, ListsSet
  <2>2. <<groups[h], groups[l]>> \in R
    BY <1>7, <1>11, <2>1
  <2>3. <<groups[l], groups[h]>> \notin R /\ groups[h] # groups[l]
    BY <1>8, <2>1, <2>2
  <2>4. ~(l < h) /\ h # l
    BY <1>10, <2>3
  <2> QED  BY <2>1, <2>4
<1>12. \A c : Class(c) = {p \in ToSet(docs) : collOf[p] = c}
  BY DEF Class, Existing
<1>13. rows = [h \in DOMAIN groups |-> OrderByRequirements(Those(docs, Class(groups[h])), needs)]
  BY <1>12
<1> HIDE DEF rows
<1> QED  BY <1>1, <1>2, <1>10, <1>11, <1>13

\* Each collection's policies stand in turn, one collection after the other.
LEMMA QueueRows ==
    ASSUME QueueInv, QueuesAssumption, TreeAssumption
    PROVE  \E n \in Nat : \E groups, rows, S, O :
               /\ Lists(groups, {collOf[p] : p \in Existing}) /\ Len(groups) = n
               /\ \A h, l \in 1..n :
                      Lexicographic(OrderPath(groups[h]), OrderPath(groups[l])) => h < l
               /\ \A h \in 1..n : S[h] = Class(groups[h]) /\ InTurn(rows[h], S[h], O[h])
               /\ Joined(Queue, rows, S, n)
<1>1. PICK groups, rows :
          /\ Lists(groups, {collOf[p] : p \in Existing})
          /\ \A h, l \in DOMAIN groups :
                 Lexicographic(OrderPath(groups[h]), OrderPath(groups[l])) => h < l
          /\ rows = [h \in DOMAIN groups |->
                         OrderByRequirements(Those(docs, Class(groups[h])), needs)]
          /\ Queue = FlattenSeq(rows)
  BY GroupsAre
<1>2. PICK n : n = Len(groups)
  OBVIOUS
<1>3. n \in Nat /\ DOMAIN groups = 1..n
  BY <1>1, <1>2, ListsSet
<1>4. PICK S : S = [h \in 1..n |-> Class(groups[h])]
  OBVIOUS
<1>5. S \in [1..n -> SUBSET Existing]
  BY <1>4 DEF Class
<1>6. \A h, l \in 1..n : h # l => S[h] \cap S[l] = {}
  <2>1. \A h, l \in 1..n : h # l => groups[h] # groups[l]
    BY <1>1, <1>3 DEF Lists
  <2> QED  BY <1>4, <2>1 DEF Class
<1>7. ASSUME NEW h \in 1..n PROVE \E Q \in SUBSET S[h] : InTurn(rows[h], S[h], Q)
  <2>1. PICK P : P = S[h]
    OBVIOUS
  <2>2. P = Class(groups[h]) /\ P \subseteq Existing /\ Existing \cap P = P
    BY <1>4, <2>1 DEF Class
  <2>3. PICK items : items = Those(docs, P)
    OBVIOUS
  <2>4. Lists(items, P)
    BY <2>2, <2>3, ThoseIs DEF QueueInv
  <2>5. Weighed(P)
    BY <2>2 DEF QueueInv, Weighed
  <2>6. rows[h] = OrderByRequirements(items, needs)
    BY <1>1, <1>3, <2>2, <2>3
  <2>7. \E Q \in SUBSET P : InTurn(OrderByRequirements(items, needs), P, Q)
    BY <2>4, <2>5, OrderIs
  <2> QED  BY <2>1, <2>6, <2>7
<1>8. PICK O : O = [h \in 1..n |-> CHOOSE Q \in SUBSET S[h] : InTurn(rows[h], S[h], Q)]
  OBVIOUS
<1>9. ASSUME NEW h \in 1..n PROVE InTurn(rows[h], S[h], O[h])
  <2>1. O[h] = CHOOSE Q \in SUBSET S[h] : InTurn(rows[h], S[h], Q)
    BY <1>8
  <2> QED  BY <1>7, <2>1, Zenon
<1>10. Joined(FlattenSeq(rows), rows, S, n)
  <2>1. \A h \in 1..n : Lists(rows[h], S[h])
    BY <1>9 DEF InTurn
  <2>2. rows \in [1..n -> Seq(Existing)]
    <3>1. ASSUME NEW h \in 1..n PROVE rows[h] \in Seq(Existing)
      <4>1. rows[h] \in Seq(S[h]) /\ S[h] \subseteq Existing
        BY <1>5, <2>1 DEF Lists
      <4> QED  BY <4>1
    <3> QED  BY <1>1, <1>3, <3>1
  <2>3. PICK X : X = Existing
    OBVIOUS
  <2>4. S \in [1..n -> SUBSET X] /\ rows \in [1..n -> Seq(X)]
    BY <1>5, <2>2, <2>3
  <2> QED  BY <1>3, <1>6, <2>1, <2>4, FlattenIs
<1> QED  BY <1>1, <1>2, <1>3, <1>4, <1>9, <1>10
-----------------------------------------------------------------------------
\* What comes before a policy in a row is what stands before its place.
LEMMA BeforeIs ==
    ASSUME NEW s, NEW S, Lists(s, S), NEW i \in DOMAIN s
    PROVE  Before(s, s[i]) = InFront(s, i)
<1>1. DOMAIN s = 1..Len(s) /\ Len(s) \in Nat /\ s \in Seq(S)
  BY ListsSet DEF Lists
<1>2. ASSUME NEW k \in DOMAIN s PROVE s[i] \notin ToSet(SubSeq(s, 1, k)) <=> k < i
  <2>1. k \in Nat /\ k <= Len(s) /\ i \in Nat /\ 1 <= i
    BY <1>1
  <2>2. SubSeq(s, 1, k) = [j \in 1..k |-> s[j]]
    BY <1>1, <2>1
  <2>3. ToSet(SubSeq(s, 1, k)) = {s[j] : j \in 1..k}
    BY <2>2 DEF ToSet
  <2>4. ASSUME k < i, s[i] \in ToSet(SubSeq(s, 1, k)) PROVE FALSE
    <3>1. PICK j \in 1..k : s[j] = s[i]
      BY <2>3, <2>4
    <3>2. j \in DOMAIN s /\ j # i
      BY <1>1, <2>1, <2>4, <3>1
    <3> QED  BY <3>1, <3>2 DEF Lists
  <2>5. ASSUME ~(k < i) PROVE s[i] \in ToSet(SubSeq(s, 1, k))
    <3>1. i \in 1..k
      BY <2>1, <2>5
    <3> QED  BY <2>3, <3>1
  <2> QED  BY <2>4, <2>5
<1>3. {k \in DOMAIN s : s[i] \notin ToSet(SubSeq(s, 1, k))} = {k \in DOMAIN s : k < i}
  BY <1>2
<1> QED  BY <1>3 DEF Before, InFront

\* At its place in its collection a policy either may follow those before it, which
\* then are all in order, or comes after all that are, the lightest of what is left.
LEMMA RowPlaces ==
    ASSUME NEW r, NEW P, NEW O, InTurn(r, P, O), Weighed(P), NEW i \in DOMAIN r
    PROVE  /\ InFront(r, i) \subseteq P /\ r[i] \in P
           /\ r[i] \in O => MayFollow(P, r[i], InFront(r, i)) /\ InFront(r, i) \subseteq O
           /\ r[i] \notin O => /\ O \subseteq InFront(r, i)
                               /\ \A q \in P \ InFront(r, i) : weight[r[i]] <= weight[q]
<1>1. /\ Lists(r, P) /\ O \subseteq P
      /\ \A k \in DOMAIN r : r[k] \in O => InFront(r, k) \subseteq O
      /\ \A k, l \in DOMAIN r : k < l /\ r[k] \notin O => weight[r[k]] <= weight[r[l]]
      /\ r[i] \in O => MayFollow(P, r[i], InFront(r, i)) /\ InFront(r, i) \subseteq O
  BY DEF InTurn
<1>2. /\ \A k \in DOMAIN r : r[k] \in P /\ k \in Int
      /\ \A x \in P : \E k \in DOMAIN r : r[k] = x
  BY <1>1, ListsSet DEF Lists
<1>3. InFront(r, i) \subseteq P /\ r[i] \in P
  BY <1>2 DEF InFront
<1>4. ASSUME r[i] \notin O, NEW o \in O PROVE o \in InFront(r, i)
  <2>1. PICK k \in DOMAIN r : r[k] = o
    BY <1>1, <1>2
  <2>2. ~(i < k)
    BY <1>1, <1>4, <2>1 DEF InFront
  <2>3. k < i
    BY <1>2, <1>4, <2>1, <2>2
  <2> QED  BY <2>1, <2>3 DEF InFront
<1>5. ASSUME r[i] \notin O, NEW q \in P \ InFront(r, i) PROVE weight[r[i]] <= weight[q]
  <2>1. PICK k \in DOMAIN r : r[k] = q
    BY <1>2
  <2>2. ~(k < i)
    BY <1>5, <2>1 DEF InFront
  <2>3. CASE i < k
    BY <1>1, <1>5, <2>1, <2>3
  <2>4. CASE i = k
    <3>1. weight[q] \in Int
      BY DEF Weighed
    <3> QED  BY <2>1, <2>4, <3>1
  <2> QED  BY <1>2, <2>2, <2>3, <2>4
<1> QED  BY <1>1, <1>3, <1>4, <1>5

\* p stands where its turn is, Q being the policies in no circle and behind none.
InPlace(Q, p) ==
    LET P == Class(collOf[p])
        F == Before(Queue, p) \cap P
    IN  /\ p \in Q => MayFollow(P, p, F) /\ F \subseteq Q
        /\ p \notin Q => /\ Q \cap P \subseteq F /\ (needs[p] \cap P) \ Q # {}
                         /\ \A q \in P \ F : weight[p] <= weight[q]

\* The queue lists the minion's policies, those of lower paths first, and each in
\* its turn.
LEMMA QueuePlaces ==
    ASSUME QueueInv, QueuesAssumption, TreeAssumption
    PROVE  /\ Lists(Queue, Existing)
           /\ \E Q \in SUBSET Existing : \A p \in Existing : InPlace(Q, p)
           /\ \A p, q \in Existing :
                  Lexicographic(OrderPath(collOf[p]), OrderPath(collOf[q])) => p \in Before(Queue, q)
<1>1. PICK n \in Nat : \E groups, rows, S, O :
          /\ Lists(groups, {collOf[p] : p \in Existing}) /\ Len(groups) = n
          /\ \A h, l \in 1..n :
                 Lexicographic(OrderPath(groups[h]), OrderPath(groups[l])) => h < l
          /\ \A h \in 1..n : S[h] = Class(groups[h]) /\ InTurn(rows[h], S[h], O[h])
          /\ Joined(Queue, rows, S, n)
  BY QueueRows
<1>2. PICK groups, rows, S, O :
          /\ Lists(groups, {collOf[p] : p \in Existing}) /\ Len(groups) = n
          /\ \A h, l \in 1..n :
                 Lexicographic(OrderPath(groups[h]), OrderPath(groups[l])) => h < l
          /\ \A h \in 1..n : S[h] = Class(groups[h]) /\ InTurn(rows[h], S[h], O[h])
          /\ Joined(Queue, rows, S, n)
  BY <1>1
<1>3. PICK r : r = Queue
  OBVIOUS
<1>4. /\ DOMAIN groups = 1..n
      /\ \A p \in Existing : \E h \in 1..n : groups[h] = collOf[p]
      /\ \A h, l \in 1..n : groups[h] = groups[l] => h = l
  <2>1. PICK T : T = {collOf[p] : p \in Existing}
    OBVIOUS
  <2>2. Lists(groups, T) /\ Len(groups) = n
    BY <1>2, <2>1
  <2>3. /\ DOMAIN groups = 1..n
        /\ \A x \in T : \E h \in DOMAIN groups : groups[h] = x
        /\ \A h, l \in DOMAIN groups : groups[h] = groups[l] => h = l
    BY <2>2, ListsSet DEF Lists
  <2>4. \A p \in Existing : collOf[p] \in T
    BY <2>1
  <2> QED  BY <2>3, <2>4
<1>5. ASSUME NEW p \in Existing
      PROVE  \E h \in 1..n : groups[h] = collOf[p] /\ p \in S[h] /\ S[h] = Class(collOf[p])
  BY <1>2, <1>4 DEF Class
<1>6. \A h, l \in 1..n : h # l => S[h] \cap S[l] = {}
  BY <1>2, <1>4 DEF Class
<1>7. \A h \in 1..n : S[h] \subseteq Existing
  BY <1>2 DEF Class
<1>8. Together(S, n) = Existing
  BY <1>5, <1>7 DEF Together
<1>9. Lists(r, Existing)
  BY <1>2, <1>3, <1>8 DEF Joined
<1>10. ASSUME NEW h \in 1..n, NEW p \in S[h]
       PROVE  \E i \in DOMAIN rows[h] : /\ rows[h][i] = p
                  /\ Before(r, p) = Together(S, h - 1) \cup InFront(rows[h], i)
  <2>1. Lists(rows[h], S[h])
    BY <1>2 DEF InTurn
  <2>2. PICK i \in DOMAIN rows[h] : rows[h][i] = p
    BY <2>1 DEF Lists
  <2>3. PICK j \in DOMAIN r : /\ r[j] = rows[h][i]
                              /\ InFront(r, j) = Together(S, h - 1) \cup InFront(rows[h], i)
    BY <1>2, <1>3 DEF Joined
  <2>4. Before(r, r[j]) = InFront(r, j)
    BY <1>9, BeforeIs
  <2> QED  BY <2>2, <2>3, <2>4
<1>11. ASSUME NEW p \in Existing, NEW q \in Existing,
              Lexicographic(OrderPath(collOf[p]), OrderPath(collOf[q]))
       PROVE  p \in Before(r, q)
  <2>1. PICK h \in 1..n : groups[h] = collOf[p] /\ p \in S[h]
    BY <1>5
  <2>2. PICK l \in 1..n : groups[l] = collOf[q] /\ q \in S[l]
    BY <1>5
  <2>3. h < l
    BY <1>2, <1>11, <2>1, <2>2
  <2>4. h \in 1..(l - 1)
    BY <2>3
  <2>5. p \in Together(S, l - 1)
    BY <2>1, <2>4 DEF Together
  <2> QED  BY <1>10, <2>2, <2>5
<1>12. PICK Q : Q = UNION {O[h] : h \in 1..n}
  OBVIOUS
<1>13. \A h \in 1..n : O[h] \subseteq S[h]
  BY <1>2 DEF InTurn
<1>14. Q \subseteq Existing
  BY <1>7, <1>12, <1>13
<1>15. ASSUME NEW h \in 1..n PROVE Q \cap S[h] = O[h]
  BY <1>6, <1>12, <1>13
<1>16. ASSUME NEW p \in Existing PROVE InPlace(Q, p)
  <2>1. PICK h \in 1..n : p \in S[h] /\ S[h] = Class(collOf[p])
    BY <1>5
  <2>2. PICK P, row, X : P = S[h] /\ row = rows[h] /\ X = O[h]
    OBVIOUS
  <2>3. InTurn(row, P, X) /\ P = Class(collOf[p]) /\ Q \cap P = X /\ p \in P
    BY <1>2, <1>15, <2>1, <2>2
  <2>4. PICK i \in DOMAIN row : /\ row[i] = p
            /\ Before(r, p) = Together(S, h - 1) \cup InFront(row, i)
    BY <1>10, <2>1, <2>2
  <2>5. Weighed(P)
    BY <2>3 DEF Weighed, QueueInv, Class
  <2>6. PICK F : F = InFront(row, i)
    OBVIOUS
  <2>7. /\ F \subseteq P
        /\ p \in X => MayFollow(P, p, F) /\ F \subseteq X
        /\ p \notin X => X \subseteq F /\ \A q \in P \ F : weight[p] <= weight[q]
    BY <2>3, <2>4, <2>5, <2>6, RowPlaces
  <2>8. Together(S, h - 1) \cap P = {}
    <3>1. \A l \in 1..(h - 1) : l \in 1..n /\ l # h
      OBVIOUS
    <3> QED  BY <1>6, <2>2, <3>1 DEF Together
  <2>9. Before(r, p) \cap P = F
    BY <2>4, <2>6, <2>7, <2>8
  <2>10. p \notin X => (needs[p] \cap P) \ X # {}
    BY <2>3 DEF InTurn
  <2>11. p \notin X => (needs[p] \cap P) \ Q # {}
    BY <2>3, <2>10
  <2>12. Before(Queue, p) \cap Class(collOf[p]) = F
    BY <1>3, <2>3, <2>9
  <2>13. p \in Q <=> p \in X
    BY <2>3
  <2>14. F \subseteq X => F \subseteq Q
    BY <2>3
  <2> QED  BY <2>3, <2>7, <2>11, <2>12, <2>13, <2>14 DEF InPlace
<1> QED  BY <1>3, <1>9, <1>11, <1>14, <1>16
\* What comes before a policy whose requirements are no circle's has no circle in it:
\* of those of a circle in Q the first in the queue would follow what it requires.
LEMMA CirclesOutside ==
    ASSUME QueueInv, Lists(Queue, Existing),
           NEW Q \in SUBSET Existing, \A p \in Existing : InPlace(Q, p)
    PROVE  InCircle = Existing \ Q
<1>1. \A p \in Existing : Class(collOf[p]) \subseteq Existing /\ needs[p] \subseteq Class(collOf[p])
                          /\ p \in Class(collOf[p])
  BY DEF QueueInv, Class
<1>2. ASSUME NEW p \in Existing \ Q PROVE p \in InCircle
  <2>1. PICK C : C = Existing \ Q
    OBVIOUS
  <2>2. ASSUME NEW q \in C PROVE needs[q] \cap C # {}
    <3>1. (needs[q] \cap Class(collOf[q])) \ Q # {}
      BY <2>1 DEF InPlace
    <3> QED  BY <1>1, <2>1, <3>1
  <2>3. C \in SUBSET Existing /\ p \in C
    BY <2>1
  <2> QED  BY <2>2, <2>3 DEF InCircle
<1>3. ASSUME NEW C \in SUBSET Existing, \A q \in C : needs[q] \cap C # {}, NEW p \in C, p \in Q
      PROVE  FALSE
  <2>1. PICK T : T = {i \in DOMAIN Queue : Queue[i] \in C \cap Q}
    OBVIOUS
  <2>2. DOMAIN Queue \subseteq Nat /\ \E i \in DOMAIN Queue : Queue[i] = p
    BY ListsSet DEF Lists
  <2>3. PICK i \in T : \A k \in T : i <= k
    <3>1. T \in SUBSET Nat /\ T # {}
      BY <1>3, <2>1, <2>2
    <3> QED  BY <3>1, Least
  <2>4. PICK o : o = Queue[i]
    OBVIOUS
  <2>5. i \in DOMAIN Queue /\ o \in C /\ o \in Q /\ o \in Existing
    BY <2>1, <2>3, <2>4
  <2>6. Before(Queue, o) = InFront(Queue, i)
    BY <2>4, <2>5, BeforeIs
  <2>7. PICK x : x \in needs[o] /\ x \in C
    BY <1>3, <2>5
  <2>8. x \in Before(Queue, o) /\ x \in Q
    <3>1. PICK F : F = Before(Queue, o) \cap Class(collOf[o])
      OBVIOUS
    <3>2. MayFollow(Class(collOf[o]), o, F) /\ F \subseteq Q
      BY <2>5, <3>1 DEF InPlace
    <3>3. x \in F
      BY <1>1, <2>5, <2>7, <3>2 DEF MayFollow
    <3> QED  BY <3>1, <3>2, <3>3
  <2>9. PICK k \in DOMAIN Queue : k < i /\ Queue[k] = x
    BY <2>6, <2>8 DEF InFront
  <2>10. k \in T /\ k \in Nat /\ i \in Nat
    BY <2>1, <2>2, <2>5, <2>7, <2>8, <2>9
  <2> QED  BY <2>3, <2>9, <2>10
<1>4. ASSUME NEW p \in InCircle PROVE p \in Existing \ Q
  BY <1>3 DEF InCircle
<1> QED  BY <1>2, <1>4

\* The queue is complete.
LEMMA QueueIsComplete ==
    ASSUME QueueInv, Lists(Queue, Existing)
    PROVE  QueueComplete
<1>1. Lists(docs, Existing)
  BY DEF QueueInv
<1>2. PICK r, s, X : r = Queue /\ s = docs /\ X = Existing
  OBVIOUS
<1>3. ToSet(r) = X /\ Cardinality(X) = Len(r) /\ Cardinality(X) = Len(s)
  BY <1>1, <1>2, ListsSet, ListsCount
<1> QED  BY <1>2, <1>3 DEF QueueComplete

\* What a policy in no circle requires comes before it, and no circle does.
LEMMA RequirementsAreFirst ==
    ASSUME QueueInv, NEW Q \in SUBSET Existing, InCircle = Existing \ Q,
           \A p \in Existing : InPlace(Q, p)
    PROVE  RequirementsFirst
<1>1. ASSUME NEW p \in Existing \ InCircle
      PROVE  /\ needs[p] \subseteq Before(Queue, p)
             /\ \A q \in Before(Queue, p) \cap InCircle : collOf[q] # collOf[p]
  <2>1. PICK F : F = Before(Queue, p) \cap Class(collOf[p])
    OBVIOUS
  <2>2. p \in Q /\ MayFollow(Class(collOf[p]), p, F) /\ F \subseteq Q
    BY <2>1 DEF InPlace
  <2>3. needs[p] \subseteq Class(collOf[p])
    BY DEF QueueInv
  <2>4. needs[p] \subseteq F
    BY <2>2, <2>3 DEF MayFollow
  <2>5. ASSUME NEW q \in Before(Queue, p) \cap InCircle, collOf[q] = collOf[p] PROVE FALSE
    <3>1. q \in Existing /\ q \notin Q
      OBVIOUS
    <3>2. q \in F
      BY <2>1, <2>5, <3>1 DEF Class
    <3> QED  BY <2>2, <3>1, <3>2
  <2> QED  BY <2>1, <2>4, <2>5
<1> QED  BY <1>1 DEF RequirementsFirst

\* Each policy is the lightest of those that could stand at its place.
LEMMA LightestIsFirst ==
    ASSUME QueueInv, NEW Q \in SUBSET Existing, InCircle = Existing \ Q,
           \A p \in Existing : InPlace(Q, p)
    PROVE  LightestFirst
<1> DEFINE rest(p) == {q \in Existing : collOf[q] = collOf[p]} \ Before(Queue, p)
           free(p) == {q \in rest(p) : needs[q] \cap rest(p) = {}}
<1>1. ASSUME NEW p \in Existing, NEW q \in IF p \in InCircle THEN rest(p) ELSE free(p)
      PROVE  weight[p] <= weight[q]
  <2>1. PICK P, F : P = Class(collOf[p]) /\ F = Before(Queue, p) \cap P
    OBVIOUS
  <2>2. rest(p) = P \ F
    BY <2>1 DEF Class
  <2>3. InPlace(Q, p)
    OBVIOUS
  <2>4. CASE p \in InCircle
    <3>1. p \notin Q /\ q \in P \ F
      BY <1>1, <2>2, <2>4
    <3> QED  BY <2>1, <2>3, <3>1 DEF InPlace
  <2>5. CASE p \notin InCircle
    <3>1. p \in Q /\ q \in P \ F /\ needs[q] \cap (P \ F) = {}
      BY <1>1, <2>2, <2>5
    <3>2. MayFollow(P, p, F)
      BY <2>1, <2>3, <3>1 DEF InPlace
    <3>3. needs[q] \cap P \subseteq F
      BY <3>1
    <3> QED  BY <3>1, <3>2, <3>3 DEF MayFollow
  <2> QED  BY <2>4, <2>5
<1> HIDE DEF rest, free
<1>2. \A p \in Existing : \A q \in IF p \in InCircle THEN rest(p) ELSE free(p) : weight[p] <= weight[q]
  BY <1>1
<1> USE DEF rest, free
<1> QED  BY <1>2 DEF LightestFirst

\* A collection's path is lower than those of the collections below it, and those of
\* two siblings part at the last place of theirs, with all that goes on from there.
LEMMA ParentsAreFirst ==
    ASSUME QueueInv, QueuesAssumption, TreeAssumption,
           \A p, q \in Existing :
               Lexicographic(OrderPath(collOf[p]), OrderPath(collOf[q])) => p \in Before(Queue, q)
    PROVE  ParentsFirst
<1>1. IsTree /\ \A p \in Existing : collOf[p] \in Collections
  BY DEF QueueInv, IsTree
<1>2. \A x \in Collections : OrderPath(x) \in Seq(Nat)
  BY <1>1, OrderPathIs
<1>3. ASSUME NEW x \in Collections, NEW c \in Above[x], c # x
      PROVE  Lexicographic(OrderPath(c), OrderPath(x))
  <2>1. PICK a, b : a = OrderPath(c) /\ b = OrderPath(x)
    OBVIOUS
  <2>2. c \in Collections /\ Len(a) < Len(b) /\ \A i \in 1..Len(a) : b[i] = a[i]
    BY <1>1, <1>3, <2>1, AbovePaths
  <2>3. a \in Seq(Nat) /\ b \in Seq(Nat) /\ Len(a) \in Nat /\ Len(b) \in Nat
    BY <1>2, <2>1, <2>2
  <2>4. Parts(a, b, Len(a) + 1)
    BY <2>2, <2>3 DEF Parts
  <2> QED  BY <2>1, <2>3, <2>4, LexicographicIs
<1>4. ASSUME NEW x \in Collections, NEW c \in Above[x], NEW y \in Collections, NEW d \in Above[y],
             Parent[c] = Parent[d], order[c] < order[d]
      PROVE  Lexicographic(OrderPath(x), OrderPath(y))
  <2>1. PICK a, b, u, w : /\ a = OrderPath(x) /\ b = OrderPath(y)
                          /\ u = OrderPath(c) /\ w = OrderPath(d)
    OBVIOUS
  <2>2. /\ c \in Collections /\ Len(u) <= Len(a) /\ \A i \in 1..Len(u) : a[i] = u[i]
        /\ d \in Collections /\ Len(w) <= Len(b) /\ \A i \in 1..Len(w) : b[i] = w[i]
    BY <1>1, <2>1, AbovePaths
  <2>3. a \in Seq(Nat) /\ b \in Seq(Nat) /\ u \in Seq(Nat) /\ w \in Seq(Nat)
    BY <1>2, <2>1, <2>2
  <2>4. \E n \in Nat : /\ Len(u) = n + 1 /\ Len(w) = n + 1
                       /\ \A k \in 1..n : u[k] = w[k]
                       /\ u[n + 1] < w[n + 1]
    <3>1. CASE Parent[c] \notin Collections
      <4>1. u = <<order[c]>> /\ w = <<order[d]>>
        BY <1>1, <1>4, <2>1, <2>2, <3>1, OrderPathIs
      <4>2. Len(u) = 0 + 1 /\ Len(w) = 0 + 1 /\ u[0 + 1] < w[0 + 1]
        BY <1>4, <4>1
      <4> QED  BY <4>2
    <3>2. CASE Parent[c] \in Collections
      <4>1. PICK v : v = OrderPath(Parent[c])
        OBVIOUS
      <4>2. u = Append(v, order[c]) /\ w = Append(v, order[d]) /\ v \in Seq(Nat)
        BY <1>1, <1>2, <1>4, <2>1, <2>2, <3>2, <4>1, OrderPathIs
      <4>3. order[c] \in Nat /\ order[d] \in Nat
        BY <1>1, <2>2 DEF IsTree
      <4>4. /\ Len(v) \in Nat /\ Len(u) = Len(v) + 1 /\ Len(w) = Len(v) + 1
            /\ u[Len(v) + 1] = order[c] /\ w[Len(v) + 1] = order[d]
            /\ \A k \in 1..Len(v) : u[k] = v[k] /\ w[k] = v[k]
        BY <4>2, <4>3
      <4> QED  BY <1>4, <4>4
    <3> QED  BY <3>1, <3>2
  <2>5. PICK n \in Nat : /\ Len(u) = n + 1 /\ Len(w) = n + 1
                         /\ \A k \in 1..n : u[k] = w[k]
                         /\ u[n + 1] < w[n + 1]
    BY <2>4
  <2>6. Len(a) \in Nat /\ Len(b) \in Nat
    BY <2>3
  <2>7. n + 1 \in 1..Len(b) /\ (n + 1) - 1 <= Len(a) /\ a[n + 1] = u[n + 1] /\ b[n + 1] = w[n + 1]
    BY <2>2, <2>5, <2>6
  <2>8. \A k \in 1..((n + 1) - 1) : a[k] = b[k]
    BY <2>2, <2>5
  <2>9. Parts(a, b, n + 1)
    BY <2>5, <2>7, <2>8 DEF Parts
  <2>10. n + 1 \in Nat
    OBVIOUS
  <2> QED  BY <2>1, <2>3, <2>9, <2>10, LexicographicIs
<1>5. ASSUME NEW p \in Existing, NEW q \in Existing, NEW c \in Above[collOf[p]], NEW d \in Above[collOf[q]],
             \/ c \in Above[collOf[q]] \ {collOf[q]} /\ c = collOf[p]
             \/ Parent[c] = Parent[d] /\ order[c] < order[d]
      PROVE  p \in Before(Queue, q)
  <2>1. CASE c \in Above[collOf[q]] \ {collOf[q]} /\ c = collOf[p]
    BY <1>1, <1>3, <2>1
  <2>2. CASE Parent[c] = Parent[d] /\ order[c] < order[d]
    BY <1>1, <1>4, <2>2
  <2> QED  BY <1>5, <2>1, <2>2
<1> QED  BY <1>5 DEF ParentsFirst

\* What the invariant says of the documents makes the queue right.
LEMMA QueueInvOrders ==
    ASSUME QueueInv, QueuesAssumption, TreeAssumption
    PROVE  QueueOrdered
<1>1. /\ Lists(Queue, Existing)
      /\ \A p, q \in Existing :
             Lexicographic(OrderPath(collOf[p]), OrderPath(collOf[q])) => p \in Before(Queue, q)
  BY QueuePlaces
<1>2. PICK Q \in SUBSET Existing : \A p \in Existing : InPlace(Q, p)
  BY QueuePlaces
<1>3. InCircle = Existing \ Q
  BY <1>1, <1>2, CirclesOutside
<1>4. QueueComplete
  BY <1>1, QueueIsComplete
<1>5. RequirementsFirst /\ LightestFirst
  BY <1>2, <1>3, RequirementsAreFirst, LightestIsFirst
<1>6. ParentsFirst
  BY <1>1, ParentsAreFirst
<1> QED  BY <1>4, <1>5, <1>6 DEF QueueOrdered
-----------------------------------------------------------------------------
\* Users keep to it: what a new policy requires, or an old one from now on, is in its
\* collection.
LEMMA QueueInvInit == ASSUME QueuesAssumption, Init PROVE QueueInv
<1>1. docs = <<>> /\ Existing = {}
  BY DEF Init, Existing, ToSet
<1>2. Lists(docs, Existing)
  BY <1>1 DEF Lists
<1>3. /\ collOf \in [Policies -> Collections \cup {None}] /\ needs \in [Policies -> SUBSET Policies]
      /\ weight \in [Policies -> Nat] /\ order \in [Collections -> Nat]
  BY DEF Init, QueuesAssumption
<1> QED  BY <1>1, <1>2, <1>3 DEF QueueInv

\* A new policy goes to the end of the documents.
LEMMA QueueInvCreate ==
    ASSUME QueueInv, QueuesAssumption, NEW p \in Policies, NEW c \in Collections, NEW w \in Weights,
           NEW R \in SUBSET Policies, CreatePolicy(p, c, w, R)
    PROVE  QueueInv'
<1>1. /\ p \notin Existing /\ R \subseteq Requirable(p, c)
      /\ docs' = Append(docs, p) /\ collOf' = [collOf EXCEPT ![p] = c]
      /\ needs' = [needs EXCEPT ![p] = R] /\ weight' = [weight EXCEPT ![p] = w] /\ order' = order
  BY DEF CreatePolicy
<1>2. /\ Lists(docs, Existing) /\ Existing \subseteq Policies
      /\ collOf \in [Policies -> Collections \cup {None}] /\ needs \in [Policies -> SUBSET Policies]
      /\ weight \in [Policies -> Nat] /\ order \in [Collections -> Nat]
      /\ \A q \in Existing : collOf[q] \in Collections /\ needs[q] \subseteq Class(collOf[q])
  BY DEF QueueInv
<1>3. PICK s, S : s = Append(docs, p) /\ S = Existing \cup {p}
  OBVIOUS
<1>4. Lists(s, S)
  BY <1>1, <1>2, <1>3, AppendIs
<1>5. Existing' = S
  <2>1. ToSet(s) = S
    BY <1>4, ListsSet
  <2> QED  BY <1>1, <1>3, <2>1 DEF Existing
<1>6. Lists(docs, Existing)'
  <2>1. docs' = s
    BY <1>1, <1>3
  <2> QED  BY <1>4, <1>5, <2>1 DEF Lists
<1>7. /\ Existing' \subseteq Policies
      /\ collOf' \in [Policies -> Collections \cup {None}] /\ needs' \in [Policies -> SUBSET Policies]
      /\ weight' \in [Policies -> Nat] /\ order' \in [Collections -> Nat]
  <2>1. w \in Nat
    BY DEF QueuesAssumption
  <2> QED  BY <1>1, <1>2, <1>3, <1>5, <2>1
<1>8. ASSUME NEW q \in Existing' PROVE collOf'[q] \in Collections /\ needs'[q] \subseteq Class(collOf[q])'
  <2>1. Class(collOf[q])' = {x \in S : collOf'[x] = collOf'[q]}
    BY <1>5 DEF Class
  <2>2. CASE q = p
    <3>1. collOf'[q] = c /\ needs'[q] = R
      BY <1>1, <1>2, <2>2
    <3>2. \A x \in R : x \in Existing /\ x # p /\ collOf[x] = c
      BY <1>1 DEF Requirable
    <3>3. \A x \in R : x \in S /\ collOf'[x] = c
      BY <1>1, <1>2, <1>3, <3>2
    <3> QED  BY <2>1, <3>1, <3>3
  <2>3. CASE q # p
    <3>1. q \in Existing /\ q \in Policies /\ collOf'[q] = collOf[q] /\ needs'[q] = needs[q]
      BY <1>1, <1>2, <1>3, <1>5, <2>3
    <3>2. \A x \in needs[q] : x \in Existing /\ x # p /\ collOf[x] = collOf[q]
      BY <1>1, <1>2, <3>1 DEF Class
    <3>3. \A x \in needs[q] : x \in S /\ collOf'[x] = collOf[q]
      BY <1>1, <1>2, <1>3, <3>2
    <3> QED  BY <1>2, <2>1, <3>1, <3>3
  <2> QED  BY <2>2, <2>3
<1> QED  BY <1>6, <1>7, <1>8 DEF QueueInv

\* Other requirements of a policy are in its collection, too.
LEMMA QueueInvRequire ==
    ASSUME QueueInv, NEW p \in Policies, NEW R \in SUBSET Policies, SetRequirements(p, R)
    PROVE  QueueInv'
<1>1. /\ p \in Existing /\ R \subseteq Requirable(p, collOf[p]) /\ needs' = [needs EXCEPT ![p] = R]
      /\ docs' = docs /\ collOf' = collOf /\ weight' = weight /\ order' = order
  BY DEF SetRequirements
<1>2. Existing' = Existing
  BY <1>1 DEF Existing
<1>3. \A q \in Existing : Class(collOf[q])' = Class(collOf[q])
  BY <1>1 DEF Existing, Class
<1>4. R \subseteq Class(collOf[p])
  BY <1>1 DEF Requirable, Class
<1>5. needs' \in [Policies -> SUBSET Policies]
  BY <1>1 DEF QueueInv
<1>6. \A q \in Existing : collOf[q] \in Collections /\ needs'[q] \subseteq Class(collOf[q])
  BY <1>1, <1>4 DEF QueueInv
<1>7. Lists(docs, Existing)'
  BY <1>1, <1>2 DEF QueueInv, Lists
<1> QED  BY <1>1, <1>2, <1>3, <1>5, <1>6, <1>7 DEF QueueInv

\* Another weight is a number, too.
LEMMA QueueInvWeigh ==
    ASSUME QueueInv, QueuesAssumption, NEW p \in Policies, NEW w \in Weights, SetWeight(p, w)
    PROVE  QueueInv'
<1>1. /\ weight' = [weight EXCEPT ![p] = w] /\ w \in Nat
      /\ docs' = docs /\ collOf' = collOf /\ needs' = needs /\ order' = order
  BY DEF SetWeight, QueuesAssumption
<1>2. Existing' = Existing
  BY <1>1 DEF Existing
<1>3. \A q \in Existing : Class(collOf[q])' = Class(collOf[q])
  BY <1>1 DEF Existing, Class
<1>4. weight' \in [Policies -> Nat]
  BY <1>1 DEF QueueInv
<1>5. Lists(docs, Existing)'
  BY <1>1, <1>2 DEF QueueInv, Lists
<1> QED  BY <1>1, <1>2, <1>3, <1>4, <1>5 DEF QueueInv

\* The queue of a minion is complete and in the order users are told of, whatever
\* policies they make and however their requirements run: TaskMinionService's
\* get_policies_for_minion orders the documents anew each time.
THEOREM QueueIsOrdered == Spec => []QueueOrdered
<1> USE QueuesAssumption, TreeAssumption
<1>1. Init => QueueInv
  BY QueueInvInit
<1>2. QueueInv /\ [Next]_vars => QueueInv'
  <2> SUFFICES ASSUME QueueInv, [Next]_vars PROVE QueueInv'
    OBVIOUS
  <2>1. CASE Next
    <3>1. PICK p \in Policies :
              \/ \E c \in Collections, w \in Weights, R \in SUBSET Policies : CreatePolicy(p, c, w, R)
              \/ \E R \in SUBSET Policies : SetRequirements(p, R)
              \/ \E w \in Weights : SetWeight(p, w)
      BY <2>1 DEF Next
    <3>2. CASE \E c \in Collections, w \in Weights, R \in SUBSET Policies : CreatePolicy(p, c, w, R)
      BY <3>2, QueueInvCreate
    <3>3. CASE \E R \in SUBSET Policies : SetRequirements(p, R)
      BY <3>3, QueueInvRequire
    <3>4. CASE \E w \in Weights : SetWeight(p, w)
      BY <3>4, QueueInvWeigh
    <3> QED  BY <3>1, <3>2, <3>3, <3>4
  <2>2. CASE UNCHANGED vars
    <3>1. docs' = docs /\ collOf' = collOf /\ needs' = needs /\ weight' = weight /\ order' = order
      BY <2>2 DEF vars
    <3>2. Existing' = Existing
      BY <3>1 DEF Existing
    <3>3. \A q \in Existing : Class(collOf[q])' = Class(collOf[q])
      BY <3>1 DEF Existing, Class
    <3>4. Lists(docs, Existing)'
      BY <3>1, <3>2 DEF QueueInv, Lists
    <3> QED  BY <3>1, <3>2, <3>3, <3>4 DEF QueueInv
  <2> QED  BY <2>1, <2>2
<1>3. QueueInv => QueueOrdered
  BY QueueInvOrders
<1> QED  BY <1>1, <1>2, <1>3, PTL DEF Spec
=============================================================================

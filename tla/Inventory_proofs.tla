-------------------------- MODULE Inventory_proofs --------------------------
(***************************************************************************)
(* Minions, their extra data and the categories, for any number of         *)
(* minions, categories, requests and actors.  The inductive invariant has  *)
(* four parts.                                                             *)
(*   Basics      types; what is left to do of a request goes with what it  *)
(*               is for (Shape); two requests on the same item of a minion *)
(*               are known to race (Apart); names are apart (Identified).  *)
(*   Categories  what the requests in flight know of the categories is     *)
(*               true still, or raced; what a deletion of a category or a  *)
(*               field has emptied stays empty, or is raced.               *)
(*   Singles     what was pulled to be replaced is not there when it is    *)
(*               pushed, or raced; at most one manual item is there.       *)
(*   Departures  minions that were looked up and went are raced; what a    *)
(*               delete has removed stays away, or is raced.               *)
(* A step begins a request, handles one of a single step, or is one of     *)
(* sixteen writes.  The lemmas After... tell what each write does; from    *)
(* them follows where items come from and which minions go, and from that  *)
(* each part of the invariant without looking at the writes again.         *)
(***************************************************************************)
EXTENDS Inventory, FiniteSetTheorems, TLAPS

Ops == {"idle", "add", "ingest", "import", "update", "remove", "grains", "delete",
        "merge", "fill", "drop_category", "drop_field"}
Programs == {<<>>, <<"replace">>, <<"append">>, <<"pull", "push">>, <<"push">>,
             <<"transaction">>, <<"update">>, <<"remove">>, <<"insert">>,
             <<"drop", "strip", "tasks">>, <<"strip", "tasks">>, <<"tasks">>, <<"merge">>,
             <<"bulk_create">>, <<"wipe", "category">>, <<"category">>,
             <<"clear", "field">>, <<"field">>}
Request == [op : Ops, docs : SUBSET Docs, cats : SUBSET (Cats \cup {TaskMinions}),
            is_system : BOOLEAN, data : SUBSET Fields, next : Programs, to : SUBSET Docs,
            strategy : Strategy, conflict : OnConflict, id : 0..MaxRequests,
            name : Names \cup {"none"}, item : SUBSET Item]

MinionType == minion \in [Docs -> [name : Names \cup {"none"}, status : MinionStatus,
                                   active : BOOLEAN]]
CategoryType == category \in [Cats -> [there : BOOLEAN, fields : SUBSET Fields,
                                       deleted : BOOLEAN]]
Typed ==
    /\ MinionType /\ CategoryType
    /\ items \subseteq Item /\ records \subseteq Aggregated /\ waits \subseteq Docs
    /\ req \in [Actors -> Request]
    /\ raced \subseteq Docs \X (Cats \cup {TaskMinions}) /\ count \in 0..MaxRequests

\* What is left to do of a request goes with what it is for.
Shape(r) ==
    /\ r.op = "idle" => r = Idle
    /\ r.op \in {"add", "ingest"} =>
           /\ r.to \subseteq r.docs
           /\ \E c \in Cats :
                  /\ r.cats = {c}
                  /\ \/ c \in Static /\ r.next = <<"replace">>
                     \/ c \in Static \ Single /\ r.next = <<"append">>
                     \/ c \in Aggregated /\ r.next \in {<<"pull", "push">>, <<"push">>}
    /\ r.op = "import" =>
           /\ r.to \subseteq r.docs /\ r.next = <<"transaction">> /\ ~r.is_system
           /\ \E c \in Cats : r.cats = {c} /\ (r.strategy = "use_source" \/ c \notin Single)
    /\ r.op \in {"update", "remove"} =>
           r.next = <<r.op>> /\ \E c \in Cats : r.cats = {c} /\ \A j \in r.item : j.cat = c
    /\ r.op = "grains" => r.next = <<"insert">> /\ r.docs = {}
    /\ r.op = "delete" =>
           /\ r.next \in {<<"drop", "strip", "tasks">>, <<"strip", "tasks">>, <<"tasks">>}
           /\ r.cats = Cats \cup {TaskMinions}
    /\ r.op = "merge" =>
           /\ r.next = <<"merge">> /\ r.cats = Cats \cup {TaskMinions}
           /\ \E s, t \in Docs : s # t /\ r.docs = {s, t} /\ r.to = {t}
    /\ r.op = "fill" => r.next = <<"bulk_create">> /\ r.cats = {TaskMinions}
    /\ r.op = "drop_category" =>
           /\ r.next \in {<<"wipe", "category">>, <<"category">>} /\ r.docs = Docs
           /\ \E c \in Cats \ System : r.cats = {c}
    /\ r.op = "drop_field" =>
           /\ r.next \in {<<"clear", "field">>, <<"field">>} /\ r.docs = Docs
           /\ \E c \in Cats \ System, f \in Fields : r.cats = {c} /\ r.data = {f}

Shaped == \A a \in Actors : Shape(req[a])

\* Two requests on the same item of a minion are known to race.
Apart == \A a, b \in Actors : a # b => Touches(req[a]) \cap Touches(req[b]) \subseteq raced

\* A name belongs to one minion that is there; those that went away unseen, or
\* have not come, were never active.
Identified ==
    /\ \A d, e \in There(Docs) : minion[d].name = minion[e].name => d = e
    /\ \A d \in Docs : minion[d].status \in {"unused", "merged"} => ~minion[d].active

Basics == Typed /\ Shaped /\ Apart /\ Identified

\* An actor that does nothing has a request of the right form.
LEMMA IdleIsRequest == Idle \in Request
  BY InventoryAssumption DEF Idle, Request, Ops, Programs, Strategy, OnConflict

\* What follows each write of a request.
LEMMA Follows ==
    /\ Head(<<"replace">>) = "replace" /\ Len(<<"replace">>) = 1
    /\ Head(<<"append">>) = "append" /\ Len(<<"append">>) = 1
    /\ Head(<<"push">>) = "push" /\ Len(<<"push">>) = 1
    /\ Head(<<"transaction">>) = "transaction" /\ Len(<<"transaction">>) = 1
    /\ Head(<<"update">>) = "update" /\ Len(<<"update">>) = 1
    /\ Head(<<"remove">>) = "remove" /\ Len(<<"remove">>) = 1
    /\ Head(<<"insert">>) = "insert" /\ Len(<<"insert">>) = 1
    /\ Head(<<"tasks">>) = "tasks" /\ Len(<<"tasks">>) = 1
    /\ Head(<<"merge">>) = "merge" /\ Len(<<"merge">>) = 1
    /\ Head(<<"bulk_create">>) = "bulk_create" /\ Len(<<"bulk_create">>) = 1
    /\ Head(<<"category">>) = "category" /\ Len(<<"category">>) = 1
    /\ Head(<<"field">>) = "field" /\ Len(<<"field">>) = 1
    /\ Head(<<"pull", "push">>) = "pull" /\ Len(<<"pull", "push">>) = 2
    /\ Head(<<"wipe", "category">>) = "wipe" /\ Len(<<"wipe", "category">>) = 2
    /\ Head(<<"clear", "field">>) = "clear" /\ Len(<<"clear", "field">>) = 2
    /\ Head(<<"strip", "tasks">>) = "strip" /\ Len(<<"strip", "tasks">>) = 2
    /\ Head(<<"drop", "strip", "tasks">>) = "drop" /\ Len(<<"drop", "strip", "tasks">>) = 3
    /\ Tail(<<"pull", "push">>) = <<"push">>
    /\ Tail(<<"wipe", "category">>) = <<"category">>
    /\ Tail(<<"clear", "field">>) = <<"field">>
    /\ Tail(<<"strip", "tasks">>) = <<"tasks">>
    /\ Tail(<<"drop", "strip", "tasks">>) = <<"strip", "tasks">>
  OBVIOUS

\* Who does what, and what is left of the request.
LEMMA WhoDoes ==
    ASSUME NEW a \in Actors, NEW what, Doing(a, what), req[a] \in Request, Shape(req[a])
    PROVE  /\ what \in {"replace", "append"} => req[a].op \in {"add", "ingest"} /\ req[a].next = <<what>>
           /\ what = "pull" => /\ req[a].op \in {"add", "ingest"}
                               /\ req[a].next = <<"pull", "push">>
                               /\ Rest(a) = [req[a] EXCEPT !.next = <<"push">>]
           /\ what = "push" => /\ req[a].op \in {"add", "ingest"}
                               /\ req[a].next = <<"push">> /\ Rest(a) = Idle
           /\ what = "transaction" => req[a].op = "import" /\ Rest(a) = Idle
           /\ what \in {"update", "remove"} => req[a].op = what /\ Rest(a) = Idle
           /\ what = "insert" => req[a].op = "grains" /\ Rest(a) = Idle
           /\ what = "drop" => /\ req[a].op = "delete"
                               /\ Rest(a) = [req[a] EXCEPT !.next = <<"strip", "tasks">>]
           /\ what = "strip" => /\ req[a].op = "delete"
                                /\ req[a].next = <<"strip", "tasks">>
                                /\ Rest(a) = [req[a] EXCEPT !.next = <<"tasks">>]
           /\ what = "tasks" => /\ req[a].op = "delete" /\ req[a].next = <<"tasks">>
                                /\ Rest(a) = Idle
           /\ what = "merge" => req[a].op = "merge"
           /\ what = "bulk_create" => req[a].op = "fill" /\ Rest(a) = Idle
           /\ what = "wipe" => /\ req[a].op = "drop_category"
                               /\ Rest(a) = [req[a] EXCEPT !.next = <<"category">>]
           /\ what = "category" => /\ req[a].op = "drop_category" /\ Rest(a) = Idle
                                   /\ req[a].next = <<"category">>
           /\ what = "clear" => /\ req[a].op = "drop_field"
                                /\ Rest(a) = [req[a] EXCEPT !.next = <<"field">>]
           /\ what = "field" => /\ req[a].op = "drop_field" /\ Rest(a) = Idle
                                /\ req[a].next = <<"field">>
  <1> DEFINE r == req[a]
  <1>1. r.next # <<>> /\ Head(r.next) = what BY DEF Doing
  <1>2. r.op \in Ops BY DEF Request
  <1>3. r.op # "idle" BY <1>1 DEF Shape, Idle
  <1>4. CASE r.op \in {"add", "ingest"}
    <2>1. r.next \in {<<"replace">>, <<"append">>, <<"pull", "push">>, <<"push">>}
      BY <1>4 DEF Shape
    <2>2. CASE r.next \in {<<"replace">>, <<"append">>}
      BY <1>1, <1>4, <2>2, Follows DEF Rest
    <2>3. CASE r.next = <<"pull", "push">>
      BY <1>1, <1>4, <2>3, Follows DEF Rest
    <2>4. CASE r.next = <<"push">>
      BY <1>1, <1>4, <2>4, Follows DEF Rest
    <2>5. QED BY <2>1, <2>2, <2>3, <2>4
  <1>5. CASE r.op \in {"import", "update", "remove", "grains", "merge", "fill"}
    <2>1. \/ r.op = "import" /\ r.next = <<"transaction">>
          \/ r.op = "update" /\ r.next = <<"update">>
          \/ r.op = "remove" /\ r.next = <<"remove">>
          \/ r.op = "grains" /\ r.next = <<"insert">>
          \/ r.op = "merge" /\ r.next = <<"merge">>
          \/ r.op = "fill" /\ r.next = <<"bulk_create">>
      BY <1>5 DEF Shape
    <2>2. CASE r.op = "import" BY <1>1, <2>1, <2>2, Follows DEF Rest
    <2>3. CASE r.op = "update" BY <1>1, <2>1, <2>3, Follows DEF Rest
    <2>4. CASE r.op = "remove" BY <1>1, <2>1, <2>4, Follows DEF Rest
    <2>5. CASE r.op = "grains" BY <1>1, <2>1, <2>5, Follows DEF Rest
    <2>6. CASE r.op = "merge" BY <1>1, <2>1, <2>6, Follows DEF Rest
    <2>7. CASE r.op = "fill" BY <1>1, <2>1, <2>7, Follows DEF Rest
    <2>8. QED BY <1>5, <2>2, <2>3, <2>4, <2>5, <2>6, <2>7
  <1>6. CASE r.op = "delete"
    <2>1. r.next \in {<<"drop", "strip", "tasks">>, <<"strip", "tasks">>, <<"tasks">>}
      BY <1>6 DEF Shape
    <2>2. CASE r.next = <<"drop", "strip", "tasks">>
      BY <1>1, <1>6, <2>2, Follows DEF Rest
    <2>3. CASE r.next = <<"strip", "tasks">>
      BY <1>1, <1>6, <2>3, Follows DEF Rest
    <2>4. CASE r.next = <<"tasks">>
      BY <1>1, <1>6, <2>4, Follows DEF Rest
    <2>5. QED BY <2>1, <2>2, <2>3, <2>4
  <1>7. CASE r.op = "drop_category"
    <2>1. r.next \in {<<"wipe", "category">>, <<"category">>} BY <1>7 DEF Shape
    <2>2. CASE r.next = <<"wipe", "category">>
      BY <1>1, <1>7, <2>2, Follows DEF Rest
    <2>3. CASE r.next = <<"category">>
      BY <1>1, <1>7, <2>3, Follows DEF Rest
    <2>4. QED BY <2>1, <2>2, <2>3
  <1>8. CASE r.op = "drop_field"
    <2>1. r.next \in {<<"clear", "field">>, <<"field">>} BY <1>8 DEF Shape
    <2>2. CASE r.next = <<"clear", "field">>
      BY <1>1, <1>8, <2>2, Follows DEF Rest
    <2>3. CASE r.next = <<"field">>
      BY <1>1, <1>8, <2>3, Follows DEF Rest
    <2>4. QED BY <2>1, <2>2, <2>3
  <1>9. QED BY <1>2, <1>3, <1>4, <1>5, <1>6, <1>7, <1>8 DEF Ops

\* What is left of a request after a write (Rest) goes with what it is for.
LEMMA RestIsShaped ==
    ASSUME Typed, Shaped, NEW a \in Actors, NEW what, Doing(a, what)
    PROVE  /\ Rest(a) \in Request /\ Shape(Rest(a)) /\ Touches(Rest(a)) \subseteq Touches(req[a])
           /\ Shape(Idle) /\ Idle \in Request /\ Touches(Idle) = {}
  <1> DEFINE r == req[a]
  <1>1. Idle \in Request /\ Shape(Idle) /\ Touches(Idle) = {}
    BY IdleIsRequest DEF Shape, Idle, Touches
  <1>2. r \in Request /\ Shape(r) BY DEF Typed, Shaped
  <1>3. ASSUME NEW p \in Programs, Rest(a) = [r EXCEPT !.next = p]
        PROVE  /\ Rest(a) \in Request /\ Touches(Rest(a)) = Touches(r)
               /\ Rest(a).op = r.op /\ Rest(a).docs = r.docs /\ Rest(a).cats = r.cats
               /\ Rest(a).to = r.to /\ Rest(a).data = r.data /\ Rest(a).next = p
    BY <1>2, <1>3 DEF Request, Touches
  <1>4. what \in {"replace", "append", "pull", "push", "transaction", "update", "remove", "insert",
         "drop", "strip", "tasks", "merge", "bulk_create", "wipe", "category", "clear", "field"}
    BY <1>2, Follows DEF Doing, Request, Programs
  <1>5. CASE what = "pull"
    <2>1. Rest(a) = [r EXCEPT !.next = <<"push">>] BY <1>2, <1>5, WhoDoes
    <2>2. r.op \in {"add", "ingest"} BY <1>2, <1>5, WhoDoes
    <2>3. r.next = <<"pull", "push">> BY <1>2, <1>5, WhoDoes
    <2>4. r.to \subseteq r.docs /\ \E c \in Aggregated \cap Cats : r.cats = {c}
      BY <1>2, <2>2, <2>3, Follows DEF Shape
    <2>5. <<"push">> \in Programs BY DEF Programs
    <2>6. /\ Rest(a).op = r.op /\ Rest(a).docs = r.docs /\ Rest(a).cats = r.cats
          /\ Rest(a).to = r.to /\ Rest(a).next = <<"push">>
      BY <1>3, <2>1, <2>5
    <2>7. Shape(Rest(a)) BY <2>2, <2>4, <2>6 DEF Shape
    <2>8. QED BY <1>1, <1>3, <2>1, <2>5, <2>7
  <1>6. CASE what = "drop"
    <2>1. r.op = "delete" /\ Rest(a) = [r EXCEPT !.next = <<"strip", "tasks">>]
      BY <1>2, <1>6, WhoDoes
    <2>2. <<"strip", "tasks">> \in Programs BY DEF Programs
    <2>3. /\ Rest(a).op = r.op /\ Rest(a).docs = r.docs /\ Rest(a).cats = r.cats
          /\ Rest(a).data = r.data /\ Rest(a).next = <<"strip", "tasks">>
      BY <1>3, <2>1, <2>2
    <2>4. Shape(Rest(a)) BY <1>2, <2>1, <2>3 DEF Shape
    <2>5. QED BY <1>1, <1>3, <2>1, <2>2, <2>4
  <1>7. CASE what = "strip"
    <2>1. r.op = "delete" /\ Rest(a) = [r EXCEPT !.next = <<"tasks">>] BY <1>2, <1>7, WhoDoes
    <2>2. <<"tasks">> \in Programs BY DEF Programs
    <2>3. /\ Rest(a).op = r.op /\ Rest(a).docs = r.docs /\ Rest(a).cats = r.cats
          /\ Rest(a).data = r.data /\ Rest(a).next = <<"tasks">>
      BY <1>3, <2>1, <2>2
    <2>4. Shape(Rest(a)) BY <1>2, <2>1, <2>3 DEF Shape
    <2>5. QED BY <1>1, <1>3, <2>1, <2>2, <2>4
  <1>8. CASE what = "wipe"
    <2>1. r.op = "drop_category" /\ Rest(a) = [r EXCEPT !.next = <<"category">>]
      BY <1>2, <1>8, WhoDoes
    <2>2. <<"category">> \in Programs BY DEF Programs
    <2>3. /\ Rest(a).op = r.op /\ Rest(a).docs = r.docs /\ Rest(a).cats = r.cats
          /\ Rest(a).data = r.data /\ Rest(a).next = <<"category">>
      BY <1>3, <2>1, <2>2
    <2>4. Shape(Rest(a)) BY <1>2, <2>1, <2>3 DEF Shape
    <2>5. QED BY <1>1, <1>3, <2>1, <2>2, <2>4
  <1>9. CASE what = "clear"
    <2>1. r.op = "drop_field" /\ Rest(a) = [r EXCEPT !.next = <<"field">>]
      BY <1>2, <1>9, WhoDoes
    <2>2. <<"field">> \in Programs BY DEF Programs
    <2>3. /\ Rest(a).op = r.op /\ Rest(a).docs = r.docs /\ Rest(a).cats = r.cats
          /\ Rest(a).data = r.data /\ Rest(a).next = <<"field">>
      BY <1>3, <2>1, <2>2
    <2>4. Shape(Rest(a)) BY <1>2, <2>1, <2>3 DEF Shape
    <2>5. QED BY <1>1, <1>3, <2>1, <2>2, <2>4
  <1>10. CASE what \in {"replace", "append", "merge"}
    <2>1. Rest(a) = Idle
      <3>1. r.next = <<what>>
        <4>1. CASE what = "merge" BY <4>1, <1>2, WhoDoes DEF Shape
        <4>2. CASE what # "merge" BY <4>2, <1>2, <1>10, WhoDoes
        <4>3. QED BY <4>1, <4>2
      <3>2. QED BY <3>1, <1>10, Follows DEF Rest
    <2>2. QED BY <1>1, <2>1
  <1>11. CASE what \in {"push", "transaction", "update", "remove", "insert", "tasks", "bulk_create",
                        "category", "field"}
    <2>1. Rest(a) = Idle BY <1>2, <1>11, WhoDoes
    <2>2. QED BY <1>1, <2>1
  <1>12. QED BY <1>4, <1>5, <1>6, <1>7, <1>8, <1>9, <1>10, <1>11

\* Requests that go on stay apart.
LEMMA GoingOn ==
    ASSUME Typed, Shaped, Apart, NEW a \in Actors,
           \/ UNCHANGED req
           \/ req' = [req EXCEPT ![a] = req'[a]] /\ req'[a] \in Request /\ Shape(req'[a])
              /\ Touches(req'[a]) \subseteq Touches(req[a]),
           raced \subseteq raced'
    PROVE  req' \in [Actors -> Request] /\ Shaped' /\ Apart'
  <1>1. ASSUME NEW b \in Actors
        PROVE  /\ req'[b] \in Request /\ Shape(req'[b])
               /\ Touches(req'[b]) \subseteq Touches(req[b])
    BY DEF Typed, Shaped
  <1>2. req' \in [Actors -> Request] BY <1>1 DEF Typed
  <1>3. Shaped' BY <1>1 DEF Shaped, Shape
  <1>4. Apart' BY <1>1 DEF Apart, Touches
  <1>5. QED BY <1>2, <1>3, <1>4

\* A request that begins races those it meets.
LEMMA Beginning ==
    ASSUME Typed, Shaped, Apart, NEW a \in Actors, NEW r \in Request, r.op # "idle", Shape(r),
           Begin(a, r)
    PROVE  /\ req' \in [Actors -> Request] /\ Shaped' /\ Apart'
           /\ raced \subseteq raced' /\ raced' \subseteq Docs \X (Cats \cup {TaskMinions})
           /\ count' \in 0..MaxRequests
  <1> DEFINE n == [r EXCEPT !.id = count + 1]
  <1>1. count' = count + 1 /\ count' \in 0..MaxRequests
    BY InventoryAssumption DEF Begin, Typed
  <1>2. /\ n \in Request /\ n.op = r.op /\ n.docs = r.docs /\ n.cats = r.cats /\ n.to = r.to
        /\ n.data = r.data /\ n.next = r.next /\ n.strategy = r.strategy
        /\ n.is_system = r.is_system
    BY <1>1 DEF Request
  <1>3. Shape(n) BY <1>2 DEF Shape
  <1>4. /\ req' = [req EXCEPT ![a] = n] /\ raced' = raced \cup Overlaps(r)
        /\ Touches(n) = Touches(r)
    BY <1>2 DEF Begin, Touches
  <1>5. Overlaps(r) \subseteq Docs \X (Cats \cup {TaskMinions})
    BY DEF Overlaps, Touches, Request
  <1>6. req' \in [Actors -> Request] BY <1>2, <1>4 DEF Typed
  <1>7. Shaped' BY <1>3, <1>4 DEF Shaped, Shape, Typed
  <1>8. ASSUME NEW b \in Actors PROVE Touches(r) \cap Touches(req[b]) \subseteq raced'
    BY <1>4 DEF Overlaps
  <1>9. Apart'
    <2>1. \A b \in Actors : req'[b] = IF b = a THEN n ELSE req[b] BY <1>4 DEF Typed
    <2>2. ASSUME NEW b \in Actors, NEW c \in Actors, b # c
          PROVE  Touches(req'[b]) \cap Touches(req'[c]) \subseteq raced'
      BY <2>1, <2>2, <1>4, <1>8 DEF Apart
    <2>3. QED BY <2>2 DEF Apart, Touches
  <1>10. QED BY <1>1, <1>4, <1>5, <1>6, <1>7, <1>9 DEF Typed

\* What a request is based on when it begins.
Prepared(r) ==
    /\ r.op # "idle" /\ Shape(r)
    /\ r.op \in {"add", "ingest", "import", "update"} =>
           \A c \in r.cats : category[c].there /\ r.data \subseteq category[c].fields
    /\ r.op \in {"add", "ingest", "import", "merge", "fill"} =>
           \A d \in r.docs : minion[d].status = "there"
    /\ r.next = <<"push">> => r.cats \cap Single = {}
    /\ r.op = "delete" => r.next = <<"drop", "strip", "tasks">>
    /\ r.op = "drop_category" => r.next = <<"wipe", "category">>
    /\ r.op = "drop_field" => r.next = <<"clear", "field">>

Begins(a) ==
    /\ \E r \in Request : Prepared(r) /\ Begin(a, r)
    /\ UNCHANGED <<minion, items, category, records, waits>>

\* What Writer makes.
IsWriter(r, op, D, c, is_system, replace) ==
    /\ r \in Request /\ r.op = op /\ r.docs = There(D) /\ r.to = There(D)
    /\ r.cats = {c} /\ r.is_system = is_system /\ r.data = category[c].fields
    /\ r.next = Writes(c, replace)

\* The request that Writer makes of an add, a report or an import.
LEMMA WriterIsRequest ==
    ASSUME Typed, NEW op \in {"add", "ingest", "import"}, NEW D \in SUBSET Docs, NEW c \in Cats,
           NEW is_system \in BOOLEAN, NEW replace \in BOOLEAN
    PROVE  IsWriter(Writer(op, D, c, is_system, replace), op, D, c, is_system, replace)
  <1>1. Writes(c, replace) \in Programs BY DEF Writes, Programs
  <1>2. There(D) \in SUBSET Docs BY DEF There
  <1>3. category[c].fields \in SUBSET Fields BY DEF Typed, CategoryType
  <1>4. 0 \in 0..MaxRequests BY InventoryAssumption
  <1>5. QED BY <1>1, <1>2, <1>3, <1>4
      DEF IsWriter, Writer, Idle, Request, get_ids, clean_data, Ops, Strategy, OnConflict

\* add_items and add_extra_data write what the category they read allows.
LEMMA AddBegins == ASSUME Typed, NEW a \in Actors, add_items(a) \/ add_extra_data(a)
                   PROVE  Begins(a)
  <1>1. CASE add_items(a)
    <2>1. PICK c \in Cats, D \in SUBSET Docs :
              /\ category[c].there
              /\ Begin(a, Writer("add", D, c, FALSE, c \in Single))
              /\ UNCHANGED <<minion, items, category, records, waits>>
      BY <1>1 DEF add_items
    <2>2. PICK replace \in BOOLEAN : replace = (c \in Single)
      <3>1. CASE c \in Single BY <3>1
      <3>2. CASE c \notin Single
        <4>1. (c \in Single) = FALSE BY <3>2
        <4>2. QED BY <4>1
      <3>3. QED BY <3>1, <3>2
    <2> DEFINE r == Writer("add", D, c, FALSE, replace)
    <2>3. IsWriter(r, "add", D, c, FALSE, replace) BY WriterIsRequest
    <2>4. Begin(a, r) BY <2>1, <2>2
    <2> HIDE DEF r
    <2>5. Prepared(r)
      BY <2>1, <2>2, <2>3, Follows DEF IsWriter, Prepared, Shape, Writes, Cats, There
    <2>6. QED BY <2>1, <2>3, <2>4, <2>5 DEF Begins, IsWriter
  <1>2. CASE add_extra_data(a)
    <2>1. PICK c \in Cats, n \in Names, empty \in BOOLEAN :
              /\ category[c].there
              /\ LET r == Writer("ingest", Named(n), c, TRUE, TRUE)
                 IN  Begin(a, IF empty THEN [r EXCEPT !.data = {}] ELSE r)
              /\ UNCHANGED <<minion, items, category, records, waits>>
      BY <1>2 DEF add_extra_data
    <2>2. PICK D \in SUBSET Docs : D = Named(n) BY DEF Named
    <2> DEFINE w == Writer("ingest", D, c, TRUE, TRUE)
               r == IF empty THEN [w EXCEPT !.data = {}] ELSE w
    <2>3. IsWriter(w, "ingest", D, c, TRUE, TRUE) BY WriterIsRequest
    <2>4. Begin(a, r) BY <2>1, <2>2
    <2> HIDE DEF w
    <2>5. /\ r \in Request /\ r.op = "ingest" /\ r.docs = w.docs /\ r.to = w.to /\ r.cats = {c}
          /\ r.data \subseteq category[c].fields /\ r.next = Writes(c, TRUE)
      BY <2>3 DEF Request, IsWriter
    <2> HIDE DEF r
    <2>6. Prepared(r)
      BY <2>1, <2>3, <2>5, Follows DEF IsWriter, Prepared, Shape, Writes, Cats, There
    <2>7. QED BY <2>1, <2>4, <2>5, <2>6 DEF Begins
  <1>3. QED BY <1>1, <1>2

\* import_items replaces in a category of which a minion may have but one.
LEMMA ImportBegins == ASSUME Typed, NEW a \in Actors, import_items(a) PROVE Begins(a)
  <1>1. PICK c \in Cats, D \in SUBSET Docs, replace \in BOOLEAN :
            /\ category[c].there
            /\ Begin(a, [Writer("import", D, c, FALSE, replace \/ c \in Single)
                        EXCEPT !.next = <<"transaction">>,
                               !.strategy = IF replace \/ c \in Single THEN "use_source"
                                                                       ELSE "merge"])
            /\ UNCHANGED <<minion, items, category, records, waits>>
    BY DEF import_items
  <1>2. PICK b \in BOOLEAN : b = (replace \/ c \in Single) OBVIOUS
  <1> DEFINE w == Writer("import", D, c, FALSE, b)
             r == [w EXCEPT !.next = <<"transaction">>,
                            !.strategy = IF b THEN "use_source" ELSE "merge"]
  <1>3. IsWriter(w, "import", D, c, FALSE, b) BY WriterIsRequest
  <1>7. Begin(a, r) BY <1>1, <1>2
  <1> HIDE DEF w
  <1>4. /\ r \in Request /\ r.op = "import" /\ r.docs = w.docs /\ r.to = w.to /\ r.cats = {c}
        /\ r.data = category[c].fields /\ r.next = <<"transaction">> /\ r.is_system = FALSE
        /\ r.strategy = "use_source" \/ c \notin Single
    BY <1>2, <1>3 DEF Request, IsWriter, Programs, Strategy
  <1> HIDE DEF r
  <1>5. Prepared(r) BY <1>1, <1>3, <1>4, Follows DEF IsWriter, Prepared, Shape, There
  <1>6. QED BY <1>1, <1>4, <1>5, <1>7 DEF Begins

\* Requests that name what they are about.
LEMMA NamedBegins ==
    ASSUME Typed, NEW a \in Actors,
           update_item(a) \/ delete_item(a) \/ minion_delete(a) \/ minion_merge(a)
               \/ fill_task_minions(a) \/ extra_data_category_delete(a) \/ delete_field(a)
    PROVE  Begins(a)
  <1>0. Idle \in Request /\ category \in [Cats -> [there : BOOLEAN, fields : SUBSET Fields,
                                                   deleted : BOOLEAN]]
    BY IdleIsRequest DEF Typed, CategoryType
  <1>1. CASE update_item(a)
    <2>0. PICK i \in items : \E D \in SUBSET category[i.cat].fields : NameItem(a, "update", i, D)
      BY <1>0, <1>1 DEF update_item, clean_data, split_data
    <2>1. PICK D \in SUBSET category[i.cat].fields : NameItem(a, "update", i, D) BY <2>0
    <2> DEFINE r == [Idle EXCEPT !.op = "update", !.docs = {i.doc}, !.cats = {i.cat},
                                 !.item = {i}, !.data = D, !.next = <<"update">>]
    <2>2. /\ i \in Item /\ i.doc \in Docs /\ i.cat \in Cats
          /\ category[i.cat].there /\ Begin(a, r)
          /\ UNCHANGED <<minion, items, category, records, waits>>
      BY <2>1 DEF NameItem, Typed, Item
    <2>6. D \subseteq Fields BY <1>0, <2>2
    <2>3. /\ r.op = "update" /\ r.docs = {i.doc} /\ r.cats = {i.cat} /\ r.data = D /\ r.item = {i}
          /\ r.next = <<"update">> /\ r \in Request
      BY <1>0, <2>2, <2>6 DEF Idle, Request, Ops, Programs
    <2> HIDE DEF r
    <2>4. Prepared(r) BY <2>2, <2>3, Follows DEF Prepared, Shape
    <2>5. QED BY <2>2, <2>3, <2>4 DEF Begins
  <1>2. CASE delete_item(a)
    <2>1. PICK i \in items : NameItem(a, "remove", i, {}) BY <1>2 DEF delete_item
    <2> DEFINE r == [Idle EXCEPT !.op = "remove", !.docs = {i.doc}, !.cats = {i.cat},
                                 !.item = {i}, !.data = {}, !.next = <<"remove">>]
    <2>2. /\ i \in Item /\ i.doc \in Docs /\ i.cat \in Cats
          /\ category[i.cat].there /\ Begin(a, r)
          /\ UNCHANGED <<minion, items, category, records, waits>>
      BY <2>1 DEF NameItem, Typed, Item
    <2>3. /\ r.op = "remove" /\ r.docs = {i.doc} /\ r.cats = {i.cat} /\ r.item = {i}
          /\ r.next = <<"remove">> /\ r \in Request
      BY <1>0, <2>2 DEF Idle, Request, Ops, Programs
    <2> HIDE DEF r
    <2>4. Prepared(r) BY <2>2, <2>3, Follows DEF Prepared, Shape
    <2>5. QED BY <2>2, <2>3, <2>4 DEF Begins
  <1>3. CASE minion_delete(a)
    <2>1. PICK G \in SUBSET Docs :
              /\ Begin(a, [Idle EXCEPT !.op = "delete", !.docs = There(G),
                               !.cats = Cats \cup {TaskMinions},
                               !.next = <<"drop", "strip", "tasks">>])
              /\ UNCHANGED <<minion, items, category, records, waits>>
      BY <1>3 DEF minion_delete
    <2>2. PICK D \in SUBSET Docs : D = There(G) BY DEF There
    <2> DEFINE q == [Idle EXCEPT !.op = "delete", !.docs = D, !.cats = Cats \cup {TaskMinions},
                                 !.next = <<"drop", "strip", "tasks">>]
    <2>3. /\ q.op = "delete" /\ q.docs = D /\ q.cats = Cats \cup {TaskMinions}
          /\ q.next = <<"drop", "strip", "tasks">> /\ q \in Request
      BY <1>0 DEF Idle, Request, Ops, Programs
    <2>4. Begin(a, q) BY <2>1, <2>2
    <2> HIDE DEF q
    <2>5. Prepared(q) BY <2>3, Follows DEF Prepared, Shape
    <2>6. QED BY <2>1, <2>3, <2>4, <2>5 DEF Begins
  <1>4. CASE minion_merge(a)
    <2>1. PICK s \in There(Docs), t \in There(Docs), strategy \in Strategy,
               conflict \in OnConflict :
              /\ s # t
              /\ Begin(a, [Idle EXCEPT !.op = "merge", !.docs = {s, t}, !.to = {t},
                                 !.cats = Cats \cup {TaskMinions}, !.strategy = strategy,
                                 !.conflict = conflict, !.next = <<"merge">>])
              /\ UNCHANGED <<minion, items, category, records, waits>>
      BY <1>4 DEF minion_merge
    <2> DEFINE r == [Idle EXCEPT !.op = "merge", !.docs = {s, t}, !.to = {t},
                                 !.cats = Cats \cup {TaskMinions}, !.strategy = strategy,
                                 !.conflict = conflict, !.next = <<"merge">>]
    <2>2. s \in Docs /\ t \in Docs /\ minion[s].status = "there" /\ minion[t].status = "there"
      BY DEF There
    <2>3. /\ r.op = "merge" /\ r.docs = {s, t} /\ r.to = {t} /\ r.cats = Cats \cup {TaskMinions}
          /\ r.next = <<"merge">> /\ r \in Request
      BY <1>0, <2>2 DEF Idle, Request, Ops, Programs
    <2>4. Begin(a, r) BY <2>1
    <2> HIDE DEF r
    <2>5. Prepared(r) BY <2>1, <2>2, <2>3, Follows DEF Prepared, Shape
    <2>6. QED BY <2>1, <2>3, <2>4, <2>5 DEF Begins
  <1>5. CASE fill_task_minions(a)
    <2>1. PICK D \in SUBSET There(Docs) : D = There(Docs) \ waits OBVIOUS
    <2> DEFINE r == [Idle EXCEPT !.op = "fill", !.docs = D, !.cats = {TaskMinions},
                                 !.next = <<"bulk_create">>]
    <2>2. Begin(a, r) /\ UNCHANGED <<minion, items, category, records, waits>>
      BY <1>5, <2>1 DEF fill_task_minions
    <2>3. /\ r.op = "fill" /\ r.docs = D /\ r.cats = {TaskMinions}
          /\ r.next = <<"bulk_create">> /\ r \in Request
      BY <1>0 DEF Idle, Request, Ops, Programs, There
    <2> HIDE DEF r
    <2>4. Prepared(r) BY <2>1, <2>3, Follows DEF Prepared, Shape, There
    <2>5. QED BY <2>2, <2>3, <2>4 DEF Begins
  <1>6. CASE extra_data_category_delete(a)
    <2>1. PICK c \in Cats \ System : Edit(a, "drop_category", c, {}, <<"wipe", "category">>)
      BY <1>6 DEF extra_data_category_delete
    <2> DEFINE r == [Idle EXCEPT !.op = "drop_category", !.docs = Docs, !.cats = {c}, !.data = {},
                                 !.next = <<"wipe", "category">>]
    <2>2. Begin(a, r) /\ UNCHANGED <<minion, items, category, records, waits>>
      BY <2>1 DEF Edit
    <2>3. /\ r.op = "drop_category" /\ r.docs = Docs /\ r.cats = {c}
          /\ r.next = <<"wipe", "category">> /\ r \in Request
      BY <1>0 DEF Idle, Request, Ops, Programs
    <2> HIDE DEF r
    <2>4. Prepared(r) BY <2>3, Follows DEF Prepared, Shape
    <2>5. QED BY <2>2, <2>3, <2>4 DEF Begins
  <1>7. CASE delete_field(a)
    <2>1. PICK c \in Cats \ System, f \in Fields :
              Edit(a, "drop_field", c, {f}, <<"clear", "field">>)
      BY <1>0, <1>7 DEF delete_field
    <2> DEFINE r == [Idle EXCEPT !.op = "drop_field", !.docs = Docs, !.cats = {c}, !.data = {f},
                                 !.next = <<"clear", "field">>]
    <2>2. Begin(a, r) /\ UNCHANGED <<minion, items, category, records, waits>>
      BY <2>1 DEF Edit
    <2>3. /\ r.op = "drop_field" /\ r.docs = Docs /\ r.cats = {c} /\ r.data = {f}
          /\ r.next = <<"clear", "field">> /\ r \in Request
      BY <1>0 DEF Idle, Request, Ops, Programs
    <2> HIDE DEF r
    <2>4. Prepared(r) BY <2>3, Follows DEF Prepared, Shape
    <2>5. QED BY <2>2, <2>3, <2>4 DEF Begins
  <1>8. QED BY <1>1, <1>2, <1>3, <1>4, <1>5, <1>6, <1>7

\* A minion that nobody knew sends its grains.
LEMMA GrainsBegin ==
    ASSUME Typed, NEW a \in Actors, process_grains(a)
    PROVE  \/ Begins(a)
           \/ \E n \in Names : \E d \in Named(n) :
                  /\ AtOnce(a) /\ minion' = [minion EXCEPT ![d].active = TRUE]
                  /\ UNCHANGED <<items, category, records, waits>>
  <1>1. ASSUME NEW n \in Names,
               Begin(a, [Idle EXCEPT !.op = "grains", !.name = n, !.next = <<"insert">>]),
               UNCHANGED <<minion, items, category, records, waits>>
        PROVE  Begins(a)
    <2> DEFINE r == [Idle EXCEPT !.op = "grains", !.name = n, !.next = <<"insert">>]
    <2>1. /\ r.op = "grains" /\ r.docs = {} /\ r.cats = {}
          /\ r.next = <<"insert">> /\ r \in Request
      BY IdleIsRequest DEF Idle, Request, Ops, Programs
    <2>2. Begin(a, r) BY <1>1
    <2> HIDE DEF r
    <2>3. Prepared(r) BY <2>1, Follows DEF Prepared, Shape
    <2>4. QED BY <1>1, <2>1, <2>2, <2>3 DEF Begins
  <1>2. QED BY <1>1 DEF process_grains

\* The items of a request: one for each minion and category, as it says.
LEMMA NewItemsAre ==
    ASSUME NEW a \in Actors, Typed, NEW D \in SUBSET Docs, req[a].cats \subseteq Cats
    PROVE  /\ NewItems(req[a], D) \subseteq Item
           /\ \A i \in NewItems(req[a], D) :
                 /\ i.doc \in D /\ i.cat \in req[a].cats /\ i.data = req[a].data
                 /\ i.is_system = req[a].is_system /\ req[a].data # {}
           /\ \A i, j \in NewItems(req[a], D) : i.doc = j.doc /\ i.cat = j.cat => i = j
  <1>1. /\ req[a].id \in 0..MaxRequests /\ req[a].is_system \in BOOLEAN
        /\ req[a].data \in SUBSET Fields
    BY DEF Typed, Request
  <1>2. QED BY <1>1 DEF NewItems, Item

\* A write that goes on to the next one (Continue) keeps the requests right.
LEMMA ContinueKeeps ==
    ASSUME Typed, Shaped, Apart, NEW a \in Actors, NEW what, Doing(a, what), Continue(a)
    PROVE  /\ req' \in [Actors -> Request] /\ Shaped' /\ Apart' /\ raced' = raced /\ count' = count
           /\ req' = [req EXCEPT ![a] = Rest(a)]
  <1>1. /\ Rest(a) \in Request /\ Shape(Rest(a)) /\ Touches(Rest(a)) \subseteq Touches(req[a])
    BY RestIsShaped
  <1>2. req' = [req EXCEPT ![a] = Rest(a)] /\ raced' = raced /\ count' = count BY DEF Continue
  <1>3. req'[a] = Rest(a) BY <1>2 DEF Typed
  <1>4. QED BY <1>1, <1>2, <1>3, GoingOn

\* The reads a request begins with change requests only.
LEMMA BeginKeepsBasics ==
    ASSUME Basics, NEW a \in Actors, Begins(a) PROVE Basics'
  <1>1. PICK r \in Request : Prepared(r) /\ Begin(a, r) BY DEF Begins
  <1>2. /\ req' \in [Actors -> Request] /\ Shaped' /\ Apart'
        /\ raced' \subseteq Docs \X (Cats \cup {TaskMinions}) /\ count' \in 0..MaxRequests
    BY <1>1, Beginning DEF Basics, Prepared
  <1>3. QED BY <1>2 DEF Basics, Begins, Typed, MinionType, CategoryType, Identified, There

\* Requests of one step, of which other requests do not know.
AtOnceRequest(a) ==
    \/ minion_create(a) \/ update_never_active(a) \/ process_presence(a)
    \/ \E n \in Names : \E d \in Named(n) :
           /\ AtOnce(a) /\ minion' = [minion EXCEPT ![d].active = TRUE]
           /\ UNCHANGED <<items, category, records, waits>>
    \/ extra_data_category_create(a) \/ extra_categories_sync(a) \/ add_field(a)

\* Creating and renaming minions, presence, grains and edits of categories
\* keep the types, and names apart.
LEMMA AtOnceKeepsBasics ==
    ASSUME Basics, NEW a \in Actors, AtOnceRequest(a) PROVE Basics'
  <1>1. AtOnce(a) /\ UNCHANGED <<items, records, waits>>
    BY DEF AtOnceRequest, minion_create, update_never_active, process_presence,
           extra_data_category_create, extra_categories_sync, add_field
  <1>2. /\ req' = req /\ raced' = raced /\ count' \in 0..MaxRequests
    BY <1>1, InventoryAssumption DEF AtOnce, Basics, Typed
  <1>3. Shaped' /\ Apart' BY <1>2 DEF Basics, Shaped, Shape, Apart, Touches
  <1>4. CategoryType'
    <2>1. CASE UNCHANGED category BY <2>1 DEF Basics, Typed, CategoryType
    <2>2. CASE extra_data_category_create(a) \/ extra_categories_sync(a) \/ add_field(a)
      <3>1. PICK c \in Cats, F \in SUBSET Fields :
                \/ category' = [category EXCEPT ![c].there = TRUE, ![c].fields = F]
                \/ category' = [category EXCEPT ![c].fields = F]
        <4>1. CASE extra_data_category_create(a)
          BY <4>1 DEF extra_data_category_create
        <4>2. CASE extra_categories_sync(a)
          BY <4>2, InventoryAssumption DEF extra_categories_sync
        <4>3. CASE add_field(a)
          <5>1. PICK c \in Cats, f \in Fields :
                    category' = [category EXCEPT ![c].fields = @ \cup {f}]
            BY <4>3 DEF add_field
          <5>2. category[c].fields \cup {f} \in SUBSET Fields
            BY DEF Basics, Typed, CategoryType
          <5>3. QED BY <5>1, <5>2
        <4>4. QED BY <2>2, <4>1, <4>2, <4>3
      <3>2. QED BY <3>1 DEF Basics, Typed, CategoryType
    <2>3. QED
      BY <2>1, <2>2 DEF AtOnceRequest, minion_create, update_never_active, process_presence
  <1>5. MinionType' /\ Identified'
    <2>1. CASE UNCHANGED minion
      BY <2>1 DEF Basics, Typed, MinionType, Identified, There
    <2>2. CASE minion_create(a)
      BY <2>2 DEF minion_create, Basics, Typed, MinionType, Identified, There, Named, MinionStatus
    <2>3. CASE update_never_active(a)
      BY <2>3 DEF update_never_active, Basics, Typed, MinionType, Identified, There, Named
    <2>4. CASE process_presence(a)
      <3>1. PICK N \in SUBSET Names :
                minion' = [d \in Docs |-> IF minion[d].status = "there" /\ minion[d].name \in N
                                          THEN [minion[d] EXCEPT !.active = TRUE] ELSE minion[d]]
        BY <2>4 DEF process_presence
      <3>2. ASSUME NEW d \in Docs
            PROVE  /\ minion'[d] \in [name : Names \cup {"none"}, status : MinionStatus,
                                      active : BOOLEAN]
                   /\ minion'[d].name = minion[d].name /\ minion'[d].status = minion[d].status
                   /\ minion[d].status # "there" => minion'[d].active = minion[d].active
        BY <3>1 DEF Basics, Typed, MinionType
      <3>3. MinionType' BY <3>1, <3>2 DEF MinionType
      <3>4. Identified' BY <3>2 DEF Basics, Identified, There
      <3>5. QED BY <3>3, <3>4
    <2>5. ASSUME NEW n \in Names, NEW d \in Named(n), minion' = [minion EXCEPT ![d].active = TRUE]
          PROVE  MinionType' /\ Identified'
      BY <2>5 DEF Basics, Typed, MinionType, Identified, There, Named
    <2>6. QED BY <2>1, <2>2, <2>3, <2>4, <2>5
        DEF AtOnceRequest, extra_data_category_create, extra_categories_sync, add_field
  <1>6. QED BY <1>1, <1>2, <1>3, <1>4, <1>5 DEF Basics, Typed

\* The writes of a request.
Writing(a) ==
    \/ WriteStatic(a) \/ Pull(a) \/ Push(a) \/ ImportTransaction(a) \/ SetManual(a)
    \/ PullManual(a) \/ InsertMinion(a) \/ DropMinions(a) \/ StripEntries(a)
    \/ DeleteTaskMinions(a) \/ Merge(a) \/ CreateTaskMinions(a) \/ RemoveCategoryData(a)
    \/ DropCategory(a) \/ RemoveCategoryField(a) \/ PullField(a)

\* A write changes the request of its actor only, and forgets no race.
LEMMA RequestsGoOn ==
    ASSUME Basics, NEW a \in Actors, Writing(a)
    PROVE  /\ req' \in [Actors -> Request] /\ Shaped' /\ Apart' /\ count' = count
           /\ raced \subseteq raced' /\ raced' \subseteq Docs \X (Cats \cup {TaskMinions})
           /\ \A b \in Actors \ {a} : req'[b] = req[b]
  <1>1. ASSUME NEW what, Doing(a, what), Continue(a)
        PROVE  /\ req' \in [Actors -> Request] /\ Shaped' /\ Apart' /\ count' = count
               /\ raced \subseteq raced' /\ raced' \subseteq Docs \X (Cats \cup {TaskMinions})
               /\ \A b \in Actors \ {a} : req'[b] = req[b]
    BY <1>1, ContinueKeeps DEF Basics, Typed
  <1>2. ASSUME NEW what, Doing(a, what), NEW r \in Request, Shape(r),
               Touches(r) \subseteq Touches(req[a]), req' = [req EXCEPT ![a] = r],
               raced \subseteq raced', raced' \subseteq Docs \X (Cats \cup {TaskMinions}),
               count' = count
        PROVE  /\ req' \in [Actors -> Request] /\ Shaped' /\ Apart' /\ count' = count
               /\ raced \subseteq raced' /\ raced' \subseteq Docs \X (Cats \cup {TaskMinions})
               /\ \A b \in Actors \ {a} : req'[b] = req[b]
    <2>1. req'[a] = r /\ \A b \in Actors \ {a} : req'[b] = req[b]
      BY <1>2 DEF Basics, Typed
    <2>2. QED BY <1>2, <2>1, GoingOn DEF Basics
  <1>3. CASE WriteStatic(a)
    <2>1. PICK d \in req[a].to :
              /\ Doing(a, "replace") \/ Doing(a, "append")
              /\ req' = [req EXCEPT ![a] = IF req[a].to = {d} THEN Idle
                                           ELSE [req[a] EXCEPT !.to = @ \ {d}]]
              /\ UNCHANGED <<raced, count>>
      BY <1>3 DEF WriteStatic
    <2>2. PICK what : Doing(a, what) BY <2>1
    <2> DEFINE n == [req[a] EXCEPT !.to = @ \ {d}]
    <2>3. /\ Idle \in Request /\ Shape(Idle) /\ Touches(Idle) \subseteq Touches(req[a])
          /\ req[a] \in Request /\ Shape(req[a])
      BY <2>2, RestIsShaped DEF Basics, Typed, Shaped
    <2>4. /\ n \in Request /\ n.op = req[a].op /\ n.docs = req[a].docs /\ n.cats = req[a].cats
          /\ n.to \subseteq req[a].to /\ n.next = req[a].next /\ n.data = req[a].data
      BY <2>3 DEF Request
    <2>5. req[a].op \in {"add", "ingest"} BY <2>1, <2>3, WhoDoes
    <2> HIDE DEF n
    <2>6. Shape(n) /\ Touches(n) \subseteq Touches(req[a])
      BY <2>3, <2>4, <2>5 DEF Shape, Touches
    <2>7. CASE req[a].to = {d} BY <2>1, <2>2, <2>3, <2>7, <1>2 DEF Basics, Typed
    <2>8. CASE req[a].to # {d}
      <3>1. req' = [req EXCEPT ![a] = n] BY <2>1, <2>8 DEF n
      <3>2. QED BY <3>1, <2>1, <2>2, <2>4, <2>6, <1>2 DEF Basics, Typed
    <2>9. QED BY <2>7, <2>8
  <1>4. CASE Merge(a)
    <2>1. PICK t \in req[a].to, s \in req[a].docs \ req[a].to :
              /\ Doing(a, "merge") /\ req' = [req EXCEPT ![a] = Idle] /\ UNCHANGED count
              /\ \/ raced' = raced
                 \/ raced' = raced \cup {<<t, p[2]>> : p \in {p \in raced : p[1] = s}}
      BY <1>4 DEF Merge
    <2>2. /\ Idle \in Request /\ Shape(Idle) /\ Touches(Idle) \subseteq Touches(req[a])
      BY <2>1, RestIsShaped DEF Basics
    <2>3. t \in Docs BY DEF Basics, Typed, Request
    <2>4. raced \subseteq raced' /\ raced' \subseteq Docs \X (Cats \cup {TaskMinions})
      BY <2>1, <2>3 DEF Basics, Typed
    <2>5. QED BY <2>1, <2>2, <2>4, <1>2
  <1>5. CASE RemoveCategoryField(a)
    <2>1. /\ Doing(a, "clear") /\ UNCHANGED <<raced, count>>
          /\ req' = [req EXCEPT ![a] = Idle] \/ req' = [req EXCEPT ![a] = Rest(a)]
      BY <1>5 DEF RemoveCategoryField
    <2>2. /\ Idle \in Request /\ Shape(Idle) /\ Touches(Idle) \subseteq Touches(req[a])
          /\ Rest(a) \in Request /\ Shape(Rest(a)) /\ Touches(Rest(a)) \subseteq Touches(req[a])
      BY <2>1, RestIsShaped DEF Basics
    <2>3. QED BY <2>1, <2>2, <1>2 DEF Basics, Typed
  <1>6. CASE \/ Pull(a) \/ Push(a) \/ ImportTransaction(a) \/ SetManual(a) \/ PullManual(a)
             \/ InsertMinion(a) \/ DropMinions(a) \/ StripEntries(a) \/ DeleteTaskMinions(a)
             \/ CreateTaskMinions(a) \/ RemoveCategoryData(a) \/ DropCategory(a) \/ PullField(a)
    <2>1. Continue(a) /\ \E what : Doing(a, what)
      BY <1>6 DEF Pull, Push, ImportTransaction, SetManual, PullManual, InsertMinion, DropMinions,
          StripEntries, DeleteTaskMinions, CreateTaskMinions, RemoveCategoryData, DropCategory,
          PullField
    <2>2. QED BY <2>1, <1>1
  <1>7. QED BY <1>3, <1>4, <1>5, <1>6 DEF Writing

\* What the writes of a request do to the items, one action after the other.
LEMMA AfterWriteStatic ==
    ASSUME Basics, NEW a \in Actors, WriteStatic(a)
    PROVE  /\ req[a].op \in {"add", "ingest"} /\ req[a].cats \subseteq Static
           /\ req[a].to \subseteq req[a].docs
           /\ \E d \in req[a].to :
               /\ items' \subseteq items \cup NewItems(req[a], {d} \cap There(Docs))
               /\ \/ req[a].cats \cap Single = {}
                  \/ \A i \in items' :
                        i.doc = d /\ i.cat \in req[a].cats /\ i.is_system = req[a].is_system
                            => i \in NewItems(req[a], {d} \cap There(Docs))
           /\ UNCHANGED <<minion, category, records, waits, raced>>
           /\ \/ req'[a] = Idle
              \/ /\ req'[a].op = req[a].op /\ req'[a].docs = req[a].docs
                 /\ req'[a].cats = req[a].cats /\ req'[a].to \subseteq req[a].to
                 /\ req'[a].next = req[a].next /\ req'[a].data = req[a].data
                 /\ req'[a].is_system = req[a].is_system
  <1>1. PICK d \in req[a].to :
            /\ \/ Doing(a, "replace") /\ items' = replace_static_extra_data_items(req[a], d)
               \/ Doing(a, "append") /\ items' = push_static_extra_data_items(req[a], d)
            /\ req' = [req EXCEPT ![a] = IF req[a].to = {d} THEN Idle
                                         ELSE [req[a] EXCEPT !.to = @ \ {d}]]
            /\ UNCHANGED <<minion, category, records, waits, raced, count>>
    BY DEF WriteStatic
  <1>2. req[a] \in Request /\ Shape(req[a]) BY DEF Basics, Typed, Shaped
  <1>3. req[a].op \in {"add", "ingest"} BY <1>1, <1>2, WhoDoes
  <1>4. PICK c \in Cats :
            /\ req[a].cats = {c} /\ c \in Static /\ req[a].to \subseteq req[a].docs
            /\ Doing(a, "append") => c \notin Single
    <2>1. \E what \in {"replace", "append"} : Doing(a, what) /\ req[a].next = <<what>>
      BY <1>1, <1>2, WhoDoes
    <2>2. PICK what \in {"replace", "append"} : Doing(a, what) /\ req[a].next = <<what>> BY <2>1
    <2>3. Doing(a, "append") => what = "append" BY <2>2 DEF Doing
    <2>4. QED BY <1>2, <1>3, <2>2, <2>3, Follows DEF Shape
  <1>5. /\ items' \subseteq items \cup NewItems(req[a], {d} \cap There(Docs))
        /\ \/ req[a].cats \cap Single = {}
           \/ \A i \in items' :
                 i.doc = d /\ i.cat \in req[a].cats /\ i.is_system = req[a].is_system
                     => i \in NewItems(req[a], {d} \cap There(Docs))
    <2>1. CASE Doing(a, "replace") /\ items' = replace_static_extra_data_items(req[a], d)
      BY <2>1 DEF replace_static_extra_data_items, pull_minions_entries
    <2>2. CASE Doing(a, "append") /\ items' = push_static_extra_data_items(req[a], d)
      BY <2>2, <1>4 DEF push_static_extra_data_items
    <2>3. QED BY <1>1, <2>1, <2>2
  <1>6. req'[a] = IF req[a].to = {d} THEN Idle ELSE [req[a] EXCEPT !.to = @ \ {d}]
    BY <1>1 DEF Basics, Typed
  <1>7. \/ req'[a] = Idle
        \/ /\ req'[a].op = req[a].op /\ req'[a].docs = req[a].docs
           /\ req'[a].cats = req[a].cats /\ req'[a].to \subseteq req[a].to
           /\ req'[a].next = req[a].next /\ req'[a].data = req[a].data
           /\ req'[a].is_system = req[a].is_system
    BY <1>2, <1>6 DEF Request
  <1>8. req[a].cats \subseteq Static /\ req[a].to \subseteq req[a].docs BY <1>4
  <1>9. QED BY <1>1, <1>3, <1>5, <1>7, <1>8

\* Pull: of the minions, nothing of the category is left that was written this way.
LEMMA AfterPull ==
    ASSUME Basics, NEW a \in Actors, Pull(a)
    PROVE  /\ req[a].op \in {"add", "ingest"} /\ req[a].to \subseteq req[a].docs
           /\ items' = {i \in items : ~(i.doc \in req[a].to /\ i.cat \in req[a].cats
                                        /\ i.is_system = req[a].is_system)}
           /\ UNCHANGED <<minion, category, records, waits, raced>>
           /\ req'[a].op = req[a].op /\ req'[a].docs = req[a].docs
           /\ req'[a].cats = req[a].cats /\ req'[a].to = req[a].to
           /\ req'[a].next = <<"push">> /\ req'[a].data = req[a].data
           /\ req'[a].is_system = req[a].is_system
  <1>1. req[a] \in Request /\ Shape(req[a]) BY DEF Basics, Typed, Shaped
  <1>2. Doing(a, "pull") /\ Continue(a) BY DEF Pull
  <1>3. /\ req[a].op \in {"add", "ingest"} /\ Rest(a) = [req[a] EXCEPT !.next = <<"push">>]
    BY <1>1, <1>2, WhoDoes
  <1>4. req'[a] = Rest(a) /\ raced' = raced BY <1>2, ContinueKeeps DEF Basics, Typed
  <1>5. req[a].to \subseteq req[a].docs BY <1>1, <1>3 DEF Shape
  <1>6. QED BY <1>1, <1>3, <1>4, <1>5 DEF Pull, pull_minions_entries, Request

\* Push: the entries of the request come, and a record for them.
LEMMA AfterPush ==
    ASSUME Basics, NEW a \in Actors, Push(a)
    PROVE  /\ req[a].op \in {"add", "ingest"} /\ req[a].to \subseteq req[a].docs
           /\ req[a].cats \subseteq Aggregated /\ req[a].next = <<"push">>
           /\ items' = items \cup NewItems(req[a], req[a].to)
           /\ records' = IF req[a].data = {} THEN records ELSE records \cup req[a].cats
           /\ UNCHANGED <<minion, category, waits, raced>>
           /\ req'[a] = Idle
  <1>1. req[a] \in Request /\ Shape(req[a]) BY DEF Basics, Typed, Shaped
  <1>2. Doing(a, "push") /\ Continue(a) BY DEF Push
  <1>3. req[a].op \in {"add", "ingest"} /\ req[a].next = <<"push">> /\ Rest(a) = Idle
    BY <1>1, <1>2, WhoDoes
  <1>4. req'[a] = Rest(a) /\ raced' = raced BY <1>2, ContinueKeeps DEF Basics, Typed
  <1>5. req[a].to \subseteq req[a].docs /\ req[a].cats \subseteq Aggregated
    BY <1>1, <1>3, Follows DEF Shape
  <1>6. QED BY <1>3, <1>4, <1>5 DEF Push, push_minions_entries

\* ImportTransaction: the items of the minions that are there are replaced, if a
\* minion may have but one.
LEMMA AfterImport ==
    ASSUME Basics, NEW a \in Actors, ImportTransaction(a)
    PROVE  /\ req[a].op = "import" /\ req[a].to \subseteq req[a].docs /\ ~req[a].is_system
           /\ req[a].cats \subseteq Cats
           /\ items' \subseteq items \cup NewItems(req[a], There(req[a].to))
           /\ records' = IF There(req[a].to) = {} THEN records
                         ELSE records \cup (req[a].cats \cap Aggregated)
           /\ \/ req[a].cats \cap Single = {}
              \/ \A i \in items' :
                    i.doc \in There(req[a].to) /\ i.cat \in req[a].cats /\ ~i.is_system
                        => i \in NewItems(req[a], There(req[a].to))
           /\ UNCHANGED <<minion, category, waits, raced>>
           /\ req'[a] = Idle
  <1>1. req[a] \in Request /\ Shape(req[a]) BY DEF Basics, Typed, Shaped
  <1>2. Doing(a, "transaction") /\ Continue(a) BY DEF ImportTransaction
  <1>3. req[a].op = "import" /\ Rest(a) = Idle BY <1>1, <1>2, WhoDoes
  <1>4. req'[a] = Rest(a) /\ raced' = raced BY <1>2, ContinueKeeps DEF Basics, Typed
  <1>5. /\ req[a].to \subseteq req[a].docs /\ ~req[a].is_system /\ req[a].cats \subseteq Cats
        /\ req[a].strategy = "use_source" \/ req[a].cats \cap Single = {}
    BY <1>1, <1>3 DEF Shape
  <1>6. QED BY <1>1, <1>3, <1>4, <1>5
      DEF ImportTransaction, pull_minions_entries, get_ids, Request


\* Items change in place, or go: g tells the data of each.
Edited(g) ==
    /\ g \in [items -> SUBSET Fields]
    /\ items' \subseteq {[i EXCEPT !.data = g[i]] : i \in items}

\* SetManual: the item that was named gets the data that was read as allowed.
LEMMA AfterSetManual ==
    ASSUME Basics, NEW a \in Actors, SetManual(a)
    PROVE  /\ req[a].op = "update" /\ req'[a] = Idle
           /\ \E g : /\ Edited(g)
                    /\ \A i \in items : \/ g[i] = i.data
                                        \/ /\ g[i] \subseteq req[a].data \cup i.data
                                           /\ i.doc \in req[a].docs /\ i.cat \in req[a].cats
           /\ UNCHANGED <<minion, category, records, waits, raced>>
  <1>1. req[a] \in Request /\ Shape(req[a]) BY DEF Basics, Typed, Shaped
  <1>2. Doing(a, "update") /\ Continue(a) BY DEF SetManual
  <1>3. req[a].op = "update" /\ Rest(a) = Idle BY <1>1, <1>2, WhoDoes
  <1>4. req'[a] = Rest(a) /\ raced' = raced BY <1>2, ContinueKeeps DEF Basics, Typed
  <1> DEFINE M == ManualItem(req[a])
             g == [i \in items |-> IF i \in M
                                   THEN IF i.cat \in Static THEN req[a].data
                                        ELSE req[a].data \cup split_data(i.data)
                                   ELSE i.data]
  <1>5. ASSUME NEW i \in items
        PROVE  /\ g[i] \in SUBSET Fields
               /\ \/ g[i] = i.data
                  \/ /\ g[i] \subseteq req[a].data \cup i.data
                     /\ i.doc \in req[a].docs /\ i.cat \in req[a].cats
    <2>1. i \in Item /\ req[a].data \subseteq Fields BY <1>1 DEF Basics, Typed, Request
    <2>2. i \in M => i.doc \in req[a].docs /\ i.cat \in req[a].cats
      BY <1>1, <1>3 DEF ManualItem, Shape
    <2>3. QED BY <2>1, <2>2 DEF Item, split_data
  <1>6. items' \subseteq {[i EXCEPT !.data = g[i]] : i \in items}
    <2>1. ASSUME NEW i \in items', i \notin items
          PROVE  \E j \in items : i = [j EXCEPT !.data = g[j]]
      <3>1. PICK j \in M :
                i = IF j.cat \in Static THEN set_manual_static_extra_data_item_data(j, req[a].data)
                    ELSE set_manual_minion_entry_data(j, req[a].data)
        BY <2>1 DEF SetManual
      <3>2. j \in items BY DEF ManualItem
      <3>3. QED BY <3>1, <3>2 DEF set_manual_static_extra_data_item_data,
          set_manual_minion_entry_data
    <2>2. ASSUME NEW i \in items', i \in items
          PROVE  \E j \in items : i = [j EXCEPT !.data = g[j]]
      <3>1. CASE i \notin M
        <4>1. i \in Item BY <2>2 DEF Basics, Typed
        <4>2. i = [i EXCEPT !.data = g[i]] BY <2>2, <3>1, <4>1 DEF Item
        <4>3. QED BY <2>2, <4>2
      <3>2. CASE i \in M
        <4>1. i \notin items \ M BY <3>2
        <4>2. PICK j \in M :
                i = IF j.cat \in Static THEN set_manual_static_extra_data_item_data(j, req[a].data)
                    ELSE set_manual_minion_entry_data(j, req[a].data)
          BY <2>2, <4>1 DEF SetManual
        <4>3. j \in items BY DEF ManualItem
        <4>4. QED BY <4>2, <4>3 DEF set_manual_static_extra_data_item_data,
            set_manual_minion_entry_data
      <3>3. QED BY <3>1, <3>2
    <2>3. QED BY <2>1, <2>2
  <1>7. Edited(g) BY <1>5, <1>6 DEF Edited
  <1>8. QED BY <1>3, <1>4, <1>5, <1>7 DEF SetManual

\* PullManual: items go, none comes.
LEMMA AfterPullManual ==
    ASSUME Basics, NEW a \in Actors, PullManual(a)
    PROVE  /\ req[a].op = "remove" /\ req'[a] = Idle /\ items' \subseteq items
           /\ UNCHANGED <<minion, category, records, waits, raced>>
  <1>1. req[a] \in Request /\ Shape(req[a]) BY DEF Basics, Typed, Shaped
  <1>2. Doing(a, "remove") /\ Continue(a) BY DEF PullManual
  <1>3. req[a].op = "remove" /\ Rest(a) = Idle BY <1>1, <1>2, WhoDoes
  <1>4. req'[a] = Rest(a) /\ raced' = raced BY <1>2, ContinueKeeps DEF Basics, Typed
  <1>5. QED BY <1>3, <1>4 DEF PullManual

\* InsertMinion: an unused document gets a name that no other one has.
LEMMA AfterInsert ==
    ASSUME Basics, NEW a \in Actors, InsertMinion(a)
    PROVE  /\ req[a].op = "grains" /\ req'[a] = Idle
           /\ UNCHANGED <<items, category, records, waits, raced>>
           /\ \/ UNCHANGED minion
              \/ \E d \in Docs, n \in Names \cup {"none"} :
                    /\ Named(n) = {} /\ minion[d].status = "unused"
                    /\ minion' = [minion EXCEPT ![d] = [name |-> n, status |-> "there",
                                                        active |-> TRUE]]
  <1>1. req[a] \in Request /\ Shape(req[a]) BY DEF Basics, Typed, Shaped
  <1>2. Doing(a, "insert") /\ Continue(a) BY DEF InsertMinion
  <1>3. req[a].op = "grains" /\ Rest(a) = Idle BY <1>1, <1>2, WhoDoes
  <1>4. req'[a] = Rest(a) /\ raced' = raced BY <1>2, ContinueKeeps DEF Basics, Typed
  <1>5. req[a].name \in Names \cup {"none"} BY <1>1 DEF Request
  <1>6. QED BY <1>3, <1>4, <1>5 DEF InsertMinion

\* DropMinions: the documents go with the static items in them.
LEMMA AfterDrop ==
    ASSUME Basics, NEW a \in Actors, DropMinions(a)
    PROVE  /\ req[a].op = "delete" /\ req'[a].op = "delete"
           /\ req'[a].docs = req[a].docs /\ req'[a].cats = req[a].cats
           /\ req'[a].next = <<"strip", "tasks">>
           /\ minion' = [d \in Docs |-> IF d \in There(req[a].docs)
                                       THEN [minion[d] EXCEPT !.status = "deleted"]
                                       ELSE minion[d]]
           /\ items' = {i \in items : ~(i.doc \in req[a].docs /\ i.cat \in Static)}
           /\ UNCHANGED <<category, records, waits, raced>>
  <1>1. req[a] \in Request /\ Shape(req[a]) BY DEF Basics, Typed, Shaped
  <1>2. Doing(a, "drop") /\ Continue(a) BY DEF DropMinions
  <1>3. req[a].op = "delete" /\ Rest(a) = [req[a] EXCEPT !.next = <<"strip", "tasks">>]
    BY <1>1, <1>2, WhoDoes
  <1>4. req'[a] = Rest(a) /\ raced' = raced BY <1>2, ContinueKeeps DEF Basics, Typed
  <1>5. QED BY <1>1, <1>3, <1>4 DEF DropMinions, delete_many, Request

\* StripEntries: their entries go, of modules and of users.
LEMMA AfterStrip ==
    ASSUME Basics, NEW a \in Actors, StripEntries(a)
    PROVE  /\ req[a].op = "delete" /\ req'[a].op = "delete"
           /\ req'[a].docs = req[a].docs /\ req'[a].cats = req[a].cats
           /\ req[a].next = <<"strip", "tasks">> /\ req'[a].next = <<"tasks">>
           /\ items' = {i \in items : ~(i.doc \in req[a].docs /\ i.cat \in Aggregated)}
           /\ UNCHANGED <<minion, category, records, waits, raced>>
  <1>1. req[a] \in Request /\ Shape(req[a]) BY DEF Basics, Typed, Shaped
  <1>2. Doing(a, "strip") /\ Continue(a) BY DEF StripEntries
  <1>3. /\ req[a].op = "delete" /\ Rest(a) = [req[a] EXCEPT !.next = <<"tasks">>]
        /\ req[a].next = <<"strip", "tasks">>
    BY <1>1, <1>2, WhoDoes
  <1>4. req'[a] = Rest(a) /\ raced' = raced BY <1>2, ContinueKeeps DEF Basics, Typed
  <1>5. QED BY <1>1, <1>3, <1>4 DEF StripEntries, pull_all_minions_entries, Request

\* DeleteTaskMinions: their task minions go, and the delete is over.
LEMMA AfterTasks ==
    ASSUME Basics, NEW a \in Actors, DeleteTaskMinions(a)
    PROVE  /\ req[a].op = "delete" /\ req'[a] = Idle /\ req[a].next = <<"tasks">>
           /\ waits' = waits \ req[a].docs
           /\ UNCHANGED <<minion, items, category, records, raced>>
  <1>1. req[a] \in Request /\ Shape(req[a]) BY DEF Basics, Typed, Shaped
  <1>2. Doing(a, "tasks") /\ Continue(a) BY DEF DeleteTaskMinions
  <1>3. req[a].op = "delete" /\ Rest(a) = Idle /\ req[a].next = <<"tasks">>
    BY <1>1, <1>2, WhoDoes
  <1>4. req'[a] = Rest(a) /\ raced' = raced BY <1>2, ContinueKeeps DEF Basics, Typed
  <1>5. QED BY <1>3, <1>4 DEF DeleteTaskMinions

\* CreateTaskMinions: minions get task minions.
LEMMA AfterFill ==
    ASSUME Basics, NEW a \in Actors, CreateTaskMinions(a)
    PROVE  /\ req[a].op = "fill" /\ req'[a] = Idle /\ req[a].cats = {TaskMinions}
           /\ req[a].docs \subseteq Docs /\ waits' = waits \cup req[a].docs
           /\ UNCHANGED <<minion, items, category, records, raced>>
  <1>1. req[a] \in Request /\ Shape(req[a]) BY DEF Basics, Typed, Shaped
  <1>2. Doing(a, "bulk_create") /\ Continue(a) BY DEF CreateTaskMinions
  <1>3. req[a].op = "fill" /\ Rest(a) = Idle BY <1>1, <1>2, WhoDoes
  <1>4. req'[a] = Rest(a) /\ raced' = raced BY <1>2, ContinueKeeps DEF Basics, Typed
  <1>5. req[a].cats = {TaskMinions} /\ req[a].docs \subseteq Docs
    BY <1>1, <1>3 DEF Shape, Request
  <1>6. QED BY <1>3, <1>4, <1>5 DEF CreateTaskMinions

\* RemoveCategoryData: the items of the category go, and its records.
LEMMA AfterWipe ==
    ASSUME Basics, NEW a \in Actors, RemoveCategoryData(a)
    PROVE  /\ req[a].op = "drop_category" /\ req'[a].op = "drop_category"
           /\ req'[a].docs = req[a].docs /\ req'[a].cats = req[a].cats
           /\ req'[a].next = <<"category">>
           /\ items' = {i \in items : i.cat \notin req[a].cats}
           /\ records' = records \ req[a].cats
           /\ UNCHANGED <<minion, category, waits, raced>>
  <1>1. req[a] \in Request /\ Shape(req[a]) BY DEF Basics, Typed, Shaped
  <1>2. Doing(a, "wipe") /\ Continue(a) BY DEF RemoveCategoryData
  <1>3. /\ req[a].op = "drop_category" /\ Rest(a) = [req[a] EXCEPT !.next = <<"category">>]
    BY <1>1, <1>2, WhoDoes
  <1>4. req'[a] = Rest(a) /\ raced' = raced BY <1>2, ContinueKeeps DEF Basics, Typed
  <1>5. QED BY <1>1, <1>3, <1>4 DEF RemoveCategoryData, Request

\* DropCategory: the category goes, which is none of a module.
LEMMA AfterDropCategory ==
    ASSUME Basics, NEW a \in Actors, DropCategory(a)
    PROVE  /\ req[a].op = "drop_category" /\ req'[a] = Idle /\ req[a].next = <<"category">>
           /\ req[a].docs = Docs /\ req[a].cats \subseteq Cats \ System
           /\ category' = [c \in Cats |->
                  IF c \in req[a].cats THEN [there |-> FALSE, fields |-> {}, deleted |-> TRUE]
                                       ELSE category[c]]
           /\ UNCHANGED <<minion, items, records, waits, raced>>
  <1>1. req[a] \in Request /\ Shape(req[a]) BY DEF Basics, Typed, Shaped
  <1>2. Doing(a, "category") /\ Continue(a) BY DEF DropCategory
  <1>3. req[a].op = "drop_category" /\ Rest(a) = Idle /\ req[a].next = <<"category">>
    BY <1>1, <1>2, WhoDoes
  <1>4. req'[a] = Rest(a) /\ raced' = raced BY <1>2, ContinueKeeps DEF Basics, Typed
  <1>5. req[a].docs = Docs /\ req[a].cats \subseteq Cats \ System BY <1>1, <1>3 DEF Shape
  <1>6. QED BY <1>3, <1>4, <1>5 DEF DropCategory

\* PullField: the category loses the field.
LEMMA AfterPullField ==
    ASSUME Basics, NEW a \in Actors, PullField(a)
    PROVE  /\ req[a].op = "drop_field" /\ req'[a] = Idle /\ req[a].next = <<"field">>
           /\ req[a].docs = Docs /\ req[a].cats \subseteq Cats \ System
           /\ category' = [c \in Cats |->
                  IF c \in req[a].cats THEN [category[c] EXCEPT !.fields = @ \ req[a].data]
                                       ELSE category[c]]
           /\ UNCHANGED <<minion, items, records, waits, raced>>
  <1>1. req[a] \in Request /\ Shape(req[a]) BY DEF Basics, Typed, Shaped
  <1>2. Doing(a, "field") /\ Continue(a) BY DEF PullField
  <1>3. req[a].op = "drop_field" /\ Rest(a) = Idle /\ req[a].next = <<"field">>
    BY <1>1, <1>2, WhoDoes
  <1>4. req'[a] = Rest(a) /\ raced' = raced BY <1>2, ContinueKeeps DEF Basics, Typed
  <1>5. req[a].docs = Docs /\ req[a].cats \subseteq Cats \ System BY <1>1, <1>3 DEF Shape
  <1>6. QED BY <1>3, <1>4, <1>5 DEF PullField

\* Records that are there keep their field; otherwise no item is left with it.
LEMMA AfterClear ==
    ASSUME Basics, NEW a \in Actors, RemoveCategoryField(a),
           \A i \in items : i.cat \in Aggregated => i.cat \in records
    PROVE  /\ req[a].op = "drop_field"
           /\ UNCHANGED <<minion, category, records, waits, raced>>
           /\ \E g : /\ Edited(g) /\ \A i \in items : g[i] \subseteq i.data
           /\ \/ req'[a] = Idle
              \/ /\ req'[a].op = "drop_field" /\ req'[a].docs = req[a].docs
                 /\ req'[a].cats = req[a].cats /\ req'[a].data = req[a].data
                 /\ req'[a].next = <<"field">>
                 /\ \A i \in items' : i.cat \in req[a].cats => i.data \cap req[a].data = {}
  <1>1. req[a] \in Request /\ Shape(req[a]) BY DEF Basics, Typed, Shaped
  <1>2. Doing(a, "clear") BY DEF RemoveCategoryField
  <1>3. /\ req[a].op = "drop_field" /\ Rest(a) = [req[a] EXCEPT !.next = <<"field">>]
    BY <1>1, <1>2, WhoDoes
  <1>4. PICK c \in Cats, f \in Fields : req[a].cats = {c} /\ req[a].data = {f}
    BY <1>1, <1>3 DEF Shape
  <1>5. LET refused == c \in records /\ f = "category"
        IN  /\ items' = IF c \in Static THEN remove_static_category_data_field(c, f)
                        ELSE IF f = "minion" THEN unset_minions_data_field(c, f) ELSE items
            /\ req' = [req EXCEPT ![a] = IF refused THEN Idle ELSE Rest(a)]
            /\ UNCHANGED <<minion, category, records, waits, raced, count>>
    BY <1>4 DEF RemoveCategoryField
  <1> DEFINE cut == [i \in items |-> IF i.cat = c THEN i.data \ {f} ELSE i.data]
             all == [i \in items |-> i.data]
  <1>6. \A i \in items : i \in Item /\ i.data \subseteq Fields BY DEF Basics, Typed, Item
  <1>7. \A i \in items : [i EXCEPT !.data = i.data] = i BY <1>6 DEF Item
  <1>8. unset_minions_data_field(c, f) \subseteq {[i EXCEPT !.data = cut[i]] : i \in items}
    BY <1>7 DEF unset_minions_data_field
  <1>9. items \subseteq {[i EXCEPT !.data = all[i]] : i \in items}
    BY <1>7
  <1>10. \A i \in unset_minions_data_field(c, f) : i.cat = c => i.data \cap {f} = {}
    BY <1>6 DEF unset_minions_data_field, Item
  <1>11. CASE items' \subseteq unset_minions_data_field(c, f)
    <2>1. Edited(cut) /\ \A i \in items : cut[i] \subseteq i.data
      BY <1>6, <1>8, <1>11 DEF Edited
    <2>2. \A i \in items' : i.cat \in req[a].cats => i.data \cap req[a].data = {}
      BY <1>4, <1>10, <1>11
    <2>3. req'[a] = Idle \/ req'[a] = Rest(a) BY <1>5 DEF Basics, Typed
    <2>4. QED BY <1>1, <1>3, <1>5, <2>1, <2>2, <2>3 DEF Request
  <1>12. CASE c \notin Static /\ f # "minion"
    <2>1. items' = items /\ c \in Aggregated /\ f = "category" BY <1>5, <1>12 DEF Cats, Fields
    <2>2. Edited(all) /\ \A i \in items : all[i] \subseteq i.data
      BY <1>6, <1>9, <2>1 DEF Edited
    <2>3. req'[a] = IF c \in records THEN Idle ELSE Rest(a)
      BY <1>5, <2>1 DEF Basics, Typed
    <2>4. c \notin records => \A i \in items' : i.cat \notin req[a].cats
      BY <1>4, <2>1
    <2>5. QED BY <1>1, <1>3, <1>5, <2>2, <2>3, <2>4 DEF Request
  <1>13. QED
    <2>1. remove_static_category_data_field(c, f) \subseteq unset_minions_data_field(c, f)
      BY DEF remove_static_category_data_field
    <2>2. QED BY <1>5, <1>11, <1>12, <2>1

\* Those of a minion go to another one, unless the two have one that may be but one.
Moved(s, t, Own, Gone) ==
    /\ Own \subseteq {i \in items : i.doc # s} /\ Gone \subseteq {i \in items : i.doc = s}
    /\ items' = Own \cup {[i EXCEPT !.doc = t] : i \in Gone}
    /\ \A i \in Gone : i.cat \in Static => minion[t].status = "there"
    /\ \A i \in Own, j \in Gone :
          ~ /\ i.doc = t /\ i.cat = j.cat /\ ~i.is_system /\ ~j.is_system
            /\ i.cat \in Single /\ category[i.cat].there

\* Merge: what is refused changes nothing; otherwise a minion that is not active
\* gives its items to the other one, all of them if nothing may be dropped.
LEMMA AfterMerge ==
    ASSUME Basics, NEW a \in Actors, Merge(a)
    PROVE  /\ req[a].op = "merge" /\ req'[a] = Idle
           /\ UNCHANGED <<category, records>>
           /\ \/ UNCHANGED <<minion, items, waits, raced>>
              \/ \E s, t \in Docs :
                    /\ s # t /\ req[a].docs = {s, t} /\ req[a].to = {t}
                    /\ req[a].cats = Cats \cup {TaskMinions}
                    /\ minion[s].status = "there" /\ ~minion[s].active
                    /\ minion' = [minion EXCEPT ![s].status = "merged"]
                    /\ waits' = waits \ {s}
                    /\ raced' = raced \cup {<<t, p[2]>> : p \in {p \in raced : p[1] = s}}
                    /\ \E Own, Gone \in SUBSET items :
                          /\ Moved(s, t, Own, Gone)
                          /\ req[a].strategy = "merge" /\ req[a].conflict = "error"
                                /\ minion[t].status = "there" =>
                             Own = {i \in items : i.doc # s} /\ Gone = {i \in items : i.doc = s}
  <1>1. req[a] \in Request /\ Shape(req[a]) BY DEF Basics, Typed, Shaped
  <1>2. Doing(a, "merge") /\ req' = [req EXCEPT ![a] = Idle] BY DEF Merge
  <1>3. req[a].op = "merge" BY <1>1, <1>2, WhoDoes
  <1>4. req'[a] = Idle BY <1>2 DEF Basics, Typed
  <1>5. PICK s \in Docs, t \in Docs :
            /\ s # t /\ req[a].docs = {s, t} /\ req[a].to = {t}
            /\ req[a].cats = Cats \cup {TaskMinions}
    BY <1>1, <1>3 DEF Shape
  <1> DEFINE r == req[a]
  <1>6. /\ UNCHANGED <<category, records>>
        /\ IF merge_refused(r, s, t) THEN UNCHANGED <<minion, items, waits, raced>>
           ELSE /\ minion' = [minion EXCEPT ![s].status = "merged"]
                /\ items' = Merged(r, s, t)
                /\ waits' = waits \ {s}
                /\ raced' = raced \cup {<<t, p[2]>> : p \in {p \in raced : p[1] = s}}
    BY <1>5 DEF Merge
  <1>7. CASE merge_refused(r, s, t) BY <1>3, <1>4, <1>6, <1>7
  <1>8. CASE ~merge_refused(r, s, t)
    <2>1. minion[s].status = "there" /\ ~minion[s].active BY <1>8 DEF merge_refused
    <2> DEFINE rest == {i \in items : i.doc # s}
               own == {i \in rest : ~(i.doc = t /\ i.cat \in Replaced(r, s, t) /\ ~i.is_system)}
               gone == {i \in items : /\ i.doc = s /\ i.cat \notin Dropped(r, s, t)
                                      /\ i.cat \in Static => minion[t].status = "there"}
               Own == IF r.strategy = "use_target" THEN rest ELSE own
               Gone == IF r.strategy = "use_target" THEN {} ELSE gone
    <2>2. items' = Own \cup {[i EXCEPT !.doc = t] : i \in Gone}
      BY <1>6, <1>8 DEF Merged, move_minion_entries
    <2>3. ASSUME NEW i \in Own, NEW j \in Gone,
                 i.doc = t, i.cat = j.cat, ~i.is_system, ~j.is_system, i.cat \in Single,
                 category[i.cat].there
          PROVE  FALSE
      <3>1. r.strategy # "use_target" /\ i \in own /\ j \in gone BY <2>3
      <3>2. i.cat \in Manual(t) /\ i.cat \in Manual(s) BY <2>3, <3>1 DEF Manual
      <3>3. i.cat \in Conflicts(s, t) BY <2>3, <3>2 DEF Conflicts
      <3>4. i.cat \notin Replaced(r, s, t) BY <2>3, <3>1
      <3>5. i.cat \notin Dropped(r, s, t) BY <2>3, <3>1
      <3>6. r.strategy = "merge" BY <3>1, <3>2, <3>4, <1>1 DEF Replaced, Request, Strategy
      <3>7. r.conflict # "use_source" BY <3>3, <3>4, <3>6 DEF Replaced
      <3>8. r.conflict # "use_target" BY <3>3, <3>5, <3>6 DEF Dropped
      <3>9. r.conflict = "error" BY <3>7, <3>8, <1>1 DEF Request, OnConflict
      <3>10. QED BY <1>8, <3>3, <3>6, <3>9 DEF merge_refused
    <2>4. Moved(s, t, Own, Gone)
      <3>1. Own \subseteq {i \in items : i.doc # s} /\ Gone \subseteq {i \in items : i.doc = s}
        OBVIOUS
      <3>2. \A i \in Gone : i.cat \in Static => minion[t].status = "there" OBVIOUS
      <3>3. QED BY <2>2, <2>3, <3>1, <3>2 DEF Moved
    <2>5. r.strategy = "merge" /\ r.conflict = "error" /\ minion[t].status = "there" =>
              Own = {i \in items : i.doc # s} /\ Gone = {i \in items : i.doc = s}
      BY DEF Replaced, Dropped
    <2>6. Own \in SUBSET items /\ Gone \in SUBSET items OBVIOUS
    <2> HIDE DEF Own, Gone
    <2>7. QED BY <1>3, <1>4, <1>5, <1>6, <1>8, <2>1, <2>4, <2>5, <2>6
  <1>9. QED BY <1>7, <1>8

\* Edited items are items.
LEMMA EditedAreItems ==
    ASSUME Basics, NEW g, Edited(g) PROVE items' \subseteq Item
  BY DEF Basics, Typed, Edited, Item

\* Items of another minion are items.
LEMMA MovedAreItems ==
    ASSUME Basics, NEW s \in Docs, NEW t \in Docs, NEW Own, NEW Gone, Moved(s, t, Own, Gone)
    PROVE  items' \subseteq Item
  BY DEF Basics, Typed, Moved, Item

\* Names stay apart where no minion changes.
LEMMA OthersKeepIdentified ==
    ASSUME Basics, UNCHANGED minion PROVE MinionType' /\ Identified'
  BY DEF Basics, Typed, MinionType, Identified, There

\* Each of the writes keeps the types, names and requests right.
LEMMA WritesKeepBasics ==
    ASSUME Basics, NEW a \in Actors, Writing(a),
           \A i \in items : i.cat \in Aggregated => i.cat \in records
    PROVE  Basics'
  <1>1. /\ req' \in [Actors -> Request] /\ Shaped' /\ Apart' /\ count' \in 0..MaxRequests
        /\ raced' \subseteq Docs \X (Cats \cup {TaskMinions})
    BY RequestsGoOn DEF Basics, Typed
  <1>2. ASSUME MinionType', Identified', CategoryType', items' \subseteq Item,
               records' \subseteq Aggregated, waits' \subseteq Docs
        PROVE  Basics'
    BY <1>1, <1>2 DEF Basics, Typed
  <1>3. UNCHANGED category => CategoryType' BY DEF Basics, Typed, CategoryType
  <1>4. /\ items \subseteq Item /\ records \subseteq Aggregated /\ waits \subseteq Docs
        /\ req[a] \in Request
    BY DEF Basics, Typed
  <1>5. CASE WriteStatic(a)
    <2>1. PICK d \in req[a].to : items' \subseteq items \cup NewItems(req[a], {d} \cap There(Docs))
      BY <1>5, AfterWriteStatic
    <2>2. req[a].cats \subseteq Cats BY <1>5, AfterWriteStatic DEF Cats
    <2>3. PICK D \in SUBSET Docs : D = {d} \cap There(Docs) BY DEF There
    <2>4. NewItems(req[a], D) \subseteq Item BY <2>2, NewItemsAre DEF Basics
    <2>5. UNCHANGED <<minion, category, records, waits>> BY <1>5, AfterWriteStatic
    <2>6. QED BY <1>2, <1>3, <1>4, <2>1, <2>3, <2>4, <2>5, OthersKeepIdentified
  <1>6. CASE Pull(a)
    BY <1>2, <1>3, <1>4, <1>6, AfterPull, OthersKeepIdentified
  <1>7. CASE Push(a)
    <2>1. /\ items' = items \cup NewItems(req[a], req[a].to) /\ req[a].cats \subseteq Aggregated
          /\ UNCHANGED <<minion, category, waits>>
          /\ records' = IF req[a].data = {} THEN records ELSE records \cup req[a].cats
      BY <1>7, AfterPush
    <2>2. PICK D \in SUBSET Docs : D = req[a].to BY <1>4 DEF Request
    <2>3. NewItems(req[a], D) \subseteq Item BY <2>1, NewItemsAre DEF Basics, Cats
    <2>4. QED BY <1>2, <1>3, <1>4, <2>1, <2>2, <2>3, OthersKeepIdentified
  <1>8. CASE ImportTransaction(a)
    <2>1. /\ items' \subseteq items \cup NewItems(req[a], There(req[a].to))
          /\ req[a].cats \subseteq Cats
          /\ UNCHANGED <<minion, category, waits>> /\ records' \subseteq Aggregated
      BY <1>4, <1>8, AfterImport
    <2>2. PICK D \in SUBSET Docs : D = There(req[a].to) BY <1>4 DEF Request, There
    <2>3. NewItems(req[a], D) \subseteq Item BY <2>1, NewItemsAre DEF Basics
    <2>4. QED BY <1>2, <1>3, <1>4, <2>1, <2>2, <2>3, OthersKeepIdentified
  <1>9. CASE SetManual(a)
    BY <1>2, <1>3, <1>4, <1>9, AfterSetManual, EditedAreItems, OthersKeepIdentified
  <1>10. CASE PullManual(a)
    BY <1>2, <1>3, <1>4, <1>10, AfterPullManual, OthersKeepIdentified
  <1>11. CASE InsertMinion(a)
    <2>1. UNCHANGED <<items, category, records, waits>> BY <1>11, AfterInsert
    <2>2. CASE UNCHANGED minion BY <1>2, <1>3, <1>4, <2>1, <2>2, OthersKeepIdentified
    <2>3. CASE ~UNCHANGED minion
      <3>1. PICK d \in Docs, n \in Names \cup {"none"} :
               /\ Named(n) = {} /\ minion[d].status = "unused"
               /\ minion' = [minion EXCEPT ![d] = [name |-> n, status |-> "there",
                                                   active |-> TRUE]]
        BY <1>11, <2>3, AfterInsert
      <3>2. MinionType' /\ Identified'
        BY <3>1 DEF Basics, Typed, MinionType, Identified, There, Named, MinionStatus
      <3>3. QED BY <1>2, <1>3, <1>4, <2>1, <3>2
    <2>4. QED BY <2>2, <2>3
  <1>12. CASE DropMinions(a)
    <2>1. /\ minion' = [d \in Docs |-> IF d \in There(req[a].docs)
                                       THEN [minion[d] EXCEPT !.status = "deleted"]
                                       ELSE minion[d]]
          /\ items' \subseteq items /\ UNCHANGED <<category, records, waits>>
      BY <1>12, AfterDrop
    <2>2. ASSUME NEW d \in Docs
          PROVE  /\ minion'[d] \in [name : Names \cup {"none"}, status : MinionStatus,
                                    active : BOOLEAN]
                 /\ minion'[d].name = minion[d].name /\ minion'[d].active = minion[d].active
                 /\ minion'[d].status \in {minion[d].status, "deleted"}
      BY <2>1 DEF Basics, Typed, MinionType, MinionStatus
    <2>3. MinionType' BY <2>1, <2>2 DEF MinionType
    <2>4. Identified' BY <2>2 DEF Basics, Identified, There
    <2>5. QED BY <1>2, <1>3, <1>4, <2>1, <2>3, <2>4
  <1>13. CASE StripEntries(a)
    BY <1>2, <1>3, <1>4, <1>13, AfterStrip, OthersKeepIdentified
  <1>14. CASE DeleteTaskMinions(a)
    BY <1>2, <1>3, <1>4, <1>14, AfterTasks, OthersKeepIdentified
  <1>15. CASE CreateTaskMinions(a)
    BY <1>2, <1>3, <1>4, <1>15, AfterFill, OthersKeepIdentified
  <1>16. CASE RemoveCategoryData(a)
    BY <1>2, <1>3, <1>4, <1>16, AfterWipe, OthersKeepIdentified
  <1>17. CASE DropCategory(a)
    <2>1. category' = [c \in Cats |->
                  IF c \in req[a].cats THEN [there |-> FALSE, fields |-> {}, deleted |-> TRUE]
                                       ELSE category[c]]
      BY <1>17, AfterDropCategory
    <2>2. CategoryType' BY <2>1 DEF Basics, Typed, CategoryType
    <2>3. QED BY <1>2, <1>4, <1>17, <2>2, AfterDropCategory, OthersKeepIdentified
  <1>18. CASE PullField(a)
    <2>1. category' = [c \in Cats |->
                  IF c \in req[a].cats THEN [category[c] EXCEPT !.fields = @ \ req[a].data]
                                       ELSE category[c]]
      BY <1>18, AfterPullField
    <2>2. CategoryType' BY <2>1 DEF Basics, Typed, CategoryType
    <2>3. QED BY <1>2, <1>4, <1>18, <2>2, AfterPullField, OthersKeepIdentified
  <1>19. CASE RemoveCategoryField(a)
    BY <1>2, <1>3, <1>4, <1>19, AfterClear, EditedAreItems, OthersKeepIdentified
  <1>20. CASE Merge(a)
    <2>1. UNCHANGED <<category, records>> BY <1>20, AfterMerge
    <2>2. CASE UNCHANGED <<minion, items, waits>>
      BY <1>2, <1>3, <1>4, <2>1, <2>2, OthersKeepIdentified
    <2>3. CASE ~UNCHANGED <<minion, items, waits>>
      <3>1. PICK s \in Docs, t \in Docs :
                    /\ minion[s].status = "there" /\ ~minion[s].active
                    /\ minion' = [minion EXCEPT ![s].status = "merged"]
                    /\ waits' = waits \ {s}
                    /\ \E Own, Gone \in SUBSET items : Moved(s, t, Own, Gone)
        BY <1>20, <2>3, AfterMerge
      <3>2. MinionType' /\ Identified'
        BY <3>1 DEF Basics, Typed, MinionType, Identified, There, MinionStatus
      <3>3. items' \subseteq Item BY <3>1, MovedAreItems
      <3>4. QED BY <1>2, <1>3, <1>4, <2>1, <3>1, <3>2, <3>3
    <2>4. QED BY <2>2, <2>3
  <1>21. QED BY <1>5, <1>6, <1>7, <1>8, <1>9, <1>10, <1>11, <1>12, <1>13, <1>14, <1>15, <1>16,
                <1>17, <1>18, <1>19, <1>20 DEF Writing

\* What a request that begins is, and leaves alone.
LEMMA BegunIs ==
    ASSUME Basics, NEW a \in Actors, Begins(a)
    PROVE  /\ req[a].op = "idle" /\ Prepared(req'[a]) /\ raced \subseteq raced'
           /\ \A b \in Actors \ {a} : req'[b] = req[b]
           /\ UNCHANGED <<minion, items, category, records, waits>>
  <1>1. PICK r \in Request : Prepared(r) /\ Begin(a, r) BY DEF Begins
  <1> DEFINE n == [r EXCEPT !.id = count + 1]
  <1>2. /\ n.op = r.op /\ n.docs = r.docs /\ n.cats = r.cats /\ n.to = r.to
        /\ n.data = r.data /\ n.next = r.next /\ n.strategy = r.strategy
        /\ n.is_system = r.is_system /\ n.item = r.item
    BY DEF Request
  <1>3. req'[a] = n /\ \A b \in Actors \ {a} : req'[b] = req[b]
    BY <1>1 DEF Begin, Basics, Typed
  <1> HIDE DEF n
  <1>4. Prepared(n) BY <1>1, <1>2 DEF Prepared, Shape
  <1>5. Prepared(req'[a]) BY <1>3, <1>4
  <1>6. QED BY <1>1, <1>3, <1>5 DEF Begins, Begin

\* What a request of one step leaves alone.
LEMMA AtOnceIs ==
    ASSUME Basics, NEW a \in Actors, AtOnceRequest(a)
    PROVE  /\ UNCHANGED <<items, records, waits, req, raced>>
           /\ \A d \in Docs : /\ minion[d].status \in {"deleted", "merged"} <=>
                                    minion'[d].status \in {"deleted", "merged"}
                              /\ minion'[d].status = "merged" => minion[d].status = "merged"
                              /\ minion[d].active => minion'[d].name = minion[d].name
           /\ \A c \in Cats :
                 /\ category'[c].deleted = category[c].deleted
                 /\ category[c].there => category'[c].there
                 /\ c \in System \/ ~category[c].there \/
                        category[c].fields \subseteq category'[c].fields
  <1>1. UNCHANGED <<items, records, waits, req, raced>>
    BY DEF AtOnceRequest, minion_create, update_never_active, process_presence, AtOnce,
           extra_data_category_create, extra_categories_sync, add_field
  <1>2. ASSUME NEW d \in Docs
        PROVE  /\ minion[d].status \in {"deleted", "merged"} <=>
                      minion'[d].status \in {"deleted", "merged"}
               /\ minion'[d].status = "merged" => minion[d].status = "merged"
               /\ minion[d].active => minion'[d].name = minion[d].name
    <2>1. CASE UNCHANGED minion BY <2>1
    <2>2. CASE minion_create(a)
      BY <2>2 DEF minion_create, Basics, Typed, MinionType, Identified
    <2>3. CASE update_never_active(a)
      BY <2>3 DEF update_never_active, Basics, Typed, MinionType
    <2>4. CASE process_presence(a)
      BY <2>4 DEF process_presence, Basics, Typed, MinionType
    <2>5. CASE \E n \in Names : \E e \in Named(n) :
                  minion' = [minion EXCEPT ![e].active = TRUE]
      BY <2>5 DEF Basics, Typed, MinionType, Named
    <2>6. QED BY <2>1, <2>2, <2>3, <2>4, <2>5
        DEF AtOnceRequest, extra_data_category_create, extra_categories_sync, add_field
  <1>3. ASSUME NEW c \in Cats
        PROVE  /\ category'[c].deleted = category[c].deleted
               /\ category[c].there => category'[c].there
               /\ c \in System \/ ~category[c].there \/
                      category[c].fields \subseteq category'[c].fields
    <2>1. CASE UNCHANGED category BY <2>1
    <2>2. CASE extra_data_category_create(a)
      BY <2>2 DEF extra_data_category_create, Basics, Typed, CategoryType
    <2>3. CASE extra_categories_sync(a)
      BY <2>3 DEF extra_categories_sync, Basics, Typed, CategoryType
    <2>4. CASE add_field(a)
      BY <2>4 DEF add_field, Basics, Typed, CategoryType
    <2>5. QED BY <2>1, <2>2, <2>3, <2>4
        DEF AtOnceRequest, minion_create, update_never_active, process_presence
  <1>4. QED BY <1>1, <1>2, <1>3

\* Where the items come from that there are after a write.
Written(a, j) ==
    /\ req[a].op \in {"add", "ingest", "import"}
    /\ j.doc \in req[a].docs /\ j.cat \in req[a].cats /\ j.data = req[a].data
Changed(a, i, j) ==
    /\ j.doc = i.doc /\ j.cat = i.cat /\ j.is_system = i.is_system
    /\ \/ j.data \subseteq i.data
       \/ /\ req[a].op = "update" /\ i.doc \in req[a].docs /\ i.cat \in req[a].cats
          /\ j.data \subseteq i.data \cup req[a].data
Passed(a, i, j) ==
    /\ req[a].op = "merge" /\ req[a].cats = Cats \cup {TaskMinions}
    /\ i.doc \in req[a].docs /\ j.doc \in req[a].docs
    /\ j.cat = i.cat /\ j.data = i.data
    /\ \A c : <<i.doc, c>> \in raced => <<j.doc, c>> \in raced'

\* After a write an item is one from before, one the request wrote, one it changed,
\* or one that a merge passed on with its races.
LEMMA WhereItemsComeFrom ==
    ASSUME Basics, NEW a \in Actors, Writing(a),
           \A i \in items : i.cat \in Aggregated => i.cat \in records
    PROVE  \A j \in items' : \/ j \in items \/ Written(a, j)
                            \/ \E i \in items : Changed(a, i, j) \/ Passed(a, i, j)
  <1>1. /\ items \subseteq Item /\ req[a] \in Request BY DEF Basics, Typed
  <1>2. ASSUME NEW g, Edited(g),
               \A i \in items : \/ g[i] \subseteq i.data
                                \/ /\ req[a].op = "update"
                                   /\ g[i] \subseteq req[a].data \cup i.data
                                   /\ i.doc \in req[a].docs /\ i.cat \in req[a].cats
        PROVE  \A j \in items' : \E i \in items : Changed(a, i, j)
    <2>1. ASSUME NEW j \in items' PROVE \E i \in items : Changed(a, i, j)
      <3>1. PICK i \in items : j = [i EXCEPT !.data = g[i]] BY <1>2 DEF Edited
      <3>2. /\ j.doc = i.doc /\ j.cat = i.cat /\ j.is_system = i.is_system /\ j.data = g[i]
        BY <1>1, <3>1 DEF Item
      <3>3. QED BY <1>2, <3>2 DEF Changed
    <2>2. QED BY <2>1
  <1>3. ASSUME NEW D \in SUBSET req[a].docs, req[a].cats \subseteq Cats,
               req[a].op \in {"add", "ingest", "import"}
        PROVE  \A j \in NewItems(req[a], D) : Written(a, j)
    BY <1>3, <1>1 DEF NewItems, Written
  <1>4. CASE WriteStatic(a)
    <2>1. PICK d \in req[a].to : items' \subseteq items \cup NewItems(req[a], {d} \cap There(Docs))
      BY <1>4, AfterWriteStatic
    <2>2. PICK D \in SUBSET req[a].docs : D = {d} \cap There(Docs)
      BY <1>4, AfterWriteStatic
    <2>3. req[a].op \in {"add", "ingest"} /\ req[a].cats \subseteq Cats
      BY <1>4, AfterWriteStatic DEF Cats
    <2>4. QED BY <1>3, <2>1, <2>2, <2>3
  <1>5. CASE Push(a)
    <2>1. PICK D \in SUBSET req[a].docs : D = req[a].to BY <1>5, AfterPush
    <2>2. /\ req[a].op \in {"add", "ingest"} /\ req[a].cats \subseteq Cats
          /\ items' = items \cup NewItems(req[a], D)
      BY <1>5, <2>1, AfterPush DEF Cats
    <2>3. QED BY <1>3, <2>2
  <1>6. CASE ImportTransaction(a)
    <2>1. PICK D \in SUBSET req[a].docs : D = There(req[a].to) BY <1>6, AfterImport DEF There
    <2>2. /\ req[a].op = "import" /\ req[a].cats \subseteq Cats
          /\ items' \subseteq items \cup NewItems(req[a], D)
      BY <1>6, <2>1, AfterImport
    <2>3. QED BY <1>3, <2>2
  <1>7. CASE SetManual(a)
    <2>1. PICK g : /\ Edited(g)
                   /\ \A i \in items : \/ g[i] = i.data
                                       \/ /\ g[i] \subseteq req[a].data \cup i.data
                                          /\ i.doc \in req[a].docs /\ i.cat \in req[a].cats
      BY <1>7, AfterSetManual
    <2>2. req[a].op = "update" BY <1>7, AfterSetManual
    <2>3. QED BY <1>2, <2>1, <2>2
  <1>8. CASE RemoveCategoryField(a)
    <2>1. PICK g : Edited(g) /\ \A i \in items : g[i] \subseteq i.data BY <1>8, AfterClear
    <2>2. QED BY <1>2, <2>1
  <1>9. CASE Merge(a)
    <2>1. CASE UNCHANGED items BY <2>1
    <2>2. CASE ~UNCHANGED items
      <3>1. PICK s \in Docs, t \in Docs, Own \in SUBSET items, Gone \in SUBSET items :
               /\ req[a].docs = {s, t} /\ req[a].cats = Cats \cup {TaskMinions}
               /\ raced' = raced \cup {<<t, p[2]>> : p \in {p \in raced : p[1] = s}}
               /\ Moved(s, t, Own, Gone)
        BY <1>9, <2>2, AfterMerge
      <3>2. ASSUME NEW j \in items', j \notin items
            PROVE  \E i \in items : Passed(a, i, j)
        <4>1. PICK i \in Gone : j = [i EXCEPT !.doc = t] /\ i.doc = s
          BY <3>1, <3>2 DEF Moved
        <4>2. j.doc = t /\ j.cat = i.cat /\ j.data = i.data BY <1>1, <4>1 DEF Item
        <4>3. ASSUME NEW c, <<s, c>> \in raced PROVE <<t, c>> \in raced' BY <3>1, <4>3
        <4>4. req[a].op = "merge" BY <1>9, AfterMerge
        <4>5. QED BY <3>1, <4>1, <4>2, <4>3, <4>4 DEF Passed
      <3>3. QED BY <3>2
    <2>3. QED BY <2>1, <2>2
  <1>10. QED
    <2>1. Pull(a) => items' \subseteq items BY AfterPull
    <2>2. PullManual(a) => items' \subseteq items BY AfterPullManual
    <2>3. InsertMinion(a) => items' \subseteq items BY AfterInsert
    <2>4. DropMinions(a) => items' \subseteq items BY AfterDrop
    <2>5. StripEntries(a) => items' \subseteq items BY AfterStrip
    <2>6. DeleteTaskMinions(a) => items' \subseteq items BY AfterTasks
    <2>7. CreateTaskMinions(a) => items' \subseteq items BY AfterFill
    <2>8. RemoveCategoryData(a) => items' \subseteq items BY AfterWipe
    <2>9. DropCategory(a) => items' \subseteq items BY AfterDropCategory
    <2>10. PullField(a) => items' \subseteq items BY AfterPullField
    <2>11. QED BY <1>4, <1>5, <1>6, <1>7, <1>8, <1>9, <2>1, <2>2, <2>3, <2>4, <2>5, <2>6, <2>7,
                  <2>8, <2>9, <2>10 DEF Writing

\* A request that continues is for what it was for.
LEMMA Continued ==
    ASSUME Basics, NEW a \in Actors, NEW what, Doing(a, what), Continue(a)
    PROVE  \/ req'[a] = Idle
           \/ /\ req'[a].op = req[a].op /\ req'[a].docs = req[a].docs
              /\ req'[a].cats = req[a].cats /\ req'[a].data = req[a].data
  <1>1. req'[a] = Rest(a) /\ req[a] \in Request
    BY ContinueKeeps DEF Basics, Typed
  <1>2. QED BY <1>1 DEF Rest, Request

\* A request that goes on is for what it was for.
LEMMA WhereRequestsGo ==
    ASSUME Basics, NEW a \in Actors, Writing(a),
           \A i \in items : i.cat \in Aggregated => i.cat \in records
    PROVE  \/ req'[a] = Idle
           \/ /\ req'[a].op = req[a].op /\ req'[a].docs = req[a].docs
              /\ req'[a].cats = req[a].cats /\ req'[a].data = req[a].data
  <1>1. CASE WriteStatic(a) BY <1>1, AfterWriteStatic
  <1>2. CASE Pull(a) BY <1>2, AfterPull
  <1>3. CASE Push(a) BY <1>3, AfterPush
  <1>4. CASE ImportTransaction(a) BY <1>4, AfterImport
  <1>5. CASE SetManual(a) BY <1>5, AfterSetManual
  <1>6. CASE PullManual(a) BY <1>6, AfterPullManual
  <1>7. CASE InsertMinion(a) BY <1>7, AfterInsert
  <1>8. CASE DropMinions(a)
    <2>1. Doing(a, "drop") /\ Continue(a) BY <1>8 DEF DropMinions
    <2>2. QED BY <2>1, Continued
  <1>9. CASE StripEntries(a)
    <2>1. Doing(a, "strip") /\ Continue(a) BY <1>9 DEF StripEntries
    <2>2. QED BY <2>1, Continued
  <1>10. CASE DeleteTaskMinions(a) BY <1>10, AfterTasks
  <1>11. CASE CreateTaskMinions(a) BY <1>11, AfterFill
  <1>12. CASE RemoveCategoryData(a)
    <2>1. Doing(a, "wipe") /\ Continue(a) BY <1>12 DEF RemoveCategoryData
    <2>2. QED BY <2>1, Continued
  <1>13. CASE DropCategory(a) BY <1>13, AfterDropCategory
  <1>14. CASE PullField(a) BY <1>14, AfterPullField
  <1>15. CASE RemoveCategoryField(a) BY <1>15, AfterClear
  <1>16. CASE Merge(a) BY <1>16, AfterMerge
  <1>17. QED BY <1>1, <1>2, <1>3, <1>4, <1>5, <1>6, <1>7, <1>8, <1>9, <1>10, <1>11, <1>12,
                <1>13, <1>14, <1>15, <1>16 DEF Writing

\* The categories, their fields and the items.
KnownItems ==
    \A i \in items : /\ category[i.cat].there \/ category[i.cat].deleted
                     /\ i.cat \in Aggregated => i.cat \in records
KnownToWriters ==
    \A a \in Actors :
        /\ req[a].op \in {"add", "ingest", "import"} =>
               \A c \in req[a].cats : category[c].there \/ category[c].deleted
        /\ req[a].op \in {"add", "ingest", "import", "update"} =>
               \A d \in req[a].docs, c \in req[a].cats :
                   \/ c \in System \/ <<d, c>> \in raced
                   \/ category[c].there /\ req[a].data \subseteq category[c].fields
Wiped ==
    \A a \in Actors : req[a].op = "drop_category" /\ req[a].next = <<"category">> =>
        \A i \in items : i.cat \in req[a].cats => <<i.doc, i.cat>> \in raced
Cleared ==
    \A a \in Actors : req[a].op = "drop_field" /\ req[a].next = <<"field">> =>
        \A i \in items : i.cat \in req[a].cats =>
            <<i.doc, i.cat>> \in raced \/ i.data \cap req[a].data = {}
SystemStays == \A c \in System : ~category[c].deleted
Categories ==
    KnownItems /\ KnownToWriters /\ Wiped /\ Cleared /\ SystemStays /\ CategoryIsGone

\* A request that begins knows the category as it is.
LEMMA BeginKeepsCategories ==
    ASSUME Basics, Categories, NEW a \in Actors, Begins(a) PROVE Categories'
  <1>1. /\ Prepared(req'[a]) /\ raced \subseteq raced'
        /\ \A b \in Actors \ {a} : req'[b] = req[b]
        /\ UNCHANGED <<minion, items, category, records, waits>>
    BY BegunIs
  <1>2. KnownItems' /\ SystemStays' /\ CategoryIsGone'
    BY <1>1 DEF Categories, KnownItems, SystemStays, CategoryIsGone
  <1>3. KnownToWriters'
    <2>1. ASSUME NEW b \in Actors
          PROVE  /\ req'[b].op \in {"add", "ingest", "import"} =>
                        \A c \in req'[b].cats : category[c].there \/ category[c].deleted
                 /\ req'[b].op \in {"add", "ingest", "import", "update"} =>
                        \A d \in req'[b].docs, c \in req'[b].cats :
                            \/ c \in System \/ <<d, c>> \in raced'
                            \/ category[c].there /\ req'[b].data \subseteq category[c].fields
      <3>1. CASE b = a BY <1>1, <3>1 DEF Prepared
      <3>2. CASE b # a
        <4>1. req'[b] = req[b] BY <1>1, <3>2
        <4>2. QED BY <1>1, <4>1 DEF Categories, KnownToWriters
      <3>3. QED BY <3>1, <3>2
    <2>2. QED BY <1>1, <2>1 DEF KnownToWriters
  <1>4. Wiped' /\ Cleared'
    <2>1. /\ req'[a].op = "drop_category" => req'[a].next # <<"category">>
          /\ req'[a].op = "drop_field" => req'[a].next # <<"field">>
      BY <1>1, Follows DEF Prepared
    <2>2. Wiped'
      <3>1. ASSUME NEW b \in Actors, req'[b].op = "drop_category", req'[b].next = <<"category">>,
                   NEW i \in items, i.cat \in req'[b].cats
            PROVE  <<i.doc, i.cat>> \in raced'
        <4>1. b # a /\ req'[b] = req[b] BY <1>1, <2>1, <3>1
        <4>2. QED BY <1>1, <3>1, <4>1 DEF Categories, Wiped
      <3>2. QED BY <1>1, <3>1 DEF Wiped
    <2>3. Cleared'
      <3>1. ASSUME NEW b \in Actors, req'[b].op = "drop_field", req'[b].next = <<"field">>,
                   NEW i \in items, i.cat \in req'[b].cats
            PROVE  <<i.doc, i.cat>> \in raced' \/ i.data \cap req'[b].data = {}
        <4>1. b # a /\ req'[b] = req[b] BY <1>1, <2>1, <3>1
        <4>2. QED BY <1>1, <3>1, <4>1 DEF Categories, Cleared
      <3>2. QED BY <1>1, <3>1 DEF Cleared
    <2>4. QED BY <2>2, <2>3
  <1>5. QED BY <1>2, <1>3, <1>4 DEF Categories

\* Categories that users create or extend, or modules sync, are those requests know.
LEMMA AtOnceKeepsCategories ==
    ASSUME Basics, Categories, NEW a \in Actors, AtOnceRequest(a) PROVE Categories'
  <1>1. /\ UNCHANGED <<items, records, waits, req, raced>>
        /\ \A c \in Cats :
              /\ category'[c].deleted = category[c].deleted
              /\ category[c].there => category'[c].there
              /\ c \in System \/ ~category[c].there \/
                     category[c].fields \subseteq category'[c].fields
    BY AtOnceIs
  <1>2. Wiped' /\ Cleared' BY <1>1 DEF Categories, Wiped, Cleared
  <1>3. SystemStays' BY <1>1, InventoryAssumption DEF Categories, SystemStays, Cats
  <1>4. \A i \in items : i.cat \in Cats BY DEF Basics, Typed, Item
  <1>5. KnownItems' BY <1>1, <1>4 DEF Categories, KnownItems
  <1>6. CategoryIsGone'
    BY <1>1, <1>4 DEF Categories, CategoryIsGone
  <1>7. KnownToWriters'
    <2>1. ASSUME NEW b \in Actors, req[b].op \in {"add", "ingest", "import", "update"}
          PROVE  req[b].cats \subseteq Cats
      BY <2>1 DEF Basics, Shaped, Shape
    <2>2. QED BY <1>1, <2>1 DEF Categories, KnownToWriters
  <1>8. QED BY <1>2, <1>3, <1>5, <1>6, <1>7 DEF Categories

\* Two requests on the same item.
LEMMA RacedOnes ==
    ASSUME Basics, NEW a \in Actors, NEW b \in Actors, a # b, NEW d, NEW c,
           d \in req[a].docs, d \in req[b].docs, c \in req[a].cats, c \in req[b].cats
    PROVE  <<d, c>> \in raced
  BY DEF Basics, Apart, Touches

\* The writes that leave the categories alone.
LEMMA ItemsKeepCategories ==
    ASSUME Basics, Categories, NEW a \in Actors, Writing(a), UNCHANGED category,
           ~PullField(a), ~DropCategory(a)
    PROVE  /\ KnownToWriters' /\ SystemStays' /\ CategoryIsGone'
           /\ \A i \in items' : category[i.cat].there \/ category[i.cat].deleted
  <1>1. /\ raced \subseteq raced' /\ \A b \in Actors \ {a} : req'[b] = req[b]
    BY RequestsGoOn
  <1>2. \/ req'[a] = Idle
        \/ /\ req'[a].op = req[a].op /\ req'[a].docs = req[a].docs
           /\ req'[a].cats = req[a].cats /\ req'[a].data = req[a].data
    BY WhereRequestsGo DEF Categories, KnownItems
  <1>3. \A j \in items' : \/ j \in items \/ Written(a, j)
                          \/ \E i \in items : Changed(a, i, j) \/ Passed(a, i, j)
    BY WhereItemsComeFrom DEF Categories, KnownItems
  <1>4. Idle.op = "idle" BY DEF Idle
  <1>5. SystemStays' BY DEF Categories, SystemStays
  <1>6. KnownToWriters'
    <2>1. ASSUME NEW b \in Actors
          PROVE  /\ req'[b].op \in {"add", "ingest", "import"} =>
                        \A c \in req'[b].cats : category[c].there \/ category[c].deleted
                 /\ req'[b].op \in {"add", "ingest", "import", "update"} =>
                        \A d \in req'[b].docs, c \in req'[b].cats :
                            \/ c \in System \/ <<d, c>> \in raced'
                            \/ category[c].there /\ req'[b].data \subseteq category[c].fields
      <3>1. CASE req'[b] = Idle BY <1>4, <3>1
      <3>2. CASE req'[b] # Idle
        <4>1. /\ req'[b].op = req[b].op /\ req'[b].docs = req[b].docs
              /\ req'[b].cats = req[b].cats /\ req'[b].data = req[b].data
          BY <1>1, <1>2, <3>2
        <4>2. QED BY <1>1, <4>1 DEF Categories, KnownToWriters
      <3>3. QED BY <3>1, <3>2
    <2>2. QED BY <2>1 DEF KnownToWriters
  <1>7. ASSUME NEW j \in items'
        PROVE  /\ category[j.cat].there \/ category[j.cat].deleted
               /\ \/ j.cat \in System \/ <<j.doc, j.cat>> \in raced'
                  \/ category[j.cat].there /\ j.data \subseteq category[j.cat].fields
    <2>1. CASE j \in items
      BY <1>1, <2>1 DEF Categories, KnownItems, CategoryIsGone
    <2>2. CASE Written(a, j)
      BY <1>1, <2>2 DEF Categories, KnownToWriters, Written
    <2>3. ASSUME NEW i \in items, Changed(a, i, j)
          PROVE  /\ category[j.cat].there \/ category[j.cat].deleted
                 /\ \/ j.cat \in System \/ <<j.doc, j.cat>> \in raced'
                    \/ category[j.cat].there /\ j.data \subseteq category[j.cat].fields
      <3>1. /\ category[i.cat].there \/ category[i.cat].deleted
            /\ \/ i.cat \in System \/ <<i.doc, i.cat>> \in raced
               \/ category[i.cat].there /\ i.data \subseteq category[i.cat].fields
        BY DEF Categories, KnownItems, CategoryIsGone
      <3>2. CASE j.data \subseteq i.data BY <1>1, <2>3, <3>1, <3>2 DEF Changed
      <3>3. CASE ~(j.data \subseteq i.data)
        <4>1. /\ req[a].op = "update" /\ i.doc \in req[a].docs /\ i.cat \in req[a].cats
              /\ j.data \subseteq i.data \cup req[a].data /\ j.doc = i.doc /\ j.cat = i.cat
          BY <2>3, <3>3 DEF Changed
        <4>2. \/ i.cat \in System \/ <<i.doc, i.cat>> \in raced
              \/ category[i.cat].there /\ req[a].data \subseteq category[i.cat].fields
          BY <4>1 DEF Categories, KnownToWriters
        <4>3. QED BY <1>1, <3>1, <4>1, <4>2
      <3>4. QED BY <3>2, <3>3
    <2>4. ASSUME NEW i \in items, Passed(a, i, j)
          PROVE  /\ category[j.cat].there \/ category[j.cat].deleted
                 /\ \/ j.cat \in System \/ <<j.doc, j.cat>> \in raced'
                    \/ category[j.cat].there /\ j.data \subseteq category[j.cat].fields
      BY <2>4 DEF Categories, KnownItems, CategoryIsGone, Passed
    <2>5. QED BY <1>3, <2>1, <2>2, <2>3, <2>4
  <1>8. CategoryIsGone' BY <1>7 DEF CategoryIsGone
  <1>9. QED BY <1>5, <1>6, <1>7, <1>8

\* Entries have a record after each of the writes.
LEMMA WritesKeepRecords ==
    ASSUME Basics, Categories, NEW a \in Actors, Writing(a)
    PROVE  \A i \in items' : i.cat \in Aggregated => i.cat \in records'
  <1>1. \A i \in items : i.cat \in Aggregated => i.cat \in records
    BY DEF Categories, KnownItems
  <1>2. \A j \in items' : \/ j \in items \/ Written(a, j)
                          \/ \E i \in items : Changed(a, i, j) \/ Passed(a, i, j)
    BY <1>1, WhereItemsComeFrom
  <1>3. CASE Push(a)
    <2>1. PICK D \in SUBSET Docs : D = req[a].to BY DEF Basics, Typed, Request
    <2>2. /\ items' = items \cup NewItems(req[a], D) /\ req[a].cats \subseteq Aggregated
          /\ records' = IF req[a].data = {} THEN records ELSE records \cup req[a].cats
      BY <1>3, <2>1, AfterPush
    <2>3. \A i \in NewItems(req[a], D) : i.cat \in req[a].cats /\ req[a].data # {}
      BY <2>2, NewItemsAre DEF Basics, Cats
    <2>4. QED BY <1>1, <2>2, <2>3
  <1>4. CASE ImportTransaction(a)
    <2>1. PICK D \in SUBSET Docs : D = There(req[a].to)
      BY DEF Basics, Typed, Request, There
    <2>2. /\ items' \subseteq items \cup NewItems(req[a], D) /\ req[a].cats \subseteq Cats
          /\ records' = IF D = {} THEN records ELSE records \cup (req[a].cats \cap Aggregated)
      BY <1>4, <2>1, AfterImport
    <2>3. \A i \in NewItems(req[a], D) : i.cat \in req[a].cats /\ i.doc \in D
      BY <2>2, NewItemsAre DEF Basics
    <2>4. QED BY <1>1, <2>2, <2>3
  <1>5. CASE RemoveCategoryData(a)
    BY <1>1, <1>5, AfterWipe
  <1>6. CASE WriteStatic(a)
    <2>1. /\ records' = records /\ req[a].cats \subseteq Static
      BY <1>6, AfterWriteStatic
    <2>2. \A j \in items' : j \in items \/ j.cat \in req[a].cats \/ \E i \in items : i.cat = j.cat
      BY <1>2 DEF Written, Changed, Passed
    <2>3. QED BY <1>1, <2>1, <2>2, InventoryAssumption
  <1>7. CASE ~(Push(a) \/ ImportTransaction(a) \/ RemoveCategoryData(a) \/ WriteStatic(a))
    <2>1. Pull(a) \/ (records' = records /\ req[a].op \notin {"add", "ingest", "import"})
      BY <1>1, <1>7, AfterPull, AfterSetManual, AfterPullManual, AfterInsert, AfterDrop, AfterStrip,
         AfterTasks, AfterFill, AfterDropCategory, AfterPullField, AfterClear, AfterMerge
         DEF Writing
    <2>2. Pull(a) => items' \subseteq items /\ records' = records BY AfterPull
    <2>3. \A j \in items' : j \in items \/ \E i \in items : i.cat = j.cat
      BY <1>2, <2>1, <2>2 DEF Written, Changed, Passed
    <2>4. QED BY <1>1, <2>1, <2>2, <2>3
  <1>8. QED BY <1>3, <1>4, <1>5, <1>6, <1>7

\* What a request has emptied is filled again only by one it races.
LEMMA WritesKeepEmptied ==
    ASSUME Basics, Categories, NEW a \in Actors, Writing(a), NEW b \in Actors, b # a,
           req[b].docs = Docs
    PROVE  \A j \in items' : j.cat \in req[b].cats =>
               \/ <<j.doc, j.cat>> \in raced'
               \/ \E i \in items : /\ i.doc = j.doc /\ i.cat = j.cat /\ j.data \subseteq i.data
  <1>1. raced \subseteq raced' BY RequestsGoOn
  <1>2. \A j \in items' : \/ j \in items \/ Written(a, j)
                          \/ \E i \in items : Changed(a, i, j) \/ Passed(a, i, j)
    BY WhereItemsComeFrom DEF Categories, KnownItems
  <1>3. \A i \in items : i.doc \in Docs BY DEF Basics, Typed, Item
  <1>4. req[a].docs \subseteq Docs BY DEF Basics, Typed, Request
  <1>5. \A d \in req[a].docs, c \in req[a].cats : c \in req[b].cats => <<d, c>> \in raced
    BY <1>4, RacedOnes
  <1>6. ASSUME NEW j \in items', j.cat \in req[b].cats
        PROVE  \/ <<j.doc, j.cat>> \in raced'
               \/ \E i \in items : /\ i.doc = j.doc /\ i.cat = j.cat /\ j.data \subseteq i.data
    <2>1. CASE j \in items BY <2>1
    <2>2. CASE Written(a, j) BY <1>1, <1>5, <1>6, <2>2 DEF Written
    <2>3. ASSUME NEW i \in items, Changed(a, i, j)
          PROVE  \/ <<j.doc, j.cat>> \in raced'
                 \/ \E k \in items : /\ k.doc = j.doc /\ k.cat = j.cat /\ j.data \subseteq k.data
      BY <1>1, <1>5, <1>6, <2>3 DEF Changed
    <2>4. ASSUME NEW i \in items, Passed(a, i, j)
          PROVE  <<j.doc, j.cat>> \in raced'
      <3>1. /\ j.doc \in req[a].docs /\ req[a].cats = Cats \cup {TaskMinions} /\ i.cat \in Cats
            /\ j.cat = i.cat
        BY <2>4 DEF Passed, Basics, Typed, Item
      <3>2. QED BY <1>1, <1>5, <1>6, <3>1
    <2>5. QED BY <1>2, <1>6, <2>1, <2>2, <2>3, <2>4
  <1>7. QED BY <1>6

\* What RemoveCategoryData and RemoveCategoryField emptied stays so until the
\* category or the field goes.
LEMMA WritesKeepWiped ==
    ASSUME Basics, Categories, NEW a \in Actors, Writing(a) PROVE Wiped' /\ Cleared'
  <1>1. /\ raced \subseteq raced' /\ \A b \in Actors \ {a} : req'[b] = req[b]
    BY RequestsGoOn
  <1>2. Idle.op = "idle" BY DEF Idle
  <1>3. ASSUME NEW b \in Actors, req'[b].op = "drop_category", req'[b].next = <<"category">>,
               NEW j \in items', j.cat \in req'[b].cats
        PROVE  <<j.doc, j.cat>> \in raced'
    <2>1. CASE b # a
      <3>1. req'[b] = req[b] /\ req[b].docs = Docs
        BY <1>1, <1>3, <2>1 DEF Basics, Shaped, Shape
      <3>2. \/ <<j.doc, j.cat>> \in raced'
            \/ \E i \in items : /\ i.doc = j.doc /\ i.cat = j.cat /\ j.data \subseteq i.data
        BY <1>3, <2>1, <3>1, WritesKeepEmptied
      <3>3. QED BY <1>1, <1>3, <3>1, <3>2 DEF Categories, Wiped
    <2>2. CASE b = a
      <3>1. RemoveCategoryData(a)
        <4>1. req'[a].op = "drop_category" /\ req'[a].next = <<"category">> BY <1>3, <2>2
        <4>2. req'[a].op = req[a].op
          BY <4>1, <1>2, WhereRequestsGo DEF Categories, KnownItems
        <4>3. ~(DropCategory(a)) BY <4>1, <1>2, AfterDropCategory
        <4>4. QED BY <4>1, <4>2, <4>3, AfterWriteStatic, AfterPull, AfterPush, AfterImport,
                AfterSetManual, AfterPullManual, AfterInsert, AfterDrop, AfterStrip, AfterTasks,
                AfterFill, AfterPullField, AfterClear, AfterMerge
                DEF Writing, Categories, KnownItems
      <3>2. QED BY <1>3, <2>2, <3>1, AfterWipe
    <2>3. QED BY <2>1, <2>2
  <1>4. ASSUME NEW b \in Actors, req'[b].op = "drop_field", req'[b].next = <<"field">>,
               NEW j \in items', j.cat \in req'[b].cats
        PROVE  <<j.doc, j.cat>> \in raced' \/ j.data \cap req'[b].data = {}
    <2>1. CASE b # a
      <3>1. req'[b] = req[b] /\ req[b].docs = Docs
        BY <1>1, <1>4, <2>1 DEF Basics, Shaped, Shape
      <3>2. \/ <<j.doc, j.cat>> \in raced'
            \/ \E i \in items : /\ i.doc = j.doc /\ i.cat = j.cat /\ j.data \subseteq i.data
        BY <1>4, <2>1, <3>1, WritesKeepEmptied
      <3>3. QED BY <1>1, <1>4, <3>1, <3>2 DEF Categories, Cleared
    <2>2. CASE b = a
      <3>1. RemoveCategoryField(a)
        <4>1. req'[a].op = "drop_field" /\ req'[a].next = <<"field">> BY <1>4, <2>2
        <4>2. req'[a].op = req[a].op
          BY <4>1, <1>2, WhereRequestsGo DEF Categories, KnownItems
        <4>3. ~PullField(a) BY <4>1, <1>2, AfterPullField
        <4>4. QED BY <4>1, <4>2, <4>3, AfterWriteStatic, AfterPull, AfterPush, AfterImport,
                AfterSetManual, AfterPullManual, AfterInsert, AfterDrop, AfterStrip, AfterTasks,
                AfterFill, AfterDropCategory, AfterWipe, AfterMerge DEF Writing
      <3>2. \/ req'[a] = Idle
            \/ /\ req'[a].cats = req[a].cats /\ req'[a].data = req[a].data
               /\ \A i \in items' : i.cat \in req[a].cats => i.data \cap req[a].data = {}
        BY <3>1, AfterClear DEF Categories, KnownItems
      <3>3. QED BY <1>2, <1>4, <2>2, <3>2
    <2>3. QED BY <2>1, <2>2
  <1>5. Wiped' BY <1>3 DEF Wiped
  <1>6. Cleared' BY <1>4 DEF Cleared
  <1>7. QED BY <1>5, <1>6

\* The category, or its field, goes: what other requests know of it is raced.
LEMMA EditsKeepCategories ==
    ASSUME Basics, Categories, NEW a \in Actors, DropCategory(a) \/ PullField(a)
    PROVE  /\ KnownToWriters' /\ SystemStays' /\ CategoryIsGone'
           /\ \A i \in items' : category'[i.cat].there \/ category'[i.cat].deleted
  <1>1. /\ raced' = raced /\ items' = items /\ req'[a] = Idle
        /\ \A b \in Actors \ {a} : req'[b] = req[b]
        /\ req[a].docs = Docs /\ req[a].cats \subseteq Cats \ System
    BY RequestsGoOn, AfterDropCategory, AfterPullField DEF Writing
  <1>2. ASSUME NEW c \in Cats
        PROVE  /\ c \notin req[a].cats => category'[c] = category[c]
               /\ category[c].there \/ category[c].deleted =>
                      category'[c].there \/ category'[c].deleted
               /\ c \in System => category'[c].deleted = category[c].deleted
    <2>1. CASE DropCategory(a) BY <2>1, AfterDropCategory
    <2>2. CASE PullField(a) BY <2>2, AfterPullField DEF Basics, Typed, CategoryType
    <2>3. QED BY <2>1, <2>2
  <1>3. Idle.op = "idle" BY DEF Idle
  <1>4. SystemStays' BY <1>2, InventoryAssumption DEF Categories, SystemStays, Cats
  <1>5. \A i \in items : i.cat \in Cats /\ i.doc \in Docs BY DEF Basics, Typed, Item
  <1>6. \A i \in items' : category'[i.cat].there \/ category'[i.cat].deleted
    BY <1>1, <1>2, <1>5 DEF Categories, KnownItems
  <1>7. KnownToWriters'
    <2>1. ASSUME NEW b \in Actors, req'[b].op \in {"add", "ingest", "import", "update"}
          PROVE  b # a /\ req'[b] = req[b] /\ req[b].cats \subseteq Cats /\ req[b].docs \subseteq Docs
      <3>1. b # a /\ req'[b] = req[b] BY <1>1, <1>3, <2>1
      <3>2. QED BY <2>1, <3>1 DEF Basics, Typed, Request, Shaped, Shape
    <2>2. ASSUME NEW b \in Actors, req'[b].op \in {"add", "ingest", "import"},
                 NEW c \in req'[b].cats
          PROVE  category'[c].there \/ category'[c].deleted
      BY <1>2, <2>1, <2>2 DEF Categories, KnownToWriters
    <2>3. ASSUME NEW b \in Actors, req'[b].op \in {"add", "ingest", "import", "update"},
                 NEW d \in req'[b].docs, NEW c \in req'[b].cats
          PROVE  \/ c \in System \/ <<d, c>> \in raced'
                 \/ category'[c].there /\ req'[b].data \subseteq category'[c].fields
      <3>1. CASE c \in req[a].cats
        <4>1. <<d, c>> \in raced BY <1>1, <2>1, <2>3, <3>1, RacedOnes
        <4>2. QED BY <1>1, <4>1
      <3>2. CASE c \notin req[a].cats
        BY <1>1, <1>2, <2>1, <2>3, <3>2 DEF Categories, KnownToWriters
      <3>3. QED BY <3>1, <3>2
    <2>4. QED BY <2>2, <2>3 DEF KnownToWriters
  <1>8. CategoryIsGone'
    <2>1. ASSUME NEW i \in items
          PROVE  \/ i.cat \in System \/ <<i.doc, i.cat>> \in raced
                 \/ category'[i.cat].there /\ i.data \subseteq category'[i.cat].fields
      <3>1. CASE i.cat \notin req[a].cats
        BY <1>2, <1>5, <3>1 DEF Categories, CategoryIsGone
      <3>2. CASE i.cat \in req[a].cats /\ DropCategory(a)
        BY <3>2, AfterDropCategory DEF Categories, Wiped
      <3>3. CASE i.cat \in req[a].cats /\ PullField(a)
        <4>1. <<i.doc, i.cat>> \in raced \/ i.data \cap req[a].data = {}
          BY <3>3, AfterPullField DEF Categories, Cleared
        <4>2. /\ category'[i.cat].there = category[i.cat].there
              /\ category'[i.cat].fields = category[i.cat].fields \ req[a].data
          BY <1>5, <3>3, AfterPullField DEF Basics, Typed, CategoryType
        <4>3. QED BY <4>1, <4>2 DEF Categories, CategoryIsGone
      <3>4. QED BY <3>1, <3>2, <3>3
    <2>2. QED BY <1>1, <2>1 DEF CategoryIsGone
  <1>9. QED BY <1>4, <1>6, <1>7, <1>8

\* Each of the writes keeps the items and what requests know of the categories.
LEMMA WritesKeepCategories ==
    ASSUME Basics, Categories, NEW a \in Actors, Writing(a) PROVE Categories'
  <1>1. Wiped' /\ Cleared' BY WritesKeepWiped
  <1>2. CASE DropCategory(a) \/ PullField(a)
    BY <1>1, <1>2, EditsKeepCategories, WritesKeepRecords DEF Categories, KnownItems
  <1>3. CASE ~DropCategory(a) /\ ~PullField(a)
    <2>1. UNCHANGED category
      BY <1>3, AfterWriteStatic, AfterPull, AfterPush, AfterImport, AfterSetManual,
         AfterPullManual, AfterInsert, AfterDrop, AfterStrip, AfterTasks, AfterFill, AfterWipe,
         AfterClear, AfterMerge DEF Writing, Categories, KnownItems
    <2>2. /\ KnownToWriters' /\ SystemStays' /\ CategoryIsGone'
          /\ \A i \in items' : category[i.cat].there \/ category[i.cat].deleted
      BY <1>3, <2>1, ItemsKeepCategories
    <2>3. QED BY <1>1, <2>1, <2>2, WritesKeepRecords DEF Categories, KnownItems
  <1>4. QED BY <1>2, <1>3

\* The manual items of a category that may be but one.
Manuals(d, c) == {i \in items : i.doc = d /\ i.cat = c /\ ~i.is_system}
OneOrRaced(d, c) ==
    \/ <<d, c>> \in raced /\ (c \in Aggregated \/ category[c].deleted)
    \/ \A i, j \in Manuals(d, c) : i = j
Pulled ==
    \A a \in Actors :
        /\ req[a].op \in {"add", "ingest"} /\ req[a].next = <<"push">> /\ ~req[a].is_system
        => \A c \in req[a].cats \cap Single \cap Aggregated, d \in req[a].to :
               <<d, c>> \in raced \/ Manuals(d, c) = {}
Singles == Pulled /\ \A d \in Docs, c \in Single : OneOrRaced(d, c)

\* A request that begins has pulled nothing yet.
LEMMA BeginKeepsSingles ==
    ASSUME Basics, Singles, NEW a \in Actors, Begins(a) PROVE Singles'
  <1>1. /\ Prepared(req'[a]) /\ raced \subseteq raced'
        /\ \A b \in Actors \ {a} : req'[b] = req[b]
        /\ UNCHANGED <<minion, items, category, records, waits>>
    BY BegunIs
  <1>2. ASSUME NEW d \in Docs, NEW c \in Single PROVE OneOrRaced(d, c)'
    BY <1>1 DEF Singles, OneOrRaced, Manuals
  <1>3. ASSUME NEW b \in Actors, req'[b].op \in {"add", "ingest"}, req'[b].next = <<"push">>,
               ~req'[b].is_system, NEW c \in req'[b].cats \cap Single \cap Aggregated,
               NEW d \in req'[b].to
        PROVE  <<d, c>> \in raced' \/ Manuals(d, c)' = {}
    <2>1. b # a BY <1>1, <1>3 DEF Prepared
    <2>2. req'[b] = req[b] BY <1>1, <2>1
    <2>3. QED BY <1>1, <1>3, <2>2 DEF Singles, Pulled, Manuals
  <1>4. Pulled' BY <1>3 DEF Pulled
  <1>5. QED BY <1>2, <1>4 DEF Singles

\* Requests of one step leave the items alone.
LEMMA AtOnceKeepsSingles ==
    ASSUME Basics, Singles, NEW a \in Actors, AtOnceRequest(a) PROVE Singles'
  <1>1. /\ UNCHANGED <<items, req, raced>>
        /\ \A c \in Cats : category'[c].deleted = category[c].deleted
    BY AtOnceIs
  <1>2. \A d, c : Manuals(d, c)' = Manuals(d, c) BY <1>1 DEF Manuals
  <1>5. Pulled' BY <1>1, <1>2 DEF Singles, Pulled
  <1>3. ASSUME NEW d \in Docs, NEW c \in Single PROVE OneOrRaced(d, c)'
    BY <1>1, InventoryAssumption DEF Singles, OneOrRaced, Manuals
  <1>4. QED BY <1>3, <1>5 DEF Singles

\* A category that was deleted remains one.
LEMMA DeletedStays ==
    ASSUME Basics, Categories, NEW a \in Actors, Writing(a), NEW c \in Cats
    PROVE  category[c].deleted => category'[c].deleted
  <1>1. CASE DropCategory(a) BY <1>1, AfterDropCategory
  <1>2. CASE PullField(a) BY <1>2, AfterPullField DEF Basics, Typed, CategoryType
  <1>3. CASE ~DropCategory(a) /\ ~PullField(a)
    BY <1>3, AfterWriteStatic, AfterPull, AfterPush, AfterImport, AfterSetManual,
       AfterPullManual, AfterInsert, AfterDrop, AfterStrip, AfterTasks, AfterFill, AfterWipe,
       AfterClear, AfterMerge DEF Writing, Categories, KnownItems
  <1>4. QED BY <1>1, <1>2, <1>3

\* Fewer of them, or the same with other data, are no more than one.
LEMMA FewerAreOne ==
    ASSUME Basics, Categories, Singles, NEW a \in Actors, Writing(a), NEW d \in Docs,
           NEW c \in Single, Manuals(d, c)' \subseteq Manuals(d, c)
    PROVE  OneOrRaced(d, c)'
  <1>1. raced \subseteq raced' BY RequestsGoOn
  <1>2. c \in Cats BY InventoryAssumption
  <1>3. OneOrRaced(d, c) BY DEF Singles
  <1>4. category[c].deleted => category'[c].deleted BY <1>2, DeletedStays
  <1>5. QED BY <1>1, <1>3, <1>4 DEF OneOrRaced

\* An item that is edited is still one.
LEMMA EditedAreOne ==
    ASSUME Basics, Categories, Singles, NEW a \in Actors, Writing(a), NEW d \in Docs,
           NEW c \in Single, NEW g, Edited(g)
    PROVE  OneOrRaced(d, c)'
  <1>1. raced \subseteq raced' BY RequestsGoOn
  <1>2. c \in Cats BY InventoryAssumption
  <1>3. OneOrRaced(d, c) BY DEF Singles
  <1>4. category[c].deleted => category'[c].deleted BY <1>2, DeletedStays
  <1>5. ASSUME NEW j \in Manuals(d, c)'
        PROVE  \E i \in Manuals(d, c) : j = [i EXCEPT !.data = g[i]]
    <2>1. PICK i \in items : j = [i EXCEPT !.data = g[i]] BY <1>5 DEF Edited, Manuals
    <2>2. i \in Item BY DEF Basics, Typed
    <2>3. QED BY <1>5, <2>1, <2>2 DEF Manuals, Item
  <1>6. QED BY <1>1, <1>3, <1>4, <1>5 DEF OneOrRaced

\* A write of its own items takes those of the minion away first.
LEMMA WrittenAreOne ==
    ASSUME Basics, Categories, Singles, NEW a \in Actors, Writing(a), NEW d \in Docs,
           NEW c \in Single, NEW D \in SUBSET Docs, req[a].cats \subseteq Cats,
           items' \subseteq items \cup NewItems(req[a], D),
           d \in D /\ c \in req[a].cats /\ ~req[a].is_system =>
               Manuals(d, c)' \subseteq NewItems(req[a], D)
    PROVE  OneOrRaced(d, c)'
  <1>1. /\ \A i \in NewItems(req[a], D) : /\ i.doc \in D /\ i.cat \in req[a].cats
                                          /\ i.is_system = req[a].is_system
        /\ \A i, j \in NewItems(req[a], D) : i.doc = j.doc /\ i.cat = j.cat => i = j
    BY NewItemsAre DEF Basics
  <1>2. CASE d \in D /\ c \in req[a].cats /\ ~req[a].is_system
    BY <1>1, <1>2 DEF OneOrRaced, Manuals
  <1>3. CASE ~(d \in D /\ c \in req[a].cats /\ ~req[a].is_system)
    <2>1. Manuals(d, c)' \subseteq Manuals(d, c) BY <1>1, <1>3 DEF Manuals
    <2>2. QED BY <2>1, FewerAreOne
  <1>4. QED BY <1>2, <1>3

\* Of two that merge made one minion's, the category is there no more.
LEMMA MergedAreOne ==
    ASSUME Basics, Categories, Singles, NEW a \in Actors, Merge(a), NEW d \in Docs,
           NEW c \in Single
    PROVE  OneOrRaced(d, c)'
  <1>1. Writing(a) /\ UNCHANGED category BY AfterMerge DEF Writing
  <1>2. CASE UNCHANGED <<items, raced>>
    <2>1. Manuals(d, c)' \subseteq Manuals(d, c) BY <1>2 DEF Manuals
    <2>2. QED BY <1>1, <2>1, FewerAreOne
  <1>3. CASE ~UNCHANGED <<items, raced>>
    <2>1. PICK s \in Docs, t \in Docs, Own \in SUBSET items, Gone \in SUBSET items :
             /\ s # t /\ raced' = raced \cup {<<t, p[2]>> : p \in {p \in raced : p[1] = s}}
             /\ Moved(s, t, Own, Gone)
      BY <1>3, AfterMerge
    <2>2. items \subseteq Item BY DEF Basics, Typed
    <2>3. \A j \in items' : j \in Own \/ \E i \in Gone : j = [i EXCEPT !.doc = t]
      BY <2>1 DEF Moved
    <2>4. CASE d # t
      <3>1. Manuals(d, c)' \subseteq Manuals(d, c)
        BY <2>1, <2>2, <2>3, <2>4 DEF Manuals, Item
      <3>2. QED BY <1>1, <3>1, FewerAreOne
    <2>5. CASE d = t
      <3>1. c \in Cats BY InventoryAssumption
      <3>2. /\ OneOrRaced(s, c) /\ OneOrRaced(t, c) BY DEF Singles
      <3>3. CASE /\ <<t, c>> \in raced \/ <<s, c>> \in raced
                 /\ c \in Aggregated \/ category[c].deleted
        BY <1>1, <2>1, <2>5, <3>3 DEF OneOrRaced
      <3>4. CASE ~ /\ <<t, c>> \in raced \/ <<s, c>> \in raced
                   /\ c \in Aggregated \/ category[c].deleted
        <4>1. /\ \A i, j \in Manuals(s, c) : i = j
              /\ \A i, j \in Manuals(t, c) : i = j
          BY <3>2, <3>4 DEF OneOrRaced
        <4>2. ASSUME NEW j \in Manuals(t, c)'
              PROVE  \/ j \in Own /\ j \in Manuals(t, c)
                     \/ \E i \in Gone : i \in Manuals(s, c) /\ j = [i EXCEPT !.doc = t]
          <5>1. CASE j \in Own BY <4>2, <5>1, <2>1 DEF Manuals
          <5>2. ASSUME NEW i \in Gone, j = [i EXCEPT !.doc = t]
                PROVE  i \in Manuals(s, c)
            BY <4>2, <5>2, <2>1, <2>2 DEF Manuals, Moved, Item
          <5>3. QED BY <2>3, <4>2, <5>1, <5>2 DEF Manuals
        <4>3. ASSUME NEW i \in Own, NEW j \in Gone, i \in Manuals(t, c), j \in Manuals(s, c)
              PROVE  FALSE
          <5>1. ~category[c].there
            BY <2>1, <4>3 DEF Moved, Manuals
          <5>2. category[c].deleted
            BY <4>3, <5>1 DEF Manuals, Categories, KnownItems
          <5>3. c \notin System BY <5>2 DEF Categories, SystemStays
          <5>4. <<t, c>> \in raced
            BY <4>3, <5>1, <5>3 DEF Manuals, Categories, CategoryIsGone
          <5>5. QED BY <3>4, <5>2, <5>4
        <4>4. \A i, j \in Manuals(t, c)' : i = j
          BY <4>1, <4>2, <4>3
        <4>5. QED BY <2>5, <4>4 DEF OneOrRaced
      <3>5. QED BY <3>3, <3>4
    <2>6. QED BY <2>4, <2>5
  <1>4. QED BY <1>2, <1>3

\* Each of the writes leaves a minion at most one, but for races.
LEMMA WritesKeepOne ==
    ASSUME Basics, Categories, Singles, NEW a \in Actors, Writing(a), NEW d \in Docs,
           NEW c \in Single
    PROVE  OneOrRaced(d, c)'
  <1>1. CASE WriteStatic(a)
    <2>1. PICK e \in req[a].to :
             /\ items' \subseteq items \cup NewItems(req[a], {e} \cap There(Docs))
             /\ \/ req[a].cats \cap Single = {}
                \/ \A i \in items' :
                      i.doc = e /\ i.cat \in req[a].cats /\ i.is_system = req[a].is_system
                          => i \in NewItems(req[a], {e} \cap There(Docs))
      BY <1>1, AfterWriteStatic
    <2>2. PICK D \in SUBSET Docs : D = {e} \cap There(Docs) BY DEF There
    <2>3. req[a].cats \subseteq Cats /\ req[a].is_system \in BOOLEAN
      BY <1>1, AfterWriteStatic DEF Cats, Basics, Typed, Request
    <2>4. d \in D /\ c \in req[a].cats /\ ~req[a].is_system =>
              Manuals(d, c)' \subseteq NewItems(req[a], D)
      <3>1. SUFFICES ASSUME d \in D, c \in req[a].cats, ~req[a].is_system,
                            NEW i \in Manuals(d, c)'
                     PROVE  i \in NewItems(req[a], D)
        OBVIOUS
      <3>2. items' \subseteq Item BY WritesKeepBasics DEF Categories, KnownItems, Basics, Typed
      <3>3. i.is_system = req[a].is_system
        BY <2>3, <3>1, <3>2 DEF Manuals, Item
      <3>4. QED BY <2>1, <2>2, <3>1, <3>3 DEF Manuals
    <2>5. QED BY <2>1, <2>2, <2>3, <2>4, WrittenAreOne
  <1>2. CASE ImportTransaction(a)
    <2>1. /\ items' \subseteq items \cup NewItems(req[a], There(req[a].to))
          /\ req[a].cats \subseteq Cats
          /\ \/ req[a].cats \cap Single = {}
             \/ \A i \in items' :
                   i.doc \in There(req[a].to) /\ i.cat \in req[a].cats /\ ~i.is_system
                       => i \in NewItems(req[a], There(req[a].to))
      BY <1>2, AfterImport
    <2>2. PICK D \in SUBSET Docs : D = There(req[a].to)
      BY DEF There, Basics, Typed, Request
    <2>3. d \in D /\ c \in req[a].cats => Manuals(d, c)' \subseteq NewItems(req[a], D)
      BY <2>1, <2>2 DEF Manuals
    <2>4. QED BY <2>1, <2>2, <2>3, WrittenAreOne
  <1>3. CASE Push(a)
    <2>1. PICK D \in SUBSET Docs : D = req[a].to BY DEF Basics, Typed, Request
    <2>2. /\ items' = items \cup NewItems(req[a], D) /\ req[a].cats \subseteq Aggregated
          /\ req[a].op \in {"add", "ingest"} /\ req[a].next = <<"push">>
          /\ raced' = raced
      BY <1>3, <2>1, AfterPush
    <2>3. CASE d \in D /\ c \in req[a].cats /\ ~req[a].is_system
      <3>1. <<d, c>> \in raced \/ Manuals(d, c) = {}
        BY <2>1, <2>2, <2>3 DEF Singles, Pulled
      <3>2. CASE <<d, c>> \in raced BY <2>2, <2>3, <3>2 DEF OneOrRaced
      <3>3. CASE Manuals(d, c) = {}
        <4>1. Manuals(d, c)' \subseteq NewItems(req[a], D) BY <2>2, <3>3 DEF Manuals
        <4>2. QED BY <2>2, <4>1, WrittenAreOne DEF Cats
      <3>4. QED BY <3>1, <3>2, <3>3
    <2>4. CASE ~(d \in D /\ c \in req[a].cats /\ ~req[a].is_system)
      BY <2>2, <2>4, WrittenAreOne DEF Cats
    <2>5. QED BY <2>3, <2>4
  <1>4. CASE SetManual(a) BY <1>4, AfterSetManual, EditedAreOne
  <1>5. CASE RemoveCategoryField(a)
    BY <1>5, AfterClear, EditedAreOne DEF Categories, KnownItems
  <1>6. CASE Merge(a) BY <1>6, MergedAreOne
  <1>7. CASE items' \subseteq items
    <2>1. Manuals(d, c)' \subseteq Manuals(d, c) BY <1>7 DEF Manuals
    <2>2. QED BY <2>1, FewerAreOne
  <1>8. QED
    BY <1>1, <1>2, <1>3, <1>4, <1>5, <1>6, <1>7, AfterPull, AfterPullManual, AfterInsert,
       AfterDrop, AfterStrip, AfterTasks, AfterFill, AfterWipe, AfterDropCategory,
       AfterPullField DEF Writing

\* What a request has pulled comes back only through one it races.
LEMMA WritesKeepPulled ==
    ASSUME Basics, Categories, Singles, NEW a \in Actors, Writing(a) PROVE Pulled'
  <1>1. /\ raced \subseteq raced' /\ \A b \in Actors \ {a} : req'[b] = req[b]
    BY RequestsGoOn
  <1>2. Idle.op = "idle" BY DEF Idle
  <1>3. \A j \in items' : \/ j \in items \/ Written(a, j)
                          \/ \E i \in items : Changed(a, i, j) \/ Passed(a, i, j)
    BY WhereItemsComeFrom DEF Categories, KnownItems
  <1>4. ASSUME NEW b \in Actors, req'[b].op \in {"add", "ingest"}, req'[b].next = <<"push">>,
               ~req'[b].is_system, NEW c \in req'[b].cats \cap Single \cap Aggregated,
               NEW d \in req'[b].to
        PROVE  <<d, c>> \in raced' \/ Manuals(d, c)' = {}
    <2>1. CASE b # a
      <3>1. req'[b] = req[b] /\ req[b].to \subseteq req[b].docs
        BY <1>1, <1>4, <2>1 DEF Basics, Shaped, Shape
      <3>2. <<d, c>> \in raced \/ Manuals(d, c) = {}
        BY <1>4, <3>1 DEF Singles, Pulled
      <3>3. ASSUME NEW j \in Manuals(d, c)', Manuals(d, c) = {}
            PROVE  <<d, c>> \in raced
        <4>1. j \in items' /\ j.doc = d /\ j.cat = c /\ ~j.is_system BY <3>3 DEF Manuals
        <4>2. j \notin items BY <3>3, <4>1 DEF Manuals
        <4>3. \A i \in items : ~Changed(a, i, j) BY <3>3, <4>1 DEF Manuals, Changed
        <4>4. Written(a, j) \/ \E i \in items : Passed(a, i, j) BY <1>3, <4>1, <4>2, <4>3
        <4>5. d \in req[a].docs /\ c \in req[a].cats
          BY <4>1, <4>4, InventoryAssumption DEF Written, Passed
        <4>6. QED BY <1>4, <2>1, <3>1, <4>5, RacedOnes
      <3>4. QED BY <1>1, <3>2, <3>3
    <2>2. CASE b = a
      <3>1. req'[a].op \in {"add", "ingest"} /\ req'[a].next = <<"push">> /\ ~req'[a].is_system
        BY <1>4, <2>2
      <3>2. WriteStatic(a) \/ Pull(a)
        <4>1. req'[a].op = req[a].op
          BY <3>1, <1>2, WhereRequestsGo DEF Categories, KnownItems
        <4>2. QED BY <3>1, <4>1, <1>2, AfterPush, AfterImport,
                AfterSetManual, AfterPullManual, AfterInsert, AfterDrop, AfterStrip, AfterTasks,
                AfterFill, AfterWipe, AfterDropCategory, AfterPullField, AfterClear, AfterMerge
                DEF Writing, Categories, KnownItems
      <3>3. ~WriteStatic(a)
        BY <1>2, <1>4, <2>2, AfterWriteStatic, InventoryAssumption
      <3>4. /\ items' = {i \in items : ~(i.doc \in req[a].to /\ i.cat \in req[a].cats
                                        /\ i.is_system = req[a].is_system)}
            /\ req'[a].cats = req[a].cats /\ req'[a].to = req[a].to
            /\ req'[a].is_system = req[a].is_system
        BY <3>2, <3>3, AfterPull
      <3>5. Manuals(d, c)' = {}
        <4>1. SUFFICES ASSUME NEW j \in Manuals(d, c)' PROVE FALSE OBVIOUS
        <4>2. /\ j \in items /\ j.doc = d /\ j.cat = c /\ ~j.is_system
              /\ j.is_system # req[a].is_system
          BY <1>4, <2>2, <3>4, <4>1 DEF Manuals
        <4>3. j.is_system \in BOOLEAN /\ req[a].is_system \in BOOLEAN
          BY <4>2 DEF Basics, Typed, Item, Request
        <4>4. QED BY <3>1, <3>4, <4>2, <4>3
      <3>6. QED BY <3>5
    <2>3. QED BY <2>1, <2>2
  <1>5. QED BY <1>4 DEF Pulled

\* Each of the writes keeps what is said of single item categories.
LEMMA WritesKeepSingles ==
    ASSUME Basics, Categories, Singles, NEW a \in Actors, Writing(a) PROVE Singles'
  BY WritesKeepPulled, WritesKeepOne DEF Singles

\* What a request has looked up, and what of it went since.
Went(d) == minion[d].status \in {"deleted", "merged"}
LookedUp ==
    \A a \in Actors : req[a].op \in {"add", "ingest", "import", "merge", "fill"} =>
        \A d \in req[a].docs : Went(d) => \A c \in req[a].cats : <<d, c>> \in raced
\* What a delete has left for its next writes.
Leavings ==
    \A a \in Actors : req[a].op = "delete" =>
        \A i \in items :
            /\ i.doc \in req[a].docs
            /\ \/ req[a].next = <<"tasks">>
               \/ req[a].next = <<"strip", "tasks">> /\ i.cat \in Static
            => <<i.doc, i.cat>> \in raced
Departures == LookedUp /\ Leavings /\ DeletedIsGone

\* The minions a request looks up are there.
LEMMA BeginKeepsDepartures ==
    ASSUME Basics, Departures, NEW a \in Actors, Begins(a) PROVE Departures'
  <1>1. /\ req[a].op = "idle" /\ Prepared(req'[a]) /\ raced \subseteq raced'
        /\ \A b \in Actors \ {a} : req'[b] = req[b]
        /\ UNCHANGED <<minion, items, category, records, waits>>
    BY BegunIs
  <1>2. LookedUp'
    <2>1. ASSUME NEW b \in Actors, req'[b].op \in {"add", "ingest", "import", "merge", "fill"},
                 NEW d \in req'[b].docs, minion[d].status \in {"deleted", "merged"},
                 NEW c \in req'[b].cats
          PROVE  <<d, c>> \in raced'
      <3>1. b # a BY <1>1, <2>1 DEF Prepared
      <3>2. req'[b] = req[b] BY <1>1, <3>1
      <3>3. QED BY <1>1, <2>1, <3>2 DEF Departures, LookedUp, Went
    <2>2. QED BY <1>1, <2>1 DEF LookedUp, Went
  <1>3. Leavings'
    <2>1. ASSUME NEW b \in Actors, req'[b].op = "delete", NEW i \in items,
                 i.doc \in req'[b].docs,
                 \/ req'[b].next = <<"tasks">>
                 \/ req'[b].next = <<"strip", "tasks">> /\ i.cat \in Static
          PROVE  <<i.doc, i.cat>> \in raced'
      <3>1. b # a BY <1>1, <2>1, Follows DEF Prepared
      <3>2. req'[b] = req[b] BY <1>1, <3>1
      <3>3. QED BY <1>1, <2>1, <3>2 DEF Departures, Leavings
    <2>2. QED BY <1>1, <2>1 DEF Leavings
  <1>4. DeletedIsGone'
    <2>1. ASSUME NEW d \in Docs, Leaving(d) PROVE Leaving(d)'
      <3>1. PICK b \in Actors : req[b].op = "delete" /\ d \in req[b].docs
        BY <2>1 DEF Leaving
      <3>2. req'[b] = req[b] BY <1>1, <3>1
      <3>3. QED BY <3>1, <3>2 DEF Leaving
    <2>2. QED BY <1>1, <2>1 DEF Departures, DeletedIsGone
  <1>5. QED BY <1>2, <1>3, <1>4 DEF Departures

\* No minion goes in a request of one step.
LEMMA AtOnceKeepsDepartures ==
    ASSUME Basics, Departures, NEW a \in Actors, AtOnceRequest(a) PROVE Departures'
  <1>1. /\ UNCHANGED <<items, waits, req, raced>>
        /\ \A d \in Docs : minion[d].status \in {"deleted", "merged"} <=>
                               minion'[d].status \in {"deleted", "merged"}
    BY AtOnceIs
  <1>2. Leavings' BY <1>1 DEF Departures, Leavings
  <1>3. LookedUp'
    <2>1. \A b \in Actors : req[b].docs \subseteq Docs BY DEF Basics, Typed, Request
    <2>2. QED BY <1>1, <2>1 DEF Departures, LookedUp, Went
  <1>4. DeletedIsGone' BY <1>1 DEF Departures, DeletedIsGone, Leaving
  <1>5. QED BY <1>2, <1>3, <1>4 DEF Departures

\* Which minions go with a write.
LEMMA WhoGoes ==
    ASSUME Basics, Categories, NEW a \in Actors, Writing(a)
    PROVE  \A d \in Docs : Went(d)' =>
               \/ Went(d)
               \/ /\ d \in req[a].docs /\ req[a].cats = Cats \cup {TaskMinions}
                  /\ \/ DropMinions(a)
                     \/ /\ Merge(a) /\ d \notin waits' /\ \A i \in items' : i.doc # d
  <1>1. CASE UNCHANGED minion BY <1>1 DEF Went
  <1>2. CASE InsertMinion(a)
    BY <1>2, AfterInsert DEF Went, Basics, Typed, MinionType
  <1>3. CASE DropMinions(a)
    <2>1. req[a].op = "delete" BY <1>3, AfterDrop
    <2>2. req[a].cats = Cats \cup {TaskMinions} BY <2>1 DEF Basics, Shaped, Shape
    <2>3. \A d \in Docs : d \notin There(req[a].docs) => minion'[d] = minion[d]
      BY <1>3, AfterDrop
    <2>4. QED BY <1>3, <2>2, <2>3 DEF Went, There
  <1>4. CASE Merge(a) /\ ~UNCHANGED minion
    <2>1. PICK s \in Docs, t \in Docs, Own \in SUBSET items, Gone \in SUBSET items :
             /\ s # t /\ req[a].docs = {s, t} /\ req[a].cats = Cats \cup {TaskMinions}
             /\ minion' = [minion EXCEPT ![s].status = "merged"] /\ waits' = waits \ {s}
             /\ Moved(s, t, Own, Gone)
      BY <1>4, AfterMerge
    <2>2. ASSUME NEW d \in Docs, d # s PROVE minion'[d] = minion[d]
      BY <2>1, <2>2 DEF Basics, Typed, MinionType
    <2>3. ASSUME NEW j \in items' PROVE j.doc # s
      <3>1. CASE j \in Own BY <2>1, <3>1 DEF Moved
      <3>2. CASE \E i \in Gone : j = [i EXCEPT !.doc = t]
        BY <2>1, <3>2 DEF Basics, Typed, Item
      <3>3. QED BY <2>1, <3>1, <3>2 DEF Moved
    <2>4. QED BY <1>4, <2>1, <2>2, <2>3 DEF Went
  <1>5. QED
    BY <1>1, <1>2, <1>3, <1>4, AfterWriteStatic, AfterPull, AfterPush, AfterImport,
       AfterSetManual, AfterPullManual, AfterStrip, AfterTasks, AfterFill, AfterWipe,
       AfterDropCategory, AfterPullField, AfterClear DEF Writing, Categories, KnownItems

\* A minion goes by a request on all it has, which races those that looked it up.
LEMMA WritesKeepLookedUp ==
    ASSUME Basics, Categories, Departures, NEW a \in Actors, Writing(a) PROVE LookedUp'
  <1>1. /\ raced \subseteq raced' /\ \A b \in Actors \ {a} : req'[b] = req[b]
    BY RequestsGoOn
  <1>2. Idle.op = "idle" BY DEF Idle
  <1>3. ASSUME NEW b \in Actors, req'[b].op \in {"add", "ingest", "import", "merge", "fill"},
               NEW d \in req'[b].docs, Went(d)', NEW c \in req'[b].cats
        PROVE  <<d, c>> \in raced'
    <2>1. /\ req[b].op = req'[b].op /\ req[b].docs = req'[b].docs /\ req[b].cats = req'[b].cats
      <3>1. CASE b = a
        BY <1>2, <1>3, <3>1, WhereRequestsGo DEF Categories, KnownItems
      <3>2. CASE b # a BY <1>1, <3>2
      <3>3. QED BY <3>1, <3>2
    <2>2. d \in Docs /\ req[b].cats \subseteq Cats \cup {TaskMinions}
      BY <1>3, <2>1 DEF Basics, Typed, Request
    <2>3. CASE Went(d) BY <1>1, <1>3, <2>1, <2>3 DEF Departures, LookedUp
    <2>4. CASE ~Went(d)
      <3>1. /\ d \in req[a].docs /\ req[a].cats = Cats \cup {TaskMinions}
            /\ DropMinions(a) \/ Merge(a)
        BY <1>3, <2>2, <2>4, WhoGoes
      <3>2. b # a
        <4>1. DropMinions(a) => req[a].op = "delete" BY AfterDrop
        <4>2. Merge(a) => req'[a] = Idle BY AfterMerge
        <4>3. QED BY <1>2, <1>3, <2>1, <3>1, <4>1, <4>2
      <3>3. <<d, c>> \in raced BY <1>3, <2>1, <2>2, <3>1, <3>2, RacedOnes
      <3>4. QED BY <1>1, <3>3
    <2>5. QED BY <2>3, <2>4
  <1>4. QED BY <1>3 DEF LookedUp

\* Behind a delete only those write that it races.
LEMMA WritesKeepLeavings ==
    ASSUME Basics, Categories, Departures, NEW a \in Actors, Writing(a) PROVE Leavings'
  <1>1. /\ raced \subseteq raced' /\ \A b \in Actors \ {a} : req'[b] = req[b]
    BY RequestsGoOn
  <1>2. Idle.op = "idle" BY DEF Idle
  <1>3. \A j \in items' : \/ j \in items \/ Written(a, j)
                          \/ \E i \in items : Changed(a, i, j) \/ Passed(a, i, j)
    BY WhereItemsComeFrom DEF Categories, KnownItems
  <1>4. ASSUME NEW b \in Actors, req'[b].op = "delete", NEW j \in items',
               j.doc \in req'[b].docs,
               \/ req'[b].next = <<"tasks">>
               \/ req'[b].next = <<"strip", "tasks">> /\ j.cat \in Static
        PROVE  <<j.doc, j.cat>> \in raced'
    <2>1. CASE b # a
      <3>1. req'[b] = req[b] /\ req[b].cats = Cats \cup {TaskMinions}
        BY <1>1, <1>4, <2>1 DEF Basics, Shaped, Shape
      <3>2. CASE j \in items BY <1>1, <1>4, <3>1, <3>2 DEF Departures, Leavings
      <3>3. ASSUME NEW i \in items, Changed(a, i, j) PROVE <<j.doc, j.cat>> \in raced'
        BY <1>1, <1>4, <3>1, <3>3 DEF Departures, Leavings, Changed
      <3>4. ASSUME Written(a, j) \/ \E i \in items : Passed(a, i, j)
            PROVE  <<j.doc, j.cat>> \in raced'
        <4>1. j.doc \in req[a].docs /\ j.cat \in req[a].cats
          BY <3>4 DEF Written, Passed, Basics, Typed, Item
        <4>2. req[a].cats \subseteq Cats \cup {TaskMinions} BY DEF Basics, Typed, Request
        <4>3. QED BY <1>1, <1>4, <2>1, <3>1, <4>1, <4>2, RacedOnes
      <3>5. QED BY <1>3, <3>2, <3>3, <3>4
    <2>2. CASE b = a
      <3>1. req'[a].op = "delete" /\ req'[a].next \in {<<"strip", "tasks">>, <<"tasks">>}
        BY <1>4, <2>2
      <3>2. req[a].op = "delete"
        BY <1>2, <3>1, WhereRequestsGo DEF Categories, KnownItems
      <3>3. DropMinions(a) \/ StripEntries(a)
        BY <3>1, <3>2, <1>2, AfterWriteStatic, AfterPull, AfterPush, AfterImport,
           AfterSetManual, AfterPullManual, AfterInsert, AfterTasks,
           AfterFill, AfterWipe, AfterDropCategory, AfterPullField, AfterClear, AfterMerge
           DEF Writing, Categories, KnownItems
      <3>4. CASE DropMinions(a)
        <4>1. /\ req'[a].docs = req[a].docs /\ req'[a].next = <<"strip", "tasks">>
              /\ items' = {i \in items : ~(i.doc \in req[a].docs /\ i.cat \in Static)}
          BY <3>4, AfterDrop
        <4>2. req'[a].next # <<"tasks">> BY <4>1, Follows
        <4>3. QED BY <1>4, <2>2, <4>1, <4>2
      <3>5. CASE StripEntries(a)
        <4>1. /\ req'[a].docs = req[a].docs /\ req[a].next = <<"strip", "tasks">>
              /\ items' = {i \in items : ~(i.doc \in req[a].docs /\ i.cat \in Aggregated)}
          BY <3>5, AfterStrip
        <4>2. j \in items /\ j.cat \in Static
          BY <1>4, <2>2, <4>1 DEF Basics, Typed, Item, Cats
        <4>3. QED BY <1>1, <1>4, <2>2, <3>2, <4>1, <4>2 DEF Departures, Leavings
      <3>6. QED BY <3>3, <3>4, <3>5
    <2>3. QED BY <2>1, <2>2
  <1>5. QED BY <1>4 DEF Leavings

\* Of task minions, those of a minion that went are raced.
LEMMA WaitsOfTheGone ==
    ASSUME Basics, Categories, Departures, NEW a \in Actors, Writing(a), NEW d \in Docs,
           Went(d), d \in waits', d \notin waits
    PROVE  <<d, TaskMinions>> \in raced'
  <1>1. raced \subseteq raced' BY RequestsGoOn
  <1>2. CASE CreateTaskMinions(a)
    <2>1. d \in req[a].docs /\ req[a].cats = {TaskMinions} /\ req[a].op = "fill"
      BY <1>2, AfterFill
    <2>2. QED BY <1>1, <2>1 DEF Departures, LookedUp
  <1>3. CASE ~CreateTaskMinions(a)
    <2>1. waits' \subseteq waits
      BY <1>3, AfterWriteStatic, AfterPull, AfterPush, AfterImport,
       AfterSetManual, AfterPullManual, AfterInsert, AfterDrop, AfterStrip, AfterTasks, AfterWipe,
       AfterDropCategory, AfterPullField, AfterClear, AfterMerge DEF Writing, Categories, KnownItems
    <2>2. QED BY <2>1
  <1>4. QED BY <1>2, <1>3

\* After each of the writes nothing is left of who went, but for races.
LEMMA WritesKeepDeleted ==
    ASSUME Basics, Categories, Departures, NEW a \in Actors, Writing(a) PROVE DeletedIsGone'
  <1>1. /\ raced \subseteq raced' /\ \A b \in Actors \ {a} : req'[b] = req[b]
    BY RequestsGoOn
  <1>2. Idle.op = "idle" BY DEF Idle
  <1>3. \A j \in items' : \/ j \in items \/ Written(a, j)
                          \/ \E i \in items : Changed(a, i, j) \/ Passed(a, i, j)
    BY WhereItemsComeFrom DEF Categories, KnownItems
  <1>4. ASSUME NEW d \in Docs, Went(d)', ~Leaving(d)'
        PROVE  /\ \A i \in items' : i.doc = d => <<d, i.cat>> \in raced'
               /\ d \in waits' => <<d, TaskMinions>> \in raced'
    <2>1. CASE Went(d) /\ ~Leaving(d)
      <3>1. /\ \A i \in items : i.doc = d => <<d, i.cat>> \in raced
            /\ d \in waits => <<d, TaskMinions>> \in raced
        BY <2>1 DEF Departures, DeletedIsGone, Went
      <3>2. ASSUME NEW j \in items', j.doc = d PROVE <<d, j.cat>> \in raced'
        <4>1. CASE j \in items BY <1>1, <3>1, <3>2, <4>1
        <4>2. CASE Written(a, j)
          BY <1>1, <2>1, <3>2, <4>2 DEF Written, Departures, LookedUp
        <4>3. ASSUME NEW i \in items, Changed(a, i, j) PROVE <<d, j.cat>> \in raced'
          BY <1>1, <3>1, <3>2, <4>3 DEF Changed
        <4>4. ASSUME NEW i \in items, Passed(a, i, j) PROVE <<d, j.cat>> \in raced'
          <5>1. /\ req[a].op = "merge" /\ d \in req[a].docs /\ j.cat \in req[a].cats
            BY <3>2, <4>4 DEF Passed, Basics, Typed, Item
          <5>2. QED BY <1>1, <2>1, <5>1 DEF Departures, LookedUp
        <4>5. QED BY <1>3, <4>1, <4>2, <4>3, <4>4
      <3>3. d \in waits' => <<d, TaskMinions>> \in raced'
        BY <1>1, <2>1, <3>1, WaitsOfTheGone
      <3>4. QED BY <3>2, <3>3
    <2>2. CASE Leaving(d)
      <3>1. PICK b \in Actors : req[b].op = "delete" /\ d \in req[b].docs
        BY <2>2 DEF Leaving
      <3>2. b = a BY <1>1, <1>4, <3>1 DEF Leaving
      <3>3. req[a].op = "delete" /\ d \in req[a].docs BY <3>1, <3>2
      <3>4. req'[a] = Idle
        BY <1>4, <3>3, WhereRequestsGo DEF Leaving, Categories, KnownItems
      <3>5. DeleteTaskMinions(a)
        BY <1>2, <3>3, <3>4, AfterWriteStatic, AfterPull, AfterPush, AfterImport,
           AfterSetManual, AfterPullManual, AfterInsert, AfterDrop, AfterStrip,
           AfterFill, AfterWipe, AfterDropCategory, AfterPullField, AfterClear, AfterMerge
           DEF Writing, Categories, KnownItems
      <3>6. /\ req[a].next = <<"tasks">> /\ waits' = waits \ req[a].docs
            /\ items' = items /\ raced' = raced
        BY <3>5, AfterTasks
      <3>7. QED BY <3>3, <3>6 DEF Departures, Leavings
    <2>3. CASE ~Went(d)
      <3>1. /\ d \in req[a].docs
            /\ \/ DropMinions(a)
               \/ /\ Merge(a) /\ d \notin waits' /\ \A i \in items' : i.doc # d
        BY <1>4, <2>3, WhoGoes
      <3>2. ~DropMinions(a) BY <1>4, <3>1, AfterDrop DEF Leaving
      <3>3. QED BY <3>1, <3>2
    <2>4. QED BY <2>1, <2>2, <2>3
  <1>5. QED BY <1>4 DEF DeletedIsGone, Went

\* Each of the writes keeps what is said of minions that went.
LEMMA WritesKeepDepartures ==
    ASSUME Basics, Categories, Departures, NEW a \in Actors, Writing(a) PROVE Departures'
  BY WritesKeepLookedUp, WritesKeepLeavings, WritesKeepDeleted DEF Departures
-----------------------------------------------------------------------------
\* The inductive invariant.
InventoryInv == Basics /\ Categories /\ Singles /\ Departures

\* It holds at first.
LEMMA InventoryInitInv == InventoryInit => InventoryInv
  <1> SUFFICES ASSUME InventoryInit PROVE InventoryInv OBVIOUS
  <1>1. PICK named \in [Docs -> Names \cup {"none"}], active \in SUBSET Docs :
            /\ \A d, e \in Docs : named[d] = named[e] /\ d # e => named[d] = "none"
            /\ active \subseteq {d \in Docs : named[d] # "none"}
            /\ minion = [d \in Docs |-> [name |-> named[d], active |-> d \in active,
                           status |-> IF named[d] = "none" THEN "unused" ELSE "there"]]
    BY DEF InventoryInit
  <1>2. PICK c \in Cats : category = [e \in Cats |-> [there |-> e = c, deleted |-> FALSE,
                                         fields |-> IF e = c THEN Fields ELSE {}]]
    BY DEF InventoryInit
  <1>3. PICK had \in SUBSET [doc : There(Docs), cat : {e \in Cats : category[e].there},
                             is_system : BOOLEAN] :
            items = {[id |-> 0, of |-> h.doc, doc |-> h.doc, cat |-> h.cat,
                      is_system |-> h.is_system, data |-> Fields] : h \in had}
    BY DEF InventoryInit
  <1>4. /\ records = Aggregated \cap {i.cat : i \in items} /\ waits \in {{}, There(Docs)}
        /\ req = [a \in Actors |-> Idle] /\ raced = {} /\ count = 0
    BY DEF InventoryInit
  <1>5. ASSUME NEW d \in Docs
        PROVE  /\ minion[d] \in [name : Names \cup {"none"}, status : MinionStatus,
                                 active : BOOLEAN]
               /\ minion[d].name = named[d] /\ minion[d].status \in {"unused", "there"}
               /\ minion[d].status = "there" <=> named[d] # "none"
               /\ minion[d].active <=> d \in active
    <2>1. (d \in active) \in BOOLEAN OBVIOUS
    <2>2. QED BY <1>1, <2>1 DEF MinionStatus
  <1>6. ASSUME NEW e \in Cats
        PROVE  /\ category[e] \in [there : BOOLEAN, fields : SUBSET Fields, deleted : BOOLEAN]
               /\ ~category[e].deleted
               /\ category[e].there => category[e].fields = Fields
    <2>1. (e = c) \in BOOLEAN OBVIOUS
    <2>2. QED BY <1>2, <2>1
  <1>7. ASSUME NEW i \in items
        PROVE  /\ i \in Item /\ i.id = 0 /\ i.of = i.doc /\ i.data = Fields
               /\ category[i.cat].there
    <2>1. PICK h \in had : i = [id |-> 0, of |-> h.doc, doc |-> h.doc, cat |-> h.cat,
                                is_system |-> h.is_system, data |-> Fields]
      BY <1>3
    <2>2. /\ h.doc \in Docs /\ h.cat \in Cats /\ category[h.cat].there
          /\ h.is_system \in BOOLEAN
      BY <1>3 DEF There
    <2>3. 0 \in 0..MaxRequests BY InventoryAssumption
    <2>4. QED BY <2>1, <2>2, <2>3 DEF Item
  <1>8. \A a \in Actors : req[a] = Idle BY <1>4
  <1>9. Basics
    <2>1. MinionType BY <1>1, <1>5 DEF MinionType
    <2>2. CategoryType BY <1>2, <1>6 DEF CategoryType
    <2>3. Typed
      BY <1>4, <1>7, <2>1, <2>2, IdleIsRequest, InventoryAssumption DEF Typed, There
    <2>4. Shaped BY <1>8 DEF Shaped, Shape, Idle
    <2>5. Apart BY <1>8 DEF Apart, Touches, Idle
    <2>6. Identified BY <1>1, <1>5 DEF Identified, There
    <2>7. QED BY <2>3, <2>4, <2>5, <2>6 DEF Basics
  <1>10. Categories
    <2>1. Idle.op = "idle" BY DEF Idle
    <2>2. KnownItems BY <1>4, <1>7 DEF KnownItems
    <2>3. KnownToWriters /\ Wiped /\ Cleared BY <1>8, <2>1 DEF KnownToWriters, Wiped, Cleared
    <2>4. SystemStays BY <1>6, InventoryAssumption DEF SystemStays
    <2>5. CategoryIsGone BY <1>6, <1>7 DEF CategoryIsGone, Item
    <2>6. QED BY <2>2, <2>3, <2>4, <2>5 DEF Categories
  <1>11. Singles
    <2>1. Idle.op = "idle" BY DEF Idle
    <2>2. Pulled BY <1>8, <2>1 DEF Pulled
    <2>3. ASSUME NEW i \in items, NEW j \in items, i.doc = j.doc, i.cat = j.cat,
                 ~i.is_system, ~j.is_system
          PROVE  i = j
      BY <1>7, <2>3 DEF Item
    <2>4. QED BY <2>2, <2>3 DEF Singles, OneOrRaced, Manuals
  <1>12. Departures
    <2>1. Idle.op = "idle" BY DEF Idle
    <2>2. \A d \in Docs : minion[d].status \notin {"deleted", "merged"} BY <1>5
    <2>3. LookedUp /\ Leavings BY <1>8, <2>1 DEF LookedUp, Leavings
    <2>4. DeletedIsGone BY <2>2 DEF DeletedIsGone
    <2>5. QED BY <2>3, <2>4 DEF Departures
  <1>13. QED BY <1>9, <1>10, <1>11, <1>12 DEF InventoryInv

\* What an actor does: begin a request, handle one of one step, or write.
LEMMA WhatActorsDo ==
    ASSUME Basics, InventoryNext
    PROVE  \E a \in Actors : Begins(a) \/ AtOnceRequest(a) \/ Writing(a)
  <1>1. PICK a \in Actors :
            \/ add_items(a) \/ add_extra_data(a) \/ import_items(a) \/ update_item(a)
            \/ delete_item(a) \/ WriteStatic(a) \/ Pull(a) \/ Push(a) \/ ImportTransaction(a)
            \/ SetManual(a) \/ PullManual(a) \/ minion_create(a) \/ update_never_active(a)
            \/ process_presence(a) \/ process_grains(a) \/ InsertMinion(a) \/ minion_delete(a)
            \/ DropMinions(a) \/ StripEntries(a) \/ DeleteTaskMinions(a) \/ minion_merge(a)
            \/ Merge(a) \/ fill_task_minions(a) \/ CreateTaskMinions(a)
            \/ extra_data_category_create(a) \/ extra_categories_sync(a) \/ add_field(a)
            \/ extra_data_category_delete(a) \/ delete_field(a) \/ RemoveCategoryData(a)
            \/ DropCategory(a) \/ RemoveCategoryField(a) \/ PullField(a)
    BY DEF InventoryNext
  <1>2. CASE add_items(a) \/ add_extra_data(a) BY <1>2, AddBegins DEF Basics
  <1>3. CASE import_items(a) BY <1>3, ImportBegins DEF Basics
  <1>4. CASE \/ update_item(a) \/ delete_item(a) \/ minion_delete(a) \/ minion_merge(a)
             \/ fill_task_minions(a) \/ extra_data_category_delete(a) \/ delete_field(a)
    BY <1>4, NamedBegins DEF Basics
  <1>5. CASE process_grains(a)
    BY <1>5, GrainsBegin DEF Basics, AtOnceRequest
  <1>6. CASE \/ minion_create(a) \/ update_never_active(a) \/ process_presence(a)
             \/ extra_data_category_create(a) \/ extra_categories_sync(a) \/ add_field(a)
    BY <1>6 DEF AtOnceRequest
  <1>7. QED BY <1>1, <1>2, <1>3, <1>4, <1>5, <1>6 DEF Writing

\* It speaks of the variables only.
LEMMA InventoryStays == InventoryInv /\ UNCHANGED inventoryVars => InventoryInv'
  <1> SUFFICES ASSUME InventoryInv, UNCHANGED inventoryVars PROVE InventoryInv' OBVIOUS
  <1>1. UNCHANGED <<minion, items, category, records, waits, req, raced, count>>
    BY DEF inventoryVars
  <1>2. Basics'
    BY <1>1 DEF InventoryInv, Basics, Typed, MinionType, CategoryType, Shaped, Shape, Apart,
        Touches, Identified, There
  <1>3. Categories'
    BY <1>1 DEF InventoryInv, Categories, KnownItems, KnownToWriters, Wiped, Cleared,
        SystemStays, CategoryIsGone
  <1>4. Singles'
    <2>1. \A d, c : Manuals(d, c)' = Manuals(d, c) BY <1>1 DEF Manuals
    <2>2. QED BY <1>1, <2>1 DEF InventoryInv, Singles, Pulled, OneOrRaced
  <1>5. Departures'
    BY <1>1 DEF InventoryInv, Departures, LookedUp, Leavings, Went, DeletedIsGone, Leaving
  <1>6. QED BY <1>2, <1>3, <1>4, <1>5 DEF InventoryInv

\* Every step keeps it.
LEMMA InventoryStep == InventoryInv /\ [InventoryNext]_inventoryVars => InventoryInv'
  <1> SUFFICES ASSUME InventoryInv, InventoryNext PROVE InventoryInv'
    BY InventoryStays
  <1>1. PICK a \in Actors : Begins(a) \/ AtOnceRequest(a) \/ Writing(a)
    BY WhatActorsDo DEF InventoryInv
  <1>2. CASE Begins(a)
    BY <1>2, BeginKeepsBasics, BeginKeepsCategories, BeginKeepsSingles, BeginKeepsDepartures
       DEF InventoryInv
  <1>3. CASE AtOnceRequest(a)
    BY <1>3, AtOnceKeepsBasics, AtOnceKeepsCategories, AtOnceKeepsSingles,
       AtOnceKeepsDepartures DEF InventoryInv
  <1>4. CASE Writing(a)
    BY <1>4, WritesKeepBasics, WritesKeepCategories, WritesKeepSingles, WritesKeepDepartures
       DEF InventoryInv, Categories, KnownItems
  <1>5. QED BY <1>1, <1>2, <1>3, <1>4

\* The inductive invariant holds, whatever the minions, categories and requests.
THEOREM InventoryIsRight == InventorySpec => []InventoryInv
  <1>1. InventoryInit => InventoryInv BY InventoryInitInv
  <1>2. InventoryInv /\ [InventoryNext]_inventoryVars => InventoryInv' BY InventoryStep
  <1>3. QED BY <1>1, <1>2, PTL DEF InventorySpec

\* Variables keep their types, and two minions that are there never have the same
\* minion_id and master, whoever creates, renames, merges or reports them.
THEOREM InventoryTypes == InventorySpec => []InventoryTypeOK
  <1>1. InventoryInv => InventoryTypeOK
    <2> SUFFICES ASSUME InventoryInv PROVE InventoryTypeOK OBVIOUS
    <2>1. ASSUME NEW d \in Docs
          PROVE  /\ minion[d].name \in Names \cup {"none"}
                 /\ minion[d].status \in MinionStatus /\ minion[d].active \in BOOLEAN
      BY DEF InventoryInv, Basics, Typed, MinionType
    <2>2. ASSUME NEW n \in Names PROVE Cardinality(Named(n)) <= 1
      <3>1. CASE Named(n) = {} BY <3>1, FS_EmptySet
      <3>2. CASE Named(n) # {}
        <4>1. PICK d \in Docs : Named(n) = {d}
          BY <3>2 DEF InventoryInv, Basics, Identified, Named, There
        <4>2. Cardinality({d}) = 1 BY FS_Singleton
        <4>3. QED BY <4>1, <4>2
      <3>3. QED BY <3>1, <3>2
    <2>3. ASSUME NEW a \in Actors
          PROVE  DOMAIN req[a] = DOMAIN Idle /\ req[a].docs \cup req[a].to \subseteq Docs
      <3>1. req[a] \in Request BY DEF InventoryInv, Basics, Typed
      <3>2. QED BY <3>1 DEF Request, Idle
    <2>4. QED
      BY <2>1, <2>2, <2>3 DEF InventoryTypeOK, InventoryInv, Basics, Typed, CategoryType
  <1>2. QED BY <1>1, InventoryIsRight, PTL

\* A minion has at most one manual item of a single item category, for any number
\* of adds, imports, edits and merges at once; two only where requests raced on an
\* aggregated category, or on one that was deleted.
THEOREM OneManualItem == InventorySpec => []SingleManualItem
  <1>1. InventoryInv => SingleManualItem
    <2> SUFFICES ASSUME InventoryInv, NEW d \in There(Docs), NEW c \in Single
                 PROVE  \/ <<d, c>> \in raced /\ (c \in Aggregated \/ category[c].deleted)
                        \/ \A i, j \in Of(d, c) : i.is_system \/ j.is_system \/ i = j
      BY DEF SingleManualItem
    <2>1. OneOrRaced(d, c) BY DEF InventoryInv, Singles, There
    <2>2. QED BY <2>1 DEF OneOrRaced, Manuals, Of
  <1>2. QED BY <1>1, InventoryIsRight, PTL

\* When the deletion of a minion is over nothing of it is left, neither an item nor
\* a task minion, but for what a request that had looked it up writes after it.
THEOREM NothingOfTheDeleted == InventorySpec => []DeletedIsGone
  <1>1. InventoryInv => DeletedIsGone BY DEF InventoryInv, Departures
  <1>2. QED BY <1>1, InventoryIsRight, PTL

\* No item is left of a category or of a field that was deleted, but for what a
\* request that had read the category writes after that.
THEOREM NothingOfTheCategory == InventorySpec => []CategoryIsGone
  <1>1. InventoryInv => CategoryIsGone BY DEF InventoryInv, Categories
  <1>2. QED BY <1>1, InventoryIsRight, PTL

\* No step renames a minion that has been active or merges it away.
THEOREM ActiveMinionsStay == InventorySpec => ActiveStays
  <1>1. InventoryInv /\ [InventoryNext]_inventoryVars =>
            \A d \in Docs : minion[d].active =>
                minion'[d].name = minion[d].name /\ minion'[d].status # "merged"
    <2> SUFFICES ASSUME InventoryInv, [InventoryNext]_inventoryVars, NEW d \in Docs,
                        minion[d].active
                 PROVE  minion'[d].name = minion[d].name /\ minion'[d].status # "merged"
      OBVIOUS
    <2>1. /\ minion[d].status \notin {"unused", "merged"}
          /\ minion \in [Docs -> [name : Names \cup {"none"}, status : MinionStatus,
                                  active : BOOLEAN]]
      BY DEF InventoryInv, Basics, Identified, Typed, MinionType
    <2>2. CASE UNCHANGED inventoryVars BY <2>1, <2>2 DEF inventoryVars
    <2>3. CASE InventoryNext
      <3>1. PICK a \in Actors : Begins(a) \/ AtOnceRequest(a) \/ Writing(a)
        BY <2>3, WhatActorsDo DEF InventoryInv
      <3>2. CASE Begins(a) BY <2>1, <3>2 DEF Begins
      <3>3. CASE AtOnceRequest(a) BY <2>1, <3>3, AtOnceIs DEF InventoryInv
      <3>4. CASE InsertMinion(a) BY <2>1, <3>4, AfterInsert DEF InventoryInv
      <3>5. CASE DropMinions(a) BY <2>1, <3>5, AfterDrop DEF InventoryInv
      <3>6. CASE Merge(a) BY <2>1, <3>6, AfterMerge DEF InventoryInv
      <3>7. CASE Writing(a) /\ ~InsertMinion(a) /\ ~DropMinions(a) /\ ~Merge(a)
        <4>1. UNCHANGED minion
          BY <3>7, AfterWriteStatic, AfterPull, AfterPush, AfterImport, AfterSetManual,
             AfterPullManual, AfterStrip, AfterTasks, AfterFill, AfterWipe, AfterDropCategory,
             AfterPullField, AfterClear DEF Writing, InventoryInv, Categories, KnownItems
        <4>2. QED BY <2>1, <4>1
      <3>8. QED BY <3>1, <3>2, <3>3, <3>4, <3>5, <3>6, <3>7
    <2>4. QED BY <2>2, <2>3
  <1>2. QED BY <1>1, InventoryIsRight, PTL DEF InventorySpec, ActiveStays

\* A merge with strategy merge that refuses conflicts passes every item on, as long
\* as the target is there.
THEOREM MergesLoseNothing == InventorySpec => MergeLosesNothing
  <1> DEFINE Kept ==
        \A a \in Actors : \A t \in req[a].to, s \in req[a].docs \ req[a].to :
           /\ req[a].op = "merge" /\ req[a].strategy = "merge" /\ req[a].conflict = "error"
           /\ minion[t].status = "there" /\ minion[s].status = "there"
           /\ minion'[s].status = "merged" /\ req'[a] = Idle
           => \A i \in items : i.doc \in {s, t} =>
                  \E j \in items' : j = [i EXCEPT !.doc = t]
  <1>1. InventoryInv /\ [InventoryNext]_inventoryVars => Kept
    <2> SUFFICES ASSUME InventoryInv, [InventoryNext]_inventoryVars, NEW a \in Actors,
                        NEW t \in req[a].to, NEW s \in req[a].docs \ req[a].to,
                        req[a].op = "merge", req[a].strategy = "merge",
                        req[a].conflict = "error", minion[t].status = "there",
                        minion[s].status = "there", minion'[s].status = "merged",
                        req'[a] = Idle, NEW i \in items, i.doc \in {s, t}
                 PROVE  \E j \in items' : j = [i EXCEPT !.doc = t]
      OBVIOUS
    <2>1. Idle.op = "idle" BY DEF Idle
    <2>2. InventoryNext BY <2>1 DEF inventoryVars
    <2>3. PICK b \in Actors : Begins(b) \/ AtOnceRequest(b) \/ Writing(b)
      BY <2>2, WhatActorsDo DEF InventoryInv
    <2>4. Writing(b)
      <3>1. ~AtOnceRequest(b) BY <2>1, AtOnceIs DEF InventoryInv
      <3>2. ~Begins(b) BY <2>1, BegunIs DEF InventoryInv, Prepared
      <3>3. QED BY <2>3, <3>1, <3>2
    <2>5. b = a BY <2>1, <2>4, RequestsGoOn DEF InventoryInv
    <2>6. Merge(a)
      BY <2>4, <2>5, AfterWriteStatic, AfterPull, AfterPush, AfterImport, AfterSetManual,
         AfterPullManual, AfterInsert, AfterDrop, AfterStrip, AfterTasks, AfterFill, AfterWipe,
         AfterDropCategory, AfterPullField, AfterClear
         DEF Writing, InventoryInv, Categories, KnownItems
    <2>7. ~UNCHANGED minion OBVIOUS
    <2>8. PICK p \in Docs, q \in Docs, Own \in SUBSET items, Gone \in SUBSET items :
              /\ req[a].docs = {p, q} /\ req[a].to = {q} /\ Moved(p, q, Own, Gone)
              /\ minion[q].status = "there" =>
                     Own = {k \in items : k.doc # p} /\ Gone = {k \in items : k.doc = p}
      BY <2>6, <2>7, AfterMerge DEF InventoryInv
    <2>9. p = s /\ q = t BY <2>8
    <2>10. items' = {k \in items : k.doc # s}
                        \cup {[k EXCEPT !.doc = t] : k \in {k \in items : k.doc = s}}
      BY <2>8, <2>9 DEF Moved
    <2>11. CASE i.doc = s BY <2>10, <2>11
    <2>12. CASE i.doc = t /\ i.doc # s
      <3>1. [i EXCEPT !.doc = t] = i
        BY <2>12 DEF InventoryInv, Basics, Typed, Item
      <3>2. QED BY <2>10, <2>12, <3>1
    <2>13. QED BY <2>11, <2>12
  <1>2. QED BY <1>1, InventoryIsRight, PTL DEF InventorySpec, MergeLosesNothing
=============================================================================

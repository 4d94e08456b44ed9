------------------------------ MODULE Inventory ------------------------------
(***************************************************************************)
(* Minions and their extra data: the minion documents with the items of    *)
(* the static categories in them, the records of the aggregated categories *)
(* with the minions' entries in them, the categories and the task minions. *)
(* Requests of users, messages of other modules and events of minions run  *)
(* concurrently; Mongo makes each write of theirs atomic and nothing more, *)
(* but for the two that run in a transaction.  A request is modelled as    *)
(* the reads it begins with, which are one step, and then its writes, one  *)
(* step each.  An item's data is the set of its fields; of a minion's      *)
(* items in a category only those the request writes are told apart.       *)
(***************************************************************************)
EXTENDS Naturals, FiniteSets, Sequences

CONSTANTS
    Docs,         \* minion documents
    Names,        \* pairs of a minion_id and a master
    Static,       \* categories whose items are in the minion document
    Aggregated,   \* categories whose items are entries in shared records
    Single,       \* those of them that have is_single_item
    System,       \* those of them a module of the platform keeps
    Actors,       \* requests, messages and events handled at the same time
    Preset,       \* bound: items there are at first
    MaxRequests   \* bound: requests

Cats == Static \cup Aggregated
Fields == {"category", "minion"}   \* a field of the record, a field of the entry

ASSUME InventoryAssumption ==
    /\ Docs # {} /\ Names # {} /\ Static \cap Aggregated = {} 
    /\ Single \cup System \subseteq Cats
    /\ Preset \in Nat /\ MaxRequests \in Nat

VARIABLES
    minion,    \* doc -> minion_id and master, whether it is there, has been active
    items,     \* extra data items and entries
    category,  \* category -> whether it is there, its fields; history: whether it was deleted
    records,   \* aggregated categories that have records
    waits,     \* minions that a task has task minions of
    req,       \* actor -> the request it handles and what it has read
    raced,     \* history: <<doc, category>> that two requests worked on at once
    count      \* the requests there have been

inventoryVars == <<minion, items, category, records, waits, req, raced, count>>

MinionStatus == {"unused", "there", "deleted", "merged"}
Item == [id : 0..MaxRequests, of : Docs, doc : Docs, cat : Cats,
         is_system : BOOLEAN, data : SUBSET Fields]
Strategy == {"merge", "use_source", "use_target"}
OnConflict == {"error", "use_source", "use_target"}
TaskMinions == "tasks"     \* stands for the task minions in `raced`

Idle == [op |-> "idle", docs |-> {}, cats |-> {}, is_system |-> FALSE, data |-> {},
         next |-> <<>>, to |-> {}, strategy |-> "merge", conflict |-> "error", id |-> 0,
         name |-> "none", item |-> {}]

There(D) == {d \in D : minion[d].status = "there"}
Named(n) == {d \in Docs : minion[d].status = "there" /\ minion[d].name = n}
Of(d, c) == {i \in items : i.doc = d /\ i.cat = c}
Manual(d) == {i.cat : i \in {i \in items : i.doc = d /\ ~i.is_system}}

\* The <<doc, category>> a request writes to, or makes go.
Touches(r) == r.docs \X r.cats
Overlaps(r) == UNION {Touches(r) \cap Touches(req[a]) : a \in Actors}

InventoryTypeOK ==
    /\ \A d \in Docs : /\ minion[d].name \in Names \cup {"none"}
                       /\ minion[d].status \in MinionStatus /\ minion[d].active \in BOOLEAN
    /\ \A n \in Names : Cardinality(Named(n)) <= 1
    /\ items \subseteq Item
    /\ category \in [Cats -> [there : BOOLEAN, fields : SUBSET Fields, deleted : BOOLEAN]]
    /\ records \subseteq Aggregated /\ waits \subseteq Docs
    /\ \A a \in Actors : DOMAIN req[a] = DOMAIN Idle /\ req[a].docs \cup req[a].to \subseteq Docs
    /\ raced \subseteq Docs \X (Cats \cup {TaskMinions})
    /\ count \in 0..MaxRequests

\* Some minions, one category, and a few items of it.
InventoryInit ==
    /\ \E named \in {f \in [Docs -> Names \cup {"none"}] :
                        \A d, e \in Docs : f[d] = f[e] /\ d # e => f[d] = "none"},
          active \in SUBSET Docs :
        /\ active \subseteq {d \in Docs : named[d] # "none"}
        /\ minion = [d \in Docs |-> [name |-> named[d], active |-> d \in active,
                        status |-> IF named[d] = "none" THEN "unused" ELSE "there"]]
    /\ \E c \in Cats : category = [e \in Cats |-> [there |-> e = c, deleted |-> FALSE,
                                     fields |-> IF e = c THEN Fields ELSE {}]]
    /\ \E had \in {I \in SUBSET [doc : There(Docs), cat : {c \in Cats : category[c].there},
                                is_system : BOOLEAN] :
                      Cardinality(I) <= Preset} :
        items = {[id |-> 0, of |-> h.doc, doc |-> h.doc, cat |-> h.cat,
                  is_system |-> h.is_system, data |-> Fields] : h \in had}
    /\ records = Aggregated \cap {i.cat : i \in items}
    /\ waits \in {{}, There(Docs)}
    /\ req = [a \in Actors |-> Idle] /\ raced = {} /\ count = 0
-----------------------------------------------------------------------------
(* What the repositories do.                                               *)

get_ids(D) == There(D)
\* Every field of the category is in a valid item, and no other one.
clean_data(c) == category[c].fields
split_data(data) == data \cap {"category"}

NewItems(r, D) ==
    IF r.data = {} THEN {}
    ELSE {[id |-> r.id, of |-> d, doc |-> d, cat |-> c, is_system |-> r.is_system,
           data |-> r.data] : d \in D, c \in r.cats}
pull_minions_entries(D, C, is_system) ==
    {i \in items : ~(i.doc \in D /\ i.cat \in C /\ i.is_system = is_system)}
replace_static_extra_data_items(r, d) ==
    pull_minions_entries({d}, r.cats, r.is_system) \cup NewItems(r, {d} \cap There(Docs))
push_static_extra_data_items(r, d) == items \cup NewItems(r, {d} \cap There(Docs))
push_minions_entries(r, D) == items \cup NewItems(r, D)
\* Mutant: what was collected stays.
pull_all_minions_entries_Manual(D) ==
    {i \in items : ~(i.doc \in D /\ i.cat \in Aggregated /\ ~i.is_system)}
pull_all_minions_entries(D) == {i \in items : ~(i.doc \in D /\ i.cat \in Aggregated)}
\* A minion document goes with the items in it.
delete_many(D) == {i \in items : ~(i.doc \in D /\ i.cat \in Static)}
unset_minions_data_field(c, f) ==
    {IF i.cat = c THEN [i EXCEPT !.data = @ \ {f}] ELSE i : i \in items}
\* An item that is left without data goes.
remove_static_category_data_field(c, f) ==
    {i \in unset_minions_data_field(c, f) : i.cat = c => i.data # {}}
\* What is written to an entry leaves its record's fields alone.
set_manual_static_extra_data_item_data(i, data) == [i EXCEPT !.data = data]
set_manual_minion_entry_data(i, data) == [i EXCEPT !.data = data \cup split_data(@)]
\* Items go to another minion, entries within their record.
move_minion_entries(I, target) == {[i EXCEPT !.doc = target] : i \in I}
\* The item a user names: theirs, and not one that was collected.
ManualItem(r) == {i \in items : /\ ~i.is_system /\ i.doc \in r.docs
                                /\ \E j \in r.item : j.id = i.id /\ j.of = i.of /\ j.cat = i.cat}
-----------------------------------------------------------------------------
Begin(a, r) ==
    /\ req[a].op = "idle" /\ count < MaxRequests
    /\ count' = count + 1
    /\ raced' = raced \cup Overlaps(r)
    /\ req' = [req EXCEPT ![a] = [r EXCEPT !.id = count + 1]]

Doing(a, what) == req[a].next # <<>> /\ Head(req[a].next) = what
Rest(a) == IF Len(req[a].next) = 1 THEN Idle ELSE [req[a] EXCEPT !.next = Tail(@)]
Continue(a) == req' = [req EXCEPT ![a] = Rest(a)] /\ UNCHANGED <<raced, count>>
\* A request of one step, which others cannot come between.
AtOnce(a) == /\ req[a].op = "idle" /\ count < MaxRequests
             /\ count' = count + 1 /\ UNCHANGED <<req, raced>>

\* The writes of _write_items.
Writes(c, replace) == IF c \in Static THEN IF replace THEN <<"replace">> ELSE <<"append">>
                      ELSE IF replace THEN <<"pull", "push">> ELSE <<"push">>
\* What is written: to which of the minions, with which fields.
Writer(op, D, c, is_system, replace) ==
    [Idle EXCEPT !.op = op, !.docs = get_ids(D), !.to = get_ids(D), !.cats = {c},
                 !.is_system = is_system, !.data = clean_data(c), !.next = Writes(c, replace)]

\* A user gives minions an item.  It replaces theirs if they may have but one.
add_items(a) ==
    \E c \in Cats, D \in SUBSET Docs :
        /\ category[c].there /\ get_ids(D) # {} /\ clean_data(c) # {}
        /\ Begin(a, Writer("add", D, c, FALSE, c \in Single))
        /\ UNCHANGED <<minion, items, category, records, waits>>

\* Another module sends what it knows of a minion, which may be nothing.
add_extra_data(a) ==
    \E c \in Cats, n \in Names, empty \in BOOLEAN :
        /\ category[c].there /\ Named(n) # {}
        /\ empty \/ clean_data(c) # {}
        /\ LET r == Writer("ingest", Named(n), c, TRUE, TRUE)
           IN  Begin(a, IF empty THEN [r EXCEPT !.data = {}] ELSE r)
        /\ UNCHANGED <<minion, items, category, records, waits>>

\* A user imports a file of items: the minions and the category are read first.
import_items(a) ==
    \E c \in Cats, D \in SUBSET Docs, replace \in BOOLEAN :
        /\ category[c].there /\ There(D) # {} /\ clean_data(c) # {}
        /\ Begin(a, [Writer("import", D, c, FALSE, replace \/ c \in Single)
                        EXCEPT !.next = <<"transaction">>,
                               !.strategy = IF replace \/ c \in Single THEN "use_source"
                                                                       ELSE "merge"])
        /\ UNCHANGED <<minion, items, category, records, waits>>

\* update_one for one minion after another: each of the minions is one step.
WriteStatic(a) ==
    \E d \in req[a].to :
        /\ \/ Doing(a, "replace") /\ items' = replace_static_extra_data_items(req[a], d)
           \/ Doing(a, "append") /\ items' = push_static_extra_data_items(req[a], d)
        /\ req' = [req EXCEPT ![a] = IF req[a].to = {d} THEN Idle
                                     ELSE [req[a] EXCEPT !.to = @ \ {d}]]
        /\ UNCHANGED <<minion, category, records, waits, raced, count>>

Pull(a) ==
    /\ Doing(a, "pull")
    /\ items' = pull_minions_entries(req[a].to, req[a].cats, req[a].is_system)
    /\ Continue(a)
    /\ UNCHANGED <<minion, category, records, waits>>

\* The entries go to the record with the item's category fields, there or not.
Push(a) ==
    /\ Doing(a, "push")
    /\ items' = push_minions_entries(req[a], req[a].to)
    /\ records' = IF req[a].data = {} THEN records ELSE records \cup req[a].cats
    /\ Continue(a)
    /\ UNCHANGED <<minion, category, waits>>

\* The import's writes, to the minions that are there still.
ImportTransaction(a) ==
    LET D == get_ids(req[a].to)
        kept == IF req[a].strategy = "use_source"
                THEN pull_minions_entries(D, req[a].cats, FALSE) ELSE items
    IN  /\ Doing(a, "transaction")
        /\ items' = kept \cup NewItems(req[a], D)
        /\ records' = IF D = {} THEN records ELSE records \cup (req[a].cats \cap Aggregated)
        /\ Continue(a)
        /\ UNCHANGED <<minion, category, waits>>

\* A user changes, or removes, an item: the category is read first.
NameItem(a, op, i, data) ==
    /\ category[i.cat].there
    /\ Begin(a, [Idle EXCEPT !.op = op, !.docs = {i.doc}, !.cats = {i.cat}, !.item = {i},
                             !.data = data, !.next = <<op>>])
    /\ UNCHANGED <<minion, items, category, records, waits>>
update_item(a) ==
    \E i \in items : LET data == IF i.cat \in Static THEN clean_data(i.cat)
                                ELSE clean_data(i.cat) \ split_data(clean_data(i.cat))
                     IN  data # {} /\ NameItem(a, "update", i, data)
delete_item(a) == \E i \in items : NameItem(a, "remove", i, {})

SetManual(a) ==
    /\ Doing(a, "update")
    /\ items' = (items \ ManualItem(req[a])) \cup
                {IF i.cat \in Static THEN set_manual_static_extra_data_item_data(i, req[a].data)
                 ELSE set_manual_minion_entry_data(i, req[a].data) : i \in ManualItem(req[a])}
    /\ Continue(a)
    /\ UNCHANGED <<minion, category, records, waits>>
PullManual(a) ==
    /\ Doing(a, "remove")
    /\ items' = items \ ManualItem(req[a])
    /\ Continue(a)
    /\ UNCHANGED <<minion, category, records, waits>>
-----------------------------------------------------------------------------
(* Minions come, go, become one and get another name.                      *)

\* A user creates a minion, or gives one that was never active another name.
minion_create(a) ==
    \E n \in Names, d \in Docs :
        /\ AtOnce(a) /\ Named(n) = {} /\ minion[d].status = "unused"
        /\ minion' = [minion EXCEPT ![d] = [name |-> n, status |-> "there", active |-> FALSE]]
        /\ UNCHANGED <<items, category, records, waits>>
update_never_active(a) ==
    \E n \in Names, d \in Docs :
        /\ AtOnce(a) /\ Named(n) = {} /\ minion[d].status = "there" /\ ~minion[d].active
        /\ minion' = [minion EXCEPT ![d].name = n]
        /\ UNCHANGED <<items, category, records, waits>>

\* A master tells which minions it sees, a minion sends its grains.
process_presence(a) ==
    \E N \in SUBSET Names :
        /\ AtOnce(a) /\ UNION {Named(n) : n \in N} # {}
        /\ minion' = [d \in Docs |-> IF minion[d].status = "there" /\ minion[d].name \in N
                                     THEN [minion[d] EXCEPT !.active = TRUE] ELSE minion[d]]
        /\ UNCHANGED <<items, category, records, waits>>
process_grains(a) ==
    \E n \in Names :
        \/ \E d \in Named(n) : /\ AtOnce(a) /\ minion' = [minion EXCEPT ![d].active = TRUE]
                               /\ UNCHANGED <<items, category, records, waits>>
        \/ /\ Named(n) = {} /\ \E d \in Docs : minion[d].status = "unused"
           /\ Begin(a, [Idle EXCEPT !.op = "grains", !.name = n, !.next = <<"insert">>])
           /\ UNCHANGED <<minion, items, category, records, waits>>
\* Mutant: the index of minion_id and master is not unique.
InsertMinion_NotUnique(a) ==
    /\ Doing(a, "insert") /\ Continue(a)
    /\ \E d \in Docs : /\ minion[d].status = "unused"
                       /\ minion' = [minion EXCEPT ![d] = [name |-> req[a].name,
                                          status |-> "there", active |-> TRUE]]
    /\ UNCHANGED <<items, category, records, waits>>
\* The index of minion_id and master refuses a second one.
InsertMinion(a) ==
    /\ Doing(a, "insert") /\ Continue(a)
    /\ \/ Named(req[a].name) # {} /\ UNCHANGED minion
       \/ \E d \in Docs : /\ Named(req[a].name) = {} /\ minion[d].status = "unused"
                          /\ minion' = [minion EXCEPT ![d] = [name |-> req[a].name,
                                             status |-> "there", active |-> TRUE]]
       \/ /\ \A d \in Docs : minion[d].status # "unused"    \* the bound of Docs
          /\ UNCHANGED minion
    /\ UNCHANGED <<items, category, records, waits>>

\* A user deletes minions: their documents, their entries, their task minions.
\* In between delete_minion_salt_keys_task is sent, once for each of them.
minion_delete(a) ==
    \E D \in SUBSET Docs :
        /\ There(D) # {}
        /\ Begin(a, [Idle EXCEPT !.op = "delete", !.docs = There(D), !.cats = Cats \cup {TaskMinions},
                                 !.next = <<"drop", "strip", "tasks">>])
        /\ UNCHANGED <<minion, items, category, records, waits>>
DropMinions(a) ==
    /\ Doing(a, "drop")
    /\ minion' = [d \in Docs |-> IF d \in There(req[a].docs)
                                 THEN [minion[d] EXCEPT !.status = "deleted"] ELSE minion[d]]
    /\ items' = delete_many(req[a].docs)
    /\ Continue(a)
    /\ UNCHANGED <<category, records, waits>>
StripEntries(a) ==
    /\ Doing(a, "strip")
    /\ items' = pull_all_minions_entries(req[a].docs)
    /\ Continue(a)
    /\ UNCHANGED <<minion, category, records, waits>>
DeleteTaskMinions(a) ==
    /\ Doing(a, "tasks")
    /\ waits' = waits \ req[a].docs
    /\ Continue(a)
    /\ UNCHANGED <<minion, items, category, records>>

\* A user merges one minion into another.  Both are looked up before the
\* transaction, whether the first was active is looked up in it.  What to do
\* about conflicts matters to the strategy merge only.
minion_merge(a) ==
    \E s, t \in There(Docs), strategy \in Strategy, conflict \in OnConflict :
        /\ s # t /\ (conflict = "error" \/ strategy = "merge")
        /\ Begin(a, [Idle EXCEPT !.op = "merge", !.docs = {s, t}, !.to = {t},
                                 !.cats = Cats \cup {TaskMinions}, !.strategy = strategy,
                                 !.conflict = conflict, !.next = <<"merge">>])
        /\ UNCHANGED <<minion, items, category, records, waits>>

Conflicts(s, t) == {c \in Single : category[c].there} \cap Manual(s) \cap Manual(t)
\* Mutant: of two items on_conflict does not choose.
Replaced_StrategyOnly(r, s, t) == IF r.strategy = "use_source" THEN Manual(t) ELSE {}
Replaced(r, s, t) == IF r.strategy = "use_source" THEN Manual(t)
                     ELSE IF r.conflict = "use_source" THEN Conflicts(s, t) ELSE {}
Dropped(r, s, t) == IF r.strategy = "merge" /\ r.conflict = "use_target"
                    THEN Conflicts(s, t) ELSE {}
\* Mutant: a category in which the target has items keeps those only.
Merged_TargetFirst(r, s, t) ==
    {i \in items : i.doc # s} \cup
        move_minion_entries({i \in items : i.doc = s /\ i.cat \notin Manual(t)}, t)
\* The items of both, of which the target's static ones need its document.
Merged(r, s, t) ==
    LET rest  == {i \in items : i.doc # s}
        own   == {i \in rest : ~(i.doc = t /\ i.cat \in Replaced(r, s, t) /\ ~i.is_system)}
        moved == {i \in items : /\ i.doc = s /\ i.cat \notin Dropped(r, s, t)
                                /\ i.cat \in Static => minion[t].status = "there"}
    IN  IF r.strategy = "use_target" THEN rest
        ELSE own \cup move_minion_entries(moved, t)
\* Mutant: that it is not active is not looked up again.
merge_refused_Before(r, s, t) ==
    \/ minion[s].status # "there"
    \/ r.strategy = "merge" /\ r.conflict = "error" /\ Conflicts(s, t) # {}
merge_refused(r, s, t) ==
    \/ minion[s].status # "there" \/ minion[s].active
    \/ r.strategy = "merge" /\ r.conflict = "error" /\ Conflicts(s, t) # {}

Merge(a) ==
    \E t \in req[a].to, s \in req[a].docs \ req[a].to :
        /\ Doing(a, "merge")
        /\ req' = [req EXCEPT ![a] = Idle]
        /\ IF merge_refused(req[a], s, t) THEN UNCHANGED <<minion, items, waits, raced>>
           ELSE /\ minion' = [minion EXCEPT ![s].status = "merged"]
                /\ items' = Merged(req[a], s, t)
                /\ waits' = waits \ {s}
                /\ raced' = raced \cup {<<t, p[2]>> : p \in {p \in raced : p[1] = s}}
        /\ UNCHANGED <<category, records, count>>

\* A new task: the minions it is for are read, then its task minions written.
fill_task_minions(a) ==
    /\ There(Docs) \ waits # {}
    /\ Begin(a, [Idle EXCEPT !.op = "fill", !.docs = There(Docs) \ waits,
                             !.cats = {TaskMinions}, !.next = <<"bulk_create">>])
    /\ UNCHANGED <<minion, items, category, records, waits>>
CreateTaskMinions(a) ==
    /\ Doing(a, "bulk_create")
    /\ waits' = waits \cup req[a].docs
    /\ Continue(a)
    /\ UNCHANGED <<minion, items, category, records>>
-----------------------------------------------------------------------------
(* Categories.  A module's are kept by it, and not edited by users.        *)

extra_data_category_create(a) ==
    \E c \in Cats \ System :
        /\ AtOnce(a) /\ ~category[c].there
        /\ category' = [category EXCEPT ![c].there = TRUE, ![c].fields = Fields]
        /\ UNCHANGED <<minion, items, records, waits>>
extra_categories_sync(a) ==
    \E c \in System, F \in SUBSET Fields :
        /\ AtOnce(a)
        /\ category' = [category EXCEPT ![c].there = TRUE, ![c].fields = F]
        /\ UNCHANGED <<minion, items, records, waits>>
add_field(a) ==
    \E c \in Cats \ System, f \in Fields :
        /\ AtOnce(a) /\ category[c].there /\ f \notin category[c].fields
        /\ category' = [category EXCEPT ![c].fields = @ \cup {f}]
        /\ UNCHANGED <<minion, items, records, waits>>

\* The data goes first, then the category or its field.
Edit(a, op, c, F, next) ==
    /\ category[c].there
    /\ Begin(a, [Idle EXCEPT !.op = op, !.docs = Docs, !.cats = {c}, !.data = F, !.next = next])
    /\ UNCHANGED <<minion, items, category, records, waits>>
\* Mutant: the category goes first.
extra_data_category_delete_First(a) ==
    \E c \in Cats \ System : Edit(a, "drop_category", c, {}, <<"category", "wipe">>)
extra_data_category_delete(a) ==
    \E c \in Cats \ System : Edit(a, "drop_category", c, {}, <<"wipe", "category">>)
delete_field(a) ==
    \E c \in Cats \ System : \E f \in category[c].fields :
        Edit(a, "drop_field", c, {f}, <<"clear", "field">>)

RemoveCategoryData(a) ==
    /\ Doing(a, "wipe")
    /\ items' = {i \in items : i.cat \notin req[a].cats}
    /\ records' = records \ req[a].cats
    /\ Continue(a)
    /\ UNCHANGED <<minion, category, waits>>
DropCategory(a) ==
    /\ Doing(a, "category")
    /\ category' = [c \in Cats |->
           IF c \in req[a].cats THEN [there |-> FALSE, fields |-> {}, deleted |-> TRUE]
                                ELSE category[c]]
    /\ Continue(a)
    /\ UNCHANGED <<minion, items, records, waits>>
\* A field of the records stays while there is one, with entries or without.
RemoveCategoryField(a) ==
    \E c \in req[a].cats, f \in req[a].data :
        LET refused == c \in records /\ f = "category"
        IN  /\ Doing(a, "clear")
            /\ items' = IF c \in Static THEN remove_static_category_data_field(c, f)
                        ELSE IF f = "minion" THEN unset_minions_data_field(c, f) ELSE items
            /\ req' = [req EXCEPT ![a] = IF refused THEN Idle ELSE Rest(a)]
            /\ UNCHANGED <<minion, category, records, waits, raced, count>>
PullField(a) ==
    /\ Doing(a, "field")
    /\ category' = [c \in Cats |-> IF c \in req[a].cats
                                  THEN [category[c] EXCEPT !.fields = @ \ req[a].data]
                                  ELSE category[c]]
    /\ Continue(a)
    /\ UNCHANGED <<minion, items, records, waits>>
-----------------------------------------------------------------------------
InventoryNext == \E a \in Actors :
    \/ add_items(a) \/ add_extra_data(a) \/ import_items(a) \/ update_item(a) \/ delete_item(a)
    \/ WriteStatic(a) \/ Pull(a) \/ Push(a) \/ ImportTransaction(a) \/ SetManual(a)
    \/ PullManual(a) \/ minion_create(a) \/ update_never_active(a) \/ process_presence(a)
    \/ process_grains(a) \/ InsertMinion(a) \/ minion_delete(a) \/ DropMinions(a)
    \/ StripEntries(a) \/ DeleteTaskMinions(a) \/ minion_merge(a) \/ Merge(a)
    \/ fill_task_minions(a) \/ CreateTaskMinions(a) \/ extra_data_category_create(a)
    \/ extra_categories_sync(a) \/ add_field(a) \/ extra_data_category_delete(a)
    \/ delete_field(a) \/ RemoveCategoryData(a) \/ DropCategory(a) \/ RemoveCategoryField(a)
    \/ PullField(a)

InventorySpec == InventoryInit /\ [][InventoryNext]_inventoryVars
-----------------------------------------------------------------------------
Leaving(d) == \E a \in Actors : req[a].op = "delete" /\ d \in req[a].docs

\* A minion has at most one manual item of a single item category, whatever
\* adds, imports and merges come together; if two requests worked on it at once,
\* not of an aggregated category, whose replacement is two writes, nor of one that
\* was deleted: merge does not look for conflicts in what was written to it late.
SingleManualItem ==
    \A d \in There(Docs), c \in Single :
        \/ <<d, c>> \in raced /\ (c \in Aggregated \/ category[c].deleted)
        \/ \A i, j \in Of(d, c) : i.is_system \/ j.is_system \/ i = j

\* "Deleting a minion also deletes its task minions and its entries": nothing
\* is left of a minion that was deleted or merged, but for what a request that
\* had looked it up before writes after it went.
DeletedIsGone ==
    \A d \in {d \in Docs : minion[d].status \in {"deleted", "merged"} /\ ~Leaving(d)} :
        /\ \A i \in items : i.doc = d => <<d, i.cat>> \in raced
        /\ d \in waits => <<d, TaskMinions>> \in raced

\* No item is left of a category that was deleted, and no data of a field that
\* was, but for what a request that had read the category writes after that.
CategoryIsGone ==
    \A i \in items :
        \/ i.cat \in System \/ <<i.doc, i.cat>> \in raced
        \/ category[i.cat].there /\ i.data \subseteq category[i.cat].fields

\* A minion that has been active keeps its name, and is not merged away, even
\* if it became active after the request to do so looked it up.
ActiveStays ==
    [][\A d \in Docs : minion[d].active =>
           minion'[d].name = minion[d].name /\ minion'[d].status # "merged"]_inventoryVars

\* A merge that may neither replace nor drop anything loses nothing of the two
\* minions, as long as the target was not deleted meanwhile.
MergeLosesNothing ==
    [][\A a \in Actors : \A t \in req[a].to, s \in req[a].docs \ req[a].to :
           /\ req[a].op = "merge" /\ req[a].strategy = "merge" /\ req[a].conflict = "error"
           /\ minion[t].status = "there" /\ minion[s].status = "there"
           /\ minion'[s].status = "merged" /\ req'[a] = Idle
           => \A i \in items : i.doc \in {s, t} =>
                  \E j \in items' : j = [i EXCEPT !.doc = t]]_inventoryVars
=============================================================================

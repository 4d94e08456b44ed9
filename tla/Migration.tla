------------------------------ MODULE Migration ------------------------------
(***************************************************************************)
(* The migration that gives each field of extra data a single type: fields *)
(* are written category by category, then the items in minion documents    *)
(* and at last the records are cast to them.  It runs alone and without a  *)
(* transaction, and from its beginning if the run before it did not end.   *)
(* A record may be processed from the copy a cursor fetched with others.   *)
(***************************************************************************)
EXTENDS Integers, FiniteSets

CONSTANTS
    MinionDocs,    \* minions, each with one item in its document
    RecordIds,     \* records of the aggregated category, in their natural order
    FetchSizes,    \* numbers of records a cursor may fetch at once
    MaxStops       \* bound: runs that do not end

ASSUME MigrationAssumption ==
    RecordIds \subseteq Nat \ {0} /\ FetchSizes \subseteq Nat /\ MaxStops \in Nat

NUMBER_TYPES == {"int", "float"}
\* A value has a type and a text, which is what it is written as; no value is
\* the type "none" ('' is a value as well, of which none is cast either).
Values == {<<"int", "5">>, <<"str", "5">>, <<"str", "x">>, <<"bool", "x">>}
Integral == {"5"}          \* texts of integers
Numerals == {"5", "5.5"}   \* texts of numbers
Empty == <<"none", "">>    \* data without any field
Invalid == <<"invalid", "">>

\* Categories: of minion documents, of records, and one of the inventory.
Fields == {"item", "record", "entry", "memory"}
CategoryFields == {{"item"}, {"record", "entry"}, {"memory"}}
INVENTORY_FIELDS == [f \in {"memory"} |-> "int"]
LegacyTypes == {{"none"}, {"int", "none"}, {"int", "str"}, {"bool", "int"}}

VARIABLES
    fields,    \* field -> its types, or single type, and whether it is the minions'
    minion_fields,   \* as categories list them before they are migrated
    static,    \* minion -> places -> the data of its items
    stored,    \* record -> its data, and places -> its entries
    at,        \* what the run does
    types,     \* types_by_category, in memory
    batch,     \* copies of the records that the cursor has fetched
    seen,      \* the last record it fetched
    merge,     \* what is merged: the record, its data, its entries
    was,       \* history: the data there were at first
    doubled, overwritten,   \* history: entries pushed by a run that stopped before
               \* it deleted their record, and into a record already fetched
    stops

migrationVars == <<fields, minion_fields, static, stored, at, types, batch, seen, merge,
                   was, doubled, overwritten, stops>>
documents == <<fields, minion_fields, static, stored, was>>
Nothing == [k \in {} |-> Empty]    \* no place has anything
NoRecord == [data |-> Empty, entries |-> Nothing]
NoMerge == [id |-> 0, data |-> Empty, entries |-> Nothing]
IsThere(r) == DOMAIN stored[r].entries # {}
MinionFields == {"entry"}

\* Values are of their fields' types, or there is none.
ValuesOf(f) == {v \in Values : v[1] \in fields[f].types} \cup {Empty}

MigrationTypeOK ==
    /\ minion_fields \subseteq Fields /\ DOMAIN types \subseteq Fields
    /\ \A m \in MinionDocs : \A k \in DOMAIN static[m] : static[m][k] \in Values \cup {Empty}
    /\ \A r \in RecordIds : \A k \in DOMAIN stored[r].entries :
           stored[r].entries[k].id \in RecordIds
    /\ at \in {"fields", "static", "records", "push", "delete", "done"}
    /\ seen \in {0} \cup RecordIds /\ doubled \cup overwritten \subseteq RecordIds
    /\ stops \in 0..MaxStops

MigrationInit ==
    /\ fields \in [Fields -> {[types |-> T, single |-> "", of_minion |-> FALSE] :
                              T \in LegacyTypes}]
    /\ fields["memory"].types = {"none"} /\ fields["item"].types = fields["record"].types
    /\ minion_fields = MinionFields
    /\ \E v \in ValuesOf("item") : static = [m \in MinionDocs |-> [k \in {1} |-> v]]
    /\ \E data \in [RecordIds -> ValuesOf("record")], entry \in [RecordIds -> ValuesOf("entry")] :
        /\ \A r, s \in RecordIds : data[r] = data[s] => r = s
        /\ stored = [r \in RecordIds |->
                         [data |-> data[r], entries |-> [k \in {1} |-> [id |-> r, data |-> entry[r]]]]]
    /\ at = "fields" /\ types = Nothing /\ batch = {} /\ seen = 0 /\ merge = NoMerge
    /\ was = [static |-> static, stored |-> stored]
    /\ doubled = {} /\ overwritten = {} /\ stops = 0
-----------------------------------------------------------------------------
(* What is made of types and of values.                                    *)

get_single_type(T) ==
    LET some == T \ {"none"}
    IN  IF some = {} \/ "str" \in some THEN "str"
        ELSE IF Cardinality(some) = 1 THEN CHOOSE t \in some : TRUE
        ELSE IF some \subseteq NUMBER_TYPES THEN "float" ELSE "str"

get_category_field(f) ==
    IF f \in DOMAIN INVENTORY_FIELDS
    THEN [types |-> {}, single |-> INVENTORY_FIELDS[f], of_minion |-> FALSE]
    ELSE IF fields[f].single # "" THEN fields[f]
    ELSE [types |-> {}, single |-> get_single_type(fields[f].types),
          of_minion |-> f \in minion_fields]

cast_to_str(v) == IF v[1] \in {"str", "int", "float", "datetime"} THEN <<"str", v[2]>> ELSE Invalid
cast_to_number(v, type) ==
    CASE v[1] = "int" -> v
      [] v[1] = "float" /\ type = "float" -> v
      [] v[1] \in {"float", "str"} /\ type = "int" /\ v[2] \in Integral -> <<"int", v[2]>>
      [] v[1] = "str" /\ type = "float" /\ v[2] \in Numerals -> <<"float", v[2]>>
      [] OTHER -> Invalid
cast_value(v, type) ==
    CASE v = Empty -> v
      [] v # Empty /\ type = "str" -> cast_to_str(v)
      [] v # Empty /\ type \in NUMBER_TYPES -> cast_to_number(v, type)
      [] OTHER -> IF v[1] = type THEN v ELSE Invalid
\* A value that cannot be cast is dropped.
cast_data(v, f) ==
    LET cast == cast_value(v, types[f]) IN IF cast = Invalid THEN Empty ELSE cast

\* The items and the entries that are kept stay in order, at their places.
cast_items(s) ==
    [k \in {k \in DOMAIN s : cast_data(s[k], "item") # Empty \/ s[k] = Empty} |->
        cast_data(s[k], "item")]

\* An entry is dropped if casting leaves nothing of it and of its record.
left_NotEmpty(r, e) ==            \* mutant: or if there was nothing before
    cast_data(r.data, "record") # Empty \/ cast_data(e.data, "entry") # Empty
left(r, e) ==
    \/ cast_data(r.data, "record") # Empty \/ cast_data(e.data, "entry") # Empty
    \/ r.data = Empty /\ e.data = Empty
cast_entries(r) ==
    [k \in {k \in DOMAIN r.entries : left(r, r.entries[k])} |->
        [id |-> r.entries[k].id, data |-> cast_data(r.entries[k].data, "entry")]]
-----------------------------------------------------------------------------
(* migrate_extra_fields_to_single_type: a category's update is one write.  *)
MigrateCategory ==
    /\ at = "fields"
    /\ \E F \in CategoryFields :
        /\ F \cap DOMAIN types = {}
        /\ fields' = [f \in Fields |-> IF f \in F THEN get_category_field(f) ELSE fields[f]]
        /\ minion_fields' = minion_fields \ F
        /\ types' = [f \in F \cup DOMAIN types |->
                         IF f \in F THEN fields'[f].single ELSE types[f]]
    /\ at' = IF DOMAIN types' = Fields THEN "static" ELSE "fields"
    /\ UNCHANGED <<static, stored, was, batch, seen, merge, doubled, overwritten, stops>>

\* cast_static_data: the writes of a bulk are made minion by minion.
CastMinion(m) ==
    /\ at = "static" /\ static[m] # cast_items(static[m])
    /\ static' = [static EXCEPT ![m] = cast_items(@)]
    /\ UNCHANGED <<fields, minion_fields, stored, was, at, types, batch, seen, merge,
                   doubled, overwritten, stops>>
EndStatic ==
    /\ at = "static" /\ \A m \in MinionDocs : static[m] = cast_items(static[m])
    /\ at' = "records" /\ batch' = {} /\ seen' = 0
    /\ UNCHANGED <<documents, types, merge, doubled, overwritten, stops>>

\* cast_aggregated_data: the cursor fetches copies of the records that follow.
FetchRecords(n) ==
    LET rest == {r \in RecordIds : r > seen /\ IsThere(r)}
    IN  /\ at = "records" /\ batch = {}
        /\ \E last \in rest :
            LET next == {r \in rest : r <= last}
            IN  /\ Cardinality(next) = n \/ (next = rest /\ Cardinality(rest) < n)
                /\ batch' = {[id |-> r, data |-> stored[r].data, entries |-> stored[r].entries] :
                              r \in next}
                /\ seen' = last
        /\ UNCHANGED <<documents, at, types, merge, doubled, overwritten, stops>>

\* What the unique index on a record's category and data finds.
Other(id, data) == {r \in RecordIds \ {id} : IsThere(r) /\ stored[r].data = data}

\* Of a record that is to be written, data and entries are set.
CastTo(r, data, entries) ==
    \/ /\ data = Empty /\ DOMAIN entries = {}
       /\ stored' = [stored EXCEPT ![r.id] = NoRecord] /\ UNCHANGED <<at, merge>>
    \/ /\ data # Empty \/ DOMAIN entries # {}
       /\ data = r.data /\ entries = r.entries /\ UNCHANGED <<stored, at, merge>>
    \/ /\ data # Empty \/ DOMAIN entries # {}
       /\ data # r.data \/ entries # r.entries
       /\ Other(r.id, data) = {}
       /\ stored' = [stored EXCEPT ![r.id] = [data |-> data, entries |-> entries]]
       /\ UNCHANGED <<at, merge>>
    \/ /\ data # Empty \/ DOMAIN entries # {}
       /\ data # r.data \/ entries # r.entries
       /\ Other(r.id, data) # {}
       /\ merge' = [id |-> r.id, data |-> data, entries |-> entries]
       /\ at' = "push" /\ UNCHANGED stored
CastRecord ==
    /\ at = "records"
    /\ \E r \in batch :
        /\ \A s \in batch : r.id <= s.id
        /\ CastTo(r, cast_data(r.data, "record"), cast_entries(r))
        /\ batch' = batch \ {r}
    /\ UNCHANGED <<fields, minion_fields, static, was, types, seen, doubled, overwritten, stops>>

Ids(s) == {s[k].id : k \in DOMAIN s}
\* The entries of both, each at a place of its own.
Pushed(s, t) ==
    [k \in ({1} \X DOMAIN s) \cup ({2} \X DOMAIN t) |-> IF k[1] = 1 THEN s[k[2]] ELSE t[k[2]]]
\* DuplicateKeyError: the entries are pushed to the record that has the data ...
PushEntries ==
    /\ at = "push"
    /\ \E r \in Other(merge.id, merge.data) :
        /\ stored' = [stored EXCEPT ![r].entries = Pushed(@, merge.entries)]
        /\ overwritten' = IF r \in {c.id : c \in batch} THEN overwritten \cup Ids(merge.entries)
                          ELSE overwritten
    /\ at' = "delete"
    /\ UNCHANGED <<fields, minion_fields, static, was, types, batch, seen, merge, doubled, stops>>
\* ... and their own record is deleted.
DeleteMerged ==
    /\ at = "delete"
    /\ stored' = [stored EXCEPT ![merge.id] = NoRecord]
    /\ merge' = NoMerge /\ at' = "records"
    /\ UNCHANGED <<fields, minion_fields, static, was, types, batch, seen,
                   doubled, overwritten, stops>>

EndRecords ==
    /\ at = "records" /\ batch = {}
    /\ \A r \in RecordIds : r > seen => ~IsThere(r)
    /\ at' = "done"
    /\ UNCHANGED <<documents, types, batch, seen, merge, doubled, overwritten, stops>>

\* The process ends, and the next one runs the migration from its beginning.
StopMigration ==
    /\ at # "done" /\ stops < MaxStops
    /\ stops' = stops + 1
    /\ at' = "fields" /\ types' = Nothing /\ batch' = {} /\ seen' = 0 /\ merge' = NoMerge
    /\ doubled' = IF at = "delete" THEN doubled \cup Ids(merge.entries) ELSE doubled
    /\ UNCHANGED <<documents, overwritten>>

MigrationNext ==
    \/ MigrateCategory \/ (\E m \in MinionDocs : CastMinion(m)) \/ EndStatic
    \/ (\E n \in FetchSizes : FetchRecords(n)) \/ CastRecord \/ PushEntries \/ DeleteMerged
    \/ EndRecords \/ StopMigration
MigrationSpec == MigrationInit /\ [][MigrationNext]_migrationVars
-----------------------------------------------------------------------------
\* A record with one of its places, and those of them that hold an entry.
Places == UNION {{r} \X DOMAIN stored[r].entries : r \in RecordIds}
Copies(id) == Cardinality({x \in Places : stored[x[1]].entries[x[2]].id = id})
Typed(v, f) == v = Empty \/ v[1] = types[f]
\* Nothing could be kept of an entry whose data cannot be cast.
CanBeKept(v, e) ==
    \/ cast_value(v, types["record"]) \notin {Empty, Invalid}
    \/ cast_value(e, types["entry"]) \notin {Empty, Invalid}
    \/ v = Empty /\ e = Empty

\* When the migration has ended, however often it was started, each entry of
\* which something can be cast is there once and no other is, fields keep whose
\* they are, and what is left has its field's type.  Excepted are the entries of
\* a record that a run which stopped had merged and not deleted (they are there
\* twice) and those merged into a record that had been fetched (its own entries
\* may be written over them).
EntriesKept ==
    at = "done" =>
        /\ \A r \in RecordIds \ (doubled \cup overwritten) :
               Copies(r) = IF CanBeKept(was.stored[r].data, was.stored[r].entries[1].data)
                           THEN 1 ELSE 0
        /\ \A r \in RecordIds : IsThere(r) =>
               /\ Typed(stored[r].data, "record")
               /\ \A k \in DOMAIN stored[r].entries : Typed(stored[r].entries[k].data, "entry")
        /\ \A m \in MinionDocs :
               LET v == was.static[m][1]
                   cast == cast_value(v, types["item"])
               IN  static[m] = IF cast = Invalid THEN Nothing ELSE [k \in {1} |-> cast]
        /\ \A f \in Fields : /\ fields[f].single \in {"str", "int"}
                             /\ fields[f].of_minion = (f \in MinionFields)
=============================================================================

------------------------------- MODULE Pillars -------------------------------
(***************************************************************************)
(* Pillars: values that are set for all minions, for collections, for a    *)
(* minion, for a task, and as a user's defaults of a task template.  A     *)
(* master asks for those of a minion, which are read layer by layer while  *)
(* users write them.  Tasks are created, and templates deleted, together   *)
(* with their pillars in a transaction, which is one step here.            *)
(***************************************************************************)
EXTENDS Naturals, Sequences, SequencesExt

CONSTANTS
    Templates,     \* task templates of a source, by their ids
    PillarTasks, Users, PillarNames,
    secret_pillars,      \* names that a template declares to be secret
    PillarValues,
    MaxWrites      \* bound: writes of pillars

\* The bound is a number.
ASSUME PillarsAssumption == MaxWrites \in Nat

VARIABLES
    pillars,
    templates,     \* those that are there
    removed,       \* ids of those that were
    created,       \* tasks that were created
    reading,       \* what a master is being told, and history about it
    writer,        \* who wrote last
    writes

pillarVars == <<pillars, templates, removed, created, reading, writer, writes>>

Placeholder == "*******"   \* what a form shows of a secret default
Base == <<"base">>
MinionEnv == <<"minion">>     \* minion_id:...;master:... of one minion
Branch == <<"top", "below">>  \* a collection with its ancestors
TaskEnv(t) == <<"task", t>>
TemplateEnv(p, u) == <<"task_tpl", p, u>>
CollectionEnv(c) == <<"collection", c>>
Shown == {Base, MinionEnv} \cup {CollectionEnv(c) : c \in ToSet(Branch)}
IsDefault(p) == p.env[1] = "task_tpl"
DefaultsOf(P) == {p \in pillars : IsDefault(p) /\ p.env[2] \in P}

NotReading == [on |-> FALSE, left |-> <<>>, asked |-> {}, got |-> <<>>, held |-> {}, had |-> {}]

PillarsInit ==
    /\ \E E \in SUBSET (Shown \ {CollectionEnv("top")}), v \in PillarValues, n \in PillarNames :
           pillars = {[env |-> e, name |-> n, value |-> v, is_secret |-> FALSE] : e \in E}
    /\ templates \in SUBSET Templates /\ removed = {} /\ created = {}
    /\ reading = NotReading /\ writer = "nobody" /\ writes = 0

\* No two pillars have the same environment and name (tgt_name_unique_index_asc).
PillarsTypeOK ==
    /\ \A p \in pillars : p.name \in PillarNames /\ p.value \in PillarValues \cup {Placeholder}
    /\ \A p, q \in pillars : p.env = q.env /\ p.name = q.name => p = q
    /\ templates \cap removed = {} /\ templates \cup removed \subseteq Templates
    /\ created \subseteq PillarTasks /\ DOMAIN reading = DOMAIN NotReading
    /\ writes \in 0..MaxWrites

\* Each write is seen by the history of the read that is on.
Write(by, P) ==
    /\ writes < MaxWrites
    /\ writes' = writes + 1 /\ writer' = by
    /\ pillars' = P
    /\ reading' = [reading EXCEPT !.held = @ \cap {<<p.env, p.name>> : p \in P},
                                  !.had = IF reading.on THEN @ \cup P ELSE @]
-----------------------------------------------------------------------------
\* PillarService.create, update and delete, as users call them.
create(env, name, value) ==
    /\ \A p \in pillars : p.env # env \/ p.name # name
    /\ Write("user", pillars \cup {[env |-> env, name |-> name, value |-> value,
                                    is_secret |-> name \in secret_pillars]})
    /\ UNCHANGED <<templates, removed, created>>
update(p, value) ==
    /\ p \in pillars /\ ~p.is_secret
    /\ Write("user", (pillars \ {p}) \cup {[p EXCEPT !.value = value]})
    /\ UNCHANGED <<templates, removed, created>>
delete(p) ==
    /\ p \in pillars /\ Write("user", pillars \ {p})
    /\ UNCHANGED <<templates, removed, created>>

\* A secret that the user left as it was shown is that of the default, whoever
\* has saved it, as long as there is one.
ValueOf(given, name, tpl) ==
    LET default == {p \in DefaultsOf({tpl}) : p.is_secret /\ p.name = name}
    IN  IF given[name] # Placeholder \/ name \notin secret_pillars \/ default = {}
        THEN {given[name]} ELSE {p.value : p \in default}

\* create_for_task, of which save_as_default drops the defaults of all users.
create_for_task(t, tpl, u, given, save) ==
    \E value \in [DOMAIN given -> PillarValues \cup {Placeholder}] :
        LET new(env) == {[env |-> env, name |-> n, value |-> value[n],
                          is_secret |-> n \in secret_pillars] : n \in DOMAIN given}
            kept == {p \in pillars : p.env # TaskEnv(t)} \ (IF save THEN DefaultsOf({tpl}) ELSE {})
        IN  /\ \A n \in DOMAIN given : value[n] \in ValueOf(given, n, tpl)
            /\ Write("task", kept \cup new(TaskEnv(t))
                                  \cup IF save THEN new(TemplateEnv(tpl, u)) ELSE {})

\* TaskService.create (what it fills the task with is in Inventory).
CreateTask(t, tpl, u, given, save) ==
    /\ t \notin created /\ tpl \in templates
    /\ created' = created \cup {t}
    /\ create_for_task(t, tpl, u, given, save)
    /\ UNCHANGED <<templates, removed>>
-----------------------------------------------------------------------------
\* TaskTemplateService.delete_many, for the templates of a source that are no
\* longer in it: a pillar goes if its environment matches "task_tpl:<id>|<id>".
Related(P) == IF P = {} THEN {p \in pillars : IsDefault(p)} ELSE DefaultsOf(P)
delete_many(P) == Write("templates", pillars \ Related(P))

\* _save_templates_to_db: others are created, or stay and are updated.
_save_templates_to_db ==
    \E gone \in SUBSET templates, new \in SUBSET (Templates \ (templates \cup removed)) :
        /\ delete_many(gone)
        /\ templates' = (templates \ gone) \cup new /\ removed' = removed \cup gone
        /\ UNCHANGED created
delete_template(p) ==
    /\ p \in templates
    /\ Write("templates", pillars \ DefaultsOf({p}))
    /\ templates' = templates \ {p} /\ removed' = removed \cup {p}
    /\ UNCHANGED created
-----------------------------------------------------------------------------
(* get_merged: a later layer's value takes the place of an earlier one's.  *)
LayersOf(env) ==
    IF env # CollectionEnv("below") THEN <<env>>
    ELSE [i \in DOMAIN Branch |-> CollectionEnv(Branch[i])] \o <<env>>
Layers_MinionFirst(envs) ==            \* mutant: the minion's own come first
    (IF Base \in ToSet(envs) THEN <<MinionEnv>> ELSE <<>>) \o FlattenSeq([i \in DOMAIN envs |-> LayersOf(envs[i])])
Layers(envs) ==
    FlattenSeq([i \in DOMAIN envs |-> LayersOf(envs[i])])
        \o (IF Base \in ToSet(envs) THEN <<MinionEnv>> ELSE <<>>)

\* What jobs ask for is base and the task; a master may ask for a collection.
PillarEnvs == {<<Base>>, <<Base, CollectionEnv("below")>>} \cup {<<Base, TaskEnv(t)>> : t \in created}

get_merged(envs) ==
    /\ ~reading.on
    /\ reading' = [on |-> TRUE, left |-> Layers(envs), asked |-> ToSet(envs), got |-> <<>>,
                   held |-> {<<p.env, p.name>> : p \in pillars}, had |-> pillars]
    /\ UNCHANGED <<pillars, templates, removed, created, writer, writes>>
ReadLayer ==
    /\ reading.left # <<>>
    /\ LET found == {p \in pillars : p.env = Head(reading.left)}
           names == {p.name : p \in found}
       IN  reading' = [reading EXCEPT !.left = Tail(@),
               !.got = [n \in names \cup DOMAIN @ |->
                            IF n \in names THEN (CHOOSE p \in found : p.name = n).value ELSE @[n]]]
    /\ UNCHANGED <<pillars, templates, removed, created, writer, writes>>
Answer ==
    /\ reading.on /\ reading.left = <<>>
    /\ reading' = NotReading
    /\ UNCHANGED <<pillars, templates, removed, created, writer, writes>>

PillarsNext ==
    \/ \E env \in Shown, n \in PillarNames, v \in PillarValues : create(env, n, v)
    \/ \E p \in pillars : delete(p) \/ \E v \in PillarValues : update(p, v)
    \/ \E t \in PillarTasks, tpl \in Templates, u \in Users, N \in SUBSET PillarNames,
          save \in BOOLEAN :
           \E given \in [N -> PillarValues \cup {Placeholder}] : CreateTask(t, tpl, u, given, save)
    \/ _save_templates_to_db \/ \E p \in Templates : delete_template(p)
    \/ (\E envs \in PillarEnvs : get_merged(envs)) \/ ReadLayer \/ Answer
PillarsSpec == PillarsInit /\ [][PillarsNext]_pillarVars
-----------------------------------------------------------------------------
\* How much an environment is about one minion: a collection's more than the
\* one above it, the minion's own "has the highest priority".
Rank(env) ==
    CASE env = Base -> 0 [] env = MinionEnv -> 4 [] env[1] = "task" -> 3
      [] env = CollectionEnv("below") -> 2 [] OTHER -> 1

\* The environments a request for some is about.
Concerned(E) ==
    E \cup (IF CollectionEnv("below") \in E THEN {CollectionEnv("top")} ELSE {})
      \cup (IF Base \in E THEN {MinionEnv} ELSE {})

\* A name that an environment asked for holds for as long as a master's request
\* is answered is in the answer, with a value that this one or one of a higher
\* rank had meanwhile: writes between the reads let no more general value win.
HeldIsGiven ==
    reading.on /\ reading.left = <<>> =>
        \A env \in Concerned(reading.asked) : \A n \in PillarNames :
            <<env, n>> \in reading.held =>
                /\ n \in DOMAIN reading.got
                /\ \E p \in reading.had : /\ p.env \in Concerned(reading.asked)
                                          /\ Rank(p.env) >= Rank(env)
                                          /\ p.name = n /\ p.value = reading.got[n]

\* "Remove all related pillars": a template that stays keeps the defaults users
\* have saved for it when others are removed from its source.
DefaultsStay ==
    [][\A p \in DefaultsOf(templates \cap templates') :
           p \in pillars' \/ writer' # "templates"]_pillarVars
=============================================================================

----------------------------- MODULE MCPlatform -----------------------------
(***************************************************************************)
(* Components for TLC, of which a behaviour has one at work while the      *)
(* others are as they began: the documents of policies over a collection,  *)
(* one below it and one beside it (PolicyQueues), the tree of collections, *)
(* masters, keys on them, what they are told of pillars, the files they    *)
(* read over SSHFS, the migration of extra data, and a task that goes over *)
(* its minions in batches (TaskLifespan).                                  *)
(***************************************************************************)
EXTENDS PolicyQueues, Collections, Masters, SaltKeys, Pillars, SshfsFiles, Migration, TLC

CONSTANTS
    p1, p2, p3, upper, lower, beside, nowhere,
    c1, c2, c3, e1, e2,
    s1, r1, r2

PolicyHome == (p1 :> {upper}) @@ (p2 :> {upper, lower}) @@ (p3 :> {upper, lower, beside})
CollectionParent == (upper :> nowhere) @@ (lower :> upper) @@ (beside :> nowhere)
CollectionOrders == {(upper :> 1) @@ (lower :> 0) @@ (beside :> o) : o \in 0..2}

VARIABLES
    at_work,   \* what is at work
    job, rstat, rcode, kiqRet, kiqErr, status, tm, reopened, old, owner, tgt, lost, rerun,
    wPc, wQueue, wTask, wPick, wActive, wNew, wRel, wk, errQ, toPc, toRet,
    rPc, rTask, rSet, ops, losses

batchVars == <<job, rstat, rcode, kiqRet, kiqErr, status, tm, reopened, old, owner, tgt, lost,
               rerun, wPc, wQueue, wTask, wPick, wActive, wNew, wRel, wk, errQ, toPc, toRet,
               rPc, rTask, rSet, ops, losses>>
Parts == {"policies", "collections", "masters", "keys", "pillars", "files", "migration", "batches"}

Batch == INSTANCE TaskLifespan WITH
    Jids <- 1..3, TaskJobs <- 1..3, SystemJobs <- {}, Minions <- {"m1", "m2"},
    Tasks <- {"t"}, StateApply <- {}, TtlTasks <- {}, BatchSize <- 1, MaxJobs <- 1,
    MaxRetries <- 1, LateAnswers <- FALSE, SlowJobs <- FALSE, MaxUserOps <- 0, MaxLosses <- 0

\* Nodes and editors are alike: a tree at first is one in which collections come
\* after those they depend on, and an edit is made by the first editor that is free.
NodeOrder == <<c1, c2, c3>>
Numbered == \A i \in 1..3 :
    /\ Edges(tree)[NodeOrder[i]] \subseteq {NodeOrder[k] : k \in 1..(i - 1)}
    /\ tree[NodeOrder[i]].there => \A k \in 1..(i - 1) : tree[NodeOrder[k]].there
FreeEditors == {e \in {IF edit[e1].op = "none" THEN e1 ELSE e2} :
                   edit[e].op = "none" /\ edits < MaxEdits}

\* Sources are alike, and so are requests of users, and versions but for the one that
\* URLs serve first; of the changes and the requests that bounds allow, three are made.
FilesMayGo == uploads + changes < 3
FirstBox(b) == changes = 0 => b = s1
FreeRequest == IF upload[r1].at = "idle" THEN r1 ELSE r2
\* Values of pillars are alike.
FirstValue == CHOOSE v \in PillarValues : TRUE

NoCollections ==
    /\ tree = [c \in Nodes |-> NoCollection] /\ edit = [e \in Editors |-> NoEdit]
    /\ skewed = FALSE /\ edits = 0
NoPolicies ==
    /\ docs = <<>> /\ collOf = [p \in Policies |-> None] /\ needs = [p \in Policies |-> {}]
    /\ weight = [p \in Policies |-> 0] /\ order = [c \in Collections |-> 0]
NoMigration ==
    /\ fields = <<>> /\ minion_fields = {} /\ static = [m \in MinionDocs |-> <<>>]
    /\ stored = [r \in RecordIds |-> NoRecord] /\ at = "fields" /\ types = <<>> /\ batch = {}
    /\ seen = 0 /\ merge = NoMerge /\ was = <<>>
    /\ doubled = {} /\ overwritten = {} /\ stops = 0
NoPillars == PillarsInit /\ pillars = {} /\ templates = {}

PlatformInit ==
    /\ at_work \in Parts
    /\ MastersInit /\ KeysInit /\ FilesInit /\ (\A u \in Urls : net[u] = 1) /\ Batch!Init
    /\ IF at_work = "policies" THEN Init ELSE NoPolicies
    /\ IF at_work = "collections" THEN CollectionsInit /\ Numbered ELSE NoCollections
    /\ IF at_work = "migration" THEN MigrationInit ELSE NoMigration
    /\ IF at_work = "pillars"
       THEN PillarsInit /\ \A p \in pillars : p.value = FirstValue ELSE NoPillars

\* A part is at work, and all the others stay as they are.
At(part) ==
    /\ at_work = part /\ UNCHANGED at_work
    /\ IF part = "policies" THEN TRUE ELSE UNCHANGED vars
    /\ IF part = "collections" THEN TRUE ELSE UNCHANGED collectionsVars
    /\ IF part = "masters" THEN TRUE ELSE UNCHANGED mastersVars
    /\ IF part = "keys" THEN TRUE ELSE UNCHANGED keysVars
    /\ IF part = "pillars" THEN TRUE ELSE UNCHANGED pillarVars
    /\ IF part = "files" THEN TRUE ELSE UNCHANGED filesVars
    /\ IF part = "migration" THEN TRUE ELSE UNCHANGED migrationVars
    /\ IF part = "batches" THEN TRUE ELSE UNCHANGED batchVars

PlatformNext ==
    \/ /\ At("policies")
       /\ \E p \in Policies, c \in Collections, w \in Weights, R \in SUBSET Policies :
              CreatePolicy(p, c, w, R)
    \/ At("policies") /\ \E p \in Policies, R \in SUBSET Policies : SetRequirements(p, R)
    \/ At("policies") /\ \E p \in Policies, w \in Weights : SetWeight(p, w)
    \/ At("collections") /\ \E e \in FreeEditors : create_collection(e)
    \/ At("collections") /\ \E e \in FreeEditors : update_by_slug(e)
    \/ At("collections") /\ \E e \in FreeEditors : move(e)
    \/ At("collections") /\ \E e \in FreeEditors : delete_by_slug(e)
    \/ At("collections") /\ \E e \in Editors : Commit(e)
    \/ At("collections") /\ \E e \in Editors : Abort(e)
    \/ At("masters") /\ \E m \in MasterIds : Rekey(m)
    \/ At("masters") /\ \E m \in MasterIds : auth(m)
    \/ At("masters") /\ \E m \in MasterIds : WriteKeys(m)
    \/ At("masters") /\ \E m \in MasterIds : sync_saltbox_done(m)
    \/ At("masters") /\ \E m \in MasterIds : WriteSynced(m)
    \/ At("masters") /\ \E m \in MasterIds : accept(m)
    \/ At("masters") /\ \E m \in MasterIds : reject(m)
    \/ At("masters") /\ \E m \in MasterIds : LoseMessage(m)
    \/ At("masters") /\ notify_accepted_masters_on_repos_update
    \/ At("migration") /\ MigrationNext
    \/ At("keys") /\ KeysNext
    \/ At("pillars") /\ PillarsNext
    \/ At("batches") /\ Batch!Next
    \/ At("files") /\ \E u \in Urls : FilesMayGo /\ NewVersion(u)
    \/ At("files") /\ \E b \in Boxes : FilesMayGo /\ FirstBox(b) /\ NewManifest(b)
    \/ At("files") /\ \E b \in Boxes : _save_sshfs_files_from_manifest(b)
    \/ At("files") /\ \E b \in Boxes : RemoveOutdated(b)
    \/ At("files") /\ \E b \in Boxes : DropOutdated(b)
    \/ At("files") /\ \E b \in Boxes : CreateFile(b)
    \/ At("files") /\ \E b \in Boxes : Download(b)
    \/ At("files") /\ \E b \in Boxes : WriteDownload(b)
    \/ At("files") /\ \E b \in Boxes : Move(b)
    \/ At("files") /\ \E b \in Boxes : Record(b)
    \/ At("files") /\ \E b \in Boxes : Crash(b)
    \/ At("files") /\ FilesMayGo /\ add_file_to_source(FreeRequest)
    \/ At("files") /\ FilesMayGo /\ delete_source_file(FreeRequest)
    \/ At("files") /\ \E r \in Uploaders : Fetch(r)
    \/ At("files") /\ \E r \in Uploaders : Save(r)
    \/ At("files") /\ \E r \in Uploaders : RecordUpload(r)
    \/ At("files") /\ \E r \in Uploaders : RemoveUpload(r)
    \/ At("files") /\ \E r \in Uploaders : DropUpload(r)
    \/ At("files") /\ \E r \in Uploaders : CrashRequest(r)

PlatformSpec ==
    /\ PlatformInit
    /\ [][PlatformNext]_<<at_work, vars, collectionsVars, mastersVars, keysVars, pillarVars, filesVars,
                          migrationVars, batchVars>>

\* Every variable of what is at work keeps its type.
TypeOK == /\ at_work = "collections" => CollectionsTypeOK
          /\ at_work = "masters" => MastersTypeOK
          /\ at_work = "migration" => MigrationTypeOK
          /\ at_work = "keys" => KeysTypeOK
          /\ at_work = "pillars" => PillarsTypeOK
          /\ at_work = "files" => FilesTypeOK
          /\ at_work = "batches" => Batch!TypeOK

\* A task that is cut into batches of one minion, of which one may be in work, is
\* finished when every minion has had its turn, and never has two jobs at once.
BatchesAreComplete ==
    at_work = "batches" => Batch!ActiveJobsBounded /\ Batch!FinishedIsComplete
=============================================================================

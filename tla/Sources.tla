------------------------------ MODULE Sources ------------------------------
(***************************************************************************)
(* Task template sources: what the taskiq workers and the API process do   *)
(* to a source's document, its templates and manifest files in the         *)
(* database, its local directory, the directory served to the masters and  *)
(* SSHFS, each under the source's Redis lock or, on some paths, without.   *)
(* A worker runs a program: the sequence of steps of its task.  A tree's   *)
(* content is its version: 0 absent, 1 empty, 2 and more what upstream (or *)
(* a local edit) made of it.  A read and the write after it are one step   *)
(* unless another actor may come between them to an effect.                *)
(***************************************************************************)
EXTENDS Naturals, Sequences, FiniteSets, TLC

CONSTANTS
    Srcs, Workers,
    Kinds,         \* the types of source there are in the run
    Tasks,         \* the tasks that are asked for in the run
    SharedRoot,    \* sources whose trees have a top-level directory in common
    MaxVersion,    \* bound: versions of a tree
    MaxRequests,   \* bound: requests of users
    MaxFaults      \* bound: failed operations, crashes and expired locks

SourceType == {"git", "mounted", "archive", "local"}

TaskNames == {"discover", "plug", "unplug", "sync", "remove", "create", "update", "delete",
              "external", "mounted", "upload", "check", "check_archive", "apply", "apply_archive"}

ASSUME SourcesAssumption ==
    /\ Srcs # {} /\ Workers # {} /\ Workers \cap {"free", "dead"} = {}
    /\ Kinds \subseteq SourceType /\ Tasks \subseteq TaskNames /\ SharedRoot \subseteq Srcs
    /\ MaxVersion \in Nat \ {0, 1} /\ MaxRequests \in Nat /\ MaxFaults \in Nat

VARIABLES
    src,       \* source -> its document, its templates, files and directories
    served,    \* source -> version of its tree in salt_modules_serve_dir
    lock,      \* source -> lock:template_source:<id>
    job,       \* worker -> the source, what is left of its program, what it read
    raced,     \* history: sources two actors have worked on at once
    torn,      \* history: sources of which a removal failed half-way
    requests, faults   \* what the bounds count

vars == <<src, served, lock, job, raced, torn, requests, faults>>

SourceState == {"none", "pending", "discovered", "plugged", "active", "broken"}
SourceOperation == {"none", "discover", "prepare_templates", "prepare_files", "sync",
                    "unplug", "remove", "add_template_from_raw",
                    "delete_local_template", "add_user_file"}
Versions == 0..MaxVersion

\* tpls and file are the versions the templates and the manifest files in the
\* database were read from, synced their synced_on_sshfs, onSshfs what is there.
\* ext is the archive unpacked for a check, token the answer of the last check.
NewSource == [type |-> "none", state |-> "none", op |-> "none", dir |-> 0, tpls |-> 0,
              file |-> 0, synced |-> FALSE, onSshfs |-> FALSE, upstream |-> 2,
              ext |-> 0, token |-> <<>>]
Document == [type : SourceType \cup {"none"}, state : SourceState, op : SourceOperation,
             dir : Versions, tpls : Versions, file : Versions, synced : BOOLEAN,
             onSshfs : BOOLEAN, upstream : Versions, ext : Versions, token : Seq(Versions)]
-----------------------------------------------------------------------------
(* The tasks as programs, run under the lock but for Unlocked.  Discover,  *)
(* Prepare and Sync are the orchestrator's operations that several call.   *)
Discover == <<"begin", "fetch", "save", "files">>
Prepare  == <<"paths", "serve", "pull">>
Sync     == <<"notify", "reply">>
Remove   == <<"count", "erase", "drop">>

source_discover_task == Discover
source_prepare_task  == Prepare
source_unplug_task   == <<"unserve", "unplugged">>
source_sync_task     == Prepare \o Sync
source_remove_task   == Remove
create_tpl_from_raw_task   == <<"create">>
update_tpl_from_raw_task   == <<"edit">> \o Discover
delete_local_template_task == <<"edit">> \o Discover
source_check_external_list_task  == <<"refresh">> \o Discover
source_update_check_git_task     == <<"compare">>
source_update_check_archive_task == <<"unpack", "compare">>
source_update_apply_git_task     == <<"guard">> \o Discover \o Prepare \o Sync
source_update_apply_archive_task == <<"guard", "promote">> \o Discover \o Prepare \o Sync

Program(task) ==
    CASE task = "discover" -> source_discover_task
      [] task = "plug"     -> source_prepare_task
      [] task = "unplug"   -> source_unplug_task
      [] task = "sync"     -> source_sync_task
      [] task = "remove"   -> source_remove_task
      [] task = "create"   -> create_tpl_from_raw_task
      [] task = "update"   -> update_tpl_from_raw_task
      [] task = "delete"   -> delete_local_template_task
      [] task = "external" -> source_check_external_list_task
      [] task = "mounted"  -> Discover        \* in the API process
      [] task = "upload"   -> <<"receive", "place">>    \* in the API process
      [] task = "check"    -> source_update_check_git_task
      [] task = "check_archive" -> source_update_check_archive_task
      [] task = "apply"    -> source_update_apply_git_task
      [] task = "apply_archive" -> source_update_apply_archive_task

InApi    == {"mounted", "upload"}
Unlocked == InApi \cup {"external"}

Idle == [phase |-> "idle", task |-> "none", src |-> "none",
         prog |-> <<>>, list |-> {}, token |-> <<>>]
Start(s, task, prog) ==
    [phase |-> IF task \in Unlocked THEN "in" ELSE "check", task |-> task, src |-> s,
     prog |-> prog, list |-> {}, token |-> src[s].token]
\* The workers that work on the source.
On(s) == {w \in Workers : job[w].phase = "in" /\ job[w].src = s}
\* Those of them, but for w, whose step overlaps what w begins.
Overlap(s, task) == IF task \in Unlocked THEN On(s)
                                         ELSE {v \in On(s) : job[v].task \in Unlocked}
Meet(s, task) == IF Overlap(s, task) = {} THEN raced ELSE raced \cup {s}

TypeOK ==
    /\ src \in [Srcs -> Document]
    /\ served \in [Srcs -> Versions]
    /\ lock \in [Srcs -> Workers \cup {"free", "dead"}]
    /\ \A w \in Workers : /\ job[w].phase \in {"idle", "check", "lock", "in"}
                          /\ job[w].src \in Srcs \cup {"none"} /\ job[w].list \subseteq Srcs
    /\ raced \subseteq Srcs /\ torn \subseteq Srcs
    /\ requests \in 0..MaxRequests /\ faults \in 0..MaxFaults

\* A source that was imported and discovered before the run.
Discovered(k) == [NewSource EXCEPT !.type = k, !.state = "discovered", !.dir = 2, !.tpls = 2,
                                   !.file = IF k \in {"git", "mounted"} THEN 2 ELSE 0]

Init ==
    /\ src \in [Srcs -> {NewSource} \cup {Discovered(k) : k \in Kinds}]
    /\ served = [s \in Srcs |-> 0]
    /\ lock = [s \in Srcs |-> "free"]
    /\ job = [w \in Workers |-> Idle]
    /\ raced = {} /\ torn = {} /\ requests = 0 /\ faults = 0
-----------------------------------------------------------------------------
(* How a step ends.  A program that ends leaves `async with lock`: the     *)
(* release raises when the lock is not this worker's any more, and frees   *)
(* nobody else's.                                                          *)
Release(w, s) == [lock EXCEPT ![s] = IF @ = w THEN "free" ELSE @]

Goto(w, prog) ==
    /\ job' = [job EXCEPT ![w] = IF prog = <<>> THEN Idle ELSE [@ EXCEPT !.prog = prog]]
    /\ lock' = IF prog = <<>> THEN Release(w, job[w].src) ELSE lock

Rest(w) == Tail(job[w].prog)
At(w, step) == job[w].phase = "in" /\ Head(job[w].prog) = step
Set(s, x) == src' = [src EXCEPT ![s] = x]
Doc(w) == src[job[w].src]
Exists(s) == src[s].state # "none"
\* get() and update() of a document that is not there raise.
AtLive(w, step) == At(w, step) /\ Exists(job[w].src)

Gone(w) ==
    /\ job[w].phase = "in" /\ Head(job[w].prog) # "serve" /\ ~Exists(job[w].src)
    /\ Goto(w, <<>>)
    /\ UNCHANGED <<src, served, raced, torn, requests, faults>>
-----------------------------------------------------------------------------
(* The lock: lock.locked() ends the task, `async with lock` then waits.    *)
CheckLock(w) ==
    /\ job[w].phase = "check"
    /\ job' = [job EXCEPT ![w] = IF lock[@.src] = "free" THEN [@ EXCEPT !.phase = "lock"]
                                                        ELSE Idle]
    /\ UNCHANGED <<src, served, lock, raced, torn, requests, faults>>

Acquirable_Checked(s) == TRUE        \* mutant: locked() was asked, that is enough
Acquirable(s) == lock[s] = "free"

Acquire(w) ==
    LET s == job[w].src IN
    /\ job[w].phase = "lock" /\ Acquirable(s)
    /\ lock' = [lock EXCEPT ![s] = w]
    /\ job' = [job EXCEPT ![w].phase = "in"]
    /\ raced' = Meet(s, job[w].task)
    /\ UNCHANGED <<src, served, torn, requests, faults>>

\* The ttl of a lock passes whose holder crashed, or works on.
Expire(s) ==
    /\ lock[s] = "dead"
    /\ lock' = [lock EXCEPT ![s] = "free"]
    /\ UNCHANGED <<src, served, job, raced, torn, requests, faults>>

Overrun(s) ==
    /\ lock[s] \in Workers /\ faults < MaxFaults
    /\ lock' = [lock EXCEPT ![s] = "free"]
    /\ raced' = raced \cup {s}
    /\ faults' = faults + 1
    /\ UNCHANGED <<src, served, job, torn, requests>>

\* A worker dies: its message is delivered again and the task starts anew.
\* A request of the API process is not made again.
Crash(w) ==
    LET s == job[w].src  t == job[w].task IN
    /\ job[w].phase # "idle" /\ faults < MaxFaults
    /\ job' = [job EXCEPT ![w] =
                  IF t \in InApi THEN Idle
                  ELSE [Start(s, t, Program(t)) EXCEPT !.token = job[w].token]]
    /\ lock' = [lock EXCEPT ![s] = IF @ = w THEN "dead" ELSE @]
    /\ torn' = IF At(w, "drop") THEN torn \cup {s} ELSE torn
    /\ faults' = faults + 1
    /\ UNCHANGED <<src, served, raced, requests>>
-----------------------------------------------------------------------------
(* Users and lists of repositories: what starts a program.                 *)
Kiq(w, s, task, prog) ==
    /\ job[w].phase = "idle" /\ requests < MaxRequests
    /\ job' = [job EXCEPT ![w] = Start(s, task, prog)]
    /\ raced' = IF task \in Unlocked THEN Meet(s, task) ELSE raced
    /\ requests' = requests + 1
    /\ UNCHANGED <<served, lock, torn, faults>>

New(w, s, type, dir, task) ==
    /\ type \in Kinds /\ src[s].type = "none"
    /\ Set(s, [src[s] EXCEPT !.type = type, !.state = "pending", !.dir = dir,
                             !.op = IF type = "archive" THEN "none" ELSE "discover"])
    /\ Kiq(w, s, task, Discover)

source_create_local(w, s)    == New(w, s, "local", 0, "discover")
source_import_from_git(w, s) == New(w, s, "git", 0, "discover")
create_sources_from_gitlab(w, s)  == "external" \in Tasks /\ New(w, s, "git", 0, "external")
create_sources_from_mounted(w, s) == New(w, s, "mounted", 0, "mounted")
\* The tree of an upload, whose root is stripped.  One that does not unpack leaves no source.
save_and_unpack_archive(s) == src[s].upstream
source_import_from_archive(w, s) ==
    New(w, s, "archive", save_and_unpack_archive(s), "discover")

\* A task that a source's type refuses ends without a trace.
Suits(task, type) ==
    CASE task \in {"check", "apply", "external"} -> type = "git"
      [] task \in {"check_archive", "apply_archive"} -> type = "archive"
      [] task = "delete" -> type \in {"local", "archive"}
      [] task = "mounted" -> FALSE
      [] OTHER -> TRUE

source_action(w, s, task) ==
    /\ src[s].type # "none" /\ Suits(task, src[s].type)
    /\ Kiq(w, s, task, Program(task)) /\ UNCHANGED src

\* A new commit, a new archive or a changed mounted repository.
Publish(s) ==
    /\ src[s].state # "none" /\ src[s].type # "local" /\ src[s].upstream < MaxVersion
    /\ Set(s, [src[s] EXCEPT !.upstream = @ + 1])
    /\ UNCHANGED <<served, lock, job, raced, torn, requests, faults>>
-----------------------------------------------------------------------------
(* A step fails: the source is broken, its operation stays, the task ends. *)
Others == <<served, raced, torn, requests>>
Step(w, x, prog) ==
    /\ Set(job[w].src, x) /\ Goto(w, prog)
    /\ UNCHANGED <<Others, faults>>
Broken(x) == [x EXCEPT !.state = "broken"]
Breaks(w, x) == Step(w, Broken(x), <<>>)

MayFail == {"fetch", "save", "files", "serve", "pull", "reply", "unplugged", "drop",
            "create", "place"}
Fail(w) ==
    LET s == job[w].src IN
    /\ \E step \in MayFail : AtLive(w, step)
    /\ faults < MaxFaults /\ faults' = faults + 1
    /\ Set(s, Broken(src[s])) /\ Goto(w, <<>>)
    /\ torn' = IF At(w, "drop") THEN torn \cup {s} ELSE torn
    /\ UNCHANGED <<served, raced, requests>>

\* A clone that fails in the discover task removes the source.
CloneFails(w) ==
    LET s == job[w].src IN
    /\ AtLive(w, "fetch") /\ src[s].type = "git" /\ src[s].dir = 0
    /\ job[w].task = "discover"
    /\ faults < MaxFaults /\ faults' = faults + 1
    /\ Set(s, Broken(src[s])) /\ Goto(w, Remove)
    /\ UNCHANGED Others
-----------------------------------------------------------------------------
(* discover: fetch, parse, save, manifest.                                 *)
BeginDiscover(w) ==
    LET s == job[w].src IN
    /\ AtLive(w, "begin")
    /\ IF src[s].state = "discovered"
       THEN Step(w, src[s], SubSeq(job[w].prog, Len(Discover) + 1, Len(job[w].prog)))
       ELSE Step(w, [src[s] EXCEPT !.op = "discover"], Rest(w))

\* A pull keeps local edits; mkdir and copytree keep what is there.
Fetched(x) ==
    IF x.type \in {"git", "mounted"} /\ x.upstream > x.dir THEN x.upstream
    ELSE IF x.dir = 0 THEN 1 ELSE x.dir

Fetch(w) ==
    AtLive(w, "fetch") /\ Step(w, [Doc(w) EXCEPT !.dir = Fetched(Doc(w))], Rest(w))

SaveTemplates(w) ==
    LET x == Doc(w) IN
    /\ AtLive(w, "save")
    /\ IF x.dir = 0 THEN Breaks(w, x) ELSE Step(w, [x EXCEPT !.tpls = x.dir], Rest(w))

\* Only git and mounted trees have a manifest loaded; a changed file is
\* deleted, on SSHFS too, and its record made anew.
ManifestFiles(x) ==
    IF x.type \in {"git", "mounted"} /\ x.file # x.dir
    THEN [x EXCEPT !.file = x.dir, !.synced = FALSE, !.onSshfs = FALSE]
    ELSE x

SaveFiles(w) ==
    /\ AtLive(w, "files")
    /\ Step(w, [ManifestFiles(Doc(w)) EXCEPT !.state = "discovered", !.op = "none"], Rest(w))
-----------------------------------------------------------------------------
(* prepare: the local paths, the list of sources to serve, rsync, files.   *)
_serve_templates_to_serve_dir(s) ==
    {s} \cup {t \in Srcs : src[t].state \in {"plugged", "active"}}
PreparePaths(w) ==
    LET s == job[w].src IN
    /\ AtLive(w, "paths")
    /\ IF src[s].dir = 0
       THEN Breaks(w, [src[s] EXCEPT !.op = "prepare_templates"])
       ELSE /\ Set(s, [src[s] EXCEPT !.op = "prepare_templates"])
            /\ job' = [job EXCEPT ![w].prog = Tail(@), ![w].list =
                          _serve_templates_to_serve_dir(s)]
            /\ UNCHANGED <<lock, Others, faults>>

\* rsync --delete of the trees of the list that exist; then the document
\* is written, which raises when it is gone.
Serve(w) ==
    LET s == job[w].src IN
    /\ At(w, "serve")
    /\ served' = [t \in Srcs |-> IF t \in job[w].list THEN src[t].dir ELSE 0]
    /\ IF Exists(s) THEN Set(s, [src[s] EXCEPT !.op = "prepare_files"]) /\ Goto(w, Rest(w))
                    ELSE Goto(w, <<>>) /\ UNCHANGED src
    /\ UNCHANGED <<raced, torn, requests, faults>>

\* Files of records that are not synced; those of a mounted source are
\* looked for, the others downloaded.  Errors: Fail.
PullFiles_ErrorsIgnored(w) ==          \* mutant: sync_file_errors are not looked at
    AtLive(w, "pull") /\ Step(w, [Doc(w) EXCEPT !.state = "plugged", !.op = "none"], Rest(w))
Pulled(x) == IF x.file # 0 /\ ~x.synced
             THEN [x EXCEPT !.synced = TRUE, !.onSshfs = TRUE] ELSE x
PullFiles(w) ==
    /\ AtLive(w, "pull")
    /\ Step(w, [Pulled(Doc(w)) EXCEPT !.state = "plugged", !.op = "none"], Rest(w))
-----------------------------------------------------------------------------
(* sync: the accepted masters are told and answer.                         *)
Notify(w) ==
    LET x == Doc(w) IN
    /\ AtLive(w, "notify")
    /\ \/ x.dir = 0 /\ Breaks(w, x)
       \/ x.dir # 0 /\ Step(w, [x EXCEPT !.op = "sync"], Rest(w))
       \/ x.dir # 0 /\ Step(w, [x EXCEPT !.state = "plugged", !.op = "sync"], <<>>) \* no master

Answered(w) ==
    AtLive(w, "reply") /\ Step(w, [Doc(w) EXCEPT !.state = "active", !.op = "none"], Rest(w))
-----------------------------------------------------------------------------
(* unplug and remove_source.                                               *)
Unserve(w) ==
    LET s == job[w].src IN
    /\ AtLive(w, "unserve")
    /\ Set(s, [src[s] EXCEPT !.op = "unplug"]) /\ Goto(w, Rest(w))
    /\ served' = IF src[s].tpls = 0 THEN served ELSE [served EXCEPT ![s] = 0]
    /\ UNCHANGED <<raced, torn, requests, faults>>

Unplugged_Op(w) ==                     \* mutant: the operation is written as the state
    /\ AtLive(w, "unplugged")
    /\ Step(w, [Doc(w) EXCEPT !.state = "unplug", !.op = "none"], Rest(w))
Unplugged(w) ==
    /\ AtLive(w, "unplugged")
    /\ Step(w, [Doc(w) EXCEPT !.state = "discovered", !.op = "none"], Rest(w))

LastLocal(s) ==
    /\ src[s].type = "local"
    /\ Cardinality({t \in Srcs : src[t].type = "local" /\ Exists(t)}) = 1

CountLocal(w) ==
    LET s == job[w].src IN
    /\ AtLive(w, "count")
    /\ IF LastLocal(s) THEN Step(w, [src[s] EXCEPT !.state = "discovered", !.op = "none"], <<>>)
                       ELSE Step(w, [src[s] EXCEPT !.op = "remove"], Rest(w))

\* In the transaction that deletes the documents, what no abort undoes: the
\* files, the entries of serve_dir named as the tree's, the local directory.
Erase_ServedKept(w) ==                 \* mutant: serve_dir is left to the next rsync
    AtLive(w, "erase") /\ Step(w, [Doc(w) EXCEPT !.dir = 0, !.onSshfs = FALSE], Rest(w))
Erase(w) ==
    LET s == job[w].src IN
    /\ AtLive(w, "erase")
    /\ Set(s, [src[s] EXCEPT !.dir = 0, !.onSshfs = FALSE]) /\ Goto(w, Rest(w))
    /\ served' = [t \in Srcs |->
                    IF t = s \/ ({s, t} \subseteq SharedRoot /\ src[s].dir # 0) THEN 0
                    ELSE served[t]]
    /\ UNCHANGED <<raced, torn, requests, faults>>

Drop(w) ==
    /\ AtLive(w, "drop")
    /\ Step(w, [Doc(w) EXCEPT !.state = "none", !.op = "none", !.tpls = 0, !.file = 0,
                              !.synced = FALSE, !.token = <<>>], <<>>)
-----------------------------------------------------------------------------
(* Templates written by users, and their files.                            *)
CreateTemplate(w) ==
    LET x == Doc(w) IN
    /\ AtLive(w, "create")
    /\ \/ Step(w, [x EXCEPT !.op = "none"], <<>>)    \* the file exists already
       \/ /\ x.dir < MaxVersion
          /\ Step(w, [x EXCEPT !.state = "discovered", !.op = "none", !.dir = x.dir + 1,
                               !.tpls = x.dir + 1], Rest(w))

\* update_template_from_raw, delete_local_template: of a template there is.
EditOp(w) == IF job[w].task = "delete" THEN "delete_local_template" ELSE "none"

EditTemplate_StateKept(w) ==           \* mutant: the state is not put back to pending
    LET x == Doc(w) IN
    /\ AtLive(w, "edit")
    /\ IF x.tpls < 2 \/ x.dir = MaxVersion THEN Step(w, x, <<>>)
       ELSE Step(w, [x EXCEPT !.op = EditOp(w), !.dir = @ + 1], Rest(w))
EditTemplate(w) ==
    LET x == Doc(w) IN
    /\ AtLive(w, "edit")
    /\ IF x.tpls < 2 \/ x.dir = MaxVersion THEN Step(w, x, <<>>)
       ELSE Step(w, [x EXCEPT !.state = "pending", !.op = EditOp(w), !.dir = @ + 1], Rest(w))

\* A user's file is stored, and the source said to be plugged.
ReceiveFile(w) ==
    AtLive(w, "receive") /\ Step(w, [Doc(w) EXCEPT !.op = "add_user_file"], Rest(w))
PlaceFile(w) ==
    AtLive(w, "place") /\ Step(w, [Doc(w) EXCEPT !.state = "plugged", !.op = "none"], Rest(w))

\* A listed repository's source is fetched again, when it is discovered.
Refresh(w) ==
    /\ AtLive(w, "refresh")
    /\ IF Doc(w).state = "discovered" THEN Step(w, [Doc(w) EXCEPT !.state = "pending"], Rest(w))
                                      ELSE Step(w, Doc(w), <<>>)
-----------------------------------------------------------------------------
(* Updates in two requests: a check answers with a token, the apply task   *)
(* goes on only if the difference has still that token.                    *)
Token(x) == IF x.type = "git" THEN <<x.upstream>> ELSE <<x.dir, x.ext>>
Comparable(x) == IF x.type = "git" THEN x.dir # 0 ELSE x.ext # 0

Compare(w) ==
    LET x == Doc(w) IN
    /\ AtLive(w, "compare")
    /\ Step(w, IF Comparable(x) THEN [x EXCEPT !.token = Token(x)] ELSE x, Rest(w))

Unpack(w) ==
    LET x == Doc(w) IN AtLive(w, "unpack") /\ Step(w, [x EXCEPT !.ext = x.upstream], Rest(w))

Guard_Any(w) ==                        \* mutant: the token is not compared
    AtLive(w, "guard") /\ Step(w, Doc(w), IF Comparable(Doc(w)) THEN Rest(w) ELSE <<>>)
Guard(w) ==
    LET x == Doc(w) IN
    /\ AtLive(w, "guard")
    /\ Step(w, x, IF Comparable(x) /\ Token(x) = job[w].token THEN Rest(w) ELSE <<>>)

Promote(w) ==
    LET x == Doc(w) IN
    AtLive(w, "promote") /\ Step(w, [x EXCEPT !.dir = x.ext, !.ext = 0], Rest(w))
-----------------------------------------------------------------------------
Work(w) ==
    \/ CheckLock(w) \/ Acquire(w) \/ Gone(w)
    \/ BeginDiscover(w) \/ Fetch(w) \/ SaveTemplates(w) \/ SaveFiles(w)
    \/ PreparePaths(w) \/ Serve(w) \/ PullFiles(w) \/ Notify(w) \/ Answered(w)
    \/ Unserve(w) \/ Unplugged(w) \/ CountLocal(w) \/ Erase(w) \/ Drop(w)
    \/ CreateTemplate(w) \/ EditTemplate(w) \/ ReceiveFile(w) \/ PlaceFile(w)
    \/ Refresh(w) \/ Compare(w) \/ Unpack(w) \/ Guard(w) \/ Promote(w)

Ask(w) ==
    \E s \in Srcs :
        \/ source_create_local(w, s) \/ source_import_from_git(w, s)
        \/ create_sources_from_gitlab(w, s) \/ create_sources_from_mounted(w, s)
        \/ source_import_from_archive(w, s)
        \/ \E task \in Tasks : source_action(w, s, task)

\* Every request that the bound allows is answered.
Done == /\ requests = MaxRequests /\ \A w \in Workers : job[w].phase = "idle"
        /\ UNCHANGED vars

Next ==
    \/ Done
    \/ \E w \in Workers : Work(w) \/ Ask(w) \/ Fail(w) \/ CloneFails(w) \/ Crash(w)
    \/ \E s \in Srcs : Publish(s) \/ Expire(s) \/ Overrun(s)

Spec == Init /\ [][Next]_vars
-----------------------------------------------------------------------------
\* Two actors work on a source at the same time only where one of them takes
\* no lock, or after the ttl of a lock passed under its holder.
Exclusive == \A s \in Srcs \ raced : \A v, w \in On(s) : v = w

\* A lock that does not wait for its ttl is held by a worker at work on its
\* source: no way out of a task, failed or not, leaves it locked.
LockIsHeld ==
    \A s \in Srcs : lock[s] \in Workers =>
        job[lock[s]].phase = "in" /\ job[lock[s]].src = s

\* Once a source is removed, nothing of it is left on any disk: no rsync with
\* a list read before the removal brings its tree back.
RemovedIsGone ==
    \A s \in Srcs \ (raced \cup torn) :
        src[s].state = "none" => src[s].dir = 0 /\ served[s] = 0 /\ ~src[s].onSshfs

\* An active source has its local tree, and its manifest's files on SSHFS.
ActiveIsComplete ==
    \A s \in Srcs \ (raced \cup torn) : LET x == src[s] IN
        x.state = "active" /\ x.op = "none" =>
            x.dir # 0 /\ (x.file # 0 => x.synced /\ x.onSshfs)

\* A user's edit that is done is in the database, unless the source broke: the
\* discovery that follows it is not skipped.
EditIsParsed ==
    [][\A w \in Workers : LET s == job[w].src IN
        /\ job[w].task \in {"update", "delete"} /\ job[w].phase = "in"
        /\ Len(job[w].prog) <= Len(Discover) /\ job'[w].phase = "idle" /\ s \notin raced'
        => src'[s].state \in {"broken", "none"} \/ src'[s].tpls = src'[s].dir]_vars

\* An update is applied to what was checked: a token given for another
\* difference never lets the archive over the tree.
AppliedAsChecked ==
    [][\A w \in Workers : LET s == job[w].src IN
        At(w, "promote") /\ job'[w] # job[w] /\ s \notin raced' /\ job'[w].phase = "in"
            /\ job[w].prog # job'[w].prog
        => job[w].token = <<src[s].dir, src'[s].dir>>]_vars
=============================================================================

--------------------------- MODULE Sources_proofs ---------------------------
(***************************************************************************)
(* For any number of sources, workers, requests, crashes and locks that    *)
(* expire.  First the locks: the lock of a source is held by the worker at *)
(* work on it and keeps two of them apart.  That depends only on how the   *)
(* programs begin and end, so that they stay unexpanded.  Then what the    *)
(* programs do to their source: as nobody else is at work on it, what a    *)
(* step found or did is still true at the next one, but for what raced.    *)
(***************************************************************************)
EXTENDS Sources, SequenceTheorems, TLAPS

Phases == {"idle", "check", "lock", "in"}
IsJob(j) ==
    /\ j = [phase |-> j.phase, task |-> j.task, src |-> j.src,
            prog |-> j.prog, list |-> j.list, token |-> j.token]
    /\ j.phase \in Phases
    /\ j.phase # "idle" => j.src \in Srcs

JobsAndLocks ==
    /\ job = [w \in Workers |-> job[w]]
    /\ \A w \in Workers : IsJob(job[w])
    /\ lock \in [Srcs -> Workers \cup {"free", "dead"}]

\* A task that takes no lock never waits for one.
WaitersLock ==
    \A w \in Workers : job[w].phase \in {"check", "lock"} => job[w].task \notin Unlocked

\* The converse of LockIsHeld, which Exclusive rests on: who works on a source
\* by a task that locks it has the lock, until its ttl passes.
WorkersLocked ==
    \A w \in Workers :
        /\ job[w].phase = "in" /\ job[w].task \notin Unlocked /\ job[w].src \notin raced
        => lock[job[w].src] = w

IInv == JobsAndLocks /\ WaitersLock /\ LockIsHeld /\ WorkersLocked /\ Exclusive

(* The ways in which a step changes the worker that takes it. *)
GoesOn(w) ==
    \E j : /\ IsJob(j) /\ j.phase = "in" /\ j.task = job[w].task /\ j.src = job[w].src
           /\ job' = [job EXCEPT ![w] = j] /\ lock' = lock /\ raced' = raced
Ends(w) ==
    /\ job' = [job EXCEPT ![w] = Idle] /\ lock' = Release(w, job[w].src) /\ raced' = raced

\* The steps of the programs.
ProgramStep(w) ==
    \/ Gone(w) \/ BeginDiscover(w) \/ Fetch(w) \/ SaveTemplates(w) \/ SaveFiles(w)
    \/ PreparePaths(w) \/ Serve(w) \/ PullFiles(w) \/ Notify(w) \/ Answered(w)
    \/ Unserve(w) \/ Unplugged(w) \/ CountLocal(w) \/ Erase(w) \/ Drop(w)
    \/ CreateTemplate(w) \/ EditTemplate(w) \/ ReceiveFile(w) \/ PlaceFile(w)
    \/ Refresh(w) \/ Compare(w) \/ Unpack(w) \/ Guard(w) \/ Promote(w)
    \/ Fail(w) \/ CloneFails(w)
-----------------------------------------------------------------------------
\* An idle worker is a job as any other.
LEMMA IdleIsJob == IsJob(Idle)
  BY DEF IsJob, Idle, Phases

\* Init: nobody works on anything, every lock is free.
LEMMA InitIInv == Init => IInv
<1> SUFFICES ASSUME Init PROVE IInv
  OBVIOUS
<1>1. \A w \in Workers : job[w] = Idle /\ job[w].phase = "idle"
  BY DEF Init, Idle
<1>2. \A s \in Srcs : lock[s] = "free" /\ "free" \notin Workers
  BY SourcesAssumption DEF Init
<1>3. JobsAndLocks
  BY <1>1, IdleIsJob DEF Init, JobsAndLocks
<1> QED
  BY <1>1, <1>2, <1>3 DEF IInv, WaitersLock, LockIsHeld, WorkersLocked, Exclusive, On

\* Goto leaves a worker at work on what it worked on, or releases the lock.
LEMMA GotoGoesOnOrEnds ==
  ASSUME JobsAndLocks, NEW w \in Workers, job[w].phase = "in", NEW prog,
         Goto(w, prog), raced' = raced
  PROVE  GoesOn(w) \/ Ends(w)
<1>1. CASE prog = <<>>
  BY <1>1 DEF Goto, Ends
<1>2. CASE prog # <<>>
  <2> DEFINE j == [job[w] EXCEPT !.prog = prog]
  <2>1. job' = [job EXCEPT ![w] = j] /\ lock' = lock
    BY <1>2 DEF Goto
  <2>2. IsJob(job[w])
    BY DEF JobsAndLocks
  <2>3. j = [phase |-> job[w].phase, task |-> job[w].task, src |-> job[w].src,
             prog |-> prog, list |-> job[w].list, token |-> job[w].token]
    BY <2>2 DEF IsJob
  <2>4. IsJob(j) /\ j.phase = "in" /\ j.task = job[w].task /\ j.src = job[w].src
    BY <2>2, <2>3 DEF IsJob
  <2> QED
    BY <2>1, <2>4 DEF GoesOn
<1> QED
  BY <1>1, <1>2

\* So does every step of every program, whatever it does to the source.
LEMMA ProgramStepGoesOnOrEnds ==
  ASSUME JobsAndLocks, NEW w \in Workers, ProgramStep(w)
  PROVE  job[w].phase = "in" /\ (GoesOn(w) \/ Ends(w))
<1>1. CASE PreparePaths(w)
  <2>1. job[w].phase = "in" /\ raced' = raced
    BY <1>1 DEF PreparePaths, AtLive, At, Breaks, Step, Others
  <2>2. CASE src[job[w].src].dir = 0
    <3>1. Goto(w, <<>>)
      BY <1>1, <2>2, Zenon DEF PreparePaths, Breaks, Step
    <3> QED
      BY <2>1, <3>1, GotoGoesOnOrEnds
  <2>3. CASE src[job[w].src].dir # 0
    <3>1. PICK list, j :
              /\ j = [job[w] EXCEPT !.prog = Tail(@), !.list = list]
              /\ job' = [job EXCEPT ![w] = j] /\ lock' = lock
      BY <1>1, <2>3 DEF PreparePaths, JobsAndLocks, IsJob
    <3>2. IsJob(job[w])
      BY DEF JobsAndLocks
    <3>3. j = [phase |-> job[w].phase, task |-> job[w].task, src |-> job[w].src,
               prog |-> Tail(job[w].prog), list |-> list, token |-> job[w].token]
      BY <3>1, <3>2 DEF IsJob
    <3>4. IsJob(j) /\ j.phase = "in" /\ j.task = job[w].task /\ j.src = job[w].src
      BY <2>1, <3>2, <3>3 DEF IsJob
    <3> QED
      BY <2>1, <3>1, <3>4 DEF GoesOn
  <2> QED
    BY <2>1, <2>2, <2>3
<1>2. CASE ProgramStep(w) /\ ~PreparePaths(w)
  <2>1. job[w].phase = "in" /\ raced' = raced
    BY <1>2 DEF ProgramStep, Gone, BeginDiscover, Fetch, SaveTemplates, SaveFiles, Serve,
       PullFiles, Notify, Answered, Unserve, Unplugged, CountLocal, Erase, Drop,
       CreateTemplate, EditTemplate, ReceiveFile, PlaceFile, Refresh, Compare, Unpack,
       Guard, Promote, Fail, CloneFails, AtLive, At, Breaks, Step, Others
  <2>2. \E prog : Goto(w, prog)
    BY <1>2 DEF ProgramStep, Gone, BeginDiscover, Fetch, SaveTemplates, SaveFiles, Serve,
       PullFiles, Notify, Answered, Unserve, Unplugged, CountLocal, Erase, Drop,
       CreateTemplate, EditTemplate, ReceiveFile, PlaceFile, Refresh, Compare, Unpack,
       Guard, Promote, Fail, CloneFails, Breaks, Step
  <2> QED
    BY <2>1, <2>2, GotoGoesOnOrEnds
<1> QED
  BY <1>1, <1>2

\* A worker that goes on keeps its lock and its source.
LEMMA GoesOnKeepsIInv ==
  ASSUME IInv, NEW w \in Workers, job[w].phase = "in", GoesOn(w)
  PROVE  IInv'
<1> USE DEF IInv
<1> PICK j : /\ IsJob(j) /\ j.phase = "in" /\ j.task = job[w].task /\ j.src = job[w].src
             /\ job' = [job EXCEPT ![w] = j] /\ lock' = lock /\ raced' = raced
  BY DEF GoesOn
<1>1. job' = [v \in Workers |-> IF v = w THEN j ELSE job[v]]
  BY DEF JobsAndLocks
<1>2. \A v \in Workers : /\ job'[v].phase = job[v].phase /\ job'[v].task = job[v].task
                         /\ job'[v].src = job[v].src
  BY <1>1
<1>3. JobsAndLocks'
  BY <1>1 DEF JobsAndLocks, IsJob
<1>4. \A s \in Srcs : On(s)' = On(s)
  BY <1>2 DEF On
<1> QED
  BY <1>2, <1>3, <1>4 DEF WaitersLock, LockIsHeld, WorkersLocked, Exclusive

\* A worker that ends releases its own lock, and no other.
LEMMA EndsKeepsIInv ==
  ASSUME IInv, NEW w \in Workers, job[w].phase = "in", Ends(w)
  PROVE  IInv'
<1> USE DEF IInv
<1>0. job[w].src \in Srcs /\ Idle.phase = "idle" /\ "free" \notin Workers
  BY SourcesAssumption DEF JobsAndLocks, IsJob, Idle
<1>1. job' = [v \in Workers |-> IF v = w THEN Idle ELSE job[v]]
  BY DEF Ends, JobsAndLocks
<1>2. \A s \in Srcs : lock'[s] = IF s = job[w].src /\ lock[s] = w THEN "free" ELSE lock[s]
  BY <1>0 DEF Ends, Release, JobsAndLocks
<1>3. JobsAndLocks'
  BY <1>1, IdleIsJob DEF Ends, Release, JobsAndLocks, IsJob
<1>4. WaitersLock'
  BY <1>0, <1>1 DEF WaitersLock
<1>5. LockIsHeld'
  BY <1>0, <1>1, <1>2 DEF LockIsHeld, JobsAndLocks
<1>6. WorkersLocked'
  BY <1>0, <1>1, <1>2 DEF WorkersLocked, Ends, JobsAndLocks, IsJob
<1>7. Exclusive'
  BY <1>0, <1>1 DEF Exclusive, On, Ends
<1> QED
  BY <1>3, <1>4, <1>5, <1>6, <1>7

\* locked() was asked: the task waits for the lock, or ends.
LEMMA CheckLockKeepsIInv ==
  ASSUME IInv, NEW w \in Workers, CheckLock(w)
  PROVE  IInv'
<1> USE DEF IInv
<1> DEFINE waits == [job[w] EXCEPT !.phase = "lock"]
<1>0. IsJob(job[w]) /\ job[w].phase = "check" /\ Idle.phase = "idle"
  BY DEF CheckLock, JobsAndLocks, Idle
<1>1. waits = [phase |-> "lock", task |-> job[w].task, src |-> job[w].src,
               prog |-> job[w].prog, list |-> job[w].list, token |-> job[w].token]
  BY <1>0 DEF IsJob
<1>2. IsJob(waits) /\ waits.phase = "lock" /\ waits.task = job[w].task
  BY <1>0, <1>1 DEF IsJob, Phases
<1>3. PICK j \in {waits, Idle} : job' = [v \in Workers |-> IF v = w THEN j ELSE job[v]]
  BY DEF CheckLock, JobsAndLocks
<1>4. JobsAndLocks'
  BY <1>2, <1>3, IdleIsJob DEF CheckLock, JobsAndLocks, IsJob
<1>5. \A v \in Workers : job'[v].phase = "in" <=> job[v].phase = "in"
  BY <1>0, <1>2, <1>3
<1>6. \A v \in Workers : job[v].phase = "in" => job'[v] = job[v]
  BY <1>0, <1>3
<1>7. \A s \in Srcs : On(s)' = On(s)
  BY <1>5, <1>6 DEF On
<1>8. WaitersLock'
  BY <1>0, <1>2, <1>3 DEF WaitersLock
<1>9. LockIsHeld' /\ WorkersLocked' /\ Exclusive'
  BY <1>5, <1>6, <1>7 DEF CheckLock, LockIsHeld, WorkersLocked, Exclusive
<1> QED
  BY <1>4, <1>8, <1>9

\* The lock is taken when it is free: nobody else whose task locks is there.
LEMMA AcquireKeepsIInv ==
  ASSUME IInv, NEW w \in Workers, Acquire(w)
  PROVE  IInv'
<1> USE DEF IInv
<1> DEFINE s == job[w].src
           j == [job[w] EXCEPT !.phase = "in"]
<1>0. /\ IsJob(job[w]) /\ job[w].phase = "lock" /\ s \in Srcs /\ lock[s] = "free"
      /\ job[w].task \notin Unlocked /\ "free" \notin Workers
  BY SourcesAssumption DEF Acquire, Acquirable, JobsAndLocks, IsJob, WaitersLock
<1>1. j = [phase |-> "in", task |-> job[w].task, src |-> s,
           prog |-> job[w].prog, list |-> job[w].list, token |-> job[w].token]
  BY <1>0 DEF IsJob
<1>2. IsJob(j) /\ j.phase = "in" /\ j.task = job[w].task /\ j.src = s
  BY <1>0, <1>1 DEF IsJob, Phases
<1>3. job' = [v \in Workers |-> IF v = w THEN j ELSE job[v]]
  BY DEF Acquire, JobsAndLocks
<1>4. lock' = [t \in Srcs |-> IF t = s THEN w ELSE lock[t]]
  BY DEF Acquire, JobsAndLocks
<1>5. s \notin raced' => On(s) = {}
  <2> SUFFICES ASSUME s \notin raced', NEW v \in On(s) PROVE FALSE
    OBVIOUS
  <2>1. s \notin raced /\ v \notin Overlap(s, job[w].task)
    BY DEF Acquire, Meet
  <2>2. v \in Workers /\ job[v].task \notin Unlocked /\ job[v].phase = "in" /\ job[v].src = s
    BY <1>0, <2>1 DEF Overlap, On
  <2>3. lock[s] = v
    BY <2>1, <2>2 DEF WorkersLocked
  <2> QED
    BY <1>0, <2>2, <2>3
<1>6. raced \subseteq raced'
  BY DEF Acquire, Meet
<1>7. JobsAndLocks'
  BY <1>2, <1>3, <1>4 DEF JobsAndLocks, IsJob
<1>8. WaitersLock'
  BY <1>2, <1>3 DEF WaitersLock
<1>9. LockIsHeld'
  BY <1>0, <1>2, <1>3, <1>4 DEF LockIsHeld
<1>10. WorkersLocked'
  <2> SUFFICES ASSUME NEW v \in Workers, job'[v].phase = "in", job'[v].task \notin Unlocked,
                      job'[v].src \notin raced'
               PROVE  lock'[job'[v].src] = v
    BY DEF WorkersLocked
  <2>1. CASE v = w
    BY <1>0, <1>2, <1>3, <1>4, <2>1
  <2>2. CASE v # w
    <3>1. job'[v] = job[v] /\ job[v].src \in Srcs /\ lock[job[v].src] = v
      BY <1>3, <1>6, <2>2 DEF WorkersLocked, JobsAndLocks, IsJob
    <3> QED
      BY <1>0, <1>4, <3>1
  <2> QED
    BY <2>1, <2>2
<1>11. Exclusive'
  <2> SUFFICES ASSUME NEW t \in Srcs \ raced', NEW u \in On(t)', NEW v \in On(t)' PROVE u = v
    BY DEF Exclusive
  <2>1. \A x \in On(t)' : x = w \/ x \in On(t)
    BY <1>3 DEF On
  <2>2. CASE t = s
    BY <1>5, <2>1, <2>2
  <2>3. CASE t # s
    BY <1>2, <1>3, <1>6, <2>1, <2>3 DEF On, Exclusive
  <2> QED
    BY <2>2, <2>3
<1> QED
  BY <1>7, <1>8, <1>9, <1>10, <1>11

\* The ttl passes, of a dead worker's lock or under a live one's.
LEMMA LockExpiresKeepsIInv ==
  ASSUME IInv, NEW s \in Srcs, Expire(s) \/ Overrun(s)
  PROVE  IInv'
<1> USE DEF IInv
<1>1. job' = job /\ lock' = [lock EXCEPT ![s] = "free"] /\ raced \subseteq raced'
  BY DEF Expire, Overrun
<1>2. "free" \notin Workers /\ "dead" \notin Workers
  BY SourcesAssumption
<1>3. s \in raced' \/ lock[s] = "dead"
  BY DEF Expire, Overrun
<1>4. JobsAndLocks' /\ WaitersLock'
  BY <1>1 DEF JobsAndLocks, IsJob, WaitersLock
<1>5. LockIsHeld'
  BY <1>1, <1>2 DEF LockIsHeld, JobsAndLocks
<1>6. WorkersLocked'
  BY <1>1, <1>2, <1>3 DEF WorkersLocked, JobsAndLocks, IsJob
<1>7. Exclusive'
  BY <1>1 DEF Exclusive, On
<1> QED
  BY <1>4, <1>5, <1>6, <1>7

\* A worker that dies leaves its lock to its ttl.
LEMMA CrashKeepsIInv ==
  ASSUME IInv, NEW w \in Workers, Crash(w)
  PROVE  IInv'
<1> USE DEF IInv
<1> DEFINE s == job[w].src  t == job[w].task
           again == [phase |-> IF t \in Unlocked THEN "in" ELSE "check", task |-> t,
                     src |-> s, prog |-> Program(t), list |-> {}, token |-> job[w].token]
<1>0. s \in Srcs /\ "dead" \notin Workers /\ Idle.phase = "idle" /\ IsJob(job[w])
  BY SourcesAssumption DEF Crash, JobsAndLocks, IsJob, Idle
<1>1. PICK j \in {again, Idle} : job' = [v \in Workers |-> IF v = w THEN j ELSE job[v]]
  <2>1. [Start(s, t, Program(t)) EXCEPT !.token = job[w].token] = again
    BY DEF Start
  <2>2. job' = [job EXCEPT ![w] = IF t \in InApi THEN Idle ELSE again]
    BY <2>1, Zenon DEF Crash
  <2> QED
    BY <2>2 DEF JobsAndLocks
<1>2. IsJob(j) /\ (j.phase # "idle" => j.src = s /\ j.task = t)
  BY <1>0, IdleIsJob DEF IsJob, Phases
<1>3. j.phase = "in" => t \in Unlocked
  BY <1>0
<1>4. \A x \in Srcs : lock'[x] = IF x = s /\ lock[x] = w THEN "dead" ELSE lock[x]
  BY <1>0 DEF Crash, JobsAndLocks
<1>5. JobsAndLocks'
  BY <1>1, <1>2 DEF Crash, JobsAndLocks, IsJob
<1>6. WaitersLock'
  BY <1>0, <1>1, <1>2 DEF WaitersLock
<1>7. LockIsHeld'
  BY <1>0, <1>1, <1>4 DEF LockIsHeld, JobsAndLocks
<1>8. WorkersLocked'
  BY <1>0, <1>1, <1>2, <1>3, <1>4 DEF WorkersLocked, Crash, JobsAndLocks, IsJob
<1>9. Exclusive'
  <2>1. t \in Unlocked => job[w].phase = "in"
    BY <1>0 DEF Crash, IsJob, Phases, WaitersLock
  <2>2. \A x \in Srcs : On(x)' \subseteq On(x)
    BY <1>0, <1>1, <1>2, <1>3, <2>1 DEF On
  <2> QED
    BY <2>2 DEF Crash, Exclusive
<1> QED
  BY <1>5, <1>6, <1>7, <1>8, <1>9

\* A request starts a task; one that takes no lock is at work from then on.
LEMMA KiqKeepsIInv ==
  ASSUME IInv, NEW w \in Workers, NEW s \in Srcs, NEW task, NEW prog, Kiq(w, s, task, prog)
  PROVE  IInv'
<1> USE DEF IInv
<1> DEFINE j == Start(s, task, prog)
<1>0. /\ job[w].phase = "idle" /\ raced \subseteq raced' /\ lock' = lock
      /\ job' = [v \in Workers |-> IF v = w THEN j ELSE job[v]]
  BY DEF Kiq, Meet, JobsAndLocks
<1>1. /\ IsJob(j) /\ j.src = s /\ j.task = task
      /\ j.phase = IF task \in Unlocked THEN "in" ELSE "check"
  BY DEF Start, IsJob, Phases
<1>2. task \in Unlocked /\ s \notin raced' => On(s) = {}
  BY DEF Kiq, Meet, Overlap
<1>3. JobsAndLocks'
  BY <1>0, <1>1 DEF JobsAndLocks, IsJob
<1>4. WaitersLock'
  BY <1>0, <1>1 DEF WaitersLock
<1>5. LockIsHeld'
  BY <1>0, <1>1 DEF LockIsHeld
<1>6. WorkersLocked'
  BY <1>0, <1>1 DEF WorkersLocked
<1>7. Exclusive'
  <2> SUFFICES ASSUME NEW t \in Srcs \ raced', NEW u \in On(t)', NEW v \in On(t)' PROVE u = v
    BY DEF Exclusive
  <2>1. \A x \in On(t)' : (x = w /\ t = s /\ task \in Unlocked) \/ x \in On(t)
    BY <1>0, <1>1 DEF On
  <2>2. CASE task \in Unlocked /\ t = s
    BY <1>2, <2>1, <2>2
  <2>3. CASE ~(task \in Unlocked /\ t = s)
    BY <1>0, <2>1, <2>3 DEF Exclusive
  <2> QED
    BY <2>2, <2>3
<1> QED
  BY <1>3, <1>4, <1>5, <1>6, <1>7

\* Every step keeps the invariant.
LEMMA NextKeepsIInv == IInv /\ [Next]_vars => IInv'
<1> SUFFICES ASSUME IInv, [Next]_vars PROVE IInv'
  OBVIOUS
<1>1. CASE job' = job /\ lock' = lock /\ raced' = raced
  BY <1>1 DEF IInv, JobsAndLocks, IsJob, WaitersLock, LockIsHeld, WorkersLocked, Exclusive, On
<1>2. CASE Done \/ UNCHANGED vars \/ \E s \in Srcs : Publish(s)
  BY <1>1, <1>2 DEF Done, vars, Publish
<1>3. ASSUME NEW w \in Workers, CheckLock(w) \/ Acquire(w) \/ Crash(w) PROVE IInv'
  BY <1>3, CheckLockKeepsIInv, AcquireKeepsIInv, CrashKeepsIInv
<1>4. ASSUME NEW w \in Workers, ProgramStep(w) PROVE IInv'
  BY <1>4, ProgramStepGoesOnOrEnds, GoesOnKeepsIInv, EndsKeepsIInv DEF IInv
<1>5. ASSUME NEW w \in Workers, Ask(w) PROVE IInv'
  <2>1. PICK s \in Srcs : \E task, prog : Kiq(w, s, task, prog)
    BY <1>5, Zenon DEF Ask, source_create_local, source_import_from_git,
       create_sources_from_gitlab, create_sources_from_mounted, source_import_from_archive,
       New, source_action
  <2> QED
    BY <2>1, KiqKeepsIInv
<1>6. ASSUME NEW s \in Srcs, Expire(s) \/ Overrun(s) PROVE IInv'
  BY <1>6, LockExpiresKeepsIInv
<1> QED
  BY <1>2, <1>3, <1>4, <1>5, <1>6, Zenon DEF Next, Work, ProgramStep

\* Whatever crashes, fails or expires: the tasks of a source are kept apart by
\* its lock, but for those that take none and after a ttl that was too short.
THEOREM SourcesAreExclusive == Spec => []Exclusive
<1>1. IInv => Exclusive
  BY DEF IInv
<1> QED
  BY <1>1, InitIInv, NextKeepsIInv, PTL DEF Spec

\* A lock that does not wait for its ttl is held by a worker that is at work on
\* its source: every way out of a task, failed or not, gives it back.
THEOREM LocksAreHeld == Spec => []LockIsHeld
<1>1. IInv => LockIsHeld
  BY DEF IInv
<1> QED
  BY <1>1, InitIInv, NextKeepsIInv, PTL DEF Spec
-----------------------------------------------------------------------------
(* What the programs of the tasks are: which step follows which.           *)
\* Which step comes after which, in every program, and which end one.
Follows == {<<"begin", "fetch">>, <<"fetch", "save">>, <<"save", "files">>, <<"files", "paths">>,
            <<"paths", "serve">>, <<"serve", "pull">>, <<"pull", "notify">>,
            <<"notify", "reply">>, <<"count", "erase">>, <<"erase", "drop">>,
            <<"unserve", "unplugged">>, <<"edit", "begin">>, <<"refresh", "begin">>,
            <<"promote", "begin">>, <<"guard", "begin">>, <<"guard", "promote">>,
            <<"unpack", "compare">>, <<"receive", "place">>}
Finals == {"files", "pull", "reply", "drop", "unplugged", "create", "place", "compare"}

Steps == {"begin", "fetch", "save", "files", "paths", "serve", "pull", "notify", "reply",
          "count", "erase", "drop", "unserve", "unplugged", "create", "edit", "refresh",
          "compare", "unpack", "guard", "promote", "receive", "place"}

\* An edit is followed by nothing but the discovery of what it left, and only
\* the update of an archive lets the archive over the tree.
OfTask(task, step) ==
    /\ task \in {"update", "delete"} => step \in {"edit", "begin", "fetch", "save", "files"}
    /\ step = "promote" => task = "apply_archive"
IsPart(task, prog, first, last) ==
    /\ prog \in Seq(Steps) /\ prog # <<>>
    /\ \A i \in 1..Len(prog) : OfTask(task, prog[i])
    /\ \A i \in 1..(Len(prog) - 1) : <<prog[i], prog[i + 1]>> \in Follows
    /\ prog[1] = first /\ prog[Len(prog)] = last
IsProgram(task, prog) == \E first, last : IsPart(task, prog, first, last) /\ last \in Finals

\* A task begins with a step that relies on none before it.
FirstOf(task, step) ==
    /\ step \in {"begin", "paths", "unserve", "count", "create", "edit", "refresh", "compare",
                 "unpack", "guard", "receive"}
    /\ step = "begin" => task \notin {"update", "delete"}
Begins(task, prog) ==
    \E first, last : IsPart(task, prog, first, last) /\ last \in Finals /\ FirstOf(task, first)

\* What a task begins with is the whole of a program.
LEMMA WhatBeginsIsProgram ==
  ASSUME NEW task, NEW prog, Begins(task, prog)
  PROVE  IsProgram(task, prog) /\ FirstOf(task, Head(prog))
<1> PICK first, last : IsPart(task, prog, first, last) /\ last \in Finals /\ FirstOf(task, first)
  BY DEF Begins
<1>1. Head(prog) = first
  BY EmptySeq DEF IsPart
<1> QED
  BY <1>1 DEF IsProgram

\* What is left of a program after a step is a program, if there is anything left.
LEMMA RestOfProgram ==
  ASSUME NEW task, NEW prog, IsProgram(task, prog)
  PROVE  /\ OfTask(task, Head(prog))
         /\ Tail(prog) = <<>> => Head(prog) \in Finals
         /\ Tail(prog) # <<>> =>
              IsProgram(task, Tail(prog)) /\ <<Head(prog), Head(Tail(prog))>> \in Follows
<1> PICK first, last : IsPart(task, prog, first, last) /\ last \in Finals
  BY DEF IsProgram
<1> DEFINE rest == Tail(prog)  n == Len(prog) - 1
<1>1. /\ prog \in Seq(Steps) /\ prog # <<>> /\ Len(prog) \in Nat \ {0}
      /\ rest \in Seq(Steps) /\ Len(rest) = n /\ Head(prog) = prog[1]
      /\ \A i \in 1..n : rest[i] = prog[i + 1]
  BY HeadTailProperties, EmptySeq DEF IsPart
<1>2. rest = <<>> <=> n = 0
  BY <1>1, EmptySeq
<1>3. OfTask(task, prog[1])
  BY <1>1 DEF IsPart
<1>4. CASE rest = <<>>
  BY <1>1, <1>2, <1>3, <1>4 DEF IsPart
<1>5. CASE rest # <<>>
  <2>1. n \in Nat \ {0} /\ Head(rest) = rest[1]
    BY <1>1, <1>2, <1>5
  <2>2. \A i \in 1..n : rest[i] = prog[i + 1] /\ i + 1 \in 1..Len(prog)
    BY <1>1, <2>1
  <2>3. \A i \in 1..n : OfTask(task, rest[i])
    BY <2>2 DEF IsPart
  <2>4. \A i \in 1..(n - 1) : <<rest[i], rest[i + 1]>> \in Follows
    <3> TAKE i \in 1..(n - 1)
    <3>1. i \in 1..n /\ i + 1 \in 1..n /\ i + 1 \in 1..(Len(prog) - 1)
      BY <2>1
    <3>2. rest[i] = prog[i + 1] /\ rest[i + 1] = prog[(i + 1) + 1]
      BY <2>2, <3>1
    <3> QED
      BY <3>1, <3>2 DEF IsPart
  <2>5. rest[n] = prog[Len(prog)]
    BY <1>1, <2>1, <2>2
  <2>6. IsPart(task, rest, rest[1], last)
    BY <1>1, <1>5, <2>1, <2>3, <2>4, <2>5 DEF IsPart
  <2>7. <<prog[1], rest[1]>> \in Follows
    BY <1>1, <2>1, <2>2 DEF IsPart
  <2> HIDE DEF rest
  <2> QED
    BY <1>1, <1>3, <1>5, <2>1, <2>6, <2>7 DEF IsProgram, rest
<1> QED
  BY <1>4, <1>5

\* Two parts are one when the second may follow the first.
LEMMA PartsJoin ==
  ASSUME NEW task, NEW p, NEW q, NEW a, NEW b, NEW c, NEW d,
         IsPart(task, p, a, b), IsPart(task, q, c, d), <<b, c>> \in Follows
  PROVE  IsPart(task, p \o q, a, d)
<1> DEFINE r == p \o q
<1>1. p \in Seq(Steps) /\ q \in Seq(Steps) /\ Len(p) \in Nat \ {0} /\ Len(q) \in Nat \ {0}
  BY EmptySeq DEF IsPart
<1>2. /\ r \in Seq(Steps) /\ Len(r) = Len(p) + Len(q)
      /\ \A i \in 1..Len(r) : r[i] = IF i <= Len(p) THEN p[i] ELSE q[i - Len(p)]
  BY <1>1, ConcatProperties
<1> HIDE DEF r
<1>3. r # <<>>
  BY <1>1, <1>2, EmptySeq
<1>4. r[1] = a /\ r[Len(r)] = d
  BY <1>1, <1>2 DEF IsPart
<1>5. \A i \in 1..Len(r) : OfTask(task, r[i])
  <2> TAKE i \in 1..Len(r)
  <2>1. CASE i <= Len(p)
    <3>1. i \in 1..Len(p) /\ r[i] = p[i]
      BY <1>1, <1>2, <2>1
    <3> QED BY <3>1 DEF IsPart
  <2>2. CASE ~(i <= Len(p))
    <3>1. i - Len(p) \in 1..Len(q) /\ r[i] = q[i - Len(p)]
      BY <1>1, <1>2, <2>2
    <3> QED BY <3>1 DEF IsPart
  <2> QED BY <2>1, <2>2
<1>6. \A i \in 1..(Len(r) - 1) : <<r[i], r[i + 1]>> \in Follows
  <2> TAKE i \in 1..(Len(r) - 1)
  <2>0. i \in 1..Len(r) /\ i + 1 \in 1..Len(r)
    BY <1>1, <1>2
  <2>1. CASE i < Len(p)
    <3>1. i \in 1..(Len(p) - 1) /\ r[i] = p[i] /\ r[i + 1] = p[i + 1]
      BY <1>1, <1>2, <2>0, <2>1
    <3> QED BY <3>1 DEF IsPart
  <2>2. CASE i = Len(p)
    <3>1. r[i] = p[Len(p)] /\ r[i + 1] = q[1]
      BY <1>1, <1>2, <2>0, <2>2
    <3> QED BY <3>1 DEF IsPart
  <2>3. CASE i > Len(p)
    <3> DEFINE k == i - Len(p)
    <3>1. k \in 1..(Len(q) - 1) /\ r[i] = q[k] /\ r[i + 1] = q[(i + 1) - Len(p)]
      BY <1>1, <1>2, <2>0, <2>3
    <3>2. (i + 1) - Len(p) = k + 1
      BY <1>1
    <3> QED BY <3>1, <3>2 DEF IsPart
  <2> QED BY <1>1, <2>1, <2>2, <2>3
<1> QED
  BY <1>2, <1>3, <1>4, <1>5, <1>6 DEF IsPart, r

\* One step is a part.
LEMMA PartOfOne ==
  ASSUME NEW task, NEW a \in Steps, OfTask(task, a)
  PROVE  IsPart(task, <<a>>, a, a)
BY DEF IsPart
\* Two steps, of which one follows the other, are a part.
LEMMA PartOfTwo ==
  ASSUME NEW task, NEW a \in Steps, NEW b \in Steps, OfTask(task, a), OfTask(task, b),
         <<a, b>> \in Follows
  PROVE  IsPart(task, <<a, b>>, a, b)
BY DEF IsPart
\* So are three.
LEMMA PartOfThree ==
  ASSUME NEW task, NEW a \in Steps, NEW b \in Steps, NEW c \in Steps,
         OfTask(task, a), OfTask(task, b), OfTask(task, c),
         <<a, b>> \in Follows, <<b, c>> \in Follows
  PROVE  IsPart(task, <<a, b, c>>, a, c)
BY DEF IsPart
\* So are four.
LEMMA PartOfFour ==
  ASSUME NEW task, NEW a \in Steps, NEW b \in Steps, NEW c \in Steps, NEW d \in Steps,
         OfTask(task, a), OfTask(task, b), OfTask(task, c), OfTask(task, d),
         <<a, b>> \in Follows, <<b, c>> \in Follows, <<c, d>> \in Follows
  PROVE  IsPart(task, <<a, b, c, d>>, a, d)
BY DEF IsPart

\* The orchestrator's operations.
LEMMA OperationsAreParts ==
  ASSUME NEW task
  PROVE  /\ IsPart(task, Discover, "begin", "files")
         /\ task \notin {"update", "delete"} =>
              /\ IsPart(task, Prepare, "paths", "pull")
              /\ IsPart(task, Sync, "notify", "reply")
              /\ IsPart(task, Remove, "count", "drop")
<1> USE DEF Follows, OfTask, Steps
<1>1. IsPart(task, Discover, "begin", "files")
  <2>1. /\ OfTask(task, "begin") /\ OfTask(task, "fetch") /\ OfTask(task, "save")
        /\ OfTask(task, "files") /\ {"begin", "fetch", "save", "files"} \subseteq Steps
        /\ <<"begin", "fetch">> \in Follows /\ <<"fetch", "save">> \in Follows
        /\ <<"save", "files">> \in Follows
    OBVIOUS
  <2> HIDE DEF Follows, OfTask, Steps
  <2> QED
    BY <2>1, PartOfFour, Zenon DEF Discover
<1>2. ASSUME task \notin {"update", "delete"} PROVE IsPart(task, Prepare, "paths", "pull")
  BY <1>2, PartOfThree DEF Prepare
<1>3. ASSUME task \notin {"update", "delete"} PROVE IsPart(task, Sync, "notify", "reply")
  BY <1>3, PartOfTwo DEF Sync
<1>4. ASSUME task \notin {"update", "delete"} PROVE IsPart(task, Remove, "count", "drop")
  BY <1>4, PartOfThree DEF Remove
<1> QED
  BY <1>1, <1>2, <1>3, <1>4

\* Each task's program is one.
LEMMA ProgramsAre ==
  ASSUME NEW task \in TaskNames
  PROVE  Begins(task, Program(task))
<1> USE DEF Follows, OfTask, Steps
<1>1. IsPart(task, Discover, "begin", "files")
  BY OperationsAreParts
<1>2. task \notin {"update", "delete"} =>
        /\ IsPart(task, Prepare, "paths", "pull")
        /\ IsPart(task, Sync, "notify", "reply")
        /\ IsPart(task, Remove, "count", "drop")
  BY OperationsAreParts
<1>3. CASE task \in {"discover", "mounted", "plug", "remove"}
  BY <1>1, <1>2, <1>3 DEF Program, source_discover_task, source_prepare_task,
     source_remove_task, Begins, FirstOf, Finals
<1>4. CASE task = "unplug"
  <2>1. IsPart(task, <<"unserve", "unplugged">>, "unserve", "unplugged")
    BY <1>4, PartOfTwo
  <2> QED
    BY <1>4, <2>1 DEF Program, source_unplug_task, Begins, FirstOf, Finals
<1>5. CASE task = "upload"
  <2>1. IsPart(task, <<"receive", "place">>, "receive", "place")
    BY <1>5, PartOfTwo
  <2> QED
    BY <1>5, <2>1 DEF Program, Begins, FirstOf, Finals
<1>6. CASE task = "create"
  <2>1. IsPart(task, <<"create">>, "create", "create")
    BY <1>6, PartOfOne
  <2> QED
    BY <1>6, <2>1 DEF Program, create_tpl_from_raw_task, Begins, FirstOf, Finals
<1>7. CASE task = "check"
  <2>1. IsPart(task, <<"compare">>, "compare", "compare")
    BY <1>7, PartOfOne
  <2> QED
    BY <1>7, <2>1 DEF Program, source_update_check_git_task, Begins, FirstOf, Finals
<1>8. CASE task = "check_archive"
  <2>1. IsPart(task, <<"unpack", "compare">>, "unpack", "compare")
    BY <1>8, PartOfTwo
  <2> QED
    BY <1>8, <2>1 DEF Program, source_update_check_archive_task, Begins, FirstOf, Finals
<1>9. CASE task \in {"update", "delete"}
  <2>1. IsPart(task, <<"edit">>, "edit", "edit")
    BY <1>9, PartOfOne
  <2>2. IsPart(task, <<"edit">> \o Discover, "edit", "files")
    BY <1>1, <2>1, PartsJoin
  <2> QED
    BY <1>9, <2>2 DEF Program, update_tpl_from_raw_task, delete_local_template_task,
       Begins, FirstOf, Finals
<1>10. CASE task = "external"
  <2>1. IsPart(task, <<"refresh">>, "refresh", "refresh")
    BY <1>10, PartOfOne
  <2>2. IsPart(task, <<"refresh">> \o Discover, "refresh", "files")
    BY <1>1, <2>1, PartsJoin
  <2> QED
    BY <1>10, <2>2 DEF Program, source_check_external_list_task, Begins, FirstOf, Finals
<1>11. CASE task = "sync"
  <2>1. IsPart(task, Prepare \o Sync, "paths", "reply")
    BY <1>2, <1>11, PartsJoin
  <2> QED
    BY <1>11, <2>1 DEF Program, source_sync_task, Begins, FirstOf, Finals
<1>12. ASSUME NEW p, NEW last, IsPart(task, p, "guard", last), last \in {"guard", "promote"},
              task \in {"apply", "apply_archive"}
       PROVE  Begins(task, p \o Discover \o Prepare \o Sync)
  <2>1. IsPart(task, p \o Discover, "guard", "files")
    BY <1>1, <1>12, PartsJoin
  <2>2. IsPart(task, p \o Discover \o Prepare, "guard", "pull")
    BY <1>2, <1>12, <2>1, PartsJoin
  <2>3. IsPart(task, p \o Discover \o Prepare \o Sync, "guard", "reply")
    BY <1>2, <1>12, <2>2, PartsJoin
  <2> QED
    BY <2>3 DEF Begins, FirstOf, Finals
<1>13. CASE task = "apply"
  <2>1. IsPart(task, <<"guard">>, "guard", "guard")
    BY <1>13, PartOfOne
  <2> QED
    BY <1>12, <1>13, <2>1 DEF Program, source_update_apply_git_task
<1>14. CASE task = "apply_archive"
  <2>1. IsPart(task, <<"guard", "promote">>, "guard", "promote")
    BY <1>14, PartOfTwo
  <2> QED
    BY <1>12, <1>14, <2>1 DEF Program, source_update_apply_archive_task
<1> QED
  BY <1>3, <1>4, <1>5, <1>6, <1>7, <1>8, <1>9, <1>10, <1>11, <1>13, <1>14 DEF TaskNames

\* discover() is skipped for a source that is discovered: what follows it, if anything does.
LEMMA DiscoverySkipped ==
  ASSUME NEW task, NEW prog, IsProgram(task, prog), Head(prog) = "begin",
         NEW rest, rest = SubSeq(prog, Len(Discover) + 1, Len(prog))
  PROVE  rest # <<>> => IsProgram(task, rest) /\ Head(rest) = "paths"
<1>1. Len(Discover) = 4
  BY DEF Discover
<1> PICK first, last : IsPart(task, prog, first, last) /\ last \in Finals
  BY DEF IsProgram
<1> DEFINE n == Len(prog)
<1>2. prog \in Seq(Steps) /\ prog[1] = "begin" /\ n \in Nat \ {0} /\ prog[n] \in Finals
  BY EmptySeq DEF IsPart
<1>3. n >= 4 /\ prog[4] = "files"
  <2>1. n >= 2 /\ prog[2] = "fetch"
    BY <1>2 DEF IsPart, Finals, Follows
  <2>2. n >= 3 /\ prog[3] = "save"
    BY <1>2, <2>1 DEF IsPart, Finals, Follows
  <2> QED
    BY <1>2, <2>1, <2>2 DEF IsPart, Finals, Follows
<1>4. CASE n = 4
  <2>1. rest = SubSeq(prog, 5, 4)
    BY <1>1, <1>4
  <2> QED
    BY <2>1, SubSeqEmpty
<1>5. CASE n > 4
  <2>1. /\ rest \in Seq(Steps) /\ Len(rest) = n - 4
        /\ \A i \in 1..(n - 4) : rest[i] = prog[i + 4]
    <3>1. \A i \in 5..n : prog[i] \in Steps
      BY <1>2
    <3>2. /\ SubSeq(prog, 5, n) \in Seq(Steps) /\ Len(SubSeq(prog, 5, n)) = n - 5 + 1
          /\ \A i \in 1..(n - 5 + 1) : SubSeq(prog, 5, n)[i] = prog[5 + i - 1]
      BY <1>2, <1>5, <3>1, SubSeqProperties
    <3> QED
      BY <1>1, <1>2, <1>5, <3>2
  <2>2. prog[5] = "paths" /\ rest[1] = "paths" /\ rest # <<>>
    <3>1. <<prog[4], prog[5]>> \in Follows
      <4>1. 4 \in 1..(n - 1)
        BY <1>2, <1>5
      <4>2. <<prog[4], prog[4 + 1]>> \in Follows
        BY <4>1 DEF IsPart
      <4> QED
        BY <4>2
    <3>2. prog[5] = "paths"
      BY <1>3, <3>1 DEF Follows
    <3>3. rest[1] = prog[5] /\ Len(rest) # 0
      BY <1>2, <1>5, <2>1
    <3> QED
      BY <3>2, <3>3
  <2>3. \A i \in 1..(n - 4) : OfTask(task, rest[i])
    <3> TAKE i \in 1..(n - 4)
    <3>1. i + 4 \in 1..n
      BY <1>2, <1>5
    <3> QED
      BY <2>1, <3>1 DEF IsPart
  <2>4. \A i \in 1..(n - 4 - 1) : <<rest[i], rest[i + 1]>> \in Follows
    <3> TAKE i \in 1..(n - 4 - 1)
    <3>1. i + 4 \in 1..(n - 1) /\ i \in 1..(n - 4) /\ i + 1 \in 1..(n - 4)
      BY <1>2, <1>5
    <3>2. <<prog[i + 4], prog[(i + 4) + 1]>> \in Follows /\ (i + 4) + 1 = (i + 1) + 4
      BY <3>1 DEF IsPart
    <3> QED
      BY <2>1, <3>1, <3>2
  <2>5. rest[n - 4] = prog[n]
    BY <1>2, <1>5, <2>1
  <2> HIDE DEF n
  <2>6. IsPart(task, rest, "paths", last)
    BY <2>1, <2>2, <2>3, <2>4, <2>5, <1>2 DEF IsPart, n
  <2> QED
    BY <2>1, <2>2, <2>6 DEF IsProgram
<1>6. n = 4 \/ n > 4
  <2>1. n \in Nat /\ n >= 4
    BY <1>2, <1>3
  <2> HIDE DEF n
  <2> QED
    BY <2>1
<1> QED
  BY <1>4, <1>5, <1>6
-----------------------------------------------------------------------------
(* What a worker may rely on when it takes a step, because of the steps    *)
(* before it: Care is inductive together with IInv.                        *)
Complete(x) == x.file # 0 => x.synced /\ x.onSshfs

\* What a worker about to take a step relies on, of the document of its source,
\* of the version served and of whether no removal has failed.
Relied(j, step, x, v, whole) ==
    /\ step = "begin" /\ j.task \in {"update", "delete"} => x.state # "discovered"
    /\ step = "files" => x.tpls = x.dir
    /\ step = "promote" => j.token = <<x.dir, x.ext>> /\ x.ext # 0
    /\ step \in {"notify", "reply"} /\ whole => Complete(x)
    /\ step = "reply" => x.dir # 0
    /\ step \in {"erase", "drop"} => x.op = "remove"
    /\ step = "drop" => x.dir = 0 /\ v = 0 /\ ~x.onSshfs

Removed(x, v) == x.state = "none" => x.dir = 0 /\ v = 0 /\ ~x.onSshfs /\ ~x.synced
Kept(x) == /\ x.synced => x.onSshfs
           /\ x.state = "active" => x.dir # 0 /\ (x.file # 0 => x.synced)
Dropping(s) == \E w \in Workers : At(w, "drop") /\ job[w].src = s

Programs ==
    \A w \in Workers : job[w].phase # "idle" =>
        /\ job[w].task \in TaskNames /\ IsProgram(job[w].task, job[w].prog)
        /\ job[w].phase # "in" => FirstOf(job[w].task, Head(job[w].prog))
        /\ src[job[w].src].type # "none"
        /\ job[w].task = "apply_archive" => src[job[w].src].type = "archive"
Reliance ==
    \A w \in Workers : job[w].phase = "in" /\ job[w].src \notin raced =>
        Relied(job[w], Head(job[w].prog), src[job[w].src], served[job[w].src],
               job[w].src \notin torn)
Sound ==
    \A s \in Srcs \ (raced \cup torn) :
        Removed(src[s], served[s]) /\ (Dropping(s) \/ Kept(src[s]))
Care == TypeOK /\ Programs /\ Reliance /\ Sound

(* The effect of a step on the source, and where it leads.                 *)
Changes(w, x) ==
    /\ x \in Document /\ x.type = src[job[w].src].type
    /\ src' = [src EXCEPT ![job[w].src] = x]
    /\ served' \in [Srcs -> Versions]
    /\ \A t \in Srcs : t # job[w].src => served'[t] \in {served[t], src[t].dir, 0}
    /\ raced' = raced /\ torn \subseteq torn' /\ torn' \subseteq torn \cup {job[w].src}
    /\ requests' = requests /\ faults' \in 0..MaxFaults
Moves(w, prog) ==
    \E j : /\ job' = [job EXCEPT ![w] = j]
           /\ \/ j = Idle /\ prog = <<>>
              \/ /\ IsJob(j) /\ j.phase = "in" /\ j.task = job[w].task /\ j.src = job[w].src
                 /\ j.token = job[w].token /\ j.list \subseteq Srcs /\ j.prog = prog
                 /\ prog # <<>>
Leads(w, x, prog) ==
    LET s == job[w].src IN
    /\ prog # <<>> =>
         /\ IsProgram(job[w].task, prog)
         /\ s \notin raced => Relied(job[w], Head(prog), x, served'[s], s \notin torn')
    /\ s \notin raced \cup torn' =>
         Removed(x, served'[s]) /\ ((prog # <<>> /\ Head(prog) = "drop") \/ Kept(x))

\* A step that does no harm to its own source does none to the others.
LEMMA StepKeepsCare ==
  ASSUME IInv, Care, IInv', NEW w \in Workers, job[w].phase = "in", NEW x, NEW prog,
         Changes(w, x), Moves(w, prog), Leads(w, x, prog)
  PROVE  Care'
<1> DEFINE s == job[w].src
<1>1. PICK j : /\ job' = [job EXCEPT ![w] = j]
               /\ \/ j = Idle /\ prog = <<>>
                  \/ /\ IsJob(j) /\ j.phase = "in" /\ j.task = job[w].task /\ j.src = s
                     /\ j.token = job[w].token /\ j.list \subseteq Srcs /\ j.prog = prog
                     /\ prog # <<>>
  BY DEF Moves
<1>2. job' = [v \in Workers |-> IF v = w THEN j ELSE job[v]]
  BY <1>1 DEF IInv, JobsAndLocks
<1>3. s \in Srcs /\ src \in [Srcs -> Document]
  BY DEF IInv, JobsAndLocks, IsJob, Care, TypeOK
<1>4. src' = [t \in Srcs |-> IF t = s THEN x ELSE src[t]]
  BY <1>3 DEF Changes
<1>5. Idle.phase = "idle" /\ Idle.list = {} /\ Idle.src = "none"
  BY DEF Idle
<1>6. TypeOK'
  <2>1. src' \in [Srcs -> Document]
    BY <1>3, <1>4 DEF Changes
  <2>2. \A v \in Workers : /\ job'[v].phase \in {"idle", "check", "lock", "in"}
                           /\ job'[v].src \in Srcs \cup {"none"} /\ job'[v].list \subseteq Srcs
    BY <1>1, <1>2, <1>3, <1>5 DEF Care, TypeOK
  <2> QED
    BY <1>3, <2>1, <2>2 DEF Care, TypeOK, Changes, IInv, JobsAndLocks
<1>7. Programs'
  <2> SUFFICES ASSUME NEW v \in Workers, job'[v].phase # "idle"
               PROVE  /\ job'[v].task \in TaskNames /\ IsProgram(job'[v].task, job'[v].prog)
                      /\ job'[v].phase # "in" => FirstOf(job'[v].task, Head(job'[v].prog))
                      /\ src'[job'[v].src].type # "none"
                      /\ job'[v].task = "apply_archive" => src'[job'[v].src].type = "archive"
    BY DEF Programs
  <2>1. CASE v = w
    <3>1. /\ job'[v] = j /\ j.phase = "in" /\ j.task = job[w].task /\ j.src = s
          /\ j.prog = prog /\ prog # <<>>
      BY <1>1, <1>2, <1>5, <2>1
    <3> QED
      BY <1>3, <1>4, <3>1 DEF Care, Programs, Leads, Changes
  <2>2. CASE v # w
    <3>1. job'[v] = job[v] /\ job[v].src \in Srcs
      BY <1>2, <2>2 DEF IInv, JobsAndLocks, IsJob
    <3>2. src'[job[v].src].type = src[job[v].src].type
      BY <1>4, <3>1 DEF Changes
    <3> QED
      BY <3>1, <3>2 DEF Care, Programs
  <2> QED
    BY <2>1, <2>2
<1>8. \A t \in Srcs : t # s => /\ src'[t] = src[t] /\ (t \in torn' <=> t \in torn)
                               /\ served'[t] \in {served[t], src[t].dir, 0}
  BY <1>3, <1>4 DEF Changes
<1>9. Reliance'
  <2> SUFFICES ASSUME NEW v \in Workers, job'[v].phase = "in", job'[v].src \notin raced'
               PROVE  Relied(job'[v], Head(job'[v].prog), src'[job'[v].src],
                             served'[job'[v].src], job'[v].src \notin torn')
    BY DEF Reliance
  <2>1. CASE v = w
    <3>1. /\ job'[v] = j /\ j.task = job[w].task /\ j.src = s /\ j.token = job[w].token
          /\ j.prog = prog /\ prog # <<>> /\ s \notin raced /\ src'[s] = x
      BY <1>1, <1>2, <1>3, <1>4, <1>5, <2>1 DEF Changes
    <3>2. Relied(job[w], Head(prog), x, served'[s], s \notin torn')
      BY <3>1 DEF Leads
    <3> QED
      BY <3>1, <3>2 DEF Relied
  <2>2. CASE v # w
    <3> DEFINE t == job[v].src
    <3>1. job'[v] = job[v] /\ t \in Srcs /\ t \notin raced /\ job[v].phase = "in"
      BY <1>2, <2>2 DEF IInv, JobsAndLocks, IsJob, Changes
    <3>2. t # s
      BY <2>2, <3>1 DEF IInv, Exclusive, On
    <3>3. Relied(job[v], Head(job[v].prog), src[t], served[t], t \notin torn)
      BY <3>1 DEF Care, Reliance
    <3>4. /\ src'[t] = src[t] /\ (t \in torn' <=> t \in torn)
          /\ served'[t] \in {served[t], src[t].dir, 0}
      BY <1>8, <3>1, <3>2
    <3>5. Relied(job[v], Head(job[v].prog), src[t], served'[t], t \notin torn)
      BY <3>3, <3>4 DEF Relied
    <3> QED
      BY <3>1, <3>4, <3>5
  <2> QED
    BY <2>1, <2>2
<1>10. Sound'
  <2> SUFFICES ASSUME NEW t \in Srcs, t \notin raced', t \notin torn'
               PROVE  Removed(src'[t], served'[t]) /\ (Dropping(t)' \/ Kept(src'[t]))
    BY DEF Sound
  <2>1. CASE t = s
    <3>1. /\ src'[t] = x /\ Removed(x, served'[s])
          /\ (prog # <<>> /\ Head(prog) = "drop") \/ Kept(x)
      BY <1>3, <1>4, <2>1 DEF Leads, Changes
    <3>2. CASE prog # <<>> /\ Head(prog) = "drop"
      <4>1. At(w, "drop")' /\ job'[w].src = s
        BY <1>1, <1>2, <3>2 DEF At
      <4> QED
        BY <2>1, <3>1, <4>1 DEF Dropping
    <3> QED
      BY <2>1, <3>1, <3>2
  <2>2. CASE t # s
    <3>1. /\ src'[t] = src[t] /\ t \notin torn /\ t \notin raced
          /\ served'[t] \in {served[t], src[t].dir, 0}
      BY <1>8, <2>2 DEF Changes
    <3>2. Removed(src[t], served[t]) /\ (Dropping(t) \/ Kept(src[t]))
      BY <3>1 DEF Care, Sound
    <3>3. Dropping(t) => Dropping(t)'
      BY <1>2, <2>2 DEF Dropping, At
    <3> QED
      BY <3>1, <3>2, <3>3 DEF Removed
  <2> QED
    BY <2>1, <2>2
<1> QED
  BY <1>6, <1>7, <1>9, <1>10 DEF Care

\* Goto moves a worker to the program it names.
LEMMA GotoMoves ==
  ASSUME IInv, Care, NEW w \in Workers, job[w].phase = "in", NEW prog, Goto(w, prog)
  PROVE  Moves(w, prog)
<1>1. CASE prog = <<>>
  BY <1>1 DEF Goto, Moves
<1>2. CASE prog # <<>>
  <2> DEFINE j == [job[w] EXCEPT !.prog = prog]
  <2>1. job' = [job EXCEPT ![w] = j]
    BY <1>2 DEF Goto
  <2>2. IsJob(job[w]) /\ job[w].list \subseteq Srcs
    BY DEF IInv, JobsAndLocks, Care, TypeOK
  <2>3. j = [phase |-> job[w].phase, task |-> job[w].task, src |-> job[w].src,
             prog |-> prog, list |-> job[w].list, token |-> job[w].token]
    BY <2>2 DEF IsJob
  <2>4. /\ IsJob(j) /\ j.phase = "in" /\ j.task = job[w].task /\ j.src = job[w].src
        /\ j.token = job[w].token /\ j.list \subseteq Srcs /\ j.prog = prog
    BY <2>2, <2>3 DEF IsJob
  <2> HIDE DEF j
  <2> QED
    BY <1>2, <2>1, <2>4 DEF Moves
<1> QED
  BY <1>1, <1>2

\* What the invariant says of a worker at work, its source and its program.
AtWork(w) ==
    LET s == job[w].src  step == Head(job[w].prog) IN
    /\ s \in Srcs /\ src \in [Srcs -> Document] /\ src[s] \in Document
    /\ served \in [Srcs -> Versions] /\ raced \subseteq Srcs /\ torn \subseteq Srcs
    /\ requests \in 0..MaxRequests /\ faults \in 0..MaxFaults
    /\ job[w].task \in TaskNames /\ IsProgram(job[w].task, job[w].prog)
    /\ OfTask(job[w].task, step) /\ src[s].type # "none"
    /\ job[w].task = "apply_archive" => src[s].type = "archive"
    /\ s \notin raced => Relied(job[w], step, src[s], served[s], s \notin torn)
    /\ s \notin raced \cup torn =>
         Removed(src[s], served[s]) /\ (step = "drop" \/ Kept(src[s]))

\* It follows from the invariant, for the only worker on a source is the one.
LEMMA WorkersAre ==
  ASSUME IInv, Care, NEW w \in Workers, job[w].phase = "in"
  PROVE  AtWork(w)
<1> DEFINE s == job[w].src
<1>1. s \in Srcs /\ src \in [Srcs -> Document] /\ src[s] \in Document
  BY DEF IInv, JobsAndLocks, IsJob, Care, TypeOK
<1>2. /\ served \in [Srcs -> Versions] /\ raced \subseteq Srcs /\ torn \subseteq Srcs
      /\ requests \in 0..MaxRequests /\ faults \in 0..MaxFaults
  BY DEF Care, TypeOK
<1>3. /\ job[w].task \in TaskNames /\ IsProgram(job[w].task, job[w].prog)
      /\ src[s].type # "none" /\ (job[w].task = "apply_archive" => src[s].type = "archive")
  BY DEF Care, Programs
<1>4. OfTask(job[w].task, Head(job[w].prog))
  BY <1>3, RestOfProgram
<1>5. s \notin raced =>
        Relied(job[w], Head(job[w].prog), src[s], served[s], s \notin torn)
  BY DEF Care, Reliance
<1>6. ASSUME s \notin raced \cup torn
      PROVE  Removed(src[s], served[s]) /\ (Head(job[w].prog) = "drop" \/ Kept(src[s]))
  <2>1. Removed(src[s], served[s]) /\ (Dropping(s) \/ Kept(src[s]))
    BY <1>1, <1>6 DEF Care, Sound
  <2>2. ASSUME Dropping(s) PROVE Head(job[w].prog) = "drop"
    <3>1. PICK v \in Workers : At(v, "drop") /\ job[v].src = s
      BY <2>2 DEF Dropping
    <3>2. v = w
      BY <1>1, <1>6, <3>1 DEF At, IInv, Exclusive, On
    <3> QED
      BY <3>1, <3>2 DEF At
  <2> QED
    BY <2>1, <2>2
<1> QED
  BY <1>1, <1>2, <1>3, <1>4, <1>5, <1>6 DEF AtWork

\* A step that leaves the directories of other sources alone.
LEMMA OrdinaryStep ==
  ASSUME IInv, Care, IInv', NEW w \in Workers, job[w].phase = "in",
         NEW x \in Document, x.type = src[job[w].src].type, NEW prog,
         Step(w, x, prog), prog = <<>> \/ prog = Rest(w),
         prog # <<>> => \A step :
             /\ <<Head(job[w].prog), step>> \in Follows /\ OfTask(job[w].task, step)
             /\ job[w].src \notin raced
             => Relied(job[w], step, x, served[job[w].src], job[w].src \notin torn),
         job[w].src \notin raced \cup torn => Removed(x, served[job[w].src]) /\ Kept(x)
  PROVE  Care'
<1> DEFINE s == job[w].src
<1>1. AtWork(w)
  BY WorkersAre
<1>2. Goto(w, prog) /\ Moves(w, prog)
  BY GotoMoves DEF Step
<1>3. Changes(w, x)
  BY <1>1 DEF Step, Set, Others, Changes, AtWork
<1>4. served'[s] = served[s] /\ torn' = torn
  BY DEF Step, Others
<1>5. ASSUME prog # <<>>
      PROVE  /\ IsProgram(job[w].task, prog)
             /\ s \notin raced => Relied(job[w], Head(prog), x, served[s], s \notin torn)
  <2>1. prog = Tail(job[w].prog)
    BY <1>5 DEF Rest
  <2>2. /\ IsProgram(job[w].task, prog) /\ OfTask(job[w].task, Head(prog))
        /\ <<Head(job[w].prog), Head(prog)>> \in Follows
    BY <1>1, <1>5, <2>1, RestOfProgram DEF AtWork
  <2> QED
    BY <1>5, <2>2
<1>6. Leads(w, x, prog)
  BY <1>4, <1>5 DEF Leads
<1> QED
  BY <1>2, <1>3, <1>6, StepKeepsCare
-----------------------------------------------------------------------------
(* The steps of the programs, one by one.                                  *)
\* After a fetch there is a tree.
LEMMA FetchKeepsCare ==
  ASSUME IInv, Care, IInv', NEW w \in Workers, Fetch(w)
  PROVE  Care'
<1> DEFINE s == job[w].src  d == src[s]
<1>1. job[w].phase = "in" /\ Head(job[w].prog) = "fetch" /\ d.state # "none"
  BY DEF Fetch, AtLive, At, Exists
<1>2. AtWork(w)
  BY <1>1, WorkersAre
<1>3. PICK x, prog : x = [d EXCEPT !.dir = Fetched(d)] /\ prog = Rest(w) /\ Step(w, x, prog)
  BY DEF Fetch, Doc
<1>4. d \in Document /\ Fetched(d) \in Versions \ {0}
  <2>1. d \in Document /\ d.dir \in Versions /\ d.upstream \in Versions
    BY <1>2 DEF AtWork, Document
  <2>2. 1 \in Versions
    BY SourcesAssumption DEF Versions
  <2>3. ASSUME NEW a \in Versions, NEW b \in Versions, a > b PROVE a # 0
    BY <2>3, SourcesAssumption DEF Versions
  <2> HIDE DEF d
  <2> QED
    BY <2>1, <2>2, <2>3 DEF Fetched
<1>5. /\ x \in Document /\ x.type = d.type /\ x.state = d.state /\ x.dir # 0
      /\ x.file = d.file /\ x.synced = d.synced /\ x.onSshfs = d.onSshfs
  BY <1>3, <1>4 DEF Document
<1>6. s \notin raced \cup torn => Removed(x, served[s]) /\ Kept(x)
  BY <1>1, <1>2, <1>5 DEF AtWork, Removed, Kept
<1>7. \A step : <<"fetch", step>> \in Follows => step = "save"
  BY DEF Follows
<1>8. \A step : <<"fetch", step>> \in Follows =>
        Relied(job[w], step, x, served[s], s \notin torn)
  BY <1>7 DEF Relied
<1> HIDE DEF s, d
<1> QED
  BY <1>1, <1>3, <1>5, <1>6, <1>8, OrdinaryStep DEF s, d

\* A discovery begins, or is skipped with all its steps.
LEMMA BeginDiscoverKeepsCare ==
  ASSUME IInv, Care, IInv', NEW w \in Workers, BeginDiscover(w)
  PROVE  Care'
<1> DEFINE s == job[w].src  d == src[s]
<1>1. job[w].phase = "in" /\ Head(job[w].prog) = "begin" /\ d.state # "none"
  BY DEF BeginDiscover, AtLive, At, Exists
<1>2. AtWork(w)
  BY <1>1, WorkersAre
<1>3. CASE d.state = "discovered"
  <2>1. PICK x, prog : /\ x = d /\ prog = SubSeq(job[w].prog, Len(Discover) + 1, Len(job[w].prog))
                       /\ Step(w, x, prog)
    BY <1>3 DEF BeginDiscover
  <2>2. prog # <<>> => IsProgram(job[w].task, prog) /\ Head(prog) = "paths"
    BY <1>1, <1>2, <2>1, DiscoverySkipped DEF AtWork
  <2>3. Moves(w, prog)
    BY <1>1, <2>1, GotoMoves DEF Step
  <2>4. Changes(w, x)
    BY <1>2, <2>1 DEF Step, Set, Others, Changes, AtWork
  <2>5. Leads(w, x, prog)
    BY <1>1, <1>2, <2>1, <2>2 DEF Leads, Relied, AtWork, Step, Others
  <2> QED
    BY <1>1, <2>3, <2>4, <2>5, StepKeepsCare
<1>4. CASE d.state # "discovered"
  <2>1. PICK x, prog : x = [d EXCEPT !.op = "discover"] /\ prog = Rest(w) /\ Step(w, x, prog)
    BY <1>4 DEF BeginDiscover
  <2>2. /\ x \in Document /\ x.type = d.type /\ x.state = d.state /\ x.dir = d.dir
        /\ x.file = d.file /\ x.synced = d.synced /\ x.onSshfs = d.onSshfs
    BY <1>2, <2>1 DEF Document, AtWork, SourceOperation
  <2>3. s \notin raced \cup torn => Removed(x, served[s]) /\ Kept(x)
    BY <1>1, <1>2, <2>2 DEF AtWork, Removed, Kept
  <2>4. \A step : <<"begin", step>> \in Follows => step = "fetch"
    BY DEF Follows
  <2>5. \A step : <<"begin", step>> \in Follows =>
          Relied(job[w], step, x, served[s], s \notin torn)
    BY <2>4 DEF Relied
  <2> HIDE DEF s, d
  <2> QED
    BY <1>1, <2>1, <2>2, <2>3, <2>5, OrdinaryStep DEF s, d
<1> QED
  BY <1>3, <1>4

\* A step that breaks the source, but in the transaction that removes it.
LEMMA BreaksKeepsCare ==
  ASSUME IInv, Care, IInv', NEW w \in Workers, job[w].phase = "in",
         Head(job[w].prog) # "drop", Breaks(w, src[job[w].src])
  PROVE  Care'
<1> DEFINE s == job[w].src  d == src[s]
<1>1. AtWork(w)
  BY WorkersAre
<1>2. PICK x, prog : x = [d EXCEPT !.state = "broken"] /\ prog = <<>> /\ Step(w, x, prog)
  BY DEF Breaks, Broken
<1>3. /\ x \in Document /\ x.type = d.type /\ x.state = "broken"
      /\ x.synced = d.synced /\ x.onSshfs = d.onSshfs
  BY <1>1, <1>2 DEF AtWork, Document, SourceState
<1>4. s \notin raced \cup torn => Removed(x, served[s]) /\ Kept(x)
  BY <1>1, <1>3 DEF AtWork, Removed, Kept
<1> HIDE DEF s, d
<1> QED
  BY <1>2, <1>3, <1>4, OrdinaryStep DEF s, d

\* The templates in the database are read from the tree there is.
LEMMA SaveTemplatesKeepsCare ==
  ASSUME IInv, Care, IInv', NEW w \in Workers, SaveTemplates(w)
  PROVE  Care'
<1> DEFINE s == job[w].src  d == src[s]
<1>1. job[w].phase = "in" /\ Head(job[w].prog) = "save" /\ d.state # "none"
  BY DEF SaveTemplates, AtLive, At, Exists
<1>2. AtWork(w)
  BY <1>1, WorkersAre
<1>3. CASE d.dir = 0
  BY <1>1, <1>3, BreaksKeepsCare DEF SaveTemplates, Doc
<1>4. CASE d.dir # 0
  <2>1. PICK x, prog : x = [d EXCEPT !.tpls = d.dir] /\ prog = Rest(w) /\ Step(w, x, prog)
    BY <1>4 DEF SaveTemplates, Doc
  <2>2. /\ x \in Document /\ x.type = d.type /\ x.state = d.state /\ x.dir = d.dir
        /\ x.tpls = x.dir
        /\ x.file = d.file /\ x.synced = d.synced /\ x.onSshfs = d.onSshfs
    BY <1>2, <2>1 DEF AtWork, Document
  <2>3. s \notin raced \cup torn => Removed(x, served[s]) /\ Kept(x)
    BY <1>1, <1>2, <2>2 DEF AtWork, Removed, Kept
  <2>4. \A step : <<"save", step>> \in Follows => step = "files"
    BY DEF Follows
  <2>5. \A step : <<"save", step>> \in Follows =>
          Relied(job[w], step, x, served[s], s \notin torn)
    BY <2>2, <2>4 DEF Relied
  <2> HIDE DEF s, d
  <2> QED
    BY <1>1, <2>1, <2>2, <2>3, <2>5, OrdinaryStep DEF s, d
<1> QED
  BY <1>3, <1>4

\* A file whose version is another is taken from SSHFS with its record.
LEMMA SaveFilesKeepsCare ==
  ASSUME IInv, Care, IInv', NEW w \in Workers, SaveFiles(w)
  PROVE  Care'
<1> DEFINE s == job[w].src  d == src[s]
<1>1. job[w].phase = "in" /\ Head(job[w].prog) = "files" /\ d.state # "none"
  BY DEF SaveFiles, AtLive, At, Exists
<1>2. AtWork(w)
  BY <1>1, WorkersAre
<1>3. PICK m, x, prog : /\ m = ManifestFiles(d)
                        /\ x = [m EXCEPT !.state = "discovered", !.op = "none"]
                        /\ prog = Rest(w) /\ Step(w, x, prog)
  BY DEF SaveFiles, Doc
<1>4. m \in Document /\ m.type = d.type /\ (m.synced => d.synced /\ m.onSshfs = d.onSshfs)
  BY <1>2, <1>3 DEF AtWork, Document, ManifestFiles
<1>5. /\ x \in Document /\ x.type = d.type /\ x.state = "discovered"
      /\ (x.synced => d.synced /\ x.onSshfs = d.onSshfs)
  BY <1>3, <1>4 DEF Document, SourceState, SourceOperation
<1>6. s \notin raced \cup torn => Removed(x, served[s]) /\ Kept(x)
  BY <1>1, <1>2, <1>5 DEF AtWork, Removed, Kept
<1>7. \A step : <<"files", step>> \in Follows => step = "paths"
  BY DEF Follows
<1>8. \A step : <<"files", step>> \in Follows =>
        Relied(job[w], step, x, served[s], s \notin torn)
  BY <1>7 DEF Relied
<1> HIDE DEF s, d
<1> QED
  BY <1>1, <1>3, <1>5, <1>6, <1>8, OrdinaryStep DEF s, d

\* The masters answered: an active source has its tree, and its files on SSHFS.
LEMMA AnsweredKeepsCare ==
  ASSUME IInv, Care, IInv', NEW w \in Workers, Answered(w)
  PROVE  Care'
<1> DEFINE s == job[w].src  d == src[s]
<1>1. job[w].phase = "in" /\ Head(job[w].prog) = "reply" /\ d.state # "none"
  BY DEF Answered, AtLive, At, Exists
<1>2. AtWork(w)
  BY <1>1, WorkersAre
<1>3. PICK x, prog : /\ x = [d EXCEPT !.state = "active", !.op = "none"]
                     /\ prog = Rest(w) /\ Step(w, x, prog)
  BY DEF Answered, Doc
<1>4. /\ x \in Document /\ x.type = d.type /\ x.state = "active" /\ x.dir = d.dir
      /\ x.file = d.file /\ x.synced = d.synced /\ x.onSshfs = d.onSshfs
  BY <1>2, <1>3 DEF AtWork, Document, SourceState, SourceOperation
<1>5. s \notin raced \cup torn => Removed(x, served[s]) /\ Kept(x)
  BY <1>1, <1>2, <1>4 DEF AtWork, Removed, Kept, Relied, Complete
<1>6. \A step : <<"reply", step>> \in Follows => FALSE
  BY DEF Follows
<1>7. \A step : <<"reply", step>> \in Follows =>
        Relied(job[w], step, x, served[s], s \notin torn)
  BY <1>6 DEF Relied
<1> HIDE DEF s, d
<1> QED
  BY <1>1, <1>3, <1>4, <1>5, <1>7, OrdinaryStep DEF s, d

\* An unplugged source is one that is discovered.
LEMMA UnpluggedKeepsCare ==
  ASSUME IInv, Care, IInv', NEW w \in Workers, Unplugged(w)
  PROVE  Care'
<1> DEFINE s == job[w].src  d == src[s]
<1>1. job[w].phase = "in" /\ Head(job[w].prog) = "unplugged" /\ d.state # "none"
  BY DEF Unplugged, AtLive, At, Exists
<1>2. AtWork(w)
  BY <1>1, WorkersAre
<1>3. PICK x, prog : /\ x = [d EXCEPT !.state = "discovered", !.op = "none"]
                     /\ prog = Rest(w) /\ Step(w, x, prog)
  BY DEF Unplugged, Doc
<1>4. /\ x \in Document /\ x.type = d.type /\ x.state = "discovered"
      /\ x.synced = d.synced /\ x.onSshfs = d.onSshfs
  BY <1>2, <1>3 DEF AtWork, Document, SourceState, SourceOperation
<1>5. s \notin raced \cup torn => Removed(x, served[s]) /\ Kept(x)
  BY <1>1, <1>2, <1>4 DEF AtWork, Removed, Kept
<1>6. \A step : <<"unplugged", step>> \in Follows => FALSE
  BY DEF Follows
<1>7. \A step : <<"unplugged", step>> \in Follows =>
        Relied(job[w], step, x, served[s], s \notin torn)
  BY <1>6 DEF Relied
<1> HIDE DEF s, d
<1> QED
  BY <1>1, <1>3, <1>4, <1>5, <1>7, OrdinaryStep DEF s, d

\* The documents go when everything else is gone.
LEMMA DropKeepsCare ==
  ASSUME IInv, Care, IInv', NEW w \in Workers, Drop(w)
  PROVE  Care'
<1> DEFINE s == job[w].src  d == src[s]
<1>1. job[w].phase = "in" /\ Head(job[w].prog) = "drop" /\ d.state # "none"
  BY DEF Drop, AtLive, At, Exists
<1>2. AtWork(w)
  BY <1>1, WorkersAre
<1>3. PICK x, prog : /\ x = [d EXCEPT !.state = "none", !.op = "none", !.tpls = 0,
                                         !.file = 0, !.synced = FALSE, !.token = <<>>]
                     /\ prog = <<>> /\ Step(w, x, prog)
  BY DEF Drop, Doc
<1>30. /\ 0 \in Versions /\ <<>> \in Seq(Versions)
       /\ "none" \in SourceState \cap SourceOperation
  BY SourcesAssumption DEF Versions, SourceState, SourceOperation
<1>4. /\ x \in Document /\ x.type = d.type /\ x.state = "none" /\ x.dir = d.dir
      /\ x.onSshfs = d.onSshfs /\ x.synced = FALSE
  BY <1>2, <1>3, <1>30 DEF AtWork, Document
<1>5. s \notin raced \cup torn => Removed(x, served[s]) /\ Kept(x)
  BY <1>1, <1>2, <1>4 DEF AtWork, Removed, Kept, Relied
<1>6. \A step : <<"drop", step>> \in Follows => FALSE
  BY DEF Follows
<1>7. \A step : <<"drop", step>> \in Follows =>
        Relied(job[w], step, x, served[s], s \notin torn)
  BY <1>6 DEF Relied
<1> HIDE DEF s, d
<1> QED
  BY <1>1, <1>3, <1>4, <1>5, <1>7, OrdinaryStep DEF s, d

\* A user's file is received.
LEMMA ReceiveFileKeepsCare ==
  ASSUME IInv, Care, IInv', NEW w \in Workers, ReceiveFile(w)
  PROVE  Care'
<1> DEFINE s == job[w].src  d == src[s]
<1>1. job[w].phase = "in" /\ Head(job[w].prog) = "receive" /\ d.state # "none"
  BY DEF ReceiveFile, AtLive, At, Exists
<1>2. AtWork(w)
  BY <1>1, WorkersAre
<1>3. PICK x, prog : x = [d EXCEPT !.op = "add_user_file"] /\ prog = Rest(w) /\ Step(w, x, prog)
  BY DEF ReceiveFile, Doc
<1>4. /\ x \in Document /\ x.type = d.type /\ x.state = d.state /\ x.dir = d.dir
      /\ x.file = d.file /\ x.synced = d.synced /\ x.onSshfs = d.onSshfs
  BY <1>2, <1>3 DEF AtWork, Document, SourceState, SourceOperation
<1>5. s \notin raced \cup torn => Removed(x, served[s]) /\ Kept(x)
  BY <1>1, <1>2, <1>4 DEF AtWork, Removed, Kept
<1>6. \A step : <<"receive", step>> \in Follows => step = "place"
  BY DEF Follows
<1>7. \A step : <<"receive", step>> \in Follows =>
        Relied(job[w], step, x, served[s], s \notin torn)
  BY <1>6 DEF Relied
<1> HIDE DEF s, d
<1> QED
  BY <1>1, <1>3, <1>4, <1>5, <1>7, OrdinaryStep DEF s, d

\* A user's file is in its place.
LEMMA PlaceFileKeepsCare ==
  ASSUME IInv, Care, IInv', NEW w \in Workers, PlaceFile(w)
  PROVE  Care'
<1> DEFINE s == job[w].src  d == src[s]
<1>1. job[w].phase = "in" /\ Head(job[w].prog) = "place" /\ d.state # "none"
  BY DEF PlaceFile, AtLive, At, Exists
<1>2. AtWork(w)
  BY <1>1, WorkersAre
<1>3. PICK x, prog : /\ x = [d EXCEPT !.state = "plugged", !.op = "none"]
                     /\ prog = Rest(w) /\ Step(w, x, prog)
  BY DEF PlaceFile, Doc
<1>4. /\ x \in Document /\ x.type = d.type /\ x.state = "plugged"
      /\ x.synced = d.synced /\ x.onSshfs = d.onSshfs
  BY <1>2, <1>3 DEF AtWork, Document, SourceState, SourceOperation
<1>5. s \notin raced \cup torn => Removed(x, served[s]) /\ Kept(x)
  BY <1>1, <1>2, <1>4 DEF AtWork, Removed, Kept
<1>6. \A step : <<"place", step>> \in Follows => FALSE
  BY DEF Follows
<1>7. \A step : <<"place", step>> \in Follows =>
        Relied(job[w], step, x, served[s], s \notin torn)
  BY <1>6 DEF Relied
<1> HIDE DEF s, d
<1> QED
  BY <1>1, <1>3, <1>4, <1>5, <1>7, OrdinaryStep DEF s, d

\* A check unpacks the archive beside the tree.
LEMMA UnpackKeepsCare ==
  ASSUME IInv, Care, IInv', NEW w \in Workers, Unpack(w)
  PROVE  Care'
<1> DEFINE s == job[w].src  d == src[s]
<1>1. job[w].phase = "in" /\ Head(job[w].prog) = "unpack" /\ d.state # "none"
  BY DEF Unpack, AtLive, At, Exists
<1>2. AtWork(w)
  BY <1>1, WorkersAre
<1>3. PICK x, prog : x = [d EXCEPT !.ext = d.upstream] /\ prog = Rest(w) /\ Step(w, x, prog)
  BY DEF Unpack, Doc
<1>4. /\ x \in Document /\ x.type = d.type /\ x.state = d.state /\ x.dir = d.dir
      /\ x.file = d.file /\ x.synced = d.synced /\ x.onSshfs = d.onSshfs
  BY <1>2, <1>3 DEF AtWork, Document, SourceState, SourceOperation
<1>5. s \notin raced \cup torn => Removed(x, served[s]) /\ Kept(x)
  BY <1>1, <1>2, <1>4 DEF AtWork, Removed, Kept
<1>6. \A step : <<"unpack", step>> \in Follows => step = "compare"
  BY DEF Follows
<1>7. \A step : <<"unpack", step>> \in Follows =>
        Relied(job[w], step, x, served[s], s \notin torn)
  BY <1>6 DEF Relied
<1> HIDE DEF s, d
<1> QED
  BY <1>1, <1>3, <1>4, <1>5, <1>7, OrdinaryStep DEF s, d

\* Who is told of a tree has it, and no file is left that is not on SSHFS.
LEMMA PullFilesKeepsCare ==
  ASSUME IInv, Care, IInv', NEW w \in Workers, PullFiles(w)
  PROVE  Care'
<1> DEFINE s == job[w].src  d == src[s]
<1>1. job[w].phase = "in" /\ Head(job[w].prog) = "pull" /\ d.state # "none"
  BY DEF PullFiles, AtLive, At, Exists
<1>2. AtWork(w)
  BY <1>1, WorkersAre
<1>3. PICK p, x, prog : /\ p = Pulled(d) /\ x = [p EXCEPT !.state = "plugged", !.op = "none"]
                        /\ prog = Rest(w) /\ Step(w, x, prog)
  BY DEF PullFiles, Doc
<1>4. /\ p \in Document /\ p.type = d.type /\ (p.file # 0 => p.synced)
      /\ p.synced => (d.synced /\ p.onSshfs = d.onSshfs) \/ p.onSshfs
  BY <1>2, <1>3 DEF AtWork, Document, Pulled
<1>5. /\ x \in Document /\ x.type = d.type /\ x.state = "plugged" /\ (x.file # 0 => x.synced)
      /\ x.synced => (d.synced /\ x.onSshfs = d.onSshfs) \/ x.onSshfs
  BY <1>3, <1>4 DEF Document, SourceState, SourceOperation
<1>6. s \notin raced \cup torn => Removed(x, served[s]) /\ Kept(x)
  BY <1>1, <1>2, <1>5 DEF AtWork, Removed, Kept
<1>7. \A step : <<"pull", step>> \in Follows => step = "notify"
  BY DEF Follows
<1>8. s \notin raced /\ s \notin torn => Complete(x)
  BY <1>5, <1>6 DEF Kept, Complete
<1>9. s \notin raced => \A step : <<"pull", step>> \in Follows =>
        Relied(job[w], step, x, served[s], s \notin torn)
  BY <1>7, <1>8 DEF Relied
<1> HIDE DEF s, d
<1> QED
  BY <1>1, <1>3, <1>5, <1>6, <1>9, OrdinaryStep DEF s, d

\* The masters are told of a tree that there is, or the source breaks; without
\* a master there is nobody to wait for.
LEMMA NotifyKeepsCare ==
  ASSUME IInv, Care, IInv', NEW w \in Workers, Notify(w)
  PROVE  Care'
<1> DEFINE s == job[w].src  d == src[s]
<1>1. job[w].phase = "in" /\ Head(job[w].prog) = "notify" /\ d.state # "none"
  BY DEF Notify, AtLive, At, Exists
<1>2. AtWork(w)
  BY <1>1, WorkersAre
<1>3. CASE d.dir = 0
  BY <1>1, <1>3, BreaksKeepsCare DEF Notify, Doc
<1>4. CASE d.dir # 0
  <2>1. PICK x, prog :
           /\ \/ x = [d EXCEPT !.op = "sync"] /\ prog = Rest(w)
              \/ x = [d EXCEPT !.state = "plugged", !.op = "sync"] /\ prog = <<>>
           /\ Step(w, x, prog)
    BY <1>4 DEF Notify, Doc
  <2>2. /\ x \in Document /\ x.type = d.type /\ x.state \in {d.state, "plugged"} /\ x.dir = d.dir
        /\ x.file = d.file /\ x.synced = d.synced /\ x.onSshfs = d.onSshfs
    BY <1>2, <2>1 DEF AtWork, Document, SourceState, SourceOperation
  <2>3. s \notin raced \cup torn => Removed(x, served[s]) /\ Kept(x)
    BY <1>1, <1>2, <2>1, <2>2 DEF AtWork, Removed, Kept
  <2>4. \A step : <<"notify", step>> \in Follows => step = "reply"
    BY DEF Follows
  <2>5. s \notin raced => \A step : <<"notify", step>> \in Follows =>
          Relied(job[w], step, x, served[s], s \notin torn)
    BY <1>1, <1>2, <1>4, <2>2, <2>4 DEF AtWork, Relied, Complete
  <2> HIDE DEF s, d
  <2> QED
    BY <1>1, <2>1, <2>2, <2>3, <2>5, OrdinaryStep DEF s, d
<1> QED
  BY <1>3, <1>4

\* The last local source stays; another is said to be going.
LEMMA CountLocalKeepsCare ==
  ASSUME IInv, Care, IInv', NEW w \in Workers, CountLocal(w)
  PROVE  Care'
<1> DEFINE s == job[w].src  d == src[s]
<1>1. job[w].phase = "in" /\ Head(job[w].prog) = "count" /\ d.state # "none"
  BY DEF CountLocal, AtLive, At, Exists
<1>2. AtWork(w)
  BY <1>1, WorkersAre
<1>3. PICK x, prog : /\ \/ x = [d EXCEPT !.state = "discovered", !.op = "none"] /\ prog = <<>>
                        \/ x = [d EXCEPT !.op = "remove"] /\ prog = Rest(w)
                     /\ Step(w, x, prog)
  BY DEF CountLocal
<1>4. /\ x \in Document /\ x.type = d.type /\ x.state \in {d.state, "discovered"}
      /\ x.dir = d.dir /\ (prog # <<>> => x.op = "remove")
      /\ x.file = d.file /\ x.synced = d.synced /\ x.onSshfs = d.onSshfs
  BY <1>2, <1>3 DEF AtWork, Document, SourceState, SourceOperation
<1>5. s \notin raced \cup torn => Removed(x, served[s]) /\ Kept(x)
  BY <1>1, <1>2, <1>4 DEF AtWork, Removed, Kept
<1>6. \A step : <<"count", step>> \in Follows => step = "erase"
  BY DEF Follows
<1>7. prog # <<>> => \A step : <<"count", step>> \in Follows =>
        Relied(job[w], step, x, served[s], s \notin torn)
  BY <1>4, <1>6 DEF Relied
<1> HIDE DEF s, d
<1> QED
  BY <1>1, <1>3, <1>4, <1>5, <1>7, OrdinaryStep DEF s, d

\* A template is written to the tree and to the database at once.
LEMMA CreateTemplateKeepsCare ==
  ASSUME IInv, Care, IInv', NEW w \in Workers, CreateTemplate(w)
  PROVE  Care'
<1> DEFINE s == job[w].src  d == src[s]
<1>1. job[w].phase = "in" /\ Head(job[w].prog) = "create" /\ d.state # "none"
  BY DEF CreateTemplate, AtLive, At, Exists
<1>2. AtWork(w)
  BY <1>1, WorkersAre
<1>3. d.dir < MaxVersion => d.dir + 1 \in Versions \ {0}
  <2>1. d.dir \in Versions
    BY <1>2 DEF AtWork, Document
  <2>2. ASSUME NEW a \in Versions, a < MaxVersion PROVE a + 1 \in Versions \ {0}
    BY <2>2, SourcesAssumption DEF Versions
  <2> HIDE DEF d
  <2> QED
    BY <2>1, <2>2
<1>4. PICK x, prog :
         /\ \/ x = [d EXCEPT !.op = "none"] /\ prog = <<>>
            \/ /\ d.dir < MaxVersion /\ prog = Rest(w)
               /\ x = [d EXCEPT !.state = "discovered", !.op = "none", !.dir = d.dir + 1,
                                !.tpls = d.dir + 1]
         /\ Step(w, x, prog)
  BY DEF CreateTemplate, Doc
<1>5. /\ x \in Document /\ x.type = d.type
      /\ (x.state = d.state /\ x.dir = d.dir) \/ x.state = "discovered"
      /\ x.file = d.file /\ x.synced = d.synced /\ x.onSshfs = d.onSshfs
  BY <1>2, <1>3, <1>4 DEF AtWork, Document, SourceState, SourceOperation
<1>6. s \notin raced \cup torn => Removed(x, served[s]) /\ Kept(x)
  BY <1>1, <1>2, <1>5 DEF AtWork, Removed, Kept
<1>7. \A step : <<"create", step>> \notin Follows
  BY DEF Follows
<1> HIDE DEF s, d
<1> QED
  BY <1>1, <1>4, <1>5, <1>6, <1>7, OrdinaryStep DEF s, d

\* An edit puts the source back to pending, for the discovery not to be skipped.
LEMMA EditTemplateKeepsCare ==
  ASSUME IInv, Care, IInv', NEW w \in Workers, EditTemplate(w)
  PROVE  Care'
<1> DEFINE s == job[w].src  d == src[s]
<1>1. job[w].phase = "in" /\ Head(job[w].prog) = "edit" /\ d.state # "none"
  BY DEF EditTemplate, AtLive, At, Exists
<1>2. AtWork(w)
  BY <1>1, WorkersAre
<1>3. CASE d.tpls < 2 \/ d.dir = MaxVersion
  <2>1. PICK x, prog : x = d /\ prog = <<>> /\ Step(w, x, prog)
    BY <1>3 DEF EditTemplate, Doc
  <2>2. x \in Document /\ (s \notin raced \cup torn => Removed(x, served[s]) /\ Kept(x))
    BY <1>1, <1>2, <2>1 DEF AtWork
  <2> HIDE DEF s, d
  <2> QED
    BY <1>1, <2>1, <2>2, OrdinaryStep DEF s, d
<1>4. CASE ~(d.tpls < 2 \/ d.dir = MaxVersion)
  <2>1. d.dir + 1 \in Versions
    <3>1. d.dir \in Versions
      BY <1>2 DEF AtWork, Document
    <3>2. ASSUME NEW a \in Versions, a # MaxVersion PROVE a + 1 \in Versions
      BY <3>2, SourcesAssumption DEF Versions
    <3> QED
      BY <1>4, <3>1, <3>2
  <2>2. PICK x, prog : /\ x = [d EXCEPT !.state = "pending", !.op = EditOp(w), !.dir = @ + 1]
                       /\ prog = Rest(w) /\ Step(w, x, prog)
    BY <1>4 DEF EditTemplate, Doc
  <2>3. EditOp(w) \in SourceOperation
    BY DEF EditOp, SourceOperation
  <2>4. /\ x \in Document /\ x.type = d.type /\ x.state = "pending"
        /\ x.file = d.file /\ x.synced = d.synced /\ x.onSshfs = d.onSshfs
    BY <1>2, <2>1, <2>2, <2>3 DEF AtWork, Document, SourceState
  <2>5. s \notin raced \cup torn => Removed(x, served[s]) /\ Kept(x)
    BY <1>1, <1>2, <2>4 DEF AtWork, Removed, Kept
  <2>6. \A step : <<"edit", step>> \in Follows => step = "begin"
    BY DEF Follows
  <2>7. \A step : <<"edit", step>> \in Follows =>
          Relied(job[w], step, x, served[s], s \notin torn)
    BY <2>4, <2>6 DEF Relied
  <2> HIDE DEF s, d
  <2> QED
    BY <1>1, <2>2, <2>4, <2>5, <2>7, OrdinaryStep DEF s, d
<1> QED
  BY <1>3, <1>4

\* A listed repository's source is pending again, or left as it is.
LEMMA RefreshKeepsCare ==
  ASSUME IInv, Care, IInv', NEW w \in Workers, Refresh(w)
  PROVE  Care'
<1> DEFINE s == job[w].src  d == src[s]
<1>1. job[w].phase = "in" /\ Head(job[w].prog) = "refresh" /\ d.state # "none"
  BY DEF Refresh, AtLive, At, Exists
<1>2. AtWork(w)
  BY <1>1, WorkersAre
<1>3. PICK x, prog : /\ \/ x = [d EXCEPT !.state = "pending"] /\ prog = Rest(w)
                        \/ x = d /\ prog = <<>>
                     /\ Step(w, x, prog)
  BY DEF Refresh, Doc
<1>4. /\ x \in Document /\ x.type = d.type
      /\ (x.state = d.state /\ x.dir = d.dir) \/ x.state = "pending"
      /\ prog # <<>> => x.state = "pending"
      /\ x.file = d.file /\ x.synced = d.synced /\ x.onSshfs = d.onSshfs
  BY <1>2, <1>3 DEF AtWork, Document, SourceState
<1>5. s \notin raced \cup torn => Removed(x, served[s]) /\ Kept(x)
  BY <1>1, <1>2, <1>4 DEF AtWork, Removed, Kept
<1>6. \A step : <<"refresh", step>> \in Follows => step = "begin"
  BY DEF Follows
<1>7. prog # <<>> => \A step : <<"refresh", step>> \in Follows =>
        Relied(job[w], step, x, served[s], s \notin torn)
  BY <1>4, <1>6 DEF Relied
<1> HIDE DEF s, d
<1> QED
  BY <1>1, <1>3, <1>4, <1>5, <1>7, OrdinaryStep DEF s, d

\* A check answers with the token of the difference it saw.
LEMMA CompareKeepsCare ==
  ASSUME IInv, Care, IInv', NEW w \in Workers, Compare(w)
  PROVE  Care'
<1> DEFINE s == job[w].src  d == src[s]
<1>1. job[w].phase = "in" /\ Head(job[w].prog) = "compare" /\ d.state # "none"
  BY DEF Compare, AtLive, At, Exists
<1>2. AtWork(w)
  BY <1>1, WorkersAre
<1>3. Token(d) \in Seq(Versions)
  <2>1. d.upstream \in Versions /\ d.dir \in Versions /\ d.ext \in Versions
    BY <1>2 DEF AtWork, Document
  <2> HIDE DEF d
  <2> QED
    BY <2>1 DEF Token
<1>4. PICK token, x, prog :
         /\ token \in Seq(Versions) /\ x = [d EXCEPT !.token = token]
         /\ prog = Rest(w) /\ Step(w, x, prog)
  <2>1. d = [d EXCEPT !.token = d.token] /\ d.token \in Seq(Versions)
    BY <1>2 DEF AtWork, Document
  <2>2. PICK x : /\ Step(w, x, Rest(w))
                 /\ x = IF Comparable(d) THEN [d EXCEPT !.token = Token(d)] ELSE d
    BY DEF Compare, Doc
  <2> QED
    BY <1>3, <2>1, <2>2, Zenon
<1>5. /\ x \in Document /\ x.type = d.type /\ x.state = d.state /\ x.dir = d.dir
      /\ x.file = d.file /\ x.synced = d.synced /\ x.onSshfs = d.onSshfs
  BY <1>2, <1>4 DEF AtWork, Document
<1>6. s \notin raced \cup torn => Removed(x, served[s]) /\ Kept(x)
  BY <1>1, <1>2, <1>5 DEF AtWork, Removed, Kept
<1>7. \A step : <<"compare", step>> \notin Follows
  BY DEF Follows
<1> HIDE DEF s, d
<1> QED
  BY <1>1, <1>4, <1>5, <1>6, <1>7, OrdinaryStep DEF s, d

\* The apply task goes on only if the difference has the token it was given.
LEMMA GuardKeepsCare ==
  ASSUME IInv, Care, IInv', NEW w \in Workers, Guard(w)
  PROVE  Care'
<1> DEFINE s == job[w].src  d == src[s]
<1>1. job[w].phase = "in" /\ Head(job[w].prog) = "guard" /\ d.state # "none"
  BY DEF Guard, AtLive, At, Exists
<1>2. AtWork(w)
  BY <1>1, WorkersAre
<1>3. PICK x, prog : /\ x = d /\ Step(w, x, prog)
                     /\ \/ prog = <<>>
                        \/ prog = Rest(w) /\ Comparable(d) /\ Token(d) = job[w].token
  BY DEF Guard, Doc
<1>4. x \in Document /\ (s \notin raced \cup torn => Removed(x, served[s]) /\ Kept(x))
  BY <1>1, <1>2, <1>3 DEF AtWork
<1>5. \A step : <<"guard", step>> \in Follows => step \in {"begin", "promote"}
  BY DEF Follows
<1>6. job[w].task \notin {"update", "delete"}
  BY <1>1, <1>2 DEF AtWork, OfTask
<1>7. ASSUME prog # <<>>, OfTask(job[w].task, "promote")
      PROVE  job[w].token = <<d.dir, d.ext>> /\ d.ext # 0
  <2>1. d.type = "archive"
    BY <1>2, <1>7 DEF AtWork, OfTask
  <2> QED
    BY <1>3, <1>7, <2>1 DEF Token, Comparable
<1>8. prog # <<>> => \A step :
        <<"guard", step>> \in Follows /\ OfTask(job[w].task, step) =>
        Relied(job[w], step, x, served[s], s \notin torn)
  BY <1>3, <1>5, <1>6, <1>7 DEF Relied
<1> HIDE DEF s, d
<1> QED
  BY <1>1, <1>3, <1>4, <1>8, OrdinaryStep DEF s, d

\* The archive that was checked takes the tree's place.
LEMMA PromoteKeepsCare ==
  ASSUME IInv, Care, IInv', NEW w \in Workers, Promote(w)
  PROVE  Care'
<1> DEFINE s == job[w].src  d == src[s]
<1>1. job[w].phase = "in" /\ Head(job[w].prog) = "promote" /\ d.state # "none"
  BY DEF Promote, AtLive, At, Exists
<1>2. AtWork(w)
  BY <1>1, WorkersAre
<1>3. PICK x, prog : x = [d EXCEPT !.dir = d.ext, !.ext = 0] /\ prog = Rest(w) /\ Step(w, x, prog)
  BY DEF Promote, Doc
<1>4. /\ x \in Document /\ x.type = d.type /\ x.state = d.state /\ x.dir = d.ext
      /\ x.file = d.file /\ x.synced = d.synced /\ x.onSshfs = d.onSshfs
  <2>1. 0 \in Versions
    BY SourcesAssumption DEF Versions
  <2> QED
    BY <1>2, <1>3, <2>1 DEF AtWork, Document
<1>5. s \notin raced \cup torn => Removed(x, served[s]) /\ Kept(x)
  BY <1>1, <1>2, <1>4 DEF AtWork, Removed, Kept, Relied
<1>6. \A step : <<"promote", step>> \in Follows => step = "begin"
  BY DEF Follows
<1>7. job[w].task \notin {"update", "delete"}
  BY <1>1, <1>2 DEF AtWork, OfTask
<1>8. \A step : <<"promote", step>> \in Follows =>
        Relied(job[w], step, x, served[s], s \notin torn)
  BY <1>6, <1>7 DEF Relied
<1> HIDE DEF s, d
<1> QED
  BY <1>1, <1>3, <1>4, <1>5, <1>8, OrdinaryStep DEF s, d

\* The task of a source whose documents are gone ends.
LEMMA GoneKeepsCare ==
  ASSUME IInv, Care, IInv', NEW w \in Workers, Gone(w)
  PROVE  Care'
<1> DEFINE s == job[w].src  d == src[s]
<1>1. job[w].phase = "in" /\ d.state = "none" /\ Goto(w, <<>>)
  BY DEF Gone, Exists
<1>2. AtWork(w)
  BY <1>1, WorkersAre
<1>3. PICK x, prog : x = d /\ prog = <<>>
  OBVIOUS
<1>4. Moves(w, prog)
  BY <1>1, <1>3, GotoMoves
<1>5. Changes(w, x)
  BY <1>2, <1>3 DEF AtWork, Changes, Gone
<1>6. s \notin raced \cup torn => Removed(d, served[s]) /\ Kept(d)
  BY <1>1, <1>2 DEF AtWork, Removed, Kept
<1>7. Leads(w, x, prog)
  BY <1>3, <1>6 DEF Leads, Gone
<1> QED
  BY <1>1, <1>4, <1>5, <1>7, StepKeepsCare

\* The list of sources to serve is read.
LEMMA PreparePathsKeepsCare ==
  ASSUME IInv, Care, IInv', NEW w \in Workers, PreparePaths(w)
  PROVE  Care'
<1> DEFINE s == job[w].src  d == src[s]
<1>1. job[w].phase = "in" /\ Head(job[w].prog) = "paths" /\ d.state # "none"
  BY DEF PreparePaths, AtLive, At, Exists
<1>2. AtWork(w)
  BY <1>1, WorkersAre
<1>3. PICK p : p = [d EXCEPT !.op = "prepare_templates"]
  OBVIOUS
<1>4. /\ p \in Document /\ p.type = d.type /\ p.state = d.state /\ p.dir = d.dir
      /\ p.file = d.file /\ p.synced = d.synced /\ p.onSshfs = d.onSshfs
  BY <1>2, <1>3 DEF AtWork, Document, SourceOperation
<1>5. CASE d.dir = 0
  <2>1. PICK x, prog : x = [p EXCEPT !.state = "broken"] /\ prog = <<>> /\ Step(w, x, prog)
    BY <1>3, <1>5 DEF PreparePaths, Breaks, Broken
  <2>2. /\ x \in Document /\ x.type = d.type /\ x.state = "broken"
        /\ x.synced = d.synced /\ x.onSshfs = d.onSshfs
    BY <1>4, <2>1 DEF Document, SourceState
  <2>3. s \notin raced \cup torn => Removed(x, served[s]) /\ Kept(x)
    BY <1>1, <1>2, <2>2 DEF AtWork, Removed, Kept
  <2> HIDE DEF s, d
  <2> QED
    BY <1>1, <2>1, <2>2, <2>3, OrdinaryStep DEF s, d
<1>6. CASE d.dir # 0
  <2>1. PICK list, j, prog :
          /\ list = _serve_templates_to_serve_dir(s) /\ prog = Rest(w)
          /\ j = [job[w] EXCEPT !.prog = prog, !.list = list]
          /\ job' = [job EXCEPT ![w] = j]
    BY <1>6 DEF PreparePaths, IInv, JobsAndLocks, Rest
  <2>2. list \subseteq Srcs
    BY <1>2, <2>1 DEF _serve_templates_to_serve_dir, AtWork
  <2>3. /\ prog # <<>> /\ IsProgram(job[w].task, prog) /\ Head(prog) = "serve"
    BY <1>1, <1>2, <2>1, RestOfProgram DEF AtWork, Rest, Finals, Follows
  <2>4. IsJob(job[w])
    BY DEF IInv, JobsAndLocks
  <2>5. j = [phase |-> job[w].phase, task |-> job[w].task, src |-> job[w].src,
             prog |-> prog, list |-> list, token |-> job[w].token]
    BY <2>1, <2>4 DEF IsJob
  <2>6. Moves(w, prog)
    <3>1. /\ IsJob(j) /\ j.phase = "in" /\ j.task = job[w].task /\ j.src = job[w].src
          /\ j.token = job[w].token /\ j.list \subseteq Srcs /\ j.prog = prog
      BY <1>1, <2>2, <2>4, <2>5 DEF IsJob
    <3>2. job' = [job EXCEPT ![w] = j]
      BY <2>1
    <3> QED
      BY <2>3, <3>1, <3>2 DEF Moves
  <2>7. Changes(w, p)
    BY <1>2, <1>3, <1>4, <1>6 DEF PreparePaths, Set, Others, Changes, AtWork
  <2>8. s \notin raced \cup torn => Removed(p, served[s]) /\ Kept(p)
    BY <1>1, <1>2, <1>4 DEF AtWork, Removed, Kept
  <2>9. served' = served /\ torn' = torn
    BY <1>6 DEF PreparePaths, Others
  <2>10. Leads(w, p, prog)
    BY <2>3, <2>8, <2>9 DEF Leads, Relied
  <2> QED
    BY <1>1, <2>6, <2>7, <2>10, StepKeepsCare
<1> QED
  BY <1>5, <1>6

\* rsync serves trees that there are, and takes away the others: a source that
\* is gone is not served, however old the list is.
LEMMA ServeKeepsCare ==
  ASSUME IInv, Care, IInv', NEW w \in Workers, Serve(w)
  PROVE  Care'
<1> DEFINE s == job[w].src  d == src[s]
<1>1. job[w].phase = "in" /\ Head(job[w].prog) = "serve"
  BY DEF Serve, At
<1>2. AtWork(w)
  BY <1>1, WorkersAre
<1>3. \A t \in Srcs : src[t].dir \in Versions
  BY <1>2 DEF AtWork, Document
<1>4. /\ served' \in [Srcs -> Versions] /\ \A t \in Srcs : served'[t] \in {src[t].dir, 0}
  BY <1>3, SourcesAssumption DEF Serve, Versions
<1>5. raced' = raced /\ torn' = torn /\ requests' = requests /\ faults' = faults
  BY DEF Serve
<1>6. CASE d.state = "none"
  <2>1. PICK x, prog : x = d /\ prog = <<>> /\ Goto(w, prog) /\ src' = src
    BY <1>6 DEF Serve, Exists
  <2>2. Moves(w, prog)
    BY <1>1, <2>1, GotoMoves
  <2>3. Changes(w, x)
    BY <1>2, <1>4, <1>5, <2>1 DEF AtWork, Changes
  <2>4. s \notin raced \cup torn => Removed(d, served'[s]) /\ Kept(d)
    BY <1>1, <1>2, <1>4, <1>6 DEF AtWork, Removed, Kept
  <2>5. Leads(w, x, prog)
    BY <1>5, <2>1, <2>4 DEF Leads
  <2> QED
    BY <1>1, <2>2, <2>3, <2>5, StepKeepsCare
<1>7. CASE d.state # "none"
  <2>1. PICK x, prog : /\ x = [d EXCEPT !.op = "prepare_files"] /\ prog = Rest(w)
                       /\ Goto(w, prog) /\ src' = [src EXCEPT ![s] = x]
    BY <1>7 DEF Serve, Exists, Set
  <2>2. /\ x \in Document /\ x.type = d.type /\ x.state = d.state /\ x.dir = d.dir
        /\ x.file = d.file /\ x.synced = d.synced /\ x.onSshfs = d.onSshfs
    BY <1>2, <2>1 DEF AtWork, Document, SourceOperation
  <2>3. Moves(w, prog)
    BY <1>1, <2>1, GotoMoves
  <2>4. Changes(w, x)
    BY <1>2, <1>4, <1>5, <2>1, <2>2 DEF AtWork, Changes
  <2>5. s \notin raced \cup torn => Removed(x, served'[s]) /\ Kept(x)
    BY <1>1, <1>2, <1>7, <2>2 DEF AtWork, Removed, Kept
  <2>6. prog # <<>> => IsProgram(job[w].task, prog) /\ Head(prog) = "pull"
    BY <1>1, <1>2, <2>1, RestOfProgram DEF AtWork, Rest, Follows
  <2>7. Leads(w, x, prog)
    BY <1>5, <2>5, <2>6 DEF Leads, Relied
  <2> QED
    BY <1>1, <2>3, <2>4, <2>7, StepKeepsCare
<1> QED
  BY <1>6, <1>7

\* What an unplugged source had served is taken away.
LEMMA UnserveKeepsCare ==
  ASSUME IInv, Care, IInv', NEW w \in Workers, Unserve(w)
  PROVE  Care'
<1> DEFINE s == job[w].src  d == src[s]
<1>1. job[w].phase = "in" /\ Head(job[w].prog) = "unserve" /\ d.state # "none"
  BY DEF Unserve, AtLive, At, Exists
<1>2. AtWork(w)
  BY <1>1, WorkersAre
<1>3. PICK x, prog : /\ x = [d EXCEPT !.op = "unplug"] /\ prog = Rest(w)
                     /\ Goto(w, prog) /\ src' = [src EXCEPT ![s] = x]
  BY DEF Unserve, Set
<1>4. /\ x \in Document /\ x.type = d.type /\ x.state = d.state /\ x.dir = d.dir
      /\ x.file = d.file /\ x.synced = d.synced /\ x.onSshfs = d.onSshfs
  BY <1>2, <1>3 DEF AtWork, Document, SourceOperation
<1>5. Moves(w, prog)
  BY <1>1, <1>3, GotoMoves
<1>6. /\ served' \in [Srcs -> Versions] /\ \A t \in Srcs : served'[t] \in {served[t], 0}
  BY <1>2, SourcesAssumption DEF Unserve, AtWork, Versions
<1>7. raced' = raced /\ torn' = torn /\ requests' = requests /\ faults' = faults
  BY DEF Unserve
<1>8. Changes(w, x)
  BY <1>2, <1>3, <1>4, <1>6, <1>7 DEF AtWork, Changes
<1>9. s \notin raced \cup torn => Removed(x, served'[s]) /\ Kept(x)
  BY <1>1, <1>2, <1>4 DEF AtWork, Removed, Kept
<1>10. prog # <<>> => IsProgram(job[w].task, prog) /\ Head(prog) = "unplugged"
  BY <1>1, <1>2, <1>3, RestOfProgram DEF AtWork, Rest, Follows
<1>11. Leads(w, x, prog)
  BY <1>7, <1>9, <1>10 DEF Leads, Relied
<1> QED
  BY <1>1, <1>5, <1>8, <1>11, StepKeepsCare

\* What no abort brings back goes first: then the documents may go.
LEMMA EraseKeepsCare ==
  ASSUME IInv, Care, IInv', NEW w \in Workers, Erase(w)
  PROVE  Care'
<1> DEFINE s == job[w].src  d == src[s]
<1>1. job[w].phase = "in" /\ Head(job[w].prog) = "erase" /\ d.state # "none"
  BY DEF Erase, AtLive, At, Exists
<1>2. AtWork(w)
  BY <1>1, WorkersAre
<1>3. PICK x, prog : /\ x = [d EXCEPT !.dir = 0, !.onSshfs = FALSE] /\ prog = Rest(w)
                     /\ Goto(w, prog) /\ src' = [src EXCEPT ![s] = x]
  BY DEF Erase, Set
<1>4. 0 \in Versions
  BY SourcesAssumption DEF Versions
<1>5. /\ x \in Document /\ x.type = d.type /\ x.state = d.state /\ x.op = d.op
      /\ x.dir = 0 /\ x.onSshfs = FALSE
  BY <1>2, <1>3, <1>4 DEF AtWork, Document
<1>6. Moves(w, prog)
  BY <1>1, <1>3, GotoMoves
<1>7. /\ served' \in [Srcs -> Versions] /\ \A t \in Srcs : served'[t] \in {served[t], 0}
      /\ served'[s] = 0
  BY <1>2, <1>4 DEF Erase, AtWork
<1>8. raced' = raced /\ torn' = torn /\ requests' = requests /\ faults' = faults
  BY DEF Erase
<1>9. Changes(w, x)
  BY <1>2, <1>3, <1>5, <1>7, <1>8 DEF AtWork, Changes
<1>10. prog # <<>> /\ IsProgram(job[w].task, prog) /\ Head(prog) = "drop"
  BY <1>1, <1>2, <1>3, RestOfProgram DEF AtWork, Rest, Follows, Finals
<1>11. s \notin raced => x.op = "remove"
  BY <1>1, <1>2, <1>5 DEF AtWork, Relied
<1>12. Leads(w, x, prog)
  BY <1>1, <1>5, <1>7, <1>8, <1>10, <1>11 DEF Leads, Relied, Removed
<1> QED
  BY <1>1, <1>6, <1>9, <1>12, StepKeepsCare

\* An operation that fails breaks the source; in the transaction that removes
\* it, what was erased is lost.
LEMMA FailKeepsCare ==
  ASSUME IInv, Care, IInv', NEW w \in Workers, Fail(w)
  PROVE  Care'
<1> DEFINE s == job[w].src  d == src[s]
<1>1. job[w].phase = "in"
  BY DEF Fail, AtLive, At
<1>2. AtWork(w)
  BY <1>1, WorkersAre
<1>3. PICK x, prog : /\ x = [d EXCEPT !.state = "broken"] /\ prog = <<>>
                     /\ Goto(w, prog) /\ src' = [src EXCEPT ![s] = x]
  BY DEF Fail, Broken, Set
<1>4. /\ x \in Document /\ x.type = d.type /\ x.state = "broken"
      /\ x.synced = d.synced /\ x.onSshfs = d.onSshfs
  BY <1>2, <1>3 DEF AtWork, Document, SourceState
<1>5. Moves(w, prog)
  BY <1>1, <1>3, GotoMoves
<1>6. /\ raced' = raced /\ served' = served /\ requests' = requests
      /\ torn' = IF Head(job[w].prog) = "drop" THEN torn \cup {s} ELSE torn
  BY <1>1 DEF Fail, At
<1>7. faults' \in 0..MaxFaults
  BY <1>2, SourcesAssumption DEF Fail, AtWork
<1>8. Changes(w, x)
  BY <1>2, <1>3, <1>4, <1>6, <1>7 DEF AtWork, Changes
<1>9. s \notin raced \cup torn' => Removed(x, served[s]) /\ Kept(x)
  BY <1>2, <1>4, <1>6 DEF AtWork, Removed, Kept
<1>10. Leads(w, x, prog)
  BY <1>3, <1>6, <1>9 DEF Leads
<1> QED
  BY <1>1, <1>5, <1>8, <1>10, StepKeepsCare

\* A clone that fails goes on with the removal of the source.
LEMMA CloneFailsKeepsCare ==
  ASSUME IInv, Care, IInv', NEW w \in Workers, CloneFails(w)
  PROVE  Care'
<1> DEFINE s == job[w].src  d == src[s]
<1>1. job[w].phase = "in" /\ Head(job[w].prog) = "fetch" /\ job[w].task = "discover"
  BY DEF CloneFails, AtLive, At
<1>2. AtWork(w)
  BY <1>1, WorkersAre
<1>3. PICK x, prog : /\ x = [d EXCEPT !.state = "broken"] /\ prog = Remove
                     /\ Goto(w, prog) /\ src' = [src EXCEPT ![s] = x]
  BY DEF CloneFails, Broken, Set
<1>4. /\ x \in Document /\ x.type = d.type /\ x.state = "broken"
      /\ x.synced = d.synced /\ x.onSshfs = d.onSshfs
  BY <1>2, <1>3 DEF AtWork, Document, SourceState
<1>5. Moves(w, prog)
  BY <1>1, <1>3, GotoMoves
<1>6. raced' = raced /\ torn' = torn /\ served' = served /\ requests' = requests
  BY DEF CloneFails, Others
<1>7. faults' \in 0..MaxFaults
  BY <1>2, SourcesAssumption DEF CloneFails, AtWork
<1>8. Changes(w, x)
  BY <1>2, <1>3, <1>4, <1>6, <1>7 DEF AtWork, Changes
<1>9. s \notin raced \cup torn => Removed(x, served[s]) /\ Kept(x)
  BY <1>1, <1>2, <1>4 DEF AtWork, Removed, Kept
<1>10. prog # <<>> /\ IsProgram(job[w].task, prog) /\ Head(prog) = "count"
  <2>1. IsPart(job[w].task, Remove, "count", "drop")
    BY <1>1, OperationsAreParts
  <2> QED
    BY <1>3, <2>1 DEF IsProgram, Finals, Remove
<1>11. Leads(w, x, prog)
  BY <1>6, <1>9, <1>10 DEF Leads, Relied
<1> QED
  BY <1>1, <1>5, <1>8, <1>11, StepKeepsCare
-----------------------------------------------------------------------------
(* What is not a step of a program.                                        *)
\* A worker about to begin a program.
Fresh(j) ==
    /\ j.phase \in {"check", "lock", "in"} /\ j.src \in Srcs /\ j.list \subseteq Srcs
    /\ j.task \in TaskNames /\ IsProgram(j.task, j.prog) /\ FirstOf(j.task, Head(j.prog))

\* The first step of a program relies on nothing.
LEMMA FreshReliesOnNothing ==
  ASSUME NEW j, FirstOf(j.task, Head(j.prog)), NEW x, NEW v, NEW whole
  PROVE  Relied(j, Head(j.prog), x, v, whole)
BY DEF FirstOf, Relied

\* A worker that begins a program or gives one up, and a source that appears, do no harm.
LEMMA BeginningKeepsCare ==
  ASSUME IInv, Care, NEW w \in Workers, NEW j, job' = [job EXCEPT ![w] = j],
         \/ j = Idle
         \/ /\ Fresh(j) /\ src'[j.src].type # "none"
            /\ j.task = "apply_archive" => src'[j.src].type = "archive",
         At(w, "drop") => job[w].src \in torn',
         src' \in [Srcs -> Document], served' = served,
         lock' \in [Srcs -> Workers \cup {"free", "dead"}],
         raced \subseteq raced', raced' \subseteq Srcs, torn \subseteq torn', torn' \subseteq Srcs,
         requests' \in 0..MaxRequests, faults' \in 0..MaxFaults,
         \A t \in Srcs :
            \/ src'[t] = src[t]
            \/ /\ src[t].type = "none" /\ src'[t].state # "none"
               /\ t \notin raced \cup torn => Kept(src'[t])
  PROVE  Care'
<1>1. job' = [v \in Workers |-> IF v = w THEN j ELSE job[v]]
  BY DEF IInv, JobsAndLocks
<1>2. Idle.phase = "idle" /\ Idle.list = {} /\ Idle.src = "none"
  BY DEF Idle
<1>3. \A v \in Workers : job[v].phase # "idle" => src'[job[v].src] = src[job[v].src]
  BY DEF Care, Programs, IInv, JobsAndLocks, IsJob
<1>4. TypeOK'
  <2>1. \A v \in Workers : /\ job'[v].phase \in {"idle", "check", "lock", "in"}
                           /\ job'[v].src \in Srcs \cup {"none"} /\ job'[v].list \subseteq Srcs
    BY <1>1, <1>2 DEF Care, TypeOK, Fresh
  <2> QED
    BY <2>1 DEF Care, TypeOK
<1>5. Programs'
  <2> SUFFICES ASSUME NEW v \in Workers, job'[v].phase # "idle"
               PROVE  /\ job'[v].task \in TaskNames /\ IsProgram(job'[v].task, job'[v].prog)
                      /\ job'[v].phase # "in" => FirstOf(job'[v].task, Head(job'[v].prog))
                      /\ src'[job'[v].src].type # "none"
                      /\ job'[v].task = "apply_archive" => src'[job'[v].src].type = "archive"
    BY DEF Programs
  <2>1. CASE v = w
    BY <1>1, <1>2, <2>1 DEF Fresh
  <2>2. CASE v # w
    BY <1>1, <1>3, <2>2 DEF Care, Programs
  <2> QED
    BY <2>1, <2>2
<1>6. Reliance'
  <2> SUFFICES ASSUME NEW v \in Workers, job'[v].phase = "in", job'[v].src \notin raced'
               PROVE  Relied(job'[v], Head(job'[v].prog), src'[job'[v].src],
                             served'[job'[v].src], job'[v].src \notin torn')
    BY DEF Reliance
  <2>1. CASE v = w
    BY <1>1, <1>2, <2>1, FreshReliesOnNothing DEF Fresh
  <2>2. CASE v # w
    <3> DEFINE t == job[v].src
    <3>1. job'[v] = job[v] /\ t \notin raced /\ src'[t] = src[t]
      BY <1>1, <1>3, <2>2
    <3>2. Relied(job[v], Head(job[v].prog), src[t], served[t], t \notin torn)
      BY <3>1 DEF Care, Reliance
    <3>3. Relied(job[v], Head(job[v].prog), src[t], served[t], t \notin torn')
      BY <3>2 DEF Relied
    <3> QED
      BY <3>1, <3>3
  <2> QED
    BY <2>1, <2>2
<1>7. Sound'
  <2> SUFFICES ASSUME NEW t \in Srcs, t \notin raced', t \notin torn'
               PROVE  Removed(src'[t], served'[t]) /\ (Dropping(t)' \/ Kept(src'[t]))
    BY DEF Sound
  <2>1. Removed(src[t], served[t]) /\ (Dropping(t) \/ Kept(src[t]))
    BY DEF Care, Sound
  <2>2. Dropping(t) => Dropping(t)'
    <3> SUFFICES ASSUME NEW v \in Workers, At(v, "drop"), job[v].src = t PROVE Dropping(t)'
      BY DEF Dropping
    <3>1. job'[v] = job[v]
      BY <1>1
    <3> QED
      BY <3>1 DEF Dropping, At
  <2> QED
    BY <2>1, <2>2 DEF Removed
<1> QED
  BY <1>4, <1>5, <1>6, <1>7 DEF Care

\* What no worker does: upstream publishes, a ttl passes.
LEMMA QuietKeepsCare ==
  ASSUME IInv, Care, job' = job, served' = served, torn' = torn,
         src' \in [Srcs -> Document], lock' \in [Srcs -> Workers \cup {"free", "dead"}],
         raced \subseteq raced', raced' \subseteq Srcs,
         requests' \in 0..MaxRequests, faults' \in 0..MaxFaults,
         \A t \in Srcs :
            /\ src'[t].type = src[t].type /\ src'[t].state = src[t].state
            /\ src'[t].op = src[t].op /\ src'[t].dir = src[t].dir
            /\ src'[t].tpls = src[t].tpls /\ src'[t].file = src[t].file
            /\ src'[t].synced = src[t].synced /\ src'[t].onSshfs = src[t].onSshfs
            /\ src'[t].ext = src[t].ext
  PROVE  Care'
<1>1. \A v \in Workers : job[v].phase # "idle" => job[v].src \in Srcs
  BY DEF IInv, JobsAndLocks, IsJob
<1>2. TypeOK'
  BY DEF Care, TypeOK
<1>3. Programs'
  BY <1>1 DEF Care, Programs
<1>4. Reliance'
  <2> SUFFICES ASSUME NEW v \in Workers, job[v].phase = "in", job[v].src \notin raced'
               PROVE  Relied(job[v], Head(job[v].prog), src'[job[v].src],
                             served[job[v].src], job[v].src \notin torn)
    BY DEF Reliance
  <2>1. Relied(job[v], Head(job[v].prog), src[job[v].src], served[job[v].src],
               job[v].src \notin torn)
    BY DEF Care, Reliance
  <2> QED
    BY <1>1, <2>1 DEF Relied, Complete
<1>5. Sound'
  <2> SUFFICES ASSUME NEW t \in Srcs, t \notin raced', t \notin torn
               PROVE  Removed(src'[t], served[t]) /\ (Dropping(t)' \/ Kept(src'[t]))
    BY DEF Sound
  <2>1. Removed(src[t], served[t]) /\ (Dropping(t) \/ Kept(src[t]))
    BY DEF Care, Sound
  <2> QED
    BY <2>1 DEF Removed, Kept, Dropping, At
<1> QED
  BY <1>2, <1>3, <1>4, <1>5 DEF Care

\* locked() was asked: the task waits for the lock, or ends.
LEMMA CheckLockKeepsCare ==
  ASSUME IInv, Care, IInv', NEW w \in Workers, CheckLock(w)
  PROVE  Care'
<1> DEFINE waits == [job[w] EXCEPT !.phase = "lock"]
<1>1. IsJob(job[w]) /\ job[w].phase = "check" /\ job[w].src \in Srcs
  BY DEF CheckLock, IInv, JobsAndLocks, IsJob
<1>2. waits = [phase |-> "lock", task |-> job[w].task, src |-> job[w].src,
               prog |-> job[w].prog, list |-> job[w].list, token |-> job[w].token]
  BY <1>1 DEF IsJob
<1>3. PICK j : j \in {waits, Idle} /\ job' = [job EXCEPT ![w] = j]
  BY DEF CheckLock, IInv, JobsAndLocks
<1>4. j = waits => Fresh(j) /\ j.src = job[w].src /\ j.task = job[w].task
  BY <1>1, <1>2 DEF Fresh, Care, TypeOK, Programs
<1>5. src' = src /\ served' = served /\ lock' = lock /\ raced' = raced /\ torn' = torn
      /\ requests' = requests /\ faults' = faults
  BY DEF CheckLock
<1>6. ~At(w, "drop")
  BY <1>1 DEF At
<1> HIDE DEF waits
<1> QED
  BY <1>1, <1>3, <1>4, <1>5, <1>6, BeginningKeepsCare DEF Care, TypeOK, Programs

\* A worker with the lock begins its program.
LEMMA AcquireKeepsCare ==
  ASSUME IInv, Care, IInv', NEW w \in Workers, Acquire(w)
  PROVE  Care'
<1>1. IsJob(job[w]) /\ job[w].phase = "lock" /\ job[w].src \in Srcs
  BY DEF Acquire, IInv, JobsAndLocks, IsJob
<1>2. PICK j : j = [job[w] EXCEPT !.phase = "in"] /\ job' = [job EXCEPT ![w] = j]
  BY DEF Acquire, IInv, JobsAndLocks
<1>3. j = [phase |-> "in", task |-> job[w].task, src |-> job[w].src,
           prog |-> job[w].prog, list |-> job[w].list, token |-> job[w].token]
  BY <1>1, <1>2 DEF IsJob
<1>4. Fresh(j) /\ j.src = job[w].src /\ j.task = job[w].task
  BY <1>1, <1>3 DEF Fresh, Care, TypeOK, Programs
<1>5. src' = src /\ served' = served /\ torn' = torn /\ requests' = requests /\ faults' = faults
  BY DEF Acquire
<1>6. /\ raced \subseteq raced' /\ raced' \subseteq Srcs
      /\ lock' \in [Srcs -> Workers \cup {"free", "dead"}]
  BY <1>1 DEF Acquire, Meet, Care, TypeOK
<1>7. ~At(w, "drop")
  BY <1>1 DEF At
<1> QED
  BY <1>1, <1>2, <1>4, <1>5, <1>6, <1>7, BeginningKeepsCare DEF Care, TypeOK, Programs

\* A worker that dies begins its task anew; a removal it was in the middle of is torn.
LEMMA CrashKeepsCare ==
  ASSUME IInv, Care, IInv', NEW w \in Workers, Crash(w)
  PROVE  Care'
<1> DEFINE s == job[w].src  t == job[w].task
           again == [phase |-> IF t \in Unlocked THEN "in" ELSE "check", task |-> t,
                     src |-> s, prog |-> Program(t), list |-> {}, token |-> job[w].token]
<1>1. IsJob(job[w]) /\ job[w].phase # "idle" /\ s \in Srcs /\ t \in TaskNames
  BY DEF Crash, IInv, JobsAndLocks, IsJob, Care, Programs
<1>3. PICK j : j \in {again, Idle} /\ job' = [job EXCEPT ![w] = j]
  <2>1. [Start(s, t, Program(t)) EXCEPT !.token = job[w].token] = again
    BY DEF Start
  <2> QED
    BY <2>1, Zenon DEF Crash
<1>4. j = again => Fresh(j) /\ j.src = s /\ j.task = t
  <2>1. IsProgram(t, Program(t)) /\ FirstOf(t, Head(Program(t)))
    BY <1>1, ProgramsAre, WhatBeginsIsProgram
  <2> QED
    BY <1>1, <2>1 DEF Fresh
<1>5. src' = src /\ served' = served /\ raced' = raced /\ requests' = requests
  BY DEF Crash
<1>6. /\ torn \subseteq torn' /\ torn' \subseteq Srcs /\ (At(w, "drop") => s \in torn')
      /\ lock' \in [Srcs -> Workers \cup {"free", "dead"}] /\ faults' \in 0..MaxFaults
  BY <1>1, SourcesAssumption DEF Crash, Care, TypeOK
<1> HIDE DEF s, t, again
<1>7. src[s].type # "none" /\ (t = "apply_archive" => src[s].type = "archive")
  BY <1>1 DEF Care, Programs, s, t
<1> QED
  BY <1>1, <1>3, <1>4, <1>5, <1>6, <1>7, BeginningKeepsCare DEF Care, TypeOK, s, t

\* A request starts a task, of a source there is or of a new one.
LEMMA KiqKeepsCare ==
  ASSUME IInv, Care, IInv', NEW w \in Workers, NEW s \in Srcs, NEW task \in TaskNames,
         NEW prog, Kiq(w, s, task, prog), IsProgram(task, prog), FirstOf(task, Head(prog)),
         src' \in [Srcs -> Document], src'[s].type # "none",
         task = "apply_archive" => src'[s].type = "archive",
         \A t \in Srcs :
            \/ src'[t] = src[t]
            \/ /\ src[t].type = "none" /\ src'[t].state # "none"
               /\ t \notin raced \cup torn => Kept(src'[t])
  PROVE  Care'
<1>1. PICK j : j = Start(s, task, prog) /\ job' = [job EXCEPT ![w] = j]
  BY DEF Kiq
<1>2. Fresh(j) /\ j.src = s /\ j.task = task
  BY <1>1 DEF Start, Fresh
<1>3. /\ served' = served /\ lock' = lock /\ torn' = torn /\ faults' = faults
      /\ raced \subseteq raced' /\ raced' \subseteq Srcs
  BY DEF Kiq, Meet, Care, TypeOK
<1>4. requests' \in 0..MaxRequests
  BY SourcesAssumption DEF Kiq, Care, TypeOK
<1>5. ~At(w, "drop")
  BY DEF Kiq, At
<1> QED
  BY <1>1, <1>2, <1>3, <1>4, <1>5, BeginningKeepsCare DEF Care, TypeOK

\* A source is created, imported or found mounted.
LEMMA NewKeepsCare ==
  ASSUME IInv, Care, IInv', NEW w \in Workers, NEW s \in Srcs, NEW type,
         NEW dir \in Versions, NEW task \in {"discover", "external", "mounted"},
         New(w, s, type, dir, task)
  PROVE  Care'
<1> DEFINE d == src[s]
<1>1. /\ src \in [Srcs -> Document] /\ d \in Document /\ type \in SourceType /\ d.type = "none"
      /\ Kiq(w, s, task, Discover)
  BY SourcesAssumption DEF New, Care, TypeOK
<1>2. PICK op, x :
         /\ op \in SourceOperation
         /\ x = [d EXCEPT !.type = type, !.state = "pending", !.dir = dir, !.op = op]
         /\ src' = [src EXCEPT ![s] = x]
  <2>1. PICK op, x :
          /\ op = IF type = "archive" THEN "none" ELSE "discover"
          /\ x = [d EXCEPT !.type = type, !.state = "pending", !.dir = dir, !.op = op]
    OBVIOUS
  <2>2. src' = [src EXCEPT ![s] = x]
    BY <2>1, Zenon DEF New, Set
  <2>3. op \in SourceOperation
    BY <2>1 DEF SourceOperation
  <2> QED
    BY <2>1, <2>2, <2>3, Zenon
<1>3. /\ x \in Document /\ x.type = type /\ x.state = "pending"
      /\ x.synced = d.synced /\ x.onSshfs = d.onSshfs
  BY <1>1, <1>2 DEF Document, SourceState
<1>4. s \notin raced \cup torn => Kept(x)
  <2> SUFFICES ASSUME s \notin raced \cup torn PROVE Kept(x)
    OBVIOUS
  <2>1. ~Dropping(s)
    BY <1>1 DEF Dropping, At, Care, Programs
  <2> QED
    BY <1>3, <2>1 DEF Care, Sound, Kept
<1>5. IsProgram(task, Discover) /\ FirstOf(task, Head(Discover)) /\ task \in TaskNames
  <2>1. IsPart(task, Discover, "begin", "files")
    BY OperationsAreParts
  <2>2. Head(Discover) = "begin"
    BY DEF Discover
  <2> QED
    BY <2>1, <2>2 DEF IsProgram, Finals, FirstOf, TaskNames
<1>6. type # "none"
  BY <1>1 DEF SourceType
<1>7. src' \in [Srcs -> Document] /\ src'[s] = x /\ \A t \in Srcs : t # s => src'[t] = src[t]
  BY <1>1, <1>2, <1>3
<1>8. Care'
  BY <1>1, <1>3, <1>4, <1>5, <1>6, <1>7, KiqKeepsCare
<1> QED
  BY <1>8

\* So does every request of users and of lists of repositories.
LEMMA AskKeepsCare ==
  ASSUME IInv, Care, IInv', NEW w \in Workers, Ask(w)
  PROVE  Care'
<1> PICK s \in Srcs :
        \/ source_create_local(w, s) \/ source_import_from_git(w, s)
        \/ create_sources_from_gitlab(w, s) \/ create_sources_from_mounted(w, s)
        \/ source_import_from_archive(w, s)
        \/ \E task \in Tasks : source_action(w, s, task)
  BY DEF Ask
<1>1. 0 \in Versions /\ src[s].upstream \in Versions
  BY SourcesAssumption DEF Versions, Care, TypeOK, Document
<1>2. CASE source_create_local(w, s)
  BY <1>1, <1>2, NewKeepsCare DEF source_create_local
<1>3. CASE source_import_from_git(w, s)
  BY <1>1, <1>3, NewKeepsCare DEF source_import_from_git
<1>4. CASE create_sources_from_gitlab(w, s)
  BY <1>1, <1>4, NewKeepsCare DEF create_sources_from_gitlab
<1>5. CASE create_sources_from_mounted(w, s)
  BY <1>1, <1>5, NewKeepsCare DEF create_sources_from_mounted
<1>6. CASE source_import_from_archive(w, s)
  BY <1>1, <1>6, NewKeepsCare DEF source_import_from_archive, save_and_unpack_archive
<1>7. ASSUME NEW task \in Tasks, source_action(w, s, task) PROVE Care'
  <2>1. task \in TaskNames /\ src' = src /\ src \in [Srcs -> Document]
    BY <1>7, SourcesAssumption DEF source_action, Care, TypeOK
  <2>2. IsProgram(task, Program(task)) /\ FirstOf(task, Head(Program(task)))
    BY <2>1, ProgramsAre, WhatBeginsIsProgram
  <2>3. task = "apply_archive" => src[s].type = "archive"
    BY <1>7 DEF source_action, Suits
  <2> QED
    BY <1>7, <2>1, <2>2, <2>3, KiqKeepsCare DEF source_action
<1> QED
  BY <1>2, <1>3, <1>4, <1>5, <1>6, <1>7

\* Nothing that happens outside the workers is in a program's way.
LEMMA OutsideKeepsCare ==
  ASSUME IInv, Care, NEW s \in Srcs, Publish(s) \/ Expire(s) \/ Overrun(s)
  PROVE  Care'
<1>1. /\ src \in [Srcs -> Document] /\ lock \in [Srcs -> Workers \cup {"free", "dead"}]
      /\ raced \subseteq Srcs /\ requests \in 0..MaxRequests /\ faults \in 0..MaxFaults
  BY DEF Care, TypeOK
<1>2. CASE Publish(s)
  <2>1. PICK x : x = [src[s] EXCEPT !.upstream = @ + 1] /\ src' = [src EXCEPT ![s] = x]
    BY <1>2 DEF Publish, Set
  <2>2. src[s].upstream + 1 \in Versions
    BY <1>1, <1>2, SourcesAssumption DEF Publish, Document, Versions
  <2>3. x \in Document /\ src[s] \in Document
    BY <1>1, <2>1, <2>2 DEF Document
  <2>4. /\ x.type = src[s].type /\ x.state = src[s].state
        /\ x.op = src[s].op /\ x.dir = src[s].dir
        /\ x.tpls = src[s].tpls /\ x.file = src[s].file
        /\ x.synced = src[s].synced /\ x.onSshfs = src[s].onSshfs
        /\ x.ext = src[s].ext
    BY <2>1, <2>3 DEF Document
  <2>5. src' \in [Srcs -> Document] /\ src'[s] = x /\ \A t \in Srcs : t # s => src'[t] = src[t]
    BY <1>1, <2>1, <2>3
  <2>6. /\ job' = job /\ served' = served /\ torn' = torn /\ lock' = lock /\ raced' = raced
        /\ requests' = requests /\ faults' = faults
    BY <1>2 DEF Publish
  <2> QED
    BY <1>1, <2>4, <2>5, <2>6, QuietKeepsCare
<1>3. CASE Expire(s) \/ Overrun(s)
  <2>1. /\ job' = job /\ served' = served /\ torn' = torn /\ src' = src
        /\ lock' = [lock EXCEPT ![s] = "free"] /\ raced' \in {raced, raced \cup {s}}
        /\ requests' = requests /\ faults' \in 0..MaxFaults
    BY <1>1, <1>3, SourcesAssumption DEF Expire, Overrun
  <2>2. lock' \in [Srcs -> Workers \cup {"free", "dead"}]
    BY <1>1, <2>1
  <2> QED
    BY <1>1, <2>1, <2>2, QuietKeepsCare
<1> QED
  BY <1>2, <1>3

\* Init: sources that are not there yet, or imported and discovered.
LEMMA InitCare == Init => Care
<1> SUFFICES ASSUME Init PROVE Care
  OBVIOUS
<1>1. \A w \in Workers : job[w] = Idle /\ job[w].phase = "idle" /\ job[w].list = {}
                         /\ job[w].src = "none"
  BY DEF Init, Idle
<1>2. 0 \in Versions /\ 2 \in Versions /\ <<>> \in Seq(Versions)
  BY SourcesAssumption DEF Versions
<1>3. NewSource \in Document /\ Removed(NewSource, 0) /\ Kept(NewSource)
  BY <1>2 DEF NewSource, Document, SourceState, SourceOperation, Removed, Kept
<1>4. ASSUME NEW k \in Kinds
      PROVE  Discovered(k) \in Document /\ Removed(Discovered(k), 0) /\ Kept(Discovered(k))
  <2>1. k \in SourceType
    BY SourcesAssumption
  <2>2. PICK f : f \in {0, 2} /\ f = IF k \in {"git", "mounted"} THEN 2 ELSE 0
    OBVIOUS
  <2>3. Discovered(k) = [type |-> k, state |-> "discovered", op |-> "none", dir |-> 2,
                         tpls |-> 2, file |-> f, synced |-> FALSE, onSshfs |-> FALSE,
                         upstream |-> 2, ext |-> 0, token |-> <<>>]
    <3>1. Discovered(k) = [NewSource EXCEPT !.type = k, !.state = "discovered", !.dir = 2,
                                            !.tpls = 2, !.file = f]
      BY <2>2, Zenon DEF Discovered
    <3> QED
      BY <3>1 DEF NewSource
  <2> QED
    BY <1>2, <2>1, <2>2, <2>3 DEF Document, SourceState, SourceOperation, Removed, Kept
<1>5. src \in [Srcs -> Document] /\ \A s \in Srcs : Removed(src[s], served[s]) /\ Kept(src[s])
  BY <1>3, <1>4 DEF Init
<1>6. TypeOK
  BY <1>1, <1>2, <1>5, SourcesAssumption DEF Init, TypeOK
<1> QED
  BY <1>1, <1>5, <1>6 DEF Care, Programs, Reliance, Sound

\* Every step keeps what the programs rely on.
LEMMA NextKeepsCare == IInv /\ Care /\ [Next]_vars => Care'
<1> SUFFICES ASSUME IInv, Care, [Next]_vars PROVE Care'
  OBVIOUS
<1>1. IInv'
  BY NextKeepsIInv
<1>2. CASE UNCHANGED vars
  BY <1>2 DEF vars, Care, TypeOK, Programs, Reliance, Sound, Dropping, At
<1>3. ASSUME NEW w \in Workers, CheckLock(w) \/ Acquire(w) \/ Crash(w) \/ Ask(w) PROVE Care'
  BY <1>1, <1>3, CheckLockKeepsCare, AcquireKeepsCare, CrashKeepsCare, AskKeepsCare
<1>4. ASSUME NEW w \in Workers, ProgramStep(w) PROVE Care'
  BY <1>1, <1>4, GoneKeepsCare, BeginDiscoverKeepsCare, FetchKeepsCare, SaveTemplatesKeepsCare,
     SaveFilesKeepsCare, PreparePathsKeepsCare, ServeKeepsCare, PullFilesKeepsCare,
     NotifyKeepsCare, AnsweredKeepsCare, UnserveKeepsCare, UnpluggedKeepsCare,
     CountLocalKeepsCare, EraseKeepsCare, DropKeepsCare, CreateTemplateKeepsCare,
     EditTemplateKeepsCare, ReceiveFileKeepsCare, PlaceFileKeepsCare, RefreshKeepsCare,
     CompareKeepsCare, UnpackKeepsCare, GuardKeepsCare, PromoteKeepsCare, FailKeepsCare,
     CloneFailsKeepsCare DEF ProgramStep
<1>5. ASSUME NEW s \in Srcs, Publish(s) \/ Expire(s) \/ Overrun(s) PROVE Care'
  BY <1>5, OutsideKeepsCare
<1> QED
  BY <1>2, <1>3, <1>4, <1>5, Zenon DEF Next, Work, ProgramStep, Done
-----------------------------------------------------------------------------
(* The theorems.                                                           *)
\* Both invariants hold together.
THEOREM SourcesAreCaredFor == Spec => [](IInv /\ Care)
<1>1. Init => IInv /\ Care
  BY InitIInv, InitCare
<1>2. (IInv /\ Care) /\ [Next]_vars => (IInv /\ Care)'
  BY NextKeepsIInv, NextKeepsCare
<1> QED
  BY <1>1, <1>2, PTL DEF Spec

\* The documents, what is served and what the workers hold keep their types.
THEOREM SourcesTypes == Spec => []TypeOK
<1>1. Care => TypeOK
  BY DEF Care
<1> QED
  BY <1>1, SourcesAreCaredFor, PTL

\* Nothing of a removed source is left.
THEOREM RemovedAreGone == Spec => []RemovedIsGone
<1>1. Care => RemovedIsGone
  BY DEF Care, Sound, Removed, RemovedIsGone
<1> QED
  BY <1>1, SourcesAreCaredFor, PTL

\* An active source is complete.
THEOREM ActiveAreComplete == Spec => []ActiveIsComplete
<1>1. IInv /\ Care => ActiveIsComplete
  <2> SUFFICES ASSUME IInv, Care, NEW s \in Srcs, s \notin raced, s \notin torn,
                      src[s].state = "active", src[s].op = "none"
               PROVE  src[s].dir # 0 /\ (src[s].file # 0 => src[s].synced /\ src[s].onSshfs)
    BY DEF ActiveIsComplete
  <2>1. ~Dropping(s)
    <3> SUFFICES ASSUME NEW w \in Workers, At(w, "drop"), job[w].src = s PROVE FALSE
      BY DEF Dropping
    <3>1. src[s].op = "remove"
      BY DEF At, Care, Reliance, Relied
    <3> QED
      BY <3>1
  <2> QED
    BY <2>1 DEF Care, Sound, Kept
<1> QED
  BY <1>1, SourcesAreCaredFor, PTL

\* A worker at work is moved by its own program or dies.
LEMMA WhoMoves ==
  ASSUME IInv, [Next]_vars, NEW w \in Workers, job[w].phase = "in", job'[w] # job[w]
  PROVE  ProgramStep(w) \/ Crash(w)
<1>1. job' # job
  OBVIOUS
<1>2. ASSUME NEW v \in Workers, NEW j, job' = [job EXCEPT ![v] = j] PROVE v = w
  BY <1>2 DEF IInv, JobsAndLocks
<1>3. ASSUME NEW v \in Workers, CheckLock(v) \/ Acquire(v) PROVE FALSE
  <2>1. v = w
    BY <1>2, <1>3 DEF CheckLock, Acquire, IInv, JobsAndLocks
  <2> QED
    BY <1>3, <2>1 DEF CheckLock, Acquire
<1>4. ASSUME NEW v \in Workers, Ask(v) PROVE FALSE
  <2>1. PICK s \in Srcs : \E task, prog : Kiq(v, s, task, prog)
    BY <1>4, Zenon DEF Ask, source_create_local, source_import_from_git,
       create_sources_from_gitlab, create_sources_from_mounted, source_import_from_archive,
       New, source_action
  <2>2. v = w
    BY <1>2, <2>1 DEF Kiq
  <2> QED
    BY <2>1, <2>2 DEF Kiq
<1>5. ASSUME NEW v \in Workers, ProgramStep(v) PROVE v = w
  BY <1>2, <1>5, ProgramStepGoesOnOrEnds DEF IInv, GoesOn, Ends
<1>6. ASSUME NEW v \in Workers, Crash(v) PROVE v = w
  BY <1>2, <1>6 DEF Crash
<1>7. ~UNCHANGED vars /\ ~Done /\ \A s \in Srcs : ~Publish(s) /\ ~Expire(s) /\ ~Overrun(s)
  BY <1>1 DEF vars, Done, Publish, Expire, Overrun
<1> QED
  BY <1>3, <1>4, <1>5, <1>6, <1>7, Zenon DEF Next, Work, ProgramStep

\* A program that goes on is not over.
LEMMA GotoGoesOn ==
  ASSUME IInv, NEW w \in Workers, job[w].phase = "in", NEW prog, Goto(w, prog), prog # <<>>
  PROVE  job'[w].phase = "in"
<1>1. IsJob(job[w]) /\ job' = [job EXCEPT ![w] = [job[w] EXCEPT !.prog = prog]]
  BY DEF Goto, IInv, JobsAndLocks
<1> QED
  BY <1>1 DEF IInv, JobsAndLocks, IsJob

\* An edit's program has the whole discovery before it.
LEMMA EditIsFollowed ==
  ASSUME NEW task, NEW prog, IsProgram(task, prog), Head(prog) = "edit"
  PROVE  Len(prog) > Len(Discover)
<1>1. Len(Discover) = 4
  BY DEF Discover
<1> PICK first, last : IsPart(task, prog, first, last) /\ last \in Finals
  BY DEF IsProgram
<1> DEFINE n == Len(prog)
<1>2. prog \in Seq(Steps) /\ prog[1] = "edit" /\ n \in Nat \ {0} /\ prog[n] \in Finals
  BY EmptySeq DEF IsPart
<1>3. n >= 2 /\ prog[2] = "begin"
  BY <1>2 DEF IsPart, Finals, Follows
<1>4. n >= 3 /\ prog[3] = "fetch"
  BY <1>2, <1>3 DEF IsPart, Finals, Follows
<1>5. n >= 4 /\ prog[4] = "save"
  BY <1>2, <1>3, <1>4 DEF IsPart, Finals, Follows
<1>6. n # 4
  BY <1>2, <1>5 DEF Finals
<1> HIDE DEF n
<1>7. n > 4
  BY <1>2, <1>5, <1>6
<1> QED
  BY <1>1, <1>7 DEF n

\* An update or a deletion that ends has parsed the tree, or its source is broken or gone.
LEMMA EditEndsParsed ==
  ASSUME IInv, Care, NEW w \in Workers, ProgramStep(w), job[w].phase = "in",
         job[w].task \in {"update", "delete"}, Len(job[w].prog) <= Len(Discover),
         job[w].src \notin raced, job'[w].phase = "idle"
  PROVE  \/ src'[job[w].src].state \in {"broken", "none"}
         \/ src'[job[w].src].tpls = src'[job[w].src].dir
<1> DEFINE s == job[w].src  d == src[s]  step == Head(job[w].prog)
<1>1. AtWork(w)
  BY WorkersAre
<1>2. step \in {"begin", "fetch", "save", "files"}
  <2>1. step # "edit"
    <3>1. Len(Discover) = 4 /\ Len(job[w].prog) \in Nat
      BY <1>1 DEF Discover, AtWork, IsProgram, IsPart
    <3> QED
      BY <1>1, <3>1, EditIsFollowed DEF AtWork
  <2> QED
    BY <1>1, <2>1 DEF AtWork, OfTask
<1>3. ASSUME NEW prog, Goto(w, prog) PROVE prog = <<>>
  BY <1>3, GotoGoesOn
<1>4. step # "files" => Rest(w) # <<>>
  BY <1>1, <1>2, RestOfProgram DEF AtWork, Rest, Finals
<1>5. \A x : src' = [src EXCEPT ![s] = x] => src'[s] = x
  BY <1>1 DEF AtWork
<1>6. CASE Gone(w)
  BY <1>6 DEF Gone, Exists
<1>7. CASE Fail(w)
  <2>1. PICK x : x = [d EXCEPT !.state = "broken"] /\ src' = [src EXCEPT ![s] = x]
    BY <1>7 DEF Fail, Set, Broken
  <2> QED
    BY <1>1, <1>5, <2>1 DEF AtWork, Document
<1>8. CASE CloneFails(w)
  BY <1>8 DEF CloneFails
<1>9. CASE BeginDiscover(w)
  <2>1. step = "begin"
    BY <1>9 DEF BeginDiscover, AtLive, At
  <2>2. d.state # "discovered"
    BY <1>1, <2>1 DEF AtWork, Relied
  <2>3. Goto(w, Rest(w))
    BY <1>9, <2>2 DEF BeginDiscover, Step
  <2> QED
    BY <1>3, <1>4, <2>1, <2>3
<1>10. CASE Fetch(w)
  BY <1>3, <1>4, <1>10 DEF Fetch, AtLive, At, Step
<1>11. CASE SaveTemplates(w)
  <2>1. step = "save"
    BY <1>11 DEF SaveTemplates, AtLive, At
  <2>2. d.dir = 0
    BY <1>3, <1>4, <1>11, <2>1 DEF SaveTemplates, Step, Doc
  <2>3. PICK x : x = [d EXCEPT !.state = "broken"] /\ src' = [src EXCEPT ![s] = x]
    BY <1>11, <2>2 DEF SaveTemplates, Breaks, Step, Set, Broken, Doc
  <2> QED
    BY <1>1, <1>5, <2>3 DEF AtWork, Document
<1>12. CASE SaveFiles(w)
  <2>1. step = "files"
    BY <1>12 DEF SaveFiles, AtLive, At
  <2>2. d.tpls = d.dir
    BY <1>1, <2>1 DEF AtWork, Relied
  <2>3. PICK m, x : /\ m = ManifestFiles(d) /\ x = [m EXCEPT !.state = "discovered", !.op = "none"]
                    /\ src' = [src EXCEPT ![s] = x]
    BY <1>12 DEF SaveFiles, Step, Set, Doc
  <2>4. m \in Document /\ m.tpls = d.tpls /\ m.dir = d.dir
    BY <1>1, <2>3 DEF AtWork, Document, ManifestFiles
  <2>5. x.tpls = x.dir
    BY <2>2, <2>3, <2>4 DEF Document
  <2> QED
    BY <1>5, <2>3, <2>5
<1>13. ~(\/ PreparePaths(w) \/ Serve(w) \/ PullFiles(w) \/ Notify(w) \/ Answered(w)
         \/ Unserve(w) \/ Unplugged(w) \/ CountLocal(w) \/ Erase(w) \/ Drop(w)
         \/ CreateTemplate(w) \/ EditTemplate(w) \/ ReceiveFile(w) \/ PlaceFile(w)
         \/ Refresh(w) \/ Compare(w) \/ Unpack(w) \/ Guard(w) \/ Promote(w))
  <2>1. ASSUME NEW other \in {"paths", "serve", "pull", "notify", "reply", "unserve", "unplugged",
                              "count", "erase", "drop", "create", "edit", "receive", "place",
                              "refresh", "compare", "unpack", "guard", "promote"}
        PROVE  ~At(w, other) /\ ~AtLive(w, other)
    BY <1>2, <2>1 DEF At, AtLive
  <2> HIDE DEF s, d, step
  <2> QED
    BY <2>1 DEF PreparePaths, Serve, PullFiles, Notify, Answered, Unserve, Unplugged,
       CountLocal, Erase, Drop, CreateTemplate, EditTemplate, ReceiveFile, PlaceFile,
       Refresh, Compare, Unpack, Guard, Promote
<1> QED
  BY <1>6, <1>7, <1>8, <1>9, <1>10, <1>11, <1>12, <1>13 DEF ProgramStep

\* A user's edit is parsed.
THEOREM EditsAreParsed == Spec => EditIsParsed
<1>1. IInv /\ Care /\ [Next]_vars =>
        [\A w \in Workers : LET s == job[w].src IN
           /\ job[w].task \in {"update", "delete"} /\ job[w].phase = "in"
           /\ Len(job[w].prog) <= Len(Discover) /\ job'[w].phase = "idle" /\ s \notin raced'
           => src'[s].state \in {"broken", "none"} \/ src'[s].tpls = src'[s].dir]_vars
  <2> SUFFICES ASSUME IInv, Care, [Next]_vars, NEW w \in Workers,
                      job[w].task \in {"update", "delete"}, job[w].phase = "in",
                      Len(job[w].prog) <= Len(Discover), job'[w].phase = "idle",
                      job[w].src \notin raced'
               PROVE  \/ src'[job[w].src].state \in {"broken", "none"}
                      \/ src'[job[w].src].tpls = src'[job[w].src].dir
    OBVIOUS
  <2>1. ProgramStep(w) \/ Crash(w)
    BY WhoMoves
  <2>2. ~Crash(w)
    <3> SUFFICES ASSUME Crash(w) PROVE FALSE
      OBVIOUS
    <3> DEFINE t == job[w].task  s == job[w].src
    <3>1. job' = [job EXCEPT ![w] = [Start(s, t, Program(t)) EXCEPT !.token = job[w].token]]
      BY Zenon DEF Crash, InApi
    <3>2. job'[w].phase # "idle"
      BY <3>1 DEF Start, IInv, JobsAndLocks
    <3> QED
      BY <3>2
  <2>3. job[w].src \notin raced
    BY <2>1, <2>2, ProgramStepGoesOnOrEnds DEF IInv, GoesOn, Ends
  <2> QED
    BY <2>1, <2>2, <2>3, EditEndsParsed
<1> QED
  BY <1>1, SourcesAreCaredFor, PTL DEF Spec, EditIsParsed

\* What is applied is what was checked.
THEOREM UpdatesAreAsChecked == Spec => AppliedAsChecked
<1>1. IInv /\ Care /\ [Next]_vars =>
        [\A w \in Workers : LET s == job[w].src IN
           At(w, "promote") /\ job'[w] # job[w] /\ s \notin raced' /\ job'[w].phase = "in"
               /\ job[w].prog # job'[w].prog
           => job[w].token = <<src[s].dir, src'[s].dir>>]_vars
  <2> SUFFICES ASSUME IInv, Care, [Next]_vars, NEW w \in Workers, At(w, "promote"),
                      job'[w] # job[w], job[w].src \notin raced', job'[w].phase = "in"
               PROVE  job[w].token = <<src[job[w].src].dir, src'[job[w].src].dir>>
    OBVIOUS
  <2> DEFINE s == job[w].src  d == src[s]
  <2>1. job[w].phase = "in" /\ Head(job[w].prog) = "promote" /\ AtWork(w)
    BY WorkersAre DEF At
  <2>2. ProgramStep(w) \/ Crash(w)
    BY <2>1, WhoMoves
  <2>3. ~Crash(w)
    <3> SUFFICES ASSUME Crash(w) PROVE FALSE
      OBVIOUS
    <3> DEFINE t == job[w].task
    <3>1. t = "apply_archive"
      BY <2>1 DEF AtWork, OfTask
    <3>2. job' = [job EXCEPT ![w] = [Start(s, t, Program(t)) EXCEPT !.token = job[w].token]]
      BY <3>1, Zenon DEF Crash, InApi
    <3>3. job'[w].phase = "check"
      BY <3>1, <3>2 DEF Start, IInv, JobsAndLocks, Unlocked, InApi
    <3> QED
      BY <3>3
  <2>4. s \notin raced
    BY <2>2, <2>3, ProgramStepGoesOnOrEnds DEF IInv, GoesOn, Ends
  <2>5. ~Gone(w)
    BY DEF Gone, Goto, Idle, IInv, JobsAndLocks
  <2>6. Promote(w)
    <3>1. ASSUME NEW other, other # "promote" PROVE ~At(w, other) /\ ~AtLive(w, other)
      BY <2>1, <3>1 DEF At, AtLive
    <3>2. "promote" \notin MayFail
      BY DEF MayFail
    <3> QED
      BY <2>2, <2>3, <2>5, <3>1, <3>2 DEF ProgramStep, BeginDiscover, Fetch, SaveTemplates,
         SaveFiles, PreparePaths, Serve, PullFiles, Notify, Answered, Unserve, Unplugged,
         CountLocal, Erase, Drop, CreateTemplate, EditTemplate, ReceiveFile, PlaceFile,
         Refresh, Compare, Unpack, Guard, Fail, CloneFails
  <2>7. PICK x : x = [d EXCEPT !.dir = d.ext, !.ext = 0] /\ src' = [src EXCEPT ![s] = x]
    BY <2>6 DEF Promote, Step, Set, Doc
  <2>8. src'[s].dir = d.ext
    BY <2>1, <2>7 DEF AtWork, Document
  <2>9. job[w].token = <<d.dir, d.ext>>
    BY <2>1, <2>4 DEF AtWork, Relied
  <2> QED
    BY <2>8, <2>9
<1> QED
  BY <1>1, SourcesAreCaredFor, PTL DEF Spec, AppliedAsChecked
=============================================================================

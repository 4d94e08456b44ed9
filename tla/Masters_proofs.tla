--------------------------- MODULE Masters_proofs ---------------------------
(***************************************************************************)
(* For any number of masters, keys and messages: sshd is never given keys  *)
(* that no user has accepted.  The handlers write documents back whole, so *)
(* that it must hold of the documents they have read as well: a decision   *)
(* may be undone by one of them, but keys do not come with it.  The second *)
(* part is about what a master is told of a minion's pillars, for any      *)
(* number of users, tasks and templates; the third about the keys of       *)
(* minions that masters keep.                                              *)
(***************************************************************************)
EXTENDS Masters, Pillars, SaltKeys, SequenceTheorems, TLAPS

\* A document that says its master is accepted has keys that were approved.
Approved(m, document) ==
    document.status = "accepted" => <<m, document.keys>> \in approved

DocumentsApproved ==
    /\ master \in [MasterIds -> MasterModel \cup {NoMaster}]
    /\ \A m \in MasterIds : Approved(m, master[m])
InHandApproved ==
    /\ handled \in [MasterIds -> [Handlers -> MasterModel \cup {NoMaster}]]
    /\ \A m \in MasterIds : \A h \in Handlers : Approved(m, handled[m][h])
OthersTyped ==
    /\ bridge \in [MasterIds -> 1..MaxKeys] /\ told \subseteq MasterIds
    /\ approved \subseteq MasterIds \X (1..MaxKeys) /\ messages \in 0..MaxMessages

IInv == DocumentsApproved /\ InHandApproved /\ OthersTyped
-----------------------------------------------------------------------------
\* Init: no master is known.
LEMMA InitIInv == MastersInit => IInv
  BY MastersAssumption
     DEF MastersInit, IInv, DocumentsApproved, InHandApproved, OthersTyped, Approved,
         NoMaster, MasterModel

\* A document that may be in hand is read, or the one in hand is done with.
LEMMA InHandKept ==
  ASSUME IInv, NEW m \in MasterIds, NEW h \in Handlers,
         NEW document \in MasterModel \cup {NoMaster}, Approved(m, document),
         approved' = approved, handled' = [handled EXCEPT ![m][h] = document]
  PROVE  InHandApproved'
<1> DEFINE Documents == MasterModel \cup {NoMaster}
<1> HIDE DEF Documents
<1>1. handled \in [MasterIds -> [Handlers -> Documents]] /\ document \in Documents
  BY DEF IInv, InHandApproved, Documents
<1>2. handled' \in [MasterIds -> [Handlers -> Documents]]
  BY <1>1
<1>3. \A n \in MasterIds : \A g \in Handlers :
          handled'[n][g] = IF n = m /\ g = h THEN document ELSE handled[n][g]
  BY <1>1
<1> QED
  BY <1>2, <1>3 DEF IInv, InHandApproved, Approved, Documents

\* An approved document is written.
LEMMA DocumentsKept ==
  ASSUME IInv, NEW m \in MasterIds, NEW document \in MasterModel, approved \subseteq approved',
         document.status = "accepted" => <<m, document.keys>> \in approved',
         master' = [master EXCEPT ![m] = document]
  PROVE  DocumentsApproved'
<1>1. \A n \in MasterIds : master'[n] = IF n = m THEN document ELSE master[n]
  BY DEF IInv, DocumentsApproved
<1> QED
  BY <1>1 DEF IInv, DocumentsApproved, Approved

\* What is not written stays approved, when more is.
LEMMA UnwrittenKept ==
  ASSUME IInv, approved \subseteq approved'
  PROVE  (master' = master => DocumentsApproved') /\ (handled' = handled => InHandApproved')
  BY DEF IInv, DocumentsApproved, InHandApproved, Approved

\* The documents that handlers and decisions make of one they have read.
LEMMA NewStatus ==
  ASSUME NEW d \in MasterModel, NEW status \in MasterStatus,
         NEW e, e = [d EXCEPT !.status = status]
  PROVE  e \in MasterModel /\ e.status = status /\ e.keys = d.keys
  BY DEF MasterModel
\* One that is recorded as synced keeps its status and its keys.
LEMMA NewSynced ==
  ASSUME NEW d \in MasterModel, NEW e, e = [d EXCEPT !.synced = TRUE]
  PROVE  e \in MasterModel /\ e.status = d.status /\ e.keys = d.keys
  BY DEF MasterModel

\* A known master's document.
LEMMA KnownDocument ==
  ASSUME IInv, NEW m \in MasterIds
  PROVE  /\ Known(m) => master[m] \in MasterModel
         /\ \A h \in Handlers : handled[m][h] # NoMaster => handled[m][h] \in MasterModel
  BY DEF IInv, DocumentsApproved, InHandApproved, Known

\* A user's decision writes the status: with it, the keys there are approved.
LEMMA DecisionKeepsIInv ==
  ASSUME IInv, NEW m \in MasterIds, accept(m) \/ reject(m)
  PROVE  IInv'
<1> PICK status \in {"accepted", "rejected"} :
          /\ Known(m) /\ master' = [master EXCEPT ![m].status = status]
          /\ status = "accepted" => approved' = approved \cup {<<m, master[m].keys>>}
          /\ status = "rejected" => approved' = approved
  BY DEF accept, reject
<1> PICK d : d = [master[m] EXCEPT !.status = status] /\ master' = [master EXCEPT ![m] = d]
  BY DEF IInv, DocumentsApproved
<1>1. master[m] \in MasterModel /\ master[m].keys \in 1..MaxKeys
  BY KnownDocument DEF MasterModel
<1>2. d \in MasterModel /\ d.status = status /\ d.keys = master[m].keys
  BY <1>1, NewStatus DEF MasterStatus
<1>3. DocumentsApproved'
  BY <1>2, DocumentsKept
<1>4. InHandApproved'
  BY UnwrittenKept DEF accept, reject
<1>5. OthersTyped'
  BY <1>1, MastersAssumption DEF IInv, OthersTyped, accept, reject, Send
<1> QED
  BY <1>3, <1>4, <1>5 DEF IInv

\* auth takes the keys of a new master, or reads the document of a stale one;
\* what it writes then is not accepted, whatever it had read.
LEMMA AuthKeepsIInv ==
  ASSUME IInv, NEW m \in MasterIds, auth(m) \/ WriteKeys(m)
  PROVE  IInv'
<1>0. /\ bridge[m] \in 1..MaxKeys /\ "auth" \in Handlers /\ NoMaster.status = "none"
      /\ "new" \in MasterStatus
  BY DEF IInv, OthersTyped, Handlers, NoMaster, MasterStatus
<1>1. OthersTyped'
  BY MastersAssumption DEF IInv, OthersTyped, auth, WriteKeys, Send
<1>2. CASE auth(m) /\ ~Known(m)
  <2> DEFINE d == [status |-> "new", keys |-> bridge[m], synced |-> FALSE]
  <2>1. d \in MasterModel /\ master' = [master EXCEPT ![m] = d] /\ handled' = handled
    BY <1>0, <1>2 DEF auth, MasterModel
  <2>2. DocumentsApproved' /\ InHandApproved'
    BY <1>2, <2>1, DocumentsKept, UnwrittenKept DEF auth
  <2> QED
    BY <1>1, <2>2 DEF IInv
<1>3. CASE auth(m) /\ Known(m)
  <2>1. master[m] \in MasterModel /\ Approved(m, master[m])
    BY <1>3, KnownDocument DEF IInv, DocumentsApproved
  <2>2. InHandApproved'
    BY <1>0, <1>3, <2>1, InHandKept DEF auth
  <2>3. DocumentsApproved'
    BY <1>3, UnwrittenKept DEF auth
  <2> QED
    BY <1>1, <2>2, <2>3 DEF IInv
<1>4. CASE WriteKeys(m)
  <2> PICK d : /\ d = [handled[m]["auth"] EXCEPT !.status = "new", !.keys = bridge[m]]
               /\ master' = [master EXCEPT ![m] = d]
    BY <1>4 DEF WriteKeys
  <2>1. d \in MasterModel /\ d.status = "new"
    <3> DEFINE read == handled[m]["auth"]  keys == bridge[m]
    <3>1. read \in MasterModel /\ keys \in 1..MaxKeys
      BY <1>0, <1>4, KnownDocument DEF WriteKeys
    <3>2. d = [read EXCEPT !.status = "new", !.keys = keys]
      OBVIOUS
    <3> HIDE DEF read, keys
    <3> QED
      BY <1>0, <3>1, <3>2 DEF MasterModel
  <2>2. DocumentsApproved'
    BY <1>4, <2>1, DocumentsKept DEF WriteKeys
  <2>3. InHandApproved'
    BY <1>0, <1>4, InHandKept DEF WriteKeys, Handled, Approved
  <2> QED
    BY <1>1, <2>2, <2>3 DEF IInv
<1> QED
  BY <1>2, <1>3, <1>4

\* sync_saltbox_done writes what it has read, with the status that it had.
LEMMA SyncDoneKeepsIInv ==
  ASSUME IInv, NEW m \in MasterIds, sync_saltbox_done(m) \/ WriteSynced(m)
  PROVE  IInv'
<1>0. "sync_done" \in Handlers /\ NoMaster.status = "none"
  BY DEF Handlers, NoMaster
<1>1. OthersTyped'
  BY MastersAssumption DEF IInv, OthersTyped, sync_saltbox_done, WriteSynced, Send
<1>2. CASE sync_saltbox_done(m)
  <2>1. master[m] \in MasterModel /\ Approved(m, master[m])
    BY <1>2, KnownDocument DEF IInv, DocumentsApproved, sync_saltbox_done
  <2>2. InHandApproved'
    BY <1>0, <1>2, <2>1, InHandKept DEF sync_saltbox_done
  <2>3. DocumentsApproved'
    BY <1>2, UnwrittenKept DEF sync_saltbox_done
  <2> QED
    BY <1>1, <2>2, <2>3 DEF IInv
<1>3. CASE WriteSynced(m)
  <2> PICK d : /\ d = [handled[m]["sync_done"] EXCEPT !.synced = TRUE]
               /\ master' = [master EXCEPT ![m] = d]
    BY <1>3 DEF WriteSynced
  <2>1. handled[m]["sync_done"] \in MasterModel /\ Approved(m, handled[m]["sync_done"])
    BY <1>0, <1>3, KnownDocument DEF WriteSynced, IInv, InHandApproved
  <2>2. d \in MasterModel /\ Approved(m, d)
    BY <2>1, NewSynced DEF Approved
  <2>3. DocumentsApproved'
    BY <1>3, <2>2, DocumentsKept DEF WriteSynced, Approved
  <2>4. InHandApproved'
    BY <1>0, <1>3, InHandKept DEF WriteSynced, Handled, Approved
  <2> QED
    BY <1>1, <2>3, <2>4 DEF IInv
<1> QED
  BY <1>2, <1>3

\* New keys make those in the document stale, and leave them there.
LEMMA RekeyKeepsIInv ==
  ASSUME IInv, NEW m \in MasterIds, Rekey(m)
  PROVE  IInv'
<1>1. OthersTyped'
  BY MastersAssumption DEF IInv, OthersTyped, Rekey
<1>2. InHandApproved'
  BY UnwrittenKept DEF Rekey
<1>3. DocumentsApproved'
  <2>1. CASE ~Known(m)
    BY <2>1, UnwrittenKept DEF Rekey
  <2>2. CASE Known(m)
    <3> PICK d : d = [master[m] EXCEPT !.status = "keys_stale"] /\ master' = [master EXCEPT ![m] = d]
      BY <2>2 DEF Rekey, IInv, DocumentsApproved
    <3>1. d \in MasterModel /\ d.status = "keys_stale"
      BY <2>2, KnownDocument, NewStatus DEF MasterStatus
    <3> QED
      BY <3>1, DocumentsKept DEF Rekey
  <2> QED
    BY <2>1, <2>2
<1> QED
  BY <1>1, <1>2, <1>3 DEF IInv

\* Every step keeps the invariant.
LEMMA NextKeepsIInv == IInv /\ [MastersNext]_mastersVars => IInv'
<1> SUFFICES ASSUME IInv, [MastersNext]_mastersVars PROVE IInv'
  OBVIOUS
<1>1. CASE \/ \E m \in MasterIds : LoseMessage(m)
           \/ notify_accepted_masters_on_repos_update \/ UNCHANGED mastersVars
  <2>1. OthersTyped'
    BY <1>1 DEF IInv, OthersTyped, LoseMessage, notify_accepted_masters_on_repos_update,
                mastersVars
  <2>2. DocumentsApproved' /\ InHandApproved'
    BY <1>1, UnwrittenKept DEF LoseMessage, notify_accepted_masters_on_repos_update, mastersVars
  <2> QED
    BY <2>1, <2>2 DEF IInv
<1> QED
  BY <1>1, DecisionKeepsIInv, AuthKeepsIInv, SyncDoneKeepsIInv, RekeyKeepsIInv DEF MastersNext

\* Every variable of Masters keeps its type.
THEOREM MastersTypeCorrect == MastersSpec => []MastersTypeOK
<1>1. IInv => MastersTypeOK
  BY DEF IInv, DocumentsApproved, InHandApproved, OthersTyped, MastersTypeOK
<1> QED
  BY <1>1, InitIInv, NextKeepsIInv, PTL DEF MastersSpec

\* sshd is given no keys that no user has accepted, though the handlers write
\* whole documents that a user's decision may have made stale.
THEOREM KeysAreAccepted == MastersSpec => []OnlyAcceptedKeys
<1>1. IInv => OnlyAcceptedKeys
  BY DEF IInv, DocumentsApproved, Approved, OnlyAcceptedKeys, authorized_keys
<1> QED
  BY <1>1, InitIInv, NextKeepsIInv, PTL DEF MastersSpec
-----------------------------------------------------------------------------
(* A master asks for the pillars of a minion: HeldIsGiven.  A layer that   *)
(* was read is settled by what is read after it, of a rank at least as     *)
(* high, whatever is written between the two.                              *)

\* What pillars are set for.
Envs ==
    Shown \cup {TaskEnv(t) : t \in PillarTasks}
          \cup {TemplateEnv(p, u) : p \in Templates, u \in Users}
Pillar == [env : Envs, name : PillarNames, value : PillarValues \cup {Placeholder},
           is_secret : BOOLEAN]
Key(p) == <<p.env, p.name>>
OneOfAKey(P) == \A p, q \in P : p.env = q.env /\ p.name = q.name => p = q

\* The pillars and templates, and the fields of a read.
PillarTypes ==
    /\ pillars \subseteq Pillar /\ OneOfAKey(pillars)
    /\ templates \cap removed = {} /\ templates \cup removed \subseteq Templates
    /\ created \subseteq PillarTasks /\ writes \in 0..MaxWrites
    /\ reading = [on |-> reading.on, left |-> reading.left, asked |-> reading.asked,
                  got |-> reading.got, held |-> reading.held, had |-> reading.had]

\* The layers that are left are read from the general to the particular.
Ascending(l) == \A i, j \in DOMAIN l : i <= j => Rank(l[i]) <= Rank(l[j])
Left(env) == \E i \in DOMAIN reading.left : reading.left[i] = env
Given(env, n) ==
    /\ n \in DOMAIN reading.got
    /\ \E p \in reading.had : /\ p.env \in Concerned(reading.asked) /\ Rank(p.env) >= Rank(env)
                              /\ p.name = n /\ p.value = reading.got[n]

\* What was held all along is in the answer as soon as its layer is read, and what
\* is read later is at least as particular.
ReadIsSound ==
    /\ ~reading.on => reading.left = <<>>
    /\ reading.on =>
        /\ reading.left \in Seq(Concerned(reading.asked)) /\ Ascending(reading.left)
        /\ \A k \in reading.held : \E p \in pillars : k = Key(p)
        /\ pillars \subseteq reading.had
        /\ \A env \in Concerned(reading.asked) : ~Left(env) =>
               /\ \A i \in DOMAIN reading.left : Rank(env) <= Rank(reading.left[i])
               /\ \A n : <<env, n>> \in reading.held => Given(env, n)

\* What is asked for is of one of three kinds, and its layers are these.
Base2 == <<Base, MinionEnv>>
Below5 == <<Base, CollectionEnv("top"), CollectionEnv("below"), CollectionEnv("below"), MinionEnv>>
Task3(t) == <<Base, TaskEnv(t), MinionEnv>>

\* Ranks are numbers, and these are those of the environments.
LEMMA Ranks ==
    /\ \A env : Rank(env) \in 0..4
    /\ Rank(Base) = 0 /\ Rank(CollectionEnv("top")) = 1 /\ Rank(CollectionEnv("below")) = 2
    /\ Rank(MinionEnv) = 4 /\ \A t : Rank(TaskEnv(t)) = 3
BY DEF Rank, Base, MinionEnv, CollectionEnv, TaskEnv

\* FlattenSeq of one sequence, and of two.
LEMMA FlattenOne == ASSUME NEW S, NEW a \in Seq(S) PROVE FlattenSeq(<<a>>) = a
<1>1. PICK f : f = [i \in 1..1 |-> a]  OBVIOUS
<1> DEFINE Eq(g) == g = [i \in 1..Len(<<a>>) |-> IF i = 1 THEN <<a>>[i] ELSE g[i-1] \o <<a>>[i]]
<1>2. Eq(f)  BY <1>1
<1>3. Eq(CHOOSE g : Eq(g))  BY <1>2
<1>4. FlattenSeq(<<a>>) = (CHOOSE g : Eq(g))[1]  BY DEF FlattenSeq
<1> QED  BY <1>3, <1>4
\* FlattenSeq of two.
LEMMA FlattenTwo == ASSUME NEW S, NEW a \in Seq(S), NEW b \in Seq(S)
                    PROVE  FlattenSeq(<<a, b>>) = a \o b
<1>1. PICK f : f = [i \in 1..2 |-> IF i = 1 THEN a ELSE a \o b]  OBVIOUS
<1> DEFINE Eq(g) == g = [i \in 1..Len(<<a, b>>) |-> IF i = 1 THEN <<a, b>>[i] ELSE g[i-1] \o <<a, b>>[i]]
<1>2. Eq(f)  BY <1>1
<1>3. Eq(CHOOSE g : Eq(g))  BY <1>2
<1>4. FlattenSeq(<<a, b>>) = (CHOOSE g : Eq(g))[2]  BY DEF FlattenSeq
<1>5. PICK h : h = (CHOOSE g : Eq(g))  OBVIOUS
<1>6. h = [i \in 1..2 |-> IF i = 1 THEN a ELSE h[i-1] \o <<a, b>>[i]]
  <2>1. Eq(h)
    <3> HIDE DEF Eq
    <3> QED  BY <1>3, <1>5
  <2> QED  BY <2>1
<1>7. h[1] = a /\ h[2] = h[1] \o b  BY <1>6
<1> QED  BY <1>4, <1>5, <1>7

\* Sequences put together.
LEMMA Joined ==
    /\ \A a, b : <<a>> \o <<b>> = <<a, b>>
    /\ \A a, b, c : <<a, b>> \o <<c>> = <<a, b, c>>
    /\ \A a, b, c, d : <<a>> \o <<b, c, d>> = <<a, b, c, d>>
    /\ \A a, b, c, d, e : <<a, b, c, d>> \o <<e>> = <<a, b, c, d, e>>
<1>1. ASSUME NEW a, NEW b PROVE <<a>> \o <<b>> = <<a, b>>
  <2> DEFINE S == {a, b}  s == <<a>>  r == <<b>>  w == <<a, b>>
  <2>1. s \in Seq(S) /\ r \in Seq(S) /\ w \in Seq(S) /\ Len(s) = 1 /\ Len(r) = 1 /\ Len(w) = 2
    OBVIOUS
  <2>2. /\ s \o r \in Seq(S) /\ Len(s \o r) = 2
        /\ \A i \in 1..2 : (s \o r)[i] = IF i <= 1 THEN s[i] ELSE r[i - 1]
    <3> HIDE DEF s, r, w, S
    <3>1. /\ s \o r \in Seq(S) /\ Len(s \o r) = Len(s) + Len(r)
          /\ \A i \in 1..Len(s) + Len(r) : (s \o r)[i] = IF i <= Len(s) THEN s[i] ELSE r[i - Len(s)]
      BY <2>1, ConcatProperties
    <3> QED  BY <2>1, <3>1
  <2>3. \A i \in 1..2 : (s \o r)[i] = w[i]
    <3>1. \A i \in 1..2 : w[i] = IF i <= 1 THEN s[i] ELSE r[i - 1]  OBVIOUS
    <3> HIDE DEF s, r, w, S
    <3> QED  BY <3>1, <2>2
  <2>4. s \o r = w
    <3> HIDE DEF s, r, w, S
    <3> QED  BY <2>1, <2>2, <2>3, SeqEqual
  <2> QED  BY <2>4
<1>2. ASSUME NEW a, NEW b, NEW c PROVE <<a, b>> \o <<c>> = <<a, b, c>>
  <2> DEFINE S == {a, b, c}  s == <<a, b>>  r == <<c>>  w == <<a, b, c>>
  <2>1. s \in Seq(S) /\ r \in Seq(S) /\ w \in Seq(S) /\ Len(s) = 2 /\ Len(r) = 1 /\ Len(w) = 3
    OBVIOUS
  <2>2. /\ s \o r \in Seq(S) /\ Len(s \o r) = 3
        /\ \A i \in 1..3 : (s \o r)[i] = IF i <= 2 THEN s[i] ELSE r[i - 2]
    <3> HIDE DEF s, r, w, S
    <3>1. /\ s \o r \in Seq(S) /\ Len(s \o r) = Len(s) + Len(r)
          /\ \A i \in 1..Len(s) + Len(r) : (s \o r)[i] = IF i <= Len(s) THEN s[i] ELSE r[i - Len(s)]
      BY <2>1, ConcatProperties
    <3> QED  BY <2>1, <3>1
  <2>3. \A i \in 1..3 : (s \o r)[i] = w[i]
    <3>1. \A i \in 1..3 : w[i] = IF i <= 2 THEN s[i] ELSE r[i - 2]  OBVIOUS
    <3> HIDE DEF s, r, w, S
    <3> QED  BY <3>1, <2>2
  <2>4. s \o r = w
    <3> HIDE DEF s, r, w, S
    <3> QED  BY <2>1, <2>2, <2>3, SeqEqual
  <2> QED  BY <2>4
<1>3. ASSUME NEW a, NEW b, NEW c, NEW d PROVE <<a>> \o <<b, c, d>> = <<a, b, c, d>>
  <2> DEFINE S == {a, b, c, d}  s == <<a>>  r == <<b, c, d>>  w == <<a, b, c, d>>
  <2>1. s \in Seq(S) /\ r \in Seq(S) /\ w \in Seq(S) /\ Len(s) = 1 /\ Len(r) = 3 /\ Len(w) = 4
    OBVIOUS
  <2>2. /\ s \o r \in Seq(S) /\ Len(s \o r) = 4
        /\ \A i \in 1..4 : (s \o r)[i] = IF i <= 1 THEN s[i] ELSE r[i - 1]
    <3> HIDE DEF s, r, w, S
    <3>1. /\ s \o r \in Seq(S) /\ Len(s \o r) = Len(s) + Len(r)
          /\ \A i \in 1..Len(s) + Len(r) : (s \o r)[i] = IF i <= Len(s) THEN s[i] ELSE r[i - Len(s)]
      BY <2>1, ConcatProperties
    <3> QED  BY <2>1, <3>1
  <2>3. \A i \in 1..4 : (s \o r)[i] = w[i]
    <3>1. \A i \in 1..4 : w[i] = IF i <= 1 THEN s[i] ELSE r[i - 1]  OBVIOUS
    <3> HIDE DEF s, r, w, S
    <3> QED  BY <3>1, <2>2
  <2>4. s \o r = w
    <3> HIDE DEF s, r, w, S
    <3> QED  BY <2>1, <2>2, <2>3, SeqEqual
  <2> QED  BY <2>4
<1>4. ASSUME NEW a, NEW b, NEW c, NEW d, NEW e PROVE <<a, b, c, d>> \o <<e>> = <<a, b, c, d, e>>
  <2> DEFINE S == {a, b, c, d, e}  s == <<a, b, c, d>>  r == <<e>>  w == <<a, b, c, d, e>>
  <2>1. s \in Seq(S) /\ r \in Seq(S) /\ w \in Seq(S) /\ Len(s) = 4 /\ Len(r) = 1 /\ Len(w) = 5
    OBVIOUS
  <2>2. /\ s \o r \in Seq(S) /\ Len(s \o r) = 5
        /\ \A i \in 1..5 : (s \o r)[i] = IF i <= 4 THEN s[i] ELSE r[i - 4]
    <3> HIDE DEF s, r, w, S
    <3>1. /\ s \o r \in Seq(S) /\ Len(s \o r) = Len(s) + Len(r)
          /\ \A i \in 1..Len(s) + Len(r) : (s \o r)[i] = IF i <= Len(s) THEN s[i] ELSE r[i - Len(s)]
      BY <2>1, ConcatProperties
    <3> QED  BY <2>1, <3>1
  <2>3. \A i \in 1..5 : (s \o r)[i] = w[i]
    <3>1. \A i \in 1..5 : w[i] = IF i <= 4 THEN s[i] ELSE r[i - 4]  OBVIOUS
    <3> HIDE DEF s, r, w, S
    <3> QED  BY <3>1, <2>2
  <2>4. s \o r = w
    <3> HIDE DEF s, r, w, S
    <3> QED  BY <2>1, <2>2, <2>3, SeqEqual
  <2> QED  BY <2>4
<1> QED  BY <1>1, <1>2, <1>3, <1>4

\* The layers of each kind of request: all it is about, the general ones first.
LEMMA LayersAre ==
    ASSUME NEW envs \in PillarEnvs
    PROVE  /\ Layers(envs) \in Seq(Concerned(ToSet(envs))) /\ Ascending(Layers(envs))
           /\ \A env \in Concerned(ToSet(envs)) : \E i \in DOMAIN Layers(envs) : Layers(envs)[i] = env
<1> DEFINE U == {Base, MinionEnv, CollectionEnv("top"), CollectionEnv("below")}
<1>1. /\ Base # MinionEnv /\ Base # CollectionEnv("below") /\ MinionEnv # CollectionEnv("below")
      /\ \A t : TaskEnv(t) # Base /\ TaskEnv(t) # CollectionEnv("below")
  BY DEF Base, MinionEnv, CollectionEnv, TaskEnv
<1>2. \A env : env # CollectionEnv("below") => LayersOf(env) = <<env>>  BY DEF LayersOf
<1>3. LayersOf(CollectionEnv("below")) = <<CollectionEnv("top"), CollectionEnv("below"), CollectionEnv("below")>>
  <2>1. [i \in DOMAIN Branch |-> CollectionEnv(Branch[i])] = <<CollectionEnv("top"), CollectionEnv("below")>>
    BY DEF Branch
  <2> QED  BY <2>1, Joined DEF LayersOf
<1>4. \A s : ToSet(<<s>>) = {s}  BY DEF ToSet
<1>5. \A s, r : ToSet(<<s, r>>) = {s, r}  BY DEF ToSet
<1>6. CASE envs = <<Base>>
  <2>1. [i \in DOMAIN envs |-> LayersOf(envs[i])] = <<LayersOf(Base)>>  BY <1>6
  <2>2. FlattenSeq(<<LayersOf(Base)>>) = <<Base>>
    <3>1. <<Base>> \in Seq({Base})  OBVIOUS
    <3> QED  BY <3>1, <1>1, <1>2, FlattenOne
  <2>3. Layers(envs) = Base2
    <3>1. Base \in ToSet(envs)  BY <1>4, <1>6
    <3>2. FlattenSeq([i \in DOMAIN envs |-> LayersOf(envs[i])]) = <<Base>>
      BY <2>1, <2>2
    <3>3. Layers(envs) = (<<Base>>) \o <<MinionEnv>>  BY <3>1, <3>2 DEF Layers
    <3> QED  BY <3>3, Joined DEF Base2
  <2>4. Concerned(ToSet(envs)) = {Base, MinionEnv}  BY <1>1, <1>4, <1>6 DEF Concerned
  <2> QED  BY <2>3, <2>4, Ranks DEF Base2, Ascending
<1>7. CASE envs = <<Base, CollectionEnv("below")>>
  <2>1. [i \in DOMAIN envs |-> LayersOf(envs[i])] = <<LayersOf(Base), LayersOf(CollectionEnv("below"))>>
    BY <1>7
  <2>2. FlattenSeq(<<LayersOf(Base), LayersOf(CollectionEnv("below"))>>)
          = <<Base>> \o <<CollectionEnv("top"), CollectionEnv("below"), CollectionEnv("below")>>
    <3>1. <<Base>> \in Seq(U)
          /\ <<CollectionEnv("top"), CollectionEnv("below"), CollectionEnv("below")>> \in Seq(U)
      OBVIOUS
    <3> HIDE DEF U
    <3> QED  BY <3>1, <1>1, <1>2, <1>3, FlattenTwo
  <2>3. Layers(envs) = Below5
    <3>1. Base \in ToSet(envs)  BY <1>5, <1>7
    <3>2. FlattenSeq([i \in DOMAIN envs |-> LayersOf(envs[i])]) = <<Base>> \o <<CollectionEnv("top"), CollectionEnv("below"), CollectionEnv("below")>>
      BY <2>1, <2>2
    <3>3. Layers(envs) = (<<Base>> \o <<CollectionEnv("top"), CollectionEnv("below"), CollectionEnv("below")>>) \o <<MinionEnv>>  BY <3>1, <3>2 DEF Layers
    <3>4. <<Base>> \o <<CollectionEnv("top"), CollectionEnv("below"), CollectionEnv("below")>> = <<Base, CollectionEnv("top"), CollectionEnv("below"), CollectionEnv("below")>>
      BY Joined
    <3>5. <<Base, CollectionEnv("top"), CollectionEnv("below"), CollectionEnv("below")>> \o <<MinionEnv>> = Below5
      BY Joined DEF Below5
    <3> QED  BY <3>3, <3>4, <3>5
  <2>4. Concerned(ToSet(envs)) = U  BY <1>1, <1>5, <1>7 DEF Concerned
  <2>5. Below5 \in Seq(U)  BY DEF Below5
  <2>6. Ascending(Below5)  BY Ranks DEF Below5, Ascending
  <2>7. \A env \in U : \E i \in DOMAIN Below5 : Below5[i] = env
    <3>1. DOMAIN Below5 = 1..5  BY DEF Below5
    <3>2. /\ Below5[1] = Base /\ Below5[2] = CollectionEnv("top") /\ Below5[3] = CollectionEnv("below")
          /\ Below5[5] = MinionEnv
      BY DEF Below5
    <3> QED  BY <3>1, <3>2
  <2> QED  BY <2>3, <2>4, <2>5, <2>6, <2>7
<1>8. ASSUME NEW t \in created, envs = <<Base, TaskEnv(t)>>
      PROVE  /\ Layers(envs) \in Seq(Concerned(ToSet(envs))) /\ Ascending(Layers(envs))
             /\ \A env \in Concerned(ToSet(envs)) : \E i \in DOMAIN Layers(envs) : Layers(envs)[i] = env
  <2>1. [i \in DOMAIN envs |-> LayersOf(envs[i])] = <<LayersOf(Base), LayersOf(TaskEnv(t))>>
    BY <1>8
  <2>2. FlattenSeq(<<LayersOf(Base), LayersOf(TaskEnv(t))>>) = <<Base>> \o <<TaskEnv(t)>>
    <3>1. <<Base>> \in Seq({Base, TaskEnv(t)}) /\ <<TaskEnv(t)>> \in Seq({Base, TaskEnv(t)})
      OBVIOUS
    <3>2. LayersOf(Base) = <<Base>> /\ LayersOf(TaskEnv(t)) = <<TaskEnv(t)>>  BY <1>1, <1>2
    <3> QED  BY <3>1, <3>2, FlattenTwo
  <2>3. Layers(envs) = Task3(t)
    <3>1. Base \in ToSet(envs)  BY <1>5, <1>8
    <3>2. FlattenSeq([i \in DOMAIN envs |-> LayersOf(envs[i])]) = <<Base>> \o <<TaskEnv(t)>>
      BY <2>1, <2>2
    <3>3. Layers(envs) = (<<Base>> \o <<TaskEnv(t)>>) \o <<MinionEnv>>  BY <3>1, <3>2 DEF Layers
    <3>4. <<Base>> \o <<TaskEnv(t)>> = <<Base, TaskEnv(t)>>  BY Joined
    <3>5. <<Base, TaskEnv(t)>> \o <<MinionEnv>> = Task3(t)  BY Joined DEF Task3
    <3> QED  BY <3>3, <3>4, <3>5
  <2>4. Concerned(ToSet(envs)) = {Base, TaskEnv(t), MinionEnv}
    BY <1>1, <1>5, <1>8 DEF Concerned
  <2>5. Task3(t) \in Seq({Base, TaskEnv(t), MinionEnv})  BY DEF Task3
  <2>6. Ascending(Task3(t))  BY Ranks DEF Task3, Ascending
  <2>7. \A env \in {Base, TaskEnv(t), MinionEnv} : \E i \in DOMAIN Task3(t) : Task3(t)[i] = env
    <3>1. DOMAIN Task3(t) = 1..3  BY DEF Task3
    <3>2. Task3(t)[1] = Base /\ Task3(t)[2] = TaskEnv(t) /\ Task3(t)[3] = MinionEnv  BY DEF Task3
    <3> QED  BY <3>1, <3>2
  <2> QED  BY <2>3, <2>4, <2>5, <2>6, <2>7
<1> QED  BY <1>6, <1>7, <1>8 DEF PillarEnvs

\* What a write changes of the read that is on.
LEMMA WrittenFields ==
    ASSUME PillarTypes, NEW by, NEW P, Write(by, P)
    PROVE  /\ reading'.on = reading.on /\ reading'.left = reading.left
           /\ reading'.asked = reading.asked /\ reading'.got = reading.got /\ pillars' = P
           /\ reading'.held = reading.held \cap {Key(p) : p \in P}
           /\ reading'.had = IF reading.on THEN reading.had \cup P ELSE reading.had
           /\ reading' = [on |-> reading'.on, left |-> reading'.left, asked |-> reading'.asked,
                          got |-> reading'.got, held |-> reading'.held, had |-> reading'.had]
<1>1. PICK R : R = reading  OBVIOUS
<1>2. R = [on |-> R.on, left |-> R.left, asked |-> R.asked, got |-> R.got, held |-> R.held,
           had |-> R.had]
  BY <1>1 DEF PillarTypes
<1>3. /\ pillars' = P
      /\ reading' = [R EXCEPT !.held = R.held \cap {<<p.env, p.name>> : p \in P},
                              !.had = IF R.on THEN R.had \cup P ELSE R.had]
  BY <1>1 DEF Write
<1>4. PICK S : S = reading'  OBVIOUS
<1>5. S = [on |-> R.on, left |-> R.left, asked |-> R.asked, got |-> R.got,
           held |-> R.held \cap {<<p.env, p.name>> : p \in P},
           had |-> IF R.on THEN R.had \cup P ELSE R.had]
  BY <1>2, <1>3, <1>4
<1> QED  BY <1>1, <1>3, <1>4, <1>5 DEF Key

\* Users, tasks and templates write between the reads of layers.
LEMMA WriteIsSound ==
    ASSUME PillarTypes, ReadIsSound, NEW by, NEW P, Write(by, P)
    PROVE  ReadIsSound'
<1>1. /\ reading'.on = reading.on /\ reading'.left = reading.left /\ reading'.asked = reading.asked
      /\ reading'.got = reading.got /\ pillars' = P
      /\ reading'.held = reading.held \cap {Key(p) : p \in P}
      /\ reading'.had = IF reading.on THEN reading.had \cup P ELSE reading.had
  BY WrittenFields
<1>2. CASE ~reading.on  BY <1>1, <1>2 DEF ReadIsSound
<1>3. CASE reading.on
  <2>1. \A env : Left(env)' = Left(env)  BY <1>1 DEF Left
  <2>2. \A env, n : Given(env, n) => Given(env, n)'  BY <1>1, <1>3 DEF Given
  <2>3. \A k \in reading'.held : k \in reading.held /\ \E p \in P : k = Key(p)  BY <1>1
  <2> QED  BY <1>1, <1>3, <2>1, <2>2, <2>3 DEF ReadIsSound
<1> QED  BY <1>2, <1>3

\* A write of pillars that have their type leaves every type.
LEMMA WriteIsTyped ==
    ASSUME PillarTypes, NEW by, NEW P \in SUBSET Pillar, OneOfAKey(P), Write(by, P),
           templates' \cap removed' = {}, templates' \cup removed' \subseteq Templates,
           created' \subseteq PillarTasks
    PROVE  PillarTypes'
<1>1. writes' \in 0..MaxWrites  BY PillarsAssumption DEF Write, PillarTypes
<1>2. pillars' = P  BY DEF Write
<1>3. OneOfAKey(pillars)'  BY <1>2 DEF OneOfAKey
<1> QED  BY <1>1, <1>2, <1>3, WrittenFields DEF PillarTypes

\* What users and tasks write: a pillar, and those of a task.
LEMMA UserWrites ==
    ASSUME PillarTypes, ReadIsSound,
           \/ \E env \in Shown, n \in PillarNames, v \in PillarValues : create(env, n, v)
           \/ \E p \in pillars : delete(p) \/ \E v \in PillarValues : update(p, v)
    PROVE  PillarTypes' /\ ReadIsSound'
<1>1. UNCHANGED <<templates, removed, created>>  BY DEF create, delete, update
<1>2. ASSUME NEW env \in Shown, NEW n \in PillarNames, NEW v \in PillarValues, create(env, n, v)
      PROVE  PillarTypes' /\ ReadIsSound'
  <2> DEFINE x == [env |-> env, name |-> n, value |-> v, is_secret |-> n \in secret_pillars]
             P == pillars \cup {x}
  <2>1. x \in Pillar  BY DEF Pillar, Envs
  <2>2. OneOfAKey(P)  BY <1>2 DEF OneOfAKey, create, PillarTypes
  <2>3. Write("user", P)  BY <1>2 DEF create
  <2>4. P \in SUBSET Pillar  BY <2>1 DEF PillarTypes
  <2> HIDE DEF P
  <2> QED  BY <1>1, <2>2, <2>3, <2>4, WriteIsTyped, WriteIsSound DEF PillarTypes
<1>3. ASSUME NEW p \in pillars, delete(p) PROVE PillarTypes' /\ ReadIsSound'
  <2>1. OneOfAKey(pillars \ {p}) /\ pillars \ {p} \in SUBSET Pillar  BY DEF OneOfAKey, PillarTypes
  <2>2. Write("user", pillars \ {p})  BY <1>3 DEF delete
  <2> QED  BY <1>1, <2>1, <2>2, WriteIsTyped, WriteIsSound DEF PillarTypes
<1>4. ASSUME NEW p \in pillars, NEW v \in PillarValues, update(p, v)
      PROVE  PillarTypes' /\ ReadIsSound'
  <2> DEFINE x == [p EXCEPT !.value = v]  P == (pillars \ {p}) \cup {x}
  <2>1. p \in Pillar  BY DEF PillarTypes
  <2>2. x \in Pillar /\ x.env = p.env /\ x.name = p.name  BY <2>1 DEF Pillar
  <2>3. OneOfAKey(P)
    <3> HIDE DEF x
    <3> QED  BY <2>2 DEF OneOfAKey, PillarTypes
  <2>4. Write("user", P)  BY <1>4 DEF update
  <2>5. P \in SUBSET Pillar  BY <2>2 DEF PillarTypes
  <2> HIDE DEF P
  <2> QED  BY <1>1, <2>3, <2>4, <2>5, WriteIsTyped, WriteIsSound DEF PillarTypes
<1> QED  BY <1>2, <1>3, <1>4

\* The pillars of a task, and those that its user saves as the template's defaults.
LEMMA TaskWrites ==
    ASSUME PillarTypes, ReadIsSound, NEW t \in PillarTasks, NEW tpl \in Templates, NEW u \in Users,
           NEW N \in SUBSET PillarNames, NEW save \in BOOLEAN,
           NEW given \in [N -> PillarValues \cup {Placeholder}], CreateTask(t, tpl, u, given, save)
    PROVE  PillarTypes' /\ ReadIsSound'
<1>1. UNCHANGED <<templates, removed>> /\ created' \subseteq PillarTasks
  BY DEF CreateTask, PillarTypes
<1> DEFINE new(value, env) == {[env |-> env, name |-> n, value |-> value[n],
                                is_secret |-> n \in secret_pillars] : n \in DOMAIN given}
           kept == {p \in pillars : p.env # TaskEnv(t)} \ (IF save THEN DefaultsOf({tpl}) ELSE {})
           saved(value) == IF save THEN new(value, TemplateEnv(tpl, u)) ELSE {}
           P(value) == kept \cup new(value, TaskEnv(t)) \cup saved(value)
<1>2. PICK value \in [DOMAIN given -> PillarValues \cup {Placeholder}] : Write("task", P(value))
  BY DEF CreateTask, create_for_task
<1>3. DOMAIN given = N /\ value \in [N -> PillarValues \cup {Placeholder}]  BY <1>2
<1>4. TaskEnv(t) \in Envs /\ TemplateEnv(tpl, u) \in Envs  BY DEF Envs
<1>5. ASSUME NEW env \in Envs
      PROVE  /\ new(value, env) \subseteq Pillar
             /\ \A p \in new(value, env) : p.env = env
             /\ \A p, q \in new(value, env) : p.name = q.name => p = q
  <2>1. ASSUME NEW n \in N
        PROVE  [env |-> env, name |-> n, value |-> value[n], is_secret |-> n \in secret_pillars] \in Pillar
    <3>1. n \in PillarNames /\ value[n] \in PillarValues \cup {Placeholder}  BY <1>3
    <3>2. (n \in secret_pillars) \in BOOLEAN  OBVIOUS
    <3> QED  BY <3>1, <3>2 DEF Pillar
  <2>2. new(value, env) \subseteq Pillar  BY <1>3, <2>1
  <2>3. \A p \in new(value, env) : p.env = env  OBVIOUS
  <2>4. \A p, q \in new(value, env) : p.name = q.name => p = q  OBVIOUS
  <2> QED  BY <2>2, <2>3, <2>4
<1>6. TaskEnv(t) # TemplateEnv(tpl, u)  BY DEF TaskEnv, TemplateEnv
<1>7. /\ kept \subseteq pillars
      /\ \A p \in kept : p.env # TaskEnv(t) /\ (save => p.env # TemplateEnv(tpl, u))
  <2>1. \A p \in pillars : p.env = TemplateEnv(tpl, u) => p \in DefaultsOf({tpl})
    BY DEF TemplateEnv, DefaultsOf, IsDefault
  <2> QED  BY <2>1
<1>8. /\ saved(value) \subseteq Pillar /\ \A p \in saved(value) : p.env = TemplateEnv(tpl, u) /\ save
      /\ \A p, q \in saved(value) : p.name = q.name => p = q
  BY <1>4, <1>5
<1>9. /\ new(value, TaskEnv(t)) \subseteq Pillar
      /\ \A p \in new(value, TaskEnv(t)) : p.env = TaskEnv(t)
      /\ \A p, q \in new(value, TaskEnv(t)) : p.name = q.name => p = q
  BY <1>4, <1>5
<1>10. OneOfAKey(P(value))
  <2>1. OneOfAKey(pillars)  BY DEF PillarTypes
  <2> HIDE DEF new, kept, saved
  <2> QED  BY <2>1, <1>6, <1>7, <1>8, <1>9 DEF OneOfAKey
<1>11. P(value) \in SUBSET Pillar
  <2>1. pillars \subseteq Pillar  BY DEF PillarTypes
  <2> HIDE DEF new, kept, saved
  <2> QED  BY <2>1, <1>7, <1>8, <1>9
<1> HIDE DEF P
<1> QED  BY <1>1, <1>2, <1>10, <1>11, WriteIsTyped, WriteIsSound DEF PillarTypes

\* Templates go, with the defaults of them that users have saved.
LEMMA TemplateWrites ==
    ASSUME PillarTypes, ReadIsSound,
           _save_templates_to_db \/ \E p \in Templates : delete_template(p)
    PROVE  PillarTypes' /\ ReadIsSound'
<1>1. PICK P \in SUBSET pillars : Write("templates", P)
  BY DEF _save_templates_to_db, delete_template, delete_many
<1>2. OneOfAKey(P) /\ P \in SUBSET Pillar  BY DEF PillarTypes, OneOfAKey
<1>3. /\ templates' \cap removed' = {} /\ templates' \cup removed' \subseteq Templates
      /\ created' \subseteq PillarTasks
  BY DEF _save_templates_to_db, delete_template, PillarTypes
<1> QED  BY <1>1, <1>2, <1>3, WriteIsTyped, WriteIsSound

\* A master asks.
LEMMA AskIsSound ==
    ASSUME PillarTypes, ReadIsSound, NEW envs \in PillarEnvs, get_merged(envs)
    PROVE  PillarTypes' /\ ReadIsSound'
<1>1. UNCHANGED <<pillars, templates, removed, created, writes>>  BY DEF get_merged
<1>2. /\ reading'.on /\ reading'.left = Layers(envs) /\ reading'.asked = ToSet(envs)
      /\ reading'.held = {Key(p) : p \in pillars} /\ reading'.had = pillars
      /\ reading' = [on |-> reading'.on, left |-> reading'.left, asked |-> reading'.asked,
                     got |-> reading'.got, held |-> reading'.held, had |-> reading'.had]
  <2>1. PICK R : R = reading'  OBVIOUS
  <2>2. R = [on |-> TRUE, left |-> Layers(envs), asked |-> ToSet(envs), got |-> <<>>,
             held |-> {<<p.env, p.name>> : p \in pillars}, had |-> pillars]
    BY <2>1 DEF get_merged
  <2> QED  BY <2>1, <2>2 DEF Key
<1>3. PillarTypes'  BY <1>1, <1>2 DEF PillarTypes, OneOfAKey
<1>4. \A env \in Concerned(ToSet(envs)) : Left(env)'  BY <1>2, LayersAre DEF Left
<1> QED  BY <1>1, <1>2, <1>3, <1>4, LayersAre DEF ReadIsSound

\* The first of what is left is read.
LEMMA ReadLayerIsSound ==
    ASSUME PillarTypes, ReadIsSound, ReadLayer
    PROVE  PillarTypes' /\ ReadIsSound'
<1>1. UNCHANGED <<pillars, templates, removed, created, writes>>  BY DEF ReadLayer
<1>2. /\ reading.on /\ reading.left # <<>> /\ reading.left \in Seq(Concerned(reading.asked))
      /\ Ascending(reading.left)
  BY DEF ReadLayer, ReadIsSound
<1>3. PICK l : l = reading.left  OBVIOUS
<1>4. PICK E : E = Concerned(reading.asked)  OBVIOUS
<1>5. PICK h \in E : h = Head(l)  BY <1>2, <1>3, <1>4, HeadTailProperties
<1>6. /\ Tail(l) \in Seq(E) /\ DOMAIN l = 1..Len(l) /\ DOMAIN Tail(l) = 1..(Len(l) - 1)
      /\ Len(l) \in Nat \ {0} /\ h = l[1]
      /\ \A i \in 1..(Len(l) - 1) : Tail(l)[i] = l[i + 1]
  <2>1. l \in Seq(E) /\ l # <<>>  BY <1>2, <1>3, <1>4
  <2> QED  BY <2>1, <1>5, HeadTailProperties, LenProperties, EmptySeq
<1> DEFINE found == {p \in pillars : p.env = h}
           names == {p.name : p \in found}
           g == [n \in names \cup DOMAIN reading.got |->
                    IF n \in names THEN (CHOOSE p \in found : p.name = n).value ELSE reading.got[n]]
<1>7. /\ reading'.on = reading.on /\ reading'.left = Tail(l) /\ reading'.asked = reading.asked
      /\ reading'.got = g /\ reading'.held = reading.held /\ reading'.had = reading.had
      /\ reading' = [on |-> reading'.on, left |-> reading'.left, asked |-> reading'.asked,
                     got |-> reading'.got, held |-> reading'.held, had |-> reading'.had]
  <2>1. PICK R : R = reading  OBVIOUS
  <2>2. R = [on |-> R.on, left |-> R.left, asked |-> R.asked, got |-> R.got, held |-> R.held,
             had |-> R.had]
    BY <2>1 DEF PillarTypes
  <2>3. reading' = [R EXCEPT !.left = Tail(R.left), !.got = g]
    BY <2>1, <1>3, <1>5 DEF ReadLayer
  <2>4. PICK S : S = reading'  OBVIOUS
  <2> HIDE DEF g
  <2>5. S = [on |-> R.on, left |-> Tail(R.left), asked |-> R.asked, got |-> g, held |-> R.held,
             had |-> R.had]
    BY <2>2, <2>3, <2>4
  <2> QED  BY <2>1, <2>4, <2>5, <1>3
<1>8. PillarTypes'  BY <1>1, <1>7 DEF PillarTypes, OneOfAKey
<1>9. Ascending(Tail(l))
  <2> SUFFICES ASSUME NEW i \in 1..(Len(l) - 1), NEW j \in 1..(Len(l) - 1), i <= j
               PROVE  Rank(Tail(l)[i]) <= Rank(Tail(l)[j])
    BY <1>6 DEF Ascending
  <2>1. i + 1 \in DOMAIN l /\ j + 1 \in DOMAIN l /\ i + 1 <= j + 1  BY <1>6
  <2> QED  BY <2>1, <1>2, <1>3, <1>6 DEF Ascending
<1>10. \A i \in DOMAIN Tail(l) : Rank(h) <= Rank(Tail(l)[i])
  <2> SUFFICES ASSUME NEW i \in 1..(Len(l) - 1) PROVE Rank(h) <= Rank(l[i + 1])
    BY <1>6
  <2>1. 1 \in DOMAIN l /\ i + 1 \in DOMAIN l /\ 1 <= i + 1  BY <1>6
  <2> QED  BY <2>1, <1>2, <1>3, <1>6 DEF Ascending
\* What the layer gives is what some pillar that was there says.
<1>11. ASSUME NEW n \in names
       PROVE  n \in DOMAIN g /\ \E p \in reading.had : p.env = h /\ p.name = n /\ p.value = g[n]
  <2>1. \E p \in found : p.name = n  OBVIOUS
  <2>2. PICK p : p = (CHOOSE q \in found : q.name = n)  OBVIOUS
  <2>3. p \in found /\ p.name = n  BY <2>1, <2>2
  <2>4. n \in DOMAIN g /\ g[n] = p.value  BY <2>2
  <2>5. pillars \subseteq reading.had  BY <1>2 DEF ReadIsSound
  <2> QED  BY <2>3, <2>4, <2>5
<1>12. \A n \in DOMAIN reading.got : n \in DOMAIN g /\ (n \notin names => g[n] = reading.got[n])
  OBVIOUS
<1>13. ASSUME NEW env \in E, Rank(env) <= Rank(h), NEW n, <<env, n>> \in reading.held,
              env = h \/ Given(env, n)
       PROVE  Given(env, n)'
  <2>1. CASE n \in names
    <3>1. PICK p \in reading.had : p.env = h /\ p.name = n /\ p.value = g[n]  BY <1>11, <2>1
    <3>2. Rank(p.env) >= Rank(env)  BY <3>1, <1>13, Ranks
    <3> HIDE DEF g
    <3> QED  BY <1>4, <1>5, <1>7, <1>11, <2>1, <3>1, <3>2 DEF Given
  <2>2. CASE n \notin names
    <3>1. env # h
      <4> SUFFICES ASSUME env = h PROVE FALSE  OBVIOUS
      <4>1. PICK p \in pillars : <<env, n>> = Key(p)  BY <1>2, <1>13 DEF ReadIsSound
      <4> QED  BY <4>1, <2>2 DEF Key
    <3> HIDE DEF g
    <3> QED  BY <1>7, <1>12, <1>13, <2>2, <3>1 DEF Given
  <2> QED  BY <2>1, <2>2
<1>14. ASSUME NEW env \in E, ~Left(env)'
       PROVE  /\ \A i \in DOMAIN Tail(l) : Rank(env) <= Rank(Tail(l)[i])
              /\ \A n : <<env, n>> \in reading.held => Given(env, n)'
  <2>1. CASE env = h  BY <1>10, <1>13, <2>1, Ranks
  <2>2. CASE env # h
    <3>1. ~Left(env)
      <4> SUFFICES ASSUME NEW i \in 1..Len(l), l[i] = env PROVE FALSE
        BY <1>3, <1>6 DEF Left
      <4>1. i # 1 /\ i - 1 \in 1..(Len(l) - 1) /\ Tail(l)[i - 1] = l[i]  BY <1>6, <2>2
      <4> QED  BY <4>1, <1>6, <1>7, <1>14 DEF Left
    <3>2. /\ \A i \in DOMAIN l : Rank(env) <= Rank(l[i])
          /\ \A n : <<env, n>> \in reading.held => Given(env, n)
      BY <1>2, <1>3, <1>4, <3>1 DEF ReadIsSound
    <3>3. Rank(env) <= Rank(h)  BY <1>6, <3>2
    <3>4. \A i \in DOMAIN Tail(l) : Rank(env) <= Rank(Tail(l)[i])
      <4> SUFFICES ASSUME NEW i \in 1..(Len(l) - 1) PROVE Rank(env) <= Rank(l[i + 1])
        BY <1>6
      <4> QED  BY <1>6, <3>2
    <3> QED  BY <1>13, <3>2, <3>3, <3>4
  <2> QED  BY <2>1, <2>2
<1> HIDE DEF g
<1>15. ReadIsSound'
  <2>1. Concerned(reading.asked)' = E  BY <1>4, <1>7
  <2>2. /\ \A k \in reading'.held : \E p \in pillars' : k = Key(p)
        /\ pillars' \subseteq reading'.had
    BY <1>1, <1>2, <1>7 DEF ReadIsSound
  <2> QED  BY <1>2, <1>6, <1>7, <1>9, <1>14, <2>1, <2>2 DEF ReadIsSound
<1> QED  BY <1>8, <1>15

\* It holds before anything is asked, of the pillars that are there.
LEMMA PillarsInitially == PillarsInit => PillarTypes /\ ReadIsSound
<1> SUFFICES ASSUME PillarsInit PROVE PillarTypes /\ ReadIsSound
  OBVIOUS
<1>1. PICK E \in SUBSET Shown, v \in PillarValues, n \in PillarNames :
          pillars = {[env |-> e, name |-> n, value |-> v, is_secret |-> FALSE] : e \in E}
  BY DEF PillarsInit
<1>2. pillars \subseteq Pillar /\ OneOfAKey(pillars)
  <2>1. E \subseteq Envs  BY <1>1 DEF Envs
  <2>2. \A e \in E : [env |-> e, name |-> n, value |-> v, is_secret |-> FALSE] \in Pillar
    BY <2>1 DEF Pillar
  <2>3. OneOfAKey(pillars)
    <3> SUFFICES ASSUME NEW p \in pillars, NEW q \in pillars, p.env = q.env PROVE p = q
      BY DEF OneOfAKey
    <3>1. PICK d \in E : p = [env |-> d, name |-> n, value |-> v, is_secret |-> FALSE]  BY <1>1
    <3>2. PICK e \in E : q = [env |-> e, name |-> n, value |-> v, is_secret |-> FALSE]  BY <1>1
    <3>3. p.env = d /\ q.env = e  BY <3>1, <3>2
    <3> QED  BY <3>1, <3>2, <3>3
  <2>4. pillars \subseteq Pillar
    <3> SUFFICES ASSUME NEW p \in pillars PROVE p \in Pillar  OBVIOUS
    <3> QED  BY <1>1, <2>2
  <2> QED  BY <2>3, <2>4
<1>3. /\ ~reading.on /\ reading.left = <<>>
      /\ reading = [on |-> reading.on, left |-> reading.left, asked |-> reading.asked,
                    got |-> reading.got, held |-> reading.held, had |-> reading.had]
  <2>1. PICK R : R = reading  OBVIOUS
  <2>2. R = NotReading  BY <2>1 DEF PillarsInit
  <2> QED  BY <2>1, <2>2 DEF NotReading
<1> QED  BY <1>2, <1>3, PillarsAssumption DEF PillarsInit, PillarTypes, ReadIsSound

\* Every step keeps it.
LEMMA PillarsNextKeeps ==
    PillarTypes /\ ReadIsSound /\ [PillarsNext]_pillarVars => PillarTypes' /\ ReadIsSound'
<1> SUFFICES ASSUME PillarTypes, ReadIsSound, [PillarsNext]_pillarVars
             PROVE  PillarTypes' /\ ReadIsSound'
  OBVIOUS
<1>1. CASE Answer
  <2>1. /\ ~reading'.on /\ reading'.left = <<>>
        /\ reading' = [on |-> reading'.on, left |-> reading'.left, asked |-> reading'.asked,
                       got |-> reading'.got, held |-> reading'.held, had |-> reading'.had]
    <3>1. PICK R : R = reading'  OBVIOUS
    <3>2. R = NotReading  BY <1>1, <3>1 DEF Answer
    <3> QED  BY <3>1, <3>2 DEF NotReading
  <2> QED  BY <1>1, <2>1 DEF Answer, PillarTypes, OneOfAKey, ReadIsSound
<1>2. CASE UNCHANGED pillarVars
  BY <1>2 DEF pillarVars, PillarTypes, OneOfAKey, ReadIsSound, Left, Given
<1>3. ASSUME NEW envs \in PillarEnvs, get_merged(envs) PROVE PillarTypes' /\ ReadIsSound'
  BY <1>3, AskIsSound
<1>4. CASE ReadLayer  BY <1>4, ReadLayerIsSound
<1>5. CASE \/ \E env \in Shown, n \in PillarNames, v \in PillarValues : create(env, n, v)
           \/ \E p \in pillars : delete(p) \/ \E v \in PillarValues : update(p, v)
  BY <1>5, UserWrites
<1>6. CASE _save_templates_to_db \/ \E p \in Templates : delete_template(p)
  BY <1>6, TemplateWrites
<1>7. ASSUME NEW t \in PillarTasks, NEW tpl \in Templates, NEW u \in Users,
             NEW N \in SUBSET PillarNames, NEW save \in BOOLEAN,
             NEW given \in [N -> PillarValues \cup {Placeholder}],
             CreateTask(t, tpl, u, given, save)
      PROVE  PillarTypes' /\ ReadIsSound'
  BY <1>7, TaskWrites
<1>8. CASE \E t \in PillarTasks, tpl \in Templates, u \in Users, N \in SUBSET PillarNames,
              save \in BOOLEAN :
               \E given \in [N -> PillarValues \cup {Placeholder}] : CreateTask(t, tpl, u, given, save)
  BY <1>7, <1>8
<1>9. CASE \E envs \in PillarEnvs : get_merged(envs)  BY <1>3, <1>9
<1> QED  BY <1>1, <1>2, <1>4, <1>5, <1>6, <1>8, <1>9, Zenon DEF PillarsNext

(***************************************************************************)
(* Pillars have their types, and an environment one of a name              *)
(* (tgt_name_unique_index_asc), whoever creates, saves or deletes them.    *)
(***************************************************************************)
THEOREM PillarsTypes == PillarsSpec => []PillarsTypeOK
<1>1. PillarTypes => PillarsTypeOK
  <2> SUFFICES ASSUME PillarTypes PROVE PillarsTypeOK
    OBVIOUS
  <2>1. DOMAIN reading = DOMAIN NotReading
    <3>1. PICK R : R = reading  OBVIOUS
    <3>2. R = [on |-> R.on, left |-> R.left, asked |-> R.asked, got |-> R.got, held |-> R.held,
               had |-> R.had]
      BY <3>1 DEF PillarTypes
    <3> QED  BY <3>1, <3>2 DEF NotReading
  <2> QED  BY <2>1 DEF PillarTypes, Pillar, OneOfAKey, PillarsTypeOK
<1> QED  BY <1>1, PillarsInitially, PillarsNextKeeps, PTL DEF PillarsSpec

(***************************************************************************)
(* A name that is held all the while a master's request is answered is in  *)
(* the answer, with a value that no more general environment than the      *)
(* holder's had, whatever is written between the reads of get_merged.      *)
(***************************************************************************)
THEOREM PillarsAreGiven == PillarsSpec => []HeldIsGiven
<1>1. ReadIsSound => HeldIsGiven
  <2> SUFFICES ASSUME ReadIsSound, reading.on, reading.left = <<>>,
                      NEW env \in Concerned(reading.asked), NEW n \in PillarNames,
                      <<env, n>> \in reading.held
               PROVE  Given(env, n)
    BY DEF HeldIsGiven, Given
  <2>1. ~Left(env)  BY DEF Left
  <2> QED  BY <2>1 DEF ReadIsSound
<1> QED  BY <1>1, PillarsInitially, PillarsNextKeeps, PTL DEF PillarsSpec
-----------------------------------------------------------------------------
(***************************************************************************)
(* Keys of minions, for any number of masters, minions, requests and       *)
(* retries: what a request reports is what the masters did for it, and the *)
(* key of a deleted minion goes.  A master may act long after the request  *)
(* about it has ended, so each part of the invariant (KeysInv) says what   *)
(* holds of a request whatever else is under way:                          *)
(*   Types        of every variable, and that runs of a task are counted;  *)
(*   Ledger       masters act for requests that are there, the keys they   *)
(*                changed for one are in its ledger `did`, and a deletion  *)
(*                leaves no key behind;                                    *)
(*   Reported     an ended request reports its ledger but for the masters  *)
(*                that were late, and only those may still act for it;     *)
(*   Removals     the request of a task deletes that task's key alone, and *)
(*                once its master has acted the key is gone or is new.     *)
(***************************************************************************)
Actions == DOMAIN ACTIONS_TO_NEW_STATUS_MAP
RequestType ==
    [action : Actions \cup {"none"}, of : SUBSET Keys, all : BOOLEAN, task : SUBSET Keys,
     late : SUBSET SaltMasters, ended : BOOLEAN]

Types ==
    /\ key \in [Keys -> KeyStatus] /\ setBy \in [Keys -> Requests \cup {Nobody, "minion"}]
    /\ request \in [Requests -> RequestType]
    /\ asked \in [Requests \X SaltMasters -> {"none", "sent", "acted"}]
    /\ did \in [Requests -> SUBSET Keys] /\ result \in [Requests -> SUBSET Keys]
    /\ removal \in [Keys -> {"none", "queued", "runs", "ended"}]
    /\ tries \in [Keys -> 0..(MaxTries + 1)] /\ fresh \subseteq Keys /\ events \in 0..MaxEvents
    /\ \A k \in Keys : /\ removal[k] = "none" => tries[k] = 0
                       /\ removal[k] = "queued" => tries[k] <= MaxTries

\* Who sets a key did so for a request that is there, and it is in the ledger.
Ledger ==
    /\ \A r \in Requests : \A m \in SaltMasters : asked[<<r, m>>] # "none" => request[r] # Unused
    /\ \A r \in Requests : request[r] # Unused => request[r].action \in Actions
    /\ \A r \in Requests : \A k \in did[r] : asked[<<r, k[1]>>] = "acted"
    /\ \A r \in Requests : \A k \in Keys : setBy[k] = r =>
           k \in did[r] /\ (key[k] # "none" => request[r].action # "delete")

\* What an ended request says, and who may still act for it.
Reported ==
    \A r \in Requests : request[r].ended =>
        /\ result[r] = _parse_action_result(r, request[r].late)
        /\ \A m \in SaltMasters : asked[<<r, m>>] = "sent" => m \in request[r].late

\* What the request of a task is about, and what is left of its key.
Removals ==
    \A r \in Requests : \A k \in request[r].task :
        /\ request[r].action = "delete" /\ request[r].of = {k} /\ ~request[r].all
        /\ removal[k] # "none" /\ asked[<<r, k[1]>>] # "none"
        /\ asked[<<r, k[1]>>] = "acted" => key[k] = "none" \/ k \in fresh

KeysInv == Types /\ Ledger /\ Reported /\ Removals /\ KeyIsDeleted

\* A request is made of a user or a task.
NewRequest(r) == NamedKeys(r) \/ AllKeys(r) \/ \E k \in Keys : delete_minion_salt_keys_task(k, r)
-----------------------------------------------------------------------------
(* Facts about the operators of the model. *)

\* An action changes keys to a status, which is none for a deletion alone.
LEMMA NewKeyStatus ==
    /\ Actions = {"accept", "reject", "delete"}
    /\ \A a \in Actions : /\ ACTIONS_TO_NEW_STATUS_MAP[a] \in KeyStatus
                          /\ ACTIONS_TO_NEW_STATUS_MAP[a] = "none" <=> a = "delete"
  BY DEF Actions, ACTIONS_TO_NEW_STATUS_MAP, KeyStatus

\* A place for a request that is not made.
LEMMA UnusedIs ==
    /\ Unused \in RequestType /\ Unused.action = "none" /\ Unused.of = {} /\ Unused.task = {}
    /\ ~Unused.ended
  BY DEF Unused, RequestType

\* What making a request does to the requests, and to what masters are asked.
Made(r, action, of, all, task) ==
    /\ request[r] = Unused /\ UNCHANGED <<key, setBy, did, result, fresh, events>>
    /\ request' \in [Requests -> RequestType]
    /\ request'[r] # Unused /\ request'[r].action = action /\ request'[r].of = of
    /\ request'[r].all = all /\ request'[r].task = task /\ ~request'[r].ended
    /\ \A q \in Requests : q # r => request'[q] = request[q]
Sent(r, of) ==
    /\ asked' \in [Requests \X SaltMasters -> {"none", "sent", "acted"}]
    /\ \A q \in Requests : \A m \in SaltMasters : q # r => asked'[<<q, m>>] = asked[<<q, m>>]
    /\ \A m \in SaltMasters : asked'[<<r, m>>] \in {asked[<<r, m>>], "sent"}
    /\ \A k \in of : asked'[<<r, k[1]>>] = "sent"

\* A request is made: it goes to the masters of its keys.
LEMMA RequestIsMade ==
  ASSUME Types, NEW r \in Requests, NEW action \in Actions, NEW of \in SUBSET Keys,
         NEW all \in BOOLEAN, NEW task \in SUBSET Keys, _action_on_salt_key(r, action, of, all, task)
  PROVE  Made(r, action, of, all, task) /\ Sent(r, of)
<1> DEFINE new == [action |-> action, of |-> of, all |-> all, task |-> task,
                   late |-> {}, ended |-> FALSE]
           to == {r} \X {k[1] : k \in of}
<1>1. new \in RequestType /\ new # Unused
  BY UnusedIs, NewKeyStatus DEF RequestType
<1>2. request' = [request EXCEPT ![r] = new] /\ request[r] = Unused
  BY DEF _action_on_salt_key
<1>3. new.action = action /\ new.of = of /\ new.all = all /\ new.task = task /\ ~new.ended
  OBVIOUS
<1>4. asked' = [x \in Requests \X SaltMasters |-> IF x \in to THEN "sent" ELSE asked[x]]
  BY DEF _action_on_salt_key, Types
<1>5. \A k \in of : k[1] \in SaltMasters /\ <<r, k[1]>> \in to
  BY DEF Keys
<1>6. \A q \in Requests : \A m \in SaltMasters : q # r => <<q, m>> \notin to
  OBVIOUS
<1> HIDE DEF new, to
<1>7. /\ request' \in [Requests -> RequestType] /\ request'[r] = new
      /\ \A q \in Requests : q # r => request'[q] = request[q]
  BY <1>1, <1>2 DEF Types
<1>8. asked' \in [Requests \X SaltMasters -> {"none", "sent", "acted"}]
  BY <1>4 DEF Types
<1>9. \A q \in Requests : \A m \in SaltMasters :
          asked'[<<q, m>>] = IF <<q, m>> \in to THEN "sent" ELSE asked[<<q, m>>]
  BY <1>4
<1>10. UNCHANGED <<key, setBy, did, result, fresh, events>>
  BY DEF _action_on_salt_key
<1> QED
  BY <1>1, <1>2, <1>3, <1>5, <1>6, <1>7, <1>8, <1>9, <1>10
     DEF Made, Sent

\* What a master does with a message changes keys it has, and enters them.
LEMMA MasterChanges ==
  ASSUME Types, NEW r \in Requests, NEW m \in SaltMasters, MasterActs(r, m),
         request[r].action \in Actions
  PROVE  /\ UNCHANGED <<request, result, removal, tries, fresh, events>>
         /\ asked[<<r, m>>] = "sent"
         /\ asked' \in [Requests \X SaltMasters -> {"none", "sent", "acted"}]
         /\ \A q \in Requests : \A n \in SaltMasters :
                asked'[<<q, n>>] = IF q = r /\ n = m THEN "acted" ELSE asked[<<q, n>>]
         /\ did' \in [Requests -> SUBSET Keys]
         /\ \A q \in Requests :
                did'[q] = IF q = r THEN did[q] \cup Changed(r, m) ELSE did[q]
         /\ key' \in [Keys -> KeyStatus]
         /\ \A k \in Keys : IF k \in Changed(r, m)
                            THEN key'[k] = "none" <=> request[r].action = "delete"
                            ELSE key'[k] = key[k]
         /\ setBy' \in [Keys -> Requests \cup {Nobody, "minion"}]
         /\ \A k \in Keys : setBy'[k] = IF k \in Changed(r, m) THEN r ELSE setBy[k]
<1> DEFINE done == Changed(r, m)
           new == ACTIONS_TO_NEW_STATUS_MAP[request[r].action]
<1>1. done \subseteq Keys
  BY DEF Changed
<1>2. new \in KeyStatus /\ (new = "none" <=> request[r].action = "delete")
  BY NewKeyStatus
<1>3. /\ asked[<<r, m>>] = "sent" /\ asked' = [asked EXCEPT ![<<r, m>>] = "acted"]
      /\ did' = [did EXCEPT ![r] = @ \cup done]
      /\ key' = [k \in Keys |-> IF k \in done THEN new ELSE key[k]]
      /\ setBy' = [k \in Keys |-> IF k \in done THEN r ELSE setBy[k]]
      /\ UNCHANGED <<request, result, removal, tries, fresh, events>>
  BY DEF MasterActs
<1> HIDE DEF done, new
<1>4. /\ asked' \in [Requests \X SaltMasters -> {"none", "sent", "acted"}]
      /\ \A q \in Requests : \A n \in SaltMasters :
             asked'[<<q, n>>] = IF q = r /\ n = m THEN "acted" ELSE asked[<<q, n>>]
  BY <1>3 DEF Types
<1>5. /\ did' \in [Requests -> SUBSET Keys]
      /\ \A q \in Requests : did'[q] = IF q = r THEN did[q] \cup done ELSE did[q]
  BY <1>1, <1>3 DEF Types
<1>6. /\ key' \in [Keys -> KeyStatus] /\ setBy' \in [Keys -> Requests \cup {Nobody, "minion"}]
      /\ \A k \in Keys : /\ key'[k] = IF k \in done THEN new ELSE key[k]
                         /\ setBy'[k] = IF k \in done THEN r ELSE setBy[k]
  BY <1>2, <1>3 DEF Types
<1> QED
  BY <1>2, <1>3, <1>4, <1>5, <1>6 DEF done
-----------------------------------------------------------------------------
\* Init: no request is made and no minion deleted.
LEMMA InitKeysInv == KeysInit => KeysInv
<1> SUFFICES ASSUME KeysInit PROVE KeysInv
  OBVIOUS
<1>1. Types
  BY KeysAssumption, UnusedIs DEF KeysInit, Types, KeyStatus
<1>2. Ledger /\ Reported /\ Removals
  BY KeysAssumption, UnusedIs DEF KeysInit, Ledger, Reported, Removals
<1>3. KeyIsDeleted
  BY DEF KeysInit, KeyIsDeleted
<1> QED
  BY <1>1, <1>2, <1>3 DEF KeysInv

\* A request is made in a place in which none is, for whose predecessor there
\* no master has acted.
LEMMA MakingARequest ==
  ASSUME KeysInv, NEW r \in Requests, NewRequest(r)
  PROVE  KeysInv'
<1>1. PICK action \in Actions, of \in SUBSET Keys, all \in BOOLEAN, task \in SUBSET Keys :
          /\ _action_on_salt_key(r, action, of, all, task)
          /\ \/ task = {} /\ UNCHANGED <<removal, tries>>
             \/ \E k \in Keys : /\ task = {k} /\ of = {k} /\ action = "delete" /\ ~all
                                /\ removal[k] = "queued"
                                /\ removal' = [removal EXCEPT ![k] = "runs"]
                                /\ tries' = [tries EXCEPT ![k] = @ + 1]
  <2>1. CASE NamedKeys(r)
    BY <2>1 DEF NamedKeys, Actions
  <2>2. CASE AllKeys(r)
    <3>1. PICK action \in Actions, M \in SUBSET SaltMasters :
              /\ _action_on_salt_key(r, action, M \X SaltMinions, TRUE, {})
              /\ UNCHANGED <<removal, tries>>
      BY <2>2 DEF AllKeys, Actions
    <3>2. M \X SaltMinions \in SUBSET Keys
      BY DEF Keys
    <3> QED
      BY <3>1, <3>2
  <2>3. CASE \E k \in Keys : delete_minion_salt_keys_task(k, r)
    <3>1. PICK k \in Keys : delete_minion_salt_keys_task(k, r)
      BY <2>3
    <3>2. {k} \in SUBSET Keys /\ "delete" \in Actions /\ FALSE \in BOOLEAN
      BY NewKeyStatus
    <3>3. /\ removal[k] = "queued" /\ _action_on_salt_key(r, "delete", {k}, FALSE, {k})
          /\ removal' = [removal EXCEPT ![k] = "runs"] /\ tries' = [tries EXCEPT ![k] = @ + 1]
      BY <3>1 DEF delete_minion_salt_keys_task
    <3> QED
      BY <3>2, <3>3
  <2> QED
    BY <2>1, <2>2, <2>3 DEF NewRequest
<1>2. Made(r, action, of, all, task) /\ Sent(r, of)
  <2>1. Types /\ _action_on_salt_key(r, action, of, all, task)
    BY <1>1 DEF KeysInv
  <2> QED
    BY <2>1, RequestIsMade
<1>3. \A m \in SaltMasters : asked[<<r, m>>] = "none"
  BY <1>2 DEF Made, Sent, KeysInv, Ledger, Types
<1>4. did[r] = {} /\ \A k \in Keys : setBy[k] # r
  <2>1. \A k \in Keys : k[1] \in SaltMasters
    BY DEF Keys
  <2>2. did[r] = {}
    BY <2>1, <1>3 DEF KeysInv, Ledger, Types
  <2> QED
    BY <2>2 DEF KeysInv, Ledger
<1>5. Types'
  <2>1. CASE task = {} /\ UNCHANGED <<removal, tries>>
    BY <2>1, <1>2 DEF Made, Sent, KeysInv, Types
  <2>2. ASSUME NEW k \in Keys, removal[k] = "queued", removal' = [removal EXCEPT ![k] = "runs"],
               tries' = [tries EXCEPT ![k] = @ + 1]
        PROVE  Types'
    <3>1. /\ removal' \in [Keys -> {"none", "queued", "runs", "ended"}]
          /\ tries' \in [Keys -> 0..(MaxTries + 1)]
          /\ \A l \in Keys : /\ removal'[l] = IF l = k THEN "runs" ELSE removal[l]
                             /\ tries'[l] = IF l = k THEN tries[k] + 1 ELSE tries[l]
      BY <2>2, KeysAssumption DEF KeysInv, Types
    <3> QED
      BY <1>2, <3>1 DEF Made, Sent, KeysInv, Types
  <2> QED
    BY <1>1, <2>1, <2>2
<1>6. Ledger'
  <2>1. \A q \in Requests : \A m \in SaltMasters : asked'[<<q, m>>] # "none" => request'[q] # Unused
    BY <1>2 DEF Made, Sent, KeysInv, Ledger
  <2>2. \A q \in Requests : request'[q] # Unused => request'[q].action \in Actions
    BY <1>2 DEF Made, Sent, KeysInv, Ledger
  <2>3. \A q \in Requests : \A k \in did'[q] : asked'[<<q, k[1]>>] = "acted"
    <3> SUFFICES ASSUME NEW q \in Requests, NEW k \in did[q]
                 PROVE  asked'[<<q, k[1]>>] = "acted"
      BY <1>2 DEF Made
    <3>1. q # r /\ k[1] \in SaltMasters
      BY <1>4 DEF KeysInv, Types, Keys
    <3> QED
      BY <1>2, <3>1 DEF Sent, KeysInv, Ledger
  <2>4. \A q \in Requests : \A k \in Keys : setBy'[k] = q =>
            k \in did'[q] /\ (key'[k] # "none" => request'[q].action # "delete")
    BY <1>2, <1>4 DEF Made, Sent, KeysInv, Ledger
  <2> QED
    BY <2>1, <2>2, <2>3, <2>4 DEF Ledger
<1>7. Reported'
  <2> SUFFICES ASSUME NEW q \in Requests, request'[q].ended
               PROVE  /\ result'[q] = _parse_action_result(q, request[q].late)'
                      /\ \A m \in SaltMasters : asked'[<<q, m>>] = "sent" => m \in request'[q].late
    BY DEF Reported
  <2>1. q # r /\ UNCHANGED <<request[q], result[q], did[q]>>
    BY <1>2 DEF Made, Sent
  <2> QED
    BY <1>2, <2>1 DEF Made, Sent, KeysInv, Reported, _parse_action_result
<1>8. /\ \A k \in Keys : removal[k] # "none" => removal'[k] # "none"
      /\ \A k \in task : removal'[k] # "none"
      /\ \A k \in Keys : removal'[k] = "ended" => removal[k] = "ended" /\ tries'[k] = tries[k]
  BY <1>1 DEF KeysInv, Types
<1>9. Removals'
  <2>1. ASSUME NEW q \in Requests, NEW k \in request'[q].task, q # r
        PROVE  /\ request'[q].action = "delete" /\ request'[q].of = {k} /\ ~request'[q].all
               /\ removal'[k] # "none" /\ asked'[<<q, k[1]>>] # "none"
               /\ asked'[<<q, k[1]>>] = "acted" => key'[k] = "none" \/ k \in fresh'
    <3>1. request'[q] = request[q] /\ k \in request[q].task /\ k \in Keys
      BY <1>2, <2>1 DEF Made, Sent, RequestType, KeysInv, Types
    <3>2. k[1] \in SaltMasters
      BY <3>1 DEF Keys
    <3> QED
      BY <3>1, <3>2, <2>1, <1>2, <1>8 DEF Made, Sent, KeysInv, Removals
  <2>2. ASSUME NEW k \in request'[r].task
        PROVE  /\ request'[r].action = "delete" /\ request'[r].of = {k} /\ ~request'[r].all
               /\ removal'[k] # "none" /\ asked'[<<r, k[1]>>] = "sent"
    BY <1>1, <1>2, <1>8 DEF Made, Sent
  <2> QED
    BY <2>1, <2>2 DEF Removals
<1>10. KeyIsDeleted'
  <2>1. ASSUME NEW k \in Keys, NEW q \in Requests, k \in request[q].task, k[1] \in request[q].late
        PROVE  k \in request'[q].task /\ k[1] \in request'[q].late
    BY <1>2, <2>1, UnusedIs DEF Made, Sent
  <2> QED
    BY <1>2, <1>8, <2>1 DEF Made, Sent, KeysInv, KeyIsDeleted
<1> QED
  BY <1>5, <1>6, <1>7, <1>9, <1>10 DEF KeysInv

\* A master acts for a request, which may have ended.
LEMMA ActingForARequest ==
  ASSUME KeysInv, NEW r \in Requests, NEW m \in SaltMasters, MasterActs(r, m)
  PROVE  KeysInv'
<1> DEFINE done == Changed(r, m)
           act == request[r].action
<1>0. Types
  BY DEF KeysInv
<1>1. request[r] # Unused /\ act \in Actions
  BY DEF MasterActs, KeysInv, Ledger
<1>2. /\ UNCHANGED <<request, result, removal, tries, fresh, events>>
      /\ asked[<<r, m>>] = "sent"
  BY DEF MasterActs
<1>3. /\ asked' \in [Requests \X SaltMasters -> {"none", "sent", "acted"}]
      /\ \A q \in Requests : \A n \in SaltMasters :
             asked'[<<q, n>>] = IF q = r /\ n = m THEN "acted" ELSE asked[<<q, n>>]
  BY <1>0 DEF MasterActs, Types
<1>4. /\ did' \in [Requests -> SUBSET Keys]
      /\ \A q \in Requests : did'[q] = IF q = r THEN did[q] \cup done ELSE did[q]
  BY <1>0, <1>1, MasterChanges
<1>5. /\ key' \in [Keys -> KeyStatus]
      /\ \A k \in Keys : IF k \in done THEN key'[k] = "none" <=> act = "delete"
                         ELSE key'[k] = key[k]
  BY <1>0, <1>1, MasterChanges
<1>6. /\ setBy' \in [Keys -> Requests \cup {Nobody, "minion"}]
      /\ \A k \in Keys : setBy'[k] = IF k \in done THEN r ELSE setBy[k]
  BY <1>0, <1>1, MasterChanges
<1>7. \A k \in done : k \in Keys /\ k[1] = m /\ key[k] # "none" /\ k \in request[r].of
  BY DEF Changed
<1>8. \A k \in Keys : k \in request[r].of /\ k[1] = m /\ key[k] # "none" /\ ~request[r].all
                       => k \in done
  BY DEF Changed
<1> HIDE DEF done
<1>9. Types'
  BY <1>2, <1>3, <1>4, <1>5, <1>6 DEF KeysInv, Types
<1>10. Ledger'
  <2>1. \A q \in Requests : \A n \in SaltMasters : asked'[<<q, n>>] # "none" => request'[q] # Unused
    BY <1>1, <1>2, <1>3 DEF KeysInv, Ledger
  <2>2. \A q \in Requests : request'[q] # Unused => request'[q].action \in Actions
    BY <1>2 DEF KeysInv, Ledger
  <2>3. ASSUME NEW q \in Requests, NEW k \in did'[q]
        PROVE  asked'[<<q, k[1]>>] = "acted"
    <3>1. k[1] \in SaltMasters
      BY <1>4 DEF Keys
    <3>2. CASE k \in did[q]
      BY <3>1, <3>2, <1>3 DEF KeysInv, Ledger
    <3>3. CASE k \notin did[q]
      BY <3>1, <3>3, <1>3, <1>4, <1>7
    <3> QED
      BY <3>2, <3>3
  <2>4. ASSUME NEW q \in Requests, NEW k \in Keys, setBy'[k] = q
        PROVE  k \in did'[q] /\ (key'[k] # "none" => request'[q].action # "delete")
    <3>1. CASE k \in done
      BY <3>1, <2>4, <1>2, <1>4, <1>5, <1>6
    <3>2. CASE k \notin done
      BY <3>2, <2>4, <1>2, <1>4, <1>5, <1>6 DEF KeysInv, Ledger
    <3> QED
      BY <3>1, <3>2
  <2> QED
    BY <2>1, <2>2, <2>3, <2>4 DEF Ledger
<1>11. Reported'
  <2> SUFFICES ASSUME NEW q \in Requests, request'[q].ended
               PROVE  /\ result'[q] = _parse_action_result(q, request[q].late)'
                      /\ \A n \in SaltMasters : asked'[<<q, n>>] = "sent" => n \in request'[q].late
    BY DEF Reported
  <2>1. /\ UNCHANGED <<request, result>> /\ request[q].ended
        /\ result[q] = _parse_action_result(q, request[q].late)
        /\ \A n \in SaltMasters : asked[<<q, n>>] = "sent" => n \in request[q].late
    BY <1>2 DEF KeysInv, Reported
  <2>2. q = r => m \in request[r].late
    BY <1>2, <2>1
  <2>3. {k \in did'[q] : k[1] \notin request[q].late} = {k \in did[q] : k[1] \notin request[q].late}
    BY <1>4, <1>7, <2>2
  <2> QED
    BY <2>1, <2>3, <1>3 DEF _parse_action_result
<1>12. Removals'
  <2> SUFFICES ASSUME NEW q \in Requests, NEW k \in request[q].task
               PROVE  /\ request[q].action = "delete" /\ request[q].of = {k} /\ ~request[q].all
                      /\ removal[k] # "none" /\ asked'[<<q, k[1]>>] # "none"
                      /\ asked'[<<q, k[1]>>] = "acted" => key'[k] = "none" \/ k \in fresh
    BY <1>2 DEF Removals
  <2>1. k \in Keys /\ k[1] \in SaltMasters
    BY DEF KeysInv, Types, RequestType, Keys
  <2>2. /\ request[q].action = "delete" /\ request[q].of = {k} /\ ~request[q].all
        /\ removal[k] # "none" /\ asked[<<q, k[1]>>] # "none"
        /\ asked[<<q, k[1]>>] = "acted" => key[k] = "none" \/ k \in fresh
    BY DEF KeysInv, Removals
  <2>3. key[k] = "none" => key'[k] = "none"
    BY <1>5, <1>7, <2>1
  <2>4. q = r /\ k[1] = m => key'[k] = "none"
    BY <1>5, <1>8, <2>1, <2>2, <2>3
  <2> QED
    BY <1>3, <2>1, <2>2, <2>3, <2>4
<1>13. KeyIsDeleted'
  <2>1. \A k \in Keys : key[k] = "none" => key'[k] = "none"
    BY <1>5, <1>7
  <2> QED
    BY <1>2, <2>1 DEF KeysInv, KeyIsDeleted
<1> QED
  BY <1>9, <1>10, <1>11, <1>12, <1>13 DEF KeysInv

\* A request ends: of its masters, those that have not acted are late.
LEMMA EndingARequest ==
  ASSUME KeysInv, NEW r \in Requests, Return(r)
  PROVE  KeysInv'
<1>1. PICK late \in TooLate(r) :
          /\ result' = [result EXCEPT ![r] = _parse_action_result(r, late)]
          /\ request' = [request EXCEPT ![r].ended = TRUE, ![r].late = late]
  BY DEF Return
<1>2. /\ UNCHANGED <<key, setBy, asked, did, tries, fresh, events>>
      /\ request[r] # Unused /\ ~request[r].ended
      /\ removal' = [k \in Keys |-> IF k \in request[r].task THEN "ended" ELSE removal[k]]
  BY DEF Return
<1>3. /\ late \subseteq SaltMasters
      /\ \A m \in SaltMasters : asked[<<r, m>>] = "sent" => m \in late
  BY DEF TooLate
<1>4. _parse_action_result(r, late) \in SUBSET Keys
  BY DEF _parse_action_result, KeysInv, Types
<1>5. /\ request' \in [Requests -> RequestType]
      /\ \A q \in Requests : q # r => request'[q] = request[q]
      /\ request'[r].ended /\ request'[r].late = late
      /\ request'[r].action = request[r].action /\ request'[r].of = request[r].of
      /\ request'[r].all = request[r].all /\ request'[r].task = request[r].task
  <2>1. request[r] \in RequestType /\ request \in [Requests -> RequestType]
    BY DEF KeysInv, Types
  <2> DEFINE ended == [request[r] EXCEPT !.ended = TRUE, !.late = late]
  <2>2. /\ ended \in RequestType /\ ended.ended /\ ended.late = late
        /\ ended.action = request[r].action /\ ended.of = request[r].of
        /\ ended.all = request[r].all /\ ended.task = request[r].task
    BY <2>1, <1>3 DEF RequestType
  <2>3. request' = [request EXCEPT ![r] = ended]
    BY <1>1
  <2> HIDE DEF ended
  <2> QED
    BY <2>1, <2>2, <2>3
<1>6. /\ result' \in [Requests -> SUBSET Keys] /\ result'[r] = _parse_action_result(r, late)
      /\ \A q \in Requests : q # r => result'[q] = result[q]
  BY <1>1, <1>4 DEF KeysInv, Types
<1>7. request'[r] # Unused
  BY <1>5, UnusedIs
<1>8. Types'
  BY <1>2, <1>5, <1>6 DEF KeysInv, Types
<1>9. Ledger'
  <2>1. \A q \in Requests : /\ request'[q].action = request[q].action
                            /\ (request'[q] = Unused) <=> (request[q] = Unused)
    BY <1>2, <1>5, <1>7
  <2>2. ASSUME NEW q \in Requests
        PROVE  /\ \A m \in SaltMasters : asked[<<q, m>>] # "none" => request'[q] # Unused
               /\ request'[q] # Unused => request'[q].action \in Actions
    <3>1. /\ \A m \in SaltMasters : asked[<<q, m>>] # "none" => request[q] # Unused
          /\ request[q] # Unused => request[q].action \in Actions
      BY DEF KeysInv, Ledger
    <3>2. request'[q].action = request[q].action /\ (request'[q] = Unused <=> request[q] = Unused)
      BY <2>1
    <3> QED
      BY <3>1, <3>2
  <2>3. \A q \in Requests : \A k \in Keys : setBy[k] = q =>
            k \in did[q] /\ (key[k] # "none" => request'[q].action # "delete")
    BY <2>1 DEF KeysInv, Ledger
  <2> QED
    BY <1>2, <2>2, <2>3 DEF KeysInv, Ledger
<1>10. Reported'
  <2> SUFFICES ASSUME NEW q \in Requests, request'[q].ended
               PROVE  /\ result'[q] = _parse_action_result(q, request[q].late)'
                      /\ \A m \in SaltMasters : asked'[<<q, m>>] = "sent" => m \in request'[q].late
    BY DEF Reported
  <2>1. CASE q = r
    BY <2>1, <1>2, <1>3, <1>5, <1>6 DEF _parse_action_result
  <2>2. CASE q # r
    BY <2>2, <1>2, <1>5, <1>6 DEF _parse_action_result, KeysInv, Reported
  <2> QED
    BY <2>1, <2>2
<1>11. \A k \in Keys : removal'[k] = IF k \in request[r].task THEN "ended" ELSE removal[k]
  BY <1>2
<1>12. Removals'
  <2> SUFFICES ASSUME NEW q \in Requests, NEW k \in request'[q].task
               PROVE  /\ request'[q].action = "delete" /\ request'[q].of = {k} /\ ~request'[q].all
                      /\ removal'[k] # "none" /\ asked[<<q, k[1]>>] # "none"
                      /\ asked[<<q, k[1]>>] = "acted" => key[k] = "none" \/ k \in fresh
    BY <1>2 DEF Removals
  <2>1. /\ request'[q].action = request[q].action /\ request'[q].of = request[q].of
        /\ request'[q].all = request[q].all /\ k \in request[q].task
    BY <1>5
  <2>2. k \in Keys
    BY <2>1 DEF KeysInv, Types, RequestType
  <2> QED
    BY <1>11, <2>1, <2>2 DEF KeysInv, Removals
<1>13. KeyIsDeleted'
  <2> SUFFICES ASSUME NEW k \in Keys, removal'[k] = "ended"
               PROVE  \/ key[k] = "none" \/ k \in fresh \/ tries[k] > MaxTries
                      \/ \E q \in Requests : k \in request'[q].task /\ k[1] \in request'[q].late
    BY <1>2 DEF KeyIsDeleted
  <2>1. CASE k \in request[r].task
    <3>1. k[1] \in SaltMasters
      BY DEF Keys
    <3>2. /\ asked[<<r, k[1]>>] # "none"
          /\ asked[<<r, k[1]>>] = "acted" => key[k] = "none" \/ k \in fresh
      BY <2>1 DEF KeysInv, Removals
    <3>3. asked[<<r, k[1]>>] \in {"none", "sent", "acted"}
      BY <3>1 DEF KeysInv, Types
    <3> QED
      BY <2>1, <3>1, <3>2, <3>3, <1>3, <1>5
  <2>2. CASE k \notin request[r].task
    <3>1. ASSUME NEW q \in Requests, k \in request[q].task, k[1] \in request[q].late
          PROVE  k \in request'[q].task /\ k[1] \in request'[q].late
      BY <3>1, <2>2, <1>5
    <3> QED
      BY <3>1, <2>2, <1>11 DEF KeysInv, KeyIsDeleted
  <2> QED
    BY <2>1, <2>2
<1> QED
  BY <1>8, <1>9, <1>10, <1>12, <1>13 DEF KeysInv

\* The request of a task fails, for which no master has acted yet.
LEMMA FailingARequest ==
  ASSUME KeysInv, NEW r \in Requests, RequestFails(r)
  PROVE  KeysInv'
<1>1. /\ UNCHANGED <<key, setBy, did, result, tries, fresh>> /\ events < MaxEvents
      /\ events' = events + 1
      /\ ~request[r].ended /\ \A m \in SaltMasters : asked[<<r, m>>] \in {"none", "sent"}
      /\ request' = [request EXCEPT ![r] = Unused]
      /\ asked' = [x \in DOMAIN asked |-> IF x[1] = r THEN "none" ELSE asked[x]]
      /\ removal' = [k \in Keys |-> IF k \in request[r].task THEN TaskFails(k) ELSE removal[k]]
  BY DEF RequestFails
<1>2. /\ request' \in [Requests -> RequestType] /\ request'[r] = Unused
      /\ \A q \in Requests : q # r => request'[q] = request[q]
  BY <1>1, UnusedIs DEF KeysInv, Types
<1>3. /\ asked' \in [Requests \X SaltMasters -> {"none", "sent", "acted"}]
      /\ \A q \in Requests : \A m \in SaltMasters :
             asked'[<<q, m>>] = IF q = r THEN "none" ELSE asked[<<q, m>>]
  BY <1>1 DEF KeysInv, Types
<1>4. /\ removal' \in [Keys -> {"none", "queued", "runs", "ended"}]
      /\ \A k \in Keys :
             /\ k \in request[r].task =>
                    \/ removal'[k] = "queued" /\ tries[k] <= MaxTries
                    \/ removal'[k] = "ended" /\ tries[k] > MaxTries
             /\ k \notin request[r].task => removal'[k] = removal[k]
  BY <1>1, KeysAssumption DEF KeysInv, Types, TaskFails
<1>5. did[r] = {} /\ \A k \in Keys : setBy[k] # r
  <2>1. did[r] \subseteq Keys /\ \A k \in Keys : k[1] \in SaltMasters
    BY DEF Keys, KeysInv, Types
  <2>2. did[r] = {}
    BY <2>1, <1>1 DEF KeysInv, Ledger
  <2> QED
    BY <2>2 DEF KeysInv, Ledger
<1>6. Types'
  <2>1. events' \in 0..MaxEvents
    BY <1>1, KeysAssumption DEF KeysInv, Types
  <2>2. \A k \in Keys : /\ removal'[k] = "none" => tries'[k] = 0
                        /\ removal'[k] = "queued" => tries'[k] <= MaxTries
    BY <1>1, <1>4 DEF KeysInv, Types
  <2> QED
    BY <2>1, <2>2, <1>1, <1>2, <1>3, <1>4 DEF KeysInv, Types
<1>7. Ledger'
  <2>1. /\ \A q \in Requests : \A m \in SaltMasters : asked'[<<q, m>>] # "none" => request'[q] # Unused
        /\ \A q \in Requests : request'[q] # Unused => request'[q].action \in Actions
    BY <1>2, <1>3 DEF KeysInv, Ledger
  <2>2. ASSUME NEW q \in Requests, NEW k \in did[q]
        PROVE  asked'[<<q, k[1]>>] = "acted"
    <3>1. q # r /\ k[1] \in SaltMasters
      BY <1>5 DEF KeysInv, Types, Keys
    <3> QED
      BY <3>1, <1>3 DEF KeysInv, Ledger
  <2>3. \A q \in Requests : \A k \in Keys : setBy[k] = q =>
            k \in did[q] /\ (key[k] # "none" => request'[q].action # "delete")
    BY <1>2, <1>5 DEF KeysInv, Ledger
  <2> QED
    BY <2>1, <2>2, <2>3, <1>1 DEF Ledger
<1>8. Reported'
  <2> SUFFICES ASSUME NEW q \in Requests, request'[q].ended
               PROVE  /\ result'[q] = _parse_action_result(q, request[q].late)'
                      /\ \A m \in SaltMasters : asked'[<<q, m>>] = "sent" => m \in request'[q].late
    BY DEF Reported
  <2>1. q # r
    BY <1>2, UnusedIs
  <2> QED
    BY <2>1, <1>1, <1>2, <1>3 DEF _parse_action_result, KeysInv, Reported
<1>9. Removals'
  <2> SUFFICES ASSUME NEW q \in Requests, NEW k \in request'[q].task
               PROVE  /\ request'[q].action = "delete" /\ request'[q].of = {k} /\ ~request'[q].all
                      /\ removal'[k] # "none" /\ asked'[<<q, k[1]>>] # "none"
                      /\ asked'[<<q, k[1]>>] = "acted" => key[k] = "none" \/ k \in fresh
    BY <1>1 DEF Removals
  <2>1. q # r /\ request'[q] = request[q]
    BY <1>2, UnusedIs
  <2>2. k \in Keys /\ k[1] \in SaltMasters
    BY <2>1 DEF KeysInv, Types, RequestType, Keys
  <2> QED
    BY <2>1, <2>2, <1>3, <1>4 DEF KeysInv, Removals
<1>10. KeyIsDeleted'
  <2> SUFFICES ASSUME NEW k \in Keys, removal'[k] = "ended"
               PROVE  \/ key[k] = "none" \/ k \in fresh \/ tries[k] > MaxTries
                      \/ \E q \in Requests : k \in request'[q].task /\ k[1] \in request'[q].late
    BY <1>1 DEF KeyIsDeleted
  <2>1. CASE k \in request[r].task
    BY <2>1, <1>4
  <2>2. CASE k \notin request[r].task
    <3>1. ASSUME NEW q \in Requests, k \in request[q].task, k[1] \in request[q].late
          PROVE  k \in request'[q].task /\ k[1] \in request'[q].late
      BY <3>1, <2>2, <1>2
    <3> QED
      BY <3>1, <2>2, <1>4 DEF KeysInv, KeyIsDeleted
  <2> QED
    BY <2>1, <2>2
<1> QED
  BY <1>6, <1>7, <1>8, <1>9, <1>10 DEF KeysInv

\* A minion is deleted, or comes back.
LEMMA MinionGoesOrComes ==
  ASSUME KeysInv, NEW k \in Keys, minion_delete(k) \/ Rejoin(k)
  PROVE  KeysInv'
<1>1. CASE minion_delete(k)
  <2>1. /\ UNCHANGED <<key, setBy, request, asked, did, result, tries, fresh>>
        /\ removal[k] = "none" /\ events < MaxEvents /\ events' = events + 1
        /\ removal' \in [Keys -> {"none", "queued", "runs", "ended"}]
        /\ \A l \in Keys : removal'[l] = IF l = k THEN "queued" ELSE removal[l]
    BY <1>1 DEF minion_delete, KeysInv, Types
  <2>2. Types'
    BY <2>1, KeysAssumption DEF KeysInv, Types
  <2>3. Ledger' /\ Reported' /\ Removals'
    <3>1. \A r \in Requests : request[r].task \subseteq Keys
      BY DEF KeysInv, Types, RequestType
    <3> QED
      BY <3>1, <2>1 DEF KeysInv, Ledger, Reported, Removals, _parse_action_result
  <2>4. KeyIsDeleted'
    BY <2>1 DEF KeysInv, KeyIsDeleted
  <2> QED
    BY <2>2, <2>3, <2>4 DEF KeysInv
<1>2. CASE Rejoin(k)
  <2>1. /\ UNCHANGED <<request, asked, did, result, removal, tries>> /\ events < MaxEvents
        /\ events' = events + 1 /\ key[k] = "none"
        /\ fresh' = IF removal[k] = "none" THEN fresh ELSE fresh \cup {k}
        /\ key' \in [Keys -> KeyStatus] /\ setBy' \in [Keys -> Requests \cup {Nobody, "minion"}]
        /\ \A l \in Keys : /\ key'[l] = IF l = k THEN "unaccepted" ELSE key[l]
                           /\ setBy'[l] = IF l = k THEN "minion" ELSE setBy[l]
    BY <1>2 DEF Rejoin, KeysInv, Types, KeyStatus
  <2>2. Types'
    BY <2>1, KeysAssumption DEF KeysInv, Types
  <2>3. Ledger' /\ Reported'
    BY <2>1, KeysAssumption DEF KeysInv, Ledger, Reported, _parse_action_result
  <2>4. Removals'
    <3>1. \A r \in Requests : request[r].task \subseteq Keys
      BY DEF KeysInv, Types, RequestType
    <3> QED
      BY <3>1, <2>1 DEF KeysInv, Removals
  <2>5. KeyIsDeleted'
    BY <2>1 DEF KeysInv, KeyIsDeleted
  <2> QED
    BY <2>2, <2>3, <2>4, <2>5 DEF KeysInv
<1> QED
  BY <1>1, <1>2
-----------------------------------------------------------------------------
\* Every reachable state is as the invariant says.
THEOREM KeysAreRight == KeysSpec => []KeysInv
<1>1. KeysInv /\ [KeysNext]_keysVars => KeysInv'
  <2> SUFFICES ASSUME KeysInv, [KeysNext]_keysVars PROVE KeysInv'
    OBVIOUS
  <2>1. ASSUME NEW r \in Requests, NewRequest(r) PROVE KeysInv'
    BY <2>1, MakingARequest
  <2>2. ASSUME NEW r \in Requests, NEW m \in SaltMasters, MasterActs(r, m) PROVE KeysInv'
    BY <2>2, ActingForARequest
  <2>3. ASSUME NEW r \in Requests, Return(r) PROVE KeysInv'
    BY <2>3, EndingARequest
  <2>4. ASSUME NEW r \in Requests, RequestFails(r) PROVE KeysInv'
    BY <2>4, FailingARequest
  <2>5. ASSUME NEW k \in Keys, minion_delete(k) \/ Rejoin(k) PROVE KeysInv'
    BY <2>5, MinionGoesOrComes
  <2>6. CASE UNCHANGED keysVars
    BY <2>6 DEF keysVars, KeysInv, Types, Ledger, Reported, Removals, KeyIsDeleted,
                _parse_action_result
  <2> QED
    BY <2>1, <2>2, <2>3, <2>4, <2>5, <2>6 DEF KeysNext, NewRequest
<1> QED
  BY InitKeysInv, <1>1, PTL DEF KeysSpec

\* What a request reports to its user was done for it, and nothing but what late
\* masters did is left out.
THEOREM ReportsAreTrue == KeysSpec => []ReportedIsDone
<1>1. KeysInv => ReportedIsDone
  <2> SUFFICES ASSUME KeysInv, NEW r \in Requests, request[r].ended
               PROVE  /\ result[r] \subseteq did[r]
                      /\ \A k \in Keys : setBy[k] = r /\ key[k] # "none" =>
                             k \in result[r] \/ k[1] \in request[r].late
    BY DEF ReportedIsDone
  <2> QED
    BY DEF KeysInv, Ledger, Reported, _parse_action_result
<1> QED
  BY KeysAreRight, <1>1, PTL

\* The key of a deleted minion goes, however often the broker failed before.
THEOREM KeysOfDeletedGo == KeysSpec => []KeyIsDeleted
<1>1. KeysInv => KeyIsDeleted
  BY DEF KeysInv
<1> QED
  BY KeysAreRight, <1>1, PTL
=============================================================================

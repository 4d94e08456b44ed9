-------------------------- MODULE SshfsFiles_proofs --------------------------
(***************************************************************************)
(* What SshfsFiles promises of the files that masters read, proved for any *)
(* number of sources, users' requests, paths, URLs and versions.  A step   *)
(* changes the disk at one path, and what it knows of the document of that *)
(* path is what decides: that there is one (UniquePaths), that no other    *)
(* task works on it (TaskDocs), that nobody else is at the download path   *)
(* (Alone), or that a history names it.                                    *)
(***************************************************************************)
EXTENDS SshfsFiles, TLAPS

\* Documents of manifests, and of users.
ManifestDoc == [kind : {"manifest"}, box : Boxes, file : Entry, synced : BOOLEAN]
UserFile == [path : Paths, url : {"none"}, sum : {Upload}]
UserDoc == [kind : {"user"}, box : {NoBox}, file : UserFile, synced : BOOLEAN]
Ids == 1..MaxFiles

TaskSteps == {"idle", "remove", "drop", "create", "write", "move", "record", "error"}
OnDoc == {"remove", "drop", "write", "move", "record", "error"}
Fds == Paths \cup {"none", "tmp", "lost"}
TaskState == [at : TaskSteps, doc : Nat, want : Entry \cup {NoFile}, ver : Versions \cup {0},
              fd : Fds]
UploadSteps == {"fetch", "save", "record", "remove", "drop"}
UploadState == [at : UploadSteps, doc : Ids, file : UserFile] \cup {NoRequest}

(***************************************************************************)
(* Types, and what a task or a request knows of the document it works on.  *)
(***************************************************************************)
Types ==
    /\ manifest \in [Boxes -> Entry \cup {NoFile}] /\ net \in [Urls -> Versions]
    /\ doc \in [Ids -> ManifestDoc \cup UserDoc \cup {Gone}]
    /\ disk \in [Paths -> Contents] /\ tmp \in [Urls -> Contents]
    /\ task \in [Boxes -> TaskState] /\ upload \in [Uploaders -> UploadState]
    /\ mixed \subseteq Ids /\ cut \subseteq Ids /\ overtaken \subseteq Paths
    /\ uploads \in 0..MaxUploads /\ changes \in 0..MaxChanges /\ faults \in 0..MaxFaults
PathOf(d) == doc[d].file.path
UniquePaths == \A d, e \in Ids : There(d) /\ There(e) /\ PathOf(d) = PathOf(e) => d = e
TaskDoc(b) ==
    /\ task[b].at \in OnDoc => /\ task[b].doc \in Ids
                               /\ doc[task[b].doc] \in ManifestDoc
                               /\ doc[task[b].doc].box = b
    /\ task[b].at = "create" => task[b].want \in Entry
    /\ task[b].at = "write" => task[b].ver \in Versions
UploadDoc(r) == upload[r].at # "idle" /\ There(upload[r].doc) =>
    doc[upload[r].doc] \in UserDoc /\ doc[upload[r].doc].file = upload[r].file
TaskDocs == \A b \in Boxes : TaskDoc(b)
UploadDocs == \A r \in Uploaders : UploadDoc(r)
Basics == Types /\ UniquePaths /\ TaskDocs /\ UploadDocs

(***************************************************************************)
(* What is on the disk.  Saving: an upload writes to its own document's    *)
(* path.  Dropping: nothing comes to a path that is being dropped.  OnDisk:*)
(* a download that goes on in another's place writes there only if the     *)
(* documents are mixed.  Alone: those that are not mixed are alone at the  *)
(* download path.                                                          *)
(***************************************************************************)
SavingOf(r) == upload[r].at = "save" =>
    There(upload[r].doc) \/ upload[r].file.path \in overtaken
DroppingOf(b) == task[b].at = "drop" =>
    PathOf(task[b].doc) \in overtaken \/ disk[PathOf(task[b].doc)] = Absent
OnDiskOf(b) == task[b].at = "write" /\ task[b].fd \in Paths =>
    /\ disk[task[b].fd] # Absent
    /\ \A d \in Ids : PathOf(d) = task[b].fd /\ PathOf(d) \notin overtaken =>
           d \in mixed /\ doc[d].file.url = UrlOf(b)
AloneOf(b) == task[b].at \in {"write", "move"} /\ task[b].doc \notin mixed =>
    /\ Downloading(UrlOf(b)) = {b}
    /\ task[b].at = "write" => task[b].fd = "tmp" /\ tmp[UrlOf(b)] = [vers |-> {}, by |-> b]
    /\ task[b].at = "move" => tmp[UrlOf(b)] = Whole(task[b].ver)
HasDocAt(p) == p \notin overtaken /\ disk[p] # Absent => \E d \in Ids : PathOf(d) = p

\* A document that says, or is about to say, that its file is there.
Claimed(d) ==
    \/ doc[d].synced
    \/ \E b \in Boxes : task[b].at = "record" /\ task[b].doc = d
    \/ \E r \in Uploaders : upload[r].at = "record" /\ upload[r].doc = d
Sound(d) == \/ PathOf(d) \in overtaken \/ Removing(d) \/ d \in mixed \cup cut
            \/ disk[PathOf(d)] = Whole(doc[d].file.sum)
ClaimOf(d) == There(d) /\ Claimed(d) => Sound(d)

OnTheDisk ==
    /\ \A r \in Uploaders : SavingOf(r)
    /\ \A b \in Boxes : DroppingOf(b) /\ OnDiskOf(b) /\ AloneOf(b)
    /\ \A p \in Paths : HasDocAt(p)
    /\ \A d \in Ids : ClaimOf(d)
-----------------------------------------------------------------------------
\* What documents of each kind are, and that neither is Gone.
LEMMA Kinds ==
    /\ "none" \notin Paths /\ "tmp" \notin Paths /\ "lost" \notin Paths
    /\ NoFile \notin Entry /\ Gone \notin ManifestDoc /\ Gone \notin UserDoc
    /\ ManifestDoc \cap UserDoc = {}
    /\ Gone.file.path = "none" /\ Gone.kind = "gone" /\ ~Gone.synced
    /\ \A x \in ManifestDoc : /\ x.file \in Entry /\ x.file.path \in Paths /\ x.file.url \in Urls
                              /\ x.file.sum \in Versions /\ x.box \in Boxes /\ x.kind = "manifest"
                              /\ x.synced \in BOOLEAN
    /\ \A x \in UserDoc : /\ x.file \in UserFile /\ x.file.path \in Paths /\ x.file.sum = Upload
                          /\ x.kind = "user" /\ x.synced \in BOOLEAN
    /\ \A x \in UserFile : x.path \in Paths /\ x.sum = Upload
BY FilesAssumption DEF NoFile, Entry, Gone, ManifestDoc, UserDoc, UserFile

\* A document is that of a manifest, that of a user, or none.
LEMMA Documents ==
    ASSUME Types, NEW d \in Ids
    PROVE  /\ doc[d] \in ManifestDoc \/ doc[d] \in UserDoc \/ doc[d] = Gone
           /\ There(d) => PathOf(d) \in Paths
           /\ ~There(d) => PathOf(d) = "none" /\ ~doc[d].synced
           /\ PathOf(d) \in Paths => There(d)
BY Kinds DEF Types, There, PathOf

\* Fields of what a task and a request are.
LEMMA TaskFields ==
    ASSUME Types, NEW b \in Boxes
    PROVE  /\ task[b] \in TaskState /\ task[b].at \in TaskSteps /\ task[b].doc \in Nat
           /\ task[b].want \in Entry \cup {NoFile} /\ task[b].fd \in Fds
           /\ task[b].ver \in Versions \cup {0}
BY DEF Types, TaskState
\* A request that is not idle has a document and a file.
LEMMA UploadFields ==
    ASSUME Types, NEW r \in Uploaders
    PROVE  /\ upload[r] \in UploadState
           /\ upload[r].at \in UploadSteps \cup {"idle"}
           /\ upload[r].at # "idle" => /\ upload[r].doc \in Ids /\ upload[r].file \in UserFile
                                       /\ upload[r] \in [at : UploadSteps, doc : Ids, file : UserFile]
           /\ upload[r].at = "idle" => upload[r].doc = 0 /\ upload[r] = NoRequest
<1>1. upload[r] \in UploadState  BY DEF Types
<1> QED  BY <1>1 DEF UploadState, NoRequest, UploadSteps

\* The document of a task, and that of a request, if it is there.
LEMMA DocOfTask ==
    ASSUME Basics, NEW b \in Boxes, task[b].at \in OnDoc
    PROVE  /\ task[b].doc \in Ids /\ There(task[b].doc) /\ doc[task[b].doc] \in ManifestDoc
           /\ PathOf(task[b].doc) \in Paths /\ UrlOf(b) \in Urls
           /\ doc[task[b].doc].file.sum \in Versions /\ doc[task[b].doc].box = b
           /\ \A c \in Boxes : task[c].at \in OnDoc /\ task[c].doc = task[b].doc => c = b
           /\ \A r \in Uploaders : upload[r].at # "idle" => upload[r].doc # task[b].doc
<1>1. TaskDoc(b) /\ \A c \in Boxes : TaskDoc(c)  BY DEF Basics, TaskDocs
<1>2. \A r \in Uploaders : UploadDoc(r)  BY DEF Basics, UploadDocs
<1>3. task[b].doc \in Ids /\ doc[task[b].doc] \in ManifestDoc /\ doc[task[b].doc].box = b
  BY <1>1 DEF TaskDoc
<1>4. There(task[b].doc)  BY <1>3, Kinds DEF There
<1>5. PathOf(task[b].doc) \in Paths /\ UrlOf(b) \in Urls /\ doc[task[b].doc].file.sum \in Versions
  BY <1>3, Kinds DEF PathOf, UrlOf
<1>6. ASSUME NEW c \in Boxes, task[c].at \in OnDoc, task[c].doc = task[b].doc PROVE c = b
  BY <1>1, <1>3, <1>6 DEF TaskDoc
<1>7. ASSUME NEW r \in Uploaders, upload[r].at # "idle", upload[r].doc = task[b].doc PROVE FALSE
  <2>1. doc[upload[r].doc] \in UserDoc  BY <1>2, <1>4, <1>7 DEF UploadDoc
  <2> QED  BY <2>1, <1>3, <1>7, Kinds
<1> QED  BY <1>3, <1>4, <1>5, <1>6, <1>7
\* A request knows its file, and its document is a user's, if it is there.
LEMMA DocOfUpload ==
    ASSUME Basics, NEW r \in Uploaders, upload[r].at # "idle"
    PROVE  /\ upload[r].doc \in Ids /\ upload[r].file \in UserFile /\ upload[r].file.path \in Paths
           /\ upload[r].file.sum = Upload
           /\ There(upload[r].doc) => /\ doc[upload[r].doc] \in UserDoc
                                      /\ doc[upload[r].doc].file = upload[r].file
                                      /\ PathOf(upload[r].doc) = upload[r].file.path
           /\ \A b \in Boxes : task[b].at \in OnDoc => task[b].doc # upload[r].doc
<1>1. Types /\ UploadDoc(r)  BY DEF Basics, UploadDocs
<1>2. upload[r].doc \in Ids /\ upload[r].file \in UserFile  BY <1>1, UploadFields
<1>3. upload[r].file.path \in Paths /\ upload[r].file.sum = Upload  BY <1>2, Kinds
<1>4. There(upload[r].doc) => /\ doc[upload[r].doc] \in UserDoc
                              /\ doc[upload[r].doc].file = upload[r].file
                              /\ PathOf(upload[r].doc) = upload[r].file.path
  BY <1>1 DEF UploadDoc, PathOf
<1>5. \A b \in Boxes : task[b].at \in OnDoc => task[b].doc # upload[r].doc  BY DocOfTask
<1> QED  BY <1>2, <1>3, <1>4, <1>5

-----------------------------------------------------------------------------
\* What the helpers of the actions do, field by field.
LEMMA TaskGoes ==
    ASSUME Types, NEW b \in Boxes, NEW at \in TaskSteps, Go(b, at)
    PROVE  /\ task' \in [Boxes -> TaskState] /\ \A c \in Boxes \ {b} : task'[c] = task[c]
           /\ task'[b].at = at /\ task'[b].doc = task[b].doc /\ task'[b].want = task[b].want
           /\ task'[b].ver = task[b].ver /\ task'[b].fd = task[b].fd
<1>1. task \in [Boxes -> TaskState] /\ task[b] \in TaskState  BY DEF Types
<1>2. [task[b] EXCEPT !.at = at] \in TaskState  BY <1>1 DEF TaskState
<1>3. task' = [task EXCEPT ![b] = [task[b] EXCEPT !.at = at]]  BY <1>1 DEF Go
<1>4. task'[b] = [task[b] EXCEPT !.at = at]  BY <1>1, <1>3
<1>5. /\ task'[b].at = at /\ task'[b].doc = task[b].doc /\ task'[b].want = task[b].want
      /\ task'[b].ver = task[b].ver /\ task'[b].fd = task[b].fd
  BY <1>1, <1>4 DEF TaskState
<1> QED  BY <1>1, <1>2, <1>3, <1>5
\* A task that ends remembers nothing.
LEMMA TaskEnds ==
    ASSUME Types, NEW b \in Boxes, Ends(b)
    PROVE  /\ task' \in [Boxes -> TaskState] /\ \A c \in Boxes \ {b} : task'[c] = task[c]
           /\ task'[b] = Idle /\ task'[b].at = "idle"
<1>1. Idle \in TaskState /\ Idle.at = "idle"  BY DEF Idle, TaskState, TaskSteps, Fds
<1> QED  BY <1>1 DEF Types, Ends
\* Who writes to a path that is unlinked writes to no path; nothing else changes.
LEMMA TaskUnlinked ==
    ASSUME Types, NEW p \in Paths
    PROVE  /\ Unlinked(p) \in [Boxes -> TaskState]
           /\ \A c \in Boxes :
                /\ Unlinked(p)[c].at = task[c].at /\ Unlinked(p)[c].doc = task[c].doc
                /\ Unlinked(p)[c].want = task[c].want /\ Unlinked(p)[c].ver = task[c].ver
                /\ Unlinked(p)[c].fd # p /\ Unlinked(p)[c].fd \in {task[c].fd, "lost"}
                /\ task[c].fd # p => Unlinked(p)[c].fd = task[c].fd
<1>1. PICK T : T = Unlinked(p)  OBVIOUS
<1> SUFFICES ASSUME NEW c \in Boxes
    PROVE  /\ T[c] \in TaskState /\ T[c].at = task[c].at /\ T[c].doc = task[c].doc
           /\ T[c].want = task[c].want /\ T[c].ver = task[c].ver
           /\ T[c].fd # p /\ T[c].fd \in {task[c].fd, "lost"}
           /\ task[c].fd # p => T[c].fd = task[c].fd
  BY <1>1 DEF Unlinked
<1>2. task[c] \in TaskState /\ p # "lost"  BY Kinds DEF Types
<1>3. T[c] = IF task[c].fd = p THEN [task[c] EXCEPT !.fd = "lost"] ELSE task[c]
  BY <1>1 DEF Unlinked
<1> QED  BY <1>2, <1>3 DEF TaskState, Fds
\* A request that goes on keeps its document and its file.
LEMMA UploadGoes ==
    ASSUME Types, NEW r \in Uploaders, upload[r].at # "idle", NEW at \in UploadSteps, Goes(r, at)
    PROVE  /\ upload' \in [Uploaders -> UploadState]
           /\ \A q \in Uploaders \ {r} : upload'[q] = upload[q]
           /\ upload'[r].at = at /\ upload'[r].doc = upload[r].doc /\ upload'[r].file = upload[r].file
<1>1. upload[r] \in [at : UploadSteps, doc : Ids, file : UserFile]  BY UploadFields
<1>2. upload' = [upload EXCEPT ![r] = [upload[r] EXCEPT !.at = at]]  BY DEF Goes
<1>3. [upload[r] EXCEPT !.at = at] \in [at : UploadSteps, doc : Ids, file : UserFile]  BY <1>1
<1>4. upload'[r] = [upload[r] EXCEPT !.at = at]  BY <1>2 DEF Types
<1>5. upload'[r].at = at /\ upload'[r].doc = upload[r].doc /\ upload'[r].file = upload[r].file
  BY <1>1, <1>4
<1> QED  BY <1>2, <1>3, <1>5 DEF Types, UploadState
\* One that answers remembers nothing.
LEMMA UploadAnswers ==
    ASSUME Types, NEW r \in Uploaders, Answers(r)
    PROVE  /\ upload' \in [Uploaders -> UploadState]
           /\ \A q \in Uploaders \ {r} : upload'[q] = upload[q]
           /\ upload'[r] = NoRequest /\ upload'[r].at = "idle" /\ upload'[r].doc = 0
BY DEF Types, Answers, UploadState, NoRequest
\* SetSynced changes one field of one document.
LEMMA DocSynced ==
    ASSUME Types, NEW d \in Ids, There(d), NEW yes \in BOOLEAN, SetSynced(d, yes)
    PROVE  /\ doc' \in [Ids -> ManifestDoc \cup UserDoc \cup {Gone}]
           /\ \A e \in Ids \ {d} : doc'[e] = doc[e]
           /\ doc'[d].synced = yes /\ doc'[d].file = doc[d].file /\ doc'[d].box = doc[d].box
           /\ doc'[d] \in ManifestDoc <=> doc[d] \in ManifestDoc
           /\ doc'[d] \in UserDoc <=> doc[d] \in UserDoc
           /\ There(d)'
<1>1. doc[d] \in ManifestDoc \/ doc[d] \in UserDoc  BY Documents DEF There
<1>2. doc' = [doc EXCEPT ![d] = [doc[d] EXCEPT !.synced = yes]]  BY DEF SetSynced
<1>3. doc'[d] = [doc[d] EXCEPT !.synced = yes]  BY <1>2 DEF Types
<1>4. CASE doc[d] \in ManifestDoc
  <2>1. doc'[d] \in ManifestDoc /\ doc'[d].synced = yes /\ doc'[d].file = doc[d].file
        /\ doc'[d].box = doc[d].box
    BY <1>3, <1>4 DEF ManifestDoc
  <2> QED  BY <2>1, <1>2, <1>4, Kinds DEF Types, There
<1>5. CASE doc[d] \in UserDoc
  <2>1. doc'[d] \in UserDoc /\ doc'[d].synced = yes /\ doc'[d].file = doc[d].file
        /\ doc'[d].box = doc[d].box
    BY <1>3, <1>5 DEF UserDoc
  <2> QED  BY <2>1, <1>2, <1>5, Kinds DEF Types, There
<1> QED  BY <1>1, <1>4, <1>5
\* A document that is dropped is gone, and from the histories too.
LEMMA DocDropped ==
    ASSUME Types, NEW d \in Ids, DropDoc(d)
    PROVE  /\ doc' \in [Ids -> ManifestDoc \cup UserDoc \cup {Gone}]
           /\ \A e \in Ids \ {d} : doc'[e] = doc[e]
           /\ doc'[d] = Gone /\ ~There(d)' /\ PathOf(d)' = "none"
           /\ mixed' = mixed \ {d} /\ cut' = cut \ {d}
BY Kinds DEF Types, DropDoc, There, PathOf
\* A document that is made is new, and the only one of its path.
LEMMA DocCreated ==
    ASSUME Types, NEW kind, NEW box, NEW file, MayCreate(file.path), Create(kind, box, file),
           \/ kind = "manifest" /\ box \in Boxes /\ file \in Entry
           \/ kind = "user" /\ box = NoBox /\ file \in UserFile
    PROVE  \E n \in Ids :
           /\ n = New /\ ~There(n) /\ \A r \in Uploaders : upload[r].doc # n
           /\ doc' \in [Ids -> ManifestDoc \cup UserDoc \cup {Gone}]
           /\ \A e \in Ids \ {n} : doc'[e] = doc[e] /\ PathOf(e) # file.path
           /\ doc'[n] \in IF kind = "manifest" THEN ManifestDoc ELSE UserDoc
           /\ doc'[n].file = file /\ doc'[n].box = box /\ ~doc'[n].synced /\ There(n)'
<1>1. DOMAIN doc = Ids  BY DEF Types
<1>2. New \in Free  BY DEF MayCreate, New
<1>3. New \in Ids /\ ~There(New) /\ \A r \in Uploaders : upload[r].doc # New
  BY <1>1, <1>2 DEF Free
<1>4. PICK n \in Ids : n = New  BY <1>3
<1>5. doc' = [doc EXCEPT ![n] = [kind |-> kind, box |-> box, file |-> file, synced |-> FALSE]]
  BY <1>4 DEF Create
<1>6. doc'[n] = [kind |-> kind, box |-> box, file |-> file, synced |-> FALSE]
  BY <1>5 DEF Types
<1>7. doc'[n] \in IF kind = "manifest" THEN ManifestDoc ELSE UserDoc
  <2>1. CASE kind = "manifest" /\ box \in Boxes /\ file \in Entry
    BY <1>6, <2>1 DEF ManifestDoc
  <2>2. CASE kind = "user" /\ box = NoBox /\ file \in UserFile
    BY <1>6, <2>2 DEF UserDoc
  <2> QED  BY <2>1, <2>2
<1>8. There(n)'  BY <1>7, Kinds DEF There
<1>9. \A e \in Ids : PathOf(e) # file.path  BY <1>1 DEF MayCreate, PathOf
<1> QED  BY <1>3, <1>4, <1>5, <1>6, <1>7, <1>8, <1>9 DEF Types
\* Failures are bounded.
LEMMA Failed == ASSUME Types, Fails PROVE faults' \in 0..MaxFaults
BY FilesAssumption DEF Types, Fails
\* An id is a number, as TaskState says.
LEMMA IdsAreNumbers == Ids \subseteq Nat
<1>1. MaxFiles \in Nat  BY FilesAssumption
<1> SUFFICES ASSUME NEW d \in 1..MaxFiles PROVE d \in Nat  BY DEF Ids
<1> QED  BY <1>1
\* What the disk and the download paths can hold.
LEMMA Contained ==
    /\ Absent \in Contents
    /\ \A v \in Versions \cup {Upload} : Whole(v) \in Contents /\ Whole(v) # Absent
    /\ \A b \in Boxes : [vers |-> {}, by |-> b] \in Contents
BY DEF Absent, Whole, Contents

-----------------------------------------------------------------------------
\* Basics where documents stay, and tasks and requests stay at the documents
\* they are at, or leave them.
LEMMA BasicsStay ==
    ASSUME Basics, UNCHANGED doc, Types',
           \A b \in Boxes : \/ /\ task'[b].at = task[b].at /\ task'[b].doc = task[b].doc
                               /\ task'[b].want = task[b].want /\ task'[b].ver = task[b].ver
                            \/ TaskDoc(b)',
           \A r \in Uploaders : \/ upload'[r].doc = upload[r].doc /\ upload'[r].file = upload[r].file
                                   /\ upload[r].at # "idle"
                                \/ UploadDoc(r)'
    PROVE  Basics'
<1>1. UniquePaths'  BY DEF Basics, UniquePaths, There, PathOf
<1>2. TaskDocs'
  <2> SUFFICES ASSUME NEW b \in Boxes PROVE TaskDoc(b)'  BY DEF TaskDocs
  <2>1. TaskDoc(b)  BY DEF Basics, TaskDocs
  <2> QED  BY <2>1 DEF TaskDoc
<1>3. UploadDocs'
  <2> SUFFICES ASSUME NEW r \in Uploaders PROVE UploadDoc(r)'  BY DEF UploadDocs
  <2>1. UploadDoc(r)  BY DEF Basics, UploadDocs
  <2> QED  BY <2>1 DEF UploadDoc, There
<1> QED  BY <1>1, <1>2, <1>3 DEF Basics

\* The repository and the network.
LEMMA BasicsOutside ==
    ASSUME Basics, (\E b \in Boxes : NewManifest(b)) \/ (\E u \in Urls : NewVersion(u))
    PROVE  Basics'
<1>1. Types'
  <2>1. CASE \E b \in Boxes : NewManifest(b)
    <3>1. changes' \in 0..MaxChanges  BY <2>1, FilesAssumption DEF Basics, Types, NewManifest
    <3>2. manifest' \in [Boxes -> Entry \cup {NoFile}]  BY <2>1 DEF Basics, Types, NewManifest
    <3> QED  BY <2>1, <3>1, <3>2 DEF Basics, Types, NewManifest, histories
  <2>2. CASE \E u \in Urls : NewVersion(u)
    <3>1. changes' \in 0..MaxChanges  BY <2>2, FilesAssumption DEF Basics, Types, NewVersion
    <3>2. net' \in [Urls -> Versions]  BY <2>2 DEF Basics, Types, NewVersion
    <3> QED  BY <2>2, <3>1, <3>2 DEF Basics, Types, NewVersion, histories
  <2> QED  BY <2>1, <2>2
<1>2. UNCHANGED <<doc, task, upload>>  BY DEF NewManifest, NewVersion
<1>3. \A c \in Boxes : TaskDoc(c)'  BY <1>2 DEF TaskDoc, Basics, TaskDocs
<1>4. \A r \in Uploaders : UploadDoc(r)'  BY <1>2 DEF UploadDoc, There, Basics, UploadDocs
<1> QED  BY <1>1, <1>2, <1>3, <1>4, BasicsStay

\* A task finds what to do about its manifest.
LEMMA BasicsCompare ==
    ASSUME Basics, NEW b \in Boxes, _save_sshfs_files_from_manifest(b)
    PROVE  Basics'
<1> USE DEF _save_sshfs_files_from_manifest
<1>0. Types /\ TaskDocs /\ UploadDocs  BY DEF Basics
<1>1. manifest[b] \in Entry \cup {NoFile} /\ DOMAIN doc = Ids /\ Ids \subseteq Nat
  <2>1. manifest[b] \in Entry \cup {NoFile} /\ DOMAIN doc = Ids  BY <1>0 DEF Types
  <2>2. Ids \subseteq Nat  BY IdsAreNumbers
  <2> QED  BY <2>1, <2>2
<1>2. Idle \in TaskState /\ Idle.ver = 0  BY DEF Idle, TaskState, TaskSteps, Fds
<1>3. CASE \E d \in FilesOf(b) :
              task' = [task EXCEPT ![b] = [Idle EXCEPT !.at = "remove", !.doc = d, !.want = manifest[b]]]
  <2>1. PICK d \in FilesOf(b) :
              task' = [task EXCEPT ![b] = [Idle EXCEPT !.at = "remove", !.doc = d, !.want = manifest[b]]]
    BY <1>3
  <2>2. d \in Ids /\ doc[d].kind = "manifest" /\ doc[d].box = b  BY <1>1 DEF FilesOf
  <2>3. doc[d] \in ManifestDoc  BY <2>2, <1>0, Documents, Kinds
  <2>4. PICK x : x = [Idle EXCEPT !.at = "remove", !.doc = d, !.want = manifest[b]]  OBVIOUS
  <2>5. x \in TaskState /\ x.at = "remove" /\ x.doc = d
    BY <2>4, <2>2, <1>1 DEF Idle, TaskState, TaskSteps, Fds
  <2>6. task' = [task EXCEPT ![b] = x]  BY <2>1, <2>4
  <2>7. task' \in [Boxes -> TaskState] /\ task'[b] = x /\ \A c \in Boxes \ {b} : task'[c] = task[c]
    BY <2>5, <2>6, <1>0 DEF Types
  <2>8. Types'  BY <2>7, <1>0 DEF Types, histories, bounds
  <2>9. TaskDoc(b)'  BY <2>7, <2>5, <2>2, <2>3 DEF TaskDoc
  <2>10. \A r \in Uploaders : UploadDoc(r)'  BY <1>0 DEF UploadDoc, UploadDocs, There
  <2> QED  BY <2>7, <2>8, <2>9, <2>10, BasicsStay
<1>4. CASE /\ manifest[b] # NoFile
           /\ task' = [task EXCEPT ![b] = [Idle EXCEPT !.at = "create", !.want = manifest[b]]]
  <2>4. PICK x : x = [Idle EXCEPT !.at = "create", !.want = manifest[b]]  OBVIOUS
  <2>5. x \in TaskState /\ x.at = "create" /\ x.want \in Entry
    BY <2>4, <1>1, <1>4 DEF Idle, TaskState, TaskSteps, Fds
  <2>6. task' = [task EXCEPT ![b] = x]  BY <1>4, <2>4
  <2>7. task' \in [Boxes -> TaskState] /\ task'[b] = x /\ \A c \in Boxes \ {b} : task'[c] = task[c]
    BY <2>5, <2>6, <1>0 DEF Types
  <2>8. Types'  BY <2>7, <1>0 DEF Types, histories, bounds
  <2>9. TaskDoc(b)'  BY <2>7, <2>5 DEF TaskDoc, OnDoc
  <2>10. \A r \in Uploaders : UploadDoc(r)'  BY <1>0 DEF UploadDoc, UploadDocs, There
  <2> QED  BY <2>7, <2>8, <2>9, <2>10, BasicsStay
<1> QED  BY <1>3, <1>4

\* A path's contents are set, and what was writing there is cut off.
LEMMA BasicsCleared ==
    ASSUME Types, NEW p \in Paths, NEW c \in Contents, disk' = [disk EXCEPT ![p] = c]
    PROVE  disk' \in [Paths -> Contents] /\ disk'[p] = c /\ \A q \in Paths \ {p} : disk'[q] = disk[q]
BY DEF Types

\* The first step of a removal: the disk.
LEMMA BasicsRemoveOutdated ==
    ASSUME Basics, NEW b \in Boxes, RemoveOutdated(b)
    PROVE  Basics'
<1> USE DEF RemoveOutdated
<1>0. Types /\ TaskDocs /\ UploadDocs  BY DEF Basics
<1>1. task[b].at \in OnDoc  BY DEF OnDoc
<1>2. PathOf(task[b].doc) \in Paths  BY <1>1, DocOfTask
<1>3. \A r \in Uploaders : UploadDoc(r)'  BY <1>0 DEF UploadDoc, UploadDocs, There
<1>4. CASE /\ RemoveFile(task[b].doc) /\ UNCHANGED faults
           /\ task' = [Unlinked(doc[task[b].doc].file.path) EXCEPT ![b].at = "drop"]
  <2>1. PICK p \in Paths : p = PathOf(task[b].doc)  BY <1>2
  <2>2. PICK T : T = Unlinked(p)  OBVIOUS
  <2>3. /\ T \in [Boxes -> TaskState]
        /\ \A c \in Boxes : /\ T[c].at = task[c].at /\ T[c].doc = task[c].doc
                            /\ T[c].want = task[c].want /\ T[c].ver = task[c].ver
    BY <2>2, <1>0, TaskUnlinked
  <2>4. task' = [T EXCEPT ![b] = [T[b] EXCEPT !.at = "drop"]]  BY <1>4, <2>1, <2>2 DEF PathOf
  <2>5. PICK x : x = [T[b] EXCEPT !.at = "drop"]  OBVIOUS
  <2>6. x \in TaskState /\ x.at = "drop" /\ x.doc = task[b].doc
    BY <2>5, <2>3 DEF TaskState, TaskSteps
  <2>7. task' \in [Boxes -> TaskState] /\ task'[b] = x /\ \A c \in Boxes \ {b} : task'[c] = T[c]
    BY <2>3, <2>4, <2>5, <2>6
  <2>8. disk' \in [Paths -> Contents]
    BY <1>0, <1>4, <2>1, Contained, BasicsCleared DEF RemoveFile, PathOf
  <2>9. Types'  BY <2>7, <2>8, <1>0, <1>4 DEF Types, histories
  <2>10. TaskDoc(b)'  BY <2>7, <2>6, <1>0, <1>1 DEF TaskDoc, TaskDocs
  <2> QED  BY <2>3, <2>7, <2>9, <2>10, <1>3, BasicsStay
<1>5. CASE Fails /\ Ends(b) /\ UNCHANGED disk
  <2>1. /\ task' \in [Boxes -> TaskState] /\ \A c \in Boxes \ {b} : task'[c] = task[c]
        /\ task'[b].at = "idle"
    BY <1>0, <1>5, TaskEnds
  <2>2. Types'  BY <2>1, <1>0, <1>5, Failed DEF Types, histories
  <2>3. TaskDoc(b)'  BY <2>1 DEF TaskDoc, OnDoc
  <2> QED  BY <2>1, <2>2, <2>3, <1>3, BasicsStay
<1> QED  BY <1>4, <1>5

\* A document goes, and nobody but who dropped it was at it, or it is a user's.
LEMMA DropKeepsDocs ==
    ASSUME Basics, NEW d \in Ids, DropDoc(d)
    PROVE  /\ UniquePaths'
           /\ \A c \in Boxes : task'[c] = task[c] /\ ~(task[c].at \in OnDoc /\ task[c].doc = d)
                    => TaskDoc(c)'
           /\ \A r \in Uploaders : upload'[r] = upload[r] => UploadDoc(r)'
           /\ \A e \in Ids : There(e)' => e # d /\ There(e) /\ doc'[e] = doc[e] /\ PathOf(e)' = PathOf(e)
<1>0. Types /\ UniquePaths /\ TaskDocs /\ UploadDocs  BY DEF Basics
<1>1. /\ \A e \in Ids \ {d} : doc'[e] = doc[e]
      /\ doc'[d] = Gone /\ ~There(d)' /\ PathOf(d)' = "none"
  BY <1>0, DocDropped
<1>2. \A e \in Ids : There(e)' => e # d /\ There(e) /\ doc'[e] = doc[e] /\ PathOf(e)' = PathOf(e)
  BY <1>1 DEF There, PathOf
<1>3. UniquePaths'  BY <1>0, <1>2 DEF UniquePaths
<1>4. ASSUME NEW c \in Boxes, task'[c] = task[c], ~(task[c].at \in OnDoc /\ task[c].doc = d)
      PROVE  TaskDoc(c)'
  <2>1. TaskDoc(c)  BY <1>0 DEF TaskDocs
  <2> QED  BY <2>1, <1>1, <1>4 DEF TaskDoc
<1>5. ASSUME NEW r \in Uploaders, upload'[r] = upload[r] PROVE UploadDoc(r)'
  <2>1. UploadDoc(r)  BY <1>0 DEF UploadDocs
  <2>2. upload[r].at # "idle" => upload[r].doc \in Ids  BY <1>0, UploadFields
  <2> QED  BY <2>1, <2>2, <1>2, <1>5 DEF UploadDoc
<1> QED  BY <1>2, <1>3, <1>4, <1>5

\* The second: the document.
LEMMA BasicsDropOutdated ==
    ASSUME Basics, NEW b \in Boxes, DropOutdated(b)
    PROVE  Basics'
<1> USE DEF DropOutdated
<1>0. Types /\ TaskDocs  BY DEF Basics
<1>1. task[b].at \in OnDoc  BY DEF OnDoc
<1>2. PICK d \in Ids : d = task[b].doc  BY <1>1, DocOfTask
<1>3. DropDoc(d)  BY <1>2
<1>4. /\ doc' \in [Ids -> ManifestDoc \cup UserDoc \cup {Gone}]
      /\ mixed' = mixed \ {d} /\ cut' = cut \ {d}
  BY <1>0, <1>3, DocDropped
<1>5. /\ task' \in [Boxes -> TaskState] /\ \A c \in Boxes \ {b} : task'[c] = task[c]
      /\ TaskDoc(b)'
  <2>1. CASE task[b].want = NoFile /\ Ends(b)
    BY <2>1, <1>0, TaskEnds DEF TaskDoc, OnDoc
  <2>2. CASE task[b].want # NoFile /\ Go(b, "create")
    <3>1. task[b].want \in Entry  BY <2>2, <1>0, TaskFields
    <3>2. "create" \in TaskSteps  BY DEF TaskSteps
    <3> QED  BY <3>1, <3>2, <2>2, <1>0, TaskGoes DEF TaskDoc, OnDoc
  <2> QED  BY <2>1, <2>2
<1>6. Types'  BY <1>0, <1>4, <1>5 DEF Types, bounds
<1>7. \A c \in Boxes \ {b} : ~(task[c].at \in OnDoc /\ task[c].doc = d)
  BY <1>1, <1>2, DocOfTask
<1>8. /\ UniquePaths' /\ \A r \in Uploaders : UploadDoc(r)'
      /\ \A c \in Boxes \ {b} : TaskDoc(c)'
  BY <1>3, <1>5, <1>7, DropKeepsDocs
<1> QED  BY <1>5, <1>6, <1>8 DEF Basics, TaskDocs, UploadDocs

\* A document is new at its path, and no task or request is at it.
LEMMA CreateKeepsDocs ==
    ASSUME Basics, NEW n \in Ids, ~There(n), \A r \in Uploaders : upload[r].doc # n,
           NEW file, file \in Entry \cup UserFile,
           \A e \in Ids \ {n} : doc'[e] = doc[e] /\ PathOf(e) # file.path,
           doc'[n].file = file
    PROVE  /\ UniquePaths'
           /\ \A c \in Boxes : task'[c] = task[c] => TaskDoc(c)'
           /\ \A r \in Uploaders : upload'[r] = upload[r] => UploadDoc(r)'
<1>0. Types /\ UniquePaths /\ TaskDocs /\ UploadDocs  BY DEF Basics
<1>1. PathOf(n)' = file.path /\ \A e \in Ids \ {n} : PathOf(e)' = PathOf(e) /\ There(e)' = There(e)
  BY DEF PathOf, There
<1>2. UniquePaths'  BY <1>0, <1>1 DEF UniquePaths
<1>3. ASSUME NEW c \in Boxes, task'[c] = task[c] PROVE TaskDoc(c)'
  <2>1. TaskDoc(c)  BY <1>0 DEF TaskDocs
  <2>2. task[c].at \in OnDoc => task[c].doc # n  BY DocOfTask
  <2> QED  BY <2>1, <2>2, <1>3 DEF TaskDoc
<1>4. ASSUME NEW r \in Uploaders, upload'[r] = upload[r] PROVE UploadDoc(r)'
  <2>1. UploadDoc(r)  BY <1>0 DEF UploadDocs
  <2>2. upload[r].at # "idle" => upload[r].doc \in Ids  BY <1>0, UploadFields
  <2> QED  BY <2>1, <2>2, <1>1, <1>4 DEF UploadDoc
<1> QED  BY <1>2, <1>3, <1>4

\* A document is made from a manifest.
LEMMA BasicsCreateFile ==
    ASSUME Basics, NEW b \in Boxes, CreateFile(b)
    PROVE  Basics'
<1> USE DEF CreateFile
<1>0. Types /\ UniquePaths /\ TaskDocs /\ UploadDocs  BY DEF Basics
<1>1. /\ task' \in [Boxes -> TaskState] /\ \A c \in Boxes \ {b} : task'[c] = task[c]
      /\ TaskDoc(b)'
  BY <1>0, TaskEnds DEF TaskDoc, OnDoc
<1>2. task[b].want \in Entry  BY <1>0 DEF TaskDocs, TaskDoc
<1>3. CASE UNCHANGED doc
  <2>1. Types'  BY <1>0, <1>1, <1>3 DEF Types, histories, bounds
  <2>2. \A r \in Uploaders : UploadDoc(r)'  BY <1>0, <1>3 DEF UploadDoc, UploadDocs, There
  <2> QED  BY <1>1, <1>3, <2>1, <2>2, BasicsStay
<1>4. CASE MayCreate(task[b].want.path) /\ Create("manifest", b, task[b].want)
  <2>1. PICK file : file = task[b].want  OBVIOUS
  <2>2. file \in Entry /\ MayCreate(file.path) /\ Create("manifest", b, file)
    BY <1>2, <1>4, <2>1
  <2>3. PICK n \in Ids :
           /\ n = New /\ ~There(n) /\ \A r \in Uploaders : upload[r].doc # n
           /\ doc' \in [Ids -> ManifestDoc \cup UserDoc \cup {Gone}]
           /\ \A e \in Ids \ {n} : doc'[e] = doc[e] /\ PathOf(e) # file.path
           /\ doc'[n].file = file
    BY <1>0, <2>2, DocCreated
  <2>4. Types'  BY <1>0, <1>1, <2>3 DEF Types, histories, bounds
  <2>5. /\ UniquePaths' /\ \A c \in Boxes \ {b} : TaskDoc(c)'
        /\ \A r \in Uploaders : UploadDoc(r)'
    BY <1>1, <2>2, <2>3, CreateKeepsDocs
  <2> QED  BY <1>1, <2>4, <2>5 DEF Basics, TaskDocs, UploadDocs
<1> QED  BY <1>3, <1>4

\* A task records what came of its download.
LEMMA BasicsRecord ==
    ASSUME Basics, NEW b \in Boxes, Record(b)
    PROVE  Basics'
<1> USE DEF Record
<1>0. Types /\ UniquePaths /\ TaskDocs /\ UploadDocs  BY DEF Basics
<1>1. /\ task' \in [Boxes -> TaskState] /\ \A c \in Boxes \ {b} : task'[c] = task[c]
      /\ TaskDoc(b)'
  BY <1>0, TaskEnds DEF TaskDoc, OnDoc
<1>2. task[b].at \in OnDoc  BY DEF OnDoc
<1>3. PICK d \in Ids : d = task[b].doc /\ There(d)  BY <1>2, DocOfTask
<1>4. PICK yes \in BOOLEAN : SetSynced(d, yes)  BY <1>3
<1>5. /\ doc' \in [Ids -> ManifestDoc \cup UserDoc \cup {Gone}]
      /\ \A e \in Ids \ {d} : doc'[e] = doc[e]
      /\ doc'[d].file = doc[d].file /\ doc'[d].box = doc[d].box
      /\ doc'[d] \in ManifestDoc <=> doc[d] \in ManifestDoc
  BY <1>0, <1>3, <1>4, DocSynced
<1>6. Types'  BY <1>0, <1>1, <1>5 DEF Types, histories, bounds
<1>7. UniquePaths'  BY <1>0, <1>3, <1>5 DEF UniquePaths, PathOf, There
<1>8. ASSUME NEW c \in Boxes \ {b} PROVE TaskDoc(c)'
  <2>1. TaskDoc(c)  BY <1>0 DEF TaskDocs
  <2> QED  BY <2>1, <1>1, <1>5 DEF TaskDoc
<1>9. ASSUME NEW r \in Uploaders PROVE UploadDoc(r)'
  <2>1. UploadDoc(r)  BY <1>0 DEF UploadDocs
  <2>2. upload[r].at # "idle" => upload[r].doc \in Ids /\ upload[r].doc # d
    BY <1>0, <1>2, <1>3, UploadFields, DocOfTask
  <2> QED  BY <2>1, <2>2, <1>5 DEF UploadDoc, There
<1> QED  BY <1>1, <1>6, <1>7, <1>8, <1>9 DEF Basics, TaskDocs, UploadDocs

-----------------------------------------------------------------------------
\* A download is written where its file is open, and nowhere else.
LEMMA Written ==
    ASSUME Basics, NEW b \in Boxes, task[b].at = "write", NEW finished \in BOOLEAN, Writes(b, finished)
    PROVE  /\ tmp' \in [Urls -> Contents] /\ disk' \in [Paths -> Contents]
           /\ \A u \in Urls : ~(task[b].fd = "tmp" /\ u = UrlOf(b)) => tmp'[u] = tmp[u]
           /\ task[b].fd = "tmp" =>
                  tmp'[UrlOf(b)] = [vers |-> tmp[UrlOf(b)].vers \cup {task[b].ver},
                                    by |-> IF finished /\ tmp[UrlOf(b)].by = b THEN NoBox
                                           ELSE tmp[UrlOf(b)].by]
           /\ \A p \in Paths : p # task[b].fd => disk'[p] = disk[p]
           /\ task[b].fd \in Paths => disk'[task[b].fd] # Absent
<1> DEFINE Add(c) == [vers |-> c.vers \cup {task[b].ver},
                      by |-> IF finished /\ c.by = b THEN NoBox ELSE c.by]
<1>0. Types /\ TaskDoc(b)  BY DEF Basics, TaskDocs
<1>1. task[b].ver \in Versions  BY <1>0 DEF TaskDoc
<1>2. PICK u \in Urls : u = UrlOf(b)  BY DocOfTask DEF OnDoc
<1>3. PICK fd \in Fds : fd = task[b].fd  BY <1>0, TaskFields
<1>4. \A c \in Contents : Add(c) \in Contents /\ Add(c) # Absent
  BY <1>1 DEF Contents, Absent
<1>5. tmp' = IF fd = "tmp" THEN [tmp EXCEPT ![u] = Add(@)] ELSE tmp
  BY <1>2, <1>3 DEF Writes
<1>6. disk' = IF fd \in Paths THEN [disk EXCEPT ![fd] = Add(@)] ELSE disk
  BY <1>3 DEF Writes
<1>7. Add(tmp[u]) = [vers |-> tmp[u].vers \cup {task[b].ver},
                     by |-> IF finished /\ tmp[u].by = b THEN NoBox ELSE tmp[u].by]
  OBVIOUS
<1> HIDE DEF Add
<1>8. tmp' \in [Urls -> Contents] /\ \A v \in Urls : ~(fd = "tmp" /\ v = u) => tmp'[v] = tmp[v]
  BY <1>0, <1>4, <1>5 DEF Types
<1>9. fd = "tmp" => tmp'[u] = Add(tmp[u])  BY <1>0, <1>5 DEF Types
<1>10. /\ disk' \in [Paths -> Contents] /\ \A p \in Paths : p # fd => disk'[p] = disk[p]
       /\ fd \in Paths => disk'[fd] # Absent
  BY <1>0, <1>4, <1>6 DEF Types
<1> QED  BY <1>2, <1>3, <1>7, <1>8, <1>9, <1>10

\* A download is moved, or is not: whoever else had it, or the file that was in
\* its place, open, has it open elsewhere.
LEMMA MovedFields ==
    ASSUME Basics, NEW b \in Boxes, task[b].at = "move", NEW at \in {"record", "error"},
           NEW place \in Fds, Moved(b, at, place)
    PROVE  /\ task' \in [Boxes -> TaskState]
           /\ \A c \in Boxes : /\ task'[c].doc = task[c].doc /\ task'[c].want = task[c].want
                               /\ task'[c].ver = task[c].ver
           /\ task'[b].at = at
           /\ \A c \in Boxes \ {b} :
                /\ task'[c].at = task[c].at
                /\ task'[c].fd = IF c \in Downloading(UrlOf(b)) /\ task[c].fd = "tmp" THEN place
                                 ELSE IF at = "record" /\ task[c].fd = PathOf(task[b].doc) THEN "lost"
                                 ELSE task[c].fd
<1> DEFINE Fd(c) == IF c \in Downloading(UrlOf(b)) /\ task[c].fd = "tmp" THEN place
                    ELSE IF at = "record" /\ task[c].fd = PathOf(task[b].doc) THEN "lost"
                    ELSE task[c].fd
<1>0. Types  BY DEF Basics
<1>1. task' = [c \in Boxes |-> IF c = b THEN [task[b] EXCEPT !.at = at, !.fd = "none"]
                               ELSE [task[c] EXCEPT !.fd = Fd(c)]]
  BY DEF Moved, PathOf, UrlOf
<1>2. \A c \in Boxes : task[c] \in TaskState /\ Fd(c) \in Fds
  BY <1>0, TaskFields DEF Fds
<1>3. at \in TaskSteps /\ "none" \in Fds  BY DEF TaskSteps, Fds
<1> HIDE DEF Fd
<1>4. ASSUME NEW c \in Boxes \ {b}
      PROVE  /\ task'[c] \in TaskState /\ task'[c].doc = task[c].doc /\ task'[c].want = task[c].want
             /\ task'[c].ver = task[c].ver /\ task'[c].at = task[c].at /\ task'[c].fd = Fd(c)
  <2>1. task'[c] = [task[c] EXCEPT !.fd = Fd(c)]  BY <1>1
  <2>2. task[c] \in TaskState /\ Fd(c) \in Fds  BY <1>2
  <2> QED  BY <2>1, <2>2 DEF TaskState
<1>5. /\ task'[b] \in TaskState /\ task'[b].doc = task[b].doc /\ task'[b].want = task[b].want
      /\ task'[b].ver = task[b].ver /\ task'[b].at = at
  <2>1. task'[b] = [task[b] EXCEPT !.at = at, !.fd = "none"]  BY <1>1
  <2>2. task[b] \in TaskState  BY <1>2
  <2> QED  BY <2>1, <2>2, <1>3 DEF TaskState
<1>6. task' \in [Boxes -> TaskState]
  <2>1. \A c \in Boxes : task'[c] \in TaskState  BY <1>4, <1>5
  <2> QED  BY <1>1, <2>1
<1>7. \A c \in Boxes \ {b} : task'[c].at = task[c].at /\ task'[c].fd = Fd(c)  BY <1>4
<1>8. \A c \in Boxes : /\ task'[c].doc = task[c].doc /\ task'[c].want = task[c].want
                       /\ task'[c].ver = task[c].ver
  BY <1>4, <1>5
<1> QED  BY <1>5, <1>6, <1>7, <1>8 DEF Fd

\* A download begins, with the document and the URL that it remembers.
LEMMA BasicsDownload ==
    ASSUME Basics, NEW b \in Boxes, Download(b)
    PROVE  /\ Basics' /\ \A c \in Boxes \ {b} : task'[c] = task[c]
           /\ \E d \in Ids, u \in Urls :
                /\ doc[d] \in ManifestDoc /\ doc[d].box = b /\ ~doc[d].synced
                /\ u = doc[d].file.url /\ task'[b].doc = d /\ UrlOf(b)' = u
                /\ \/ task'[b].at = "error" /\ UNCHANGED <<tmp, mixed>>
                   \/ /\ task'[b].at = "write" /\ task'[b].fd = "tmp"
                      /\ tmp' = [tmp EXCEPT ![u] = [vers |-> {}, by |-> b]]
                      /\ mixed' = IF Downloading(u) = {} THEN mixed \ {d}
                                  ELSE mixed \cup {d} \cup {task[c].doc : c \in Downloading(u)}
<1> USE DEF Download
<1>0. Types /\ UniquePaths /\ TaskDocs /\ UploadDocs  BY DEF Basics
<1>1. PICK d \in {d \in FilesOf(b) : ~doc[d].synced} :
          \/ /\ task' = [task EXCEPT ![b] = [Idle EXCEPT !.at = "write", !.doc = d,
                                                !.ver = net[doc[d].file.url], !.fd = "tmp"]]
             /\ tmp' = [tmp EXCEPT ![doc[d].file.url] = [vers |-> {}, by |-> b]]
             /\ mixed' = IF Downloading(doc[d].file.url) = {} THEN mixed \ {d}
                         ELSE mixed \cup {d} \cup {task[c].doc : c \in Downloading(doc[d].file.url)}
             /\ UNCHANGED faults
          \/ /\ Fails /\ task' = [task EXCEPT ![b] = [Idle EXCEPT !.at = "error", !.doc = d]]
             /\ UNCHANGED <<tmp, mixed>>
  OBVIOUS
<1>2. d \in Ids /\ doc[d].kind = "manifest" /\ doc[d].box = b /\ ~doc[d].synced
  BY <1>0, <1>1 DEF FilesOf, Types
<1>3. doc[d] \in ManifestDoc /\ d \in Nat  BY <1>2, <1>0, Documents, Kinds, IdsAreNumbers
<1>4. PICK u \in Urls : u = doc[d].file.url  BY <1>3, Kinds
<1>5. \A r \in Uploaders : UploadDoc(r)'  BY <1>0 DEF UploadDoc, UploadDocs, There
<1>6. CASE /\ task' = [task EXCEPT ![b] = [Idle EXCEPT !.at = "write", !.doc = d,
                                                !.ver = net[u], !.fd = "tmp"]]
           /\ tmp' = [tmp EXCEPT ![u] = [vers |-> {}, by |-> b]]
           /\ mixed' = IF Downloading(u) = {} THEN mixed \ {d}
                       ELSE mixed \cup {d} \cup {task[c].doc : c \in Downloading(u)}
           /\ UNCHANGED faults
  <2>1. PICK v \in Versions : v = net[u]  BY <1>0 DEF Types
  <2>2. PICK x : x = [Idle EXCEPT !.at = "write", !.doc = d, !.ver = v, !.fd = "tmp"]  OBVIOUS
  <2>3. x \in TaskState /\ x.at = "write" /\ x.doc = d /\ x.ver = v /\ x.fd = "tmp"
    BY <1>3, <2>2 DEF Idle, TaskState, TaskSteps, Fds
  <2>4. task' = [task EXCEPT ![b] = x]  BY <1>6, <2>1, <2>2
  <2>5. task' \in [Boxes -> TaskState] /\ task'[b] = x /\ \A c \in Boxes \ {b} : task'[c] = task[c]
    BY <2>3, <2>4, <1>0 DEF Types
  <2>6. \A c \in Downloading(u) : task[c].doc \in Ids  BY DocOfTask DEF Downloading, OnDoc
  <2>7. mixed' \subseteq Ids  BY <1>6, <2>6, <1>2, <1>0 DEF Types
  <2>8. tmp' \in [Urls -> Contents]  BY <1>6, <1>0, Contained DEF Types
  <2>9. Types'  BY <2>5, <2>7, <2>8, <1>0, <1>6 DEF Types
  <2>10. TaskDoc(b)'  BY <2>3, <2>5, <1>2, <1>3 DEF TaskDoc
  <2>11. Basics'  BY <2>5, <2>9, <2>10, <1>5, BasicsStay
  <2>12. UrlOf(b)' = u /\ task'[b].doc = d /\ task'[b].at = "write" /\ task'[b].fd = "tmp"
    BY <2>3, <2>5, <1>4 DEF UrlOf
  <2> QED  BY <2>11, <2>12, <2>5, <1>2, <1>3, <1>4, <1>6
<1>7. CASE /\ Fails /\ task' = [task EXCEPT ![b] = [Idle EXCEPT !.at = "error", !.doc = d]]
           /\ UNCHANGED <<tmp, mixed>>
  <2>2. PICK x : x = [Idle EXCEPT !.at = "error", !.doc = d]  OBVIOUS
  <2>3. x \in TaskState /\ x.at = "error" /\ x.doc = d
    BY <1>3, <2>2 DEF Idle, TaskState, TaskSteps, Fds
  <2>4. task' = [task EXCEPT ![b] = x]  BY <1>7, <2>2
  <2>5. task' \in [Boxes -> TaskState] /\ task'[b] = x /\ \A c \in Boxes \ {b} : task'[c] = task[c]
    BY <2>3, <2>4, <1>0 DEF Types
  <2>9. Types'  BY <2>5, <1>0, <1>7, Failed DEF Types
  <2>10. TaskDoc(b)'  BY <2>3, <2>5, <1>2, <1>3 DEF TaskDoc
  <2>11. Basics'  BY <2>5, <2>9, <2>10, <1>5, BasicsStay
  <2>12. UrlOf(b)' = u /\ task'[b].doc = d /\ task'[b].at = "error"
    BY <2>3, <2>5, <1>4 DEF UrlOf
  <2> QED  BY <2>11, <2>12, <2>5, <1>2, <1>3, <1>4, <1>7
<1> QED  BY <1>1, <1>4, <1>6, <1>7

\* It is written.
LEMMA BasicsWrite ==
    ASSUME Basics, NEW b \in Boxes, WriteDownload(b)
    PROVE  Basics'
<1> USE DEF WriteDownload
<1>0. Types /\ TaskDocs /\ UploadDocs  BY DEF Basics
<1>1. tmp' \in [Urls -> Contents] /\ disk' \in [Paths -> Contents]  BY Written
<1>2. PICK at \in {"move", "error"} : Go(b, at)  OBVIOUS
<1>3. /\ task' \in [Boxes -> TaskState] /\ \A c \in Boxes \ {b} : task'[c] = task[c]
      /\ task'[b].at = at /\ task'[b].doc = task[b].doc
  BY <1>0, <1>2, TaskGoes DEF TaskSteps
<1>4. faults' \in 0..MaxFaults  BY <1>0, Failed DEF Types
<1>5. Types'  BY <1>0, <1>1, <1>3, <1>4 DEF Types, histories
<1>6. TaskDoc(b)'  BY <1>0, <1>3 DEF TaskDoc, TaskDocs, OnDoc
<1>7. \A r \in Uploaders : UploadDoc(r)'  BY <1>0 DEF UploadDoc, UploadDocs, There
<1> QED  BY <1>3, <1>5, <1>6, <1>7, BasicsStay

\* What Move does, with the fields of MovedFields.
LEMMA MoveCases ==
    ASSUME Basics, NEW b \in Boxes, Move(b)
    PROVE  /\ task[b].at = "move" /\ tmp' = [tmp EXCEPT ![UrlOf(b)] = Absent]
           /\ UNCHANGED <<manifest, net, doc, upload, histories, bounds>>
           /\ \E at \in {"record", "error"}, place \in Fds :
                /\ Moved(b, at, place)
                /\ at = "record" => /\ task[b].ver = doc[task[b].doc].file.sum
                                    /\ tmp[UrlOf(b)] # Absent
                                    /\ disk' = [disk EXCEPT ![PathOf(task[b].doc)] = tmp[UrlOf(b)]]
                                    /\ place \in {PathOf(task[b].doc), "lost"}
                /\ at = "error" => UNCHANGED disk /\ place = "lost"
<1>1. PathOf(task[b].doc) \in Paths  BY DocOfTask DEF Move, OnDoc
<1>2. PathOf(task[b].doc) \in Fds /\ "lost" \in Fds  BY <1>1 DEF Fds
<1>3. CASE task[b].ver = doc[task[b].doc].file.sum /\ tmp[UrlOf(b)] # Absent
  <2>1. CASE SameFilesystem
    <3>1. /\ Moved(b, "record", PathOf(task[b].doc))
          /\ disk' = [disk EXCEPT ![PathOf(task[b].doc)] = tmp[UrlOf(b)]]
      BY <1>3, <2>1 DEF Move, UrlOf, PathOf
    <3> QED  BY <3>1, <1>2, <1>3 DEF Move, UrlOf
  <2>2. CASE ~SameFilesystem
    <3>1. /\ Moved(b, "record", "lost")
          /\ disk' = [disk EXCEPT ![PathOf(task[b].doc)] = tmp[UrlOf(b)]]
      BY <1>3, <2>2 DEF Move, UrlOf, PathOf
    <3> QED  BY <3>1, <1>2, <1>3 DEF Move, UrlOf
  <2> QED  BY <2>1, <2>2
<1>4. CASE ~(task[b].ver = doc[task[b].doc].file.sum /\ tmp[UrlOf(b)] # Absent)
  <2>1. Moved(b, "error", "lost") /\ UNCHANGED disk  BY <1>4 DEF Move, UrlOf
  <2> QED  BY <2>1, <1>2 DEF Move, UrlOf
<1> QED  BY <1>3, <1>4

\* It is moved.
LEMMA BasicsMove ==
    ASSUME Basics, NEW b \in Boxes, Move(b)
    PROVE  Basics'
<1>0. Types /\ TaskDocs /\ UploadDocs  BY DEF Basics
<1>1. /\ task[b].at = "move" /\ tmp' = [tmp EXCEPT ![UrlOf(b)] = Absent]
      /\ UNCHANGED <<manifest, net, doc, upload, histories, bounds>>
  BY MoveCases
<1>2. PathOf(task[b].doc) \in Paths /\ UrlOf(b) \in Urls  BY <1>1, DocOfTask DEF OnDoc
<1>3. PICK at \in {"record", "error"}, place \in Fds :
          /\ Moved(b, at, place)
          /\ at = "record" => disk' = [disk EXCEPT ![PathOf(task[b].doc)] = tmp[UrlOf(b)]]
          /\ at = "error" => UNCHANGED disk
  BY MoveCases
<1>4. disk' \in [Paths -> Contents]  BY <1>0, <1>2, <1>3 DEF Types
<1>5. tmp' \in [Urls -> Contents]  BY <1>0, <1>1, <1>2, Contained DEF Types
<1>6. /\ task' \in [Boxes -> TaskState] /\ task'[b].at = at
      /\ \A c \in Boxes : /\ task'[c].doc = task[c].doc /\ task'[c].want = task[c].want
                          /\ task'[c].ver = task[c].ver
      /\ \A c \in Boxes \ {b} : task'[c].at = task[c].at
  BY <1>1, <1>3, MovedFields
<1>7. Types'  BY <1>0, <1>1, <1>4, <1>5, <1>6 DEF Types, histories, bounds
<1>8. TaskDoc(b)'  BY <1>0, <1>1, <1>6 DEF TaskDoc, TaskDocs, OnDoc
<1>9. \A r \in Uploaders : UploadDoc(r)'  BY <1>0, <1>1 DEF UploadDoc, UploadDocs, There
<1> QED  BY <1>1, <1>6, <1>7, <1>8, <1>9, BasicsStay

-----------------------------------------------------------------------------
\* Requests of users.
LEMMA BasicsAdd ==
    ASSUME Basics, NEW r \in Uploaders, add_file_to_source(r)
    PROVE  /\ Basics' /\ \A q \in Uploaders \ {r} : upload'[q] = upload[q]
           /\ \E n \in Ids :
                /\ ~There(n) /\ \A q \in Uploaders : upload[q].doc # n
                /\ \A e \in Ids \ {n} : doc'[e] = doc[e]
                /\ There(n)' /\ ~doc'[n].synced /\ upload'[r].at = "fetch"
                /\ \A e \in Ids : PathOf(e) # PathOf(n)'
<1> USE DEF add_file_to_source
<1>0. Types /\ UniquePaths /\ TaskDocs /\ UploadDocs  BY DEF Basics
<1>1. PICK p \in Paths : LET file == [path |-> p, url |-> "none", sum |-> Upload] IN
           /\ MayCreate(p) /\ Create("user", NoBox, file)
           /\ upload' = [upload EXCEPT ![r] = [at |-> "fetch", doc |-> New, file |-> file]]
  OBVIOUS
<1>2. PICK file : file = [path |-> p, url |-> "none", sum |-> Upload]  OBVIOUS
<1>3. /\ file \in UserFile /\ file.path = p /\ MayCreate(file.path) /\ Create("user", NoBox, file)
      /\ upload' = [upload EXCEPT ![r] = [at |-> "fetch", doc |-> New, file |-> file]]
  BY <1>1, <1>2 DEF UserFile
<1>4. PICK n \in Ids :
           /\ n = New /\ ~There(n) /\ \A q \in Uploaders : upload[q].doc # n
           /\ doc' \in [Ids -> ManifestDoc \cup UserDoc \cup {Gone}]
           /\ \A e \in Ids \ {n} : doc'[e] = doc[e] /\ PathOf(e) # file.path
           /\ doc'[n] \in UserDoc /\ doc'[n].file = file /\ ~doc'[n].synced /\ There(n)'
  BY <1>0, <1>3, DocCreated
<1>5. PICK x : x = [at |-> "fetch", doc |-> n, file |-> file]  OBVIOUS
<1>6. x \in UploadState /\ x.at = "fetch" /\ x.doc = n /\ x.file = file
  BY <1>3, <1>5 DEF UploadState, UploadSteps
<1>7. upload' = [upload EXCEPT ![r] = x]  BY <1>3, <1>4, <1>5
<1>8. /\ upload' \in [Uploaders -> UploadState] /\ upload'[r] = x
      /\ \A q \in Uploaders \ {r} : upload'[q] = upload[q]
  BY <1>0, <1>6, <1>7 DEF Types
<1>9. uploads' \in 0..MaxUploads  BY <1>0, FilesAssumption DEF Types
<1>10. Types'  BY <1>0, <1>4, <1>8, <1>9 DEF Types, histories
<1>11. /\ UniquePaths' /\ \A c \in Boxes : TaskDoc(c)'
       /\ \A q \in Uploaders \ {r} : UploadDoc(q)'
  BY <1>3, <1>4, <1>8, CreateKeepsDocs
<1>12. UploadDoc(r)'  BY <1>4, <1>6, <1>8 DEF UploadDoc
<1>13. Basics'  BY <1>10, <1>11, <1>12 DEF Basics, TaskDocs, UploadDocs
<1>14. \A e \in Ids : PathOf(e) # PathOf(n)'
  BY <1>3, <1>4, <1>0, Documents, Kinds DEF PathOf
<1> QED  BY <1>4, <1>6, <1>8, <1>13, <1>14

\* The document of an upload is looked for.
LEMMA BasicsFetch ==
    ASSUME Basics, NEW r \in Uploaders, Fetch(r)
    PROVE  Basics'
<1> USE DEF Fetch
<1>0. Types /\ TaskDocs /\ UploadDocs  BY DEF Basics
<1>1. \A b \in Boxes : task'[b] = task[b]  OBVIOUS
<1>2. CASE Goes(r, "save")
  <2>1. /\ upload' \in [Uploaders -> UploadState] /\ \A q \in Uploaders \ {r} : upload'[q] = upload[q]
        /\ upload'[r].doc = upload[r].doc /\ upload'[r].file = upload[r].file
    BY <1>0, <1>2, UploadGoes DEF UploadSteps
  <2>2. Types'  BY <1>0, <2>1 DEF Types, histories, bounds
  <2>3. \A q \in Uploaders \ {r} : UploadDoc(q)'
    BY <1>0, <2>1 DEF UploadDoc, UploadDocs, There
  <2> QED  BY <1>1, <2>1, <2>2, <2>3, BasicsStay
<1>3. CASE Answers(r)
  <2>1. /\ upload' \in [Uploaders -> UploadState] /\ \A q \in Uploaders \ {r} : upload'[q] = upload[q]
        /\ upload'[r].at = "idle"
    BY <1>0, <1>3, UploadAnswers
  <2>2. Types'  BY <1>0, <2>1 DEF Types, histories, bounds
  <2>3. \A q \in Uploaders : UploadDoc(q)'
    BY <1>0, <2>1 DEF UploadDoc, UploadDocs, There
  <2> QED  BY <1>1, <2>2, <2>3, BasicsStay
<1> QED  BY <1>2, <1>3

\* The upload is stored.
LEMMA BasicsSave ==
    ASSUME Basics, NEW r \in Uploaders, Save(r)
    PROVE  Basics'
<1> USE DEF Save
<1>0. Types /\ TaskDocs /\ UploadDocs  BY DEF Basics
<1>1. upload[r].file.path \in Paths /\ upload[r].file.sum = Upload  BY DocOfUpload
<1>2. PICK at \in {"record", "remove"} : Goes(r, at)  OBVIOUS
<1>3. /\ upload' \in [Uploaders -> UploadState] /\ \A q \in Uploaders \ {r} : upload'[q] = upload[q]
      /\ upload'[r].doc = upload[r].doc /\ upload'[r].file = upload[r].file
  BY <1>0, <1>2, UploadGoes DEF UploadSteps
<1>4. faults' \in 0..MaxFaults  BY <1>0, Failed DEF Types
<1>5. /\ task' \in [Boxes -> TaskState] /\ disk' \in [Paths -> Contents]
      /\ \A b \in Boxes : /\ task'[b].at = task[b].at /\ task'[b].doc = task[b].doc
                          /\ task'[b].want = task[b].want /\ task'[b].ver = task[b].ver
  <2>1. CASE UNCHANGED <<disk, task>>  BY <2>1, <1>0 DEF Types
  <2>2. CASE /\ disk' = [disk EXCEPT ![upload[r].file.path] = Whole(upload[r].file.sum)]
             /\ task' = Unlinked(upload[r].file.path)
    <3>1. Whole(upload[r].file.sum) \in Contents  BY <1>1, Contained
    <3>2. disk' \in [Paths -> Contents]  BY <2>2, <3>1, <1>1, <1>0 DEF Types
    <3>3. PICK p \in Paths : p = upload[r].file.path  BY <1>1
    <3>4. task' = Unlinked(p)  BY <2>2, <3>3
    <3> QED  BY <3>2, <3>4, <1>0, TaskUnlinked
  <2> QED  BY <2>1, <2>2
<1>6. Types'  BY <1>0, <1>3, <1>4, <1>5 DEF Types, histories
<1>7. \A q \in Uploaders \ {r} : UploadDoc(q)'
  BY <1>0, <1>3 DEF UploadDoc, UploadDocs, There
<1> QED  BY <1>3, <1>5, <1>6, <1>7, BasicsStay

\* The document of an upload says that it is stored.
LEMMA BasicsRecordUpload ==
    ASSUME Basics, NEW r \in Uploaders, RecordUpload(r)
    PROVE  Basics'
<1> USE DEF RecordUpload
<1>0. Types /\ UniquePaths /\ TaskDocs /\ UploadDocs  BY DEF Basics
<1>1. /\ upload' \in [Uploaders -> UploadState] /\ \A q \in Uploaders \ {r} : upload'[q] = upload[q]
      /\ upload'[r].at = "idle"
  BY <1>0, UploadAnswers
<1>2. CASE UNCHANGED doc
  <2>1. Types'  BY <1>0, <1>1, <1>2 DEF Types, histories, bounds
  <2>2. \A q \in Uploaders : UploadDoc(q)'
    BY <1>0, <1>1, <1>2 DEF UploadDoc, UploadDocs, There
  <2> QED  BY <1>2, <2>1, <2>2, BasicsStay
<1>3. CASE There(upload[r].doc) /\ SetSynced(upload[r].doc, TRUE)
  <2>1. PICK d \in Ids : d = upload[r].doc  BY DocOfUpload
  <2>2. There(d) /\ SetSynced(d, TRUE)  BY <1>3, <2>1
  <2>3. /\ doc' \in [Ids -> ManifestDoc \cup UserDoc \cup {Gone}]
        /\ \A e \in Ids \ {d} : doc'[e] = doc[e]
        /\ doc'[d].file = doc[d].file /\ doc'[d].box = doc[d].box
        /\ doc'[d] \in ManifestDoc <=> doc[d] \in ManifestDoc
        /\ doc'[d] \in UserDoc <=> doc[d] \in UserDoc
    BY <1>0, <2>2, DocSynced
  <2>4. Types'  BY <1>0, <1>1, <2>3 DEF Types, histories, bounds
  <2>5. UniquePaths'  BY <1>0, <2>2, <2>3 DEF UniquePaths, PathOf, There
  <2>6. ASSUME NEW c \in Boxes PROVE TaskDoc(c)'
    <3>1. TaskDoc(c)  BY <1>0 DEF TaskDocs
    <3> QED  BY <3>1, <2>3 DEF TaskDoc
  <2>7. ASSUME NEW q \in Uploaders PROVE UploadDoc(q)'
    <3>1. UploadDoc(q)  BY <1>0 DEF UploadDocs
    <3>2. upload[q].at # "idle" => upload[q].doc \in Ids  BY <1>0, UploadFields
    <3> QED  BY <3>1, <3>2, <2>2, <2>3, <1>1 DEF UploadDoc, There
  <2> QED  BY <2>4, <2>5, <2>6, <2>7 DEF Basics, TaskDocs, UploadDocs
<1> QED  BY <1>2, <1>3

\* A user deletes a file: the request begins.
LEMMA BasicsDelete ==
    ASSUME Basics, NEW r \in Uploaders, delete_source_file(r)
    PROVE  /\ Basics' /\ \A q \in Uploaders \ {r} : upload'[q] = upload[q]
           /\ upload'[r].at = "remove"
<1> USE DEF delete_source_file
<1>0. Types /\ TaskDocs /\ UploadDocs  BY DEF Basics
<1>1. PICK d \in DOMAIN doc :
           /\ doc[d].kind = "user"
           /\ upload' = [upload EXCEPT ![r] = [at |-> "remove", doc |-> d, file |-> doc[d].file]]
  OBVIOUS
<1>2. d \in Ids  BY <1>0, <1>1 DEF Types
<1>3. doc[d] \in UserDoc /\ doc[d].file \in UserFile  BY <1>0, <1>1, <1>2, Documents, Kinds
<1>4. PICK x : x = [at |-> "remove", doc |-> d, file |-> doc[d].file]  OBVIOUS
<1>5. x \in UploadState /\ x.at = "remove" /\ x.doc = d /\ x.file = doc[d].file
  BY <1>2, <1>3, <1>4 DEF UploadState, UploadSteps
<1>6. upload' = [upload EXCEPT ![r] = x]  BY <1>1, <1>4
<1>7. /\ upload' \in [Uploaders -> UploadState] /\ upload'[r] = x
      /\ \A q \in Uploaders \ {r} : upload'[q] = upload[q]
  BY <1>0, <1>5, <1>6 DEF Types
<1>8. uploads' \in 0..MaxUploads  BY <1>0, FilesAssumption DEF Types
<1>9. Types'  BY <1>0, <1>7, <1>8 DEF Types, histories
<1>10. ASSUME NEW q \in Uploaders PROVE UploadDoc(q)'
  <2>1. UploadDoc(q)  BY <1>0 DEF UploadDocs
  <2> QED  BY <2>1, <1>3, <1>5, <1>7 DEF UploadDoc, There
<1>11. Basics'  BY <1>9, <1>10, BasicsStay
<1> QED  BY <1>5, <1>7, <1>11

\* Its file goes ...
LEMMA BasicsRemoveUpload ==
    ASSUME Basics, NEW r \in Uploaders, RemoveUpload(r)
    PROVE  Basics'
<1> USE DEF RemoveUpload
<1>0. Types /\ TaskDocs /\ UploadDocs  BY DEF Basics
<1>1. CASE /\ There(upload[r].doc) /\ RemoveFile(upload[r].doc)
           /\ task' = Unlinked(upload[r].file.path) /\ Goes(r, "drop") /\ UNCHANGED faults
  <2>1. PICK p \in Paths : p = upload[r].file.path  BY DocOfUpload
  <2>2. PathOf(upload[r].doc) = p  BY <1>1, <2>1, DocOfUpload
  <2>3. disk' \in [Paths -> Contents]  BY <1>0, <1>1, <2>2, Contained DEF RemoveFile, PathOf, Types
  <2>4. task' = Unlinked(p)  BY <1>1, <2>1
  <2>5. /\ task' \in [Boxes -> TaskState]
        /\ \A b \in Boxes : /\ task'[b].at = task[b].at /\ task'[b].doc = task[b].doc
                            /\ task'[b].want = task[b].want /\ task'[b].ver = task[b].ver
    BY <1>0, <2>4, TaskUnlinked
  <2>6. /\ upload' \in [Uploaders -> UploadState] /\ \A q \in Uploaders \ {r} : upload'[q] = upload[q]
        /\ upload'[r].doc = upload[r].doc /\ upload'[r].file = upload[r].file
    BY <1>0, <1>1, UploadGoes DEF UploadSteps
  <2>7. Types'  BY <1>0, <1>1, <2>3, <2>5, <2>6 DEF Types, histories
  <2>8. \A q \in Uploaders \ {r} : UploadDoc(q)'
    BY <1>0, <2>6 DEF UploadDoc, UploadDocs, There
  <2> QED  BY <2>5, <2>6, <2>7, <2>8, BasicsStay
<1>2. CASE Answers(r) /\ UNCHANGED <<disk, task>> /\ (UNCHANGED faults \/ Fails)
  <2>1. /\ upload' \in [Uploaders -> UploadState] /\ \A q \in Uploaders \ {r} : upload'[q] = upload[q]
        /\ upload'[r].at = "idle"
    BY <1>0, <1>2, UploadAnswers
  <2>2. faults' \in 0..MaxFaults  BY <1>0, <1>2, Failed DEF Types
  <2>3. Types'  BY <1>0, <1>2, <2>1, <2>2 DEF Types, histories
  <2>4. \A q \in Uploaders : UploadDoc(q)'
    BY <1>0, <2>1 DEF UploadDoc, UploadDocs, There
  <2> QED  BY <1>2, <2>3, <2>4, BasicsStay
<1> QED  BY <1>1, <1>2

\* ... and its document.
LEMMA BasicsDropUpload ==
    ASSUME Basics, NEW r \in Uploaders, DropUpload(r)
    PROVE  Basics'
<1> USE DEF DropUpload
<1>0. Types /\ TaskDocs /\ UploadDocs  BY DEF Basics
<1>1. PICK d \in Ids : d = upload[r].doc /\ upload[r].file.path \in Paths  BY DocOfUpload
<1>2. DropDoc(d)  BY <1>1
<1>3. /\ doc' \in [Ids -> ManifestDoc \cup UserDoc \cup {Gone}]
      /\ mixed' = mixed \ {d} /\ cut' = cut \ {d}
  BY <1>0, <1>2, DocDropped
<1>4. /\ upload' \in [Uploaders -> UploadState] /\ \A q \in Uploaders \ {r} : upload'[q] = upload[q]
      /\ upload'[r].at = "idle"
  BY <1>0, UploadAnswers
<1>5. overtaken' \subseteq Paths  BY <1>0, <1>1 DEF Types
<1>6. Types'  BY <1>0, <1>3, <1>4, <1>5 DEF Types, bounds
<1>7. \A c \in Boxes : ~(task[c].at \in OnDoc /\ task[c].doc = d)  BY <1>1, DocOfUpload
<1>8. /\ UniquePaths' /\ \A c \in Boxes : TaskDoc(c)'
      /\ \A q \in Uploaders \ {r} : UploadDoc(q)'
  BY <1>2, <1>4, <1>7, DropKeepsDocs
<1>9. UploadDoc(r)'  BY <1>4 DEF UploadDoc
<1> QED  BY <1>6, <1>8, <1>9 DEF Basics, TaskDocs, UploadDocs

\* Processes that die.
LEMMA BasicsCrash ==
    ASSUME Basics, NEW b \in Boxes, Crash(b)
    PROVE  Basics'
<1> USE DEF Crash
<1>0. Types /\ TaskDocs /\ UploadDocs  BY DEF Basics
<1>1. /\ task' \in [Boxes -> TaskState] /\ \A c \in Boxes \ {b} : task'[c] = task[c]
      /\ task'[b].at = "idle"
  BY <1>0, TaskEnds
<1>2. tmp' \in [Urls -> Contents] /\ disk' \in [Paths -> Contents]
  <2>1. CASE task[b].at = "write"  BY <2>1, Written
  <2> QED  BY <2>1, <1>0 DEF Types
<1>3. cut' \subseteq Ids
  <2>1. CASE task[b].at = "drop"
    <3>1. task[b].doc \in Ids  BY <2>1, DocOfTask DEF OnDoc
    <3> QED  BY <3>1, <1>0 DEF Types
  <2> QED  BY <2>1, <1>0 DEF Types
<1>4. Types'  BY <1>0, <1>1, <1>2, <1>3, Failed DEF Types
<1>5. TaskDoc(b)'  BY <1>1 DEF TaskDoc, OnDoc
<1>6. \A q \in Uploaders : UploadDoc(q)'  BY <1>0 DEF UploadDoc, UploadDocs, There
<1> QED  BY <1>1, <1>4, <1>5, <1>6, BasicsStay
\* A request dies.
LEMMA BasicsCrashRequest ==
    ASSUME Basics, NEW r \in Uploaders, CrashRequest(r)
    PROVE  Basics'
<1> USE DEF CrashRequest
<1>0. Types /\ TaskDocs /\ UploadDocs  BY DEF Basics
<1>1. /\ upload' \in [Uploaders -> UploadState] /\ \A q \in Uploaders \ {r} : upload'[q] = upload[q]
      /\ upload'[r].at = "idle"
  BY <1>0, UploadAnswers
<1>2. upload[r].doc \in Ids  BY DocOfUpload
<1>3. cut' \subseteq Ids  BY <1>0, <1>2 DEF Types
<1>4. Types'  BY <1>0, <1>1, <1>3, Failed DEF Types
<1>5. \A q \in Uploaders : UploadDoc(q)'
  BY <1>0, <1>1 DEF UploadDoc, UploadDocs, There
<1> QED  BY <1>4, <1>5, BasicsStay

-----------------------------------------------------------------------------
\* What a step leaves of each part of OnTheDisk.
LEMMA AloneStays ==
    ASSUME NEW b \in Boxes, AloneOf(b),
           task'[b].at = task[b].at, task'[b].doc = task[b].doc, task'[b].ver = task[b].ver,
           task[b].at = "write" => task'[b].fd = task[b].fd \/ task[b].fd # "tmp",
           UrlOf(b)' = UrlOf(b),
           task[b].at \in {"write", "move"} /\ task[b].doc \notin mixed' =>
               /\ task[b].doc \notin mixed
               /\ tmp'[UrlOf(b)] = tmp[UrlOf(b)] /\ Downloading(UrlOf(b))' \subseteq Downloading(UrlOf(b))
    PROVE  AloneOf(b)'
<1> SUFFICES ASSUME task[b].at \in {"write", "move"}, task[b].doc \notin mixed'
             PROVE  /\ Downloading(UrlOf(b))' = {b}
                    /\ task[b].at = "write" => /\ task'[b].fd = "tmp"
                                               /\ tmp'[UrlOf(b)] = [vers |-> {}, by |-> b]
                    /\ task[b].at = "move" => tmp'[UrlOf(b)] = Whole(task[b].ver)
  BY DEF AloneOf
<1>1. /\ Downloading(UrlOf(b)) = {b}
      /\ task[b].at = "write" => task[b].fd = "tmp" /\ tmp[UrlOf(b)] = [vers |-> {}, by |-> b]
      /\ task[b].at = "move" => tmp[UrlOf(b)] = Whole(task[b].ver)
  BY DEF AloneOf
<1>2. b \in Downloading(UrlOf(b))'  BY DEF Downloading
<1> QED  BY <1>1, <1>2
\* What a document claims stays true where its path is not written.
LEMMA ClaimStays ==
    ASSUME NEW d \in Ids, ClaimOf(d), There(d)' => There(d) /\ (Claimed(d)' => Claimed(d)),
           PathOf(d)' = PathOf(d), doc'[d].file.sum = doc[d].file.sum,
           overtaken \subseteq overtaken', d \in mixed \cup cut => d \in mixed' \cup cut',
           There(d) /\ Removing(d) => Removing(d)' \/ d \in cut',
           disk'[PathOf(d)] = disk[PathOf(d)]
    PROVE  ClaimOf(d)'
BY DEF ClaimOf, Sound

\* Documents, disk and downloads stay as they are: tasks and requests that change
\* leave what they were at, and a removal that stops half way is cut.
LEMMA QuietStep ==
    ASSUME Basics, OnTheDisk, UNCHANGED <<doc, disk, tmp, mixed, overtaken>>, cut \subseteq cut',
           \A b \in Boxes : \/ task'[b] = task[b]
                            \/ /\ task'[b].at \notin {"drop", "write", "move", "record"}
                               /\ task[b].at = "drop" => task[b].doc \in cut',
           \A r \in Uploaders : \/ upload'[r] = upload[r]
                                \/ /\ SavingOf(r)' /\ upload'[r].at # "record"
                                   /\ upload[r].at = "drop" => \/ ~There(upload[r].doc)
                                                               \/ upload[r].doc \in cut'
    PROVE  OnTheDisk'
<1>1. \A r \in Uploaders : SavingOf(r)'
  BY DEF OnTheDisk, SavingOf, There
<1>2. ASSUME NEW b \in Boxes PROVE DroppingOf(b)' /\ OnDiskOf(b)' /\ AloneOf(b)'
  <2>1. DroppingOf(b) /\ OnDiskOf(b) /\ AloneOf(b)  BY DEF OnTheDisk
  <2>2. CASE task'[b] = task[b]
    <3>1. DroppingOf(b)' /\ OnDiskOf(b)'
      BY <2>1, <2>2 DEF DroppingOf, OnDiskOf, PathOf, UrlOf
    <3>2. UrlOf(b)' = UrlOf(b)  BY <2>2 DEF UrlOf
    <3>3. Downloading(UrlOf(b))' \subseteq Downloading(UrlOf(b))
      BY <3>2 DEF Downloading, UrlOf
    <3> QED  BY <2>1, <2>2, <3>1, <3>2, <3>3, AloneStays
  <2>3. CASE task'[b].at \notin {"drop", "write", "move", "record"}
    BY <2>3 DEF DroppingOf, OnDiskOf, AloneOf
  <2> QED  BY <2>2, <2>3
<1>3. \A p \in Paths : HasDocAt(p)'  BY DEF OnTheDisk, HasDocAt, PathOf
<1>4. ASSUME NEW d \in Ids PROVE ClaimOf(d)'
  <2>1. ClaimOf(d)  BY DEF OnTheDisk
  <2>2. There(d)' = There(d) /\ PathOf(d)' = PathOf(d)  BY DEF There, PathOf
  <2>3. Claimed(d)' => Claimed(d)  BY DEF Claimed
  <2>4. There(d) /\ Removing(d) => Removing(d)' \/ d \in cut'  BY DEF Removing
  <2> QED  BY <2>1, <2>2, <2>3, <2>4, ClaimStays
<1> QED  BY <1>1, <1>2, <1>3, <1>4 DEF OnTheDisk

\* The steps that change neither the disk nor a document.
LEMMA DiskOutside ==
    ASSUME Basics, OnTheDisk, (\E b \in Boxes : NewManifest(b)) \/ (\E u \in Urls : NewVersion(u))
    PROVE  OnTheDisk'
BY QuietStep DEF NewManifest, NewVersion, histories
\* A task compares a manifest.
LEMMA DiskCompare ==
    ASSUME Basics, OnTheDisk, NEW b \in Boxes, _save_sshfs_files_from_manifest(b)
    PROVE  OnTheDisk'
<1>1. \A c \in Boxes \ {b} : task'[c] = task[c]
  BY DEF _save_sshfs_files_from_manifest, Basics, Types
<1>2. task'[b].at \in {"remove", "create"}
  BY DEF _save_sshfs_files_from_manifest, Basics, Types, Idle
<1>3. task[b].at = "idle" /\ UNCHANGED <<doc, disk, tmp, mixed, overtaken, cut, upload>>
  BY DEF _save_sshfs_files_from_manifest, histories
<1> QED  BY <1>1, <1>2, <1>3, QuietStep
\* A request looks for its document.
LEMMA DiskFetch ==
    ASSUME Basics, OnTheDisk, NEW r \in Uploaders, Fetch(r)
    PROVE  OnTheDisk'
<1>0. Types /\ UNCHANGED <<doc, disk, tmp, mixed, overtaken, cut, task>> /\ upload[r].at = "fetch"
  BY DEF Basics, Fetch, histories
<1>1. \A q \in Uploaders \ {r} : upload'[q] = upload[q]
  BY <1>0, UploadGoes, UploadAnswers DEF Fetch, UploadSteps
<1>2. SavingOf(r)' /\ upload'[r].at # "record"
  <2>1. CASE There(upload[r].doc) /\ Goes(r, "save")
    <3>1. upload'[r].doc = upload[r].doc /\ upload'[r].at = "save"
      BY <1>0, <2>1, UploadGoes DEF UploadSteps
    <3> QED  BY <1>0, <2>1, <3>1 DEF SavingOf, There
  <2>2. CASE Answers(r)
    <3>1. upload'[r].at = "idle"  BY <1>0, <2>2, UploadAnswers
    <3> QED  BY <3>1 DEF SavingOf
  <2> QED  BY <2>1, <2>2 DEF Fetch
<1> QED  BY <1>0, <1>1, <1>2, QuietStep
\* A request to delete begins.
LEMMA DiskDelete ==
    ASSUME Basics, OnTheDisk, NEW r \in Uploaders, delete_source_file(r)
    PROVE  OnTheDisk'
<1>1. UNCHANGED <<doc, disk, tmp, mixed, overtaken, cut, task>> /\ upload[r].at = "idle"
  BY DEF delete_source_file, histories
<1>2. upload'[r].at = "remove" /\ \A q \in Uploaders \ {r} : upload'[q] = upload[q]
  BY BasicsDelete
<1>3. SavingOf(r)'  BY <1>2 DEF SavingOf
<1> QED  BY <1>1, <1>2, <1>3, QuietStep
\* A request dies: a document it was dropping is cut.
LEMMA DiskCrashRequest ==
    ASSUME Basics, OnTheDisk, NEW r \in Uploaders, CrashRequest(r)
    PROVE  OnTheDisk'
<1>0. Types /\ UNCHANGED <<doc, disk, tmp, mixed, overtaken, task>> /\ Answers(r)
  BY DEF Basics, CrashRequest
<1>1. upload'[r].at = "idle" /\ \A q \in Uploaders \ {r} : upload'[q] = upload[q]
  BY <1>0, UploadAnswers
<1>2. /\ cut \subseteq cut'
      /\ upload[r].at = "drop" => ~There(upload[r].doc) \/ upload[r].doc \in cut'
  BY DEF CrashRequest
<1>3. SavingOf(r)'  BY <1>1 DEF SavingOf
<1> QED  BY <1>0, <1>1, <1>2, <1>3, QuietStep

-----------------------------------------------------------------------------
\* A file is removed, and its document is one that is being removed.
LEMMA RemovalStep ==
    ASSUME Basics, OnTheDisk, UNCHANGED <<doc, tmp, mixed, cut, overtaken>>,
           NEW d \in Ids, There(d), Removing(d)', NEW p \in Paths, p = PathOf(d),
           disk' = [disk EXCEPT ![p] = Absent],
           \A b \in Boxes :
               /\ task'[b].doc = task[b].doc /\ task'[b].ver = task[b].ver
               /\ task'[b].fd # p /\ task'[b].fd \in {task[b].fd, "lost"}
               /\ task[b].fd # p => task'[b].fd = task[b].fd
               /\ \/ task'[b].at = task[b].at
                  \/ task[b].at = "remove" /\ task'[b].at = "drop" /\ task[b].doc = d,
           \A r \in Uploaders : \/ upload'[r] = upload[r]
                                \/ /\ upload[r].at = "remove" /\ upload'[r].at = "drop"
    PROVE  OnTheDisk'
<1>0. Types /\ UniquePaths  BY DEF Basics
<1>1. disk'[p] = Absent /\ \A q \in Paths \ {p} : disk'[q] = disk[q]  BY <1>0 DEF Types
<1>2. \A e \in Ids : PathOf(e)' = PathOf(e) /\ There(e)' = There(e)  BY DEF PathOf, There
<1>3. \A r \in Uploaders : SavingOf(r)'
  <2> SUFFICES ASSUME NEW r \in Uploaders PROVE SavingOf(r)'  OBVIOUS
  <2>1. SavingOf(r)  BY DEF OnTheDisk
  <2> QED  BY <2>1 DEF SavingOf, There
<1>4. ASSUME NEW b \in Boxes PROVE DroppingOf(b)' /\ OnDiskOf(b)' /\ AloneOf(b)'
  <2>1. DroppingOf(b) /\ OnDiskOf(b) /\ AloneOf(b)  BY DEF OnTheDisk
  <2>2. UrlOf(b)' = UrlOf(b)  BY DEF UrlOf
  <2>3. DroppingOf(b)'
    <3>1. task'[b].at = "drop" => PathOf(task[b].doc) \in Paths
      <4>1. task'[b].at = "drop" => task[b].at \in OnDoc  BY DEF OnDoc
      <4> QED  BY <4>1, DocOfTask
    <3>2. doc'[task'[b].doc].file.path = PathOf(task[b].doc)  BY DEF PathOf
    <3>3. CASE task'[b].at = task[b].at
      <4>1. task[b].at = "drop" => PathOf(task[b].doc) \in overtaken \/ disk'[PathOf(task[b].doc)] = Absent
        BY <2>1, <3>1, <3>3, <1>1 DEF DroppingOf
      <4> QED  BY <4>1, <3>2, <3>3 DEF DroppingOf, PathOf
    <3>4. CASE task[b].doc = d
      <4>1. disk'[PathOf(task[b].doc)] = Absent  BY <3>4, <1>1
      <4> QED  BY <4>1, <3>2 DEF DroppingOf, PathOf
    <3> QED  BY <3>3, <3>4
  <2>4. OnDiskOf(b)'
    <3>1. SUFFICES ASSUME task'[b].at = "write", task'[b].fd \in Paths PROVE OnDiskOf(b)'
      BY DEF OnDiskOf
    <3>2. task[b].at = "write" /\ task'[b].fd = task[b].fd /\ task[b].fd # p
      BY <3>1, Kinds
    <3>3. disk'[task[b].fd] # Absent  BY <2>1, <3>1, <3>2, <1>1 DEF OnDiskOf
    <3> QED  BY <2>1, <2>2, <3>1, <3>2, <3>3, <1>2 DEF OnDiskOf
  <2>5. AloneOf(b)'
    <3>1. CASE task'[b].at = task[b].at
      <4>1. Downloading(UrlOf(b))' \subseteq Downloading(UrlOf(b))
        BY <2>2 DEF Downloading, UrlOf
      <4>2. task[b].fd = "tmp" => task'[b].fd = task[b].fd  BY Kinds
      <4> QED  BY <2>1, <2>2, <3>1, <4>1, <4>2, AloneStays
    <3>2. CASE task'[b].at = "drop"  BY <3>2 DEF AloneOf
    <3> QED  BY <3>1, <3>2
  <2> QED  BY <2>3, <2>4, <2>5
<1>5. \A q \in Paths : HasDocAt(q)'
  <2> SUFFICES ASSUME NEW q \in Paths PROVE HasDocAt(q)'  OBVIOUS
  <2>1. HasDocAt(q)  BY DEF OnTheDisk
  <2> QED  BY <2>1, <1>1, <1>2 DEF HasDocAt
<1>6. ASSUME NEW e \in Ids PROVE ClaimOf(e)'
  <2>1. CASE e = d  BY <2>1 DEF ClaimOf, Sound
  <2>2. CASE e # d /\ There(e)
    <3>1. PathOf(e) \in Paths \ {p}  BY <2>2, <1>0, Documents DEF UniquePaths
    <3>2. Claimed(e)' => Claimed(e)  BY DEF Claimed
    <3>3. Removing(e) => Removing(e)'  BY DEF Removing
    <3>4. ClaimOf(e)  BY DEF OnTheDisk
    <3> QED  BY <1>1, <1>2, <3>1, <3>2, <3>3, <3>4, ClaimStays
  <2>3. CASE ~There(e)  BY <2>3, <1>2 DEF ClaimOf
  <2> QED  BY <2>1, <2>2, <2>3
<1> QED  BY <1>3, <1>4, <1>5, <1>6 DEF OnTheDisk

\* An outdated file is removed.
LEMMA DiskRemoveOutdated ==
    ASSUME Basics, OnTheDisk, NEW b \in Boxes, RemoveOutdated(b)
    PROVE  OnTheDisk'
<1>0. Types /\ UNCHANGED <<doc, tmp, mixed, cut, overtaken, upload>> /\ task[b].at = "remove"
  BY DEF Basics, RemoveOutdated, histories
<1>1. CASE /\ RemoveFile(task[b].doc)
           /\ task' = [Unlinked(doc[task[b].doc].file.path) EXCEPT ![b].at = "drop"]
  <2>1. PICK d \in Ids : d = task[b].doc /\ There(d) /\ PathOf(d) \in Paths
    BY <1>0, DocOfTask DEF OnDoc
  <2>2. PICK p \in Paths : p = PathOf(d)  BY <2>1
  <2>3. PICK T : T = Unlinked(p)  OBVIOUS
  <2>4. /\ T \in [Boxes -> TaskState]
        /\ \A c \in Boxes : /\ T[c].at = task[c].at /\ T[c].doc = task[c].doc
                            /\ T[c].want = task[c].want /\ T[c].ver = task[c].ver
                            /\ T[c].fd # p /\ T[c].fd \in {task[c].fd, "lost"}
                            /\ task[c].fd # p => T[c].fd = task[c].fd
    BY <2>3, <1>0, TaskUnlinked
  <2>5. task' = [T EXCEPT ![b] = [T[b] EXCEPT !.at = "drop"]]
    BY <1>1, <2>1, <2>2, <2>3 DEF PathOf
  <2>6. T[b] \in TaskState  BY <2>4
  <2>7. PICK x : x = [T[b] EXCEPT !.at = "drop"]  OBVIOUS
  <2>8. x.at = "drop" /\ x.doc = T[b].doc /\ x.ver = T[b].ver /\ x.fd = T[b].fd
    BY <2>6, <2>7 DEF TaskState
  <2>9. task'[b] = x /\ \A c \in Boxes \ {b} : task'[c] = T[c]  BY <2>4, <2>5, <2>7
  <2>10. \A c \in Boxes :
               /\ task'[c].doc = task[c].doc /\ task'[c].ver = task[c].ver
               /\ task'[c].fd # p /\ task'[c].fd \in {task[c].fd, "lost"}
               /\ task[c].fd # p => task'[c].fd = task[c].fd
               /\ \/ task'[c].at = task[c].at
                  \/ task[c].at = "remove" /\ task'[c].at = "drop" /\ task[c].doc = d
    BY <1>0, <2>1, <2>4, <2>8, <2>9
  <2>11. Removing(d)'  BY <2>1, <2>10, <2>8, <2>9 DEF Removing
  <2>12. disk' = [disk EXCEPT ![p] = Absent]  BY <1>1, <2>1, <2>2 DEF RemoveFile, PathOf
  <2> QED  BY <1>0, <2>1, <2>2, <2>10, <2>11, <2>12, RemovalStep
<1>2. CASE Ends(b) /\ UNCHANGED disk
  <2>1. task'[b].at = "idle" /\ \A c \in Boxes \ {b} : task'[c] = task[c]
    BY <1>0, <1>2, TaskEnds
  <2> QED  BY <1>0, <1>2, <2>1, QuietStep
<1> QED  BY <1>1, <1>2 DEF RemoveOutdated

\* A user's file is removed.
LEMMA DiskRemoveUpload ==
    ASSUME Basics, OnTheDisk, NEW r \in Uploaders, RemoveUpload(r)
    PROVE  OnTheDisk'
<1>0. Types /\ UNCHANGED <<doc, tmp, mixed, cut, overtaken>> /\ upload[r].at = "remove"
  BY DEF Basics, RemoveUpload, histories
<1>1. CASE /\ There(upload[r].doc) /\ RemoveFile(upload[r].doc)
           /\ task' = Unlinked(upload[r].file.path) /\ Goes(r, "drop")
  <2>1. PICK d \in Ids : d = upload[r].doc /\ There(d)  BY <1>0, <1>1, DocOfUpload
  <2>2. PICK p \in Paths : p = upload[r].file.path /\ p = PathOf(d)
    BY <1>0, <2>1, DocOfUpload
  <2>3. task' = Unlinked(p)  BY <1>1, <2>2
  <2>4. \A c \in Boxes : /\ task'[c].at = task[c].at /\ task'[c].doc = task[c].doc
                         /\ task'[c].ver = task[c].ver
                         /\ task'[c].fd # p /\ task'[c].fd \in {task[c].fd, "lost"}
                         /\ task[c].fd # p => task'[c].fd = task[c].fd
    BY <2>3, <1>0, TaskUnlinked
  <2>5. /\ \A q \in Uploaders \ {r} : upload'[q] = upload[q]
        /\ upload'[r].at = "drop" /\ upload'[r].doc = d
    BY <1>0, <1>1, <2>1, UploadGoes DEF UploadSteps
  <2>6. Removing(d)'  BY <2>5 DEF Removing
  <2>7. disk' = [disk EXCEPT ![p] = Absent]  BY <1>1, <2>1, <2>2 DEF RemoveFile, PathOf
  <2>8. \A q \in Uploaders : \/ upload'[q] = upload[q]
                             \/ upload[q].at = "remove" /\ upload'[q].at = "drop"
    BY <1>0, <2>5
  <2>9. \A c \in Boxes :
               /\ task'[c].doc = task[c].doc /\ task'[c].ver = task[c].ver
               /\ task'[c].fd # p /\ task'[c].fd \in {task[c].fd, "lost"}
               /\ task[c].fd # p => task'[c].fd = task[c].fd
               /\ \/ task'[c].at = task[c].at
                  \/ task[c].at = "remove" /\ task'[c].at = "drop" /\ task[c].doc = d
    BY <2>4
  <2>10. p = PathOf(d)  BY <2>2
  <2> QED  BY <1>0, <2>1, <2>6, <2>7, <2>8, <2>9, <2>10, RemovalStep
<1>2. CASE Answers(r) /\ UNCHANGED <<disk, task>>
  <2>1. upload'[r].at = "idle" /\ \A q \in Uploaders \ {r} : upload'[q] = upload[q]
    BY <1>0, <1>2, UploadAnswers
  <2>2. SavingOf(r)'  BY <2>1 DEF SavingOf
  <2> QED  BY <1>0, <1>2, <2>1, <2>2, QuietStep
<1> QED  BY <1>1, <1>2 DEF RemoveUpload

\* An upload is stored.
LEMMA DiskSave ==
    ASSUME Basics, OnTheDisk, NEW r \in Uploaders, Save(r)
    PROVE  OnTheDisk'
<1>0. Types /\ UniquePaths /\ UNCHANGED <<doc, tmp, mixed, cut, overtaken>> /\ upload[r].at = "save"
  BY DEF Basics, Save, histories
<1>1. CASE UNCHANGED <<disk, task>> /\ Goes(r, "remove")
  <2>1. upload'[r].at = "remove" /\ \A q \in Uploaders \ {r} : upload'[q] = upload[q]
    BY <1>0, <1>1, UploadGoes DEF UploadSteps
  <2>2. SavingOf(r)'  BY <2>1 DEF SavingOf
  <2> QED  BY <1>0, <1>1, <2>1, <2>2, QuietStep
<1>2. CASE /\ disk' = [disk EXCEPT ![upload[r].file.path] = Whole(upload[r].file.sum)]
           /\ task' = Unlinked(upload[r].file.path) /\ Goes(r, "record")
  <2>1. PICK d \in Ids : d = upload[r].doc  BY <1>0, DocOfUpload
  <2>2. PICK p \in Paths : p = upload[r].file.path  BY <1>0, DocOfUpload
  <2>3. There(d) => /\ PathOf(d) = p /\ doc[d].file.sum = upload[r].file.sum
                    /\ \A c \in Boxes : task[c].at \in OnDoc => task[c].doc # d
    BY <1>0, <2>1, <2>2, DocOfUpload
  <2>4. There(d) \/ p \in overtaken
    <3>1. SavingOf(r)  BY DEF OnTheDisk
    <3> QED  BY <3>1, <1>0, <2>1, <2>2 DEF SavingOf
  <2>5. task' = Unlinked(p)  BY <1>2, <2>2
  <2>6. \A c \in Boxes : /\ task'[c].at = task[c].at /\ task'[c].doc = task[c].doc
                         /\ task'[c].ver = task[c].ver
                         /\ task'[c].fd # p /\ task'[c].fd \in {task[c].fd, "lost"}
                         /\ task[c].fd # p => task'[c].fd = task[c].fd
    BY <2>5, <1>0, TaskUnlinked
  <2>7. /\ \A q \in Uploaders \ {r} : upload'[q] = upload[q]
        /\ upload'[r].at = "record" /\ upload'[r].doc = d
    BY <1>0, <1>2, <2>1, UploadGoes DEF UploadSteps
  <2>8. disk'[p] = Whole(upload[r].file.sum) /\ \A q \in Paths \ {p} : disk'[q] = disk[q]
    BY <1>0, <1>2, <2>2 DEF Types
  <2>9. \A e \in Ids : PathOf(e)' = PathOf(e) /\ There(e)' = There(e)  BY <1>0 DEF PathOf, There
  <2>10. \A q \in Uploaders : SavingOf(q)'
    <3> SUFFICES ASSUME NEW q \in Uploaders PROVE SavingOf(q)'  OBVIOUS
    <3>1. SavingOf(q)  BY DEF OnTheDisk
    <3> QED  BY <3>1, <1>0, <2>7 DEF SavingOf, There
  <2>11. ASSUME NEW b \in Boxes PROVE DroppingOf(b)' /\ OnDiskOf(b)' /\ AloneOf(b)'
    <3>1. DroppingOf(b) /\ OnDiskOf(b) /\ AloneOf(b)  BY DEF OnTheDisk
    <3>2. UrlOf(b)' = UrlOf(b)  BY <1>0, <2>6 DEF UrlOf
    <3>3. DroppingOf(b)'
      <4>1. SUFFICES ASSUME task[b].at = "drop" PROVE DroppingOf(b)'  BY <2>6 DEF DroppingOf
      <4>2. /\ task[b].doc \in Ids /\ There(task[b].doc) /\ PathOf(task[b].doc) \in Paths
            /\ task[b].at \in OnDoc
        BY <4>1, DocOfTask DEF OnDoc
      <4>3. PathOf(task[b].doc) # p \/ p \in overtaken
        BY <4>2, <2>3, <2>4, <1>0 DEF UniquePaths
      <4>4. doc'[task'[b].doc].file.path = PathOf(task[b].doc)  BY <1>0, <2>6 DEF PathOf
      <4>5. PathOf(task[b].doc) \in overtaken \/ disk'[PathOf(task[b].doc)] = Absent
        BY <3>1, <4>1, <4>2, <4>3, <2>8 DEF DroppingOf
      <4> QED  BY <4>4, <4>5, <1>0 DEF DroppingOf, PathOf
    <3>4. OnDiskOf(b)'
      <4>1. SUFFICES ASSUME task'[b].at = "write", task'[b].fd \in Paths PROVE OnDiskOf(b)'
        BY DEF OnDiskOf
      <4>2. task[b].at = "write" /\ task'[b].fd = task[b].fd /\ task[b].fd # p
        BY <4>1, <2>6, Kinds
      <4>3. disk'[task[b].fd] # Absent  BY <3>1, <4>1, <4>2, <2>8 DEF OnDiskOf
      <4> QED  BY <3>1, <3>2, <4>1, <4>2, <4>3, <2>9, <1>0 DEF OnDiskOf
    <3>5. AloneOf(b)'
      <4>1. Downloading(UrlOf(b))' \subseteq Downloading(UrlOf(b))
        BY <3>2, <2>6, <1>0 DEF Downloading, UrlOf
      <4>2. task[b].fd = "tmp" => task'[b].fd = task[b].fd  BY <2>6, Kinds
      <4> QED  BY <3>1, <3>2, <4>1, <4>2, <2>6, <1>0, AloneStays
    <3> QED  BY <3>3, <3>4, <3>5
  <2>12. \A q \in Paths : HasDocAt(q)'
    <3> SUFFICES ASSUME NEW q \in Paths PROVE HasDocAt(q)'  OBVIOUS
    <3>1. HasDocAt(q)  BY DEF OnTheDisk
    <3> QED  BY <3>1, <2>3, <2>4, <2>8, <2>9, <1>0 DEF HasDocAt
  <2>13. ASSUME NEW e \in Ids PROVE ClaimOf(e)'
    <3>1. CASE There(e) /\ PathOf(e) = p
      <4>1. CASE p \in overtaken  BY <3>1, <4>1, <2>9, <1>0 DEF ClaimOf, Sound
      <4>2. CASE There(d)
        <5>1. e = d  BY <3>1, <4>2, <2>3, <1>0 DEF UniquePaths
        <5>2. disk'[PathOf(e)'] = Whole(doc'[e].file.sum)
          BY <5>1, <4>2, <2>3, <2>8, <2>9, <1>0
        <5> QED  BY <5>2 DEF ClaimOf, Sound
      <4> QED  BY <4>1, <4>2, <2>4
    <3>2. CASE There(e) /\ PathOf(e) # p
      <4>1. PathOf(e) \in Paths \ {p}  BY <3>2, <1>0, Documents
      <4>2. e # d  BY <3>2, <2>3
      <4>3. Claimed(e)' => Claimed(e)  BY <4>2, <2>6, <2>7, <1>0 DEF Claimed
      <4>4. Removing(e) => Removing(e)'  BY <4>2, <2>6, <2>7, <1>0 DEF Removing
      <4>5. ClaimOf(e)  BY DEF OnTheDisk
      <4> QED  BY <4>1, <4>3, <4>4, <4>5, <2>8, <2>9, <1>0, ClaimStays
    <3>3. CASE ~There(e)  BY <3>3, <2>9 DEF ClaimOf
    <3> QED  BY <3>1, <3>2, <3>3
  <2> QED  BY <2>10, <2>11, <2>12, <2>13 DEF OnTheDisk
<1> QED  BY <1>1, <1>2 DEF Save

-----------------------------------------------------------------------------
\* A document goes whose file is not there, or whose path is one of overtaken.
LEMMA DropStep ==
    ASSUME Basics, OnTheDisk, NEW d \in Ids, DropDoc(d), UNCHANGED <<disk, tmp>>,
           overtaken \subseteq overtaken',
           There(d) => PathOf(d) \in overtaken' \/ disk[PathOf(d)] = Absent,
           \A b \in Boxes : \/ task'[b] = task[b] /\ (task[b].at \in OnDoc => task[b].doc # d)
                            \/ task'[b].at \in {"idle", "create"} /\ task[b].doc = d,
           \A r \in Uploaders : \/ upload'[r] = upload[r]
                                \/ upload'[r].at = "idle" /\ upload[r].doc = d,
           \A r \in Uploaders : There(d) /\ upload[r].at = "save" /\ upload[r].doc = d =>
                                    upload[r].file.path \in overtaken'
    PROVE  OnTheDisk'
<1>0. Types /\ UniquePaths  BY DEF Basics
<1>1. /\ \A e \in Ids \ {d} : doc'[e] = doc[e]
      /\ ~There(d)' /\ PathOf(d)' = "none" /\ mixed' = mixed \ {d} /\ cut' = cut \ {d}
  BY <1>0, DocDropped
<1>2. \A e \in Ids \ {d} : PathOf(e)' = PathOf(e) /\ There(e)' = There(e)
  BY <1>1 DEF PathOf, There
<1>3. ASSUME NEW r \in Uploaders PROVE SavingOf(r)'
  <2>1. SavingOf(r)  BY DEF OnTheDisk
  <2>2. upload[r].at = "save" => upload[r].doc \in Ids  BY DocOfUpload
  <2>3. CASE upload'[r] = upload[r]
    <3>1. SUFFICES ASSUME upload[r].at = "save" PROVE There(upload[r].doc)' \/ upload[r].file.path \in overtaken'
      BY <2>3 DEF SavingOf, There
    <3>2. CASE upload[r].doc = d  BY <2>1, <3>1, <3>2 DEF SavingOf
    <3>3. CASE upload[r].doc \in Ids \ {d}
      <4>1. There(upload[r].doc) \/ upload[r].file.path \in overtaken  BY <2>1, <3>1 DEF SavingOf
      <4>2. There(upload[r].doc) => doc'[upload[r].doc] # Gone  BY <1>1, <3>3 DEF There
      <4> QED  BY <4>1, <4>2, <2>3 DEF There
    <3> QED  BY <2>2, <3>1, <3>2, <3>3
  <2>4. CASE upload'[r].at = "idle"  BY <2>4 DEF SavingOf
  <2> QED  BY <2>3, <2>4
<1>4. ASSUME NEW b \in Boxes PROVE DroppingOf(b)' /\ OnDiskOf(b)' /\ AloneOf(b)'
  <2>1. DroppingOf(b) /\ OnDiskOf(b) /\ AloneOf(b)  BY DEF OnTheDisk
  <2>2. CASE task'[b].at \in {"idle", "create"}  BY <2>2 DEF DroppingOf, OnDiskOf, AloneOf
  <2>3. CASE task'[b] = task[b] /\ task[b].at \notin OnDoc
    BY <2>3 DEF DroppingOf, OnDiskOf, AloneOf, OnDoc
  <2>4. CASE task'[b] = task[b] /\ task[b].at \in OnDoc /\ task[b].doc # d
    <3>1. task[b].doc \in Ids \ {d}  BY <2>4, DocOfTask
    <3>2. doc'[task'[b].doc] = doc[task[b].doc] /\ UrlOf(b)' = UrlOf(b)
      BY <1>1, <2>4, <3>1 DEF UrlOf
    <3>3. DroppingOf(b)'  BY <2>1, <2>4, <3>2 DEF DroppingOf, PathOf
    <3>4. OnDiskOf(b)'
      <4> SUFFICES ASSUME task[b].at = "write", task[b].fd \in Paths, NEW e \in Ids,
                          PathOf(e)' = task[b].fd, PathOf(e)' \notin overtaken'
                   PROVE  e \in mixed' /\ doc'[e].file.url = UrlOf(b)
        BY <2>1, <2>4, <3>2 DEF OnDiskOf
      <4>1. e # d  BY <1>1, Kinds
      <4> QED  BY <2>1, <4>1, <1>1, <1>2 DEF OnDiskOf
    <3>5. AloneOf(b)'
      <4>1. Downloading(UrlOf(b))' \subseteq Downloading(UrlOf(b))
        <5> SUFFICES ASSUME NEW c \in Boxes, task'[c].at \in {"write", "move"}, UrlOf(c)' = UrlOf(b)
                     PROVE  task[c].at \in {"write", "move"} /\ UrlOf(c) = UrlOf(b)
          BY <3>2 DEF Downloading
        <5>1. task'[c] = task[c] /\ task[c].at \in OnDoc /\ task[c].doc # d  BY DEF OnDoc
        <5>2. task[c].doc \in Ids \ {d}  BY <5>1, DocOfTask
        <5> QED  BY <5>1, <5>2, <1>1 DEF UrlOf
      <4>2. task[b].doc \notin mixed' => task[b].doc \notin mixed  BY <1>1, <2>4
      <4> QED  BY <2>1, <2>4, <3>2, <4>1, <4>2, AloneStays
    <3> QED  BY <3>3, <3>4, <3>5
  <2> QED  BY <2>2, <2>3, <2>4
<1>5. ASSUME NEW q \in Paths PROVE HasDocAt(q)'
  <2>1. SUFFICES ASSUME q \notin overtaken', disk[q] # Absent PROVE \E e \in Ids : PathOf(e)' = q
    BY DEF HasDocAt
  <2>2. PICK e \in Ids : PathOf(e) = q  BY <2>1 DEF OnTheDisk, HasDocAt
  <2>3. There(e)  BY <2>2, <1>0, Documents
  <2>4. e # d  BY <2>1, <2>2, <2>3
  <2> QED  BY <2>2, <2>4, <1>2
<1>6. ASSUME NEW e \in Ids PROVE ClaimOf(e)'
  <2>1. CASE e = d  BY <2>1, <1>1 DEF ClaimOf
  <2>2. CASE e # d
    <3>1. Claimed(e)' => Claimed(e)
      <4>1. doc'[e].synced = doc[e].synced  BY <1>1, <2>2
      <4>2. \A b \in Boxes : task'[b].at = "record" => task'[b] = task[b]  OBVIOUS
      <4>3. \A r \in Uploaders : upload'[r].at = "record" => upload'[r] = upload[r]  OBVIOUS
      <4> QED  BY <4>1, <4>2, <4>3 DEF Claimed
    <3>2. Removing(e) => Removing(e)'
      <4>1. \A b \in Boxes : task[b].doc = e => task'[b] = task[b]  BY <2>2
      <4>2. \A r \in Uploaders : upload[r].doc = e => upload'[r] = upload[r]  BY <2>2
      <4> QED  BY <4>1, <4>2 DEF Removing
    <3>3. ClaimOf(e)  BY DEF OnTheDisk
    <3>4. e \in mixed \cup cut => e \in mixed' \cup cut'  BY <1>1, <2>2
    <3>5. PathOf(e)' = PathOf(e) /\ There(e)' = There(e) /\ doc'[e].file.sum = doc[e].file.sum
      BY <1>1, <1>2, <2>2
    <3> QED  BY <3>1, <3>2, <3>3, <3>4, <3>5, ClaimStays
  <2> QED  BY <2>1, <2>2
<1> QED  BY <1>3, <1>4, <1>5, <1>6 DEF OnTheDisk

\* An outdated document is dropped.
LEMMA DiskDropOutdated ==
    ASSUME Basics, OnTheDisk, NEW b \in Boxes, DropOutdated(b)
    PROVE  OnTheDisk'
<1>0. Types /\ UNCHANGED <<disk, tmp, upload, overtaken>> /\ task[b].at = "drop"
  BY DEF Basics, DropOutdated
<1>1. PICK d \in Ids : d = task[b].doc  BY <1>0, DocOfTask DEF OnDoc
<1>2. DropDoc(d)  BY <1>1 DEF DropOutdated
<1>3. task'[b].at \in {"idle", "create"} /\ \A c \in Boxes \ {b} : task'[c] = task[c]
  <2>1. CASE Ends(b)  BY <1>0, <2>1, TaskEnds
  <2>2. CASE Go(b, "create")  BY <1>0, <2>2, TaskGoes DEF TaskSteps
  <2> QED  BY <2>1, <2>2 DEF DropOutdated
<1>4. \A c \in Boxes \ {b} : task[c].at \in OnDoc => task[c].doc # d
  BY <1>0, <1>1, DocOfTask DEF OnDoc
<1>5. \A r \in Uploaders : upload[r].at = "save" => upload[r].doc # d
  BY <1>0, <1>1, DocOfTask DEF OnDoc
<1>6. PathOf(d) \in overtaken' \/ disk[PathOf(d)] = Absent
  BY <1>0, <1>1 DEF OnTheDisk, DroppingOf
<1> QED  BY <1>0, <1>1, <1>2, <1>3, <1>4, <1>5, <1>6, DropStep
\* A user's document is dropped.
LEMMA DiskDropUpload ==
    ASSUME Basics, OnTheDisk, NEW r \in Uploaders, DropUpload(r)
    PROVE  OnTheDisk'
<1>0. Types /\ UNCHANGED <<disk, tmp, task>> /\ upload[r].at = "drop"
  BY DEF Basics, DropUpload
<1>1. PICK d \in Ids : d = upload[r].doc  BY <1>0, DocOfUpload
<1>2. DropDoc(d)  BY <1>1 DEF DropUpload
<1>3. upload'[r].at = "idle" /\ \A q \in Uploaders \ {r} : upload'[q] = upload[q]
  BY <1>0, UploadAnswers DEF DropUpload
<1>4. \A c \in Boxes : task[c].at \in OnDoc => task[c].doc # d  BY <1>0, <1>1, DocOfUpload
<1>5. There(d) => PathOf(d) = upload[r].file.path /\ doc[d].file = upload[r].file
  BY <1>0, <1>1, DocOfUpload
<1>6. overtaken' = IF There(d) /\ \/ disk[upload[r].file.path] # Absent
                                  \/ \E q \in Uploaders : upload[q].doc = d /\ upload[q].at = "save"
                   THEN overtaken \cup {upload[r].file.path} ELSE overtaken
  BY <1>1 DEF DropUpload
<1>7. overtaken \subseteq overtaken'  BY <1>6
<1>8. There(d) => PathOf(d) \in overtaken' \/ disk[PathOf(d)] = Absent  BY <1>5, <1>6
<1>9. ASSUME NEW q \in Uploaders, There(d), upload[q].at = "save", upload[q].doc = d
      PROVE  upload[q].file.path \in overtaken'
  <2>1. doc[d].file = upload[q].file  BY <1>9, DocOfUpload
  <2> QED  BY <1>5, <1>6, <1>9, <2>1
<1> QED  BY <1>0, <1>1, <1>2, <1>3, <1>4, <1>7, <1>8, <1>9, DropStep

\* A document is made at a path that has none, and hence has no file.
LEMMA CreateStep ==
    ASSUME Basics, OnTheDisk, UNCHANGED <<disk, tmp, mixed, cut, overtaken>>,
           NEW n \in Ids, ~There(n), \A r \in Uploaders : upload[r].doc # n,
           \A e \in Ids \ {n} : doc'[e] = doc[e], \A e \in Ids : PathOf(e) # PathOf(n)',
           ~doc'[n].synced,
           \A b \in Boxes : task'[b] = task[b] \/ (task[b].at = "create" /\ task'[b].at = "idle"),
           \A r \in Uploaders : upload'[r] = upload[r] \/ (upload[r].at = "idle" /\ upload'[r].at = "fetch")
    PROVE  OnTheDisk'
<1>0. Types /\ UniquePaths  BY DEF Basics
<1>1. \A e \in Ids \ {n} : PathOf(e)' = PathOf(e) /\ There(e)' = There(e)  BY DEF PathOf, There
<1>2. ASSUME NEW r \in Uploaders PROVE SavingOf(r)'
  <2>1. SavingOf(r)  BY DEF OnTheDisk
  <2>2. upload[r].at = "save" => upload[r].doc \in Ids \ {n}  BY DocOfUpload
  <2> QED  BY <2>1, <2>2 DEF SavingOf, There
<1>3. ASSUME NEW b \in Boxes PROVE DroppingOf(b)' /\ OnDiskOf(b)' /\ AloneOf(b)'
  <2>1. DroppingOf(b) /\ OnDiskOf(b) /\ AloneOf(b)  BY DEF OnTheDisk
  <2>2. CASE task'[b].at = "idle"  BY <2>2 DEF DroppingOf, OnDiskOf, AloneOf
  <2>3. CASE task'[b] = task[b] /\ task[b].at \notin OnDoc
    BY <2>3 DEF DroppingOf, OnDiskOf, AloneOf, OnDoc
  <2>4. CASE task'[b] = task[b] /\ task[b].at \in OnDoc
    <3>1. task[b].doc \in Ids \ {n}  BY <2>4, DocOfTask
    <3>2. doc'[task'[b].doc] = doc[task[b].doc] /\ UrlOf(b)' = UrlOf(b)
      BY <2>4, <3>1 DEF UrlOf
    <3>3. DroppingOf(b)'  BY <2>1, <2>4, <3>2 DEF DroppingOf, PathOf
    <3>4. OnDiskOf(b)'
      <4> SUFFICES ASSUME task[b].at = "write", task[b].fd \in Paths, NEW e \in Ids,
                          PathOf(e)' = task[b].fd, PathOf(e)' \notin overtaken
                   PROVE  e \in mixed /\ doc'[e].file.url = UrlOf(b)
        BY <2>1, <2>4, <3>2 DEF OnDiskOf
      <4>1. PICK f \in Ids : PathOf(f) = task[b].fd
        BY <2>1 DEF OnDiskOf, OnTheDisk, HasDocAt
      <4>2. e # n  BY <4>1
      <4> QED  BY <2>1, <4>2, <1>1 DEF OnDiskOf
    <3>5. AloneOf(b)'
      <4>1. Downloading(UrlOf(b))' \subseteq Downloading(UrlOf(b))
        <5> SUFFICES ASSUME NEW c \in Boxes, task'[c].at \in {"write", "move"}, UrlOf(c)' = UrlOf(b)
                     PROVE  task[c].at \in {"write", "move"} /\ UrlOf(c) = UrlOf(b)
          BY <3>2 DEF Downloading
        <5>1. task'[c] = task[c] /\ task[c].at \in OnDoc  BY DEF OnDoc
        <5>2. task[c].doc \in Ids \ {n}  BY <5>1, DocOfTask
        <5> QED  BY <5>1, <5>2 DEF UrlOf
      <4> QED  BY <2>1, <2>4, <3>2, <4>1, AloneStays
    <3> QED  BY <3>3, <3>4, <3>5
  <2> QED  BY <2>2, <2>3, <2>4
<1>4. ASSUME NEW q \in Paths PROVE HasDocAt(q)'
  <2>1. SUFFICES ASSUME q \notin overtaken, disk[q] # Absent PROVE \E e \in Ids : PathOf(e)' = q
    BY DEF HasDocAt
  <2>2. PICK e \in Ids : PathOf(e) = q  BY <2>1 DEF OnTheDisk, HasDocAt
  <2>3. e # n  BY <2>2, <1>0, Documents
  <2> QED  BY <2>2, <2>3, <1>1
<1>5. ASSUME NEW e \in Ids PROVE ClaimOf(e)'
  <2>1. \A b \in Boxes : task'[b].at = "record" => task'[b] = task[b]  OBVIOUS
  <2>2. \A r \in Uploaders : upload'[r].at = "record" => upload'[r] = upload[r]  OBVIOUS
  <2>3. CASE e = n
    <3>1. \A b \in Boxes : task[b].at = "record" => task[b].doc # n  BY DocOfTask DEF OnDoc
    <3>2. ~Claimed(n)'  BY <2>1, <2>2, <3>1 DEF Claimed
    <3> QED  BY <2>3, <3>2 DEF ClaimOf
  <2>4. CASE e # n
    <3>1. Claimed(e)' => Claimed(e)  BY <2>1, <2>2, <2>4 DEF Claimed
    <3>2. Removing(e) => Removing(e)'
      <4>1. \A b \in Boxes : task[b].at = "drop" => task'[b] = task[b]  OBVIOUS
      <4>2. \A r \in Uploaders : upload[r].at = "drop" => upload'[r] = upload[r]  OBVIOUS
      <4> QED  BY <4>1, <4>2 DEF Removing
    <3>3. ClaimOf(e)  BY DEF OnTheDisk
    <3> QED  BY <3>1, <3>2, <3>3, <1>1, <2>4, ClaimStays
  <2> QED  BY <2>3, <2>4
<1> QED  BY <1>2, <1>3, <1>4, <1>5 DEF OnTheDisk

\* A document is made from a manifest.
LEMMA DiskCreateFile ==
    ASSUME Basics, OnTheDisk, NEW b \in Boxes, CreateFile(b)
    PROVE  OnTheDisk'
<1>0. Types /\ TaskDocs /\ UNCHANGED <<disk, tmp, mixed, cut, overtaken, upload>> /\ task[b].at = "create"
  BY DEF Basics, CreateFile, histories
<1>1. task'[b].at = "idle" /\ \A c \in Boxes \ {b} : task'[c] = task[c]
  BY <1>0, TaskEnds DEF CreateFile
<1>2. CASE UNCHANGED doc  BY <1>0, <1>1, <1>2, QuietStep
<1>3. CASE MayCreate(task[b].want.path) /\ Create("manifest", b, task[b].want)
  <2>1. PICK file : file = task[b].want  OBVIOUS
  <2>2. file \in Entry  BY <1>0, <2>1 DEF TaskDocs, TaskDoc
  <2>3. MayCreate(file.path) /\ Create("manifest", b, file)  BY <1>3, <2>1
  <2>4. PICK n \in Ids :
           /\ n = New /\ ~There(n) /\ \A r \in Uploaders : upload[r].doc # n
           /\ doc' \in [Ids -> ManifestDoc \cup UserDoc \cup {Gone}]
           /\ \A e \in Ids \ {n} : doc'[e] = doc[e] /\ PathOf(e) # file.path
           /\ doc'[n].file = file /\ ~doc'[n].synced /\ There(n)'
    BY <1>0, <2>2, <2>3, DocCreated
  <2>5. \A e \in Ids : PathOf(e) # PathOf(n)'
    <3>1. PathOf(n)' = file.path /\ file.path \in Paths  BY <2>2, <2>4 DEF PathOf, Entry
    <3>2. PathOf(n) = "none"  BY <1>0, <2>4, Documents
    <3> QED  BY <2>4, <3>1, <3>2, Kinds
  <2>6. \A c \in Boxes : task'[c] = task[c] \/ (task[c].at = "create" /\ task'[c].at = "idle")
    BY <1>0, <1>1
  <2>7. \A r \in Uploaders : upload'[r] = upload[r]  BY <1>0
  <2> QED  BY <1>0, <2>4, <2>5, <2>6, <2>7, CreateStep
<1> QED  BY <1>2, <1>3 DEF CreateFile
\* A document is made for an upload.
LEMMA DiskAdd ==
    ASSUME Basics, OnTheDisk, NEW r \in Uploaders, add_file_to_source(r)
    PROVE  OnTheDisk'
<1>0. UNCHANGED <<disk, tmp, mixed, cut, overtaken, task>> /\ upload[r].at = "idle"
  BY DEF add_file_to_source, histories
<1>1. PICK n \in Ids :
                /\ ~There(n) /\ \A q \in Uploaders : upload[q].doc # n
                /\ \A e \in Ids \ {n} : doc'[e] = doc[e]
                /\ There(n)' /\ ~doc'[n].synced /\ upload'[r].at = "fetch"
                /\ \A e \in Ids : PathOf(e) # PathOf(n)'
  BY BasicsAdd
<1>2. \A q \in Uploaders \ {r} : upload'[q] = upload[q]  BY BasicsAdd
<1>3. \A q \in Uploaders : upload'[q] = upload[q] \/ (upload[q].at = "idle" /\ upload'[q].at = "fetch")
  BY <1>0, <1>1, <1>2
<1>4. \A b \in Boxes : task'[b] = task[b]  BY <1>0
<1> QED  BY <1>0, <1>1, <1>3, <1>4, CreateStep

-----------------------------------------------------------------------------
\* A document is recorded as synced, or not, by whom has claimed it.
LEMMA SyncedStep ==
    ASSUME Basics, OnTheDisk, UNCHANGED <<disk, tmp, mixed, cut, overtaken>>,
           NEW d \in Ids, There(d), NEW yes \in BOOLEAN, SetSynced(d, yes), yes => Claimed(d),
           \A b \in Boxes : \/ task'[b] = task[b]
                            \/ task[b].at \in {"record", "error"} /\ task'[b].at = "idle",
           \A r \in Uploaders : \/ upload'[r] = upload[r]
                                \/ upload[r].at = "record" /\ upload'[r].at = "idle"
    PROVE  OnTheDisk'
<1>0. Types  BY DEF Basics
<1>1. /\ \A e \in Ids \ {d} : doc'[e] = doc[e]
      /\ doc'[d].synced = yes /\ doc'[d].file = doc[d].file /\ There(d)'
  BY <1>0, DocSynced
<1>2. \A e \in Ids : /\ doc'[e].file = doc[e].file /\ PathOf(e)' = PathOf(e)
                     /\ There(e)' = There(e)
  BY <1>1 DEF PathOf, There
<1>3. ASSUME NEW r \in Uploaders PROVE SavingOf(r)'
  <2>1. SavingOf(r)  BY DEF OnTheDisk
  <2>2. upload'[r].at = "save" => upload'[r] = upload[r] /\ upload[r].doc \in Ids
    BY DocOfUpload
  <2> QED  BY <2>1, <2>2, <1>2 DEF SavingOf, There
<1>4. ASSUME NEW b \in Boxes PROVE DroppingOf(b)' /\ OnDiskOf(b)' /\ AloneOf(b)'
  <2>1. DroppingOf(b) /\ OnDiskOf(b) /\ AloneOf(b)  BY DEF OnTheDisk
  <2>2. CASE task'[b].at = "idle"  BY <2>2 DEF DroppingOf, OnDiskOf, AloneOf
  <2>3. CASE task'[b] = task[b] /\ task[b].at \notin OnDoc
    BY <2>3 DEF DroppingOf, OnDiskOf, AloneOf, OnDoc
  <2>4. CASE task'[b] = task[b] /\ task[b].at \in OnDoc
    <3>1. task[b].doc \in Ids  BY <2>4, DocOfTask
    <3>2. doc'[task'[b].doc].file = doc[task[b].doc].file /\ UrlOf(b)' = UrlOf(b)
      BY <1>2, <2>4, <3>1 DEF UrlOf
    <3>3. DroppingOf(b)'  BY <2>1, <2>4, <3>2 DEF DroppingOf, PathOf
    <3>4. OnDiskOf(b)'  BY <2>1, <2>4, <3>2, <1>2 DEF OnDiskOf
    <3>5. Downloading(UrlOf(b))' \subseteq Downloading(UrlOf(b))
      <4> SUFFICES ASSUME NEW c \in Boxes, task'[c].at \in {"write", "move"}, UrlOf(c)' = UrlOf(b)
                   PROVE  task[c].at \in {"write", "move"} /\ UrlOf(c) = UrlOf(b)
        BY <3>2 DEF Downloading
      <4>1. task'[c] = task[c] /\ task[c].at \in OnDoc  BY DEF OnDoc
      <4>2. task[c].doc \in Ids  BY <4>1, DocOfTask
      <4> QED  BY <4>1, <4>2, <1>2 DEF UrlOf
    <3>6. AloneOf(b)'  BY <2>1, <2>4, <3>2, <3>5, AloneStays
    <3> QED  BY <3>3, <3>4, <3>6
  <2> QED  BY <2>2, <2>3, <2>4
<1>5. ASSUME NEW q \in Paths PROVE HasDocAt(q)'  BY <1>2 DEF OnTheDisk, HasDocAt
<1>6. ASSUME NEW e \in Ids PROVE ClaimOf(e)'
  <2>1. \A b \in Boxes : task'[b].at = "record" => task'[b] = task[b]  OBVIOUS
  <2>2. \A r \in Uploaders : upload'[r].at = "record" => upload'[r] = upload[r]  OBVIOUS
  <2>3. Claimed(e)' => Claimed(e)
    <3>1. CASE e = d /\ yes  BY <3>1
    <3>2. CASE e = d /\ ~yes  BY <3>2, <2>1, <2>2, <1>1 DEF Claimed
    <3>3. CASE e # d  BY <3>3, <2>1, <2>2, <1>1 DEF Claimed
    <3> QED  BY <3>1, <3>2, <3>3
  <2>4. Removing(e) => Removing(e)'
    <3>1. \A b \in Boxes : task[b].at = "drop" => task'[b] = task[b]  OBVIOUS
    <3>2. \A r \in Uploaders : upload[r].at = "drop" => upload'[r] = upload[r]  OBVIOUS
    <3> QED  BY <3>1, <3>2 DEF Removing
  <2>5. ClaimOf(e)  BY DEF OnTheDisk
  <2> QED  BY <2>3, <2>4, <2>5, <1>2, ClaimStays
<1> QED  BY <1>3, <1>4, <1>5, <1>6 DEF OnTheDisk

\* A task records what came of its download.
LEMMA DiskRecord ==
    ASSUME Basics, OnTheDisk, NEW b \in Boxes, Record(b)
    PROVE  OnTheDisk'
<1>0. Types /\ UNCHANGED <<disk, tmp, mixed, cut, overtaken, upload>> /\ task[b].at \in {"record", "error"}
  BY DEF Basics, Record, histories
<1>1. PICK d \in Ids : d = task[b].doc /\ There(d)  BY <1>0, DocOfTask DEF OnDoc
<1>2. PICK yes \in BOOLEAN : yes = (task[b].at = "record")  OBVIOUS
<1>3. SetSynced(d, yes)  BY <1>1, <1>2 DEF Record
<1>4. yes => Claimed(d)  BY <1>1, <1>2 DEF Claimed
<1>5. task'[b].at = "idle" /\ \A c \in Boxes \ {b} : task'[c] = task[c]
  BY <1>0, TaskEnds DEF Record
<1>6. \A r \in Uploaders : upload'[r] = upload[r]  BY <1>0
<1> QED  BY <1>0, <1>1, <1>3, <1>4, <1>5, <1>6, SyncedStep
\* An upload is recorded.
LEMMA DiskRecordUpload ==
    ASSUME Basics, OnTheDisk, NEW r \in Uploaders, RecordUpload(r)
    PROVE  OnTheDisk'
<1>0. Types /\ UNCHANGED <<disk, tmp, mixed, cut, overtaken, task>> /\ upload[r].at = "record"
  BY DEF Basics, RecordUpload, histories
<1>1. upload'[r].at = "idle" /\ \A q \in Uploaders \ {r} : upload'[q] = upload[q]
  BY <1>0, UploadAnswers DEF RecordUpload
<1>2. CASE UNCHANGED doc
  <2>1. SavingOf(r)'  BY <1>1 DEF SavingOf
  <2> QED  BY <1>0, <1>1, <1>2, <2>1, QuietStep
<1>3. CASE There(upload[r].doc) /\ SetSynced(upload[r].doc, TRUE)
  <2>1. PICK d \in Ids : d = upload[r].doc  BY <1>0, DocOfUpload
  <2>2. There(d) /\ SetSynced(d, TRUE)  BY <1>3, <2>1
  <2>3. Claimed(d)  BY <1>0, <2>1 DEF Claimed
  <2>4. \A b \in Boxes : task'[b] = task[b]  BY <1>0
  <2> QED  BY <1>0, <1>1, <2>2, <2>3, <2>4, SyncedStep
<1> QED  BY <1>2, <1>3 DEF RecordUpload

-----------------------------------------------------------------------------
\* A download begins: it is alone at its download path, or it and those that are
\* there are mixed.
LEMMA DiskDownload ==
    ASSUME Basics, OnTheDisk, NEW b \in Boxes, Download(b)
    PROVE  OnTheDisk'
<1>0. Types /\ UNCHANGED <<doc, disk, cut, overtaken, upload>> /\ task[b].at = "idle"
  BY DEF Basics, Download
<1>1. \A c \in Boxes \ {b} : task'[c] = task[c]  BY BasicsDownload
<1>2. PICK d \in Ids, u \in Urls :
          /\ doc[d] \in ManifestDoc /\ doc[d].box = b /\ ~doc[d].synced
          /\ u = doc[d].file.url /\ task'[b].doc = d /\ UrlOf(b)' = u
          /\ \/ task'[b].at = "error" /\ UNCHANGED <<tmp, mixed>>
             \/ /\ task'[b].at = "write" /\ task'[b].fd = "tmp"
                /\ tmp' = [tmp EXCEPT ![u] = [vers |-> {}, by |-> b]]
                /\ mixed' = IF Downloading(u) = {} THEN mixed \ {d}
                            ELSE mixed \cup {d} \cup {task[c].doc : c \in Downloading(u)}
  BY BasicsDownload
<1>3. CASE task'[b].at = "error" /\ UNCHANGED <<tmp, mixed>>
  BY <1>0, <1>1, <1>3, QuietStep
<1>4. CASE /\ task'[b].at = "write" /\ task'[b].fd = "tmp"
           /\ tmp' = [tmp EXCEPT ![u] = [vers |-> {}, by |-> b]]
           /\ mixed' = IF Downloading(u) = {} THEN mixed \ {d}
                       ELSE mixed \cup {d} \cup {task[c].doc : c \in Downloading(u)}
  <2>1. tmp'[u] = [vers |-> {}, by |-> b] /\ \A v \in Urls \ {u} : tmp'[v] = tmp[v]
    BY <1>0, <1>4 DEF Types
  <2>2. /\ Downloading(u) # {} => d \in mixed' /\ \A c \in Downloading(u) : task[c].doc \in mixed'
        /\ \A e \in Ids : /\ e \in mixed /\ e # d => e \in mixed'
                          /\ e \in mixed /\ Downloading(u) # {} => e \in mixed'
    BY <1>4
  <2>3. \A e \in Ids : PathOf(e)' = PathOf(e) /\ There(e)' = There(e)  BY <1>0 DEF PathOf, There
  <2>4. ASSUME NEW r \in Uploaders PROVE SavingOf(r)'
    BY <1>0 DEF OnTheDisk, SavingOf, There
  <2>5. ASSUME NEW c \in Boxes PROVE DroppingOf(c)' /\ OnDiskOf(c)' /\ AloneOf(c)'
    <3>1. DroppingOf(c) /\ OnDiskOf(c) /\ AloneOf(c)  BY DEF OnTheDisk
    <3>2. CASE c = b
      <4>1. DroppingOf(b)' /\ OnDiskOf(b)'  BY <1>4, Kinds DEF DroppingOf, OnDiskOf
      <4>2. AloneOf(b)'
        <5>1. SUFFICES ASSUME d \notin mixed' PROVE Downloading(u)' = {b}
          BY <1>2, <1>4, <2>1 DEF AloneOf
        <5>2. Downloading(u) = {}  BY <2>2, <5>1
        <5>3. ASSUME NEW a \in Boxes \ {b}, task'[a].at \in {"write", "move"}, UrlOf(a)' = u PROVE FALSE
          <6>1. UrlOf(a) = u  BY <5>3, <1>0, <1>1 DEF UrlOf
          <6> QED  BY <5>2, <5>3, <6>1, <1>1 DEF Downloading
        <5> QED  BY <5>3, <1>2, <1>4 DEF Downloading
      <4> QED  BY <3>2, <4>1, <4>2
    <3>3. CASE c # b
      <4>1. task'[c] = task[c] /\ UrlOf(c)' = UrlOf(c)  BY <3>3, <1>0, <1>1 DEF UrlOf
      <4>2. DroppingOf(c)'  BY <3>1, <4>1, <1>0 DEF DroppingOf, PathOf
      <4>3. OnDiskOf(c)'
        <5> SUFFICES ASSUME task[c].at = "write", task[c].fd \in Paths, NEW e \in Ids,
                            PathOf(e) = task[c].fd, PathOf(e) \notin overtaken
                     PROVE  e \in mixed'
          BY <3>1, <4>1, <1>0, <2>3 DEF OnDiskOf
        <5>1. e \in mixed /\ doc[e].file.url = UrlOf(c)  BY <3>1 DEF OnDiskOf
        <5>2. e = d => c \in Downloading(u)  BY <5>1, <1>2 DEF Downloading
        <5> QED  BY <5>1, <5>2, <2>2
      <4>4. AloneOf(c)'
        <5>1. SUFFICES ASSUME task[c].at \in {"write", "move"}, task[c].doc \notin mixed' PROVE AloneOf(c)'
          BY <4>1 DEF AloneOf
        <5>2. /\ task[c].doc \in Ids /\ UrlOf(c) \in Urls /\ task[c].doc # d
          BY <5>1, <3>3, <1>2, DocOfTask DEF OnDoc
        <5>3. UrlOf(c) # u  BY <5>1, <2>2 DEF Downloading
        <5>4. task[c].doc \notin mixed /\ tmp'[UrlOf(c)] = tmp[UrlOf(c)]
          BY <5>1, <5>2, <5>3, <2>1, <2>2
        <5>5. Downloading(UrlOf(c))' \subseteq Downloading(UrlOf(c))
          <6> SUFFICES ASSUME NEW a \in Boxes, task'[a].at \in {"write", "move"}, UrlOf(a)' = UrlOf(c)
                       PROVE  task[a].at \in {"write", "move"} /\ UrlOf(a) = UrlOf(c)
            BY <4>1 DEF Downloading
          <6>1. a # b  BY <5>3, <1>2
          <6> QED  BY <6>1, <1>0, <1>1 DEF UrlOf
        <5> QED  BY <3>1, <4>1, <5>4, <5>5, AloneStays
      <4> QED  BY <4>2, <4>3, <4>4
    <3> QED  BY <3>2, <3>3
  <2>6. \A q \in Paths : HasDocAt(q)'  BY <1>0, <2>3 DEF OnTheDisk, HasDocAt
  <2>7. ASSUME NEW e \in Ids PROVE ClaimOf(e)'
    <3>1. Claimed(e)' => Claimed(e)
      BY <1>0, <1>1, <1>4 DEF Claimed
    <3>2. Removing(e) => Removing(e)'  BY <1>0, <1>1 DEF Removing
    <3>3. CASE e = d
      <4>1. There(d)  BY <1>2, Kinds DEF There
      <4>2. \A c \in Boxes : task'[c].at = "record" => task'[c].doc # d
        <5> SUFFICES ASSUME NEW c \in Boxes, task'[c].at = "record" PROVE task'[c].doc # d
          OBVIOUS
        <5>1. c # b /\ task'[c] = task[c]  BY <1>1, <1>4
        <5>2. doc[task[c].doc].box = c  BY <5>1, DocOfTask DEF OnDoc
        <5> QED  BY <5>1, <5>2, <1>2
      <4>3. \A r \in Uploaders : upload'[r].at = "record" => upload'[r].doc # d
        <5> SUFFICES ASSUME NEW r \in Uploaders, upload[r].at = "record" PROVE upload[r].doc # d
          BY <1>0
        <5>1. There(upload[r].doc) => doc[upload[r].doc] \in UserDoc  BY DocOfUpload
        <5> QED  BY <5>1, <4>1, <1>2, Kinds
      <4>4. ~Claimed(d)'  BY <4>2, <4>3, <1>0, <1>2 DEF Claimed
      <4> QED  BY <3>3, <4>4 DEF ClaimOf
    <3>4. CASE e # d
      <4>1. ClaimOf(e)  BY DEF OnTheDisk
      <4>2. e \in mixed \cup cut => e \in mixed' \cup cut'  BY <3>4, <2>2, <1>0
      <4> QED  BY <3>1, <3>2, <4>1, <4>2, <1>0, <2>3, ClaimStays
    <3> QED  BY <3>3, <3>4
  <2> QED  BY <2>4, <2>5, <2>6, <2>7 DEF OnTheDisk
<1> QED  BY <1>2, <1>3, <1>4

\* A download is written, to its end or not.
LEMMA WriteStep ==
    ASSUME Basics, OnTheDisk, UNCHANGED <<doc, mixed, overtaken, upload>>, cut \subseteq cut',
           NEW b \in Boxes, task[b].at = "write", NEW finished \in BOOLEAN, Writes(b, finished),
           \A c \in Boxes \ {b} : task'[c] = task[c],
           \/ task'[b].at \in {"error", "idle"}
           \/ /\ task'[b].at = "move" /\ finished
              /\ task'[b].doc = task[b].doc /\ task'[b].ver = task[b].ver
    PROVE  OnTheDisk'
<1>0. Types  BY DEF Basics
<1>1. /\ \A u \in Urls : ~(task[b].fd = "tmp" /\ u = UrlOf(b)) => tmp'[u] = tmp[u]
      /\ task[b].fd = "tmp" =>
             tmp'[UrlOf(b)] = [vers |-> tmp[UrlOf(b)].vers \cup {task[b].ver},
                               by |-> IF finished /\ tmp[UrlOf(b)].by = b THEN NoBox
                                      ELSE tmp[UrlOf(b)].by]
      /\ \A p \in Paths : p # task[b].fd => disk'[p] = disk[p]
      /\ task[b].fd \in Paths => disk'[task[b].fd] # Absent
  BY Written
<1>2. OnDiskOf(b) /\ AloneOf(b)  BY DEF OnTheDisk
<1>3. \A e \in Ids : PathOf(e)' = PathOf(e) /\ There(e)' = There(e)  BY DEF PathOf, There
<1>4. UrlOf(b) \in Urls /\ b \in Downloading(UrlOf(b))  BY DocOfTask DEF OnDoc, Downloading
<1>5. ASSUME NEW r \in Uploaders PROVE SavingOf(r)'  BY DEF OnTheDisk, SavingOf, There
<1>6. ASSUME NEW c \in Boxes PROVE DroppingOf(c)' /\ OnDiskOf(c)' /\ AloneOf(c)'
  <2>1. DroppingOf(c) /\ OnDiskOf(c) /\ AloneOf(c)  BY DEF OnTheDisk
  <2>2. CASE c = b
    <3>1. DroppingOf(b)' /\ OnDiskOf(b)'  BY DEF DroppingOf, OnDiskOf
    <3>2. AloneOf(b)'
      <4>1. SUFFICES ASSUME task'[b].at = "move", finished, task'[b].doc = task[b].doc,
                            task'[b].ver = task[b].ver, task[b].doc \notin mixed
                     PROVE  AloneOf(b)'
        BY DEF AloneOf
      <4>2. /\ Downloading(UrlOf(b)) = {b} /\ task[b].fd = "tmp"
            /\ tmp[UrlOf(b)] = [vers |-> {}, by |-> b]
        BY <1>2, <4>1 DEF AloneOf
      <4>3. tmp'[UrlOf(b)] = Whole(task[b].ver)  BY <1>1, <4>1, <4>2 DEF Whole
      <4>4. UrlOf(b)' = UrlOf(b)  BY <4>1 DEF UrlOf
      <4>5. Downloading(UrlOf(b))' = {b}
        <5>1. \A a \in Boxes \ {b} : UrlOf(a)' = UrlOf(a)  BY DEF UrlOf
        <5> QED  BY <5>1, <4>1, <4>2, <4>4 DEF Downloading
      <4> QED  BY <4>1, <4>3, <4>4, <4>5 DEF AloneOf
    <3> QED  BY <2>2, <3>1, <3>2
  <2>3. CASE c # b
    <3>1. task'[c] = task[c] /\ UrlOf(c)' = UrlOf(c)  BY <2>3 DEF UrlOf
    <3>2. DroppingOf(c)'
      <4>1. SUFFICES ASSUME task[c].at = "drop" PROVE DroppingOf(c)'  BY <3>1 DEF DroppingOf
      <4>2. PathOf(task[c].doc) \in Paths  BY <4>1, DocOfTask DEF OnDoc
      <4>3. \/ PathOf(task[c].doc) \in overtaken
            \/ /\ disk[PathOf(task[c].doc)] = Absent /\ PathOf(task[c].doc) # task[b].fd
        BY <2>1, <4>1, <4>2, <1>2 DEF DroppingOf, OnDiskOf
      <4> QED  BY <3>1, <4>2, <4>3, <1>1 DEF DroppingOf, PathOf
    <3>3. OnDiskOf(c)'
      <4>1. SUFFICES ASSUME task[c].at = "write", task[c].fd \in Paths PROVE OnDiskOf(c)'
        BY <3>1 DEF OnDiskOf
      <4>2. disk'[task[c].fd] # Absent
        <5>1. disk[task[c].fd] # Absent  BY <2>1, <4>1 DEF OnDiskOf
        <5>2. CASE task[c].fd = task[b].fd  BY <5>2, <4>1, <1>1
        <5>3. CASE task[c].fd # task[b].fd  BY <5>1, <5>3, <4>1, <1>1
        <5> QED  BY <5>2, <5>3
      <4> QED  BY <2>1, <3>1, <4>1, <4>2, <1>3 DEF OnDiskOf
    <3>4. AloneOf(c)'
      <4>1. SUFFICES ASSUME task[c].at \in {"write", "move"}, task[c].doc \notin mixed PROVE AloneOf(c)'
        BY <3>1 DEF AloneOf
      <4>2. UrlOf(c) \in Urls /\ Downloading(UrlOf(c)) = {c}
        BY <2>1, <4>1, DocOfTask DEF AloneOf, OnDoc
      <4>3. tmp'[UrlOf(c)] = tmp[UrlOf(c)]  BY <2>3, <4>2, <1>1, <1>4
      <4>4. Downloading(UrlOf(c))' \subseteq Downloading(UrlOf(c))
        <5> SUFFICES ASSUME NEW a \in Boxes, task'[a].at \in {"write", "move"}, UrlOf(a)' = UrlOf(c)
                     PROVE  task[a].at \in {"write", "move"} /\ UrlOf(a) = UrlOf(c)
          BY <3>1 DEF Downloading
        <5>1. CASE a = b  BY <5>1 DEF UrlOf
        <5>2. CASE a # b  BY <5>2 DEF UrlOf
        <5> QED  BY <5>1, <5>2
      <4> QED  BY <2>1, <3>1, <4>3, <4>4, AloneStays
    <3> QED  BY <3>2, <3>3, <3>4
  <2> QED  BY <2>2, <2>3
<1>7. ASSUME NEW q \in Paths PROVE HasDocAt(q)'
  <2>1. HasDocAt(q)  BY DEF OnTheDisk
  <2>2. disk'[q] # Absent => disk[q] # Absent  BY <1>1, <1>2 DEF OnDiskOf
  <2> QED  BY <2>1, <2>2, <1>3 DEF HasDocAt
<1>8. ASSUME NEW e \in Ids PROVE ClaimOf(e)'
  <2>1. CASE There(e) /\ PathOf(e) = task[b].fd
    <3>1. PathOf(e) \in overtaken \/ e \in mixed
      BY <2>1, <1>0, <1>2, Documents DEF OnDiskOf
    <3> QED  BY <3>1, <1>3 DEF ClaimOf, Sound
  <2>2. CASE There(e) /\ PathOf(e) # task[b].fd
    <3>1. disk'[PathOf(e)] = disk[PathOf(e)]  BY <2>2, <1>0, <1>1, Documents
    <3>2. Claimed(e)' => Claimed(e)  BY DEF Claimed
    <3>3. Removing(e) => Removing(e)'  BY DEF Removing
    <3>4. ClaimOf(e)  BY DEF OnTheDisk
    <3> QED  BY <3>1, <3>2, <3>3, <3>4, <1>3, ClaimStays
  <2>3. CASE ~There(e)  BY <2>3, <1>3 DEF ClaimOf
  <2> QED  BY <2>1, <2>2, <2>3
<1> QED  BY <1>5, <1>6, <1>7, <1>8 DEF OnTheDisk

\* A download is written by a task that lives ...
LEMMA DiskWrite ==
    ASSUME Basics, OnTheDisk, NEW b \in Boxes, WriteDownload(b)
    PROVE  OnTheDisk'
<1>0. Types /\ UNCHANGED <<doc, mixed, cut, overtaken, upload>> /\ task[b].at = "write"
  BY DEF Basics, WriteDownload, histories
<1>1. CASE Writes(b, TRUE) /\ Go(b, "move")
  <2>1. /\ \A c \in Boxes \ {b} : task'[c] = task[c]
        /\ task'[b].at = "move" /\ task'[b].doc = task[b].doc /\ task'[b].ver = task[b].ver
    BY <1>0, <1>1, TaskGoes DEF TaskSteps
  <2> QED  BY <1>0, <1>1, <2>1, WriteStep
<1>2. CASE Writes(b, FALSE) /\ Go(b, "error")
  <2>1. task'[b].at = "error" /\ \A c \in Boxes \ {b} : task'[c] = task[c]
    BY <1>0, <1>2, TaskGoes DEF TaskSteps
  <2> QED  BY <1>0, <1>2, <2>1, WriteStep
<1> QED  BY <1>1, <1>2 DEF WriteDownload
\* ... or by one that dies.
LEMMA DiskCrash ==
    ASSUME Basics, OnTheDisk, NEW b \in Boxes, Crash(b)
    PROVE  OnTheDisk'
<1>0. Types /\ UNCHANGED <<doc, mixed, overtaken, upload>> /\ Ends(b)
  BY DEF Basics, Crash
<1>1. task'[b].at = "idle" /\ \A c \in Boxes \ {b} : task'[c] = task[c]  BY <1>0, TaskEnds
<1>2. cut \subseteq cut' /\ (task[b].at = "drop" => task[b].doc \in cut')  BY DEF Crash
<1>3. CASE task[b].at = "write"
  <2>1. Writes(b, FALSE)  BY <1>3 DEF Crash
  <2> QED  BY <1>0, <1>1, <1>2, <1>3, <2>1, WriteStep
<1>4. CASE task[b].at # "write"
  <2>1. UNCHANGED <<tmp, disk>>  BY <1>4 DEF Crash
  <2> QED  BY <1>0, <1>1, <1>2, <2>1, QuietStep
<1> QED  BY <1>3, <1>4

\* A download is moved to its place, or taken away.
LEMMA DiskMove ==
    ASSUME Basics, OnTheDisk, NEW b \in Boxes, Move(b)
    PROVE  OnTheDisk'
<1>0. /\ Types /\ UniquePaths /\ UNCHANGED <<doc, mixed, cut, overtaken, upload>>
      /\ task[b].at = "move" /\ tmp' = [tmp EXCEPT ![UrlOf(b)] = Absent]
  BY MoveCases DEF Basics, histories
<1>1. PICK at \in {"record", "error"}, place \in Fds :
          /\ Moved(b, at, place)
          /\ at = "record" => /\ task[b].ver = doc[task[b].doc].file.sum
                              /\ tmp[UrlOf(b)] # Absent
                              /\ disk' = [disk EXCEPT ![PathOf(task[b].doc)] = tmp[UrlOf(b)]]
                              /\ place \in {PathOf(task[b].doc), "lost"}
          /\ at = "error" => UNCHANGED disk /\ place = "lost"
  BY MoveCases
<1>2. PICK d \in Ids, u \in Urls, p \in Paths :
          d = task[b].doc /\ There(d) /\ u = UrlOf(b) /\ p = PathOf(d)
  BY <1>0, DocOfTask DEF OnDoc
<1>3. /\ \A c \in Boxes : task'[c].doc = task[c].doc /\ task'[c].ver = task[c].ver
      /\ task'[b].at = at
      /\ \A c \in Boxes \ {b} :
           /\ task'[c].at = task[c].at
           /\ task'[c].fd = IF c \in Downloading(u) /\ task[c].fd = "tmp" THEN place
                            ELSE IF at = "record" /\ task[c].fd = p THEN "lost"
                            ELSE task[c].fd
  BY <1>0, <1>1, <1>2, MovedFields
<1>4. b \in Downloading(u)  BY <1>0, <1>2 DEF Downloading
<1>5. /\ at = "record" => disk'[p] = tmp[u] /\ tmp[u] # Absent /\ \A q \in Paths \ {p} : disk'[q] = disk[q]
      /\ at = "error" => disk' = disk
  BY <1>0, <1>1, <1>2 DEF Types
<1>6. \A v \in Urls \ {u} : tmp'[v] = tmp[v]  BY <1>0, <1>2 DEF Types
<1>7. \A e \in Ids : PathOf(e)' = PathOf(e) /\ There(e)' = There(e)  BY <1>0 DEF PathOf, There
<1>8. AloneOf(b)  BY DEF OnTheDisk
<1>9. ASSUME NEW r \in Uploaders PROVE SavingOf(r)'  BY <1>0 DEF OnTheDisk, SavingOf, There
<1>10. ASSUME NEW c \in Boxes PROVE DroppingOf(c)' /\ OnDiskOf(c)' /\ AloneOf(c)'
  <2>1. DroppingOf(c) /\ OnDiskOf(c) /\ AloneOf(c)  BY DEF OnTheDisk
  <2>2. CASE c = b  BY <2>2, <1>3 DEF DroppingOf, OnDiskOf, AloneOf
  <2>3. CASE c # b
    <3>1. UrlOf(c)' = UrlOf(c) /\ task'[c].at = task[c].at  BY <2>3, <1>0, <1>3 DEF UrlOf
    <3>2. DroppingOf(c)'
      <4>1. SUFFICES ASSUME task[c].at = "drop" PROVE DroppingOf(c)'  BY <3>1 DEF DroppingOf
      <4>2. /\ task[c].doc \in Ids /\ There(task[c].doc) /\ PathOf(task[c].doc) \in Paths
            /\ task[c].doc # d
        BY <4>1, <2>3, <1>0, <1>2, DocOfTask DEF OnDoc
      <4>3. PathOf(task[c].doc) # p  BY <4>2, <1>0, <1>2 DEF UniquePaths
      <4>4. disk'[PathOf(task[c].doc)] = disk[PathOf(task[c].doc)]  BY <4>2, <4>3, <1>5
      <4>5. doc'[task'[c].doc].file.path = PathOf(task[c].doc)  BY <1>0, <1>3 DEF PathOf
      <4> QED  BY <2>1, <4>1, <4>4, <4>5, <1>0 DEF DroppingOf, PathOf
    <3>3. OnDiskOf(c)'
      <4>1. SUFFICES ASSUME task[c].at = "write", task'[c].fd \in Paths PROVE OnDiskOf(c)'
        BY <3>1 DEF OnDiskOf
      <4>2. CASE c \in Downloading(u) /\ task[c].fd = "tmp"
        <5>1. task'[c].fd = place /\ at = "record" /\ place = p
          BY <4>1, <4>2, <2>3, <1>1, <1>2, <1>3, Kinds
        <5>2. d \in mixed  BY <4>2, <2>3, <1>0, <1>2, <1>8 DEF AloneOf
        <5>3. \A e \in Ids : PathOf(e) = p => e = d
          BY <1>0, <1>2, Documents DEF UniquePaths
        <5>4. doc[d].file.url = u /\ UrlOf(c) = u  BY <4>2, <1>2 DEF UrlOf, Downloading
        <5> QED  BY <5>1, <5>2, <5>3, <5>4, <3>1, <1>0, <1>5, <1>7 DEF OnDiskOf
      <4>3. CASE ~(c \in Downloading(u) /\ task[c].fd = "tmp")
        <5>1. task'[c].fd = task[c].fd /\ (at = "record" => task[c].fd # p)
          BY <4>1, <4>3, <2>3, <1>3, Kinds
        <5>2. disk'[task[c].fd] = disk[task[c].fd]  BY <4>1, <5>1, <1>5
        <5> QED  BY <2>1, <3>1, <4>1, <5>1, <5>2, <1>0, <1>7 DEF OnDiskOf
      <4> QED  BY <4>2, <4>3
    <3>4. AloneOf(c)'
      <4>1. SUFFICES ASSUME task[c].at \in {"write", "move"}, task[c].doc \notin mixed PROVE AloneOf(c)'
        BY <3>1, <1>0, <1>3 DEF AloneOf
      <4>2. UrlOf(c) \in Urls /\ Downloading(UrlOf(c)) = {c}
        BY <2>1, <4>1, DocOfTask DEF AloneOf, OnDoc
      <4>3. UrlOf(c) # u  BY <2>3, <4>2, <1>4
      <4>4. tmp'[UrlOf(c)] = tmp[UrlOf(c)]  BY <4>2, <4>3, <1>6
      <4>5. task[c].fd = "tmp" => task'[c].fd = task[c].fd
        BY <2>3, <4>3, <1>3, Kinds DEF Downloading
      <4>6. Downloading(UrlOf(c))' \subseteq Downloading(UrlOf(c))
        <5> SUFFICES ASSUME NEW a \in Boxes, task'[a].at \in {"write", "move"}, UrlOf(a)' = UrlOf(c)
                     PROVE  task[a].at \in {"write", "move"} /\ UrlOf(a) = UrlOf(c)
          BY <3>1 DEF Downloading
        <5>1. a # b  BY <1>3
        <5> QED  BY <5>1, <1>0, <1>3 DEF UrlOf
      <4> QED  BY <2>1, <3>1, <4>4, <4>5, <4>6, <1>0, <1>3, AloneStays
    <3> QED  BY <3>2, <3>3, <3>4
  <2> QED  BY <2>2, <2>3
<1>11. ASSUME NEW q \in Paths PROVE HasDocAt(q)'
  <2>1. HasDocAt(q)  BY DEF OnTheDisk
  <2>2. CASE q = p  BY <2>2, <1>2, <1>7 DEF HasDocAt
  <2>3. CASE q # p
    <3>1. disk'[q] = disk[q]  BY <2>3, <1>5
    <3> QED  BY <2>1, <3>1, <1>0, <1>7 DEF HasDocAt
  <2> QED  BY <2>2, <2>3
<1>12. ASSUME NEW e \in Ids PROVE ClaimOf(e)'
  <2>1. CASE e = d /\ at = "record"
    <3>1. d \in mixed \/ tmp[u] = Whole(task[b].ver)  BY <1>0, <1>2, <1>8 DEF AloneOf
    <3>2. d \in mixed \/ disk'[PathOf(d)'] = Whole(doc'[d].file.sum)
      BY <3>1, <2>1, <1>0, <1>1, <1>2, <1>5, <1>7
    <3> QED  BY <2>1, <3>2, <1>0 DEF ClaimOf, Sound
  <2>2. CASE ~There(e)  BY <2>2, <1>7 DEF ClaimOf
  <2>3. CASE There(e) /\ ~(e = d /\ at = "record")
    <3>1. disk'[PathOf(e)] = disk[PathOf(e)]
      <4>1. CASE at = "error"  BY <4>1, <1>5
      <4>2. CASE e # d
        <5>1. PathOf(e) \in Paths \ {p}  BY <2>3, <4>2, <1>0, <1>2, Documents DEF UniquePaths
        <5> QED  BY <5>1, <1>5
      <4> QED  BY <2>3, <4>1, <4>2
    <3>2. Claimed(e)' => Claimed(e)
      <4>1. ASSUME NEW c \in Boxes, task'[c].at = "record", task'[c].doc = e
            PROVE  task[c].at = "record" /\ task[c].doc = e
        <5>1. CASE c = b  BY <4>1, <5>1, <2>3, <1>2, <1>3
        <5>2. CASE c # b  BY <4>1, <5>2, <1>3
        <5> QED  BY <5>1, <5>2
      <4> QED  BY <4>1, <1>0 DEF Claimed
    <3>3. Removing(e) => Removing(e)'
      <4>1. \A c \in Boxes : task[c].at = "drop" => task'[c].at = "drop" /\ task'[c].doc = task[c].doc
        BY <1>0, <1>3
      <4> QED  BY <4>1, <1>0 DEF Removing
    <3>4. ClaimOf(e)  BY DEF OnTheDisk
    <3> QED  BY <3>1, <3>2, <3>3, <3>4, <1>0, <1>7, ClaimStays
  <2> QED  BY <2>1, <2>2, <2>3
<1> QED  BY <1>9, <1>10, <1>11, <1>12 DEF OnTheDisk

-----------------------------------------------------------------------------
\* What holds of the files and their documents, in every reachable state.
FilesInv == Basics /\ OnTheDisk

\* It holds when there are no files yet.
LEMMA FilesInitially == FilesInit => FilesInv
<1> SUFFICES ASSUME FilesInit PROVE FilesInv
  OBVIOUS
<1>1. \A d \in Ids : doc[d] = Gone  BY DEF FilesInit, Ids
<1>2. \A b \in Boxes : task[b] = Idle  BY DEF FilesInit
<1>3. \A r \in Uploaders : upload[r] = NoRequest  BY DEF FilesInit
<1>4. \A p \in Paths : disk[p] = Absent  BY DEF FilesInit
<1>5. Types
  <2>1. Idle \in TaskState  BY DEF Idle, TaskState, TaskSteps, Fds
  <2>2. Absent \in Contents  BY DEF Absent, Contents
  <2>3. NoRequest \in UploadState  BY DEF UploadState
  <2>4. 0 \in 0..MaxUploads /\ 0 \in 0..MaxChanges /\ 0 \in 0..MaxFaults  BY FilesAssumption
  <2>5. doc \in [Ids -> ManifestDoc \cup UserDoc \cup {Gone}]  BY DEF FilesInit, Ids
  <2>6. net \in [Urls -> Versions] /\ manifest \in [Boxes -> Entry \cup {NoFile}]
    BY DEF FilesInit
  <2> QED  BY <2>1, <2>2, <2>3, <2>4, <2>5, <2>6 DEF FilesInit, Types
<1>6. UniquePaths  BY <1>1 DEF UniquePaths, There
<1>7. TaskDocs  BY <1>2 DEF TaskDocs, TaskDoc, Idle, OnDoc
<1>8. UploadDocs  BY <1>3 DEF UploadDocs, UploadDoc, NoRequest
<1>9. \A r \in Uploaders : SavingOf(r)  BY <1>3 DEF SavingOf, NoRequest
<1>10. \A b \in Boxes : DroppingOf(b) /\ OnDiskOf(b) /\ AloneOf(b)
  BY <1>2 DEF DroppingOf, OnDiskOf, AloneOf, Idle
<1>11. \A p \in Paths : HasDocAt(p)  BY <1>4 DEF HasDocAt
<1>12. \A d \in Ids : ClaimOf(d)  BY <1>1 DEF ClaimOf, There
<1> QED  BY <1>5, <1>6, <1>7, <1>8, <1>9, <1>10, <1>11, <1>12 DEF FilesInv, Basics, OnTheDisk

\* Every step keeps it.
LEMMA FilesNextKeeps == FilesInv /\ [FilesNext]_filesVars => FilesInv'
<1> SUFFICES ASSUME Basics, OnTheDisk, [FilesNext]_filesVars PROVE Basics' /\ OnTheDisk'
  BY DEF FilesInv
<1>1. CASE (\E b \in Boxes : NewManifest(b)) \/ (\E u \in Urls : NewVersion(u))
  BY <1>1, BasicsOutside, DiskOutside
<1>2. ASSUME NEW b \in Boxes, _save_sshfs_files_from_manifest(b) PROVE Basics' /\ OnTheDisk'
  BY <1>2, BasicsCompare, DiskCompare
<1>3. ASSUME NEW b \in Boxes, RemoveOutdated(b) PROVE Basics' /\ OnTheDisk'
  BY <1>3, BasicsRemoveOutdated, DiskRemoveOutdated
<1>4. ASSUME NEW b \in Boxes, DropOutdated(b) PROVE Basics' /\ OnTheDisk'
  BY <1>4, BasicsDropOutdated, DiskDropOutdated
<1>5. ASSUME NEW b \in Boxes, CreateFile(b) PROVE Basics' /\ OnTheDisk'
  BY <1>5, BasicsCreateFile, DiskCreateFile
<1>6. ASSUME NEW b \in Boxes, Download(b) PROVE Basics' /\ OnTheDisk'
  BY <1>6, BasicsDownload, DiskDownload
<1>7. ASSUME NEW b \in Boxes, WriteDownload(b) PROVE Basics' /\ OnTheDisk'
  BY <1>7, BasicsWrite, DiskWrite
<1>8. ASSUME NEW b \in Boxes, Move(b) PROVE Basics' /\ OnTheDisk'
  BY <1>8, BasicsMove, DiskMove
<1>9. ASSUME NEW b \in Boxes, Record(b) PROVE Basics' /\ OnTheDisk'
  BY <1>9, BasicsRecord, DiskRecord
<1>10. ASSUME NEW b \in Boxes, Crash(b) PROVE Basics' /\ OnTheDisk'
  BY <1>10, BasicsCrash, DiskCrash
<1>11. ASSUME NEW r \in Uploaders, add_file_to_source(r) PROVE Basics' /\ OnTheDisk'
  BY <1>11, BasicsAdd, DiskAdd
<1>12. ASSUME NEW r \in Uploaders, Fetch(r) PROVE Basics' /\ OnTheDisk'
  BY <1>12, BasicsFetch, DiskFetch
<1>13. ASSUME NEW r \in Uploaders, Save(r) PROVE Basics' /\ OnTheDisk'
  BY <1>13, BasicsSave, DiskSave
<1>14. ASSUME NEW r \in Uploaders, RecordUpload(r) PROVE Basics' /\ OnTheDisk'
  BY <1>14, BasicsRecordUpload, DiskRecordUpload
<1>15. ASSUME NEW r \in Uploaders, delete_source_file(r) PROVE Basics' /\ OnTheDisk'
  BY <1>15, BasicsDelete, DiskDelete
<1>16. ASSUME NEW r \in Uploaders, RemoveUpload(r) PROVE Basics' /\ OnTheDisk'
  BY <1>16, BasicsRemoveUpload, DiskRemoveUpload
<1>17. ASSUME NEW r \in Uploaders, DropUpload(r) PROVE Basics' /\ OnTheDisk'
  BY <1>17, BasicsDropUpload, DiskDropUpload
<1>18. ASSUME NEW r \in Uploaders, CrashRequest(r) PROVE Basics' /\ OnTheDisk'
  BY <1>18, BasicsCrashRequest, DiskCrashRequest
<1>19. CASE UNCHANGED filesVars
  <2>1. Basics'
    BY <1>19 DEF filesVars, histories, bounds, Basics, Types, UniquePaths, There, PathOf,
       TaskDocs, TaskDoc, UploadDocs, UploadDoc
  <2>2. OnTheDisk'
    BY <1>19 DEF filesVars, histories, bounds, OnTheDisk, SavingOf, DroppingOf, OnDiskOf, AloneOf,
       HasDocAt, ClaimOf, Claimed, Sound, Removing, There, PathOf, UrlOf, Downloading
  <2> QED  BY <2>1, <2>2
<1> QED
  BY <1>1, <1>2, <1>3, <1>4, <1>5, <1>6, <1>7, <1>8, <1>9, <1>10, <1>11, <1>12, <1>13, <1>14,
     <1>15, <1>16, <1>17, <1>18, <1>19 DEF FilesNext

(***************************************************************************)
(* A task knows the document it works on, an upload writes only to its own *)
(* document's path, nothing comes to a path that is being dropped, and two *)
(* downloads that are not mixed are not at one download path, whatever     *)
(* sources, requests and faults there are (manifest.py, sshfs_file.py).    *)
(***************************************************************************)
THEOREM FilesAreKept == FilesSpec => []FilesInv
<1>1. FilesInit => FilesInv  BY FilesInitially
<1>2. FilesInv /\ [FilesNext]_filesVars => FilesInv'  BY FilesNextKeeps
<1> QED  BY <1>1, <1>2, PTL DEF FilesSpec

(***************************************************************************)
(* The state of files has its type, a path has at most one document        *)
(* (rel_path_unique_index), and a task at work has something to work on.   *)
(***************************************************************************)
THEOREM FilesTypes == FilesSpec => []FilesTypeOK
<1>1. FilesInv => FilesTypeOK
  <2> SUFFICES ASSUME Basics PROVE FilesTypeOK
    BY DEF FilesInv
  <2>1. Types /\ UniquePaths  BY DEF Basics
  <2>2. ASSUME NEW d \in Ids, NEW e \in Ids, There(d), PathOf(d) = PathOf(e) PROVE d = e
    <3>1. There(e)  BY <2>1, <2>2, Documents
    <3> QED  BY <2>1, <2>2, <3>1 DEF UniquePaths
  <2>3. ASSUME NEW b \in Boxes, task[b].at # "idle"
        PROVE  task[b].doc # 0 \/ task[b].want # NoFile
    <3>1. TaskDoc(b) /\ task[b].at \in TaskSteps  BY <2>1, TaskFields DEF Basics, TaskDocs
    <3>2. 0 \notin Ids  BY FilesAssumption DEF Ids
    <3>3. task[b].at = "create" \/ task[b].at \in OnDoc  BY <2>3, <3>1 DEF TaskSteps, OnDoc
    <3> QED  BY <3>1, <3>2, <3>3, Kinds DEF TaskDoc
  <2>4. DOMAIN doc = 1..MaxFiles  BY <2>1 DEF Types, Ids
  <2>5. \A d, e \in DOMAIN doc : There(d) /\ doc[d].file.path = doc[e].file.path => d = e
    BY <2>2, <2>4 DEF Ids, PathOf
  <2>6. mixed \cup cut \subseteq DOMAIN doc  BY <2>1, <2>4 DEF Types, Ids
  <2> QED  BY <2>1, <2>3, <2>4, <2>5, <2>6 DEF Types, FilesTypeOK
<1> QED  BY <1>1, FilesAreKept, PTL

(***************************************************************************)
(* A document that is recorded as synced has its file on the disk, whole   *)
(* and with the contents of its checksum, and whatever is on the disk has  *)
(* a document, but for downloads of one URL that met, files deleted while  *)
(* they were uploaded, and removals that stopped half way.                 *)
(***************************************************************************)
THEOREM SyncedFilesAreThere == FilesSpec => []FilesMatchDocuments
<1>1. FilesInv => FilesMatchDocuments
  <2> SUFFICES ASSUME Basics, OnTheDisk, NEW p \in Paths \ overtaken
               PROVE  LET here == {d \in DOMAIN doc : doc[d].file.path = p}
                      IN  /\ disk[p] # Absent => here # {}
                          /\ \A d \in here : doc[d].synced /\ ~Removing(d) =>
                                 d \in mixed \cup cut \/ disk[p] = Whole(doc[d].file.sum)
    BY DEF FilesInv, FilesMatchDocuments
  <2>1. DOMAIN doc = Ids  BY DEF Basics, Types
  <2>2. disk[p] # Absent => \E d \in Ids : doc[d].file.path = p
    BY DEF OnTheDisk, HasDocAt, PathOf
  <2>3. ASSUME NEW d \in Ids, doc[d].file.path = p, doc[d].synced, ~Removing(d)
        PROVE  d \in mixed \cup cut \/ disk[p] = Whole(doc[d].file.sum)
    <3>1. There(d)  BY <2>3, Documents DEF Basics, PathOf
    <3>2. Sound(d)  BY <2>3, <3>1 DEF OnTheDisk, ClaimOf, Claimed
    <3> QED  BY <2>3, <3>2 DEF Sound, PathOf
  <2> QED  BY <2>1, <2>2, <2>3
<1> QED  BY <1>1, FilesAreKept, PTL
=============================================================================

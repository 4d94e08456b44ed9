----------------------------- MODULE SshfsFiles -----------------------------
(***************************************************************************)
(* Files that masters read over SSHFS: a source's manifest names files and *)
(* where to download them, and users upload others.  A file has a document *)
(* and a place on the disk, which are written one after the other.         *)
(* _get_download_path makes the path a file is downloaded to from its URL  *)
(* alone; from there it is moved to its place.  One task at a time works   *)
(* on a source (Exclusive in Sources), and users' requests do not wait for *)
(* it.  A manifest names at most one file here; those of mounted sources   *)
(* are not downloaded, and unpacking is a way to move.                     *)
(***************************************************************************)
EXTENDS Naturals, FiniteSets

CONSTANTS
    Boxes,           \* sources
    Uploaders,       \* requests of users about files
    Paths, Urls,
    Versions,        \* of contents that URLs serve; a checksum stands for one
    Upload,          \* of what users upload
    SameFilesystem,  \* whether a move from sshfs_tmp_dir renames, or copies
    MaxFiles,        \* bound: documents at a time
    MaxUploads,      \* bound: requests that begin
    MaxChanges,      \* bound: changes of manifests and of what URLs serve
    MaxFaults        \* bound: failures, and processes that die

VARIABLES
    manifest,  \* source -> the file its manifest names
    net,       \* URL -> the version it serves
    doc,       \* the documents of files
    disk,      \* path -> what is there under sshfs_dir
    tmp,       \* URL -> what is at its download path
    task,      \* source -> what its task does
    upload,    \* request -> what it does
    mixed,     \* history: documents whose download met another of the same URL
    cut,       \* history: documents that outlived the removal of their file
    overtaken, \* history: paths of files deleted while they were uploaded
    uploads, changes, faults

filesVars == <<manifest, net, doc, disk, tmp, task, upload, mixed, cut, overtaken,
               uploads, changes, faults>>
histories == <<mixed, cut, overtaken>>
bounds == <<uploads, changes, faults>>

NoBox == "nobody"
\* NoBox is no source, and what a task has open is no path unless it says so.
ASSUME FilesAssumption ==
    /\ {"none", "tmp", "lost"} \cap Paths = {} /\ NoBox \notin Boxes
    /\ {MaxFiles, MaxUploads, MaxChanges, MaxFaults} \subseteq Nat
NoFile == [path |-> "none", url |-> "none", sum |-> 0]
Entry == [path : Paths, url : Urls, sum : Versions]
\* What was written to a file since it was opened to write, and by whom if not to the end.
Contents == [vers : SUBSET (Versions \cup {Upload}), by : Boxes \cup {NoBox}]
Absent == [vers |-> {}, by |-> NoBox]
Whole(v) == [vers |-> {v}, by |-> NoBox]
Idle == [at |-> "idle", doc |-> 0, want |-> NoFile, ver |-> 0, fd |-> "none"]
NoRequest == [at |-> "idle", doc |-> 0, file |-> NoFile]
Gone == [kind |-> "gone", box |-> NoBox, file |-> NoFile, synced |-> FALSE]
There(d) == doc[d] # Gone

\* The state has its type, and a path one document (rel_path_unique_index).
FilesTypeOK ==
    /\ manifest \in [Boxes -> Entry \cup {NoFile}] /\ net \in [Urls -> Versions]
    /\ DOMAIN doc = 1..MaxFiles
    /\ \A d, e \in DOMAIN doc : There(d) /\ doc[d].file.path = doc[e].file.path => d = e
    /\ disk \in [Paths -> Contents] /\ tmp \in [Urls -> Contents]
    /\ \A b \in Boxes : task[b].at # "idle" => task[b].doc # 0 \/ task[b].want # NoFile
    /\ mixed \cup cut \subseteq DOMAIN doc /\ overtaken \subseteq Paths
    /\ uploads \in 0..MaxUploads /\ changes \in 0..MaxChanges /\ faults \in 0..MaxFaults

FilesInit ==
    /\ manifest = [b \in Boxes |-> NoFile]
    /\ \E v \in Versions : net = [u \in Urls |-> v]
    /\ doc = [d \in 1..MaxFiles |-> Gone]
    /\ disk = [p \in Paths |-> Absent] /\ tmp = [u \in Urls |-> Absent]
    /\ task = [b \in Boxes |-> Idle] /\ upload = [r \in Uploaders |-> NoRequest]
    /\ mixed = {} /\ cut = {} /\ overtaken = {} /\ uploads = 0 /\ changes = 0 /\ faults = 0

\* The repository of a source, and what a URL serves.
NewManifest(b) ==
    /\ changes < MaxChanges /\ changes' = changes + 1
    /\ \E m \in Entry \cup {NoFile} : m # manifest[b] /\ manifest' = [manifest EXCEPT ![b] = m]
    /\ UNCHANGED <<net, doc, disk, tmp, task, upload, histories, uploads, faults>>
NewVersion(u) ==
    /\ changes < MaxChanges /\ changes' = changes + 1
    /\ \E v \in Versions \ {net[u]} : net' = [net EXCEPT ![u] = v]
    /\ UNCHANGED <<manifest, doc, disk, tmp, task, upload, histories, uploads, faults>>
-----------------------------------------------------------------------------
\* Ids of documents: one that a request remembers is not another document's.
Free == {d \in DOMAIN doc : ~There(d) /\ \A r \in Uploaders : upload[r].doc # d}
\* A mutant: the index is not there.
MayCreate_AnyPath(path) == Free # {}
MayCreate(path) == Free # {} /\ \A d \in DOMAIN doc : doc[d].file.path # path
New == CHOOSE d \in Free : TRUE
Create(kind, b, file) ==
    doc' = [doc EXCEPT ![New] = [kind |-> kind, box |-> b, file |-> file, synced |-> FALSE]]
SetSynced(d, yes) == doc' = [doc EXCEPT ![d].synced = yes]

\* SshfsSync.remove and the deletion of the document: a task that writes to the file goes on.
RemoveFile(d) == disk' = [disk EXCEPT ![doc[d].file.path] = Absent]
Unlinked(p) == [b \in Boxes |-> IF task[b].fd = p THEN [task[b] EXCEPT !.fd = "lost"] ELSE task[b]]
DropDoc(d) ==
    /\ doc' = [doc EXCEPT ![d] = Gone]
    /\ mixed' = mixed \ {d} /\ cut' = cut \ {d}

\* The task of a source goes on, with what it remembers, or ends; something fails.
Go(b, at) == task' = [task EXCEPT ![b].at = at]
Ends(b) == task' = [task EXCEPT ![b] = Idle]
Fails == faults < MaxFaults /\ faults' = faults + 1

\* _save_sshfs_files_from_manifest: a document that differs is deleted ...
FilesOf(b) == {d \in DOMAIN doc : doc[d].kind = "manifest" /\ doc[d].box = b}
_save_sshfs_files_from_manifest(b) ==
    /\ task[b].at = "idle"
    /\ \/ \E d \in FilesOf(b) :
              /\ doc[d].file # manifest[b]
              /\ task' = [task EXCEPT ![b] =
                    [Idle EXCEPT !.at = "remove", !.doc = d, !.want = manifest[b]]]
       \/ /\ FilesOf(b) = {} /\ manifest[b] # NoFile
          /\ task' = [task EXCEPT ![b] = [Idle EXCEPT !.at = "create", !.want = manifest[b]]]
    /\ UNCHANGED <<manifest, net, doc, disk, tmp, upload, histories, bounds>>
RemoveOutdated(b) ==
    /\ task[b].at = "remove"
    /\ \/ /\ RemoveFile(task[b].doc)
          /\ task' = [Unlinked(doc[task[b].doc].file.path) EXCEPT ![b].at = "drop"]
          /\ UNCHANGED faults
       \/ Fails /\ Ends(b) /\ UNCHANGED disk
    /\ UNCHANGED <<manifest, net, doc, tmp, upload, histories, uploads, changes>>
DropOutdated(b) ==
    /\ task[b].at = "drop" /\ DropDoc(task[b].doc)
    /\ IF task[b].want = NoFile THEN Ends(b) ELSE Go(b, "create")
    /\ UNCHANGED <<manifest, net, disk, tmp, upload, overtaken, bounds>>
\* ... and made anew, unless another source or a user has a file of the path.
CreateFile(b) ==
    /\ task[b].at = "create" /\ Ends(b)
    /\ IF MayCreate(task[b].want.path) THEN Create("manifest", b, task[b].want) ELSE UNCHANGED doc
    /\ UNCHANGED <<manifest, net, disk, tmp, upload, histories, bounds>>
-----------------------------------------------------------------------------
UrlOf(b) == doc[task[b].doc].file.url
Downloading(u) == {b \in Boxes : task[b].at \in {"write", "move"} /\ UrlOf(b) = u}

\* _sync_manifest_files_to_sshfs: the URL answers and its download path is opened "wb" ...
Download(b) ==
    /\ task[b].at = "idle"
    /\ \E d \in {d \in FilesOf(b) : ~doc[d].synced} :
           LET u == doc[d].file.url IN
           \/ /\ task' = [task EXCEPT ![b] =
                     [Idle EXCEPT !.at = "write", !.doc = d, !.ver = net[u], !.fd = "tmp"]]
              /\ tmp' = [tmp EXCEPT ![u] = [vers |-> {}, by |-> b]]
              /\ mixed' = IF Downloading(u) = {} THEN mixed \ {d}
                          ELSE mixed \cup {d} \cup {task[c].doc : c \in Downloading(u)}
              /\ UNCHANGED faults
           \/ /\ Fails /\ task' = [task EXCEPT ![b] = [Idle EXCEPT !.at = "error", !.doc = d]]
              /\ UNCHANGED <<tmp, mixed>>
    /\ UNCHANGED <<manifest, net, doc, disk, upload, cut, overtaken, uploads, changes>>
\* ... and written to the end, or not: what is on the disk may have been moved meanwhile.
Writes(b, finished) ==
    LET Add(c) == [vers |-> c.vers \cup {task[b].ver},
                   by |-> IF finished /\ c.by = b THEN NoBox ELSE c.by]
    IN  /\ tmp' = IF task[b].fd = "tmp" THEN [tmp EXCEPT ![UrlOf(b)] = Add(@)] ELSE tmp
        /\ disk' = IF task[b].fd \in Paths THEN [disk EXCEPT ![task[b].fd] = Add(@)] ELSE disk
WriteDownload(b) ==
    /\ task[b].at = "write"
    /\ \/ Writes(b, TRUE) /\ Go(b, "move") /\ UNCHANGED faults
       \/ Writes(b, FALSE) /\ Fails /\ Go(b, "error")
    /\ UNCHANGED <<manifest, net, doc, upload, histories, uploads, changes>>

\* Whoever writes to the download of a URL goes on in its new place, or in none.
Moved(b, at, place) ==
    LET file == doc[task[b].doc].file
        Fd(c) == IF c \in Downloading(file.url) /\ task[c].fd = "tmp" THEN place
                 ELSE IF at = "record" /\ task[c].fd = file.path THEN "lost"
                 ELSE task[c].fd
    IN  task' = [c \in Boxes |-> IF c = b THEN [task[b] EXCEPT !.at = at, !.fd = "none"]
                                 ELSE [task[c] EXCEPT !.fd = Fd(c)]]
\* A mutant: the checksum is not compared.
Move_Unchecked(b) ==
    LET file == doc[task[b].doc].file IN
    /\ task[b].at = "move"
    /\ IF tmp[file.url] # Absent
       THEN /\ disk' = [disk EXCEPT ![file.path] = tmp[file.url]]
            /\ Moved(b, "record", IF SameFilesystem THEN file.path ELSE "lost")
       ELSE UNCHANGED disk /\ Moved(b, "error", "lost")
    /\ tmp' = [tmp EXCEPT ![file.url] = Absent]
    /\ UNCHANGED <<manifest, net, doc, upload, histories, bounds>>

\* The checksum is of what this task read; a file that another one moved or removed is an error.
Move(b) ==
    LET file == doc[task[b].doc].file IN
    /\ task[b].at = "move"
    /\ IF task[b].ver = file.sum /\ tmp[file.url] # Absent
       THEN /\ disk' = [disk EXCEPT ![file.path] = tmp[file.url]]
            /\ Moved(b, "record", IF SameFilesystem THEN file.path ELSE "lost")
       ELSE UNCHANGED disk /\ Moved(b, "error", "lost")
    /\ tmp' = [tmp EXCEPT ![file.url] = Absent]
    /\ UNCHANGED <<manifest, net, doc, upload, histories, bounds>>
Record(b) ==
    /\ task[b].at \in {"record", "error"}
    /\ SetSynced(task[b].doc, task[b].at = "record") /\ Ends(b)
    /\ UNCHANGED <<manifest, net, disk, tmp, upload, histories, bounds>>
-----------------------------------------------------------------------------
\* A request goes on or ends.
Goes(r, at) == upload' = [upload EXCEPT ![r].at = at]
Answers(r) == upload' = [upload EXCEPT ![r] = NoRequest]

\* add_file_to_source: the document is made, then found by add_user_file, ...
add_file_to_source(r) ==
    /\ upload[r].at = "idle" /\ uploads < MaxUploads /\ uploads' = uploads + 1
    /\ \E p \in Paths : LET file == [path |-> p, url |-> "none", sum |-> Upload] IN
           /\ MayCreate(p) /\ Create("user", NoBox, file)
           /\ upload' = [upload EXCEPT ![r] = [at |-> "fetch", doc |-> New, file |-> file]]
    /\ UNCHANGED <<manifest, net, disk, tmp, task, histories, changes, faults>>
Fetch(r) ==
    /\ upload[r].at = "fetch"
    /\ IF There(upload[r].doc) THEN Goes(r, "save") ELSE Answers(r)
    /\ UNCHANGED <<manifest, net, doc, disk, tmp, task, histories, bounds>>
\* ... the upload is moved to its place, ...
Save(r) ==
    LET file == upload[r].file IN
    /\ upload[r].at = "save"
    /\ \/ /\ disk' = [disk EXCEPT ![file.path] = Whole(file.sum)]
          /\ task' = Unlinked(file.path) /\ Goes(r, "record") /\ UNCHANGED faults
       \/ Fails /\ Goes(r, "remove") /\ UNCHANGED <<disk, task>>
    /\ UNCHANGED <<manifest, net, doc, tmp, histories, uploads, changes>>
\* ... and the document says so, if it is still there.
RecordUpload(r) ==
    /\ upload[r].at = "record" /\ Answers(r)
    /\ IF There(upload[r].doc) THEN SetSynced(upload[r].doc, TRUE) ELSE UNCHANGED doc
    /\ UNCHANGED <<manifest, net, disk, tmp, task, histories, bounds>>

\* delete_source_file; a failed upload is deleted in the same two steps.
delete_source_file(r) ==
    /\ upload[r].at = "idle" /\ uploads < MaxUploads /\ uploads' = uploads + 1
    /\ \E d \in DOMAIN doc :
           /\ doc[d].kind = "user"
           /\ upload' = [upload EXCEPT ![r] = [at |-> "remove", doc |-> d, file |-> doc[d].file]]
    /\ UNCHANGED <<manifest, net, doc, disk, tmp, task, histories, changes, faults>>
RemoveUpload(r) ==
    /\ upload[r].at = "remove"
    /\ \/ /\ There(upload[r].doc) /\ RemoveFile(upload[r].doc)
          /\ task' = Unlinked(upload[r].file.path) /\ Goes(r, "drop") /\ UNCHANGED faults
       \/ ~There(upload[r].doc) /\ Answers(r) /\ UNCHANGED <<disk, task, faults>>
       \/ There(upload[r].doc) /\ Fails /\ Answers(r) /\ UNCHANGED <<disk, task>>
    /\ UNCHANGED <<manifest, net, doc, tmp, histories, uploads, changes>>
DropUpload(r) ==
    LET d == upload[r].doc
        p == upload[r].file.path
    IN  /\ upload[r].at = "drop" /\ Answers(r) /\ DropDoc(d)
        /\ overtaken' = IF There(d) /\ \/ disk[p] # Absent
                                       \/ \E q \in Uploaders : upload[q].doc = d /\ upload[q].at = "save"
                        THEN overtaken \cup {p} ELSE overtaken
        /\ UNCHANGED <<manifest, net, disk, tmp, task, bounds>>

\* A worker, or the process of a request, dies; a removal that fails at the second
\* step has the same result.
Crash(b) ==
    /\ task[b].at # "idle" /\ Fails /\ Ends(b)
    /\ cut' = IF task[b].at = "drop" THEN cut \cup {task[b].doc} ELSE cut
    /\ IF task[b].at = "write" THEN Writes(b, FALSE) ELSE UNCHANGED <<tmp, disk>>
    /\ UNCHANGED <<manifest, net, doc, upload, mixed, overtaken, uploads, changes>>
CrashRequest(r) ==
    /\ upload[r].at # "idle" /\ Fails /\ Answers(r)
    /\ cut' = IF upload[r].at = "drop" /\ There(upload[r].doc)
              THEN cut \cup {upload[r].doc} ELSE cut
    /\ UNCHANGED <<manifest, net, doc, disk, tmp, task, mixed, overtaken, uploads, changes>>

FilesNext ==
    \/ \E u \in Urls : NewVersion(u)
    \/ \E b \in Boxes :
           \/ NewManifest(b) \/ _save_sshfs_files_from_manifest(b) \/ RemoveOutdated(b) \/ DropOutdated(b)
           \/ CreateFile(b) \/ Download(b) \/ WriteDownload(b) \/ Move(b) \/ Record(b) \/ Crash(b)
    \/ \E r \in Uploaders :
           \/ add_file_to_source(r) \/ Fetch(r) \/ Save(r) \/ RecordUpload(r)
           \/ delete_source_file(r) \/ RemoveUpload(r) \/ DropUpload(r) \/ CrashRequest(r)
FilesSpec == FilesInit /\ [][FilesNext]_filesVars
-----------------------------------------------------------------------------
Removing(d) ==
    \/ \E b \in Boxes : task[b].at = "drop" /\ task[b].doc = d
    \/ \E r \in Uploaders : upload[r].at = "drop" /\ upload[r].doc = d

(***************************************************************************)
(* A document that is recorded as synced has its file on the disk, whole   *)
(* and with the contents of its checksum, and whatever is on the disk has  *)
(* a document, whatever failed or died on the way; but for downloads of    *)
(* one URL that met, files deleted while they were uploaded, and documents *)
(* whose removal stopped half way.                                         *)
(***************************************************************************)
FilesMatchDocuments ==
    \A p \in Paths \ overtaken :
        LET here == {d \in DOMAIN doc : doc[d].file.path = p}
        IN  /\ disk[p] # Absent => here # {}
            /\ \A d \in here : doc[d].synced /\ ~Removing(d) =>
                   d \in mixed \cup cut \/ disk[p] = Whole(doc[d].file.sum)
=============================================================================

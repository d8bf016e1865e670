----------------------------- MODULE ZipUpload -----------------------------
(***************************************************************************)
(* Uploading an archive (zip-uploader.go): the handler of "/zipfile" in    *)
(* the uploader's grain sends a stream of pipelined calls to the directory *)
(* that the user let it have, which is served by another grain (local.go). *)
(* It waits for no answer but those to the writes of a file's contents.    *)
(*                                                                         *)
(* The RPC layer is external: calls are handled in the order in which they *)
(* were made, until the connection is lost or the user gives up; a call on *)
(* the result of a call that failed fails too.  (Calls on different nodes  *)
(* might overtake one another, but all that an entry adds to the tree it   *)
(* adds through calls on the one chain of nodes along its name.)  Letting  *)
(* go of an answer does not undo the call.  The lock of utils.go keeps     *)
(* uploads apart.                                                          *)
(***************************************************************************)
EXTENDS Paths

CONSTANTS
    Root,        \* the path of the directory that was claimed
    InitTrees,   \* the trees it may be found in
    Archives,    \* the archives a user may upload
    Broken,      \* the result of a call that failed
    NoReply,     \* no answer to a write is there yet
    MaxUploads   \* bound: uploads

VARIABLES
    tree,        \* at the server: path -> [dir, w, data]
    dir, file,   \* at the server: the results of the last walk and create
    queue,       \* calls under way to the server
    reply,       \* the answer to the last write
    conn,        \* the connection to the server: "up" or "lost"
    archive,     \* at the uploader: the archive ...
    i,           \* ... the entry it has come to ...
    sent,        \* ... and how many of the entry's chunks it has sent
    pc,          \* "idle", "entry", "copy", "wait"
    status,      \* the answer to the user: "none", "303", "400", "500"
    old,         \* history: the tree when the upload began
    uploads      \* how many uploads there were

server == <<tree, dir, file>>
client == <<archive, i, sent, pc, status, old, uploads>>
vars == <<server, queue, reply, conn, client>>

(* An entry of an archive: f.Name, split; whether it is a directory; how   *)
(* many times io.Copy writes; and what is wrong with it.                   *)
Entry == [name : Seq(Component), isDir : BOOLEAN, chunks : Nat,
          fault : {"none", "open", "read"}]

Call == [method : {"mkdir", "walk", "create"}, on : {"root", "dir"},
         name : Seq(Component)]
        \cup [method : {"write"}, chunk : Nat \X Nat]

ASSUME ArchiveAssumption ==
    \A a \in Archives :
        a \in Seq(Entry) /\ \A j \in 1..Len(a) : a[j].name # <<>>

(* A node at the server.  A chunk of data is told by where it comes from.  *)
Inode == [dir : BOOLEAN, w : BOOLEAN, data : Seq(Nat \X Nat)]

ASSUME ServerAssumption ==
    /\ Root \in Path
    /\ \A t \in InitTrees : DOMAIN t \subseteq Path /\ t \in [DOMAIN t -> Inode]

ASSUME ResultAssumption ==
    Broken \notin Path /\ NoReply \notin {"ok", "error"} /\ MaxUploads \in Nat

Init ==
    /\ tree \in InitTrees /\ dir = Broken /\ file = Broken
    /\ queue = <<>> /\ reply = NoReply /\ conn = "up"
    /\ archive = <<>> /\ i = 1 /\ sent = 0 /\ pc = "idle" /\ status = "none"
    /\ old = tree /\ uploads = 0
-----------------------------------------------------------------------------
(***************************************************************************)
(* The uploader.                                                           *)
(***************************************************************************)
Answer(s) == status' = s /\ pc' = "idle"

(***************************************************************************)
(* POST /zipfile.  After a lost connection the directory is claimed anew.  *)
(* What the last upload has sent is handled before what this one sends, so *)
(* nothing is lost by letting it begin when that is done.                  *)
(***************************************************************************)
Upload ==
    /\ pc = "idle" /\ uploads < MaxUploads /\ queue = <<>>
    /\ archive' \in Archives
    /\ i' = 1 /\ sent' = 0 /\ pc' = "entry" /\ status' = "none"
    /\ old' = tree /\ uploads' = uploads + 1
    /\ conn' = "up" /\ reply' = NoReply
    /\ UNCHANGED <<server, queue>>

SkipDir ==
    /\ pc = "entry" /\ i <= Len(archive) /\ archive[i].isDir
    /\ i' = i + 1
    /\ UNCHANGED <<server, queue, reply, conn, archive, sent, pc, status, old, uploads>>

(* mkdir and walk for each of parts[:len(parts)-1] *)
ParentCalls(name) ==
    [k \in 1..2 * (Len(name) - 1) |->
        [method |-> IF k % 2 = 1 THEN "mkdir" ELSE "walk",
         on     |-> IF k <= 2 THEN "root" ELSE "dir",
         name   |-> <<name[(k + 1) \div 2]>>]]

(* p.SetName(f.Name): the whole name. *)
CreateCall(name) ==
    [method |-> "create", on |-> IF Len(name) > 1 THEN "dir" ELSE "root", name |-> name]

Send(calls) == queue' = IF conn = "up" THEN queue \o calls ELSE queue

StartEntry ==
    /\ pc = "entry" /\ i <= Len(archive) /\ ~archive[i].isDir
    /\ archive[i].fault # "open"
    /\ Send(Append(ParentCalls(archive[i].name), CreateCall(archive[i].name)))
    /\ pc' = "copy" /\ sent' = 0
    /\ UNCHANGED <<server, reply, conn, archive, i, status, old, uploads>>

(* f.Open fails after the directories were asked for. *)
OpenFails ==
    /\ pc = "entry" /\ i <= Len(archive) /\ ~archive[i].isDir
    /\ archive[i].fault = "open"
    /\ Send(ParentCalls(archive[i].name))
    /\ Answer("400")
    /\ UNCHANGED <<server, reply, conn, archive, i, sent, old, uploads>>

(* io.Copy: a write, and waiting for its answer ... *)
CopyChunk ==
    /\ pc = "copy" /\ sent < archive[i].chunks
    /\ Send(<<[method |-> "write", chunk |-> <<i, sent + 1>>]>>)
    /\ sent' = sent + 1 /\ pc' = "wait" /\ reply' = NoReply
    /\ UNCHANGED <<server, conn, archive, i, status, old, uploads>>

(* Wrong version, for the mutation runs: looks at no answer. *)
CopyGoesOnBlindly ==
    /\ pc = "wait"
    /\ reply # NoReply \/ conn = "lost"
    /\ pc' = "copy"
    /\ UNCHANGED <<server, queue, reply, conn, archive, i, sent, status, old, uploads>>

CopyGoesOn ==
    /\ pc = "wait" /\ reply = "ok"
    /\ pc' = "copy"
    /\ UNCHANGED <<server, queue, reply, conn, archive, i, sent, status, old, uploads>>

(* ... which may be an error; or the entry turns out to be damaged. *)
CopyFails ==
    /\ \/ pc = "wait" /\ (reply = "error" \/ conn = "lost")
       \/ pc = "copy" /\ sent = archive[i].chunks /\ archive[i].fault = "read"
    /\ Answer("500")
    /\ UNCHANGED <<server, queue, reply, conn, archive, i, sent, old, uploads>>

EntryDone ==
    /\ pc = "copy" /\ sent = archive[i].chunks /\ archive[i].fault = "none"
    /\ i' = i + 1 /\ pc' = "entry"
    /\ UNCHANGED <<server, queue, reply, conn, archive, sent, status, old, uploads>>

Finish ==
    /\ pc = "entry" /\ i > Len(archive)
    /\ Answer("303")
    /\ UNCHANGED <<server, queue, reply, conn, archive, i, sent, old, uploads>>

uploader ==
    \/ SkipDir \/ StartEntry \/ OpenFails \/ CopyChunk \/ CopyGoesOn \/ CopyFails
    \/ EntryDone \/ Finish
-----------------------------------------------------------------------------
(***************************************************************************)
(* The server, as far as these calls go: what LocalNode says of Mkdir,     *)
(* Walk and Create, with the contents of files.                            *)
(***************************************************************************)
WritableTo(p) == \A q \in DOMAIN tree : IsPrefix(Root, q) /\ IsPrefix(q, p) => tree[q].w

Base(call) == IF call.on = "root" THEN Root ELSE dir

Target(call) == Join(Base(call), call.name)

IsDir(call) == Base(call) # Broken /\ tree[Base(call)].dir /\ validFileName(call.name)

MayAdd(call) ==
    IsDir(call) /\ WritableTo(Base(call)) /\ Target(call) \notin DOMAIN tree

WithNode(p, node) == [q \in DOMAIN tree \cup {p} |-> IF q = p THEN node ELSE tree[q]]

Mkdir(call) ==
    /\ call.method = "mkdir"
    /\ tree' = IF MayAdd(call)
               THEN WithNode(Target(call), [dir |-> TRUE, w |-> TRUE, data |-> <<>>])
               ELSE tree
    /\ UNCHANGED <<dir, file, reply>>

Walk(call) ==
    /\ call.method = "walk"
    /\ dir' = IF IsDir(call) /\ Target(call) \in DOMAIN tree THEN Target(call) ELSE Broken
    /\ UNCHANGED <<tree, file, reply>>

(* Wrong version, for the mutation runs: does not look at what is opened. *)
OpenOldAny(call) ==
    IsDir(call) /\ WritableTo(Base(call)) /\ Target(call) \in DOMAIN tree

(* A file that is there already is opened as it is. *)
OpenOld(call) ==
    /\ IsDir(call) /\ WritableTo(Base(call))
    /\ Target(call) \in DOMAIN tree /\ ~tree[Target(call)].dir /\ tree[Target(call)].w

(***************************************************************************)
(* Two wrong versions, for the mutation runs: one opens with O_TRUNC, the  *)
(* other leaves the last file open when there is no new one.               *)
(***************************************************************************)
CreateTruncates(call) ==
    /\ call.method = "create"
    /\ file' = IF MayAdd(call) \/ OpenOld(call) THEN Target(call) ELSE Broken
    /\ tree' = IF MayAdd(call) \/ OpenOld(call)
               THEN WithNode(Target(call), [dir |-> FALSE, w |-> TRUE, data |-> <<>>])
               ELSE tree
    /\ UNCHANGED <<dir, reply>>

CreateKeepsFile(call) ==
    /\ call.method = "create"
    /\ file' = IF MayAdd(call) \/ OpenOld(call) THEN Target(call) ELSE file
    /\ tree' = IF MayAdd(call)
               THEN WithNode(Target(call), [dir |-> FALSE, w |-> TRUE, data |-> <<>>])
               ELSE tree
    /\ UNCHANGED <<dir, reply>>

Create(call) ==
    /\ call.method = "create"
    /\ file' = IF MayAdd(call) \/ OpenOld(call) THEN Target(call) ELSE Broken
    /\ tree' = IF MayAdd(call)
               THEN WithNode(Target(call), [dir |-> FALSE, w |-> TRUE, data |-> <<>>])
               ELSE tree
    /\ UNCHANGED <<dir, reply>>

(* Wrong version, for the mutation runs: no answer on a broken capability. *)
WriteSilent(call) ==
    /\ call.method = "write"
    /\ IF file = Broken
       THEN UNCHANGED <<tree, reply>>
       ELSE tree' = [tree EXCEPT ![file].data = Append(@, call.chunk)] /\ reply' = "ok"
    /\ UNCHANGED <<dir, file>>

(* On the sink that file.Write gave: the data goes to the file's end. *)
Write(call) ==
    /\ call.method = "write"
    /\ IF file = Broken
       THEN reply' = "error" /\ UNCHANGED tree
       ELSE reply' = "ok" /\ tree' = [tree EXCEPT ![file].data = Append(@, call.chunk)]
    /\ UNCHANGED <<dir, file>>

Handle ==
    /\ queue # <<>>
    /\ queue' = Tail(queue)
    /\ LET call == Head(queue)
       IN  Mkdir(call) \/ Walk(call) \/ Create(call) \/ Write(call)
    /\ UNCHANGED <<conn, client>>

(* The connection breaks, or the user gives up: calls under way are lost. *)
Lose ==
    /\ conn = "up" /\ pc # "idle"
    /\ conn' = "lost" /\ queue' = <<>>
    /\ UNCHANGED <<server, reply, client>>

Next == Upload \/ uploader \/ Handle \/ Lose

Spec == Init /\ [][Next]_vars /\ WF_vars(uploader) /\ WF_vars(Handle)
-----------------------------------------------------------------------------
TypeOK ==
    /\ DOMAIN tree \subseteq Path
    /\ tree \in [DOMAIN tree -> Inode]
    /\ dir \in DOMAIN tree \cup {Broken}
    /\ file \in {p \in DOMAIN tree : ~tree[p].dir} \cup {Broken}
    /\ queue \in Seq(Call)
    /\ reply \in {NoReply, "ok", "error"} /\ conn \in {"up", "lost"}
    /\ archive \in Archives \cup {<<>>}
    /\ i \in 1..Len(archive) + 1 /\ sent \in Nat
    /\ pc \in {"idle", "entry", "copy", "wait"}
    /\ pc \in {"copy", "wait"} => i <= Len(archive) /\ sent <= archive[i].chunks
    /\ status \in {"none", "303", "400", "500"} /\ uploads \in 0..MaxUploads

(* The path that the name of an entry stands for. *)
Named(j) == Root \o archive[j].name

(* What the entries up to the n-th put into the file p, after what was in it. *)
Contents(p, n) ==
    (IF p \in DOMAIN old THEN old[p].data ELSE <<>>)
    \o FlattenSeq([j \in 1..n |->
           IF Named(j) = p /\ ~archive[j].isDir
           THEN [k \in 1..archive[j].chunks |-> <<j, k>>] ELSE <<>>])

(***************************************************************************)
(* When the user is sent back to the front page, every file of the archive *)
(* with something in it is where its name says, with all of its data after *)
(* what was there, although only the answers to writes were looked at.     *)
(***************************************************************************)
SuccessIsComplete ==
    status = "303" =>
        \A j \in 1..Len(archive) :
            ~archive[j].isDir /\ archive[j].chunks > 0 =>
                /\ Named(j) \in DOMAIN tree
                /\ tree[Named(j)].data = Contents(Named(j), Len(archive))

(***************************************************************************)
(* Whatever is in an archive and however an upload ends, nothing that was  *)
(* there is lost, and what appears is a file named by an entry that the    *)
(* upload has come to, or a directory on the way to one.  Nothing changes  *)
(* outside the claimed directory, nor what may not be written to.          *)
(***************************************************************************)
OnlyArchiveAdded ==
    /\ \A p \in DOMAIN old :
           /\ p \in DOMAIN tree
           /\ tree[p].dir = old[p].dir /\ tree[p].w = old[p].w
           /\ IsPrefix(old[p].data, tree[p].data)
    /\ \A p \in DOMAIN tree \ DOMAIN old : \E j \in 1..Len(archive) :
           /\ j <= i /\ ~archive[j].isDir
           /\ IF tree[p].dir THEN IsStrictPrefix(p, Named(j)) ELSE p = Named(j)
    /\ \A p \in DOMAIN tree :
           p \notin DOMAIN old \/ tree[p] # old[p] => IsPrefix(Root, p) /\ WritableTo(p)

(***************************************************************************)
(* Every byte that was added to a file belongs there, in the order of the  *)
(* archive: what is in a file is the beginning of what the entries of its  *)
(* name contain, also while the upload runs and after it has failed.       *)
(***************************************************************************)
DataInPlace ==
    \A p \in DOMAIN tree : IsPrefix(tree[p].data, Contents(p, Len(archive)))

(***************************************************************************)
(* An upload ends, whatever fails.                                         *)
(***************************************************************************)
UploadEnds == pc # "idle" ~> pc = "idle"

(***************************************************************************)
(* templates/zip-uploader-index.html:11: "This grain accepts zip files,    *)
(* unpacking them into a filesystem provided by another grain."  The code  *)
(* violates this for every file in a subdirectory, since it asks the       *)
(* subdirectory for a file with the whole name, slashes and all.           *)
(***************************************************************************)
UnpacksArchive ==
    pc = "idle" /\ conn = "up" /\ queue = <<>> =>
        \A j \in 1..Len(archive) : ~archive[j].isDir => Named(j) \in DOMAIN tree
=============================================================================

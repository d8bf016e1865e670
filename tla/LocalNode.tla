----------------------------- MODULE LocalNode -----------------------------
(***************************************************************************)
(* The capability server of package local (filesystem/local/local.go), as  *)
(* the "localfs" grain runs it (localfs-grain.go).                         *)
(*                                                                         *)
(* The operating system's directory tree is fs.  A capability is a Node    *)
(* struct held by the grain on behalf of a client: it records the path of  *)
(* a node and what the node looked like when the capability was made.      *)
(* Clients obtain capabilities from one another (FulfillRequest, Walk,     *)
(* Create), save them as object ids, and get them back after the grain was *)
(* restarted.  The contents of files are abstracted.                       *)
(***************************************************************************)
EXTENDS Paths, FiniteSets

CONSTANTS
    Root,        \* the path of the exported directory, "/var/shared-dir"
    InitTrees,   \* the trees the grain may find when it is first started
    Sanitize,    \* what encoding/json does to a component of a path
    Calls,       \* the slots of SetExec calls running concurrently
    Idle,        \* a slot in which no call is running
    MaxNodes,    \* bound: nodes in the tree
    MaxCaps,     \* bound: capabilities held by clients at a time
    MaxSaved     \* bound: object ids kept by the host at a time

VARIABLES
    fs,          \* the tree: a function from the paths that exist to inodes
    up,          \* is the grain's process running?
    caps,        \* the live capabilities
    saved,       \* the object ids handed out by Save and not dropped
    chmod        \* the SetExec calls between their stat and their chmod

vars == <<fs, up, caps, saved, chmod>>

(***************************************************************************)
(* w and x are the owner's write bit (0200) and execute bit (0100); for a  *)
(* directory x is the permission to search it.                             *)
(***************************************************************************)
Inode   == [dir : BOOLEAN, w : BOOLEAN, x : BOOLEAN]
Node    == [path : Path, isDir : BOOLEAN, writable : BOOLEAN, executable : BOOLEAN]
Pending == [path : Path, mode : [w : BOOLEAN, x : BOOLEAN]]

Closed(t) ==
    \A p \in DOMAIN t : p # <<>> => Front(p) \in DOMAIN t /\ t[Front(p)].dir

ASSUME RootAssumption == Root \in Path /\ Root # <<>>

ASSUME SanitizeAssumption ==
    /\ Sanitize \in [Segment -> Segment]
    /\ \A i \in 1..Len(Root) : Sanitize[Root[i]] = Root[i]

ASSUME IdleAssumption == Idle \notin Pending

(* The grain's private /var is there; the exported directory may not be. *)
ASSUME InitTreesAssumption ==
    \A t \in InitTrees :
        /\ DOMAIN t \subseteq Path
        /\ t \in [DOMAIN t -> Inode]
        /\ Closed(t)
        /\ Front(Root) \in DOMAIN t
        /\ \A p \in DOMAIN t : IsStrictPrefix(p, Root) => t[p].dir /\ t[p].x
        /\ Root \in DOMAIN t => t[Root].dir
-----------------------------------------------------------------------------
(***************************************************************************)
(* The system calls the code makes, by a process that owns every node but  *)
(* is not privileged.                                                      *)
(***************************************************************************)
Searchable(p) ==
    /\ p # <<>> => Front(p) \in DOMAIN fs
    /\ \A q \in DOMAIN fs : IsStrictPrefix(q, p) => fs[q].dir /\ fs[q].x

OsStat(p) == p \in DOMAIN fs /\ Searchable(p)

OsOpenRW(p) == OsStat(p) /\ ~fs[p].dir /\ fs[p].w

OsMayAdd(p) ==
    /\ p \notin DOMAIN fs /\ p # <<>>
    /\ Searchable(p)
    /\ fs[Front(p)].w

WithNode(p, inode) ==
    [q \in DOMAIN fs \cup {p} |-> IF q = p THEN inode ELSE fs[q]]

HaveRoom == Cardinality(DOMAIN fs) < MaxNodes
-----------------------------------------------------------------------------
(***************************************************************************)
(* Which methods a capability answers: the tables generated from           *)
(* filesystem.capnp.  Any other call is refused as unimplemented.          *)
(***************************************************************************)
Directory_Methods   == {"list", "walk", "stat"}
RwDirectory_Methods == {"create", "mkdir", "delete"} \cup {"list", "walk", "stat"}
File_Methods        == {"read", "stat"}
RwFile_Methods      == {"write", "truncate", "setExec"} \cup {"read", "stat"}

(* Wrong version, for the mutation runs: every directory is an RwDirectory. *)
MakeClientRwDir(n) ==
    {"save"} \cup (IF n.isDir THEN RwDirectory_Methods
                   ELSE IF n.writable THEN RwFile_Methods ELSE File_Methods)

MakeClient(n) ==
    {"save"} \cup (IF n.isDir
                   THEN IF n.writable THEN RwDirectory_Methods ELSE Directory_Methods
                   ELSE IF n.writable THEN RwFile_Methods ELSE File_Methods)

Offers(n, method) == up /\ n \in caps /\ method \in MakeClient(n)

Hand(n) ==
    /\ Cardinality(caps \cup {n}) <= MaxCaps
    /\ caps' = caps \cup {n}

NewNode(p) ==
    [path |-> p, isDir |-> fs[p].dir, writable |-> fs[p].w, executable |-> fs[p].x]

(* What Stat answers: the bits the capability remembers. *)
StatInfo(n) ==
    [dir |-> n.isDir, writable |-> n.writable, executable |-> n.executable]
-----------------------------------------------------------------------------
Init ==
    /\ fs \in InitTrees
    /\ up = FALSE
    /\ caps = {}
    /\ saved = {}
    /\ chmod = [k \in Calls |-> Idle]

(* Wrong version, for the mutation runs: no os.MkdirAll. *)
StartNoMkdir == ~up /\ up' = TRUE /\ UNCHANGED <<fs, caps, saved, chmod>>

(* initLocalFS: os.MkdirAll, then the grain serves requests. *)
Start ==
    /\ ~up
    /\ up' = TRUE
    /\ fs' = IF Root \in DOMAIN fs
             THEN fs
             ELSE WithNode(Root, [dir |-> TRUE, w |-> TRUE, x |-> TRUE])
    /\ UNCHANGED <<caps, saved, chmod>>

(* The process dies, and with it every live capability and running call. *)
Stop ==
    /\ up
    /\ up' = FALSE
    /\ caps' = {}
    /\ chmod' = [k \in Calls |-> Idle]
    /\ UNCHANGED <<fs, saved>>

(* A user answers another grain's powerbox request with this grain. *)
FulfillRequest ==
    /\ up
    /\ OsStat(Root)
    /\ Hand(NewNode(Root))
    /\ UNCHANGED <<fs, up, saved, chmod>>

(* A client lets go of a capability. *)
Release(n) ==
    /\ up /\ n \in caps
    /\ caps' = caps \ {n}
    /\ UNCHANGED <<fs, up, saved, chmod>>

(***************************************************************************)
(* Two wrong versions of Walk, for the mutation runs: one takes over the   *)
(* kind of the directory, the other forgets that the directory may be      *)
(* read-only.                                                              *)
(***************************************************************************)
WalkNode(d, name, node) ==
    /\ Offers(d, "walk") /\ validFileName(name)
    /\ OsStat(Join(d.path, name)) /\ Hand(node)
    /\ UNCHANGED <<fs, up, saved, chmod>>

WalkKeepsKind(d, name) ==
    LET path == Join(d.path, name)
    IN  WalkNode(d, name, [path |-> path, isDir |-> d.isDir,
            writable |-> d.writable /\ fs[path].w, executable |-> fs[path].x])

WalkForgetsReadOnly(d, name) ==
    LET path == Join(d.path, name)
    IN  WalkNode(d, name, [path |-> path, isDir |-> fs[path].dir,
            writable |-> fs[path].w, executable |-> fs[path].x])

Walk(d, name) ==
    LET path == Join(d.path, name)
    IN  /\ Offers(d, "walk")
        /\ validFileName(name)
        /\ OsStat(path)
        /\ Hand([path       |-> path,
                 isDir      |-> fs[path].dir,
                 writable   |-> d.writable /\ fs[path].w,
                 executable |-> fs[path].x])
        /\ UNCHANGED <<fs, up, saved, chmod>>

(***************************************************************************)
(* OpenFile(O_RDWR|O_CREATE) opens the file that is there or makes a new   *)
(* one; either way the capability carries the executable bit asked for.    *)
(***************************************************************************)
Create(d, name, exec) ==
    LET path == Join(d.path, name)
    IN  /\ Offers(d, "create")
        /\ validFileName(name)
        /\ \/ OsOpenRW(path) /\ UNCHANGED fs
           \/ /\ OsMayAdd(path) /\ HaveRoom
              /\ fs' = WithNode(path, [dir |-> FALSE, w |-> TRUE, x |-> exec])
        /\ Hand([path |-> path, isDir |-> FALSE, writable |-> TRUE, executable |-> exec])
        /\ UNCHANGED <<up, saved, chmod>>

(* The answer carries no capability: the client has to walk to it. *)
Mkdir(d, name) ==
    LET path == Join(d.path, name)
    IN  /\ Offers(d, "mkdir")
        /\ validFileName(name)
        /\ OsMayAdd(path) /\ HaveRoom
        /\ fs' = WithNode(path, [dir |-> TRUE, w |-> TRUE, x |-> TRUE])
        /\ UNCHANGED <<up, caps, saved, chmod>>

(***************************************************************************)
(* SetExec reads the mode of the file ... (Calls on one capability do not  *)
(* overlap, but a client may hold several capabilities for one file; equal *)
(* ones are one element of caps.)                                          *)
(***************************************************************************)
SetExecStat(k, f, exec) ==
    /\ Offers(f, "setExec")
    /\ chmod[k] = Idle
    /\ OsStat(f.path)
    /\ chmod' = [chmod EXCEPT ![k] =
                    [path |-> f.path, mode |-> [w |-> fs[f.path].w, x |-> exec]]]
    /\ UNCHANGED <<fs, up, caps, saved>>

(* ... and later writes the mode it computed from what it read. *)
SetExecChmod(k) ==
    /\ chmod[k] # Idle
    /\ LET c == chmod[k]
       IN  /\ OsStat(c.path)
           /\ fs' = [fs EXCEPT ![c.path].w = c.mode.w, ![c.path].x = c.mode.x]
    /\ chmod' = [chmod EXCEPT ![k] = Idle]
    /\ UNCHANGED <<up, caps, saved>>

(***************************************************************************)
(* Wrong version, for the mutation runs: a field that is not exported,     *)
(* which json.Marshal leaves out of the object id.                         *)
(***************************************************************************)
MarshalWithoutPath(n) ==
    [isDir |-> n.isDir, writable |-> n.writable, executable |-> n.executable]

(* json.Marshal puts U+FFFD for what is not UTF-8 in the path. *)
Marshal(n) == [n EXCEPT !.path = [i \in 1..Len(n.path) |-> Sanitize[n.path[i]]]]

Save(n) ==
    /\ Offers(n, "save")
    /\ Cardinality(saved \cup {Marshal(n)}) <= MaxSaved
    /\ saved' = saved \cup {Marshal(n)}
    /\ UNCHANGED <<fs, up, caps, chmod>>

(* The object id is trusted as it stands: the node is not looked at again. *)
Restore(n) ==
    /\ up /\ n \in saved
    /\ Hand(n)
    /\ UNCHANGED <<fs, up, saved, chmod>>

(* The host forgets an object id; the grain's Drop hook does nothing. *)
Drop(n) ==
    /\ up /\ n \in saved
    /\ saved' = saved \ {n}
    /\ UNCHANGED <<fs, up, caps, chmod>>

Next ==
    \/ Start
    \/ Stop
    \/ FulfillRequest
    \/ \E n \in caps : Release(n) \/ Save(n)
    \/ \E n \in saved : Restore(n) \/ Drop(n)
    \/ \E d \in caps, name \in Name : Walk(d, name) \/ Mkdir(d, name)
    \/ \E d \in caps, name \in Name, exec \in BOOLEAN : Create(d, name, exec)
    \/ \E k \in Calls, f \in caps, exec \in BOOLEAN : SetExecStat(k, f, exec)
    \/ \E k \in Calls : SetExecChmod(k)

Spec == Init /\ [][Next]_vars
-----------------------------------------------------------------------------
(***************************************************************************)
(* Types; and a stopped grain holds nothing but the disk.                  *)
(***************************************************************************)
TypeOK ==
    /\ DOMAIN fs \subseteq Path
    /\ fs \in [DOMAIN fs -> Inode]
    /\ up \in BOOLEAN
    /\ caps \subseteq Node
    /\ saved \subseteq Node
    /\ chmod \in [Calls -> Pending \cup {Idle}]
    /\ ~up => caps = {} /\ \A k \in Calls : chmod[k] = Idle

(***************************************************************************)
(* A client never gets hold of anything outside the exported directory, by *)
(* any sequence of walks, saves and restarts (filesystem.capnp:17-20:      *)
(* traversing to a parent is not possible).                                *)
(***************************************************************************)
Confinement ==
    /\ \A n \in caps \cup saved : IsPrefix(Root, n.path)
    /\ \A k \in Calls : chmod[k] # Idle => IsPrefix(Root, chmod[k].path)

(***************************************************************************)
(* A capability never dangles and never is of the wrong kind, though it    *)
(* caches IsDir when it is made and may be restored much later: nothing in *)
(* the protocol removes or replaces a node.  Only SetExec calls on files   *)
(* are ever pending.                                                       *)
(***************************************************************************)
KindAccurate ==
    /\ \A n \in caps \cup saved :
           n.path \in DOMAIN fs /\ n.isDir = fs[n.path].dir
    /\ \A k \in Calls : chmod[k] # Idle =>
           chmod[k].path \in DOMAIN fs /\ ~fs[chmod[k].path].dir

(***************************************************************************)
(* Authority: a capability is writable exactly if the node and every       *)
(* directory between it and the root is.  So walking through a read-only   *)
(* directory never yields write access, and no route to a node (walk,      *)
(* create, restore, in any order with chmods) yields less or more than     *)
(* another.                                                                *)
(***************************************************************************)
WritableTo(p) ==
    \A q \in DOMAIN fs : IsPrefix(Root, q) /\ IsPrefix(q, p) => fs[q].w

AuthorityMatchesTree ==
    \A n \in caps \cup saved : n.writable <=> WritableTo(n.path)

(***************************************************************************)
(* The panic in localfs-grain.go:79-83 is unreachable ("this should never  *)
(* happen"): while the grain runs, the exported directory can be opened.   *)
(***************************************************************************)
RootAvailable == up => OsStat(Root) /\ fs[Root].dir

(***************************************************************************)
(* No step changes anything outside the exported directory.                *)
(***************************************************************************)
EffectsConfined ==
    [][\A p \in DOMAIN fs \cup DOMAIN fs' :
          ~IsPrefix(Root, p) => p \in DOMAIN fs \cap DOMAIN fs' /\ fs'[p] = fs[p]]_vars

(***************************************************************************)
(* Nothing at or below a read-only node ever changes, and nothing is added *)
(* there; elsewhere a node may change its executable bit only, and only if *)
(* it is a file.                                                           *)
(***************************************************************************)
ReadOnlyFrozen ==
    [][/\ \A p \in DOMAIN fs :
            /\ p \in DOMAIN fs'
            /\ ~WritableTo(p) => fs'[p] = fs[p]
            /\ fs'[p] # fs[p] => ~fs[p].dir /\ fs'[p] = [fs[p] EXCEPT !.x = ~@]
       /\ \A p \in DOMAIN fs' \ DOMAIN fs : WritableTo(p)]_vars

(***************************************************************************)
(* filesystem.capnp:34, "Report information about the node": what Stat     *)
(* answers on a live capability is what the node is.  The code violates    *)
(* this for the executable bit, which is read once, when the capability is *)
(* made, and not again after SetExec or after Create found a file there.   *)
(***************************************************************************)
StatReportsNode ==
    \A n \in caps : OsStat(n.path) => StatInfo(n).executable = fs[n.path].x
=============================================================================

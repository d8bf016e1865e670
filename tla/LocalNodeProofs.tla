-------------------------- MODULE LocalNodeProofs --------------------------
(***************************************************************************)
(* Proofs about LocalNode: for every tree the grain may find, every set of *)
(* names and any number of nodes, capabilities, object ids and calls; and  *)
(* that LocalNode implements CapTree under the mapping of LocalTree.       *)
(***************************************************************************)
EXTENDS LocalTree, PathsProofs

(***************************************************************************)
(* What the tree looks like around the exported directory.                 *)
(***************************************************************************)
TreeOK ==
    /\ Closed(fs)
    /\ Front(Root) \in DOMAIN fs
    /\ \A p \in DOMAIN fs : IsStrictPrefix(p, Root) => fs[p].dir /\ fs[p].x
    /\ Root \in DOMAIN fs => fs[Root].dir
    /\ up => Root \in DOMAIN fs

(* The file of a pending SetExec call is there, and its mode is fresh. *)
PendingOK ==
    \A k \in Calls : chmod[k] # Idle =>
        /\ chmod[k].path \in DOMAIN fs
        /\ chmod[k].mode.w = fs[chmod[k].path].w

(* The invariant that is inductive whatever the names are. *)
SafeInv == TypeOK /\ Confinement /\ TreeOK /\ PendingOK
-----------------------------------------------------------------------------
LEMMA RootFacts ==
    /\ Root \in Path /\ Root # <<>>
    /\ Front(Root) \in Path /\ IsStrictPrefix(Front(Root), Root)
    /\ IsPrefix(Root, Root)
BY RootAssumption, FrontIsStrictPrefix, PrefixReflexive

(* A child of a directory under the root is under the root, and neither    *)
(* the root nor a directory above it.                                      *)
LEMMA ChildConfined ==
    ASSUME NEW d \in Path, IsPrefix(Root, d), NEW c \in Segment
    PROVE  /\ Append(d, c) \in Path
           /\ IsPrefix(Root, Append(d, c))
           /\ Append(d, c) # Root
           /\ ~IsStrictPrefix(Append(d, c), Root)
<1> DEFINE q == Append(d, c)
<1>1. q \in Path /\ IsPrefix(Root, q) /\ q # d /\ IsPrefix(d, q)
    BY RootFacts, PrefixOfChild, PrefixReflexive
<1> HIDE DEF q
<1>2. ~IsPrefix(q, Root)
    <2>1. ASSUME IsPrefix(q, Root) PROVE FALSE
        <3>1. IsPrefix(q, d)
            BY <1>1, <2>1, RootFacts, PrefixTransitive
        <3> QED BY <1>1, <3>1, PrefixAntisymmetric
    <2> QED BY <2>1
<1>3. q # Root
    BY <1>2, RootFacts
<1> QED BY <1>1, <1>2, <1>3 DEF q, IsStrictPrefix

(* What a new node changes in a closed tree. *)
LEMMA GrowTree ==
    ASSUME TypeOK, Closed(fs), NEW p \in Path, NEW inode \in Inode,
           p # <<>>, p \notin DOMAIN fs,
           Front(p) \in DOMAIN fs, fs[Front(p)].dir,
           fs' = WithNode(p, inode)
    PROVE  /\ DOMAIN fs' = DOMAIN fs \cup {p}
           /\ DOMAIN fs' \subseteq Path
           /\ fs' \in [DOMAIN fs' -> Inode]
           /\ fs'[p] = inode
           /\ \A q \in DOMAIN fs : fs'[q] = fs[q]
           /\ Closed(fs')
<1>1. /\ DOMAIN fs' = DOMAIN fs \cup {p}
      /\ fs'[p] = inode
      /\ \A q \in DOMAIN fs : fs'[q] = fs[q]
    BY DEF WithNode
<1>2. \A q \in DOMAIN fs' : fs'[q] \in Inode
    BY <1>1 DEF TypeOK
<1>3. fs' = [q \in DOMAIN fs' |-> fs'[q]]
    BY DEF WithNode
<1>4. Closed(fs')
    <2> SUFFICES ASSUME NEW q \in DOMAIN fs', q # <<>>
                 PROVE  Front(q) \in DOMAIN fs' /\ fs'[Front(q)].dir
        BY DEF Closed
    <2>1. CASE q = p
        BY <2>1, <1>1
    <2>2. CASE q \in DOMAIN fs
        BY <2>2, <1>1 DEF Closed
    <2> QED BY <1>1, <2>1, <2>2
<1> QED BY <1>1, <1>2, <1>3, <1>4 DEF TypeOK

(* Adding a child to a capability's directory. *)
LEMMA AddChild ==
    ASSUME SafeInv, NEW d \in caps, NEW name \in Name, validFileName(name),
           OsMayAdd(Join(d.path, name)), NEW inode \in Inode,
           fs' = WithNode(Join(d.path, name), inode)
    PROVE  LET path == Join(d.path, name)
           IN  /\ path \in Path /\ path # Root
               /\ IsPrefix(Root, path) /\ ~IsStrictPrefix(path, Root)
               /\ DOMAIN fs' = DOMAIN fs \cup {path}
               /\ DOMAIN fs' \subseteq Path
               /\ fs' \in [DOMAIN fs' -> Inode]
               /\ path \notin DOMAIN fs
               /\ fs'[path] = inode
               /\ \A q \in DOMAIN fs : fs'[q] = fs[q]
               /\ Closed(fs')
<1> DEFINE path == Join(d.path, name)
<1>1. d.path \in Path /\ IsPrefix(Root, d.path)
    BY DEF SafeInv, TypeOK, Confinement, Node
<1>2. path = Append(d.path, name[1]) /\ name[1] \in Segment
    BY <1>1, JoinValidName
<1>3. /\ path \in Path /\ path # Root
      /\ IsPrefix(Root, path) /\ ~IsStrictPrefix(path, Root)
    BY <1>1, <1>2, ChildConfined
<1>4. path # <<>> /\ IsStrictPrefix(Front(path), path)
    BY <1>1, <1>2, <1>3, FrontOfChild, FrontIsStrictPrefix
<1>5. path \notin DOMAIN fs /\ Front(path) \in DOMAIN fs /\ fs[Front(path)].dir
    BY <1>4 DEF OsMayAdd, Searchable
<1> QED BY <1>3, <1>4, <1>5, GrowTree DEF SafeInv, TreeOK

(* The tree stays in shape when nodes under the root are added. *)
LEMMA TreeOKGrows ==
    ASSUME TreeOK, NEW path \in Path, path # Root, ~IsStrictPrefix(path, Root),
           DOMAIN fs' = DOMAIN fs \cup {path},
           \A q \in DOMAIN fs : fs'[q] = fs[q],
           Closed(fs'), up' = up
    PROVE  TreeOK'
<1>1. Front(Root) \in DOMAIN fs'
    BY DEF TreeOK
<1>2. \A p \in DOMAIN fs' : IsStrictPrefix(p, Root) => fs'[p].dir /\ fs'[p].x
    BY DEF TreeOK
<1>3. Root \in DOMAIN fs' => fs'[Root].dir
    BY DEF TreeOK
<1>4. up' => Root \in DOMAIN fs'
    BY DEF TreeOK
<1> QED BY <1>1, <1>2, <1>3, <1>4 DEF TreeOK
-----------------------------------------------------------------------------
THEOREM SafeInit == Init => SafeInv
<1> SUFFICES ASSUME Init PROVE SafeInv
    OBVIOUS
<1>1. /\ DOMAIN fs \subseteq Path /\ fs \in [DOMAIN fs -> Inode]
      /\ Closed(fs) /\ Front(Root) \in DOMAIN fs
      /\ \A p \in DOMAIN fs : IsStrictPrefix(p, Root) => fs[p].dir /\ fs[p].x
      /\ Root \in DOMAIN fs => fs[Root].dir
    BY InitTreesAssumption DEF Init
<1>2. TypeOK
    BY <1>1 DEF TypeOK, Init
<1>3. Confinement /\ TreeOK /\ PendingOK
    BY <1>1 DEF Confinement, TreeOK, PendingOK, Init
<1> QED BY <1>2, <1>3 DEF SafeInv

(* Walk and Create hand out nodes under the root. *)
LEMMA ChildPath ==
    ASSUME SafeInv, NEW d \in caps, NEW name \in Name, validFileName(name)
    PROVE  Join(d.path, name) \in Path /\ IsPrefix(Root, Join(d.path, name))
<1>1. d.path \in Path /\ IsPrefix(Root, d.path)
    BY DEF SafeInv, TypeOK, Confinement, Node
<1> QED BY <1>1, JoinValidName, ChildConfined

(* Saving a capability yields an object id of a node under the root. *)
LEMMA MarshalConfined ==
    ASSUME NEW n \in Node, IsPrefix(Root, n.path)
    PROVE  Marshal(n) \in Node /\ IsPrefix(Root, Marshal(n).path)
<1> DEFINE e(i) == Sanitize[n.path[i]]
           q    == [i \in 1..Len(n.path) |-> e(i)]
<1>1. n.path \in Path /\ Len(n.path) \in Nat /\ Len(Root) \in Nat
    BY RootFacts, LenProperties DEF Node, Path
<1>2. \A i \in 1..Len(n.path) : n.path[i] \in Segment /\ e(i) \in Segment
    BY <1>1, ElementOfSeq, SanitizeAssumption DEF Path
<1>3. q \in Path
    <2> HIDE DEF e
    <2> QED BY <1>1, <1>2, IsASeq DEF Path
<1>4. Len(q) = Len(n.path)
    BY <1>1, SMT
<1>5. \A i \in 1..Len(Root) : q[i] = Root[i]
    <2>1. Len(Root) <= Len(n.path) /\ \A i \in 1..Len(Root) : Root[i] = n.path[i]
        BY <1>1, RootFacts, PrefixPointwise
    <2> QED BY <1>1, <2>1, SanitizeAssumption, SMT
<1>6. Len(Root) <= Len(q)
    BY <1>1, <1>4, RootFacts, PrefixPointwise
<1>7. IsPrefix(Root, q)
    <2> HIDE DEF q
    <2> QED BY <1>3, <1>5, <1>6, RootFacts, PrefixPointwise
<1>8. Marshal(n).path = q /\ Marshal(n) \in Node
    BY <1>3 DEF Marshal, Node
<1> QED BY <1>7, <1>8

THEOREM SafeStep == SafeInv /\ [Next]_vars => SafeInv'
<1> SUFFICES ASSUME SafeInv, [Next]_vars PROVE SafeInv'
    OBVIOUS
<1> USE DEF SafeInv
<1>1. CASE Start
    <2>1. CASE Root \in DOMAIN fs
        BY <1>1, <2>1 DEF Start, TypeOK, Confinement, TreeOK, PendingOK
    <2>2. CASE Root \notin DOMAIN fs
        <3> DEFINE inode == [dir |-> TRUE, w |-> TRUE, x |-> TRUE]
        <3>1. fs' = WithNode(Root, inode) /\ inode \in Inode
            BY <1>1, <2>2 DEF Start, Inode
        <3>2. Front(Root) \in DOMAIN fs /\ fs[Front(Root)].dir
            BY RootFacts DEF TreeOK
        <3> HIDE DEF inode
        <3>3. /\ DOMAIN fs' = DOMAIN fs \cup {Root}
              /\ DOMAIN fs' \subseteq Path
              /\ fs' \in [DOMAIN fs' -> Inode]
              /\ fs'[Root] = inode
              /\ \A q \in DOMAIN fs : fs'[q] = fs[q]
              /\ Closed(fs')
            BY <2>2, <3>1, <3>2, RootFacts, GrowTree DEF TreeOK
        <3>4. TypeOK'
            BY <1>1, <3>3 DEF Start, TypeOK
        <3>5. Confinement'
            BY <1>1 DEF Start, Confinement
        <3>6. TreeOK'
            BY <3>3 DEF TreeOK, inode, IsStrictPrefix
        <3>7. PendingOK'
            BY <1>1, <3>3 DEF Start, PendingOK
        <3> QED BY <3>4, <3>5, <3>6, <3>7
    <2> QED BY <2>1, <2>2
<1>2. CASE Stop
    BY <1>2 DEF Stop, TypeOK, Confinement, TreeOK, PendingOK
<1>3. CASE FulfillRequest
    <2>1. NewNode(Root) \in Node /\ NewNode(Root).path = Root
        BY <1>3, RootFacts DEF FulfillRequest, OsStat, TypeOK, NewNode, Node, Inode
    <2>2. TypeOK'
        BY <1>3, <2>1 DEF FulfillRequest, Hand, TypeOK
    <2>3. Confinement'
        BY <1>3, <2>1, RootFacts DEF FulfillRequest, Hand, Confinement
    <2>4. TreeOK' /\ PendingOK'
        BY <1>3 DEF FulfillRequest, TreeOK, PendingOK
    <2> QED BY <2>2, <2>3, <2>4
<1>4. ASSUME NEW n \in caps, Release(n) PROVE SafeInv'
    BY <1>4 DEF Release, TypeOK, Confinement, TreeOK, PendingOK
<1>5. ASSUME NEW n \in caps, Save(n) PROVE SafeInv'
    <2>1. Marshal(n) \in Node /\ IsPrefix(Root, Marshal(n).path)
        BY MarshalConfined DEF TypeOK, Confinement
    <2>2. TypeOK'
        BY <1>5, <2>1 DEF Save, TypeOK
    <2>3. Confinement'
        BY <1>5, <2>1 DEF Save, Confinement
    <2>4. TreeOK' /\ PendingOK'
        BY <1>5 DEF Save, TreeOK, PendingOK
    <2> QED BY <2>2, <2>3, <2>4
<1>6. ASSUME NEW n \in saved, Restore(n) PROVE SafeInv'
    BY <1>6 DEF Restore, Hand, TypeOK, Confinement, TreeOK, PendingOK
<1>7. ASSUME NEW n \in saved, Drop(n) PROVE SafeInv'
    BY <1>7 DEF Drop, TypeOK, Confinement, TreeOK, PendingOK
<1>8. ASSUME NEW d \in caps, NEW name \in Name, Walk(d, name) PROVE SafeInv'
    <2> DEFINE path == Join(d.path, name)
               node == [path       |-> path,
                        isDir      |-> fs[path].dir,
                        writable   |-> d.writable /\ fs[path].w,
                        executable |-> fs[path].x]
    <2>1. path \in Path /\ IsPrefix(Root, path) /\ path \in DOMAIN fs
        BY <1>8, ChildPath DEF Walk, OsStat
    <2>2. caps' = caps \cup {node} /\ UNCHANGED <<fs, up, saved, chmod>> /\ up
        BY <1>8 DEF Walk, Hand, Offers
    <2> HIDE DEF path
    <2>3. node \in Node /\ node.path = path
        BY <2>1 DEF TypeOK, Node, Inode
    <2> HIDE DEF node
    <2>4. TypeOK'
        BY <2>2, <2>3 DEF TypeOK
    <2>5. Confinement'
        BY <2>1, <2>2, <2>3 DEF Confinement
    <2>6. TreeOK' /\ PendingOK'
        BY <2>2 DEF TreeOK, PendingOK
    <2> QED BY <2>4, <2>5, <2>6
<1>9. ASSUME NEW d \in caps, NEW name \in Name, Mkdir(d, name) PROVE SafeInv'
    <2> DEFINE inode == [dir |-> TRUE, w |-> TRUE, x |-> TRUE]
               path  == Join(d.path, name)
    <2>1. /\ validFileName(name) /\ OsMayAdd(path) /\ fs' = WithNode(path, inode)
          /\ inode \in Inode /\ UNCHANGED <<up, caps, saved, chmod>> /\ up
        BY <1>9 DEF Mkdir, Inode, Offers
    <2> HIDE DEF inode
    <2>2. /\ path \in Path /\ path # Root
          /\ IsPrefix(Root, path) /\ ~IsStrictPrefix(path, Root)
          /\ DOMAIN fs' = DOMAIN fs \cup {path}
          /\ DOMAIN fs' \subseteq Path
          /\ fs' \in [DOMAIN fs' -> Inode]
          /\ \A q \in DOMAIN fs : fs'[q] = fs[q]
          /\ Closed(fs')
        BY <2>1, AddChild
    <2> HIDE DEF path
    <2>3. TypeOK'
        BY <2>1, <2>2 DEF TypeOK
    <2>4. Confinement'
        BY <2>1 DEF Confinement
    <2>5. TreeOK'
        BY <2>1, <2>2, TreeOKGrows
    <2>6. PendingOK'
        BY <2>1, <2>2 DEF PendingOK
    <2> QED BY <2>3, <2>4, <2>5, <2>6
<1>10. ASSUME NEW d \in caps, NEW name \in Name, NEW exec \in BOOLEAN,
              Create(d, name, exec)
       PROVE  SafeInv'
    <2> DEFINE inode == [dir |-> FALSE, w |-> TRUE, x |-> exec]
               path  == Join(d.path, name)
               node  == [path |-> path, isDir |-> FALSE, writable |-> TRUE,
                         executable |-> exec]
    <2>1. /\ validFileName(name) /\ caps' = caps \cup {node}
          /\ UNCHANGED <<up, saved, chmod>> /\ up
        BY <1>10 DEF Create, Offers, Hand
    <2>2. path \in Path /\ IsPrefix(Root, path)
        BY <2>1, ChildPath
    <2>3. node \in Node /\ node.path = path
        BY <2>2 DEF Node
    <2>4. Confinement'
        BY <2>1, <2>2, <2>3 DEF Confinement
    <2>5. CASE UNCHANGED fs
        BY <2>1, <2>3, <2>4, <2>5 DEF TypeOK, TreeOK, PendingOK
    <2>6. CASE OsMayAdd(path) /\ fs' = WithNode(path, inode)
        <3>1. inode \in Inode
            BY DEF Inode
        <3> HIDE DEF inode
        <3>2. /\ path # Root /\ ~IsStrictPrefix(path, Root)
              /\ DOMAIN fs' = DOMAIN fs \cup {path}
              /\ DOMAIN fs' \subseteq Path
              /\ fs' \in [DOMAIN fs' -> Inode]
              /\ \A q \in DOMAIN fs : fs'[q] = fs[q]
              /\ Closed(fs')
            BY <2>1, <2>6, <3>1, AddChild
        <3> HIDE DEF path, node
        <3>3. TypeOK'
            BY <2>1, <2>3, <3>2 DEF TypeOK
        <3>4. TreeOK'
            BY <2>1, <2>2, <3>2, TreeOKGrows
        <3>5. PendingOK'
            BY <2>1, <3>2 DEF PendingOK
        <3> QED BY <2>4, <3>3, <3>4, <3>5
    <2> QED BY <1>10, <2>5, <2>6 DEF Create
<1>11. ASSUME NEW k \in Calls, NEW f \in caps, NEW exec \in BOOLEAN,
              SetExecStat(k, f, exec)
       PROVE  SafeInv'
    <2> DEFINE call == [path |-> f.path, mode |-> [w |-> fs[f.path].w, x |-> exec]]
    <2>1. /\ f.path \in DOMAIN fs /\ chmod' = [chmod EXCEPT ![k] = call]
          /\ UNCHANGED <<fs, up, caps, saved>> /\ up
        BY <1>11 DEF SetExecStat, OsStat, Offers
    <2>2. call \in Pending /\ call.path = f.path /\ call.mode.w = fs[f.path].w
        BY <2>1 DEF Pending, TypeOK, Node, Inode
    <2> HIDE DEF call
    <2>3. TypeOK'
        BY <2>1, <2>2 DEF TypeOK
    <2>4. Confinement'
        BY <2>1, <2>2 DEF Confinement, TypeOK
    <2>5. TreeOK' /\ PendingOK'
        BY <2>1, <2>2 DEF TreeOK, PendingOK, TypeOK
    <2> QED BY <2>3, <2>4, <2>5
<1>12. ASSUME NEW k \in Calls, SetExecChmod(k) PROVE SafeInv'
    <2> DEFINE c == chmod[k]
    <2>1. /\ c # Idle /\ c \in Pending /\ c.path \in DOMAIN fs
          /\ IsPrefix(Root, c.path) /\ c.mode.w = fs[c.path].w
          /\ c.mode.x \in BOOLEAN
        BY <1>12 DEF SetExecChmod, TypeOK, Confinement, PendingOK, Pending
    <2>2. /\ fs' = [fs EXCEPT ![c.path].w = c.mode.w, ![c.path].x = c.mode.x]
          /\ chmod' = [chmod EXCEPT ![k] = Idle] /\ UNCHANGED <<up, caps, saved>>
        BY <1>12 DEF SetExecChmod
    <2> HIDE DEF c
    <2>3. /\ DOMAIN fs' = DOMAIN fs
          /\ fs' \in [DOMAIN fs' -> Inode]
          /\ \A q \in DOMAIN fs : fs'[q].dir = fs[q].dir /\ fs'[q].w = fs[q].w
          /\ \A q \in DOMAIN fs : q # c.path => fs'[q] = fs[q]
        BY <2>1, <2>2 DEF TypeOK, Inode, Pending
    <2>4. up
        BY <2>1 DEF TypeOK, c
    <2>5. TypeOK'
        BY <2>2, <2>3, <2>4 DEF TypeOK
    <2>6. Confinement'
        BY <2>2 DEF Confinement, TypeOK
    <2>7. Closed(fs')
        BY <2>3 DEF TreeOK, Closed
    <2>8. ~IsStrictPrefix(c.path, Root)
        BY <2>1, RootFacts, PrefixAntisymmetric DEF TypeOK, IsStrictPrefix
    <2>9. TreeOK'
        BY <2>2, <2>3, <2>7, <2>8 DEF TreeOK
    <2>10. PendingOK'
        BY <2>2, <2>3 DEF PendingOK, TypeOK
    <2> QED BY <2>5, <2>6, <2>9, <2>10
<1>13. CASE UNCHANGED vars
    BY <1>13 DEF vars, TypeOK, Confinement, TreeOK, PendingOK
<1> QED BY <1>1, <1>2, <1>3, <1>4, <1>5, <1>6, <1>7, <1>8, <1>9, <1>10, <1>11,
           <1>12, <1>13 DEF Next

(***************************************************************************)
(* Types are right, and a stopped grain holds no capability and runs no    *)
(* call (the Node struct and the handlers of local.go, Init to Next).      *)
(***************************************************************************)
THEOREM Safety == Spec => []SafeInv
BY SafeInit, SafeStep, PTL DEF Spec

THEOREM TypeCorrect == Spec => []TypeOK
BY Safety, PTL DEF SafeInv

(***************************************************************************)
(* No sequence of walks, saves, restores, restarts and drops hands a       *)
(* client a node outside the exported directory, even if json.Marshal      *)
(* mangles names (local.go:165-195, 197-231, 248-253, 50-83).              *)
(***************************************************************************)
THEOREM Confined == Spec => []Confinement
BY Safety, PTL DEF SafeInv

(***************************************************************************)
(* The panic of localfs-grain.go:79-83 is unreachable.                     *)
(***************************************************************************)
THEOREM RootIsAvailable == Spec => []RootAvailable
<1>1. SafeInv => RootAvailable
    BY RootFacts DEF SafeInv, TreeOK, RootAvailable, OsStat, Searchable
<1> QED BY <1>1, Safety, PTL
-----------------------------------------------------------------------------
(***************************************************************************)
(* What any step does to the tree: nodes are only added, under the root    *)
(* and writable; of the others only the executable bit changes, and only   *)
(* where a SetExec call is under way.                                      *)
(***************************************************************************)
TreeStep ==
    /\ DOMAIN fs \subseteq DOMAIN fs'
    /\ \A q \in DOMAIN fs' \ DOMAIN fs :
           /\ IsPrefix(Root, q) /\ fs'[q].w
           /\ \/ q = Root
              \/ \E d \in caps, c \in Segment :
                    d.isDir /\ d.writable /\ q = Append(d.path, c)
    /\ \A q \in DOMAIN fs : fs'[q].dir = fs[q].dir /\ fs'[q].w = fs[q].w
    /\ \A q \in DOMAIN fs : fs'[q] # fs[q] =>
           \E k \in Calls : chmod[k] # Idle /\ chmod[k].path = q

LEMMA SameTree == UNCHANGED fs => TreeStep
BY DEF TreeStep

(* Only writable directories offer create and mkdir. *)
LEMMA MayAddOffers ==
    ASSUME NEW n \in Node, NEW method \in {"create", "mkdir"},
           method \in MakeClient(n)
    PROVE  n.isDir /\ n.writable
BY DEF MakeClient, Directory_Methods, RwDirectory_Methods, File_Methods, RwFile_Methods

(* Only writable files offer setExec. *)
LEMMA SetExecOffers ==
    ASSUME NEW n \in Node, "setExec" \in MakeClient(n)
    PROVE  ~n.isDir /\ n.writable
BY DEF MakeClient, Directory_Methods, RwDirectory_Methods, File_Methods, RwFile_Methods

LEMMA TreeStepAddsChild ==
    ASSUME SafeInv, NEW d \in caps, NEW name \in Name, validFileName(name),
           d.isDir, d.writable,
           OsMayAdd(Join(d.path, name)), NEW inode \in Inode, inode.w,
           fs' = WithNode(Join(d.path, name), inode)
    PROVE  TreeStep
<1> DEFINE path == Join(d.path, name)
<1>1. path = Append(d.path, name[1]) /\ name[1] \in Segment
    BY JoinValidName DEF SafeInv, TypeOK, Node
<1>2. /\ path \notin DOMAIN fs /\ IsPrefix(Root, path)
      /\ DOMAIN fs' = DOMAIN fs \cup {path}
      /\ fs'[path] = inode
      /\ \A q \in DOMAIN fs : fs'[q] = fs[q]
    BY AddChild
<1> HIDE DEF path
<1> QED BY <1>1, <1>2 DEF TreeStep

LEMMA TreeSteps == SafeInv /\ [Next]_vars => TreeStep
<1> SUFFICES ASSUME SafeInv, [Next]_vars PROVE TreeStep
    OBVIOUS
<1>1. CASE Start
    <2>1. CASE Root \in DOMAIN fs
        BY <1>1, <2>1, SameTree DEF Start
    <2>2. CASE Root \notin DOMAIN fs
        <3>1. fs' = WithNode(Root, [dir |-> TRUE, w |-> TRUE, x |-> TRUE])
            BY <1>1, <2>2 DEF Start
        <3>2. /\ DOMAIN fs' = DOMAIN fs \cup {Root}
              /\ fs'[Root].w
              /\ \A q \in DOMAIN fs : fs'[q] = fs[q]
            BY <2>2, <3>1 DEF WithNode
        <3> QED BY <3>2, RootFacts DEF TreeStep
    <2> QED BY <2>1, <2>2
<1>2. CASE Stop
    BY <1>2, SameTree DEF Stop
<1>3. CASE FulfillRequest
    BY <1>3, SameTree DEF FulfillRequest
<1>4. ASSUME NEW n \in caps, Release(n) \/ Save(n) PROVE TreeStep
    BY <1>4, SameTree DEF Release, Save
<1>5. ASSUME NEW n \in saved, Restore(n) \/ Drop(n) PROVE TreeStep
    BY <1>5, SameTree DEF Restore, Drop
<1>6. ASSUME NEW d \in caps, NEW name \in Name, Walk(d, name) PROVE TreeStep
    BY <1>6, SameTree DEF Walk
<1>7. ASSUME NEW d \in caps, NEW name \in Name, Mkdir(d, name) PROVE TreeStep
    <2>1. d.isDir /\ d.writable
        BY <1>7, MayAddOffers DEF Mkdir, Offers, SafeInv, TypeOK
    <2> DEFINE inode == [dir |-> TRUE, w |-> TRUE, x |-> TRUE]
    <2>2. inode \in Inode /\ inode.w
        BY DEF Inode
    <2>3. /\ validFileName(name) /\ OsMayAdd(Join(d.path, name))
          /\ fs' = WithNode(Join(d.path, name), inode)
        BY <1>7 DEF Mkdir
    <2> HIDE DEF inode
    <2> QED BY <2>1, <2>2, <2>3, TreeStepAddsChild
<1>8. ASSUME NEW d \in caps, NEW name \in Name, NEW exec \in BOOLEAN,
             Create(d, name, exec)
      PROVE  TreeStep
    <2>1. d.isDir /\ d.writable /\ validFileName(name)
        BY <1>8, MayAddOffers DEF Create, Offers, SafeInv, TypeOK
    <2> DEFINE inode == [dir |-> FALSE, w |-> TRUE, x |-> exec]
    <2>2. inode \in Inode /\ inode.w
        BY DEF Inode
    <2>3. \/ UNCHANGED fs
          \/ /\ OsMayAdd(Join(d.path, name))
             /\ fs' = WithNode(Join(d.path, name), inode)
        BY <1>8 DEF Create
    <2> HIDE DEF inode
    <2> QED BY <2>1, <2>2, <2>3, TreeStepAddsChild, SameTree
<1>9. ASSUME NEW k \in Calls, NEW f \in caps, NEW exec \in BOOLEAN,
             SetExecStat(k, f, exec)
      PROVE  TreeStep
    BY <1>9, SameTree DEF SetExecStat
<1>10. ASSUME NEW k \in Calls, SetExecChmod(k) PROVE TreeStep
    <2> DEFINE c == chmod[k]
    <2>1. c # Idle /\ c \in Pending /\ c.path \in DOMAIN fs /\ c.mode.w = fs[c.path].w
        BY <1>10 DEF SetExecChmod, SafeInv, TypeOK, PendingOK
    <2>2. fs' = [fs EXCEPT ![c.path].w = c.mode.w, ![c.path].x = c.mode.x]
        BY <1>10 DEF SetExecChmod
    <2> HIDE DEF c
    <2>3. /\ DOMAIN fs' = DOMAIN fs
          /\ \A q \in DOMAIN fs : fs'[q].dir = fs[q].dir /\ fs'[q].w = fs[q].w
          /\ \A q \in DOMAIN fs : q # c.path => fs'[q] = fs[q]
        BY <2>1, <2>2 DEF SafeInv, TypeOK, Inode, Pending
    <2> QED BY <2>1, <2>3 DEF TreeStep, c
<1>11. CASE UNCHANGED vars
    BY <1>11, SameTree DEF vars
<1> QED BY <1>1, <1>2, <1>3, <1>4, <1>5, <1>6, <1>7, <1>8, <1>9, <1>10, <1>11
        DEF Next

(***************************************************************************)
(* No step of the grain changes or adds a node outside the exported        *)
(* directory, /var/action for one (main.go:30,36).                         *)
(***************************************************************************)
THEOREM EffectsAreConfined == Spec => EffectsConfined
<1> DEFINE A == \A p \in DOMAIN fs \cup DOMAIN fs' :
                  ~IsPrefix(Root, p) => p \in DOMAIN fs \cap DOMAIN fs' /\ fs'[p] = fs[p]
<1>1. SafeInv /\ [Next]_vars => [A]_vars
    <2> SUFFICES ASSUME SafeInv, [Next]_vars PROVE A
        OBVIOUS
    <2>1. TreeStep
        BY TreeSteps
    <2> QED BY <2>1 DEF TreeStep, SafeInv, Confinement
<1> QED BY <1>1, Safety, PTL DEF Spec, EffectsConfined
-----------------------------------------------------------------------------
(***************************************************************************)
(* Kinds and authority are preserved by a save and a restore only if       *)
(* json.Marshal keeps paths as they are, that is, if names are UTF-8.      *)
(***************************************************************************)
NamesAreUTF8 == \A s \in Segment : Sanitize[s] = s

(* A SetExec call is only ever pending on a file that may be written.      *)
PendingWritable ==
    \A k \in Calls : chmod[k] # Idle =>
        ~fs[chmod[k].path].dir /\ WritableTo(chmod[k].path)

AuthInv == KindAccurate /\ AuthorityMatchesTree /\ PendingWritable

LEMMA MarshalIdentity ==
    ASSUME NamesAreUTF8, NEW n \in Node
    PROVE  Marshal(n) = n
<1>1. n.path \in Path /\ Len(n.path) \in Nat
    BY LenProperties DEF Node, Path
<1>2. \A i \in 1..Len(n.path) : Sanitize[n.path[i]] = n.path[i]
    BY <1>1, ElementOfSeq DEF NamesAreUTF8, Path
<1>3. [i \in 1..Len(n.path) |-> Sanitize[n.path[i]]] = n.path
    BY <1>1, <1>2, LenProperties DEF Path
<1> QED BY <1>3 DEF Marshal, Node

(* No step makes a path that exists more or less writable. *)
LEMMA WritableToStable ==
    ASSUME TreeStep
    PROVE  \A p \in Path : WritableTo(p)' <=> WritableTo(p)
<1> SUFFICES ASSUME NEW p \in Path PROVE WritableTo(p)' <=> WritableTo(p)
    OBVIOUS
<1>1. ASSUME WritableTo(p)' PROVE WritableTo(p)
    BY <1>1 DEF TreeStep, WritableTo
<1>2. ASSUME WritableTo(p) PROVE WritableTo(p)'
    BY <1>2 DEF TreeStep, WritableTo
<1> QED BY <1>1, <1>2

(* What is true of a capability stays true of it. *)
LEMMA AuthStable ==
    ASSUME SafeInv, AuthInv, TreeStep
    PROVE  /\ \A n \in caps \cup saved :
                  /\ n.path \in DOMAIN fs' /\ n.isDir = fs'[n.path].dir
                  /\ n.writable <=> WritableTo(n.path)'
           /\ \A k \in Calls, c \in Pending : chmod[k] # Idle /\ chmod[k] = c =>
                  c.path \in DOMAIN fs' /\ ~fs'[c.path].dir /\ WritableTo(c.path)'
<1>1. ASSUME NEW n \in caps \cup saved
      PROVE  /\ n.path \in DOMAIN fs' /\ n.isDir = fs'[n.path].dir
             /\ n.writable <=> WritableTo(n.path)'
    <2>1. n.path \in Path
        BY DEF SafeInv, TypeOK, Node
    <2>2. WritableTo(n.path)' <=> WritableTo(n.path)
        BY <2>1, WritableToStable
    <2> QED BY <2>2 DEF AuthInv, KindAccurate, AuthorityMatchesTree, TreeStep
<1>2. ASSUME NEW k \in Calls, NEW c \in Pending, chmod[k] # Idle, chmod[k] = c
      PROVE  c.path \in DOMAIN fs' /\ ~fs'[c.path].dir /\ WritableTo(c.path)'
    <2>1. c.path \in Path /\ c.path \in DOMAIN fs
        BY <1>2 DEF SafeInv, Pending, PendingOK
    <2>2. WritableTo(c.path)' <=> WritableTo(c.path)
        BY <2>1, WritableToStable
    <2> QED BY <1>2, <2>1, <2>2 DEF AuthInv, PendingWritable, TreeStep
<1> QED BY <1>1, <1>2

(* A step that starts no SetExec call, saves nothing, and whose new        *)
(* capabilities, if any, are right.                                        *)
LEMMA AuthNewCaps ==
    ASSUME SafeInv, AuthInv, TreeStep, saved' \subseteq saved,
           \A k \in Calls : chmod'[k] \in {chmod[k], Idle},
           \A n \in caps' \ caps :
               /\ n.path \in DOMAIN fs' /\ n.isDir = fs'[n.path].dir
               /\ n.writable <=> WritableTo(n.path)'
    PROVE  AuthInv'
<1>1. ASSUME NEW k \in Calls, chmod'[k] # Idle
      PROVE  /\ chmod'[k].path \in DOMAIN fs' /\ ~fs'[chmod'[k].path].dir
             /\ WritableTo(chmod[k].path)'
    <2>1. PICK c \in Pending : chmod[k] = c /\ chmod[k] # Idle /\ chmod'[k] = c
        BY <1>1 DEF SafeInv, TypeOK
    <2>2. c.path \in DOMAIN fs' /\ ~fs'[c.path].dir /\ WritableTo(c.path)'
        BY <2>1, AuthStable
    <2> QED BY <2>1, <2>2 DEF WritableTo
<1>2. \A n \in (caps \cup saved)' :
          /\ n.path \in DOMAIN fs' /\ n.isDir = fs'[n.path].dir
          /\ n.writable <=> WritableTo(n.path)'
    BY AuthStable
<1>3. KindAccurate'
    BY <1>1, <1>2 DEF KindAccurate
<1>4. AuthorityMatchesTree'
    BY <1>2 DEF AuthorityMatchesTree
<1>5. PendingWritable'
    BY <1>1 DEF PendingWritable
<1> QED BY <1>3, <1>4, <1>5 DEF AuthInv

(* A child is writable to if its directory and it are. *)
LEMMA WritableToChild ==
    ASSUME TypeOK, NEW p \in Path, NEW c \in Segment, Append(p, c) \in DOMAIN fs,
           IsPrefix(Root, Append(p, c))
    PROVE  WritableTo(Append(p, c)) <=> WritableTo(p) /\ fs[Append(p, c)].w
<1> DEFINE q == Append(p, c)
<1>1. q \in Path /\ IsPrefix(q, q) /\ IsPrefix(p, q)
    BY PrefixOfChild, PrefixReflexive
<1>2. \A r \in DOMAIN fs : IsPrefix(r, q) <=> r = q \/ IsPrefix(r, p)
    BY PrefixOfChild DEF TypeOK
<1> HIDE DEF q
<1> QED BY <1>1, <1>2 DEF WritableTo, q
-----------------------------------------------------------------------------
THEOREM AuthInit == Init => AuthInv
BY DEF Init, AuthInv, KindAccurate, AuthorityMatchesTree, PendingWritable

THEOREM AuthStep == NamesAreUTF8 /\ SafeInv /\ AuthInv /\ [Next]_vars => AuthInv'
<1> SUFFICES ASSUME NamesAreUTF8, SafeInv, AuthInv, [Next]_vars PROVE AuthInv'
    OBVIOUS
<1>0. TreeStep
    BY TreeSteps
<1>a. \A p \in Path : WritableTo(p)' <=> WritableTo(p)
    BY <1>0, WritableToStable
<1>1. CASE Start
    BY <1>1, <1>0, AuthNewCaps DEF Start
<1>2. CASE Stop
    <2>1. \A k \in Calls : chmod'[k] \in {chmod[k], Idle}
        BY <1>2 DEF Stop
    <2> QED BY <1>2, <1>0, <2>1, AuthNewCaps DEF Stop
<1>3. CASE FulfillRequest
    <2>1. Root \in DOMAIN fs /\ caps' = caps \cup {NewNode(Root)}
          /\ UNCHANGED <<fs, up, saved, chmod>>
        BY <1>3 DEF FulfillRequest, OsStat, Hand
    <2>2. \A q \in DOMAIN fs : IsPrefix(Root, q) /\ IsPrefix(q, Root) => q = Root
        BY RootFacts, PrefixAntisymmetric DEF SafeInv, TypeOK
    <2>3. WritableTo(Root) <=> fs[Root].w
        BY <2>1, <2>2, RootFacts DEF WritableTo
    <2>4. /\ NewNode(Root).path = Root /\ NewNode(Root).isDir = fs[Root].dir
          /\ NewNode(Root).writable = fs[Root].w
        BY DEF NewNode
    <2>5. WritableTo(Root)' <=> fs[Root].w
        BY <1>a, <2>3, RootFacts
    <2> QED BY <1>0, <2>1, <2>4, <2>5, AuthNewCaps
<1>4. ASSUME NEW n \in caps, Release(n) PROVE AuthInv'
    BY <1>4, <1>0, AuthNewCaps DEF Release
<1>5. ASSUME NEW n \in caps, Save(n) PROVE AuthInv'
    <2>1. Marshal(n) = n
        BY MarshalIdentity DEF SafeInv, TypeOK
    <2>2. saved' = saved \cup {n} /\ UNCHANGED <<fs, up, caps, chmod>>
        BY <1>5, <2>1 DEF Save
    <2>3. KindAccurate'
        BY <2>2 DEF AuthInv, KindAccurate
    <2>4. AuthorityMatchesTree'
        BY <2>2 DEF AuthInv, AuthorityMatchesTree, WritableTo
    <2>5. PendingWritable'
        BY <2>2 DEF AuthInv, PendingWritable, WritableTo
    <2> QED BY <2>3, <2>4, <2>5 DEF AuthInv
<1>6. ASSUME NEW n \in saved, Restore(n) PROVE AuthInv'
    <2>1. caps' = caps \cup {n} /\ UNCHANGED <<fs, up, saved, chmod>>
        BY <1>6 DEF Restore, Hand
    <2> QED BY <1>0, <2>1, AuthStable, AuthNewCaps
<1>7. ASSUME NEW n \in saved, Drop(n) PROVE AuthInv'
    BY <1>7, <1>0, AuthNewCaps DEF Drop
<1>8. ASSUME NEW d \in caps, NEW name \in Name, Walk(d, name) PROVE AuthInv'
    <2> DEFINE path == Join(d.path, name)
               node == [path       |-> path,
                        isDir      |-> fs[path].dir,
                        writable   |-> d.writable /\ fs[path].w,
                        executable |-> fs[path].x]
    <2>1. d.path \in Path /\ d.writable \in BOOLEAN /\ (d.writable <=> WritableTo(d.path))
        BY DEF SafeInv, TypeOK, Node, AuthInv, AuthorityMatchesTree
    <2>2. /\ validFileName(name) /\ path \in DOMAIN fs
          /\ caps' = caps \cup {node} /\ UNCHANGED <<fs, up, saved, chmod>>
        BY <1>8 DEF Walk, OsStat, Hand
    <2>3. /\ name[1] \in Segment /\ path = Append(d.path, name[1])
          /\ path \in Path /\ IsPrefix(Root, path)
        BY <2>1, <2>2, JoinValidName, ChildPath
    <2>4. WritableTo(path) <=> d.writable /\ fs[path].w
        BY <2>1, <2>2, <2>3, WritableToChild DEF SafeInv
    <2>5. WritableTo(path)' <=> d.writable /\ fs[path].w
        BY <2>3, <2>4, <1>a
    <2> HIDE DEF path
    <2>6. /\ node.path = path /\ node.isDir = fs'[path].dir
          /\ node.writable <=> WritableTo(path)'
        BY <2>2, <2>5
    <2> HIDE DEF node
    <2> QED BY <1>0, <2>2, <2>6, AuthNewCaps
<1>9. ASSUME NEW d \in caps, NEW name \in Name, Mkdir(d, name) PROVE AuthInv'
    BY <1>9, <1>0, AuthNewCaps DEF Mkdir
<1>10. ASSUME NEW d \in caps, NEW name \in Name, NEW exec \in BOOLEAN,
              Create(d, name, exec)
       PROVE  AuthInv'
    <2> DEFINE path == Join(d.path, name)
               node == [path |-> path, isDir |-> FALSE, writable |-> TRUE,
                        executable |-> exec]
    <2>1. d.isDir /\ d.writable
        BY <1>10, MayAddOffers DEF Create, Offers, SafeInv, TypeOK
    <2>2. d.path \in Path /\ WritableTo(d.path)
        BY <2>1 DEF SafeInv, TypeOK, Node, AuthInv, AuthorityMatchesTree
    <2>3. /\ validFileName(name) /\ caps' = caps \cup {node}
          /\ UNCHANGED <<up, saved, chmod>>
        BY <1>10 DEF Create, Hand
    <2>4. /\ name[1] \in Segment /\ path = Append(d.path, name[1])
          /\ path \in Path /\ IsPrefix(Root, path)
        BY <2>2, <2>3, JoinValidName, ChildPath
    <2>5. path \in DOMAIN fs' /\ ~fs'[path].dir /\ WritableTo(path)'
        <3>1. CASE OsOpenRW(path) /\ UNCHANGED fs
            <4>1. path \in DOMAIN fs /\ ~fs[path].dir /\ fs[path].w
                BY <3>1 DEF OsOpenRW, OsStat
            <4>2. WritableTo(path)
                BY <2>2, <2>4, <4>1, WritableToChild DEF SafeInv
            <4> QED BY <1>a, <2>4, <3>1, <4>1, <4>2
        <3>2. CASE /\ OsMayAdd(path)
                   /\ fs' = WithNode(path, [dir |-> FALSE, w |-> TRUE, x |-> exec])
            <4>1. /\ fs' = [fs' EXCEPT ![path] = fs'[path]] /\ path \in DOMAIN fs'
                  /\ fs'[path] = [dir |-> FALSE, w |-> TRUE, x |-> exec]
                BY <3>2 DEF WithNode
            <4>2. \A r \in DOMAIN fs' : IsPrefix(r, path) => r = path \/ r \in DOMAIN fs
                BY <3>2 DEF WithNode
            <4>3. path \notin DOMAIN fs /\ DOMAIN fs \subseteq Path
                BY <3>2 DEF OsMayAdd, SafeInv, TypeOK
            <4>4. \A r \in DOMAIN fs : IsPrefix(r, path) => IsPrefix(r, d.path)
                <5> HIDE DEF path
                <5> QED BY <2>2, <2>4, <4>3, PrefixOfChild
            <4>5. WritableTo(path)
                BY <2>2, <4>4 DEF WritableTo
            <4> QED BY <1>a, <2>4, <4>1, <4>5
        <3> QED BY <1>10, <3>1, <3>2 DEF Create
    <2>6. node.path = path /\ node.isDir = FALSE /\ node.writable = TRUE
        OBVIOUS
    <2>7. fs'[path].dir = FALSE
        BY <1>0, <2>5, <2>4, SafeStep DEF SafeInv, TypeOK, Inode
    <2> HIDE DEF path, node
    <2> QED BY <1>0, <2>3, <2>5, <2>6, <2>7, AuthNewCaps
<1>11. ASSUME NEW k \in Calls, NEW f \in caps, NEW exec \in BOOLEAN,
              SetExecStat(k, f, exec)
       PROVE  AuthInv'
    <2>1. /\ ~f.isDir /\ f.writable
        BY <1>11, SetExecOffers DEF SetExecStat, Offers, SafeInv, TypeOK
    <2>2. ~fs[f.path].dir /\ WritableTo(f.path)
        BY <2>1 DEF AuthInv, KindAccurate, AuthorityMatchesTree
    <2>3. /\ UNCHANGED <<fs, caps, saved>>
          /\ chmod'[k].path = f.path
          /\ \A j \in Calls : j # k => chmod'[j] = chmod[j]
        BY <1>11 DEF SetExecStat, SafeInv, TypeOK
    <2>4. KindAccurate'
        BY <2>2, <2>3, <1>11 DEF AuthInv, KindAccurate, SetExecStat, OsStat
    <2>5. AuthorityMatchesTree'
        BY <2>3 DEF AuthInv, AuthorityMatchesTree, WritableTo
    <2>6. PendingWritable'
        BY <2>2, <2>3 DEF AuthInv, PendingWritable, WritableTo
    <2> QED BY <2>4, <2>5, <2>6 DEF AuthInv
<1>12. ASSUME NEW k \in Calls, SetExecChmod(k) PROVE AuthInv'
    <2>1. UNCHANGED <<up, caps, saved>> /\ \A j \in Calls : chmod'[j] \in {chmod[j], Idle}
        BY <1>12 DEF SetExecChmod, SafeInv, TypeOK
    <2> QED BY <1>0, <2>1, AuthNewCaps
<1>13. CASE UNCHANGED vars
    BY <1>13, <1>0, AuthNewCaps DEF vars
<1> QED BY <1>1, <1>2, <1>3, <1>4, <1>5, <1>6, <1>7, <1>8, <1>9, <1>10, <1>11,
           <1>12, <1>13 DEF Next

THEOREM Authority ==
    ASSUME NamesAreUTF8
    PROVE  Spec => []AuthInv
<1>1. SafeInv /\ AuthInv /\ [Next]_vars => AuthInv'
    BY AuthStep
<1> QED BY <1>1, AuthInit, Safety, PTL DEF Spec

(***************************************************************************)
(* A capability never dangles and never has the wrong kind, however long   *)
(* after its creation it is used or restored (local.go:30-83, 255-281).    *)
(***************************************************************************)
THEOREM KindIsAccurate ==
    ASSUME NamesAreUTF8
    PROVE  Spec => []KindAccurate
BY Authority, PTL DEF AuthInv

(***************************************************************************)
(* A capability is writable exactly if every node from the root down to it *)
(* is, by whatever route the client came by it (local.go:184, 209, 38).    *)
(***************************************************************************)
THEOREM AuthorityIsTheTree ==
    ASSUME NamesAreUTF8
    PROVE  Spec => []AuthorityMatchesTree
BY Authority, PTL DEF AuthInv

(***************************************************************************)
(* Nothing changes at or below a read-only node, and elsewhere only the    *)
(* executable bits of files do (local.go:197-246, 312-326).                *)
(***************************************************************************)
THEOREM ReadOnlyIsFrozen ==
    ASSUME NamesAreUTF8
    PROVE  Spec => ReadOnlyFrozen
<1> DEFINE A ==
      /\ \A p \in DOMAIN fs :
            /\ p \in DOMAIN fs'
            /\ ~WritableTo(p) => fs'[p] = fs[p]
            /\ fs'[p] # fs[p] => ~fs[p].dir /\ fs'[p] = [fs[p] EXCEPT !.x = ~@]
      /\ \A p \in DOMAIN fs' \ DOMAIN fs : WritableTo(p)
<1>1. SafeInv /\ AuthInv /\ [Next]_vars => [A]_vars
    <2> SUFFICES ASSUME SafeInv, AuthInv, [Next]_vars PROVE A
        OBVIOUS
    <2>1. TreeStep /\ SafeInv'
        BY TreeSteps, SafeStep
    <2>2. ASSUME NEW p \in DOMAIN fs
          PROVE  /\ p \in DOMAIN fs'
                 /\ ~WritableTo(p) => fs'[p] = fs[p]
                 /\ fs'[p] # fs[p] => ~fs[p].dir /\ fs'[p] = [fs[p] EXCEPT !.x = ~@]
        <3>1. /\ p \in DOMAIN fs' /\ fs[p] \in Inode /\ fs'[p] \in Inode
              /\ fs'[p].dir = fs[p].dir /\ fs'[p].w = fs[p].w
            BY <2>1 DEF TreeStep, SafeInv, TypeOK
        <3>2. fs'[p] # fs[p] => ~fs[p].dir /\ WritableTo(p)
            BY <2>1 DEF TreeStep, AuthInv, PendingWritable
        <3>3. fs'[p] # fs[p] => fs'[p] = [fs[p] EXCEPT !.x = ~@]
            BY <3>1 DEF Inode
        <3> QED BY <3>1, <3>2, <3>3
    <2>3. ASSUME NEW p \in DOMAIN fs' \ DOMAIN fs PROVE WritableTo(p)
        <3>1. CASE p = Root
            BY <3>1, RootFacts, PrefixAntisymmetric DEF WritableTo, SafeInv, TypeOK
        <3>2. ASSUME NEW d \in caps, NEW c \in Segment, d.writable, p = Append(d.path, c)
              PROVE  WritableTo(p)
            <4>1. d.path \in Path /\ WritableTo(d.path)
                BY <3>2 DEF SafeInv, TypeOK, Node, AuthInv, AuthorityMatchesTree
            <4>2. \A r \in DOMAIN fs : IsPrefix(r, p) => IsPrefix(r, d.path)
                BY <3>2, <4>1, PrefixOfChild DEF SafeInv, TypeOK
            <4> QED BY <4>1, <4>2 DEF WritableTo
        <3> QED BY <2>1, <3>1, <3>2 DEF TreeStep
    <2> QED BY <2>2, <2>3
<1>2. Spec => []SafeInv
    BY Safety
<1>3. Spec => []AuthInv
    BY Authority
<1> QED BY <1>1, <1>2, <1>3, PTL DEF Spec, ReadOnlyFrozen
-----------------------------------------------------------------------------
(***************************************************************************)
(* LocalNode implements CapTree, for every tree the grain may find and any *)
(* number of nodes, capabilities, object ids and calls.                    *)
(***************************************************************************)

(* The tree of a disk is a tree. *)
LEMMA TreeOfType ==
    ASSUME NEW t, t \in [DOMAIN t -> Inode]
    PROVE  /\ DOMAIN TreeOf(t) = Exported(t)
           /\ \A p \in Exported(t) :
                 TreeOf(t)[p].dir = t[p].dir /\ TreeOf(t)[p].w = t[p].w
           /\ Tree!IsTree(TreeOf(t))
<1>1. \A p \in Exported(t) : [dir |-> t[p].dir, w |-> t[p].w] \in Tree!Kind
    BY DEF Exported, Inode, Tree!Kind
<1> QED BY <1>1 DEF TreeOf, Tree!IsTree

(* A step that leaves directories directories and keeps write bits.  *)
LEMMA SameTreeOf ==
    ASSUME DOMAIN fs' = DOMAIN fs,
           \A p \in DOMAIN fs : fs'[p].dir = fs[p].dir /\ fs'[p].w = fs[p].w
    PROVE  TreeOf(fs') = TreeOf(fs)
<1>1. Exported(fs') = Exported(fs) /\ Exported(fs) \subseteq DOMAIN fs
    BY DEF Exported
<1> QED BY <1>1 DEF TreeOf

(* A new node of the disk is a new node of the tree. *)
LEMMA TreeOfGrows ==
    ASSUME NEW p, IsPrefix(Root, p), NEW inode \in Inode, fs' = WithNode(p, inode)
    PROVE  TreeOf(fs') = Tree!With(p, [dir |-> inode.dir, w |-> inode.w])
<1>1. DOMAIN fs' = DOMAIN fs \cup {p} /\ fs'[p] = inode
      /\ \A q \in DOMAIN fs : q # p => fs'[q] = fs[q]
    BY DEF WithNode
<1>2. Exported(fs') = Exported(fs) \cup {p} /\ Exported(fs) \subseteq DOMAIN fs
    BY <1>1 DEF Exported
<1>3. DOMAIN TreeOf(fs) = Exported(fs)
      /\ \A q \in Exported(fs) : TreeOf(fs)[q] = [dir |-> fs[q].dir, w |-> fs[q].w]
    BY DEF TreeOf
<1>4. TreeOf(fs') = [q \in Exported(fs) \cup {p} |-> [dir |-> fs'[q].dir, w |-> fs'[q].w]]
    BY <1>2 DEF TreeOf
<1>5. \A q \in Exported(fs) \cup {p} :
          [dir |-> fs'[q].dir, w |-> fs'[q].w]
          = IF q = p THEN [dir |-> inode.dir, w |-> inode.w] ELSE TreeOf(fs)[q]
    BY <1>1, <1>2, <1>3
<1> QED BY <1>3, <1>4, <1>5 DEF Tree!With

LEMMA CapsOfAdded ==
    ASSUME NEW S, NEW n
    PROVE  CapsOf(S \cup {n}) = CapsOf(S) \cup {Cap(n)}
BY DEF CapsOf

(* Without one of several capabilities that differ in the executable bit   *)
(* only, there is still one of them.                                       *)
LEMMA CapsOfRemoved ==
    ASSUME NEW S, NEW n
    PROVE  CapsOf(S \ {n}) \in {CapsOf(S), CapsOf(S) \ {Cap(n)}}
<1>1. CASE Cap(n) \in CapsOf(S \ {n})
    BY <1>1 DEF CapsOf
<1>2. CASE Cap(n) \notin CapsOf(S \ {n})
    <2>1. CapsOf(S \ {n}) = CapsOf(S) \ {Cap(n)}
        BY <1>2 DEF CapsOf
    <2> QED BY <2>1
<1> QED BY <1>1, <1>2

(* The child that a valid name leads to, in the tree. *)
LEMMA TreeChild ==
    ASSUME SafeInv, AuthInv, NEW d \in caps, d.isDir, NEW name \in Name, validFileName(name)
    PROVE  /\ name[1] \in Segment
           /\ Join(d.path, name) = Append(d.path, name[1])
           /\ IsPrefix(Root, Join(d.path, name))
           /\ Cap(d) \in CapsOf(caps)
           /\ Cap(d).node = d.path /\ Cap(d).rw = d.writable
           /\ d.path \in DOMAIN TreeOf(fs) /\ TreeOf(fs)[d.path].dir
<1>1. d.path \in Path /\ IsPrefix(Root, d.path)
    BY DEF SafeInv, TypeOK, Node, Confinement
<1>2. d.path \in DOMAIN fs /\ fs[d.path].dir
    BY DEF AuthInv, KindAccurate
<1>3. d.path \in Exported(fs)
    BY <1>1, <1>2 DEF Exported
<1>4. d.path \in DOMAIN TreeOf(fs) /\ TreeOf(fs)[d.path].dir
    BY <1>2, <1>3, TreeOfType DEF SafeInv, TypeOK
<1>5. name[1] \in Segment /\ Join(d.path, name) = Append(d.path, name[1])
    BY <1>1, JoinValidName
<1>6. IsPrefix(Root, Join(d.path, name))
    BY ChildPath
<1> QED BY <1>4, <1>5, <1>6 DEF Cap, CapsOf
-----------------------------------------------------------------------------
THEOREM TreeInit == Init => Tree!Init
<1> SUFFICES ASSUME Init PROVE Tree!Init
    OBVIOUS
<1>1. fs \in [DOMAIN fs -> Inode]
    BY InitTreesAssumption DEF Init
<1>2. Tree!IsTree(TreeOf(fs))
    BY <1>1, TreeOfType
<1>3. CapsOf(caps) = {} /\ CapsOf(saved) = {}
    BY DEF Init, CapsOf
<1> QED BY <1>2, <1>3 DEF Tree!Init

(* Walk, and a Create that finds a file, go to a child that is there. *)
LEMMA WalkInTree ==
    ASSUME SafeInv, AuthInv, NEW d \in caps, d.isDir, NEW name \in Name, validFileName(name),
           Join(d.path, name) \in DOMAIN fs, NEW n,
           n.path = Join(d.path, name),
           n.writable = (d.writable /\ fs[n.path].w),
           caps' = caps \cup {n}, UNCHANGED <<fs, saved>>
    PROVE  Tree!Walk(Cap(d), name[1])
<1> DEFINE p == Append(d.path, name[1])
<1>1. /\ p = Join(d.path, name) /\ IsPrefix(Root, p)
      /\ Cap(d).node = d.path /\ Cap(d).rw = d.writable
      /\ d.path \in DOMAIN TreeOf(fs) /\ TreeOf(fs)[d.path].dir
    BY TreeChild
<1>2. p \in DOMAIN TreeOf(fs) /\ TreeOf(fs)[p].w = fs[p].w
    <2> HIDE DEF p
    <2>1. p \in Exported(fs)
        BY <1>1 DEF Exported
    <2> QED BY <2>1, TreeOfType DEF SafeInv, TypeOK
<1>3. CapsOf(caps') = CapsOf(caps) \cup {[node |-> p, rw |-> d.writable /\ TreeOf(fs)[p].w]}
    <2>1. n.path = p /\ n.writable = (d.writable /\ TreeOf(fs)[p].w)
        BY <1>1, <1>2
    <2> HIDE DEF p
    <2>2. Cap(n) = [node |-> p, rw |-> d.writable /\ TreeOf(fs)[p].w]
        BY <2>1, Zenon DEF Cap
    <2> QED BY <2>2, CapsOfAdded
<1>4. UNCHANGED <<TreeOf(fs), CapsOf(saved)>>
    OBVIOUS
<1>5. Tree!IsDirectory(Cap(d))
    BY <1>1 DEF Tree!IsDirectory
<1> QED BY <1>1, <1>2, <1>3, <1>4, <1>5 DEF Tree!Walk

THEOREM TreeStepRefines ==
    NamesAreUTF8 /\ SafeInv /\ AuthInv /\ [Next]_vars => [Tree!Next]_(Tree!vars)
<1> SUFFICES ASSUME NamesAreUTF8, SafeInv, AuthInv, [Next]_vars
             PROVE  Tree!Next \/ UNCHANGED <<TreeOf(fs), CapsOf(caps), CapsOf(saved)>>
    BY DEF Tree!vars
<1>0. /\ fs \in [DOMAIN fs -> Inode] /\ caps \subseteq Node /\ saved \subseteq Node
    BY DEF SafeInv, TypeOK
<1>1. CASE Start
    <2>1. CASE Root \in DOMAIN fs
        BY <1>1, <2>1 DEF Start
    <2>2. CASE Root \notin DOMAIN fs
        <3> DEFINE inode == [dir |-> TRUE, w |-> TRUE, x |-> TRUE]
        <3>1. inode \in Inode /\ inode.dir = TRUE /\ inode.w = TRUE
            BY DEF Inode
        <3>2. fs' = WithNode(Root, inode) /\ UNCHANGED <<caps, saved>>
            BY <1>1, <2>2 DEF Start
        <3> HIDE DEF inode
        <3>3. TreeOf(fs') = Tree!With(Root, [dir |-> TRUE, w |-> TRUE])
            BY <3>1, <3>2, RootFacts, TreeOfGrows
        <3>4. Root \notin DOMAIN TreeOf(fs)
            BY <2>2 DEF TreeOf, Exported
        <3>5. Tree!Boot
            BY <3>2, <3>3, <3>4 DEF Tree!Boot
        <3> QED BY <3>5 DEF Tree!Next
    <2> QED BY <2>1, <2>2
<1>2. CASE Stop
    <2>1. CapsOf(caps') = {} /\ UNCHANGED <<fs, saved>>
        BY <1>2 DEF Stop, CapsOf
    <2>2. Tree!Crash
        BY <2>1 DEF Tree!Crash
    <2> QED BY <2>2 DEF Tree!Next
<1>3. CASE FulfillRequest
    <2>1. Root \in DOMAIN fs /\ caps' = caps \cup {NewNode(Root)} /\ UNCHANGED <<fs, saved>>
        BY <1>3 DEF FulfillRequest, OsStat, Hand
    <2>2. Root \in DOMAIN TreeOf(fs) /\ TreeOf(fs)[Root].w = fs[Root].w
        BY <1>0, <2>1, RootFacts, TreeOfType DEF Exported
    <2>3. Cap(NewNode(Root)) = [node |-> Root, rw |-> TreeOf(fs)[Root].w]
        BY <2>2 DEF Cap, NewNode
    <2>4. CapsOf(caps') = CapsOf(caps) \cup {[node |-> Root, rw |-> TreeOf(fs)[Root].w]}
        BY <2>1, <2>3, CapsOfAdded
    <2>5. Tree!Grant
        BY <2>1, <2>2, <2>4 DEF Tree!Grant
    <2> QED BY <2>5 DEF Tree!Next
<1>4. ASSUME NEW n \in caps, Release(n)
      PROVE  Tree!Next \/ UNCHANGED <<TreeOf(fs), CapsOf(caps), CapsOf(saved)>>
    <2>1. caps' = caps \ {n} /\ UNCHANGED <<fs, saved>>
        BY <1>4 DEF Release
    <2>2. Cap(n) \in CapsOf(caps)
        BY DEF CapsOf
    <2>3. CapsOf(caps') = CapsOf(caps) \/ CapsOf(caps') = CapsOf(caps) \ {Cap(n)}
        BY <2>1, CapsOfRemoved
    <2>4. CASE CapsOf(caps') = CapsOf(caps) \ {Cap(n)}
        <3>1. Tree!Release(Cap(n))
            BY <2>1, <2>4 DEF Tree!Release
        <3> QED BY <2>2, <3>1 DEF Tree!Next
    <2> QED BY <2>1, <2>3, <2>4
<1>5. ASSUME NEW n \in caps, Save(n)
      PROVE  Tree!Next
    <2>1. Marshal(n) = n
        BY <1>0, MarshalIdentity
    <2>2. saved' = saved \cup {n} /\ UNCHANGED <<fs, caps>>
        BY <1>5, <2>1 DEF Save
    <2>3. CapsOf(saved') = CapsOf(saved) \cup {Cap(n)}
        BY <2>2, CapsOfAdded
    <2>4. Tree!Keep(Cap(n))
        BY <2>2, <2>3 DEF Tree!Keep
    <2>5. Cap(n) \in CapsOf(caps)
        BY DEF CapsOf
    <2> QED BY <2>4, <2>5 DEF Tree!Next
<1>6. ASSUME NEW n \in saved, Restore(n)
      PROVE  Tree!Next
    <2>1. caps' = caps \cup {n} /\ UNCHANGED <<fs, saved>>
        BY <1>6 DEF Restore, Hand
    <2>2. CapsOf(caps') = CapsOf(caps) \cup {Cap(n)}
        BY <2>1, CapsOfAdded
    <2>3. Tree!Recall(Cap(n))
        BY <2>1, <2>2 DEF Tree!Recall
    <2>4. Cap(n) \in CapsOf(saved)
        BY DEF CapsOf
    <2> QED BY <2>3, <2>4 DEF Tree!Next
<1>7. ASSUME NEW n \in saved, Drop(n)
      PROVE  Tree!Next \/ UNCHANGED <<TreeOf(fs), CapsOf(caps), CapsOf(saved)>>
    <2>1. saved' = saved \ {n} /\ UNCHANGED <<fs, caps>>
        BY <1>7 DEF Drop
    <2>2. Cap(n) \in CapsOf(saved)
        BY DEF CapsOf
    <2>3. CapsOf(saved') = CapsOf(saved) \/ CapsOf(saved') = CapsOf(saved) \ {Cap(n)}
        BY <2>1, CapsOfRemoved
    <2>4. CASE CapsOf(saved') = CapsOf(saved) \ {Cap(n)}
        <3>1. Tree!Forget(Cap(n))
            BY <2>1, <2>4 DEF Tree!Forget
        <3> QED BY <2>2, <3>1 DEF Tree!Next
    <2> QED BY <2>1, <2>3, <2>4
<1>8. ASSUME NEW d \in caps, NEW name \in Name, Walk(d, name)
      PROVE  Tree!Next
    <2> DEFINE path == Join(d.path, name)
               node == [path |-> path, isDir |-> fs[path].dir,
                        writable |-> d.writable /\ fs[path].w, executable |-> fs[path].x]
    <2>1. /\ validFileName(name) /\ path \in DOMAIN fs
          /\ caps' = caps \cup {node} /\ UNCHANGED <<fs, saved>>
        BY <1>8 DEF Walk, OsStat, Hand
    <2>2. d.isDir
        BY <1>0, <1>8 DEF Walk, Offers, MakeClient, File_Methods, RwFile_Methods, Node
    <2>3. node.path = path /\ node.writable = (d.writable /\ fs[path].w)
        OBVIOUS
    <2> HIDE DEF node
    <2>4. Tree!Walk(Cap(d), name[1])
        BY <2>1, <2>2, <2>3, WalkInTree
    <2> HIDE DEF path
    <2>5. Cap(d) \in CapsOf(caps) /\ name[1] \in Segment
        BY <2>1, <2>2, TreeChild
    <2> QED BY <2>4, <2>5 DEF Tree!Next
<1>9. ASSUME NEW d \in caps, NEW name \in Name, Mkdir(d, name)
      PROVE  Tree!Next
    <2> DEFINE p == Append(d.path, name[1])
               inode == [dir |-> TRUE, w |-> TRUE, x |-> TRUE]
    <2>1. d.isDir /\ d.writable
        BY <1>0, <1>9, MayAddOffers DEF Mkdir, Offers
    <2>2. validFileName(name) /\ Join(d.path, name) \notin DOMAIN fs
          /\ fs' = WithNode(Join(d.path, name), inode) /\ UNCHANGED <<caps, saved>>
        BY <1>9 DEF Mkdir, OsMayAdd
    <2>3. /\ name[1] \in Segment /\ Join(d.path, name) = p /\ IsPrefix(Root, p)
          /\ Cap(d) \in CapsOf(caps) /\ Cap(d).node = d.path /\ Cap(d).rw = d.writable
          /\ d.path \in DOMAIN TreeOf(fs) /\ TreeOf(fs)[d.path].dir
        BY <2>1, <2>2, TreeChild
    <2>4. inode \in Inode /\ inode.dir = TRUE /\ inode.w = TRUE
        BY DEF Inode
    <2> HIDE DEF inode
    <2>5. TreeOf(fs') = Tree!With(p, [dir |-> TRUE, w |-> TRUE])
        BY <2>2, <2>3, <2>4, TreeOfGrows
    <2>6. p \notin DOMAIN TreeOf(fs)
        BY <2>2, <2>3 DEF TreeOf, Exported
    <2>7. Tree!MakeDirectory(Cap(d), name[1])
        BY <2>1, <2>2, <2>3, <2>5, <2>6 DEF Tree!MakeDirectory, Tree!IsDirectory
    <2> QED BY <2>3, <2>7 DEF Tree!Next
<1>10. ASSUME NEW d \in caps, NEW name \in Name, NEW exec \in BOOLEAN,
              Create(d, name, exec)
       PROVE  Tree!Next
    <2> DEFINE path == Join(d.path, name)
               node == [path |-> path, isDir |-> FALSE, writable |-> TRUE,
                        executable |-> exec]
    <2>1. d.isDir /\ d.writable
        BY <1>0, <1>10, MayAddOffers DEF Create, Offers
    <2>2. validFileName(name) /\ caps' = caps \cup {node} /\ UNCHANGED saved
        BY <1>10 DEF Create, Hand
    <2>3. node.path = path /\ node.writable = TRUE
        OBVIOUS
    <2> HIDE DEF node
    <2>4. /\ name[1] \in Segment /\ path = Append(d.path, name[1]) /\ IsPrefix(Root, path)
          /\ Cap(d) \in CapsOf(caps) /\ Cap(d).node = d.path /\ Cap(d).rw = d.writable
          /\ d.path \in DOMAIN TreeOf(fs) /\ TreeOf(fs)[d.path].dir
        BY <2>1, <2>2, TreeChild
    <2>5. CASE OsOpenRW(path) /\ UNCHANGED fs
        <3>1. path \in DOMAIN fs /\ fs[path].w
            BY <2>5 DEF OsOpenRW, OsStat
        <3>2. node.writable = (d.writable /\ fs[path].w)
            BY <1>0, <2>1, <2>3, <3>1 DEF Node, Inode
        <3>3. Tree!Walk(Cap(d), name[1])
            BY <2>1, <2>2, <2>3, <2>5, <3>1, <3>2, WalkInTree
        <3> HIDE DEF path
        <3> QED BY <2>4, <3>3 DEF Tree!Next
    <2>6. CASE /\ OsMayAdd(path)
               /\ fs' = WithNode(path, [dir |-> FALSE, w |-> TRUE, x |-> exec])
        <3> DEFINE inode == [dir |-> FALSE, w |-> TRUE, x |-> exec]
        <3> HIDE DEF path
        <3>1. inode \in Inode /\ inode.dir = FALSE /\ inode.w = TRUE
            BY DEF Inode
        <3>2. fs' = WithNode(path, inode) /\ path \notin DOMAIN fs
            BY <2>6 DEF OsMayAdd
        <3> HIDE DEF inode
        <3>3. TreeOf(fs') = Tree!With(path, [dir |-> FALSE, w |-> TRUE])
            BY <2>4, <3>1, <3>2, TreeOfGrows
        <3>4. path \notin DOMAIN TreeOf(fs)
            BY <3>2 DEF TreeOf, Exported
        <3>5. CapsOf(caps') = CapsOf(caps) \cup {[node |-> path, rw |-> TRUE]}
            BY <2>2, <2>3, CapsOfAdded DEF Cap
        <3>6. Tree!MakeFile(Cap(d), name[1])
            BY <2>1, <2>2, <2>4, <3>3, <3>4, <3>5 DEF Tree!MakeFile, Tree!IsDirectory
        <3> QED BY <2>4, <3>6 DEF Tree!Next
    <2> QED BY <1>10, <2>5, <2>6 DEF Create
<1>11. ASSUME NEW k \in Calls, NEW f \in caps, NEW exec \in BOOLEAN,
              SetExecStat(k, f, exec)
       PROVE  UNCHANGED <<TreeOf(fs), CapsOf(caps), CapsOf(saved)>>
    BY <1>11 DEF SetExecStat
<1>12. ASSUME NEW k \in Calls, SetExecChmod(k)
       PROVE  UNCHANGED <<TreeOf(fs), CapsOf(caps), CapsOf(saved)>>
    <2>1. PICK c \in Pending : chmod[k] = c /\ chmod[k] # Idle
        BY <1>12 DEF SetExecChmod, SafeInv, TypeOK
    <2>2. /\ c.path \in DOMAIN fs /\ c.mode.w = fs[c.path].w
        BY <2>1 DEF SafeInv, PendingOK
    <2>3. /\ fs' = [fs EXCEPT ![c.path].w = c.mode.w, ![c.path].x = c.mode.x]
          /\ UNCHANGED <<caps, saved>>
        BY <1>12, <2>1 DEF SetExecChmod
    <2>4. DOMAIN fs' = DOMAIN fs
          /\ \A p \in DOMAIN fs : fs'[p].dir = fs[p].dir /\ fs'[p].w = fs[p].w
        BY <1>0, <2>2, <2>3 DEF Inode
    <2> QED BY <2>3, <2>4, SameTreeOf
<1>13. CASE UNCHANGED vars
    BY <1>13 DEF vars
<1> QED BY <1>1, <1>2, <1>3, <1>4, <1>5, <1>6, <1>7, <1>8, <1>9, <1>10, <1>11,
           <1>12, <1>13 DEF Next

(***************************************************************************)
(* The server, with paths, modes, name checks and JSON, does only what a   *)
(* tree of capabilities allows (local.go:43-83, 165-242, 312-326), if the  *)
(* names of files are UTF-8.                                               *)
(***************************************************************************)
THEOREM Refinement ==
    ASSUME NamesAreUTF8
    PROVE  Spec => ImplementsCapTree
<1>1. SafeInv /\ AuthInv /\ [Next]_vars => [Tree!Next]_(Tree!vars)
    BY TreeStepRefines
<1>2. Spec => []SafeInv
    BY Safety
<1>3. Spec => []AuthInv
    BY Authority
<1> QED BY <1>1, <1>2, <1>3, TreeInit, PTL DEF Spec, ImplementsCapTree, Tree!Spec
=============================================================================

------------------------------ MODULE CapTree ------------------------------
(***************************************************************************)
(* What filesystem.capnp promises of its capabilities, without paths,      *)
(* names to be checked, modes or object ids: a tree of files and           *)
(* directories, and capabilities for its nodes that are for reading and    *)
(* writing or for reading only.  Holding a directory gives access to its   *)
(* children, with no more authority than one has over the directory, and   *)
(* to nothing else; only a writable directory can be added to, and nothing *)
(* in the tree is ever removed or changed in kind.                         *)
(***************************************************************************)
CONSTANTS
    Names,         \* the names that a child can have
    RootNode,      \* the node that a user lets others have
    Child(_, _)    \* the node of a given name in a given directory

VARIABLES
    tree,          \* the nodes that exist: is it a directory, is it writable
    held,          \* the capabilities that clients hold
    kept           \* the capabilities that can be had again after a restart

vars == <<tree, held, kept>>

Kind == [dir : BOOLEAN, w : BOOLEAN]

IsTree(t) == t \in [DOMAIN t -> Kind]

Init == IsTree(tree) /\ held = {} /\ kept = {}

With(n, kind) == [m \in DOMAIN tree \cup {n} |-> IF m = n THEN kind ELSE tree[m]]

IsDirectory(c) == c.node \in DOMAIN tree /\ tree[c.node].dir

(* The exported directory is made when it is first needed. *)
Boot ==
    /\ RootNode \notin DOMAIN tree
    /\ tree' = With(RootNode, [dir |-> TRUE, w |-> TRUE])
    /\ UNCHANGED <<held, kept>>

(* All capabilities are lost in a crash, except those that were kept. *)
Crash == held' = {} /\ UNCHANGED <<tree, kept>>

Grant ==
    /\ RootNode \in DOMAIN tree
    /\ held' = held \cup {[node |-> RootNode, rw |-> tree[RootNode].w]}
    /\ UNCHANGED <<tree, kept>>

Release(c) == held' = held \ {c} /\ UNCHANGED <<tree, kept>>
Keep(c)    == kept' = kept \cup {c} /\ UNCHANGED <<tree, held>>
Recall(c)  == held' = held \cup {c} /\ UNCHANGED <<tree, kept>>
Forget(c)  == kept' = kept \ {c} /\ UNCHANGED <<tree, held>>

(* To a child that is there, with the lesser authority of the two. *)
Walk(d, name) ==
    LET n == Child(d.node, name)
    IN  /\ IsDirectory(d) /\ n \in DOMAIN tree
        /\ held' = held \cup {[node |-> n, rw |-> d.rw /\ tree[n].w]}
        /\ UNCHANGED <<tree, kept>>

MakeFile(d, name) ==
    LET n == Child(d.node, name)
    IN  /\ IsDirectory(d) /\ d.rw /\ n \notin DOMAIN tree
        /\ tree' = With(n, [dir |-> FALSE, w |-> TRUE])
        /\ held' = held \cup {[node |-> n, rw |-> TRUE]}
        /\ UNCHANGED kept

MakeDirectory(d, name) ==
    LET n == Child(d.node, name)
    IN  /\ IsDirectory(d) /\ d.rw /\ n \notin DOMAIN tree
        /\ tree' = With(n, [dir |-> TRUE, w |-> TRUE])
        /\ UNCHANGED <<held, kept>>

Next ==
    \/ Boot \/ Crash \/ Grant
    \/ \E c \in held : Release(c) \/ Keep(c)
    \/ \E c \in kept : Recall(c) \/ Forget(c)
    \/ \E d \in held, name \in Names :
          Walk(d, name) \/ MakeFile(d, name) \/ MakeDirectory(d, name)

Spec == Init /\ [][Next]_vars
=============================================================================

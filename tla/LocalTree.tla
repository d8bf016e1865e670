----------------------------- MODULE LocalTree -----------------------------
(***************************************************************************)
(* The local server, whose capabilities are paths, implements capabilities *)
(* for the nodes of a tree (CapTree).  The tree is the part of the disk at *)
(* and below the exported directory; a Node struct stands for the node at  *)
(* its path.  The executable bit plays no part.                            *)
(***************************************************************************)
EXTENDS LocalNode

Exported(t) == {p \in DOMAIN t : IsPrefix(Root, p)}

TreeOf(t) == [p \in Exported(t) |-> [dir |-> t[p].dir, w |-> t[p].w]]

Cap(n) == [node |-> n.path, rw |-> n.writable]

CapsOf(S) == {Cap(n) : n \in S}

Tree == INSTANCE CapTree WITH
            Names <- Segment, RootNode <- Root, Child <- Append,
            tree <- TreeOf(fs), held <- CapsOf(caps), kept <- CapsOf(saved)

(***************************************************************************)
(* Every step of the server, whatever names it is sent, is one that a tree *)
(* of capabilities allows: no capability comes from anywhere but the user, *)
(* an object id or the directory it is in, none has more authority than    *)
(* that directory's, and nothing changes but through a capability that     *)
(* allows it.                                                              *)
(***************************************************************************)
ImplementsCapTree == Tree!Spec
=============================================================================

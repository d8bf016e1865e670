---------------------------- MODULE MCLocalNode ----------------------------
(***************************************************************************)
(* Small trees for LocalNode.  <<>> is the grain's private /var and        *)
(* <<"shared">> its exported directory; <<"a">> stands for /var/action, a  *)
(* file beside the exported directory that no client may reach.            *)
(***************************************************************************)
EXTENDS LocalNode, TLC

MCRoot == <<"shared">>

Dir(w)     == [dir |-> TRUE, w |-> w, x |-> TRUE]
File(w, x) == [dir |-> FALSE, w |-> w, x |-> x]

Private == <<>> :> Dir(TRUE) @@ <<"a">> :> File(TRUE, FALSE)

(* First start: there is no exported directory yet. *)
Fresh == Private

(* A directory with a read-only directory in it that holds writable nodes. *)
Mixed ==
    Private
    @@ MCRoot :> Dir(TRUE)
    @@ <<"shared", "a">> :> Dir(FALSE)
    @@ <<"shared", "a", "a">> :> File(TRUE, FALSE)
    @@ <<"shared", "a", "shared">> :> Dir(TRUE)

(* A read-only file, and a directory that may not be searched. *)
Guarded ==
    Private
    @@ MCRoot :> Dir(TRUE)
    @@ <<"shared", "a">> :> File(FALSE, TRUE)
    @@ <<"shared", "shared">> :> [dir |-> TRUE, w |-> TRUE, x |-> FALSE]

(* The exported directory itself is read-only. *)
ReadOnly ==
    Private
    @@ MCRoot :> Dir(FALSE)
    @@ <<"shared", "a">> :> Dir(TRUE)

MCTrees == {Fresh, Mixed, Guarded, ReadOnly}

(* Every name is valid UTF-8. *)
MCSanitize == [s \in {"a", "shared"} |-> s]

(* For the run about what Stat answers. *)
MCFreshTree == {Fresh}
=============================================================================

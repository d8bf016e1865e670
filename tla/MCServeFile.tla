---------------------------- MODULE MCServeFile ----------------------------
(***************************************************************************)
(* A small remote tree for ServeFile, with a directory that is named       *)
(* "fs", and the addresses under "/fs/" that lead into it or nowhere.      *)
(***************************************************************************)
EXTENDS ServeFile, TLC

MCTree == <<>> :> TRUE @@ <<"fs">> :> TRUE @@ <<"fs", "a">> :> FALSE

MCUrls == {<<"fs">> \o p : p \in DOMAIN MCTree}
          \cup {<<"fs", "a">>, <<"fs", "fs", "a", "a">>}

(* For the run about one file. *)
MCOneFile == <<>> :> TRUE @@ <<"a">> :> FALSE

MCOneUrl == {<<"fs", "a">>}
=============================================================================

---------------------------- MODULE MCZipUpload ----------------------------
(***************************************************************************)
(* Small archives and trees for ZipUpload.  <<"s">> is the directory that  *)
(* was claimed; beside it is a file that no upload may reach.              *)
(***************************************************************************)
EXTENDS ZipUpload, TLC

MCRoot == <<"s">>

Dir(w)     == [dir |-> TRUE, w |-> w, data |-> <<>>]
File(data) == [dir |-> FALSE, w |-> TRUE, data |-> data]

Outside == <<>> :> Dir(TRUE) @@ <<"a">> :> File(<<>>)

Empty == Outside @@ MCRoot :> Dir(TRUE)

(* What is there has been left by an earlier, longer upload; or is of the  *)
(* other kind than the archive has it; or may not be written to.           *)
HasFile  == Empty @@ <<"s", "a">> :> File(<<<<9, 9>>>>)
HasDirs  == Empty @@ <<"s", "a">> :> Dir(TRUE) @@ <<"s", "a", "a">> :> Dir(TRUE)
ReadOnly == Outside @@ MCRoot :> Dir(FALSE)

MCTrees == {Empty, HasFile, HasDirs, ReadOnly}

Plain(name, chunks) ==
    [name |-> name, isDir |-> FALSE, chunks |-> chunks, fault |-> "none"]

(***************************************************************************)
(* The entries: flat files with and without data, one of them damaged and  *)
(* one unreadable; a nested file; names that are not file names.           *)
(***************************************************************************)
MCEntries ==
    {Plain(<<"a">>, 2), Plain(<<"b">>, 0),
     Plain(<<"a", "b">>, 1), Plain(<<"b", "a", "b">>, 0),
     Plain(<<"..", "a">>, 1), Plain(<<"">>, 0),
     [Plain(<<"b">>, 1) EXCEPT !.fault = "read"],
     [Plain(<<"a", "a">>, 1) EXCEPT !.fault = "open"],
     [Plain(<<"b", "">>, 0) EXCEPT !.isDir = TRUE]}

MCArchives == UNION {[1..n -> MCEntries] : n \in 0..2}

(* For the run about unpacking: sound archives into an empty directory. *)
MCEmpty == {Empty}

MCSound == {<<Plain(<<"a">>, 1)>>, <<Plain(<<"a">>, 1), Plain(<<"b", "a">>, 1)>>}
=============================================================================

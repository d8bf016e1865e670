----------------------------- MODULE ServeFile -----------------------------
(***************************************************************************)
(* One request for a file through the viewer ("/fs/..." in fs-viewer.go):  *)
(* http.FileServer drives a File of package httpfs.  What FileServer does  *)
(* is external: it opens the file, asks how long it is, may read the       *)
(* beginning to guess the type of the contents and seek back, seeks to the *)
(* start of the range if only a part is wanted, and copies with a buffer   *)
(* of a fixed size until it has as many bytes as it promised.              *)
(* The other user modelled here is a program of which nothing is known but *)
(* that it calls the methods of http.File.                                 *)
(***************************************************************************)
EXTENDS HttpFile

CONSTANTS
    Buffer,      \* the size of the buffer that is copied with
    SniffLen     \* how many bytes are used to guess the type

VARIABLES
    url,         \* the address that was asked for, split at the slashes
    pc,          \* "open", "stat", "sniff", "rewind", "range", "copy",
                 \* "done"; or "free", for the other user
    want,        \* the range: [first, length]
    sniffed,     \* how many bytes were read to guess the type
    body,        \* the body of the response
    status       \* "none", "200", "error", "dir"

request == <<url, pc, want, sniffed, body, status>>
allVars == <<vars, request>>

ASSUME BufferAssumption == Buffer \in 1..MaxInt /\ SniffLen \in 1..MaxInt
ASSUME AddressAssumption == Nothing \notin Urls

(* Other addresses are not routed to this handler. *)
Routed(address) == address # <<>> /\ Head(address) = "fs"

ServeInit ==
    /\ Init
    /\ \/ pc = "open" /\ url \in Urls /\ Routed(url)
       \/ pc = "free" /\ url = Nothing
    /\ want = [first |-> 0, length |-> 0]
    /\ sniffed = 0 /\ body = <<>> /\ status = "none"

End(s) == pc' = "done" /\ status' = s

(* http.FileServer(rootDir).ServeHTTP; a directory is left to DirListing.  *)
(* The address was cleaned: it has no empty and no dotted component.       *)
ServeOpen ==
    /\ pc = "open" /\ Open(url)
    /\ IF file'.info.isDir THEN End("dir") ELSE pc' = "stat" /\ UNCHANGED status
    /\ UNCHANGED <<url, want, sniffed, body>>

OpenFails ==
    /\ pc = "open" /\ ~Resolves(Parts(url))
    /\ End("error")
    /\ UNCHANGED <<vars, url, want, sniffed, body>>

(* File.Stat: the length is what it was when the file was opened. *)
Stat ==
    /\ pc = "stat"
    /\ want' = [first |-> 0, length |-> file.info.size]
    /\ pc' \in {"sniff", "range"}       \* is the type known from the name?
    /\ UNCHANGED <<vars, url, sniffed, body, status>>

(* io.ReadFull(content, buf[:SniffLen]) *)
Sniff ==
    /\ pc = "sniff" /\ ~Returned /\ StartRead(SniffLen - sniffed)
    /\ UNCHANGED request

Sniffed ==
    /\ pc = "sniff" /\ Taken
    /\ sniffed' = sniffed + Len(read.got)
    /\ pc' = IF read.state = "EOF" \/ sniffed' = SniffLen THEN "rewind" ELSE "sniff"
    /\ UNCHANGED <<url, want, body, status>>

Rewind ==
    /\ pc = "rewind" /\ Seek(0, "start")
    /\ pc' = "range"
    /\ UNCHANGED <<url, want, sniffed, body, status>>

(* The whole file, or the part of it that a Range header asks for. *)
Whole ==
    /\ pc = "range" /\ pc' = "copy" /\ status' = "200"
    /\ UNCHANGED <<vars, url, want, sniffed, body>>

Part ==
    /\ pc = "range" /\ pc' = "copy" /\ status' = "200"
    /\ \E first \in 0..want.length, n \in 1..want.length :
          /\ first + n <= want.length
          /\ Seek(first, "start") /\ want' = [first |-> first, length |-> n]
    /\ UNCHANGED <<url, sniffed, body>>

Left == want.length - Len(body)

(* io.CopyN: no more than the buffer and no more than what is left. *)
CopyRead ==
    /\ pc = "copy" /\ Left > 0 /\ ~Returned
    /\ StartRead(IF Left < Buffer THEN Left ELSE Buffer)
    /\ UNCHANGED request

CopyWrite ==
    /\ pc = "copy" /\ Left > 0 /\ Taken
    /\ body' = body \o read.got
    /\ IF read.state = "EOF" THEN End("error") ELSE UNCHANGED <<pc, status>>
    /\ UNCHANGED <<url, want, sniffed>>

CopyDone ==
    /\ pc = "copy" /\ Left = 0
    /\ End("200")
    /\ UNCHANGED <<vars, url, want, sniffed, body>>

FileServer ==
    \/ ServeOpen \/ OpenFails \/ Stat \/ Sniff \/ Sniffed \/ Rewind
    \/ Whole \/ Part \/ CopyRead \/ CopyWrite \/ CopyDone

Pipe ==
    /\ pc # "free"
    /\ ReadReturns \/ PipeClose \/ \E n \in 1..Buffer : PipeWrite(n)
    /\ UNCHANGED request

Free == pc = "free" /\ Next /\ UNCHANGED request

ServeNext ==
    \/ FileServer \/ Free \/ Pipe
    \/ pc \notin {"free", "done"} /\ (Environment \/ ReadFails) /\ UNCHANGED request

(***************************************************************************)
(* Goroutines are scheduled; a remote grain that has not failed answers,   *)
(* and closes the pipe unless its Read failed.                             *)
(***************************************************************************)
ServeSpec ==
    /\ ServeInit /\ [][ServeNext]_allVars
    /\ WF_allVars(FileServer)
    /\ WF_allVars(ReadReturns /\ UNCHANGED request)
    /\ WF_allVars(Pipe /\ remote = "up" /\ ~Broken)
-----------------------------------------------------------------------------
ServeTypeOK ==
    /\ TypeOK
    /\ url \in Urls \cup {Nothing}
    /\ pc \in {"free", "open", "stat", "sniff", "rewind", "range", "copy", "done"}
    /\ pc = "free" <=> url = Nothing
    /\ want \in [first : 0..MaxInt, length : 0..MaxInt]
    /\ sniffed \in 0..SniffLen /\ body \in Seq(Nat) /\ Len(body) <= want.length
    /\ status \in {"none", "200", "error", "dir"}

Wanted == [k \in 1..want.length |-> want.first + k]

(***************************************************************************)
(* A request for no more than the buffer holds gets exactly those bytes of *)
(* the file, whatever part of it is wanted, whether or not the beginning   *)
(* was read before, and though others append to the file; one for more     *)
(* gets the right bytes first.  The body is as long as promised, unless    *)
(* the file was cut or the remote or a read of it failed.                  *)
(***************************************************************************)
SmallBodyRight ==
    /\ file # Nothing /\ file.path \notin spoilt /\ want.length <= Buffer =>
           IsPrefix(body, Wanted)
    /\ pc = "done" /\ status = "200" => Len(body) = want.length
    /\ file # Nothing /\ status = "error" => file.path \in spoilt \/ remote = "failed"

(***************************************************************************)
(* The node that was opened is the one the address names under "/fs/", and *)
(* the File says what that node is; a node that is there is always found.  *)
(***************************************************************************)
OpensWhatIsNamed ==
    /\ file # Nothing =>
          /\ pc # "free" => url = <<"fs">> \o file.path
          /\ file.info.isDir = Tree[file.path]
          /\ ~file.info.isDir /\ file.path \notin spoilt =>
                 file.info.size <= size[file.path]
    /\ file = Nothing /\ status = "error" =>
           remote = "failed" \/ Tail(url) \notin DOMAIN Tree

(***************************************************************************)
(* A request is answered, unless from some time on the remote has failed,  *)
(* or a read of its has and the pipe stays open (File.Read waits for the   *)
(* pipe and ignores the answer to read).                                   *)
(***************************************************************************)
RequestEnds ==
    (pc = "open" ~> pc = "done") \/ <>[](remote = "failed" \/ Broken)

(***************************************************************************)
(* templates/fs-viewer-index.html:12-13: click "Browse filesystem" "to     *)
(* view the files".  What a finished response shows is what was asked for; *)
(* the code violates this for files longer than the buffer, since reading  *)
(* does not move the position.                                             *)
(***************************************************************************)
BodyIsFile ==
    pc = "done" /\ status = "200" /\ file.path \notin spoilt => body = Wanted
=============================================================================

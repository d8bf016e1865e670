------------------------------ MODULE HttpFile ------------------------------
(***************************************************************************)
(* A file of package httpfs (filesystem/httpfs/httpfs.go): FileSystem.Open *)
(* finds a node through a chain of walks and remembers what stat said of   *)
(* it; File.Seek moves a position, and File.Read has the remote grain      *)
(* write into one end of a pipe while it reads from the other.             *)
(*                                                                         *)
(* Other clients may append to the file or truncate it meanwhile, and the  *)
(* remote grain may fail, altogether or in a single read.  A byte is named *)
(* by its position, from 1.                                                *)
(***************************************************************************)
EXTENDS Paths, Integers

CONSTANTS
    Tree,        \* the remote tree: path -> is it a directory?
    Urls,        \* the arguments of Open, split at the slashes
    MaxInt,      \* the largest int64
    MaxLen,      \* bound: bytes in a file
    Nothing      \* no open file, no read

VARIABLES
    size,        \* the lengths of the files, now
    spoilt,      \* history: the files that were cut, or of which a read
                 \* failed, since they were opened
    remote,      \* "up" or "failed"
    file,        \* the open File
    read         \* the running or last call of its Read

remoteVars == <<size, spoilt, remote>>
vars == <<remoteVars, file, read>>

Int64 == -(MaxInt + 1)..MaxInt
Files == {p \in DOMAIN Tree : ~Tree[p]}

(* What stat says the exported directory is called. *)
NoName == ""

Info == [name : Segment \cup {NoName}, isDir : BOOLEAN, size : 0..MaxInt]
File == [path : DOMAIN Tree, info : Info, pos : 0..MaxInt]

Read == [at : Nat, amount : 0..MaxInt, got : Seq(Nat),
         state : {"open", "broken", "done", "nil", "EOF"}]

ASSUME TreeAssumption ==
    /\ Tree \in [DOMAIN Tree -> BOOLEAN] /\ DOMAIN Tree \subseteq Path
    /\ <<>> \in DOMAIN Tree
    /\ \A p \in DOMAIN Tree : p # <<>> => Front(p) \in DOMAIN Tree /\ Tree[Front(p)]
ASSUME WidthAssumption == MaxInt \in Nat /\ MaxLen \in 0..MaxInt
ASSUME UrlAssumption == Urls \subseteq Seq(Component)
ASSUME NothingAssumption == Nothing \notin File \cup Read

Reading == read # Nothing /\ read.state \in {"open", "broken", "done"}

Broken == read # Nothing /\ read.state = "broken"

Init ==
    /\ size \in [Files -> 0..MaxLen] /\ spoilt = {} /\ remote = "up"
    /\ file = Nothing /\ read = Nothing
-----------------------------------------------------------------------------
(* Other clients of the remote grain, and its failure. *)
Append1(p) ==
    /\ size[p] < MaxLen
    /\ size' = [size EXCEPT ![p] = @ + 1]
    /\ UNCHANGED <<spoilt, remote, file, read>>

Cut(p) ==
    /\ size[p] > 0
    /\ size' = [size EXCEPT ![p] = @ - 1] /\ spoilt' = spoilt \cup {p}
    /\ UNCHANGED <<remote, file, read>>

Fail ==
    /\ remote = "up" /\ remote' = "failed"
    /\ UNCHANGED <<size, spoilt, file, read>>

Environment == Fail \/ \E p \in Files : Append1(p) \/ Cut(p)
-----------------------------------------------------------------------------
(* Wrong version, for the mutation runs: strips every leading "fs". *)
PartsAll(url) == SelectSeq(url, LAMBDA c : c # "fs")

(* The prefix is stripped once: a directory may have that name too. *)
Parts(url) == IF url # <<>> /\ Head(url) = "fs" THEN Tail(url) ELSE url

(* The walks are pipelined; if one fails, so do the rest and stat. *)
Resolves(parts) ==
    /\ remote = "up"
    /\ \A k \in 1..Len(parts) : validFileName(<<parts[k]>>)
    /\ parts \in DOMAIN Tree

(* What stat says of the node, for as long as the File is open. *)
FileInfo(path) ==
    [name  |-> IF path = <<>> THEN NoName ELSE Last(path),
     isDir |-> Tree[path],
     size  |-> IF Tree[path] THEN 0 ELSE size[path]]

Open(url) ==
    LET path == Parts(url)
    IN  /\ Resolves(path) /\ ~Reading
        /\ file' = [path |-> path, info |-> FileInfo(path), pos |-> 0]
        /\ read' = Nothing /\ spoilt' = {}
        /\ UNCHANGED <<size, remote>>

(* Arithmetic of int64. *)
Wrap(n) ==
    IF n > MaxInt THEN n - 2 * (MaxInt + 1)
    ELSE IF n < -(MaxInt + 1) THEN n + 2 * (MaxInt + 1) ELSE n

Whence == {"start", "current", "end"}

From(whence) ==
    CASE whence = "start"   -> 0
      [] whence = "current" -> file.pos
      [] whence = "end"     -> file.info.size

(* Wrong version, for the mutation runs: does not put the position back. *)
SeekKeepsNegative(offset, whence) ==
    /\ file # Nothing /\ ~file.info.isDir /\ ~Reading
    /\ file' = [file EXCEPT !.pos = Wrap(From(whence) + offset)]
    /\ UNCHANGED <<remoteVars, read>>

(* InvalidArgument if it comes out negative, and then nothing has changed. *)
Seek(offset, whence) ==
    /\ file # Nothing /\ ~file.info.isDir /\ ~Reading
    /\ Wrap(From(whence) + offset) >= 0
    /\ file' = [file EXCEPT !.pos = Wrap(From(whence) + offset)]
    /\ UNCHANGED <<remoteVars, read>>

(* Wrong version, for the mutation runs: reads from the start. *)
StartReadAtZero(amount) ==
    /\ file # Nothing /\ ~file.info.isDir /\ ~Reading
    /\ read' = [at |-> 0, amount |-> amount, got |-> <<>>, state |-> "open"]
    /\ UNCHANGED <<remoteVars, file>>

(* The call that passes the pipe to the remote file ... *)
StartRead(amount) ==
    /\ file # Nothing /\ ~file.info.isDir /\ ~Reading
    /\ read' = [at |-> file.pos, amount |-> amount, got |-> <<>>, state |-> "open"]
    /\ UNCHANGED <<remoteVars, file>>

(* Wrong version, for the mutation runs: takes all there is, not a buffer full. *)
PipeWriteAll(n) ==
    /\ Reading /\ read.state = "open" /\ remote = "up"
    /\ read.at + Len(read.got) + n <= size[file.path]
    /\ read' = [read EXCEPT !.got = @ \o [k \in 1..n |-> read.at + Len(read.got) + k]]
    /\ UNCHANGED <<remoteVars, file>>

(* ... which writes to it, as local.Node's Read does ... *)
PipeWrite(n) ==
    /\ Reading /\ read.state = "open" /\ remote = "up"
    /\ Len(read.got) + n <= read.amount
    /\ read.at + Len(read.got) + n <= size[file.path]
    /\ read' = [read EXCEPT !.got = @ \o [k \in 1..n |-> read.at + Len(read.got) + k]]
    /\ UNCHANGED <<remoteVars, file>>

(***************************************************************************)
(* ... and closes it when it has seen the end.  (What others do to the     *)
(* file between the two is no different from what they do after both.)     *)
(***************************************************************************)
PipeDone ==
    /\ remote = "up"
    /\ \/ Len(read.got) = read.amount
       \/ read.at + Len(read.got) >= size[file.path]

(***************************************************************************)
(* The remote Read returns an error, though its grain is alive: the file   *)
(* cannot be opened, or reading fails.  It does not close the pipe then,   *)
(* and nobody looks at its answer.                                         *)
(***************************************************************************)
ReadFails ==
    /\ Reading /\ read.state = "open" /\ remote = "up"
    /\ read' = [read EXCEPT !.state = "broken"]
    /\ spoilt' = spoilt \cup {file.path}
    /\ UNCHANGED <<size, remote, file>>

(* After a failure the RPC library may close the pipe, or may not. *)
PipeClose ==
    /\ Reading
    /\ Broken \/ (read.state = "open" /\ (PipeDone \/ remote = "failed"))
    /\ read' = [read EXCEPT !.state = "done"]
    /\ UNCHANGED <<remoteVars, file>>

(***************************************************************************)
(* Two wrong versions, for the mutation runs: one does not tell a buffer   *)
(* filled in part from one that got nothing, the other takes neither for   *)
(* the end.                                                                *)
(***************************************************************************)
ReadReturnsShort ==
    /\ Reading
    /\ Len(read.got) = read.amount \/ read.state = "done"
    /\ read' = [read EXCEPT !.state =
                   IF Len(read.got) < read.amount THEN "EOF" ELSE "nil"]
    /\ UNCHANGED <<remoteVars, file>>

ReadReturnsNil ==
    /\ Reading
    /\ Len(read.got) = read.amount \/ read.state = "done"
    /\ read' = [read EXCEPT !.state = "nil"]
    /\ UNCHANGED <<remoteVars, file>>

(***************************************************************************)
(* io.ReadFull: a buffer filled in part is not an error, one that got      *)
(* nothing is EOF.  The position stays where it is.                        *)
(***************************************************************************)
ReadReturns ==
    /\ Reading
    /\ Len(read.got) = read.amount \/ read.state = "done"
    /\ read' = [read EXCEPT !.state =
                   IF read.got = <<>> /\ read.amount > 0 THEN "EOF" ELSE "nil"]
    /\ UNCHANGED <<remoteVars, file>>

Returned == read # Nothing /\ ~Reading

(* The caller takes what Read returned. *)
Taken ==
    /\ Returned /\ read' = Nothing
    /\ UNCHANGED <<remoteVars, file>>

(* The methods of http.File, called in any order. *)
Next ==
    \/ Environment
    \/ \E url \in Urls : Open(url)
    \/ \E offset \in Int64, whence \in Whence : Seek(offset, whence)
    \/ \E amount \in 0..MaxInt : StartRead(amount)
    \/ \E n \in 1..MaxInt : PipeWrite(n)
    \/ PipeClose \/ ReadFails \/ ReadReturns \/ Taken

Spec == Init /\ [][Next]_vars
-----------------------------------------------------------------------------
TypeOK ==
    /\ size \in [Files -> 0..MaxLen] /\ spoilt \subseteq Files
    /\ remote \in {"up", "failed"}
    /\ file \in File \cup {Nothing} /\ read \in Read \cup {Nothing}
    /\ read # Nothing => file # Nothing /\ ~file.info.isDir

(***************************************************************************)
(* A seek goes where it says, as numbers and not as int64, or is refused:  *)
(* there is no offset, however far out, for which the sum of position and  *)
(* offset wraps around to a place in the file.                             *)
(***************************************************************************)
SeekExact ==
    [][\A offset \in Int64, whence \in Whence :
          Seek(offset, whence) => file'.pos = From(whence) + offset]_vars

(***************************************************************************)
(* Read says EOF only if the file ends at or before the position, or was   *)
(* cut, or the remote or one of its reads failed: an answer that is merely *)
(* short is not taken for the end.                                         *)
(***************************************************************************)
EndIsEnd ==
    [][Reading /\ read' # Nothing /\ read'.state = "EOF" =>
          \/ file.path \in spoilt \/ remote = "failed"
          \/ file.info.size <= read.at]_vars
=============================================================================

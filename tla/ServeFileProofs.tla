--------------------------- MODULE ServeFileProofs ---------------------------
(***************************************************************************)
(* The safety properties of an open File, for integers of any width, files *)
(* of any length, any tree and any user; and of a request that is served   *)
(* through it, for buffers of any size.                                    *)
(***************************************************************************)
EXTENDS ServeFile, PathsProofs

(***************************************************************************)
(* What stat said stays true of the file, up to what was appended, until   *)
(* it is cut; and a pipe that was closed had all that was asked for, or    *)
(* all there was when the file was opened, unless something failed.        *)
(***************************************************************************)
SizeInv ==
    file # Nothing =>
        /\ file.info.isDir = Tree[file.path]
        /\ ~file.info.isDir /\ file.path \notin spoilt =>
               file.info.size <= size[file.path]

Excused == remote = "failed" \/ file.path \in spoilt

(* What was read are the bytes from the position on. *)
SliceInv ==
    read # Nothing =>
        /\ Len(read.got) <= read.amount
        /\ \A k \in 1..Len(read.got) : read.got[k] = read.at + k
        /\ read.state = "EOF" => read.got = <<>>

CloseInv ==
    read # Nothing /\ read.state # "open" =>
        \/ Excused
        \/ Len(read.got) = read.amount
        \/ file.info.size <= read.at + Len(read.got)

Inv == TypeOK /\ SizeInv /\ SliceInv /\ CloseInv

LEMMA Width == MaxInt \in Nat /\ MaxLen \in Nat /\ MaxLen <= MaxInt
BY WidthAssumption

LEMMA NotRecords ==
    /\ \A f \in File : f # Nothing
    /\ \A r \in Read : r # Nothing
BY NothingAssumption

LEMMA InitInv == Init => Inv
BY DEF Init, Inv, TypeOK, SizeInv, SliceInv, CloseInv

(* What Open makes of a path that is in the tree is a File. *)
LEMMA OpenMakesFile ==
    ASSUME TypeOK, NEW path \in DOMAIN Tree
    PROVE  [path |-> path, info |-> FileInfo(path), pos |-> 0] \in File
<1>1. Tree[path] \in BOOLEAN
    BY TreeAssumption
<1>2. path # <<>> => Last(path) \in Segment
    <2>1. path \in Seq(Segment)
        BY TreeAssumption DEF Path
    <2>2. path # <<>> => Len(path) \in 1..Len(path)
        BY <2>1, EmptySeq, LenProperties
    <2> QED BY <2>1, <2>2, ElementOfSeq DEF Last
<1>3. ~Tree[path] => size[path] \in 0..MaxInt
    BY Width DEF TypeOK, Files
<1>4. FileInfo(path).name \in Segment \cup {NoName}
    BY <1>2 DEF FileInfo
<1>5. FileInfo(path).size \in 0..MaxInt
    BY <1>3, Width DEF FileInfo
<1>6. FileInfo(path) \in Info
    BY <1>1, <1>4, <1>5 DEF FileInfo, Info
<1> QED BY <1>6, Width DEF File

LEMMA FileFields ==
    ASSUME NEW f \in File
    PROVE  /\ f.path \in DOMAIN Tree
           /\ f.info \in Info
           /\ f.info.isDir \in BOOLEAN
           /\ f.info.size \in 0..MaxInt
           /\ f.pos \in 0..MaxInt
BY DEF File, Info

LEMMA FromBounded ==
    ASSUME file \in File, NEW whence \in Whence
    PROVE  From(whence) \in 0..MaxInt
BY FileFields, Width DEF From, Whence

(***************************************************************************)
(* If the sum wraps around it comes out negative, whatever the width: two  *)
(* numbers that are not negative cannot add up to more than 2 * MaxInt.    *)
(***************************************************************************)
LEMMA WrapRefuses ==
    ASSUME NEW base \in 0..MaxInt, NEW offset \in Int64,
           Wrap(base + offset) >= 0
    PROVE  Wrap(base + offset) = base + offset /\ base + offset \in 0..MaxInt
BY Width DEF Wrap, Int64
-----------------------------------------------------------------------------
LEMMA EnvironmentStep == ASSUME Inv, Environment PROVE Inv'
<1> USE DEF Inv, Excused
<1>1. CASE Fail
    BY <1>1 DEF Fail, TypeOK, SizeInv, SliceInv, CloseInv
<1>2. ASSUME NEW p \in Files, Append1(p) PROVE Inv'
    <2>1. size[p] + 1 \in 0..MaxLen
        BY <1>2, Width DEF Append1, TypeOK
    <2>2. /\ size' \in [Files -> 0..MaxLen]
          /\ \A q \in Files : size[q] <= size'[q]
        BY <1>2, <2>1, Width DEF Append1, TypeOK
    <2>3. TypeOK'
        BY <1>2, <2>2 DEF Append1, TypeOK
    <2>4. SizeInv'
        <3> SUFFICES ASSUME file # Nothing, ~file.info.isDir, file.path \notin spoilt
                     PROVE  file.info.size <= size'[file.path]
            BY <1>2 DEF Append1, SizeInv
        <3>1. file.path \in Files
            BY FileFields DEF TypeOK, SizeInv, Files
        <3>2. file.info.size \in Nat /\ size[file.path] \in Nat /\ size'[file.path] \in Nat
            BY <2>2, <3>1, FileFields, Width DEF TypeOK
        <3> QED BY <2>2, <3>1, <3>2 DEF SizeInv
    <2>5. SliceInv' /\ CloseInv'
        BY <1>2 DEF Append1, SliceInv, CloseInv
    <2> QED BY <2>3, <2>4, <2>5
<1>3. ASSUME NEW p \in Files, Cut(p) PROVE Inv'
    <2>1. size[p] - 1 \in 0..MaxLen
        BY <1>3, Width DEF Cut, TypeOK
    <2>2. TypeOK'
        BY <1>3, <2>1, Width DEF Cut, TypeOK
    <2>3. \A q \in Files : q \notin spoilt' => size'[q] = size[q]
        BY <1>3 DEF Cut, TypeOK
    <2>4. SizeInv'
        <3> SUFFICES ASSUME file # Nothing, ~file.info.isDir, file.path \notin spoilt'
                     PROVE  file.info.size <= size'[file.path]
            BY <1>3 DEF Cut, SizeInv
        <3>1. file.path \in Files
            BY FileFields DEF TypeOK, SizeInv, Files
        <3> QED BY <1>3, <2>3, <3>1 DEF SizeInv, Cut
    <2>5. SliceInv' /\ CloseInv'
        BY <1>3 DEF Cut, SliceInv, CloseInv
    <2> QED BY <2>2, <2>4, <2>5
<1> QED BY <1>1, <1>2, <1>3 DEF Environment

LEMMA OpenStep == ASSUME Inv, NEW address \in Urls, Open(address) PROVE Inv'
<1> DEFINE path == Parts(address)
<1>1. path \in DOMAIN Tree
    BY DEF Open, Resolves
<1>2. /\ file' = [path |-> path, info |-> FileInfo(path), pos |-> 0]
      /\ read' = Nothing /\ spoilt' = {}
      /\ UNCHANGED <<size, remote>>
    BY DEF Open
<1> HIDE DEF path
<1>3. file' \in File
    BY <1>1, <1>2, OpenMakesFile DEF Inv
<1>4. TypeOK'
    BY <1>2, <1>3 DEF Inv, TypeOK
<1>5. file'.path = path /\ file'.info.isDir = Tree[path]
    BY <1>2 DEF FileInfo
<1>6. ~Tree[path] => file'.info.size = size[path] /\ size[path] \in Nat
    BY <1>1, <1>2, Width DEF FileInfo, Inv, TypeOK, Files
<1>7. SizeInv'
    BY <1>2, <1>5, <1>6 DEF SizeInv
<1>8. SliceInv' /\ CloseInv'
    BY <1>2 DEF SliceInv, CloseInv
<1> QED BY <1>4, <1>7, <1>8 DEF Inv

LEMMA SeekStep ==
    ASSUME Inv, NEW offset \in Int64, NEW whence \in Whence, Seek(offset, whence)
    PROVE  Inv' /\ file'.pos = From(whence) + offset
<1> DEFINE n == Wrap(From(whence) + offset)
<1>1. file \in File
    BY DEF Seek, Inv, TypeOK
<1>2. n = From(whence) + offset /\ n \in 0..MaxInt
    BY <1>1, FromBounded, WrapRefuses DEF Seek
<1>3. file' = [file EXCEPT !.pos = n] /\ UNCHANGED <<remoteVars, read>>
    BY DEF Seek
<1> HIDE DEF n
<1>4. /\ file' \in File /\ file'.pos = n
      /\ file'.path = file.path /\ file'.info = file.info
    BY <1>1, <1>2, <1>3 DEF File
<1>5. file # Nothing /\ file' # Nothing
    BY <1>1, <1>4, NotRecords
<1>6. TypeOK'
    BY <1>3, <1>4, <1>5 DEF Inv, TypeOK, remoteVars
<1>7. SizeInv'
    BY <1>3, <1>4, <1>5 DEF Inv, SizeInv, remoteVars
<1>8. SliceInv' /\ CloseInv'
    BY <1>3, <1>4 DEF Inv, SliceInv, CloseInv, Excused, remoteVars
<1> QED BY <1>2, <1>4, <1>6, <1>7, <1>8 DEF Inv

LEMMA ReadFields ==
    ASSUME NEW r \in Read
    PROVE  /\ r.at \in Nat /\ r.amount \in 0..MaxInt /\ r.got \in Seq(Nat)
           /\ Len(r.got) \in Nat
           /\ r.state \in {"open", "broken", "done", "nil", "EOF"}
BY LenProperties DEF Read

LEMMA StartReadStep ==
    ASSUME Inv, NEW amount \in 0..MaxInt, StartRead(amount)
    PROVE  Inv'
<1>1. file \in File
    BY DEF StartRead, Inv, TypeOK
<1>2. /\ read' = [at |-> file.pos, amount |-> amount, got |-> <<>>, state |-> "open"]
      /\ UNCHANGED <<remoteVars, file>> /\ file # Nothing /\ ~file.info.isDir
    BY DEF StartRead
<1>3. file.pos \in Nat /\ <<>> \in Seq(Nat) /\ Len(<<>>) = 0
    BY <1>1, FileFields, EmptySeq, Width
<1>4. read' \in Read
    BY <1>2, <1>3 DEF Read
<1>5. TypeOK'
    BY <1>2, <1>4 DEF Inv, TypeOK, remoteVars
<1>6. SizeInv'
    BY <1>2 DEF Inv, SizeInv, remoteVars
<1>7. SliceInv'
    BY <1>2, <1>3 DEF SliceInv
<1>8. CloseInv'
    BY <1>2 DEF CloseInv
<1> QED BY <1>5, <1>6, <1>7, <1>8 DEF Inv

(* A step of the pipe or the reader leaves everything but the read alone. *)
LEMMA ReadOnlyChanges ==
    ASSUME Inv, UNCHANGED <<remoteVars, file>>, read' \in Read, SliceInv', CloseInv',
           file # Nothing, ~file.info.isDir
    PROVE  Inv'
<1>1. TypeOK'
    BY DEF Inv, TypeOK, remoteVars
<1>2. SizeInv'
    BY DEF Inv, SizeInv, remoteVars
<1> QED BY <1>1, <1>2 DEF Inv

LEMMA ReadingIsRead ==
    ASSUME Inv, Reading
    PROVE  read \in Read /\ read # Nothing /\ file # Nothing /\ ~file.info.isDir
           /\ file \in File
BY DEF Inv, TypeOK, Reading

LEMMA PipeWriteStep ==
    ASSUME Inv, NEW n \in 1..MaxInt, PipeWrite(n)
    PROVE  Inv' /\ read' \in Read
<1> DEFINE chunk == [k \in 1..n |-> read.at + Len(read.got) + k]
<1>1. read \in Read /\ read # Nothing /\ n \in Nat
    BY ReadingIsRead, Width DEF PipeWrite
<1>2. chunk \in Seq(Nat) /\ Len(chunk) = n
    <2>1. \A k \in 1..n : read.at + Len(read.got) + k \in Nat
        BY <1>1, ReadFields
    <2>2. chunk \in Seq(Nat)
        BY <1>1, <2>1, IsASeq
    <2> QED BY <1>1, <2>2, LenProperties
<1>3. read' = [read EXCEPT !.got = read.got \o chunk]
    BY DEF PipeWrite
<1>4. \A k \in 1..n : chunk[k] = read.at + Len(read.got) + k
    OBVIOUS
<1>5. Len(read.got) + n <= read.amount
    BY DEF PipeWrite
<1> HIDE DEF chunk
<1>6. /\ read.got \o chunk \in Seq(Nat)
      /\ Len(read.got \o chunk) = Len(read.got) + n
    BY <1>1, <1>2, ReadFields, ConcatProperties
<1>7. \A k \in 1..Len(read.got \o chunk) : (read.got \o chunk)[k] = read.at + k
    <2> SUFFICES ASSUME NEW k \in 1..(Len(read.got) + n)
                 PROVE  (read.got \o chunk)[k] = read.at + k
        BY <1>6
    <2>1. Len(read.got) \in Nat /\ read.at \in Nat
        BY <1>1, ReadFields
    <2>2. CASE k <= Len(read.got)
        <3>1. (read.got \o chunk)[k] = read.got[k]
            BY <1>1, <1>2, <2>1, <2>2, ReadFields, ConcatProperties
        <3> QED BY <1>1, <2>1, <2>2, <3>1 DEF Inv, SliceInv
    <2>3. CASE ~(k <= Len(read.got))
        <3>1. (read.got \o chunk)[k] = chunk[k - Len(read.got)]
            BY <1>1, <1>2, <2>1, <2>3, ReadFields, ConcatProperties
        <3> QED BY <1>1, <1>4, <2>1, <2>3, <3>1
    <2> QED BY <2>2, <2>3
<1>8. /\ read' \in Read /\ read'.state = "open"
      /\ read'.got = read.got \o chunk
      /\ read'.at = read.at /\ read'.amount = read.amount
    BY <1>1, <1>3, <1>6 DEF Read, PipeWrite
<1>9. SliceInv' /\ CloseInv'
    BY <1>5, <1>6, <1>7, <1>8 DEF SliceInv, CloseInv
<1> QED BY <1>8, <1>9, ReadingIsRead, ReadOnlyChanges DEF PipeWrite

(* With the remote up, the pipe is closed at the end, and no later. *)
LEMMA PipeCloseStep == ASSUME Inv, PipeClose PROVE Inv'
<1>1. /\ read \in Read /\ file \in File
      /\ file # Nothing /\ ~file.info.isDir
    BY ReadingIsRead DEF PipeClose
<1>2. /\ read' = [read EXCEPT !.state = "done"]
      /\ UNCHANGED <<remoteVars, file>>
    BY DEF PipeClose
<1>3. /\ read' \in Read
      /\ read'.got = read.got /\ read'.at = read.at /\ read'.amount = read.amount
    BY <1>1, <1>2 DEF Read
<1>4. \/ Excused
      \/ Len(read.got) = read.amount
      \/ file.info.size <= read.at + Len(read.got)
    <2>1. CASE remote = "failed"
        BY <2>1 DEF Excused
    <2>2. CASE PipeDone /\ file.path \notin spoilt
        <3>1. file.path \in Files
            BY <1>1, FileFields DEF Inv, SizeInv, Files
        <3>2. size[file.path] \in Nat /\ file.info.size \in Nat
            BY <1>1, <3>1, FileFields, Width DEF Inv, TypeOK
        <3>3. file.info.size <= size[file.path]
            BY <1>1, <2>2 DEF Inv, SizeInv
        <3>4. read.at + Len(read.got) \in Nat
            BY <1>1, ReadFields
        <3> QED BY <2>2, <3>2, <3>3, <3>4 DEF PipeDone
    <2>3. CASE file.path \in spoilt
        BY <2>3 DEF Excused
    <2>4. CASE Broken
        BY <2>4 DEF Broken, Inv, CloseInv
    <2> QED BY <2>1, <2>2, <2>3, <2>4 DEF PipeClose
<1>5. CloseInv'
    BY <1>2, <1>3, <1>4 DEF CloseInv, Excused, remoteVars
<1>6. read'.state = "done"
    BY <1>1, <1>2 DEF Read
<1>7. SliceInv'
    <2>1. /\ Len(read.got) <= read.amount
          /\ \A k \in 1..Len(read.got) : read.got[k] = read.at + k
        BY ReadingIsRead DEF PipeClose, Inv, SliceInv
    <2>2. /\ Len(read'.got) <= read'.amount
          /\ \A k \in 1..Len(read'.got) : read'.got[k] = read'.at + k
        BY <1>3, <2>1, Zenon
    <2> QED BY <1>6, <2>2 DEF SliceInv
<1> QED BY <1>1, <1>2, <1>3, <1>5, <1>7, ReadOnlyChanges

(* A read that fails says so in spoilt. *)
LEMMA ReadFailsStep ==
    ASSUME Inv, ReadFails
    PROVE  /\ Inv'
           /\ read' \in Read /\ read'.at = read.at
           /\ read'.amount = read.amount /\ read'.got = read.got
<1>1. /\ read \in Read /\ read # Nothing /\ file \in File
      /\ file # Nothing /\ ~file.info.isDir
    BY ReadingIsRead DEF ReadFails
<1>2. /\ read' = [read EXCEPT !.state = "broken"]
      /\ spoilt' = spoilt \cup {file.path} /\ UNCHANGED <<size, remote, file>>
    BY DEF ReadFails
<1>3. /\ read' \in Read /\ read'.state = "broken"
      /\ read'.got = read.got /\ read'.at = read.at /\ read'.amount = read.amount
    BY <1>1, <1>2 DEF Read
<1>4. file.path \in Files
    BY <1>1, FileFields DEF Inv, SizeInv, Files
<1>5. TypeOK'
    BY <1>1, <1>2, <1>3, <1>4 DEF Inv, TypeOK
<1>6. SizeInv'
    BY <1>1, <1>2 DEF Inv, SizeInv
<1>7. CloseInv'
    BY <1>2 DEF CloseInv, Excused
<1>8. SliceInv'
    <2>1. /\ Len(read.got) <= read.amount
          /\ \A k \in 1..Len(read.got) : read.got[k] = read.at + k
        BY <1>1 DEF Inv, SliceInv
    <2>2. /\ Len(read'.got) <= read'.amount
          /\ \A k \in 1..Len(read'.got) : read'.got[k] = read'.at + k
        BY <1>3, <2>1, Zenon
    <2> QED BY <1>3, <2>2 DEF SliceInv
<1> QED BY <1>3, <1>5, <1>6, <1>7, <1>8 DEF Inv

LEMMA ReadReturnsStep ==
    ASSUME Inv, ReadReturns
    PROVE  /\ Inv'
           /\ read' \in Read /\ read'.at = read.at
           /\ read'.amount = read.amount /\ read'.got = read.got
<1>1. read \in Read /\ read # Nothing /\ file # Nothing /\ ~file.info.isDir
    BY ReadingIsRead DEF ReadReturns
<1>2. /\ read' \in Read /\ read'.at = read.at
      /\ read'.amount = read.amount /\ read'.got = read.got
      /\ read'.state = IF read.got = <<>> /\ read.amount > 0 THEN "EOF" ELSE "nil"
    BY <1>1 DEF ReadReturns, Read
<1>3. SliceInv'
    BY <1>1, <1>2 DEF Inv, SliceInv
<1>4. CloseInv'
    BY <1>1, <1>2 DEF Inv, CloseInv, ReadReturns, Excused, remoteVars
<1> QED BY <1>1, <1>2, <1>3, <1>4, ReadOnlyChanges DEF ReadReturns

LEMMA TakenStep == ASSUME Inv, Taken PROVE Inv'
BY DEF Taken, remoteVars, Inv, TypeOK, SizeInv, SliceInv, CloseInv

LEMMA InvStep == Inv /\ [Next]_vars => Inv'
<1> SUFFICES ASSUME Inv, [Next]_vars PROVE Inv'
    OBVIOUS
<1>1. CASE UNCHANGED vars
    BY <1>1 DEF vars, remoteVars, Inv, TypeOK, SizeInv, SliceInv, CloseInv, Excused
<1> QED BY <1>1, EnvironmentStep, OpenStep, SeekStep, StartReadStep, PipeWriteStep,
           PipeCloseStep, ReadFailsStep, ReadReturnsStep, TakenStep DEF Next

LEMMA InvHolds == Spec => []Inv
BY InitInv, InvStep, PTL DEF Spec
-----------------------------------------------------------------------------
(* Types, in particular that the position stays an int64 in the positive. *)
THEOREM TypeCorrect == Spec => []TypeOK
<1>1. Inv => TypeOK
    BY DEF Inv
<1> QED BY <1>1, InvHolds, PTL

(***************************************************************************)
(* For integers of any width: no seek is led by overflow to a place other  *)
(* than the one it names.                                                  *)
(***************************************************************************)
THEOREM SeeksAreExact == Spec => SeekExact
<1>1. Inv => [\A offset \in Int64, whence \in Whence :
                 Seek(offset, whence) => file'.pos = From(whence) + offset]_vars
    BY SeekStep
<1> QED BY <1>1, InvHolds, PTL DEF SeekExact

(***************************************************************************)
(* For any user and any other clients: EOF is not said in the middle of a  *)
(* file, unless it was cut or the remote grain or a read has failed.       *)
(***************************************************************************)
THEOREM EndOfFileIsTheEnd == Spec => EndIsEnd
<1> DEFINE Step == Reading /\ read' # Nothing /\ read'.state = "EOF" =>
                      \/ file.path \in spoilt \/ remote = "failed"
                      \/ file.info.size <= read.at
<1>1. Inv /\ [Next]_vars => [Step]_vars
    <2> SUFFICES ASSUME Inv, Next, Reading, read' # Nothing, read'.state = "EOF"
                 PROVE  \/ file.path \in spoilt \/ remote = "failed"
                        \/ file.info.size <= read.at
        OBVIOUS
    <2>1. read \in Read /\ file \in File
        BY ReadingIsRead
    <2>2. ReadReturns
        <3>1. CASE Environment
            BY <3>1 DEF Environment, Fail, Append1, Cut, Reading
        <3>2. ASSUME NEW n \in 1..MaxInt, PipeWrite(n) PROVE FALSE
            BY <2>1, <3>2 DEF PipeWrite, Read
        <3>3. CASE PipeClose
            BY <2>1, <3>3 DEF PipeClose, Read
        <3>4. CASE ReadFails
            BY <2>1, <3>4 DEF ReadFails, Read
        <3> QED BY <3>1, <3>2, <3>3, <3>4 DEF Next, Open, Seek, StartRead, Taken, Returned
    <2>3. read.got = <<>> /\ read.amount > 0
        BY <2>1, <2>2 DEF ReadReturns, Read
    <2>4. Len(read.got) = 0 /\ read.state = "done"
        BY <2>1, <2>2, <2>3, ReadFields DEF ReadReturns
    <2>5. read.at + 0 = read.at
        BY <2>1, ReadFields
    <2> QED BY <2>3, <2>4, <2>5 DEF Inv, CloseInv, Excused, Reading
<1> QED BY <1>1, InvHolds, PTL DEF Spec, EndIsEnd
-----------------------------------------------------------------------------
(***************************************************************************)
(* The request.  PhaseInv says what FileServer has found out and asked for *)
(* by the time it is at each of its steps.                                 *)
(***************************************************************************)
PhaseInv ==
    /\ pc = "open" => file = Nothing
    /\ pc \in {"open", "stat", "rewind", "range"} => read = Nothing
    /\ pc \in {"stat", "sniff", "rewind", "range", "copy"} =>
           file # Nothing /\ ~file.info.isDir
    /\ pc \notin {"copy", "done"} =>
           body = <<>> /\ status = "none" /\ want.first = 0
    /\ pc \in {"stat", "sniff", "rewind", "range"} => file.pos = 0
    /\ pc \in {"sniff", "rewind", "range", "copy"} =>
           want.first + want.length <= file.info.size
    /\ pc = "sniff" /\ read # Nothing => read.amount = SniffLen - sniffed
    /\ pc = "copy" => status = "200" /\ file.pos = want.first
    /\ pc = "copy" /\ read # Nothing =>
           /\ Left > 0 /\ read.at = want.first
           /\ read.amount = IF Left < Buffer THEN Left ELSE Buffer

(***************************************************************************)
(* If all fits the buffer, the first read brings all of it, or the file    *)
(* was cut, or the remote has failed and no later read brings anything.    *)
(***************************************************************************)
BodyInv ==
    /\ pc = "done" /\ status = "200" => Left = 0
    /\ file # Nothing /\ status = "error" => pc = "done" /\ Excused
    /\ file # Nothing /\ file.path \notin spoilt /\ want.length <= Buffer =>
           /\ \A k \in 1..Len(body) : body[k] = want.first + k
           /\ pc = "copy" /\ body # <<>> /\ Left > 0 =>
                  remote = "failed" /\ (read # Nothing => read.got = <<>>)

ServeInv == Inv /\ ServeTypeOK /\ PhaseInv /\ BodyInv

LEMMA Buffers == Buffer \in 1..MaxInt /\ SniffLen \in 1..MaxInt
BY BufferAssumption

LEMMA RequestFields ==
    ASSUME ServeTypeOK
    PROVE  /\ want.first \in 0..MaxInt /\ want.length \in 0..MaxInt
           /\ Len(body) \in Nat /\ Left \in Nat
           /\ sniffed \in 0..SniffLen
<1>1. Len(body) \in Nat
    BY LenProperties DEF ServeTypeOK
<1>2. want.first \in 0..MaxInt /\ want.length \in 0..MaxInt
    BY DEF ServeTypeOK
<1> QED BY <1>1, <1>2, Width DEF ServeTypeOK, Left

LEMMA ServeInitInv == ServeInit => ServeInv
<1> SUFFICES ASSUME ServeInit PROVE ServeInv
    OBVIOUS
<1>1. Len(<<>>) = 0 /\ <<>> \in Seq(Nat)
    BY EmptySeq
<1>2. Inv
    BY InitInv DEF ServeInit
<1>3. ServeTypeOK
    BY <1>1, <1>2, Width, Buffers, AddressAssumption DEF ServeInit, ServeTypeOK, Inv
<1>4. PhaseInv
    BY DEF ServeInit, PhaseInv, Init
<1>5. BodyInv
    BY <1>1 DEF ServeInit, BodyInv, Init
<1> QED BY <1>2, <1>3, <1>4, <1>5 DEF ServeInv

(* Every step of a request is one or no step of its File. *)
LEMMA ServeStepMaps == ServeInv /\ [ServeNext]_allVars => [Next]_vars
<1> SUFFICES ASSUME ServeInv, ServeNext PROVE [Next]_vars
    BY DEF allVars
<1>1. CASE FileServer
    <2>1. CASE ServeOpen
        <3>1. url \in Urls
            BY <2>1 DEF ServeOpen, ServeInv, ServeTypeOK
        <3> QED BY <2>1, <3>1 DEF ServeOpen, Next
    <2>2. CASE Sniff
        BY <2>2, RequestFields, Buffers, Width DEF Sniff, Next, ServeInv
    <2>3. CASE Rewind
        BY <2>3, Width DEF Rewind, Next, Int64, Whence
    <2>4. CASE Part
        BY <2>4, RequestFields, Width DEF Part, Next, Int64, Whence, ServeInv
    <2>5. CASE CopyRead
        BY <2>5, RequestFields, Buffers, Width DEF CopyRead, Next, ServeInv
    <2>6. CASE Sniffed \/ CopyWrite
        BY <2>6 DEF Sniffed, CopyWrite, Next
    <2>7. CASE OpenFails \/ Stat \/ Whole \/ CopyDone
        BY <2>7 DEF OpenFails, Stat, Whole, CopyDone
    <2> QED BY <1>1, <2>1, <2>2, <2>3, <2>4, <2>5, <2>6, <2>7 DEF FileServer
<1>2. CASE Free
    BY <1>2 DEF Free
<1>3. CASE Pipe
    BY <1>3, Buffers, Width DEF Pipe, Next
<1>4. CASE Environment \/ ReadFails
    BY <1>4 DEF Next
<1> QED BY <1>1, <1>2, <1>3, <1>4 DEF ServeNext

RequestInv == ServeTypeOK /\ PhaseInv /\ BodyInv

LEMMA NilBody == Len(<<>>) = 0 /\ <<>> \in Seq(Nat)
BY EmptySeq

LEMMA ServeOpenStep == ASSUME ServeInv, Inv', ServeOpen PROVE RequestInv'
<1>1. /\ pc = "open" /\ Open(url)
      /\ UNCHANGED <<url, want, sniffed, body>>
      /\ \/ file'.info.isDir /\ pc' = "done" /\ status' = "dir"
         \/ ~file'.info.isDir /\ pc' = "stat" /\ status' = status
    BY DEF ServeOpen, End
<1>2. file' # Nothing /\ file'.pos = 0 /\ read' = Nothing
    <2> DEFINE f == [path |-> Parts(url), info |-> FileInfo(Parts(url)), pos |-> 0]
    <2>1. f \in File
        BY <1>1, OpenMakesFile DEF Open, Resolves, ServeInv, Inv
    <2>2. f # Nothing /\ f.pos = 0
        BY <2>1, NotRecords
    <2> HIDE DEF f
    <2>3. file' = f /\ read' = Nothing
        BY <1>1 DEF Open, f
    <2> QED BY <2>2, <2>3
<1>3. ServeTypeOK'
    BY <1>1 DEF ServeInv, ServeTypeOK, Inv
<1>4. body = <<>> /\ status = "none" /\ want.first = 0
    BY <1>1 DEF ServeInv, PhaseInv
<1>5. PhaseInv'
    BY <1>1, <1>2, <1>4 DEF PhaseInv
<1>6. BodyInv'
    BY <1>1, <1>4, NilBody DEF BodyInv
<1> QED BY <1>3, <1>5, <1>6 DEF RequestInv

LEMMA OpenFailsStep == ASSUME ServeInv, Inv', OpenFails PROVE RequestInv'
<1>1. /\ pc = "open" /\ pc' = "done" /\ status' = "error"
      /\ UNCHANGED <<vars, url, want, sniffed, body>>
    BY DEF OpenFails, End
<1>2. file = Nothing /\ body = <<>>
    BY <1>1 DEF ServeInv, PhaseInv
<1>3. ServeTypeOK'
    BY <1>1 DEF ServeInv, ServeTypeOK, Inv
<1>4. PhaseInv' /\ BodyInv'
    BY <1>1, <1>2 DEF vars, PhaseInv, BodyInv
<1> QED BY <1>3, <1>4 DEF RequestInv

LEMMA StatStep == ASSUME ServeInv, Inv', Stat PROVE RequestInv'
<1>1. /\ pc = "stat" /\ pc' \in {"sniff", "range"}
      /\ want' = [first |-> 0, length |-> file.info.size]
      /\ UNCHANGED <<vars, url, sniffed, body, status>>
    BY DEF Stat
<1>2. /\ file # Nothing /\ ~file.info.isDir /\ read = Nothing
      /\ body = <<>> /\ status = "none" /\ file.pos = 0
    BY <1>1 DEF ServeInv, PhaseInv
<1>3. file.info.size \in 0..MaxInt
    BY <1>2, FileFields DEF ServeInv, Inv, TypeOK
<1>4. /\ want' \in [first : 0..MaxInt, length : 0..MaxInt]
      /\ want'.first = 0 /\ want'.length = file.info.size
    BY <1>1, <1>3, Width
<1>5. ServeTypeOK'
    BY <1>1, <1>2, <1>3, <1>4, NilBody DEF ServeInv, ServeTypeOK, Inv
<1>6. PhaseInv'
    BY <1>1, <1>2, <1>3, <1>4 DEF vars, PhaseInv
<1>7. BodyInv'
    BY <1>1, <1>2, NilBody DEF vars, BodyInv
<1> QED BY <1>5, <1>6, <1>7 DEF RequestInv

LEMMA SniffStep == ASSUME ServeInv, Inv', Sniff PROVE RequestInv'
<1>1. /\ pc = "sniff" /\ UNCHANGED <<request, remoteVars, file>>
      /\ read'.amount = SniffLen - sniffed
    BY DEF Sniff, StartRead
<1>2. ServeTypeOK'
    BY <1>1 DEF ServeInv, ServeTypeOK, Inv, request
<1>3. PhaseInv'
    BY <1>1 DEF ServeInv, PhaseInv, request
<1>4. BodyInv'
    BY <1>1 DEF ServeInv, BodyInv, request, remoteVars, Excused, Left
<1> QED BY <1>2, <1>3, <1>4 DEF RequestInv

LEMMA SniffedStep == ASSUME ServeInv, Inv', Sniffed PROVE RequestInv'
<1>1. /\ pc = "sniff" /\ pc' \in {"rewind", "sniff"}
      /\ sniffed' = sniffed + Len(read.got)
      /\ read # Nothing /\ read' = Nothing
      /\ UNCHANGED <<remoteVars, file, url, want, body, status>>
    BY DEF Sniffed, Taken, Returned
<1>2. sniffed' \in 0..SniffLen
    <2>1. read.amount = SniffLen - sniffed /\ Len(read.got) <= read.amount
        BY <1>1 DEF ServeInv, PhaseInv, Inv, SliceInv
    <2>2. Len(read.got) \in Nat
        BY <1>1, ReadFields DEF ServeInv, Inv, TypeOK
    <2> QED BY <1>1, <2>1, <2>2, RequestFields, Buffers, Width DEF ServeInv
<1>3. ServeTypeOK'
    BY <1>1, <1>2 DEF ServeInv, ServeTypeOK, Inv
<1>4. PhaseInv'
    BY <1>1 DEF ServeInv, PhaseInv
<1>5. BodyInv'
    BY <1>1 DEF ServeInv, BodyInv, remoteVars, Excused, Left
<1> QED BY <1>3, <1>4, <1>5 DEF RequestInv

(* What a seek from the start does. *)
LEMMA SeekFromStart ==
    ASSUME Inv, NEW first \in 0..MaxInt, Seek(first, "start")
    PROVE  /\ file'.pos = first /\ file'.path = file.path /\ file'.info = file.info
           /\ file # Nothing /\ file' # Nothing /\ UNCHANGED <<remoteVars, read>>
<1>1. first \in Int64 /\ "start" \in Whence
    BY Width DEF Int64, Whence
<1>2. file \in File
    BY DEF Seek, Inv, TypeOK
<1>3. file'.pos = From("start") + first
    BY <1>1, SeekStep
<1>4. file' \in File
    BY <1>1, <1>2, SeekStep, FromBounded, WrapRefuses DEF Seek, File
<1>5. file'.path = file.path /\ file'.info = file.info
    BY <1>2 DEF Seek, File
<1>6. From("start") + first = first
    BY Width DEF From
<1> QED BY <1>2, <1>3, <1>4, <1>5, <1>6, NotRecords DEF Seek

LEMMA RewindStep == ASSUME ServeInv, Inv', Rewind PROVE RequestInv'
<1>1. /\ pc = "rewind" /\ pc' = "range" /\ Seek(0, "start")
      /\ UNCHANGED <<url, want, sniffed, body, status>>
    BY DEF Rewind
<1>2. /\ file'.pos = 0 /\ file'.path = file.path /\ file'.info = file.info
      /\ file # Nothing /\ file' # Nothing /\ UNCHANGED <<remoteVars, read>>
    BY <1>1, SeekFromStart, Width DEF ServeInv
<1>3. ServeTypeOK'
    BY <1>1 DEF ServeInv, ServeTypeOK, Inv
<1>4. PhaseInv'
    BY <1>1, <1>2 DEF ServeInv, PhaseInv
<1>5. BodyInv'
    BY <1>1, <1>2 DEF ServeInv, BodyInv, PhaseInv, remoteVars, Excused, Left
<1> QED BY <1>3, <1>4, <1>5 DEF RequestInv

LEMMA WholeStep == ASSUME ServeInv, Inv', Whole PROVE RequestInv'
<1>1. /\ pc = "range" /\ pc' = "copy" /\ status' = "200"
      /\ UNCHANGED <<vars, url, want, sniffed, body>>
    BY DEF Whole
<1>2. ServeTypeOK'
    BY <1>1 DEF ServeInv, ServeTypeOK, Inv
<1>3. PhaseInv'
    BY <1>1 DEF vars, ServeInv, PhaseInv, Left
<1>4. BodyInv'
    BY <1>1, NilBody DEF vars, ServeInv, PhaseInv, BodyInv
<1> QED BY <1>2, <1>3, <1>4 DEF RequestInv

LEMMA PartStep == ASSUME ServeInv, Inv', Part PROVE RequestInv'
<1>1. PICK first \in 0..want.length, n \in 1..want.length :
          /\ first + n <= want.length
          /\ Seek(first, "start") /\ want' = [first |-> first, length |-> n]
    BY DEF Part
<1>2. /\ pc = "range" /\ pc' = "copy" /\ status' = "200"
      /\ UNCHANGED <<url, sniffed, body>>
    BY DEF Part
<1>3. first \in 0..MaxInt /\ n \in 0..MaxInt /\ want.length \in 0..MaxInt
    BY RequestFields, Width DEF ServeInv
<1>4. /\ file'.pos = first /\ file'.path = file.path /\ file'.info = file.info
      /\ file # Nothing /\ file' # Nothing /\ UNCHANGED <<remoteVars, read>>
    BY <1>1, <1>3, SeekFromStart DEF ServeInv
<1>5. /\ want' \in [first : 0..MaxInt, length : 0..MaxInt]
      /\ want'.first = first /\ want'.length = n
    BY <1>1, <1>3
<1>6. read = Nothing /\ body = <<>> /\ ~file.info.isDir /\ want.length <= file.info.size
    BY <1>2, RequestFields, Width DEF ServeInv, PhaseInv
<1>7. first + n <= file.info.size
    BY <1>1, <1>3, <1>4, <1>6, FileFields, Width DEF ServeInv, Inv, TypeOK
<1>8. ServeTypeOK'
    BY <1>2, <1>3, <1>5, <1>6, NilBody, Width DEF ServeInv, ServeTypeOK, Inv
<1>9. PhaseInv'
    BY <1>2, <1>4, <1>5, <1>6, <1>7 DEF PhaseInv
<1>10. BodyInv'
    BY <1>2, <1>6, NilBody DEF BodyInv
<1> QED BY <1>8, <1>9, <1>10 DEF RequestInv

LEMMA CopyReadStep == ASSUME ServeInv, Inv', CopyRead PROVE RequestInv'
<1>1. /\ pc = "copy" /\ Left > 0 /\ UNCHANGED <<request, remoteVars, file>>
      /\ read' = [at |-> file.pos, amount |-> IF Left < Buffer THEN Left ELSE Buffer,
                  got |-> <<>>, state |-> "open"]
    BY DEF CopyRead, StartRead
<1>2. /\ read'.at = want.first /\ read'.got = <<>>
      /\ read'.amount = IF Left < Buffer THEN Left ELSE Buffer
    BY <1>1 DEF ServeInv, PhaseInv
<1>3. ServeTypeOK'
    BY <1>1 DEF ServeInv, ServeTypeOK, Inv, request
<1>4. Left' = Left
    BY <1>1 DEF request, Left
<1>5. PhaseInv'
    BY <1>1, <1>2, <1>4 DEF ServeInv, PhaseInv, request
<1>6. BodyInv'
    BY <1>1, <1>2, <1>4 DEF ServeInv, BodyInv, request, remoteVars, Excused
<1> QED BY <1>3, <1>5, <1>6 DEF RequestInv

LEMMA CopyDoneStep == ASSUME ServeInv, Inv', CopyDone PROVE RequestInv'
<1>1. /\ pc = "copy" /\ Left = 0 /\ pc' = "done" /\ status' = "200"
      /\ UNCHANGED <<vars, url, want, sniffed, body>>
    BY DEF CopyDone, End
<1>2. ServeTypeOK'
    BY <1>1 DEF ServeInv, ServeTypeOK, Inv
<1>3. PhaseInv'
    BY <1>1 DEF PhaseInv
<1>4. Left' = 0
    BY <1>1 DEF Left
<1>5. file' = file /\ spoilt' = spoilt
    BY <1>1 DEF vars, remoteVars
<1>6. BodyInv'
    BY <1>1, <1>4, <1>5 DEF ServeInv, BodyInv
<1> QED BY <1>2, <1>3, <1>6 DEF RequestInv

LEMMA CopyWriteStep == ASSUME ServeInv, Inv', CopyWrite PROVE RequestInv'
<1>1. /\ pc = "copy" /\ Left > 0
      /\ read # Nothing /\ ~Reading /\ read' = Nothing
      /\ UNCHANGED <<remoteVars, file, url, want, sniffed>>
      /\ body' = body \o read.got
      /\ \/ read.state = "EOF" /\ pc' = "done" /\ status' = "error"
         \/ pc' = pc /\ status' = status
    BY DEF CopyWrite, Taken, Returned, End
<1>2. /\ read \in Read /\ file \in File /\ file # Nothing
      /\ read.state \notin {"open", "done"}
    BY <1>1 DEF ServeInv, Inv, TypeOK, Reading
<1>3. /\ read.at = want.first
      /\ read.amount = IF Left < Buffer THEN Left ELSE Buffer
      /\ status = "200" /\ want.first + want.length <= file.info.size
    BY <1>1 DEF ServeInv, PhaseInv
<1>4. /\ Len(read.got) <= read.amount
      /\ \A k \in 1..Len(read.got) : read.got[k] = read.at + k
      /\ read.state = "EOF" => read.got = <<>>
    BY <1>1 DEF ServeInv, Inv, SliceInv
<1>5. /\ want.first \in Nat /\ want.length \in Nat /\ Left \in Nat
      /\ Len(body) \in Nat /\ Left = want.length - Len(body)
      /\ body \in Seq(Nat) /\ read.got \in Seq(Nat) /\ Len(read.got) \in Nat
      /\ read.amount \in Nat /\ Buffer \in Nat /\ Buffer > 0
      /\ file.info.size \in Nat
    BY <1>2, RequestFields, ReadFields, FileFields, Buffers, Width
       DEF ServeInv, ServeTypeOK, Left
<1>6. body' \in Seq(Nat) /\ Len(body') = Len(body) + Len(read.got)
    BY <1>1, <1>5, ConcatProperties
<1>7. Len(read.got) <= Left
    BY <1>3, <1>4, <1>5
<1>8. ServeTypeOK'
    BY <1>1, <1>5, <1>6, <1>7 DEF ServeInv, ServeTypeOK, Inv
<1>9. PhaseInv'
    BY <1>1 DEF ServeInv, PhaseInv
<1>10. ASSUME Len(read.got) < read.amount, file.path \notin spoilt
       PROVE  remote = "failed" \/ file.info.size <= want.first + Len(read.got)
    <2>1. Len(read.got) # read.amount
        BY <1>5, <1>10
    <2>2. CloseInv /\ read.state # "open"
        BY <1>2 DEF ServeInv, Inv
    <2> QED BY <1>1, <1>3, <1>10, <2>1, <2>2 DEF CloseInv, Excused
<1>11. read.state = "EOF" => Excused
    <2> SUFFICES ASSUME read.state = "EOF", file.path \notin spoilt PROVE remote = "failed"
        BY DEF Excused
    <2>1. Len(read.got) = 0
        BY <1>4, NilBody
    <2>2. 0 < read.amount /\ 0 < want.length
        BY <1>1, <1>3, <1>5
    <2>3. remote = "failed" \/ file.info.size <= want.first
        BY <1>5, <1>10, <2>1, <2>2
    <2>4. ~(file.info.size <= want.first)
        BY <1>3, <1>5, <2>2
    <2> QED BY <2>3, <2>4
<1>12. ASSUME file.path \notin spoilt, want.length <= Buffer
       PROVE  /\ \A k \in 1..Len(body') : body'[k] = want.first + k
              /\ body' # <<>> /\ Len(body') < want.length => remote = "failed"
    <2>1. CASE body = <<>>
        <3>1. Len(body) = 0 /\ Left = want.length /\ read.amount = want.length
            BY <1>3, <1>5, <1>12, <2>1, NilBody
        <3>2. body' = read.got
            BY <1>1, <1>5, <2>1, ConcatEmptySeq
        <3>3. Len(read.got) < want.length => remote = "failed"
            <4>1. ~(file.info.size <= want.first + Len(read.got)) \/ ~(Len(read.got) < want.length)
                BY <1>3, <1>5
            <4> QED BY <1>10, <1>12, <3>1, <4>1
        <3> QED BY <1>3, <1>4, <3>2, <3>3
    <2>2. CASE body # <<>>
        <3>1. remote = "failed" /\ read.got = <<>>
            BY <1>1, <1>2, <1>12, <2>2 DEF ServeInv, BodyInv
        <3>2. body' = body
            BY <1>1, <1>5, <3>1, ConcatEmptySeq
        <3> QED BY <1>2, <1>12, <3>1, <3>2 DEF ServeInv, BodyInv
    <2> QED BY <2>1, <2>2
<1>13. BodyInv'
    <2>1. /\ pc' = "done" /\ status' = "200" => FALSE
          /\ status' = "error" => pc' = "done" /\ Excused'
        BY <1>1, <1>3, <1>11 DEF Excused, remoteVars
    <2>2. Left' > 0 => Len(body') < want.length
        BY <1>1, <1>5, <1>6 DEF Left
    <2> QED BY <1>1, <1>12, <2>1, <2>2 DEF BodyInv, remoteVars
<1> QED BY <1>8, <1>9, <1>13 DEF RequestInv

(* What the two ends of the pipe leave alone. *)
LEMMA PipeKeeps ==
    ASSUME Inv, ReadReturns \/ PipeClose \/ \E n \in 1..Buffer : PipeWrite(n)
    PROVE  /\ UNCHANGED <<remoteVars, file>> /\ read # Nothing /\ read' # Nothing
           /\ read'.at = read.at /\ read'.amount = read.amount
           /\ remote = "failed" => read'.got = read.got
<1>1. read \in Read /\ read # Nothing
    BY ReadingIsRead DEF ReadReturns, PipeClose, PipeWrite
<1>2. CASE ReadReturns
    BY <1>1, <1>2, ReadReturnsStep, NotRecords DEF ReadReturns
<1>3. CASE PipeClose
    <2>1. read' \in Read
        BY <1>1, <1>3 DEF PipeClose, Read
    <2>2. /\ read'.at = read.at /\ read'.amount = read.amount
          /\ read'.got = read.got
        BY <1>1, <1>3 DEF PipeClose, Read
    <2> QED BY <1>1, <1>3, <2>1, <2>2, NotRecords DEF PipeClose
<1>4. ASSUME NEW n \in 1..Buffer, PipeWrite(n)
      PROVE  /\ UNCHANGED <<remoteVars, file>> /\ read' # Nothing
             /\ read'.at = read.at /\ read'.amount = read.amount
             /\ remote # "failed"
    <2>1. n \in 1..MaxInt
        BY Buffers, Width
    <2>2. read' # Nothing
        BY <1>4, <2>1, PipeWriteStep, NotRecords
    <2>3. read'.at = read.at /\ read'.amount = read.amount
        BY <1>1, <1>4 DEF PipeWrite, Read
    <2> QED BY <1>4, <2>2, <2>3 DEF PipeWrite
<1> QED BY <1>1, <1>2, <1>3, <1>4

LEMMA PipeStep == ASSUME ServeInv, Inv', Pipe PROVE RequestInv'
<1>1. /\ UNCHANGED <<remoteVars, file>> /\ read # Nothing /\ read' # Nothing
      /\ read'.at = read.at /\ read'.amount = read.amount
      /\ remote = "failed" => read'.got = read.got
    BY PipeKeeps DEF Pipe, ServeInv
<1>2. UNCHANGED request
    BY DEF Pipe
<1>3. ServeTypeOK'
    BY <1>2 DEF ServeInv, ServeTypeOK, Inv, request
<1>4. Left' = Left
    BY <1>2 DEF request, Left
<1>5. PhaseInv'
    BY <1>1, <1>2, <1>4 DEF ServeInv, PhaseInv, request
<1>6. BodyInv'
    BY <1>1, <1>2, <1>4 DEF ServeInv, BodyInv, request, remoteVars, Excused
<1> QED BY <1>3, <1>5, <1>6 DEF RequestInv

LEMMA OthersStep ==
    ASSUME ServeInv, Inv', Environment \/ ReadFails, UNCHANGED request
    PROVE  RequestInv'
<1>1. /\ file' = file /\ spoilt \subseteq spoilt'
      /\ remote = "failed" => remote' = "failed"
      /\ read' # Nothing => read # Nothing /\ read'.at = read.at
                            /\ read'.amount = read.amount /\ read'.got = read.got
    <2>1. CASE Environment
        BY <2>1 DEF Environment, Fail, Append1, Cut
    <2>2. CASE ReadFails
        BY <2>2, ReadFailsStep DEF ReadFails, Reading, ServeInv
    <2> QED BY <2>1, <2>2
<1>2. read = Nothing => read' = Nothing
    BY DEF Environment, Fail, Append1, Cut, ReadFails, Reading
<1>3. ServeTypeOK'
    BY DEF ServeInv, ServeTypeOK, Inv, request
<1>4. Left' = Left
    BY DEF request, Left
<1>5. PhaseInv'
    BY <1>1, <1>2, <1>4 DEF ServeInv, PhaseInv, request
<1>6. BodyInv'
    BY <1>1, <1>4 DEF ServeInv, BodyInv, request, Excused
<1> QED BY <1>3, <1>5, <1>6 DEF RequestInv

LEMMA FreeStep == ASSUME ServeInv, Inv', Free PROVE RequestInv'
<1>1. pc = "free" /\ UNCHANGED request
    BY DEF Free
<1>2. body = <<>> /\ status = "none" /\ want.first = 0
    BY <1>1 DEF ServeInv, PhaseInv
<1>3. ServeTypeOK'
    BY <1>1 DEF ServeInv, ServeTypeOK, Inv, request
<1>4. PhaseInv'
    BY <1>1, <1>2 DEF PhaseInv, request
<1>5. BodyInv'
    BY <1>1, <1>2, NilBody DEF BodyInv, request
<1> QED BY <1>3, <1>4, <1>5 DEF RequestInv

LEMMA ServeInvStep == ServeInv /\ [ServeNext]_allVars => ServeInv'
<1> SUFFICES ASSUME ServeInv, [ServeNext]_allVars PROVE ServeInv'
    OBVIOUS
<1>1. Inv'
    BY ServeStepMaps, InvStep DEF ServeInv
<1>2. RequestInv'
    <2>1. CASE UNCHANGED allVars
        BY <2>1 DEF allVars, vars, remoteVars, request, ServeInv, RequestInv,
              Inv, TypeOK, ServeTypeOK, PhaseInv, BodyInv, Excused, Left
    <2>2. CASE ServeNext
        BY <1>1, <2>2, ServeOpenStep, OpenFailsStep, StatStep, SniffStep, SniffedStep,
           RewindStep, WholeStep, PartStep, CopyReadStep, CopyWriteStep, CopyDoneStep,
           FreeStep, PipeStep, OthersStep
           DEF ServeNext, FileServer
    <2> QED BY <2>1, <2>2
<1> QED BY <1>1, <1>2 DEF ServeInv, RequestInv

LEMMA ServeInvHolds == ServeSpec => []ServeInv
BY ServeInitInv, ServeInvStep, PTL DEF ServeSpec

(* Types of a request and its File. *)
THEOREM ServeTypeCorrect == ServeSpec => []ServeTypeOK
<1>1. ServeInv => ServeTypeOK
    BY DEF ServeInv
<1> QED BY <1>1, ServeInvHolds, PTL

(***************************************************************************)
(* FileServer is a user of a File: what holds of every user, such as       *)
(* SeeksAreExact and EndOfFileIsTheEnd, holds of a request.                *)
(***************************************************************************)
THEOREM ServeImplementsFile == ServeSpec => Spec
<1>1. ServeInit => Init
    BY DEF ServeInit
<1> QED BY <1>1, ServeInvHolds, ServeStepMaps, PTL DEF ServeSpec, Spec

(***************************************************************************)
(* For buffers and files of any size: what fits the buffer is served right *)
(* whatever part of it is wanted and whatever others do to the file, short *)
(* of cutting it, and no response falls short without an error that has a  *)
(* reason.                                                                 *)
(***************************************************************************)
THEOREM SmallBodiesAreRight == ServeSpec => []SmallBodyRight
<1>1. ServeInv => SmallBodyRight
    <2> SUFFICES ASSUME ServeInv PROVE SmallBodyRight
        OBVIOUS
    <2>1. /\ body \in Seq(Nat) /\ Len(body) \in Nat /\ want.length \in Nat
          /\ want.first \in Nat /\ Len(body) <= want.length
        BY RequestFields, Width DEF ServeInv, ServeTypeOK
    <2>2. ASSUME file # Nothing, file.path \notin spoilt, want.length <= Buffer
          PROVE  IsPrefix(body, Wanted)
        <3>1. \A k \in 1..Len(body) : body[k] = want.first + k
            BY <2>2 DEF ServeInv, BodyInv
        <3>2. \A k \in 1..want.length : want.first + k \in Nat
            BY <2>1
        <3>3. Wanted \in Seq(Nat)
            BY <2>1, <3>2, IsASeq DEF Wanted
        <3>4. Len(Wanted) = want.length /\ \A k \in 1..want.length : Wanted[k] = want.first + k
            BY <2>1, <3>3, LenProperties DEF Wanted
        <3>5. \A k \in 1..Len(body) : SubSeq(Wanted, 1, Len(body))[k] = Wanted[k]
            BY <2>1, <3>3, <3>4, SubSeqProperties
        <3>6. SubSeq(Wanted, 1, Len(body)) \in Seq(Nat)
              /\ Len(SubSeq(Wanted, 1, Len(body))) = Len(body)
            BY <2>1, <3>3, <3>4, SubSeqProperties
        <3>7. \A k \in 1..Len(body) : body[k] = SubSeq(Wanted, 1, Len(body))[k]
            BY <2>1, <3>1, <3>4, <3>5
        <3>8. body = SubSeq(Wanted, 1, Len(body))
            BY <2>1, <3>6, <3>7, SeqEqual
        <3> QED BY <2>1, <3>4, <3>8 DEF IsPrefix
    <2>3. pc = "done" /\ status = "200" => Len(body) = want.length
        BY <2>1 DEF ServeInv, BodyInv, Left
    <2>4. file # Nothing /\ status = "error" => file.path \in spoilt \/ remote = "failed"
        BY DEF ServeInv, BodyInv, Excused
    <2> QED BY <2>2, <2>3, <2>4 DEF SmallBodyRight
<1> QED BY <1>1, ServeInvHolds, PTL
-----------------------------------------------------------------------------
(***************************************************************************)
(* Which node is opened.  A request that has a File has the one its        *)
(* address names; one that ended without had no node to open.              *)
(***************************************************************************)
NameInv ==
    pc # "free" =>
        /\ Routed(url)
        /\ file # Nothing => url = <<"fs">> \o file.path
        /\ file = Nothing /\ status = "error" =>
               remote = "failed" \/ Tail(url) \notin DOMAIN Tree

(* The prefix "/fs/" comes off once. *)
LEMMA AddressSplits ==
    ASSUME NEW address \in Urls, Routed(address)
    PROVE  /\ Parts(address) = Tail(address)
           /\ address = <<"fs">> \o Tail(address)
<1>1. address \in Seq(Component) /\ address # <<>> /\ Head(address) = "fs"
    BY UrlAssumption DEF Routed
<1> DEFINE t == Tail(address)
           u == <<"fs">> \o t
<1>2. /\ t \in Seq(Component) /\ Len(t) = Len(address) - 1 /\ "fs" \in Component
      /\ \A k \in 1..Len(t) : t[k] = address[k + 1]
      /\ Len(address) \in Nat /\ Len(address) > 0 /\ address[1] = "fs"
    <2>1. Len(address) \in Nat /\ Len(address) # 0
        BY <1>1, EmptySeq, LenProperties
    <2>2. Head(address) = address[1]
        BY <1>1
    <2> QED BY <1>1, <2>1, <2>2, HeadTailProperties
<1> HIDE DEF t
<1>3. <<"fs">> \in Seq(Component) /\ Len(<<"fs">>) = 1 /\ <<"fs">>[1] = "fs"
    BY <1>2
<1>4. /\ u \in Seq(Component) /\ Len(u) = Len(address)
      /\ \A k \in 1..Len(u) : u[k] = IF k <= 1 THEN <<"fs">>[k] ELSE t[k - 1]
    BY <1>2, <1>3, ConcatProperties
<1> HIDE DEF u
<1>5. \A k \in 1..Len(address) : address[k] = u[k]
    <2> TAKE k \in 1..Len(address)
    <2>1. CASE k = 1
        BY <2>1, <1>2, <1>3, <1>4
    <2>2. CASE k # 1
        <3>1. k - 1 \in 1..Len(t) /\ (k - 1) + 1 = k
            BY <2>2, <1>2
        <3>2. t[k - 1] = address[k]
            BY <3>1, <1>2
        <3> QED BY <2>2, <3>2, <1>2, <1>4
    <2> QED BY <2>1, <2>2
<1>6. address = u
    BY <1>1, <1>4, <1>5, SeqEqual
<1>7. Parts(address) = t
    BY <1>1 DEF Parts, t
<1> QED BY <1>6, <1>7 DEF t, u

(* Every name in the tree is one that the remote directory accepts. *)
LEMMA NodesResolve ==
    ASSUME NEW path \in DOMAIN Tree
    PROVE  \A k \in 1..Len(path) : validFileName(<<path[k]>>)
<1>1. path \in Seq(Segment)
    BY TreeAssumption DEF Path
<1> TAKE k \in 1..Len(path)
<1>2. path[k] \in Segment
    BY <1>1, ElementOfSeq
<1> QED BY <1>2, SegmentsAreValid

(* Moving the position leaves it the same File. *)
LEMMA SeekStays ==
    ASSUME file \in File, NEW n, file' = [file EXCEPT !.pos = n]
    PROVE  file'.path = file.path
BY DEF File

LEMMA NameStep ==
    ASSUME ServeInv, NameInv, [ServeNext]_allVars
    PROVE  NameInv'
<1>1. CASE pc = "free"
    <2>1. pc' = "free"
        BY <1>1 DEF ServeNext, FileServer, ServeOpen, OpenFails, Stat, Sniff, Sniffed, Rewind,
              Whole, Part, CopyRead, CopyWrite, CopyDone, Free, Pipe, request, allVars
    <2> QED BY <2>1 DEF NameInv
<1>2. CASE pc # "free"
    <2>1. Routed(url) /\ url \in Urls
        BY <1>2 DEF NameInv, ServeInv, ServeTypeOK
    <2>2. CASE ServeOpen
        <3>1. /\ url' = url /\ pc = "open" /\ file' # Nothing
              /\ file'.path = Parts(url)
            <4> DEFINE f == [path |-> Parts(url), info |-> FileInfo(Parts(url)), pos |-> 0]
            <4>1. f \in File
                BY <2>2, OpenMakesFile DEF ServeOpen, Open, Resolves, ServeInv, Inv
            <4>2. f # Nothing /\ f.path = Parts(url)
                BY <4>1, NotRecords
            <4> HIDE DEF f
            <4>3. file' = f /\ url' = url /\ pc = "open"
                BY <2>2 DEF ServeOpen, Open, f
            <4> QED BY <4>2, <4>3
        <3> QED BY <2>1, <3>1, AddressSplits DEF NameInv, Routed
    <2>3. CASE OpenFails
        <3>1. /\ file = Nothing /\ UNCHANGED <<url, file, remote>>
              /\ ~Resolves(Tail(url))
            BY <2>1, <2>3, AddressSplits
               DEF OpenFails, vars, remoteVars, ServeInv, PhaseInv
        <3>2. remote = "failed" \/ Tail(url) \notin DOMAIN Tree
            BY <3>1, NodesResolve DEF Resolves, ServeInv, Inv, TypeOK
        <3> QED BY <2>1, <3>1, <3>2 DEF NameInv, Routed
    <2>4. CASE Rewind \/ Part
        <3>1. file \in File /\ file # Nothing /\ UNCHANGED url /\ status' # "error"
            BY <2>4 DEF Rewind, Part, Seek, ServeInv, Inv, TypeOK, PhaseInv
        <3>2. PICK n : file' = [file EXCEPT !.pos = n]
            BY <2>4 DEF Rewind, Part, Seek
        <3> QED BY <1>2, <3>1, <3>2, SeekStays DEF NameInv, Routed
    <2>5. ASSUME UNCHANGED <<url, file>>, remote = "failed" => remote' = "failed",
                 status' = "error" => status = "error" \/ file # Nothing
          PROVE  NameInv'
        BY <1>2, <2>5 DEF NameInv, Routed
    <2>6. CASE Stat \/ Whole \/ CopyDone \/ UNCHANGED allVars
        BY <2>5, <2>6 DEF Stat, Whole, CopyDone, End, allVars, vars, remoteVars, request
    <2>7. CASE Sniff \/ Sniffed \/ CopyRead \/ CopyWrite
        BY <2>5, <2>7 DEF Sniff, Sniffed, CopyRead, CopyWrite, StartRead, Taken, End,
              remoteVars, request, ServeInv, PhaseInv
    <2>8. CASE Pipe
        BY <2>5, <2>8, PipeKeeps DEF Pipe, remoteVars, request, ServeInv
    <2>9. CASE (Environment \/ ReadFails) /\ UNCHANGED request
        BY <2>5, <2>9 DEF Environment, Fail, Append1, Cut, ReadFails, request
    <2> QED BY <1>2, <2>2, <2>3, <2>4, <2>6, <2>7, <2>8, <2>9 DEF ServeNext, FileServer, Free
<1> QED BY <1>1, <1>2

LEMMA NameHolds == ServeSpec => [](ServeInv /\ NameInv)
<1>1. ServeInit => NameInv
    BY DEF ServeInit, Init, NameInv
<1>2. ServeInv /\ NameInv /\ [ServeNext]_allVars => NameInv'
    BY NameStep
<1> QED BY <1>1, <1>2, ServeInvHolds, PTL DEF ServeSpec

(***************************************************************************)
(* For any tree, any addresses and any user: the node that is opened is    *)
(* the one that the address names under "/fs/", the File says what it is,  *)
(* and a node that is there is found (FileSystem.Open).                    *)
(***************************************************************************)
THEOREM NamedNodeIsOpened == ServeSpec => []OpensWhatIsNamed
<1>1. ServeInv /\ NameInv => OpensWhatIsNamed
    <2> SUFFICES ASSUME ServeInv, NameInv PROVE OpensWhatIsNamed
        OBVIOUS
    <2>1. SizeInv
        BY DEF ServeInv, Inv
    <2>2. file = Nothing /\ status = "error" => pc # "free"
        BY DEF ServeInv, PhaseInv
    <2> QED BY <2>1, <2>2 DEF NameInv, SizeInv, OpensWhatIsNamed
<1> QED BY <1>1, NameHolds, PTL
=============================================================================

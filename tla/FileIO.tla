------------------------------- MODULE FileIO -------------------------------
(***************************************************************************)
(* The contents of one file under local.Node's Write, Truncate and Read    *)
(* (filesystem/local/local.go).                                            *)
(*                                                                         *)
(* Write answers with a sink, an open file that the client pushes bytes    *)
(* into for as long as it likes; Read copies from the file into a sink of  *)
(* the client, chunk by chunk.  Any number of sinks and reads may be open  *)
(* on the file at once, and nothing is locked.  A byte is modelled by the  *)
(* sink it came through.                                                   *)
(***************************************************************************)
EXTENDS Integers, Sequences

CONSTANTS
    Sinks,       \* the slots of sinks handed out by Write
    Closed,      \* a slot that is free
    Readers,     \* the slots of Read calls
    NoRead,      \* a slot in which nothing was read yet
    Zero,        \* the byte a file is extended with
    MaxInt,      \* the largest int64
    Offsets,     \* the values of startAt
    Amounts,     \* the values of amount
    Sizes,       \* the values of size
    Chunk,       \* bound: bytes per system call
    MaxLen       \* bound: bytes in the file

VARIABLES
    content,     \* the bytes of the file
    sinks,       \* the position of each open sink's file descriptor
    reads,       \* the Read calls
    cut          \* history: the reads that were overtaken by a truncation

vars == <<content, sinks, reads, cut>>

Int64  == -(MaxInt + 1)..MaxInt
UInt64 == 0..(2 * MaxInt + 1)
Byte   == Sinks \cup {Zero}

(***************************************************************************)
(* The file position of a running Read is startAt + Len(got); what it read *)
(* and handed to its sink is got.                                          *)
(***************************************************************************)
Read == [state : {"copying", "ended", "done", "failed"}, startAt : 0..MaxInt,
         amount : UInt64, got : Seq(Byte)]

ASSUME WidthAssumption  == MaxInt \in Nat /\ MaxLen \in 0..MaxInt /\ Chunk \in Nat \ {0}
ASSUME InputAssumption  ==
    Offsets \subseteq Int64 /\ Amounts \subseteq UInt64 /\ Sizes \subseteq UInt64
ASSUME SlotAssumption   == Closed \notin 0..MaxInt /\ NoRead \notin Read

(* The conversion int64(u). *)
AsInt64(u) == IF u <= MaxInt THEN u ELSE u - 2 * (MaxInt + 1)

Init ==
    /\ content = <<>>
    /\ sinks = [s \in Sinks |-> Closed]
    /\ reads = [r \in Readers |-> NoRead]
    /\ cut = {}
-----------------------------------------------------------------------------
(* startAt <= -2 is refused; -1 seeks to the end. *)
Write(s, startAt) ==
    /\ sinks[s] = Closed
    /\ startAt > -2
    /\ sinks' = [sinks EXCEPT ![s] = IF startAt = -1 THEN Len(content) ELSE startAt]
    /\ UNCHANGED <<content, reads, cut>>

(***************************************************************************)
(* The client pushes n bytes.  The file was opened with O_APPEND: wherever *)
(* Write has sought to, the bytes go to the end of the file as it is now.  *)
(***************************************************************************)
SinkWrite(s, n) ==
    /\ sinks[s] # Closed
    /\ Len(content) + n <= MaxLen
    /\ content' = content \o [i \in 1..n |-> s]
    /\ sinks' = [sinks EXCEPT ![s] = Len(content) + n]
    /\ UNCHANGED <<reads, cut>>

(* The client says that it is done, or lets go of the sink. *)
SinkClose(s) ==
    /\ sinks[s] # Closed
    /\ sinks' = [sinks EXCEPT ![s] = Closed]
    /\ UNCHANGED <<content, reads, cut>>

Resized(size) == [i \in 1..size |-> IF i <= Len(content) THEN content[i] ELSE Zero]

(* The reads that have already been further than where the file is cut. *)
Overtaken(size) ==
    {r \in Readers : reads[r] # NoRead /\ size < reads[r].startAt + Len(reads[r].got)}

(***************************************************************************)
(* Two wrong versions, for the mutation runs: one does not convert the     *)
(* size, the other drops its sign bit.                                     *)
(***************************************************************************)
TruncateUnsigned(size) ==
    /\ content' = Resized(size) /\ cut' = cut \cup Overtaken(size)
    /\ UNCHANGED <<sinks, reads>>

TruncateWraps(size) ==
    LET n == size % (MaxInt + 1)
    IN  /\ n <= MaxLen /\ content' = Resized(n) /\ cut' = cut \cup Overtaken(n)
        /\ UNCHANGED <<sinks, reads>>

(* os.Truncate refuses a negative size; the caller hears OpenFailed. *)
Truncate(size) ==
    LET n == AsInt64(size)
    IN  /\ n >= 0
        /\ n <= MaxLen
        /\ content' = Resized(n)
        /\ cut' = cut \cup Overtaken(n)
        /\ UNCHANGED <<sinks, reads>>
-----------------------------------------------------------------------------
Copying(r) == reads[r] # NoRead /\ reads[r].state = "copying"

Ended(r) == reads[r] # NoRead /\ reads[r].state = "ended"

(* A negative startAt is refused. *)
StartRead(r, startAt, amount) ==
    /\ ~Copying(r) /\ ~Ended(r)
    /\ startAt >= 0
    /\ reads' = [reads EXCEPT ![r] =
                    [state |-> "copying", startAt |-> startAt, amount |-> amount,
                     got |-> <<>>]]
    /\ cut' = cut \ {r}
    /\ UNCHANGED <<content, sinks>>

(* Wrong version, for the mutation runs: takes a negative amount as it is. *)
LimitedCast(amount) == amount # 0

(* Zero asks for the whole file, and so does what int64 makes negative. *)
Limited(amount) == AsInt64(amount) > 0

(* Wrong version, for the mutation runs: a read at the end of the file. *)
CopyFromStart(r, n) ==
    /\ Copying(r)
    /\ Len(reads[r].got) + n <= Len(content)
    /\ reads' = [reads EXCEPT ![r].got =
                    @ \o [i \in 1..n |-> content[Len(reads[r].got) + i]]]
    /\ UNCHANGED <<content, sinks, cut>>

(* One round of io.Copy: n bytes are read and handed to the sink. *)
Copy(r, n) ==
    /\ Copying(r)
    /\ LET pos == reads[r].startAt + Len(reads[r].got)
       IN  /\ pos + n <= Len(content)
           /\ Limited(reads[r].amount) =>
                  Len(reads[r].got) + n <= AsInt64(reads[r].amount)
           /\ reads' = [reads EXCEPT ![r].got = @ \o [i \in 1..n |-> content[pos + i]]]
    /\ UNCHANGED <<content, sinks, cut>>

(* Read finds nothing more, or has got what it was asked for. *)
AtEnd(r) ==
    \/ reads[r].startAt + Len(reads[r].got) >= Len(content)
    \/ /\ Limited(reads[r].amount)
       /\ Len(reads[r].got) >= AsInt64(reads[r].amount)

(* The end: io.Copy has seen that there is nothing more, ... *)
SeeEnd(r) ==
    /\ Copying(r) /\ AtEnd(r)
    /\ reads' = [reads EXCEPT ![r].state = "ended"]
    /\ UNCHANGED <<content, sinks, cut>>

(* ... and the sink is closed, which tells it that the data is complete. *)
FinishRead(r) ==
    /\ Ended(r)
    /\ reads' = [reads EXCEPT ![r].state = "done"]
    /\ UNCHANGED <<content, sinks, cut>>

(* The sink refuses data or its grain is gone: Read gives up, and says so. *)
FailRead(r) ==
    /\ Copying(r)
    /\ reads' = [reads EXCEPT ![r].state = "failed"]
    /\ UNCHANGED <<content, sinks, cut>>

Next ==
    \/ \E s \in Sinks, startAt \in Offsets : Write(s, startAt)
    \/ \E s \in Sinks, n \in 1..Chunk : SinkWrite(s, n)
    \/ \E s \in Sinks : SinkClose(s)
    \/ \E size \in Sizes : Truncate(size)
    \/ \E r \in Readers, startAt \in Offsets, amount \in Amounts :
           StartRead(r, startAt, amount)
    \/ \E r \in Readers, n \in 1..Chunk : Copy(r, n)
    \/ \E r \in Readers : SeeEnd(r) \/ FinishRead(r) \/ FailRead(r)

Spec == Init /\ [][Next]_vars
-----------------------------------------------------------------------------
TypeOK ==
    /\ content \in Seq(Byte) /\ Len(content) <= MaxLen
    /\ sinks \in [Sinks -> 0..MaxInt \cup {Closed}]
    /\ reads \in [Readers -> Read \cup {NoRead}]
    /\ cut \subseteq Readers

(***************************************************************************)
(* What a read has got is a slice of the file as it is now, in one piece   *)
(* and in the right place, however many writers were at work meanwhile;    *)
(* unless the file was cut below where the read had come to.               *)
(***************************************************************************)
SliceRead ==
    \A r \in Readers \ cut : reads[r] # NoRead =>
        LET got == reads[r].got IN
        /\ got # <<>> => reads[r].startAt + Len(got) <= Len(content)
        /\ \A i \in 1..Len(got) : got[i] = content[reads[r].startAt + i]

(***************************************************************************)
(* filesystem.capnp:91-99: a sink that hears done got all that was asked   *)
(* for, as an unsigned number, or the file to what was its end when        *)
(* io.Copy saw it; nothing is added or lost between that and done.  The    *)
(* comment at local.go:344-347 says that the conversion to int64 makes no  *)
(* difference.                                                             *)
(***************************************************************************)
ReadComplete ==
    [][\A r \in Readers :
          /\ Copying(r) /\ reads'[r].state = "ended" =>
                \/ reads[r].amount # 0 /\ Len(reads'[r].got) = reads[r].amount
                \/ reads[r].startAt + Len(reads'[r].got) >= Len(content)
          /\ reads'[r] # reads[r] /\ reads'[r].state = "done" =>
                Ended(r) /\ reads'[r].got = reads[r].got]_vars

(***************************************************************************)
(* A truncation either makes the file as long as asked, as an unsigned     *)
(* number, or does nothing (the FIXME of local.go:329 about overflow).     *)
(***************************************************************************)
TruncateExact ==
    [][\A size \in Sizes : Truncate(size) => Len(content') = size]_vars

(***************************************************************************)
(* filesystem.capnp:107: "Writing starts at offset `startAt`", and carries *)
(* on from there.  The code violates this because of O_APPEND.             *)
(***************************************************************************)
WritesAtOffset ==
    [][\A s \in Sinks, n \in 1..Chunk : SinkWrite(s, n) =>
          /\ sinks[s] + n <= Len(content')
          /\ \A i \in 1..n : content'[sinks[s] + i] = s]_vars
=============================================================================

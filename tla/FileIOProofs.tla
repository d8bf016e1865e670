---------------------------- MODULE FileIOProofs ----------------------------
(***************************************************************************)
(* Proofs about FileIO, for integers of any width, files of any length and *)
(* any number of writers and readers.                                      *)
(***************************************************************************)
EXTENDS FileIO, SequenceTheorems, TLAPS

(* SliceRead for one read. *)
Slice(read, file) ==
    /\ read.got # <<>> => read.startAt + Len(read.got) <= Len(file)
    /\ \A i \in 1..Len(read.got) : read.got[i] = file[read.startAt + i]

Slices(rs, file, gone) ==
    \A r \in Readers \ gone : rs[r] # NoRead => Slice(rs[r], file)

Inv == TypeOK /\ Slices(reads, content, cut)

(* A read with a limit never gets more. *)
WithinAmount ==
    \A r \in Readers : reads[r] # NoRead /\ Limited(reads[r].amount) =>
        Len(reads[r].got) <= AsInt64(reads[r].amount)

(* The file t is s with something added at the end. *)
Extends(t, s) == Len(s) <= Len(t) /\ \A i \in 1..Len(s) : t[i] = s[i]
-----------------------------------------------------------------------------
(* Of the numbers that are sent, the conversion leaves alone those it does *)
(* not make negative.                                                      *)
LEMMA AsInt64Facts ==
    ASSUME NEW u \in UInt64
    PROVE  /\ AsInt64(u) \in Int
           /\ AsInt64(u) >= 0 => u \in 0..MaxInt /\ AsInt64(u) = u
BY WidthAssumption, SMT DEF AsInt64, UInt64

(* Appending leaves alone what was there and adds what it is given. *)
LEMMA Appending ==
    ASSUME NEW s \in Seq(Byte), NEW t \in Seq(Byte)
    PROVE  /\ s \o t \in Seq(Byte)
           /\ Len(s \o t) = Len(s) + Len(t)
           /\ \A i \in 1..Len(s) : (s \o t)[i] = s[i]
           /\ \A i \in 1..Len(s \o t) : i \notin 1..Len(s) =>
                 i - Len(s) \in 1..Len(t) /\ (s \o t)[i] = t[i - Len(s)]
BY SMT

(* A read that has a slice of a file has a slice of any longer one. *)
LEMMA SliceOfExtended ==
    ASSUME NEW read \in Read, NEW s \in Seq(Byte), NEW t \in Seq(Byte),
           Extends(t, s), Slice(read, s)
    PROVE  Slice(read, t)
<1>1. /\ read.startAt \in Nat /\ read.got \in Seq(Byte) /\ Len(read.got) \in Nat
      /\ Len(s) \in Nat /\ Len(t) \in Nat /\ Len(s) <= Len(t)
    BY WidthAssumption, SMT DEF Read, Extends
<1>2. CASE read.got = <<>>
    BY <1>1, <1>2, SMT DEF Slice
<1>3. CASE read.got # <<>>
    <2>1. read.startAt + Len(read.got) <= Len(s)
        BY <1>3 DEF Slice
    <2>2. ASSUME NEW i \in 1..Len(read.got)
          PROVE  read.got[i] = t[read.startAt + i]
        <3>1. read.startAt + i \in 1..Len(s)
            BY <1>1, <2>1, SMT
        <3> QED BY <3>1 DEF Slice, Extends
    <2> QED BY <1>1, <2>1, <2>2, SMT DEF Slice
<1> QED BY <1>2, <1>3

(* What a system call writes. *)
LEMMA Written ==
    ASSUME NEW s \in Sinks, NEW n \in Nat
    PROVE  [i \in 1..n |-> s] \in Seq(Byte) /\ Len([i \in 1..n |-> s]) = n
BY SMT DEF Byte

(* What a system call reads. *)
LEMMA Fetched ==
    ASSUME NEW file \in Seq(Byte), NEW pos \in Nat, NEW n \in Nat, pos + n <= Len(file)
    PROVE  LET b == [i \in 1..n |-> file[pos + i]]
           IN  b \in Seq(Byte) /\ Len(b) = n /\ \A i \in 1..n : b[i] = file[pos + i]
<1>1. \A i \in 1..n : pos + i \in 1..Len(file)
    BY SMT
<1>2. \A i \in 1..n : file[pos + i] \in Byte
    BY <1>1, ElementOfSeq
<1> QED BY <1>2, SMT

(* What truncation to n bytes makes of the file. *)
LEMMA ResizedFacts ==
    ASSUME NEW n \in Nat, content \in Seq(Byte)
    PROVE  /\ Resized(n) \in Seq(Byte) /\ Len(Resized(n)) = n
           /\ \A i \in 1..n : i <= Len(content) => Resized(n)[i] = content[i]
<1>1. \A i \in 1..n : i <= Len(content) => content[i] \in Byte
    BY ElementOfSeq, SMT
<1>2. \A i \in 1..n : (IF i <= Len(content) THEN content[i] ELSE Zero) \in Byte
    BY <1>1 DEF Byte
<1> QED BY <1>2, SMT DEF Resized
-----------------------------------------------------------------------------
LEMMA InitOK == Init => Inv
<1> SUFFICES ASSUME Init PROVE Inv
    OBVIOUS
<1>1. content \in Seq(Byte) /\ Len(content) <= MaxLen
    BY WidthAssumption, SMT DEF Init
<1> QED BY <1>1, SlotAssumption, Zenon DEF Init, Inv, TypeOK, Slices

LEMMA ContentGrowsBySinks ==
    ASSUME TypeOK, NEW s \in Sinks, NEW n \in 1..Chunk, SinkWrite(s, n)
    PROVE  Extends(content', content)
<1> DEFINE b == [i \in 1..n |-> s]
<1>1. content \in Seq(Byte) /\ n \in Nat
    BY WidthAssumption, SMT DEF TypeOK
<1>2. b \in Seq(Byte)
    BY <1>1, Written
<1>3. content' = content \o b
    BY DEF SinkWrite
<1> HIDE DEF b
<1>4. /\ Len(content \o b) = Len(content) + Len(b)
      /\ \A i \in 1..Len(content) : (content \o b)[i] = content[i]
    BY <1>1, <1>2, Appending
<1>5. Len(content) \in Nat /\ Len(b) \in Nat
    BY <1>1, <1>2, LenProperties
<1> QED BY <1>3, <1>4, <1>5, SMT DEF Extends

(* What Truncate does, and to whom. *)
LEMMA TruncateStep ==
    ASSUME TypeOK, NEW size \in Sizes, Truncate(size)
    PROVE  /\ size \in Nat /\ size <= MaxLen
           /\ content' \in Seq(Byte) /\ Len(content') = size
           /\ \A i \in 1..size : i <= Len(content) => content'[i] = content[i]
           /\ cut' = cut \cup Overtaken(size) /\ UNCHANGED <<sinks, reads>>
<1>1. size \in UInt64
    BY InputAssumption
<1>2. size \in Nat /\ AsInt64(size) = size /\ size <= MaxLen
    BY <1>1, AsInt64Facts, SMT DEF Truncate
<1> QED BY <1>2, ResizedFacts DEF Truncate, TypeOK

(* The reads that a truncation does not overtake keep their slice. *)
LEMMA TruncateKeepsSlices ==
    ASSUME Inv, NEW size \in Sizes, Truncate(size)
    PROVE  Slices(reads', content', cut')
<1> SUFFICES ASSUME NEW r \in Readers, r \notin cut, r \notin Overtaken(size),
                    reads[r] # NoRead
             PROVE  Slice(reads[r], content')
    BY TruncateStep DEF Inv, Slices
<1>1. reads[r] \in Read
    BY DEF Inv, TypeOK
<1>2. reads[r].startAt \in Nat /\ reads[r].got \in Seq(Byte) /\ Len(reads[r].got) \in Nat
    BY <1>1, WidthAssumption, SMT DEF Read
<1>3. /\ size \in Nat /\ Len(content') = size /\ Len(content) \in Nat
      /\ \A i \in 1..size : i <= Len(content) => content'[i] = content[i]
    BY TruncateStep, LenProperties DEF Inv, TypeOK
<1>4. reads[r].startAt + Len(reads[r].got) <= size
    BY <1>2, <1>3, SMT DEF Overtaken
<1>5. Slice(reads[r], content)
    BY DEF Inv, Slices
<1>6. ASSUME NEW i \in 1..Len(reads[r].got)
      PROVE  reads[r].got[i] = content'[reads[r].startAt + i]
    <2>1. reads[r].got # <<>>
        BY <1>2, SMT
    <2>2. reads[r].startAt + i \in 1..size /\ reads[r].startAt + i <= Len(content)
        BY <1>2, <1>3, <1>4, <1>5, <2>1, SMT DEF Slice
    <2>3. content'[reads[r].startAt + i] = content[reads[r].startAt + i]
        BY <1>3, <2>2
    <2> QED BY <1>5, <2>3 DEF Slice
<1> QED BY <1>3, <1>4, <1>6 DEF Slice

LEMMA GotMore ==
    ASSUME NEW q \in Read, NEW g \in Seq(Byte)
    PROVE  LET m == [q EXCEPT !.got = g]
           IN  /\ m \in Read /\ m.got = g
               /\ m.startAt = q.startAt /\ m.amount = q.amount /\ m.state = q.state
BY SMT DEF Read

LEMMA StateChanged ==
    ASSUME NEW q \in Read, NEW s \in {"copying", "ended", "done", "failed"}
    PROVE  LET m == [q EXCEPT !.state = s]
           IN  /\ m \in Read /\ m.state = s
               /\ m.got = q.got /\ m.startAt = q.startAt /\ m.amount = q.amount
BY SMT DEF Read

(* A round of io.Copy carries a slice on. *)
LEMMA CopyKeepsSlice ==
    ASSUME Inv, NEW r \in Readers, NEW n \in 1..Chunk, Copy(r, n)
    PROVE  /\ reads'[r] \in Read
           /\ r \notin cut => Slice(reads'[r], content)
<1> DEFINE q == reads[r]
           pos == q.startAt + Len(q.got)
           b == [i \in 1..n |-> content[pos + i]]
<1>1. n \in Nat /\ n > 0
    BY WidthAssumption, SMT
<1>2. /\ q \in Read /\ content \in Seq(Byte) /\ Len(content) \in Nat
      /\ r \notin cut => Slice(q, content)
    BY LenProperties, Zenon DEF Inv, TypeOK, Slices, Copy, Copying
<1>3. q.startAt \in Nat /\ q.got \in Seq(Byte) /\ Len(q.got) \in Nat
    BY <1>2, WidthAssumption, SMT DEF Read
<1>4. pos \in Nat /\ pos + n <= Len(content)
    BY <1>3, SMT DEF Copy
<1>5. b \in Seq(Byte) /\ Len(b) = n /\ \A i \in 1..n : b[i] = content[pos + i]
    BY <1>1, <1>2, <1>4, Fetched
<1>6. reads'[r] = [q EXCEPT !.got = q.got \o b]
    BY Zenon DEF Copy, Inv, TypeOK
<1> HIDE DEF b
<1>7. /\ q.got \o b \in Seq(Byte)
      /\ Len(q.got \o b) = Len(q.got) + n
      /\ \A i \in 1..Len(q.got) : (q.got \o b)[i] = q.got[i]
      /\ \A i \in 1..Len(q.got \o b) : i \notin 1..Len(q.got) =>
            i - Len(q.got) \in 1..n /\ (q.got \o b)[i] = b[i - Len(q.got)]
    BY <1>3, <1>5, Appending
<1>8. reads'[r] \in Read /\ reads'[r].got = q.got \o b /\ reads'[r].startAt = q.startAt
    <2> DEFINE g == q.got \o b
    <2>1. g \in Seq(Byte) /\ reads'[r] = [q EXCEPT !.got = g]
        BY <1>6, <1>7
    <2> HIDE DEF g, q
    <2>2. reads'[r] \in Read /\ reads'[r].got = g /\ reads'[r].startAt = q.startAt
        BY <1>2, <2>1, GotMore
    <2> QED BY <2>2 DEF g
<1>9. ASSUME r \notin cut, NEW i \in 1..Len(q.got \o b)
      PROVE  (q.got \o b)[i] = content[q.startAt + i]
    <2>1. CASE i \in 1..Len(q.got)
        BY <1>2, <1>7, <1>9, <2>1 DEF Slice
    <2>2. CASE i \notin 1..Len(q.got)
        <3>1. i - Len(q.got) \in 1..n /\ (q.got \o b)[i] = b[i - Len(q.got)]
            BY <1>7, <2>2
        <3>2. pos + (i - Len(q.got)) = q.startAt + i
            BY <1>3, <1>7, SMT
        <3> QED BY <1>5, <3>1, <3>2
    <2> QED BY <2>1, <2>2
<1>10. q.startAt + Len(q.got \o b) <= Len(content)
    BY <1>3, <1>4, <1>7, SMT
<1> QED BY <1>8, <1>9, <1>10 DEF Slice
-----------------------------------------------------------------------------
LEMMA InvNext == ASSUME Inv, [Next]_vars PROVE Inv'
<1> USE DEF Inv
<1>1. ASSUME NEW s \in Sinks, NEW startAt \in Offsets, Write(s, startAt)
      PROVE  Inv'
    <2>1. (IF startAt = -1 THEN Len(content) ELSE startAt) \in 0..MaxInt
        BY <1>1, WidthAssumption, InputAssumption, SMT DEF Write, TypeOK, Int64
    <2>2. sinks' \in [Sinks -> 0..MaxInt \cup {Closed}]
        BY <1>1, <2>1, Zenon DEF Write, TypeOK
    <2> QED BY <1>1, <2>2 DEF Write, TypeOK
<1>2. ASSUME NEW s \in Sinks, NEW n \in 1..Chunk, SinkWrite(s, n)
      PROVE  Inv'
    <2>1. content \in Seq(Byte) /\ Len(content) \in Nat /\ n \in Nat
        BY WidthAssumption, LenProperties, SMT DEF TypeOK
    <2>2. content' \in Seq(Byte) /\ Len(content') = Len(content) + n
        <3> DEFINE b == [i \in 1..n |-> s]
        <3>1. b \in Seq(Byte) /\ Len(b) = n
            BY <2>1, Written
        <3>2. content' = content \o b
            BY <1>2 DEF SinkWrite
        <3> HIDE DEF b
        <3> QED BY <2>1, <3>1, <3>2, Appending
    <2>3. Len(content') <= MaxLen /\ Len(content') \in 0..MaxInt
        BY <1>2, <2>1, <2>2, WidthAssumption, SMT DEF SinkWrite
    <2>4. sinks' \in [Sinks -> 0..MaxInt \cup {Closed}]
        <3>1. Len(content) + n \in 0..MaxInt
            BY <2>2, <2>3
        <3> QED BY <1>2, <3>1, Zenon DEF SinkWrite, TypeOK
    <2>5. UNCHANGED <<reads, cut>>
        BY <1>2 DEF SinkWrite
    <2>6. Extends(content', content)
        BY <1>2, ContentGrowsBySinks
    <2>7. Slices(reads', content', cut')
        BY <2>1, <2>2, <2>5, <2>6, SliceOfExtended DEF Slices, TypeOK
    <2> QED BY <2>2, <2>3, <2>4, <2>5, <2>7 DEF TypeOK
<1>3. ASSUME NEW s \in Sinks, SinkClose(s)
      PROVE  Inv'
    BY <1>3, Zenon DEF SinkClose, TypeOK
<1>4. ASSUME NEW size \in Sizes, Truncate(size)
      PROVE  Inv'
    <2>1. Slices(reads', content', cut')
        BY <1>4, TruncateKeepsSlices
    <2>2. cut' \subseteq Readers
        BY <1>4, TruncateStep DEF TypeOK, Overtaken
    <2> QED BY <1>4, <2>1, <2>2, TruncateStep DEF TypeOK
<1>5. ASSUME NEW r \in Readers, NEW startAt \in Offsets, NEW amount \in Amounts,
             StartRead(r, startAt, amount)
      PROVE  Inv'
    <2> DEFINE q == [state |-> "copying", startAt |-> startAt, amount |-> amount, got |-> <<>>]
    <2>1. startAt \in 0..MaxInt /\ amount \in UInt64
        BY <1>5, InputAssumption, WidthAssumption, SMT DEF StartRead, Int64
    <2>2. q \in Read /\ Slice(q, content)
        BY <2>1, SMT DEF Read, Slice
    <2>3. reads' = [reads EXCEPT ![r] = q] /\ cut' = cut \ {r} /\ UNCHANGED <<content, sinks>>
        BY <1>5 DEF StartRead
    <2> HIDE DEF q
    <2> QED BY <2>2, <2>3, Zenon DEF TypeOK, Slices
<1>6. ASSUME NEW r \in Readers, NEW n \in 1..Chunk, Copy(r, n)
      PROVE  Inv'
    <2>1. reads'[r] \in Read /\ (r \notin cut => Slice(reads'[r], content))
        BY <1>6, CopyKeepsSlice
    <2>2. /\ UNCHANGED <<content, sinks, cut>>
          /\ reads' = [reads EXCEPT ![r] = reads'[r]]
        BY <1>6, Zenon DEF Copy, TypeOK
    <2> QED BY <2>1, <2>2, Zenon DEF TypeOK, Slices
<1>7. ASSUME NEW r \in Readers, SeeEnd(r) \/ FinishRead(r) \/ FailRead(r)
      PROVE  Inv'
    <2>1. PICK s \in {"ended", "done", "failed"} :
               reads' = [reads EXCEPT ![r] = [reads[r] EXCEPT !.state = s]]
        BY <1>7, Zenon DEF SeeEnd, FinishRead, FailRead
    <2>2. reads[r] \in Read /\ UNCHANGED <<content, sinks, cut>>
        BY <1>7, Zenon DEF TypeOK, SeeEnd, FinishRead, FailRead, Copying, Ended
    <2> DEFINE q == [reads[r] EXCEPT !.state = s]
    <2>3. q \in Read /\ q.got = reads[r].got /\ q.startAt = reads[r].startAt
        BY <2>2, s \in {"copying", "ended", "done", "failed"}, StateChanged
    <2> HIDE DEF q
    <2>4. r \notin cut => Slice(q, content)
        BY <2>2, <2>3, SlotAssumption, Zenon DEF Slices, Slice
    <2>5. reads' = [reads EXCEPT ![r] = q]
        BY <2>1 DEF q
    <2> QED BY <2>2, <2>3, <2>4, <2>5, Zenon DEF TypeOK, Slices
<1>8. CASE UNCHANGED vars
    BY <1>8 DEF vars, TypeOK, Slices
<1> QED BY <1>1, <1>2, <1>3, <1>4, <1>5, <1>6, <1>7, <1>8 DEF Next
-----------------------------------------------------------------------------
(* What a step can do to a read: the read starts, goes on, or ends.        *)
ReadStep(r) ==
    \/ reads'[r] = reads[r]
    \/ /\ reads'[r] \in Read /\ reads'[r].state = "copying"
       /\ reads'[r].got = <<>>
    \/ /\ reads[r] \in Read /\ reads'[r] \in Read
       /\ reads'[r].state = "copying" /\ reads'[r].amount = reads[r].amount
       /\ Limited(reads[r].amount) =>
             Len(reads'[r].got) <= AsInt64(reads[r].amount)
    \/ /\ reads[r] \in Read /\ AtEnd(r)
       /\ reads'[r] = [reads[r] EXCEPT !.state = "ended"]
    \/ /\ reads[r] \in Read /\ Ended(r)
       /\ reads'[r] = [reads[r] EXCEPT !.state = "done"]
    \/ /\ reads[r] \in Read
       /\ reads'[r] = [reads[r] EXCEPT !.state = "failed"]

LEMMA ReadSteps == ASSUME Inv, [Next]_vars, NEW r \in Readers PROVE ReadStep(r)
<1>0. reads \in [Readers -> Read \cup {NoRead}]
    BY DEF Inv, TypeOK
<1>1. ASSUME UNCHANGED reads PROVE ReadStep(r)
    BY <1>1 DEF ReadStep
<1>2. ASSUME NEW q \in Readers, NEW startAt \in Offsets, NEW amount \in Amounts,
             StartRead(q, startAt, amount)
      PROVE  ReadStep(r)
    <2> DEFINE m == [state |-> "copying", startAt |-> startAt, amount |-> amount, got |-> <<>>]
    <2>1. startAt \in 0..MaxInt /\ amount \in UInt64
        BY <1>2, InputAssumption, WidthAssumption, SMT DEF StartRead, Int64
    <2>2. m \in Read /\ m.state = "copying" /\ m.got = <<>>
        BY <2>1, SMT DEF Read
    <2>3. reads' = [reads EXCEPT ![q] = m]
        BY <1>2 DEF StartRead
    <2> HIDE DEF m
    <2>4. reads'[r] = reads[r] \/ reads'[r] = m
        BY <1>0, <2>3, Zenon
    <2> QED BY <2>2, <2>4 DEF ReadStep
<1>3. ASSUME NEW q \in Readers, NEW n \in 1..Chunk, Copy(q, n)
      PROVE  ReadStep(r)
    <2>1. CASE q # r
        BY <1>0, <1>3, <2>1, Zenon DEF Copy, ReadStep
    <2>2. CASE q = r
        <3> DEFINE pos == reads[r].startAt + Len(reads[r].got)
                   b == [i \in 1..n |-> content[pos + i]]
                   g == reads[r].got \o b
        <3>1. reads[r] \in Read /\ content \in Seq(Byte) /\ reads[r].state = "copying"
            BY <1>3, <2>2, Zenon DEF Copy, Copying, Inv, TypeOK
        <3>2. n \in Nat /\ pos \in Nat /\ reads[r].got \in Seq(Byte)
            BY <3>1, WidthAssumption, SMT DEF Read
        <3>3. pos + n <= Len(content)
            BY <1>3, <2>2, SMT DEF Copy
        <3>4. b \in Seq(Byte) /\ Len(b) = n
            BY <3>1, <3>2, <3>3, Fetched
        <3>5. reads'[r] = [reads[r] EXCEPT !.got = g]
            BY <1>0, <1>3, <2>2, Zenon DEF Copy
        <3>6. Limited(reads[r].amount) =>
                  Len(reads[r].got) + n <= AsInt64(reads[r].amount)
            BY <1>3, <2>2 DEF Copy
        <3> HIDE DEF b
        <3>7. g \in Seq(Byte) /\ Len(g) = Len(reads[r].got) + n
            BY <3>2, <3>4, Appending
        <3> HIDE DEF g, pos
        <3>8. /\ reads'[r] \in Read /\ reads'[r].got = g
              /\ reads'[r].amount = reads[r].amount /\ reads'[r].state = "copying"
            BY <3>1, <3>5, <3>7, GotMore
        <3> QED BY <3>1, <3>6, <3>7, <3>8 DEF ReadStep
    <2> QED BY <2>1, <2>2
<1>4. ASSUME NEW q \in Readers, FinishRead(q)
      PROVE  ReadStep(r)
    BY <1>0, <1>4, Zenon DEF FinishRead, Ended, ReadStep
<1>5. ASSUME NEW q \in Readers, FailRead(q)
      PROVE  ReadStep(r)
    BY <1>0, <1>5, Zenon DEF FailRead, Copying, ReadStep
<1>6. ASSUME NEW q \in Readers, SeeEnd(q)
      PROVE  ReadStep(r)
    BY <1>0, <1>6, Zenon DEF SeeEnd, Copying, ReadStep
<1> QED BY <1>1, <1>2, <1>3, <1>4, <1>5, <1>6
       DEF Next, vars, Write, SinkWrite, SinkClose, Truncate

LEMMA WithinAmountNext == ASSUME Inv, WithinAmount, [Next]_vars PROVE WithinAmount'
<1> SUFFICES ASSUME NEW r \in Readers, reads'[r] # NoRead, Limited(reads'[r].amount)
             PROVE  Len(reads'[r].got) <= AsInt64(reads'[r].amount)
    BY DEF WithinAmount
<1>1. CASE reads'[r] = reads[r]
    BY <1>1 DEF WithinAmount
<1>2. CASE reads'[r].got = <<>>
    <2>1. Len(reads'[r].got) = 0
        BY <1>2, SMT
    <2>2. reads'[r] \in Read
        BY InvNext DEF Inv, TypeOK
    <2>3. AsInt64(reads'[r].amount) \in Int
        BY <2>2, AsInt64Facts, SMT DEF Read
    <2> QED BY <2>1, <2>3, SMT DEF Limited
<1>3. CASE /\ reads'[r].amount = reads[r].amount
           /\ Limited(reads[r].amount) => Len(reads'[r].got) <= AsInt64(reads[r].amount)
    BY <1>3
<1>4. ASSUME reads[r] \in Read, NEW s \in {"ended", "done", "failed"},
             reads'[r] = [reads[r] EXCEPT !.state = s]
      PROVE  Len(reads'[r].got) <= AsInt64(reads'[r].amount)
    <2>1. reads'[r].got = reads[r].got /\ reads'[r].amount = reads[r].amount
        BY <1>4, s \in {"copying", "ended", "done", "failed"}, StateChanged
    <2> QED BY <1>4, <2>1, SlotAssumption DEF WithinAmount
<1> QED BY <1>1, <1>2, <1>3, <1>4, ReadSteps DEF ReadStep
-----------------------------------------------------------------------------
LEMMA Invariance == Spec => [](Inv /\ WithinAmount)
<1>1. Init => Inv /\ WithinAmount
    BY InitOK, Zenon DEF Init, WithinAmount
<1>2. Inv /\ WithinAmount /\ [Next]_vars => (Inv /\ WithinAmount)'
    BY InvNext, WithinAmountNext
<1> QED BY <1>1, <1>2, PTL DEF Spec

(* Types: in particular the file never outgrows the bound, whatever size a *)
(* truncation asks for, and no file position leaves the integers.          *)
THEOREM TypeCorrect == Spec => []TypeOK
<1>1. Inv => TypeOK
    BY DEF Inv
<1> QED BY <1>1, Invariance, PTL

(* A read gets a slice of the file, whatever the writers do meanwhile,     *)
(* unless a truncation overtakes it.                                       *)
THEOREM ReadsAreSlices == Spec => []SliceRead
<1>1. Inv => SliceRead
    BY Zenon DEF Inv, Slices, Slice, SliceRead
<1> QED BY <1>1, Invariance, PTL

(* A read that sees its end has the number of bytes asked for, as an       *)
(* unsigned number, or all there was.                                      *)
LEMMA EndSeen ==
    ASSUME Inv, WithinAmount, [Next]_vars, NEW r \in Readers,
           Copying(r), reads'[r].state = "ended"
    PROVE  \/ reads[r].amount # 0 /\ Len(reads'[r].got) = reads[r].amount
           \/ reads[r].startAt + Len(reads'[r].got) >= Len(content)
<1>1. reads[r] \in Read /\ AtEnd(r) /\ reads'[r] = [reads[r] EXCEPT !.state = "ended"]
    <2>1. reads[r] \in Read /\ reads'[r] # reads[r]
        BY DEF Inv, TypeOK, Copying
    <2>2. reads'[r] # [reads[r] EXCEPT !.state = "done"]
        BY <2>1, StateChanged
    <2>3. reads'[r] # [reads[r] EXCEPT !.state = "failed"]
        BY <2>1, StateChanged
    <2> QED BY <2>1, <2>2, <2>3, ReadSteps DEF ReadStep
<1>2. reads'[r].got = reads[r].got
    BY <1>1, StateChanged
<1>3. CASE /\ Limited(reads[r].amount)
           /\ Len(reads[r].got) >= AsInt64(reads[r].amount)
    <2>1. reads[r].amount \in UInt64 /\ Len(reads[r].got) \in Nat
        BY <1>1, LenProperties DEF Read
    <2>2. Len(reads[r].got) <= AsInt64(reads[r].amount)
        BY <1>3 DEF WithinAmount, Copying
    <2> QED BY <1>2, <1>3, <2>1, <2>2, AsInt64Facts, SMT DEF Limited
<1> QED BY <1>1, <1>2, <1>3 DEF AtEnd

(* A sink hears done only from a read that has seen its end, which has got *)
(* nothing since.                                                          *)
LEMMA DoneIsEnd ==
    ASSUME Inv, [Next]_vars, NEW r \in Readers,
           reads'[r] # reads[r], reads'[r].state = "done"
    PROVE  Ended(r) /\ reads'[r].got = reads[r].got
<1>1. reads[r] \in Read => reads'[r] # [reads[r] EXCEPT !.state = "ended"]
    BY StateChanged
<1>2. reads[r] \in Read => reads'[r] # [reads[r] EXCEPT !.state = "failed"]
    BY StateChanged
<1>3. reads[r] \in Read /\ Ended(r) /\ reads'[r] = [reads[r] EXCEPT !.state = "done"]
    BY <1>1, <1>2, ReadSteps DEF ReadStep
<1> QED BY <1>3, StateChanged

(* What a sink that hears done has got is complete.                        *)
THEOREM ReadsAreComplete == Spec => ReadComplete
<1> DEFINE A == \A r \in Readers :
          /\ Copying(r) /\ reads'[r].state = "ended" =>
                \/ reads[r].amount # 0 /\ Len(reads'[r].got) = reads[r].amount
                \/ reads[r].startAt + Len(reads'[r].got) >= Len(content)
          /\ reads'[r] # reads[r] /\ reads'[r].state = "done" =>
                Ended(r) /\ reads'[r].got = reads[r].got
<1>1. Inv /\ WithinAmount /\ [Next]_vars => A
    BY EndSeen, DoneIsEnd
<1> HIDE DEF A
<1>2. Inv /\ WithinAmount /\ [Next]_vars => [A]_vars
    BY <1>1
<1>3. Spec => [][A]_vars
    BY <1>2, Invariance, PTL DEF Spec
<1> QED BY <1>3 DEF A, ReadComplete

(* Truncation never makes a file of another length than it was asked for.  *)
THEOREM TruncationIsExact == Spec => TruncateExact
<1> DEFINE A == \A size \in Sizes : Truncate(size) => Len(content') = size
<1>1. Inv => A
    BY TruncateStep DEF Inv
<1> HIDE DEF A
<1>2. Inv => [A]_vars
    BY <1>1
<1>3. Spec => [][A]_vars
    BY <1>2, Invariance, PTL DEF Spec
<1> QED BY <1>3 DEF A, TruncateExact
=============================================================================

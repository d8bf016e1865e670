-------------------------- MODULE DirListingProofs --------------------------
(***************************************************************************)
(* Proofs about DirListing, for directories of any size, chunks of any     *)
(* size and any limit.                                                     *)
(***************************************************************************)
EXTENDS DirListing, SequenceTheorems, TLAPS

Entries(n) == [i \in 1..n |-> i]

(* Where a call on the stream takes up the directory, if List is at p. *)
Start(m, p) == IF m.method = "push" THEN m.from ELSE p

(***************************************************************************)
(* While the connection is up, the calls under way carry on where the      *)
(* stream is (unless it is closed), one where the other stops, up to where *)
(* List is; done is the last of them, and comes when List has read all.    *)
(***************************************************************************)
Chain ==
    /\ \A i \in 1..Len(net) : net[i].method = "push" =>
          net[i].from <= net[i].to /\ net[i].to <= pos
    /\ \A i \in 1..Len(net) : net[i].method = "done" =>
          i = Len(net) /\ pc = "returned" /\ pos >= before
    /\ \A i \in 1..Len(net) : i < Len(net) => net[i].to = Start(net[i + 1], pos)
    /\ net # <<>> /\ net[Len(net)].method = "push" => net[Len(net)].to = pos
    /\ conn = "up" /\ ~stream.isClosed =>
          stream.have = (IF net = <<>> THEN pos ELSE Start(net[1], pos))
    /\ conn = "lost" => net = <<>>
    /\ pc = "done" /\ conn = "up" => pos >= before
    /\ pos <= entries /\ before <= entries

(* What the stream has collected. *)
Collected ==
    /\ stream.buf = Entries(stream.have)
    /\ stream.have <= entries
    /\ limit => stream.have <= count
    /\ ~stream.isClosed => stream.err = "nil"
    /\ stream.isClosed /\ stream.err = "nil" => stream.have >= before
    /\ stream.err = "TooManyEntries" => limit /\ entries > count

Inv == TypeOK /\ SignalledOnce /\ ResultStable /\ Chain /\ Collected
-----------------------------------------------------------------------------
LEMMA EntriesFacts ==
    ASSUME NEW n \in 0..MaxEntries
    PROVE  Entries(n) \in Seq(1..MaxEntries) /\ Len(Entries(n)) = n
BY MaxEntriesAssumption, SMT DEF Entries

LEMMA EntriesAppended ==
    ASSUME NEW m \in 0..MaxEntries, NEW n \in 0..MaxEntries, m <= n
    PROVE  Entries(m) \o [i \in 1..(n - m) |-> m + i] = Entries(n)
<1> DEFINE s == Entries(m)
           t == [i \in 1..(n - m) |-> m + i]
<1>1. m \in Nat /\ n \in Nat /\ n - m \in Nat
    BY MaxEntriesAssumption, SMT
<1>2. /\ s \in Seq(Nat) /\ Len(s) = m /\ \A i \in 1..m : s[i] = i
      /\ t \in Seq(Nat) /\ Len(t) = n - m /\ \A i \in 1..(n - m) : t[i] = m + i
    BY <1>1, SMT DEF Entries
<1> HIDE DEF s, t
<1>3. /\ s \o t \in Seq(Nat) /\ Len(s \o t) = n
      /\ \A i \in 1..n : (s \o t)[i] = i
    <2>1. /\ s \o t \in Seq(Nat) /\ Len(s \o t) = Len(s) + Len(t)
          /\ \A i \in 1..(Len(s) + Len(t)) :
                (s \o t)[i] = IF i <= Len(s) THEN s[i] ELSE t[i - Len(s)]
        BY <1>2, ConcatProperties
    <2>2. ASSUME NEW i \in 1..n PROVE (s \o t)[i] = i
        <3>1. CASE i <= m
            BY <1>1, <1>2, <2>1, <3>1, SMT
        <3>2. CASE ~(i <= m)
            <4>1. i - m \in 1..(n - m) /\ m + (i - m) = i
                BY <1>1, <3>2, SMT
            <4> QED BY <1>1, <1>2, <2>1, <3>2, <4>1, SMT
        <3> QED BY <3>1, <3>2
    <2>3. Len(s) + Len(t) = n
        BY <1>1, <1>2, SMT
    <2> QED BY <2>1, <2>2, <2>3
<1>4. Entries(n) \in Seq(Nat) /\ Len(Entries(n)) = n /\ \A i \in 1..n : Entries(n)[i] = i
    BY <1>1, SMT DEF Entries
<1>5. s \o t = Entries(n)
    BY <1>3, <1>4, SeqEqual
<1> QED BY <1>5 DEF s, t

LEMMA MessageFacts ==
    /\ \A m \in Message :
          /\ m.method \in {"push", "done"}
          /\ m.method = "push" => m.from \in 0..MaxEntries /\ m.to \in 0..MaxEntries
    /\ Done \in Message /\ Done.method = "done"
    /\ \A from, to \in 0..MaxEntries :
          /\ Push(from, to) \in Message /\ Push(from, to).method = "push"
          /\ Push(from, to).from = from /\ Push(from, to).to = to
BY DEF Message, Push, Done

THEOREM InvInit == Init => Inv
<1> SUFFICES ASSUME Init PROVE Inv
    OBVIOUS
<1> USE MaxEntriesAssumption DEF Init
<1>1. TypeOK
    BY SMT DEF TypeOK, Stream
<1>2. SignalledOnce /\ ResultStable
    BY DEF SignalledOnce, ResultStable
<1>3. Chain
    BY CountsAssumption, SMT DEF Chain
<1>4. Collected
    BY CountsAssumption, SMT DEF Collected, Entries, limit
<1> QED BY <1>1, <1>2, <1>3, <1>4 DEF Inv

(* Appending to the calls under way a call that starts where List is. *)
LEMMA SendChains ==
    ASSUME Inv, conn = "up", NEW m \in Message, net' = Append(net, m),
           pc # "returned", pos' \in 0..MaxEntries, pos <= pos', pos' <= entries,
           m.method = "push" => m.from = pos /\ m.to = pos',
           m.method = "done" => pos' = pos /\ pc' = "returned" /\ pos >= before,
           pc' = "done" => pos' >= before,
           UNCHANGED <<count, before, entries, conn, stream>>
    PROVE  Chain' /\ net' \in Seq(Message)
<1>1. /\ net \in Seq(Message) /\ Len(net) \in Nat
      /\ pos \in Nat /\ pos' \in Nat /\ entries \in Nat /\ before \in Nat
    BY LenProperties, MaxEntriesAssumption, SMT DEF Inv, TypeOK
<1>2. /\ net' \in Seq(Message) /\ Len(net') = Len(net) + 1
      /\ \A i \in 1..Len(net) : net'[i] = net[i]
      /\ net'[Len(net')] = m /\ net' # <<>>
    BY <1>1, AppendProperties, SMT
<1>3. \A i \in 1..Len(net) : net[i] \in Message /\ net[i].method = "push"
    BY <1>1, MessageFacts, ElementOfSeq DEF Inv, Chain
<1>4. m.method \in {"push", "done"}
    BY MessageFacts
<1>5. \A i \in 1..Len(net') : i < Len(net') => i \in 1..Len(net)
    BY <1>1, <1>2, SMT
<1>6. \A i \in 1..Len(net') : i \in 1..Len(net) \/ i = Len(net')
    BY <1>1, <1>2, SMT
<1>7. \A i \in 1..Len(net') : net'[i].method = "push" =>
          net'[i].from <= net'[i].to /\ net'[i].to <= pos'
    <2>1. \A i \in 1..Len(net) : net[i].from <= net[i].to /\ net[i].to <= pos'
        BY <1>1, <1>3, MessageFacts, MaxEntriesAssumption, SMT DEF Inv, Chain
    <2> QED BY <1>1, <1>2, <1>6, <2>1
<1>8. \A i \in 1..Len(net') : net'[i].method = "done" =>
          i = Len(net') /\ pc' = "returned" /\ pos' >= before'
    BY <1>2, <1>3, <1>6
<1>9. Start(m, pos') = pos
    BY <1>4 DEF Start
<1>10. \A i \in 1..Len(net') : i < Len(net') => net'[i].to = Start(net'[i + 1], pos')
    <2> SUFFICES ASSUME NEW i \in 1..Len(net'), i < Len(net')
                 PROVE  net'[i].to = Start(net'[i + 1], pos')
        OBVIOUS
    <2>1. i \in 1..Len(net) /\ net'[i] = net[i]
        BY <1>2, <1>5
    <2>2. CASE i < Len(net)
        <3>1. i + 1 \in 1..Len(net)
            BY <1>1, <2>1, <2>2, SMT
        <3>2. net[i].to = Start(net[i + 1], pos)
            BY <2>1, <2>2 DEF Inv, Chain
        <3> QED BY <1>2, <1>3, <2>1, <3>1, <3>2 DEF Start
    <2>3. CASE i = Len(net)
        <3>1. net # <<>> /\ net[i].to = pos
            BY <1>1, <1>3, <2>1, <2>3, EmptySeq, SMT DEF Inv, Chain
        <3>2. net'[i + 1] = m
            BY <1>2, <2>3
        <3> QED BY <1>9, <2>1, <3>1, <3>2 DEF Start
    <2> QED BY <1>1, <2>1, <2>2, <2>3, SMT
<1>11. net'[Len(net')].method = "push" => net'[Len(net')].to = pos'
    BY <1>2
<1>12. ~stream.isClosed => stream.have = Start(net'[1], pos')
    <2>1. CASE net = <<>>
        <3>1. net'[1] = m
            BY <1>2, <2>1, EmptySeq, SMT
        <3> QED BY <1>9, <2>1, <3>1 DEF Inv, Chain, Start
    <2>2. CASE net # <<>>
        <3>1. 1 \in 1..Len(net) /\ net'[1] = net[1]
            BY <1>1, <1>2, <2>2, EmptySeq, SMT
        <3> QED BY <1>3, <2>2, <3>1 DEF Inv, Chain, Start
    <2> QED BY <2>1, <2>2
<1>13. before' <= entries'
    BY DEF Inv, Chain
<1> QED BY <1>2, <1>7, <1>8, <1>10, <1>11, <1>12, <1>13 DEF Chain

(* Taking the first call: the stream may go on where that call ends. *)
LEMMA ReceiveChains ==
    ASSUME Inv, net # <<>>, net' = Tail(net),
           UNCHANGED <<count, before, entries, conn, pc, pos>>,
           stream'.isClosed \/ (/\ Head(net).method = "push" /\ ~stream.isClosed
                               /\ stream'.have = Head(net).to)
    PROVE  Chain' /\ net' \in Seq(Message)
<1>1. /\ net \in Seq(Message) /\ Len(net) \in Nat \ {0} /\ Head(net) = net[1]
      /\ net' \in Seq(Message) /\ Len(net') = Len(net) - 1
      /\ \A i \in 1..Len(net') : i + 1 \in 1..Len(net) /\ net'[i] = net[i + 1]
    <2>1. net \in Seq(Message) /\ Len(net) \in Nat \ {0}
        BY EmptySeq DEF Inv, TypeOK
    <2>2. /\ Tail(net) \in Seq(Message) /\ Len(Tail(net)) = Len(net) - 1
          /\ \A i \in 1..Len(Tail(net)) : Tail(net)[i] = net[i + 1]
        BY <2>1, HeadTailProperties
    <2> QED BY <2>1, <2>2, SMT
<1>2. \A i \in 1..Len(net') : net'[i].method = "push" =>
          net'[i].from <= net'[i].to /\ net'[i].to <= pos'
    BY <1>1 DEF Inv, Chain
<1>3. \A i \in 1..Len(net') : net'[i].method = "done" =>
          i = Len(net') /\ pc' = "returned" /\ pos' >= before'
    <2> SUFFICES ASSUME NEW i \in 1..Len(net'), net'[i].method = "done"
                 PROVE  i = Len(net') /\ pc' = "returned" /\ pos' >= before'
        OBVIOUS
    <2>1. i + 1 \in 1..Len(net) /\ net[i + 1].method = "done"
        BY <1>1
    <2>2. i + 1 = Len(net) /\ pc = "returned" /\ pos >= before
        BY <2>1 DEF Inv, Chain
    <2>3. Len(net) \in Nat \ {0} /\ Len(net') = Len(net) - 1
        BY <1>1
    <2>4. i \in Nat
        BY <2>3, SMT
    <2>5. i = Len(net')
        BY <2>2, <2>3, <2>4, SMT
    <2> QED BY <2>2, <2>5, Zenon
<1>4. \A i \in 1..Len(net') : i < Len(net') => net'[i].to = Start(net'[i + 1], pos')
    <2> SUFFICES ASSUME NEW i \in 1..Len(net'), i < Len(net')
                 PROVE  net'[i].to = Start(net'[i + 1], pos')
        OBVIOUS
    <2>1. /\ i + 1 \in 1..Len(net) /\ i + 1 < Len(net) /\ i + 1 \in 1..Len(net')
          /\ net'[i] = net[i + 1] /\ net'[i + 1] = net[(i + 1) + 1]
        BY <1>1, SMT
    <2> QED BY <2>1 DEF Inv, Chain
<1>5. net' # <<>> /\ net'[Len(net')].method = "push" => net'[Len(net')].to = pos'
    <2> SUFFICES ASSUME net' # <<>>, net'[Len(net')].method = "push"
                 PROVE  net'[Len(net')].to = pos'
        OBVIOUS
    <2>1. Len(net') \in Nat \ {0}
        BY <1>1, EmptySeq
    <2>2. net'[Len(net')] = net[Len(net)]
        BY <1>1, <2>1, SMT
    <2> QED BY <1>1, <2>2 DEF Inv, Chain
<1>6. conn' = "up" /\ ~stream'.isClosed =>
          stream'.have = (IF net' = <<>> THEN pos' ELSE Start(net'[1], pos'))
    <2> SUFFICES ASSUME ~stream'.isClosed, Head(net).method = "push",
                        stream'.have = Head(net).to
                 PROVE  stream'.have = (IF net' = <<>> THEN pos' ELSE Start(net'[1], pos'))
        OBVIOUS
    <2>1. CASE net' = <<>>
        <3>1. Len(net) = 1
            <4>1. Len(net') = 0
                BY <2>1, EmptySeq, Zenon
            <4> QED BY <1>1, <4>1, SMT
        <3> QED BY <1>1, <2>1, <3>1 DEF Inv, Chain
    <2>2. CASE net' # <<>>
        <3>1. 1 \in 1..Len(net) /\ 1 < Len(net) /\ net'[1] = net[1 + 1]
            BY <1>1, <2>2, EmptySeq, SMT
        <3> QED BY <1>1, <2>2, <3>1 DEF Inv, Chain
    <2> QED BY <2>1, <2>2
<1>7. conn' = "lost" => net' = <<>>
    BY DEF Inv, Chain
<1>8. (pc' = "done" /\ conn' = "up" => pos' >= before') /\ pos' <= entries' /\ before' <= entries'
    BY DEF Inv, Chain
<1> QED BY <1>1, <1>2, <1>3, <1>4, <1>5, <1>6, <1>7, <1>8 DEF Chain

THEOREM InvStep == Inv /\ [Next]_vars => Inv'
<1> SUFFICES ASSUME Inv, [Next]_vars PROVE Inv'
    OBVIOUS
<1>a. /\ pos \in Nat /\ entries \in Nat /\ before \in Nat /\ count \in Nat
      /\ stream.have \in Nat /\ MaxEntries \in Nat
      /\ pos <= MaxEntries /\ entries <= MaxEntries /\ stream.have <= MaxEntries
    BY CountsAssumption, MaxEntriesAssumption, SMT DEF Inv, TypeOK, Stream
<1>1. CASE AddEntry
    <2>1. entries' = entries + 1 /\ entries' \in 0..MaxEntries
          /\ UNCHANGED <<count, before, conn, pc, pos, answer, net, stream, done, result>>
        BY <1>1, <1>a, SMT DEF AddEntry, client
    <2>2. TypeOK' /\ SignalledOnce' /\ ResultStable'
        BY <2>1 DEF Inv, TypeOK, SignalledOnce, ResultStable
    <2>3. Chain'
        <3>1. pos' <= entries' /\ before' <= entries'
            BY <1>a, <2>1, SMT DEF Inv, Chain
        <3> QED BY <2>1, <3>1 DEF Inv, Chain
    <2>4. Collected'
        <3>1. stream.have <= entries' /\ (entries > count => entries' > count)
            BY <1>a, <2>1, SMT DEF Inv, Collected
        <3> QED BY <2>1, <3>1 DEF Inv, Collected, limit
    <2> QED BY <2>2, <2>3, <2>4 DEF Inv
<1>2. CASE Lose
    <2>1. /\ conn' = "lost" /\ net' = <<>> /\ Len(net') = 0 /\ net' \in Seq(Message)
          /\ UNCHANGED <<count, before, entries, pc, pos, answer, stream, done, result>>
        BY <1>2, EmptySeq DEF Lose, client
    <2>2. TypeOK' /\ SignalledOnce' /\ ResultStable' /\ Collected'
        BY <2>1 DEF Inv, TypeOK, SignalledOnce, ResultStable, Collected, limit
    <2>3. Chain'
        BY <2>1, SMT DEF Inv, Chain
    <2> QED BY <2>2, <2>3 DEF Inv
<1>3. CASE Open \/ OpenFails \/ ReadFails \/ Cancelled
    <2>1. /\ UNCHANGED <<count, before, entries, conn, pos, net, stream, done, result>>
          /\ pc' \in {"loop", "returned", "done"} /\ pc # "returned"
          /\ answer' \in {"none", "nil", "error", "OpenFailed"}
          /\ pc' = "done" => conn = "lost"
        BY <1>3 DEF Open, OpenFails, ReadFails, Cancelled, client, Inv, TypeOK
    <2>2. TypeOK' /\ SignalledOnce' /\ ResultStable' /\ Collected'
        BY <2>1 DEF Inv, TypeOK, SignalledOnce, ResultStable, Collected, limit
    <2>3. Chain'
        BY <2>1 DEF Inv, Chain
    <2> QED BY <2>2, <2>3 DEF Inv
<1>4. CASE PushChunk
    <2>1. PICK n \in 1..Chunk :
              /\ pos + n <= entries /\ pos' = pos + n
              /\ net' = Append(net, Push(pos, pos + n))
        BY <1>4 DEF PushChunk, Send
    <2>2. /\ UNCHANGED <<count, before, entries, conn, pc, answer, stream, done, result>>
          /\ pc = "loop" /\ conn = "up"
        BY <1>4 DEF PushChunk, client
    <2>3. pos' \in 0..MaxEntries /\ pos <= pos' /\ pos' <= entries /\ pos \in 0..MaxEntries
        BY <1>a, <2>1, ChunkAssumption, SMT
    <2> DEFINE m == Push(pos, pos')
    <2>4. /\ m \in Message /\ m.method = "push" /\ m.from = pos /\ m.to = pos'
          /\ net' = Append(net, m)
        BY <2>1, <2>3, MessageFacts
    <2> HIDE DEF m
    <2>5. Chain' /\ net' \in Seq(Message)
        BY <2>2, <2>3, <2>4, SendChains
    <2>6. TypeOK' /\ SignalledOnce' /\ ResultStable' /\ Collected'
        BY <2>2, <2>3, <2>5 DEF Inv, TypeOK, SignalledOnce, ResultStable, Collected, limit
    <2> QED BY <2>5, <2>6 DEF Inv
<1>5. CASE PushLast
    <2>1. /\ UNCHANGED <<count, before, entries, conn, pos, answer, stream, done, result>>
          /\ pc = "loop" /\ conn = "up" /\ pc' = "done" /\ pos >= before
          /\ net' = Append(net, Push(pos, pos))
        BY <1>5 DEF PushLast, Send, client
    <2>2. pos \in 0..MaxEntries /\ pos <= pos /\ pos <= entries
        BY <1>a, SMT DEF Inv, Chain
    <2> DEFINE m == Push(pos, pos)
    <2>3. m \in Message /\ m.method = "push" /\ m.from = pos /\ m.to = pos /\ net' = Append(net, m)
        BY <2>1, <2>2, MessageFacts
    <2> HIDE DEF m
    <2>4. Chain' /\ net' \in Seq(Message)
        BY <2>1, <2>2, <2>3, SendChains
    <2>5. TypeOK' /\ SignalledOnce' /\ ResultStable' /\ Collected'
        BY <2>1, <2>4 DEF Inv, TypeOK, SignalledOnce, ResultStable, Collected, limit
    <2> QED BY <2>4, <2>5 DEF Inv
<1>6. CASE SendDone
    <2>1. /\ UNCHANGED <<count, before, entries, conn, pos, stream, done, result>>
          /\ pc = "done" /\ pc' = "returned" /\ answer' = "nil"
        BY <1>6 DEF SendDone, client
    <2>2. Chain' /\ net' \in Seq(Message)
        <3>1. CASE conn = "up"
            <4>1. net' = Append(net, Done) /\ pos >= before
                BY <1>6, <3>1 DEF SendDone, Send, Inv, Chain
            <4>2. pos \in 0..MaxEntries /\ pos <= pos /\ pos <= entries
                BY <1>a, SMT DEF Inv, Chain
            <4>3. Done \in Message /\ Done.method = "done"
                BY MessageFacts
            <4> QED BY <2>1, <3>1, <4>1, <4>2, <4>3, SendChains
        <3>2. CASE conn = "lost"
            BY <1>6, <2>1, <3>2 DEF SendDone, Send, Inv, Chain, TypeOK
        <3> QED BY <3>1, <3>2 DEF Inv, TypeOK
    <2>3. TypeOK' /\ SignalledOnce' /\ ResultStable' /\ Collected'
        BY <2>1, <2>2 DEF Inv, TypeOK, SignalledOnce, ResultStable, Collected, limit
    <2> QED BY <2>2, <2>3 DEF Inv
<1>b. ASSUME net # <<>>
      PROVE  /\ Head(net) = net[1] /\ 1 \in 1..Len(net) /\ net[1] \in Message
             /\ net[1].method = "push" =>
                    /\ net[1].from \in Nat /\ net[1].to \in Nat
                    /\ net[1].from <= net[1].to /\ net[1].to <= pos
                    /\ ~stream.isClosed => net[1].from = stream.have
             /\ net[1].method = "done" /\ ~stream.isClosed =>
                    stream.have = pos /\ pos >= before
    <2>1. Len(net) \in Nat \ {0} /\ net \in Seq(Message)
        BY <1>b, EmptySeq DEF Inv, TypeOK
    <2>2. Head(net) = net[1] /\ 1 \in 1..Len(net) /\ net[1] \in Message
        BY <1>b, <2>1, ElementOfSeq, SMT
    <2>3. conn = "up"
        BY <1>b DEF Inv, Chain, TypeOK
    <2>4. net[1].method = "push" => net[1].from \in Nat /\ net[1].to \in Nat
        BY <1>a, <2>2, MessageFacts, SMT
    <2> QED BY <1>b, <2>2, <2>3, <2>4 DEF Inv, Chain, Start
<1>7. CASE PushTooMany
    <2>1. /\ net # <<>> /\ net' = Tail(net) /\ Head(net).method = "push"
          /\ UNCHANGED <<count, before, entries, conn, pc, pos, answer, result>>
          /\ ~stream.isClosed /\ limit /\ count - stream.have < Head(net).to - Head(net).from
          /\ stream' = [stream EXCEPT !.err = "TooManyEntries", !.isClosed = TRUE]
          /\ done = 0 /\ done' = 1
        BY <1>7 DEF PushTooMany, Receive, Signal, Inv, SignalledOnce
    <2>2. /\ stream' \in Stream /\ stream'.isClosed /\ stream'.err = "TooManyEntries"
          /\ stream'.have = stream.have /\ stream'.buf = stream.buf
        BY <2>1 DEF Inv, TypeOK, Stream
    <2>3. Chain' /\ net' \in Seq(Message)
        BY <2>1, <2>2, ReceiveChains
    <2>4. entries > count
        BY <1>a, <1>b, <2>1, SMT DEF Inv, Chain
    <2>5. TypeOK'
        BY <2>1, <2>2, <2>3 DEF Inv, TypeOK
    <2>6. SignalledOnce' /\ ResultStable' /\ Collected'
        BY <2>1, <2>2, <2>4 DEF Inv, SignalledOnce, ResultStable, Collected, limit
    <2> QED BY <2>3, <2>5, <2>6 DEF Inv
<1>8. CASE PushEntries
    <2> DEFINE m == Head(net)
               n == m.to - m.from
    <2>1. /\ net # <<>> /\ net' = Tail(net) /\ m.method = "push"
          /\ UNCHANGED <<count, before, entries, conn, pc, pos, answer, done, result>>
          /\ ~stream.isClosed
          /\ limit => count - stream.have >= n
          /\ stream' = [stream EXCEPT !.buf = Appended(m), !.have = @ + n]
        BY <1>8 DEF PushEntries, Receive
    <2>2. m.from = stream.have /\ m.to \in Nat /\ stream.have <= m.to /\ m.to <= pos
        BY <1>b, <2>1
    <2>3. m.to \in 0..MaxEntries /\ stream.have \in 0..MaxEntries /\ stream.have + n = m.to
        BY <1>a, <2>2, SMT
    <2>4. Appended(m) = Entries(m.to)
        BY <2>2, <2>3, EntriesAppended DEF Appended, Inv, Collected
    <2>5. /\ stream' \in Stream /\ stream'.have = m.to /\ stream'.buf = Entries(m.to)
          /\ stream'.isClosed = FALSE /\ stream'.err = "nil"
        BY <2>1, <2>3, <2>4, EntriesFacts DEF Inv, TypeOK, Stream, Collected
    <2>6. Chain' /\ net' \in Seq(Message)
        BY <2>1, <2>5, ReceiveChains
    <2>7. m.to <= entries /\ (limit => m.to <= count)
        BY <1>a, <2>1, <2>2, SMT DEF Inv, Chain
    <2> HIDE DEF m, n
    <2>8. TypeOK'
        BY <2>1, <2>5, <2>6 DEF Inv, TypeOK
    <2>9. SignalledOnce' /\ ResultStable' /\ Collected'
        BY <2>1, <2>5, <2>7 DEF Inv, SignalledOnce, ResultStable, Collected, limit
    <2> QED BY <2>6, <2>8, <2>9 DEF Inv
<1>9. CASE HandleDone
    <2>1. /\ net # <<>> /\ net' = Tail(net) /\ Head(net).method = "done"
          /\ UNCHANGED <<count, before, entries, conn, pc, pos, answer, result>>
          /\ ~stream.isClosed
          /\ stream' = [stream EXCEPT !.isClosed = TRUE]
          /\ done = 0 /\ done' = 1
        BY <1>9 DEF HandleDone, Receive, Signal, Inv, SignalledOnce
    <2>2. /\ stream' \in Stream /\ stream'.isClosed /\ stream'.err = "nil"
          /\ stream'.have = stream.have /\ stream'.buf = stream.buf
        BY <2>1 DEF Inv, TypeOK, Stream, Collected
    <2>3. Chain' /\ net' \in Seq(Message)
        BY <2>1, <2>2, ReceiveChains
    <2>4. stream.have >= before
        BY <1>b, <2>1
    <2>5. TypeOK'
        BY <2>1, <2>2, <2>3 DEF Inv, TypeOK
    <2>6. SignalledOnce' /\ ResultStable' /\ Collected'
        BY <2>1, <2>2, <2>4 DEF Inv, SignalledOnce, ResultStable, Collected, limit
    <2> QED BY <2>3, <2>5, <2>6 DEF Inv
<1>10. CASE HandleClosed
    <2>1. /\ net # <<>> /\ net' = Tail(net)
          /\ UNCHANGED <<count, before, entries, conn, pc, pos, answer, stream, done, result>>
          /\ stream.isClosed
        BY <1>10 DEF HandleClosed, Receive, client
    <2>2. Chain' /\ net' \in Seq(Message)
        BY <2>1, ReceiveChains
    <2>3. TypeOK' /\ SignalledOnce' /\ ResultStable' /\ Collected'
        BY <2>1, <2>2 DEF Inv, TypeOK, SignalledOnce, ResultStable, Collected, limit
    <2> QED BY <2>2, <2>3 DEF Inv
<1>11. CASE Return
    <2>1. /\ result = NoResult /\ done = 1 /\ done' = 0
          /\ result' = [buf |-> stream.buf, err |-> stream.err]
          /\ UNCHANGED <<count, before, entries, conn, pc, pos, answer, net, stream>>
        BY <1>11, SMT DEF Return, Inv, TypeOK
    <2>2. result' \in Result /\ result' # NoResult
        BY <2>1, NoResultAssumption DEF Inv, TypeOK, Stream, Result
    <2>3. TypeOK'
        BY <2>1, <2>2 DEF Inv, TypeOK
    <2>4. SignalledOnce' /\ ResultStable'
        BY <2>1, <2>2 DEF Inv, SignalledOnce, ResultStable
    <2>5. Chain' /\ Collected'
        BY <2>1 DEF Inv, Chain, Collected, limit
    <2> QED BY <2>3, <2>4, <2>5 DEF Inv
<1>12. CASE UNCHANGED vars
    <2>1. UNCHANGED <<count, before, entries, conn, pc, pos, answer, net, stream, done, result>>
        BY <1>12 DEF vars
    <2> QED BY <2>1 DEF Inv, TypeOK, SignalledOnce, ResultStable, Chain, Collected, limit
<1> QED BY <1>1, <1>2, <1>3, <1>4, <1>5, <1>6, <1>7, <1>8, <1>9, <1>10, <1>11, <1>12
        DEF Next, List, Handle
-----------------------------------------------------------------------------
THEOREM Invariance == Spec => []Inv
BY InvInit, InvStep, PTL DEF Spec

(***************************************************************************)
(* Types are right: in particular List never pushes an entry that is not   *)
(* in the directory (local.go:122-156).                                    *)
(***************************************************************************)
THEOREM TypeCorrect == Spec => []TypeOK
BY Invariance, PTL DEF Inv

(***************************************************************************)
(* The one-token channel is signalled once, whichever way the stream ends: *)
(* no handler blocks on it (httpfs.go:109-138).                            *)
(***************************************************************************)
THEOREM SignalIsSentOnce == Spec => []SignalledOnce
BY Invariance, PTL DEF Inv

(***************************************************************************)
(* The slice Readdir returned is not written any more, though the server   *)
(* may still push to the stream (httpfs.go:126-180).                       *)
(***************************************************************************)
THEOREM ResultIsStable == Spec => []ResultStable
BY Invariance, PTL DEF Inv

(***************************************************************************)
(* The buffer never outgrows the limit (httpfs.go:134).                    *)
(***************************************************************************)
THEOREM LimitIsKept == Spec => []WithinLimit
<1>1. Inv => WithinLimit
    <2> SUFFICES ASSUME Inv PROVE WithinLimit
        OBVIOUS
    <2>1. stream.have \in 0..MaxEntries
        BY DEF Inv, TypeOK, Stream
    <2> QED BY <2>1, EntriesFacts DEF Inv, Collected, WithinLimit
<1> QED BY <1>1, Invariance, PTL

(***************************************************************************)
(* Readdir's answer is the whole directory in order, or TooManyEntries for *)
(* a directory with more entries than the limit: DirListing implements     *)
(* Listing, whatever is lost, fails or is added on the way.                *)
(***************************************************************************)
THEOREM ReaddirImplementsListing == Spec => ReaddirKeepsPromise
<1>1. Init => Promise!Init
    BY DEF Init, Promise!Init
<1>2. Inv /\ [Next]_vars => [Promise!Next]_<<count, before, entries, result>>
    <2> SUFFICES ASSUME Inv, [Next]_vars
                 PROVE  [Promise!Next]_<<count, before, entries, result>>
        OBVIOUS
    <2>1. CASE AddEntry
        BY <2>1 DEF AddEntry, client, Promise!Next, Promise!AddEntry
    <2>2. CASE Return
        <3>1. /\ result = NoResult /\ stream.isClosed
              /\ result' = [buf |-> stream.buf, err |-> stream.err]
              /\ UNCHANGED <<count, before, entries>>
            BY <2>2, SMT DEF Return, Inv, SignalledOnce
        <3>2. stream.buf = Promise!Entries(stream.have)
            BY DEF Inv, Collected, Entries, Promise!Entries
        <3>3. /\ stream.have \in Nat /\ entries \in Nat /\ before \in Nat
              /\ count \in Nat /\ stream.have <= entries
              /\ count > 0 => stream.have <= count
            BY CountsAssumption, MaxEntriesAssumption, SMT
               DEF Inv, TypeOK, Stream, Collected, limit
        <3>4. CASE stream.err = "nil"
            <4>1. stream.have \in before..entries
                BY <3>1, <3>3, <3>4, SMT DEF Inv, Collected
            <4> QED BY <3>1, <3>2, <3>3, <3>4, <4>1 DEF Promise!Next, Promise!ReturnAll
        <3>5. CASE stream.err = "TooManyEntries"
            <4>1. count > 0 /\ entries > count
                BY <3>5 DEF Inv, Collected, limit
            <4>2. stream.have \in 0..count
                BY <3>3, <4>1, SMT
            <4> QED BY <3>1, <3>2, <3>5, <4>1, <4>2 DEF Promise!Next, Promise!ReturnTooMany
        <3> QED BY <3>4, <3>5 DEF Inv, TypeOK, Stream
    <2>3. CASE Lose \/ List \/ Handle \/ UNCHANGED vars
        BY <2>3 DEF Lose, List, Open, OpenFails, PushChunk, PushLast, ReadFails, Cancelled,
           SendDone, Handle, PushTooMany, PushEntries, HandleDone, HandleClosed, Receive,
           client, vars
    <2> QED BY <2>1, <2>2, <2>3 DEF Next
<1> QED BY <1>1, <1>2, Invariance, PTL DEF Spec, ReaddirKeepsPromise, Promise!Spec
=============================================================================

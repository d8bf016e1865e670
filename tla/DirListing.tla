----------------------------- MODULE DirListing -----------------------------
(***************************************************************************)
(* Listing a directory over RPC: local.Node.List in the "localfs" grain    *)
(* reads the directory in chunks and pushes them into a stream; fiStream   *)
(* in the client's grain (httpfs.go) collects them, and File.Readdir waits *)
(* on a channel until the stream says that it is done.                     *)
(*                                                                         *)
(* The RPC layer is external: calls on one capability arrive in the order  *)
(* they were made and are handled one at a time, until the connection is   *)
(* lost.  Nobody looks at the answers: List ignores those of push and      *)
(* done, Readdir that of list.                                             *)
(***************************************************************************)
EXTENDS Naturals, Sequences

CONSTANTS
    Counts,      \* the values of Readdir's argument; 0 stands for "no limit"
    Chunk,       \* maxBufSize
    MaxEntries,  \* bound: entries in the directory
    NoResult     \* Readdir has not returned

VARIABLES
    count,       \* the argument of this call of Readdir
    before,      \* the number of entries when it was called
    entries,     \* the number of entries now
    conn,        \* the connection between the grains: "up" or "lost"
    pc,          \* where List is: "open", "loop", "done", "returned"
    pos,         \* how many entries List has read
    answer,      \* what List returned
    net,         \* calls on the stream under way
    stream,      \* the fiStream
    done,        \* how many tokens are in its channel
    result       \* what Readdir returned

vars == <<count, before, entries, conn, pc, pos, answer, net, stream, done, result>>

ASSUME CountsAssumption == Counts \subseteq Nat
ASSUME ChunkAssumption == Chunk \in Nat \ {0}
ASSUME MaxEntriesAssumption == MaxEntries \in Nat

(* push carries the entries numbered from+1 to to. *)
Push(from, to) == [method |-> "push", from |-> from, to |-> to]
Done           == [method |-> "done"]

Message == {Push(from, to) : from, to \in 0..MaxEntries} \cup {Done}
Stream  == [isClosed : BOOLEAN, have : 0..MaxEntries, buf : Seq(1..MaxEntries),
            err : {"nil", "TooManyEntries"}]
Result  == [buf : Seq(1..MaxEntries), err : {"nil", "TooManyEntries"}]

ASSUME NoResultAssumption == NoResult \notin Result
-----------------------------------------------------------------------------
Init ==
    /\ count \in Counts
    /\ entries \in 0..MaxEntries
    /\ before = entries
    /\ conn = "up"
    /\ pc = "open" /\ pos = 0 /\ answer = "none"
    /\ net = <<>>
    /\ stream = [isClosed |-> FALSE, have |-> 0, buf |-> <<>>, err |-> "nil"]
    /\ done = 0
    /\ result = NoResult

client == <<stream, done, result>>

(* Another client creates a file or directory. *)
AddEntry ==
    /\ entries < MaxEntries
    /\ entries' = entries + 1
    /\ UNCHANGED <<count, before, conn, pc, pos, answer, net, client>>

(* The connection breaks; calls under way are lost. *)
Lose ==
    /\ conn = "up"
    /\ conn' = "lost"
    /\ net' = <<>>
    /\ UNCHANGED <<count, before, entries, pc, pos, answer, client>>

Send(message) == net' = IF conn = "up" THEN Append(net, message) ELSE net
-----------------------------------------------------------------------------
(* os.Open succeeds ... *)
Open ==
    /\ pc = "open"
    /\ pc' = "loop"
    /\ UNCHANGED <<count, before, entries, conn, pos, answer, net, client>>

(* ... or fails, and nothing is ever sent to the stream. *)
OpenFails ==
    /\ pc = "open"
    /\ pc' = "returned" /\ answer' = "OpenFailed"
    /\ UNCHANGED <<count, before, entries, conn, pos, net, client>>

(* Wrong version, for the mutation runs: takes every chunk to be full. *)
PushChunkFull ==
    /\ pc = "loop" /\ conn = "up" /\ pos < entries
    /\ pos' = pos + Chunk
    /\ Send(Push(pos, pos + Chunk))
    /\ UNCHANGED <<count, before, entries, conn, pc, answer, client>>

(* One round of the loop: ctx.Err() is nil until the connection is lost. *)
PushChunk ==
    /\ pc = "loop" /\ conn = "up"
    /\ \E n \in 1..Chunk :
          /\ pos + n <= entries
          /\ pos' = pos + n
          /\ Send(Push(pos, pos + n))
    /\ UNCHANGED <<count, before, entries, conn, pc, answer, client>>

(* Wrong version, for the mutation runs: stops after any round. *)
PushLastEarly ==
    /\ pc = "loop" /\ conn = "up"
    /\ Send(Push(pos, pos))
    /\ pc' = "done"
    /\ UNCHANGED <<count, before, entries, conn, pos, answer, client>>

(***************************************************************************)
(* The last round: Readdir finds nothing more and says io.EOF.  What was   *)
(* there at the beginning has been read by then; of what was added since,  *)
(* anything may be missing.                                                *)
(***************************************************************************)
PushLast ==
    /\ pc = "loop" /\ conn = "up"
    /\ pos >= before
    /\ Send(Push(pos, pos))
    /\ pc' = "done"
    /\ UNCHANGED <<count, before, entries, conn, pos, answer, client>>

ReadFails ==
    /\ pc = "loop" /\ conn = "up"
    /\ pc' = "returned" /\ answer' = "error"
    /\ UNCHANGED <<count, before, entries, conn, pos, net, client>>

(* The loop ends early, but otherwise as if it had reached the end. *)
Cancelled ==
    /\ pc = "loop" /\ conn = "lost"
    /\ pc' = "done"
    /\ UNCHANGED <<count, before, entries, conn, pos, answer, net, client>>

SendDone ==
    /\ pc = "done"
    /\ Send(Done)
    /\ pc' = "returned" /\ answer' = "nil"
    /\ UNCHANGED <<count, before, entries, conn, pos, client>>

List == Open \/ OpenFails \/ PushChunk \/ PushLast \/ ReadFails \/ Cancelled \/ SendDone
-----------------------------------------------------------------------------
Receive(method) ==
    /\ net # <<>> /\ Head(net).method = method
    /\ net' = Tail(net)
    /\ UNCHANGED <<count, before, entries, conn, pc, pos, answer>>

(* s.done has room for one token; a second one would block the handler. *)
Signal == done < 1 /\ done' = done + 1

limit == count > 0

(* The buffer with the entries of a push call appended. *)
Appended(m) == stream.buf \o [i \in 1..(m.to - m.from) |-> m.from + i]

(* Wrong version, for the mutation runs: leaves the stream open. *)
PushTooManyOpen ==
    /\ Receive("push") /\ ~stream.isClosed
    /\ limit /\ count - stream.have < Head(net).to - Head(net).from
    /\ stream' = [stream EXCEPT !.err = "TooManyEntries"]
    /\ Signal
    /\ UNCHANGED result

PushTooMany ==
    /\ Receive("push")
    /\ ~stream.isClosed
    /\ limit /\ count - stream.have < Head(net).to - Head(net).from
    /\ stream' = [stream EXCEPT !.err = "TooManyEntries", !.isClosed = TRUE]
    /\ Signal
    /\ UNCHANGED result

(***************************************************************************)
(* Two wrong versions, for the mutation runs: one appends to a closed      *)
(* stream, the other does not count what it appends.                       *)
(***************************************************************************)
PushEntriesClosed ==
    /\ Receive("push")
    /\ limit => count - stream.have >= Head(net).to - Head(net).from
    /\ stream' = [stream EXCEPT !.buf = Appended(Head(net)),
                                !.have = @ + Head(net).to - Head(net).from]
    /\ UNCHANGED <<done, result>>

PushEntriesUncounted ==
    /\ Receive("push") /\ ~stream.isClosed
    /\ limit => count - stream.have >= Head(net).to - Head(net).from
    /\ stream' = [stream EXCEPT !.buf = Appended(Head(net))]
    /\ UNCHANGED <<done, result>>

PushEntries ==
    /\ Receive("push")
    /\ ~stream.isClosed
    /\ LET n == Head(net).to - Head(net).from
       IN  /\ limit => count - stream.have >= n
           /\ stream' = [stream EXCEPT !.buf = Appended(Head(net)), !.have = @ + n]
    /\ UNCHANGED <<done, result>>

(* Wrong version, for the mutation runs: does not signal. *)
HandleDoneSilent ==
    /\ Receive("done") /\ ~stream.isClosed
    /\ stream' = [stream EXCEPT !.isClosed = TRUE]
    /\ UNCHANGED <<done, result>>

HandleDone ==
    /\ Receive("done")
    /\ ~stream.isClosed
    /\ stream' = [stream EXCEPT !.isClosed = TRUE]
    /\ Signal
    /\ UNCHANGED result

(* Push and Done on a closed stream change nothing. *)
HandleClosed ==
    /\ Receive("push") \/ Receive("done")
    /\ stream.isClosed
    /\ UNCHANGED client

Handle == PushTooMany \/ PushEntries \/ HandleDone \/ HandleClosed

(* <-ret.done, and ret.buf, ret.err as they are then. *)
Return ==
    /\ result = NoResult
    /\ done > 0 /\ done' = done - 1
    /\ result' = [buf |-> stream.buf, err |-> stream.err]
    /\ UNCHANGED <<count, before, entries, conn, pc, pos, answer, net, stream>>
-----------------------------------------------------------------------------
Next == AddEntry \/ Lose \/ List \/ Handle \/ Return

(***************************************************************************)
(* Goroutines are scheduled, and a call that was sent is delivered while   *)
(* the connection is up.  No fairness for what may go wrong.               *)
(***************************************************************************)
Fairness ==
    /\ WF_vars(Open \/ OpenFails)
    /\ WF_vars(PushChunk \/ PushLast \/ ReadFails \/ Cancelled)
    /\ WF_vars(SendDone)
    /\ WF_vars(Handle)
    /\ WF_vars(Return)

Spec == Init /\ [][Next]_vars /\ Fairness
-----------------------------------------------------------------------------
TypeOK ==
    /\ count \in Counts
    /\ before \in 0..MaxEntries /\ entries \in 0..MaxEntries
    /\ conn \in {"up", "lost"}
    /\ pc \in {"open", "loop", "done", "returned"}
    /\ pos \in 0..MaxEntries
    /\ answer \in {"none", "nil", "error", "OpenFailed"}
    /\ net \in Seq(Message)
    /\ stream \in Stream
    /\ done \in 0..1
    /\ result \in Result \cup {NoResult}

(***************************************************************************)
(* The three ways to end a stream (done, too many entries, and done after  *)
(* too many entries) put one token in the channel between them: so no      *)
(* handler ever blocks on it, and Readdir does not wait for a second one.  *)
(***************************************************************************)
SignalledOnce ==
    /\ ~stream.isClosed => done = 0 /\ result = NoResult
    /\ stream.isClosed => (done = 1 <=> result = NoResult)

(***************************************************************************)
(* What Readdir returned shares its memory with the stream, which the      *)
(* server may go on pushing to: it is not written any more.                *)
(***************************************************************************)
ResultStable ==
    result # NoResult => result = [buf |-> stream.buf, err |-> stream.err]

(* A limit set by the caller is never exceeded. *)
WithinLimit == limit => Len(stream.buf) = stream.have /\ stream.have <= count

(* Readdir returns the whole directory or an error (module Listing). *)
Promise == INSTANCE Listing
ReaddirKeepsPromise == Promise!Spec

(***************************************************************************)
(* Readdir returns, unless List failed or the connection broke: those are  *)
(* the cases in which it may hang.                                         *)
(***************************************************************************)
ReaddirReturns ==
    <>(result # NoResult \/ answer \in {"error", "OpenFailed"} \/ conn = "lost")

(***************************************************************************)
(* templates/fs-viewer-index.html:12-13: click "Browse filesystem" "to     *)
(* view the files".  A grain that answers gives the user a listing or an   *)
(* error: filesystem.capnp:54-55, list returns when everything was pushed, *)
(* "or an error has occurred".  The code violates this: if List fails, it  *)
(* does not call done, and Readdir, which waits for that and ignores the   *)
(* answer to list, never returns.  (The FIXME at httpfs.go:171 speaks of a *)
(* remote that causes it; the server of this repository does.)             *)
(***************************************************************************)
ReaddirAnswers == <>(result # NoResult \/ conn = "lost")
=============================================================================

------------------------------ MODULE Listing ------------------------------
(***************************************************************************)
(* What File.Readdir of package httpfs promises its caller, http.FileServer *)
(* among them: one answer, which is the whole directory in order, or, when *)
(* the caller set a limit that the directory exceeds, an error.  Entries   *)
(* are numbered in the order in which the operating system reports them;   *)
(* new ones may be added while the directory is being listed, and nothing  *)
(* in the protocol removes one.                                            *)
(***************************************************************************)
EXTENDS Naturals, Sequences

CONSTANTS
    Counts,      \* the values of Readdir's argument; 0 stands for "no limit"
    MaxEntries,  \* bound: entries in the directory
    NoResult     \* Readdir has not returned

VARIABLES
    count,       \* the argument of this call of Readdir
    before,      \* the number of entries when it was called
    entries,     \* the number of entries now
    result       \* what it returned

Entries(n) == [i \in 1..n |-> i]

Init ==
    /\ count \in Counts
    /\ entries \in 0..MaxEntries
    /\ before = entries
    /\ result = NoResult

AddEntry ==
    /\ entries < MaxEntries
    /\ entries' = entries + 1
    /\ UNCHANGED <<count, before, result>>

ReturnAll ==
    /\ result = NoResult
    /\ \E n \in before..entries :
          /\ count > 0 => n <= count
          /\ result' = [buf |-> Entries(n), err |-> "nil"]
    /\ UNCHANGED <<count, before, entries>>

ReturnTooMany ==
    /\ result = NoResult
    /\ count > 0 /\ entries > count
    /\ \E n \in 0..count : result' = [buf |-> Entries(n), err |-> "TooManyEntries"]
    /\ UNCHANGED <<count, before, entries>>

Next == AddEntry \/ ReturnAll \/ ReturnTooMany

Spec == Init /\ [][Next]_<<count, before, entries, result>>
=============================================================================

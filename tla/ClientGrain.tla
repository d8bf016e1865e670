---------------------------- MODULE ClientGrain ----------------------------
(***************************************************************************)
(* The web side of the two grains that use a filesystem of another grain:  *)
(* the viewer (fs-viewer.go) and the uploader (zip-uploader.go).  A user   *)
(* lets the grain claim a directory, which is kept in a global variable;   *)
(* other requests use it.  All handlers run under one lock (utils.go), and *)
(* hold it while they wait for other grains.                               *)
(*                                                                         *)
(* What a use does is in ServeFile, DirListing and ZipUpload.  Here it     *)
(* matters that it looks at the variable several times, and how it can     *)
(* come to an end.                                                         *)
(***************************************************************************)
EXTENDS Naturals, FiniteSets

CONSTANTS
    Requests,       \* the connections that web requests come in on
    NoOne,          \* the owner of a lock that is free
    Nil,            \* no directory was claimed
    MaxClaims       \* bound: directories claimed

VARIABLES
    grain,       \* which of the two it is: "viewer" or "uploader"
    lock,        \* lck: who holds it
    root,        \* rootDir, rootRwDir: the directory claimed last
    claims,      \* how many there were
    dead,        \* the directories whose grain has stopped answering
    pc,          \* "idle", "lock", "run", "call", "stuck", "unlock"
    kind,        \* what the request asks for
    gone,        \* the requests whose users have given up
    used         \* the directories the request has made calls on

vars == <<grain, lock, root, claims, dead, pc, kind, gone, used>>

Dir == 1..MaxClaims

ASSUME ConstantAssumption ==
    /\ NoOne \notin Requests /\ Nil \notin Dir
    /\ MaxClaims \in Nat

Uploader == grain = "uploader"

Init ==
    /\ grain \in {"viewer", "uploader"}
    /\ lock = NoOne /\ root = Nil /\ claims = 0 /\ dead = {}
    /\ pc = [r \in Requests |-> "idle"]
    /\ kind = [r \in Requests |-> "index"]
    /\ gone = {} /\ used = [r \in Requests |-> {}]

At(r, from, to) == pc[r] = from /\ pc' = [pc EXCEPT ![r] = to]
-----------------------------------------------------------------------------
Arrive(r) ==
    /\ At(r, "idle", "lock")
    /\ \E k \in {"claim", "index", "use"} : kind' = [kind EXCEPT ![r] = k]
    /\ gone' = gone \ {r} /\ used' = [used EXCEPT ![r] = {}]
    /\ UNCHANGED <<grain, lock, root, claims, dead>>

(* Wrong version, for the mutation runs: handlers run side by side. *)
LockNot(r) ==
    /\ At(r, "lock", "run")
    /\ lock' = r
    /\ UNCHANGED <<grain, root, claims, dead, kind, gone, used>>

(* lck.Lock(): nobody can give up waiting for it. *)
Lock(r) ==
    /\ At(r, "lock", "run")
    /\ lock = NoOne /\ lock' = r
    /\ UNCHANGED <<grain, root, claims, dead, kind, gone, used>>

Index(r) ==
    /\ kind[r] = "index" /\ At(r, "run", "unlock")
    /\ UNCHANGED <<grain, lock, root, claims, dead, kind, gone, used>>

(* The claim is a call to the bridge, ... *)
ClaimRequest(r) ==
    /\ kind[r] = "claim" /\ At(r, "run", "call")
    /\ UNCHANGED <<grain, lock, root, claims, dead, kind, gone, used>>

(* ... which may be refused: the old directory stays. *)
ClaimFails(r) ==
    /\ kind[r] = "claim" /\ At(r, "call", "unlock")
    /\ UNCHANGED <<grain, lock, root, claims, dead, kind, gone, used>>

Claimed(r) ==
    /\ kind[r] = "claim" /\ At(r, "call", "unlock")
    /\ claims < MaxClaims
    /\ claims' = claims + 1 /\ root' = claims + 1
    /\ UNCHANGED <<grain, lock, dead, kind, gone, used>>

(* A null capability is kept too: the uploader has no directory then, while *)
(* the viewer has one of which every use fails (Claimed, UseFails).         *)
ClaimedNull(r) ==
    /\ Uploader /\ kind[r] = "claim" /\ At(r, "call", "unlock")
    /\ root' = Nil
    /\ UNCHANGED <<grain, lock, claims, dead, kind, gone, used>>

(* 404 or 400: nothing was claimed yet. *)
UseRefused(r) ==
    /\ kind[r] = "use" /\ root = Nil /\ At(r, "run", "unlock")
    /\ UNCHANGED <<grain, lock, root, claims, dead, kind, gone, used>>

Use(r) ==
    /\ kind[r] = "use" /\ root # Nil /\ At(r, "run", "call")
    /\ used' = [used EXCEPT ![r] = @ \cup {root}]
    /\ UNCHANGED <<grain, lock, root, claims, dead, kind, gone>>

(* Every grain that the request has made calls on still answers them. *)
Answers(r) == kind[r] = "use" /\ used[r] \cap dead = {}

(* The next entry of an archive: rwDir := rootRwDir once more. *)
UseAgain(r) ==
    /\ Answers(r) /\ pc[r] = "call"
    /\ used' = [used EXCEPT ![r] = @ \cup {root}]
    /\ UNCHANGED <<grain, lock, root, claims, dead, pc, kind, gone>>

(* A use comes to its end, if none of its calls fails. *)
Used(r) ==
    /\ Answers(r) /\ At(r, "call", "unlock")
    /\ UNCHANGED <<grain, lock, root, claims, dead, kind, gone, used>>

(***************************************************************************)
(* A call fails, though its grain may be alive, and the viewer does not    *)
(* look at the answer: Readdir waits for a signal that a List which failed *)
(* does not send (DirListing), Read for a pipe that a Read which failed    *)
(* perhaps never closes (HttpFile).  Nothing leads out of this: the        *)
(* context is context.TODO(), and the lock is held.                        *)
(***************************************************************************)
FailureMissed(r) ==
    /\ ~Uploader /\ kind[r] = "use" /\ At(r, "call", "stuck")
    /\ UNCHANGED <<grain, lock, root, claims, dead, kind, gone, used>>

(* A call fails, and the handler is told so. *)
UseFails(r) ==
    /\ kind[r] = "use" /\ At(r, "call", "unlock")
    /\ UNCHANGED <<grain, lock, root, claims, dead, kind, gone, used>>

(* Calls made with req.Context() end with the request: both grains claim    *)
(* that way, and the uploader makes all its calls so.                       *)
Cancelled(r) ==
    /\ kind[r] = "claim" \/ Uploader
    /\ r \in gone /\ At(r, "call", "unlock")
    /\ UNCHANGED <<grain, lock, root, claims, dead, kind, gone, used>>

(* Wrong version, for the mutation runs: no defer. *)
PanicsLocked(r) ==
    /\ pc[r] \in {"run", "call"}
    /\ pc' = [pc EXCEPT ![r] = "idle"]
    /\ UNCHANGED <<grain, lock, root, claims, dead, kind, gone, used>>

(* A handler may panic; net/http recovers, and the lock is released. *)
Panics(r) ==
    /\ pc[r] \in {"run", "call"}
    /\ pc' = [pc EXCEPT ![r] = "unlock"]
    /\ UNCHANGED <<grain, lock, root, claims, dead, kind, gone, used>>

(* defer lck.Unlock() *)
Unlock(r) ==
    /\ At(r, "unlock", "idle")
    /\ lock' = NoOne
    /\ UNCHANGED <<grain, root, claims, dead, kind, gone, used>>

Handler(r) ==
    \/ Index(r)
    \/ ClaimRequest(r) \/ ClaimFails(r) \/ Claimed(r) \/ ClaimedNull(r)
    \/ UseRefused(r) \/ Use(r) \/ Used(r) \/ Cancelled(r) \/ Unlock(r)

(* The user closes the page; a grain stops answering. *)
GiveUp(r) ==
    /\ pc[r] # "idle" /\ gone' = gone \cup {r}
    /\ UNCHANGED <<grain, lock, root, claims, dead, pc, kind, used>>

Die(d) ==
    /\ d <= claims /\ dead' = dead \cup {d}
    /\ UNCHANGED <<grain, lock, root, claims, pc, kind, gone, used>>

Next ==
    \/ \E r \in Requests :
          \/ Arrive(r) \/ Lock(r) \/ Handler(r) \/ UseAgain(r)
          \/ UseFails(r) \/ FailureMissed(r) \/ Panics(r) \/ GiveUp(r)
    \/ \E d \in Dir : Die(d)

(***************************************************************************)
(* Go's sync.Mutex lets nobody starve; a handler that can go on does; the  *)
(* bridge answers; and no user waits for ever for a page.                  *)
(***************************************************************************)
Spec ==
    /\ Init /\ [][Next]_vars
    /\ \A r \in Requests :
          SF_vars(Lock(r)) /\ WF_vars(Handler(r)) /\ WF_vars(GiveUp(r))
-----------------------------------------------------------------------------
(* Types; and the lock is held by the one request that is being handled. *)
TypeOK ==
    /\ grain \in {"viewer", "uploader"}
    /\ lock \in Requests \cup {NoOne} /\ root \in Dir \cup {Nil}
    /\ claims \in 0..MaxClaims /\ dead \subseteq Dir
    /\ pc \in [Requests -> {"idle", "lock", "run", "call", "stuck", "unlock"}]
    /\ kind \in [Requests -> {"claim", "index", "use"}]
    /\ gone \subseteq Requests /\ used \in [Requests -> SUBSET Dir]
    /\ \A r \in Requests : lock = r <=> pc[r] \in {"run", "call", "stuck", "unlock"}

(***************************************************************************)
(* An archive goes to one filesystem, though the handler looks at the      *)
(* variable again for every entry and the user may claim another           *)
(* filesystem from a second window.                                        *)
(***************************************************************************)
OneDirectory == \A r \in Requests : Cardinality(used[r]) <= 1

(***************************************************************************)
(* The viewer's handler is in a call that it will never come back from, or *)
(* not before a dead grain is given up by the host.                        *)
(***************************************************************************)
Hangs(r) ==
    /\ ~Uploader
    /\ \/ pc[r] = "stuck"
       \/ pc[r] = "call" /\ kind[r] = "use" /\ ~Answers(r)

(***************************************************************************)
(* Every request is answered, whatever became of the others: panics,       *)
(* refused claims, users who leave.  The uploader keeps this promise       *)
(* always, since its calls end with the request.  The viewer keeps it      *)
(* unless one of its handlers hangs for ever (the FIXME at httpfs.go:171); *)
(* but then the lock is never released and every other request waits too.  *)
(***************************************************************************)
Answered ==
    \A r \in Requests :
        (pc[r] = "lock" ~> pc[r] = "idle") \/ <>[](\E q \in Requests : Hangs(q))
=============================================================================

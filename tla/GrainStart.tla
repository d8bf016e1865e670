----------------------------- MODULE GrainStart -----------------------------
(***************************************************************************)
(* Starting a grain of the package (main.go), up to where it serves web    *)
(* requests, and the promise by which the "localfs" grain's requests get   *)
(* at the bridge (bridgePromise.go).                                       *)
(*                                                                         *)
(* Sandstorm starts the program with the action that created the grain the *)
(* first time, and with "restore" every other time.  It may kill it        *)
(* whenever it likes; what is under /var stays.                            *)
(***************************************************************************)
CONSTANTS
    Requests,    \* web requests of powerbox sessions
    Nothing      \* no file, no bridge, no argument

VARIABLES
    file,        \* /var/action
    dir,         \* /var/shared-dir: Nothing or "made"
    created,     \* history: the action that created the grain
    arg,         \* os.Args[1]
    pc,          \* where main is
    action,      \* what getAction returned
    ch,          \* the one place in the buffer of BridgePromise.ch
    once,        \* BridgePromise.once: "new", "running", "done"
    bridge,      \* BridgePromise.bridge
    req          \* where each request is; in the end, what Wait returned

vars == <<file, dir, created, arg, pc, action, ch, once, bridge, req>>

(* The actions of sandstorm-pkgdef.capnp. *)
Action == {"localfs", "httpview", "zip-uploader"}

Running ==
    {"getAction", "writeAction", "switch", "connect", "connected", "listen", "serving"}

(* From here on hooks or web requests may be called. *)
Exposed == {"connect", "connected", "listen", "serving"}

ASSUME NothingAssumption ==
    Nothing \notin Action \cup {"empty", "made", "bridge", "none", "waiting", "receiving"}

Init ==
    /\ file = Nothing /\ dir = Nothing /\ created = Nothing
    /\ arg = Nothing /\ pc = "down" /\ action = Nothing
    /\ ch = Nothing /\ once = "new" /\ bridge = Nothing
    /\ req = [r \in Requests |-> "none"]

Fresh ==
    /\ action' = Nothing
    /\ ch' = Nothing /\ once' = "new" /\ bridge' = Nothing
    /\ req' = [r \in Requests |-> "none"]

FirstStart ==
    /\ pc = "down" /\ created = Nothing
    /\ \E a \in Action : created' = a /\ arg' = a
    /\ pc' = "getAction"
    /\ Fresh
    /\ UNCHANGED <<file, dir>>

Restart ==
    /\ pc \notin Running /\ created # Nothing
    /\ arg' = "restore"
    /\ pc' = "getAction"
    /\ Fresh
    /\ UNCHANGED <<file, dir, created>>

(* The host kills the grain, or a system call fails and chkfatal panics. *)
Crash ==
    /\ pc \in Running
    /\ pc' = "down"
    /\ Fresh
    /\ UNCHANGED <<file, dir, created, arg>>
-----------------------------------------------------------------------------
(* Wrong version, for the mutation runs: saves whatever it was started as. *)
OpenActionAlways ==
    /\ pc = "getAction"
    /\ file' = "empty" /\ pc' = "writeAction"
    /\ UNCHANGED <<dir, created, arg, action, ch, once, bridge, req>>

(* ioutil.WriteFile empties the file ... *)
OpenAction ==
    /\ pc = "getAction" /\ arg # "restore"
    /\ file' = "empty" /\ pc' = "writeAction"
    /\ UNCHANGED <<dir, created, arg, action, ch, once, bridge, req>>

(* ... and then writes to it. *)
WriteAction ==
    /\ pc = "writeAction"
    /\ file' = arg /\ action' = arg /\ pc' = "switch"
    /\ UNCHANGED <<dir, created, arg, ch, once, bridge, req>>

(* Wrong version, for the mutation runs: a default for a missing action. *)
ReadActionDefault ==
    /\ pc = "getAction" /\ arg = "restore"
    /\ action' = IF file \in {"empty", Nothing} THEN "localfs" ELSE file
    /\ pc' = "switch"
    /\ UNCHANGED <<file, dir, created, arg, ch, once, bridge, req>>

ReadAction ==
    /\ pc = "getAction" /\ arg = "restore"
    /\ action' = file
    /\ pc' = IF file = Nothing THEN "panicked" ELSE "switch"
    /\ UNCHANGED <<file, dir, created, arg, ch, once, bridge, req>>

Unexpected ==
    /\ pc = "switch" /\ action \notin Action
    /\ pc' = "panicked"
    /\ UNCHANGED <<file, dir, created, arg, action, ch, once, bridge, req>>

(* case "localfs": initLocalFS; the other cases have nothing to do yet. *)
InitLocalFS ==
    /\ pc = "switch" /\ action \in Action
    /\ dir' = IF action = "localfs" THEN "made" ELSE dir
    /\ pc' = "connect"
    /\ UNCHANGED <<file, created, arg, action, ch, once, bridge, req>>

(* sandstormhttpbridge.Connect, ConnectWithHooks *)
Connect ==
    /\ pc = "connect"
    /\ pc' = "connected"
    /\ UNCHANGED <<file, dir, created, arg, action, ch, once, bridge, req>>

(* Wrong version, for the mutation runs: the channel has no buffer. *)
SendBridgeUnbuffered ==
    /\ pc = "connected"
    /\ action = "localfs" => \E r \in Requests : req[r] = "receiving"
    /\ ch' = IF action = "localfs" THEN "bridge" ELSE ch
    /\ pc' = "listen"
    /\ UNCHANGED <<file, dir, created, arg, action, once, bridge, req>>

(* f <- bridge, on a channel of capacity 1; initHTTPFS and initZipUploader  *)
(* have the bridge as an argument.                                         *)
SendBridge ==
    /\ pc = "connected" /\ ch = Nothing
    /\ ch' = IF action = "localfs" THEN "bridge" ELSE ch
    /\ pc' = "listen"
    /\ UNCHANGED <<file, dir, created, arg, action, once, bridge, req>>

ListenAndServe ==
    /\ pc = "listen"
    /\ pc' = "serving"
    /\ UNCHANGED <<file, dir, created, arg, action, ch, once, bridge, req>>

main ==
    \/ OpenAction \/ WriteAction \/ ReadAction \/ Unexpected
    \/ InitLocalFS \/ Connect \/ SendBridge \/ ListenAndServe
-----------------------------------------------------------------------------
(* LocalFS.ServeHTTP asks for the bridge. *)
Request(r) ==
    /\ pc = "serving" /\ action = "localfs" /\ req[r] \in {"none", "bridge"}
    /\ req' = [req EXCEPT ![r] = "waiting"]
    /\ UNCHANGED <<file, dir, created, arg, pc, action, ch, once, bridge>>

(* Wrong version, for the mutation runs: everyone receives. *)
EnterAlways(r) ==
    /\ req[r] = "waiting"
    /\ once' = "running" /\ req' = [req EXCEPT ![r] = "receiving"]
    /\ UNCHANGED <<file, dir, created, arg, pc, action, ch, bridge>>

(* The first caller runs the function that receives; the others ... *)
EnterOnce(r) ==
    /\ req[r] = "waiting" /\ once = "new"
    /\ once' = "running" /\ req' = [req EXCEPT ![r] = "receiving"]
    /\ UNCHANGED <<file, dir, created, arg, pc, action, ch, bridge>>

Receive(r) ==
    /\ req[r] = "receiving" /\ ch # Nothing
    /\ bridge' = ch /\ ch' = Nothing
    /\ once' = "done" /\ req' = [req EXCEPT ![r] = "waiting"]
    /\ UNCHANGED <<file, dir, created, arg, pc, action>>

(* Wrong version, for the mutation runs: a flag in place of sync.Once. *)
ReturnEarly(r) ==
    /\ req[r] = "waiting" /\ once # "new"
    /\ req' = [req EXCEPT ![r] = bridge]
    /\ UNCHANGED <<file, dir, created, arg, pc, action, ch, once, bridge>>

(* ... wait until it has returned. *)
Return(r) ==
    /\ req[r] = "waiting" /\ once = "done"
    /\ req' = [req EXCEPT ![r] = bridge]
    /\ UNCHANGED <<file, dir, created, arg, pc, action, ch, once, bridge>>

Wait(r) == EnterOnce(r) \/ Receive(r) \/ Return(r)

Next ==
    \/ FirstStart \/ Restart \/ Crash
    \/ main
    \/ \E r \in Requests : Request(r) \/ Wait(r)

Spec ==
    /\ Init /\ [][Next]_vars
    /\ WF_vars(main)
    /\ \A r \in Requests : WF_vars(Wait(r))
-----------------------------------------------------------------------------
TypeOK ==
    /\ file \in Action \cup {"empty", Nothing}
    /\ dir \in {Nothing, "made"}
    /\ created \in Action \cup {Nothing}
    /\ arg \in Action \cup {"restore", Nothing}
    /\ pc \in Running \cup {"down", "panicked"}
    /\ action \in Action \cup {"empty", Nothing}
    /\ ch \in {Nothing, "bridge"}
    /\ once \in {"new", "running", "done"}
    /\ bridge \in {Nothing, "bridge"}
    /\ req \in [Requests -> {"none", "waiting", "receiving", "bridge"}]

(***************************************************************************)
(* However often it is killed, and wherever, a grain never comes up as     *)
(* another one than it was created as.                                     *)
(***************************************************************************)
RunsAsCreated == pc \in Exposed => action = created

(***************************************************************************)
(* Main panics over the action only if the very first start was killed     *)
(* before it had saved it: no later start can bring that about.            *)
(***************************************************************************)
PanicsOnlyUnsaved == pc = "panicked" => file \in {"empty", Nothing}

(***************************************************************************)
(* Once the action is saved, no later start damages the file, not even for *)
(* the moment in which a crash would find it empty.                        *)
(***************************************************************************)
SavedForGood == [][created # Nothing /\ file = created => file' = file]_vars

(***************************************************************************)
(* No hook and no request can come before the exported directory is there: *)
(* what LocalNode assumes when it makes Start a single step.               *)
(***************************************************************************)
DirBeforeService == pc \in Exposed /\ action = "localfs" => dir = "made"

(***************************************************************************)
(* No two requests wait for the channel, and once one has received, the    *)
(* promise holds the bridge for all others: no request gets a nil one.     *)
(***************************************************************************)
PromiseKept ==
    /\ \A r, s \in Requests : req[r] = "receiving" /\ req[s] = "receiving" => r = s
    /\ \A r \in Requests :
           req[r] \in {"waiting", "receiving"} => (once = "done" <=> bridge = "bridge")
    /\ \A r \in Requests : req[r] # Nothing

(***************************************************************************)
(* Every request that asks for the bridge gets it, unless the grain dies.  *)
(***************************************************************************)
WaitReturns ==
    \A r \in Requests : req[r] = "waiting" ~> req[r] = "bridge" \/ pc # "serving"

(***************************************************************************)
(* A grain whose action was saved comes up whenever it is started again,   *)
(* unless it is killed on the way: main never blocks, in particular not    *)
(* over the promise whose readers it has yet to let in.                    *)
(***************************************************************************)
SavedGrainServes ==
    created # Nothing /\ file = created /\ pc \in Running ~> pc \in {"serving", "down"}
=============

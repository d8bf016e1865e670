-------------------------- MODULE GrainStartProofs --------------------------
(***************************************************************************)
(* The safety properties of GrainStart, for any number of requests.        *)
(***************************************************************************)
EXTENDS GrainStart, TLAPS

(***************************************************************************)
(* What main knows at each of its steps: a first start that has yet to     *)
(* save the action finds no file, and from the switch on what was returned *)
(* is what is in the file.                                                 *)
(***************************************************************************)
MainInv ==
    /\ created = Nothing => file = Nothing /\ pc = "down"
    /\ file \in {"empty", Nothing, created}
    /\ pc \in {"getAction", "writeAction"} /\ arg # "restore" =>
           arg = created /\ file \in {"empty", Nothing}
    /\ pc = "writeAction" => arg # "restore" /\ file = "empty"
    /\ pc \in {"switch"} \cup Exposed => action = file
    /\ pc \in Exposed => action \in Action /\ (action = "localfs" => dir = "made")
    /\ pc = "panicked" => file \in {"empty", Nothing}

(* The promise is as new until main serves; then Once and bridge agree. *)
PromiseInv ==
    /\ pc # "serving" => once = "new" /\ \A r \in Requests : req[r] = "none"
    /\ once = "done" <=> bridge = "bridge"
    /\ once = "new" => \A r \in Requests : req[r] # "receiving"
    /\ once = "done" => \A r \in Requests : req[r] # "receiving"
    /\ \A r, s \in Requests : req[r] = "receiving" /\ req[s] = "receiving" => r = s

Inv == TypeOK /\ MainInv /\ PromiseInv

LEMMA InitInv == Init => Inv
BY NothingAssumption
   DEF Init, Inv, TypeOK, MainInv, PromiseInv, Action, Running, Exposed

LEMMA StepTypeOK == TypeOK /\ MainInv /\ PromiseInv /\ [Next]_vars => TypeOK'
<1> SUFFICES ASSUME TypeOK, MainInv, PromiseInv, [Next]_vars PROVE TypeOK'
    OBVIOUS
<1> USE NothingAssumption DEF TypeOK, Action, Running
<1>1. CASE FirstStart BY <1>1 DEF FirstStart, Fresh
<1>2. CASE Restart BY <1>2 DEF Restart, Fresh
<1>3. CASE Crash BY <1>3 DEF Crash, Fresh
<1>4. CASE OpenAction BY <1>4 DEF OpenAction
<1>5. CASE WriteAction BY <1>5 DEF WriteAction, MainInv
<1>6. CASE ReadAction BY <1>6 DEF ReadAction
<1>7. CASE Unexpected BY <1>7 DEF Unexpected
<1>8. CASE InitLocalFS BY <1>8 DEF InitLocalFS
<1>9. CASE Connect BY <1>9 DEF Connect
<1>10. CASE SendBridge BY <1>10 DEF SendBridge
<1>11. CASE ListenAndServe BY <1>11 DEF ListenAndServe
<1>12. ASSUME NEW r \in Requests, Request(r) PROVE TypeOK'
    BY <1>12 DEF Request
<1>13. ASSUME NEW r \in Requests, EnterOnce(r) PROVE TypeOK'
    BY <1>13 DEF EnterOnce
<1>14. ASSUME NEW r \in Requests, Receive(r) PROVE TypeOK'
    BY <1>14 DEF Receive
<1>15. ASSUME NEW r \in Requests, Return(r) PROVE TypeOK'
    BY <1>15 DEF Return, PromiseInv
<1>16. CASE UNCHANGED vars BY <1>16 DEF vars
<1> QED
    BY <1>1, <1>2, <1>3, <1>4, <1>5, <1>6, <1>7, <1>8, <1>9, <1>10, <1>11,
       <1>12, <1>13, <1>14, <1>15, <1>16 DEF Next, main, Wait

LEMMA StepMainInv == TypeOK /\ MainInv /\ [Next]_vars => MainInv'
<1> SUFFICES ASSUME TypeOK, MainInv, [Next]_vars PROVE MainInv'
    OBVIOUS
<1> USE NothingAssumption DEF TypeOK, MainInv, Action, Running, Exposed
<1>1. CASE FirstStart BY <1>1 DEF FirstStart, Fresh
<1>2. CASE Restart BY <1>2 DEF Restart, Fresh
<1>3. CASE Crash BY <1>3 DEF Crash, Fresh
<1>4. CASE OpenAction BY <1>4 DEF OpenAction
<1>5. CASE WriteAction BY <1>5 DEF WriteAction, MainInv
<1>6. CASE ReadAction BY <1>6 DEF ReadAction
<1>7. CASE Unexpected BY <1>7 DEF Unexpected
<1>8. CASE InitLocalFS BY <1>8 DEF InitLocalFS
<1>9. CASE Connect BY <1>9 DEF Connect
<1>10. CASE SendBridge BY <1>10 DEF SendBridge
<1>11. CASE ListenAndServe BY <1>11 DEF ListenAndServe
<1>12. CASE \E r \in Requests : Request(r) \/ Wait(r)
    BY <1>12 DEF Request, Wait, EnterOnce, Receive, Return
<1>13. CASE UNCHANGED vars BY <1>13 DEF vars
<1> QED
    BY <1>1, <1>2, <1>3, <1>4, <1>5, <1>6, <1>7, <1>8, <1>9, <1>10, <1>11,
       <1>12, <1>13 DEF Next, main

LEMMA StepPromiseInv == TypeOK /\ PromiseInv /\ [Next]_vars => PromiseInv'
<1> SUFFICES ASSUME TypeOK, PromiseInv, [Next]_vars PROVE PromiseInv'
    OBVIOUS
<1> USE NothingAssumption DEF TypeOK, PromiseInv, Running
<1>1. CASE FirstStart BY <1>1 DEF FirstStart, Fresh
<1>2. CASE Restart BY <1>2 DEF Restart, Fresh
<1>3. CASE Crash BY <1>3 DEF Crash, Fresh
<1>4. CASE main
    BY <1>4 DEF main, OpenAction, WriteAction, ReadAction, Unexpected,
        InitLocalFS, Connect, SendBridge, ListenAndServe
<1>5. ASSUME NEW r \in Requests, Request(r) PROVE PromiseInv'
    BY <1>5 DEF Request
<1>6. ASSUME NEW r \in Requests, EnterOnce(r) PROVE PromiseInv'
    BY <1>6 DEF EnterOnce
<1>7. ASSUME NEW r \in Requests, Receive(r) PROVE PromiseInv'
    BY <1>7 DEF Receive
<1>8. ASSUME NEW r \in Requests, Return(r) PROVE PromiseInv'
    BY <1>8 DEF Return
<1>9. CASE UNCHANGED vars BY <1>9 DEF vars
<1> QED
    BY <1>1, <1>2, <1>3, <1>4, <1>5, <1>6, <1>7, <1>8, <1>9 DEF Next, Wait

LEMMA InvHolds == Spec => []Inv
<1>1. Inv /\ [Next]_vars => Inv'
    BY StepTypeOK, StepMainInv, StepPromiseInv DEF Inv
<1> QED
    BY InitInv, <1>1, PTL DEF Spec
-----------------------------------------------------------------------------
(* The types of main.go's and bridgePromise.go's state. *)
THEOREM TypeCorrect == Spec => []TypeOK
<1>1. Inv => TypeOK
    BY DEF Inv
<1> QED
    BY <1>1, InvHolds, PTL

(***************************************************************************)
(* getAction across any sequence of kills and restarts: a grain that comes *)
(* up is the grain that was created.                                       *)
(***************************************************************************)
THEOREM ComesUpAsCreated == Spec => []RunsAsCreated
<1>1. Inv => RunsAsCreated
    BY NothingAssumption DEF Inv, MainInv, RunsAsCreated, Action, Exposed
<1> QED
    BY <1>1, InvHolds, PTL

(* The panics of getAction and main have one cause, a first start cut short. *)
THEOREM PanicsAreFirstStarts == Spec => []PanicsOnlyUnsaved
<1>1. Inv => PanicsOnlyUnsaved
    BY DEF Inv, MainInv, PanicsOnlyUnsaved
<1> QED
    BY <1>1, InvHolds, PTL

(* initLocalFS makes the directory before anything can ask for it. *)
THEOREM DirComesFirst == Spec => []DirBeforeService
<1>1. Inv => DirBeforeService
    BY DEF Inv, MainInv, DirBeforeService
<1> QED
    BY <1>1, InvHolds, PTL

(* BridgePromise.Wait, for any number of concurrent callers. *)
THEOREM WaitKeepsPromise == Spec => []PromiseKept
<1>1. Inv => PromiseKept
    BY NothingAssumption DEF Inv, TypeOK, PromiseInv, PromiseKept
<1> QED
    BY <1>1, InvHolds, PTL

(* No start but the first writes /var/action. *)
THEOREM SavedActionStays == Spec => SavedForGood
<1>1. Inv /\ [Next]_vars => [created # Nothing /\ file = created => file' = file]_vars
  <2> SUFFICES ASSUME Inv, Next, created # Nothing, file = created
               PROVE  file' = file
      OBVIOUS
  <2>1. file \in Action
      BY DEF Inv, TypeOK
  <2>2. ~OpenAction /\ ~WriteAction
      BY <2>1, NothingAssumption DEF Inv, MainInv, OpenAction, WriteAction, Action
  <2> QED
      BY <2>2 DEF Next, main, FirstStart, Restart, Crash, ReadAction, Unexpected,
          InitLocalFS, Connect, SendBridge, ListenAndServe, Request, Wait,
          EnterOnce, Receive, Return
<1> QED
    BY <1>1, InvHolds, PTL DEF Spec, SavedForGood
=============================================================================

-------------------------- MODULE ClientGrainProofs --------------------------
(***************************************************************************)
(* Proofs about ClientGrain: the lock does keep the global variable still  *)
(* while an archive is unpacked, for any number of requests and claims.    *)
(***************************************************************************)
EXTENDS ClientGrain, FiniteSetTheorems, TLAPS

(* A request has made calls on one directory only, on none before it runs, *)
(* and while it still makes them that is the directory claimed last.       *)
UsedInv ==
    \A r \in Requests :
        /\ \A d, e \in used[r] : d = e
        /\ pc[r] \in {"lock", "run"} => used[r] = {}
        /\ pc[r] = "call" /\ kind[r] = "use" => used[r] = {root}

Inv == TypeOK /\ UsedInv

LEMMA InitInv == Init => Inv
BY ConstantAssumption DEF Init, Inv, TypeOK, UsedInv, Dir

(* Whatever happens to a request that is being handled, it is the one that *)
(* holds the lock.                                                         *)
LEMMA OnlyHolder ==
    ASSUME TypeOK, NEW r \in Requests, NEW s \in Requests,
           pc[r] \in {"run", "call", "stuck", "unlock"}, pc[s] \in {"run", "call", "stuck", "unlock"}
    PROVE  r = s
BY DEF TypeOK

LEMMA TypeStep == ASSUME TypeOK, UsedInv, [Next]_vars PROVE TypeOK'
<1>1. CASE UNCHANGED vars
  BY <1>1 DEF vars, TypeOK, Dir
<1>2. ASSUME NEW d \in Dir, Die(d) PROVE TypeOK'
  BY <1>2 DEF Die, TypeOK, Dir
<1>3. ASSUME NEW r \in Requests,
             \/ Arrive(r) \/ Lock(r) \/ Handler(r) \/ UseAgain(r)
             \/ UseFails(r) \/ FailureMissed(r) \/ Panics(r) \/ GiveUp(r)
      PROVE  TypeOK'
  <2> USE ConstantAssumption DEF TypeOK, Dir
  <2>1. CASE Arrive(r) BY <2>1 DEF Arrive, At
  <2>2. CASE Lock(r) BY <2>2 DEF Lock, At
  <2>3. CASE Index(r) BY <2>3 DEF Index, At
  <2>4. CASE ClaimRequest(r) BY <2>4 DEF ClaimRequest, At
  <2>5. CASE ClaimFails(r) BY <2>5 DEF ClaimFails, At
  <2>6. CASE Claimed(r) BY <2>6 DEF Claimed, At
  <2>7. CASE ClaimedNull(r) BY <2>7 DEF ClaimedNull, At
  <2>8. CASE UseRefused(r) BY <2>8 DEF UseRefused, At
  <2>9. CASE Use(r) BY <2>9 DEF Use, At
  <2>10. CASE Used(r) BY <2>10 DEF Used, At
  <2>11. CASE Cancelled(r) BY <2>11 DEF Cancelled, At
  <2>12. CASE Unlock(r) BY <2>12 DEF Unlock, At
  <2>13. CASE UseAgain(r) BY <2>13 DEF UseAgain, Answers, UsedInv
  <2>14. CASE UseFails(r) BY <2>14 DEF UseFails, At
  <2>15. CASE Panics(r) BY <2>15 DEF Panics
  <2>16. CASE GiveUp(r) BY <2>16 DEF GiveUp
  <2>17. CASE FailureMissed(r) BY <2>17 DEF FailureMissed, At
  <2> QED BY <1>3, <2>1, <2>2, <2>3, <2>4, <2>5, <2>6, <2>7, <2>8, <2>9, <2>10,
             <2>11, <2>12, <2>13, <2>14, <2>15, <2>16, <2>17 DEF Handler
<1> QED BY <1>1, <1>2, <1>3 DEF Next

(* Root changes only by a request that holds the lock to claim, when no    *)
(* other is in the midst of its calls.                                     *)
LEMMA UsedStep == ASSUME TypeOK, UsedInv, [Next]_vars PROVE UsedInv'
<1>1. CASE UNCHANGED vars
  BY <1>1 DEF vars, UsedInv
<1>2. ASSUME NEW d \in Dir, Die(d) PROVE UsedInv'
  BY <1>2 DEF Die, UsedInv
<1>3. ASSUME NEW r \in Requests,
             \/ Arrive(r) \/ Lock(r) \/ Handler(r) \/ UseAgain(r)
             \/ UseFails(r) \/ FailureMissed(r) \/ Panics(r) \/ GiveUp(r)
      PROVE  UsedInv'
  <2> USE DEF UsedInv
  <2>1. CASE Arrive(r) BY <2>1 DEF Arrive, At, TypeOK
  <2>2. CASE Lock(r) BY <2>2 DEF Lock, At, TypeOK
  <2>3. CASE Index(r) BY <2>3 DEF Index, At, TypeOK
  <2>4. CASE ClaimRequest(r) BY <2>4 DEF ClaimRequest, At, TypeOK
  <2>5. CASE ClaimFails(r) BY <2>5 DEF ClaimFails, At, TypeOK
  <2>6. CASE Claimed(r)
    <3>1. \A s \in Requests : pc[s] = "call" => s = r
      BY <2>6, OnlyHolder DEF Claimed, At
    <3> QED BY <2>6, <3>1 DEF Claimed, At, TypeOK
  <2>7. CASE ClaimedNull(r)
    <3>1. \A s \in Requests : pc[s] = "call" => s = r
      BY <2>7, OnlyHolder DEF ClaimedNull, At
    <3> QED BY <2>7, <3>1 DEF ClaimedNull, At, TypeOK
  <2>8. CASE UseRefused(r) BY <2>8 DEF UseRefused, At, TypeOK
  <2>9. CASE Use(r) BY <2>9 DEF Use, At, TypeOK
  <2>10. CASE Used(r) BY <2>10 DEF Used, At, TypeOK
  <2>11. CASE Cancelled(r) BY <2>11 DEF Cancelled, At, TypeOK
  <2>12. CASE Unlock(r) BY <2>12 DEF Unlock, At, TypeOK
  <2>13. CASE UseAgain(r) BY <2>13 DEF UseAgain, Answers, TypeOK
  <2>14. CASE UseFails(r) BY <2>14 DEF UseFails, At, TypeOK
  <2>15. CASE Panics(r) BY <2>15 DEF Panics, TypeOK
  <2>16. CASE GiveUp(r) BY <2>16 DEF GiveUp, TypeOK
  <2>17. CASE FailureMissed(r) BY <2>17 DEF FailureMissed, At, TypeOK
  <2> QED BY <1>3, <2>1, <2>2, <2>3, <2>4, <2>5, <2>6, <2>7, <2>8, <2>9, <2>10,
             <2>11, <2>12, <2>13, <2>14, <2>15, <2>16, <2>17 DEF Handler
<1> QED BY <1>1, <1>2, <1>3 DEF Next

LEMMA InvHolds == Spec => []Inv
<1>1. Inv /\ [Next]_vars => Inv'
  BY TypeStep, UsedStep DEF Inv
<1> QED BY InitInv, <1>1, PTL DEF Spec

(* Types, and mutual exclusion: only the holder of the lock is handled. *)
THEOREM TypeCorrect == Spec => []TypeOK
<1>1. Inv => TypeOK
  BY DEF Inv
<1> QED BY <1>1, InvHolds, PTL

(***************************************************************************)
(* An archive goes to one directory, though its handler reads the global   *)
(* variable for every entry: no claim comes in between.                    *)
(***************************************************************************)
THEOREM ArchiveStaysTogether == Spec => []OneDirectory
<1>1. Inv => OneDirectory
  <2> SUFFICES ASSUME Inv, NEW r \in Requests PROVE Cardinality(used[r]) <= 1
    BY DEF OneDirectory
  <2>1. CASE used[r] = {}
    BY <2>1, FS_EmptySet
  <2>2. CASE used[r] # {}
    <3>1. PICK d : d \in used[r] BY <2>2
    <3>2. used[r] = {d} BY <3>1 DEF Inv, UsedInv
    <3>3. Cardinality({d}) = 1 BY FS_Singleton
    <3> QED BY <3>2, <3>3
  <2> QED BY <2>1, <2>2
<1> QED BY <1>1, InvHolds, PTL
=============================================================================

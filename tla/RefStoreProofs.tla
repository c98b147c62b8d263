---------------------------- MODULE RefStoreProofs ----------------------------
(***************************************************************************)
(* RefStore for any number of processes, callers, versions and attempts:   *)
(* type correctness of the code's own specification, and, as long as live  *)
(* holders outlast no lock and breakers come one at a time (CarefulSpec),  *)
(* the guard of the ref and the refinement of the atomic register.         *)
(***************************************************************************)
EXTENDS RefStore, TLAPS

(* A caller that has found the lock taken still has an attempt to spend. *)
AttemptLeft ==
    \A c \in Callers : pc[c] \in {"stat", "break", "wait"} => attempt[c] < LockAttempts

(* Only a swap is ever about to rename its temporary file. *)
WriterSwaps ==
    \A c \in Callers : pc[c] = "write" => request[c].kind = "cas"

Typed == TypeOK /\ AttemptLeft /\ WriterSwaps

(* The arguments of a swap are versions. *)
LEMMA SwapNext ==
    ASSUME NEW r \in Requests \cup {NoRequest}, r.kind = "cas"
    PROVE  r \in Requests /\ r.next \in Versions
  BY RequestAssumption DEF RequestAssumption, AllRequests, NoRequest

(* Every step of the code leaves the variables in their types. *)
LEMMA CallerStaysTyped ==
    ASSUME Typed, NEW c \in Callers, Step(c)
    PROVE  Typed'
  <1> USE ProcessAssumption, AttemptsAssumption
      DEF Typed, AttemptLeft, WriterSwaps, TypeOK, Inside, Holding, Goto, Answer, ProcessAssumption,
          AttemptsAssumption
  <1>1. CASE Latch(c)
    BY <1>1 DEF Latch
  <1>2. CASE CreateLock(c)
    BY <1>2 DEF CreateLock
  <1>3. CASE LockExists(c)
    BY <1>3 DEF LockExists
  <1>4. CASE GiveUp(c)
    BY <1>4 DEF GiveUp
  <1>5. CASE StatStale(c)
    BY <1>5 DEF StatStale
  <1>6. CASE StatFresh(c)
    BY <1>6 DEF StatFresh
  <1>7. CASE BreakLock(c)
    <2>1. attempt[c] + 1 \in 0 .. LockAttempts
      BY <1>7 DEF BreakLock
    <2>2. attempt' \in [Callers -> 0 .. LockAttempts]
      BY <1>7, <2>1 DEF BreakLock
    <2>3. QED
      BY <1>7, <2>2 DEF BreakLock
  <1>8. CASE NothingToBreak(c)
    BY <1>8 DEF NothingToBreak
  <1>9. CASE Retry(c)
    <2>1. attempt[c] + 1 \in 0 .. LockAttempts
      BY <1>9 DEF Retry
    <2>2. attempt' \in [Callers -> 0 .. LockAttempts]
      BY <1>9, <2>1 DEF Retry
    <2>3. QED
      BY <1>9, <2>2 DEF Retry
  <1>10. CASE LockFails(c)
    BY <1>10 DEF LockFails
  <1>11. CASE CheckMatches(c)
    BY <1>11 DEF CheckMatches
  <1>12. CASE CheckMismatch(c)
    BY <1>12 DEF CheckMismatch
  <1>13. CASE Write(c)
    <2>1. ref' \in Versions
      BY <1>13, SwapNext DEF Write
    <2>2. QED
      BY <1>13, <2>1 DEF Write
  <1>14. CASE RemoveRef(c)
    BY <1>14 DEF RemoveRef
  <1>15. CASE RefFails(c)
    BY <1>15 DEF RefFails
  <1>16. CASE Unlock(c)
    BY <1>16 DEF Unlock
  <1>17. CASE UnlockFails(c)
    BY <1>17 DEF UnlockFails
  <1>18. CASE Unlatch(c)
    BY <1>18 DEF Unlatch
  <1> QED
    BY <1>1, <1>2, <1>3, <1>4, <1>5, <1>6, <1>7, <1>8, <1>9,
       <1>10, <1>11, <1>12, <1>13, <1>14, <1>15, <1>16, <1>17, <1>18 DEF Step

(* So does everything else that may happen: a caller arrives, a process    *)
(* dies, the lock file grows old, or nothing moves.                        *)
LEMMA StaysTyped ==
    ASSUME Typed, [Next]_vars
    PROVE  Typed'
  <1> USE ProcessAssumption, AttemptsAssumption
      DEF Typed, AttemptLeft, WriterSwaps, TypeOK, Inside, Holding, Goto, Answer, ProcessAssumption,
          AttemptsAssumption
  <1>quiet. Age \/ UNCHANGED vars => Typed'
    BY DEF Age, vars
  <1>crash. (\E p \in Processes : Crash(p)) => Typed'
    BY DEF Crash
  <1>call. (\E c \in Callers, r \in Requests : Call(c, r)) => Typed'
    BY DEF Call
  <1> QED
    BY CallerStaysTyped, <1>call, <1>crash, <1>quiet DEF Next

(* The variables hold values of their types in every reachable state,      *)
(* whatever ages and whoever breaks it; in particular no caller tries the  *)
(* lock more than LockAttempts times.                                      *)
THEOREM TypeCorrect == Spec => []TypeOK
  <1>step. Typed /\ [Next]_vars => Typed'
    BY StaysTyped
  <1>start. Init => Typed
    <2>0. 0 \in 0 .. LockAttempts
      BY AttemptsAssumption DEF AttemptsAssumption
    <2> QED
      BY <2>0 DEF Init, Typed, TypeOK, AttemptLeft, WriterSwaps
  <1> QED
    BY <1>start, <1>step, PTL DEF Typed, Spec

LEMMA CarefulTypeCorrect == CarefulSpec => []TypeOK
  <1>1. CarefulSpec => Spec
    <2>1. [CarefulNext]_vars => [Next]_vars
      BY DEF CarefulNext
    <2>2. QED
      BY <2>1, PTL DEF CarefulSpec, Spec
  <1>2. QED
    BY <1>1, TypeCorrect, PTL

------------------------------------------------------------------------------

(* The part of Guarded that the code's steps have to keep; the other two   *)
(* conjuncts are what CarefulNext assumes.                                 *)
Unbroken ==
    /\ HolderOwnsLock
    /\ MutexAdmitsOne
    /\ BreaksLeftovers
    /\ CheckStillHolds
    /\ AnsweredOnTheWayOut

LEMMA GuardedInit == Init => Guarded
  BY NilAssumption
  DEF Init, Guarded, HolderOwnsLock, MutexAdmitsOne, BreaksLeftovers,
      CheckStillHolds, AnsweredOnTheWayOut, OnlyOrphansAge, SoleBreaker,
      Holding, Inside

(* No step of a caller breaks the guard, taken while only leftovers are    *)
(* old and one breaker is at work.                                         *)
LEMMA CallerKeepsGuard ==
    ASSUME TypeOK, Unbroken, OnlyOrphansAge, SoleBreaker, NEW c \in Callers, Step(c)
    PROVE  Unbroken'
  <1> USE ProcessAssumption, NilAssumption
      DEF Unbroken, HolderOwnsLock, MutexAdmitsOne, BreaksLeftovers, CheckStillHolds,
          AnsweredOnTheWayOut, TypeOK, Inside, Holding, Goto, Answer,
          ProcessAssumption, NilAssumption, OnlyOrphansAge, SoleBreaker
  <1>1. CASE Latch(c)
    BY <1>1 DEF Latch
  <1>2. CASE CreateLock(c)
    BY <1>2 DEF CreateLock
  <1>3. CASE LockExists(c)
    BY <1>3 DEF LockExists
  <1>4. CASE GiveUp(c)
    BY <1>4 DEF GiveUp
  <1>5. CASE StatStale(c)
    BY <1>5 DEF StatStale
  <1>6. CASE StatFresh(c)
    BY <1>6 DEF StatFresh
  <1>7. CASE BreakLock(c)
    BY <1>7 DEF BreakLock
  <1>8. CASE NothingToBreak(c)
    BY <1>8 DEF NothingToBreak
  <1>9. CASE Retry(c)
    BY <1>9 DEF Retry
  <1>10. CASE LockFails(c)
    BY <1>10 DEF LockFails
  <1>11. CASE CheckMatches(c)
    BY <1>11 DEF CheckMatches
  <1>12. CASE CheckMismatch(c)
    BY <1>12 DEF CheckMismatch
  <1>13. CASE Write(c)
    BY <1>13 DEF Write
  <1>14. CASE RemoveRef(c)
    BY <1>14 DEF RemoveRef
  <1>15. CASE RefFails(c)
    BY <1>15 DEF RefFails
  <1>16. CASE Unlock(c)
    BY <1>16 DEF Unlock
  <1>17. CASE UnlockFails(c)
    BY <1>17 DEF UnlockFails
  <1>18. CASE Unlatch(c)
    BY <1>18 DEF Unlatch
  <1> QED
    BY <1>1, <1>2, <1>3, <1>4, <1>5, <1>6, <1>7, <1>8, <1>9,
       <1>10, <1>11, <1>12, <1>13, <1>14, <1>15, <1>16, <1>17, <1>18 DEF Step

(* Nor does an arrival, a death or the passing of time. *)
LEMMA UnbrokenStep ==
    ASSUME TypeOK, Unbroken, OnlyOrphansAge, SoleBreaker, [Next]_vars
    PROVE  Unbroken'
  <1> USE ProcessAssumption, NilAssumption
      DEF Unbroken, HolderOwnsLock, MutexAdmitsOne, BreaksLeftovers, CheckStillHolds,
          AnsweredOnTheWayOut, TypeOK, Inside, Holding, Goto, Answer,
          ProcessAssumption, NilAssumption, OnlyOrphansAge, SoleBreaker
  <1>quiet. Age \/ UNCHANGED vars => Unbroken'
    BY DEF Age, vars
  <1>crash. (\E p \in Processes : Crash(p)) => Unbroken'
    BY DEF Crash
  <1>call. (\E c \in Callers, r \in Requests : Call(c, r)) => Unbroken'
    BY DEF Call
  <1> QED
    BY CallerKeepsGuard, <1>call, <1>crash, <1>quiet DEF Next

(* While holders finish before their lock ages and breakers come one at a  *)
(* time, the caller inside the critical section owns the lock and what     *)
(* checkCurrent has seen stays true until the rename.                      *)
THEOREM RefIsGuarded == CarefulSpec => []Guarded
  <1>1. TypeOK /\ Guarded /\ [CarefulNext]_vars => Guarded'
    <2> SUFFICES ASSUME TypeOK, Guarded, [CarefulNext]_vars PROVE Guarded'
      OBVIOUS
    <2>1. Unbroken'
      BY UnbrokenStep DEF Guarded, Unbroken, CarefulNext
    <2>2. OnlyOrphansAge' /\ SoleBreaker'
      BY DEF Guarded, CarefulNext, vars, OnlyOrphansAge, SoleBreaker
    <2>3. QED
      BY <2>1, <2>2 DEF Guarded, Unbroken
  <1>2. QED
    BY <1>1, GuardedInit, CarefulTypeCorrect, PTL DEF CarefulSpec

(* Nobody ever removes or replaces the lock file of a caller that is still *)
(* between its create and its remove.                                      *)
THEOREM HolderIsSafe == CarefulSpec => []HolderOwnsLock
  BY RefIsGuarded, PTL DEF Guarded

------------------------------------------------------------------------------
(* The refinement: the instant of a swap is its rename, of a delete its    *)
(* remove, of a mismatch its read; every other step is invisible.          *)

(* What a caller's step means to the register. *)
LEMMA StepRefines ==
    ASSUME TypeOK, Unbroken, NEW c \in Callers, Step(c)
    PROVE  Register!Next \/ UNCHANGED Register!avars
    <2> USE DEF TypeOK, Goto, Answer, Register!avars
    <2> DEFINE Status == [d \in Callers |->
                             IF pc[d] = "idle" THEN "idle"
                             ELSE IF outcome[d] = "none" THEN "pending" ELSE outcome[d]]
    <2>1. CASE Latch(c)
      <3>1. UNCHANGED <<ref, request>> /\ Status' = Status
        BY <2>1 DEF Latch
      <3>2. QED
        BY <3>1
    <2>2. CASE CreateLock(c)
      <3>1. UNCHANGED <<ref, request>> /\ Status' = Status
        BY <2>2 DEF CreateLock
      <3>2. QED
        BY <3>1
    <2>3. CASE LockExists(c)
      <3>1. UNCHANGED <<ref, request>> /\ Status' = Status
        BY <2>3 DEF LockExists
      <3>2. QED
        BY <3>1
    <2>4. CASE StatStale(c)
      <3>1. UNCHANGED <<ref, request>> /\ Status' = Status
        BY <2>4 DEF StatStale
      <3>2. QED
        BY <3>1
    <2>5. CASE StatFresh(c)
      <3>1. UNCHANGED <<ref, request>> /\ Status' = Status
        BY <2>5 DEF StatFresh
      <3>2. QED
        BY <3>1
    <2>6. CASE BreakLock(c)
      <3>1. UNCHANGED <<ref, request>> /\ Status' = Status
        BY <2>6 DEF BreakLock
      <3>2. QED
        BY <3>1
    <2>7. CASE NothingToBreak(c)
      <3>1. UNCHANGED <<ref, request>> /\ Status' = Status
        BY <2>7 DEF NothingToBreak
      <3>2. QED
        BY <3>1
    <2>8. CASE Retry(c)
      <3>1. UNCHANGED <<ref, request>> /\ Status' = Status
        BY <2>8 DEF Retry
      <3>2. QED
        BY <3>1
    <2>9. CASE CheckMatches(c)
      <3>1. UNCHANGED <<ref, request>> /\ Status' = Status
        BY <2>9 DEF CheckMatches
      <3>2. QED
        BY <3>1
    <2>10. CASE Unlock(c)
      <3>1. UNCHANGED <<ref, request>> /\ Status' = Status
        BY <2>10 DEF Unlock
      <3>2. QED
        BY <3>1
    <2>11. CASE UnlockFails(c)
      <3>1. UNCHANGED <<ref, request>> /\ Status' = Status
        BY <2>11 DEF UnlockFails
      <3>2. QED
        BY <3>1
    <2>12. CASE GiveUp(c)
      <3>1. Status[c] = "pending" /\ Status' = [Status EXCEPT ![c] = "busy"]
        BY <2>12 DEF GiveUp, Unbroken, AnsweredOnTheWayOut
      <3>2. Register!Refuse(c)
        BY <2>12, <3>1 DEF GiveUp, Register!Refuse
      <3>3. QED
        BY <3>2 DEF Register!Next
    <2>13. CASE LockFails(c)
      <3>1. Status[c] = "pending" /\ Status' = [Status EXCEPT ![c] = "failed"]
        BY <2>13 DEF LockFails, Unbroken, AnsweredOnTheWayOut
      <3>2. Register!Refuse(c)
        BY <2>13, <3>1 DEF LockFails, Register!Refuse
      <3>3. QED
        BY <3>2 DEF Register!Next
    <2>14. CASE CheckMismatch(c)
      <3>1. Status[c] = "pending" /\ Status' = [Status EXCEPT ![c] = "mismatch"]
        BY <2>14 DEF CheckMismatch, Unbroken, AnsweredOnTheWayOut
      <3>2. Register!Mismatch(c)
        BY <2>14, <3>1 DEF CheckMismatch, Register!Mismatch
      <3>3. QED
        BY <3>2 DEF Register!Next
    <2>15. CASE Write(c)
      <3>1. Status[c] = "pending" /\ Status' = [Status EXCEPT ![c] = "ok"]
        BY <2>15 DEF Write, Unbroken, AnsweredOnTheWayOut, CheckStillHolds
      <3>2. Register!Swap(c)
        BY <2>15, <3>1 DEF Write, Register!Swap, Unbroken, CheckStillHolds
      <3>3. QED
        BY <3>2 DEF Register!Next
    <2>16. CASE RemoveRef(c)
      <3>1. Status[c] = "pending" /\ Status' = [Status EXCEPT ![c] = "ok"]
        BY <2>16 DEF RemoveRef, Unbroken, AnsweredOnTheWayOut
      <3>2. Register!Remove(c)
        BY <2>16, <3>1 DEF RemoveRef, Register!Remove
      <3>3. QED
        BY <3>2 DEF Register!Next
    <2>17. CASE RefFails(c)
      <3>1. Status[c] = "pending" /\ Status' = [Status EXCEPT ![c] = "failed"]
        BY <2>17 DEF RefFails, Unbroken, AnsweredOnTheWayOut
      <3>2. Register!Refuse(c)
        BY <2>17, <3>1 DEF RefFails, Register!Refuse
      <3>3. QED
        BY <3>2 DEF Register!Next
    <2>18. CASE Unlatch(c)
      <3>1. Status[c] \in Register!Answers /\ Status' = [Status EXCEPT ![c] = "idle"]
        BY <2>18 DEF Unlatch, Unbroken, AnsweredOnTheWayOut, Register!Answers
      <3>2. Register!Return(c)
        BY <2>18, <3>1 DEF Unlatch, Register!Return, NoRequest, Register!NoRequest
      <3>3. QED
        BY <3>2 DEF Register!Next
    <2>19. QED
      BY <2>1, <2>2, <2>3, <2>4, <2>5, <2>6, <2>7, <2>8, <2>9, <2>10,
         <2>11, <2>12, <2>13, <2>14, <2>15, <2>16, <2>17, <2>18 DEF Step

LEMMA NextRefines ==
    TypeOK /\ Unbroken /\ [Next]_vars => Register!Next \/ UNCHANGED Register!avars
    <2> SUFFICES ASSUME TypeOK, Unbroken, [Next]_vars
                 PROVE  Register!Next \/ UNCHANGED Register!avars
      OBVIOUS
    <2> DEFINE Status == [d \in Callers |->
                             IF pc[d] = "idle" THEN "idle"
                             ELSE IF outcome[d] = "none" THEN "pending" ELSE outcome[d]]
    <2>1. ASSUME NEW c \in Callers, NEW r \in Requests, Call(c, r)
          PROVE  Register!Next
      <3>1. Status[c] = "idle" /\ Status' = [Status EXCEPT ![c] = "pending"]
        BY <2>1 DEF Call, Goto, TypeOK, Unbroken, AnsweredOnTheWayOut
      <3>2. Register!Call(c, r)
        BY <2>1, <3>1 DEF Call, Register!Call
      <3>3. QED
        BY <3>2 DEF Register!Next
    <2>2. ASSUME NEW p \in Processes, Crash(p)
          PROVE  Register!Next
      <3> DEFINE dead == {c \in Callers : ProcessOf[c] = p}
      <3>1. Status' = [c \in Callers |-> IF c \in dead THEN "idle" ELSE Status[c]]
        BY <2>2 DEF Crash
      <3>2. Register!Crash(dead)
        BY <2>2, <3>1 DEF Crash, Register!Crash, NoRequest, Register!NoRequest
      <3>3. QED
        BY <3>2 DEF Register!Next
    <2>3. CASE Age
      BY <2>3 DEF Age, Register!avars
    <2>4. CASE UNCHANGED vars
      BY <2>4 DEF vars, Register!avars
    <2>5. QED
      BY <2>1, <2>2, <2>3, <2>4, StepRefines DEF Next

(* Under the same two conditions the ref store is the atomic register that *)
(* the rest of the system takes it for: compare and swap happen at one     *)
(* instant, a reported mismatch was one, a refused call changed nothing.   *)
THEOREM StoreIsAtomic == CarefulSpec => RefinesAtomicRef
  <1>1. Init => Register!Init
    BY DEF Init, Register!Init, NoRequest, Register!NoRequest
  <1>2. TypeOK /\ Guarded /\ [CarefulNext]_vars => [Register!Next]_(Register!avars)
    BY NextRefines DEF CarefulNext, Guarded, Unbroken
  <1>3. QED
    BY <1>1, <1>2, CarefulTypeCorrect, RefIsGuarded, PTL
    DEF CarefulSpec, RefinesAtomicRef, Register!Spec

(* No update of the ref is lost: a swap that goes through replaces the     *)
(* very version its caller expected.                                       *)
THEOREM NothingIsOverwritten == CarefulSpec => NoLostUpdate
  <1>1. ASSUME TypeOK, Unbroken, [Next]_vars, ref' # ref
        PROVE  \E c \in Callers :
                  \/ /\ pc[c] = "write" /\ pc'[c] = "unlock"
                     /\ ref = request[c].old /\ ref' = request[c].next
                  \/ pc[c] = "check" /\ request[c].kind = "delete" /\ ref' = Nil
    <2>1. PICK c \in Callers : Write(c) \/ RemoveRef(c)
      BY <1>1 DEF Next, Step, vars, Call, Latch, CreateLock, LockExists, GiveUp,
         StatStale, StatFresh, BreakLock, NothingToBreak, Retry, LockFails,
         CheckMatches, CheckMismatch, RefFails, Unlock, UnlockFails, Unlatch,
         Crash, Age
    <2>2. CASE Write(c)
      BY <1>1, <2>2 DEF Write, Goto, TypeOK, Unbroken, CheckStillHolds
    <2>3. CASE RemoveRef(c)
      BY <2>3 DEF RemoveRef, Goto
    <2>4. QED
      BY <2>1, <2>2, <2>3
  <1>2. TypeOK /\ Guarded /\ [CarefulNext]_vars =>
           [ref' # ref =>
              \E c \in Callers :
                 \/ /\ pc[c] = "write" /\ pc'[c] = "unlock"
                    /\ ref = request[c].old /\ ref' = request[c].next
                 \/ pc[c] = "check" /\ request[c].kind = "delete" /\ ref' = Nil]_vars
    BY <1>1 DEF CarefulNext, Guarded, Unbroken
  <1>3. QED
    BY <1>2, CarefulTypeCorrect, RefIsGuarded, PTL DEF CarefulSpec, NoLostUpdate

==============================================================================

------------------------------ MODULE LocksProofs ------------------------------
(***************************************************************************)
(* The file locks for any number of spaces and paths: type correctness,    *)
(* exclusion where neither expiry nor --force takes a lock away, and that  *)
(* a space remembers the locks it has taken.                               *)
(***************************************************************************)
EXTENDS Locks, TLAPS

------------------------------------------------------------------------------
(* Types                                                                   *)

LEMMA TypeInit == Init => TypeOK
    BY ScopeAssumption DEF Init, TypeOK, NoJob, Job

LEMMA TypeStepOnPath ==
    ASSUME TypeOK, NEW s \in Spaces, NEW p \in Paths, OnPath(s, p)
    PROVE  TypeOK'
    <1> USE DEF TypeOK, Goto, Finish, NoJob, Job, Done, PutLock, RemoveFile, Steps, files, work
    <1>1. CASE Create(s, p)
      BY <1>1 DEF Create
    <1>2. CASE Fill(s, p)
      BY <1>2 DEF Fill
    <1>3. CASE FillFails(s, p)
      BY <1>3 DEF FillFails
    <1>4. CASE Exists(s, p)
      BY <1>4 DEF Exists
    <1>5. CASE MayTransfer(s, p)
      BY <1>5 DEF MayTransfer
    <1>6. CASE Refused(s, p)
      BY <1>6 DEF Refused
    <1>7. CASE Transfer(s, p)
      BY <1>7 DEF Transfer
    <1>8. CASE TransferFails(s, p)
      BY <1>8 DEF TransferFails
    <1>9. CASE Replace(s, p)
      BY <1>9 DEF Replace
    <1>10. CASE SkipFree(s, p)
      BY <1>10 DEF SkipFree
    <1>11. CASE Claim(s, p)
      BY <1>11 DEF Claim
    <1>12. CASE ReleaseOwned(s, p)
      BY <1>12 DEF ReleaseOwned
    <1>13. CASE ReleaseGone(s, p)
      BY <1>13 DEF ReleaseGone
    <1>14. CASE ReleaseRefused(s, p)
      BY <1>14 DEF ReleaseRefused
    <1>15. CASE RemoveLock(s, p)
      BY <1>15 DEF RemoveLock
    <1>16. QED
      BY <1>1, <1>2, <1>3, <1>4, <1>5, <1>6, <1>7, <1>8, <1>9, <1>10,
         <1>11, <1>12, <1>13, <1>14, <1>15 DEF OnPath

LEMMA TypeStep == TypeOK /\ [Next]_vars => TypeOK'
    <1> SUFFICES ASSUME TypeOK, [Next]_vars PROVE TypeOK'
      OBVIOUS
    <1> USE DEF Goto, Finish, NoJob, Job, Steps, files, work
    <1>1. ASSUME NEW s \in Spaces, StartLock(s) PROVE TypeOK'
      <2>1. PICK ps \in Patterns, f \in BOOLEAN :
               job' = [job EXCEPT ![s] = Job(ps, {}, f, Free)]
        BY <1>1 DEF StartLock
      <2>2. ps \in SUBSET Paths
        BY PatternAssumption
      <2>3. QED
        BY <1>1, <2>1, <2>2 DEF StartLock, TypeOK
    <1>2. ASSUME NEW s \in Spaces, StartUnlock(s) PROVE TypeOK'
      <2>1. PICK ps \in Patterns, f \in BOOLEAN :
               job' = [job EXCEPT ![s] = Job(ps, {}, f, Free)]
        BY <1>2 DEF StartUnlock
      <2>2. ps \in SUBSET Paths
        BY PatternAssumption
      <2>3. QED
        BY <1>2, <2>1, <2>2 DEF StartUnlock, TypeOK
    <1>3. ASSUME NEW s \in Spaces, StatusFinds(s) PROVE TypeOK'
      BY <1>3 DEF StatusFinds, Lost, TypeOK
    <1>4. ASSUME NEW s \in Spaces, CommitCheck(s) PROVE TypeOK'
      BY <1>4 DEF CommitCheck, TypeOK
    <1>5. ASSUME NEW s \in Spaces, Snapshot(s) PROVE TypeOK'
      BY <1>5 DEF Snapshot, TypeOK
    <1>6. ASSUME NEW s \in Spaces, NEW p \in Paths, Edit(s, p) PROVE TypeOK'
      BY <1>6 DEF Edit, TypeOK
    <1>7. ASSUME NEW s \in Spaces, Step(s) PROVE TypeOK'
      <2>1. CASE Remember(s)
        BY <2>1 DEF Remember, TypeOK
      <2>2. CASE ForgetFreed(s)
        BY <2>2 DEF ForgetFreed, TypeOK
      <2>3. CASE ForgetLost(s)
        BY <2>3 DEF ForgetLost, TypeOK
      <2>4. CASE CommitPublish(s)
        BY <2>4 DEF CommitPublish, TypeOK
      <2>5. QED
        BY <1>7, <2>1, <2>2, <2>3, <2>4, TypeStepOnPath DEF Step
    <1>8. ASSUME NEW s \in Spaces, Die(s) PROVE TypeOK'
      BY <1>8 DEF Die, TypeOK
    <1>9. ASSUME NEW p \in Paths, Expire(p) PROVE TypeOK'
      BY <1>9 DEF Expire, TypeOK
    <1>10. CASE UNCHANGED vars
      BY <1>10 DEF vars, TypeOK
    <1>11. QED
      BY <1>1, <1>2, <1>3, <1>4, <1>5, <1>6, <1>7, <1>8, <1>9, <1>10 DEF Next

(* Type correctness for any spaces, paths, commands and deaths; no path is *)
(* ever both done and still to do in one command.                          *)
THEOREM LocksTypeCorrect == Spec => []TypeOK
    BY TypeInit, TypeStep, PTL DEF Spec

------------------------------------------------------------------------------
(* Exclusion                                                               *)

(* What LocksExclude assumes of the users and of the project settings:     *)
(* nobody takes or gives up locks by force, no lock reaches an expiry, one *)
(* file is dealt with at a time, and no unlock dies halfway.               *)
Considerate ==
    /\ {"lock --force", "unlock --force"} \cap Commands = {}
    /\ Expiring = FALSE
    /\ {"release", "compare", "delete"} \cap DiesIn = {}
    /\ \A ps \in Patterns : \A p, q \in ps : p = q

Holds(s, p) == lock[p] = s /\ state[p] # "blank"

(* No lock is ever taken over. *)
NothingIsForced ==
    /\ \A s \in Spaces : job[s].force = FALSE /\ pc[s] \notin {"transfer", "replace"}
    /\ \A p \in Paths : state[p] # "expired"

(* lock and unlock have one path, done or still to do. *)
OnePath ==
    \A s \in Spaces : pc[s] \notin {"idle", "forget", "publish"} =>
        \A p, q \in job[s].todo \cup job[s].done : p = q

(* What each step has learned about the lock file is still true. *)
StepIsCurrent ==
    \A s \in Spaces :
        /\ pc[s] = "fill" =>
              \A p \in job[s].todo : lock[p] = s /\ state[p] = "blank"
        /\ pc[s] = "acquire" => \A p \in job[s].done : Holds(s, p)
        /\ pc[s] = "compare" => job[s].owner = s
        /\ pc[s] = "delete" => \A p \in job[s].todo : Holds(s, p)

Parts == NothingIsForced /\ OnePath /\ StepIsCurrent /\ BelievedIsHeld

(* The inductive invariant. *)
Exclusive == TypeOK /\ Parts

LEMMA ExclusiveInit == Init => Exclusive
    BY TypeInit DEF Init, NoJob, Job, Exclusive, Parts, NothingIsForced, OnePath,
                    StepIsCurrent, BelievedIsHeld, Holds

LEMMA ExclusiveOnPath ==
    ASSUME Exclusive, Considerate, NEW s \in Spaces, NEW p \in Paths, OnPath(s, p)
    PROVE  Parts'
    <1> USE FreeAssumption
        DEF Exclusive, Parts, TypeOK, NothingIsForced, OnePath, StepIsCurrent,
            BelievedIsHeld, Holds, Goto, Finish, NoJob, Job, Done, PutLock,
            RemoveFile, Steps, files, work, At, Readable
    <1>1. CASE Create(s, p)
      BY <1>1 DEF Create
    <1>2. CASE Fill(s, p)
      <2>1. lock[p] = s /\ lock' = lock /\ state' = [state EXCEPT ![p] = "live"]
        BY <1>2 DEF Fill
      <2>2. job'[s].todo = {} /\ job'[s].done = {p} /\ pc'[s] = "acquire"
        BY <1>2 DEF Fill
      <2>3. \A t \in Spaces \ {s} : job'[t] = job[t] /\ pc'[t] = pc[t]
        BY <1>2 DEF Fill
      <2>4. NothingIsForced' /\ OnePath' /\ BelievedIsHeld'
        BY <1>2, <2>1, <2>2, <2>3 DEF Fill
      <2>5. StepIsCurrent'
        BY <2>1, <2>2, <2>3
      <2>6. QED
        BY <2>4, <2>5
    <1>3. CASE FillFails(s, p)
      BY <1>3 DEF FillFails
    <1>4. CASE Exists(s, p)
      BY <1>4 DEF Exists
    <1>5. ~MayTransfer(s, p)
      BY DEF MayTransfer
    <1>6. CASE Refused(s, p)
      BY <1>6 DEF Refused
    <1>7. ~Transfer(s, p) /\ ~TransferFails(s, p) /\ ~Replace(s, p)
      BY DEF Transfer, TransferFails, Replace
    <1>8. CASE SkipFree(s, p)
      BY <1>8 DEF SkipFree
    <1>9. CASE Claim(s, p)
      BY <1>9 DEF Claim
    <1>10. CASE ReleaseOwned(s, p)
      BY <1>10 DEF ReleaseOwned
    <1>11. CASE ReleaseGone(s, p)
      BY <1>11 DEF ReleaseGone
    <1>12. CASE ReleaseRefused(s, p)
      BY <1>12 DEF ReleaseRefused
    <1>13. CASE RemoveLock(s, p)
      BY <1>13 DEF RemoveLock
    <1>14. QED
      BY <1>1, <1>2, <1>3, <1>4, <1>5, <1>6, <1>7, <1>8, <1>9, <1>10,
         <1>11, <1>12, <1>13 DEF OnPath

LEMMA ExclusiveStep == Considerate /\ Exclusive /\ [Next]_vars => Exclusive'
    <1> SUFFICES ASSUME Considerate, Exclusive, [Next]_vars PROVE Parts'
      BY TypeStep DEF Exclusive, Parts
    <1> USE DEF Exclusive, Parts, NothingIsForced, OnePath, StepIsCurrent,
                BelievedIsHeld, Holds, Goto, Finish, NoJob, Job, Steps, files, work
    <1>1. ASSUME NEW s \in Spaces, StartLock(s) PROVE Parts'
      <2>1. PICK ps \in Patterns :
               job' = [job EXCEPT ![s] = Job(ps, {}, FALSE, Free)]
        BY <1>1 DEF StartLock, Considerate
      <2>2. ps \in SUBSET Paths /\ \A p, q \in ps : p = q
        BY PatternAssumption DEF Considerate
      <2>3. /\ pc[s] = "idle"
            /\ pc' = [pc EXCEPT ![s] = "acquire"]
            /\ UNCHANGED <<lock, state, held>>
        BY <1>1 DEF StartLock
      <2>4. /\ job'[s] = Job(ps, {}, FALSE, Free) /\ pc'[s] = "acquire"
            /\ \A t \in Spaces \ {s} : job'[t] = job[t] /\ pc'[t] = pc[t]
        BY <2>1, <2>3 DEF TypeOK
      <2>5. NothingIsForced' /\ OnePath'
        BY <2>2, <2>3, <2>4
      <2>6. StepIsCurrent'
        BY <2>3, <2>4
      <2>7. BelievedIsHeld'
        BY <2>3, <2>4
      <2>8. QED
        BY <2>5, <2>6, <2>7
    <1>2. ASSUME NEW s \in Spaces, StartUnlock(s) PROVE Parts'
      <2>1. PICK ps \in Patterns :
               job' = [job EXCEPT ![s] = Job(ps, {}, FALSE, Free)]
        BY <1>2 DEF StartUnlock, Considerate
      <2>2. ps \in SUBSET Paths /\ \A p, q \in ps : p = q
        BY PatternAssumption DEF Considerate
      <2>3. /\ pc[s] = "idle"
            /\ pc' = [pc EXCEPT ![s] = "release"]
            /\ UNCHANGED <<lock, state, held>>
        BY <1>2 DEF StartUnlock
      <2>4. /\ job'[s] = Job(ps, {}, FALSE, Free) /\ pc'[s] = "release"
            /\ \A t \in Spaces \ {s} : job'[t] = job[t] /\ pc'[t] = pc[t]
        BY <2>1, <2>3 DEF TypeOK
      <2>5. NothingIsForced' /\ OnePath'
        BY <2>2, <2>3, <2>4
      <2>6. StepIsCurrent'
        BY <2>3, <2>4
      <2>7. BelievedIsHeld'
        BY <2>3, <2>4
      <2>8. QED
        BY <2>5, <2>6, <2>7
    <1>3. ASSUME NEW s \in Spaces, StatusFinds(s) PROVE Parts'
      BY <1>3 DEF StatusFinds, Lost, TypeOK
    <1>4. ASSUME NEW s \in Spaces, CommitCheck(s) PROVE Parts'
      BY <1>4 DEF CommitCheck, TypeOK
    <1>5. ASSUME NEW s \in Spaces, Snapshot(s) PROVE Parts'
      BY <1>5 DEF Snapshot, TypeOK
    <1>6. ASSUME NEW s \in Spaces, NEW p \in Paths, Edit(s, p) PROVE Parts'
      BY <1>6 DEF Edit, TypeOK
    <1>7. ASSUME NEW s \in Spaces, Step(s) PROVE Parts'
      <2>1. CASE Remember(s)
        BY <2>1 DEF Remember, TypeOK
      <2>2. CASE ForgetFreed(s)
        BY <2>2 DEF ForgetFreed, TypeOK
      <2>3. CASE ForgetLost(s)
        BY <2>3 DEF ForgetLost, TypeOK
      <2>4. CASE CommitPublish(s)
        BY <2>4 DEF CommitPublish, TypeOK
      <2>5. QED
        BY <1>7, <2>1, <2>2, <2>3, <2>4, ExclusiveOnPath DEF Step
    <1>8. ASSUME NEW s \in Spaces, Die(s) PROVE Parts'
      <2>1. pc[s] \notin {"release", "compare", "delete"}
        BY <1>8 DEF Die, Considerate
      <2>2. /\ job'[s] = NoJob /\ pc'[s] = "idle"
            /\ \A t \in Spaces \ {s} : job'[t] = job[t] /\ pc'[t] = pc[t]
            /\ UNCHANGED <<lock, state, held>>
        BY <1>8 DEF Die, TypeOK
      <2>3. QED
        BY <2>1, <2>2
    <1>9. ASSUME NEW p \in Paths, Expire(p) PROVE Parts'
      BY <1>9 DEF Expire, Considerate
    <1>10. CASE UNCHANGED vars
      BY <1>10 DEF vars, TypeOK
    <1>11. QED
      BY <1>1, <1>2, <1>3, <1>4, <1>5, <1>6, <1>7, <1>8, <1>9, <1>10 DEF Next

(* For any users and paths: where they are considerate, whoever believes   *)
(* to hold a path holds it, whatever else they run and wherever a lock, a  *)
(* commit or a snapshot dies (lock.go: two people reaching for the same    *)
(* file at the same moment must not both succeed).                         *)
THEOREM LocksExclude ==
    ASSUME Considerate
    PROVE  Spec => []BelievedIsHeld
    <1>1. Exclusive => BelievedIsHeld
      BY DEF Exclusive, Parts
    <1>2. Exclusive /\ [Next]_vars => Exclusive'
      BY ExclusiveStep
    <1>3. QED
      BY ExclusiveInit, <1>1, <1>2, PTL DEF Spec

------------------------------------------------------------------------------
(* What is taken is remembered                                             *)

(* What TakenStaysRemembered assumes: one file is locked or unlocked at a  *)
(* time, and no lock dies between its lock file and .fibula/held.          *)
OneByOne ==
    /\ "acquire" \notin DiesIn
    /\ \A ps \in Patterns : \A p, q \in ps : p = q

(* A lock in the store is in the list of its owner, or a running lock of   *)
(* his has just taken it; and what a command is going to forget is not his *)
(* any more.                                                               *)
TakenIsKnown ==
    \A s \in Spaces : \A p \in Paths :
        Holds(s, p) => p \in held[s] \/ (pc[s] = "acquire" /\ p \in job[s].done)

ForgottenIsGone ==
    \A s \in Spaces : pc[s] \in {"release", "compare", "delete", "forget"} =>
        \A p \in job[s].done : lock[p] # s

Known == OnePath /\ TakenIsKnown /\ ForgottenIsGone

(* The inductive invariant. *)
Remembered == TypeOK /\ Known

LEMMA RememberedInit == Init => Remembered
    BY TypeInit, FreeAssumption
       DEF Init, NoJob, Job, Remembered, Known, OnePath, TakenIsKnown, ForgottenIsGone, Holds

LEMMA RememberedOnPath ==
    ASSUME Remembered, NEW s \in Spaces, NEW p \in Paths, OnPath(s, p)
    PROVE  Known'
    <1> USE FreeAssumption
        DEF Remembered, Known, TypeOK, OnePath, TakenIsKnown, ForgottenIsGone,
            Holds, Goto, Finish, NoJob, Job, Done, PutLock,
            RemoveFile, Steps, files, work, At, Readable
    <1>1. CASE Create(s, p)
      BY <1>1 DEF Create
    <1>2. CASE Fill(s, p)
      BY <1>2 DEF Fill
    <1>3. CASE FillFails(s, p)
      BY <1>3 DEF FillFails
    <1>4. CASE Exists(s, p)
      BY <1>4 DEF Exists
    <1>5. CASE MayTransfer(s, p)
      BY <1>5 DEF MayTransfer
    <1>6. CASE Refused(s, p)
      BY <1>6 DEF Refused
    <1>7. CASE Transfer(s, p)
      BY <1>7 DEF Transfer
    <1>8. CASE TransferFails(s, p)
      BY <1>8 DEF TransferFails
    <1>9. CASE Replace(s, p)
      BY <1>9 DEF Replace
    <1>10. CASE SkipFree(s, p)
      BY <1>10 DEF SkipFree
    <1>11. CASE Claim(s, p)
      BY <1>11 DEF Claim
    <1>12. CASE ReleaseOwned(s, p)
      BY <1>12 DEF ReleaseOwned
    <1>13. CASE ReleaseGone(s, p)
      BY <1>13 DEF ReleaseGone
    <1>14. CASE ReleaseRefused(s, p)
      BY <1>14 DEF ReleaseRefused
    <1>15. CASE RemoveLock(s, p)
      BY <1>15 DEF RemoveLock
    <1>16. QED
      BY <1>1, <1>2, <1>3, <1>4, <1>5, <1>6, <1>7, <1>8, <1>9, <1>10,
         <1>11, <1>12, <1>13, <1>14, <1>15 DEF OnPath

LEMMA RememberedStep == OneByOne /\ Remembered /\ [Next]_vars => Remembered'
    <1> SUFFICES ASSUME OneByOne, Remembered, [Next]_vars PROVE Known'
      BY TypeStep DEF Remembered
    <1> USE DEF Remembered, Known, OnePath, TakenIsKnown, ForgottenIsGone, Holds, Goto, Finish,
                NoJob, Job, Steps, files, work
    <1>1. ASSUME NEW s \in Spaces, StartLock(s) \/ StartUnlock(s) PROVE Known'
      <2>1. PICK ps \in Patterns, f \in BOOLEAN :
               job' = [job EXCEPT ![s] = Job(ps, {}, f, Free)]
        BY <1>1 DEF StartLock, StartUnlock
      <2>2. \A p, q \in ps : p = q
        BY DEF OneByOne
      <2>3. PICK to \in {"acquire", "release"} :
               pc' = [pc EXCEPT ![s] = to] /\ UNCHANGED <<lock, state, held>>
        BY <1>1 DEF StartLock, StartUnlock
      <2>4. pc[s] = "idle"
        BY <1>1 DEF StartLock, StartUnlock
      <2>5. /\ pc'[s] = to /\ job'[s].todo = ps /\ job'[s].done = {}
            /\ \A t \in Spaces \ {s} : job'[t] = job[t] /\ pc'[t] = pc[t]
        BY <2>1, <2>3 DEF TypeOK
      <2>6. QED
        BY <2>2, <2>3, <2>4, <2>5
    <1>2. ASSUME NEW s \in Spaces, StatusFinds(s) PROVE Known'
      BY <1>2 DEF StatusFinds, Lost, TypeOK
    <1>3. ASSUME NEW s \in Spaces, CommitCheck(s) PROVE Known'
      BY <1>3 DEF CommitCheck, TypeOK
    <1>4. ASSUME NEW s \in Spaces, Snapshot(s) PROVE Known'
      BY <1>4 DEF Snapshot, TypeOK
    <1>5. ASSUME NEW s \in Spaces, NEW p \in Paths, Edit(s, p) PROVE Known'
      BY <1>5 DEF Edit, TypeOK
    <1>6. ASSUME NEW s \in Spaces, Step(s) PROVE Known'
      <2>1. CASE Remember(s)
        BY <2>1 DEF Remember, TypeOK
      <2>2. CASE ForgetFreed(s)
        BY <2>2 DEF ForgetFreed, TypeOK
      <2>3. CASE ForgetLost(s)
        BY <2>3 DEF ForgetLost, TypeOK
      <2>4. CASE CommitPublish(s)
        BY <2>4 DEF CommitPublish, TypeOK
      <2>5. QED
        BY <1>6, <2>1, <2>2, <2>3, <2>4, RememberedOnPath DEF Step
    <1>7. ASSUME NEW s \in Spaces, Die(s) PROVE Known'
      <2>1. pc[s] # "acquire"
        BY <1>7 DEF Die, OneByOne
      <2>2. /\ job'[s] = NoJob /\ pc'[s] = "idle"
            /\ \A t \in Spaces \ {s} : job'[t] = job[t] /\ pc'[t] = pc[t]
            /\ UNCHANGED <<lock, state, held>>
        BY <1>7 DEF Die, TypeOK
      <2>3. QED
        BY <2>1, <2>2
    <1>8. ASSUME NEW p \in Paths, Expire(p) PROVE Known'
      BY <1>8 DEF Expire, TypeOK, Readable
    <1>9. CASE UNCHANGED vars
      BY <1>9 DEF vars, TypeOK
    <1>10. QED
      BY <1>1, <1>2, <1>3, <1>4, <1>5, <1>6, <1>7, <1>8, <1>9 DEF Next

(* For any users, paths and commands, --force and expiry included: where   *)
(* files are locked one at a time and no lock dies on its last steps, a    *)
(* lock that the store has in a user's name is one his space remembers     *)
(* when it is at rest (client/locks.go: a failure partway through records  *)
(* exactly what was actually taken).                                       *)
THEOREM TakenStaysRemembered ==
    ASSUME OneByOne
    PROVE  Spec => []TakenIsRemembered
    <1>1. Remembered => TakenIsRemembered
      BY DEF Remembered, Known, TakenIsKnown, Holds, TakenIsRemembered
    <1>2. Remembered /\ [Next]_vars => Remembered'
      BY RememberedStep
    <1>3. QED
      BY RememberedInit, <1>1, <1>2, PTL DEF Spec

==============================================================================

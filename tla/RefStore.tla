------------------------------- MODULE RefStore -------------------------------
(***************************************************************************)
(* The file-backed ref store, src/store/fs/refs.go, for one ref, one file  *)
(* system call per step.  Several processes share the store directory (a   *)
(* NAS share); each has one refStore value with one mutex per ref name,    *)
(* and any number of goroutines that call it.  Between processes the guard *)
(* is <ref>.lock, created with O_EXCL and removed on the way out; a lock   *)
(* older than lockStale is taken for the leftover of a dead process and    *)
(* removed by whoever meets it.                                            *)
(*                                                                         *)
(* The ref's content is replaced by one rename, so a reader sees a whole   *)
(* version or none; the temporary file it comes from is not modelled.      *)
(***************************************************************************)
EXTENDS Naturals

CONSTANTS
    Callers,        \* goroutines that call the store
    Processes,      \* processes sharing the store directory
    Versions,       \* version IDs
    Nil,            \* the zero VersionID; also: no lock file, nobody holds
    Requests,       \* the operations callers ask for
    LockAttempts,   \* lockAttempts: tries at <ref>.lock before giving up
    ProcessOf       \* ProcessOf[c]: the process caller c runs in

(* CompareAndSwap, where old = Nil asks for a new ref, and Delete. *)
AllRequests ==
    [kind : {"cas"}, old : Versions \cup {Nil}, next : Versions]
        \cup [kind : {"delete"}]

ASSUME NilAssumption ==
    /\ Nil \notin Versions
    /\ Nil \notin Callers
ASSUME RequestAssumption == Requests \subseteq AllRequests
ASSUME ProcessAssumption == ProcessOf \in [Callers -> Processes]
ASSUME AttemptsAssumption == LockAttempts \in Nat \ {0}

VARIABLES
    ref,        \* content of the ref file, Nil when there is none
    lock,       \* who created the <ref>.lock that exists, Nil when none does
    aged,       \* the lock file is older than lockStale
    mutex,      \* mutex[p]: the caller that holds p's mutex for this ref
    pc,         \* pc[c]: the system call c is about to make
    request,    \* request[c]: the arguments of c's call
    attempt,    \* attempt[c]: how often c has failed to create the lock
    outcome     \* outcome[c]: what c's call will return, "none" until known

vars == <<ref, lock, aged, mutex, pc, request, attempt, outcome>>

NoRequest == [kind |-> "none"]

(* Where a caller believes it owns the lock file. *)
Holding == {"check", "write", "unlock"}

(* Where a caller owns its process's mutex. *)
Inside == {"open", "stat", "break", "wait", "unlatch"} \cup Holding

TypeOK ==
    /\ ref \in Versions \cup {Nil}
    /\ lock \in Callers \cup {Nil}
    /\ aged \in BOOLEAN
    /\ mutex \in [Processes -> Callers \cup {Nil}]
    /\ pc \in [Callers -> {"idle", "latch"} \cup Inside]
    /\ request \in [Callers -> Requests \cup {NoRequest}]
    /\ attempt \in [Callers -> 0 .. LockAttempts]
    /\ outcome \in [Callers -> {"none", "ok", "mismatch", "busy", "failed"}]

Init ==
    /\ ref = Nil
    /\ lock = Nil
    /\ aged = FALSE
    /\ mutex = [p \in Processes |-> Nil]
    /\ pc = [c \in Callers |-> "idle"]
    /\ request = [c \in Callers |-> NoRequest]
    /\ attempt = [c \in Callers |-> 0]
    /\ outcome = [c \in Callers |-> "none"]

------------------------------------------------------------------------------

Goto(c, from, to) ==
    /\ pc[c] = from
    /\ pc' = [pc EXCEPT ![c] = to]

Answer(c, what) == outcome' = [outcome EXCEPT ![c] = what]

(* CompareAndSwap or Delete is called.  Setting a ref to the zero version  *)
(* is refused up front, so next is always a version.                       *)
Call(c, r) ==
    /\ Goto(c, "idle", "latch")
    /\ request' = [request EXCEPT ![c] = r]
    /\ UNCHANGED <<ref, lock, aged, mutex, attempt, outcome>>

(* Mutant of Latch: mutexFor hands out a new mutex on every call. *)
LatchNewMutex(c) ==
    /\ Goto(c, "latch", "open")
    /\ mutex' = [mutex EXCEPT ![ProcessOf[c]] = c]
    /\ UNCHANGED <<ref, lock, aged, request, attempt, outcome>>

(* mu.Lock() *)
Latch(c) ==
    /\ mutex[ProcessOf[c]] = Nil
    /\ Goto(c, "latch", "open")
    /\ mutex' = [mutex EXCEPT ![ProcessOf[c]] = c]
    /\ UNCHANGED <<ref, lock, aged, request, attempt, outcome>>

(* os.OpenFile(lockPath, O_CREATE|O_EXCL) succeeds ... *)
CreateLock(c) ==
    /\ attempt[c] < LockAttempts
    /\ lock = Nil
    /\ Goto(c, "open", "check")
    /\ lock' = c
    /\ aged' = FALSE
    /\ UNCHANGED <<ref, mutex, request, attempt, outcome>>

(* Mutant of LockExists: one attempt more than lockAttempts. *)
LockExistsOnceMore(c) ==
    /\ attempt[c] <= LockAttempts
    /\ lock # Nil
    /\ Goto(c, "open", "stat")
    /\ UNCHANGED <<ref, lock, aged, mutex, request, attempt, outcome>>

(* ... or finds the lock file there ... *)
LockExists(c) ==
    /\ attempt[c] < LockAttempts
    /\ lock # Nil
    /\ Goto(c, "open", "stat")
    /\ UNCHANGED <<ref, lock, aged, mutex, request, attempt, outcome>>

(* ... and after the last attempt the call gives up: ErrRefConflict. *)
GiveUp(c) ==
    /\ attempt[c] = LockAttempts
    /\ Goto(c, "open", "unlatch")
    /\ Answer(c, "busy")
    /\ UNCHANGED <<ref, lock, aged, mutex, request, attempt>>

(* Mutant of StatStale: the comparison with lockStale is turned around. *)
StatYoung(c) ==
    /\ lock # Nil /\ ~aged
    /\ Goto(c, "stat", "break")
    /\ UNCHANGED <<ref, lock, aged, mutex, request, attempt, outcome>>

(* breakStaleLock: os.Stat says the lock is old enough to be a leftover *)
StatStale(c) ==
    /\ lock # Nil /\ aged
    /\ Goto(c, "stat", "break")
    /\ UNCHANGED <<ref, lock, aged, mutex, request, attempt, outcome>>

(* ... or that it is gone or too young. *)
StatFresh(c) ==
    /\ lock = Nil \/ ~aged
    /\ Goto(c, "stat", "wait")
    /\ UNCHANGED <<ref, lock, aged, mutex, request, attempt, outcome>>

(* os.Remove(lockPath): whatever lock file is there now goes away. *)
BreakLock(c) ==
    /\ lock # Nil
    /\ Goto(c, "break", "open")
    /\ lock' = Nil
    /\ aged' = FALSE
    /\ attempt' = [attempt EXCEPT ![c] = @ + 1]
    /\ UNCHANGED <<ref, mutex, request, outcome>>

(* The lock went away by itself: os.Remove fails, the caller waits.  A stat *)
(* or a removal that fails with the lock still there, after which a caller *)
(* waits too, is left out.                                                 *)
NothingToBreak(c) ==
    /\ lock = Nil
    /\ Goto(c, "break", "wait")
    /\ UNCHANGED <<ref, lock, aged, mutex, request, attempt, outcome>>

(* waitBeforeRetry ends with its timer *)
Retry(c) ==
    /\ Goto(c, "wait", "open")
    /\ attempt' = [attempt EXCEPT ![c] = @ + 1]
    /\ UNCHANGED <<ref, lock, aged, mutex, request, outcome>>

(* Mutant of LockFails: returns without mu.Unlock(). *)
LockFailsLatched(c) ==
    /\ pc[c] \in {"wait", "open"}
    /\ pc' = [pc EXCEPT ![c] = "idle"]
    /\ request' = [request EXCEPT ![c] = NoRequest]
    /\ attempt' = [attempt EXCEPT ![c] = 0]
    /\ UNCHANGED <<ref, lock, aged, mutex, outcome>>

(* ... or with the context; or the lock file cannot be created at all. *)
LockFails(c) ==
    /\ pc[c] \in {"wait", "open"}
    /\ pc' = [pc EXCEPT ![c] = "unlatch"]
    /\ Answer(c, "failed")
    /\ UNCHANGED <<ref, lock, aged, mutex, request, attempt>>

(* Mutant of CheckMatches: the expected value is not compared. *)
CheckNothing(c) ==
    /\ request[c].kind = "cas"
    /\ Goto(c, "check", "write")
    /\ UNCHANGED <<ref, lock, aged, mutex, request, attempt, outcome>>

(* checkCurrent: the ref is read and compared with the expected value. *)
CheckMatches(c) ==
    /\ request[c].kind = "cas"
    /\ ref = request[c].old
    /\ Goto(c, "check", "write")
    /\ UNCHANGED <<ref, lock, aged, mutex, request, attempt, outcome>>

CheckMismatch(c) ==
    /\ request[c].kind = "cas"
    /\ ref # request[c].old
    /\ Goto(c, "check", "unlock")
    /\ Answer(c, "mismatch")
    /\ UNCHANGED <<ref, lock, aged, mutex, request, attempt>>

(* write: the temporary file is renamed over the ref. *)
Write(c) ==
    /\ Goto(c, "write", "unlock")
    /\ ref' = request[c].next
    /\ Answer(c, "ok")
    /\ UNCHANGED <<lock, aged, mutex, request, attempt>>

(* Delete compares nothing; a ref that is already gone is no error. *)
RemoveRef(c) ==
    /\ request[c].kind = "delete"
    /\ Goto(c, "check", "unlock")
    /\ ref' = Nil
    /\ Answer(c, "ok")
    /\ UNCHANGED <<lock, aged, mutex, request, attempt>>

(* Mutant of RefFails: the error of the rename is dropped. *)
RefFailsQuietly(c) ==
    /\ pc[c] \in {"check", "write"}
    /\ pc' = [pc EXCEPT ![c] = "unlock"]
    /\ Answer(c, "ok")
    /\ UNCHANGED <<ref, lock, aged, mutex, request, attempt>>

(* Reading, writing, renaming or removing the ref file fails. *)
RefFails(c) ==
    /\ pc[c] \in {"check", "write"}
    /\ pc' = [pc EXCEPT ![c] = "unlock"]
    /\ Answer(c, "failed")
    /\ UNCHANGED <<ref, lock, aged, mutex, request, attempt>>

(* The deferred os.Remove(lockPath) does not look whose lock it removes, *)
Unlock(c) ==
    /\ Goto(c, "unlock", "unlatch")
    /\ lock' = Nil
    /\ aged' = FALSE
    /\ UNCHANGED <<ref, mutex, request, attempt, outcome>>

(* and when it fails "a lock left behind expires as stale". *)
UnlockFails(c) ==
    /\ Goto(c, "unlock", "unlatch")
    /\ UNCHANGED <<ref, lock, aged, mutex, request, attempt, outcome>>

(* mu.Unlock() and return *)
Unlatch(c) ==
    /\ Goto(c, "unlatch", "idle")
    /\ mutex' = [mutex EXCEPT ![ProcessOf[c]] = Nil]
    /\ Answer(c, "none")
    /\ request' = [request EXCEPT ![c] = NoRequest]
    /\ attempt' = [attempt EXCEPT ![c] = 0]
    /\ UNCHANGED <<ref, lock, aged>>

(* A process dies and is started again: its mutexes are new, its calls are *)
(* gone, its lock file stays.                                              *)
Crash(p) ==
    LET Lost(f, blank) == [c \in Callers |-> IF ProcessOf[c] = p THEN blank ELSE f[c]]
    IN  /\ pc' = Lost(pc, "idle")
        /\ request' = Lost(request, NoRequest)
        /\ attempt' = Lost(attempt, 0)
        /\ outcome' = Lost(outcome, "none")
        /\ mutex' = [mutex EXCEPT ![p] = Nil]
        /\ UNCHANGED <<ref, lock, aged>>

(* lockStale passes since the lock file was created. *)
Age ==
    /\ lock # Nil
    /\ ~aged
    /\ aged' = TRUE
    /\ UNCHANGED <<ref, lock, mutex, pc, request, attempt, outcome>>

Step(c) ==
    \/ Latch(c)
    \/ CreateLock(c) \/ LockExists(c) \/ GiveUp(c)
    \/ StatStale(c) \/ StatFresh(c)
    \/ BreakLock(c) \/ NothingToBreak(c)
    \/ Retry(c) \/ LockFails(c)
    \/ CheckMatches(c) \/ CheckMismatch(c)
    \/ Write(c) \/ RemoveRef(c) \/ RefFails(c)
    \/ Unlock(c) \/ UnlockFails(c)
    \/ Unlatch(c)

Next ==
    \/ \E c \in Callers :
          \/ \E r \in Requests : Call(c, r)
          \/ Step(c)
    \/ \E p \in Processes : Crash(p)
    \/ Age

Spec == Init /\ [][Next]_vars

(* Scheduling: a goroutine that can take a step takes it, and sync.Mutex   *)
(* starves no waiter.                                                      *)
Scheduling == \A c \in Callers : WF_vars(Step(c)) /\ SF_vars(Latch(c))

FairSpec == Spec /\ Scheduling

(* Users: calls keep coming, not every one of them is cancelled or dies    *)
(* before it has dealt with the lock file it meets; and time passes.       *)
Persistence ==
    /\ \A c \in Callers :
          /\ WF_vars(\E r \in Requests : Call(c, r))
          /\ SF_vars(LockExists(c)) /\ SF_vars(StatStale(c)) /\ SF_vars(BreakLock(c))
    /\ WF_vars(Age)

------------------------------------------------------------------------------
(* What the scheme relies on and cannot enforce.  lockStale is generous so *)
(* that a live holder finishes before its lock ages; and os.Stat followed  *)
(* by os.Remove breaks the lock it has looked at only if no second caller  *)
(* is between the two at the same moment.                                  *)

OnlyOrphansAge == aged => (lock # Nil => pc[lock] \notin Holding)

SoleBreaker == \A c, d \in Callers : pc[c] = "break" /\ pc[d] = "break" => c = d

CarefulNext == Next /\ OnlyOrphansAge' /\ SoleBreaker'

CarefulSpec == Init /\ [][CarefulNext]_vars

(* Holders are never slow, but two processes may find the same leftover. *)
PunctualSpec == Init /\ [][Next /\ OnlyOrphansAge']_vars

------------------------------------------------------------------------------
(* A caller between its O_EXCL create and its remove owns the lock file    *)
(* that exists: nobody has broken it, nobody else has created one.  Hence  *)
(* at most one caller, of all processes, reads and replaces the ref.       *)
HolderOwnsLock == \A c \in Callers : pc[c] \in Holding => lock = c

(* Why that is so, and the inductive invariant of the proofs.              *)
(* One caller of a process at a time is past its mutex.                    *)
MutexAdmitsOne == \A c \in Callers : pc[c] \in Inside => mutex[ProcessOf[c]] = c

(* A caller about to remove a lock as stale still looks at a leftover. *)
BreaksLeftovers ==
    \A c \in Callers : pc[c] = "break" => lock # Nil /\ aged

(* Once checkCurrent has let a swap through, the ref stays what the caller *)
(* expects until it is replaced.                                           *)
CheckStillHolds ==
    \A c \in Callers :
        pc[c] = "write" => request[c].kind = "cas" /\ ref = request[c].old

(* An operation has its answer exactly on its way out. *)
AnsweredOnTheWayOut ==
    \A c \in Callers : outcome[c] # "none" <=> pc[c] \in {"unlock", "unlatch"}

(* Together: the ref is guarded.  A lock in use is the holder's own, only  *)
(* leftovers are broken, and what was checked is still true when written.  *)
Guarded ==
    /\ HolderOwnsLock
    /\ MutexAdmitsOne
    /\ BreaksLeftovers
    /\ CheckStillHolds
    /\ AnsweredOnTheWayOut
    /\ OnlyOrphansAge
    /\ SoleBreaker

(* CompareAndSwap "never silently overwrites": whatever changes the ref is *)
(* a swap whose expected value the ref holds, or a delete.                 *)
NoLostUpdate ==
    [][ref' # ref =>
        \E c \in Callers :
            \/ /\ pc[c] = "write" /\ pc'[c] = "unlock"
               /\ ref = request[c].old /\ ref' = request[c].next
            \/ pc[c] = "check" /\ request[c].kind = "delete" /\ ref' = Nil]_vars

(* The store implements the atomic register of AtomicRef: an operation     *)
(* takes effect at one instant, and its answer tells what happened.        *)
Register == INSTANCE AtomicRef WITH
    status <- [c \in Callers |->
                  IF pc[c] = "idle" THEN "idle"
                  ELSE IF outcome[c] = "none" THEN "pending" ELSE outcome[c]]

RefinesAtomicRef == Register!Spec

(* Every call returns: a lock that stays makes it give up after            *)
(* lockAttempts, and the mutex is released on every path.                  *)
EveryCallReturns == \A c \in Callers : (pc[c] # "idle") ~> (pc[c] = "idle")

(* A lock left behind by a crash, or by a remove that failed, does not     *)
(* block the ref for good: callers that keep coming get rid of it.         *)
LeftoverGoesAway ==
    Persistence =>
        ((lock # Nil /\ pc[lock] \notin Holding) ~> (lock = Nil \/ pc[lock] \in Holding))

==============================================================================

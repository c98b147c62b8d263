----------------------------- MODULE MCProgress -----------------------------
(* What happens in the end, a part at a time: the first state chooses the   *)
(* part that moves, the other one stays in its initial state.  The lock     *)
(* files of Locks expire and are forced, and the ref of RefStore is called  *)
(* again and again.                                                         *)
EXTENDS Locks, TLC

CONSTANTS a1, b1, A, B, v1, Nil, s1, s2

VARIABLES part, rRef, rLock, rAged, rMutex, rPc, rRequest, rAttempt, rOutcome

rVars == <<rRef, rLock, rAged, rMutex, rPc, rRequest, rAttempt, rOutcome>>

(* Locks: two users and the path both want. *)
MCOnePath == {1}
MCSingles == {{p} : p \in Paths}

(* RefStore: two processes that create a ref and delete it again. *)
R == INSTANCE RefStore WITH
    Callers <- {a1, b1}, Processes <- {A, B}, Versions <- {v1}, LockAttempts <- 2,
    ProcessOf <- (a1 :> A) @@ (b1 :> B),
    Requests <- {[kind |-> "cas", old |-> Nil, next |-> v1], [kind |-> "delete"]},
    ref <- rRef, lock <- rLock, aged <- rAged, mutex <- rMutex, pc <- rPc,
    request <- rRequest, attempt <- rAttempt, outcome <- rOutcome

PartsInit == part \in {"locks", "ref"} /\ Init /\ R!Init

PartsNext ==
    \/ part = "locks" /\ Next /\ UNCHANGED <<part, rVars>>
    \/ part = "ref" /\ R!Next /\ UNCHANGED <<part, vars>>

(* R!Scheduling and Fairness.  In either part no fair action of the other   *)
(* one is ever enabled, and each of these is fairness of that part's own.   *)
PartsScheduling ==
    \A pair \in {<<a1, s1>>, <<b1, s2>>} :
        LET c == pair[1]
            s == pair[2]
        IN  /\ WF_<<part, vars, rVars>>(
                   \/ part = "locks" /\ Step(s) /\ UNCHANGED <<part, rVars>>
                   \/ part = "ref" /\ R!Step(c) /\ UNCHANGED <<part, vars>>)
            /\ SF_<<part, vars, rVars>>(
                   \/ part = "locks" /\ StatusFinds(s) /\ UNCHANGED <<part, rVars>>
                   \/ part = "ref" /\ R!Latch(c) /\ UNCHANGED <<part, vars>>)
            /\ []<>AtRest(s)

PartsSpec == PartsInit /\ [][PartsNext]_<<part, vars, rVars>> /\ PartsScheduling

(* Every caller of a ref gets its answer, whatever files a crash leaves and *)
(* whatever call fails (store/fs/refs.go, acquireFileLock).                 *)
EveryCallReturns == R!EveryCallReturns

(* While callers keep coming, a dead holder's lock does not stay            *)
(* (store/fs/refs.go, breakStaleLock).                                      *)
LeftoverGoesAway == R!LeftoverGoesAway

=============================================================================

------------------------------ MODULE MCDeaths ------------------------------
(* Commands that die, a part at a time: the first state chooses the part    *)
(* that moves, the others stay in an initial state.  Locks are two          *)
(* considerate users whose commands die between lock files, and two who use *)
(* force; Workspace is one space whose commands die in every step.          *)
EXTENDS Locks, TLC

CONSTANTS f, g, s1, s2, Torn, Absent

VARIABLES
    part,
    nLock, nState, nHeld, nChanged, nUnseen, nPc, nJob,
    wVersions, wRef, wTimeline, wTree, wHead, wCheckedOut, wPc, wPlan, wTouched

nVars == <<nLock, nState, nHeld, nChanged, nUnseen, nPc, nJob>>
wVars == <<wVersions, wRef, wTimeline, wTree, wHead, wCheckedOut, wPc, wPlan, wTouched>>

(* Locks: two paths, locked one at a time. *)
MCTwoPaths == 1 .. 2
MCSingles == {{p} : p \in Paths}

Forced == INSTANCE Locks WITH
    Expiring <- TRUE, Commands <- {"lock", "unlock", "unlock --force", "status"}, DiesIn <- {},
    lock <- nLock, state <- nState, held <- nHeld, changed <- nChanged,
    unseen <- nUnseen, pc <- nPc, job <- nJob

(* Workspace: two paths, two contents, and files that were cut short. *)
W == INSTANCE Workspace WITH
    Spaces <- {s1}, Paths <- 1 .. 2, Files <- {f, g, Torn}, MaxVersions <- 2,
    Commands <- {"commit", "sync", "checkout", "clear", "restore", "expire"},
    DiesIn <- {"scanned", "put", "published", "headed", "recheck", "write", "remove",
               "settle", "settled", "point", "pointed"},
    EditsAnyTime <- FALSE,
    versions <- wVersions, ref <- wRef, timeline <- wTimeline, tree <- wTree,
    head <- wHead, checkedOut <- wCheckedOut, pc <- wPc, plan <- wPlan, touched <- wTouched

MCSymmetry == Permutations({f, g})

PartsInit == part \in {"locks", "forced locks", "versions"} /\ Init /\ Forced!Init /\ W!Init

PartsNext ==
    \/ part = "locks" /\ Next /\ UNCHANGED <<part, nVars, wVars>>
    \/ part = "forced locks" /\ Forced!Next /\ UNCHANGED <<part, vars, wVars>>
    \/ part = "versions" /\ W!Next /\ W!NothingExpiresInUse /\ UNCHANGED <<part, vars, nVars>>

PartsSpec == PartsInit /\ [][PartsNext]_<<part, vars, nVars, wVars>>

(* A lock that a finished command has left in the store is one its space    *)
(* remembers, though others expire and are forced (client/locks.go).        *)
LocksAreRemembered == Forced!TakenIsRemembered

(* No command but restore overwrites what no version has, wherever commands *)
(* died before and whatever has expired but a base (client/checkout.go,     *)
(* sync.go, clear.go, expiry.go).                                           *)
NothingUnsavedIsLost == W!NothingUnsavedIsLost

==============================================================================

------------------------------- MODULE MCStore -------------------------------
(* What may be deleted or replaced, a part at a time: the first state       *)
(* chooses the part that moves, the others stay in an initial state.        *)
(* Retention deletes the refs of snapshots, Collector what no ref reaches,  *)
(* Merge decides what a sync does to the files of a space, and TreeUpdate   *)
(* does it.                                                                 *)
EXTENDS Collector, Schedule, TLC

CONSTANTS s1, s2, c, d, e1, e2, f, g, h, cut, Absent

VARIABLES
    part,
    tNow, tTaken, tTimeline, tDoomed,
    mBase, mOurs, mTheirs,
    uKind, uBase, uTarget, uDisk, uConflicts, uGoal, uWrites, uRemovals, uPhase

tVars == <<tNow, tTaken, tTimeline, tDoomed>>
mVars == <<mBase, mOurs, mTheirs>>
uVars == <<uKind, uBase, uTarget, uDisk, uConflicts, uGoal, uWrites, uRemovals, uPhase>>

(* Collector: two contents that share a chunk. *)
MCFiles == {{c}, {c, d}}

MCSymmetry == Permutations(Spaces) \cup Permutations({f, g})

(* Retention: hours of two ticks, days of four, weeks of eight, and windows *)
(* that end within a slot.                                                  *)
MCTimes == 0 .. 12
MCHour(t) == t \div 2
MCDay(t) == t \div 4
MCWeek(t) == t \div 8

Thinned == INSTANCE Retention WITH
    Lag <- 1, Skew <- 1, Expirers <- {e1, e2}, MaxSnapshots <- 3,
    now <- tNow, taken <- tTaken, timeline <- tTimeline, doomed <- tDoomed

(* Merge: every triple of manifests on three paths, built up an entry at a  *)
(* time.                                                                    *)
M == INSTANCE Merge WITH Paths <- 1 .. 3, Files <- {f, g, h}

AddEntry(m, p, x) == m[p] = Absent /\ m' = [m EXCEPT ![p] = x]

AddEntries ==
    \E p \in 1 .. 3, x \in {f, g, h} :
        \/ AddEntry(mBase, p, x) /\ UNCHANGED <<mOurs, mTheirs>>
        \/ AddEntry(mOurs, p, x) /\ UNCHANGED <<mBase, mTheirs>>
        \/ AddEntry(mTheirs, p, x) /\ UNCHANGED <<mBase, mOurs>>

(* TreeUpdate: the paths a, a/b and A on a file system where case counts,   *)
(* and an ignored path, at which one side at most has a file.               *)
U == INSTANCE TreeUpdate WITH
    Paths <- 1 .. 4, Files <- {f, g, h, cut}, Local <- {h}, Torn <- {cut}, Ignored <- {4},
    Inside <- {<<2, 1>>}, Fold <- <<1, 2, 1, 4>>, CaseSensitive <- TRUE,
    kind <- uKind, base <- uBase, target <- uTarget, disk <- uDisk,
    conflicts <- uConflicts, goal <- uGoal, writes <- uWrites, removals <- uRemovals, phase <- uPhase

PartsInit ==
    /\ part \in {"collector", "timeline", "merge", "update"}
    /\ part # "collector" => tree = [s \in Spaces |-> {c}]
    /\ part # "timeline" => tNow = 0
    /\ Init /\ Thinned!Init
    /\ mBase = M!Empty /\ mOurs = M!Empty /\ mTheirs = M!Empty
    /\ IF part = "update"
       THEN /\ uBase \in [1 .. 4 -> {f, g, Absent}] /\ uBase[4] = Absent
            /\ uTarget \in [1 .. 4 -> {f, g, Absent}] /\ uTarget[4] # g
            /\ \E m \in [1 .. 4 -> {f, g, h, Absent}] :
                  m[4] \in {h, Absent} /\ uDisk = {U!Entry(p, m[p]) : p \in U!PathsOf(m)}
       ELSE uKind = "sync" /\ uDisk = {} /\ uBase = U!Empty /\ uTarget = U!Empty
    /\ U!Init

PartsNext ==
    \/ part = "collector" /\ CarefulNext /\ UNCHANGED <<part, tVars, mVars, uVars>>
    \/ part = "timeline" /\ Thinned!Next /\ UNCHANGED <<part, vars, mVars, uVars>>
    \/ part = "merge" /\ AddEntries /\ UNCHANGED <<part, vars, tVars, uVars>>
    \/ part = "update" /\ U!Next /\ UNCHANGED <<part, vars, tVars, mVars>>

PartsSpec == PartsInit /\ [][PartsNext]_<<part, vars, tVars, mVars, uVars>>

(* The types of the parts' variables, and no two files in one place. *)
PartsTypeOK ==
    CASE part = "collector" -> TypeOK
      [] part = "timeline" -> Thinned!TypeOK
      [] part = "update" -> U!TypeOK
      [] OTHER -> TRUE

(* One snapshot of every slot of the schedule is kept, and it is the newest *)
(* (client/expiry.go).                                                      *)
EverySlotIsCovered == part = "timeline" => Thinned!EverySlotIsCovered

(* Every path is decided by the rule of E44 (manifest/merge.go). *)
MergeFollowsRule == part = "merge" => M!FollowsRule(mBase, mOurs, mTheirs)

(* No change of either side is dropped without a reported conflict. *)
MergeLosesNothingSilently == part = "merge" => M!NoSilentLoss(mBase, mOurs, mTheirs)

(* A merge applied in part and taken up again ends in the same state. *)
MergeResumes == part = "merge" => M!Resumes(mBase, mOurs, mTheirs)

(* Diff names every path that has to be written or deleted, and its rename  *)
(* detection pairs paths one to one and exhaustively (manifest/diff.go).    *)
DiffIsExact ==
    part = "merge" => M!DiffIsComplete(mOurs, mTheirs) /\ M!RenamesPairUp(mOurs, mTheirs)

(* A sync or checkout that fails anywhere and is repeated leaves the        *)
(* directory as the first attempt would have, or reports the file that was  *)
(* cut short (client/sync.go, checkout.go).                                 *)
ArrivesAtGoal == part = "update" => U!ArrivesAtGoal

(* No sync takes an unrecorded file that its scan sees (client/sync.go).    *)
UnrecordedIsKept == U!UnrecordedIsKept

==============================================================================

-------------------------------- MODULE Merge --------------------------------
(***************************************************************************)
(* The three-way merge and the diff of manifests: src/manifest/merge.go    *)
(* and src/manifest/diff.go, both pure functions.  A manifest is a         *)
(* function from paths to file IDs, Absent where it has no entry.  Paths   *)
(* are naturals in place of the bytewise order of their names.             *)
(***************************************************************************)
EXTENDS Naturals, FiniteSets

CONSTANTS
    Paths,      \* the paths that occur in any manifest
    Files,      \* FileIDs: equal content has equal IDs
    Absent      \* no entry at this path

ASSUME PathAssumption == Paths \subseteq Nat
ASSUME AbsentAssumption == Absent \notin Files

Manifests == [Paths -> Files \cup {Absent}]

Empty == [p \in Paths |-> Absent]

PathsOf(m) == {p \in Paths : m[p] # Absent}

(* The entry a merge keeps at one path and the conflict it reports there,  *)
(* "none" when the path could be decided.                                  *)
Outcome(file, conflict) == [file |-> file, conflict |-> conflict]

(* Mutant of ResolveAdded: equal content added on both sides conflicts. *)
ResolveAddedAlways(ours, theirs) ==
    IF ours # Absent /\ theirs # Absent THEN Outcome(ours, "both added")
    ELSE Outcome(IF ours # Absent THEN ours ELSE theirs, "none")

(* A path that is not in the base: one side or both created it. *)
ResolveAdded(ours, theirs) ==
    IF ours # Absent /\ theirs # Absent
    THEN Outcome(ours, IF ours = theirs THEN "none" ELSE "both added")
    ELSE Outcome(IF ours # Absent THEN ours ELSE theirs, "none")

(* Mutant of ResolveEdited: an undecided path falls back to the base. *)
ResolveEditedBack(base, ours, theirs) ==
    CASE ours = theirs -> Outcome(ours, "none")
      [] ours # theirs /\ ours = base -> Outcome(theirs, "none")
      [] ours # theirs /\ ours # base /\ theirs = base -> Outcome(ours, "none")
      [] OTHER -> Outcome(base, "both changed")

(* A path that all three manifests have. *)
ResolveEdited(base, ours, theirs) ==
    CASE ours = theirs -> Outcome(ours, "none")
      [] ours # theirs /\ ours = base -> Outcome(theirs, "none")
      [] ours # theirs /\ ours # base /\ theirs = base -> Outcome(ours, "none")
      [] OTHER -> Outcome(ours, "both changed")

(* Mutant of ResolveDeleted: the deletion always stands. *)
ResolveDeletedAlways(base, survivor, kind) == Outcome(Absent, "none")

(* One side deleted what the base has: the deletion stands unless the      *)
(* survivor was changed.                                                   *)
ResolveDeleted(base, survivor, kind) ==
    IF survivor = base THEN Outcome(Absent, "none") ELSE Outcome(survivor, kind)

Resolve(base, ours, theirs) ==
    IF ours = Absent /\ theirs = Absent THEN Outcome(Absent, "none")
    ELSE IF base = Absent THEN ResolveAdded(ours, theirs)
    ELSE IF ours # Absent /\ theirs # Absent THEN ResolveEdited(base, ours, theirs)
    ELSE IF ours # Absent THEN ResolveDeleted(base, ours, "changed deleted")
    ELSE ResolveDeleted(base, theirs, "deleted changed")

MergeOf(base, ours, theirs) ==
    [p \in Paths |-> Resolve(base[p], ours[p], theirs[p]).file]

ConflictsOf(base, ours, theirs) ==
    {p \in Paths : Resolve(base[p], ours[p], theirs[p]).conflict # "none"}

------------------------------------------------------------------------------

(* Mutant of Changed: a file that is still there under another path does   *)
(* not count as changed.                                                   *)
ChangedUnlessMoved(before, after) ==
    {p \in PathsOf(before) \cap PathsOf(after) :
        before[p] # after[p] /\ \A q \in PathsOf(after) : after[q] # before[p]}

(* Diff: Changed, and the candidates that pairRenames starts from. *)
Changed(before, after) ==
    {p \in PathsOf(before) \cap PathsOf(after) : before[p] # after[p]}

Vanished(before, after) == PathsOf(before) \ PathsOf(after)

Appeared(before, after) == PathsOf(after) \ PathsOf(before)

(* Mutant of QueuePosition: the queue is read without taking from it. *)
QueueHead(S, m, p) == 0

(* The place of p among the paths of S that hold the same file in m. *)
QueuePosition(S, m, p) == Cardinality({q \in S : m[q] = m[p] /\ q < p})

(* pairRenames: every file has a queue of the paths it vanished from, and  *)
(* the paths it appeared at take from that queue in path order.            *)
Renamed(before, after) ==
    LET gone == Vanished(before, after)
        come == Appeared(before, after)
    IN  {r \in gone \X come :
            /\ before[r[1]] = after[r[2]]
            /\ QueuePosition(gone, before, r[1]) = QueuePosition(come, after, r[2])}

Added(before, after) ==
    Appeared(before, after) \ {r[2] : r \in Renamed(before, after)}

Removed(before, after) ==
    Vanished(before, after) \ {r[1] : r \in Renamed(before, after)}

(* What a sync writes and what it deletes to get from one to the other. *)
Incoming(before, after) ==
    Added(before, after) \cup Changed(before, after)
        \cup {r[2] : r \in Renamed(before, after)}

Outgoing(before, after) ==
    Removed(before, after) \cup {r[1] : r \in Renamed(before, after)}

------------------------------------------------------------------------------

(* The rule of E44 in one line per case, without looking at who has what:  *)
(* a side that left the base alone yields to the other; two different      *)
(* changes conflict, and then the file that exists is kept, ours first.    *)
Rule(base, ours, theirs) ==
    CASE ours = theirs -> Outcome(ours, "none")
      [] ours # theirs /\ ours = base -> Outcome(theirs, "none")
      [] ours # theirs /\ theirs = base -> Outcome(ours, "none")
      [] OTHER -> Outcome(IF ours # Absent THEN ours ELSE theirs,
                          CASE base = Absent -> "both added"
                            [] base # Absent /\ theirs = Absent -> "changed deleted"
                            [] base # Absent /\ ours = Absent -> "deleted changed"
                            [] OTHER -> "both changed")

(* The nested cases of resolve decide every path as the rule of E44 does,  *)
(* conflicts and their kinds included.                                     *)
FollowsRule(base, ours, theirs) ==
    \A p \in Paths :
        Resolve(base[p], ours[p], theirs[p]) = Rule(base[p], ours[p], theirs[p])

(* Neither side's change disappears without a report: a file or a deletion *)
(* that one side made and the result does not have is a reported conflict. *)
NoSilentLoss(base, ours, theirs) ==
    \A p \in Paths \ ConflictsOf(base, ours, theirs) :
        LET m == MergeOf(base, ours, theirs)
        IN  (ours[p] # base[p] => m[p] = ours[p]) /\ (theirs[p] # base[p] => m[p] = theirs[p])

(* A sync that stopped after writing or deleting any of its paths, and is  *)
(* run again from the same base, ends where it would have ended.           *)
Resumes(base, ours, theirs) ==
    LET goal == MergeOf(base, ours, theirs)
    IN  \A applied \in SUBSET Paths :
            MergeOf(base, [p \in Paths |-> IF p \in applied THEN goal[p] ELSE ours[p]], theirs)
                = goal

(* Writing what Diff calls incoming and deleting the rest turns one        *)
(* manifest into the other, and no path is both written and deleted.       *)
DiffIsComplete(before, after) ==
    /\ Incoming(before, after) \cap Outgoing(before, after) = {}
    /\ \A p \in Paths :
          after[p] = IF p \in Outgoing(before, after) THEN Absent
                     ELSE IF p \in Incoming(before, after) THEN after[p] ELSE before[p]

(* Renames pair each path once, as many as the file has on both sides, and *)
(* leave no file both added and removed.                                   *)
RenamesPairUp(before, after) ==
    LET pairs == Renamed(before, after)
    IN  /\ \A r, s \in pairs : r[1] = s[1] <=> r[2] = s[2]
        /\ \A p \in Added(before, after), q \in Removed(before, after) :
              after[p] # before[q]

==============================================================================

------------------------------ MODULE MergeProofs ------------------------------
(***************************************************************************)
(* What the run Store checks on a few paths and two files holds for        *)
(* any sets of paths and files: the merge decides by the rule of E44,      *)
(* loses nothing in silence and can be resumed, and the diff misses no     *)
(* path and pairs renames one to one.  Nothing here depends on the         *)
(* manifests being finite.                                                 *)
(***************************************************************************)
EXTENDS Merge, Integers, FiniteSetTheorems, WellFoundedInduction, TLAPS

(* What the working copy, the base or the other side has at a path. *)
Entries == Files \cup {Absent}

------------------------------------------------------------------------------
(* One path                                                                *)

(* The nested cases of threeWay.resolve and the rule of E44 agree on every *)
(* combination of entries, the kind of the conflict included.              *)
LEMMA ResolveIsRule ==
    ASSUME NEW base \in Entries, NEW ours \in Entries, NEW theirs \in Entries
    PROVE  Resolve(base, ours, theirs) = Rule(base, ours, theirs)
    <1> USE DEF Resolve, Rule, Outcome
    <1>1. CASE ours = theirs
      BY <1>1 DEF ResolveAdded, ResolveEdited
    <1>2. CASE ours # theirs /\ base = Absent
      BY <1>2 DEF ResolveAdded
    <1>3. CASE ours # theirs /\ base # Absent /\ ours # Absent /\ theirs # Absent
      BY <1>3 DEF ResolveEdited
    <1>4. CASE ours # theirs /\ base # Absent /\ ours = Absent
      <2>1. CASE theirs = base
        BY <1>4, <2>1 DEF ResolveDeleted
      <2>2. CASE theirs # base
        BY <1>4, <2>2 DEF ResolveDeleted
      <2>3. QED
        BY <2>1, <2>2
    <1>5. CASE ours # theirs /\ base # Absent /\ theirs = Absent
      <2>1. CASE ours = base
        BY <1>5, <2>1 DEF ResolveDeleted
      <2>2. CASE ours # base
        BY <1>5, <2>2 DEF ResolveDeleted
      <2>3. QED
        BY <2>1, <2>2
    <1>6. QED
      BY <1>1, <1>2, <1>3, <1>4, <1>5

(* A change of either side is kept where no conflict is reported. *)
LEMMA RuleKeepsChanges ==
    ASSUME NEW base \in Entries, NEW ours \in Entries, NEW theirs \in Entries,
           Rule(base, ours, theirs).conflict = "none"
    PROVE  /\ ours # base => Rule(base, ours, theirs).file = ours
           /\ theirs # base => Rule(base, ours, theirs).file = theirs
    BY DEF Rule, Outcome

(* Merging the merged entry once more with the same base and the same      *)
(* other side changes nothing: a conflict that kept our file, or took over *)
(* theirs because ours was gone, is decided the same way again.            *)
LEMMA RuleIsIdempotent ==
    ASSUME NEW base \in Entries, NEW ours \in Entries, NEW theirs \in Entries
    PROVE  Rule(base, Rule(base, ours, theirs).file, theirs).file
               = Rule(base, ours, theirs).file
    BY DEF Rule, Outcome

------------------------------------------------------------------------------
(* Whole manifests                                                         *)

LEMMA EntriesOfManifest ==
    ASSUME NEW m \in Manifests, NEW p \in Paths
    PROVE  m[p] \in Entries
    BY DEF Manifests, Entries

LEMMA MergeAtPath ==
    ASSUME NEW base \in Manifests, NEW ours \in Manifests, NEW theirs \in Manifests,
           NEW p \in Paths
    PROVE  MergeOf(base, ours, theirs)[p] = Rule(base[p], ours[p], theirs[p]).file
    BY ResolveIsRule, EntriesOfManifest DEF MergeOf

(* Every path of every merge is decided by the rule of E44 (merge.go).     *)
THEOREM EveryMergeFollowsRule ==
    ASSUME NEW base \in Manifests, NEW ours \in Manifests, NEW theirs \in Manifests
    PROVE  FollowsRule(base, ours, theirs)
    BY ResolveIsRule, EntriesOfManifest DEF FollowsRule

(* A file or a deletion that either side made and that the merge does not  *)
(* keep is a reported conflict, in manifests of any size.                  *)
THEOREM NoMergeLosesSilently ==
    ASSUME NEW base \in Manifests, NEW ours \in Manifests, NEW theirs \in Manifests
    PROVE  NoSilentLoss(base, ours, theirs)
    <1> SUFFICES ASSUME NEW p \in Paths \ ConflictsOf(base, ours, theirs)
                 PROVE  LET m == MergeOf(base, ours, theirs)
                        IN  /\ ours[p] # base[p] => m[p] = ours[p]
                            /\ theirs[p] # base[p] => m[p] = theirs[p]
      BY DEF NoSilentLoss
    <1>1. base[p] \in Entries /\ ours[p] \in Entries /\ theirs[p] \in Entries
      BY EntriesOfManifest
    <1>2. Rule(base[p], ours[p], theirs[p]).conflict = "none"
      BY <1>1, ResolveIsRule DEF ConflictsOf
    <1>3. QED
      BY <1>1, <1>2, RuleKeepsChanges, MergeAtPath

(* A sync that has written or deleted any of its paths and is run again    *)
(* from the same base ends where it would have ended (sync.go: the merge   *)
(* is computed anew from the directory it finds).                          *)
THEOREM EveryMergeResumes ==
    ASSUME NEW base \in Manifests, NEW ours \in Manifests, NEW theirs \in Manifests
    PROVE  Resumes(base, ours, theirs)
    <1> DEFINE goal == MergeOf(base, ours, theirs)
               half(applied) == [p \in Paths |-> IF p \in applied THEN goal[p] ELSE ours[p]]
    <1>1. ASSUME NEW p \in Paths PROVE goal[p] \in Entries
      BY MergeAtPath, EntriesOfManifest DEF Rule, Outcome, Entries
    <1>2. ASSUME NEW applied \in SUBSET Paths
          PROVE  MergeOf(base, half(applied), theirs) = goal
      <2>1. half(applied) \in Manifests
        BY <1>1, EntriesOfManifest DEF Manifests, Entries
      <2>2. ASSUME NEW p \in Paths
            PROVE  MergeOf(base, half(applied), theirs)[p] = goal[p]
        <3>1. MergeOf(base, half(applied), theirs)[p]
                  = Rule(base[p], half(applied)[p], theirs[p]).file
          BY <2>1, MergeAtPath
        <3>2. goal[p] = Rule(base[p], ours[p], theirs[p]).file
          BY MergeAtPath
        <3>3. half(applied)[p] \in {goal[p], ours[p]}
          OBVIOUS
        <3>4. base[p] \in Entries /\ ours[p] \in Entries /\ theirs[p] \in Entries
          BY EntriesOfManifest
        <3>5. CASE half(applied)[p] = goal[p]
          BY <3>1, <3>2, <3>4, <3>5, RuleIsIdempotent
        <3>6. CASE half(applied)[p] = ours[p]
          BY <3>1, <3>2, <3>6
        <3>7. QED
          BY <3>3, <3>5, <3>6
      <2>3. QED
        BY <2>2 DEF MergeOf
    <1>3. QED
      BY <1>2 DEF Resumes

------------------------------------------------------------------------------
(* The diff                                                                *)

(* Whatever the rename detection pairs up, writing the incoming paths and  *)
(* deleting the outgoing ones turns one manifest into the other.           *)
LEMMA IncomingIsNewOrChanged ==
    ASSUME NEW before \in Manifests, NEW after \in Manifests
    PROVE  /\ Incoming(before, after) = Appeared(before, after) \cup Changed(before, after)
           /\ Outgoing(before, after) = Vanished(before, after)
    <1>1. Renamed(before, after) \subseteq Vanished(before, after) \X Appeared(before, after)
      BY DEF Renamed
    <1>2. QED
      BY <1>1 DEF Incoming, Outgoing, Added, Removed

(* No path is missed by Diff and none is both written and deleted, with    *)
(* any number of paths and renames (diff.go).                              *)
THEOREM DiffCoversEveryPath ==
    ASSUME NEW before \in Manifests, NEW after \in Manifests
    PROVE  DiffIsComplete(before, after)
    <1>1. ASSUME NEW p \in Paths, p \in Vanished(before, after)
          PROVE  after[p] = Absent
      BY <1>1 DEF Vanished, PathsOf
    <1>2. ASSUME NEW p \in Paths, p \notin Vanished(before, after),
                 p \notin Appeared(before, after) \cup Changed(before, after)
          PROVE  after[p] = before[p]
      BY <1>2 DEF Vanished, Appeared, Changed, PathsOf
    <1>3. (Appeared(before, after) \cup Changed(before, after))
              \cap Vanished(before, after) = {}
      BY DEF Vanished, Appeared, Changed
    <1>4. QED
      BY <1>1, <1>2, <1>3, IncomingIsNewOrChanged DEF DiffIsComplete

------------------------------------------------------------------------------
(* The renames                                                             *)

Less == {ss \in Nat \X Nat : ss[1] < ss[2]}

(* A set of numbers has a least one: what stands in for an induction. *)
LEMMA LeastNumber ==
    ASSUME NEW S \in SUBSET Nat, S # {}
    PROVE  \E m \in S : \A k \in S : m <= k
  <1>1. IsWellFoundedOn(Less, Nat)
    BY NatLessThanWellFounded DEF OpToRel, Less
  <1>2. PICK m \in S : \A k \in S : ~ (<<k, m>> \in Less)
    BY <1>1, WFMin
  <1>3. \A k \in S : ~ (k < m)
    BY <1>2 DEF Less
  <1>4. QED
    BY <1>3

(* What stands before p in a queue of paths. *)
Before(Q, p) == {q \in Q : q < p}

LEMMA BeforeIsFinite ==
    ASSUME NEW Q \in SUBSET Nat, NEW p \in Nat
    PROVE  IsFiniteSet(Before(Q, p)) /\ Cardinality(Before(Q, p)) \in Nat
  <1>1. Before(Q, p) \in SUBSET (0 .. p)
    <2>1. ASSUME NEW q \in Before(Q, p) PROVE q \in 0 .. p
      <3>1. q \in Nat /\ q < p
        BY DEF Before
      <3>2. QED
        BY <3>1
    <2>2. QED
      BY <2>1
  <1>2. IsFiniteSet(0 .. p)
    BY FS_Interval
  <1>3. IsFiniteSet(Before(Q, p))
    BY <1>1, <1>2, FS_Subset
  <1>4. QED
    BY <1>3, FS_CardinalityType

(* Later paths of a queue have later places. *)
LEMMA LaterPlace ==
    ASSUME NEW Q \in SUBSET Nat, NEW p \in Q, NEW q \in Nat, p < q
    PROVE  Cardinality(Before(Q, p)) < Cardinality(Before(Q, q))
  <1>1. /\ IsFiniteSet(Before(Q, p)) /\ IsFiniteSet(Before(Q, q))
        /\ Cardinality(Before(Q, p)) \in Nat /\ Cardinality(Before(Q, q)) \in Nat
    BY BeforeIsFinite
  <1>2. /\ Before(Q, p) \in SUBSET Before(Q, q)
        /\ p \in Before(Q, q) /\ p \notin Before(Q, p)
    <2>1. p \in Nat
      OBVIOUS
    <2>2. \A k \in Q : k \in Nat /\ (k < p => k < q) /\ ~(p < p)
      BY <2>1
    <2>3. QED
      BY <2>2 DEF Before
  <1>3. Cardinality(Before(Q, p)) <= Cardinality(Before(Q, q))
    BY <1>1, <1>2, FS_Subset
  <1>4. Cardinality(Before(Q, p)) # Cardinality(Before(Q, q))
    BY <1>1, <1>2, FS_Subset
  <1>5. QED
    BY <1>1, <1>3, <1>4

(* A set of numbers below a bound has a greatest one. *)
LEMMA GreatestNumber ==
    ASSUME NEW S \in SUBSET Nat, S # {}, NEW n \in Nat, \A k \in S : k < n
    PROVE  \E m \in S : \A k \in S : k <= m
  <1> DEFINE T == {d \in Nat : \E k \in S : d = n - k}
  <1>1. T \in SUBSET Nat /\ T # {}
    <2>1. PICK k \in S : TRUE
      OBVIOUS
    <2>2. n - k \in T
      BY <2>1
    <2>3. QED
      BY <2>2
  <1>2. PICK d \in T : \A e \in T : d <= e
    <2> HIDE DEF T
    <2>1. QED
      BY <1>1, LeastNumber
  <1>3. PICK m \in S : d = n - m
    OBVIOUS
  <1>4. ASSUME NEW k \in S PROVE k <= m
    <2>1. n - k \in T
      BY <1>4
    <2>2. d <= n - k
      BY <1>2, <2>1
    <2>3. QED
      BY <1>3, <2>2
  <1>5. QED
    BY <1>4

(* A queue has no gaps: before the place of a path every place is taken. *)
LEMMA EveryPlaceIsTaken ==
    ASSUME NEW Q \in SUBSET Nat, NEW p \in Q, NEW i \in Nat, i <= Cardinality(Before(Q, p))
    PROVE  \E q \in Q : Cardinality(Before(Q, q)) = i
  <1> DEFINE Late == {q \in Q : i <= Cardinality(Before(Q, q))}
  <1>1. Late \in SUBSET Nat /\ Late # {}
    OBVIOUS
  <1>2. PICK q \in Late : \A k \in Late : q <= k
    <2> HIDE DEF Late
    <2>1. QED
      BY <1>1, LeastNumber
  <1>3. /\ q \in Q /\ q \in Nat /\ i <= Cardinality(Before(Q, q))
        /\ IsFiniteSet(Before(Q, q)) /\ Cardinality(Before(Q, q)) \in Nat
    BY BeforeIsFinite
  <1>4. CASE Before(Q, q) = {}
    <2>1. Cardinality(Before(Q, q)) = 0
      BY <1>4, FS_EmptySet
    <2>2. QED
      BY <1>3, <2>1
  <1>5. CASE Before(Q, q) # {}
    <2>1. Before(Q, q) \in SUBSET Nat /\ \A k \in Before(Q, q) : k < q
      BY DEF Before
    <2>2. PICK m \in Before(Q, q) : \A k \in Before(Q, q) : k <= m
      BY <1>3, <1>5, <2>1, GreatestNumber
    <2>3. m \in Q /\ m \in Nat /\ m < q
      BY <2>2 DEF Before
    <2>4. Before(Q, m) = Before(Q, q) \ {m}
      <3>1. ASSUME NEW k \in Q PROVE k < m <=> k < q /\ k # m
        <4>1. k \in Nat
          OBVIOUS
        <4>2. k < q => k <= m
          BY <2>2 DEF Before
        <4>3. QED
          BY <1>3, <2>3, <4>1, <4>2
      <3>2. QED
        BY <3>1 DEF Before
    <2>5. Cardinality(Before(Q, m)) = Cardinality(Before(Q, q)) - 1
      <3>1. Cardinality(Before(Q, q) \ {m}) = Cardinality(Before(Q, q)) - 1
        BY <1>3, <2>2, FS_RemoveElement
      <3>2. QED
        BY <2>4, <3>1
    <2>6. m \notin Late
      BY <1>2, <1>3, <2>3
    <2>7. Cardinality(Before(Q, m)) < i
      BY <1>3, <2>3, <2>5, <2>6
    <2>8. QED
      BY <1>3, <2>5, <2>7
  <1>6. QED
    BY <1>4, <1>5

(* The queue of the paths of S that hold x in m. *)
QueueOf(S, m, x) == {q \in S : m[q] = x}

LEMMA PositionIs ==
    ASSUME NEW S, NEW m, NEW p
    PROVE  QueuePosition(S, m, p) = Cardinality(Before(QueueOf(S, m, m[p]), p))
  <1>1. {q \in S : m[q] = m[p] /\ q < p} = Before(QueueOf(S, m, m[p]), p)
    BY DEF Before, QueueOf
  <1>2. QED
    BY <1>1 DEF QueuePosition

(* Two paths of one queue that have one place are one. *)
LEMMA PlacesDiffer ==
    ASSUME NEW S \in SUBSET Nat, NEW m, NEW p \in S, NEW q \in S, m[p] = m[q],
           QueuePosition(S, m, p) = QueuePosition(S, m, q)
    PROVE  p = q
  <1> DEFINE Q == QueueOf(S, m, m[p])
  <1>1. Q \in SUBSET Nat /\ p \in Q /\ q \in Q /\ p \in Nat /\ q \in Nat
    BY DEF QueueOf
  <1>2. Cardinality(Before(Q, p)) = Cardinality(Before(Q, q))
    BY PositionIs
  <1> HIDE DEF Q
  <1>3. Cardinality(Before(Q, p)) \in Nat
    BY <1>1, BeforeIsFinite
  <1>4. ~(p < q)
    BY <1>1, <1>2, <1>3, LaterPlace
  <1>5. ~(q < p)
    BY <1>1, <1>2, <1>3, LaterPlace
  <1>6. QED
    BY <1>1, <1>4, <1>5

(* The one queue has a path at every place before one the other has. *)
LEMMA PlaceIsMet ==
    ASSUME NEW S \in SUBSET Nat, NEW m, NEW p \in S, NEW i \in Nat,
           i <= QueuePosition(S, m, p)
    PROVE  \E q \in S : m[q] = m[p] /\ QueuePosition(S, m, q) = i
  <1> DEFINE Q == QueueOf(S, m, m[p])
  <1>1. Q \in SUBSET Nat /\ p \in Q
    BY DEF QueueOf
  <1>2. i <= Cardinality(Before(Q, p))
    BY PositionIs
  <1>3. PICK q \in Q : Cardinality(Before(Q, q)) = i
    <2> HIDE DEF Q
    <2>1. QED
      BY <1>1, <1>2, EveryPlaceIsTaken
  <1>4. q \in S /\ m[q] = m[p]
    BY DEF QueueOf
  <1>5. QueuePosition(S, m, q) = i
    BY <1>3, <1>4, PositionIs
  <1>6. QED
    BY <1>4, <1>5

(* Renames pair every path at most once, whatever files the manifests      *)
(* share, and leave no content both added and removed (diff.go:            *)
(* pairRenames).                                                           *)
THEOREM RenamesArePairs ==
    ASSUME NEW before \in Manifests, NEW after \in Manifests
    PROVE  RenamesPairUp(before, after)
  <1> DEFINE gone == Vanished(before, after)
             come == Appeared(before, after)
             pairs == Renamed(before, after)
  <1>1. gone \in SUBSET Nat /\ come \in SUBSET Nat
    BY PathAssumption DEF Vanished, Appeared, PathsOf
  <1>2. \A r : r \in pairs <=>
           /\ r \in gone \X come /\ before[r[1]] = after[r[2]]
           /\ QueuePosition(gone, before, r[1]) = QueuePosition(come, after, r[2])
    BY DEF Renamed
  <1>3. \A p \in Added(before, after) : p \in come /\ ~ \E r \in pairs : p = r[2]
    BY DEF Added
  <1>4. \A q \in Removed(before, after) : q \in gone /\ ~ \E r \in pairs : q = r[1]
    BY DEF Removed
  <1> HIDE DEF gone, come, pairs
  <1>5. /\ \A p, q \in come :
                after[p] = after[q]
                /\ QueuePosition(come, after, p) = QueuePosition(come, after, q) => p = q
        /\ \A p, q \in gone :
                before[p] = before[q]
                /\ QueuePosition(gone, before, p) = QueuePosition(gone, before, q) => p = q
    BY <1>1, PlacesDiffer
  <1>6. ASSUME NEW r \in pairs, NEW s \in pairs PROVE r[1] = s[1] <=> r[2] = s[2]
    <2>1. /\ r[1] \in gone /\ s[1] \in gone /\ r[2] \in come /\ s[2] \in come
          /\ before[r[1]] = after[r[2]] /\ before[s[1]] = after[s[2]]
          /\ QueuePosition(gone, before, r[1]) = QueuePosition(come, after, r[2])
          /\ QueuePosition(gone, before, s[1]) = QueuePosition(come, after, s[2])
      BY <1>2
    <2>2. CASE r[1] = s[1]
      <3>1. /\ after[r[2]] = after[s[2]]
            /\ QueuePosition(come, after, r[2]) = QueuePosition(come, after, s[2])
        BY <2>1, <2>2
      <3>2. r[2] = s[2]
        BY <1>5, <2>1, <3>1
      <3>3. QED
        BY <2>2, <3>2
    <2>3. CASE r[2] = s[2]
      <3>1. /\ before[r[1]] = before[s[1]]
            /\ QueuePosition(gone, before, r[1]) = QueuePosition(gone, before, s[1])
        BY <2>1, <2>3
      <3>2. r[1] = s[1]
        BY <1>5, <2>1, <3>1
      <3>3. QED
        BY <2>3, <3>2
    <2>4. QED
      BY <2>2, <2>3
  <1>7. ASSUME NEW p \in Added(before, after), NEW q \in Removed(before, after),
               after[p] = before[q]
        PROVE  FALSE
    <2>1. p \in come /\ q \in gone
      BY <1>3, <1>4
    <2>2. /\ QueuePosition(come, after, p) \in Nat
          /\ QueuePosition(gone, before, q) \in Nat
      <3>1. /\ QueueOf(come, after, after[p]) \in SUBSET Nat
            /\ QueueOf(gone, before, before[q]) \in SUBSET Nat
        BY <1>1 DEF QueueOf
      <3>2. QED
        BY <1>1, <2>1, <3>1, PositionIs, BeforeIsFinite
    <2>3. CASE QueuePosition(come, after, p) <= QueuePosition(gone, before, q)
      <3>1. PICK g \in gone : /\ before[g] = before[q]
                              /\ QueuePosition(gone, before, g) = QueuePosition(come, after, p)
        BY <1>1, <2>1, <2>2, <2>3, PlaceIsMet
      <3>2. <<g, p>> \in pairs
        BY <1>2, <1>7, <2>1, <3>1
      <3>3. QED
        BY <1>3, <3>2
    <2>4. CASE QueuePosition(gone, before, q) <= QueuePosition(come, after, p)
      <3>1. PICK c \in come : /\ after[c] = after[p]
                              /\ QueuePosition(come, after, c) = QueuePosition(gone, before, q)
        BY <1>1, <2>1, <2>2, <2>4, PlaceIsMet
      <3>2. <<q, c>> \in pairs
        BY <1>2, <1>7, <2>1, <3>1
      <3>3. QED
        BY <1>4, <3>2
    <2>5. QED
      BY <2>2, <2>3, <2>4
  <1>8. QED
    BY <1>6, <1>7 DEF RenamesPairUp, pairs

==============================================================================

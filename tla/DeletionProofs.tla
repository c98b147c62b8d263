---------------------------- MODULE DeletionProofs ----------------------------
(***************************************************************************)
(* What deletes and replaces: that the retention schedule leaves every     *)
(* slot of the timeline covered, that a clear or a checkout deletes        *)
(* nothing that cannot be restored, and that a sync or a checkout brings   *)
(* the directory where it set out for and takes nothing else with it.  All *)
(* for any times, paths, files, versions and numbers of processes.  And    *)
(* that the walks of a scan and of a clear leave no file out: the one      *)
(* records what the other does not report as ignored.                      *)
(*                                                                         *)
(* Thinned, Update and Walker are the components that are proved about     *)
(* beside DirtyCheck; what is assumed of the constants of the last two is  *)
(* UpdateConstants and WalkerConstants.                                    *)
(***************************************************************************)
EXTENDS DirtyCheck, MergeProofs, Schedule, SequenceTheorems, TLAPS

CONSTANTS
    Lag, Skew, Expirers, MaxSnapshots,      \* of Retention
    Inside, Fold, CaseSensitive, Local,
    Torn,                                   \* of TreeUpdate
    DoubleStar, SpaceDir, Bad, Links,       \* of Ignore
    Trees, IgnoreFiles, Name, Segment       \* of Ignore, what paths and patterns are of

VARIABLES
    now, taken, timeline, doomed,           \* of Retention
    kind, base, target, disk, conflicts, goal,
    writes, removals, phase,                \* of TreeUpdate
    tree, lines, rules, walk, todo,
    scanned, reported                       \* of Ignore

Thinned == INSTANCE Retention

Update == INSTANCE TreeUpdate

Walker == INSTANCE Ignore

------------------------------------------------------------------------------
(* The timeline                                                            *)

(* y is in the slot in which x competes at the time n. *)
SlotMate(n, x, y) ==
    /\ n - x.at < 0 => y.at = x.at
    /\ n - x.at \in 0 .. Hourly => HourOf(y.at) = HourOf(x.at)
    /\ n - x.at > Hourly /\ n - x.at <= Daily => DayOf(y.at) = DayOf(x.at)
    /\ n - x.at > Hourly /\ n - x.at > Daily => WeekOf(y.at) = WeekOf(x.at)

LEMMA SnapshotTimes == \A x \in Snapshots : x.at \in Times /\ x.at \in Nat /\ x.name \in Nat
    BY TimeAssumption, NameAssumption DEF Snapshots

LEMMA SlotMateIs ==
    ASSUME NEW x \in Snapshots, NEW y \in Snapshots, now \in Times
    PROVE  Thinned!SameSlot(x, y) <=> SlotMate(now, x, y)
  <1>1. now \in Nat /\ x.at \in Nat /\ Hourly \in Nat /\ Daily \in Nat
    BY SnapshotTimes, TimeAssumption, WindowAssumption
  <1> DEFINE age == now - x.at
  <1>2. CASE age < 0
    BY <1>1, <1>2 DEF SlotMate, Thinned!SameSlot
  <1>3. CASE age \in 0 .. Hourly
    BY <1>1, <1>3 DEF SlotMate, Thinned!SameSlot
  <1>4. CASE age > Hourly /\ age <= Daily
    BY <1>1, <1>4 DEF SlotMate, Thinned!SameSlot
  <1>5. CASE age > Hourly /\ age > Daily
    BY <1>1, <1>5 DEF SlotMate, Thinned!SameSlot
  <1>6. QED
    BY <1>1, <1>2, <1>3, <1>4, <1>5

(* Equal times are in one hour, one hour in one day, one day in one week. *)
LEMMA Nested ==
    ASSUME NEW s \in Times, NEW t \in Times
    PROVE  /\ s = t => HourOf(s) = HourOf(t)
           /\ HourOf(s) = HourOf(t) => DayOf(s) = DayOf(t)
           /\ DayOf(s) = DayOf(t) => WeekOf(s) = WeekOf(t)
    BY SlotsNest

LEMMA NewerIsTransitive ==
    ASSUME NEW x \in Snapshots, NEW y \in Snapshots, NEW z \in Snapshots
    PROVE  /\ Thinned!Newer(x, y) => ~Thinned!Newer(y, x) /\ x.at >= y.at
           /\ Thinned!Newer(x, y) /\ Thinned!Newer(y, z) => Thinned!Newer(x, z)
           /\ Thinned!Newer(x, y) /\ ~Thinned!Newer(z, y) => Thinned!Newer(x, z)
           /\ ~Thinned!Newer(x, y) => y.at >= x.at
           /\ ~Thinned!Newer(x, x)
    BY SnapshotTimes DEF Thinned!Newer

(* What is in the slot of a newer one in the slot is in the slot. *)
LEMMA SlotMateOfNewer ==
    ASSUME NEW n \in Times, NEW x \in Snapshots, NEW y \in Snapshots, NEW z \in Snapshots,
           y.at >= x.at, SlotMate(n, x, y), SlotMate(n, y, z)
    PROVE  SlotMate(n, x, z)
  <1>1. /\ n \in Nat /\ x.at \in Nat /\ y.at \in Nat /\ z.at \in Nat
        /\ Hourly \in Nat /\ Daily \in Nat /\ n - y.at <= n - x.at
        /\ x.at \in Times /\ y.at \in Times /\ z.at \in Times
    BY SnapshotTimes, TimeAssumption, WindowAssumption
  <1>2. /\ z.at = y.at => HourOf(z.at) = HourOf(y.at)
        /\ HourOf(z.at) = HourOf(y.at) => DayOf(z.at) = DayOf(y.at)
        /\ DayOf(z.at) = DayOf(y.at) => WeekOf(z.at) = WeekOf(y.at)
    BY <1>1, Nested
  <1>3. CASE n - x.at < 0
    BY <1>1, <1>3 DEF SlotMate
  <1>4. CASE n - x.at \in 0 .. Hourly
    BY <1>1, <1>2, <1>4 DEF SlotMate
  <1>5. CASE n - x.at > Hourly /\ n - x.at <= Daily
    BY <1>1, <1>2, <1>5 DEF SlotMate
  <1>6. CASE n - x.at > Hourly /\ n - x.at > Daily
    BY <1>1, <1>2, <1>6 DEF SlotMate
  <1>7. QED
    BY <1>1, <1>3, <1>4, <1>5, <1>6

(* Slots only grow: from a time to an hour, a day and a week. *)
LEMMA SlotMateLater ==
    ASSUME NEW n \in Times, NEW m \in Times, m >= n, NEW x \in Snapshots, NEW y \in Snapshots,
           SlotMate(n, x, y)
    PROVE  SlotMate(m, x, y)
  <1>1. /\ n \in Nat /\ m \in Nat /\ x.at \in Nat /\ y.at \in Nat
        /\ Hourly \in Nat /\ Daily \in Nat /\ n - x.at <= m - x.at
        /\ x.at \in Times /\ y.at \in Times
    BY SnapshotTimes, TimeAssumption, WindowAssumption
  <1>2. /\ y.at = x.at => HourOf(y.at) = HourOf(x.at)
        /\ HourOf(y.at) = HourOf(x.at) => DayOf(y.at) = DayOf(x.at)
        /\ DayOf(y.at) = DayOf(x.at) => WeekOf(y.at) = WeekOf(x.at)
    BY <1>1, Nested
  <1>3. CASE n - x.at < 0
    BY <1>1, <1>2, <1>3 DEF SlotMate
  <1>4. CASE n - x.at \in 0 .. Hourly
    BY <1>1, <1>2, <1>4 DEF SlotMate
  <1>5. CASE n - x.at > Hourly /\ n - x.at <= Daily
    BY <1>1, <1>2, <1>5 DEF SlotMate
  <1>6. CASE n - x.at > Hourly /\ n - x.at > Daily
    BY <1>1, <1>2, <1>6 DEF SlotMate
  <1>7. QED
    BY <1>1, <1>3, <1>4, <1>5, <1>6

(* Buckets are the slots of the time at which an expirer looked. *)
LEMMA BucketIsSlot ==
    ASSUME NEW t \in Times, NEW x \in Snapshots, NEW y \in Snapshots,
           Thinned!Bucket(x, t) = Thinned!Bucket(y, t)
    PROVE  t - x.at <= Weekly => SlotMate(t, x, y)
  <1>1. /\ t \in Nat /\ x.at \in Nat /\ y.at \in Nat
        /\ Hourly \in Nat /\ Daily \in Nat /\ Weekly \in Nat
    BY SnapshotTimes, TimeAssumption, WindowAssumption
  <1>2. CASE t - x.at < 0
    BY <1>1, <1>2 DEF SlotMate, Thinned!Bucket
  <1>3. CASE t - x.at \in 0 .. Hourly
    BY <1>1, <1>3 DEF SlotMate, Thinned!Bucket
  <1>4. CASE t - x.at > Hourly /\ t - x.at <= Daily
    BY <1>1, <1>4 DEF SlotMate, Thinned!Bucket
  <1>5. CASE t - x.at > Hourly /\ t - x.at > Daily
    BY <1>1, <1>5 DEF SlotMate, Thinned!Bucket
  <1>6. QED
    BY <1>1, <1>2, <1>3, <1>4, <1>5

(* The snapshots are typed; every slot is covered; and what an expirer is  *)
(* about to delete is outdone by a newer snapshot of its slot, which is in *)
(* the timeline now, whoever else deletes.                                 *)
DoomedIsOutdone ==
    \A e \in Expirers : \A m \in doomed[e] :
        now - m.at <= Weekly
            => \E z \in timeline : Thinned!Newer(z, m) /\ SlotMate(now, m, z)

SlotsAreCovered ==
    \A x \in taken :
        now - x.at <= Weekly
            => \E y \in timeline : ~Thinned!Newer(x, y) /\ SlotMate(now, x, y)

TimelineInv ==
    /\ now \in Times /\ taken \subseteq Snapshots /\ timeline \subseteq taken
    /\ doomed \in [Expirers -> SUBSET taken]
    /\ DoomedIsOutdone /\ SlotsAreCovered

LEMMA TimelineInit == Thinned!Init => TimelineInv
    BY DEF Thinned!Init, TimelineInv, DoomedIsOutdone, SlotsAreCovered

LEMMA SnapshotsAre == Thinned!Snapshots = Snapshots
    BY DEF Thinned!Snapshots, Snapshots

(* A snapshot covers itself. *)
LEMMA TakeKeeps ==
    ASSUME TimelineInv, NEW s \in Snapshots, Thinned!Take(s)
    PROVE  TimelineInv'
  <1>1. /\ s \notin taken /\ taken' = taken \cup {s} /\ timeline' = timeline \cup {s}
        /\ now' = now /\ doomed' = doomed
    BY DEF Thinned!Take
  <1>2. SlotMate(now, s, s) /\ ~Thinned!Newer(s, s)
    BY NewerIsTransitive DEF SlotMate
  <1>3. DoomedIsOutdone'
    BY <1>1 DEF TimelineInv, DoomedIsOutdone
  <1>4. SlotsAreCovered'
    BY <1>1, <1>2 DEF TimelineInv, SlotsAreCovered
  <1>5. QED
    BY <1>1, <1>3, <1>4 DEF TimelineInv

(* What Retain leaves out is out of the schedule or has a newer one in its *)
(* bucket. *)
LEMMA StartExpireKeeps ==
    ASSUME TimelineInv, NEW e \in Expirers, NEW t \in Times, Thinned!StartExpire(e, t)
    PROVE  TimelineInv'
  <1>1. /\ t <= now /\ doomed' = [doomed EXCEPT ![e] = timeline \ Thinned!Retain(timeline, t)]
        /\ now' = now /\ taken' = taken /\ timeline' = timeline
    BY DEF Thinned!StartExpire
  <1>2. now \in Nat /\ t \in Nat /\ Weekly \in Nat
    BY TimeAssumption, WindowAssumption DEF TimelineInv
  <1>3. ASSUME NEW m \in timeline \ Thinned!Retain(timeline, t), now - m.at <= Weekly
        PROVE  \E z \in timeline : Thinned!Newer(z, m) /\ SlotMate(now, m, z)
    <2>1. m \in Snapshots /\ m.at \in Nat /\ t - m.at <= Weekly
      BY <1>1, <1>2, <1>3, SnapshotTimes DEF TimelineInv
    <2>2. Thinned!Within(m, t)
      BY <1>2, <2>1, WindowAssumption DEF Thinned!Within, Thinned!Bucket
    <2>3. PICK z \in timeline : Thinned!Bucket(z, t) = Thinned!Bucket(m, t) /\ Thinned!Newer(z, m)
      BY <1>3, <2>2 DEF Thinned!Retain
    <2>4. z \in Snapshots
      BY <2>3 DEF TimelineInv
    <2>5. SlotMate(t, m, z)
      BY <2>1, <2>3, <2>4, BucketIsSlot
    <2>6. SlotMate(now, m, z)
      BY <1>1, <2>1, <2>4, <2>5, SlotMateLater DEF TimelineInv
    <2>7. QED
      BY <2>3, <2>6
  <1>4. doomed' \in [Expirers -> SUBSET taken']
    BY <1>1 DEF TimelineInv
  <1>5. DoomedIsOutdone'
    <2>1. ASSUME NEW d \in Expirers, NEW m \in doomed'[d], now - m.at <= Weekly
          PROVE  \E z \in timeline : Thinned!Newer(z, m) /\ SlotMate(now, m, z)
      <3>1. m \in doomed[d] \/ m \in timeline \ Thinned!Retain(timeline, t)
        BY <1>1, <2>1 DEF TimelineInv
      <3>2. QED
        BY <1>3, <2>1, <3>1 DEF TimelineInv, DoomedIsOutdone
    <2>2. QED
      BY <1>1, <2>1 DEF DoomedIsOutdone
  <1>6. QED
    BY <1>1, <1>4, <1>5 DEF TimelineInv, SlotsAreCovered

(* The one that outdoes the deleted one takes its place. *)
LEMMA DropRefKeeps ==
    ASSUME TimelineInv, NEW e \in Expirers, Thinned!DropRef(e)
    PROVE  TimelineInv'
  <1>1. PICK s \in doomed[e] :
           /\ timeline' = timeline \ {s} /\ doomed' = [doomed EXCEPT ![e] = @ \ {s}]
           /\ now' = now /\ taken' = taken
    BY DEF Thinned!DropRef
  <1>2. s \in taken /\ s \in Snapshots /\ s.at \in Nat
    BY <1>1, SnapshotTimes DEF TimelineInv
  <1>3. now \in Nat /\ Weekly \in Nat /\ now \in Times
    BY TimeAssumption, WindowAssumption DEF TimelineInv
  <1>4. ASSUME NEW x \in Snapshots, now - x.at <= Weekly, ~Thinned!Newer(x, s),
               SlotMate(now, x, s)
        PROVE  \E z \in timeline \ {s} : Thinned!Newer(z, s) /\ SlotMate(now, x, z)
    <2>1. s.at >= x.at /\ x.at \in Nat /\ now - s.at <= Weekly
      BY <1>2, <1>3, <1>4, NewerIsTransitive, SnapshotTimes
    <2>2. PICK z \in timeline : Thinned!Newer(z, s) /\ SlotMate(now, s, z)
      BY <1>1, <2>1 DEF TimelineInv, DoomedIsOutdone
    <2>3. z \in Snapshots /\ z # s
      BY <1>2, <2>2, NewerIsTransitive DEF TimelineInv
    <2>4. SlotMate(now, x, z)
      BY <1>2, <1>3, <1>4, <2>1, <2>2, <2>3, SlotMateOfNewer
    <2>5. QED
      BY <2>2, <2>3, <2>4
  <1>5. DoomedIsOutdone'
    <2>1. ASSUME NEW d \in Expirers, NEW m \in doomed'[d], now - m.at <= Weekly
          PROVE  \E z \in timeline \ {s} : Thinned!Newer(z, m) /\ SlotMate(now, m, z)
      <3>1. m \in doomed[d] /\ m \in Snapshots
        BY <1>1, <2>1 DEF TimelineInv
      <3>2. PICK z \in timeline : Thinned!Newer(z, m) /\ SlotMate(now, m, z)
        BY <2>1, <3>1 DEF TimelineInv, DoomedIsOutdone
      <3>3. CASE z # s
        BY <3>2, <3>3
      <3>4. CASE z = s
        <4>1. ~Thinned!Newer(m, s)
          BY <1>2, <3>1, <3>2, <3>4, NewerIsTransitive
        <4>2. PICK y \in timeline \ {s} : Thinned!Newer(y, s) /\ SlotMate(now, m, y)
          BY <1>4, <2>1, <3>1, <3>2, <3>4, <4>1
        <4>3. y \in Snapshots
          BY <4>2 DEF TimelineInv
        <4>4. Thinned!Newer(y, m)
          BY <1>2, <3>1, <3>2, <3>4, <4>2, <4>3, NewerIsTransitive
        <4>5. QED
          BY <4>2, <4>4
      <3>5. QED
        BY <3>3, <3>4
    <2>2. QED
      BY <1>1, <2>1 DEF DoomedIsOutdone
  <1>6. SlotsAreCovered'
    <2>1. ASSUME NEW x \in taken, now - x.at <= Weekly
          PROVE  \E y \in timeline \ {s} : ~Thinned!Newer(x, y) /\ SlotMate(now, x, y)
      <3>1. x \in Snapshots
        BY <2>1 DEF TimelineInv
      <3>2. PICK y \in timeline : ~Thinned!Newer(x, y) /\ SlotMate(now, x, y)
        BY <2>1 DEF TimelineInv, SlotsAreCovered
      <3>3. CASE y # s
        BY <3>2, <3>3
      <3>4. CASE y = s
        <4>1. PICK z \in timeline \ {s} : Thinned!Newer(z, s) /\ SlotMate(now, x, z)
          BY <1>4, <2>1, <3>1, <3>2, <3>4
        <4>2. z \in Snapshots
          BY <4>1 DEF TimelineInv
        <4>3. ~Thinned!Newer(x, z)
          BY <1>2, <3>1, <3>2, <3>4, <4>1, <4>2, NewerIsTransitive
        <4>4. QED
          BY <4>1, <4>3
      <3>5. QED
        BY <3>3, <3>4
    <2>2. QED
      BY <1>1, <2>1 DEF SlotsAreCovered
  <1>7. doomed' \in [Expirers -> SUBSET taken'] /\ timeline' \subseteq taken'
    BY <1>1 DEF TimelineInv
  <1>8. QED
    BY <1>1, <1>5, <1>6, <1>7 DEF TimelineInv

LEMMA TickKeeps ==
    ASSUME TimelineInv, NEW t \in Times, Thinned!Tick(t)
    PROVE  TimelineInv'
  <1>1. t > now /\ now' = t /\ taken' = taken /\ timeline' = timeline /\ doomed' = doomed
    BY DEF Thinned!Tick
  <1>2. t \in Nat /\ now \in Nat /\ now \in Times
    BY TimeAssumption DEF TimelineInv
  <1>3. \A x \in taken : /\ x \in Snapshots /\ x.at \in Nat
                         /\ t - x.at <= Weekly => now - x.at <= Weekly
    BY <1>1, <1>2, SnapshotTimes, WindowAssumption DEF TimelineInv
  <1>4. \A x, y \in taken : SlotMate(now, x, y) => SlotMate(t, x, y)
    BY <1>1, <1>2, <1>3, SlotMateLater
  <1>5. DoomedIsOutdone'
    <2>1. \A e \in Expirers : \A m \in doomed[e] : m \in taken
      BY DEF TimelineInv
    <2>2. QED
      BY <1>1, <1>3, <1>4, <2>1 DEF TimelineInv, DoomedIsOutdone
  <1>6. SlotsAreCovered'
    BY <1>1, <1>3, <1>4 DEF TimelineInv, SlotsAreCovered
  <1>7. QED
    BY <1>1, <1>5, <1>6 DEF TimelineInv

LEMMA TimelineNext == TimelineInv /\ [Thinned!Next]_(Thinned!vars) => TimelineInv'
  <1> SUFFICES ASSUME TimelineInv, [Thinned!Next]_(Thinned!vars) PROVE TimelineInv'
    OBVIOUS
  <1>1. ASSUME NEW e \in Expirers, Thinned!Stop(e) PROVE TimelineInv'
    BY <1>1 DEF Thinned!Stop, TimelineInv, DoomedIsOutdone, SlotsAreCovered
  <1>2. CASE UNCHANGED Thinned!vars
    BY <1>2 DEF Thinned!vars, TimelineInv, DoomedIsOutdone, SlotsAreCovered
  <1>3. QED
    BY <1>1, <1>2, TakeKeeps, StartExpireKeeps, DropRefKeeps, TickKeeps, SnapshotsAre
       DEF Thinned!Next

LEMMA AlwaysOutdone == Thinned!Spec => []TimelineInv
    BY TimelineInit, TimelineNext, PTL DEF Thinned!Spec

(* The types of the timeline and of what its expirers are about to delete. *)
THEOREM RetentionTypeCorrect == Thinned!Spec => []Thinned!TypeOK
  <1>1. TimelineInv => Thinned!TypeOK
    BY SnapshotsAre DEF TimelineInv, Thinned!TypeOK
  <1>2. QED
    BY <1>1, AlwaysOutdone, PTL

(* For any schedule, any times and any number of processes that expire     *)
(* with clocks that are behind, are cut short, and delete one ref at a     *)
(* time: every snapshot whose slot is within the schedule has one in the   *)
(* timeline that is as new and in the slot (expiry.go, Retain).            *)
THEOREM SlotsStayCovered == Thinned!Spec => []Thinned!EverySlotIsCovered
  <1>1. TimelineInv => Thinned!EverySlotIsCovered
    <2> SUFFICES ASSUME TimelineInv, NEW x \in taken, now - x.at <= Weekly
                 PROVE  \E y \in timeline : ~Thinned!Newer(x, y) /\ Thinned!SameSlot(x, y)
      BY DEF Thinned!EverySlotIsCovered
    <2>1. PICK y \in timeline : ~Thinned!Newer(x, y) /\ SlotMate(now, x, y)
      BY DEF TimelineInv, SlotsAreCovered
    <2>2. x \in Snapshots /\ y \in Snapshots /\ now \in Times
      BY DEF TimelineInv
    <2>3. QED
      BY <2>1, <2>2, SlotMateIs
  <1>2. QED
    BY <1>1, AlwaysOutdone, PTL

------------------------------------------------------------------------------
(* The walk from the refs of DirtyCheck.  Reachable follows the parents by *)
(* recursion; what holds for every version is shown by looking at the      *)
(* least one for which it would not.                                       *)

VersionText == [files : Manifests, parent : Nat]

(* Parents are put before their children. *)
OlderParents(vs) == \A v \in 1 .. Len(vs) : vs[v].parent \in 0 .. v - 1

VersionsFit(vs) == vs \in Seq(VersionText) /\ OlderParents(vs)

(* What the LET of Reachable is a choice of, for the first n versions. *)
IsBelow(vs, n, f) ==
    f = [v \in 0 .. n |-> IF v = 0 THEN {} ELSE {v} \cup f[vs[v].parent]]

NextBelow(vs, f, v) ==
    /\ v = 0 => f[v] = {}
    /\ v # 0 => f[v] = {v} \cup f[vs[v].parent]

LEMMA BelowIs ==
    ASSUME NEW vs, NEW n, NEW f, IsBelow(vs, n, f), NEW v \in 0 .. n
    PROVE  NextBelow(vs, f, v)
  <1>1. f[v] = IF v = 0 THEN {} ELSE {v} \cup f[vs[v].parent]
    BY DEF IsBelow
  <1>2. QED
    BY <1>1 DEF NextBelow

LEMMA BelowExists ==
    ASSUME NEW vs, OlderParents(vs), Len(vs) \in Nat
    PROVE  \A n \in 0 .. Len(vs) : \E f : IsBelow(vs, n, f)
  <1> DEFINE Wrong == {n \in 0 .. Len(vs) : ~ \E f : IsBelow(vs, n, f)}
  <1> SUFFICES ASSUME Wrong # {} PROVE FALSE
    OBVIOUS
  <1>1. PICK n \in Wrong : \A k \in Wrong : n <= k
    <2>1. Wrong \in SUBSET Nat
      OBVIOUS
    <2> HIDE DEF Wrong
    <2>2. QED
      BY <2>1, LeastNumber
  <1>2. CASE n = 0
    <2>1. IsBelow(vs, 0, [v \in 0 .. 0 |-> {}])
      BY DEF IsBelow
    <2>2. QED
      BY <1>2, <2>1
  <1>3. CASE n # 0
    <2>1. n \in 1 .. Len(vs) /\ n - 1 \in 0 .. Len(vs) /\ n - 1 \notin Wrong
      BY <1>1, <1>3
    <2>2. PICK g : IsBelow(vs, n - 1, g)
      BY <2>1
    <2> DEFINE f == [v \in 0 .. n |-> IF v = n THEN {n} \cup g[vs[n].parent] ELSE g[v]]
    <2>3. ASSUME NEW v \in 0 .. n
          PROVE  f[v] = IF v = 0 THEN {} ELSE {v} \cup f[vs[v].parent]
      <3>1. v # 0 => vs[v].parent \in 0 .. v - 1
        BY <2>1 DEF OlderParents
      <3>2. v # n => NextBelow(vs, g, v)
        BY <2>1, <2>2, BelowIs
      <3>3. v # 0 => f[vs[v].parent] = g[vs[v].parent]
        BY <2>1, <3>1
      <3>4. CASE v = n
        <4>1. f[v] = {n} \cup g[vs[n].parent]
          BY <3>4
        <4>2. QED
          BY <1>3, <3>3, <3>4, <4>1
      <3>5. CASE v # n
        <4>1. f[v] = g[v]
          BY <3>5
        <4>2. QED
          BY <3>2, <3>3, <3>5, <4>1 DEF NextBelow
      <3>6. QED
        BY <3>4, <3>5
    <2>4. IsBelow(vs, n, f)
      BY <2>3 DEF IsBelow
    <2>5. QED
      BY <2>4
  <1>4. QED
    BY <1>2, <1>3

LEMMA BelowUnique ==
    ASSUME NEW vs, OlderParents(vs), Len(vs) \in Nat, NEW n \in 0 .. Len(vs),
           NEW f, IsBelow(vs, n, f)
    PROVE  /\ \A v \in 0 .. n : f[v] \subseteq 1 .. v
           /\ \A g : IsBelow(vs, n, g) => g = f
  <1>0. \A v \in 0 .. n : NextBelow(vs, f, v) /\ (v # 0 => vs[v].parent \in 0 .. v - 1)
    <2>1. \A v \in 0 .. n : NextBelow(vs, f, v)
      BY BelowIs
    <2>2. QED
      BY <2>1 DEF OlderParents
  <1>1. \A v \in 0 .. n : f[v] \subseteq 1 .. v
    <2> DEFINE Wrong == {v \in 0 .. n : ~ (f[v] \subseteq 1 .. v)}
    <2> SUFFICES ASSUME Wrong # {} PROVE FALSE
      OBVIOUS
    <2>1. PICK v \in Wrong : \A k \in Wrong : v <= k
      <3>1. Wrong \in SUBSET Nat
        OBVIOUS
      <3> HIDE DEF Wrong
      <3>2. QED
        BY <3>1, LeastNumber
    <2>2. v # 0 /\ vs[v].parent \in 0 .. v - 1
      BY <1>0 DEF NextBelow
    <2>3. f[vs[v].parent] \subseteq 1 .. vs[v].parent
      BY <2>1, <2>2
    <2>4. f[v] = {v} \cup f[vs[v].parent] /\ v \in Nat
      BY <1>0, <2>2 DEF NextBelow
    <2>5. 1 .. vs[v].parent \subseteq 1 .. v /\ v \in 1 .. v
      BY <2>2, <2>4
    <2>6. f[v] \subseteq 1 .. v
      BY <2>3, <2>4, <2>5
    <2>7. QED
      BY <2>6
  <1>2. ASSUME NEW g, IsBelow(vs, n, g) PROVE g = f
    <2>0. \A v \in 0 .. n : NextBelow(vs, g, v)
      BY <1>2, BelowIs
    <2> DEFINE Wrong == {v \in 0 .. n : g[v] # f[v]}
    <2>1. ASSUME Wrong # {} PROVE FALSE
      <3>1. PICK v \in Wrong : \A k \in Wrong : v <= k
        <4>1. Wrong \in SUBSET Nat
          OBVIOUS
        <4> HIDE DEF Wrong
        <4>2. QED
          BY <2>1, <4>1, LeastNumber
      <3>2. v # 0 /\ vs[v].parent \in 0 .. v - 1
        BY <1>0, <2>0 DEF NextBelow
      <3>3. g[vs[v].parent] = f[vs[v].parent]
        BY <3>1, <3>2
      <3>4. QED
        BY <1>0, <2>0, <3>2, <3>3 DEF NextBelow
    <2>2. \A v \in 0 .. n : g[v] = f[v]
      BY <2>1
    <2>3. g = [v \in 0 .. n |-> g[v]] /\ f = [v \in 0 .. n |-> f[v]]
      BY <1>2 DEF IsBelow
    <2>4. [v \in 0 .. n |-> g[v]] = [v \in 0 .. n |-> f[v]]
      BY <2>2
    <2>5. QED
      BY <2>3, <2>4
  <1>3. QED
    BY <1>1, <1>2

(* The versions below version v in the store's versions vs. *)
Below(vs, v) == (CHOOSE f : IsBelow(vs, Len(vs), f))[v]

LEMMA BelowOne ==
    ASSUME NEW vs, OlderParents(vs), Len(vs) \in Nat, NEW v \in 0 .. Len(vs)
    PROVE  /\ Below(vs, v) = IF v = 0 THEN {} ELSE {v} \cup Below(vs, vs[v].parent)
           /\ Below(vs, v) \subseteq 1 .. v
  <1> DEFINE f == CHOOSE f : IsBelow(vs, Len(vs), f)
  <1>1. IsBelow(vs, Len(vs), f)
    BY BelowExists
  <1> HIDE DEF f
  <1>2. NextBelow(vs, f, v)
    BY <1>1, BelowIs
  <1>3. f[v] \subseteq 1 .. v
    BY <1>1, BelowUnique
  <1>4. QED
    BY <1>2, <1>3 DEF Below, f, NextBelow

LEMMA Appended ==
    ASSUME NEW vs, VersionsFit(vs), NEW e \in VersionText, e.parent \in 0 .. Len(vs)
    PROVE  LET ws == Append(vs, e)
           IN  /\ VersionsFit(ws) /\ Len(ws) = Len(vs) + 1 /\ Len(vs) \in Nat
               /\ ws[Len(vs) + 1] = e /\ \A n \in 1 .. Len(vs) : ws[n] = vs[n]
  <1> DEFINE ws == Append(vs, e)
  <1>1. vs \in Seq(VersionText)
    BY DEF VersionsFit
  <1>2. /\ Len(ws) = Len(vs) + 1 /\ Len(vs) \in Nat /\ ws \in Seq(VersionText)
        /\ ws[Len(vs) + 1] = e /\ \A n \in 1 .. Len(vs) : ws[n] = vs[n]
    BY <1>1
  <1>3. OlderParents(ws)
    <2>1. ASSUME NEW n \in 1 .. Len(ws) PROVE ws[n].parent \in 0 .. n - 1
      <3>1. n \in 1 .. Len(vs) => vs[n].parent \in 0 .. n - 1
        BY DEF VersionsFit, OlderParents
      <3>2. QED
        BY <1>2, <3>1
    <2>2. QED
      BY <2>1 DEF OlderParents
  <1>4. QED
    BY <1>2, <1>3 DEF VersionsFit

LEMMA BelowStays ==
    ASSUME NEW vs, VersionsFit(vs), NEW e \in VersionText, e.parent \in 0 .. Len(vs),
           NEW v \in 0 .. Len(vs)
    PROVE  /\ Below(Append(vs, e), v) = Below(vs, v)
           /\ Below(Append(vs, e), Len(vs) + 1) = {Len(vs) + 1} \cup Below(vs, e.parent)
  <1> DEFINE ws == Append(vs, e)
             f == CHOOSE f : IsBelow(vs, Len(vs), f)
             g == CHOOSE g : IsBelow(ws, Len(ws), g)
             h == [m \in 0 .. Len(vs) |-> g[m]]
  <1>1. /\ VersionsFit(ws) /\ Len(ws) = Len(vs) + 1 /\ Len(vs) \in Nat
        /\ ws[Len(vs) + 1] = e /\ \A n \in 1 .. Len(vs) : ws[n] = vs[n]
    BY Appended
  <1> HIDE DEF ws
  <1>2. IsBelow(vs, Len(vs), f)
    BY <1>1, BelowExists DEF VersionsFit
  <1>3. IsBelow(ws, Len(ws), g)
    BY <1>1, BelowExists DEF VersionsFit
  <1> HIDE DEF f, g
  <1>4. ASSUME NEW m \in 0 .. Len(vs)
        PROVE  h[m] = IF m = 0 THEN {} ELSE {m} \cup h[vs[m].parent]
    <2>1. NextBelow(ws, g, m)
      <3>1. m \in 0 .. Len(ws)
        BY <1>1
      <3>2. QED
        BY <1>3, <3>1, BelowIs
    <2>2. m # 0 => ws[m].parent = vs[m].parent /\ vs[m].parent \in 0 .. Len(vs)
      BY <1>1 DEF VersionsFit, OlderParents
    <2>3. QED
      BY <2>1, <2>2 DEF NextBelow
  <1>5. IsBelow(vs, Len(vs), h)
    BY <1>4 DEF IsBelow
  <1>6. h = f
    BY <1>1, <1>2, <1>5, BelowUnique DEF VersionsFit
  <1>7. \A m \in 0 .. Len(vs) : g[m] = f[m]
    BY <1>6
  <1>8. g[Len(vs) + 1] = {Len(vs) + 1} \cup g[e.parent]
    <2>1. NextBelow(ws, g, Len(ws)) /\ Len(ws) # 0
      BY <1>1, <1>3, BelowIs
    <2>2. QED
      BY <1>1, <2>1 DEF NextBelow
  <1>9. QED
    BY <1>7, <1>8 DEF Below, f, g, ws

(* What a store with the refs of st reaches in vs. *)
Met(vs, st) == Below(vs, st.main) \cup UNION {Below(vs, v) : v \in st.timeline}

MetFiles(vs, st) ==
    UNION {{vs[v].files[p] : p \in PathsOf(vs[v].files)} : v \in Met(vs, st)}

LEMMA ReachableIsMet ==
    ASSUME NEW st
    PROVE  Reachable(st) = Met(versions, st) /\ ReachableFiles(st) = MetFiles(versions, st)
  <1>1. Reachable(st) = Met(versions, st)
    BY DEF Reachable, Met, Below, IsBelow
  <1>2. QED
    BY <1>1 DEF ReachableFiles, MetFiles, FilesOf

LEMMA MetGrows ==
    ASSUME NEW vs, VersionsFit(vs), NEW e \in VersionText, e.parent \in 0 .. Len(vs),
           NEW st, st.main \in 0 .. Len(vs), st.timeline \subseteq 1 .. Len(vs)
    PROVE  /\ Met(Append(vs, e), st) = Met(vs, st) /\ Met(vs, st) \subseteq 1 .. Len(vs)
           /\ MetFiles(Append(vs, e), st) = MetFiles(vs, st)
  <1> DEFINE ws == Append(vs, e)
  <1>1. Len(vs) \in Nat /\ \A n \in 1 .. Len(vs) : ws[n] = vs[n]
    BY Appended
  <1> HIDE DEF ws
  <1>2. \A v \in 0 .. Len(vs) : Below(ws, v) = Below(vs, v) /\ Below(vs, v) \subseteq 1 .. v
    BY <1>1, BelowStays, BelowOne DEF ws, VersionsFit
  <1>3. \A v \in st.timeline : v \in 0 .. Len(vs)
    BY <1>1
  <1>4. \A v \in 0 .. Len(vs) : 1 .. v \subseteq 1 .. Len(vs)
    BY <1>1
  <1>5. Met(vs, st) \subseteq 1 .. Len(vs)
    <2>1. Below(vs, st.main) \subseteq 1 .. Len(vs)
      BY <1>2, <1>4
    <2>2. ASSUME NEW v \in st.timeline PROVE Below(vs, v) \subseteq 1 .. Len(vs)
      BY <1>2, <1>3, <1>4
    <2>3. QED
      BY <2>1, <2>2 DEF Met
  <1>6. Met(ws, st) = Met(vs, st)
    BY <1>2, <1>3 DEF Met
  <1>7. \A v \in Met(vs, st) : ws[v] = vs[v]
    BY <1>1, <1>5
  <1>8. MetFiles(ws, st) = MetFiles(vs, st)
    BY <1>6, <1>7 DEF MetFiles
  <1>9. QED
    BY <1>5, <1>6, <1>8 DEF ws

------------------------------------------------------------------------------
(* Types                                                                   *)

Points == {"idle", "head", "refs", "scan", "rehash", "chunks", "snapshot", "delete", "write",
           "remove"}

(* Where there are n versions. *)
StoresOf(n) ==
    [main : 0 .. n, timeline : SUBSET (1 .. n), versions : SUBSET (1 .. n),
     files : SUBSET Files, chunks : SUBSET UNION Files]

JobsOf(n) ==
    [kind : {"none", "clear", "checkout"}, target : 0 .. n, again : BOOLEAN,
     reached : SUBSET Files, todo : SUBSET Paths, hashed : Manifests, problem : BOOLEAN]

JobFits(n, j, a) ==
    /\ j \in JobsOf(n)
    /\ a # "write" => j.todo \cap Ignored = {}
    /\ \A p \in Paths \cap Ignored : j.hashed[p] = Absent
    /\ a \in {"head", "refs", "scan"} => j.hashed = Empty
    /\ a # "idle" => j.kind # "none"
    /\ a = "delete" => j.kind = "clear"
    /\ a \in {"write", "remove"} => j.kind = "checkout"
    /\ j.kind = "checkout" => j.target # 0

StoresFit(n, sts) ==
    /\ sts \in [Places -> StoresOf(n)]
    /\ sts["share"].main # 0

TypeInv ==
    /\ dir \in Manifests /\ cached \subseteq PathsOf(dir)
    /\ VersionsFit(versions) /\ head \in 0 .. Len(versions)
    /\ StoresFit(Len(versions), stores) /\ at \in Places
    /\ pc \in Points /\ JobFits(Len(versions), job, pc)

LEMMA MoreVersions ==
    ASSUME NEW n \in Nat
    PROVE  /\ \A sts : StoresFit(n, sts) => StoresFit(n + 1, sts)
           /\ \A j, a : JobFits(n, j, a) => JobFits(n + 1, j, a)
  <1>1. 0 .. n \subseteq 0 .. n + 1 /\ 1 .. n \subseteq 1 .. n + 1
    OBVIOUS
  <1>2. \A st \in StoresOf(n) : st \in StoresOf(n + 1)
    BY <1>1 DEF StoresOf
  <1>3. \A j \in JobsOf(n) : j \in JobsOf(n + 1)
    BY <1>1 DEF JobsOf
  <1>4. \A sts : sts \in [Places -> StoresOf(n)] => sts \in [Places -> StoresOf(n + 1)]
    BY <1>2
  <1>5. QED
    BY <1>3, <1>4 DEF StoresFit, JobFits

LEMMA NoJobFits ==
    ASSUME NEW n \in Nat PROVE JobFits(n, NoJob, "idle")
  <1>1. NoJob \in JobsOf(n) /\ NoJob.hashed = Empty /\ NoJob.todo = {} /\ NoJob.kind = "none"
    BY DEF NoJob, JobsOf, Empty, Manifests
  <1>2. QED
    BY <1>1 DEF JobFits, Empty

LEMMA TypeInit == Init => TypeInv
  <1> SUFFICES ASSUME Init PROVE TypeInv
    OBVIOUS
  <1>1. dir \in Manifests /\ cached \subseteq PathsOf(dir) /\ at \in Places /\ pc \in Points
    BY DEF Init, Empty, Manifests, Places, Points
  <1>2. /\ versions = <<[files |-> Empty, parent |-> 0]>>
        /\ [files |-> Empty, parent |-> 0] \in VersionText
    BY DEF Init, VersionText, Empty, Manifests
  <1>3. Len(versions) = 1 /\ versions \in Seq(VersionText) /\ versions[1].parent = 0
    BY <1>2
  <1>4. VersionsFit(versions) /\ head \in 0 .. Len(versions)
    BY <1>3 DEF VersionsFit, OlderParents, Init
  <1>5. EmptyStore \in StoresOf(1)
    <2>1. 0 \in 0 .. 1 /\ {} \in SUBSET (1 .. 1) /\ {} \in SUBSET Files /\ {} \in SUBSET UNION Files
      OBVIOUS
    <2>2. QED
      BY <2>1 DEF StoresOf, EmptyStore
  <1>6. StoresFit(1, stores)
    <2> DEFINE first == [EmptyStore EXCEPT !.main = 1, !.versions = {1}]
    <2>1. first \in StoresOf(1)
      <3>1. {1} \in SUBSET (1 .. 1) /\ 1 \in 0 .. 1
        OBVIOUS
      <3>2. QED
        BY <1>5, <3>1 DEF StoresOf
    <2>2. first.main = 1
      BY <1>5 DEF StoresOf
    <2>3. stores = [w \in Places |-> IF w = "share" THEN first ELSE EmptyStore]
      BY DEF Init
    <2> HIDE DEF first
    <2>4. stores \in [Places -> StoresOf(1)] /\ stores["share"] = first
      BY <1>5, <2>1, <2>3 DEF Places
    <2>5. QED
      BY <2>2, <2>4 DEF StoresFit
  <1>7. JobFits(1, job, pc)
    BY NoJobFits DEF Init
  <1>8. QED
    BY <1>1, <1>3, <1>4, <1>6, <1>7 DEF TypeInv

(* The steps of a command that leave the store alone. *)
TypeLocal ==
    /\ dir' \in Manifests /\ cached' \subseteq PathsOf(dir') /\ head' \in 0 .. Len(versions)
    /\ versions' = versions /\ stores' = stores /\ at' \in Places
    /\ pc' \in Points /\ JobFits(Len(versions), job', pc')

LEMMA TypeLocalKeeps == TypeInv /\ TypeLocal => TypeInv'
    BY DEF TypeInv, TypeLocal

LEMMA CountIsNatural == TypeInv => Len(versions) \in Nat
  <1>1. VersionsFit(versions) => Len(versions) \in Nat
    BY DEF VersionsFit
  <1>2. QED
    BY <1>1 DEF TypeInv

LEMMA TypeEnds ==
    ASSUME TypeInv, NEW when, Refuse(when) \/ Die
    PROVE  TypeLocal
  <1>1. /\ pc' = "idle" /\ job' = NoJob
        /\ UNCHANGED <<space, versions, stores, at>>
    BY DEF Refuse, Die, Finish
  <1>2. JobFits(Len(versions), job', pc')
    BY <1>1, NoJobFits, CountIsNatural
  <1>3. QED
    BY <1>1, <1>2 DEF TypeInv, TypeLocal, space, Points

LEMMA TypeChecks ==
    ASSUME TypeInv,
           \/ Begin("clear", 0) \/ \E v \in Reachable(store) : Begin("checkout", v)
           \/ ConfirmHead \/ ReadRefs \/ Scan \/ Rehashed \/ NeedsSnapshot \/ Passed
           \/ \E p \in Paths : Rehash(p)
    PROVE  TypeLocal
  <1> DEFINE n == Len(versions)
  <1>0. n \in Nat /\ UNCHANGED <<space, versions, stores, at>>
    BY CountIsNatural
       DEF Begin, ConfirmHead, ReadRefs, Scan, Rehash, Rehashed, NeedsSnapshot, Passed
  <1>1. ASSUME NEW k \in {"clear", "checkout"}, NEW v \in 0 .. n,
               k = "checkout" => v # 0, Begin(k, v)
        PROVE  pc' \in Points /\ JobFits(n, job', pc')
    <2>1. pc' = "head" /\ job' = [NoJob EXCEPT !.kind = k, !.target = v]
      BY <1>1 DEF Begin
    <2>2. /\ job' \in JobsOf(n) /\ job'.hashed = Empty /\ job'.todo = {}
          /\ job'.kind = k /\ job'.target = v
      BY <1>1, <2>1 DEF NoJob, JobsOf, Empty, Manifests
    <2>3. QED
      BY <1>1, <2>1, <2>2 DEF JobFits, Points, Empty
  <1>2. \A v \in Reachable(store) : v \in 0 .. n /\ v # 0
    <2>1. store \in StoresOf(n)
      BY DEF TypeInv, StoresFit, store
    <2>2. store.main \in 0 .. n /\ store.timeline \subseteq 1 .. n
      BY <2>1 DEF StoresOf
    <2>3. Met(versions, store) \subseteq 1 .. n
      <3>1. \A v \in 0 .. n : Below(versions, v) \subseteq 1 .. n
        <4>1. ASSUME NEW v \in 0 .. n PROVE Below(versions, v) \subseteq 1 .. n
          <5>1. Below(versions, v) \subseteq 1 .. v
            BY <1>0, BelowOne DEF TypeInv, VersionsFit
          <5>2. 1 .. v \subseteq 1 .. n
            BY <1>0
          <5>3. QED
            BY <5>1, <5>2
        <4>2. QED
          BY <4>1
      <3>2. \A v \in store.timeline : v \in 0 .. n
        BY <1>0, <2>2
      <3>3. QED
        BY <2>2, <3>1, <3>2 DEF Met
    <2>4. QED
      BY <1>0, <2>3, ReachableIsMet
  <1>3. CASE Begin("clear", 0) \/ \E v \in Reachable(store) : Begin("checkout", v)
    <2>1. pc' \in Points /\ JobFits(n, job', pc')
      BY <1>0, <1>1, <1>2, <1>3
    <2>2. QED
      BY <1>0, <2>1 DEF TypeInv, TypeLocal, space
  <1>4. CASE ConfirmHead \/ NeedsSnapshot \/ Rehashed
    <2>1. pc' \in Points /\ JobFits(n, job', pc')
      BY <1>4 DEF ConfirmHead, NeedsSnapshot, Rehashed, TypeInv, JobFits, Points
    <2>2. QED
      BY <1>0, <2>1 DEF TypeInv, TypeLocal, space
  <1>5. CASE ReadRefs
    <2>1. pc = "refs" /\ pc' = "scan" /\ job' = [job EXCEPT !.reached = ReachableFiles(store)]
          /\ ReachableFiles(store) \subseteq store.files
      BY <1>5 DEF ReadRefs
    <2>2. store.files \subseteq Files
      BY DEF TypeInv, StoresFit, store, StoresOf
    <2>3. job \in JobsOf(n)
      BY DEF TypeInv, JobFits
    <2>4. job' \in JobsOf(n) /\ job'.hashed = job.hashed /\ job'.todo = job.todo
          /\ job'.kind = job.kind /\ job'.target = job.target
      BY <2>1, <2>2, <2>3 DEF JobsOf
    <2>5. JobFits(n, job', pc') /\ pc' \in Points
      BY <2>1, <2>4 DEF TypeInv, JobFits, Points
    <2>6. QED
      BY <1>0, <2>5 DEF TypeInv, TypeLocal, space
  <1>6. CASE Scan
    <2>1. pc = "scan" /\ pc' = "rehash" /\ job' = [job EXCEPT !.todo = Scanned]
      BY <1>6 DEF Scan
    <2>2. job \in JobsOf(n) /\ Scanned \subseteq Paths \ Ignored
      BY DEF TypeInv, JobFits, Scanned, PathsOf
    <2>3. job' \in JobsOf(n) /\ job'.hashed = job.hashed /\ job'.todo = Scanned
          /\ job'.kind = job.kind /\ job'.target = job.target
      BY <2>1, <2>2 DEF JobsOf
    <2>4. JobFits(n, job', pc') /\ pc' \in Points
      BY <2>1, <2>2, <2>3 DEF TypeInv, JobFits, Points
    <2>5. QED
      BY <1>0, <2>4 DEF TypeInv, TypeLocal, space
  <1>7. ASSUME NEW p \in Paths, Rehash(p) PROVE TypeLocal
    <2>1. /\ pc = "rehash" /\ pc' = pc /\ p \in job.todo
          /\ job' = [job EXCEPT !.todo = @ \ {p}, !.hashed[p] = dir[p],
                                !.problem = @ \/ dir[p] = Absent]
      BY <1>7 DEF Rehash, IsFirst
    <2>2. job \in JobsOf(n) /\ dir[p] \in Files \cup {Absent}
      BY DEF TypeInv, JobFits, Manifests
    <2>3. /\ job' \in JobsOf(n) /\ job'.hashed = [job.hashed EXCEPT ![p] = dir[p]]
          /\ job'.todo = job.todo \ {p} /\ job'.kind = job.kind /\ job'.target = job.target
      BY <2>1, <2>2 DEF JobsOf, Manifests
    <2>4. p \notin Ignored
      BY <2>1 DEF TypeInv, JobFits
    <2>5. JobFits(n, job', pc') /\ pc' \in Points
      <3>1. \A q \in Paths \cap Ignored : job'.hashed[q] = Absent
        BY <2>2, <2>3, <2>4 DEF TypeInv, JobFits, JobsOf, Manifests
      <3>2. QED
        BY <2>1, <2>3, <3>1 DEF TypeInv, JobFits, Points
    <2>6. QED
      BY <1>0, <2>5 DEF TypeInv, TypeLocal, space
  <1>8. CASE Passed
    <2>1. /\ pc = "chunks"
          /\ \/ /\ job.kind = "clear" /\ pc' = "delete" /\ job' = [job EXCEPT !.todo = Candidates]
             \/ /\ job.kind # "clear" /\ pc' = "write"
                /\ job' = [job EXCEPT !.todo = PathsOf(Target)]
      BY <1>8 DEF Passed
    <2>2. /\ job \in JobsOf(n) /\ PathsOf(Target) \subseteq Paths
          /\ Candidates \subseteq Paths \ Ignored
      BY DEF TypeInv, JobFits, PathsOf, Candidates
    <2>3. /\ job' \in JobsOf(n) /\ job'.hashed = job.hashed
          /\ (pc' = "delete" => job'.todo = Candidates)
          /\ job'.kind = job.kind /\ job'.target = job.target
      BY <2>1, <2>2 DEF JobsOf
    <2>4. JobFits(n, job', pc') /\ pc' \in Points
      BY <2>1, <2>2, <2>3 DEF TypeInv, JobFits, Points, JobsOf
    <2>5. QED
      BY <1>0, <2>4 DEF TypeInv, TypeLocal, space
  <1>9. QED
    BY <1>3, <1>4, <1>5, <1>6, <1>7, <1>8

LEMMA TypeApplies ==
    ASSUME TypeInv, Written \/ PointHead \/ \E p \in Paths : DeleteFile(p) \/ WriteFile(p)
    PROVE  TypeLocal
  <1> DEFINE n == Len(versions)
  <1>0. job \in JobsOf(n) /\ n \in Nat /\ dir \in [Paths -> Files \cup {Absent}]
    BY CountIsNatural DEF TypeInv, JobFits, Manifests
  <1>1. ASSUME NEW p \in Paths, job' = [job EXCEPT !.todo = @ \ {p}], pc' = pc
        PROVE  JobFits(n, job', pc')
    <2>1. /\ job' \in JobsOf(n) /\ job'.hashed = job.hashed /\ job'.todo = job.todo \ {p}
          /\ job'.kind = job.kind /\ job'.target = job.target
      BY <1>0, <1>1 DEF JobsOf
    <2>2. QED
      BY <1>1, <2>1 DEF TypeInv, JobFits
  <1>2. ASSUME NEW p \in Paths, DeleteFile(p) PROVE TypeLocal
    <2>1. /\ dir' = [dir EXCEPT ![p] = Absent] /\ cached' = cached \ {p}
          /\ job' = [job EXCEPT !.todo = @ \ {p}]
          /\ UNCHANGED <<head, versions, stores, at, pc>>
      BY <1>2 DEF DeleteFile
    <2>2. dir' \in Manifests /\ cached' \subseteq PathsOf(dir')
      BY <1>0, <2>1 DEF TypeInv, Manifests, PathsOf
    <2>3. QED
      BY <1>1, <2>1, <2>2 DEF TypeInv, TypeLocal
  <1>3. ASSUME NEW p \in Paths, WriteFile(p) PROVE TypeLocal
    <2>1. /\ dir' = [dir EXCEPT ![p] = Target[p]] /\ cached' = cached \cup {p}
          /\ job' = [job EXCEPT !.todo = @ \ {p}] /\ Target[p] \in store.files
          /\ UNCHANGED <<head, versions, stores, at, pc>>
      BY <1>3 DEF WriteFile
    <2>2. Target[p] \in Files /\ Target[p] # Absent
      BY <2>1, AbsentAssumption DEF TypeInv, StoresFit, store, StoresOf
    <2>3. dir' \in Manifests /\ cached' \subseteq PathsOf(dir')
      BY <1>0, <2>1, <2>2 DEF TypeInv, Manifests, PathsOf
    <2>4. QED
      BY <1>1, <2>1, <2>3 DEF TypeInv, TypeLocal
  <1>4. CASE Written
    <2>1. /\ pc = "write" /\ pc' = "remove"
          /\ job' = [job EXCEPT !.todo = Scanned \ PathsOf(Target)]
          /\ UNCHANGED <<space, versions, stores, at>>
      BY <1>4 DEF Written
    <2>2. Scanned \subseteq Paths \ Ignored
      BY DEF Scanned, PathsOf
    <2>3. /\ job' \in JobsOf(n) /\ job'.hashed = job.hashed /\ job'.todo \subseteq Scanned
          /\ job'.kind = job.kind /\ job'.target = job.target
      BY <1>0, <2>1, <2>2 DEF JobsOf
    <2>4. JobFits(n, job', pc') /\ pc' \in Points
      BY <2>1, <2>2, <2>3 DEF TypeInv, JobFits, Points
    <2>5. QED
      BY <2>1, <2>4 DEF TypeInv, TypeLocal, space
  <1>5. CASE PointHead
    <2>1. /\ pc = "remove" /\ head' = job.target /\ pc' = "idle" /\ job' = NoJob
          /\ UNCHANGED <<dir, cached, versions, stores, at>>
      BY <1>5 DEF PointHead, Finish
    <2>2. job.target \in 0 .. n /\ job.target # 0
      BY <1>0, <2>1 DEF TypeInv, JobFits, JobsOf
    <2>3. head' \in 1 .. n /\ JobFits(n, job', pc') /\ pc' \in Points
      BY <1>0, <2>1, <2>2, NoJobFits DEF Points
    <2>4. QED
      BY <2>1, <2>3 DEF TypeInv, TypeLocal
  <1>6. QED
    BY <1>2, <1>3, <1>4, <1>5

(* A version is put. *)
LEMMA TypePuts ==
    ASSUME TypeInv, NEW e \in VersionText, e.parent \in 0 .. Len(versions),
           versions' = Append(versions, e)
    PROVE  /\ VersionsFit(versions') /\ Len(versions') = Len(versions) + 1
           /\ head \in 0 .. Len(versions') /\ Len(versions') \in 1 .. Len(versions')
           /\ StoresFit(Len(versions'), stores) /\ JobFits(Len(versions'), job, pc)
  <1>1. VersionsFit(versions') /\ Len(versions') = Len(versions) + 1 /\ Len(versions) \in Nat
    BY Appended DEF TypeInv
  <1>2. QED
    BY <1>1, MoreVersions DEF TypeInv

LEMMA StoreChanges ==
    ASSUME NEW n \in Nat, StoresFit(n, stores), NEW w \in Places, NEW st \in StoresOf(n),
           st.main # 0 \/ w # "share", stores' = [stores EXCEPT ![w] = st]
    PROVE  StoresFit(n, stores')
    BY DEF StoresFit, Places

LEMMA RecordPuts ==
    ASSUME TypeInv, Record
    PROVE  /\ VersionsFit(versions') /\ Len(versions') = Len(versions) + 1
           /\ Len(versions') <= MaxVersions
           /\ head' \in 1 .. Len(versions') /\ cached' \subseteq PathsOf(dir)
           /\ StoresFit(Len(versions'), stores') /\ JobFits(Len(versions'), job, pc)
           /\ \E st : stores' = [stores EXCEPT ![at] = st]
  <1> DEFINE v == Len(versions) + 1
             e == [files |-> [p \in Paths |-> IF p \in Scanned THEN dir[p] ELSE Absent],
                   parent |-> 0]
             st == [Uploaded(store) EXCEPT !.versions = @ \cup {v}, !.timeline = @ \cup {v}]
  <1>1. /\ v <= MaxVersions /\ versions' = Append(versions, e)
        /\ stores' = [stores EXCEPT ![at] = st]
        /\ head' = v /\ cached' = Scanned
    BY DEF Record
  <1>2. Len(versions) \in Nat
    BY CountIsNatural
  <1>3. e \in VersionText /\ e.parent \in 0 .. Len(versions)
    BY <1>2 DEF VersionText, TypeInv, Manifests
  <1>4. /\ VersionsFit(versions') /\ Len(versions') = v /\ StoresFit(v, stores)
        /\ JobFits(v, job, pc) /\ v \in 1 .. v
    BY <1>1, <1>2, <1>3, TypePuts
  <1>5. st \in StoresOf(v) /\ st.main = store.main
    <2>1. store \in StoresOf(v)
      BY <1>4 DEF StoresFit, TypeInv, store
    <2> DEFINE sent == {dir[p] : p \in Scanned \ cached}
    <2>2. sent \subseteq Files /\ UNION sent \subseteq UNION Files
      BY DEF Scanned, PathsOf, TypeInv, Manifests
    <2> HIDE DEF sent
    <2>3. Uploaded(store) = [store EXCEPT !.files = @ \cup sent, !.chunks = @ \cup UNION sent]
      BY DEF Uploaded, sent
    <2>4. Uploaded(store) \in StoresOf(v) /\ Uploaded(store).main = store.main
      BY <2>1, <2>2, <2>3 DEF StoresOf
    <2>5. QED
      BY <1>4, <2>4 DEF StoresOf
  <1>6. StoresFit(v, stores')
    <2>1. at = "share" => st.main # 0
      BY <1>5 DEF TypeInv, StoresFit, store
    <2>2. st.main # 0 \/ at # "share"
      BY <2>1
    <2>3. v \in Nat /\ at \in Places /\ stores' = [stores EXCEPT ![at] = st]
      BY <1>1, <1>2 DEF TypeInv
    <2> HIDE DEF st, v
    <2>4. QED
      BY <1>4, <1>5, <2>2, <2>3, StoreChanges
  <1>7. cached' \subseteq PathsOf(dir)
    BY <1>1 DEF Scanned
  <1> HIDE DEF st
  <1>8. QED
    BY <1>1, <1>4, <1>6, <1>7

LEMMA TypeRecords ==
    ASSUME TypeInv, SnapshotUnversioned \/ Snapshot
    PROVE  TypeInv'
  <1>1. Record /\ UNCHANGED <<dir, at>>
    BY DEF SnapshotUnversioned, Snapshot
  <1>2. /\ VersionsFit(versions') /\ Len(versions') = Len(versions) + 1
        /\ head' \in 1 .. Len(versions') /\ cached' \subseteq PathsOf(dir)
        /\ StoresFit(Len(versions'), stores') /\ JobFits(Len(versions'), job, pc)
    BY <1>1, RecordPuts
  <1>3. pc' \in Points /\ JobFits(Len(versions'), job', pc')
    <2>1. CASE SnapshotUnversioned
      <3>1. /\ pc = "snapshot" /\ pc' = "head"
            /\ job' = [NoJob EXCEPT !.kind = job.kind, !.target = job.target, !.again = TRUE]
        BY <2>1 DEF SnapshotUnversioned
      <3> DEFINE n == Len(versions')
      <3>2. job \in JobsOf(n)
        BY <1>2 DEF JobFits
      <3>3. /\ job' \in JobsOf(n) /\ job'.hashed = Empty /\ job'.todo = {}
            /\ job'.kind = job.kind /\ job'.target = job.target
        BY <3>1, <3>2 DEF NoJob, JobsOf, Empty, Manifests
      <3>4. QED
        BY <1>2, <3>1, <3>3 DEF JobFits, Points, Empty
    <2>2. CASE Snapshot
      BY <1>2, <2>2 DEF Snapshot, TypeInv
    <2>3. QED
      BY <2>1, <2>2
  <1>4. QED
    BY <1>1, <1>2, <1>3 DEF TypeInv

LEMMA CommitPuts ==
    ASSUME TypeInv, NEW p \in Paths, NEW x \in Files \cup {Absent}, OthersCommit(p, x)
    PROVE  \E e \in VersionText, st \in StoresOf(Len(versions) + 1) :
              /\ e.parent = stores["share"].main /\ e.parent \in 0 .. Len(versions)
              /\ versions' = Append(versions, e) /\ stores' = [stores EXCEPT !["share"] = st]
              /\ st.main = Len(versions) + 1 /\ st.timeline = stores["share"].timeline
              /\ st.versions = stores["share"].versions \cup {Len(versions) + 1}
              /\ stores["share"].files \subseteq st.files
              /\ stores["share"].chunks \subseteq st.chunks
  <1> DEFINE n == Len(versions)
             old == stores["share"]
             m == [versions[old.main].files EXCEPT ![p] = x]
             e == [files |-> m, parent |-> old.main]
             chunks == IF x = Absent THEN {} ELSE x
             st == [old EXCEPT !.main = n + 1, !.versions = @ \cup {n + 1},
                               !.files = @ \cup ({x} \ {Absent}), !.chunks = @ \cup chunks]
  <1>1. versions' = Append(versions, e) /\ stores' = [stores EXCEPT !["share"] = st]
    BY DEF OthersCommit
  <1>2. n \in Nat /\ old \in StoresOf(n) /\ old.main # 0 /\ StoresFit(n + 1, stores)
    BY CountIsNatural, MoreVersions DEF TypeInv, StoresFit, Places
  <1>3. old.main \in 1 .. n /\ old.main \in 0 .. n
    BY <1>2 DEF StoresOf
  <1>4. versions[old.main] \in VersionText
    BY <1>3, ElementOfSeq DEF TypeInv, VersionsFit
  <1>5. e \in VersionText /\ e.parent = old.main
    <2>1. versions[old.main].files \in Manifests
      BY <1>4 DEF VersionText
    <2>2. m \in Manifests
      BY <2>1 DEF Manifests
    <2> HIDE DEF m
    <2>3. QED
      BY <1>3, <2>2 DEF VersionText
  <1>6. old \in StoresOf(n + 1)
    BY <1>2 DEF StoresFit, Places
  <1>7. chunks \subseteq UNION Files /\ {x} \ {Absent} \subseteq Files /\ n + 1 \in 0 .. n + 1
        /\ {n + 1} \subseteq 1 .. n + 1
    BY <1>2
  <1> HIDE DEF chunks, e, old
  <1>8. /\ st \in StoresOf(n + 1) /\ st.main = n + 1 /\ st.timeline = old.timeline
        /\ st.versions = old.versions \cup {n + 1} /\ old.files \subseteq st.files
        /\ old.chunks \subseteq st.chunks
    BY <1>6, <1>7 DEF StoresOf
  <1> HIDE DEF st
  <1>9. QED
    BY <1>1, <1>3, <1>5, <1>8 DEF old

LEMMA TypeOthers ==
    ASSUME TypeInv,
           \/ \E p \in Paths, x \in Files \cup {Absent} : Edit(p, x) \/ OthersCommit(p, x)
           \/ \E v \in 1 .. Len(versions) : Expire(v)
           \/ \E k \in UNION Files : LoseChunk(k)
           \/ Collect \/ Mount
    PROVE  TypeInv'
  <1> DEFINE n == Len(versions)
  <1>0. /\ n \in Nat /\ StoresFit(n, stores) /\ stores["share"] \in StoresOf(n)
        /\ stores["share"].main # 0
    BY CountIsNatural DEF TypeInv, StoresFit, Places
  <1>1. ASSUME NEW p \in Paths, NEW x \in Files \cup {Absent}, Edit(p, x) PROVE TypeInv'
    <2>1. /\ dir' = [dir EXCEPT ![p] = x] /\ cached' = cached \ {p}
          /\ UNCHANGED <<head, versions, stores, at, pc, job>>
      BY <1>1 DEF Edit
    <2>2. dir' \in Manifests /\ cached' \subseteq PathsOf(dir')
      BY <2>1 DEF TypeInv, Manifests, PathsOf
    <2>3. QED
      BY <2>1, <2>2 DEF TypeInv
  <1>2. ASSUME NEW p \in Paths, NEW x \in Files \cup {Absent}, OthersCommit(p, x) PROVE TypeInv'
    <2>1. PICK e \in VersionText, st \in StoresOf(n + 1) :
             /\ e.parent \in 0 .. n /\ versions' = Append(versions, e)
             /\ stores' = [stores EXCEPT !["share"] = st] /\ st.main = n + 1
      BY <1>2, CommitPuts
    <2>2. /\ VersionsFit(versions') /\ Len(versions') = n + 1
          /\ head \in 0 .. Len(versions') /\ StoresFit(n + 1, stores) /\ JobFits(n + 1, job, pc)
      BY <2>1, TypePuts
    <2>3. StoresFit(n + 1, stores')
      <3> DEFINE v == n + 1
      <3>1. v \in Nat /\ "share" \in Places /\ st.main # 0 /\ st \in StoresOf(v)
            /\ stores' = [stores EXCEPT !["share"] = st] /\ StoresFit(v, stores)
        BY <1>0, <2>1, <2>2 DEF Places
      <3> HIDE DEF v
      <3>2. StoresFit(v, stores')
        BY <3>1, StoreChanges
      <3>3. QED
        BY <3>2 DEF v
    <2>4. UNCHANGED <<dir, cached, head, at, pc, job>>
      BY <1>2 DEF OthersCommit, space
    <2>5. QED
      BY <2>2, <2>3, <2>4 DEF TypeInv
  <1>3. ASSUME NEW st \in StoresOf(n), st.main = stores["share"].main,
               stores' = [stores EXCEPT !["share"] = st], UNCHANGED <<space, versions, at, pc, job>>
        PROVE  TypeInv'
    <2>1. StoresFit(n, stores')
      BY <1>0, <1>3, StoreChanges DEF Places
    <2>2. QED
      BY <1>3, <2>1 DEF TypeInv, space
  <1>4. ASSUME NEW v \in 1 .. n, Expire(v) PROVE TypeInv'
    <2> DEFINE st == [stores["share"] EXCEPT !.timeline = @ \ {v}]
    <2>1. stores' = [stores EXCEPT !["share"] = st] /\ UNCHANGED <<space, versions, at, pc, job>>
      BY <1>0, <1>4 DEF Expire, StoresFit
    <2>2. st \in StoresOf(n) /\ st.main = stores["share"].main
      BY <1>0 DEF StoresOf
    <2> HIDE DEF st
    <2>3. QED
      BY <1>3, <2>1, <2>2
  <1>5. ASSUME NEW k \in UNION Files, LoseChunk(k) PROVE TypeInv'
    <2> DEFINE st == [stores["share"] EXCEPT !.chunks = @ \ {k}]
    <2>1. stores' = [stores EXCEPT !["share"] = st] /\ UNCHANGED <<space, versions, at, pc, job>>
      BY <1>0, <1>5 DEF LoseChunk, StoresFit
    <2>2. st \in StoresOf(n) /\ st.main = stores["share"].main
      BY <1>0 DEF StoresOf
    <2> HIDE DEF st
    <2>3. QED
      BY <1>3, <2>1, <2>2
  <1>6. CASE Collect
    <2> DEFINE old == stores["share"]
               st == [old EXCEPT !.versions = @ \cap Reachable(old),
                                 !.files = @ \cap ReachableFiles(old),
                                 !.chunks = @ \cap UNION ReachableFiles(old)]
    <2>1. stores' = [stores EXCEPT !["share"] = st] /\ UNCHANGED <<space, versions, at, pc, job>>
      BY <1>6 DEF Collect
    <2>2. st \in StoresOf(n) /\ st.main = old.main
      BY <1>0 DEF StoresOf
    <2> HIDE DEF st
    <2>3. QED
      BY <1>3, <2>1, <2>2
  <1>7. CASE Mount
    BY <1>7 DEF Mount, TypeInv, space
  <1>8. QED
    BY <1>1, <1>2, <1>4, <1>5, <1>6, <1>7

LEMMA TypeNext == TypeInv /\ [Next]_vars => TypeInv'
  <1> SUFFICES ASSUME TypeInv, [Next]_vars PROVE TypeInv'
    OBVIOUS
  <1>1. CASE UNCHANGED vars
    BY <1>1 DEF vars, space, TypeInv
  <1>2. CASE Next
    <2>1. CASE \/ Begin("clear", 0) \/ \E v \in Reachable(store) : Begin("checkout", v)
               \/ ConfirmHead \/ ReadRefs \/ Scan \/ Rehashed \/ NeedsSnapshot \/ Passed
               \/ \E p \in Paths : Rehash(p)
      BY <2>1, TypeChecks, TypeLocalKeeps
    <2>2. CASE Written \/ PointHead \/ \E p \in Paths : DeleteFile(p) \/ WriteFile(p)
      BY <2>2, TypeApplies, TypeLocalKeeps
    <2>3. CASE \/ HeadIsMissing \/ RefsAreBroken \/ ChunksAreMissing
               \/ StillUnversioned \/ Cleared \/ Die
      <3>1. Die \/ \E when : Refuse(when)
        BY <2>3 DEF HeadIsMissing, RefsAreBroken, ChunksAreMissing, StillUnversioned, Cleared
      <3>2. QED
        BY <3>1, TypeEnds, TypeLocalKeeps
    <2>4. CASE SnapshotUnversioned \/ Snapshot
      BY <2>4, TypeRecords
    <2>5. CASE \/ \E p \in Paths, x \in Files \cup {Absent} : Edit(p, x) \/ OthersCommit(p, x)
               \/ \E v \in 1 .. Len(versions) : Expire(v)
               \/ \E k \in UNION Files : LoseChunk(k)
               \/ Collect \/ Mount
      BY <2>5, TypeOthers
    <2>6. QED
      BY <1>2, <2>1, <2>2, <2>3, <2>4, <2>5 DEF Next, Step, VersionIds
  <1>3. QED
    BY <1>1, <1>2

LEMMA StaysBounded ==
    ASSUME TypeInv, Len(versions) <= MaxVersions, [Next]_vars
    PROVE  Len(versions') <= MaxVersions
  <1>1. ASSUME SnapshotUnversioned \/ Snapshot PROVE Len(versions') <= MaxVersions
    BY <1>1, RecordPuts DEF SnapshotUnversioned, Snapshot
  <1>2. ASSUME NEW p \in Paths, NEW x \in Files \cup {Absent}, OthersCommit(p, x)
        PROVE  Len(versions') <= MaxVersions
    <2>1. Len(versions) + 1 <= MaxVersions
      BY <1>2 DEF OthersCommit
    <2>2. Len(versions') = Len(versions) + 1
      BY <1>2, CommitPuts, TypePuts
    <2>3. QED
      BY <2>1, <2>2
  <1>3. CASE /\ ~(SnapshotUnversioned \/ Snapshot)
             /\ ~ \E p \in Paths, x \in Files \cup {Absent} : OthersCommit(p, x)
    <2>1. versions' = versions
      BY <1>3 DEF Next, Step, vars, space, Begin, ConfirmHead, HeadIsMissing, ReadRefs,
                  RefsAreBroken, Scan, Rehash, DeleteFile, WriteFile, Rehashed, ChunksAreMissing,
                  NeedsSnapshot, StillUnversioned, Passed, Cleared, Written, PointHead, Refuse,
                  Die, Edit, Expire, LoseChunk, Collect, Mount
    <2>2. QED
      BY <2>1
  <1>4. QED
    BY <1>1, <1>2, <1>3

(* Every clear and checkout, refused or dead anywhere, on whichever store, *)
(* keeps to the types.                                                     *)
THEOREM DirtyCheckTypeCorrect ==
    ASSUME MaxVersions \in Nat \ {0}
    PROVE  Spec => []TypeOK
  <1> DEFINE Bounded == Len(versions) <= MaxVersions
  <1>1. Init => TypeInv /\ Bounded
    <2>1. Init => Len(versions) = 1
      BY DEF Init
    <2>2. Len(versions) = 1 => Bounded
      OBVIOUS
    <2> HIDE DEF Bounded
    <2>3. QED
      BY <2>1, <2>2, TypeInit
  <1>2. TypeInv /\ Bounded /\ [Next]_vars => TypeInv' /\ Bounded'
    BY TypeNext, StaysBounded
  <1>3. TypeInv /\ Bounded => TypeOK
    <2> SUFFICES ASSUME TypeInv, Bounded PROVE TypeOK
      OBVIOUS
    <2> DEFINE n == Len(versions)
    <2>1. n \in Nat /\ 0 .. n = {0} \cup 1 .. n
      BY CountIsNatural
    <2>2. \A v \in 1 .. n : versions[v].files \in Manifests /\ versions[v].parent \in 0 .. v - 1
      <3>1. \A v \in 1 .. n : versions[v] \in VersionText
        BY ElementOfSeq DEF TypeInv, VersionsFit
      <3>2. QED
        BY <3>1 DEF VersionText, TypeInv, VersionsFit, OlderParents
    <2>3. ASSUME NEW w \in Places
          PROVE  /\ stores[w].main \in {0} \cup 1 .. n
                 /\ stores[w].timeline \cup stores[w].versions \subseteq 1 .. n
                 /\ stores[w].files \subseteq Files /\ stores[w].chunks \subseteq UNION Files
      <3>1. stores[w] \in StoresOf(n)
        BY DEF TypeInv, StoresFit
      <3>2. QED
        BY <2>1, <3>1 DEF StoresOf
    <2>4. /\ job.kind \in {"none", "clear", "checkout"} /\ job.target \in {0} \cup 1 .. n
          /\ job.reached \subseteq Files /\ job.hashed \in Manifests
          /\ job.todo \subseteq Paths \ (IF pc = "write" THEN {} ELSE Ignored)
      BY <2>1 DEF TypeInv, JobFits, JobsOf
    <2>5. QED
      BY <2>2, <2>3, <2>4 DEF TypeInv, TypeOK, VersionIds, Points
  <1> HIDE DEF Bounded
  <1>4. QED
    BY <1>1, <1>2, <1>3, PTL DEF Spec

------------------------------------------------------------------------------
(* What the check has found out stays true                                 *)

share == stores["share"]

(* What can be restored from the refs and objects of st. *)
Kept(vs, st) == {x \in MetFiles(vs, st) : x \in st.files /\ x \subseteq st.chunks}

(* The refs have been read. *)
Asked == {"scan", "rehash", "chunks", "delete", "write", "remove"}

Safe(p) == dir[p] = Absent \/ dir[p] \in Kept(versions, share)

(* After ConfirmHead a command deals with the space's own store: the one   *)
(* at the mount point never has the head, and without a head the share is  *)
(* there.                                                                  *)
ShareIsAsked ==
    /\ stores["mount point"].versions = {}
    /\ pc \notin {"idle", "head"} \/ (pc = "head" /\ head = 0) => at = "share"

ReachedIsMet == pc \in Asked => job.reached \subseteq MetFiles(versions, share) \cap share.files

HashedIsThere ==
    pc \in {"rehash", "chunks"} => \A p \in Paths \ Ignored :
        (pc = "rehash" => p \notin job.todo)
            => job.hashed[p] = dir[p] \/ (job.kind = "clear" /\ job.hashed[p] = Absent)

DoomedIsSafe ==
    /\ pc = "delete" => \A p \in job.todo : job.hashed[p] # Absent /\ Safe(p)
    /\ pc = "write" => \A p \in Paths \ Ignored : p \in job.todo \/ Target[p] = Absent => Safe(p)
    /\ pc = "remove" => \A p \in job.todo : Safe(p)

SafeInv == ShareIsAsked /\ ReachedIsMet /\ HashedIsThere /\ DoomedIsSafe

LEMMA RecoverableIsKept ==
    \A x : Recoverable(x) <=> x \in Kept(versions, share)
  <1>1. ReachableFiles(share) = MetFiles(versions, share)
    BY ReachableIsMet
  <1>2. QED
    BY <1>1 DEF Recoverable, Kept, share

LEMMA SafeInit == Init => SafeInv
  <1> SUFFICES ASSUME Init PROVE SafeInv
    OBVIOUS
  <1>1. pc = "idle" /\ stores["mount point"] = EmptyStore
    BY DEF Init, Places
  <1>2. EmptyStore.versions = {}
    BY DEF EmptyStore
  <1>3. QED
    BY <1>1, <1>2 DEF SafeInv, ShareIsAsked, ReachedIsMet, HashedIsThere, DoomedIsSafe, Asked

(* A file whose chunks are not all there has a first path, which is a      *)
(* problem: so without one every chunk of every candidate is there.        *)
LEMMA CandidatesAreWhole ==
    ASSUME ChunksConfirmed
    PROVE  \A p \in Candidates : job.hashed[p] \subseteq store.chunks
  <1> SUFFICES ASSUME NEW p \in Candidates, ~(job.hashed[p] \subseteq store.chunks)
               PROVE  FALSE
    OBVIOUS
  <1> DEFINE Same == {q \in Candidates : job.hashed[q] = job.hashed[p]}
  <1>1. Same \in SUBSET Nat /\ Same # {}
    BY PathAssumption DEF Candidates, PathsOf
  <1>2. PICK q \in Same : \A k \in Same : q <= k
    <2> HIDE DEF Same
    <2>1. QED
      BY <1>1, LeastNumber
  <1>3. q \in WithMissing
    BY <1>2 DEF WithMissing
  <1>4. QED
    BY <1>3 DEF ChunksConfirmed

(* What the snapshot of a clear adds goes to the space's store. *)
LEMMA SafeRecords ==
    ASSUME TypeInv, SafeInv, SnapshotUnversioned \/ Snapshot, ShareIsThere
    PROVE  SafeInv'
  <1>0. Record => head' # head
    BY DEF Record, TypeInv
  <1>1. Record /\ at' = at /\ at = "share" /\ pc' \in {"idle", "head"}
    BY <1>0 DEF SnapshotUnversioned, Snapshot, SafeInv, ShareIsAsked, ShareIsThere
  <1>2. PICK st : stores' = [stores EXCEPT !["share"] = st]
    BY <1>1, RecordPuts
  <1>3. stores'["mount point"] = stores["mount point"]
    BY <1>2 DEF TypeInv, StoresFit, Places
  <1>4. QED
    BY <1>1, <1>3 DEF SafeInv, ShareIsAsked, ReachedIsMet, HashedIsThere, DoomedIsSafe, Asked

(* The questions: nothing is changed, and the answers are true. *)
LEMMA SafeChecks ==
    ASSUME TypeInv, SafeInv,
           \/ Begin("clear", 0) \/ \E v \in Reachable(store) : Begin("checkout", v)
           \/ ConfirmHead \/ ReadRefs \/ Scan \/ Rehashed \/ NeedsSnapshot
           \/ \E p \in Paths : Rehash(p),
           ShareIsThere
    PROVE  SafeInv'
  <1>0. UNCHANGED <<dir, head, versions, stores, at>> /\ Kept(versions, share)' = Kept(versions, share)
        /\ MetFiles(versions, share)' = MetFiles(versions, share) /\ share' = share
    BY DEF Begin, ConfirmHead, ReadRefs, Scan, Rehash, Rehashed, NeedsSnapshot, space, share
  <1>1. CASE \/ Begin("clear", 0) \/ \E v \in Reachable(store) : Begin("checkout", v)
             \/ NeedsSnapshot
    <2>1. (pc = "idle" /\ pc' = "head") \/ (pc = "chunks" /\ pc' = "snapshot")
      BY <1>1 DEF Begin, NeedsSnapshot
    <2>2. QED
      BY <1>0, <2>1 DEF ShareIsThere, SafeInv, ShareIsAsked, ReachedIsMet, HashedIsThere, DoomedIsSafe, Asked
  <1>2. CASE ConfirmHead
    <2>1. pc = "head" /\ pc' = "refs" /\ head \in {0} \cup store.versions
      BY <1>2 DEF ConfirmHead
    <2>2. at = "share"
      BY <2>1 DEF SafeInv, ShareIsAsked, TypeInv, Places, store
    <2>3. QED
      BY <1>0, <2>1, <2>2
         DEF SafeInv, ShareIsAsked, ReachedIsMet, HashedIsThere, DoomedIsSafe, Asked
  <1>3. CASE ReadRefs
    <2>1. pc = "refs" /\ pc' = "scan" /\ job' = [job EXCEPT !.reached = ReachableFiles(store)]
          /\ ReachableFiles(store) \subseteq store.files
      BY <1>3 DEF ReadRefs
    <2>2. at = "share" /\ store = share
      BY <2>1 DEF SafeInv, ShareIsAsked, store, share
    <2>3. job'.reached = MetFiles(versions, share)
      BY <2>1, <2>2, ReachableIsMet DEF TypeInv, JobFits, JobsOf
    <2>4. ReachedIsMet'
      BY <1>0, <2>1, <2>2, <2>3, ReachableIsMet DEF ReachedIsMet
    <2>5. QED
      BY <1>0, <2>1, <2>2, <2>4 DEF SafeInv, ShareIsAsked, HashedIsThere, DoomedIsSafe
  <1>4. CASE Scan
    <2>1. pc = "scan" /\ pc' = "rehash" /\ job' = [job EXCEPT !.todo = Scanned]
      BY <1>4 DEF Scan
    <2>2. /\ job'.todo = Scanned /\ job'.hashed = Empty /\ job'.reached = job.reached
      BY <2>1 DEF TypeInv, JobFits, JobsOf
    <2>3. HashedIsThere'
      BY <1>0, <2>1, <2>2 DEF HashedIsThere, Scanned, PathsOf, Empty
    <2>4. QED
      BY <1>0, <2>1, <2>2, <2>3 DEF SafeInv, ShareIsAsked, ReachedIsMet, DoomedIsSafe, Asked
  <1>5. ASSUME NEW p \in Paths, Rehash(p) PROVE SafeInv'
    <2>1. /\ pc = "rehash" /\ pc' = pc /\ p \in job.todo
          /\ job' = [job EXCEPT !.todo = @ \ {p}, !.hashed[p] = dir[p],
                                !.problem = @ \/ dir[p] = Absent]
      BY <1>5 DEF Rehash, IsFirst
    <2>2. /\ job'.hashed = [job.hashed EXCEPT ![p] = dir[p]] /\ job'.reached = job.reached
          /\ job'.todo = job.todo \ {p} /\ job'.kind = job.kind
          /\ job.hashed \in [Paths -> Files \cup {Absent}]
      BY <2>1 DEF TypeInv, JobFits, JobsOf, Manifests
    <2>3. HashedIsThere'
      BY <1>0, <2>1, <2>2 DEF SafeInv, HashedIsThere
    <2>4. QED
      BY <1>0, <2>1, <2>2, <2>3 DEF SafeInv, ShareIsAsked, ReachedIsMet, DoomedIsSafe, Asked
  <1>6. CASE Rehashed
    BY <1>0, <1>6
       DEF Rehashed, SafeInv, ShareIsAsked, ReachedIsMet, DoomedIsSafe, HashedIsThere, Asked
  <1>7. QED
    BY <1>1, <1>2, <1>3, <1>4, <1>5, <1>6

(* The check has passed: what will be deleted or replaced can be restored. *)
LEMMA SafePassed ==
    ASSUME TypeInv, SafeInv, Passed
    PROVE  SafeInv'
  <1>0. UNCHANGED <<dir, versions, stores, at>> /\ Kept(versions, share)' = Kept(versions, share)
        /\ MetFiles(versions, share)' = MetFiles(versions, share) /\ share' = share
    BY DEF Passed, space, share
  <1>1. /\ pc = "chunks" /\ ChunksConfirmed /\ Unversioned = {}
        /\ \/ /\ job.kind = "clear" /\ pc' = "delete" /\ job' = [job EXCEPT !.todo = Candidates]
           \/ /\ job.kind # "clear" /\ pc' = "write" /\ job' = [job EXCEPT !.todo = PathsOf(Target)]
    BY DEF Passed
  <1>2. at = "share" /\ store = share
    BY <1>1 DEF SafeInv, ShareIsAsked, store, share
  <1>3. /\ job'.hashed = job.hashed /\ job'.reached = job.reached /\ job'.kind = job.kind
        /\ pc' = "delete" => job'.todo = Candidates
    BY <1>1 DEF TypeInv, JobFits, JobsOf
  <1>4. ASSUME NEW p \in Paths \ Ignored, job.hashed[p] # Absent PROVE Safe(p) /\ p \in Candidates
    <2>1. p \in Candidates
      BY <1>1, <1>4 DEF Unversioned, PathsOf
    <2>2. job.hashed[p] \in job.reached /\ job.hashed[p] \subseteq share.chunks
      BY <1>1, <1>2, <2>1, CandidatesAreWhole DEF Candidates
    <2>3. job.hashed[p] \in Kept(versions, share)
      BY <1>1, <2>2 DEF Kept, SafeInv, ReachedIsMet, Asked
    <2>4. job.hashed[p] = dir[p]
      BY <1>1, <1>4 DEF SafeInv, HashedIsThere
    <2>5. QED
      BY <2>1, <2>3, <2>4 DEF Safe
  <1>5. \A p \in Paths : Safe(p)' <=> Safe(p)
    BY <1>0 DEF Safe
  <1>6. DoomedIsSafe'
    <2>1. CASE job.kind = "clear"
      <3>1. Candidates \subseteq Paths \ Ignored /\ \A p \in Candidates : job.hashed[p] # Absent
        BY DEF Candidates, PathsOf, TypeInv, JobFits
      <3>2. pc' = "delete" /\ job'.todo = Candidates
        BY <1>1, <1>3, <2>1
      <3>3. QED
        BY <1>3, <1>4, <1>5, <3>1, <3>2 DEF DoomedIsSafe
    <2>2. CASE job.kind # "clear"
      <3>1. pc' = "write" /\ \A p \in Paths \ Ignored : job.hashed[p] = dir[p]
        BY <1>1, <2>2 DEF SafeInv, HashedIsThere
      <3>2. \A p \in Paths \ Ignored : Safe(p)
        BY <1>4, <3>1 DEF Safe
      <3>3. QED
        BY <1>5, <3>1, <3>2 DEF DoomedIsSafe
    <2>3. QED
      BY <2>1, <2>2
  <1>7. QED
    BY <1>0, <1>1, <1>2, <1>3, <1>6 DEF SafeInv, ShareIsAsked, ReachedIsMet, HashedIsThere, Asked

(* Each file is deleted or replaced once. *)
LEMMA SafeApplies ==
    ASSUME TypeInv, SafeInv, Written \/ PointHead \/ \E p \in Paths : DeleteFile(p) \/ WriteFile(p)
    PROVE  SafeInv'
  <1>0. UNCHANGED <<versions, stores, at>> /\ Kept(versions, share)' = Kept(versions, share)
        /\ MetFiles(versions, share)' = MetFiles(versions, share) /\ share' = share
    BY DEF Written, PointHead, DeleteFile, WriteFile, space, share
  <1>1. ASSUME NEW p \in Paths, DeleteFile(p) PROVE SafeInv'
    <2>1. /\ pc \in {"delete", "remove"} /\ pc' = pc /\ dir' = [dir EXCEPT ![p] = Absent]
          /\ job' = [job EXCEPT !.todo = @ \ {p}]
      BY <1>1 DEF DeleteFile
    <2>2. /\ job'.hashed = job.hashed /\ job'.reached = job.reached /\ job'.todo = job.todo \ {p}
          /\ dir \in [Paths -> Files \cup {Absent}] /\ job.todo \subseteq Paths
      BY <2>1 DEF TypeInv, JobFits, JobsOf, Manifests
    <2>3. \A q \in Paths : Safe(q) => Safe(q)'
      BY <1>0, <2>1, <2>2 DEF Safe
    <2>4. DoomedIsSafe'
      BY <2>1, <2>2, <2>3 DEF SafeInv, DoomedIsSafe
    <2>5. QED
      BY <1>0, <2>1, <2>2, <2>4 DEF SafeInv, ShareIsAsked, ReachedIsMet, HashedIsThere
  <1>2. ASSUME NEW p \in Paths, WriteFile(p) PROVE SafeInv'
    <2>1. /\ pc = "write" /\ pc' = pc /\ dir' = [dir EXCEPT ![p] = Target[p]]
          /\ job' = [job EXCEPT !.todo = @ \ {p}]
      BY <1>2 DEF WriteFile
    <2>2. /\ job'.hashed = job.hashed /\ job'.reached = job.reached /\ job'.todo = job.todo \ {p}
          /\ job'.target = job.target /\ dir \in [Paths -> Files \cup {Absent}]
      BY <2>1 DEF TypeInv, JobFits, JobsOf, Manifests
    <2>3. Target' = Target
      BY <1>0, <2>2 DEF Target
    <2>4. \A q \in Paths : q # p /\ Safe(q) => Safe(q)'
      BY <1>0, <2>1, <2>2 DEF Safe
    <2>5. Target[p] = Absent => Safe(p)'
      BY <2>1, <2>2 DEF Safe
    <2>6. DoomedIsSafe'
      BY <2>1, <2>2, <2>3, <2>4, <2>5 DEF SafeInv, DoomedIsSafe
    <2>7. QED
      BY <1>0, <2>1, <2>2, <2>6 DEF SafeInv, ShareIsAsked, ReachedIsMet, HashedIsThere
  <1>3. CASE Written
    <2>1. /\ pc = "write" /\ pc' = "remove" /\ dir' = dir
          /\ job' = [job EXCEPT !.todo = Scanned \ PathsOf(Target)]
      BY <1>3 DEF Written, space
    <2>2. job'.todo = Scanned \ PathsOf(Target) /\ job'.reached = job.reached
      BY <2>1 DEF TypeInv, JobFits, JobsOf
    <2>3. \A q \in job'.todo : q \in Paths \ Ignored /\ Target[q] = Absent
      BY <2>2 DEF Scanned, PathsOf
    <2>4. \A q \in Paths : Safe(q)' <=> Safe(q)
      BY <1>0, <2>1 DEF Safe
    <2>5. DoomedIsSafe'
      BY <2>1, <2>3, <2>4 DEF SafeInv, DoomedIsSafe
    <2>6. QED
      BY <1>0, <2>1, <2>2, <2>5 DEF SafeInv, ShareIsAsked, ReachedIsMet, HashedIsThere, Asked
  <1>4. CASE PointHead
    <2>1. pc' = "idle"
      BY <1>4 DEF PointHead, Finish
    <2>2. QED
      BY <1>0, <2>1 DEF SafeInv, ShareIsAsked, ReachedIsMet, HashedIsThere, DoomedIsSafe, Asked
  <1>5. QED
    BY <1>1, <1>2, <1>3, <1>4

Others ==
    \/ \E p \in Paths, x \in Files \cup {Absent} : Edit(p, x) \/ OthersCommit(p, x)
    \/ \E v \in 1 .. Len(versions) : Expire(v)
    \/ \E k \in UNION Files : LoseChunk(k)
    \/ Collect \/ Mount

LEMMA OthersLeaveCommand ==
    ASSUME TypeInv, Others
    PROVE  /\ pc' = pc /\ job' = job /\ stores'["mount point"] = stores["mount point"]
           /\ head' = head
  <1>1. pc' = pc /\ job' = job /\ head' = head
    BY DEF Others, Edit, OthersCommit, Expire, LoseChunk, Collect, Mount, space
  <1>2. stores' = stores \/ \E st : stores' = [stores EXCEPT !["share"] = st]
    BY Zenon DEF Others, Edit, OthersCommit, Expire, LoseChunk, Collect, Mount
  <1>3. DOMAIN stores = Places
    BY DEF TypeInv, StoresFit
  <1>4. QED
    BY <1>1, <1>2, <1>3 DEF Places

(* Whatever the others do to the store, what the refs reach stays there. *)
LEMMA OthersKeep ==
    ASSUME TypeInv, Others, ObjectsStay, pc \in Asked
    PROVE  /\ MetFiles(versions, share) \cap share.files
                  \subseteq MetFiles(versions', share') \cap share'.files
           /\ Answered => Kept(versions, share) \subseteq Kept(versions', share')
  <1> DEFINE n == Len(versions)
  <1>0. /\ n \in Nat /\ share \in StoresOf(n) /\ share \in StoresOf(n) /\ share' = stores'["share"]
        /\ stores \in [Places -> StoresOf(n)] /\ "share" \in Places
    BY CountIsNatural DEF TypeInv, StoresFit, Places, share
  <1>1. ASSUME UNCHANGED <<versions, stores>>
        PROVE  /\ MetFiles(versions, share) \subseteq MetFiles(versions', share')
               /\ share' = share /\ Kept(versions', share') = Kept(versions, share)
    BY <1>1 DEF share
  <1>2. ASSUME NEW st \in StoresOf(n), st.main = share.main, st.timeline = share.timeline,
               UNCHANGED versions, stores' = [stores EXCEPT !["share"] = st]
        PROVE  share' = st /\ MetFiles(versions', share') = MetFiles(versions, share)
    BY <1>0, <1>2 DEF MetFiles, Met
  <1>3. CASE Mount \/ \E p \in Paths, x \in Files \cup {Absent} : Edit(p, x)
    <2>1. UNCHANGED <<versions, stores>>
      BY <1>3 DEF Mount, Edit
    <2>2. QED
      BY <1>1, <2>1
  <1>4. ASSUME NEW p \in Paths, NEW x \in Files \cup {Absent}, OthersCommit(p, x)
        PROVE  /\ MetFiles(versions, share) \subseteq MetFiles(versions', share')
               /\ share.files \subseteq share'.files /\ share.chunks \subseteq share'.chunks
    <2>1. PICK e \in VersionText, st \in StoresOf(n + 1) :
             /\ e.parent = share.main /\ e.parent \in 0 .. n
             /\ versions' = Append(versions, e) /\ stores' = [stores EXCEPT !["share"] = st]
             /\ st.main = n + 1 /\ st.timeline = share.timeline
             /\ share.files \subseteq st.files /\ share.chunks \subseteq st.chunks
      BY <1>4, CommitPuts DEF share
    <2>2. share' = st
      BY <1>0, <2>1
    <2>3. VersionsFit(versions) /\ share.main \in 0 .. n /\ share.timeline \subseteq 1 .. n
      BY <1>0 DEF TypeInv, StoresOf
    <2>4. /\ Met(versions', share) = Met(versions, share)
          /\ MetFiles(versions', share) = MetFiles(versions, share)
      BY <2>1, <2>3, MetGrows
    <2>5. Below(versions', st.main) = {n + 1} \cup Below(versions, share.main)
      BY <2>1, <2>3, BelowStays
    <2>6. Below(versions', share.main) = Below(versions, share.main)
      BY <2>1, <2>3, BelowStays
    <2>7. Met(versions', share) \subseteq Met(versions', st)
      BY <2>1, <2>5, <2>6 DEF Met
    <2>8. MetFiles(versions', share) \subseteq MetFiles(versions', st)
      BY <2>7 DEF MetFiles
    <2>9. QED
      BY <2>1, <2>2, <2>4, <2>8
  <1>5. ASSUME NEW v \in 1 .. n, Expire(v) PROVE FALSE
    <2>1. v \in share.timeline /\ share'.timeline = share.timeline \ {v}
      BY <1>0, <1>5 DEF Expire, share, StoresOf
    <2>2. share.timeline \subseteq share'.timeline
      BY <1>0 DEF ObjectsStay, Asked, Answered, share
    <2>3. QED
      BY <2>1, <2>2
  <1>6. ASSUME NEW k \in UNION Files, LoseChunk(k)
        PROVE  /\ MetFiles(versions', share') = MetFiles(versions, share)
               /\ share'.files = share.files
               /\ Answered => Kept(versions, share) \subseteq Kept(versions', share')
    <2> DEFINE st == [share EXCEPT !.chunks = @ \ {k}]
    <2>1. stores' = [stores EXCEPT !["share"] = st] /\ UNCHANGED versions
      BY <1>0, <1>6 DEF LoseChunk, share
    <2>2. /\ st \in StoresOf(n) /\ st.main = share.main
          /\ st.timeline = share.timeline /\ st.files = share.files
      BY <1>0 DEF StoresOf
    <2> HIDE DEF st
    <2>3. share' = st /\ MetFiles(versions', share') = MetFiles(versions, share)
      BY <1>2, <2>1, <2>2
    <2>4. Answered => share.chunks \cap UNION MetFiles(versions, share) \subseteq share'.chunks
      BY <1>0, ReachableIsMet DEF ObjectsStay, share
    <2>5. Answered => Kept(versions, share) \subseteq Kept(versions', share')
      BY <2>2, <2>3, <2>4 DEF Kept
    <2>6. QED
      BY <2>2, <2>3, <2>5
  <1>7. ASSUME Collect
        PROVE  /\ MetFiles(versions, share) \cap share.files
                      \subseteq MetFiles(versions', share') \cap share'.files
               /\ Kept(versions, share) \subseteq Kept(versions', share')
    <2> DEFINE st == [share EXCEPT !.versions = @ \cap Reachable(share),
                                   !.files = @ \cap ReachableFiles(share),
                                   !.chunks = @ \cap UNION ReachableFiles(share)]
    <2>1. stores' = [stores EXCEPT !["share"] = st] /\ UNCHANGED versions
      BY <1>7 DEF Collect, share
    <2>2. /\ st \in StoresOf(n) /\ st.main = share.main /\ st.timeline = share.timeline
          /\ st.files = share.files \cap ReachableFiles(share)
          /\ st.chunks = share.chunks \cap UNION ReachableFiles(share)
      BY <1>0 DEF StoresOf
    <2> HIDE DEF st
    <2>3. share' = st /\ MetFiles(versions', share') = MetFiles(versions, share)
      BY <1>2, <2>1, <2>2
    <2>4. ReachableFiles(share) = MetFiles(versions, share)
      BY ReachableIsMet
    <2>5. QED
      BY <2>2, <2>3, <2>4 DEF Kept
  <1>8. QED
    BY <1>1, <1>3, <1>4, <1>5, <1>6, <1>7 DEF Others, Kept

LEMMA SafeOthers ==
    ASSUME TypeInv, SafeInv, Others, FilesStay, ObjectsStay, ShareStays
    PROVE  SafeInv'
  <1>0. pc' = pc /\ job' = job /\ stores'["mount point"] = stores["mount point"] /\ ~ByCommand
        /\ head' = head
    BY OthersLeaveCommand DEF ByCommand
  <1>1. ShareIsAsked'
    BY <1>0 DEF SafeInv, ShareIsAsked, ShareStays
  <1>2. ReachedIsMet'
    BY <1>0, OthersKeep DEF SafeInv, ReachedIsMet
  <1>3. \A p \in Paths \ Ignored : Judged(p) => dir'[p] = dir[p]
    BY <1>0 DEF FilesStay
  <1>4. HashedIsThere'
    <2>1. ASSUME pc \in {"rehash", "chunks"}, NEW p \in Paths \ Ignored,
                 pc = "rehash" => p \notin job.todo
          PROVE  job.hashed[p] = dir'[p] \/ (job.kind = "clear" /\ job.hashed[p] = Absent)
      <3>1. job.hashed[p] = dir[p] \/ (job.kind = "clear" /\ job.hashed[p] = Absent)
        BY <2>1 DEF SafeInv, HashedIsThere
      <3>2. job.kind = "checkout" \/ job.kind = "clear"
        BY <2>1 DEF TypeInv, JobFits, JobsOf
      <3>3. QED
        BY <1>3, <2>1, <3>1, <3>2 DEF Judged
    <2>2. QED
      BY <1>0, <2>1 DEF HashedIsThere
  <1>5. DoomedIsSafe'
    <2>1. ASSUME Answered, NEW p \in Paths \ Ignored, Judged(p), Safe(p) PROVE Safe(p)'
      <3>1. dir'[p] = dir[p]
        BY <1>3, <2>1
      <3>2. Kept(versions, share) \subseteq Kept(versions', share')
        BY <2>1, OthersKeep DEF Answered, Asked
      <3>3. QED
        BY <2>1, <3>1, <3>2 DEF Safe
    <2>2. CASE pc = "delete"
      <3>1. \A p \in job.todo :
              p \in Paths \ Ignored /\ Judged(p) /\ Safe(p) /\ job.hashed[p] # Absent
        BY <2>2 DEF SafeInv, DoomedIsSafe, TypeInv, JobFits, JobsOf, Judged
      <3>2. QED
        BY <1>0, <2>1, <2>2, <3>1 DEF DoomedIsSafe, Answered
    <2>3. CASE pc = "write"
      <3>1. \A p \in Paths : Judged(p)
        BY <2>3 DEF TypeInv, JobFits, Judged
      <3>2. Target' = Target
        <4>1. job.target \in 1 .. Len(versions)
          BY <2>3, CountIsNatural DEF TypeInv, JobFits, JobsOf
        <4>2. \A v \in 1 .. Len(versions) : versions'[v] = versions[v]
          <5>1. ASSUME NEW p \in Paths, NEW x \in Files \cup {Absent}, OthersCommit(p, x)
                PROVE  \A v \in 1 .. Len(versions) : versions'[v] = versions[v]
            <6>1. PICK e \in VersionText :
                     e.parent \in 0 .. Len(versions) /\ versions' = Append(versions, e)
              BY <5>1, CommitPuts
            <6>2. QED
              BY <6>1, Appended DEF TypeInv
          <5>2. (~ \E p \in Paths, x \in Files \cup {Absent} : OthersCommit(p, x))
                    => versions' = versions
            BY DEF Others, Edit, Expire, LoseChunk, Collect, Mount
          <5>3. QED
            BY <5>1, <5>2
        <4>3. QED
          BY <1>0, <4>1, <4>2 DEF Target
      <3>3. QED
        BY <1>0, <2>1, <2>3, <3>1, <3>2 DEF SafeInv, DoomedIsSafe, Answered
    <2>4. CASE pc = "remove"
      <3>1. \A p \in job.todo : p \in Paths \ Ignored /\ Judged(p) /\ Safe(p)
        BY <2>4 DEF SafeInv, DoomedIsSafe, TypeInv, JobFits, JobsOf, Judged
      <3>2. QED
        BY <1>0, <2>1, <2>4, <3>1 DEF DoomedIsSafe, Answered
    <2>5. CASE pc \notin {"delete", "write", "remove"}
      BY <1>0, <2>5 DEF DoomedIsSafe
    <2>6. QED
      BY <2>2, <2>3, <2>4, <2>5
  <1>6. QED
    BY <1>1, <1>2, <1>4, <1>5 DEF SafeInv

LEMMA SafeNext ==
    ASSUME TypeInv, SafeInv, [Next /\ Careful]_vars
    PROVE  SafeInv'
  <1>1. CASE UNCHANGED vars
    BY <1>1 DEF vars, space, SafeInv, ShareIsAsked, ReachedIsMet, HashedIsThere, DoomedIsSafe,
                Safe, share, Target
  <1>2. CASE Next /\ Careful
    <2>1. CASE \/ Begin("clear", 0) \/ \E v \in Reachable(store) : Begin("checkout", v)
               \/ ConfirmHead \/ ReadRefs \/ Scan \/ Rehashed \/ NeedsSnapshot
               \/ \E p \in Paths : Rehash(p)
      BY <1>2, <2>1, SafeChecks DEF Careful
    <2>2. CASE Written \/ PointHead \/ \E p \in Paths : DeleteFile(p) \/ WriteFile(p)
      BY <2>2, SafeApplies
    <2>3. CASE \/ HeadIsMissing \/ RefsAreBroken \/ ChunksAreMissing
               \/ StillUnversioned \/ Cleared \/ Die
      <3>1. pc' = "idle" /\ stores' = stores
        BY <2>3 DEF HeadIsMissing, RefsAreBroken, ChunksAreMissing, StillUnversioned, Cleared,
                    Refuse, Die, Finish
      <3>2. QED
        BY <3>1 DEF SafeInv, ShareIsAsked, ReachedIsMet, HashedIsThere, DoomedIsSafe, Asked
    <2>4. CASE SnapshotUnversioned \/ Snapshot
      BY <1>2, <2>4, SafeRecords DEF Careful
    <2>5. CASE Passed
      BY <2>5, SafePassed
    <2>6. CASE Others
      BY <1>2, <2>6, SafeOthers DEF Careful
    <2>7. QED
      BY <1>2, <2>1, <2>2, <2>3, <2>4, <2>5, <2>6 DEF Next, Step, VersionIds, Others
  <1>3. QED
    BY <1>1, <1>2

(* A clear or a checkout makes no scanned file disappear that cannot be    *)
(* restored from a version its own store keeps, whatever the cache         *)
(* believed, the others published or collected, and wherever the store     *)
(* directory led before (dirty.go, CheckClear): as long as, from the look  *)
(* to the deletion, files and snapshots stay and the share is not lost,    *)
(* nothing is recorded by hand while it is away, and a space that has      *)
(* recorded nothing runs its commands while it is there.                   *)
THEOREM DeletedStaysRecoverable == CarefulSpec => DeletedIsRecoverable
  <1> DEFINE Keeps ==
          ByCommand => \A p \in Paths \ Ignored :
              dir[p] # Absent /\ dir'[p] # dir[p] => Recoverable(dir[p])
  <1>1. Init => TypeInv /\ SafeInv
    BY TypeInit, SafeInit
  <1>2. TypeInv /\ SafeInv /\ [Next /\ Careful]_vars
            => TypeInv' /\ SafeInv'
    BY TypeNext, SafeNext
  <1>3. TypeInv /\ SafeInv /\ [Next /\ Careful]_vars => [Keeps]_vars
    <2> SUFFICES ASSUME TypeInv, SafeInv, Next, ByCommand, NEW p \in Paths \ Ignored,
                        dir[p] # Absent, dir'[p] # dir[p]
                 PROVE  Recoverable(dir[p])
      OBVIOUS
    <2>1. dir \in [Paths -> Files \cup {Absent}]
      BY DEF TypeInv, Manifests
    <2>2. PICK q \in Paths : DeleteFile(q) \/ WriteFile(q)
      BY DEF Next, Step, space, Begin, ConfirmHead, HeadIsMissing, ReadRefs, RefsAreBroken, Scan,
             Rehash, Rehashed, ChunksAreMissing, NeedsSnapshot, SnapshotUnversioned,
             StillUnversioned, Passed, Cleared, Written, PointHead, Refuse, Die, Snapshot, Edit,
             OthersCommit, Expire, LoseChunk, Collect, Mount, ByCommand
    <2>3. q = p /\ pc \in {"delete", "remove", "write"} /\ p \in job.todo
      BY <2>1, <2>2 DEF DeleteFile, WriteFile, IsFirst
    <2>4. Safe(p)
      BY <2>3 DEF SafeInv, DoomedIsSafe
    <2>5. QED
      BY <2>4, RecoverableIsKept DEF Safe
  <1> HIDE DEF Keeps
  <1>4. QED
    <2>1. CarefulSpec => [][Keeps]_vars
      BY <1>1, <1>2, <1>3, PTL DEF CarefulSpec
    <2>2. QED
      BY <2>1 DEF DeletedIsRecoverable, Keeps

------------------------------------------------------------------------------
(* The directory is brought from one manifest to another                   *)

(* The merge and the diff of TreeUpdate are those of Merge. *)
LEMMA SameMerge ==
    /\ Update!Manifests = Manifests
    /\ \A m : Update!PathsOf(m) = PathsOf(m)
    /\ \A b, o, t : Update!MergeOf(b, o, t) = MergeOf(b, o, t)
    /\ \A b, o, t : Update!ConflictsOf(b, o, t) = ConflictsOf(b, o, t)
  <1>1. Update!Manifests = Manifests
    BY DEF Update!Manifests, Manifests
  <1>2. \A m : Update!PathsOf(m) = PathsOf(m)
    BY DEF Update!PathsOf, PathsOf
  <1>3. \A b, o, t : Update!Resolve(b, o, t) = Resolve(b, o, t)
    BY DEF Update!Resolve, Resolve, Update!ResolveAdded, ResolveAdded, Update!ResolveEdited,
           ResolveEdited, Update!ResolveDeleted, ResolveDeleted, Update!Outcome, Outcome
  <1>4. QED
    BY <1>1, <1>2, <1>3 DEF Update!MergeOf, MergeOf, Update!ConflictsOf, ConflictsOf

LEMMA SameCardinality == \A S : Update!Cardinality(S) = Cardinality(S)
    BY DEF Update!Cardinality, Cardinality

LEMMA SameDiff ==
    ASSUME NEW b, NEW a
    PROVE  /\ Update!Added(b, a) = Added(b, a) /\ Update!Changed(b, a) = Changed(b, a)
           /\ Update!Renamed(b, a) = Renamed(b, a)
           /\ Update!Outgoing(b, a) = Outgoing(b, a)
  <1>1. /\ Update!Appeared(b, a) = Appeared(b, a) /\ Update!Vanished(b, a) = Vanished(b, a)
        /\ Update!Changed(b, a) = Changed(b, a)
    BY SameMerge DEF Update!Appeared, Appeared, Update!Vanished, Vanished, Update!Changed, Changed
  <1>2. \A S, m, p : Update!QueuePosition(S, m, p) = QueuePosition(S, m, p)
    BY SameCardinality DEF Update!QueuePosition, QueuePosition
  <1>3. Update!Renamed(b, a) = Renamed(b, a)
    BY <1>1, <1>2 DEF Update!Renamed, Renamed
  <1>4. Update!Removed(b, a) = Removed(b, a)
    BY <1>1, <1>3 DEF Update!Removed, Removed
  <1>5. QED
    BY <1>1, <1>3, <1>4 DEF Update!Added, Added, Update!Outgoing, Outgoing

(* What a directory may hold, and what is to be written. *)
Entered == [path : Paths, file : Files]

(* The sequence order is of all of S and of nothing else. *)
Lists(order, S) == order \in Seq(S) /\ \A p \in S : \E i \in DOMAIN order : order[i] = p

(* A finite set of numbers is a sequence in order: the places of the queue. *)
LEMMA InOrderIs ==
    ASSUME NEW S \in SUBSET Paths, IsFiniteSet(S)
    PROVE  Lists(Update!InOrder(S), S)
  <1> DEFINE n == Cardinality(S)
             place(p) == Cardinality(Before(S, p)) + 1
             order == [i \in 1 .. n |-> CHOOSE p \in S : place(p) = i]
             Sorted(f) == \A i, j \in DOMAIN f : i < j => f[i] < f[j]
  <1>1. S \in SUBSET Nat /\ n \in Nat
    BY PathAssumption, FS_CardinalityType
  <1>2. ASSUME NEW p \in S PROVE place(p) \in 1 .. n
    <2>1. Before(S, p) \in SUBSET S /\ p \notin Before(S, p)
      <3>1. p \in Nat
        BY <1>1
      <3>2. ~(p < p)
        BY <3>1
      <3>3. QED
        BY <3>2 DEF Before
    <2>2. /\ IsFiniteSet(Before(S, p)) /\ Cardinality(Before(S, p)) \in Nat
      BY <1>1, BeforeIsFinite
    <2>3. Cardinality(Before(S, p)) <= n /\ Cardinality(Before(S, p)) # n
      BY <2>1, FS_Subset
    <2>4. QED
      BY <1>1, <2>2, <2>3
  <1>3. ASSUME NEW p \in S, NEW q \in S, p < q PROVE place(p) < place(q)
    <2>1. Cardinality(Before(S, p)) < Cardinality(Before(S, q))
      BY <1>1, <1>3, LaterPlace
    <2>2. Cardinality(Before(S, p)) \in Nat /\ Cardinality(Before(S, q)) \in Nat
      BY <1>1, BeforeIsFinite
    <2>3. QED
      BY <2>1, <2>2
  <1>4. IsFiniteSet(1 .. n) /\ Cardinality(1 .. n) = n
    BY <1>1, FS_Interval
  <1>5. /\ \A i \in 1 .. n : \E p \in S : place(p) = i
        /\ \A p, q \in S : place(p) < place(q) => p < q
    <2> DEFINE g == [p \in S |-> place(p)]
    <2> HIDE DEF n, place
    <2>1. \A p, q \in S : p # q => p < q \/ q < p
      BY <1>1
    <2>2. \A p \in S : place(p) \in 1 .. n
      BY <1>2
    <2>3. \A p, q \in S : p < q => place(p) < place(q)
      BY <1>3
    <2>4. \A p, q \in S : place(p) = place(q) => p = q
      BY <2>1, <2>2, <2>3
    <2>5. g \in Injection(S, 1 .. n)
      BY <2>2, <2>4 DEF Injection, IsInjective
    <2>6. Cardinality(S) = Cardinality(1 .. n)
      BY <1>4 DEF n
    <2>7. g \in Surjection(S, 1 .. n)
      BY <1>4, <2>5, <2>6, FS_Injection
    <2>8. ASSUME NEW i \in 1 .. n PROVE \E p \in S : place(p) = i
      <3>1. PICK p \in S : g[p] = i
        BY <2>7 DEF Surjection
      <3>2. QED
        BY <3>1
    <2>9. ASSUME NEW p \in S, NEW q \in S, place(p) < place(q) PROVE p < q
      <3>1. p # q => p < q \/ q < p
        BY <2>1
      <3>2. q < p => place(q) < place(p)
        BY <2>3
      <3>3. place(p) \in Int /\ place(q) \in Int
        BY <2>2
      <3>4. QED
        BY <2>9, <3>1, <3>2, <3>3
    <2>10. QED
      BY <2>8, <2>9
  <1>9. order \in [1 .. n -> S] /\ Sorted(order)
    <2> HIDE DEF n, place
    <2>1. \A i \in 1 .. n : order[i] \in S /\ place(order[i]) = i
      BY <1>5
    <2>2. ASSUME NEW i \in 1 .. n, NEW j \in 1 .. n, i < j PROVE order[i] < order[j]
      BY <1>5, <2>1, <2>2
    <2>3. QED
      BY <2>1, <2>2
  <1>6. PICK f \in [1 .. n -> S] : Update!InOrder(S) = f /\ Sorted(f)
    <2>1. Update!InOrder(S) = CHOOSE f \in [1 .. n -> S] : Sorted(f)
      BY SameCardinality DEF Update!InOrder
    <2> HIDE DEF Sorted, order, n
    <2>2. QED
      BY <1>9, <2>1
  <1>7. \A p \in S : \E i \in 1 .. n : f[i] = p
    <2>1. ASSUME NEW i \in 1 .. n, NEW j \in 1 .. n, f[i] = f[j] PROVE i = j
      <3>1. f[i] \in S
        OBVIOUS
      <3>4. f[i] \in Nat
        BY <1>1, <3>1
      <3>5. ~(f[i] < f[i])
        BY <3>4
      <3>2. ~(i < j) /\ ~(j < i)
        BY <1>6, <2>1, <3>5
      <3>3. QED
        BY <1>1, <3>2
    <2> HIDE DEF n
    <2>2. f \in Injection(1 .. n, S)
      BY <2>1 DEF Injection, IsInjective
    <2>3. f \in Surjection(1 .. n, S)
      <3>1. Cardinality(1 .. n) = Cardinality(S)
        BY <1>4 DEF n
      <3>2. QED
        BY <2>2, <3>1, FS_Injection
    <2>4. QED
      BY <2>3 DEF Surjection
  <1> HIDE DEF n, Sorted
  <1>8. f \in Seq(S) /\ DOMAIN f = 1 .. n
    BY <1>1
  <1>10. QED
    BY <1>6, <1>7, <1>8 DEF Lists

(* The entries to be written are all that the manifest m has at Q. *)
ListsEntries(w, m, Q) ==
    /\ w \in Seq(Entered)
    /\ \A i \in DOMAIN w : w[i].path \in Q /\ w[i].file = m[w[i].path]
    /\ \A p \in Q : \E i \in DOMAIN w : w[i].path = p

EntriesIn(order, m) == [i \in DOMAIN order |-> Update!Entry(order[i], m[order[i]])]

LEMMA EntriesAre ==
    ASSUME NEW Q \in SUBSET Paths, NEW m, \A q \in Q : m[q] \in Files,
           NEW order, Lists(order, Q)
    PROVE  ListsEntries(EntriesIn(order, m), m, Q)
  <1> DEFINE w == EntriesIn(order, m)
  <1>0. order \in Seq(Q) /\ \A p \in Q : \E i \in DOMAIN order : order[i] = p
    BY DEF Lists
  <1>1. /\ Len(order) \in Nat /\ DOMAIN order = 1 .. Len(order)
        /\ \A i \in 1 .. Len(order) : order[i] \in Q
    BY <1>0, LenProperties, ElementOfSeq
  <1>2. DOMAIN w = 1 .. Len(order) /\ w = [i \in 1 .. Len(order) |-> w[i]]
    BY <1>1 DEF EntriesIn
  <1>3. ASSUME NEW i \in 1 .. Len(order)
        PROVE  /\ w[i] \in Entered /\ w[i].path = order[i] /\ w[i].path \in Q
               /\ w[i].file = m[w[i].path]
    <2>1. w[i] = [path |-> order[i], file |-> m[order[i]]]
      BY <1>1 DEF Update!Entry, EntriesIn
    <2>2. order[i] \in Q /\ order[i] \in Paths /\ m[order[i]] \in Files
      BY <1>1
    <2>3. QED
      BY <2>1, <2>2 DEF Entered
  <1> HIDE DEF w
  <1>4. w \in [1 .. Len(order) -> Entered]
    BY <1>2, <1>3
  <1>5. w \in Seq(Entered)
    BY <1>1, <1>4
  <1>6. \A p \in Q : \E i \in DOMAIN w : w[i].path = p
    BY <1>0, <1>1, <1>2, <1>3
  <1>7. QED
    BY <1>1, <1>2, <1>3, <1>5, <1>6 DEF ListsEntries, w

LEMMA JoinedLists ==
    ASSUME NEW S, NEW T, NEW s, NEW t, Lists(s, S), Lists(t, T)
    PROVE  Lists(s \o t, S \cup T)
  <1> DEFINE Q == S \cup T
             u == s \o t
  <1>0. s \in Seq(Q) /\ t \in Seq(Q)
    BY SeqMonotonic DEF Lists
  <1>1. /\ u \in Seq(Q) /\ Len(u) = Len(s) + Len(t)
        /\ \A i \in 1 .. Len(s) + Len(t) : u[i] = IF i <= Len(s) THEN s[i] ELSE t[i - Len(s)]
    BY <1>0, ConcatProperties
  <1>2. /\ Len(s) \in Nat /\ DOMAIN s = 1 .. Len(s) /\ Len(t) \in Nat /\ DOMAIN t = 1 .. Len(t)
        /\ DOMAIN u = 1 .. Len(u)
    BY <1>0, <1>1, LenProperties
  <1> HIDE DEF u
  <1>3. ASSUME NEW i \in DOMAIN s PROVE \E k \in DOMAIN u : u[k] = s[i]
    <2>1. i \in 1 .. Len(s) + Len(t) /\ i <= Len(s)
      BY <1>2
    <2>2. u[i] = s[i] /\ i \in DOMAIN u
      BY <1>1, <1>2, <2>1
    <2>3. QED
      BY <2>2
  <1>4. ASSUME NEW i \in DOMAIN t PROVE \E k \in DOMAIN u : u[k] = t[i]
    <2>1. /\ i + Len(s) \in 1 .. Len(s) + Len(t) /\ ~(i + Len(s) <= Len(s))
          /\ (i + Len(s)) - Len(s) = i
      BY <1>2
    <2>2. u[i + Len(s)] = t[i] /\ i + Len(s) \in DOMAIN u
      BY <1>1, <1>2, <2>1
    <2>3. QED
      BY <2>2
  <1>5. QED
    <2>1. ASSUME NEW p \in Q PROVE \E k \in DOMAIN u : u[k] = p
      <3>1. CASE p \in S
        BY <1>3, <3>1 DEF Lists
      <3>2. CASE p \in T
        BY <1>4, <3>2 DEF Lists
      <3>3. QED
        BY <3>1, <3>2
    <2>2. Lists(u, Q)
      BY <1>1, <2>1 DEF Lists
    <2>3. QED
      BY <2>2 DEF u

------------------------------------------------------------------------------
(* The directory                                                           *)

(* What lies at a path: nothing, or the file of an entry. *)
LEMMA OnDiskIs ==
    ASSUME NEW d \in SUBSET Entered
    PROVE  /\ Update!OnDisk(d) \in Manifests
           /\ \A p \in Paths :
                \/ Update!OnDisk(d)[p] = Absent /\ \A e \in d : e.path # p
                \/ \E e \in d : e.path = p /\ Update!OnDisk(d)[p] = e.file
  <1>1. ASSUME NEW p \in Paths
        PROVE  /\ Update!OnDisk(d)[p] \in Files \cup {Absent}
               /\ \/ Update!OnDisk(d)[p] = Absent /\ \A e \in d : e.path # p
                  \/ \E e \in d : e.path = p /\ Update!OnDisk(d)[p] = e.file
    <2>1. CASE \E e \in d : e.path = p
      <3> DEFINE x == CHOOSE e \in d : e.path = p
      <3>1. x \in d /\ x.path = p
        BY <2>1
      <3>2. Update!OnDisk(d)[p] = x.file
        BY <2>1 DEF Update!OnDisk
      <3> HIDE DEF x
      <3>3. x.file \in Files
        BY <3>1 DEF Entered
      <3>4. QED
        BY <3>1, <3>2, <3>3
    <2>2. CASE ~ \E e \in d : e.path = p
      BY <2>2 DEF Update!OnDisk
    <2>3. QED
      BY <2>1, <2>2
  <1>2. Update!OnDisk(d) = [p \in Paths |-> Update!OnDisk(d)[p]]
    BY DEF Update!OnDisk
  <1>3. Update!OnDisk(d) \in Manifests
    BY <1>1, <1>2 DEF Manifests
  <1>4. QED
    BY <1>1, <1>3

(* Two files never share a place, so an entry is what lies there.    *)
LEMMA OnDiskAt ==
    ASSUME NEW d \in SUBSET Entered, Update!FileSystemHolds(d), NEW e \in d
    PROVE  Update!OnDisk(d)[e.path] = e.file
  <1>1. e.path \in Paths
    BY DEF Entered
  <1>2. PICK x \in d : x.path = e.path /\ Update!OnDisk(d)[e.path] = x.file
    BY <1>1, OnDiskIs
  <1>3. Update!Place(x.path) = Update!Place(e.path)
    BY <1>2
  <1>4. x = e
    BY <1>3 DEF Update!FileSystemHolds
  <1>5. QED
    BY <1>2, <1>4

(* A scan finds what lies there, unless it leaves the path out. *)
LEMMA ScannedIs ==
    ASSUME NEW d \in SUBSET Entered
    PROVE  /\ Update!Scanned(d) \in Manifests
           /\ \A p \in Paths :
                Update!Scanned(d)[p] = IF p \in Ignored THEN Absent ELSE Update!OnDisk(d)[p]
    BY OnDiskIs DEF Update!Scanned, Manifests

(* There is room for an entry: in the place of another one, or in one that *)
(* nothing blocks.                                                         *)
HasRoom(d, entry) ==
    \/ \E e \in d : Update!Place(e.path) = Update!Place(entry.path)
    \/ \A e \in d : ~Update!Blocks(e.path, entry.path)

LEMMA WrittenHolds ==
    ASSUME NEW d \in SUBSET Entered, Update!FileSystemHolds(d), NEW entry \in Entered,
           HasRoom(d, entry)
    PROVE  Update!Written(d, entry) \in SUBSET Entered
           /\ Update!FileSystemHolds(Update!Written(d, entry))
  <1> DEFINE W == Update!Written(d, entry)
             there == Update!Place(entry.path)
  <1>1. /\ entry.path \in Paths /\ entry.file \in Files
        /\ \A e \in d : e.path \in Paths /\ e.file \in Files
    BY DEF Entered
  <1>2. CASE \A e \in d : Update!Place(e.path) # there
    <2>1. W = d \cup {entry}
      BY <1>2 DEF Update!Written
    <2>2. \A e \in d : ~Update!Blocks(e.path, entry.path) /\ ~Update!Blocks(entry.path, e.path)
      BY <1>2 DEF HasRoom, Update!Blocks
    <2>3. Update!FileSystemHolds(W)
      BY <1>2, <2>1, <2>2 DEF Update!FileSystemHolds
    <2>4. QED
      BY <2>1, <2>3
  <1>3. CASE \E e \in d : Update!Place(e.path) = there
    <2>1. PICK x \in d : Update!Place(x.path) = there
      BY <1>3
    <2>2. \A e \in d : Update!Place(e.path) = there <=> e = x
      BY <2>1 DEF Update!FileSystemHolds
    <2> DEFINE y == [path |-> x.path, file |-> entry.file]
    <2>3. W = (d \ {x}) \cup {y}
      <3>1. {e \in d : Update!Place(e.path) = there} = {x}
        BY <2>2
      <3>2. {Update!Entry(e.path, entry.file) : e \in {x}} = {y}
        BY DEF Update!Entry
      <3>3. QED
        BY <3>1, <3>2 DEF Update!Written
    <2>4. y \in Entered /\ y.path = x.path
      BY <1>1 DEF Entered
    <2> HIDE DEF y, W
    <2>5. W \in SUBSET Entered
      BY <2>3, <2>4
    <2>6. ASSUME NEW e \in W, NEW z \in W, e # z
          PROVE  Update!Place(e.path) # Update!Place(z.path) /\ ~Update!Blocks(e.path, z.path)
      <3>1. \A a \in d, b \in d : a # b =>
                Update!Place(a.path) # Update!Place(b.path) /\ ~Update!Blocks(a.path, b.path)
        BY DEF Update!FileSystemHolds
      <3>2. PICK a \in d : e.path = a.path /\ (a = x <=> e = y) /\ (a # x => e = a)
        BY <2>3, <2>4
      <3>3. PICK b \in d : z.path = b.path /\ (b = x <=> z = y) /\ (b # x => z = b)
        BY <2>3, <2>4
      <3>4. a # b
        BY <2>6, <3>2, <3>3
      <3>5. QED
        BY <3>1, <3>2, <3>3, <3>4
    <2>7. QED
      BY <2>5, <2>6 DEF Update!FileSystemHolds, W
  <1>4. QED
    BY <1>2, <1>3

(* What was written lies in its place. *)
LEMMA WrittenIsThere ==
    ASSUME NEW d, NEW entry
    PROVE  \E e \in Update!Written(d, entry) : Update!Place(e.path) = Update!Place(entry.path)
  <1>1. CASE \E x \in d : Update!Place(x.path) = Update!Place(entry.path)
    <2>1. PICK x \in d : Update!Place(x.path) = Update!Place(entry.path)
      BY <1>1
    <2>2. Update!Entry(x.path, entry.file) \in Update!Written(d, entry)
      BY <2>1 DEF Update!Written
    <2>3. Update!Entry(x.path, entry.file).path = x.path
      BY DEF Update!Entry
    <2>4. QED
      BY <2>1, <2>2, <2>3
  <1>2. CASE ~ \E x \in d : Update!Place(x.path) = Update!Place(entry.path)
    BY <1>2 DEF Update!Written
  <1>3. QED
    BY <1>1, <1>2

(* Less is held as well. *)
LEMMA HeldWithout ==
    ASSUME NEW d, Update!FileSystemHolds(d), NEW less \in SUBSET d
    PROVE  Update!FileSystemHolds(less)
    BY DEF Update!FileSystemHolds

------------------------------------------------------------------------------
(* Types                                                                   *)

UpdateTypes ==
    /\ kind \in {"sync", "checkout"} /\ base \in Manifests /\ target \in Manifests
    /\ disk \in SUBSET Entered /\ Update!FileSystemHolds(disk)
    /\ conflicts \in SUBSET Paths /\ goal \in Manifests \cup {Update!Unset}
    /\ writes \in Seq(Entered) /\ removals \in SUBSET Paths
    /\ phase \in {"idle", "write", "fill", "remove", "done", "failed", "refused"}
    /\ phase = "fill" =>
          /\ writes # <<>>
          /\ \E e \in disk : Update!Place(e.path) = Update!Place(Head(writes).path)

LEMMA UpdateTypesAre == UpdateTypes <=> Update!TypeOK
    BY SameMerge DEF UpdateTypes, Update!TypeOK, Entered

LEMMA UpdateTypesInit == Update!Init => UpdateTypes
  <1> SUFFICES ASSUME Update!Init PROVE UpdateTypes
    OBVIOUS
  <1> DEFINE Bare == [Paths -> (Files \ Local) \cup {Absent}]
  <1>1. \A m \in Bare : m \in Manifests
    BY DEF Manifests
  <1>2. base \in Bare /\ target \in Bare
    BY DEF Update!Init
  <1>3. disk \in SUBSET Entered /\ Update!FileSystemHolds(disk) /\ phase = "idle"
    BY DEF Update!Init, Entered
  <1>4. <<>> \in Seq(Entered)
    OBVIOUS
  <1> HIDE DEF Bare
  <1>6. QED
    BY <1>1, <1>2, <1>3, <1>4 DEF Update!Init, UpdateTypes

(* What a sync and a checkout set out to write. *)
SyncOrder(before, after) ==
    Update!InOrder(Update!Added(before, after)) \o Update!InOrder(Update!Changed(before, after))
        \o Update!InOrder({r[2] : r \in Update!Renamed(before, after)})

LEMMA SyncOrderIs ==
    ASSUME IsFiniteSet(Paths), NEW b, NEW a
    PROVE  Lists(SyncOrder(b, a), Incoming(b, a))
  <1> DEFINE A == Added(b, a)
             C == Changed(b, a)
             R == {r[2] : r \in Renamed(b, a)}
             sA == Update!InOrder(A)
             sC == Update!InOrder(C)
             sR == Update!InOrder(R)
  <1>1. /\ A \in SUBSET Paths /\ C \in SUBSET Paths
        /\ Incoming(b, a) = (A \cup C) \cup R
    BY DEF Added, Appeared, Changed, PathsOf, Incoming
  <1>2. R \in SUBSET Paths
    BY DEF Renamed, Appeared, PathsOf
  <1>3. SyncOrder(b, a) = (sA \o sC) \o sR
    BY SameDiff DEF SyncOrder
  <1> HIDE DEF A, C, R
  <1>4. IsFiniteSet(A) /\ IsFiniteSet(C) /\ IsFiniteSet(R)
    BY <1>1, <1>2, FS_Subset
  <1>5. Lists(sA, A) /\ Lists(sC, C) /\ Lists(sR, R)
    BY <1>1, <1>2, <1>4, InOrderIs
  <1> HIDE DEF sA, sC, sR
  <1>6. Lists(sA \o sC, A \cup C)
    BY <1>5, JoinedLists
  <1>7. Lists((sA \o sC) \o sR, (A \cup C) \cup R)
    BY <1>5, <1>6, JoinedLists
  <1>8. QED
    BY <1>1, <1>3, <1>7

(* A sync that starts: what it found, what the first attempt set out for,  *)
(* and what is between the two.                                            *)
LEMMA SyncBegins ==
    ASSUME IsFiniteSet(Paths), UpdateTypes, Update!BeginSync,
           NEW found, found = Update!Scanned(disk),
           NEW merged, merged = MergeOf(base, found, target)
    PROVE  /\ found \in Manifests /\ merged \in Manifests
           /\ conflicts' = ConflictsOf(base, found, target) /\ conflicts' \in SUBSET Paths
           /\ goal' = IF goal = Update!Unset THEN merged ELSE goal
           /\ ListsEntries(writes', merged, Incoming(found, merged))
           /\ removals' = Outgoing(found, merged) /\ removals' \in SUBSET Paths
           /\ phase = "idle" /\ kind = "sync" /\ phase' = "write"
           /\ UNCHANGED <<kind, base, target, disk>>
  <1>1. found \in Manifests
    BY ScannedIs DEF UpdateTypes
  <1>2. merged \in Manifests
    <2>1. ASSUME NEW p \in Paths PROVE merged[p] \in Files \cup {Absent}
      <3>1. /\ base[p] \in Entries /\ found[p] \in Entries /\ target[p] \in Entries
        BY <1>1, EntriesOfManifest DEF UpdateTypes
      <3>2. merged[p] = Rule(base[p], found[p], target[p]).file
        BY <1>1, MergeAtPath DEF UpdateTypes
      <3>3. merged[p] \in {base[p], found[p], target[p]}
        BY <3>2 DEF Rule, Outcome
      <3>4. QED
        BY <3>1, <3>3 DEF Entries
    <2>2. merged = [p \in Paths |-> merged[p]]
      BY DEF MergeOf
    <2>3. QED
      BY <2>1, <2>2 DEF Manifests
  <1> DEFINE order == SyncOrder(found, merged)
             I == Incoming(found, merged)
  <1>3. /\ conflicts' = ConflictsOf(base, found, target) /\ goal' = IF goal = Update!Unset THEN merged ELSE goal
        /\ writes' = EntriesIn(order, merged)
        /\ removals' = Outgoing(found, merged)
        /\ phase = "idle" /\ kind = "sync" /\ phase' = "write"
        /\ UNCHANGED <<kind, base, target, disk>>
    BY SameMerge, SameDiff DEF Update!BeginSync, Update!Moves, SyncOrder, EntriesIn
  <1>4. Lists(order, I)
    BY SyncOrderIs
  <1>5. I \in SUBSET Paths /\ \A p \in I : merged[p] \in Files
    <2>1. ASSUME NEW p \in I PROVE p \in Paths /\ merged[p] # Absent
      BY DEF Incoming, Added, Appeared, Changed, Renamed, PathsOf
    <2>2. QED
      BY <1>2, <2>1 DEF Manifests
  <1> HIDE DEF order, I
  <1>6. ListsEntries(writes', merged, I)
    BY <1>3, <1>4, <1>5, EntriesAre
  <1>8. Outgoing(found, merged) \in SUBSET Paths
    <2>1. ASSUME NEW p \in Outgoing(found, merged) PROVE p \in Paths
      <3>1. CASE p \in Removed(found, merged)
        BY <3>1 DEF Removed, Vanished, PathsOf
      <3>2. CASE \E r \in Renamed(found, merged) : p = r[1]
        BY <3>2 DEF Renamed, Vanished, PathsOf
      <3>3. QED
        BY <3>1, <3>2 DEF Outgoing
    <2>2. QED
      BY <2>1
  <1>9. QED
    BY <1>1, <1>2, <1>3, <1>6, <1>8 DEF I, ConflictsOf

LEMMA CheckoutBegins ==
    ASSUME IsFiniteSet(Paths), UpdateTypes, Update!BeginCheckout
    PROVE  /\ conflicts' = {} /\ goal' = target
           /\ ListsEntries(writes', target, PathsOf(target))
           /\ phase = "idle" /\ kind = "checkout" /\ phase' = "write"
           /\ UNCHANGED <<kind, base, target, disk, removals>>
  <1> DEFINE I == PathsOf(target)
             order == Update!InOrder(I)
  <1>1. I \in SUBSET Paths /\ \A p \in I : target[p] \in Files
    BY DEF PathsOf, UpdateTypes, Manifests
  <1>2. /\ conflicts' = {} /\ goal' = target
        /\ writes' = EntriesIn(order, target)
        /\ phase = "idle" /\ kind = "checkout" /\ phase' = "write"
        /\ UNCHANGED <<kind, base, target, disk, removals>>
    BY SameMerge DEF Update!BeginCheckout, Update!Moves, EntriesIn
  <1> HIDE DEF I
  <1>3. Lists(order, I)
    BY <1>1, FS_Subset, InOrderIs
  <1> HIDE DEF order
  <1>4. ListsEntries(writes', target, I)
    BY <1>1, <1>2, <1>3, EntriesAre
  <1>5. QED
    BY <1>2, <1>4 DEF I

(* What remains after the first entry, and the first, are all there was. *)
LEMMA FirstAndRest ==
    ASSUME NEW w \in Seq(Entered), w # <<>>
    PROVE  /\ Head(w) \in Entered /\ Tail(w) \in Seq(Entered)
           /\ \E j \in DOMAIN w : w[j] = Head(w)
           /\ \A i \in DOMAIN Tail(w) : \E j \in DOMAIN w : Tail(w)[i] = w[j]
           /\ \A j \in DOMAIN w : w[j] = Head(w) \/ \E i \in DOMAIN Tail(w) : Tail(w)[i] = w[j]
  <1>1. /\ Len(w) \in Nat \ {0} /\ DOMAIN w = 1 .. Len(w)
    BY EmptySeq, LenProperties
  <1>2. /\ Head(w) \in Entered /\ Tail(w) \in Seq(Entered)
        /\ Len(Tail(w)) = Len(w) - 1 /\ DOMAIN Tail(w) = 1 .. Len(w) - 1
        /\ \A i \in 1 .. Len(w) - 1 : Tail(w)[i] = w[i + 1]
    BY HeadTailProperties, LenProperties
  <1>3. Head(w) = w[1] /\ 1 \in DOMAIN w
    BY <1>1
  <1>4. ASSUME NEW i \in DOMAIN Tail(w) PROVE \E j \in DOMAIN w : Tail(w)[i] = w[j]
    <2>1. i + 1 \in DOMAIN w
      BY <1>1, <1>2
    <2>2. QED
      BY <1>2, <2>1
  <1>5. ASSUME NEW j \in DOMAIN w
        PROVE  w[j] = Head(w) \/ \E i \in DOMAIN Tail(w) : Tail(w)[i] = w[j]
    <2>1. CASE j = 1
      BY <1>3, <2>1
    <2>2. CASE j # 1
      <3>1. j - 1 \in DOMAIN Tail(w) /\ (j - 1) + 1 = j
        BY <1>1, <1>2, <2>2
      <3>2. Tail(w)[j - 1] = w[j]
        BY <1>2, <3>1
      <3>3. QED
        BY <3>1, <3>2
    <2>3. QED
      BY <2>1, <2>2
  <1>6. QED
    BY <1>2, <1>3, <1>4, <1>5

LEMMA UpdateTypesCreate ==
    ASSUME Torn \in SUBSET Files, UpdateTypes, Update!Create
    PROVE  UpdateTypes'
  <1>1. PICK cut \in Torn : disk' = Update!Written(disk, Update!Entry(Head(writes).path, cut))
    BY DEF Update!Create
  <1>2. PICK entry : entry = Update!Entry(Head(writes).path, cut)
    OBVIOUS
  <1>3. /\ writes \in Seq(Entered) /\ writes # <<>> /\ disk \in SUBSET Entered
        /\ Update!FileSystemHolds(disk)
        /\ \A e \in disk : ~Update!Blocks(e.path, Head(writes).path)
        /\ phase' = "fill"
        /\ UNCHANGED <<kind, base, target, conflicts, goal, writes, removals>>
    BY DEF UpdateTypes, Update!Create, Update!Moves
  <1>4. Head(writes) \in Entered
    BY <1>3, FirstAndRest
  <1>5. entry \in Entered /\ entry.path = Head(writes).path
    BY <1>2, <1>4 DEF Update!Entry, Entered
  <1>6. HasRoom(disk, entry)
    BY <1>3, <1>5 DEF HasRoom
  <1>7. PICK W : W = disk'
    OBVIOUS
  <1>8. W = Update!Written(disk, entry)
    BY <1>1, <1>2, <1>7
  <1>9. /\ W \in SUBSET Entered /\ Update!FileSystemHolds(W)
        /\ \E e \in W : Update!Place(e.path) = Update!Place(entry.path)
    BY <1>3, <1>5, <1>6, <1>8, WrittenHolds, WrittenIsThere
  <1>10. /\ Update!FileSystemHolds(disk)' /\ Update!Unset' = Update!Unset
         /\ disk' \in SUBSET Entered
    BY <1>7, <1>9 DEF Update!FileSystemHolds, Update!Place, Update!Blocks, Update!Unset
  <1>11. (\E e \in disk : Update!Place(e.path) = Update!Place(Head(writes).path))'
    BY <1>3, <1>5, <1>7, <1>9 DEF Update!Place
  <1>12. QED
    BY <1>3, <1>10, <1>11 DEF UpdateTypes

LEMMA UpdateTypesFill ==
    ASSUME UpdateTypes, Update!Fill
    PROVE  UpdateTypes'
  <1>1. PICK entry : entry = Head(writes)
    OBVIOUS
  <1>2. /\ writes \in Seq(Entered) /\ writes # <<>> /\ disk \in SUBSET Entered
        /\ Update!FileSystemHolds(disk)
        /\ \E e \in disk : Update!Place(e.path) = Update!Place(entry.path)
        /\ disk' = Update!Written(disk, entry) /\ writes' = Tail(writes)
        /\ phase' = "write" /\ UNCHANGED <<kind, base, target, conflicts, goal, removals>>
    BY <1>1 DEF UpdateTypes, Update!Fill, Update!Moves
  <1>3. entry \in Entered /\ Tail(writes) \in Seq(Entered)
    BY <1>1, <1>2, FirstAndRest
  <1>4. disk' \in SUBSET Entered /\ Update!FileSystemHolds(disk')
    BY <1>2, <1>3, WrittenHolds DEF HasRoom
  <1>5. Update!FileSystemHolds(disk)'
    BY <1>4 DEF Update!FileSystemHolds, Update!Place, Update!Blocks
  <1>6. Update!Unset' = Update!Unset
    BY DEF Update!Unset
  <1>7. QED
    BY <1>2, <1>3, <1>4, <1>5, <1>6 DEF UpdateTypes

LEMMA UpdateTypesDelete ==
    ASSUME UpdateTypes, NEW p \in Paths, Update!DeleteFile(p)
    PROVE  UpdateTypes'
  <1>1. /\ disk' \in SUBSET disk /\ removals' = removals \ {p} /\ phase' = "remove"
        /\ UNCHANGED <<kind, base, target, conflicts, goal, writes>>
    BY DEF Update!DeleteFile, Update!Moves
  <1>2. Update!FileSystemHolds(disk')
    BY <1>1, HeldWithout DEF UpdateTypes
  <1>3. Update!FileSystemHolds(disk)'
    BY <1>2 DEF Update!FileSystemHolds, Update!Place, Update!Blocks
  <1>4. Update!Unset' = Update!Unset
    BY DEF Update!Unset
  <1>5. QED
    BY <1>1, <1>3, <1>4 DEF UpdateTypes

(* What is assumed of TreeUpdate's constants: paths are finitely many, and *)
(* a file cut short is not one that its user has edited.                   *)
UpdateConstants == IsFiniteSet(Paths) /\ Torn \subseteq Files \ Local

LEMMA UpdateTypesNext ==
    ASSUME UpdateConstants, UpdateTypes, [Update!Next]_(Update!vars)
    PROVE  UpdateTypes'
  <1>1. ASSUME UNCHANGED disk PROVE Update!FileSystemHolds(disk)'
    BY <1>1 DEF UpdateTypes, Update!FileSystemHolds, Update!Place, Update!Blocks
  <1>2. Update!Unset' = Update!Unset
    BY DEF Update!Unset
  <1>3. CASE Update!BeginSync
    <2>1. PICK found, merged :
             found = Update!Scanned(disk) /\ merged = MergeOf(base, found, target)
      OBVIOUS
    <2>2. /\ conflicts' \in SUBSET Paths /\ goal' \in Manifests \cup {Update!Unset}
          /\ ListsEntries(writes', merged, Incoming(found, merged))
          /\ removals' \in SUBSET Paths /\ phase' = "write"
          /\ UNCHANGED <<kind, base, target, disk>>
      BY <1>3, <2>1, SyncBegins DEF UpdateTypes, UpdateConstants
    <2>3. QED
      BY <1>1, <1>2, <2>2 DEF UpdateTypes, ListsEntries
  <1>4. CASE Update!BeginCheckout
    <2>1. /\ conflicts' = {} /\ goal' = target
          /\ ListsEntries(writes', target, PathsOf(target)) /\ phase' = "write"
          /\ UNCHANGED <<kind, base, target, disk, removals>>
      BY <1>4, CheckoutBegins DEF UpdateConstants
    <2>2. QED
      BY <1>1, <1>2, <2>1 DEF UpdateTypes, ListsEntries
  <1>5. CASE Update!Create \/ Update!Fill
    BY <1>5, UpdateTypesCreate, UpdateTypesFill DEF UpdateConstants
  <1>6. CASE \E p \in Paths : Update!DeleteFile(p)
    BY <1>6, UpdateTypesDelete
  <1>7. CASE Update!WritesDone
    <2>1. removals' \in SUBSET Paths /\ phase' = "remove"
          /\ UNCHANGED <<kind, base, target, disk, conflicts, goal, writes>>
      <3>1. Update!PathsOf(Update!Scanned(disk)) \in SUBSET Paths
        BY DEF Update!PathsOf
      <3>2. QED
        BY <1>7, <3>1 DEF Update!WritesDone, Update!Moves, UpdateTypes
    <2>2. QED
      BY <1>1, <1>2, <2>1 DEF UpdateTypes
  <1>8. CASE Update!Settle
    BY <1>1, <1>2, <1>8 DEF UpdateTypes, Update!Settle
  <1>9. CASE Update!Refuse \/ Update!Fail
    BY <1>1, <1>2, <1>9 DEF UpdateTypes, Update!Refuse, Update!Fail, Update!Moves
  <1>10. CASE Update!Repeat
    <2>1. <<>> \in Seq(Entered)
      OBVIOUS
    <2>2. QED
      BY <1>1, <1>2, <1>10, <2>1 DEF UpdateTypes, Update!Repeat, Update!Moves
  <1>11. CASE Update!Ended \/ UNCHANGED Update!vars
    BY <1>1, <1>2, <1>11 DEF UpdateTypes, Update!Ended, Update!vars
  <1>12. QED
    BY <1>3, <1>4, <1>5, <1>6, <1>7, <1>8, <1>9, <1>10, <1>11 DEF Update!Next

(* TreeUpdate: the types of the variables; and wherever a sync or checkout *)
(* stands, and however often it has failed, the file system never has to   *)
(* hold two files in one place.                                            *)
THEOREM UpdateTypeCorrect ==
    ASSUME UpdateConstants
    PROVE  Update!Spec => []Update!TypeOK
  <1>1. UpdateTypes /\ [Update!Next]_(Update!vars) => UpdateTypes'
    BY UpdateTypesNext
  <1>2. Update!Spec => []UpdateTypes
    BY UpdateTypesInit, <1>1, PTL DEF Update!Spec
  <1>3. QED
    BY <1>2, UpdateTypesAre, PTL

------------------------------------------------------------------------------
(* Where it ends                                                           *)

(* On a file system that tells names apart, what lies in the place of an   *)
(* entry is the entry's path, and a write replaces it.                     *)
LEMMA WrittenIs ==
    ASSUME CaseSensitive = TRUE, NEW d \in SUBSET Entered, NEW entry \in Entered
    PROVE  Update!Written(d, entry) = {e \in d : e.path # entry.path} \cup {entry}
  <1> DEFINE found == {e \in d : Update!Place(e.path) = Update!Place(entry.path)}
  <1>1. \A e \in d : Update!Place(e.path) = Update!Place(entry.path) <=> e.path = entry.path
    BY DEF Update!Place
  <1>2. d \ found = {e \in d : e.path # entry.path}
    BY <1>1
  <1>3. ASSUME NEW e \in found PROVE Update!Entry(e.path, entry.file) = entry
    BY <1>1, <1>3 DEF Update!Entry, Entered
  <1>4. (IF found = {} THEN {entry} ELSE {Update!Entry(e.path, entry.file) : e \in found}) = {entry}
    <2> HIDE DEF found
    <2>1. QED
      BY <1>3
  <1>5. QED
    BY <1>2, <1>4 DEF Update!Written

LEMMA OnDiskAfterWrite ==
    ASSUME CaseSensitive = TRUE, NEW d \in SUBSET Entered, Update!FileSystemHolds(d),
           NEW entry \in Entered, HasRoom(d, entry),
           NEW W, W = Update!Written(d, entry)
    PROVE  \A p \in Paths :
               Update!OnDisk(W)[p] = IF p = entry.path THEN entry.file ELSE Update!OnDisk(d)[p]
  <1>1. W = {e \in d : e.path # entry.path} \cup {entry}
    BY WrittenIs
  <1>2. W \in SUBSET Entered /\ Update!FileSystemHolds(W)
    BY WrittenHolds
  <1>3. Update!OnDisk(W)[entry.path] = entry.file
    BY <1>1, <1>2, OnDiskAt
  <1>4. ASSUME NEW p \in Paths, p # entry.path PROVE Update!OnDisk(W)[p] = Update!OnDisk(d)[p]
    <2>1. CASE \A e \in d : e.path # p
      <3>1. \A e \in W : e.path # p
        BY <1>1, <1>4, <2>1
      <3>2. QED
        BY <1>2, <2>1, <3>1, OnDiskIs
    <2>2. CASE \E e \in d : e.path = p
      <3>1. PICK e \in d : e.path = p
        BY <2>2
      <3>2. e \in W
        BY <1>1, <1>4, <3>1
      <3>3. Update!OnDisk(W)[e.path] = e.file /\ Update!OnDisk(d)[e.path] = e.file
        BY <1>2, <3>2, OnDiskAt
      <3>4. QED
        BY <3>1, <3>3
    <2>3. QED
      BY <2>1, <2>2
  <1>5. QED
    BY <1>3, <1>4

LEMMA OnDiskAfterDelete ==
    ASSUME CaseSensitive = TRUE, NEW d \in SUBSET Entered, Update!FileSystemHolds(d),
           NEW gone \in Paths,
           NEW L, L = {e \in d : Update!Place(e.path) # Update!Place(gone)}
    PROVE  /\ L = {e \in d : e.path # gone}
           /\ \A p \in Paths :
                Update!OnDisk(L)[p] = IF p = gone THEN Absent ELSE Update!OnDisk(d)[p]
  <1>1. L = {e \in d : e.path # gone}
    BY DEF Update!Place
  <1>2. L \in SUBSET Entered /\ Update!FileSystemHolds(L)
    BY <1>1, HeldWithout
  <1>3. ASSUME NEW p \in Paths, \A e \in L : e.path # p PROVE Update!OnDisk(L)[p] = Absent
    BY <1>2, <1>3, OnDiskIs
  <1>4. ASSUME NEW p \in Paths, p # gone PROVE Update!OnDisk(L)[p] = Update!OnDisk(d)[p]
    <2>1. CASE \A e \in d : e.path # p
      <3>1. \A e \in L : e.path # p
        BY <1>1, <2>1
      <3>2. QED
        BY <1>3, <2>1, <3>1, OnDiskIs
    <2>2. CASE \E e \in d : e.path = p
      <3>1. PICK e \in d : e.path = p
        BY <2>2
      <3>2. e \in L
        BY <1>1, <1>4, <3>1
      <3>3. Update!OnDisk(L)[e.path] = e.file /\ Update!OnDisk(d)[e.path] = e.file
        BY <1>2, <3>2, OnDiskAt
      <3>4. QED
        BY <3>1, <3>3
    <2>3. QED
      BY <2>1, <2>2
  <1>5. QED
    BY <1>1, <1>3, <1>4

(* What a merge makes of one path depends on that path alone. *)
LEMMA MergeAlike ==
    ASSUME NEW b, NEW t, NEW m, NEW n, NEW p \in Paths, n[p] = m[p]
    PROVE  /\ MergeOf(b, n, t)[p] = MergeOf(b, m, t)[p]
           /\ p \in ConflictsOf(b, n, t) <=> p \in ConflictsOf(b, m, t)
    BY DEF MergeOf, ConflictsOf

(* Where a merge changes what it finds, it takes the other side's change,  *)
(* and does so again when that is what it finds; anything else it finds    *)
(* there is reported and kept.                                             *)
LEMMA MergeChanges ==
    ASSUME NEW b \in Manifests, NEW m \in Manifests, NEW t \in Manifests, NEW p \in Paths
    PROVE  /\ MergeOf(b, m, t)[p] # m[p] =>
                MergeOf(b, m, t)[p] = t[p] /\ b[p] # t[p] /\ (m[p] = b[p] \/ m[p] = Absent)
           /\ m[p] = t[p] => MergeOf(b, m, t)[p] = t[p]
           /\ b[p] # t[p] /\ m[p] \in Files =>
                MergeOf(b, m, t)[p] = t[p] \/ p \in ConflictsOf(b, m, t)
           /\ m[p] \in Files /\ p \in ConflictsOf(b, m, t) => MergeOf(b, m, t)[p] = m[p]
  <1>1. b[p] \in Entries /\ m[p] \in Entries /\ t[p] \in Entries
    BY EntriesOfManifest
  <1>2. /\ MergeOf(b, m, t)[p] = Rule(b[p], m[p], t[p]).file
        /\ p \in ConflictsOf(b, m, t) <=> Rule(b[p], m[p], t[p]).conflict # "none"
    BY <1>1, MergeAtPath, ResolveIsRule DEF ConflictsOf
  <1>3. QED
    BY <1>1, <1>2, AbsentAssumption DEF Rule, Outcome

(* What the diff names has to change, what it does not name has not.       *)
LEMMA DiffNames ==
    ASSUME NEW b \in Manifests, NEW a \in Manifests
    PROVE  /\ Incoming(b, a) \in SUBSET PathsOf(a) /\ Outgoing(b, a) \in SUBSET Paths
           /\ \A p \in Incoming(b, a) \cup Outgoing(b, a) : p \in Paths /\ a[p] # b[p]
           /\ \A p \in Outgoing(b, a) : a[p] = Absent
           /\ \A p \in Paths : p \notin Incoming(b, a) \cup Outgoing(b, a) => a[p] = b[p]
    BY IncomingIsNewOrChanged DEF Appeared, Changed, Vanished, PathsOf

(* Where a merge changes what the directory has, it changes what is        *)
(* recorded into what is recorded.                                         *)
Recorded == [Paths -> (Files \ Local) \cup {Absent}]

LEMMA RecordedAre == \A m \in Recorded : m \in Manifests
    BY DEF Recorded, Manifests

LEMMA MergeSparesUnrecorded ==
    ASSUME NEW b \in Recorded, NEW t \in Recorded, NEW m \in Manifests, NEW p \in Paths,
           MergeOf(b, m, t)[p] # m[p]
    PROVE  /\ m[p] \in Files => m[p] \notin Local
           /\ MergeOf(b, m, t)[p] \in Files => MergeOf(b, m, t)[p] \notin Local
  <1>1. MergeOf(b, m, t)[p] = t[p] /\ (m[p] = b[p] \/ m[p] = Absent)
    BY RecordedAre, MergeChanges
  <1>2. \A x \in {b[p], t[p]} : x \in Files => x \notin Local
    BY AbsentAssumption DEF Recorded
  <1>3. QED
    BY <1>1, <1>2, AbsentAssumption

(* The inductive invariant.  Before the work and all through it the merge  *)
(* has the outcome it had at first, but where it finds a file cut short    *)
(* and reports it; and while it is under way, what is not yet as it shall  *)
(* be is among the entries still to be written or the paths still to be    *)
(* deleted, each of them a change of the other side, and none a file that  *)
(* a scan has seen and nobody recorded.                                    *)
Under == phase \in {"write", "fill", "remove"}

Pending == {writes[i].path : i \in DOMAIN writes}

MergeStandsStill ==
    kind = "sync" /\ phase # "done" /\ goal # Update!Unset =>
        \A p \in Paths :
            \/ MergeOf(base, Update!Scanned(disk), target)[p] = goal[p]
            \/ /\ Update!Scanned(disk)[p] \in Torn
               /\ p \in ConflictsOf(base, Update!Scanned(disk), target)

WorkIsKnown ==
    /\ phase = "idle" => removals = {}
    /\ phase = "remove" => writes = <<>>
    /\ Under => goal \in Manifests
    /\ Under /\ kind = "checkout" => goal = target

WorkIsChange ==
    Under /\ kind = "sync" =>
        \A p \in Pending \cup removals : p \in Paths /\ base[p] # target[p] /\ goal[p] = target[p]

WorkLeadsToGoal ==
    Under =>
        /\ \A i \in DOMAIN writes : writes[i].file = goal[writes[i].path]
        /\ \A p \in removals : goal[p] = Absent
        /\ \A p \in Paths :
              \/ Update!OnDisk(disk)[p] = goal[p]
              \/ p \in Pending \cup removals
              \/ Update!OnDisk(disk)[p] \in Torn /\ p \in conflicts
              \/ p \in Ignored /\ goal[p] = Absent
              \/ kind = "checkout" /\ phase # "remove" /\ goal[p] = Absent

WorkSparesUnrecorded ==
    Under /\ kind = "sync" =>
        /\ \A i \in DOMAIN writes : writes[i].file \notin Local
        /\ \A e \in disk :
              e.path \in (Pending \cup removals) \ Ignored => e.file \notin Local

UpdateInv ==
    /\ UpdateTypes /\ base \in Recorded /\ target \in Recorded
    /\ MergeStandsStill /\ WorkIsKnown /\ WorkIsChange /\ WorkLeadsToGoal
    /\ WorkSparesUnrecorded /\ Update!ArrivesAtGoal

(* What is in the directory and unrecorded is still there. *)
Spared == \A e \in disk : e.file \in Local /\ e.path \notin Ignored => e \in disk'

LEMMA UpdateInvInit == Update!Init => UpdateInv
  <1> SUFFICES ASSUME Update!Init PROVE UpdateInv
    OBVIOUS
  <1>1. UpdateTypes
    BY UpdateTypesInit
  <1>2. base \in Recorded /\ target \in Recorded
    BY DEF Update!Init, Recorded
  <1>3. phase = "idle" /\ goal = Update!Unset /\ removals = {}
    BY DEF Update!Init
  <1>4. QED
    BY <1>1, <1>2, <1>3 DEF UpdateInv, MergeStandsStill, WorkIsKnown, WorkIsChange,
       WorkLeadsToGoal, WorkSparesUnrecorded, Under, Update!ArrivesAtGoal

LEMMA BeginSyncKeeps ==
    ASSUME UpdateConstants, UpdateInv, UpdateTypes', Update!BeginSync
    PROVE  UpdateInv'
  <1>1. PICK found, there : found = Update!Scanned(disk) /\ there = Update!OnDisk(disk)
    OBVIOUS
  <1>2. PICK merged : merged = MergeOf(base, found, target)
    OBVIOUS
  <1> DEFINE I == Incoming(found, merged)
             O == Outgoing(found, merged)
  <1>3. /\ found \in Manifests /\ merged \in Manifests
        /\ conflicts' = ConflictsOf(base, found, target)
        /\ goal' = IF goal = Update!Unset THEN merged ELSE goal
        /\ ListsEntries(writes', merged, I) /\ removals' = O
        /\ phase = "idle" /\ kind = "sync" /\ phase' = "write"
        /\ UNCHANGED <<kind, base, target, disk>>
    BY <1>1, <1>2, SyncBegins DEF UpdateInv, UpdateConstants
  <1>4. /\ I \in SUBSET PathsOf(merged) /\ O \in SUBSET Paths
        /\ \A p \in I \cup O : p \in Paths /\ merged[p] # found[p]
        /\ \A p \in O : merged[p] = Absent
        /\ \A p \in Paths : p \notin I \cup O => merged[p] = found[p]
    BY <1>3, DiffNames
  <1> HIDE DEF I, O
  <1>5. /\ base \in Manifests /\ target \in Manifests /\ Torn \subseteq Files /\ Absent \notin Torn
        /\ \A p \in Paths : found[p] = IF p \in Ignored THEN Absent ELSE there[p]
    BY <1>1, ScannedIs, AbsentAssumption DEF UpdateInv, UpdateTypes, UpdateConstants
  <1>6. /\ goal' \in Manifests
        /\ \A p \in Paths :
             \/ merged[p] = goal'[p]
             \/ found[p] \in Torn /\ p \in ConflictsOf(base, found, target)
    <2>1. CASE goal = Update!Unset
      BY <1>3, <2>1
    <2>2. CASE goal # Update!Unset
      BY <1>1, <1>2, <1>3, <2>2 DEF UpdateInv, UpdateTypes, MergeStandsStill
    <2>3. QED
      BY <2>1, <2>2
  <1>7. \A p \in I \cup O : merged[p] = goal'[p] /\ merged[p] = target[p] /\ base[p] # target[p]
    <2>1. ASSUME NEW p \in I \cup O PROVE merged[p] = target[p] /\ base[p] # target[p]
      BY <1>2, <1>3, <1>4, <1>5, MergeChanges
    <2>2. ASSUME NEW p \in I \cup O, found[p] \in Torn, p \in ConflictsOf(base, found, target)
          PROVE  FALSE
      <3>1. merged[p] = found[p]
        BY <1>2, <1>3, <1>4, <1>5, <2>2, MergeChanges
      <3>2. QED
        BY <1>4, <3>1
    <2>3. QED
      BY <1>4, <1>6, <2>1, <2>2
  <1>8. Update!Scanned(disk)' = found /\ Update!OnDisk(disk)' = there
    BY <1>1, <1>3 DEF Update!Scanned, Update!OnDisk
  <1>9. /\ \A i \in DOMAIN writes' : writes'[i].path \in I
                                     /\ writes'[i].file = merged[writes'[i].path]
        /\ Pending' = I
    BY <1>3 DEF ListsEntries, Pending
  <1>10. MergeStandsStill'
    BY <1>2, <1>3, <1>6, <1>8 DEF MergeStandsStill
  <1>11. WorkIsKnown' /\ WorkIsChange'
    BY <1>3, <1>4, <1>6, <1>7, <1>9 DEF WorkIsKnown, WorkIsChange
  <1>12. WorkLeadsToGoal'
    <2>1. \A i \in DOMAIN writes' : writes'[i].file = goal'[writes'[i].path]
      BY <1>7, <1>9
    <2>2. \A p \in removals' : goal'[p] = Absent
      BY <1>3, <1>4, <1>7
    <2>3. ASSUME NEW p \in Paths, p \notin I \cup O
          PROVE  \/ there[p] = goal'[p]
                 \/ there[p] \in Torn /\ p \in conflicts'
                 \/ p \in Ignored /\ goal'[p] = Absent
      BY <1>3, <1>4, <1>5, <1>6, <2>3
    <2>4. QED
      BY <1>3, <1>8, <1>9, <2>1, <2>2, <2>3 DEF WorkLeadsToGoal
  <1>13. WorkSparesUnrecorded'
    <2>1. ASSUME NEW p \in I \cup O
          PROVE  /\ found[p] \in Files => found[p] \notin Local
                 /\ merged[p] \in Files => merged[p] \notin Local
      BY <1>2, <1>3, <1>4, <2>1, MergeSparesUnrecorded DEF UpdateInv
    <2>2. ASSUME NEW i \in DOMAIN writes' PROVE writes'[i].file \notin Local
      <3>1. /\ writes'[i].path \in I /\ writes'[i].file = merged[writes'[i].path]
        BY <1>9
      <3>2. merged[writes'[i].path] \in Files
        BY <1>3, <1>4, <3>1 DEF PathsOf, Manifests
      <3>3. QED
        BY <2>1, <3>1, <3>2
    <2>3. ASSUME NEW e \in disk, e.path \in (I \cup O) \ Ignored PROVE e.file \notin Local
      <3>1. e \in Entered /\ there[e.path] = e.file
        BY <1>1, OnDiskAt DEF UpdateInv, UpdateTypes
      <3>2. e.file \in Files /\ found[e.path] = e.file
        BY <1>5, <2>3, <3>1 DEF Entered
      <3>3. QED
        BY <2>1, <2>3, <3>2
    <2>4. QED
      BY <1>3, <1>9, <2>2, <2>3 DEF WorkSparesUnrecorded
  <1>14. QED
    BY <1>3, <1>10, <1>11, <1>12, <1>13 DEF UpdateInv, Update!ArrivesAtGoal

LEMMA BeginCheckoutKeeps ==
    ASSUME UpdateConstants, UpdateInv, UpdateTypes', Update!BeginCheckout
    PROVE  UpdateInv'
  <1>1. /\ goal' = target /\ ListsEntries(writes', target, PathsOf(target))
        /\ phase = "idle" /\ kind = "checkout" /\ phase' = "write"
        /\ UNCHANGED <<kind, base, target, disk, removals>>
    BY CheckoutBegins DEF UpdateInv, UpdateConstants
  <1>2. removals' = {}
    BY <1>1 DEF UpdateInv, WorkIsKnown
  <1>3. /\ \A i \in DOMAIN writes' : writes'[i].file = target[writes'[i].path]
        /\ Pending' = PathsOf(target)
    BY <1>1 DEF ListsEntries, Pending
  <1>4. MergeStandsStill' /\ WorkIsKnown' /\ WorkIsChange' /\ WorkSparesUnrecorded'
    BY <1>1, <1>2 DEF UpdateInv, UpdateTypes, MergeStandsStill, WorkIsKnown, WorkIsChange,
       WorkSparesUnrecorded
  <1>5. WorkLeadsToGoal'
    BY <1>1, <1>2, <1>3 DEF WorkLeadsToGoal, PathsOf
  <1>6. QED
    BY <1>1, <1>4, <1>5 DEF UpdateInv, Update!ArrivesAtGoal

(* A file that is written at a path of the work. *)
LEMMA WriteTouches ==
    ASSUME CaseSensitive = TRUE, UpdateInv, phase \in {"write", "fill"},
           NEW entry \in Entered, entry.path \in Pending, HasRoom(disk, entry),
           NEW W, W = Update!Written(disk, entry), W = disk'
    PROVE  /\ W \in SUBSET Entered
           /\ \A e \in W : e \in disk \/ e = entry
           /\ \A p \in Paths : Update!OnDisk(W)[p]
                                 = IF p = entry.path THEN entry.file ELSE Update!OnDisk(disk)[p]
           /\ \A p \in Paths : Update!Scanned(W)[p]
                                 = IF p = entry.path /\ p \notin Ignored THEN entry.file
                                   ELSE Update!Scanned(disk)[p]
           /\ kind = "sync" => Spared
  <1>1. disk \in SUBSET Entered /\ Update!FileSystemHolds(disk)
    BY DEF UpdateInv, UpdateTypes
  <1>2. W = {e \in disk : e.path # entry.path} \cup {entry}
    BY <1>1, WrittenIs
  <1>3. W \in SUBSET Entered
    BY <1>1, WrittenHolds
  <1>4. \A p \in Paths : Update!OnDisk(W)[p]
                           = IF p = entry.path THEN entry.file ELSE Update!OnDisk(disk)[p]
    <2>1. PICK d : d = disk
      OBVIOUS
    <2>2. d \in SUBSET Entered /\ Update!FileSystemHolds(d) /\ HasRoom(d, entry)
          /\ W = Update!Written(d, entry)
      BY <1>1, <2>1
    <2>3. QED
      BY <2>1, <2>2, OnDiskAfterWrite
  <1>5. \A p \in Paths : Update!Scanned(W)[p]
                           = IF p = entry.path /\ p \notin Ignored THEN entry.file
                             ELSE Update!Scanned(disk)[p]
    BY <1>1, <1>3, <1>4, ScannedIs
  <1>6. ASSUME kind = "sync" PROVE Spared
    <2>1. SUFFICES ASSUME NEW e \in disk, e.file \in Local, e.path \notin Ignored
                   PROVE  e.path # entry.path
      BY <1>2 DEF Spared
    <2>2. e.path \notin Pending
      BY <1>6, <2>1 DEF UpdateInv, WorkSparesUnrecorded, Under
    <2>3. QED
      BY <2>2
  <1>7. QED
    BY <1>2, <1>3, <1>4, <1>5, <1>6

LEMMA CreateKeeps ==
    ASSUME UpdateConstants, CaseSensitive = TRUE, UpdateInv, UpdateTypes', Update!Create
    PROVE  UpdateInv' /\ (kind = "sync" => Spared)
  <1>1. PICK cut \in Torn : disk' = Update!Written(disk, Update!Entry(Head(writes).path, cut))
    BY DEF Update!Create
  <1>2. PICK entry : entry = Update!Entry(Head(writes).path, cut)
    OBVIOUS
  <1>3. /\ writes \in Seq(Entered) /\ writes # <<>>
        /\ \A e \in disk : ~Update!Blocks(e.path, Head(writes).path)
        /\ phase = "write" /\ phase' = "fill"
        /\ UNCHANGED <<kind, base, target, conflicts, goal, writes, removals>>
    BY DEF UpdateInv, UpdateTypes, Update!Create, Update!Moves
  <1>4. Head(writes) \in Entered /\ \E j \in DOMAIN writes : writes[j] = Head(writes)
    BY <1>3, FirstAndRest
  <1>5. /\ entry \in Entered /\ entry.path = Head(writes).path /\ entry.file = cut
        /\ entry.path \in Pending /\ Pending' = Pending /\ entry.path \in Paths
    BY <1>1, <1>2, <1>3, <1>4 DEF Update!Entry, Entered, Pending, UpdateConstants
  <1>6. HasRoom(disk, entry)
    BY <1>3, <1>5 DEF HasRoom
  <1>7. PICK W : W = disk' /\ W = Update!Written(disk, entry)
    BY <1>1, <1>2
  <1>8. PICK n, m, on : n = Update!Scanned(W) /\ m = Update!Scanned(disk) /\ on = Update!OnDisk(W)
    OBVIOUS
  <1>9. /\ W \in SUBSET Entered
        /\ \A e \in W : e \in disk \/ e = entry
        /\ \A p \in Paths : on[p] = IF p = entry.path THEN cut ELSE Update!OnDisk(disk)[p]
        /\ \A p \in Paths : n[p] = IF p = entry.path /\ p \notin Ignored THEN cut ELSE m[p]
        /\ kind = "sync" => Spared
    BY <1>3, <1>5, <1>6, <1>7, <1>8, WriteTouches
  <1>10. Update!Scanned(disk)' = n /\ Update!OnDisk(disk)' = on
    BY <1>7, <1>8 DEF Update!Scanned, Update!OnDisk
  <1>11. /\ n \in Manifests /\ base \in Manifests /\ target \in Manifests
         /\ Torn \subseteq Files /\ goal \in Manifests
    BY <1>3, <1>8, <1>9, ScannedIs DEF UpdateInv, UpdateTypes, UpdateConstants, WorkIsKnown, Under
  <1>12. MergeStandsStill'
    <2>1. SUFFICES ASSUME kind = "sync", goal # Update!Unset, NEW p \in Paths
                   PROVE  \/ MergeOf(base, n, target)[p] = goal[p]
                          \/ n[p] \in Torn /\ p \in ConflictsOf(base, n, target)
      BY <1>3, <1>10 DEF MergeStandsStill, Update!Unset
    <2>2. CASE n[p] = m[p]
      <3>1. \/ MergeOf(base, m, target)[p] = goal[p]
            \/ m[p] \in Torn /\ p \in ConflictsOf(base, m, target)
        BY <1>3, <1>8, <2>1 DEF UpdateInv, MergeStandsStill
      <3>2. QED
        BY <2>2, <3>1, MergeAlike
    <2>3. CASE p = entry.path /\ p \notin Ignored
      <3>1. n[p] = cut /\ base[p] # target[p] /\ goal[p] = target[p]
        BY <1>3, <1>5, <1>9, <2>1, <2>3 DEF UpdateInv, WorkIsChange, Under
      <3>2. QED
        BY <1>11, <3>1, MergeChanges
    <2>4. QED
      BY <1>9, <2>2, <2>3
  <1>13. WorkIsKnown' /\ WorkIsChange'
    BY <1>3, <1>5, <1>11 DEF UpdateInv, WorkIsKnown, WorkIsChange, Under
  <1>14. WorkLeadsToGoal'
    <2>1. /\ \A i \in DOMAIN writes : writes[i].file = goal[writes[i].path]
          /\ \A p \in removals : goal[p] = Absent
      BY <1>3 DEF UpdateInv, WorkLeadsToGoal, Under
    <2>2. ASSUME NEW p \in Paths, p # entry.path
          PROVE  \/ on[p] = goal[p]
                 \/ p \in Pending \cup removals
                 \/ on[p] \in Torn /\ p \in conflicts
                 \/ p \in Ignored /\ goal[p] = Absent
                 \/ kind = "checkout" /\ goal[p] = Absent
      BY <1>3, <1>9, <2>2 DEF UpdateInv, WorkLeadsToGoal, Under
    <2>3. QED
      BY <1>3, <1>5, <1>10, <2>1, <2>2 DEF WorkLeadsToGoal
  <1>15. WorkSparesUnrecorded'
    <2>1. SUFFICES ASSUME kind = "sync"
                   PROVE  /\ \A i \in DOMAIN writes : writes[i].file \notin Local
                          /\ \A e \in W : e.path \in (Pending \cup removals) \ Ignored =>
                                              e.file \notin Local
      BY <1>3, <1>5, <1>7 DEF WorkSparesUnrecorded
    <2>2. entry.file \notin Local
      BY <1>1, <1>5 DEF UpdateConstants
    <2>3. QED
      BY <1>3, <1>9, <2>1, <2>2 DEF UpdateInv, WorkSparesUnrecorded, Under
  <1>16. UpdateInv'
    BY <1>3, <1>12, <1>13, <1>14, <1>15 DEF UpdateInv, Update!ArrivesAtGoal
  <1>17. QED
    BY <1>9, <1>16

LEMMA FillKeeps ==
    ASSUME CaseSensitive = TRUE, UpdateInv, UpdateTypes', Update!Fill
    PROVE  UpdateInv' /\ (kind = "sync" => Spared)
  <1>1. PICK entry : entry = Head(writes)
    OBVIOUS
  <1>2. /\ writes \in Seq(Entered) /\ writes # <<>>
        /\ \E e \in disk : Update!Place(e.path) = Update!Place(entry.path)
        /\ disk' = Update!Written(disk, entry) /\ writes' = Tail(writes)
        /\ phase = "fill" /\ phase' = "write"
        /\ UNCHANGED <<kind, base, target, conflicts, goal, removals>>
    BY <1>1 DEF UpdateInv, UpdateTypes, Update!Fill, Update!Moves
  <1>3. /\ entry \in Entered
        /\ \E j \in DOMAIN writes : writes[j] = entry
        /\ \A i \in DOMAIN writes' : \E j \in DOMAIN writes : writes'[i] = writes[j]
        /\ \A j \in DOMAIN writes : writes[j] = entry \/ \E i \in DOMAIN writes' : writes'[i] = writes[j]
    BY <1>1, <1>2, FirstAndRest
  <1>4. /\ entry.path \in Pending /\ Pending' \in SUBSET Pending
        /\ Pending \in SUBSET (Pending' \cup {entry.path})
        /\ entry.path \in Paths /\ entry.file \in Files
    BY <1>3 DEF Pending, Entered
  <1>5. HasRoom(disk, entry)
    BY <1>2 DEF HasRoom
  <1>6. PICK W : W = disk' /\ W = Update!Written(disk, entry)
    BY <1>2
  <1>7. PICK n, m, on : n = Update!Scanned(W) /\ m = Update!Scanned(disk) /\ on = Update!OnDisk(W)
    OBVIOUS
  <1>8. /\ goal \in Manifests /\ entry.file = goal[entry.path]
        /\ \A i \in DOMAIN writes' : writes'[i].file = goal[writes'[i].path]
        /\ \A p \in removals : goal[p] = Absent
    BY <1>2, <1>3 DEF UpdateInv, WorkIsKnown, WorkLeadsToGoal, Under
  <1>9. /\ W \in SUBSET Entered
        /\ \A e \in W : e \in disk \/ e = entry
        /\ \A p \in Paths : on[p] = IF p = entry.path THEN goal[p] ELSE Update!OnDisk(disk)[p]
        /\ \A p \in Paths : n[p] = IF p = entry.path /\ p \notin Ignored THEN goal[p] ELSE m[p]
        /\ kind = "sync" => Spared
    BY <1>2, <1>3, <1>4, <1>5, <1>6, <1>7, <1>8, WriteTouches
  <1>10. Update!Scanned(disk)' = n /\ Update!OnDisk(disk)' = on
    BY <1>6, <1>7 DEF Update!Scanned, Update!OnDisk
  <1>11. n \in Manifests /\ base \in Manifests /\ target \in Manifests
    BY <1>7, <1>9, ScannedIs DEF UpdateInv, UpdateTypes
  <1>12. MergeStandsStill'
    <2>1. SUFFICES ASSUME kind = "sync", goal # Update!Unset, NEW p \in Paths
                   PROVE  \/ MergeOf(base, n, target)[p] = goal[p]
                          \/ n[p] \in Torn /\ p \in ConflictsOf(base, n, target)
      BY <1>2, <1>10 DEF MergeStandsStill, Update!Unset
    <2>2. CASE n[p] = m[p]
      <3>1. \/ MergeOf(base, m, target)[p] = goal[p]
            \/ m[p] \in Torn /\ p \in ConflictsOf(base, m, target)
        BY <1>2, <1>7, <2>1 DEF UpdateInv, MergeStandsStill
      <3>2. QED
        BY <2>2, <3>1, MergeAlike
    <2>3. CASE p = entry.path /\ p \notin Ignored
      <3>1. n[p] = goal[p] /\ goal[p] = target[p]
        BY <1>2, <1>4, <1>9, <2>1, <2>3 DEF UpdateInv, WorkIsChange, Under
      <3>2. QED
        BY <1>11, <3>1, MergeChanges
    <2>4. QED
      BY <1>9, <2>2, <2>3
  <1>13. WorkIsKnown' /\ WorkIsChange'
    BY <1>2, <1>4, <1>8 DEF UpdateInv, WorkIsKnown, WorkIsChange, Under
  <1>14. WorkLeadsToGoal'
    <2>1. ASSUME NEW p \in Paths, p # entry.path
          PROVE  \/ on[p] = goal[p]
                 \/ p \in Pending' \cup removals
                 \/ on[p] \in Torn /\ p \in conflicts
                 \/ p \in Ignored /\ goal[p] = Absent
                 \/ kind = "checkout" /\ goal[p] = Absent
      BY <1>2, <1>4, <1>9, <2>1 DEF UpdateInv, WorkLeadsToGoal, Under
    <2>2. on[entry.path] = goal[entry.path]
      BY <1>4, <1>9
    <2>3. QED
      BY <1>2, <1>8, <1>10, <2>1, <2>2 DEF WorkLeadsToGoal
  <1>15. WorkSparesUnrecorded'
    <2>1. SUFFICES ASSUME kind = "sync"
                   PROVE  /\ \A i \in DOMAIN writes' : writes'[i].file \notin Local
                          /\ \A e \in W : e.path \in (Pending' \cup removals) \ Ignored =>
                                              e.file \notin Local
      BY <1>2, <1>6 DEF WorkSparesUnrecorded
    <2>2. /\ \A i \in DOMAIN writes : writes[i].file \notin Local
          /\ \A e \in disk : e.path \in (Pending \cup removals) \ Ignored => e.file \notin Local
      BY <1>2, <2>1 DEF UpdateInv, WorkSparesUnrecorded, Under
    <2>3. QED
      BY <1>3, <1>4, <1>9, <2>2
  <1>16. UpdateInv'
    BY <1>2, <1>12, <1>13, <1>14, <1>15 DEF UpdateInv, Update!ArrivesAtGoal
  <1>17. QED
    BY <1>9, <1>16

LEMMA DeleteKeeps ==
    ASSUME CaseSensitive = TRUE, UpdateInv, UpdateTypes',
           NEW gone \in Paths, Update!DeleteFile(gone)
    PROVE  UpdateInv' /\ (kind = "sync" => Spared)
  <1>1. /\ disk \in SUBSET Entered /\ Update!FileSystemHolds(disk)
        /\ disk' = {e \in disk : Update!Place(e.path) # Update!Place(gone)}
        /\ gone \in removals /\ removals' = removals \ {gone}
        /\ phase = "remove" /\ phase' = "remove" /\ writes = <<>>
        /\ UNCHANGED <<kind, base, target, conflicts, goal, writes>>
    BY DEF UpdateInv, UpdateTypes, WorkIsKnown, Update!DeleteFile, Update!Moves
  <1>2. Pending = {} /\ Pending' = {}
    BY <1>1 DEF Pending
  <1>3. /\ goal \in Manifests /\ goal[gone] = Absent
        /\ \A p \in removals : goal[p] = Absent
    BY <1>1 DEF UpdateInv, WorkIsKnown, WorkLeadsToGoal, Under
  <1>4. PICK W : W = disk'
    OBVIOUS
  <1>5. PICK n, m, on : n = Update!Scanned(W) /\ m = Update!Scanned(disk) /\ on = Update!OnDisk(W)
    OBVIOUS
  <1>6. /\ W = {e \in disk : e.path # gone} /\ W \in SUBSET Entered
        /\ \A p \in Paths : on[p] = IF p = gone THEN Absent ELSE Update!OnDisk(disk)[p]
    <2>1. W = {e \in disk : Update!Place(e.path) # Update!Place(gone)}
      BY <1>1, <1>4
    <2>2. QED
      BY <1>1, <1>5, <2>1, OnDiskAfterDelete
  <1>7. \A p \in Paths : n[p] = IF p = gone THEN Absent ELSE m[p]
    BY <1>1, <1>5, <1>6, ScannedIs
  <1>8. Update!Scanned(disk)' = n /\ Update!OnDisk(disk)' = on
    BY <1>4, <1>5 DEF Update!Scanned, Update!OnDisk
  <1>9. n \in Manifests /\ base \in Manifests /\ target \in Manifests
    BY <1>5, <1>6, ScannedIs DEF UpdateInv, UpdateTypes
  <1>10. MergeStandsStill'
    <2>1. SUFFICES ASSUME kind = "sync", goal # Update!Unset, NEW p \in Paths
                   PROVE  \/ MergeOf(base, n, target)[p] = goal[p]
                          \/ n[p] \in Torn /\ p \in ConflictsOf(base, n, target)
      BY <1>1, <1>8 DEF MergeStandsStill, Update!Unset
    <2>2. CASE p # gone
      <3>1. \/ MergeOf(base, m, target)[p] = goal[p]
            \/ m[p] \in Torn /\ p \in ConflictsOf(base, m, target)
        BY <1>1, <1>5, <2>1 DEF UpdateInv, MergeStandsStill
      <3>2. n[p] = m[p]
        BY <1>7, <2>2
      <3>3. QED
        BY <3>1, <3>2, MergeAlike
    <2>3. CASE p = gone
      <3>1. n[p] = Absent /\ goal[p] = Absent /\ goal[p] = target[p]
        BY <1>1, <1>3, <1>7, <2>1, <2>3 DEF UpdateInv, WorkIsChange, Under
      <3>2. QED
        BY <1>9, <3>1, MergeChanges
    <2>4. QED
      BY <2>2, <2>3
  <1>11. WorkIsKnown' /\ WorkIsChange'
    BY <1>1, <1>2, <1>3 DEF UpdateInv, WorkIsKnown, WorkIsChange, Under
  <1>12. WorkLeadsToGoal'
    <2>1. ASSUME NEW p \in Paths, p # gone
          PROVE  \/ on[p] = goal[p]
                 \/ p \in removals'
                 \/ on[p] \in Torn /\ p \in conflicts
                 \/ p \in Ignored /\ goal[p] = Absent
      BY <1>1, <1>2, <1>6, <2>1 DEF UpdateInv, WorkLeadsToGoal, Under
    <2>2. on[gone] = goal[gone]
      BY <1>3, <1>6
    <2>3. \A p \in removals' : goal[p] = Absent
      BY <1>1, <1>3
    <2>4. DOMAIN writes' = {}
      BY <1>1
    <2>5. QED
      BY <1>1, <1>8, <2>1, <2>2, <2>3, <2>4 DEF WorkLeadsToGoal
  <1>13. ASSUME kind = "sync"
         PROVE  \A e \in disk : e.path \in removals \ Ignored => e.file \notin Local
    BY <1>1, <1>13 DEF UpdateInv, WorkSparesUnrecorded, Under
  <1>14. WorkSparesUnrecorded'
    <2>1. DOMAIN writes' = {}
      BY <1>1
    <2>2. SUFFICES ASSUME kind = "sync"
                   PROVE  \A e \in W : e.path \in removals' \ Ignored => e.file \notin Local
      BY <1>1, <1>2, <1>4, <2>1 DEF WorkSparesUnrecorded
    <2>3. QED
      BY <1>1, <1>6, <1>13, <2>2
  <1>15. kind = "sync" => Spared
    BY <1>1, <1>4, <1>6, <1>13 DEF Spared
  <1>16. UpdateInv'
    BY <1>1, <1>10, <1>11, <1>12, <1>14 DEF UpdateInv, Update!ArrivesAtGoal
  <1>17. QED
    BY <1>15, <1>16

LEMMA WritesDoneKeeps ==
    ASSUME UpdateInv, UpdateTypes', Update!WritesDone
    PROVE  UpdateInv'
  <1>1. PICK m, on : m = Update!Scanned(disk) /\ on = Update!OnDisk(disk)
    OBVIOUS
  <1>2. /\ phase = "write" /\ phase' = "remove" /\ writes = <<>>
        /\ removals' = IF kind = "sync" THEN removals ELSE PathsOf(m) \ PathsOf(target)
        /\ UNCHANGED <<kind, base, target, disk, conflicts, goal, writes>>
    BY <1>1, SameMerge DEF Update!WritesDone, Update!Moves
  <1>3. /\ Pending = {} /\ Pending' = {} /\ DOMAIN writes' = {}
        /\ Update!Scanned(disk)' = m /\ Update!OnDisk(disk)' = on
    BY <1>1, <1>2 DEF Pending, Update!Scanned, Update!OnDisk
  <1>4. /\ goal \in Manifests
        /\ kind = "checkout" => goal = target
        /\ \A p \in removals : goal[p] = Absent
        /\ \A p \in Paths :
              \/ on[p] = goal[p]
              \/ p \in removals
              \/ on[p] \in Torn /\ p \in conflicts
              \/ p \in Ignored /\ goal[p] = Absent
              \/ kind = "checkout" /\ goal[p] = Absent
    BY <1>1, <1>2, <1>3 DEF UpdateInv, WorkIsKnown, WorkLeadsToGoal, Under
  <1>5. MergeStandsStill'
    BY <1>1, <1>2, <1>3 DEF UpdateInv, MergeStandsStill, Update!Unset
  <1>6. WorkIsKnown'
    BY <1>2, <1>4 DEF WorkIsKnown
  <1>7. kind = "sync" \/ kind = "checkout"
    BY DEF UpdateInv, UpdateTypes
  <1>8. \A p \in Paths : m[p] = IF p \in Ignored THEN Absent ELSE on[p]
    BY <1>1, ScannedIs DEF UpdateInv, UpdateTypes
  <1>9. WorkLeadsToGoal'
    <2>1. /\ \A p \in removals' : goal[p] = Absent
          /\ \A p \in Paths :
                \/ on[p] = goal[p]
                \/ p \in removals'
                \/ on[p] \in Torn /\ p \in conflicts
                \/ p \in Ignored /\ goal[p] = Absent
      <3>1. CASE kind = "sync"
        BY <1>2, <1>4, <3>1
      <3>2. CASE kind = "checkout"
        <4>1. removals' = PathsOf(m) \ PathsOf(goal)
          BY <1>2, <1>4, <3>2
        <4>2. \A p \in removals' : p \in Paths /\ goal[p] = Absent
          BY <4>1 DEF PathsOf
        <4>3. ASSUME NEW p \in Paths, goal[p] = Absent, p \notin Ignored, p \notin removals'
              PROVE  on[p] = goal[p]
          BY <1>8, <4>1, <4>3 DEF PathsOf
        <4>4. ASSUME NEW p \in removals PROVE goal[p] = Absent
          BY <1>4
        <4>5. QED
          BY <1>4, <4>2, <4>3
      <3>3. QED
        BY <1>7, <3>1, <3>2
    <2>2. QED
      BY <1>2, <1>3, <2>1 DEF WorkLeadsToGoal
  <1>10. WorkIsChange'
    <2>1. SUFFICES ASSUME kind = "sync"
                   PROVE  \A p \in removals : p \in Paths /\ base[p] # target[p] /\ goal[p] = target[p]
      BY <1>2, <1>3 DEF WorkIsChange
    <2>2. QED
      BY <1>2, <2>1 DEF UpdateInv, WorkIsChange, Under
  <1>11. WorkSparesUnrecorded'
    <2>1. SUFFICES ASSUME kind = "sync"
                   PROVE  \A e \in disk : e.path \in removals \ Ignored => e.file \notin Local
      BY <1>2, <1>3 DEF WorkSparesUnrecorded
    <2>2. QED
      BY <1>2, <2>1 DEF UpdateInv, WorkSparesUnrecorded, Under
  <1>12. QED
    BY <1>2, <1>5, <1>6, <1>9, <1>10, <1>11 DEF UpdateInv, Update!ArrivesAtGoal

LEMMA SettleKeeps ==
    ASSUME UpdateInv, UpdateTypes', Update!Settle
    PROVE  UpdateInv'
  <1>1. PICK on : on = Update!OnDisk(disk)
    OBVIOUS
  <1>2. /\ phase = "remove" /\ phase' = "done" /\ removals = {} /\ base' = target
        /\ UNCHANGED <<kind, target, disk, conflicts, goal, writes>>
    BY DEF Update!Settle
  <1>3. \A p \in Paths :
            \/ on[p] = goal[p]
            \/ on[p] \in Torn /\ p \in conflicts
            \/ p \in Ignored /\ goal[p] = Absent
    <2>1. writes = <<>>
      BY <1>2 DEF UpdateInv, WorkIsKnown
    <2>2. Pending = {}
      BY <2>1 DEF Pending
    <2>3. QED
      BY <1>1, <1>2, <2>2 DEF UpdateInv, WorkLeadsToGoal, Under
  <1>4. Update!OnDisk(disk)' = on
    BY <1>1, <1>2 DEF Update!OnDisk
  <1>5. \A p \in Update!PathsOf(goal) : p \in Paths /\ goal[p] # Absent
    BY DEF Update!PathsOf
  <1>6. Update!PathsOf(goal)' = Update!PathsOf(goal)
    BY <1>2 DEF Update!PathsOf
  <1>7. Update!ArrivesAtGoal'
    BY <1>2, <1>3, <1>4, <1>5, <1>6 DEF Update!ArrivesAtGoal
  <1>8. /\ MergeStandsStill' /\ WorkIsKnown' /\ WorkIsChange' /\ WorkLeadsToGoal'
        /\ WorkSparesUnrecorded'
    BY <1>2 DEF MergeStandsStill, WorkIsKnown, WorkIsChange, WorkLeadsToGoal,
       WorkSparesUnrecorded, Under
  <1>9. base' \in Recorded /\ target' \in Recorded
    BY <1>2 DEF UpdateInv
  <1>10. QED
    BY <1>7, <1>8, <1>9 DEF UpdateInv

(* The steps that end, refuse or start over touch neither directory nor    *)
(* goal.                                                                   *)
LEMMA HaltsKeep ==
    ASSUME UpdateInv, UpdateTypes',
           Update!Refuse \/ Update!Fail \/ Update!Repeat
    PROVE  UpdateInv'
  <1>1. /\ phase # "done" /\ phase' \in {"refused", "failed", "idle"}
        /\ phase' = "idle" => removals' = {}
        /\ UNCHANGED <<kind, base, target, disk, goal>>
    BY DEF Update!Refuse, Update!Fail, Update!Repeat, Update!Moves
  <1>2. Update!Scanned(disk)' = Update!Scanned(disk) /\ Update!Unset' = Update!Unset
    BY <1>1 DEF Update!Scanned, Update!OnDisk, Update!Unset
  <1>3. MergeStandsStill'
    BY <1>1, <1>2 DEF UpdateInv, MergeStandsStill
  <1>4. /\ WorkIsKnown' /\ WorkIsChange' /\ WorkLeadsToGoal' /\ WorkSparesUnrecorded'
        /\ Update!ArrivesAtGoal'
    BY <1>1 DEF WorkIsKnown, WorkIsChange, WorkLeadsToGoal, WorkSparesUnrecorded, Under,
       Update!ArrivesAtGoal
  <1>5. QED
    BY <1>1, <1>3, <1>4 DEF UpdateInv

LEMMA NothingMoves ==
    ASSUME UpdateInv, UNCHANGED Update!vars
    PROVE  UpdateInv'
  <1>1. UNCHANGED <<kind, base, target, disk, conflicts, goal, writes, removals, phase>>
    BY DEF Update!vars
  <1>2. /\ Update!Scanned(disk)' = Update!Scanned(disk) /\ Update!Unset' = Update!Unset
        /\ Update!OnDisk(disk)' = Update!OnDisk(disk)
        /\ Pending' = Pending /\ Under' = Under
        /\ Update!FileSystemHolds(disk)' = Update!FileSystemHolds(disk)
        /\ Update!PathsOf(goal)' = Update!PathsOf(goal)
    BY <1>1 DEF Update!Scanned, Update!OnDisk, Update!Unset, Pending, Under,
       Update!FileSystemHolds, Update!Place, Update!Blocks, Update!PathsOf
  <1>3. (\E e \in disk : Update!Place(e.path) = Update!Place(Head(writes).path))'
            <=> \E e \in disk : Update!Place(e.path) = Update!Place(Head(writes).path)
    BY <1>1 DEF Update!Place
  <1>4. UpdateTypes' /\ MergeStandsStill' /\ WorkIsKnown' /\ WorkIsChange'
    BY <1>1, <1>2, <1>3 DEF UpdateInv, UpdateTypes, MergeStandsStill, WorkIsKnown, WorkIsChange
  <1>5. WorkLeadsToGoal' /\ WorkSparesUnrecorded' /\ Update!ArrivesAtGoal'
    BY <1>1, <1>2 DEF UpdateInv, WorkLeadsToGoal, WorkSparesUnrecorded, Update!ArrivesAtGoal
  <1>6. QED
    BY <1>1, <1>4, <1>5 DEF UpdateInv

LEMMA UpdateInvNext ==
    ASSUME UpdateConstants, CaseSensitive = TRUE, UpdateInv, [Update!Next]_(Update!vars)
    PROVE  UpdateInv'
  <1>1. UpdateTypes'
    BY UpdateTypesNext DEF UpdateInv
  <1>2. CASE Update!BeginSync
    BY <1>1, <1>2, BeginSyncKeeps
  <1>3. CASE Update!BeginCheckout
    BY <1>1, <1>3, BeginCheckoutKeeps
  <1>4. CASE Update!Create
    BY <1>1, <1>4, CreateKeeps
  <1>5. CASE Update!Fill
    BY <1>1, <1>5, FillKeeps
  <1>6. CASE \E p \in Paths : Update!DeleteFile(p)
    BY <1>1, <1>6, DeleteKeeps
  <1>7. CASE Update!WritesDone
    BY <1>1, <1>7, WritesDoneKeeps
  <1>8. CASE Update!Settle
    BY <1>1, <1>8, SettleKeeps
  <1>9. CASE Update!Refuse \/ Update!Fail \/ Update!Repeat
    BY <1>1, <1>9, HaltsKeep
  <1>10. CASE Update!Ended \/ UNCHANGED Update!vars
    BY <1>10, NothingMoves DEF Update!Ended
  <1>11. QED
    BY <1>2, <1>3, <1>4, <1>5, <1>6, <1>7, <1>8, <1>9, <1>10 DEF Update!Next

LEMMA AlwaysOnTheWay ==
    ASSUME UpdateConstants, CaseSensitive = TRUE
    PROVE  Update!Spec => []UpdateInv
  <1>1. UpdateInv /\ [Update!Next]_(Update!vars) => UpdateInv'
    BY UpdateInvNext
  <1>2. QED
    BY UpdateInvInit, <1>1, PTL DEF Update!Spec

(* ArrivesAtGoal (client/sync.go, client/checkout.go, client/restore.go):  *)
(* where names are told apart, a sync or a checkout that ends, after any   *)
(* number of failures at any step, the middle of a file included, has      *)
(* brought the directory where its first attempt set out for, or reports a *)
(* conflict at the file it found cut short.                                *)
THEOREM UpdatesArrive ==
    ASSUME UpdateConstants, CaseSensitive = TRUE
    PROVE  Update!Spec => []Update!ArrivesAtGoal
  <1>1. UpdateInv => Update!ArrivesAtGoal
    BY DEF UpdateInv
  <1>2. QED
    BY <1>1, AlwaysOnTheWay, PTL

(* UnrecordedIsKept (client/sync.go): no step of a sync takes a file that  *)
(* no version has and that is not ignored, whatever fails and however      *)
(* often it is repeated.                                                   *)
THEOREM SyncsKeepUnrecorded ==
    ASSUME UpdateConstants, CaseSensitive = TRUE
    PROVE  Update!Spec => Update!UnrecordedIsKept
  <1>1. UpdateInv /\ [Update!Next]_(Update!vars) =>
            [kind = "sync" =>
                \A e \in disk : e.file \in Local /\ e.path \notin Ignored =>
                    \E x \in disk' : x.file = e.file]_(Update!vars)
    <2>1. SUFFICES ASSUME UpdateInv, Update!Next, kind = "sync",
                          NEW e \in disk, e.file \in Local, e.path \notin Ignored
                   PROVE  e \in disk'
      OBVIOUS
    <2>2. UpdateTypes'
      BY <2>1, UpdateTypesNext DEF UpdateInv
    <2>3. CASE Update!Create
      BY <2>1, <2>2, <2>3, CreateKeeps DEF Spared
    <2>4. CASE Update!Fill
      BY <2>1, <2>2, <2>4, FillKeeps DEF Spared
    <2>5. CASE \E p \in Paths : Update!DeleteFile(p)
      BY <2>1, <2>2, <2>5, DeleteKeeps DEF Spared
    <2>6. CASE UNCHANGED disk
      BY <2>1, <2>6
    <2>7. QED
      BY <2>1, <2>3, <2>4, <2>5, <2>6
         DEF Update!Next, Update!Refuse, Update!BeginSync, Update!BeginCheckout, Update!WritesDone,
             Update!Settle, Update!Fail, Update!Repeat, Update!Ended, Update!vars
  <1>2. QED
    BY <1>1, AlwaysOnTheWay, PTL DEF Update!Spec, Update!UnrecordedIsKept

------------------------------------------------------------------------------
(* Ignore.  First, numbers and recursion.                                  *)

(* What stands in for an induction, the claim being a set of numbers. *)
LEMMA EveryNumber ==
    ASSUME NEW S \in SUBSET Nat, 0 \in S, \A k \in S : k + 1 \in S
    PROVE  S = Nat
  <1>1. SUFFICES ASSUME Nat \ S # {} PROVE FALSE
    OBVIOUS
  <1>2. PICK m \in Nat \ S : \A k \in Nat \ S : m <= k
    BY <1>1, LeastNumber
  <1>3. m # 0 /\ m - 1 \in Nat /\ m = (m - 1) + 1 /\ ~(m <= m - 1)
    OBVIOUS
  <1>4. m - 1 \in S
    BY <1>2, <1>3
  <1>5. QED
    BY <1>2, <1>3, <1>4

(* What a recursion computes step by step, and that nothing else fits.  The *)
(* step is a function, and stages names the numbers the recursion is over.  *)
IsComputed(f, first, step, n) ==
    /\ f[0] = first
    /\ \A k \in 1 .. n : f[k] = step[<<k, f[k - 1]>>]

LEMMA Computable ==
    ASSUME NEW V, NEW first \in V, NEW n \in Nat, NEW step \in [(1 .. n) \X V -> V]
    PROVE  \E f \in [0 .. n -> V] : IsComputed(f, first, step, n)
  <1> DEFINE S == {m \in Nat : m <= n => \E f \in [0 .. m -> V] : IsComputed(f, first, step, m)}
  <1>1. 0 \in S
    <2> DEFINE f == [k \in 0 .. 0 |-> first]
    <2>1. f \in [0 .. 0 -> V] /\ f[0] = first
      OBVIOUS
    <2>2. IsComputed(f, first, step, 0)
      BY <2>1 DEF IsComputed
    <2>3. QED
      BY <2>1, <2>2
  <1>2. ASSUME NEW m \in S PROVE m + 1 \in S
    <2>1. SUFFICES ASSUME m + 1 <= n
                   PROVE  \E f \in [0 .. m + 1 -> V] : IsComputed(f, first, step, m + 1)
      OBVIOUS
    <2>2. m \in Nat /\ m <= n
      BY <2>1
    <2>3. PICK g \in [0 .. m -> V] : IsComputed(g, first, step, m)
      BY <2>2
    <2> HIDE DEF S
    <2> DEFINE f == [k \in 0 .. m + 1 |-> IF k <= m THEN g[k] ELSE step[<<m + 1, g[m]>>]]
    <2>4. m + 1 \in 1 .. n /\ g[m] \in V
      BY <2>1, <2>2
    <2>5. step[<<m + 1, g[m]>>] \in V
      BY <2>4
    <2>6. f \in [0 .. m + 1 -> V]
      BY <2>2, <2>5
    <2>7. /\ \A k \in 0 .. m : f[k] = g[k]
          /\ f[m + 1] = step[<<m + 1, g[m]>>]
      BY <2>2
    <2> HIDE DEF f
    <2>8. f[0] = first
      BY <2>2, <2>3, <2>7 DEF IsComputed
    <2>9. ASSUME NEW k \in 1 .. m + 1 PROVE f[k] = step[<<k, f[k - 1]>>]
      <3>1. CASE k = m + 1
        BY <3>1, <2>2, <2>7
      <3>2. CASE k <= m
        <4>1. k \in 1 .. m /\ k \in 0 .. m /\ k - 1 \in 0 .. m
          BY <3>2, <2>2
        <4>2. QED
          BY <4>1, <2>3, <2>7 DEF IsComputed
      <3>3. QED
        BY <3>1, <3>2, <2>2
    <2>10. IsComputed(f, first, step, m + 1)
      BY <2>8, <2>9 DEF IsComputed
    <2>11. QED
      BY <2>6, <2>10
  <1>3. S \in SUBSET Nat
    OBVIOUS
  <1> HIDE DEF S
  <1>4. n \in S
    BY <1>1, <1>2, <1>3, EveryNumber
  <1>5. QED
    BY <1>4 DEF S

------------------------------------------------------------------------------
(* Segments of a path laid on those of a pattern: those from the j-th on,  *)
(* on those from the i-th on.                                              *)

LaidFrom(laid, p, q, i, j) ==
    /\ laid \in [j .. Len(q) -> i .. Len(p)]
    /\ \A a, b \in j .. Len(q) : a < b => laid[a] <= laid[b]
    /\ \A a \in j .. Len(q) : p[laid[a]] = DoubleStar \/ q[a] \in p[laid[a]]
    /\ \A k \in i .. Len(p) :
          p[k] # DoubleStar =>
              \E a \in j .. Len(q) : laid[a] = k /\ \A b \in j .. Len(q) : laid[b] = k => b = a

Fits(p, q, i, j) == \E laid : LaidFrom(laid, p, q, i, j)

Lays(laid, p, q, P, Q) ==
    /\ laid \in [Q -> P]
    /\ \A i, j \in Q : i < j => laid[i] <= laid[j]
    /\ \A i \in Q : p[laid[i]] = DoubleStar \/ q[i] \in p[laid[i]]
    /\ \A k \in P :
          p[k] # DoubleStar => \E i \in Q : laid[i] = k /\ \A j \in Q : laid[j] = k => j = i

LEMMA AlignsIsFits ==
    ASSUME NEW p \in Seq(Segment), NEW q \in Seq(Name)
    PROVE  Walker!Aligns(p, q) <=> Fits(p, q, 1, 1)
  <1>1. DOMAIN p = 1 .. Len(p) /\ DOMAIN q = 1 .. Len(q)
    OBVIOUS
  <1>2. Walker!Aligns(p, q) <=> \E laid : Lays(laid, p, q, DOMAIN p, DOMAIN q)
    <2>1. Walker!Aligns(p, q) <=> \E laid \in [DOMAIN q -> DOMAIN p] : Lays(laid, p, q, DOMAIN p, DOMAIN q)
      <3>1. \A laid \in [DOMAIN q -> DOMAIN p] :
                Lays(laid, p, q, DOMAIN p, DOMAIN q) <=>
                    /\ \A i, j \in DOMAIN q : i < j => laid[i] <= laid[j]
                    /\ \A i \in DOMAIN q : p[laid[i]] = DoubleStar \/ q[i] \in p[laid[i]]
                    /\ \A k \in DOMAIN p :
                          p[k] # DoubleStar =>
                              \E i \in DOMAIN q : laid[i] = k /\ \A j \in DOMAIN q : laid[j] = k => j = i
        BY Zenon DEF Lays
      <3>2. QED
        BY <3>1, Zenon DEF Walker!Aligns
    <2>2. \A laid : Lays(laid, p, q, DOMAIN p, DOMAIN q) => laid \in [DOMAIN q -> DOMAIN p]
      BY Zenon DEF Lays
    <2>3. QED
      BY <2>1, <2>2, Zenon
  <1>3. \A laid : LaidFrom(laid, p, q, 1, 1) <=> Lays(laid, p, q, 1 .. Len(p), 1 .. Len(q))
    BY Zenon DEF LaidFrom, Lays
  <1>4. QED
    BY <1>1, <1>2, <1>3 DEF Fits

(* Past the end of the pattern only the end of the path fits. *)
LEMMA FitsAtEnd ==
    ASSUME NEW p \in Seq(Segment), NEW q \in Seq(Name), NEW j \in 1 .. Len(q) + 1
    PROVE  Fits(p, q, Len(p) + 1, j) <=> j = Len(q) + 1
  <1>0. Len(p) \in Nat /\ Len(q) \in Nat
    OBVIOUS
  <1>1. (Len(p) + 1) .. Len(p) = {}
    BY <1>0
  <1>2. CASE j = Len(q) + 1
    <2>1. j .. Len(q) = {}
      BY <1>2, <1>0
    <2> DEFINE laid == [a \in j .. Len(q) |-> 0]
    <2>2. laid \in [j .. Len(q) -> (Len(p) + 1) .. Len(p)]
      BY <2>1
    <2> HIDE DEF laid
    <2>3. LaidFrom(laid, p, q, Len(p) + 1, j)
      BY <2>1, <2>2, <1>1 DEF LaidFrom
    <2>4. QED
      BY <2>3, <1>2 DEF Fits
  <1>3. CASE j # Len(q) + 1
    <2>1. j \in j .. Len(q)
      BY <1>3, <1>0
    <2>2. ~Fits(p, q, Len(p) + 1, j)
      BY <2>1, <1>1 DEF Fits, LaidFrom
    <2>3. QED
      BY <2>2, <1>3
  <1>4. QED
    BY <1>2, <1>3

(* A "**" takes the segments up to one from which the rest of the pattern  *)
(* fits.                                                                   *)
LEMMA FitsStar ==
    ASSUME NEW p \in Seq(Segment), NEW q \in Seq(Name), NEW i \in 1 .. Len(p),
           NEW j \in 1 .. Len(q) + 1, p[i] = DoubleStar
    PROVE  Fits(p, q, i, j) <=> \E k \in 1 .. Len(q) + 1 : j <= k /\ Fits(p, q, i + 1, k)
  <1> DEFINE n == Len(p)
             m == Len(q)
  <1>0. n \in Nat /\ m \in Nat /\ i \in Nat /\ j \in Nat /\ i <= n /\ j <= m + 1 /\ 1 <= j
    OBVIOUS
  <1>1. ASSUME NEW laid, LaidFrom(laid, p, q, i, j)
        PROVE  \E k \in 1 .. m + 1 : j <= k /\ Fits(p, q, i + 1, k)
    <2> DEFINE K == {l \in j .. m + 1 : l = m + 1 \/ laid[l] # i}
    <2>1. m + 1 \in K /\ K \in SUBSET Nat
      BY <1>0
    <2>2. PICK k \in K : \A l \in K : k <= l
      BY <2>1, LeastNumber
    <2>3. k \in 1 .. m + 1 /\ j <= k /\ k \in Nat
      BY <1>0, <2>2
    <2>4. \A a \in j .. m : laid[a] \in i .. n
      BY <1>1 DEF LaidFrom
    <2>5. ASSUME NEW a \in k .. m PROVE laid[a] \in (i + 1) .. n
      <3>1. k <= m /\ k \in j .. m /\ a \in j .. m /\ k # m + 1
        BY <2>3, <1>0
      <3>2. laid[k] # i
        BY <3>1, <2>2
      <3>3. laid[k] \in i .. n /\ laid[a] \in i .. n
        BY <3>1, <2>4
      <3>4. k < a => laid[k] <= laid[a]
        BY <3>1, <1>1 DEF LaidFrom
      <3>5. k = a => laid[k] = laid[a]
        OBVIOUS
      <3>6. QED
        BY <3>2, <3>3, <3>4, <3>5, <2>3, <1>0
    <2>6. \A a \in j .. m : ~(a \in k .. m) => laid[a] = i
      BY <2>2, <2>3, <1>0
    <2> HIDE DEF K
    <2> DEFINE ct == [a \in k .. m |-> laid[a]]
    <2>7. ct \in [k .. m -> (i + 1) .. n] /\ \A a \in k .. m : ct[a] = laid[a]
      BY <2>5
    <2>8. \A a \in k .. m : a \in j .. m
      BY <2>3, <1>0
    <2> HIDE DEF ct
    <2>9. \A a, b \in k .. m : a < b => ct[a] <= ct[b]
      BY <2>7, <2>8, <1>1 DEF LaidFrom
    <2>10. \A a \in k .. m : p[ct[a]] = DoubleStar \/ q[a] \in p[ct[a]]
      BY <2>7, <2>8, <1>1 DEF LaidFrom
    <2>11. ASSUME NEW l \in (i + 1) .. n, p[l] # DoubleStar
           PROVE  \E a \in k .. m : ct[a] = l /\ \A b \in k .. m : ct[b] = l => b = a
      <3>1. l \in i .. n /\ l # i
        BY <1>0
      <3>2. PICK a \in j .. m : laid[a] = l /\ \A b \in j .. m : laid[b] = l => b = a
        BY <3>1, <2>11, <1>1 DEF LaidFrom
      <3>3. a \in k .. m
        BY <3>1, <3>2, <2>6
      <3>4. QED
        BY <3>2, <3>3, <2>7, <2>8
    <2>12. LaidFrom(ct, p, q, i + 1, k)
      BY <2>7, <2>9, <2>10, <2>11 DEF LaidFrom
    <2>13. QED
      BY <2>12, <2>3 DEF Fits
  <1>2. ASSUME NEW k \in 1 .. m + 1, j <= k, NEW laid, LaidFrom(laid, p, q, i + 1, k)
        PROVE  Fits(p, q, i, j)
    <2> DEFINE ct == [a \in j .. m |-> IF a < k THEN i ELSE laid[a]]
    <2>1. \A a \in j .. m : (~(a < k)) => a \in k .. m
      BY <1>0
    <2>2. \A a \in k .. m : laid[a] \in (i + 1) .. n /\ a \in j .. m /\ ~(a < k)
      BY <1>2, <1>0 DEF LaidFrom
    <2>3. ct \in [j .. m -> i .. n]
      BY <2>1, <2>2, <1>0
    <2>4. /\ \A a \in j .. m : a < k => ct[a] = i
          /\ \A a \in k .. m : ct[a] = laid[a]
      BY <2>2
    <2> HIDE DEF ct
    <2>5. ASSUME NEW a \in j .. m, NEW b \in j .. m, a < b PROVE ct[a] <= ct[b]
      <3>1. CASE b < k
        BY <3>1, <2>4, <2>5, <1>0
      <3>2. CASE ~(b < k) /\ a < k
        BY <3>2, <2>1, <2>2, <2>4, <1>0
      <3>3. CASE ~(b < k) /\ ~(a < k)
        BY <3>3, <2>1, <2>4, <2>5, <1>2 DEF LaidFrom
      <3>4. QED
        BY <3>1, <3>2, <3>3
    <2>6. ASSUME NEW a \in j .. m PROVE p[ct[a]] = DoubleStar \/ q[a] \in p[ct[a]]
      <3>1. CASE a < k
        BY <3>1, <2>4
      <3>2. CASE ~(a < k)
        BY <3>2, <2>1, <2>4, <1>2 DEF LaidFrom
      <3>3. QED
        BY <3>1, <3>2
    <2>7. ASSUME NEW l \in i .. n, p[l] # DoubleStar
          PROVE  \E a \in j .. m : ct[a] = l /\ \A b \in j .. m : ct[b] = l => b = a
      <3>1. l # i /\ l \in (i + 1) .. n
        BY <2>7, <1>0
      <3>2. PICK a \in k .. m : laid[a] = l /\ \A b \in k .. m : laid[b] = l => b = a
        BY <3>1, <2>7, <1>2 DEF LaidFrom
      <3>3. a \in j .. m /\ ct[a] = l
        BY <3>2, <2>2, <2>4
      <3>4. ASSUME NEW b \in j .. m, ct[b] = l PROVE b = a
        <4>1. ~(b < k)
          BY <3>4, <3>1, <2>4
        <4>2. QED
          BY <4>1, <3>2, <3>4, <2>1, <2>4
      <3>5. QED
        BY <3>3, <3>4
    <2>8. LaidFrom(ct, p, q, i, j)
      BY <2>3, <2>5, <2>6, <2>7 DEF LaidFrom
    <2>9. QED
      BY <2>8 DEF Fits
  <1>3. QED
    BY <1>1, <1>2 DEF Fits

(* Any other segment takes exactly one. *)
LEMMA FitsOne ==
    ASSUME NEW p \in Seq(Segment), NEW q \in Seq(Name), NEW i \in 1 .. Len(p),
           NEW j \in 1 .. Len(q) + 1, p[i] # DoubleStar
    PROVE  Fits(p, q, i, j) <=> j \in 1 .. Len(q) /\ q[j] \in p[i] /\ Fits(p, q, i + 1, j + 1)
  <1> DEFINE n == Len(p)
             m == Len(q)
  <1>0. n \in Nat /\ m \in Nat /\ i \in Nat /\ j \in Nat /\ i <= n /\ j <= m + 1 /\ 1 <= j
    OBVIOUS
  <1>1. ASSUME NEW laid, LaidFrom(laid, p, q, i, j)
        PROVE  j \in 1 .. m /\ q[j] \in p[i] /\ Fits(p, q, i + 1, j + 1)
    <2>1. i \in i .. n
      BY <1>0
    <2>2. PICK a \in j .. m : laid[a] = i /\ \A b \in j .. m : laid[b] = i => b = a
      BY <2>1, <1>1 DEF LaidFrom
    <2>3. j \in j .. m /\ j \in 1 .. m
      BY <1>0
    <2>4. \A b \in j .. m : laid[b] \in i .. n
      BY <1>1 DEF LaidFrom
    <2>5. j < a => laid[j] <= laid[a]
      BY <2>3, <1>1 DEF LaidFrom
    <2>6. a = j
      <3>1. laid[j] \in i .. n /\ a \in Nat /\ j <= a
        BY <2>3, <2>4, <1>0
      <3>2. CASE j < a
        <4>1. laid[j] = i
          BY <3>1, <3>2, <2>2, <2>5, <1>0
        <4>2. QED
          BY <4>1, <2>2, <2>3
      <3>3. QED
        BY <3>1, <3>2, <1>0
    <2>7. q[j] \in p[i]
      BY <2>2, <2>6, <1>1 DEF LaidFrom
    <2>8. \A b \in (j + 1) .. m : b \in j .. m /\ b # j
      BY <1>0
    <2>9. \A b \in (j + 1) .. m : laid[b] \in (i + 1) .. n
      BY <2>2, <2>4, <2>6, <2>8, <1>0
    <2> DEFINE ct == [b \in (j + 1) .. m |-> laid[b]]
    <2>10. ct \in [(j + 1) .. m -> (i + 1) .. n] /\ \A b \in (j + 1) .. m : ct[b] = laid[b]
      BY <2>9
    <2> HIDE DEF ct
    <2>11. \A b, c \in (j + 1) .. m : b < c => ct[b] <= ct[c]
      BY <2>8, <2>10, <1>1 DEF LaidFrom
    <2>12. \A b \in (j + 1) .. m : p[ct[b]] = DoubleStar \/ q[b] \in p[ct[b]]
      BY <2>8, <2>10, <1>1 DEF LaidFrom
    <2>13. ASSUME NEW l \in (i + 1) .. n, p[l] # DoubleStar
           PROVE  \E b \in (j + 1) .. m : ct[b] = l /\ \A c \in (j + 1) .. m : ct[c] = l => c = b
      <3>1. l \in i .. n /\ l # i
        BY <1>0
      <3>2. PICK b \in j .. m : laid[b] = l /\ \A c \in j .. m : laid[c] = l => c = b
        BY <3>1, <2>13, <1>1 DEF LaidFrom
      <3>3. b \in (j + 1) .. m
        BY <3>1, <3>2, <2>2, <2>6, <1>0
      <3>4. QED
        BY <3>2, <3>3, <2>8, <2>10
    <2>14. LaidFrom(ct, p, q, i + 1, j + 1)
      BY <2>10, <2>11, <2>12, <2>13 DEF LaidFrom
    <2>15. QED
      BY <2>3, <2>7, <2>14 DEF Fits
  <1>2. ASSUME j \in 1 .. m, q[j] \in p[i], NEW laid, LaidFrom(laid, p, q, i + 1, j + 1)
        PROVE  Fits(p, q, i, j)
    <2> DEFINE ct == [a \in j .. m |-> IF a = j THEN i ELSE laid[a]]
    <2>1. \A a \in j .. m : a # j => a \in (j + 1) .. m
      BY <1>0
    <2>2. \A a \in (j + 1) .. m : laid[a] \in (i + 1) .. n /\ a \in j .. m /\ a # j
      BY <1>2, <1>0 DEF LaidFrom
    <2>3. ct \in [j .. m -> i .. n] /\ j \in j .. m
      BY <2>1, <2>2, <1>0, <1>2
    <2>4. /\ ct[j] = i
          /\ \A a \in (j + 1) .. m : ct[a] = laid[a]
      BY <2>2, <2>3
    <2> HIDE DEF ct
    <2>5. ASSUME NEW a \in j .. m, NEW b \in j .. m, a < b PROVE ct[a] <= ct[b]
      <3>1. b \in (j + 1) .. m
        BY <2>5, <1>0
      <3>2. CASE a = j
        BY <3>1, <3>2, <2>2, <2>4, <1>0
      <3>3. CASE a # j
        BY <3>1, <3>3, <2>1, <2>4, <2>5, <1>2 DEF LaidFrom
      <3>4. QED
        BY <3>2, <3>3
    <2>6. ASSUME NEW a \in j .. m PROVE p[ct[a]] = DoubleStar \/ q[a] \in p[ct[a]]
      <3>1. CASE a = j
        BY <3>1, <2>4, <1>2
      <3>2. CASE a # j
        BY <3>2, <2>1, <2>4, <1>2 DEF LaidFrom
      <3>3. QED
        BY <3>1, <3>2
    <2>7. ASSUME NEW l \in i .. n, p[l] # DoubleStar
          PROVE  \E a \in j .. m : ct[a] = l /\ \A b \in j .. m : ct[b] = l => b = a
      <3>0. CASE l = i
        <4>1. \A b \in j .. m : ct[b] = l => b = j
          BY <3>0, <2>1, <2>2, <2>4, <1>0
        <4>2. QED
          BY <4>1, <3>0, <2>3, <2>4
      <3>1. CASE l # i
        <4>0. l \in (i + 1) .. n
          BY <3>1, <1>0
        <4>2. PICK a \in (j + 1) .. m : laid[a] = l /\ \A b \in (j + 1) .. m : laid[b] = l => b = a
          BY <4>0, <2>7, <1>2 DEF LaidFrom
        <4>3. a \in j .. m /\ ct[a] = l
          BY <4>2, <2>2, <2>4
        <4>4. ASSUME NEW b \in j .. m, ct[b] = l PROVE b = a
          <5>1. b # j
            BY <4>4, <3>1, <2>4
          <5>2. QED
            BY <5>1, <4>2, <4>4, <2>1, <2>4
        <4>5. QED
          BY <4>3, <4>4
      <3>2. QED
        BY <3>0, <3>1
    <2>8. LaidFrom(ct, p, q, i, j)
      BY <2>3, <2>5, <2>6, <2>7 DEF LaidFrom
    <2>9. QED
      BY <2>8 DEF Fits
  <1>3. QED
    BY <1>1, <1>2 DEF Fits

(* The equation of matches in MatchSegments, and one row of it.            *)
Row(p, q, i, next) ==
    IF i > Len(p) THEN {Len(q) + 1}
    ELSE IF p[i] = DoubleStar THEN {j \in 1 .. Len(q) + 1 : \E k \in next : j <= k}
    ELSE {j \in 1 .. Len(q) : q[j] \in p[i] /\ j + 1 \in next}

AreRows(f, p, q) == f = [i \in 1 .. Len(p) + 1 |-> Row(p, q, i, f[i + 1])]

LEMMA RowsExist ==
    ASSUME NEW p \in Seq(Segment), NEW q \in Seq(Name)
    PROVE  \E f : AreRows(f, p, q)
  <1> DEFINE n == Len(p)
             m == Len(q)
             V == SUBSET (1 .. m + 1)
             first == {m + 1}
             step == [pair \in (1 .. n) \X V |-> Row(p, q, n + 1 - pair[1], pair[2])]
  <1>0. n \in Nat /\ m \in Nat
    OBVIOUS
  <1>1. first \in V
    BY <1>0
  <1>2. ASSUME NEW i \in 1 .. n + 1, NEW next \in V PROVE Row(p, q, i, next) \in V
    BY <1>0 DEF Row
  <1>3. ASSUME NEW k \in 1 .. n, NEW v \in V
        PROVE  step[<<k, v>>] = Row(p, q, n + 1 - k, v) /\ Row(p, q, n + 1 - k, v) \in V
    <2>1. n + 1 - k \in 1 .. n + 1 /\ <<k, v>> \in (1 .. n) \X V
      <3>1. n + 1 - k \in 1 .. n + 1
        BY <1>0
      <3> HIDE DEF V, n
      <3>2. QED
        BY <3>1
    <2>2. Row(p, q, n + 1 - k, v) \in V
      BY <2>1, <1>2
    <2>3. QED
      BY <2>1, <2>2
  <1>4. step \in [(1 .. n) \X V -> V]
    <2>1. ASSUME NEW pair \in (1 .. n) \X V PROVE step[pair] \in V
      <3>1. PICK k \in 1 .. n, v \in V : pair = <<k, v>>
        OBVIOUS
      <3>2. QED
        BY <3>1, <1>3
    <2>2. QED
      BY <2>1
  <1> HIDE DEF step, first
  <1>5. PICK g \in [0 .. n -> V] : IsComputed(g, first, step, n)
    <2> HIDE DEF V, n
    <2>1. QED
      BY <1>0, <1>1, <1>4, Computable
  <1>6. g[0] = {m + 1} /\ \A k \in 1 .. n : g[k] = Row(p, q, n + 1 - k, g[k - 1])
    <2>1. ASSUME NEW k \in 1 .. n PROVE g[k] = Row(p, q, n + 1 - k, g[k - 1])
      <3>1. g[k] = step[<<k, g[k - 1]>>]
        BY <1>5 DEF IsComputed
      <3>2. k - 1 \in 0 .. n
        BY <1>0
      <3>3. g[k - 1] \in V
        BY <3>2, <1>5
      <3>4. QED
        BY <3>1, <3>3, <1>3
    <2>2. QED
      BY <2>1, <1>5 DEF IsComputed, first
  <1> DEFINE f == [i \in 1 .. n + 1 |-> g[n + 1 - i]]
  <1>7. \A i \in 1 .. n + 1 : f[i] = g[n + 1 - i]
    OBVIOUS
  <1>8. DOMAIN f = 1 .. n + 1 /\ f = [i \in 1 .. n + 1 |-> f[i]]
    OBVIOUS
  <1> HIDE DEF f
  <1>9. ASSUME NEW i \in 1 .. n + 1 PROVE f[i] = Row(p, q, i, f[i + 1])
    <2>1. CASE i = n + 1
      <3>1. f[i] = {m + 1}
        BY <2>1, <1>0, <1>6, <1>7
      <3>2. QED
        BY <3>1, <2>1, <1>0 DEF Row
    <2>2. CASE i # n + 1
      <3>1. n + 1 - i \in 1 .. n /\ n + 1 - (n + 1 - i) = i /\ i + 1 \in 1 .. n + 1
        BY <2>2, <1>0
      <3>2. (n + 1 - i) - 1 = n + 1 - (i + 1)
        BY <1>0
      <3>3. f[i] = g[n + 1 - i] /\ f[i + 1] = g[(n + 1 - i) - 1]
        BY <3>1, <3>2, <1>7
      <3>4. QED
        BY <3>1, <3>3, <1>6
    <2>3. QED
      BY <2>1, <2>2
  <1>10. f = [i \in 1 .. n + 1 |-> Row(p, q, i, f[i + 1])]
    BY <1>8, <1>9
  <1>11. QED
    BY <1>10 DEF AreRows

(* A row has the places from which the path fits. *)
LEMMA RowsAreFits ==
    ASSUME NEW p \in Seq(Segment), NEW q \in Seq(Name), NEW f, AreRows(f, p, q)
    PROVE  \A i \in 1 .. Len(p) + 1 :
              /\ f[i] \subseteq 1 .. Len(q) + 1
              /\ \A j \in 1 .. Len(q) + 1 : j \in f[i] <=> Fits(p, q, i, j)
  <1> DEFINE n == Len(p)
             m == Len(q)
             Right(i) == /\ f[i] \subseteq 1 .. m + 1
                         /\ \A j \in 1 .. m + 1 : j \in f[i] <=> Fits(p, q, i, j)
             S == {d \in Nat : d <= n => Right(n + 1 - d)}
  <1>0. n \in Nat /\ m \in Nat
    OBVIOUS
  <1>1. \A i \in 1 .. n + 1 : f[i] = Row(p, q, i, f[i + 1])
    BY DEF AreRows
  <1>2. 0 \in S
    <2>1. f[n + 1] = {m + 1}
      <3>1. n + 1 \in 1 .. n + 1 /\ n + 1 > n
        BY <1>0
      <3>2. f[n + 1] = Row(p, q, n + 1, f[(n + 1) + 1])
        BY <3>1, <1>1
      <3>3. QED
        BY <3>1, <3>2 DEF Row
    <2>2. \A j \in 1 .. m + 1 : Fits(p, q, n + 1, j) <=> j = m + 1
      BY FitsAtEnd
    <2>3. Right(n + 1)
      BY <2>1, <2>2, <1>0
    <2> HIDE DEF Right
    <2>4. n + 1 - 0 = n + 1
      BY <1>0
    <2>5. QED
      BY <2>3, <2>4
  <1>3. ASSUME NEW d \in S PROVE d + 1 \in S
    <2> DEFINE i == n - d
    <2>1. d \in Nat /\ (d <= n => Right(n + 1 - d))
      BY <1>3
    <2>2. ASSUME d + 1 <= n PROVE Right(i)
      <3>1. i \in 1 .. n /\ i \in 1 .. n + 1 /\ i + 1 = n + 1 - d /\ d <= n /\ ~(i > n)
        BY <2>1, <2>2, <1>0
      <3>2. Right(i + 1)
        BY <2>1, <3>1
      <3> HIDE DEF i
      <3>3. f[i] = Row(p, q, i, f[i + 1])
        BY <3>1, <1>1
      <3>4. CASE p[i] = DoubleStar
        <4>1. f[i] = {j \in 1 .. m + 1 : \E k \in f[i + 1] : j <= k}
          BY <3>1, <3>3, <3>4 DEF Row
        <4>2. ASSUME NEW j \in 1 .. m + 1 PROVE j \in f[i] <=> Fits(p, q, i, j)
          <5>1. Fits(p, q, i, j) <=> \E k \in 1 .. m + 1 : j <= k /\ Fits(p, q, i + 1, k)
            BY <3>1, <3>4, FitsStar
          <5>2. QED
            BY <5>1, <4>1, <3>2
        <4>3. QED
          BY <4>1, <4>2
      <3>5. CASE p[i] # DoubleStar
        <4>1. f[i] = {j \in 1 .. m : q[j] \in p[i] /\ j + 1 \in f[i + 1]}
          BY <3>1, <3>3, <3>5 DEF Row
        <4>2. ASSUME NEW j \in 1 .. m + 1 PROVE j \in f[i] <=> Fits(p, q, i, j)
          <5>1. Fits(p, q, i, j) <=> j \in 1 .. m /\ q[j] \in p[i] /\ Fits(p, q, i + 1, j + 1)
            BY <3>1, <3>5, FitsOne
          <5>2. j \in 1 .. m => j + 1 \in 1 .. m + 1
            BY <1>0
          <5>3. QED
            BY <5>1, <5>2, <4>1, <3>2
        <4>3. f[i] \subseteq 1 .. m + 1
          BY <4>1, <1>0
        <4>4. QED
          BY <4>2, <4>3
      <3>6. QED
        BY <3>4, <3>5
    <2> HIDE DEF Right
    <2>3. n + 1 - (d + 1) = i
      BY <2>1, <1>0
    <2>4. QED
      BY <2>1, <2>2, <2>3
  <1>4. S \in SUBSET Nat
    OBVIOUS
  <1>5. S = Nat
    <2> HIDE DEF S
    <2>1. QED
      BY <1>2, <1>3, <1>4, EveryNumber
  <1> HIDE DEF Right
  <1>6. ASSUME NEW i \in 1 .. n + 1 PROVE Right(i)
    <2>1. n + 1 - i \in Nat /\ n + 1 - i <= n /\ n + 1 - (n + 1 - i) = i
      BY <1>0
    <2>2. n + 1 - i \in S
      BY <2>1, <1>5
    <2>3. QED
      BY <2>1, <2>2
  <1>7. QED
    BY <1>6 DEF Right

(* matchSegments finds a match exactly when the segments can be laid.      *)
LEMMA MatchIsFits ==
    ASSUME NEW p \in Seq(Segment), NEW q \in Seq(Name)
    PROVE  Walker!MatchSegments(p, q) <=> Fits(p, q, 1, 1)
  <1> DEFINE f == CHOOSE g : AreRows(g, p, q)
  <1>1. AreRows(f, p, q)
    BY RowsExist
  <1>2. Walker!MatchSegments(p, q) <=> 1 \in f[1]
    BY DEF Walker!MatchSegments, AreRows, Row
  <1> HIDE DEF f
  <1>3. 1 \in 1 .. Len(p) + 1 /\ 1 \in 1 .. Len(q) + 1
    OBVIOUS
  <1>4. QED
    BY <1>1, <1>2, <1>3, RowsAreFits

Line == [blank : BOOLEAN, bang : BOOLEAN, slashInFront : BOOLEAN, slashAtEnd : BOOLEAN,
         segments : Seq(Segment)]

(* The last segment of a pattern takes the last name, or is a "**".        *)
LEMMA FitsLast ==
    ASSUME NEW p \in Seq(Segment), NEW q \in Seq(Name), NEW i \in 1 .. Len(p), i = Len(p),
           NEW j \in 1 .. Len(q) + 1
    PROVE  Fits(p, q, i, j) <=> p[i] = DoubleStar \/ (j = Len(q) /\ q[j] \in p[i])
  <1>0. Len(q) \in Nat /\ i \in Nat
    OBVIOUS
  <1>1. \A k \in 1 .. Len(q) + 1 : Fits(p, q, i + 1, k) <=> k = Len(q) + 1
    BY FitsAtEnd
  <1>2. CASE p[i] = DoubleStar
    <2>1. Fits(p, q, i, j) <=> \E k \in 1 .. Len(q) + 1 : j <= k /\ Fits(p, q, i + 1, k)
      BY <1>2, FitsStar
    <2>2. Len(q) + 1 \in 1 .. Len(q) + 1 /\ j <= Len(q) + 1
      BY <1>0
    <2>3. QED
      BY <2>1, <2>2, <1>1, <1>2
  <1>3. CASE p[i] # DoubleStar
    <2>1. Fits(p, q, i, j) <=> j \in 1 .. Len(q) /\ q[j] \in p[i] /\ Fits(p, q, i + 1, j + 1)
      BY <1>3, FitsOne
    <2>2. j \in 1 .. Len(q) => j + 1 \in 1 .. Len(q) + 1 /\ (j + 1 = Len(q) + 1 <=> j = Len(q))
      BY <1>0
    <2>3. j = Len(q) => j \in 1 .. Len(q)
      BY <1>0
    <2>4. QED
      BY <2>1, <2>2, <2>3, <1>1, <1>3
  <1>4. QED
    BY <1>2, <1>3

(* A pattern of one segment that is not anchored: what the file means is   *)
(* that it fits some rest of the path, what is kept is that it has a "**"  *)
(* in front.                                                               *)
LEMMA FloatingSegment ==
    ASSUME NEW p \in Seq(Segment), Len(p) = 1, DoubleStar \in Segment,
           NEW q \in Seq(Name), q # <<>>
    PROVE  Fits(<<DoubleStar>> \o p, q, 1, 1) <=>
              \E k \in 1 .. Len(q) : Fits(p, SubSeq(q, k, Len(q)), 1, 1)
  <1> DEFINE m == Len(q)
             r == <<DoubleStar>> \o p
             s == p[1]
  <1>0. m \in Nat /\ m >= 1 /\ \A k \in 1 .. m : q[k] \in Name
    BY ElementOfSeq, EmptySeq
  <1>1. r \in Seq(Segment) /\ Len(r) = 2 /\ r[1] = DoubleStar /\ r[2] = s
    <2> DEFINE c == <<DoubleStar>>
    <2>1. c \in Seq(Segment) /\ Len(c) = 1 /\ c[1] = DoubleStar
      OBVIOUS
    <2>2. r = c \o p
      OBVIOUS
    <2> HIDE DEF c, r, s
    <2>3. /\ c \o p \in Seq(Segment) /\ Len(c \o p) = Len(c) + Len(p)
          /\ \A i \in 1 .. Len(c) + Len(p) : (c \o p)[i] = IF i <= Len(c) THEN c[i] ELSE p[i - Len(c)]
      BY <2>1, ConcatProperties
    <2>4. r[1] = DoubleStar /\ r[2] = p[1] /\ Len(r) = 2 /\ r \in Seq(Segment)
      BY <2>1, <2>2, <2>3
    <2>5. QED
      BY <2>4 DEF s
  <1> HIDE DEF r
  <1>2. Fits(r, q, 1, 1) <=> s = DoubleStar \/ q[m] \in s
    <2>1. 1 \in 1 .. Len(r) /\ 1 \in 1 .. m + 1 /\ 2 \in 1 .. Len(r)
      BY <1>0, <1>1
    <2>2. Fits(r, q, 1, 1) <=> \E k \in 1 .. m + 1 : 1 <= k /\ Fits(r, q, 1 + 1, k)
      BY <2>1, <1>1, FitsStar
    <2>3. \A k \in 1 .. m + 1 : Fits(r, q, 2, k) <=> s = DoubleStar \/ (k = m /\ q[k] \in s)
      <3>1. ASSUME NEW k \in 1 .. Len(q) + 1
            PROVE  Fits(r, q, 2, k) <=> r[2] = DoubleStar \/ (k = Len(q) /\ q[k] \in r[2])
        BY <2>1, <1>1, FitsLast
      <3>2. QED
        BY <3>1, <1>1
    <2>4. m \in 1 .. m + 1 /\ \A k \in 1 .. m + 1 : 1 <= k
      BY <1>0
    <2>5. QED
      BY <2>2, <2>3, <2>4
  <1>3. ASSUME NEW k \in 1 .. m
        PROVE  Fits(p, SubSeq(q, k, m), 1, 1) <=> s = DoubleStar \/ (k = m /\ q[m] \in s)
    <2> DEFINE t == SubSeq(q, k, m)
    <2>1. /\ t \in Seq(Name) /\ Len(t) = m - k + 1
          /\ \A a \in 1 .. m - k + 1 : t[a] = q[k + a - 1]
      <3>1. \A a \in k .. m : q[a] \in Name
        BY <1>0
      <3>2. k <= m /\ k \in Int /\ m \in Int
        BY <1>0
      <3>3. QED
        BY <3>1, <3>2, SubSeqProperties
    <2> HIDE DEF t
    <2>2. 1 \in 1 .. Len(p) /\ 1 \in 1 .. Len(t) + 1
      BY <2>1, <1>0
    <2>3. Fits(p, t, 1, 1) <=> s = DoubleStar \/ (1 = Len(t) /\ t[1] \in s)
      BY <2>1, <2>2, FitsLast
    <2>4. 1 = Len(t) <=> k = m
      BY <2>1, <1>0
    <2>5. t[1] = q[k]
      BY <2>1, <1>0
    <2>6. QED
      BY <2>3, <2>4, <2>5 DEF t
  <1>4. m \in 1 .. m
    BY <1>0
  <1>5. QED
    BY <1>2, <1>3, <1>4 DEF r

(* A line covers a path when the rule ParseIgnore keeps of it matches.     *)
LEMMA CoversIsHit ==
    ASSUME DoubleStar \in Segment, NEW line \in Line, ~line.blank, line.segments # <<>>,
           NEW q \in Seq(Name), q # <<>>, NEW isDir \in BOOLEAN
    PROVE  LET rule == Walker!ParseLine(line)
           IN  /\ Walker!Covers(line, q, isDir) <=>
                     (rule.dirOnly => isDir) /\ Walker!MatchSegments(rule.segments, q)
               /\ rule.negate = line.bang
  <1> DEFINE rule == Walker!ParseLine(line)
  <1>8. line.segments \in Seq(Segment)
    BY DEF Line
  <1>7. PICK p \in Seq(Segment) : p = line.segments
    BY <1>8
  <1>0. Len(p) \in Nat /\ Len(p) # 0 /\ Len(q) \in Nat /\ Len(q) # 0
    BY <1>7, EmptySeq
  <1>9. \A n \in Nat : (n > 1 => n # 1) /\ (n # 0 /\ ~(n > 1) => n = 1)
    OBVIOUS
  <1>1. rule.negate = line.bang /\ rule.dirOnly = line.slashAtEnd
    BY DEF Walker!ParseLine
  <1>2. DOMAIN q = 1 .. Len(q)
    OBVIOUS
  <1>3. \A k \in 1 .. Len(q) : SubSeq(q, k, Len(q)) \in Seq(Name)
    BY ElementOfSeq, SubSeqProperties
  <1>4. CASE line.slashInFront \/ Len(p) > 1
    <2>1. rule.segments = p
      BY <1>4, <1>7 DEF Walker!ParseLine
    <2>2. Walker!MatchSegments(p, q) <=> Walker!Aligns(p, q)
      BY <1>0, MatchIsFits, AlignsIsFits
    <2>3. SubSeq(q, 1, Len(q)) = q
      BY SubSeqFull
    <2>4. Walker!Covers(line, q, isDir) <=> (line.slashAtEnd => isDir) /\ Walker!Aligns(p, q)
      <3>0. Len(p) > 1 => Len(p) # 1
        BY <1>0, <1>9, Zenon
      <3>1. line.slashInFront \/ Len(p) # 1
        BY <1>4, <3>0, Zenon
      <3>2. QED
        BY <3>1, <2>3, <1>7 DEF Walker!Covers
    <2>5. QED
      BY <2>1, <2>2, <2>4, <1>1
  <1>5. CASE ~(line.slashInFront \/ Len(p) > 1)
    <2>1. Len(p) = 1
      <3>1. ~(Len(p) > 1)
        BY <1>5, Zenon
      <3>2. QED
        BY <3>1, <1>0, <1>9, Zenon
    <2>2. rule.segments = <<DoubleStar>> \o p
      BY <1>5, <1>7 DEF Walker!ParseLine
    <2>3. <<DoubleStar>> \o p \in Seq(Segment)
      BY <1>0, ConcatProperties
    <2>4. Walker!MatchSegments(<<DoubleStar>> \o p, q) <=> Fits(<<DoubleStar>> \o p, q, 1, 1)
      BY <2>3, MatchIsFits
    <2>5. \A k \in 1 .. Len(q) :
             Walker!Aligns(p, SubSeq(q, k, Len(q))) <=> Fits(p, SubSeq(q, k, Len(q)), 1, 1)
      BY <1>0, <1>3, AlignsIsFits
    <2>6. Fits(<<DoubleStar>> \o p, q, 1, 1) <=>
             \E k \in 1 .. Len(q) : Fits(p, SubSeq(q, k, Len(q)), 1, 1)
      BY <1>0, <2>1, FloatingSegment
    <2>7. Walker!Covers(line, q, isDir) <=>
             /\ line.slashAtEnd => isDir
             /\ \E k \in 1 .. Len(q) : Walker!Aligns(p, SubSeq(q, k, Len(q)))
      BY <1>2, <1>5, <1>7, <2>1 DEF Walker!Covers
    <2>8. QED
      BY <2>2, <2>4, <2>5, <2>6, <2>7, <1>1
  <1>6. QED
    BY <1>1, <1>4, <1>5

(* s has the lines of the first n that are not blank, in their order: pos  *)
(* says where each comes from.                                             *)
Selected(s, file, pos, n) ==
    /\ pos \in [1 .. Len(s) -> 1 .. n]
    /\ \A a, b \in 1 .. Len(s) : a < b => pos[a] < pos[b]
    /\ \A a \in 1 .. Len(s) : s[a] = file[pos[a]] /\ ~file[pos[a]].blank
    /\ \A k \in 1 .. n : ~file[k].blank => \E a \in 1 .. Len(s) : pos[a] = k

AreKept(f, file) ==
    f = [k \in 0 .. Len(file) |->
            IF k = 0 THEN <<>>
            ELSE IF file[k].blank THEN f[k - 1] ELSE Append(f[k - 1], file[k])]

LEMMA KeptExist ==
    ASSUME NEW file \in Seq(Line)
    PROVE  \E f : AreKept(f, file)
  <1> DEFINE n == Len(file)
             V == Seq(Line)
             Grown(k, v) == IF file[k].blank THEN v ELSE Append(v, file[k])
             grown == [pair \in (1 .. n) \X V |-> Grown(pair[1], pair[2])]
  <1>0. n \in Nat /\ <<>> \in V
    OBVIOUS
  <1>1. ASSUME NEW k \in 1 .. n, NEW v \in V PROVE Grown(k, v) \in V
    <2>1. file[k] \in Line
      BY ElementOfSeq
    <2>2. QED
      BY <2>1, AppendProperties
  <1> HIDE DEF V, n, Grown
  <1>2. ASSUME NEW k \in 1 .. n, NEW v \in V PROVE grown[<<k, v>>] = Grown(k, v)
    OBVIOUS
  <1>3. grown \in [(1 .. n) \X V -> V]
    <2>1. ASSUME NEW pair \in (1 .. n) \X V PROVE grown[pair] \in V
      <3>1. PICK k \in 1 .. n, v \in V : pair = <<k, v>>
        OBVIOUS
      <3>2. grown[pair] = Grown(k, v)
        BY <3>1, <1>2
      <3>3. QED
        BY <3>2, <1>1
    <2>2. QED
      BY <2>1
  <1> HIDE DEF grown
  <1>4. PICK f \in [0 .. n -> V] : IsComputed(f, <<>>, grown, n)
    BY <1>0, <1>3, Computable
  <1>5. ASSUME NEW k \in 1 .. n PROVE f[k] = Grown(k, f[k - 1])
    <2>1. k - 1 \in 0 .. n
      BY <1>0
    <2>2. f[k - 1] \in V
      BY <2>1, <1>4
    <2>3. f[k] = grown[<<k, f[k - 1]>>]
      BY <1>4 DEF IsComputed
    <2>4. QED
      BY <2>2, <2>3, <1>2
  <1>6. f = [k \in 0 .. n |-> IF k = 0 THEN <<>> ELSE Grown(k, f[k - 1])]
    <2>1. \A k \in 0 .. n : f[k] = IF k = 0 THEN <<>> ELSE Grown(k, f[k - 1])
      <3>1. f[0] = <<>>
        BY <1>4 DEF IsComputed
      <3>2. \A k \in 0 .. n : k # 0 => k \in 1 .. n
        BY <1>0
      <3>3. QED
        BY <3>1, <3>2, <1>5
    <2>2. QED
      BY <2>1, <1>4
  <1>7. QED
    BY <1>6 DEF AreKept, n, Grown

LEMMA KeptAreSelected ==
    ASSUME NEW file \in Seq(Line), NEW f, AreKept(f, file)
    PROVE  \A n \in 0 .. Len(file) : f[n] \in Seq(Line) /\ \E pos : Selected(f[n], file, pos, n)
  <1> DEFINE Right(n) == f[n] \in Seq(Line) /\ \E pos : Selected(f[n], file, pos, n)
             S == {n \in Nat : n <= Len(file) => Right(n)}
  <1>0. Len(file) \in Nat
    OBVIOUS
  <1>1. f[0] = <<>> /\ \A k \in 1 .. Len(file) :
                          f[k] = IF file[k].blank THEN f[k - 1] ELSE Append(f[k - 1], file[k])
    <2>1. \A k \in 0 .. Len(file) :
             f[k] = IF k = 0 THEN <<>>
                    ELSE IF file[k].blank THEN f[k - 1] ELSE Append(f[k - 1], file[k])
      BY DEF AreKept
    <2>2. 0 \in 0 .. Len(file) /\ \A k \in 1 .. Len(file) : k \in 0 .. Len(file) /\ k # 0
      BY <1>0
    <2>3. QED
      BY <2>1, <2>2, Zenon
  <1>2. Right(0)
    <2>1. <<>> \in Seq(Line) /\ Len(<<>>) = 0 /\ 1 .. 0 = {}
      OBVIOUS
    <2> DEFINE pos == [a \in 1 .. 0 |-> a]
    <2>2. pos \in [1 .. 0 -> 1 .. 0]
      OBVIOUS
    <2> HIDE DEF pos
    <2>3. Selected(<<>>, file, pos, 0)
      BY <2>1, <2>2 DEF Selected
    <2>4. QED
      BY <2>1, <2>3, <1>1
  <1>3. ASSUME NEW n \in Nat, n + 1 <= Len(file), Right(n) PROVE Right(n + 1)
    <2> DEFINE s == f[n]
               line == file[n + 1]
    <2>1. PICK pos : Selected(s, file, pos, n)
      BY <1>3
    <2>2. s \in Seq(Line) /\ Len(s) \in Nat
      BY <1>3
    <2>3. n + 1 \in 1 .. Len(file) /\ (n + 1) - 1 = n
      BY <1>0, <1>3
    <2>4. line \in Line
      BY <2>3, ElementOfSeq
    <2>5. f[n + 1] = IF line.blank THEN s ELSE Append(s, line)
      BY <1>1, <2>3
    <2> HIDE DEF s, line
    <2>6. \A k \in 1 .. n + 1 : k = n + 1 \/ k \in 1 .. n
      OBVIOUS
    <2>7. \A k \in 1 .. n : k \in 1 .. n + 1
      OBVIOUS
    <2>8. CASE line.blank
      <3>1. pos \in [1 .. Len(s) -> 1 .. n + 1]
        BY <2>1, <2>7 DEF Selected
      <3>2. \A k \in 1 .. n + 1 : ~file[k].blank => k \in 1 .. n
        BY <2>6, <2>8 DEF line
      <3>3. Selected(s, file, pos, n + 1)
        BY <2>1, <3>1, <3>2 DEF Selected
      <3>4. f[n + 1] = s
        BY <2>5, <2>8
      <3>5. QED
        BY <3>3, <3>4, <2>2
    <2>9. CASE ~line.blank
      <3> DEFINE t == Append(s, line)
                 m == Len(s)
                 to == [a \in 1 .. m + 1 |-> IF a = m + 1 THEN n + 1 ELSE pos[a]]
      <3>0. m \in Nat
        BY <2>2
      <3>1. /\ t \in Seq(Line) /\ Len(t) = m + 1 /\ t[m + 1] = line
            /\ \A a \in 1 .. m : t[a] = s[a]
        BY <2>2, <2>4, AppendProperties
      <3>2. f[n + 1] = t
        BY <2>5, <2>9
      <3> HIDE DEF t, m
      <3>3. pos \in [1 .. m -> 1 .. n]
        BY <2>1 DEF Selected, m
      <3>4. \A a \in 1 .. m + 1 : a = m + 1 \/ (a \in 1 .. m /\ a # m + 1)
        BY <3>0
      <3>5. /\ to \in [1 .. m + 1 -> 1 .. n + 1]
            /\ to[m + 1] = n + 1
            /\ \A a \in 1 .. m : to[a] = pos[a]
        <4>1. \A a \in 1 .. m : a \in 1 .. m + 1 /\ a # m + 1 /\ pos[a] \in 1 .. n + 1
          BY <3>0, <3>3
        <4>2. m + 1 \in 1 .. m + 1 /\ n + 1 \in 1 .. n + 1
          BY <3>0
        <4>3. QED
          BY <4>1, <4>2, <3>4
      <3> HIDE DEF to
      <3>6. ASSUME NEW a \in 1 .. m + 1, NEW b \in 1 .. m + 1, a < b PROVE to[a] < to[b]
        <4>1. a \in 1 .. m
          BY <3>6, <3>0
        <4>2. to[a] = pos[a] /\ pos[a] \in 1 .. n
          BY <4>1, <3>3, <3>5
        <4>3. CASE b = m + 1
          BY <4>2, <4>3, <3>5
        <4>4. CASE b # m + 1
          <5>1. b \in 1 .. m
            BY <4>4, <3>4
          <5>2. pos[a] < pos[b]
            BY <5>1, <4>1, <3>6, <2>1 DEF Selected, m
          <5>3. QED
            BY <5>1, <5>2, <4>2, <3>5
        <4>5. QED
          BY <4>3, <4>4
      <3>7. ASSUME NEW a \in 1 .. m + 1 PROVE t[a] = file[to[a]] /\ ~file[to[a]].blank
        <4>1. CASE a = m + 1
          BY <4>1, <3>1, <3>5, <2>9 DEF line
        <4>2. CASE a # m + 1
          <5>1. a \in 1 .. m
            BY <4>2, <3>4
          <5>2. s[a] = file[pos[a]] /\ ~file[pos[a]].blank
            BY <5>1, <2>1 DEF Selected, m
          <5>3. QED
            BY <5>1, <5>2, <3>1, <3>5
        <4>3. QED
          BY <4>1, <4>2
      <3>8. ASSUME NEW k \in 1 .. n + 1, ~file[k].blank PROVE \E a \in 1 .. m + 1 : to[a] = k
        <4>1. CASE k = n + 1
          <5>1. m + 1 \in 1 .. m + 1
            BY <3>0
          <5>2. QED
            BY <5>1, <4>1, <3>5
        <4>2. CASE k # n + 1
          <5>1. k \in 1 .. n
            BY <4>2, <2>6
          <5>2. PICK a \in 1 .. m : pos[a] = k
            BY <5>1, <3>8, <2>1 DEF Selected, m
          <5>3. a \in 1 .. m + 1
            BY <3>0
          <5>4. QED
            BY <5>2, <5>3, <3>5
        <4>3. QED
          BY <4>1, <4>2
      <3>9. Selected(t, file, to, n + 1)
        BY <3>1, <3>5, <3>6, <3>7, <3>8 DEF Selected
      <3>10. QED
        BY <3>1, <3>2, <3>9
    <2>10. QED
      BY <2>8, <2>9
  <1>4. S \in SUBSET Nat
    OBVIOUS
  <1> HIDE DEF Right
  <1>5. 0 \in S
    BY <1>2
  <1>6. ASSUME NEW n \in S PROVE n + 1 \in S
    <2>1. n \in Nat /\ (n <= Len(file) => Right(n))
      BY <1>6
    <2>2. n + 1 <= Len(file) => n <= Len(file)
      BY <2>1, <1>0
    <2>3. QED
      BY <2>1, <2>2, <1>3
  <1>7. S = Nat
    <2> HIDE DEF S
    <2>1. QED
      BY <1>4, <1>5, <1>6, EveryNumber
  <1>8. ASSUME NEW n \in 0 .. Len(file) PROVE Right(n)
    <2>1. n \in S /\ n <= Len(file)
      BY <1>7, <1>0
    <2>2. QED
      BY <2>1
  <1>9. QED
    BY <1>8 DEF Right

(* Patterns keeps the lines that are not blank.                            *)
LEMMA PatternsAreSelected ==
    ASSUME NEW file \in Seq(Line)
    PROVE  /\ Walker!Patterns(file) \in Seq(Line)
           /\ \E pos : Selected(Walker!Patterns(file), file, pos, Len(file))
  <1> DEFINE f == CHOOSE g : AreKept(g, file)
  <1>1. AreKept(f, file)
    BY KeptExist
  <1>2. Walker!Patterns(file) = f[Len(file)]
    BY DEF Walker!Patterns, AreKept
  <1> HIDE DEF f
  <1>3. Len(file) \in 0 .. Len(file)
    OBVIOUS
  <1>4. QED
    BY <1>1, <1>2, <1>3, KeptAreSelected

------------------------------------------------------------------------------
(* The rules of a file: those of its lines that are not blank, each with a *)
(* pattern.                                                                *)
Parsed(rs, file) ==
    LET patterns == Walker!Patterns(file)
    IN  /\ rs = [k \in DOMAIN patterns |-> Walker!ParseLine(patterns[k])]
        /\ \A k \in DOMAIN patterns : patterns[k].segments # <<>>

Hit(rule, q, isDir) == (rule.dirOnly => isDir) /\ Walker!MatchSegments(rule.segments, q)

Hits(rs, q, isDir) == {k \in DOMAIN rs : Hit(rs[k], q, isDir)}

(* Match, of any rules.                                                    *)
Decides(rs, q, isDir) ==
    Hits(rs, q, isDir) # {} /\ ~rs[Walker!Max(Hits(rs, q, isDir))].negate

LEMMA MatchDecides ==
    ASSUME NEW q, NEW isDir
    PROVE  Walker!Match(q, isDir) <=> Decides(rules, q, isDir)
  BY DEF Walker!Match, Decides, Hits, Hit

LEMMA MaxIsGreatest ==
    ASSUME NEW n \in Nat, NEW S \in SUBSET (1 .. n), S # {}
    PROVE  Walker!Max(S) \in S /\ \A k \in S : k <= Walker!Max(S)
  <1> DEFINE T == {n - k : k \in S}
  <1>1. T \in SUBSET Nat /\ T # {}
    OBVIOUS
  <1>2. PICK t \in T : \A k \in T : t <= k
    BY <1>1, LeastNumber
  <1>3. PICK x \in S : t = n - x
    BY <1>2
  <1>4. \A k \in S : x >= k
    <2>1. SUFFICES ASSUME NEW k \in S PROVE x >= k
      OBVIOUS
    <2>2. n - k \in T
      OBVIOUS
    <2>3. n - x <= n - k
      BY <1>2, <1>3, <2>2
    <2>4. n \in Int /\ x \in Int /\ k \in Int
      OBVIOUS
    <2>5. QED
      BY <2>3, <2>4
  <1> HIDE DEF T
  <1>5. Walker!Max(S) \in S /\ \A k \in S : Walker!Max(S) >= k
    BY <1>3, <1>4 DEF Walker!Max
  <1>6. QED
    BY <1>5

(* IgnoredByFile, of any file.                                             *)
FileIgnores(file, q, isDir) ==
    \E k \in DOMAIN file :
        /\ Walker!Covers(file[k], q, isDir) /\ ~file[k].bang
        /\ \A j \in k + 1 .. Len(file) : ~Walker!Covers(file[j], q, isDir)

(* The last rule that matches decides what the last line that covers the   *)
(* path does.                                                              *)
LEMMA RulesObeyTheFile ==
    ASSUME DoubleStar \in Segment, NEW file \in Seq(Line), NEW rs, Parsed(rs, file),
           NEW q \in Seq(Name), q # <<>>, NEW isDir \in BOOLEAN
    PROVE  Decides(rs, q, isDir) <=> FileIgnores(file, q, isDir)
  <1> DEFINE s == Walker!Patterns(file)
             n == Len(file)
             Covers(k) == Walker!Covers(file[k], q, isDir)
  <1>1. s \in Seq(Line)
    BY PatternsAreSelected
  <1>2. PICK pos : Selected(s, file, pos, n)
    BY PatternsAreSelected
  <1>3. n \in Nat /\ Len(s) \in Nat /\ DOMAIN s = 1 .. Len(s) /\ DOMAIN file = 1 .. n
    BY <1>1
  <1>4. /\ DOMAIN rs = 1 .. Len(s)
        /\ \A a \in 1 .. Len(s) : rs[a] = Walker!ParseLine(s[a]) /\ s[a].segments # <<>>
    BY <1>3 DEF Parsed
  <1> HIDE DEF s, n
  <1>5. /\ \A a \in 1 .. Len(s) : pos[a] \in 1 .. n
        /\ \A a, b \in 1 .. Len(s) : a < b => pos[a] < pos[b]
        /\ \A a \in 1 .. Len(s) : s[a] = file[pos[a]] /\ ~file[pos[a]].blank
        /\ \A k \in 1 .. n : ~file[k].blank => \E a \in 1 .. Len(s) : pos[a] = k
    BY <1>2 DEF Selected
  <1>6. ASSUME NEW a \in 1 .. Len(s)
        PROVE  /\ Covers(pos[a]) <=> Hit(rs[a], q, isDir)
               /\ rs[a].negate = file[pos[a]].bang
    <2> DEFINE line == s[a]
    <2>1. line \in Line /\ ~line.blank /\ line.segments # <<>> /\ line = file[pos[a]]
      BY <1>1, <1>4, <1>5, ElementOfSeq
    <2> HIDE DEF line
    <2>2. rs[a] = Walker!ParseLine(line)
      BY <1>4 DEF line
    <2>3. QED
      BY <2>1, <2>2, CoversIsHit DEF Hit
  <1>7. ASSUME NEW k \in 1 .. n, Covers(k) PROVE \E a \in 1 .. Len(s) : pos[a] = k
    <2>1. ~file[k].blank
      BY <1>7 DEF Walker!Covers
    <2>2. QED
      BY <2>1, <1>5
  <1> DEFINE H == Hits(rs, q, isDir)
             x == Walker!Max(H)
  <1>8. H \in SUBSET (1 .. Len(s)) /\ \A a \in 1 .. Len(s) : a \in H <=> Covers(pos[a])
    BY <1>4, <1>6 DEF Hits
  <1> HIDE DEF Covers, H
  <1>9. ASSUME H # {} PROVE x \in H /\ \A a \in H : a <= x
    BY <1>3, <1>8, <1>9, MaxIsGreatest
  <1> HIDE DEF x
  <1>10. ASSUME H # {}, ~rs[x].negate PROVE FileIgnores(file, q, isDir)
    <2>1. x \in 1 .. Len(s) /\ Covers(pos[x]) /\ ~file[pos[x]].bang /\ pos[x] \in 1 .. n
      BY <1>5, <1>6, <1>8, <1>9, <1>10
    <2>2. ASSUME NEW j \in pos[x] + 1 .. n, Covers(j) PROVE FALSE
      <3>1. j \in 1 .. n /\ pos[x] < j
        BY <2>1, <1>3
      <3>2. PICK a \in 1 .. Len(s) : pos[a] = j
        BY <3>1, <2>2, <1>7
      <3>3. a <= x
        BY <3>2, <2>2, <1>8, <1>9, <1>10
      <3>4. a < x \/ a = x
        BY <3>3, <2>1, <1>3
      <3>5. a < x => pos[a] < pos[x]
        BY <2>1, <1>5
      <3>6. QED
        BY <3>1, <3>2, <3>4, <3>5, <2>1, <1>3
    <2>3. QED
      BY <2>1, <2>2, <1>3 DEF FileIgnores, Covers, n
  <1>11. ASSUME NEW k \in 1 .. n, Covers(k), ~file[k].bang,
                \A j \in k + 1 .. n : ~Covers(j)
         PROVE  H # {} /\ ~rs[x].negate
    <2>1. PICK a \in 1 .. Len(s) : pos[a] = k
      BY <1>7, <1>11
    <2>2. a \in H
      BY <2>1, <1>8, <1>11
    <2>3. x \in H /\ a <= x /\ x \in 1 .. Len(s) /\ Covers(pos[x]) /\ pos[x] \in 1 .. n
      BY <2>2, <1>5, <1>8, <1>9
    <2>4. x = a
      <3>1. a < x \/ a = x
        BY <2>3, <1>3
      <3>2. a < x => k < pos[x]
        BY <2>1, <2>3, <1>5
      <3>3. k < pos[x] => pos[x] \in k + 1 .. n
        BY <2>3, <1>3
      <3>4. QED
        BY <3>1, <3>2, <3>3, <2>3, <1>11
    <2>5. QED
      BY <2>1, <2>2, <2>4, <1>6, <1>11
  <1>12. FileIgnores(file, q, isDir) <=>
            \E k \in 1 .. n : Covers(k) /\ ~file[k].bang /\ \A j \in k + 1 .. n : ~Covers(j)
    BY <1>3 DEF FileIgnores, Covers, n
  <1>13. Decides(rs, q, isDir) <=> H # {} /\ ~rs[x].negate
    BY DEF Decides, H, x
  <1>14. QED
    BY <1>10, <1>11, <1>12, <1>13

(* Prefixes, place by place.                                               *)
Pre(a, b) == Len(a) <= Len(b) /\ \A i \in 1 .. Len(a) : a[i] = b[i]

StrictlyPre(a, b) == Pre(a, b) /\ Len(a) < Len(b)

LEMMA Cuts ==
    ASSUME NEW f \in Seq(Name), NEW k \in 0 .. Len(f)
    PROVE  /\ SubSeq(f, 1, k) \in Seq(Name) /\ Len(SubSeq(f, 1, k)) = k
           /\ \A i \in 1 .. k : SubSeq(f, 1, k)[i] = f[i]
           /\ Pre(SubSeq(f, 1, k), f)
  <1>1. Len(f) \in Nat /\ k \in Int /\ \A i \in 1 .. k : f[i] \in Name
    BY ElementOfSeq
  <1>2. /\ SubSeq(f, 1, k) \in Seq(Name)
        /\ Len(SubSeq(f, 1, k)) = IF 1 <= k THEN k - 1 + 1 ELSE 0
        /\ \A i \in 1 .. k - 1 + 1 : SubSeq(f, 1, k)[i] = f[1 + i - 1]
    BY <1>1, SubSeqProperties
  <1> DEFINE c == SubSeq(f, 1, k)
  <1> HIDE DEF c
  <1>3. Len(c) = k
    BY <1>1, <1>2 DEF c
  <1>4. ASSUME NEW i \in 1 .. k PROVE c[i] = f[i]
    <2>1. i \in 1 .. k - 1 + 1 /\ 1 + i - 1 = i
      BY <1>1
    <2>2. QED
      BY <2>1, <1>2 DEF c
  <1>5. Pre(c, f)
    BY <1>1, <1>3, <1>4 DEF Pre
  <1>6. QED
    BY <1>2, <1>3, <1>4, <1>5 DEF c

LEMMA PrefixIsPre ==
    ASSUME NEW a \in Seq(Name), NEW b \in Seq(Name)
    PROVE  /\ Walker!IsPrefix(a, b) <=> Pre(a, b)
           /\ Walker!IsStrictPrefix(a, b) <=> StrictlyPre(a, b)
           /\ Pre(a, b) => SubSeq(b, 1, Len(a)) = a
           /\ Pre(a, b) /\ Len(a) = Len(b) => a = b
  <1>0. Len(a) \in Nat /\ Len(b) \in Nat
    OBVIOUS
  <1>1. SubSeq(a, 1, Len(a)) = a
    BY SubSeqFull
  <1>2. ASSUME Len(a) <= Len(b)
        PROVE  SubSeq(b, 1, Len(a)) = a <=> \A i \in 1 .. Len(a) : a[i] = b[i]
    <2> DEFINE c == SubSeq(b, 1, Len(a))
    <2>1. Len(a) \in 0 .. Len(b)
      BY <1>0, <1>2
    <2>2. c \in Seq(Name) /\ Len(c) = Len(a) /\ \A i \in 1 .. Len(a) : c[i] = b[i]
      BY <2>1, Cuts
    <2> HIDE DEF c
    <2>3. ASSUME \A i \in 1 .. Len(a) : a[i] = b[i] PROVE c = a
      BY <2>2, <2>3, SeqEqual
    <2>4. QED
      BY <2>2, <2>3 DEF c
  <1>3. Walker!IsPrefix(a, b) <=> Pre(a, b)
    BY <1>1, <1>2 DEF Walker!IsPrefix, Pre
  <1>4. Pre(a, b) /\ Len(a) = Len(b) => a = b
    BY SeqEqual DEF Pre
  <1>5. Walker!IsStrictPrefix(a, b) <=> StrictlyPre(a, b)
    BY <1>0, <1>3, <1>4 DEF Walker!IsStrictPrefix, StrictlyPre, Pre
  <1>6. QED
    BY <1>2, <1>3, <1>4, <1>5 DEF Pre

LEMMA PreOrder ==
    ASSUME NEW a \in Seq(Name), NEW b \in Seq(Name), NEW c \in Seq(Name)
    PROVE  /\ Pre(a, a)
           /\ Pre(a, b) /\ Pre(b, c) => Pre(a, c)
           /\ Pre(a, c) /\ Pre(b, c) /\ Len(a) <= Len(b) => Pre(a, b)
  <1>1. Len(a) \in Nat /\ Len(b) \in Nat /\ Len(c) \in Nat
    OBVIOUS
  <1>2. \A i \in 1 .. Len(a) : Len(a) <= Len(b) => i \in 1 .. Len(b)
    BY <1>1
  <1>3. QED
    BY <1>1, <1>2 DEF Pre

------------------------------------------------------------------------------
(* Directories.                                                            *)

(* The paths of the files of a directory: none is empty, none is below     *)
(* another, and .fibula is a directory.                                    *)
Forest(t) ==
    /\ t \in SUBSET (Seq(Name) \ {<<>>})
    /\ \A f, g \in t : ~Walker!IsStrictPrefix(f, g)
    /\ <<SpaceDir>> \notin t

Dir(t, e) == \E f \in t : StrictlyPre(e, f)

Kids(t, e) == {SubSeq(f, 1, Len(e) + 1) : f \in {x \in t : StrictlyPre(e, x)}}

TreeEntries(t) == {e \in Seq(Name) : Len(e) >= 1 /\ \E f \in t : Pre(e, f)}

(* The entries that are below none of the stops.                           *)
Unskipped(t, stops) == {e \in TreeEntries(t) : \A k \in 1 .. Len(e) - 1 : SubSeq(e, 1, k) \notin stops}

(* Nothing that is wanted is lost: it is found, or below what is to come.  *)
Ahead(td, found, wanted) == \A x \in wanted : x \in found \/ \E e \in td : Pre(e, x)

LEMMA ForestFacts ==
    ASSUME NEW t, Forest(t)
    PROVE  /\ \A f \in t : f \in Seq(Name) /\ Len(f) \in Nat /\ Len(f) >= 1
           /\ \A f, g \in t : ~StrictlyPre(f, g)
           /\ \A f \in t : f \in TreeEntries(t)
           /\ \A e \in Seq(Name) : Len(e) >= 1 => (e \in TreeEntries(t) <=> e \in t \/ Dir(t, e))
           /\ \A f \in t : ~Dir(t, f)
  <1>1. ASSUME NEW f \in t PROVE f \in Seq(Name) /\ Len(f) \in Nat /\ Len(f) >= 1
    <2>1. f \in Seq(Name) /\ f # <<>>
      BY DEF Forest
    <2>2. Len(f) \in Nat \ {0}
      BY <2>1, EmptySeq
    <2>3. QED
      BY <2>1, <2>2
  <1>2. ASSUME NEW f \in t, NEW g \in t PROVE ~StrictlyPre(f, g)
    BY <1>1, PrefixIsPre DEF Forest
  <1>3. \A f \in t : f \in TreeEntries(t)
    BY <1>1, PreOrder DEF TreeEntries
  <1>4. ASSUME NEW e \in Seq(Name), Len(e) >= 1 PROVE e \in TreeEntries(t) <=> e \in t \/ Dir(t, e)
    <2>1. e \in t \/ Dir(t, e) => e \in TreeEntries(t)
      BY <1>3, <1>4 DEF TreeEntries, Dir, StrictlyPre
    <2>2. ASSUME NEW f \in t, Pre(e, f), e \notin t PROVE Dir(t, e)
      <3>1. Len(e) # Len(f)
        BY <2>2, <1>1, PrefixIsPre
      <3>2. Len(e) <= Len(f) /\ Len(e) \in Nat /\ Len(f) \in Nat
        BY <2>2, <1>1 DEF Pre
      <3>3. Len(e) < Len(f)
        BY <3>1, <3>2
      <3>4. QED
        BY <2>2, <3>3 DEF Dir, StrictlyPre
    <2>3. QED
      BY <2>1, <2>2 DEF TreeEntries
  <1>5. \A f \in t : ~Dir(t, f)
    BY <1>2 DEF Dir
  <1>6. QED
    BY <1>1, <1>2, <1>3, <1>4, <1>5

LEMMA WalkStarts ==
    ASSUME NEW t, Forest(t), NEW stops, NEW found, NEW wanted, wanted \subseteq TreeEntries(t)
    PROVE  Kids(t, <<>>) \subseteq Unskipped(t, stops) /\ Ahead(Kids(t, <<>>), found, wanted)
  <1>0. <<>> \in Seq(Name) /\ Len(<<>>) = 0 /\ Len(<<>>) + 1 = 1
    OBVIOUS
  <1>1. ASSUME NEW f \in t PROVE StrictlyPre(<<>>, f) /\ 1 \in 0 .. Len(f)
    <2>1. Len(f) \in Nat /\ Len(f) >= 1
      BY ForestFacts
    <2>2. QED
      BY <2>1, <1>0 DEF StrictlyPre, Pre
  <1>2. ASSUME NEW f \in t PROVE SubSeq(f, 1, 1) \in Unskipped(t, stops)
    <2>1. /\ SubSeq(f, 1, 1) \in Seq(Name) /\ Len(SubSeq(f, 1, 1)) = 1
          /\ Pre(SubSeq(f, 1, 1), f)
      BY <1>1, ForestFacts, Cuts
    <2>2. 1 .. 1 - 1 = {}
      OBVIOUS
    <2>3. QED
      BY <2>1, <2>2 DEF Unskipped, TreeEntries
  <1>3. Kids(t, <<>>) = {SubSeq(f, 1, 1) : f \in t}
    BY <1>0, <1>1 DEF Kids
  <1>4. ASSUME NEW x \in wanted PROVE \E e \in Kids(t, <<>>) : Pre(e, x)
    <2>1. x \in Seq(Name) /\ Len(x) >= 1
      BY DEF TreeEntries
    <2>2. PICK f \in t : Pre(x, f)
      BY DEF TreeEntries
    <2>3. f \in Seq(Name) /\ Len(x) \in Nat /\ Len(SubSeq(f, 1, 1)) <= Len(x)
      BY <1>1, <2>1, ForestFacts, Cuts
    <2>4. SubSeq(f, 1, 1) \in Seq(Name) /\ Pre(SubSeq(f, 1, 1), f)
      BY <1>1, <2>3, Cuts
    <2>5. Pre(SubSeq(f, 1, 1), x)
      BY <2>1, <2>2, <2>3, <2>4, PreOrder
    <2>6. QED
      BY <2>5, <1>3
  <1>5. QED
    BY <1>2, <1>3, <1>4 DEF Ahead

(* What a walk that descends into e has before it.                         *)
LEMMA WalkDescends ==
    ASSUME NEW t, Forest(t), NEW stops, NEW e \in Unskipped(t, stops), e \notin stops
    PROVE  /\ Kids(t, e) \subseteq Unskipped(t, stops)
           /\ \A x \in TreeEntries(t) : Pre(e, x) => x = e \/ \E c \in Kids(t, e) : Pre(c, x)
  <1>0. e \in Seq(Name) /\ Len(e) \in Nat /\ Len(e) >= 1
    BY DEF Unskipped, TreeEntries
  <1>1. ASSUME NEW f \in t, StrictlyPre(e, f)
        PROVE  LET c == SubSeq(f, 1, Len(e) + 1)
               IN  /\ c \in Seq(Name) /\ Len(c) = Len(e) + 1 /\ Pre(c, f)
                   /\ c \in Unskipped(t, stops)
    <2> DEFINE c == SubSeq(f, 1, Len(e) + 1)
    <2>1. f \in Seq(Name) /\ Len(f) \in Nat /\ Len(e) < Len(f) /\ Pre(e, f)
      BY <1>1, ForestFacts DEF StrictlyPre
    <2>2. Len(e) + 1 \in 0 .. Len(f)
      BY <2>1, <1>0
    <2>3. c \in Seq(Name) /\ Len(c) = Len(e) + 1 /\ Pre(c, f)
      BY <2>1, <2>2, Cuts
    <2> HIDE DEF c
    <2>4. c \in TreeEntries(t)
      BY <2>3, <1>0 DEF TreeEntries
    <2>5. Pre(e, c)
      BY <2>1, <2>3, <1>0, PreOrder
    <2>6. ASSUME NEW k \in 1 .. Len(c) - 1 PROVE SubSeq(c, 1, k) \notin stops
      <3>1. k \in 0 .. Len(c) /\ k \in 0 .. Len(e) /\ k \in 1 .. Len(e)
        BY <2>3, <1>0
      <3> DEFINE d == SubSeq(c, 1, k)
                 g == SubSeq(e, 1, k)
      <3>2. d \in Seq(Name) /\ Len(d) = k /\ Pre(d, c)
        BY <2>3, <3>1, Cuts
      <3>3. g \in Seq(Name) /\ Len(g) = k /\ Pre(g, e)
        BY <1>0, <3>1, Cuts
      <3> HIDE DEF d, g
      <3>4. Pre(g, c)
        BY <3>3, <2>3, <2>5, <1>0, PreOrder
      <3>5. Len(g) <= Len(d)
        BY <3>2, <3>3
      <3>6. Pre(g, d)
        BY <3>2, <3>3, <3>4, <3>5, <2>3, PreOrder
      <3>7. d = g
        BY <3>2, <3>3, <3>6, PrefixIsPre
      <3>8. CASE k = Len(e)
        <4>1. g = e
          BY <3>3, <3>8, <1>0, PrefixIsPre
        <4>2. QED
          BY <4>1, <3>7 DEF d
      <3>9. CASE k # Len(e)
        <4>1. k \in 1 .. Len(e) - 1
          BY <3>1, <3>9, <1>0
        <4>2. QED
          BY <4>1, <3>7 DEF d, g, Unskipped
      <3>10. QED
        BY <3>8, <3>9
    <2>7. QED
      BY <2>3, <2>4, <2>6 DEF Unskipped, c
  <1>2. Kids(t, e) \subseteq Unskipped(t, stops)
    BY <1>1 DEF Kids
  <1>3. ASSUME NEW x \in TreeEntries(t), Pre(e, x), x # e PROVE \E c \in Kids(t, e) : Pre(c, x)
    <2>1. x \in Seq(Name) /\ Len(x) \in Nat
      BY DEF TreeEntries
    <2>2. PICK f \in t : Pre(x, f)
      BY DEF TreeEntries
    <2>3. f \in Seq(Name) /\ Len(f) \in Nat
      BY ForestFacts
    <2>4. Len(e) <= Len(x) /\ Len(e) # Len(x) /\ Len(x) <= Len(f)
      BY <1>3, <1>0, <2>1, <2>2, PrefixIsPre DEF Pre
    <2>5. Len(e) < Len(f) /\ Len(e) + 1 <= Len(x)
      BY <2>4, <2>1, <2>3, <1>0
    <2>6. StrictlyPre(e, f)
      <3>1. Pre(e, f)
        BY <1>3, <1>0, <2>1, <2>2, <2>3, PreOrder
      <3>2. QED
        BY <3>1, <2>5 DEF StrictlyPre
    <2> DEFINE c == SubSeq(f, 1, Len(e) + 1)
    <2>7. c \in Kids(t, e)
      BY <2>6 DEF Kids
    <2>8. c \in Seq(Name) /\ Len(c) = Len(e) + 1 /\ Pre(c, f)
      BY <1>1, <2>6
    <2> HIDE DEF c
    <2>9. Len(c) <= Len(x)
      BY <2>8, <2>5
    <2>10. Pre(c, x)
      BY <2>1, <2>2, <2>3, <2>8, <2>9, PreOrder
    <2>11. QED
      BY <2>7, <2>10
  <1>4. QED
    BY <1>2, <1>3

(* One entry of a walk: what is wanted of it is found when it is visited,  *)
(* and what is below it comes unless it is a stop.                         *)
Visit(t, stops, td, e, wanted, found, found2, next) ==
    /\ Forest(t) /\ td \subseteq Unskipped(t, stops) /\ e \in td
    /\ wanted \subseteq Unskipped(t, stops) /\ Ahead(td, found, wanted)
    /\ found \subseteq found2 /\ (e \in wanted => e \in found2)
    /\ next = IF Dir(t, e) /\ e \notin stops THEN (td \ {e}) \cup Kids(t, e) ELSE td \ {e}

LEMMA WalkVisits ==
    ASSUME NEW t, NEW stops, NEW td, NEW e, NEW wanted, NEW found, NEW found2, NEW next,
           Visit(t, stops, td, e, wanted, found, found2, next)
    PROVE  next \subseteq Unskipped(t, stops) /\ Ahead(next, found2, wanted)
  <1> USE DEF Visit
  <1>0. e \in Unskipped(t, stops) /\ e \in TreeEntries(t) /\ e \in Seq(Name) /\ Len(e) \in Nat
    BY DEF Unskipped, TreeEntries
  <1>1. next \subseteq Unskipped(t, stops)
    <2>1. e \notin stops => Kids(t, e) \subseteq Unskipped(t, stops)
      BY <1>0, WalkDescends
    <2>2. QED
      BY <2>1
  <1>2. ASSUME NEW x \in wanted, x \notin found2 PROVE \E d \in next : Pre(d, x)
    <2>1. PICK d \in td : Pre(d, x)
      BY <1>2 DEF Ahead
    <2>2. CASE d # e
      BY <2>1, <2>2
    <2>3. CASE d = e
      <3>1. x # e /\ Pre(e, x) /\ x \in Unskipped(t, stops)
        BY <1>2, <2>1, <2>3
      <3>2. x \in TreeEntries(t) /\ x \in Seq(Name) /\ Len(x) \in Nat
        BY <3>1 DEF Unskipped, TreeEntries
      <3>3. Len(e) < Len(x)
        <4>1. Len(e) <= Len(x) /\ Len(e) # Len(x)
          BY <3>1, <3>2, <1>0, PrefixIsPre DEF Pre
        <4>2. QED
          BY <4>1, <3>2, <1>0
      <3>4. Dir(t, e)
        <4>1. PICK f \in t : Pre(x, f)
          BY <3>2 DEF TreeEntries
        <4>2. f \in Seq(Name) /\ Len(f) \in Nat
          BY ForestFacts
        <4>3. Pre(e, f)
          BY <4>1, <4>2, <3>1, <3>2, <1>0, PreOrder
        <4>4. Len(e) < Len(f)
          BY <4>1, <4>2, <3>2, <3>3, <1>0 DEF Pre
        <4>5. QED
          BY <4>3, <4>4 DEF Dir, StrictlyPre
      <3>5. e \notin stops
        <4>1. Len(e) \in 1 .. Len(x) - 1
          <5>1. Len(e) >= 1
            BY <1>0 DEF TreeEntries
          <5>2. QED
            BY <5>1, <3>2, <3>3, <1>0
        <4>2. SubSeq(x, 1, Len(e)) = e
          BY <3>1, <3>2, <1>0, PrefixIsPre
        <4>3. QED
          BY <4>1, <4>2, <3>1 DEF Unskipped
      <3>6. PICK c \in Kids(t, e) : Pre(c, x)
        BY <3>1, <3>2, <3>5, <1>0, WalkDescends
      <3>7. QED
        BY <3>4, <3>5, <3>6
    <2>4. QED
      BY <2>2, <2>3
  <1>3. QED
    BY <1>1, <1>2 DEF Ahead

(* What the proofs assume of the constants: the lines of an ignore file    *)
(* and the names of a directory are of their types, and a directory is     *)
(* one.                                                                    *)
WalkerConstants ==
    /\ DoubleStar \in Segment
    /\ IgnoreFiles \in SUBSET Seq(Line)
    /\ \A t \in Trees : Forest(t)

(* The directories neither walk descends into, the files Scan is to return *)
(* and the entries collectIgnored is to report.                            *)
Stops(t, rs) == {d \in TreeEntries(t) : d = <<SpaceDir>> \/ Decides(rs, d, TRUE)}

Recordable(t, rs) ==
    {f \in Unskipped(t, Stops(t, rs)) : f \in t /\ f \notin Links /\ ~Decides(rs, f, FALSE)}

Tops(t, rs) ==
    {x \in Unskipped(t, Stops(t, rs)) : x # <<SpaceDir>> /\ Decides(rs, x, Dir(t, x))}

(* The walks so far: what is found is what is to be found, and what is not *)
(* found yet is ahead.                                                     *)
WalkInv(t, l, rs, w, td, sc, rp) ==
    /\ t \in Trees /\ l \in IgnoreFiles
    /\ w \in {"parse", "scan", "measure", "done", "failed"}
    /\ w = "parse" => rs = <<>> /\ td = {} /\ sc = {} /\ rp = {}
    /\ w \in {"scan", "measure", "done"} => Parsed(rs, l)
    /\ w = "failed" => rs = <<>> \/ Parsed(rs, l)
    /\ td \subseteq Unskipped(t, Stops(t, rs))
    /\ sc \subseteq Recordable(t, rs)
    /\ rp \subseteq Tops(t, rs)
    /\ w = "scan" => Ahead(td, sc, Recordable(t, rs)) /\ rp = {}
    /\ w \in {"measure", "done"} => Recordable(t, rs) \subseteq sc /\ Ahead(td, rp, Tops(t, rs))
    /\ w = "done" => td = {}

WalkerInv == WalkInv(tree, lines, rules, walk, todo, scanned, reported)

LEMMA WalkerStarts ==
    ASSUME WalkerConstants, Walker!Init
    PROVE  WalkerInv
  BY DEF Walker!Init, WalkerInv, WalkInv

LEMMA WalkedFacts ==
    ASSUME WalkerConstants, NEW t \in Trees, NEW rs
    PROVE  /\ Forest(t)
           /\ Recordable(t, rs) \subseteq Unskipped(t, Stops(t, rs)) /\ Recordable(t, rs) \subseteq t
           /\ Tops(t, rs) \subseteq Unskipped(t, Stops(t, rs))
           /\ \A e \in Unskipped(t, Stops(t, rs)) :
                 e \in TreeEntries(t) /\ e \in Seq(Name) /\ e # <<>> /\ Len(e) >= 1
  <1>1. Forest(t)
    BY DEF WalkerConstants
  <1>2. ASSUME NEW e \in Unskipped(t, Stops(t, rs))
        PROVE  e \in TreeEntries(t) /\ e \in Seq(Name) /\ e # <<>> /\ Len(e) >= 1
    <2>1. e \in TreeEntries(t) /\ e \in Seq(Name) /\ Len(e) >= 1
      BY DEF Unskipped, TreeEntries
    <2>2. QED
      BY <2>1
  <1>3. QED
    BY <1>1, <1>2 DEF Recordable, Tops

LEMMA ParseKeepsWalker ==
    ASSUME WalkerConstants, WalkerInv, Walker!Parse
    PROVE  WalkInv(tree', lines', rules', walk', todo', scanned', reported')
  <1> DEFINE patterns == Walker!Patterns(lines)
             refused == \E k \in DOMAIN patterns : patterns[k].segments = <<>>
  <1>1. /\ tree \in Trees /\ lines \in IgnoreFiles /\ scanned = {} /\ reported = {}
        /\ tree' = tree /\ lines' = lines /\ scanned' = {} /\ reported' = {}
    BY DEF WalkerInv, WalkInv, Walker!Parse
  <1>2. CASE refused
    <2>1. rules' = <<>> /\ walk' = "failed" /\ todo' = {}
      BY <1>2 DEF Walker!Parse
    <2>2. QED
      BY <1>1, <2>1 DEF WalkInv
  <1>3. CASE ~refused
    <2>1. /\ rules' = [k \in DOMAIN patterns |-> Walker!ParseLine(patterns[k])]
          /\ walk' = "scan" /\ todo' = Walker!Children(<<>>)
      BY <1>3 DEF Walker!Parse
    <2>2. PICK rs : rs = rules'
      OBVIOUS
    <2>3. Parsed(rs, lines)
      BY <1>3, <2>1, <2>2 DEF Parsed
    <2>4. todo' = Kids(tree, <<>>)
      <3>1. \A f \in tree : Walker!IsStrictPrefix(<<>>, f) <=> StrictlyPre(<<>>, f)
        <4>1. <<>> \in Seq(Name) /\ \A f \in tree : f \in Seq(Name)
          BY <1>1, WalkedFacts, ForestFacts
        <4>2. QED
          BY <4>1, PrefixIsPre
      <3>2. QED
        BY <2>1, <3>1 DEF Walker!Children, Kids
    <2>5. /\ Kids(tree, <<>>) \subseteq Unskipped(tree, Stops(tree, rs))
          /\ Ahead(Kids(tree, <<>>), {}, Recordable(tree, rs))
      <3>1. Forest(tree) /\ Recordable(tree, rs) \subseteq TreeEntries(tree)
        BY <1>1, WalkedFacts
      <3>2. QED
        BY <3>1, WalkStarts
    <2>6. QED
      BY <1>1, <2>1, <2>2, <2>3, <2>4, <2>5 DEF WalkInv
  <1>4. QED
    BY <1>2, <1>3

(* What the two walks see of the entry they visit. *)
LEMMA Visiting ==
    ASSUME WalkerConstants, WalkerInv, todo # {}
    PROVE  /\ Walker!Visited \in todo
           /\ Walker!Visited \in Unskipped(tree, Stops(tree, rules))
           /\ Walker!IsDir(Walker!Visited) <=> Dir(tree, Walker!Visited)
           /\ Walker!Children(Walker!Visited) = Kids(tree, Walker!Visited)
           /\ Walker!SkipDir(Walker!Visited) <=> Walker!Visited \in Stops(tree, rules)
           /\ ~Dir(tree, Walker!Visited) => Walker!Visited \in tree
  <1>1. PICK e : e = Walker!Visited
    OBVIOUS
  <1>2. e \in todo
    BY <1>1 DEF Walker!Visited
  <1>3. tree \in Trees /\ todo \subseteq Unskipped(tree, Stops(tree, rules))
    BY DEF WalkerInv, WalkInv
  <1>4. Forest(tree) /\ e \in TreeEntries(tree) /\ e \in Seq(Name) /\ Len(e) >= 1
    BY <1>2, <1>3, WalkedFacts
  <1>5. \A f \in tree : Walker!IsStrictPrefix(e, f) <=> StrictlyPre(e, f)
    BY <1>4, PrefixIsPre, ForestFacts
  <1>6. Walker!IsDir(e) <=> Dir(tree, e)
    BY <1>5 DEF Walker!IsDir, Dir
  <1>7. Walker!Children(e) = Kids(tree, e)
    BY <1>5 DEF Walker!Children, Kids
  <1>8. Walker!SkipDir(e) <=> e \in Stops(tree, rules)
    BY <1>4, MatchDecides DEF Walker!SkipDir, Stops
  <1>9. ~Dir(tree, e) => e \in tree
    BY <1>4, ForestFacts
  <1>10. QED
    BY <1>1, <1>2, <1>3, <1>6, <1>7, <1>8, <1>9

LEMMA ScanEntryKeepsWalker ==
    ASSUME WalkerConstants, WalkerInv, Walker!ScanEntry
    PROVE  WalkInv(tree', lines', rules', walk', todo', scanned', reported')
  <1>1. PICK e : e = Walker!Visited
    OBVIOUS
  <1> DEFINE stops == Stops(tree, rules)
             wanted == Recordable(tree, rules)
  <1>2. /\ walk = "scan" /\ todo # {}
        /\ tree' = tree /\ lines' = lines /\ rules' = rules /\ reported' = reported
    BY DEF Walker!ScanEntry
  <1>3. /\ tree \in Trees /\ lines \in IgnoreFiles /\ Parsed(rules, lines)
        /\ todo \subseteq Unskipped(tree, stops) /\ scanned \subseteq wanted
        /\ reported = {} /\ Ahead(todo, scanned, wanted)
    BY <1>2 DEF WalkerInv, WalkInv
  <1>4. /\ e \in todo /\ e \in Unskipped(tree, stops)
        /\ Walker!IsDir(e) <=> Dir(tree, e)
        /\ Walker!Children(e) = Kids(tree, e)
        /\ Walker!SkipDir(e) <=> e \in stops
        /\ ~Dir(tree, e) => e \in tree
    BY <1>1, <1>2, Visiting
  <1>5. Forest(tree) /\ wanted \subseteq Unskipped(tree, stops) /\ wanted \subseteq tree
    BY <1>3, WalkedFacts
  <1>6. CASE walk' = "failed" /\ todo' = todo /\ scanned' = scanned
    BY <1>2, <1>3, <1>6 DEF WalkInv
  <1>7. CASE walk' = "scan" /\ scanned' \subseteq wanted /\ scanned \subseteq scanned'
             /\ (e \in wanted => e \in scanned')
             /\ todo' = IF Dir(tree, e) /\ e \notin stops THEN (todo \ {e}) \cup Kids(tree, e)
                        ELSE todo \ {e}
    <2> PICK sc, td : sc = scanned' /\ td = todo'
      OBVIOUS
    <2> HIDE DEF stops, wanted
    <2>0. /\ td = IF Dir(tree, e) /\ e \notin stops THEN (todo \ {e}) \cup Kids(tree, e)
                  ELSE todo \ {e}
          /\ scanned \subseteq sc /\ (e \in wanted => e \in sc)
      BY <1>7
    <2>3. e \in todo /\ todo \subseteq Unskipped(tree, stops) /\ Ahead(todo, scanned, wanted)
      BY <1>3, <1>4
    <2>4. Visit(tree, stops, todo, e, wanted, scanned, sc, td)
      BY <2>0, <2>3, <1>5 DEF Visit
    <2>1. td \subseteq Unskipped(tree, stops) /\ Ahead(td, sc, wanted)
      BY <2>4, WalkVisits
    <2>2. QED
      BY <1>2, <1>3, <1>7, <2>1 DEF WalkInv, stops, wanted
  <1>8. CASE walk' = "scan" /\ Dir(tree, e) /\ scanned' = scanned
             /\ (IF e \in stops THEN todo' = todo \ {e} ELSE todo' = (todo \ {e}) \cup Kids(tree, e))
    <2>1. e \notin wanted
      BY <1>5, <1>8, ForestFacts
    <2> HIDE DEF stops, wanted
    <2>2. QED
      BY <1>3, <1>7, <1>8, <2>1
  <1>9. CASE walk' = "scan" /\ ~Dir(tree, e) /\ todo' = todo \ {e}
             /\ scanned' = IF e \in Links \/ Walker!Match(e, FALSE) THEN scanned
                           ELSE scanned \cup {e}
    <2>1. e \in wanted <=> ~(e \in Links \/ Walker!Match(e, FALSE))
      BY <1>4, <1>9, MatchDecides DEF Recordable
    <2> HIDE DEF stops, wanted
    <2>2. QED
      BY <1>3, <1>7, <1>9, <2>1
  <1>10. QED
    <2> HIDE DEF stops, wanted
    <2>1. \/ walk' = "failed" /\ todo' = todo /\ scanned' = scanned
          \/ /\ Walker!IsDir(e)
             /\ IF Walker!SkipDir(e) THEN Walker!Past(e) ELSE Walker!Descend(e)
             /\ walk' = walk /\ scanned' = scanned
          \/ /\ ~Walker!IsDir(e)
             /\ scanned' = IF e \in Links \/ Walker!Match(e, FALSE) THEN scanned
                           ELSE scanned \cup {e}
             /\ Walker!Past(e) /\ walk' = walk
      BY <1>1 DEF Walker!ScanEntry
    <2>2. (Walker!Past(e) <=> todo' = todo \ {e})
          /\ (Walker!Descend(e) <=> todo' = (todo \ {e}) \cup Kids(tree, e))
      BY <1>4 DEF Walker!Past, Walker!Descend
    <2>3. QED
      BY <2>1, <2>2, <1>2, <1>4, <1>6, <1>8, <1>9

LEMMA ScanDoneKeepsWalker ==
    ASSUME WalkerConstants, WalkerInv, Walker!ScanDone
    PROVE  WalkInv(tree', lines', rules', walk', todo', scanned', reported')
  <1> DEFINE stops == Stops(tree, rules)
  <1>1. /\ walk = "scan" /\ todo = {} /\ walk' = "measure"
        /\ todo' = IF rules = <<>> THEN {} ELSE Walker!Children(<<>>)
        /\ tree' = tree /\ lines' = lines /\ rules' = rules
        /\ scanned' = scanned /\ reported' = reported
    BY DEF Walker!ScanDone
  <1>2. /\ tree \in Trees /\ lines \in IgnoreFiles /\ Parsed(rules, lines)
        /\ scanned \subseteq Recordable(tree, rules)
        /\ reported = {} /\ Ahead(todo, scanned, Recordable(tree, rules))
    BY <1>1 DEF WalkerInv, WalkInv
  <1>3. Recordable(tree, rules) \subseteq scanned
    BY <1>1, <1>2 DEF Ahead
  <1>4. Forest(tree) /\ Tops(tree, rules) \subseteq TreeEntries(tree)
    BY <1>2, WalkedFacts
  <1>5. CASE rules = <<>>
    <2>1. \A q, d : ~Decides(rules, q, d)
      <3>1. DOMAIN rules = {}
        BY <1>5
      <3>2. QED
        BY <3>1 DEF Decides, Hits
    <2>2. Tops(tree, rules) = {}
      BY <2>1 DEF Tops
    <2>3. todo' = {}
      BY <1>1, <1>5
    <2>4. QED
      BY <1>1, <1>2, <1>3, <2>2, <2>3 DEF WalkInv, Ahead
  <1>6. CASE rules # <<>>
    <2>1. todo' = Kids(tree, <<>>)
      <3>1. \A f \in tree : Walker!IsStrictPrefix(<<>>, f) <=> StrictlyPre(<<>>, f)
        <4>1. <<>> \in Seq(Name) /\ \A f \in tree : f \in Seq(Name)
          BY <1>4, ForestFacts
        <4>2. QED
          BY <4>1, PrefixIsPre
      <3>2. QED
        BY <1>1, <1>6, <3>1 DEF Walker!Children, Kids
    <2>2. /\ Kids(tree, <<>>) \subseteq Unskipped(tree, stops)
          /\ Ahead(Kids(tree, <<>>), {}, Tops(tree, rules))
      BY <1>4, WalkStarts
    <2>3. QED
      BY <1>1, <1>2, <1>3, <2>1, <2>2 DEF WalkInv
  <1>7. QED
    BY <1>5, <1>6

LEMMA MeasureEntryKeepsWalker ==
    ASSUME WalkerConstants, WalkerInv, Walker!MeasureEntry
    PROVE  WalkInv(tree', lines', rules', walk', todo', scanned', reported')
  <1>1. PICK e : e = Walker!Visited
    OBVIOUS
  <1> DEFINE stops == Stops(tree, rules)
             wanted == Tops(tree, rules)
  <1>2. /\ walk = "measure" /\ todo # {} /\ walk' = walk
        /\ tree' = tree /\ lines' = lines /\ rules' = rules /\ scanned' = scanned
        /\ reported' = IF e # <<SpaceDir>> /\ Walker!Match(e, Walker!IsDir(e))
                       THEN reported \cup {e} ELSE reported
        /\ IF Walker!Enters(e) THEN Walker!Descend(e) ELSE Walker!Past(e)
    BY <1>1 DEF Walker!MeasureEntry
  <1>3. /\ tree \in Trees /\ lines \in IgnoreFiles /\ Parsed(rules, lines)
        /\ todo \subseteq Unskipped(tree, stops) /\ scanned \subseteq Recordable(tree, rules)
        /\ Recordable(tree, rules) \subseteq scanned
        /\ reported \subseteq wanted /\ Ahead(todo, reported, wanted)
    BY <1>2 DEF WalkerInv, WalkInv
  <1>4. /\ e \in todo /\ e \in Unskipped(tree, stops)
        /\ Walker!IsDir(e) <=> Dir(tree, e)
        /\ Walker!Children(e) = Kids(tree, e)
        /\ Walker!SkipDir(e) <=> e \in stops
    BY <1>1, <1>2, Visiting
  <1>5. Forest(tree) /\ wanted \subseteq Unskipped(tree, stops)
    BY <1>3, WalkedFacts
  <1>6. Walker!Match(e, Walker!IsDir(e)) <=> Decides(rules, e, Dir(tree, e))
    <2>1. CASE Dir(tree, e)
      BY <2>1, <1>4, MatchDecides DEF Walker!Match, Decides, Hits, Hit
    <2>2. CASE ~Dir(tree, e)
      BY <2>2, <1>4, MatchDecides DEF Walker!Match, Decides, Hits, Hit
    <2>3. QED
      BY <2>1, <2>2
  <1>7. e \in wanted <=> e # <<SpaceDir>> /\ Walker!Match(e, Walker!IsDir(e))
    BY <1>4, <1>6 DEF Tops
  <1>8. Walker!Enters(e) <=> Dir(tree, e) /\ e \notin stops
    BY <1>4 DEF Walker!Enters, Walker!SkipDir
  <1>9. todo' = IF Dir(tree, e) /\ e \notin stops THEN (todo \ {e}) \cup Kids(tree, e)
                ELSE todo \ {e}
    BY <1>2, <1>4, <1>8 DEF Walker!Descend, Walker!Past
  <1>0. PICK rp, td : rp = reported' /\ td = todo'
    OBVIOUS
  <1> HIDE DEF stops, wanted
  <1>10. rp \subseteq wanted /\ reported \subseteq rp /\ (e \in wanted => e \in rp)
    BY <1>0, <1>2, <1>3, <1>7
  <1>11. td \subseteq Unskipped(tree, stops) /\ Ahead(td, rp, wanted)
    <2>1. Visit(tree, stops, todo, e, wanted, reported, rp, td)
      BY <1>0, <1>3, <1>4, <1>5, <1>9, <1>10 DEF Visit
    <2>2. QED
      BY <2>1, WalkVisits
  <1>12. QED
    BY <1>0, <1>2, <1>3, <1>10, <1>11 DEF WalkInv, stops, wanted

LEMMA WalkerSteps ==
    ASSUME WalkerConstants, WalkerInv, [Walker!Next]_(Walker!vars)
    PROVE  WalkerInv'
  <1>0. WalkInv(tree', lines', rules', walk', todo', scanned', reported') => WalkerInv'
    BY DEF WalkerInv, WalkInv
  <1>1. CASE Walker!Parse
    BY <1>0, <1>1, ParseKeepsWalker
  <1>2. CASE Walker!ScanEntry
    BY <1>0, <1>2, ScanEntryKeepsWalker
  <1>3. CASE Walker!ScanDone
    BY <1>0, <1>3, ScanDoneKeepsWalker
  <1>4. CASE Walker!MeasureEntry
    BY <1>0, <1>4, MeasureEntryKeepsWalker
  <1>5. CASE Walker!MeasureDone
    <2>1. /\ walk = "measure" /\ todo = {} /\ walk' = "done"
          /\ tree' = tree /\ lines' = lines /\ rules' = rules /\ todo' = todo
          /\ scanned' = scanned /\ reported' = reported
      BY <1>5 DEF Walker!MeasureDone
    <2>2. WalkInv(tree', lines', rules', walk', todo', scanned', reported')
      BY <2>1 DEF WalkerInv, WalkInv
    <2>3. QED
      BY <1>0, <2>2
  <1>6. CASE UNCHANGED Walker!vars
    BY <1>0, <1>6 DEF Walker!vars, WalkerInv
  <1>7. QED
    BY <1>1, <1>2, <1>3, <1>4, <1>5, <1>6 DEF Walker!Next, Walker!Ended

LEMMA WalkerTypes ==
    ASSUME WalkerConstants, WalkerInv
    PROVE  Walker!TypeOK
  <1>1. /\ tree \in Trees /\ lines \in IgnoreFiles
        /\ walk \in {"parse", "scan", "measure", "done", "failed"}
        /\ rules = <<>> \/ Parsed(rules, lines)
        /\ todo \subseteq Unskipped(tree, Stops(tree, rules))
        /\ scanned \subseteq Recordable(tree, rules)
        /\ reported \subseteq Tops(tree, rules)
    BY DEF WalkerInv, WalkInv
  <1>2. \A k \in DOMAIN rules : DOMAIN rules[k] = {"negate", "dirOnly", "segments"}
    <2>1. CASE rules = <<>>
      <3>1. DOMAIN rules = {}
        BY <2>1
      <3>2. QED
        BY <3>1
    <2>2. CASE Parsed(rules, lines)
      <3>1. \A k \in DOMAIN rules : \E line : rules[k] = Walker!ParseLine(line)
        BY <2>2 DEF Parsed
      <3>2. \A line : DOMAIN Walker!ParseLine(line) = {"negate", "dirOnly", "segments"}
        BY DEF Walker!ParseLine
      <3>3. QED
        BY <3>1, <3>2
    <2>3. QED
      BY <1>1, <2>1, <2>2
  <1>3. ASSUME NEW e \in Unskipped(tree, Stops(tree, rules)) PROVE e \in tree \/ Walker!IsDir(e)
    <2>1. Forest(tree) /\ e \in TreeEntries(tree) /\ e \in Seq(Name) /\ Len(e) >= 1
      BY <1>1, WalkedFacts
    <2>2. e \in tree \/ Dir(tree, e)
      BY <2>1, ForestFacts
    <2>3. \A f \in tree : Walker!IsStrictPrefix(e, f) <=> StrictlyPre(e, f)
      BY <2>1, PrefixIsPre, ForestFacts
    <2>4. QED
      BY <2>2, <2>3 DEF Walker!IsDir, Dir
  <1>4. Recordable(tree, rules) \subseteq tree /\ Tops(tree, rules) \subseteq Unskipped(tree, Stops(tree, rules))
    BY <1>1, WalkedFacts
  <1>5. QED
    BY <1>1, <1>2, <1>3, <1>4 DEF Walker!TypeOK

(* A file is below no stop when no directory above it is .fibula or ignored. *)
LEMMA OpenFiles ==
    ASSUME NEW t, Forest(t), NEW rs, NEW f \in t
    PROVE  f \in Unskipped(t, Stops(t, rs)) <=>
              /\ f[1] # SpaceDir
              /\ \A k \in 1 .. Len(f) - 1 : ~Decides(rs, SubSeq(f, 1, k), TRUE)
  <1>1. f \in Seq(Name) /\ Len(f) \in Nat /\ Len(f) >= 1 /\ f \in TreeEntries(t)
    BY ForestFacts
  <1>2. ASSUME NEW k \in 1 .. Len(f) - 1
        PROVE  /\ SubSeq(f, 1, k) \in Stops(t, rs) <=>
                     SubSeq(f, 1, k) = <<SpaceDir>> \/ Decides(rs, SubSeq(f, 1, k), TRUE)
               /\ SubSeq(f, 1, k) = <<SpaceDir>> <=> k = 1 /\ f[1] = SpaceDir
    <2> DEFINE c == SubSeq(f, 1, k)
    <2>1. k \in 0 .. Len(f) /\ k >= 1
      BY <1>1
    <2>2. c \in Seq(Name) /\ Len(c) = k /\ Pre(c, f) /\ \A i \in 1 .. k : c[i] = f[i]
      BY <1>1, <2>1, Cuts
    <2> HIDE DEF c
    <2>3. c \in TreeEntries(t)
      BY <2>1, <2>2 DEF TreeEntries
    <2>4. c[1] = f[1]
      BY <2>1, <2>2
    <2>5. c = <<SpaceDir>> => k = 1 /\ f[1] = SpaceDir
      BY <2>2, <2>4
    <2>6. k = 1 /\ f[1] = SpaceDir => c = <<SpaceDir>>
      BY <2>2, <2>4
    <2>7. QED
      BY <2>3, <2>5, <2>6 DEF c, Stops
  <1>3. f[1] = SpaceDir => 1 \in 1 .. Len(f) - 1
    <2>1. ASSUME f[1] = SpaceDir, Len(f) = 1 PROVE FALSE
      <3>1. f = <<SpaceDir>>
        BY <2>1, <1>1
      <3>2. QED
        BY <3>1 DEF Forest
    <2> DEFINE n == Len(f)
    <2>2. n \in Nat /\ n >= 1
      BY <1>1
    <2> HIDE DEF n
    <2>3. n # 1 => 1 \in 1 .. n - 1
      BY <2>2
    <2>4. QED
      BY <2>1, <2>3, Zenon DEF n
  <1>4. QED
    BY <1>1, <1>2, <1>3 DEF Unskipped

LEMMA ScanIsObedient ==
    ASSUME WalkerConstants, WalkerInv
    PROVE  Walker!ScanObeysTheFile
  <1>1. SUFFICES ASSUME walk \in {"measure", "done"}
                 PROVE  scanned = {f \in tree :
                            /\ f \notin Links /\ f[1] # SpaceDir
                            /\ ~Walker!IgnoredByFile(f, FALSE)
                            /\ \A k \in 1 .. Len(f) - 1 :
                                  ~Walker!IgnoredByFile(SubSeq(f, 1, k), TRUE)}
    BY DEF Walker!ScanObeysTheFile
  <1>2. /\ tree \in Trees /\ lines \in Seq(Line) /\ Parsed(rules, lines)
        /\ scanned = Recordable(tree, rules)
    BY <1>1 DEF WalkerInv, WalkInv, WalkerConstants
  <1>3. Forest(tree) /\ Recordable(tree, rules) \subseteq tree
    BY <1>2, WalkedFacts
  <1>4. ASSUME NEW q \in Seq(Name), q # <<>>, NEW d \in BOOLEAN
        PROVE  Walker!IgnoredByFile(q, d) <=> Decides(rules, q, d)
    <2>1. Decides(rules, q, d) <=> FileIgnores(lines, q, d)
      BY <1>2, <1>4, RulesObeyTheFile DEF WalkerConstants
    <2>2. QED
      BY <2>1 DEF Walker!IgnoredByFile, FileIgnores
  <1>5. ASSUME NEW f \in tree
        PROVE  f \in Recordable(tree, rules) <=>
                  /\ f \notin Links /\ f[1] # SpaceDir
                  /\ ~Walker!IgnoredByFile(f, FALSE)
                  /\ \A k \in 1 .. Len(f) - 1 : ~Walker!IgnoredByFile(SubSeq(f, 1, k), TRUE)
    <2>1. f \in Seq(Name) /\ f # <<>> /\ Len(f) \in Nat
      BY <1>3, ForestFacts DEF Forest
    <2>2. Walker!IgnoredByFile(f, FALSE) <=> Decides(rules, f, FALSE)
      BY <2>1, <1>4
    <2>3. ASSUME NEW k \in 1 .. Len(f) - 1
          PROVE  Walker!IgnoredByFile(SubSeq(f, 1, k), TRUE) <=> Decides(rules, SubSeq(f, 1, k), TRUE)
      <3>1. k \in 0 .. Len(f) /\ k # 0
        BY <2>1
      <3>2. SubSeq(f, 1, k) \in Seq(Name) /\ Len(SubSeq(f, 1, k)) = k
        BY <2>1, <3>1, Cuts
      <3>3. SubSeq(f, 1, k) # <<>>
        BY <3>1, <3>2, EmptySeq
      <3>4. QED
        BY <3>2, <3>3, <1>4
    <2>4. f \in Unskipped(tree, Stops(tree, rules)) <=>
             /\ f[1] # SpaceDir
             /\ \A k \in 1 .. Len(f) - 1 : ~Decides(rules, SubSeq(f, 1, k), TRUE)
      BY <1>3, OpenFiles
    <2>5. QED
      BY <2>2, <2>3, <2>4 DEF Recordable
  <1>6. QED
    BY <1>2, <1>3, <1>5

(* Of the entries a file is in, the topmost that is ignored is reported,   *)
(* and no other.                                                           *)
LEMMA FilesAreCounted ==
    ASSUME WalkerConstants, WalkerInv
    PROVE  Walker!EveryFileIsAccountedFor
  <1>1. SUFFICES ASSUME walk = "done", NEW f \in tree, f \notin Links, f[1] # SpaceDir
                 PROVE  Walker!Cardinality({r \in reported : Walker!IsPrefix(r, f)}) =
                           (IF f \in scanned THEN 0 ELSE 1)
    BY DEF Walker!EveryFileIsAccountedFor
  <1> DEFINE stops == Stops(tree, rules)
             over == {r \in reported : Walker!IsPrefix(r, f)}
  <1>2. tree \in Trees /\ scanned = Recordable(tree, rules) /\ reported = Tops(tree, rules)
    <2>1. /\ tree \in Trees /\ scanned = Recordable(tree, rules)
          /\ reported \subseteq Tops(tree, rules) /\ todo = {}
          /\ Ahead(todo, reported, Tops(tree, rules))
      BY <1>1 DEF WalkerInv, WalkInv
    <2>2. QED
      BY <2>1 DEF Ahead
  <1>3. Forest(tree)
    BY <1>2, WalkedFacts
  <1>4. f \in Seq(Name) /\ Len(f) \in Nat /\ Len(f) >= 1 /\ f \in TreeEntries(tree) /\ ~Dir(tree, f)
    BY <1>3, ForestFacts
  <1>5. \A r \in reported : /\ r \in Unskipped(tree, stops) /\ r \in Seq(Name) /\ r # <<SpaceDir>>
                            /\ Len(r) \in Nat /\ Len(r) >= 1
                            /\ Decides(rules, r, Dir(tree, r))
                            /\ Walker!IsPrefix(r, f) <=> Pre(r, f)
    <2>1. ASSUME NEW r \in reported PROVE r \in Unskipped(tree, stops) /\ r \in Seq(Name) /\ Len(r) >= 1
      BY <1>2, WalkedFacts
    <2>2. QED
      BY <2>1, <1>2, <1>4, PrefixIsPre DEF Tops
  <1> HIDE DEF stops
  (* A reported entry above f is one f is skipped with. *)
  <1>6. ASSUME NEW r \in reported, Pre(r, f), Len(r) # Len(f)
        PROVE  Len(r) \in 1 .. Len(f) - 1 /\ SubSeq(f, 1, Len(r)) = r /\ r \in stops
    <2>1. r \in Seq(Name) /\ Len(r) \in Nat /\ Len(r) >= 1
      BY <1>5
    <2>2. Len(r) < Len(f)
      BY <2>1, <1>4, <1>6 DEF Pre
    <2>3. Dir(tree, r)
      BY <2>2, <1>6 DEF Dir, StrictlyPre
    <2>4. Decides(rules, r, TRUE)
      <3>1. Dir(tree, r) = TRUE
        BY <2>3
      <3>2. Decides(rules, r, Dir(tree, r))
        BY <1>5
      <3>3. QED
        BY <3>1, <3>2 DEF Decides, Hits, Hit
    <2>5. r \in TreeEntries(tree)
      BY <1>5 DEF Unskipped
    <2>6. SubSeq(f, 1, Len(r)) = r
      BY <2>1, <1>4, <1>6, PrefixIsPre
    <2>7. r \in stops
      BY <2>4, <2>5, Zenon DEF stops, Stops
    <2>8. Len(r) \in 1 .. Len(f) - 1
      BY <2>1, <2>2, <1>4
    <2>9. QED
      BY <2>6, <2>7, <2>8
  <1>7. CASE f \in scanned
    <2>1. f \in Unskipped(tree, stops) /\ ~Decides(rules, f, FALSE)
      BY <1>2, <1>7 DEF Recordable, stops
    <2>2. ASSUME NEW r \in reported, Pre(r, f) PROVE FALSE
      <3>1. CASE Len(r) = Len(f)
        <4>1. r = f
          BY <3>1, <2>2, <1>4, <1>5, PrefixIsPre
        <4>2. Decides(rules, f, Dir(tree, f)) /\ Dir(tree, f) = FALSE
          BY <4>1, <1>4, <1>5
        <4>3. QED
          BY <4>2, <2>1 DEF Decides, Hits, Hit
      <3>2. CASE Len(r) # Len(f)
        BY <3>2, <2>1, <2>2, <1>6 DEF Unskipped
      <3>3. QED
        BY <3>1, <3>2
    <2>3. over = {}
      BY <2>2, <1>5
    <2> HIDE DEF over
    <2>4. Walker!Cardinality(over) = 0
      BY <2>3, FS_EmptySet DEF Walker!Cardinality, Walker!IsFiniteSet, Cardinality, IsFiniteSet
    <2>5. QED
      BY <2>4, <1>7 DEF over
  <1>8. CASE f \notin scanned
    <2> DEFINE K == {k \in 1 .. Len(f) : k = Len(f) \/ SubSeq(f, 1, k) \in stops}
    <2>1. K \in SUBSET Nat /\ Len(f) \in K
      BY <1>4
    <2>2. PICK k \in K : \A j \in K : k <= j
      BY <2>1, LeastNumber
    <2> DEFINE top == SubSeq(f, 1, k)
    <2>3. k \in 1 .. Len(f) /\ k \in 0 .. Len(f) /\ k \in Nat
      BY <1>4, <2>2
    <2>4. top \in Seq(Name) /\ Len(top) = k /\ Pre(top, f) /\ \A i \in 1 .. k : top[i] = f[i]
      BY <2>3, <1>4, Cuts
    <2>5. \A j \in 1 .. k - 1 : SubSeq(f, 1, j) \notin stops
      BY <2>2, <2>3, <1>4
    <2>6. k = Len(f) \/ SubSeq(f, 1, k) \in stops
      BY <2>2
    <2> HIDE DEF K
    <2>7. ASSUME NEW j \in 1 .. k - 1 PROVE SubSeq(top, 1, j) = SubSeq(f, 1, j)
      <3> DEFINE c == SubSeq(top, 1, j)
                 d == SubSeq(f, 1, j)
      <3>1. j \in 0 .. Len(f) /\ j \in 0 .. k /\ \A i \in 1 .. j : i \in 1 .. k
        BY <2>3, <1>4
      <3>2. c \in Seq(Name) /\ Len(c) = j /\ \A i \in 1 .. j : c[i] = top[i]
        BY <3>1, <2>4, Cuts
      <3>3. d \in Seq(Name) /\ Len(d) = j /\ \A i \in 1 .. j : d[i] = f[i]
        BY <3>1, <1>4, Cuts
      <3> HIDE DEF c, d, top
      <3>4. \A i \in 1 .. Len(c) : c[i] = d[i]
        BY <3>1, <3>2, <3>3, <2>4
      <3>5. c = d
        BY <3>2, <3>3, <3>4, SeqEqual
      <3>6. QED
        BY <3>5 DEF c, d
    <2>8. top \in Unskipped(tree, stops)
      <3> HIDE DEF top
      <3>1. top \in TreeEntries(tree)
        BY <2>3, <2>4 DEF TreeEntries
      <3>2. QED
        BY <3>1, <2>4, <2>5, <2>7 DEF Unskipped
    <2>9. top # <<SpaceDir>>
      <3> HIDE DEF top
      <3>1. top[1] = f[1]
        BY <2>3, <2>4
      <3>2. QED
        BY <3>1, <1>1
    <2>10. Decides(rules, top, Dir(tree, top))
      <3>1. CASE k = Len(f)
        <4>1. top = f
          BY <3>1, <1>4, SubSeqFull
        <4>2. f \in Unskipped(tree, stops)
          BY <4>1, <2>8
        <4>3. Decides(rules, f, FALSE)
          BY <4>2, <1>1, <1>2, <1>8 DEF Recordable, stops
        <4>4. Dir(tree, f) = FALSE
          BY <1>4
        <4>5. Decides(rules, f, Dir(tree, f))
          BY <4>3, <4>4
        <4>6. QED
          BY <4>1, <4>5
      <3>2. CASE k # Len(f)
        <4>1. top \in stops
          BY <3>2, <2>6
        <4> HIDE DEF top
        <4>2. Decides(rules, top, TRUE)
          BY <4>1, <2>9 DEF stops, Stops
        <4>3. Len(top) < Len(f)
          BY <3>2, <2>3, <2>4, <1>4
        <4>4. Dir(tree, top)
          BY <4>3, <2>4 DEF Dir, StrictlyPre
        <4>5. Dir(tree, top) = TRUE
          BY <4>4
        <4>6. QED
          BY <4>2, <4>5
      <3>3. QED
        BY <3>1, <3>2
    <2> HIDE DEF top
    <2>11. top \in reported
      BY <2>8, <2>9, <2>10, <1>2 DEF Tops, stops
    <2>12. ASSUME NEW r \in reported, Pre(r, f) PROVE r = top
      <3>1. r \in Seq(Name) /\ Len(r) \in Nat /\ Len(r) >= 1 /\ r \in Unskipped(tree, stops)
        BY <1>5
      <3>2. SubSeq(f, 1, Len(r)) = r
        BY <3>1, <2>12, <1>4, PrefixIsPre
      <3>3. CASE Len(r) = k
        BY <3>2, <3>3 DEF top
      <3>4. CASE Len(r) < k
        <4>1. Len(r) # Len(f) /\ Len(r) \in 1 .. k - 1
          BY <3>1, <3>4, <2>3, <1>4
        <4>2. r \in stops
          BY <4>1, <2>12, <1>6
        <4>3. QED
          BY <4>1, <4>2, <3>2, <2>5
      <3>5. CASE k < Len(r)
        <4>1. k # Len(f) /\ k \in 1 .. Len(r) - 1 /\ k <= Len(r)
          <5>1. Len(r) <= Len(f)
            BY <2>12 DEF Pre
          <5>2. QED
            BY <5>1, <3>1, <3>5, <2>3, <1>4
        <4>2. top \in stops
          BY <4>1, <2>6 DEF top
        <4>3. Pre(top, r)
          BY <4>1, <3>1, <2>4, <2>12, <1>4, PreOrder
        <4>4. SubSeq(r, 1, k) = top
          BY <4>3, <3>1, <2>4, PrefixIsPre
        <4>5. QED
          BY <4>1, <4>2, <4>4, <3>1 DEF Unskipped
      <3>6. QED
        BY <3>1, <3>3, <3>4, <3>5, <2>3
    <2>13. over = {top}
      BY <2>4, <2>11, <2>12, <1>5
    <2> HIDE DEF over
    <2>14. Walker!Cardinality(over) = 1
      BY <2>13, FS_Singleton DEF Walker!Cardinality, Walker!IsFiniteSet, Cardinality, IsFiniteSet
    <2>15. QED
      BY <2>14, <1>8 DEF over
  <1>9. QED
    BY <1>7, <1>8

(* client/scan.go, client/ignored.go: the variables of the walks have their *)
(* types, and everything they record or report is an entry of the directory.*)
THEOREM WalkTypeCorrect ==
    ASSUME WalkerConstants
    PROVE  Walker!Spec => []Walker!TypeOK
  <1>1. Walker!Init => WalkerInv
    BY WalkerStarts
  <1>2. WalkerInv /\ [Walker!Next]_(Walker!vars) => WalkerInv'
    BY WalkerSteps
  <1>3. WalkerInv => Walker!TypeOK
    BY WalkerTypes
  <1>4. QED
    BY <1>1, <1>2, <1>3, PTL DEF Walker!Spec

(* client/scan.go, consider, with client/ignore.go, Match: what Scan returns *)
(* is what the lines of the ignore file leave over, for every directory and  *)
(* every file of lines.  The parsing into rules, the matching of a pattern   *)
(* segment by segment and the skipping of whole directories lose nothing.    *)
THEOREM ScanObeys ==
    ASSUME WalkerConstants
    PROVE  Walker!Spec => []Walker!ScanObeysTheFile
  <1>1. Walker!Init => WalkerInv
    BY WalkerStarts
  <1>2. WalkerInv /\ [Walker!Next]_(Walker!vars) => WalkerInv'
    BY WalkerSteps
  <1>3. WalkerInv => Walker!ScanObeysTheFile
    BY ScanIsObedient
  <1>4. QED
    BY <1>1, <1>2, <1>3, PTL DEF Walker!Spec

(* client/ignored.go, measureIgnored, beside client/scan.go, consider: a     *)
(* regular file is recorded or lies within exactly one reported entry, for   *)
(* every directory and every file of lines.                                  *)
THEOREM FilesAreAccountedFor ==
    ASSUME WalkerConstants
    PROVE  Walker!Spec => []Walker!EveryFileIsAccountedFor
  <1>1. Walker!Init => WalkerInv
    BY WalkerStarts
  <1>2. WalkerInv /\ [Walker!Next]_(Walker!vars) => WalkerInv'
    BY WalkerSteps
  <1>3. WalkerInv => Walker!EveryFileIsAccountedFor
    BY FilesAreCounted
  <1>4. QED
    BY <1>1, <1>2, <1>3, PTL DEF Walker!Spec

==============================================================================

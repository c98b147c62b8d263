--------------------------- MODULE WorkspaceProofs ---------------------------
(***************************************************************************)
(* Workspace for any spaces, paths, files and number of versions: its      *)
(* types, that bases are commits, that commit and sync keep a linear       *)
(* history, that a commit reverts nothing in silence, and that no command  *)
(* loses an unsaved file while what expires is in nobody's use.            *)
(*                                                                         *)
(* Ancestry and Chain follow the parents of a version by recursion.  What  *)
(* they compute is an invariant too: the step that puts a version extends  *)
(* what is known of the older ones by one more, since every parent is      *)
(* older than its child.                                                   *)
(***************************************************************************)
EXTENDS Workspace, MergeProofs, SequenceTheorems, TLAPS

(* The store's versions vs. *)
OlderParents(vs) == \A n \in 1 .. Len(vs) : vs[n].parent \in 0 .. n - 1

(* What Ancestry and Chain are a choice of. *)
IsReach(vs, f) ==
    f = [n \in 0 .. Len(vs) |-> IF n = NoVersion THEN {} ELSE {n} \cup f[vs[n].parent]]

IsChain(vs, f) ==
    f = [n \in 0 .. Len(vs) |-> IF n = NoVersion THEN <<>> ELSE Append(f[vs[n].parent], n)]

ChainFits(vs) ==
    /\ \E f : IsChain(vs, f)
    /\ \A f, g : IsChain(vs, f) /\ IsChain(vs, g) => f = g
    /\ \A f : IsChain(vs, f) => \A n \in 0 .. Len(vs) : f[n] \in Seq(1 .. n)

ChainAt(vs, n) == (CHOOSE f : IsChain(vs, f))[n]

LEMMA ChainIs == \A v : Chain(v) = ChainAt(versions, v)
    BY DEF Chain, ChainAt, IsChain

(* One more version. *)
LEMMA Appended ==
    ASSUME NEW vs \in Seq(VersionRecord), NEW e \in VersionRecord
    PROVE  LET ws == Append(vs, e)
           IN  /\ ws \in Seq(VersionRecord) /\ Len(ws) = Len(vs) + 1 /\ Len(vs) \in Nat
               /\ ws[Len(vs) + 1] = e /\ \A n \in 1 .. Len(vs) : ws[n] = vs[n]
    OBVIOUS

(* What is known of the parents when a version is put. *)
LEMMA ParentsWhenPut ==
    ASSUME NEW vs \in Seq(VersionRecord), OlderParents(vs),
           NEW e \in VersionRecord, e.parent \in 0 .. Len(vs)
    PROVE  LET ws == Append(vs, e)
               last == Len(vs) + 1
           IN  /\ Len(ws) = last /\ last \in Nat /\ last # NoVersion /\ ws[last].parent = e.parent
               /\ 0 .. last = (0 .. Len(vs)) \cup {last} /\ last \notin 0 .. Len(vs)
               /\ \A n \in 0 .. Len(vs) : n # NoVersion =>
                     ws[n].parent = vs[n].parent /\ vs[n].parent \in 0 .. Len(vs)
               /\ OlderParents(ws)
  <1> DEFINE ws == Append(vs, e)
             last == Len(vs) + 1
  <1>1. /\ Len(ws) = last /\ last \in Nat /\ last # NoVersion /\ ws[last].parent = e.parent
        /\ \A n \in 1 .. Len(vs) : ws[n].parent = vs[n].parent /\ vs[n].parent \in 0 .. n - 1
    BY Appended DEF NoVersion, OlderParents
  <1> HIDE DEF ws
  <1>2. 0 .. last = (0 .. Len(vs)) \cup {last} /\ last \notin 0 .. Len(vs)
    BY <1>1, Appended
  <1>3. \A n \in 0 .. Len(vs) : n # NoVersion =>
           ws[n].parent = vs[n].parent /\ vs[n].parent \in 0 .. Len(vs)
    BY <1>1, Appended DEF NoVersion
  <1>4. OlderParents(ws)
    <2>1. ASSUME NEW n \in 1 .. last PROVE ws[n].parent \in 0 .. n - 1
      BY <1>1, Appended
    <2>2. QED
      BY <1>1, <2>1 DEF OlderParents
  <1>5. QED
    BY <1>1, <1>2, <1>3, <1>4 DEF ws

LEMMA ChainRestricted ==
    ASSUME NEW vs \in Seq(VersionRecord), OlderParents(vs),
           NEW e \in VersionRecord, e.parent \in 0 .. Len(vs),
           NEW f, IsChain(Append(vs, e), f)
    PROVE  /\ IsChain(vs, [m \in 0 .. Len(vs) |-> f[m]])
           /\ f[Len(vs) + 1] = Append(f[e.parent], Len(vs) + 1)
  <1> DEFINE ws == Append(vs, e)
             last == Len(vs) + 1
             g == [m \in 0 .. Len(vs) |-> f[m]]
  <1>1. /\ Len(ws) = last /\ last \in Nat /\ last # NoVersion /\ ws[last].parent = e.parent
        /\ 0 .. last = (0 .. Len(vs)) \cup {last} /\ last \notin 0 .. Len(vs)
        /\ \A n \in 0 .. Len(vs) : n # NoVersion =>
              ws[n].parent = vs[n].parent /\ vs[n].parent \in 0 .. Len(vs)
    BY ParentsWhenPut
  <1> HIDE DEF ws
  <1>2. \A m \in 0 .. last : f[m] = IF m = NoVersion THEN <<>> ELSE Append(f[ws[m].parent], m)
    BY <1>1 DEF IsChain, ws
  <1>3. ASSUME NEW m \in 0 .. Len(vs)
        PROVE  g[m] = IF m = NoVersion THEN <<>> ELSE Append(g[vs[m].parent], m)
    BY <1>1, <1>2
  <1>4. IsChain(vs, g)
    BY <1>3 DEF IsChain
  <1>5. f[last] = Append(f[e.parent], last)
    BY <1>1, <1>2
  <1>6. QED
    BY <1>4, <1>5

LEMMA ChainGrows ==
    ASSUME NEW vs \in Seq(VersionRecord), OlderParents(vs), ChainFits(vs),
           NEW e \in VersionRecord, e.parent \in 0 .. Len(vs)
    PROVE  ChainFits(Append(vs, e))
  <1> DEFINE ws == Append(vs, e)
             last == Len(vs) + 1
             Older(f) == [m \in 0 .. Len(vs) |-> f[m]]
  <1>1. /\ Len(ws) = last /\ last \in Nat /\ last # NoVersion /\ ws[last].parent = e.parent
        /\ 0 .. last = (0 .. Len(vs)) \cup {last} /\ last \notin 0 .. Len(vs)
        /\ \A n \in 0 .. Len(vs) : n # NoVersion =>
              ws[n].parent = vs[n].parent /\ vs[n].parent \in 0 .. Len(vs)
    BY ParentsWhenPut
  <1>2. ASSUME NEW f, IsChain(ws, f)
        PROVE  /\ IsChain(vs, Older(f)) /\ f[last] = Append(f[e.parent], last)
               /\ f = [n \in 0 .. last |-> f[n]]
    <2>1. IsChain(vs, Older(f)) /\ f[last] = Append(f[e.parent], last)
      BY <1>2, ChainRestricted
    <2>2. f = [n \in 0 .. last |-> f[n]]
      BY <1>1, <1>2 DEF IsChain
    <2>3. QED
      BY <2>1, <2>2
  <1> HIDE DEF ws
  <1>3. \E f : IsChain(ws, f)
    <2>1. PICK g : IsChain(vs, g)
      BY DEF ChainFits
    <2> DEFINE f == [n \in 0 .. last |-> IF n = last THEN Append(g[e.parent], n) ELSE g[n]]
    <2>2. ASSUME NEW n \in 0 .. last
          PROVE  f[n] = IF n = NoVersion THEN <<>> ELSE Append(f[ws[n].parent], n)
      <3>1. CASE n = last
        BY <1>1, <3>1
      <3>2. CASE n # last
        <4>1. n \in 0 .. Len(vs)
          BY <1>1, <3>2
        <4>2. f[n] = g[n] /\ g[n] = IF n = NoVersion THEN <<>> ELSE Append(g[vs[n].parent], n)
          BY <2>1, <3>2, <4>1 DEF IsChain
        <4>3. n # NoVersion => f[ws[n].parent] = g[vs[n].parent]
          BY <1>1, <4>1
        <4>4. QED
          BY <4>2, <4>3
      <3>3. QED
        BY <3>1, <3>2
    <2>3. IsChain(ws, f)
      BY <1>1, <2>2 DEF IsChain
    <2>4. QED
      BY <2>3
  <1>4. ASSUME NEW f, NEW g, IsChain(ws, f), IsChain(ws, g) PROVE f = g
    <2>1. Older(f) = Older(g)
      BY <1>2, <1>4 DEF ChainFits
    <2>2. \A n \in 0 .. Len(vs) : f[n] = g[n]
      BY <2>1
    <2>3. \A n \in 0 .. last : f[n] = g[n]
      BY <1>1, <1>2, <1>4, <2>2
    <2>4. f = [n \in 0 .. last |-> f[n]] /\ g = [n \in 0 .. last |-> g[n]]
      BY <1>2, <1>4
    <2>5. [n \in 0 .. last |-> f[n]] = [n \in 0 .. last |-> g[n]]
      BY <2>3
    <2>6. QED
      BY <2>4, <2>5
  <1>5. ASSUME NEW f, IsChain(ws, f), NEW n \in 0 .. last PROVE f[n] \in Seq(1 .. n)
    <2>1. \A m \in 0 .. Len(vs) : f[m] \in Seq(1 .. m)
      <3>1. \A m \in 0 .. Len(vs) : Older(f)[m] \in Seq(1 .. m)
        BY <1>2, <1>5 DEF ChainFits
      <3>2. QED
        BY <3>1
    <2>2. CASE n = last
      <3>1. f[e.parent] \in Seq(1 .. e.parent) /\ 1 .. e.parent \subseteq 1 .. last
        BY <1>1, <2>1
      <3>2. f[e.parent] \in Seq(1 .. last) /\ last \in 1 .. last
        BY <1>1, <3>1, SeqMonotonic
      <3>3. f[n] = Append(f[e.parent], last)
        BY <1>2, <1>5, <2>2
      <3>4. Append(f[e.parent], last) \in Seq(1 .. last)
        BY <3>2
      <3>5. QED
        BY <2>2, <3>3, <3>4
    <2>3. QED
      BY <1>1, <2>1, <2>2
  <1>6. QED
    BY <1>1, <1>3, <1>4, <1>5 DEF ChainFits, ws

(* The chain of a version, and that a version put later leaves it alone. *)
LEMMA ChainOfVersion ==
    ASSUME NEW vs, ChainFits(vs), NEW n \in 0 .. Len(vs)
    PROVE  /\ ChainAt(vs, n) = IF n = NoVersion THEN <<>>
                               ELSE Append(ChainAt(vs, vs[n].parent), n)
           /\ ChainAt(vs, n) \in Seq(1 .. n)
  <1> DEFINE f == CHOOSE f : IsChain(vs, f)
  <1>1. IsChain(vs, f)
    BY DEF ChainFits
  <1> HIDE DEF f
  <1>2. f[n] = (IF n = NoVersion THEN <<>> ELSE Append(f[vs[n].parent], n)) /\ f[n] \in Seq(1 .. n)
    BY <1>1 DEF IsChain, ChainFits
  <1>3. QED
    BY <1>2 DEF ChainAt, f

LEMMA ChainStays ==
    ASSUME NEW vs \in Seq(VersionRecord), OlderParents(vs), ChainFits(vs),
           NEW e \in VersionRecord, e.parent \in 0 .. Len(vs), ChainFits(Append(vs, e)),
           NEW n \in 0 .. Len(vs)
    PROVE  ChainAt(Append(vs, e), n) = ChainAt(vs, n)
  <1> DEFINE ws == Append(vs, e)
             f == CHOOSE f : IsChain(vs, f)
             g == CHOOSE g : IsChain(ws, g)
  <1>1. IsChain(vs, f) /\ IsChain(ws, g)
    BY DEF ChainFits
  <1> HIDE DEF f, g
  <1>2. IsChain(vs, [m \in 0 .. Len(vs) |-> g[m]])
    BY <1>1, ChainRestricted
  <1>3. f = [m \in 0 .. Len(vs) |-> g[m]]
    BY <1>1, <1>2 DEF ChainFits
  <1>4. f[n] = g[n]
    BY <1>3
  <1>5. QED
    BY <1>4 DEF ChainAt, f, g

(* Of Ancestry there is no other choice than the versions in the chain. *)
Published(vs, n) == History!ToSet(ChainAt(vs, n))

ReachFits(vs) ==
    /\ \E f : IsReach(vs, f)
    /\ \A f : IsReach(vs, f) => \A n \in 0 .. Len(vs) : f[n] = Published(vs, n)

VersionsFit(vs) ==
    /\ vs \in Seq(VersionRecord) /\ Len(vs) <= MaxVersions
    /\ OlderParents(vs) /\ ReachFits(vs) /\ ChainFits(vs)

LEMMA PublishedOne ==
    ASSUME NEW vs \in Seq(VersionRecord), OlderParents(vs), ChainFits(vs), NEW n \in 0 .. Len(vs)
    PROVE  Published(vs, n) = IF n = NoVersion THEN {} ELSE {n} \cup Published(vs, vs[n].parent)
  <1>1. CASE n = NoVersion
    <2>1. ChainAt(vs, n) = <<>>
      BY <1>1, ChainOfVersion
    <2>2. QED
      BY <1>1, <2>1 DEF Published, History!ToSet
  <1>2. CASE n # NoVersion
    <2>1. vs[n].parent \in 0 .. Len(vs)
      BY <1>2 DEF OlderParents, NoVersion
    <2>2. PICK c : c \in Seq(1 .. vs[n].parent) /\ c = ChainAt(vs, vs[n].parent)
      BY <2>1, ChainOfVersion
    <2>3. /\ DOMAIN Append(c, n) = (DOMAIN c) \cup {Len(c) + 1} /\ Append(c, n)[Len(c) + 1] = n
          /\ \A i \in DOMAIN c : Append(c, n)[i] = c[i]
      BY <2>2
    <2>4. History!ToSet(Append(c, n)) = {n} \cup History!ToSet(c)
      BY <2>3, Zenon DEF History!ToSet
    <2>5. ChainAt(vs, n) = Append(c, n)
      BY <1>2, <2>2, ChainOfVersion
    <2>6. QED
      BY <1>2, <2>2, <2>4, <2>5 DEF Published
  <1>3. QED
    BY <1>1, <1>2

LEMMA ReachGrows ==
    ASSUME NEW vs \in Seq(VersionRecord), OlderParents(vs), ChainFits(vs), ReachFits(vs),
           NEW e \in VersionRecord, e.parent \in 0 .. Len(vs)
    PROVE  ReachFits(Append(vs, e))
  <1> DEFINE ws == Append(vs, e)
             last == Len(vs) + 1
  <1>1. /\ Len(ws) = last /\ last \in Nat /\ ws[last].parent = e.parent
        /\ \A n \in 1 .. Len(vs) : ws[n].parent = vs[n].parent
    BY Appended
  <1>2. /\ \A n \in 1 .. Len(vs) : ws[n].parent \in 0 .. Len(vs) /\ ws[n].parent < n
        /\ 0 .. last = (0 .. Len(vs)) \cup {last} /\ last \notin 0 .. Len(vs)
    BY <1>1, Appended DEF OlderParents
  <1> HIDE DEF ws
  <1>3. \E f : IsReach(ws, f)
    <2>1. PICK g : IsReach(vs, g)
      BY DEF ReachFits
    <2> DEFINE f == [n \in 0 .. last |-> IF n = last THEN {n} \cup g[e.parent] ELSE g[n]]
    <2>2. ASSUME NEW n \in 0 .. last
          PROVE  f[n] = IF n = NoVersion THEN {} ELSE {n} \cup f[ws[n].parent]
      <3>1. CASE n = last
        BY <1>1, <1>2, <3>1 DEF NoVersion
      <3>2. CASE n # last
        <4>1. n \in 0 .. Len(vs)
          BY <1>2, <3>2
        <4>2. f[n] = g[n] /\ g[n] = IF n = NoVersion THEN {} ELSE {n} \cup g[vs[n].parent]
          BY <2>1, <3>2, <4>1 DEF IsReach
        <4>3. n # NoVersion => f[ws[n].parent] = g[vs[n].parent]
          BY <1>1, <1>2, <4>1 DEF NoVersion
        <4>4. QED
          BY <4>2, <4>3
      <3>3. QED
        BY <3>1, <3>2
    <2>3. IsReach(ws, f)
      BY <1>1, <2>2 DEF IsReach
    <2>4. QED
      BY <2>3
  <1>4. ASSUME NEW f, IsReach(ws, f), NEW n \in 0 .. last
        PROVE  f[n] = Published(ws, n)
    <2> DEFINE g == [m \in 0 .. Len(vs) |-> f[m]]
    <2>1. \A m \in 0 .. last : f[m] = IF m = NoVersion THEN {} ELSE {m} \cup f[ws[m].parent]
      BY <1>1, <1>4 DEF IsReach
    <2>2. ASSUME NEW m \in 0 .. Len(vs)
          PROVE  g[m] = IF m = NoVersion THEN {} ELSE {m} \cup g[vs[m].parent]
      <3>1. f[m] = IF m = NoVersion THEN {} ELSE {m} \cup f[ws[m].parent]
        BY <1>2, <2>1
      <3>2. m # NoVersion => ws[m].parent = vs[m].parent /\ vs[m].parent \in 0 .. Len(vs)
        BY <1>1, <1>2 DEF NoVersion
      <3>3. QED
        BY <3>1, <3>2
    <2>3. IsReach(vs, g)
      BY <2>2 DEF IsReach
    <2>4. \A m \in 0 .. Len(vs) : f[m] = Published(ws, m)
      <3> HIDE DEF g
      <3>1. \A m \in 0 .. Len(vs) : g[m] = Published(vs, m)
        BY <2>3 DEF ReachFits
      <3>2. \A m \in 0 .. Len(vs) : Published(ws, m) = Published(vs, m)
        BY ChainStays, ChainGrows DEF Published, ws
      <3>3. QED
        BY <3>1, <3>2 DEF g
    <2>5. CASE n = last
      <3>1. last \in 0 .. last /\ last # NoVersion
        BY <1>1, Appended DEF NoVersion
      <3>2. f[last] = {last} \cup f[e.parent]
        BY <1>1, <2>1, <3>1
      <3>3. ws \in Seq(VersionRecord) /\ OlderParents(ws) /\ ChainFits(ws)
        BY Appended, ChainGrows, ParentsWhenPut DEF ws
      <3>4. Published(ws, last) = {last} \cup Published(ws, e.parent)
        BY <1>1, <3>1, <3>3, PublishedOne
      <3>5. QED
        BY <2>4, <2>5, <3>2, <3>4
    <2>6. QED
      BY <1>2, <2>4, <2>5
  <1>5. QED
    BY <1>1, <1>3, <1>4 DEF ReachFits, ws

LEMMA VersionsFitGrows ==
    ASSUME NEW vs, VersionsFit(vs), Len(vs) < MaxVersions,
           NEW e \in VersionRecord, e.parent \in 0 .. Len(vs)
    PROVE  VersionsFit(Append(vs, e))
  <1>1. vs \in Seq(VersionRecord) /\ OlderParents(vs) /\ ReachFits(vs) /\ ChainFits(vs)
    BY DEF VersionsFit
  <1>2. ReachFits(Append(vs, e)) /\ ChainFits(Append(vs, e)) /\ OlderParents(Append(vs, e))
    BY <1>1, ReachGrows, ChainGrows, ParentsWhenPut
  <1>3. Append(vs, e) \in Seq(VersionRecord) /\ Len(Append(vs, e)) <= MaxVersions
    BY <1>1, Appended, BoundAssumption
  <1>4. QED
    BY <1>2, <1>3 DEF VersionsFit

LEMMA VersionsFitEmpty == VersionsFit(<<>>)
  <1>1. /\ <<>> \in Seq(VersionRecord) /\ Len(<<>>) = 0 /\ 0 .. Len(<<>>) = {0}
        /\ Len(<<>>) <= MaxVersions /\ OlderParents(<<>>)
    BY BoundAssumption DEF OlderParents
  <1>2. \A f : IsReach(<<>>, f) <=> f = [n \in {0} |-> {}]
    BY <1>1 DEF IsReach, NoVersion
  <1>3. \A f : IsChain(<<>>, f) <=> f = [n \in {0} |-> <<>>]
    BY <1>1 DEF IsChain, NoVersion
  <1>4. ChainFits(<<>>)
    <2>1. \A n : <<>> \in Seq(1 .. n)
      OBVIOUS
    <2>2. \A f : IsChain(<<>>, f) => f[0] = <<>>
      BY <1>3
    <2>3. QED
      BY <1>1, <1>3, <2>1, <2>2 DEF ChainFits
  <1>5. ReachFits(<<>>)
    <2>1. Published(<<>>, 0) = {}
      BY <1>1, <1>4, PublishedOne DEF NoVersion
    <2>2. QED
      BY <1>1, <1>2, <2>1 DEF ReachFits
  <1>6. QED
    BY <1>1, <1>4, <1>5 DEF VersionsFit

------------------------------------------------------------------------------
(* The types, and what a command knows when it gets to its next step       *)

Places == {"idle"} \cup Steps

Heads(n) == [version : 0 .. n, base : 0 .. n]

Plans(n) ==
    [kind : {"none"} \cup Kinds, manifest : Manifests,
     parent : 0 .. n, version : 0 .. n, target : 0 .. n,
     write : SUBSET Paths, remove : SUBSET Paths, conflicts : SUBSET Paths]

(* What a record puts is its manifest, a commit's is no snapshot and knows *)
(* its parent; what a sync goes to is no snapshot.                         *)
PlanFits(vs, pl, at) ==
    /\ pl \in Plans(Len(vs))
    /\ pl.kind \in {"none"} \cup Commands
    /\ at # "idle" => pl.kind # "none"
    /\ at \in {"scanned", "put", "published", "headed"} =>
           pl.kind \in {"commit", "snapshot", "checkout", "clear"}
    /\ at \in {"put", "published", "headed"} =>
           /\ pl.version # NoVersion
           /\ vs[pl.version].manifest = pl.manifest
           /\ vs[pl.version].snapshot <=> pl.kind # "commit"
           /\ pl.kind = "commit" => vs[pl.version].parent = pl.parent
    /\ at = "recheck" => pl.kind \in {"checkout", "clear"}
    /\ at = "write" => pl.kind \in {"sync", "checkout", "restore"}
    /\ at = "remove" => pl.kind \in {"sync", "checkout", "clear", "restore"}
    /\ at \in {"settle", "settled"} => pl.kind = "sync"
    /\ at \in {"point", "pointed"} => pl.kind = "checkout"
    /\ pl.kind = "sync" => pl.target # NoVersion /\ ~vs[pl.target].snapshot

RefFits(vs, r, tl) ==
    /\ r \in 0 .. Len(vs) /\ tl \subseteq 1 .. Len(vs)
    /\ r # NoVersion => ~vs[r].snapshot

LocalFits(n, tr, hd, co, to) ==
    /\ tr \in [Spaces -> Manifests] /\ co \in [Spaces -> Manifests]
    /\ hd \in [Spaces -> Heads(n)]
    /\ to \in [Spaces -> SUBSET Paths]

(* Where nobody checks out a snapshot, a base is none. *)
BaseFits(vs, hd) ==
    "checkout" \notin Commands =>
        \A s \in Spaces : hd[s].base # NoVersion => ~vs[hd[s].base].snapshot

WorkInv ==
    /\ VersionsFit(versions)
    /\ RefFits(versions, ref, timeline)
    /\ LocalFits(Len(versions), tree, head, checkedOut, touched)
    /\ BaseFits(versions, head)
    /\ pc \in [Spaces -> Places]
    /\ plan \in [Spaces -> Plans(Len(versions))]
    /\ \A s \in Spaces : PlanFits(versions, plan[s], pc[s])

LEMMA NoPlanFits ==
    ASSUME NEW vs \in Seq(VersionRecord)
    PROVE  PlanFits(vs, NoPlan, "idle") /\ NoPlan \in Plans(Len(vs)) /\ Empty \in Manifests
  <1>1. Empty \in Manifests /\ NoPlan \in Plans(Len(vs))
    BY DEF Empty, Manifests, NoPlan, Plans, NoVersion
  <1>2. NoPlan.kind = "none"
    BY DEF NoPlan
  <1>3. QED
    BY <1>1, <1>2 DEF PlanFits

(* A manifest of a version is one. *)
LEMMA ManifestsFit ==
    ASSUME WorkInv, NEW v \in 0 .. Len(versions)
    PROVE  ManifestOf(v) \in Manifests
  <1>1. versions \in Seq(VersionRecord)
    BY DEF WorkInv, VersionsFit
  <1>2. CASE v = NoVersion
    BY <1>1, <1>2, NoPlanFits DEF ManifestOf
  <1>3. CASE v # NoVersion
    <2>1. versions[v] \in VersionRecord
      BY <1>1, <1>3, ElementOfSeq DEF NoVersion
    <2>2. QED
      BY <1>3, <2>1 DEF ManifestOf, VersionRecord
  <1>4. QED
    BY <1>2, <1>3

(* What Ancestry computes; only versions are reachable. *)
LEMMA AncestryIs ==
    ASSUME WorkInv, NEW n \in 0 .. Len(versions)
    PROVE  Ancestry(n) = Published(versions, n) /\ Published(versions, n) \subseteq 1 .. n
  <1>1. Ancestry(n) = (CHOOSE f : IsReach(versions, f))[n]
    BY DEF Ancestry, IsReach
  <1>2. (CHOOSE f : IsReach(versions, f))[n] = Published(versions, n)
    BY DEF WorkInv, VersionsFit, ReachFits
  <1>3. ChainAt(versions, n) \in Seq(1 .. n)
    BY ChainOfVersion DEF WorkInv, VersionsFit
  <1>4. QED
    BY <1>1, <1>2, <1>3 DEF Published, History!ToSet

LEMMA ReachableFits ==
    ASSUME WorkInv
    PROVE  Reachable \subseteq VersionIds
  <1>1. Len(versions) \in Nat /\ ref \in 0 .. Len(versions)
    BY DEF WorkInv, VersionsFit, RefFits
  <1>2. Ancestry(ref) \subseteq 1 .. ref
    BY <1>1, AncestryIs
  <1>3. Ancestry(ref) \subseteq VersionIds
    BY <1>1, <1>2 DEF VersionIds
  <1>4. QED
    BY <1>3 DEF Reachable, WorkInv, RefFits, VersionIds

(* A step of one space that puts no version. *)
LEMMA WorkStays ==
    ASSUME WorkInv, NEW s \in Spaces, NEW pl, NEW at \in Places,
           pc' = [pc EXCEPT ![s] = at], plan' = [plan EXCEPT ![s] = pl],
           PlanFits(versions, pl, at), versions' = versions,
           RefFits(versions, ref', timeline'),
           LocalFits(Len(versions), tree', head', checkedOut', touched'),
           BaseFits(versions, head')
    PROVE  WorkInv'
  <1>1. pl \in Plans(Len(versions))
    BY DEF PlanFits
  <1>2. pc' \in [Spaces -> Places] /\ plan' \in [Spaces -> Plans(Len(versions))]
    BY <1>1 DEF WorkInv
  <1>3. \A t \in Spaces : PlanFits(versions, plan'[t], pc'[t])
    BY DEF WorkInv
  <1>4. QED
    BY <1>2, <1>3 DEF WorkInv

(* A step that puts one. *)
LEMMA WorkGrows ==
    ASSUME WorkInv, NEW s \in Spaces, NEW pl, NEW at \in Places, NEW e \in VersionRecord,
           e.parent \in 0 .. Len(versions), Len(versions) < MaxVersions,
           pc' = [pc EXCEPT ![s] = at], plan' = [plan EXCEPT ![s] = pl],
           versions' = Append(versions, e), PlanFits(versions', pl, at),
           UNCHANGED <<ref, timeline, local, touched>>
    PROVE  WorkInv'
  <1>1. /\ VersionsFit(versions') /\ Len(versions') = Len(versions) + 1 /\ Len(versions) \in Nat
        /\ \A n \in 1 .. Len(versions) : versions'[n] = versions[n]
    BY VersionsFitGrows, Appended DEF WorkInv, VersionsFit
  <1>2. Plans(Len(versions)) \subseteq Plans(Len(versions'))
    BY <1>1 DEF Plans
  <1>3. ASSUME NEW q, NEW p, PlanFits(versions, q, p) PROVE PlanFits(versions', q, p)
    <2>1. q \in Plans(Len(versions))
      BY <1>3 DEF PlanFits
    <2>2. /\ q.version # NoVersion => versions'[q.version] = versions[q.version]
          /\ q.target # NoVersion => versions'[q.target] = versions[q.target]
      BY <1>1, <2>1 DEF Plans, NoVersion
    <2>3. q \in Plans(Len(versions'))
      BY <1>2, <2>1
    <2>4. QED
      BY <1>3, <2>2, <2>3 DEF PlanFits
  <1>4. pc' \in [Spaces -> Places] /\ plan' \in [Spaces -> Plans(Len(versions'))]
    <2>1. pl \in Plans(Len(versions'))
      BY DEF PlanFits
    <2>2. QED
      BY <1>2, <2>1 DEF WorkInv
  <1>5. \A t \in Spaces : PlanFits(versions', plan'[t], pc'[t])
    BY <1>3 DEF WorkInv
  <1>6. RefFits(versions', ref', timeline')
    BY <1>1 DEF WorkInv, RefFits, NoVersion
  <1>7. LocalFits(Len(versions'), tree', head', checkedOut', touched')
    <2>1. Heads(Len(versions)) \subseteq Heads(Len(versions'))
      BY <1>1 DEF Heads
    <2>2. QED
      BY <2>1 DEF WorkInv, LocalFits, local
  <1>8. BaseFits(versions', head')
    <2>1. \A t \in Spaces : head[t].base \in 0 .. Len(versions)
      BY DEF WorkInv, LocalFits, Heads
    <2>2. \A t \in Spaces :
             head[t].base # NoVersion => versions'[head[t].base] = versions[head[t].base]
      BY <1>1, <2>1 DEF NoVersion
    <2>3. head' = head
      BY DEF local
    <2>4. QED
      BY <2>2, <2>3 DEF WorkInv, BaseFits
  <1>9. QED
    BY <1>1, <1>4, <1>5, <1>6, <1>7, <1>8 DEF WorkInv

(* A step that changes no file of anybody. *)
LEMMA WorkQuiet ==
    ASSUME WorkInv, NEW s \in Spaces, NEW pl, NEW at \in Places,
           pc' = [pc EXCEPT ![s] = at], plan' = [plan EXCEPT ![s] = pl],
           PlanFits(versions, pl, at), UNCHANGED <<store, local, touched>>
    PROVE  WorkInv'
  <1>1. versions' = versions /\ UNCHANGED <<ref, timeline, tree, head, checkedOut, touched>>
    BY DEF store, local
  <1>2. RefFits(versions, ref', timeline') /\ BaseFits(versions, head')
    BY <1>1 DEF WorkInv
  <1>3. LocalFits(Len(versions), tree', head', checkedOut', touched')
    BY <1>1 DEF WorkInv
  <1>4. QED
    BY <1>1, <1>2, <1>3, WorkStays

(* A step of s that changes its files; its manifest; its head and touched. *)
LEMMA WorkTree ==
    ASSUME WorkInv, NEW s \in Spaces, NEW pl, NEW at \in Places, NEW m \in Manifests,
           pc' = [pc EXCEPT ![s] = at], plan' = [plan EXCEPT ![s] = pl],
           PlanFits(versions, pl, at), tree' = [tree EXCEPT ![s] = m],
           UNCHANGED <<store, head, checkedOut, touched>>
    PROVE  WorkInv'
  <1>1. UNCHANGED <<versions, ref, timeline, head, checkedOut, touched>>
    BY DEF store
  <1>2. RefFits(versions, ref', timeline') /\ BaseFits(versions, head')
    BY <1>1 DEF WorkInv
  <1>3. LocalFits(Len(versions), tree', head', checkedOut', touched')
    BY <1>1 DEF WorkInv, LocalFits
  <1>4. QED
    BY <1>1, <1>2, <1>3, WorkStays

LEMMA WorkManifest ==
    ASSUME WorkInv, NEW s \in Spaces, NEW pl, NEW at \in Places, NEW m \in Manifests,
           pc' = [pc EXCEPT ![s] = at], plan' = [plan EXCEPT ![s] = pl],
           PlanFits(versions, pl, at), checkedOut' = [checkedOut EXCEPT ![s] = m],
           UNCHANGED <<store, tree, head, touched>>
    PROVE  WorkInv'
  <1>1. UNCHANGED <<versions, ref, timeline, tree, head, touched>>
    BY DEF store
  <1>2. RefFits(versions, ref', timeline') /\ BaseFits(versions, head')
    BY <1>1 DEF WorkInv
  <1>3. LocalFits(Len(versions), tree', head', checkedOut', touched')
    BY <1>1 DEF WorkInv, LocalFits
  <1>4. QED
    BY <1>1, <1>2, <1>3, WorkStays

LEMMA WorkHead ==
    ASSUME WorkInv, NEW s \in Spaces, NEW pl, NEW at \in Places,
           NEW v \in 0 .. Len(versions), NEW b \in 0 .. Len(versions), NEW to \in SUBSET Paths,
           "checkout" \notin Commands /\ b # NoVersion => ~versions[b].snapshot,
           pc' = [pc EXCEPT ![s] = at], plan' = [plan EXCEPT ![s] = pl],
           PlanFits(versions, pl, at), SetHead(s, v, b), touched' = [touched EXCEPT ![s] = to],
           UNCHANGED <<store, tree, checkedOut>>
    PROVE  WorkInv'
  <1>1. UNCHANGED <<versions, ref, timeline, tree, checkedOut>>
    BY DEF store
  <1>2. RefFits(versions, ref', timeline')
    BY <1>1 DEF WorkInv
  <1>3. head' \in [Spaces -> Heads(Len(versions))]
    <2>1. [version |-> v, base |-> b] \in Heads(Len(versions))
      BY DEF Heads
    <2>2. QED
      BY <2>1 DEF WorkInv, LocalFits, SetHead
  <1>4. LocalFits(Len(versions), tree', head', checkedOut', touched')
    BY <1>1, <1>3 DEF WorkInv, LocalFits
  <1>5. BaseFits(versions, head')
    BY DEF WorkInv, BaseFits, LocalFits, SetHead
  <1>6. QED
    BY <1>1, <1>2, <1>4, <1>5, WorkStays

LEMMA PlanOf ==
    ASSUME WorkInv, NEW s \in Spaces
    PROVE  /\ PlanFits(versions, plan[s], pc[s]) /\ plan[s] \in Plans(Len(versions))
           /\ tree[s] \in Manifests /\ checkedOut[s] \in Manifests /\ touched[s] \subseteq Paths
           /\ head[s] \in Heads(Len(versions)) /\ ref \in 0 .. Len(versions)
           /\ versions \in Seq(VersionRecord) /\ Len(versions) \in Nat
    BY DEF WorkInv, LocalFits, RefFits, VersionsFit

LEMMA WorkEdit ==
    ASSUME WorkInv, NEW s \in Spaces, NEW p \in Paths, NEW x \in Files \cup {Absent}, Edit(s, p, x)
    PROVE  WorkInv'
  <1>1. tree' \in [Spaces -> Manifests] /\ touched' \in [Spaces -> SUBSET Paths]
    BY DEF Edit, WorkInv, LocalFits, Manifests
  <1>2. UNCHANGED <<versions, ref, timeline, head, checkedOut, pc, plan>>
    BY DEF Edit, store
  <1>3. QED
    BY <1>1, <1>2 DEF WorkInv, LocalFits

(* The end of a command, whatever has become of it. *)
LEMMA WorkEnds ==
    ASSUME WorkInv, NEW s \in Spaces, Finish(s), UNCHANGED <<store, local, touched>>
    PROVE  WorkInv'
    BY NoPlanFits, WorkQuiet DEF Finish, Places, WorkInv, VersionsFit

LEMMA WorkRecordScan ==
    ASSUME WorkInv, NEW s \in Spaces, NEW kind, RecordScan(s, kind)
    PROVE  WorkInv'
  <1> DEFINE pl == [NoPlan EXCEPT !.kind = kind, !.manifest = tree[s]]
  <1>1. kind \in Commands /\ kind \in {"commit", "snapshot"}
    BY DEF RecordScan
  <1>2. pl \in Plans(Len(versions)) /\ pl.kind = kind
    BY <1>1, NoPlanFits, PlanOf DEF NoPlan, Plans, Kinds
  <1>3. /\ pc' = [pc EXCEPT ![s] = "scanned"] /\ plan' = [plan EXCEPT ![s] = pl]
        /\ UNCHANGED <<store, local, touched>>
    BY DEF RecordScan, Start, Goto
  <1> HIDE DEF pl
  <1>4. PlanFits(versions, pl, "scanned")
    BY <1>1, <1>2 DEF PlanFits
  <1>5. QED
    BY <1>3, <1>4, WorkQuiet DEF Places, Steps

LEMMA WorkPut ==
    ASSUME WorkInv, NEW s \in Spaces, CommitParent(s) \/ SnapshotPut(s)
    PROVE  WorkInv'
  <1> DEFINE commit == plan[s].kind = "commit"
             e == [manifest |-> plan[s].manifest, parent |-> IF commit THEN ref ELSE NoVersion,
                   snapshot |-> ~commit]
             pl == [plan[s] EXCEPT !.parent = IF commit THEN ref ELSE @,
                                   !.version = Len(versions) + 1]
  <1>1. /\ pc[s] = "scanned" /\ pc' = [pc EXCEPT ![s] = "put"] /\ Len(versions) < MaxVersions
        /\ UNCHANGED <<ref, timeline, local, touched>>
    BY DEF CommitParent, SnapshotPut, Goto
  <1>2. plan' = [plan EXCEPT ![s] = pl]
    <2>1. plan[s] \in Plans(Len(versions))
      BY PlanOf
    <2>2. CASE CommitParent(s)
      BY <2>1, <2>2 DEF CommitParent, Plans, WorkInv
    <2>3. CASE SnapshotPut(s)
      BY <2>1, <2>3 DEF SnapshotPut, Plans, WorkInv
    <2>4. QED
      BY <2>2, <2>3
  <1>3. versions' = Append(versions, e)
    BY DEF CommitParent, SnapshotPut
  <1>4. /\ e.manifest = plan[s].manifest /\ e.parent = (IF commit THEN ref ELSE NoVersion)
        /\ e.snapshot = ~commit
    OBVIOUS
  <1>5. e \in VersionRecord /\ e.parent \in 0 .. Len(versions)
    <2>1. Len(versions) <= MaxVersions
      BY DEF WorkInv, VersionsFit
    <2>2. QED
      BY <2>1, PlanOf, BoundAssumption DEF Plans, VersionRecord, NoVersion
  <1> HIDE DEF e
  <1>6. /\ Len(versions') = Len(versions) + 1 /\ versions'[Len(versions) + 1] = e
        /\ Len(versions) \in Nat /\ \A n \in 1 .. Len(versions) : versions'[n] = versions[n]
    BY <1>3, <1>5, Appended, PlanOf
  <1>7. /\ pl \in Plans(Len(versions')) /\ pl.kind = plan[s].kind
        /\ pl.manifest = plan[s].manifest /\ pl.version = Len(versions) + 1
        /\ pl.target = plan[s].target
        /\ commit => pl.parent = ref
    <2>1. plan[s] \in Plans(Len(versions))
      BY PlanOf
    <2>2. plan[s] \in Plans(Len(versions'))
      BY <1>6, <2>1 DEF Plans
    <2>3. Len(versions) + 1 \in 0 .. Len(versions') /\ ref \in 0 .. Len(versions')
      BY <1>6, PlanOf
    <2>4. QED
      BY <2>2, <2>3 DEF Plans
  <1>8. plan[s].kind \in {"commit", "snapshot", "checkout", "clear"} \cap Commands
    BY <1>1, PlanOf DEF PlanFits
  <1> HIDE DEF pl
  <1>9. pl.version # NoVersion
    BY <1>6, <1>7 DEF NoVersion
  <1>10. PlanFits(versions', pl, "put")
    BY <1>4, <1>6, <1>7, <1>8, <1>9 DEF PlanFits
  <1>11. QED
    BY <1>1, <1>2, <1>3, <1>5, <1>10, WorkGrows DEF Places, Steps

LEMMA WorkPublish ==
    ASSUME WorkInv, NEW s \in Spaces, CommitPublish(s) \/ SnapshotPublish(s)
    PROVE  WorkInv'
  <1>1. /\ pc[s] = "put" /\ pc' = [pc EXCEPT ![s] = "published"]
        /\ UNCHANGED <<versions, local, plan>>
    BY DEF CommitPublish, SnapshotPublish, Goto
  <1>2. plan' = [plan EXCEPT ![s] = plan[s]]
    BY <1>1 DEF WorkInv
  <1>3. PlanFits(versions, plan[s], "put") /\ plan[s] \in Plans(Len(versions))
    BY <1>1, PlanOf
  <1>4. PlanFits(versions, plan[s], "published")
    BY <1>3 DEF PlanFits
  <1>5. /\ plan[s].version \in 1 .. Len(versions)
        /\ plan[s].kind = "commit" => ~versions[plan[s].version].snapshot
    BY <1>3, PlanOf DEF PlanFits, Plans, NoVersion
  <1>6. RefFits(versions, ref', timeline')
    <2>1. 1 .. Len(versions) \subseteq 0 .. Len(versions)
      BY PlanOf
    <2>2. CASE CommitPublish(s)
      <3>1. ref' = plan[s].version /\ timeline' = timeline /\ plan[s].kind = "commit"
        BY <2>2 DEF CommitPublish
      <3>2. QED
        BY <1>5, <2>1, <3>1 DEF WorkInv, RefFits
    <2>3. CASE SnapshotPublish(s)
      <3>1. ref' = ref /\ timeline' = timeline \cup {plan[s].version}
        BY <2>3 DEF SnapshotPublish
      <3>2. QED
        BY <1>5, <3>1 DEF WorkInv, RefFits
    <2>4. QED
      BY <2>2, <2>3
  <1>7. touched' \in [Spaces -> SUBSET Paths]
    BY DEF CommitPublish, SnapshotPublish, WorkInv, LocalFits
  <1>8. LocalFits(Len(versions), tree', head', checkedOut', touched') /\ BaseFits(versions, head')
    BY <1>1, <1>7 DEF WorkInv, LocalFits, local
  <1>9. QED
    BY <1>1, <1>2, <1>4, <1>6, <1>8, WorkStays DEF Places, Steps

LEMMA WorkRecordHead ==
    ASSUME WorkInv, NEW s \in Spaces, RecordHead(s)
    PROVE  WorkInv'
  <1> DEFINE v == plan[s].version
             b == IF plan[s].kind = "commit" THEN plan[s].version ELSE head[s].base
  <1>1. PlanFits(versions, plan[s], "published") /\ plan[s] \in Plans(Len(versions))
    BY PlanOf DEF RecordHead, Goto
  <1>2. PlanFits(versions, plan[s], "headed")
    BY <1>1 DEF PlanFits
  <1>3. v \in 0 .. Len(versions) /\ b \in 0 .. Len(versions)
    BY <1>1, PlanOf DEF Plans, Heads
  <1>4. "checkout" \notin Commands /\ b # NoVersion => ~versions[b].snapshot
    BY <1>1 DEF WorkInv, BaseFits, PlanFits
  <1>5. /\ pc' = [pc EXCEPT ![s] = "headed"] /\ plan' = [plan EXCEPT ![s] = plan[s]]
        /\ SetHead(s, v, b) /\ UNCHANGED <<store, tree, checkedOut, touched>>
        /\ touched' = [touched EXCEPT ![s] = touched[s]]
    BY DEF RecordHead, Goto, WorkInv, LocalFits
  <1> HIDE DEF v, b
  <1>6. QED
    BY <1>2, <1>3, <1>4, <1>5, WorkHead, PlanOf DEF Places, Steps

LEMMA WorkRecordManifest ==
    ASSUME WorkInv, NEW s \in Spaces, RecordManifest(s)
    PROVE  WorkInv'
  <1>1. PlanFits(versions, plan[s], "headed") /\ plan[s] \in Plans(Len(versions))
    BY PlanOf DEF RecordManifest
  <1>2. plan[s].manifest \in Manifests
    BY <1>1 DEF Plans
  <1>3. /\ checkedOut' = [checkedOut EXCEPT ![s] = plan[s].manifest]
        /\ UNCHANGED <<store, tree, head, touched>>
    BY DEF RecordManifest
  <1>4. CASE plan[s].kind \in {"checkout", "clear"}
    <2>1. pc' = [pc EXCEPT ![s] = "recheck"] /\ plan' = [plan EXCEPT ![s] = plan[s]]
      BY <1>4 DEF RecordManifest, WorkInv
    <2>2. PlanFits(versions, plan[s], "recheck")
      BY <1>1, <1>4 DEF PlanFits
    <2>3. QED
      BY <1>2, <1>3, <2>1, <2>2, WorkManifest DEF Places, Steps
  <1>5. CASE plan[s].kind \notin {"checkout", "clear"}
    <2>1. pc' = [pc EXCEPT ![s] = "idle"] /\ plan' = [plan EXCEPT ![s] = NoPlan]
      BY <1>5 DEF RecordManifest, Finish
    <2>2. PlanFits(versions, NoPlan, "idle")
      BY PlanOf, NoPlanFits
    <2>3. QED
      BY <1>2, <1>3, <2>1, <2>2, WorkManifest DEF Places
  <1>6. QED
    BY <1>4, <1>5

(* What a sync merges. *)
LEMMA MergeFits ==
    ASSUME NEW base \in Manifests, NEW ours \in Manifests, NEW theirs \in Manifests
    PROVE  /\ MergeOf(base, ours, theirs) \in Manifests
           /\ ConflictsOf(base, ours, theirs) \subseteq Paths
           /\ \A m \in Manifests :
                 Incoming(ours, m) \subseteq Paths /\ Outgoing(ours, m) \subseteq Paths
  <1>1. ASSUME NEW p \in Paths
        PROVE  MergeOf(base, ours, theirs)[p] \in Files \cup {Absent}
    BY MergeAtPath, EntriesOfManifest DEF Rule, Outcome, Entries
  <1>2. MergeOf(base, ours, theirs) \in Manifests
    BY <1>1 DEF MergeOf, Manifests
  <1>3. ASSUME NEW m \in Manifests
        PROVE  Incoming(ours, m) \subseteq Paths /\ Outgoing(ours, m) \subseteq Paths
    BY IncomingIsNewOrChanged DEF Appeared, Changed, Vanished, PathsOf
  <1>4. QED
    BY <1>2, <1>3 DEF ConflictsOf

LEMMA WorkSyncMerge ==
    ASSUME WorkInv, NEW s \in Spaces, SyncMerge(s)
    PROVE  WorkInv'
  <1> DEFINE base == ManifestOf(head[s].base)
             theirs == ManifestOf(ref)
             merged == MergeOf(base, tree[s], theirs)
             pl == [NoPlan EXCEPT !.kind = "sync", !.manifest = merged, !.target = ref,
                                !.write = Incoming(tree[s], merged),
                                !.remove = Outgoing(tree[s], merged),
                                !.conflicts = ConflictsOf(base, tree[s], theirs)]
  <1>1. /\ pc' = [pc EXCEPT ![s] = "write"] /\ plan' = [plan EXCEPT ![s] = pl]
        /\ UNCHANGED <<store, local, touched>>
        /\ "sync" \in Commands /\ ref # NoVersion
    BY DEF SyncMerge, Start, Goto
  <1>2. base \in Manifests /\ theirs \in Manifests
    BY ManifestsFit, PlanOf DEF Heads
  <1>3. /\ merged \in Manifests /\ Incoming(tree[s], merged) \subseteq Paths
        /\ Outgoing(tree[s], merged) \subseteq Paths
        /\ ConflictsOf(base, tree[s], theirs) \subseteq Paths
    BY <1>2, MergeFits, PlanOf
  <1> HIDE DEF merged, base, theirs
  <1>4. pl \in Plans(Len(versions)) /\ pl.kind = "sync" /\ pl.target = ref
    BY <1>3, NoPlanFits, PlanOf DEF NoPlan, Plans, Kinds
  <1> HIDE DEF pl
  <1>5. PlanFits(versions, pl, "write")
    BY <1>1, <1>4 DEF PlanFits, WorkInv, RefFits
  <1>6. QED
    BY <1>1, <1>5, WorkQuiet DEF Places, Steps

(* One file is written, wholly or not, or deleted. *)
LEMMA OneFile ==
    ASSUME WorkInv, NEW s \in Spaces, NEW p \in Paths, NEW x \in Files \cup {Absent}
    PROVE  /\ [tree[s] EXCEPT ![p] = x] \in Manifests
           /\ [tree EXCEPT ![s][p] = x] = [tree EXCEPT ![s] = [tree[s] EXCEPT ![p] = x]]
  <1>1. tree[s] \in Manifests
    BY PlanOf
  <1>2. QED
    BY <1>1 DEF Manifests

LEMMA WorkWriteFile ==
    ASSUME WorkInv, NEW s \in Spaces, WriteFile(s)
    PROVE  WorkInv'
  <1>1. PICK p \in plan[s].write :
            /\ tree' = [tree EXCEPT ![s][p] = plan[s].manifest[p]]
            /\ plan' = [plan EXCEPT ![s].write = @ \ {p}]
    BY DEF WriteFile
  <1> DEFINE pl == [plan[s] EXCEPT !.write = @ \ {p}]
             m == [tree[s] EXCEPT ![p] = plan[s].manifest[p]]
  <1>2. PlanFits(versions, plan[s], "write") /\ plan[s] \in Plans(Len(versions))
    BY PlanOf DEF WriteFile
  <1>3. p \in Paths /\ plan[s].manifest[p] \in Files \cup {Absent}
    BY <1>2 DEF Plans, Manifests
  <1>4. m \in Manifests /\ tree' = [tree EXCEPT ![s] = m]
    BY <1>1, <1>3, OneFile
  <1>5. PlanFits(versions, pl, "write")
    BY <1>2 DEF PlanFits, Plans
  <1>6. /\ plan' = [plan EXCEPT ![s] = pl] /\ pc' = [pc EXCEPT ![s] = "write"]
        /\ UNCHANGED <<store, head, checkedOut, touched>>
    BY <1>1 DEF WriteFile, WorkInv
  <1> HIDE DEF pl, m
  <1>7. QED
    BY <1>4, <1>5, <1>6, WorkTree DEF Places, Steps

LEMMA WorkWriteIsCut ==
    ASSUME WorkInv, NEW s \in Spaces, WriteIsCut(s)
    PROVE  WorkInv'
  <1>1. PICK p \in plan[s].write : tree' = [tree EXCEPT ![s][p] = Torn]
    BY DEF WriteIsCut
  <1> DEFINE m == [tree[s] EXCEPT ![p] = Torn]
  <1>2. p \in Paths
    BY PlanOf DEF Plans
  <1>3. m \in Manifests /\ tree' = [tree EXCEPT ![s] = m]
    BY <1>1, <1>2, OneFile, TornAssumption
  <1>4. /\ plan' = [plan EXCEPT ![s] = NoPlan] /\ pc' = [pc EXCEPT ![s] = "idle"]
        /\ UNCHANGED <<store, head, checkedOut, touched>>
    BY DEF WriteIsCut, Finish
  <1>5. PlanFits(versions, NoPlan, "idle")
    BY NoPlanFits, PlanOf
  <1> HIDE DEF m
  <1>6. QED
    BY <1>3, <1>4, <1>5, WorkTree DEF Places

LEMMA WorkFilesWritten ==
    ASSUME WorkInv, NEW s \in Spaces, FilesWritten(s)
    PROVE  WorkInv'
  <1> DEFINE gone == IF plan[s].kind = "checkout"
                     THEN PathsOf(tree[s]) \ PathsOf(plan[s].manifest) ELSE plan[s].remove
             pl == [plan[s] EXCEPT !.remove = gone]
  <1>1. PlanFits(versions, plan[s], "write") /\ plan[s] \in Plans(Len(versions))
    BY PlanOf DEF FilesWritten, Goto
  <1>2. gone \subseteq Paths
    BY <1>1 DEF PathsOf, Plans
  <1>3. /\ plan' = [plan EXCEPT ![s] = pl] /\ pc' = [pc EXCEPT ![s] = "remove"]
        /\ UNCHANGED <<store, local, touched>>
    BY DEF FilesWritten, Goto, WorkInv
  <1> HIDE DEF gone
  <1>4. PlanFits(versions, pl, "remove")
    BY <1>1, <1>2 DEF PlanFits, Plans
  <1> HIDE DEF pl
  <1>5. QED
    BY <1>3, <1>4, WorkQuiet DEF Places, Steps

LEMMA WorkRemoveFile ==
    ASSUME WorkInv, NEW s \in Spaces, RemoveFile(s)
    PROVE  WorkInv'
  <1>1. PICK p \in plan[s].remove :
            /\ tree' = [tree EXCEPT ![s][p] = Absent]
            /\ plan' = [plan EXCEPT ![s].remove = @ \ {p}]
    BY DEF RemoveFile
  <1> DEFINE pl == [plan[s] EXCEPT !.remove = @ \ {p}]
             m == [tree[s] EXCEPT ![p] = Absent]
  <1>2. PlanFits(versions, plan[s], "remove") /\ plan[s] \in Plans(Len(versions))
    BY PlanOf DEF RemoveFile
  <1>3. p \in Paths
    BY <1>2 DEF Plans
  <1>4. m \in Manifests /\ tree' = [tree EXCEPT ![s] = m]
    BY <1>1, <1>3, OneFile
  <1>5. PlanFits(versions, pl, "remove")
    BY <1>2 DEF PlanFits, Plans
  <1>6. /\ plan' = [plan EXCEPT ![s] = pl] /\ pc' = [pc EXCEPT ![s] = "remove"]
        /\ UNCHANGED <<store, head, checkedOut, touched>>
    BY <1>1 DEF RemoveFile, WorkInv
  <1> HIDE DEF pl, m
  <1>7. QED
    BY <1>4, <1>5, <1>6, WorkTree DEF Places, Steps

LEMMA WorkFilesRemoved ==
    ASSUME WorkInv, NEW s \in Spaces, FilesRemoved(s)
    PROVE  WorkInv'
  <1>1. PlanFits(versions, plan[s], "remove") /\ UNCHANGED <<store, local, touched>>
    BY PlanOf DEF FilesRemoved
  <1>2. CASE plan[s].kind = "sync"
    <2>1. plan' = [plan EXCEPT ![s] = plan[s]] /\ pc' = [pc EXCEPT ![s] = "settle"]
      BY <1>2 DEF FilesRemoved, Goto, WorkInv
    <2>2. PlanFits(versions, plan[s], "settle")
      BY <1>1, <1>2 DEF PlanFits
    <2>3. QED
      BY <1>1, <2>1, <2>2, WorkQuiet DEF Places, Steps
  <1>3. CASE plan[s].kind = "checkout"
    <2>1. plan' = [plan EXCEPT ![s] = plan[s]] /\ pc' = [pc EXCEPT ![s] = "point"]
      BY <1>3 DEF FilesRemoved, Goto, WorkInv
    <2>2. PlanFits(versions, plan[s], "point")
      BY <1>1, <1>3 DEF PlanFits
    <2>3. QED
      BY <1>1, <2>1, <2>2, WorkQuiet DEF Places, Steps
  <1>4. CASE plan[s].kind \notin {"sync", "checkout"}
    <2>1. Finish(s)
      BY <1>4 DEF FilesRemoved
    <2>2. QED
      BY <1>1, <2>1, WorkEnds
  <1>5. QED
    BY <1>2, <1>3, <1>4

LEMMA WorkSyncManifest ==
    ASSUME WorkInv, NEW s \in Spaces, SyncManifest(s)
    PROVE  WorkInv'
  <1>1. PlanFits(versions, plan[s], "settle") /\ plan[s] \in Plans(Len(versions))
    BY PlanOf DEF SyncManifest, Goto
  <1>2. PlanFits(versions, plan[s], "settled")
    BY <1>1 DEF PlanFits
  <1>3. ManifestOf(plan[s].target) \in Manifests
    BY <1>1, ManifestsFit DEF Plans
  <1>4. /\ plan' = [plan EXCEPT ![s] = plan[s]] /\ pc' = [pc EXCEPT ![s] = "settled"]
        /\ checkedOut' = [checkedOut EXCEPT ![s] = ManifestOf(plan[s].target)]
        /\ UNCHANGED <<store, tree, head, touched>>
    BY DEF SyncManifest, Goto, WorkInv
  <1>5. QED
    BY <1>2, <1>3, <1>4, WorkManifest DEF Places, Steps

LEMMA WorkSyncSettle ==
    ASSUME WorkInv, NEW s \in Spaces, SyncSettle(s)
    PROVE  WorkInv'
  <1> DEFINE v == plan[s].target
             to == touched[s] \cup plan[s].conflicts
  <1>1. PlanFits(versions, plan[s], "settled") /\ plan[s] \in Plans(Len(versions))
    BY PlanOf DEF SyncSettle
  <1>2. v \in 0 .. Len(versions) /\ to \in SUBSET Paths
    BY <1>1, PlanOf DEF Plans
  <1>3. "checkout" \notin Commands /\ v # NoVersion => ~versions[v].snapshot
    BY <1>1 DEF PlanFits
  <1>4. /\ pc' = [pc EXCEPT ![s] = "idle"] /\ plan' = [plan EXCEPT ![s] = NoPlan]
        /\ SetHead(s, v, v) /\ touched' = [touched EXCEPT ![s] = to]
        /\ UNCHANGED <<store, tree, checkedOut>>
    BY DEF SyncSettle, Finish, WorkInv, LocalFits
  <1>5. PlanFits(versions, NoPlan, "idle")
    BY NoPlanFits, PlanOf
  <1> HIDE DEF v, to
  <1>6. QED
    BY <1>2, <1>3, <1>4, <1>5, WorkHead DEF Places

(* The dirty check has passed. *)
LEMMA WorkProceed ==
    ASSUME WorkInv, NEW s \in Spaces, NEW kind \in {"checkout", "clear"} \cap Commands,
           NEW v \in 0 .. Len(versions), Proceed(s, Leaving(kind, v)),
           UNCHANGED <<store, local, touched>>
    PROVE  WorkInv'
  <1> DEFINE base == Leaving(kind, v)
             pl == IF kind = "checkout"
                   THEN [base EXCEPT !.manifest = ManifestOf(v), !.write = PathsOf(ManifestOf(v))]
                   ELSE [base EXCEPT !.remove = PathsOf(tree[s])]
             at == IF kind = "checkout" THEN "write" ELSE "remove"
  <1>1. base \in Plans(Len(versions)) /\ base.kind = kind /\ base.target = v
    BY NoPlanFits, PlanOf DEF Leaving, Plans, NoPlan, Kinds
  <1>2. /\ plan' = [plan EXCEPT ![s] = pl] /\ pc' = [pc EXCEPT ![s] = at]
    BY <1>1 DEF Proceed
  <1> HIDE DEF base
  <1>3. pl \in Plans(Len(versions)) /\ pl.kind = kind
    <2>1. ManifestOf(v) \in Manifests /\ \A m : PathsOf(m) \subseteq Paths
      BY ManifestsFit DEF PathsOf
    <2>2. QED
      BY <1>1, <2>1 DEF Plans
  <1>4. PlanFits(versions, pl, at)
    <2> HIDE DEF pl
    <2>1. QED
      BY <1>3 DEF PlanFits
  <1>5. at \in Places
    BY DEF Places, Steps
  <1> HIDE DEF pl, at
  <1>6. QED
    BY <1>2, <1>4, <1>5, WorkQuiet

LEMMA WorkLeave ==
    ASSUME WorkInv, NEW s \in Spaces, NEW kind \in {"checkout", "clear"},
           NEW v \in 0 .. Len(versions), LeaveClean(s, kind, v) \/ LeaveDirty(s, kind, v)
    PROVE  WorkInv'
  <1>1. kind \in Commands /\ UNCHANGED <<store, local, touched>>
    BY DEF LeaveClean, LeaveDirty
  <1>2. CASE LeaveClean(s, kind, v)
    BY <1>1, <1>2, WorkProceed DEF LeaveClean
  <1>3. CASE LeaveDirty(s, kind, v)
    <2> DEFINE pl == [Leaving(kind, v) EXCEPT !.manifest = tree[s]]
    <2>1. pl \in Plans(Len(versions)) /\ pl.kind = kind
      BY NoPlanFits, PlanOf DEF Leaving, Plans, NoPlan, Kinds
    <2>2. plan' = [plan EXCEPT ![s] = pl] /\ pc' = [pc EXCEPT ![s] = "scanned"]
      BY <1>3 DEF LeaveDirty, Start, Goto
    <2> HIDE DEF pl
    <2>3. PlanFits(versions, pl, "scanned")
      BY <1>1, <2>1 DEF PlanFits
    <2>4. QED
      BY <1>1, <2>2, <2>3, WorkQuiet DEF Places, Steps
  <1>4. QED
    BY <1>2, <1>3

LEMMA WorkRecheck ==
    ASSUME WorkInv, NEW s \in Spaces, Recheck(s)
    PROVE  WorkInv'
  <1>1. /\ PlanFits(versions, plan[s], "recheck") /\ plan[s] \in Plans(Len(versions))
        /\ UNCHANGED <<store, local, touched>>
    BY PlanOf DEF Recheck
  <1>2. CASE Unversioned(s) = {}
    <2>1. Proceed(s, Leaving(plan[s].kind, plan[s].target))
      BY <1>2 DEF Recheck
    <2>2. /\ plan[s].kind \in {"checkout", "clear"} \cap Commands
          /\ plan[s].target \in 0 .. Len(versions)
      BY <1>1 DEF PlanFits, Plans
    <2>3. QED
      BY <1>1, <2>1, <2>2, WorkProceed
  <1>3. CASE Unversioned(s) # {}
    BY <1>1, <1>3, WorkEnds DEF Recheck
  <1>4. QED
    BY <1>2, <1>3

LEMMA WorkCheckoutHead ==
    ASSUME WorkInv, NEW s \in Spaces, CheckoutHead(s)
    PROVE  WorkInv'
  <1> DEFINE v == plan[s].target
             to == {p \in Paths : tree[s][p] # plan[s].manifest[p]}
  <1>1. PlanFits(versions, plan[s], "point") /\ plan[s] \in Plans(Len(versions))
    BY PlanOf DEF CheckoutHead, Goto
  <1>2. PlanFits(versions, plan[s], "pointed") /\ "checkout" \in Commands
    BY <1>1 DEF PlanFits
  <1>3. v \in 0 .. Len(versions) /\ to \in SUBSET Paths
    BY <1>1 DEF Plans
  <1>4. /\ pc' = [pc EXCEPT ![s] = "pointed"] /\ plan' = [plan EXCEPT ![s] = plan[s]]
        /\ SetHead(s, v, v) /\ touched' = [touched EXCEPT ![s] = to]
        /\ UNCHANGED <<store, tree, checkedOut>>
    BY DEF CheckoutHead, Goto, WorkInv
  <1> HIDE DEF v, to
  <1>5. QED
    BY <1>2, <1>3, <1>4, WorkHead DEF Places, Steps

LEMMA WorkCheckoutManifest ==
    ASSUME WorkInv, NEW s \in Spaces, CheckoutManifest(s)
    PROVE  WorkInv'
  <1>1. plan[s].manifest \in Manifests
    BY PlanOf DEF Plans
  <1>2. /\ plan' = [plan EXCEPT ![s] = NoPlan] /\ pc' = [pc EXCEPT ![s] = "idle"]
        /\ checkedOut' = [checkedOut EXCEPT ![s] = plan[s].manifest]
        /\ UNCHANGED <<store, tree, head, touched>>
    BY DEF CheckoutManifest, Finish
  <1>3. PlanFits(versions, NoPlan, "idle")
    BY NoPlanFits, PlanOf
  <1>4. QED
    BY <1>1, <1>2, <1>3, WorkManifest DEF Places

LEMMA WorkRestore ==
    ASSUME WorkInv, NEW s \in Spaces, Restore(s)
    PROVE  WorkInv'
  <1> DEFINE pl == [NoPlan EXCEPT !.kind = "restore", !.manifest = checkedOut[s],
                                  !.write = PathsOf(checkedOut[s])]
  <1>1. PathsOf(checkedOut[s]) \subseteq Paths /\ checkedOut[s] \in Manifests
    BY PlanOf DEF PathsOf
  <1>2. pl \in Plans(Len(versions)) /\ pl.kind = "restore"
    BY <1>1, NoPlanFits, PlanOf DEF NoPlan, Plans, Kinds
  <1>3. /\ pc' = [pc EXCEPT ![s] = "write"] /\ plan' = [plan EXCEPT ![s] = pl]
        /\ UNCHANGED <<store, local, touched>> /\ "restore" \in Commands
    BY DEF Restore, Start, Goto
  <1> HIDE DEF pl
  <1>4. PlanFits(versions, pl, "write")
    BY <1>2, <1>3 DEF PlanFits
  <1>5. QED
    BY <1>3, <1>4, WorkQuiet DEF Places, Steps

LEMMA WorkExpire ==
    ASSUME WorkInv, NEW v \in timeline, Expire(v)
    PROVE  WorkInv'
  <1>1. UNCHANGED <<versions, ref, tree, head, checkedOut, pc, plan, touched>>
        /\ timeline' \subseteq timeline
    BY DEF Expire, local
  <1>2. RefFits(versions, ref, timeline')
    BY <1>1 DEF WorkInv, RefFits
  <1>3. QED
    BY <1>1, <1>2 DEF WorkInv

LEMMA WorkInvInit == Init => WorkInv
  <1> SUFFICES ASSUME Init PROVE WorkInv
    OBVIOUS
  <1>1. VersionsFit(versions) /\ versions \in Seq(VersionRecord) /\ Len(versions) = 0
    BY VersionsFitEmpty DEF Init
  <1>2. PlanFits(versions, NoPlan, "idle") /\ NoPlan \in Plans(Len(versions)) /\ Empty \in Manifests
    BY <1>1, NoPlanFits
  <1>3. RefFits(versions, ref, timeline)
    BY <1>1 DEF Init, RefFits, NoVersion
  <1>4. LocalFits(Len(versions), tree, head, checkedOut, touched) /\ BaseFits(versions, head)
    BY <1>1, <1>2 DEF Init, LocalFits, BaseFits, Heads, NoVersion
  <1>5. /\ pc \in [Spaces -> Places] /\ plan \in [Spaces -> Plans(Len(versions))]
        /\ \A s \in Spaces : PlanFits(versions, plan[s], pc[s])
    BY <1>2 DEF Init, Places
  <1>6. QED
    BY <1>1, <1>3, <1>4, <1>5 DEF WorkInv

LEMMA WorkInvNext == WorkInv /\ [Next]_vars => WorkInv'
  <1> SUFFICES ASSUME WorkInv, [Next]_vars PROVE WorkInv'
    OBVIOUS
  <1>1. CASE UNCHANGED vars
    BY <1>1 DEF vars, store, local, WorkInv
  <1>2. ASSUME NEW s \in Spaces, Moves(s) PROVE WorkInv'
    <2>2. CASE \E p \in Paths, x \in Files \cup {Absent} : Edit(s, p, x)
      BY <2>2, WorkEdit
    <2>3. CASE Command(s)
      <3>1. Reachable \subseteq 0 .. Len(versions) /\ NoVersion \in 0 .. Len(versions)
        BY ReachableFits, PlanOf DEF VersionIds, NoVersion
      <3>2. QED
        BY <2>3, <3>1, WorkRecordScan, WorkSyncMerge, WorkLeave, WorkRestore DEF Command
    <2>4. CASE Work(s)
      <3>1. CASE CommitBehind(s) \/ CommitConflict(s)
        BY <3>1, WorkEnds DEF CommitBehind, CommitConflict
      <3>2. QED
        BY <2>4, <3>1, WorkPut, WorkPublish, WorkRecordHead, WorkRecordManifest,
           WorkWriteFile, WorkFilesWritten, WorkRemoveFile, WorkFilesRemoved,
           WorkSyncManifest, WorkSyncSettle, WorkRecheck, WorkCheckoutHead,
           WorkCheckoutManifest DEF Work
    <2>5. CASE Abort(s)
      BY <2>5, WorkEnds DEF Abort
    <2>6. CASE WriteIsCut(s)
      BY <2>6, WorkWriteIsCut
    <2>7. QED
      BY <1>2, <2>2, <2>3, <2>4, <2>5, <2>6 DEF Moves
  <1>3. QED
    BY <1>1, <1>2, WorkExpire DEF Next

(* Every step of every command leaves versions, refs, files and plans of   *)
(* their types, and no ref, head or plan ever names a version that is not  *)
(* in the store (snapshot.go, sync.go, checkout.go, restore.go).           *)
THEOREM WorkspaceTypeCorrect == Spec => []TypeOK
  <1>1. WorkInv => TypeOK
    <2> SUFFICES ASSUME WorkInv PROVE TypeOK
      OBVIOUS
    <2>1. versions \in Seq(VersionRecord) /\ Len(versions) <= MaxVersions /\ Len(versions) \in Nat
      BY DEF WorkInv, VersionsFit
    <2>2. 0 .. Len(versions) = {NoVersion} \cup VersionIds
      BY <2>1 DEF NoVersion, VersionIds
    <2>3. ref \in {NoVersion} \cup VersionIds /\ timeline \subseteq VersionIds
      BY <2>2 DEF WorkInv, RefFits, VersionIds
    <2>4. /\ tree \in [Spaces -> Manifests] /\ checkedOut \in [Spaces -> Manifests]
          /\ head \in [Spaces -> [version : 0 .. Len(versions), base : 0 .. Len(versions)]]
          /\ touched \in [Spaces -> SUBSET Paths]
      BY DEF WorkInv, LocalFits, Heads
    <2>5. QED
      BY <2>1, <2>3, <2>4 DEF TypeOK, WorkInv, Plans, Places
  <1>2. QED
    BY <1>1, WorkInvInit, WorkInvNext, PTL DEF Spec

(* A snapshot is never what a commit builds on, as long as nobody checks   *)
(* one out: snapshots, failed commits and syncs of any spaces in any order *)
(* leave every base at a commit (space.go, Head.Base).                     *)
THEOREM BasesAreCommits ==
    ASSUME "checkout" \notin Commands
    PROVE  Spec => []BaseIsDeliberate
  <1>1. WorkInv => BaseIsDeliberate
    BY DEF WorkInv, BaseFits, BaseIsDeliberate
  <1>2. QED
    BY <1>1, WorkInvInit, WorkInvNext, PTL DEF Spec

------------------------------------------------------------------------------
(* The steps                                                               *)
LEMMA OneMoves ==
    ASSUME [Next]_vars
    PROVE  (\E s \in Spaces : Moves(s)) \/ (\E v \in timeline : Expire(v)) \/ UNCHANGED vars
    BY DEF Next

(* An expiry changes the timeline and nothing else. *)
LEMMA ExpiryIsAll ==
    ASSUME NEW v \in timeline, Expire(v)
    PROVE  UNCHANGED <<versions, ref, tree, head, checkedOut, pc, plan, touched>>
    BY DEF Expire, local

(* No step touches the files or the plan of another space. *)
LEMMA OnlyItsOwn ==
    ASSUME WorkInv, NEW s \in Spaces, Moves(s), NEW t \in Spaces, t # s
    PROVE  /\ pc'[t] = pc[t] /\ plan'[t] = plan[t] /\ head'[t] = head[t]
           /\ tree'[t] = tree[t] /\ touched'[t] = touched[t]
  <1>1. /\ pc \in [Spaces -> Places] /\ plan \in [Spaces -> Plans(Len(versions))]
        /\ LocalFits(Len(versions), tree, head, checkedOut, touched)
    BY DEF WorkInv
  <1>2. CASE \E p \in Paths, x \in Files \cup {Absent} : Edit(s, p, x)
    BY <1>1, <1>2 DEF Edit, LocalFits
  <1>3. CASE Command(s)
    BY <1>1, <1>3 DEF Command, RecordScan, SyncMerge, LeaveClean, LeaveDirty, Restore, Proceed,
       Start, Goto, local, LocalFits
  <1>4. CASE Work(s)
    <2>1. CASE \/ CommitParent(s) \/ CommitBehind(s) \/ CommitPublish(s) \/ CommitConflict(s)
               \/ SnapshotPut(s) \/ SnapshotPublish(s) \/ RecordHead(s) \/ RecordManifest(s)
      BY <1>1, <2>1 DEF CommitParent, CommitBehind, CommitPublish, CommitConflict, SnapshotPut,
         SnapshotPublish, RecordHead, RecordManifest, Goto, Finish, SetHead, local, LocalFits
    <2>2. CASE \/ WriteFile(s) \/ FilesWritten(s) \/ RemoveFile(s) \/ FilesRemoved(s)
               \/ SyncManifest(s) \/ SyncSettle(s)
      BY <1>1, <2>2 DEF WriteFile, FilesWritten, RemoveFile, FilesRemoved, SyncManifest,
         SyncSettle, Goto, Finish, SetHead, local, LocalFits
    <2>3. CASE Recheck(s) \/ CheckoutHead(s) \/ CheckoutManifest(s)
      BY <1>1, <2>3 DEF Recheck, CheckoutHead, CheckoutManifest, Proceed, Goto, Finish, SetHead,
         local, LocalFits
    <2>4. QED
      BY <1>4, <2>1, <2>2, <2>3 DEF Work
  <1>5. CASE Abort(s) \/ WriteIsCut(s)
    BY <1>1, <1>5 DEF Abort, WriteIsCut, Finish, local, LocalFits
  <1>6. QED
    BY <1>2, <1>3, <1>4, <1>5 DEF Moves

(* Only these steps move a ref or a base. *)
LEMMA FewMoveTheHistory ==
    ASSUME NEW s \in Spaces, Moves(s)
    PROVE  \/ head' = head /\ ref' = ref
           \/ CommitPublish(s) \/ RecordHead(s) \/ SyncSettle(s) \/ CheckoutHead(s)
  <1>1. CASE Command(s) \/ \E p \in Paths, x \in Files \cup {Absent} : Edit(s, p, x)
    BY <1>1 DEF Edit, Command, RecordScan, SyncMerge, LeaveClean, LeaveDirty, Restore, local, store
  <1>2. CASE Work(s) \/ Abort(s) \/ WriteIsCut(s)
    BY <1>2 DEF Work, CommitParent, CommitBehind, CommitConflict, SnapshotPut, SnapshotPublish,
       RecordManifest, WriteFile, FilesWritten, RemoveFile, FilesRemoved, SyncManifest, Recheck,
       CheckoutManifest, Abort, WriteIsCut, local, store
  <1>3. QED
    BY <1>1, <1>2 DEF Moves

(* What a step may do to the versions. *)
LEMMA VersionsStayOrGrow ==
    ASSUME WorkInv, NEW s \in Spaces, Moves(s)
    PROVE  \/ versions' = versions
           \/ \E e \in VersionRecord :
                 e.parent \in 0 .. Len(versions) /\ versions' = Append(versions, e)
  <1>1. CASE Command(s) \/ \E p \in Paths, x \in Files \cup {Absent} : Edit(s, p, x)
    BY <1>1 DEF Edit, Command, RecordScan, SyncMerge, LeaveClean, LeaveDirty, Restore, store
  <1>2. CASE CommitParent(s) \/ SnapshotPut(s)
    <2> DEFINE E(r, q) == [manifest |-> plan[s].manifest, parent |-> r, snapshot |-> q]
    <2>1. Len(versions) <= MaxVersions
      BY DEF WorkInv, VersionsFit
    <2>2. ref \in 0 .. Len(versions) /\ NoVersion \in 0 .. Len(versions)
      BY PlanOf DEF NoVersion
    <2>3. plan[s].manifest \in Manifests
      BY PlanOf DEF Plans
    <2>4. ASSUME NEW r \in 0 .. Len(versions), NEW q \in BOOLEAN
          PROVE  E(r, q) \in VersionRecord /\ E(r, q).parent \in 0 .. Len(versions)
      BY <2>1, <2>3, PlanOf, BoundAssumption DEF VersionRecord
    <2>5. \/ versions' = Append(versions, E(ref, FALSE))
          \/ versions' = Append(versions, E(NoVersion, TRUE))
      BY <1>2 DEF CommitParent, SnapshotPut
    <2> HIDE DEF E
    <2>6. QED
      BY <2>2, <2>4, <2>5
  <1>3. CASE Abort(s) \/ WriteIsCut(s) \/ (Work(s) /\ ~CommitParent(s) /\ ~SnapshotPut(s))
    BY <1>3 DEF Work, CommitBehind, CommitPublish, CommitConflict, SnapshotPublish, RecordHead,
       RecordManifest, WriteFile, FilesWritten, RemoveFile, FilesRemoved, SyncManifest,
       SyncSettle, Recheck, CheckoutHead, CheckoutManifest, Abort, WriteIsCut, store
  <1>4. QED
    BY <1>1, <1>2, <1>3 DEF Moves

------------------------------------------------------------------------------
(* The published versions *)

(* A commit at its compare-and-swap builds on its own base; what it has    *)
(* published, and what a sync goes to, is in the history.                  *)
StandsInHistory(vs, r, pl, at, b) ==
    /\ pl.kind = "commit" /\ at = "put" => pl.parent = b
    /\ pl.kind = "commit" /\ at = "published" => pl.version \in Published(vs, r)
    /\ pl.kind = "sync" => pl.target \in Published(vs, r)

HistoryInv ==
    /\ WorkInv
    /\ \A s \in Spaces : StandsInHistory(versions, ref, plan[s], pc[s], head[s].base)

LEMMA ChainEnds ==
    ASSUME NEW vs, VersionsFit(vs), NEW n \in 0 .. Len(vs)
    PROVE  /\ ChainAt(vs, n) \in Seq(1 .. n)
           /\ n = NoVersion => ChainAt(vs, n) = <<>>
           /\ n # NoVersion => /\ ChainAt(vs, n) # <<>> /\ History!Last(ChainAt(vs, n)) = n
                               /\ n \in Published(vs, n)
           /\ Published(vs, n) \subseteq 1 .. n
  <1>1. /\ ChainAt(vs, n) \in Seq(1 .. n)
        /\ n = NoVersion => ChainAt(vs, n) = <<>>
        /\ n # NoVersion => ChainAt(vs, n) = Append(ChainAt(vs, vs[n].parent), n)
    BY ChainOfVersion DEF VersionsFit
  <1>2. Published(vs, n) \subseteq 1 .. n
    BY <1>1 DEF Published, History!ToSet
  <1>3. CASE n # NoVersion
    <2>1. vs[n].parent \in 0 .. Len(vs) /\ vs[n].parent \in 0 .. n - 1
      BY <1>3 DEF VersionsFit, OlderParents, NoVersion
    <2>2. ChainAt(vs, vs[n].parent) \in Seq(1 .. vs[n].parent)
      BY <2>1, ChainOfVersion DEF VersionsFit
    <2>3. PICK c : c \in Seq(Nat) /\ ChainAt(vs, n) = Append(c, n)
      <3>1. 1 .. vs[n].parent \subseteq Nat
        BY <2>1
      <3>2. ChainAt(vs, vs[n].parent) \in Seq(Nat)
        BY <2>2, <3>1, SeqMonotonic
      <3>3. QED
        BY <1>1, <1>3, <3>2
    <2>4. /\ Append(c, n) # <<>> /\ Append(c, n)[Len(Append(c, n))] = n
          /\ Len(Append(c, n)) \in DOMAIN Append(c, n)
      BY <2>3
    <2>5. QED
      BY <1>1, <1>2, <1>3, <2>3, <2>4 DEF Published, History!ToSet, History!Last
  <1>4. QED
    BY <1>1, <1>2, <1>3

(* A version put by anybody changes no history. *)
LEMMA HistoryStays ==
    ASSUME WorkInv, WorkInv', NEW s \in Spaces, Moves(s), NEW n \in 0 .. Len(versions)
    PROVE  ChainAt(versions', n) = ChainAt(versions, n)
  <1>1. VersionsFit(versions) /\ VersionsFit(versions')
    BY DEF WorkInv
  <1>2. CASE versions' = versions
    BY <1>2
  <1>3. CASE \E e \in VersionRecord :
                e.parent \in 0 .. Len(versions) /\ versions' = Append(versions, e)
    BY <1>1, <1>3, ChainStays DEF VersionsFit
  <1>4. QED
    BY <1>2, <1>3, VersionsStayOrGrow

(* A commit that wins its compare-and-swap ends the history with a version *)
(* that was not in it.                                                     *)
LEMMA PublishExtends ==
    ASSUME HistoryInv, NEW s \in Spaces, CommitPublish(s)
    PROVE  /\ ChainAt(versions', ref') = Append(ChainAt(versions, ref), ref')
           /\ ref' \in 1 .. MaxVersions /\ ref' \notin Published(versions, ref)
           /\ head[s].base = ref
           /\ Published(versions', ref') = Published(versions, ref) \cup {ref'}
  <1>1. /\ WorkInv /\ VersionsFit(versions) /\ ref \in 0 .. Len(versions)
        /\ Len(versions) <= MaxVersions /\ Len(versions) \in Nat
    BY PlanOf DEF HistoryInv, WorkInv, VersionsFit
  <1>2. /\ pc[s] = "put" /\ plan[s].kind = "commit" /\ ref = plan[s].parent
        /\ ref' = plan[s].version /\ versions' = versions
    BY DEF CommitPublish, Goto
  <1>3. PlanFits(versions, plan[s], "put") /\ plan[s] \in Plans(Len(versions))
    BY <1>1, <1>2, PlanOf
  <1>4. /\ ref' \in 1 .. Len(versions) /\ versions[ref'].parent = ref
        /\ ref' \in 0 .. Len(versions) /\ ref' # NoVersion
    BY <1>1, <1>2, <1>3 DEF PlanFits, Plans, NoVersion
  <1>5. ref \in 0 .. ref' - 1
    BY <1>1, <1>4 DEF VersionsFit, OlderParents
  <1>6. ChainAt(versions, ref') = Append(ChainAt(versions, ref), ref')
    BY <1>1, <1>4, ChainOfVersion DEF VersionsFit
  <1>7. Published(versions, ref) \subseteq 1 .. ref /\ ChainAt(versions, ref) \in Seq(1 .. ref)
    BY <1>1, ChainEnds
  <1>8. ref' \notin Published(versions, ref)
    <2>1. \A l \in Nat : \A n \in 1 .. l : \A r \in 0 .. n - 1 : n \notin 1 .. r
      OBVIOUS
    <2>2. ref' \notin 1 .. ref
      BY <1>1, <1>4, <1>5, <2>1
    <2>3. QED
      BY <1>7, <2>2
  <1>9. head[s].base = ref
    BY <1>2 DEF HistoryInv, StandsInHistory
  <1>10. Published(versions, ref') = Published(versions, ref) \cup {ref'}
    BY <1>1, <1>4, PublishedOne DEF VersionsFit
  <1>11. ref' \in 1 .. MaxVersions
    BY <1>1, <1>4, BoundAssumption
  <1>12. QED
    BY <1>2, <1>6, <1>8, <1>9, <1>10, <1>11

(* The history only grows. *)
LEMMA PublishedStays ==
    ASSUME HistoryInv, WorkInv', NEW s \in Spaces, Moves(s)
    PROVE  Published(versions, ref) \subseteq Published(versions', ref')
  <1>1. WorkInv
    BY DEF HistoryInv
  <1>2. CASE CommitPublish(s)
    BY <1>2, PublishExtends
  <1>3. CASE ref' = ref
    <2>1. ChainAt(versions', ref) = ChainAt(versions, ref)
      BY <1>1, HistoryStays, PlanOf
    <2>2. QED
      BY <1>3, <2>1 DEF Published
  <1>4. ref' = ref \/ CommitPublish(s)
    BY FewMoveTheHistory DEF RecordHead, SyncSettle, CheckoutHead, store
  <1>5. QED
    BY <1>2, <1>3, <1>4

(* A checkout or a clear stays one. *)
LEMMA LeavingKeepsKind ==
    ASSUME WorkInv, NEW s \in Spaces, NEW kind \in {"checkout", "clear"}, NEW v,
           \/ Proceed(s, Leaving(kind, v))
           \/ LeaveClean(s, kind, v)
           \/ LeaveDirty(s, kind, v)
    PROVE  /\ plan'[s].kind = kind
           /\ pc'[s] \in {"write", "remove", "scanned"}
           /\ pc'[s] = "scanned" => plan'[s].manifest = tree[s]
  <1>1. pc \in [Spaces -> Places] /\ plan \in [Spaces -> Plans(Len(versions))]
    BY DEF WorkInv
  <1>2. Leaving(kind, v).kind = kind
    BY DEF Leaving, NoPlan
  <1>3. CASE Proceed(s, Leaving(kind, v)) \/ LeaveClean(s, kind, v)
    <2>1. Proceed(s, Leaving(kind, v))
      BY <1>3 DEF LeaveClean
    <2>2. CASE kind = "checkout"
      <3>1. plan'[s] = [Leaving(kind, v) EXCEPT
                            !.manifest = ManifestOf(Leaving(kind, v).target),
                            !.write = PathsOf(ManifestOf(Leaving(kind, v).target))]
        BY <1>1, <1>2, <2>1, <2>2 DEF Proceed
      <3>2. plan'[s].kind = kind
        BY <3>1 DEF Leaving, NoPlan
      <3>3. QED
        BY <1>1, <1>2, <2>1, <2>2, <3>2 DEF Proceed
    <2>3. CASE kind = "clear"
      <3>1. plan'[s] = [Leaving(kind, v) EXCEPT !.remove = PathsOf(tree[s])]
        BY <1>1, <1>2, <2>1, <2>3 DEF Proceed
      <3>2. plan'[s].kind = kind
        BY <3>1 DEF Leaving, NoPlan
      <3>3. QED
        BY <1>1, <1>2, <2>1, <2>3, <3>2 DEF Proceed
    <2>4. QED
      BY <2>2, <2>3
  <1>4. CASE LeaveDirty(s, kind, v)
    BY <1>1, <1>4 DEF LeaveDirty, Leaving, Start, Goto, NoPlan
  <1>5. QED
    BY <1>3, <1>4

(* What the space that moves knows of the history afterwards. *)
LEMMA MoverStandsInHistory ==
    ASSUME HistoryInv, WorkInv', NEW s \in Spaces, Moves(s)
    PROVE  StandsInHistory(versions', ref', plan'[s], pc'[s], head'[s].base)
  <1>1. /\ WorkInv /\ pc \in [Spaces -> Places] /\ plan \in [Spaces -> Plans(Len(versions))]
        /\ head \in [Spaces -> Heads(Len(versions))]
        /\ StandsInHistory(versions, ref, plan[s], pc[s], head[s].base)
        /\ PlanFits(versions, plan[s], pc[s]) /\ plan[s] \in Plans(Len(versions))
        /\ ref \in 0 .. Len(versions) /\ VersionsFit(versions)
    BY PlanOf DEF HistoryInv, WorkInv, LocalFits
  <1> DEFINE Idles == pc'[s] = "idle" /\ plan'[s] = NoPlan
             Leaves == plan'[s].kind \in {"checkout", "clear", "restore"}
             GoesOn == /\ plan'[s].kind = plan[s].kind /\ plan'[s].target = plan[s].target
                       /\ pc'[s] \notin {"put", "published"}
  <1>2. CASE Idles
    BY <1>2 DEF StandsInHistory, NoPlan
  <1>3. CASE Leaves
    BY <1>3 DEF StandsInHistory
  <1>4. CASE GoesOn
    BY <1>1, <1>4, PublishedStays DEF StandsInHistory
  <1>5. CASE \E p \in Paths, x \in Files \cup {Absent} : Edit(s, p, x)
    <2>1. /\ pc' = pc /\ plan' = plan /\ head' = head
      BY <1>5 DEF Edit
    <2>2. QED
      BY <1>1, <2>1, PublishedStays DEF StandsInHistory
  <1>6. CASE Abort(s) \/ WriteIsCut(s)
    BY <1>1, <1>2, <1>6 DEF Abort, WriteIsCut, Finish
  <1>7. CASE Command(s)
    <2>1. CASE \E kind \in {"commit", "snapshot"} : RecordScan(s, kind)
      <3>1. pc'[s] = "scanned" /\ plan'[s].kind # "sync"
        BY <1>1, <2>1 DEF RecordScan, Start, Goto, NoPlan
      <3>2. QED
        BY <3>1 DEF StandsInHistory
    <2>2. CASE SyncMerge(s)
      <3>1. pc'[s] = "write" /\ plan'[s].kind = "sync" /\ plan'[s].target = ref /\ ref # NoVersion
        BY <1>1, <2>2 DEF SyncMerge, Start, Goto, NoPlan
      <3>2. ref \in Published(versions, ref)
        BY <1>1, <3>1, ChainEnds
      <3>3. QED
        BY <3>1, <3>2, PublishedStays DEF StandsInHistory
    <2>3. ASSUME NEW kind \in {"checkout", "clear"}, NEW v,
                 LeaveClean(s, kind, v) \/ LeaveDirty(s, kind, v)
          PROVE  Leaves
      BY <1>1, <2>3, LeavingKeepsKind
    <2>4. CASE Restore(s)
      BY <1>1, <1>3, <2>4 DEF Restore, Start, Goto, NoPlan
    <2> HIDE DEF Leaves
    <2>5. QED
      BY <1>3, <1>7, <2>1, <2>2, <2>3, <2>4 DEF Command
  <1>8. CASE CommitParent(s)
    <2>1. plan'[s].kind = "commit" /\ pc'[s] = "put" /\ plan'[s].parent = ref /\ head' = head
          /\ head[s].base = ref
      BY <1>1, <1>8 DEF CommitParent, Goto, local, Plans
    <2>2. QED
      BY <2>1 DEF StandsInHistory
  <1>9. CASE SnapshotPut(s) \/ SnapshotPublish(s)
    <2>1. plan'[s].kind = plan[s].kind /\ plan[s].kind \notin {"commit", "sync"}
      BY <1>1, <1>9 DEF SnapshotPut, SnapshotPublish, Goto, PlanFits, Plans
    <2>2. QED
      BY <2>1 DEF StandsInHistory
  <1>10. CASE CommitPublish(s)
    <2>1. plan'[s].kind = "commit" /\ pc'[s] = "published" /\ plan'[s].version = ref'
      BY <1>1, <1>10 DEF CommitPublish, Goto
    <2>2. ref' \in Published(versions', ref')
      BY <1>10, PublishExtends
    <2>3. QED
      BY <2>1, <2>2 DEF StandsInHistory
  <1>11. CASE RecordHead(s) \/ SyncManifest(s) \/ CheckoutHead(s)
    <2>1. GoesOn
      BY <1>1, <1>11 DEF RecordHead, SyncManifest, CheckoutHead, Goto
    <2>2. QED
      BY <1>4, <2>1
  <1>12. CASE WriteFile(s) \/ FilesWritten(s) \/ RemoveFile(s)
    <2>1. GoesOn
      BY <1>1, <1>12 DEF WriteFile, FilesWritten, RemoveFile, Goto, Plans
    <2>2. QED
      BY <1>4, <2>1
  <1>13. CASE RecordManifest(s) \/ FilesRemoved(s)
    <2>1. GoesOn \/ Idles
      BY <1>1, <1>13 DEF RecordManifest, FilesRemoved, Goto, Finish
    <2>2. QED
      BY <1>2, <1>4, <2>1
  <1>14. CASE CommitBehind(s) \/ CommitConflict(s) \/ SyncSettle(s) \/ CheckoutManifest(s)
    BY <1>1, <1>2, <1>14 DEF CommitBehind, CommitConflict, SyncSettle, CheckoutManifest, Finish
  <1>15. CASE Recheck(s)
    <2>1. Idles \/ Leaves
      <3>1. plan[s].kind \in {"checkout", "clear"}
        BY <1>1, <1>15 DEF Recheck, PlanFits
      <3>2. QED
        BY <1>1, <1>15, <3>1, LeavingKeepsKind DEF Recheck, Finish
    <2>2. QED
      BY <1>2, <1>3, <2>1
  <1>16. QED
    BY <1>5, <1>6, <1>7, <1>8, <1>9, <1>10, <1>11, <1>12, <1>13, <1>14, <1>15 DEF Moves, Work

LEMMA HistoryInvInit == Init => HistoryInv
  <1>1. Init => \A s \in Spaces : StandsInHistory(versions, ref, plan[s], pc[s], head[s].base)
    BY DEF Init, StandsInHistory, NoPlan
  <1>2. QED
    BY <1>1, WorkInvInit DEF HistoryInv

LEMMA HistoryInvNext == HistoryInv /\ [Next]_vars => HistoryInv'
  <1> SUFFICES ASSUME HistoryInv, [Next]_vars PROVE HistoryInv'
    OBVIOUS
  <1>1. WorkInv /\ WorkInv'
    BY WorkInvNext DEF HistoryInv
  <1>2. CASE UNCHANGED vars
    BY <1>1, <1>2 DEF vars, store, local, HistoryInv
  <1>3. ASSUME NEW s \in Spaces, Moves(s), NEW t \in Spaces
        PROVE  StandsInHistory(versions', ref', plan'[t], pc'[t], head'[t].base)
    <2>1. CASE t = s
      BY <1>1, <1>3, <2>1, MoverStandsInHistory
    <2>2. CASE t # s
      <3>1. pc'[t] = pc[t] /\ plan'[t] = plan[t] /\ head'[t] = head[t]
        BY <1>1, <1>3, <2>2, OnlyItsOwn
      <3>2. Published(versions, ref) \subseteq Published(versions', ref')
        BY <1>1, <1>3, PublishedStays
      <3>3. QED
        BY <3>1, <3>2 DEF HistoryInv, StandsInHistory
    <2>3. QED
      BY <2>1, <2>2
  <1>4. ASSUME NEW v \in timeline, Expire(v) PROVE HistoryInv'
    BY <1>1, <1>4, ExpiryIsAll DEF HistoryInv
  <1>5. QED
    BY <1>1, <1>2, <1>3, <1>4, OneMoves DEF HistoryInv

------------------------------------------------------------------------------
(* The linear history                                                      *)

Bases(hd) == [s \in Spaces |-> hd[s].base]

LEMMA HistoryIs ==
    /\ History!hvars = <<ChainAt(versions, ref), Bases(head)>>
    /\ History!hvars' = <<ChainAt(versions', ref'), Bases(head')>>
    BY DEF History!hvars, Chain, ChainAt, IsChain, Bases

LEMMA MoverFollowsHistory ==
    ASSUME HistoryInv, WorkInv', "checkout" \notin Commands, NEW s \in Spaces, Moves(s)
    PROVE  History!Next \/ UNCHANGED History!hvars
  <1>1. /\ WorkInv /\ head \in [Spaces -> Heads(Len(versions))]
        /\ StandsInHistory(versions, ref, plan[s], pc[s], head[s].base)
        /\ PlanFits(versions, plan[s], pc[s]) /\ plan[s] \in Plans(Len(versions))
        /\ ref \in 0 .. Len(versions) /\ VersionsFit(versions)
    BY PlanOf DEF HistoryInv, WorkInv, LocalFits
  <1>2. ref' = ref => ChainAt(versions', ref') = ChainAt(versions, ref)
    BY <1>1, HistoryStays
  <1>3. /\ Chain(ref) = ChainAt(versions, ref) /\ Chain(ref)' = ChainAt(versions', ref')
    BY DEF Chain, ChainAt, IsChain
  <1>4. CASE CommitPublish(s)
    <2>1. Chain(ref)' = Append(Chain(ref), ref') /\ ref' \in 1 .. MaxVersions
          /\ ref' \notin History!ToSet(Chain(ref)) /\ head[s].base = ref /\ head' = head
      BY <1>3, <1>4, PublishExtends DEF Published, CommitPublish, local
    <2>2. ref = History!Tip
      BY <1>1, <1>3, ChainEnds DEF History!Tip
    <2>3. History!Publish(s, ref')
      BY <2>1, <2>2 DEF History!Publish
    <2>4. QED
      BY <2>1, <2>3 DEF History!Next
  <1>5. ASSUME NEW v \in Published(versions, ref), ref' = ref, NEW w, SetHead(s, w, v)
        PROVE  History!Adopt(s)
    <2>1. Bases(head') = [Bases(head) EXCEPT ![s] = v]
      BY <1>1, <1>5 DEF Bases, SetHead
    <2>2. QED
      BY <1>2, <1>3, <1>5, <2>1 DEF History!Adopt, Bases, Published
  <1>6. CASE SyncSettle(s)
    <2>1. /\ plan[s].target \in Published(versions, ref) /\ ref' = ref
          /\ SetHead(s, plan[s].target, plan[s].target)
      BY <1>1, <1>6 DEF SyncSettle, store, PlanFits, StandsInHistory
    <2>2. QED
      BY <1>5, <2>1 DEF History!Next
  <1>7. CASE RecordHead(s)
    <2>1. ref' = ref /\ pc[s] = "published"
      BY <1>7 DEF RecordHead, Goto, store
    <2>2. CASE plan[s].kind = "commit"
      <3>1. /\ plan[s].version \in Published(versions, ref)
            /\ SetHead(s, plan[s].version, plan[s].version)
        BY <1>1, <1>7, <2>1, <2>2 DEF RecordHead, StandsInHistory
      <3>2. QED
        BY <1>5, <2>1, <3>1 DEF History!Next
    <2>3. CASE plan[s].kind # "commit"
      <3>1. SetHead(s, plan[s].version, head[s].base)
        BY <1>7, <2>3 DEF RecordHead
      <3>2. Bases(head') = Bases(head)
        BY <1>1, <3>1 DEF Bases, SetHead
      <3>3. QED
        BY <1>2, <2>1, <3>2, HistoryIs
    <2>4. QED
      BY <2>2, <2>3
  <1>8. CASE head' = head /\ ref' = ref
    BY <1>2, <1>8, HistoryIs
  <1>9. ~CheckoutHead(s)
    BY <1>1 DEF CheckoutHead, Goto, PlanFits
  <1>10. QED
    BY <1>4, <1>6, <1>7, <1>8, <1>9, FewMoveTheHistory

LEMMA StartsTheHistory == Init => History!Init
  <1> SUFFICES ASSUME Init PROVE History!Init
    OBVIOUS
  <1>1. VersionsFit(versions) /\ ref = NoVersion /\ ref \in 0 .. Len(versions)
    BY VersionsFitEmpty DEF Init, NoVersion
  <1>2. Chain(ref) = <<>>
    BY <1>1, ChainIs, ChainEnds
  <1>3. QED
    BY <1>2 DEF Init, History!Init

(* Commits, snapshots and syncs of any number of spaces, cut short         *)
(* anywhere, keep one history: every version is published by a space that  *)
(* stood at its end, no published version is dropped or reordered, and     *)
(* every base is a published version (target.go: parentOf and advanceRef). *)
THEOREM KeepsALinearHistory ==
    ASSUME "checkout" \notin Commands
    PROVE  Spec => RefinesLinearHistory
  <1>1. HistoryInv /\ HistoryInv' /\ [Next]_vars => [History!Next]_(History!hvars)
    <2> SUFFICES ASSUME HistoryInv, HistoryInv', [Next]_vars
                 PROVE  History!Next \/ UNCHANGED History!hvars
      OBVIOUS
    <2>1. CASE UNCHANGED vars
      <3>1. versions' = versions /\ ref' = ref /\ head' = head
        BY <2>1 DEF vars, store, local
      <3>2. QED
        BY <3>1, HistoryIs
    <2>2. ASSUME NEW s \in Spaces, Moves(s)
          PROVE  History!Next \/ UNCHANGED History!hvars
      BY <2>2, MoverFollowsHistory DEF HistoryInv
    <2>3. ASSUME NEW v \in timeline, Expire(v) PROVE UNCHANGED History!hvars
      BY <2>3, ExpiryIsAll, HistoryIs
    <2>4. QED
      BY <2>1, <2>2, <2>3, OneMoves
  <1>2. QED
    BY <1>1, HistoryInvInit, HistoryInvNext, StartsTheHistory, PTL
       DEF Spec, RefinesLinearHistory, History!Spec

------------------------------------------------------------------------------
(* Nothing is reverted in silence                                          *)

(* The commands that merge, dying only where they leave no half of a sync  *)
(* and no ref ahead of its base behind; nobody saves a file meanwhile.     *)
Careful ==
    /\ Commands \subseteq {"commit", "snapshot", "sync", "expire"}
    /\ DiesIn \cap {"published", "write", "remove", "settle", "settled"} = {}
    /\ EditsAnyTime = FALSE

At(vs, v) == IF v = NoVersion THEN Empty ELSE vs[v].manifest

Agree(m, n, to) == \A p \in Paths \ to : m[p] = n[p]

(* Outside what its user touched the directory is its base, unless a sync  *)
(* is on its way to the target, or the head is a step behind a commit.     *)
NothingHidden(vs, pl, at, b, tr, to) ==
    /\ at \in {"idle", "scanned", "put", "headed"} => Agree(tr, At(vs, b), to)
    /\ at = "published" /\ pl.kind # "commit" => Agree(tr, At(vs, b), to)
    /\ at = "published" /\ pl.kind = "commit" => Agree(tr, pl.manifest, to)
    /\ at \in {"scanned", "put"} => pl.manifest = tr
    /\ at \in {"write", "remove", "settle", "settled"} =>
           /\ Agree(pl.manifest, At(vs, pl.target), to)
           /\ \A p \in Paths \ (pl.write \cup pl.remove) : tr[p] = pl.manifest[p]
           /\ \A p \in pl.remove : pl.manifest[p] = Absent
           /\ at # "write" => pl.write = {}
           /\ at \in {"settle", "settled"} => pl.remove = {}

RevertInv ==
    /\ HistoryInv
    /\ \A s \in Spaces :
          NothingHidden(versions, plan[s], pc[s], head[s].base, tree[s], touched[s])

LEMMA AtStays ==
    ASSUME WorkInv, NEW s \in Spaces, Moves(s), NEW v \in 0 .. Len(versions)
    PROVE  At(versions', v) = At(versions, v)
  <1>1. CASE versions' = versions
    BY <1>1
  <1>2. CASE \E e \in VersionRecord : versions' = Append(versions, e)
    <2>1. \A n \in 1 .. Len(versions) : versions'[n] = versions[n]
      BY <1>2, Appended DEF WorkInv, VersionsFit
    <2>2. QED
      BY <2>1, PlanOf DEF At, NoVersion
  <1>3. QED
    BY <1>1, <1>2, VersionsStayOrGrow

LEMMA AtIsManifest ==
    ASSUME WorkInv, NEW v \in 0 .. Len(versions)
    PROVE  At(versions, v) = ManifestOf(v) /\ At(versions, v) \in Manifests
    BY ManifestsFit DEF At, ManifestOf

(* What a sync starts from. *)
LEMMA MergeTakesTheirs ==
    ASSUME NEW base \in Manifests, NEW ours \in Manifests, NEW theirs \in Manifests,
           NEW to, Agree(ours, base, to)
    PROVE  LET merged == MergeOf(base, ours, theirs)
           IN  /\ Agree(merged, theirs, to)
               /\ \A p \in Paths \ (Incoming(ours, merged) \cup Outgoing(ours, merged)) :
                     ours[p] = merged[p]
               /\ \A p \in Outgoing(ours, merged) : merged[p] = Absent
  <1> DEFINE merged == MergeOf(base, ours, theirs)
  <1>1. merged \in Manifests
    BY MergeFits
  <1>2. ASSUME NEW p \in Paths \ to PROVE merged[p] = theirs[p]
    <2>1. merged[p] = Rule(base[p], ours[p], theirs[p]).file
      BY MergeAtPath
    <2>2. ours[p] = base[p]
      BY DEF Agree
    <2>3. QED
      BY <2>1, <2>2 DEF Rule, Outcome
  <1> HIDE DEF merged
  <1>3. DiffIsComplete(ours, merged) /\ Outgoing(ours, merged) \subseteq Paths
    BY <1>1, DiffCoversEveryPath, MergeFits
  <1>4. /\ \A p \in Paths \ (Incoming(ours, merged) \cup Outgoing(ours, merged)) :
              ours[p] = merged[p]
        /\ \A p \in Outgoing(ours, merged) : merged[p] = Absent
    BY <1>3 DEF DiffIsComplete
  <1>5. QED
    BY <1>2, <1>4 DEF Agree, merged

(* What the space that moves has left. *)
LEMMA MoverHidesNothing ==
    ASSUME RevertInv, WorkInv', Careful, NEW s \in Spaces, Moves(s)
    PROVE  NothingHidden(versions', plan'[s], pc'[s], head'[s].base, tree'[s], touched'[s])
  <1>1. /\ WorkInv /\ pc \in [Spaces -> Places] /\ plan \in [Spaces -> Plans(Len(versions))]
        /\ LocalFits(Len(versions), tree, head, checkedOut, touched)
        /\ NothingHidden(versions, plan[s], pc[s], head[s].base, tree[s], touched[s])
        /\ PlanFits(versions, plan[s], pc[s]) /\ plan[s] \in Plans(Len(versions))
        /\ head[s].base \in 0 .. Len(versions) /\ plan[s].target \in 0 .. Len(versions)
        /\ tree[s] \in Manifests
    BY PlanOf DEF RevertInv, HistoryInv, WorkInv, Heads, Plans
  <1>2. /\ plan[s].kind \in {"none", "commit", "snapshot", "sync"}
        /\ pc[s] \notin {"recheck", "point", "pointed"}
    BY <1>1 DEF PlanFits, Careful, Plans, Kinds
  <1>3. /\ At(versions', head[s].base) = At(versions, head[s].base)
        /\ At(versions', plan[s].target) = At(versions, plan[s].target)
    BY <1>1, AtStays
  <1>4. CASE \E p \in Paths, x \in Files \cup {Absent} : Edit(s, p, x)
    <2>1. PICK p \in Paths, x \in Files \cup {Absent} : Edit(s, p, x)
      BY <1>4
    <2>2. /\ pc[s] = "idle" /\ pc' = pc /\ head' = head /\ plan' = plan
          /\ tree' = [tree EXCEPT ![s][p] = x]
          /\ touched' = [touched EXCEPT ![s] = @ \cup {p}]
      <3>1. ~EditsAnyTime
        BY DEF Careful
      <3>2. pc[s] = "idle"
        BY <2>1, <3>1, Zenon DEF Edit
      <3>3. UNCHANGED <<pc, head, plan>>
        BY <2>1, Zenon DEF Edit
      <3>4. /\ tree' = [tree EXCEPT ![s][p] = x]
            /\ touched' = [touched EXCEPT ![s] = @ \cup {p}]
        BY <2>1, Zenon DEF Edit
      <3>5. QED
        BY <3>2, <3>3, <3>4
    <2>3. touched'[s] = touched[s] \cup {p}
      BY <1>1, <2>2 DEF LocalFits
    <2>4. \A q \in Paths \ {p} : tree'[s][q] = tree[s][q]
      BY <1>1, <2>2 DEF LocalFits, Manifests
    <2>5. QED
      BY <1>1, <1>3, <2>2, <2>3, <2>4 DEF NothingHidden, Agree
  <1>5. CASE Abort(s) \/ WriteIsCut(s)
    <2>1. ~WriteIsCut(s)
      BY DEF WriteIsCut, Careful
    <2>2. pc'[s] = "idle" /\ UNCHANGED <<head, tree, touched>> /\ pc[s] \in DiesIn
      BY <1>1, <1>5, <2>1 DEF Abort, Finish, local
    <2>3. pc[s] \in {"scanned", "put", "headed"}
      BY <1>2, <2>2, ScopeAssumption DEF Careful, Steps
    <2>4. QED
      BY <1>1, <1>3, <2>2, <2>3 DEF NothingHidden
  <1>6. CASE \E kind \in {"commit", "snapshot"} : RecordScan(s, kind)
    <2>1. /\ pc[s] = "idle" /\ pc'[s] = "scanned" /\ plan'[s].manifest = tree[s]
          /\ UNCHANGED <<head, tree, touched>>
      BY <1>1, <1>6 DEF RecordScan, Start, Goto, NoPlan, local
    <2>2. QED
      BY <1>1, <1>3, <2>1 DEF NothingHidden
  <1>7. CASE SyncMerge(s)
    <2> DEFINE base == ManifestOf(head[s].base)
               theirs == ManifestOf(ref)
               merged == MergeOf(base, tree[s], theirs)
    <2>1. /\ pc[s] = "idle" /\ pc'[s] = "write" /\ plan'[s].manifest = merged
          /\ plan'[s].target = ref /\ plan'[s].write = Incoming(tree[s], merged)
          /\ plan'[s].remove = Outgoing(tree[s], merged)
          /\ UNCHANGED <<head, tree, touched, versions>>
      BY <1>1, <1>7 DEF SyncMerge, Start, Goto, NoPlan, local, store
    <2>2. /\ base \in Manifests /\ theirs \in Manifests
          /\ At(versions, head[s].base) = base /\ At(versions, ref) = theirs
      BY <1>1, AtIsManifest, PlanOf
    <2>3. Agree(tree[s], base, touched[s])
      BY <1>1, <2>1, <2>2 DEF NothingHidden
    <2> HIDE DEF base, theirs
    <2>4. /\ Agree(merged, theirs, touched[s])
          /\ \A p \in Paths \ (Incoming(tree[s], merged) \cup Outgoing(tree[s], merged)) :
                tree[s][p] = merged[p]
          /\ \A p \in Outgoing(tree[s], merged) : merged[p] = Absent
      BY <1>1, <2>2, <2>3, MergeTakesTheirs
    <2> HIDE DEF merged
    <2>5. QED
      BY <2>1, <2>2, <2>4 DEF NothingHidden
  <1>8. CASE Command(s)
    <2>1. \A v : ~LeaveClean(s, "checkout", v) /\ ~LeaveDirty(s, "checkout", v)
                 /\ ~LeaveClean(s, "clear", v) /\ ~LeaveDirty(s, "clear", v) /\ ~Restore(s)
      BY DEF LeaveClean, LeaveDirty, Restore, Careful
    <2>2. QED
      BY <1>6, <1>7, <1>8, <2>1 DEF Command
  <1>9. CASE CommitParent(s) \/ SnapshotPut(s)
    <2>1. /\ pc[s] = "scanned" /\ pc'[s] = "put" /\ plan'[s].manifest = plan[s].manifest
          /\ UNCHANGED <<head, tree, touched>>
      BY <1>1, <1>9 DEF CommitParent, SnapshotPut, Goto, local, Plans
    <2>2. QED
      BY <1>1, <1>3, <2>1 DEF NothingHidden
  <1>10. CASE CommitBehind(s) \/ CommitConflict(s)
    <2>1. pc[s] \in {"scanned", "put"} /\ pc'[s] = "idle" /\ UNCHANGED <<head, tree, touched>>
      BY <1>1, <1>10 DEF CommitBehind, CommitConflict, Finish, local
    <2>2. QED
      BY <1>1, <1>3, <2>1 DEF NothingHidden
  <1>11. CASE CommitPublish(s)
    <2>1. /\ plan'[s] = plan[s] /\ plan[s].kind = "commit" /\ pc'[s] = "published"
          /\ touched'[s] = {p \in Paths : tree[s][p] # plan[s].manifest[p]} /\ tree' = tree
      BY <1>1, <1>11 DEF CommitPublish, Goto, local, LocalFits
    <2>2. QED
      BY <2>1 DEF NothingHidden, Agree
  <1>12. CASE SnapshotPublish(s)
    <2>1. /\ plan'[s] = plan[s] /\ plan[s].kind # "commit" /\ pc'[s] = "published"
          /\ pc[s] = "put" /\ UNCHANGED <<head, tree, touched>>
      BY <1>1, <1>12 DEF SnapshotPublish, Goto, local
    <2>2. QED
      BY <1>1, <1>3, <2>1 DEF NothingHidden
  <1>13. CASE RecordHead(s)
    <2>1. /\ pc[s] = "published" /\ pc'[s] = "headed" /\ UNCHANGED <<versions, tree, touched>>
          /\ head'[s].base = IF plan[s].kind = "commit" THEN plan[s].version ELSE head[s].base
      BY <1>1, <1>13 DEF RecordHead, Goto, SetHead, store, LocalFits
    <2>2. plan[s].kind = "commit" => At(versions, plan[s].version) = plan[s].manifest
      BY <1>1, <2>1 DEF PlanFits, At
    <2>3. QED
      BY <1>1, <2>1, <2>2 DEF NothingHidden
  <1>14. CASE RecordManifest(s)
    <2>1. pc[s] = "headed" /\ pc'[s] = "idle" /\ UNCHANGED <<head, tree, touched>>
      BY <1>1, <1>2, <1>14 DEF RecordManifest, Finish
    <2>2. QED
      BY <1>1, <1>3, <2>1 DEF NothingHidden
  <1>15. CASE WriteFile(s)
    <2>1. PICK p \in plan[s].write :
              /\ tree' = [tree EXCEPT ![s][p] = plan[s].manifest[p]]
              /\ plan' = [plan EXCEPT ![s].write = @ \ {p}]
      BY <1>15 DEF WriteFile
    <2>2. /\ pc[s] = "write" /\ pc' = pc /\ UNCHANGED <<versions, touched>>
      BY <1>15 DEF WriteFile, store
    <2>3. /\ plan'[s] = [plan[s] EXCEPT !.write = @ \ {p}]
          /\ tree'[s] = [tree[s] EXCEPT ![p] = plan[s].manifest[p]]
      BY <1>1, <2>1 DEF LocalFits
    <2>4. /\ plan'[s].manifest = plan[s].manifest /\ plan'[s].target = plan[s].target
          /\ plan'[s].write = plan[s].write \ {p} /\ plan'[s].remove = plan[s].remove
      BY <1>1, <2>3 DEF Plans
    <2>5. /\ tree'[s][p] = plan[s].manifest[p] /\ \A q \in Paths \ {p} : tree'[s][q] = tree[s][q]
      BY <1>1, <2>3 DEF Manifests, Plans
    <2>6. QED
      BY <1>1, <2>2, <2>4, <2>5 DEF NothingHidden
  <1>16. CASE RemoveFile(s)
    <2>1. PICK p \in plan[s].remove :
              /\ tree' = [tree EXCEPT ![s][p] = Absent]
              /\ plan' = [plan EXCEPT ![s].remove = @ \ {p}]
      BY <1>16 DEF RemoveFile
    <2>2. /\ pc[s] = "remove" /\ pc' = pc /\ UNCHANGED <<versions, touched>>
      BY <1>16 DEF RemoveFile, store
    <2>3. /\ plan'[s] = [plan[s] EXCEPT !.remove = @ \ {p}]
          /\ tree'[s] = [tree[s] EXCEPT ![p] = Absent]
      BY <1>1, <2>1 DEF LocalFits
    <2>4. /\ plan'[s].manifest = plan[s].manifest /\ plan'[s].target = plan[s].target
          /\ plan'[s].write = plan[s].write /\ plan'[s].remove = plan[s].remove \ {p}
      BY <1>1, <2>3 DEF Plans
    <2>5. /\ tree'[s][p] = Absent /\ \A q \in Paths \ {p} : tree'[s][q] = tree[s][q]
      BY <1>1, <2>3 DEF Manifests, Plans
    <2>6. QED
      BY <1>1, <2>2, <2>4, <2>5 DEF NothingHidden
  <1>17. CASE FilesWritten(s)
    <2>1. /\ pc[s] = "write" /\ pc'[s] = "remove" /\ UNCHANGED <<versions, tree, touched>>
          /\ plan[s].write = {} /\ plan[s].kind = "sync"
      BY <1>1, <1>2, <1>17 DEF FilesWritten, Goto, local, store, PlanFits
    <2>2. plan'[s] = plan[s]
      BY <1>1, <1>17, <2>1 DEF FilesWritten, Plans
    <2>3. QED
      BY <1>1, <2>1, <2>2 DEF NothingHidden
  <1>18. CASE FilesRemoved(s)
    <2>1. /\ pc[s] = "remove" /\ plan[s].remove = {} /\ plan[s].kind = "sync"
          /\ UNCHANGED <<versions, tree, touched>>
      BY <1>1, <1>2, <1>18 DEF FilesRemoved, local, store, PlanFits
    <2>2. plan'[s] = plan[s] /\ pc'[s] = "settle"
      BY <1>1, <1>18, <2>1 DEF FilesRemoved, Goto
    <2>3. QED
      BY <1>1, <2>1, <2>2 DEF NothingHidden
  <1>19. CASE SyncManifest(s)
    <2>1. /\ pc[s] = "settle" /\ pc'[s] = "settled" /\ UNCHANGED <<versions, tree, touched, plan>>
      BY <1>1, <1>19 DEF SyncManifest, Goto, store
    <2>2. QED
      BY <1>1, <2>1 DEF NothingHidden
  <1>20. CASE SyncSettle(s)
    <2>1. /\ pc[s] = "settled" /\ pc'[s] = "idle" /\ UNCHANGED <<versions, tree>>
          /\ touched'[s] = touched[s] \cup plan[s].conflicts
          /\ head'[s].base = plan[s].target
      BY <1>1, <1>20 DEF SyncSettle, Finish, SetHead, store, LocalFits
    <2>2. /\ Agree(plan[s].manifest, At(versions, plan[s].target), touched[s])
          /\ \A p \in Paths : tree[s][p] = plan[s].manifest[p]
      BY <1>1, <2>1 DEF NothingHidden
    <2>3. QED
      BY <2>1, <2>2 DEF NothingHidden, Agree
  <1>21. CASE Recheck(s) \/ CheckoutHead(s) \/ CheckoutManifest(s)
    BY <1>2, <1>21 DEF Recheck, CheckoutHead, CheckoutManifest, Goto
  <1>22. QED
    BY <1>4, <1>5, <1>8, <1>9, <1>10, <1>11, <1>12, <1>13, <1>14, <1>15, <1>16, <1>17, <1>18,
       <1>19, <1>20, <1>21 DEF Moves, Work

LEMMA RevertInvInit == Init => RevertInv
  <1> SUFFICES ASSUME Init PROVE RevertInv
    OBVIOUS
  <1>1. \A s \in Spaces : NothingHidden(versions, plan[s], pc[s], head[s].base, tree[s], touched[s])
    BY DEF Init, NothingHidden, Agree, At
  <1>2. QED
    BY <1>1, HistoryInvInit DEF RevertInv

LEMMA RevertInvNext ==
    ASSUME Careful
    PROVE  RevertInv /\ [Next]_vars => RevertInv'
  <1> SUFFICES ASSUME RevertInv, [Next]_vars PROVE RevertInv'
    OBVIOUS
  <1>1. HistoryInv /\ HistoryInv' /\ WorkInv /\ WorkInv'
    BY HistoryInvNext DEF RevertInv, HistoryInv
  <1>2. CASE UNCHANGED vars
    BY <1>1, <1>2 DEF vars, store, local, RevertInv
  <1>3. ASSUME NEW s \in Spaces, Moves(s), NEW t \in Spaces
        PROVE  NothingHidden(versions', plan'[t], pc'[t], head'[t].base, tree'[t], touched'[t])
    <2>1. CASE t = s
      BY <1>1, <1>3, <2>1, MoverHidesNothing
    <2>2. CASE t # s
      <3>1. /\ pc'[t] = pc[t] /\ plan'[t] = plan[t] /\ head'[t] = head[t]
            /\ tree'[t] = tree[t] /\ touched'[t] = touched[t]
        BY <1>1, <1>3, <2>2, OnlyItsOwn
      <3>2. head[t].base \in 0 .. Len(versions) /\ plan[t].target \in 0 .. Len(versions)
        BY <1>1, PlanOf DEF Heads, Plans
      <3>3. /\ At(versions', head[t].base) = At(versions, head[t].base)
            /\ At(versions', plan[t].target) = At(versions, plan[t].target)
        BY <1>1, <1>3, <3>2, AtStays
      <3>4. NothingHidden(versions, plan[t], pc[t], head[t].base, tree[t], touched[t])
        BY DEF RevertInv
      <3>5. QED
        BY <3>1, <3>3, <3>4 DEF NothingHidden
    <2>3. QED
      BY <2>1, <2>2
  <1>4. ASSUME NEW v \in timeline, Expire(v) PROVE RevertInv'
    BY <1>1, <1>4, ExpiryIsAll DEF RevertInv
  <1>5. QED
    BY <1>1, <1>2, <1>3, <1>4, OneMoves DEF RevertInv

(* Commits, snapshots and syncs of any number of spaces that die only in   *)
(* harmless places, and nobody saves a file while they run: a version that *)
(* becomes the ref differs from the one before it only where its user      *)
(* saved a file or was told of a conflict (target.go: the base must be the *)
(* ref; sync.go: the merge takes theirs everywhere else).                  *)
THEOREM RevertsNothingSilently ==
    ASSUME Careful
    PROVE  Spec => NothingRevertedSilently
  <1> DEFINE Says(s) == pc[s] = "put" /\ ref' # ref /\ plan[s].version = ref'
                        => {p \in Paths : ManifestOf(ref)[p] # versions'[ref'].manifest[p]}
                              \subseteq touched[s]
  <1>1. RevertInv /\ [Next]_vars => \A s \in Spaces : Says(s)
    <2> SUFFICES ASSUME RevertInv, [Next]_vars, NEW s \in Spaces, pc[s] = "put", ref' # ref,
                        plan[s].version = ref', NEW p \in Paths \ touched[s]
                 PROVE  ManifestOf(ref)[p] = versions'[ref'].manifest[p]
      OBVIOUS
    <2>1. PICK t \in Spaces : CommitPublish(t)
      <3>1. ~UNCHANGED vars
        BY DEF vars, store
      <3>2. PICK t \in Spaces : Moves(t)
        BY <3>1, OneMoves, ExpiryIsAll
      <3>3. CommitPublish(t)
        BY <3>2, FewMoveTheHistory DEF RecordHead, SyncSettle, CheckoutHead, store
      <3>4. QED
        BY <3>3
    <2>2. /\ WorkInv /\ PlanFits(versions, plan[t], pc[t]) /\ PlanFits(versions, plan[s], pc[s])
          /\ StandsInHistory(versions, ref, plan[s], pc[s], head[s].base)
          /\ NothingHidden(versions, plan[s], pc[s], head[s].base, tree[s], touched[s])
          /\ ref \in 0 .. Len(versions)
      BY PlanOf DEF RevertInv, HistoryInv, WorkInv
    <2>3. /\ pc[t] = "put" /\ plan[t].kind = "commit" /\ plan[t].version = ref'
          /\ plan[t].parent = ref /\ versions' = versions
      BY <2>1 DEF CommitPublish, Goto
    <2>4. ~versions[ref'].snapshot /\ versions[ref'].parent = ref
      BY <2>2, <2>3 DEF PlanFits
    <2>5. plan[s].kind = "commit" /\ versions[ref'].manifest = plan[s].manifest
          /\ versions[ref'].parent = plan[s].parent
      BY <2>2, <2>4 DEF PlanFits
    <2>6. head[s].base = ref
      BY <2>2, <2>4, <2>5 DEF StandsInHistory
    <2>7. plan[s].manifest[p] = At(versions, ref)[p]
      BY <2>2, <2>6 DEF NothingHidden, Agree
    <2>8. QED
      BY <2>2, <2>3, <2>5, <2>7, AtIsManifest
  <1>2. RevertInv /\ [Next]_vars => [\A s \in Spaces : Says(s)]_vars
    BY <1>1
  <1>3. QED
    BY <1>2, RevertInvInit, RevertInvNext, PTL DEF Spec, NothingRevertedSilently

------------------------------------------------------------------------------
(* Nothing unsaved is lost                                                 *)

Reached(vs, r, tl) == Published(vs, r) \cup tl

Kept(vs, r, tl) == UNION {{vs[v].manifest[p] : p \in Paths} : v \in Reached(vs, r, tl)}

Safe(kept) == {Absent, Torn} \cup kept

(* Bases and targets are reachable versions.  What a checkout or a clear   *)
(* is about to replace or delete is content that one of them has, what a   *)
(* sync is about to is the base's.                                         *)
Backed(vs, r, tl, pl, at, b, tr) ==
    /\ b \in Reached(vs, r, tl) \cup {NoVersion}
    /\ pl.kind = "checkout" => pl.target \in Reached(vs, r, tl)
    /\ pl.kind = "checkout" /\ at = "write" => pl.manifest = At(vs, pl.target)
    /\ pl.kind \in {"checkout", "clear"} /\ at \in {"write", "remove"} =>
           \A p \in Paths : tr[p] \in Safe(Kept(vs, r, tl))
    /\ pl.kind = "sync" /\ at \in {"write", "remove"} =>
           /\ \A p \in pl.write \cup pl.remove : tr[p] \in {At(vs, b)[p], Absent}
           /\ pl.write \cap pl.remove = {}

BackedInv ==
    /\ HistoryInv
    /\ \A s \in Spaces :
          Backed(versions, ref, timeline, plan[s], pc[s], head[s].base, tree[s])

LEMMA KeptIs ==
    ASSUME WorkInv
    PROVE  /\ Reachable = Reached(versions, ref, timeline)
           /\ FilesKept = Kept(versions, ref, timeline)
           /\ Reached(versions, ref, timeline) \subseteq 1 .. Len(versions)
  <1>1. Ancestry(ref) = Published(versions, ref)
    BY AncestryIs, PlanOf DEF WorkInv, RefFits
  <1>2. Reachable = Reached(versions, ref, timeline)
    BY <1>1 DEF Reachable, Reached
  <1>3. QED
    BY <1>2, ReachableFits DEF FilesKept, Kept, VersionIds

(* What is kept stays kept. *)
LEMMA KeptStays ==
    ASSUME HistoryInv, WorkInv', NEW s \in Spaces, Moves(s)
    PROVE  /\ Reached(versions, ref, timeline) \subseteq Reached(versions', ref', timeline')
           /\ Kept(versions, ref, timeline) \subseteq Kept(versions', ref', timeline')
  <1>1. WorkInv
    BY DEF HistoryInv
  <1>2. timeline \subseteq timeline'
    <2>1. CASE Command(s) \/ \E p \in Paths, x \in Files \cup {Absent} : Edit(s, p, x)
      BY <2>1 DEF Edit, Command, RecordScan, SyncMerge, LeaveClean, LeaveDirty, Restore, store
    <2>2. CASE Work(s) \/ Abort(s) \/ WriteIsCut(s)
      BY <2>2 DEF Work, CommitParent, CommitBehind, CommitPublish, CommitConflict, SnapshotPut,
         SnapshotPublish, RecordHead, RecordManifest, WriteFile, FilesWritten, RemoveFile,
         FilesRemoved, SyncManifest, SyncSettle, Recheck, CheckoutHead, CheckoutManifest,
         Abort, WriteIsCut, store
    <2>3. QED
      BY <2>1, <2>2 DEF Moves
  <1>3. Reached(versions, ref, timeline) \subseteq Reached(versions', ref', timeline')
    BY <1>2, PublishedStays DEF Reached
  <1>4. ASSUME NEW v \in Reached(versions, ref, timeline) PROVE versions'[v] = versions[v]
    <2>1. v \in 1 .. Len(versions)
      BY <1>1, KeptIs
    <2>2. CASE \E e \in VersionRecord : versions' = Append(versions, e)
      BY <1>1, <2>1, <2>2, Appended DEF WorkInv, VersionsFit
    <2>3. QED
      BY <1>1, <2>2, VersionsStayOrGrow
  <1>5. QED
    BY <1>3, <1>4 DEF Kept

(* A reachable version's files are kept. *)
LEMMA ReachedIsSafe ==
    ASSUME NEW v \in Reached(versions, ref, timeline) \cup {NoVersion}, NEW p \in Paths,
           NoVersion \notin Reached(versions, ref, timeline)
    PROVE  At(versions, v)[p] \in Safe(Kept(versions, ref, timeline))
  <1>1. CASE v = NoVersion
    BY <1>1 DEF At, Empty, Safe
  <1>2. CASE v \in Reached(versions, ref, timeline)
    BY <1>2 DEF At, Kept, Safe
  <1>3. QED
    BY <1>1, <1>2

(* A merge replaces a file only by theirs, and only if it is the base's. *)
LEMMA MergeReplacesBase ==
    ASSUME NEW base \in Manifests, NEW ours \in Manifests, NEW theirs \in Manifests,
           NEW p \in Incoming(ours, MergeOf(base, ours, theirs))
                         \cup Outgoing(ours, MergeOf(base, ours, theirs))
    PROVE  p \in Paths /\ ours[p] \in {base[p], Absent}
  <1> DEFINE merged == MergeOf(base, ours, theirs)
  <1>1. merged \in Manifests
    BY MergeFits
  <1>2. p \in Paths /\ ours[p] # merged[p]
    <2> HIDE DEF merged
    <2>1. p \in Appeared(ours, merged) \cup Changed(ours, merged) \cup Vanished(ours, merged)
      BY <1>1, IncomingIsNewOrChanged DEF merged
    <2>2. QED
      BY <2>1 DEF Appeared, Changed, Vanished, PathsOf
  <1>3. merged[p] = Rule(base[p], ours[p], theirs[p]).file
    BY <1>2, MergeAtPath
  <1>4. QED
    BY <1>2, <1>3 DEF Rule, Outcome

LEMMA MoverIsBacked ==
    ASSUME BackedInv, WorkInv', ~EditsAnyTime, NEW s \in Spaces, Moves(s)
    PROVE  Backed(versions', ref', timeline', plan'[s], pc'[s], head'[s].base, tree'[s])
  <1> DEFINE R == Reached(versions, ref, timeline)
             K == Kept(versions, ref, timeline)
             Rn == Reached(versions', ref', timeline')
             Kn == Kept(versions', ref', timeline')
  <1>1. /\ HistoryInv /\ WorkInv /\ pc \in [Spaces -> Places]
        /\ plan \in [Spaces -> Plans(Len(versions))]
        /\ LocalFits(Len(versions), tree, head, checkedOut, touched)
        /\ Backed(versions, ref, timeline, plan[s], pc[s], head[s].base, tree[s])
        /\ PlanFits(versions, plan[s], pc[s]) /\ plan[s] \in Plans(Len(versions))
        /\ head[s].base \in 0 .. Len(versions) /\ plan[s].target \in 0 .. Len(versions)
        /\ tree[s] \in Manifests
    BY PlanOf DEF BackedInv, HistoryInv, WorkInv, Heads, Plans
  <1>2. /\ R \subseteq Rn /\ K \subseteq Kn /\ R \subseteq 1 .. Len(versions)
        /\ Safe(K) \subseteq Safe(Kn) /\ Len(versions) \in Nat
    BY <1>1, KeptStays, KeptIs, PlanOf DEF Safe
  <1>3. /\ At(versions', plan[s].target) = At(versions, plan[s].target)
        /\ At(versions', head[s].base) = At(versions, head[s].base)
    BY <1>1, AtStays
  <1>4. head[s].base \in R \cup {NoVersion} /\ (plan[s].kind = "checkout" => plan[s].target \in R)
    BY <1>1 DEF Backed
  <1>5. NoVersion \notin R
    BY <1>2 DEF NoVersion
  <1> DEFINE Plain == /\ head'[s].base \in R \cup {NoVersion}
                      /\ plan'[s].kind \in {"none", "commit", "snapshot", "restore"}
             GoesOn == /\ head' = head /\ pc'[s] \notin {"write", "remove"}
                       /\ plan'[s].kind = plan[s].kind /\ plan'[s].target = plan[s].target
             Result == Backed(versions', ref', timeline', plan'[s], pc'[s], head'[s].base, tree'[s])
  <1>6. Plain => Result
    BY <1>2 DEF Backed
  <1>7. GoesOn => Result
    BY <1>1, <1>2 DEF Backed
  <1> HIDE DEF R, K, Rn, Kn
  <1>8. CASE \E p \in Paths, x \in Files \cup {Absent} : Edit(s, p, x)
    <2>1. PICK p \in Paths, x \in Files \cup {Absent} : Edit(s, p, x)
      BY <1>8
    <2>2. pc[s] = "idle"
      BY <2>1, Zenon DEF Edit
    <2>3. UNCHANGED <<pc, plan, head>>
      BY <2>1, Zenon DEF Edit
    <2>4. GoesOn
      BY <2>2, <2>3
    <2> HIDE DEF GoesOn
    <2>5. QED
      BY <1>7, <2>4
  <1>9. CASE Abort(s)
    <2>1. plan'[s] = NoPlan /\ head' = head
      BY <1>1, <1>9 DEF Abort, Finish, local
    <2>2. Plain
      BY <1>4, <2>1 DEF NoPlan
    <2> HIDE DEF Plain
    <2>3. QED
      BY <1>6, <2>2
  <1>10. CASE WriteIsCut(s)
    <2>1. plan'[s] = NoPlan /\ head' = head
      BY <1>1, <1>10 DEF WriteIsCut, Finish
    <2>2. Plain
      BY <1>4, <2>1 DEF NoPlan
    <2> HIDE DEF Plain
    <2>3. QED
      BY <1>6, <2>2
  <1>11. CASE \E kind \in {"commit", "snapshot"} : RecordScan(s, kind)
    <2>1. plan'[s].kind \in {"commit", "snapshot"} /\ head' = head
      BY <1>1, <1>11 DEF RecordScan, Start, Goto, NoPlan, local
    <2>2. Plain
      BY <1>4, <2>1
    <2> HIDE DEF Plain
    <2>3. QED
      BY <1>6, <2>2
  <1>12. CASE Restore(s)
    <2>1. plan'[s].kind = "restore" /\ head' = head
      BY <1>1, <1>12 DEF Restore, Start, Goto, NoPlan, local
    <2>2. Plain
      BY <1>4, <2>1
    <2> HIDE DEF Plain
    <2>3. QED
      BY <1>6, <2>2
  <1>13. CASE SyncMerge(s)
    <2> DEFINE base == ManifestOf(head[s].base)
               merged == MergeOf(base, tree[s], ManifestOf(ref))
    <2>1. /\ plan'[s].kind = "sync" /\ plan'[s].write = Incoming(tree[s], merged)
          /\ plan'[s].remove = Outgoing(tree[s], merged) /\ UNCHANGED <<head, tree>>
      BY <1>1, <1>13 DEF SyncMerge, Start, Goto, NoPlan, local
    <2>2. base \in Manifests /\ ManifestOf(ref) \in Manifests /\ At(versions, head[s].base) = base
      BY <1>1, AtIsManifest, PlanOf
    <2>3. merged \in Manifests
      BY <1>1, <2>2, MergeFits
    <2>4. Incoming(tree[s], merged) \cap Outgoing(tree[s], merged) = {}
      <3> HIDE DEF merged
      <3>1. QED
        BY <1>1, <2>3, DiffCoversEveryPath DEF DiffIsComplete
    <2>5. ASSUME NEW p \in Incoming(tree[s], merged) \cup Outgoing(tree[s], merged)
          PROVE  tree[s][p] \in {At(versions', head[s].base)[p], Absent}
      BY <1>1, <1>3, <2>2, <2>5, MergeReplacesBase
    <2> HIDE DEF merged, base
    <2>6. QED
      BY <1>2, <1>4, <2>1, <2>4, <2>5 DEF Backed, Rn
  <1>14. ASSUME NEW kind \in {"checkout", "clear"}, NEW v,
                kind = "checkout" => v \in R, Unversioned(s) = {}, Proceed(s, Leaving(kind, v)),
                UNCHANGED <<versions, head, tree>>
         PROVE  Result
    <2>1. \A p \in Paths : tree[s][p] \in Safe(K)
      BY <1>1, <1>14, KeptIs DEF Unversioned, PathsOf, Safe, K
    <2>2. plan'[s].kind = kind
      BY <1>1, <1>14, LeavingKeepsKind
    <2>3. kind = "checkout" => plan'[s].target = v /\ plan'[s].manifest = At(versions, v)
      <3>1. Leaving("checkout", v).kind = "checkout" /\ Leaving("checkout", v).target = v
        BY DEF Leaving, NoPlan
      <3>2. kind = "checkout" => plan'[s] = [Leaving("checkout", v) EXCEPT
                                                !.manifest = ManifestOf(v),
                                                !.write = PathsOf(ManifestOf(v))]
        BY <1>1, <1>14, <3>1 DEF Proceed
      <3>3. QED
        BY <3>2 DEF Leaving, NoPlan, At, ManifestOf
    <2>4. QED
      BY <1>2, <1>4, <1>14, <2>1, <2>2, <2>3 DEF Backed, Rn, Kn
  <1>15. ASSUME NEW kind \in {"checkout", "clear"}, NEW v, kind = "checkout" => v \in R,
                LeaveClean(s, kind, v)
         PROVE  Result
    <2>1. Unversioned(s) = {} /\ Proceed(s, Leaving(kind, v)) /\ UNCHANGED <<versions, head, tree>>
      BY <1>15 DEF LeaveClean, store, local
    <2>2. QED
      BY <1>14, <1>15, <2>1
  <1>16. ASSUME NEW kind \in {"checkout", "clear"}, NEW v, kind = "checkout" => v \in R,
                LeaveDirty(s, kind, v)
         PROVE  Result
    <2>1. /\ plan'[s].kind = kind /\ plan'[s].target = v /\ pc'[s] = "scanned" /\ head' = head
      BY <1>1, <1>16 DEF LeaveDirty, Leaving, Start, Goto, NoPlan, local
    <2>2. QED
      BY <1>2, <1>4, <1>16, <2>1 DEF Backed, Rn
  <1>17. CASE Command(s)
    <2>1. Reachable = R
      BY <1>1, KeptIs DEF R
    <2>2. QED
      BY <1>11, <1>12, <1>13, <1>15, <1>16, <1>17, <2>1 DEF Command
  <1>18. CASE CommitParent(s) \/ SnapshotPut(s)
    <2>1. GoesOn
      BY <1>1, <1>18 DEF CommitParent, SnapshotPut, Goto, local, Plans
    <2> HIDE DEF GoesOn
    <2>2. QED
      BY <1>7, <2>1
  <1>19. CASE CommitPublish(s) \/ SnapshotPublish(s) \/ SyncManifest(s)
    <2>1. GoesOn
      BY <1>1, <1>19 DEF CommitPublish, SnapshotPublish, SyncManifest, Goto, local
    <2> HIDE DEF GoesOn
    <2>2. QED
      BY <1>7, <2>1
  <1>20. CASE CommitBehind(s) \/ CommitConflict(s) \/ CheckoutManifest(s)
    <2>1. plan'[s] = NoPlan /\ head' = head
      BY <1>1, <1>20 DEF CommitBehind, CommitConflict, CheckoutManifest, Finish, local
    <2>2. Plain
      BY <1>4, <2>1 DEF NoPlan
    <2> HIDE DEF Plain
    <2>3. QED
      BY <1>6, <2>2
  <1>21. CASE RecordManifest(s)
    <2>1. head' = head /\ (GoesOn \/ plan'[s] = NoPlan)
      BY <1>1, <1>21 DEF RecordManifest, Finish
    <2>2. GoesOn \/ Plain
      BY <1>4, <2>1 DEF NoPlan
    <2> HIDE DEF GoesOn, Plain
    <2>3. QED
      BY <1>6, <1>7, <2>2
  <1>22. CASE RecordHead(s)
    <2>1. /\ pc[s] = "published" /\ pc'[s] = "headed" /\ plan'[s] = plan[s]
          /\ head'[s].base = IF plan[s].kind = "commit" THEN plan[s].version ELSE head[s].base
      BY <1>1, <1>22 DEF RecordHead, Goto, SetHead, LocalFits
    <2>2. plan[s].kind = "commit" => plan[s].version \in R
      BY <1>1, <2>1 DEF HistoryInv, StandsInHistory, R, Reached
    <2>3. QED
      BY <1>2, <1>4, <2>1, <2>2 DEF Backed, Rn
  <1>23. CASE SyncSettle(s)
    <2>1. plan'[s] = NoPlan /\ head'[s].base = plan[s].target /\ plan[s].kind = "sync"
      BY <1>1, <1>23 DEF SyncSettle, Finish, SetHead, LocalFits, PlanFits
    <2>2. plan[s].target \in R
      BY <1>1, <2>1 DEF HistoryInv, StandsInHistory, R, Reached
    <2>3. Plain
      BY <2>1, <2>2 DEF NoPlan
    <2> HIDE DEF Plain
    <2>4. QED
      BY <1>6, <2>3
  <1>24. CASE CheckoutHead(s)
    <2>1. /\ plan'[s] = plan[s] /\ head'[s].base = plan[s].target /\ pc'[s] = "pointed"
          /\ plan[s].kind = "checkout"
      BY <1>1, <1>24 DEF CheckoutHead, Goto, SetHead, LocalFits, PlanFits
    <2>2. QED
      BY <1>2, <1>4, <2>1 DEF Backed, Rn
  <1>25. CASE Recheck(s)
    <2>1. plan[s].kind \in {"checkout", "clear"}
      BY <1>1, <1>25 DEF Recheck, PlanFits
    <2>2. CASE Unversioned(s) = {}
      <3>1. /\ Proceed(s, Leaving(plan[s].kind, plan[s].target))
            /\ UNCHANGED <<versions, head, tree>>
        BY <1>25, <2>2 DEF Recheck, store, local
      <3>2. QED
        BY <1>4, <1>14, <2>1, <2>2, <3>1
    <2>3. CASE Unversioned(s) # {}
      <3>1. plan'[s] = NoPlan /\ head' = head
        BY <1>1, <1>25, <2>3 DEF Recheck, Finish, local
      <3>2. Plain
        BY <1>4, <3>1 DEF NoPlan
      <3> HIDE DEF Plain
      <3>3. QED
        BY <1>6, <3>2
    <2>4. QED
      BY <2>2, <2>3
  <1>26. CASE FilesRemoved(s)
    <2>1. head' = head /\ (GoesOn \/ plan'[s] = NoPlan)
      BY <1>1, <1>26 DEF FilesRemoved, Goto, Finish, local
    <2>2. GoesOn \/ Plain
      BY <1>4, <2>1 DEF NoPlan
    <2> HIDE DEF GoesOn, Plain
    <2>3. QED
      BY <1>6, <1>7, <2>2
  <1>27. CASE WriteFile(s)
    <2>1. PICK p \in plan[s].write :
              /\ tree' = [tree EXCEPT ![s][p] = plan[s].manifest[p]]
              /\ plan' = [plan EXCEPT ![s].write = @ \ {p}]
      BY <1>27 DEF WriteFile
    <2>2. /\ pc[s] = "write" /\ pc' = pc /\ head' = head /\ versions' = versions
      BY <1>27 DEF WriteFile, store
    <2>3. /\ plan'[s] = [plan[s] EXCEPT !.write = @ \ {p}]
          /\ tree'[s] = [tree[s] EXCEPT ![p] = plan[s].manifest[p]]
      BY <1>1, <2>1 DEF LocalFits
    <2>4. /\ plan'[s].kind = plan[s].kind /\ plan'[s].manifest = plan[s].manifest
          /\ plan'[s].target = plan[s].target /\ plan'[s].remove = plan[s].remove
          /\ plan'[s].write = plan[s].write \ {p} /\ p \in Paths
          /\ plan[s].write \subseteq Paths /\ plan[s].remove \subseteq Paths
      BY <1>1, <2>3 DEF Plans
    <2>5. /\ tree'[s][p] = plan[s].manifest[p] /\ \A q \in Paths \ {p} : tree'[s][q] = tree[s][q]
      BY <1>1, <2>3, <2>4 DEF Manifests
    <2>6. CASE plan[s].kind = "checkout"
      <3>1. /\ plan[s].manifest = At(versions, plan[s].target) /\ plan[s].target \in R
            /\ \A q \in Paths : tree[s][q] \in Safe(K)
        BY <1>1, <2>2, <2>6 DEF Backed, R, K
      <3>2. plan[s].manifest[p] \in Safe(K)
        BY <1>5, <2>4, <3>1, ReachedIsSafe DEF R, K
      <3>3. \A q \in Paths : tree'[s][q] \in Safe(Kn)
        BY <1>2, <2>5, <3>1, <3>2
      <3>4. QED
        BY <1>2, <1>4, <2>2, <2>4, <2>6, <3>1, <3>3 DEF Backed, Rn, Kn
    <2>7. CASE plan[s].kind = "sync"
      <3>1. /\ \A q \in plan[s].write \cup plan[s].remove :
                  tree[s][q] \in {At(versions, head[s].base)[q], Absent}
            /\ plan[s].write \cap plan[s].remove = {}
        BY <1>1, <2>2, <2>7 DEF Backed
      <3>2. \A q \in plan'[s].write \cup plan'[s].remove :
               tree'[s][q] \in {At(versions', head[s].base)[q], Absent}
        BY <1>3, <2>1, <2>4, <2>5, <3>1
      <3>3. QED
        BY <1>2, <1>4, <2>2, <2>4, <2>7, <3>1, <3>2 DEF Backed, Rn
    <2>8. CASE plan[s].kind = "restore"
      <3>1. Plain
        BY <1>4, <2>2, <2>4, <2>8
      <3> HIDE DEF Plain
      <3>2. QED
        BY <1>6, <3>1
    <2>9. QED
      BY <1>1, <2>2, <2>6, <2>7, <2>8 DEF PlanFits
  <1>28. CASE RemoveFile(s)
    <2>1. PICK p \in plan[s].remove :
              /\ tree' = [tree EXCEPT ![s][p] = Absent]
              /\ plan' = [plan EXCEPT ![s].remove = @ \ {p}]
      BY <1>28 DEF RemoveFile
    <2>2. /\ pc[s] = "remove" /\ pc' = pc /\ head' = head
      BY <1>28 DEF RemoveFile
    <2>3. /\ plan'[s] = [plan[s] EXCEPT !.remove = @ \ {p}]
          /\ tree'[s] = [tree[s] EXCEPT ![p] = Absent]
      BY <1>1, <2>1 DEF LocalFits
    <2>4. /\ plan'[s].kind = plan[s].kind /\ plan'[s].target = plan[s].target
          /\ plan'[s].write = plan[s].write /\ plan'[s].remove = plan[s].remove \ {p}
          /\ p \in Paths /\ plan[s].write \subseteq Paths /\ plan[s].remove \subseteq Paths
      BY <1>1, <2>1, <2>3 DEF Plans
    <2>5. \A q \in Paths : tree'[s][q] \in {tree[s][q], Absent}
      BY <1>1, <2>3, <2>4 DEF Manifests
    <2>6. Absent \in Safe(Kn)
      BY DEF Safe
    <2>7. QED
      BY <1>1, <1>2, <1>3, <1>4, <2>2, <2>4, <2>5, <2>6 DEF Backed, Rn, Kn, R, K
  <1>29. CASE FilesWritten(s)
    <2>1. /\ pc[s] = "write" /\ pc'[s] = "remove" /\ UNCHANGED <<head, tree>>
          /\ plan[s].write = {}
      BY <1>1, <1>29 DEF FilesWritten, Goto, local
    <2>2. /\ plan'[s].kind = plan[s].kind /\ plan'[s].target = plan[s].target
          /\ plan'[s].write = {} /\ (plan[s].kind # "checkout" => plan'[s].remove = plan[s].remove)
      BY <1>1, <1>29, <2>1 DEF FilesWritten, Plans
    <2>3. QED
      BY <1>1, <1>2, <1>3, <1>4, <2>1, <2>2 DEF Backed, Rn, Kn, R, K
  <1>30. QED
    BY <1>8, <1>9, <1>10, <1>17, <1>18, <1>19, <1>20, <1>21, <1>22, <1>23, <1>24, <1>25, <1>26,
       <1>27, <1>28, <1>29 DEF Moves, Work

LEMMA BackedInvInit == Init => BackedInv
  <1> SUFFICES ASSUME Init PROVE BackedInv
    OBVIOUS
  <1>1. \A s \in Spaces : Backed(versions, ref, timeline, plan[s], pc[s], head[s].base, tree[s])
    BY DEF Init, Backed, NoPlan
  <1>2. QED
    BY <1>1, HistoryInvInit DEF BackedInv

LEMMA BackedInvNext ==
    ASSUME ~EditsAnyTime
    PROVE  BackedInv /\ [Next /\ NothingExpiresInUse]_vars => BackedInv'
  <1> SUFFICES ASSUME BackedInv, [Next /\ NothingExpiresInUse]_vars PROVE BackedInv'
    OBVIOUS
  <1>1. HistoryInv /\ HistoryInv' /\ WorkInv /\ WorkInv'
    BY HistoryInvNext DEF BackedInv, HistoryInv
  <1>2. CASE UNCHANGED vars
    BY <1>1, <1>2 DEF vars, store, local, BackedInv
  <1>3. ASSUME NEW s \in Spaces, Moves(s), NEW t \in Spaces
        PROVE  Backed(versions', ref', timeline', plan'[t], pc'[t], head'[t].base, tree'[t])
    <2>1. CASE t = s
      BY <1>1, <1>3, <2>1, MoverIsBacked
    <2>2. CASE t # s
      <3>1. /\ pc'[t] = pc[t] /\ plan'[t] = plan[t] /\ head'[t] = head[t] /\ tree'[t] = tree[t]
        BY <1>1, <1>3, <2>2, OnlyItsOwn
      <3>2. /\ At(versions', plan[t].target) = At(versions, plan[t].target)
            /\ At(versions', head[t].base) = At(versions, head[t].base)
        BY <1>1, <1>3, AtStays, PlanOf DEF Plans, Heads
      <3>3. /\ Reached(versions, ref, timeline) \subseteq Reached(versions', ref', timeline')
            /\ Safe(Kept(versions, ref, timeline)) \subseteq Safe(Kept(versions', ref', timeline'))
        BY <1>1, <1>3, KeptStays DEF Safe
      <3>4. Backed(versions, ref, timeline, plan[t], pc[t], head[t].base, tree[t])
        BY DEF BackedInv
      <3>5. QED
        BY <3>1, <3>2, <3>3, <3>4 DEF Backed
    <2>3. QED
      BY <2>1, <2>2
  <1>4. ASSUME NEW v \in timeline, Expire(v), NothingExpiresInUse, NEW t \in Spaces
        PROVE  Backed(versions', ref', timeline', plan'[t], pc'[t], head'[t].base, tree'[t])
    <2>1. /\ UNCHANGED <<versions, ref, tree, head, pc, plan>> /\ timeline' = timeline \ {v}
          /\ head[t].base # v /\ plan[t].kind \notin {"checkout", "clear"}
      BY <1>4, ExpiryIsAll DEF Expire, NothingExpiresInUse
    <2>2. Backed(versions, ref, timeline, plan[t], pc[t], head[t].base, tree[t])
      BY DEF BackedInv
    <2>3. QED
      BY <2>1, <2>2 DEF Backed, Reached
  <1>5. QED
    BY <1>1, <1>2, <1>3, <1>4, OneMoves DEF BackedInv

(* The only steps that change a file on a command's behalf. *)
LEMMA CommandsReplace ==
    ASSUME WorkInv, NEW s \in Spaces, Moves(s), <<pc, plan>>' # <<pc, plan>>,
           NEW p \in Paths, tree'[s][p] # tree[s][p]
    PROVE  \/ pc[s] = "write" /\ p \in plan[s].write
           \/ pc[s] = "remove" /\ p \in plan[s].remove
  <1>1. tree \in [Spaces -> Manifests] /\ tree[s] \in Manifests
    BY DEF WorkInv, LocalFits
  <1>2. CASE \E q \in Paths, x \in Files \cup {Absent} : Edit(s, q, x)
    BY <1>2 DEF Edit
  <1>3. CASE Command(s) \/ Abort(s)
    BY <1>3 DEF Command, RecordScan, SyncMerge, LeaveClean, LeaveDirty, Restore, Abort, local
  <1>4. CASE WriteFile(s)
    BY <1>1, <1>4 DEF WriteFile, Manifests
  <1>5. CASE RemoveFile(s)
    BY <1>1, <1>5 DEF RemoveFile, Manifests
  <1>6. CASE WriteIsCut(s)
    BY <1>1, <1>6 DEF WriteIsCut, Manifests
  <1>7. CASE Work(s) /\ ~WriteFile(s) /\ ~RemoveFile(s)
    BY <1>7 DEF Work, CommitParent, CommitBehind, CommitPublish, CommitConflict, SnapshotPut,
       SnapshotPublish, RecordHead, RecordManifest, FilesWritten, FilesRemoved, SyncManifest,
       SyncSettle, Recheck, CheckoutHead, CheckoutManifest, local
  <1>8. QED
    BY <1>2, <1>3, <1>4, <1>5, <1>6, <1>7 DEF Moves

(* Whatever commands any number of spaces run, wherever they die and       *)
(* whatever expires meanwhile: no sync, checkout or clear replaces or      *)
(* deletes a file that no reachable version has, as long as nobody saves a *)
(* file while they run, no snapshot expires that is a space's base, and    *)
(* none does beside a checkout or a clear (dirty.go: everything about to   *)
(* disappear is recoverable; sync.go: a merge writes only over what the    *)
(* base has).                                                              *)
THEOREM LosesNothingUnsaved ==
    ASSUME ~EditsAnyTime
    PROVE  CarefulSpec => NothingUnsavedIsLost
  <1> DEFINE Keeps == <<pc, plan>>' # <<pc, plan>>
                        => \A s \in Spaces, p \in Paths :
                              /\ tree[s][p] \notin {Absent, Torn} \cup FilesKept
                              /\ plan[s].kind # "restore"
                              => tree'[s][p] = tree[s][p]
  <1>1. BackedInv /\ [Next /\ NothingExpiresInUse]_vars => Keeps
    <2> SUFFICES ASSUME BackedInv, [Next /\ NothingExpiresInUse]_vars, <<pc, plan>>' # <<pc, plan>>,
                        NEW s \in Spaces, NEW p \in Paths,
                        tree[s][p] \notin {Absent, Torn} \cup FilesKept,
                        plan[s].kind # "restore", tree'[s][p] # tree[s][p]
                 PROVE  FALSE
      OBVIOUS
    <2>1. WorkInv /\ ~UNCHANGED vars
      BY DEF BackedInv, HistoryInv, vars
    <2>2. PICK t \in Spaces : Moves(t)
      BY <2>1, OneMoves, ExpiryIsAll
    <2>3. t = s
      BY <2>1, <2>2, OnlyItsOwn
    <2>4. \/ pc[s] = "write" /\ p \in plan[s].write
          \/ pc[s] = "remove" /\ p \in plan[s].remove
      BY <2>1, <2>2, <2>3, CommandsReplace
    <2>5. tree[s][p] \notin Safe(Kept(versions, ref, timeline))
      BY <2>1, KeptIs DEF Safe
    <2>6. /\ PlanFits(versions, plan[s], pc[s])
          /\ Backed(versions, ref, timeline, plan[s], pc[s], head[s].base, tree[s])
      BY <2>1, PlanOf DEF BackedInv
    <2>7. plan[s].kind \in {"sync", "checkout", "clear"}
      BY <2>4, <2>6 DEF PlanFits
    <2>8. plan[s].kind = "sync" /\ tree[s][p] = At(versions, head[s].base)[p]
      <3>1. tree[s][p] # Absent
        BY <2>1
      <3>2. QED
        BY <2>4, <2>5, <2>6, <2>7, <3>1 DEF Backed
    <2>9. head[s].base \in Reached(versions, ref, timeline) \cup {NoVersion}
      BY <2>6 DEF Backed
    <2>10. NoVersion \notin Reached(versions, ref, timeline)
      BY <2>1, KeptIs DEF NoVersion
    <2>11. QED
      BY <2>5, <2>8, <2>9, <2>10, ReachedIsSafe
  <1>2. BackedInv /\ [Next /\ NothingExpiresInUse]_vars => [Keeps]_vars
    BY <1>1
  <1>3. QED
    BY <1>2, BackedInvInit, BackedInvNext, PTL DEF CarefulSpec, NothingUnsavedIsLost

==============================================================================

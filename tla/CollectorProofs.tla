---------------------------- MODULE CollectorProofs ----------------------------
(***************************************************************************)
(* Garbage collection for any number of spaces, files and versions: type   *)
(* correctness of every behaviour, and under CarefulSpec the two promises  *)
(* of the collector, that what a ref reaches and what a running command    *)
(* has put stays in the store.                                             *)
(***************************************************************************)
EXTENDS Collector, SequenceTheorems, TLAPS

------------------------------------------------------------------------------
(* What the walk from the refs meets                                       *)

(* The roots are met. *)
LEMMA RootsAreReachable ==
    ASSUME Roots \subseteq VersionIds
    PROVE  Roots \subseteq Reachable
    BY DEF Reachable

(* A set of versions that has the roots and is closed under parents has    *)
(* everything that is met: this is how a step is shown to reach nothing    *)
(* new.                                                                    *)
LEMMA ReachableIsLeast ==
    ASSUME NEW C \in SUBSET VersionIds, Roots \subseteq C,
           \A w \in C : versions[w].parent \in C \cup {NoVersion}
    PROVE  Reachable \subseteq C
    BY DEF Reachable

LEMMA ReachableIsLeastNext ==
    ASSUME NEW C, C \subseteq VersionIds', Roots' \subseteq C,
           \A w \in C : versions'[w].parent \in C \cup {NoVersion}
    PROVE  Reachable' \subseteq C
    BY DEF Reachable

(* What is met is itself closed under parents. *)
LEMMA ParentsAreReachable ==
    ASSUME NEW v \in Reachable, versions[v].parent \in VersionIds
    PROVE  versions[v].parent \in Reachable
  <1> DEFINE u == versions[v].parent
  <1>1. SUFFICES ASSUME NEW met \in SUBSET (VersionIds \ {u}), Roots \subseteq met,
                        \A w \in met : versions[w].parent \in met \cup {NoVersion}
                 PROVE  FALSE
    BY DEF Reachable
  <1>2. v \notin met
    BY <1>1 DEF VersionIds, NoVersion
  <1>3. met \in SUBSET (VersionIds \ {v})
    BY <1>2
  <1>4. QED
    BY <1>1, <1>3 DEF Reachable

------------------------------------------------------------------------------
(* Types                                                                   *)

(* The jobs there can be when the versions are those of ids. *)
Jobs(ids) ==
    [kind : {"none"} \cup Kinds, file : Files \cup {{}},
     todo : SUBSET Keys, sent : SUBSET Keys, version : {NoVersion} \cup ids,
     doomed : SUBSET Keys, drop : SUBSET ids]

(* What the types alone do not say and the steps need: a version object    *)
(* exists before its key is used and after its parent, and a command has   *)
(* what its next steps work on.                                            *)
Fits ==
    /\ store \cap VersionKeys \subseteq {<<"version", v>> : v \in VersionIds}
    /\ \A v \in VersionIds : versions[v].parent \in {NoVersion} \cup VersionIds
    /\ \A s \in Spaces :
          /\ job[s].todo \cap VersionKeys = {}
          /\ pc[s] \in {"upload", "publish"} => job[s].file \in Files
          /\ pc[s] = "upload" =>
                 /\ job[s].kind \in {"commit", "snapshot", "sync", "promote"}
                 /\ job[s].kind = "sync" => job[s].version \in VersionIds
                 /\ job[s].kind = "promote" => job[s].todo = {}
          /\ pc[s] = "publish" =>
                 /\ job[s].kind \in {"commit", "snapshot", "promote"}
                 /\ job[s].version \in VersionIds /\ job[s].todo = {}

TypeInv == TypeOK /\ Fits

LEMMA TypeInvInit == Init => TypeInv
    BY BoundAssumption DEF Init, TypeInv, TypeOK, Fits, NoJob, VersionIds, Kinds

(* The keys of a file are keys of objects. *)
LEMMA KeysOfFiles ==
    ASSUME NEW x \in Files
    PROVE  KeysOf(x) \subseteq Keys \ VersionKeys
    BY DEF KeysOf, Keys, FileKeys, ChunkKeys, VersionKeys

(* What a put does to the jobs: the one that puts goes on, the others lose *)
(* at most something that is doomed.                                       *)
LEMMA PutObjectEffect ==
    ASSUME NEW s \in Spaces, NEW k, NEW next, NEW ids, next \in Jobs(ids),
           job \in [Spaces -> Jobs(ids)], PutObject(s, k, next)
    PROVE  /\ job' \in [Spaces -> Jobs(ids)]
           /\ \A t \in Spaces :
                 LET j == IF t = s THEN next ELSE job[t]
                 IN  /\ job'[t].kind = j.kind /\ job'[t].file = j.file
                     /\ job'[t].todo = j.todo /\ job'[t].sent = j.sent
                     /\ job'[t].version = j.version /\ job'[t].drop = j.drop
                     /\ job'[t].doomed \subseteq j.doomed
                     /\ pc[t] = "marked" => k \notin job'[t].doomed
  <1> DEFINE j(t) == IF t = s THEN next ELSE job[t]
  <1>1. \A t \in Spaces : j(t) \in Jobs(ids) /\ job'[t] = Sighted(t, [job EXCEPT ![s] = next], k)
    BY DEF PutObject
  <1>2. \A t \in Spaces : [job EXCEPT ![s] = next][t] = j(t)
    OBVIOUS
  <1>3. \A t \in Spaces :
           job'[t] = IF pc[t] = "marked" THEN [j(t) EXCEPT !.doomed = @ \ {k}] ELSE j(t)
    BY <1>1, <1>2 DEF Sighted
  <1>4. \A r \in Jobs(ids) : [r EXCEPT !.doomed = @ \ {k}] \in Jobs(ids)
    BY DEF Jobs
  <1>5. \A t \in Spaces : job'[t] \in Jobs(ids)
    BY <1>1, <1>3, <1>4
  <1>6. job' \in [Spaces -> Jobs(ids)]
    BY <1>5 DEF PutObject
  <1>7. QED
    BY <1>1, <1>3, <1>6 DEF Jobs

(* A job that is typed and fits what the command does next.                *)
JobFits(ids, j, at) ==
    /\ j \in Jobs(ids)
    /\ j.doomed \cap VersionKeys \subseteq {<<"version", v>> : v \in ids}
    /\ j.todo \cap j.sent = {} /\ j.todo \cap VersionKeys = {}
    /\ at \in {"upload", "publish"} => j.file \in Files
    /\ at = "upload" =>
           /\ j.kind \in {"commit", "snapshot", "sync", "promote"}
           /\ j.kind = "sync" => j.version \in ids
           /\ j.kind = "promote" => j.todo = {}
    /\ at = "publish" =>
           /\ j.kind \in {"commit", "snapshot", "promote"}
           /\ j.version \in ids /\ j.todo = {}

LEMMA NoJobFits == JobFits(VersionIds, NoJob, "idle")
    BY DEF JobFits, Jobs, NoJob

LEMMA JobsFit == TypeInv => \A s \in Spaces : JobFits(VersionIds, job[s], pc[s])
    BY DEF TypeInv, TypeOK, Fits, JobFits, Jobs

(* The steps of one space that leave the versions alone and put nothing. *)
LEMMA TypeInvQuiet ==
    ASSUME TypeInv, UNCHANGED versions,
           store' \subseteq store, old' \subseteq store',
           main' \in {NoVersion} \cup VersionIds,
           timeline' \cup promoted' \subseteq VersionIds,
           tree' \in [Spaces -> Files], cached' \in [Spaces -> BOOLEAN],
           base' \in [Spaces -> {NoVersion} \cup VersionIds],
           NEW s \in Spaces, NEW j, NEW at \in {"idle"} \cup Steps, JobFits(VersionIds, j, at),
           pc' = [pc EXCEPT ![s] = at], job' = [job EXCEPT ![s] = j]
    PROVE  TypeInv'
  <1>1. VersionIds' = VersionIds
    BY DEF VersionIds
  <1>2. \A t \in Spaces : JobFits(VersionIds, job'[t], pc'[t])
    BY JobsFit DEF TypeInv, TypeOK
  <1>3. job' \in [Spaces -> Jobs(VersionIds)] /\ pc' \in [Spaces -> {"idle"} \cup Steps]
    BY <1>2 DEF TypeInv, TypeOK, JobFits, Jobs
  <1>4. TypeOK'
    BY <1>1, <1>2, <1>3 DEF TypeInv, TypeOK, JobFits, Jobs
  <1>5. Fits'
    BY <1>1, <1>2 DEF TypeInv, Fits, JobFits
  <1>6. QED
    BY <1>4, <1>5 DEF TypeInv

(* A command that begins, stops or is through. *)
LEMMA TypeInvStart ==
    ASSUME TypeInv, UNCHANGED <<objects, refs, local>>, NEW s \in Spaces,
           NEW j, NEW at \in {"idle"} \cup Steps, JobFits(VersionIds, j, at),
           pc' = [pc EXCEPT ![s] = at], job' = [job EXCEPT ![s] = j]
    PROVE  TypeInv'
    BY TypeInvQuiet DEF TypeInv, TypeOK, objects, refs, local, VersionIds

LEMMA TypeInvUpload ==
    ASSUME TypeInv, NEW s \in Spaces, NEW k \in job[s].todo, Upload(s, k)
    PROVE  TypeInv'
  <1> DEFINE next == [job[s] EXCEPT !.todo = @ \ {k}, !.sent = @ \cup {k}]
  <1>1. /\ VersionIds' = VersionIds /\ Jobs(VersionIds') = Jobs(VersionIds)
        /\ JobFits(VersionIds, job[s], "upload") /\ job \in [Spaces -> Jobs(VersionIds)]
        /\ k \in Keys \ VersionKeys
    BY JobsFit DEF Upload, VersionIds, Jobs, JobFits, TypeInv, TypeOK
  <1>2. JobFits(VersionIds, next, "upload") /\ next \in Jobs(VersionIds')
    BY <1>1 DEF JobFits, Jobs
  <1>3. /\ job' \in [Spaces -> Jobs(VersionIds)]
        /\ \A t \in Spaces : JobFits(VersionIds, job'[t], pc'[t])
    <2>1. PutObject(s, k, next) /\ UNCHANGED pc /\ pc[s] = "upload"
      BY DEF Upload
    <2> HIDE DEF next
    <2>2. /\ job' \in [Spaces -> Jobs(VersionIds')]
          /\ \A t \in Spaces :
                LET j == IF t = s THEN next ELSE job[t]
                IN  /\ job'[t].kind = j.kind /\ job'[t].file = j.file
                    /\ job'[t].todo = j.todo /\ job'[t].sent = j.sent
                    /\ job'[t].version = j.version /\ job'[t].drop = j.drop
                    /\ job'[t].doomed \subseteq j.doomed
      BY <1>1, <1>2, <2>1, PutObjectEffect
    <2>3. \A t \in Spaces : JobFits(VersionIds, job'[t], pc'[t])
      BY <1>1, <1>2, <2>1, <2>2, JobsFit DEF JobFits, TypeInv, TypeOK
    <2>4. QED
      BY <1>1, <2>2, <2>3
  <1>4. TypeOK'
    BY <1>1, <1>3 DEF TypeInv, TypeOK, JobFits, Jobs, Upload, PutObject, refs, local
  <1>5. Fits'
    BY <1>1, <1>3 DEF TypeInv, Fits, JobFits, Upload, PutObject
  <1>6. QED
    BY <1>4, <1>5 DEF TypeInv

(* A version more: what was typed before still is. *)
LEMMA TypeInvPutVersion ==
    ASSUME TypeInv, NEW s \in Spaces, NEW parent \in {NoVersion} \cup VersionIds,
           NEW snapshot \in BOOLEAN, PutVersion(s, parent, snapshot),
           Goto(s, "upload", "publish"), UNCHANGED <<refs, local>>,
           job[s].kind \in {"commit", "snapshot", "promote"}, job[s].todo = {}
    PROVE  TypeInv'
  <1> DEFINE v == Len(versions) + 1
             k == <<"version", v>>
             next == [job[s] EXCEPT !.version = v, !.sent = @ \cup {k}]
  <1>1. /\ VersionIds' = VersionIds \cup {v} /\ v \in 1 .. MaxVersions
        /\ Len(versions') = v /\ v \notin VersionIds
        /\ versions' \in Seq([file : Files, parent : 0 .. MaxVersions, snapshot : BOOLEAN])
        /\ versions'[v].parent = parent
        /\ \A w \in VersionIds : versions'[w] = versions[w]
    <2>1. job[s].file \in Files /\ parent \in 0 .. MaxVersions
      BY BoundAssumption DEF TypeInv, TypeOK, Fits, VersionIds, NoVersion, Goto
    <2>2. [file |-> job[s].file, parent |-> parent, snapshot |-> snapshot]
             \in [file : Files, parent : 0 .. MaxVersions, snapshot : BOOLEAN]
      BY <2>1
    <2>3. QED
      BY <2>2, BoundAssumption DEF PutVersion, TypeInv, TypeOK, VersionIds
  <1>2. /\ k \in VersionKeys /\ k \in Keys
        /\ Jobs(VersionIds) \subseteq Jobs(VersionIds') /\ job \in [Spaces -> Jobs(VersionIds)]
    BY <1>1 DEF VersionKeys, Keys, Jobs, TypeInv, TypeOK
  <1>3. \A j, at : JobFits(VersionIds, j, at) => JobFits(VersionIds', j, at)
    BY <1>1, <1>2 DEF JobFits
  <1>4. next \in Jobs(VersionIds') /\ JobFits(VersionIds', next, "publish")
    <2>1. JobFits(VersionIds, job[s], "upload")
      BY JobsFit DEF Goto
    <2>2. /\ JobFits(VersionIds', job[s], "upload") /\ job[s] \in Jobs(VersionIds')
          /\ v \in VersionIds'
      BY <1>1, <1>2, <2>1 DEF JobFits
    <2>3. next \in Jobs(VersionIds')
      BY <1>2, <2>2 DEF Jobs
    <2>4. QED
      BY <1>1, <1>2, <2>1, <2>2, <2>3 DEF JobFits
  <1>5. /\ job' \in [Spaces -> Jobs(VersionIds')] /\ pc' \in [Spaces -> {"idle"} \cup Steps]
        /\ \A t \in Spaces : JobFits(VersionIds', job'[t], pc'[t])
    <2>1. PutObject(s, k, next)
      BY DEF PutVersion
    <2> HIDE DEF next
    <2>2. /\ job' \in [Spaces -> Jobs(VersionIds')]
          /\ \A t \in Spaces :
                LET j == IF t = s THEN next ELSE job[t]
                IN  /\ job'[t].kind = j.kind /\ job'[t].file = j.file
                    /\ job'[t].todo = j.todo /\ job'[t].sent = j.sent
                    /\ job'[t].version = j.version /\ job'[t].drop = j.drop
                    /\ job'[t].doomed \subseteq j.doomed
      BY <1>2, <1>4, <2>1, PutObjectEffect
    <2>3. pc' \in [Spaces -> {"idle"} \cup Steps] /\ pc' = [pc EXCEPT ![s] = "publish"]
      BY DEF Goto, TypeInv, TypeOK, Steps
    <2>4. ASSUME NEW t \in Spaces PROVE JobFits(VersionIds', job'[t], pc'[t])
      <3>1. CASE t = s
        <4>1. pc'[t] = "publish"
          BY <2>3, <3>1 DEF TypeInv, TypeOK
        <4>2. QED
          BY <1>4, <2>2, <3>1, <4>1 DEF JobFits
      <3>2. CASE t # s
        <4>1. JobFits(VersionIds', job[t], pc[t])
          BY <1>3, JobsFit
        <4>2. pc'[t] = pc[t]
          BY <2>3, <3>2 DEF TypeInv, TypeOK
        <4>3. QED
          BY <2>2, <3>2, <4>1, <4>2 DEF JobFits
      <3>3. QED
        BY <3>1, <3>2
    <2>5. QED
      BY <2>2, <2>3, <2>4
  <1>6. TypeOK'
    BY <1>1, <1>2, <1>5 DEF TypeInv, TypeOK, JobFits, Jobs, PutVersion, PutObject, refs, local
  <1>7. Fits'
    <2>1. (store \cap VersionKeys \subseteq {<<"version", w>> : w \in VersionIds})'
      BY <1>1 DEF TypeInv, Fits, PutVersion, PutObject, VersionKeys
    <2>2. (\A w \in VersionIds : versions[w].parent \in {NoVersion} \cup VersionIds)'
      BY <1>1 DEF TypeInv, Fits
    <2>3. QED
      BY <1>5, <2>1, <2>2 DEF Fits, JobFits
  <1>8. QED
    BY <1>6, <1>7 DEF TypeInv

LEMMA FilesOfVersions ==
    ASSUME TypeInv, NEW v \in VersionIds
    PROVE  versions[v].file \in Files
  <1>1. versions \in Seq([file : Files, parent : 0 .. MaxVersions, snapshot : BOOLEAN])
    BY DEF TypeInv, TypeOK
  <1>2. versions[v] \in [file : Files, parent : 0 .. MaxVersions, snapshot : BOOLEAN]
    BY <1>1, ElementOfSeq DEF VersionIds
  <1>3. QED
    BY <1>2

LEMMA TypeInvCommand ==
    ASSUME TypeInv, NEW s \in Spaces, Command(s)
    PROVE  TypeInv'
  <1>1. ASSUME NEW kind \in {"commit", "snapshot", "sync"}, NEW v \in {NoVersion} \cup VersionIds,
               kind = "sync" => v # NoVersion, Scan(s, kind, v)
        PROVE  TypeInv'
    <2> DEFINE j == [NoJob EXCEPT !.kind = kind, !.file = tree[s], !.version = v,
                                  !.todo = IF cached[s] THEN {} ELSE KeysOf(tree[s])]
    <2>1. tree[s] \in Files
      BY DEF TypeInv, TypeOK
    <2>2. KeysOf(tree[s]) \subseteq Keys \ VersionKeys
      BY <2>1, KeysOfFiles
    <2>3. JobFits(VersionIds, j, "upload")
      BY <1>1, <2>1, <2>2 DEF JobFits, Jobs, NoJob, Kinds
    <2> HIDE DEF j
    <2>4. /\ pc' = [pc EXCEPT ![s] = "upload"] /\ job' = [job EXCEPT ![s] = j]
          /\ UNCHANGED <<objects, refs, local>>
      BY <1>1 DEF Scan, Start, Goto, j
    <2>5. QED
      BY <2>3, <2>4, TypeInvStart DEF Steps
  <1>2. ASSUME NEW kind \in {"commit", "snapshot"}, StartRecord(s, kind) PROVE TypeInv'
    BY <1>1, <1>2 DEF StartRecord
  <1>3. CASE StartSync(s)
    BY <1>1, <1>3 DEF StartSync, TypeInv, TypeOK
  <1>4. ASSUME NEW v \in VersionIds, StartPromote(s, v) PROVE TypeInv'
    <2> DEFINE j == [NoJob EXCEPT !.kind = "promote", !.file = versions[v].file, !.version = v]
    <2>1. versions[v].file \in Files
      BY FilesOfVersions
    <2>2. JobFits(VersionIds, j, "upload")
      BY <2>1 DEF JobFits, Jobs, NoJob, Kinds
    <2> HIDE DEF j
    <2>3. /\ pc' = [pc EXCEPT ![s] = "upload"] /\ job' = [job EXCEPT ![s] = j]
          /\ UNCHANGED <<objects, refs, local>>
      BY <1>4 DEF StartPromote, Start, Goto, j
    <2>4. QED
      BY <2>2, <2>3, TypeInvStart DEF Steps
  <1>5. ASSUME NEW drop \in SUBSET timeline, StartExpire(s, drop) PROVE TypeInv'
    <2> DEFINE j == [NoJob EXCEPT !.kind = "expire", !.drop = drop]
    <2>1. JobFits(VersionIds, j, "drop")
      BY DEF JobFits, Jobs, NoJob, Kinds, TypeInv, TypeOK
    <2> HIDE DEF j
    <2>2. /\ pc' = [pc EXCEPT ![s] = "drop"] /\ job' = [job EXCEPT ![s] = j]
          /\ UNCHANGED <<objects, refs, local>>
      BY <1>5 DEF StartExpire, Start, Goto, j
    <2>3. QED
      BY <2>1, <2>2, TypeInvStart DEF Steps
  <1>6. CASE Mark(s)
    <2> DEFINE j == [NoJob EXCEPT !.kind = "gc", !.doomed = old \ Marked]
    <2>1. old \subseteq Keys /\ old \cap VersionKeys \subseteq {<<"version", v>> : v \in VersionIds}
      BY DEF TypeInv, TypeOK, Fits
    <2>2. JobFits(VersionIds, j, "marked")
      BY <2>1 DEF JobFits, Jobs, NoJob, Kinds
    <2> HIDE DEF j
    <2>3. /\ pc' = [pc EXCEPT ![s] = "marked"] /\ job' = [job EXCEPT ![s] = j]
          /\ UNCHANGED <<objects, refs, local>>
      BY <1>6 DEF Mark, Start, Goto, j
    <2>4. QED
      BY <2>2, <2>3, TypeInvStart DEF Steps
  <1>7. QED
    BY <1>2, <1>3, <1>4, <1>5, <1>6 DEF Command

LEMMA TypeInvFinish ==
    ASSUME TypeInv, NEW s \in Spaces, Finish(s), UNCHANGED <<objects, refs, local>>
    PROVE  TypeInv'
    BY NoJobFits, TypeInvStart DEF Finish

LEMMA TypeInvWork ==
    ASSUME TypeInv, NEW s \in Spaces, Work(s)
    PROVE  TypeInv'
  <1>1. ASSUME NEW k \in job[s].todo, Upload(s, k) PROVE TypeInv'
    BY <1>1, TypeInvUpload
  <1>2. ASSUME NEW k \in job[s].doomed, Sweep(s, k) PROVE TypeInv'
    <2> DEFINE j == [job[s] EXCEPT !.doomed = @ \ {k}]
    <2>1. JobFits(VersionIds, j, "sweep")
      BY JobsFit DEF JobFits, Jobs
    <2> HIDE DEF j
    <2>2. PICK i \in {j, NoJob}, at \in {"idle", "sweep"} :
             /\ pc' = [pc EXCEPT ![s] = at] /\ job' = [job EXCEPT ![s] = i]
             /\ JobFits(VersionIds, i, at)
      BY <1>2, <2>1, NoJobFits DEF Sweep, GoOn, Finish, j, TypeInv, TypeOK
    <2>3. /\ UNCHANGED <<versions, refs, local>>
          /\ store' \subseteq store /\ old' \subseteq store'
      BY <1>2 DEF Sweep, TypeInv, TypeOK
    <2>4. QED
      BY <2>2, <2>3, TypeInvQuiet DEF refs, local, TypeInv, TypeOK, Steps
  <1>3. CASE PutCommit(s)
    <2>1. main \in {NoVersion} \cup VersionIds
      BY DEF TypeInv, TypeOK
    <2>2. QED
      BY <1>3, <2>1, TypeInvPutVersion DEF PutCommit
  <1>4. CASE CommitBehind(s) \/ CommitConflict(s)
    BY <1>4, TypeInvFinish DEF CommitBehind, CommitConflict
  <1>5. CASE PutSnapshot(s)
    BY <1>5, TypeInvPutVersion DEF PutSnapshot
  <1>6. CASE PutPromoted(s)
    <2>1. job[s].todo = {}
      BY <1>6 DEF PutPromoted, Goto, TypeInv, Fits
    <2>2. QED
      BY <1>6, <2>1, TypeInvPutVersion DEF PutPromoted
  <1>7. CASE CommitPublish(s) \/ SnapshotPublish(s)
    <2>1. /\ JobFits(VersionIds, job[s], "record") /\ job[s].version \in VersionIds
          /\ pc' = [pc EXCEPT ![s] = "record"] /\ job' = [job EXCEPT ![s] = job[s]]
      BY <1>7, JobsFit DEF CommitPublish, SnapshotPublish, Goto, JobFits, TypeInv, TypeOK
    <2>2. QED
      BY <1>7, <2>1, TypeInvQuiet
         DEF CommitPublish, SnapshotPublish, objects, local, TypeInv, TypeOK, Steps
  <1>8. CASE PromotePublish(s)
    <2>1. job[s].version \in VersionIds
      <3>1. JobFits(VersionIds, job[s], "publish")
        BY <1>8, JobsFit DEF PromotePublish
      <3>2. QED
        BY <3>1 DEF JobFits
    <2>2. QED
      BY <1>8, <2>1, NoJobFits, TypeInvQuiet
         DEF PromotePublish, Finish, objects, local, TypeInv, TypeOK
  <1>9. CASE Record(s)
    BY <1>9, NoJobFits, TypeInvQuiet DEF Record, Finish, objects, refs, TypeInv, TypeOK
  <1>10. CASE SyncSettle(s)
    <2>1. job[s].version \in VersionIds /\ versions[job[s].version].file \in Files
      <3>1. JobFits(VersionIds, job[s], "upload") /\ job[s].kind = "sync"
        BY <1>10, JobsFit DEF SyncSettle
      <3>2. job[s].version \in VersionIds
        BY <3>1 DEF JobFits
      <3>3. QED
        BY <3>2, FilesOfVersions
    <2>2. /\ tree' \in [Spaces -> Files] /\ cached' \in [Spaces -> BOOLEAN]
          /\ base' \in [Spaces -> {NoVersion} \cup VersionIds]
      BY <1>10, <2>1 DEF SyncSettle, TypeInv, TypeOK
    <2>3. QED
      BY <1>10, <2>2, NoJobFits, TypeInvQuiet DEF SyncSettle, Finish, objects, refs, TypeInv, TypeOK
  <1>11. CASE DropRef(s)
    <2> DEFINE v == Min(job[s].drop)
               j == [job[s] EXCEPT !.drop = @ \ {v}]
    <2>1. JobFits(VersionIds, j, "drop")
      BY JobsFit DEF JobFits, Jobs
    <2> HIDE DEF j, v
    <2>2. PICK i \in {j, NoJob}, at \in {"idle", "drop"} :
             /\ pc' = [pc EXCEPT ![s] = at] /\ job' = [job EXCEPT ![s] = i]
             /\ JobFits(VersionIds, i, at)
      BY <1>11, <2>1, NoJobFits DEF DropRef, GoOn, Finish, j, v, TypeInv, TypeOK
    <2>3. timeline' \subseteq timeline
      BY <1>11 DEF DropRef
    <2>4. QED
      BY <1>11, <2>2, <2>3, TypeInvQuiet DEF DropRef, objects, local, TypeInv, TypeOK, Steps
  <1>12. CASE List(s)
    <2>1. JobFits(VersionIds, job[s], "sweep")
      BY JobsFit DEF JobFits
    <2>2. PICK i \in {job[s], NoJob}, at \in {"idle", "sweep"} :
             /\ pc' = [pc EXCEPT ![s] = at] /\ job' = [job EXCEPT ![s] = i]
             /\ JobFits(VersionIds, i, at)
      BY <1>12, <2>1, NoJobFits DEF List, Goto, Finish, TypeInv, TypeOK
    <2>3. QED
      BY <1>12, <2>2, TypeInvStart DEF List, Steps
  <1>13. QED
    BY <1>1, <1>2, <1>3, <1>4, <1>5, <1>6, <1>7, <1>8, <1>9, <1>10, <1>11, <1>12 DEF Work

LEMMA TypeInvNext == TypeInv /\ [Next]_vars => TypeInv'
  <1>1. ASSUME TypeInv, NEW s \in Spaces, NEW x \in Files, Edit(s, x) PROVE TypeInv'
    <2>1. /\ JobFits(VersionIds, job[s], pc[s]) /\ pc[s] \in {"idle"} \cup Steps
          /\ pc' = [pc EXCEPT ![s] = pc[s]] /\ job' = [job EXCEPT ![s] = job[s]]
      BY <1>1, JobsFit DEF Edit, TypeInv, TypeOK
    <2>2. QED
      BY <1>1, <2>1, TypeInvQuiet DEF Edit, objects, refs, TypeInv, TypeOK
  <1>2. ASSUME TypeInv, NEW s \in Spaces, Die(s) PROVE TypeInv'
    BY <1>2, TypeInvFinish DEF Die
  <1>3. ASSUME TypeInv, GracePasses PROVE TypeInv'
    BY <1>3 DEF GracePasses, TypeInv, TypeOK, Fits, VersionIds, refs, local
  <1>4. ASSUME TypeInv, UNCHANGED vars PROVE TypeInv'
    BY <1>4 DEF vars, TypeInv, TypeOK, Fits, VersionIds, objects, refs, local
  <1>5. QED
    BY <1>1, <1>2, <1>3, <1>4, TypeInvCommand, TypeInvWork DEF Next

(* Every behaviour of gc, expire and the commands beside them keeps to the *)
(* types (gc.go, expiry.go), also one in which a collector deletes what is *)
(* being put.                                                              *)
THEOREM CollectorTypeCorrect == Spec => []TypeOK
  <1>1. Spec => []TypeInv
    BY TypeInvInit, TypeInvNext, PTL DEF Spec
  <1>2. TypeInv => TypeOK
    BY DEF TypeInv
  <1>3. QED
    BY <1>1, <1>2, PTL

------------------------------------------------------------------------------
(* The inductive invariant                                                 *)

(* What nobody may delete: what the refs reach and what running commands   *)
(* have put.                                                               *)
Needed == KeysBelow(Reachable) \cup InFlight

NeededIsStored == Needed \subseteq store

(* No collector has on its list what is needed, although it made the list  *)
(* before a part of it was.                                                *)
DoomedIsGarbage ==
    \A s \in Spaces :
        /\ job[s].doomed \cap Needed = {}
        /\ job[s].doomed # {} => pc[s] \in {"marked", "sweep"}

(* What a running command has put is younger than the grace period. *)
InFlightIsYoung == InFlight \cap old = {}

(* The content a command is about to publish: put by it, left to put, or   *)
(* not its business because a kept version has it.                         *)
ContentIsAccountedFor ==
    \A s \in Spaces : Uploading(s) =>
        \/ job[s].kind = "promote"
        \/ cached[s] /\ job[s].file = tree[s]
        \/ KeysOf(job[s].file) \subseteq job[s].todo \cup job[s].sent

(* What a command publishes is the version it has put, of that content. *)
PublishesItsOwn ==
    \A s \in Spaces : pc[s] = "publish" =>
        /\ <<"version", job[s].version>> \in job[s].sent
        /\ versions[job[s].version].file = job[s].file
        /\ job[s].kind # "commit" => versions[job[s].version].parent = NoVersion

KeptInv ==
    /\ TypeInv
    /\ NeededIsStored /\ DoomedIsGarbage /\ InFlightIsYoung
    /\ ContentIsAccountedFor /\ PublishesItsOwn
    /\ PromotesKept /\ CachesAreBacked

LEMMA KeptInvInit == Init => KeptInv
  <1>1. ASSUME Init PROVE VersionIds = {} /\ Reachable = {} /\ Needed = {} /\ InFlight = {}
    <2>1. VersionIds = {}
      BY <1>1 DEF Init, VersionIds
    <2>2. InFlight = {}
      BY <1>1 DEF Init, InFlight, Uploading
    <2>3. QED
      BY <2>1, <2>2 DEF Reachable, KeysBelow, Needed
  <1>2. ASSUME Init PROVE KeptInv
    BY <1>1, <1>2, TypeInvInit
       DEF Init, KeptInv, NeededIsStored, DoomedIsGarbage, InFlightIsYoung,
           ContentIsAccountedFor, PublishesItsOwn, PromotesKept, CachesAreBacked,
           Uploading, NoJob
  <1>3. QED
    BY <1>2

(* The keys below fewer versions are fewer. *)
LEMMA KeysBelowMonotonic ==
    ASSUME NEW vs, NEW ws, vs \subseteq ws
    PROVE  KeysBelow(vs) \subseteq KeysBelow(ws)
    BY DEF KeysBelow

(* Steps that put nothing: what the refs reach after it was reached or in  *)
(* flight before, a collector that has just made its list took nothing of  *)
(* that, and a sweep deletes what is on its list.                          *)
LEMMA KeptQuiet ==
    ASSUME KeptInv, TypeInv', PromotesKept', CachesAreBacked', UNCHANGED versions,
           NEW s \in Spaces, NEW j, NEW at,
           pc' = [pc EXCEPT ![s] = at], job' = [job EXCEPT ![s] = j],
           KeysBelow(Reachable)' \subseteq Needed,
           store \ job[s].doomed \subseteq store', old' \subseteq old,
           j.doomed \subseteq job[s].doomed \cup (old \ Marked),
           j.doomed # {} => at \in {"marked", "sweep"},
           at # "publish",
           at = "upload" =>
               /\ j.sent = {}
               /\ \/ j.kind = "promote"
                  \/ cached'[s] /\ j.file = tree'[s]
                  \/ KeysOf(j.file) \subseteq j.todo,
           \A t \in Spaces \ {s} : tree'[t] = tree[t] /\ cached'[t] = cached[t]
    PROVE  KeptInv'
  <1>1. /\ pc'[s] = at /\ job'[s] = j
        /\ \A t \in Spaces \ {s} : pc'[t] = pc[t] /\ job'[t] = job[t]
    BY DEF KeptInv, TypeInv, TypeOK
  <1>2. InFlight' \subseteq InFlight
    BY <1>1 DEF InFlight, Uploading
  <1>3. Needed' \subseteq Needed
    BY <1>2 DEF Needed
  <1>4. job[s].doomed \cap Needed = {} /\ (old \ Marked) \cap Needed = {}
    BY DEF KeptInv, DoomedIsGarbage, InFlightIsYoung, Needed, Marked
  <1>5. NeededIsStored'
    BY <1>3, <1>4 DEF KeptInv, NeededIsStored
  <1>6. DoomedIsGarbage'
    BY <1>1, <1>3, <1>4 DEF KeptInv, DoomedIsGarbage
  <1>7. InFlightIsYoung'
    BY <1>2 DEF KeptInv, InFlightIsYoung
  <1>8. ContentIsAccountedFor'
    BY <1>1 DEF KeptInv, ContentIsAccountedFor, Uploading, KeysOf
  <1>9. PublishesItsOwn'
    BY <1>1 DEF KeptInv, PublishesItsOwn
  <1>10. QED
    BY <1>5, <1>6, <1>7, <1>8, <1>9 DEF KeptInv

(* Steps that put an object: it is in the store and young, and no sweep    *)
(* has it on its list.                                                     *)
LEMMA KeptPut ==
    ASSUME KeptInv, TypeInv', PromotesKept', CachesAreBacked',
           NEW s \in Spaces, NEW k, NEW next, PutObject(s, k, next), next \in Jobs(VersionIds'),
           VersionIds \subseteq VersionIds',
           \A v \in VersionIds : versions'[v] = versions[v],
           KeysBelow(Reachable)' \subseteq Needed, UNCHANGED local,
           pc[s] = "upload", NEW at \in {"upload", "publish"}, pc' = [pc EXCEPT ![s] = at],
           \A t \in Spaces : pc[t] = "sweep" => k \notin job[t].doomed,
           next.kind = job[s].kind, next.file = job[s].file, next.doomed = job[s].doomed,
           next.sent = job[s].sent \cup {k}, job[s].todo \subseteq next.todo \cup {k},
           at = "publish" =>
               /\ <<"version", next.version>> \in next.sent
               /\ versions'[next.version].file = next.file
               /\ next.kind # "commit" => versions'[next.version].parent = NoVersion
    PROVE  KeptInv'
  <1> DEFINE j(t) == IF t = s THEN next ELSE job[t]
  <1>1. /\ pc'[s] = at /\ \A t \in Spaces \ {s} : pc'[t] = pc[t]
        /\ \A t \in Spaces :
              /\ job'[t].kind = j(t).kind /\ job'[t].file = j(t).file
              /\ job'[t].todo = j(t).todo /\ job'[t].sent = j(t).sent
              /\ job'[t].version = j(t).version
              /\ job'[t].doomed \subseteq job[t].doomed
              /\ pc[t] = "marked" => k \notin job'[t].doomed
    <2>1. job \in [Spaces -> Jobs(VersionIds')]
      BY DEF KeptInv, TypeInv, TypeOK, Jobs
    <2>2. QED
      BY <2>1, PutObjectEffect DEF KeptInv, TypeInv, TypeOK
  <1>2. InFlight' \subseteq InFlight \cup {k}
    BY <1>1 DEF InFlight, Uploading
  <1>3. store' = store \cup {k} /\ old' = old \ {k}
    BY DEF PutObject
  <1>4. NeededIsStored'
    BY <1>2, <1>3 DEF KeptInv, NeededIsStored, Needed
  <1>5. DoomedIsGarbage'
    <2>1. ASSUME NEW t \in Spaces
          PROVE  job'[t].doomed # {} => pc'[t] \in {"marked", "sweep"} /\ t # s
      BY <1>1 DEF KeptInv, DoomedIsGarbage
    <2>2. ASSUME NEW t \in Spaces PROVE job'[t].doomed \cap (Needed \cup {k}) = {}
      BY <1>1, <2>1 DEF KeptInv, DoomedIsGarbage
    <2>3. Needed' \subseteq Needed \cup {k}
      BY <1>2 DEF Needed
    <2>4. QED
      BY <2>1, <2>2, <2>3 DEF DoomedIsGarbage
  <1>6. InFlightIsYoung'
    BY <1>2, <1>3 DEF KeptInv, InFlightIsYoung
  <1>7. ContentIsAccountedFor'
    <2>1. ASSUME NEW t \in Spaces, Uploading(t)'
          PROVE  \/ job'[t].kind = "promote"
                 \/ cached'[t] /\ job'[t].file = tree'[t]
                 \/ KeysOf(job'[t].file) \subseteq job'[t].todo \cup job'[t].sent
      <3>1. Uploading(t)
        BY <1>1, <2>1 DEF Uploading
      <3>2. \/ job[t].kind = "promote"
            \/ cached[t] /\ job[t].file = tree[t]
            \/ KeysOf(job[t].file) \subseteq job[t].todo \cup job[t].sent
        BY <3>1 DEF KeptInv, ContentIsAccountedFor
      <3>3. QED
        BY <1>1, <3>2 DEF local
    <2>2. QED
      BY <2>1 DEF ContentIsAccountedFor, KeysOf
  <1>8. PublishesItsOwn'
    <2>1. ASSUME NEW t \in Spaces \ {s}, pc[t] = "publish" PROVE job[t].version \in VersionIds
      BY <2>1 DEF KeptInv, TypeInv, Fits
    <2>2. QED
      BY <1>1, <2>1 DEF KeptInv, PublishesItsOwn
  <1>9. QED
    BY <1>4, <1>5, <1>6, <1>7, <1>8 DEF KeptInv

LEMMA RootsAreVersions == TypeInv => Roots \subseteq VersionIds
    BY DEF TypeInv, TypeOK, Roots

LEMMA ReachableIsClosed ==
    ASSUME TypeInv, NEW v \in Reachable
    PROVE  versions[v].parent \in Reachable \cup {NoVersion}
  <1>1. v \in VersionIds
    BY DEF Reachable
  <1>2. versions[v].parent \in {NoVersion} \cup VersionIds
    BY <1>1 DEF TypeInv, Fits
  <1>3. QED
    BY <1>2, ParentsAreReachable

(* As long as the versions stay what they are, refs that name nothing new  *)
(* reach nothing new.                                                      *)
LEMMA FewerRootsReachLess ==
    ASSUME TypeInv, UNCHANGED versions, Roots' \subseteq Roots
    PROVE  KeysBelow(Reachable)' \subseteq KeysBelow(Reachable)
  <1>1. /\ Reachable \subseteq VersionIds' /\ Roots' \subseteq Reachable
        /\ \A w \in Reachable : versions'[w].parent \in Reachable \cup {NoVersion}
    BY RootsAreVersions, RootsAreReachable, ReachableIsClosed DEF Reachable, VersionIds
  <1> HIDE DEF Reachable
  <1>2. Reachable' \subseteq Reachable
    BY <1>1, ReachableIsLeastNext
  <1>3. QED
    BY <1>2 DEF KeysBelow, KeysOf

(* A version more that no ref names changes nothing either. *)
LEMMA PutVersionReachesNoMore ==
    ASSUME TypeInv, UNCHANGED refs, VersionIds \subseteq VersionIds',
           \A v \in VersionIds : versions'[v] = versions[v]
    PROVE  KeysBelow(Reachable)' \subseteq KeysBelow(Reachable)
  <1>1. Reachable \subseteq VersionIds
    BY DEF Reachable
  <1>2. Roots' = Roots
    BY DEF Roots, refs
  <1>3. /\ Reachable \subseteq VersionIds' /\ Roots' \subseteq Reachable
        /\ \A w \in Reachable : versions'[w].parent \in Reachable \cup {NoVersion}
    BY <1>1, <1>2, RootsAreVersions, RootsAreReachable, ReachableIsClosed
  <1>4. Reachable' \subseteq Reachable
    BY <1>3, ReachableIsLeastNext
  <1>5. \A v \in Reachable' : v \in Reachable /\ versions'[v] = versions[v]
    BY <1>1, <1>4
  <1>6. QED
    BY <1>5 DEF KeysBelow, KeysOf

(* Publishing a version without a parent that is not reached already makes *)
(* one more version reached, and its content is in flight or kept.         *)
LEMMA PublishReachesItsOwn ==
    ASSUME KeptInv, NEW s \in Spaces, pc[s] = "publish", UNCHANGED versions,
           Roots' \subseteq Roots \cup {job[s].version},
           versions[job[s].version].parent \in {NoVersion} \cup Roots
    PROVE  KeysBelow(Reachable)' \subseteq Needed
  <1> DEFINE v == job[s].version
             C == Reachable \cup {v}
  <1>1. TypeInv /\ v \in VersionIds
    BY DEF KeptInv, TypeInv, Fits
  <1>2. /\ C \subseteq VersionIds' /\ Roots' \subseteq C
        /\ \A w \in C : versions'[w].parent \in C \cup {NoVersion}
    <2>1. Roots \subseteq Reachable
      BY <1>1, RootsAreVersions, RootsAreReachable
    <2>2. C \subseteq VersionIds'
      BY <1>1 DEF Reachable, VersionIds
    <2>3. QED
      BY <1>1, <2>1, <2>2, ReachableIsClosed
  <1>3. Reachable' \subseteq C
    <2> HIDE DEF C
    <2>1. QED
      BY <1>2, ReachableIsLeastNext
  <1>4. <<"version", v>> \in InFlight /\ job[s].sent \subseteq InFlight
    BY DEF KeptInv, PublishesItsOwn, InFlight, Uploading
  <1>5. KeysOf(versions[v].file) \subseteq Needed
    <2>1. versions[v].file = job[s].file /\ job[s].todo = {}
      BY DEF KeptInv, PublishesItsOwn, TypeInv, Fits
    <2>2. \/ job[s].kind = "promote"
          \/ cached[s] /\ job[s].file = tree[s]
          \/ KeysOf(job[s].file) \subseteq job[s].todo \cup job[s].sent
      BY DEF KeptInv, ContentIsAccountedFor, Uploading
    <2>3. ASSUME job[s].file \in {versions[w].file : w \in Reachable}
          PROVE  KeysOf(job[s].file) \subseteq Needed
      BY <2>3 DEF Needed, KeysBelow
    <2>4. QED
      BY <1>4, <2>1, <2>2, <2>3 DEF KeptInv, PromotesKept, CachesAreBacked, Needed
  <1>6. ASSUME NEW w \in Reachable'
        PROVE  {<<"version", w>>} \cup KeysOf(versions[w].file) \subseteq Needed
    <2>1. CASE w \in Reachable
      BY <2>1 DEF Needed, KeysBelow
    <2>2. CASE w = v
      BY <1>4, <1>5, <2>2 DEF Needed
    <2>3. QED
      BY <1>3, <2>1, <2>2
  <1>7. QED
    BY <1>6 DEF KeysBelow, KeysOf

(* Commands that begin. *)
LEMMA KeptCommand ==
    ASSUME KeptInv, TypeInv', PromotesKept', CachesAreBacked', NEW s \in Spaces, Command(s)
    PROVE  KeptInv'
  <1>1. ASSUME UNCHANGED <<objects, refs, local>>, NEW j, NEW at \in {"upload", "drop", "marked"},
               pc' = [pc EXCEPT ![s] = at], job' = [job EXCEPT ![s] = j],
               j.doomed \subseteq old \ Marked, j.doomed # {} => at = "marked",
               at = "upload" =>
                   /\ j.sent = {}
                   /\ \/ j.kind = "promote"
                      \/ cached[s] /\ j.file = tree[s]
                      \/ KeysOf(j.file) \subseteq j.todo
        PROVE  KeptInv'
    <2>1. KeysBelow(Reachable)' \subseteq Needed
      BY <1>1, FewerRootsReachLess DEF KeptInv, Needed, Roots, objects, refs
    <2>2. /\ UNCHANGED versions /\ store \ job[s].doomed \subseteq store' /\ old' \subseteq old
          /\ tree' = tree /\ cached' = cached
      BY <1>1 DEF objects, local
    <2>3. QED
      BY <1>1, <2>1, <2>2, KeptQuiet
  <1>2. ASSUME NEW kind \in Kinds, NEW v, Scan(s, kind, v) PROVE KeptInv'
    <2> DEFINE j == [NoJob EXCEPT !.kind = kind, !.file = tree[s], !.version = v,
                                  !.todo = IF cached[s] THEN {} ELSE KeysOf(tree[s])]
    <2>1. /\ j.doomed = {} /\ j.sent = {} /\ j.file = tree[s]
          /\ ~cached[s] => j.todo = KeysOf(tree[s])
      BY DEF NoJob
    <2> HIDE DEF j
    <2>2. /\ pc' = [pc EXCEPT ![s] = "upload"] /\ job' = [job EXCEPT ![s] = j]
          /\ UNCHANGED <<objects, refs, local>>
      BY <1>2 DEF Scan, Start, Goto, j
    <2>3. QED
      BY <1>1, <2>1, <2>2
  <1>3. CASE (\E kind \in {"commit", "snapshot"} : StartRecord(s, kind)) \/ StartSync(s)
    BY <1>2, <1>3 DEF StartRecord, StartSync, Kinds
  <1>4. ASSUME NEW v \in VersionIds, StartPromote(s, v) PROVE KeptInv'
    <2> DEFINE j == [NoJob EXCEPT !.kind = "promote", !.file = versions[v].file, !.version = v]
    <2>1. j.doomed = {} /\ j.sent = {} /\ j.kind = "promote"
      BY DEF NoJob
    <2> HIDE DEF j
    <2>2. /\ pc' = [pc EXCEPT ![s] = "upload"] /\ job' = [job EXCEPT ![s] = j]
          /\ UNCHANGED <<objects, refs, local>>
      BY <1>4 DEF StartPromote, Start, Goto, j
    <2>3. QED
      BY <1>1, <2>1, <2>2
  <1>5. ASSUME NEW drop \in SUBSET timeline, StartExpire(s, drop) PROVE KeptInv'
    <2> DEFINE j == [NoJob EXCEPT !.kind = "expire", !.drop = drop]
    <2>1. j.doomed = {}
      BY DEF NoJob
    <2> HIDE DEF j
    <2>2. /\ pc' = [pc EXCEPT ![s] = "drop"] /\ job' = [job EXCEPT ![s] = j]
          /\ UNCHANGED <<objects, refs, local>>
      BY <1>5 DEF StartExpire, Start, Goto, j
    <2>3. QED
      BY <1>1, <2>1, <2>2
  <1>6. CASE Mark(s)
    <2> DEFINE j == [NoJob EXCEPT !.kind = "gc", !.doomed = old \ Marked]
    <2>1. j.doomed = old \ Marked
      BY DEF NoJob
    <2> HIDE DEF j
    <2>2. /\ pc' = [pc EXCEPT ![s] = "marked"] /\ job' = [job EXCEPT ![s] = j]
          /\ UNCHANGED <<objects, refs, local>>
      BY <1>6 DEF Mark, Start, Goto, j
    <2>3. QED
      BY <1>1, <2>1, <2>2
  <1>7. QED
    BY <1>3, <1>4, <1>5, <1>6 DEF Command

(* Commands that put an object.  The careful space does not put what a     *)
(* sweep has on its list; a new version cannot be on one.                  *)
LEMMA KeptUpload ==
    ASSUME KeptInv, TypeInv', PromotesKept', CachesAreBacked', NobodyRevives,
           NEW s \in Spaces, NEW k \in job[s].todo, Upload(s, k)
    PROVE  KeptInv'
  <1> DEFINE next == [job[s] EXCEPT !.todo = @ \ {k}, !.sent = @ \cup {k}]
  <1>1. job \in [Spaces -> Jobs(VersionIds)] /\ k \notin job[s].sent /\ k \in Keys
    BY DEF KeptInv, TypeInv, TypeOK, Jobs
  <1>2. /\ next \in Jobs(VersionIds)
        /\ next.kind = job[s].kind /\ next.file = job[s].file /\ next.doomed = job[s].doomed
        /\ next.sent = job[s].sent \cup {k} /\ next.todo = job[s].todo \ {k}
    BY <1>1 DEF Jobs
  <1> HIDE DEF next
  <1>3. /\ PutObject(s, k, next) /\ pc[s] = "upload" /\ pc' = [pc EXCEPT ![s] = "upload"]
        /\ UNCHANGED <<versions, refs, local>>
    BY DEF Upload, next, KeptInv, TypeInv, TypeOK
  <1>4. VersionIds' = VersionIds
    BY <1>3 DEF VersionIds
  <1>5. k \in job'[s].sent \ job[s].sent
    BY <1>1, <1>2, <1>3, PutObjectEffect
  <1>6. \A t \in Spaces : pc[t] = "sweep" => k \notin job[t].doomed
    BY <1>5 DEF NobodyRevives
  <1>7. KeysBelow(Reachable)' \subseteq Needed
    BY <1>3, FewerRootsReachLess DEF KeptInv, Needed, Roots, refs
  <1>8. QED
    BY <1>2, <1>3, <1>4, <1>6, <1>7, KeptPut

LEMMA KeptPutVersion ==
    ASSUME KeptInv, TypeInv', PromotesKept', CachesAreBacked', NEW s \in Spaces,
           NEW parent \in {NoVersion} \cup VersionIds, NEW snapshot \in BOOLEAN,
           job[s].kind # "commit" => parent = NoVersion,
           PutVersion(s, parent, snapshot), Goto(s, "upload", "publish"), UNCHANGED <<refs, local>>
    PROVE  KeptInv'
  <1> DEFINE v == Len(versions) + 1
             k == <<"version", v>>
             next == [job[s] EXCEPT !.version = v, !.sent = @ \cup {k}]
             entry == [file |-> job[s].file, parent |-> parent, snapshot |-> snapshot]
  <1>1. job \in [Spaces -> Jobs(VersionIds)]
    BY DEF KeptInv, TypeInv, TypeOK, Jobs
  <1>2. /\ versions' = Append(versions, entry) /\ PutObject(s, k, next)
        /\ versions \in Seq([file : Files, parent : 0 .. MaxVersions, snapshot : BOOLEAN])
        /\ v \in 1 .. MaxVersions
    BY BoundAssumption DEF PutVersion, KeptInv, TypeInv, TypeOK
  <1>3. VersionIds \subseteq VersionIds' /\ v \in VersionIds' /\ v \notin VersionIds
    BY <1>2 DEF VersionIds
  <1>4. versions'[v] = entry /\ \A w \in VersionIds : versions'[w] = versions[w]
    BY <1>2 DEF VersionIds
  <1>5. k \in VersionKeys /\ k \in Keys
    BY <1>2 DEF VersionKeys, Keys
  <1>6. /\ next \in Jobs(VersionIds')
        /\ next.kind = job[s].kind /\ next.file = job[s].file /\ next.doomed = job[s].doomed
        /\ next.sent = job[s].sent \cup {k} /\ next.todo = job[s].todo /\ next.version = v
    <2>1. job[s] \in Jobs(VersionIds')
      BY <1>1, <1>3 DEF Jobs
    <2>2. QED
      BY <1>3, <1>5, <2>1 DEF Jobs
  <1>7. \A t \in Spaces : k \notin job[t].doomed
    BY <1>3, <1>5 DEF KeptInv, TypeInv, TypeOK
  <1>8. KeysBelow(Reachable)' \subseteq Needed
    BY <1>3, <1>4, PutVersionReachesNoMore DEF KeptInv, Needed
  <1>9. /\ <<"version", next.version>> \in next.sent
        /\ versions'[next.version].file = next.file
        /\ next.kind # "commit" => versions'[next.version].parent = NoVersion
    BY <1>4, <1>6
  <1>10. pc[s] = "upload" /\ pc' = [pc EXCEPT ![s] = "publish"]
    BY DEF Goto
  <1> HIDE DEF next, v, k, entry
  <1>11. QED
    BY <1>2, <1>3, <1>4, <1>6, <1>7, <1>8, <1>9, <1>10, KeptPut

(* Commands that go on, publish or end without putting anything. *)
LEMMA KeptFinish ==
    ASSUME KeptInv, TypeInv', PromotesKept', CachesAreBacked', NEW s \in Spaces, Finish(s),
           UNCHANGED objects, KeysBelow(Reachable)' \subseteq Needed,
           \A t \in Spaces \ {s} : tree'[t] = tree[t] /\ cached'[t] = cached[t]
    PROVE  KeptInv'
  <1>1. NoJob.doomed = {}
    BY DEF NoJob
  <1>2. /\ pc' = [pc EXCEPT ![s] = "idle"] /\ job' = [job EXCEPT ![s] = NoJob]
        /\ UNCHANGED versions /\ store \ job[s].doomed \subseteq store' /\ old' \subseteq old
    BY DEF Finish, objects
  <1>3. QED
    BY <1>1, <1>2, KeptQuiet

LEMMA KeptGoesOn ==
    ASSUME KeptInv, TypeInv', PromotesKept', CachesAreBacked', NEW s \in Spaces,
           UNCHANGED <<objects, local>>, KeysBelow(Reachable)' \subseteq Needed,
           NEW j, NEW at \in Steps \ {"upload", "publish"},
           pc' = [pc EXCEPT ![s] = at], job' = [job EXCEPT ![s] = j],
           j.doomed = job[s].doomed, j.doomed # {} => at \in {"marked", "sweep"}
    PROVE  KeptInv'
  <1>1. /\ UNCHANGED versions /\ store \ job[s].doomed \subseteq store' /\ old' \subseteq old
        /\ tree' = tree /\ cached' = cached
    BY DEF objects, local
  <1>2. QED
    BY <1>1, KeptQuiet

LEMMA KeptWork ==
    ASSUME KeptInv, TypeInv', PromotesKept', CachesAreBacked', NobodyRevives,
           NEW s \in Spaces, Work(s)
    PROVE  KeptInv'
  <1>1. TypeInv
    BY DEF KeptInv
  <1>2. ASSUME UNCHANGED versions, UNCHANGED refs
        PROVE  KeysBelow(Reachable)' \subseteq Needed
    BY <1>1, <1>2, FewerRootsReachLess DEF Needed, Roots, refs
  <1>3. ASSUME NEW k \in job[s].todo, Upload(s, k) PROVE KeptInv'
    BY <1>3, KeptUpload
  <1>4. ASSUME NEW k \in job[s].doomed, Sweep(s, k) PROVE KeptInv'
    <2> DEFINE j == [job[s] EXCEPT !.doomed = @ \ {k}]
    <2>1. j.doomed \subseteq job[s].doomed
      BY <1>1, JobsFit DEF JobFits, Jobs
    <2> HIDE DEF j
    <2>2. PICK i \in {j, NoJob}, at \in {"idle", "sweep"} :
             /\ pc' = [pc EXCEPT ![s] = at] /\ job' = [job EXCEPT ![s] = i]
             /\ i.doomed \subseteq job[s].doomed
             /\ i.doomed # {} => at = "sweep"
      <3>1. NoJob.doomed = {}
        BY DEF NoJob
      <3>2. CASE job[s].doomed # {k}
        <4>1. pc' = [pc EXCEPT ![s] = "sweep"] /\ job' = [job EXCEPT ![s] = j]
          BY <1>1, <1>4, <3>2 DEF Sweep, GoOn, j, TypeInv, TypeOK
        <4>2. QED
          BY <2>1, <4>1
      <3>3. CASE job[s].doomed = {k}
        BY <1>4, <3>1, <3>3 DEF Sweep, GoOn, Finish
      <3>4. QED
        BY <3>2, <3>3
    <2>3. /\ UNCHANGED <<versions, refs, local>>
          /\ store \ job[s].doomed \subseteq store' /\ old' \subseteq old
      BY <1>4 DEF Sweep
    <2>4. KeysBelow(Reachable)' \subseteq Needed
      BY <1>2, <2>3
    <2>5. UNCHANGED versions /\ tree' = tree /\ cached' = cached
      BY <2>3 DEF local
    <2>6. i.doomed # {} => at \in {"marked", "sweep"}
      BY <2>2
    <2>7. QED
      BY <2>2, <2>3, <2>4, <2>5, <2>6, KeptQuiet
  <1>5. CASE PutCommit(s)
    <2>1. main \in {NoVersion} \cup VersionIds
      BY <1>1 DEF TypeInv, TypeOK
    <2>2. QED
      BY <1>5, <2>1, KeptPutVersion DEF PutCommit
  <1>6. CASE CommitBehind(s) \/ CommitConflict(s)
    BY <1>2, <1>6, KeptFinish DEF CommitBehind, CommitConflict, objects, local
  <1>7. CASE PutSnapshot(s) \/ PutPromoted(s)
    BY <1>7, KeptPutVersion DEF PutSnapshot, PutPromoted
  <1>8. ASSUME pc[s] = "publish" PROVE job[s].doomed = {}
    BY <1>8 DEF KeptInv, DoomedIsGarbage
  <1>9. CASE CommitPublish(s)
    <2>1. /\ pc[s] = "publish" /\ UNCHANGED <<objects, local>>
          /\ pc' = [pc EXCEPT ![s] = "record"] /\ job' = [job EXCEPT ![s] = job[s]]
      BY <1>1, <1>9 DEF CommitPublish, Goto, TypeInv, TypeOK
    <2>2. KeysBelow(Reachable)' \subseteq Needed
      <3>1. /\ Roots' \subseteq Roots \cup {job[s].version}
            /\ versions[job[s].version].parent \in {NoVersion} \cup Roots
        BY <1>9 DEF CommitPublish, Roots
      <3>2. QED
        BY <2>1, <3>1, PublishReachesItsOwn DEF objects
    <2>3. QED
      BY <1>8, <2>1, <2>2, KeptGoesOn DEF Steps
  <1>10. CASE SnapshotPublish(s)
    <2>1. /\ pc[s] = "publish" /\ UNCHANGED <<objects, local>>
          /\ pc' = [pc EXCEPT ![s] = "record"] /\ job' = [job EXCEPT ![s] = job[s]]
      BY <1>1, <1>10 DEF SnapshotPublish, Goto, TypeInv, TypeOK
    <2>2. KeysBelow(Reachable)' \subseteq Needed
      <3>1. /\ Roots' \subseteq Roots \cup {job[s].version}
            /\ versions[job[s].version].parent = NoVersion
        BY <1>10, <2>1 DEF SnapshotPublish, Roots, KeptInv, PublishesItsOwn
      <3>2. QED
        BY <2>1, <3>1, PublishReachesItsOwn DEF objects
    <2>3. QED
      BY <1>8, <2>1, <2>2, KeptGoesOn DEF Steps
  <1>11. CASE PromotePublish(s)
    <2>1. /\ Roots' \subseteq Roots \cup {job[s].version}
          /\ versions[job[s].version].parent = NoVersion
      BY <1>11 DEF PromotePublish, Roots, KeptInv, PublishesItsOwn
    <2>2. KeysBelow(Reachable)' \subseteq Needed
      BY <1>11, <2>1, PublishReachesItsOwn DEF PromotePublish, objects
    <2>3. QED
      BY <1>11, <2>2, KeptFinish DEF PromotePublish, local
  <1>12. CASE Record(s)
    <2>1. \A t \in Spaces \ {s} : tree'[t] = tree[t] /\ cached'[t] = cached[t]
      BY <1>1, <1>12 DEF Record, TypeInv, TypeOK
    <2>2. QED
      BY <1>2, <1>12, <2>1, KeptFinish DEF Record, objects
  <1>13. CASE SyncSettle(s)
    <2>1. \A t \in Spaces \ {s} : tree'[t] = tree[t] /\ cached'[t] = cached[t]
      BY <1>1, <1>13 DEF SyncSettle, TypeInv, TypeOK
    <2>2. QED
      BY <1>2, <1>13, <2>1, KeptFinish DEF SyncSettle, objects
  <1>14. CASE DropRef(s)
    <2> DEFINE v == Min(job[s].drop)
               j == [job[s] EXCEPT !.drop = @ \ {v}]
    <2>1. pc[s] = "drop" /\ UNCHANGED <<objects, local>> /\ timeline' \subseteq timeline
          /\ UNCHANGED <<main, promoted>>
      BY <1>14 DEF DropRef
    <2>2. Roots' \subseteq Roots
      BY <2>1 DEF Roots
    <2>3. KeysBelow(Reachable)' \subseteq Needed
      BY <1>1, <2>1, <2>2, FewerRootsReachLess DEF Needed, objects
    <2>4. job[s].doomed = {} /\ j.doomed = job[s].doomed
      BY <1>1, <2>1, JobsFit DEF KeptInv, DoomedIsGarbage, JobFits, Jobs
    <2> HIDE DEF j, v
    <2>5. CASE job[s].drop # {v}
      <3>1. pc' = [pc EXCEPT ![s] = "drop"] /\ job' = [job EXCEPT ![s] = j]
        BY <1>1, <1>14, <2>5 DEF DropRef, GoOn, j, v, TypeInv, TypeOK
      <3>2. QED
        BY <2>1, <2>3, <2>4, <3>1, KeptGoesOn DEF Steps
    <2>6. CASE job[s].drop = {v}
      BY <1>14, <2>1, <2>3, <2>6, KeptFinish DEF DropRef, GoOn, v, local
    <2>7. QED
      BY <2>5, <2>6
  <1>15. CASE List(s)
    <2>1. UNCHANGED <<objects, refs, local>> /\ KeysBelow(Reachable)' \subseteq Needed
      BY <1>2, <1>15 DEF List, objects
    <2>2. CASE job[s].doomed = {}
      BY <1>15, <2>1, <2>2, KeptFinish DEF List, local
    <2>3. CASE job[s].doomed # {}
      <3>1. pc' = [pc EXCEPT ![s] = "sweep"] /\ job' = [job EXCEPT ![s] = job[s]]
        BY <1>1, <1>15, <2>3 DEF List, Goto, TypeInv, TypeOK
      <3>2. QED
        BY <2>1, <3>1, KeptGoesOn DEF Steps
    <2>4. QED
      BY <2>2, <2>3
  <1>16. QED
    BY <1>3, <1>4, <1>5, <1>6, <1>7, <1>9, <1>10, <1>11, <1>12, <1>13, <1>14, <1>15 DEF Work

LEMMA KeptInvNext == KeptInv /\ [CarefulNext]_vars => KeptInv'
  <1>1. KeptInv /\ [CarefulNext]_vars => TypeInv'
    BY TypeInvNext DEF KeptInv, CarefulNext
  <1>2. ASSUME KeptInv, CarefulNext, TypeInv' PROVE KeptInv'
    <2>1. PromotesKept' /\ CachesAreBacked' /\ NobodyRevives
      BY <1>2 DEF CarefulNext
    <2>2. ASSUME NEW s \in Spaces, NEW x \in Files, Edit(s, x) PROVE KeptInv'
      <3>1. KeysBelow(Reachable)' \subseteq Needed
        BY <1>2, <2>2, FewerRootsReachLess DEF Edit, KeptInv, Needed, Roots, refs, objects
      <3>2. /\ pc' = [pc EXCEPT ![s] = "idle"] /\ job' = [job EXCEPT ![s] = job[s]]
            /\ job[s].doomed = {} /\ UNCHANGED objects
            /\ \A t \in Spaces \ {s} : tree'[t] = tree[t] /\ cached'[t] = cached[t]
        BY <1>2, <2>2 DEF Edit, KeptInv, TypeInv, TypeOK, DoomedIsGarbage
      <3>3. QED
        BY <1>2, <2>1, <3>1, <3>2, KeptQuiet DEF objects
    <2>3. ASSUME NEW s \in Spaces, Die(s) PROVE KeptInv'
      <3>1. KeysBelow(Reachable)' \subseteq Needed
        BY <1>2, <2>3, FewerRootsReachLess DEF Die, KeptInv, Needed, Roots, refs, objects
      <3>2. QED
        BY <1>2, <2>1, <2>3, <3>1, KeptFinish DEF Die, local
    <2>4. ASSUME GracePasses PROVE KeptInv'
      <3>1. KeysBelow(Reachable)' \subseteq Needed
        BY <1>2, <2>4, FewerRootsReachLess DEF GracePasses, KeptInv, Needed, Roots, refs
      <3>2. InFlight' = InFlight
        BY <2>4 DEF GracePasses, InFlight, Uploading
      <3>3. Needed' \subseteq Needed
        BY <3>1, <3>2 DEF Needed
      <3>4. NeededIsStored' /\ DoomedIsGarbage'
        BY <1>2, <2>4, <3>3 DEF GracePasses, KeptInv, NeededIsStored, DoomedIsGarbage
      <3>5. InFlightIsYoung'
        BY <2>4, <3>2 DEF GracePasses, InFlightIsYoung
      <3>6. ContentIsAccountedFor' /\ PublishesItsOwn'
        BY <1>2, <2>4
           DEF GracePasses, KeptInv, ContentIsAccountedFor, PublishesItsOwn, local,
               Uploading, KeysOf
      <3>7. QED
        BY <1>2, <2>1, <3>4, <3>5, <3>6 DEF KeptInv
    <2>5. QED
      BY <1>2, <2>1, <2>2, <2>3, <2>4, KeptCommand, KeptWork DEF CarefulNext, Next
  <1>3. ASSUME KeptInv, UNCHANGED vars, TypeInv' PROVE KeptInv'
    <2>1. /\ Reachable' = Reachable /\ InFlight' = InFlight
          /\ UNCHANGED <<objects, local, pc, job>>
      BY <1>3 DEF vars, Reachable, Roots, refs, objects, VersionIds, InFlight, Uploading
    <2> HIDE DEF Reachable
    <2>2. KeysBelow(Reachable)' = KeysBelow(Reachable)
      BY <2>1 DEF KeysBelow, KeysOf, objects
    <2>3. NeededIsStored' /\ DoomedIsGarbage' /\ InFlightIsYoung'
      BY <1>3, <2>1, <2>2
         DEF KeptInv, NeededIsStored, DoomedIsGarbage, InFlightIsYoung, Needed, objects
    <2>4. ContentIsAccountedFor' /\ PublishesItsOwn'
      BY <1>3, <2>1
         DEF KeptInv, ContentIsAccountedFor, PublishesItsOwn, Uploading, KeysOf, objects, local
    <2>5. PromotesKept' /\ CachesAreBacked'
      BY <1>3, <2>1 DEF KeptInv, PromotesKept, CachesAreBacked, objects, local
    <2>6. QED
      BY <1>3, <2>3, <2>4, <2>5 DEF KeptInv
  <1>4. QED
    BY <1>1, <1>2, <1>3

------------------------------------------------------------------------------
(* What the collector keeps                                                *)

LEMMA CarefulKeeps == CarefulSpec => []KeptInv
    BY KeptInvInit, KeptInvNext, PTL DEF CarefulSpec

(* Whatever a ref reaches is in the store, whole, for any number of spaces *)
(* that commit, snapshot, sync, promote, expire, collect and die in any    *)
(* order, as long as nobody puts anew what a sweep has on its list and     *)
(* what caches and promotes rely on is kept.                               *)
THEOREM ReferencedStaysStored == CarefulSpec => []ReferencedIsStored
  <1>1. KeptInv => ReferencedIsStored
    BY DEF KeptInv, NeededIsStored, Needed, ReferencedIsStored
  <1>2. QED
    BY <1>1, CarefulKeeps, PTL

(* What a running command has put stays until its ref keeps it: no         *)
(* collector, however old its list, deletes it.                            *)
THEOREM UploadsStayStored == CarefulSpec => []UploadsSurvive
  <1>1. KeptInv => UploadsSurvive
    BY DEF KeptInv, NeededIsStored, Needed, UploadsSurvive
  <1>2. QED
    BY <1>1, CarefulKeeps, PTL

==============================================================================

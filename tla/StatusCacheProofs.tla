--------------------------- MODULE StatusCacheProofs ---------------------------
(***************************************************************************)
(* The status cache for any number of paths, files, processes, versions    *)
(* and changes: type correctness and the origin of what is vouched for in  *)
(* every behaviour; that it is true, and what a record publishes, in every *)
(* behaviour that leaves alone what a command has just read or written,    *)
(* and in which other content of one size gets another mtime.              *)
(***************************************************************************)
EXTENDS StatusCache, MergeProofs, SequenceTheorems, TLAPS

------------------------------------------------------------------------------
(* Types and the origin of entries                                         *)

Stats == [size : {SizeOf[x] : x \in Files}, mtime : Mtimes]

PublishedVersions == [files : Manifests, sizes : UNION {[S -> Nat] : S \in SUBSET Paths}]

(* The jobs there can be when n versions are published. *)
Jobs(n) ==
    [kind : {"none"} \cup Kinds, todo : SUBSET Paths, seen : [Paths -> Stats \cup {Absent}],
     old : Caches, next : Caches, read : Files \cup {Absent}, from : 0 .. n, version : 0 .. n,
     files : Manifests, remove : SUBSET Paths, fresh : SUBSET Paths]

(* What the entry says is in one of the versions vs. *)
PublishedIn(vs, p, entry) ==
    entry # Absent => \E v \in 1 .. Len(vs) : vs[v].files[p] = entry.file

(* A job that is typed and has what the command does next needs: a record  *)
(* that is published is its version, and what a sync or a restore writes,  *)
(* or has saved, is in a version.                                          *)
JobFits(vs, j, at) ==
    /\ j \in Jobs(Len(vs))
    /\ at = "idle" <=> j = NoJob
    /\ at \in {"load", "file", "stat"} =>
           /\ j.kind \in {"commit", "snapshot", "sync"}
           /\ j.kind = "sync" => j.version # 0
    /\ at = "stat" => j.read \in Files
    /\ at \in {"head", "save"} =>
           /\ j.kind \in {"commit", "snapshot"}
           /\ j.version # 0 /\ vs[j.version].files = FilesOf(j.next)
    /\ at \in {"write", "written"} =>
           /\ j.kind \in {"sync", "restore"} /\ j.version # 0
           /\ \A p \in Paths : PublishedIn(vs, p, j.next[p])
           /\ \A p \in j.todo \cup j.fresh :
                 j.files[p] # Absent /\ j.files[p] = vs[j.version].files[p]
    /\ at = "settle" => j.kind = "sync" /\ j.version # 0

Places == {"idle", "load", "file", "stat", "head", "save", "write", "written", "settle"}

PublishedInv ==
    /\ disk \in [Paths -> OnDisk \cup {Absent}] /\ changes \in 0 .. MaxChanges
    /\ had \in [Paths -> SUBSET OnDisk]
    /\ versions \in Seq(PublishedVersions) /\ Len(versions) <= MaxVersions
    /\ {ref, base, checkedOut} \subseteq 0 .. Len(versions)
    /\ cache \in Caches
    /\ \A p \in Paths : PublishedIn(versions, p, cache[p])
    /\ pc \in [Processes -> Places]
    /\ job \in [Processes -> Jobs(Len(versions))]
    /\ \A r \in Processes : JobFits(versions, job[r], pc[r])
    /\ held \in [Processes -> [Paths -> SUBSET (Files \cup {Absent})]]

LEMMA NoJobFits == ASSUME NEW vs PROVE JobFits(vs, NoJob, "idle")
  <1>1. NoJob \in Jobs(Len(vs))
    BY DEF NoJob, Jobs, Caches, NoCache, Empty, Manifests
  <1>2. QED
    BY <1>1 DEF JobFits

(* Versions are only ever added: what fitted still fits. *)
LEMMA MoreVersionsFit ==
    ASSUME NEW vs, NEW ws, Len(vs) \in Nat, Len(ws) \in Nat, Len(vs) <= Len(ws),
           \A v \in 1 .. Len(vs) : ws[v] = vs[v]
    PROVE  /\ \A p, e : PublishedIn(vs, p, e) => PublishedIn(ws, p, e)
           /\ \A j, at : JobFits(vs, j, at) => JobFits(ws, j, at)
  <1>1. 1 .. Len(vs) \subseteq 1 .. Len(ws) /\ 0 .. Len(vs) \subseteq 0 .. Len(ws)
    OBVIOUS
  <1>2. \A p, e : PublishedIn(vs, p, e) => PublishedIn(ws, p, e)
    BY <1>1 DEF PublishedIn
  <1>3. ASSUME NEW j, NEW at, JobFits(vs, j, at) PROVE JobFits(ws, j, at)
    <2>1. j \in Jobs(Len(vs)) /\ j \in Jobs(Len(ws))
      BY <1>1, <1>3 DEF JobFits, Jobs
    <2>2. j.version # 0 => ws[j.version] = vs[j.version]
      BY <2>1 DEF Jobs
    <2>3. QED
      BY <1>2, <1>3, <2>1, <2>2 DEF JobFits
  <1>4. QED
    BY <1>2, <1>3

(* The files on disk and their stats. *)
LEMMA FilesOnDisk ==
    ASSUME disk \in [Paths -> OnDisk \cup {Absent}], NEW p \in Present
    PROVE  p \in Paths /\ disk[p] \in OnDisk /\ disk[p].file \in Files /\ StatOf(p) \in Stats
    BY DEF Present, OnDisk, StatOf, Stats

LEMMA EntriesOfStats ==
    ASSUME NEW stat \in Stats, NEW x \in Files
    PROVE  CacheEntry(stat, x) \in Lookups /\ CacheEntry(stat, x) # Absent
  <1>1. CacheEntry(stat, x) \in Lookups
    BY DEF Stats, Lookups, CacheEntry
  <1>2. QED
    BY <1>1, NothingAssumption

LEMMA FilesOfCaches ==
    ASSUME NEW entries \in Caches
    PROVE  FilesOf(entries) \in Manifests
    BY DEF Caches, FilesOf, Manifests, Lookups

LEMMA ChangedFilesFit ==
    ASSUME PublishedInv, NEW p \in Paths, NEW x \in Files \cup {Absent}, ChangeFile(p, x)
    PROVE  /\ disk' \in [Paths -> OnDisk \cup {Absent}] /\ changes' \in 0 .. MaxChanges /\ had' \in [Paths -> SUBSET OnDisk]
           /\ held' \in [Processes -> [Paths -> SUBSET (Files \cup {Absent})]]
  <1>1. changes' \in 0 .. MaxChanges
    BY BoundAssumption DEF PublishedInv, ChangeFile
  <1>2. disk' \in [Paths -> OnDisk \cup {Absent}] /\ had' \in [Paths -> SUBSET OnDisk]
    <2>1. disk' \in [Paths -> OnDisk \cup {Absent}]
      BY DEF PublishedInv, ChangeFile, OnDisk
    <2>2. {disk'[p]} \ {Absent} \subseteq OnDisk
      BY <2>1
    <2>3. QED
      BY <2>1, <2>2 DEF PublishedInv, ChangeFile
  <1>3. held' \in [Processes -> [Paths -> SUBSET (Files \cup {Absent})]]
    BY DEF PublishedInv, ChangeFile
  <1>4. QED
    BY <1>1, <1>2, <1>3 DEF ChangeFile

(* The steps of one process that publish nothing. *)
LEMMA PublishedQuiet ==
    ASSUME PublishedInv, UNCHANGED shared, NEW r \in Processes, NEW j, NEW at \in Places,
           pc' = [pc EXCEPT ![r] = at], job' = [job EXCEPT ![r] = j], JobFits(versions, j, at),
           disk' \in [Paths -> OnDisk \cup {Absent}], changes' \in 0 .. MaxChanges,
           had' \in [Paths -> SUBSET OnDisk],
           {base', checkedOut'} \subseteq 0 .. Len(versions), cache' \in Caches,
           \A p \in Paths : PublishedIn(versions, p, cache'[p]),
           held' \in [Processes -> [Paths -> SUBSET (Files \cup {Absent})]]
    PROVE  PublishedInv'
  <1>1. versions' = versions /\ ref' = ref
    BY DEF shared
  <1>2. \A q \in Processes : JobFits(versions, job'[q], pc'[q])
    BY DEF PublishedInv
  <1>3. /\ pc' \in [Processes -> Places] /\ job' \in [Processes -> Jobs(Len(versions))]
        /\ {ref, base', checkedOut'} \subseteq 0 .. Len(versions)
    <2>1. j \in Jobs(Len(versions))
      BY DEF JobFits
    <2>2. QED
      BY <2>1 DEF PublishedInv
  <1>4. QED
    BY <1>1, <1>2, <1>3 DEF PublishedInv

LEMMA PublishedFinish ==
    ASSUME PublishedInv, NEW r \in Processes, Finish(r), UNCHANGED <<disk, changes, had, shared>>,
           {base', checkedOut'} \subseteq 0 .. Len(versions), cache' \in Caches,
           \A p \in Paths : PublishedIn(versions, p, cache'[p])
    PROVE  PublishedInv'
  <1>1. held' \in [Processes -> [Paths -> SUBSET (Files \cup {Absent})]]
    BY DEF Finish, PublishedInv
  <1>2. /\ pc' = [pc EXCEPT ![r] = "idle"] /\ job' = [job EXCEPT ![r] = NoJob]
        /\ disk' \in [Paths -> OnDisk \cup {Absent}] /\ changes' \in 0 .. MaxChanges /\ had' \in [Paths -> SUBSET OnDisk]
    BY DEF Finish, PublishedInv
  <1>3. QED
    BY <1>1, <1>2, NoJobFits, PublishedQuiet DEF Places

(* ... and of those that touch neither the directory nor the state. *)
LEMMA PublishedGoesOn ==
    ASSUME PublishedInv, NEW r \in Processes, NEW j, NEW at \in Places,
           pc' = [pc EXCEPT ![r] = at], job' = [job EXCEPT ![r] = j], JobFits(versions, j, at),
           UNCHANGED <<disk, changes, had, shared, state>>,
           held' \in [Processes -> [Paths -> SUBSET (Files \cup {Absent})]]
    PROVE  PublishedInv'
  <1>1. /\ disk' \in [Paths -> OnDisk \cup {Absent}] /\ changes' \in 0 .. MaxChanges /\ had' \in [Paths -> SUBSET OnDisk]
        /\ {base', checkedOut'} \subseteq 0 .. Len(versions) /\ cache' \in Caches
        /\ \A p \in Paths : PublishedIn(versions, p, cache'[p])
    BY DEF PublishedInv, state
  <1>2. QED
    BY <1>1, PublishedQuiet

LEMMA OneVersionMore ==
    ASSUME PublishedInv, NEW entry \in PublishedVersions, Len(versions) < MaxVersions,
           versions' = Append(versions, entry)
    PROVE  /\ versions' \in Seq(PublishedVersions)
           /\ Len(versions) \in Nat /\ Len(versions') = Len(versions) + 1
           /\ Len(versions') <= MaxVersions
           /\ versions'[Len(versions) + 1] = entry
           /\ \A v \in 1 .. Len(versions) : versions'[v] = versions[v]
           /\ 0 .. Len(versions) \subseteq 0 .. Len(versions')
           /\ Jobs(Len(versions)) \subseteq Jobs(Len(versions'))
           /\ \A p, e : PublishedIn(versions, p, e) => PublishedIn(versions', p, e)
           /\ \A j, at : JobFits(versions, j, at) => JobFits(versions', j, at)
  <1>1. /\ versions \in Seq(PublishedVersions) /\ versions' \in Seq(PublishedVersions)
        /\ Len(versions) \in Nat /\ Len(versions') = Len(versions) + 1
        /\ versions'[Len(versions) + 1] = entry
        /\ \A v \in 1 .. Len(versions) : versions'[v] = versions[v]
    BY DEF PublishedInv
  <1>2. Len(versions') <= MaxVersions /\ 0 .. Len(versions) \subseteq 0 .. Len(versions')
    BY <1>1, BoundAssumption
  <1>3. Jobs(Len(versions)) \subseteq Jobs(Len(versions'))
    BY <1>2 DEF Jobs
  <1>4. /\ \A p, e : PublishedIn(versions, p, e) => PublishedIn(versions', p, e)
        /\ \A j, at : JobFits(versions, j, at) => JobFits(versions', j, at)
    <2>1. /\ Len(versions) \in Nat /\ Len(versions') \in Nat
          /\ Len(versions) <= Len(versions')
          /\ \A v \in 1 .. Len(versions) : versions'[v] = versions[v]
      BY <1>1
    <2>2. QED
      BY <2>1, MoreVersionsFit
  <1>5. QED
    BY <1>1, <1>2, <1>3, <1>4

LEMMA ManifestsOfVersions ==
    ASSUME PublishedInv, NEW v \in 0 .. Len(versions)
    PROVE  ManifestOf(v) \in Manifests
  <1>1. CASE v = 0
    BY <1>1 DEF ManifestOf, Manifests, Empty
  <1>2. CASE v # 0
    <2>1. versions \in Seq(PublishedVersions) /\ v \in 1 .. Len(versions)
      BY <1>2 DEF PublishedInv
    <2>2. versions[v] \in PublishedVersions
      BY <2>1, ElementOfSeq
    <2>3. QED
      BY <1>2, <2>2 DEF ManifestOf, PublishedVersions
  <1>3. QED
    BY <1>1, <1>2

(* The versions of this and of other spaces. *)
LEMMA PublishedOthers ==
    ASSUME PublishedInv, NEW p \in Paths, NEW x \in Files \cup {Absent}, OthersPublish(p, x)
    PROVE  PublishedInv'
  <1> DEFINE m == [ManifestOf(ref) EXCEPT ![p] = x]
             entry == [files |-> m, sizes |-> [q \in PathsOf(m) |-> SizeOf[m[q]]]]
  <1>1. m \in Manifests
    BY ManifestsOfVersions DEF PublishedInv, Manifests
  <1>2. [q \in PathsOf(m) |-> SizeOf[m[q]]] \in [PathsOf(m) -> Nat]
    <2>1. \A q \in PathsOf(m) : m[q] \in Files
      BY <1>1 DEF PathsOf, Manifests
    <2>2. QED
      BY <2>1, SizeAssumption
  <1>3. entry \in PublishedVersions
    <2>1. PathsOf(m) \in SUBSET Paths
      BY DEF PathsOf
    <2> HIDE DEF m
    <2>2. QED
      BY <1>1, <1>2, <2>1 DEF PublishedVersions
  <1> HIDE DEF entry
  <1>4. /\ versions' = Append(versions, entry) /\ Len(versions) < MaxVersions
        /\ ref' = Len(versions) + 1 /\ UNCHANGED <<disk, changes, had, state, pc, job, held>>
    BY DEF OthersPublish, entry
  <1>5. /\ \A q \in Paths : PublishedIn(versions', q, cache[q])
        /\ \A r \in Processes : JobFits(versions', job[r], pc[r])
        /\ job \in [Processes -> Jobs(Len(versions'))]
    BY <1>3, <1>4, OneVersionMore DEF PublishedInv
  <1>6. {ref', base, checkedOut} \subseteq 0 .. Len(versions')
    BY <1>3, <1>4, OneVersionMore DEF PublishedInv
  <1>7. versions' \in Seq(PublishedVersions) /\ Len(versions') <= MaxVersions
    BY <1>3, <1>4, OneVersionMore
  <1>8. QED
    BY <1>4, <1>5, <1>6, <1>7 DEF PublishedInv, state

LEMMA PublishedPublish ==
    ASSUME PublishedInv, NEW r \in Processes, Publish(r)
    PROVE  PublishedInv'
  <1> DEFINE entry == [files |-> FilesOf(job[r].next), sizes |-> SizesOf(job[r].next)]
             n == Len(versions) + 1
             j == [NoJob EXCEPT !.kind = job[r].kind, !.next = job[r].next, !.version = n]
  <1>1. JobFits(versions, job[r], "file") /\ job[r] \in Jobs(Len(versions)) /\ job[r].next \in Caches
    BY DEF Publish, Goto, PublishedInv, Jobs
  <1>2. entry \in PublishedVersions
    <2>1. FilesOf(job[r].next) \in Manifests
      BY <1>1, FilesOfCaches
    <2>2. PathsOf(job[r].next) \in SUBSET Paths
      BY DEF PathsOf
    <2>3. SizesOf(job[r].next) \in [PathsOf(job[r].next) -> Nat]
      <3>1. \A p \in PathsOf(job[r].next) : job[r].next[p] \in Lookups
        BY <1>1 DEF PathsOf, Caches
      <3>2. \A e \in Lookups : e.size \in Nat
        BY SizeAssumption DEF Lookups
      <3>3. QED
        BY <3>1, <3>2 DEF SizesOf
    <2>4. QED
      BY <2>1, <2>2, <2>3 DEF PublishedVersions
  <1> HIDE DEF entry
  <1>3. /\ versions' = Append(versions, entry) /\ Len(versions) < MaxVersions
        /\ ref' \in {ref, n} /\ UNCHANGED <<disk, changes, had, state, held>>
        /\ pc' = [pc EXCEPT ![r] = "head"] /\ job' = [job EXCEPT ![r] = j]
        /\ job[r].kind \in {"commit", "snapshot"}
    BY DEF Publish, PutVersion, Goto, Keep, entry
  <1>4. /\ versions' \in Seq(PublishedVersions) /\ Len(versions') <= MaxVersions
        /\ Len(versions') = n /\ n \in Nat \ {0} /\ versions'[n] = entry
        /\ Jobs(Len(versions)) \subseteq Jobs(n)
        /\ {ref', base, checkedOut} \subseteq 0 .. n
    BY <1>2, <1>3, OneVersionMore DEF PublishedInv
  <1>5. JobFits(versions', j, "head") /\ j \in Jobs(n)
    <2>1. j \in Jobs(n)
      <3>1. NoJob \in Jobs(n)
        BY <1>4, NoJobFits DEF JobFits
      <3>2. QED
        <4>1. n \in 0 .. n /\ job[r].kind \in Kinds
          BY <1>3, <1>4 DEF Kinds
        <4> HIDE DEF n
        <4>2. QED
          BY <1>1, <3>1, <4>1 DEF Jobs
    <2>2. j.kind = job[r].kind /\ j.version = n /\ j.next = job[r].next /\ j # NoJob
      BY <1>3 DEF NoJob
    <2> HIDE DEF j
    <2>3. versions'[j.version].files = FilesOf(j.next)
      BY <1>4, <2>2 DEF entry
    <2>4. QED
      BY <1>3, <1>4, <2>1, <2>2, <2>3 DEF JobFits
  <1> HIDE DEF j
  <1>6. /\ \A q \in Paths : PublishedIn(versions', q, cache[q])
        /\ \A q \in Processes : JobFits(versions', job[q], pc[q])
        /\ job \in [Processes -> Jobs(n)]
    BY <1>2, <1>3, <1>4, OneVersionMore DEF PublishedInv
  <1>7. /\ job' \in [Processes -> Jobs(n)] /\ pc' \in [Processes -> Places]
        /\ \A q \in Processes : JobFits(versions', job'[q], pc'[q])
    BY <1>3, <1>5, <1>6 DEF PublishedInv, Places
  <1>8. QED
    BY <1>3, <1>4, <1>6, <1>7 DEF PublishedInv, state

(* What a merge brings in is the other side's.                             *)
LEMMA IncomingIsTheirs ==
    ASSUME NEW b \in Manifests, NEW ours \in Manifests, NEW theirs \in Manifests
    PROVE  /\ MergeOf(b, ours, theirs) \in Manifests
           /\ Outgoing(ours, MergeOf(b, ours, theirs)) \subseteq Paths
           /\ Incoming(ours, MergeOf(b, ours, theirs)) \subseteq Paths
           /\ \A p \in Incoming(ours, MergeOf(b, ours, theirs)) :
                 /\ MergeOf(b, ours, theirs)[p] # Absent
                 /\ MergeOf(b, ours, theirs)[p] = theirs[p]
  <1> DEFINE m == MergeOf(b, ours, theirs)
  <1>1. \A p \in Paths : m[p] \in {ours[p], theirs[p], Absent}
    BY DEF MergeOf, Resolve, ResolveAdded, ResolveEdited, ResolveDeleted, Outcome
  <1>2. m \in Manifests
    <2>1. \A p \in Paths : m[p] \in Files \cup {Absent}
      BY <1>1 DEF Manifests
    <2>2. QED
      BY <2>1 DEF MergeOf, Manifests
  <1> HIDE DEF m
  <1>3. /\ Incoming(ours, m) = Appeared(ours, m) \cup Changed(ours, m)
        /\ Outgoing(ours, m) = Vanished(ours, m)
    BY <1>2, IncomingIsNewOrChanged
  <1>4. /\ Incoming(ours, m) \subseteq Paths /\ Outgoing(ours, m) \subseteq Paths
        /\ \A p \in Incoming(ours, m) : m[p] # Absent /\ m[p] # ours[p]
    BY <1>3 DEF Appeared, Vanished, Changed, PathsOf
  <1>5. \A p \in Incoming(ours, m) : m[p] = theirs[p]
    BY <1>1, <1>4
  <1>6. QED
    BY <1>2, <1>4, <1>5 DEF m

(* The files are scanned. *)
LEMMA PublishedBegin ==
    ASSUME PublishedInv, NEW r \in Processes, NEW kind \in Kinds, Begin(r, kind)
    PROVE  PublishedInv'
  <1> DEFINE saw == [p \in Paths |-> IF p \in Present THEN StatOf(p) ELSE Absent]
             from == IF kind = "sync" THEN base ELSE 0
             to == IF kind = "sync" THEN ref ELSE 0
             j == [NoJob EXCEPT !.kind = kind, !.todo = Present, !.seen = saw,
                                !.from = from, !.version = to]
  <1>1. saw \in [Paths -> Stats \cup {Absent}] /\ Present \in SUBSET Paths
    BY FilesOnDisk DEF PublishedInv, Present
  <1>2. from \in 0 .. Len(versions) /\ to \in 0 .. Len(versions)
    BY DEF PublishedInv
  <1>3. kind \in {"commit", "snapshot", "sync"} /\ (kind = "sync" => to # 0)
    BY DEF Begin, Kinds
  <1>4. JobFits(versions, j, "load")
    <2> HIDE DEF saw, from, to
    <2>1. NoJob \in Jobs(Len(versions))
      BY NoJobFits DEF JobFits
    <2>2. j \in Jobs(Len(versions))
      BY <1>1, <1>2, <2>1 DEF Jobs
    <2>3. j.kind = kind /\ j.version = to /\ j # NoJob
      BY <1>3 DEF NoJob
    <2>4. QED
      BY <1>3, <2>2, <2>3 DEF JobFits
  <1>5. /\ pc' = [pc EXCEPT ![r] = "load"] /\ job' = [job EXCEPT ![r] = j]
        /\ UNCHANGED <<disk, changes, had, shared, state>>
    BY DEF Begin, Goto, Keep
  <1>6. held' \in [Processes -> [Paths -> SUBSET (Files \cup {Absent})]]
    <2>1. \A p \in Paths : FileAt(p) \in Files \cup {Absent}
      BY DEF PublishedInv, FileAt, OnDisk
    <2>2. QED
      BY <2>1 DEF Begin, PublishedInv
  <1> HIDE DEF j
  <1>7. QED
    BY <1>4, <1>5, <1>6, PublishedGoesOn DEF Places

LEMMA HeldStays ==
    ASSUME PublishedInv, UNCHANGED held
    PROVE  held' \in [Processes -> [Paths -> SUBSET (Files \cup {Absent})]]
    BY DEF PublishedInv

LEMMA PublishedLoad ==
    ASSUME PublishedInv, NEW r \in Processes, Load(r)
    PROVE  PublishedInv'
  <1> DEFINE j == [job[r] EXCEPT !.old = cache]
  <1>1. JobFits(versions, job[r], "load") /\ cache \in Caches
    BY DEF Load, Goto, PublishedInv
  <1>2. /\ j \in Jobs(Len(versions)) /\ j.kind = job[r].kind /\ j.version = job[r].version
    BY <1>1 DEF JobFits, Jobs
  <1>3. JobFits(versions, j, "file")
    <2> HIDE DEF j
    <2>1. j # NoJob
      BY <1>1, <1>2 DEF JobFits, NoJob
    <2>2. QED
      BY <1>1, <1>2, <2>1 DEF JobFits
  <1>4. /\ pc' = [pc EXCEPT ![r] = "file"] /\ job' = [job EXCEPT ![r] = j]
        /\ UNCHANGED <<disk, changes, had, shared, state, held>>
    BY DEF Load, Goto, Keep
  <1> HIDE DEF j
  <1>5. QED
    BY <1>3, <1>4, HeldStays, PublishedGoesOn DEF Places

(* One path of the scan is done, with its entry for the new cache. *)
LEMMA DoneFits ==
    ASSUME PublishedInv, NEW r \in Processes, pc[r] \in {"file", "stat"}, NEW p \in Paths,
           NEW e \in Lookups
    PROVE  JobFits(versions, [Done(r, p) EXCEPT !.next[p] = e], "file")
  <1> DEFINE j == [Done(r, p) EXCEPT !.next[p] = e]
  <1>1. JobFits(versions, job[r], "file")
    BY DEF PublishedInv, JobFits
  <1>2. job[r] \in Jobs(Len(versions))
    BY <1>1 DEF JobFits
  <1>3. Done(r, p) \in Jobs(Len(versions))
    BY <1>2 DEF Done, Jobs, Caches
  <1>4. j \in Jobs(Len(versions))
    BY <1>3 DEF Jobs, Caches
  <1>5. j.kind = job[r].kind /\ j.version = job[r].version
    BY <1>2 DEF Done, Jobs
  <1> HIDE DEF j
  <1>6. j # NoJob
    BY <1>1, <1>5 DEF JobFits, NoJob
  <1>7. JobFits(versions, j, "file")
    BY <1>1, <1>4, <1>5, <1>6 DEF JobFits
  <1>8. QED
    BY <1>7 DEF j

LEMMA PublishedVouched ==
    ASSUME PublishedInv, NEW r \in Processes, Vouched(r)
    PROVE  PublishedInv'
  <1>1. PICK p \in Paths :
           /\ Matches(job[r].old[p], job[r].seen[p])
           /\ Keep(r, [Done(r, p) EXCEPT !.next[p] = job[r].old[p]])
    BY DEF Vouched
  <1> DEFINE j == [Done(r, p) EXCEPT !.next[p] = job[r].old[p]]
  <1>2. job[r].old[p] \in Lookups
    BY <1>1 DEF PublishedInv, Jobs, Caches, Matches
  <1>3. JobFits(versions, j, "file")
    BY <1>2, DoneFits DEF Vouched
  <1>4. /\ pc' = [pc EXCEPT ![r] = "file"] /\ job' = [job EXCEPT ![r] = j]
        /\ UNCHANGED <<disk, changes, had, shared, state, held>>
    BY <1>1 DEF Vouched, Keep, PublishedInv
  <1> HIDE DEF j
  <1>5. QED
    BY <1>3, <1>4, HeldStays, PublishedGoesOn DEF Places

LEMMA PublishedRead ==
    ASSUME PublishedInv, NEW r \in Processes, Read(r)
    PROVE  PublishedInv'
  <1>1. PICK p \in Present :
           Keep(r, [job[r] EXCEPT !.read = disk[p].file, !.old[p] = Absent, !.fresh = {p}])
    BY DEF Read
  <1> DEFINE j == [job[r] EXCEPT !.read = disk[p].file, !.old[p] = Absent, !.fresh = {p}]
  <1>2. JobFits(versions, job[r], "file") /\ p \in Paths /\ disk[p].file \in Files
    BY FilesOnDisk DEF Read, Goto, PublishedInv
  <1>3. /\ j \in Jobs(Len(versions)) /\ j.kind = job[r].kind /\ j.version = job[r].version
        /\ j.read \in Files
    BY <1>2 DEF JobFits, Jobs, Caches
  <1>4. JobFits(versions, j, "stat")
    <2> HIDE DEF j
    <2>1. j # NoJob
      BY <1>2, <1>3 DEF JobFits, NoJob
    <2>2. QED
      BY <1>2, <1>3, <2>1 DEF JobFits
  <1>5. /\ pc' = [pc EXCEPT ![r] = "stat"] /\ job' = [job EXCEPT ![r] = j]
        /\ UNCHANGED <<disk, changes, had, shared, state, held>>
    BY <1>1 DEF Read, Goto, Keep
  <1> HIDE DEF j
  <1>6. QED
    BY <1>4, <1>5, HeldStays, PublishedGoesOn DEF Places

LEMMA PublishedRestat ==
    ASSUME PublishedInv, NEW r \in Processes, Restat(r)
    PROVE  PublishedInv'
  <1>1. PICK p \in Present :
           Keep(r, [Done(r, p) EXCEPT !.next[p] = CacheEntry(StatOf(p), job[r].read)])
    BY DEF Restat
  <1> DEFINE e == CacheEntry(StatOf(p), job[r].read)
             j == [Done(r, p) EXCEPT !.next[p] = e]
  <1>2. p \in Paths /\ StatOf(p) \in Stats
    BY FilesOnDisk DEF PublishedInv
  <1>3. job[r].read \in Files /\ e \in Lookups
    <2>1. JobFits(versions, job[r], "stat")
      BY DEF Restat, Goto, PublishedInv
    <2>2. QED
      BY <1>2, <2>1, EntriesOfStats DEF JobFits
  <1>4. JobFits(versions, j, "file")
    BY <1>2, <1>3, DoneFits DEF Restat, Goto
  <1>5. /\ pc' = [pc EXCEPT ![r] = "file"] /\ job' = [job EXCEPT ![r] = j]
        /\ UNCHANGED <<disk, changes, had, shared, state, held>>
    BY <1>1 DEF Restat, Goto, Keep
  <1> HIDE DEF j
  <1>6. QED
    BY <1>4, <1>5, HeldStays, PublishedGoesOn DEF Places

(* A command that ends and leaves the state of the space as it is. *)
LEMMA PublishedEnd ==
    ASSUME PublishedInv, NEW r \in Processes, Finish(r), UNCHANGED <<disk, changes, had, shared, state>>
    PROVE  PublishedInv'
  <1>1. /\ {base', checkedOut'} \subseteq 0 .. Len(versions) /\ cache' \in Caches
        /\ \A p \in Paths : PublishedIn(versions, p, cache'[p])
    BY DEF PublishedInv, state
  <1>2. QED
    BY <1>1, PublishedFinish

LEMMA PublishedRecordHead ==
    ASSUME PublishedInv, NEW r \in Processes, RecordHead(r)
    PROVE  PublishedInv'
  <1>1. JobFits(versions, job[r], "head")
    BY DEF RecordHead, Goto, PublishedInv
  <1>2. JobFits(versions, job[r], "save") /\ job[r].version \in 0 .. Len(versions)
    BY <1>1 DEF JobFits, Jobs
  <1>3. /\ pc' = [pc EXCEPT ![r] = "save"] /\ job' = [job EXCEPT ![r] = job[r]]
        /\ {base', checkedOut'} \subseteq 0 .. Len(versions)
        /\ UNCHANGED <<disk, changes, had, shared, cache>>
    BY <1>2 DEF RecordHead, Goto, PublishedInv
  <1>4. held' \in [Processes -> [Paths -> SUBSET (Files \cup {Absent})]]
    BY DEF RecordHead, PublishedInv
  <1>5. /\ disk' \in [Paths -> OnDisk \cup {Absent}] /\ changes' \in 0 .. MaxChanges /\ had' \in [Paths -> SUBSET OnDisk]
        /\ cache' \in Caches /\ \A p \in Paths : PublishedIn(versions, p, cache'[p])
    BY <1>3 DEF PublishedInv
  <1>6. QED
    BY <1>2, <1>3, <1>4, <1>5, PublishedQuiet DEF Places

(* A record saves what its version says, a sync or a restore what it wrote *)
(* from one.                                                               *)
LEMMA PublishedSaveCache ==
    ASSUME PublishedInv, NEW r \in Processes, SaveCache(r)
    PROVE  PublishedInv'
  <1>1. JobFits(versions, job[r], pc[r]) /\ pc[r] \in {"save", "write"} /\ cache' = job[r].next
    BY DEF SaveCache, PublishedInv
  <1>2. job[r] \in Jobs(Len(versions)) /\ cache' \in Caches
    BY <1>1 DEF JobFits, Jobs
  <1>3. ASSUME NEW p \in Paths PROVE PublishedIn(versions, p, cache'[p])
    <2>1. CASE pc[r] = "write"
      BY <1>1, <2>1 DEF JobFits
    <2>2. CASE pc[r] = "save"
      <3>1. /\ job[r].version \in 1 .. Len(versions)
            /\ versions[job[r].version].files[p] = FilesOf(job[r].next)[p]
        BY <1>1, <1>2, <2>2 DEF JobFits, Jobs, PublishedInv
      <3>2. QED
        BY <1>1, <3>1 DEF PublishedIn, FilesOf
    <2>3. QED
      BY <1>1, <2>1, <2>2
  <1>4. {base', checkedOut'} \subseteq 0 .. Len(versions) /\ UNCHANGED <<disk, changes, had, shared>>
    BY DEF SaveCache, PublishedInv
  <1>5. CASE job[r].kind = "sync"
    <2>1. /\ pc[r] = "write" /\ pc' = [pc EXCEPT ![r] = "settle"]
          /\ job' = [job EXCEPT ![r] = job[r]] /\ UNCHANGED held
      BY <1>5 DEF SaveCache, Goto, PublishedInv
    <2>2. JobFits(versions, job[r], "settle")
      BY <1>1, <1>5, <2>1 DEF JobFits
    <2>3. disk' \in [Paths -> OnDisk \cup {Absent}] /\ changes' \in 0 .. MaxChanges /\ had' \in [Paths -> SUBSET OnDisk]
      BY <1>4 DEF PublishedInv
    <2>4. QED
      BY <1>2, <1>3, <1>4, <2>1, <2>2, <2>3, HeldStays, PublishedQuiet DEF Places
  <1>6. CASE job[r].kind # "sync"
    BY <1>2, <1>3, <1>4, <1>6, PublishedFinish DEF SaveCache
  <1>7. QED
    BY <1>5, <1>6

LEMMA PublishedSettle ==
    ASSUME PublishedInv, NEW r \in Processes, Settle(r)
    PROVE  PublishedInv'
  <1>1. JobFits(versions, job[r], "settle")
    BY DEF Settle, PublishedInv
  <1>2. job[r].version \in 0 .. Len(versions)
    BY <1>1 DEF JobFits, Jobs
  <1>3. cache' \in Caches /\ \A p \in Paths : PublishedIn(versions, p, cache'[p])
    BY DEF Settle, PublishedInv
  <1>4. QED
    BY <1>2, <1>3, PublishedFinish DEF Settle

LEMMA PublishedSyncMerge ==
    ASSUME PublishedInv, NEW r \in Processes, SyncMerge(r)
    PROVE  PublishedInv'
  <1> DEFINE theirs == ManifestOf(job[r].version)
             ours == FilesOf(job[r].next)
             merged == MergeOf(ManifestOf(job[r].from), ours, theirs)
             j == [NoJob EXCEPT !.kind = "sync", !.version = job[r].version,
                                !.files = merged, !.next = cache,
                                !.todo = Incoming(ours, merged),
                                !.remove = Outgoing(ours, merged)]
  <1>1. /\ JobFits(versions, job[r], "file") /\ job[r].kind = "sync"
        /\ cache \in Caches /\ \A p \in Paths : PublishedIn(versions, p, cache[p])
    BY DEF SyncMerge, Scanned, Goto, PublishedInv
  <1>2. /\ job[r].version \in 0 .. Len(versions) /\ job[r].version # 0
        /\ job[r].from \in 0 .. Len(versions) /\ job[r].next \in Caches
    BY <1>1 DEF JobFits, Jobs
  <1>3. theirs \in Manifests /\ ManifestOf(job[r].from) \in Manifests /\ ours \in Manifests
    BY <1>2, ManifestsOfVersions, FilesOfCaches
  <1>4. theirs = versions[job[r].version].files
    BY <1>2 DEF ManifestOf
  <1> HIDE DEF theirs, ours
  <1>5. /\ merged \in Manifests
        /\ Incoming(ours, merged) \subseteq Paths /\ Outgoing(ours, merged) \subseteq Paths
        /\ \A p \in Incoming(ours, merged) : merged[p] # Absent /\ merged[p] = theirs[p]
    BY <1>3, IncomingIsTheirs
  <1>6. JobFits(versions, j, "write")
    <2> HIDE DEF merged
    <2>1. NoJob \in Jobs(Len(versions))
      BY NoJobFits DEF JobFits
    <2>2. j \in Jobs(Len(versions))
      BY <1>1, <1>2, <1>5, <2>1 DEF Jobs, Kinds
    <2>3. /\ j.kind = "sync" /\ j.version = job[r].version /\ j.files = merged
          /\ j.next = cache /\ j.todo = Incoming(ours, merged) /\ j.fresh = {} /\ j # NoJob
      BY DEF NoJob
    <2> HIDE DEF j
    <2>4. QED
      BY <1>1, <1>2, <1>4, <1>5, <2>2, <2>3 DEF JobFits
  <1>7. /\ pc' = [pc EXCEPT ![r] = "write"] /\ job' = [job EXCEPT ![r] = j]
        /\ UNCHANGED <<disk, changes, had, shared, state, held>>
    BY DEF SyncMerge, MergeInto, Goto, Keep, theirs, ours
  <1> HIDE DEF j
  <1>8. QED
    BY <1>6, <1>7, HeldStays, PublishedGoesOn DEF Places

LEMMA PublishedBeginRestore ==
    ASSUME PublishedInv, NEW r \in Processes, BeginRestore(r)
    PROVE  PublishedInv'
  <1> DEFINE m == ManifestOf(checkedOut)
             j == [NoJob EXCEPT !.kind = "restore", !.version = checkedOut,
                                !.files = m, !.todo = PathsOf(m)]
  <1>1. checkedOut \in 0 .. Len(versions) /\ checkedOut # 0
    BY DEF BeginRestore, PublishedInv
  <1>2. m \in Manifests /\ m = versions[checkedOut].files
    BY <1>1, ManifestsOfVersions DEF ManifestOf
  <1> HIDE DEF m
  <1>3. JobFits(versions, j, "write")
    <2>1. NoJob \in Jobs(Len(versions))
      BY NoJobFits DEF JobFits
    <2>2. PathsOf(m) \in SUBSET Paths /\ \A p \in PathsOf(m) : m[p] # Absent
      BY DEF PathsOf
    <2>3. j \in Jobs(Len(versions))
      BY <1>1, <1>2, <2>1, <2>2 DEF Jobs, Kinds
    <2>4. /\ j.kind = "restore" /\ j.version = checkedOut /\ j.files = m
          /\ j.next = NoCache /\ j.todo = PathsOf(m) /\ j.fresh = {} /\ j # NoJob
      BY DEF NoJob
    <2>5. \A p \in Paths : PublishedIn(versions, p, NoCache[p])
      BY DEF PublishedIn, NoCache
    <2> HIDE DEF j
    <2>6. QED
      BY <1>1, <1>2, <2>2, <2>3, <2>4, <2>5 DEF JobFits
  <1>4. /\ pc' = [pc EXCEPT ![r] = "write"] /\ job' = [job EXCEPT ![r] = j]
        /\ UNCHANGED <<disk, changes, had, shared, state, held>>
    BY DEF BeginRestore, Goto, Keep, m
  <1> HIDE DEF j
  <1>5. QED
    BY <1>3, <1>4, HeldStays, PublishedGoesOn DEF Places

(* What is left to write gets less, and what is saved later is published.  *)
LEMMA WritingFits ==
    ASSUME NEW i, NEW j, NEW at \in {"write", "written"}, NEW to \in {"write", "written"},
           JobFits(versions, i, at), j \in Jobs(Len(versions)), j.kind = i.kind,
           j.version = i.version, j.files = i.files,
           j.todo \cup j.fresh \subseteq i.todo \cup i.fresh,
           \A p \in Paths : PublishedIn(versions, p, j.next[p])
    PROVE  JobFits(versions, j, to)
  <1>1. j # NoJob
    BY DEF JobFits, NoJob
  <1>2. QED
    BY <1>1 DEF JobFits

(* One written file gets an entry. *)
LEMMA WrittenIsPublished ==
    ASSUME PublishedInv, NEW j, NEW at \in {"write", "written"}, JobFits(versions, j, at),
           NEW p \in (j.todo \cup j.fresh) \cap Present
    PROVE  LET e == CacheEntry(StatOf(p), j.files[p])
           IN  /\ p \in Paths /\ e \in Lookups /\ e.file = j.files[p]
               /\ PublishedIn(versions, p, e)
  <1>1. StatOf(p) \in Stats /\ p \in Paths
    BY FilesOnDisk DEF PublishedInv
  <1>2. j.files[p] \in Files
    BY <1>1 DEF JobFits, Jobs, Manifests
  <1>3. /\ j.version \in 1 .. Len(versions)
        /\ j.files[p] = versions[j.version].files[p]
    <2>1. j.version \in 0 .. Len(versions) /\ Len(versions) \in Nat
      BY DEF JobFits, Jobs, PublishedInv
    <2>2. QED
      BY <2>1 DEF JobFits
  <1>4. CacheEntry(StatOf(p), j.files[p]).file = j.files[p]
    BY DEF CacheEntry
  <1>5. QED
    BY <1>1, <1>2, <1>3, <1>4, EntriesOfStats DEF PublishedIn

LEMMA PublishedWriteFile ==
    ASSUME PublishedInv, NEW r \in Processes, WriteFile(r)
    PROVE  PublishedInv'
  <1>1. PICK p \in Paths :
           /\ p \in job[r].todo /\ ChangeFile(p, job[r].files[p])
           /\ Keep(r, [job[r] EXCEPT !.fresh = @ \cup {p}])
    BY DEF WriteFile, IsNext, IsFirst
  <1> DEFINE j == [job[r] EXCEPT !.fresh = @ \cup {p}]
  <1>2. JobFits(versions, job[r], "write") /\ job[r] \in Jobs(Len(versions))
    BY DEF WriteFile, Goto, PublishedInv, JobFits
  <1>3. /\ j \in Jobs(Len(versions)) /\ j.kind = job[r].kind /\ j.version = job[r].version
        /\ j.files = job[r].files /\ j.next = job[r].next
        /\ j.todo \cup j.fresh \subseteq job[r].todo \cup job[r].fresh
    BY <1>1, <1>2 DEF Jobs
  <1> HIDE DEF j
  <1>4. JobFits(versions, j, "written")
    <2>1. \A q \in Paths : PublishedIn(versions, q, j.next[q])
      BY <1>2, <1>3 DEF JobFits
    <2>2. QED
      BY <1>2, <1>3, <2>1, WritingFits
  <1>5. job[r].files[p] \in Files \cup {Absent}
    BY <1>2 DEF Jobs, Manifests
  <1>6. /\ pc' = [pc EXCEPT ![r] = "written"] /\ job' = [job EXCEPT ![r] = j]
        /\ UNCHANGED <<shared, state>>
    BY <1>1 DEF WriteFile, Goto, Keep, j
  <1>7. /\ {base', checkedOut'} \subseteq 0 .. Len(versions) /\ cache' \in Caches
        /\ \A q \in Paths : PublishedIn(versions, q, cache'[q])
    BY <1>6 DEF PublishedInv, state
  <1>8. QED
    BY <1>1, <1>4, <1>5, <1>6, <1>7, ChangedFilesFit, PublishedQuiet DEF Places

LEMMA PublishedRestoreGoesOn ==
    ASSUME PublishedInv, NEW r \in Processes, RestoreGoesOn(r)
    PROVE  PublishedInv'
  <1>1. PICK p \in Paths : Keep(r, [job[r] EXCEPT !.todo = @ \ {p}])
    BY DEF RestoreGoesOn
  <1> DEFINE j == [job[r] EXCEPT !.todo = @ \ {p}]
  <1>2. JobFits(versions, job[r], "written") /\ job[r] \in Jobs(Len(versions))
    BY DEF RestoreGoesOn, Goto, PublishedInv, JobFits
  <1>3. /\ j \in Jobs(Len(versions)) /\ j.kind = job[r].kind /\ j.version = job[r].version
        /\ j.files = job[r].files /\ j.next = job[r].next
        /\ j.todo \cup j.fresh \subseteq job[r].todo \cup job[r].fresh
    BY <1>2 DEF Jobs
  <1>4. /\ pc' = [pc EXCEPT ![r] = "write"] /\ job' = [job EXCEPT ![r] = j]
        /\ UNCHANGED <<disk, changes, had, shared, state, held>>
    BY <1>1 DEF RestoreGoesOn, Goto, Keep
  <1> HIDE DEF j
  <1>5. JobFits(versions, j, "write")
    <2>1. \A q \in Paths : PublishedIn(versions, q, j.next[q])
      BY <1>2, <1>3 DEF JobFits
    <2>2. QED
      BY <1>2, <1>3, <2>1, WritingFits
  <1>6. QED
    BY <1>4, <1>5, HeldStays, PublishedGoesOn DEF Places

(* A file that was written is stat'ed: its entry is that of the version.   *)
LEMMA PublishedRefresh ==
    ASSUME PublishedInv, NEW r \in Processes, Refresh(r)
    PROVE  PublishedInv'
  <1>1. PICK p \in Present :
           /\ p \in job[r].fresh
           /\ Keep(r, [job[r] EXCEPT !.fresh = @ \ {p},
                                     !.next[p] = CacheEntry(StatOf(p), job[r].files[p])])
    BY DEF Refresh, IsFirst
  <1> DEFINE e == CacheEntry(StatOf(p), job[r].files[p])
             j == [job[r] EXCEPT !.fresh = @ \ {p}, !.next[p] = e]
  <1>2. JobFits(versions, job[r], "write") /\ job[r] \in Jobs(Len(versions))
    BY DEF Refresh, PublishedInv, JobFits
  <1>3. p \in Paths /\ e \in Lookups /\ PublishedIn(versions, p, e)
    BY <1>1, <1>2, WrittenIsPublished
  <1>4. /\ pc' = [pc EXCEPT ![r] = "write"] /\ job' = [job EXCEPT ![r] = j]
        /\ UNCHANGED <<disk, changes, had, shared, state, held>>
    BY <1>1 DEF Refresh, Keep, PublishedInv
  <1> HIDE DEF e
  <1>5. /\ j \in Jobs(Len(versions)) /\ j.kind = job[r].kind /\ j.version = job[r].version
        /\ j.files = job[r].files
        /\ j.todo \cup j.fresh \subseteq job[r].todo \cup job[r].fresh
        /\ j.next[p] = e /\ \A q \in Paths \ {p} : j.next[q] = job[r].next[q]
    BY <1>2, <1>3 DEF Jobs, Caches
  <1> HIDE DEF j
  <1>6. JobFits(versions, j, "write")
    <2>1. \A q \in Paths : PublishedIn(versions, q, j.next[q])
      BY <1>2, <1>3, <1>5 DEF JobFits
    <2>2. QED
      BY <1>2, <1>5, <2>1, WritingFits
  <1>7. QED
    BY <1>4, <1>6, HeldStays, PublishedGoesOn DEF Places

LEMMA PublishedSyncGoesOn ==
    ASSUME PublishedInv, NEW r \in Processes, SyncGoesOn(r)
    PROVE  PublishedInv'
  <1>1. PICK p \in Present :
           /\ p \in job[r].todo
           /\ Keep(r, [job[r] EXCEPT !.todo = @ \ {p}, !.fresh = {},
                                     !.next[p] = CacheEntry(StatOf(p), job[r].files[p])])
    BY DEF SyncGoesOn, IsNext, IsFirst
  <1> DEFINE e == CacheEntry(StatOf(p), job[r].files[p])
             j == [job[r] EXCEPT !.todo = @ \ {p}, !.fresh = {}, !.next[p] = e]
  <1>2. JobFits(versions, job[r], "written") /\ job[r] \in Jobs(Len(versions))
    BY DEF SyncGoesOn, Goto, PublishedInv, JobFits
  <1>3. p \in Paths /\ e \in Lookups /\ PublishedIn(versions, p, e)
    BY <1>1, <1>2, WrittenIsPublished
  <1>4. /\ pc' = [pc EXCEPT ![r] = "write"] /\ job' = [job EXCEPT ![r] = j]
        /\ UNCHANGED <<disk, changes, had, shared, state, held>>
    BY <1>1 DEF SyncGoesOn, Goto, Keep
  <1> HIDE DEF e
  <1>5. /\ j \in Jobs(Len(versions)) /\ j.kind = job[r].kind /\ j.version = job[r].version
        /\ j.files = job[r].files
        /\ j.todo \cup j.fresh \subseteq job[r].todo \cup job[r].fresh
        /\ j.next[p] = e /\ \A q \in Paths \ {p} : j.next[q] = job[r].next[q]
    BY <1>2, <1>3 DEF Jobs, Caches
  <1> HIDE DEF j
  <1>6. JobFits(versions, j, "write")
    <2>1. \A q \in Paths : PublishedIn(versions, q, j.next[q])
      BY <1>2, <1>3, <1>5 DEF JobFits
    <2>2. QED
      BY <1>2, <1>5, <2>1, WritingFits
  <1>7. QED
    BY <1>4, <1>6, HeldStays, PublishedGoesOn DEF Places

LEMMA PublishedRemoveFile ==
    ASSUME PublishedInv, NEW r \in Processes, RemoveFile(r)
    PROVE  PublishedInv'
  <1>1. PICK p \in job[r].remove :
           /\ IF p \in Present THEN ChangeFile(p, Absent) ELSE UNCHANGED <<disk, changes, had, held>>
           /\ Keep(r, [job[r] EXCEPT !.remove = @ \ {p}, !.next[p] = Absent])
    BY DEF RemoveFile
  <1> DEFINE j == [job[r] EXCEPT !.remove = @ \ {p}, !.next[p] = Absent]
  <1>2. /\ JobFits(versions, job[r], "write") /\ job[r] \in Jobs(Len(versions))
        /\ p \in Paths
    BY DEF RemoveFile, PublishedInv, JobFits, Jobs
  <1>3. /\ j \in Jobs(Len(versions)) /\ j.kind = job[r].kind /\ j.version = job[r].version
        /\ j.files = job[r].files
        /\ j.todo \cup j.fresh \subseteq job[r].todo \cup job[r].fresh
        /\ j.next[p] = Absent /\ \A q \in Paths \ {p} : j.next[q] = job[r].next[q]
    BY <1>2 DEF Jobs, Caches
  <1>4. /\ pc' = [pc EXCEPT ![r] = "write"] /\ job' = [job EXCEPT ![r] = j]
        /\ UNCHANGED <<shared, state>>
    BY <1>1 DEF RemoveFile, Keep, PublishedInv
  <1> HIDE DEF j
  <1>5. JobFits(versions, j, "write")
    <2>1. \A q \in Paths : PublishedIn(versions, q, j.next[q])
      BY <1>2, <1>3 DEF JobFits, PublishedIn
    <2>2. QED
      BY <1>2, <1>3, <2>1, WritingFits
  <1>6. /\ disk' \in [Paths -> OnDisk \cup {Absent}] /\ changes' \in 0 .. MaxChanges /\ had' \in [Paths -> SUBSET OnDisk]
        /\ held' \in [Processes -> [Paths -> SUBSET (Files \cup {Absent})]]
    <2>1. CASE p \in Present
      BY <1>1, <1>2, <2>1, ChangedFilesFit
    <2>2. CASE p \notin Present
      BY <1>1, <2>2 DEF PublishedInv
    <2>3. QED
      BY <2>1, <2>2
  <1>7. /\ {base', checkedOut'} \subseteq 0 .. Len(versions) /\ cache' \in Caches
        /\ \A q \in Paths : PublishedIn(versions, q, cache'[q])
    BY <1>4 DEF PublishedInv, state
  <1>8. QED
    BY <1>4, <1>5, <1>6, <1>7, PublishedQuiet DEF Places

LEMMA PublishedInvInit == Init => PublishedInv
  <1> SUFFICES ASSUME Init PROVE PublishedInv
    OBVIOUS
  <1>1. versions \in Seq(PublishedVersions) /\ Len(versions) = 0
    BY DEF Init
  <1>2. JobFits(versions, NoJob, "idle") /\ NoJob \in Jobs(Len(versions))
    BY NoJobFits DEF JobFits
  <1>3. cache \in Caches /\ \A p \in Paths : PublishedIn(versions, p, cache[p])
    BY DEF Init, NoCache, Caches, PublishedIn
  <1>4. disk \in [Paths -> OnDisk \cup {Absent}]
    BY DEF Init, NoCache
  <1>5. QED
    BY <1>1, <1>2, <1>3, <1>4, BoundAssumption DEF Init, PublishedInv, Places

LEMMA PublishedStep ==
    ASSUME PublishedInv, NEW r \in Processes, Step(r) \/ Die(r)
    PROVE  PublishedInv'
  <1>1. CASE FileGone(r) \/ Behind(r) \/ SizeDiffers(r) \/ WrittenIsGone(r) \/ Die(r)
    BY <1>1, PublishedEnd DEF FileGone, Behind, SizeDiffers, WrittenIsGone, Die
  <1>2. QED
    BY <1>1, PublishedBegin, PublishedLoad, PublishedVouched, PublishedRead, PublishedRestat,
       PublishedPublish, PublishedRecordHead, PublishedSaveCache, PublishedSyncMerge,
       PublishedSyncGoesOn, PublishedRemoveFile, PublishedSettle, PublishedBeginRestore,
       PublishedRestoreGoesOn, PublishedRefresh, PublishedWriteFile
       DEF Step

LEMMA PublishedInvNext == PublishedInv /\ [Next]_vars => PublishedInv'
  <1>1. ASSUME PublishedInv, NEW p \in Paths, NEW x \in Files \cup {Absent}, Edit(p, x)
        PROVE  PublishedInv'
    BY <1>1, ChangedFilesFit DEF Edit, PublishedInv, shared, state
  <1>2. ASSUME PublishedInv, LoseCache PROVE PublishedInv'
    <2>1. cache' \in Caches /\ \A p \in Paths : PublishedIn(versions, p, cache'[p])
      BY <1>2 DEF LoseCache, NoCache, Caches, PublishedIn
    <2>2. QED
      BY <1>2, <2>1 DEF LoseCache, PublishedInv, shared
  <1>3. ASSUME PublishedInv, UNCHANGED vars PROVE PublishedInv'
    BY <1>3 DEF PublishedInv, vars, shared, state
  <1>4. QED
    BY <1>1, <1>2, <1>3, PublishedOthers, PublishedStep DEF Next

LEMMA AlwaysPublished == Spec => []PublishedInv
    BY PublishedInvInit, PublishedInvNext, PTL DEF Spec

(* The types of every behaviour. *)
THEOREM StatusCacheTypeCorrect == Spec => []TypeOK
  <1>1. PublishedInv => TypeOK
    <2>1. ASSUME PublishedInv, NEW v \in 1 .. Len(versions) PROVE versions[v].files \in Manifests
      <3>1. versions \in Seq(PublishedVersions)
        BY <2>1 DEF PublishedInv
      <3>2. versions[v] \in PublishedVersions
        BY <2>1, <3>1, ElementOfSeq
      <3>3. QED
        BY <3>2 DEF PublishedVersions
    <2>2. ASSUME PublishedInv, NEW r \in Processes
          PROVE  /\ job[r].kind \in {"none"} \cup Kinds
                 /\ job[r].todo \cup job[r].remove \cup job[r].fresh \subseteq Paths
                 /\ job[r].old \in Caches /\ job[r].next \in Caches
                 /\ job[r].version \in 0 .. Len(versions)
                 /\ pc[r] = "idle" <=> job[r] = NoJob
      <3>1. JobFits(versions, job[r], pc[r]) /\ job[r] \in Jobs(Len(versions))
        BY <2>2 DEF PublishedInv
      <3>2. QED
        BY <3>1 DEF JobFits, Jobs
    <2>3. QED
      BY <2>1, <2>2 DEF PublishedInv, TypeOK, Places
  <1>2. QED
    BY <1>1, AlwaysPublished, PTL

(* The saved cache knows only what a published version has, whatever       *)
(* commands ran in the space, died in it or were refused.                  *)
THEOREM CacheIsOfVersions == Spec => []VouchedWasPublished
  <1>1. PublishedInv => VouchedWasPublished
    BY DEF PublishedInv, PublishedIn, VouchedWasPublished, PathsOf
  <1>2. QED
    BY <1>1, AlwaysPublished, PTL

------------------------------------------------------------------------------
(* The truth of entries                                                    *)

(* Every entry at p anybody has, in the saved cache or in a command. *)
EntriesAt(p) ==
    ({cache[p]} \cup UNION {{job[r].old[p], job[r].next[p]} : r \in Processes}) \ {Absent}

(* The entry is of a file that the path has had. *)
IsTrue(p, e) ==
    e.size = SizeOf[e.file] /\ [file |-> e.file, mtime |-> e.mtime] \in had[p]

(* A record that vouches for what it saw at p by the entry e publishes     *)
(* what was there while it ran.                                            *)
MayVouch(r, p, e) ==
    Recording(r) /\ p \in job[r].todo /\ Matches(e, job[r].seen[p])
        => e.file \in held[r][p]

EntriesAreTrue ==
    \A p \in Paths : \A e \in EntriesAt(p) :
        IsTrue(p, e) /\ \A r \in Processes : MayVouch(r, p, e)

(* No two contents that a path has had look the same. *)
FilesAreKnown ==
    /\ \A p \in Present : disk[p] \in had[p]
    /\ \A p \in Paths : \A one, other \in had[p] :
          one.mtime = other.mtime /\ SizeOf[one.file] = SizeOf[other.file]
              => one.file = other.file

(* What a record has seen, read and found so far was there while it ran.   *)
RecordFits(r) ==
    /\ Recording(r) =>
          /\ \A p \in Paths : FileAt(p) \in held[r][p]
          /\ \A p \in Paths \ job[r].todo : FilesOf(job[r].next)[p] \in held[r][p]
          /\ pc[r] = "stat" => \A p \in job[r].fresh : job[r].read \in held[r][p]
    /\ pc[r] = "head" => \A p \in Paths : FilesOf(job[r].next)[p] \in held[r][p]

(* What a command has read or written and not stat'ed yet is still there,  *)
(* or nothing is.                                                          *)
FreshFits(r) ==
    /\ pc[r] \in {"stat", "written"} => \A p \in Paths : IsNext(r, p) => p \in job[r].fresh
    /\ pc[r] = "stat" => \A p \in job[r].fresh : FileAt(p) \in {job[r].read, Absent}
    /\ pc[r] \in {"write", "written"} =>
          \A p \in job[r].fresh : FileAt(p) \in {job[r].files[p], Absent}

TrueInv ==
    /\ PublishedInv /\ FilesAreKnown /\ EntriesAreTrue /\ RecordedIsRestorable
    /\ \A r \in Processes : RecordFits(r) /\ FreshFits(r)

LEMMA EntriesAreLookups ==
    ASSUME PublishedInv, NEW p \in Paths, NEW e \in EntriesAt(p)
    PROVE  e \in Lookups
  <1>1. cache[p] \in Lookups \cup {Absent}
    BY DEF PublishedInv, Caches
  <1>2. \A r \in Processes : {job[r].old[p], job[r].next[p]} \subseteq Lookups \cup {Absent}
    BY DEF PublishedInv, Jobs, Caches
  <1>3. QED
    BY <1>1, <1>2 DEF EntriesAt

(* An entry that matches the file that is there is of its content. *)
LEMMA MatchIsTrue ==
    ASSUME PublishedInv, FilesAreKnown, NEW p \in Present, NEW e, IsTrue(p, e),
           Matches(e, StatOf(p))
    PROVE  e.file = disk[p].file
  <1> DEFINE one == [file |-> e.file, mtime |-> e.mtime]
  <1>1. one \in had[p] /\ disk[p] \in had[p] /\ p \in Paths
    BY DEF FilesAreKnown, IsTrue, Present
  <1>2. /\ one.mtime = disk[p].mtime /\ SizeOf[one.file] = SizeOf[disk[p].file]
        /\ one.file = e.file
    BY DEF Matches, StatOf, IsTrue
  <1> HIDE DEF one
  <1>3. one.file = disk[p].file
    BY <1>1, <1>2 DEF FilesAreKnown
  <1>4. QED
    BY <1>2, <1>3

(* An entry of the file that is there now is true, and any record may      *)
(* vouch by it.                                                            *)
LEMMA CurrentEntry ==
    ASSUME TrueInv, NEW p \in Present, NEW e, e.size = SizeOf[e.file],
           e.mtime = disk[p].mtime, e.file = disk[p].file
    PROVE  IsTrue(p, e) /\ \A r \in Processes : MayVouch(r, p, e)
  <1>1. IsTrue(p, e)
    <2>1. disk[p] \in had[p] /\ disk[p] \in OnDisk
      BY FilesOnDisk DEF TrueInv, FilesAreKnown, PublishedInv
    <2>2. disk[p] = [file |-> e.file, mtime |-> e.mtime]
      BY <2>1 DEF OnDisk
    <2>3. QED
      BY <2>1, <2>2 DEF IsTrue
  <1>2. FileAt(p) = e.file /\ p \in Paths
    BY DEF FileAt, Present
  <1>3. ASSUME NEW r \in Processes PROVE MayVouch(r, p, e)
    BY <1>2 DEF TrueInv, RecordFits, MayVouch
  <1>4. QED
    BY <1>1, <1>3

(* The steps of one process that change no file. *)
LEMMA TrueQuiet ==
    ASSUME TrueInv, PublishedInv', UNCHANGED <<disk, changes, had>>, NEW r \in Processes,
           \A q \in Processes \ {r} : pc'[q] = pc[q] /\ job'[q] = job[q] /\ held'[q] = held[q],
           \A p \in Paths : \A e \in {cache'[p], job'[r].old[p], job'[r].next[p]} :
               \/ e = Absent
               \/ e \in EntriesAt(p)
               \/ IsTrue(p, e) /\ \A q \in Processes : MayVouch(q, p, e),
           \A p \in Paths : \A e : IsTrue(p, e) /\ MayVouch(r, p, e) => MayVouch(r, p, e)',
           RecordedIsRestorable', RecordFits(r)', FreshFits(r)'
    PROVE  TrueInv'
  <1>1. FilesAreKnown'
    BY DEF TrueInv, FilesAreKnown, Present
  <1>2. ASSUME NEW p \in Paths, NEW e \in EntriesAt(p)'
        PROVE  IsTrue(p, e) /\ \A q \in Processes : MayVouch(q, p, e)
    <2>1. e # Absent /\ (e \in EntriesAt(p) \/ e \in {cache'[p], job'[r].old[p], job'[r].next[p]})
      BY DEF EntriesAt
    <2>2. QED
      BY <2>1 DEF TrueInv, EntriesAreTrue
  <1>3. ASSUME NEW p \in Paths, NEW e, IsTrue(p, e) PROVE IsTrue(p, e)'
    BY <1>3 DEF IsTrue, Present
  <1>4. ASSUME NEW p \in Paths, NEW e, NEW q \in Processes, IsTrue(p, e), MayVouch(q, p, e)
        PROVE  MayVouch(q, p, e)'
    <2>1. CASE q = r
      BY <1>4, <2>1
    <2>2. CASE q # r
      BY <1>4, <2>2 DEF MayVouch, Recording
    <2>3. QED
      BY <2>1, <2>2
  <1>5. EntriesAreTrue'
    BY <1>2, <1>3, <1>4 DEF EntriesAreTrue
  <1>6. ASSUME NEW q \in Processes PROVE RecordFits(q)' /\ FreshFits(q)'
    <2>1. CASE q = r
      BY <2>1
    <2>2. CASE q # r
      <3>1. RecordFits(q)'
        BY <2>2 DEF TrueInv, RecordFits, Recording, FileAt, FilesOf
      <3>2. FreshFits(q)'
        BY <2>2 DEF TrueInv, FreshFits, IsNext, FileAt
      <3>3. QED
        BY <3>1, <3>2
    <2>3. QED
      BY <2>1, <2>2
  <1>7. QED
    BY <1>1, <1>5, <1>6 DEF TrueInv

(* What a change of a file does to the files, and to the records that are  *)
(* running.                                                                *)
LEMMA ChangedFile ==
    ASSUME PublishedInv, NEW p \in Paths, NEW x \in Files \cup {Absent}, ChangeFile(p, x)
    PROVE  /\ FileAt(p)' = x
           /\ \A o \in Paths \ {p} : /\ disk'[o] = disk[o] /\ had'[o] = had[o]
                                     /\ FileAt(o)' = FileAt(o)
           /\ had'[p] = had[p] \cup ({disk'[p]} \ {Absent})
           /\ \A q \in Processes : \A o \in Paths : held[q][o] \subseteq held'[q][o]
           /\ \A q \in Processes : Recording(q) => x \in held'[q][p]
  <1>1. PICK mtime \in Mtimes :
           disk' = [disk EXCEPT ![p] = IF x = Absent THEN Absent
                                       ELSE [file |-> x, mtime |-> mtime]]
    BY DEF ChangeFile
  <1>2. /\ disk'[p] = IF x = Absent THEN Absent ELSE [file |-> x, mtime |-> mtime]
        /\ \A o \in Paths \ {p} : disk'[o] = disk[o] /\ FileAt(o)' = FileAt(o)
    BY <1>1 DEF PublishedInv, FileAt
  <1>3. x # Absent => [file |-> x, mtime |-> mtime] # Absent
    <2>1. x # Absent => [file |-> x, mtime |-> mtime] \in OnDisk
      BY DEF OnDisk
    <2>2. QED
      BY <2>1, NothingAssumption
  <1>4. FileAt(p)' = x
    BY <1>2, <1>3 DEF FileAt
  <1>5. /\ had'[p] = had[p] \cup ({disk'[p]} \ {Absent})
        /\ \A o \in Paths \ {p} : had'[o] = had[o]
    BY DEF PublishedInv, ChangeFile
  <1>6. /\ \A q \in Processes : \A o \in Paths : held[q][o] \subseteq held'[q][o]
        /\ \A q \in Processes : Recording(q) => x \in held'[q][p]
    BY DEF PublishedInv, ChangeFile
  <1>7. QED
    BY <1>2, <1>4, <1>5, <1>6

(* A file changes, and at most the commands in R go on: they do not        *)
(* record, and what the others have read or written is left alone.         *)
ChangeFits(R) ==
    /\ R \subseteq Processes
    /\ \A q \in Processes \ R :
          /\ pc'[q] = pc[q] /\ job'[q] = job[q]
          /\ \A o \in job[q].fresh : FileAt(o)' \in {FileAt(o), Absent}
    /\ \A r \in R :
          /\ ~Recording(r)' /\ pc'[r] # "head" /\ FreshFits(r)'
          /\ job'[r].old = job[r].old
          /\ \A o \in Paths : job'[r].next[o] \in {job[r].next[o], Absent}

LEMMA TrueChange ==
    ASSUME TrueInv, PublishedInv', MtimesMove, NEW p \in Paths,
           NEW x \in Files \cup {Absent}, ChangeFile(p, x), UNCHANGED <<versions, cache>>,
           NEW R, ChangeFits(R)
    PROVE  TrueInv'
  <1>0. /\ R \subseteq Processes
        /\ \A q \in Processes \ R :
              /\ pc'[q] = pc[q] /\ job'[q] = job[q]
              /\ \A o \in job[q].fresh : FileAt(o)' \in {FileAt(o), Absent}
        /\ \A r \in R :
              /\ ~Recording(r)' /\ pc'[r] # "head" /\ FreshFits(r)'
              /\ job'[r].old = job[r].old
              /\ \A o \in Paths : job'[r].next[o] \in {job[r].next[o], Absent}
    BY DEF ChangeFits
  <1> USE DEF TrueInv
  <1>1. FilesAreKnown'
    <2>1. ASSUME NEW o \in Present' PROVE disk'[o] \in had'[o]
      <3>1. o \in Paths /\ disk'[o] # Absent
        BY DEF Present
      <3>2. CASE o = p
        BY <3>1, <3>2, ChangedFile
      <3>3. CASE o # p
        BY <3>1, <3>3, ChangedFile DEF FilesAreKnown, Present
      <3>4. QED
        BY <3>2, <3>3
    <2>2. ASSUME NEW o \in Paths, NEW one \in had'[o], NEW other \in had'[o],
                 one.mtime = other.mtime, SizeOf[one.file] = SizeOf[other.file]
          PROVE  one.file = other.file
      <3>1. one \in had[o] \/ other \in had[o] \/ one = other
        BY <2>2, ChangedFile
      <3>2. QED
        BY <2>2, <3>1 DEF MtimesMove
    <2>3. QED
      BY <2>1, <2>2 DEF FilesAreKnown
  <1>2. ASSUME NEW o \in Paths, NEW e \in EntriesAt(o)' PROVE e \in EntriesAt(o)
    BY <1>0 DEF EntriesAt
  <1>3. ASSUME NEW o \in Paths, NEW e \in EntriesAt(o) PROVE IsTrue(o, e)'
    <2>1. IsTrue(o, e) /\ had[o] \subseteq had'[o]
      BY ChangedFile DEF EntriesAreTrue
    <2>2. QED
      BY <2>1 DEF IsTrue
  <1>4. ASSUME NEW o \in Paths, NEW e \in EntriesAt(o), NEW q \in Processes
        PROVE  MayVouch(q, o, e)'
    <2>1. MayVouch(q, o, e)
      BY DEF EntriesAreTrue
    <2>2. CASE q \in R
      BY <1>0, <2>2 DEF MayVouch
    <2>3. CASE q \notin R
      BY <1>0, <2>1, <2>3, ChangedFile DEF MayVouch, Recording
    <2>4. QED
      BY <2>2, <2>3
  <1>5. EntriesAreTrue'
    BY <1>2, <1>3, <1>4 DEF EntriesAreTrue
  <1>6. ASSUME NEW q \in Processes PROVE RecordFits(q)' /\ FreshFits(q)'
    <2>1. CASE q \in R
      BY <1>0, <2>1 DEF RecordFits
    <2>2. CASE q \notin R
      <3>1. /\ pc'[q] = pc[q] /\ job'[q] = job[q] /\ Recording(q)' = Recording(q)
            /\ RecordFits(q) /\ FreshFits(q) /\ job[q].fresh \subseteq Paths
        BY <1>0, <2>2 DEF Recording, PublishedInv, Jobs
      <3>2. FreshFits(q)'
        BY <1>0, <2>2, <3>1 DEF FreshFits, IsNext
      <3>3. Recording(q) => \A o \in Paths : FileAt(o)' \in held'[q][o]
        BY <3>1, ChangedFile DEF RecordFits
      <3>4. RecordFits(q)'
        BY <3>1, <3>3, ChangedFile DEF RecordFits, FilesOf
      <3>5. QED
        BY <3>2, <3>4
    <2>3. QED
      BY <2>1, <2>2
  <1>7. RecordedIsRestorable'
    BY DEF RecordedIsRestorable, PathsOf
  <1>8. QED
    BY <1>1, <1>5, <1>6, <1>7

(* What a step of process r leaves to the others. *)
LEMMA OthersStay ==
    ASSUME PublishedInv, NEW r \in Processes, NEW j, NEW at,
           pc' = [pc EXCEPT ![r] = at], job' = [job EXCEPT ![r] = j],
           held' = held \/ \E h : held' = [held EXCEPT ![r] = h]
    PROVE  /\ pc'[r] = at /\ job'[r] = j
           /\ \A q \in Processes \ {r} :
                 pc'[q] = pc[q] /\ job'[q] = job[q] /\ held'[q] = held[q]
    BY DEF PublishedInv

(* The first of the paths left is one. *)
LEMMA FirstIsOne ==
    ASSUME NEW S, NEW p \in Paths, NEW q \in Paths, IsFirst(p, S), IsFirst(q, S)
    PROVE  p = q
    BY PathAssumption DEF IsFirst

LEMMA OldAndNextAreEntries ==
    ASSUME NEW r \in Processes, NEW p \in Paths,
           NEW e \in {cache[p], job[r].old[p], job[r].next[p]}, e # Absent
    PROVE  e \in EntriesAt(p)
    BY DEF EntriesAt

(* A process that does not record after its step, and changes no file and  *)
(* no version. *)
LEMMA TrueOutside ==
    ASSUME TrueInv, PublishedInv', UNCHANGED <<disk, changes, had, versions>>, NEW r \in Processes,
           NEW j, NEW at, pc' = [pc EXCEPT ![r] = at], job' = [job EXCEPT ![r] = j],
           held' = held \/ \E h : held' = [held EXCEPT ![r] = h],
           at \notin {"load", "file", "stat", "head"},
           \A p \in Paths : \A e \in {cache'[p], j.old[p], j.next[p]} :
               \/ e = Absent
               \/ e \in EntriesAt(p)
               \/ IsTrue(p, e) /\ \A q \in Processes : MayVouch(q, p, e),
           FreshFits(r)'
    PROVE  TrueInv'
  <1>1. /\ pc'[r] = at /\ job'[r] = j
        /\ \A q \in Processes \ {r} :
              pc'[q] = pc[q] /\ job'[q] = job[q] /\ held'[q] = held[q]
    BY OthersStay DEF TrueInv
  <1>2. ~Recording(r)' /\ pc'[r] # "head"
    BY <1>1 DEF Recording
  <1>3. RecordFits(r)' /\ \A p \in Paths : \A e : MayVouch(r, p, e)'
    BY <1>2 DEF RecordFits, MayVouch
  <1>4. RecordedIsRestorable'
    BY DEF TrueInv, RecordedIsRestorable, PathsOf
  <1>5. QED
    BY <1>1, <1>3, <1>4, TrueQuiet

LEMMA TrueFinish ==
    ASSUME TrueInv, PublishedInv', NEW r \in Processes, Finish(r),
           UNCHANGED <<disk, changes, had, versions>>,
           \A p \in Paths : cache'[p] \in {cache[p], job[r].next[p], Absent}
    PROVE  TrueInv'
  <1>1. \A p \in Paths : NoJob.old[p] = Absent /\ NoJob.next[p] = Absent
    BY DEF NoJob, NoCache
  <1>2. \A p \in Paths : \A e \in {cache'[p], NoJob.old[p], NoJob.next[p]} :
           e = Absent \/ e \in EntriesAt(p)
    BY <1>1, OldAndNextAreEntries
  <1>3. FreshFits(r)'
    BY DEF Finish, FreshFits, TrueInv, PublishedInv
  <1>4. QED
    BY <1>2, <1>3, TrueOutside DEF Finish

(* A scan begins: what it sees is what is there. *)
LEMMA TrueBegin ==
    ASSUME TrueInv, PublishedInv', NEW r \in Processes, NEW kind \in Kinds, Begin(r, kind)
    PROVE  TrueInv'
  <1> DEFINE saw == [p \in Paths |-> IF p \in Present THEN StatOf(p) ELSE Absent]
             j == [NoJob EXCEPT !.kind = kind, !.todo = Present, !.seen = saw,
                                !.from = IF kind = "sync" THEN base ELSE 0,
                                !.version = IF kind = "sync" THEN ref ELSE 0]
             h == [p \in Paths |-> IF kind = "sync" THEN {} ELSE {FileAt(p)}]
  <1>1. /\ pc' = [pc EXCEPT ![r] = "load"] /\ job' = [job EXCEPT ![r] = j]
        /\ held' = [held EXCEPT ![r] = h] /\ UNCHANGED <<disk, changes, had, shared, state>>
    BY DEF Begin, Goto, Keep
  <1>2. /\ j.kind = kind /\ j.todo = Present /\ j.seen = saw
        /\ j.old = NoCache /\ j.next = NoCache
    BY DEF NoJob
  <1> HIDE DEF j
  <1>3. /\ pc'[r] = "load" /\ job'[r] = j /\ held'[r] = h
        /\ \A q \in Processes \ {r} :
              pc'[q] = pc[q] /\ job'[q] = job[q] /\ held'[q] = held[q]
    BY <1>1, OthersStay DEF TrueInv, PublishedInv
  <1>4. \A p \in Paths : \A e \in {cache'[p], j.old[p], j.next[p]} : e = Absent \/ e \in EntriesAt(p)
    BY <1>1, <1>2, OldAndNextAreEntries DEF NoCache, state
  <1>5. Recording(r)' => kind # "sync"
    BY <1>2, <1>3 DEF Recording
  <1>6. ASSUME NEW p \in Paths, NEW e, IsTrue(p, e) PROVE MayVouch(r, p, e)'
    <2>1. ASSUME Recording(r)', p \in Present, Matches(e, saw[p]) PROVE e.file \in h[p]
      <3>1. Matches(e, StatOf(p))
        BY <2>1
      <3>2. e.file = FileAt(p)
        BY <1>6, <2>1, <3>1, MatchIsTrue DEF TrueInv, FileAt, Present
      <3>3. QED
        BY <1>5, <2>1, <3>2
    <2> HIDE DEF saw, h
    <2>2. QED
      BY <1>2, <1>3, <2>1 DEF MayVouch
  <1>7. RecordFits(r)'
    <2>1. \A p \in Paths : FileAt(p)' = FileAt(p)
      BY <1>1 DEF FileAt
    <2>2. \A p \in Paths \ Present : FileAt(p) = Absent
      BY DEF FileAt, Present
    <2>3. \A p \in Paths : FilesOf(NoCache)[p] = Absent
      BY DEF FilesOf, NoCache
    <2> HIDE DEF saw
    <2>4. QED
      BY <1>2, <1>3, <1>5, <2>1, <2>2, <2>3 DEF RecordFits
  <1>8. FreshFits(r)'
    BY <1>3 DEF FreshFits
  <1>9. RecordedIsRestorable'
    BY <1>1 DEF TrueInv, RecordedIsRestorable, PathsOf, shared
  <1> HIDE DEF h
  <1>10. QED
    BY <1>1, <1>3, <1>4, <1>6, <1>7, <1>8, <1>9, TrueQuiet

(* A scan that goes on: it has less to look at, and what it has found so   *)
(* far was there while it ran. *)
ScanFits(r, j, at) ==
    /\ j.kind = job[r].kind /\ j.todo \subseteq job[r].todo
    /\ \A p \in j.todo : j.seen[p] = job[r].seen[p]
    /\ \A p \in Paths : \A e \in {j.old[p], j.next[p]} :
           \/ e = Absent
           \/ e \in EntriesAt(p)
           \/ IsTrue(p, e) /\ \A q \in Processes : MayVouch(q, p, e)
    /\ Recording(r) => \A p \in Paths \ j.todo : FilesOf(j.next)[p] \in held[r][p]
    /\ at = "stat" =>
           /\ \A p \in Paths : IsFirst(p, j.todo) => p \in j.fresh
           /\ \A p \in j.fresh : FileAt(p) \in {j.read, Absent}
           /\ Recording(r) => \A p \in j.fresh : j.read \in held[r][p]

LEMMA TrueScan ==
    ASSUME TrueInv, PublishedInv', UNCHANGED <<disk, changes, had, shared, state, held>>,
           NEW r \in Processes, NEW j, NEW at \in {"file", "stat"},
           pc[r] \in {"load", "file", "stat"},
           pc' = [pc EXCEPT ![r] = at], job' = [job EXCEPT ![r] = j], ScanFits(r, j, at)
    PROVE  TrueInv'
  <1>1. /\ pc'[r] = at /\ job'[r] = j
        /\ \A q \in Processes \ {r} :
              pc'[q] = pc[q] /\ job'[q] = job[q] /\ held'[q] = held[q]
    BY OthersStay DEF TrueInv
  <1>2. Recording(r)' = Recording(r) /\ held' = held /\ \A p : FileAt(p)' = FileAt(p)
    BY <1>1 DEF Recording, FileAt, ScanFits
  <1>3. ASSUME NEW p \in Paths, NEW e, MayVouch(r, p, e) PROVE MayVouch(r, p, e)'
    BY <1>1, <1>2, <1>3 DEF MayVouch, ScanFits
  <1>4. RecordFits(r)'
    BY <1>1, <1>2 DEF TrueInv, RecordFits, ScanFits
  <1>5. FreshFits(r)'
    BY <1>1, <1>2 DEF FreshFits, IsNext, ScanFits
  <1>6. RecordedIsRestorable'
    BY DEF TrueInv, RecordedIsRestorable, PathsOf, shared
  <1>7. \A p \in Paths : cache'[p] = Absent \/ cache'[p] \in EntriesAt(p)
    BY OldAndNextAreEntries DEF state
  <1>8. \A p \in Paths : \A e \in {cache'[p], job'[r].old[p], job'[r].next[p]} :
           \/ e = Absent
           \/ e \in EntriesAt(p)
           \/ IsTrue(p, e) /\ \A q \in Processes : MayVouch(q, p, e)
    BY <1>1, <1>7 DEF ScanFits
  <1>9. QED
    BY <1>1, <1>3, <1>4, <1>5, <1>6, <1>8, TrueQuiet

LEMMA TrueLoad ==
    ASSUME TrueInv, PublishedInv', NEW r \in Processes, Load(r)
    PROVE  TrueInv'
  <1> DEFINE j == [job[r] EXCEPT !.old = cache]
  <1>1. /\ pc[r] = "load" /\ pc' = [pc EXCEPT ![r] = "file"] /\ job' = [job EXCEPT ![r] = j]
        /\ UNCHANGED <<disk, changes, had, shared, state, held>>
    BY DEF Load, Goto, Keep
  <1>2. job[r] \in Jobs(Len(versions))
    BY DEF TrueInv, PublishedInv
  <1>3. /\ j.kind = job[r].kind /\ j.todo = job[r].todo /\ j.seen = job[r].seen
        /\ j.old = cache /\ j.next = job[r].next
    BY <1>2 DEF Jobs
  <1> HIDE DEF j
  <1>4. \A p \in Paths : \A e \in {j.old[p], j.next[p]} :
           \/ e = Absent
           \/ e \in EntriesAt(p)
           \/ IsTrue(p, e) /\ \A q \in Processes : MayVouch(q, p, e)
    BY <1>3, OldAndNextAreEntries
  <1>5. Recording(r) => \A p \in Paths \ j.todo : FilesOf(j.next)[p] \in held[r][p]
    BY <1>3 DEF TrueInv, RecordFits
  <1>6. j.todo \subseteq job[r].todo /\ \A p \in j.todo : j.seen[p] = job[r].seen[p]
    BY <1>3
  <1>7. ScanFits(r, j, "file")
    BY <1>3, <1>4, <1>5, <1>6 DEF ScanFits
  <1>8. QED
    BY <1>1, <1>7, TrueScan

(* What Done and an entry leave in the job. *)
LEMMA DoneEffect ==
    ASSUME PublishedInv, NEW r \in Processes, NEW p \in Paths, NEW e
    PROVE  LET j == [Done(r, p) EXCEPT !.next[p] = e]
           IN  /\ j.kind = job[r].kind /\ j.todo = job[r].todo \ {p}
               /\ \A q \in Paths \ {p} : j.seen[q] = job[r].seen[q]
               /\ \A q \in Paths : j.old[q] \in {job[r].old[q], Absent}
               /\ j.next[p] = e /\ \A q \in Paths \ {p} : j.next[q] = job[r].next[q]
  <1>1. job[r] \in Jobs(Len(versions))
    BY DEF PublishedInv
  <1>2. QED
    BY <1>1 DEF Done, Jobs, Caches

LEMMA TrueDone ==
    ASSUME TrueInv, PublishedInv', UNCHANGED <<disk, changes, had, shared, state, held>>,
           NEW r \in Processes, pc[r] \in {"file", "stat"}, NEW p \in Paths, NEW e, e # Absent,
           pc' = [pc EXCEPT ![r] = "file"],
           job' = [job EXCEPT ![r] = [Done(r, p) EXCEPT !.next[p] = e]],
           e \in EntriesAt(p) \/ (IsTrue(p, e) /\ \A q \in Processes : MayVouch(q, p, e)),
           Recording(r) => e.file \in held[r][p]
    PROVE  TrueInv'
  <1> DEFINE j == [Done(r, p) EXCEPT !.next[p] = e]
  <1>1. /\ j.kind = job[r].kind /\ j.todo = job[r].todo \ {p} /\ j.todo \subseteq Paths
        /\ \A q \in Paths \ {p} : j.seen[q] = job[r].seen[q]
        /\ \A q \in Paths : j.old[q] \in {job[r].old[q], Absent}
        /\ j.next[p] = e /\ \A q \in Paths \ {p} : j.next[q] = job[r].next[q]
    <2>1. PublishedInv /\ job[r].todo \subseteq Paths
      BY DEF TrueInv, PublishedInv, Jobs
    <2>2. QED
      BY <2>1, DoneEffect
  <1> HIDE DEF j
  <1>2. \A q \in Paths : \A i \in {j.old[q], j.next[q]} :
           \/ i = Absent
           \/ i \in EntriesAt(q)
           \/ IsTrue(q, i) /\ \A s \in Processes : MayVouch(s, q, i)
    BY <1>1, OldAndNextAreEntries
  <1>3. Recording(r) => \A q \in Paths \ j.todo : FilesOf(j.next)[q] \in held[r][q]
    BY <1>1 DEF TrueInv, RecordFits, FilesOf
  <1>4. job' = [job EXCEPT ![r] = j]
    BY DEF j
  <1>5. j.todo \subseteq job[r].todo /\ \A q \in j.todo : j.seen[q] = job[r].seen[q]
    BY <1>1
  <1>6. ScanFits(r, j, "file")
    BY <1>1, <1>2, <1>3, <1>5 DEF ScanFits
  <1>7. QED
    BY <1>4, <1>6, TrueScan

(* Vouched: the entry may be vouched by. *)
LEMMA TrueVouched ==
    ASSUME TrueInv, PublishedInv', NEW r \in Processes, Vouched(r)
    PROVE  TrueInv'
  <1>1. PICK p \in Paths :
           /\ p \in job[r].todo /\ Matches(job[r].old[p], job[r].seen[p])
           /\ Keep(r, [Done(r, p) EXCEPT !.next[p] = job[r].old[p]])
    BY DEF Vouched, IsNext, IsFirst
  <1> DEFINE e == job[r].old[p]
  <1>2. e # Absent /\ Matches(e, job[r].seen[p])
    BY <1>1 DEF Matches
  <1>3. e \in EntriesAt(p)
    BY <1>2, OldAndNextAreEntries
  <1>4. Recording(r) => e.file \in held[r][p]
    BY <1>1, <1>2, <1>3 DEF TrueInv, EntriesAreTrue, MayVouch
  <1>5. /\ pc[r] = "file" /\ pc' = [pc EXCEPT ![r] = "file"]
        /\ job' = [job EXCEPT ![r] = [Done(r, p) EXCEPT !.next[p] = e]]
        /\ UNCHANGED <<disk, changes, had, shared, state, held>>
    BY <1>1 DEF Vouched, Keep, TrueInv, PublishedInv
  <1> HIDE DEF e
  <1>6. QED
    BY <1>2, <1>3, <1>4, <1>5, TrueDone

(* Read: what is there is held. *)
LEMMA TrueRead ==
    ASSUME TrueInv, PublishedInv', NEW r \in Processes, Read(r)
    PROVE  TrueInv'
  <1>1. PICK p \in Present :
           /\ IsFirst(p, job[r].todo)
           /\ Keep(r, [job[r] EXCEPT !.read = disk[p].file, !.old[p] = Absent, !.fresh = {p}])
    BY DEF Read, IsNext
  <1> DEFINE j == [job[r] EXCEPT !.read = disk[p].file, !.old[p] = Absent, !.fresh = {p}]
  <1>2. /\ pc[r] = "file" /\ pc' = [pc EXCEPT ![r] = "stat"] /\ job' = [job EXCEPT ![r] = j]
        /\ UNCHANGED <<disk, changes, had, shared, state, held>>
    BY <1>1 DEF Read, Goto, Keep
  <1>3. /\ j.kind = job[r].kind /\ j.todo = job[r].todo /\ j.seen = job[r].seen
        /\ \A q \in Paths : j.old[q] \in {job[r].old[q], Absent}
        /\ j.next = job[r].next /\ j.fresh = {p} /\ j.read = disk[p].file
    <2>1. job[r] \in Jobs(Len(versions))
      BY DEF TrueInv, PublishedInv
    <2>2. QED
      BY <2>1 DEF Jobs, Caches
  <1> HIDE DEF j
  <1>4. ScanFits(r, j, "stat")
    <2>1. p \in Paths /\ FileAt(p) = j.read
      BY <1>3 DEF FileAt, Present
    <2>2. \A q \in Paths : IsFirst(q, j.todo) => q \in j.fresh
      BY <1>1, <1>3, <2>1, FirstIsOne
    <2>3. /\ Recording(r) => j.read \in held[r][p]
          /\ Recording(r) => \A q \in Paths \ j.todo : FilesOf(j.next)[q] \in held[r][q]
      BY <1>3, <2>1 DEF TrueInv, RecordFits
    <2>4. \A q \in Paths : \A e \in {j.old[q], j.next[q]} : e = Absent \/ e \in EntriesAt(q)
      BY <1>3, OldAndNextAreEntries
    <2>5. QED
      BY <1>3, <2>1, <2>2, <2>3, <2>4 DEF ScanFits
  <1>5. QED
    BY <1>2, <1>4, TrueScan

(* Restat: a file that is still there is the one that was read. *)
LEMMA TrueRestat ==
    ASSUME TrueInv, PublishedInv', NEW r \in Processes, Restat(r)
    PROVE  TrueInv'
  <1>1. PICK p \in Present :
           /\ IsNext(r, p)
           /\ Keep(r, [Done(r, p) EXCEPT !.next[p] = CacheEntry(StatOf(p), job[r].read)])
    BY DEF Restat
  <1> DEFINE e == CacheEntry(StatOf(p), job[r].read)
  <1>2. p \in Paths /\ disk[p].file \in Files /\ StatOf(p) \in Stats /\ pc[r] = "stat"
    BY FilesOnDisk DEF TrueInv, PublishedInv, Restat, Goto
  <1>3. p \in job[r].fresh /\ FileAt(p) \in {job[r].read, Absent}
    BY <1>1, <1>2 DEF TrueInv, FreshFits
  <1>4. job[r].read = disk[p].file
    BY <1>2, <1>3, AbsentAssumption DEF FileAt, Present
  <1>5. e.size = SizeOf[e.file] /\ e.mtime = disk[p].mtime /\ e.file = disk[p].file
    BY <1>4 DEF CacheEntry, StatOf
  <1>6. e # Absent
    BY <1>2, <1>4, EntriesOfStats
  <1>7. Recording(r) => e.file \in held[r][p]
    BY <1>2, <1>3, <1>4, <1>5 DEF TrueInv, RecordFits
  <1>8. /\ pc' = [pc EXCEPT ![r] = "file"]
        /\ job' = [job EXCEPT ![r] = [Done(r, p) EXCEPT !.next[p] = e]]
        /\ UNCHANGED <<disk, changes, had, shared, state, held>>
    BY <1>1 DEF Restat, Goto, Keep
  <1> HIDE DEF e
  <1>9. IsTrue(p, e) /\ \A q \in Processes : MayVouch(q, p, e)
    BY <1>5, CurrentEntry
  <1>10. QED
    BY <1>2, <1>6, <1>7, <1>8, <1>9, TrueDone

(* Publish: the manifest states the sizes of the files it names. *)
LEMMA TruePublish ==
    ASSUME TrueInv, PublishedInv', NEW r \in Processes, Publish(r)
    PROVE  TrueInv'
  <1> DEFINE next == job[r].next
             entry == [files |-> FilesOf(next), sizes |-> SizesOf(next)]
             j == [NoJob EXCEPT !.kind = job[r].kind, !.next = next,
                                !.version = Len(versions) + 1]
  <1>1. /\ pc[r] = "file" /\ job[r].todo = {} /\ Recording(r)
        /\ pc' = [pc EXCEPT ![r] = "head"] /\ job' = [job EXCEPT ![r] = j]
        /\ UNCHANGED <<disk, changes, had, state, held>>
        /\ versions' = Append(versions, entry)
    BY DEF Publish, Scanned, Goto, Keep, PutVersion, Recording
  <1>2. next \in Caches /\ versions \in Seq(PublishedVersions)
    BY DEF TrueInv, PublishedInv, Jobs
  <1>3. j.old = NoCache /\ j.next = next
    BY DEF NoJob
  <1>4. \A p \in PathsOf(next) : next[p] \in EntriesAt(p)
    BY OldAndNextAreEntries DEF PathsOf
  <1> HIDE DEF j
  <1>5. /\ pc'[r] = "head" /\ job'[r] = j
        /\ \A q \in Processes \ {r} :
              pc'[q] = pc[q] /\ job'[q] = job[q] /\ held'[q] = held[q]
    BY <1>1, OthersStay DEF TrueInv
  <1>6. RecordedIsRestorable'
    <2>1. \A p \in PathsOf(FilesOf(next)) :
             p \in PathsOf(next) /\ FilesOf(next)[p] = next[p].file
      BY DEF PathsOf, FilesOf
    <2>2. \A p \in PathsOf(FilesOf(next)) : SizesOf(next)[p] = SizeOf[FilesOf(next)[p]]
      BY <1>4, <2>1 DEF TrueInv, EntriesAreTrue, IsTrue, SizesOf, PathsOf
    <2> HIDE DEF next
    <2>3. ASSUME NEW v \in 1 .. Len(versions'), NEW p \in PathsOf(versions'[v].files)
          PROVE  versions'[v].sizes[p] = SizeOf[versions'[v].files[p]]
      <3>1. CASE v = Len(versions) + 1
        <4>1. versions'[v] = entry
          BY <1>1, <1>2, <3>1
        <4>2. QED
          BY <2>2, <2>3, <4>1
      <3>2. CASE v # Len(versions) + 1
        <4>1. v \in 1 .. Len(versions) /\ versions'[v] = versions[v]
          BY <1>1, <1>2, <2>3, <3>2
        <4>2. QED
          BY <2>3, <4>1 DEF TrueInv, RecordedIsRestorable
      <3>3. QED
        BY <3>1, <3>2
    <2>4. QED
      BY <2>3 DEF RecordedIsRestorable, PathsOf
  <1>7. RecordFits(r)'
    BY <1>1, <1>3, <1>5 DEF TrueInv, RecordFits, Recording
  <1>8. FreshFits(r)'
    BY <1>5 DEF FreshFits
  <1>9. \A p \in Paths : \A e : MayVouch(r, p, e)'
    BY <1>5 DEF MayVouch, Recording
  <1>10. \A p \in Paths : \A e \in {cache'[p], job'[r].old[p], job'[r].next[p]} :
            e = Absent \/ e \in EntriesAt(p)
    BY <1>1, <1>3, <1>5, OldAndNextAreEntries DEF state, NoCache
  <1>11. QED
    BY <1>1, <1>5, <1>6, <1>7, <1>8, <1>9, <1>10, TrueQuiet

(* From the head on nothing is hashed any more; a sync goes back to the    *)
(* saved cache. *)
LEMMA TrueRecordHead ==
    ASSUME TrueInv, PublishedInv', NEW r \in Processes, RecordHead(r)
    PROVE  TrueInv'
  <1>1. /\ pc' = [pc EXCEPT ![r] = "save"] /\ job' = [job EXCEPT ![r] = job[r]]
        /\ \E h : held' = [held EXCEPT ![r] = h]
        /\ UNCHANGED <<disk, changes, had, versions>> /\ cache' = cache
    BY DEF RecordHead, Goto, TrueInv, PublishedInv, shared
  <1>2. \A p \in Paths : \A e \in {cache'[p], job[r].old[p], job[r].next[p]} :
           \/ e = Absent
           \/ e \in EntriesAt(p)
           \/ IsTrue(p, e) /\ \A q \in Processes : MayVouch(q, p, e)
    BY <1>1, OldAndNextAreEntries
  <1>3. FreshFits(r)'
    BY <1>1 DEF FreshFits, TrueInv, PublishedInv
  <1>4. held' = held \/ \E h : held' = [held EXCEPT ![r] = h]
    BY <1>1
  <1>5. QED
    BY <1>1, <1>2, <1>3, <1>4, TrueOutside

LEMMA TrueSaveCache ==
    ASSUME TrueInv, PublishedInv', NEW r \in Processes, SaveCache(r)
    PROVE  TrueInv'
  <1>1. UNCHANGED <<disk, changes, had, versions>> /\ cache' = job[r].next
    BY DEF SaveCache, shared
  <1>2. CASE job[r].kind = "sync"
    <2>1. /\ pc' = [pc EXCEPT ![r] = "settle"] /\ job' = [job EXCEPT ![r] = job[r]]
          /\ UNCHANGED held
      BY <1>2 DEF SaveCache, Goto, TrueInv, PublishedInv
    <2>2. \A p \in Paths : \A e \in {cache'[p], job[r].old[p], job[r].next[p]} :
             e = Absent \/ e \in EntriesAt(p)
      BY <1>1, OldAndNextAreEntries
    <2>3. FreshFits(r)'
      BY <2>1 DEF FreshFits, TrueInv, PublishedInv
    <2>4. QED
      BY <1>1, <2>1, <2>2, <2>3, TrueOutside
  <1>3. CASE job[r].kind # "sync"
    BY <1>1, <1>3, TrueFinish DEF SaveCache
  <1>4. QED
    BY <1>2, <1>3

LEMMA TrueSyncMerge ==
    ASSUME TrueInv, PublishedInv', NEW r \in Processes, SyncMerge(r)
    PROVE  TrueInv'
  <1> DEFINE ours == FilesOf(job[r].next)
             merged == MergeOf(ManifestOf(job[r].from), ours, ManifestOf(job[r].version))
             j == [NoJob EXCEPT !.kind = "sync", !.version = job[r].version,
                                !.files = merged, !.next = cache,
                                !.todo = Incoming(ours, merged),
                                !.remove = Outgoing(ours, merged)]
  <1>1. /\ pc' = [pc EXCEPT ![r] = "write"] /\ job' = [job EXCEPT ![r] = j]
        /\ UNCHANGED <<disk, changes, had, versions, held>> /\ cache' = cache
    BY DEF SyncMerge, MergeInto, Goto, Keep, shared, state
  <1> HIDE DEF ours, merged
  <1>2. j.old = NoCache /\ j.next = cache /\ j.fresh = {}
    BY DEF NoJob
  <1> HIDE DEF j
  <1>3. \A p \in Paths : \A e \in {cache'[p], j.old[p], j.next[p]} :
           e = Absent \/ e \in EntriesAt(p)
    BY <1>1, <1>2, OldAndNextAreEntries DEF NoCache
  <1>4. FreshFits(r)'
    BY <1>1, <1>2 DEF FreshFits, TrueInv, PublishedInv
  <1>5. QED
    BY <1>1, <1>3, <1>4, TrueOutside

LEMMA TrueBeginRestore ==
    ASSUME TrueInv, PublishedInv', NEW r \in Processes, BeginRestore(r)
    PROVE  TrueInv'
  <1> DEFINE m == ManifestOf(checkedOut)
             j == [NoJob EXCEPT !.kind = "restore", !.version = checkedOut,
                                !.files = m, !.todo = PathsOf(m)]
  <1>1. /\ pc' = [pc EXCEPT ![r] = "write"] /\ job' = [job EXCEPT ![r] = j]
        /\ UNCHANGED <<disk, changes, had, versions, held>> /\ cache' = cache
    BY DEF BeginRestore, Goto, Keep, shared, state
  <1> HIDE DEF m
  <1>2. j.old = NoCache /\ j.next = NoCache /\ j.fresh = {}
    BY DEF NoJob
  <1> HIDE DEF j
  <1>3. \A p \in Paths : \A e \in {cache'[p], j.old[p], j.next[p]} :
           e = Absent \/ e \in EntriesAt(p)
    BY <1>1, <1>2, OldAndNextAreEntries DEF NoCache
  <1>4. FreshFits(r)'
    BY <1>1, <1>2 DEF FreshFits, TrueInv, PublishedInv
  <1>5. QED
    BY <1>1, <1>3, <1>4, TrueOutside

(* A command that goes on writing, maybe with an entry of what it has      *)
(* written and what is there now. *)
StillWrites(r, j) ==
    /\ pc[r] \in {"write", "written"}
    /\ j.fresh \subseteq job[r].fresh /\ j.files = job[r].files /\ j.old = job[r].old
    /\ \A p \in Paths :
          \/ j.next[p] \in {job[r].next[p], Absent}
          \/ /\ p \in job[r].fresh \cap Present
             /\ j.next[p] = CacheEntry(StatOf(p), job[r].files[p])

LEMMA TrueWriting ==
    ASSUME TrueInv, PublishedInv', NEW r \in Processes, NEW j, StillWrites(r, j),
           pc' = [pc EXCEPT ![r] = "write"], job' = [job EXCEPT ![r] = j],
           UNCHANGED <<disk, changes, had, shared, state, held>>
    PROVE  TrueInv'
  <1>1. ASSUME NEW p \in job[r].fresh \cap Present
        PROVE  LET e == CacheEntry(StatOf(p), job[r].files[p])
               IN  IsTrue(p, e) /\ \A q \in Processes : MayVouch(q, p, e)
    <2> DEFINE e == CacheEntry(StatOf(p), job[r].files[p])
    <2>1. FileAt(p) \in {job[r].files[p], Absent}
      BY DEF TrueInv, FreshFits, StillWrites
    <2>2. disk[p].file \in Files /\ FileAt(p) = disk[p].file
      BY FilesOnDisk DEF TrueInv, PublishedInv, FileAt, Present
    <2>3. job[r].files[p] = disk[p].file
      BY <2>1, <2>2, AbsentAssumption
    <2>4. e.size = SizeOf[e.file] /\ e.mtime = disk[p].mtime /\ e.file = disk[p].file
      BY <2>3 DEF CacheEntry, StatOf
    <2> HIDE DEF e
    <2>5. IsTrue(p, e) /\ \A q \in Processes : MayVouch(q, p, e)
      BY <2>4, CurrentEntry
    <2>6. QED
      BY <2>5 DEF e
  <1>2. \A p \in Paths : \A e \in {cache'[p], j.old[p], j.next[p]} :
            \/ e = Absent
            \/ e \in EntriesAt(p)
            \/ IsTrue(p, e) /\ \A q \in Processes : MayVouch(q, p, e)
    BY <1>1, OldAndNextAreEntries DEF state, StillWrites
  <1>3. pc'[r] = "write" /\ job'[r] = j
    BY OthersStay DEF TrueInv
  <1>4. FreshFits(r)'
    BY <1>3 DEF FreshFits, TrueInv, FileAt, StillWrites
  <1>5. UNCHANGED <<disk, changes, had, versions>>
    BY DEF shared
  <1>6. QED
    BY <1>2, <1>4, <1>5, TrueOutside

LEMMA TrueRestoreGoesOn ==
    ASSUME TrueInv, PublishedInv', NEW r \in Processes, RestoreGoesOn(r)
    PROVE  TrueInv'
  <1>1. PICK p \in Paths : Keep(r, [job[r] EXCEPT !.todo = @ \ {p}])
    BY DEF RestoreGoesOn
  <1> DEFINE j == [job[r] EXCEPT !.todo = @ \ {p}]
  <1>2. /\ pc[r] = "written" /\ pc' = [pc EXCEPT ![r] = "write"] /\ job' = [job EXCEPT ![r] = j]
        /\ UNCHANGED <<disk, changes, had, shared, state, held>>
    BY <1>1 DEF RestoreGoesOn, Goto, Keep
  <1>3. job[r] \in Jobs(Len(versions))
    BY DEF TrueInv, PublishedInv
  <1>4. j.fresh = job[r].fresh /\ j.files = job[r].files /\ j.old = job[r].old /\ j.next = job[r].next
    BY <1>3 DEF Jobs
  <1> HIDE DEF j
  <1>5. StillWrites(r, j)
    BY <1>2, <1>4 DEF StillWrites
  <1>6. QED
    BY <1>2, <1>5, TrueWriting

LEMMA TrueRefresh ==
    ASSUME TrueInv, PublishedInv', NEW r \in Processes, Refresh(r)
    PROVE  TrueInv'
  <1>1. PICK p \in Present :
           /\ p \in job[r].fresh
           /\ Keep(r, [job[r] EXCEPT !.fresh = @ \ {p},
                                     !.next[p] = CacheEntry(StatOf(p), job[r].files[p])])
    BY DEF Refresh, IsFirst
  <1> DEFINE e == CacheEntry(StatOf(p), job[r].files[p])
             j == [job[r] EXCEPT !.fresh = @ \ {p}, !.next[p] = e]
  <1>2. /\ pc[r] = "write" /\ pc' = [pc EXCEPT ![r] = "write"] /\ job' = [job EXCEPT ![r] = j]
        /\ UNCHANGED <<disk, changes, had, shared, state, held>>
    BY <1>1 DEF Refresh, Keep, TrueInv, PublishedInv
  <1>3. job[r] \in Jobs(Len(versions)) /\ p \in Paths
    BY DEF TrueInv, PublishedInv, Present
  <1> HIDE DEF e
  <1>4. /\ j.fresh \subseteq job[r].fresh /\ j.files = job[r].files /\ j.old = job[r].old
        /\ j.next[p] = e /\ \A q \in Paths \ {p} : j.next[q] = job[r].next[q]
    BY <1>3 DEF Jobs, Caches
  <1> HIDE DEF j
  <1>5. StillWrites(r, j)
    BY <1>1, <1>2, <1>4 DEF e, StillWrites
  <1>6. QED
    BY <1>2, <1>5, TrueWriting

LEMMA TrueSyncGoesOn ==
    ASSUME TrueInv, PublishedInv', NEW r \in Processes, SyncGoesOn(r)
    PROVE  TrueInv'
  <1>1. PICK p \in Present :
           /\ IsNext(r, p)
           /\ Keep(r, [job[r] EXCEPT !.todo = @ \ {p}, !.fresh = {},
                                     !.next[p] = CacheEntry(StatOf(p), job[r].files[p])])
    BY DEF SyncGoesOn
  <1> DEFINE e == CacheEntry(StatOf(p), job[r].files[p])
             j == [job[r] EXCEPT !.todo = @ \ {p}, !.fresh = {}, !.next[p] = e]
  <1>2. /\ pc[r] = "written" /\ pc' = [pc EXCEPT ![r] = "write"] /\ job' = [job EXCEPT ![r] = j]
        /\ UNCHANGED <<disk, changes, had, shared, state, held>>
    BY <1>1 DEF SyncGoesOn, Goto, Keep
  <1>3. job[r] \in Jobs(Len(versions)) /\ p \in Paths
    BY DEF TrueInv, PublishedInv, Present
  <1> HIDE DEF e
  <1>4. /\ j.fresh = {} /\ j.files = job[r].files /\ j.old = job[r].old
        /\ j.next[p] = e /\ \A q \in Paths \ {p} : j.next[q] = job[r].next[q]
    BY <1>3 DEF Jobs, Caches
  <1>5. p \in job[r].fresh
    BY <1>1, <1>2, <1>3 DEF TrueInv, FreshFits
  <1> HIDE DEF j
  <1>6. StillWrites(r, j)
    BY <1>1, <1>2, <1>4, <1>5 DEF e, StillWrites
  <1>7. QED
    BY <1>2, <1>6, TrueWriting

(* The commands that write or delete a file. *)
LEMMA TrueWriteFile ==
    ASSUME TrueInv, PublishedInv', Undisturbed, MtimesMove, NEW r \in Processes, WriteFile(r)
    PROVE  TrueInv'
  <1>1. PICK p \in Paths :
           /\ IsFirst(p, job[r].todo) /\ ChangeFile(p, job[r].files[p])
           /\ Keep(r, [job[r] EXCEPT !.fresh = @ \cup {p}])
    BY DEF WriteFile, IsNext
  <1> DEFINE j == [job[r] EXCEPT !.fresh = @ \cup {p}]
             x == job[r].files[p]
  <1>2. /\ pc[r] = "write" /\ pc' = [pc EXCEPT ![r] = "written"]
        /\ job' = [job EXCEPT ![r] = j] /\ UNCHANGED <<versions, cache>>
    BY <1>1 DEF WriteFile, Goto, Keep, shared, state
  <1>3. job[r] \in Jobs(Len(versions)) /\ PublishedInv
    BY DEF TrueInv, PublishedInv
  <1>4. /\ j.fresh = job[r].fresh \cup {p} /\ j.todo = job[r].todo /\ j.files = job[r].files
        /\ j.old = job[r].old /\ j.next = job[r].next
        /\ x \in Files \cup {Absent} /\ job[r].fresh \subseteq Paths
    BY <1>3 DEF Jobs, Manifests
  <1> HIDE DEF j
  <1>5. /\ pc'[r] = "written" /\ job'[r] = j
        /\ \A q \in Processes \ {r} : pc'[q] = pc[q] /\ job'[q] = job[q]
    BY <1>2, <1>3 DEF PublishedInv
  <1>6. FileAt(p)' = x /\ \A o \in Paths \ {p} : FileAt(o)' = FileAt(o)
    BY <1>1, <1>3, <1>4, ChangedFile
  <1>7. FreshFits(r)'
    <2>1. \A q \in Paths : IsFirst(q, j.todo) => q \in j.fresh
      BY <1>1, <1>4, FirstIsOne
    <2>2. \A o \in j.fresh : FileAt(o)' \in {j.files[o], Absent}
      BY <1>2, <1>4, <1>6 DEF TrueInv, FreshFits
    <2>3. QED
      BY <1>5, <2>1, <2>2 DEF FreshFits, IsNext
  <1>8. \A q \in Processes \ {r} : \A o \in job[q].fresh : FileAt(o)' \in {FileAt(o), Absent}
    BY DEF Undisturbed
  <1>9. ASSUME NEW q \in {r}
        PROVE  /\ ~Recording(q)' /\ pc'[q] # "head" /\ FreshFits(q)'
               /\ job'[q].old = job[q].old
               /\ \A o \in Paths : job'[q].next[o] \in {job[q].next[o], Absent}
    BY <1>4, <1>5, <1>7 DEF Recording
  <1> HIDE DEF x
  <1>10. ChangeFile(p, x) /\ x \in Files \cup {Absent}
    BY <1>1, <1>4 DEF x
  <1>11. ChangeFits({r})
    BY <1>5, <1>8, <1>9 DEF ChangeFits
  <1>12. QED
    BY <1>2, <1>10, <1>11, TrueChange

LEMMA TrueRemoveFile ==
    ASSUME TrueInv, PublishedInv', Undisturbed, MtimesMove, NEW r \in Processes, RemoveFile(r)
    PROVE  TrueInv'
  <1>1. PICK p \in job[r].remove :
           /\ IF p \in Present THEN ChangeFile(p, Absent) ELSE UNCHANGED <<disk, changes, had, held>>
           /\ Keep(r, [job[r] EXCEPT !.remove = @ \ {p}, !.next[p] = Absent])
    BY DEF RemoveFile
  <1> DEFINE j == [job[r] EXCEPT !.remove = @ \ {p}, !.next[p] = Absent]
  <1>2. job[r] \in Jobs(Len(versions)) /\ PublishedInv
    BY DEF TrueInv, PublishedInv
  <1>3. /\ j.fresh = job[r].fresh /\ j.files = job[r].files /\ j.old = job[r].old
        /\ \A o \in Paths : j.next[o] \in {job[r].next[o], Absent}
        /\ p \in Paths /\ job[r].fresh \subseteq Paths
    BY <1>2 DEF Jobs, Caches
  <1>4. /\ pc[r] = "write" /\ pc' = [pc EXCEPT ![r] = "write"]
        /\ job' = [job EXCEPT ![r] = j] /\ UNCHANGED <<versions, cache>>
    BY <1>1, <1>2 DEF RemoveFile, Keep, shared, state, PublishedInv
  <1> HIDE DEF j
  <1>5. /\ pc'[r] = "write" /\ job'[r] = j
        /\ \A q \in Processes \ {r} : pc'[q] = pc[q] /\ job'[q] = job[q]
    BY <1>2, <1>4 DEF PublishedInv
  <1>6. FreshFits(r)'
    <2>1. \A o \in job[r].fresh : FileAt(o)' \in {FileAt(o), Absent}
      BY DEF Undisturbed
    <2>2. \A o \in j.fresh : FileAt(o)' \in {j.files[o], Absent}
      BY <1>3, <1>4, <2>1 DEF TrueInv, FreshFits
    <2>3. QED
      BY <1>5, <2>2 DEF FreshFits
  <1>7. CASE p \in Present
    <2>1. \A q \in Processes \ {r} : \A o \in job[q].fresh : FileAt(o)' \in {FileAt(o), Absent}
      BY DEF Undisturbed
    <2>2. ASSUME NEW q \in {r}
          PROVE  /\ ~Recording(q)' /\ pc'[q] # "head" /\ FreshFits(q)'
                 /\ job'[q].old = job[q].old
                 /\ \A o \in Paths : job'[q].next[o] \in {job[q].next[o], Absent}
      BY <1>3, <1>5, <1>6 DEF Recording
    <2>3. ChangeFile(p, Absent)
      BY <1>1, <1>7
    <2>4. ChangeFits({r})
      BY <1>5, <2>1, <2>2 DEF ChangeFits
    <2>5. QED
      BY <1>3, <1>4, <2>3, <2>4, TrueChange
  <1>8. CASE p \notin Present
    <2>1. UNCHANGED <<disk, changes, had, versions>> /\ cache' = cache /\ held' = held
      BY <1>1, <1>4, <1>8
    <2>2. \A q \in Paths : \A e \in {cache'[q], j.old[q], j.next[q]} :
             \/ e = Absent
             \/ e \in EntriesAt(q)
             \/ IsTrue(q, e) /\ \A s \in Processes : MayVouch(s, q, e)
      BY <1>3, <2>1, OldAndNextAreEntries
    <2>3. held' = held \/ \E h : held' = [held EXCEPT ![r] = h]
      BY <2>1
    <2>4. QED
      BY <1>4, <1>6, <2>1, <2>2, <2>3, TrueOutside
  <1>9. QED
    BY <1>7, <1>8

(* The user saves or deletes a file. *)
LEMMA TrueEdit ==
    ASSUME TrueInv, PublishedInv', Undisturbed, MtimesMove,
           NEW p \in Paths, NEW x \in Files \cup {Absent}, Edit(p, x)
    PROVE  TrueInv'
  <1>1. ChangeFile(p, x) /\ UNCHANGED <<versions, cache, pc, job>>
    BY DEF Edit, shared, state
  <1>2. ChangeFits({})
    BY <1>1 DEF ChangeFits, Undisturbed
  <1>3. QED
    BY <1>1, <1>2, TrueChange

(* Another space publishes, and a cache is lost. *)
LEMMA TrueOthersPublish ==
    ASSUME TrueInv, PublishedInv', NEW p \in Paths, NEW x \in Files \cup {Absent},
           OthersPublish(p, x)
    PROVE  TrueInv'
  <1> DEFINE m == [ManifestOf(ref) EXCEPT ![p] = x]
             entry == [files |-> m, sizes |-> [q \in PathsOf(m) |-> SizeOf[m[q]]]]
  <1>1. /\ versions' = Append(versions, entry)
        /\ UNCHANGED <<disk, changes, had, state, pc, job, held>>
        /\ versions \in Seq(PublishedVersions)
    BY DEF OthersPublish, TrueInv, PublishedInv
  <1> HIDE DEF m
  <1>2. \A q \in PathsOf(entry.files) : entry.sizes[q] = SizeOf[entry.files[q]]
    OBVIOUS
  <1> HIDE DEF entry
  <1>3. ASSUME NEW v \in 1 .. Len(versions'), NEW q \in PathsOf(versions'[v].files)
        PROVE  versions'[v].sizes[q] = SizeOf[versions'[v].files[q]]
    <2>1. CASE v = Len(versions) + 1
      <3>1. versions'[v] = entry
        BY <1>1, <2>1
      <3>2. QED
        BY <1>2, <1>3, <3>1
    <2>2. CASE v # Len(versions) + 1
      <3>1. v \in 1 .. Len(versions) /\ versions'[v] = versions[v]
        BY <1>1, <1>3, <2>2
      <3>2. QED
        BY <1>3, <3>1 DEF TrueInv, RecordedIsRestorable
    <2>3. QED
      BY <2>1, <2>2
  <1>4. RecordedIsRestorable'
    BY <1>3 DEF RecordedIsRestorable, PathsOf
  <1>5. EntriesAreTrue' /\ FilesAreKnown'
    BY <1>1 DEF TrueInv, EntriesAreTrue, EntriesAt, IsTrue, MayVouch, Recording, FilesAreKnown,
                Present, state
  <1>6. \A r \in Processes : RecordFits(r)' /\ FreshFits(r)'
    BY <1>1 DEF TrueInv, RecordFits, FreshFits, Recording, FileAt, FilesOf, IsNext
  <1>7. QED
    BY <1>4, <1>5, <1>6 DEF TrueInv

LEMMA TrueLoseCache ==
    ASSUME TrueInv, PublishedInv', LoseCache
    PROVE  TrueInv'
  <1>1. UNCHANGED <<disk, changes, had, versions, pc, job, held>> /\ cache' = NoCache
    BY DEF LoseCache, shared
  <1>2. ASSUME NEW p \in Paths, NEW e \in EntriesAt(p)' PROVE e \in EntriesAt(p)
    BY <1>1 DEF EntriesAt, NoCache
  <1>3. ASSUME NEW p \in Paths, NEW e \in EntriesAt(p)'
        PROVE  IsTrue(p, e)' /\ \A r \in Processes : MayVouch(r, p, e)'
    <2>1. IsTrue(p, e) /\ \A r \in Processes : MayVouch(r, p, e)
      BY <1>2 DEF TrueInv, EntriesAreTrue
    <2>2. QED
      BY <1>1, <2>1 DEF IsTrue, MayVouch, Recording, Present
  <1>4. EntriesAreTrue'
    BY <1>3 DEF EntriesAreTrue
  <1>5. FilesAreKnown' /\ RecordedIsRestorable'
    BY <1>1 DEF TrueInv, FilesAreKnown, Present, RecordedIsRestorable, PathsOf
  <1>6. \A r \in Processes : RecordFits(r)' /\ FreshFits(r)'
    BY <1>1 DEF TrueInv, RecordFits, FreshFits, Recording, FileAt, FilesOf, IsNext
  <1>7. QED
    BY <1>4, <1>5, <1>6 DEF TrueInv

LEMMA TrueInvInit == Init => TrueInv
  <1> SUFFICES ASSUME Init PROVE TrueInv
    OBVIOUS
  <1>1. PublishedInv
    BY PublishedInvInit
  <1>2. \A p \in Paths : EntriesAt(p) = {} /\ p \notin Present
    BY DEF Init, EntriesAt, NoJob, NoCache, Present
  <1>3. FilesAreKnown /\ EntriesAreTrue
    <2>1. \A p \in Paths : had[p] = {}
      BY DEF Init
    <2>2. QED
      BY <1>2, <2>1 DEF FilesAreKnown, EntriesAreTrue, Present
  <1>4. RecordedIsRestorable
    BY DEF Init, RecordedIsRestorable
  <1>5. \A r \in Processes : pc[r] = "idle"
    BY DEF Init
  <1>6. QED
    BY <1>1, <1>3, <1>4, <1>5 DEF TrueInv, RecordFits, FreshFits, Recording

LEMMA TrueStep ==
    ASSUME TrueInv, PublishedInv', Undisturbed, MtimesMove, NEW r \in Processes, Step(r) \/ Die(r)
    PROVE  TrueInv'
  <1>1. CASE FileGone(r) \/ Behind(r) \/ SizeDiffers(r) \/ WrittenIsGone(r) \/ Die(r) \/ Settle(r)
    BY <1>1, TrueFinish DEF FileGone, Behind, SizeDiffers, WrittenIsGone, Die, Settle, shared, state
  <1>2. QED
    BY <1>1, TrueBegin, TrueLoad, TrueVouched, TrueRead, TrueRestat, TruePublish,
       TrueRecordHead, TrueSaveCache, TrueSyncMerge, TrueSyncGoesOn, TrueRemoveFile,
       TrueBeginRestore, TrueRestoreGoesOn, TrueRefresh, TrueWriteFile
       DEF Step

LEMMA TrueInvNext == TrueInv /\ [Next /\ Undisturbed /\ MtimesMove]_vars => TrueInv'
  <1> SUFFICES ASSUME TrueInv, [Next /\ Undisturbed /\ MtimesMove]_vars PROVE TrueInv'
    OBVIOUS
  <1>1. PublishedInv'
    BY PublishedInvNext DEF TrueInv
  <1>2. CASE UNCHANGED vars
    <2>1. EntriesAreTrue' /\ FilesAreKnown' /\ RecordedIsRestorable'
      BY <1>2 DEF vars, shared, state, TrueInv, EntriesAreTrue, EntriesAt, IsTrue, MayVouch,
                  Recording, FilesAreKnown, Present, RecordedIsRestorable, PathsOf
    <2>2. \A r \in Processes : RecordFits(r)' /\ FreshFits(r)'
      BY <1>2 DEF vars, TrueInv, RecordFits, FreshFits, Recording, FileAt, FilesOf, IsNext
    <2>3. QED
      BY <1>1, <2>1, <2>2 DEF TrueInv
  <1>3. QED
    BY <1>1, <1>2, TrueEdit, TrueOthersPublish, TrueLoseCache, TrueStep DEF Next

LEMMA AlwaysTrue == CarefulSpec => []TrueInv
    BY TrueInvInit, TrueInvNext, PTL DEF CarefulSpec

(* Where an entry of the saved cache matches a file, it names the content  *)
(* the file has: status shows no change as none, and the next record may   *)
(* take the entry for the file.  Provided that other content of the same   *)
(* size gets an mtime not had before at the path, which is what the cache  *)
(* relies on (cache.go, CacheEntry), and that no file is replaced between  *)
(* being read or written and stat'ed.                                      *)
THEOREM CacheTellsTheTruth == CarefulSpec => []VouchedIsTrue
  <1>1. TrueInv => VouchedIsTrue
    <2>1. ASSUME TrueInv, NEW p \in Unchanged(cache) PROVE cache[p].file = FileAt(p)
      <3>1. p \in Present /\ p \in Paths /\ cache[p] # Absent /\ Matches(cache[p], StatOf(p))
        BY <2>1 DEF Unchanged, Matches, Present
      <3>2. cache[p] \in EntriesAt(p)
        BY <3>1 DEF EntriesAt
      <3>3. IsTrue(p, cache[p])
        BY <2>1, <3>1, <3>2 DEF TrueInv, EntriesAreTrue
      <3>4. QED
        BY <2>1, <3>1, <3>3, MatchIsTrue DEF TrueInv, FileAt, Present
    <2>2. QED
      BY <2>1 DEF VouchedIsTrue
  <1>2. QED
    BY <1>1, AlwaysTrue, PTL

(* A record publishes at every path a content, or an absence, the path had *)
(* while it ran, whichever files the cache vouched for and whatever was    *)
(* saved meanwhile, under the same two conditions: mtimes move, and        *)
(* nothing is saved between a command's read and its re-stat of a file.    *)
THEOREM RecordsAreFaithful == CarefulSpec => []RecordIsFaithful
  <1>1. TrueInv => RecordIsFaithful
    <2>1. ASSUME TrueInv, NEW r \in Processes, pc[r] = "head", NEW p \in Paths
          PROVE  versions[job[r].version].files[p] \in held[r][p]
      <3>1. FilesOf(job[r].next)[p] \in held[r][p]
        BY <2>1 DEF TrueInv, RecordFits
      <3>2. JobFits(versions, job[r], "head")
        BY <2>1 DEF TrueInv, PublishedInv
      <3>3. versions[job[r].version].files = FilesOf(job[r].next)
        BY <3>2 DEF JobFits
      <3>4. QED
        BY <3>1, <3>3
    <2>2. QED
      BY <2>1 DEF RecordIsFaithful
  <1>2. QED
    BY <1>1, AlwaysTrue, PTL

(* A published manifest states the size each of its files has, so that a   *)
(* restore of the version is not refused. *)
THEOREM RecordedStaysRestorable == CarefulSpec => []RecordedIsRestorable
  <1>1. TrueInv => RecordedIsRestorable
    BY DEF TrueInv
  <1>2. QED
    BY <1>1, AlwaysTrue, PTL

==============================================================================

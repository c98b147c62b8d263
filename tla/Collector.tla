------------------------------- MODULE Collector -------------------------------
(***************************************************************************)
(* Garbage collection (src/client/gc.go) and expiry of the timeline        *)
(* (src/client/expiry.go) against the commands that put objects and refs   *)
(* into the same store: commit, snapshot, sync and promote.  Nothing locks *)
(* the store; what protects an object that no ref names yet is its age.    *)
(*                                                                         *)
(* A space works on one asset.  A file is the set of its chunks; files may *)
(* share chunks.  The objects of a version are its version object (with    *)
(* the manifest, which is put together with it), the file object and the   *)
(* chunks.  Putting an object that is there already renames a new file     *)
(* over it and so makes it young again.                                    *)
(***************************************************************************)
EXTENDS Integers, Sequences, FiniteSetsExt

CONSTANTS
    Spaces,         \* the working directories that share the store
    Files,          \* the contents an asset can have, sets of chunks
    MaxVersions,    \* bound: version objects ever put
    DiesIn          \* the steps in which a command may die or fail

Kinds == {"commit", "snapshot", "sync", "promote", "expire", "gc"}

Steps == {"upload", "publish", "record", "drop", "marked", "sweep"}

ASSUME FileAssumption == \A x \in Files : x # {}
ASSUME BoundAssumption == MaxVersions \in Nat
ASSUME ScopeAssumption == DiesIn \subseteq Steps

NoVersion == 0

VARIABLES
    versions,   \* what the version objects say, in the order of their times
    store,      \* the keys of the objects in the store
    old,        \* the objects last written longer ago than the grace period
    main,       \* the version of the ref main, NoVersion before the first
    timeline,   \* the versions under snapshots/
    promoted,   \* the versions under promoted/
    tree,       \* tree[s]: the content of the asset in the directory of s
    cached,     \* cached[s]: the status cache vouches for that content
    base,       \* base[s]: the version the next commit of s builds on
    pc,         \* pc[s]: what the command running in s does next
    job         \* job[s]: its kind and what it has computed and put so far

refs == <<main, timeline, promoted>>
objects == <<versions, store, old>>
local == <<tree, cached, base>>
vars == <<objects, refs, local, pc, job>>

FileKeys == {<<"file", x>> : x \in Files}
ChunkKeys == {<<"chunk", c>> : c \in UNION Files}
VersionKeys == {<<"version", v>> : v \in 1 .. MaxVersions}
Keys == FileKeys \cup ChunkKeys \cup VersionKeys

VersionIds == 1 .. Len(versions)

NoJob == [kind |-> "none", file |-> {}, todo |-> {}, sent |-> {}, version |-> NoVersion,
          doomed |-> {}, drop |-> {}]

TypeOK ==
    /\ versions \in Seq([file : Files, parent : 0 .. MaxVersions, snapshot : BOOLEAN])
    /\ Len(versions) <= MaxVersions
    /\ old \subseteq store /\ store \subseteq Keys
    /\ main \in {NoVersion} \cup VersionIds
    /\ timeline \cup promoted \subseteq VersionIds
    /\ tree \in [Spaces -> Files]
    /\ cached \in [Spaces -> BOOLEAN]
    /\ base \in [Spaces -> {NoVersion} \cup VersionIds]
    /\ pc \in [Spaces -> {"idle"} \cup Steps]
    /\ job \in [Spaces ->
                   [kind : {"none"} \cup Kinds, file : Files \cup {{}},
                    todo : SUBSET Keys, sent : SUBSET Keys,
                    version : {NoVersion} \cup VersionIds,
                    doomed : SUBSET Keys, drop : SUBSET VersionIds]]
    /\ \A s \in Spaces :
          /\ job[s].doomed \cap VersionKeys \subseteq {<<"version", v>> : v \in VersionIds}
          /\ job[s].todo \cap job[s].sent = {}

Init ==
    /\ versions = <<>>
    /\ store = {} /\ old = {}
    /\ main = NoVersion /\ timeline = {} /\ promoted = {}
    /\ tree \in [Spaces -> Files]
    /\ cached = [s \in Spaces |-> FALSE]
    /\ base = [s \in Spaces |-> NoVersion]
    /\ pc = [s \in Spaces |-> "idle"]
    /\ job = [s \in Spaces |-> NoJob]

------------------------------------------------------------------------------

(* The content of a file, as the keys it is put under. *)
KeysOf(x) == {<<"file", x>>} \cup {<<"chunk", c>> : c \in x}

Roots == ({main} \cup timeline \cup promoted) \ {NoVersion}

(* The versions met on the walk from the roots along the parents: no set   *)
(* that has the roots and is closed under parents can do without them.     *)
Reachable ==
    {v \in VersionIds :
        \A met \in SUBSET (VersionIds \ {v}) :
            Roots \subseteq met => \E w \in met : versions[w].parent \notin met \cup {NoVersion}}

(* The keys of these versions and of everything below them. *)
KeysBelow(vs) == UNION { {<<"version", v>>} \cup KeysOf(versions[v].file) : v \in vs }

(* Mutant of Marked: the walk stops at the versions the refs name. *)
MarkedAtTips == KeysBelow(Roots)

(* markVersion, markManifest, markFile *)
Marked == KeysBelow(Reachable)

Goto(s, from, to) == pc[s] = from /\ pc' = [pc EXCEPT ![s] = to]

Start(s, to, what) ==
    /\ Goto(s, "idle", to)
    /\ job' = [job EXCEPT ![s] = what]

Finish(s) ==
    /\ pc' = [pc EXCEPT ![s] = "idle"]
    /\ job' = [job EXCEPT ![s] = NoJob]

(* The command goes on with what is left of its work, or is through. *)
GoOn(s, left, rest) ==
    IF left THEN job' = [job EXCEPT ![s] = rest] /\ UNCHANGED pc ELSE Finish(s)

(* A collector that has not listed the objects yet will find k young. *)
Sighted(t, jobs, k) ==
    IF pc[t] = "marked" THEN [jobs[t] EXCEPT !.doomed = @ \ {k}] ELSE jobs[t]

(* Mutant of PutObject: an object that is there is not written again. *)
PutObjectIfAbsent(s, k, next) ==
    /\ store' = store \cup {k}
    /\ old' = old
    /\ job' = [job EXCEPT ![s] = next]

(* Put: the object is there and young. *)
PutObject(s, k, next) ==
    /\ store' = store \cup {k}
    /\ old' = old \ {k}
    /\ job' = [t \in Spaces |-> Sighted(t, [job EXCEPT ![s] = next], k)]

------------------------------------------------------------------------------
(* commit, snapshot, sync and promote                                      *)

(* The user saves the asset; its mtime no longer matches the cache. *)
Edit(s, x) ==
    /\ pc[s] = "idle"
    /\ tree[s] # x
    /\ tree' = [tree EXCEPT ![s] = x]
    /\ cached' = [cached EXCEPT ![s] = FALSE]
    /\ UNCHANGED <<objects, refs, base, pc, job>>

(* scanWorkingTree: a file the cache vouches for is not uploaded again. *)
Scan(s, kind, v) ==
    /\ Start(s, "upload",
             [NoJob EXCEPT !.kind = kind, !.file = tree[s], !.version = v,
                           !.todo = IF cached[s] THEN {} ELSE KeysOf(tree[s])])
    /\ UNCHANGED <<objects, refs, local>>

StartRecord(s, kind) == kind \in {"commit", "snapshot"} /\ Scan(s, kind, NoVersion)

(* A sync that has something to do notes where to and scans as well. *)
StartSync(s) == main \notin {base[s], NoVersion} /\ Scan(s, "sync", main)

(* Mutant of Upload: the loop over the chunks does not advance. *)
UploadAgain(s, k) ==
    /\ pc[s] = "upload"
    /\ k \in FileKeys => job[s].todo = {k}
    /\ PutObject(s, k, [job[s] EXCEPT !.sent = @ \cup {k}])
    /\ UNCHANGED <<versions, refs, local, pc>>

(* snapshotFile: the chunks, one by one, and then the file object. *)
Upload(s, k) ==
    /\ pc[s] = "upload"
    /\ k \in FileKeys => job[s].todo = {k}
    /\ PutObject(s, k, [job[s] EXCEPT !.todo = @ \ {k}, !.sent = @ \cup {k}])
    /\ UNCHANGED <<versions, refs, local, pc>>

(* putManifest and putVersion *)
PutVersion(s, parent, snapshot) ==
    LET v == Len(versions) + 1
        k == <<"version", v>>
    IN  /\ v <= MaxVersions
        /\ versions' = Append(versions,
                [file |-> job[s].file, parent |-> parent, snapshot |-> snapshot])
        /\ PutObject(s, k, [job[s] EXCEPT !.version = v, !.sent = @ \cup {k}])

PutCommit(s) ==
    /\ job[s].kind = "commit"
    /\ job[s].todo = {}
    /\ base[s] = main
    /\ Goto(s, "upload", "publish")
    /\ PutVersion(s, main, FALSE)
    /\ UNCHANGED <<refs, local>>

CommitBehind(s) ==
    /\ pc[s] = "upload"
    /\ job[s].kind = "commit"
    /\ job[s].todo = {}
    /\ base[s] # main
    /\ Finish(s)
    /\ UNCHANGED <<objects, refs, local>>

PutSnapshot(s) ==
    /\ job[s].kind = "snapshot"
    /\ job[s].todo = {}
    /\ Goto(s, "upload", "publish")
    /\ PutVersion(s, NoVersion, TRUE)
    /\ UNCHANGED <<refs, local>>

(* Promote reads the version object, nothing below it, and puts another    *)
(* one that names the same manifest.                                       *)
StartPromote(s, v) ==
    /\ <<"version", v>> \in store
    /\ versions[v].snapshot
    /\ Start(s, "upload",
             [NoJob EXCEPT !.kind = "promote", !.file = versions[v].file, !.version = v])
    /\ UNCHANGED <<objects, refs, local>>

PutPromoted(s) ==
    /\ job[s].kind = "promote"
    /\ Goto(s, "upload", "publish")
    /\ PutVersion(s, NoVersion, FALSE)
    /\ UNCHANGED <<refs, local>>

CommitPublish(s) ==
    /\ Goto(s, "publish", "record")
    /\ job[s].kind = "commit"
    /\ main = versions[job[s].version].parent
    /\ main' = job[s].version
    /\ UNCHANGED <<objects, timeline, promoted, local, job>>

CommitConflict(s) ==
    /\ pc[s] = "publish"
    /\ job[s].kind = "commit"
    /\ main # versions[job[s].version].parent
    /\ Finish(s)
    /\ UNCHANGED <<objects, refs, local>>

SnapshotPublish(s) ==
    /\ job[s].kind = "snapshot"
    /\ Goto(s, "publish", "record")
    /\ timeline' = timeline \cup {job[s].version}
    /\ UNCHANGED <<objects, main, promoted, local, job>>

PromotePublish(s) ==
    /\ pc[s] = "publish"
    /\ job[s].kind = "promote"
    /\ promoted' = promoted \cup {job[s].version}
    /\ Finish(s)
    /\ UNCHANGED <<objects, main, timeline, local>>

(* recordHead and SaveCache, only now that the version is in the store *)
Record(s) ==
    /\ pc[s] = "record"
    /\ base' = [base EXCEPT ![s] = IF job[s].kind = "commit" THEN job[s].version ELSE @]
    /\ cached' = [cached EXCEPT ![s] = TRUE]
    /\ Finish(s)
    /\ UNCHANGED <<objects, refs, tree>>

(* The rest of a sync.  An asset nobody has changed here since the base is *)
(* replaced by the other side's, out of the store, and then cached; any    *)
(* other keeps its content, and the cache what it knew before the scan.    *)
SyncSettle(s) ==
    /\ pc[s] = "upload"
    /\ job[s].kind = "sync"
    /\ job[s].todo = {}
    /\ base' = [base EXCEPT ![s] = job[s].version]
    /\ IF base[s] # NoVersion /\ tree[s] = versions[base[s]].file
       THEN /\ KeysOf(versions[job[s].version].file) \subseteq store
            /\ tree' = [tree EXCEPT ![s] = versions[job[s].version].file]
            /\ cached' = [cached EXCEPT ![s] = @ \/ tree'[s] # tree[s]]
       ELSE UNCHANGED <<tree, cached>>
    /\ Finish(s)
    /\ UNCHANGED <<objects, refs>>

------------------------------------------------------------------------------
(* expire                                                                  *)

(* What the schedule can drop: in every slot the newest snapshot stays, so *)
(* the newest of all goes only when even it is past the last window.  Any  *)
(* other set of snapshots shares slots with later ones at some time.       *)
Droppable(drop) == drop # {} /\ (Max(timeline) \in drop => drop = timeline)

(* Timeline reads the version object of every snapshot. *)
StartExpire(s, drop) ==
    /\ \A v \in timeline : <<"version", v>> \in store
    /\ Droppable(drop)
    /\ Start(s, "drop", [NoJob EXCEPT !.kind = "expire", !.drop = drop])
    /\ UNCHANGED <<objects, refs, local>>

(* The refs are deleted one by one, the oldest first.  One that another    *)
(* expiry has deleted already is no error.                                 *)
DropRef(s) ==
    /\ pc[s] = "drop"
    /\ LET v == Min(job[s].drop)
       IN  /\ timeline' = timeline \ {v}
           /\ GoOn(s, job[s].drop # {v}, [job[s] EXCEPT !.drop = @ \ {v}])
    /\ UNCHANGED <<objects, main, promoted, local>>

------------------------------------------------------------------------------
(* gc                                                                      *)

(* reachableObjects: the refs are read and everything below them is walked *)
(* to the file objects; one that is missing fails the collection.  What is *)
(* old by now and was not met is doomed; without any nothing happens.  All *)
(* of it is taken as one step, though the code reads ref after ref.        *)
Mark(s) ==
    LET met == Marked
    IN  /\ Start(s, "marked", [NoJob EXCEPT !.kind = "gc", !.doomed = old \ met])
        /\ met \ ChunkKeys \subseteq store
        /\ ~ old \subseteq met
        /\ UNCHANGED <<objects, refs, local>>

(* walkStore: the list of the objects with their ages is complete. *)
List(s) ==
    /\ pc[s] = "marked"
    /\ IF job[s].doomed = {} THEN Finish(s)
       ELSE Goto(s, "marked", "sweep") /\ UNCHANGED job
    /\ UNCHANGED <<objects, refs, local>>

(* sweep: the doomed are deleted in the order of their keys, without       *)
(* another look at refs or ages.  One that is gone already is no error.    *)
Sweep(s, k) ==
    /\ pc[s] = "sweep"
    /\ k \in FileKeys => job[s].doomed \cap ChunkKeys = {}
    /\ k \in VersionKeys => job[s].doomed \subseteq VersionKeys
    /\ store' = store \ {k}
    /\ old' = old \ {k}
    /\ GoOn(s, job[s].doomed # {k}, [job[s] EXCEPT !.doomed = @ \ {k}])
    /\ UNCHANGED <<versions, refs, local>>

------------------------------------------------------------------------------

Uploading(s) == pc[s] \in {"upload", "publish"}

InFlight == UNION {job[s].sent : s \in {t \in Spaces : Uploading(t)}}

(* The grace period passes for everything but what running commands have   *)
(* put: GraceDefault is longer than a command takes from its first put to  *)
(* its ref.                                                                *)
GracePasses ==
    /\ old' = store \ InFlight
    /\ UNCHANGED <<versions, store, refs, local, pc, job>>

Die(s) ==
    /\ pc[s] \in DiesIn
    /\ Finish(s)
    /\ UNCHANGED <<objects, refs, local>>

Work(s) ==
    \/ \E k \in job[s].todo : Upload(s, k)
    \/ \E k \in job[s].doomed : Sweep(s, k)
    \/ PutCommit(s) \/ CommitBehind(s) \/ PutSnapshot(s) \/ PutPromoted(s)
    \/ CommitPublish(s) \/ CommitConflict(s) \/ SnapshotPublish(s) \/ PromotePublish(s)
    \/ Record(s) \/ SyncSettle(s)
    \/ DropRef(s) \/ List(s)

Command(s) ==
    \/ \E kind \in {"commit", "snapshot"} : StartRecord(s, kind)
    \/ StartSync(s)
    \/ \E v \in VersionIds : StartPromote(s, v)
    \/ \E drop \in SUBSET timeline : StartExpire(s, drop)
    \/ Mark(s)

Next ==
    \/ \E s \in Spaces :
          \/ \E x \in Files : Edit(s, x)
          \/ Command(s) \/ Work(s) \/ Die(s)
    \/ GracePasses

Spec == Init /\ [][Next]_vars

------------------------------------------------------------------------------
(* What the collector relies on and nothing enforces.                      *)

(* Nobody puts anew what a sweep has on its list. *)
NobodyRevives ==
    \A s \in Spaces :
        pc[s] = "sweep" =>
            \A t \in Spaces : job[s].doomed \cap (job'[t].sent \ job[t].sent) = {}

(* The snapshot somebody promotes is on the timeline until it is done. *)
PromotesKept == \A s \in Spaces : job[s].kind = "promote" => job[s].file \in
                    {versions[v].file : v \in Reachable}

(* What a status cache vouches for is in a version that a ref still keeps. *)
CachesAreBacked ==
    \A s \in Spaces : cached[s] => tree[s] \in {versions[v].file : v \in Reachable}

CarefulNext == Next /\ NobodyRevives /\ PromotesKept' /\ CachesAreBacked'

CarefulSpec == Init /\ [][CarefulNext]_vars

(* Nobody races the sweep, but snapshots expire while the cache of a space *)
(* still vouches for their content.                                        *)
CachedSpec == Init /\ [][Next /\ NobodyRevives /\ PromotesKept']_vars

------------------------------------------------------------------------------

(* Whatever a ref reaches is in the store, whole: no interleaving of       *)
(* collectors, expiry, uploads and crashes deletes what a kept version     *)
(* needs, or publishes a version whose content is gone (store.go: a chunk  *)
(* may be deleted only when no reachable manifest references it).          *)
ReferencedIsStored == KeysBelow(Reachable) \subseteq store

(* What a running command has put stays there until its ref can keep it,   *)
(* although a collector sees only garbage in it (gc.go, GraceDefault).     *)
UploadsSurvive == InFlight \subseteq store

==============================================================================

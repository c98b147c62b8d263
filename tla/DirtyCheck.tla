------------------------------ MODULE DirtyCheck ------------------------------
(***************************************************************************)
(* What stands between a clear or a checkout and the loss of a file: the   *)
(* dirty check of src/client/dirty.go step by step, and the commands that  *)
(* delete by its word (clear.go, checkout.go).  One space runs them while  *)
(* its user saves files, while other spaces publish, snapshots expire and  *)
(* garbage is collected, and while the share the store is on may not be    *)
(* mounted: then everything goes to an empty store at the mount point.     *)
(*                                                                         *)
(* A file is the set of its chunks.  A manifest is put together with its   *)
(* version object, and a record is one step: Workspace, Collector and      *)
(* StatusCache take it apart.                                              *)
(***************************************************************************)
EXTENDS Merge, Sequences

CONSTANTS
    Ignored,        \* the paths .fibulaignore matches
    MaxVersions     \* bound: versions ever put

Places == {"share", "mount point"}

VARIABLES
    dir,        \* the working directory
    cached,     \* the paths whose file the status cache vouches for
    head,       \* the version in .fibula/head, 0 for none
    versions,   \* what the version objects say, by ID
    stores,     \* stores[w]: refs and objects of the store at w
    at,         \* what the store directory leads to
    pc,         \* what the running command does next
    job         \* what it has found out so far

space == <<dir, cached, head>>
vars == <<space, versions, stores, at, pc, job>>

NoJob == [kind |-> "none", target |-> 0, again |-> FALSE, reached |-> {}, todo |-> {},
          hashed |-> Empty, problem |-> FALSE]

EmptyStore == [main |-> 0, timeline |-> {}, versions |-> {}, files |-> {}, chunks |-> {}]

VersionIds == 1 .. Len(versions)

TypeOK ==
    /\ dir \in Manifests /\ cached \subseteq PathsOf(dir)
    /\ head \in {0} \cup VersionIds
    /\ Len(versions) <= MaxVersions
    /\ \A v \in VersionIds : versions[v].files \in Manifests /\ versions[v].parent \in 0 .. v - 1
    /\ \A w \in Places :
          /\ stores[w].main \in {0} \cup VersionIds
          /\ stores[w].timeline \cup stores[w].versions \subseteq VersionIds
          /\ stores[w].files \subseteq Files /\ stores[w].chunks \subseteq UNION Files
    /\ at \in Places
    /\ pc \in {"idle", "head", "refs", "scan", "rehash", "chunks", "snapshot",
               "delete", "write", "remove"}
    /\ job.kind \in {"none", "clear", "checkout"} /\ job.target \in {0} \cup VersionIds
    /\ job.reached \subseteq Files /\ job.hashed \in Manifests
    /\ job.todo \subseteq Paths \ (IF pc = "write" THEN {} ELSE Ignored)

(* An empty directory has been committed, by this space or by another one  *)
(* while this one has yet to record something.                             *)
Init ==
    /\ dir = Empty /\ cached = {} /\ head \in {0, 1}
    /\ versions = <<[files |-> Empty, parent |-> 0]>>
    /\ stores = [w \in Places |->
                    IF w = "share" THEN [EmptyStore EXCEPT !.main = 1, !.versions = {1}]
                    ELSE EmptyStore]
    /\ at = "share"
    /\ pc = "idle" /\ job = NoJob

------------------------------------------------------------------------------

store == stores[at]

FilesOf(v) == {versions[v].files[p] : p \in PathsOf(versions[v].files)}

(* walkVersions from every ref: the parents' parents, down to the first. *)
Reachable(st) ==
    LET below[v \in 0 .. Len(versions)] ==
            IF v = 0 THEN {} ELSE {v} \cup below[versions[v].parent]
    IN  below[st.main] \cup UNION {below[v] : v \in st.timeline}

ReachableFiles(st) == UNION {FilesOf(v) : v \in Reachable(st)}

(* Scan: ignored files are not seen. *)
Scanned == PathsOf(dir) \ Ignored

IsFirst(p, S) == p \in S /\ \A q \in S : p <= q

Finish == pc' = "idle" /\ job' = NoJob

(* snapshotFile for every scanned file: those the cache vouches for are    *)
(* not put again.                                                          *)
Uploaded(st) ==
    LET sent == {dir[p] : p \in Scanned \ cached}
    IN  [st EXCEPT !.files = @ \cup sent, !.chunks = @ \cup UNION sent]

(* Mutant of Record: the head moves although the version was never put. *)
RecordUnput ==
    /\ Len(versions) < MaxVersions
    /\ head' = Len(versions) + 1
    /\ cached' = Scanned
    /\ UNCHANGED <<versions, stores>>

(* Snapshot, from the scan to the saved cache. *)
Record ==
    LET v == Len(versions) + 1
    IN  /\ v <= MaxVersions
        /\ versions' = Append(versions,
               [files |-> [p \in Paths |-> IF p \in Scanned THEN dir[p] ELSE Absent],
                parent |-> 0])
        /\ stores' = [stores EXCEPT ![at] = [Uploaded(store) EXCEPT
                         !.versions = @ \cup {v}, !.timeline = @ \cup {v}]]
        /\ head' = v
        /\ cached' = Scanned

------------------------------------------------------------------------------
(* CheckClear                                                              *)

(* clear, or checkout of a version that Resolve finds *)
Begin(kind, v) ==
    /\ pc = "idle"
    /\ pc' = "head"
    /\ job' = [NoJob EXCEPT !.kind = kind, !.target = v]
    /\ UNCHANGED <<space, versions, stores, at>>

(* The check has found a problem, or cannot be done: nothing is deleted. *)
Refuse(when) ==
    /\ pc = when
    /\ Finish
    /\ UNCHANGED <<space, versions, stores, at>>

(* Mutant of ConfirmHead: a store that cannot produce it is trusted. *)
ConfirmNothing ==
    /\ pc = "head" /\ pc' = "refs"
    /\ UNCHANGED <<space, versions, stores, at, job>>

(* confirmStoreHoldsHead: "a question with a known answer".  "A space that *)
(* never snapshotted has nothing to confirm."                              *)
ConfirmHead ==
    /\ pc = "head" /\ pc' = "refs"
    /\ head \in {0} \cup store.versions
    /\ UNCHANGED <<space, versions, stores, at, job>>

HeadIsMissing == Refuse("head") /\ head \notin {0} \cup store.versions

(* reachableFiles: one version or file object that cannot be read is       *)
(* enough to refuse.                                                       *)
ReadRefs ==
    /\ pc = "refs" /\ pc' = "scan"
    /\ Reachable(store) \subseteq store.versions
    /\ ReachableFiles(store) \subseteq store.files
    /\ job' = [job EXCEPT !.reached = ReachableFiles(store)]
    /\ UNCHANGED <<space, versions, stores, at>>

RefsAreBroken ==
    /\ Refuse("refs")
    /\ ~(Reachable(store) \subseteq store.versions /\ ReachableFiles(store) \subseteq store.files)

Scan ==
    /\ pc = "scan" /\ pc' = "rehash"
    /\ job' = [job EXCEPT !.todo = Scanned]
    /\ UNCHANGED <<space, versions, stores, at>>

(* rehashAll reads the files, the cache is not asked.  One that is gone is *)
(* a problem.                                                              *)
Rehash(p) ==
    /\ pc = "rehash"
    /\ IsFirst(p, job.todo)
    /\ job' = [job EXCEPT !.todo = @ \ {p}, !.hashed[p] = dir[p],
                          !.problem = @ \/ dir[p] = Absent]
    /\ UNCHANGED <<space, versions, stores, at, pc>>

Rehashed ==
    /\ pc = "rehash" /\ pc' = "chunks"
    /\ job.todo = {}
    /\ UNCHANGED <<space, versions, stores, at, job>>

Candidates == {p \in PathsOf(job.hashed) : job.hashed[p] \in job.reached}

Unversioned == PathsOf(job.hashed) \ Candidates

(* The candidates that a missing chunk is put down to: for each file only  *)
(* the first of its paths.                                                 *)
WithMissing ==
    {p \in Candidates :
        /\ ~ job.hashed[p] \subseteq store.chunks
        /\ \A q \in Candidates : job.hashed[q] = job.hashed[p] => p <= q}

(* Mutant of ChunksConfirmed: that the content is versioned is enough. *)
ChunksAssumed == ~job.problem

(* confirmChunks finds every chunk of every candidate. *)
ChunksConfirmed == ~job.problem /\ WithMissing = {}

ChunksAreMissing == Refuse("chunks") /\ ~ChunksConfirmed

(* Files that no version has are recorded first. *)
NeedsSnapshot ==
    /\ pc = "chunks" /\ pc' = "snapshot"
    /\ ChunksConfirmed
    /\ Unversioned # {} /\ ~job.again
    /\ UNCHANGED <<space, versions, stores, at, job>>

(* snapshotUnversioned, and then the check from the start: "the only       *)
(* acceptable evidence that it arrived is asking the store again".         *)
SnapshotUnversioned ==
    /\ pc = "snapshot" /\ pc' = "head"
    /\ Record
    /\ job' = [NoJob EXCEPT !.kind = job.kind, !.target = job.target, !.again = TRUE]
    /\ UNCHANGED <<dir, at>>

StillUnversioned == Refuse("chunks") /\ ChunksConfirmed /\ Unversioned # {} /\ job.again

------------------------------------------------------------------------------
(* clear and checkout                                                      *)

Target == versions[job.target].files

Passed ==
    /\ pc = "chunks"
    /\ ChunksConfirmed /\ Unversioned = {}
    /\ IF job.kind = "clear"
       THEN pc' = "delete" /\ job' = [job EXCEPT !.todo = Candidates]
       ELSE pc' = "write" /\ job' = [job EXCEPT !.todo = PathsOf(Target)]
    /\ UNCHANGED <<space, versions, stores, at>>

(* deleteFile, one after the other *)
DeleteFile(p) ==
    /\ pc \in {"delete", "remove"}
    /\ IsFirst(p, job.todo)
    /\ dir' = [dir EXCEPT ![p] = Absent]
    /\ cached' = cached \ {p}
    /\ job' = [job EXCEPT !.todo = @ \ {p}]
    /\ UNCHANGED <<head, versions, stores, at, pc>>

Cleared ==
    /\ Refuse("delete")
    /\ job.todo = {}

(* restoreEntry needs the objects of the file it writes. *)
WriteFile(p) ==
    /\ pc = "write"
    /\ IsFirst(p, job.todo)
    /\ Target[p] \in store.files /\ Target[p] \subseteq store.chunks
    /\ dir' = [dir EXCEPT ![p] = Target[p]]
    /\ cached' = cached \cup {p}
    /\ job' = [job EXCEPT !.todo = @ \ {p}]
    /\ UNCHANGED <<head, versions, stores, at, pc>>

(* applyManifest scans again and removes what the target does not name. *)
Written ==
    /\ pc = "write" /\ pc' = "remove"
    /\ job.todo = {}
    /\ job' = [job EXCEPT !.todo = Scanned \ PathsOf(Target)]
    /\ UNCHANGED <<space, versions, stores, at>>

(* pointHeadAt *)
PointHead ==
    /\ pc = "remove"
    /\ job.todo = {}
    /\ head' = job.target
    /\ Finish
    /\ UNCHANGED <<dir, cached, versions, stores, at>>

(* The command dies, or one of its calls fails. *)
Die ==
    /\ pc # "idle"
    /\ Finish
    /\ UNCHANGED <<space, versions, stores, at>>

------------------------------------------------------------------------------
(* Everybody else                                                          *)

(* The user saves or deletes a file. *)
Edit(p, x) ==
    /\ dir[p] # x
    /\ dir' = [dir EXCEPT ![p] = x]
    /\ cached' = cached \ {p}
    /\ UNCHANGED <<head, versions, stores, at, pc, job>>

(* The user records his work, in whatever store is there. *)
Snapshot ==
    /\ pc = "idle"
    /\ Record
    /\ UNCHANGED <<dir, at, pc, job>>

(* Another space commits. *)
OthersCommit(p, x) ==
    LET st == stores["share"]
        m == [versions[st.main].files EXCEPT ![p] = x]
        v == Len(versions) + 1
    IN  /\ v <= MaxVersions
        /\ m # versions[st.main].files
        /\ versions' = Append(versions, [files |-> m, parent |-> st.main])
        /\ stores' = [stores EXCEPT !["share"] =
               [st EXCEPT !.main = v, !.versions = @ \cup {v},
                          !.files = @ \cup ({x} \ {Absent}),
                          !.chunks = @ \cup (IF x = Absent THEN {} ELSE x)]]
        /\ UNCHANGED <<space, at, pc, job>>

(* A snapshot expires, wherever it was taken, *)
Expire(v) ==
    /\ v \in stores["share"].timeline
    /\ stores' = [stores EXCEPT !["share"].timeline = @ \ {v}]
    /\ UNCHANGED <<space, versions, at, pc, job>>

(* and a collection deletes what no ref reaches. *)
Collect ==
    LET st == stores["share"]
        kept == Reachable(st)
        next == [st EXCEPT !.versions = @ \cap kept, !.files = @ \cap ReachableFiles(st),
                           !.chunks = @ \cap UNION ReachableFiles(st)]
    IN  /\ next # st
        /\ stores' = [stores EXCEPT !["share"] = next]
        /\ UNCHANGED <<space, versions, at, pc, job>>

(* A chunk is lost: the disk is damaged, or a collection has raced with    *)
(* the upload that relied on it.                                           *)
LoseChunk(k) ==
    /\ k \in stores["share"].chunks
    /\ stores' = [stores EXCEPT !["share"].chunks = @ \ {k}]
    /\ UNCHANGED <<space, versions, at, pc, job>>

(* The share is lost, or back again. *)
Mount ==
    /\ at' \in Places \ {at}
    /\ UNCHANGED <<space, versions, stores, pc, job>>

Step ==
    \/ ConfirmHead \/ HeadIsMissing \/ ReadRefs \/ RefsAreBroken \/ Scan
    \/ \E p \in Paths : Rehash(p) \/ DeleteFile(p) \/ WriteFile(p)
    \/ Rehashed \/ ChunksAreMissing \/ NeedsSnapshot \/ SnapshotUnversioned
    \/ StillUnversioned \/ Passed \/ Cleared \/ Written \/ PointHead

Next ==
    \/ Begin("clear", 0) \/ \E v \in Reachable(store) : Begin("checkout", v)
    \/ Step \/ Die \/ Snapshot
    \/ \E p \in Paths, x \in Files \cup {Absent} : Edit(p, x) \/ OthersCommit(p, x)
    \/ \E v \in VersionIds : Expire(v)
    \/ \E k \in UNION Files : LoseChunk(k)
    \/ Collect \/ Mount

Spec == Init /\ [][Next]_vars

------------------------------------------------------------------------------
(* What the check relies on and nothing enforces, from the moment it has   *)
(* looked to the moment the command is through.                            *)

(* A file is not saved again after it was hashed, nor is a new one saved   *)
(* after the scan of a checkout.                                           *)
Judged(p) ==
    /\ pc \in {"rehash", "chunks", "delete", "write", "remove"}
    /\ pc = "rehash" => p \notin job.todo
    /\ job.kind = "checkout" \/ job.hashed[p] # Absent

ByCommand == <<pc, job>>' # <<pc, job>>

FilesStay == ByCommand \/ \A p \in Paths \ Ignored : Judged(p) => dir'[p] = dir[p]

(* No snapshot expires after the refs were read, no chunk of a reachable   *)
(* file is lost after the chunks were confirmed.                           *)
Answered == pc \in {"delete", "write", "remove"}

ObjectsStay ==
    /\ pc \in {"scan", "rehash", "chunks"} \/ Answered
          => stores["share"].timeline \subseteq stores'["share"].timeline
    /\ Answered => stores["share"].chunks \cap UNION ReachableFiles(stores["share"])
                       \subseteq stores'["share"].chunks

(* The share is not lost while a command runs. *)
ShareStays == pc = "idle" \/ at' = at

(* Nor is it away when a version is recorded by hand, or when a space that *)
(* has recorded nothing runs a command: such a space cannot tell the empty *)
(* store at the mount point from its own.                                  *)
ShareIsThere ==
    pc = "idle" /\ (head' # head \/ (head = 0 /\ pc' # "idle")) => at = "share"

Careful == FilesStay /\ ObjectsStay /\ ShareStays /\ ShareIsThere

CarefulSpec == Init /\ [][Next /\ Careful]_vars

------------------------------------------------------------------------------

(* A kept version of the space's own store has x, down to the chunks. *)
Recoverable(x) ==
    LET st == stores["share"]
    IN  x \in ReachableFiles(st) /\ x \in st.files /\ x \subseteq st.chunks

(* A clear or checkout that makes a scanned file disappear can get it      *)
(* back: wherever the file came from, whatever the cache believed and the  *)
(* collector deleted before, and though the store may be another than the  *)
(* one that the space's head is in (dirty.go, CheckClear: provably         *)
(* recoverable).                                                           *)
DeletedIsRecoverable ==
    [][ByCommand => \A p \in Paths \ Ignored :
          dir[p] # Absent /\ dir'[p] # dir[p] => Recoverable(dir[p])]_vars

(* The same for every file, the ignored ones included (checkout.go:        *)
(* everything about to disappear has just been proven recoverable).        *)
DisappearingIsRecoverable ==
    [][ByCommand => \A p \in Paths :
          dir[p] # Absent /\ dir'[p] # dir[p] => Recoverable(dir[p])]_vars

==============================================================================

----------------------------- MODULE StatusCache -----------------------------
(***************************************************************************)
(* The status cache of one space (src/client/cache.go) and the commands    *)
(* that read and write it: snapshot and commit (scan.go, snapshot.go),     *)
(* sync (sync.go) and restore (restore.go), run by several processes in    *)
(* the same directory while a user saves files there.  A record looks at   *)
(* every file three times: the scan stats it, snapshotFile reads it unless *)
(* the cache vouches for it, and stats it again.                           *)
(*                                                                         *)
(* A file has a content and an mtime, which the cache compares and nothing *)
(* else.  A change of a file may get any mtime: it need not be a later one *)
(* nor a new one (cache.go, CacheEntry).  The refs and the store are those *)
(* of Workspace, put and publish in one step.                              *)
(***************************************************************************)
EXTENDS Merge, Sequences

CONSTANTS
    Processes,      \* the commands that may run at the same time
    Commands,       \* Commands[r]: the kinds of command process r runs
    SizeOf,         \* the size of a file
    Mtimes,         \* the mtimes a file may have
    MaxVersions,    \* bound: versions ever published
    MaxChanges      \* bound: changes of the directory

Kinds == {"commit", "snapshot", "sync", "restore"}

ASSUME CommandAssumption == Commands \in [Processes -> SUBSET Kinds]
ASSUME SizeAssumption == SizeOf \in [Files -> Nat \ {0}]
ASSUME BoundAssumption == MaxVersions \in Nat /\ MaxChanges \in Nat

VARIABLES
    disk,       \* the working directory: content and mtime of every file
    changes,    \* how often a file has changed
    had,        \* had[p]: every content and mtime that p has had
    versions,   \* the published versions, manifests with the sizes they state
    ref,        \* the version the ref (main) holds, 0 before the first
    base,       \* the base in .fibula/head
    checkedOut, \* .fibula/manifest: the version it was written for
    cache,      \* .fibula/cache: a missing or damaged one is empty
    pc,         \* pc[r]: what process r does next
    job,        \* job[r]: what its command has computed so far
    held        \* held[r]: the contents every path had since r's command began

shared == <<versions, ref>>
state == <<base, checkedOut, cache>>
vars == <<disk, changes, had, shared, state, pc, job, held>>

Lookups == [size : {SizeOf[x] : x \in Files}, mtime : Mtimes, file : Files]

OnDisk == [file : Files, mtime : Mtimes]

(* Nothing at a path is no file and no entry. *)
ASSUME NothingAssumption == Absent \notin Lookups \cup OnDisk

Caches == [Paths -> Lookups \cup {Absent}]

NoCache == [p \in Paths |-> Absent]

NoJob == [kind |-> "none", todo |-> {}, seen |-> NoCache, old |-> NoCache, next |-> NoCache,
          read |-> Absent, from |-> 0, version |-> 0, files |-> Empty, remove |-> {},
          fresh |-> {}]

TypeOK ==
    /\ disk \in [Paths -> OnDisk \cup {Absent}]
    /\ changes \in 0 .. MaxChanges
    /\ had \in [Paths -> SUBSET OnDisk]
    /\ Len(versions) <= MaxVersions
    /\ \A v \in 1 .. Len(versions) : versions[v].files \in Manifests
    /\ {ref, base, checkedOut} \subseteq 0 .. Len(versions)
    /\ cache \in Caches
    /\ pc \in [Processes -> {"idle", "load", "file", "stat", "head", "save",
                             "write", "written", "settle"}]
    /\ \A r \in Processes :
          /\ job[r].kind \in {"none"} \cup Kinds
          /\ job[r].todo \cup job[r].remove \cup job[r].fresh \subseteq Paths
          /\ job[r].old \in Caches /\ job[r].next \in Caches
          /\ job[r].version \in 0 .. Len(versions)
          /\ pc[r] = "idle" <=> job[r] = NoJob

Init ==
    /\ disk = NoCache /\ changes = 0 /\ had = [p \in Paths |-> {}]
    /\ versions = <<>> /\ ref = 0
    /\ base = 0 /\ checkedOut = 0 /\ cache = NoCache
    /\ pc = [r \in Processes |-> "idle"]
    /\ job = [r \in Processes |-> NoJob]
    /\ held = [r \in Processes |-> [p \in Paths |-> {}]]

------------------------------------------------------------------------------

ManifestOf(v) == IF v = 0 THEN Empty ELSE versions[v].files

FileAt(p) == IF disk[p] = Absent THEN Absent ELSE disk[p].file

Present == {p \in Paths : disk[p] # Absent}

(* statFile *)
StatOf(p) == [size |-> SizeOf[disk[p].file], mtime |-> disk[p].mtime]

CacheEntry(stat, x) == [size |-> stat.size, mtime |-> stat.mtime, file |-> x]

(* Mutant of Matches: the size alone decides. *)
MatchesSize(entry, stat) == entry # Absent /\ entry.size = stat.size

(* Lookup and CacheEntry.Matches *)
Matches(entry, stat) ==
    entry # Absent /\ entry.size = stat.size /\ entry.mtime = stat.mtime

(* Files are worked on in path order. *)
IsFirst(p, S) == p \in S /\ \A q \in S : p <= q

IsNext(r, p) == IsFirst(p, job[r].todo)

Goto(r, from, to) == pc[r] = from /\ pc' = [pc EXCEPT ![r] = to]

Keep(r, what) == job' = [job EXCEPT ![r] = what]

Recording(r) ==
    pc[r] \in {"load", "file", "stat"} /\ job[r].kind \in {"commit", "snapshot"}

(* The command has ended, well or with an error, or its process has died. *)
Finish(r) ==
    /\ pc' = [pc EXCEPT ![r] = "idle"]
    /\ job' = [job EXCEPT ![r] = NoJob]
    /\ held' = [held EXCEPT ![r] = [p \in Paths |-> {}]]

(* A file changes, and a record that is running could have seen it. *)
ChangeFile(p, x) ==
    /\ changes < MaxChanges
    /\ changes' = changes + 1
    /\ \E mtime \in Mtimes :
          disk' = [disk EXCEPT ![p] = IF x = Absent THEN Absent ELSE [file |-> x, mtime |-> mtime]]
    /\ had' = [had EXCEPT ![p] = @ \cup ({disk'[p]} \ {Absent})]
    /\ held' = [r \in Processes |->
                   [held[r] EXCEPT ![p] = IF Recording(r) THEN @ \cup {x} ELSE @]]

(* The user saves or deletes a file. *)
Edit(p, x) ==
    /\ FileAt(p) # x
    /\ ChangeFile(p, x)
    /\ UNCHANGED <<shared, state, pc, job>>

(* Another space publishes. *)
OthersPublish(p, x) ==
    /\ Len(versions) < MaxVersions
    /\ ManifestOf(ref)[p] # x
    /\ LET m == [ManifestOf(ref) EXCEPT ![p] = x]
       IN  versions' = Append(versions,
               [files |-> m, sizes |-> [q \in PathsOf(m) |-> SizeOf[m[q]]]])
    /\ ref' = Len(versions) + 1
    /\ UNCHANGED <<disk, changes, had, state, pc, job, held>>

(* A missing cache is a fresh one, and so is one with a damaged line. *)
LoseCache ==
    /\ cache # NoCache
    /\ cache' = NoCache
    /\ UNCHANGED <<disk, changes, had, shared, base, checkedOut, pc, job, held>>

------------------------------------------------------------------------------
(* scanWorkingTree                                                         *)

(* Scan: the directory is walked, no file is read.  A sync that is current *)
(* has nothing to do.                                                      *)
Begin(r, kind) ==
    /\ kind \in Commands[r] \ {"restore"}
    /\ kind = "sync" => ref # 0 /\ base # ref
    /\ Goto(r, "idle", "load")
    /\ Keep(r, [NoJob EXCEPT !.kind = kind, !.todo = Present,
                             !.seen = [p \in Paths |-> IF p \in Present THEN StatOf(p) ELSE Absent],
                             !.from = IF kind = "sync" THEN base ELSE 0,
                             !.version = IF kind = "sync" THEN ref ELSE 0])
    /\ held' = [held EXCEPT ![r] = [p \in Paths |-> IF kind = "sync" THEN {} ELSE {FileAt(p)}]]
    /\ UNCHANGED <<disk, changes, had, shared, state>>

(* Mutant of Load: the new cache starts from the old one. *)
LoadOnto(r) ==
    /\ Goto(r, "load", "file")
    /\ Keep(r, [job[r] EXCEPT !.old = cache, !.next = cache])
    /\ UNCHANGED <<disk, changes, had, shared, state, held>>

Load(r) ==
    /\ Goto(r, "load", "file")
    /\ Keep(r, [job[r] EXCEPT !.old = cache])
    /\ UNCHANGED <<disk, changes, had, shared, state, held>>

(* What is left of the command's state when p has its entry. *)
Done(r, p) == [job[r] EXCEPT !.todo = @ \ {p}, !.seen[p] = Absent, !.old[p] = Absent,
                             !.read = Absent, !.fresh = {}]

(* snapshotFile: the cache vouches for the file, its entry is taken over. *)
Vouched(r) ==
    /\ pc[r] = "file"
    /\ \E p \in Paths :
          /\ IsNext(r, p)
          /\ Matches(job[r].old[p], job[r].seen[p])
          /\ Keep(r, [Done(r, p) EXCEPT !.next[p] = job[r].old[p]])
    /\ UNCHANGED <<disk, changes, had, shared, state, pc, held>>

(* It does not: the file is opened, chunked and put. *)
Read(r) ==
    /\ Goto(r, "file", "stat")
    /\ \E p \in Present :
          /\ IsNext(r, p)
          /\ ~Matches(job[r].old[p], job[r].seen[p])
          /\ Keep(r, [job[r] EXCEPT !.read = disk[p].file, !.old[p] = Absent, !.fresh = {p}])
    /\ UNCHANGED <<disk, changes, had, shared, state, held>>

(* Mutant of Restat: the manifest gets the size the scan found. *)
RestatOldSize(r) ==
    /\ Goto(r, "stat", "file")
    /\ \E p \in Present :
          /\ IsNext(r, p)
          /\ Keep(r, [Done(r, p) EXCEPT !.next[p] = [size |-> job[r].seen[p].size,
                                     mtime |-> StatOf(p).mtime, file |-> job[r].read]])
    /\ UNCHANGED <<disk, changes, had, shared, state, held>>

(* Mutant of Restat: the cache is saved file by file. *)
RestatSaved(r) ==
    /\ Goto(r, "stat", "file")
    /\ \E p \in Present :
          /\ IsNext(r, p)
          /\ Keep(r, [Done(r, p) EXCEPT !.next[p] = CacheEntry(StatOf(p), job[r].read)])
          /\ cache' = [cache EXCEPT ![p] = CacheEntry(StatOf(p), job[r].read)]
    /\ UNCHANGED <<disk, changes, had, shared, base, checkedOut, held>>

(* "Re-stat after reading": the entry pairs the content that was read with *)
(* what the file looks like now.                                           *)
Restat(r) ==
    /\ Goto(r, "stat", "file")
    /\ \E p \in Present :
          /\ IsNext(r, p)
          /\ Keep(r, [Done(r, p) EXCEPT !.next[p] = CacheEntry(StatOf(p), job[r].read)])
    /\ UNCHANGED <<disk, changes, had, shared, state, held>>

(* The file is gone when it is opened or stat'ed: the command fails. *)
FileGone(r) ==
    /\ pc[r] \in {"file", "stat"}
    /\ \E p \in Paths \ Present :
          IsNext(r, p) /\ (pc[r] = "file" => ~Matches(job[r].old[p], job[r].seen[p]))
    /\ Finish(r)
    /\ UNCHANGED <<disk, changes, had, shared, state>>

------------------------------------------------------------------------------
(* record: publish, head, manifest, cache                                  *)

Scanned(r) == pc[r] = "file" /\ job[r].todo = {}

FilesOf(entries) == [p \in Paths |-> IF entries[p] = Absent THEN Absent ELSE entries[p].file]

SizesOf(entries) == [p \in PathsOf(entries) |-> entries[p].size]

(* Mutant of PutVersion: the version object never reaches the store. *)
PutVersionLost(r) == UNCHANGED versions

PutVersion(r) ==
    versions' = Append(versions,
        [files |-> FilesOf(job[r].next), sizes |-> SizesOf(job[r].next)])

(* The manifest states the entries of the new cache; a commit moves the    *)
(* ref, a snapshot makes one of its own.                                   *)
Publish(r) ==
    /\ Scanned(r) /\ job[r].kind \in {"commit", "snapshot"}
    /\ job[r].kind = "commit" => base = ref
    /\ Len(versions) < MaxVersions
    /\ Goto(r, "file", "head")
    /\ PutVersion(r)
    /\ ref' = IF job[r].kind = "commit" THEN Len(versions) + 1 ELSE ref
    /\ Keep(r, [NoJob EXCEPT !.kind = job[r].kind, !.next = job[r].next,
                             !.version = Len(versions) + 1])
    /\ UNCHANGED <<disk, changes, had, state, held>>

(* ErrSpaceBehind *)
Behind(r) ==
    /\ Scanned(r) /\ job[r].kind = "commit"
    /\ base # ref
    /\ Finish(r)
    /\ UNCHANGED <<disk, changes, had, shared, state>>

(* recordHead: head and manifest, two files that Workspace takes apart. *)
RecordHead(r) ==
    /\ Goto(r, "head", "save")
    /\ base' = IF job[r].kind = "commit" THEN job[r].version ELSE base
    /\ checkedOut' = job[r].version
    /\ held' = [held EXCEPT ![r] = [p \in Paths |-> {}]]
    /\ UNCHANGED <<disk, changes, had, shared, cache, job>>

(* SaveCache: the last step of a record and of a restore.  A sync saves    *)
(* the cache when all files are written and deleted, and has its head      *)
(* still to move.                                                          *)
SaveCache(r) ==
    /\ pc[r] \in {"save", "write"}
    /\ job[r].todo = {} /\ job[r].remove = {} /\ job[r].fresh = {}
    /\ cache' = job[r].next
    /\ IF job[r].kind = "sync"
       THEN Goto(r, "write", "settle") /\ UNCHANGED <<job, held>> ELSE Finish(r)
    /\ UNCHANGED <<disk, changes, had, shared, base, checkedOut>>

------------------------------------------------------------------------------
(* sync and restore                                                        *)

MergeInto(r, entries) ==
    LET ours == FilesOf(job[r].next)
        merged == MergeOf(ManifestOf(job[r].from), ours, ManifestOf(job[r].version))
    IN  Keep(r, [NoJob EXCEPT !.kind = "sync", !.version = job[r].version,
                              !.files = merged, !.next = entries,
                              !.todo = Incoming(ours, merged),
                              !.remove = Outgoing(ours, merged)])

(* Mutant of SyncMerge: the sync goes on with the cache of its scan. *)
SyncMergeScanned(r) ==
    /\ Scanned(r) /\ job[r].kind = "sync"
    /\ Goto(r, "file", "write")
    /\ MergeInto(r, job[r].next)
    /\ UNCHANGED <<disk, changes, had, shared, state, held>>

(* mergeOnto, applyMerged: "The cache starts from what was recorded before *)
(* the sync, not from the scan."                                           *)
SyncMerge(r) ==
    /\ Scanned(r) /\ job[r].kind = "sync"
    /\ Goto(r, "file", "write")
    /\ MergeInto(r, cache)
    /\ UNCHANGED <<disk, changes, had, shared, state, held>>

(* Restore writes every file of the checked-out manifest. *)
BeginRestore(r) ==
    /\ "restore" \in Commands[r]
    /\ checkedOut # 0
    /\ Goto(r, "idle", "write")
    /\ Keep(r, [NoJob EXCEPT !.kind = "restore", !.version = checkedOut,
                             !.files = ManifestOf(checkedOut),
                             !.todo = PathsOf(ManifestOf(checkedOut))])
    /\ UNCHANGED <<disk, changes, had, shared, state, held>>

(* restoreEntry replaces what is there. *)
WriteFile(r) ==
    /\ Goto(r, "write", "written")
    /\ \E p \in Paths :
          /\ IsNext(r, p)
          /\ ChangeFile(p, job[r].files[p])
          /\ Keep(r, [job[r] EXCEPT !.fresh = @ \cup {p}])
    /\ UNCHANGED <<shared, state>>

StatedSize(r, p) == versions[job[r].version].sizes[p]

(* "restored to %d bytes, the manifest says %d": the file stays, the       *)
(* command fails.                                                          *)
SizeDiffers(r) ==
    /\ pc[r] = "written"
    /\ \E p \in Paths : IsNext(r, p) /\ SizeOf[job[r].files[p]] # StatedSize(r, p)
    /\ Finish(r)
    /\ UNCHANGED <<disk, changes, had, shared, state>>

SizeAgrees(r, p) == SizeOf[job[r].files[p]] = StatedSize(r, p)

(* A restore goes on to the next file, *)
RestoreGoesOn(r) ==
    /\ job[r].kind = "restore"
    /\ Goto(r, "written", "write")
    /\ \E p \in Paths :
          IsNext(r, p) /\ SizeAgrees(r, p) /\ Keep(r, [job[r] EXCEPT !.todo = @ \ {p}])
    /\ UNCHANGED <<disk, changes, had, shared, state, held>>

(* and stats them all when the last one is written (refreshCacheFrom):     *)
(* whatever is at the path now is taken for the file of the manifest.      *)
Refresh(r) ==
    /\ pc[r] = "write" /\ job[r].kind = "restore" /\ job[r].todo = {}
    /\ \E p \in Present :
          /\ IsFirst(p, job[r].fresh)
          /\ Keep(r, [job[r] EXCEPT !.fresh = @ \ {p},
                                    !.next[p] = CacheEntry(StatOf(p), job[r].files[p])])
    /\ UNCHANGED <<disk, changes, had, shared, state, pc, held>>

(* A sync stats each file when it is written (writeIncoming). *)
SyncGoesOn(r) ==
    /\ job[r].kind = "sync"
    /\ Goto(r, "written", "write")
    /\ \E p \in Present :
          /\ IsNext(r, p) /\ SizeAgrees(r, p)
          /\ Keep(r, [job[r] EXCEPT !.todo = @ \ {p}, !.fresh = {},
                                    !.next[p] = CacheEntry(StatOf(p), job[r].files[p])])
    /\ UNCHANGED <<disk, changes, had, shared, state, held>>

(* The file a command has written is gone when it is stat'ed. *)
WrittenIsGone(r) ==
    /\ \/ pc[r] = "write" /\ job[r].kind = "restore" /\ job[r].todo = {}
       \/ pc[r] = "written" /\ job[r].kind = "sync"
    /\ \E p \in Paths \ Present : IsFirst(p, job[r].fresh)
    /\ Finish(r)
    /\ UNCHANGED <<disk, changes, had, shared, state>>

(* deleteFile, and the cache forgets the path; one that is gone is no      *)
(* error.                                                                  *)
RemoveFile(r) ==
    /\ pc[r] = "write" /\ job[r].todo = {}
    /\ \E p \in job[r].remove :
          /\ IF p \in Present THEN ChangeFile(p, Absent) ELSE UNCHANGED <<disk, changes, had, held>>
          /\ Keep(r, [job[r] EXCEPT !.remove = @ \ {p}, !.next[p] = Absent])
    /\ UNCHANGED <<shared, state, pc>>

(* settleAfterSync *)
Settle(r) ==
    /\ pc[r] = "settle"
    /\ base' = job[r].version /\ checkedOut' = job[r].version
    /\ Finish(r)
    /\ UNCHANGED <<disk, changes, had, shared, cache>>

------------------------------------------------------------------------------

(* A command dies with its process: nothing is undone.  One that has       *)
(* written nothing yet might as well never have begun.                     *)
Die(r) ==
    /\ pc[r] \in {"head", "save", "write", "written", "settle"}
    /\ Finish(r)
    /\ UNCHANGED <<disk, changes, had, shared, state>>

Step(r) ==
    \/ \E kind \in Kinds : Begin(r, kind)
    \/ Load(r) \/ Vouched(r) \/ Read(r) \/ Restat(r) \/ FileGone(r)
    \/ Publish(r) \/ Behind(r) \/ RecordHead(r) \/ SaveCache(r)
    \/ SyncMerge(r) \/ SyncGoesOn(r) \/ RemoveFile(r) \/ Settle(r)
    \/ BeginRestore(r) \/ RestoreGoesOn(r) \/ Refresh(r)
    \/ WriteFile(r) \/ SizeDiffers(r) \/ WrittenIsGone(r)

Next ==
    \/ \E p \in Paths, x \in Files \cup {Absent} : Edit(p, x) \/ OthersPublish(p, x)
    \/ LoseCache
    \/ \E r \in Processes : Step(r) \/ Die(r)

Spec == Init /\ [][Next]_vars

(* No file is replaced between being read or written by a command and      *)
(* being stat'ed by it; it may be deleted.  Nothing in the code makes      *)
(* sure of that.                                                           *)
Undisturbed ==
    \A r \in Processes : \A p \in job[r].fresh : FileAt(p)' \in {FileAt(p), Absent}

(* Other content of the same size gets an mtime that content of that size  *)
(* has not had at the path.  A clock that jumps, a tool that preserves     *)
(* timestamps and a share that stores them coarsely may do otherwise, and  *)
(* the file looks unchanged then (cache.go, CacheEntry; dirty.go).         *)
MtimesMove ==
    \A p \in Paths : \A one \in had[p], other \in had'[p] :
        one.mtime = other.mtime /\ SizeOf[one.file] = SizeOf[other.file] => one.file = other.file

CarefulSpec == Init /\ [][Next /\ Undisturbed /\ MtimesMove]_vars

------------------------------------------------------------------------------

(* Status: the files the cache vouches for without any hashing. *)
Unchanged(entries) == {p \in Present : Matches(entries[p], StatOf(p))}

(* The saved cache knows only what has reached the store in a published    *)
(* version, whenever commands die or are refused (snapshot.go: the cache   *)
(* is written only after the version is safely in the store).              *)
VouchedWasPublished ==
    \A p \in PathsOf(cache) :
        \E v \in 1 .. Len(versions) : versions[v].files[p] = cache[p].file

(* Where an entry matches a file, it is the file that was hashed for it    *)
(* (snapshot.go, the re-stat: the cache may not vouch for the wrong bytes),*)
(* as long as mtimes move and nothing is saved between read and re-stat.   *)
(* Together: status never shows work that no version has as unchanged, not *)
(* even after a sync that has hashed it (sync.go, applyMerged).            *)
VouchedIsTrue == \A p \in Unchanged(cache) : cache[p].file = FileAt(p)

(* A record publishes at every path a content, or an absence, that the     *)
(* path had while the record ran, whichever files the cache vouched for    *)
(* and whatever was saved meanwhile, though not between the read and the   *)
(* re-stat of the same file (snapshot.go, scanWorkingTree).                *)
RecordIsFaithful ==
    \A r \in Processes :
        pc[r] = "head" => \A p \in Paths : versions[job[r].version].files[p] \in held[r][p]

(* A published manifest states the size its file has; a restore refuses    *)
(* the file otherwise (restore.go, restoreEntry).                          *)
RecordedIsRestorable ==
    \A v \in 1 .. Len(versions) : \A p \in PathsOf(versions[v].files) :
        versions[v].sizes[p] = SizeOf[versions[v].files[p]]

==============================================================================

------------------------------ MODULE Workspace ------------------------------
(***************************************************************************)
(* Several spaces on one store and one ref: src/client, the commands       *)
(* snapshot, commit, sync, checkout, clear, restore and expire, every      *)
(* command cut into the steps between which another process can act or     *)
(* this one can die.  A space is a working directory plus the files under .fibula that  *)
(* say where it stands; the store holds immutable versions and the refs.   *)
(*                                                                         *)
(* Objects are taken to be durable once put (garbage collection is another *)
(* component) and the ref's compare-and-swap to be atomic (AtomicRef).  A  *)
(* version ID is the position of the version in the order of creation.     *)
(***************************************************************************)
EXTENDS Merge, Sequences

CONSTANTS
    Spaces,         \* the working directories that share the store
    MaxVersions,    \* bound: versions ever put into the store
    Commands,       \* the commands the users run
    DiesIn,         \* the steps in which a command may die or fail
    EditsAnyTime,   \* TRUE: users save files while a command is running
    Torn            \* the content of a file whose writing was cut short

Kinds == {"commit", "snapshot", "sync", "checkout", "clear", "restore"}

Steps == {"scanned", "put", "published", "headed", "recheck",
          "write", "remove", "settle", "settled", "point", "pointed"}

ASSUME BoundAssumption == MaxVersions \in Nat
ASSUME ScopeAssumption ==
    Commands \subseteq Kinds \cup {"expire"} /\ DiesIn \subseteq Steps /\ EditsAnyTime \in BOOLEAN
ASSUME TornAssumption == Torn \in Files

NoVersion == 0

VARIABLES
    versions,   \* the version objects in the store, oldest first
    ref,        \* the version the ref (main) holds, NoVersion before the first
    timeline,   \* the versions published under snapshots/
    tree,       \* tree[s]: the files in the working directory
    head,       \* head[s]: .fibula/head, the version shown and the base
    checkedOut, \* checkedOut[s]: .fibula/manifest
    pc,         \* pc[s]: the step the command running in s does next
    plan,       \* plan[s]: what that command has computed so far
    touched     \* touched[s]: the paths that s's user has saved since the last
                \* publish, or that a sync has reported to him as a conflict

store == <<versions, ref, timeline>>
local == <<tree, head, checkedOut>>
vars == <<store, local, pc, plan, touched>>

VersionIds == 1 .. Len(versions)

VersionRecord ==
    [manifest : Manifests, parent : 0 .. MaxVersions, snapshot : BOOLEAN]

NoPlan ==
    [kind |-> "none", manifest |-> Empty, parent |-> NoVersion, version |-> NoVersion,
     target |-> NoVersion, write |-> {}, remove |-> {}, conflicts |-> {}]

TypeOK ==
    /\ versions \in Seq(VersionRecord) /\ Len(versions) <= MaxVersions
    /\ ref \in {NoVersion} \cup VersionIds
    /\ timeline \subseteq VersionIds
    /\ tree \in [Spaces -> Manifests]
    /\ head \in [Spaces -> [version : 0 .. Len(versions), base : 0 .. Len(versions)]]
    /\ checkedOut \in [Spaces -> Manifests]
    /\ pc \in [Spaces -> {"idle"} \cup Steps]
    /\ plan \in [Spaces ->
                    [kind : {"none"} \cup Kinds,
                     manifest : Manifests,
                     parent : 0 .. Len(versions), version : 0 .. Len(versions),
                     target : 0 .. Len(versions),
                     write : SUBSET Paths, remove : SUBSET Paths, conflicts : SUBSET Paths]]
    /\ touched \in [Spaces -> SUBSET Paths]

Init ==
    /\ versions = <<>>
    /\ ref = NoVersion
    /\ timeline = {}
    /\ tree = [s \in Spaces |-> Empty]
    /\ head = [s \in Spaces |-> [version |-> NoVersion, base |-> NoVersion]]
    /\ checkedOut = [s \in Spaces |-> Empty]
    /\ pc = [s \in Spaces |-> "idle"]
    /\ plan = [s \in Spaces |-> NoPlan]
    /\ touched = [s \in Spaces |-> {}]

------------------------------------------------------------------------------

ManifestOf(v) == IF v = NoVersion THEN Empty ELSE versions[v].manifest

(* The versions reached from v along the parents. *)
Ancestry(v) ==
    LET reach[n \in 0 .. Len(versions)] ==
            IF n = NoVersion THEN {} ELSE {n} \cup reach[versions[n].parent]
    IN  reach[v]

(* Every version reached from a ref: what CheckClear calls reachable. *)
Reachable == Ancestry(ref) \cup timeline

FilesKept == UNION {{versions[v].manifest[p] : p \in Paths} : v \in Reachable}

(* The files of s that no reachable version has, by content. *)
Unversioned(s) == {p \in PathsOf(tree[s]) : tree[s][p] \notin FilesKept}

Goto(s, from, to) == pc[s] = from /\ pc' = [pc EXCEPT ![s] = to]

Finish(s) ==
    /\ pc' = [pc EXCEPT ![s] = "idle"]
    /\ plan' = [plan EXCEPT ![s] = NoPlan]

Start(s, to, what) ==
    /\ Goto(s, "idle", to)
    /\ plan' = [plan EXCEPT ![s] = what]

SetHead(s, v, b) == head' = [head EXCEPT ![s] = [version |-> v, base |-> b]]

(* The user saves or deletes a file. *)
Edit(s, p, x) ==
    /\ x # Torn
    /\ EditsAnyTime \/ pc[s] = "idle"
    /\ tree[s][p] # x
    /\ tree' = [tree EXCEPT ![s][p] = x]
    /\ touched' = [touched EXCEPT ![s] = @ \cup {p}]
    /\ UNCHANGED <<store, head, checkedOut, pc, plan>>

------------------------------------------------------------------------------
(* record: snapshot and commit                                             *)

(* The directory is read; every file in it is put into the store. *)
RecordScan(s, kind) ==
    /\ kind \in Commands \cap {"commit", "snapshot"}
    /\ Start(s, "scanned", [NoPlan EXCEPT !.kind = kind, !.manifest = tree[s]])
    /\ UNCHANGED <<store, local, touched>>

(* Mutant of CommitParent: the staleness check is missing. *)
CommitParentUnchecked(s) ==
    /\ plan[s].kind = "commit"
    /\ Len(versions) < MaxVersions
    /\ Goto(s, "scanned", "put")
    /\ versions' = Append(versions,
            [manifest |-> plan[s].manifest, parent |-> ref, snapshot |-> FALSE])
    /\ plan' = [plan EXCEPT ![s].parent = ref, ![s].version = Len(versions) + 1]
    /\ UNCHANGED <<ref, timeline, local, touched>>

(* Mutant of CommitParent: the version object is never put. *)
CommitParentUnput(s) ==
    /\ plan[s].kind = "commit"
    /\ head[s].base = ref
    /\ Len(versions) < MaxVersions
    /\ Goto(s, "scanned", "put")
    /\ plan' = [plan EXCEPT ![s].parent = ref, ![s].version = Len(versions) + 1]
    /\ UNCHANGED <<store, local, touched>>

(* parentOf: base and ref must agree exactly, both absent or both equal.   *)
(* Then the version object is put, naming the ref's value as its parent.   *)
CommitParent(s) ==
    /\ plan[s].kind = "commit"
    /\ head[s].base = ref
    /\ Len(versions) < MaxVersions
    /\ Goto(s, "scanned", "put")
    /\ versions' = Append(versions,
            [manifest |-> plan[s].manifest, parent |-> ref, snapshot |-> FALSE])
    /\ plan' = [plan EXCEPT ![s].parent = ref, ![s].version = Len(versions) + 1]
    /\ UNCHANGED <<ref, timeline, local, touched>>

(* ErrSpaceBehind *)
CommitBehind(s) ==
    /\ pc[s] = "scanned"
    /\ plan[s].kind = "commit"
    /\ head[s].base # ref
    /\ Finish(s)
    /\ UNCHANGED <<store, local, touched>>

(* A snapshot has no parent; it is a point in time. *)
SnapshotPut(s) ==
    /\ plan[s].kind # "commit"
    /\ Len(versions) < MaxVersions
    /\ Goto(s, "scanned", "put")
    /\ versions' = Append(versions,
            [manifest |-> plan[s].manifest, parent |-> NoVersion, snapshot |-> TRUE])
    /\ plan' = [plan EXCEPT ![s].version = Len(versions) + 1]
    /\ UNCHANGED <<ref, timeline, local, touched>>

(* Mutant of CommitPublish: the ref is set, not compared and swapped. *)
CommitOverwrite(s) ==
    /\ plan[s].kind = "commit"
    /\ Goto(s, "put", "published")
    /\ ref' = plan[s].version
    /\ touched' = [touched EXCEPT ![s] = {p \in Paths : tree[s][p] # plan[s].manifest[p]}]
    /\ UNCHANGED <<versions, timeline, local, plan>>

(* advanceRef: the ref moves from the parent to the new version.  The user *)
(* has now published everything but what was saved since the scan.         *)
CommitPublish(s) ==
    /\ plan[s].kind = "commit"
    /\ ref = plan[s].parent
    /\ Goto(s, "put", "published")
    /\ ref' = plan[s].version
    /\ touched' = [touched EXCEPT ![s] = {p \in Paths : tree[s][p] # plan[s].manifest[p]}]
    /\ UNCHANGED <<versions, timeline, local, plan>>

(* ErrRefConflict: the version object stays behind, referenced by nothing. *)
CommitConflict(s) ==
    /\ pc[s] = "put"
    /\ plan[s].kind = "commit"
    /\ ref # plan[s].parent
    /\ Finish(s)
    /\ UNCHANGED <<store, local, touched>>

SnapshotPublish(s) ==
    /\ plan[s].kind # "commit"
    /\ Goto(s, "put", "published")
    /\ timeline' = timeline \cup {plan[s].version}
    /\ UNCHANGED <<versions, ref, local, plan, touched>>

(* Mutant of RecordHead: a snapshot moves the base as well. *)
RecordHeadAlways(s) ==
    /\ Goto(s, "published", "headed")
    /\ SetHead(s, plan[s].version, plan[s].version)
    /\ UNCHANGED <<store, tree, checkedOut, plan, touched>>

(* recordHead: a commit moves the base, a snapshot leaves it; *)
RecordHead(s) ==
    /\ Goto(s, "published", "headed")
    /\ SetHead(s, plan[s].version,
               IF plan[s].kind = "commit" THEN plan[s].version ELSE head[s].base)
    /\ UNCHANGED <<store, tree, checkedOut, plan, touched>>

(* the manifest follows in a second file.  The snapshot of a checkout or a *)
(* clear goes on to check again that everything is versioned now.          *)
RecordManifest(s) ==
    /\ pc[s] = "headed"
    /\ checkedOut' = [checkedOut EXCEPT ![s] = plan[s].manifest]
    /\ IF plan[s].kind \in {"checkout", "clear"}
       THEN pc' = [pc EXCEPT ![s] = "recheck"] /\ UNCHANGED plan
       ELSE Finish(s)
    /\ UNCHANGED <<store, tree, head, touched>>

------------------------------------------------------------------------------
(* sync                                                                    *)

(* The ref, the base and the directory are read and merged.  A space that  *)
(* is current, or whose ref does not exist, has nothing to do.             *)
SyncMerge(s) ==
    /\ "sync" \in Commands
    /\ ref # NoVersion
    /\ head[s].base # ref
    /\ LET base == ManifestOf(head[s].base)
           theirs == ManifestOf(ref)
           merged == MergeOf(base, tree[s], theirs)
       IN  Start(s, "write",
                 [NoPlan EXCEPT !.kind = "sync", !.manifest = merged, !.target = ref,
                                !.write = Incoming(tree[s], merged),
                                !.remove = Outgoing(tree[s], merged),
                                !.conflicts = ConflictsOf(base, tree[s], theirs)])
    /\ UNCHANGED <<store, local, touched>>

(* restoreEntry replaces whatever is at the path now. *)
WriteFile(s) ==
    /\ pc[s] = "write"
    /\ \E p \in plan[s].write :
          /\ tree' = [tree EXCEPT ![s][p] = plan[s].manifest[p]]
          /\ plan' = [plan EXCEPT ![s].write = @ \ {p}]
    /\ UNCHANGED <<store, head, checkedOut, pc, touched>>

(* It truncates the file and fills it chunk by chunk: a command that dies  *)
(* in between leaves a torn file at the path.                              *)
WriteIsCut(s) ==
    /\ "write" \in DiesIn
    /\ pc[s] = "write"
    /\ \E p \in plan[s].write : tree' = [tree EXCEPT ![s][p] = Torn]
    /\ Finish(s)
    /\ UNCHANGED <<store, head, checkedOut, touched>>

(* A sync deletes the paths Diff named, a checkout scans again and deletes *)
(* every file the target does not have, a restore deletes nothing.         *)
FilesWritten(s) ==
    /\ plan[s].write = {}
    /\ Goto(s, "write", "remove")
    /\ plan' = [plan EXCEPT ![s].remove =
                   IF plan[s].kind = "checkout"
                   THEN PathsOf(tree[s]) \ PathsOf(plan[s].manifest) ELSE @]
    /\ UNCHANGED <<store, local, touched>>

RemoveFile(s) ==
    /\ pc[s] = "remove"
    /\ \E p \in plan[s].remove :
          /\ tree' = [tree EXCEPT ![s][p] = Absent]
          /\ plan' = [plan EXCEPT ![s].remove = @ \ {p}]
    /\ UNCHANGED <<store, head, checkedOut, pc, touched>>

(* Only sync and checkout have something to do after the last file. *)
FilesRemoved(s) ==
    /\ pc[s] = "remove"
    /\ plan[s].remove = {}
    /\ CASE plan[s].kind = "sync" -> Goto(s, "remove", "settle") /\ UNCHANGED plan
         [] plan[s].kind = "checkout" -> Goto(s, "remove", "point") /\ UNCHANGED plan
         [] OTHER -> Finish(s)
    /\ UNCHANGED <<store, local, touched>>

(* settleAfterSync records their manifest, not the merged one, *)
SyncManifest(s) ==
    /\ Goto(s, "settle", "settled")
    /\ checkedOut' = [checkedOut EXCEPT ![s] = ManifestOf(plan[s].target)]
    /\ UNCHANGED <<store, tree, head, plan, touched>>

(* and then their version as head and base; the conflicts are printed.     *)
(* (The copies of the other side's files go to a directory that nothing    *)
(* but status reads.)                                                      *)
SyncSettle(s) ==
    /\ pc[s] = "settled"
    /\ SetHead(s, plan[s].target, plan[s].target)
    /\ touched' = [touched EXCEPT ![s] = @ \cup plan[s].conflicts]
    /\ Finish(s)
    /\ UNCHANGED <<store, tree, checkedOut>>

------------------------------------------------------------------------------
(* checkout, clear and restore                                             *)

Leaving(kind, v) == [NoPlan EXCEPT !.kind = kind, !.target = v]

(* Once the dirty check has passed, a checkout writes the whole target and *)
(* a clear deletes the files the check has called safe.                    *)
Proceed(s, pl) ==
    /\ pc' = [pc EXCEPT ![s] = IF pl.kind = "checkout" THEN "write" ELSE "remove"]
    /\ plan' = [plan EXCEPT ![s] =
                   IF pl.kind = "checkout"
                   THEN [pl EXCEPT !.manifest = ManifestOf(pl.target),
                                   !.write = PathsOf(ManifestOf(pl.target))]
                   ELSE [pl EXCEPT !.remove = PathsOf(tree[s])]]

(* Mutant of LeaveClean: the dirty check looks at the paths only. *)
LeaveUnchecked(s, kind, v) ==
    /\ kind \in Commands
    /\ pc[s] = "idle"
    /\ PathsOf(tree[s]) \subseteq PathsOf(checkedOut[s])
    /\ Proceed(s, Leaving(kind, v))
    /\ UNCHANGED <<store, local, touched>>

(* CheckClear finds every file in a reachable version. *)
LeaveClean(s, kind, v) ==
    /\ kind \in Commands
    /\ pc[s] = "idle"
    /\ Unversioned(s) = {}
    /\ Proceed(s, Leaving(kind, v))
    /\ UNCHANGED <<store, local, touched>>

(* It does not: the directory is snapshotted first. *)
LeaveDirty(s, kind, v) ==
    /\ kind \in Commands
    /\ Unversioned(s) # {}
    /\ Start(s, "scanned", [Leaving(kind, v) EXCEPT !.manifest = tree[s]])
    /\ UNCHANGED <<store, local, touched>>

(* "Re-checking rather than trusting the snapshot" *)
Recheck(s) ==
    /\ pc[s] = "recheck"
    /\ IF Unversioned(s) = {}
       THEN Proceed(s, Leaving(plan[s].kind, plan[s].target))
       ELSE Finish(s)
    /\ UNCHANGED <<store, local, touched>>

(* pointHeadAt: head and base first, then the manifest. *)
CheckoutHead(s) ==
    /\ Goto(s, "point", "pointed")
    /\ SetHead(s, plan[s].target, plan[s].target)
    /\ touched' = [touched EXCEPT ![s] = {p \in Paths : tree[s][p] # plan[s].manifest[p]}]
    /\ UNCHANGED <<store, tree, checkedOut, plan>>

CheckoutManifest(s) ==
    /\ pc[s] = "pointed"
    /\ checkedOut' = [checkedOut EXCEPT ![s] = plan[s].manifest]
    /\ Finish(s)
    /\ UNCHANGED <<store, tree, head, touched>>

(* Restore writes the checked-out manifest and touches nothing else. *)
Restore(s) ==
    /\ "restore" \in Commands
    /\ Start(s, "write", [NoPlan EXCEPT !.kind = "restore", !.manifest = checkedOut[s],
                                        !.write = PathsOf(checkedOut[s])])
    /\ UNCHANGED <<store, local, touched>>

(* Expire deletes the refs its schedule drops, one after the other, and    *)
(* nothing else.  With time the schedule drops any of them (Retention).    *)
Expire(v) ==
    /\ "expire" \in Commands
    /\ timeline' = timeline \ {v}
    /\ UNCHANGED <<versions, ref, local, pc, plan, touched>>

------------------------------------------------------------------------------

(* A command dies with its process or returns an error: nothing is undone. *)
Abort(s) ==
    /\ pc[s] \in DiesIn
    /\ Finish(s)
    /\ UNCHANGED <<store, local, touched>>

Work(s) ==
    \/ CommitParent(s) \/ CommitBehind(s) \/ CommitPublish(s) \/ CommitConflict(s)
    \/ SnapshotPut(s) \/ SnapshotPublish(s)
    \/ RecordHead(s) \/ RecordManifest(s)
    \/ WriteFile(s) \/ FilesWritten(s) \/ RemoveFile(s) \/ FilesRemoved(s)
    \/ SyncManifest(s) \/ SyncSettle(s)
    \/ Recheck(s) \/ CheckoutHead(s) \/ CheckoutManifest(s)

(* Resolve knows a version by its ref or its ID; the ID of one that was    *)
(* never published is never printed, so nobody can name it.                *)
Command(s) ==
    \/ \E kind \in {"commit", "snapshot"} : RecordScan(s, kind)
    \/ SyncMerge(s)
    \/ \E v \in Reachable : LeaveClean(s, "checkout", v) \/ LeaveDirty(s, "checkout", v)
    \/ LeaveClean(s, "clear", NoVersion) \/ LeaveDirty(s, "clear", NoVersion)
    \/ Restore(s)

Moves(s) ==
    \/ \E p \in Paths, x \in Files \cup {Absent} : Edit(s, p, x)
    \/ Command(s) \/ Work(s) \/ Abort(s) \/ WriteIsCut(s)

Next ==
    \/ \E s \in Spaces : Moves(s)
    \/ \E v \in timeline : Expire(v)

Spec == Init /\ [][Next]_vars

(* Assumption: the schedule does not reach a snapshot that is the base of  *)
(* some space (a checkout of it is followed by a commit or by another      *)
(* checkout in time), and no expire runs beside a checkout or a clear.     *)
(* Nothing in the code sees to either.                                     *)
NothingExpiresInUse ==
    \A v \in timeline \ timeline', s \in Spaces :
        head[s].base # v /\ plan[s].kind \notin {"checkout", "clear"}

CarefulSpec == Init /\ [][Next /\ NothingExpiresInUse]_vars

------------------------------------------------------------------------------

(* The versions from the first to v, each the parent of the next. *)
Chain(v) ==
    LET chain[n \in 0 .. Len(versions)] ==
            IF n = NoVersion THEN <<>> ELSE Append(chain[versions[n].parent], n)
    IN  chain[v]

History == INSTANCE LinearHistory WITH
    Versions <- 1 .. MaxVersions,
    history <- Chain(ref),
    base <- [s \in Spaces |-> head[s].base]

(* Without checkouts the spaces and their ref are a linear history: no     *)
(* version is ever published from behind the tip, none is dropped, and     *)
(* every base is a published version (target.go: parentOf and advanceRef   *)
(* together, across crashes).                                              *)
RefinesLinearHistory == History!Spec

(* A commit differs from its parent only where its own user saved a file   *)
(* or was told of a conflict; everywhere else it leaves the other side's   *)
(* work as it found it (target.go: the overwrite that E13.3 forbids).      *)
NothingRevertedSilently ==
    [][\A s \in Spaces : pc[s] = "put" /\ ref' # ref /\ plan[s].version = ref'
          => {p \in Paths : ManifestOf(ref)[p] # versions'[ref'].manifest[p]}
                \subseteq touched[s]]_vars

(* No sync, checkout or clear overwrites or deletes a file whose content   *)
(* no reachable version has, wherever commands died before (checkout.go    *)
(* and dirty.go: everything about to disappear is recoverable).  A restore *)
(* is asked to write over what is there.  Of CarefulSpec: snapshots expire *)
(* meanwhile, but not one that is somebody's base.                         *)
NothingUnsavedIsLost ==
    [][<<pc, plan>>' # <<pc, plan>>
          => \A s \in Spaces, p \in Paths :
                /\ tree[s][p] \notin {Absent, Torn} \cup FilesKept
                /\ plan[s].kind # "restore"
                => tree'[s][p] = tree[s][p]]_vars

(* Base is a deliberate version: snapshots come and go without moving what *)
(* the next commit builds on (space.go, Head.Base).                        *)
BaseIsDeliberate ==
    \A s \in Spaces : head[s].base # NoVersion => ~versions[head[s].base].snapshot

==============================================================================

----------------------------- MODULE TreeUpdate -----------------------------
(***************************************************************************)
(* How a sync and a checkout move a directory from one manifest to another *)
(* on a real file system: src/client/sync.go and src/client/checkout.go.   *)
(* Manifests are flat; a file system has directories, which a file of the  *)
(* same name keeps from existing, and on Windows and macOS names that      *)
(* differ only in case are one.                                            *)
(*                                                                         *)
(* A file is written where it stands: created or cut to nothing first,     *)
(* then filled from its chunks.  Any step may return an error; the command *)
(* is then run again, under the same ignore rules.  A directory exists as  *)
(* long as a file is in it, which is what pruneEmptyDirs leaves of it.     *)
(***************************************************************************)
EXTENDS Merge, Sequences

CONSTANTS
    Inside,         \* <<p, q>>: path p lies in a directory of the name q
    Fold,           \* FoldKey of a path: its place when case does not count
    CaseSensitive,  \* whether the file system tells such names apart
    Local,          \* files nobody has recorded
    Torn,           \* what a file may hold that was not written to its end; not Local
    Ignored         \* the paths .fibulaignore matches

VARIABLES
    kind,       \* "sync" or "checkout"
    base,       \* the manifest of Head.Base
    target,     \* the manifest of the version that is applied
    disk,       \* the files of the directory: path as spelled there, content
    conflicts,  \* the paths the merge of the last attempt reports
    goal,       \* the manifest the first attempt set out for
    writes,     \* entries still to be written, in order
    removals,   \* paths still to be deleted
    phase       \* "idle", "write", "fill", "remove", "done", "failed" or "refused"

vars == <<kind, base, target, disk, conflicts, goal, writes, removals, phase>>

Unset == [p \in {} |-> Absent]

Place(p) == IF CaseSensitive THEN p ELSE Fold[p]

(* The file system cannot hold files at both: one lies in a directory of   *)
(* the other's name.                                                       *)
Blocks(p, q) ==
    \E pair \in Inside :
        \/ Place(p) = Place(pair[1]) /\ Place(q) = Place(pair[2])
        \/ Place(q) = Place(pair[1]) /\ Place(p) = Place(pair[2])

(* Manifest.Validate: no two paths that differ in case only.  Since it was *)
(* built from a directory, no path lies in another either.                 *)
Valid(m) ==
    \A p, q \in PathsOf(m) : p # q => Fold[p] # Fold[q] /\ <<p, q>> \notin Inside

FileSystemHolds(d) ==
    \A e, x \in d : e # x => Place(e.path) # Place(x.path) /\ ~Blocks(e.path, x.path)

Entry(p, f) == [path |-> p, file |-> f]

(* The files of the directory, the paths as it spells them. *)
OnDisk(d) ==
    [p \in Paths |-> IF \E e \in d : e.path = p
                     THEN (CHOOSE e \in d : e.path = p).file ELSE Absent]

(* Scan: what lies under an ignored path is left out. *)
Scanned(d) == [p \in Paths |-> IF p \in Ignored THEN Absent ELSE OnDisk(d)[p]]

(* The paths of S in path order. *)
InOrder(S) ==
    CHOOSE order \in [1 .. Cardinality(S) -> S] :
        \A i, j \in DOMAIN order : i < j => order[i] < order[j]

Init ==
    /\ kind \in {"sync", "checkout"}
    /\ base \in {m \in [Paths -> (Files \ Local) \cup {Absent}] : Valid(m)}
    /\ target \in {m \in [Paths -> (Files \ Local) \cup {Absent}] : Valid(m)}
    /\ disk \in SUBSET [path : Paths, file : Files] /\ FileSystemHolds(disk)
    /\ conflicts = {}
    /\ goal = Unset
    /\ writes = <<>>
    /\ removals = {}
    /\ phase = "idle"

Moves(to) == phase' = to /\ UNCHANGED <<kind, base, target>>

(* Builder.Build of the scan fails on two files that differ in case only.  *)
Refuse ==
    /\ phase = "idle"
    /\ ~Valid(Scanned(disk))
    /\ Moves("refused")
    /\ UNCHANGED <<disk, conflicts, goal, writes, removals>>

(* mergeOnto: scan, merge, and the diff in the order incomingOf puts it.   *)
BeginSync ==
    /\ phase = "idle" /\ kind = "sync" /\ Valid(Scanned(disk))
    /\ LET now    == Scanned(disk)
           merged == MergeOf(base, now, target)
       IN  /\ conflicts' = ConflictsOf(base, now, target)
           /\ goal' = IF goal = Unset THEN merged ELSE goal
           /\ LET order == InOrder(Added(now, merged)) \o InOrder(Changed(now, merged))
                               \o InOrder({r[2] : r \in Renamed(now, merged)})
              IN  writes' = [i \in DOMAIN order |-> Entry(order[i], merged[order[i]])]
           /\ removals' = Outgoing(now, merged)
    /\ Moves("write")
    /\ UNCHANGED disk

(* Checkout, after the dirty check has recorded the directory.             *)
BeginCheckout ==
    /\ phase = "idle" /\ kind = "checkout" /\ Valid(Scanned(disk))
    /\ conflicts' = {}
    /\ goal' = target
    /\ LET order == InOrder(PathsOf(target))
       IN  writes' = [i \in DOMAIN order |-> Entry(order[i], target[order[i]])]
    /\ Moves("write")
    /\ UNCHANGED <<disk, removals>>

(* Mutant of Written: the file that is replaced stays beside the new one. *)
WrittenBeside(d, entry) == d \cup {entry}

(* os.Create opens what the file system finds under the name, which keeps  *)
(* the spelling it has.                                                    *)
Written(d, entry) ==
    LET found == {e \in d : Place(e.path) = Place(entry.path)}
    IN  (d \ found) \cup (IF found = {} THEN {entry}
                          ELSE {Entry(e.path, entry.file) : e \in found})

(* restoreEntry, which makes the directories and then has os.Create empty  *)
(* the file or make a new one.                                             *)
Create ==
    /\ phase = "write" /\ writes # <<>>
    /\ \A e \in disk : ~Blocks(e.path, Head(writes).path)
    /\ \E cut \in Torn : disk' = Written(disk, Entry(Head(writes).path, cut))
    /\ Moves("fill")
    /\ UNCHANGED <<conflicts, goal, writes, removals>>

(* restoreEntry, when the last chunk has been fetched and written. *)
Fill ==
    /\ phase = "fill"
    /\ disk' = Written(disk, Head(writes))
    /\ writes' = Tail(writes)
    /\ Moves("write")
    /\ UNCHANGED <<conflicts, goal, removals>>

(* Mutant of WritesDone: a checkout leaves what the manifest has not. *)
WritesDoneKeeping ==
    /\ phase = "write" /\ writes = <<>>
    /\ Moves("remove")
    /\ UNCHANGED <<disk, conflicts, goal, writes, removals>>

(* applyMerged goes on with its deletions; applyManifest scans again for   *)
(* what the manifest does not name.                                        *)
WritesDone ==
    /\ phase = "write" /\ writes = <<>>
    /\ removals' = IF kind = "sync" THEN removals
                   ELSE PathsOf(Scanned(disk)) \ PathsOf(target)
    /\ Moves("remove")
    /\ UNCHANGED <<disk, conflicts, goal, writes>>

(* deleteFile: whatever the file system finds under the name. *)
DeleteFile(p) ==
    /\ phase = "remove" /\ p \in removals
    /\ disk' = {e \in disk : Place(e.path) # Place(p)}
    /\ removals' = removals \ {p}
    /\ Moves("remove")
    /\ UNCHANGED <<conflicts, goal, writes>>

(* Mutant of Settle: a sync that fails has its base moved all the same. *)
SettleEarly ==
    /\ phase \in {"write", "remove"} /\ removals = {}
    /\ phase' = IF writes = <<>> THEN "done" ELSE "failed"
    /\ base' = target
    /\ UNCHANGED <<kind, target, disk, conflicts, goal, writes, removals>>

(* settleAfterSync, pointHeadAt: the base is what was applied. *)
Settle ==
    /\ phase = "remove" /\ removals = {}
    /\ phase' = "done"
    /\ base' = target
    /\ UNCHANGED <<kind, target, disk, conflicts, goal, writes, removals>>

(* Any call may fail: a file system that cannot make the directory, an     *)
(* object the store does not deliver, a cancelled context.  What a failing *)
(* restoreEntry has opened stays as it is, cut short.                      *)
Fail ==
    /\ phase \in {"write", "fill", "remove"}
    /\ Moves("failed")
    /\ UNCHANGED <<disk, conflicts, goal, writes, removals>>

(* The user runs the command again. *)
Repeat ==
    /\ phase = "failed"
    /\ conflicts' = {} /\ writes' = <<>> /\ removals' = {}
    /\ Moves("idle")
    /\ UNCHANGED <<disk, goal>>

Ended == phase \in {"done", "refused"} /\ UNCHANGED vars

Next ==
    \/ Refuse \/ BeginSync \/ BeginCheckout \/ Create \/ Fill \/ WritesDone \/ Settle
    \/ Fail \/ Repeat \/ Ended
    \/ \E p \in Paths : DeleteFile(p)

Spec == Init /\ [][Next]_vars

------------------------------------------------------------------------------

(* The types of the variables; the file system never holds two files in    *)
(* one place, and a file that is filled is still the one that was opened.  *)
TypeOK ==
    /\ kind \in {"sync", "checkout"}
    /\ base \in Manifests /\ target \in Manifests
    /\ disk \subseteq [path : Paths, file : Files] /\ FileSystemHolds(disk)
    /\ conflicts \subseteq Paths /\ goal \in Manifests \cup {Unset}
    /\ writes \in Seq([path : Paths, file : Files])
    /\ removals \subseteq Paths
    /\ phase \in {"idle", "write", "fill", "remove", "done", "failed", "refused"}
    /\ phase = "fill" =>
          writes # <<>> /\ \E e \in disk : Place(e.path) = Place(Head(writes).path)

(* client/sync.go: "applyMerged moves the working directory from ours to   *)
(* merged"; client/checkout.go: "applyManifest makes the working directory *)
(* match a manifest".  Writes, then deletions, from a diff taken before,   *)
(* cut short anywhere and started over from a directory that is neither    *)
(* the old nor the new one, end where the first attempt set out for.  A    *)
(* file that was cut short in the middle is the exception: a sync that is  *)
(* run again takes it for the user's own, and has to report it.            *)
ArrivesAtGoal ==
    phase = "done" =>
        \A p \in (Paths \ Ignored) \cup PathsOf(goal) :
            \/ OnDisk(disk)[p] = goal[p]
            \/ OnDisk(disk)[p] \in Torn /\ p \in conflicts

(* A sync never takes a file from the directory that no version has:       *)
(* sync_test.go checks "that neither side's work is lost".  That is, a     *)
(* file the scan has seen.                                                 *)
UnrecordedIsKept ==
    [][kind = "sync" =>
        \A e \in disk : e.file \in Local /\ e.path \notin Ignored =>
            \E x \in disk' : x.file = e.file]_vars

==============================================================================

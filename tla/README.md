# Fibula in TLA+

Fibula is version control for binary assets.  A user works in a *space*, a
directory with a few files under `.fibula`; several spaces share one *store*, a
directory on a local disk or a NAS.  There is no server and no daemon: every
command of `fibula` is a process that reads and writes the two directories and
ends.  So the hard part of the system is not any single function but what
happens *between* its file system calls: other processes act there, and the
process itself can die there.  This project models those in-betweens in TLA+,
checks them with TLC on small instances and proves part of it with TLAPS for
instances of any size: 48 theorems, most of the safety properties among them.

Contents: [the system](#the-system) · [the modules](#the-modules) ·
[the runs](#the-runs) · [fairness](#fairness) · [the proofs](#the-proofs) ·
[where code and documents disagree](#where-code-and-documents-disagree) ·
[what is not modelled](#what-is-not-modelled) · [the plan](#the-plan)

## The system

| part | state it keeps | operations |
|---|---|---|
| object store `store/fs/fs.go` | immutable objects named by their hash, one file each; its mtime is the object's age | `Put` (temporary file, fsync, rename), `Get`, `Exists`, `Walk`, `Delete` |
| ref store `store/fs/refs.go` | one small file per ref holding a version ID; `<ref>.lock` while it is being changed; one mutex per ref name in each process | `CompareAndSwap`, `Delete`, `Get`, `List` |
| lock store `store/fs/locks.go` | one file per locked path: owner, time, reason | `Acquire`, `Release`, `Transfer`, `Get`, `List` |
| versions and spaces `client/snapshot.go`, `target.go`, `version.go`, `sync.go`, `checkout.go`, `restore.go`, `clear.go`, `dirty.go`, `space.go` | the directory itself; `.fibula/head` (version shown, base of the next commit); `.fibula/manifest` (what is checked out) | `snapshot`, `commit`, `promote`, `sync`, `checkout`, `restore`, `clear` |
| status cache `client/cache.go`, `scan.go` | size, mtime and hash of every file at the last record | `Scan`, `Status` |
| merge and diff `manifest/merge.go`, `diff.go` | none | `Merge`, `Diff` |
| lock commands `client/locks.go`, `lockstate.go`, `cmd/fibula/locks.go` | `.fibula/held`: the locks a space believes it has | `lock`, `unlock`, their `--force` forms, the check before a commit, `status` |
| collection and expiry `client/gc.go`, `expiry.go` | none of their own | `gc`, `expire` |
| chunking `chunk/` | the rolling buffer of one file being read | `Next` |
| ignore rules and walks `client/ignore.go`, `scan.go`, `ignored.go` | none that lasts | `ParseIgnore`, `Match`, `Scan`, `collectIgnored` |
| object texts `object/`, paths `path/path.go` | none | `Marshal`, `Unmarshal`, `Validate` |
| hashes, CLI, read-only marks | none that lasts | |

**How they interact.**  A record (`snapshot` or `commit`) scans the directory,
puts chunks, file objects, the manifest and the version object, *then* moves a
ref, and *then* writes head, manifest and cache in the space.  Everything up to
the ref is invisible to others; the ref is the one point where spaces meet, and
its compare-and-swap the one place where they are serialised.  A commit moves
`main` from the version it names as its parent; a snapshot creates a ref of its
own under `snapshots/`; a promotion one under `promoted/`.  `sync` merges the
ref's manifest with the directory and moves the base.  `expire` deletes refs of
snapshots; `gc` walks from the refs and deletes what it does not meet, unless
it is young.  File locks are files next to the refs that `commit` looks at.

**What is hard, and what makes each part correct.**

* *Ref store.*  Mutual exclusion between processes by an exclusively created
  file, between goroutines by a mutex; leftovers of dead processes are broken
  by age.  Correct if it behaves as an atomic register with compare-and-swap
  across crashes and failing calls, always answers, and is not blocked for good
  by a leftover.
* *Merge and diff.*  Nested cases over three manifests.  Correct if each path
  is decided by the one rule of E44, nothing is dropped silently, a merge cut
  short resumes, and what the diff names is exactly what has to be written or
  deleted.
* *Versions and spaces.*  Read, decide, publish, record, in separate files; any
  prefix may be all that happens.  Correct if the ref's history stays linear,
  no commit reverts somebody's work in silence, no command destroys content
  that is nowhere else, and snapshots never become the base of a commit.
* *File locks.*  Check and act are separate calls on a file others replace and
  remove; what the space remembers lives elsewhere.  Correct if a path has one
  holder, holders remember what they hold, learn of what they have lost, and
  the commit check sees everything a commit publishes.
* *Collection.*  A long walk and a long sweep with no lock, against uploads
  that no ref names yet.  Correct if what a ref reaches is stored, and what a
  running command has put survives until its ref exists.
* *Status cache.*  File identity by size and mtime, looked up, hashed, stat'ed
  again and saved in separate steps while the user keeps saving.  Correct if what
  it vouches for is what was recorded, and unrecorded work is never shown as
  unchanged.
* *Dirty check.*  Five separate looks, at the head, the refs, the directory, the
  contents and the chunks, before files are deleted one by one.  Correct if every
  file that goes can be brought back.
* *Moving a tree.*  Flat manifests on a file system with directories, and with
  case or without.  Correct if a command that failed anywhere and is repeated
  arrives where the first attempt set out for.
* *Object files.*  Written beside, flushed, renamed.  Correct if a name never
  shows a part of an object, through crashes and power losses.
* *Chunking.*  Cut points must depend on the content alone, not on the slices
  the reader delivers nor on the bytes the scan skips.
* *Ignore rules.*  Two walks with code of their own over one directory.  Correct
  if they agree, and obey the file as its author reads it.
* *Object texts.*  IDs are hashes of texts.  Correct if a state has one text, and
  a damaged file object, which nothing else would notice, is refused.
* *Retention.*  Several spaces, clocks and runs that stop halfway thin one
  timeline.  Correct if no slot of the schedule ever loses its last snapshot.

## The modules

| module | models | composed with |
|---|---|---|
| `AtomicRef` | what `store.RefStore` promises of one ref: an atomic register with compare-and-swap and delete | abstract specification |
| `RefStore` | `store/fs/refs.go`, one ref, one file system call per step | implements `AtomicRef` |
| `AtomicObject` | what `store.ObjectStore` promises of one key | abstract specification |
| `ObjectStore` | `store/fs/fs.go` behind `store/verify.go`, one key, one call per step | implements `AtomicObject` |
| `Merge` | `manifest/merge.go`, `manifest/diff.go` and the use `client/sync.go` makes of them, as operators; no state | used by the next five |
| `LinearHistory` | what commit and sync promise a group of spaces | abstract specification |
| `Workspace` | the commands of several spaces on one ref, cut where others can act or the process can die | takes the ref as atomic, implements `LinearHistory` |
| `StatusCache` | `client/cache.go`, `scan.go` and the commands that read and save the cache, file by file | |
| `DirtyCheck` | `client/dirty.go` and the deletions of `clear.go` and `checkout.go` | |
| `TreeUpdate` | the writes and deletions of `sync.go` and `checkout.go` on a file system with directories | |
| `Locks` | lock files and the commands around them, one call on a lock file per step | |
| `Collector` | `gc` and `expire`, object by object and ref by ref, against commit, snapshot, sync and promote | |
| `Schedule` | the retention schedule of `client/expiry.go` as operators; no state | used by `Retention` |
| `Retention` | the schedule applied over time by several processes | |
| `Splitter` | `chunk/`: the loop of `BuildFile`, the splitter's buffer, the rolling hash | |
| `Ignore` | `client/ignore.go` and the walks of `scan.go` and `ignored.go` | |
| `ObjectText` | the texts of versions, manifests and file objects, `object/` | |
| `RefStoreProofs`, `MergeProofs`, `LocksProofs`, `CollectorProofs`, `StatusCacheProofs`, `WorkspaceProofs` | theorems about the module they are named after | |
| `ContentProofs` | theorems about `ObjectStore`, `Splitter` and `ObjectText`: the way of a file into the store | |
| `DeletionProofs` | theorems about `Retention`, `DirtyCheck`, `TreeUpdate` and `Ignore`: what is deleted and replaced, and what is left out | |
| `MC*` | instances for TLC: small sets, manifests somebody edits, symmetries | |

The composition is by layers.  `RefStore` shows that the files behave as
`AtomicRef` (under two timing assumptions), `ObjectStore` that they behave as
`AtomicObject`.  The other modules move a ref in one step and put an object in
one step, which is what the two abstract specifications allow.  `Workspace`
takes objects that a ref reaches as durable; `Collector` asks when they are;
`DirtyCheck` asks when a command may rely on it.  `Workspace` has `expire` delete
any snapshot, `Collector` the sets that `Droppable` allows, and `Retention` says
which really go.

### RefStore

`pc[c]` is the system call goroutine `c` is about to make inside
`CompareAndSwap` or `Delete`.  `lock` is the file `<ref>.lock` with its creator
(the code cannot tell who that is; only the properties look), `aged` whether it
is older than `lockStale`, `mutex[p]` what `mutexFor` hands out in process `p`.
`Latch`/`Unlatch` are `mu.Lock`/`mu.Unlock`; `CreateLock`, `LockExists`,
`GiveUp`, `StatStale`, `StatFresh`, `BreakLock`, `NothingToBreak`, `Retry`,
`LockFails` are the loop of `acquireFileLock` and `breakStaleLock`;
`CheckMatches`/`CheckMismatch` are `checkCurrent`; `Write`, `RemoveRef`,
`RefFails` the change; `Unlock`/`UnlockFails` the deferred remove, which may
fail and is ignored.  `Crash(p)` kills a process with all its goroutines and
starts it again: its mutexes are new, its lock file stays.  The order of the
code, mutex outside, file inside, is the order of `pc`.

The scheme rests on two things the code cannot enforce, and they are written
down as formulas: `OnlyOrphansAge` (a live holder is faster than `lockStale`)
and `SoleBreaker` (no two callers are between `os.Stat` and `os.Remove` of the
same leftover).  `CarefulSpec` assumes both, `PunctualSpec` the first only.

### ObjectStore

`temp[c]` is the file client `c` has created under `tmp/`, `object` the file at
the key's path, `durable` the files a power loss may leave there.
`CreateTemp`, `WriteTemp`, `SyncTemp`, `Rename` are `Put`; `PutFails` and
`RenameFails` its error paths with their clean-up; `PutExists` the branch of
`Put` that takes a refused rename for success when the object is there.
`Open`/`Read` are `Get`.  A reader holds the file it has opened, whatever
replaces it.  `Verdict` is what `verified.Get` makes of the bytes: under most keys
it compares hashes, but the key of a file or a manifest is the hash of other
bytes, and there the object is only parsed.  `Hashed` says which kind of key it is.
Damage may leave garbage or another well-formed object, and the second one passes
under a key that is not `Hashed`: its get answers `"other"`.  `PowerLoss`, `Flush` and `Damage`
are what the disk does.  `writeFileAtomic` in `client/space.go` and the settings
file use the same steps.  `CarefulSpec` assumes `NoRenameIsRefused`: a rename
does not fail where an object is already there.

### Merge

A manifest is a function from paths to files or `Absent`, which is what the
sorted, duplicate-free list that `Manifest.Validate` demands amounts to.
`Resolve` is translated case by case from `threeWay.resolve`; `Rule` is the
sentence of E44, written without looking at who has what.  `Renamed` follows
`pairRenames`: vanished and appeared paths of the same content form two queues
in path order and are paired position by position.

### Workspace

Each command is a chain of `pc` values.  `scanned`, `put`, `published`,
`headed` are the points of `record` after the scan, after the objects, after
the ref, and after `.fibula/head`; `write`, `remove`, `settle`, `settled` those
of `sync`; `point`, `pointed` those of `checkout`; `recheck` is the second
dirty check after the automatic snapshot of `checkout` and `clear`.  `plan` is
the command's local variables.  `Edit` is the user.  `Abort` ends a command at
any `pc` of `DiesIn`, `WriteIsCut` leaves a torn file, because `restoreEntry`
truncates first.  `Expire` deletes the ref of a snapshot, any of them at any time;
`CarefulSpec` assumes `NothingExpiresInUse`: none that is the base of a space, and
none while a checkout or a clear runs.

`touched` is the one history variable: the paths the user has saved since he
last published, or was told of by a sync.  It exists to say what "silently"
means in `NothingRevertedSilently`.

### StatusCache

A file is a content and an mtime, and a change may give it any mtime, also one it
has had (`Mtimes` are values without an order).  A record is
`Load` (one stat per file and the lookup), then for each file `Vouched` or
`Read`, then `Restat`, then `Publish`, `RecordHead`, `SaveCache`; a sync is the
same scan, `SyncMerge`, then `WriteFile`, `SyncGoesOn`, `RemoveFile`, `Settle`; a
restore writes, then `Refresh`es all it has written.  Two commands may run in one
space, `Edit` is the user, `held` the history of what each path had while a
command ran, and `had` of all it has ever had.  The passing run makes two
assumptions: `Undisturbed`, no file is saved between being read or written by a
command and being stat'ed by it; and `MtimesMove`, other content of the same size
gets an mtime that no content of that size has had at the path.  `client/cache.go:37`
names what breaks the second one: clocks that jump, tools that preserve
timestamps, shares that store them coarsely.

### DirtyCheck

`ConfirmHead`, `ReadRefs`, `Scan`, `Rehash`, `ChunksConfirmed` are the looks of
`CheckClear` in their order; `SnapshotUnversioned` is the automatic snapshot
after which `clear` and `checkout` look again; `DeleteFile` and `WriteFile`
follow.  Meanwhile `OthersCommit`, `Expire`, `Collect`, `LoseChunk` and the user
act, and `Mount` switches the store directory between the share and the empty
mount point.  A space starts without a head, and then `ConfirmHead` has nothing to
ask for.  The guarantee holds under four assumptions: `FilesStay` (what was judged
is not saved again), `ObjectsStay` (what was confirmed is neither expired nor
collected), `ShareStays` (the share does not go while a command runs), and
`ShareIsThere` (nor is it away when a version is recorded by hand, or when a space
that has recorded nothing runs a clear or a checkout).

### TreeUpdate

The directory is a set of files with the spelling of their paths; `Inside` says
which path lies in a directory that has another one's name, `Fold` which paths are
one when case does not count.  `BeginSync` computes the merge, `BeginCheckout`
the diff, `Create`, `Fill`, `WritesDone`, `DeleteFile`, `Settle` carry it out,
`Fail` may end any step, `Repeat` is the user's next attempt.  `Create` and `Fill`
are the two halves of `restoreEntry`: the file is emptied or made, then filled
chunk by chunk, and a `Fail` between them leaves what is in `Torn`, which the next
attempt finds in the directory like any file.  `Scanned` is what the scan sees of
the directory, that is without the paths in `Ignored`; `Written` asks nothing about
those and replaces what is there.

### Ignore

A path is a sequence of names; a segment of a pattern is the set of names it
accepts, so what `path.Match` does within a name stays abstract.  `Parse`,
`MatchSegments`, `Match` are the code; `Aligns`, `Covers`, `IgnoredByFile` the
meaning it is compared with.  `ScanEntry` visits what `WalkDir` visits, in any
order; `MeasureEntry` is the second walk, that of `clear`.

### ObjectText

A text is a sequence of tokens, a few of which are the characters the rules look
at.  The readers are written as the code reads, line by line: `Split`, `LinesOf`,
`ReadsNumber` and the like are `strings.Split`, `splitCanonicalLines` and `parseInt`.
Where `parseHead` walks along the lines and takes each optional one as it comes,
`ParentsOf`, `GraphAt` and `EndAt` say at which line that walk finds what, `VersionOf`
what it puts together, and `AreVersionLines` when it gets to the end.  The state is
an object, its text, and what an editor has made of the text.

Times are the one thing a text does not keep as it was (`object/roundtrip_test.go:144`):
`FormatTime` writes the second (`SecondOf`) that a moment lies in, and the moments
`client/snapshot.go:255` takes from the clock are mostly between seconds.  `RoundTrip`
therefore says that a version is read back with its times cut to the second
(`AtSeconds`), and everything else as it was.

### Splitter

`Filling`, `Read`, `ReadEnd`, `ReadFails`, `Filled`, `DropEmitted`, `Boundary`
and `Emit` are the code's own steps; the reader delivers any slice at any time.
A 64-bit word is the set of its ones, here of 3 bits, and the window is as long
as the word is wide, as in the code.  `HashAt` computes the hash from the
content alone.

### Schedule and Retention

Times are numbers, and hours, days and weeks functions of them.  `Bucket`,
`Within` and `Retain` are `bucketOf` and `Retain`: newest first, one snapshot per
slot.  `Take` publishes a
snapshot whose time may be a little off, `StartExpire` decides by a clock that
may be behind, `DropRef` deletes one ref, `Stop` ends a run early.

### Locks

`lock[p]` and `state[p]` are the lock file: created empty (`blank`, it cannot
be parsed), then written (`live`), perhaps `expired` later.  `Create` and
`Fill` are the two calls of `Acquire`, `Exists`/`MayTransfer`/`Refused`,
`Transfer`, `Replace` the take-over in `lockOne`, `SkipFree`, `Claim`,
`ReleaseOwned`, `ReleaseGone`, `ReleaseRefused`, `RemoveLock` the loop of
`Unlock`.  `Remember`, `ForgetFreed`, `ForgetLost` change `.fibula/held`, each
at the end of its command only.  Of the user's work just two sets are kept: what
the next commit publishes (`changed`) and what the lock check can see
(`unseen`).

### Collector

An asset, its chunks, files that share a chunk.  `Upload` puts one object per
step, `PutCommit`/`PutSnapshot`/`PutPromoted` the version object (the manifest,
put just before it, is merged into it), `CommitPublish` and its siblings move
the ref, `Record` saves head and cache.  `Mark` is `reachableObjects`, `List`
is `walkStore`, `Sweep` deletes one object.  `Droppable` is what remains of the
retention schedule: which sets of snapshots some schedule and time can drop.
`GracePasses` is the clock: everything becomes old but what running commands
have put, since `GraceDefault` is much longer than a command.

`CarefulSpec` assumes three more things nothing in the code enforces:
`NobodyRevives`, `PromotesKept`, `CachesAreBacked`.  `CachedSpec` drops the
third one.

## The runs

Every property has a mutant in `PROJECT.json`: a definition of the model
changed the way a plausible bug would change the code (the mutated forms stand
next to the originals, marked "Mutant of"), under which TLC finds the property
violated.

Several modules are small enough to share a run.  Such an MC module has a
variable `part`; the initial state chooses one of the parts, its module moves and
the others stay in an initial state, so the reachable states are the union of
what each module reaches alone, and nothing is claimed about an interaction.  The
property of a part is stated for the states in which that part moves, or is one
that parked parts satisfy trivially.

| run | instance | what it shows |
|---|---|---|
| `Files` | *ref*: `RefStore`, 2 goroutines of one process, 1 of another, one version, every request, 2 attempts, crashes and failures anywhere, `CarefulNext`. *object*: `ObjectStore`, the key of a file, 2 clients, `NoRenameIsRefused`. *check*: `DirtyCheck`, 2 paths, 1 content, 3 versions, `CarefulSpec`'s assumptions | `TypeOK`, `Guarded`, `NoLostUpdate`, `RefinesAtomicRef`; `PutRenews`, `RefinesAtomicObject`; `DeletedIsRecoverable`; `PartsTypeOK` |
| `Store` | *collector*: 2 spaces, 2 contents sharing a chunk, 2 versions, commands die before the ref and in the sweep, `CarefulNext`. *timeline*: `Retention`, times 0 to 12, hours of 2, days of 4, weeks of 8 ticks, 3 snapshots, 2 expirers. *merge*: every triple of manifests of 3 paths and 3 contents. *update*: `TreeUpdate`, the paths `a`, `a/b`, `A` and an ignored one, 2 contents, one nobody has recorded, and files cut short | `ReferencedIsStored`, `UploadsSurvive`; `EverySlotIsCovered`; `MergeFollowsRule`, `MergeLosesNothingSilently`, `MergeResumes`, `DiffIsExact`; `ArrivesAtGoal`, `UnrecordedIsKept`; `PartsTypeOK` |
| `Commands` | *versions*: `Workspace`, 2 spaces, 1 path, 2 contents and torn files, 3 versions; commit, snapshot, sync; commands die before the ref has moved or after the head is written. *walks*: `Ignore`, 4 trees of depth 3, every ignore file of two lines out of 18. *text*: `ObjectText`, 198 objects, dated on and between seconds, one edit anywhere | `BaseIsDeliberate`, `NothingRevertedSilently`, `RefinesLinearHistory`; `ScanObeysTheFile`, `EveryFileIsAccountedFor`; `TextIsIdentity`, `CutFileIsRefused`; `PartsTypeOK` |
| `Deaths` | *versions*: `Workspace`, 1 space, 2 paths, 2 contents and torn files, 2 versions; commit, sync, checkout, clear, restore, expire; dies in *every* step; `NothingExpiresInUse`. *locks*: 2 users, 2 paths; lock, unlock, commit, snapshot; lock and commit die. *forced locks*: 2 users, 2 paths; lock, unlock, expiry, forced unlocks, status | `NothingUnsavedIsLost`; `TypeOK`, `BelievedIsHeld`; `LocksAreRemembered` |
| `Space` | *cache*: `StatusCache`, 1 path, 2 contents of one size and a larger one, a second process that takes snapshots, 2 versions, 2 mtimes, 3 changes (no command begins after more than 3 changes and versions together), `Undisturbed`, `MtimesMove`. *chunks*: `Splitter`, 3 bytes of 3 bits, every input of up to 7 bytes, 6 sets of parameters, readers that fail | `VouchedWasPublished`, `VouchedIsTrue`, `RecordIsFaithful`, `RecordedIsRestorable`; `ChunksAreTheFile`; `PartsTypeOK` |
| `Progress` | *locks*: 2 users and the path both want; expiry, forced unlocks, status. *ref*: 2 processes that create and delete; both fair | `LossIsNoticed`; `EveryCallReturns`, `LeftoverGoesAway` as long as callers keep coming |
| `RefStoreTwoBreakers` | 2 processes, 2 versions, `PunctualSpec` | *violated*: `NoLostUpdate` when two callers find the same leftover |
| `WorkspaceStaleBase` | 2 spaces; dies between ref and head | *violated*: `NothingRevertedSilently` |
| `LocksSnapshot` | 2 users, 1 path | *violated*: `CheckSeesEveryChange` |
| `CollectorReuse` | 2 spaces, caches not backed, no deaths | *violated*: `ReferencedIsStored` |
| `StatusCacheLateSave` | 1 process, 1 path, saves at any time | *violated*: `VouchedIsTrue` |
| `DirtyCheckIgnored` | 2 paths, one of them ignored | *violated*: `DisappearingIsRecoverable` |

Two properties that suggest themselves are not checked separately because they
follow: that `status` shows unrecorded work as changed follows from
`VouchedIsTrue` and `VouchedWasPublished`, and that no reader ever sees a part of
an object from `RefinesAtomicObject`.

**Why these bounds.**

* `RefStore`: the protocol distinguishes a caller of one's own process (mutex)
  and one of another (file), so three callers in two processes give every pair.
  Crashed processes come back, so a third process would do what a restarted one
  does.  Two attempts are enough for a break followed by a try.  With one
  version a swap from a version to itself, a creation and a delete still occur;
  a second version is only needed to lose an update, in `RefStoreTwoBreakers`.
  The proofs remove all these bounds.
* `ObjectStore`: keys do not interact, since every path holds its own hash.  Two
  clients give a put against a put, a get and a delete.  The key is one that is not
  `Hashed`, under which more can happen; the proof is about both.
* `Splitter`: the window is three bytes, inputs of seven have chunks that end
  below, at and above it and a remainder; the parameters have minima below, at and
  above the window, a ceiling equal to the minimum, and sets `validate` refuses.
  The scheme needs the window to be as long as the word is wide, which the
  small word keeps.
* `Merge`: `Resolve` looks at one path and compares at most three entries, so three
  contents besides `Absent` give every equality pattern, up to a base and two
  sides that all differ.  Three paths are needed for a rename pairing with unequal
  queues.  The run edits three manifests step by step, which reaches every
  triple, each intermediate state being one too.
* `Workspace`: three versions let one side publish, the other side react and the
  first publish again, the shortest story in which work can be reverted; two
  paths let one file be written and another not.  Paths are otherwise
  independent, since every operation treats them one by one.  With two contents
  conflicts are two different additions, or a change against a deletion; three
  different files at one path, which a merge treats like two additions, are
  left to the part *merge* of `Store`.  With `expire` and one space, two versions are
  a commit or snapshot that goes and the one that stays.
* `StatusCache`: what is cached is looked up path by path.  Two contents of one
  size make the mtime decide, a larger one the size; two versions are one record
  and one that reuses what the first has cached.  With two mtimes a third change
  has to come back to one the path has had.  A command begins while there have been
  three changes and versions at most (`MCBeginsEarly`): a version, two changes, and a
  command with the third change and the second version beside it.
* `TreeUpdate`: `a` and `a/b` cannot both be files, `a` and `A` are one place
  where case does not count; these are the two ways in which entries of a
  manifest are not independent.  The ignored path has no counterpart in the base,
  and on either side one file at most, so that a sync writes over it or not.
* `Ignore`: two lines are a rule and one that takes back or repeats it; the
  patterns have no name, one and several, double stars at the front, in the
  middle, at the end and alone.
* `ObjectText`: the readers keep no state across lines but the number of lines
  left and the order of the entries, so one edit of one text is enough to meet
  each of their rules.  A date between two seconds and the second it lies in are both
  among the objects.
* `DirtyCheck`: two paths with one content share a chunk query, the case
  `chunkKeysOf` treats specially; three versions are the head, one that expires,
  and the automatic snapshot.
* `Retention`: three snapshots are one that competes, one it competes with, and one
  that comes later; the windows end inside slots.
* `Locks`: exclusion is between a user and "somebody else"; two paths let a
  command meet one lock while holding another.  `LossIsNoticed` is checked with
  one path: `LostLocks` asks for every path by itself.
* `Collector`: two versions are enough to have one kept and one garbage, and two
  files with a shared chunk to have garbage that another version needs.  Files
  `{c}` and `{c, d}` make every chunk either shared or private.

Symmetry (spaces, and contents where they are interchangeable) is used in runs
with invariants and action properties only, never where liveness is checked.
`CHECK_DEADLOCK FALSE` stands where the bound on versions, or a set of commands
without any way on, really stops the system; `Files` and `RefStoreTwoBreakers`
check deadlock: a store always takes another call.

## Fairness

* `RefStore.Scheduling`: a goroutine that can take a step takes it (weak
  fairness of `Step`), and `sync.Mutex` does not starve a waiter (strong
  fairness of `Latch`: Go's mutex switches to handing over after a millisecond).
  No action is forced to succeed: any call may fail instead, each step's
  fairness is that of the disjunction.
* `RefStore.Persistence` is the *premise* of `LeftoverGoesAway`, not part of
  the specification: callers keep coming, not all of them are cancelled before
  they have met the lock and looked at it, and time passes.  Without callers
  nobody removes a leftover; nothing in the code does so by itself.
* `Locks.Fairness`: a running command goes on; users look at the status again
  and again (strong fairness of `StatusFinds`); now and then a user has no
  command running while no lock file stands created but unwritten.  That
  last condition is needed because one unparsable lock file makes the whole
  status fail, and it excludes the death between `Create` and `Fill`, after
  which it would never hold again.

`MCProgress` pairs the two: caller `a1` with user `s1`, `b1` with `s2`.  Since
the actions of the part that does not move are never enabled, fairness of the
disjunction "this part's action or that part's" is fairness of the action of the
part that moves.

The other modules promise no progress: users act or do not.

## The proofs

All theorems are checked by TLAPS from the assumptions named in the modules
that declare the constants, and those say only what the code justifies: `Nil`
is no version, requests are requests, every caller runs in a process, at least
one attempt is made; paths are numbers (only their order counts), patterns are
sets of paths.

**`RefStoreProofs`**, any callers, processes, versions and number of attempts.

* `TypeCorrect`: `Spec => []TypeOK`.
* `RefIsGuarded`: `CarefulSpec => []Guarded`.  `HolderOwnsLock`, what one wants
  to know, is not inductive: the remove in `BreakLock` preserves it only if the
  lock that is removed is still the leftover that was looked at
  (`BreaksLeftovers`), which another breaker could have changed (`SoleBreaker`)
  or a holder (`OnlyOrphansAge`); and the two callers of one process are kept
  apart by `MutexAdmitsOne`.  `CheckStillHolds` then follows: between check and
  write only the holder changes the ref.  The conjunction is `Guarded`.
* `HolderIsSafe`: at most one caller of all processes is between create and
  remove, and the lock file is its own.
* `StoreIsAtomic`: `CarefulSpec => RefinesAtomicRef`.  The mapping reads the
  abstract status off `pc` and `outcome`; `Write`, `CheckMismatch`, `RemoveRef`
  and the failures are the instants at which operations take effect, every
  other step stutters.
* `NothingIsOverwritten`: `CarefulSpec => NoLostUpdate`.

**`MergeProofs`**, manifests of any paths and contents.  `ResolveIsRule`
(nested cases equal the rule) carries the rest: `EveryMergeFollowsRule`,
`NoMergeLosesSilently`, `EveryMergeResumes` (by way of `RuleIsIdempotent`:
deciding again after one's own decision changes nothing), and
`DiffCoversEveryPath`.  `RenamesArePairs` adds that the rename detection pairs
paths one to one and leaves no file both added and removed; with the theorem
before it that is all of `DiffIsExact`.  It needs that the places in a queue of
paths have no gaps (`EveryPlaceIsTaken`), which follows from looking at the first
path of a late place: what stands before it has a last one, and without that the
place is one less.  `LeastNumber`, every set of numbers that is not empty has a least
one, follows from `WFMin` of `WellFoundedInduction` without passing an operator
to a theorem and stands in for an induction here and elsewhere.  These theorems are
about the operators; the run `Store` checks the same operators through the
invariants of `MCStore`.

**`LocksProofs`**, any users and paths.

* `LocksTypeCorrect`: `Spec => []TypeOK`.
* `LocksExclude`: where the users are `Considerate`, `Spec => []BelievedIsHeld`.
  `Considerate` is what the run `Deaths` has: no `--force`, no expiry, one path at a
  time, no death inside an unlock; locks, commits and snapshots may die
  anywhere.  `BelievedIsHeld` is not inductive: `Remember` needs that what a
  command has locked is still there (`StepIsCurrent`), which in turn needs that
  nobody takes over (`NothingIsForced`) and that whoever is about to write or
  delete a lock file still owns it; `OnePath` is needed because an unlock that
  fails at a second path would forget nothing although the first is gone.
* `TakenStaysRemembered`: where the users work `OneByOne`, `Spec =>
  []TakenIsRemembered`: whoever holds a lock and runs no command knows that he holds
  it, also with `--force`, expiry, takeovers and unlocks that die anywhere.
  `OneByOne` is one path at a time and no death between a lock's file and
  `.fibula/held`; both are needed (*Half a lock command* below).  The strengthening
  says the same of users amid a command: what they hold is in their list, or a running
  `lock` has just taken it (`TakenIsKnown`), and what an `unlock` is about to forget is
  not theirs any more (`ForgottenIsGone`).

**`ContentProofs`**, any clients, bytes, tables, parameters, files and texts.

* `ObjectStoreTypeCorrect`: `Spec => []TypeOK`.  What makes it inductive is
  `StoredIsWhole`: a name is given only to a flushed, whole file, and so no name
  leads to anything less after a power loss either.
* `StoreImplementsAtomicObject`: `Spec => RefinesAtomicObject`, without any
  assumption about renames, for both kinds of keys: what `AtomicObject` promises of a
  key that is not `Hashed` is less, a well-formed object of somebody else's may be
  the answer.  One lemma per action says which abstract step it is: `Rename`, the
  removal, the open of a file that is missing and the answers take effect, all others
  stutter.
* `PutsRenew`: `CarefulSpec => []PutRenews`, from `RenewsInv`: who finds an object
  after a refused rename has it renewed by somebody since its own call.
* `SplitterTypeCorrect`, `CutsFollow`, `ResultsAreWhole`: `Spec => []TypeOK`,
  `[]CutsFollowTheContent` and `[]ResultIsWhole` of `Splitter`, for every window
  and table, every file, and every way in which the reader hands it over.
  `CutterInv` says where in the file the splitter is: what the sink has seen is the
  beginning of the file, and the buffer is what comes next (`InStep`).  The hard
  step is `Emit`: the code rolls its hash through the buffer from the start of the
  chunk, the property asks for the hash of the last window alone.  Both are one
  thing because bit b of the rolled hash is the parity of the window's bytes
  that put a one there, each rotated as far as it has moved on (`HashFits`): a
  new byte moves all the others on by one, and the byte that leaves has come
  round to where it started, so that taking it out restores the parity.
* `SameFileSameChunks`, `SameRestSameChunks`: what `CutsFollow` is good for.  A file
  has one list of chunks for given parameters, so that whoever puts it writes the
  same objects; and if two files have the same rest after a cut in each, all their
  chunks from there on are the same, whatever comes before.
* `TextTypeCorrect`, `WrittenIsRead`, `OneSpellingHolds`, `CutTextIsRefused`: `Spec =>
  []TypeOK`, `[]RoundTrip`, `[]OneSpelling` and `[]CutFileIsRefused` of `ObjectText`,
  for any number of parents, entries, chunks, tokens and edits, and for any moments
  and seconds: what is read back is what was written, dated to the second.  The inductive
  invariant is small (`TextInv`: a text, of a valid object, and until it is edited the
  one that was written), for the edits may leave any text at all; the work is in what
  the readers make of any text.  It rests on three facts about lines: what was joined
  is split into what it was joined from, if no part has the separator
  (`SplitEnded`, `LineIs`); what was split is joined to what it was (`EndedSplit`); and hence the
  lines below a header are neat if and only if encoding them gives the text back
  (`EncodedIs`, `EncodedLines`).  Then each kind of object is a function of its lines
  and back.  A file object that was cut has the first of the chunks and the whole size,
  and sums of lengths that are not zero grow (`CutFileIsNotRead`).  What a manifest
  means is itself since `Less` is an order (`MeantIsIt`).  For versions the optional
  fields are counted (`GraphAt`, `EndAt`), and what remains is the message: no line
  above it is the marker, because such a line would be a field with another key, so
  that the first marker of a text is the one that `Marshal` wrote, whatever the
  message says below it (`VersionRoundTrip`).

`Splitter` and `ObjectText` are instances there, `Cutter` and `Texts`, with constants of
their own.  What is assumed of these is `CutterConstants` (a window of at least one, a
table of words, a file's bytes) and `TextConstants` (the objects are versions, manifests
and file objects; every moment lies in a second, a second in itself, and the zero
second holds no moment but zero; numbers mean numbers and only `0` means zero; no ID, time
or number is a separator or one of the lenient spellings; a zero ID and a zero time
exist), hypotheses of every one of the theorems.

**`CollectorProofs`**, any spaces, files, numbers of versions and places of death.

* `CollectorTypeCorrect`: `Spec => []TypeOK`, also where a sweep deletes what is
  being put.
* `ReferencedStaysStored` and `UploadsStayStored`: `CarefulSpec =>
  []ReferencedIsStored` and `[]UploadsSurvive`.  Neither is inductive, because a
  sweep works off a list made from refs that have moved since.  `KeptInv` adds
  what ties the list to the present: nothing on any list is needed now
  (`DoomedIsGarbage`), where *needed* is what the refs reach and what running
  commands have put; what is in flight is young, so it gets on no list
  (`InFlightIsYoung`); and a command that is about to move a ref has accounted for
  all of its content (`ContentIsAccountedFor`, `PublishesItsOwn`), so that what
  becomes reachable was in flight or reachable before.  `Reachable` is defined as
  a least set closed under parents, which gives its two rules without an
  induction.

**`StatusCacheProofs`**, any paths, files, sizes, mtimes, processes and versions.

* `StatusCacheTypeCorrect`, `CacheIsOfVersions`: `Spec => []TypeOK` and
  `[]VouchedWasPublished`, from `PublishedInv`: what a command has in hand to save
  is of a version too, at every point of every command.
* `CacheTellsTheTruth`, `RecordsAreFaithful`, `RecordedStaysRestorable`: under
  `CarefulSpec`, that is `Undisturbed` and `MtimesMove`, for mtimes in any order.
  `VouchedIsTrue` speaks of the saved cache; to be inductive it must hold of every
  entry any command carries (`EntriesAreTrue`), since two commands overwrite each
  other's caches: each is of a content and an mtime that its path has had, and no
  two contents a path has had look the same (`FilesAreKnown`, which is what
  `MtimesMove` gives).  It needs that what was just read or written is still there
  when it is stat'ed (`FreshFits`), and that what a record has seen so far was there
  while it ran (`RecordFits`).

**`WorkspaceProofs`**, any spaces, paths, files and numbers of versions.

* `WorkspaceTypeCorrect`: `Spec => []TypeOK`.
* `BasesAreCommits`: `Spec => []BaseIsDeliberate` where `"checkout" \notin
  Commands`.  With checkouts it is false (*Base is a snapshot* below).
* `KeepsALinearHistory`: `Spec => RefinesLinearHistory` under the same assumption,
  with deaths anywhere.  `HistoryInv` says of every command that is about to move
  the ref to a version it has put: this version is a commit that has the
  command's base as parent.  With the comparison in the swap the step then appends
  exactly one version to the chain.
* `RevertsNothingSilently`: `Spec => NothingRevertedSilently` where `Careful`: only
  commit, snapshot and sync; no death between a commit's ref and its head nor
  inside the second half of a sync; no saves while a command runs.  The two
  excluded deaths are *Stale base* and *Half a sync* below.  `NothingHidden` is the
  strengthening: outside `touched` the directory is its base, the target once the
  sync has written it, and the plan of the commit in between.
* `LosesNothingUnsaved`: `CarefulSpec => NothingUnsavedIsLost` where `~EditsAnyTime`,
  for all commands, deaths anywhere, and snapshots that expire while commands run.
  `CarefulSpec` is `NothingExpiresInUse`, and both its halves are needed (*Expired
  base* below).  `Backed` is the strengthening: bases and targets stay reachable; what a checkout
  or a clear is about to replace is content that a reachable version has; and what a
  sync is about to replace is the base's, so that it does not matter to a sync which
  other snapshots go while it runs.

`Ancestry` and `Chain` are recursive functions over the versions.  What they compute
is one more invariant of `WorkspaceProofs` (`VersionsFit`): of each version of the
store it is known that the functions exist and what they are, and the step that
puts a version extends this by one, since parents are older than children.

**`DeletionProofs`**, any times, schedules, processes, paths, files and versions.

* `RetentionTypeCorrect`, `SlotsStayCovered`: `Spec => []TypeOK` and
  `[]EverySlotIsCovered` of `Retention`, with clocks that are late by any `Lag`, and
  expirers that stop anywhere.  All that is used of the schedule is that equal
  times are in one hour, one hour in one day and one day in one week
  (`SlotsNest`).  The strengthening (`DoomedIsOutdone`) is about what expirers are
  going to delete: at *every* moment until then, the timeline holds a newer
  snapshot of the same slot, slots being those of the present.  It survives
  another expirer's deletion because *newer in the same slot* is transitive, and
  the passing of time because slots only grow.
* `DirtyCheckTypeCorrect`: `Spec => []TypeOK` for a positive bound on the versions.
* `DeletedStaysRecoverable`: `CarefulSpec => DeletedIsRecoverable`, for clears and
  checkouts, down to the chunks, by spaces with a head and without one.  Four parts: after `ConfirmHead` the command deals
  with the share (`ShareIsAsked`); what it has read of the refs is still reached
  and stored (`ReachedIsMet`); what it has hashed is still in the directory
  (`HashedIsThere`); and all it is about to delete or write over is kept
  (`DoomedIsSafe`).

`Reachable` of `DirtyCheck` is a recursive function too, and there what it computes
is shown by *least counterexample*: `LeastNumber` of `MergeProofs`, applied to the
versions for which a claim fails, does what an induction would.

* `UpdateTypeCorrect`: `Spec => []TypeOK` of `TreeUpdate` for finitely many paths and
  any relation of files and directories, also where case does not count: no order
  of writes asks the file system to hold two files in one place.
* `UpdatesArrive`: `Spec => []ArrivesAtGoal` where names are told apart
  (`CaseSensitive`; otherwise it is false, see *Case*).  A sync that failed starts
  over from a directory that is neither the old nor the new one, so the proof needs that
  the merge from there has the outcome it had at first (`MergeStandsStill`, by
  `EveryMergeResumes`); and that at every step of the work each path is as it shall
  be, or still to be written with the goal's file, or still to be deleted
  (`WorkLeadsToGoal`).  A file that was cut short is in the directory, and the merge
  takes it for the user's: there the claim is that it is reported as a conflict, the
  one way in which a repeated sync ends elsewhere (*Torn file* below).  What the writes are is a finite set put in order, and that
  an order exists and misses nothing is `InOrderIs`.
* `SyncsKeepUnrecorded`: `Spec => UnrecordedIsKept` under the same assumption.  What a sync
  is still going to write over or to delete is never a file that no version has
  (`WorkSparesUnrecorded`): by the rule of E44 a merge that changes what the directory
  has found there what the base has, or nothing.  Nothing is claimed of files that
  are ignored (*Ignored files under a sync* below).

  What is assumed of the constants is `UpdateConstants`, a hypothesis of all three:
  paths are finitely many, and a file cut short is not one that its user has edited.

* `WalkTypeCorrect`, `ScanObeys`, `FilesAreAccountedFor`: `Spec => []TypeOK`,
  `[]ScanObeysTheFile` and `[]EveryFileIsAccountedFor` of `Ignore`, for every
  directory and every file of lines.  Two arguments carry them.  What the code's
  recursion over segments accepts is what can be aligned (`MatchIsFits`), and what
  the rules decide is what the lines say (`RulesObeyTheFile`: the rules are the
  lines that are not blank, in their order).  And a walk that skips whole
  directories misses nothing: what is to be found is found or lies under
  something still to be visited (`WalkerInv`, `Ahead`); the topmost ignored entry
  above a file is the one entry that accounts for it.

`Ignore` is an instance there, `Walker`.  What is assumed of its constants is
`WalkerConstants` (the lines are lines; a file's path is not empty, lies below no other
file, and is not `.fibula`), a hypothesis of each of its three theorems.

What the theorems assume of constants is what the ASSUMEs of the modules and the
theorems' own hypotheses say; what they assume of behaviours is named in `CarefulSpec`
of each module, and the section below says how each of these fails to be enforced.
TLC has checked every inductive invariant above on a small instance before its
proof.

**Model-checked only.**

* Liveness (`EveryCallReturns`, `LeftoverGoesAway`, `LossIsNoticed`): fairness and
  ENABLED are out of the prover's reach.
* The combined invariants `PartsTypeOK` of the runs, which put the types of several
  parts side by side: the types of each part are proved by themselves.

The invariants of the runs are named in the `MC` modules, each for one part of the run,
and some join several of a component's: `TextIsIdentity` is `OneSpelling` and
`RoundTrip` of `ObjectText`, `ChunksAreTheFile` is `CutsFollowTheContent` and
`ResultIsWhole` of `Splitter`.  The theorems state the component's own.

## Where code and documents disagree

Six disagreements have a run that ends in a counterexample; `PROJECT.json`
quotes the sentences.

1. **Two breakers** (`RefStoreTwoBreakers`).  A finds a leftover lock old enough,
   B too; A removes it, creates its own and reads the ref; B removes *A's* lock,
   creates its own and reads the same ref.  Both swaps succeed, one is lost.
2. **Stale base** (`WorkspaceStaleBase`).  A commit dies after the ref and before
   `.fibula/head`.  Its space now takes its own published files for edits, so a
   later change back by the other side is reverted at the next sync and commit,
   with no conflict.
3. **Snapshot hides a change from the lock check** (`LocksSnapshot`).
   `checkLocksForCommit` compares with the checked-out manifest, which every
   snapshot replaces.  Edit, snapshot, commit publishes a locked file.
4. **Reuse of collected content** (`CollectorReuse`).  Content recorded by a
   snapshot is not uploaded again while the cache vouches for it; when the
   snapshot has expired and the content is collected, the next version of the
   unchanged file refers to nothing.
5. **Stat after read** (`StatusCacheLateSave`).  `snapshotFile` reads a file, stats
   it again and stores the second mtime with the hash of what it read.  A file
   saved in between is shown as unchanged and recorded with its old content.
6. **Ignored files under a checkout** (`DirtyCheckIgnored`).  The dirty check does
   not look at ignored files, and the checkout writes over one whose path the
   target names.

The rest was met while modelling and is kept out of the passing runs by a named
bound or assumption.  It can be reproduced by changing the instance as
said:

* *Half a sync.*  A sync that dies among its writes leaves their files as local
  edits on the old base (`Commands` with `write`, `remove`, `settle` or
  `settled` in `DiesIn`: `NothingRevertedSilently`).
* *Torn file.*  `restoreEntry` truncates before it fetches (`client/restore.go:204`,
  which calls writing over an existing file "the normal case after a partial
  restore").  When a sync fails in between, its repetition takes the torn file for the
  user's own, keeps it, reports a conflict, and moves the base: the next commit
  publishes it unless somebody looks at the report (`Store` with the second disjunct
  of `ArrivesAtGoal` left out).
* *Ignored files under a sync.*  The merge sees what the scan sees, and `sync` writes an
  incoming file over an ignored one of the same path without a conflict, although
  nobody has recorded that one; a checkout does the same (`DirtyCheckIgnored`)
  (`Store` with `Ignored` files included in `UnrecordedIsKept`).
* *Expired base.*  `expire` asks no space what it has checked out.  After a checkout of
  a snapshot, that snapshot may expire while its files lie in the directory
  as the base, and the next sync writes over them although no version has them any
  more.  And a snapshot that expires between the check of a checkout or a clear and
  its writes or deletions is not there when its files go (`Deaths` without
  `NothingExpiresInUse`: `NothingUnsavedIsLost`).
* *Half a checkout.*  The files of an older version with the newest as base: the
  next commit publishes the old files, or a torn one (`Commands` with
  `"checkout"`, and `write`, `remove` and `point` in `DiesIn`, without the two
  properties a checkout of a snapshot breaks: `NothingRevertedSilently`).
* *Late edit.*  A file saved between the dirty check and the deletion is deleted
  (`Deaths` with `EditsAnyTime` TRUE: `NothingUnsavedIsLost`; `Files` without
  `FilesStay`: `DeletedIsRecoverable`).
* *Base is a snapshot.*  Checking out a snapshot makes it the base, contrary to
  `Head.Base` (`Commands` with `"checkout"`: `BaseIsDeliberate`).  So does a head
  without a base, as older versions wrote it.
* *Clear and restore.*  The dirty check asks for contents, not for their paths:
  a file that was moved, copied or deleted is clean, and restore puts back the
  old arrangement.
* *Collected after the check.*  What the dirty check has confirmed may be of a
  snapshot that expires and is collected before the files are deleted (`Files`
  without `ObjectsStay`: `DeletedIsRecoverable`).
* *Unmounted after the check.*  When the share goes after the head was confirmed,
  an empty store has no refs, all files count as unversioned, the automatic
  snapshot goes to the mount point, and the second check confirms it there
  (`Files` without `ShareStays`: `DeletedIsRecoverable`).
* *Unmounted before the first version.*  `confirmStoreHoldsHead` asks nothing of a
  space without a head (`client/dirty.go:119`).  When such a space runs a clear or a
  checkout while the share is away, the snapshot and the check both go to the mount
  point, and the files are deleted; the comment above the function describes this
  loss as what it prevents.  A version recorded by hand while the share is away has
  the same effect on a later clear (`Files` without `ShareIsThere`:
  `DeletedIsRecoverable`).
* *Mtimes that lie.*  A clock that jumps, a tool that preserves timestamps or a coarse
  share gives other content of the same size an mtime the cache knows: status shows
  no change and the next record publishes the old content.  `client/cache.go:37` and
  `client/dirty.go:70` say so and accept it for status and automatic snapshots; a
  commit trusts the cache all the same (`Space` without `MtimesMove`:
  `VouchedIsTrue`, `RecordIsFaithful`).
* *Two takers.*  Two users find the same lock expired; the second replaces the
  first one's fresh lock without `--force`.
* *Late release.*  `Release` compares the owner and then removes by name; a lock
  transferred in between is removed.
* *Half a lock command.*  `lock` of several paths that fails at the second never
  reaches `rememberLocks` (`Deaths` with a pattern of two paths:
  `LocksAreRemembered`).  Nor does a `lock` whose write of `.fibula/held` fails do
  better than one that dies there; in the model that write succeeds.
* *Blank lock file.*  A death between `Create` and `Fill` leaves a file nobody can
  parse, take, release or list, and on which every status fails of a space that
  believes to hold the path.
* *Late commit.*  A lock taken between the check and the ref update stops nothing.
* *Put during the sweep.*  Garbage that is put again after it was listed is deleted
  although young; `gc.go:66` says an object written during the run survives
  (`NobodyRevives`).
* *Promotion against expiry.*  A promotion re-puts the version object, nothing
  below it (`PromotesKept`).
* *Equal times.*  `Retain` sorts by time only (`client/expiry.go:49`).  Two snapshots of
  one second keep the order of their names in lists of up to twelve, where `sort.Slice` is
  stable by the way it works; in longer ones two expirers with different lists
  may order them differently and each delete the other's.  `Newer` has them in the
  order of their names.
* *One dangling ref* fails every later `gc` and `expire`, since both read
  every version the refs name.
* *One timeline.*  Snapshots of all spaces thin each other out; the head of a
  space is no root of the collection, and the only copy of a cleared file can
  expire because somebody else took a snapshot within the hour.
* *Refused rename.*  `Put` takes a rename that fails for success when the object
  exists, which is the normal case on Windows while somebody reads it.  The object
  stays as old as it was, and a damaged one is not healed (`Files` without
  `NoRenameIsRefused`: `PutRenews`).
* *Unflushed directory.*  `Put` flushes the file but not its directory: a power
  loss may undo a put that has returned.  `AtomicObject` allows it.
* *Leftover temporary files.*  A client that dies between `CreateTemp` and `Rename`
  leaves a file in `tmp/` that no command looks for.
* *File objects are not hashed.*  `store/verify.go:89` leaves a file object's
  content to `VerifyFileContent`, which nothing calls.  A truncated one is
  refused (`CutFileIsRefused`), a well-formed wrong one is not: `AtomicObject` allows
  the answer `"other"` under a key that is not `Hashed`.  Manifests, whose keys are not
  either, are hashed by who reads them (`GetManifest`).
* *File for directory.*  When the other side replaces a file by a directory of
  its name, or the reverse, a sync's writes fail before the deletions that would
  make room, this time and every time.
* *Case.*  Where case does not count, a renaming from `A` to `a` is a write of `a`
  and then a deletion of `A`, which is the same file (`Store` with
  `CaseSensitive` FALSE: `ArrivesAtGoal`).
* *Negated directories.*  `client/ignore_test.go:27` has `exports/**` and
  `!exports/final/`, which `Match` honours.  On a walk the second line never
  counts: `**` stands for no segment too, so the first line matches the
  directory `exports` itself and the walk does not enter it.
* *Second spellings.*  A zero expiry or graph that is spelled out is read, and
  left out when written: two texts and two IDs for one version.  Fibula writes only
  one of them (`SpellsZero`).

The assumptions together: `OnlyOrphansAge`, `SoleBreaker` (ref store),
`NoRenameIsRefused` (object store), `Undisturbed`, `MtimesMove` (status cache),
`FilesStay`, `ObjectsStay`, `ShareStays`, `ShareIsThere` (dirty check),
`NobodyRevives`, `PromotesKept`, `CachesAreBacked` (collection), `~EditsAnyTime`,
`NothingExpiresInUse` and `Careful` (what commands destroy and revert), `Considerate`
(lock exclusion), `OneByOne` (what a user knows of his locks), `CaseSensitive` (sync
and checkout).  None of them is enforced by the code; most are bets on time.

## What is not modelled

* In `Workspace` and `Collector` the status cache: `Workspace` compares contents,
  `Collector` has the cache as one bit per space; `StatusCache` has the whole.
* `Put`'s own steps outside `ObjectStore`: everywhere else an object appears whole
  or not at all.
* More refs than `main` in `Workspace`, and with them switching `head.Ref`.
* The scan of a directory is one step in `Workspace`; in `StatusCache` it is one
  step per file.
* Conflict copies under `.fibula/conflicts`: only `status` reads them.  The
  report of a conflict is a part of `touched`.
* Graph and signature objects, which no command writes yet, and the derivation of
  identifiers from hashes: identity is equality of contents.
* What `path.Match` does within one name.
* A change of `.fibulaignore` between two attempts of one sync: `Ignored` is fixed.
* The walk of a collection (`client/gc.go:166`) is one step of `Collector`, though it
  reads ref after ref and object after object.  What is put or published meanwhile is
  young; a version that is promoted after the names under `promoted/` were listed, and
  whose snapshot expires before the listing gets there, is met by neither.
* In `RefStore` an `os.Stat` or `os.Remove` of a leftover that fails for another
  reason than that the file is gone: the caller waits as it does for a young lock.
* The store's settings file, the storage budget, read-only attributes, reasons
  and times of locks, the texts of the command line.
* `Get` and `List` of the ref store: one read of one file, no state.
* `Version.Expiry` decides nothing: `checkout` and the list of snapshots print
  it, `Expire` uses the schedule.
* In `Collector` the sync's three-way merge is reduced to one asset (either the
  directory has it as the base has it, or it is kept), and of checkout and clear
  nothing is modelled: they put what a snapshot puts.
* Sums of chunk lengths that overflow 64 bits (`object/file.go:117`): the numbers
  of `ObjectText` are small.

## The plan

Done, in this order: `AtomicRef`, `RefStore` and its proofs; `Merge` and its
proofs; `LinearHistory`, `Workspace`; `Locks` and its proofs; `Collector`;
`StatusCache`; `Schedule`, `Retention`; `Splitter`; `DirtyCheck`; `AtomicObject`,
`ObjectStore`; `TreeUpdate`; `Ignore`; `ObjectText`;
`CollectorProofs`, `StatusCacheProofs`, `WorkspaceProofs`, `DeletionProofs`,
`ContentProofs`.

Left, and left to TLC: the liveness properties (*Model-checked only* above).

-------------------------------- MODULE Locks --------------------------------
(***************************************************************************)
(* Pessimistic file locks: the lock files under locks/ in the store        *)
(* (src/store/fs/locks.go) and the commands that take, give up, honour and *)
(* report them (src/client/locks.go, src/client/lockstate.go), one file    *)
(* system call on a lock file per step.  Locking is switched on.           *)
(*                                                                         *)
(* Each space has its own user, who is the owner of the locks it takes,    *)
(* and runs one command at a time.  Of what a user works on only this is   *)
(* kept: which paths the next commit would publish, and which of them the  *)
(* lock check can tell from the checked-out manifest.                      *)
(***************************************************************************)
EXTENDS Naturals

CONSTANTS
    Spaces,         \* the spaces, each with its own user
    Paths,          \* manifest paths; files are dealt with in path order
    Patterns,       \* the sets of paths that lock and unlock are called with
    Commands,       \* the commands the users run
    Expiring,       \* TRUE: locks may reach the expiry of the project settings
    DiesIn,         \* the steps in which a command may die
    Free            \* there is no lock file

AllCommands ==
    {"lock", "lock --force", "unlock", "unlock --force", "commit", "snapshot", "status"}

Steps == {"acquire", "fill", "inspect", "transfer", "replace",
          "release", "compare", "delete", "forget", "publish"}

ASSUME FreeAssumption == Free \notin Spaces
ASSUME PathAssumption == Paths \subseteq Nat
ASSUME PatternAssumption == Patterns \subseteq SUBSET Paths
ASSUME ScopeAssumption ==
    Commands \subseteq AllCommands /\ DiesIn \subseteq Steps /\ Expiring \in BOOLEAN

VARIABLES
    lock,       \* lock[p]: who created the lock file of p, Free without one
    state,      \* state[p]: what is in it: nothing yet, a live lock, or one
                \* that is older than the expiry
    held,       \* held[s]: .fibula/held, what s believes it holds
    changed,    \* changed[s]: the paths the next commit of s publishes
    unseen,     \* unseen[s]: the paths that differ from the checked-out manifest
    pc,         \* pc[s]: what the command running in s does next
    job         \* job[s]: the paths it has to do, has done, and how

files == <<lock, state>>
work == <<changed, unseen>>
vars == <<files, held, work, pc, job>>

Job(todo, done, force, owner) ==
    [todo |-> todo, done |-> done, force |-> force, owner |-> owner]

NoJob == Job({}, {}, FALSE, Free)

TypeOK ==
    /\ lock \in [Paths -> Spaces \cup {Free}]
    /\ state \in [Paths -> {"blank", "live", "expired"}]
    /\ held \in [Spaces -> SUBSET Paths]
    /\ changed \in [Spaces -> SUBSET Paths]
    /\ unseen \in [Spaces -> SUBSET Paths]
    /\ pc \in [Spaces -> {"idle"} \cup Steps]
    /\ job \in [Spaces -> [todo : SUBSET Paths, done : SUBSET Paths,
                           force : BOOLEAN, owner : Spaces \cup {Free}]]
    /\ \A s \in Spaces : job[s].todo \cap job[s].done = {}

Init ==
    /\ lock = [p \in Paths |-> Free]
    /\ state = [p \in Paths |-> "live"]
    /\ held = [s \in Spaces |-> {}]
    /\ changed = [s \in Spaces |-> {}]
    /\ unseen = [s \in Spaces |-> {}]
    /\ pc = [s \in Spaces |-> "idle"]
    /\ job = [s \in Spaces |-> NoJob]

------------------------------------------------------------------------------

Goto(s, from, to) == pc[s] = from /\ pc' = [pc EXCEPT ![s] = to]

Finish(s) ==
    /\ pc' = [pc EXCEPT ![s] = "idle"]
    /\ job' = [job EXCEPT ![s] = NoJob]

(* p is the path the command in s is dealing with. *)
At(s, p) == p \in job[s].todo /\ \A q \in job[s].todo : p <= q

(* Mutant of Done: the path is reported and tried again. *)
DoneAgain(s, p) ==
    job' = [job EXCEPT ![s] = Job(@.todo, @.done \cup {p}, @.force, @.owner)]

(* The command is through with p. *)
Done(s, p) ==
    job' = [job EXCEPT ![s] =
               Job(@.todo \ {p}, @.done \cup {p}, @.force, @.owner)]

PutLock(p, owner, content) ==
    /\ lock' = [lock EXCEPT ![p] = owner]
    /\ state' = [state EXCEPT ![p] = content]

RemoveFile(p) == PutLock(p, Free, "live")

(* Get succeeds: there is a lock file, and it can be parsed. *)
Readable(p) == lock[p] # Free /\ state[p] # "blank"

(* LockedBySomeoneElse: live locks of others; List skips what it cannot    *)
(* parse.                                                                  *)
Foreign(s) == {p \in Paths : lock[p] \notin {s, Free} /\ state[p] = "live"}

------------------------------------------------------------------------------
(* lock                                                                    *)

StartLock(s) ==
    /\ Goto(s, "idle", "acquire")
    /\ \E ps \in Patterns, f \in BOOLEAN :
          /\ (IF f THEN "lock --force" ELSE "lock") \in Commands
          /\ job' = [job EXCEPT ![s] = Job(ps, {}, f, Free)]
    /\ UNCHANGED <<files, held, work>>

(* Mutant of Create: the flag O_EXCL is forgotten. *)
CreateShared(s, p) ==
    /\ At(s, p)
    /\ Goto(s, "acquire", "fill")
    /\ PutLock(p, s, "blank")
    /\ UNCHANGED <<held, work, job>>

(* Acquire: O_CREATE|O_EXCL ... *)
Create(s, p) ==
    /\ At(s, p)
    /\ lock[p] = Free
    /\ Goto(s, "acquire", "fill")
    /\ PutLock(p, s, "blank")
    /\ UNCHANGED <<held, work, job>>

(* ... then owner and time are written into the open file.  If somebody    *)
(* has deleted or replaced it meanwhile nothing of that can be seen.       *)
Fill(s, p) ==
    /\ At(s, p)
    /\ Goto(s, "fill", "acquire")
    /\ IF lock[p] = s THEN PutLock(p, s, "live") ELSE UNCHANGED files
    /\ Done(s, p)
    /\ UNCHANGED <<held, work>>

(* The write fails, the file is removed, the whole command fails. *)
FillFails(s, p) ==
    /\ At(s, p)
    /\ pc[s] = "fill"
    /\ RemoveFile(p)
    /\ Finish(s)
    /\ UNCHANGED <<held, work>>

(* The lock file is there already. *)
Exists(s, p) ==
    /\ At(s, p)
    /\ lock[p] # Free
    /\ Goto(s, "acquire", "inspect")
    /\ UNCHANGED <<files, held, work, job>>

(* lockOne: a lock that has expired, or any with --force, is taken over. *)
MayTransfer(s, p) ==
    /\ At(s, p)
    /\ Readable(p)
    /\ job[s].force \/ state[p] = "expired"
    /\ Goto(s, "inspect", "transfer")
    /\ UNCHANGED <<files, held, work, job>>

(* Any other lock stops the command, the caller's own included; so does a  *)
(* lock that is gone by now, or cannot be parsed.                          *)
Refused(s, p) ==
    /\ At(s, p)
    /\ pc[s] = "inspect"
    /\ ~(Readable(p) /\ (job[s].force \/ state[p] = "expired"))
    /\ Finish(s)
    /\ UNCHANGED <<files, held, work>>

(* Transfer reads the lock once more, for the name of the loser, *)
Transfer(s, p) ==
    /\ At(s, p)
    /\ Readable(p)
    /\ Goto(s, "transfer", "replace")
    /\ UNCHANGED <<files, held, work, job>>

TransferFails(s, p) ==
    /\ At(s, p)
    /\ ~Readable(p)
    /\ pc[s] = "transfer"
    /\ Finish(s)
    /\ UNCHANGED <<files, held, work>>

(* and renames a new file over whatever is there. *)
Replace(s, p) ==
    /\ At(s, p)
    /\ Goto(s, "replace", "acquire")
    /\ PutLock(p, s, "live")
    /\ Done(s, p)
    /\ UNCHANGED <<held, work>>

(* Mutant of Remember: rememberLocks overwrites the list. *)
RememberOnly(s) ==
    /\ pc[s] = "acquire"
    /\ job[s].todo = {}
    /\ held' = [held EXCEPT ![s] = job[s].done]
    /\ Finish(s)
    /\ UNCHANGED <<files, work>>

(* rememberLocks, once every path is taken and only then *)
Remember(s) ==
    /\ pc[s] = "acquire"
    /\ job[s].todo = {}
    /\ held' = [held EXCEPT ![s] = @ \cup job[s].done]
    /\ Finish(s)
    /\ UNCHANGED <<files, work>>

------------------------------------------------------------------------------
(* unlock                                                                  *)

StartUnlock(s) ==
    /\ Goto(s, "idle", "release")
    /\ \E ps \in Patterns, f \in BOOLEAN :
          /\ (IF f THEN "unlock --force" ELSE "unlock") \in Commands
          /\ job' = [job EXCEPT ![s] = Job(ps, {}, f, Free)]
    /\ UNCHANGED <<files, held, work>>

(* A path without a readable lock is passed over. *)
SkipFree(s, p) ==
    /\ At(s, p)
    /\ pc[s] = "release"
    /\ ~Readable(p)
    /\ job' = [job EXCEPT ![s] = Job(@.todo \ {p}, @.done, @.force, @.owner)]
    /\ UNCHANGED <<files, held, work, pc>>

(* The lock is released in its owner's name: the caller's, or with --force *)
(* whoever holds it.                                                       *)
Claim(s, p) ==
    /\ At(s, p)
    /\ Readable(p)
    /\ Goto(s, "release", "compare")
    /\ LET owner == IF job[s].force THEN lock[p] ELSE s
       IN  job' = [job EXCEPT ![s] = Job(@.todo, @.done, @.force, owner)]
    /\ UNCHANGED <<files, held, work>>

(* Release reads the lock again and compares the owner.  A lock that is    *)
(* gone counts as released; one of somebody else ends the command.         *)
ReleaseOwned(s, p) ==
    /\ At(s, p)
    /\ Readable(p)
    /\ lock[p] = job[s].owner
    /\ Goto(s, "compare", "delete")
    /\ UNCHANGED <<files, held, work, job>>

ReleaseGone(s, p) ==
    /\ At(s, p)
    /\ lock[p] = Free
    /\ Goto(s, "compare", "release")
    /\ Done(s, p)
    /\ UNCHANGED <<files, held, work>>

ReleaseRefused(s, p) ==
    /\ At(s, p)
    /\ lock[p] # Free
    /\ ~(Readable(p) /\ lock[p] = job[s].owner)
    /\ pc[s] = "compare"
    /\ Finish(s)
    /\ UNCHANGED <<files, held, work>>

(* os.Remove deletes the lock file that is there now. *)
RemoveLock(s, p) ==
    /\ At(s, p)
    /\ Goto(s, "delete", "release")
    /\ RemoveFile(p)
    /\ Done(s, p)
    /\ UNCHANGED <<held, work>>

(* forgetLocks, once every path is released *)
ForgetFreed(s) ==
    /\ pc[s] = "release"
    /\ job[s].todo = {}
    /\ held' = [held EXCEPT ![s] = @ \ job[s].done]
    /\ Finish(s)
    /\ UNCHANGED <<files, work>>

------------------------------------------------------------------------------
(* status                                                                  *)

Lost(s) == {p \in held[s] : lock[p] # s}

(* LostLocks: what s believes it holds is compared with the store and the  *)
(* difference printed.  One lock file that cannot be parsed fails it all.  *)
StatusFinds(s) ==
    /\ "status" \in Commands
    /\ \A p \in held[s] : state[p] # "blank"
    /\ Lost(s) # {}
    /\ Goto(s, "idle", "forget")
    /\ job' = [job EXCEPT ![s] = Job({}, Lost(s), FALSE, Free)]
    /\ UNCHANGED <<files, held, work>>

(* Mutant of ForgetLost: the printed losses stay in the list. *)
ForgetNothing(s) ==
    /\ pc[s] = "forget"
    /\ Finish(s)
    /\ UNCHANGED <<files, held, work>>

(* ForgetLostLocks: what was printed is not printed again. *)
ForgetLost(s) ==
    /\ pc[s] = "forget"
    /\ held' = [held EXCEPT ![s] = @ \ job[s].done]
    /\ Finish(s)
    /\ UNCHANGED <<files, work>>

------------------------------------------------------------------------------
(* edit, snapshot and commit                                               *)

Edit(s, p) ==
    /\ {"commit", "snapshot"} \cap Commands # {}
    /\ p \notin unseen[s]
    /\ changed' = [changed EXCEPT ![s] = @ \cup {p}]
    /\ unseen' = [unseen EXCEPT ![s] = @ \cup {p}]
    /\ UNCHANGED <<files, held, pc, job>>

(* A snapshot asks no lock; it moves the checked-out manifest, not the     *)
(* version the next commit builds on.                                      *)
Snapshot(s) ==
    /\ "snapshot" \in Commands
    /\ pc[s] = "idle"
    /\ unseen' = [unseen EXCEPT ![s] = {}]
    /\ UNCHANGED <<files, held, changed, pc, job>>

(* checkLocksForCommit: none of the paths that differ from the checked-out *)
(* manifest is locked by somebody else.  Otherwise the commit is refused.  *)
CommitCheck(s) ==
    /\ "commit" \in Commands
    /\ unseen[s] \cap Foreign(s) = {}
    /\ Goto(s, "idle", "publish")
    /\ job' = [job EXCEPT ![s] = Job({}, changed[s], FALSE, Free)]
    /\ UNCHANGED <<files, held, work>>

(* What was scanned is published, and becomes base and checked-out. *)
CommitPublish(s) ==
    /\ pc[s] = "publish"
    /\ changed' = [changed EXCEPT ![s] = @ \ job[s].done]
    /\ unseen' = [unseen EXCEPT ![s] = @ \ job[s].done]
    /\ Finish(s)
    /\ UNCHANGED <<files, held>>

------------------------------------------------------------------------------

Expire(p) ==
    /\ Expiring
    /\ Readable(p)
    /\ state[p] = "live"
    /\ state' = [state EXCEPT ![p] = "expired"]
    /\ UNCHANGED <<lock, held, work, pc, job>>

Die(s) ==
    /\ pc[s] \in DiesIn
    /\ Finish(s)
    /\ UNCHANGED <<files, held, work>>

OnPath(s, p) ==
    \/ Create(s, p) \/ Fill(s, p) \/ FillFails(s, p)
    \/ Exists(s, p) \/ MayTransfer(s, p) \/ Refused(s, p)
    \/ Transfer(s, p) \/ TransferFails(s, p) \/ Replace(s, p)
    \/ SkipFree(s, p) \/ Claim(s, p)
    \/ ReleaseOwned(s, p) \/ ReleaseGone(s, p) \/ ReleaseRefused(s, p)
    \/ RemoveLock(s, p)

Step(s) ==
    \/ \E p \in Paths : OnPath(s, p)
    \/ Remember(s) \/ ForgetFreed(s) \/ ForgetLost(s) \/ CommitPublish(s)

Next ==
    \/ \E s \in Spaces :
          \/ StartLock(s) \/ StartUnlock(s) \/ StatusFinds(s)
          \/ CommitCheck(s) \/ Snapshot(s)
          \/ \E p \in Paths : Edit(s, p)
          \/ Step(s) \/ Die(s)
    \/ \E p \in Paths : Expire(p)

Spec == Init /\ [][Next]_vars

(* A running command goes on, and users look at the status again and again *)
(* until one of their lost locks is reported.  Now and then each of them   *)
(* is at rest while nobody is between creating a lock file and writing it. *)
AtRest(s) ==
    pc[s] = "idle" /\ \A p \in Paths : state[p] = "blank" => pc[lock[p]] # "fill"

Fairness ==
    \A s \in Spaces : WF_vars(Step(s)) /\ SF_vars(StatusFinds(s)) /\ []<>AtRest(s)

------------------------------------------------------------------------------
(* Without expiry and --force a lock excludes: whoever believes to hold a  *)
(* path does, so no two users do at once (lock.go: two people reaching for *)
(* the same file at the same moment must not both succeed).                *)
BelievedIsHeld ==
    \A s \in Spaces : \A p \in held[s] :
        \/ lock[p] = s /\ state[p] # "blank"
        \/ pc[s] \in {"release", "compare", "delete"} /\ p \in job[s].done

(* A lock that a finished command has left in the store is one its space   *)
(* remembers (client/locks.go: a failure partway through records exactly   *)
(* what was actually taken).  With several paths to a command the code     *)
(* does not keep this: a failure at a later path skips rememberLocks.      *)
TakenIsRemembered ==
    \A s \in Spaces, p \in Paths :
        pc[s] = "idle" /\ lock[p] = s /\ state[p] # "blank" => p \in held[s]

(* A loss does not stay unreported (lockstate.go, printLostLocks: the      *)
(* holder is told by the tool).                                            *)
LossIsNoticed ==
    \A s \in Spaces, p \in Paths :
        (p \in held[s] /\ lock[p] # s) ~> (p \notin held[s] \/ lock[p] = s)

(* A commit that passes the lock check publishes no path that somebody     *)
(* else holds at that moment (client/locks.go, checkLocksForCommit).       *)
CheckSeesEveryChange ==
    [][\A s \in Spaces :
          pc[s] = "idle" /\ pc'[s] = "publish" => changed[s] \cap Foreign(s) = {}]_vars

==============================================================================

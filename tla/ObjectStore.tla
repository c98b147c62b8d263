----------------------------- MODULE ObjectStore -----------------------------
(***************************************************************************)
(* The object store on a directory, src/store/fs/fs.go behind the verifier *)
(* of src/store/verify.go, for one key: Put, Get and Delete one file       *)
(* system call per step, by clients that may die at any of them, on a disk *)
(* that may lose what was not flushed to it.                               *)
(*                                                                         *)
(* A client puts the content that it has computed the key from, and it may *)
(* be cut short on the disk.  What a get has read is verified, by its hash *)
(* or, under the key of a file or a manifest, by parsing it.  The same     *)
(* steps replace the files under .fibula (client/space.go,                 *)
(* writeFileAtomic) and the project settings (store/fs/settings.go).       *)
(***************************************************************************)

CONSTANTS
    Clients,    \* whoever calls the store
    Hashed      \* whether the key is the hash of the object's bytes: a chunk, a version,
                \* a graph or a signature, not a file or a manifest

VARIABLES
    object,     \* the file at the key's path
    durable,    \* what a power loss may leave at that path
    temp,       \* temp[c]: the temporary file of c's put
    handle,     \* handle[c]: the file that c's get has opened
    pc,         \* pc[c]: the system call c makes next
    call,       \* call[c]: what c was asked to do
    answer,     \* answer[c]: what c's call will return, "none" until known
    renewed     \* renewed[c]: the object was written anew since c's call

disk == <<object, durable>>
vars == <<disk, temp, handle, pc, call, answer, renewed>>

(* A file: its content, and whether that is on the disk for good. *)
File(content, synced) == [content |-> content, synced |-> synced]

(* There is no file. *)
Missing == File("missing", TRUE)

(* What becomes of an object on a bad disk or in the hands of another      *)
(* program: it is no object any more, or it is another one, well-formed.   *)
Damaged == {"garbled", "other"}

AnyFile == [content : {"torn", "whole"} \cup Damaged, synced : BOOLEAN] \cup {Missing}

TypeOK ==
    /\ object \in AnyFile
    /\ durable \subseteq AnyFile /\ object \in durable
    /\ temp \in [Clients -> AnyFile] /\ handle \in [Clients -> AnyFile]
    /\ pc \in [Clients -> {"idle", "create", "write", "sync", "rename", "exists",
                           "open", "read", "remove", "return"}]
    /\ call \in [Clients -> {"none", "put", "get", "delete"}]
    /\ answer \in [Clients -> {"none", "ok", "failed", "missing", "data", "other", "corrupt"}]
    /\ renewed \in [Clients -> BOOLEAN]
    /\ \A c \in Clients :
          /\ temp[c] # Missing => pc[c] \in {"write", "sync", "rename"}
          /\ handle[c] # Missing => pc[c] = "read"
          /\ (answer[c] # "none") = (pc[c] = "return")

Init ==
    /\ object = Missing /\ durable = {Missing}
    /\ temp = [c \in Clients |-> Missing] /\ handle = [c \in Clients |-> Missing]
    /\ pc = [c \in Clients |-> "idle"]
    /\ call = [c \in Clients |-> "none"]
    /\ answer = [c \in Clients |-> "none"]
    /\ renewed = [c \in Clients |-> FALSE]

------------------------------------------------------------------------------

Goto(c, from, to) == pc[c] = from /\ pc' = [pc EXCEPT ![c] = to]

Write(c, file) == temp' = [temp EXCEPT ![c] = file]

Answer(c, what) ==
    /\ pc' = [pc EXCEPT ![c] = "return"]
    /\ answer' = [answer EXCEPT ![c] = what]

Call(c, what) ==
    /\ Goto(c, "idle", CASE what = "put" -> "create"
                         [] what = "get" -> "open"
                         [] what = "delete" -> "remove")
    /\ call' = [call EXCEPT ![c] = what]
    /\ UNCHANGED <<disk, temp, handle, answer, renewed>>

(* The call returns, or its process has died: a temporary file stays where *)
(* nobody looks for objects.                                               *)
Forget(c) ==
    /\ pc[c] # "idle"
    /\ pc' = [pc EXCEPT ![c] = "idle"]
    /\ call' = [call EXCEPT ![c] = "none"]
    /\ answer' = [answer EXCEPT ![c] = "none"]
    /\ temp' = [temp EXCEPT ![c] = Missing]
    /\ handle' = [handle EXCEPT ![c] = Missing]
    /\ renewed' = [renewed EXCEPT ![c] = FALSE]
    /\ UNCHANGED disk

------------------------------------------------------------------------------
(* Put                                                                     *)

(* os.CreateTemp *)
CreateTemp(c) ==
    /\ Goto(c, "create", "write")
    /\ Write(c, File("torn", FALSE))
    /\ UNCHANGED <<disk, handle, call, answer, renewed>>

WriteTemp(c) ==
    /\ Goto(c, "write", "sync")
    /\ Write(c, File("whole", FALSE))
    /\ UNCHANGED <<disk, handle, call, answer, renewed>>

(* Mutant of SyncTemp: "the flush is not optional". *)
SyncLater(c) ==
    /\ Goto(c, "sync", "rename")
    /\ UNCHANGED <<disk, temp, handle, call, answer, renewed>>

SyncTemp(c) ==
    /\ Goto(c, "sync", "rename")
    /\ Write(c, File("whole", TRUE))
    /\ UNCHANGED <<disk, handle, call, answer, renewed>>

(* Any of it fails; the temporary file is removed. *)
PutFails(c) ==
    /\ pc[c] \in {"create", "write", "sync"}
    /\ Answer(c, "failed")
    /\ Write(c, Missing)
    /\ UNCHANGED <<disk, handle, call, renewed>>

(* Mutant of Rename: an object that is there is not replaced. *)
RenameIfMissing(c) ==
    /\ pc[c] = "rename"
    /\ object' = IF object = Missing THEN temp[c] ELSE object
    /\ durable' = durable \cup {object'}
    /\ renewed' = IF object = Missing THEN [d \in Clients |-> pc[d] # "idle"] ELSE renewed
    /\ Answer(c, "ok")
    /\ Write(c, Missing)
    /\ UNCHANGED <<handle, call>>

(* os.Rename replaces whatever is there in one step.  The directory is not *)
(* flushed.                                                                *)
Rename(c) ==
    /\ pc[c] = "rename"
    /\ object' = temp[c]
    /\ durable' = durable \cup {temp[c]}
    /\ renewed' = [d \in Clients |-> pc[d] # "idle"]
    /\ Answer(c, "ok")
    /\ Write(c, Missing)
    /\ UNCHANGED <<handle, call>>

(* Mutant of RenameFails: the temporary file is left behind. *)
RenameFailsMessily(c) ==
    /\ Goto(c, "rename", "exists")
    /\ UNCHANGED <<disk, temp, handle, call, answer, renewed>>

(* It fails; on Windows onto a file that somebody has open. *)
RenameFails(c) ==
    /\ Goto(c, "rename", "exists")
    /\ Write(c, Missing)
    /\ UNCHANGED <<disk, handle, call, answer, renewed>>

(* "Both mean the same thing here: somebody already stored this exact      *)
(* content."                                                               *)
PutExists(c) ==
    /\ pc[c] = "exists"
    /\ Answer(c, IF object # Missing THEN "ok" ELSE "failed")
    /\ UNCHANGED <<disk, temp, handle, call, renewed>>

------------------------------------------------------------------------------
(* Get and Delete                                                          *)

Open(c) ==
    /\ object # Missing
    /\ Goto(c, "open", "read")
    /\ handle' = [handle EXCEPT ![c] = object]
    /\ UNCHANGED <<disk, temp, call, answer, renewed>>

NotFound(c) ==
    /\ object = Missing
    /\ pc[c] = "open"
    /\ Answer(c, "missing")
    /\ UNCHANGED <<disk, temp, handle, call, renewed>>

(* Mutant of Verdict: the object of a file is not even parsed. *)
VerdictUnparsed(content) ==
    CASE content = "whole" -> "data"
      [] content # "whole" /\ ~Hashed -> "other"
      [] OTHER -> "corrupt"

(* What Verify makes of the bytes: it compares their hash with the key, or *)
(* only parses them, as the key of a file or a manifest is the hash of the *)
(* content that the object lists the chunks of.  That catches truncation   *)
(* and garbage.  It "does not prove that the object is the one belonging   *)
(* to the FileID".                                                         *)
Verdict(content) ==
    CASE content = "whole" -> "data"
      [] content = "other" /\ ~Hashed -> "other"
      [] OTHER -> "corrupt"

(* The opened file is read to its end, whatever becomes of the path, and   *)
(* verified.                                                               *)
Read(c) ==
    /\ pc[c] = "read"
    /\ Answer(c, Verdict(handle[c].content))
    /\ handle' = [handle EXCEPT ![c] = Missing]
    /\ UNCHANGED <<disk, temp, call, renewed>>

(* os.Remove; an object that is gone already is no error. *)
Remove(c) ==
    /\ pc[c] = "remove"
    /\ object' = Missing
    /\ durable' = durable \cup {Missing}
    /\ Answer(c, "ok")
    /\ UNCHANGED <<temp, handle, call, renewed>>

AccessFails(c) ==
    /\ pc[c] \in {"open", "remove"}
    /\ Answer(c, "failed")
    /\ UNCHANGED <<disk, temp, handle, call, renewed>>

------------------------------------------------------------------------------
(* The disk                                                                *)

(* A content that is not flushed comes back torn or whole. *)
AfterPowerLoss(file) ==
    IF file.synced THEN {file}
    ELSE {File("torn", TRUE), File("whole", TRUE)}

(* The machine is switched off, and with it everybody who was using it. *)
PowerLoss ==
    /\ object' \in UNION {AfterPowerLoss(file) : file \in durable}
    /\ durable' = {object'}
    /\ temp' = [c \in Clients |-> Missing] /\ handle' = [c \in Clients |-> Missing]
    /\ pc' = [c \in Clients |-> "idle"]
    /\ call' = [c \in Clients |-> "none"]
    /\ answer' = [c \in Clients |-> "none"]
    /\ renewed' = [c \in Clients |-> FALSE]

(* The directory reaches the disk by itself. *)
Flush ==
    /\ durable # {object}
    /\ durable' = {object}
    /\ UNCHANGED <<object, temp, handle, pc, call, answer, renewed>>

(* The object is damaged on the disk, or by somebody who writes to the     *)
(* store directory himself.  A file that is being read is left alone.      *)
Damage ==
    /\ object # Missing
    /\ object' \in {File(content, TRUE) : content \in Damaged \ {object.content}}
    /\ durable' = durable \cup {object'}
    /\ UNCHANGED <<temp, handle, pc, call, answer, renewed>>

Step(c) ==
    \/ CreateTemp(c) \/ WriteTemp(c) \/ SyncTemp(c) \/ PutFails(c)
    \/ Rename(c) \/ RenameFails(c) \/ PutExists(c)
    \/ Open(c) \/ NotFound(c) \/ Read(c) \/ Remove(c) \/ AccessFails(c)
    \/ Forget(c)

Next ==
    \/ \E c \in Clients :
          \/ \E what \in {"put", "get", "delete"} : Call(c, what)
          \/ Step(c)
    \/ PowerLoss \/ Flush \/ Damage

Spec == Init /\ [][Next]_vars

(* What a rename fails on is not the object that it would replace. *)
NoRenameIsRefused == \A c \in Clients : RenameFails(c) => object = Missing

CarefulSpec == Init /\ [][Next /\ NoRenameIsRefused]_vars

------------------------------------------------------------------------------

(* A put that reports success has the object written anew, by itself or by *)
(* another put since it was called: the object is young for the grace      *)
(* period, and a damaged one is healed (fs.go, Put is idempotent; gc.go    *)
(* relies on the age).                                                     *)
PutRenews == \A c \in Clients : call[c] = "put" /\ answer[c] = "ok" => renewed[c]

(* What the caller of c's call sees: a get is answered by the file it has   *)
(* opened. *)
StatusOf(c) ==
    CASE pc[c] = "idle" -> "idle"
      [] pc[c] = "return" -> answer[c]
      [] pc[c] = "read" -> Verdict(handle[c].content)
      [] OTHER -> "pending"

(* The store implements AtomicObject: a get answers from the file it has   *)
(* opened, a put with its rename, and what is at an object's path is whole *)
(* unless the disk has damaged it, through crashes and power losses at any *)
(* step of any put (fs.go, Put: never a partial one; the flush is not      *)
(* optional).  Damage is reported (verify.go, Get), with the exception     *)
(* that AtomicObject names.                                                *)
Register == INSTANCE AtomicObject WITH
    value <- object.content,
    past <- {file.content : file \in durable},
    status <- [c \in Clients |-> StatusOf(c)]

RefinesAtomicObject == Register!Spec

==============================================================================

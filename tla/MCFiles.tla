------------------------------- MODULE MCFiles -------------------------------
(* The files of the store, a part at a time: the first state chooses the    *)
(* part that moves, the others stay in an initial state.  RefStore is the   *)
(* file of a ref, ObjectStore that of an object, and DirtyCheck finds out   *)
(* whether a file of a space is in the store before it is deleted.          *)
EXTENDS RefStore, TLC

CONSTANTS a1, a2, b1, A, B, v1, c, Absent

VARIABLES
    part,
    oObject, oDurable, oTemp, oHandle, oPc, oCall, oAnswer, oRenewed,
    dDir, dCached, dHead, dVersions, dStores, dAt, dPc, dJob

oVars == <<oObject, oDurable, oTemp, oHandle, oPc, oCall, oAnswer, oRenewed>>
dVars == <<dDir, dCached, dHead, dVersions, dStores, dAt, dPc, dJob>>

(* RefStore: two goroutines in one process and one in another.  A third     *)
(* process adds nothing a restarted one does not do.                        *)
MCProcessOf == (a1 :> A) @@ (a2 :> A) @@ (b1 :> B)

MCEveryRequest ==
    [kind : {"cas"}, old : Versions \cup {Nil}, next : Versions] \cup [kind : {"delete"}]

(* ObjectStore: one key and two clients.  The key of a file is the harder   *)
(* case: under a key that is hashed, "other" is as good as "garbled".       *)
O == INSTANCE ObjectStore WITH
    Clients <- {a1, b1}, Hashed <- FALSE,
    object <- oObject, durable <- oDurable, temp <- oTemp, handle <- oHandle,
    pc <- oPc, call <- oCall, answer <- oAnswer, renewed <- oRenewed

(* DirtyCheck: two paths and one content. *)
Check == INSTANCE DirtyCheck WITH
    Paths <- 1 .. 2, Files <- {{c}}, Ignored <- {}, MaxVersions <- 3,
    dir <- dDir, cached <- dCached, head <- dHead, versions <- dVersions,
    stores <- dStores, at <- dAt, pc <- dPc, job <- dJob

PartsInit ==
    /\ part \in {"ref", "object", "check"}
    /\ Init /\ O!Init /\ Check!Init

PartsNext ==
    \/ part = "ref" /\ CarefulNext /\ UNCHANGED <<part, oVars, dVars>>
    \/ part = "object" /\ O!Next /\ O!NoRenameIsRefused /\ UNCHANGED <<part, vars, dVars>>
    \/ /\ part = "check" /\ Check!Next /\ UNCHANGED <<part, vars, oVars>>
       /\ Check!Careful

PartsSpec == PartsInit /\ [][PartsNext]_<<part, vars, oVars, dVars>>

(* The types of the other parts' variables; a put that has returned,        *)
(* whatever went wrong, has removed its temporary file (store/fs/fs.go,     *)
(* writeTemp).                                                              *)
PartsTypeOK ==
    CASE part = "object" -> O!TypeOK
      [] part = "check" -> Check!TypeOK
      [] OTHER -> TRUE

(* A put that reports success leaves an object written since it was called  *)
(* (store/fs/fs.go, Put; client/gc.go relies on the age).                   *)
PutRenews == part = "object" => O!PutRenews

(* The object store implements AtomicObject.                                *)
RefinesAtomicObject == O!RefinesAtomicObject

(* What a clear or a checkout deletes can be brought back (client/dirty.go) *)
DeletedIsRecoverable == Check!DeletedIsRecoverable

==============================================================================

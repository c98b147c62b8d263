---------------------------- MODULE ContentProofs ----------------------------
(***************************************************************************)
(* The way of a file into the store, for instances of any size: where      *)
(* Splitter cuts it, in which text ObjectText puts what is recorded of it, *)
(* and how ObjectStore writes and keeps the objects.                       *)
(*                                                                         *)
(* Cutter and Texts are the components that are proved about beside the    *)
(* object store.  They have their own constants and variables; what is     *)
(* assumed of the constants is CutterConstants and TextConstants.          *)
(***************************************************************************)
EXTENDS ObjectStore, Naturals, Sequences, FiniteSets, FiniteSetTheorems,
        SequenceTheorems, WellFoundedInduction, TLAPS

CONSTANTS
    Byte, Zero, Window, Table, Configs, MaxInput,           \* of Splitter
    Ids, Times, SecondOf, Numbers, Objects, Tokens, MaxEdits, Refused, \* of ObjectText
    Characters                                              \* what else texts consist of

VARIABLES
    input, params, read, buf, emitted, eof, refs, state,    \* of Splitter
    written, text, edits                                    \* of ObjectText

Cutter == INSTANCE Splitter

Texts == INSTANCE ObjectText WITH object <- written

------------------------------------------------------------------------------
(* The object store.                                                       *)

(* What can be at the path of an object: it was flushed before it got      *)
(* there. *)
Stored == {File(content, TRUE) : content \in {"missing", "whole"} \cup Damaged}

(* No name leads to a file that is not whole, before and after a power     *)
(* loss, and what a rename gives a name to is a whole one.                 *)
StoredIsWhole ==
    /\ durable \subseteq Stored
    /\ \A c \in Clients :
          /\ pc[c] = "rename" => temp[c] = File("whole", TRUE)
          /\ pc[c] = "read" => handle[c] \in Stored \ {Missing}

StoreInv == TypeOK /\ StoredIsWhole

Points == {"idle", "create", "write", "sync", "rename", "exists", "open", "read", "remove",
           "return"}

(* The conditions of TypeOK and StoredIsWhole on one client. *)
ClientFits(t, h, at, a) ==
    /\ t \in AnyFile /\ h \in AnyFile /\ at \in Points
    /\ a \in {"none", "ok", "failed", "missing", "data", "other", "corrupt"}
    /\ t # Missing => at \in {"write", "sync", "rename"}
    /\ h # Missing => at = "read"
    /\ (a # "none") = (at = "return")
    /\ at = "rename" => t = File("whole", TRUE)
    /\ at = "read" => h \in Stored \ {Missing}

LEMMA FilesDiffer ==
    /\ \A x, y, s, t : File(x, s) = File(y, t) => x = y /\ s = t
    /\ \A x, s : File(x, s).content = x /\ File(x, s).synced = s
    /\ Missing \in Stored /\ Missing \in AnyFile /\ Stored \subseteq AnyFile
  <1>1. \A x, s : File(x, s).content = x /\ File(x, s).synced = s
    BY DEF File
  <1>2. \A x, y, s, t : File(x, s) = File(y, t) => x = y /\ s = t
    BY <1>1
  <1>3. Missing \in Stored /\ Missing \in AnyFile /\ Stored \subseteq AnyFile
    <2>1. Missing \in Stored /\ Missing \in AnyFile
      BY DEF Missing, Stored, AnyFile
    <2>2. \A x \in {"whole"} \cup Damaged : File(x, TRUE) \in AnyFile
      BY DEF AnyFile, File
    <2>3. \A file \in Stored :
              file = Missing \/ \E x \in {"whole"} \cup Damaged : file = File(x, TRUE)
      BY DEF Stored, Missing
    <2>4. QED
      BY <2>1, <2>2, <2>3
  <1>4. QED
    BY <1>1, <1>2, <1>3

LEMMA EveryClientFits ==
    ASSUME StoreInv, NEW c \in Clients
    PROVE  ClientFits(temp[c], handle[c], pc[c], answer[c])
    BY DEF StoreInv, TypeOK, StoredIsWhole, ClientFits, Points

(* A step of one client keeps the invariant if it keeps its own part, and  *)
(* what it leaves at the path is flushed. *)
LEMMA ClientStep ==
    ASSUME StoreInv, NEW c \in Clients, NEW t, NEW h, NEW at, NEW a, NEW what,
           temp' = [temp EXCEPT ![c] = t], handle' = [handle EXCEPT ![c] = h],
           pc' = [pc EXCEPT ![c] = at], answer' = [answer EXCEPT ![c] = a],
           call' = [call EXCEPT ![c] = what], what \in {"none", "put", "get", "delete"},
           renewed' \in [Clients -> BOOLEAN],
           ClientFits(t, h, at, a),
           object' \in durable', durable' \subseteq Stored
    PROVE  StoreInv'
  <1>1. /\ temp' \in [Clients -> AnyFile] /\ handle' \in [Clients -> AnyFile]
        /\ pc' \in [Clients -> Points]
        /\ call' \in [Clients -> {"none", "put", "get", "delete"}]
        /\ answer' \in [Clients -> {"none", "ok", "failed", "missing", "data", "other", "corrupt"}]
    BY DEF StoreInv, TypeOK, ClientFits, Points
  <1>2. ASSUME NEW d \in Clients
        PROVE  ClientFits(temp'[d], handle'[d], pc'[d], answer'[d])
    BY EveryClientFits DEF StoreInv, TypeOK
  <1>3. object' \in AnyFile /\ durable' \subseteq AnyFile
    BY FilesDiffer
  <1>4. TypeOK'
    BY <1>1, <1>2, <1>3 DEF TypeOK, ClientFits, Points
  <1>5. StoredIsWhole'
    BY <1>2 DEF StoredIsWhole, ClientFits
  <1>6. QED
    BY <1>4, <1>5 DEF StoreInv

LEMMA QuietStep ==
    ASSUME StoreInv, NEW c \in Clients, NEW t, NEW h, NEW at, NEW a,
           temp' = [temp EXCEPT ![c] = t], handle' = [handle EXCEPT ![c] = h],
           pc' = [pc EXCEPT ![c] = at], answer' = [answer EXCEPT ![c] = a],
           UNCHANGED <<disk, call, renewed>>, ClientFits(t, h, at, a)
    PROVE  StoreInv'
  <1>1. call' = [call EXCEPT ![c] = call[c]] /\ call[c] \in {"none", "put", "get", "delete"}
    BY DEF StoreInv, TypeOK
  <1>2. /\ renewed' \in [Clients -> BOOLEAN]
        /\ object' \in durable' /\ durable' \subseteq Stored
    BY DEF StoreInv, TypeOK, StoredIsWhole, disk
  <1>3. QED
    BY <1>1, <1>2, ClientStep

(* The steps of one client. *)
LEMMA StoreCall ==
    ASSUME StoreInv, NEW c \in Clients, NEW what \in {"put", "get", "delete"}, Call(c, what)
    PROVE  StoreInv'
  <1> DEFINE at == CASE what = "put" -> "create"
                     [] what = "get" -> "open"
                     [] what = "delete" -> "remove"
  <1>1. /\ pc[c] = "idle" /\ pc' = [pc EXCEPT ![c] = at] /\ call' = [call EXCEPT ![c] = what]
        /\ UNCHANGED <<disk, temp, handle, answer, renewed>>
    BY DEF Call, Goto
  <1>2. at \in {"create", "open", "remove"}
    OBVIOUS
  <1> HIDE DEF at
  <1>3. /\ temp' = [temp EXCEPT ![c] = temp[c]] /\ handle' = [handle EXCEPT ![c] = handle[c]]
        /\ answer' = [answer EXCEPT ![c] = answer[c]]
    BY <1>1 DEF StoreInv, TypeOK
  <1>4. ClientFits(temp[c], handle[c], at, answer[c])
    BY <1>1, <1>2, EveryClientFits DEF ClientFits, Points
  <1>5. /\ renewed' \in [Clients -> BOOLEAN]
        /\ object' \in durable' /\ durable' \subseteq Stored
    BY <1>1 DEF StoreInv, TypeOK, StoredIsWhole, disk
  <1>6. QED
    BY <1>1, <1>3, <1>4, <1>5, ClientStep

LEMMA StoreForget ==
    ASSUME StoreInv, NEW c \in Clients, Forget(c)
    PROVE  StoreInv'
  <1>1. ClientFits(Missing, Missing, "idle", "none")
    BY FilesDiffer DEF ClientFits, Points
  <1>2. /\ renewed' \in [Clients -> BOOLEAN]
        /\ object' \in durable' /\ durable' \subseteq Stored
    BY DEF Forget, StoreInv, TypeOK, StoredIsWhole, disk
  <1>3. QED
    BY <1>1, <1>2, ClientStep DEF Forget

(* What fits the client before its step. *)
LEMMA StorePut ==
    ASSUME StoreInv, NEW c \in Clients,
           CreateTemp(c) \/ WriteTemp(c) \/ SyncTemp(c) \/ PutFails(c) \/ RenameFails(c)
               \/ PutExists(c)
    PROVE  StoreInv'
  <1>1. ClientFits(temp[c], handle[c], pc[c], answer[c])
    BY EveryClientFits
  <1>2. /\ File("torn", FALSE) \in AnyFile /\ File("whole", FALSE) \in AnyFile
        /\ File("whole", TRUE) \in AnyFile /\ Missing \in AnyFile
    BY DEF AnyFile, File
  <1>3. handle' = [handle EXCEPT ![c] = handle[c]]
    BY DEF StoreInv, TypeOK, CreateTemp, WriteTemp, SyncTemp, PutFails, RenameFails, PutExists
  <1>4. UNCHANGED <<disk, call, renewed>>
    BY DEF CreateTemp, WriteTemp, SyncTemp, PutFails, RenameFails, PutExists
  <1>5. ASSUME NEW x, NEW s, NEW at \in {"write", "sync", "rename"},
               pc[c] \in {"create", "write", "sync"}, pc' = [pc EXCEPT ![c] = at],
               Write(c, File(x, s)), File(x, s) \in AnyFile, UNCHANGED answer,
               at = "rename" => x = "whole" /\ s = TRUE
        PROVE  StoreInv'
    <2>1. temp' = [temp EXCEPT ![c] = File(x, s)] /\ answer' = [answer EXCEPT ![c] = answer[c]]
      BY <1>5 DEF Write, StoreInv, TypeOK
    <2>2. ClientFits(File(x, s), handle[c], at, answer[c])
      BY <1>1, <1>5 DEF ClientFits, Points
    <2>3. QED
      BY <1>3, <1>4, <1>5, <2>1, <2>2, QuietStep
  <1>6. CASE CreateTemp(c)
    BY <1>2, <1>5, <1>6 DEF CreateTemp, Goto
  <1>7. CASE WriteTemp(c)
    BY <1>2, <1>5, <1>7 DEF WriteTemp, Goto
  <1>8. CASE SyncTemp(c)
    BY <1>2, <1>5, <1>8 DEF SyncTemp, Goto
  <1>9. CASE PutFails(c)
    <2>1. ClientFits(Missing, handle[c], "return", "failed")
      BY <1>1, <1>2, <1>9 DEF PutFails, ClientFits, Points
    <2>2. QED
      BY <1>3, <1>4, <1>9, <2>1, QuietStep DEF PutFails, Answer, Write
  <1>10. CASE RenameFails(c)
    <2>1. ClientFits(Missing, handle[c], "exists", answer[c])
      BY <1>1, <1>2, <1>10 DEF RenameFails, Goto, ClientFits, Points
    <2>2. answer' = [answer EXCEPT ![c] = answer[c]]
      BY <1>10 DEF RenameFails, StoreInv, TypeOK
    <2>3. QED
      BY <1>3, <1>4, <1>10, <2>1, <2>2, QuietStep DEF RenameFails, Goto, Write
  <1>11. CASE PutExists(c)
    <2> DEFINE a == IF object # Missing THEN "ok" ELSE "failed"
    <2>1. ClientFits(temp[c], handle[c], "return", a)
      BY <1>1, <1>11 DEF PutExists, ClientFits, Points
    <2>2. temp' = [temp EXCEPT ![c] = temp[c]]
      BY <1>11 DEF PutExists, StoreInv, TypeOK
    <2>3. pc' = [pc EXCEPT ![c] = "return"] /\ answer' = [answer EXCEPT ![c] = a]
      BY <1>11 DEF PutExists, Answer
    <2> HIDE DEF a
    <2>4. QED
      BY <1>3, <1>4, <2>1, <2>2, <2>3, QuietStep
  <1>12. QED
    BY <1>6, <1>7, <1>8, <1>9, <1>10, <1>11

LEMMA StoreRename ==
    ASSUME StoreInv, NEW c \in Clients, Rename(c)
    PROVE  StoreInv'
  <1>1. ClientFits(temp[c], handle[c], pc[c], answer[c]) /\ temp[c] = File("whole", TRUE)
    BY EveryClientFits DEF Rename, ClientFits
  <1>2. ClientFits(Missing, handle[c], "return", "ok")
    BY <1>1, FilesDiffer DEF Rename, ClientFits, Points
  <1>3. /\ handle' = [handle EXCEPT ![c] = handle[c]]
        /\ call' = [call EXCEPT ![c] = call[c]] /\ call[c] \in {"none", "put", "get", "delete"}
    BY DEF Rename, StoreInv, TypeOK
  <1>4. temp[c] \in Stored
    BY <1>1 DEF Stored
  <1>5. renewed' \in [Clients -> BOOLEAN]
    BY DEF Rename
  <1>6. object' \in durable' /\ durable' \subseteq Stored
    BY <1>4 DEF Rename, StoreInv, StoredIsWhole
  <1>7. QED
    BY <1>2, <1>3, <1>5, <1>6, ClientStep DEF Rename, Answer, Write

LEMMA StoreGet ==
    ASSUME StoreInv, NEW c \in Clients, Open(c) \/ NotFound(c) \/ Read(c) \/ AccessFails(c)
    PROVE  StoreInv'
  <1>1. ClientFits(temp[c], handle[c], pc[c], answer[c])
    BY EveryClientFits
  <1>2. temp' = [temp EXCEPT ![c] = temp[c]] /\ UNCHANGED <<disk, call, renewed>>
    BY DEF StoreInv, TypeOK, Open, NotFound, Read, AccessFails
  <1>3. CASE Open(c)
    <2>1. object \in Stored \ {Missing}
      BY <1>3 DEF Open, StoreInv, TypeOK, StoredIsWhole
    <2>2. ClientFits(temp[c], object, "read", answer[c])
      BY <1>1, <1>3, <2>1, FilesDiffer DEF Open, Goto, ClientFits, Points
    <2>3. answer' = [answer EXCEPT ![c] = answer[c]]
      BY <1>3 DEF Open, StoreInv, TypeOK
    <2>4. QED
      BY <1>2, <1>3, <2>2, <2>3, QuietStep DEF Open, Goto
  <1>4. CASE Read(c)
    <2> DEFINE a == Verdict(handle[c].content)
    <2>1. a \in {"data", "other", "corrupt"}
      BY DEF Verdict
    <2>4. ClientFits(temp[c], Missing, "return", a)
      BY <1>1, <1>4, <2>1, FilesDiffer DEF Read, ClientFits, Points
    <2>2. /\ pc' = [pc EXCEPT ![c] = "return"] /\ answer' = [answer EXCEPT ![c] = a]
          /\ handle' = [handle EXCEPT ![c] = Missing]
      BY <1>4 DEF Read, Answer
    <2> HIDE DEF a
    <2>3. QED
      BY <1>2, <2>2, <2>4, QuietStep
  <1>5. ASSUME NEW a \in {"missing", "failed"}, Answer(c, a), UNCHANGED handle,
               pc[c] \in {"open", "remove"}
        PROVE  StoreInv'
    <2>1. ClientFits(temp[c], handle[c], "return", a)
      BY <1>1, <1>5 DEF ClientFits, Points
    <2>2. handle' = [handle EXCEPT ![c] = handle[c]]
      BY <1>5 DEF StoreInv, TypeOK
    <2>3. QED
      BY <1>2, <1>5, <2>1, <2>2, QuietStep DEF Answer
  <1>6. QED
    BY <1>3, <1>4, <1>5 DEF NotFound, AccessFails

LEMMA StoreRemove ==
    ASSUME StoreInv, NEW c \in Clients, Remove(c)
    PROVE  StoreInv'
  <1>1. ClientFits(temp[c], handle[c], "return", "ok")
    BY EveryClientFits DEF Remove, ClientFits, Points
  <1>2. /\ temp' = [temp EXCEPT ![c] = temp[c]] /\ handle' = [handle EXCEPT ![c] = handle[c]]
        /\ call' = [call EXCEPT ![c] = call[c]] /\ call[c] \in {"none", "put", "get", "delete"}
        /\ renewed' \in [Clients -> BOOLEAN]
    BY DEF Remove, StoreInv, TypeOK
  <1>3. object' \in durable' /\ durable' \subseteq Stored
    BY FilesDiffer DEF Remove, StoreInv, StoredIsWhole
  <1>4. QED
    BY <1>1, <1>2, <1>3, ClientStep DEF Remove, Answer

(* What was flushed survives: a power loss brings back one of the files    *)
(* the path has led to. *)
LEMMA StoredSurvives ==
    ASSUME StoreInv, PowerLoss
    PROVE  object' \in durable /\ durable' = {object'}
  <1>1. ASSUME NEW file \in durable PROVE AfterPowerLoss(file) = {file}
    <2>1. file.synced
      BY DEF StoreInv, StoredIsWhole, Stored, File
    <2>2. QED
      BY <2>1 DEF AfterPowerLoss
  <1>2. QED
    BY <1>1 DEF PowerLoss

LEMMA StorePowerLoss ==
    ASSUME StoreInv, PowerLoss
    PROVE  StoreInv'
  <1>1. object' \in Stored /\ durable' = {object'}
    BY StoredSurvives DEF StoreInv, StoredIsWhole
  <1>2. TypeOK'
    BY <1>1, FilesDiffer DEF PowerLoss, TypeOK
  <1>3. StoredIsWhole'
    BY <1>1 DEF PowerLoss, StoredIsWhole
  <1>4. QED
    BY <1>2, <1>3 DEF StoreInv

LEMMA StoreDisk ==
    ASSUME StoreInv, Flush \/ Damage
    PROVE  StoreInv'
  <1>1. object' \in durable' /\ durable' \subseteq Stored
    <2>1. CASE Flush
      BY <2>1 DEF Flush, StoreInv, TypeOK, StoredIsWhole
    <2>2. CASE Damage
      BY <2>2 DEF Damage, StoreInv, StoredIsWhole, Stored
    <2>3. QED
      BY <2>1, <2>2
  <1>2. UNCHANGED <<temp, handle, pc, call, answer, renewed>>
    BY DEF Flush, Damage
  <1>3. TypeOK'
    BY <1>1, <1>2, FilesDiffer DEF StoreInv, TypeOK
  <1>4. StoredIsWhole'
    BY <1>1, <1>2 DEF StoreInv, StoredIsWhole
  <1>5. QED
    BY <1>3, <1>4 DEF StoreInv

LEMMA StoreInvInit == Init => StoreInv
  <1> SUFFICES ASSUME Init PROVE StoreInv
    OBVIOUS
  <1>1. TypeOK
    BY FilesDiffer DEF Init, TypeOK
  <1>2. StoredIsWhole
    BY FilesDiffer DEF Init, StoredIsWhole
  <1>3. QED
    BY <1>1, <1>2 DEF StoreInv

LEMMA StoreInvNext == StoreInv /\ [Next]_vars => StoreInv'
  <1>1. ASSUME StoreInv, UNCHANGED vars PROVE StoreInv'
    BY <1>1 DEF vars, disk, StoreInv, TypeOK, StoredIsWhole
  <1>2. QED
    BY <1>1, StoreCall, StoreForget, StorePut, StoreRename, StoreGet, StoreRemove,
       StorePowerLoss, StoreDisk DEF Next, Step

LEMMA AlwaysStored == Spec => []StoreInv
    BY StoreInvInit, StoreInvNext, PTL DEF Spec

(* The types; and a put that has returned, however it ended, has removed   *)
(* its temporary file.                                                     *)
THEOREM ObjectStoreTypeCorrect == Spec => []TypeOK
  <1>1. StoreInv => TypeOK
    BY DEF StoreInv
  <1>2. QED
    BY <1>1, AlwaysStored, PTL

------------------------------------------------------------------------------
(* ObjectStore implements AtomicObject                                     *)

Statuses == [c \in Clients |-> StatusOf(c)]

(* What a step of one client does to the statuses. *)
LEMMA StatusMoves ==
    ASSUME StoreInv, StoreInv', NEW c \in Clients,
           \A d \in Clients \ {c} :
               pc'[d] = pc[d] /\ answer'[d] = answer[d] /\ handle'[d] = handle[d]
    PROVE  Statuses' = [Statuses EXCEPT ![c] = StatusOf(c)']
    BY DEF Statuses, StatusOf

(* What the caller sees before a call, during it and after it. *)
LEMMA StatusAt ==
    ASSUME NEW c \in Clients
    PROVE  /\ pc[c] = "idle" => StatusOf(c) = "idle"
           /\ pc[c] = "return" => StatusOf(c) = answer[c]
           /\ pc[c] = "read" => StatusOf(c) = Verdict(handle[c].content)
           /\ pc[c] \in Points \ {"idle", "return", "read"} => StatusOf(c) = "pending"
    BY DEF StatusOf, Points

(* The value of the object, and those that a power loss may bring back. *)
Past == {file.content : file \in durable}

LEMMA RegisterStutters ==
    ASSUME StoreInv, StoreInv', NEW c \in Clients, UNCHANGED disk,
           \A d \in Clients \ {c} :
               pc'[d] = pc[d] /\ answer'[d] = answer[d] /\ handle'[d] = handle[d],
           StatusOf(c)' = StatusOf(c)
    PROVE  UNCHANGED Register!vars
  <1>1. Statuses' = Statuses
    BY DEF Statuses, StatusOf
  <1>2. QED
    BY <1>1 DEF disk, Statuses, Register!vars

LEMMA RegisterMoves ==
    ASSUME StoreInv, StoreInv', NEW c \in Clients, NEW from, NEW to,
           \A d \in Clients \ {c} :
               pc'[d] = pc[d] /\ answer'[d] = answer[d] /\ handle'[d] = handle[d],
           StatusOf(c) = from, StatusOf(c)' = to
    PROVE  Register!Move(c, from, to)
  <1>1. Statuses' = [Statuses EXCEPT ![c] = to] /\ Statuses[c] = from
    BY StatusMoves DEF Statuses
  <1>2. QED
    BY <1>1 DEF Statuses, Register!Move

(* The other clients see nothing of a step of c. *)
LEMMA OnlyOneMoves ==
    ASSUME StoreInv, NEW c \in Clients,
           Step(c) \/ \E what \in {"put", "get", "delete"} : Call(c, what)
    PROVE  /\ \A d \in Clients \ {c} :
                 pc'[d] = pc[d] /\ answer'[d] = answer[d] /\ handle'[d] = handle[d]
           /\ \A at : pc' = [pc EXCEPT ![c] = at] => pc'[c] = at
           /\ \A a : answer' = [answer EXCEPT ![c] = a] => answer'[c] = a
           /\ \A h : handle' = [handle EXCEPT ![c] = h] => handle'[c] = h
  <1>1. /\ pc' = [pc EXCEPT ![c] = pc'[c]] /\ answer' = [answer EXCEPT ![c] = answer'[c]]
        /\ handle' = [handle EXCEPT ![c] = handle'[c]]
    BY DEF StoreInv, TypeOK, Step, Call, Goto, Answer, CreateTemp, WriteTemp, SyncTemp, PutFails,
           Rename, RenameFails, PutExists, Open, NotFound, Read, Remove, AccessFails, Forget
  <1>2. QED
    BY <1>1 DEF StoreInv, TypeOK

(* The content of what is flushed is missing, whole or damaged.            *)
LEMMA StoredContents ==
    \A file \in Stored :
        /\ file.content \in {"missing", "whole"} \cup Damaged
        /\ file.content = "missing" <=> file = Missing
  <1>1. ASSUME NEW x \in {"missing", "whole"} \cup Damaged
        PROVE  File(x, TRUE).content = x /\ (x = "missing" <=> File(x, TRUE) = Missing)
    BY FilesDiffer DEF Missing
  <1>2. QED
    BY <1>1 DEF Stored

(* Every step of a client is one of AtomicObject's, or none. *)
LEMMA CallImplements ==
    ASSUME StoreInv, StoreInv', NEW c \in Clients,
           NEW what \in {"put", "get", "delete"}, Call(c, what)
    PROVE  Register!Call(c)
  <1>1. pc[c] = "idle" /\ pc'[c] \in {"create", "open", "remove"} /\ UNCHANGED disk
    BY DEF Call, Goto, StoreInv, TypeOK
  <1>2. StatusOf(c) = "idle" /\ StatusOf(c)' = "pending"
    BY <1>1 DEF StatusOf
  <1>3. Register!Move(c, "idle", "pending")
    BY <1>2, OnlyOneMoves, RegisterMoves
  <1>4. QED
    BY <1>1, <1>3 DEF disk, Register!Call

LEMMA PutStutters ==
    ASSUME StoreInv, StoreInv', NEW c \in Clients,
           CreateTemp(c) \/ WriteTemp(c) \/ SyncTemp(c) \/ RenameFails(c) \/ Read(c)
    PROVE  UNCHANGED Register!vars
  <1>1. UNCHANGED disk /\ Step(c)
    BY DEF CreateTemp, WriteTemp, SyncTemp, RenameFails, Read, Step
  <1>2. StatusOf(c)' = StatusOf(c)
    <2>1. CASE Read(c)
      BY <2>1 DEF Read, Answer, StatusOf, StoreInv, TypeOK
    <2>2. CASE CreateTemp(c) \/ WriteTemp(c) \/ SyncTemp(c) \/ RenameFails(c)
      <3>1. PICK from \in {"create", "write", "sync", "rename"},
                 to \in {"write", "sync", "rename", "exists"} : Goto(c, from, to)
        BY <2>2 DEF CreateTemp, WriteTemp, SyncTemp, RenameFails
      <3>2. pc[c] = from /\ pc'[c] = to
        BY <3>1 DEF Goto, StoreInv, TypeOK
      <3>3. QED
        BY <3>2 DEF StatusOf
    <2>3. QED
      BY <2>1, <2>2
  <1>3. QED
    BY <1>1, <1>2, OnlyOneMoves, RegisterStutters

LEMMA AnswerMoves ==
    ASSUME StoreInv, StoreInv', NEW c \in Clients, NEW a, Step(c), Answer(c, a),
           pc[c] \notin {"idle", "return", "read"}
    PROVE  Register!Move(c, "pending", a)
  <1>1. pc'[c] = "return" /\ answer'[c] = a
    BY DEF Answer, StoreInv, TypeOK
  <1>2. StatusOf(c) = "pending" /\ StatusOf(c)' = a
    BY <1>1 DEF StatusOf
  <1>3. QED
    BY <1>2, OnlyOneMoves, RegisterMoves

LEMMA RenameImplements ==
    ASSUME StoreInv, StoreInv', NEW c \in Clients, Rename(c)
    PROVE  Register!Put(c)
  <1>1. object' = File("whole", TRUE) /\ durable' = durable \cup {object'}
    BY DEF Rename, StoreInv, StoredIsWhole
  <1>2. object'.content = "whole"
    BY <1>1, FilesDiffer
  <1>3. Past' = Past \cup {"whole"}
    BY <1>1, <1>2 DEF Past
  <1>4. Register!Move(c, "pending", "ok")
    BY AnswerMoves DEF Rename, Step
  <1>5. QED
    BY <1>2, <1>3, <1>4 DEF Past, Register!Put, Register!Set

LEMMA PutEnds ==
    ASSUME StoreInv, StoreInv', NEW c \in Clients,
           PutFails(c) \/ PutExists(c) \/ AccessFails(c)
    PROVE  Register!PutFindsObject(c) \/ Register!Fail(c)
  <1>1. UNCHANGED disk /\ Step(c) /\ pc[c] \notin {"idle", "return", "read"}
    BY DEF PutFails, PutExists, AccessFails, Step
  <1>2. CASE Answer(c, "failed")
    <2>1. Register!Move(c, "pending", "failed")
      BY <1>1, <1>2, AnswerMoves
    <2>2. QED
      BY <1>1, <2>1 DEF disk, Register!Fail
  <1>3. CASE Answer(c, "ok") /\ object # Missing
    <2>1. Register!Move(c, "pending", "ok")
      BY <1>1, <1>3, AnswerMoves
    <2>2. object.content # "missing"
      BY <1>3, StoredContents DEF StoreInv, TypeOK, StoredIsWhole
    <2>3. QED
      BY <1>1, <2>1, <2>2 DEF disk, Register!PutFindsObject
  <1>4. QED
    BY <1>2, <1>3 DEF PutFails, PutExists, AccessFails

LEMMA GetImplements ==
    ASSUME StoreInv, StoreInv', NEW c \in Clients, Open(c) \/ NotFound(c)
    PROVE  Register!Get(c)
  <1>1. UNCHANGED disk /\ Step(c)
    BY DEF Open, NotFound, Step
  <1>2. object \in Stored
    BY DEF StoreInv, TypeOK, StoredIsWhole
  <1>3. CASE Open(c)
    <2>1. pc[c] = "open" /\ pc'[c] = "read" /\ handle'[c] = object
      BY <1>3 DEF Open, Goto, StoreInv, TypeOK
    <2>2. object.content # "missing"
      BY <1>2, <1>3, StoredContents DEF Open
    <2>3. StatusOf(c) = "pending" /\ StatusOf(c)' = Verdict(object.content)
      BY <2>1 DEF StatusOf
    <2>4. Register!Move(c, "pending", Verdict(object.content))
      BY <1>1, <2>3, OnlyOneMoves, RegisterMoves
    <2>5. Verdict(object.content) = CASE object.content = "missing" -> "missing"
                                      [] object.content = "whole" -> "data"
                                      [] object.content = "other" /\ ~Hashed -> "other"
                                      [] OTHER -> "corrupt"
      BY <2>2 DEF Verdict
    <2>6. QED
      BY <1>1, <2>4, <2>5 DEF disk, Register!Get
  <1>4. CASE NotFound(c)
    <2>1. object.content = "missing"
      BY <1>2, <1>4, StoredContents DEF NotFound
    <2>2. Register!Move(c, "pending", "missing")
      BY <1>1, <1>4, AnswerMoves DEF NotFound
    <2>3. QED
      BY <1>1, <2>1, <2>2 DEF disk, Register!Get
  <1>5. QED
    BY <1>3, <1>4

LEMMA RemoveImplements ==
    ASSUME StoreInv, StoreInv', NEW c \in Clients, Remove(c)
    PROVE  Register!Delete(c)
  <1>1. object'.content = "missing" /\ durable' = durable \cup {object'}
    BY FilesDiffer DEF Remove, Missing
  <1>2. Past' = Past \cup {"missing"}
    BY <1>1 DEF Past
  <1>3. Register!Move(c, "pending", "ok")
    BY AnswerMoves DEF Remove, Step
  <1>4. QED
    BY <1>1, <1>2, <1>3 DEF Past, Register!Delete, Register!Set

LEMMA ForgetImplements ==
    ASSUME StoreInv, StoreInv', NEW c \in Clients, Forget(c)
    PROVE  Register!Return(c)
  <1>1. pc'[c] = "idle" /\ UNCHANGED disk /\ Step(c)
    BY DEF Forget, StoreInv, TypeOK, Step
  <1>2. StatusOf(c)' = "idle"
    BY <1>1 DEF StatusOf
  <1>3. Statuses' = [Statuses EXCEPT ![c] = "idle"]
    BY <1>1, <1>2, OnlyOneMoves, StatusMoves
  <1>4. QED
    BY <1>1, <1>3 DEF Statuses, disk, Register!Return

LEMMA DiskImplements ==
    ASSUME StoreInv, StoreInv', PowerLoss \/ Flush \/ Damage
    PROVE  Register!PowerLoss \/ Register!Flush \/ Register!Damage
  <1>1. CASE PowerLoss
    <2>1. object' \in durable /\ durable' = {object'}
      BY <1>1, StoredSurvives
    <2>2. object'.content \in Past /\ Past' = {object'.content}
      BY <2>1 DEF Past
    <2>3. Statuses' = [c \in Clients |-> "idle"]
      BY <1>1 DEF PowerLoss, Statuses, StatusOf
    <2>4. QED
      BY <2>2, <2>3 DEF Past, Statuses, Register!PowerLoss
  <1>2. ASSUME UNCHANGED <<pc, answer, handle>> PROVE Statuses' = Statuses
    BY <1>2 DEF Statuses, StatusOf
  <1>3. CASE Flush
    <2>1. Past' = {object.content} /\ UNCHANGED object
      BY <1>3 DEF Flush, Past
    <2>2. Statuses' = Statuses
      BY <1>2, <1>3 DEF Flush
    <2>3. QED
      BY <2>1, <2>2 DEF Past, Statuses, Register!Flush
  <1>4. CASE Damage
    <2>1. object.content # "missing"
      BY <1>4, StoredContents DEF Damage, StoreInv, TypeOK, StoredIsWhole
    <2>2. object'.content \in {"garbled", "other"} /\ durable' = durable \cup {object'}
      <3>1. /\ durable' = durable \cup {object'}
            /\ object' \in {File(content, TRUE) : content \in Damaged \ {object.content}}
        BY <1>4 DEF Damage
      <3>2. PICK content \in {"garbled", "other"} : object' = File(content, TRUE)
        BY <3>1 DEF Damaged
      <3>3. QED
        BY <3>1, <3>2, FilesDiffer
    <2>3. Past' = Past \cup {object'.content}
      BY <2>2 DEF Past
    <2>4. Statuses' = Statuses
      BY <1>2, <1>4 DEF Damage
    <2>5. QED
      BY <2>1, <2>2, <2>3, <2>4 DEF Past, Statuses, Register!Damage, Register!Set
  <1>5. QED
    BY <1>1, <1>3, <1>4

LEMMA InitImplements == Init => Register!Init
  <1> SUFFICES ASSUME Init PROVE Register!Init
    OBVIOUS
  <1>1. object.content = "missing" /\ Past = {"missing"}
    <2>1. Missing.content = "missing"
      BY FilesDiffer DEF Missing
    <2>2. QED
      BY <2>1 DEF Init, Past
  <1>2. Statuses = [c \in Clients |-> "idle"]
    BY DEF Init, Statuses, StatusOf
  <1>3. QED
    BY <1>1, <1>2 DEF Past, Statuses, Register!Init

LEMMA NextImplements ==
    StoreInv /\ StoreInv' /\ [Next]_vars => [Register!Next]_Register!vars
  <1> SUFFICES ASSUME StoreInv, StoreInv', [Next]_vars PROVE [Register!Next]_Register!vars
    OBVIOUS
  <1>1. CASE UNCHANGED vars
    <2>1. Statuses' = Statuses /\ UNCHANGED disk
      BY <1>1 DEF vars, Statuses, StatusOf
    <2>2. QED
      BY <2>1 DEF disk, Statuses, Register!vars
  <1>2. ASSUME NEW c \in Clients, NEW what \in {"put", "get", "delete"}, Call(c, what)
        PROVE  Register!Next
    BY <1>2, CallImplements DEF Register!Next
  <1>3. ASSUME NEW c \in Clients, Step(c)
        PROVE  [Register!Next]_Register!vars
    BY <1>3, PutStutters, RenameImplements, PutEnds, GetImplements, RemoveImplements,
       ForgetImplements DEF Step, Register!Next
  <1>4. CASE PowerLoss \/ Flush \/ Damage
    BY <1>4, DiskImplements DEF Register!Next
  <1>5. QED
    BY <1>1, <1>2, <1>3, <1>4 DEF Next

(* The store implements AtomicObject for any number of clients, whatever   *)
(* calls fail and whoever dies at whichever system call, through power     *)
(* losses and damage, under a key that is hashed or one that is not.       *)
THEOREM StoreImplementsAtomicObject == Spec => RefinesAtomicObject
    BY InitImplements, NextImplements, AlwaysStored, PTL DEF Spec, RefinesAtomicObject, Register!Spec

------------------------------------------------------------------------------
(* A put renews                                                            *)

(* A put that finds its rename refused finds an object, and one that was   *)
(* renamed there since it was called, or will find none.                   *)
RenewsInv ==
    \A c \in Clients :
        /\ pc[c] = "remove" => call[c] = "delete"
        /\ pc[c] = "exists" /\ object # Missing => renewed[c]
        /\ call[c] = "put" /\ answer[c] = "ok" => renewed[c]

LEMMA RenewsInvNext ==
    ASSUME StoreInv, RenewsInv, [Next /\ NoRenameIsRefused]_vars
    PROVE  RenewsInv'
  <1>1. ASSUME NEW c \in Clients, NEW what \in {"put", "get", "delete"}, Call(c, what)
        PROVE  RenewsInv'
    BY <1>1 DEF Call, Goto, disk, StoreInv, TypeOK, RenewsInv
  <1>2. ASSUME NEW c \in Clients, Step(c), NoRenameIsRefused
        PROVE  RenewsInv'
    <2>1. CASE Rename(c)
      BY <2>1 DEF Rename, Answer, StoreInv, TypeOK, RenewsInv
    <2>2. CASE RenameFails(c)
      BY <1>2, <2>2 DEF RenameFails, NoRenameIsRefused, Goto, disk, StoreInv, TypeOK, RenewsInv
    <2>3. CASE PutExists(c)
      BY <2>3 DEF PutExists, Answer, disk, StoreInv, TypeOK, RenewsInv
    <2>4. CASE Remove(c)
      BY <2>4 DEF Remove, Answer, StoreInv, TypeOK, RenewsInv
    <2>5. CASE CreateTemp(c) \/ WriteTemp(c) \/ SyncTemp(c) \/ Open(c)
      <3>1. /\ UNCHANGED <<object, call, answer, renewed>>
            /\ \A d \in Clients : pc'[d] = pc[d] \/ pc'[d] \in {"write", "sync", "rename", "read"}
        BY <2>5 DEF CreateTemp, WriteTemp, SyncTemp, Open, Goto, disk, StoreInv, TypeOK
      <3>2. QED
        BY <3>1 DEF RenewsInv
    <2>6. CASE PutFails(c) \/ NotFound(c) \/ Read(c) \/ AccessFails(c)
      <3>1. \A content : Verdict(content) # "ok"
        BY DEF Verdict
      <3>2. PICK a : Answer(c, a) /\ a # "ok"
        BY <2>6, <3>1 DEF PutFails, NotFound, Read, AccessFails
      <3>3. UNCHANGED <<disk, call, renewed>>
        BY <2>6 DEF PutFails, NotFound, Read, AccessFails
      <3>4. QED
        BY <3>2, <3>3 DEF Answer, disk, StoreInv, TypeOK, RenewsInv
    <2>7. CASE Forget(c)
      BY <2>7 DEF Forget, disk, StoreInv, TypeOK, RenewsInv
    <2>8. QED
      BY <1>2, <2>1, <2>2, <2>3, <2>4, <2>5, <2>6, <2>7 DEF Step
  <1>3. CASE PowerLoss
    BY <1>3 DEF PowerLoss, RenewsInv
  <1>4. CASE Flush \/ Damage
    <2>1. /\ pc' = pc /\ call' = call /\ answer' = answer /\ renewed' = renewed
          /\ object' # Missing => object # Missing
      BY <1>4 DEF Flush, Damage
    <2>2. QED
      BY <2>1 DEF RenewsInv
  <1>5. CASE UNCHANGED vars
    BY <1>5 DEF vars, disk, RenewsInv
  <1>6. QED
    BY <1>1, <1>2, <1>3, <1>4, <1>5 DEF Next

(* A put that reports success leaves an object written since it was        *)
(* called, as long as renames fail only where there is none to replace.    *)
THEOREM PutsRenew == CarefulSpec => []PutRenews
  <1>1. Init => RenewsInv
    BY DEF Init, RenewsInv
  <1>2. StoreInv /\ RenewsInv /\ [Next /\ NoRenameIsRefused]_vars => StoreInv' /\ RenewsInv'
    BY StoreInvNext, RenewsInvNext
  <1>3. RenewsInv => PutRenews
    BY DEF RenewsInv, PutRenews
  <1>4. QED
    BY <1>1, <1>2, <1>3, StoreInvInit, PTL DEF CarefulSpec

------------------------------------------------------------------------------
(* Numbers and recursion.                                                  *)

Earlier == {pair \in Nat \X Nat : pair[1] < pair[2]}

(* A set of numbers has a least one. *)
LEMMA LeastNumber ==
    ASSUME NEW S \in SUBSET Nat, S # {}
    PROVE  \E m \in S : \A k \in S : m <= k
  <1>1. IsWellFoundedOn(Earlier, Nat)
    BY NatLessThanWellFounded DEF OpToRel, Earlier
  <1>2. PICK m \in S : \A k \in S : ~ (<<k, m>> \in Earlier)
    BY <1>1, WFMin
  <1>3. \A k \in S : ~ (k < m)
    BY <1>2 DEF Earlier
  <1>4. QED
    BY <1>3

(* What stands in for an induction, the claim being a set of numbers. *)
LEMMA EveryNumber ==
    ASSUME NEW S \in SUBSET Nat, 0 \in S, \A k \in S : k + 1 \in S
    PROVE  S = Nat
  <1>1. SUFFICES ASSUME Nat \ S # {} PROVE FALSE
    OBVIOUS
  <1>2. PICK m \in Nat \ S : \A k \in Nat \ S : m <= k
    BY <1>1, LeastNumber
  <1>3. m # 0 /\ m - 1 \in Nat /\ m = (m - 1) + 1 /\ ~(m <= m - 1)
    OBVIOUS
  <1>4. m - 1 \in S
    BY <1>2, <1>3
  <1>5. QED
    BY <1>2, <1>3, <1>4

(* What a recursion computes step by step, and that nothing else fits.  The *)
(* step is a function, and stages names the numbers the recursion is over.  *)
IsComputed(f, first, step, n) ==
    /\ f[0] = first
    /\ \A k \in 1 .. n : f[k] = step[<<k, f[k - 1]>>]

LEMMA Computable ==
    ASSUME NEW V, NEW first \in V, NEW n \in Nat, NEW step \in [(1 .. n) \X V -> V]
    PROVE  \E f \in [0 .. n -> V] : IsComputed(f, first, step, n)
  <1> DEFINE S == {m \in Nat : m <= n => \E f \in [0 .. m -> V] : IsComputed(f, first, step, m)}
  <1>1. 0 \in S
    <2> DEFINE f == [k \in 0 .. 0 |-> first]
    <2>1. f \in [0 .. 0 -> V] /\ f[0] = first
      OBVIOUS
    <2>2. IsComputed(f, first, step, 0)
      BY <2>1 DEF IsComputed
    <2>3. QED
      BY <2>1, <2>2
  <1>2. ASSUME NEW m \in S PROVE m + 1 \in S
    <2>1. SUFFICES ASSUME m + 1 <= n
                   PROVE  \E f \in [0 .. m + 1 -> V] : IsComputed(f, first, step, m + 1)
      OBVIOUS
    <2>2. m \in Nat /\ m <= n
      BY <2>1
    <2>3. PICK g \in [0 .. m -> V] : IsComputed(g, first, step, m)
      BY <2>2
    <2> HIDE DEF S
    <2> DEFINE f == [k \in 0 .. m + 1 |-> IF k <= m THEN g[k] ELSE step[<<m + 1, g[m]>>]]
    <2>4. m + 1 \in 1 .. n /\ g[m] \in V
      BY <2>1, <2>2
    <2>5. step[<<m + 1, g[m]>>] \in V
      BY <2>4
    <2>6. f \in [0 .. m + 1 -> V]
      BY <2>2, <2>5
    <2>7. /\ \A k \in 0 .. m : f[k] = g[k]
          /\ f[m + 1] = step[<<m + 1, g[m]>>]
      BY <2>2
    <2> HIDE DEF f
    <2>8. f[0] = first
      BY <2>2, <2>3, <2>7 DEF IsComputed
    <2>9. ASSUME NEW k \in 1 .. m + 1 PROVE f[k] = step[<<k, f[k - 1]>>]
      <3>1. CASE k = m + 1
        BY <3>1, <2>2, <2>7
      <3>2. CASE k <= m
        <4>1. k \in 1 .. m /\ k \in 0 .. m /\ k - 1 \in 0 .. m
          BY <3>2, <2>2
        <4>2. QED
          BY <4>1, <2>3, <2>7 DEF IsComputed
      <3>3. QED
        BY <3>1, <3>2, <2>2
    <2>10. IsComputed(f, first, step, m + 1)
      BY <2>8, <2>9 DEF IsComputed
    <2>11. QED
      BY <2>6, <2>10
  <1>3. S \in SUBSET Nat
    OBVIOUS
  <1> HIDE DEF S
  <1>4. n \in S
    BY <1>1, <1>2, <1>3, EveryNumber
  <1>5. QED
    BY <1>4 DEF S

------------------------------------------------------------------------------
(* Sequences laid end to end *)

Concatenates(f, s) ==
    f = [i \in 1 .. Len(s) |-> IF i = 1 THEN s[i] ELSE f[i - 1] \o s[i]]

LEMMA ConcatenationStep ==
    ASSUME NEW B, NEW s \in Seq(Seq(B)), NEW f, Concatenates(f, s), NEW i \in 1 .. Len(s)
    PROVE  /\ f[i] = IF i = 1 THEN s[i] ELSE f[i - 1] \o s[i]
           /\ s[i] \in Seq(B)
  <1>1. s[i] \in Seq(B)
    BY ElementOfSeq
  <1>2. QED
    BY <1>1 DEF Concatenates

LEMMA ConcatenationExists ==
    ASSUME NEW B, NEW s \in Seq(Seq(B))
    PROVE  \E f : Concatenates(f, s)
  <1> DEFINE n == Len(s)
             V == Seq(B)
             step == [pair \in (1 .. n) \X V |-> pair[2] \o s[pair[1]]]
  <1>1. n \in Nat /\ <<>> \in V
    OBVIOUS
  <1>2. \A k \in 1 .. n : s[k] \in Seq(B)
    BY ElementOfSeq
  <1>3. ASSUME NEW k \in 1 .. n, NEW v \in V
        PROVE  step[<<k, v>>] = v \o s[k] /\ v \o s[k] \in V
    <2>1. s[k] \in Seq(B) /\ <<k, v>> \in (1 .. n) \X V
      BY <1>2
    <2>2. QED
      BY <2>1, ConcatProperties
  <1>4. step \in [(1 .. n) \X V -> V]
    <2>1. \A pair \in (1 .. n) \X V : pair[2] \o s[pair[1]] \in V
      BY <1>2, ConcatProperties
    <2>2. QED
      BY <2>1
  <1> HIDE DEF V, step
  <1>5. PICK g \in [0 .. n -> V] : IsComputed(g, <<>>, step, n)
    BY <1>1, <1>4, Computable
  <1> DEFINE f == [i \in 1 .. n |-> g[i]]
  <1>6. \A i \in 1 .. n : f[i] = g[i]
    OBVIOUS
  <1>7. DOMAIN f = 1 .. n /\ f = [i \in 1 .. n |-> f[i]]
    OBVIOUS
  <1> HIDE DEF f
  <1>8. ASSUME NEW i \in 1 .. n PROVE f[i] = IF i = 1 THEN s[i] ELSE f[i - 1] \o s[i]
    <2>1. i - 1 \in 0 .. n /\ g[i - 1] \in V
      <3>1. i - 1 \in 0 .. n
        BY <1>1
      <3> HIDE DEF n
      <3>2. QED
        BY <1>5, <3>1
    <2>2. g[i] = step[<<i, g[i - 1]>>]
      BY <1>5 DEF IsComputed
    <2>3. f[i] = g[i - 1] \o s[i]
      BY <2>1, <2>2, <1>3, <1>6
    <2>4. CASE i = 1
      <3>1. g[i - 1] = <<>>
        BY <2>4, <1>5 DEF IsComputed
      <3>2. <<>> \o s[i] = s[i]
        BY <1>2, ConcatEmptySeq
      <3>3. QED
        BY <2>3, <2>4, <3>1, <3>2
    <2>5. CASE i # 1
      <3>1. i - 1 \in 1 .. n
        BY <2>5
      <3>2. QED
        BY <2>3, <2>5, <3>1, <1>6
    <2>6. QED
      BY <2>4, <2>5
  <1>9. f = [i \in 1 .. n |-> IF i = 1 THEN s[i] ELSE f[i - 1] \o s[i]]
    BY <1>7, <1>8
  <1>10. QED
    BY <1>9 DEF Concatenates

LEMMA FlattenIs ==
    ASSUME NEW B, NEW s \in Seq(Seq(B)), Len(s) # 0
    PROVE  \E f : Concatenates(f, s) /\ Cutter!FlattenSeq(s) = f[Len(s)]
  <1>1. \E f : Concatenates(f, s)
    BY ConcatenationExists
  <1>2. QED
    BY <1>1 DEF Cutter!FlattenSeq, Concatenates

AgreeUpTo(s, t, n) == \A i \in 1 .. n : s[i] = t[i]

(* Two recursions agree as far as the sequences they are over do. *)
LEMMA ConcatenationsAgree ==
    ASSUME NEW B, NEW s \in Seq(Seq(B)), NEW t \in Seq(Seq(B)), NEW n \in Nat,
           n <= Len(s), n <= Len(t), AgreeUpTo(s, t, n),
           NEW f, Concatenates(f, s), NEW g, Concatenates(g, t)
    PROVE  AgreeUpTo(f, g, n) /\ \A i \in 1 .. n : f[i] \in Seq(B)
  <1> DEFINE S == {m \in Nat : m \in 1 .. n => f[m] = g[m] /\ f[m] \in Seq(B)}
  <1>1. 0 \in S
    OBVIOUS
  <1>2. ASSUME NEW m \in S PROVE m + 1 \in S
    <2>1. SUFFICES ASSUME m + 1 \in 1 .. n
                   PROVE  f[m + 1] = g[m + 1] /\ f[m + 1] \in Seq(B)
      OBVIOUS
    <2>2. m \in Nat /\ (m # 0 => f[m] = g[m] /\ f[m] \in Seq(B))
      BY <2>1
    <2>3. m + 1 \in 1 .. Len(s) /\ m + 1 \in 1 .. Len(t) /\ (m + 1) - 1 = m /\ (m + 1 = 1 <=> m = 0)
      BY <2>1, <2>2
    <2> HIDE DEF S
    <2>4. /\ f[m + 1] = IF m = 0 THEN s[m + 1] ELSE f[m] \o s[m + 1]
          /\ g[m + 1] = IF m = 0 THEN t[m + 1] ELSE g[m] \o t[m + 1]
          /\ s[m + 1] \in Seq(B)
      <3> DEFINE k == m + 1
      <3>1. k \in 1 .. Len(s) /\ k \in 1 .. Len(t) /\ k - 1 = m /\ (k = 1 <=> m = 0)
        BY <2>3
      <3> HIDE DEF k
      <3>2. f[k] = IF k = 1 THEN s[k] ELSE f[k - 1] \o s[k]
        BY <3>1, ConcatenationStep
      <3>3. g[k] = IF k = 1 THEN t[k] ELSE g[k - 1] \o t[k]
        BY <3>1, ConcatenationStep
      <3>4. s[k] \in Seq(B)
        BY <3>1, ElementOfSeq
      <3>5. QED
        BY <3>1, <3>2, <3>3, <3>4 DEF k
    <2>5. s[m + 1] = t[m + 1]
      BY <2>1 DEF AgreeUpTo
    <2>6. CASE m = 0
      BY <2>4, <2>5, <2>6
    <2>7. CASE m # 0
      <3>1. f[m] = g[m] /\ f[m] \in Seq(B)
        BY <2>2, <2>7
      <3>2. f[m] \o s[m + 1] \in Seq(B)
        BY <3>1, <2>4, ConcatProperties
      <3>3. QED
        BY <2>4, <2>5, <2>7, <3>1, <3>2
    <2>8. QED
      BY <2>6, <2>7
  <1>3. S \in SUBSET Nat
    OBVIOUS
  <1> HIDE DEF S
  <1>4. S = Nat
    BY <1>1, <1>2, <1>3, EveryNumber
  <1>5. ASSUME NEW i \in 1 .. n PROVE f[i] = g[i] /\ f[i] \in Seq(B)
    <2>1. i \in S
      BY <1>4
    <2>2. QED
      BY <2>1 DEF S
  <1>6. QED
    BY <1>5 DEF AgreeUpTo

LEMMA FlattenAppend ==
    ASSUME NEW B, NEW s \in Seq(Seq(B)), NEW x \in Seq(B)
    PROVE  /\ Cutter!FlattenSeq(s) \in Seq(B)
           /\ Cutter!FlattenSeq(Append(s, x)) = Cutter!FlattenSeq(s) \o x
  <1> DEFINE t == Append(s, x)
             n == Len(s)
  <1>1. /\ t \in Seq(Seq(B)) /\ Len(t) = n + 1 /\ n \in Nat
        /\ \A i \in 1 .. n : s[i] = t[i]
        /\ t[n + 1] = x
    BY AppendProperties
  <1> HIDE DEF t
  <1>2. PICK g : Concatenates(g, t) /\ Cutter!FlattenSeq(t) = g[Len(t)]
    <2>1. Len(t) # 0
      BY <1>1
    <2>2. QED
      BY <1>1, <2>1, FlattenIs
  <1>3. g[n + 1] = IF n + 1 = 1 THEN t[n + 1] ELSE g[(n + 1) - 1] \o t[n + 1]
    BY <1>1, <1>2, ConcatenationStep
  <1>4. CASE n = 0
    <2>1. Cutter!FlattenSeq(s) = <<>> /\ s = <<>>
      BY <1>4 DEF Cutter!FlattenSeq
    <2>2. Cutter!FlattenSeq(t) = x
      BY <1>1, <1>2, <1>3, <1>4
    <2>3. <<>> \o x = x /\ <<>> \in Seq(B)
      BY ConcatEmptySeq
    <2>4. QED
      BY <2>1, <2>2, <2>3 DEF t
  <1>5. CASE n # 0
    <2>1. PICK f : Concatenates(f, s) /\ Cutter!FlattenSeq(s) = f[Len(s)]
      BY <1>5, FlattenIs
    <2>2. \A i \in 1 .. n : f[i] = g[i] /\ f[i] \in Seq(B)
      <3>1. n <= Len(s) /\ n <= Len(t)
        BY <1>1
      <3> HIDE DEF n
      <3>2. QED
        <4>1. AgreeUpTo(s, t, n)
          BY <1>1 DEF AgreeUpTo
        <4>2. AgreeUpTo(f, g, n) /\ \A i \in 1 .. n : f[i] \in Seq(B)
          BY <4>1, <1>1, <1>2, <2>1, <3>1, ConcatenationsAgree
        <4>3. QED
          BY <4>2 DEF AgreeUpTo
    <2>3. f[n] = g[n] /\ f[n] \in Seq(B)
      BY <2>2, <1>1, <1>5
    <2>4. g[n + 1] = g[n] \o t[n + 1]
      <3>1. (n + 1) - 1 = n /\ n + 1 # 1
        BY <1>1, <1>5
      <3>2. QED
        BY <1>3, <3>1
    <2>5. QED
      BY <1>1, <1>2, <2>1, <2>3, <2>4 DEF t
  <1>6. QED
    BY <1>4, <1>5

LEMMA FlattenEmpty == Cutter!FlattenSeq(<<>>) = <<>>
    BY DEF Cutter!FlattenSeq

------------------------------------------------------------------------------
(* Splitter.                                                               *)

(* The rolling hash *)

(* What is taken of the constants of Splitter: the code's own are a window  *)
(* of 64, the byte 0, and a table of 64-bit words.                          *)
CutterConstants ==
    /\ Window \in Nat \ {0} /\ MaxInput \in Nat
    /\ Zero \in Byte /\ Table \in [Byte -> Cutter!Word]
    /\ Configs \subseteq Cutter!Params

LEMMA Wraps ==
    ASSUME NEW w \in Nat \ {0}, NEW x \in 0 .. w + w - 1
    PROVE  x % w = IF x < w THEN x ELSE x - w
  <1>1. CASE x < w
    BY <1>1
  <1>2. CASE x >= w
    BY <1>2
  <1>3. QED
    BY <1>1, <1>2

Odd(S) == Cardinality(S) % 2 = 1

LEMMA OddFlips ==
    ASSUME NEW S, IsFiniteSet(S), NEW x
    PROVE  /\ x \notin S => (Odd(S \cup {x}) <=> ~Odd(S))
           /\ x \in S => (Odd(S \ {x}) <=> ~Odd(S))
  <1>1. Cardinality(S) \in Nat
    BY FS_CardinalityType
  <1>2. \A n \in Nat : (n + 1) % 2 = 1 <=> n % 2 # 1
    OBVIOUS
  <1>3. CASE x \notin S
    <2>1. Cardinality(S \cup {x}) = Cardinality(S) + 1
      BY <1>3, FS_AddElement
    <2>2. QED
      BY <1>1, <1>2, <1>3, <2>1 DEF Odd
  <1>4. CASE x \in S
    <2>1. IsFiniteSet(S \ {x}) /\ Cardinality(S \ {x}) = Cardinality(S) - 1
      BY <1>4, FS_RemoveElement
    <2>2. Cardinality(S \ {x}) \in Nat
      BY <2>1, FS_CardinalityType
    <2>3. Cardinality(S) = Cardinality(S \ {x}) + 1
      BY <1>1, <2>1
    <2>4. QED
      BY <1>2, <1>4, <2>2, <2>3 DEF Odd
  <1>5. QED
    BY <1>3, <1>4

Moved(S) == {k + 1 : k \in S}

LEMMA MovedIsAsLarge ==
    ASSUME NEW S \in SUBSET Nat, IsFiniteSet(S)
    PROVE  IsFiniteSet(Moved(S)) /\ Cardinality(Moved(S)) = Cardinality(S)
  <1> DEFINE f == [k \in S |-> k + 1]
  <1>1. f \in Bijection(S, Moved(S))
    BY DEF Bijection, Injection, Surjection, IsInjective, Moved
  <1>2. ExistsBijection(S, Moved(S))
    BY <1>1 DEF ExistsBijection
  <1>3. QED
    BY <1>2, FS_Bijection

(* The bits that the byte at a position of the chunk brings, beyond those   *)
(* of a cleared window. *)
Bits(bytes, i) == Cutter!Xor(Table[bytes[i]], Table[Zero])

(* The bytes that count for one bit of the hash at i, when the last m bytes *)
(* were taken: each by its distance from i. *)
Taps(bytes, i, m, bit) ==
    {k \in 0 .. Window - 1 : k < m /\ (bit + Window - k) % Window \in Bits(bytes, i - k)}

LEMMA TapsAreFinite ==
    ASSUME CutterConstants, NEW bytes, NEW i, NEW m, NEW bit
    PROVE  Taps(bytes, i, m, bit) \in SUBSET Nat /\ IsFiniteSet(Taps(bytes, i, m, bit))
  <1>1. Window - 1 \in Int /\ IsFiniteSet(0 .. Window - 1)
    BY FS_Interval DEF CutterConstants
  <1>2. Taps(bytes, i, m, bit) \in SUBSET (0 .. Window - 1)
    BY DEF Taps
  <1>3. QED
    BY <1>1, <1>2, FS_Subset

(* The bit that is rotated into this one. *)
Below(bit) == (bit + Window - 1) % Window

LEMMA RotationIs ==
    ASSUME CutterConstants, NEW a \in Cutter!Word, NEW bit \in 0 .. Window - 1
    PROVE  /\ Below(bit) \in 0 .. Window - 1
           /\ bit \in Cutter!RotateLeft(a) <=> Below(bit) \in a
           /\ \A k \in 0 .. Window - 1 :
                 (Below(bit) + Window - k) % Window = (bit + Window - (k + 1)) % Window
  <1>1. Window \in Nat \ {0} /\ a \subseteq 0 .. Window - 1
    BY DEF CutterConstants, Cutter!Word
  <1>2. bit + Window - 1 \in 0 .. Window + Window - 1
    BY <1>1
  <1>3. Below(bit) = IF bit = 0 THEN Window - 1 ELSE bit - 1
    <2> DEFINE x == bit + Window - 1
    <2>1. x % Window = IF x < Window THEN x ELSE x - Window
      <3> HIDE DEF x
      <3>1. QED
        BY <1>1, <1>2, Wraps DEF x
    <2>2. (IF x < Window THEN x ELSE x - Window) = IF bit = 0 THEN Window - 1 ELSE bit - 1
      BY <1>1
    <2>3. QED
      BY <2>1, <2>2 DEF Below
  <1>4. ASSUME NEW c \in 0 .. Window - 1 PROVE (c + 1) % Window = bit <=> c = Below(bit)
    <2>1. c + 1 \in 0 .. Window + Window - 1
      BY <1>1
    <2> DEFINE x == c + 1
    <2>2. x % Window = IF x < Window THEN x ELSE x - Window
      <3> HIDE DEF x
      <3>1. QED
        BY <1>1, <2>1, Wraps DEF x
    <2>3. QED
      BY <1>1, <1>3, <2>2
  <1>5. bit \in Cutter!RotateLeft(a) <=> Below(bit) \in a
    <2>1. bit \in Cutter!RotateLeft(a) <=> \E c \in a : (c + 1) % Window = bit
      BY DEF Cutter!RotateLeft
    <2>2. QED
      BY <1>1, <1>4, <2>1
  <1>6. ASSUME NEW k \in 0 .. Window - 1
        PROVE  (Below(bit) + Window - k) % Window = (bit + Window - (k + 1)) % Window
    <2>1. /\ Below(bit) + Window - k \in 0 .. Window + Window - 1
          /\ bit + Window - (k + 1) \in 0 .. Window + Window - 1
      BY <1>1, <1>3
    <2> DEFINE x == Below(bit) + Window - k
               y == bit + Window - (k + 1)
    <2>2. /\ x % Window = IF x < Window THEN x ELSE x - Window
          /\ y % Window = IF y < Window THEN y ELSE y - Window
      <3> HIDE DEF x, y
      <3>1. QED
        BY <1>1, <2>1, Wraps DEF x, y
    <2>3. (IF x < Window THEN x ELSE x - Window) = (IF y < Window THEN y ELSE y - Window)
      BY <1>1, <1>3
    <2>4. QED
      BY <2>2, <2>3
  <1>7. Below(bit) \in 0 .. Window - 1
    BY <1>1, <1>3
  <1>8. QED
    BY <1>5, <1>6, <1>7

(* What one more byte does to the bytes that count: it comes in, and the    *)
(* one a whole window away goes out. *)
LEMMA TapsStep ==
    ASSUME CutterConstants, NEW bytes, NEW i \in Nat, NEW m \in Nat, NEW bit \in 0 .. Window - 1
    PROVE  Odd(Taps(bytes, i + 1, m + 1, bit)) <=>
             ((Odd(Taps(bytes, i, m, Below(bit)))
                 <=> ~(Window <= m /\ bit \in Bits(bytes, i - Window + 1)))
                 <=> bit \notin Bits(bytes, i + 1))
  <1> DEFINE before == Taps(bytes, i, m, Below(bit))
             after == Taps(bytes, i + 1, m + 1, bit)
             stay == after \ {0}
             goes == Window <= m /\ bit \in Bits(bytes, i - Window + 1)
  <1>1. Window \in Nat \ {0}
    BY DEF CutterConstants
  <1>2. /\ before \in SUBSET Nat /\ IsFiniteSet(before)
        /\ after \in SUBSET Nat /\ IsFiniteSet(after)
    BY TapsAreFinite
  <1>3. IsFiniteSet(Moved(before)) /\ (Odd(Moved(before)) <=> Odd(before))
    <2> HIDE DEF before
    <2>1. QED
      BY <1>2, MovedIsAsLarge DEF Odd
  <1>4. 0 \in after <=> bit \in Bits(bytes, i + 1)
    <2>1. (bit + Window - 0) % Window = bit
      <3> DEFINE x == bit + Window
      <3>1. x \in 0 .. Window + Window - 1
        BY <1>1
      <3>2. x % Window = IF x < Window THEN x ELSE x - Window
        <4> HIDE DEF x
        <4>1. QED
          BY <1>1, <3>1, Wraps
      <3>3. bit + Window - 0 = x /\ (IF x < Window THEN x ELSE x - Window) = bit
        BY <1>1
      <3> HIDE DEF x
      <3>4. QED
        BY <3>2, <3>3
    <2>2. (i + 1) - 0 = i + 1 /\ 0 < m + 1 /\ 0 \in 0 .. Window - 1
      BY <1>1
    <2>3. QED
      BY <2>1, <2>2 DEF Taps
  <1>5. ASSUME NEW k \in 0 .. Window - 1
        PROVE  /\ k \in before <=>
                     k < m /\ (bit + Window - (k + 1)) % Window \in Bits(bytes, i - k)
               /\ k + 1 \in after <=>
                     k + 1 < Window /\ k < m /\ (bit + Window - (k + 1)) % Window \in Bits(bytes, i - k)
    <2>1. k \in before <=> k < m /\ (bit + Window - (k + 1)) % Window \in Bits(bytes, i - k)
      <3>1. Cutter!Word = SUBSET (0 .. Window - 1) /\ {} \in Cutter!Word
        BY DEF Cutter!Word
      <3>2. (Below(bit) + Window - k) % Window = (bit + Window - (k + 1)) % Window
        BY <3>1, RotationIs
      <3>3. QED
        BY <3>2 DEF Taps
    <2>2. /\ k + 1 \in 0 .. Window - 1 <=> k + 1 < Window
          /\ k + 1 < m + 1 <=> k < m
          /\ (i + 1) - (k + 1) = i - k
      BY <1>1
    <2>3. k + 1 \in after <=>
              k + 1 < Window /\ k < m /\ (bit + Window - (k + 1)) % Window \in Bits(bytes, i - k)
      BY <2>2 DEF Taps
    <2>4. QED
      BY <2>1, <2>3
  <1>6. Window \in Moved(before) <=> goes
    <2> DEFINE k == Window - 1
    <2>1. k \in 0 .. Window - 1 /\ k + 1 = Window /\ i - k = i - Window + 1 /\ (k < m <=> Window <= m)
      BY <1>1
    <2>2. bit + Window - (k + 1) = bit /\ bit % Window = bit
      BY <1>1
    <2>3. k \in before <=> goes
      BY <1>5, <2>1, <2>2
    <2>4. Window \in Moved(before) <=> k \in before
      <3> HIDE DEF before
      <3>1. \A j \in before : j + 1 = Window <=> j = k
        BY <1>1, <1>2
      <3>2. QED
        BY <3>1, <2>1 DEF Moved
    <2>5. QED
      BY <2>3, <2>4
  <1>7. stay = Moved(before) \ {Window}
    <2>1. \A k \in before : k \in 0 .. Window - 1
      BY DEF Taps
    <2>2. \A k \in after : k \in 0 .. Window - 1
      BY DEF Taps
    <2> HIDE DEF before, after
    <2>3. ASSUME NEW x \in stay PROVE x \in Moved(before) \ {Window}
      <3>1. x \in after /\ x \in 0 .. Window - 1 /\ x # 0
        BY <2>2
      <3>2. x - 1 \in 0 .. Window - 1 /\ (x - 1) + 1 = x /\ x # Window
        BY <1>1, <3>1
      <3>3. x - 1 \in before
        BY <1>5, <3>1, <3>2
      <3>4. QED
        BY <3>2, <3>3 DEF Moved
    <2>4. ASSUME NEW x \in Moved(before) \ {Window} PROVE x \in stay
      <3>1. PICK k \in before : x = k + 1
        BY DEF Moved
      <3>2. k \in 0 .. Window - 1 /\ k + 1 < Window
        BY <1>1, <2>1, <3>1
      <3>3. k + 1 \in after /\ k + 1 # 0
        BY <1>5, <3>2
      <3>4. QED
        BY <3>1, <3>3
    <2>5. QED
      BY <2>3, <2>4
  <1> HIDE DEF before, after
  <1>8. IsFiniteSet(stay) /\ 0 \notin stay
    BY <1>2, FS_RemoveElement
  <1>9. Odd(stay) <=> (Odd(before) <=> ~goes)
    <2>1. CASE goes
      <3>1. Odd(Moved(before) \ {Window}) <=> ~Odd(Moved(before))
        BY <1>3, <1>6, <2>1, OddFlips
      <3>2. QED
        BY <1>3, <1>7, <2>1, <3>1
    <2>2. CASE ~goes
      <3>1. stay = Moved(before)
        BY <1>6, <1>7, <2>2
      <3>2. QED
        BY <1>3, <2>2, <3>1
    <2>3. QED
      BY <2>1, <2>2
  <1>10. Odd(after) <=> (Odd(stay) <=> 0 \notin after)
    <2>1. CASE 0 \in after
      <3>1. after = stay \cup {0}
        BY <2>1
      <3>2. Odd(stay \cup {0}) <=> ~Odd(stay)
        <4> HIDE DEF stay
        <4>1. QED
          BY <1>8, OddFlips
      <3>3. QED
        BY <2>1, <3>1, <3>2
    <2>2. CASE 0 \notin after
      <3>1. after = stay
        BY <2>2
      <3>2. QED
        BY <2>2, <3>1
    <2>3. QED
      BY <2>1, <2>2
  <1>11. Odd(after) <=> ((Odd(before) <=> ~goes) <=> bit \notin Bits(bytes, i + 1))
    BY <1>4, <1>9, <1>10
  <1>12. QED
    BY <1>11 DEF before, after

(* What the roller holds once it has taken m bytes, the last of them at i. *)
HashFits(rh, bytes, i, m) ==
    /\ rh \in Cutter!Roller
    /\ \A d \in 1 .. Window :
          rh.window[(rh.pos + Window - d) % Window] = IF d <= m THEN bytes[i - d + 1] ELSE Zero
    /\ \A bit \in 0 .. Window - 1 : bit \in rh.sum <=> Odd(Taps(bytes, i, m, bit))

LEMMA XorIs ==
    ASSUME NEW a, NEW b
    PROVE  \A x : x \in Cutter!Xor(a, b) <=> ~(x \in a <=> x \in b)
    BY DEF Cutter!Xor

LEMMA RollIsTyped ==
    ASSUME CutterConstants, NEW rh \in Cutter!Roller, NEW b \in Byte
    PROVE  Cutter!Roll(rh, b) \in Cutter!Roller
  <1>1. /\ Window \in Nat \ {0} /\ rh.pos \in 0 .. Window - 1
        /\ rh.window \in [0 .. Window - 1 -> Byte] /\ rh.sum \in Cutter!Word
    BY DEF CutterConstants, Cutter!Roller
  <1>2. Table[b] \in Cutter!Word /\ Table[rh.window[rh.pos]] \in Cutter!Word
    BY <1>1 DEF CutterConstants
  <1>3. \A x, y \in Cutter!Word : Cutter!Xor(x, y) \in Cutter!Word
    BY DEF Cutter!Word, Cutter!Xor
  <1>4. \A n \in Nat : n % Window \in 0 .. Window - 1
    BY <1>1
  <1>5. Cutter!RotateLeft(rh.sum) \in Cutter!Word
    <2>1. rh.sum \subseteq 0 .. Window - 1
      BY <1>1 DEF Cutter!Word
    <2>2. ASSUME NEW c \in rh.sum PROVE (c + 1) % Window \in 0 .. Window - 1
      <3>1. c + 1 \in Nat
        BY <2>1
      <3>2. QED
        BY <1>4, <3>1
    <2>3. QED
      BY <2>2 DEF Cutter!Word, Cutter!RotateLeft
  <1>6. Cutter!Xor(Cutter!RotateLeft(rh.sum), Cutter!Xor(Table[rh.window[rh.pos]], Table[b]))
            \in Cutter!Word
    BY <1>2, <1>3, <1>5
  <1>7. [rh.window EXCEPT ![rh.pos] = b] \in [0 .. Window - 1 -> Byte]
    BY <1>1
  <1>8. (rh.pos + 1) % Window \in 0 .. Window - 1
    <2>1. rh.pos + 1 \in Nat
      BY <1>1
    <2>2. QED
      BY <1>4, <2>1
  <1>9. QED
    BY <1>6, <1>7, <1>8 DEF Cutter!Roll, Cutter!Roller

LEMMA ResetFits ==
    ASSUME CutterConstants, NEW bytes, NEW i \in Nat
    PROVE  HashFits(Cutter!Reset, bytes, i, 0)
  <1>1. Window \in Nat \ {0} /\ Zero \in Byte
    BY DEF CutterConstants
  <1>2. Cutter!Reset \in Cutter!Roller
    BY <1>1 DEF Cutter!Reset, Cutter!Roller, Cutter!Word
  <1>3. /\ Cutter!Reset.sum = {} /\ Cutter!Reset.pos = 0
        /\ Cutter!Reset.window = [j \in 0 .. Window - 1 |-> Zero]
    BY DEF Cutter!Reset
  <1>4. ASSUME NEW d \in 1 .. Window
        PROVE  Cutter!Reset.window[(Cutter!Reset.pos + Window - d) % Window] = Zero /\ ~(d <= 0)
    <2>1. 0 + Window - d \in Nat
      BY <1>1
    <2>2. (0 + Window - d) % Window \in 0 .. Window - 1
      BY <1>1, <2>1
    <2>3. QED
      BY <1>3, <2>2
  <1>5. ASSUME NEW bit PROVE ~Odd(Taps(bytes, i, 0, bit))
    <2>1. Taps(bytes, i, 0, bit) = {}
      BY <1>1 DEF Taps
    <2>2. Cardinality({}) = 0
      BY FS_EmptySet
    <2>3. QED
      BY <2>1, <2>2 DEF Odd
  <1>6. QED
    BY <1>2, <1>3, <1>4, <1>5 DEF HashFits

LEMMA RollFits ==
    ASSUME CutterConstants, NEW bytes \in Seq(Byte), NEW i \in Nat, i + 1 <= Len(bytes),
           NEW m \in Nat, m <= i, NEW rh, HashFits(rh, bytes, i, m)
    PROVE  HashFits(Cutter!Roll(rh, bytes[i + 1]), bytes, i + 1, m + 1)
  <1> DEFINE b == bytes[i + 1]
             new == Cutter!Roll(rh, b)
             gone == rh.window[rh.pos]
  <1>1. Window \in Nat \ {0}
    BY DEF CutterConstants
  <1>2. b \in Byte
    <2>1. i + 1 \in 1 .. Len(bytes)
      OBVIOUS
    <2>2. QED
      BY <2>1, ElementOfSeq
  <1>3. /\ rh \in Cutter!Roller /\ rh.pos \in 0 .. Window - 1
        /\ rh.window \in [0 .. Window - 1 -> Byte] /\ rh.sum \in Cutter!Word
    BY DEF HashFits, Cutter!Roller
  <1>4. new \in Cutter!Roller
    BY <1>2, <1>3, RollIsTyped
  <1>5. /\ new.sum = Cutter!Xor(Cutter!RotateLeft(rh.sum), Cutter!Xor(Table[gone], Table[b]))
        /\ new.window = [rh.window EXCEPT ![rh.pos] = b]
        /\ new.pos = (rh.pos + 1) % Window
    BY DEF Cutter!Roll
  <1>6. new.pos = IF rh.pos = Window - 1 THEN 0 ELSE rh.pos + 1
    <2> DEFINE x == rh.pos + 1
    <2>1. x \in 0 .. Window + Window - 1
      BY <1>1, <1>3
    <2>2. x % Window = IF x < Window THEN x ELSE x - Window
      <3> HIDE DEF x
      <3>1. QED
        BY <1>1, <2>1, Wraps
    <2>3. (IF x < Window THEN x ELSE x - Window) = IF rh.pos = Window - 1 THEN 0 ELSE rh.pos + 1
      BY <1>1, <1>3
    <2>4. QED
      BY <1>5, <2>2, <2>3
  <1>7. gone = IF Window <= m THEN bytes[i - Window + 1] ELSE Zero
    <2>1. rh.pos + Window - Window = rh.pos /\ rh.pos % Window = rh.pos
      <3>1. rh.pos \in 0 .. Window + Window - 1 /\ rh.pos < Window
        BY <1>1, <1>3
      <3>2. rh.pos % Window = rh.pos
        BY <1>1, <3>1, Wraps
      <3>3. QED
        BY <1>1, <3>1, <3>2
    <2>2. Window \in 1 .. Window
      BY <1>1
    <2>3. rh.window[(rh.pos + Window - Window) % Window]
              = IF Window <= m THEN bytes[i - Window + 1] ELSE Zero
      BY <2>2 DEF HashFits
    <2>4. (rh.pos + Window - Window) % Window = rh.pos
      BY <2>1
    <2>5. QED
      BY <2>3, <2>4
  <1> HIDE DEF new, gone, b
  <1>8. ASSUME NEW d \in 1 .. Window
        PROVE  new.window[(new.pos + Window - d) % Window]
                   = IF d <= m + 1 THEN bytes[(i + 1) - d + 1] ELSE Zero
    <2> DEFINE x == new.pos + Window - d
               y == rh.pos + Window - (d - 1)
    <2>1. x \in 0 .. Window + Window - 1
      BY <1>1, <1>3, <1>6
    <2>2. x % Window = IF x < Window THEN x ELSE x - Window
      <3> HIDE DEF x
      <3>1. QED
        BY <1>1, <2>1, Wraps
    <2>3. CASE d = 1
      <3>1. (IF x < Window THEN x ELSE x - Window) = rh.pos
        BY <1>1, <1>3, <1>6, <2>3
      <3>2. new.window[rh.pos] = b
        BY <1>3, <1>5
      <3>3. d <= m + 1 /\ (i + 1) - d + 1 = i + 1
        BY <2>3
      <3>4. QED
        BY <2>2, <3>1, <3>2, <3>3 DEF b
    <2>4. CASE d # 1
      <3>1. y \in 0 .. Window + Window - 1 /\ d - 1 \in 1 .. Window
        BY <1>1, <1>3, <2>4
      <3>2. y % Window = IF y < Window THEN y ELSE y - Window
        <4> HIDE DEF y
        <4>1. QED
          BY <1>1, <3>1, Wraps
      <3> DEFINE j == IF y < Window THEN y ELSE y - Window
      <3>3. /\ (IF x < Window THEN x ELSE x - Window) = j
            /\ j \in 0 .. Window - 1 /\ j # rh.pos
        <4>1. CASE rh.pos = Window - 1
          <5>1. x = Window - d /\ y = Window + Window - d
            BY <1>1, <1>3, <1>6, <4>1
          <5> HIDE DEF x, y
          <5>2. QED
            BY <1>1, <2>4, <4>1, <5>1
        <4>2. CASE rh.pos # Window - 1
          <5>1. x = rh.pos + 1 + Window - d
            <6>1. new.pos = rh.pos + 1
              BY <1>6, <4>2
            <6>2. QED
              BY <6>1
          <5>2. y = rh.pos + 1 + Window - d
            BY <1>1, <1>3
          <5> HIDE DEF x, y
          <5>3. QED
            BY <1>1, <1>3, <2>4, <4>2, <5>1, <5>2
        <4>3. QED
          BY <4>1, <4>2
      <3>4. rh.window[y % Window] = IF d - 1 <= m THEN bytes[i - (d - 1) + 1] ELSE Zero
        <4> DEFINE e == d - 1
        <4>1. \A c \in 1 .. Window : rh.window[(rh.pos + Window - c) % Window]
                                        = IF c <= m THEN bytes[i - c + 1] ELSE Zero
          BY DEF HashFits
        <4>2. e \in 1 .. Window /\ y = rh.pos + Window - e
          BY <3>1
        <4> HIDE DEF e
        <4>3. rh.window[(rh.pos + Window - e) % Window] = IF e <= m THEN bytes[i - e + 1] ELSE Zero
          BY <4>1, <4>2
        <4> HIDE DEF y
        <4>4. rh.window[y % Window] = IF e <= m THEN bytes[i - e + 1] ELSE Zero
          BY <4>2, <4>3
        <4>5. QED
          BY <4>4 DEF e
      <3>5. (d - 1 <= m <=> d <= m + 1) /\ i - (d - 1) + 1 = (i + 1) - d + 1
        OBVIOUS
      <3>6. rh.window[j] = IF d <= m + 1 THEN bytes[(i + 1) - d + 1] ELSE Zero
        BY <3>2, <3>4, <3>5
      <3> HIDE DEF j
      <3>7. new.window[j] = rh.window[j]
        BY <1>3, <1>5, <3>3
      <3>8. QED
        BY <2>2, <3>3, <3>6, <3>7
    <2>5. QED
      BY <2>3, <2>4
  <1>9. ASSUME NEW bit \in 0 .. Window - 1
        PROVE  bit \in new.sum <=> Odd(Taps(bytes, i + 1, m + 1, bit))
    <2>1. bit \in new.sum <=>
              ~(bit \in Cutter!RotateLeft(rh.sum) <=> ~(bit \in Table[gone] <=> bit \in Table[b]))
      BY <1>5, XorIs
    <2>2. /\ Below(bit) \in 0 .. Window - 1
          /\ bit \in Cutter!RotateLeft(rh.sum) <=> Below(bit) \in rh.sum
      BY <1>3, RotationIs
    <2>3. Below(bit) \in rh.sum <=> Odd(Taps(bytes, i, m, Below(bit)))
      BY <2>2 DEF HashFits
    <2>4. bit \in Bits(bytes, i + 1) <=> ~(bit \in Table[b] <=> bit \in Table[Zero])
      BY XorIs DEF Bits, b
    <2>5. (Window <= m /\ bit \in Bits(bytes, i - Window + 1))
              <=> ~(bit \in Table[gone] <=> bit \in Table[Zero])
      <3>1. CASE Window <= m
        BY <3>1, <1>7, XorIs DEF Bits
      <3>2. CASE ~(Window <= m)
        BY <3>2, <1>7
      <3>3. QED
        BY <3>1, <3>2
    <2>6. Odd(Taps(bytes, i + 1, m + 1, bit)) <=>
             ((Odd(Taps(bytes, i, m, Below(bit)))
                 <=> ~(Window <= m /\ bit \in Bits(bytes, i - Window + 1)))
                 <=> bit \notin Bits(bytes, i + 1))
      BY TapsStep
    <2>7. QED
      BY <2>1, <2>2, <2>3, <2>4, <2>5, <2>6
  <1>10. HashFits(new, bytes, i + 1, m + 1)
    BY <1>4, <1>8, <1>9 DEF HashFits
  <1>11. QED
    BY <1>10 DEF new, b

Rolls(f, bytes, start) ==
    f = [i \in start .. Len(bytes) |->
            IF i = start THEN Cutter!Reset ELSE Cutter!Roll(f[i - 1], bytes[i])]

LEMMA RollsExist ==
    ASSUME CutterConstants, NEW bytes \in Seq(Byte), NEW start \in Nat
    PROVE  \E f : Rolls(f, bytes, start)
  <1>1. CASE start > Len(bytes)
    <2>1. start .. Len(bytes) = {}
      BY <1>1
    <2> DEFINE f == [i \in start .. Len(bytes) |-> Cutter!Reset]
    <2>2. Rolls(f, bytes, start)
      BY <2>1 DEF Rolls
    <2>3. QED
      BY <2>2
  <1>2. CASE start <= Len(bytes)
    <2> DEFINE n == Len(bytes) - start
               V == Cutter!Roller
               step == [pair \in (1 .. n) \X V |-> Cutter!Roll(pair[2], bytes[start + pair[1]])]
    <2>1. n \in Nat
      BY <1>2
    <2>2. Cutter!Reset \in V
      BY ResetFits DEF HashFits
    <2>3. ASSUME NEW k \in 1 .. n, NEW rh \in V PROVE Cutter!Roll(rh, bytes[start + k]) \in V
      <3>1. start + k \in 1 .. Len(bytes)
        BY <1>2
      <3>2. bytes[start + k] \in Byte
        BY <3>1, ElementOfSeq
      <3>3. QED
        BY <3>2, RollIsTyped
    <2>4. /\ step \in [(1 .. n) \X V -> V]
          /\ \A k \in 1 .. n, rh \in V : step[<<k, rh>>] = Cutter!Roll(rh, bytes[start + k])
      BY <2>3
    <2> HIDE DEF V, step
    <2>5. PICK g \in [0 .. n -> V] : IsComputed(g, Cutter!Reset, step, n)
      BY <2>1, <2>2, <2>4, Computable
    <2> DEFINE f == [i \in start .. Len(bytes) |-> g[i - start]]
    <2>6. /\ \A i \in start .. Len(bytes) : f[i] = g[i - start]
          /\ f = [i \in start .. Len(bytes) |-> f[i]]
      OBVIOUS
    <2> HIDE DEF f
    <2>7. ASSUME NEW i \in start .. Len(bytes)
          PROVE  f[i] = IF i = start THEN Cutter!Reset ELSE Cutter!Roll(f[i - 1], bytes[i])
      <3>1. CASE i = start
        <4>1. i - start = 0
          BY <3>1
        <4>2. QED
          BY <3>1, <4>1, <2>5, <2>6 DEF IsComputed
      <3>2. CASE i # start
        <4> DEFINE k == i - start
        <4>1. /\ k \in 1 .. n /\ k - 1 \in 0 .. n /\ start + k = i
              /\ i - 1 \in start .. Len(bytes) /\ (i - 1) - start = k - 1
          BY <3>2, <1>2
        <4>2. f[i] = g[k] /\ f[i - 1] = g[k - 1]
          BY <4>1, <2>6
        <4> HIDE DEF k, n
        <4>3. g[k] = step[<<k, g[k - 1]>>] /\ g[k - 1] \in V
          BY <4>1, <2>5 DEF IsComputed
        <4>4. QED
          BY <3>2, <4>1, <4>2, <4>3, <2>4
      <3>3. QED
        BY <3>1, <3>2
    <2>8. Rolls(f, bytes, start)
      BY <2>6, <2>7 DEF Rolls
    <2>9. QED
      BY <2>8
  <1>3. QED
    BY <1>1, <1>2

LEMMA RollsFit ==
    ASSUME CutterConstants, NEW bytes \in Seq(Byte), NEW start \in Nat,
           NEW f, Rolls(f, bytes, start)
    PROVE  \A i \in start .. Len(bytes) : HashFits(f[i], bytes, i, i - start)
  <1> DEFINE S == {m \in Nat : start + m <= Len(bytes) =>
                                   HashFits(f[start + m], bytes, start + m, m)}
  <1>0. \A i \in start .. Len(bytes) :
            f[i] = IF i = start THEN Cutter!Reset ELSE Cutter!Roll(f[i - 1], bytes[i])
    BY DEF Rolls
  <1>1. 0 \in S
    <2>1. SUFFICES ASSUME start <= Len(bytes) PROVE HashFits(f[start], bytes, start, 0)
      OBVIOUS
    <2>2. f[start] = Cutter!Reset
      BY <1>0, <2>1
    <2>3. QED
      BY <2>2, ResetFits
  <1>2. ASSUME NEW m \in S PROVE m + 1 \in S
    <2>1. SUFFICES ASSUME start + (m + 1) <= Len(bytes)
                   PROVE  HashFits(f[start + (m + 1)], bytes, start + (m + 1), m + 1)
      OBVIOUS
    <2> DEFINE i == start + m
    <2>2. m \in Nat /\ i \in Nat /\ m <= i /\ i + 1 <= Len(bytes) /\ start + (m + 1) = i + 1
      BY <2>1
    <2>3. HashFits(f[i], bytes, i, m)
      BY <2>1
    <2> HIDE DEF S
    <2>4. i + 1 \in start .. Len(bytes) /\ i + 1 # start /\ (i + 1) - 1 = i
      BY <2>2
    <2> HIDE DEF i
    <2>5. f[i + 1] = Cutter!Roll(f[i], bytes[i + 1])
      BY <1>0, <2>4
    <2>6. HashFits(Cutter!Roll(f[i], bytes[i + 1]), bytes, i + 1, m + 1)
      BY <2>2, <2>3, RollFits
    <2>7. QED
      BY <2>2, <2>5, <2>6
  <1>3. S \in SUBSET Nat
    OBVIOUS
  <1> HIDE DEF S
  <1>4. S = Nat
    BY <1>1, <1>2, <1>3, EveryNumber
  <1>5. ASSUME NEW i \in start .. Len(bytes) PROVE HashFits(f[i], bytes, i, i - start)
    <2>1. i - start \in Nat /\ start + (i - start) = i /\ i <= Len(bytes)
      OBVIOUS
    <2>2. i - start \in S
      BY <1>4, <2>1
    <2>3. QED
      BY <2>1, <2>2 DEF S
  <1>6. QED
    BY <1>5

(* The bytes below the start of the scan have no say in a position that is  *)
(* not below the minimum. *)
LEMMA HashIs ==
    ASSUME CutterConstants, NEW bytes \in Seq(Byte), NEW p \in Cutter!Params,
           NEW i \in 1 .. Len(bytes), i >= p.MinSize,
           NEW rh, HashFits(rh, bytes, i, i - Cutter!ScanStart(p))
    PROVE  rh.sum = Cutter!HashAt(bytes, i)
  <1> DEFINE start == Cutter!ScanStart(p)
  <1>1. Window \in Nat \ {0} /\ p.MinSize \in Nat
    BY DEF CutterConstants, Cutter!Params
  <1>2. start = 0 \/ i - start >= Window
    BY <1>1 DEF Cutter!ScanStart
  <1>3. ASSUME NEW bit \in 0 .. Window - 1
        PROVE  Taps(bytes, i, i - start, bit) = Taps(bytes, i, i, bit)
    <2>1. start \in Nat /\ start <= i
      BY <1>1 DEF Cutter!ScanStart
    <2> HIDE DEF start
    <2>2. \A k \in 0 .. Window - 1 : k < i - start <=> k < i
      BY <1>1, <1>2, <2>1
    <2>3. QED
      BY <2>2 DEF Taps
  <1>4. Cutter!HashAt(bytes, i) = {bit \in 0 .. Window - 1 : Odd(Taps(bytes, i, i, bit))}
    <2>1. \A T : Cutter!Cardinality(T) = Cardinality(T)
      BY DEF Cutter!Cardinality, Cardinality
    <2>2. ASSUME NEW bit \in 0 .. Window - 1
          PROVE  bit \in Cutter!HashAt(bytes, i) <=> Odd(Taps(bytes, i, i, bit))
      <3>1. bit \in Cutter!HashAt(bytes, i) <=>
                Cutter!Cardinality(Taps(bytes, i, i, bit)) % 2 = 1
        BY DEF Cutter!HashAt, Taps, Bits
      <3>2. QED
        BY <2>1, <3>1 DEF Odd
    <2>3. Cutter!HashAt(bytes, i) \subseteq 0 .. Window - 1
      BY DEF Cutter!HashAt
    <2>4. QED
      BY <2>2, <2>3
  <1>5. rh.sum \subseteq 0 .. Window - 1
    BY DEF HashFits, Cutter!Roller, Cutter!Word
  <1>6. \A bit \in 0 .. Window - 1 : bit \in rh.sum <=> Odd(Taps(bytes, i, i - start, bit))
    BY DEF HashFits
  <1> HIDE DEF start
  <1>7. QED
    BY <1>3, <1>4, <1>5, <1>6

(* Where a chunk may end is where the hash of its own bytes allows it, and  *)
(* the chunk ends at the first such place, or where the bytes do. *)
LEMMA BoundaryIs ==
    ASSUME CutterConstants, NEW bytes \in Seq(Byte), NEW p \in Cutter!Params
    PROVE  LET n == Cutter!Boundary(bytes, p)
           IN  /\ n \in 0 .. Len(bytes)
               /\ bytes # <<>> => n > 0
               /\ \A i \in 1 .. n - 1 : ~Cutter!MayEnd(bytes, p, i)
               /\ n = Len(bytes) \/ Cutter!MayEnd(bytes, p, n)
  <1> DEFINE start == Cutter!ScanStart(p)
             last == Len(bytes)
             n == Cutter!Boundary(bytes, p)
  <1>1. start \in Nat /\ last \in Nat /\ p.MinSize \in Nat /\ (bytes # <<>> => last > 0)
    BY DEF CutterConstants, Cutter!ScanStart, Cutter!Params
  <1>2. \A i \in Nat : i > 0 /\ i >= p.MinSize => i >= start + 1
    BY <1>1 DEF CutterConstants, Cutter!ScanStart
  <1> DEFINE f == CHOOSE g : Rolls(g, bytes, start)
             cuts == {i \in start + 1 .. last : i >= p.MinSize /\ Cutter!IsCut(f[i], p)}
  <1>3. Rolls(f, bytes, start)
    <2>1. \E g : Rolls(g, bytes, start)
      BY <1>1, RollsExist
    <2>2. QED
      BY <2>1
  <1>4. n = IF cuts = {} THEN last ELSE CHOOSE i \in cuts : \A j \in cuts : i <= j
    BY DEF Rolls, Cutter!Boundary
  <1> HIDE DEF f
  <1> HIDE DEF n
  <1>5. ASSUME NEW i \in 1 .. last PROVE i \in cuts <=> Cutter!MayEnd(bytes, p, i)
    <2>1. CASE ~(i >= p.MinSize)
      BY <2>1 DEF Cutter!MayEnd
    <2>2. CASE i >= p.MinSize
      <3>1. i \in start + 1 .. last /\ i \in start .. last
        BY <1>1, <1>2, <2>2
      <3> HIDE DEF start, last
      <3>2. HashFits(f[i], bytes, i, i - start)
        BY <1>1, <1>3, <3>1, RollsFit DEF last
      <3>3. f[i].sum = Cutter!HashAt(bytes, i)
        BY <2>2, <3>2, HashIs DEF start, last
      <3>4. QED
        BY <2>2, <3>1, <3>3 DEF Cutter!MayEnd, Cutter!IsCut
    <2>3. QED
      BY <2>1, <2>2
  <1>6. cuts \in SUBSET Nat /\ cuts \subseteq 1 .. last
    BY <1>1
  <1> HIDE DEF cuts, start
  <1>7. CASE cuts = {}
    <2>1. n = last
      BY <1>4, <1>7
    <2>2. QED
      BY <1>1, <1>5, <1>7, <2>1 DEF n
  <1>8. CASE cuts # {}
    <2>1. \E i \in cuts : \A j \in cuts : i <= j
      BY <1>6, <1>8, LeastNumber
    <2>2. n \in cuts /\ \A j \in cuts : n <= j
      BY <1>4, <1>8, <2>1
    <2>3. n \in 1 .. last /\ Cutter!MayEnd(bytes, p, n)
      BY <1>5, <1>6, <2>2
    <2>4. ASSUME NEW i \in 1 .. n - 1 PROVE ~Cutter!MayEnd(bytes, p, i)
      <3>1. i \in 1 .. last /\ ~(n <= i)
        BY <1>1, <2>3
      <3>2. QED
        BY <1>5, <2>2, <3>1
    <2>5. QED
      BY <1>1, <2>3, <2>4 DEF n
  <1>9. QED
    BY <1>7, <1>8

(* A position of a chunk is judged by the bytes up to it. *)
LEMMA MayEndAgrees ==
    ASSUME NEW s, NEW t, NEW p, NEW n \in Nat, AgreeUpTo(s, t, n), NEW i \in 1 .. n
    PROVE  Cutter!MayEnd(s, p, i) <=> Cutter!MayEnd(t, p, i)
  <1>1. ASSUME NEW bit
        PROVE  {k \in 0 .. Window - 1 :
                   k < i /\ (bit + Window - k) % Window \in Cutter!Xor(Table[s[i - k]], Table[Zero])}
             = {k \in 0 .. Window - 1 :
                   k < i /\ (bit + Window - k) % Window \in Cutter!Xor(Table[t[i - k]], Table[Zero])}
    <2>1. ASSUME NEW k \in 0 .. Window - 1, k < i PROVE s[i - k] = t[i - k]
      <3>1. i - k \in 1 .. n
        BY <2>1
      <3>2. QED
        BY <3>1 DEF AgreeUpTo
    <2>2. QED
      BY <2>1
  <1>2. Cutter!HashAt(s, i) = Cutter!HashAt(t, i)
    BY <1>1 DEF Cutter!HashAt
  <1>3. QED
    BY <1>2 DEF Cutter!MayEnd

LEMMA ChunkIsRight ==
    ASSUME CutterConstants, NEW bytes \in Seq(Byte), NEW next \in Seq(Byte),
           NEW p \in Cutter!Params, Cutter!Valid(p),
           bytes # <<>>, Len(bytes) <= p.MaxSize, Len(bytes) <= Len(next),
           AgreeUpTo(bytes, next, Len(bytes)),
           Len(bytes) = p.MaxSize \/ Len(bytes) = Len(next)
    PROVE  Cutter!IsChunkOf(SubSeq(bytes, 1, Cutter!Boundary(bytes, p)), next, p)
  <1> DEFINE n == Cutter!Boundary(bytes, p)
             chunk == SubSeq(bytes, 1, n)
             last == Len(bytes)
  <1>1. /\ n \in 1 .. last /\ last \in Nat
        /\ \A i \in 1 .. n - 1 : ~Cutter!MayEnd(bytes, p, i)
        /\ n = last \/ Cutter!MayEnd(bytes, p, n)
    BY BoundaryIs
  <1> HIDE DEF n
  <1>2. chunk \in Seq(Byte) /\ Len(chunk) = n /\ \A i \in 1 .. n : chunk[i] = bytes[i]
    <2>1. \A i \in 1 .. n : bytes[i] \in Byte
      BY <1>1, ElementOfSeq
    <2>2. n \in Int /\ n >= 1 /\ n - 1 + 1 = n /\ \A i \in 1 .. n : 1 + i - 1 = i
      BY <1>1
    <2>3. QED
      BY <2>1, <2>2, SubSeqProperties
  <1>3. /\ p.MinSize \in Nat /\ p.MaxSize \in Nat /\ p.MinSize <= p.MaxSize
    BY DEF Cutter!Params, Cutter!Valid, CutterConstants
  <1>4. \A i \in 1 .. last : Cutter!MayEnd(bytes, p, i) <=> Cutter!MayEnd(next, p, i)
    BY <1>1, MayEndAgrees
  <1>5. n > 0 /\ n <= p.MaxSize
    BY <1>1, <1>3
  <1>6. n >= p.MinSize \/ n = Len(next)
    <2>1. CASE n = last
      BY <1>1, <1>3, <2>1
    <2>2. CASE Cutter!MayEnd(bytes, p, n)
      BY <2>2 DEF Cutter!MayEnd
    <2>3. QED
      BY <1>1, <2>1, <2>2
  <1>7. Cutter!IsPrefix(chunk, next)
    <2>1. n <= Len(next) /\ Len(next) \in Nat
      BY <1>1
    <2>2. /\ SubSeq(chunk, 1, n) \in Seq(Byte) /\ Len(SubSeq(chunk, 1, n)) = n
          /\ \A i \in 1 .. n : SubSeq(chunk, 1, n)[i] = chunk[i]
      <3>1. SubSeq(chunk, 1, n) = chunk
        BY <1>2, SubSeqFull
      <3> HIDE DEF chunk
      <3>2. QED
        BY <1>2, <3>1
    <2>3. /\ SubSeq(next, 1, n) \in Seq(Byte) /\ Len(SubSeq(next, 1, n)) = n
          /\ \A i \in 1 .. n : SubSeq(next, 1, n)[i] = next[i]
      <3>1. \A i \in 1 .. n : next[i] \in Byte
        BY <1>1, <2>1, ElementOfSeq
      <3>2. n \in Int /\ n >= 1 /\ n - 1 + 1 = n /\ \A i \in 1 .. n : 1 + i - 1 = i
        BY <1>1
      <3>3. QED
        BY <3>1, <3>2, SubSeqProperties
    <2>4. \A i \in 1 .. n : chunk[i] = next[i]
      BY <1>1, <1>2 DEF AgreeUpTo
    <2> HIDE DEF chunk
    <2>5. SubSeq(chunk, 1, n) = SubSeq(next, 1, n)
      BY <2>2, <2>3, <2>4, SeqEqual
    <2>6. QED
      BY <1>2, <2>1, <2>5 DEF Cutter!IsPrefix
  <1>8. \A i \in 1 .. n - 1 : ~Cutter!MayEnd(next, p, i)
    <2>1. \A i \in 1 .. n - 1 : i \in 1 .. last
      BY <1>1
    <2>2. QED
      BY <1>1, <1>4, <2>1
  <1>9. n = p.MaxSize \/ n = Len(next) \/ Cutter!MayEnd(next, p, n)
    BY <1>1, <1>4
  <1> HIDE DEF chunk
  <1>10. Cutter!IsChunkOf(chunk, next, p)
    BY <1>2, <1>5, <1>6, <1>7, <1>8, <1>9 DEF Cutter!IsChunkOf
  <1>11. QED
    BY <1>10 DEF chunk, n

(* The chunks before the c-th are the same once another one follows. *)
LEMMA CutsGrow ==
    ASSUME CutterConstants, NEW chunks \in Seq(Seq(Byte)), NEW x \in Seq(Byte),
           NEW file, NEW p,
           \A c \in 1 .. Len(chunks) :
               Cutter!IsChunkOf(chunks[c],
                   SubSeq(file, Len(Cutter!FlattenSeq(SubSeq(chunks, 1, c - 1))) + 1, Len(file)), p),
           Cutter!IsChunkOf(x, SubSeq(file, Len(Cutter!FlattenSeq(chunks)) + 1, Len(file)), p)
    PROVE  \A c \in 1 .. Len(Append(chunks, x)) :
               Cutter!IsChunkOf(Append(chunks, x)[c],
                   SubSeq(file, Len(Cutter!FlattenSeq(SubSeq(Append(chunks, x), 1, c - 1))) + 1, Len(file)), p)
  <1> DEFINE more == Append(chunks, x)
             n == Len(chunks)
  <1>1. /\ more \in Seq(Seq(Byte)) /\ Len(more) = n + 1 /\ n \in Nat
        /\ \A i \in 1 .. n : more[i] = chunks[i]
        /\ more[n + 1] = x
    BY AppendProperties
  <1> HIDE DEF more
  <1>2. ASSUME NEW c \in 1 .. n + 1 PROVE SubSeq(more, 1, c - 1) = SubSeq(chunks, 1, c - 1)
    <2> DEFINE k == c - 1
    <2>0. k \in Int /\ k <= n /\ k >= 0 /\ k - 1 + 1 = k
      BY <1>1
    <2>1. /\ k \in Int /\ k <= n /\ k >= 0 /\ k - 1 + 1 = k
          /\ \A i \in 1 .. k : 1 + i - 1 = i /\ i \in 1 .. n /\ i \in 1 .. n + 1
      <3> HIDE DEF k, n
      <3>1. QED
        BY <1>1, <2>0
    <2>2. \A i \in 1 .. k : more[i] \in Seq(Byte) /\ chunks[i] \in Seq(Byte)
      <3>1. \A i \in 1 .. n : chunks[i] \in Seq(Byte)
        BY ElementOfSeq
      <3>2. QED
        BY <1>1, <2>1, <3>1
    <2> HIDE DEF k
    <2>3. /\ SubSeq(more, 1, k) \in Seq(Seq(Byte)) /\ Len(SubSeq(more, 1, k)) = IF 1 <= k THEN k ELSE 0
          /\ \A i \in 1 .. k : SubSeq(more, 1, k)[i] = more[i]
      BY <2>1, <2>2, SubSeqProperties
    <2>4. /\ SubSeq(chunks, 1, k) \in Seq(Seq(Byte)) /\ Len(SubSeq(chunks, 1, k)) = IF 1 <= k THEN k ELSE 0
          /\ \A i \in 1 .. k : SubSeq(chunks, 1, k)[i] = chunks[i]
      BY <2>1, <2>2, SubSeqProperties
    <2>5. \A i \in 1 .. Len(SubSeq(more, 1, k)) : SubSeq(more, 1, k)[i] = SubSeq(chunks, 1, k)[i]
      BY <1>1, <2>1, <2>3, <2>4
    <2>6. SubSeq(more, 1, k) = SubSeq(chunks, 1, k)
      BY <2>3, <2>4, <2>5, SeqEqual
    <2>7. QED
      BY <2>6 DEF k
  <1>3. ASSUME NEW c \in 1 .. n + 1
        PROVE  Cutter!IsChunkOf(more[c],
                   SubSeq(file, Len(Cutter!FlattenSeq(SubSeq(more, 1, c - 1))) + 1, Len(file)), p)
    <2>1. CASE c \in 1 .. n
      BY <1>1, <1>2, <2>1
    <2>2. CASE c = n + 1
      <3>1. c - 1 = n /\ SubSeq(chunks, 1, n) = chunks
        BY <1>1, <2>2, SubSeqFull
      <3>2. SubSeq(more, 1, c - 1) = chunks
        BY <1>2, <3>1
      <3>3. QED
        BY <1>1, <2>2, <3>2
    <2>3. QED
      BY <1>1, <2>1, <2>2
  <1>4. QED
    BY <1>1, <1>3 DEF more

(* The part of the file that the sink has seen, or has been offered. *)
Sent == Cutter!FlattenSeq(refs)

(* Where the window begins in the file. *)
Base == Len(Sent) - emitted

(* What the window, the sink and the reader have of the file, as long as    *)
(* nothing has failed. *)
InStep ==
    /\ state # "open" => Cutter!Valid(params)
    /\ Base \in Nat /\ read = Base + Len(buf)
    /\ AgreeUpTo(Sent, input, Len(Sent))
    /\ \A i \in 1 .. Len(buf) : buf[i] = input[Base + i]
    /\ eof => read = Len(input)
    /\ state = "cut" => emitted = 0 /\ buf # <<>> /\ Cutter!Full
    /\ state = "done" => read = Base /\ eof /\ emitted = 0

CutterInv ==
    /\ Cutter!TypeOK
    /\ state # "failed" => InStep
    /\ Cutter!CutsFollowTheContent

LEMMA CutterTypes ==
    ASSUME CutterConstants, Cutter!TypeOK
    PROVE  /\ input \in Seq(Byte) /\ Len(input) \in Nat /\ Len(input) <= MaxInput
           /\ params \in Cutter!Params /\ params.MaxSize \in Nat /\ MaxInput \in Nat
           /\ read \in Nat /\ read <= Len(input)
           /\ buf \in Seq(Byte) /\ Len(buf) \in Nat /\ Len(buf) <= params.MaxSize
           /\ emitted \in Nat /\ emitted <= Len(buf)
           /\ refs \in Seq(Seq(Byte)) /\ Len(refs) \in Nat
           /\ Sent \in Seq(Byte) /\ Len(Sent) \in Nat
  <1>1. MaxInput \in Nat
    BY DEF CutterConstants
  <1>2. input \in Seq(Byte) /\ Len(input) \in Nat /\ Len(input) <= MaxInput
    <2>1. PICK n \in 0 .. MaxInput : input \in [1 .. n -> Byte]
      BY DEF Cutter!TypeOK, Cutter!Inputs
    <2>2. n \in Nat
      BY <1>1
    <2>3. input \in Seq(Byte) /\ Len(input) = n
      BY <2>1, <2>2
    <2>4. QED
      BY <1>1, <2>3
  <1>3. params \in Cutter!Params /\ params.MaxSize \in Nat
    BY <1>1 DEF Cutter!TypeOK, Cutter!Params
  <1>4. buf \in Seq(Byte) /\ Len(buf) \in Nat /\ Len(buf) <= params.MaxSize
    BY DEF Cutter!TypeOK
  <1>5. read \in Nat /\ read <= Len(input) /\ emitted \in Nat /\ emitted <= Len(buf)
    BY <1>2, <1>4 DEF Cutter!TypeOK
  <1>6. refs \in Seq(Seq(Byte)) /\ Len(refs) \in Nat
    BY DEF Cutter!TypeOK
  <1>7. Sent \in Seq(Byte) /\ Len(Sent) \in Nat
    <2>1. <<>> \in Seq(Byte)
      OBVIOUS
    <2>2. Sent \in Seq(Byte)
      BY <1>6, <2>1, FlattenAppend DEF Sent
    <2>3. QED
      BY <2>2
  <1>8. QED
    BY <1>1, <1>2, <1>3, <1>4, <1>5, <1>6, <1>7

(* Steps that leave the chunks alone leave the cuts right. *)
LEMMA CutsStay ==
    ASSUME Cutter!CutsFollowTheContent, UNCHANGED <<input, params, refs>>
    PROVE  Cutter!CutsFollowTheContent'
    BY DEF Cutter!CutsFollowTheContent

LEMMA CutterInit ==
    ASSUME CutterConstants, Cutter!Init
    PROVE  CutterInv
  <1>1. MaxInput \in Nat /\ params \in Cutter!Params
    BY DEF CutterConstants, Cutter!Init
  <1>2. /\ input \in Cutter!Inputs /\ read = 0 /\ buf = <<>> /\ emitted = 0 /\ eof = FALSE
        /\ refs = <<>> /\ state = "open"
    BY DEF Cutter!Init
  <1>3. input \in Seq(Byte) /\ Len(input) \in Nat
    <2>1. PICK n \in 0 .. MaxInput : input \in [1 .. n -> Byte]
      BY <1>2 DEF Cutter!Inputs
    <2>2. QED
      BY <1>1, <2>1
  <1>4. Cutter!TypeOK
    <2>1. params.MaxSize \in Nat
      BY <1>1 DEF Cutter!Params
    <2>2. buf \in Seq(Byte) /\ Len(buf) = 0 /\ refs \in Seq(Seq(Byte))
      BY <1>2
    <2>3. Len(buf) <= params.MaxSize /\ emitted \in 0 .. Len(buf) /\ read \in 0 .. Len(input)
      BY <1>2, <1>3, <2>1, <2>2
    <2>4. QED
      BY <1>1, <1>2, <2>2, <2>3 DEF Cutter!TypeOK
  <1>5. Sent = <<>> /\ Len(Sent) = 0 /\ Base = 0
    BY <1>2, FlattenEmpty DEF Sent, Base
  <1>6. InStep
    BY <1>2, <1>5 DEF InStep, AgreeUpTo
  <1>7. Cutter!CutsFollowTheContent
    BY <1>2 DEF Cutter!CutsFollowTheContent
  <1>8. QED
    BY <1>4, <1>6, <1>7 DEF CutterInv

LEMMA CutterOpen ==
    ASSUME CutterConstants, CutterInv, Cutter!Open
    PROVE  CutterInv'
  <1>1. /\ state = "open" /\ state' = IF Cutter!Valid(params) THEN "fill" ELSE "failed"
        /\ UNCHANGED <<input, params, read, buf, emitted, eof, refs>>
    BY DEF Cutter!Open
  <1>2. Cutter!TypeOK'
    BY <1>1 DEF CutterInv, Cutter!TypeOK
  <1>3. Sent' = Sent /\ Base' = Base
    BY <1>1 DEF Sent, Base
  <1>4. state' # "failed" => InStep'
    <2>1. SUFFICES ASSUME state' # "failed" PROVE InStep'
      OBVIOUS
    <2>2. InStep /\ state' = "fill" /\ Cutter!Valid(params)
      BY <1>1, <2>1 DEF CutterInv
    <2>3. Cutter!Valid(params)'
      BY <1>1, <2>2 DEF Cutter!Valid
    <2>4. AgreeUpTo(Sent, input, Len(Sent))'
      BY <1>1, <1>3, <2>2 DEF InStep, AgreeUpTo
    <2>5. QED
      BY <1>1, <1>3, <2>2, <2>3, <2>4 DEF InStep
  <1>5. QED
    BY <1>1, <1>2, <1>4, CutsStay DEF CutterInv

LEMMA CutterDrop ==
    ASSUME CutterConstants, CutterInv, Cutter!DropEmitted
    PROVE  CutterInv'
  <1>1. /\ state = "fill" /\ emitted > 0 /\ emitted' = 0
        /\ buf' = SubSeq(buf, emitted + 1, Len(buf))
        /\ UNCHANGED <<input, params, read, eof, refs, state>>
    BY DEF Cutter!DropEmitted
  <1>2. InStep /\ Cutter!TypeOK
    BY <1>1 DEF CutterInv
  <1>3. /\ buf \in Seq(Byte) /\ Len(buf) \in Nat /\ Len(buf) <= params.MaxSize
        /\ emitted \in Nat /\ emitted <= Len(buf) /\ Len(Sent) \in Nat /\ params.MaxSize \in Nat
        /\ read \in Nat
    BY <1>2, CutterTypes
  <1>4. /\ buf' \in Seq(Byte) /\ Len(buf') = Len(buf) - emitted
        /\ \A i \in 1 .. Len(buf) - emitted : buf'[i] = buf[emitted + i]
    <2> DEFINE m == emitted + 1
               n == Len(buf)
    <2>1. \A i \in m .. n : buf[i] \in Byte
      BY <1>3, ElementOfSeq
    <2>2. m \in Int /\ n \in Int /\ n - m + 1 = Len(buf) - emitted
          /\ \A i \in 1 .. n - m + 1 : m + i - 1 = emitted + i
      BY <1>3
    <2>3. /\ SubSeq(buf, m, n) \in Seq(Byte)
          /\ Len(SubSeq(buf, m, n)) = IF m <= n THEN n - m + 1 ELSE 0
          /\ \A i \in 1 .. n - m + 1 : SubSeq(buf, m, n)[i] = buf[m + i - 1]
      <3> HIDE DEF m, n
      <3>1. QED
        BY <2>1, <2>2, SubSeqProperties
    <2>4. (IF m <= n THEN n - m + 1 ELSE 0) = Len(buf) - emitted
      BY <1>3
    <2>5. QED
      BY <1>1, <2>2, <2>3, <2>4
  <1>5. Cutter!TypeOK'
    BY <1>1, <1>2, <1>3, <1>4 DEF Cutter!TypeOK
  <1>6. Sent' = Sent /\ Base' = Base + emitted /\ Base \in Nat
    BY <1>1, <1>2, <1>3 DEF Sent, Base, InStep
  <1>7. read' = Base' + Len(buf')
    <2>1. read = Base + Len(buf) /\ read' = read
      BY <1>1, <1>2 DEF InStep
    <2>2. QED
      BY <1>3, <1>4, <1>6, <2>1
  <1>8. ASSUME NEW i \in 1 .. Len(buf') PROVE buf'[i] = input'[Base' + i]
    <2>1. /\ i \in 1 .. Len(buf) - emitted /\ emitted + i \in 1 .. Len(buf)
          /\ Base' + i = Base + (emitted + i)
      BY <1>3, <1>4, <1>6
    <2>2. QED
      BY <1>1, <1>2, <1>4, <2>1 DEF InStep
  <1>9. InStep'
    <2>1. Cutter!Valid(params)' /\ AgreeUpTo(Sent, input, Len(Sent))'
      BY <1>1, <1>2, <1>6 DEF InStep, AgreeUpTo, Cutter!Valid
    <2>2. Base' \in Nat
      BY <1>3, <1>6
    <2>3. QED
      BY <1>1, <1>2, <1>7, <1>8, <2>1, <2>2 DEF InStep
  <1>10. QED
    BY <1>1, <1>5, <1>9, CutsStay DEF CutterInv

LEMMA CutterRead ==
    ASSUME CutterConstants, CutterInv, NEW n \in 1 .. MaxInput, Cutter!Read(n)
    PROVE  CutterInv'
  <1>1. /\ state = "fill" /\ emitted = 0 /\ ~Cutter!Full
        /\ n <= params.MaxSize - Len(buf) /\ n <= Len(input) - read
        /\ buf' = buf \o SubSeq(input, read + 1, read + n)
        /\ read' = read + n
        /\ UNCHANGED <<input, params, emitted, eof, refs, state>>
    BY DEF Cutter!Read, Cutter!Filling
  <1>2. InStep /\ Cutter!TypeOK
    BY <1>1 DEF CutterInv
  <1>3. /\ buf \in Seq(Byte) /\ Len(buf) \in Nat /\ Len(buf) <= params.MaxSize
        /\ input \in Seq(Byte) /\ Len(input) \in Nat
        /\ Len(Sent) \in Nat /\ params.MaxSize \in Nat /\ MaxInput \in Nat
        /\ read \in Nat /\ read <= Len(input) /\ emitted <= Len(buf)
    BY <1>2, CutterTypes
  <1>4. n \in Nat /\ n > 0
    BY <1>3
  <1> DEFINE got == SubSeq(input, read + 1, read + n)
  <1>5. got \in Seq(Byte) /\ Len(got) = n /\ \A i \in 1 .. n : got[i] = input[read + i]
    <2> DEFINE a == read + 1
               b == read + n
    <2>1. \A i \in a .. b : input[i] \in Byte
      <3>1. \A i \in a .. b : i \in 1 .. Len(input)
        BY <1>1, <1>3, <1>4
      <3>2. QED
        BY <1>3, <3>1, ElementOfSeq
    <2>2. a \in Int /\ b \in Int /\ b - a + 1 = n /\ a <= b /\ \A i \in 1 .. n : a + i - 1 = read + i
      BY <1>3, <1>4
    <2>3. /\ SubSeq(input, a, b) \in Seq(Byte)
          /\ Len(SubSeq(input, a, b)) = IF a <= b THEN b - a + 1 ELSE 0
          /\ \A i \in 1 .. b - a + 1 : SubSeq(input, a, b)[i] = input[a + i - 1]
      <3> HIDE DEF a, b
      <3>1. QED
        BY <2>1, <2>2, SubSeqProperties
    <2>4. QED
      BY <2>2, <2>3
  <1> HIDE DEF got
  <1>6. /\ buf' \in Seq(Byte) /\ Len(buf') = Len(buf) + n
        /\ \A i \in 1 .. Len(buf) + n : buf'[i] = IF i <= Len(buf) THEN buf[i] ELSE got[i - Len(buf)]
    <2>1. buf' = buf \o got
      BY <1>1 DEF got
    <2>2. QED
      BY <1>3, <1>5, <2>1, ConcatProperties
  <1>7. Cutter!TypeOK'
    <2>1. read' \in 0 .. Len(input') /\ Len(buf') <= params'.MaxSize /\ emitted' \in 0 .. Len(buf')
      BY <1>1, <1>3, <1>4, <1>6
    <2>2. QED
      BY <1>1, <1>2, <1>6, <2>1 DEF Cutter!TypeOK
  <1>8. Sent' = Sent /\ Base' = Base /\ Base \in Nat /\ read = Base + Len(buf)
    BY <1>1, <1>2 DEF Sent, Base, InStep
  <1>9. read' = Base' + Len(buf')
    BY <1>1, <1>3, <1>4, <1>6, <1>8
  <1>10. ASSUME NEW i \in 1 .. Len(buf') PROVE buf'[i] = input'[Base' + i]
    <2>1. CASE i <= Len(buf)
      <3>1. i \in 1 .. Len(buf) /\ buf'[i] = buf[i]
        BY <1>3, <1>4, <1>6, <2>1
      <3>2. buf[i] = input[Base + i]
        BY <1>2, <3>1 DEF InStep
      <3>3. QED
        BY <1>1, <1>8, <3>1, <3>2
    <2>2. CASE i > Len(buf)
      <3> DEFINE j == i - Len(buf)
      <3>1. j \in 1 .. n /\ ~(i <= Len(buf)) /\ i \in 1 .. Len(buf) + n /\ read + j = Base + i
        BY <1>3, <1>4, <1>6, <1>8, <2>2
      <3>2. buf'[i] = got[j]
        BY <1>6, <3>1
      <3> HIDE DEF j
      <3>3. got[j] = input[read + j]
        BY <1>5, <3>1
      <3>4. QED
        BY <1>1, <1>8, <3>1, <3>2, <3>3
    <2>3. QED
      BY <1>3, <1>6, <2>1, <2>2
  <1>11. ~eof
    BY <1>1 DEF Cutter!Full
  <1>12. InStep'
    <2>1. Cutter!Valid(params)' /\ AgreeUpTo(Sent, input, Len(Sent))'
      BY <1>1, <1>2, <1>8 DEF InStep, AgreeUpTo, Cutter!Valid
    <2>2. QED
      BY <1>1, <1>8, <1>9, <1>10, <1>11, <2>1 DEF InStep
  <1>13. QED
    BY <1>1, <1>7, <1>12, CutsStay DEF CutterInv

LEMMA CutterReadEnd ==
    ASSUME CutterConstants, CutterInv, Cutter!ReadEnd
    PROVE  CutterInv'
  <1>1. /\ state = "fill" /\ emitted = 0 /\ read = Len(input) /\ eof' = TRUE
        /\ UNCHANGED <<input, params, read, buf, emitted, refs, state>>
    BY DEF Cutter!ReadEnd, Cutter!Filling
  <1>2. InStep /\ Cutter!TypeOK
    BY <1>1 DEF CutterInv
  <1>3. Cutter!TypeOK'
    BY <1>1, <1>2 DEF Cutter!TypeOK
  <1>4. Sent' = Sent /\ Base' = Base
    BY <1>1 DEF Sent, Base
  <1>5. InStep'
    <2>1. Cutter!Valid(params)' /\ AgreeUpTo(Sent, input, Len(Sent))'
      BY <1>1, <1>2, <1>4 DEF InStep, AgreeUpTo, Cutter!Valid
    <2>2. QED
      BY <1>1, <1>2, <1>4, <2>1 DEF InStep
  <1>6. QED
    BY <1>1, <1>3, <1>5, CutsStay DEF CutterInv

LEMMA CutterReadFails ==
    ASSUME CutterConstants, CutterInv, Cutter!ReadFails
    PROVE  CutterInv'
  <1>1. /\ state' = "failed"
        /\ UNCHANGED <<input, params, read, buf, emitted, eof, refs>>
    BY DEF Cutter!ReadFails
  <1>2. Cutter!TypeOK'
    BY <1>1 DEF CutterInv, Cutter!TypeOK
  <1>3. QED
    BY <1>1, <1>2, CutsStay DEF CutterInv

LEMMA CutterFilled ==
    ASSUME CutterConstants, CutterInv, Cutter!Filled
    PROVE  CutterInv'
  <1>1. /\ state = "fill" /\ emitted = 0 /\ Cutter!Full
        /\ state' = IF buf = <<>> THEN "done" ELSE "cut"
        /\ UNCHANGED <<input, params, read, buf, emitted, eof, refs>>
    BY DEF Cutter!Filled, Cutter!Filling
  <1>2. InStep /\ Cutter!TypeOK /\ Cutter!Valid(params)
    BY <1>1 DEF CutterInv, InStep
  <1>3. Cutter!TypeOK'
    BY <1>1, <1>2 DEF Cutter!TypeOK
  <1>4. Sent' = Sent /\ Base' = Base
    BY <1>1 DEF Sent, Base
  <1>5. ASSUME buf = <<>> PROVE read = Base /\ eof
    <2>1. Len(buf) = 0 /\ Base \in Nat /\ read = Base + Len(buf)
      BY <1>2, <1>5 DEF InStep
    <2>2. params.MaxSize # 0
      <3>1. params \in Cutter!Params
        BY <1>2, CutterTypes
      <3>2. params.MinSize \in Nat /\ params.MaxSize \in Nat
        BY <3>1 DEF Cutter!Params, CutterConstants
      <3>3. QED
        BY <1>2, <3>2 DEF Cutter!Valid
    <2>3. QED
      BY <1>1, <2>1, <2>2 DEF Cutter!Full
  <1>6. InStep'
    <2>1. Cutter!Valid(params)' /\ AgreeUpTo(Sent, input, Len(Sent))' /\ Cutter!Full'
      BY <1>1, <1>2, <1>4 DEF InStep, AgreeUpTo, Cutter!Valid, Cutter!Full
    <2>2. QED
      BY <1>1, <1>2, <1>4, <1>5, <2>1 DEF InStep
  <1>7. QED
    BY <1>1, <1>3, <1>6, CutsStay DEF CutterInv

LEMMA CutterEmit ==
    ASSUME CutterConstants, CutterInv, Cutter!Emit
    PROVE  CutterInv'
  <1> DEFINE n == Cutter!Boundary(buf, params)
             chunk == SubSeq(buf, 1, n)
             next == SubSeq(input, Base + 1, Len(input))
  <1>1. /\ state = "cut" /\ emitted' = n
        /\ \/ refs' = Append(refs, chunk) /\ state' = "fill"
           \/ refs' = refs /\ state' = "failed"
        /\ UNCHANGED <<input, params, read, buf, eof>>
    BY DEF Cutter!Emit
  <1>2. InStep /\ Cutter!TypeOK /\ Cutter!Valid(params) /\ Cutter!Full /\ emitted = 0 /\ buf # <<>>
    BY <1>1 DEF CutterInv, InStep
  <1>3. /\ buf \in Seq(Byte) /\ Len(buf) \in Nat /\ Len(buf) <= params.MaxSize
        /\ input \in Seq(Byte) /\ Len(input) \in Nat
        /\ Sent \in Seq(Byte) /\ Len(Sent) \in Nat
        /\ params \in Cutter!Params /\ read \in Nat /\ read <= Len(input)
        /\ refs \in Seq(Seq(Byte))
    BY <1>2, CutterTypes
  <1>4. /\ n \in 0 .. Len(buf) /\ n > 0
    BY <1>2, <1>3, BoundaryIs
  <1>5. Base = Len(Sent) /\ read = Base + Len(buf) /\ Base \in Nat
    BY <1>2, <1>3 DEF Base, InStep
  <1>6. /\ next \in Seq(Byte) /\ Len(next) = Len(input) - Base
        /\ \A i \in 1 .. Len(buf) : next[i] = buf[i]
    <2> DEFINE a == Base + 1
               b == Len(input)
    <2>1. \A i \in a .. b : input[i] \in Byte
      <3>1. \A i \in a .. b : i \in 1 .. Len(input)
        BY <1>3, <1>5
      <3>2. QED
        BY <1>3, <3>1, ElementOfSeq
    <2>2. /\ a \in Int /\ b \in Int /\ (IF a <= b THEN b - a + 1 ELSE 0) = Len(input) - Base
          /\ \A i \in 1 .. Len(buf) : i \in 1 .. b - a + 1 /\ a + i - 1 = Base + i
      BY <1>3, <1>5
    <2>3. /\ SubSeq(input, a, b) \in Seq(Byte)
          /\ Len(SubSeq(input, a, b)) = IF a <= b THEN b - a + 1 ELSE 0
          /\ \A i \in 1 .. b - a + 1 : SubSeq(input, a, b)[i] = input[a + i - 1]
      <3> HIDE DEF a, b
      <3>1. QED
        BY <2>1, <2>2, SubSeqProperties
    <2>4. \A i \in 1 .. Len(buf) : buf[i] = input[Base + i]
      BY <1>2 DEF InStep
    <2>5. QED
      BY <2>2, <2>3, <2>4
  <1>7. /\ chunk \in Seq(Byte) /\ Len(chunk) = n
        /\ \A i \in 1 .. n : chunk[i] = buf[i]
    <2>1. \A i \in 1 .. n : buf[i] \in Byte
      BY <1>3, <1>4, ElementOfSeq
    <2>2. n \in Int /\ n >= 1 /\ n - 1 + 1 = n /\ \A i \in 1 .. n : 1 + i - 1 = i
      BY <1>3, <1>4
    <2> HIDE DEF n
    <2>3. QED
      BY <2>1, <2>2, SubSeqProperties
  <1>8. Cutter!IsChunkOf(chunk, next, params)
    <2>1. Len(buf) <= Len(next)
      BY <1>3, <1>5, <1>6
    <2>2. AgreeUpTo(buf, next, Len(buf))
      BY <1>6 DEF AgreeUpTo
    <2>3. Len(buf) = params.MaxSize \/ Len(buf) = Len(next)
      <3>1. eof => read = Len(input)
        BY <1>2 DEF InStep
      <3>2. QED
        BY <1>2, <1>3, <1>5, <1>6, <3>1 DEF Cutter!Full
    <2> HIDE DEF next
    <2>4. QED
      BY <1>2, <1>3, <1>6, <2>1, <2>2, <2>3, ChunkIsRight
  <1> HIDE DEF n, chunk, next
  <1>9. /\ refs' \in Seq(Seq(Byte))
        /\ state' \in {"fill", "failed"}
        /\ emitted' \in 0 .. Len(buf)
    <2>1. Append(refs, chunk) \in Seq(Seq(Byte))
      BY <1>3, <1>7, AppendProperties
    <2>2. QED
      BY <1>1, <1>3, <1>4, <2>1
  <1>10. Cutter!TypeOK'
    BY <1>1, <1>2, <1>9 DEF Cutter!TypeOK
  <1>11. CASE refs' = refs /\ state' = "failed"
    BY <1>1, <1>10, <1>11, CutsStay DEF CutterInv
  <1>12. CASE refs' = Append(refs, chunk) /\ state' = "fill"
    <2>1. Sent' = Sent \o chunk
      BY <1>3, <1>7, <1>12, FlattenAppend DEF Sent
    <2>2. /\ Len(Sent') = Len(Sent) + n
          /\ \A i \in 1 .. Len(Sent) + n :
                 Sent'[i] = IF i <= Len(Sent) THEN Sent[i] ELSE chunk[i - Len(Sent)]
      BY <1>3, <1>7, <2>1, ConcatProperties
    <2>3. Base' = Base
      BY <1>1, <1>3, <1>4, <1>5, <2>2 DEF Base
    <2>4. AgreeUpTo(Sent, input, Len(Sent))'
      <3>1. ASSUME NEW i \in 1 .. Len(Sent) + n PROVE Sent'[i] = input[i]
        <4>1. CASE i <= Len(Sent)
          <5>1. i \in 1 .. Len(Sent)
            BY <1>3, <1>4, <4>1
          <5>2. Sent[i] = input[i]
            BY <1>2, <5>1 DEF InStep, AgreeUpTo
          <5>3. QED
            BY <2>2, <4>1, <5>2
        <4>2. CASE i > Len(Sent)
          <5> DEFINE j == i - Len(Sent)
          <5>1. j \in 1 .. n /\ j \in 1 .. Len(buf) /\ Base + j = i /\ ~(i <= Len(Sent))
            BY <1>3, <1>4, <1>5, <4>2
          <5>2. Sent'[i] = chunk[j]
            BY <2>2, <5>1
          <5> HIDE DEF j
          <5>3. chunk[j] = buf[j] /\ buf[j] = input[Base + j]
            BY <1>2, <1>7, <5>1 DEF InStep
          <5>4. QED
            BY <5>1, <5>2, <5>3
        <4>3. QED
          BY <1>3, <1>4, <4>1, <4>2
      <3>2. QED
        BY <1>1, <2>2, <3>1 DEF AgreeUpTo
    <2>5. InStep'
      <3>1. Cutter!Valid(params)'
        BY <1>1, <1>2 DEF Cutter!Valid
      <3>2. QED
        BY <1>1, <1>2, <1>12, <2>3, <2>4, <3>1 DEF InStep
    <2>6. Cutter!CutsFollowTheContent'
      <3>1. \A c \in 1 .. Len(refs) :
               Cutter!IsChunkOf(refs[c],
                   SubSeq(input, Len(Cutter!FlattenSeq(SubSeq(refs, 1, c - 1))) + 1, Len(input)), params)
        BY DEF CutterInv, Cutter!CutsFollowTheContent
      <3>2. Cutter!IsChunkOf(chunk,
                SubSeq(input, Len(Cutter!FlattenSeq(refs)) + 1, Len(input)), params)
        BY <1>5, <1>8 DEF next, Sent
      <3>3. \A c \in 1 .. Len(Append(refs, chunk)) :
               Cutter!IsChunkOf(Append(refs, chunk)[c],
                   SubSeq(input, Len(Cutter!FlattenSeq(SubSeq(Append(refs, chunk), 1, c - 1))) + 1, Len(input)), params)
        BY <1>3, <1>7, <3>1, <3>2, CutsGrow
      <3>4. QED
        BY <1>1, <1>12, <3>3 DEF Cutter!CutsFollowTheContent
    <2>7. QED
      BY <1>10, <2>5, <2>6 DEF CutterInv
  <1>13. QED
    BY <1>1, <1>11, <1>12

LEMMA CutterStutters ==
    ASSUME CutterInv, UNCHANGED Cutter!vars
    PROVE  CutterInv'
  <1>1. UNCHANGED <<input, params, read, buf, emitted, eof, refs, state>>
    BY DEF Cutter!vars
  <1>2. Cutter!TypeOK'
    BY <1>1 DEF CutterInv, Cutter!TypeOK
  <1>3. Sent' = Sent /\ Base' = Base
    BY <1>1 DEF Sent, Base
  <1>4. ASSUME InStep PROVE InStep'
    <2>1. /\ Cutter!Valid(params)' <=> Cutter!Valid(params)
          /\ AgreeUpTo(Sent, input, Len(Sent))' <=> AgreeUpTo(Sent, input, Len(Sent))
          /\ Cutter!Full' <=> Cutter!Full
      BY <1>1, <1>3 DEF AgreeUpTo, Cutter!Valid, Cutter!Full
    <2>2. QED
      BY <1>1, <1>3, <1>4, <2>1 DEF InStep
  <1>5. QED
    BY <1>1, <1>2, <1>4, CutsStay DEF CutterInv

LEMMA CutterSteps ==
    ASSUME CutterConstants, CutterInv, [Cutter!Next]_Cutter!vars
    PROVE  CutterInv'
  <1>1. CASE Cutter!Open
    BY <1>1, CutterOpen
  <1>2. CASE Cutter!DropEmitted
    BY <1>2, CutterDrop
  <1>3. CASE Cutter!ReadEnd
    BY <1>3, CutterReadEnd
  <1>4. CASE Cutter!ReadFails
    BY <1>4, CutterReadFails
  <1>5. CASE Cutter!Filled
    BY <1>5, CutterFilled
  <1>6. CASE Cutter!Emit
    BY <1>6, CutterEmit
  <1>7. CASE \E n \in 1 .. MaxInput : Cutter!Read(n)
    BY <1>7, CutterRead
  <1>8. CASE Cutter!Ended \/ UNCHANGED Cutter!vars
    BY <1>8, CutterStutters DEF Cutter!Ended
  <1>9. QED
    BY <1>1, <1>2, <1>3, <1>4, <1>5, <1>6, <1>7, <1>8 DEF Cutter!Next

(* What came out whole is the whole file. *)
LEMMA SentIsTheInput ==
    ASSUME CutterConstants, CutterInv
    PROVE  Cutter!ResultIsWhole
  <1>1. SUFFICES ASSUME state = "done" PROVE Sent = input
    BY DEF Cutter!ResultIsWhole, Sent
  <1>2. InStep /\ Cutter!TypeOK
    BY <1>1 DEF CutterInv
  <1>3. /\ Sent \in Seq(Byte) /\ Len(Sent) \in Nat /\ input \in Seq(Byte) /\ Len(input) \in Nat
    BY <1>2, CutterTypes
  <1>4. Len(Sent) = Len(input)
    <2>1. read = Base /\ read = Len(input) /\ emitted = 0
      BY <1>1, <1>2 DEF InStep
    <2>2. QED
      BY <1>3, <2>1 DEF Base
  <1>5. \A i \in 1 .. Len(Sent) : Sent[i] = input[i]
    BY <1>2 DEF InStep, AgreeUpTo
  <1>6. QED
    BY <1>3, <1>4, <1>5, SeqEqual

(* chunk/chunk.go: the variables of a Splitter have their types, and its    *)
(* window never holds more than MaxSize bytes. *)
THEOREM SplitterTypeCorrect ==
    ASSUME CutterConstants
    PROVE  Cutter!Spec => []Cutter!TypeOK
  <1>1. Cutter!Init => CutterInv
    BY CutterInit
  <1>2. CutterInv /\ [Cutter!Next]_Cutter!vars => CutterInv'
    BY CutterSteps
  <1>3. CutterInv => Cutter!TypeOK
    BY DEF CutterInv
  <1>4. QED
    BY <1>1, <1>2, <1>3, PTL DEF Cutter!Spec

(* chunk/chunk.go, boundary: where a file is cut follows from its bytes and *)
(* the parameters, for every table, window, file and way to read it. *)
THEOREM CutsFollow ==
    ASSUME CutterConstants
    PROVE  Cutter!Spec => []Cutter!CutsFollowTheContent
  <1>1. Cutter!Init => CutterInv
    BY CutterInit
  <1>2. CutterInv /\ [Cutter!Next]_Cutter!vars => CutterInv'
    BY CutterSteps
  <1>3. CutterInv => Cutter!CutsFollowTheContent
    BY DEF CutterInv
  <1>4. QED
    BY <1>1, <1>2, <1>3, PTL DEF Cutter!Spec

(* chunk/build.go: a file object stands for the whole of its input. *)
THEOREM ResultsAreWhole ==
    ASSUME CutterConstants
    PROVE  Cutter!Spec => []Cutter!ResultIsWhole
  <1>1. Cutter!Init => CutterInv
    BY CutterInit
  <1>2. CutterInv /\ [Cutter!Next]_Cutter!vars => CutterInv'
    BY CutterSteps
  <1>3. CutterInv => Cutter!ResultIsWhole
    BY SentIsTheInput
  <1>4. QED
    BY <1>1, <1>2, <1>3, PTL DEF Cutter!Spec

(* At most one beginning of what follows is a chunk of it.                 *)
LEMMA OneChunkOnly ==
    ASSUME NEW p, p.MaxSize \in Nat, NEW next \in Seq(Byte),
           NEW a \in Seq(Byte), NEW b \in Seq(Byte),
           Cutter!IsChunkOf(a, next, p), Cutter!IsChunkOf(b, next, p)
    PROVE  a = b
  <1>0. Len(a) \in Nat /\ Len(b) \in Nat /\ Len(next) \in Nat
    OBVIOUS
  <1>1. ASSUME NEW s \in Seq(Byte), Cutter!IsChunkOf(s, next, p)
        PROVE  /\ Len(s) > 0 /\ Len(s) <= p.MaxSize /\ Len(s) <= Len(next)
               /\ SubSeq(s, 1, Len(s)) = SubSeq(next, 1, Len(s))
               /\ \A i \in 1 .. Len(s) - 1 : ~Cutter!MayEnd(next, p, i)
               /\ Len(s) = p.MaxSize \/ Len(s) = Len(next) \/ Cutter!MayEnd(next, p, Len(s))
    BY <1>1 DEF Cutter!IsChunkOf, Cutter!IsPrefix
  <1>2. ASSUME NEW s \in Seq(Byte), Cutter!IsChunkOf(s, next, p),
               NEW t \in Seq(Byte), Cutter!IsChunkOf(t, next, p), Len(s) < Len(t)
        PROVE  FALSE
    <2>1. /\ Len(s) > 0
          /\ Len(s) = p.MaxSize \/ Len(s) = Len(next) \/ Cutter!MayEnd(next, p, Len(s))
      BY <1>1, <1>2
    <2>2. /\ Len(t) <= p.MaxSize /\ Len(t) <= Len(next)
          /\ \A i \in 1 .. Len(t) - 1 : ~Cutter!MayEnd(next, p, i)
      BY <1>1, <1>2
    <2>3. Len(s) \in Nat /\ Len(t) \in Nat
      OBVIOUS
    <2>4. Len(s) # p.MaxSize /\ Len(s) # Len(next) /\ Len(s) \in 1 .. Len(t) - 1
      BY <2>1, <2>2, <2>3, <1>0, <1>2
    <2>5. QED
      BY <2>1, <2>2, <2>4
  <1>3. Len(a) = Len(b)
    BY <1>0, <1>2
  <1>4. SubSeq(a, 1, Len(a)) = SubSeq(b, 1, Len(b))
    BY <1>1, <1>3
  <1>5. QED
    BY <1>4, SubSeqFull

(* CutsFollowTheContent, of any file and chunks: where the first c chunks   *)
(* end in the file, and what follows. *)
EndOf(chunks, c) == Len(Cutter!FlattenSeq(SubSeq(chunks, 1, c)))

Rest(file, at) == SubSeq(file, at + 1, Len(file))

CutInto(chunks, file, p) ==
    \A c \in 1 .. Len(chunks) :
        Cutter!IsChunkOf(chunks[c], Rest(file, EndOf(chunks, c - 1)), p)

LEMMA TheCutsOfASplitter ==
    Cutter!CutsFollowTheContent <=> CutInto(refs, input, params)
  BY DEF Cutter!CutsFollowTheContent, CutInto, EndOf, Rest

LEMMA RestIs ==
    ASSUME NEW file \in Seq(Byte), NEW at \in Nat
    PROVE  /\ Rest(file, at) \in Seq(Byte)
           /\ Len(Rest(file, at)) = IF at < Len(file) THEN Len(file) - at ELSE 0
           /\ \A i \in 1 .. Len(file) - at : Rest(file, at)[i] = file[at + i]
  <1> DEFINE r == Rest(file, at)
             n == Len(file)
  <1>1. n \in Nat /\ at + 1 \in Int /\ \A i \in at + 1 .. n : file[i] \in Byte
    BY ElementOfSeq
  <1>2. /\ r \in Seq(Byte)
        /\ Len(r) = IF at + 1 <= n THEN n - (at + 1) + 1 ELSE 0
        /\ \A i \in 1 .. n - (at + 1) + 1 : r[i] = file[(at + 1) + i - 1]
    BY <1>1, SubSeqProperties DEF Rest
  <1> HIDE DEF r, n
  <1>3. ASSUME NEW i \in 1 .. n - at PROVE r[i] = file[at + i]
    <2>1. i \in 1 .. n - (at + 1) + 1 /\ (at + 1) + i - 1 = at + i
      BY <1>1
    <2>2. QED
      BY <2>1, <1>2
  <1>4. Len(r) = IF at < n THEN n - at ELSE 0
    BY <1>1, <1>2
  <1>5. QED
    BY <1>2, <1>3, <1>4 DEF r, n

(* What follows in two files that go on alike goes on alike. *)
LEMMA RestsGoOn ==
    ASSUME NEW f \in Seq(Byte), NEW g \in Seq(Byte), NEW a \in Nat, NEW b \in Nat,
           Rest(f, a) = Rest(g, b), NEW n \in Nat
    PROVE  Rest(f, a + n) = Rest(g, b + n)
  <1> DEFINE r == Rest(f, a)
             q == Rest(f, a + n)
             s == Rest(g, b + n)
  <1>0. Len(f) \in Nat /\ Len(g) \in Nat /\ a + n \in Nat /\ b + n \in Nat
    OBVIOUS
  <1>1. /\ Len(r) = IF a < Len(f) THEN Len(f) - a ELSE 0
        /\ \A i \in 1 .. Len(f) - a : r[i] = f[a + i]
        /\ Len(r) = IF b < Len(g) THEN Len(g) - b ELSE 0
        /\ \A i \in 1 .. Len(g) - b : r[i] = g[b + i]
    <2>1. /\ Len(Rest(f, a)) = IF a < Len(f) THEN Len(f) - a ELSE 0
          /\ \A i \in 1 .. Len(f) - a : Rest(f, a)[i] = f[a + i]
      BY RestIs
    <2>2. /\ Len(Rest(g, b)) = IF b < Len(g) THEN Len(g) - b ELSE 0
          /\ \A i \in 1 .. Len(g) - b : Rest(g, b)[i] = g[b + i]
      BY RestIs
    <2> HIDE DEF r
    <2>3. r = Rest(f, a) /\ r = Rest(g, b)
      BY DEF r
    <2>4. QED
      BY <2>1, <2>2, <2>3
  <1>2. /\ q \in Seq(Byte)
        /\ Len(q) = IF a + n < Len(f) THEN Len(f) - (a + n) ELSE 0
        /\ \A i \in 1 .. Len(f) - (a + n) : q[i] = f[(a + n) + i]
    BY <1>0, RestIs
  <1>3. /\ s \in Seq(Byte)
        /\ Len(s) = IF b + n < Len(g) THEN Len(g) - (b + n) ELSE 0
        /\ \A i \in 1 .. Len(g) - (b + n) : s[i] = g[(b + n) + i]
    BY <1>0, RestIs
  <1> HIDE DEF r, q, s
  <1>7. (a < Len(f) /\ b < Len(g) /\ Len(f) - a = Len(g) - b) \/ (~(a < Len(f)) /\ ~(b < Len(g)))
    <2>1. (IF a < Len(f) THEN Len(f) - a ELSE 0) = (IF b < Len(g) THEN Len(g) - b ELSE 0)
      BY <1>1
    <2>2. QED
      BY <2>1, <1>0
  <1>4. Len(q) = Len(s)
    BY <1>0, <1>2, <1>3, <1>7
  <1>5. ASSUME NEW i \in 1 .. Len(q) PROVE q[i] = s[i]
    <2>1. i \in 1 .. Len(f) - (a + n) /\ i \in 1 .. Len(g) - (b + n)
      <3>1. a + n < Len(f) /\ i \in 1 .. Len(f) - (a + n)
        BY <1>0, <1>2
      <3>2. b + n < Len(g) /\ i \in 1 .. Len(g) - (b + n)
        BY <1>0, <1>3, <1>4
      <3>3. QED
        BY <3>1, <3>2
    <2>2. /\ n + i \in 1 .. Len(f) - a /\ n + i \in 1 .. Len(g) - b
          /\ (a + n) + i = a + (n + i) /\ (b + n) + i = b + (n + i)
      BY <2>1, <1>0
    <2>3. q[i] = r[n + i] /\ s[i] = r[n + i]
      BY <2>1, <2>2, <1>1, <1>2, <1>3
    <2>4. QED
      BY <2>3
  <1>6. QED
    BY <1>2, <1>3, <1>4, <1>5, SeqEqual DEF q, s

(* A chunk ends its length after the one before it. *)
LEMMA EndsGrow ==
    ASSUME NEW s \in Seq(Seq(Byte)), NEW c \in 0 .. Len(s)
    PROVE  /\ EndOf(s, c) \in Nat
           /\ c + 1 <= Len(s) => EndOf(s, c + 1) = EndOf(s, c) + Len(s[c + 1])
  <1> DEFINE start == SubSeq(s, 1, c)
  <1>0. Len(s) \in Nat /\ c \in Nat /\ c \in Int /\ <<>> \in Seq(Byte)
    OBVIOUS
  <1>1. start \in Seq(Seq(Byte))
    <2>1. \A i \in 1 .. c : s[i] \in Seq(Byte)
      BY <1>0, ElementOfSeq
    <2>2. QED
      BY <2>1, <1>0, SubSeqProperties
  <1>2. ASSUME c + 1 <= Len(s) PROVE SubSeq(s, 1, c + 1) = Append(start, s[c + 1])
    <2>1. 1 \in 1 .. Len(s) /\ c + 1 \in 1 .. Len(s) /\ (c + 1) - 1 = c
      BY <1>0, <1>2
    <2>2. SubSeq(s, 1, c + 1) = SubSeq(s, 1, (c + 1) - 1) \o <<s[c + 1]>>
      BY <2>1, SubSeqRecursiveSecond
    <2>3. s[c + 1] \in Seq(Byte)
      BY <2>1, ElementOfSeq
    <2> HIDE DEF start
    <2>4. Append(start, s[c + 1]) = start \o <<s[c + 1]>>
      BY <1>1, <2>3, AppendIsConcat
    <2>5. QED
      BY <2>1, <2>2, <2>4 DEF start
  <1> HIDE DEF start
  <1>3. Cutter!FlattenSeq(start) \in Seq(Byte)
    BY <1>0, <1>1, FlattenAppend
  <1>4. EndOf(s, c) = Len(Cutter!FlattenSeq(start))
    BY DEF EndOf, start
  <1>5. ASSUME c + 1 <= Len(s) PROVE EndOf(s, c + 1) = EndOf(s, c) + Len(s[c + 1])
    <2>1. c + 1 \in 1 .. Len(s)
      BY <1>0, <1>5
    <2>2. s[c + 1] \in Seq(Byte)
      BY <2>1, ElementOfSeq
    <2>3. Cutter!FlattenSeq(Append(start, s[c + 1])) = Cutter!FlattenSeq(start) \o s[c + 1]
      BY <1>1, <2>2, FlattenAppend
    <2>4. EndOf(s, c + 1) = Len(Cutter!FlattenSeq(start) \o s[c + 1])
      BY <2>3, <1>2, <1>5 DEF EndOf
    <2>5. Len(Cutter!FlattenSeq(start) \o s[c + 1]) = Len(Cutter!FlattenSeq(start)) + Len(s[c + 1])
      BY <1>3, <2>2, ConcatProperties
    <2>6. QED
      BY <2>4, <2>5, <1>4
  <1>6. QED
    BY <1>3, <1>4, <1>5

(* The rests of f and g after the a-th chunk of s and the b-th of t. *)
SameRest(f, s, a, g, t, b) ==
    /\ a \in 0 .. Len(s) /\ b \in 0 .. Len(t)
    /\ Rest(f, EndOf(s, a)) = Rest(g, EndOf(t, b))

(* chunk/chunk_test.go, TestInsertionAtTheStartShiftsBoundariesOnlyLocally: *)
(* once a chunk of one file and a chunk of another end where the rests of   *)
(* the two are the same, all chunks from there on are the same, whatever    *)
(* comes before.                                                            *)
THEOREM SameRestSameChunks ==
    ASSUME NEW p, p.MaxSize \in Nat,
           NEW f \in Seq(Byte), NEW s \in Seq(Seq(Byte)), CutInto(s, f, p),
           NEW g \in Seq(Byte), NEW t \in Seq(Seq(Byte)), CutInto(t, g, p),
           NEW a, NEW b, SameRest(f, s, a, g, t, b)
    PROVE  \A k \in Nat : a + k + 1 <= Len(s) /\ b + k + 1 <= Len(t) => s[a + k + 1] = t[b + k + 1]
  <1> DEFINE InLine(k) == Rest(f, EndOf(s, a + k)) = Rest(g, EndOf(t, b + k))
             S == {k \in Nat : a + k <= Len(s) /\ b + k <= Len(t) => InLine(k)}
  <1>0. Len(s) \in Nat /\ Len(t) \in Nat /\ a \in Nat /\ b \in Nat
    BY DEF SameRest
  <1>1. ASSUME NEW k \in Nat, a + k + 1 <= Len(s), b + k + 1 <= Len(t), InLine(k)
        PROVE  s[a + k + 1] = t[b + k + 1] /\ InLine(k + 1)
    <2> DEFINE x == s[a + k + 1]
               y == t[b + k + 1]
               next == Rest(f, EndOf(s, a + k))
    <2>1. /\ a + k \in 0 .. Len(s) /\ a + k + 1 \in 1 .. Len(s) /\ (a + k + 1) - 1 = a + k
          /\ b + k \in 0 .. Len(t) /\ b + k + 1 \in 1 .. Len(t) /\ (b + k + 1) - 1 = b + k
          /\ a + (k + 1) = a + k + 1 /\ b + (k + 1) = b + k + 1
      BY <1>0, <1>1
    <2>2. x \in Seq(Byte) /\ y \in Seq(Byte)
      BY <2>1, ElementOfSeq
    <2>3. /\ EndOf(s, a + k) \in Nat /\ EndOf(s, a + k + 1) = EndOf(s, a + k) + Len(x)
          /\ EndOf(t, b + k) \in Nat /\ EndOf(t, b + k + 1) = EndOf(t, b + k) + Len(y)
      BY <2>1, <1>1, EndsGrow
    <2>4. next \in Seq(Byte) /\ next = Rest(g, EndOf(t, b + k))
      BY <2>3, <1>1, RestIs
    <2>5. Cutter!IsChunkOf(x, next, p)
      <3>1. Cutter!IsChunkOf(s[a + k + 1], Rest(f, EndOf(s, (a + k + 1) - 1)), p)
        BY <2>1 DEF CutInto
      <3>2. QED
        BY <3>1, <2>1
    <2>6. Cutter!IsChunkOf(y, next, p)
      <3>1. Cutter!IsChunkOf(t[b + k + 1], Rest(g, EndOf(t, (b + k + 1) - 1)), p)
        BY <2>1 DEF CutInto
      <3>2. QED
        BY <3>1, <2>1, <2>4
    <2> HIDE DEF x, y, next
    <2>7. x = y
      BY <2>2, <2>4, <2>5, <2>6, OneChunkOnly
    <2>8. Len(x) \in Nat
      BY <2>2
    <2>9. Rest(f, EndOf(s, a + k) + Len(x)) = Rest(g, EndOf(t, b + k) + Len(x))
      BY <2>3, <2>4, <2>8, RestsGoOn DEF next
    <2>10. InLine(k + 1)
      BY <2>1, <2>3, <2>7, <2>9
    <2>11. QED
      BY <2>7, <2>10 DEF x, y
  <1>2. 0 \in S
    BY <1>0 DEF SameRest
  <1> HIDE DEF InLine
  <1>3. ASSUME NEW k \in S PROVE k + 1 \in S
    <2>1. k \in Nat /\ (a + k <= Len(s) /\ b + k <= Len(t) => InLine(k))
      BY <1>3
    <2>2. ASSUME a + (k + 1) <= Len(s), b + (k + 1) <= Len(t) PROVE InLine(k + 1)
      <3>1. a + k <= Len(s) /\ b + k <= Len(t) /\ a + k + 1 <= Len(s) /\ b + k + 1 <= Len(t)
        BY <2>1, <2>2, <1>0
      <3>2. QED
        BY <2>1, <3>1, <1>1
    <2>3. QED
      BY <2>1, <2>2
  <1>4. S \in SUBSET Nat
    OBVIOUS
  <1>5. S = Nat
    <2> HIDE DEF S
    <2>1. QED
      BY <1>2, <1>3, <1>4, EveryNumber
  <1>8. \A k \in S : a + k <= Len(s) /\ b + k <= Len(t) => InLine(k)
    OBVIOUS
  <1> HIDE DEF S
  <1>6. ASSUME NEW k \in Nat, a + k + 1 <= Len(s), b + k + 1 <= Len(t)
        PROVE  s[a + k + 1] = t[b + k + 1]
    <2>1. k \in S /\ a + k <= Len(s) /\ b + k <= Len(t)
      BY <1>0, <1>5, <1>6
    <2>2. InLine(k)
      BY <2>1, <1>8
    <2>3. QED
      BY <2>2, <1>1, <1>6
  <1>7. QED
    BY <1>6

LEMMA BeginningsAgree ==
    ASSUME NEW p, p.MaxSize \in Nat, NEW file \in Seq(Byte),
           NEW s \in Seq(Seq(Byte)), CutInto(s, file, p),
           NEW t \in Seq(Seq(Byte)), CutInto(t, file, p), Len(s) <= Len(t)
    PROVE  SubSeq(t, 1, Len(s)) = s
  <1>0. Len(s) \in Nat /\ Len(t) \in Nat /\ 0 \in 0 .. Len(s) /\ 0 \in 0 .. Len(t)
    OBVIOUS
  <1>1. Rest(file, EndOf(s, 0)) = Rest(file, EndOf(t, 0))
    <2>1. SubSeq(s, 1, 0) = <<>> /\ SubSeq(t, 1, 0) = <<>>
      BY SubSeqEmpty
    <2>2. QED
      BY <2>1 DEF EndOf
  <1>2. \A k \in Nat : 0 + k + 1 <= Len(s) /\ 0 + k + 1 <= Len(t) => s[0 + k + 1] = t[0 + k + 1]
    <2>1. PICK z : z = 0
      OBVIOUS
    <2>2. z \in 0 .. Len(s) /\ z \in 0 .. Len(t) /\ Rest(file, EndOf(s, z)) = Rest(file, EndOf(t, z))
      BY <1>0, <1>1, <2>1
    <2>3. \A k \in Nat : z + k + 1 <= Len(s) /\ z + k + 1 <= Len(t) => s[z + k + 1] = t[z + k + 1]
      <3>1. SameRest(file, s, z, file, t, z)
        BY <2>2 DEF SameRest
      <3>2. QED
        BY <3>1, SameRestSameChunks
    <2>4. QED
      BY <2>1, <2>3
  <1>3. ASSUME NEW i \in 1 .. Len(s) PROVE s[i] = t[i]
    <2>1. i - 1 \in Nat /\ 0 + (i - 1) + 1 = i /\ i <= Len(s) /\ i <= Len(t)
      BY <1>0
    <2>2. QED
      BY <2>1, <1>2
  <1> DEFINE u == SubSeq(t, 1, Len(s))
  <1>4. u \in Seq(Seq(Byte)) /\ Len(u) = Len(s) /\ \A i \in 1 .. Len(s) : u[i] = t[i]
    <2>1. \A i \in 1 .. Len(s) : t[i] \in Seq(Byte)
      BY <1>0, ElementOfSeq
    <2>2. /\ u \in Seq(Seq(Byte)) /\ Len(u) = IF 1 <= Len(s) THEN Len(s) - 1 + 1 ELSE 0
          /\ \A i \in 1 .. Len(s) - 1 + 1 : u[i] = t[1 + i - 1]
      BY <2>1, <1>0, SubSeqProperties
    <2> HIDE DEF u
    <2>3. Len(u) = Len(s)
      BY <2>2, <1>0
    <2>4. ASSUME NEW i \in 1 .. Len(s) PROVE u[i] = t[i]
      <3>1. i \in 1 .. Len(s) - 1 + 1 /\ 1 + i - 1 = i
        BY <1>0
      <3>2. QED
        BY <3>1, <2>2
    <2>5. QED
      BY <2>2, <2>3, <2>4
  <1> HIDE DEF u
  <1>5. u = s
    BY <1>3, <1>4, SeqEqual
  <1>6. QED
    BY <1>5 DEF u

(* There is no chunk after the last byte. *)
LEMMA NoMoreChunks ==
    ASSUME NEW p, p.MaxSize \in Nat, NEW file \in Seq(Byte),
           NEW s \in Seq(Seq(Byte)), CutInto(s, file, p), Cutter!FlattenSeq(s) = file,
           NEW t \in Seq(Seq(Byte)), CutInto(t, file, p), Len(s) < Len(t)
    PROVE  FALSE
  <1>0. Len(s) \in Nat /\ Len(t) \in Nat /\ Len(file) \in Nat
    OBVIOUS
  <1>1. SubSeq(t, 1, Len(s)) = s
    <2>1. Len(s) <= Len(t)
      BY <1>0
    <2>2. QED
      BY <2>1, BeginningsAgree
  <1>2. EndOf(t, (Len(s) + 1) - 1) = Len(file)
    <2>1. (Len(s) + 1) - 1 = Len(s)
      BY <1>0
    <2>2. QED
      BY <1>1, <2>1 DEF EndOf
  <1>3. Len(s) + 1 \in 1 .. Len(t)
    BY <1>0
  <1>4. Cutter!IsChunkOf(t[Len(s) + 1], Rest(file, EndOf(t, (Len(s) + 1) - 1)), p)
    BY <1>3 DEF CutInto
  <1>5. Cutter!IsChunkOf(t[Len(s) + 1], SubSeq(file, Len(file) + 1, Len(file)), p)
    BY <1>2, <1>4 DEF Rest
  <1>6. SubSeq(file, Len(file) + 1, Len(file)) = <<>>
    <2>1. Len(file) + 1 \in Int /\ Len(file) \in Int /\ Len(file) < Len(file) + 1
      BY <1>0
    <2>2. QED
      BY <2>1, SubSeqEmpty
  <1>7. Cutter!IsChunkOf(t[Len(s) + 1], <<>>, p)
    BY <1>5, <1>6
  <1>8. Len(t[Len(s) + 1]) > 0 /\ Len(t[Len(s) + 1]) <= 0
    <2>1. Len(<<>>) = 0
      OBVIOUS
    <2>2. QED
      BY <1>7, <2>1 DEF Cutter!IsChunkOf, Cutter!IsPrefix
  <1>9. t[Len(s) + 1] \in Seq(Byte)
    BY <1>3, ElementOfSeq
  <1>10. Len(t[Len(s) + 1]) \in Nat
    BY <1>9
  <1>11. QED
    BY <1>8, <1>10

(* chunk/doc.go, "follows from the content around it rather than from an    *)
(* offset": two lists of chunks that are cut from one file with the same    *)
(* parameters, as CutsFollow says, and that are the whole of it, as         *)
(* ResultsAreWhole says, are the same list.                                 *)
THEOREM SameFileSameChunks ==
    ASSUME NEW p, p.MaxSize \in Nat, NEW file \in Seq(Byte),
           NEW s \in Seq(Seq(Byte)), CutInto(s, file, p), Cutter!FlattenSeq(s) = file,
           NEW t \in Seq(Seq(Byte)), CutInto(t, file, p), Cutter!FlattenSeq(t) = file
    PROVE  s = t
  <1>0. Len(s) \in Nat /\ Len(t) \in Nat
    OBVIOUS
  <1>1. ~(Len(s) < Len(t)) /\ ~(Len(t) < Len(s))
    BY NoMoreChunks
  <1>2. Len(s) = Len(t)
    BY <1>0, <1>1
  <1>3. SubSeq(t, 1, Len(t)) = s
    <2>1. Len(s) <= Len(t)
      BY <1>0, <1>2
    <2>2. SubSeq(t, 1, Len(s)) = s
      BY <2>1, BeginningsAgree
    <2>3. QED
      BY <2>2, <1>2
  <1>4. QED
    BY <1>3, SubSeqFull

------------------------------------------------------------------------------
(* ObjectText.                                                             *)

------------------------------------------------------------------------------
(* Splitting and joining.                                                  *)

Parts(T) == {p \in Seq(Seq(T)) : Len(p) >= 1}

(* What one more token makes of the parts so far. *)
Grow(before, x, sep) ==
    IF x = sep THEN Append(before, <<>>)
    ELSE [before EXCEPT ![Len(before)] = Append(@, x)]

Splits(f, s, sep) ==
    f = [i \in 0 .. Len(s) |-> IF i = 0 THEN <<<<>>>> ELSE Grow(f[i - 1], s[i], sep)]

LEMMA GrowIs ==
    ASSUME NEW T, NEW p \in Parts(T), NEW x \in T, NEW sep
    PROVE  Grow(p, x, sep) \in Parts(T)
  <1>1. p \in Seq(Seq(T)) /\ Len(p) \in Nat /\ Len(p) >= 1
    BY DEF Parts
  <1>2. CASE x = sep
    <2>1. <<>> \in Seq(T)
      OBVIOUS
    <2>2. Append(p, <<>>) \in Seq(Seq(T)) /\ Len(Append(p, <<>>)) = Len(p) + 1
      BY <1>1, <2>1, AppendProperties
    <2>3. QED
      BY <1>1, <1>2, <2>2 DEF Grow, Parts
  <1>3. CASE x # sep
    <2>1. Len(p) \in 1 .. Len(p)
      BY <1>1
    <2>2. p[Len(p)] \in Seq(T)
      BY <1>1, <2>1, ElementOfSeq
    <2>3. Append(p[Len(p)], x) \in Seq(T)
      BY <2>2, AppendProperties
    <2>4. [p EXCEPT ![Len(p)] = Append(@, x)] \in Seq(Seq(T))
          /\ Len([p EXCEPT ![Len(p)] = Append(@, x)]) = Len(p)
      BY <1>1, <2>1, <2>3
    <2>5. QED
      BY <1>1, <1>3, <2>4 DEF Grow, Parts
  <1>4. QED
    BY <1>2, <1>3

LEMMA SplitExists ==
    ASSUME NEW T, NEW s \in Seq(T), NEW sep
    PROVE  \E f : Splits(f, s, sep)
  <1> DEFINE n == Len(s)
             V == Parts(T)
             grown(k, v) == Grow(v, s[k], sep)
             step == [pair \in (1 .. n) \X V |-> grown(pair[1], pair[2])]
  <1>0. n \in Nat /\ <<<<>>>> \in V
    BY DEF Parts
  <1>1. ASSUME NEW k \in 1 .. n, NEW v \in V PROVE grown(k, v) \in V
    <2>1. s[k] \in T
      BY ElementOfSeq
    <2>2. QED
      BY <2>1, GrowIs
  <1> HIDE DEF V, n, grown
  <1>2. ASSUME NEW k \in 1 .. n, NEW v \in V PROVE step[<<k, v>>] = grown(k, v)
    OBVIOUS
  <1>3. step \in [(1 .. n) \X V -> V]
    <2>1. ASSUME NEW pair \in (1 .. n) \X V PROVE step[pair] \in V
      <3>1. PICK k \in 1 .. n, v \in V : pair = <<k, v>>
        OBVIOUS
      <3>2. step[pair] = grown(k, v)
        BY <3>1, <1>2
      <3>3. QED
        BY <3>2, <1>1
    <2>2. QED
      BY <2>1
  <1> HIDE DEF step
  <1>4. PICK f \in [0 .. n -> V] : IsComputed(f, <<<<>>>>, step, n)
    BY <1>0, <1>3, Computable
  <1>5. ASSUME NEW k \in 1 .. n PROVE f[k] = grown(k, f[k - 1])
    <2>1. k - 1 \in 0 .. n
      BY <1>0
    <2>2. f[k - 1] \in V
      BY <2>1, <1>4
    <2>3. f[k] = step[<<k, f[k - 1]>>]
      BY <1>4 DEF IsComputed
    <2>4. QED
      BY <2>2, <2>3, <1>2
  <1>6. f = [k \in 0 .. n |-> IF k = 0 THEN <<<<>>>> ELSE grown(k, f[k - 1])]
    <2>1. \A k \in 0 .. n : f[k] = IF k = 0 THEN <<<<>>>> ELSE grown(k, f[k - 1])
      <3>1. f[0] = <<<<>>>>
        BY <1>4 DEF IsComputed
      <3>2. \A k \in 0 .. n : k # 0 => k \in 1 .. n
        BY <1>0
      <3>3. QED
        BY <3>1, <3>2, <1>5
    <2>2. QED
      BY <2>1, <1>4
  <1>7. QED
    BY <1>6 DEF Splits, n, grown

LEMMA SplitIs ==
    ASSUME NEW T, NEW s \in Seq(T), NEW sep
    PROVE  \E f : Splits(f, s, sep) /\ Texts!Split(s, sep) = f[Len(s)]
  <1>1. \E f : Splits(f, s, sep)
    BY SplitExists
  <1>2. QED
    BY <1>1 DEF Texts!Split, Splits, Grow

LEMMA SplitStep ==
    ASSUME NEW T, NEW s \in Seq(T), NEW sep, NEW f, Splits(f, s, sep)
    PROVE  /\ f[0] = <<<<>>>>
           /\ \A i \in 1 .. Len(s) : f[i] = Grow(f[i - 1], s[i], sep)
  <1>1. /\ 0 \in 0 .. Len(s)
        /\ \A i \in 1 .. Len(s) : i \in 0 .. Len(s) /\ i # 0
    OBVIOUS
  <1>2. QED
    BY <1>1 DEF Splits

(* Two splittings agree as far as the sequences do. *)
LEMMA SplitsAgree ==
    ASSUME NEW T, NEW s \in Seq(T), NEW t \in Seq(T), NEW sep, NEW n \in Nat,
           n <= Len(s), n <= Len(t), AgreeUpTo(s, t, n),
           NEW f, Splits(f, s, sep), NEW g, Splits(g, t, sep)
    PROVE  f[n] = g[n] /\ f[n] \in Parts(T)
  <1> DEFINE S == {m \in Nat : m <= n => f[m] = g[m] /\ f[m] \in Parts(T)}
  <1>1. 0 \in S
    <2>1. f[0] = <<<<>>>> /\ g[0] = <<<<>>>>
      BY SplitStep
    <2>2. <<<<>>>> \in Parts(T)
      BY DEF Parts
    <2>3. QED
      BY <2>1, <2>2
  <1>2. ASSUME NEW m \in S PROVE m + 1 \in S
    <2>1. SUFFICES ASSUME m + 1 <= n
                   PROVE  f[m + 1] = g[m + 1] /\ f[m + 1] \in Parts(T)
      OBVIOUS
    <2>2. m \in Nat /\ f[m] = g[m] /\ f[m] \in Parts(T)
      BY <2>1
    <2> HIDE DEF S
    <2> DEFINE k == m + 1
    <2>3. k \in 1 .. Len(s) /\ k \in 1 .. Len(t) /\ k \in 1 .. n /\ k - 1 = m
      BY <2>1, <2>2
    <2> HIDE DEF k
    <2>4. s[k] = t[k] /\ s[k] \in T
      BY <2>3, ElementOfSeq DEF AgreeUpTo
    <2>5. f[k] = Grow(f[k - 1], s[k], sep) /\ g[k] = Grow(g[k - 1], t[k], sep)
      BY <2>3, SplitStep
    <2>6. f[k] = g[k] /\ f[k] \in Parts(T)
      BY <2>2, <2>3, <2>4, <2>5, GrowIs
    <2>7. QED
      BY <2>6 DEF k
  <1>3. S \in SUBSET Nat
    OBVIOUS
  <1> HIDE DEF S
  <1>4. n \in S
    BY <1>1, <1>2, <1>3, EveryNumber
  <1>5. QED
    BY <1>4 DEF S

LEMMA SplitEmpty ==
    ASSUME NEW sep
    PROVE  Texts!Split(<<>>, sep) = <<<<>>>>
  <1>1. <<>> \in Seq({}) /\ Len(<<>>) = 0
    OBVIOUS
  <1>2. PICK f : Splits(f, <<>>, sep) /\ Texts!Split(<<>>, sep) = f[Len(<<>>)]
    BY <1>1, SplitIs
  <1>3. f[0] = <<<<>>>>
    BY <1>1, <1>2, SplitStep
  <1>4. QED
    BY <1>1, <1>2, <1>3

LEMMA SplitIsParts ==
    ASSUME NEW T, NEW s \in Seq(T), NEW sep
    PROVE  Texts!Split(s, sep) \in Parts(T)
  <1>1. PICK f : Splits(f, s, sep) /\ Texts!Split(s, sep) = f[Len(s)]
    BY SplitIs
  <1>2. Len(s) \in Nat /\ Len(s) <= Len(s) /\ AgreeUpTo(s, s, Len(s))
    BY DEF AgreeUpTo
  <1>3. f[Len(s)] \in Parts(T)
    BY <1>1, <1>2, SplitsAgree
  <1>4. QED
    BY <1>1, <1>3

LEMMA SplitAppend ==
    ASSUME NEW T, NEW s \in Seq(T), NEW x \in T, NEW sep
    PROVE  Texts!Split(Append(s, x), sep) = Grow(Texts!Split(s, sep), x, sep)
  <1> DEFINE t == Append(s, x)
             n == Len(s)
  <1>1. /\ t \in Seq(T) /\ Len(t) = n + 1 /\ n \in Nat /\ t[n + 1] = x
        /\ \A i \in 1 .. n : t[i] = s[i]
    BY AppendProperties
  <1> HIDE DEF t
  <1>2. PICK f : Splits(f, s, sep) /\ Texts!Split(s, sep) = f[Len(s)]
    BY SplitIs
  <1>3. PICK g : Splits(g, t, sep) /\ Texts!Split(t, sep) = g[Len(t)]
    BY <1>1, SplitIs
  <1>4. n <= Len(s) /\ n <= Len(t) /\ AgreeUpTo(s, t, n)
    BY <1>1 DEF AgreeUpTo
  <1> HIDE DEF n
  <1>5. f[n] = g[n]
    BY <1>1, <1>2, <1>3, <1>4, SplitsAgree
  <1>6. n + 1 \in 1 .. Len(t) /\ (n + 1) - 1 = n
    BY <1>1
  <1>7. g[n + 1] = Grow(g[(n + 1) - 1], t[n + 1], sep)
    BY <1>1, <1>3, <1>6, SplitStep
  <1>8. Texts!Split(s, sep) = f[n]
    BY <1>2 DEF n
  <1>9. Texts!Split(t, sep) = Grow(Texts!Split(s, sep), x, sep)
    BY <1>1, <1>3, <1>5, <1>6, <1>7, <1>8
  <1>10. QED
    BY <1>9 DEF t

(* An induction over a sequence, the claim being a set of sequences. *)
LEMMA EverySequence ==
    ASSUME NEW T, NEW S \in SUBSET Seq(T), <<>> \in S,
           \A s \in S : \A x \in T : Append(s, x) \in S
    PROVE  S = Seq(T)
  <1> DEFINE M == {m \in Nat : \A s \in Seq(T) : Len(s) = m => s \in S}
  <1>1. 0 \in M
    <2>1. ASSUME NEW s \in Seq(T), Len(s) = 0 PROVE s = <<>>
      BY <2>1, EmptySeq
    <2>2. QED
      BY <2>1
  <1>2. ASSUME NEW m \in M PROVE m + 1 \in M
    <2>1. m \in Nat
      OBVIOUS
    <2>2. ASSUME NEW s \in Seq(T), Len(s) = m + 1 PROVE s \in S
      <3>1. s # <<>>
        BY <2>1, <2>2, EmptySeq
      <3>2. PICK r \in Seq(T), x \in T : s = Append(r, x)
        BY <3>1, SequenceEmptyOrAppend
      <3>3. Len(r) \in Nat /\ Len(s) = Len(r) + 1
        BY <3>2, AppendProperties
      <3>4. Len(r) = m
        BY <2>1, <2>2, <3>3
      <3>5. r \in S
        BY <3>4
      <3>6. QED
        BY <3>2, <3>5
    <2>3. QED
      BY <2>1, <2>2
  <1>3. M \in SUBSET Nat
    OBVIOUS
  <1> HIDE DEF M
  <1>4. M = Nat
    BY <1>1, <1>2, <1>3, EveryNumber
  <1>5. ASSUME NEW s \in Seq(T) PROVE s \in S
    <2>1. Len(s) \in M
      BY <1>4
    <2>2. QED
      BY <2>1 DEF M
  <1>6. QED
    BY <1>5

LEMMA GrowConcat ==
    ASSUME NEW T, NEW p \in Parts(T), NEW q \in Parts(T), NEW x \in T, NEW sep
    PROVE  Grow(p \o q, x, sep) = p \o Grow(q, x, sep)
  <1> DEFINE pq == p \o q
             U == Seq(T)
  <1>1. /\ p \in Seq(U) /\ q \in Seq(U) /\ Len(p) \in Nat /\ Len(q) \in Nat /\ Len(q) >= 1
    BY DEF Parts
  <1>2. /\ pq \in Seq(U) /\ Len(pq) = Len(p) + Len(q)
        /\ \A i \in 1 .. Len(p) + Len(q) : pq[i] = IF i <= Len(p) THEN p[i] ELSE q[i - Len(p)]
    BY <1>1, ConcatProperties
  <1>3. Grow(q, x, sep) \in Seq(U)
    BY GrowIs DEF Parts
  <1>4. CASE x = sep
    <2>1. <<>> \in U
      OBVIOUS
    <2> HIDE DEF U, pq
    <2>2. Append(pq, <<>>) = pq \o <<<<>>>> /\ Append(q, <<>>) = q \o <<<<>>>>
      BY <1>1, <1>2, <2>1, AppendIsConcat
    <2>3. <<<<>>>> \in Seq(U)
      BY <2>1
    <2>4. (p \o q) \o <<<<>>>> = p \o (q \o <<<<>>>>)
      BY <1>1, <2>3, ConcatAssociative
    <2>5. QED
      BY <1>4, <2>2, <2>4 DEF Grow, pq
  <1>5. CASE x # sep
    <2> DEFINE l == Append(q[Len(q)], x)
               r == [q EXCEPT ![Len(q)] = l]
               left == [pq EXCEPT ![Len(pq)] = l]
    <2>1. Len(q) \in 1 .. Len(q) /\ Len(pq) \in 1 .. Len(pq)
      BY <1>1, <1>2
    <2>2. q[Len(q)] \in U /\ pq[Len(pq)] = q[Len(q)]
      <3>1. q[Len(q)] \in U
        BY <1>1, <2>1, ElementOfSeq
      <3>2. Len(pq) \in 1 .. Len(p) + Len(q) /\ ~(Len(pq) <= Len(p)) /\ Len(pq) - Len(p) = Len(q)
        BY <1>1, <1>2
      <3> HIDE DEF pq
      <3>3. QED
        BY <1>2, <3>1, <3>2
    <2>3. l \in U
      BY <2>2, AppendProperties
    <2> HIDE DEF U, pq, l
    <2>4. /\ r \in Seq(U) /\ Len(r) = Len(q)
          /\ \A j \in 1 .. Len(q) : r[j] = IF j = Len(q) THEN l ELSE q[j]
      BY <1>1, <2>1, <2>3, ExceptSeq
    <2>5. /\ left \in Seq(U) /\ Len(left) = Len(pq)
          /\ \A j \in 1 .. Len(pq) : left[j] = IF j = Len(pq) THEN l ELSE pq[j]
      BY <1>2, <2>1, <2>3, ExceptSeq
    <2> HIDE DEF r, left
    <2>6. /\ p \o r \in Seq(U) /\ Len(p \o r) = Len(p) + Len(r)
          /\ \A i \in 1 .. Len(p) + Len(r) : (p \o r)[i] = IF i <= Len(p) THEN p[i] ELSE r[i - Len(p)]
      BY <1>1, <2>4, ConcatProperties
    <2>7. ASSUME NEW i \in 1 .. Len(left) PROVE left[i] = (p \o r)[i]
      <3>1. i \in 1 .. Len(pq) /\ i \in 1 .. Len(p) + Len(q) /\ i \in 1 .. Len(p) + Len(r) /\ i \in Nat
        BY <1>1, <1>2, <2>4, <2>5
      <3>2. CASE i <= Len(p)
        <4>1. i # Len(pq)
          BY <1>1, <1>2, <3>2
        <4>2. left[i] = p[i] /\ (p \o r)[i] = p[i]
          BY <1>2, <2>5, <2>6, <3>1, <3>2, <4>1
        <4>3. QED
          BY <4>2
      <3>3. CASE ~(i <= Len(p))
        <4> DEFINE j == i - Len(p)
        <4>1. j \in 1 .. Len(q) /\ (j = Len(q) <=> i = Len(pq))
          BY <1>1, <1>2, <3>1, <3>3
        <4>2. (p \o r)[i] = r[j] /\ pq[i] = q[j]
          BY <1>2, <2>6, <3>1, <3>3
        <4> HIDE DEF j
        <4>3. r[j] = IF j = Len(q) THEN l ELSE q[j]
          BY <2>4, <4>1
        <4>4. left[i] = IF i = Len(pq) THEN l ELSE pq[i]
          BY <2>5, <3>1
        <4>5. QED
          BY <4>1, <4>2, <4>3, <4>4
      <3>4. QED
        BY <3>2, <3>3
    <2>8. left = p \o r
      <3>1. Len(left) = Len(p \o r)
        BY <1>2, <2>4, <2>5, <2>6
      <3>2. QED
        BY <2>5, <2>6, <2>7, <3>1, SeqEqual
    <2>9. Grow(pq, x, sep) = left /\ Grow(q, x, sep) = r
      BY <1>5, <2>2 DEF Grow, left, r, l
    <2>10. QED
      BY <2>8, <2>9 DEF pq
  <1>6. QED
    BY <1>4, <1>5

(* A separator between two texts separates their parts. *)
LEMMA SplitConcat ==
    ASSUME NEW T, NEW s \in Seq(T), NEW sep \in T, NEW r \in Seq(T)
    PROVE  Texts!Split(Append(s, sep) \o r, sep) = Texts!Split(s, sep) \o Texts!Split(r, sep)
  <1> DEFINE a == Append(s, sep)
             p == Texts!Split(s, sep)
             S == {u \in Seq(T) : Texts!Split(a \o u, sep) = p \o Texts!Split(u, sep)}
  <1>1. a \in Seq(T)
    BY AppendProperties
  <1>2. p \in Parts(T) /\ p \in Seq(Seq(T))
    BY SplitIsParts DEF Parts
  <1>3. Texts!Split(a, sep) = Append(p, <<>>)
    BY SplitAppend DEF Grow
  <1> HIDE DEF a, p
  <1>4. <<>> \in S
    <2>1. a \o <<>> = a /\ <<>> \in Seq(T)
      BY <1>1, ConcatEmptySeq
    <2>2. Append(p, <<>>) = p \o <<<<>>>>
      BY <1>2, <2>1, AppendIsConcat
    <2>3. QED
      BY <1>3, <2>1, <2>2, SplitEmpty
  <1>5. ASSUME NEW u \in S, NEW x \in T PROVE Append(u, x) \in S
    <2>1. u \in Seq(T) /\ Texts!Split(a \o u, sep) = p \o Texts!Split(u, sep)
      OBVIOUS
    <2>2. a \o u \in Seq(T) /\ Append(u, x) \in Seq(T)
      BY <1>1, <2>1, ConcatProperties, AppendProperties
    <2>3. a \o Append(u, x) = Append(a \o u, x)
      <3>1. <<x>> \in Seq(T)
        OBVIOUS
      <3>2. Append(u, x) = u \o <<x>> /\ Append(a \o u, x) = (a \o u) \o <<x>>
        BY <2>1, <2>2, AppendIsConcat
      <3>3. QED
        BY <1>1, <2>1, <3>1, <3>2, ConcatAssociative
    <2>4. Texts!Split(Append(a \o u, x), sep) = Grow(Texts!Split(a \o u, sep), x, sep)
      BY <2>2, SplitAppend
    <2>5. Texts!Split(Append(u, x), sep) = Grow(Texts!Split(u, sep), x, sep)
      BY <2>1, SplitAppend
    <2>6. Texts!Split(u, sep) \in Parts(T)
      BY <2>1, SplitIsParts
    <2>7. Grow(p \o Texts!Split(u, sep), x, sep) = p \o Grow(Texts!Split(u, sep), x, sep)
      BY <1>2, <2>6, GrowConcat
    <2>8. QED
      BY <2>1, <2>2, <2>3, <2>4, <2>5, <2>7
  <1>6. S \in SUBSET Seq(T)
    OBVIOUS
  <1> HIDE DEF S
  <1>7. S = Seq(T)
    BY <1>4, <1>5, <1>6, EverySequence
  <1>8. r \in S
    BY <1>7
  <1>9. QED
    BY <1>8 DEF S, a, p

(* t is s, a separator and r. *)
Separated(t, s, sep, r) == t = Append(s, sep) \o r

LEMMA SplitSeparated ==
    ASSUME NEW T, NEW s \in Seq(T), NEW sep \in T, NEW r \in Seq(T), NEW t, Separated(t, s, sep, r)
    PROVE  Texts!Split(t, sep) = Texts!Split(s, sep) \o Texts!Split(r, sep)
  <1>1. Texts!Split(Append(s, sep) \o r, sep) = Texts!Split(s, sep) \o Texts!Split(r, sep)
    BY SplitConcat, Zenon
  <1>2. QED
    BY <1>1 DEF Separated

Without(s, x) == \A i \in 1 .. Len(s) : s[i] # x

LEMMA WithoutAppend ==
    ASSUME NEW T, NEW s \in Seq(T), NEW y \in T, NEW x
    PROVE  Without(Append(s, y), x) <=> Without(s, x) /\ y # x
  <1> DEFINE t == Append(s, y)
  <1>1. /\ Len(t) = Len(s) + 1 /\ Len(s) \in Nat /\ t[Len(s) + 1] = y
        /\ \A i \in 1 .. Len(s) : t[i] = s[i]
    BY AppendProperties
  <1> HIDE DEF t
  <1>2. 1 .. Len(t) = (1 .. Len(s)) \cup {Len(s) + 1}
    BY <1>1
  <1>3. QED
    BY <1>1, <1>2 DEF Without, t

LEMMA SplitWithout ==
    ASSUME NEW T, NEW r \in Seq(T), NEW sep, Without(r, sep)
    PROVE  Texts!Split(r, sep) = <<r>>
  <1> DEFINE S == {u \in Seq(T) : Without(u, sep) => Texts!Split(u, sep) = <<u>>}
  <1>1. <<>> \in S
    BY SplitEmpty
  <1>2. ASSUME NEW u \in S, NEW x \in T PROVE Append(u, x) \in S
    <2>1. SUFFICES ASSUME Without(Append(u, x), sep)
                   PROVE  Texts!Split(Append(u, x), sep) = <<Append(u, x)>>
      BY AppendProperties
    <2>2. Without(u, sep) /\ x # sep
      BY <2>1, WithoutAppend
    <2>3. Texts!Split(u, sep) = <<u>>
      BY <2>2
    <2>4. Texts!Split(Append(u, x), sep) = Grow(<<u>>, x, sep)
      BY <2>3, SplitAppend
    <2>5. Grow(<<u>>, x, sep) = <<Append(u, x)>>
      BY <2>2 DEF Grow
    <2>6. QED
      BY <2>4, <2>5
  <1>3. S \in SUBSET Seq(T)
    OBVIOUS
  <1> HIDE DEF S
  <1>4. S = Seq(T)
    BY <1>1, <1>2, <1>3, EverySequence
  <1>5. r \in S
    BY <1>4
  <1>6. QED
    BY <1>5 DEF S

LEMMA TextsFlatten == \A s : Texts!FlattenSeq(s) = Cutter!FlattenSeq(s)
    BY DEF Texts!FlattenSeq, Cutter!FlattenSeq

EachEnded(parts, mark) == [k \in DOMAIN parts |-> Append(parts[k], mark)]

LEMMA EachEndedIs ==
    ASSUME NEW T, NEW p \in Seq(Seq(T)), NEW mark \in T
    PROVE  /\ EachEnded(p, mark) \in Seq(Seq(T)) /\ Len(EachEnded(p, mark)) = Len(p)
           /\ \A k \in 1 .. Len(p) : EachEnded(p, mark)[k] = Append(p[k], mark)
  <1>1. Len(p) \in Nat /\ DOMAIN p = 1 .. Len(p)
    BY LenProperties
  <1>2. \A k \in 1 .. Len(p) : Append(p[k], mark) \in Seq(T)
    BY ElementOfSeq, AppendProperties
  <1>3. EachEnded(p, mark) = [k \in 1 .. Len(p) |-> Append(p[k], mark)]
    BY <1>1 DEF EachEnded
  <1>4. QED
    BY <1>1, <1>2, <1>3

LEMMA EndedIs ==
    ASSUME NEW T, NEW p \in Seq(Seq(T)), NEW mark \in T
    PROVE  /\ Texts!Ended(p, mark) = Cutter!FlattenSeq(EachEnded(p, mark))
           /\ Texts!Ended(p, mark) \in Seq(T)
  <1>1. Texts!Ended(p, mark) = Cutter!FlattenSeq(EachEnded(p, mark))
    BY TextsFlatten DEF Texts!Ended, EachEnded
  <1>2. EachEnded(p, mark) \in Seq(Seq(T))
    BY EachEndedIs
  <1>3. Cutter!FlattenSeq(EachEnded(p, mark)) \in Seq(T)
    <2>1. <<>> \in Seq(T)
      OBVIOUS
    <2>2. QED
      BY <1>2, <2>1, FlattenAppend
  <1>4. QED
    BY <1>1, <1>3

LEMMA EndedEmpty ==
    ASSUME NEW mark
    PROVE  Texts!Ended(<<>>, mark) = <<>>
  <1>1. <<>> \in Seq(Seq({mark})) /\ Len(<<>>) = 0
    OBVIOUS
  <1>2. EachEnded(<<>>, mark) \in Seq(Seq({mark})) /\ Len(EachEnded(<<>>, mark)) = 0
    BY <1>1, EachEndedIs
  <1>3. EachEnded(<<>>, mark) = <<>>
    BY <1>2, EmptySeq
  <1>4. Texts!Ended(<<>>, mark) = Cutter!FlattenSeq(EachEnded(<<>>, mark))
    BY <1>1, EndedIs
  <1>5. QED
    BY <1>3, <1>4, FlattenEmpty

LEMMA EndedAppend ==
    ASSUME NEW T, NEW p \in Seq(Seq(T)), NEW x \in Seq(T), NEW mark \in T
    PROVE  /\ Texts!Ended(Append(p, x), mark) = Texts!Ended(p, mark) \o Append(x, mark)
           /\ Texts!Ended(Append(p, x), mark) = Append(Texts!Ended(p, mark) \o x, mark)
  <1> DEFINE U == Seq(T)
             q == Append(p, x)
             y == Append(x, mark)
             e == EachEnded(p, mark)
  <1>1. /\ q \in Seq(U) /\ Len(q) = Len(p) + 1 /\ Len(p) \in Nat /\ q[Len(p) + 1] = x
        /\ \A k \in 1 .. Len(p) : q[k] = p[k]
    BY AppendProperties
  <1>2. y \in U
    BY AppendProperties
  <1>3. /\ e \in Seq(U) /\ Len(e) = Len(p)
        /\ \A k \in 1 .. Len(p) : e[k] = Append(p[k], mark)
    BY EachEndedIs
  <1> HIDE DEF q, e
  <1>4. /\ EachEnded(q, mark) \in Seq(U) /\ Len(EachEnded(q, mark)) = Len(q)
        /\ \A k \in 1 .. Len(q) : EachEnded(q, mark)[k] = Append(q[k], mark)
    BY <1>1, EachEndedIs
  <1>5. EachEnded(q, mark) = Append(e, y)
    <2> HIDE DEF y, U
    <2>1. /\ Append(e, y) \in Seq(U) /\ Len(Append(e, y)) = Len(e) + 1
          /\ \A k \in 1 .. Len(e) : Append(e, y)[k] = e[k]
          /\ Append(e, y)[Len(e) + 1] = y
      BY <1>2, <1>3, AppendProperties
    <2>2. Len(EachEnded(q, mark)) = Len(Append(e, y))
      BY <1>1, <1>3, <1>4, <2>1
    <2>3. ASSUME NEW k \in 1 .. Len(EachEnded(q, mark)) PROVE EachEnded(q, mark)[k] = Append(e, y)[k]
      <3>1. k \in 1 .. Len(q) /\ (k = Len(p) + 1 \/ k \in 1 .. Len(p))
        BY <1>1, <1>4
      <3>2. EachEnded(q, mark)[k] = Append(q[k], mark)
        BY <1>4, <3>1
      <3>3. CASE k = Len(p) + 1
        BY <1>1, <1>3, <2>1, <3>2, <3>3 DEF y
      <3>4. CASE k \in 1 .. Len(p)
        BY <1>1, <1>3, <2>1, <3>2, <3>4
      <3>5. QED
        BY <3>1, <3>3, <3>4
    <2>4. QED
      BY <1>4, <2>1, <2>2, <2>3, SeqEqual
  <1>6. Cutter!FlattenSeq(Append(e, y)) = Cutter!FlattenSeq(e) \o y
    BY <1>2, <1>3, FlattenAppend
  <1>7. /\ Texts!Ended(q, mark) = Cutter!FlattenSeq(EachEnded(q, mark))
        /\ Texts!Ended(p, mark) = Cutter!FlattenSeq(e) /\ Texts!Ended(p, mark) \in Seq(T)
    BY <1>1, EndedIs DEF e
  <1>8. Texts!Ended(q, mark) = Texts!Ended(p, mark) \o y
    BY <1>5, <1>6, <1>7
  <1>9. Texts!Ended(p, mark) \o y = Append(Texts!Ended(p, mark) \o x, mark)
    <2>1. <<mark>> \in Seq(T) /\ Texts!Ended(p, mark) \o x \in Seq(T)
      BY <1>7, ConcatProperties
    <2>2. y = x \o <<mark>>
      BY AppendIsConcat
    <2>3. Append(Texts!Ended(p, mark) \o x, mark) = (Texts!Ended(p, mark) \o x) \o <<mark>>
      BY <2>1, AppendIsConcat
    <2>4. QED
      BY <1>7, <2>1, <2>2, <2>3, ConcatAssociative
  <1>10. QED
    BY <1>8, <1>9 DEF q, y

(* q is p and one more.  As a name of its own it keeps the provers from     *)
(* extending what they have without end.                                   *)
Extends(q, p, x) == q = Append(p, x)

LEMMA EndedMore ==
    ASSUME NEW T, NEW p \in Seq(Seq(T)), NEW x \in Seq(T), NEW mark \in T, NEW q, Extends(q, p, x)
    PROVE  Texts!Ended(q, mark) = Append(Texts!Ended(p, mark) \o x, mark)
  <1>1. Texts!Ended(Append(p, x), mark) = Append(Texts!Ended(p, mark) \o x, mark)
    BY EndedAppend
  <1>2. QED
    BY <1>1 DEF Extends

LEMMA EndedGrows ==
    \A T : \A p \in Seq(Seq(T)), x \in Seq(T), mark \in T :
        Texts!Ended(Append(p, x), mark) = Texts!Ended(p, mark) \o Append(x, mark)
    BY EndedAppend

LEMMA EndedConcat ==
    ASSUME NEW T, NEW p \in Seq(Seq(T)), NEW q \in Seq(Seq(T)), NEW mark \in T
    PROVE  Texts!Ended(p \o q, mark) = Texts!Ended(p, mark) \o Texts!Ended(q, mark)
  <1> DEFINE U == Seq(T)
             e == Texts!Ended(p, mark)
             S == {r \in Seq(U) : Texts!Ended(p \o r, mark) = e \o Texts!Ended(r, mark)}
  <1>0. e \in Seq(T)
    BY EndedIs
  <1>1. <<>> \in S
    <2>1. p \o <<>> = p /\ e \o <<>> = e
      BY <1>0, ConcatEmptySeq
    <2>2. Texts!Ended(<<>>, mark) = <<>> /\ <<>> \in Seq(U)
      BY EndedEmpty
    <2> HIDE DEF U
    <2>3. Texts!Ended(p \o <<>>, mark) = e \o Texts!Ended(<<>>, mark)
      BY <2>1, <2>2
    <2>4. QED
      BY <2>2, <2>3
  <1>2. ASSUME NEW r \in S, NEW x \in U PROVE Append(r, x) \in S
    <2>1. r \in Seq(U) /\ Texts!Ended(p \o r, mark) = e \o Texts!Ended(r, mark)
      OBVIOUS
    <2> HIDE DEF e, S
    <2>2. p \o r \in Seq(U) /\ Append(r, x) \in Seq(U)
      BY <2>1, ConcatProperties, AppendProperties
    <2>3. p \o Append(r, x) = Append(p \o r, x)
      <3>1. <<x>> \in Seq(U)
        OBVIOUS
      <3>2. Append(r, x) = r \o <<x>> /\ Append(p \o r, x) = (p \o r) \o <<x>>
        BY <2>1, <2>2, AppendIsConcat
      <3> HIDE DEF U
      <3>3. p \in Seq(U)
        BY DEF U
      <3>4. QED
        BY <2>1, <3>1, <3>2, <3>3, ConcatAssociative
    <2> DEFINE y == Append(x, mark)
    <2>4. y \in Seq(T)
      BY AppendProperties
    <2>5. /\ Texts!Ended(Append(p \o r, x), mark) = Texts!Ended(p \o r, mark) \o y
          /\ Texts!Ended(Append(r, x), mark) = Texts!Ended(r, mark) \o y
      <3> DEFINE w == p \o r
      <3>1. w \in Seq(Seq(T)) /\ r \in Seq(Seq(T)) /\ x \in Seq(T)
        BY <2>1, <2>2
      <3> HIDE DEF w, U, y
      <3>2. Texts!Ended(Append(w, x), mark) = Texts!Ended(w, mark) \o Append(x, mark)
        BY <3>1, EndedGrows
      <3>3. Texts!Ended(Append(r, x), mark) = Texts!Ended(r, mark) \o Append(x, mark)
        BY <3>1, EndedGrows
      <3>4. QED
        BY <3>2, <3>3 DEF w, y
    <2>6. Texts!Ended(r, mark) \in Seq(T)
      BY <2>1, EndedIs
    <2> HIDE DEF y, U
    <2>7. (e \o Texts!Ended(r, mark)) \o y = e \o (Texts!Ended(r, mark) \o y)
      BY <1>0, <2>4, <2>6, ConcatAssociative
    <2>8. Texts!Ended(p \o Append(r, x), mark) = e \o Texts!Ended(Append(r, x), mark)
      BY <2>1, <2>3, <2>5, <2>7
    <2>9. QED
      BY <2>2, <2>8 DEF S
  <1>3. S \in SUBSET Seq(U)
    OBVIOUS
  <1> HIDE DEF S, U, e
  <1>4. S = Seq(U)
    BY <1>1, <1>2, <1>3, EverySequence
  <1>5. q \in S
    BY <1>4 DEF U
  <1>6. QED
    BY <1>5 DEF S, e

LEMMA ConcatAppend ==
    ASSUME NEW T, NEW s \in Seq(T), NEW r \in Seq(T), NEW x \in T, NEW q, Extends(q, r, x)
    PROVE  s \o q = Append(s \o r, x)
  <1>1. <<x>> \in Seq(T) /\ s \o r \in Seq(T)
    BY ConcatProperties
  <1>2. Append(r, x) = r \o <<x>> /\ Append(s \o r, x) = (s \o r) \o <<x>>
    BY <1>1, AppendIsConcat
  <1>3. s \o Append(r, x) = Append(s \o r, x)
    BY <1>1, <1>2, ConcatAssociative
  <1>4. QED
    BY <1>3 DEF Extends

LEMMA FrontAndLast ==
    ASSUME NEW T, NEW s \in Seq(T), NEW x \in T
    PROVE  Texts!Front(Append(s, x)) = s /\ Texts!Last(Append(s, x)) = x
  <1> DEFINE t == Append(s, x)
  <1>1. /\ t \in Seq(T) /\ Len(t) = Len(s) + 1 /\ Len(s) \in Nat /\ t[Len(s) + 1] = x
        /\ \A i \in 1 .. Len(s) : t[i] = s[i]
    BY AppendProperties
  <1> HIDE DEF t
  <1>2. /\ SubSeq(t, 1, Len(s)) \in Seq(T) /\ Len(SubSeq(t, 1, Len(s))) = Len(s)
        /\ \A i \in 1 .. Len(s) : SubSeq(t, 1, Len(s))[i] = t[i]
    BY <1>1
  <1>3. SubSeq(t, 1, Len(s)) = s
    BY <1>1, <1>2, SeqEqual
  <1>4. Texts!Front(t) = SubSeq(t, 1, Len(s))
    BY <1>1 DEF Texts!Front
  <1>5. QED
    BY <1>1, <1>3, <1>4 DEF Texts!Last, t

LEMMA FrontIs ==
    ASSUME NEW T, NEW s \in Seq(T), s # <<>>
    PROVE  /\ Texts!Front(s) \in Seq(T) /\ Texts!Last(s) \in T
           /\ s = Append(Texts!Front(s), Texts!Last(s))
           /\ Len(s) = Len(Texts!Front(s)) + 1
  <1>1. PICK r \in Seq(T), x \in T : s = Append(r, x)
    BY SequenceEmptyOrAppend
  <1>2. Texts!Front(s) = r /\ Texts!Last(s) = x
    BY <1>1, FrontAndLast
  <1>3. Len(s) = Len(r) + 1
    BY <1>1, AppendProperties
  <1>4. QED
    BY <1>1, <1>2, <1>3

AllWithout(p, x) == \A k \in 1 .. Len(p) : Without(p[k], x)

LEMMA AllWithoutAppend ==
    ASSUME NEW T, NEW p \in Seq(T), NEW l \in T, NEW x
    PROVE  AllWithout(Append(p, l), x) <=> AllWithout(p, x) /\ Without(l, x)
  <1> DEFINE q == Append(p, l)
  <1>1. /\ Len(q) = Len(p) + 1 /\ Len(p) \in Nat /\ q[Len(p) + 1] = l
        /\ \A i \in 1 .. Len(p) : q[i] = p[i]
    BY AppendProperties
  <1> HIDE DEF q
  <1>2. 1 .. Len(q) = (1 .. Len(p)) \cup {Len(p) + 1}
    BY <1>1
  <1>3. QED
    BY <1>1, <1>2 DEF AllWithout, q

(* What was joined is split into what it was joined from. *)
LEMMA SplitEnded ==
    ASSUME NEW T, NEW p \in Seq(Seq(T)), NEW mark \in T, p # <<>>, AllWithout(p, mark)
    PROVE  \E s \in Seq(T) : Texts!Ended(p, mark) = Append(s, mark) /\ Texts!Split(s, mark) = p
  <1> DEFINE U == Seq(T)
             Fine(q) == \E s \in Seq(T) : Texts!Ended(q, mark) = Append(s, mark) /\ Texts!Split(s, mark) = q
             S == {q \in Seq(U) : q # <<>> /\ AllWithout(q, mark) => Fine(q)}
  <1>1. <<>> \in S
    OBVIOUS
  <1>2. ASSUME NEW q \in S, NEW l \in U PROVE Append(q, l) \in S
    <2> DEFINE t == Append(q, l)
    <2>1. q \in Seq(U) /\ (q # <<>> /\ AllWithout(q, mark) => Fine(q))
      OBVIOUS
    <2>2. t \in Seq(U)
      BY <2>1, AppendProperties
    <2>3. SUFFICES ASSUME AllWithout(t, mark) PROVE Fine(t)
      BY <2>2
    <2> HIDE DEF S
    <2>4. AllWithout(q, mark) /\ Without(l, mark)
      BY <2>1, <2>3, AllWithoutAppend
    <2>5. Texts!Split(l, mark) = <<l>>
      BY <2>4, SplitWithout
    <2>6. Texts!Ended(t, mark) = Append(Texts!Ended(q, mark) \o l, mark)
      <3>1. Extends(t, q, l)
        BY DEF Extends
      <3>2. l \in Seq(T) /\ q \in Seq(Seq(T))
        BY <2>1
      <3> HIDE DEF t, U
      <3>3. QED
        BY <3>1, <3>2, EndedMore
    <2>7. CASE q = <<>>
      <3>1. <<>> \o l = l /\ Texts!Ended(q, mark) = <<>>
        BY <2>7, ConcatEmptySeq, EndedEmpty
      <3>2. t = <<l>>
        BY <2>7
      <3> HIDE DEF t, U
      <3>3. Texts!Ended(t, mark) = Append(l, mark) /\ Texts!Split(l, mark) = t /\ l \in Seq(T)
        BY <2>5, <2>6, <3>1, <3>2 DEF U
      <3>4. QED
        BY <3>3
    <2>8. CASE q # <<>>
      <3>1. Fine(q)
        BY <2>1, <2>4, <2>8
      <3>2. PICK s \in Seq(T) : Texts!Ended(q, mark) = Append(s, mark) /\ Texts!Split(s, mark) = q
        BY <3>1
      <3>3. Texts!Split(Append(s, mark) \o l, mark) = q \o <<l>>
        <4> DEFINE w == Append(s, mark) \o l
        <4>1. Separated(w, s, mark, l)
          BY DEF Separated
        <4> HIDE DEF w
        <4>2. Texts!Split(w, mark) = Texts!Split(s, mark) \o Texts!Split(l, mark)
          BY <3>2, <4>1, SplitSeparated
        <4>3. QED
          BY <2>5, <3>2, <4>2 DEF w
      <3>4. t = q \o <<l>>
        BY <2>1, AppendIsConcat
      <3>5. Append(s, mark) \o l \in Seq(T)
        BY <3>2, AppendProperties, ConcatProperties
      <3> HIDE DEF t, U
      <3>6. Texts!Ended(t, mark) = Append(Append(s, mark) \o l, mark)
        BY <2>6, <3>2
      <3>7. QED
        BY <3>3, <3>4, <3>5, <3>6
    <2>9. QED
      BY <2>7, <2>8
  <1>3. S \in SUBSET Seq(U)
    OBVIOUS
  <1> HIDE DEF S, U, Fine
  <1>4. S = Seq(U)
    BY <1>1, <1>2, <1>3, EverySequence
  <1>5. p \in S
    BY <1>4 DEF U
  <1>6. Fine(p)
    BY <1>5 DEF S
  <1>7. QED
    BY <1>6 DEF Fine

(* What was split is joined to what it was. *)
LEMMA EndedSplit ==
    ASSUME NEW T, NEW s \in Seq(T), NEW mark \in T
    PROVE  /\ Texts!Ended(Texts!Split(s, mark), mark) = Append(s, mark)
           /\ AllWithout(Texts!Split(s, mark), mark)
  <1> DEFINE Fine(r) == /\ Texts!Ended(Texts!Split(r, mark), mark) = Append(r, mark)
                        /\ AllWithout(Texts!Split(r, mark), mark)
             S == {r \in Seq(T) : Fine(r)}
             U == Seq(T)
  <1>1. <<>> \in S
    <2>1. Texts!Split(<<>>, mark) = <<<<>>>>
      BY SplitEmpty
    <2>2. <<<<>>>> = Append(<<>>, <<>>) /\ <<>> \in Seq(Seq(T)) /\ <<>> \in Seq(T)
      OBVIOUS
    <2>3. Texts!Ended(Append(<<>>, <<>>), mark) = Append(Texts!Ended(<<>>, mark) \o <<>>, mark)
      <3> DEFINE w == Append(<<>>, <<>>)
      <3>1. Extends(w, <<>>, <<>>)
        BY DEF Extends
      <3> HIDE DEF w
      <3>2. Texts!Ended(w, mark) = Append(Texts!Ended(<<>>, mark) \o <<>>, mark)
        <4>1. <<>> \in Seq(T) /\ <<>> \in Seq(Seq(T))
          BY <2>2
        <4>2. QED
          BY <3>1, <4>1, EndedMore
      <3>3. QED
        BY <3>2 DEF w
    <2>4. Texts!Ended(<<>>, mark) \o <<>> = <<>>
      BY <2>2, EndedEmpty, ConcatEmptySeq
    <2>5. AllWithout(<<<<>>>>, mark)
      BY DEF AllWithout, Without
    <2>6. QED
      BY <2>1, <2>2, <2>3, <2>4, <2>5
  <1>2. ASSUME NEW r \in S, NEW x \in T PROVE Append(r, x) \in S
    <2> DEFINE p == Texts!Split(r, mark)
               q == Texts!Split(Append(r, x), mark)
    <2>1. /\ r \in Seq(T) /\ Append(r, x) \in Seq(T)
          /\ Texts!Ended(p, mark) = Append(r, mark) /\ AllWithout(p, mark)
      BY AppendProperties
    <2>2. p \in Seq(U) /\ Len(p) \in Nat /\ Len(p) >= 1 /\ p # <<>>
      <3>1. p \in Parts(T)
        BY <2>1, SplitIsParts
      <3> HIDE DEF p
      <3>2. p \in Seq(U) /\ Len(p) >= 1
        BY <3>1 DEF Parts
      <3>3. QED
        BY <3>2, EmptySeq
    <2>3. q = Grow(p, x, mark)
      BY <2>1, SplitAppend
    <2> HIDE DEF p, q, S, U
    <2>4. CASE x = mark
      <3>1. q = Append(p, <<>>) /\ <<>> \in Seq(T)
        BY <2>3, <2>4 DEF Grow
      <3>2. Texts!Ended(q, mark) = Append(Texts!Ended(p, mark) \o <<>>, mark)
        <4>1. Extends(q, p, <<>>) /\ p \in Seq(Seq(T))
          BY <2>2, <3>1 DEF Extends, U
        <4>2. QED
          BY <3>1, <4>1, EndedMore
      <3>3. Append(r, mark) \in Seq(T) /\ Append(r, mark) \o <<>> = Append(r, mark)
        BY <2>1, <2>4, ConcatEmptySeq
      <3>4. Without(<<>>, mark)
        BY DEF Without
      <3>5. AllWithout(q, mark)
        BY <2>1, <2>2, <3>1, <3>4, AllWithoutAppend DEF U
      <3>6. QED
        BY <2>1, <2>4, <3>2, <3>3, <3>5 DEF S, q
    <2>5. CASE x # mark
      <3>1. PICK f \in Seq(U), l \in U : p = Append(f, l)
        BY <2>2, SequenceEmptyOrAppend
      <3>2. l \in Seq(T) /\ f \in Seq(Seq(T)) /\ Append(l, x) \in Seq(T)
        BY <3>1, AppendProperties DEF U
      <3>3. q = Append(f, Append(l, x))
        <4>1. /\ Len(p) = Len(f) + 1 /\ Len(f) \in Nat /\ p[Len(p)] = l
              /\ \A i \in 1 .. Len(f) : p[i] = f[i]
          BY <3>1, AppendProperties
        <4> DEFINE m == Append(l, x)
        <4>2. m \in U /\ Len(p) \in 1 .. Len(p)
          BY <2>2, <3>2 DEF U
        <4>3. q = [p EXCEPT ![Len(p)] = m]
          BY <2>3, <2>5, <4>1 DEF Grow
        <4> HIDE DEF m
        <4>4. /\ q \in Seq(U) /\ Len(q) = Len(p)
              /\ \A j \in 1 .. Len(p) : q[j] = IF j = Len(p) THEN m ELSE p[j]
          BY <2>2, <4>2, <4>3, ExceptSeq
        <4>5. /\ Append(f, m) \in Seq(U) /\ Len(Append(f, m)) = Len(f) + 1
              /\ \A i \in 1 .. Len(f) : Append(f, m)[i] = f[i]
              /\ Append(f, m)[Len(f) + 1] = m
          BY <3>1, <4>2, AppendProperties
        <4>6. ASSUME NEW j \in 1 .. Len(q) PROVE q[j] = Append(f, m)[j]
          <5>1. j \in 1 .. Len(p) /\ (j = Len(p) \/ (j # Len(p) /\ j \in 1 .. Len(f)))
            BY <4>1, <4>4
          <5>2. CASE j = Len(p)
            BY <4>1, <4>4, <4>5, <5>1, <5>2
          <5>3. CASE j # Len(p) /\ j \in 1 .. Len(f)
            BY <4>1, <4>4, <4>5, <5>1, <5>3
          <5>4. QED
            BY <5>1, <5>2, <5>3
        <4>7. Len(q) = Len(Append(f, m))
          BY <4>1, <4>4, <4>5
        <4>8. q = Append(f, m)
          BY <4>4, <4>5, <4>6, <4>7, SeqEqual
        <4>9. QED
          BY <4>8 DEF m
      <3> DEFINE e == Texts!Ended(f, mark)
      <3>4. e \in Seq(T)
        BY <3>2, EndedIs
      <3>5. Texts!Ended(p, mark) = Append(e \o l, mark)
        <4>1. Extends(p, f, l)
          BY <3>1 DEF Extends
        <4>2. QED
          BY <3>2, <4>1, EndedMore
      <3> DEFINE m == Append(l, x)
      <3>6. Texts!Ended(q, mark) = Append(e \o m, mark)
        <4>1. Extends(q, f, m) /\ m \in Seq(T)
          BY <3>2, <3>3 DEF Extends
        <4> HIDE DEF m
        <4>2. QED
          BY <3>2, <4>1, EndedMore
      <3> HIDE DEF e
      <3>7. e \o l = r
        <4>1. e \o l \in Seq(T)
          BY <3>2, <3>4, ConcatProperties
        <4> DEFINE w == e \o l
        <4>2. w \in Seq(T) /\ r \in Seq(T) /\ Append(w, mark) = Append(r, mark)
          BY <2>1, <3>5, <4>1
        <4> HIDE DEF w
        <4>3. w = r
          BY <4>2, AppendInjective
        <4>4. QED
          BY <4>3 DEF w
      <3>8. e \o m = Append(r, x)
        <4>1. Extends(m, l, x)
          BY DEF Extends
        <4> HIDE DEF m
        <4>2. e \o m = Append(e \o l, x)
          BY <3>2, <3>4, <4>1, ConcatAppend
        <4>3. QED
          BY <3>7, <4>2
      <3>9. AllWithout(f, mark) /\ Without(l, mark)
        BY <2>1, <3>1, AllWithoutAppend
      <3>10. Without(Append(l, x), mark)
        BY <2>5, <3>2, <3>9, WithoutAppend
      <3>11. AllWithout(q, mark)
        BY <3>2, <3>3, <3>9, <3>10, AllWithoutAppend
      <3>12. QED
        BY <2>1, <3>6, <3>8, <3>11 DEF S, q
    <2>6. QED
      BY <2>4, <2>5
  <1>3. S \in SUBSET Seq(T)
    OBVIOUS
  <1> HIDE DEF S, Fine
  <1>4. S = Seq(T)
    BY <1>1, <1>2, <1>3, EverySequence
  <1>5. s \in S
    BY <1>4
  <1>6. QED
    BY <1>5 DEF S, Fine

(* The tokens, and those that a line may consist of and a field. *)
Signs == {"LF", "TAB", "CR", " ", "latin1", "version v1", "manifest v1", "file v1", "manifest",
          "parent", "author", "time", "expiry", "graph", "message", "size"}

Alphabet == UNION {Ids, Times, DOMAIN Numbers, Tokens, Characters, Signs}

Clean == Alphabet \ {"LF", "CR", "latin1"}

Bare == Clean \ {"TAB"}

LEMMA SignsAreTokens == Signs \subseteq Alphabet
    BY DEF Alphabet

LEMMA TabIsClean == "TAB" \in Clean /\ "TAB" \in Alphabet /\ "LF" \in Alphabet
    BY SignsAreTokens DEF Signs, Clean

LEMMA NestedMonotonic ==
    ASSUME NEW S, NEW T, S \subseteq T, NEW p \in Seq(Seq(S))
    PROVE  p \in Seq(Seq(T))
  <1>1. Seq(S) \subseteq Seq(T)
    BY SeqMonotonic
  <1>2. QED
    BY <1>1, SeqMonotonic

LEMMA BareIsClean == Bare \subseteq Clean /\ Clean \subseteq Alphabet
    BY DEF Bare, Clean

(* Lines as Marshal writes them: the last field of a line has an end, which *)
(* is no space.                                                             *)
Neat(fields) ==
    /\ fields \in Seq(Seq(Bare)) /\ fields # <<>>
    /\ Texts!Last(fields) # <<>> /\ Texts!Last(Texts!Last(fields)) # " "

LEMMA LineIs ==
    ASSUME NEW fields, Neat(fields)
    PROVE  /\ Texts!Line(fields) \in Seq(Clean) /\ Texts!Line(fields) # <<>>
           /\ ~Texts!EndsInSpace(Texts!Line(fields))
           /\ Texts!Split(Texts!Line(fields), "TAB") = fields
  <1> DEFINE l == Texts!Line(fields)
  <1>1. fields \in Seq(Seq(Bare)) /\ fields # <<>>
    BY DEF Neat
  <1>2. fields \in Seq(Seq(Clean)) /\ "TAB" \in Clean
    BY <1>1, TabIsClean, BareIsClean, NestedMonotonic
  <1>3. AllWithout(fields, "TAB")
    <2>1. ASSUME NEW k \in 1 .. Len(fields) PROVE Without(fields[k], "TAB")
      <3>1. fields[k] \in Seq(Bare)
        BY <1>1, ElementOfSeq
      <3>2. ASSUME NEW i \in 1 .. Len(fields[k]) PROVE fields[k][i] # "TAB"
        <4>1. fields[k][i] \in Bare
          BY <3>1, ElementOfSeq
        <4>2. QED
          BY <4>1 DEF Bare
      <3>3. QED
        BY <3>2 DEF Without
    <2>2. QED
      BY <2>1 DEF AllWithout
  <1>4. PICK s \in Seq(Clean) : Texts!Ended(fields, "TAB") = Append(s, "TAB") /\ Texts!Split(s, "TAB") = fields
    BY <1>1, <1>2, <1>3, SplitEnded
  <1>5. l = s
    BY <1>2, <1>4, FrontAndLast DEF Texts!Line
  <1> DEFINE f == Texts!Front(fields)
             w == Texts!Last(fields)
  <1>6. /\ f \in Seq(Seq(Clean)) /\ w \in Seq(Bare) /\ fields = Append(f, w)
        /\ w # <<>> /\ Texts!Last(w) # " "
    <2>1. f \in Seq(Seq(Bare)) /\ w \in Seq(Bare) /\ fields = Append(f, w)
      BY <1>1, FrontIs
    <2> HIDE DEF f, w
    <2>2. f \in Seq(Seq(Clean))
      BY <2>1, BareIsClean, NestedMonotonic
    <2>3. w # <<>> /\ Texts!Last(w) # " "
      BY DEF Neat, w
    <2>4. QED
      BY <2>1, <2>2, <2>3
  <1> HIDE DEF f, w, l
  <1>7. w \in Seq(Clean)
    BY <1>6, BareIsClean, SeqMonotonic
  <1> DEFINE e == Texts!Ended(f, "TAB")
  <1>8. Texts!Ended(fields, "TAB") = Append(e \o w, "TAB") /\ e \in Seq(Clean)
    <2>1. Extends(fields, f, w)
      BY <1>6 DEF Extends
    <2>2. Texts!Ended(fields, "TAB") = Append(Texts!Ended(f, "TAB") \o w, "TAB")
      BY <1>2, <1>6, <1>7, <2>1, EndedMore
    <2>3. QED
      BY <1>2, <1>6, <2>2, EndedIs
  <1> HIDE DEF e
  <1>9. s = e \o w
    <2> DEFINE v == e \o w
    <2>1. v \in Seq(Clean) /\ Append(v, "TAB") = Append(s, "TAB")
      BY <1>4, <1>7, <1>8, ConcatProperties
    <2> HIDE DEF v
    <2>2. v = s
      BY <1>2, <1>4, <2>1, AppendInjective
    <2>3. QED
      BY <2>2 DEF v
  <1>10. Len(w) \in Nat /\ Len(w) >= 1 /\ w[Len(w)] \in Bare /\ w[Len(w)] # " "
    <2>1. Len(w) \in Nat /\ Len(w) >= 1
      <3>1. Len(w) \in Nat \ {0}
        BY <1>6, EmptySeq
      <3>2. QED
        BY <3>1
    <2>2. Len(w) \in 1 .. Len(w)
      BY <2>1
    <2>3. w[Len(w)] \in Bare
      BY <1>6, <2>2, ElementOfSeq
    <2>4. QED
      BY <1>6, <2>1, <2>3 DEF Texts!Last
  <1>11. Len(s) = Len(e) + Len(w) /\ Len(e) \in Nat /\ s[Len(s)] = w[Len(w)]
    <2>1. /\ Len(e \o w) = Len(e) + Len(w) /\ Len(e) \in Nat
          /\ \A i \in 1 .. Len(e) + Len(w) : (e \o w)[i] = IF i <= Len(e) THEN e[i] ELSE w[i - Len(e)]
      BY <1>7, <1>8, ConcatProperties
    <2> DEFINE n == Len(e) + Len(w)
    <2>2. n \in 1 .. Len(e) + Len(w) /\ ~(n <= Len(e)) /\ n - Len(e) = Len(w)
      <3>1. Len(e) \in Nat /\ Len(w) \in Nat /\ Len(w) >= 1
        BY <1>10, <2>1
      <3>2. QED
        BY <3>1
    <2> HIDE DEF n
    <2>3. (e \o w)[n] = w[n - Len(e)]
      BY <2>1, <2>2
    <2>5. (e \o w)[n] = w[Len(w)]
      BY <2>2, <2>3
    <2>4. Len(s) = n
      BY <1>9, <2>1 DEF n
    <2>6. s[n] = w[Len(w)]
      BY <1>9, <2>5
    <2>7. s[Len(s)] = w[Len(w)]
      BY <2>4, <2>6
    <2>8. Len(s) = Len(e) + Len(w) /\ Len(e) \in Nat
      BY <1>9, <2>1
    <2>9. QED
      BY <2>7, <2>8
  <1>12. l # <<>>
    <2>1. Len(l) # 0
      <3>1. Len(w) \in Nat /\ Len(w) >= 1 /\ Len(e) \in Nat /\ Len(l) = Len(e) + Len(w)
        BY <1>5, <1>10, <1>11
      <3>2. QED
        BY <3>1
    <2>2. Len(<<>>) = 0
      OBVIOUS
    <2>3. QED
      BY <2>1, <2>2
  <1>13. Texts!Last(l) \notin {" ", "TAB"}
    <2>1. Texts!Last(l) = w[Len(w)]
      BY <1>5, <1>11 DEF Texts!Last
    <2>2. QED
      BY <1>10, <2>1 DEF Bare
  <1>14. QED
    BY <1>4, <1>5, <1>12, <1>13 DEF Texts!EndsInSpace, l

LEMMA LineOfSplit ==
    ASSUME NEW l \in Seq(Alphabet)
    PROVE  Texts!Line(Texts!Split(l, "TAB")) = l
  <1>1. "TAB" \in Alphabet
    BY TabIsClean
  <1>2. Texts!Ended(Texts!Split(l, "TAB"), "TAB") = Append(l, "TAB")
    BY <1>1, EndedSplit
  <1>3. Texts!Front(Append(l, "TAB")) = l
    BY <1>1, FrontAndLast
  <1>4. QED
    BY <1>2, <1>3 DEF Texts!Line

(* What a header consists of, and the lines below it. *)
IsHeader(h) == h \in Bare /\ h \notin {"BOM", " "}

NeatLines(ls) == ls \in Seq(Seq(Seq(Bare))) /\ \A k \in 1 .. Len(ls) : Neat(ls[k])

Joined(ls) == [k \in DOMAIN ls |-> Texts!Line(ls[k])]

(* The lines of a text, the header first. *)
Headed(h, ls) == <<<<h>>>> \o Joined(ls)

LEMMA JoinedIs ==
    ASSUME NEW ls, NeatLines(ls)
    PROVE  /\ Joined(ls) \in Seq(Seq(Clean)) /\ Len(Joined(ls)) = Len(ls) /\ Len(ls) \in Nat
           /\ \A k \in 1 .. Len(ls) : Joined(ls)[k] = Texts!Line(ls[k])
  <1>1. Len(ls) \in Nat /\ DOMAIN ls = 1 .. Len(ls)
    BY LenProperties DEF NeatLines
  <1>2. \A k \in 1 .. Len(ls) : Texts!Line(ls[k]) \in Seq(Clean)
    BY LineIs DEF NeatLines
  <1> DEFINE F(k) == Texts!Line(ls[k])
             n == Len(ls)
             j == [k \in 1 .. n |-> F(k)]
  <1>3. Joined(ls) = j
    BY <1>1 DEF Joined
  <1> HIDE DEF F
  <1>4. \A k \in 1 .. n : F(k) \in Seq(Clean)
    BY <1>2 DEF F
  <1> HIDE DEF n
  <1>5. j \in Seq(Seq(Clean)) /\ Len(j) = n /\ \A k \in 1 .. n : j[k] = F(k)
    BY <1>1, <1>4 DEF n
  <1>6. QED
    BY <1>1, <1>3, <1>5 DEF F, n

LEMMA Singleton ==
    ASSUME NEW T, NEW x \in T
    PROVE  <<x>> \in Seq(T) /\ Len(<<x>>) = 1 /\ <<x>>[1] = x /\ <<x>> # <<>>
    OBVIOUS

LEMMA NestedSingleton ==
    ASSUME NEW T, NEW x \in T
    PROVE  /\ <<<<x>>>> \in Seq(Seq(T)) /\ Len(<<<<x>>>>) = 1 /\ <<<<x>>>>[1] = <<x>>
  <1> DEFINE l == <<x>>
  <1>1. l \in Seq(T)
    BY Singleton
  <1> HIDE DEF l
  <1>2. <<l>> \in Seq(Seq(T)) /\ Len(<<l>>) = 1 /\ <<l>>[1] = l
    BY <1>1, Singleton
  <1>3. QED
    BY <1>2 DEF l

LEMMA Pair ==
    ASSUME NEW T, NEW x \in T, NEW y \in T
    PROVE  Append(<<x>>, y) = <<x, y>>
  <1> DEFINE a == Append(<<x>>, y)
             b == <<x, y>>
  <1>1. /\ a \in Seq(T) /\ Len(a) = 1 + 1 /\ a[1 + 1] = y /\ a[1] = x
    BY Singleton, AppendProperties
  <1>2. b \in Seq(T) /\ Len(b) = 2 /\ b[1] = x /\ b[2] = y
    OBVIOUS
  <1> HIDE DEF a, b
  <1>3. \A i \in 1 .. Len(a) : a[i] = b[i]
    BY <1>1, <1>2
  <1>4. a = b
    BY <1>1, <1>2, <1>3, SeqEqual
  <1>5. QED
    BY <1>4 DEF a, b

LEMMA EndedOne ==
    ASSUME NEW T, NEW x \in T, NEW mark \in T
    PROVE  Texts!Ended(<<<<x>>>>, mark) = <<x, mark>>
  <1> DEFINE p == <<>>
             l == <<x>>
             q == <<l>>
  <1>1. Extends(q, p, l) /\ p \in Seq(Seq(T)) /\ l \in Seq(T)
    BY DEF Extends
  <1>2. Texts!Ended(p, mark) = <<>> /\ <<>> \o l = l /\ Append(l, mark) = <<x, mark>>
    <2>1. Texts!Ended(p, mark) = <<>>
      BY EndedEmpty
    <2>2. <<>> \o l = l
      BY <1>1, ConcatEmptySeq
    <2>3. Append(l, mark) = <<x, mark>>
      BY Pair
    <2>4. QED
      BY <2>1, <2>2, <2>3
  <1> HIDE DEF p, l, q
  <1>3. Texts!Ended(q, mark) = Append(Texts!Ended(p, mark) \o l, mark)
    BY <1>1, EndedMore
  <1>4. Texts!Ended(q, mark) = <<x, mark>>
    BY <1>2, <1>3
  <1>5. QED
    BY <1>4 DEF q, l

LEMMA EndedJoins ==
    \A T : \A p \in Seq(Seq(T)), q \in Seq(Seq(T)), mark \in T :
        Texts!Ended(p \o q, mark) = Texts!Ended(p, mark) \o Texts!Ended(q, mark)
    BY EndedConcat

(* A text is its lines, each of them ended. *)
LEMMA EncodedIsEnded ==
    ASSUME NEW h \in Alphabet, NEW ls, Joined(ls) \in Seq(Seq(Alphabet))
    PROVE  Texts!Encoded(h, ls) = Texts!Ended(Headed(h, ls), "LF")
  <1> DEFINE q == Joined(ls)
             a == <<<<h>>>>
  <1>1. a \in Seq(Seq(Alphabet)) /\ q \in Seq(Seq(Alphabet)) /\ "LF" \in Alphabet
    BY TabIsClean, NestedSingleton
  <1>2. Texts!Ended(a, "LF") = <<h, "LF">>
    BY <1>1, EndedOne
  <1> HIDE DEF a, q
  <1>3. Texts!Ended(a \o q, "LF") = Texts!Ended(a, "LF") \o Texts!Ended(q, "LF")
    BY <1>1, EndedJoins
  <1>4. Texts!Encoded(h, ls) = <<h, "LF">> \o Texts!Ended(Joined(ls), "LF")
    BY DEF Texts!Encoded, Joined
  <1>5. QED
    BY <1>2, <1>3, <1>4 DEF a, q, Headed

LEMMA HeadedIs ==
    ASSUME NEW h, IsHeader(h), NEW ls, NeatLines(ls)
    PROVE  /\ Headed(h, ls) \in Seq(Seq(Clean)) /\ Len(Headed(h, ls)) = Len(ls) + 1
           /\ Headed(h, ls)[1] = <<h>>
           /\ \A k \in 1 .. Len(ls) : Headed(h, ls)[k + 1] = Texts!Line(ls[k])
           /\ \A k \in 1 .. Len(ls) + 1 :
                 Headed(h, ls)[k] # <<>> /\ ~Texts!EndsInSpace(Headed(h, ls)[k])
  <1> DEFINE j == Joined(ls)
             a == <<<<h>>>>
             p == a \o j
             n == Len(ls)
  <1>1. j \in Seq(Seq(Clean)) /\ Len(j) = n /\ n \in Nat
        /\ \A k \in 1 .. n : j[k] = Texts!Line(ls[k])
    BY JoinedIs
  <1>2. h \in Clean /\ h # "TAB" /\ h # " "
    BY DEF IsHeader, Bare
  <1>3. a \in Seq(Seq(Clean)) /\ Len(a) = 1 /\ a[1] = <<h>>
    BY <1>2, NestedSingleton
  <1> HIDE DEF j, a
  <1>4. p \in Seq(Seq(Clean)) /\ Len(p) = 1 + n
        /\ \A i \in 1 .. 1 + n : p[i] = IF i <= 1 THEN a[i] ELSE j[i - 1]
    <2> HIDE DEF n
    <2>1. /\ p \in Seq(Seq(Clean)) /\ Len(p) = Len(a) + Len(j)
          /\ \A i \in 1 .. Len(a) + Len(j) : p[i] = IF i <= Len(a) THEN a[i] ELSE j[i - Len(a)]
      BY <1>1, <1>3, ConcatProperties
    <2> HIDE DEF p
    <2>2. Len(a) + Len(j) = 1 + n /\ Len(a) = 1
      BY <1>1, <1>3
    <2>3. QED
      BY <2>1, <2>2
  <1> HIDE DEF p, n
  <1>5. p[1] = <<h>>
    BY <1>1, <1>3, <1>4
  <1>6. ASSUME NEW k \in 1 .. n PROVE p[k + 1] = Texts!Line(ls[k])
    <2>1. k + 1 \in 1 .. 1 + n /\ ~(k + 1 <= 1) /\ (k + 1) - 1 = k
      BY <1>1
    <2>2. p[k + 1] = j[k]
      BY <1>4, <2>1
    <2>3. QED
      BY <1>1, <2>2
  <1>7. ASSUME NEW k \in 1 .. n + 1 PROVE p[k] # <<>> /\ ~Texts!EndsInSpace(p[k])
    <2>1. CASE k = 1
      <3>1. <<h>> # <<>> /\ Len(<<h>>) = 1 /\ <<h>>[1] = h
        OBVIOUS
      <3>2. Texts!Last(<<h>>) = h
        BY <3>1 DEF Texts!Last
      <3>3. QED
        BY <1>2, <1>5, <2>1, <3>1, <3>2 DEF Texts!EndsInSpace
    <2>2. CASE k # 1
      <3> DEFINE i == k - 1
      <3>1. i \in 1 .. n /\ i + 1 = k
        BY <1>1, <2>2
      <3> HIDE DEF i
      <3>2. p[k] = Texts!Line(ls[i])
        BY <1>6, <3>1
      <3>3. Neat(ls[i])
        BY <3>1 DEF NeatLines, n
      <3>4. QED
        BY <3>2, <3>3, LineIs
    <2>3. QED
      BY <2>1, <2>2
  <1>8. p = Headed(h, ls) /\ n + 1 = 1 + n
    BY <1>1 DEF p, j, a, Headed
  <1>9. QED
    BY <1>4, <1>5, <1>6, <1>7, <1>8 DEF n

(* What a text above the message consists of. *)
Printed == Clean \cup {"LF"}

LEMMA PrintedIs == Clean \subseteq Printed /\ Printed \subseteq Alphabet /\ "LF" \in Printed
    BY TabIsClean DEF Printed, Clean

LEMMA CleanWithout ==
    ASSUME NEW p \in Seq(Seq(Clean))
    PROVE  AllWithout(p, "LF")
  <1>1. ASSUME NEW k \in 1 .. Len(p) PROVE Without(p[k], "LF")
    <2>1. p[k] \in Seq(Clean)
      BY ElementOfSeq
    <2>2. ASSUME NEW i \in 1 .. Len(p[k]) PROVE p[k][i] # "LF"
      <3>1. p[k][i] \in Clean
        BY <2>1, ElementOfSeq
      <3>2. QED
        BY <3>1 DEF Clean
    <2>3. QED
      BY <2>2 DEF Without
  <1>2. QED
    BY <1>1 DEF AllWithout

(* The text of a header and lines, as LinesOf takes it apart. *)
LEMMA EncodedIs ==
    ASSUME NEW h, IsHeader(h), NEW ls, NeatLines(ls)
    PROVE  /\ Texts!Encoded(h, ls) \in Seq(Printed) /\ Texts!Encoded(h, ls) # <<>>
           /\ Texts!Encoded(h, ls) = Append(Texts!Front(Texts!Encoded(h, ls)), "LF")
           /\ Texts!Front(Texts!Encoded(h, ls)) \in Seq(Printed)
           /\ Texts!Last(Texts!Encoded(h, ls)) = "LF"
           /\ Head(Texts!Encoded(h, ls)) = h
           /\ Texts!Split(Texts!Front(Texts!Encoded(h, ls)), "LF") = Headed(h, ls)
  <1> DEFINE e == Texts!Encoded(h, ls)
             p == Headed(h, ls)
  <1>1. h \in Alphabet /\ h \in Printed
    BY BareIsClean, PrintedIs DEF IsHeader
  <1>2. Joined(ls) \in Seq(Seq(Alphabet)) /\ Joined(ls) \in Seq(Seq(Printed))
    BY JoinedIs, BareIsClean, PrintedIs, NestedMonotonic
  <1>3. e = Texts!Ended(p, "LF")
    BY <1>1, <1>2, EncodedIsEnded
  <1>4. p \in Seq(Seq(Clean)) /\ p # <<>> /\ Len(p) = Len(ls) + 1 /\ p[1] = <<h>>
    <2>1. Len(ls) \in Nat
      BY JoinedIs
    <2>2. p \in Seq(Seq(Clean)) /\ Len(p) = Len(ls) + 1 /\ p[1] = <<h>>
      BY HeadedIs
    <2> HIDE DEF p
    <2>3. Len(p) # 0
      BY <2>1, <2>2
    <2>4. p # <<>>
      BY <2>3
    <2>5. QED
      BY <2>2, <2>4
  <1> HIDE DEF p
  <1>5. p \in Seq(Seq(Printed)) /\ AllWithout(p, "LF") /\ "LF" \in Printed
    BY <1>4, PrintedIs, CleanWithout, NestedMonotonic
  <1>6. PICK s \in Seq(Printed) : Texts!Ended(p, "LF") = Append(s, "LF") /\ Texts!Split(s, "LF") = p
    BY <1>4, <1>5, SplitEnded
  <1>7. e = Append(s, "LF")
    BY <1>3, <1>6
  <1> HIDE DEF e
  <1>8. e \in Seq(Printed) /\ e # <<>>
    BY <1>5, <1>7, AppendProperties
  <1>9. Texts!Front(e) = s /\ Texts!Last(e) = "LF"
    BY <1>5, <1>7, FrontAndLast
  <1>10. Head(e) = h
    <2> DEFINE b == <<h, "LF">>
               r == Texts!Ended(Joined(ls), "LF")
    <2>1. e = b \o r
      BY DEF Texts!Encoded, Joined, e
    <2>2. r \in Seq(Printed)
      BY <1>2, <1>5, EndedIs
    <2>3. b \in Seq(Printed) /\ Len(b) = 2 /\ b[1] = h
      BY <1>1, <1>5
    <2> HIDE DEF b, r
    <2>4. Len(r) \in Nat
      BY <2>2, LenProperties
    <2>5. /\ Len(b \o r) = Len(b) + Len(r)
          /\ \A i \in 1 .. Len(b) + Len(r) : (b \o r)[i] = IF i <= Len(b) THEN b[i] ELSE r[i - Len(b)]
      BY <2>2, <2>3, ConcatProperties
    <2>6. 1 \in 1 .. Len(b) + Len(r) /\ 1 <= Len(b)
      BY <2>3, <2>4
    <2>7. (b \o r)[1] = h
      BY <2>3, <2>5, <2>6
    <2>8. Head(e) = e[1]
      BY <1>8
    <2>9. QED
      BY <2>1, <2>7, <2>8
  <1>11. QED
    BY <1>6, <1>7, <1>8, <1>9, <1>10 DEF e, p

(* What LinesOf checks, the lines given. *)
GoodHead(head, header, rows) ==
    /\ head # <<>> /\ Texts!Last(head) = "LF" /\ Head(head) # "BOM"
    /\ Texts!ToSet(head) \cap {"CR", "latin1"} = {}
    /\ \A k \in DOMAIN rows : rows[k] # <<>> /\ ~Texts!EndsInSpace(rows[k])
    /\ rows[1] = <<header>>

Fielded(rows) == [k \in 1 .. Len(rows) - 1 |-> Texts!Split(rows[k + 1], "TAB")]

LEMMA LinesOfIs ==
    ASSUME NEW head, NEW header
    PROVE  Texts!LinesOf(head, header) =
              IF GoodHead(head, header, Texts!Split(Texts!Front(head), "LF"))
              THEN Fielded(Texts!Split(Texts!Front(head), "LF"))
              ELSE Refused
  BY DEF Texts!LinesOf, GoodHead, Fielded

(* What was encoded is decoded. *)
LEMMA LinesOfEncoded ==
    ASSUME NEW h, IsHeader(h), NEW ls, NeatLines(ls)
    PROVE  Texts!LinesOf(Texts!Encoded(h, ls), h) = ls
  <1> DEFINE e == Texts!Encoded(h, ls)
             p == Headed(h, ls)
             n == Len(ls)
  <1>1. /\ e \in Seq(Printed) /\ e # <<>> /\ Texts!Last(e) = "LF" /\ Head(e) = h
        /\ Texts!Split(Texts!Front(e), "LF") = p
    BY EncodedIs
  <1>2. /\ p \in Seq(Seq(Clean)) /\ Len(p) = n + 1 /\ p[1] = <<h>>
        /\ \A k \in 1 .. n : p[k + 1] = Texts!Line(ls[k])
        /\ \A k \in 1 .. n + 1 : p[k] # <<>> /\ ~Texts!EndsInSpace(p[k])
    BY HeadedIs
  <1>3. n \in Nat /\ ls \in Seq(Seq(Seq(Bare)))
    BY LenProperties DEF NeatLines
  <1> HIDE DEF e, p, n
  <1>4. DOMAIN p = 1 .. n + 1
    BY <1>2, LenProperties
  <1>5. Texts!ToSet(e) \cap {"CR", "latin1"} = {}
    <2>1. DOMAIN e = 1 .. Len(e)
      BY <1>1, LenProperties
    <2>2. \A i \in 1 .. Len(e) : e[i] \in Printed
      BY <1>1, ElementOfSeq
    <2>3. "CR" \notin Printed /\ "latin1" \notin Printed
      BY DEF Printed, Clean
    <2>4. QED
      BY <2>1, <2>2, <2>3 DEF Texts!ToSet
  <1>6. GoodHead(e, h, p)
    BY <1>1, <1>2, <1>4, <1>5 DEF GoodHead, IsHeader
  <1>7. Texts!LinesOf(e, h) = Fielded(p)
    BY <1>1, <1>6, LinesOfIs
  <1> DEFINE F(k) == Texts!Split(p[k + 1], "TAB")
  <1>8. \A k \in 1 .. n : F(k) = ls[k]
    <2>1. ASSUME NEW k \in 1 .. n PROVE F(k) = ls[k]
      <3>1. p[k + 1] = Texts!Line(ls[k])
        BY <1>2
      <3>2. Neat(ls[k])
        BY DEF NeatLines, n
      <3>3. Texts!Split(Texts!Line(ls[k]), "TAB") = ls[k]
        BY <3>2, LineIs
      <3>4. QED
        BY <3>1, <3>3
    <2>2. QED
      BY <2>1
  <1>9. Fielded(p) = [k \in 1 .. n |-> F(k)]
    <2>1. Len(p) - 1 = n
      BY <1>2, <1>3
    <2>2. QED
      BY <2>1 DEF Fielded
  <1> HIDE DEF F
  <1>10. ls = [k \in 1 .. n |-> ls[k]]
    BY <1>3, LenProperties DEF n
  <1>11. [k \in 1 .. n |-> F(k)] = [k \in 1 .. n |-> ls[k]]
    BY <1>8
  <1>12. QED
    BY <1>7, <1>9, <1>10, <1>11 DEF e

LEMMA FieldedIs ==
    ASSUME NEW p \in Parts(Alphabet), NEW ls, ls = Fielded(p)
    PROVE  /\ ls \in Seq(Parts(Alphabet)) /\ ls \in Seq(Seq(Seq(Alphabet)))
           /\ Len(ls) = Len(p) - 1 /\ Len(ls) \in Nat
           /\ \A k \in 1 .. Len(ls) : ls[k] = Texts!Split(p[k + 1], "TAB")
           /\ Joined(ls) = [k \in 1 .. Len(p) - 1 |-> p[k + 1]]
  <1> DEFINE n == Len(p) - 1
             F(k) == Texts!Split(p[k + 1], "TAB")
             Q == Parts(Alphabet)
  <1>1. n \in Nat /\ p \in Seq(Seq(Alphabet))
    BY LenProperties DEF Parts
  <1>2. ASSUME NEW k \in 1 .. n PROVE p[k + 1] \in Seq(Alphabet)
    <2>1. k + 1 \in 1 .. Len(p)
      BY <1>1
    <2>2. QED
      BY <1>1, <2>1, ElementOfSeq
  <1>3. \A k \in 1 .. n : F(k) \in Q
    BY <1>2, SplitIsParts
  <1>4. ls = [k \in 1 .. n |-> F(k)]
    BY DEF Fielded
  <1> HIDE DEF F, Q, n
  <1>5. ls \in Seq(Q) /\ Len(ls) = n /\ \A k \in 1 .. n : ls[k] = F(k)
    BY <1>1, <1>3, <1>4
  <1>6. ls \in Seq(Seq(Seq(Alphabet)))
    <2>1. Q \subseteq Seq(Seq(Alphabet))
      BY DEF Q, Parts
    <2>2. QED
      BY <1>5, <2>1, SeqMonotonic
  <1>7. Joined(ls) = [k \in 1 .. n |-> p[k + 1]]
    <2>1. DOMAIN ls = 1 .. n
      BY <1>4
    <2>2. \A k \in 1 .. n : Texts!Line(ls[k]) = p[k + 1]
      BY <1>2, <1>5, LineOfSplit DEF F
    <2>3. QED
      BY <2>1, <2>2 DEF Joined
  <1>8. QED
    BY <1>1, <1>5, <1>6, <1>7 DEF n, F, Q

(* What was decoded encodes to what it was decoded from. *)
LEMMA EncodedLines ==
    ASSUME NEW h \in Alphabet, NEW head \in Seq(Alphabet), NEW ls, ls = Texts!LinesOf(head, h),
           ls # Refused
    PROVE  /\ Texts!Encoded(h, ls) = head
           /\ ls \in Seq(Parts(Alphabet)) /\ ls \in Seq(Seq(Seq(Alphabet)))
           /\ Len(ls) \in Nat
           /\ ls = Fielded(Texts!Split(Texts!Front(head), "LF"))
           /\ GoodHead(head, h, Texts!Split(Texts!Front(head), "LF"))
  <1> DEFINE s == Texts!Front(head)
             p == Texts!Split(s, "LF")
  <1>1. GoodHead(head, h, p) /\ ls = Fielded(p)
    BY LinesOfIs
  <1>2. head # <<>> /\ Texts!Last(head) = "LF" /\ p[1] = <<h>>
    BY <1>1 DEF GoodHead
  <1>3. s \in Seq(Alphabet) /\ head = Append(s, "LF")
    BY <1>2, FrontIs
  <1> HIDE DEF s
  <1>4. p \in Parts(Alphabet) /\ Texts!Ended(p, "LF") = head
    BY <1>3, TabIsClean, SplitIsParts, EndedSplit
  <1> HIDE DEF p
  <1>5. p \in Seq(Seq(Alphabet)) /\ Len(p) \in Nat /\ Len(p) >= 1
    BY <1>4, LenProperties DEF Parts
  <1>6. /\ ls \in Seq(Parts(Alphabet)) /\ ls \in Seq(Seq(Seq(Alphabet)))
        /\ Len(ls) = Len(p) - 1 /\ Len(ls) \in Nat
        /\ Joined(ls) = [k \in 1 .. Len(p) - 1 |-> p[k + 1]]
    BY <1>1, <1>4, FieldedIs
  <1> DEFINE j == Joined(ls)
             a == <<<<h>>>>
             n == Len(p) - 1
  <1>7. j \in Seq(Seq(Alphabet)) /\ Len(j) = n /\ n \in Nat /\ \A k \in 1 .. n : j[k] = p[k + 1]
    <2>1. n \in Nat
      BY <1>5
    <2>2. \A k \in 1 .. n : p[k + 1] \in Seq(Alphabet)
      <3>1. \A k \in 1 .. n : k + 1 \in 1 .. Len(p)
        BY <1>5
      <3>2. QED
        BY <1>5, <3>1, ElementOfSeq
    <2>3. j = [k \in 1 .. n |-> p[k + 1]]
      BY <1>6
    <2> HIDE DEF j, n
    <2>4. QED
      BY <2>1, <2>2, <2>3
  <1> HIDE DEF j
  <1>8. a \in Seq(Seq(Alphabet)) /\ Len(a) = 1 /\ a[1] = <<h>>
    BY NestedSingleton
  <1>9. p = a \o j
    <2> HIDE DEF a, n
    <2>1. /\ a \o j \in Seq(Seq(Alphabet)) /\ Len(a \o j) = Len(a) + Len(j)
          /\ \A i \in 1 .. Len(a) + Len(j) : (a \o j)[i] = IF i <= Len(a) THEN a[i] ELSE j[i - Len(a)]
      BY <1>7, <1>8, ConcatProperties
    <2>2. Len(a \o j) = Len(p) /\ Len(a) + Len(j) = Len(p)
      BY <1>5, <1>7, <1>8, <2>1 DEF n
    <2>3. ASSUME NEW i \in 1 .. Len(p) PROVE p[i] = (a \o j)[i]
      <3>1. CASE i = 1
        <4>1. i <= Len(a) /\ i \in 1 .. Len(a) + Len(j)
          BY <1>8, <2>2, <3>1
        <4>2. (a \o j)[i] = a[i]
          BY <2>1, <4>1
        <4>3. p[i] = a[i]
          BY <1>2, <1>8, <3>1
        <4>4. QED
          BY <4>2, <4>3
      <3>2. CASE i # 1
        <4> DEFINE k == i - 1
        <4>1. k \in 1 .. n /\ k + 1 = i /\ ~(i <= Len(a)) /\ i - Len(a) = k
          BY <1>5, <1>8, <3>2 DEF n
        <4> HIDE DEF k
        <4>2. (a \o j)[i] = j[k]
          BY <2>1, <2>2, <4>1
        <4>3. j[k] = p[i]
          BY <1>7, <4>1
        <4>4. QED
          BY <4>2, <4>3
      <3>3. QED
        BY <3>1, <3>2
    <2> DEFINE w == a \o j
    <2>4. w \in Seq(Seq(Alphabet)) /\ Len(w) = Len(p) /\ \A i \in 1 .. Len(p) : p[i] = w[i]
      BY <2>1, <2>2, <2>3
    <2> HIDE DEF w
    <2>5. p = w
      BY <1>5, <2>4, SeqEqual
    <2>6. QED
      BY <2>5 DEF w
  <1>10. Texts!Encoded(h, ls) = Texts!Ended(Headed(h, ls), "LF")
    BY <1>7, EncodedIsEnded DEF j
  <1>11. Headed(h, ls) = p
    BY <1>9 DEF Headed, j, a
  <1>12. Texts!Encoded(h, ls) = head
    BY <1>4, <1>10, <1>11
  <1>13. QED
    BY <1>1, <1>6, <1>12 DEF p, s

Words == UNION {Ids, Times, DOMAIN Numbers}

Files == [type : {"file"}, size : DOMAIN Numbers,
          chunks : Seq([id : Ids, length : DOMAIN Numbers])]

Manifests == [type : {"manifest"},
              entries : Seq([path : Seq(Alphabet), file : Ids, size : DOMAIN Numbers])]

Versions == [type : {"version"}, manifest : Ids, parents : Seq(Ids), author : Seq(Alphabet),
             time : Times, expiry : Times, graph : Ids, message : Seq(Alphabet)]

(* A version as it is handed to Marshal, dated by a clock. *)
DatedVersions == [type : {"version"}, manifest : Ids, parents : Seq(Ids), author : Seq(Alphabet),
                  time : DOMAIN SecondOf, expiry : DOMAIN SecondOf, graph : Ids,
                  message : Seq(Alphabet)]

TextConstants ==
    /\ SecondOf \in [DOMAIN SecondOf -> Times]
    /\ \A t \in Times : t \in DOMAIN SecondOf /\ SecondOf[t] = t
    /\ \A moment \in DOMAIN SecondOf : SecondOf[moment] = "t0" => moment = "t0"
    /\ Numbers \in [DOMAIN Numbers -> Nat]
    /\ \A word \in DOMAIN Numbers : Numbers[word] = 0 => word = "0"
    /\ Words \cap {"LF", "TAB", "CR", " ", "latin1", "01", "t1.5"} = {}
    /\ Objects \subseteq UNION {Files, Manifests, DatedVersions}
    /\ "id0" \in Ids /\ "t0" \in Times /\ MaxEdits \in Nat
    /\ Refused \notin Seq(Seq(Seq(Alphabet)))

LEMMA WordsAreBare ==
    ASSUME TextConstants, NEW word \in Words
    PROVE  word \in Bare /\ word # " " /\ word \in Alphabet /\ Texts!Value(word) = word
  <1>1. word \in Alphabet
    BY DEF Words, Alphabet
  <1>2. word \notin {"LF", "TAB", "CR", " ", "latin1", "01", "t1.5"}
    BY DEF TextConstants
  <1>3. QED
    BY <1>1, <1>2 DEF Bare, Clean, Texts!Value

LEMMA WordKinds == Ids \subseteq Words /\ Times \subseteq Words /\ DOMAIN Numbers \subseteq Words
    BY DEF Words

LEMMA SignsAreBare ==
    /\ {"version v1", "manifest v1", "file v1", "manifest", "parent", "author", "time", "expiry",
        "graph", "size", "message"} \subseteq Bare
    /\ IsHeader("version v1") /\ IsHeader("manifest v1") /\ IsHeader("file v1")
  <1>1. {"version v1", "manifest v1", "file v1", "manifest", "parent", "author", "time", "expiry",
         "graph", "size", "message"} \subseteq Bare
    BY SignsAreTokens DEF Signs, Bare, Clean
  <1>2. QED
    BY <1>1 DEF IsHeader

LEMMA OneIs ==
    ASSUME NEW T, NEW s \in Seq(T), Len(s) = 1
    PROVE  s = <<s[1]>>
  <1>1. s[1] \in T
    BY ElementOfSeq
  <1> DEFINE r == <<s[1]>>
  <1>2. r \in Seq(T) /\ Len(r) = 1 /\ r[1] = s[1]
    BY <1>1
  <1> HIDE DEF r
  <1>3. \A i \in 1 .. Len(s) : s[i] = r[i]
    BY <1>2
  <1>4. s = r
    BY <1>2, <1>3, SeqEqual
  <1>5. QED
    BY <1>4 DEF r

LEMMA TwoIs ==
    ASSUME NEW T, NEW s \in Seq(T), Len(s) = 2
    PROVE  s = <<s[1], s[2]>>
  <1>1. s[1] \in T /\ s[2] \in T
    BY ElementOfSeq
  <1> DEFINE r == <<s[1], s[2]>>
  <1>2. r \in Seq(T) /\ Len(r) = 2 /\ r[1] = s[1] /\ r[2] = s[2]
    BY <1>1
  <1> HIDE DEF r
  <1>3. \A i \in 1 .. Len(s) : s[i] = r[i]
    BY <1>2
  <1>4. s = r
    BY <1>2, <1>3, SeqEqual
  <1>5. QED
    BY <1>4 DEF r

LEMMA ThreeIs ==
    ASSUME NEW T, NEW s \in Seq(T), Len(s) = 3
    PROVE  s = <<s[1], s[2], s[3]>>
  <1>0. 1 \in 1 .. Len(s) /\ 2 \in 1 .. Len(s) /\ 3 \in 1 .. Len(s)
    OBVIOUS
  <1>1. s[1] \in T /\ s[2] \in T /\ s[3] \in T
    BY <1>0, ElementOfSeq
  <1> DEFINE r == <<s[1], s[2], s[3]>>
  <1>2. r \in Seq(T) /\ Len(r) = 3 /\ r[1] = s[1] /\ r[2] = s[2] /\ r[3] = s[3]
    BY <1>1
  <1> HIDE DEF r
  <1>3. \A i \in 1 .. Len(s) : s[i] = r[i]
    BY <1>2
  <1>4. s = r
    BY <1>2, <1>3, SeqEqual
  <1>5. QED
    BY <1>4 DEF r

LEMMA Couple ==
    ASSUME NEW T, NEW x \in T, NEW y \in T
    PROVE  <<x, y>> \in Seq(T) /\ Len(<<x, y>>) = 2 /\ <<x, y>>[1] = x /\ <<x, y>>[2] = y
    OBVIOUS

(* A line of a key and a value, which has an end. *)
LEMMA PairIsNeat ==
    ASSUME NEW key \in Bare, NEW value \in Seq(Bare), value # <<>>, Texts!Last(value) # " "
    PROVE  /\ Neat(<<<<key>>, value>>) /\ <<<<key>>, value>> \in Seq(Seq(Bare))
           /\ Len(<<<<key>>, value>>) = 2 /\ <<<<key>>, value>>[1] = <<key>>
           /\ <<<<key>>, value>>[2] = value
  <1> DEFINE k == <<key>>
             p == <<k, value>>
  <1>1. k \in Seq(Bare)
    BY Singleton
  <1> HIDE DEF k
  <1>2. p \in Seq(Seq(Bare)) /\ Len(p) = 2 /\ p[1] = k /\ p[2] = value
    <2> DEFINE T == Seq(Bare)
    <2>1. k \in T /\ value \in T
      BY <1>1
    <2> HIDE DEF T
    <2>2. p \in Seq(T) /\ Len(p) = 2 /\ p[1] = k /\ p[2] = value
      BY <2>1, Couple
    <2>3. QED
      BY <2>2 DEF T
  <1>3. Texts!Last(p) = value /\ p # <<>>
    BY <1>2 DEF Texts!Last
  <1>4. Neat(p)
    BY <1>2, <1>3 DEF Neat
  <1>5. QED
    BY <1>2, <1>4 DEF k

LEMMA KeyedIsNeat ==
    ASSUME TextConstants, NEW key \in Bare, NEW word \in Words
    PROVE  /\ Neat(Texts!Keyed(key, word)) /\ Texts!Keyed(key, word) \in Seq(Seq(Bare))
           /\ Len(Texts!Keyed(key, word)) = 2 /\ Texts!Keyed(key, word)[1] = <<key>>
           /\ Texts!Keyed(key, word)[2] = <<word>>
  <1> DEFINE v == <<word>>
  <1>1. word \in Bare /\ word # " "
    BY WordsAreBare
  <1>2. v \in Seq(Bare) /\ Len(v) = 1 /\ v[1] = word /\ v # <<>>
    BY <1>1, Singleton
  <1>3. Texts!Last(v) # " "
    BY <1>1, <1>2 DEF Texts!Last
  <1>4. Texts!Keyed(key, word) = <<<<key>>, v>>
    BY DEF Texts!Keyed
  <1> HIDE DEF v
  <1> DEFINE p == <<<<key>>, v>>
  <1>5. Neat(p) /\ p \in Seq(Seq(Bare)) /\ Len(p) = 2 /\ p[1] = <<key>> /\ p[2] = v
    BY <1>2, <1>3, PairIsNeat
  <1>6. QED
    BY <1>4, <1>5 DEF v

LEMMA Prepended ==
    ASSUME NEW T, NEW a \in T, NEW b \in Seq(T)
    PROVE  /\ <<a>> \o b \in Seq(T) /\ Len(<<a>> \o b) = Len(b) + 1 /\ Len(b) \in Nat
           /\ (<<a>> \o b)[1] = a /\ \A k \in 1 .. Len(b) : (<<a>> \o b)[k + 1] = b[k]
  <1> DEFINE s == <<a>>
             r == s \o b
  <1>1. s \in Seq(T) /\ Len(s) = 1 /\ s[1] = a /\ Len(b) \in Nat
    BY Singleton, LenProperties
  <1> HIDE DEF s
  <1>2. /\ r \in Seq(T) /\ Len(r) = Len(s) + Len(b)
        /\ \A i \in 1 .. Len(s) + Len(b) : r[i] = IF i <= Len(s) THEN s[i] ELSE b[i - Len(s)]
    BY <1>1, ConcatProperties
  <1> HIDE DEF r
  <1>3. r[1] = a
    <2>1. 1 \in 1 .. Len(s) + Len(b) /\ 1 <= Len(s)
      BY <1>1
    <2>2. r[1] = s[1]
      BY <1>2, <2>1
    <2>3. QED
      BY <1>1, <2>2
  <1>4. ASSUME NEW k \in 1 .. Len(b) PROVE r[k + 1] = b[k]
    <2>1. k + 1 \in 1 .. Len(s) + Len(b) /\ ~(k + 1 <= Len(s)) /\ (k + 1) - Len(s) = k
      BY <1>1
    <2>2. r[k + 1] = b[(k + 1) - Len(s)]
      BY <1>2, <2>1
    <2>3. QED
      BY <2>1, <2>2
  <1>5. Len(r) = Len(b) + 1
    BY <1>1, <1>2
  <1>6. QED
    BY <1>1, <1>2, <1>3, <1>4, <1>5 DEF r, s

ChunkLines(f) == [k \in DOMAIN f.chunks |-> Texts!Keyed(f.chunks[k].id, f.chunks[k].length)]

FileLines(f) == <<Texts!Keyed("size", f.size)>> \o ChunkLines(f)

(* What ReadFile makes of the lines, and when. *)
FileOf(rows) ==
    [type |-> "file", size |-> Texts!Value(rows[1][2][1]),
     chunks |-> [k \in 1 .. Len(rows) - 1 |->
         [id |-> rows[k + 1][1][1], length |-> Texts!Value(rows[k + 1][2][1])]]]

GoodFileLines(rows) ==
    /\ rows # Refused /\ rows # <<>>
    /\ \A k \in DOMAIN rows : Len(rows[k]) = 2 /\ Texts!ReadsNumber(rows[k][2])
    /\ rows[1][1] = <<"size">>
    /\ \A k \in DOMAIN rows \ {1} : Texts!Word(rows[k][1], Ids)

LEMMA ReadFileIs ==
    ASSUME NEW data
    PROVE  Texts!ReadFile(data) =
              IF GoodFileLines(Texts!LinesOf(data, "file v1"))
                 /\ Texts!ValidFile(FileOf(Texts!LinesOf(data, "file v1")))
              THEN FileOf(Texts!LinesOf(data, "file v1")) ELSE Refused
  BY DEF Texts!ReadFile, GoodFileLines, FileOf

LEMMA WriteFileIs ==
    ASSUME NEW f
    PROVE  Texts!WriteFile(f) = Texts!Encoded("file v1", FileLines(f))
  BY DEF Texts!WriteFile, FileLines, ChunkLines, Texts!Keyed

LEMMA FileLinesAre ==
    ASSUME TextConstants, NEW f \in Files
    PROVE  /\ NeatLines(FileLines(f)) /\ Len(FileLines(f)) = Len(f.chunks) + 1
           /\ Len(f.chunks) \in Nat
           /\ FileLines(f)[1] = Texts!Keyed("size", f.size)
           /\ \A k \in 1 .. Len(f.chunks) :
                 FileLines(f)[k + 1] = Texts!Keyed(f.chunks[k].id, f.chunks[k].length)
  <1> DEFINE n == Len(f.chunks)
             a == Texts!Keyed("size", f.size)
             G(k) == Texts!Keyed(f.chunks[k].id, f.chunks[k].length)
             b == ChunkLines(f)
             T == Seq(Seq(Bare))
             ls == FileLines(f)
  <1>1. f.size \in DOMAIN Numbers /\ f.chunks \in Seq([id : Ids, length : DOMAIN Numbers])
    BY DEF Files
  <1>2. n \in Nat /\ DOMAIN f.chunks = 1 .. n
    BY <1>1, LenProperties
  <1>3. a \in T /\ Neat(a)
    <2>1. f.size \in Words /\ "size" \in Bare
      BY <1>1, WordKinds, SignsAreBare
    <2>2. QED
      BY <2>1, KeyedIsNeat
  <1>4. ASSUME NEW k \in 1 .. n PROVE G(k) \in T /\ Neat(G(k))
    <2>1. f.chunks[k] \in [id : Ids, length : DOMAIN Numbers]
      BY <1>1, ElementOfSeq
    <2>2. f.chunks[k].id \in Words /\ f.chunks[k].length \in Words
      BY <2>1, WordKinds
    <2>3. f.chunks[k].id \in Bare
      BY <2>2, WordsAreBare
    <2>4. QED
      BY <2>2, <2>3, KeyedIsNeat
  <1>5. b = [k \in 1 .. n |-> G(k)]
    BY <1>2 DEF ChunkLines
  <1> HIDE DEF n, a, G, b, T
  <1>6. b \in Seq(T) /\ Len(b) = n /\ \A k \in 1 .. n : b[k] = G(k)
    BY <1>2, <1>4, <1>5
  <1>7. ls = <<a>> \o b
    BY DEF FileLines, a, b
  <1> HIDE DEF ls
  <1>8. /\ ls \in Seq(T) /\ Len(ls) = n + 1 /\ ls[1] = a
        /\ \A k \in 1 .. n : ls[k + 1] = b[k]
    <2>1. /\ <<a>> \o b \in Seq(T) /\ Len(<<a>> \o b) = Len(b) + 1
          /\ (<<a>> \o b)[1] = a /\ \A k \in 1 .. Len(b) : (<<a>> \o b)[k + 1] = b[k]
      BY <1>3, <1>6, Prepended
    <2>2. QED
      BY <1>6, <1>7, <2>1
  <1>9. ASSUME NEW k \in 1 .. Len(ls) PROVE Neat(ls[k])
    <2>1. CASE k = 1
      BY <1>3, <1>8, <2>1
    <2>2. CASE k # 1
      <3> DEFINE i == k - 1
      <3>1. i \in 1 .. n /\ i + 1 = k
        BY <1>2, <1>8, <2>2
      <3> HIDE DEF i
      <3>2. ls[k] = G(i)
        BY <1>6, <1>8, <3>1
      <3>3. QED
        BY <1>4, <3>1, <3>2
    <2>3. QED
      BY <2>1, <2>2
  <1>10. NeatLines(ls)
    BY <1>8, <1>9 DEF NeatLines, T
  <1>11. QED
    BY <1>2, <1>6, <1>8, <1>10 DEF n, a, G, ls

LEMMA NeatIsNotRefused ==
    ASSUME TextConstants, NEW ls, NeatLines(ls)
    PROVE  ls # Refused
  <1>1. Bare \subseteq Alphabet
    BY BareIsClean
  <1>2. Seq(Seq(Bare)) \subseteq Seq(Seq(Alphabet))
    BY <1>1, NestedMonotonic
  <1>3. ls \in Seq(Seq(Seq(Alphabet)))
    BY <1>2, SeqMonotonic DEF NeatLines
  <1>4. QED
    BY <1>3 DEF TextConstants

LEMMA FileOfLines ==
    ASSUME TextConstants, NEW f \in Files
    PROVE  GoodFileLines(FileLines(f)) /\ FileOf(FileLines(f)) = f
  <1> DEFINE n == Len(f.chunks)
             ls == FileLines(f)
  <1>1. f.size \in DOMAIN Numbers /\ f.chunks \in Seq([id : Ids, length : DOMAIN Numbers])
        /\ f.type = "file"
    BY DEF Files
  <1>2. /\ NeatLines(ls) /\ Len(ls) = n + 1 /\ n \in Nat
        /\ ls[1] = Texts!Keyed("size", f.size)
        /\ \A k \in 1 .. n : ls[k + 1] = Texts!Keyed(f.chunks[k].id, f.chunks[k].length)
    BY FileLinesAre
  <1>3. ls # Refused /\ DOMAIN ls = 1 .. n + 1
    <2> HIDE DEF ls, n
    <2>1. ls # Refused
      BY <1>2, NeatIsNotRefused
    <2>2. DOMAIN ls = 1 .. n + 1
      BY <1>2, LenProperties DEF NeatLines
    <2>3. QED
      BY <2>1, <2>2
  <1> HIDE DEF ls, n
  <1>4. ls # <<>>
    BY <1>2
  <1>5. /\ Len(ls[1]) = 2 /\ ls[1][1] = <<"size">> /\ ls[1][2] = <<f.size>>
        /\ Texts!ReadsNumber(ls[1][2]) /\ Texts!Value(ls[1][2][1]) = f.size
    <2>1. f.size \in Words /\ "size" \in Bare
      BY <1>1, WordKinds, SignsAreBare
    <2>2. Len(ls[1]) = 2 /\ ls[1][1] = <<"size">> /\ ls[1][2] = <<f.size>>
      BY <1>2, <2>1, KeyedIsNeat
    <2>3. Texts!Value(f.size) = f.size
      BY <2>1, WordsAreBare
    <2>4. <<f.size>>[1] = f.size /\ Len(<<f.size>>) = 1
      OBVIOUS
    <2>5. Texts!ReadsNumber(ls[1][2])
      BY <1>1, <2>2, <2>4 DEF Texts!ReadsNumber, Texts!Word
    <2>6. QED
      BY <2>2, <2>3, <2>4, <2>5
  <1>6. ASSUME NEW k \in 1 .. n
        PROVE  /\ Len(ls[k + 1]) = 2 /\ Texts!ReadsNumber(ls[k + 1][2])
               /\ Texts!Word(ls[k + 1][1], Ids)
               /\ f.chunks[k] = [id |-> ls[k + 1][1][1], length |-> Texts!Value(ls[k + 1][2][1])]
    <2> DEFINE c == f.chunks[k]
               l == ls[k + 1]
    <2>1. c \in [id : Ids, length : DOMAIN Numbers]
      BY <1>1, ElementOfSeq DEF n
    <2>2. l = Texts!Keyed(c.id, c.length)
      BY <1>2
    <2> HIDE DEF c, l
    <2>3. c.id \in Words /\ c.length \in Words
      BY <2>1, WordKinds
    <2>4. c.id \in Bare /\ Texts!Value(c.length) = c.length
      BY <2>3, WordsAreBare
    <2>5. Len(l) = 2 /\ l[1] = <<c.id>> /\ l[2] = <<c.length>>
      BY <2>2, <2>3, <2>4, KeyedIsNeat
    <2>6. /\ Len(<<c.id>>) = 1 /\ <<c.id>>[1] = c.id
          /\ Len(<<c.length>>) = 1 /\ <<c.length>>[1] = c.length
      OBVIOUS
    <2>7. Texts!ReadsNumber(l[2]) /\ Texts!Word(l[1], Ids)
      BY <2>1, <2>5, <2>6 DEF Texts!ReadsNumber, Texts!Word
    <2>8. c = [id |-> l[1][1], length |-> Texts!Value(l[2][1])]
      BY <2>1, <2>4, <2>5, <2>6
    <2>9. QED
      BY <2>5, <2>7, <2>8 DEF c, l
  <1>7. ASSUME NEW k \in DOMAIN ls
        PROVE  /\ Len(ls[k]) = 2 /\ Texts!ReadsNumber(ls[k][2])
               /\ k # 1 => Texts!Word(ls[k][1], Ids)
    <2>1. CASE k = 1
      BY <1>5, <2>1
    <2>2. CASE k # 1
      <3> DEFINE i == k - 1
      <3>1. i \in 1 .. n /\ i + 1 = k
        BY <1>2, <1>3, <2>2
      <3> HIDE DEF i
      <3>2. QED
        BY <1>6, <3>1
    <2>3. QED
      BY <2>1, <2>2
  <1>8. GoodFileLines(ls)
    BY <1>3, <1>4, <1>5, <1>7 DEF GoodFileLines
  <1> DEFINE G(k) == [id |-> ls[k + 1][1][1], length |-> Texts!Value(ls[k + 1][2][1])]
  <1>9. f.chunks = [k \in 1 .. n |-> G(k)]
    <2>1. f.chunks = [k \in 1 .. n |-> f.chunks[k]]
      BY <1>1, LenProperties DEF n
    <2>2. \A k \in 1 .. n : f.chunks[k] = G(k)
      BY <1>6
    <2> HIDE DEF G
    <2>3. QED
      BY <2>1, <2>2
  <1>10. Len(ls) - 1 = n
    BY <1>2
  <1>11. FileOf(ls) = [type |-> "file", size |-> f.size, chunks |-> f.chunks]
    BY <1>5, <1>9, <1>10 DEF FileOf
  <1>12. f = [type |-> "file", size |-> f.size, chunks |-> f.chunks]
    BY DEF Files
  <1>13. QED
    BY <1>8, <1>11, <1>12 DEF ls

LEMMA FileRoundTrip ==
    ASSUME TextConstants, NEW f \in Files, Texts!ValidFile(f)
    PROVE  Texts!ReadFile(Texts!WriteFile(f)) = f
  <1> DEFINE ls == FileLines(f)
  <1>1. NeatLines(ls) /\ IsHeader("file v1")
    BY FileLinesAre, SignsAreBare
  <1>2. GoodFileLines(ls) /\ FileOf(ls) = f
    BY FileOfLines
  <1>3. Texts!WriteFile(f) = Texts!Encoded("file v1", ls)
    BY WriteFileIs
  <1> HIDE DEF ls
  <1>4. Texts!LinesOf(Texts!WriteFile(f), "file v1") = ls
    BY <1>1, <1>3, LinesOfEncoded
  <1>5. QED
    BY <1>2, <1>4, ReadFileIs

(* A line of two words is what its words make. *)
LEMMA LineOfWords ==
    ASSUME TextConstants, NEW l \in Seq(Seq(Alphabet)), Len(l) = 2,
           NEW A, Texts!Word(l[1], A), NEW B \in SUBSET Words, Texts!Word(l[2], B)
    PROVE  /\ l[1][1] \in A /\ l[2][1] \in B /\ Texts!Value(l[2][1]) = l[2][1]
           /\ l = Texts!Keyed(l[1][1], l[2][1])
  <1>1. l[1] \in Seq(Alphabet) /\ l[2] \in Seq(Alphabet)
    <2>1. 1 \in 1 .. Len(l) /\ 2 \in 1 .. Len(l)
      OBVIOUS
    <2>2. QED
      BY <2>1, ElementOfSeq
  <1>2. /\ Len(l[1]) = 1 /\ l[1][1] \in A
        /\ Len(l[2]) = 1 /\ l[2][1] \in B
    BY DEF Texts!Word
  <1>3. l[1] = <<l[1][1]>>
    BY <1>1, <1>2, OneIs
  <1>4. l[2] = <<l[2][1]>>
    BY <1>1, <1>2, OneIs
  <1>5. l = <<l[1], l[2]>>
    BY TwoIs
  <1>6. l[2][1] \in Words
    BY <1>2
  <1>7. Texts!Value(l[2][1]) = l[2][1]
    BY <1>6, WordsAreBare
  <1>8. Texts!Keyed(l[1][1], l[2][1]) = <<<<l[1][1]>>, <<l[2][1]>>>>
    BY DEF Texts!Keyed
  <1>9. l = Texts!Keyed(l[1][1], l[2][1])
    <2> DEFINE a == l[1]
               b == l[2]
               x == l[1][1]
               y == l[2][1]
    <2>1. l = <<a, b>> /\ a = <<x>> /\ b = <<y>>
      BY <1>3, <1>4, <1>5
    <2>2. Texts!Keyed(x, y) = <<<<x>>, <<y>>>>
      BY <1>8
    <2> HIDE DEF a, b, x, y
    <2>3. l = Texts!Keyed(x, y)
      BY <2>1, <2>2
    <2>4. QED
      BY <2>3 DEF x, y
  <1>10. QED
    BY <1>2, <1>7, <1>9

(* What is accepted as a file object is the lines of one. *)
LEMMA LinesOfFile ==
    ASSUME TextConstants, NEW ls \in Seq(Seq(Seq(Alphabet))), GoodFileLines(ls)
    PROVE  FileOf(ls) \in Files /\ FileLines(FileOf(ls)) = ls
  <1> DEFINE n == Len(ls) - 1
             f == FileOf(ls)
  <1>1. Len(ls) \in Nat \ {0} /\ DOMAIN ls = 1 .. Len(ls)
    BY EmptySeq, LenProperties DEF GoodFileLines
  <1>2. n \in Nat /\ Len(ls) = n + 1
    BY <1>1
  <1>3. \A k \in 1 .. n + 1 : ls[k] \in Seq(Seq(Alphabet)) /\ Len(ls[k]) = 2
                              /\ Texts!Word(ls[k][2], DOMAIN Numbers)
    BY <1>1, <1>2, ElementOfSeq DEF GoodFileLines, Texts!ReadsNumber
  <1> DEFINE G(k) == [id |-> ls[k + 1][1][1], length |-> Texts!Value(ls[k + 1][2][1])]
  <1>4. f.type = "file" /\ f.size = Texts!Value(ls[1][2][1]) /\ f.chunks = [k \in 1 .. n |-> G(k)]
    BY DEF FileOf
  <1>5. f = [type |-> "file", size |-> f.size, chunks |-> f.chunks]
    BY DEF FileOf
  <1> HIDE DEF n, f
  <1>6. f.size \in DOMAIN Numbers /\ ls[1] = Texts!Keyed("size", f.size)
    <2> DEFINE l == ls[1]
    <2>1. /\ l \in Seq(Seq(Alphabet)) /\ Len(l) = 2 /\ Texts!Word(l[2], DOMAIN Numbers)
          /\ l[1] = <<"size">>
      BY <1>2, <1>3 DEF GoodFileLines
    <2>2. DOMAIN Numbers \in SUBSET Words
      BY WordKinds
    <2> DEFINE A == {"size"}
    <2>3. Texts!Word(l[1], A)
      BY <2>1 DEF Texts!Word
    <2>4. f.size = Texts!Value(l[2][1])
      BY <1>4
    <2>7. \A x \in A : x = "size"
      OBVIOUS
    <2> HIDE DEF l, A
    <2>5. l[1][1] \in A /\ l[2][1] \in DOMAIN Numbers /\ Texts!Value(l[2][1]) = l[2][1]
          /\ l = Texts!Keyed(l[1][1], l[2][1])
      BY <2>1, <2>2, <2>3, LineOfWords
    <2>6. QED
      BY <2>4, <2>5, <2>7 DEF l
  <1>7. ASSUME NEW k \in 1 .. n
        PROVE  /\ G(k) \in [id : Ids, length : DOMAIN Numbers]
               /\ ls[k + 1] = Texts!Keyed(G(k).id, G(k).length)
    <2> DEFINE l == ls[k + 1]
    <2>1. k + 1 \in 1 .. n + 1 /\ k + 1 # 1 /\ k + 1 \in DOMAIN ls
      BY <1>1, <1>2
    <2>2. /\ l \in Seq(Seq(Alphabet)) /\ Len(l) = 2 /\ Texts!Word(l[2], DOMAIN Numbers)
          /\ Texts!Word(l[1], Ids)
      BY <1>3, <2>1 DEF GoodFileLines
    <2>3. DOMAIN Numbers \in SUBSET Words
      BY WordKinds
    <2>4. G(k).id = l[1][1] /\ G(k).length = Texts!Value(l[2][1])
          /\ G(k) = [id |-> G(k).id, length |-> G(k).length]
      OBVIOUS
    <2> HIDE DEF l, G
    <2>5. l[1][1] \in Ids /\ l[2][1] \in DOMAIN Numbers /\ Texts!Value(l[2][1]) = l[2][1]
          /\ l = Texts!Keyed(l[1][1], l[2][1])
      BY <2>2, <2>3, LineOfWords
    <2>6. G(k).id \in Ids /\ G(k).length \in DOMAIN Numbers
      BY <2>4, <2>5
    <2>7. QED
      BY <2>4, <2>5, <2>6 DEF l
  <1> HIDE DEF G
  <1>8. f.chunks \in Seq([id : Ids, length : DOMAIN Numbers]) /\ Len(f.chunks) = n
        /\ \A k \in 1 .. n : f.chunks[k] = G(k)
    <2> DEFINE C == [id : Ids, length : DOMAIN Numbers]
    <2>1. \A k \in 1 .. n : G(k) \in C
      BY <1>7
    <2> HIDE DEF C
    <2> DEFINE c == [k \in 1 .. n |-> G(k)]
    <2>2. c \in Seq(C) /\ Len(c) = n /\ \A k \in 1 .. n : c[k] = G(k)
      BY <1>2, <2>1
    <2>4. f.chunks = c
      BY <1>4
    <2> HIDE DEF c
    <2>3. QED
      BY <2>2, <2>4 DEF C
  <1>9. f \in Files
    BY <1>5, <1>6, <1>8 DEF Files
  <1>10. FileLines(f) = ls
    <2> DEFINE s == FileLines(f)
    <2>1. /\ NeatLines(s) /\ Len(s) = n + 1 /\ s[1] = Texts!Keyed("size", f.size)
          /\ \A k \in 1 .. n : s[k + 1] = Texts!Keyed(f.chunks[k].id, f.chunks[k].length)
      BY <1>8, <1>9, FileLinesAre
    <2> HIDE DEF s
    <2>2. s \in Seq(Seq(Seq(Alphabet)))
      <3>1. Seq(Seq(Bare)) \subseteq Seq(Seq(Alphabet))
        BY BareIsClean, NestedMonotonic
      <3>2. QED
        BY <2>1, <3>1, SeqMonotonic DEF NeatLines
    <2>3. ASSUME NEW k \in 1 .. Len(s) PROVE s[k] = ls[k]
      <3>1. CASE k = 1
        BY <1>6, <2>1, <3>1
      <3>2. CASE k # 1
        <4> DEFINE i == k - 1
        <4>1. i \in 1 .. n /\ i + 1 = k
          BY <1>2, <2>1, <3>2
        <4> HIDE DEF i
        <4>2. s[k] = Texts!Keyed(G(i).id, G(i).length)
          BY <1>8, <2>1, <4>1
        <4>3. QED
          BY <1>7, <4>1, <4>2
      <3>3. QED
        BY <3>1, <3>2
    <2>4. s = ls
      BY <1>2, <2>1, <2>2, <2>3, SeqEqual
    <2>5. QED
      BY <2>4 DEF s
  <1>11. QED
    BY <1>9, <1>10 DEF f

(* A text that is accepted as a file object is what WriteFile makes of it. *)
LEMMA FileOneSpelling ==
    ASSUME TextConstants, NEW data \in Seq(Alphabet), Texts!ReadFile(data) # Refused
    PROVE  /\ Texts!ReadFile(data) \in Files /\ Texts!ValidFile(Texts!ReadFile(data))
           /\ Texts!WriteFile(Texts!ReadFile(data)) = data
           /\ FileLines(Texts!ReadFile(data)) = Texts!LinesOf(data, "file v1")
           /\ Texts!LinesOf(data, "file v1") # Refused
  <1> DEFINE ls == Texts!LinesOf(data, "file v1")
             f == FileOf(ls)
  <1>1. GoodFileLines(ls) /\ Texts!ValidFile(f) /\ Texts!ReadFile(data) = f
    BY ReadFileIs
  <1>2. ls # Refused
    BY <1>1 DEF GoodFileLines
  <1>3. "file v1" \in Alphabet
    BY SignsAreTokens DEF Signs
  <1>4. Texts!Encoded("file v1", ls) = data /\ ls \in Seq(Seq(Seq(Alphabet)))
    <2>1. ls = Texts!LinesOf(data, "file v1")
      OBVIOUS
    <2> HIDE DEF ls
    <2>2. QED
      BY <1>2, <1>3, <2>1, EncodedLines
  <1> HIDE DEF ls
  <1>5. f \in Files /\ FileLines(f) = ls
    BY <1>1, <1>4, LinesOfFile
  <1>6. Texts!WriteFile(f) = data
    BY <1>4, <1>5, WriteFileIs
  <1>7. QED
    BY <1>1, <1>2, <1>5, <1>6 DEF ls

(* The sums of the lengths of the first chunks. *)
Sums(g, f) ==
    g = [k \in 0 .. Len(f.chunks) |->
            IF k = 0 THEN 0 ELSE g[k - 1] + Numbers[f.chunks[k].length]]

LengthOf(f, k) == Numbers[f.chunks[k].length]

LEMMA LengthIs ==
    ASSUME TextConstants, NEW f \in Files
    PROVE  /\ Len(f.chunks) \in Nat
           /\ \A k \in 1 .. Len(f.chunks) : LengthOf(f, k) \in Nat
           /\ Texts!ValidFile(f) => \A k \in 1 .. Len(f.chunks) : LengthOf(f, k) > 0
  <1>1. f.chunks \in Seq([id : Ids, length : DOMAIN Numbers])
    BY DEF Files
  <1>2. Len(f.chunks) \in Nat /\ DOMAIN f.chunks = 1 .. Len(f.chunks)
    BY <1>1, LenProperties
  <1>3. ASSUME NEW k \in 1 .. Len(f.chunks)
        PROVE  LengthOf(f, k) \in Nat /\ (Texts!ValidFile(f) => LengthOf(f, k) > 0)
    <2> DEFINE w == f.chunks[k].length
    <2>1. f.chunks[k] \in [id : Ids, length : DOMAIN Numbers]
      BY <1>1, ElementOfSeq
    <2>2. w \in DOMAIN Numbers
      BY <2>1
    <2>3. Texts!ValidFile(f) => w # "0"
      BY <1>2 DEF Texts!ValidFile
    <2> HIDE DEF w
    <2>4. Numbers[w] \in Nat /\ (w # "0" => Numbers[w] # 0)
      BY <2>2 DEF TextConstants
    <2>5. LengthOf(f, k) = Numbers[w]
      BY DEF LengthOf, w
    <2>6. QED
      BY <2>3, <2>4, <2>5
  <1>4. QED
    BY <1>2, <1>3

LEMMA SumsExist ==
    ASSUME TextConstants, NEW f \in Files
    PROVE  \E g : Sums(g, f)
  <1> DEFINE n == Len(f.chunks)
             step == [pair \in (1 .. n) \X Nat |-> pair[2] + LengthOf(f, pair[1])]
  <1>1. n \in Nat /\ \A k \in 1 .. n : LengthOf(f, k) \in Nat
    BY LengthIs
  <1> HIDE DEF n
  <1>2. /\ step \in [(1 .. n) \X Nat -> Nat]
        /\ \A k \in 1 .. n, v \in Nat : step[<<k, v>>] = v + LengthOf(f, k)
    <2>1. ASSUME NEW pair \in (1 .. n) \X Nat PROVE pair[2] + LengthOf(f, pair[1]) \in Nat
      <3>1. pair[1] \in 1 .. n /\ pair[2] \in Nat
        OBVIOUS
      <3>2. LengthOf(f, pair[1]) \in Nat
        BY <1>1, <3>1
      <3>3. QED
        BY <3>1, <3>2
    <2>2. step \in [(1 .. n) \X Nat -> Nat]
      BY <2>1
    <2>3. ASSUME NEW k \in 1 .. n, NEW v \in Nat PROVE step[<<k, v>>] = v + LengthOf(f, k)
      <3>1. <<k, v>> \in (1 .. n) \X Nat /\ <<k, v>>[1] = k /\ <<k, v>>[2] = v
        OBVIOUS
      <3>2. QED
        BY <3>1
    <2>4. QED
      BY <2>2, <2>3
  <1> HIDE DEF step
  <1>3. PICK g \in [0 .. n -> Nat] : IsComputed(g, 0, step, n)
    BY <1>1, <1>2, Computable
  <1>4. ASSUME NEW k \in 1 .. n PROVE g[k] = g[k - 1] + LengthOf(f, k)
    <2>1. k - 1 \in 0 .. n
      BY <1>1
    <2>2. g[k - 1] \in Nat
      BY <1>3, <2>1
    <2>3. g[k] = step[<<k, g[k - 1]>>]
      BY <1>3 DEF IsComputed
    <2>4. QED
      BY <1>2, <2>2, <2>3
  <1>5. \A k \in 0 .. n : g[k] = IF k = 0 THEN 0 ELSE g[k - 1] + LengthOf(f, k)
    <2>1. g[0] = 0
      BY <1>3 DEF IsComputed
    <2>2. \A k \in 0 .. n : k # 0 => k \in 1 .. n
      BY <1>1
    <2>3. QED
      BY <1>4, <2>1, <2>2
  <1>6. g = [k \in 0 .. n |-> IF k = 0 THEN 0 ELSE g[k - 1] + LengthOf(f, k)]
    BY <1>3, <1>5
  <1>7. QED
    BY <1>6 DEF Sums, n, LengthOf

LEMMA TotalIs ==
    ASSUME TextConstants, NEW f \in Files
    PROVE  \E g : Sums(g, f) /\ Texts!Total(f) = g[Len(f.chunks)]
  <1>1. \E g : Sums(g, f)
    BY SumsExist
  <1>2. QED
    BY <1>1 DEF Texts!Total, Sums

LEMMA SumsStep ==
    ASSUME TextConstants, NEW f \in Files, NEW g, Sums(g, f)
    PROVE  /\ g[0] = 0
           /\ \A k \in 1 .. Len(f.chunks) : g[k] = g[k - 1] + LengthOf(f, k)
  <1>1. /\ 0 \in 0 .. Len(f.chunks)
        /\ \A k \in 1 .. Len(f.chunks) : k \in 0 .. Len(f.chunks) /\ k # 0
    BY LengthIs
  <1>2. QED
    BY <1>1 DEF Sums, LengthOf

(* A file whose chunks are the first of another one's is the smaller one. *)
LEMMA FewerIsLess ==
    ASSUME TextConstants, NEW f \in Files, NEW r \in Files, Texts!ValidFile(f),
           Len(r.chunks) < Len(f.chunks),
           \A k \in 1 .. Len(r.chunks) : r.chunks[k] = f.chunks[k]
    PROVE  Texts!Total(r) # Texts!Total(f)
  <1> DEFINE m == Len(r.chunks)
             n == Len(f.chunks)
  <1>1. m \in Nat /\ n \in Nat /\ m < n
    BY LengthIs
  <1>2. PICK g : Sums(g, f) /\ Texts!Total(f) = g[n]
    BY TotalIs
  <1>3. PICK h : Sums(h, r) /\ Texts!Total(r) = h[m]
    BY TotalIs
  <1>4. g[0] = 0 /\ \A k \in 1 .. n : g[k] = g[k - 1] + LengthOf(f, k)
    BY <1>2, SumsStep
  <1>5. h[0] = 0 /\ \A k \in 1 .. m : h[k] = h[k - 1] + LengthOf(r, k)
    BY <1>3, SumsStep
  <1>6. \A k \in 1 .. n : LengthOf(f, k) \in Nat /\ LengthOf(f, k) > 0
    BY LengthIs
  <1>7. \A k \in 1 .. m : LengthOf(r, k) = LengthOf(f, k)
    BY DEF LengthOf
  <1> HIDE DEF m, n
  <1> DEFINE S == {k \in Nat : k <= n => /\ g[k] \in Nat
                                         /\ k <= m => g[k] = h[k]
                                         /\ k > m => g[k] > g[m] /\ g[m] \in Nat}
  <1>8. 0 \in S
    BY <1>1, <1>4, <1>5
  <1>9. ASSUME NEW k \in S PROVE k + 1 \in S
    <2>1. SUFFICES ASSUME k + 1 <= n
                   PROVE  /\ g[k + 1] \in Nat
                          /\ k + 1 <= m => g[k + 1] = h[k + 1]
                          /\ k + 1 > m => g[k + 1] > g[m] /\ g[m] \in Nat
      OBVIOUS
    <2>2. k \in Nat /\ k <= n /\ k + 1 \in 1 .. n /\ (k + 1) - 1 = k
      BY <1>1, <2>1
    <2>3. /\ g[k] \in Nat /\ (k <= m => g[k] = h[k])
          /\ (k > m => g[k] > g[m] /\ g[m] \in Nat)
      BY <2>2
    <2> HIDE DEF S
    <2>4. g[k + 1] = g[k] + LengthOf(f, k + 1) /\ LengthOf(f, k + 1) \in Nat /\ LengthOf(f, k + 1) > 0
      BY <1>4, <1>6, <2>2
    <2>5. ASSUME k + 1 <= m PROVE g[k + 1] = h[k + 1]
      <3>1. k + 1 \in 1 .. m /\ k <= m
        BY <1>1, <2>2, <2>5
      <3>2. h[k + 1] = h[k] + LengthOf(r, k + 1) /\ LengthOf(r, k + 1) = LengthOf(f, k + 1)
        BY <1>5, <1>7, <2>2, <3>1
      <3>3. QED
        BY <2>3, <2>4, <3>1, <3>2
    <2>6. ASSUME k + 1 > m PROVE g[k + 1] > g[m] /\ g[m] \in Nat
      <3>1. k = m \/ k > m
        BY <1>1, <2>2, <2>6
      <3>2. QED
        BY <2>3, <2>4, <3>1
    <2>7. QED
      BY <2>3, <2>4, <2>5, <2>6
  <1>10. S \in SUBSET Nat
    OBVIOUS
  <1> HIDE DEF S
  <1>11. n \in S /\ m \in S
    BY <1>1, <1>8, <1>9, <1>10, EveryNumber
  <1>12. g[n] > g[m] /\ g[m] = h[m] /\ g[n] \in Nat /\ g[m] \in Nat
    BY <1>1, <1>11 DEF S
  <1>13. QED
    BY <1>2, <1>3, <1>12 DEF m, n

LEMMA PrefixIs ==
    ASSUME NEW T, NEW s \in Seq(T), NEW t \in Seq(T), Texts!IsStrictPrefix(s, t)
    PROVE  \E q \in Seq(T) : q # <<>> /\ t = s \o q
  <1> DEFINE m == Len(s)
             n == Len(t)
             q == SubSeq(t, m + 1, n)
  <1>1. /\ m \in Nat /\ n \in Nat /\ m <= n
        /\ SubSeq(s, 1, m) = SubSeq(t, 1, m) /\ s # t
    BY LenProperties DEF Texts!IsStrictPrefix, Texts!IsPrefix
  <1>2. SubSeq(s, 1, m) = s /\ SubSeq(t, 1, n) = t
    BY SubSeqFull
  <1>3. m < n
    BY <1>1, <1>2
  <1>4. SubSeq(t, 1, m) \o SubSeq(t, m + 1, n) = SubSeq(t, 1, n)
    <2>1. 1 \in 1 .. Len(t) + 1 /\ m \in 1 - 1 .. Len(t) /\ n \in m .. Len(t)
      BY <1>1
    <2> HIDE DEF m, n
    <2>2. QED
      BY <2>1, ConcatAdjacentSubSeq
  <1>5. q \in Seq(T) /\ Len(q) = n - (m + 1) + 1
    <2>1. \A i \in m + 1 .. n : t[i] \in T
      BY <1>1, ElementOfSeq
    <2>2. m + 1 \in Int /\ n \in Int /\ m + 1 <= n
      BY <1>1, <1>3
    <2> HIDE DEF m, n
    <2>3. QED
      BY <2>1, <2>2, SubSeqProperties
  <1> HIDE DEF q, m, n
  <1>6. q # <<>>
    <2>1. Len(q) # 0
      BY <1>1, <1>3, <1>5
    <2>2. QED
      BY <2>1
  <1>7. t = s \o q
    BY <1>1, <1>2, <1>4 DEF q
  <1>8. QED
    BY <1>5, <1>6, <1>7

(* Of a text that ends with a mark what precedes another mark splits into *)
(* the first parts.                                                       *)
LEMMA SplitsPrefix ==
    ASSUME NEW T, NEW mark \in T, NEW s \in Seq(T), NEW t \in Seq(T),
           Texts!IsStrictPrefix(Append(s, mark), Append(t, mark))
    PROVE  /\ Len(Texts!Split(s, mark)) < Len(Texts!Split(t, mark))
           /\ \A k \in 1 .. Len(Texts!Split(s, mark)) :
                 Texts!Split(t, mark)[k] = Texts!Split(s, mark)[k]
  <1> DEFINE a == Append(s, mark)
             b == Append(t, mark)
  <1>1. a \in Seq(T) /\ b \in Seq(T)
    BY AppendProperties
  <1>2. PICK q \in Seq(T) : q # <<>> /\ b = a \o q
    BY <1>1, PrefixIs
  <1> DEFINE r == Texts!Front(q)
             x == Texts!Last(q)
  <1>3. r \in Seq(T) /\ x \in T /\ q = Append(r, x)
    BY <1>2, FrontIs
  <1> HIDE DEF a, r, x
  <1>4. a \o q = Append(a \o r, x) /\ a \o r \in Seq(T)
    <2>1. Extends(q, r, x)
      BY <1>3 DEF Extends
    <2>2. a \o q = Append(a \o r, x)
      BY <1>1, <1>3, <2>1, ConcatAppend
    <2>3. QED
      BY <1>1, <1>3, <2>2, ConcatProperties
  <1>5. t = a \o r
    <2> DEFINE w == a \o r
    <2>1. w \in Seq(T) /\ Append(w, x) = Append(t, mark)
      BY <1>2, <1>4
    <2> HIDE DEF w, b
    <2>2. w = t
      BY <1>3, <2>1, AppendInjective
    <2>3. QED
      BY <2>2 DEF w
  <1>6. Separated(t, s, mark, r)
    BY <1>5 DEF Separated, a
  <1> DEFINE p == Texts!Split(s, mark)
             u == Texts!Split(r, mark)
             v == Texts!Split(t, mark)
  <1>7. v = p \o u
    BY <1>3, <1>6, SplitSeparated
  <1>8. p \in Parts(T) /\ u \in Parts(T)
    BY <1>3, SplitIsParts
  <1> HIDE DEF p, u, v
  <1>9. p \in Seq(Seq(T)) /\ u \in Seq(Seq(T)) /\ Len(p) \in Nat /\ Len(u) \in Nat /\ Len(u) >= 1
    BY <1>8, LenProperties DEF Parts
  <1>10. /\ Len(p \o u) = Len(p) + Len(u)
         /\ \A i \in 1 .. Len(p) + Len(u) : (p \o u)[i] = IF i <= Len(p) THEN p[i] ELSE u[i - Len(p)]
    BY <1>9, ConcatProperties
  <1>11. Len(p) < Len(v)
    BY <1>7, <1>9, <1>10
  <1>12. ASSUME NEW k \in 1 .. Len(p) PROVE v[k] = p[k]
    <2>1. k \in 1 .. Len(p) + Len(u) /\ k <= Len(p)
      BY <1>9
    <2>2. QED
      BY <1>7, <1>10, <2>1
  <1>13. QED
    BY <1>11, <1>12 DEF p, v

LEMMA KeyedDetermines ==
    ASSUME TextConstants, NEW x \in Bare, NEW y \in Words, NEW u \in Bare, NEW w \in Words,
           Texts!Keyed(x, y) = Texts!Keyed(u, w)
    PROVE  x = u /\ y = w
  <1>1. <<x>> = <<u>> /\ <<y>> = <<w>>
    BY KeyedIsNeat
  <1>2. <<x>>[1] = x /\ <<u>>[1] = u /\ <<y>>[1] = y /\ <<w>>[1] = w
    OBVIOUS
  <1>3. QED
    BY <1>1, <1>2

(* A file whose lines are the first of another one's. *)
LEMMA FirstLines ==
    ASSUME TextConstants, NEW f \in Files, NEW r \in Files,
           Len(FileLines(r)) < Len(FileLines(f)),
           \A k \in 1 .. Len(FileLines(r)) : FileLines(r)[k] = FileLines(f)[k]
    PROVE  /\ r.size = f.size /\ Len(r.chunks) < Len(f.chunks)
           /\ \A k \in 1 .. Len(r.chunks) : r.chunks[k] = f.chunks[k]
  <1> DEFINE lr == FileLines(r)
             lf == FileLines(f)
             C == [id : Ids, length : DOMAIN Numbers]
  <1>1. /\ Len(lr) = Len(r.chunks) + 1 /\ Len(r.chunks) \in Nat
        /\ lr[1] = Texts!Keyed("size", r.size)
        /\ \A k \in 1 .. Len(r.chunks) :
              lr[k + 1] = Texts!Keyed(r.chunks[k].id, r.chunks[k].length)
    BY FileLinesAre
  <1>2. /\ Len(lf) = Len(f.chunks) + 1 /\ Len(f.chunks) \in Nat
        /\ lf[1] = Texts!Keyed("size", f.size)
        /\ \A k \in 1 .. Len(f.chunks) :
              lf[k + 1] = Texts!Keyed(f.chunks[k].id, f.chunks[k].length)
    BY FileLinesAre
  <1>3. Len(lr) < Len(lf) /\ \A k \in 1 .. Len(lr) : lr[k] = lf[k]
    OBVIOUS
  <1> HIDE DEF lr, lf
  <1>4. /\ r.size \in Words /\ f.size \in Words /\ "size" \in Bare
        /\ r.chunks \in Seq(C) /\ f.chunks \in Seq(C)
    BY WordKinds, SignsAreBare DEF Files
  <1>5. r.size = f.size
    <2>1. 1 \in 1 .. Len(lr)
      BY <1>1
    <2>2. Texts!Keyed("size", r.size) = Texts!Keyed("size", f.size)
      BY <1>1, <1>2, <1>3, <2>1
    <2>3. QED
      BY <1>4, <2>2, KeyedDetermines
  <1>6. Len(r.chunks) < Len(f.chunks)
    BY <1>1, <1>2, <1>3
  <1>7. ASSUME NEW k \in 1 .. Len(r.chunks) PROVE r.chunks[k] = f.chunks[k]
    <2>1. k \in 1 .. Len(f.chunks) /\ k + 1 \in 1 .. Len(lr)
      BY <1>1, <1>2, <1>6
    <2> DEFINE c == r.chunks[k]
               d == f.chunks[k]
    <2>2. c \in C /\ d \in C
      BY <1>4, <2>1, ElementOfSeq
    <2>3. Texts!Keyed(c.id, c.length) = Texts!Keyed(d.id, d.length)
      BY <1>1, <1>2, <1>3, <2>1
    <2> HIDE DEF c, d
    <2>4. c.id \in Words /\ d.id \in Words /\ c.length \in Words /\ d.length \in Words
      BY <2>2, WordKinds
    <2>5. c.id \in Bare /\ d.id \in Bare
      BY <2>4, WordsAreBare
    <2>6. c.id = d.id /\ c.length = d.length
      BY <2>3, <2>4, <2>5, KeyedDetermines
    <2>7. c = d
      BY <2>2, <2>6
    <2>8. QED
      BY <2>7 DEF c, d
  <1>8. QED
    BY <1>5, <1>6, <1>7

(* A file object that has lost its end is not read. *)
LEMMA CutFileIsNotRead ==
    ASSUME TextConstants, NEW f \in Files, Texts!ValidFile(f), NEW data \in Seq(Alphabet),
           Texts!IsStrictPrefix(data, Texts!WriteFile(f))
    PROVE  Texts!ReadFile(data) = Refused
  <1>1. SUFFICES ASSUME Texts!ReadFile(data) # Refused PROVE FALSE
    OBVIOUS
  <1> DEFINE r == Texts!ReadFile(data)
             e == Texts!WriteFile(f)
             h == "file v1"
             lr == FileLines(r)
             lf == FileLines(f)
             s == Texts!Front(data)
             t == Texts!Front(e)
             p == Texts!Split(s, "LF")
             v == Texts!Split(t, "LF")
  <1>2. r \in Files /\ Texts!ValidFile(r) /\ lr = Texts!LinesOf(data, h) /\ lr # Refused
    BY <1>1, FileOneSpelling
  <1>3. NeatLines(lf) /\ IsHeader(h) /\ e = Texts!Encoded(h, lf)
    BY FileLinesAre, SignsAreBare, WriteFileIs
  <1>4. e \in Seq(Printed) /\ e = Append(t, "LF") /\ t \in Seq(Printed) /\ v = Headed(h, lf)
    <2> HIDE DEF e, h, lf
    <2>1. /\ Texts!Encoded(h, lf) \in Seq(Printed)
          /\ Texts!Encoded(h, lf) = Append(Texts!Front(Texts!Encoded(h, lf)), "LF")
          /\ Texts!Front(Texts!Encoded(h, lf)) \in Seq(Printed)
          /\ Texts!Split(Texts!Front(Texts!Encoded(h, lf)), "LF") = Headed(h, lf)
      BY <1>3, EncodedIs
    <2>2. QED
      BY <1>3, <2>1
  <1>5. t \in Seq(Alphabet)
    <2> HIDE DEF t
    <2>1. QED
      BY <1>4, PrintedIs, SeqMonotonic
  <1>6. lr = Fielded(p) /\ GoodHead(data, h, p)
    <2>1. h \in Alphabet
      BY SignsAreTokens DEF Signs
    <2> HIDE DEF lr, r, h
    <2>2. QED
      BY <1>2, <2>1, EncodedLines
  <1>7. s \in Seq(Alphabet) /\ data = Append(s, "LF")
    <2>1. data # <<>> /\ Texts!Last(data) = "LF"
      BY <1>6 DEF GoodHead
    <2>2. QED
      BY <2>1, FrontIs
  <1> HIDE DEF s, t, e, r, lr, lf, h
  <1>8. Len(p) < Len(v) /\ \A k \in 1 .. Len(p) : v[k] = p[k]
    <2>1. Texts!IsStrictPrefix(Append(s, "LF"), Append(t, "LF"))
      BY <1>4, <1>7 DEF e
    <2>2. QED
      BY <1>5, <1>7, <2>1, TabIsClean, SplitsPrefix
  <1>9. p \in Parts(Alphabet)
    BY <1>7, TabIsClean, SplitIsParts
  <1> HIDE DEF p, v
  <1>10. Len(lr) = Len(p) - 1 /\ Len(lr) \in Nat
         /\ \A k \in 1 .. Len(lr) : lr[k] = Texts!Split(p[k + 1], "TAB")
    BY <1>6, <1>9, FieldedIs
  <1>11. Len(v) = Len(lf) + 1 /\ \A k \in 1 .. Len(lf) : v[k + 1] = Texts!Line(lf[k])
    BY <1>3, <1>4, HeadedIs
  <1>12. Len(lf) \in Nat /\ Len(p) \in Nat /\ Len(lr) < Len(lf)
    <2>1. Len(lf) \in Nat
      BY <1>3, LenProperties DEF NeatLines
    <2>2. Len(p) \in Nat
      BY <1>9, LenProperties DEF Parts
    <2>3. QED
      BY <1>8, <1>10, <1>11, <2>1, <2>2
  <1>13. ASSUME NEW k \in 1 .. Len(lr) PROVE lr[k] = lf[k]
    <2>1. k + 1 \in 1 .. Len(p) /\ k \in 1 .. Len(lf)
      BY <1>10, <1>12
    <2>2. lr[k] = Texts!Split(v[k + 1], "TAB")
      BY <1>8, <1>10, <2>1
    <2>3. Neat(lf[k])
      BY <1>3, <2>1 DEF NeatLines
    <2>4. v[k + 1] = Texts!Line(lf[k])
      BY <1>11, <2>1
    <2>5. Texts!Split(Texts!Line(lf[k]), "TAB") = lf[k]
      BY <2>3, LineIs
    <2>6. QED
      BY <2>2, <2>4, <2>5
  <1>14. /\ r.size = f.size /\ Len(r.chunks) < Len(f.chunks)
         /\ \A k \in 1 .. Len(r.chunks) : r.chunks[k] = f.chunks[k]
    BY <1>2, <1>12, <1>13, FirstLines DEF lr, lf
  <1>15. Texts!Total(r) # Texts!Total(f)
    BY <1>2, <1>14, FewerIsLess
  <1>16. Texts!Total(r) = Numbers[r.size] /\ Texts!Total(f) = Numbers[f.size]
    BY <1>2 DEF Texts!ValidFile
  <1>17. QED
    BY <1>14, <1>15, <1>16

LEMMA Triple ==
    ASSUME NEW T, NEW x \in T, NEW y \in T, NEW z \in T
    PROVE  /\ <<x, y, z>> \in Seq(T) /\ Len(<<x, y, z>>) = 3
           /\ <<x, y, z>>[1] = x /\ <<x, y, z>>[2] = y /\ <<x, y, z>>[3] = z
    OBVIOUS

(* A text that avoids some tokens consists of the others. *)
LEMMA Avoids ==
    ASSUME NEW T, NEW p \in Seq(T), NEW S, Texts!ToSet(p) \cap S = {}
    PROVE  p \in Seq(T \ S)
  <1> DEFINE n == Len(p)
  <1>1. n \in Nat /\ DOMAIN p = 1 .. n
    BY LenProperties
  <1>2. \A i \in 1 .. n : p[i] \in T \ S
    <2>1. \A i \in 1 .. n : p[i] \in T /\ p[i] \in Texts!ToSet(p)
      BY <1>1, ElementOfSeq DEF Texts!ToSet
    <2>2. QED
      BY <2>1
  <1>3. p = [i \in 1 .. n |-> p[i]]
    BY LenProperties
  <1> DEFINE U == T \ S
             q == [i \in 1 .. n |-> p[i]]
  <1> HIDE DEF n, U
  <1>4. q \in Seq(U)
    BY <1>1, <1>2 DEF U
  <1>5. p \in Seq(U)
    BY <1>3, <1>4
  <1>6. QED
    BY <1>5 DEF U

EntryLine(e) == <<e.path, <<e.file>>, <<e.size>>>>

ManifestLines(m) == [k \in DOMAIN m.entries |-> EntryLine(m.entries[k])]

(* What ReadManifest makes of the lines, and when. *)
EntryOf(l) == [path |-> l[1], file |-> l[2][1], size |-> Texts!Value(l[3][1])]

ManifestOf(rows) == [type |-> "manifest", entries |-> [k \in DOMAIN rows |-> EntryOf(rows[k])]]

GoodEntryLine(l) == Len(l) = 3 /\ Texts!Word(l[2], Ids) /\ Texts!ReadsNumber(l[3])

GoodManifestLines(rows) == rows # Refused /\ \A k \in DOMAIN rows : GoodEntryLine(rows[k])

LEMMA ReadManifestIs ==
    ASSUME NEW data
    PROVE  Texts!ReadManifest(data) =
              IF GoodManifestLines(Texts!LinesOf(data, "manifest v1"))
                 /\ Texts!ValidManifest(ManifestOf(Texts!LinesOf(data, "manifest v1")))
              THEN ManifestOf(Texts!LinesOf(data, "manifest v1")) ELSE Refused
  BY DEF Texts!ReadManifest, GoodManifestLines, GoodEntryLine, ManifestOf, EntryOf

LEMMA WriteManifestIs ==
    ASSUME NEW m
    PROVE  Texts!WriteManifest(m) = Texts!Encoded("manifest v1", ManifestLines(m))
  BY DEF Texts!WriteManifest, ManifestLines, EntryLine

EntriesOfFiles == [path : Seq(Alphabet), file : Ids, size : DOMAIN Numbers]

LEMMA ValidPathIs ==
    ASSUME NEW p \in Seq(Alphabet), Texts!ValidPath(p)
    PROVE  p \in Seq(Bare)
  <1> DEFINE S == {"latin1", "decomposed", "\\", "TAB", "CR", "LF"}
             U == Alphabet \ S
  <1>1. Texts!ToSet(p) \cap S = {}
    BY DEF Texts!ValidPath
  <1>2. U \subseteq Bare
    BY DEF Bare, Clean
  <1> HIDE DEF S
  <1>3. p \in Seq(U)
    BY <1>1, Avoids
  <1> HIDE DEF U
  <1>4. QED
    BY <1>2, <1>3, SeqMonotonic

LEMMA EntryLineIs ==
    ASSUME TextConstants, NEW e \in EntriesOfFiles, e.path \in Seq(Bare)
    PROVE  /\ EntryLine(e) \in Seq(Seq(Bare)) /\ Neat(EntryLine(e))
           /\ GoodEntryLine(EntryLine(e)) /\ EntryOf(EntryLine(e)) = e
  <1> DEFINE f == <<e.file>>
             z == <<e.size>>
             l == EntryLine(e)
  <1>1. e.file \in Words /\ e.size \in Words /\ e.file \in Ids /\ e.size \in DOMAIN Numbers
    BY WordKinds DEF EntriesOfFiles
  <1>2. e.file \in Bare /\ e.size \in Bare /\ e.size # " " /\ Texts!Value(e.size) = e.size
    BY <1>1, WordsAreBare
  <1>3. /\ f \in Seq(Bare) /\ Len(f) = 1 /\ f[1] = e.file
        /\ z \in Seq(Bare) /\ Len(z) = 1 /\ z[1] = e.size /\ z # <<>>
    BY <1>2, Singleton
  <1>4. l = <<e.path, f, z>>
    BY DEF EntryLine
  <1> HIDE DEF f, z, l
  <1>5. l \in Seq(Seq(Bare)) /\ Len(l) = 3 /\ l[1] = e.path /\ l[2] = f /\ l[3] = z
    <2> DEFINE T == Seq(Bare)
    <2>1. e.path \in T /\ f \in T /\ z \in T
      BY <1>3
    <2> HIDE DEF T
    <2>2. l \in Seq(T) /\ Len(l) = 3 /\ l[1] = e.path /\ l[2] = f /\ l[3] = z
      BY <1>4, <2>1, Triple
    <2>3. QED
      BY <2>2 DEF T
  <1>6. Texts!Last(l) = z /\ Texts!Last(z) = e.size /\ l # <<>>
    BY <1>3, <1>5 DEF Texts!Last
  <1>7. Neat(l)
    BY <1>2, <1>3, <1>5, <1>6 DEF Neat
  <1>8. GoodEntryLine(l)
    BY <1>1, <1>3, <1>5 DEF GoodEntryLine, Texts!Word, Texts!ReadsNumber
  <1>9. EntryOf(l) = [path |-> e.path, file |-> e.file, size |-> e.size]
    BY <1>2, <1>3, <1>5 DEF EntryOf
  <1>10. e = [path |-> e.path, file |-> e.file, size |-> e.size]
    BY DEF EntriesOfFiles
  <1>11. QED
    BY <1>5, <1>7, <1>8, <1>9, <1>10 DEF l

LEMMA GoodEntryLineIs ==
    ASSUME TextConstants, NEW l \in Seq(Seq(Alphabet)), GoodEntryLine(l)
    PROVE  EntryOf(l) \in EntriesOfFiles /\ EntryLine(EntryOf(l)) = l
  <1> DEFINE T == Seq(Alphabet)
             e == EntryOf(l)
  <1>1. Len(l) = 3 /\ Len(l[2]) = 1 /\ l[2][1] \in Ids /\ Len(l[3]) = 1 /\ l[3][1] \in DOMAIN Numbers
    BY DEF GoodEntryLine, Texts!Word, Texts!ReadsNumber
  <1>2. l[1] \in T /\ l[2] \in T /\ l[3] \in T
    <2>1. 1 \in 1 .. Len(l) /\ 2 \in 1 .. Len(l) /\ 3 \in 1 .. Len(l)
      BY <1>1
    <2>2. QED
      BY <2>1, ElementOfSeq
  <1>3. l[2] = <<l[2][1]>>
    BY <1>1, <1>2, OneIs
  <1>4. l[3] = <<l[3][1]>>
    BY <1>1, <1>2, OneIs
  <1>5. l = <<l[1], l[2], l[3]>>
    BY <1>1, ThreeIs
  <1>6. Texts!Value(l[3][1]) = l[3][1]
    BY <1>1, WordKinds, WordsAreBare
  <1>7. e.path = l[1] /\ e.file = l[2][1] /\ e.size = l[3][1]
        /\ e = [path |-> l[1], file |-> l[2][1], size |-> l[3][1]]
    BY <1>6 DEF EntryOf
  <1>8. e \in EntriesOfFiles
    BY <1>1, <1>2, <1>7 DEF EntriesOfFiles
  <1>9. EntryLine(e) = l
    <2> DEFINE a == l[1]
               b == l[2]
               c == l[3]
               x == l[2][1]
               y == l[3][1]
    <2>1. l = <<a, b, c>> /\ b = <<x>> /\ c = <<y>>
      BY <1>3, <1>4, <1>5
    <2>2. EntryLine(e) = <<a, <<x>>, <<y>>>>
      BY <1>7 DEF EntryLine
    <2> HIDE DEF a, b, c, x, y
    <2>3. QED
      BY <2>1, <2>2
  <1>10. QED
    BY <1>8, <1>9

LEMMA ManifestIs ==
    ASSUME NEW m \in Manifests
    PROVE  /\ m.entries \in Seq(EntriesOfFiles) /\ Len(m.entries) \in Nat
           /\ DOMAIN m.entries = 1 .. Len(m.entries)
           /\ m = [type |-> "manifest", entries |-> m.entries]
           /\ m.entries = [k \in 1 .. Len(m.entries) |-> m.entries[k]]
  <1>1. m.entries \in Seq(EntriesOfFiles) /\ m = [type |-> "manifest", entries |-> m.entries]
    BY DEF Manifests, EntriesOfFiles
  <1>2. QED
    BY <1>1, LenProperties

LEMMA ManifestLinesAre ==
    ASSUME TextConstants, NEW m \in Manifests, Texts!ValidManifest(m)
    PROVE  /\ NeatLines(ManifestLines(m))
           /\ GoodManifestLines(ManifestLines(m)) /\ ManifestOf(ManifestLines(m)) = m
  <1> DEFINE n == Len(m.entries)
             s == m.entries
             ls == ManifestLines(m)
             T == Seq(Seq(Bare))
             G(k) == EntryLine(s[k])
  <1>1. /\ s \in Seq(EntriesOfFiles) /\ n \in Nat /\ DOMAIN s = 1 .. n
        /\ m = [type |-> "manifest", entries |-> s] /\ s = [k \in 1 .. n |-> s[k]]
    BY ManifestIs
  <1>2. ASSUME NEW k \in 1 .. n
        PROVE  G(k) \in T /\ Neat(G(k)) /\ GoodEntryLine(G(k)) /\ EntryOf(G(k)) = s[k]
    <2> DEFINE e == s[k]
    <2>1. e \in EntriesOfFiles
      BY <1>1, ElementOfSeq
    <2>2. Texts!ValidPath(e.path)
      BY <1>1 DEF Texts!ValidManifest
    <2> HIDE DEF e
    <2>3. e.path \in Seq(Alphabet)
      BY <2>1 DEF EntriesOfFiles
    <2>4. e.path \in Seq(Bare)
      BY <2>2, <2>3, ValidPathIs
    <2>5. EntryLine(e) \in T /\ Neat(EntryLine(e)) /\ GoodEntryLine(EntryLine(e))
          /\ EntryOf(EntryLine(e)) = e
      BY <2>1, <2>4, EntryLineIs
    <2>6. QED
      BY <2>5 DEF e
  <1>3. ls = [k \in 1 .. n |-> G(k)]
    BY <1>1 DEF ManifestLines
  <1> HIDE DEF G, T, n, s, ls
  <1>4. ls \in Seq(T) /\ Len(ls) = n /\ DOMAIN ls = 1 .. n /\ \A k \in 1 .. n : ls[k] = G(k)
    BY <1>1, <1>2, <1>3
  <1>5. NeatLines(ls)
    BY <1>2, <1>4 DEF NeatLines, T
  <1>6. GoodManifestLines(ls)
    BY <1>2, <1>4, <1>5, NeatIsNotRefused DEF GoodManifestLines
  <1>7. ManifestOf(ls) = m
    <2> DEFINE F(k) == EntryOf(ls[k])
    <2>1. \A k \in 1 .. n : F(k) = s[k]
      BY <1>2, <1>4
    <2>2. ManifestOf(ls) = [type |-> "manifest", entries |-> [k \in 1 .. n |-> F(k)]]
      BY <1>4 DEF ManifestOf
    <2> HIDE DEF F
    <2>3. [k \in 1 .. n |-> F(k)] = s
      BY <1>1, <2>1
    <2>4. QED
      BY <1>1, <2>2, <2>3
  <1>8. QED
    BY <1>5, <1>6, <1>7 DEF ls

LEMMA ManifestRoundTrip ==
    ASSUME TextConstants, NEW m \in Manifests, Texts!ValidManifest(m)
    PROVE  Texts!ReadManifest(Texts!WriteManifest(m)) = m
  <1> DEFINE ls == ManifestLines(m)
  <1>1. NeatLines(ls) /\ IsHeader("manifest v1") /\ GoodManifestLines(ls) /\ ManifestOf(ls) = m
    BY ManifestLinesAre, SignsAreBare
  <1>2. Texts!WriteManifest(m) = Texts!Encoded("manifest v1", ls)
    BY WriteManifestIs
  <1> HIDE DEF ls
  <1>3. Texts!LinesOf(Texts!WriteManifest(m), "manifest v1") = ls
    BY <1>1, <1>2, LinesOfEncoded
  <1>4. QED
    BY <1>1, <1>3, ReadManifestIs

LEMMA LinesOfManifest ==
    ASSUME TextConstants, NEW ls \in Seq(Seq(Seq(Alphabet))), GoodManifestLines(ls)
    PROVE  ManifestOf(ls) \in Manifests /\ ManifestLines(ManifestOf(ls)) = ls
  <1> DEFINE n == Len(ls)
             m == ManifestOf(ls)
             F(k) == EntryOf(ls[k])
             s == [k \in 1 .. n |-> F(k)]
  <1>1. n \in Nat /\ DOMAIN ls = 1 .. n /\ ls = [k \in 1 .. n |-> ls[k]]
    BY LenProperties
  <1>2. ASSUME NEW k \in 1 .. n PROVE F(k) \in EntriesOfFiles /\ EntryLine(F(k)) = ls[k]
    <2>1. ls[k] \in Seq(Seq(Alphabet)) /\ GoodEntryLine(ls[k])
      BY <1>1, ElementOfSeq DEF GoodManifestLines
    <2>2. QED
      BY <2>1, GoodEntryLineIs
  <1>3. m = [type |-> "manifest", entries |-> s]
    BY <1>1 DEF ManifestOf
  <1> HIDE DEF F, n
  <1>4. s \in Seq(EntriesOfFiles) /\ DOMAIN s = 1 .. n /\ \A k \in 1 .. n : s[k] = F(k)
    <2>1. n \in Nat /\ \A k \in 1 .. n : F(k) \in EntriesOfFiles
      BY <1>1, <1>2
    <2>2. s \in Seq(EntriesOfFiles)
      BY <2>1
    <2>3. QED
      BY <2>2
  <1> HIDE DEF s, m
  <1>5. m \in Manifests
    BY <1>3, <1>4 DEF Manifests, EntriesOfFiles
  <1>6. ManifestLines(m) = ls
    <2> DEFINE G(k) == EntryLine(s[k])
    <2>1. \A k \in 1 .. n : G(k) = ls[k]
      BY <1>2, <1>4
    <2>2. ManifestLines(m) = [k \in 1 .. n |-> G(k)]
      BY <1>3, <1>4 DEF ManifestLines
    <2> HIDE DEF G
    <2>3. [k \in 1 .. n |-> G(k)] = [k \in 1 .. n |-> ls[k]]
      BY <2>1
    <2>4. QED
      BY <1>1, <2>2, <2>3
  <1>7. QED
    BY <1>5, <1>6 DEF m

(* A text that is accepted as a manifest is what WriteManifest makes of it. *)
LEMMA ManifestOneSpelling ==
    ASSUME TextConstants, NEW data \in Seq(Alphabet), Texts!ReadManifest(data) # Refused
    PROVE  /\ Texts!ReadManifest(data) \in Manifests
           /\ Texts!ValidManifest(Texts!ReadManifest(data))
           /\ Texts!WriteManifest(Texts!ReadManifest(data)) = data
  <1> DEFINE ls == Texts!LinesOf(data, "manifest v1")
             m == ManifestOf(ls)
  <1>1. GoodManifestLines(ls) /\ Texts!ValidManifest(m) /\ Texts!ReadManifest(data) = m
    BY ReadManifestIs
  <1>2. ls # Refused
    BY <1>1 DEF GoodManifestLines
  <1>3. "manifest v1" \in Alphabet
    BY SignsAreTokens DEF Signs
  <1>4. Texts!Encoded("manifest v1", ls) = data /\ ls \in Seq(Seq(Seq(Alphabet)))
    <2>1. ls = Texts!LinesOf(data, "manifest v1")
      OBVIOUS
    <2> HIDE DEF ls
    <2>2. QED
      BY <1>2, <1>3, <2>1, EncodedLines
  <1> HIDE DEF ls
  <1>5. m \in Manifests /\ ManifestLines(m) = ls
    BY <1>1, <1>4, LinesOfManifest
  <1>6. Texts!WriteManifest(m) = data
    BY <1>4, <1>5, WriteManifestIs
  <1>7. QED
    BY <1>1, <1>5, <1>6

LEMMA RankIs == \A x : Texts!Rank(x) \in Nat
  <1> DEFINE I(x) == {i \in 1 .. Len(Texts!Order) : Texts!Order[i] = x}
  <1>1. Len(Texts!Order) \in Nat
    BY DEF Texts!Order
  <1>2. ASSUME NEW x PROVE Texts!Rank(x) \in Nat
    <2>1. Texts!SelectInSeq(Texts!Order, LAMBDA y : y = x) \in Nat
      <3>1. Texts!SelectInSeq(Texts!Order, LAMBDA y : y = x)
               = IF I(x) # {} THEN Texts!Min(I(x)) ELSE 0
        BY DEF Texts!SelectInSeq
      <3>2. ASSUME I(x) # {} PROVE Texts!Min(I(x)) \in I(x)
        <4>1. I(x) \in SUBSET Nat
          BY <1>1
        <4>2. PICK m \in I(x) : \A k \in I(x) : m <= k
          BY <3>2, <4>1, LeastNumber
        <4>3. QED
          BY <4>2 DEF Texts!Min
      <3>3. QED
        BY <1>1, <3>1, <3>2
    <2>2. QED
      BY <1>1, <2>1 DEF Texts!Rank
  <1>3. QED
    BY <1>2

(* Where two paths part, the first of them being the lesser. *)
PartAt(p, q, i) ==
    /\ i \in 1 .. Len(q) /\ i <= Len(p) + 1 /\ AgreeUpTo(p, q, i - 1)
    /\ i <= Len(p) => Texts!Rank(p[i]) < Texts!Rank(q[i])

LEMMA Beginnings ==
    ASSUME NEW T, NEW p \in Seq(T), NEW q \in Seq(T), NEW n \in Nat, n <= Len(p), n <= Len(q)
    PROVE  SubSeq(p, 1, n) = SubSeq(q, 1, n) <=> AgreeUpTo(p, q, n)
  <1> DEFINE a == SubSeq(p, 1, n)
             b == SubSeq(q, 1, n)
  <1>1. /\ a \in Seq(T) /\ Len(a) = n /\ \A i \in 1 .. n : a[i] = p[i]
        /\ b \in Seq(T) /\ Len(b) = n /\ \A i \in 1 .. n : b[i] = q[i]
    <2>1. Len(p) \in Nat /\ Len(q) \in Nat
      BY LenProperties
    <2>2. /\ \A i \in 1 .. n : p[i] \in T
          /\ \A i \in 1 .. n : q[i] \in T
      <3>1. \A i \in 1 .. n : i \in 1 .. Len(p) /\ i \in 1 .. Len(q)
        BY <2>1
      <3>2. QED
        BY <3>1, ElementOfSeq
    <2>3. a \in Seq(T) /\ Len(a) = n /\ \A i \in 1 .. n : a[i] = p[i]
      BY <2>1, <2>2
    <2>4. b \in Seq(T) /\ Len(b) = n /\ \A i \in 1 .. n : b[i] = q[i]
      BY <2>1, <2>2
    <2>5. QED
      BY <2>3, <2>4
  <1> HIDE DEF a, b
  <1>2. ASSUME a = b PROVE AgreeUpTo(p, q, n)
    BY <1>1, <1>2 DEF AgreeUpTo
  <1>3. ASSUME AgreeUpTo(p, q, n) PROVE a = b
    <2>1. \A i \in 1 .. Len(a) : a[i] = b[i]
      BY <1>1, <1>3 DEF AgreeUpTo
    <2>2. QED
      BY <1>1, <2>1, SeqEqual
  <1>4. QED
    BY <1>2, <1>3 DEF a, b

LEMMA LessIs ==
    ASSUME NEW T, NEW p \in Seq(T), NEW q \in Seq(T)
    PROVE  Texts!Less(p, q) <=> \E i : PartAt(p, q, i)
  <1>1. /\ Len(p) \in Nat /\ DOMAIN p = 1 .. Len(p)
        /\ Len(q) \in Nat /\ DOMAIN q = 1 .. Len(q)
    BY LenProperties
  <1>2. ASSUME Len(p) < Len(q), Texts!IsPrefix(p, q) PROVE PartAt(p, q, Len(p) + 1)
    <2>1. SubSeq(p, 1, Len(p)) = SubSeq(q, 1, Len(p))
      BY <1>2 DEF Texts!IsPrefix
    <2>2. AgreeUpTo(p, q, Len(p))
      BY <1>1, <1>2, <2>1, Beginnings
    <2>3. (Len(p) + 1) - 1 = Len(p) /\ Len(p) + 1 \in 1 .. Len(q) /\ ~(Len(p) + 1 <= Len(p))
      BY <1>1, <1>2
    <2>4. QED
      BY <2>2, <2>3, <1>1 DEF PartAt
  <1>3. ASSUME NEW i \in DOMAIN p \cap DOMAIN q
        PROVE  /\ i \in 1 .. Len(q) /\ i \in Nat /\ i <= Len(p)
               /\ SubSeq(p, 1, i - 1) = SubSeq(q, 1, i - 1) <=> AgreeUpTo(p, q, i - 1)
    <2>1. i \in 1 .. Len(q) /\ i \in Nat /\ i <= Len(p)
      BY <1>1
    <2>2. i - 1 \in Nat /\ i - 1 <= Len(p) /\ i - 1 <= Len(q)
      BY <1>1
    <2> DEFINE n == i - 1
    <2> HIDE DEF n
    <2>3. n \in Nat /\ n <= Len(p) /\ n <= Len(q)
      BY <2>2 DEF n
    <2>4. SubSeq(p, 1, n) = SubSeq(q, 1, n) <=> AgreeUpTo(p, q, n)
      BY <2>3, Beginnings
    <2>5. QED
      BY <2>1, <2>4 DEF n
  <1>4. ASSUME NEW i, PartAt(p, q, i), i <= Len(p)
        PROVE  i \in DOMAIN p \cap DOMAIN q
    BY <1>1, <1>4 DEF PartAt
  <1>5. ASSUME NEW i, PartAt(p, q, i), ~(i <= Len(p))
        PROVE  Len(p) < Len(q) /\ Texts!IsPrefix(p, q)
    <2>1. i \in 1 .. Len(q) /\ i = Len(p) + 1 /\ AgreeUpTo(p, q, i - 1)
      BY <1>1, <1>5 DEF PartAt
    <2>2. Len(p) < Len(q) /\ i - 1 = Len(p)
      BY <1>1, <2>1
    <2>3. SubSeq(p, 1, Len(p)) = SubSeq(q, 1, Len(p))
      BY <1>1, <2>1, <2>2, Beginnings
    <2>4. QED
      BY <1>1, <2>2, <2>3 DEF Texts!IsPrefix
  <1>6. ASSUME Texts!Less(p, q) PROVE \E i : PartAt(p, q, i)
    <2>1. CASE Len(p) < Len(q) /\ Texts!IsPrefix(p, q)
      BY <1>2, <2>1
    <2>2. CASE ~(Len(p) < Len(q) /\ Texts!IsPrefix(p, q))
      <3>1. PICK i \in DOMAIN p \cap DOMAIN q :
               SubSeq(p, 1, i - 1) = SubSeq(q, 1, i - 1) /\ Texts!Rank(p[i]) < Texts!Rank(q[i])
        BY <1>6, <2>2 DEF Texts!Less
      <3>2. i \in 1 .. Len(q) /\ i \in Nat /\ i <= Len(p) /\ AgreeUpTo(p, q, i - 1)
        BY <1>3, <3>1
      <3>3. PartAt(p, q, i)
        BY <1>1, <3>1, <3>2 DEF PartAt
      <3>4. QED
        BY <3>3
    <2>3. QED
      BY <2>1, <2>2
  <1>7. ASSUME NEW i, PartAt(p, q, i) PROVE Texts!Less(p, q)
    <2>1. CASE i <= Len(p)
      <3>1. i \in DOMAIN p \cap DOMAIN q
        BY <1>4, <1>7, <2>1
      <3>2. AgreeUpTo(p, q, i - 1) /\ Texts!Rank(p[i]) < Texts!Rank(q[i])
        BY <1>7, <2>1 DEF PartAt
      <3>3. SubSeq(p, 1, i - 1) = SubSeq(q, 1, i - 1)
        BY <1>3, <3>1, <3>2
      <3>4. QED
        BY <3>1, <3>2, <3>3 DEF Texts!Less
    <2>2. CASE ~(i <= Len(p))
      BY <1>5, <1>7, <2>2 DEF Texts!Less
    <2>3. QED
      BY <2>1, <2>2
  <1>8. QED
    BY <1>6, <1>7

LEMMA NotLess ==
    ASSUME NEW T, NEW p \in Seq(T)
    PROVE  ~Texts!Less(p, p)
  <1>1. SUFFICES ASSUME NEW i, PartAt(p, p, i) PROVE FALSE
    BY LessIs
  <1>2. i <= Len(p) /\ Texts!Rank(p[i]) < Texts!Rank(p[i])
    BY <1>1, LenProperties DEF PartAt
  <1>3. QED
    BY <1>2, RankIs

LEMMA LessChains ==
    ASSUME NEW T, NEW p \in Seq(T), NEW q \in Seq(T), NEW r \in Seq(T),
           Texts!Less(p, q), Texts!Less(q, r)
    PROVE  Texts!Less(p, r)
  <1>1. PICK i : PartAt(p, q, i)
    BY LessIs
  <1>2. PICK j : PartAt(q, r, j)
    BY LessIs
  <1>3. Len(p) \in Nat /\ Len(q) \in Nat /\ Len(r) \in Nat
    BY LenProperties
  <1>4. /\ i \in Nat /\ i >= 1 /\ i <= Len(q) /\ i <= Len(p) + 1
        /\ \A k \in 1 .. i - 1 : p[k] = q[k]
        /\ i <= Len(p) => Texts!Rank(p[i]) < Texts!Rank(q[i])
    BY <1>1, <1>3 DEF PartAt, AgreeUpTo
  <1>5. /\ j \in Nat /\ j >= 1 /\ j <= Len(r) /\ j <= Len(q) + 1
        /\ \A k \in 1 .. j - 1 : q[k] = r[k]
        /\ j <= Len(q) => Texts!Rank(q[j]) < Texts!Rank(r[j])
    BY <1>2, <1>3 DEF PartAt, AgreeUpTo
  <1>6. CASE i < j
    <2>1. i \in 1 .. Len(r) /\ i \in 1 .. j - 1 /\ \A k \in 1 .. i - 1 : k \in 1 .. j - 1
      BY <1>3, <1>4, <1>5, <1>6
    <2>2. q[i] = r[i] /\ \A k \in 1 .. i - 1 : p[k] = r[k]
      BY <1>4, <1>5, <2>1
    <2>3. PartAt(p, r, i)
      BY <1>4, <2>1, <2>2 DEF PartAt, AgreeUpTo
    <2>4. QED
      BY <2>3, LessIs
  <1>7. CASE i = j
    <2>1. i \in 1 .. Len(r) /\ \A k \in 1 .. i - 1 : p[k] = r[k]
      BY <1>3, <1>4, <1>5, <1>7
    <2>2. i <= Len(p) => Texts!Rank(p[i]) < Texts!Rank(r[i])
      <3>1. Texts!Rank(p[i]) \in Nat /\ Texts!Rank(q[i]) \in Nat /\ Texts!Rank(r[i]) \in Nat
        BY RankIs
      <3>2. Texts!Rank(q[i]) < Texts!Rank(r[i])
        BY <1>4, <1>5, <1>7
      <3>3. QED
        BY <1>4, <3>1, <3>2
    <2>3. PartAt(p, r, i)
      BY <1>4, <2>1, <2>2 DEF PartAt, AgreeUpTo
    <2>4. QED
      BY <2>3, LessIs
  <1>8. CASE j < i
    <2>1. /\ j \in 1 .. Len(r) /\ j <= Len(p) /\ j <= Len(q) /\ j \in 1 .. i - 1
          /\ \A k \in 1 .. j - 1 : k \in 1 .. i - 1
      BY <1>3, <1>4, <1>5, <1>8
    <2>2. p[j] = q[j] /\ \A k \in 1 .. j - 1 : p[k] = r[k]
      BY <1>4, <1>5, <2>1
    <2>3. PartAt(p, r, j)
      BY <1>3, <1>5, <2>1, <2>2 DEF PartAt, AgreeUpTo
    <2>4. QED
      BY <2>3, LessIs
  <1>9. QED
    BY <1>4, <1>5, <1>6, <1>7, <1>8

LEMMA TextsCardinality == \A S : Texts!Cardinality(S) = Cardinality(S)
    BY DEF Texts!Cardinality, Cardinality

(* The entries whose paths are less than that of one of them. *)
Lesser(s, e) == {d \in Texts!ToSet(s) : Texts!Less(d.path, e.path)}

Ascending(s) == \A j, k \in 1 .. Len(s) : j < k => Texts!Less(s[j].path, s[k].path)

LEMMA ValidAscends ==
    ASSUME NEW m \in Manifests, Texts!ValidManifest(m)
    PROVE  Ascending(m.entries)
  <1> DEFINE s == m.entries
             n == Len(s)
             P(k) == s[k].path
  <1>1. /\ s \in Seq(EntriesOfFiles) /\ n \in Nat /\ DOMAIN s = 1 .. n
    BY ManifestIs
  <1>2. \A k \in 1 .. n : P(k) \in Seq(Alphabet)
    <2>1. \A k \in 1 .. n : s[k] \in EntriesOfFiles
      BY <1>1, ElementOfSeq
    <2>2. QED
      BY <2>1 DEF EntriesOfFiles
  <1>3. \A k \in (1 .. n) \ {1} : Texts!Less(P(k - 1), P(k))
    BY <1>1 DEF Texts!ValidManifest
  <1> HIDE DEF s, n, P
  <1> DEFINE S == {k \in Nat : k \in 1 .. n => \A j \in 1 .. k - 1 : Texts!Less(P(j), P(k))}
  <1>4. 0 \in S
    OBVIOUS
  <1>5. ASSUME NEW k \in S PROVE k + 1 \in S
    <2>1. SUFFICES ASSUME k + 1 \in 1 .. n, NEW j \in 1 .. (k + 1) - 1
                   PROVE  Texts!Less(P(j), P(k + 1))
      OBVIOUS
    <2>2. k \in Nat /\ (k + 1) - 1 = k /\ k \in 1 .. n /\ j \in 1 .. n /\ k + 1 # 1
      BY <1>1, <2>1
    <2>3. \A i \in 1 .. k - 1 : Texts!Less(P(i), P(k))
      BY <2>2
    <2> HIDE DEF S
    <2>4. Texts!Less(P(k), P(k + 1))
      <3> DEFINE l == k + 1
      <3>1. l \in (1 .. n) \ {1} /\ l - 1 = k
        BY <2>1, <2>2
      <3> HIDE DEF l
      <3>2. Texts!Less(P(l - 1), P(l))
        BY <1>3, <3>1
      <3>3. QED
        BY <3>1, <3>2 DEF l
    <2>5. CASE j = k
      BY <2>4, <2>5
    <2>6. CASE j # k
      <3>1. j \in 1 .. k - 1
        BY <2>1, <2>2, <2>6
      <3>2. Texts!Less(P(j), P(k))
        BY <2>3, <3>1
      <3>3. P(j) \in Seq(Alphabet) /\ P(k) \in Seq(Alphabet) /\ P(k + 1) \in Seq(Alphabet)
        BY <1>2, <2>1, <2>2
      <3>4. QED
        BY <2>4, <3>2, <3>3, LessChains
    <2>7. QED
      BY <2>5, <2>6
  <1>6. S \in SUBSET Nat
    OBVIOUS
  <1> HIDE DEF S
  <1>7. S = Nat
    BY <1>4, <1>5, <1>6, EveryNumber
  <1>8. ASSUME NEW j \in 1 .. n, NEW k \in 1 .. n, j < k PROVE Texts!Less(P(j), P(k))
    <2>1. k \in S
      BY <1>7
    <2>2. j \in 1 .. k - 1
      BY <1>1, <1>8
    <2>3. QED
      BY <2>1, <2>2 DEF S
  <1>9. QED
    BY <1>8 DEF Ascending, s, n, P

LEMMA CountLesser ==
    ASSUME NEW s \in Seq(EntriesOfFiles), Ascending(s), NEW k \in 1 .. Len(s)
    PROVE  Cardinality(Lesser(s, s[k])) = k - 1
  <1> DEFINE n == Len(s)
             L == Lesser(s, s[k])
             I == 1 .. k - 1
  <1>1. n \in Nat /\ DOMAIN s = 1 .. n /\ k \in 1 .. n
    BY LenProperties
  <1>2. \A i \in 1 .. n : s[i] \in EntriesOfFiles /\ s[i].path \in Seq(Alphabet)
    <2>1. \A i \in 1 .. n : s[i] \in EntriesOfFiles
      BY ElementOfSeq
    <2>2. QED
      BY <2>1 DEF EntriesOfFiles
  <1>3. \A i, j \in 1 .. n : i < j => Texts!Less(s[i].path, s[j].path)
    BY DEF Ascending
  <1>4. \A i, j \in 1 .. n : Texts!Less(s[i].path, s[j].path) => i < j
    <2>1. SUFFICES ASSUME NEW i \in 1 .. n, NEW j \in 1 .. n,
                          Texts!Less(s[i].path, s[j].path), ~(i < j)
                   PROVE  FALSE
      OBVIOUS
    <2> DEFINE p == s[i].path
               q == s[j].path
    <2>2. p \in Seq(Alphabet) /\ q \in Seq(Alphabet) /\ Texts!Less(p, q)
      BY <1>2, <2>1
    <2>3. i = j \/ j < i
      BY <1>1, <2>1
    <2>4. CASE i = j
      <3>1. p = q
        BY <2>4
      <3> HIDE DEF p, q
      <3>2. QED
        BY <2>2, <3>1, NotLess
    <2>5. CASE j < i
      <3>1. Texts!Less(q, p)
        BY <1>3, <2>5
      <3> HIDE DEF p, q
      <3>2. Texts!Less(p, p)
        BY <2>2, <3>1, LessChains
      <3>3. QED
        BY <2>2, <3>2, NotLess
    <2>6. QED
      BY <2>3, <2>4, <2>5
  <1> HIDE DEF n
  <1>5. Texts!ToSet(s) = {s[i] : i \in 1 .. n}
    BY <1>1 DEF Texts!ToSet
  <1>6. I \subseteq 1 .. n /\ I \in SUBSET Nat /\ \A i \in 1 .. n : i \in I <=> i < k
    BY <1>1
  <1> DEFINE f == [i \in I |-> s[i]]
  <1>7. f \in Bijection(I, L)
    <2>1. \A i \in I : f[i] = s[i] /\ i \in 1 .. n /\ i < k
      BY <1>6
    <2>2. \A i \in I : f[i] \in L
      BY <1>1, <1>3, <1>5, <2>1 DEF Lesser
    <2>3. \A i, j \in I : f[i] = f[j] => i = j
      <3>1. SUFFICES ASSUME NEW i \in I, NEW j \in I, s[i] = s[j], i # j PROVE FALSE
        BY <2>1
      <3>2. i \in 1 .. n /\ j \in 1 .. n /\ (i < j \/ j < i)
        BY <1>1, <1>6, <3>1
      <3>3. Texts!Less(s[i].path, s[j].path) \/ Texts!Less(s[j].path, s[i].path)
        BY <1>3, <3>2
      <3>4. Texts!Less(s[i].path, s[i].path)
        BY <3>1, <3>3
      <3>5. i < i
        BY <1>4, <3>2, <3>4
      <3>6. QED
        BY <1>1, <3>2, <3>5
    <2>4. \A d \in L : \E i \in I : f[i] = d
      <3>1. SUFFICES ASSUME NEW d \in L PROVE \E i \in I : f[i] = d
        OBVIOUS
      <3>2. PICK i \in 1 .. n : d = s[i]
        BY <1>5, <3>1 DEF Lesser
      <3>3. Texts!Less(s[i].path, s[k].path)
        BY <3>1, <3>2 DEF Lesser
      <3>4. i \in I
        BY <1>1, <1>4, <1>6, <3>3
      <3>5. QED
        BY <2>1, <3>2, <3>4
    <2> HIDE DEF f, I, L
    <2>5. f \in [I -> L]
      BY <2>2 DEF f
    <2>6. QED
      BY <2>3, <2>4, <2>5 DEF Bijection, Injection, Surjection, IsInjective
  <1>8. IsFiniteSet(I) /\ Cardinality(I) = k - 1
    <2>1. k - 1 \in Nat /\ 1 \in Int
      BY <1>1
    <2>2. IsFiniteSet(1 .. k - 1) /\ Cardinality(1 .. k - 1) = IF 1 > k - 1 THEN 0 ELSE (k - 1) - 1 + 1
      BY <2>1, FS_Interval
    <2>3. QED
      BY <2>1, <2>2
  <1>9. ExistsBijection(I, L)
    BY <1>7 DEF ExistsBijection
  <1> HIDE DEF I, L, f
  <1>10. Cardinality(L) = Cardinality(I)
    BY <1>8, <1>9, FS_Bijection
  <1>11. QED
    BY <1>8, <1>10 DEF L

(* What a valid manifest means is the manifest itself. *)
LEMMA MeantIsIt ==
    ASSUME NEW m \in Manifests, Texts!ValidManifest(m)
    PROVE  Texts!Meant(m) = m
  <1> DEFINE s == m.entries
             n == Len(s)
             F(k) == CHOOSE e \in Texts!ToSet(s) : Texts!Cardinality(Lesser(s, e)) = k - 1
  <1>1. /\ s \in Seq(EntriesOfFiles) /\ n \in Nat /\ DOMAIN s = 1 .. n
        /\ m = [type |-> "manifest", entries |-> s] /\ s = [k \in 1 .. n |-> s[k]]
    BY ManifestIs
  <1>2. Ascending(s)
    BY ValidAscends
  <1>3. Texts!Meant(m) = [m EXCEPT !.entries = [k \in DOMAIN s |-> F(k)]]
    <2>1. m.type = "manifest"
      BY <1>1
    <2>2. QED
      BY <2>1 DEF Texts!Meant, Lesser
  <1> HIDE DEF s, n
  <1>4. \A k \in 1 .. n : Cardinality(Lesser(s, s[k])) = k - 1
    BY <1>1, <1>2, CountLesser DEF n
  <1>5. Texts!ToSet(s) = {s[k] : k \in 1 .. n}
    BY <1>1 DEF Texts!ToSet
  <1>6. ASSUME NEW k \in 1 .. n PROVE F(k) = s[k]
    <2>1. s[k] \in Texts!ToSet(s) /\ Cardinality(Lesser(s, s[k])) = k - 1
      BY <1>4, <1>5
    <2>7. Texts!Cardinality(Lesser(s, s[k])) = k - 1
      BY <2>1, TextsCardinality
    <2>8. F(k) \in Texts!ToSet(s) /\ Texts!Cardinality(Lesser(s, F(k))) = k - 1
      BY <2>1, <2>7
    <2>2. F(k) \in Texts!ToSet(s) /\ Cardinality(Lesser(s, F(k))) = k - 1
      BY <2>8, TextsCardinality
    <2> HIDE DEF F
    <2>3. PICK i \in 1 .. n : F(k) = s[i]
      BY <1>5, <2>2
    <2>4. i - 1 = k - 1
      BY <1>4, <2>2, <2>3
    <2>5. i = k
      BY <1>1, <2>3, <2>4
    <2>6. QED
      BY <2>3, <2>5
  <1> HIDE DEF F
  <1>7. [k \in DOMAIN s |-> F(k)] = s
    BY <1>1, <1>6
  <1>8. [m EXCEPT !.entries = s] = m
    <2>1. \A x : [[type |-> "manifest", entries |-> x] EXCEPT !.entries = x]
                    = [type |-> "manifest", entries |-> x]
      OBVIOUS
    <2>2. m = [type |-> "manifest", entries |-> s]
      BY <1>1
    <2>3. QED
      BY <2>1, <2>2, Zenon
  <1>9. QED
    BY <1>3, <1>7, <1>8

(* The marker of a message at one place of a text. *)
Marked(data, i) == data[i] = "LF" /\ data[i + 1] = "message" /\ data[i + 2] = "LF"

LEMMA MarkersAre ==
    ASSUME NEW data \in Seq(Alphabet)
    PROVE  Texts!Markers(data) = {i \in 1 .. Len(data) - 2 : Marked(data, i)}
  <1>1. Len(data) \in Nat
    BY LenProperties
  <1>2. ASSUME NEW i \in 1 .. Len(data) - 2
        PROVE  SubSeq(data, i, i + 2) = Texts!Marker <=> Marked(data, i)
    <2> DEFINE s == SubSeq(data, i, i + 2)
               m == Texts!Marker
    <2>1. \A k \in i .. i + 2 : data[k] \in Alphabet
      <3>1. \A k \in i .. i + 2 : k \in 1 .. Len(data)
        BY <1>1
      <3>2. QED
        BY <3>1, ElementOfSeq
    <2>2. /\ s \in Seq(Alphabet) /\ Len(s) = 3
          /\ s[1] = data[i] /\ s[2] = data[i + 1] /\ s[3] = data[i + 2]
      <3>1. i \in Int /\ i + 2 \in Int /\ i <= i + 2 /\ (i + 2) - i + 1 = 3
        BY <1>1
      <3>2. /\ s \in Seq(Alphabet) /\ Len(s) = (i + 2) - i + 1
            /\ \A k \in 1 .. (i + 2) - i + 1 : s[k] = data[i + k - 1]
        BY <2>1, <3>1, SubSeqProperties
      <3> HIDE DEF s
      <3>3. 1 \in 1 .. 3 /\ 2 \in 1 .. 3 /\ 3 \in 1 .. 3
            /\ i + 1 - 1 = i /\ i + 2 - 1 = i + 1 /\ i + 3 - 1 = i + 2
        BY <3>1
      <3>4. s[1] = data[i + 1 - 1] /\ s[2] = data[i + 2 - 1] /\ s[3] = data[i + 3 - 1]
        BY <3>1, <3>2, <3>3
      <3>5. QED
        BY <3>1, <3>2, <3>3, <3>4
    <2>3. m \in Seq(Alphabet) /\ Len(m) = 3 /\ m[1] = "LF" /\ m[2] = "message" /\ m[3] = "LF"
      <3>1. "LF" \in Alphabet /\ "message" \in Alphabet
        BY SignsAreTokens DEF Signs
      <3>2. QED
        BY <3>1, Triple DEF Texts!Marker
    <2> HIDE DEF s, m
    <2>4. ASSUME Marked(data, i) PROVE s = m
      <3>1. \A k \in 1 .. Len(s) : s[k] = m[k]
        BY <2>2, <2>3, <2>4 DEF Marked
      <3>2. QED
        BY <2>2, <2>3, <3>1, SeqEqual
    <2>5. ASSUME s = m PROVE Marked(data, i)
      BY <2>2, <2>3, <2>5 DEF Marked
    <2>6. QED
      BY <2>4, <2>5 DEF s, m
  <1>3. QED
    BY <1>2 DEF Texts!Markers

LEMMA SeparatedBy ==
    ASSUME NEW T, NEW w \in Seq(T), NEW mark \in T, NEW r \in Seq(T), NEW d,
           d = w \o (<<mark>> \o r)
    PROVE  Separated(d, w, mark, r)
  <1> DEFINE m == <<mark>>
  <1>1. m \in Seq(T)
    BY Singleton
  <1>2. Append(w, mark) = w \o m
    BY AppendIsConcat
  <1> HIDE DEF m
  <1>3. (w \o m) \o r = w \o (m \o r)
    BY <1>1, ConcatAssociative
  <1>4. QED
    BY <1>2, <1>3 DEF Separated, m

(* A text in which a token stands between two marks. *)
LEMMA BetweenMarks ==
    ASSUME NEW T, NEW mark \in T, NEW e \in Seq(T), NEW i \in 1 .. Len(e) - 2,
           e[i] = mark, e[i + 2] = mark, e[i + 1] # mark
    PROVE  \E j \in 2 .. Len(Texts!Split(e, mark)) : Texts!Split(e, mark)[j] = <<e[i + 1]>>
  <1> DEFINE n == Len(e)
             x == e[i + 1]
             w == <<x>>
             a == SubSeq(e, 1, i - 1)
             r == SubSeq(e, i + 3, n)
             d == SubSeq(e, i + 1, n)
  <1>1. n \in Nat /\ i \in Nat /\ i >= 1 /\ i + 2 <= n
    BY LenProperties
  <1>2. \A k \in 1 .. n : e[k] \in T
    BY ElementOfSeq
  <1>3. x \in T /\ w \in Seq(T) /\ Len(w) = 1 /\ w[1] = x
    <2>1. x \in T
      BY <1>1, <1>2
    <2>2. QED
      BY <2>1, Singleton
  <1>4. a \in Seq(T) /\ d \in Seq(T) /\ r \in Seq(T)
    <2>1. a \in Seq(T)
      BY <1>1, <1>2
    <2>2. d \in Seq(T)
      BY <1>1, <1>2
    <2>3. r \in Seq(T)
      BY <1>1, <1>2
    <2>4. QED
      BY <2>1, <2>2, <2>3
  <1>5. Separated(e, a, mark, d)
    <2>1. SubSeq(e, 1, i) = Append(a, mark)
      <3>1. SubSeq(e, 1, i) = SubSeq(e, 1, i - 1) \o <<e[i]>>
        <4>1. 1 \in 1 .. Len(e) /\ i \in 1 .. Len(e)
          BY <1>1
        <4> HIDE DEF n, x, w, a, d, r
        <4>2. QED
          BY <4>1, SubSeqRecursiveSecond
      <3> HIDE DEF a
      <3>2. Append(a, mark) = a \o <<mark>>
        BY <1>4, AppendIsConcat
      <3>3. QED
        BY <3>1, <3>2 DEF a
    <2>2. SubSeq(e, 1, i) \o SubSeq(e, i + 1, n) = SubSeq(e, 1, n)
      <3>1. 1 \in 1 .. Len(e) + 1 /\ i \in 1 - 1 .. Len(e) /\ n \in i .. Len(e)
        BY <1>1
      <3> HIDE DEF n
      <3>2. QED
        BY <3>1, ConcatAdjacentSubSeq
    <2>3. SubSeq(e, 1, n) = e
      BY SubSeqFull
    <2> HIDE DEF a, d, n
    <2>4. QED
      BY <2>1, <2>2, <2>3 DEF Separated, d
  <1>6. Separated(d, w, mark, r)
    <2>1. d = <<e[i + 1]>> \o SubSeq(e, i + 2, n)
      <3>1. i + 1 \in 1 .. Len(e) /\ n \in i + 1 .. Len(e) /\ (i + 1) + 1 = i + 2
        BY <1>1
      <3> HIDE DEF n
      <3>2. SubSeq(e, i + 1, n) = <<e[i + 1]>> \o SubSeq(e, (i + 1) + 1, n)
        BY <3>1, SubSeqRecursiveFirst
      <3>3. QED
        BY <3>1, <3>2
    <2>2. SubSeq(e, i + 2, n) = <<mark>> \o r
      <3>1. i + 2 \in 1 .. Len(e) /\ n \in i + 2 .. Len(e) /\ (i + 2) + 1 = i + 3
        BY <1>1
      <3> HIDE DEF n
      <3>2. SubSeq(e, i + 2, n) = <<e[i + 2]>> \o SubSeq(e, (i + 2) + 1, n)
        BY <3>1, SubSeqRecursiveFirst
      <3>3. QED
        BY <3>1, <3>2
    <2> HIDE DEF r, d, n, w
    <2>3. d = w \o (<<mark>> \o r)
      BY <2>1, <2>2 DEF d, w
    <2>4. QED
      BY <1>3, <1>4, <2>3, SeparatedBy
  <1> HIDE DEF a, d, r, n
  <1>7. Without(w, mark)
    BY <1>3 DEF Without
  <1> HIDE DEF w
  <1> DEFINE pa == Texts!Split(a, mark)
             pd == Texts!Split(d, mark)
             pr == Texts!Split(r, mark)
             pe == Texts!Split(e, mark)
  <1>8. pe = pa \o pd
    BY <1>4, <1>5, SplitSeparated
  <1>9. pd = Texts!Split(w, mark) \o pr
    BY <1>3, <1>4, <1>6, SplitSeparated
  <1>10. Texts!Split(w, mark) = <<w>>
    BY <1>3, <1>7, SplitWithout
  <1>11. pa \in Parts(T) /\ pr \in Parts(T)
    BY <1>4, SplitIsParts
  <1> HIDE DEF pa, pd, pr, pe
  <1>12. pa \in Seq(Seq(T)) /\ Len(pa) \in Nat /\ Len(pa) >= 1 /\ pr \in Seq(Seq(T))
    BY <1>11, LenProperties DEF Parts
  <1>13. /\ pd \in Seq(Seq(T)) /\ Len(pd) = Len(pr) + 1 /\ Len(pr) \in Nat /\ pd[1] = w
    <2> DEFINE U == Seq(T)
    <2>1. pd = <<w>> \o pr /\ w \in U /\ pr \in Seq(U)
      BY <1>3, <1>9, <1>10, <1>12
    <2> HIDE DEF U
    <2>2. pd \in Seq(U) /\ Len(pd) = Len(pr) + 1 /\ Len(pr) \in Nat /\ pd[1] = w
      BY <2>1, Prepended
    <2>3. QED
      BY <2>2 DEF U
  <1>14. /\ Len(pa \o pd) = Len(pa) + Len(pd)
         /\ \A k \in 1 .. Len(pa) + Len(pd) :
               (pa \o pd)[k] = IF k <= Len(pa) THEN pa[k] ELSE pd[k - Len(pa)]
    BY <1>12, <1>13, ConcatProperties
  <1> DEFINE j == Len(pa) + 1
  <1>15. j \in 1 .. Len(pa) + Len(pd) /\ ~(j <= Len(pa)) /\ j - Len(pa) = 1 /\ j \in 2 .. Len(pa) + Len(pd)
    BY <1>12, <1>13
  <1> HIDE DEF j
  <1>16. (pa \o pd)[j] = pd[j - Len(pa)]
    BY <1>14, <1>15
  <1>17. pe[j] = w /\ j \in 2 .. Len(pe)
    BY <1>8, <1>13, <1>14, <1>15, <1>16
  <1>18. QED
    BY <1>17 DEF pe, w

LEMMA Joint ==
    ASSUME NEW T, NEW p \in Seq(T), NEW q \in Seq(T)
    PROVE  /\ p \o q \in Seq(T) /\ Len(p \o q) = Len(p) + Len(q)
           /\ Len(p) \in Nat /\ Len(q) \in Nat
           /\ \A i \in 1 .. Len(p) : (p \o q)[i] = p[i]
           /\ \A k \in 1 .. Len(q) : (p \o q)[Len(p) + k] = q[k]
  <1> DEFINE r == p \o q
  <1>1. Len(p) \in Nat /\ Len(q) \in Nat
    BY LenProperties
  <1>2. /\ r \in Seq(T) /\ Len(r) = Len(p) + Len(q)
        /\ \A i \in 1 .. Len(p) + Len(q) : r[i] = IF i <= Len(p) THEN p[i] ELSE q[i - Len(p)]
    BY ConcatProperties
  <1> HIDE DEF r
  <1>3. ASSUME NEW i \in 1 .. Len(p) PROVE r[i] = p[i]
    <2>1. i \in 1 .. Len(p) + Len(q) /\ i <= Len(p)
      BY <1>1
    <2>2. QED
      BY <1>2, <2>1
  <1>4. ASSUME NEW k \in 1 .. Len(q) PROVE r[Len(p) + k] = q[k]
    <2> DEFINE i == Len(p) + k
    <2>1. i \in 1 .. Len(p) + Len(q) /\ ~(i <= Len(p)) /\ i - Len(p) = k
      BY <1>1
    <2> HIDE DEF i
    <2>2. r[i] = q[i - Len(p)]
      BY <1>2, <2>1
    <2>3. QED
      BY <2>1, <2>2 DEF i
  <1>5. QED
    BY <1>1, <1>2, <1>3, <1>4 DEF r

IsJoint(s, p, q) ==
    /\ Len(s) = Len(p) + Len(q)
    /\ \A i \in 1 .. Len(p) : s[i] = p[i]
    /\ \A k \in 1 .. Len(q) : s[Len(p) + k] = q[k]

LEMMA JointIs ==
    ASSUME NEW T, NEW p \in Seq(T), NEW q \in Seq(T)
    PROVE  p \o q \in Seq(T) /\ IsJoint(p \o q, p, q)
  <1> DEFINE r == p \o q
  <1>1. /\ r \in Seq(T) /\ Len(r) = Len(p) + Len(q)
        /\ \A i \in 1 .. Len(p) : r[i] = p[i]
        /\ \A k \in 1 .. Len(q) : r[Len(p) + k] = q[k]
    BY Joint
  <1> HIDE DEF r
  <1>2. r \in Seq(T) /\ IsJoint(r, p, q)
    BY <1>1 DEF IsJoint
  <1>3. QED
    BY <1>2 DEF r

(* How many lines an optional field has. *)
OfExpiry(v) == IF v.expiry = "t0" THEN 0 ELSE 1

OfGraph(v) == IF v.graph = "id0" THEN 0 ELSE 1

AuthorLine(v) == <<<<"author">>, v.author>>

(* Which lines a version has. *)
AreLinesOf(ls, v) ==
    LET n == Len(v.parents)
    IN  /\ Len(ls) = n + 3 + OfExpiry(v) + OfGraph(v)
        /\ ls[1] = Texts!Keyed("manifest", v.manifest)
        /\ \A k \in 1 .. n : ls[k + 1] = Texts!Keyed("parent", v.parents[k])
        /\ ls[n + 2] = AuthorLine(v)
        /\ ls[n + 3] = Texts!Keyed("time", v.time)
        /\ OfExpiry(v) = 1 => ls[n + 4] = Texts!Keyed("expiry", v.expiry)
        /\ OfGraph(v) = 1 => ls[n + 4 + OfExpiry(v)] = Texts!Keyed("graph", v.graph)

Optional(absent, line) == IF absent THEN <<>> ELSE <<line>>

LEMMA OptionalIs ==
    ASSUME NEW T, NEW line \in T, NEW absent \in BOOLEAN
    PROVE  /\ Optional(absent, line) \in Seq(T)
           /\ Len(Optional(absent, line)) = IF absent THEN 0 ELSE 1
           /\ ~absent => Optional(absent, line)[1] = line
  <1>1. CASE ~absent
    <2>1. Optional(absent, line) = <<line>>
      BY <1>1 DEF Optional
    <2>2. <<line>> \in Seq(T) /\ Len(<<line>>) = 1 /\ <<line>>[1] = line
      BY Singleton
    <2>3. QED
      BY <1>1, <2>1, <2>2
  <1>2. CASE absent
    <2>1. Optional(absent, line) = <<>>
      BY <1>2 DEF Optional
    <2> DEFINE e == Optional(absent, line)
    <2>2. e \in Seq(T) /\ Len(e) = 0
      BY <2>1
    <2> HIDE DEF e
    <2>3. QED
      BY <1>2, <2>2 DEF e
  <1>3. QED
    BY <1>1, <1>2

LEMMA KeyedIsLine ==
    ASSUME TextConstants, NEW key \in Bare, NEW word \in Words
    PROVE  Texts!Keyed(key, word) \in Seq(Seq(Alphabet))
  <1>1. Texts!Keyed(key, word) \in Seq(Seq(Bare))
    BY KeyedIsNeat
  <1>2. QED
    BY <1>1, BareIsClean, NestedMonotonic

LEMMA VersionIs ==
    ASSUME NEW v \in Versions
    PROVE  /\ v.manifest \in Words /\ v.time \in Words /\ v.expiry \in Words /\ v.graph \in Words
           /\ v.parents \in Seq(Ids) /\ Len(v.parents) \in Nat
           /\ DOMAIN v.parents = 1 .. Len(v.parents)
           /\ \A k \in 1 .. Len(v.parents) : v.parents[k] \in Words
           /\ v.author \in Seq(Alphabet) /\ v.message \in Seq(Alphabet) /\ v.type = "version"
  <1>1. /\ v.manifest \in Ids /\ v.time \in Times /\ v.expiry \in Times /\ v.graph \in Ids
        /\ v.parents \in Seq(Ids) /\ v.author \in Seq(Alphabet) /\ v.message \in Seq(Alphabet)
        /\ v.type = "version"
    BY DEF Versions
  <1>2. \A k \in 1 .. Len(v.parents) : v.parents[k] \in Ids
    BY <1>1, ElementOfSeq
  <1>3. QED
    BY <1>1, <1>2, LenProperties, WordKinds

(* A sequence of five parts: one, any number of them, two, and two that    *)
(* may be missing.                                                         *)
IsFive(s, a, p, b, x, g) ==
    /\ Len(s) = Len(p) + 3 + Len(x) + Len(g)
    /\ s[1] = a[1]
    /\ \A k \in 1 .. Len(p) : s[k + 1] = p[k]
    /\ s[Len(p) + 2] = b[1] /\ s[Len(p) + 3] = b[2]
    /\ Len(x) = 1 => s[Len(p) + 4] = x[1]
    /\ Len(g) = 1 => s[Len(p) + 4 + Len(x)] = g[1]

LEMMA FiveParts ==
    ASSUME NEW T, NEW a \in Seq(T), NEW p \in Seq(T), NEW b \in Seq(T), NEW x \in Seq(T),
           NEW g \in Seq(T), Len(a) = 1, Len(b) = 2, NEW s, s = (((a \o p) \o b) \o x) \o g
    PROVE  s \in Seq(T) /\ IsFive(s, a, p, b, x, g)
  <1> DEFINE n == Len(p)
             s1 == a \o p
             s2 == s1 \o b
             s3 == s2 \o x
             s4 == s3 \o g
  <1>a. s = s4
    OBVIOUS
  <1>11. s1 \in Seq(T) /\ IsJoint(s1, a, p) /\ n \in Nat
    BY JointIs, LenProperties
  <1> HIDE DEF s1, n
  <1>12. s2 \in Seq(T) /\ IsJoint(s2, s1, b)
    BY <1>11, JointIs
  <1> HIDE DEF s2
  <1>13. s3 \in Seq(T) /\ IsJoint(s3, s2, x) /\ Len(x) \in Nat
    BY <1>12, JointIs, LenProperties
  <1> HIDE DEF s3
  <1>14. s \in Seq(T) /\ IsJoint(s, s3, g) /\ Len(g) \in Nat
    BY <1>a, <1>13, JointIs, LenProperties
  <1> HIDE DEF s4
  <1>1. /\ s1 \in Seq(T) /\ Len(s1) = 1 + n /\ n \in Nat
        /\ \A i \in 1 .. 1 : s1[i] = a[i]
        /\ \A k \in 1 .. n : s1[1 + k] = p[k]
    BY <1>11 DEF IsJoint, n
  <1>2. /\ s2 \in Seq(T) /\ Len(s2) = Len(s1) + 2
        /\ \A i \in 1 .. Len(s1) : s2[i] = s1[i]
        /\ \A k \in 1 .. 2 : s2[Len(s1) + k] = b[k]
    BY <1>12 DEF IsJoint
  <1>3. /\ s3 \in Seq(T) /\ Len(s3) = Len(s2) + Len(x) /\ Len(x) \in Nat
        /\ \A i \in 1 .. Len(s2) : s3[i] = s2[i]
        /\ \A k \in 1 .. Len(x) : s3[Len(s2) + k] = x[k]
    BY <1>13 DEF IsJoint
  <1>4. /\ s \in Seq(T) /\ Len(s) = Len(s3) + Len(g) /\ Len(g) \in Nat
        /\ \A i \in 1 .. Len(s3) : s[i] = s3[i]
        /\ \A k \in 1 .. Len(g) : s[Len(s3) + k] = g[k]
    BY <1>14 DEF IsJoint
  <1>5. /\ Len(s1) = 1 + n /\ Len(s2) = n + 3 /\ Len(s3) = n + 3 + Len(x)
        /\ Len(s) = n + 3 + Len(x) + Len(g)
    BY <1>1, <1>2, <1>3, <1>4
  <1>6. s[1] = a[1] /\ \A k \in 1 .. n : s[k + 1] = p[k]
    <2>1. ASSUME NEW i \in 1 .. Len(s1) PROVE s[i] = s1[i]
      <3>1. i \in 1 .. Len(s2) /\ i \in 1 .. Len(s3)
        BY <1>1, <1>3, <1>5
      <3>2. QED
        BY <1>2, <1>3, <1>4, <3>1
    <2>2. 1 \in 1 .. Len(s1) /\ 1 \in 1 .. 1 /\ \A k \in 1 .. n : k + 1 \in 1 .. Len(s1) /\ k + 1 = 1 + k
      BY <1>1
    <2>3. QED
      BY <1>1, <2>1, <2>2
  <1>7. s[n + 2] = b[1] /\ s[n + 3] = b[2]
    <2>1. ASSUME NEW k \in 1 .. 2 PROVE s[n + 1 + k] = b[k]
      <3> DEFINE i == n + 1 + k
      <3>1. i \in 1 .. Len(s2) /\ i \in 1 .. Len(s3) /\ i = Len(s1) + k
        BY <1>1, <1>3, <1>5
      <3> HIDE DEF i
      <3>2. s[i] = s2[i]
        BY <1>3, <1>4, <3>1
      <3>3. s2[i] = b[k]
        BY <1>2, <3>1
      <3>4. QED
        BY <3>2, <3>3 DEF i
    <2>2. n + 1 + 1 = n + 2 /\ n + 1 + 2 = n + 3 /\ 1 \in 1 .. 2 /\ 2 \in 1 .. 2
      BY <1>1
    <2>3. s[n + 1 + 1] = b[1] /\ s[n + 1 + 2] = b[2]
      BY <2>1, <2>2
    <2>4. QED
      BY <2>2, <2>3
  <1>8. ASSUME Len(x) = 1 PROVE s[n + 4] = x[1]
    <2> DEFINE i == n + 4
    <2>1. i \in 1 .. Len(s3) /\ i = Len(s2) + 1 /\ 1 \in 1 .. Len(x)
      BY <1>1, <1>5, <1>8
    <2> HIDE DEF i
    <2>2. s[i] = s3[i] /\ s3[i] = x[1]
      BY <1>3, <1>4, <2>1
    <2>3. QED
      BY <2>2 DEF i
  <1>9. ASSUME Len(g) = 1 PROVE s[n + 4 + Len(x)] = g[1]
    <2> DEFINE i == n + 4 + Len(x)
    <2>1. i = Len(s3) + 1 /\ 1 \in 1 .. Len(g)
      BY <1>1, <1>3, <1>5, <1>9
    <2> HIDE DEF i
    <2>2. s[i] = g[1]
      BY <1>4, <2>1
    <2>3. QED
      BY <2>2 DEF i
  <1>10. QED
    BY <1>4, <1>5, <1>6, <1>7, <1>8, <1>9 DEF IsFive, n

LEMMA SecondsAreWhole ==
    ASSUME TextConstants, NEW v \in Versions
    PROVE  Texts!FormatTime(v.time) = v.time /\ Texts!FormatTime(v.expiry) = v.expiry
  BY DEF Versions, TextConstants, Texts!FormatTime

LEMMA VersionLinesAre ==
    ASSUME TextConstants, NEW v \in Versions
    PROVE  /\ Texts!VersionLines(v) \in Seq(Seq(Seq(Alphabet)))
           /\ AreLinesOf(Texts!VersionLines(v), v)
  <1> DEFINE T == Seq(Seq(Alphabet))
             n == Len(v.parents)
             K(key, word) == Texts!Keyed(key, word)
             a == <<K("manifest", v.manifest)>>
             P(k) == K("parent", v.parents[k])
             p == [k \in DOMAIN v.parents |-> P(k)]
             b == <<AuthorLine(v), K("time", v.time)>>
             x == Optional(v.expiry = "t0", K("expiry", v.expiry))
             g == Optional(v.graph = "id0", K("graph", v.graph))
             s == (((a \o p) \o b) \o x) \o g
  <1>1. /\ v.manifest \in Words /\ v.time \in Words /\ v.expiry \in Words /\ v.graph \in Words
        /\ n \in Nat /\ DOMAIN v.parents = 1 .. n /\ \A k \in 1 .. n : v.parents[k] \in Words
        /\ v.author \in Seq(Alphabet)
    BY VersionIs
  <1>2. Texts!VersionLines(v) = s
    <2>1. Texts!FormatTime(v.time) = v.time /\ Texts!FormatTime(v.expiry) = v.expiry
      BY SecondsAreWhole
    <2>2. QED
      BY <2>1 DEF Texts!VersionLines, Optional, AuthorLine
  <1>3. /\ K("manifest", v.manifest) \in T /\ K("time", v.time) \in T
        /\ K("expiry", v.expiry) \in T /\ K("graph", v.graph) \in T
        /\ \A k \in 1 .. n : P(k) \in T
    <2>1. /\ "manifest" \in Bare /\ "time" \in Bare /\ "expiry" \in Bare /\ "graph" \in Bare
          /\ "parent" \in Bare
      BY SignsAreBare
    <2>2. K("manifest", v.manifest) \in T
      BY <1>1, <2>1, KeyedIsLine
    <2>3. K("time", v.time) \in T
      BY <1>1, <2>1, KeyedIsLine
    <2>4. K("expiry", v.expiry) \in T
      BY <1>1, <2>1, KeyedIsLine
    <2>5. K("graph", v.graph) \in T
      BY <1>1, <2>1, KeyedIsLine
    <2>6. \A k \in 1 .. n : P(k) \in T
      BY <1>1, <2>1, KeyedIsLine
    <2>7. QED
      BY <2>2, <2>3, <2>4, <2>5, <2>6
  <1>4. AuthorLine(v) \in T
    <2> DEFINE w == <<"author">>
               y == v.author
               U == Seq(Alphabet)
    <2>1. w \in U /\ y \in U
      BY <1>1, SignsAreTokens, Singleton DEF Signs
    <2>2. AuthorLine(v) = <<w, y>>
      BY DEF AuthorLine
    <2> HIDE DEF w, y, U
    <2>3. <<w, y>> \in Seq(U)
      BY <2>1, Couple
    <2>4. QED
      BY <2>2, <2>3 DEF U
  <1>5. p \in Seq(T) /\ Len(p) = n /\ \A k \in 1 .. n : p[k] = P(k)
    <2> HIDE DEF T, P, n
    <2>1. QED
      BY <1>1, <1>3
  <1>6. a \in Seq(T) /\ Len(a) = 1 /\ a[1] = K("manifest", v.manifest)
    <2> DEFINE y == K("manifest", v.manifest)
    <2>1. y \in T
      BY <1>3
    <2> HIDE DEF y, T, K
    <2>2. <<y>> \in Seq(T) /\ Len(<<y>>) = 1 /\ <<y>>[1] = y
      BY <2>1, Singleton
    <2>3. QED
      BY <2>2 DEF y
  <1>7. b \in Seq(T) /\ Len(b) = 2 /\ b[1] = AuthorLine(v) /\ b[2] = K("time", v.time)
    <2> DEFINE y == K("time", v.time)
               w == AuthorLine(v)
    <2>1. y \in T /\ w \in T
      BY <1>3, <1>4
    <2> HIDE DEF y, w, T, K
    <2>2. <<w, y>> \in Seq(T) /\ Len(<<w, y>>) = 2 /\ <<w, y>>[1] = w /\ <<w, y>>[2] = y
      BY <2>1, Couple
    <2>3. QED
      BY <2>2 DEF y, w
  <1>8. x \in Seq(T) /\ Len(x) = OfExpiry(v) /\ (OfExpiry(v) = 1 => x[1] = K("expiry", v.expiry))
    <2> DEFINE y == K("expiry", v.expiry)
               absent == v.expiry = "t0"
    <2>1. y \in T /\ absent \in BOOLEAN
      BY <1>3
    <2>2. OfExpiry(v) = IF absent THEN 0 ELSE 1
      BY DEF OfExpiry
    <2> HIDE DEF y, T, K, absent
    <2>3. /\ Optional(absent, y) \in Seq(T)
          /\ Len(Optional(absent, y)) = IF absent THEN 0 ELSE 1
          /\ ~absent => Optional(absent, y)[1] = y
      BY <2>1, OptionalIs
    <2>4. QED
      BY <2>2, <2>3 DEF y, absent
  <1>9. g \in Seq(T) /\ Len(g) = OfGraph(v) /\ (OfGraph(v) = 1 => g[1] = K("graph", v.graph))
    <2> DEFINE y == K("graph", v.graph)
               absent == v.graph = "id0"
    <2>1. y \in T /\ absent \in BOOLEAN
      BY <1>3
    <2>2. OfGraph(v) = IF absent THEN 0 ELSE 1
      BY DEF OfGraph
    <2> HIDE DEF y, T, K, absent
    <2>3. /\ Optional(absent, y) \in Seq(T)
          /\ Len(Optional(absent, y)) = IF absent THEN 0 ELSE 1
          /\ ~absent => Optional(absent, y)[1] = y
      BY <2>1, OptionalIs
    <2>4. QED
      BY <2>2, <2>3 DEF y, absent
  <1> HIDE DEF a, p, b, x, g, T, s
  <1>10. s \in Seq(T) /\ IsFive(s, a, p, b, x, g)
    BY <1>5, <1>6, <1>7, <1>8, <1>9, FiveParts DEF s
  <1> HIDE DEF n, K, P
  <1>12. /\ Len(s) = n + 3 + OfExpiry(v) + OfGraph(v)
         /\ s[1] = K("manifest", v.manifest)
         /\ \A k \in 1 .. n : s[k + 1] = P(k)
    BY <1>5, <1>6, <1>8, <1>9, <1>10 DEF IsFive
  <1>13. /\ s[n + 2] = AuthorLine(v)
         /\ s[n + 3] = K("time", v.time)
         /\ OfExpiry(v) = 1 => s[n + 4] = K("expiry", v.expiry)
         /\ OfGraph(v) = 1 => s[n + 4 + OfExpiry(v)] = K("graph", v.graph)
    BY <1>5, <1>7, <1>8, <1>9, <1>10 DEF IsFive
  <1>14. AreLinesOf(s, v)
    BY <1>12, <1>13 DEF AreLinesOf, n, K, P
  <1>15. QED
    BY <1>2, <1>10, <1>14 DEF T

(* The lines of a version, one place after the other. *)
LEMMA Places ==
    ASSUME NEW v \in Versions, NEW n, n = Len(v.parents),
           NEW k \in 1 .. n + 3 + OfExpiry(v) + OfGraph(v)
    PROVE  \/ k = 1
           \/ k - 1 \in 1 .. n /\ k = (k - 1) + 1
           \/ k = n + 2
           \/ k = n + 3
           \/ OfExpiry(v) = 1 /\ k = n + 4
           \/ OfGraph(v) = 1 /\ k = n + 4 + OfExpiry(v)
  <1>1. n \in Nat
    BY VersionIs
  <1>2. OfExpiry(v) \in {0, 1} /\ OfGraph(v) \in {0, 1}
    BY DEF OfExpiry, OfGraph
  <1>3. QED
    BY <1>1, <1>2

(* A version has these lines only. *)
LEMMA LinesAreUnique ==
    ASSUME NEW v \in Versions, NEW T, NEW a \in Seq(T), NEW b \in Seq(T),
           AreLinesOf(a, v), AreLinesOf(b, v)
    PROVE  a = b
  <1> DEFINE n == Len(v.parents)
  <1>1. n \in Nat
    BY VersionIs
  <1>2. /\ Len(a) = n + 3 + OfExpiry(v) + OfGraph(v)
        /\ a[1] = Texts!Keyed("manifest", v.manifest)
        /\ \A k \in 1 .. n : a[k + 1] = Texts!Keyed("parent", v.parents[k])
        /\ a[n + 2] = AuthorLine(v)
        /\ a[n + 3] = Texts!Keyed("time", v.time)
        /\ OfExpiry(v) = 1 => a[n + 4] = Texts!Keyed("expiry", v.expiry)
        /\ OfGraph(v) = 1 => a[n + 4 + OfExpiry(v)] = Texts!Keyed("graph", v.graph)
    BY DEF AreLinesOf
  <1>3. /\ Len(b) = n + 3 + OfExpiry(v) + OfGraph(v)
        /\ b[1] = Texts!Keyed("manifest", v.manifest)
        /\ \A k \in 1 .. n : b[k + 1] = Texts!Keyed("parent", v.parents[k])
        /\ b[n + 2] = AuthorLine(v)
        /\ b[n + 3] = Texts!Keyed("time", v.time)
        /\ OfExpiry(v) = 1 => b[n + 4] = Texts!Keyed("expiry", v.expiry)
        /\ OfGraph(v) = 1 => b[n + 4 + OfExpiry(v)] = Texts!Keyed("graph", v.graph)
    BY DEF AreLinesOf
  <1> HIDE DEF n
  <1>4. ASSUME NEW k \in 1 .. Len(a) PROVE a[k] = b[k]
    <2>1. \/ k = 1
          \/ k - 1 \in 1 .. n /\ k = (k - 1) + 1
          \/ k = n + 2
          \/ k = n + 3
          \/ OfExpiry(v) = 1 /\ k = n + 4
          \/ OfGraph(v) = 1 /\ k = n + 4 + OfExpiry(v)
      BY <1>2, Places DEF n
    <2>2. CASE k = 1
      BY <1>2, <1>3, <2>2
    <2>3. CASE k - 1 \in 1 .. n /\ k = (k - 1) + 1
      <3> DEFINE i == k - 1
      <3>1. i \in 1 .. n /\ k = i + 1
        BY <2>3
      <3> HIDE DEF i
      <3>2. QED
        BY <1>2, <1>3, <3>1
    <2>4. CASE k = n + 2
      BY <1>2, <1>3, <2>4
    <2>5. CASE k = n + 3
      BY <1>2, <1>3, <2>5
    <2>6. CASE OfExpiry(v) = 1 /\ k = n + 4
      BY <1>2, <1>3, <2>6
    <2>7. CASE OfGraph(v) = 1 /\ k = n + 4 + OfExpiry(v)
      BY <1>2, <1>3, <2>7
    <2>8. QED
      BY <2>1, <2>2, <2>3, <2>4, <2>5, <2>6, <2>7
  <1>5. QED
    BY <1>2, <1>3, <1>4, SeqEqual

LEMMA AuthorIs ==
    ASSUME NEW a \in Seq(Alphabet), Texts!ValidText(a)
    PROVE  a \in Seq(Bare) /\ a # <<>> /\ Texts!Last(a) # " "
  <1> DEFINE S == {"latin1", "TAB", "CR", "LF"}
             U == Alphabet \ S
  <1>1. Texts!ToSet(a) \cap S = {} /\ a # <<>> /\ Texts!Last(a) # " "
    BY DEF Texts!ValidText
  <1>2. U \subseteq Bare
    BY DEF Bare, Clean
  <1> HIDE DEF S
  <1>3. a \in Seq(U)
    BY <1>1, Avoids
  <1> HIDE DEF U
  <1>4. a \in Seq(Bare)
    BY <1>2, <1>3, SeqMonotonic
  <1>5. QED
    BY <1>1, <1>4

(* A line of a key and a value. *)
TwoFields(l) == Neat(l) /\ l \in Seq(Seq(Bare)) /\ Len(l) = 2

LEMMA VersionLineIs ==
    ASSUME TextConstants, NEW v \in Versions, Texts!ValidVersion(v), NEW ls, AreLinesOf(ls, v)
    PROVE  \A k \in 1 .. Len(ls) : TwoFields(ls[k])
  <1> DEFINE n == Len(v.parents)
  <1>1. /\ v.manifest \in Words /\ v.time \in Words /\ v.expiry \in Words /\ v.graph \in Words
        /\ n \in Nat /\ \A k \in 1 .. n : v.parents[k] \in Words
        /\ v.author \in Seq(Alphabet)
    BY VersionIs
  <1>2. /\ Len(ls) = n + 3 + OfExpiry(v) + OfGraph(v)
        /\ ls[1] = Texts!Keyed("manifest", v.manifest)
        /\ \A k \in 1 .. n : ls[k + 1] = Texts!Keyed("parent", v.parents[k])
        /\ ls[n + 2] = AuthorLine(v)
        /\ ls[n + 3] = Texts!Keyed("time", v.time)
        /\ OfExpiry(v) = 1 => ls[n + 4] = Texts!Keyed("expiry", v.expiry)
        /\ OfGraph(v) = 1 => ls[n + 4 + OfExpiry(v)] = Texts!Keyed("graph", v.graph)
    BY DEF AreLinesOf
  <1>3. /\ "manifest" \in Bare /\ "time" \in Bare /\ "expiry" \in Bare /\ "graph" \in Bare
        /\ "parent" \in Bare /\ "author" \in Bare
    BY SignsAreBare
  <1>4. \A key \in Bare, word \in Words : TwoFields(Texts!Keyed(key, word))
    BY KeyedIsNeat DEF TwoFields
  <1>5. TwoFields(AuthorLine(v))
    <2>1. v.author \in Seq(Bare) /\ v.author # <<>> /\ Texts!Last(v.author) # " "
      BY <1>1, AuthorIs DEF Texts!ValidVersion
    <2>2. QED
      BY <1>3, <2>1, PairIsNeat DEF TwoFields, AuthorLine
  <1>6. TwoFields(Texts!Keyed("manifest", v.manifest)) /\ TwoFields(Texts!Keyed("time", v.time))
    BY <1>1, <1>3, <1>4
  <1>7. TwoFields(Texts!Keyed("expiry", v.expiry)) /\ TwoFields(Texts!Keyed("graph", v.graph))
    BY <1>1, <1>3, <1>4
  <1>8. \A k \in 1 .. n : TwoFields(Texts!Keyed("parent", v.parents[k]))
    BY <1>1, <1>3, <1>4
  <1> HIDE DEF n
  <1>9. ASSUME NEW k \in 1 .. Len(ls) PROVE TwoFields(ls[k])
    <2>1. \/ k = 1
          \/ k - 1 \in 1 .. n /\ k = (k - 1) + 1
          \/ k = n + 2
          \/ k = n + 3
          \/ OfExpiry(v) = 1 /\ k = n + 4
          \/ OfGraph(v) = 1 /\ k = n + 4 + OfExpiry(v)
      BY <1>2, Places DEF n
    <2>2. CASE k = 1
      BY <1>2, <1>6, <2>2
    <2>3. CASE k - 1 \in 1 .. n /\ k = (k - 1) + 1
      <3> DEFINE i == k - 1
      <3>1. i \in 1 .. n /\ k = i + 1
        BY <2>3
      <3> HIDE DEF i
      <3>2. QED
        BY <1>2, <1>8, <3>1
    <2>4. CASE k = n + 2
      BY <1>2, <1>5, <2>4
    <2>5. CASE k = n + 3
      BY <1>2, <1>6, <2>5
    <2>6. CASE OfExpiry(v) = 1 /\ k = n + 4
      BY <1>2, <1>7, <2>6
    <2>7. CASE OfGraph(v) = 1 /\ k = n + 4 + OfExpiry(v)
      BY <1>2, <1>7, <2>7
    <2>8. QED
      BY <2>1, <2>2, <2>3, <2>4, <2>5, <2>6, <2>7
  <1>10. QED
    BY <1>9

LEMMA VersionLinesAreNeat ==
    ASSUME TextConstants, NEW v \in Versions, Texts!ValidVersion(v)
    PROVE  /\ NeatLines(Texts!VersionLines(v))
           /\ \A k \in 1 .. Len(Texts!VersionLines(v)) : Len(Texts!VersionLines(v)[k]) = 2
  <1> DEFINE ls == Texts!VersionLines(v)
             T == Seq(Seq(Alphabet))
             U == Seq(Seq(Bare))
  <1>1. ls \in Seq(T) /\ AreLinesOf(ls, v)
    BY VersionLinesAre
  <1>2. \A k \in 1 .. Len(ls) : TwoFields(ls[k])
    BY <1>1, VersionLineIs
  <1> HIDE DEF ls
  <1>3. \A k \in 1 .. Len(ls) : ls[k] \in U /\ Neat(ls[k]) /\ Len(ls[k]) = 2
    BY <1>2 DEF TwoFields
  <1> HIDE DEF T, U
  <1>4. Len(ls) \in Nat /\ ls = [k \in 1 .. Len(ls) |-> ls[k]]
    BY <1>1, LenProperties
  <1>5. ls \in Seq(U)
    BY <1>3, <1>4, IsASeq
  <1>6. QED
    BY <1>3, <1>5 DEF NeatLines, U, ls

(* What a text and the texts before its marks are. *)
LEMMA EncodedSplit ==
    ASSUME NEW h, IsHeader(h), NEW ls, NeatLines(ls), NEW e, e = Texts!Encoded(h, ls)
    PROVE  /\ e \in Seq(Alphabet) /\ Len(e) \in Nat /\ Len(e) >= 2 /\ e[Len(e)] = "LF"
           /\ Len(Texts!Split(e, "LF")) = Len(ls) + 2
           /\ \A k \in 1 .. Len(ls) : Texts!Split(e, "LF")[k + 1] = Texts!Line(ls[k])
           /\ Texts!Split(e, "LF")[Len(ls) + 2] = <<>>
  <1> DEFINE s == Texts!Front(e)
             p == Headed(h, ls)
             q == Append(p, <<>>)
             T == Seq(Alphabet)
  <1>1. /\ s \in Seq(Printed) /\ e = Append(s, "LF") /\ Texts!Split(s, "LF") = p
        /\ e \in Seq(Printed)
    BY EncodedIs
  <1>2. s \in Seq(Alphabet) /\ e \in Seq(Alphabet)
    BY <1>1, PrintedIs, SeqMonotonic
  <1>3. /\ p \in Seq(Seq(Clean)) /\ Len(p) = Len(ls) + 1
        /\ \A k \in 1 .. Len(ls) : p[k + 1] = Texts!Line(ls[k])
    BY HeadedIs
  <1>4. p \in Seq(T)
    BY <1>3, BareIsClean, NestedMonotonic
  <1>5. Len(ls) \in Nat
    BY JoinedIs
  <1> HIDE DEF s, p
  <1>6. Texts!Split(e, "LF") = Grow(p, "LF", "LF")
    BY <1>1, <1>2, TabIsClean, SplitAppend
  <1>7. Texts!Split(e, "LF") = q
    BY <1>6 DEF Grow
  <1>8. <<>> \in T
    OBVIOUS
  <1> HIDE DEF T
  <1>9. /\ Len(q) = Len(p) + 1 /\ q[Len(p) + 1] = <<>>
        /\ \A k \in 1 .. Len(p) : q[k] = p[k]
    BY <1>4, <1>8, AppendProperties
  <1> HIDE DEF q
  <1>10. ASSUME NEW k \in 1 .. Len(ls) PROVE q[k + 1] = Texts!Line(ls[k])
    <2>1. k + 1 \in 1 .. Len(p)
      BY <1>3, <1>5
    <2>2. QED
      BY <1>3, <1>9, <2>1
  <1>11. Len(q) = Len(ls) + 2 /\ q[Len(ls) + 2] = <<>>
    <2>1. Len(p) + 1 = Len(ls) + 2
      BY <1>3, <1>5
    <2>2. QED
      BY <1>9, <2>1
  <1>12. Len(e) \in Nat /\ Len(e) = Len(s) + 1 /\ Len(s) \in Nat /\ e[Len(e)] = "LF"
    <2>1. Len(e) = Len(s) + 1 /\ e[Len(s) + 1] = "LF" /\ Len(s) \in Nat
      BY <1>1, <1>2, TabIsClean, AppendProperties, LenProperties
    <2>2. QED
      BY <2>1
  <1>13. Len(s) # 0
    <2>1. SUFFICES ASSUME s = <<>> PROVE FALSE
      BY <1>2, EmptySeq
    <2>2. p = <<<<>>>>
      BY <1>1, <2>1, SplitEmpty
    <2>3. p[1] = <<>>
      BY <2>2
    <2>4. p[1] = <<h>>
      BY HeadedIs DEF p
    <2>5. QED
      BY <2>3, <2>4
  <1>14. QED
    BY <1>2, <1>7, <1>10, <1>11, <1>12, <1>13 DEF T

LEMMA MarkedIsPart ==
    ASSUME NEW e \in Seq(Alphabet), NEW i \in 1 .. Len(e) - 2, Marked(e, i)
    PROVE  \E j \in 2 .. Len(Texts!Split(e, "LF")) : Texts!Split(e, "LF")[j] = <<"message">>
  <1> DEFINE mark == "LF"
  <1>1. e[i] = mark /\ e[i + 2] = mark /\ e[i + 1] = "message" /\ mark \in Alphabet
    BY TabIsClean DEF Marked
  <1>2. e[i + 1] # mark
    BY <1>1
  <1> HIDE DEF mark
  <1>3. \E j \in 2 .. Len(Texts!Split(e, mark)) : Texts!Split(e, mark)[j] = <<e[i + 1]>>
    BY <1>1, <1>2, BetweenMarks
  <1>4. QED
    BY <1>1, <1>3 DEF mark

(* Above the message no text has a line that is the marker of one. *)
LEMMA NoMarker ==
    ASSUME NEW h, IsHeader(h), NEW ls, NeatLines(ls), \A k \in 1 .. Len(ls) : Len(ls[k]) = 2,
           NEW e, e = Texts!Encoded(h, ls), NEW i \in 1 .. Len(e) - 2
    PROVE  ~Marked(e, i)
  <1> DEFINE p == Texts!Split(e, "LF")
             x == "message"
  <1>1. SUFFICES ASSUME Marked(e, i) PROVE FALSE
    OBVIOUS
  <1>2. /\ e \in Seq(Alphabet) /\ Len(p) = Len(ls) + 2
        /\ \A k \in 1 .. Len(ls) : p[k + 1] = Texts!Line(ls[k])
        /\ p[Len(ls) + 2] = <<>>
    BY EncodedSplit
  <1>5. PICK j \in 2 .. Len(p) : p[j] = <<x>>
    BY <1>1, <1>2, MarkedIsPart
  <1>6. Len(ls) \in Nat
    BY JoinedIs
  <1> HIDE DEF p
  <1>7. CASE j = Len(ls) + 2
    <2>1. <<x>> = <<>>
      BY <1>2, <1>5, <1>7
    <2>2. <<x>> # <<>>
      BY Singleton
    <2>3. QED
      BY <2>1, <2>2
  <1>8. CASE j # Len(ls) + 2
    <2> DEFINE k == j - 1
               l == ls[k]
    <2>1. k \in 1 .. Len(ls) /\ j = k + 1
      BY <1>2, <1>6, <1>8
    <2> HIDE DEF k
    <2>2. Texts!Line(l) = <<x>> /\ Neat(l) /\ Len(l) = 2
      BY <1>2, <1>5, <2>1 DEF NeatLines
    <2>3. Texts!Split(Texts!Line(l), "TAB") = l
      BY <2>2, LineIs
    <2>4. <<x>> \in Seq({x}) /\ Without(<<x>>, "TAB")
      BY DEF Without
    <2>5. Texts!Split(<<x>>, "TAB") = <<<<x>>>>
      BY <2>4, SplitWithout
    <2> HIDE DEF l
    <2>6. l = <<<<x>>>>
      BY <2>2, <2>3, <2>5
    <2>7. Len(l) = 1
      BY <2>6
    <2>8. QED
      BY <2>2, <2>7
  <1>9. QED
    BY <1>7, <1>8

(* The text above the message, the block of the message and the message. *)
HeadOf(data) == IF Texts!Markers(data) # {} THEN SubSeq(data, 1, Texts!MessageStart(data))
                ELSE data

BlockOf(data) == IF Texts!Markers(data) # {}
                 THEN SubSeq(data, Texts!MessageStart(data) + 3, Len(data)) ELSE <<>>

MessageOf(data) == IF Texts!Markers(data) # {} THEN Texts!Front(BlockOf(data)) ELSE <<>>

LineOf(data) == Texts!LinesOf(HeadOf(data), "version v1")

ReadAs(data) == Texts!VersionOf(LineOf(data), Texts!ParentsOf(LineOf(data)), MessageOf(data))

IsReadAs(data, rows, v) ==
    /\ Texts!Markers(data) # {} => Texts!ValidMessage(BlockOf(data))
    /\ rows # Refused /\ Texts!AreVersionLines(rows, Texts!ParentsOf(rows))
    /\ Texts!ValidVersion(v)

LEMMA ReadVersionTakes ==
    ASSUME NEW data
    PROVE  Texts!ReadVersion(data) =
              IF IsReadAs(data, LineOf(data), ReadAs(data)) THEN ReadAs(data) ELSE Refused
  BY DEF Texts!ReadVersion, IsReadAs, HeadOf, BlockOf, MessageOf, LineOf, ReadAs

LEMMA ReadVersionIs ==
    ASSUME NEW data, NEW rows, rows = Texts!LinesOf(HeadOf(data), "version v1"),
           NEW v, v = Texts!VersionOf(rows, Texts!ParentsOf(rows), MessageOf(data))
    PROVE  Texts!ReadVersion(data) = IF IsReadAs(data, rows, v) THEN v ELSE Refused
  <1>1. rows = LineOf(data) /\ v = ReadAs(data)
    BY DEF LineOf, ReadAs
  <1>2. QED
    BY <1>1, ReadVersionTakes

(* The key and the value of a line. *)
Says(l, key, value) == l[1] = <<key>> /\ l[2] = value

LEMMA KeyedSays ==
    /\ \A key, word : Says(Texts!Keyed(key, word), key, <<word>>)
    /\ \A v : Says(AuthorLine(v), "author", v.author)
  BY DEF Says, Texts!Keyed, AuthorLine

LEMMA KeysDiffer == \A x, y : <<x>> = <<y>> => x = y
  <1>1. ASSUME NEW x, NEW y, <<x>> = <<y>> PROVE x = y
    <2>1. <<x>>[1] = x /\ <<y>>[1] = y
      OBVIOUS
    <2>2. QED
      BY <1>1, <2>1
  <1>2. QED
    BY <1>1

LEMMA HasKeyIs ==
    ASSUME NEW rows, NEW k, NEW key, NEW other, NEW value, Says(rows[k], other, value)
    PROVE  Texts!HasKey(rows, k, key) <=> k \in DOMAIN rows /\ key = other
  <1>1. rows[k][1] = <<other>>
    BY DEF Says
  <1>2. <<other>>[1] = other /\ <<key>>[1] = key
    OBVIOUS
  <1>3. <<other>> = <<key>> <=> key = other
    BY <1>2
  <1>4. QED
    BY <1>1, <1>3 DEF Texts!HasKey

(* What the lines of a version say. *)
SayVersion(ls, v, n) ==
    /\ Len(ls) = n + 3 + OfExpiry(v) + OfGraph(v)
    /\ Says(ls[1], "manifest", <<v.manifest>>)
    /\ \A k \in 1 .. n : Says(ls[k + 1], "parent", <<v.parents[k]>>)
    /\ Says(ls[n + 2], "author", v.author)
    /\ Says(ls[n + 3], "time", <<v.time>>)
    /\ OfExpiry(v) = 1 => Says(ls[n + 4], "expiry", <<v.expiry>>)
    /\ OfGraph(v) = 1 => Says(ls[n + 4 + OfExpiry(v)], "graph", <<v.graph>>)

LEMMA LinesSay ==
    ASSUME NEW ls, NEW v, AreLinesOf(ls, v), NEW n, n = Len(v.parents)
    PROVE  SayVersion(ls, v, n)
  <1>1. /\ Len(ls) = n + 3 + OfExpiry(v) + OfGraph(v)
        /\ ls[1] = Texts!Keyed("manifest", v.manifest)
        /\ \A k \in 1 .. n : ls[k + 1] = Texts!Keyed("parent", v.parents[k])
        /\ ls[n + 2] = AuthorLine(v)
        /\ ls[n + 3] = Texts!Keyed("time", v.time)
        /\ OfExpiry(v) = 1 => ls[n + 4] = Texts!Keyed("expiry", v.expiry)
        /\ OfGraph(v) = 1 => ls[n + 4 + OfExpiry(v)] = Texts!Keyed("graph", v.graph)
    BY DEF AreLinesOf
  <1>2. QED
    BY <1>1, KeyedSays DEF SayVersion

(* Which keys are where. *)
LEMMA KeysAre ==
    ASSUME NEW v, NEW T, NEW ls \in Seq(T), NEW n \in Nat, SayVersion(ls, v, n)
    PROVE  /\ Texts!HasKey(ls, 1, "manifest") /\ Texts!HasKey(ls, n + 2, "author")
           /\ Texts!HasKey(ls, n + 3, "time")
           /\ \A k \in 2 .. n + 1 : Texts!HasKey(ls, k, "parent")
           /\ ~Texts!HasKey(ls, n + 2, "parent")
           /\ Texts!HasKey(ls, n + 4, "expiry") <=> OfExpiry(v) = 1
           /\ Texts!GraphAt(ls, n) = n + 4 + OfExpiry(v)
           /\ Texts!HasKey(ls, Texts!GraphAt(ls, n), "graph") <=> OfGraph(v) = 1
           /\ Texts!EndAt(ls, n) = Len(ls)
  <1>1. OfExpiry(v) \in {0, 1} /\ OfGraph(v) \in {0, 1}
    BY DEF OfExpiry, OfGraph
  <1>2. /\ Len(ls) = n + 3 + OfExpiry(v) + OfGraph(v)
        /\ Says(ls[1], "manifest", <<v.manifest>>)
        /\ \A k \in 1 .. n : Says(ls[k + 1], "parent", <<v.parents[k]>>)
        /\ Says(ls[n + 2], "author", v.author)
        /\ Says(ls[n + 3], "time", <<v.time>>)
        /\ OfExpiry(v) = 1 => Says(ls[n + 4], "expiry", <<v.expiry>>)
        /\ OfGraph(v) = 1 => Says(ls[n + 4 + OfExpiry(v)], "graph", <<v.graph>>)
    BY DEF SayVersion
  <1>3. DOMAIN ls = 1 .. Len(ls) /\ Len(ls) \in Nat
    BY LenProperties
  <1>4. 1 \in DOMAIN ls /\ n + 2 \in DOMAIN ls /\ n + 3 \in DOMAIN ls
    BY <1>1, <1>2, <1>3
  <1>5. Texts!HasKey(ls, 1, "manifest")
    BY <1>2, <1>4, HasKeyIs
  <1>6. Texts!HasKey(ls, n + 2, "author") /\ ~Texts!HasKey(ls, n + 2, "parent")
    <2> DEFINE i == n + 2
    <2>1. Says(ls[i], "author", v.author) /\ i \in DOMAIN ls
      BY <1>2, <1>4
    <2> HIDE DEF i
    <2>2. ls[i][1] = <<"author">>
      BY <2>1 DEF Says
    <2>3. <<"author">> # <<"parent">>
      BY KeysDiffer
    <2>4. QED
      BY <2>1, <2>2, <2>3 DEF Texts!HasKey, i
  <1>7. Texts!HasKey(ls, n + 3, "time")
    BY <1>2, <1>4, HasKeyIs
  <1>8. ASSUME NEW k \in 2 .. n + 1 PROVE Texts!HasKey(ls, k, "parent")
    <2> DEFINE i == k - 1
    <2>1. i \in 1 .. n /\ i + 1 = k /\ k \in DOMAIN ls
      BY <1>1, <1>2, <1>3
    <2> HIDE DEF i
    <2>2. Says(ls[k], "parent", <<v.parents[i]>>)
      BY <1>2, <2>1
    <2>3. QED
      BY <2>1, <2>2, HasKeyIs
  <1>9. Texts!HasKey(ls, n + 4, "expiry") <=> OfExpiry(v) = 1
    <2>1. CASE OfExpiry(v) = 1
      <3>1. n + 4 \in DOMAIN ls
        BY <1>1, <1>2, <1>3, <2>1
      <3>2. QED
        BY <1>2, <2>1, <3>1, HasKeyIs
    <2>2. CASE OfExpiry(v) = 0 /\ OfGraph(v) = 0
      <3>1. n + 4 \notin DOMAIN ls
        BY <1>2, <1>3, <2>2
      <3>2. QED
        BY <2>2, <3>1 DEF Texts!HasKey
    <2>3. CASE OfExpiry(v) = 0 /\ OfGraph(v) = 1
      <3>1. n + 4 + OfExpiry(v) = n + 4
        BY <2>3
      <3>2. Says(ls[n + 4], "graph", <<v.graph>>)
        BY <1>2, <2>3, <3>1
      <3>3. ls[n + 4][1] = <<"graph">>
        BY <3>2 DEF Says
      <3>4. <<"graph">> # <<"expiry">>
        BY KeysDiffer
      <3>5. QED
        BY <2>3, <3>3, <3>4 DEF Texts!HasKey
    <2>4. QED
      BY <1>1, <2>1, <2>2, <2>3
  <1>10. Texts!GraphAt(ls, n) = n + 4 + OfExpiry(v)
    BY <1>1, <1>9 DEF Texts!GraphAt
  <1> DEFINE g == n + 4 + OfExpiry(v)
  <1>11. Texts!HasKey(ls, g, "graph") <=> OfGraph(v) = 1
    <2>1. CASE OfGraph(v) = 1
      <3>1. g \in DOMAIN ls /\ Says(ls[g], "graph", <<v.graph>>)
        BY <1>1, <1>2, <1>3, <2>1
      <3>2. QED
        BY <2>1, <3>1, HasKeyIs
    <2>2. CASE OfGraph(v) = 0
      <3>1. g \notin DOMAIN ls
        BY <1>1, <1>2, <1>3, <2>2
      <3>2. QED
        BY <2>2, <3>1 DEF Texts!HasKey
    <2>3. QED
      BY <1>1, <2>1, <2>2
  <1> HIDE DEF g
  <1>12. Texts!GraphAt(ls, n) = g
    BY <1>10 DEF g
  <1>13. Texts!EndAt(ls, n) = IF OfGraph(v) = 1 THEN g ELSE g - 1
    BY <1>11, <1>12 DEF Texts!EndAt
  <1>14. Texts!EndAt(ls, n) = Len(ls)
    BY <1>1, <1>2, <1>13 DEF g
  <1>15. QED
    BY <1>5, <1>6, <1>7, <1>8, <1>9, <1>10, <1>11, <1>12, <1>14

LEMMA ParentsOfIs ==
    ASSUME NEW v, NEW T, NEW ls \in Seq(T), NEW n \in Nat, SayVersion(ls, v, n)
    PROVE  Texts!ParentsOf(ls) = n
  <1>1. /\ \A k \in 2 .. n + 1 : Texts!HasKey(ls, k, "parent")
        /\ ~Texts!HasKey(ls, n + 2, "parent")
    BY KeysAre
  <1>2. n \in 0 .. Len(ls)
    <2>1. OfExpiry(v) \in {0, 1} /\ OfGraph(v) \in {0, 1}
      BY DEF OfExpiry, OfGraph
    <2>2. Len(ls) = n + 3 + OfExpiry(v) + OfGraph(v)
      BY DEF SayVersion
    <2>3. QED
      BY <2>1, <2>2
  <1>3. Texts!AreParents(ls, n)
    BY <1>1 DEF Texts!AreParents
  <1>4. ASSUME NEW m \in 0 .. Len(ls), Texts!AreParents(ls, m) PROVE m = n
    <2>1. /\ \A k \in 2 .. m + 1 : Texts!HasKey(ls, k, "parent")
          /\ ~Texts!HasKey(ls, m + 2, "parent")
      BY <1>4 DEF Texts!AreParents
    <2>2. ~(m < n)
      <3>1. SUFFICES ASSUME m < n PROVE FALSE
        OBVIOUS
      <3>2. m + 2 \in 2 .. n + 1
        BY <3>1
      <3>3. QED
        BY <1>1, <2>1, <3>2
    <2>3. ~(n < m)
      <3>1. SUFFICES ASSUME n < m PROVE FALSE
        OBVIOUS
      <3>2. n + 2 \in 2 .. m + 1
        BY <3>1
      <3>3. QED
        BY <1>1, <2>1, <3>2
    <2>4. m \in Nat
      OBVIOUS
    <2>5. QED
      BY <2>2, <2>3, <2>4
  <1>5. QED
    BY <1>2, <1>3, <1>4 DEF Texts!ParentsOf

LEMMA SaysWord ==
    ASSUME NEW l, NEW key, NEW w, Says(l, key, <<w>>)
    PROVE  l[2][1] = w /\ \A A : w \in A => Texts!Word(l[2], A)
  <1>1. l[2] = <<w>>
    BY DEF Says
  <1>2. <<w>>[1] = w /\ Len(<<w>>) = 1
    OBVIOUS
  <1>3. QED
    BY <1>1, <1>2 DEF Texts!Word

(* The lines of a version are read as that version. *)
LEMMA VersionSaid ==
    ASSUME TextConstants, NEW v \in Versions, NEW T, NEW ls \in Seq(T), NEW n, n = Len(v.parents),
           SayVersion(ls, v, n)
    PROVE  Texts!VersionOf(ls, n, v.message) = v
  <1> DEFINE g == Texts!GraphAt(ls, n)
             W(k) == ls[k][2][1]
  <1>1. /\ v.manifest \in Words /\ v.time \in Words /\ v.expiry \in Words /\ v.graph \in Words
        /\ n \in Nat /\ v.parents \in Seq(Ids)
    BY VersionIs
  <1>2. /\ Texts!HasKey(ls, n + 4, "expiry") <=> OfExpiry(v) = 1
        /\ g = n + 4 + OfExpiry(v)
        /\ Texts!HasKey(ls, g, "graph") <=> OfGraph(v) = 1
    BY <1>1, KeysAre
  <1>3. /\ Says(ls[1], "manifest", <<v.manifest>>)
        /\ \A k \in 1 .. n : Says(ls[k + 1], "parent", <<v.parents[k]>>)
        /\ Says(ls[n + 2], "author", v.author)
        /\ Says(ls[n + 3], "time", <<v.time>>)
        /\ OfExpiry(v) = 1 => Says(ls[n + 4], "expiry", <<v.expiry>>)
        /\ OfGraph(v) = 1 => Says(ls[n + 4 + OfExpiry(v)], "graph", <<v.graph>>)
    BY DEF SayVersion
  <1> HIDE DEF g
  <1>4. W(1) = v.manifest /\ ls[n + 2][2] = v.author
    BY <1>3, SaysWord DEF Says
  <1>5. [k \in 1 .. n |-> W(k + 1)] = v.parents
    <2>1. ASSUME NEW k \in 1 .. n PROVE W(k + 1) = v.parents[k]
      <3>1. Says(ls[k + 1], "parent", <<v.parents[k]>>)
        BY <1>3
      <3>2. QED
        BY <3>1, SaysWord
    <2>2. v.parents = [k \in 1 .. n |-> v.parents[k]]
      BY <1>1, LenProperties
    <2> HIDE DEF W
    <2>3. QED
      BY <2>1, <2>2
  <1>6. Texts!Value(W(n + 3)) = v.time
    <2>1. W(n + 3) = v.time
      BY <1>3, SaysWord
    <2>2. QED
      BY <1>1, <2>1, WordsAreBare
  <1> DEFINE x == IF Texts!HasKey(ls, n + 4, "expiry") THEN Texts!Value(W(n + 4)) ELSE "t0"
             y == IF Texts!HasKey(ls, g, "graph") THEN W(g) ELSE "id0"
  <1>7. x = v.expiry
    <2>1. CASE OfExpiry(v) = 1
      <3>1. W(n + 4) = v.expiry
        BY <1>3, <2>1, SaysWord
      <3>2. QED
        BY <1>1, <1>2, <2>1, <3>1, WordsAreBare
    <2>2. CASE OfExpiry(v) # 1
      BY <1>2, <2>2 DEF OfExpiry
    <2>3. QED
      BY <2>1, <2>2
  <1>8. y = v.graph
    <2>1. CASE OfGraph(v) = 1
      <3>1. W(g) = v.graph
        BY <1>2, <1>3, <2>1, SaysWord
      <3>2. QED
        BY <1>2, <2>1, <3>1
    <2>2. CASE OfGraph(v) # 1
      BY <1>2, <2>2 DEF OfGraph
    <2>3. QED
      BY <2>1, <2>2
  <1>9. Texts!VersionOf(ls, n, v.message) =
          [type |-> "version", manifest |-> W(1), parents |-> [k \in 1 .. n |-> W(k + 1)],
           author |-> ls[n + 2][2], time |-> Texts!Value(W(n + 3)), expiry |-> x, graph |-> y,
           message |-> v.message]
    BY DEF Texts!VersionOf, g
  <1> HIDE DEF x, y, W
  <1>10. v = [type |-> "version", manifest |-> v.manifest, parents |-> v.parents,
              author |-> v.author, time |-> v.time, expiry |-> v.expiry, graph |-> v.graph,
              message |-> v.message]
    BY DEF Versions
  <1>11. QED
    BY <1>4, <1>5, <1>6, <1>7, <1>8, <1>9, <1>10

LEMMA VersionLinesAreAccepted ==
    ASSUME NEW v \in Versions, NEW T, NEW ls \in Seq(T), NEW n, n = Len(v.parents),
           SayVersion(ls, v, n), \A k \in 1 .. Len(ls) : Len(ls[k]) = 2
    PROVE  Texts!AreVersionLines(ls, n) /\ Texts!ParentsOf(ls) = n
  <1> DEFINE g == Texts!GraphAt(ls, n)
  <1>1. /\ v.manifest \in Ids /\ v.time \in Times /\ v.expiry \in Times /\ v.graph \in Ids
        /\ n \in Nat /\ \A k \in 1 .. n : v.parents[k] \in Ids
    <2>1. /\ v.manifest \in Ids /\ v.time \in Times /\ v.expiry \in Times /\ v.graph \in Ids
          /\ v.parents \in Seq(Ids)
      BY DEF Versions
    <2>2. QED
      BY <2>1, ElementOfSeq, LenProperties
  <1>2. /\ Texts!HasKey(ls, 1, "manifest") /\ Texts!HasKey(ls, n + 2, "author")
        /\ Texts!HasKey(ls, n + 3, "time")
        /\ Texts!HasKey(ls, n + 4, "expiry") <=> OfExpiry(v) = 1
        /\ g = n + 4 + OfExpiry(v)
        /\ Texts!HasKey(ls, g, "graph") <=> OfGraph(v) = 1
        /\ Texts!EndAt(ls, n) = Len(ls)
    BY <1>1, KeysAre
  <1>3. /\ Says(ls[1], "manifest", <<v.manifest>>)
        /\ \A k \in 1 .. n : Says(ls[k + 1], "parent", <<v.parents[k]>>)
        /\ Says(ls[n + 3], "time", <<v.time>>)
        /\ OfExpiry(v) = 1 => Says(ls[n + 4], "expiry", <<v.expiry>>)
        /\ OfGraph(v) = 1 => Says(ls[n + 4 + OfExpiry(v)], "graph", <<v.graph>>)
    BY DEF SayVersion
  <1>4. DOMAIN ls = 1 .. Len(ls)
    BY LenProperties
  <1> HIDE DEF g
  <1>5. ASSUME NEW k \in 1 .. n + 1 PROVE Texts!Word(ls[k][2], Ids)
    <2>1. CASE k = 1
      BY <1>1, <1>3, <2>1, SaysWord
    <2>2. CASE k # 1
      <3> DEFINE i == k - 1
      <3>1. i \in 1 .. n /\ k = i + 1
        BY <1>1, <2>2
      <3> HIDE DEF i
      <3>2. Says(ls[k], "parent", <<v.parents[i]>>) /\ v.parents[i] \in Ids
        BY <1>1, <1>3, <3>1
      <3>3. QED
        BY <3>2, SaysWord
    <2>3. QED
      BY <2>1, <2>2
  <1>6. Texts!ReadsTime(ls[n + 3][2])
    BY <1>1, <1>3, SaysWord DEF Texts!ReadsTime
  <1>7. OfExpiry(v) = 1 => Texts!ReadsTime(ls[n + 4][2])
    BY <1>1, <1>3, SaysWord DEF Texts!ReadsTime
  <1>8. OfGraph(v) = 1 => Texts!Word(ls[g][2], Ids)
    BY <1>1, <1>2, <1>3, SaysWord
  <1>9. Texts!AreVersionLines(ls, n)
    BY <1>2, <1>4, <1>5, <1>6, <1>7, <1>8 DEF Texts!AreVersionLines, g
  <1>10. Texts!ParentsOf(ls) = n
    BY <1>1, ParentsOfIs
  <1>11. QED
    BY <1>9, <1>10

(* The block of a message below its marker. *)
MessageLines(b) == <<"message", "LF">> \o b

IsCut(data, e, b) == data = e \o MessageLines(b)

LEMMA BelowIs ==
    ASSUME NEW b \in Seq(Alphabet)
    PROVE  /\ MessageLines(b) \in Seq(Alphabet) /\ Len(MessageLines(b)) = 2 + Len(b)
           /\ MessageLines(b)[1] = "message" /\ MessageLines(b)[2] = "LF"
           /\ \A k \in 1 .. Len(b) : MessageLines(b)[2 + k] = b[k]
  <1> DEFINE mark == <<"message", "LF">>
             r == mark \o b
  <1>1. mark \in Seq(Alphabet) /\ Len(mark) = 2 /\ mark[1] = "message" /\ mark[2] = "LF"
    <2> DEFINE x == "message"
               y == "LF"
    <2>1. x \in Alphabet /\ y \in Alphabet
      BY SignsAreTokens DEF Signs
    <2> HIDE DEF x, y
    <2>2. <<x, y>> \in Seq(Alphabet) /\ Len(<<x, y>>) = 2 /\ <<x, y>>[1] = x /\ <<x, y>>[2] = y
      BY <2>1, Couple
    <2>3. QED
      BY <2>2 DEF x, y
  <1>2. MessageLines(b) = r
    BY DEF MessageLines
  <1> HIDE DEF mark
  <1>3. /\ r \in Seq(Alphabet) /\ IsJoint(r, mark, b)
    BY <1>1, JointIs
  <1> HIDE DEF r
  <1>4. 1 \in 1 .. Len(mark) /\ 2 \in 1 .. Len(mark)
    BY <1>1
  <1>5. QED
    BY <1>1, <1>2, <1>3, <1>4 DEF IsJoint

(* A text that is a head and the block of a message, each of which ends a   *)
(* line.                                                                   *)
LEMMA CutIs ==
    ASSUME NEW e \in Seq(Alphabet), NEW b \in Seq(Alphabet), NEW data,
           IsCut(data, e, b), Len(e) >= 1, e[Len(e)] = "LF",
           \A i \in 1 .. Len(e) - 2 : ~Marked(e, i)
    PROVE  /\ data \in Seq(Alphabet) /\ Texts!Markers(data) # {}
           /\ HeadOf(data) = e /\ BlockOf(data) = b
  <1> DEFINE r == MessageLines(b)
             n == Len(e)
  <1>5. /\ r \in Seq(Alphabet) /\ Len(r) = 2 + Len(b) /\ r[1] = "message" /\ r[2] = "LF"
        /\ \A k \in 1 .. Len(b) : r[2 + k] = b[k]
    BY BelowIs
  <1> HIDE DEF r
  <1>3. data \in Seq(Alphabet) /\ IsJoint(data, e, r)
    BY <1>5, JointIs DEF r, IsCut
  <1>4. n \in Nat /\ Len(b) \in Nat /\ n >= 1
    BY LenProperties
  <1>6. /\ Len(data) = n + 2 + Len(b) /\ \A i \in 1 .. n : data[i] = e[i]
        /\ data[n + 1] = "message" /\ data[n + 2] = "LF"
    <2>1. 1 \in 1 .. Len(r) /\ 2 \in 1 .. Len(r)
      BY <1>4, <1>5
    <2>2. QED
      BY <1>3, <1>4, <1>5, <2>1 DEF IsJoint
  <1>7. \A k \in 1 .. Len(b) : data[n + 2 + k] = b[k]
    <2>1. ASSUME NEW k \in 1 .. Len(b) PROVE data[n + 2 + k] = b[k]
      <3> DEFINE i == 2 + k
      <3>1. i \in 1 .. Len(r) /\ n + i = n + 2 + k
        BY <1>4, <1>5
      <3>2. r[i] = b[k]
        BY <1>5
      <3> HIDE DEF i
      <3>3. data[n + i] = r[i]
        BY <1>3, <3>1 DEF IsJoint
      <3>4. QED
        BY <3>1, <3>2, <3>3
    <2>2. QED
      BY <2>1
  <1> DEFINE M == Texts!Markers(data)
  <1>8. M = {i \in 1 .. Len(data) - 2 : Marked(data, i)}
    BY <1>3, MarkersAre
  <1> HIDE DEF M
  <1>9. n \in M
    <2>1. n \in 1 .. Len(data) - 2 /\ n \in 1 .. n
      BY <1>4, <1>6
    <2>2. Marked(data, n)
      BY <1>6, <2>1 DEF Marked
    <2>3. QED
      BY <1>8, <2>1, <2>2
  <1>10. ASSUME NEW i \in M PROVE n <= i
    <2>1. i \in 1 .. Len(data) - 2 /\ Marked(data, i)
      BY <1>8
    <2>2. i \in Nat /\ i >= 1 /\ Len(data) \in Nat
      BY <1>4, <1>6, <2>1
    <2>3. CASE i <= n - 2
      <3>1. i \in 1 .. n - 2 /\ i \in 1 .. n /\ i + 1 \in 1 .. n /\ i + 2 \in 1 .. n
        BY <1>4, <2>2, <2>3
      <3>2. Marked(e, i)
        BY <1>6, <2>1, <3>1 DEF Marked
      <3>3. QED
        BY <3>1, <3>2
    <2>4. CASE i = n - 1
      <3>1. i + 1 = n /\ n \in 1 .. n
        BY <1>4, <2>4
      <3>2. data[i + 1] = "LF"
        BY <1>6, <3>1
      <3>3. data[i + 1] = "message"
        BY <2>1 DEF Marked
      <3>4. QED
        BY <3>2, <3>3
    <2>5. CASE n <= i
      BY <2>5
    <2>6. QED
      BY <1>4, <2>2, <2>3, <2>4, <2>5
  <1>11. Texts!MessageStart(data) = n
    <2>1. \A m \in M : (\A j \in M : m <= j) => m = n
      <3>1. \A m \in M : m \in Nat
        BY <1>8
      <3>2. QED
        BY <1>4, <1>9, <1>10, <3>1
    <2>2. Texts!MessageStart(data) = CHOOSE m \in M : \A j \in M : m <= j
      BY DEF Texts!MessageStart, M
    <2>3. QED
      BY <1>9, <1>10, <2>1, <2>2
  <1>12. Texts!Markers(data) # {}
    BY <1>9 DEF M
  <1>13. HeadOf(data) = e
    <2> DEFINE h == SubSeq(data, 1, n)
    <2>1. HeadOf(data) = h
      BY <1>11, <1>12 DEF HeadOf
    <2>2. \A i \in 1 .. n : data[i] \in Alphabet
      BY <1>6, ElementOfSeq
    <2>a. 1 \in Int /\ n \in Int /\ 1 <= n /\ n - 1 + 1 = n /\ \A i \in 1 .. n : 1 + i - 1 = i
      BY <1>4
    <2>3. h \in Seq(Alphabet) /\ Len(h) = n /\ \A i \in 1 .. n : h[i] = data[i]
      BY <2>2, <2>a, SubSeqProperties
    <2> HIDE DEF h, n
    <2>4. h = e
      BY <1>6, <2>3, SeqEqual DEF n
    <2>5. QED
      BY <2>1, <2>4
  <1>14. BlockOf(data) = b
    <2> DEFINE m == n + 3
               h == SubSeq(data, m, Len(data))
    <2>1. BlockOf(data) = h
      BY <1>11, <1>12 DEF BlockOf
    <2>2. \A i \in m .. Len(data) : data[i] \in Alphabet
      <3>1. \A i \in m .. Len(data) : i \in 1 .. Len(data)
        BY <1>4, <1>6
      <3>2. QED
        BY <1>3, <3>1, ElementOfSeq
    <2>a. m \in Int /\ Len(data) \in Int
      BY <1>4, <1>6
    <2>3. /\ h \in Seq(Alphabet)
          /\ Len(h) = IF m <= Len(data) THEN Len(data) - m + 1 ELSE 0
          /\ \A i \in 1 .. Len(data) - m + 1 : h[i] = data[m + i - 1]
      BY <2>2, <2>a, SubSeqProperties
    <2> HIDE DEF h
    <2>4. Len(h) = Len(b) /\ \A i \in 1 .. Len(b) : h[i] = data[n + 2 + i]
      <3>1. Len(data) - m + 1 = Len(b)
        BY <1>4, <1>6
      <3>2. ASSUME NEW i \in 1 .. Len(b) PROVE h[i] = data[n + 2 + i]
        <4>1. m + i - 1 = n + 2 + i
          BY <1>4
        <4>2. QED
          BY <2>3, <3>1, <4>1
      <3>3. Len(h) = Len(b)
        BY <1>4, <1>6, <2>3
      <3>4. QED
        BY <3>2, <3>3
    <2>5. h = b
      BY <1>7, <2>3, <2>4, SeqEqual
    <2>6. QED
      BY <2>1, <2>5
  <1>15. QED
    BY <1>3, <1>12, <1>13, <1>14

Associates(a, b, c) == (a \o b) \o c = a \o (b \o c)

LEMMA Association ==
    ASSUME NEW T, NEW a \in Seq(T), NEW b \in Seq(T), NEW c \in Seq(T)
    PROVE  Associates(a, b, c)
  BY ConcatAssociative DEF Associates

LEMMA WriteVersionIs ==
    ASSUME NEW v \in Versions, NEW e, e = Texts!Encoded("version v1", Texts!VersionLines(v)),
           e \in Seq(Alphabet)
    PROVE  Texts!WriteVersion(v) = IF v.message = <<>> THEN e ELSE e \o MessageLines(v.message \o <<"LF">>)
  <1> DEFINE a == <<"message", "LF">>
             m == v.message
             b == <<"LF">>
  <1>1. Texts!WriteVersion(v) = e \o (IF m = <<>> THEN <<>> ELSE (a \o m) \o b)
    BY DEF Texts!WriteVersion
  <1>2. a \in Seq(Alphabet) /\ b \in Seq(Alphabet)
    <2> DEFINE x == "message"
               y == "LF"
    <2>1. x \in Alphabet /\ y \in Alphabet
      BY SignsAreTokens DEF Signs
    <2> HIDE DEF x, y
    <2>2. <<x, y>> \in Seq(Alphabet) /\ <<y>> \in Seq(Alphabet)
      BY <2>1, Couple, Singleton
    <2>3. QED
      BY <2>2 DEF x, y
  <1>3. m \in Seq(Alphabet)
    BY VersionIs
  <1>4. MessageLines(m \o b) = a \o (m \o b)
    BY DEF MessageLines
  <1> HIDE DEF a, b, m
  <1>a. Associates(a, m, b)
    BY <1>2, <1>3, Association
  <1>5. (a \o m) \o b = a \o (m \o b)
    BY <1>a DEF Associates
  <1>6. e \o <<>> = e
    BY ConcatEmptySeq
  <1>7. QED
    BY <1>1, <1>4, <1>5, <1>6 DEF m, b

LEMMA NotMarked ==
    ASSUME NEW e \in Seq(Alphabet), \A i \in 1 .. Len(e) - 2 : ~Marked(e, i)
    PROVE  HeadOf(e) = e /\ MessageOf(e) = <<>> /\ Texts!Markers(e) = {}
  <1>1. Texts!Markers(e) = {i \in 1 .. Len(e) - 2 : Marked(e, i)}
    BY MarkersAre
  <1>2. Texts!Markers(e) = {}
    BY <1>1
  <1>3. QED
    BY <1>2 DEF HeadOf, MessageOf

(* A version that was written is read as it was, whatever its message. *)
LEMMA VersionRoundTrip ==
    ASSUME TextConstants, NEW v \in Versions, Texts!ValidVersion(v)
    PROVE  Texts!ReadVersion(Texts!WriteVersion(v)) = v
  <1> DEFINE h == "version v1"
             ls == Texts!VersionLines(v)
             e == Texts!Encoded(h, ls)
             n == Len(v.parents)
             data == Texts!WriteVersion(v)
             m == v.message
             b == m \o <<"LF">>
  <1>1. /\ NeatLines(ls) /\ \A k \in 1 .. Len(ls) : Len(ls[k]) = 2
        /\ AreLinesOf(ls, v) /\ ls \in Seq(Seq(Seq(Alphabet)))
    BY VersionLinesAreNeat, VersionLinesAre
  <1>2. IsHeader(h)
    BY SignsAreBare
  <1>3. m \in Seq(Alphabet) /\ (m # <<>> => Texts!ValidMessage(b))
    BY VersionIs DEF Texts!ValidVersion
  <1> HIDE DEF ls, h
  <1>4. e \in Seq(Alphabet) /\ Len(e) \in Nat /\ Len(e) >= 2 /\ e[Len(e)] = "LF"
    BY <1>1, <1>2, EncodedSplit
  <1>5. \A i \in 1 .. Len(e) - 2 : ~Marked(e, i)
    BY <1>1, <1>2, NoMarker
  <1>6. Texts!LinesOf(e, h) = ls /\ ls # Refused
    BY <1>1, <1>2, LinesOfEncoded, NeatIsNotRefused
  <1>7. SayVersion(ls, v, n)
    BY <1>1, LinesSay
  <1>8. Texts!AreVersionLines(ls, n) /\ Texts!ParentsOf(ls) = n
    BY <1>1, <1>7, VersionLinesAreAccepted
  <1>9. Texts!VersionOf(ls, n, m) = v
    BY <1>1, <1>7, VersionSaid
  <1>10. data = IF m = <<>> THEN e ELSE e \o MessageLines(m \o <<"LF">>)
    BY <1>4, WriteVersionIs DEF h, ls
  <1> HIDE DEF e, data, b
  <1>11. /\ HeadOf(data) = e /\ MessageOf(data) = m
         /\ Texts!Markers(data) # {} => Texts!ValidMessage(BlockOf(data))
    <2>1. CASE m = <<>>
      <3>1. data = e
        BY <1>10, <2>1
      <3>2. HeadOf(e) = e /\ MessageOf(e) = <<>> /\ Texts!Markers(e) = {}
        BY <1>4, <1>5, NotMarked
      <3>3. QED
        BY <2>1, <3>1, <3>2
    <2>2. CASE m # <<>>
      <3>1. IsCut(data, e, b)
        BY <1>10, <2>2 DEF IsCut, b
      <3>2. b = Append(m, "LF") /\ b \in Seq(Alphabet)
        <4>1. Append(m, "LF") = m \o <<"LF">>
          BY <1>3, TabIsClean, AppendIsConcat
        <4>2. Append(m, "LF") \in Seq(Alphabet)
          BY <1>3, TabIsClean, AppendProperties
        <4>3. QED
          BY <4>1, <4>2 DEF b
      <3>3. Texts!Front(b) = m
        BY <1>3, <3>2, TabIsClean, FrontAndLast
      <3>4. Texts!Markers(data) # {} /\ HeadOf(data) = e /\ BlockOf(data) = b
        <4>1. e \in Seq(Alphabet) /\ Len(e) >= 1 /\ e[Len(e)] = "LF"
          BY <1>4
        <4>2. b \in Seq(Alphabet)
          BY <3>2
        <4>3. QED
          BY <1>5, <3>1, <4>1, <4>2, CutIs
      <3>5. QED
        BY <1>3, <2>2, <3>3, <3>4 DEF MessageOf
    <2>3. QED
      BY <2>1, <2>2
  <1>12. /\ ls = Texts!LinesOf(HeadOf(data), h)
         /\ v = Texts!VersionOf(ls, Texts!ParentsOf(ls), MessageOf(data))
    BY <1>6, <1>8, <1>9, <1>11
  <1>13. IsReadAs(data, ls, v)
    BY <1>6, <1>8, <1>11 DEF IsReadAs
  <1>14. Texts!ReadVersion(data) = IF IsReadAs(data, ls, v) THEN v ELSE Refused
    BY <1>12, ReadVersionIs DEF h
  <1>15. QED
    BY <1>13, <1>14 DEF data

LEMMA StartIsMarked ==
    ASSUME NEW data \in Seq(Alphabet), Texts!Markers(data) # {}
    PROVE  /\ Texts!MessageStart(data) \in 1 .. Len(data) - 2
           /\ Marked(data, Texts!MessageStart(data))
  <1> DEFINE M == Texts!Markers(data)
             P(i) == \A j \in M : i <= j
  <1>1. M = {i \in 1 .. Len(data) - 2 : Marked(data, i)} /\ Len(data) \in Nat
    BY MarkersAre, LenProperties
  <1>2. M # {}
    OBVIOUS
  <1>3. Texts!MessageStart(data) = CHOOSE i \in M : P(i)
    BY DEF Texts!MessageStart
  <1> HIDE DEF M
  <1>4. M \in SUBSET Nat
    BY <1>1
  <1>5. \E i \in M : P(i)
    BY <1>2, <1>4, LeastNumber
  <1>6. Texts!MessageStart(data) \in M
    BY <1>3, <1>5
  <1>7. QED
    BY <1>1, <1>6

(* A text that has a marker is cut there. *)
LEMMA CutsApart ==
    ASSUME NEW data \in Seq(Alphabet), Texts!Markers(data) # {}
    PROVE  /\ HeadOf(data) \in Seq(Alphabet) /\ BlockOf(data) \in Seq(Alphabet)
           /\ IsCut(data, HeadOf(data), BlockOf(data))
  <1> DEFINE n == Texts!MessageStart(data)
             m == n + 3
             e == HeadOf(data)
             b == BlockOf(data)
             r == MessageLines(b)
             d == e \o r
  <1>1. n \in 1 .. Len(data) - 2 /\ Marked(data, n)
    BY StartIsMarked
  <1>2. e = SubSeq(data, 1, n) /\ b = SubSeq(data, m, Len(data))
    BY DEF HeadOf, BlockOf
  <1> HIDE DEF n, e, b
  <1>3. /\ Len(data) \in Nat /\ n \in Nat /\ n >= 1 /\ n + 2 <= Len(data)
        /\ \A i \in 1 .. Len(data) : data[i] \in Alphabet
    BY <1>1, LenProperties, ElementOfSeq
  <1>4. e \in Seq(Alphabet) /\ Len(e) = n /\ \A i \in 1 .. n : e[i] = data[i]
    <2>1. 1 \in Int /\ n \in Int /\ 1 <= n /\ n - 1 + 1 = n /\ \A i \in 1 .. n : 1 + i - 1 = i
      BY <1>3
    <2>2. \A i \in 1 .. n : data[i] \in Alphabet
      BY <1>3
    <2>3. QED
      BY <1>2, <2>1, <2>2, SubSeqProperties
  <1>5. b \in Seq(Alphabet) /\ Len(b) = Len(data) - n - 2
    <2>1. m \in Int /\ Len(data) \in Int /\ \A i \in m .. Len(data) : i \in 1 .. Len(data)
      BY <1>3
    <2>2. \A i \in m .. Len(data) : data[i] \in Alphabet
      BY <1>3, <2>1
    <2>3. b \in Seq(Alphabet) /\ Len(b) = IF m <= Len(data) THEN Len(data) - m + 1 ELSE 0
      BY <1>2, <2>1, <2>2, SubSeqProperties
    <2>4. QED
      BY <1>3, <2>3
  <1>6. \A k \in 1 .. Len(b) : b[k] = data[n + 2 + k]
    <2>1. m \in Int /\ Len(data) \in Int /\ \A i \in m .. Len(data) : i \in 1 .. Len(data)
      BY <1>3
    <2>2. \A i \in m .. Len(data) : data[i] \in Alphabet
      BY <1>3, <2>1
    <2>3. \A i \in 1 .. Len(data) - m + 1 : b[i] = data[m + i - 1]
      BY <1>2, <2>1, <2>2, SubSeqProperties
    <2>4. \A k \in 1 .. Len(b) : k \in 1 .. Len(data) - m + 1 /\ m + k - 1 = n + 2 + k
      BY <1>3, <1>5
    <2>5. QED
      BY <2>3, <2>4
  <1>7. /\ r \in Seq(Alphabet) /\ Len(r) = 2 + Len(b) /\ r[1] = "message" /\ r[2] = "LF"
        /\ \A k \in 1 .. Len(b) : r[2 + k] = b[k]
    BY <1>5, BelowIs
  <1> HIDE DEF r
  <1>8. d \in Seq(Alphabet) /\ IsJoint(d, e, r)
    BY <1>4, <1>7, JointIs
  <1> HIDE DEF d
  <1>9. Len(d) = Len(data)
    BY <1>3, <1>4, <1>5, <1>7, <1>8 DEF IsJoint
  <1>10. ASSUME NEW i \in 1 .. Len(data) PROVE d[i] = data[i]
    <2>1. CASE i <= n
      <3>1. i \in 1 .. n
        BY <1>3, <2>1
      <3>2. QED
        BY <1>4, <1>8, <3>1 DEF IsJoint
    <2>2. CASE i > n
      <3> DEFINE j == i - n
      <3>1. j \in 1 .. Len(r) /\ i = n + j
        BY <1>3, <1>5, <1>7, <2>2
      <3> HIDE DEF j
      <3>2. d[i] = r[j]
        BY <1>4, <1>8, <3>1 DEF IsJoint
      <3>3. data[n + 1] = "message" /\ data[n + 2] = "LF"
        BY <1>1 DEF Marked
      <3>4. CASE j = 1 \/ j = 2
        BY <1>7, <3>1, <3>2, <3>3, <3>4
      <3>5. CASE j > 2
        <4> DEFINE k == j - 2
        <4>1. k \in 1 .. Len(b) /\ j = 2 + k /\ i = n + 2 + k
          BY <1>3, <1>5, <1>7, <3>1, <3>5
        <4> HIDE DEF k
        <4>2. QED
          BY <1>6, <1>7, <3>2, <4>1
      <3>6. QED
        BY <3>1, <3>4, <3>5
    <2>3. QED
      BY <1>3, <2>1, <2>2
  <1>11. d = data
    BY <1>8, <1>9, <1>10, SeqEqual
  <1>12. QED
    BY <1>4, <1>5, <1>11 DEF IsCut, e, b, r, d

(* w is somewhere in t. *)
Contains(t, w) == \E j \in 0 .. Len(t) - Len(w) : \A i \in 1 .. Len(w) : t[j + i] = w[i]

LEMMA ContainedLeft ==
    ASSUME NEW T, NEW t \in Seq(T), NEW r \in Seq(T), NEW w \in Seq(T), Contains(t, w),
           NEW d, d = t \o r
    PROVE  Contains(d, w)
  <1>1. IsJoint(d, t, r) /\ Len(t) \in Nat /\ Len(r) \in Nat /\ Len(w) \in Nat
    BY JointIs, LenProperties
  <1>2. PICK j \in 0 .. Len(t) - Len(w) : \A i \in 1 .. Len(w) : t[j + i] = w[i]
    BY DEF Contains
  <1>3. j \in 0 .. Len(d) - Len(w) /\ \A i \in 1 .. Len(w) : j + i \in 1 .. Len(t)
    BY <1>1 DEF IsJoint
  <1>4. \A i \in 1 .. Len(w) : d[j + i] = w[i]
    BY <1>1, <1>2, <1>3 DEF IsJoint
  <1>5. QED
    BY <1>3, <1>4 DEF Contains

LEMMA ContainedRight ==
    ASSUME NEW T, NEW t \in Seq(T), NEW w \in Seq(T), NEW x \in T, NEW d, d = t \o Append(w, x)
    PROVE  Contains(d, w)
  <1> DEFINE r == Append(w, x)
             j == Len(t)
  <1>1. /\ r \in Seq(T) /\ Len(r) = Len(w) + 1 /\ Len(w) \in Nat /\ j \in Nat
        /\ \A i \in 1 .. Len(w) : r[i] = w[i]
    BY AppendProperties, LenProperties
  <1> HIDE DEF r
  <1>2. IsJoint(d, t, r)
    BY <1>1, JointIs DEF r
  <1>3. j \in 0 .. Len(d) - Len(w) /\ \A i \in 1 .. Len(w) : i \in 1 .. Len(r)
    BY <1>1, <1>2 DEF IsJoint
  <1>4. \A i \in 1 .. Len(w) : d[j + i] = w[i]
    BY <1>1, <1>2, <1>3 DEF IsJoint
  <1> HIDE DEF j
  <1>5. QED
    BY <1>3, <1>4 DEF Contains

(* Each part is somewhere in what they are joined to. *)
LEMMA EndedContains ==
    ASSUME NEW T, NEW p \in Seq(Seq(T)), NEW mark \in T
    PROVE  \A k \in 1 .. Len(p) : Contains(Texts!Ended(p, mark), p[k])
  <1> DEFINE U == Seq(T)
             S == {q \in Seq(U) : \A k \in 1 .. Len(q) : Contains(Texts!Ended(q, mark), q[k])}
  <1>1. <<>> \in S
    <2>1. <<>> \in Seq(U) /\ Len(<<>>) = 0
      OBVIOUS
    <2>2. QED
      BY <2>1
  <1>2. ASSUME NEW q \in S, NEW x \in U PROVE Append(q, x) \in S
    <2> DEFINE q2 == Append(q, x)
               t == Texts!Ended(q, mark)
               r == Append(x, mark)
               d == Texts!Ended(q2, mark)
    <2>1. q \in Seq(U) /\ \A k \in 1 .. Len(q) : Contains(t, q[k])
      OBVIOUS
    <2>2. d = t \o r
      BY <2>1, EndedGrows
    <2>3. t \in Seq(T) /\ r \in Seq(T)
      BY <2>1, EndedIs, AppendProperties
    <2>4. /\ q2 \in Seq(U) /\ Len(q2) = Len(q) + 1 /\ q2[Len(q) + 1] = x /\ Len(q) \in Nat
          /\ \A k \in 1 .. Len(q) : q2[k] = q[k]
      BY <2>1, AppendProperties, LenProperties
    <2>5. \A k \in 1 .. Len(q) : q[k] \in Seq(T)
      BY <2>1, ElementOfSeq
    <2> HIDE DEF q2, t, d
    <2>6. Contains(d, x)
      BY <2>2, <2>3, ContainedRight
    <2> HIDE DEF r
    <2>7. \A k \in 1 .. Len(q) : Contains(d, q[k])
      BY <2>1, <2>2, <2>3, <2>5, ContainedLeft
    <2>8. \A k \in 1 .. Len(q2) : Contains(d, q2[k])
      <3>1. ASSUME NEW k \in 1 .. Len(q2) PROVE Contains(d, q2[k])
        <4>1. k \in 1 .. Len(q) \/ k = Len(q) + 1
          BY <2>4
        <4>2. QED
          BY <2>4, <2>6, <2>7, <4>1
      <3>2. QED
        BY <3>1
    <2>9. QED
      BY <2>4, <2>8 DEF q2, d
  <1>3. S \in SUBSET Seq(U)
    OBVIOUS
  <1> HIDE DEF S, U
  <1>4. S = Seq(U)
    BY <1>1, <1>2, <1>3, EverySequence
  <1>5. p \in S
    BY <1>4 DEF U
  <1>6. QED
    BY <1>5 DEF S

LEMMA KeyedLineIs ==
    ASSUME NEW key \in Alphabet, NEW word \in Alphabet,
           NEW w, w = Texts!Line(Texts!Keyed(key, word))
    PROVE  /\ w \in Seq(Alphabet) /\ Len(w) = 3
           /\ w[1] = key /\ w[2] = "TAB" /\ w[3] = word
  <1> DEFINE mark == "TAB"
             x == <<word>>
             p == <<<<key>>>>
             q == Texts!Keyed(key, word)
             T == Seq(Alphabet)
             a == <<key, mark>>
             s == a \o x
  <1>1. mark \in Alphabet
    BY TabIsClean
  <1>2. w = Texts!Front(Texts!Ended(q, mark))
    BY DEF Texts!Line
  <1> HIDE DEF mark
  <1>3. p \in Seq(T) /\ x \in T /\ Len(x) = 1 /\ x[1] = word
    BY NestedSingleton, Singleton
  <1>4. Texts!Ended(p, mark) = a
    BY <1>1, EndedOne
  <1>5. a \in T /\ Len(a) = 2 /\ a[1] = key /\ a[2] = mark
    BY <1>1, Couple
  <1>6. q = Append(p, x)
    <2> DEFINE f == <<key>>
    <2>1. f \in T /\ x \in T
      BY Singleton
    <2>2. q = <<f, x>> /\ p = <<f>>
      BY DEF Texts!Keyed
    <2> HIDE DEF f, x, T
    <2>3. Append(<<f>>, x) = <<f, x>>
      BY <2>1, Pair
    <2> HIDE DEF q, p
    <2>4. QED
      BY <2>2, <2>3
  <1> HIDE DEF q, p, x, a
  <1>7. Extends(q, p, x)
    BY <1>6 DEF Extends
  <1>8. Texts!Ended(q, mark) = Append(Texts!Ended(p, mark) \o x, mark)
    BY <1>1, <1>3, <1>7, EndedMore
  <1>9. s \in T /\ IsJoint(s, a, x)
    BY <1>3, <1>5, JointIs
  <1>10. Texts!Ended(q, mark) = Append(s, mark)
    BY <1>4, <1>8
  <1> HIDE DEF s
  <1>11. w = s
    BY <1>1, <1>2, <1>9, <1>10, FrontAndLast
  <1>12. 1 \in 1 .. Len(a) /\ 2 \in 1 .. Len(a) /\ 1 \in 1 .. Len(x) /\ Len(a) + 1 = 3
    BY <1>3, <1>5
  <1>13. s[1] = key /\ s[2] = mark /\ s[3] = word /\ Len(s) = 3
    <2>1. s[1] = a[1] /\ s[2] = a[2] /\ s[Len(a) + 1] = x[1] /\ Len(s) = Len(a) + Len(x)
      BY <1>9, <1>12 DEF IsJoint
    <2>2. QED
      BY <1>3, <1>5, <2>1
  <1>14. QED
    BY <1>9, <1>11, <1>13 DEF mark

LEMMA SubSeqOfThree ==
    ASSUME NEW T, NEW t \in Seq(T), NEW w \in Seq(T), Len(w) = 3, Contains(t, w)
    PROVE  \E i \in 1 .. Len(t) - 2 : SubSeq(t, i, i + 2) = w
  <1>1. Len(t) \in Nat /\ \A i \in 1 .. Len(t) : t[i] \in T
    BY LenProperties, ElementOfSeq
  <1>2. PICK j \in 0 .. Len(t) - 3 : \A i \in 1 .. 3 : t[j + i] = w[i]
    BY DEF Contains
  <1> DEFINE m == j + 1
             s == SubSeq(t, m, m + 2)
  <1>3. m \in Int /\ m + 2 \in Int /\ m <= m + 2 /\ m + 2 - m + 1 = 3
        /\ \A i \in m .. m + 2 : i \in 1 .. Len(t)
    BY <1>1
  <1>4. \A i \in m .. m + 2 : t[i] \in T
    BY <1>1, <1>3
  <1>5. s \in Seq(T) /\ Len(s) = 3 /\ \A i \in 1 .. 3 : s[i] = t[m + i - 1]
    BY <1>3, <1>4, SubSeqProperties
  <1> HIDE DEF s
  <1>6. \A i \in 1 .. 3 : s[i] = w[i]
    <2>1. \A i \in 1 .. 3 : m + i - 1 = j + i
      OBVIOUS
    <2>2. QED
      BY <1>2, <1>5, <2>1
  <1>7. s = w
    BY <1>5, <1>6, SeqEqual
  <1>8. m \in 1 .. Len(t) - 2
    BY <1>1
  <1>9. QED
    BY <1>7, <1>8 DEF s

(* A text that spells out an optional field that says zero. *)
SpellsOut(data) ==
    \E i \in 1 .. Len(data) - 2 :
        SubSeq(data, i, i + 2) \in {<<"expiry", "TAB", "t0">>, <<"graph", "TAB", "id0">>}

SaysZero(key, word) == (key = "expiry" /\ word = "t0") \/ (key = "graph" /\ word = "id0")

LEMMA ZeroIsSpelled ==
    ASSUME TextConstants, NEW data \in Seq(Alphabet), NEW key, NEW word,
           SaysZero(key, word),
           Contains(data, Texts!Line(Texts!Keyed(key, word)))
    PROVE  SpellsOut(data)
  <1> DEFINE w == Texts!Line(Texts!Keyed(key, word))
             u == <<key, "TAB", word>>
  <1>1. (key = "expiry" /\ word = "t0") \/ (key = "graph" /\ word = "id0")
    BY DEF SaysZero
  <1>2. key \in Alphabet /\ word \in Alphabet
    <2>1. "expiry" \in Alphabet /\ "graph" \in Alphabet
      BY SignsAreTokens DEF Signs
    <2>2. "t0" \in Alphabet /\ "id0" \in Alphabet
      BY DEF TextConstants, Alphabet
    <2>3. QED
      BY <1>1, <2>1, <2>2
  <1>3. w \in Seq(Alphabet) /\ Len(w) = 3 /\ w[1] = key /\ w[2] = "TAB" /\ w[3] = word
    BY <1>2, KeyedLineIs
  <1>4. Contains(data, w)
    OBVIOUS
  <1> HIDE DEF w
  <1>5. w = u
    <2>1. w = <<w[1], w[2], w[3]>>
      BY <1>3, ThreeIs
    <2>2. QED
      BY <1>3, <2>1
  <1>6. PICK i \in 1 .. Len(data) - 2 : SubSeq(data, i, i + 2) = w
    BY <1>3, <1>4, SubSeqOfThree
  <1>7. u \in {<<"expiry", "TAB", "t0">>, <<"graph", "TAB", "id0">>}
    BY <1>1
  <1> HIDE DEF u
  <1>8. QED
    BY <1>5, <1>6, <1>7 DEF SpellsOut

LEMMA OneFurther ==
    ASSUME NEW b \in Nat, NEW a, a = b - 1, NEW k \in 1 .. a
    PROVE  k + 1 \in 1 .. b
  OBVIOUS

(* The first text of a version, up to its message. *)
LEMMA HeadSpells ==
    ASSUME TextConstants, NEW e \in Seq(Alphabet), NEW ls,
           ls = Texts!LinesOf(e, "version v1"), ls # Refused,
           NEW key, NEW word, SaysZero(key, word),
           NEW k \in 1 .. Len(ls), ls[k] = Texts!Keyed(key, word)
    PROVE  Contains(e, Texts!Line(Texts!Keyed(key, word)))
  <1> DEFINE p == Texts!Split(Texts!Front(e), "LF")
             h == "version v1"
  <1>1. h \in Alphabet
    BY SignsAreTokens DEF Signs
  <1>2. ls = Fielded(p) /\ GoodHead(e, h, p)
    BY <1>1, EncodedLines
  <1>3. e # <<>> /\ Texts!Last(e) = "LF"
    BY <1>2 DEF GoodHead
  <1>4. /\ Texts!Front(e) \in Seq(Alphabet) /\ e = Append(Texts!Front(e), Texts!Last(e))
    BY <1>3, FrontIs
  <1>5. p \in Parts(Alphabet)
    BY <1>4, SplitIsParts
  <1>6. Texts!Ended(p, "LF") = e
    BY <1>3, <1>4, TabIsClean, EndedSplit
  <1> HIDE DEF p, h
  <1>7. /\ Len(ls) = Len(p) - 1 /\ \A j \in 1 .. Len(ls) : ls[j] = Texts!Split(p[j + 1], "TAB")
    BY <1>2, <1>5, FieldedIs
  <1>8. p \in Seq(Seq(Alphabet)) /\ Len(p) \in Nat
    <2>1. p \in Seq(Seq(Alphabet))
      BY <1>5 DEF Parts
    <2>2. QED
      BY <2>1, LenProperties
  <1>9. k + 1 \in 1 .. Len(p)
    <2> DEFINE a == Len(ls)
               b == Len(p)
    <2>1. a = b - 1 /\ b \in Nat /\ k \in 1 .. a
      BY <1>7, <1>8
    <2> HIDE DEF a, b
    <2>2. k + 1 \in 1 .. b
      BY <2>1, OneFurther
    <2>3. QED
      BY <2>2 DEF b
  <1>10. p[k + 1] \in Seq(Alphabet)
    BY <1>8, <1>9, ElementOfSeq
  <1>11. Texts!Line(ls[k]) = p[k + 1]
    BY <1>7, <1>10, LineOfSplit
  <1>12. Contains(Texts!Ended(p, "LF"), p[k + 1])
    BY <1>8, <1>9, TabIsClean, EndedContains
  <1>13. QED
    BY <1>6, <1>11, <1>12

LEMMA ParentsAre ==
    ASSUME NEW T, NEW ls \in Seq(T), NEW n, n = Texts!ParentsOf(ls)
    PROVE  /\ n \in 0 .. Len(ls)
           /\ \A k \in 2 .. n + 1 : Texts!HasKey(ls, k, "parent")
  <1> DEFINE S == {m \in 0 .. Len(ls) : ~Texts!HasKey(ls, m + 2, "parent")}
  <1>1. Len(ls) \in Nat /\ DOMAIN ls = 1 .. Len(ls)
    BY LenProperties
  <1>2. Len(ls) \in S
    <2>1. Len(ls) + 2 \notin DOMAIN ls
      BY <1>1
    <2>2. ~Texts!HasKey(ls, Len(ls) + 2, "parent")
      BY <2>1 DEF Texts!HasKey
    <2>3. QED
      BY <1>1, <2>2
  <1>3. S \in SUBSET Nat /\ S # {}
    BY <1>1, <1>2
  <1>4. PICK m \in S : \A k \in S : m <= k
    BY <1>3, LeastNumber
  <1>5. m \in 0 .. Len(ls) /\ ~Texts!HasKey(ls, m + 2, "parent")
    BY <1>4
  <1>6. ASSUME NEW k \in 2 .. m + 1 PROVE Texts!HasKey(ls, k, "parent")
    <2> DEFINE j == k - 2
    <2>1. j \in 0 .. Len(ls) /\ ~(m <= j) /\ j + 2 = k
      BY <1>1, <1>5
    <2> HIDE DEF j
    <2>2. j \notin S
      BY <1>4, <2>1
    <2>3. QED
      BY <2>1, <2>2
  <1>7. Texts!AreParents(ls, m)
    BY <1>5, <1>6 DEF Texts!AreParents
  <1>8. n \in 0 .. Len(ls) /\ Texts!AreParents(ls, n)
    BY <1>5, <1>7 DEF Texts!ParentsOf
  <1>9. QED
    BY <1>8 DEF Texts!AreParents

(* A line with a key and a word, and what the word is. *)
LEMMA KeyedBy ==
    ASSUME TextConstants, NEW ls \in Seq(Seq(Seq(Alphabet))), NEW k, NEW key,
           Texts!HasKey(ls, k, key), Len(ls[k]) = 2, NEW A \in SUBSET Words,
           Texts!Word(ls[k][2], A)
    PROVE  /\ ls[k] = Texts!Keyed(key, ls[k][2][1]) /\ ls[k][2][1] \in A
           /\ Texts!Value(ls[k][2][1]) = ls[k][2][1]
  <1> DEFINE l == ls[k]
  <1>1. k \in 1 .. Len(ls) /\ l[1] = <<key>>
    BY LenProperties DEF Texts!HasKey
  <1>2. l \in Seq(Seq(Alphabet)) /\ Len(l) = 2 /\ Texts!Word(l[2], A)
    BY <1>1, ElementOfSeq
  <1>3. Texts!Word(l[1], {key})
    <2>1. Len(<<key>>) = 1 /\ <<key>>[1] = key
      OBVIOUS
    <2>2. QED
      BY <1>1, <2>1 DEF Texts!Word
  <1> HIDE DEF l
  <1>4. /\ l[1][1] \in {key} /\ l[2][1] \in A /\ Texts!Value(l[2][1]) = l[2][1]
        /\ l = Texts!Keyed(l[1][1], l[2][1])
    BY <1>2, <1>3, LineOfWords
  <1>5. l[1][1] = key
    BY <1>4
  <1>6. QED
    BY <1>4, <1>5 DEF l

(* No line spells out an optional field that says zero. *)
NoneIsZero(ls) ==
    \A k \in 1 .. Len(ls) :
        ls[k] # Texts!Keyed("expiry", "t0") /\ ls[k] # Texts!Keyed("graph", "id0")

LEMMA NamedLines ==
    ASSUME TextConstants, NEW ls \in Seq(Seq(Seq(Alphabet))), NEW n, n = Texts!ParentsOf(ls),
           Texts!AreVersionLines(ls, n)
    PROVE  /\ n \in Nat /\ ls[1] = Texts!Keyed("manifest", ls[1][2][1]) /\ ls[1][2][1] \in Ids
           /\ \A k \in 1 .. n : /\ ls[k + 1] = Texts!Keyed("parent", ls[k + 1][2][1])
                                /\ ls[k + 1][2][1] \in Ids
           /\ ls[n + 3] = Texts!Keyed("time", ls[n + 3][2][1]) /\ ls[n + 3][2][1] \in Times
           /\ Texts!Value(ls[n + 3][2][1]) = ls[n + 3][2][1]
           /\ ls[n + 2] = <<<<"author">>, ls[n + 2][2]>> /\ ls[n + 2][2] \in Seq(Alphabet)
  <1>1. n \in 0 .. Len(ls) /\ \A k \in 2 .. n + 1 : Texts!HasKey(ls, k, "parent")
    BY ParentsAre
  <1>2. /\ \A k \in 1 .. Len(ls) : Len(ls[k]) = 2
        /\ Texts!HasKey(ls, 1, "manifest")
        /\ Texts!HasKey(ls, n + 2, "author")
        /\ Texts!HasKey(ls, n + 3, "time")
        /\ \A k \in 1 .. n + 1 : Texts!Word(ls[k][2], Ids)
        /\ Texts!ReadsTime(ls[n + 3][2])
    BY LenProperties DEF Texts!AreVersionLines
  <1>3. n \in Nat /\ Len(ls) \in Nat /\ DOMAIN ls = 1 .. Len(ls)
    BY <1>1, LenProperties
  <1>4. \A k, key : Texts!HasKey(ls, k, key) => k \in 1 .. Len(ls) /\ ls[k][1] = <<key>>
    BY <1>3 DEF Texts!HasKey
  <1>5. Ids \in SUBSET Words /\ Times \in SUBSET Words
    BY WordKinds
  <1>6. ls[1] = Texts!Keyed("manifest", ls[1][2][1]) /\ ls[1][2][1] \in Ids
    <2>1. Len(ls[1]) = 2 /\ Texts!Word(ls[1][2], Ids)
      BY <1>2, <1>3, <1>4
    <2>2. QED
      BY <1>2, <1>5, <2>1, KeyedBy
  <1>7. ASSUME NEW k \in 1 .. n
        PROVE  /\ ls[k + 1] = Texts!Keyed("parent", ls[k + 1][2][1])
               /\ ls[k + 1][2][1] \in Ids
    <2> DEFINE i == k + 1
    <2>1. i \in 2 .. n + 1 /\ i \in 1 .. n + 1
      BY <1>3
    <2> HIDE DEF i
    <2>2. Texts!HasKey(ls, i, "parent") /\ Texts!Word(ls[i][2], Ids)
      BY <1>1, <1>2, <2>1
    <2>3. Len(ls[i]) = 2
      BY <1>2, <1>4, <2>2
    <2>4. ls[i] = Texts!Keyed("parent", ls[i][2][1]) /\ ls[i][2][1] \in Ids
      BY <1>5, <2>2, <2>3, KeyedBy
    <2>5. QED
      BY <2>4 DEF i
  <1>8. /\ ls[n + 3] = Texts!Keyed("time", ls[n + 3][2][1]) /\ ls[n + 3][2][1] \in Times
        /\ Texts!Value(ls[n + 3][2][1]) = ls[n + 3][2][1]
    <2>1. Len(ls[n + 3]) = 2 /\ Texts!Word(ls[n + 3][2], Times)
      BY <1>2, <1>4 DEF Texts!ReadsTime
    <2>2. QED
      BY <1>2, <1>5, <2>1, KeyedBy
  <1>9. ls[n + 2] = <<<<"author">>, ls[n + 2][2]>> /\ ls[n + 2][2] \in Seq(Alphabet)
    <2> DEFINE l == ls[n + 2]
    <2>1. n + 2 \in 1 .. Len(ls) /\ l[1] = <<"author">> /\ Len(l) = 2
      BY <1>2, <1>4
    <2>2. l \in Seq(Seq(Alphabet))
      BY <2>1, ElementOfSeq
    <2> HIDE DEF l
    <2>3. l = <<l[1], l[2]>>
      BY <2>1, <2>2, TwoIs
    <2>4. l[2] \in Seq(Alphabet)
      <3>1. 2 \in 1 .. Len(l)
        BY <2>1
      <3>2. QED
        BY <2>2, <3>1, ElementOfSeq
    <2>5. QED
      BY <2>1, <2>3, <2>4 DEF l
  <1>10. QED
    BY <1>3, <1>6, <1>7, <1>8, <1>9

(* What is read is made of. *)
Fields(v, ls, n, m) ==
    /\ v.type = "version" /\ v.message = m
    /\ v.manifest = ls[1][2][1] /\ v.parents = [k \in 1 .. n |-> ls[k + 1][2][1]]
    /\ v.author = ls[n + 2][2] /\ v.time = Texts!Value(ls[n + 3][2][1])
    /\ v.expiry = IF Texts!HasKey(ls, n + 4, "expiry")
                  THEN Texts!Value(ls[n + 4][2][1]) ELSE "t0"
    /\ v.graph = IF Texts!HasKey(ls, Texts!GraphAt(ls, n), "graph")
                 THEN ls[Texts!GraphAt(ls, n)][2][1] ELSE "id0"
    /\ v = [type |-> v.type, manifest |-> v.manifest, parents |-> v.parents,
            author |-> v.author, time |-> v.time, expiry |-> v.expiry,
            graph |-> v.graph, message |-> v.message]

LEMMA FieldsAre == \A ls, n, m : Fields(Texts!VersionOf(ls, n, m), ls, n, m)
  BY DEF Texts!VersionOf, Fields

LEMMA OptionalLines ==
    ASSUME TextConstants, NEW ls \in Seq(Seq(Seq(Alphabet))), NEW n, n = Texts!ParentsOf(ls),
           Texts!AreVersionLines(ls, n), NoneIsZero(ls),
           NEW m, NEW v, v = Texts!VersionOf(ls, n, m)
    PROVE  /\ v.expiry \in Times /\ v.graph \in Ids
           /\ OfExpiry(v) = 1 => ls[n + 4] = Texts!Keyed("expiry", v.expiry)
           /\ OfGraph(v) = 1 => ls[n + 4 + OfExpiry(v)] = Texts!Keyed("graph", v.graph)
           /\ Len(ls) = n + 3 + OfExpiry(v) + OfGraph(v)
  <1> DEFINE g == Texts!GraphAt(ls, n)
             has == Texts!HasKey(ls, n + 4, "expiry")
             hasGraph == Texts!HasKey(ls, g, "graph")
             x == ls[n + 4][2][1]
             y == ls[g][2][1]
  <1>0. Fields(v, ls, n, m)
    BY FieldsAre
  <1>1. v.expiry = (IF has THEN Texts!Value(x) ELSE "t0") /\ v.graph = (IF hasGraph THEN y ELSE "id0")
    BY <1>0 DEF Fields
  <1>2. /\ \A k \in 1 .. Len(ls) : Len(ls[k]) = 2
        /\ has => Texts!ReadsTime(ls[n + 4][2])
        /\ hasGraph => Texts!Word(ls[g][2], Ids)
        /\ Len(ls) = Texts!EndAt(ls, n)
    BY LenProperties DEF Texts!AreVersionLines
  <1>3. n \in Nat /\ Len(ls) \in Nat /\ DOMAIN ls = 1 .. Len(ls)
    BY ParentsAre, LenProperties
  <1>4. g = (IF has THEN n + 5 ELSE n + 4) /\ Len(ls) = IF hasGraph THEN g ELSE g - 1
    BY <1>2 DEF Texts!GraphAt, Texts!EndAt
  <1>5. Ids \in SUBSET Words /\ Times \in SUBSET Words /\ "id0" \in Ids /\ "t0" \in Times
    BY WordKinds DEF TextConstants
  <1>6. ASSUME has
        PROVE  /\ ls[n + 4] = Texts!Keyed("expiry", x) /\ x \in Times /\ Texts!Value(x) = x
               /\ x # "t0"
    <2> DEFINE k == n + 4
    <2>1. k \in 1 .. Len(ls) /\ Texts!HasKey(ls, k, "expiry")
      BY <1>3, <1>6 DEF Texts!HasKey
    <2>2. Len(ls[k]) = 2 /\ Texts!Word(ls[k][2], Times)
      BY <1>2, <1>6, <2>1 DEF Texts!ReadsTime
    <2> HIDE DEF k
    <2>3. /\ ls[k] = Texts!Keyed("expiry", ls[k][2][1]) /\ ls[k][2][1] \in Times
          /\ Texts!Value(ls[k][2][1]) = ls[k][2][1]
      BY <1>5, <2>1, <2>2, KeyedBy
    <2>4. ls[k] # Texts!Keyed("expiry", "t0")
      BY <2>1 DEF NoneIsZero
    <2>5. ls[k][2][1] # "t0"
      BY <2>3, <2>4
    <2>6. QED
      BY <2>3, <2>5 DEF k
  <1>7. ASSUME hasGraph PROVE ls[g] = Texts!Keyed("graph", y) /\ y \in Ids /\ y # "id0"
    <2>1. g \in 1 .. Len(ls)
      BY <1>3, <1>7 DEF Texts!HasKey
    <2> HIDE DEF g
    <2>2. Len(ls[g]) = 2 /\ Texts!Word(ls[g][2], Ids) /\ Texts!HasKey(ls, g, "graph")
      BY <1>2, <1>7, <2>1
    <2>3. ls[g] = Texts!Keyed("graph", ls[g][2][1]) /\ ls[g][2][1] \in Ids
      BY <1>5, <2>2, KeyedBy
    <2>4. ls[g] # Texts!Keyed("graph", "id0")
      BY <2>1 DEF NoneIsZero
    <2>5. y # "id0"
      BY <2>3, <2>4
    <2>6. QED
      BY <2>3, <2>5
  <1> HIDE DEF g, has, hasGraph, x, y
  <1>8. v.expiry \in Times /\ OfExpiry(v) = IF has THEN 1 ELSE 0
    <2>1. CASE has
      BY <1>1, <1>6, <2>1 DEF OfExpiry
    <2>2. CASE ~has
      BY <1>1, <1>5, <2>2 DEF OfExpiry
    <2>3. QED
      BY <2>1, <2>2
  <1>9. v.graph \in Ids /\ OfGraph(v) = IF hasGraph THEN 1 ELSE 0
    <2>1. CASE hasGraph
      BY <1>1, <1>7, <2>1 DEF OfGraph
    <2>2. CASE ~hasGraph
      BY <1>1, <1>5, <2>2 DEF OfGraph
    <2>3. QED
      BY <2>1, <2>2
  <1>10. g = n + 4 + OfExpiry(v)
    BY <1>3, <1>4, <1>8
  <1>11. Len(ls) = n + 3 + OfExpiry(v) + OfGraph(v)
    BY <1>3, <1>4, <1>8, <1>9, <1>10
  <1>12. OfExpiry(v) = 1 => ls[n + 4] = Texts!Keyed("expiry", v.expiry)
    BY <1>1, <1>6, <1>8
  <1>13. OfGraph(v) = 1 => ls[n + 4 + OfExpiry(v)] = Texts!Keyed("graph", v.graph)
    BY <1>1, <1>7, <1>9, <1>10
  <1>14. QED
    BY <1>8, <1>9, <1>11, <1>12, <1>13

(* Lines that are accepted are those of what they are read as. *)
LEMMA LinesOfVersion ==
    ASSUME TextConstants, NEW ls \in Seq(Seq(Seq(Alphabet))), NEW n, n = Texts!ParentsOf(ls),
           Texts!AreVersionLines(ls, n), NoneIsZero(ls),
           NEW m \in Seq(Alphabet), NEW v, v = Texts!VersionOf(ls, n, m)
    PROVE  v \in Versions /\ v.message = m /\ Texts!VersionLines(v) = ls
  <1>0. Fields(v, ls, n, m)
    BY FieldsAre
  <1>1. /\ v.type = "version" /\ v.message = m
        /\ v.manifest = ls[1][2][1] /\ v.parents = [k \in 1 .. n |-> ls[k + 1][2][1]]
        /\ v.author = ls[n + 2][2] /\ v.time = Texts!Value(ls[n + 3][2][1])
    BY <1>0 DEF Fields
  <1>2. v = [type |-> v.type, manifest |-> v.manifest, parents |-> v.parents,
             author |-> v.author, time |-> v.time, expiry |-> v.expiry,
             graph |-> v.graph, message |-> v.message]
    BY <1>0 DEF Fields
  <1>3. /\ n \in Nat /\ ls[1] = Texts!Keyed("manifest", ls[1][2][1]) /\ ls[1][2][1] \in Ids
        /\ \A k \in 1 .. n : /\ ls[k + 1] = Texts!Keyed("parent", ls[k + 1][2][1])
                             /\ ls[k + 1][2][1] \in Ids
        /\ ls[n + 3] = Texts!Keyed("time", ls[n + 3][2][1]) /\ ls[n + 3][2][1] \in Times
        /\ Texts!Value(ls[n + 3][2][1]) = ls[n + 3][2][1]
        /\ ls[n + 2] = <<<<"author">>, ls[n + 2][2]>> /\ ls[n + 2][2] \in Seq(Alphabet)
    BY NamedLines
  <1>4. /\ v.expiry \in Times /\ v.graph \in Ids
        /\ OfExpiry(v) = 1 => ls[n + 4] = Texts!Keyed("expiry", v.expiry)
        /\ OfGraph(v) = 1 => ls[n + 4 + OfExpiry(v)] = Texts!Keyed("graph", v.graph)
        /\ Len(ls) = n + 3 + OfExpiry(v) + OfGraph(v)
    BY OptionalLines
  <1>5. v.parents \in Seq(Ids) /\ Len(v.parents) = n
    <2> DEFINE f(k) == ls[k + 1][2][1]
    <2>1. \A k \in 1 .. n : f(k) \in Ids
      BY <1>3
    <2>2. v.parents = [k \in 1 .. n |-> f(k)]
      BY <1>1
    <2>3. n \in Nat
      BY <1>3
    <2> HIDE DEF f
    <2>4. QED
      BY <2>1, <2>2, <2>3
  <1>6. \A k \in 1 .. n : v.parents[k] = ls[k + 1][2][1]
    BY <1>1
  <1>7. v \in Versions
    <2>1. /\ v.manifest \in Ids /\ v.author \in Seq(Alphabet) /\ v.time \in Times
          /\ v.message \in Seq(Alphabet) /\ v.type \in {"version"}
      BY <1>1, <1>3
    <2>2. QED
      BY <1>2, <1>4, <1>5, <2>1 DEF Versions
  <1>8. AreLinesOf(ls, v)
    <2>1. ls[1] = Texts!Keyed("manifest", v.manifest) /\ ls[n + 3] = Texts!Keyed("time", v.time)
      BY <1>1, <1>3
    <2>2. \A k \in 1 .. n : ls[k + 1] = Texts!Keyed("parent", v.parents[k])
      BY <1>3, <1>6
    <2>3. ls[n + 2] = AuthorLine(v)
      BY <1>1, <1>3 DEF AuthorLine
    <2>4. QED
      BY <1>4, <1>5, <2>1, <2>2, <2>3 DEF AreLinesOf
  <1>9. Texts!VersionLines(v) = ls
    <2>1. /\ Texts!VersionLines(v) \in Seq(Seq(Seq(Alphabet)))
          /\ AreLinesOf(Texts!VersionLines(v), v)
      BY <1>7, VersionLinesAre
    <2>2. QED
      BY <1>7, <1>8, <2>1, LinesAreUnique
  <1>10. QED
    BY <1>1, <1>7, <1>9

LEMMA MessageIs ==
    ASSUME NEW b \in Seq(Alphabet), Texts!ValidMessage(b), NEW m, m = Texts!Front(b)
    PROVE  m \in Seq(Alphabet) /\ m # <<>> /\ b = m \o <<"LF">>
  <1> DEFINE p == Texts!Split(m, "LF")
  <1>1. b # <<>> /\ Texts!Last(b) = "LF" /\ p[1] # <<>>
    BY DEF Texts!ValidMessage
  <1>2. m \in Seq(Alphabet) /\ b = Append(m, "LF")
    BY <1>1, FrontIs
  <1>3. m # <<>>
    <2>1. SUFFICES ASSUME m = <<>> PROVE FALSE
      OBVIOUS
    <2>2. p = <<<<>>>>
      BY <2>1, SplitEmpty
    <2>3. p[1] = <<>>
      BY <2>2
    <2>4. QED
      BY <1>1, <2>3
  <1> HIDE DEF p
  <1>4. Append(m, "LF") = m \o <<"LF">>
    BY <1>2, TabIsClean, AppendIsConcat
  <1>5. QED
    BY <1>2, <1>3, <1>4

(* What a text that is accepted is cut into. *)
IsHeadAndMessage(data, e, m) ==
    /\ e \in Seq(Alphabet) /\ m \in Seq(Alphabet)
    /\ \/ m = <<>> /\ data = e
       \/ m # <<>> /\ data = e \o MessageLines(m \o <<"LF">>)

LEMMA HeadAndMessage ==
    ASSUME NEW data \in Seq(Alphabet),
           Texts!Markers(data) # {} => Texts!ValidMessage(BlockOf(data))
    PROVE  IsHeadAndMessage(data, HeadOf(data), MessageOf(data))
  <1>1. CASE Texts!Markers(data) # {}
    <2> DEFINE e == HeadOf(data)
               b == BlockOf(data)
               m == MessageOf(data)
    <2>1. e \in Seq(Alphabet) /\ b \in Seq(Alphabet) /\ IsCut(data, e, b)
      BY <1>1, CutsApart
    <2>2. m = Texts!Front(b)
      BY <1>1 DEF MessageOf
    <2> HIDE DEF e, b, m
    <2>3. m \in Seq(Alphabet) /\ m # <<>> /\ b = m \o <<"LF">>
      BY <1>1, <2>1, <2>2, MessageIs DEF b
    <2>4. data = e \o MessageLines(m \o <<"LF">>)
      BY <2>1, <2>3 DEF IsCut
    <2>5. QED
      BY <2>1, <2>3, <2>4 DEF IsHeadAndMessage, e, m
  <1>2. CASE Texts!Markers(data) = {}
    <2>1. HeadOf(data) = data /\ MessageOf(data) = <<>>
      BY <1>2 DEF HeadOf, MessageOf
    <2>2. <<>> \in Seq(Alphabet)
      OBVIOUS
    <2>3. QED
      BY <2>1, <2>2 DEF IsHeadAndMessage
  <1>3. QED
    BY <1>1, <1>2

LEMMA HeadIsContained ==
    ASSUME NEW data, NEW e, NEW m, IsHeadAndMessage(data, e, m),
           NEW w \in Seq(Alphabet), Contains(e, w)
    PROVE  Contains(data, w)
  <1>1. e \in Seq(Alphabet) /\ m \in Seq(Alphabet)
    BY DEF IsHeadAndMessage
  <1>2. CASE data = e
    BY <1>2
  <1>3. CASE data = e \o MessageLines(m \o <<"LF">>)
    <2> DEFINE b == m \o <<"LF">>
               r == MessageLines(b)
    <2>1. b \in Seq(Alphabet)
      <3>1. Append(m, "LF") = b /\ Append(m, "LF") \in Seq(Alphabet)
        BY <1>1, TabIsClean, AppendIsConcat, AppendProperties
      <3>2. QED
        BY <3>1
    <2> HIDE DEF b
    <2>2. r \in Seq(Alphabet)
      BY <2>1, BelowIs
    <2>3. data = e \o r
      BY <1>3 DEF b
    <2> HIDE DEF r
    <2>4. QED
      BY <1>1, <2>2, <2>3, ContainedLeft
  <1>4. QED
    BY <1>2, <1>3 DEF IsHeadAndMessage

(* A text that is accepted as a version is what WriteVersion makes of it,   *)
(* unless it spells out an optional field that says zero.                  *)
LEMMA VersionOneSpelling ==
    ASSUME TextConstants, NEW data \in Seq(Alphabet), Texts!ReadVersion(data) # Refused
    PROVE  \/ SpellsOut(data)
           \/ /\ Texts!ReadVersion(data) \in Versions
              /\ Texts!WriteVersion(Texts!ReadVersion(data)) = data
  <1> DEFINE h == "version v1"
             e == HeadOf(data)
             m == MessageOf(data)
             ls == Texts!LinesOf(e, h)
             n == Texts!ParentsOf(ls)
             v == Texts!VersionOf(ls, n, m)
  <1>1. Texts!ReadVersion(data) = IF IsReadAs(data, ls, v) THEN v ELSE Refused
    BY ReadVersionIs
  <1>2. IsReadAs(data, ls, v) /\ Texts!ReadVersion(data) = v
    BY <1>1
  <1>3. /\ Texts!Markers(data) # {} => Texts!ValidMessage(BlockOf(data))
        /\ ls # Refused /\ Texts!AreVersionLines(ls, n)
    BY <1>2 DEF IsReadAs
  <1> HIDE DEF v, n, e, m
  <1>4. IsHeadAndMessage(data, e, m)
    BY <1>3, HeadAndMessage DEF e, m
  <1>5. e \in Seq(Alphabet) /\ m \in Seq(Alphabet)
    BY <1>4 DEF IsHeadAndMessage
  <1>6. h \in Alphabet
    BY SignsAreTokens DEF Signs
  <1>7. Texts!Encoded(h, ls) = e /\ ls \in Seq(Seq(Seq(Alphabet)))
    BY <1>3, <1>5, <1>6, EncodedLines
  <1>8. ls = Texts!LinesOf(e, "version v1")
    OBVIOUS
  <1> HIDE DEF ls, h
  <1>9. CASE NoneIsZero(ls)
    <2>1. v \in Versions /\ v.message = m /\ Texts!VersionLines(v) = ls
      BY <1>3, <1>5, <1>7, <1>9, LinesOfVersion DEF v, n
    <2>2. e = Texts!Encoded("version v1", Texts!VersionLines(v))
      BY <1>7, <2>1 DEF h
    <2>3. Texts!WriteVersion(v) = IF v.message = <<>> THEN e ELSE e \o MessageLines(v.message \o <<"LF">>)
      BY <1>5, <2>1, <2>2, WriteVersionIs
    <2>4. Texts!WriteVersion(v) = data
      BY <1>4, <2>1, <2>3 DEF IsHeadAndMessage
    <2>5. QED
      BY <1>2, <2>1, <2>4
  <1>10. CASE ~NoneIsZero(ls)
    <2>1. PICK k \in 1 .. Len(ls) : \/ ls[k] = Texts!Keyed("expiry", "t0")
                                    \/ ls[k] = Texts!Keyed("graph", "id0")
      BY <1>10 DEF NoneIsZero
    <2>2. PICK key, word : SaysZero(key, word) /\ ls[k] = Texts!Keyed(key, word)
      BY <2>1 DEF SaysZero
    <2> DEFINE w == Texts!Line(Texts!Keyed(key, word))
    <2>3. Contains(e, w)
      BY <1>3, <1>5, <1>8, <2>2, HeadSpells
    <2>4. w \in Seq(Alphabet)
      <3>1. (key = "expiry" /\ word = "t0") \/ (key = "graph" /\ word = "id0")
        BY <2>2 DEF SaysZero
      <3>2. "expiry" \in Alphabet /\ "graph" \in Alphabet
        BY SignsAreTokens DEF Signs
      <3>3. "t0" \in Alphabet /\ "id0" \in Alphabet
        BY DEF TextConstants, Alphabet
      <3>4. key \in Alphabet /\ word \in Alphabet
        BY <3>1, <3>2, <3>3
      <3>5. QED
        BY <3>4, KeyedLineIs
    <2> HIDE DEF w
    <2>5. Contains(data, w)
      BY <1>4, <2>3, <2>4, HeadIsContained
    <2>6. SpellsOut(data)
      BY <2>2, <2>5, ZeroIsSpelled DEF w
    <2>7. QED
      BY <2>6
  <1>11. QED
    BY <1>9, <1>10

(* A sequence in which two neighbours may change places. *)
Around(a, x, y, b) == a \o (<<x, y>> \o b)

LEMMA AroundIs ==
    ASSUME NEW T, NEW p \in Seq(T), NEW k \in 1 .. Len(p) - 1, NEW x \in T, NEW y \in T,
           NEW q \in Seq(T), Len(q) = Len(p), q[k] = x, q[k + 1] = y,
           \A i \in 1 .. Len(p) : i # k /\ i # k + 1 => q[i] = p[i]
    PROVE  q = Around(SubSeq(p, 1, k - 1), x, y, SubSeq(p, k + 2, Len(p)))
  <1> DEFINE n == Len(p)
             a == SubSeq(p, 1, k - 1)
             b == SubSeq(p, k + 2, n)
             c == <<x, y>>
             r == c \o b
             d == a \o r
  <1>1. n \in Nat /\ k \in Nat /\ k >= 1 /\ k + 1 <= n /\ \A i \in 1 .. n : p[i] \in T
    BY LenProperties, ElementOfSeq
  <1>2. a \in Seq(T) /\ Len(a) = k - 1 /\ \A i \in 1 .. k - 1 : a[i] = p[i]
    <2>1. 1 \in Int /\ k - 1 \in Int /\ \A i \in 1 .. k - 1 : i \in 1 .. n /\ 1 + i - 1 = i
      BY <1>1
    <2>2. \A i \in 1 .. k - 1 : p[i] \in T
      BY <1>1, <2>1
    <2>3. /\ a \in Seq(T) /\ Len(a) = IF 1 <= k - 1 THEN k - 1 - 1 + 1 ELSE 0
          /\ \A i \in 1 .. k - 1 - 1 + 1 : a[i] = p[1 + i - 1]
      BY <2>1, <2>2, SubSeqProperties
    <2>4. k - 1 - 1 + 1 = k - 1 /\ Len(a) = k - 1
      BY <1>1, <2>3
    <2>5. QED
      BY <2>1, <2>3, <2>4
  <1>3. b \in Seq(T) /\ Len(b) = n - k - 1 /\ \A i \in 1 .. n - k - 1 : b[i] = p[k + 1 + i]
    <2> DEFINE m == k + 2
    <2>1. m \in Int /\ n \in Int /\ \A i \in m .. n : i \in 1 .. n
      BY <1>1
    <2>2. \A i \in m .. n : p[i] \in T
      BY <1>1, <2>1
    <2>3. /\ b \in Seq(T) /\ Len(b) = IF m <= n THEN n - m + 1 ELSE 0
          /\ \A i \in 1 .. n - m + 1 : b[i] = p[m + i - 1]
      BY <2>1, <2>2, SubSeqProperties
    <2>4. n - m + 1 = n - k - 1 /\ Len(b) = n - k - 1
      BY <1>1, <2>3
    <2>5. \A i \in 1 .. n - k - 1 : m + i - 1 = k + 1 + i
      BY <1>1
    <2>6. QED
      BY <2>3, <2>4, <2>5
  <1>4. c \in Seq(T) /\ Len(c) = 2 /\ c[1] = x /\ c[2] = y
    BY Couple
  <1> HIDE DEF a, b, c
  <1>5. r \in Seq(T) /\ IsJoint(r, c, b)
    BY <1>3, <1>4, JointIs
  <1> HIDE DEF r
  <1>6. d \in Seq(T) /\ IsJoint(d, a, r)
    BY <1>2, <1>5, JointIs
  <1> HIDE DEF d
  <1>7. Len(r) = n - k + 1 /\ Len(d) = n
    BY <1>1, <1>2, <1>3, <1>4, <1>5, <1>6 DEF IsJoint
  <1>8. ASSUME NEW i \in 1 .. n PROVE d[i] = q[i]
    <2>1. CASE i < k
      <3>1. i \in 1 .. k - 1 /\ i # k /\ i # k + 1
        BY <1>1, <2>1
      <3>2. q[i] = p[i]
        BY <3>1
      <3>3. d[i] = a[i]
        BY <1>2, <1>6, <3>1 DEF IsJoint
      <3>4. QED
        BY <1>2, <3>1, <3>2, <3>3
    <2>2. CASE i >= k
      <3> DEFINE j == i - (k - 1)
      <3>1. j \in 1 .. Len(r) /\ i = Len(a) + j
        BY <1>1, <1>2, <1>7, <2>2
      <3>2. i = k - 1 + j
        BY <1>1
      <3> HIDE DEF j
      <3>3. d[i] = r[j]
        BY <1>6, <3>1 DEF IsJoint
      <3>4. CASE j = 1
        <4>1. r[1] = x /\ i = k
          BY <1>1, <1>4, <1>5, <3>2, <3>4 DEF IsJoint
        <4>2. QED
          BY <3>3, <3>4, <4>1
      <3>5. CASE j = 2
        <4>1. r[2] = y /\ i = k + 1
          BY <1>1, <1>4, <1>5, <3>2, <3>5 DEF IsJoint
        <4>2. QED
          BY <3>3, <3>5, <4>1
      <3>6. CASE j > 2
        <4> DEFINE l == j - 2
        <4>0. j \in Int /\ j > 2 /\ j <= n - k + 1 /\ n \in Nat /\ k \in Nat
          BY <1>1, <1>7, <3>1, <3>6
        <4>1. l \in 1 .. n - k - 1 /\ j = 2 + l /\ i = k + 1 + l /\ i # k /\ i # k + 1
          BY <3>2, <4>0
        <4> HIDE DEF l
        <4>2. r[j] = b[l]
          BY <1>3, <1>4, <1>5, <4>1 DEF IsJoint
        <4>3. q[i] = p[i]
          BY <4>1
        <4>4. QED
          BY <1>3, <3>3, <4>1, <4>2, <4>3
      <3>7. QED
        BY <3>1, <3>4, <3>5, <3>6
    <2>3. QED
      BY <1>1, <2>1, <2>2
  <1>9. d = q
    BY <1>6, <1>7, <1>8, SeqEqual
  <1>10. QED
    BY <1>9 DEF d, r, a, b, c, Around

AreLaid(r, p, q) == r = p \o q

AreLaidEnded(r, p, q, mark) ==
    AreLaid(Texts!Ended(r, mark), Texts!Ended(p, mark), Texts!Ended(q, mark))

LEMMA EndedOfTwo ==
    ASSUME NEW T, NEW p \in Seq(Seq(T)), NEW q \in Seq(Seq(T)), NEW mark \in T,
           NEW r, AreLaid(r, p, q)
    PROVE  AreLaidEnded(r, p, q, mark)
  BY EndedJoins DEF AreLaid, AreLaidEnded

LEMMA EndedAround ==
    ASSUME NEW T, NEW a \in Seq(Seq(T)), NEW x \in Seq(T), NEW y \in Seq(T),
           NEW b \in Seq(Seq(T)), NEW mark \in T
    PROVE  /\ Texts!Ended(Around(a, x, y, b), mark) \in Seq(T)
           /\ Len(Texts!Ended(Around(a, x, y, b), mark)) =
                 Len(Texts!Ended(a, mark)) + (Len(x) + Len(y) + 2) + Len(Texts!Ended(b, mark))
  <1> DEFINE U == Seq(T)
             c == <<x, y>>
             r == c \o b
             d == a \o r
             E(s) == Texts!Ended(s, mark)
             z == <<x>>
             u == Append(x, mark)
             w == Append(y, mark)
  <1>1. c \in Seq(U) /\ z \in Seq(U) /\ Append(z, y) = c
    <2> HIDE DEF U
    <2>1. x \in U /\ y \in U
      BY DEF U
    <2>2. QED
      BY <2>1, Couple, Singleton, Pair
  <1>2. u \in U /\ w \in U /\ Len(u) = Len(x) + 1 /\ Len(w) = Len(y) + 1
    BY AppendProperties
  <1>3. Len(x) \in Nat /\ Len(y) \in Nat
    BY LenProperties
  <1>4. E(z) = u
    <2>1. E(<<>>) = <<>> /\ <<>> \in Seq(U)
      BY EndedEmpty
    <2>2. Append(<<>>, x) = z
      OBVIOUS
    <2>3. E(Append(<<>>, x)) = E(<<>>) \o u
      BY <2>1, EndedGrows
    <2>4. <<>> \o u = u
      BY <1>2, ConcatEmptySeq
    <2> HIDE DEF E, z, u
    <2>5. QED
      BY <2>1, <2>2, <2>3, <2>4
  <1>5. E(c) = u \o w
    <2>1. E(Append(z, y)) = E(z) \o w
      BY <1>1, EndedGrows
    <2> HIDE DEF E, z, u, w, c
    <2>2. QED
      BY <1>1, <1>4, <2>1
  <1>6. E(c) \in U /\ Len(E(c)) = Len(x) + Len(y) + 2
    <2> DEFINE s == u \o w
    <2> HIDE DEF u, w
    <2>1. s \in U /\ IsJoint(s, u, w)
      BY <1>2, JointIs
    <2> HIDE DEF s
    <2>2. Len(s) = Len(x) + Len(y) + 2
      BY <1>2, <1>3, <2>1 DEF IsJoint
    <2> HIDE DEF E
    <2>3. QED
      BY <1>5, <2>1, <2>2 DEF s
  <1>7. E(a) \in U /\ E(b) \in U
    BY EndedIs
  <1> HIDE DEF c, z, u, w
  <1>8. r \in Seq(U)
    BY <1>1, ConcatProperties
  <1>a. AreLaid(r, c, b) /\ AreLaid(d, a, r)
    BY DEF AreLaid
  <1>b. c \in Seq(Seq(T)) /\ r \in Seq(Seq(T))
    BY <1>1, <1>8
  <1> HIDE DEF r, d
  <1>c. AreLaidEnded(r, c, b, mark)
    BY <1>a, <1>b, EndedOfTwo
  <1>d. AreLaidEnded(d, a, r, mark)
    BY <1>a, <1>b, EndedOfTwo
  <1>9. E(r) = E(c) \o E(b) /\ E(d) = E(a) \o E(r)
    BY <1>c, <1>d DEF AreLaidEnded, AreLaid
  <1>10. E(r) \in U /\ IsJoint(E(r), E(c), E(b))
    <2> HIDE DEF E
    <2>1. QED
      BY <1>6, <1>7, <1>9, JointIs
  <1>11. E(d) \in U /\ IsJoint(E(d), E(a), E(r))
    <2> HIDE DEF E
    <2>1. QED
      BY <1>7, <1>9, <1>10, JointIs
  <1>12. Len(E(a)) \in Nat /\ Len(E(b)) \in Nat
    <2> HIDE DEF E
    <2>1. QED
      BY <1>7, LenProperties
  <1>13. Around(a, x, y, b) = d
    BY DEF Around, d, r, c
  <1> HIDE DEF E
  <1>14. Len(E(d)) = Len(E(a)) + (Len(x) + Len(y) + 2) + Len(E(b))
    BY <1>3, <1>6, <1>10, <1>11, <1>12 DEF IsJoint
  <1>15. QED
    BY <1>11, <1>13, <1>14 DEF E

(* Two neighbours that change places leave the length of what they are      *)
(* joined to.                                                              *)
IsSwapped(q, p, k) ==
    /\ Len(q) = Len(p) /\ q[k] = p[k + 1] /\ q[k + 1] = p[k]
    /\ \A i \in 1 .. Len(p) : i # k /\ i # k + 1 => q[i] = p[i]

LEMMA SwapIs ==
    ASSUME NEW U, NEW p \in Seq(U), NEW k \in 1 .. Len(p) - 1,
           NEW q, q = [p EXCEPT ![k] = p[k + 1], ![k + 1] = p[k]]
    PROVE  q \in Seq(U) /\ IsSwapped(q, p, k)
  <1> DEFINE x == p[k]
             y == p[k + 1]
  <1>1. Len(p) \in Nat /\ DOMAIN p = 1 .. Len(p) /\ \A i \in 1 .. Len(p) : p[i] \in U
    BY LenProperties, ElementOfSeq
  <1>2. k \in 1 .. Len(p) /\ k + 1 \in 1 .. Len(p) /\ k # k + 1 /\ k \in Nat
    BY <1>1
  <1>3. x \in U /\ y \in U
    BY <1>1, <1>2
  <1>4. q = [i \in 1 .. Len(p) |-> IF i = k + 1 THEN x ELSE IF i = k THEN y ELSE p[i]]
    BY <1>1, <1>2
  <1> HIDE DEF x, y
  <1>5. \A i \in 1 .. Len(p) : q[i] = IF i = k + 1 THEN x ELSE IF i = k THEN y ELSE p[i]
    BY <1>4
  <1>6. q \in Seq(U) /\ Len(q) = Len(p)
    BY <1>1, <1>3, <1>4
  <1>7. QED
    BY <1>2, <1>5, <1>6 DEF IsSwapped, x, y

LEMMA SwappedLength ==
    ASSUME NEW T, NEW p \in Seq(Seq(T)), NEW k \in 1 .. Len(p) - 1, NEW mark \in T,
           NEW q \in Seq(Seq(T)), IsSwapped(q, p, k)
    PROVE  /\ Texts!Ended(q, mark) \in Seq(T)
           /\ Len(Texts!Ended(q, mark)) = Len(Texts!Ended(p, mark))
  <1> DEFINE U == Seq(T)
             x == p[k]
             y == p[k + 1]
             a == SubSeq(p, 1, k - 1)
             b == SubSeq(p, k + 2, Len(p))
  <1>1. Len(p) \in Nat /\ DOMAIN p = 1 .. Len(p) /\ \A i \in 1 .. Len(p) : p[i] \in U
    BY LenProperties, ElementOfSeq
  <1>2. k \in 1 .. Len(p) /\ k + 1 \in 1 .. Len(p) /\ k \in Nat
    BY <1>1
  <1>3. x \in U /\ y \in U
    BY <1>1, <1>2
  <1>4. /\ Len(q) = Len(p) /\ q[k] = y /\ q[k + 1] = x
        /\ \A i \in 1 .. Len(p) : i # k /\ i # k + 1 => q[i] = p[i]
    BY DEF IsSwapped
  <1>5. a \in Seq(U) /\ b \in Seq(U)
    <2>1. /\ 1 \in Int /\ k - 1 \in Int /\ k + 2 \in Int /\ Len(p) \in Int
          /\ \A i \in 1 .. k - 1 : i \in 1 .. Len(p)
          /\ \A i \in k + 2 .. Len(p) : i \in 1 .. Len(p)
      BY <1>1, <1>2
    <2>2. /\ \A i \in 1 .. k - 1 : p[i] \in U
          /\ \A i \in k + 2 .. Len(p) : p[i] \in U
      BY <1>1, <2>1
    <2> HIDE DEF U
    <2>3. QED
      BY <2>1, <2>2, SubSeqProperties
  <1>6. p[k] = x /\ p[k + 1] = y /\ p \in Seq(U) /\ q \in Seq(U)
    OBVIOUS
  <1> HIDE DEF U, x, y
  <1>7. p = Around(a, x, y, b)
    BY <1>3, <1>6, AroundIs
  <1>8. q = Around(a, y, x, b)
    BY <1>3, <1>4, <1>6, AroundIs
  <1> HIDE DEF a, b
  <1> DEFINE E(s) == Texts!Ended(s, mark)
             c == Around(a, x, y, b)
             d == Around(a, y, x, b)
  <1>9. Len(E(c)) = Len(E(a)) + (Len(x) + Len(y) + 2) + Len(E(b))
    BY <1>3, <1>5, EndedAround DEF U
  <1>10. /\ E(d) \in Seq(T)
         /\ Len(E(d)) = Len(E(a)) + (Len(y) + Len(x) + 2) + Len(E(b))
    BY <1>3, <1>5, EndedAround DEF U
  <1>11. Len(x) \in Nat /\ Len(y) \in Nat
    BY <1>3, LenProperties DEF U
  <1>12. p = c /\ q = d
    BY <1>7, <1>8
  <1> HIDE DEF E, c, d
  <1>13. E(q) \in Seq(T) /\ Len(E(q)) = Len(E(p))
    BY <1>9, <1>10, <1>11, <1>12
  <1>14. QED
    BY <1>13 DEF E

(* What an edit leaves is a text again, longer by one token at most. *)
IsEdit(s, t) == s \in Seq(Alphabet) /\ Len(s) <= Len(t) + 1

LEMMA PiecesAre ==
    ASSUME NEW T, NEW t \in Seq(T), NEW i \in 1 .. Len(t) + 1
    PROVE  /\ SubSeq(t, 1, i - 1) \in Seq(T) /\ Len(SubSeq(t, 1, i - 1)) = i - 1
           /\ SubSeq(t, i, Len(t)) \in Seq(T) /\ Len(SubSeq(t, i, Len(t))) = Len(t) - i + 1
  <1>1. Len(t) \in Nat /\ \A j \in 1 .. Len(t) : t[j] \in T
    BY LenProperties, ElementOfSeq
  <1>2. /\ 1 \in Int /\ i - 1 \in Int /\ i \in Int /\ Len(t) \in Int
        /\ \A j \in 1 .. i - 1 : j \in 1 .. Len(t)
        /\ \A j \in i .. Len(t) : j \in 1 .. Len(t)
    BY <1>1
  <1>3. (\A j \in 1 .. i - 1 : t[j] \in T) /\ \A j \in i .. Len(t) : t[j] \in T
    BY <1>1, <1>2
  <1>4. /\ SubSeq(t, 1, i - 1) \in Seq(T)
        /\ Len(SubSeq(t, 1, i - 1)) = IF 1 <= i - 1 THEN i - 1 - 1 + 1 ELSE 0
    BY <1>2, <1>3, SubSeqProperties
  <1>5. /\ SubSeq(t, i, Len(t)) \in Seq(T)
        /\ Len(SubSeq(t, i, Len(t))) = IF i <= Len(t) THEN Len(t) - i + 1 ELSE 0
    BY <1>2, <1>3, SubSeqProperties
  <1> DEFINE a == Len(SubSeq(t, 1, i - 1))
             b == Len(SubSeq(t, i, Len(t)))
             n == Len(t)
  <1>6. /\ a = (IF 1 <= i - 1 THEN i - 1 - 1 + 1 ELSE 0) /\ n \in Nat /\ i \in 1 .. n + 1
        /\ b = (IF i <= n THEN n - i + 1 ELSE 0)
    BY <1>1, <1>4, <1>5
  <1> HIDE DEF a, b, n
  <1>7. a = i - 1 /\ b = n - i + 1
    BY <1>6
  <1>8. QED
    BY <1>4, <1>5, <1>7 DEF a, b, n

LEMMA InsertIsEdit ==
    ASSUME NEW t \in Seq(Alphabet), NEW i \in 1 .. Len(t) + 1, NEW token \in Tokens
    PROVE  IsEdit(Texts!InsertAt(t, i, token), t)
  <1> DEFINE a == SubSeq(t, 1, i - 1)
             b == SubSeq(t, i, Len(t))
             c == <<token>>
             r == a \o c
             s == r \o b
  <1>1. /\ a \in Seq(Alphabet) /\ Len(a) = i - 1 /\ b \in Seq(Alphabet)
        /\ Len(b) = Len(t) - i + 1 /\ Len(t) \in Nat
    BY PiecesAre, LenProperties
  <1>2. token \in Alphabet
    BY DEF Alphabet
  <1>3. c \in Seq(Alphabet) /\ Len(c) = 1
    BY <1>2, Singleton
  <1>4. Texts!InsertAt(t, i, token) = s
    BY DEF Texts!InsertAt
  <1> HIDE DEF a, b, c
  <1>5. r \in Seq(Alphabet) /\ IsJoint(r, a, c)
    BY <1>1, <1>3, JointIs
  <1> HIDE DEF r
  <1>6. s \in Seq(Alphabet) /\ IsJoint(s, r, b)
    BY <1>1, <1>5, JointIs
  <1> HIDE DEF s
  <1>7. Len(s) = i - 1 + 1 + (Len(t) - i + 1)
    BY <1>1, <1>3, <1>5, <1>6 DEF IsJoint
  <1>8. QED
    BY <1>1, <1>4, <1>6, <1>7 DEF IsEdit

LEMMA DeleteIsEdit ==
    ASSUME NEW t \in Seq(Alphabet), NEW i \in 1 .. Len(t)
    PROVE  IsEdit(Texts!RemoveAt(t, i), t)
  <1> DEFINE a == SubSeq(t, 1, i - 1)
             m == i + 1
             b == SubSeq(t, m, Len(t))
             s == a \o b
  <1>1. Len(t) \in Nat
    BY LenProperties
  <1>2. i \in 1 .. Len(t) + 1 /\ m \in 1 .. Len(t) + 1
    BY <1>1
  <1>3. Texts!RemoveAt(t, i) = s
    BY DEF Texts!RemoveAt
  <1>4. a \in Seq(Alphabet) /\ Len(a) = i - 1
    BY <1>2, PiecesAre
  <1>5. b \in Seq(Alphabet) /\ Len(b) = Len(t) - m + 1
    <2> HIDE DEF m
    <2>1. QED
      BY <1>2, PiecesAre
  <1> HIDE DEF a, b
  <1>6. s \in Seq(Alphabet) /\ IsJoint(s, a, b)
    BY <1>4, <1>5, JointIs
  <1> HIDE DEF s
  <1>7. Len(s) <= Len(t) + 1
    BY <1>1, <1>4, <1>5, <1>6 DEF IsJoint
  <1>8. QED
    BY <1>3, <1>6, <1>7 DEF IsEdit

LEMMA ReplaceIsEdit ==
    ASSUME NEW t \in Seq(Alphabet), NEW i \in 1 .. Len(t), NEW token \in Tokens
    PROVE  IsEdit(Texts!ReplaceAt(t, i, token), t)
  <1> DEFINE s == [t EXCEPT ![i] = token]
  <1>1. token \in Alphabet
    BY DEF Alphabet
  <1>2. s \in Seq(Alphabet) /\ Len(s) = Len(t) /\ Len(t) \in Nat
    BY <1>1, ExceptSeq, LenProperties
  <1>3. Texts!ReplaceAt(t, i, token) = s
    BY DEF Texts!ReplaceAt
  <1> HIDE DEF s
  <1>4. QED
    BY <1>2, <1>3 DEF IsEdit

LEMMA CutIsEdit ==
    ASSUME NEW t \in Seq(Alphabet), NEW i \in 1 .. Len(t)
    PROVE  IsEdit(SubSeq(t, 1, i - 1), t)
  <1>1. Len(t) \in Nat
    BY LenProperties
  <1>2. i \in 1 .. Len(t) + 1
    BY <1>1
  <1>3. SubSeq(t, 1, i - 1) \in Seq(Alphabet) /\ Len(SubSeq(t, 1, i - 1)) = i - 1
    BY <1>2, PiecesAre
  <1>4. QED
    BY <1>1, <1>3 DEF IsEdit

LEMMA SwappedText ==
    ASSUME NEW t \in Seq(Alphabet), NEW rows \in Seq(Seq(Alphabet)), NEW mark \in Alphabet,
           Texts!Ended(rows, mark) = Append(t, mark), NEW k \in 1 .. Len(rows) - 1,
           NEW q \in Seq(Seq(Alphabet)), IsSwapped(q, rows, k)
    PROVE  IsEdit(SubSeq(Texts!Ended(q, mark), 1, Len(t)), t)
  <1> DEFINE d == Texts!Ended(q, mark)
             s == SubSeq(d, 1, Len(t))
             i == Len(t) + 1
  <1>1. Len(Append(t, mark)) = Len(t) + 1 /\ Len(t) \in Nat
    BY AppendProperties, LenProperties
  <1>2. d \in Seq(Alphabet) /\ Len(d) = Len(Texts!Ended(rows, mark))
    BY SwappedLength
  <1> HIDE DEF d
  <1>3. Len(d) = Len(t) + 1
    BY <1>1, <1>2
  <1>4. i \in 1 .. Len(d) + 1 /\ i - 1 = Len(t)
    BY <1>1, <1>3
  <1> HIDE DEF i
  <1>5. SubSeq(d, 1, i - 1) \in Seq(Alphabet) /\ Len(SubSeq(d, 1, i - 1)) = i - 1
    BY <1>2, <1>4, PiecesAre
  <1>6. s \in Seq(Alphabet) /\ Len(s) = Len(t)
    BY <1>4, <1>5
  <1> HIDE DEF s
  <1>7. IsEdit(s, t)
    BY <1>1, <1>6 DEF IsEdit
  <1>8. QED
    BY <1>7 DEF s, d

LEMMA SwapIsEdit ==
    ASSUME NEW t \in Seq(Alphabet), NEW rows, rows = Texts!Split(t, "LF"), NEW k \in Nat,
           k >= 1, k + 1 < Len(rows),
           NEW q, q = [rows EXCEPT ![k] = rows[k + 1], ![k + 1] = rows[k]]
    PROVE  IsEdit(SubSeq(Texts!Ended(q, "LF"), 1, Len(t)), t)
  <1>1. rows \in Seq(Seq(Alphabet)) /\ Len(rows) \in Nat
    <2>1. rows \in Seq(Seq(Alphabet))
      BY SplitIsParts DEF Parts
    <2>2. QED
      BY <2>1, LenProperties
  <1>2. k \in 1 .. Len(rows) - 1 /\ "LF" \in Alphabet
    BY <1>1, TabIsClean
  <1>3. q \in Seq(Seq(Alphabet)) /\ IsSwapped(q, rows, k)
    BY <1>1, <1>2, SwapIs
  <1>4. Texts!Ended(rows, "LF") = Append(t, "LF")
    BY <1>2, EndedSplit
  <1>5. QED
    BY <1>1, <1>2, <1>3, <1>4, SwappedText

(* Marshal writes of a version what it writes of it at seconds. *)
LEMMA AtSecondsIs ==
    ASSUME TextConstants, NEW x \in DatedVersions
    PROVE  LET y == Texts!AtSeconds(x)
           IN  /\ y \in Versions /\ y.message = x.message
               /\ Texts!WriteVersion(y) = Texts!WriteVersion(x)
               /\ Texts!ValidVersion(y) = Texts!ValidVersion(x)
  <1> DEFINE y == Texts!AtSeconds(x)
  <1>1. /\ x.type = "version" /\ x.manifest \in Ids /\ x.parents \in Seq(Ids)
        /\ x.author \in Seq(Alphabet) /\ x.message \in Seq(Alphabet) /\ x.graph \in Ids
        /\ x.time \in DOMAIN SecondOf /\ x.expiry \in DOMAIN SecondOf
    BY DEF DatedVersions
  <1>2. y = [x EXCEPT !.time = SecondOf[x.time], !.expiry = SecondOf[x.expiry]]
    BY <1>1 DEF Texts!AtSeconds
  <1>3. /\ y = [type |-> x.type, manifest |-> x.manifest, parents |-> x.parents,
                author |-> x.author, time |-> SecondOf[x.time], expiry |-> SecondOf[x.expiry],
                graph |-> x.graph, message |-> x.message]
    BY <1>2 DEF DatedVersions
  <1>4. /\ SecondOf[x.time] \in Times /\ SecondOf[x.expiry] \in Times
        /\ SecondOf[SecondOf[x.time]] = SecondOf[x.time]
        /\ SecondOf[SecondOf[x.expiry]] = SecondOf[x.expiry]
        /\ (SecondOf[x.time] = "t0") = (x.time = "t0")
        /\ (SecondOf[x.expiry] = "t0") = (x.expiry = "t0")
    BY <1>1 DEF TextConstants
  <1> HIDE DEF y
  <1>5. /\ y.type = x.type /\ y.manifest = x.manifest /\ y.parents = x.parents
        /\ y.author = x.author /\ y.time = SecondOf[x.time] /\ y.expiry = SecondOf[x.expiry]
        /\ y.graph = x.graph /\ y.message = x.message
    BY <1>3
  <1>6. y \in Versions
    BY <1>1, <1>3, <1>4 DEF Versions
  <1>7. /\ Texts!FormatTime(y.time) = Texts!FormatTime(x.time)
        /\ Texts!FormatTime(y.expiry) = Texts!FormatTime(x.expiry)
        /\ (y.time = "t0") = (x.time = "t0") /\ (y.expiry = "t0") = (x.expiry = "t0")
    BY <1>4, <1>5 DEF Texts!FormatTime
  <1>8. Texts!VersionLines(y) = Texts!VersionLines(x)
    BY <1>5, <1>7 DEF Texts!VersionLines
  <1>9. Texts!WriteVersion(y) = Texts!WriteVersion(x)
    BY <1>5, <1>8 DEF Texts!WriteVersion
  <1>10. Texts!ValidVersion(y) = Texts!ValidVersion(x)
    BY <1>5, <1>7 DEF Texts!ValidVersion
  <1>11. QED
    BY <1>5, <1>6, <1>9, <1>10 DEF y

LEMMA KindIs ==
    ASSUME TextConstants, NEW x \in Objects
    PROVE  \/ x \in Files /\ x.type = "file"
           \/ x \in Manifests /\ x.type = "manifest"
           \/ x \in DatedVersions /\ x.type = "version"
  <1>1. x \in UNION {Files, Manifests, DatedVersions}
    BY DEF TextConstants
  <1>2. x \in Files \/ x \in Manifests \/ x \in DatedVersions
    BY <1>1
  <1>3. x \in Files => x.type = "file"
    BY DEF Files
  <1>4. x \in Manifests => x.type = "manifest"
    BY DEF Manifests
  <1>5. x \in DatedVersions => x.type = "version"
    BY DEF DatedVersions
  <1>6. QED
    BY <1>2, <1>3, <1>4, <1>5

LEMMA MarshalIs ==
    ASSUME NEW x
    PROVE  /\ x.type = "file" => Texts!Marshal(x) = Texts!WriteFile(x)
           /\ x.type = "manifest" => Texts!Marshal(x) = Texts!WriteManifest(x)
           /\ x.type = "version" => Texts!Marshal(x) = Texts!WriteVersion(x)
           /\ x.type = "file" => Texts!Valid(x) = Texts!ValidFile(x)
           /\ x.type = "manifest" => Texts!Valid(x) = Texts!ValidManifest(x)
           /\ x.type = "version" => Texts!Valid(x) = Texts!ValidVersion(x)
  BY DEF Texts!Marshal, Texts!Valid

LEMMA UnmarshalIs ==
    ASSUME NEW data
    PROVE  /\ Texts!Unmarshal(data, "file") = Texts!ReadFile(data)
           /\ Texts!Unmarshal(data, "manifest") = Texts!ReadManifest(data)
           /\ Texts!Unmarshal(data, "version") = Texts!ReadVersion(data)
  BY DEF Texts!Unmarshal

LEMMA EncodedIsText ==
    ASSUME NEW h, IsHeader(h), NEW ls, NeatLines(ls)
    PROVE  Texts!Encoded(h, ls) \in Seq(Alphabet)
  BY EncodedIs, PrintedIs, SeqMonotonic

LEMMA VersionIsText ==
    ASSUME TextConstants, NEW x \in Versions, Texts!ValidVersion(x)
    PROVE  Texts!WriteVersion(x) \in Seq(Alphabet)
  <1> DEFINE e == Texts!Encoded("version v1", Texts!VersionLines(x))
             m == x.message
             b == m \o <<"LF">>
             r == MessageLines(b)
  <1>1. NeatLines(Texts!VersionLines(x)) /\ IsHeader("version v1")
    BY VersionLinesAreNeat, SignsAreBare
  <1>2. e \in Seq(Alphabet)
    BY <1>1, EncodedIsText
  <1>3. Texts!WriteVersion(x) = IF m = <<>> THEN e ELSE e \o r
    BY <1>2, WriteVersionIs
  <1>4. m \in Seq(Alphabet)
    BY VersionIs
  <1>5. b \in Seq(Alphabet)
    <2>1. Append(m, "LF") = b /\ Append(m, "LF") \in Seq(Alphabet)
      BY <1>4, TabIsClean, AppendIsConcat, AppendProperties
    <2>2. QED
      BY <2>1
  <1> HIDE DEF e, m, b
  <1>6. r \in Seq(Alphabet)
    BY <1>5, BelowIs
  <1> HIDE DEF r
  <1>7. e \o r \in Seq(Alphabet)
    BY <1>2, <1>6, JointIs
  <1>8. QED
    BY <1>2, <1>3, <1>7

(* What is written is a text. *)
LEMMA MarshalIsText ==
    ASSUME TextConstants, NEW x \in Objects, Texts!Valid(x)
    PROVE  Texts!Marshal(x) \in Seq(Alphabet)
  <1>1. CASE x \in Files /\ x.type = "file"
    <2>1. Texts!Marshal(x) = Texts!Encoded("file v1", FileLines(x))
      BY <1>1, MarshalIs, WriteFileIs
    <2>2. NeatLines(FileLines(x)) /\ IsHeader("file v1")
      BY <1>1, FileLinesAre, SignsAreBare
    <2>3. QED
      BY <2>1, <2>2, EncodedIsText
  <1>2. CASE x \in Manifests /\ x.type = "manifest"
    <2>1. Texts!Marshal(x) = Texts!Encoded("manifest v1", ManifestLines(x)) /\ Texts!ValidManifest(x)
      BY <1>2, MarshalIs, WriteManifestIs
    <2>2. NeatLines(ManifestLines(x)) /\ IsHeader("manifest v1")
      BY <1>2, <2>1, ManifestLinesAre, SignsAreBare
    <2>3. QED
      BY <2>1, <2>2, EncodedIsText
  <1>3. CASE x \in DatedVersions /\ x.type = "version"
    <2>1. Texts!Marshal(x) = Texts!WriteVersion(x) /\ Texts!ValidVersion(x)
      BY <1>3, MarshalIs
    <2>2. QED
      BY <1>3, <2>1, AtSecondsIs, VersionIsText
  <1>4. QED
    BY <1>1, <1>2, <1>3, KindIs

(* The inductive invariant: what was written is a valid object, and without *)
(* edits its text is the one that Marshal has written.                     *)
TextInv ==
    /\ written \in Objects /\ Texts!Valid(written)
    /\ text \in Seq(Alphabet)
    /\ edits \in 0 .. MaxEdits
    /\ Len(text) <= Len(Texts!Marshal(written)) + edits
    /\ edits = 0 => text = Texts!Marshal(written)

LEMMA TextInit ==
    ASSUME TextConstants
    PROVE  Texts!Init => TextInv
  <1>1. SUFFICES ASSUME Texts!Init PROVE TextInv
    OBVIOUS
  <1>2. /\ written \in Objects /\ Texts!Valid(written) /\ text = Texts!Marshal(written)
        /\ edits = 0
    BY <1>1 DEF Texts!Init
  <1>3. text \in Seq(Alphabet)
    BY <1>2, MarshalIsText
  <1>4. Len(text) \in Nat /\ MaxEdits \in Nat
    BY <1>3, LenProperties DEF TextConstants
  <1>5. QED
    BY <1>2, <1>3, <1>4 DEF TextInv

LEMMA EditSteps ==
    ASSUME TextConstants, TextInv, Texts!Next
    PROVE  /\ IsEdit(text', text) /\ edits' = edits + 1 /\ written' = written
           /\ edits < MaxEdits
  <1>1. /\ text \in Seq(Alphabet) /\ Len(text) \in Nat
    BY LenProperties DEF TextInv
  <1>2. PICK i \in 1 .. Len(text) + 1 :
          \/ \E token \in Tokens : \/ Texts!Insert(i, token)
                                   \/ i <= Len(text) /\ Texts!Replace(i, token)
          \/ i <= Len(text) /\ (Texts!Delete(i) \/ Texts!CutShort(i) \/ Texts!SwapLines(i))
    BY DEF Texts!Next
  <1>3. edits < MaxEdits
    BY DEF Texts!Next
  <1>4. \A new : Texts!Edited(new) => text' = new /\ edits' = edits + 1 /\ written' = written
    BY DEF Texts!Edited
  <1>5. ASSUME i <= Len(text) PROVE i \in 1 .. Len(text)
    BY <1>1, <1>5
  <1>6. ASSUME NEW token \in Tokens, Texts!Insert(i, token)
        PROVE  IsEdit(text', text) /\ edits' = edits + 1 /\ written' = written
    <2>1. IsEdit(Texts!InsertAt(text, i, token), text)
      BY <1>1, InsertIsEdit
    <2>2. Texts!Edited(Texts!InsertAt(text, i, token))
      BY <1>6 DEF Texts!Insert
    <2>3. QED
      BY <1>4, <2>1, <2>2
  <1>7. ASSUME NEW token \in Tokens, i <= Len(text), Texts!Replace(i, token)
        PROVE  IsEdit(text', text) /\ edits' = edits + 1 /\ written' = written
    <2>1. IsEdit(Texts!ReplaceAt(text, i, token), text)
      BY <1>1, <1>5, <1>7, ReplaceIsEdit
    <2>2. Texts!Edited(Texts!ReplaceAt(text, i, token))
      BY <1>7 DEF Texts!Replace
    <2>3. QED
      BY <1>4, <2>1, <2>2
  <1>8. ASSUME i <= Len(text), Texts!Delete(i)
        PROVE  IsEdit(text', text) /\ edits' = edits + 1 /\ written' = written
    <2>1. IsEdit(Texts!RemoveAt(text, i), text)
      BY <1>1, <1>5, <1>8, DeleteIsEdit
    <2>2. Texts!Edited(Texts!RemoveAt(text, i))
      BY <1>8 DEF Texts!Delete
    <2>3. QED
      BY <1>4, <2>1, <2>2
  <1>9. ASSUME i <= Len(text), Texts!CutShort(i)
        PROVE  IsEdit(text', text) /\ edits' = edits + 1 /\ written' = written
    <2>1. IsEdit(SubSeq(text, 1, i - 1), text)
      BY <1>1, <1>5, <1>9, CutIsEdit
    <2>2. Texts!Edited(SubSeq(text, 1, i - 1))
      BY <1>9 DEF Texts!CutShort
    <2>3. QED
      BY <1>4, <2>1, <2>2
  <1>10. ASSUME i <= Len(text), Texts!SwapLines(i)
         PROVE  IsEdit(text', text) /\ edits' = edits + 1 /\ written' = written
    <2> DEFINE rows == Texts!Split(text, "LF")
               s == SubSeq(text, 1, i)
               k == Len(Texts!Split(s, "LF")) - 1
               q == [rows EXCEPT ![k] = rows[k + 1], ![k + 1] = rows[k]]
               new == SubSeq(Texts!Ended(q, "LF"), 1, Len(text))
    <2>1. text[i] = "LF" /\ k + 1 < Len(rows) /\ Texts!Edited(new)
      BY <1>10 DEF Texts!SwapLines
    <2>2. i \in 1 .. Len(text)
      BY <1>5, <1>10
    <2>3. k \in Nat /\ k >= 1
      <3> DEFINE p == Texts!Split(SubSeq(text, 1, i - 1), "LF")
      <3>1. s \in Seq(Alphabet) /\ Extends(s, SubSeq(text, 1, i - 1), "LF")
            /\ SubSeq(text, 1, i - 1) \in Seq(Alphabet)
        <4> DEFINE a == SubSeq(text, 1, i - 1)
                   b == Append(a, "LF")
                   m == i + 1
        <4>1. i \in 1 .. Len(text) + 1 /\ m \in 1 .. Len(text) + 1 /\ m - 1 = i
          BY <1>1, <2>2
        <4>2. a \in Seq(Alphabet) /\ Len(a) = i - 1
          BY <1>1, <4>1, PiecesAre
        <4> HIDE DEF m
        <4>3. SubSeq(text, 1, m - 1) \in Seq(Alphabet) /\ Len(SubSeq(text, 1, m - 1)) = m - 1
          BY <1>1, <4>1, PiecesAre
        <4>4. s \in Seq(Alphabet) /\ Len(s) = i
          BY <4>1, <4>3
        <4>5. \A j \in 1 .. i : s[j] = text[j]
          <5>1. 1 \in Int /\ i \in Int /\ \A j \in 1 .. i : j \in 1 .. Len(text) /\ 1 + j - 1 = j
            BY <1>1, <2>2
          <5>2. \A j \in 1 .. i : text[j] \in Alphabet
            BY <1>1, <5>1, ElementOfSeq
          <5>3. \A j \in 1 .. i - 1 + 1 : s[j] = text[1 + j - 1]
            BY <5>1, <5>2, SubSeqProperties
          <5>4. i - 1 + 1 = i
            BY <2>2
          <5>5. QED
            BY <5>1, <5>3, <5>4
        <4>6. \A j \in 1 .. i - 1 : a[j] = text[j]
          <5> DEFINE n == i - 1
          <5>1. /\ 1 \in Int /\ n \in Int /\ n - 1 + 1 = n
                /\ \A j \in 1 .. n : j \in 1 .. Len(text) /\ 1 + j - 1 = j
            BY <1>1, <2>2
          <5>2. \A j \in 1 .. n : text[j] \in Alphabet
            BY <1>1, <5>1, ElementOfSeq
          <5> HIDE DEF n
          <5>3. \A j \in 1 .. n - 1 + 1 : SubSeq(text, 1, n)[j] = text[1 + j - 1]
            BY <5>1, <5>2, SubSeqProperties
          <5>4. \A j \in 1 .. n : SubSeq(text, 1, n)[j] = text[j]
            BY <5>1, <5>3
          <5>5. QED
            BY <5>4 DEF n
        <4>7. /\ b \in Seq(Alphabet) /\ Len(b) = Len(a) + 1 /\ b[Len(a) + 1] = "LF"
              /\ \A j \in 1 .. Len(a) : b[j] = a[j]
          BY <4>2, TabIsClean, AppendProperties
        <4> HIDE DEF a, b, s
        <4>8. Len(b) = i /\ \A j \in 1 .. i : b[j] = s[j]
          <5>1. Len(b) = i /\ b[i] = "LF" /\ \A j \in 1 .. i - 1 : b[j] = text[j]
            BY <2>2, <4>2, <4>6, <4>7
          <5>2. \A j \in 1 .. i : j \in 1 .. i - 1 \/ j = i
            BY <2>2
          <5>3. QED
            BY <2>1, <4>5, <5>1, <5>2
        <4>9. s = b
          BY <4>4, <4>7, <4>8, SeqEqual
        <4>10. QED
          BY <4>2, <4>4, <4>9 DEF Extends, b, a
      <3>2. Texts!Split(s, "LF") = Grow(p, "LF", "LF") /\ p \in Parts(Alphabet)
        BY <3>1, TabIsClean, SplitAppend, SplitIsParts DEF Extends
      <3> HIDE DEF p, s
      <3>3. Texts!Split(s, "LF") = Append(p, <<>>)
        BY <3>2 DEF Grow
      <3>4. p \in Seq(Seq(Alphabet)) /\ Len(p) >= 1 /\ <<>> \in Seq(Alphabet)
        BY <3>2 DEF Parts
      <3>5. Len(Append(p, <<>>)) = Len(p) + 1 /\ Len(p) \in Nat
        BY <3>4, AppendProperties, LenProperties
      <3>6. QED
        BY <3>3, <3>4, <3>5
    <2> HIDE DEF k, s
    <2>4. IsEdit(new, text)
      <3> HIDE DEF rows, q
      <3>1. rows = Texts!Split(text, "LF") /\ q = [rows EXCEPT ![k] = rows[k + 1], ![k + 1] = rows[k]]
        BY DEF rows, q
      <3>2. QED
        BY <1>1, <2>1, <2>3, <3>1, SwapIsEdit
    <2> HIDE DEF new
    <2>5. QED
      BY <1>4, <2>1, <2>4
  <1>11. QED
    BY <1>2, <1>3, <1>6, <1>7, <1>8, <1>9, <1>10

LEMMA TextStep ==
    ASSUME TextConstants, TextInv, [Texts!Next]_(Texts!vars)
    PROVE  TextInv'
  <1> DEFINE room == Len(Texts!Marshal(written))
  <1>1. /\ written \in Objects /\ Texts!Valid(written) /\ text \in Seq(Alphabet)
        /\ edits \in 0 .. MaxEdits /\ Len(text) <= room + edits
        /\ edits = 0 => text = Texts!Marshal(written)
    BY DEF TextInv
  <1>2. CASE Texts!Next
    <2>1. /\ text' \in Seq(Alphabet) /\ Len(text') <= Len(text) + 1
          /\ edits' = edits + 1 /\ written' = written /\ edits < MaxEdits
      BY <1>2, EditSteps DEF IsEdit
    <2>2. Texts!Valid(written)' /\ Texts!Marshal(written)' = Texts!Marshal(written)
      BY <1>1, <2>1
    <2>3. MaxEdits \in Nat
      BY DEF TextConstants
    <2>4. edits' \in 0 .. MaxEdits /\ edits' # 0
      BY <1>1, <2>1, <2>3
    <2>5. room \in Nat /\ Len(text) \in Nat /\ Len(text') \in Nat
      BY <1>1, <2>1, MarshalIsText, LenProperties
    <2> HIDE DEF room
    <2>6. Len(text') <= room + edits'
      BY <1>1, <2>1, <2>3, <2>5
    <2>7. QED
      BY <1>1, <2>1, <2>2, <2>4, <2>6 DEF TextInv, room
  <1>3. CASE UNCHANGED Texts!vars
    <2>1. written' = written /\ text' = text /\ edits' = edits
      BY <1>3 DEF Texts!vars
    <2>2. QED
      BY <1>1, <2>1 DEF TextInv
  <1>4. QED
    BY <1>2, <1>3

(* What is written and what is left of it after any edits.                  *)
LEMMA TextHolds ==
    ASSUME TextConstants
    PROVE  Texts!Spec => []TextInv
  <1>1. Texts!Init => TextInv
    BY TextInit
  <1>2. TextInv /\ [Texts!Next]_(Texts!vars) => TextInv'
    BY TextStep
  <1>3. QED
    BY <1>1, <1>2, PTL DEF Texts!Spec

LEMMA ReadIs ==
    ASSUME TextConstants, NEW x \in Objects, NEW data
    PROVE  \/ /\ x \in Files
              /\ Texts!Unmarshal(data, x.type) = Texts!ReadFile(data)
              /\ Texts!Marshal(x) = Texts!WriteFile(x) /\ Texts!Valid(x) = Texts!ValidFile(x)
           \/ /\ x \in Manifests
              /\ Texts!Unmarshal(data, x.type) = Texts!ReadManifest(data)
              /\ Texts!Marshal(x) = Texts!WriteManifest(x)
              /\ Texts!Valid(x) = Texts!ValidManifest(x)
           \/ /\ x \in DatedVersions
              /\ Texts!Unmarshal(data, x.type) = Texts!ReadVersion(data)
              /\ Texts!Marshal(x) = Texts!WriteVersion(x)
              /\ Texts!Valid(x) = Texts!ValidVersion(x)
  BY KindIs, MarshalIs, UnmarshalIs

LEMMA ReadBack ==
    ASSUME TextConstants, NEW x \in Objects, Texts!Valid(x)
    PROVE  Texts!Unmarshal(Texts!Marshal(x), x.type) = Texts!AtSeconds(x)
  <1>1. CASE x \in DatedVersions /\ x.type = "version"
    <2> DEFINE y == Texts!AtSeconds(x)
    <2>1. /\ y \in Versions /\ Texts!WriteVersion(y) = Texts!Marshal(x)
          /\ Texts!ValidVersion(y)
      BY <1>1, AtSecondsIs, MarshalIs
    <2> HIDE DEF y
    <2>2. Texts!ReadVersion(Texts!WriteVersion(y)) = y
      BY <2>1, VersionRoundTrip
    <2>3. QED
      BY <1>1, <2>1, <2>2, UnmarshalIs DEF y
  <1>2. CASE x.type # "version"
    <2>1. Texts!AtSeconds(x) = x
      BY <1>2 DEF Texts!AtSeconds
    <2>2. CASE x \in Files /\ x.type = "file"
      BY <2>1, <2>2, MarshalIs, UnmarshalIs, FileRoundTrip
    <2>3. CASE x \in Manifests /\ x.type = "manifest"
      BY <2>1, <2>3, MarshalIs, UnmarshalIs, ManifestRoundTrip
    <2>4. QED
      BY <1>2, <2>2, <2>3, KindIs
  <1>3. QED
    BY <1>1, <1>2, KindIs

LEMMA OneText ==
    ASSUME TextConstants, NEW x \in Objects, NEW data \in Seq(Alphabet),
           NEW r, r = Texts!Unmarshal(data, x.type), r # Refused
    PROVE  data = Texts!Marshal(Texts!Meant(r)) \/ SpellsOut(data)
  <1>1. CASE x \in Files /\ r = Texts!ReadFile(data)
    <2>1. r \in Files /\ Texts!WriteFile(r) = data
      BY <1>1, FileOneSpelling
    <2>2. r.type = "file"
      BY <2>1 DEF Files
    <2>3. Texts!Meant(r) = r /\ Texts!Marshal(r) = Texts!WriteFile(r)
      BY <2>2, MarshalIs DEF Texts!Meant
    <2>4. QED
      BY <2>1, <2>3
  <1>2. CASE x \in Manifests /\ r = Texts!ReadManifest(data)
    <2>1. r \in Manifests /\ Texts!ValidManifest(r) /\ Texts!WriteManifest(r) = data
      BY <1>2, ManifestOneSpelling
    <2>2. r.type = "manifest"
      BY <2>1 DEF Manifests
    <2>3. Texts!Meant(r) = r /\ Texts!Marshal(r) = Texts!WriteManifest(r)
      BY <2>1, <2>2, MarshalIs, MeantIsIt
    <2>4. QED
      BY <2>1, <2>3
  <1>3. CASE x \in DatedVersions /\ r = Texts!ReadVersion(data)
    <2>1. SpellsOut(data) \/ (r \in Versions /\ Texts!WriteVersion(r) = data)
      BY <1>3, VersionOneSpelling
    <2>2. SUFFICES ASSUME r \in Versions, Texts!WriteVersion(r) = data
                   PROVE  data = Texts!Marshal(Texts!Meant(r))
      BY <2>1
    <2>3. r.type = "version"
      BY <2>2 DEF Versions
    <2>4. Texts!Meant(r) = r /\ Texts!Marshal(r) = Texts!WriteVersion(r)
      BY <2>3, MarshalIs DEF Texts!Meant
    <2>5. QED
      BY <2>2, <2>4
  <1>4. QED
    BY <1>1, <1>2, <1>3, ReadIs

(* Type correctness: an edit is an edit of the text of one object, which    *)
(* no number of edits changes (Marshal, src/object/codec.go).              *)
THEOREM TextTypeCorrect ==
    ASSUME TextConstants
    PROVE  Texts!Spec => []Texts!TypeOK
  <1>1. TextInv => Texts!TypeOK
    <2>1. SUFFICES ASSUME TextInv PROVE Texts!TypeOK
      OBVIOUS
    <2>2. /\ written \in Objects /\ Texts!Valid(written) /\ text \in Seq(Alphabet)
          /\ edits \in 0 .. MaxEdits /\ Len(text) <= Len(Texts!Marshal(written)) + edits
      BY <2>1 DEF TextInv
    <2>3. Len(Texts!Marshal(written)) \in Nat /\ Len(text) \in Nat /\ MaxEdits \in Nat
      BY <2>2, MarshalIsText, LenProperties DEF TextConstants
    <2>4. Len(text) <= Len(Texts!Marshal(written)) + MaxEdits
      BY <2>2, <2>3
    <2>5. QED
      BY <2>2, <2>4 DEF Texts!TypeOK
  <1>2. QED
    BY <1>1, TextHolds, PTL

(* Unmarshal reads what Marshal has written as the object that it was, the  *)
(* times of a version to the second, which is the one lossy step of the     *)
(* codec (roundtrip_test.go).  For any number of parents, entries and       *)
(* chunks, and whatever the author and the message contain, lines that look *)
(* like fields or like the marker of the message among them (version.go,    *)
(* cutMessage).                                                            *)
THEOREM WrittenIsRead ==
    ASSUME TextConstants
    PROVE  Texts!Spec => []Texts!RoundTrip
  <1>1. TextInv => Texts!RoundTrip
    BY ReadBack DEF TextInv, Texts!RoundTrip, Texts!Read
  <1>2. QED
    BY <1>1, TextHolds, PTL

(* After any edits: a text that Unmarshal accepts is the one that Marshal   *)
(* writes for what it means, so that no state has two IDs, but for the      *)
(* optional fields of a version that say zero (manifest.go,                 *)
(* UnmarshalManifest; version.go, parseOptional).                          *)
THEOREM OneSpellingHolds ==
    ASSUME TextConstants
    PROVE  Texts!Spec => []Texts!OneSpelling
  <1>1. TextInv => Texts!OneSpelling
    <2>1. SUFFICES ASSUME TextInv, Texts!Read # Refused
                   PROVE  text = Texts!Marshal(Texts!Meant(Texts!Read)) \/ Texts!SpellsZero
      BY DEF Texts!OneSpelling
    <2>2. written \in Objects /\ text \in Seq(Alphabet)
      BY <2>1 DEF TextInv
    <2>3. Texts!Read = Texts!Unmarshal(text, written.type)
      BY DEF Texts!Read
    <2>4. text = Texts!Marshal(Texts!Meant(Texts!Read)) \/ SpellsOut(text)
      BY <2>1, <2>2, <2>3, OneText
    <2>5. SpellsOut(text) = Texts!SpellsZero
      BY DEF SpellsOut, Texts!SpellsZero
    <2>6. QED
      BY <2>4, <2>5
  <1>2. QED
    BY <1>1, TextHolds, PTL

(* A file object that has lost its end, wherever it was cut, is refused     *)
(* (file.go, validate): its ID is the hash of the content, which would not  *)
(* show the loss (verify.go, digestFor).                                   *)
THEOREM CutTextIsRefused ==
    ASSUME TextConstants
    PROVE  Texts!Spec => []Texts!CutFileIsRefused
  <1>1. TextInv => Texts!CutFileIsRefused
    <2>1. SUFFICES ASSUME TextInv, written.type = "file",
                          Texts!IsStrictPrefix(text, Texts!Marshal(written))
                   PROVE  Texts!Read = Refused
      BY DEF Texts!CutFileIsRefused
    <2>2. written \in Objects /\ Texts!Valid(written) /\ text \in Seq(Alphabet)
      BY <2>1 DEF TextInv
    <2>3. written \in Files
      BY <2>1, <2>2, KindIs
    <2>4. Texts!Marshal(written) = Texts!WriteFile(written) /\ Texts!ValidFile(written)
      BY <2>1, <2>2, MarshalIs
    <2>5. Texts!ReadFile(text) = Refused
      BY <2>1, <2>2, <2>3, <2>4, CutFileIsNotRead
    <2>6. QED
      BY <2>1, <2>5, UnmarshalIs DEF Texts!Read
  <1>2. QED
    BY <1>1, TextHolds, PTL
==============================================================================

----------------------------- MODULE AtomicObject -----------------------------
(***************************************************************************)
(* What the object store promises about one key (src/store/store.go,       *)
(* ObjectStore and GCStore): an object is there whole or not at all, every *)
(* call takes effect at one instant, and damaged content is reported, not  *)
(* returned.  It does not promise that the last changes survive a power    *)
(* loss, nor that a put which finds an object there repairs it, nor, of a  *)
(* file or a manifest, that a well-formed object which is not the key's    *)
(* own is told apart (src/store/verify.go, Verify).                        *)
(***************************************************************************)

CONSTANTS
    Clients,    \* whoever calls the store
    Hashed      \* the key is the hash of the object's bytes

VARIABLES
    value,      \* "missing", "whole", "garbled", or "other": well-formed, but not
                \* the object of this key
    past,       \* the values a power loss may bring back
    status      \* status[c]: "idle", "pending" or what the call will return

vars == <<value, past, status>>

Init ==
    /\ value = "missing"
    /\ past = {"missing"}
    /\ status = [c \in Clients |-> "idle"]

Move(c, from, to) == status[c] = from /\ status' = [status EXCEPT ![c] = to]

Set(v) == value' = v /\ past' = past \cup {v}

Call(c) == Move(c, "idle", "pending") /\ UNCHANGED <<value, past>>

Put(c) == Move(c, "pending", "ok") /\ Set("whole")

PutFindsObject(c) == value # "missing" /\ Move(c, "pending", "ok") /\ UNCHANGED <<value, past>>

Delete(c) == Move(c, "pending", "ok") /\ Set("missing")

Get(c) ==
    /\ Move(c, "pending", CASE value = "missing" -> "missing"
                            [] value = "whole" -> "data"
                            [] value = "other" /\ ~Hashed -> "other"
                            [] OTHER -> "corrupt")
    /\ UNCHANGED <<value, past>>

Fail(c) == Move(c, "pending", "failed") /\ UNCHANGED <<value, past>>

(* The caller has its answer, or has died. *)
Return(c) == status' = [status EXCEPT ![c] = "idle"] /\ UNCHANGED <<value, past>>

Damage ==
    /\ value # "missing"
    /\ \E v \in {"garbled", "other"} : Set(v)
    /\ UNCHANGED status

Flush == past' = {value} /\ UNCHANGED <<value, status>>

PowerLoss ==
    /\ value' \in past /\ past' = {value'}
    /\ status' = [c \in Clients |-> "idle"]

Next ==
    \/ \E c \in Clients :
          Call(c) \/ Put(c) \/ PutFindsObject(c) \/ Delete(c) \/ Get(c) \/ Fail(c) \/ Return(c)
    \/ Damage \/ Flush \/ PowerLoss

Spec == Init /\ [][Next]_vars

==============================================================================

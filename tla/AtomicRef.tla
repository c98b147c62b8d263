------------------------------ MODULE AtomicRef ------------------------------
(***************************************************************************)
(* What store.RefStore promises of one ref (src/store/store.go): a         *)
(* register holding a version or nothing, moved by compare-and-swap and    *)
(* cleared by Delete.  An operation takes effect at one instant between    *)
(* its call and its return, or not at all, and the caller is told which;   *)
(* only a crash leaves the caller without an answer.                       *)
(***************************************************************************)

CONSTANTS
    Callers,    \* the goroutines, of all processes, that call the ref store
    Versions,   \* the version IDs a ref can hold
    Requests,   \* the operations callers ask for
    Nil         \* the zero VersionID: the ref does not exist

VARIABLES
    ref,        \* the version the ref holds
    request,    \* request[c]: the operation c asked for last
    status      \* status[c]: "idle", "pending", or the answer c is about to get

avars == <<ref, request, status>>

NoRequest == [kind |-> "none"]

Answers == {"ok", "mismatch", "busy", "failed"}

TypeOK ==
    /\ ref \in Versions \cup {Nil}
    /\ request \in [Callers -> Requests \cup {NoRequest}]
    /\ status \in [Callers -> {"idle", "pending"} \cup Answers]

Init ==
    /\ ref = Nil
    /\ request = [c \in Callers |-> NoRequest]
    /\ status = [c \in Callers |-> "idle"]

Call(c, r) ==
    /\ status[c] = "idle"
    /\ request' = [request EXCEPT ![c] = r]
    /\ status' = [status EXCEPT ![c] = "pending"]
    /\ UNCHANGED ref

(* The swap succeeds only on a ref that still holds the expected value. *)
Swap(c) ==
    /\ status[c] = "pending"
    /\ request[c].kind = "cas"
    /\ ref = request[c].old
    /\ ref' = request[c].next
    /\ status' = [status EXCEPT ![c] = "ok"]
    /\ UNCHANGED request

(* A conflict is reported only of a ref that really holds something else. *)
Mismatch(c) ==
    /\ status[c] = "pending"
    /\ request[c].kind = "cas"
    /\ ref # request[c].old
    /\ status' = [status EXCEPT ![c] = "mismatch"]
    /\ UNCHANGED <<ref, request>>

Remove(c) ==
    /\ status[c] = "pending"
    /\ request[c].kind = "delete"
    /\ ref' = Nil
    /\ status' = [status EXCEPT ![c] = "ok"]
    /\ UNCHANGED request

(* Lock contention, cancellation and I/O errors: nothing has happened. *)
Refuse(c) ==
    /\ status[c] = "pending"
    /\ status' \in { [status EXCEPT ![c] = a] : a \in {"busy", "failed"} }
    /\ UNCHANGED <<ref, request>>

Return(c) ==
    /\ status[c] \in Answers
    /\ status' = [status EXCEPT ![c] = "idle"]
    /\ request' = [request EXCEPT ![c] = NoRequest]
    /\ UNCHANGED ref

(* A process dies with all its callers, wherever they are. *)
Crash(dead) ==
    /\ status' = [c \in Callers |-> IF c \in dead THEN "idle" ELSE status[c]]
    /\ request' = [c \in Callers |-> IF c \in dead THEN NoRequest ELSE request[c]]
    /\ UNCHANGED ref

Next ==
    \/ \E c \in Callers :
          \/ \E r \in Requests : Call(c, r)
          \/ Swap(c) \/ Mismatch(c) \/ Remove(c) \/ Refuse(c) \/ Return(c)
    \/ \E dead \in SUBSET Callers : Crash(dead)

Spec == Init /\ [][Next]_avars

==============================================================================

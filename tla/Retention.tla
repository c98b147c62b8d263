------------------------------ MODULE Retention ------------------------------
(***************************************************************************)
(* The snapshot timeline as several processes thin it by the schedule over *)
(* the years (src/client/expiry.go), while every space of the store adds   *)
(* its snapshots to it.  Expire reads the timeline, decides and then       *)
(* deletes one ref at a time.                                              *)
(***************************************************************************)
EXTENDS Schedule, FiniteSets

CONSTANTS
    Lag, Skew,                  \* how late a snapshot is published after its
                                \* time, how far ahead clocks may be
    Expirers,                   \* processes that run expire
    MaxSnapshots                \* bound: snapshots ever taken

VARIABLES
    now,        \* the time
    taken,      \* every snapshot ever published
    timeline,   \* those whose ref is still there
    doomed      \* doomed[e]: the refs process e has still to delete

vars == <<now, taken, timeline, doomed>>

TypeOK ==
    /\ now \in Times
    /\ taken \subseteq Snapshots
    /\ timeline \subseteq taken
    /\ doomed \in [Expirers -> SUBSET taken]

Init ==
    /\ now \in Times
    /\ taken = {} /\ timeline = {}
    /\ doomed = [e \in Expirers |-> {}]

------------------------------------------------------------------------------

(* A snapshot carries the time its record began or, where a clock is       *)
(* ahead, a time still to come; its ref appears now.                       *)
Take(x) ==
    /\ x.at - now \in -Lag .. Skew
    /\ x \notin taken
    /\ Cardinality(taken) < MaxSnapshots
    /\ taken' = taken \cup {x}
    /\ timeline' = timeline \cup {x}
    /\ UNCHANGED <<now, doomed>>

(* Timeline and Retain, by a clock that may be behind: the refs to delete. *)
StartExpire(e, time) ==
    /\ doomed[e] = {}
    /\ time <= now /\ now - time <= Lag
    /\ doomed' = [doomed EXCEPT ![e] = timeline \ Retain(timeline, time)]
    /\ UNCHANGED <<now, taken, timeline>>

(* One ref is deleted; it is no error if another process was faster. *)
DropRef(e) ==
    \E x \in doomed[e] :
        /\ timeline' = timeline \ {x}
        /\ doomed' = [doomed EXCEPT ![e] = @ \ {x}]
        /\ UNCHANGED <<now, taken>>

(* A ref cannot be deleted, or the process dies: the rest stays. *)
Stop(e) ==
    /\ doomed[e] # {}
    /\ doomed' = [doomed EXCEPT ![e] = {}]
    /\ UNCHANGED <<now, taken, timeline>>

Tick(time) ==
    /\ time > now
    /\ \A t \in Times : t > now => time <= t
    /\ now' = time
    /\ UNCHANGED <<taken, timeline, doomed>>

Next ==
    \/ \E x \in Snapshots : Take(x)
    \/ \E e \in Expirers : DropRef(e) \/ Stop(e) \/ \E t \in Times : StartExpire(e, t)
    \/ \E t \in Times : Tick(t)

Spec == Init /\ [][Next]_vars

------------------------------------------------------------------------------

(* y is in the slot in which x competes now. *)
SameSlot(x, y) ==
    LET age == now - x.at
    IN  CASE age < 0 -> y.at = x.at
          [] age >= 0 /\ age <= Hourly -> HourOf(y.at) = HourOf(x.at)
          [] age > Hourly /\ age <= Daily -> DayOf(y.at) = DayOf(x.at)
          [] OTHER -> WeekOf(y.at) = WeekOf(x.at)

(* Whenever, wherever and however often expire ran and was cut short: for  *)
(* every snapshot ever taken whose slot is still within the schedule there *)
(* is one in the timeline that is as new and in the same slot (expiry.go,  *)
(* Retain: one snapshot survives per bucket, and it is the newest).        *)
EverySlotIsCovered ==
    \A x \in taken :
        now - x.at <= Weekly
            => \E y \in timeline : ~Newer(x, y) /\ SameSlot(x, y)

==============================================================================

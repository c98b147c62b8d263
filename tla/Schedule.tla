------------------------------ MODULE Schedule ------------------------------
(***************************************************************************)
(* The thinning schedule of the snapshot timeline, src/client/expiry.go:   *)
(* which snapshots Retain keeps.                                           *)
(*                                                                         *)
(* A snapshot is its time and its rank among the snapshots of that time.   *)
(* What Format and ISOWeek make of a time are three functions of which     *)
(* only matters that hours lie in days and days in weeks, all in UTC.      *)
(***************************************************************************)
EXTENDS Integers

CONSTANTS
    Times,                      \* the times anything happens at
    Names,                      \* ranks of the snapshots of one time
    HourOf(_), DayOf(_), WeekOf(_),
    Hourly, Daily, Weekly       \* the windows of the schedule

ASSUME TimeAssumption == Times \subseteq Nat
ASSUME NameAssumption == Names \subseteq Nat
ASSUME WindowAssumption == {Hourly, Daily, Weekly} \subseteq Nat
ASSUME SlotsNest ==
    \A s, t \in Times :
        /\ HourOf(s) = HourOf(t) => DayOf(s) = DayOf(t)
        /\ DayOf(s) = DayOf(t) => WeekOf(s) = WeekOf(t)

Snapshots == [at : Times, name : Names]

(* Sorted by time.  Equal times are taken to keep the order of their names, *)
(* as they do in lists of up to twelve snapshots: the list comes in name    *)
(* order, and sort.Slice does not promise more.                             *)
Newer(x, y) == x.at > y.at \/ (x.at = y.at /\ x.name > y.name)

(* Mutant of Bucket: every snapshot competes for its week from the start. *)
BucketByWeek(x, time) ==
    CASE time - x.at < 0 -> <<"future", x.at>>
      [] time - x.at \in 0 .. Weekly -> <<"week", WeekOf(x.at)>>
      [] OTHER -> <<"none", 0>>

(* bucketOf, where a snapshot out of the window has no slot. *)
Bucket(x, time) ==
    LET age == time - x.at
    IN  IF age < 0 THEN <<"future", x.at>>
        ELSE IF age <= Hourly THEN <<"hour", HourOf(x.at)>>
        ELSE IF age <= Daily THEN <<"day", DayOf(x.at)>>
        ELSE IF age <= Weekly THEN <<"week", WeekOf(x.at)>>
        ELSE <<"none", 0>>

Within(x, time) == Bucket(x, time) # <<"none", 0>>

(* Mutant of Retain: the oldest of a slot is kept. *)
RetainOldest(snapshots, time) ==
    {x \in snapshots :
        /\ Within(x, time)
        /\ \A y \in snapshots : Bucket(y, time) = Bucket(x, time) => ~Newer(x, y)}

(* "Newest first, so the first snapshot met in a bucket is the one kept." *)
Retain(snapshots, time) ==
    {x \in snapshots :
        /\ Within(x, time)
        /\ \A y \in snapshots : Bucket(y, time) = Bucket(x, time) => ~Newer(y, x)}

=============================================================================

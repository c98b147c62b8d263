---------------------------- MODULE LinearHistory ----------------------------
(***************************************************************************)
(* What commit and sync promise a group of spaces: one history that only   *)
(* grows, at its end, by a publisher who stood at its end.  A version that *)
(* was published stays where it is and keeps its predecessors.             *)
(***************************************************************************)
EXTENDS Naturals, Sequences, SequencesExt

CONSTANTS
    Spaces,
    Versions,       \* what can be published, or stood on
    NoVersion       \* standing nowhere: nothing published or seen yet

VARIABLES
    history,    \* the published versions, oldest first
    base        \* base[s]: the version space s descends from

hvars == <<history, base>>

Tip == IF history = <<>> THEN NoVersion ELSE Last(history)

Init ==
    /\ history = <<>>
    /\ base = [s \in Spaces |-> NoVersion]

(* s learns of its own success in another step, or never. *)
Publish(s, v) ==
    /\ base[s] = Tip
    /\ v \notin ToSet(history)
    /\ history' = Append(history, v)
    /\ UNCHANGED base

(* s takes over a published version. *)
Adopt(s) ==
    /\ \E v \in ToSet(history) : base' = [base EXCEPT ![s] = v]
    /\ UNCHANGED history

Next == \E s \in Spaces : Adopt(s) \/ \E v \in Versions : Publish(s, v)

Spec == Init /\ [][Next]_hvars

==============================================================================

------------------------------- MODULE MCLocks -------------------------------
(* Small sets of users, paths and patterns for the runs of Locks. *)
EXTENDS Locks, TLC

CONSTANTS s1, s2

MCOnePath == {1}

(* lock <path>: one file at a time. *)
MCSingles == {{p} : p \in Paths}

MCSymmetry == Permutations(Spaces)

==============================================================================

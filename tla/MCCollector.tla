----------------------------- MODULE MCCollector -----------------------------
(* Small sets of spaces and files for the runs of Collector. *)
EXTENDS Collector, TLC

CONSTANTS s1, s2, c, d

(* Two contents that share a chunk. *)
MCFiles == {{c}, {c, d}}

MCSymmetry == Permutations(Spaces)

==============================================================================

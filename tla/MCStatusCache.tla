---------------------------- MODULE MCStatusCache ----------------------------
(* One user who commits one file, for the violation of StatusCache. *)
EXTENDS StatusCache, TLC

CONSTANTS r1, f, g, m1, m2

MCOnePath == {1}

MCSizeOf == [x \in Files |-> 1]

MCCommits == [r \in Processes |-> {"commit"}]

MCSymmetry == Permutations({f, g})

(* The mtimes do all that the cache asks of them. *)
MovingSpec == Init /\ [][Next /\ MtimesMove]_vars

==============================================================================

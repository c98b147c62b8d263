----------------------------- MODULE MCRefStore -----------------------------
(* RefStore with a caller in each of two processes. *)
EXTENDS RefStore, TLC

CONSTANTS a1, b1, A, B, v1, v2

MCProcessOf == (a1 :> A) @@ (b1 :> B)

MCEveryRequest ==
    [kind : {"cas"}, old : Versions \cup {Nil}, next : Versions]
        \cup [kind : {"delete"}]

==============================================================================

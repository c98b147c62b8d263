----------------------------- MODULE MCWorkspace -----------------------------
(* Two interchangeable spaces and one path, for the violation of Workspace. *)
EXTENDS Workspace, TLC

CONSTANTS f, g, s1, s2

MCOnePath == {1}

MCSpaces == Permutations(Spaces)

==============================================================================

----------------------------- MODULE MCDirtyCheck -----------------------------
(* Few paths and files, which share a chunk, for the runs of DirtyCheck. *)
EXTENDS DirtyCheck

CONSTANTS c, d

MCPaths == 1 .. 2
MCFiles == {{c}, {c, d}}

==============================================================================

------------------------------- MODULE MCSpace -------------------------------
(* What a command reads in one space, a part at a time: the first state     *)
(* chooses the part that moves, the others stay in an initial state.        *)
(* StatusCache decides which files are read, and Splitter cuts a file that  *)
(* is read into the chunks that are put.                                    *)
EXTENDS StatusCache, TLC

CONSTANTS r1, r2, f, g, h, m1, m2

VARIABLES
    part,
    kInput, kParams, kRead, kBuf, kEmitted, kEof, kRefs, kState

kVars == <<kInput, kParams, kRead, kBuf, kEmitted, kEof, kRefs, kState>>

(* StatusCache: one path, two files of the same size and a larger one, a    *)
(* user at work, and the automatic snapshots.                               *)

MCOnePath == {1}

MCSizeOf == [x \in Files |-> IF x = h THEN 2 ELSE 1]

MCCommands == [r \in Processes |->
                  IF r = r1 THEN {"commit", "sync", "restore"} ELSE {"snapshot"}]

MCSymmetry == Permutations({f, g}) \cup Permutations(Mtimes)

(* Bound: no command begins after more than three changes and versions.     *)
MCBeginsEarly ==
    \A r \in Processes :
        pc[r] = "idle" /\ pc'[r] # "idle" => changes + Len(versions) <= 3

(* Splitter: words of three bits, minima below, at and above the window, a  *)
(* ceiling at the minimum, and parameters that are refused.                 *)
MCTable == [b \in {0, 1, 2} |-> CASE b = 0 -> {0} [] b = 1 -> {1, 2} [] b = 2 -> {0, 2}]

Parameters(min, max, mask) == [MinSize |-> min, MaxSize |-> max, MaskBits |-> mask]

K == INSTANCE Splitter WITH
    Byte <- {0, 1, 2}, Zero <- 0, Window <- 3, Table <- MCTable, MaxInput <- 7,
    Configs <- {Parameters(4, 6, 1), Parameters(2, 5, 2), Parameters(5, 5, 1),
                Parameters(0, 4, 1), Parameters(4, 3, 1), Parameters(2, 4, 3)},
    input <- kInput, params <- kParams, read <- kRead, buf <- kBuf,
    emitted <- kEmitted, eof <- kEof, refs <- kRefs, state <- kState

PartsInit ==
    /\ part \in {"cache", "chunks"}
    /\ part # "chunks" => kInput = <<>> /\ kParams = Parameters(4, 6, 1)
    /\ Init /\ K!Init

PartsNext ==
    \/ /\ part = "cache" /\ Next /\ Undisturbed /\ MtimesMove /\ MCBeginsEarly
       /\ UNCHANGED <<part, kVars>>
    \/ part = "chunks" /\ K!Next /\ UNCHANGED <<part, vars>>

PartsSpec == PartsInit /\ [][PartsNext]_<<part, vars, kVars>>

(* The types of the parts' variables; the window of the splitter never      *)
(* exceeds its ceiling.                                                     *)
PartsTypeOK == IF part = "cache" THEN TypeOK ELSE K!TypeOK

(* Where a file is cut depends on its content and on nothing else           *)
(* (chunk/chunk.go), and a file is put together from the whole of its input *)
(* or not at all (chunk/build.go).                                          *)
ChunksAreTheFile == part = "chunks" => K!CutsFollowTheContent /\ K!ResultIsWhole

==============================================================================

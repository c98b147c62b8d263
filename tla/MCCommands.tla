----------------------------- MODULE MCCommands -----------------------------
(* What the commands do, a part at a time: the first state chooses the part *)
(* that moves, the others stay in an initial state.  Two spaces on one ref  *)
(* are Workspace, the walks over their directories are Ignore, and the      *)
(* objects that are written and read again are ObjectText.                  *)
EXTENDS Workspace, TLC

CONSTANTS f, g, s1, s2, DoubleStar, Refused

VARIABLES
    part,
    iTree, iLines, iRules, iWalk, iTodo, iScanned, iReported,
    xObject, xText, xEdits

iVars == <<iTree, iLines, iRules, iWalk, iTodo, iScanned, iReported>>
xVars == <<xObject, xText, xEdits>>

------------------------------------------------------------------------------
(* Workspace: two interchangeable spaces and one path.                      *)

MCOnePath == {1}

(* A command that dies in one of these has not moved the ref ahead of the   *)
(* base, nor left a sync half applied.                                      *)
MCHarmlessSteps == {"scanned", "put", "headed"}

MCSymmetry == Permutations(Spaces) \cup Permutations({f, g})

------------------------------------------------------------------------------
(* Ignore: directories of three levels, with a symbolic link, a file of the *)
(* space itself and a name Normalize refuses; ignore files of two lines.    *)

MCTrees ==
    {{<<"a", "a", "a">>, <<"a", "b">>, <<"b">>},
     {<<"a", "b", "a">>, <<"a", "b", "b">>, <<"b", "a">>},
     {<<"a">>, <<"b", "a", "b">>, <<"b", "b">>, <<".fibula", "a">>},
     {<<"a", "a">>, <<"a", "bad">>, <<"b", "a", "a">>}}

Line(bang, front, segments, end) ==
    [blank |-> FALSE, bang |-> bang, slashInFront |-> front, segments |-> segments,
     slashAtEnd |-> end]

(* Patterns of no name, of one and of several. *)
MCLines ==
    {[Line(FALSE, FALSE, <<>>, FALSE) EXCEPT !.blank = TRUE], Line(TRUE, FALSE, <<>>, TRUE)}
    \cup {Line(bang, front, <<{"a"}>>, end) : bang, front, end \in BOOLEAN}
    \cup {Line(FALSE, FALSE, s, FALSE) :
              s \in {<<{"a"}, DoubleStar>>, <<DoubleStar, {"b"}>>, <<{"a"}, DoubleStar, {"b"}>>,
                     <<{"a", "b"}, {"b"}>>, <<{"a"}, {}>>, <<DoubleStar>>}}
    \cup {Line(TRUE, FALSE, <<{"a"}, {"b"}>>, end) : end \in BOOLEAN}

I == INSTANCE Ignore WITH
    SpaceDir <- ".fibula", Bad <- {"bad"}, Links <- {<<"a", "b", "a">>}, Trees <- MCTrees,
    IgnoreFiles <- {<<>>} \cup {<<x, y>> : x, y \in MCLines},
    tree <- iTree, lines <- iLines, rules <- iRules, walk <- iWalk, todo <- iTodo,
    scanned <- iScanned, reported <- iReported

------------------------------------------------------------------------------
(* ObjectText: versions with and without their optional fields, with the    *)
(* word message in the author and in the message, dated between two seconds *)
(* or expiring there; manifests whose order is not that of their first      *)
(* letters; files of up to three chunks.                                    *)

MCVersions ==
    {[type |-> "version", manifest |-> "id1", parents |-> parents, author |-> author,
      time |-> time, expiry |-> expiry, graph |-> graph, message |-> message] :
        parents \in {<<>>, <<"id2", "id1">>}, author \in {<<"a">>, <<"message">>},
        time \in {"t1", "t1.9"}, expiry \in {"t0", "t2", "t2.9"}, graph \in {"id0", "id2"},
        message \in {<<>>, <<"a">>, <<"a", "LF", "LF", "b">>, <<"a", "LF", "message", "LF", "b">>}}

Entry(p, size) == [path |-> p, file |-> "id1", size |-> size]
Chunk(id, length) == [id |-> id, length |-> length]

MCObjects ==
    MCVersions
    \cup {[type |-> "manifest", entries |-> entries] :
              entries \in {<<>>, <<Entry(<<"A", "/", "b">>, "1"), Entry(<<"a">>, "1")>>,
                           <<Entry(<<"a">>, "0"), Entry(<<"a", " ", "/", "b">>, "1"),
                             Entry(<<"b">>, "1")>>}}
    \cup {[type |-> "file", size |-> "0", chunks |-> <<>>],
          [type |-> "file", size |-> "3", chunks |-> <<Chunk("id2", "1"), Chunk("id1", "2")>>],
          [type |-> "file", size |-> "3",
           chunks |-> <<Chunk("id2", "1"), Chunk("id1", "1"), Chunk("id2", "1")>>]}

MCNumbers == [n \in {"0", "1", "2", "3"} |-> CASE n = "0" -> 0 [] n = "1" -> 1
                                            [] n = "2" -> 2 [] n = "3" -> 3]

MCSecondOf == [m \in {"t0", "t1", "t1.9", "t2", "t2.9"} |->
                   CASE m = "t1.9" -> "t1" [] m = "t2.9" -> "t2" [] OTHER -> m]

X == INSTANCE ObjectText WITH
    Ids <- {"id0", "id1", "id2"}, Times <- {"t0", "t1", "t2"}, SecondOf <- MCSecondOf,
    Numbers <- MCNumbers, Objects <- MCObjects, MaxEdits <- 1,
    Tokens <- {"LF", "TAB", " ", "CR", "BOM", "latin1", "01", "1", "t1.5", "t0", "id0", "id1",
               "parent", "message", "a", "A", "/", "."},
    object <- xObject, text <- xText, edits <- xEdits

------------------------------------------------------------------------------

PartsInit ==
    /\ part \in {"versions", "walks", "text"}
    /\ Init
    /\ part # "walks" => iTree = {<<"a">>, <<"b", "a", "b">>, <<"b", "b">>, <<".fibula", "a">>}
                         /\ iLines = <<>>
    /\ I!Init
    /\ part # "text" => xObject = [type |-> "manifest", entries |-> <<>>]
    /\ X!Init

PartsNext ==
    \/ part = "versions" /\ Next /\ UNCHANGED <<part, iVars, xVars>>
    \/ part = "walks" /\ I!Next /\ UNCHANGED <<part, vars, xVars>>
    \/ part = "text" /\ X!Next /\ UNCHANGED <<part, vars, iVars>>

PartsSpec == PartsInit /\ [][PartsNext]_<<part, vars, iVars, xVars>>

------------------------------------------------------------------------------

(* The types of the parts' variables.                                       *)
PartsTypeOK ==
    CASE part = "versions" -> TypeOK
      [] part = "walks" -> I!TypeOK
      [] part = "text" -> X!TypeOK

(* What a snapshot records is what the ignore file says (client/ignore.go). *)
ScanObeysTheFile == part = "walks" => I!ScanObeysTheFile

(* A clear deletes or reports every file (client/ignored.go).               *)
EveryFileIsAccountedFor == part = "walks" => I!EveryFileIsAccountedFor

(* A text and its meaning determine each other: what was written is read as *)
(* it was, to the second (object/version.go), and a text that is accepted   *)
(* is the one spelling of what it means, zero expiries and graphs aside     *)
(* (object/codec.go).                                                       *)
TextIsIdentity == part = "text" => X!OneSpelling /\ X!RoundTrip

(* A file object that has lost its end is refused (object/file.go).         *)
CutFileIsRefused == part = "text" => X!CutFileIsRefused

==============================================================================

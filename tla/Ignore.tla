------------------------------- MODULE Ignore -------------------------------
(***************************************************************************)
(* The ignore file and the two walks that obey it: src/client/ignore.go,   *)
(* scan.go and ignored.go.  Scan collects the files a snapshot records and *)
(* the dirty check hashes; collectIgnored names what a clear leaves        *)
(* behind.  They are separate code over the same directory.                *)
(*                                                                         *)
(* A path is a sequence of names.  A segment of a pattern is DoubleStar or *)
(* the set of names path.Match accepts for it, empty when it is malformed. *)
(***************************************************************************)
EXTENDS Naturals, Sequences, FiniteSetsExt, SequencesExt

CONSTANTS
    DoubleStar,
    SpaceDir,   \* the name .fibula
    Bad,        \* names that Normalize refuses
    Links,      \* paths that are symbolic links where they occur
    Trees,      \* the directories: the sets of the paths of their files
    IgnoreFiles \* the ignore files: sequences of lines

VARIABLES
    tree, lines,    \* the directory and its ignore file
    rules,          \* Ignore.rules
    walk,           \* "parse", "scan", "measure", "done" or "failed"
    todo,           \* entries WalkDir has yet to visit
    scanned,        \* what Scan returns
    reported        \* ClearCheck.Ignored

vars == <<tree, lines, rules, walk, todo, scanned, reported>>

IsDir(e) == \E f \in tree : IsStrictPrefix(e, f)

Children(e) == {SubSeq(f, 1, Len(e) + 1) : f \in {x \in tree : IsStrictPrefix(e, x)}}

------------------------------------------------------------------------------
(* Parsing.  A line is blank (a comment, or nothing) or has a pattern.     *)

(* Mutant of ParseLine: only a leading separator anchors. *)
ParseLineRooted(line) ==
    [negate   |-> line.bang,
     dirOnly  |-> line.slashAtEnd,
     segments |-> IF line.slashInFront THEN line.segments
                  ELSE <<DoubleStar>> \o line.segments]

(* A pattern with a separator other than the last is anchored. *)
ParseLine(line) ==
    [negate   |-> line.bang,
     dirOnly  |-> line.slashAtEnd,
     segments |-> IF line.slashInFront \/ Len(line.segments) > 1 THEN line.segments
                  ELSE <<DoubleStar>> \o line.segments]

Patterns(file) ==
    LET kept[k \in 0 .. Len(file)] ==
            IF k = 0 THEN <<>>
            ELSE IF file[k].blank THEN kept[k - 1] ELSE Append(kept[k - 1], file[k])
    IN  kept[Len(file)]

(* Mutant of MatchSegments: "**" takes at least one segment. *)
MatchSegmentsOneOrMore(pattern, path) ==
    LET n == Len(pattern)
        m == Len(path)
        matches[i \in 1 .. n + 1] ==
            IF i > n THEN {m + 1}
            ELSE IF pattern[i] = DoubleStar THEN {j \in 1 .. m + 1 : \E k \in matches[i + 1] : j < k}
            ELSE {j \in 1 .. m : path[j] \in pattern[i] /\ j + 1 \in matches[i + 1]}
    IN  1 \in matches[1]

(* matchSegments: "**" takes zero, one, two ... segments, any other one.   *)
(* matches[i] is where the rests of the path start that the rest of the    *)
(* pattern from its i-th segment on matches.                               *)
MatchSegments(pattern, path) ==
    LET n == Len(pattern)
        m == Len(path)
        matches[i \in 1 .. n + 1] ==
            IF i > n THEN {m + 1}
            ELSE IF pattern[i] = DoubleStar THEN {j \in 1 .. m + 1 : \E k \in matches[i + 1] : j <= k}
            ELSE {j \in 1 .. m : path[j] \in pattern[i] /\ j + 1 \in matches[i + 1]}
    IN  1 \in matches[1]

(* Match: the last rule that matches decides. *)
Match(path, isDir) ==
    LET hits == {k \in DOMAIN rules :
                    /\ rules[k].dirOnly => isDir
                    /\ MatchSegments(rules[k].segments, path)}
    IN  hits # {} /\ ~rules[Max(hits)].negate

------------------------------------------------------------------------------

Init ==
    /\ tree \in Trees
    /\ lines \in IgnoreFiles
    /\ rules = <<>>
    /\ walk = "parse"
    /\ todo = {}
    /\ scanned = {}
    /\ reported = {}

(* ParseIgnore: one line without a pattern refuses the whole file. *)
Parse ==
    /\ walk = "parse"
    /\ LET patterns == Patterns(lines)
           refused  == \E k \in DOMAIN patterns : patterns[k].segments = <<>>
       IN  /\ rules' = IF refused THEN <<>>
                       ELSE [k \in DOMAIN patterns |-> ParseLine(patterns[k])]
           /\ walk' = IF refused THEN "failed" ELSE "scan"
           /\ todo' = IF refused THEN {} ELSE Children(<<>>)
    /\ UNCHANGED <<tree, lines, scanned, reported>>

(* The entry WalkDir visits next; the order decides nothing here. *)
Visited == CHOOSE e \in todo : TRUE

Past(e)    == todo' = todo \ {e}
Descend(e) == todo' = (todo \ {e}) \cup Children(e)

(* Mutant of SkipDir: an ignored directory is descended into. *)
SkipDirOwn(e) == e = <<SpaceDir>>

(* skipIgnoredDir *)
SkipDir(e) == e = <<SpaceDir>> \/ Match(e, TRUE)

(* Scan, consider: a name that cannot be normalised fails the scan. *)
ScanEntry ==
    /\ walk = "scan" /\ todo # {}
    /\ LET e == Visited
       IN  \/ /\ Last(e) \in Bad
              /\ walk' = "failed"
              /\ UNCHANGED <<todo, scanned>>
           \/ /\ Last(e) \notin Bad /\ IsDir(e)
              /\ IF SkipDir(e) THEN Past(e) ELSE Descend(e)
              /\ UNCHANGED <<walk, scanned>>
           \/ /\ Last(e) \notin Bad /\ ~IsDir(e)
              /\ scanned' = IF e \in Links \/ Match(e, FALSE) THEN scanned
                            ELSE scanned \cup {e}
              /\ Past(e)
              /\ UNCHANGED walk
    /\ UNCHANGED <<tree, lines, rules, reported>>

(* collectIgnored looks only when there are rules. *)
ScanDone ==
    /\ walk = "scan" /\ todo = {}
    /\ walk' = "measure"
    /\ todo' = IF rules = <<>> THEN {} ELSE Children(<<>>)
    /\ UNCHANGED <<tree, lines, rules, scanned, reported>>

(* Mutant of Enters: what is measured whole is descended into as well. *)
EntersAll(e) == IsDir(e) /\ e # <<SpaceDir>>

(* measureIgnored: an ignored directory is named and measured whole. *)
Enters(e) == IsDir(e) /\ e # <<SpaceDir>> /\ ~Match(e, TRUE)

MeasureEntry ==
    /\ walk = "measure" /\ todo # {}
    /\ LET e == Visited
       IN  /\ reported' = IF e # <<SpaceDir>> /\ Match(e, IsDir(e))
                          THEN reported \cup {e} ELSE reported
           /\ IF Enters(e) THEN Descend(e) ELSE Past(e)
    /\ UNCHANGED <<tree, lines, rules, walk, scanned>>

MeasureDone ==
    /\ walk = "measure" /\ todo = {}
    /\ walk' = "done"
    /\ UNCHANGED <<tree, lines, rules, todo, scanned, reported>>

Ended == walk \in {"done", "failed"} /\ UNCHANGED vars

Next == Parse \/ ScanEntry \/ ScanDone \/ MeasureEntry \/ MeasureDone \/ Ended

Spec == Init /\ [][Next]_vars

------------------------------------------------------------------------------

(* The types of the variables. *)
TypeOK ==
    /\ tree \in Trees
    /\ lines \in IgnoreFiles
    /\ \A k \in DOMAIN rules : DOMAIN rules[k] = {"negate", "dirOnly", "segments"}
    /\ walk \in {"parse", "scan", "measure", "done", "failed"}
    /\ \A e \in todo : e \in tree \/ IsDir(e)
    /\ scanned \subseteq tree
    /\ \A e \in reported : e \in tree \/ IsDir(e)

(* What gitignore means by a match, without a search: the segments of the  *)
(* path are laid on those of the pattern from left to right, any number on *)
(* a "**" and one each on the others.                                      *)
Aligns(pattern, path) ==
    \E at \in [DOMAIN path -> DOMAIN pattern] :
        /\ \A i, j \in DOMAIN path : i < j => at[i] <= at[j]
        /\ \A i \in DOMAIN path :
              pattern[at[i]] = DoubleStar \/ path[i] \in pattern[at[i]]
        /\ \A k \in DOMAIN pattern :
              pattern[k] # DoubleStar =>
                  \E i \in DOMAIN path : at[i] = k /\ \A j \in DOMAIN path : at[j] = k => j = i

(* client/ignore.go, Match as a user reads the rules in the file: of the   *)
(* lines whose pattern covers the path, anchored when it has a separator,  *)
(* the last one decides.                                                   *)
Covers(line, path, isDir) ==
    /\ ~line.blank
    /\ line.slashAtEnd => isDir
    /\ LET from == IF line.slashInFront \/ Len(line.segments) # 1 THEN {1} ELSE DOMAIN path
       IN  \E k \in from : Aligns(line.segments, SubSeq(path, k, Len(path)))

IgnoredByFile(path, isDir) ==
    \E k \in DOMAIN lines :
        /\ Covers(lines[k], path, isDir) /\ ~lines[k].bang
        /\ \A j \in k + 1 .. Len(lines) : ~Covers(lines[j], path, isDir)

(* client/scan.go: a file is recorded unless a rule ignores it or a        *)
(* directory above it, whatever a later rule says of the file.             *)
ScanObeysTheFile ==
    walk \in {"measure", "done"} =>
        scanned = {f \in tree :
                      /\ f \notin Links /\ f[1] # SpaceDir
                      /\ ~IgnoredByFile(f, FALSE)
                      /\ \A k \in 1 .. Len(f) - 1 : ~IgnoredByFile(SubSeq(f, 1, k), TRUE)}

(* client/ignored.go: "measures what will be left behind".  Every regular  *)
(* file is either recorded and deleted by a clear, or within exactly one   *)
(* reported entry: none is passed over by both walks, none counted twice.  *)
EveryFileIsAccountedFor ==
    walk = "done" =>
        \A f \in {x \in tree : x \notin Links /\ x[1] # SpaceDir} :
            Cardinality({r \in reported : IsPrefix(r, f)}) = (IF f \in scanned THEN 0 ELSE 1)

==============================================================================

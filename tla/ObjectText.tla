------------------------------ MODULE ObjectText ------------------------------
(***************************************************************************)
(* The text format of the objects, src/object/: what Marshal writes and    *)
(* which texts Unmarshal accepts, for versions, manifests and file         *)
(* objects.  An object's ID is a hash of its text, so a state must have    *)
(* one spelling only; the ID of a file object is that of the content, so   *)
(* nothing but the parser notices one that is damaged.                     *)
(*                                                                         *)
(* A text is a sequence of tokens: the characters the rules look at, and   *)
(* whole words, IDs, times and numbers, inside which they do not look.     *)
(* "id0" and "t0" are the zero ID and the zero time, "t1.5" and "01" are   *)
(* spellings of "t1" and of "1" that a lenient parser would take, and      *)
(* "latin1" is no UTF-8.                                                   *)
(***************************************************************************)
EXTENDS Naturals, Sequences, FiniteSets, SequencesExt

CONSTANTS
    Ids,        \* the IDs, "id0" among them
    Times,      \* the whole seconds, "t0" among them
    SecondOf,   \* the second that each moment lies in, itself if it is one
    Numbers,    \* what each spelling of a number means; "0" is one
    Objects,    \* the objects that are written, no two of them the same
    Tokens,     \* what an editor puts into a text
    MaxEdits,   \* bound: how often a text is edited
    Refused     \* the answer of Marshal and Unmarshal that is none

VARIABLES
    object,     \* what was written
    text,       \* what has become of its text
    edits       \* how often that was edited

vars == <<object, text, edits>>

(* Bytewise order; where it matters, a word begins with its own letter. *)
Order == <<"LF", "TAB", "CR", " ", ".", "/", "A", "B", "a", "b", "c">>

Rank(token) == IF token \in ToSet(Order) THEN SelectInSeq(Order, LAMBDA x : x = token)
               ELSE Len(Order) + 1

Less(p, q) ==
    \/ Len(p) < Len(q) /\ IsPrefix(p, q)
    \/ \E i \in DOMAIN p \cap DOMAIN q :
          SubSeq(p, 1, i - 1) = SubSeq(q, 1, i - 1) /\ Rank(p[i]) < Rank(q[i])

Folded(p) == [i \in DOMAIN p |-> CASE p[i] = "A" -> "a" [] p[i] = "B" -> "b" [] OTHER -> p[i]]

------------------------------------------------------------------------------

(* strings.Split *)
Split(s, separator) ==
    LET parts[i \in 0 .. Len(s)] ==
            IF i = 0 THEN <<<<>>>>
            ELSE LET before == parts[i - 1]
                 IN  IF s[i] = separator THEN Append(before, <<>>)
                     ELSE [before EXCEPT ![Len(before)] = Append(@, s[i])]
    IN  parts[Len(s)]

Ended(parts, mark) == FlattenSeq([k \in DOMAIN parts |-> Append(parts[k], mark)])

(* The fields of a line, a tab between any two. *)
Line(fields) == Front(Ended(fields, "TAB"))

(* newEncoder, and line for each of the lines, which are lists of fields. *)
Encoded(header, lines) ==
    <<header, "LF">> \o Ended([k \in DOMAIN lines |-> Line(lines[k])], "LF")

(* A line of a key and one word. *)
Keyed(key, word) == <<<<key>>, <<word>>>>

EndsInSpace(line) == line # <<>> /\ Last(line) \in {" ", "TAB"}

(* splitCanonicalLines and newDecoder: the lines below the header. *)
LinesOf(head, header) ==
    LET lines == Split(Front(head), "LF")
    IN  IF /\ head # <<>> /\ Last(head) = "LF" /\ Head(head) # "BOM"
           /\ ToSet(head) \cap {"CR", "latin1"} = {}
           /\ \A k \in DOMAIN lines : lines[k] # <<>> /\ ~EndsInSpace(lines[k])
           /\ lines[1] = <<header>>
        THEN [k \in 1 .. Len(lines) - 1 |-> Split(lines[k + 1], "TAB")]
        ELSE Refused

Word(field, words) == Len(field) = 1 /\ field[1] \in words

(* Mutant of ReadsNumber: a leading zero is accepted. *)
ReadsNumberLoosely(field) == Word(field, DOMAIN Numbers \cup {"01"})

(* parseInt *)
ReadsNumber(field) == Word(field, DOMAIN Numbers)

(* Mutant of ReadsTime: what time.Parse accepts is accepted. *)
ReadsTimeLoosely(field) == Word(field, Times \cup {"t1.5"})

(* parseTime; what it returns is the second that is spelled. *)
ReadsTime(field) == Word(field, Times)

(* What a number or a time means, however it is spelled. *)
Value(word) == IF word = "01" THEN "1" ELSE IF word = "t1.5" THEN "t1" ELSE word

(* checkText *)
ValidText(value) ==
    /\ value # <<>> /\ Head(value) # " " /\ Last(value) # " "
    /\ ToSet(value) \cap {"latin1", "TAB", "CR", "LF"} = {}

(* path.Validate *)
ValidPath(p) ==
    /\ p # <<>> /\ ToSet(p) \cap {"latin1", "decomposed", "\\", "TAB", "CR", "LF"} = {}
    /\ \A k \in DOMAIN Split(p, "/") : Split(p, "/")[k] \notin {<<>>, <<".">>, <<".", ".">>}

------------------------------------------------------------------------------
(* Versions                                                                *)

(* validateMessageBlock *)
ValidMessage(block) ==
    /\ block # <<>> /\ Last(block) = "LF" /\ "CR" \notin ToSet(block)
    /\ LET lines == Split(Front(block), "LF")
       IN  /\ \A k \in DOMAIN lines : ~EndsInSpace(lines[k])
           /\ lines[1] # <<>> /\ Last(lines) # <<>>

ValidVersion(v) ==
    /\ v.manifest # "id0" /\ v.time # "t0"
    /\ ValidText(v.author)
    /\ "id0" \notin ToSet(v.parents) /\ IsInjective(v.parents)
    /\ v.message # <<>> => ValidMessage(v.message \o <<"LF">>)

(* Mutant of FormatTime: fractions of a second are written out. *)
FormatTimeExactly(moment) == moment

(* formatTime: a text has no room for less than a second. *)
FormatTime(moment) == SecondOf[moment]

(* The zero expiry and the zero graph are those that are absent. *)
VersionLines(v) ==
    <<Keyed("manifest", v.manifest)>>
    \o [k \in DOMAIN v.parents |-> Keyed("parent", v.parents[k])]
    \o <<<<<<"author">>, v.author>>, Keyed("time", FormatTime(v.time))>>
    \o (IF v.expiry = "t0" THEN <<>> ELSE <<Keyed("expiry", FormatTime(v.expiry))>>)
    \o (IF v.graph = "id0" THEN <<>> ELSE <<Keyed("graph", v.graph)>>)

WriteVersion(v) ==
    Encoded("version v1", VersionLines(v))
    \o (IF v.message = <<>> THEN <<>> ELSE <<"message", "LF">> \o v.message \o <<"LF">>)

Marker == <<"LF", "message", "LF">>

Markers(data) == {i \in 1 .. Len(data) - 2 : SubSeq(data, i, i + 2) = Marker}

(* Mutant of MessageStart: the block starts at the last marker. *)
MessageStartLast(data) == CHOOSE i \in Markers(data) : \A j \in Markers(data) : i >= j

(* cutMessage *)
MessageStart(data) == CHOOSE i \in Markers(data) : \A j \in Markers(data) : i <= j

(* Optional lines follow the time, an absent one leaves its place to the next. *)
HasKey(lines, k, key) == k \in DOMAIN lines /\ lines[k][1] = <<key>>

AreParents(lines, n) ==
    (\A k \in 2 .. n + 1 : HasKey(lines, k, "parent")) /\ ~HasKey(lines, n + 2, "parent")

ParentsOf(lines) == CHOOSE n \in 0 .. Len(lines) : AreParents(lines, n)

GraphAt(lines, n) == IF HasKey(lines, n + 4, "expiry") THEN n + 5 ELSE n + 4

EndAt(lines, n) == IF HasKey(lines, GraphAt(lines, n), "graph") THEN GraphAt(lines, n)
                   ELSE GraphAt(lines, n) - 1

(* The version that the lines and the message say, n being its parents. *)
VersionOf(lines, n, message) ==
    LET word(k) == lines[k][2][1]
    IN  [type |-> "version",
         manifest |-> word(1), parents |-> [k \in 1 .. n |-> word(k + 1)],
         author |-> lines[n + 2][2], time |-> Value(word(n + 3)),
         expiry |-> IF HasKey(lines, n + 4, "expiry") THEN Value(word(n + 4)) ELSE "t0",
         graph |-> IF HasKey(lines, GraphAt(lines, n), "graph") THEN word(GraphAt(lines, n))
                   ELSE "id0",
         message |-> message]

AreVersionLines(lines, n) ==
    /\ Len(lines) = EndAt(lines, n)
    /\ \A k \in DOMAIN lines : Len(lines[k]) = 2
    /\ HasKey(lines, 1, "manifest")
    /\ HasKey(lines, n + 2, "author")
    /\ HasKey(lines, n + 3, "time")
    /\ \A k \in 1 .. n + 1 : Word(lines[k][2], Ids)
    /\ ReadsTime(lines[n + 3][2])
    /\ HasKey(lines, n + 4, "expiry") => ReadsTime(lines[n + 4][2])
    /\ HasKey(lines, GraphAt(lines, n), "graph") => Word(lines[GraphAt(lines, n)][2], Ids)

ReadVersion(data) ==
    LET cut == Markers(data) # {}
        head == IF cut THEN SubSeq(data, 1, MessageStart(data)) ELSE data
        block == IF cut THEN SubSeq(data, MessageStart(data) + 3, Len(data)) ELSE <<>>
        lines == LinesOf(head, "version v1")
        v == VersionOf(lines, ParentsOf(lines), IF cut THEN Front(block) ELSE <<>>)
    IN  IF /\ cut => ValidMessage(block)
           /\ lines # Refused /\ AreVersionLines(lines, ParentsOf(lines))
           /\ ValidVersion(v)
        THEN v ELSE Refused

------------------------------------------------------------------------------
(* Manifests and file objects                                              *)

(* Mutant of ValidManifest: the entries may be in any order. *)
ValidManifestUnsorted(m) ==
    /\ \A k \in DOMAIN m.entries : ValidPath(m.entries[k].path) /\ m.entries[k].file # "id0"
    /\ \A j, k \in DOMAIN m.entries :
          j < k => Folded(m.entries[j].path) # Folded(m.entries[k].path)

ValidManifest(m) ==
    /\ \A k \in DOMAIN m.entries : ValidPath(m.entries[k].path) /\ m.entries[k].file # "id0"
    /\ \A k \in DOMAIN m.entries \ {1} : Less(m.entries[k - 1].path, m.entries[k].path)
    /\ \A j, k \in DOMAIN m.entries :
          j < k => Folded(m.entries[j].path) # Folded(m.entries[k].path)

WriteManifest(m) ==
    Encoded("manifest v1", [k \in DOMAIN m.entries |->
        <<m.entries[k].path, <<m.entries[k].file>>, <<m.entries[k].size>>>>])

ReadManifest(data) ==
    LET lines == LinesOf(data, "manifest v1")
        m == [type |-> "manifest",
              entries |-> [k \in DOMAIN lines |->
                  [path |-> lines[k][1], file |-> lines[k][2][1], size |-> Value(lines[k][3][1])]]]
    IN  IF /\ lines # Refused
           /\ \A k \in DOMAIN lines :
                 Len(lines[k]) = 3 /\ Word(lines[k][2], Ids) /\ ReadsNumber(lines[k][3])
           /\ ValidManifest(m)
        THEN m ELSE Refused

Total(f) ==
    LET total[k \in 0 .. Len(f.chunks)] ==
            IF k = 0 THEN 0 ELSE total[k - 1] + Numbers[f.chunks[k].length]
    IN  total[Len(f.chunks)]

(* Mutant of ValidFile: the size is not compared with the chunks. *)
ValidFileAnySize(f) ==
    \A k \in DOMAIN f.chunks : f.chunks[k].length # "0" /\ f.chunks[k].id # "id0"

ValidFile(f) ==
    /\ \A k \in DOMAIN f.chunks : f.chunks[k].length # "0" /\ f.chunks[k].id # "id0"
    /\ Total(f) = Numbers[f.size]

WriteFile(f) ==
    Encoded("file v1", <<Keyed("size", f.size)>>
        \o [k \in DOMAIN f.chunks |-> <<<<f.chunks[k].id>>, <<f.chunks[k].length>>>>])

ReadFile(data) ==
    LET lines == LinesOf(data, "file v1")
        o == [type |-> "file", size |-> Value(lines[1][2][1]),
              chunks |-> [k \in 1 .. Len(lines) - 1 |->
                  [id |-> lines[k + 1][1][1], length |-> Value(lines[k + 1][2][1])]]]
    IN  IF /\ lines # Refused /\ lines # <<>>
           /\ \A k \in DOMAIN lines : Len(lines[k]) = 2 /\ ReadsNumber(lines[k][2])
           /\ lines[1][1] = <<"size">>
           /\ \A k \in DOMAIN lines \ {1} : Word(lines[k][1], Ids)
           /\ ValidFile(o)
        THEN o ELSE Refused

------------------------------------------------------------------------------

Valid(x) == CASE x.type = "version" -> ValidVersion(x)
              [] x.type = "manifest" -> ValidManifest(x)
              [] x.type = "file" -> ValidFile(x)

Marshal(x) == CASE x.type = "version" -> WriteVersion(x)
                [] x.type = "manifest" -> WriteManifest(x)
                [] x.type = "file" -> WriteFile(x)

Unmarshal(data, type) == CASE type = "version" -> ReadVersion(data)
                           [] type = "manifest" -> ReadManifest(data)
                           [] type = "file" -> ReadFile(data)

Init ==
    /\ object \in Objects /\ Valid(object)
    /\ text = Marshal(object)
    /\ edits = 0

Edited(new) == text' = new /\ edits' = edits + 1 /\ UNCHANGED object

Insert(i, token) == Edited(InsertAt(text, i, token))

Replace(i, token) == Edited(ReplaceAt(text, i, token))

Delete(i) == Edited(RemoveAt(text, i))

(* The text from the i-th token on is lost. *)
CutShort(i) == Edited(SubSeq(text, 1, i - 1))

(* The line that ends with the i-th token and the next one change places. *)
SwapLines(i) ==
    LET lines == Split(text, "LF")
        k == Len(Split(SubSeq(text, 1, i), "LF")) - 1
    IN  /\ text[i] = "LF" /\ k + 1 < Len(lines)
        /\ Edited(SubSeq(Ended([lines EXCEPT ![k] = lines[k + 1], ![k + 1] = lines[k]], "LF"),
                         1, Len(text)))

Next ==
    /\ edits < MaxEdits
    /\ \E i \in 1 .. Len(text) + 1 :
          \/ \E token \in Tokens : Insert(i, token) \/ (i <= Len(text) /\ Replace(i, token))
          \/ i <= Len(text) /\ (Delete(i) \/ CutShort(i) \/ SwapLines(i))

Spec == Init /\ [][Next]_vars

------------------------------------------------------------------------------

TypeOK ==
    /\ object \in Objects
    /\ edits \in 0 .. MaxEdits
    /\ Len(text) <= Len(Marshal(object)) + MaxEdits

Read == Unmarshal(text, object.type)

(* The object that x means: the order of a manifest's entries means        *)
(* nothing.                                                                *)
Meant(x) ==
    IF x.type # "manifest" THEN x
    ELSE [x EXCEPT !.entries = [k \in DOMAIN @ |-> CHOOSE e \in ToSet(@) :
             Cardinality({d \in ToSet(@) : Less(d.path, e.path)}) = k - 1]]

(* A text that spells out a zero expiry or a zero graph. *)
SpellsZero ==
    \E i \in 1 .. Len(text) - 2 :
        SubSeq(text, i, i + 2) \in {<<"expiry", "TAB", "t0">>, <<"graph", "TAB", "id0">>}

(* A text that is accepted is the one Marshal writes for what it means, so *)
(* that no state has two IDs (codec.go; manifest.go, UnmarshalManifest).   *)
(* Optional fields that say zero are the exception.                        *)
OneSpelling == Read # Refused => text = Marshal(Meant(Read)) \/ SpellsZero

(* A version that is dated to the second. *)
AtSeconds(x) ==
    IF x.type # "version" THEN x ELSE [x EXCEPT !.time = SecondOf[@], !.expiry = SecondOf[@]]

(* What Marshal has written Unmarshal reads as it was, whatever the        *)
(* message and the author contain (version.go, cutMessage); fractions of a *)
(* second are all that is lost (roundtrip_test.go,                         *)
(* TestTimestampsAreTruncatedToSeconds).                                   *)
RoundTrip == edits = 0 => Read = AtSeconds(object)

(* A file object that has lost its end is refused, wherever it was cut;    *)
(* nothing else would notice (file.go, validate; verify.go, digestFor).    *)
CutFileIsRefused ==
    object.type = "file" /\ IsStrictPrefix(text, Marshal(object)) => Read = Refused

==============================================================================

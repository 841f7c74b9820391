------------------------------ MODULE MCIndexing ------------------------------
(* A note is chunked, or a generation is built and opened again. *)
EXTENDS Chunker, GenerationFile

Line(kind, depth, bytes) == [kind |-> kind, depth |-> depth, bytes |-> bytes]

\* Three depths of heading, both fences, an empty line, words of one byte and
\* words of characters of two and three bytes.
MCLines == {
  Line("atx", 1, <<"x", "n">>), Line("atx", 2, <<"x", "n">>), Line("atx", 3, <<"x", "n">>),
  Line("dashes", 2, <<"x", "n">>), Line("fence", 1, <<"x", "n">>), Line("fence", 2, <<"x", "n">>),
  Line("text", 0, <<"n">>), Line("text", 0, <<"x", " ", "x", " ", "x", "n">>),
  Line("text", 0, <<"x", "c", "c", "x", "c", "n">>)}

Joined(lines) == FlattenSeq([i \in DOMAIN lines |-> lines[i].bytes])
NoteOf(lines) ==
  [bytes |-> Joined(lines),
   lines |-> [i \in DOMAIN lines |-> [kind |-> lines[i].kind, depth |-> lines[i].depth,
                                     start |-> Len(Joined(SubSeq(lines, 1, i - 1)))]]]
MCNotes == {NoteOf(lines) : lines \in UNION {[1..n -> MCLines] : n \in 1..4}}

ChunkOf(source, position, part, ordinal, text, parent, meta) ==
  [source |-> source, path |-> source, position |-> position, part |-> part,
   ordinal |-> ordinal, text |-> text, parent |-> parent, meta |-> meta]

Title == ChunkOf("a", <<1>>, 1, 1, "t", <<>>, "m")
Rest == ChunkOf("a", <<1>>, 2, 2, "u", <<>>, "m")
Again == ChunkOf("a", <<1>>, 2, 3, "u", <<>>, "m")
Below == ChunkOf("a", <<1, 1>>, 1, 2, "u", ChunkKey(Title), "m")
Other == ChunkOf("b", <<1>>, 1, 1, "t", <<>>, "m")
Newer == ChunkOf("b", <<1>>, 1, 1, "u", <<>>, "n")

Plane == [dimensions |-> 2]
Axis == [dimensions |-> 1]
MCSpaces == {NoSpace, Plane, Axis}
VectorsOf(set, value) == {[chunk |-> k, value |-> value] : k \in set}
Recorded(set) == {[key |-> c.source, path |-> c.path, meta |-> c.meta] : c \in set}
Declares(source, index) == [source |-> source, field |-> "supersedes", index |-> index]

InputOf(schema, set, eligible, space, vectors, declarations) ==
  [schema |-> schema, chunks |-> set, space |-> space, vectors |-> vectors,
   sources |-> IF schema = 3 THEN Recorded(set) ELSE {},
   declarations |-> declarations, eligible |-> eligible]

Sets == {{Title, Other}, {Title, Below}, {Title, Rest, Newer}, {Below}, {Title, Below, Rest}, {Title, Rest, Again}}

MCInputs ==
  {InputOf(2, set, {}, space, VectorsOf({ChunkKey(c) : c \in some}, v), {}) :
     set \in {{Title, Other}, {Title, Below}, {Title, Rest, Newer}}, space \in MCSpaces,
     some \in {{}, {Title}, {Title, Other}}, v \in {<<0, 0>>, <<0, 1>>, <<0>>}}
  \cup
  {InputOf(3, set, {ChunkKey(Title)}, space, VectorsOf(some, v), d) :
     set \in Sets, space \in MCSpaces,
     some \in {{}, {ChunkKey(Title)}, {ChunkKey(Title), ChunkKey(Other)}},
     v \in {<<0, 1>>, <<0>>},
     d \in {{}, {Declares("a", 0)}, {Declares("a", 1)}}}

Nothing == input = NoFile /\ file = NoFile /\ alterations = 0 /\ outcome = "nothing"

NoNote ==
  /\ note = NoFile /\ at = 0 /\ fenced = 0 /\ previous = 0
  /\ sections = <<>> /\ stack = <<>> /\ counts = <<>>
  /\ section = 0 /\ token = 0 /\ window = <<>> /\ pieces = <<>>
  /\ chunks = <<>> /\ status = "nothing"

Init ==
  \/ ChunkInit /\ Nothing
  \/ FileInit /\ NoNote

Next ==
  \/ ChunkNext /\ UNCHANGED fileVars
  \/ FileNext /\ UNCHANGED chunkVars

Spec == Init /\ [][Next]_<<chunkVars, fileVars>>
=============================================================================

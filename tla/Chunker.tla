-------------------------------- MODULE Chunker --------------------------------
(***************************************************************************)
(* chunk_source: the headings of a note give its sections; a section that   *)
(* is too long is cut into pieces of at most MaxTokens words and MaxBytes   *)
(* bytes, which may overlap by some words; the pieces become chunks, and    *)
(* the chunks are checked as a set.                                         *)
(*                                                                         *)
(* A byte is "x" (the first of a character of a word), "c" (a later one),   *)
(* " " or "n" (a line break).  Offsets in a section are half-open.          *)
(***************************************************************************)
EXTENDS Integers, Sequences, FiniteSets, FiniteSetsExt, SequencesExt

CONSTANTS
  MaxTokens, Overlap, MaxBytes,
  WordSize,       \* usize counts modulo this; a release build wraps
  Notes           \* [bytes, lines]: the sources; a line has [kind, depth or fence marker, start]

Byte == {"x", "c", " ", "n"}
Kind == {"atx", "equals", "dashes", "dots", "fence", "text"}

\* UTF-8 in lines: a line begins behind a break, and a later byte of a character
\* follows another of it; none is longer than MaxBytes (16384). A heading is as
\* deep as its #, = or - says, and a # is no blank.
ValidNote(n) ==
  /\ n.bytes \in Seq(Byte) /\ Len(n.bytes) < WordSize
  /\ n.lines \in Seq([kind : Kind, depth : Nat, start : 0..Len(n.bytes)]) /\ n.lines # <<>>
  /\ \A i \in DOMAIN n.lines :
       /\ \A j \in 1..i - 1 : n.lines[j].start < n.lines[i].start
       /\ IF i = 1 THEN n.lines[i].start = 0 ELSE n.bytes[n.lines[i].start] = "n"
       /\ n.lines[i].kind \in {"atx", "equals", "dashes"} => n.lines[i].depth > 0
       /\ n.lines[i].kind = "atx" =>
            \E b \in n.lines[i].start + 1..Len(n.bytes) :
              n.bytes[b] = "x" /\ \A j \in i + 1..Len(n.lines) : b <= n.lines[j].start
  /\ \A i \in DOMAIN n.bytes :
       n.bytes[i] = "c" => i # 1 /\ n.bytes[i - 1] \in {"x", "c"}
  /\ \A i \in 1..Len(n.bytes) - MaxBytes + 1 :
       \E j \in i..i + MaxBytes - 1 : n.bytes[j] # "c"

ASSUME ChunkerAssumption ==
  /\ MaxTokens \in Nat \ {0} /\ Overlap \in 0..MaxTokens - 1   \* ChunkingOptions::validate
  /\ MaxBytes \in Nat \ {0}
  /\ WordSize \in Nat /\ MaxTokens < WordSize
  /\ \A n \in Notes : ValidNote(n)

VARIABLES
  note,        \* the source
  at,          \* the next line to read
  fenced,      \* the marker of the open fence, or 0
  previous,    \* the line an underline would make a heading, or 0
  sections,    \* [first, depth, position, parent]
  stack,       \* the open ones
  counts,      \* how many have a parent and a depth
  section,     \* the one that is cut
  token,       \* the first word of its next window
  window,      \* <<>>, or <<start, end, words up to its end>>
  pieces,      \* <<start, end>> of what was cut from it
  chunks,      \* [section, position, part, piece, parent]
  status       \* "read", "cut", "chunked" or "refused"

outlineVars == <<at, fenced, previous, sections, stack, counts>>
windowVars == <<token, window, pieces>>
chunkVars == <<note, outlineVars, section, windowVars, chunks, status>>

-----------------------------------------------------------------------------
(* heading_events and sections_of *)

IsBlank(bytes) == \A i \in DOMAIN bytes : bytes[i] \in {" ", "n"}

\* Where a line starts, and the bytes from there to another.
Offset(i) == IF i > Len(note.lines) THEN Len(note.bytes) ELSE note.lines[i].start
Bytes(i, j) == SubSeq(note.bytes, Offset(i) + 1, Offset(j))

\* frontmatter_end
BodyStart ==
  LET ends == {i \in 2..Len(note.lines) : note.lines[i].kind \in {"dashes", "dots"}} IN
  IF note.lines[1].kind = "dashes" /\ ends # {} THEN Min(ends) + 1 ELSE 1

ChunkInit ==
  /\ note \in Notes
  /\ at = BodyStart /\ fenced = 0 /\ previous = 0
  /\ sections = <<>> /\ stack = <<>> /\ counts = [k \in {} |-> 0]
  /\ section = 0 /\ token = 0 /\ window = <<>> /\ pieces = <<>>
  /\ chunks = <<>> /\ status = "read"

\* Text before the first heading is a section of its own.
Root(next) ==
  IF sections # <<>> \/ IsBlank(Bytes(BodyStart, next)) THEN sections
  ELSE <<[first |-> BodyStart, depth |-> 0, position |-> <<<<0, 1>>>>, parent |-> <<>>]>>

\* Mutant of StillOpen: a section stays open beside one of its own depth.
StillOpen_SameDepth(depth) ==
  SubSeq(stack, 1, Max({0} \cup {i \in DOMAIN stack : stack[i].depth <= depth}))

\* Those that are as deep are closed, from the last one on.
StillOpen(depth) ==
  SubSeq(stack, 1, Max({0} \cup {i \in DOMAIN stack : stack[i].depth < depth}))

\* A heading is numbered among those of its depth with the same parent.
Heading(first, depth) ==
  LET open == StillOpen(depth)
      parent == IF open = <<>> THEN <<>> ELSE Last(open).position
      key == <<parent, depth>>
      ordinal == IF key \in DOMAIN counts THEN counts[key] + 1 ELSE 1
      new == [first |-> first, depth |-> depth,
              position |-> Append(parent, <<depth, ordinal>>), parent |-> parent] IN
  /\ sections' = Append(Root(first), new)
  /\ stack' = Append(open, new)
  /\ counts' = [k \in DOMAIN counts \cup {key} |-> IF k = key THEN ordinal ELSE counts[k]]

\* heading_events, and the sections of sections_of as their headings are met.
ReadLine ==
  /\ status = "read" /\ at <= Len(note.lines)
  /\ LET line == note.lines[at]
         underline == line.kind \in {"equals", "dashes"} /\ previous # 0 IN
     \/ /\ line.kind = "fence"
        /\ fenced' = CASE fenced = 0 -> line.depth [] fenced = line.depth -> 0 [] OTHER -> fenced
        /\ previous' = 0 /\ UNCHANGED <<sections, stack, counts>>
     \/ /\ line.kind # "fence" /\ fenced # 0
        /\ UNCHANGED <<fenced, previous, sections, stack, counts>>
     \/ /\ line.kind = "atx" /\ fenced = 0
        /\ Heading(at, line.depth) /\ previous' = 0 /\ UNCHANGED fenced
     \/ /\ underline /\ fenced = 0
        /\ Heading(previous, line.depth) /\ previous' = 0 /\ UNCHANGED fenced
     \/ /\ line.kind \notin {"fence", "atx"} /\ ~underline /\ fenced = 0
        /\ previous' = IF IsBlank(Bytes(at, at + 1)) THEN 0 ELSE at
        /\ UNCHANGED <<fenced, sections, stack, counts>>
  /\ at' = at + 1
  /\ UNCHANGED <<note, section, windowVars, chunks, status>>

EndOutline ==
  /\ status = "read" /\ at > Len(note.lines)
  /\ sections' = Root(Len(note.lines) + 1)
  /\ section' = 1 /\ status' = "cut"
  /\ UNCHANGED <<note, at, fenced, previous, stack, counts, windowVars, chunks>>

-----------------------------------------------------------------------------
(* split_section *)

Text(k) == Bytes(sections[k].first,
                 IF k = Len(sections) THEN Len(note.lines) + 1 ELSE sections[k + 1].first)
Space(text, i) == text[i + 1] \in {" ", "n"}
Starts(text) ==
  {i \in 0..Len(text) - 1 : ~Space(text, i) /\ (i = 0 \/ Space(text, i - 1))}
Words(text) == Cardinality(Starts(text))

\* The member of a set that has n others below it.
Nth(set, n) == CHOOSE i \in set : Cardinality({j \in set : j < i}) = n

WordStart(text, k) == Nth(Starts(text), k)
WordEnd(text, k) ==
  Min({i \in WordStart(text, k) + 1..Len(text) : i = Len(text) \/ Space(text, i)})

\* Between the two line breaks of an empty line.
Paragraphs(text) == {i \in 1..Len(text) - 1 : text[i] = "n" /\ text[i + 1] = "n"}

\* The last empty line of the second half of the window, or its last word.
WindowEnd(text) ==
  LET hard == Min({Words(text), token + MaxTokens})
      least == WordEnd(text, token + MaxTokens \div 2)
      breaks == {b \in Paragraphs(text) : least <= b /\ b <= WordEnd(text, hard - 1)} IN
  CASE hard = Words(text) -> Len(text)
    [] hard # Words(text) /\ breaks # {} -> Max(breaks)
    [] OTHER -> WordEnd(text, hard - 1)

\* Where the byte limit cuts: never inside a character (none is longer than it).
ByteCut(text, start) == Max({i \in start + 1..start + MaxBytes : text[i + 1] # "c"})

Cutting(k) == status = "cut" /\ section = k /\ k <= Len(sections)
Fits(text) == Words(text) <= MaxTokens /\ Len(text) <= MaxBytes

OpenWindow ==
  /\ Cutting(section) /\ window = <<>>
  /\ LET text == Text(section) IN
       /\ ~Fits(text) /\ token < Words(text)
       /\ window' = <<IF token = 0 THEN 0 ELSE WordStart(text, token), WindowEnd(text),
                      Max({token + 1, Cardinality({i \in Starts(text) : i < WindowEnd(text)})})>>
  /\ UNCHANGED <<note, outlineVars, section, token, pieces, chunks, status>>

CutBytes ==
  /\ Cutting(section) /\ window # <<>> /\ window[2] - window[1] > MaxBytes
  /\ LET end == ByteCut(Text(section), window[1]) IN
       /\ pieces' = Append(pieces, <<window[1], end>>)
       /\ window' = <<end, window[2], window[3]>>
  /\ UNCHANGED <<note, outlineVars, section, token, chunks, status>>

\* Mutant of NextToken: every window is taken to hold MaxTokens words.
NextToken_Stride(included) == token + MaxTokens - Overlap

\* An overlap that is longer than what was included wraps around.
NextToken(included) == Max({(included - Overlap) % WordSize, token + 1})

CloseWindow ==
  /\ Cutting(section) /\ window # <<>> /\ window[2] - window[1] <= MaxBytes
  /\ pieces' = Append(pieces, <<window[1], window[2]>>)
  /\ window' = <<>>
  /\ token' = IF window[3] >= Words(Text(section)) THEN window[3] ELSE NextToken(window[3])
  /\ UNCHANGED <<note, outlineVars, section, chunks, status>>

-----------------------------------------------------------------------------
(* chunk_source_mode and validate_chunk_set_mode *)

Piece(text, p) == SubSeq(text, p[1] + 1, p[2])

\* The pieces that are not blank become chunks; the part is the number of the piece.
AddChunks ==
  /\ Cutting(section) /\ window = <<>>
  /\ LET text == Text(section)
         whole == IF Fits(text) /\ text # <<>> THEN <<<<0, Len(text)>>>> ELSE pieces
         parts == {i \in DOMAIN whole : ~IsBlank(Piece(text, whole[i]))} IN
       /\ Fits(text) \/ token >= Words(text)
       /\ chunks' = chunks \o [i \in 1..Cardinality(parts) |->
            LET part == Nth(parts, i - 1) IN
            [section |-> section, position |-> sections[section].position,
             part |-> part, piece |-> whole[part], parent |-> 0]]
  /\ section' = section + 1
  /\ token' = 0 /\ pieces' = <<>>
  /\ UNCHANGED <<note, outlineVars, window, status>>

FirstAt(position) ==
  LET at_ == {i \in DOMAIN chunks : chunks[i].position = position} IN
  IF at_ = {} THEN 0 ELSE Min(at_)

Linked ==
  [i \in DOMAIN chunks |->
     [chunks[i] EXCEPT !.parent = FirstAt(sections[chunks[i].section].parent)]]

\* validate_chunk_set_mode, of what it compares between chunks.
ValidSet(set) ==
  /\ \A i \in DOMAIN set :
       set[i].part = 1 + Cardinality({j \in 1..i - 1 : set[j].position = set[i].position})
  /\ \A i \in DOMAIN set :
       LET above == Front(set[i].position) IN
       IF above = <<>> THEN set[i].parent = 0
       ELSE /\ FirstAt(above) # 0 /\ set[i].parent = FirstAt(above)
            /\ set[set[i].parent].part = 1

LinkChunks ==
  /\ status = "cut" /\ section > Len(sections)
  /\ chunks' = Linked
  /\ status' = IF ValidSet(Linked) THEN "chunked" ELSE "refused"
  /\ UNCHANGED <<note, outlineVars, section, windowVars>>

ChunkNext == ReadLine \/ EndOutline \/ OpenWindow \/ CutBytes \/ CloseWindow \/ AddChunks \/ LinkChunks

ChunkSpec == ChunkInit /\ [][ChunkNext]_chunkVars

-----------------------------------------------------------------------------
\* When a note is chunked, every byte of every word behind its frontmatter is
\* in a chunk of the section it stands in, and a chunk is within the byte limit
\* and begins and ends between characters (split_section).
EveryWordIsChunked ==
  status = "chunked" =>
    /\ \A k \in DOMAIN sections : \A i \in 0..Len(Text(k)) - 1 :
         ~Space(Text(k), i) =>
           \E c \in Range(chunks) : c.section = k /\ c.piece[1] <= i /\ i < c.piece[2]
    /\ \A c \in Range(chunks) :
         LET text == Text(c.section) IN
         /\ c.piece[2] - c.piece[1] \in 1..MaxBytes
         /\ text[c.piece[1] + 1] # "c"
         /\ c.piece[2] < Len(text) => text[c.piece[2] + 1] # "c"

\* The chunker makes what its own validation accepts, unless a blank piece was
\* left out before another of the same section (chunk_source_mode counts it);
\* and the parent of a chunk is the first chunk of the nearest section before
\* its own that is less deep.
ChunksAreAccepted ==
  /\ status = "refused" =>
       \E c \in Range(chunks) : c.part # 1 + Cardinality({d \in Range(chunks) :
                                     d.section = c.section /\ d.part < c.part})
  /\ status = "chunked" => \A c \in Range(chunks) :
       LET above == {k \in 1..c.section - 1 : /\ sections[k].depth < sections[c.section].depth
                                              /\ sections[k].depth > 0} IN
       IF above = {} THEN c.parent = 0
       ELSE chunks[c.parent].section = Max(above) /\ chunks[c.parent].part = 1
=============================================================================

----------------------------- MODULE IndexingProof -----------------------------
(***************************************************************************)
(* What chunking a note loses nothing of, for any overlap of at most half a *)
(* window and a word; which chunks its own validation accepts, for any      *)
(* options; and what opening a generation proves about its file, for any    *)
(* set of generations that may be built and any number of altered rows.     *)
(***************************************************************************)
EXTENDS Chunker, GenerationFile, FiniteSetTheorems, SequenceTheorems, WellFoundedInduction, TLAPS

-----------------------------------------------------------------------------
(* Sets of naturals. *)

\* There is a least one of some naturals.
LEMMA LeastNatural ==
  ASSUME NEW T \in SUBSET Nat, T # {}
  PROVE  \E n \in T : \A m \in T : n <= m
<1>1. PICK n \in T : \A m \in T : ~(<<m, n>> \in OpToRel(<, Nat))
  BY NatLessThanWellFounded, WFMin, Zenon
<1>2. \A m \in T : ~(m < n)
  BY <1>1 DEF OpToRel
<1> QED
  BY <1>2

\* The least of some naturals.
LEMMA MinOfNaturals ==
  ASSUME NEW T \in SUBSET Nat, T # {}
  PROVE  Min(T) \in T /\ \A m \in T : Min(T) <= m
  BY LeastNatural DEF Min

\* The greatest of some naturals that are bounded.
LEMMA MaxOfNaturals ==
  ASSUME NEW T \in SUBSET Nat, T # {}, NEW b \in Nat, \A m \in T : m <= b
  PROVE  Max(T) \in T /\ \A m \in T : m <= Max(T)
<1> DEFINE bounds == {n \in Nat : \A m \in T : m <= n}
<1>1. PICK n \in bounds : \A m \in bounds : n <= m
  <2>1. b \in bounds
    OBVIOUS
  <2> HIDE DEF bounds
  <2>2. bounds \in SUBSET Nat
    BY DEF bounds
  <2> QED
    BY <2>1, <2>2, LeastNatural
<1>2. n \in T
  <2> SUFFICES ASSUME n \notin T PROVE FALSE
    OBVIOUS
  <2>1. \A m \in T : m <= n - 1
    OBVIOUS
  <2>2. n - 1 \in Nat
    <3>1. PICK m \in T : TRUE
      OBVIOUS
    <3>2. m \in Nat /\ n \in Nat /\ m <= n - 1
      BY <2>1, <3>1
    <3> QED
      BY <3>2
  <2> QED
    BY <1>1, <2>1, <2>2
<1>3. \E x \in T : \A y \in T : x >= y
  BY <1>2
<1> QED
  BY <1>3 DEF Max

\* The members of a set below a number.
Below(S, a) == {j \in S : j < a}

\* There are finitely many of them, and more below a greater member.
LEMMA BelowIsCounted ==
  ASSUME NEW S \in SUBSET Nat, IsFiniteSet(S), NEW a
  PROVE  /\ IsFiniteSet(Below(S, a)) /\ Cardinality(Below(S, a)) \in Nat
         /\ Cardinality(Below(S, a)) <= Cardinality(S)
<1>1. Below(S, a) \in SUBSET S
  BY DEF Below
<1> QED
  BY <1>1, FS_Subset, FS_CardinalityType

LEMMA BelowGrows ==
  ASSUME NEW S \in SUBSET Nat, IsFiniteSet(S), NEW a \in S, NEW b \in Nat, a < b
  PROVE  Cardinality(Below(S, a)) < Cardinality(Below(S, b))
<1>0. a \in Nat /\ \A j \in S : j \in Nat /\ (j < a => j < b)
  OBVIOUS
<1>1. /\ Below(S, a) \subseteq Below(S, b)
      /\ a \in Below(S, b)
      /\ a \notin Below(S, a)
  <2>1. Below(S, a) \subseteq Below(S, b)
    BY <1>0 DEF Below
  <2>2. a \in Below(S, b)
    BY DEF Below
  <2>3. a \notin Below(S, a)
    BY <1>0 DEF Below
  <2> QED
    BY <2>1, <2>2, <2>3
<1>2. /\ IsFiniteSet(Below(S, b))
      /\ Cardinality(Below(S, a)) \in Nat /\ Cardinality(Below(S, b)) \in Nat
  BY BelowIsCounted
<1>3. /\ Cardinality(Below(S, a)) <= Cardinality(Below(S, b))
      /\ Cardinality(Below(S, b)) = Cardinality(Below(S, a)) => Below(S, b) = Below(S, a)
  BY <1>1, <1>2, FS_Subset
<1>4. Cardinality(Below(S, b)) # Cardinality(Below(S, a))
  BY <1>1, <1>3
<1> QED
  BY <1>2, <1>3, <1>4

\* A set has a member with any number of others below it.
LEMMA EveryRankIsTaken ==
  ASSUME NEW S \in SUBSET Nat, IsFiniteSet(S)
  PROVE  /\ \A a \in S : Cardinality(Below(S, a)) \in 0..Cardinality(S) - 1
         /\ \A n \in 0..Cardinality(S) - 1 : \E a \in S : Cardinality(Below(S, a)) = n
         /\ \A a, b \in S : Cardinality(Below(S, a)) = Cardinality(Below(S, b)) => a = b
<1> DEFINE n == Cardinality(S)
           rank == [a \in S |-> Cardinality(Below(S, a))]
<1>1. n \in Nat
  BY FS_CardinalityType
<1>2. ASSUME NEW a \in S PROVE Cardinality(Below(S, a)) \in 0..n - 1
  <2>1. Below(S, a) \in SUBSET (S \ {a})
    BY DEF Below
  <2>2. IsFiniteSet(S \ {a}) /\ Cardinality(S \ {a}) = n - 1
    BY FS_RemoveElement
  <2>3. Cardinality(Below(S, a)) <= n - 1
    BY <2>1, <2>2, FS_Subset
  <2>4. Cardinality(Below(S, a)) \in Nat
    BY BelowIsCounted
  <2> QED
    BY <1>1, <2>3, <2>4
<1>3. \A a, b \in S : Cardinality(Below(S, a)) = Cardinality(Below(S, b)) => a = b
  <2> SUFFICES ASSUME NEW a \in S, NEW b \in S, a < b
               PROVE  Cardinality(Below(S, a)) # Cardinality(Below(S, b))
    OBVIOUS
  <2>1. Cardinality(Below(S, a)) < Cardinality(Below(S, b))
    BY BelowGrows
  <2>2. Cardinality(Below(S, a)) \in Nat /\ Cardinality(Below(S, b)) \in Nat
    BY BelowIsCounted
  <2> QED
    BY <2>1, <2>2
<1>4. rank \in [S -> 0..n - 1] /\ \A a, b \in S : rank[a] = rank[b] => a = b
  BY <1>2, <1>3
<1> HIDE DEF rank, n
<1>5. rank \in Injection(S, 0..n - 1)
  BY <1>4 DEF Injection, IsInjective
<1>6. IsFiniteSet(0..n - 1) /\ Cardinality(0..n - 1) = n
  <2>1. n - 1 \in Int
    BY <1>1
  <2>2. /\ IsFiniteSet(0..n - 1)
        /\ Cardinality(0..n - 1) = IF 0 > n - 1 THEN 0 ELSE (n - 1) - 0 + 1
    BY <2>1, FS_Interval
  <2> QED
    BY <1>1, <2>2
<1>7. Cardinality(S) = Cardinality(0..n - 1)
  BY <1>6 DEF n
<1>8. rank \in Surjection(S, 0..n - 1)
  BY <1>5, <1>6, <1>7, FS_Injection
<1>9. \A r \in 0..n - 1 : \E a \in S : rank[a] = r
  BY <1>8, Zenon DEF Surjection
<1> QED
  BY <1>2, <1>3, <1>9 DEF rank, n

LEMMA NthMember ==
  ASSUME NEW S \in SUBSET Nat, IsFiniteSet(S)
  PROVE  /\ \A n \in 0..Cardinality(S) - 1 :
              Nth(S, n) \in S /\ Cardinality(Below(S, Nth(S, n))) = n
         /\ \A a \in S : Nth(S, Cardinality(Below(S, a))) = a
<1>1. \A n : Nth(S, n) = CHOOSE a \in S : Cardinality(Below(S, a)) = n
  BY DEF Nth, Below
<1>2. ASSUME NEW n \in 0..Cardinality(S) - 1
      PROVE  Nth(S, n) \in S /\ Cardinality(Below(S, Nth(S, n))) = n
  <2>1. \E a \in S : Cardinality(Below(S, a)) = n
    BY EveryRankIsTaken
  <2> QED
    BY <1>1, <2>1
<1>3. ASSUME NEW a \in S PROVE Nth(S, Cardinality(Below(S, a))) = a
  <2> DEFINE n == Cardinality(Below(S, a))
  <2>1. n \in 0..Cardinality(S) - 1
    BY EveryRankIsTaken
  <2> DEFINE b == Nth(S, n)
  <2>2. b \in S /\ Cardinality(Below(S, b)) = Cardinality(Below(S, a))
    BY <1>2, <2>1
  <2>3. \A c \in S : Cardinality(Below(S, c)) = Cardinality(Below(S, a)) => c = a
    BY EveryRankIsTaken
  <2> HIDE DEF b
  <2>4. b = a
    BY <2>2, <2>3
  <2> QED
    BY <2>4 DEF b
<1> QED
  BY <1>2, <1>3

\* A set is as large as its image under an injection.
LEMMA ImageCardinality ==
  ASSUME NEW S, NEW T, IsFiniteSet(S),
         NEW f \in [S -> T],
         T = {f[x] : x \in S},
         \A x, y \in S : f[x] = f[y] => x = y
  PROVE  IsFiniteSet(T) /\ Cardinality(T) = Cardinality(S)
<1>1. \A y \in T : \E x \in S : f[x] = y
  OBVIOUS
<1>2. f \in Surjection(S, T)
  BY <1>1, Zenon DEF Surjection
<1>3. f \in Injection(S, T)
  BY DEF Injection, IsInjective
<1> QED
  BY <1>2, <1>3, FS_Surjection, Zenon


-----------------------------------------------------------------------------
(* The bytes of a section. *)

\* The options are numbers, and the notes are of whole characters.
LEMMA OptionsAreValid ==
  /\ MaxTokens \in Nat \ {0} /\ Overlap \in 0..MaxTokens - 1
  /\ MaxBytes \in Nat \ {0} /\ WordSize \in Nat
  BY ChunkerAssumption

LEMMA NotesAreValid == note \in Notes => ValidNote(note)
  BY ChunkerAssumption

\* What the lines of a note are made of, and so its sections.
Utf8(text) ==
  /\ text \in Seq(Byte) /\ Len(text) \in Nat /\ Len(text) < WordSize
  /\ \A i \in DOMAIN text : text[i] = "c" => i # 1 /\ text[i - 1] \in {"x", "c"}
  /\ \A i \in 1..Len(text) - MaxBytes + 1 :
       \E j \in i..i + MaxBytes - 1 : text[j] # "c"

\* Lines begin between characters.
LEMMA OffsetsAreBorders ==
  ASSUME note \in Notes, NEW i \in 1..Len(note.lines) + 1
  PROVE  /\ Len(note.lines) \in Nat /\ Len(note.bytes) \in Nat
         /\ Offset(i) \in 0..Len(note.bytes)
         /\ Offset(i) # Len(note.bytes) => note.bytes[Offset(i) + 1] # "c"
<1>1. /\ note.bytes \in Seq(Byte)
      /\ note.lines \in Seq([kind : Kind, depth : Nat, start : 0..Len(note.bytes)])
      /\ \A k \in DOMAIN note.lines :
           IF k = 1 THEN note.lines[k].start = 0 ELSE note.bytes[note.lines[k].start] = "n"
      /\ \A k \in DOMAIN note.bytes :
           note.bytes[k] = "c" => k # 1 /\ note.bytes[k - 1] \in {"x", "c"}
  BY NotesAreValid DEF ValidNote
<1>2. /\ Len(note.bytes) \in Nat /\ DOMAIN note.bytes = 1..Len(note.bytes)
      /\ Len(note.lines) \in Nat /\ DOMAIN note.lines = 1..Len(note.lines)
      /\ \A k \in 1..Len(note.lines) : note.lines[k].start \in 0..Len(note.bytes)
  <2>1. Len(note.bytes) \in Nat /\ DOMAIN note.bytes = 1..Len(note.bytes)
    BY <1>1, LenProperties
  <2>2. Len(note.lines) \in Nat /\ DOMAIN note.lines = 1..Len(note.lines)
    BY <1>1, LenProperties
  <2>3. \A k \in 1..Len(note.lines) :
          note.lines[k] \in [kind : Kind, depth : Nat, start : 0..Len(note.bytes)]
    BY <1>1, <2>2, ElementOfSeq
  <2> QED
    BY <2>1, <2>2, <2>3
<1>3. Offset(i) \in 0..Len(note.bytes)
  BY <1>2 DEF Offset
<1>4. ASSUME Offset(i) # Len(note.bytes)
      PROVE  note.bytes[Offset(i) + 1] # "c"
  <2>1. i \in 1..Len(note.lines) /\ Offset(i) = note.lines[i].start
    BY <1>2, <1>4 DEF Offset
  <2>2. Offset(i) + 1 \in DOMAIN note.bytes
    BY <1>2, <1>3, <1>4
  <2>3. CASE i = 1
    <3>1. Offset(i) + 1 = 1
      BY <1>1, <1>2, <2>1, <2>3
    <3> QED
      BY <1>1, <2>2, <3>1
  <2>4. CASE i # 1
    <3>1. note.bytes[Offset(i)] = "n"
      BY <1>1, <1>2, <2>1, <2>4
    <3>2. note.bytes[Offset(i) + 1] = "c" => note.bytes[(Offset(i) + 1) - 1] \in {"x", "c"}
      BY <1>1, <2>2
    <3>3. (Offset(i) + 1) - 1 = Offset(i)
      BY <1>2, <1>3
    <3> QED
      BY <3>1, <3>2, <3>3
  <2> QED
    BY <2>3, <2>4
<1> QED
  BY <1>2, <1>3, <1>4

\* The bytes between two lines are of whole characters.
LEMMA BytesAreUtf8 ==
  ASSUME note \in Notes, NEW i \in 1..Len(note.lines) + 1, NEW j \in 1..Len(note.lines) + 1
  PROVE  Utf8(Bytes(i, j))
<1> DEFINE text == Bytes(i, j)
           from == Offset(i)
           to == Offset(j)
           all == note.bytes
<1>1. /\ from \in 0..Len(all) /\ to \in 0..Len(all) /\ Len(all) \in Nat
      /\ from # Len(all) => all[from + 1] # "c"
  BY OffsetsAreBorders
<1>2. /\ all \in Seq(Byte) /\ Len(all) < WordSize
      /\ DOMAIN all = 1..Len(all)
      /\ \A k \in DOMAIN all : all[k] = "c" => k # 1 /\ all[k - 1] \in {"x", "c"}
      /\ \A k \in 1..Len(all) - MaxBytes + 1 : \E m \in k..k + MaxBytes - 1 : all[m] # "c"
  <2>1. ValidNote(note)
    BY NotesAreValid
  <2>2. all \in Seq(Byte) /\ Len(all) < WordSize
    BY <2>1 DEF ValidNote
  <2> QED
    BY <2>1, <2>2, LenProperties DEF ValidNote
<1>3. text = SubSeq(all, from + 1, to)
  BY DEF Bytes
<1> HIDE DEF text, from, to, all
<1>4. CASE to <= from
  <2>1. text = <<>>
    BY <1>1, <1>3, <1>4, SubSeqEmpty
  <2>2. Len(text) = 0 /\ text \in Seq(Byte) /\ DOMAIN text = {}
    BY <2>1, EmptySeq
  <2>3. 1..Len(text) - MaxBytes + 1 = {}
    BY <2>2, OptionsAreValid
  <2>4. Len(text) < WordSize
    <3>1. WordSize \in Nat /\ Len(all) < WordSize
      BY <1>2, OptionsAreValid
    <3> QED
      BY <1>1, <2>2, <3>1
  <2> QED
    BY <2>2, <2>3, <2>4 DEF Utf8, text
<1>5. CASE from < to
  <2>1. /\ text \in Seq(Byte) /\ Len(text) = to - from
        /\ \A k \in 1..to - from : text[k] = all[from + k]
    <3>1. \A k \in from + 1..to : all[k] \in Byte
      <4>1. \A k \in 1..Len(all) : all[k] \in Byte
        BY <1>2, ElementOfSeq
      <4> QED
        BY <1>1, <4>1
    <3>2. /\ text \in Seq(Byte) /\ Len(text) = IF from + 1 <= to THEN to - (from + 1) + 1 ELSE 0
          /\ \A k \in 1..to - (from + 1) + 1 : text[k] = all[(from + 1) + k - 1]
      BY <1>1, <1>3, <3>1, SubSeqProperties
    <3> QED
      BY <1>1, <1>5, <3>2
  <2>2. DOMAIN text = 1..to - from
    BY <2>1, LenProperties
  <2>3. ASSUME NEW k \in DOMAIN text, text[k] = "c"
        PROVE  k # 1 /\ text[k - 1] \in {"x", "c"}
    <3>1. from + k \in 1..Len(all) /\ all[from + k] = "c" /\ k \in 1..to - from
      BY <1>1, <2>1, <2>2, <2>3
    <3>2. k # 1
      BY <1>1, <1>5, <3>1
    <3>3. all[(from + k) - 1] \in {"x", "c"}
      BY <1>2, <3>1
    <3>4. k \in Int /\ from \in Int /\ to \in Int /\ k \in 1..to - from
      BY <1>1, <3>1
    <3>5. k - 1 \in 1..to - from
      BY <3>2, <3>4
    <3>6. (from + k) - 1 = from + (k - 1)
      BY <3>4
    <3> QED
      BY <2>1, <3>2, <3>3, <3>5, <3>6
  <2>4. ASSUME NEW k \in 1..Len(text) - MaxBytes + 1
        PROVE  \E m \in k..k + MaxBytes - 1 : text[m] # "c"
    <3>1. from + k \in 1..Len(all) - MaxBytes + 1
      BY <1>1, <2>1, OptionsAreValid
    <3>2. PICK m \in from + k..(from + k) + MaxBytes - 1 : all[m] # "c"
      BY <1>2, <3>1
    <3>3. /\ m - from \in k..k + MaxBytes - 1 /\ m - from \in 1..to - from
          /\ from + (m - from) = m
      BY <1>1, <2>1, <3>1, <3>2, OptionsAreValid
    <3>4. text[m - from] # "c"
      BY <2>1, <3>2, <3>3
    <3> QED
      BY <3>3, <3>4
  <2>5. Len(text) \in Nat /\ Len(text) < WordSize
    <3>1. WordSize \in Nat /\ Len(all) < WordSize
      BY <1>2, OptionsAreValid
    <3>2. Len(text) \in Nat /\ Len(text) <= Len(all)
      BY <1>1, <1>5, <2>1
    <3> QED
      BY <1>1, <3>1, <3>2
  <2> QED
    BY <2>1, <2>3, <2>4, <2>5 DEF Utf8, text
<1> QED
  BY <1>1, <1>4, <1>5

-----------------------------------------------------------------------------
(* Words. *)

\* There are finitely many words, and none begins inside a character.
LEMMA StartsAreCounted ==
  ASSUME NEW text, Utf8(text)
  PROVE  /\ Len(text) \in Nat /\ DOMAIN text = 1..Len(text)
         /\ Starts(text) \in SUBSET Nat /\ Starts(text) \subseteq 0..Len(text) - 1
         /\ IsFiniteSet(Starts(text)) /\ Words(text) \in 0..Len(text)
         /\ Words(text) = Cardinality(Starts(text))
         /\ \A i \in Starts(text) : text[i + 1] # "c"
<1>1. Len(text) \in Nat /\ DOMAIN text = 1..Len(text)
  BY LenProperties DEF Utf8
<1>2. Starts(text) \in SUBSET Nat /\ Starts(text) \in SUBSET (0..Len(text) - 1)
  BY <1>1 DEF Starts
<1>3. IsFiniteSet(Starts(text)) /\ Words(text) \in 0..Len(text)
  <2>1. Len(text) - 1 \in Int
    BY <1>1
  <2>2. /\ IsFiniteSet(0..Len(text) - 1)
        /\ Cardinality(0..Len(text) - 1) = IF 0 > Len(text) - 1 THEN 0 ELSE (Len(text) - 1) - 0 + 1
    BY <2>1, FS_Interval
  <2>3. IsFiniteSet(Starts(text)) /\ Cardinality(Starts(text)) <= Cardinality(0..Len(text) - 1)
    BY <1>2, <2>2, FS_Subset
  <2>4. Cardinality(Starts(text)) \in Nat
    BY <2>3, FS_CardinalityType
  <2> QED
    BY <1>1, <2>2, <2>3, <2>4 DEF Words
<1>4. ASSUME NEW i \in Starts(text) PROVE text[i + 1] # "c"
  <2>1. i \in 0..Len(text) - 1 /\ (i = 0 \/ Space(text, i - 1))
    BY <1>4 DEF Starts
  <2>2. i + 1 \in DOMAIN text
    BY <1>1, <2>1
  <2>3. text[i + 1] = "c" => i + 1 # 1 /\ text[(i + 1) - 1] \in {"x", "c"}
    BY <2>2 DEF Utf8
  <2>4. i # 0 => text[(i - 1) + 1] \in {" ", "n"}
    BY <2>1 DEF Space
  <2>5. (i + 1) - 1 = i /\ (i - 1) + 1 = i /\ (i + 1 # 1 => i # 0)
    BY <2>1
  <2> QED
    BY <2>3, <2>4, <2>5
<1> QED
  BY <1>1, <1>2, <1>3, <1>4 DEF Words

\* A byte of a word stands behind its beginning, and no space is between them.
LEMMA WordBegins ==
  ASSUME NEW text, Utf8(text),
         NEW i \in 0..Len(text) - 1, ~Space(text, i),
         NEW n \in 0..i, n = 0 \/ Space(text, n - 1)
  PROVE  \E j \in Starts(text) : n <= j /\ j <= i
<1> DEFINE solid == {j \in n..i : \A m \in j..i : ~Space(text, m)}
<1>1. Len(text) \in Nat
  BY StartsAreCounted
<1>2. PICK j \in solid : \A m \in solid : j <= m
  <2>1. i \in solid /\ solid \in SUBSET Nat
    BY <1>1
  <2> HIDE DEF solid
  <2> QED
    BY <2>1, LeastNatural
<1>3. j \in n..i /\ \A m \in j..i : ~Space(text, m)
  BY <1>2
<1>4. j = 0 \/ Space(text, j - 1)
  <2>1. CASE j = n
    BY <2>1
  <2>2. CASE j # n
    <3>1. j - 1 \in n..i /\ j - 1 \notin solid
      BY <1>1, <1>2, <1>3, <2>2
    <3>2. PICK m \in j - 1..i : Space(text, m)
      BY <3>1
    <3>3. m = j - 1
      BY <1>1, <1>3, <3>2
    <3> QED
      BY <3>2, <3>3
  <2> QED
    BY <2>1, <2>2
<1>5. j \in 0..Len(text) - 1 /\ ~Space(text, j)
  BY <1>1, <1>3
<1> QED
  BY <1>3, <1>4, <1>5 DEF Starts

\* Each word has its beginning and, behind it, its end.
LEMMA WordsStartAndEnd ==
  ASSUME NEW text, Utf8(text), NEW k \in 0..Words(text) - 1
  PROVE  /\ WordStart(text, k) \in Starts(text)
         /\ Cardinality(Below(Starts(text), WordStart(text, k))) = k
         /\ WordEnd(text, k) \in WordStart(text, k) + 1..Len(text)
         /\ WordEnd(text, k) = Len(text) \/ Space(text, WordEnd(text, k))
<1>1. /\ WordStart(text, k) \in Starts(text)
      /\ Cardinality(Below(Starts(text), WordStart(text, k))) = k
  BY StartsAreCounted, NthMember DEF WordStart
<1>2. WordStart(text, k) \in 0..Len(text) - 1 /\ Len(text) \in Nat
  BY <1>1, StartsAreCounted
<1> DEFINE start == WordStart(text, k)
           ends == {i \in start + 1..Len(text) : i = Len(text) \/ Space(text, i)}
<1> HIDE DEF start
<1>3. start \in 0..Len(text) - 1
  BY <1>2 DEF start
<1>4. Len(text) \in ends /\ ends \in SUBSET Nat
  BY <1>2, <1>3
<1>5. WordEnd(text, k) = Min(ends)
  BY DEF WordEnd, start
<1>6. Min(ends) \in ends
  <2> HIDE DEF ends
  <2> QED
    BY <1>4, MinOfNaturals
<1> QED
  BY <1>1, <1>5, <1>6 DEF start

\* A window has a word, ends at its end or at an empty line, and holds more
\* than half of the words it may hold unless it has the last one.
LEMMA WindowsEndWell ==
  ASSUME NEW text, Utf8(text), token \in 0..Words(text) - 1
  PROVE  /\ WindowEnd(text) \in 1..Len(text)
         /\ WindowEnd(text) = Len(text) \/ Space(text, WindowEnd(text))
         /\ WordStart(text, token) < WindowEnd(text)
         /\ LET included == Cardinality(Below(Starts(text), WindowEnd(text))) IN
              /\ included \in token + 1..Words(text)
              /\ included = Words(text) \/ included >= token + MaxTokens \div 2 + 1
<1> DEFINE S == Starts(text)
           w == Words(text)
           hard == Min({w, token + MaxTokens})
           least == WordEnd(text, token + MaxTokens \div 2)
           breaks == {b \in Paragraphs(text) : least <= b /\ b <= WordEnd(text, hard - 1)}
           e == WindowEnd(text)
<1>1. /\ Len(text) \in Nat /\ S \in SUBSET Nat /\ S \subseteq 0..Len(text) - 1 /\ IsFiniteSet(S)
      /\ w \in 0..Len(text) /\ w = Cardinality(S)
  BY StartsAreCounted
<1>2. MaxTokens \in Nat \ {0} /\ MaxTokens \div 2 \in 0..MaxTokens - 1
  BY OptionsAreValid
<1>3. hard \in {w, token + MaxTokens} /\ hard <= w /\ hard <= token + MaxTokens
  <2>1. {w, token + MaxTokens} \in SUBSET Nat
    BY <1>1, <1>2
  <2> QED
    BY <2>1, MinOfNaturals
<1>4. e = CASE hard = w -> Len(text)
            [] hard # w /\ breaks # {} -> Max(breaks)
            [] OTHER -> WordEnd(text, hard - 1)
  BY DEF WindowEnd
<1> HIDE DEF e, hard, S, w
<1>5. CASE hard = w
  <2>1. e = Len(text)
    BY <1>4, <1>5
  <2>2. Below(S, e) = S
    <3>1. \A j \in S : j < e
      BY <1>1, <2>1
    <3> QED
      BY <3>1 DEF Below
  <2>3. WordStart(text, token) \in S
    BY WordsStartAndEnd DEF S
  <2> QED
    BY <1>1, <2>1, <2>2, <2>3 DEF S, w, e
<1>6. ASSUME hard # w, NEW k \in token + MaxTokens \div 2..w - 1,
             e \in WordEnd(text, k)..Len(text), e = Len(text) \/ Space(text, e)
      PROVE  /\ e \in 1..Len(text)
             /\ WordStart(text, token) < e
             /\ Cardinality(Below(S, e)) \in token + MaxTokens \div 2 + 1..w
  <2>1. k \in 0..Words(text) - 1
    BY <1>1, <1>2 DEF w
  <2>2. /\ WordStart(text, k) \in S /\ Cardinality(Below(S, WordStart(text, k))) = k
        /\ WordEnd(text, k) \in WordStart(text, k) + 1..Len(text)
        /\ WordStart(text, token) \in S /\ Cardinality(Below(S, WordStart(text, token))) = token
    BY <2>1, WordsStartAndEnd DEF S
  <2>3. /\ WordStart(text, k) \in Nat /\ WordStart(text, token) \in Nat
        /\ WordStart(text, k) < e /\ e \in 1..Len(text)
    <3>1. WordStart(text, k) \in Nat /\ WordStart(text, token) \in Nat
      BY <1>1, <2>2
    <3> QED
      BY <1>1, <1>6, <2>2, <3>1
  <2>4. k < Cardinality(Below(S, e))
    BY <1>1, <2>2, <2>3, BelowGrows
  <2>5. WordStart(text, token) <= WordStart(text, k)
    <3> SUFFICES ASSUME WordStart(text, k) < WordStart(text, token) PROVE FALSE
      BY <2>3
    <3>1. k < token
      BY <1>1, <2>2, <2>3, BelowGrows
    <3> QED
      BY <1>1, <1>2, <3>1
  <2>6. Cardinality(Below(S, e)) \in Nat /\ Cardinality(Below(S, e)) <= w
    BY <1>1, BelowIsCounted
  <2> QED
    BY <1>1, <1>2, <2>3, <2>4, <2>5, <2>6
<1>7. CASE hard # w
  <2>1. /\ hard = token + MaxTokens /\ hard < w
        /\ hard - 1 \in token + MaxTokens \div 2..w - 1
        /\ token + MaxTokens \div 2 \in token + MaxTokens \div 2..w - 1
    BY <1>1, <1>2, <1>3, <1>7 DEF w
  <2>2. hard - 1 \in 0..Words(text) - 1 /\ token + MaxTokens \div 2 \in 0..Words(text) - 1
    BY <1>1, <1>2, <2>1 DEF w
  <2>3. CASE breaks # {}
    <3>1. breaks \in SUBSET Nat /\ \A b \in breaks : b <= Len(text)
      BY <1>1 DEF Paragraphs
    <3>2. Max(breaks) \in breaks
      <4> HIDE DEF breaks
      <4> QED
        BY <1>1, <2>3, <3>1, MaxOfNaturals
    <3>3. e \in Paragraphs(text) /\ least <= e
      BY <1>4, <1>7, <2>3, <3>2
    <3>4. e \in 1..Len(text) - 1 /\ Space(text, e)
      BY <1>1, <3>3 DEF Paragraphs, Space
    <3>5. least \in Nat
      <4> DEFINE k == token + MaxTokens \div 2
      <4>1. k \in 0..Words(text) - 1 /\ least = WordEnd(text, k)
        BY <2>2
      <4> HIDE DEF k
      <4>2. WordStart(text, k) \in S /\ WordEnd(text, k) \in WordStart(text, k) + 1..Len(text)
        BY <4>1, WordsStartAndEnd DEF S
      <4>3. WordStart(text, k) \in Nat
        BY <1>1, <4>2
      <4>4. WordEnd(text, k) \in Nat
        BY <4>2, <4>3
      <4> QED
        BY <4>1, <4>4
    <3>6. e \in least..Len(text)
      BY <1>1, <3>3, <3>4, <3>5
    <3> QED
      BY <1>1, <1>2, <1>6, <1>7, <2>1, <3>4, <3>6 DEF S, w, e
  <2>4. CASE breaks = {}
    <3>1. e = WordEnd(text, hard - 1)
      BY <1>4, <1>7, <2>4
    <3>2. e \in Nat /\ e <= Len(text) /\ (e = Len(text) \/ Space(text, e))
      <4> DEFINE k == hard - 1
      <4>1. k \in 0..Words(text) - 1 /\ e = WordEnd(text, k)
        BY <2>2, <3>1
      <4> HIDE DEF k, e
      <4>2. /\ WordStart(text, k) \in S /\ WordEnd(text, k) \in WordStart(text, k) + 1..Len(text)
            /\ WordEnd(text, k) = Len(text) \/ Space(text, WordEnd(text, k))
        BY <4>1, WordsStartAndEnd DEF S
      <4>3. WordStart(text, k) \in Nat
        BY <1>1, <4>2
      <4>4. WordEnd(text, k) \in Nat /\ WordEnd(text, k) <= Len(text)
        BY <1>1, <4>2, <4>3
      <4> QED
        BY <4>1, <4>2, <4>4
    <3>3. e \in WordEnd(text, hard - 1)..Len(text)
      BY <1>1, <3>1, <3>2
    <3> QED
      BY <1>1, <1>2, <1>6, <1>7, <2>1, <3>2, <3>3 DEF S, w, e
  <2> QED
    BY <2>3, <2>4
<1> QED
  BY <1>5, <1>7

\* The byte limit cuts between characters.
LEMMA CutsAreBorders ==
  ASSUME NEW text, Utf8(text), NEW start \in 0..Len(text), start + MaxBytes < Len(text)
  PROVE  ByteCut(text, start) \in start + 1..start + MaxBytes /\ text[ByteCut(text, start) + 1] # "c"
<1> DEFINE cuts == {i \in start + 1..start + MaxBytes : text[i + 1] # "c"}
<1>1. Len(text) \in Nat /\ MaxBytes \in Nat \ {0}
  BY StartsAreCounted, OptionsAreValid
<1>2. start + 2 \in 1..Len(text) - MaxBytes + 1
  BY <1>1
<1>3. PICK j \in start + 2..(start + 2) + MaxBytes - 1 : text[j] # "c"
  BY <1>2 DEF Utf8
<1>4. j - 1 \in start + 1..start + MaxBytes /\ (j - 1) + 1 = j
  BY <1>1, <1>3
<1>5. j - 1 \in cuts /\ cuts \in SUBSET Nat /\ \A i \in cuts : i <= Len(text)
  BY <1>1, <1>3, <1>4
<1>6. Max(cuts) \in cuts
  <2> HIDE DEF cuts
  <2> QED
    BY <1>1, <1>5, MaxOfNaturals
<1> QED
  BY <1>6 DEF ByteCut

-----------------------------------------------------------------------------
(* The outline of a note. *)

Position == Seq(Nat \X Nat)

SectionType ==
  [first : 1..Len(note.lines) + 1, depth : Nat, position : Position, parent : Position]

OutlineInv ==
  /\ note \in Notes
  /\ at \in 1..Len(note.lines) + 1 /\ previous \in 0..at - 1
  /\ sections \in Seq(SectionType) /\ stack \in Seq(SectionType)
  /\ counts \in [DOMAIN counts -> Nat]

\* The lines of a note.
LEMMA LinesAreTyped ==
  ASSUME note \in Notes
  PROVE  /\ Len(note.lines) \in Nat \ {0} /\ DOMAIN note.lines = 1..Len(note.lines)
         /\ \A i \in 1..Len(note.lines) : note.lines[i].depth \in Nat
         /\ BodyStart \in 1..Len(note.lines) + 1
<1>1. /\ note.lines \in Seq([kind : Kind, depth : Nat, start : 0..Len(note.bytes)])
      /\ note.lines # <<>>
  BY NotesAreValid DEF ValidNote
<1>2. Len(note.lines) \in Nat \ {0} /\ DOMAIN note.lines = 1..Len(note.lines)
  BY <1>1, LenProperties, EmptySeq
<1>3. \A i \in 1..Len(note.lines) : note.lines[i].depth \in Nat
  <2>1. \A i \in 1..Len(note.lines) :
          note.lines[i] \in [kind : Kind, depth : Nat, start : 0..Len(note.bytes)]
    BY <1>1, ElementOfSeq
  <2> QED
    BY <2>1
<1>4. BodyStart \in 1..Len(note.lines) + 1
  <2> DEFINE ends == {i \in 2..Len(note.lines) : note.lines[i].kind \in {"dashes", "dots"}}
  <2>1. BodyStart \in {Min(ends) + 1, 1} /\ (ends = {} => BodyStart = 1)
    BY DEF BodyStart
  <2>2. ends \in SUBSET Nat
    BY <1>2
  <2>3. ends # {} => Min(ends) \in 2..Len(note.lines)
    <3>1. ends # {} => Min(ends) \in ends
      <4> HIDE DEF ends
      <4> QED
        BY <2>2, MinOfNaturals
    <3> QED
      BY <3>1
  <2> QED
    BY <1>2, <2>1, <2>3
<1> QED
  BY <1>2, <1>3, <1>4

\* The section before the first heading is one.
LEMMA RootIsTyped ==
  ASSUME OutlineInv, NEW next
  PROVE  Root(next) \in Seq(SectionType)
<1>1. CASE Root(next) = sections
  BY <1>1 DEF OutlineInv
<1>2. CASE Root(next) # sections
  <2> DEFINE root == [first |-> BodyStart, depth |-> 0, position |-> <<<<0, 1>>>>, parent |-> <<>>]
  <2>1. Root(next) = <<root>>
    BY <1>2 DEF Root
  <2>2. <<<<0, 1>>>> \in Position /\ <<>> \in Position
    BY DEF Position
  <2>3. root \in SectionType
    BY <2>2, LinesAreTyped DEF OutlineInv, SectionType
  <2> HIDE DEF root
  <2> QED
    BY <2>1, <2>3
<1> QED
  BY <1>1, <1>2

\* Closing sections leaves a part of the open ones.
LEMMA OpenIsTyped ==
  ASSUME OutlineInv, NEW depth
  PROVE  StillOpen(depth) \in Seq(SectionType)
<1> DEFINE less == {0} \cup {i \in DOMAIN stack : stack[i].depth < depth}
<1>1. /\ stack \in Seq(SectionType) /\ Len(stack) \in Nat /\ DOMAIN stack = 1..Len(stack)
  BY LenProperties DEF OutlineInv
<1>2. less \in SUBSET Nat /\ less # {} /\ \A i \in less : i <= Len(stack)
  BY <1>1
<1>3. StillOpen(depth) = SubSeq(stack, 1, Max(less))
  BY DEF StillOpen
<1> HIDE DEF less
<1>4. Max(less) \in Nat /\ Max(less) <= Len(stack)
  BY <1>1, <1>2, MaxOfNaturals
<1>5. \A i \in 1..Max(less) : stack[i] \in SectionType
  <2>1. \A i \in 1..Len(stack) : stack[i] \in SectionType
    BY <1>1, ElementOfSeq
  <2> QED
    BY <1>1, <1>4, <2>1
<1> QED
  BY <1>3, <1>4, <1>5, SubSeqProperties

\* The section that a heading opens.
ParentOf(depth) == IF StillOpen(depth) = <<>> THEN <<>> ELSE Last(StillOpen(depth)).position
OrdinalOf(depth) ==
  LET key == <<ParentOf(depth), depth>> IN IF key \in DOMAIN counts THEN counts[key] + 1 ELSE 1
HeadingOf(first, depth) ==
  [first |-> first, depth |-> depth,
   position |-> Append(ParentOf(depth), <<depth, OrdinalOf(depth)>>), parent |-> ParentOf(depth)]

LEMMA HeadingPushes ==
  ASSUME NEW first, NEW depth, Heading(first, depth)
  PROVE  LET key == <<ParentOf(depth), depth>> IN
         /\ sections' = Append(Root(first), HeadingOf(first, depth))
         /\ stack' = Append(StillOpen(depth), HeadingOf(first, depth))
         /\ counts' = [k \in DOMAIN counts \cup {key} |->
                         IF k = key THEN OrdinalOf(depth) ELSE counts[k]]
  BY DEF Heading, HeadingOf, OrdinalOf, ParentOf

LEMMA HeadingIsSection ==
  ASSUME OutlineInv, NEW first \in 1..Len(note.lines), NEW depth \in Nat
  PROVE  HeadingOf(first, depth) \in SectionType /\ OrdinalOf(depth) \in Nat
<1> DEFINE open == StillOpen(depth)
           parent == ParentOf(depth)
           ordinal == OrdinalOf(depth)
<1>1. open \in Seq(SectionType)
  BY OpenIsTyped
<1>2. parent = IF open = <<>> THEN <<>> ELSE Last(open).position
  BY DEF ParentOf
<1> HIDE DEF open, parent
<1>3. parent \in Position
  <2>1. CASE open = <<>>
    BY <1>2, <2>1 DEF Position
  <2>2. CASE open # <<>>
    <3>1. Len(open) \in 1..Len(open)
      BY <1>1, <2>2, EmptySeq
    <3>2. Last(open) \in SectionType
      BY <1>1, <3>1, ElementOfSeq DEF Last
    <3> QED
      BY <1>2, <2>2, <3>2 DEF SectionType
  <2> QED
    BY <2>1, <2>2
<1>4. ordinal \in Nat
  <2> DEFINE key == <<ParentOf(depth), depth>>
  <2>1. ordinal = IF key \in DOMAIN counts THEN counts[key] + 1 ELSE 1
    BY DEF OrdinalOf
  <2> HIDE DEF key, ordinal
  <2> QED
    BY <2>1 DEF OutlineInv
<1> HIDE DEF ordinal
<1>5. Append(parent, <<depth, ordinal>>) \in Position
  BY <1>3, <1>4, AppendProperties DEF Position
<1>6. first \in 1..Len(note.lines) + 1
  BY LinesAreTyped DEF OutlineInv
<1>7. [first |-> first, depth |-> depth, position |-> Append(parent, <<depth, ordinal>>),
       parent |-> parent] \in SectionType
  BY <1>3, <1>5, <1>6 DEF SectionType
<1> QED
  BY <1>4, <1>7 DEF HeadingOf, parent, ordinal

LEMMA HeadingIsTyped ==
  ASSUME OutlineInv,
         NEW first \in 1..Len(note.lines), NEW depth \in Nat, Heading(first, depth)
  PROVE  /\ sections' \in Seq(SectionType) /\ stack' \in Seq(SectionType)
         /\ counts' \in [DOMAIN counts' -> Nat]
<1> DEFINE key == <<ParentOf(depth), depth>>
<1>1. /\ sections' = Append(Root(first), HeadingOf(first, depth))
      /\ stack' = Append(StillOpen(depth), HeadingOf(first, depth))
      /\ counts' = [k \in DOMAIN counts \cup {key} |->
                      IF k = key THEN OrdinalOf(depth) ELSE counts[k]]
  BY HeadingPushes
<1> HIDE DEF key
<1>2. HeadingOf(first, depth) \in SectionType /\ OrdinalOf(depth) \in Nat
  BY HeadingIsSection
<1>3. counts' \in [DOMAIN counts' -> Nat]
  BY <1>1, <1>2 DEF OutlineInv
<1>4. Root(first) \in Seq(SectionType) /\ StillOpen(depth) \in Seq(SectionType)
  BY RootIsTyped, OpenIsTyped
<1> QED
  BY <1>1, <1>2, <1>3, <1>4, AppendProperties

\* The outline is made of sections of the note.
LEMMA OutlineStep == OutlineInv /\ [ChunkNext]_chunkVars => OutlineInv'
<1> SUFFICES ASSUME OutlineInv, [ChunkNext]_chunkVars PROVE OutlineInv'
  OBVIOUS
<1>0. ASSUME UNCHANGED <<note, outlineVars>> PROVE OutlineInv'
  BY <1>0 DEF outlineVars, OutlineInv, SectionType
<1>1. CASE ReadLine
  <2>1. /\ note' = note /\ at \in 1..Len(note.lines) /\ at' = at + 1
        /\ at' \in 1..Len(note.lines) + 1
    <3>1. note' = note /\ at <= Len(note.lines) /\ at' = at + 1
      BY <1>1 DEF ReadLine
    <3>2. Len(note.lines) \in Nat /\ at \in 1..Len(note.lines) + 1
      BY LinesAreTyped DEF OutlineInv
    <3> QED
      BY <3>1, <3>2
  <2>2. note.lines[at].depth \in Nat
    BY <2>1, LinesAreTyped DEF OutlineInv
  <2>3. previous \in 0..at - 1 /\ previous' \in {0, at, previous}
    BY <1>1 DEF ReadLine, OutlineInv
  <2>4. previous' \in 0..at' - 1
    BY <2>1, <2>3
  <2>5. /\ sections' \in Seq(SectionType) /\ stack' \in Seq(SectionType)
        /\ counts' \in [DOMAIN counts' -> Nat]
    <3>1. CASE UNCHANGED <<sections, stack, counts>>
      BY <3>1 DEF OutlineInv
    <3>2. CASE Heading(at, note.lines[at].depth)
      BY <2>1, <2>2, <3>2, HeadingIsTyped
    <3>3. CASE previous # 0 /\ Heading(previous, note.lines[at].depth)
      <4>1. previous \in 1..Len(note.lines)
        BY <2>1, <2>3, <3>3, LinesAreTyped DEF OutlineInv
      <4> QED
        BY <2>2, <3>3, <4>1, HeadingIsTyped
    <3> QED
      BY <1>1, <3>1, <3>2, <3>3 DEF ReadLine
  <2> QED
    BY <2>1, <2>4, <2>5 DEF OutlineInv, SectionType
<1>2. CASE EndOutline
  <2>1. /\ UNCHANGED <<note, at, previous, stack, counts>>
        /\ sections' = Root(Len(note.lines) + 1)
    BY <1>2 DEF EndOutline
  <2>2. sections' \in Seq(SectionType)
    BY <2>1, RootIsTyped
  <2> QED
    BY <2>1, <2>2 DEF OutlineInv, SectionType
<1>3. CASE OpenWindow \/ CutBytes \/ CloseWindow \/ AddChunks \/ LinkChunks \/ UNCHANGED chunkVars
  BY <1>0, <1>3 DEF OpenWindow, CutBytes, CloseWindow, AddChunks, LinkChunks, chunkVars
<1> QED
  BY <1>1, <1>2, <1>3 DEF ChunkNext

\* A section is of whole characters.
LEMMA SectionsAreUtf8 ==
  ASSUME OutlineInv, NEW k \in DOMAIN sections
  PROVE  Utf8(Text(k))
<1>1. /\ sections \in Seq(SectionType) /\ Len(sections) \in Nat /\ DOMAIN sections = 1..Len(sections)
      /\ \A m \in 1..Len(sections) : sections[m] \in SectionType
  BY LenProperties, ElementOfSeq DEF OutlineInv
<1>2. \A m \in 1..Len(sections) : sections[m].first \in 1..Len(note.lines) + 1
  BY <1>1 DEF SectionType
<1>3. Len(note.lines) + 1 \in 1..Len(note.lines) + 1
  BY LinesAreTyped DEF OutlineInv
<1>4. k # Len(sections) => k + 1 \in 1..Len(sections)
  BY <1>1
<1> QED
  BY <1>1, <1>2, <1>3, <1>4, BytesAreUtf8 DEF Text, OutlineInv

-----------------------------------------------------------------------------
(* Cutting a section. *)

WordByte(text) == {i \in 0..Len(text) - 1 : ~Space(text, i)}
Within(p, i) == p[1] <= i /\ i < p[2]
Border(text, i) == i = Len(text) \/ text[i + 1] # "c"

\* A piece is within the limit and begins and ends between characters.
GoodPiece(text, p) ==
  /\ p[1] < p[2] /\ p[2] <= Len(text) /\ p[2] - p[1] <= MaxBytes
  /\ Border(text, p[1]) /\ Border(text, p[2])

Held(i) == \E m \in DOMAIN pieces : Within(pieces[m], i)

\* An overlap that no window is shorter than cannot pass over a word.
Lossless == Overlap <= MaxTokens \div 2 + 1

\* What has to be in some piece: every word, or else at least the first.
Due(text) ==
  {i \in WordByte(text) : Lossless \/ Cardinality(Below(Starts(text), i + 1)) = 1}

\* What is cut holds what is due of the words before the next window.
CutInv(text) ==
  /\ pieces \in Seq(Nat \X Nat) /\ \A m \in DOMAIN pieces : GoodPiece(text, pieces[m])
  /\ token \in Nat
  /\ window = <<>> =>
       \A i \in Due(text) : Cardinality(Below(Starts(text), i + 1)) <= token => Held(i)
  /\ window # <<>> =>
       /\ window[1] \in Nat /\ window[2] \in Nat /\ window[3] \in Nat
       /\ window[1] < window[2] /\ window[2] <= Len(text)
       /\ Border(text, window[1]) /\ (window[2] = Len(text) \/ Space(text, window[2]))
       /\ \A i \in Due(text) : i < window[1] => Held(i)
       /\ window[3] = Cardinality(Below(Starts(text), window[2]))
       /\ token < window[3]
       /\ window[3] = Words(text) \/ window[3] >= MaxTokens \div 2 + 1

\* A byte of a word is of some word.
LEMMA WordBytesAreCounted ==
  ASSUME NEW text, Utf8(text), NEW i \in WordByte(text)
  PROVE  /\ i \in Nat /\ i < Len(text) /\ Len(text) \in Nat
         /\ Cardinality(Below(Starts(text), i + 1)) \in 1..Words(text)
<1>1. i \in 0..Len(text) - 1 /\ ~Space(text, i) /\ Len(text) \in Nat
  BY StartsAreCounted DEF WordByte
<1>2. PICK j \in Starts(text) : 0 <= j /\ j <= i
  BY <1>1, WordBegins
<1>3. j \in Below(Starts(text), i + 1)
  BY <1>1, <1>2, StartsAreCounted DEF Below
<1>4. /\ IsFiniteSet(Below(Starts(text), i + 1)) /\ Cardinality(Below(Starts(text), i + 1)) \in Nat
      /\ Cardinality(Below(Starts(text), i + 1)) <= Words(text) /\ Words(text) \in Nat
  BY StartsAreCounted, BelowIsCounted
<1>5. Cardinality(Below(Starts(text), i + 1)) # 0
  BY <1>3, <1>4, FS_EmptySet
<1> QED
  BY <1>1, <1>4, <1>5

\* Nothing is cut of a section that is begun.
LEMMA NothingIsCut ==
  ASSUME NEW text, Utf8(text), token = 0, window = <<>>, pieces = <<>>
  PROVE  CutInv(text)
<1>1. \A i \in WordByte(text) : ~(Cardinality(Below(Starts(text), i + 1)) <= 0)
  BY WordBytesAreCounted
<1> QED
  BY <1>1, EmptySeq DEF CutInv, Due

\* A piece more.
LEMMA PieceIsAdded ==
  ASSUME NEW text, CutInv(text), NEW p \in Nat \X Nat, GoodPiece(text, p),
         pieces' = Append(pieces, p)
  PROVE  /\ pieces' \in Seq(Nat \X Nat) /\ \A m \in DOMAIN pieces' : GoodPiece(text, pieces'[m])
         /\ \A i : Held(i) \/ Within(p, i) => \E m \in DOMAIN pieces' : Within(pieces'[m], i)
<1>1. /\ pieces \in Seq(Nat \X Nat) /\ \A m \in DOMAIN pieces : GoodPiece(text, pieces[m])
      /\ Len(pieces) \in Nat /\ DOMAIN pieces = 1..Len(pieces)
  BY LenProperties DEF CutInv
<1>2. /\ pieces' \in Seq(Nat \X Nat) /\ Len(pieces') = Len(pieces) + 1
      /\ \A m \in 1..Len(pieces) : pieces'[m] = pieces[m]
      /\ pieces'[Len(pieces) + 1] = p
  BY <1>1, AppendProperties
<1>3. DOMAIN pieces' = 1..Len(pieces) + 1
  BY <1>2, LenProperties
<1>4. \A m \in DOMAIN pieces' : m \in 1..Len(pieces) \/ m = Len(pieces) + 1
  BY <1>1, <1>3
<1>5. \A m \in DOMAIN pieces' : GoodPiece(text, pieces'[m])
  BY <1>1, <1>2, <1>4
<1>6. \A i : Held(i) => \E m \in DOMAIN pieces' : Within(pieces'[m], i)
  <2> SUFFICES ASSUME NEW i, Held(i) PROVE \E m \in DOMAIN pieces' : Within(pieces'[m], i)
    OBVIOUS
  <2>1. PICK m \in 1..Len(pieces) : Within(pieces[m], i)
    BY <1>1 DEF Held
  <2>2. m \in DOMAIN pieces' /\ pieces'[m] = pieces[m]
    BY <1>1, <1>2, <1>3
  <2> QED
    BY <2>1, <2>2
<1>7. \A i : Within(p, i) => \E m \in DOMAIN pieces' : Within(pieces'[m], i)
  <2>1. Len(pieces) + 1 \in DOMAIN pieces'
    BY <1>1, <1>3
  <2>2. pieces'[Len(pieces) + 1] = p
    BY <1>2
  <2> HIDE DEF Within
  <2> QED
    BY <2>1, <2>2, Zenon
<1> QED
  BY <1>2, <1>5, <1>6, <1>7

\* A space is no part of a character.
LEMMA SpacesAreBorders ==
  ASSUME NEW text, NEW i, i = Len(text) \/ Space(text, i)
  PROVE  Border(text, i)
  BY DEF Space, Border

\* A window begins at a word.
LEMMA OpenKeepsCut ==
  ASSUME OutlineInv, section \in DOMAIN sections, CutInv(Text(section)), OpenWindow
  PROVE  CutInv(Text(section))'
<1> DEFINE text == Text(section)
           S == Starts(text)
           e == WindowEnd(text)
           included == Cardinality(Below(S, e))
           start == IF token = 0 THEN 0 ELSE WordStart(text, token)
<1>1. /\ window = <<>> /\ token < Words(text)
      /\ window' = <<start, e, Max({token + 1, included})>>
      /\ UNCHANGED <<note, sections, section, token, pieces>>
  BY DEF OpenWindow, outlineVars, Below
<1>2. Text(section)' = text
  BY <1>1 DEF Text, Bytes, Offset
<1>3. Utf8(text)
  BY SectionsAreUtf8
<1>4. /\ pieces \in Seq(Nat \X Nat) /\ \A m \in DOMAIN pieces : GoodPiece(text, pieces[m])
      /\ token \in Nat
      /\ \A i \in Due(text) : Cardinality(Below(S, i + 1)) <= token => Held(i)
  BY <1>1 DEF CutInv
<1> HIDE DEF text
<1>5. /\ S \in SUBSET Nat /\ S \subseteq 0..Len(text) - 1 /\ IsFiniteSet(S)
      /\ Words(text) \in 0..Len(text) /\ Len(text) \in Nat
      /\ \A i \in S : text[i + 1] # "c"
  BY <1>3, StartsAreCounted
<1>6. token \in 0..Words(text) - 1
  BY <1>1, <1>4, <1>5
<1>7. /\ e \in 1..Len(text) /\ (e = Len(text) \/ Space(text, e))
      /\ WordStart(text, token) < e
      /\ included \in token + 1..Words(text)
      /\ included = Words(text) \/ included >= token + MaxTokens \div 2 + 1
  BY <1>3, <1>6, WindowsEndWell
<1>8. /\ WordStart(text, token) \in S
      /\ Cardinality(Below(S, WordStart(text, token))) = token
  BY <1>3, <1>6, WordsStartAndEnd
<1> HIDE DEF e, included, S
<1>9. Max({token + 1, included}) = included
  <2>1. {token + 1, included} \in SUBSET Nat /\ included \in Nat
        /\ \A m \in {token + 1, included} : m <= included
    BY <1>4, <1>5, <1>7
  <2>2. Max({token + 1, included}) \in {token + 1, included}
        /\ \A m \in {token + 1, included} : m <= Max({token + 1, included})
    BY <2>1, MaxOfNaturals
  <2> QED
    BY <1>4, <2>1, <2>2
<1>10. start \in Nat /\ start < e /\ Border(text, start)
  <2>1. CASE token = 0
    <3>1. 1 \in DOMAIN text
      BY <1>3, <1>5, <1>7, StartsAreCounted
    <3>2. text[1] # "c"
      BY <1>3, <3>1 DEF Utf8
    <3> QED
      BY <1>5, <1>7, <2>1, <3>2 DEF Border
  <2>2. CASE token # 0
    BY <1>5, <1>7, <1>8, <2>2 DEF Border
  <2> QED
    BY <2>1, <2>2
<1>11. ASSUME NEW i \in Due(text), i < start PROVE Held(i)
  <2>0. i \in WordByte(text)
    BY DEF Due
  <2>1. token # 0 /\ start = WordStart(text, token)
    BY <1>3, <1>11, <2>0, WordBytesAreCounted
  <2>2. i \in Nat /\ start \in Nat
    BY <1>3, <1>10, <2>0, WordBytesAreCounted
  <2>3. Below(S, i + 1) \subseteq Below(S, start)
    <3>1. \A j \in S : j < i + 1 => j < start
      BY <1>5, <1>11, <2>2
    <3> QED
      BY <3>1 DEF Below
  <2>4. IsFiniteSet(Below(S, start)) /\ Cardinality(Below(S, start)) = token
    BY <1>5, <1>8, <2>1, BelowIsCounted
  <2>5. Cardinality(Below(S, i + 1)) <= token
    BY <2>3, <2>4, FS_Subset
  <2> QED
    BY <1>4, <2>5
<1>12. included >= MaxTokens \div 2 + 1 \/ included = Words(text)
  <2>1. MaxTokens \div 2 \in Nat
    BY OptionsAreValid
  <2> QED
    BY <1>4, <1>5, <1>7, <2>1
<1> DEFINE limit == Max({token + 1, included})
<1> HIDE DEF start
<1>13. window' = <<start, e, included>>
  BY <1>1, <1>9
<1>14. window'[1] = start /\ window'[2] = e /\ window'[3] = included /\ window' # <<>>
  BY <1>13
<1>15. \A i : Held(i)' <=> Held(i)
  BY <1>1 DEF Held
<1>16. e \in Nat /\ included \in Nat /\ e <= Len(text) /\ token < included
  BY <1>4, <1>5, <1>7
<1> QED
  BY <1>1, <1>2, <1>4, <1>7, <1>10, <1>11, <1>12, <1>14, <1>15, <1>16 DEF CutInv, included, S

\* The byte limit cuts a window short.
LEMMA CutKeepsCut ==
  ASSUME OutlineInv, section \in DOMAIN sections, CutInv(Text(section)), CutBytes
  PROVE  CutInv(Text(section))'
<1> DEFINE text == Text(section)
           end == ByteCut(text, window[1])
           p == <<window[1], end>>
<1>1. /\ window # <<>> /\ window[2] - window[1] > MaxBytes
      /\ pieces' = Append(pieces, p)
      /\ window' = <<end, window[2], window[3]>>
      /\ UNCHANGED <<note, sections, section, token>>
  BY DEF CutBytes, outlineVars
<1>2. Text(section)' = text
  BY <1>1 DEF Text, Bytes, Offset
<1>3. Utf8(text)
  BY SectionsAreUtf8
<1>4. /\ token \in Nat
      /\ window[1] \in Nat /\ window[2] \in Nat /\ window[3] \in Nat
      /\ window[1] < window[2] /\ window[2] <= Len(text)
      /\ Border(text, window[1]) /\ (window[2] = Len(text) \/ Space(text, window[2]))
      /\ \A i \in Due(text) : i < window[1] => Held(i)
      /\ window[3] = Cardinality(Below(Starts(text), window[2]))
      /\ token < window[3]
      /\ window[3] = Words(text) \/ window[3] >= MaxTokens \div 2 + 1
  BY <1>1 DEF CutInv
<1> HIDE DEF text
<1>5. Len(text) \in Nat /\ MaxBytes \in Nat \ {0}
  BY <1>3, StartsAreCounted, OptionsAreValid
<1>6. end \in window[1] + 1..window[1] + MaxBytes /\ text[end + 1] # "c"
  <2>1. window[1] \in 0..Len(text) /\ window[1] + MaxBytes < Len(text)
    BY <1>1, <1>4, <1>5
  <2> QED
    BY <1>3, <2>1, CutsAreBorders
<1> HIDE DEF end
<1>7. p \in Nat \X Nat /\ GoodPiece(text, p) /\ end \in Nat /\ end < window[2]
  <2>1. /\ window[1] \in Nat /\ window[2] \in Nat /\ MaxBytes \in Nat /\ Len(text) \in Nat
        /\ window[1] + MaxBytes < window[2] /\ window[2] <= Len(text)
    <3>1. window[2] - window[1] > MaxBytes
      BY <1>1
    <3> QED
      BY <1>4, <1>5, <3>1
  <2>2. end \in Nat /\ window[1] < end /\ end <= window[1] + MaxBytes
    BY <1>6, <2>1
  <2>3. end < window[2] /\ end <= Len(text) /\ end - window[1] <= MaxBytes
    BY <2>1, <2>2
  <2> QED
    BY <1>4, <1>6, <2>1, <2>2, <2>3 DEF GoodPiece, Border
<1>8. /\ pieces' \in Seq(Nat \X Nat) /\ \A m \in DOMAIN pieces' : GoodPiece(text, pieces'[m])
      /\ \A i : Held(i) \/ Within(p, i) => Held(i)'
  <2>1. CutInv(text)
    BY DEF text
  <2> HIDE DEF p
  <2> QED
    BY <1>1, <1>7, <2>1, PieceIsAdded DEF Held
<1>9. ASSUME NEW i \in Due(text), i < end PROVE Held(i)'
  <2>1. i \in Nat
    BY <1>3, WordBytesAreCounted DEF Due
  <2>2. i < window[1] \/ Within(p, i)
    BY <1>4, <1>9, <2>1 DEF Within
  <2> QED
    BY <1>4, <1>8, <2>2
<1>10. window'[1] = end /\ window'[2] = window[2] /\ window'[3] = window[3] /\ window' # <<>>
  BY <1>1
<1>11. Border(text, end)
  BY <1>6 DEF Border
<1> QED
  BY <1>1, <1>2, <1>4, <1>7, <1>8, <1>9, <1>10, <1>11 DEF CutInv

\* The next window begins no later than the words that were not included.
LEMMA NoWordIsPassedOver ==
  ASSUME Lossless,
         token \in Nat, NEW included \in Nat, token < included,
         included < WordSize, included >= MaxTokens \div 2 + 1
  PROVE  NextToken(included) <= included
<1>1. /\ MaxTokens \in Nat /\ Overlap \in Nat /\ WordSize \in Nat
      /\ MaxTokens \div 2 \in Nat
  BY OptionsAreValid
<1> USE DEF Lossless
<1>2. included - Overlap \in 0..WordSize - 1 /\ included - Overlap <= included
  BY <1>1
<1>3. (included - Overlap) % WordSize = included - Overlap
  BY <1>1, <1>2
<1>4. {included - Overlap, token + 1} \in SUBSET Nat
      /\ \A m \in {included - Overlap, token + 1} : m <= included
  BY <1>1, <1>2
<1>5. NextToken(included) = Max({included - Overlap, token + 1})
  BY <1>3 DEF NextToken
<1> QED
  BY <1>4, <1>5, MaxOfNaturals

\* A next window begins at some word.
LEMMA NextTokenIsNatural ==
  ASSUME token \in Nat, NEW included \in Nat, WordSize # 0
  PROVE  NextToken(included) \in Nat
<1>1. Overlap \in Nat /\ WordSize \in Nat
  BY OptionsAreValid
<1>2. (included - Overlap) % WordSize \in Nat
  BY <1>1
<1> DEFINE m == (included - Overlap) % WordSize
<1> HIDE DEF m
<1>3. {m, token + 1} \in SUBSET Nat /\ m + token + 1 \in Nat
      /\ \A n \in {m, token + 1} : n <= m + token + 1
  BY <1>2 DEF m
<1>4. NextToken(included) = Max({m, token + 1})
  BY DEF NextToken, m
<1> QED
  BY <1>3, <1>4, MaxOfNaturals

\* The end of a window.
LEMMA CloseKeepsCut ==
  ASSUME OutlineInv, section \in DOMAIN sections, CutInv(Text(section)), CloseWindow
  PROVE  CutInv(Text(section))'
<1> DEFINE text == Text(section)
           S == Starts(text)
           p == <<window[1], window[2]>>
<1>1. /\ window # <<>> /\ window[2] - window[1] <= MaxBytes
      /\ pieces' = Append(pieces, p) /\ window' = <<>>
      /\ token' = IF window[3] >= Words(text) THEN window[3] ELSE NextToken(window[3])
      /\ UNCHANGED <<note, sections, section>>
  BY DEF CloseWindow, outlineVars
<1>2. Text(section)' = text
  BY <1>1 DEF Text, Bytes, Offset
<1>3. Utf8(text)
  BY SectionsAreUtf8
<1>4. /\ token \in Nat
      /\ window[1] \in Nat /\ window[2] \in Nat /\ window[3] \in Nat
      /\ window[1] < window[2] /\ window[2] <= Len(text)
      /\ Border(text, window[1]) /\ (window[2] = Len(text) \/ Space(text, window[2]))
      /\ \A i \in Due(text) : i < window[1] => Held(i)
      /\ window[3] = Cardinality(Below(S, window[2]))
      /\ token < window[3]
      /\ window[3] = Words(text) \/ window[3] >= MaxTokens \div 2 + 1
  BY <1>1 DEF CutInv
<1> HIDE DEF text
<1>5. /\ S \in SUBSET Nat /\ S \subseteq 0..Len(text) - 1 /\ IsFiniteSet(S)
      /\ Words(text) \in 0..Len(text) /\ Len(text) \in Nat /\ Words(text) = Cardinality(S)
  BY <1>3, StartsAreCounted
<1>6. p \in Nat \X Nat /\ GoodPiece(text, p)
  BY <1>1, <1>4, SpacesAreBorders DEF GoodPiece
<1>7. /\ pieces' \in Seq(Nat \X Nat) /\ \A m \in DOMAIN pieces' : GoodPiece(text, pieces'[m])
      /\ \A i : Held(i) \/ Within(p, i) => Held(i)'
  <2>1. CutInv(text)
    BY DEF text
  <2> HIDE DEF p
  <2> QED
    BY <1>1, <1>6, <2>1, PieceIsAdded DEF Held
<1>8. token' \in Nat /\ (Lossless => token' <= window[3])
  <2>1. CASE window[3] >= Words(text)
    BY <1>1, <1>4, <2>1
  <2>2. CASE ~(window[3] >= Words(text))
    <3>1. window[3] # Words(text) /\ window[3] < WordSize /\ WordSize # 0
      <4>1. Len(text) < WordSize /\ WordSize \in Nat
        BY <1>3, OptionsAreValid DEF Utf8
      <4> QED
        BY <1>4, <1>5, <2>2, <4>1
    <3>2. token' = NextToken(window[3])
      BY <1>1, <2>2
    <3>3. token' \in Nat
      BY <1>4, <3>1, <3>2, NextTokenIsNatural
    <3>4. Lossless => token' <= window[3]
      BY <1>4, <3>1, <3>2, NoWordIsPassedOver
    <3> QED
      BY <3>3, <3>4
  <2> QED
    BY <2>1, <2>2
<1>9. ASSUME NEW i \in Due(text), Cardinality(Below(S, i + 1)) <= token'
      PROVE  Held(i)'
  <2>0. i \in WordByte(text) /\ (Lossless \/ Cardinality(Below(S, i + 1)) = 1)
    BY DEF Due
  <2>1. i \in Nat /\ i < Len(text) /\ ~Space(text, i) /\ Cardinality(Below(S, i + 1)) \in Nat
    BY <1>3, <2>0, WordBytesAreCounted DEF WordByte
  <2>8. Cardinality(Below(S, i + 1)) <= window[3]
    BY <1>4, <1>8, <1>9, <2>0, <2>1
  <2>2. i < window[2]
    <3> SUFFICES ASSUME window[2] <= i PROVE FALSE
      BY <1>4, <2>1
    <3>1. Space(text, window[2]) /\ window[2] # i
      BY <1>4, <1>5, <2>1
    <3>2. i \in 0..Len(text) - 1 /\ window[2] + 1 \in 0..i /\ (window[2] + 1) - 1 = window[2]
      <4> DEFINE e == window[2]
      <4>1. e \in Nat /\ e <= i /\ e # i /\ Len(text) \in Nat
        BY <1>4, <1>5, <3>1
      <4> HIDE DEF e
      <4>2. i \in 0..Len(text) - 1 /\ e + 1 \in 0..i /\ (e + 1) - 1 = e
        BY <2>1, <4>1
      <4> QED
        BY <4>2 DEF e
    <3>3. PICK j \in Starts(text) : window[2] + 1 <= j /\ j <= i
      BY <1>3, <2>1, <3>1, <3>2, WordBegins
    <3>4. j \in S /\ j \in Nat
      BY <1>5, <3>3
    <3>5. Cardinality(Below(S, j)) < Cardinality(Below(S, i + 1))
      <4>1. i + 1 \in Nat /\ j < i + 1
        BY <2>1, <3>3, <3>4
      <4> QED
        BY <1>5, <3>4, <4>1, BelowGrows
    <3>6. Cardinality(Below(S, window[2])) <= Cardinality(Below(S, j))
      <4>1. \A m \in S : m < window[2] => m < j
        BY <1>4, <1>5, <3>3, <3>4
      <4>2. Below(S, window[2]) \in SUBSET Below(S, j)
        BY <4>1 DEF Below
      <4> QED
        BY <1>5, <4>2, BelowIsCounted, FS_Subset
    <3>7. Cardinality(Below(S, j)) \in Nat
      BY <1>5, BelowIsCounted
    <3> QED
      BY <1>4, <2>1, <2>8, <3>5, <3>6, <3>7
  <2>3. i < window[1] \/ Within(p, i)
    BY <1>4, <2>1, <2>2 DEF Within
  <2> QED
    BY <1>4, <1>7, <2>3
<1> QED
  BY <1>1, <1>2, <1>7, <1>8, <1>9 DEF CutInv

-----------------------------------------------------------------------------
(* The chunks of a note. *)

ChunkType ==
  [section : Nat, position : Position, part : Nat, piece : Nat \X Nat, parent : Nat]

\* The chunks of the sections that are done hold what is due of them.
ChunksInv ==
  /\ chunks \in Seq(ChunkType)
  /\ \A m \in DOMAIN chunks :
       /\ chunks[m].section \in DOMAIN sections /\ chunks[m].section < section
       /\ GoodPiece(Text(chunks[m].section), chunks[m].piece)
  /\ \A k \in DOMAIN sections : k < section =>
       \A i \in Due(Text(k)) :
         \E m \in DOMAIN chunks : chunks[m].section = k /\ Within(chunks[m].piece, i)

CoverInv ==
  /\ OutlineInv
  /\ status \in {"read", "cut", "chunked", "refused"}
  /\ status = "read" =>
       section = 0 /\ token = 0 /\ window = <<>> /\ pieces = <<>> /\ chunks = <<>>
  /\ status # "read" => section \in 1..Len(sections) + 1
  /\ status \in {"chunked", "refused"} => section = Len(sections) + 1
  /\ status = "cut" /\ section \in DOMAIN sections => CutInv(Text(section))
  /\ ChunksInv

\* A section whose cutting begins.
LEMMA CutBegins ==
  /\ OutlineInv /\ section \in DOMAIN sections
  /\ token = 0 /\ window = <<>> /\ pieces = <<>>
  => CutInv(Text(section))
BY SectionsAreUtf8, NothingIsCut

\* A piece with a byte of a word is not blank.
LEMMA PieceOfWord ==
  ASSUME NEW text, Utf8(text), NEW p \in Nat \X Nat, GoodPiece(text, p),
         NEW i \in WordByte(text), Within(p, i)
  PROVE  ~IsBlank(Piece(text, p))
<1>1. /\ text \in Seq(Byte) /\ Len(text) \in Nat
      /\ p[1] \in Nat /\ p[2] \in Nat /\ p[1] < p[2] /\ p[2] <= Len(text)
      /\ i \in Nat /\ p[1] <= i /\ i < p[2]
  BY WordBytesAreCounted DEF Utf8, GoodPiece, Within
<1>2. \A j \in p[1] + 1..p[2] : text[j] \in Byte
  <2>1. \A j \in 1..Len(text) : text[j] \in Byte
    BY <1>1, ElementOfSeq
  <2> QED
    BY <1>1, <2>1
<1>3. /\ Piece(text, p) \in Seq(Byte) /\ Len(Piece(text, p)) = p[2] - p[1]
      /\ \A j \in 1..p[2] - p[1] : Piece(text, p)[j] = text[p[1] + j]
  <2>1. /\ SubSeq(text, p[1] + 1, p[2]) \in Seq(Byte)
        /\ Len(SubSeq(text, p[1] + 1, p[2])) =
             IF p[1] + 1 <= p[2] THEN p[2] - (p[1] + 1) + 1 ELSE 0
        /\ \A j \in 1..p[2] - (p[1] + 1) + 1 :
             SubSeq(text, p[1] + 1, p[2])[j] = text[(p[1] + 1) + j - 1]
    BY <1>1, <1>2, SubSeqProperties
  <2> QED
    BY <1>1, <2>1 DEF Piece
<1>4. i - p[1] + 1 \in DOMAIN Piece(text, p)
  BY <1>1, <1>3, LenProperties
<1>5. Piece(text, p)[i - p[1] + 1] = text[i + 1]
  <2>1. i - p[1] + 1 \in 1..p[2] - p[1] /\ p[1] + (i - p[1] + 1) = i + 1
    BY <1>1
  <2> QED
    BY <1>3, <2>1
<1>6. text[i + 1] \notin {" ", "n"}
  BY DEF WordByte, Space
<1> QED
  BY <1>4, <1>5, <1>6 DEF IsBlank

\* What a section is cut into, when it is.
Whole(text) == IF Fits(text) /\ text # <<>> THEN <<<<0, Len(text)>>>> ELSE pieces

LEMMA WholeIsGood ==
  ASSUME NEW text, Utf8(text), CutInv(text), window = <<>>, Fits(text) \/ token >= Words(text)
  PROVE  /\ Whole(text) \in Seq(Nat \X Nat)
         /\ \A m \in DOMAIN Whole(text) : GoodPiece(text, Whole(text)[m])
         /\ \A i \in Due(text) : \E m \in DOMAIN Whole(text) : Within(Whole(text)[m], i)
<1>1. Len(text) \in Nat /\ text \in Seq(Byte) /\ DOMAIN text = 1..Len(text) /\ Words(text) \in Nat
  <2>1. Words(text) \in 0..Len(text) /\ Len(text) \in Nat /\ DOMAIN text = 1..Len(text)
    BY StartsAreCounted
  <2> QED
    BY <2>1 DEF Utf8
<1>2. CASE Fits(text) /\ text # <<>>
  <2> DEFINE p == <<0, Len(text)>>
  <2>1. Whole(text) = <<p>>
    BY <1>2 DEF Whole
  <2>2. Len(text) # 0
    BY <1>1, <1>2, EmptySeq
  <2>3. 1 \in DOMAIN text
    BY <1>1, <2>2
  <2>4. text[1] # "c"
    BY <2>3 DEF Utf8
  <2>5. p \in Nat \X Nat /\ GoodPiece(text, p)
    BY <1>1, <1>2, <2>2, <2>4 DEF GoodPiece, Border, Fits
  <2>6. \A i \in Due(text) : Within(p, i)
    BY <1>1 DEF Due, WordByte, Within
  <2> HIDE DEF p
  <2>7. <<p>> \in Seq(Nat \X Nat) /\ DOMAIN <<p>> = {1} /\ <<p>>[1] = p
    BY <2>5
  <2> QED
    BY <2>1, <2>5, <2>6, <2>7
<1>3. CASE ~(Fits(text) /\ text # <<>>)
  <2>1. Whole(text) = pieces
    BY <1>3 DEF Whole
  <2>2. ASSUME NEW i \in Due(text) PROVE Held(i)
    <3>1. i \in 0..Len(text) - 1 /\ i \in WordByte(text)
      BY DEF Due, WordByte
    <3>2. text # <<>>
      BY <1>1, <3>1, EmptySeq
    <3>3. token >= Words(text)
      BY <1>3, <3>2
    <3>4. Cardinality(Below(Starts(text), i + 1)) \in 1..Words(text) /\ token \in Nat
      BY <3>1, WordBytesAreCounted DEF CutInv
    <3>5. Cardinality(Below(Starts(text), i + 1)) <= token
      BY <1>1, <3>3, <3>4
    <3> QED
      BY <3>5 DEF CutInv
  <2> QED
    BY <2>1, <2>2 DEF CutInv, Held
<1> QED
  BY <1>2, <1>3

\* The chunks that a section adds, one for each piece that is not blank.
Parts(text) == {i \in DOMAIN Whole(text) : ~IsBlank(Piece(text, Whole(text)[i]))}
NewChunk(text, i) ==
  [section |-> section, position |-> sections[section].position,
   part |-> Nth(Parts(text), i - 1), piece |-> Whole(text)[Nth(Parts(text), i - 1)], parent |-> 0]

LEMMA AddedChunks ==
  ASSUME OutlineInv, ChunksInv, section \in DOMAIN sections, CutInv(Text(section)), AddChunks
  PROVE  LET text == Text(section)
             n == Cardinality(Parts(text)) IN
         /\ section' = section + 1 /\ UNCHANGED <<note, sections>> /\ section \in Nat
         /\ Whole(text) \in Seq(Nat \X Nat)
         /\ \A m \in DOMAIN Whole(text) : GoodPiece(text, Whole(text)[m])
         /\ \A i \in Due(text) : \E m \in DOMAIN Whole(text) : Within(Whole(text)[m], i)
         /\ Parts(text) \in SUBSET Nat /\ Parts(text) \in SUBSET DOMAIN Whole(text)
         /\ IsFiniteSet(Parts(text)) /\ n \in Nat
         /\ chunks \in Seq(ChunkType) /\ Len(chunks) \in Nat /\ DOMAIN chunks = 1..Len(chunks)
         /\ chunks' \in Seq(ChunkType) /\ DOMAIN chunks' = 1..Len(chunks) + n
         /\ \A m \in 1..Len(chunks) : chunks'[m] = chunks[m]
         /\ \A i \in 1..n : chunks'[Len(chunks) + i] = NewChunk(text, i)
         /\ \A i \in 1..n : GoodPiece(text, NewChunk(text, i).piece)
<1> DEFINE text == Text(section)
           whole == Whole(text)
           parts == Parts(text)
           n == Cardinality(parts)
           new(i) == NewChunk(text, i)
           added == [i \in 1..n |-> new(i)]
<1>1. /\ window = <<>> /\ (Fits(text) \/ token >= Words(text))
      /\ chunks' = chunks \o added
      /\ section' = section + 1 /\ UNCHANGED <<note, sections>>
  BY DEF AddChunks, outlineVars, Whole, Parts, NewChunk
<1>3. Utf8(text) /\ CutInv(text)
  BY SectionsAreUtf8
<1>4. /\ section \in Nat /\ sections[section].position \in Position
      /\ DOMAIN sections = 1..Len(sections) /\ Len(sections) \in Nat
  <2>1. sections \in Seq(SectionType) /\ Len(sections) \in Nat /\ DOMAIN sections = 1..Len(sections)
    BY LenProperties DEF OutlineInv
  <2>2. sections[section] \in SectionType
    BY <2>1, ElementOfSeq
  <2> QED
    BY <2>1, <2>2 DEF SectionType
<1> HIDE DEF text
<1>5. /\ whole \in Seq(Nat \X Nat)
      /\ \A m \in DOMAIN whole : GoodPiece(text, whole[m])
      /\ \A i \in Due(text) : \E m \in DOMAIN whole : Within(whole[m], i)
  BY <1>1, <1>3, WholeIsGood
<1> HIDE DEF whole
<1>6. /\ Len(whole) \in Nat /\ DOMAIN whole = 1..Len(whole)
      /\ \A m \in DOMAIN whole : whole[m] \in Nat \X Nat
  BY <1>5, LenProperties, ElementOfSeq
<1>7. parts \in SUBSET Nat /\ parts \in SUBSET DOMAIN whole /\ IsFiniteSet(parts) /\ n \in Nat
  <2>1. parts \in SUBSET DOMAIN whole /\ parts \in SUBSET Nat
    BY <1>6 DEF Parts, whole
  <2>2. IsFiniteSet(DOMAIN whole)
    <3>1. Len(whole) \in Int
      BY <1>6
    <3> QED
      BY <1>6, <3>1, FS_Interval
  <2>3. IsFiniteSet(parts) /\ n \in Nat
    BY <2>1, <2>2, FS_Subset, FS_CardinalityType
  <2> QED
    BY <2>1, <2>3
<1>8. ASSUME NEW i \in 1..n
      PROVE  /\ Nth(parts, i - 1) \in DOMAIN whole /\ Nth(parts, i - 1) \in Nat
  <2>1. i - 1 \in 0..n - 1
    BY <1>7
  <2> HIDE DEF parts
  <2>2. Nth(parts, i - 1) \in parts
    BY <1>7, <2>1, NthMember
  <2> QED
    BY <1>7, <2>2
<1> HIDE DEF parts
<1>9. \A i : new(i) = [section |-> section, position |-> sections[section].position,
                      part |-> Nth(parts, i - 1), piece |-> whole[Nth(parts, i - 1)], parent |-> 0]
  BY DEF NewChunk, parts, whole
<1> HIDE DEF new
<1>10. \A i \in 1..n : new(i) \in ChunkType
  BY <1>4, <1>6, <1>8, <1>9 DEF ChunkType
<1>11. \A i \in 1..n : GoodPiece(text, new(i).piece)
  BY <1>5, <1>8, <1>9
<1> HIDE DEF new, n
<1>12. added \in Seq(ChunkType) /\ Len(added) = n
  BY <1>7, <1>10
<1>13. \A i \in 1..n : added[i] = new(i)
  OBVIOUS
<1> HIDE DEF added
<1>14. /\ chunks \in Seq(ChunkType) /\ Len(chunks) \in Nat /\ DOMAIN chunks = 1..Len(chunks)
  BY LenProperties DEF ChunksInv
<1>15. /\ chunks' \in Seq(ChunkType) /\ Len(chunks') = Len(chunks) + n
       /\ \A m \in 1..Len(chunks) : chunks'[m] = chunks[m]
       /\ \A i \in 1..n : chunks'[Len(chunks) + i] = new(i)
  <2>1. /\ chunks' \in Seq(ChunkType) /\ Len(chunks') = Len(chunks) + Len(added)
        /\ \A m \in 1..Len(chunks) + Len(added) :
             chunks'[m] = IF m <= Len(chunks) THEN chunks[m] ELSE added[m - Len(chunks)]
    BY <1>1, <1>12, <1>14, ConcatProperties
  <2>2. \A m \in 1..Len(chunks) : chunks'[m] = chunks[m]
    BY <1>7, <1>12, <1>14, <2>1
  <2>3. ASSUME NEW i \in 1..n PROVE chunks'[Len(chunks) + i] = new(i)
    <3>1. /\ Len(chunks) + i \in 1..Len(chunks) + Len(added) /\ ~(Len(chunks) + i <= Len(chunks))
          /\ (Len(chunks) + i) - Len(chunks) = i
      BY <1>7, <1>12, <1>14
    <3> QED
      BY <1>13, <2>1, <3>1
  <2> QED
    BY <1>12, <2>1, <2>2, <2>3
<1>16. DOMAIN chunks' = 1..Len(chunks) + n
  BY <1>15, LenProperties
<1> QED
  BY <1>1, <1>4, <1>5, <1>7, <1>11, <1>14, <1>15, <1>16 DEF text, whole, parts, n, new

\* They hold what is due of it.
LEMMA AddKeepsChunks ==
  ASSUME OutlineInv, ChunksInv, section \in DOMAIN sections, CutInv(Text(section)), AddChunks
  PROVE  ChunksInv'
<1> DEFINE text == Text(section)
           whole == Whole(text)
           parts == Parts(text)
           n == Cardinality(parts)
           new(i) == NewChunk(text, i)
<1>1. section' = section + 1 /\ UNCHANGED <<note, sections>> /\ section \in Nat
  BY AddedChunks
<1>2. \A k : Text(k)' = Text(k)
  BY <1>1 DEF Text, Bytes, Offset
<1>3. Utf8(text)
  BY SectionsAreUtf8
<1>4. /\ DOMAIN sections = 1..Len(sections) /\ Len(sections) \in Nat
  BY LenProperties DEF OutlineInv
<1>5. /\ whole \in Seq(Nat \X Nat)
      /\ \A m \in DOMAIN whole : GoodPiece(text, whole[m])
      /\ \A i \in Due(text) : \E m \in DOMAIN whole : Within(whole[m], i)
  BY AddedChunks
<1>6. \A m \in DOMAIN whole : whole[m] \in Nat \X Nat
  <2> HIDE DEF whole
  <2> QED
    BY <1>5, LenProperties, ElementOfSeq
<1>7. parts \in SUBSET Nat /\ IsFiniteSet(parts) /\ n \in Nat
  BY AddedChunks
<1>8. \A m \in DOMAIN whole : ~IsBlank(Piece(text, whole[m])) => m \in parts
  BY DEF Parts
<1>9. \A i : new(i).section = section /\ new(i).piece = whole[Nth(parts, i - 1)]
  BY DEF NewChunk
<1>11. \A i \in 1..n : GoodPiece(text, new(i).piece)
  BY AddedChunks
<1>14. chunks \in Seq(ChunkType) /\ Len(chunks) \in Nat /\ DOMAIN chunks = 1..Len(chunks)
  BY AddedChunks
<1>15. /\ chunks' \in Seq(ChunkType)
       /\ \A m \in 1..Len(chunks) : chunks'[m] = chunks[m]
       /\ \A i \in 1..n : chunks'[Len(chunks) + i] = new(i)
  BY AddedChunks
<1>16. DOMAIN chunks' = 1..Len(chunks) + n
  BY AddedChunks
<1> HIDE DEF text, whole, parts, n, new
<1>17. ASSUME NEW m \in DOMAIN chunks'
       PROVE  /\ chunks'[m].section \in DOMAIN sections /\ chunks'[m].section < section + 1
              /\ GoodPiece(Text(chunks'[m].section), chunks'[m].piece)
  <2>1. CASE m \in 1..Len(chunks)
    <3>1. /\ chunks'[m] = chunks[m] /\ chunks[m].section \in DOMAIN sections
          /\ chunks[m].section < section
          /\ GoodPiece(Text(chunks[m].section), chunks[m].piece)
      BY <1>14, <1>15, <2>1 DEF ChunksInv
    <3>2. chunks[m].section < section + 1
      BY <1>4, <3>1
    <3> QED
      BY <3>1, <3>2
  <2>2. CASE m \notin 1..Len(chunks)
    <3>1. m - Len(chunks) \in 1..n /\ Len(chunks) + (m - Len(chunks)) = m
      BY <1>7, <1>14, <1>16, <2>2
    <3>2. chunks'[m] = new(m - Len(chunks))
      BY <1>15, <3>1
    <3>3. chunks'[m].section = section /\ GoodPiece(text, chunks'[m].piece)
      BY <1>9, <1>11, <3>1, <3>2
    <3> QED
      BY <1>4, <3>3 DEF text
  <2> QED
    BY <2>1, <2>2
<1>18. ASSUME NEW k \in DOMAIN sections, k < section + 1, NEW i \in Due(Text(k))
       PROVE  \E m \in DOMAIN chunks' : chunks'[m].section = k /\ Within(chunks'[m].piece, i)
  <2>1. CASE k < section
    <3>1. PICK m \in 1..Len(chunks) : chunks[m].section = k /\ Within(chunks[m].piece, i)
      BY <1>14, <2>1 DEF ChunksInv
    <3>2. m \in DOMAIN chunks' /\ chunks'[m] = chunks[m]
      BY <1>7, <1>14, <1>15, <1>16
    <3> QED
      BY <3>1, <3>2
  <2>2. CASE ~(k < section)
    <3>1. k = section
      BY <1>4, <1>18, <2>2
    <3>2. i \in Due(text) /\ i \in WordByte(text)
      BY <3>1 DEF text, Due
    <3>3. PICK w \in DOMAIN whole : Within(whole[w], i)
      BY <1>5, <3>2
    <3>4. w \in parts
      BY <1>3, <1>5, <1>6, <1>8, <3>2, <3>3, PieceOfWord
    <3> DEFINE r == Cardinality(Below(parts, w))
    <3>5. r \in 0..n - 1 /\ Nth(parts, r) = w
      BY <1>7, <3>4, EveryRankIsTaken, NthMember DEF n
    <3> HIDE DEF r
    <3>6. r + 1 \in 1..n /\ (r + 1) - 1 = r /\ Len(chunks) + (r + 1) \in 1..Len(chunks) + n
      BY <1>7, <1>14, <3>5
    <3>7. new(r + 1).section = k /\ new(r + 1).piece = whole[w]
      BY <1>9, <3>1, <3>5, <3>6
    <3>8. chunks'[Len(chunks) + (r + 1)] = new(r + 1)
      BY <1>15, <3>6
    <3> QED
      BY <1>16, <3>3, <3>6, <3>7, <3>8
  <2> QED
    BY <2>1, <2>2
<1> QED
  BY <1>1, <1>2, <1>15, <1>17, <1>18 DEF ChunksInv

\* Linking changes the parents only.
LEMMA LinkKeepsChunks ==
  ASSUME OutlineInv, ChunksInv, LinkChunks
  PROVE  ChunksInv'
<1>1. chunks' = Linked /\ UNCHANGED <<note, sections, section>>
  BY DEF LinkChunks, outlineVars
<1>2. \A k : Text(k)' = Text(k)
  BY <1>1 DEF Text, Bytes, Offset
<1>3. /\ chunks \in Seq(ChunkType) /\ Len(chunks) \in Nat /\ DOMAIN chunks = 1..Len(chunks)
      /\ \A m \in DOMAIN chunks : chunks[m] \in ChunkType
  BY LenProperties, ElementOfSeq DEF ChunksInv
<1>4. ASSUME NEW position PROVE FirstAt(position) \in Nat
  <2> DEFINE those == {i \in DOMAIN chunks : chunks[i].position = position}
  <2>1. those \in SUBSET Nat /\ FirstAt(position) = IF those = {} THEN 0 ELSE Min(those)
    BY <1>3 DEF FirstAt
  <2> HIDE DEF those
  <2>2. CASE those = {}
    BY <2>1, <2>2
  <2>3. CASE those # {}
    <3>1. Min(those) \in Nat
      BY <2>1, <2>3, MinOfNaturals
    <3> QED
      BY <2>1, <2>3, <3>1
  <2> QED
    BY <2>2, <2>3
<1> DEFINE above(i) == FirstAt(sections[chunks[i].section].parent)
<1>5. chunks' = [i \in DOMAIN chunks |-> [chunks[i] EXCEPT !.parent = above(i)]]
  BY <1>1 DEF Linked
<1>6. \A i : above(i) \in Nat
  BY <1>4
<1> HIDE DEF above
<1>7. \A i \in DOMAIN chunks :
        /\ chunks'[i] \in ChunkType
        /\ chunks'[i].section = chunks[i].section /\ chunks'[i].piece = chunks[i].piece
  BY <1>3, <1>5, <1>6 DEF ChunkType
<1>8. DOMAIN chunks' = DOMAIN chunks
  BY <1>5
<1>9. chunks' \in Seq(ChunkType)
  <2>1. chunks' \in [1..Len(chunks) -> ChunkType]
    BY <1>3, <1>5, <1>7
  <2> QED
    BY <1>3, <2>1
<1>10. \A m \in DOMAIN chunks' :
         /\ chunks'[m].section \in DOMAIN sections /\ chunks'[m].section < section
         /\ GoodPiece(Text(chunks'[m].section), chunks'[m].piece)
  BY <1>7, <1>8 DEF ChunksInv
<1>11. \A k \in DOMAIN sections : k < section => \A i \in Due(Text(k)) :
         \E m \in DOMAIN chunks' : chunks'[m].section = k /\ Within(chunks'[m].piece, i)
  BY <1>7, <1>8 DEF ChunksInv
<1> QED
  BY <1>1, <1>2, <1>9, <1>10, <1>11 DEF ChunksInv

-----------------------------------------------------------------------------
(* Every word is in a chunk. *)

LEMMA CoverInit == ChunkInit => CoverInv
<1> SUFFICES ASSUME ChunkInit PROVE CoverInv
  OBVIOUS
<1>1. OutlineInv
  <2>1. note \in Notes /\ at \in 1..Len(note.lines) + 1
    BY LinesAreTyped DEF ChunkInit
  <2>2. at \in Nat /\ previous \in 0..at - 1
    <3>1. at \in Nat /\ at >= 1
      BY <2>1
    <3> QED
      BY <3>1 DEF ChunkInit
  <2>3. sections \in Seq(SectionType) /\ stack \in Seq(SectionType)
    BY EmptySeq DEF ChunkInit
  <2>4. counts \in [DOMAIN counts -> Nat]
    BY DEF ChunkInit
  <2> QED
    BY <2>1, <2>2, <2>3, <2>4 DEF OutlineInv
<1>2. chunks \in Seq(ChunkType) /\ DOMAIN chunks = {} /\ DOMAIN sections = {}
  BY EmptySeq DEF ChunkInit
<1>3. ChunksInv
  BY <1>2 DEF ChunksInv
<1> QED
  BY <1>1, <1>3 DEF ChunkInit, CoverInv

\* While the lines are read there is no chunk.
LEMMA NoChunks ==
  chunks = <<>> /\ section \in 0..1 /\ OutlineInv => ChunksInv
<1> SUFFICES ASSUME chunks = <<>>, section \in 0..1, OutlineInv PROVE ChunksInv
  OBVIOUS
<1>1. chunks \in Seq(ChunkType) /\ DOMAIN chunks = {}
  BY EmptySeq
<1>2. \A k \in DOMAIN sections : ~(k < section)
  <2>1. DOMAIN sections = 1..Len(sections) /\ Len(sections) \in Nat
    BY LenProperties DEF OutlineInv
  <2> QED
    BY <2>1
<1> QED
  BY <1>1, <1>2 DEF ChunksInv

\* The inductive step.
LEMMA CoverStep ==
  ASSUME CoverInv, [ChunkNext]_chunkVars
  PROVE  CoverInv'
<1>1. OutlineInv /\ OutlineInv'
  BY OutlineStep DEF CoverInv
<1>2. DOMAIN sections = 1..Len(sections) /\ Len(sections) \in Nat
  BY <1>1, LenProperties DEF OutlineInv
<1>3. (/\ OutlineInv /\ section \in DOMAIN sections
       /\ token = 0 /\ window = <<>> /\ pieces = <<>>
       => CutInv(Text(section)))'
  BY CutBegins, PTL
<1>4. (chunks = <<>> /\ section \in 0..1 /\ OutlineInv => ChunksInv)'
  BY NoChunks, PTL
<1>5. (OutlineInv => DOMAIN sections = 1..Len(sections) /\ Len(sections) \in Nat)'
  BY LenProperties DEF OutlineInv
<1>6. ASSUME UNCHANGED <<note, sections, section, chunks>> PROVE ChunksInv'
  <2>1. \A k : Text(k)' = Text(k)
    BY <1>6 DEF Text, Bytes, Offset
  <2> QED
    BY <1>6, <2>1 DEF CoverInv, ChunksInv
<1>7. CASE ReadLine
  <2>1. status = "read" /\ UNCHANGED <<section, token, window, pieces, chunks, status>>
    BY <1>7 DEF ReadLine, windowVars
  <2>2. section' = 0 /\ chunks' = <<>>
    BY <2>1 DEF CoverInv
  <2>3. ChunksInv'
    BY <1>1, <1>4, <2>2
  <2> QED
    BY <1>1, <2>1, <2>2, <2>3 DEF CoverInv
<1>8. CASE EndOutline
  <2>1. /\ status = "read" /\ section' = 1 /\ status' = "cut"
        /\ UNCHANGED <<token, window, pieces, chunks>>
    BY <1>8 DEF EndOutline, windowVars
  <2>2. token' = 0 /\ window' = <<>> /\ pieces' = <<>> /\ chunks' = <<>>
    BY <2>1 DEF CoverInv
  <2>3. ChunksInv'
    BY <1>1, <1>4, <2>1, <2>2
  <2>4. section' \in DOMAIN sections' => CutInv(Text(section))'
    BY <1>1, <1>3, <2>2
  <2>5. section' \in 1..Len(sections') + 1
    BY <1>1, <1>5, <2>1
  <2> QED
    BY <1>1, <2>1, <2>3, <2>4, <2>5 DEF CoverInv
<1>9. ASSUME UNCHANGED <<sections, section, status>>, ChunksInv',
             status = "cut" /\ section \in DOMAIN sections /\ CutInv(Text(section))'
      PROVE  CoverInv'
  BY <1>1, <1>9 DEF CoverInv
<1>10. CASE OpenWindow \/ CutBytes \/ CloseWindow
  <2>1. /\ status = "cut" /\ section <= Len(sections)
        /\ UNCHANGED <<note, sections, section, chunks, status>>
    BY <1>10 DEF OpenWindow, CutBytes, CloseWindow, Cutting, outlineVars
  <2>2. section \in DOMAIN sections
    BY <1>2, <2>1 DEF CoverInv
  <2>3. CutInv(Text(section))
    BY <2>1, <2>2 DEF CoverInv
  <2>4. CutInv(Text(section))'
    BY <1>1, <1>10, <2>2, <2>3, OpenKeepsCut, CutKeepsCut, CloseKeepsCut
  <2>5. ChunksInv'
    BY <1>6, <2>1
  <2> QED
    BY <1>9, <2>1, <2>2, <2>4, <2>5
<1>11. CASE AddChunks
  <2>1. /\ status = "cut" /\ section <= Len(sections) /\ window = <<>>
        /\ section' = section + 1 /\ token' = 0 /\ pieces' = <<>>
        /\ UNCHANGED <<sections, window, status>>
    BY <1>11 DEF AddChunks, Cutting, outlineVars
  <2>2. section \in DOMAIN sections /\ section' \in 1..Len(sections') + 1
    BY <1>2, <2>1 DEF CoverInv
  <2>3. ChunksInv'
    BY <1>1, <1>11, <2>1, <2>2, AddKeepsChunks DEF CoverInv
  <2>4. section' \in DOMAIN sections' => CutInv(Text(section))'
    BY <1>1, <1>3, <2>1
  <2> QED
    BY <1>1, <2>1, <2>2, <2>3, <2>4 DEF CoverInv
<1>12. CASE LinkChunks
  <2>1. /\ status = "cut" /\ section > Len(sections) /\ status' \in {"chunked", "refused"}
        /\ UNCHANGED <<sections, section>>
    BY <1>12 DEF LinkChunks, outlineVars
  <2>2. section = Len(sections) + 1
    BY <1>2, <2>1 DEF CoverInv
  <2>3. ChunksInv'
    BY <1>1, <1>12, LinkKeepsChunks DEF CoverInv
  <2> QED
    BY <1>1, <1>2, <2>1, <2>2, <2>3 DEF CoverInv
<1>13. CASE UNCHANGED chunkVars
  <2>1. UNCHANGED <<note, sections, section, token, window, pieces, chunks, status>>
    BY <1>13 DEF chunkVars, outlineVars, windowVars
  <2>2. ChunksInv'
    BY <1>6, <2>1
  <2>3. ASSUME section \in DOMAIN sections, CutInv(Text(section)) PROVE CutInv(Text(section))'
    <3>1. Text(section)' = Text(section)
      BY <2>1 DEF Text, Bytes, Offset
    <3>2. \A i : Held(i)' <=> Held(i)
      BY <2>1 DEF Held
    <3> QED
      BY <2>1, <2>3, <3>1, <3>2 DEF CutInv
  <2> QED
    BY <1>1, <2>1, <2>2, <2>3 DEF CoverInv
<1> QED
  BY <1>7, <1>8, <1>10, <1>11, <1>12, <1>13 DEF ChunkNext

\* Every chunk is within the byte limit, and begins and ends between characters.
ChunksAreBounded ==
  \A c \in Range(chunks) :
    LET text == Text(c.section) IN
    /\ c.piece[2] - c.piece[1] \in 1..MaxBytes
    /\ text[c.piece[1] + 1] # "c"
    /\ c.piece[2] < Len(text) => text[c.piece[2] + 1] # "c"

LEMMA CoverBounds == CoverInv => ChunksAreBounded
<1> SUFFICES ASSUME CoverInv PROVE ChunksAreBounded
  OBVIOUS
<1>1. OutlineInv /\ ChunksInv
  BY DEF CoverInv
<1>2. ASSUME NEW c \in Range(chunks)
      PROVE  LET text == Text(c.section) IN
             /\ c.piece[2] - c.piece[1] \in 1..MaxBytes
             /\ text[c.piece[1] + 1] # "c"
             /\ c.piece[2] < Len(text) => text[c.piece[2] + 1] # "c"
  <2>1. PICK m \in DOMAIN chunks : c = chunks[m]
    BY DEF Range
  <2>2. chunks[m] \in ChunkType
    BY <1>1, ElementOfSeq, LenProperties DEF ChunksInv
  <2>3. /\ c.section \in DOMAIN sections /\ GoodPiece(Text(c.section), c.piece)
        /\ c.piece \in Nat \X Nat
    BY <1>1, <2>1, <2>2 DEF ChunksInv, ChunkType
  <2> DEFINE text == Text(c.section)
             p == c.piece
  <2>4. Len(text) \in Nat /\ MaxBytes \in Nat
    BY <1>1, <2>3, SectionsAreUtf8, StartsAreCounted, OptionsAreValid
  <2> HIDE DEF text, p
  <2>5. GoodPiece(text, p) /\ p[1] \in Nat /\ p[2] \in Nat
    BY <2>3 DEF text, p
  <2>6. /\ p[2] - p[1] \in 1..MaxBytes
        /\ text[p[1] + 1] # "c"
        /\ p[2] < Len(text) => text[p[2] + 1] # "c"
    BY <2>4, <2>5 DEF GoodPiece, Border
  <2> QED
    BY <2>6 DEF text, p
<1> QED
  BY <1>2 DEF ChunksAreBounded

\* When the sections are done, so is the property.
LEMMA CoverShows == Lossless /\ CoverInv => EveryWordIsChunked
<1> SUFFICES ASSUME Lossless, CoverInv, status = "chunked" PROVE EveryWordIsChunked
  BY DEF EveryWordIsChunked
<1>1. OutlineInv /\ ChunksInv /\ section = Len(sections) + 1
  BY DEF CoverInv
<1>2. DOMAIN sections = 1..Len(sections) /\ Len(sections) \in Nat
  BY <1>1, LenProperties DEF OutlineInv
<1>3. ASSUME NEW k \in DOMAIN sections, NEW i \in 0..Len(Text(k)) - 1, ~Space(Text(k), i)
      PROVE  \E c \in Range(chunks) : c.section = k /\ c.piece[1] <= i /\ i < c.piece[2]
  <2>1. k < section /\ i \in Due(Text(k))
    BY <1>1, <1>2, <1>3 DEF Due, WordByte
  <2>2. PICK m \in DOMAIN chunks : chunks[m].section = k /\ Within(chunks[m].piece, i)
    BY <1>1, <2>1 DEF ChunksInv
  <2>3. chunks[m] \in Range(chunks)
    BY DEF Range
  <2> QED
    BY <2>2, <2>3 DEF Within
<1>4. ChunksAreBounded
  BY CoverBounds
<1> QED
  BY <1>3, <1>4 DEF EveryWordIsChunked, ChunksAreBounded

\* However a note's sections are cut, when it is chunked every byte of every
\* word is in a chunk of its section, and each chunk is within the byte limit
\* and between characters: for overlaps of at most half a window and one word.
\* A greater one, which ChunkingOptions::validate allows, loses words.
THEOREM EveryWordIsChunkedHolds ==
  ASSUME Overlap <= MaxTokens \div 2 + 1
  PROVE  ChunkSpec => []EveryWordIsChunked
<1>1. CoverInv /\ [ChunkNext]_chunkVars => CoverInv'
  BY CoverStep
<1> QED
  <2>1. Lossless
    BY DEF Lossless
  <2>2. CoverInv => EveryWordIsChunked
    BY <2>1, CoverShows
  <2> QED
    BY <1>1, <2>2, CoverInit, PTL DEF ChunkSpec

\* The same for any overlap, of the chunks themselves: whatever words a long one
\* loses, no chunk is over the byte limit or cut inside a character.
THEOREM ChunksAreBoundedHolds == ChunkSpec => []ChunksAreBounded
<1>1. CoverInv /\ [ChunkNext]_chunkVars => CoverInv'
  BY CoverStep
<1> QED
  BY <1>1, CoverInit, CoverBounds, PTL DEF ChunkSpec

-----------------------------------------------------------------------------
(* The tree of the headings. *)

Shallower(secs, k, d) == {m \in 1..k - 1 : secs[m].depth < d /\ secs[m].depth > 0}

\* The position of the nearest section before that is less deep.
Nearest(secs, k, d) ==
  IF Shallower(secs, k, d) = {} THEN <<>> ELSE secs[Max(Shallower(secs, k, d))].position

Tree(secs) ==
  \A k \in DOMAIN secs : /\ secs[k].parent = Nearest(secs, k, secs[k].depth)
                         /\ secs[k].depth = 0 => k = 1

\* No two sections have one position, and none that is counted has a later one.
Named(secs, cnt) ==
  /\ \A k \in DOMAIN secs : \E o \in Nat :
       /\ secs[k].position = Append(secs[k].parent, <<secs[k].depth, o>>)
       /\ secs[k].depth > 0 =>
            <<secs[k].parent, secs[k].depth>> \in DOMAIN cnt
            /\ o <= cnt[<<secs[k].parent, secs[k].depth>>]
  /\ \A k, l \in DOMAIN secs : secs[k].position = secs[l].position => k = l

\* What comes behind an open section is deeper.
IsOpen(secs, m) ==
  secs[m].depth > 0 /\ \A l \in m + 1..Len(secs) : secs[l].depth > secs[m].depth

Opened(secs, stk) ==
  /\ \A i \in DOMAIN stk : \E m \in DOMAIN secs : stk[i] = secs[m] /\ IsOpen(secs, m)
  /\ \A m \in DOMAIN secs : IsOpen(secs, m) => \E i \in DOMAIN stk : stk[i] = secs[m]
  /\ \A i, j \in DOMAIN stk : i < j => stk[i].depth < stk[j].depth

\* Sections follow each other, and the line of a heading is not blank.
Lined(secs) ==
  /\ \A k, l \in DOMAIN secs : k < l => secs[k].first < secs[l].first
  /\ \A k \in DOMAIN secs : secs[k].depth > 0 =>
       secs[k].first <= Len(note.lines) /\ ~IsBlank(Bytes(secs[k].first, secs[k].first + 1))

\* The fields of a section.
LEMMA SectionFields ==
  ASSUME NEW secs \in Seq(SectionType)
  PROVE  /\ Len(secs) \in Nat /\ DOMAIN secs = 1..Len(secs)
         /\ \A k \in 1..Len(secs) :
              /\ secs[k].first \in Nat /\ secs[k].depth \in Nat
              /\ secs[k].position \in Position /\ secs[k].parent \in Position
<1>1. \A k \in 1..Len(secs) : secs[k] \in SectionType
  BY ElementOfSeq
<1>2. \A s \in SectionType : s.depth \in Nat /\ s.position \in Position /\ s.parent \in Position
  BY DEF SectionType
<1>3. \A s \in SectionType : s.first \in Nat
  <2>1. \A s \in SectionType : s.first \in 1..Len(note.lines) + 1
    BY DEF SectionType
  <2> QED
    BY <2>1
<1> QED
  BY <1>1, <1>2, <1>3, LenProperties

\* Lines do not go back.
LEMMA OffsetsGrow ==
  ASSUME note \in Notes, NEW i \in 1..Len(note.lines) + 1, NEW j \in 1..Len(note.lines) + 1, i <= j
  PROVE  Offset(i) <= Offset(j)
<1>1. /\ \A k \in DOMAIN note.lines : \A m \in 1..k - 1 : note.lines[m].start < note.lines[k].start
      /\ DOMAIN note.lines = 1..Len(note.lines)
  BY NotesAreValid, LinesAreTyped DEF ValidNote
<1>2. /\ Len(note.lines) \in Nat /\ Len(note.bytes) \in Nat
      /\ Offset(i) \in 0..Len(note.bytes) /\ Offset(j) \in 0..Len(note.bytes)
  BY OffsetsAreBorders
<1>3. CASE i = j
  BY <1>2, <1>3
<1>4. CASE j > Len(note.lines)
  BY <1>2, <1>4 DEF Offset
<1>5. CASE i < j /\ j <= Len(note.lines)
  <2>1. j \in DOMAIN note.lines /\ i \in 1..j - 1
    BY <1>1, <1>2, <1>5
  <2>2. note.lines[i].start < note.lines[j].start
    BY <1>1, <2>1
  <2>3. Offset(i) = note.lines[i].start /\ Offset(j) = note.lines[j].start
    BY <1>2, <1>5 DEF Offset
  <2> QED
    BY <1>2, <2>2, <2>3
<1> QED
  BY <1>2, <1>3, <1>4, <1>5

\* What is between a line and one that is no later is blank.
LEMMA NothingBetween ==
  ASSUME note \in Notes, NEW i \in 1..Len(note.lines) + 1, NEW j \in 1..Len(note.lines) + 1,
         ~IsBlank(Bytes(i, j))
  PROVE  i < j
<1> SUFFICES ASSUME j <= i PROVE FALSE
  BY LinesAreTyped
<1>1. Offset(j) <= Offset(i) /\ Offset(i) \in Nat /\ Offset(j) \in Nat
  BY OffsetsGrow, OffsetsAreBorders
<1>2. Bytes(i, j) = <<>>
  BY <1>1, SubSeqEmpty DEF Bytes
<1> QED
  BY <1>2 DEF IsBlank

\* The sections before the k-th are the same in both sequences.
SameBefore(s, t, k) == \A m \in 1..k - 1 : s[m] = t[m]

\* Only what is before it has a say in where a section belongs.
LEMMA NearestSame ==
  ASSUME NEW s, NEW t, NEW k \in Nat, NEW d, SameBefore(s, t, k)
  PROVE  Nearest(s, k, d) = Nearest(t, k, d)
<1>1. Shallower(s, k, d) = Shallower(t, k, d)
  BY DEF Shallower, SameBefore
<1> DEFINE T == Shallower(t, k, d)
<1>2. T # {} => Max(T) \in 1..k - 1
  <2>1. T \in SUBSET Nat /\ (\A m \in T : m <= k) /\ T \in SUBSET (1..k - 1)
    BY DEF Shallower
  <2> HIDE DEF T
  <2> QED
    BY <2>1, MaxOfNaturals
<1> HIDE DEF T
<1>3. T # {} => s[Max(T)] = t[Max(T)]
  BY <1>2 DEF SameBefore
<1>4. Nearest(s, k, d) = IF T = {} THEN <<>> ELSE s[Max(T)].position
  BY <1>1 DEF Nearest, T
<1>5. Nearest(t, k, d) = IF T = {} THEN <<>> ELSE t[Max(T)].position
  BY DEF Nearest, T
<1> QED
  BY <1>3, <1>4, <1>5

\* The section before the first heading belongs nowhere.
LEMMA RootKeeps ==
  ASSUME OutlineInv, NEW next \in 1..Len(note.lines) + 1,
         Tree(sections), Named(sections, counts), Opened(sections, stack), Lined(sections),
         \A k \in DOMAIN sections : sections[k].first < next
  PROVE  /\ Root(next) \in Seq(SectionType)
         /\ Tree(Root(next)) /\ Named(Root(next), counts)
         /\ Opened(Root(next), stack) /\ Lined(Root(next))
         /\ \A k \in DOMAIN Root(next) : Root(next)[k].first < next
<1>1. CASE Root(next) = sections
  BY <1>1, RootIsTyped
<1>2. CASE Root(next) # sections
  <2> DEFINE r == [first |-> BodyStart, depth |-> 0, position |-> <<<<0, 1>>>>, parent |-> <<>>]
             t == Root(next)
  <2>1. t = <<r>> /\ sections = <<>> /\ ~IsBlank(Bytes(BodyStart, next))
    BY <1>2 DEF Root
  <2>2. t \in Seq(SectionType)
    BY RootIsTyped
  <2>3. BodyStart < next
    BY <2>1, NothingBetween, LinesAreTyped DEF OutlineInv
  <2>4. /\ r.first = BodyStart /\ r.depth = 0 /\ r.position = <<<<0, 1>>>> /\ r.parent = <<>>
        /\ <<<<0, 1>>>> = Append(<<>>, <<0, 1>>)
    OBVIOUS
  <2> HIDE DEF r, t
  <2>5. DOMAIN t = {1} /\ t[1] = r /\ Len(t) = 1
    BY <2>1
  <2>6. Tree(t)
    <3>1. Shallower(t, 1, 0) = {}
      BY DEF Shallower
    <3>2. Nearest(t, 1, 0) = <<>>
      BY <3>1 DEF Nearest
    <3> QED
      BY <2>4, <2>5, <3>2 DEF Tree
  <2>7. Named(t, counts)
    <3>1. \A k \in DOMAIN t : k = 1 /\ t[k] = r
      BY <2>5
    <3>2. r.position = Append(r.parent, <<r.depth, 1>>)
      BY <2>4
    <3>3. ~(r.depth > 0)
      BY <2>4
    <3> QED
      BY <3>1, <3>2, <3>3 DEF Named
  <2>8. Opened(t, stack)
    <3>1. DOMAIN sections = {}
      BY <2>1
    <3>2. DOMAIN stack = {}
      BY <3>1 DEF Opened
    <3>3. \A m \in DOMAIN t : ~IsOpen(t, m)
      BY <2>4, <2>5 DEF IsOpen
    <3> QED
      BY <3>2, <3>3 DEF Opened
  <2>9. Lined(t) /\ \A k \in DOMAIN t : t[k].first < next
    BY <2>3, <2>4, <2>5 DEF Lined
  <2> QED
    BY <2>2, <2>6, <2>7, <2>8, <2>9 DEF t
<1> QED
  BY <1>1, <1>2

\* The sections that stay open are those that are less deep.
LEMMA StillOpenIsLess ==
  ASSUME OutlineInv, NEW secs \in Seq(SectionType), Opened(secs, stack), NEW d \in Nat
  PROVE  \E n \in 0..Len(stack) :
           /\ StillOpen(d) = SubSeq(stack, 1, n)
           /\ StillOpen(d) \in Seq(SectionType) /\ Len(StillOpen(d)) = n
           /\ \A i \in 1..n : StillOpen(d)[i] = stack[i]
           /\ \A i \in DOMAIN stack : i <= n <=> stack[i].depth < d
<1> DEFINE less == {0} \cup {i \in DOMAIN stack : stack[i].depth < d}
           n == Max(less)
<1>1. /\ stack \in Seq(SectionType) /\ Len(stack) \in Nat /\ DOMAIN stack = 1..Len(stack)
      /\ \A i \in 1..Len(stack) : stack[i].depth \in Nat /\ stack[i] \in SectionType
  BY SectionFields, ElementOfSeq DEF OutlineInv
<1>2. less \in SUBSET Nat /\ less # {} /\ \A i \in less : i <= Len(stack)
  BY <1>1
<1>3. StillOpen(d) = SubSeq(stack, 1, n)
  BY DEF StillOpen
<1>4. n \in less /\ \A i \in less : i <= n
  <2> HIDE DEF less
  <2> QED
    BY <1>1, <1>2, MaxOfNaturals
<1>5. n \in 0..Len(stack)
  BY <1>1, <1>4
<1>6. ASSUME NEW i \in DOMAIN stack PROVE i <= n <=> stack[i].depth < d
  <2>1. ASSUME stack[i].depth < d PROVE i <= n
    <3>1. i \in less
      BY <2>1
    <3> HIDE DEF less, n
    <3> QED
      BY <1>4, <3>1
  <2>2. ASSUME i <= n PROVE stack[i].depth < d
    <3>1. n # 0 /\ n \in DOMAIN stack /\ stack[n].depth < d
      BY <1>1, <1>4, <2>2
    <3> HIDE DEF less, n
    <3>2. i = n \/ i < n
      BY <1>1, <1>5, <2>2
    <3>3. i < n => stack[i].depth < stack[n].depth
      BY <3>1 DEF Opened
    <3>4. stack[i].depth \in Nat /\ stack[n].depth \in Nat
      BY <1>1, <3>1
    <3> QED
      BY <3>1, <3>2, <3>3, <3>4
  <2> QED
    BY <2>1, <2>2
<1> HIDE DEF less, n
<1>7. /\ SubSeq(stack, 1, n) \in Seq(SectionType) /\ Len(SubSeq(stack, 1, n)) = n
      /\ \A i \in 1..n : SubSeq(stack, 1, n)[i] = stack[i]
  <2>1. \A i \in 1..n : stack[i] \in SectionType
    BY <1>1, <1>5
  <2>2. /\ SubSeq(stack, 1, n) \in Seq(SectionType)
        /\ Len(SubSeq(stack, 1, n)) = IF 1 <= n THEN n - 1 + 1 ELSE 0
        /\ \A i \in 1..n - 1 + 1 : SubSeq(stack, 1, n)[i] = stack[1 + i - 1]
    BY <1>5, <2>1, SubSeqProperties
  <2> QED
    BY <1>5, <2>2
<1> QED
  BY <1>3, <1>5, <1>6, <1>7

\* The nearest section that is less deep is open.
LEMMA NearestIsOpen ==
  ASSUME NEW secs \in Seq(SectionType), Tree(secs), NEW d \in Nat,
         Shallower(secs, Len(secs) + 1, d) # {}
  PROVE  LET m == Max(Shallower(secs, Len(secs) + 1, d)) IN
           /\ m \in 1..Len(secs) /\ secs[m].depth < d
           /\ IsOpen(secs, m)
           /\ \A l \in Shallower(secs, Len(secs) + 1, d) : l <= m
<1> DEFINE T == Shallower(secs, Len(secs) + 1, d)
           m == Max(T)
<1>1. Len(secs) \in Nat /\ DOMAIN secs = 1..Len(secs) /\ \A k \in 1..Len(secs) : secs[k].depth \in Nat
  BY SectionFields
<1>2. \A l : l \in T <=> l \in 1..Len(secs) /\ secs[l].depth < d /\ secs[l].depth > 0
  BY <1>1 DEF Shallower
<1>3. T \in SUBSET Nat /\ T # {} /\ \A l \in T : l <= Len(secs)
  BY <1>1, <1>2
<1> HIDE DEF T
<1>4. m \in T /\ \A l \in T : l <= m
  BY <1>1, <1>3, MaxOfNaturals
<1> HIDE DEF m
<1>5. m \in 1..Len(secs) /\ secs[m].depth < d /\ secs[m].depth > 0
  BY <1>2, <1>4
<1>6. ASSUME NEW l \in m + 1..Len(secs) PROVE secs[l].depth > secs[m].depth
  <2>1. l \in 1..Len(secs) /\ l # 1 /\ ~(l <= m)
    BY <1>1, <1>5
  <2>2. secs[l].depth # 0
    BY <1>1, <2>1 DEF Tree
  <2>3. ~(secs[l].depth < d)
    BY <1>1, <1>2, <1>4, <2>1, <2>2
  <2> QED
    BY <1>1, <1>5, <2>1, <2>3
<1>7. IsOpen(secs, m)
  BY <1>5, <1>6 DEF IsOpen
<1> QED
  BY <1>4, <1>5, <1>7 DEF m, T

\* The last section that stays open is the nearest that is less deep.
LEMMA ParentIsNearest ==
  ASSUME OutlineInv, NEW secs \in Seq(SectionType), Tree(secs), Opened(secs, stack),
         NEW d \in Nat
  PROVE  (IF StillOpen(d) = <<>> THEN <<>> ELSE Last(StillOpen(d)).position)
           = Nearest(secs, Len(secs) + 1, d)
<1> DEFINE T == Shallower(secs, Len(secs) + 1, d)
           m == Max(T)
<1>1. /\ Len(secs) \in Nat /\ DOMAIN secs = 1..Len(secs)
      /\ \A k \in 1..Len(secs) : secs[k].depth \in Nat
  BY SectionFields
<1>2. PICK n \in 0..Len(stack) :
        /\ StillOpen(d) \in Seq(SectionType) /\ Len(StillOpen(d)) = n
        /\ \A i \in 1..n : StillOpen(d)[i] = stack[i]
        /\ \A i \in DOMAIN stack : i <= n <=> stack[i].depth < d
  BY StillOpenIsLess
<1>3. /\ Len(stack) \in Nat /\ DOMAIN stack = 1..Len(stack)
      /\ \A i \in 1..Len(stack) : stack[i].depth \in Nat
  BY SectionFields DEF OutlineInv
<1>4. \A l : l \in T <=> l \in 1..Len(secs) /\ secs[l].depth < d /\ secs[l].depth > 0
  BY <1>1 DEF Shallower
<1>5. Nearest(secs, Len(secs) + 1, d) = IF T = {} THEN <<>> ELSE secs[m].position
  BY DEF Nearest
<1>6. T # {} => /\ m \in DOMAIN secs /\ secs[m].depth < d /\ IsOpen(secs, m)
                /\ \A l \in T : l <= m
  BY <1>1, NearestIsOpen
<1> HIDE DEF m, T
<1>7. ASSUME T # {} PROVE \E i \in DOMAIN stack : stack[i] = secs[m] /\ i <= n
  <2>1. PICK i \in DOMAIN stack : stack[i] = secs[m]
    BY <1>6, <1>7 DEF Opened
  <2>2. stack[i].depth < d
    BY <1>6, <1>7, <2>1
  <2> QED
    BY <1>2, <2>1, <2>2
<1>8. CASE n = 0
  <2>1. StillOpen(d) = <<>>
    BY <1>2, <1>8, EmptySeq
  <2>2. T = {}
    BY <1>3, <1>7, <1>8
  <2> QED
    BY <1>5, <2>1, <2>2
<1>9. CASE n # 0
  <2>1. n \in DOMAIN stack /\ n \in 1..n /\ n \in Nat
    BY <1>3, <1>9
  <2>2. StillOpen(d) # <<>> /\ Last(StillOpen(d)) = stack[n] /\ stack[n].depth < d
    <3>1. StillOpen(d) # <<>>
      BY <1>2, <1>9, EmptySeq
    <3>2. Last(StillOpen(d)) = stack[n]
      BY <1>2, <2>1 DEF Last
    <3>3. stack[n].depth < d
      BY <1>2, <2>1
    <3> QED
      BY <3>1, <3>2, <3>3
  <2>3. PICK o \in DOMAIN secs : stack[n] = secs[o] /\ IsOpen(secs, o)
    BY <2>1 DEF Opened
  <2>4. o \in T
    BY <1>1, <1>4, <2>2, <2>3 DEF IsOpen
  <2>5. m \in DOMAIN secs /\ o <= m
    BY <1>6, <2>4
  <2>6. PICK i \in DOMAIN stack : stack[i] = secs[m] /\ i <= n
    BY <1>7, <2>4
  <2>7. o = m
    <3> SUFFICES ASSUME o < m PROVE FALSE
      BY <1>1, <2>3, <2>5
    <3>1. m \in o + 1..Len(secs)
      BY <1>1, <2>3, <2>5
    <3>2. secs[m].depth > secs[o].depth
      BY <2>3, <3>1 DEF IsOpen
    <3>3. i = n \/ i < n
      BY <1>3, <2>1, <2>6
    <3>4. i < n => stack[i].depth < stack[n].depth
      BY <2>1, <2>6 DEF Opened
    <3>5. secs[m].depth \in Nat /\ secs[o].depth \in Nat
      BY <1>1, <2>3, <2>5
    <3> QED
      BY <2>3, <2>6, <3>2, <3>3, <3>4, <3>5
  <2> QED
    BY <1>5, <2>2, <2>3, <2>4, <2>7
<1> QED
  BY <1>8, <1>9

\* One section more.
LEMMA AddedSection ==
  ASSUME NEW secs \in Seq(SectionType), NEW new \in SectionType
  PROVE  /\ Len(secs) \in Nat /\ DOMAIN secs = 1..Len(secs)
         /\ \A k \in 1..Len(secs) :
              /\ secs[k].first \in Nat /\ secs[k].depth \in Nat
              /\ secs[k].position \in Position /\ secs[k].parent \in Position
         /\ Append(secs, new) \in Seq(SectionType)
         /\ Len(Append(secs, new)) = Len(secs) + 1
         /\ DOMAIN Append(secs, new) = 1..Len(secs) + 1
         /\ \A k \in 1..Len(secs) : Append(secs, new)[k] = secs[k]
         /\ Append(secs, new)[Len(secs) + 1] = new
         /\ new.first \in Nat /\ new.depth \in Nat
         /\ new.position \in Position /\ new.parent \in Position
<1>1. /\ Append(secs, new) \in Seq(SectionType)
      /\ Len(Append(secs, new)) = Len(secs) + 1
      /\ \A k \in 1..Len(secs) : Append(secs, new)[k] = secs[k]
      /\ Append(secs, new)[Len(secs) + 1] = new
  BY AppendProperties
<1>2. DOMAIN Append(secs, new) = 1..Len(secs) + 1
  BY <1>1, LenProperties
<1>3. /\ new.first \in 1..Len(note.lines) + 1 /\ new.depth \in Nat
      /\ new.position \in Position /\ new.parent \in Position
  BY DEF SectionType
<1>4. new.first \in Nat
  BY <1>3
<1> QED
  BY <1>1, <1>2, <1>3, <1>4, SectionFields

\* A heading joins the tree where its line stands.
LEMMA PushKeepsTree ==
  ASSUME OutlineInv, NEW secs \in Seq(SectionType), Tree(secs), Opened(secs, stack),
         NEW new \in SectionType, new.depth > 0,
         new.parent = IF StillOpen(new.depth) = <<>> THEN <<>> ELSE Last(StillOpen(new.depth)).position
  PROVE  Tree(Append(secs, new))
<1> DEFINE t == Append(secs, new)
<1>1. /\ Len(secs) \in Nat /\ DOMAIN secs = 1..Len(secs)
      /\ \A k \in 1..Len(secs) : secs[k].depth \in Nat
      /\ t \in Seq(SectionType) /\ Len(t) = Len(secs) + 1
      /\ \A k \in 1..Len(secs) : t[k] = secs[k]
      /\ t[Len(secs) + 1] = new
      /\ new.depth \in Nat
  BY AddedSection
<1>2. DOMAIN t = 1..Len(secs) + 1
  BY AddedSection
<1>3. new.parent = Nearest(secs, Len(secs) + 1, new.depth)
  BY <1>1, ParentIsNearest
<1> HIDE DEF t
<1>4. ASSUME NEW k \in 1..Len(secs) + 1, NEW d
      PROVE  Nearest(t, k, d) = Nearest(secs, k, d)
  <2>1. SameBefore(t, secs, k)
    BY <1>1 DEF SameBefore
  <2>2. k \in Nat
    BY <1>1
  <2> QED
    BY <2>1, <2>2, NearestSame
<1>5. ASSUME NEW k \in DOMAIN t
      PROVE  t[k].parent = Nearest(t, k, t[k].depth) /\ (t[k].depth = 0 => k = 1)
  <2>1. CASE k \in 1..Len(secs)
    BY <1>1, <1>2, <1>4, <2>1 DEF Tree
  <2>2. CASE k = Len(secs) + 1
    BY <1>1, <1>2, <1>3, <1>4, <2>2
  <2> QED
    BY <1>1, <1>2, <2>1, <2>2
<1> QED
  BY <1>5 DEF Tree, t

LEMMA PushKeepsOpened ==
  ASSUME OutlineInv, NEW secs \in Seq(SectionType), Opened(secs, stack),
         NEW new \in SectionType, new.depth > 0
  PROVE  Opened(Append(secs, new), Append(StillOpen(new.depth), new))
<1> DEFINE t == Append(secs, new)
           d == new.depth
           open == StillOpen(d)
           s == Append(open, new)
<1>1. /\ Len(secs) \in Nat /\ DOMAIN secs = 1..Len(secs)
      /\ \A k \in 1..Len(secs) : secs[k].depth \in Nat
      /\ t \in Seq(SectionType) /\ Len(t) = Len(secs) + 1
      /\ \A k \in 1..Len(secs) : t[k] = secs[k]
      /\ t[Len(secs) + 1] = new
      /\ d \in Nat
  BY AddedSection
<1>2. DOMAIN t = 1..Len(secs) + 1
  BY AddedSection
<1>3. PICK n \in 0..Len(stack) :
        /\ open \in Seq(SectionType) /\ Len(open) = n
        /\ \A i \in 1..n : open[i] = stack[i]
        /\ \A i \in DOMAIN stack : i <= n <=> stack[i].depth < d
  BY <1>1, StillOpenIsLess
<1>4. /\ Len(stack) \in Nat /\ DOMAIN stack = 1..Len(stack)
      /\ \A i \in 1..Len(stack) : stack[i].depth \in Nat
  BY SectionFields DEF OutlineInv
<1> HIDE DEF t, open
<1>5. /\ s \in Seq(SectionType) /\ Len(s) = n + 1
      /\ \A i \in 1..n : s[i] = open[i]
      /\ s[n + 1] = new
  BY <1>3, AppendProperties
<1>6. DOMAIN s = 1..n + 1
  BY <1>5, LenProperties
<1> HIDE DEF s
<1>7. /\ \A i \in 1..n : i \in DOMAIN stack /\ s[i] = stack[i] /\ stack[i].depth < d
      /\ n \in Nat
      /\ \A i \in DOMAIN s : i \in 1..n \/ i = n + 1
      /\ \A m \in DOMAIN t : m \in 1..Len(secs) \/ m = Len(secs) + 1
  <2>1. n \in Nat /\ \A i \in 1..n : i \in DOMAIN stack /\ i <= n
    BY <1>4
  <2>2. \A i \in DOMAIN s : i \in 1..n \/ i = n + 1
    BY <1>6, <2>1
  <2>3. \A m \in DOMAIN t : m \in 1..Len(secs) \/ m = Len(secs) + 1
    BY <1>1, <1>2
  <2> QED
    BY <1>3, <1>5, <2>1, <2>2, <2>3
<1>8. IsOpen(t, Len(secs) + 1)
  <2>1. t[Len(secs) + 1].depth > 0
    BY <1>1
  <2>2. \A l \in (Len(secs) + 1) + 1..Len(t) : FALSE
    BY <1>1
  <2> QED
    BY <2>1, <2>2 DEF IsOpen
<1>9. ASSUME NEW m \in 1..Len(secs)
      PROVE  IsOpen(t, m) <=> IsOpen(secs, m) /\ secs[m].depth < d
  <2>1. t[m] = secs[m] /\ secs[m].depth \in Nat
    BY <1>1
  <2>2. ASSUME IsOpen(t, m) PROVE IsOpen(secs, m) /\ secs[m].depth < d
    <3>1. \A l \in m + 1..Len(secs) + 1 : t[l].depth > secs[m].depth
      BY <1>1, <2>1, <2>2 DEF IsOpen
    <3>2. \A l \in m + 1..Len(secs) : l \in m + 1..Len(secs) + 1 /\ t[l] = secs[l]
      BY <1>1
    <3>3. d > secs[m].depth
      <4>1. Len(secs) + 1 \in m + 1..Len(secs) + 1
        BY <1>1
      <4>2. t[Len(secs) + 1].depth > secs[m].depth
        BY <3>1, <4>1
      <4> QED
        BY <1>1, <4>2
    <3>4. secs[m].depth > 0
      BY <2>1, <2>2 DEF IsOpen
    <3> QED
      BY <1>1, <2>1, <3>1, <3>2, <3>3, <3>4 DEF IsOpen
  <2>3. ASSUME IsOpen(secs, m), secs[m].depth < d PROVE IsOpen(t, m)
    <3>1. ASSUME NEW l \in m + 1..Len(t) PROVE t[l].depth > secs[m].depth
      <4>1. l \in m + 1..Len(secs) \/ l = Len(secs) + 1
        BY <1>1
      <4>2. CASE l \in m + 1..Len(secs)
        BY <1>1, <2>3, <4>2 DEF IsOpen
      <4>3. CASE l = Len(secs) + 1
        BY <1>1, <2>1, <2>3, <4>3
      <4> QED
        BY <4>1, <4>2, <4>3
    <3> QED
      BY <2>1, <2>3, <3>1 DEF IsOpen
  <2> QED
    BY <2>2, <2>3
<1>10. ASSUME NEW i \in DOMAIN s PROVE \E m \in DOMAIN t : s[i] = t[m] /\ IsOpen(t, m)
  <2>1. CASE i \in 1..n
    <3>1. i \in DOMAIN stack /\ s[i] = stack[i] /\ stack[i].depth < d
      BY <1>7, <2>1
    <3>2. PICK m \in DOMAIN secs : stack[i] = secs[m] /\ IsOpen(secs, m)
      BY <3>1 DEF Opened
    <3>3. m \in 1..Len(secs) /\ IsOpen(t, m)
      BY <1>1, <1>9, <3>1, <3>2
    <3>4. m \in DOMAIN t /\ t[m] = secs[m]
      BY <1>1, <1>2, <3>3
    <3> QED
      BY <3>1, <3>2, <3>3, <3>4
  <2>2. CASE i = n + 1
    <3>1. Len(secs) + 1 \in DOMAIN t
      BY <1>1, <1>2
    <3> QED
      BY <1>1, <1>5, <1>8, <2>2, <3>1
  <2> QED
    BY <1>7, <2>1, <2>2
<1>11. ASSUME NEW m \in DOMAIN t, IsOpen(t, m) PROVE \E i \in DOMAIN s : s[i] = t[m]
  <2>1. CASE m \in 1..Len(secs)
    <3>1. IsOpen(secs, m) /\ secs[m].depth < d
      BY <1>9, <1>11, <2>1
    <3>2. PICK i \in DOMAIN stack : stack[i] = secs[m]
      BY <1>1, <2>1, <3>1 DEF Opened
    <3>3. i <= n
      BY <1>3, <3>1, <3>2
    <3>4. i \in 1..n /\ i \in DOMAIN s
      BY <1>4, <1>6, <1>7, <3>2, <3>3
    <3>5. s[i] = t[m]
      BY <1>1, <1>7, <2>1, <3>2, <3>4
    <3> QED
      BY <3>4, <3>5
  <2>2. CASE m = Len(secs) + 1
    <3>1. n + 1 \in DOMAIN s
      BY <1>6, <1>7
    <3> QED
      BY <1>1, <1>5, <2>2, <3>1
  <2> QED
    BY <1>7, <2>1, <2>2
<1>12. ASSUME NEW i \in DOMAIN s, NEW j \in DOMAIN s, i < j PROVE s[i].depth < s[j].depth
  <2>1. i \in 1..n
    BY <1>7, <1>12
  <2>2. CASE j \in 1..n
    <3>1. stack[i].depth < stack[j].depth
      BY <1>7, <1>12, <2>1, <2>2 DEF Opened
    <3> QED
      BY <1>7, <2>1, <2>2, <3>1
  <2>3. CASE j = n + 1
    BY <1>5, <1>7, <2>1, <2>3
  <2> QED
    BY <1>7, <2>2, <2>3
<1> QED
  BY <1>10, <1>11, <1>12 DEF Opened, s, t, open

LEMMA PushKeepsLined ==
  ASSUME NEW secs \in Seq(SectionType), Lined(secs), NEW new \in SectionType,
         \A k \in DOMAIN secs : secs[k].first < new.first,
         new.first <= Len(note.lines), ~IsBlank(Bytes(new.first, new.first + 1))
  PROVE  Lined(Append(secs, new)) /\ \A k \in DOMAIN Append(secs, new) : Append(secs, new)[k].first <= new.first
<1> DEFINE t == Append(secs, new)
<1>1. /\ Len(secs) \in Nat /\ DOMAIN secs = 1..Len(secs)
      /\ \A k \in 1..Len(secs) : secs[k].first \in Nat
      /\ t \in Seq(SectionType) /\ Len(t) = Len(secs) + 1
      /\ \A k \in 1..Len(secs) : t[k] = secs[k]
      /\ t[Len(secs) + 1] = new
  BY AddedSection
<1>2. new.first \in Nat
  BY AddedSection
<1>3. DOMAIN t = 1..Len(secs) + 1
  BY AddedSection
<1> HIDE DEF t
<1>4. \A k \in DOMAIN t : (k \in 1..Len(secs) /\ t[k] = secs[k]) \/ (k = Len(secs) + 1 /\ t[k] = new)
  BY <1>1, <1>3
<1>5. ASSUME NEW k \in DOMAIN t, NEW l \in DOMAIN t, k < l PROVE t[k].first < t[l].first
  <2>1. k \in 1..Len(secs)
    BY <1>1, <1>3, <1>5
  <2>2. CASE l \in 1..Len(secs)
    BY <1>1, <1>5, <2>1, <2>2 DEF Lined
  <2>3. CASE l = Len(secs) + 1
    BY <1>1, <2>1, <2>3
  <2> QED
    BY <1>4, <2>2, <2>3
<1>6. ASSUME NEW k \in DOMAIN t, t[k].depth > 0
      PROVE  t[k].first <= Len(note.lines) /\ ~IsBlank(Bytes(t[k].first, t[k].first + 1))
  <2>1. CASE k \in 1..Len(secs) /\ t[k] = secs[k]
    BY <1>1, <1>6, <2>1 DEF Lined
  <2>2. CASE t[k] = new
    BY <2>2
  <2> QED
    BY <1>4, <2>1, <2>2
<1>7. \A k \in DOMAIN t : t[k].first <= new.first
  <2>1. ASSUME NEW k \in DOMAIN t PROVE t[k].first <= new.first
    <3>1. CASE k \in 1..Len(secs) /\ t[k] = secs[k]
      <4>1. secs[k].first < new.first /\ secs[k].first \in Nat
        BY <1>1, <3>1
      <4> QED
        BY <1>2, <3>1, <4>1
    <3>2. CASE t[k] = new
      BY <1>2, <3>2
    <3> QED
      BY <1>4, <3>1, <3>2
  <2> QED
    BY <2>1
<1> QED
  BY <1>5, <1>6, <1>7 DEF Lined, t

\* The position of the ordinal-th section of a depth under a parent.
Placed(parent, depth, ordinal) == Append(parent, <<depth, ordinal>>)

\* A position says where it belongs.
LEMMA PositionsDiffer ==
  ASSUME NEW s \in Position, NEW t \in Position,
         NEW d \in Nat, NEW o \in Nat, NEW c \in Nat, NEW u \in Nat,
         Placed(s, d, o) = Placed(t, c, u)
  PROVE  s = t /\ d = c /\ o = u
<1> DEFINE S == Nat \X Nat
           e == <<d, o>>
           f == <<c, u>>
<1>1. s \in Seq(S) /\ t \in Seq(S) /\ e \in S /\ f \in S
  BY DEF Position
<1>2. Append(s, e) = Append(t, f)
  BY DEF Placed
<1>3. e = f => d = c /\ o = u
  OBVIOUS
<1> HIDE DEF S, e, f
<1>4. s = t /\ e = f
  BY <1>1, <1>2, AppendInjective
<1> QED
  BY <1>3, <1>4

\* A new position is a new one.
LEMMA PushKeepsNamed ==
  ASSUME NEW secs \in Seq(SectionType), Named(secs, counts), counts \in [DOMAIN counts -> Nat],
         NEW new \in SectionType, new.depth > 0,
         NEW ordinal,
         LET key == <<new.parent, new.depth>> IN
           ordinal = IF key \in DOMAIN counts THEN counts[key] + 1 ELSE 1,
         new.position = Append(new.parent, <<new.depth, ordinal>>)
  PROVE  LET key == <<new.parent, new.depth>> IN
           Named(Append(secs, new),
                 [k \in DOMAIN counts \cup {key} |-> IF k = key THEN ordinal ELSE counts[k]])
<1> DEFINE t == Append(secs, new)
           key == <<new.parent, new.depth>>
           cnt == [k \in DOMAIN counts \cup {key} |-> IF k = key THEN ordinal ELSE counts[k]]
           keyOf(k) == <<secs[k].parent, secs[k].depth>>
<1>1. /\ Len(secs) \in Nat /\ DOMAIN secs = 1..Len(secs)
      /\ \A k \in 1..Len(secs) : secs[k].depth \in Nat /\ secs[k].parent \in Position
      /\ t \in Seq(SectionType) /\ Len(t) = Len(secs) + 1
      /\ \A k \in 1..Len(secs) : t[k] = secs[k]
      /\ t[Len(secs) + 1] = new
      /\ new.depth \in Nat /\ new.parent \in Position
  BY AddedSection
<1>2. DOMAIN t = 1..Len(secs) + 1
  BY AddedSection
<1> HIDE DEF t
<1>3. ordinal \in Nat /\ (key \in DOMAIN counts => counts[key] < ordinal)
  <2> HIDE DEF key
  <2>1. ordinal = IF key \in DOMAIN counts THEN counts[key] + 1 ELSE 1
    BY DEF key
  <2> QED
    BY <2>1
<1> HIDE DEF key
<1>4. /\ DOMAIN cnt = DOMAIN counts \cup {key} /\ cnt[key] = ordinal
      /\ \A k \in DOMAIN counts : k # key => cnt[k] = counts[k]
  OBVIOUS
<1> HIDE DEF cnt
<1>5. ASSUME NEW k \in 1..Len(secs)
      PROVE  \E o \in Nat :
               /\ secs[k].position = Append(secs[k].parent, <<secs[k].depth, o>>)
               /\ secs[k].depth > 0 => keyOf(k) \in DOMAIN cnt /\ o <= cnt[keyOf(k)]
               /\ secs[k].depth > 0 /\ keyOf(k) = key => o < ordinal
  <2>1. PICK o \in Nat :
          /\ secs[k].position = Append(secs[k].parent, <<secs[k].depth, o>>)
          /\ secs[k].depth > 0 => keyOf(k) \in DOMAIN counts /\ o <= counts[keyOf(k)]
    BY <1>1 DEF Named
  <2> HIDE DEF keyOf
  <2>2. secs[k].depth > 0 /\ keyOf(k) = key => o < ordinal
    BY <1>3, <2>1
  <2>3. ASSUME secs[k].depth > 0 PROVE keyOf(k) \in DOMAIN cnt /\ o <= cnt[keyOf(k)]
    <3>1. keyOf(k) \in DOMAIN counts /\ o <= counts[keyOf(k)] /\ counts[keyOf(k)] \in Nat
      BY <2>1, <2>3
    <3>2. CASE keyOf(k) = key
      BY <1>3, <1>4, <3>1, <3>2
    <3>3. CASE keyOf(k) # key
      BY <1>4, <3>1, <3>3
    <3> QED
      BY <3>2, <3>3
  <2> QED
    BY <2>1, <2>2, <2>3
<1>6. ASSUME NEW k \in 1..Len(secs) PROVE secs[k].position # new.position
  <2> SUFFICES ASSUME secs[k].position = new.position PROVE FALSE
    OBVIOUS
  <2>1. PICK o \in Nat :
          /\ secs[k].position = Append(secs[k].parent, <<secs[k].depth, o>>)
          /\ secs[k].depth > 0 /\ keyOf(k) = key => o < ordinal
    BY <1>5
  <2> DEFINE q == secs[k].parent
             d == secs[k].depth
  <2>2. Placed(q, d, o) = Placed(new.parent, new.depth, ordinal)
    BY <2>1 DEF Placed
  <2>3. q \in Position /\ d \in Nat
    BY <1>1
  <2> HIDE DEF q, d
  <2>4. q = new.parent /\ d = new.depth /\ o = ordinal
    BY <1>1, <1>3, <2>2, <2>3, PositionsDiffer
  <2>5. keyOf(k) = key
    BY <2>4 DEF key, q, d
  <2> QED
    BY <1>1, <1>3, <2>1, <2>4, <2>5 DEF d
<1>7. ASSUME NEW k \in DOMAIN t
      PROVE  \E o \in Nat :
               /\ t[k].position = Append(t[k].parent, <<t[k].depth, o>>)
               /\ t[k].depth > 0 =>
                    <<t[k].parent, t[k].depth>> \in DOMAIN cnt /\ o <= cnt[<<t[k].parent, t[k].depth>>]
  <2>1. CASE k \in 1..Len(secs)
    BY <1>1, <1>5, <2>1
  <2>2. CASE k = Len(secs) + 1
    <3>1. t[k] = new /\ key = <<t[k].parent, t[k].depth>>
      BY <1>1, <2>2 DEF key
    <3>2. key \in DOMAIN cnt /\ ordinal <= cnt[key]
      BY <1>3, <1>4
    <3>3. t[k].position = Append(t[k].parent, <<t[k].depth, ordinal>>)
      BY <3>1
    <3>4. <<t[k].parent, t[k].depth>> \in DOMAIN cnt /\ ordinal <= cnt[<<t[k].parent, t[k].depth>>]
      BY <3>1, <3>2
    <3> QED
      BY <1>3, <3>3, <3>4, Zenon
  <2>3. k \in 1..Len(secs) \/ k = Len(secs) + 1
    BY <1>1, <1>2
  <2> QED
    BY <2>1, <2>2, <2>3, Zenon
<1>8. ASSUME NEW k \in DOMAIN t, NEW l \in DOMAIN t, t[k].position = t[l].position PROVE k = l
  <2>1. \A m \in DOMAIN t : (m \in 1..Len(secs) /\ t[m] = secs[m]) \/ (m = Len(secs) + 1 /\ t[m] = new)
    BY <1>1, <1>2
  <2>2. CASE k \in 1..Len(secs) /\ l \in 1..Len(secs)
    BY <1>1, <1>8, <2>2 DEF Named
  <2>3. CASE ~(k \in 1..Len(secs) /\ l \in 1..Len(secs))
    BY <1>6, <1>8, <2>1, <2>3
  <2> QED
    BY <2>2, <2>3
<1> QED
  BY <1>7, <1>8 DEF Named, t, cnt, key

\* The bytes between two lines are those of the note.
LEMMA BytesBetween ==
  ASSUME note \in Notes, NEW i \in 1..Len(note.lines) + 1, NEW j \in 1..Len(note.lines) + 1,
         Offset(i) < Offset(j)
  PROVE  /\ DOMAIN Bytes(i, j) = 1..Offset(j) - Offset(i)
         /\ \A k \in 1..Offset(j) - Offset(i) : Bytes(i, j)[k] = note.bytes[Offset(i) + k]
<1> DEFINE from == Offset(i)
           to == Offset(j)
<1>1. from \in 0..Len(note.bytes) /\ to \in 0..Len(note.bytes) /\ Len(note.bytes) \in Nat /\ from < to
  BY OffsetsAreBorders
<1>2. \A k \in 1..Len(note.bytes) : note.bytes[k] \in Byte
  <2>1. note.bytes \in Seq(Byte)
    BY NotesAreValid DEF ValidNote
  <2> QED
    BY <2>1, ElementOfSeq
<1>3. Bytes(i, j) = SubSeq(note.bytes, from + 1, to)
  BY DEF Bytes
<1> HIDE DEF from, to
<1>4. \A k \in from + 1..to : note.bytes[k] \in Byte
  BY <1>1, <1>2
<1>5. /\ Bytes(i, j) \in Seq(Byte)
      /\ Len(Bytes(i, j)) = IF from + 1 <= to THEN to - (from + 1) + 1 ELSE 0
      /\ \A k \in 1..to - (from + 1) + 1 : Bytes(i, j)[k] = note.bytes[(from + 1) + k - 1]
  BY <1>1, <1>3, <1>4, SubSeqProperties
<1>6. Len(Bytes(i, j)) = to - from /\ DOMAIN Bytes(i, j) = 1..to - from
  BY <1>1, <1>5, LenProperties
<1>7. \A k \in 1..to - from : Bytes(i, j)[k] = note.bytes[from + k]
  BY <1>1, <1>5
<1> QED
  BY <1>6, <1>7 DEF from, to

TreeInv ==
  /\ Tree(sections) /\ Named(sections, counts) /\ Opened(sections, stack) /\ Lined(sections)
  /\ status = "read" => \A k \in DOMAIN sections :
       sections[k].first < at /\ (previous # 0 => sections[k].first < previous)
  /\ previous # 0 => ~IsBlank(Bytes(previous, previous + 1))

\* Headings are deep, and a line that begins with # is not blank.
LEMMA HeadingLines ==
  ASSUME note \in Notes, NEW i \in 1..Len(note.lines)
  PROVE  /\ note.lines[i].kind \in {"atx", "equals", "dashes"} => note.lines[i].depth > 0
         /\ note.lines[i].kind = "atx" => ~IsBlank(Bytes(i, i + 1))
<1>1. /\ i \in DOMAIN note.lines /\ Len(note.lines) \in Nat
      /\ i \in 1..Len(note.lines) + 1 /\ i + 1 \in 1..Len(note.lines) + 1
  BY LinesAreTyped
<1>2. note.lines[i].kind \in {"atx", "equals", "dashes"} => note.lines[i].depth > 0
  BY <1>1, NotesAreValid DEF ValidNote
<1>3. ASSUME note.lines[i].kind = "atx" PROVE ~IsBlank(Bytes(i, i + 1))
  <2>1. PICK b \in note.lines[i].start + 1..Len(note.bytes) :
          note.bytes[b] = "x" /\ \A j \in i + 1..Len(note.lines) : b <= note.lines[j].start
    BY <1>1, <1>3, NotesAreValid DEF ValidNote
  <2> DEFINE from == Offset(i)
             to == Offset(i + 1)
  <2>2. from = note.lines[i].start /\ from \in Nat /\ to \in 0..Len(note.bytes) /\ Len(note.bytes) \in Nat
    BY <1>1, OffsetsAreBorders DEF Offset
  <2>3. b <= to
    <3>1. CASE i + 1 > Len(note.lines)
      BY <2>1, <2>2, <3>1 DEF Offset
    <3>2. CASE ~(i + 1 > Len(note.lines))
      BY <1>1, <2>1, <3>2 DEF Offset
    <3> QED
      BY <3>1, <3>2
  <2> HIDE DEF from, to
  <2>4. b - from \in 1..to - from /\ b = from + (b - from) /\ from < to
    <3>1. b \in Nat /\ from < b
      BY <2>1, <2>2
    <3>2. from \in Nat /\ to \in Nat
      BY <2>2
    <3>3. b - from \in Nat /\ 1 <= b - from
      BY <3>1, <3>2
    <3>4. to - from \in Nat /\ b - from <= to - from /\ from < to
      BY <2>3, <3>1, <3>2
    <3> QED
      BY <3>1, <3>2, <3>3, <3>4
  <2>5. /\ DOMAIN Bytes(i, i + 1) = 1..to - from
        /\ \A k \in 1..to - from : Bytes(i, i + 1)[k] = note.bytes[from + k]
    BY <1>1, <2>4, BytesBetween DEF from, to
  <2>6. b - from \in DOMAIN Bytes(i, i + 1) /\ Bytes(i, i + 1)[b - from] = "x"
    BY <2>1, <2>4, <2>5
  <2> QED
    BY <2>6 DEF IsBlank
<1> QED
  BY <1>2, <1>3

\* A heading joins the tree.
LEMMA HeadingKeepsTree ==
  ASSUME OutlineInv, Tree(sections), Named(sections, counts), Opened(sections, stack), Lined(sections),
         NEW first \in 1..Len(note.lines), NEW depth \in Nat, depth > 0, Heading(first, depth),
         \A k \in DOMAIN sections : sections[k].first < first,
         ~IsBlank(Bytes(first, first + 1))
  PROVE  /\ Tree(sections') /\ Named(sections', counts') /\ Opened(sections', stack')
         /\ Lined(sections')
         /\ \A k \in DOMAIN sections' : sections'[k].first <= first
<1> DEFINE new == HeadingOf(first, depth)
           secs == Root(first)
           key == <<new.parent, new.depth>>
<1>1. /\ sections' = Append(secs, new)
      /\ stack' = Append(StillOpen(depth), new)
      /\ counts' = [k \in DOMAIN counts \cup {<<ParentOf(depth), depth>>} |->
                      IF k = <<ParentOf(depth), depth>> THEN OrdinalOf(depth) ELSE counts[k]]
  BY HeadingPushes
<1>2. new \in SectionType
  BY HeadingIsSection
<1>3. /\ new.first = first /\ new.depth = depth /\ new.parent = ParentOf(depth)
      /\ new.position = Append(new.parent, <<new.depth, OrdinalOf(depth)>>)
      /\ key = <<ParentOf(depth), depth>>
  BY DEF HeadingOf
<1>4. /\ OrdinalOf(depth) = IF key \in DOMAIN counts THEN counts[key] + 1 ELSE 1
  BY <1>3 DEF OrdinalOf
<1>5. ParentOf(depth) = IF StillOpen(depth) = <<>> THEN <<>> ELSE Last(StillOpen(depth)).position
  BY DEF ParentOf
<1>6. first \in 1..Len(note.lines) + 1 /\ first <= Len(note.lines)
  BY LinesAreTyped DEF OutlineInv
<1>7. /\ secs \in Seq(SectionType) /\ Tree(secs) /\ Named(secs, counts)
      /\ Opened(secs, stack) /\ Lined(secs) /\ \A k \in DOMAIN secs : secs[k].first < first
  BY <1>6, RootKeeps
<1> HIDE DEF new, secs, key
<1>8. Tree(sections')
  BY <1>1, <1>2, <1>3, <1>5, <1>7, PushKeepsTree
<1>9. Opened(sections', stack')
  BY <1>1, <1>2, <1>3, <1>7, PushKeepsOpened
<1>10. Lined(sections') /\ \A k \in DOMAIN sections' : sections'[k].first <= first
  BY <1>1, <1>2, <1>3, <1>6, <1>7, PushKeepsLined
<1>11. Named(sections', counts')
  <2>1. counts \in [DOMAIN counts -> Nat]
    BY DEF OutlineInv
  <2>2. Named(Append(secs, new),
              [k \in DOMAIN counts \cup {key} |-> IF k = key THEN OrdinalOf(depth) ELSE counts[k]])
    BY <1>2, <1>3, <1>4, <1>7, <2>1, PushKeepsNamed DEF key
  <2> QED
    BY <1>1, <1>3, <2>2
<1> QED
  BY <1>8, <1>9, <1>10, <1>11

LEMMA TreeInit == ChunkInit => TreeInv
<1> SUFFICES ASSUME ChunkInit PROVE TreeInv
  OBVIOUS
<1>1. DOMAIN sections = {} /\ DOMAIN stack = {} /\ previous = 0
  BY DEF ChunkInit
<1> QED
  BY <1>1 DEF TreeInv, Tree, Named, Opened, Lined

\* The tree grows line by line.
LEMMA TreeStep ==
  ASSUME OutlineInv, TreeInv, [ChunkNext]_chunkVars
  PROVE  TreeInv'
<1>1. CASE ReadLine
  <2>1. /\ status = "read" /\ status' = status /\ note' = note
        /\ at \in 1..Len(note.lines) /\ at' = at + 1 /\ at \in Nat
        /\ previous \in 0..at - 1
    BY <1>1, LinesAreTyped DEF ReadLine, OutlineInv
  <2>2. /\ Tree(sections) /\ Named(sections, counts) /\ Opened(sections, stack) /\ Lined(sections)
        /\ \A k \in DOMAIN sections :
             sections[k].first < at /\ (previous # 0 => sections[k].first < previous)
        /\ previous # 0 => ~IsBlank(Bytes(previous, previous + 1))
        /\ \A k \in DOMAIN sections : sections[k].first \in Nat
    BY <2>1, SectionFields DEF TreeInv, OutlineInv
  <2>3. \A secs : Lined(secs)' <=> Lined(secs)
    BY <2>1 DEF Lined, Bytes, Offset
  <2>4. \A i, j : Bytes(i, j)' = Bytes(i, j)
    BY <2>1 DEF Bytes, Offset
  <2>5. ASSUME /\ Tree(sections') /\ Named(sections', counts') /\ Opened(sections', stack')
               /\ Lined(sections')
               /\ \A k \in DOMAIN sections' : /\ sections'[k].first < at'
                                              /\ previous' # 0 => sections'[k].first < previous',
               previous' # 0 => ~IsBlank(Bytes(previous', previous' + 1))
        PROVE  TreeInv'
    BY <2>3, <2>4, <2>5 DEF TreeInv
  <2>6. CASE UNCHANGED <<sections, stack, counts>> /\ previous' \in {0, previous}
    <3>1. \A k \in DOMAIN sections : sections[k].first < at + 1
      BY <2>1, <2>2
    <3> QED
      BY <2>1, <2>2, <2>5, <2>6, <3>1
  <2>7. CASE /\ UNCHANGED <<sections, stack, counts>>
             /\ previous' = IF IsBlank(Bytes(at, at + 1)) THEN 0 ELSE at
    <3>1. \A k \in DOMAIN sections : sections[k].first < at + 1
      BY <2>1, <2>2
    <3> QED
      BY <2>1, <2>2, <2>5, <2>7, <3>1
  <2>8. ASSUME NEW first \in 1..Len(note.lines), first <= at,
               note.lines[at].depth > 0,
               Heading(first, note.lines[at].depth), previous' = 0,
               \A k \in DOMAIN sections : sections[k].first < first,
               ~IsBlank(Bytes(first, first + 1))
        PROVE  TreeInv'
    <3>1. note.lines[at].depth \in Nat
      BY <2>1, LinesAreTyped DEF OutlineInv
    <3>2. /\ Tree(sections') /\ Named(sections', counts') /\ Opened(sections', stack')
          /\ Lined(sections')
          /\ \A k \in DOMAIN sections' : sections'[k].first <= first
      BY <2>2, <2>8, <3>1, HeadingKeepsTree
    <3>3. \A k \in DOMAIN sections' : sections'[k].first \in Nat
      <4>1. sections' \in Seq(SectionType)
        BY <2>8, <3>1, HeadingIsTyped
      <4> QED
        BY <4>1, SectionFields
    <3>4. \A k \in DOMAIN sections' : sections'[k].first < at'
      BY <2>1, <2>8, <3>2, <3>3
    <3> QED
      BY <2>5, <2>8, <3>2, <3>4
  <2>9. CASE note.lines[at].kind = "atx" /\ Heading(at, note.lines[at].depth) /\ previous' = 0
    <3>1. note.lines[at].depth > 0 /\ ~IsBlank(Bytes(at, at + 1))
      BY <2>1, <2>9, HeadingLines DEF OutlineInv
    <3> QED
      BY <2>1, <2>2, <2>8, <2>9, <3>1
  <2>10. CASE /\ note.lines[at].kind \in {"equals", "dashes"} /\ previous # 0
              /\ Heading(previous, note.lines[at].depth) /\ previous' = 0
    <3>1. note.lines[at].depth > 0
      BY <2>1, <2>10, HeadingLines DEF OutlineInv
    <3>2. previous \in 1..Len(note.lines) /\ previous <= at
      BY <2>1, <2>10, LinesAreTyped DEF OutlineInv
    <3> QED
      BY <2>2, <2>8, <2>10, <3>1, <3>2
  <2> QED
    BY <1>1, <2>6, <2>7, <2>9, <2>10 DEF ReadLine
<1>2. CASE EndOutline
  <2>1. /\ UNCHANGED <<note, at, previous, stack, counts>> /\ status' = "cut" /\ status = "read"
        /\ sections' = Root(Len(note.lines) + 1) /\ at > Len(note.lines)
    BY <1>2 DEF EndOutline
  <2>2. \A k \in DOMAIN sections : sections[k].first < Len(note.lines) + 1
    <3>1. at = Len(note.lines) + 1
      BY <2>1, LinesAreTyped DEF OutlineInv
    <3> QED
      BY <2>1, <3>1 DEF TreeInv
  <2>3. Len(note.lines) + 1 \in 1..Len(note.lines) + 1
    BY LinesAreTyped DEF OutlineInv
  <2>4. Tree(sections') /\ Named(sections', counts) /\ Opened(sections', stack) /\ Lined(sections')
    BY <2>1, <2>2, <2>3, RootKeeps DEF TreeInv
  <2>5. \A secs : Lined(secs)' <=> Lined(secs)
    BY <2>1 DEF Lined, Bytes, Offset
  <2>6. \A i, j : Bytes(i, j)' = Bytes(i, j)
    BY <2>1 DEF Bytes, Offset
  <2> QED
    BY <2>1, <2>4, <2>5, <2>6 DEF TreeInv
<1>3. CASE OpenWindow \/ CutBytes \/ CloseWindow \/ AddChunks \/ LinkChunks \/ UNCHANGED chunkVars
  <2>1. /\ UNCHANGED <<note, at, previous, sections, stack, counts>>
        /\ status' = "read" => status = "read"
    BY <1>3 DEF OpenWindow, CutBytes, CloseWindow, AddChunks, LinkChunks, chunkVars, outlineVars, Cutting
  <2>2. \A secs : Lined(secs)' <=> Lined(secs)
    BY <2>1 DEF Lined, Bytes, Offset
  <2>3. \A i, j : Bytes(i, j)' = Bytes(i, j)
    BY <2>1 DEF Bytes, Offset
  <2> QED
    BY <2>1, <2>2, <2>3 DEF TreeInv
<1> QED
  BY <1>1, <1>2, <1>3 DEF ChunkNext

-----------------------------------------------------------------------------
(* What the validation of the chunks compares. *)

\* The more are below a member, the greater it is.
LEMMA NthGrows ==
  ASSUME NEW S \in SUBSET Nat, IsFiniteSet(S),
         NEW a \in 0..Cardinality(S) - 1, NEW b \in 0..Cardinality(S) - 1, a < b
  PROVE  Nth(S, a) < Nth(S, b)
<1> DEFINE x == Nth(S, a)
           y == Nth(S, b)
<1>1. /\ x \in S /\ Cardinality(Below(S, x)) = a
      /\ y \in S /\ Cardinality(Below(S, y)) = b
  BY NthMember
<1> HIDE DEF x, y
<1>2. x \in Nat /\ y \in Nat /\ x # y /\ a \in Nat /\ b \in Nat
  BY <1>1
<1>3. y < x => Cardinality(Below(S, y)) < Cardinality(Below(S, x))
  BY <1>1, <1>2, BelowGrows
<1>4. x < y
  BY <1>1, <1>2, <1>3
<1> QED
  BY <1>4 DEF x, y

\* What is before the last element that was appended.
LEMMA FrontOfAppend ==
  ASSUME NEW T, NEW s \in Seq(T), NEW e \in T
  PROVE  Front(Append(s, e)) = s /\ Append(s, e) # <<>>
<1> DEFINE t == Append(s, e)
<1>1. /\ t \in Seq(T) /\ Len(t) = Len(s) + 1 /\ Len(s) \in Nat
      /\ \A i \in 1..Len(s) : t[i] = s[i]
  BY AppendProperties, LenProperties
<1> HIDE DEF t
<1>2. t # <<>>
  BY <1>1, EmptySeq
<1>3. Front(t) = SubSeq(t, 1, Len(s))
  BY <1>1 DEF Front
<1>4. \A i \in 1..Len(s) : t[i] \in T
  BY <1>1, ElementOfSeq
<1>5. /\ SubSeq(t, 1, Len(s)) \in Seq(T)
      /\ Len(SubSeq(t, 1, Len(s))) = IF 1 <= Len(s) THEN Len(s) - 1 + 1 ELSE 0
      /\ \A i \in 1..Len(s) - 1 + 1 : SubSeq(t, 1, Len(s))[i] = t[1 + i - 1]
  BY <1>1, <1>4, SubSeqProperties
<1>6. /\ Front(t) \in Seq(T) /\ Len(Front(t)) = Len(s)
      /\ \A i \in 1..Len(s) : Front(t)[i] = s[i]
  BY <1>1, <1>3, <1>5
<1>7. Front(t) = s
  BY <1>6, SeqEqual
<1> QED
  BY <1>2, <1>7 DEF t

\* The chunks are in the order of their sections and pieces.
OrderInv ==
  /\ \A i \in DOMAIN chunks : chunks[i].position = sections[chunks[i].section].position
  /\ \A i, j \in DOMAIN chunks : i < j =>
       \/ chunks[i].section < chunks[j].section
       \/ chunks[i].section = chunks[j].section /\ chunks[i].part < chunks[j].part

\* A chunk's parent is the first where its section's is, and the chunks are
\* refused when they are no valid set.
LinkedInv ==
  status \in {"chunked", "refused"} =>
    /\ \A i \in DOMAIN chunks : chunks[i].parent = FirstAt(sections[chunks[i].section].parent)
    /\ status = "chunked" <=> ValidSet(chunks)

AcceptInv == CoverInv /\ TreeInv /\ OrderInv /\ LinkedInv

LEMMA AcceptInit == ChunkInit => AcceptInv
<1> SUFFICES ASSUME ChunkInit PROVE AcceptInv
  OBVIOUS
<1>1. DOMAIN chunks = {} /\ status = "read"
  BY DEF ChunkInit
<1>2. OrderInv /\ LinkedInv
  BY <1>1 DEF OrderInv, LinkedInv
<1> QED
  BY <1>2, CoverInit, TreeInit DEF AcceptInv

\* The chunks of a section come behind those of the sections before.
LEMMA AddKeepsOrder ==
  ASSUME OutlineInv, ChunksInv, OrderInv, section \in DOMAIN sections, CutInv(Text(section)),
         AddChunks
  PROVE  OrderInv'
<1> DEFINE text == Text(section)
           parts == Parts(text)
           n == Cardinality(parts)
           new(i) == NewChunk(text, i)
<1>1. /\ section' = section + 1 /\ UNCHANGED <<note, sections>> /\ section \in Nat
      /\ parts \in SUBSET Nat /\ IsFiniteSet(parts) /\ n \in Nat
      /\ chunks \in Seq(ChunkType) /\ Len(chunks) \in Nat /\ DOMAIN chunks = 1..Len(chunks)
      /\ chunks' \in Seq(ChunkType) /\ DOMAIN chunks' = 1..Len(chunks) + n
      /\ \A m \in 1..Len(chunks) : chunks'[m] = chunks[m]
      /\ \A i \in 1..n : chunks'[Len(chunks) + i] = new(i)
  BY AddedChunks
<1>2. \A i : /\ new(i).section = section /\ new(i).position = sections[section].position
             /\ new(i).part = Nth(parts, i - 1)
  BY DEF NewChunk
<1>3. ASSUME NEW i \in 1..n, NEW j \in 1..n, i < j PROVE new(i).part < new(j).part
  <2>1. i - 1 \in 0..n - 1 /\ j - 1 \in 0..n - 1 /\ i - 1 < j - 1
    BY <1>1, <1>3
  <2> HIDE DEF new, parts
  <2>2. Nth(parts, i - 1) < Nth(parts, j - 1)
    BY <1>1, <2>1, NthGrows
  <2> QED
    BY <1>2, <2>2
<1> HIDE DEF text, parts, n, new
<1>4. \A m \in DOMAIN chunks' :
        \/ m \in 1..Len(chunks) /\ m \in DOMAIN chunks /\ chunks'[m] = chunks[m]
        \/ /\ m - Len(chunks) \in 1..n /\ ~(m <= Len(chunks))
           /\ chunks'[m] = new(m - Len(chunks))
  <2> SUFFICES ASSUME NEW m \in DOMAIN chunks', m \notin 1..Len(chunks)
               PROVE  /\ m - Len(chunks) \in 1..n /\ ~(m <= Len(chunks))
                      /\ chunks'[m] = new(m - Len(chunks))
    BY <1>1
  <2>1. m - Len(chunks) \in 1..n /\ Len(chunks) + (m - Len(chunks)) = m /\ ~(m <= Len(chunks))
    BY <1>1
  <2> QED
    BY <1>1, <2>1
<1>5. ASSUME NEW m \in DOMAIN chunks'
      PROVE  chunks'[m].position = sections[chunks'[m].section].position
  BY <1>2, <1>4 DEF OrderInv
<1>6. ASSUME NEW i \in DOMAIN chunks', NEW j \in DOMAIN chunks', i < j
      PROVE  \/ chunks'[i].section < chunks'[j].section
             \/ chunks'[i].section = chunks'[j].section /\ chunks'[i].part < chunks'[j].part
  <2>1. i \in Nat /\ j \in Nat /\ Len(chunks) \in Nat
    BY <1>1
  <2>2. CASE j \in DOMAIN chunks
    <3>1. i \in DOMAIN chunks
      BY <1>1, <1>6, <2>1, <2>2
    <3>2. chunks'[i] = chunks[i] /\ chunks'[j] = chunks[j]
      BY <1>1, <2>2, <3>1
    <3> QED
      BY <1>6, <2>2, <3>1, <3>2 DEF OrderInv
  <2>3. CASE i \in DOMAIN chunks /\ j \notin DOMAIN chunks
    <3>1. chunks'[j].section = section
      BY <1>2, <1>4, <2>3
    <3>2. chunks'[i] = chunks[i] /\ chunks[i].section < section
      BY <1>1, <2>3 DEF ChunksInv
    <3> QED
      BY <3>1, <3>2
  <2>4. CASE i \notin DOMAIN chunks /\ j \notin DOMAIN chunks
    <3>1. /\ i - Len(chunks) \in 1..n /\ chunks'[i] = new(i - Len(chunks))
          /\ j - Len(chunks) \in 1..n /\ chunks'[j] = new(j - Len(chunks))
      BY <1>4, <2>4
    <3>2. i - Len(chunks) < j - Len(chunks)
      BY <1>6, <2>1
    <3>3. new(i - Len(chunks)).part < new(j - Len(chunks)).part
      BY <1>3, <3>1, <3>2
    <3> QED
      BY <1>2, <3>1, <3>3
  <2> QED
    BY <2>2, <2>3, <2>4
<1> QED
  BY <1>1, <1>5, <1>6 DEF OrderInv

\* Linking moves no chunk.
LEMMA LinkMovesNone ==
  ASSUME LinkChunks, chunks \in Seq(ChunkType)
  PROVE  /\ UNCHANGED <<note, sections, section>>
         /\ DOMAIN chunks' = DOMAIN chunks
         /\ \A p : FirstAt(p)' = FirstAt(p)
         /\ \A i \in DOMAIN chunks :
              /\ chunks'[i].position = chunks[i].position
              /\ chunks'[i].section = chunks[i].section /\ chunks'[i].part = chunks[i].part
              /\ chunks'[i].parent = FirstAt(sections[chunks[i].section].parent)
<1> DEFINE above(i) == FirstAt(sections[chunks[i].section].parent)
<1>1. chunks' = [i \in DOMAIN chunks |-> [chunks[i] EXCEPT !.parent = above(i)]]
      /\ UNCHANGED <<note, sections, section>>
  BY DEF LinkChunks, outlineVars, Linked
<1> HIDE DEF above
<1>2. DOMAIN chunks' = DOMAIN chunks
  BY <1>1
<1>3. ASSUME NEW i \in DOMAIN chunks
      PROVE  /\ chunks'[i].position = chunks[i].position
             /\ chunks'[i].section = chunks[i].section /\ chunks'[i].part = chunks[i].part
             /\ chunks'[i].parent = above(i)
  <2>1. chunks[i] \in ChunkType
    BY ElementOfSeq, LenProperties
  <2> QED
    BY <1>1, <2>1 DEF ChunkType
<1>4. \A p : FirstAt(p)' = FirstAt(p)
  <2> SUFFICES ASSUME NEW p PROVE FirstAt(p)' = FirstAt(p)
    OBVIOUS
  <2>1. {i \in DOMAIN chunks' : chunks'[i].position = p} = {i \in DOMAIN chunks : chunks[i].position = p}
    BY <1>2, <1>3
  <2> QED
    BY <2>1 DEF FirstAt
<1> QED
  BY <1>1, <1>2, <1>3, <1>4 DEF above

\* The inductive step.
LEMMA AcceptStep ==
  ASSUME AcceptInv, [ChunkNext]_chunkVars
  PROVE  AcceptInv'
<1>1. CoverInv /\ OutlineInv /\ ChunksInv /\ TreeInv /\ OrderInv /\ LinkedInv
  BY DEF AcceptInv, CoverInv
<1>2. CoverInv' /\ TreeInv'
  BY <1>1, CoverStep, TreeStep
<1>3. DOMAIN sections = 1..Len(sections) /\ Len(sections) \in Nat
  BY <1>1, LenProperties DEF OutlineInv
<1>4. ASSUME UNCHANGED <<sections, chunks>> PROVE OrderInv'
  BY <1>1, <1>4 DEF OrderInv
<1>5. CASE ReadLine \/ EndOutline
  <2>1. /\ status = "read" /\ chunks' = chunks /\ status' \in {"read", "cut"}
    BY <1>5 DEF ReadLine, EndOutline
  <2>2. DOMAIN chunks' = {}
    BY <1>1, <2>1 DEF CoverInv
  <2>3. OrderInv' /\ LinkedInv'
    BY <2>1, <2>2 DEF OrderInv, LinkedInv
  <2> QED
    BY <1>2, <2>3 DEF AcceptInv
<1>6. CASE OpenWindow \/ CutBytes \/ CloseWindow
  <2>1. status = "cut" /\ UNCHANGED <<sections, chunks, status>>
    BY <1>6 DEF OpenWindow, CutBytes, CloseWindow, Cutting, outlineVars
  <2>2. OrderInv' /\ LinkedInv'
    BY <1>4, <2>1 DEF LinkedInv
  <2> QED
    BY <1>2, <2>2 DEF AcceptInv
<1>7. CASE AddChunks
  <2>1. status = "cut" /\ section <= Len(sections) /\ status' = status
    BY <1>7 DEF AddChunks, Cutting
  <2>2. section \in DOMAIN sections
    BY <1>1, <1>3, <2>1 DEF CoverInv
  <2>3. CutInv(Text(section))
    BY <1>1, <2>1, <2>2 DEF CoverInv
  <2>4. OrderInv' /\ LinkedInv'
    BY <1>1, <1>7, <2>1, <2>2, <2>3, AddKeepsOrder DEF LinkedInv
  <2> QED
    BY <1>2, <2>4 DEF AcceptInv
<1>8. CASE LinkChunks
  <2>1. /\ chunks' = Linked
        /\ status' = IF ValidSet(Linked) THEN "chunked" ELSE "refused"
    BY <1>8 DEF LinkChunks
  <2>2. /\ UNCHANGED <<note, sections, section>>
        /\ DOMAIN chunks' = DOMAIN chunks
        /\ \A p : FirstAt(p)' = FirstAt(p)
        /\ \A i \in DOMAIN chunks :
             /\ chunks'[i].position = chunks[i].position
             /\ chunks'[i].section = chunks[i].section /\ chunks'[i].part = chunks[i].part
             /\ chunks'[i].parent = FirstAt(sections[chunks[i].section].parent)
    BY <1>1, <1>8, LinkMovesNone DEF ChunksInv
  <2>3. OrderInv'
    BY <1>1, <2>2 DEF OrderInv
  <2>4. \A s : ValidSet(s)' <=> ValidSet(s)
    BY <2>2 DEF ValidSet
  <2>5. status' = "chunked" <=> ValidSet(chunks')
    BY <2>1
  <2>6. LinkedInv'
    BY <2>2, <2>4, <2>5 DEF LinkedInv
  <2> QED
    BY <1>2, <2>3, <2>6 DEF AcceptInv
<1>9. CASE UNCHANGED chunkVars
  <2>1. UNCHANGED <<sections, chunks, status>>
    BY <1>9 DEF chunkVars, outlineVars
  <2>2. \A p : FirstAt(p)' = FirstAt(p)
    BY <2>1 DEF FirstAt
  <2>3. \A s : ValidSet(s)' <=> ValidSet(s)
    BY <2>2 DEF ValidSet
  <2>4. OrderInv' /\ LinkedInv'
    BY <1>1, <1>4, <2>1, <2>2, <2>3 DEF LinkedInv
  <2> QED
    BY <1>2, <2>4 DEF AcceptInv
<1> QED
  BY <1>5, <1>6, <1>7, <1>8, <1>9 DEF ChunkNext

\* A heading is a word, so its section has one that is due.
LEMMA HeadingIsDue ==
  ASSUME OutlineInv, TreeInv, NEW k \in DOMAIN sections, sections[k].depth > 0
  PROVE  Due(Text(k)) # {}
<1> DEFINE first == sections[k].first
           second == first + 1
           next == IF k = Len(sections) THEN Len(note.lines) + 1 ELSE sections[k + 1].first
           line == Bytes(first, second)
           text == Text(k)
           from == Offset(first)
           middle == Offset(second)
           to == Offset(next)
<1>1. note \in Notes /\ Lined(sections) /\ sections \in Seq(SectionType)
  BY DEF OutlineInv, TreeInv
<1>2. /\ Len(sections) \in Nat /\ DOMAIN sections = 1..Len(sections) /\ k \in Nat
      /\ \A l \in DOMAIN sections : sections[l].first \in 1..Len(note.lines) + 1
  <2>1. Len(sections) \in Nat /\ DOMAIN sections = 1..Len(sections)
    BY <1>1, LenProperties
  <2>2. \A l \in DOMAIN sections : sections[l] \in SectionType
    BY <1>1, <2>1, ElementOfSeq
  <2> QED
    BY <2>1, <2>2 DEF SectionType
<1>3. Len(note.lines) \in Nat
  BY <1>1, LinesAreTyped
<1>4. first <= Len(note.lines) /\ ~IsBlank(line)
  BY <1>1 DEF Lined
<1>5. next \in 1..Len(note.lines) + 1 /\ first < next
  <2>1. CASE k = Len(sections)
    BY <1>2, <1>3, <1>4, <2>1
  <2>2. CASE k # Len(sections)
    <3>1. k + 1 \in DOMAIN sections /\ k < k + 1
      BY <1>2, <2>2
    <3> QED
      BY <1>1, <1>2, <2>2, <3>1 DEF Lined
  <2> QED
    BY <2>1, <2>2
<1>6. text = Bytes(first, next) /\ line = Bytes(first, second)
  BY DEF Text
<1> HIDE DEF next, text, line
<1>7. /\ first \in 1..Len(note.lines) + 1 /\ second \in 1..Len(note.lines) + 1
      /\ second <= next
  BY <1>2, <1>3, <1>4, <1>5
<1> HIDE DEF first, second
<1>8. /\ from \in Nat /\ to \in Nat /\ middle \in Nat /\ Len(note.bytes) \in Nat
      /\ middle <= to
  <2>1. from \in 0..Len(note.bytes) /\ middle \in 0..Len(note.bytes) /\ Len(note.bytes) \in Nat
    BY <1>1, <1>7, OffsetsAreBorders
  <2>2. to \in 0..Len(note.bytes)
    BY <1>1, <1>5, OffsetsAreBorders
  <2>3. middle <= to
    BY <1>1, <1>5, <1>7, OffsetsGrow
  <2> HIDE DEF from, middle, to
  <2> QED
    BY <2>1, <2>2, <2>3
<1>9. from < middle
  <2> SUFFICES ASSUME ~(from < middle) PROVE FALSE
    OBVIOUS
  <2>1. line = <<>>
    <3>1. line = SubSeq(note.bytes, from + 1, middle)
      BY <1>6 DEF Bytes
    <3> HIDE DEF from, middle
    <3> QED
      BY <1>8, <3>1, SubSeqEmpty
  <2> QED
    BY <1>4, <2>1 DEF IsBlank
<1>10. /\ DOMAIN line = 1..middle - from
       /\ \A i \in 1..middle - from : line[i] = note.bytes[from + i]
  BY <1>1, <1>6, <1>7, <1>9, BytesBetween
<1>11. /\ DOMAIN text = 1..to - from
       /\ \A i \in 1..to - from : text[i] = note.bytes[from + i]
  <2>1. from < to
    BY <1>8, <1>9
  <2> QED
    BY <1>1, <1>5, <1>6, <1>7, <2>1, BytesBetween
<1> HIDE DEF from, middle, to
<1>12. Utf8(text)
  BY SectionsAreUtf8 DEF text
<1> DEFINE S == Starts(text)
<1>13. /\ Len(text) \in Nat /\ DOMAIN text = 1..Len(text)
       /\ S \in SUBSET Nat /\ IsFiniteSet(S) /\ Words(text) = Cardinality(S)
  BY <1>12, StartsAreCounted
<1>14. PICK b \in DOMAIN text : text[b] \notin {" ", "n"}
  <2>1. PICK i \in DOMAIN line : line[i] \notin {" ", "n"}
    BY <1>4 DEF IsBlank
  <2>2. i \in 1..middle - from /\ i \in 1..to - from
    BY <1>8, <1>10
  <2> QED
    BY <1>10, <1>11, <2>1, <2>2
<1>15. b - 1 \in WordByte(text)
  <2> DEFINE n == Len(text)
  <2>1. b \in 1..n /\ n \in Nat
    BY <1>13, <1>14
  <2> HIDE DEF n
  <2>2. b - 1 \in 0..n - 1 /\ (b - 1) + 1 = b
    BY <2>1
  <2> QED
    BY <1>14, <2>2 DEF WordByte, Space, n
<1>16. 0 \in 0..Words(text) - 1
  <2>1. Cardinality(Below(S, (b - 1) + 1)) \in 1..Words(text)
    BY <1>12, <1>15, WordBytesAreCounted
  <2>2. Words(text) \in Nat
    BY <1>12, StartsAreCounted
  <2> QED
    BY <2>1, <2>2
<1> HIDE DEF S
<1>17. PICK w \in S : Cardinality(Below(S, w)) = 0
  BY <1>13, <1>16, EveryRankIsTaken
<1>18. Below(S, w + 1) = {w}
  <2>1. IsFiniteSet(Below(S, w))
    BY <1>13, BelowIsCounted
  <2>2. Below(S, w) = {}
    BY <1>17, <2>1, FS_EmptySet
  <2>3. \A j \in S : j < w + 1 <=> (j < w \/ j = w)
    BY <1>13
  <2> QED
    BY <1>17, <2>2, <2>3 DEF Below
<1>19. Cardinality(Below(S, w + 1)) = 1
  BY <1>18, FS_Singleton
<1>20. w \in WordByte(text)
  BY <1>17 DEF S, Starts, WordByte
<1> QED
  BY <1>19, <1>20 DEF Due, S, text

\* The parent of a section, by its position.
LEMMA ParentsOfSections ==
  ASSUME OutlineInv, TreeInv, NEW k \in DOMAIN sections
  PROVE  LET above == Shallower(sections, k, sections[k].depth) IN
         /\ Front(sections[k].position) = sections[k].parent
         /\ sections[k].position # <<>>
         /\ above = {} => sections[k].parent = <<>>
         /\ above # {} => /\ Max(above) \in DOMAIN sections
                          /\ sections[Max(above)].depth > 0
                          /\ sections[k].parent = sections[Max(above)].position
<1> DEFINE above == Shallower(sections, k, sections[k].depth)
<1>1. Tree(sections) /\ Named(sections, counts) /\ sections \in Seq(SectionType)
  BY DEF OutlineInv, TreeInv
<1>2. /\ Len(sections) \in Nat /\ DOMAIN sections = 1..Len(sections) /\ k \in Nat
      /\ sections[k].depth \in Nat /\ sections[k].parent \in Position
  BY <1>1, SectionFields
<1>3. PICK o \in Nat : sections[k].position = Append(sections[k].parent, <<sections[k].depth, o>>)
  BY <1>1 DEF Named
<1>4. /\ Front(sections[k].position) = sections[k].parent
      /\ sections[k].position # <<>>
  <2> DEFINE T == Nat \X Nat
             e == <<sections[k].depth, o>>
             q == sections[k].parent
  <2>1. e \in T /\ q \in Seq(T) /\ sections[k].position = Append(q, e)
    BY <1>2, <1>3 DEF Position
  <2> HIDE DEF T, e, q
  <2>2. Front(Append(q, e)) = q /\ Append(q, e) # <<>>
    BY <2>1, FrontOfAppend
  <2> QED
    BY <2>1, <2>2 DEF q
<1>5. sections[k].parent = IF above = {} THEN <<>> ELSE sections[Max(above)].position
  BY <1>1 DEF Tree, Nearest
<1>6. above # {} => Max(above) \in above
  <2>1. above \in SUBSET Nat /\ \A m \in above : m <= k
    BY <1>2 DEF Shallower
  <2> HIDE DEF above
  <2> QED
    BY <1>2, <2>1, MaxOfNaturals
<1>7. \A m \in above : m \in DOMAIN sections /\ sections[m].depth > 0
  BY <1>2 DEF Shallower
<1> HIDE DEF above
<1> QED
  BY <1>4, <1>5, <1>6, <1>7 DEF above

\* Where the chunks of a section begin.
LEMMA FirstOfSection ==
  ASSUME OutlineInv, TreeInv, ChunksInv, OrderInv, NEW k \in DOMAIN sections,
         NEW f, f = FirstAt(sections[k].position)
  PROVE  /\ f # 0 => /\ f \in DOMAIN chunks /\ chunks[f].section = k
                     /\ \A j \in 1..f - 1 : chunks[j].position # chunks[f].position
         /\ sections[k].depth > 0 /\ k < section => f # 0
<1> DEFINE p == sections[k].position
           those == {i \in DOMAIN chunks : chunks[i].position = p}
<1>1. chunks \in Seq(ChunkType) /\ Len(chunks) \in Nat /\ DOMAIN chunks = 1..Len(chunks)
  BY LenProperties DEF ChunksInv
<1>2. \A i \in DOMAIN chunks : chunks[i].section \in DOMAIN sections
  BY DEF ChunksInv
<1>3. f = IF those = {} THEN 0 ELSE Min(those)
  BY DEF FirstAt
<1>4. those # {} => f \in those /\ \A i \in those : f <= i
  <2> SUFFICES ASSUME those # {} PROVE f \in those /\ \A i \in those : f <= i
    OBVIOUS
  <2>1. those \in SUBSET Nat
    BY <1>1
  <2>2. f = Min(those)
    BY <1>3
  <2> HIDE DEF those
  <2>3. Min(those) \in those /\ \A i \in those : Min(those) <= i
    BY <2>1, MinOfNaturals
  <2> QED
    BY <2>2, <2>3
<1>5. ASSUME f # 0
      PROVE  /\ f \in DOMAIN chunks /\ chunks[f].section = k
             /\ \A j \in 1..f - 1 : chunks[j].position # chunks[f].position
  <2>1. those # {}
    BY <1>3, <1>5
  <2>2. f \in DOMAIN chunks /\ chunks[f].position = p /\ f \in Nat
    BY <1>1, <1>4, <2>1
  <2>3. chunks[f].section = k
    BY <1>2, <2>2 DEF OrderInv, Named, TreeInv
  <2>4. \A j \in 1..f - 1 : j \in DOMAIN chunks /\ ~(f <= j)
    BY <1>1, <2>2
  <2>5. \A j \in 1..f - 1 : j \notin those
    BY <1>4, <2>1, <2>4
  <2> QED
    BY <2>2, <2>3, <2>4, <2>5
<1>6. ASSUME sections[k].depth > 0, k < section PROVE f # 0
  <2>1. PICK i : i \in Due(Text(k))
    BY <1>6, HeadingIsDue
  <2>2. PICK m \in DOMAIN chunks : chunks[m].section = k
    BY <1>6, <2>1 DEF ChunksInv
  <2>3. m \in those
    BY <2>2 DEF OrderInv
  <2> QED
    BY <1>1, <1>4, <2>3
<1> QED
  BY <1>5, <1>6

\* No chunk is at the top.
LEMMA NothingAtTop ==
  ASSUME OutlineInv, TreeInv, ChunksInv, OrderInv
  PROVE  FirstAt(<<>>) = 0
<1>1. \A i \in DOMAIN chunks : chunks[i].position # <<>>
  BY ParentsOfSections DEF OrderInv, ChunksInv
<1> QED
  BY <1>1 DEF FirstAt

\* The number of the chunk's piece is its rank, if no piece before it was blank.
LEMMA PartIsRank ==
  ASSUME OutlineInv, TreeInv, ChunksInv, OrderInv, NEW i \in DOMAIN chunks,
         chunks[i].part = 1 + Cardinality({d \in Range(chunks) :
                                 d.section = chunks[i].section /\ d.part < chunks[i].part})
  PROVE  chunks[i].part =
           1 + Cardinality({j \in 1..i - 1 : chunks[j].position = chunks[i].position})
<1> DEFINE S == {j \in 1..i - 1 : chunks[j].position = chunks[i].position}
           T == {d \in Range(chunks) : d.section = chunks[i].section /\ d.part < chunks[i].part}
           f == [j \in S |-> chunks[j]]
<1>1. chunks \in Seq(ChunkType) /\ Len(chunks) \in Nat /\ DOMAIN chunks = 1..Len(chunks)
  BY LenProperties DEF ChunksInv
<1>2. \A j \in DOMAIN chunks : /\ chunks[j].section \in DOMAIN sections
                               /\ chunks[j].section \in Nat /\ chunks[j].part \in Nat
  <2>1. \A j \in DOMAIN chunks : chunks[j] \in ChunkType
    BY <1>1, ElementOfSeq
  <2>2. \A j \in DOMAIN chunks : chunks[j].section \in Nat /\ chunks[j].part \in Nat
    BY <2>1 DEF ChunkType
  <2> QED
    BY <2>2 DEF ChunksInv
<1>3. \A j \in 1..i - 1 : j \in DOMAIN chunks /\ j < i
  BY <1>1
<1>4. \A j, k \in DOMAIN chunks :
        chunks[j].position = chunks[k].position <=> chunks[j].section = chunks[k].section
  BY <1>2 DEF OrderInv, Named, TreeInv
<1>5. \A j, k \in DOMAIN chunks :
        chunks[j].section = chunks[k].section => (j < k <=> chunks[j].part < chunks[k].part)
  <2> SUFFICES ASSUME NEW j \in DOMAIN chunks, NEW k \in DOMAIN chunks,
                      chunks[j].section = chunks[k].section
               PROVE  j < k <=> chunks[j].part < chunks[k].part
    OBVIOUS
  <2>1. j < k \/ j = k \/ k < j
    BY <1>1
  <2>2. j < k => chunks[j].part < chunks[k].part
    BY <1>2 DEF OrderInv
  <2>3. k < j => chunks[k].part < chunks[j].part
    BY <1>2 DEF OrderInv
  <2>4. j \in Nat /\ k \in Nat /\ chunks[j].part \in Nat /\ chunks[k].part \in Nat
    BY <1>1, <1>2
  <2> QED
    BY <2>1, <2>2, <2>3, <2>4
<1>6. \A j : j \in S <=> /\ j \in DOMAIN chunks /\ chunks[j].section = chunks[i].section
                         /\ chunks[j].part < chunks[i].part
  <2>1. ASSUME NEW j \in S
        PROVE  /\ j \in DOMAIN chunks /\ chunks[j].section = chunks[i].section
               /\ chunks[j].part < chunks[i].part
    BY <1>3, <1>4, <1>5
  <2>2. ASSUME NEW j \in DOMAIN chunks, chunks[j].section = chunks[i].section,
               chunks[j].part < chunks[i].part
        PROVE  j \in S
    <3>1. j < i /\ chunks[j].position = chunks[i].position
      BY <1>4, <1>5, <2>2
    <3>2. j \in 1..i - 1
      BY <1>1, <3>1
    <3> QED
      BY <3>1, <3>2
  <2> QED
    BY <2>1, <2>2
<1>7. S \subseteq 1..i - 1 /\ i \in Nat
  BY <1>1
<1>8. \A d : d \in T <=> \E j \in DOMAIN chunks : /\ d = chunks[j] /\ d.section = chunks[i].section
                                                 /\ d.part < chunks[i].part
  BY DEF Range
<1> HIDE DEF S, T
<1>9. IsFiniteSet(S)
  <2>1. i - 1 \in Int
    BY <1>7
  <2>2. IsFiniteSet(1..i - 1)
    BY <2>1, FS_Interval
  <2> QED
    BY <1>7, <2>2, FS_Subset
<1>10. f \in [S -> T] /\ T = {f[j] : j \in S}
  <2>1. \A j \in S : chunks[j] \in T
    BY <1>6, <1>8
  <2>2. \A d \in T : \E j \in S : d = chunks[j]
    BY <1>6, <1>8
  <2> QED
    BY <2>1, <2>2
<1>11. \A j, k \in S : f[j] = f[k] => j = k
  <2> SUFFICES ASSUME NEW j \in S, NEW k \in S, chunks[j] = chunks[k] PROVE j = k
    OBVIOUS
  <2>1. j \in Nat /\ k \in Nat /\ j \in DOMAIN chunks /\ k \in DOMAIN chunks
    BY <1>1, <1>6
  <2>2. j < k <=> chunks[j].part < chunks[k].part
    BY <1>5, <2>1
  <2>3. k < j <=> chunks[k].part < chunks[j].part
    BY <1>5, <2>1
  <2>4. chunks[j].part \in Nat /\ chunks[k].part = chunks[j].part
    BY <1>2, <2>1
  <2> QED
    BY <2>1, <2>2, <2>3, <2>4
<1> HIDE DEF f
<1>12. Cardinality(T) = Cardinality(S)
  BY <1>9, <1>10, <1>11, ImageCardinality
<1> QED
  BY <1>12 DEF S, T

\* A set without a gap passes, once it is linked.
LEMMA NoGapIsValid ==
  ASSUME OutlineInv, TreeInv, ChunksInv, OrderInv, section = Len(sections) + 1,
         \A i \in DOMAIN chunks : chunks[i].parent = FirstAt(sections[chunks[i].section].parent),
         \A c \in Range(chunks) : c.part = 1 + Cardinality({d \in Range(chunks) :
                                     d.section = c.section /\ d.part < c.part})
  PROVE  ValidSet(chunks)
<1>1. ASSUME NEW i \in DOMAIN chunks
      PROVE  chunks[i].part =
               1 + Cardinality({j \in 1..i - 1 : chunks[j].position = chunks[i].position})
  <2>1. chunks[i] \in Range(chunks)
    BY DEF Range
  <2> QED
    BY <2>1, PartIsRank
<1>2. ASSUME NEW i \in DOMAIN chunks
      PROVE  LET above == Front(chunks[i].position) IN
             IF above = <<>> THEN chunks[i].parent = 0
             ELSE /\ FirstAt(above) # 0 /\ chunks[i].parent = FirstAt(above)
                  /\ chunks[chunks[i].parent].part = 1
  <2> DEFINE k == chunks[i].section
             p == sections[k].parent
             above == Shallower(sections, k, sections[k].depth)
             m == Max(above)
             f == FirstAt(p)
  <2>1. k \in DOMAIN sections
    BY DEF ChunksInv
  <2>2. /\ Front(sections[k].position) = p
        /\ above = {} => p = <<>>
        /\ above # {} => m \in DOMAIN sections /\ sections[m].depth > 0 /\ p = sections[m].position
    BY <2>1, ParentsOfSections
  <2>3. Front(chunks[i].position) = p /\ chunks[i].parent = f
    BY <2>2 DEF OrderInv
  <2>4. CASE p = <<>>
    BY <2>3, <2>4, NothingAtTop
  <2>5. CASE p # <<>>
    <3>1. m \in DOMAIN sections /\ sections[m].depth > 0 /\ p = sections[m].position
      BY <2>2, <2>5
    <3>2. m < section
      <4>1. DOMAIN sections = 1..Len(sections) /\ Len(sections) \in Nat
        BY LenProperties DEF OutlineInv
      <4> QED
        BY <3>1, <4>1
    <3> HIDE DEF p, m, above, f
    <3>3. f = FirstAt(sections[m].position)
      BY <3>1 DEF f
    <3>4. f # 0
      BY <3>1, <3>2, <3>3, FirstOfSection
    <3>5. f \in DOMAIN chunks /\ \A j \in 1..f - 1 : chunks[j].position # chunks[f].position
      BY <3>1, <3>3, <3>4, FirstOfSection
    <3>6. {j \in 1..f - 1 : chunks[j].position = chunks[f].position} = {}
      BY <3>5
    <3>7. chunks[f].part = 1 + 0
      BY <1>1, <3>5, <3>6, FS_EmptySet
    <3> QED
      BY <2>3, <2>5, <3>4, <3>7 DEF f
  <2> QED
    BY <2>4, <2>5
<1> QED
  BY <1>1, <1>2 DEF ValidSet

LEMMA AcceptShows == AcceptInv => ChunksAreAccepted
<1> SUFFICES ASSUME AcceptInv PROVE ChunksAreAccepted
  OBVIOUS
<1>1. OutlineInv /\ TreeInv /\ ChunksInv /\ OrderInv /\ LinkedInv
  BY DEF AcceptInv, CoverInv
<1>2. ASSUME status = "refused"
      PROVE  \E c \in Range(chunks) : c.part # 1 + Cardinality({d \in Range(chunks) :
                                          d.section = c.section /\ d.part < c.part})
  <2>1. /\ section = Len(sections) + 1 /\ ~ValidSet(chunks)
        /\ \A i \in DOMAIN chunks : chunks[i].parent = FirstAt(sections[chunks[i].section].parent)
    BY <1>1, <1>2 DEF AcceptInv, CoverInv, LinkedInv
  <2> QED
    BY <1>1, <2>1, NoGapIsValid
<1>3. ASSUME status = "chunked", NEW c \in Range(chunks)
      PROVE  LET above == {k \in 1..c.section - 1 : /\ sections[k].depth < sections[c.section].depth
                                                    /\ sections[k].depth > 0} IN
             IF above = {} THEN c.parent = 0
             ELSE chunks[c.parent].section = Max(above) /\ chunks[c.parent].part = 1
  <2>1. PICK i \in DOMAIN chunks : c = chunks[i]
    BY DEF Range
  <2> DEFINE k == c.section
             p == sections[k].parent
             above == Shallower(sections, k, sections[k].depth)
             m == Max(above)
             f == FirstAt(p)
  <2>2. k \in DOMAIN sections
    BY <1>1, <2>1 DEF ChunksInv
  <2>3. /\ Front(sections[k].position) = p
        /\ above = {} => p = <<>>
        /\ above # {} => m \in DOMAIN sections /\ p = sections[m].position /\ p # <<>>
    BY <1>1, <2>2, ParentsOfSections
  <2>4. Front(c.position) = p /\ c.parent = f /\ ValidSet(chunks)
    <3>1. c.parent = f /\ ValidSet(chunks)
      BY <1>1, <1>3, <2>1 DEF LinkedInv
    <3>2. c.position = sections[k].position
      BY <1>1, <2>1 DEF OrderInv
    <3> QED
      BY <2>3, <3>1, <3>2
  <2>5. CASE above = {}
    <3>1. c.parent = 0
      BY <1>1, <2>3, <2>4, <2>5, NothingAtTop
    <3> QED
      BY <2>5, <3>1 DEF Shallower
  <2>6. CASE above # {}
    <3>1. m \in DOMAIN sections /\ p = sections[m].position /\ p # <<>>
      BY <2>3, <2>6
    <3>2. f # 0 /\ chunks[c.parent].part = 1
      BY <2>1, <2>4, <3>1 DEF ValidSet
    <3>3. chunks[f].section = m
      <4> HIDE DEF m, p, f
      <4>1. f = FirstAt(sections[m].position)
        BY <3>1 DEF f
      <4> QED
        BY <1>1, <3>1, <3>2, <4>1, FirstOfSection
    <3>4. chunks[c.parent].section = m
      BY <2>4, <3>3
    <3> QED
      BY <2>6, <3>2, <3>4 DEF Shallower
  <2> QED
    BY <2>5, <2>6
<1> QED
  BY <1>2, <1>3 DEF ChunksAreAccepted

\* For any note and any options, what the chunker makes passes its own
\* validation unless a blank piece was left out before another of its section,
\* and then the parent of a chunk is the first of the nearest section before
\* its own that is less deep.
THEOREM ChunksAreAcceptedHolds == ChunkSpec => []ChunksAreAccepted
<1>1. AcceptInv /\ [ChunkNext]_chunkVars => AcceptInv'
  BY AcceptStep
<1> QED
  BY <1>1, AcceptInit, AcceptShows, PTL DEF ChunkSpec

-----------------------------------------------------------------------------
(* The file of a generation. *)

IsRow(r) == r = [key |-> r.key, columns |-> r.columns, content |-> r.content]

RowTables == {"sources", "declarations", "chunks", "vectors"}
AllTables == RowTables \cup {"manifest", "texts", "eligible"}

\* A damaged file still has its tables, and rows with a key, columns and content.
HasTables ==
  /\ file = [table \in AllTables |-> file[table]]
  /\ file.manifest = [columns |-> file.manifest.columns, content |-> file.manifest.content]
  /\ \A table \in RowTables : \A r \in file[table] : IsRow(r)
  /\ input.schema = 2 => file.declarations = {} /\ file.eligible = {}

\* What is built was valid, and it opens just when it is verified.
FileInv ==
  /\ input \in Inputs
  /\ outcome \in {"built", "opened", "refused"} => Valid(input) /\ HasTables
  /\ outcome = "opened" => Verified
  /\ outcome = "refused" => ~Verified

USE InputsAssumption

-----------------------------------------------------------------------------
(* Rows and what they are the rows of. *)

\* The rows of the four keyed tables are rows.
LEMMA TablesHaveRows ==
  ASSUME NEW in, NEW table \in RowTables, NEW r \in Tables(in)[table]
  PROVE  IsRow(r)
<1>1. CASE table = "sources"
  BY <1>1 DEF Tables, StoredSources, SourceRow, IsRow
<1>2. CASE table = "declarations"
  BY <1>2 DEF Tables, DeclarationRow, IsRow
<1>3. CASE table = "chunks"
  BY <1>3 DEF Tables, ChunkRow, IsRow
<1>4. CASE table = "vectors"
  BY <1>4 DEF Tables, VectorRow, IsRow
<1> QED
  BY <1>1, <1>2, <1>3, <1>4 DEF RowTables

\* Mixing two rows makes a row.
LEMMA MixedRows ==
  ASSUME NEW table \in RowTables, NEW r \in RowsOf(table)
  PROVE  IsRow(r)
<1> DEFINE rows == UNION {Tables(in)[table] : in \in Peers}
<1>1. \A a \in rows : IsRow(a)
  BY TablesHaveRows
<1>2. r \in rows \/ \E a, b \in rows : r \in {[b EXCEPT !.columns = a.columns], [b EXCEPT !.key = a.key]}
  BY DEF RowsOf
<1> QED
  BY <1>1, <1>2 DEF IsRow

\* What is built has its tables.
LEMMA BuiltHasTables ==
  ASSUME input \in Inputs, Build
  PROVE  HasTables'
<1>1. input' = input /\ file' = Tables(input)
  BY DEF Build
<1>2. \A table \in RowTables : \A r \in file'[table] : IsRow(r)
  BY <1>1, TablesHaveRows
<1>3. input'.schema = 2 => file'.declarations = {} /\ file'.eligible = {}
  BY <1>1 DEF Tables
<1>4. /\ file' = [table \in AllTables |-> file'[table]]
      /\ file'.manifest = [columns |-> file'.manifest.columns, content |-> file'.manifest.content]
  BY <1>1 DEF Tables, AllTables, RowTables
<1> QED
  BY <1>2, <1>3, <1>4 DEF HasTables

\* An alteration leaves the tables in place.
LEMMA AlterKeepsTables ==
  ASSUME input \in Inputs, HasTables, Alter
  PROVE  HasTables'
<1>1. UNCHANGED input
  BY DEF Alter
<1>2. ASSUME NEW table \in RowTables, AlterRow(table)
      PROVE  HasTables'
  <2>1. PICK rows \in {file[table] \ {r} : r \in file[table]} \cup {file[table]},
             new \in {{}} \cup {{r} : r \in RowsOf(table)} :
               file' = [file EXCEPT ![table] = rows \cup new]
    BY <1>2 DEF AlterRow
  <2>2. \A r \in rows \cup new : IsRow(r)
    BY <2>1, MixedRows DEF HasTables
  <2>3. ASSUME input.schema = 2, table = "declarations"
        PROVE  rows \cup new = {}
    <3>1. \A in \in Peers : Tables(in)["declarations"] = {}
      BY <2>3 DEF Peers, Tables
    <3>2. RowsOf("declarations") = {}
      BY <3>1 DEF RowsOf
    <3> QED
      BY <2>1, <2>3, <3>2 DEF HasTables
  <2>4. /\ file' = [t \in AllTables |-> file'[t]]
        /\ file'[table] = rows \cup new
        /\ \A t \in AllTables \ {table} : file'[t] = file[t]
    BY <2>1 DEF HasTables, AllTables
  <2>5. \A t \in RowTables : \A r \in file'[t] : IsRow(r)
    BY <2>2, <2>4 DEF HasTables, AllTables
  <2>6. input'.schema = 2 => file'.declarations = {} /\ file'.eligible = {}
    BY <1>1, <2>3, <2>4 DEF HasTables, AllTables, RowTables
  <2>7. file'.manifest = file.manifest
    BY <2>4 DEF AllTables, RowTables
  <2> QED
    BY <2>4, <2>5, <2>6, <2>7 DEF HasTables
<1>3. CASE LoseText \/ AddText \/ AlterEligible
  <2>1. PICK table \in {"texts", "eligible"} : \E new : file' = [file EXCEPT ![table] = new]
    <3>1. CASE LoseText
      BY <3>1 DEF LoseText
    <3>2. CASE AddText
      BY <3>2 DEF AddText
    <3>3. CASE AlterEligible
      <4>1. PICK key \in UNION {in.eligible : in \in Peers} :
              file' = [file EXCEPT !["eligible"] = IF key \in file.eligible
                                                   THEN file.eligible \ {key}
                                                   ELSE file.eligible \cup {key}]
        BY <3>3 DEF AlterEligible
      <4> QED
        BY <4>1
    <3> QED
      BY <1>3, <3>1, <3>2, <3>3
  <2>2. /\ file' = [t \in AllTables |-> file'[t]]
        /\ \A t \in AllTables \ {table} : file'[t] = file[t]
    BY <2>1 DEF HasTables, AllTables
  <2>3. input.schema = 2 => file'.eligible = file.eligible
    <3>1. CASE AlterEligible
      <4>1. \E in \in Peers : in.eligible # {}
        BY <3>1 DEF AlterEligible
      <4> QED
        BY <4>1 DEF Peers
    <3>2. CASE LoseText
      BY <3>2 DEF LoseText, HasTables, AllTables
    <3>3. CASE AddText
      BY <3>3 DEF AddText, HasTables, AllTables
    <3> QED
      BY <1>3, <3>1, <3>2, <3>3
  <2>4. \A t \in RowTables \cup {"manifest"} : file'[t] = file[t]
    BY <2>2 DEF AllTables, RowTables
  <2>5. file'.manifest = file.manifest /\ file'.declarations = file.declarations
    BY <2>4 DEF RowTables
  <2> QED
    BY <1>1, <2>2, <2>3, <2>4, <2>5 DEF HasTables
<1>4. CASE AlterManifest
  <2>1. PICK in \in Peers :
          \/ file' = [file EXCEPT !["manifest"] = [@ EXCEPT !.columns = Manifest(in)]]
          \/ file' = [file EXCEPT !["manifest"] = [@ EXCEPT !.content = Manifest(in)]]
    BY <1>4 DEF AlterManifest
  <2>2. /\ file' = [t \in AllTables |-> file'[t]]
        /\ \A t \in AllTables \ {"manifest"} : file'[t] = file[t]
    BY <2>1 DEF HasTables, AllTables
  <2>3. file'.manifest = [columns |-> file'.manifest.columns, content |-> file'.manifest.content]
    <3>1. \/ file'.manifest = [file.manifest EXCEPT !.columns = Manifest(in)]
          \/ file'.manifest = [file.manifest EXCEPT !.content = Manifest(in)]
      BY <2>1 DEF HasTables, AllTables
    <3> QED
      BY <3>1 DEF HasTables
  <2>4. \A t \in RowTables \cup {"eligible"} : file'[t] = file[t]
    BY <2>2 DEF AllTables, RowTables
  <2>5. file'.eligible = file.eligible /\ file'.declarations = file.declarations
    BY <2>4 DEF RowTables
  <2> QED
    BY <1>1, <2>2, <2>3, <2>4, <2>5 DEF HasTables
<1> QED
  BY <1>2, <1>3, <1>4 DEF Alter, RowTables

-----------------------------------------------------------------------------
(* Keys stand for chunks. *)

\* Numbering the rows of the full-text table does not change what they say.
LEMMA NumberedTexts ==
  ASSUME NEW set
  PROVE  TextsOf({Numbered(TextRow(c), 0) : c \in set}) = {TextRow(c) : c \in set}
<1>1. \A c \in set : Numbered(TextRow(c), 0).row = TextRow(c)
  BY DEF Numbered
<1>2. \A r : r \in TextsOf({Numbered(TextRow(c), 0) : c \in set})
                <=> \E c \in set : r = Numbered(TextRow(c), 0).row
  BY DEF TextsOf
<1> QED
  BY <1>1, <1>2

\* In a valid generation a chunk is known by its key, so texts and vectors are
\* as many as chunks.
LEMMA AsManyTexts ==
  ASSUME NEW in \in Inputs, ValidChunks(in.chunks), NEW number
  PROVE  Cardinality({Numbered(TextRow(c), number) : c \in in.chunks}) = Cardinality(in.chunks)
<1> DEFINE f == [c \in in.chunks |-> Numbered(TextRow(c), number)]
           texts == {Numbered(TextRow(c), number) : c \in in.chunks}
<1>1. \A c, d \in in.chunks : ChunkKey(c) = ChunkKey(d) => c = d
  BY DEF ValidChunks
<1>2. \A c, d \in in.chunks : f[c] = f[d] => c = d
  BY <1>1 DEF Numbered, TextRow
<1>3. f \in [in.chunks -> texts] /\ texts = {f[c] : c \in in.chunks}
  OBVIOUS
<1> HIDE DEF f, texts
<1>4. Cardinality(texts) = Cardinality(in.chunks)
  BY <1>2, <1>3, ImageCardinality
<1> QED
  BY <1>4 DEF texts

\* Chunks of one source agree on it, so the sources stored are as many as named.
LEMMA AsManySources ==
  ASSUME NEW in \in Inputs, in.schema = 2, ValidChunks(in.chunks)
  PROVE  /\ IsFiniteSet(StoredSources(in))
         /\ Cardinality(StoredSources(in)) = Cardinality({c.source : c \in in.chunks})
<1> DEFINE keys == {c.source : c \in in.chunks}
           f == [r \in StoredSources(in) |-> r.key]
           noted == {[key |-> c.source, path |-> c.path, meta |-> c.meta] : c \in in.chunks}
           g == [c \in in.chunks |->
                  SourceRow([key |-> c.source, path |-> c.path, meta |-> c.meta], 2)]
<1>1. StoredSources(in) = {g[c] : c \in in.chunks}
  <2>1. StoredSources(in) = {SourceRow(s, 2) : s \in noted}
    BY DEF StoredSources
  <2>2. \A r : r \in StoredSources(in) <=> \E s \in noted : r = SourceRow(s, 2)
    BY <2>1
  <2>3. \A r : r \in {g[c] : c \in in.chunks} <=> \E s \in noted : r = SourceRow(s, 2)
    OBVIOUS
  <2> QED
    BY <2>2, <2>3
<1>2. \A c \in in.chunks : g[c].key = c.source
  BY DEF SourceRow
<1>3. \A c, d \in in.chunks : c.source = d.source => c.path = d.path /\ c.meta = d.meta
  BY DEF ValidChunks
<1>4. \A c, d \in in.chunks : g[c].key = g[d].key => g[c] = g[d]
  BY <1>2, <1>3
<1>5. /\ f \in [StoredSources(in) -> keys]
      /\ keys = {f[r] : r \in StoredSources(in)}
      /\ \A r, s \in StoredSources(in) : f[r] = f[s] => r = s
  <2>1. \A r \in StoredSources(in) : \E c \in in.chunks : r = g[c] /\ r.key = c.source
    BY <1>1, <1>2
  <2>2. \A c \in in.chunks : g[c] \in StoredSources(in) /\ f[g[c]] = c.source
    BY <1>1, <1>2
  <2> HIDE DEF g
  <2>3. \A r, s \in StoredSources(in) : r.key = s.key => r = s
    BY <1>4, <2>1
  <2>4. keys = {f[r] : r \in StoredSources(in)}
    <3>1. \A r \in StoredSources(in) : f[r] \in keys
      BY <2>1
    <3>2. \A k \in keys : \E r \in StoredSources(in) : f[r] = k
      BY <2>2
    <3> HIDE DEF f, keys
    <3> QED
      BY <3>1, <3>2
  <2>5. f \in [StoredSources(in) -> keys]
    BY <2>1
  <2>6. \A r, s \in StoredSources(in) : f[r] = f[s] => r = s
    BY <2>3
  <2> QED
    BY <2>4, <2>5, <2>6
<1>6. IsFiniteSet(StoredSources(in))
  <2>1. g \in Surjection(in.chunks, StoredSources(in))
    BY <1>1 DEF Surjection
  <2>2. IsFiniteSet(in.chunks)
    OBVIOUS
  <2> HIDE DEF g
  <2> QED
    BY <2>1, <2>2, FS_Surjection, Zenon
<1> HIDE DEF f, keys
<1>7. Cardinality(keys) = Cardinality(StoredSources(in))
  BY <1>5, <1>6, ImageCardinality
<1> QED
  BY <1>6, <1>7 DEF keys

\* With an embedding space, a valid generation of schema 2 has a vector of each chunk.
LEMMA AsManyVectors ==
  ASSUME NEW in \in Inputs, in.schema = 2, Valid(in), in.space # NoSpace
  PROVE  Cardinality({VectorRow(v, in.space) : v \in in.vectors}) = Cardinality(in.chunks)
<1> DEFINE rows == {VectorRow(v, in.space) : v \in in.vectors}
           f == [v \in in.vectors |-> VectorRow(v, in.space)]
           g == [v \in in.vectors |-> v.chunk]
           h == [c \in in.chunks |-> ChunkKey(c)]
           keys == {ChunkKey(c) : c \in in.chunks}
<1>1. /\ {v.chunk : v \in in.vectors} = keys
      /\ \A v, w \in in.vectors : v.chunk = w.chunk => v = w
  BY DEF Valid, ValidVectors, Targets
<1>2. \A c, d \in in.chunks : ChunkKey(c) = ChunkKey(d) => c = d
  BY DEF Valid, ValidChunks
<1>3. /\ f \in [in.vectors -> rows] /\ rows = {f[v] : v \in in.vectors}
      /\ \A v, w \in in.vectors : f[v] = f[w] => v = w
  <2>1. \A v \in in.vectors : f[v].key = v.chunk
    BY DEF VectorRow
  <2>2. \A v, w \in in.vectors : f[v] = f[w] => v = w
    BY <1>1, <2>1
  <2>3. \A v \in in.vectors : f[v] = VectorRow(v, in.space)
    OBVIOUS
  <2>4. f \in [in.vectors -> rows]
    OBVIOUS
  <2> HIDE DEF f
  <2>5. rows = {f[v] : v \in in.vectors}
    BY <2>3
  <2> QED
    BY <2>2, <2>4, <2>5
<1>4. /\ g \in [in.vectors -> keys] /\ keys = {g[v] : v \in in.vectors}
      /\ \A v, w \in in.vectors : g[v] = g[w] => v = w
  <2>1. \A v \in in.vectors : g[v] = v.chunk /\ v.chunk \in keys
    BY <1>1
  <2>2. g = [v \in in.vectors |-> g[v]]
    OBVIOUS
  <2> HIDE DEF g, keys
  <2>3. g \in [in.vectors -> keys]
    BY <2>1, <2>2
  <2>4. keys = {g[v] : v \in in.vectors}
    BY <1>1, <2>1
  <2>5. \A v, w \in in.vectors : g[v] = g[w] => v = w
    BY <1>1, <2>1
  <2> QED
    BY <2>3, <2>4, <2>5
<1>5. /\ h \in [in.chunks -> keys] /\ keys = {h[c] : c \in in.chunks}
      /\ \A c, d \in in.chunks : h[c] = h[d] => c = d
  <2>1. h \in [in.chunks -> keys]
    OBVIOUS
  <2>2. \A c \in in.chunks : h[c] = ChunkKey(c)
    OBVIOUS
  <2> HIDE DEF h
  <2>3. keys = {h[c] : c \in in.chunks}
    BY <2>2
  <2>4. \A c, d \in in.chunks : h[c] = h[d] => c = d
    BY <1>2, <2>2
  <2> QED
    BY <2>1, <2>3, <2>4
<1>6. IsFiniteSet(in.chunks) /\ IsFiniteSet(in.vectors)
  OBVIOUS
<1> HIDE DEF f, g, h, keys, rows
<1>7. Cardinality(rows) = Cardinality(in.vectors)
  BY <1>3, <1>6, ImageCardinality
<1>8. Cardinality(keys) = Cardinality(in.vectors)
  BY <1>4, <1>6, ImageCardinality
<1>9. Cardinality(keys) = Cardinality(in.chunks)
  BY <1>5, <1>6, ImageCardinality
<1> QED
  BY <1>7, <1>8, <1>9 DEF rows

-----------------------------------------------------------------------------
(* What was built is verified, and what is verified was built. *)

\* A file nobody altered passes every check of opening: the chunks read back are
\* those of the input, their keys resolve, and the counts are those of the manifest.
LEMMA UnalteredOpens ==
  ASSUME input \in Inputs, Valid(input), file = Tables(input)
  PROVE  Verified
<1> DEFINE stored == Contents(file.chunks)
<1>1. /\ file.manifest.columns = Manifest(input) /\ file.manifest.content = Manifest(input)
      /\ file.sources = StoredSources(input)
      /\ file.declarations = {DeclarationRow(d) : d \in input.declarations}
      /\ file.chunks = {ChunkRow(c, input.schema) : c \in input.chunks}
      /\ file.texts = {Numbered(TextRow(c), 0) : c \in input.chunks}
      /\ file.vectors = {VectorRow(v, input.space) : v \in input.vectors}
      /\ file.eligible = input.eligible
  BY DEF Tables
<1>2. /\ Contents(file.chunks) = input.chunks
      /\ Contents(file.declarations) = input.declarations
      /\ input.schema = 3 => Contents(file.sources) = input.sources
  <2>1. \A c \in input.chunks : ChunkRow(c, input.schema).content = c
    BY DEF ChunkRow
  <2>2. \A d \in input.declarations : DeclarationRow(d).content = d
    BY DEF DeclarationRow
  <2>3. \A s \in input.sources : SourceRow(s, 3).content = s
    BY DEF SourceRow
  <2>4. input.schema = 3 => file.sources = {SourceRow(s, 3) : s \in input.sources}
    BY <1>1 DEF StoredSources
  <2> QED
    BY <1>1, <2>1, <2>2, <2>3, <2>4 DEF Contents
<1>3. {[chunk |-> r.key, value |-> r.content] : r \in file.vectors} = input.vectors
  <2>1. \A v \in input.vectors :
          [chunk |-> VectorRow(v, input.space).key, value |-> VectorRow(v, input.space).content] = v
    BY DEF VectorRow
  <2> QED
    BY <1>1, <2>1
<1>4. Reread = input
  <2>1. input.schema = 2 => input.sources = {}
    OBVIOUS
  <2>2. file.manifest.content.space = input.space
    BY <1>1 DEF Manifest
  <2> QED
    BY <1>1, <1>2, <1>3, <2>1, <2>2 DEF Reread
<1>5. ReferencesHold
  <2>1. {r.key : r \in file.chunks} = {ChunkKey(c) : c \in input.chunks}
    <3>1. \A c \in input.chunks : ChunkRow(c, input.schema).key = ChunkKey(c)
      BY DEF ChunkRow
    <3> QED
      BY <1>1, <3>1
  <2>2. /\ \A c \in input.chunks : c.source \in {r.key : r \in file.sources}
        /\ \A d \in input.declarations : d.source \in {r.key : r \in file.sources}
    <3>1. CASE input.schema = 3
      <4>1. /\ \A c \in input.chunks : \E s \in input.sources : s.key = c.source
            /\ \A d \in input.declarations : \E s \in input.sources : s.key = d.source
        BY <3>1 DEF Valid, ValidRecords
      <4>2. file.sources = {SourceRow(s, 3) : s \in input.sources}
        BY <1>1, <3>1 DEF StoredSources
      <4>3. \A s \in input.sources : SourceRow(s, 3).key = s.key
        BY DEF SourceRow
      <4> QED
        BY <4>1, <4>2, <4>3
    <3>2. CASE input.schema = 2
      <4> DEFINE noted == {[key |-> c.source, path |-> c.path, meta |-> c.meta] : c \in input.chunks}
      <4>1. file.sources = {SourceRow(s, 2) : s \in noted}
        BY <1>1, <3>2 DEF StoredSources
      <4>2. \A s \in noted : SourceRow(s, 2).key = s.key
        BY DEF SourceRow
      <4>3. ASSUME NEW c \in input.chunks
            PROVE  \E s \in noted : s.key = c.source
        <5>1. [key |-> c.source, path |-> c.path, meta |-> c.meta] \in noted
          OBVIOUS
        <5> QED
          BY <5>1
      <4> HIDE DEF noted
      <4> QED
        BY <3>2, <4>1, <4>2, <4>3
    <3> QED
      BY <3>1, <3>2
  <2>3. \A c \in input.chunks : c.parent # <<>> => c.parent \in {ChunkKey(d) : d \in input.chunks}
    BY DEF Valid, ValidChunks
  <2>4. input.eligible \subseteq {ChunkKey(c) : c \in input.chunks}
    BY DEF Valid, ValidRecords
  <2>5. {r.key : r \in file.vectors} \subseteq {ChunkKey(c) : c \in input.chunks}
    <3>1. \A v \in input.vectors : VectorRow(v, input.space).key = v.chunk
      BY DEF VectorRow
    <3>2. \A v \in input.vectors : v.chunk \in {ChunkKey(c) : c \in input.chunks}
      BY <2>4 DEF Valid, ValidVectors, Targets
    <3> QED
      BY <1>1, <3>1, <3>2
  <2> QED
    BY <1>1, <1>2, <2>1, <2>2, <2>3, <2>4, <2>5 DEF ReferencesHold
<1>6. RowsAgree
  <2>1. \A r \in file.chunks : r = ChunkRow(r.content, input.schema)
    BY <1>1 DEF ChunkRow
  <2>2. \A r \in file.declarations : r = DeclarationRow(r.content)
    BY <1>1 DEF DeclarationRow
  <2>3. input.schema = 3 => \A r \in file.sources : r = SourceRow(r.content, 3)
    BY <1>1 DEF SourceRow, StoredSources
  <2>4. \A r \in file.vectors : r.columns = file.manifest.content.space
    BY <1>1 DEF VectorRow, Manifest
  <2> QED
    BY <2>1, <2>2, <2>3, <2>4 DEF RowsAgree
<1>7. TextsAgree(Reread.chunks)
  <2>1. Cardinality(file.texts) = Cardinality(input.chunks)
    BY <1>1, AsManyTexts DEF Valid
  <2>2. TextsOf(file.texts) = {TextRow(c) : c \in input.chunks}
    BY <1>1, NumberedTexts
  <2> QED
    BY <1>4, <2>1, <2>2 DEF TextsAgree
<1>8. CASE input.schema = 2
  <2>1. NotesVerified
    <3>1. /\ ValidChunks(input.chunks)
          /\ Cardinality(input.chunks) = Manifest(input).chunks
          /\ Manifest(input).digest = <<input.chunks, input.vectors>>
          /\ Manifest(input).space = input.space
          /\ Manifest(input).sources = Cardinality({c.source : c \in input.chunks})
      BY <1>8 DEF Valid, Manifest
    <3>2. Cardinality(StoredSources(input)) = Manifest(input).sources
      BY <1>8, <3>1, AsManySources
    <3>3. CASE input.space = NoSpace
      <4>1. file.vectors = {}
        BY <1>1, <3>3 DEF Valid, ValidVectors
      <4> QED
        BY <1>1, <1>4, <3>1, <3>2, <3>3, <4>1 DEF NotesVerified
    <3>4. CASE input.space # NoSpace
      <4>1. \A r \in file.vectors : Len(r.content) = input.space.dimensions
        BY <1>1, <3>4 DEF Valid, ValidVectors, VectorRow
      <4>2. Cardinality(file.vectors) = Cardinality(input.chunks)
        BY <1>1, <1>8, <3>4, AsManyVectors
      <4> QED
        BY <1>1, <1>4, <3>1, <3>2, <3>4, <4>1, <4>2 DEF NotesVerified
    <3> QED
      BY <3>3, <3>4
  <2> QED
    BY <1>1, <1>5, <1>6, <1>7, <1>8, <2>1 DEF Verified
<1>9. CASE input.schema = 3
  <2>1. RecordsVerified
    BY <1>1, <1>4 DEF RecordsVerified
  <2> QED
    BY <1>1, <1>5, <1>6, <1>7, <1>9, <2>1 DEF Verified
<1> QED
  BY <1>8, <1>9

\* Digest, columns and counts leave no room for another row of any table.
LEMMA VerifiedIsBuilt ==
  ASSUME input \in Inputs, Valid(input), HasTables, Verified
  PROVE  LET built == Tables(input) IN
         /\ \A table \in DOMAIN built \ {"texts"} : file[table] = built[table]
         /\ TextsOf(file.texts) \subseteq TextsOf(built.texts)
         /\ Cardinality(file.texts) = Cardinality(built.texts)
         /\ input.schema = 3 => TextsOf(file.texts) = TextsOf(built.texts)
<1> DEFINE built == Tables(input)
<1>1. /\ built.manifest = [columns |-> Manifest(input), content |-> Manifest(input)]
      /\ built.sources = StoredSources(input)
      /\ built.declarations = {DeclarationRow(d) : d \in input.declarations}
      /\ built.chunks = {ChunkRow(c, input.schema) : c \in input.chunks}
      /\ built.texts = {Numbered(TextRow(c), 0) : c \in input.chunks}
      /\ built.vectors = {VectorRow(v, input.space) : v \in input.vectors}
      /\ built.eligible = input.eligible
      /\ DOMAIN built = AllTables
  BY DEF Tables, AllTables, RowTables
<1>2. /\ file.manifest.columns = Manifest(input) /\ file.manifest.content = Manifest(input)
      /\ Manifest(input).space = input.space
  BY DEF Verified, Manifest
<1>3. file.manifest = built.manifest
  BY <1>1, <1>2 DEF HasTables
\* The digest is of what the tables hold.
<1>4. /\ Contents(file.chunks) = input.chunks
      /\ {[chunk |-> r.key, value |-> r.content] : r \in file.vectors} = input.vectors
      /\ Contents(file.declarations) = input.declarations
      /\ file.eligible = input.eligible
      /\ input.schema = 3 => Contents(file.sources) = input.sources
  <2>1. /\ Reread.chunks = Contents(file.chunks)
        /\ Reread.vectors = {[chunk |-> r.key, value |-> r.content] : r \in file.vectors}
        /\ Reread.declarations = Contents(file.declarations)
        /\ Reread.eligible = file.eligible
        /\ Reread.schema = input.schema
        /\ input.schema = 3 => Reread.sources = Contents(file.sources)
    BY DEF Reread
  <2>2. CASE input.schema = 2
    <3>1. Manifest(input).digest = <<Reread.chunks, Reread.vectors>>
      BY <1>2, <2>2 DEF Verified, NotesVerified
    <3>2. Manifest(input).digest = <<input.chunks, input.vectors>>
      BY <2>2 DEF Manifest
    <3>3. input.declarations = {} /\ input.eligible = {}
      BY <2>2
    <3>4. Reread.chunks = input.chunks /\ Reread.vectors = input.vectors
      BY <3>1, <3>2
    <3>5. file.declarations = {} /\ file.eligible = {}
      BY <2>2 DEF HasTables
    <3>6. Contents(file.declarations) = {}
      BY <3>5 DEF Contents
    <3> QED
      BY <2>1, <2>2, <3>3, <3>4, <3>5, <3>6
  <2>3. CASE input.schema = 3
    <3>1. Manifest(Reread) = Manifest(input)
      BY <1>2, <2>3 DEF Verified, RecordsVerified
    <3>2. Manifest(Reread).digest = <<Reread.chunks, Reread.vectors, Reread.sources,
                                      Reread.declarations, Reread.eligible>>
      BY <2>1, <2>3 DEF Manifest
    <3>3. Manifest(input).digest = <<input.chunks, input.vectors, input.sources,
                                     input.declarations, input.eligible>>
      BY <2>3 DEF Manifest
    <3> QED
      BY <2>1, <2>3, <3>1, <3>2, <3>3
  <2> QED
    BY <2>2, <2>3
<1>5. file.chunks = built.chunks /\ file.declarations = built.declarations
  BY <1>1, <1>4 DEF Verified, RowsAgree, Contents
<1>6. file.vectors = built.vectors
  <2>1. \A r \in file.vectors :
          r = VectorRow([chunk |-> r.key, value |-> r.content], input.space)
    <3>1. \A r \in file.vectors : IsRow(r)
      BY DEF HasTables, RowTables
    <3>2. \A r \in file.vectors : r.columns = input.space
      BY <1>2 DEF Verified, RowsAgree
    <3> QED
      BY <3>1, <3>2 DEF IsRow, VectorRow
  <2>2. \A r \in file.vectors : [chunk |-> r.key, value |-> r.content] \in input.vectors
    BY <1>4
  <2>3. \A v \in input.vectors : \E r \in file.vectors : v = [chunk |-> r.key, value |-> r.content]
    BY <1>4
  <2>4. file.vectors = {VectorRow(v, input.space) : v \in input.vectors}
    <3>1. \A r \in file.vectors : \E v \in input.vectors : r = VectorRow(v, input.space)
      BY <2>1, <2>2
    <3>2. \A v \in input.vectors : VectorRow(v, input.space) \in file.vectors
      <4>1. TAKE v \in input.vectors
      <4>2. PICK r \in file.vectors : v = [chunk |-> r.key, value |-> r.content]
        BY <2>3
      <4> QED
        BY <2>1, <4>2
    <3> QED
      BY <3>1, <3>2
  <2> QED
    BY <1>1, <2>4
<1>7. file.sources = built.sources
  <2>1. CASE input.schema = 3
    <3>1. built.sources = {SourceRow(s, 3) : s \in input.sources}
      BY <1>1, <2>1 DEF StoredSources
    <3>2. \A r \in file.sources : r = SourceRow(r.content, 3)
      BY <2>1 DEF Verified, RowsAgree
    <3> QED
      BY <1>4, <2>1, <3>1, <3>2 DEF Contents
  <2>2. CASE input.schema = 2
    <3>1. /\ file.sources \subseteq StoredSources(Reread)
          /\ Cardinality(file.sources) = Cardinality(StoredSources(Reread))
      BY <2>2 DEF Verified, NotesVerified
    <3>2. StoredSources(Reread) = StoredSources(input)
      <4>1. Reread.chunks = input.chunks /\ Reread.schema = input.schema
        BY <1>4 DEF Reread
      <4> QED
        BY <2>2, <4>1 DEF StoredSources
    <3>3. IsFiniteSet(StoredSources(input))
      BY <2>2, AsManySources DEF Valid
    <3> QED
      BY <1>1, <3>1, <3>2, <3>3, FS_Subset
  <2> QED
    BY <2>1, <2>2
<1>8. /\ TextsOf(built.texts) = {TextRow(c) : c \in input.chunks}
      /\ Cardinality(built.texts) = Cardinality(input.chunks)
  <2>1. Cardinality(built.texts) = Cardinality(input.chunks)
    BY <1>1, AsManyTexts DEF Valid
  <2> QED
    BY <1>1, <2>1, NumberedTexts
<1>9. /\ Cardinality(file.texts) = Cardinality(input.chunks)
      /\ IF input.schema = 3 THEN TextsOf(file.texts) = {TextRow(c) : c \in input.chunks}
                             ELSE TextsOf(file.texts) \subseteq {TextRow(c) : c \in input.chunks}
  <2>1. TextsAgree(input.chunks)
    BY <1>4 DEF Verified, Reread
  <2> QED
    BY <2>1 DEF TextsAgree
<1>10. \A table \in AllTables \ {"texts"} : file[table] = built[table]
  BY <1>1, <1>3, <1>4, <1>5, <1>6, <1>7 DEF AllTables, RowTables
<1> HIDE DEF built
<1> QED
  BY <1>1, <1>8, <1>9, <1>10 DEF built

-----------------------------------------------------------------------------
(* The invariant of the file. *)

\* A file that nobody touches stays what it is.
LEMMA FileStays ==
  ASSUME UNCHANGED <<input, file>>
  PROVE  HasTables' = HasTables /\ Verified' = Verified
<1>1. HasTables' = HasTables
  BY DEF HasTables
<1>2. Reread' = Reread
  BY DEF Reread
<1>3. ReferencesHold' = ReferencesHold /\ RowsAgree' = RowsAgree
  BY DEF ReferencesHold, RowsAgree
<1>4. TextsAgree(Reread.chunks)' = TextsAgree(Reread.chunks)
  BY <1>2 DEF TextsAgree
<1>5. NotesVerified' = NotesVerified /\ RecordsVerified' = RecordsVerified
  BY <1>2 DEF NotesVerified, RecordsVerified
<1> QED
  BY <1>1, <1>2, <1>3, <1>4, <1>5 DEF Verified

\* The invariant is kept by building, by damage and by opening.
LEMMA FileStep == FileInv /\ [FileNext]_fileVars => FileInv'
<1> SUFFICES ASSUME FileInv, [FileNext]_fileVars PROVE FileInv'
  OBVIOUS
<1>1. CASE Build
  <2>1. input' = input /\ Valid(input) /\ outcome' = "built"
    BY <1>1 DEF Build
  <2>2. HasTables'
    BY <1>1, BuiltHasTables DEF FileInv
  <2> QED
    BY <2>1, <2>2 DEF FileInv
<1>2. CASE Reject
  BY <1>2 DEF Reject, FileInv
<1>3. CASE Alter
  BY <1>3, AlterKeepsTables DEF Alter, FileInv
<1>4. CASE Open \/ Refuse \/ UNCHANGED fileVars
  <2>1. UNCHANGED <<input, file>>
    BY <1>4 DEF Open, Refuse, fileVars
  <2>2. HasTables' = HasTables /\ Verified' = Verified
    BY <2>1, FileStays
  <2>3. \/ outcome' = outcome
        \/ outcome = "built" /\ outcome' = "opened" /\ Verified
        \/ outcome = "built" /\ outcome' = "refused" /\ ~Verified
    BY <1>4 DEF Open, Refuse, fileVars
  <2> QED
    BY <2>1, <2>2, <2>3 DEF FileInv
<1> QED
  BY <1>1, <1>2, <1>3, <1>4 DEF FileNext

\* What is opened was built, whatever rows were altered in between, and what
\* nobody altered is not refused.
THEOREM OnlyWhatWasBuiltHolds == FileSpec => []OnlyWhatWasBuilt
<1>1. FileInit => FileInv
  BY DEF FileInit, FileInv
<1>2. FileInv => OnlyWhatWasBuilt
  BY UnalteredOpens, VerifiedIsBuilt DEF FileInv, OnlyWhatWasBuilt
<1> QED
  BY <1>1, <1>2, FileStep, PTL DEF FileSpec
=============================================================================

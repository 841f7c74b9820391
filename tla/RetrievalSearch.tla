---------------------------- MODULE RetrievalSearch ----------------------------
(***************************************************************************)
(* RetrievalCoordinator::search: one search over an opened generation, while *)
(* the notes it indexed are being edited and the two providers it awaits     *)
(* may fail.  The order in which fusion, reranking and diversification rank  *)
(* the candidates is left open: assembly takes them in any order.            *)
(***************************************************************************)
EXTENDS Integers, FiniteSets

CONSTANTS
  Chunk,
  Sources,            \* how many sources there are; a source is 1..Sources
  SourceOf(_),        \* the source of a chunk
  First(_), Last(_),  \* its interval of the source: First..Last-1
  ParentOf(_),        \* its parent chunk, or NoChunk
  NoChunk,
  Limit,              \* request.limit
  MaxResultBytes,
  MaxParentBytes,
  SmallChunk,         \* below it a child is given its parent's text; 0: parents
                      \* are not asked for
  Position            \* where a match may start

Source == 1..Sources

ASSUME SearchAssumption ==
  /\ NoChunk \notin Chunk
  /\ Sources \in Nat
  /\ Position \subseteq Nat
  /\ Limit \in Nat /\ MaxResultBytes \in Nat
  /\ \A c \in Chunk : /\ SourceOf(c) \in Source
                      /\ First(c) \in Nat /\ Last(c) \in Nat
                      /\ First(c) < Last(c)
                      /\ ParentOf(c) \in Chunk \cup {NoChunk}

VARIABLES
  allowed,      \* the chunks that filters and policy let through
  matches,      \* the matches that are found in each chunk
  vector,       \* what the request and the projection say of the vector stage
  reranker,     \* is there a reranker?
  live,         \* is the source on disk the one that was indexed?
  stage,        \* where the search is
  toRead,       \* sources still to be verified
  verified,     \* sources read and found unchanged
  stale,        \* was one found missing or changed, or declared so?
  ranked,       \* candidates found
  remaining,    \* and not looked at by the assembly yet
  disclosed,    \* chunks whose text the reranker was given
  hits,         \* [chunk, spans, parent]
  resultBytes,
  claimed       \* matched spans given as evidence

requestVars == <<allowed, matches, vector, reranker>>
readVars == <<toRead, verified, stale>>
resultVars == <<hits, resultBytes, claimed>>
vars == <<requestVars, live, stage, readVars, ranked, remaining, disclosed, resultVars>>

Size(c) == Last(c) - First(c)
ChunksOf(s) == {c \in Chunk : SourceOf(c) = s}

Span == Source \X Position

\* Two chunks that overlap need not find the same matches in what they share:
\* each is scanned from its own start, and the scan has caps.
Spans(c) == {<<SourceOf(c), i>> : i \in matches[c]}

Overlap(c, d) ==
  /\ SourceOf(c) = SourceOf(d)
  /\ First(c) < Last(d) /\ First(d) < Last(c)

Eligible == {c \in Chunk : SourceOf(c) \in verified}

TypeOK ==
  /\ allowed \subseteq Chunk
  /\ matches \in [Chunk -> SUBSET Position]
  /\ vector \in {"disabled", "unavailable", "mismatch", "ready"}
  /\ reranker \in BOOLEAN
  /\ live \subseteq Source
  /\ stage \in {"policy", "read", "lexical", "semantic", "rerank", "assemble",
                "answered", "failed"}
  /\ toRead \subseteq Source /\ verified \subseteq Source
  /\ stale \in BOOLEAN
  /\ ranked \subseteq Chunk /\ remaining \subseteq Chunk /\ disclosed \subseteq Chunk
  /\ hits \subseteq [chunk : Chunk, spans : SUBSET Span, parent : Chunk \cup {NoChunk}]
  /\ resultBytes \in 0..MaxResultBytes
  /\ claimed \subseteq Span

Init ==
  /\ allowed \in SUBSET Chunk
  /\ matches \in {m \in [Chunk -> SUBSET Position] :
                    \A c \in Chunk : m[c] \subseteq First(c)..Last(c) - 1}
  /\ vector \in {"disabled", "unavailable", "mismatch", "ready"}
  /\ reranker \in BOOLEAN
  /\ live \in SUBSET Source
  /\ stage = "policy"
  /\ toRead = {} /\ verified = {} /\ stale \in BOOLEAN
  /\ ranked = {} /\ remaining = {} /\ disclosed = {}
  /\ hits = {} /\ resultBytes = 0 /\ claimed = {}

-----------------------------------------------------------------------------
\* A note is edited, removed, or restored.
Edit(s) ==
  /\ live' = IF s \in live THEN live \ {s} ELSE live \cup {s}
  /\ UNCHANGED <<requestVars, stage, readVars, ranked, remaining, disclosed, resultVars>>

\* Mutant of PolicyEligible: one allowed chunk makes the source eligible.
PolicyEligible_AnyChunk == {s \in Source : \E c \in ChunksOf(s) : c \in allowed}

\* A source with a chunk that is filtered out or not allowed is left out whole.
PolicyEligible == {s \in Source : ChunksOf(s) # {} /\ ChunksOf(s) \subseteq allowed}

ApplyPolicy ==
  /\ stage = "policy"
  /\ toRead' = PolicyEligible
  /\ stage' = "read"
  /\ UNCHANGED <<requestVars, live, verified, stale, ranked, remaining, disclosed, resultVars>>

NextSource(s) == s \in toRead /\ \A t \in toRead : s <= t

\* Mutant of ReadSource: a source that cannot be verified is left out silently.
ReadSource_Silent(s) ==
  /\ stage = "read" /\ NextSource(s)
  /\ toRead' = toRead \ {s}
  /\ verified' = IF s \in live THEN verified \cup {s} ELSE verified
  /\ UNCHANGED <<requestVars, live, stage, stale, ranked, remaining, disclosed, resultVars>>

\* The bytes read here are the ones every later step works on.
ReadSource(s) ==
  /\ stage = "read" /\ NextSource(s)
  /\ toRead' = toRead \ {s}
  /\ IF s \in live THEN verified' = verified \cup {s} /\ UNCHANGED stale
                   ELSE stale' = TRUE /\ UNCHANGED verified
  /\ UNCHANGED <<requestVars, live, stage, ranked, remaining, disclosed, resultVars>>

SourcesRead ==
  /\ stage = "read" /\ toRead = {}
  /\ stage' = "lexical"
  /\ UNCHANGED <<requestVars, live, readVars, ranked, remaining, disclosed, resultVars>>

Lexical ==
  /\ stage = "lexical"
  /\ \E found \in SUBSET Eligible : ranked' = found
  /\ stage' = "semantic"
  /\ UNCHANGED <<requestVars, live, readVars, remaining, disclosed, resultVars>>

\* A projection of another vector space is an error; anything else that goes
\* wrong with the provider only leaves the semantic candidates out.
Semantic ==
  /\ stage = "semantic"
  /\ IF vector = "mismatch"
     THEN stage' = "failed" /\ UNCHANGED ranked
     ELSE /\ stage' = "rerank"
          /\ \E found \in SUBSET (IF vector = "ready" THEN Eligible ELSE {}) :
               ranked' = ranked \cup found
  /\ UNCHANGED <<requestVars, live, readVars, remaining, disclosed, resultVars>>

\* The reranker sees the text of every candidate; whatever it answers, the
\* candidates stay the same.
Rerank ==
  /\ stage = "rerank"
  /\ disclosed' = IF reranker THEN ranked ELSE {}
  /\ remaining' = ranked
  /\ stage' = "assemble"
  /\ UNCHANGED <<requestVars, live, readVars, ranked, resultVars>>

-----------------------------------------------------------------------------
(* Assembly, one candidate after another. *)

HasRoom == Cardinality(hits) < Limit

\* Mutant of Duplicate: only matched spans are compared.
Duplicate_SpansOnly(c) == Spans(c) # {} /\ Spans(c) \subseteq claimed

\* deduplicate_overlap_evidence has nothing left to show for this candidate.
Duplicate(c) ==
  IF Spans(c) # {} THEN Spans(c) \subseteq claimed
                   ELSE \E h \in hits : Overlap(c, h.chunk)

Fits(bytes) == resultBytes + bytes <= MaxResultBytes

\* Mutant of Parent: the parent is added whatever the budget says.
Parent_Unbounded(c) ==
  IF /\ ParentOf(c) \in Eligible
     /\ Size(c) < SmallChunk /\ Size(ParentOf(c)) <= MaxParentBytes
  THEN ParentOf(c) ELSE NoChunk

\* The parent context of a small hit, when it is eligible itself and fits.
Parent(c) ==
  IF /\ ParentOf(c) \in Eligible
     /\ Size(c) < SmallChunk /\ Size(ParentOf(c)) <= MaxParentBytes
     /\ Fits(Size(c) + Size(ParentOf(c)))
  THEN ParentOf(c) ELSE NoChunk

HitBytes(h) == Size(h.chunk) + IF h.parent = NoChunk THEN 0 ELSE Size(h.parent)

\* Mutant of Skip: evidence is claimed before the budget is looked at.
Skip_Claims(c) ==
  /\ stage = "assemble" /\ c \in remaining /\ HasRoom
  /\ Duplicate(c) \/ ~Fits(Size(c))
  /\ remaining' = remaining \ {c}
  /\ claimed' = claimed \cup Spans(c)
  /\ UNCHANGED <<requestVars, live, stage, readVars, ranked, disclosed, hits, resultBytes>>

\* Mutant of Skip: a candidate over the budget ends the assembly.
Skip_Breaks(c) ==
  /\ stage = "assemble" /\ c \in remaining /\ HasRoom
  /\ Duplicate(c) \/ ~Fits(Size(c))
  /\ remaining' = IF Duplicate(c) THEN remaining \ {c} ELSE {}
  /\ UNCHANGED <<requestVars, live, stage, readVars, ranked, disclosed, resultVars>>

Skip(c) ==
  /\ stage = "assemble" /\ c \in remaining /\ HasRoom
  /\ Duplicate(c) \/ ~Fits(Size(c))
  /\ remaining' = remaining \ {c}
  /\ UNCHANGED <<requestVars, live, stage, readVars, ranked, disclosed, resultVars>>

TakeHit(c) ==
  /\ stage = "assemble" /\ c \in remaining /\ HasRoom
  /\ ~Duplicate(c) /\ Fits(Size(c))
  /\ LET hit == [chunk |-> c, spans |-> Spans(c) \ claimed, parent |-> Parent(c)] IN
       /\ hits' = hits \cup {hit}
       /\ resultBytes' = resultBytes + HitBytes(hit)
       /\ claimed' = claimed \cup hit.spans
  /\ remaining' = remaining \ {c}
  /\ UNCHANGED <<requestVars, live, stage, readVars, ranked, disclosed>>

Answer ==
  /\ stage = "assemble" /\ (remaining = {} \/ ~HasRoom)
  /\ stage' = "answered"
  /\ UNCHANGED <<requestVars, live, readVars, ranked, remaining, disclosed, resultVars>>

Next ==
  \/ \E s \in Source : Edit(s) \/ ReadSource(s)
  \/ ApplyPolicy \/ SourcesRead \/ Lexical \/ Semantic \/ Rerank \/ Answer
  \/ \E c \in Chunk : Skip(c) \/ TakeHit(c)

Spec == Init /\ [][Next]_vars

-----------------------------------------------------------------------------
\* Sources all of whose chunks may be shown, and which were unchanged when read.
MayLeave(c) == ChunksOf(SourceOf(c)) \subseteq allowed /\ SourceOf(c) \in verified

\* No text of a source with a hidden chunk, or of one that was not verified,
\* reaches the reranker or the result, not even as the parent of a hit.
OnlyEligibleLeaves ==
  \A c \in disclosed
           \cup {h.chunk : h \in hits}
           \cup ({h.parent : h \in hits} \ {NoChunk}) : MayLeave(c)

\* A result called fresh left no source out for being changed.
FreshIsComplete ==
  stage = "answered" /\ ~stale => PolicyEligible = verified

\* Evidence is shown once: no matched span is in two hits, and hits without
\* matched spans do not repeat each other.
EvidenceOnce ==
  \A g, h \in hits : g # h =>
    /\ g.spans \cap h.spans = {}
    /\ g.spans = {} /\ h.spans = {} => ~Overlap(g.chunk, h.chunk)

\* Evidence counts as shown only if a hit shows it; a candidate that did not
\* fit must not silence one that repeats it.
ClaimedIsShown == claimed = UNION {h.spans : h \in hits}

\* The bytes a hit shows: those of its chunk, and those of its parent again
\* as context.
ShownBy(h) ==
  {<<h, "chunk", i>> : i \in First(h.chunk)..Last(h.chunk) - 1}
  \cup IF h.parent = NoChunk
       THEN {} ELSE {<<h, "parent", i>> : i \in First(h.parent)..Last(h.parent) - 1}

Shown == UNION {ShownBy(h) : h \in hits}

\* The texts of hits and parents together stay within the budget.
ResultFits == Cardinality(Shown) <= MaxResultBytes

\* With room for more hits, a candidate is left out only because it shows
\* nothing new or would not fit.
NothingLost ==
  stage = "answered" /\ HasRoom =>
    \A c \in ranked \ {h.chunk : h \in hits} : Duplicate(c) \/ ~Fits(Size(c))
=============================================================================

---------------------------- MODULE TemporalSearch ----------------------------
(***************************************************************************)
(* GkxRetrievalCoordinator::search: a search at an instant, over the        *)
(* records and declarations of GKOS Full.  Source policy and filters, then  *)
(* the chunk policy, then the authorized view decide what may be looked at; *)
(* only then are live sources read and providers asked.                     *)
(***************************************************************************)
EXTENDS AuthorizedView, FiniteSetsExt

CONSTANTS
  NoChunk, ParentOf(_),
  Spans(_),               \* the matches a chunk shows
  Overlap(_, _),
  Limit,
  BaseBytes,              \* of an answer without hits, as canonical JSON
  HitBytes(_),            \* of a hit, and of a parent added to one
  MaxResultBytes,
  Denials,                \* sets of chunks that the chunk policy may not allow
  Embeddings              \* <<chunks that a projection may have vectors of>>, or
                          \* <<>> for one without vectors

ASSUME TemporalAssumption ==
  /\ NoChunk \notin Chunk
  /\ \A c \in Chunk : HitBytes(c) \in Nat /\ ParentOf(c) \in Chunk \cup {NoChunk}
  /\ Denials \subseteq SUBSET Chunk
  /\ Embeddings \subseteq {<<>>} \cup {<<C>> : C \in SUBSET Chunk}
  /\ Limit \in Nat /\ BaseBytes \in Nat /\ MaxResultBytes \in Nat

VARIABLES
  declared,       \* the declarations stored with the records
  admitted,       \* records let through by source policy and filters
  denied,         \* chunks the chunk policy does not allow
  asOf,           \* the instant asked for, or NoTime
  embedded,       \* what the projection has vectors of
  stage,
  authorized,     \* records that may be looked at
  toRead, live,   \* records to be read, and found unchanged
  stale,
  ranked, remaining,
  disclosed,      \* chunks whose text the reranker was given
  asked,          \* did the query leave for a provider?
  hits            \* [chunk, parent]

requestVars == <<declared, admitted, denied, asOf, embedded>>
readVars == <<toRead, live, stale>>
rankVars == <<ranked, remaining, disclosed, asked, hits>>
vars == <<requestVars, stage, authorized, readVars, rankVars>>

ChunksOf(r) == {c \in Chunk : RecordOf(c) = r}
Valid == Eligible(authorized, declared, asOf)
EligibleChunks == {c \in Chunk : RecordOf(c) \in Valid}
LiveChunks == {c \in Chunk : RecordOf(c) \in live}

Init ==
  /\ declared \in SUBSET Declaration
  /\ admitted \in SUBSET Record
  /\ denied \in Denials
  /\ asOf \in Instant \cup {NoTime}
  /\ embedded \in Embeddings
  /\ stage = "policy"
  /\ authorized = {} /\ toRead = {} /\ live = {} /\ stale = FALSE
  /\ ranked = {} /\ remaining = {} /\ disclosed = {} /\ asked = FALSE /\ hits = {}

-----------------------------------------------------------------------------
\* Mutant of ApplyPolicies: one allowed chunk is enough.
ApplyPolicies_AnyChunk ==
  /\ stage = "policy"
  /\ authorized' = {r \in admitted : ChunksOf(r) = {} \/ ~(ChunksOf(r) \subseteq denied)}
  /\ stage' = "view"
  /\ UNCHANGED <<requestVars, readVars, rankVars>>

\* A record with a denied chunk is left out whole; one without chunks is not.
ApplyPolicies ==
  /\ stage = "policy"
  /\ authorized' = {r \in admitted : ChunksOf(r) \cap denied = {}}
  /\ stage' = "view"
  /\ UNCHANGED <<requestVars, readVars, rankVars>>

\* Vectors of a projection must cover every chunk of the view, live or not.
Covered == embedded # <<>> => EligibleChunks \subseteq embedded[1]

\* Mutant of BuildView: the vectors are looked at when the search gets there.
BuildView_NoCover ==
  /\ stage = "view"
  /\ IF Conflict(authorized, declared, asOf) THEN stage' = "failed" /\ UNCHANGED toRead
     ELSE IF Coverage(authorized, declared, asOf) \in {"not_evaluated", "insufficient"}
     THEN stage' = "empty" /\ UNCHANGED toRead
     ELSE stage' = "read" /\ toRead' = {RecordOf(c) : c \in EligibleChunks}
  /\ UNCHANGED <<requestVars, authorized, live, stale, rankVars>>

BuildView ==
  /\ stage = "view"
  /\ IF Conflict(authorized, declared, asOf) THEN stage' = "failed" /\ UNCHANGED toRead
     ELSE IF Coverage(authorized, declared, asOf) \in {"not_evaluated", "insufficient"}
     THEN stage' = "empty" /\ UNCHANGED toRead
     ELSE IF ~Covered THEN stage' = "failed" /\ UNCHANGED toRead
     ELSE stage' = "read" /\ toRead' = {RecordOf(c) : c \in EligibleChunks}
  /\ UNCHANGED <<requestVars, authorized, live, stale, rankVars>>

\* The note of a record is as it was indexed, or it is not: changed or gone.
\* What is read here is what every later step works on.
ReadRecord(r) ==
  /\ stage = "read" /\ r \in toRead
  /\ toRead' = toRead \ {r}
  /\ \/ live' = live \cup {r} /\ UNCHANGED stale
     \/ stale' = TRUE /\ UNCHANGED live
  /\ UNCHANGED <<requestVars, stage, authorized, rankVars>>

RecordsRead ==
  /\ stage = "read" /\ toRead = {}
  /\ stage' = IF live = {} THEN "empty" ELSE "rank"
  /\ UNCHANGED <<requestVars, authorized, readVars, rankVars>>

\* The lexical and the semantic candidates.  A provider of another vector space
\* than the projection is an error; without a provider or vectors, or when the
\* provider fails, the semantic candidates are left out.
Rank ==
  /\ stage = "rank"
  /\ \/ embedded # <<>> /\ stage' = "failed" /\ UNCHANGED <<ranked, asked>>
     \/ /\ stage' = "rerank"
        /\ asked' \in {FALSE, embedded # <<>>}
        /\ ranked' \in SUBSET LiveChunks
  /\ UNCHANGED <<requestVars, authorized, readVars, remaining, disclosed, hits>>

\* The reranker, where there is one, sees every candidate.  An answer that is
\* late, short, doubled or not of these candidates is not used; any other only
\* orders them.
Rerank ==
  /\ stage = "rerank"
  /\ \E reranker \in BOOLEAN :
        /\ disclosed' = IF reranker THEN ranked ELSE {}
        /\ asked' = (asked \/ reranker)
  /\ remaining' = ranked
  /\ stage' = "assemble"
  /\ UNCHANGED <<requestVars, authorized, readVars, ranked, hits>>

-----------------------------------------------------------------------------
(* Assembly.  Every candidate is tried with the answer as it would then be. *)

Shown == UNION {Spans(h.chunk) : h \in hits}

Duplicate(c) ==
  IF Spans(c) # {} THEN Spans(c) \subseteq Shown
                   ELSE \E h \in hits : Overlap(c, h.chunk)

\* build_public_provenance checks what the view decided once more.
Publishable(c) ==
  asOf # NoTime => ValidAt(Edges(declared, Known(authorized, asOf)), RecordOf(c), asOf)

JsonBytes(H) ==
  BaseBytes + MapThenSumSet(LAMBDA h : HitBytes(h.chunk)
                 + IF h.parent = NoChunk THEN 0 ELSE HitBytes(h.parent), H)

\* parent: what the request, the size of the child and of its parent allow to
\* add.  It is dropped when the answer is too large with it.
AddHit(c, parent) ==
  /\ stage = "assemble" /\ c \in remaining /\ Cardinality(hits) < Limit
  /\ ~Duplicate(c)
  /\ stage' = IF Publishable(c) THEN stage ELSE "failed"
  /\ parent \in {NoChunk, IF ParentOf(c) \in LiveChunks THEN ParentOf(c) ELSE NoChunk}
  /\ LET fits(p) == JsonBytes(hits \cup {[chunk |-> c, parent |-> p]}) <= MaxResultBytes IN
       hits' = IF fits(parent) THEN hits \cup {[chunk |-> c, parent |-> parent]}
               ELSE IF fits(NoChunk) THEN hits \cup {[chunk |-> c, parent |-> NoChunk]}
               ELSE hits
  /\ remaining' = remaining \ {c}
  /\ UNCHANGED <<requestVars, authorized, readVars, ranked, disclosed, asked>>

SkipDuplicate(c) ==
  /\ stage = "assemble" /\ c \in remaining /\ Cardinality(hits) < Limit
  /\ Duplicate(c)
  /\ remaining' = remaining \ {c}
  /\ UNCHANGED <<requestVars, stage, authorized, readVars, ranked, disclosed, asked, hits>>

Answer ==
  /\ stage = "assemble" /\ (remaining = {} \/ Cardinality(hits) >= Limit)
  /\ stage' = "answered"
  /\ UNCHANGED <<requestVars, authorized, readVars, rankVars>>

Next ==
  \/ ApplyPolicies \/ BuildView \/ RecordsRead \/ Rank \/ Rerank \/ Answer
  \/ \E r \in Record : ReadRecord(r)
  \/ \E c \in Chunk : SkipDuplicate(c) \/ \E p \in Chunk \cup {NoChunk} : AddHit(c, p)

Spec == Init /\ [][Next]_vars

-----------------------------------------------------------------------------
\* What a provider or the caller is given is of a record that policy lets
\* through whole, that was read unchanged, and that holds at the instant.
OnlyVisibleLeaves ==
  \A c \in disclosed \cup {h.chunk : h \in hits} \cup ({h.parent : h \in hits} \ {NoChunk}) :
    /\ RecordOf(c) \in admitted /\ ChunksOf(RecordOf(c)) \cap denied = {}
    /\ RecordOf(c) \in live
    /\ asOf # NoTime => ValidFrom(RecordOf(c)) <= asOf

\* "The complete temporal view must be covered before any live source bytes or
\* query text can cross an I/O or provider boundary."
IOAfterCoverage ==
  (live # {} \/ stale \/ asked) =>
    /\ ~Conflict(authorized, declared, asOf)
    /\ Coverage(authorized, declared, asOf) \in {"not_requested", "sufficient"}
    /\ Covered

\* At an instant, a record that is superseded by one the caller sees and that
\* holds by then is not shown beside it.
SupersededIsHidden ==
  asOf # NoTime =>
    \A c \in disclosed \cup {h.chunk : h \in hits} :
      \A e \in Edges(declared, Known(authorized, asOf)) : e[2] # RecordOf(c)

\* A record later than the instant changes nothing: where there is an answer
\* without it, its arrival and its declarations leave that answer as it was.
HistoryIsStable ==
  LET past == Included(authorized, asOf) IN
  asOf # NoTime /\ stage = "view" /\ ~Conflict(past, declared, asOf) =>
    /\ ~Conflict(authorized, declared, asOf)
    /\ View(authorized, declared, asOf) = View(past, declared, asOf)

\* The provenance that a view without an instant gives its records says the
\* same of every instant when it is asked by its lineage and by its intervals.
PointInTimeAgrees ==
  LET E == Edges(declared, authorized) IN
  stage = "view" /\ ~Conflict(authorized, declared, NoTime) =>
    \A at \in Instant : ScopedValid(authorized, E, at) = StoredValid(authorized, E, at)
=============================================================================

----------------------------- MODULE TemporalProof -----------------------------
(***************************************************************************)
(* What a search at an instant may show, and that the instant alone decides *)
(* it, for any records, declarations, policies and limits.                   *)
(***************************************************************************)
EXTENDS TemporalSearch, FiniteSetTheorems, TLAPS

USE ViewAssumption, TemporalAssumption

-----------------------------------------------------------------------------
(* The authorized view. *)

\* Only what is looked at counts: what is later than the instant is not.
LEMMA KnownIsIncluded ==
  ASSUME NEW S \in SUBSET Record, NEW at \in Instant
  PROVE  /\ Known(Included(S, at), at) = Known(S, at)
         /\ Included(Included(S, at), at) = Included(S, at)
         /\ Included(S, at) \subseteq S
<1>1. \A r \in S : Timed(r) => ValidFrom(r) \in Int /\ at \in Int /\ at # NoTime
  BY DEF Timed
<1> QED
  BY <1>1 DEF Known, Included, Future

\* More records outside the view make more declarations refer to one of them.
LEMMA LaterRecordsBreakNothing ==
  ASSUME NEW S, NEW T \in SUBSET S, NEW K, NEW d, Broken(d, S, K)
  PROVE  Broken(d, T, K)
BY DEF Broken, Suppressed

\* The answer at an instant is that of the records up to it.
LEMMA HistoryLemma ==
  ASSUME NEW S \in SUBSET Record, NEW D, NEW at \in Instant,
         ~Conflict(Included(S, at), D, at)
  PROVE  ~Conflict(S, D, at) /\ View(S, D, at) = View(Included(S, at), D, at)
<1> DEFINE past == Included(S, at)
<1>1. /\ Known(past, at) = Known(S, at) /\ Included(past, at) = past
      /\ past \subseteq S /\ at # NoTime
  BY KnownIsIncluded
<1> HIDE DEF past
<1>2. ~Conflict(S, D, at)
  <2>1. ASSUME NEW d, Broken(d, S, Known(S, at)) PROVE Broken(d, past, Known(past, at))
    BY <1>1, <2>1, LaterRecordsBreakNothing
  <2>2. ~Conflict(past, D, at)
    BY DEF past
  <2> QED
    BY <1>1, <2>1, <2>2 DEF Conflict
<1>3. Eligible(S, D, at) = Eligible(past, D, at)
  BY <1>1 DEF Eligible
<1>4. Coverage(S, D, at) = Coverage(past, D, at)
  BY <1>1, <1>3 DEF Coverage, past
<1>5. View(S, D, at) = View(past, D, at)
  BY <1>1, <1>3, <1>4 DEF View
<1> QED
  BY <1>2, <1>5 DEF past

\* A lineage edge joins two records that are looked at.
LEMMA EdgesAreKnown ==
  ASSUME NEW K, NEW D, NEW e \in Edges(D, K)
  PROVE  e[1] \in K /\ e[2] \in K /\ e = <<e[1], e[2]>>
BY DEF Edges, Edge, Heard

\* Without a conflict the only successor of a record decides where it ends.
LEMMA OneSuccessor ==
  ASSUME NEW S \in SUBSET Record, NEW D, NEW at, ~Conflict(S, D, at),
         NEW r \in Known(S, at), NEW n \in Successors(Edges(D, Known(S, at)), r)
  PROVE  /\ Successors(Edges(D, Known(S, at)), r) = {n}
         /\ n \in Known(S, at)
         /\ Timed(r) /\ Timed(n) => ValidTo(Edges(D, Known(S, at)), r) = ValidFrom(n)
         /\ ~Timed(n) => ValidTo(Edges(D, Known(S, at)), r) = NoTime
<1> DEFINE E == Edges(D, Known(S, at))
           next == Successors(E, r)
<1>1. IsFiniteSet(next)
  BY FS_Subset DEF Successors
<1>2. Cardinality(next) \in Nat /\ ~(Cardinality(next) > 1)
  BY <1>1, FS_CardinalityType DEF Conflict
<1>3. next = {n}
  <2>1. Cardinality(next) # 0
    BY <1>1, FS_EmptySet
  <2>2. Cardinality(next) = 1
    BY <1>2, <2>1
  <2> QED
    BY <1>1, <2>2, FS_Singleton
<1>4. n \in Known(S, at)
  <2>1. <<n, r>> \in Edges(D, Known(S, at))
    BY DEF Successors
  <2> QED
    BY <2>1, EdgesAreKnown
<1>5. {ValidFrom(m) : m \in next} = {ValidFrom(n)}
  BY <1>3
<1>6. Timed(n) => ValidFrom(n) \in Int /\ ValidFrom(n) # NoTime
  BY <1>4 DEF Timed, Known
<1> HIDE DEF next, E
<1>7. Timed(r) /\ Timed(n) => ValidTo(E, r) = ValidFrom(n)
  <2> SUFFICES ASSUME Timed(r), Timed(n) PROVE ValidTo(E, r) = ValidFrom(n)
    OBVIOUS
  <2> DEFINE ends == {ValidFrom(m) : m \in Successors(E, r)} \ {NoTime}
  <2>1. ends = {ValidFrom(n)}
    BY <1>5, <1>6 DEF next
  <2>2. \E t \in ends : \A u \in ends : t <= u
    <3> HIDE DEF ends
    <3>1. ValidFrom(n) \in Int
      BY <1>6
    <3> QED
      BY <2>1, <3>1
  <2>3. (CHOOSE t \in ends : \A u \in ends : t <= u) \in ends
    BY <2>2
  <2> QED
    BY <2>1, <2>3 DEF ValidTo
<1>8. ~Timed(n) => ValidTo(E, r) = NoTime
  BY <1>5 DEF ValidTo, Timed, next
<1> QED
  BY <1>3, <1>4, <1>7, <1>8 DEF next, E

\* A record that is superseded by one looked at at an instant does not hold then.
LEMMA SupersededHasEnded ==
  ASSUME NEW S \in SUBSET Record, NEW D, NEW at \in Instant, ~Conflict(S, D, at),
         NEW r \in Eligible(S, D, at), NEW e \in Edges(D, Known(S, at))
  PROVE  e[2] # r
<1> SUFFICES ASSUME e[2] = r PROVE FALSE
  OBVIOUS
<1> DEFINE n == e[1]
<1>1. at \in Int /\ at # NoTime
  OBVIOUS
<1>2. r \in Known(S, at) /\ ValidAt(Edges(D, Known(S, at)), r, at)
  BY <1>1 DEF Eligible
<1>3. n \in Successors(Edges(D, Known(S, at)), r) /\ n \in Known(S, at)
  <2>1. n \in Known(S, at) /\ e = <<n, r>>
    BY EdgesAreKnown
  <2>2. n \in Record
    BY <2>1 DEF Known
  <2> QED
    BY <2>1, <2>2 DEF Successors
<1>4. Timed(n) /\ Timed(r) /\ ValidFrom(n) <= at
  BY <1>1, <1>2, <1>3 DEF Known
<1>5. ValidTo(Edges(D, Known(S, at)), r) = ValidFrom(n)
  BY <1>2, <1>3, <1>4, OneSuccessor
<1>6. ValidFrom(n) \in Int /\ ValidFrom(n) # NoTime
  BY <1>3, <1>4 DEF Timed, Known
<1> QED
  BY <1>1, <1>2, <1>4, <1>5, <1>6 DEF ValidAt

\* By lineage or by stored interval: a record holds at the same instants.
LEMMA PointInTimeLemma ==
  ASSUME NEW S \in SUBSET Record, NEW D, NEW at \in Instant, ~Conflict(S, D, NoTime)
  PROVE  ScopedValid(S, Edges(D, S), at) = StoredValid(S, Edges(D, S), at)
<1> DEFINE E == Edges(D, S)
<1>1. at \in Int /\ at # NoTime /\ Known(S, NoTime) = S
  BY DEF Known
<1>2. \A r \in S : Timed(r) => ValidFrom(r) \in Int /\ ValidFrom(r) # NoTime
  BY DEF Timed
<1> SUFFICES ASSUME NEW r \in S, Timed(r), ValidFrom(r) <= at
             PROVE  ScopedTo(S, E, r, at) = NoTime \/ at < ScopedTo(S, E, r, at)
                      <=> ValidTo(E, r) = NoTime \/ at < ValidTo(E, r)
  BY <1>1 DEF ScopedValid, StoredValid, ValidAt, Visible
<1> DEFINE ends == {ValidFrom(m) : m \in {k \in Successors(E, r) \cap Visible(S, at) :
                                            ValidFrom(r) <= ValidFrom(k)}}
<1>3. CASE Successors(E, r) = {}
  <2>1. ScopedTo(S, E, r, at) = NoTime
    BY <1>3 DEF ScopedTo
  <2>2. ValidTo(E, r) = NoTime
    BY <1>3 DEF ValidTo
  <2> QED
    BY <2>1, <2>2
<1>4. ASSUME NEW n \in Successors(E, r)
      PROVE  ScopedTo(S, E, r, at) = NoTime \/ at < ScopedTo(S, E, r, at)
               <=> ValidTo(E, r) = NoTime \/ at < ValidTo(E, r)
  <2>1. /\ Successors(E, r) = {n} /\ n \in S
        /\ Timed(n) => ValidTo(E, r) = ValidFrom(n)
        /\ ~Timed(n) => ValidTo(E, r) = NoTime
    BY <1>1, <1>4, OneSuccessor
  <2>2. Timed(n) => ValidFrom(r) <= ValidFrom(n)
    <3>1. <<n, r>> \in E
      BY <1>4 DEF Successors
    <3>2. Timed(n) => ~(ValidFrom(n) < ValidFrom(r))
      BY <1>1, <3>1 DEF Conflict
    <3> QED
      BY <1>2, <2>1, <3>2
  <2>3. CASE Timed(n) /\ ValidFrom(n) <= at
    <3>1. n \in Visible(S, at)
      BY <2>1, <2>3 DEF Visible
    <3>2. ends = {ValidFrom(n)}
      BY <2>1, <2>2, <2>3, <3>1
    <3>3. ScopedTo(S, E, r, at) = ValidFrom(n)
      <4>1. \E t \in ends : \A u \in ends : t <= u
        BY <1>2, <2>1, <2>3, <3>2
      <4>2. (CHOOSE t \in ends : \A u \in ends : t <= u) \in ends
        BY <4>1
      <4> QED
        BY <3>2, <4>2 DEF ScopedTo
    <3> QED
      BY <1>1, <1>2, <2>1, <2>3, <3>3
  <2>4. CASE ~(Timed(n) /\ ValidFrom(n) <= at)
    <3>1. n \notin Visible(S, at)
      BY <1>1, <2>4 DEF Visible
    <3>2. ScopedTo(S, E, r, at) = NoTime
      BY <2>1, <3>1 DEF ScopedTo
    <3> QED
      BY <1>1, <1>2, <2>1, <2>4, <3>2
  <2> QED
    BY <2>3, <2>4
<1> QED
  BY <1>3, <1>4

-----------------------------------------------------------------------------
(* The search. *)

RequestIsTyped ==
  /\ admitted \subseteq Record
  /\ asOf \in Instant \cup {NoTime}
  /\ authorized \subseteq {r \in admitted : ChunksOf(r) \cap denied = {}}

\* Before the view nothing was read, ranked, asked or shown.
NothingEarly ==
  stage \in {"policy", "view"} =>
    /\ toRead = {} /\ live = {} /\ ~stale /\ ~asked
    /\ ranked = {} /\ remaining = {} /\ disclosed = {} /\ hits = {}

ViewHolds ==
  /\ ~Conflict(authorized, declared, asOf)
  /\ Coverage(authorized, declared, asOf) \in {"not_requested", "sufficient"}
  /\ Covered

\* Beyond it, the view had no conflict and was covered.
ViewWasChecked ==
  /\ stage \in {"read", "rank", "rerank", "assemble", "answered"} => ViewHolds
  /\ live # {} \/ stale \/ asked \/ hits # {} \/ disclosed # {} => ViewHolds

\* The search works on records of the view that were read unchanged.
WorksOnView ==
  /\ toRead \cup live \subseteq Valid
  /\ ranked \cup remaining \cup disclosed \subseteq LiveChunks
  /\ \A h \in hits : h.chunk \in LiveChunks /\ h.parent \in LiveChunks \cup {NoChunk}

TemporalInv == RequestIsTyped /\ NothingEarly /\ ViewWasChecked /\ WorksOnView

LEMMA TemporalInit == Init => TemporalInv
BY DEF Init, TemporalInv, RequestIsTyped, NothingEarly, ViewWasChecked, WorksOnView

\* Every chunk has a record, so what is read is of the view.
LEMMA ToReadIsValid == {RecordOf(c) : c \in EligibleChunks} \subseteq Valid
BY DEF EligibleChunks

\* What the view is made of stays once the policies were applied.
LEMMA ViewStays ==
  ASSUME UNCHANGED <<requestVars, authorized>>
  PROVE  /\ Valid' = Valid /\ (ViewHolds' <=> ViewHolds)
         /\ RequestIsTyped' <=> RequestIsTyped
BY DEF requestVars, Valid, ViewHolds, Covered, EligibleChunks, RequestIsTyped

\* Each step keeps the invariant.
LEMMA TemporalStep == TemporalInv /\ [Next]_vars => TemporalInv'
<1> SUFFICES ASSUME TemporalInv, [Next]_vars PROVE TemporalInv'
  OBVIOUS
<1> USE DEF TemporalInv, NothingEarly, ViewWasChecked, WorksOnView,
            requestVars, readVars, rankVars
<1>1. CASE ApplyPolicies
  <2>1. /\ stage = "policy" /\ stage' = "view"
        /\ authorized' = {r \in admitted : ChunksOf(r) \cap denied = {}}
        /\ UNCHANGED <<requestVars, readVars, rankVars>>
    BY <1>1 DEF ApplyPolicies
  <2>2. RequestIsTyped' /\ NothingEarly'
    BY <2>1 DEF RequestIsTyped
  <2>3. ViewWasChecked' /\ WorksOnView'
    BY <2>1
  <2> QED
    BY <2>2, <2>3
<1>2. CASE UNCHANGED <<requestVars, authorized>> /\ stage # "policy"
  <2>1. Valid' = Valid /\ (ViewHolds' <=> ViewHolds) /\ RequestIsTyped'
    BY <1>2, ViewStays
  <2>2. CASE BuildView
    <3>1. /\ stage = "view" /\ stage' \in {"failed", "empty", "read"}
          /\ UNCHANGED <<live, stale, rankVars>>
          /\ \/ stage' # "read" /\ toRead' = toRead
             \/ toRead' = {RecordOf(c) : c \in EligibleChunks} /\ ViewHolds
      BY <2>2 DEF BuildView, Coverage, ViewHolds
    <3>2. ViewWasChecked' /\ NothingEarly'
      BY <2>1, <3>1
    <3>3. WorksOnView'
      BY <2>1, <3>1, ToReadIsValid DEF LiveChunks
    <3> QED
      BY <2>1, <3>2, <3>3
  <2>3. ASSUME NEW r \in Record, ReadRecord(r) PROVE TemporalInv'
    <3>1. /\ stage = "read" /\ stage' = stage /\ r \in toRead
          /\ toRead' = toRead \ {r} /\ live' \in {live, live \cup {r}}
          /\ UNCHANGED rankVars
      BY <2>3 DEF ReadRecord
    <3>2. LiveChunks \subseteq LiveChunks'
      BY <3>1 DEF LiveChunks
    <3> QED
      BY <2>1, <3>1, <3>2
  <2>4. CASE RecordsRead
    <3>1. stage = "read" /\ stage' \in {"empty", "rank"} /\ UNCHANGED <<readVars, rankVars>>
      BY <2>4 DEF RecordsRead
    <3> QED
      BY <2>1, <3>1 DEF LiveChunks
  <2>5. CASE Rank
    <3>1. /\ stage = "rank" /\ stage' \in {"failed", "rerank"} /\ ranked' \subseteq LiveChunks
          /\ UNCHANGED <<readVars, remaining, disclosed, hits>>
      BY <2>5 DEF Rank
    <3> QED
      BY <2>1, <3>1 DEF LiveChunks
  <2>6. CASE Rerank
    <3>1. /\ stage = "rerank" /\ stage' = "assemble"
          /\ disclosed' \subseteq ranked /\ remaining' = ranked
          /\ UNCHANGED <<readVars, ranked, hits>>
      BY <2>6 DEF Rerank
    <3> QED
      BY <2>1, <3>1 DEF LiveChunks
  <2>7. ASSUME NEW c \in Chunk, NEW p \in Chunk \cup {NoChunk}, AddHit(c, p)
        PROVE  TemporalInv'
    <3>1. /\ stage = "assemble" /\ stage' \in {"assemble", "failed"}
          /\ c \in LiveChunks /\ p \in LiveChunks \cup {NoChunk}
          /\ remaining' \subseteq remaining
          /\ UNCHANGED <<readVars, ranked, disclosed, asked>>
      BY <2>7 DEF AddHit
    <3>2. hits' \subseteq hits \cup {[chunk |-> c, parent |-> p], [chunk |-> c, parent |-> NoChunk]}
      BY <2>7 DEF AddHit
    <3>3. WorksOnView'
      BY <2>1, <3>1, <3>2 DEF LiveChunks
    <3> QED
      BY <2>1, <3>1, <3>3
  <2>8. ASSUME NEW c \in Chunk, SkipDuplicate(c) PROVE TemporalInv'
    <3>1. /\ stage = "assemble" /\ stage' = stage /\ remaining' \subseteq remaining
          /\ UNCHANGED <<readVars, ranked, disclosed, asked, hits>>
      BY <2>8 DEF SkipDuplicate
    <3> QED
      BY <2>1, <3>1 DEF LiveChunks
  <2>9. CASE Answer
    <3>1. stage = "assemble" /\ stage' = "answered" /\ UNCHANGED <<readVars, rankVars>>
      BY <2>9 DEF Answer
    <3> QED
      BY <2>1, <3>1 DEF LiveChunks
  <2>10. CASE UNCHANGED vars
    BY <2>1, <2>10 DEF vars, LiveChunks
  <2>11. ~ApplyPolicies
    BY <1>2 DEF ApplyPolicies
  <2> QED
    BY <2>2, <2>3, <2>4, <2>5, <2>6, <2>7, <2>8, <2>9, <2>10, <2>11 DEF Next
<1>3. CASE UNCHANGED vars
  BY <1>3, ViewStays DEF vars, LiveChunks
<1>4. ApplyPolicies \/ UNCHANGED vars
      \/ (UNCHANGED <<requestVars, authorized>> /\ stage # "policy")
  BY DEF Next, ApplyPolicies, BuildView, ReadRecord, RecordsRead, Rank, Rerank, AddHit,
         SkipDuplicate, Answer
<1> QED
  BY <1>1, <1>2, <1>3, <1>4

\* The invariant of the search, for any corpus, declarations and policies (search in
\* temporal_coordinator.rs).
THEOREM TemporalInvariantHolds == Spec => []TemporalInv
BY TemporalInit, TemporalStep, PTL DEF Spec

\* What a provider or the caller is given is of a record that policy lets through
\* whole, that was read unchanged, and that holds at the instant: the disclosures
\* of rerank and the hits of search (OnlyVisibleLeaves).
THEOREM OnlyVisibleLeavesHolds == Spec => []OnlyVisibleLeaves
<1>1. TemporalInv => OnlyVisibleLeaves
  <2> SUFFICES ASSUME TemporalInv,
                      NEW c \in LiveChunks
               PROVE  /\ RecordOf(c) \in admitted /\ ChunksOf(RecordOf(c)) \cap denied = {}
                      /\ RecordOf(c) \in live
                      /\ asOf # NoTime => ValidFrom(RecordOf(c)) <= asOf
    BY DEF TemporalInv, WorksOnView, OnlyVisibleLeaves
  <2>1. RecordOf(c) \in live /\ RecordOf(c) \in Valid
    BY DEF LiveChunks, TemporalInv, WorksOnView
  <2>2. Valid \subseteq authorized
    BY DEF Valid, Eligible, Known
  <2>3. asOf # NoTime => ValidFrom(RecordOf(c)) <= asOf
    BY <2>1 DEF Valid, Eligible, ValidAt
  <2> QED
    BY <2>1, <2>2, <2>3 DEF TemporalInv, RequestIsTyped
<1> QED
  BY <1>1, TemporalInvariantHolds, PTL

\* No note is read and no provider asked before the view is known to be free of
\* conflicts, to have an answer, and to be covered by the vectors.
THEOREM IOAfterCoverageHolds == Spec => []IOAfterCoverage
<1>1. TemporalInv => IOAfterCoverage
  BY DEF TemporalInv, ViewWasChecked, ViewHolds, IOAfterCoverage
<1> QED
  BY <1>1, TemporalInvariantHolds, PTL

\* At an instant no record is shown that another one, known by then, supersedes.
THEOREM SupersededIsHiddenHolds == Spec => []SupersededIsHidden
<1>1. TemporalInv => SupersededIsHidden
  <2> SUFFICES ASSUME TemporalInv, asOf # NoTime,
                      NEW c \in disclosed \cup {h.chunk : h \in hits},
                      NEW e \in Edges(declared, Known(authorized, asOf))
               PROVE  e[2] # RecordOf(c)
    BY DEF SupersededIsHidden
  <2>1. ~Conflict(authorized, declared, asOf)
    BY DEF TemporalInv, ViewWasChecked, ViewHolds
  <2>2. RecordOf(c) \in Eligible(authorized, declared, asOf)
    BY DEF TemporalInv, WorksOnView, LiveChunks, Valid
  <2>3. authorized \in SUBSET Record /\ asOf \in Instant
    BY DEF TemporalInv, RequestIsTyped
  <2> QED
    BY <2>1, <2>2, <2>3, SupersededHasEnded
<1> QED
  BY <1>1, TemporalInvariantHolds, PTL

\* The arrival of a record later than the instant leaves the answer as it was.
THEOREM HistoryIsStableHolds == Spec => []HistoryIsStable
<1>1. TemporalInv => HistoryIsStable
  <2>1. TemporalInv => authorized \in SUBSET Record /\ asOf \in Instant \cup {NoTime}
    BY DEF TemporalInv, RequestIsTyped
  <2> QED
    BY <2>1, HistoryLemma DEF HistoryIsStable
<1> QED
  BY <1>1, TemporalInvariantHolds, PTL

\* Stored provenance says the same of every instant by lineage and by interval.
THEOREM PointInTimeAgreesHolds == Spec => []PointInTimeAgrees
<1>1. TemporalInv => PointInTimeAgrees
  <2>1. TemporalInv => authorized \in SUBSET Record
    BY DEF TemporalInv, RequestIsTyped
  <2> QED
    BY <2>1, PointInTimeLemma DEF PointInTimeAgrees
<1> QED
  BY <1>1, TemporalInvariantHolds, PTL
=============================================================================

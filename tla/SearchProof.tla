------------------------------ MODULE SearchProof ------------------------------
(***************************************************************************)
(* What may leave a search, and what counts as shown, for any corpus, policy, *)
(* limit and budget.                                                         *)
(***************************************************************************)
EXTENDS RetrievalSearch, FiniteSetTheorems, TLAPS

\* The search works on the verified, allowed sources only.
WorksOnEligible ==
  /\ verified \cup toRead \subseteq PolicyEligible
  /\ ranked \cup remaining \cup disclosed \subseteq Eligible
  /\ \A h \in hits : h.chunk \in Eligible /\ h.parent \in Eligible \cup {NoChunk}

\* Every eligible source is verified, still to be read, or the cause of stale.
EverySourceIsAccounted ==
  /\ stage = "policy" => verified = {} /\ toRead = {}
  /\ stage \notin {"policy", "read"} => toRead = {}
  /\ stage # "policy" /\ ~stale => PolicyEligible = verified \cup toRead

\* The running total covers every byte of hits and parents.
BytesAreCounted == IsFiniteSet(Shown) /\ Cardinality(Shown) <= resultBytes

\* A candidate the assembly is done with is a hit, shows nothing new or would
\* not fit; and it stops early only for want of room.  What is claimed and
\* counted only grows, so a candidate once left out stays one that would be.
LeftOutForCause ==
  /\ stage \in {"assemble", "answered"} =>
       \A c \in ranked \ (remaining \cup {h.chunk : h \in hits}) :
         Duplicate(c) \/ ~Fits(Size(c))
  /\ stage = "answered" => remaining = {} \/ ~HasRoom

SearchInv ==
  /\ TypeOK
  /\ WorksOnEligible
  /\ EverySourceIsAccounted
  /\ ClaimedIsShown
  /\ EvidenceOnce
  /\ BytesAreCounted
  /\ LeftOutForCause

USE SearchAssumption

\* The bytes of an interval, marked, are as many as the interval is long.
LEMMA MarkedInterval ==
  ASSUME NEW h, NEW part, NEW a \in Nat, NEW b \in Nat, a < b
  PROVE  /\ IsFiniteSet({<<h, part, i>> : i \in a..b - 1})
         /\ Cardinality({<<h, part, i>> : i \in a..b - 1}) <= b - a
<1> DEFINE marked == {<<h, part, i>> : i \in a..b - 1}
           f == [i \in a..b - 1 |-> <<h, part, i>>]
<1>1. f \in Surjection(a..b - 1, marked)
  BY DEF Surjection
<1>2. IsFiniteSet(a..b - 1) /\ Cardinality(a..b - 1) = b - a
  BY FS_Interval
<1> HIDE DEF f, marked
<1>3. IsFiniteSet(marked) /\ Cardinality(marked) <= Cardinality(a..b - 1)
  BY <1>1, <1>2, FS_Surjection, Zenon
<1> QED
  BY <1>2, <1>3 DEF marked

\* A hit shows no more bytes than are counted for it.
LEMMA ShownIsCounted ==
  ASSUME NEW h,
         h.chunk \in Chunk,
         h.parent \in Chunk \cup {NoChunk}
  PROVE  IsFiniteSet(ShownBy(h)) /\ Cardinality(ShownBy(h)) <= HitBytes(h)
<1> DEFINE own == {<<h, "chunk", i>> : i \in First(h.chunk)..Last(h.chunk) - 1}
           context == {<<h, "parent", i>> : i \in First(h.parent)..Last(h.parent) - 1}
<1>1. IsFiniteSet(own) /\ Cardinality(own) <= Size(h.chunk)
  BY MarkedInterval DEF Size
<1>2. CASE h.parent = NoChunk
  <2>1. ShownBy(h) = own
    BY <1>2 DEF ShownBy
  <2> QED
    BY <1>1, <1>2, <2>1 DEF HitBytes, Size
<1>3. CASE h.parent # NoChunk
  <2>1. IsFiniteSet(context) /\ Cardinality(context) <= Size(h.parent)
    BY <1>3, MarkedInterval DEF Size
  <2>2. ShownBy(h) = own \cup context
    BY <1>3 DEF ShownBy
  <2> HIDE DEF own, context
  <2>3. /\ IsFiniteSet(own \cup context)
        /\ Cardinality(own \cup context) =
             Cardinality(own) + Cardinality(context) - Cardinality(own \cap context)
    BY <1>1, <2>1, FS_Union, Zenon
  <2>4. IsFiniteSet(own \cap context)
    BY <1>1, FS_Intersection, Zenon
  <2>5. /\ Cardinality(own) \in Nat /\ Cardinality(context) \in Nat
        /\ Cardinality(own \cap context) \in Nat
    BY <1>1, <2>1, <2>4, FS_CardinalityType, Zenon
  <2>6. HitBytes(h) = Size(h.chunk) + Size(h.parent)
    BY <1>3 DEF HitBytes
  <2>7. Size(h.chunk) \in Nat /\ Size(h.parent) \in Nat
    BY <1>3 DEF Size
  <2> QED
    BY <1>1, <2>1, <2>2, <2>3, <2>5, <2>6, <2>7
<1> QED
  BY <1>2, <1>3

\* Nothing is verified, ranked or shown at the start.
LEMMA SearchInit == Init => SearchInv
<1> SUFFICES ASSUME Init PROVE SearchInv
  OBVIOUS
<1>1. TypeOK
  <2>1. matches \in [Chunk -> SUBSET Position]
    BY DEF Init
  <2> QED
    BY <2>1 DEF Init, TypeOK
<1>2. WorksOnEligible /\ EverySourceIsAccounted
  BY DEF Init, WorksOnEligible, EverySourceIsAccounted
<1>3. ClaimedIsShown /\ EvidenceOnce
  BY DEF Init, ClaimedIsShown, EvidenceOnce
<1>4. BytesAreCounted
  <2>1. Shown = {} /\ resultBytes = 0
    BY DEF Init, Shown
  <2> QED
    BY <2>1, FS_EmptySet DEF BytesAreCounted
<1>5. LeftOutForCause
  BY DEF Init, LeftOutForCause
<1> QED
  BY <1>1, <1>2, <1>3, <1>4, <1>5 DEF SearchInv

\* Up to the assembly nothing is shown.
LEMMA GatherInv ==
  ASSUME SearchInv,
         \/ \E s \in Source : Edit(s) \/ ReadSource(s)
         \/ ApplyPolicy \/ SourcesRead \/ Lexical \/ Semantic \/ Rerank \/ Answer
  PROVE  SearchInv'
<1> USE DEF SearchInv, requestVars, readVars, resultVars
<1>1. UNCHANGED <<requestVars, resultVars>>
  BY DEF Edit, ReadSource, ApplyPolicy, SourcesRead, Lexical, Semantic, Rerank, Answer
<1>2. ClaimedIsShown' /\ EvidenceOnce' /\ PolicyEligible' = PolicyEligible
  BY <1>1 DEF ClaimedIsShown, EvidenceOnce, PolicyEligible, Overlap
<1>3. BytesAreCounted'
  BY <1>1 DEF BytesAreCounted, Shown, ShownBy
<1>4. LeftOutForCause'
  <2>1. CASE \/ \E s \in Source : Edit(s) \/ ReadSource(s)
             \/ ApplyPolicy \/ SourcesRead \/ Lexical \/ Semantic
    <3>1. \/ stage' \notin {"assemble", "answered"}
          \/ UNCHANGED <<stage, ranked, remaining>>
      BY <2>1 DEF Edit, ReadSource, ApplyPolicy, SourcesRead, Lexical, Semantic
    <3> QED
      BY <1>1, <3>1 DEF LeftOutForCause, Duplicate, Fits, Spans, Overlap, HasRoom
  <2>2. CASE Rerank
    BY <2>2 DEF Rerank, LeftOutForCause
  <2>3. CASE Answer
    <3>1. stage = "assemble" /\ (remaining = {} \/ ~HasRoom) /\ UNCHANGED <<ranked, remaining>>
      BY <2>3 DEF Answer
    <3>2. HasRoom' = HasRoom
      BY <1>1 DEF HasRoom
    <3>3. \A c \in Chunk : Duplicate(c)' = Duplicate(c) /\ Fits(Size(c))' = Fits(Size(c))
      BY <1>1 DEF Duplicate, Fits, Spans, Overlap
    <3> QED
      BY <1>1, <3>1, <3>2, <3>3 DEF LeftOutForCause, TypeOK
  <2> QED
    BY <2>1, <2>2, <2>3
<1>5. ASSUME NEW s \in Source, Edit(s)
      PROVE  TypeOK' /\ WorksOnEligible' /\ EverySourceIsAccounted'
  BY <1>2, <1>5 DEF Edit, TypeOK, WorksOnEligible, EverySourceIsAccounted, Eligible
<1>6. ASSUME NEW s \in Source, ReadSource(s)
      PROVE  TypeOK' /\ WorksOnEligible' /\ EverySourceIsAccounted'
  <2>1. /\ stage = "read" /\ stage' = stage /\ s \in toRead /\ toRead' = toRead \ {s}
        /\ \/ verified' = verified \cup {s} /\ stale' = stale
           \/ stale' = TRUE /\ verified' = verified
        /\ UNCHANGED <<live, ranked, remaining, disclosed>>
    BY <1>6 DEF ReadSource, NextSource
  <2>2. TypeOK'
    BY <1>1, <2>1 DEF TypeOK
  <2>3. Eligible \subseteq Eligible'
    BY <2>1 DEF Eligible
  <2>4. WorksOnEligible'
    BY <1>1, <1>2, <2>1, <2>3 DEF WorksOnEligible
  <2>5. EverySourceIsAccounted'
    BY <1>2, <2>1 DEF EverySourceIsAccounted
  <2> QED
    BY <2>2, <2>4, <2>5
<1>7. CASE ApplyPolicy
  <2>1. PolicyEligible \subseteq Source
    BY DEF PolicyEligible
  <2> QED
    BY <1>1, <1>2, <1>3, <1>4, <1>7, <2>1 DEF ApplyPolicy, TypeOK, WorksOnEligible, EverySourceIsAccounted, Eligible
<1>8. CASE SourcesRead \/ Answer
  BY <1>1, <1>2, <1>3, <1>4, <1>8 DEF SourcesRead, Answer, TypeOK, WorksOnEligible, EverySourceIsAccounted, Eligible
<1>9. CASE Lexical \/ Semantic \/ Rerank
  <2>1. /\ ranked' \cup remaining' \cup disclosed' \subseteq Eligible
        /\ stage \notin {"policy", "read"}
        /\ stage' \in {"semantic", "rerank", "assemble", "failed"}
        /\ UNCHANGED <<live, readVars>>
    BY <1>9 DEF Lexical, Semantic, Rerank, WorksOnEligible
  <2>2. Eligible \subseteq Chunk /\ Eligible' = Eligible
    BY <2>1 DEF Eligible
  <2> QED
    BY <1>1, <1>2, <1>3, <1>4, <2>1, <2>2 DEF TypeOK, WorksOnEligible, EverySourceIsAccounted
<1> QED
  BY <1>2, <1>3, <1>4, <1>5, <1>6, <1>7, <1>8, <1>9

\* A skipped candidate changes nothing that was shown.
LEMMA SkipInv ==
  ASSUME SearchInv,
         NEW c \in Chunk,
         Skip(c)
  PROVE  SearchInv'
<1> USE DEF SearchInv, requestVars, readVars, resultVars
<1>1. TypeOK' /\ WorksOnEligible' /\ EverySourceIsAccounted'
  BY DEF Skip, TypeOK, WorksOnEligible, EverySourceIsAccounted, Eligible, PolicyEligible
<1>2. ClaimedIsShown' /\ EvidenceOnce'
  BY DEF Skip, ClaimedIsShown, EvidenceOnce, Overlap
<1>3. BytesAreCounted'
  BY DEF Skip, BytesAreCounted, Shown, ShownBy
<1>4. LeftOutForCause'
  <2>1. /\ stage = "assemble" /\ UNCHANGED <<stage, ranked, hits, requestVars, resultVars>>
        /\ Duplicate(c) \/ ~Fits(Size(c))
        /\ remaining' = remaining \ {c}
    BY DEF Skip
  <2>2. \A d \in Chunk : Duplicate(d)' = Duplicate(d) /\ Fits(Size(d))' = Fits(Size(d))
    BY <2>1 DEF Duplicate, Fits, Spans, Overlap
  <2> QED
    BY <2>1, <2>2 DEF LeftOutForCause, TypeOK
<1> QED
  BY <1>1, <1>2, <1>3, <1>4

\* The parent of a hit is a verified chunk that fits, or there is none.
LEMMA ParentIsEligible ==
  ASSUME SearchInv,
         NEW c \in Chunk
  PROVE  /\ Parent(c) \in Eligible \cup {NoChunk}
         /\ Parent(c) # NoChunk => Fits(Size(c) + Size(Parent(c)))
  BY DEF Parent, Eligible

\* A new hit shows only what was not shown, and claims just that.
LEMMA TakeInv ==
  ASSUME SearchInv,
         NEW c \in Chunk,
         TakeHit(c)
  PROVE  SearchInv'
<1> USE DEF SearchInv, requestVars, readVars, resultVars
<1> DEFINE hit == [chunk |-> c, spans |-> Spans(c) \ claimed, parent |-> Parent(c)]
<1>1. /\ hits' = hits \cup {hit}
      /\ resultBytes' = resultBytes + HitBytes(hit)
      /\ claimed' = claimed \cup hit.spans
      /\ c \in remaining /\ remaining' = remaining \ {c}
      /\ ~Duplicate(c) /\ Fits(Size(c))
      /\ UNCHANGED <<requestVars, live, stage, readVars, ranked, disclosed>>
  BY DEF TakeHit
<1>2. hit.chunk = c /\ hit.spans = Spans(c) \ claimed /\ hit.parent = Parent(c)
  OBVIOUS
<1>3. Spans(c) \subseteq Span
  BY DEF Spans, Span, TypeOK
<1>4. Eligible' = Eligible /\ PolicyEligible' = PolicyEligible /\ Eligible \subseteq Chunk
  BY <1>1 DEF Eligible, PolicyEligible
<1>5. hit \in [chunk : Chunk, spans : SUBSET Span, parent : Chunk \cup {NoChunk}]
  BY <1>3, <1>4, ParentIsEligible
<1>6. HitBytes(hit) \in Nat /\ resultBytes + HitBytes(hit) <= MaxResultBytes
  <2>1. Size(c) \in Nat /\ (Parent(c) # NoChunk => Size(Parent(c)) \in Nat)
    BY <1>4, ParentIsEligible DEF Size
  <2> QED
    BY <1>1, <1>2, <2>1, ParentIsEligible DEF HitBytes, Fits, TypeOK
<1> HIDE DEF hit
<1>7. TypeOK'
  BY <1>1, <1>2, <1>3, <1>5, <1>6 DEF TypeOK
<1>8. WorksOnEligible' /\ EverySourceIsAccounted'
  BY <1>1, <1>2, <1>4, ParentIsEligible DEF WorksOnEligible, EverySourceIsAccounted
<1>9. ClaimedIsShown'
  BY <1>1 DEF ClaimedIsShown
<1>10. EvidenceOnce'
  <2>1. ASSUME NEW g \in hits
        PROVE  /\ g.spans \cap hit.spans = {}
               /\ g.spans = {} /\ hit.spans = {} =>
                    ~Overlap(g.chunk, hit.chunk) /\ ~Overlap(hit.chunk, g.chunk)
    <3>1. g.spans \subseteq claimed
      BY DEF ClaimedIsShown
    <3>2. hit.spans = {} => Spans(c) = {}
      BY <1>1, <1>2 DEF Duplicate
    <3>3. Spans(c) = {} => ~Overlap(c, g.chunk)
      BY <1>1 DEF Duplicate
    <3>4. Overlap(g.chunk, c) => Overlap(c, g.chunk)
      BY DEF Overlap
    <3> QED
      BY <1>2, <3>1, <3>2, <3>3, <3>4
  <2> QED
    BY <1>1, <2>1 DEF EvidenceOnce
<1>11. BytesAreCounted'
  <2>1. Shown' = Shown \cup ShownBy(hit)
    BY <1>1 DEF Shown, ShownBy
  <2>2. IsFiniteSet(ShownBy(hit)) /\ Cardinality(ShownBy(hit)) <= HitBytes(hit)
    BY <1>5, ShownIsCounted
  <2>3. /\ IsFiniteSet(Shown \cup ShownBy(hit))
        /\ Cardinality(Shown \cup ShownBy(hit)) =
             Cardinality(Shown) + Cardinality(ShownBy(hit)) - Cardinality(Shown \cap ShownBy(hit))
    BY <2>2, FS_Union, Zenon DEF BytesAreCounted
  <2>4. IsFiniteSet(Shown \cap ShownBy(hit))
    BY FS_Intersection, Zenon DEF BytesAreCounted
  <2>5. /\ Cardinality(Shown) \in Nat /\ Cardinality(ShownBy(hit)) \in Nat
        /\ Cardinality(Shown \cap ShownBy(hit)) \in Nat
    BY <2>2, <2>4, FS_CardinalityType, Zenon DEF BytesAreCounted
  <2> QED
    BY <1>1, <1>6, <2>1, <2>2, <2>3, <2>5 DEF BytesAreCounted, TypeOK
<1>12. LeftOutForCause'
  <2>1. \A d \in Chunk : Duplicate(d) => Duplicate(d)'
    BY <1>1 DEF Duplicate, Spans, Overlap
  <2>2. \A d \in Chunk : ~Fits(Size(d)) => ~Fits(Size(d))'
    BY <1>1, <1>6 DEF Fits, Size, TypeOK
  <2>3. stage = "assemble" /\ stage' = "assemble"
    BY DEF TakeHit
  <2>4. ranked' \ (remaining' \cup {h.chunk : h \in hits'})
          \subseteq ranked \ (remaining \cup {h.chunk : h \in hits})
    BY <1>1, <1>2
  <2>5. ranked \subseteq Chunk
    BY DEF TypeOK
  <2> QED
    BY <2>1, <2>2, <2>3, <2>4, <2>5 DEF LeftOutForCause
<1> QED
  BY <1>7, <1>8, <1>9, <1>10, <1>11, <1>12

\* The invariant of the search.
THEOREM SearchInvariantHolds == Spec => []SearchInv
<1>1. SearchInv /\ UNCHANGED vars => SearchInv'
  BY DEF SearchInv, TypeOK, WorksOnEligible, EverySourceIsAccounted, ClaimedIsShown,
     EvidenceOnce, BytesAreCounted, LeftOutForCause, Shown, ShownBy, Duplicate, Fits, HasRoom,
     Spans, Overlap, Eligible, PolicyEligible, vars, requestVars, readVars, resultVars
<1>2. SearchInv /\ Next => SearchInv'
  BY GatherInv, SkipInv, TakeInv DEF Next
<1> QED
  BY SearchInit, <1>1, <1>2, PTL DEF Spec

\* No text of a hidden or unverified source reaches the reranker or the result.
THEOREM OnlyEligibleLeavesHolds == Spec => []OnlyEligibleLeaves
<1>1. SearchInv => OnlyEligibleLeaves
  BY DEF SearchInv, WorksOnEligible, OnlyEligibleLeaves, MayLeave, Eligible, PolicyEligible
<1> QED
  BY <1>1, SearchInvariantHolds, PTL

\* A result called fresh left no source out for being changed.
THEOREM FreshIsCompleteHolds == Spec => []FreshIsComplete
<1>1. SearchInv => FreshIsComplete
  BY DEF SearchInv, EverySourceIsAccounted, FreshIsComplete
<1> QED
  BY <1>1, SearchInvariantHolds, PTL

\* No evidence is shown twice.
THEOREM EvidenceOnceHolds == Spec => []EvidenceOnce
<1>1. SearchInv => EvidenceOnce
  BY DEF SearchInv
<1> QED
  BY <1>1, SearchInvariantHolds, PTL

\* What counts as shown is shown by a hit.
THEOREM ClaimedIsShownHolds == Spec => []ClaimedIsShown
<1>1. SearchInv => ClaimedIsShown
  BY DEF SearchInv
<1> QED
  BY <1>1, SearchInvariantHolds, PTL

\* Hits and their parents together never show more bytes than the budget.
THEOREM ResultFitsHolds == Spec => []ResultFits
<1>1. SearchInv => ResultFits
  <2> SUFFICES ASSUME SearchInv PROVE ResultFits
    OBVIOUS
  <2>1. Cardinality(Shown) \in Nat
    BY FS_CardinalityType, Zenon DEF SearchInv, BytesAreCounted
  <2> QED
    BY <2>1 DEF SearchInv, BytesAreCounted, TypeOK, ResultFits
<1> QED
  BY <1>1, SearchInvariantHolds, PTL

\* With room left, every candidate was shown, or had nothing new, or was too big.
THEOREM NothingLostHolds == Spec => []NothingLost
<1>1. SearchInv => NothingLost
  BY DEF SearchInv, LeftOutForCause, NothingLost
<1> QED
  BY <1>1, SearchInvariantHolds, PTL
=============================================================================

------------------------------ MODULE IngestProof ------------------------------
(***************************************************************************)
(* Envelopes that were verified one by one agree with one another, for any  *)
(* envelopes that may be offered and any number of them.                     *)
(***************************************************************************)
EXTENDS IngestEnvelopes, FunctionTheorems, FiniteSetTheorems, TLAPS

USE ProfileAssumption, BaselineAssumption, EnvelopeAssumption

-----------------------------------------------------------------------------
(* The invariant: a seal stands for a verification, and lasts.              *)

\* What was checked of an envelope of each kind.
WasVerified(e) ==
  /\ e \in Offered
  /\ e.kind = "profile" => ValidNormalized(e.normalized)
  /\ e.kind = "result" => ValidResult(e)
  /\ e.kind \in StateKinds => ValidState(e)
  /\ e.kind = "index" => \E statuses : ValidIndexResult(e, statuses)

IngestInv == (\A e \in verified : WasVerified(e)) /\ bundles \subseteq Bundles

\* Each verifier seals what it has checked.
LEMMA SealedWasVerified ==
  ASSUME NEW e \in Offered,
         \/ e \in Profiles \/ e \in Results \/ e \in Journals \/ e \in Owners \/ e \in States
         \/ e \in Rejections /\ e.kind = "rejection"
         \/ e \in IndexResults /\ \E statuses : ValidIndexResult(e, statuses)
  PROVE  WasVerified(e)
BY DEF Profiles, Results, Journals, Owners, States, Rejections, IndexResults, Offer,
   WasVerified, StateKinds

\* The verifiers keep the invariant: none takes a seal or a bundle back.
LEMMA IngestStep ==
  ASSUME IngestInv, [Next]_vars
  PROVE  IngestInv'
<1>1. CASE VerifyOwnerBundle
  <2>1. verified' = verified /\ bundles' \subseteq Bundles
    BY <1>1 DEF VerifyOwnerBundle, IngestInv
  <2> QED
    BY <2>1 DEF IngestInv, Bundles, Owners, Journals, States, Offer
<1>2. ASSUME NEW e, Seal(e), WasVerified(e) PROVE IngestInv'
  <2>1. verified' = verified \cup {e} /\ bundles' = bundles
    BY <1>2 DEF Seal
  <2> QED
    BY <1>2, <2>1 DEF IngestInv, WasVerified, Bundles, Owners, Journals, States, Offer
<1>3. CASE VerifyNormalizedProfile
  BY <1>2, <1>3, SealedWasVerified DEF VerifyNormalizedProfile, Profiles, Offer
<1>4. CASE VerifyValidationResult
  BY <1>2, <1>4, SealedWasVerified DEF VerifyValidationResult, Results, Offer
<1>5. CASE VerifyRejectionJournal
  BY <1>2, <1>5, SealedWasVerified DEF VerifyRejectionJournal, Journals, Offer
<1>6. CASE VerifyOwnerGeneration
  BY <1>2, <1>6, SealedWasVerified DEF VerifyOwnerGeneration, Owners, Offer
<1>7. CASE VerifyStateEnvelope
  BY <1>2, <1>7, SealedWasVerified DEF VerifyStateEnvelope, States
<1>8. CASE VerifyRejection
  BY <1>2, <1>8, SealedWasVerified DEF VerifyRejection, Rejections, Offer
<1>9. CASE VerifyIndexResult
  <2>1. PICK e \in IndexResults : ValidIndexResult(e, Sealed("status")) /\ Seal(e)
    BY <1>9 DEF VerifyIndexResult
  <2> QED
    BY <1>2, <2>1, SealedWasVerified DEF IndexResults, Offer
<1>10. CASE UNCHANGED vars
  BY <1>10 DEF IngestInv, WasVerified, Bundles, Owners, Journals, States, Offer, vars
<1> QED
  BY <1>1, <1>3, <1>4, <1>5, <1>6, <1>7, <1>8, <1>9, <1>10 DEF Next

\* Whatever has a seal was verified (VerifiedIngestEnvelope, seal).
THEOREM IngestInvariantHolds == Spec => []IngestInv
<1>1. Init => IngestInv
  BY DEF Init, IngestInv
<1> QED
  BY <1>1, IngestStep, PTL DEF Spec

-----------------------------------------------------------------------------
(* Digests. *)

\* A record is what it is without its digest, and the digest.
LEMMA DigestIdentifies ==
  ASSUME NEW a \in Offered, NEW b \in Offered,
         a.kind \in {"owner", "journal"}, b.kind \in {"owner", "journal"},
         BindsItself(a), BindsItself(b), a.digest = b.digest
  PROVE  a = b
<1>1. Without(a, {"digest"}) = Without(b, {"digest"})
  BY DEF BindsItself, Digest
<1>2. DOMAIN a \ {"digest"} = DOMAIN b \ {"digest"}
  BY <1>1 DEF Without
<1>3. DOMAIN a = DOMAIN b
  BY <1>2
<1>4. \A f \in DOMAIN a : a[f] = b[f]
  <2> SUFFICES ASSUME NEW f \in DOMAIN a PROVE a[f] = b[f]
    OBVIOUS
  <2>1. CASE f = "digest"
    BY <2>1
  <2>2. CASE f # "digest"
    <3>1. Without(a, {"digest"})[f] = a[f] /\ Without(b, {"digest"})[f] = b[f]
      BY <1>3, <2>2 DEF Without
    <3> QED
      BY <1>1, <3>1
  <2> QED
    BY <2>1, <2>2
<1>5. a = [f \in DOMAIN a |-> a[f]] /\ b = [f \in DOMAIN b |-> b[f]]
  OBVIOUS
<1> QED
  BY <1>3, <1>4, <1>5

\* The owner names its journal by the digest.
LEMMA BundleLemma ==
  ASSUME NEW a \in Bundles, NEW b \in Bundles, a.pointer = b.pointer
  PROVE  a = b
<1>1. /\ a.owner \in Owners /\ a.journal \in Journals
      /\ b.owner \in Owners /\ b.journal \in Journals
      /\ BindsBundle(a.owner, a.journal, a.pointer)
      /\ BindsBundle(b.owner, b.journal, b.pointer)
      /\ a = [owner |-> a.owner, journal |-> a.journal, pointer |-> a.pointer]
      /\ b = [owner |-> b.owner, journal |-> b.journal, pointer |-> b.pointer]
  BY DEF Bundles
<1>2. a.owner.digest = b.owner.digest
  BY <1>1 DEF BindsBundle, PointerTo
<1>3. a.owner = b.owner
  BY <1>1, <1>2, DigestIdentifies DEF Owners, Offer, ValidOwner
<1>4. a.journal = b.journal
  BY <1>1, <1>3, DigestIdentifies DEF Journals, Offer, ValidJournal, BindsBundle
<1> QED
  BY <1>1, <1>3, <1>4

\* Two bundles with one pointer are one (validate_owner_bundle_values).
THEOREM PointerNamesOneBundleHolds == Spec => []PointerNamesOneBundle
<1>1. IngestInv => PointerNamesOneBundle
  BY BundleLemma DEF IngestInv, PointerNamesOneBundle
<1> QED
  BY <1>1, IngestInvariantHolds, PTL

-----------------------------------------------------------------------------
(* The authority. *)

\* A pointer's digest stands for its owner and its projection.
LEMMA PointerIdentifies ==
  ASSUME NEW a, NEW b, NamesActive(a), NamesActive(b), a.pointer = b.pointer
  PROVE  a.owner = b.owner /\ a.projection = b.projection
<1>1. PointerTo(a.owner, a.projection) = PointerTo(b.owner, b.projection)
  <2>1. \A x, y : Digest("pointer bytes", x) = Digest("pointer bytes", y) => x = y
    BY DEF Digest
  <2> QED
    BY <2>1 DEF NamesActive, PointerDigest
<1>2. \A o, p : PointerTo(o, p).owner = o /\ PointerTo(o, p).projection = p
  BY DEF PointerTo
<1> QED
  BY <1>1, <1>2

\* Each place of an envelope that names an active generation is checked.
LEMMA NamedIsActive ==
  ASSUME NEW e, WasVerified(e), NEW a \in Names(e)
  PROVE  NamesActive(a)
<1>1. CASE e.kind \in {"root", "witness"}
  BY <1>1 DEF Names, WasVerified, StateKinds, ValidState, ValidRoot, ValidWitness, ValidActivation
<1>2. CASE e.kind = "status"
  BY <1>2 DEF Names, WasVerified, StateKinds, ValidState, ValidStatus, ValidPrior
<1>3. CASE e.kind = "index"
  BY <1>3 DEF Names, WasVerified, ValidIndexResult, ValidPrior
<1>4. CASE e.kind = "lock" /\ e.operation = "activation"
  BY <1>4 DEF Names, WasVerified, StateKinds, ValidState, ValidLock
<1> QED
  BY <1>1, <1>2, <1>3, <1>4 DEF Names

\* A witness refers to a root by the digest of the fields they share.
LEMMA WitnessOfRoot ==
  ASSUME NEW r, NEW w, r.kind = "root", BindsItself(r), w.root = RootDigest(w),
         w.root = r.digest, NEW f \in RootFields
  PROVE  w[f] = r[f]
<1> DEFINE shared == [g \in RootFields \cup {"kind"} |-> IF g = "kind" THEN "root" ELSE w[g]]
<1>1. shared = Without(r, {"digest"})
  BY DEF BindsItself, RootDigest, Digest
<1>2. f # "kind" /\ shared[f] = w[f]
  BY DEF RootFields
<1>3. f \in DOMAIN Without(r, {"digest"})
  BY <1>1
<1>4. Without(r, {"digest"})[f] = r[f]
  BY <1>3 DEF Without
<1> QED
  BY <1>1, <1>2, <1>4

\* And an activation refers to its tombstone.
LEMMA TombstoneOfRoot ==
  ASSUME NEW r, NEW t, BindsItself(t), t.digest = Digest("tombstone", Tombstone(r.owner, r.migration))
  PROVE  t.owner = r.owner /\ t.migration = r.migration
<1>1. Without(t, {"digest"}) = Tombstone(r.owner, r.migration)
  BY DEF BindsItself, Digest
<1>2. /\ "owner" \in DOMAIN Without(t, {"digest"}) /\ "migration" \in DOMAIN Without(t, {"digest"})
      /\ Without(t, {"digest"})["owner"] = r.owner
      /\ Without(t, {"digest"})["migration"] = r.migration
  BY <1>1 DEF Tombstone
<1>3. Without(t, {"digest"})["owner"] = t.owner /\ Without(t, {"digest"})["migration"] = t.migration
  BY <1>2 DEF Without
<1> QED
  BY <1>2, <1>3

\* Envelopes of the authority that refer to each other are of one activation
\* (derived_active_pointer_digest, validate_root_common, validate_witness).
THEOREM AuthorityIsOneActivationHolds == Spec => []AuthorityIsOneActivation
<1>1. ASSUME IngestInv PROVE AuthorityIsOneActivation
  <2>1. \A a, b \in UNION {Names(e) : e \in verified} :
          a.pointer = b.pointer => a.owner = b.owner /\ a.projection = b.projection
    BY <1>1, NamedIsActive, PointerIdentifies DEF IngestInv
  <2>2. ASSUME NEW r \in Sealed("root") \cup Sealed("witness")
        PROVE  r.tombstone = Digest("tombstone", Tombstone(r.owner, r.migration))
    BY <1>1, <2>2 DEF IngestInv, Sealed, WasVerified, StateKinds, ValidState, ValidRoot,
       ValidWitness, ValidActivation
  <2>3. ASSUME NEW r \in Sealed("root"), NEW w \in Sealed("witness")
        PROVE  r.kind = "root" /\ BindsItself(r) /\ w.root = RootDigest(w)
    BY <1>1, <2>3 DEF IngestInv, Sealed, WasVerified, StateKinds, ValidState, ValidRoot,
       ValidWitness
  <2>4. ASSUME NEW t \in Sealed("tombstone") PROVE BindsItself(t)
    BY <1>1, <2>4 DEF IngestInv, Sealed, WasVerified, StateKinds, ValidState
  <2>5. \A r \in Sealed("root"), w \in Sealed("witness") :
          w.root = r.digest => \A f \in RootFields : w[f] = r[f]
    BY <2>3, WitnessOfRoot
  <2>6. \A r \in Sealed("root") \cup Sealed("witness"), t \in Sealed("tombstone") :
          r.tombstone = t.digest => t.owner = r.owner /\ t.migration = r.migration
    BY <2>2, <2>4, TombstoneOfRoot
  <2> QED
    BY <2>1, <2>5, <2>6 DEF AuthorityIsOneActivation
<1> QED
  BY <1>1, IngestInvariantHolds, PTL

-----------------------------------------------------------------------------
(* Profiles. *)

\* A narrower field admits less.
LEMMA NarrowerAdmitsLess ==
  ASSUME NEW row \in Row, NEW canonical \in Row, Narrows(row, canonical),
         NEW v \in Text, Admits(row, v)
  PROVE  Admits(canonical, v)
<1>1. /\ Length(v) \in Int /\ None \notin Int
      /\ row.min \in Int \cup {None} /\ row.max \in Int \cup {None}
      /\ canonical.min \in Int \cup {None} /\ canonical.max \in Int \cup {None}
  BY DEF Row, Bound
<1>2. InBounds(canonical, v)
  BY <1>1 DEF Narrows, Admits, InBounds
<1> QED
  BY <1>2 DEF Narrows, Admits

\* What is accepted under a valid profile is accepted under the built-in one.
LEMMA ValidAcceptsLess ==
  ASSUME NEW n, TypedProfile(n), ValidNormalized(n),
         NEW held \in SUBSET DOMAIN Baseline.fields, NEW values \in [held -> Text],
         NEW codes \in SUBSET DOMAIN Baseline.severity, Accepts(n, values, codes)
  PROVE  Accepts(Baseline, values, codes)
<1>1. ASSUME NEW f \in DOMAIN Baseline.fields
      PROVE  IF f \in DOMAIN values THEN Admits(Baseline.fields[f], values[f])
                                    ELSE ~Baseline.fields[f].required
  <2>1. f \in DOMAIN n.fields /\ Narrows(n.fields[f], Baseline.fields[f])
    BY DEF ValidNormalized, ValidFields
  <2>2. n.fields[f] \in Row /\ Baseline.fields[f] \in Row
    BY <2>1 DEF TypedProfile
  <2>3. CASE f \in DOMAIN values
    BY <2>1, <2>2, <2>3, NarrowerAdmitsLess DEF Accepts
  <2>4. CASE f \notin DOMAIN values
    BY <2>1, <2>4 DEF Accepts, Narrows
  <2> QED
    BY <2>3, <2>4
<1>2. "sensitivity" \in DOMAIN values => SensitivityRank(values["sensitivity"]) >= Baseline.minimum
  <2> SUFFICES ASSUME "sensitivity" \in DOMAIN values
               PROVE  SensitivityRank(values["sensitivity"]) >= Baseline.minimum
    OBVIOUS
  <2>1. SensitivityRank(values["sensitivity"]) \in Int
    OBVIOUS
  <2>2. n.minimum \in Int /\ Baseline.minimum \in Int /\ n.minimum >= Baseline.minimum
    BY DEF TypedProfile, ValidNormalized
  <2>3. SensitivityRank(values["sensitivity"]) >= n.minimum
    BY DEF Accepts
  <2> QED
    BY <2>1, <2>2, <2>3
<1>3. ASSUME NEW c \in codes PROVE ~Blocking(Severity(Baseline, c))
  <2>1. c \in DOMAIN Baseline.severity /\ c \in DOMAIN n.severity
    BY DEF ValidNormalized, ValidSeverity
  <2>2. /\ n.severity[c] \in Int /\ Baseline.severity[c] \in Int
        /\ n.severity[c] >= Baseline.severity[c]
    BY <2>1 DEF ValidNormalized, ValidSeverity, TypedProfile
  <2>3. ~(n.severity[c] >= 2)
    BY <2>1 DEF Accepts, Blocking, Severity
  <2> QED
    BY <2>1, <2>2, <2>3 DEF Blocking, Severity
<1> QED
  BY <1>1, <1>2, <1>3 DEF Accepts

\* A verified profile only tightens the built-in one, and what it demands can be
\* given (validate_normalized_profile).
THEOREM OnlyNarrowsHolds == Spec => []OnlyNarrows
<1>1. ASSUME IngestInv PROVE OnlyNarrows
  <2> SUFFICES ASSUME NEW e \in Sealed("profile")
      PROVE
        /\ \A held \in SUBSET DOMAIN Baseline.fields, codes \in SUBSET DOMAIN Baseline.severity :
             \A values \in [held -> Text] :
               Accepts(e.normalized, values, codes) => Accepts(Baseline, values, codes)
        /\ \A f \in e.normalized.required : e.normalized.fields[f].enum # None =>
             \E v \in e.normalized.fields[f].enum : Admits(e.normalized.fields[f], v)
    BY DEF OnlyNarrows
  <2>1. TypedProfile(e.normalized) /\ ValidNormalized(e.normalized)
    BY <1>1 DEF IngestInv, WasVerified, Sealed
  <2>2. \A f \in e.normalized.required : e.normalized.fields[f].enum # None =>
          \E v \in e.normalized.fields[f].enum : Admits(e.normalized.fields[f], v)
    BY <2>1 DEF ValidNormalized, ValidFields, EnumReachable, Admits
  <2> QED
    BY <2>1, <2>2, ValidAcceptsLess
<1> QED
  BY <1>1, IngestInvariantHolds, PTL

-----------------------------------------------------------------------------
(* Results. *)

\* The size of a set is that of its two parts.
LEMMA TwoParts ==
  ASSUME NEW S, NEW A, NEW B, IsFiniteSet(A), IsFiniteSet(B), A \cup B = S, A \cap B = {}
  PROVE  Cardinality(S) = Cardinality(A) + Cardinality(B)
<1>1. Cardinality(S) = Cardinality(A) + Cardinality(B) - Cardinality({})
  BY FS_Union
<1>2. Cardinality(A) \in Nat /\ Cardinality(B) \in Nat /\ Cardinality({}) = 0
  BY FS_CardinalityType, FS_EmptySet
<1> QED
  BY <1>1, <1>2

\* The sources that were observed, split by their class: as many are rejected
\* as there are rejections.
LEMMA CountsAddUp ==
  ASSUME NEW r, ValidResult(r), IsFiniteSet(r.observations), IsFiniteSet(r.rejections)
  PROVE  /\ Cardinality(r.observations) = r.accepted + Cardinality(r.rejections)
         /\ r.accepted \in Nat /\ r.rejected = Cardinality(r.rejections)
         /\ r.observed = Cardinality(r.observations)
<1> DEFINE A == {o \in r.observations : o.class = "accepted"}
           B == {o \in r.observations : o.class = "rejected"}
           ObservationOf == [x \in r.rejections |->
             CHOOSE o \in B : o.source = x.source]
<1>1. IsFiniteSet(A) /\ IsFiniteSet(B)
  BY FS_Subset
<1>2. A \cup B = r.observations /\ A \cap B = {}
  <2>1. \A o \in r.observations : o.class \in {"accepted", "rejected"}
    BY DEF ValidResult, ValidObservations, ValidObservation
  <2> QED
    BY <2>1
<1>3. Cardinality(r.observations) = Cardinality(A) + Cardinality(B)
  BY <1>1, <1>2, TwoParts
<1>4. \A x \in r.rejections : ObservationOf[x] \in B /\ ObservationOf[x].source = x.source
  BY DEF ValidResult, ValidRejections
<1>5. ObservationOf \in Bijection(r.rejections, B)
  <2>1. ObservationOf \in [r.rejections -> B]
    BY <1>4
  <2>2. \A x, y \in r.rejections : ObservationOf[x] = ObservationOf[y] => x = y
    BY <1>4 DEF ValidResult, ValidRejections
  <2>3. \A o \in B : \E x \in r.rejections : ObservationOf[x] = o
    <3> SUFFICES ASSUME NEW o \in B PROVE \E x \in r.rejections : ObservationOf[x] = o
      OBVIOUS
    <3>1. PICK x \in r.rejections : x.source = o.source
      BY DEF ValidResult, ValidRejections
    <3>2. ObservationOf[x] \in r.observations /\ ObservationOf[x].source = o.source
      BY <1>4, <3>1
    <3>3. ObservationOf[x] = o
      BY <3>2 DEF ValidResult, ValidObservations
    <3> QED
      BY <3>3
  <2> HIDE DEF ObservationOf, B
  <2> QED
    BY <2>1, <2>2, <2>3, Fun_IsBij
<1>6. Cardinality(r.rejections) = Cardinality(B)
  <2> HIDE DEF ObservationOf, B
  <2> QED
    BY <1>1, <1>5, FS_Bijection DEF ExistsBijection
<1>7. r.accepted = Cardinality(A) /\ Cardinality(A) \in Nat
  BY <1>1, FS_CardinalityType DEF ValidResult, ValidSummary
<1> QED
  BY <1>3, <1>6, <1>7 DEF ValidResult, ValidSummary

\* A source is rejected exactly when it has a rejection.
LEMMA RejectedHasRejection ==
  ASSUME NEW r, ValidResult(r), NEW o \in r.observations
  PROVE  o.class = "rejected" <=> \E x \in r.rejections : x.source = o.source
<1>1. ASSUME o.class = "rejected" PROVE \E x \in r.rejections : x.source = o.source
  BY <1>1 DEF ValidResult, ValidRejections
<1>2. ASSUME NEW x \in r.rejections, x.source = o.source PROVE o.class = "rejected"
  <2>1. PICK p \in r.observations : p.source = x.source /\ p.class = "rejected"
    BY DEF ValidResult, ValidRejections
  <2>2. p = o
    BY <1>2, <2>1 DEF ValidResult, ValidObservations
  <2> QED
    BY <2>1, <2>2
<1> QED
  BY <1>1, <1>2

\* The findings of a source decide it, and its one rejection has them all.
LEMMA DecidedByFindings ==
  ASSUME NEW r, ValidResult(r), NEW o \in r.observations
  PROVE  LET own == {x \in r.rejections : x.source = o.source} IN
         IF \E f \in r.findings : f.source = o.source /\ Blocker(f)
         THEN Cardinality(own) = 1 /\ \A x \in own : x.bytes = o.bytes
                                                     /\ x.findings = Of(r.findings, o.source)
         ELSE own = {} /\ o.bytes \notin {None, "unsealed"}
<1> DEFINE own == {x \in r.rejections : x.source = o.source}
<1>1. o.class = IF \E f \in r.findings : f.source = o.source /\ Blocker(f)
                THEN "rejected" ELSE "accepted"
  BY DEF ValidResult, ValidObservations, ValidObservation, Of
<1>2. CASE \E f \in r.findings : f.source = o.source /\ Blocker(f)
  <2>1. PICK x \in r.rejections : x.source = o.source
    BY <1>1, <1>2, RejectedHasRejection
  <2>2. own = {x}
    BY <2>1 DEF ValidResult, ValidRejections
  <2>3. Cardinality(own) = 1
    BY <2>2, FS_Singleton
  <2>4. x.findings = Of(r.findings, o.source)
    BY <2>1 DEF ValidResult, ValidRejections
  <2>5. x.bytes = o.bytes
    <3>1. PICK p \in r.observations : p.source = x.source /\ p.bytes = x.bytes
      BY DEF ValidResult, ValidRejections
    <3>2. p = o
      BY <2>1, <3>1 DEF ValidResult, ValidObservations
    <3> QED
      BY <3>1, <3>2
  <2> QED
    BY <1>2, <2>2, <2>3, <2>4, <2>5
<1>3. CASE ~\E f \in r.findings : f.source = o.source /\ Blocker(f)
  <2>1. own = {}
    BY <1>1, <1>3, RejectedHasRejection
  <2>2. o.bytes \notin {None, "unsealed"}
    BY <1>1, <1>3 DEF ValidResult, ValidObservations, ValidObservation
  <2> QED
    BY <1>3, <2>1, <2>2
<1> QED
  BY <1>2, <1>3

\* Every source of a sealed result has one decision (validate_validation_result).
THEOREM EverySourceIsDecidedOnceHolds == Spec => []EverySourceIsDecidedOnce
<1>1. ASSUME IngestInv PROVE EverySourceIsDecidedOnce
  <2> SUFFICES ASSUME NEW r \in Sealed("result")
      PROVE  /\ r.observed = r.accepted + r.rejected
             /\ \A o \in r.observations :
                  LET own == {x \in r.rejections : x.source = o.source} IN
                  IF \E f \in r.findings : f.source = o.source /\ Blocker(f)
                  THEN Cardinality(own) = 1 /\ \A x \in own : x.bytes = o.bytes
                                            /\ x.findings = Of(r.findings, o.source)
                  ELSE own = {} /\ o.bytes \notin {None, "unsealed"}
             /\ \A f \in r.findings : ~f.report => f.source \in Observed(r)
    BY DEF EverySourceIsDecidedOnce
  <2>1. ValidResult(r) /\ IsFiniteSet(r.observations) /\ IsFiniteSet(r.rejections)
    BY <1>1 DEF IngestInv, WasVerified, Sealed
  <2>2. r.observed = r.accepted + r.rejected
    BY <2>1, CountsAddUp
  <2>3. ASSUME NEW f \in r.findings, ~f.report PROVE f.source \in Observed(r)
    <3>1. f.source # None
      BY <2>1, <2>3 DEF ValidResult, ValidFindings, ValidFinding, ValidShape
    <3> QED
      BY <2>1, <3>1 DEF ValidResult, ValidObservations
  <2> QED
    BY <2>1, <2>2, <2>3, DecidedByFindings
<1> QED
  BY <1>1, IngestInvariantHolds, PTL

\* What a bundle was made of is in its projection or in its journal
\* (validate_owner_generation, validate_owner_bundle_values).
THEOREM NothingIsDroppedHolds == Spec => []NothingIsDropped
<1>1. ASSUME IngestInv PROVE NothingIsDropped
  <2> SUFFICES ASSUME NEW b \in bundles
      PROVE  /\ Cardinality(b.owner.result.observations)
                   = b.owner.inner.manifest.sources + b.journal.count
             /\ \A o \in b.owner.result.observations :
                   o.class = "rejected" <=> \E x \in b.journal.rejections : x.source = o.source
             /\ b.owner.mode = "strict" => b.journal.rejections = {}
    BY DEF NothingIsDropped
  <2>1. /\ b.owner \in Offered /\ b.owner.kind = "owner"
        /\ ValidOwner(b.owner) /\ ValidJournal(b.journal)
        /\ BindsBundle(b.owner, b.journal, b.pointer)
    BY <1>1 DEF IngestInv, Bundles, Owners, Journals, Offer
  <2>2. /\ ValidResult(b.owner.result)
        /\ IsFiniteSet(b.owner.result.observations) /\ IsFiniteSet(b.owner.result.rejections)
    BY <2>1 DEF ValidOwner
  <2>3. /\ b.owner.inner.manifest.sources = b.owner.result.accepted
        /\ b.journal.rejections = b.owner.result.rejections
        /\ b.journal.count = Cardinality(b.journal.rejections)
        /\ b.owner.mode = "strict" => b.owner.result.intrinsic_valid
    BY <2>1 DEF ValidOwner, ValidJournal, BindsResult, BindsBundle
  <2>4. b.owner.mode = "strict" => b.journal.rejections = {}
    BY <2>2, <2>3 DEF ValidResult, ValidSummary
  <2> QED
    BY <2>2, <2>3, <2>4, CountsAddUp, RejectedHasRejection
<1> QED
  BY <1>1, IngestInvariantHolds, PTL
=============================================================================

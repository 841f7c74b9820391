---------------------------- MODULE IngestEnvelopes ----------------------------
(***************************************************************************)
(* The ingest envelopes that GKOS Full writes and Lite verifies: validation *)
(* result, rejections and their journal, owner generation, pointer, and the *)
(* envelopes of the authority.  Each is verified by itself, an owner, a     *)
(* journal and a pointer also as a bundle; verified is what has a seal.     *)
(*                                                                         *)
(* An array that must be sorted and without doubles is a set.  A digest is  *)
(* the kind and the content that it was taken of, and file names and ids,   *)
(* which are parts of digests, are those digests.                           *)
(***************************************************************************)
EXTENDS IngestProfile

CONSTANTS
  Offered,               \* envelopes that may be handed over
  Class(_),              \* of a finding's code: which coordinate rule it has
  CodeFloor(_),          \* of a code without a place in the profile
  MaxVerified            \* how many envelopes and bundles

\* An envelope is a record with a kind.  Of those that are compared field by field
\* the digest is a field; a profile is typed and lists are finite, as in JSON.
ASSUME EnvelopeAssumption ==
  /\ MaxVerified \in Nat
  /\ \A e \in Offered :
       /\ e = [f \in DOMAIN e |-> e[f]]
       /\ e.kind \in {"owner", "journal"} => "digest" \in DOMAIN e
       /\ e.kind = "profile" => TypedProfile(e.normalized)
       /\ e.kind = "result" => IsFiniteSet(e.observations) /\ IsFiniteSet(e.rejections)
       /\ e.kind = "owner" => /\ IsFiniteSet(e.result.observations)
                              /\ IsFiniteSet(e.result.rejections)

VARIABLES verified, bundles
vars == <<verified, bundles>>

Digest(kind, content) == <<kind, content>>

\* An envelope that carries the digest of the rest of itself.
Without(e, fields) == [f \in DOMAIN e \ fields |-> e[f]]
BindsItself(e) == e.digest = Digest(e.kind, Without(e, {"digest"}))

-----------------------------------------------------------------------------
(* Findings.  [code, severity, report, scope, basis, line, field, source]   *)

Blocking(severity) == severity >= 2

At(f, scope, basis, line, field) ==
  /\ f.scope = scope /\ f.basis = basis
  /\ f.line <=> line
  /\ (f.field # None) <=> field

InFrontmatterOrMissing(f) ==
  \/ At(f, "field", "missing_field", FALSE, TRUE)
  \/ At(f, "field", "frontmatter_field", TRUE, TRUE)

\* Only the conflict of the authorized view is reported and is of no source.
ValidShape(f) ==
  IF Class(f.code) = "conflict"
  THEN /\ f.report /\ f.source = None /\ f.severity = 2
       /\ At(f, "corpus", "corpus", FALSE, FALSE)
  ELSE
    /\ ~f.report /\ f.source # None
    /\ Class(f.code) \notin {"unknown", "diagnostic"} => f.severity = 2
    /\ CASE Class(f.code) \in {"scan", "projection"} ->
                At(f, "file", "file_observation", FALSE, FALSE)
         [] Class(f.code) = "link" -> At(f, "file", "document_line", TRUE, FALSE)
         [] Class(f.code) = "parser" -> At(f, "frontmatter", "document_line", TRUE, FALSE)
         [] Class(f.code) = "frontmatter" ->
                At(f, "frontmatter", "missing_field", FALSE, FALSE)
         [] Class(f.code) = "unmapped" ->
                At(f, "frontmatter", "file_observation", FALSE, FALSE)
         [] Class(f.code) = "required" -> At(f, "field", "missing_field", FALSE, TRUE)
         [] Class(f.code) \in {"relationship", "enum", "length", "minimum", "type"} ->
                At(f, "field", "frontmatter_field", TRUE, TRUE)
         [] Class(f.code) = "unknown" ->
                /\ At(f, "frontmatter", "frontmatter_field", TRUE, FALSE)
                /\ f.severity \in {1, 2}
         [] Class(f.code) \in {"identity", "diagnostic"} -> InFrontmatterOrMissing(f)

Severity(n, code) ==
  IF code \in DOMAIN n.severity THEN n.severity[code]
  ELSE IF Class(code) = "unknown" THEN n.unknown ELSE CodeFloor(code)

RuledBy(n, f) == f.field \in DOMAIN n.fields

\* The finding is one that validating under this profile could have.
PossibleUnder(n, f) ==
  /\ f.severity = Severity(n, f.code)
  /\ Class(f.code) = "unknown" => n.unknown > 0
  /\ Class(f.code) = "required" => f.field \in n.required
  /\ Class(f.code) = "enum" => RuledBy(n, f) /\ n.fields[f.field].enum # None
  /\ Class(f.code) = "length" => RuledBy(n, f) /\ n.fields[f.field].kind = "string"
  /\ Class(f.code) = "minimum" => f.field = "sensitivity" /\ n.minimum > 0
  /\ Class(f.code) = "type" => RuledBy(n, f)

ValidFinding(n, f) == ValidShape(f) /\ PossibleUnder(n, f)
Blocker(f) == Blocking(f.severity) /\ ~f.report
Of(F, source) == {f \in F : f.source = source}

-----------------------------------------------------------------------------
(* A result: what was observed, found and rejected.  source is a path and   *)
(* the ordinal of one of the observations of it; bytes are None, "unsealed" *)
(* (a size and no digest), or a digest.                                     *)

ValidRejection(n, c, r) ==
  /\ ValidCoordinate(r.coordinate, n) /\ r.coordinate = c
  /\ r.findings # {}
  /\ \A f \in r.findings : ValidFinding(n, f) /\ f.source = r.source
  /\ \E f \in r.findings : Blocker(f)
  /\ BindsItself(r)

ValidFindings(r) == \A f \in r.findings : ValidFinding(r.normalized, f)

Observed(r) == {o.source : o \in r.observations}

ValidObservation(r, o) ==
  LET blockers == {f \in Of(r.findings, o.source) : Blocker(f)} IN
  /\ o.findings = Of(r.findings, o.source)
  /\ o.blockers = blockers
  /\ o.class = IF blockers = {} THEN "accepted" ELSE "rejected"
  /\ o.class = "accepted" => o.bytes \notin {None, "unsealed"}

ValidObservations(r) ==
  /\ \A o, p \in r.observations : o.source = p.source => o = p
  /\ \A s \in Observed(r) : \A i \in 0..s[2] : <<s[1], i>> \in Observed(r)
  /\ \A o \in r.observations : ValidObservation(r, o)
  /\ {f.source : f \in r.findings} \ {None} \subseteq Observed(r)

\* Mutant of ValidRejections: a rejected source may be left without a rejection.
ValidRejections_Some(r) ==
  /\ \A x, y \in r.rejections : x.source = y.source => x = y
  /\ \A x \in r.rejections :
       /\ ValidRejection(r.normalized, r.coordinate, x)
       /\ x.findings = Of(r.findings, x.source)
       /\ \E o \in r.observations :
            o.source = x.source /\ o.class = "rejected" /\ o.bytes = x.bytes

ValidRejections(r) ==
  /\ \A x, y \in r.rejections : x.source = y.source => x = y
  /\ \A x \in r.rejections :
       /\ ValidRejection(r.normalized, r.coordinate, x)
       /\ x.findings = Of(r.findings, x.source)
       /\ \E o \in r.observations :
            o.source = x.source /\ o.class = "rejected" /\ o.bytes = x.bytes
  /\ {o.source : o \in {p \in r.observations : p.class = "rejected"}}
       \subseteq {x.source : x \in r.rejections}

ValidSummary(r) ==
  /\ r.counts = [s \in 0..3 |-> Cardinality({f \in r.findings : f.severity = s})]
  /\ r.observed = Cardinality(r.observations)
  /\ r.accepted = Cardinality({o \in r.observations : o.class = "accepted"})
  /\ r.rejected = Cardinality(r.rejections)
  /\ r.corpus_valid <=> \A f \in r.findings : ~Blocking(f.severity)
  /\ r.intrinsic_valid <=> \A f \in r.findings : ~Blocker(f)
  /\ r.intrinsic_valid <=> r.rejections = {}

ValidResult(r) ==
  /\ ValidCoordinate(r.coordinate, r.normalized)
  /\ ValidFindings(r) /\ ValidObservations(r) /\ ValidRejections(r) /\ ValidSummary(r)

ValidJournal(j) ==
  /\ ValidCoordinate(j.coordinate, j.normalized)
  /\ j.count = Cardinality(j.rejections)
  /\ \A x \in j.rejections : ValidRejection(j.normalized, j.coordinate, x)
  /\ \A x, y \in j.rejections : x.source = y.source => x = y
  /\ BindsItself(j)

-----------------------------------------------------------------------------
(* The owner of a generation, and the pointer to it. *)

\* Of a schema-3 manifest: what the projection was made of, and how much.
ValidManifest(m) ==
  /\ m.represented <= m.sources /\ m.eligible <= m.chunks
  /\ \/ m.provider = None /\ m.dimensions = None
     \/ m.provider # None /\ m.dimensions # None /\ m.dimensions > 0

Snapshot(r) == Digest("snapshot", <<r.coordinate.effective, r.observations>>)

JournalDigest(o) ==
  Digest("journal", [kind |-> "journal", snapshot |-> o.snapshot,
                     coordinate |-> o.coordinate, normalized |-> o.normalized,
                     count |-> Cardinality(o.result.rejections),
                     rejections |-> o.result.rejections])

\* Mutant of BindsResult: how many sources the projection has is not compared.
BindsResult_AnySize(o) ==
  /\ o.result.coordinate = o.coordinate /\ o.result.normalized = o.normalized
  /\ o.mode = "strict" => o.result.intrinsic_valid
  /\ o.snapshot = Snapshot(o.result)
  /\ ValidManifest(o.inner.manifest)
  /\ o.inner.digest = Digest("manifest", o.inner.manifest)
  /\ o.inner.manifest.snapshot = o.snapshot
  /\ o.journal = JournalDigest(o)

BindsResult(o) ==
  /\ o.result.coordinate = o.coordinate /\ o.result.normalized = o.normalized
  /\ o.mode = "strict" => o.result.intrinsic_valid
  /\ o.snapshot = Snapshot(o.result)
  /\ ValidManifest(o.inner.manifest)
  /\ o.inner.digest = Digest("manifest", o.inner.manifest)
  /\ o.inner.manifest.snapshot = o.snapshot
  /\ o.inner.manifest.vault = o.vault /\ o.inner.manifest.settings = o.settings
  /\ o.inner.manifest.sources = o.result.accepted
  /\ o.journal = JournalDigest(o) /\ o.count = Cardinality(o.result.rejections)

ValidOwner(o) ==
  /\ ValidCoordinate(o.coordinate, o.normalized)
  /\ ValidResult(o.result) /\ BindsResult(o)
  /\ BindsItself(o)

Projection(inner) == <<inner.digest, inner.manifest.projection>>
PointerTo(owner, projection) == [kind |-> "pointer", owner |-> owner, projection |-> projection]

\* Mutant of BindsBundle: only the journal's count is compared.
BindsBundle_Count(o, j, p) ==
  /\ p = PointerTo(o.digest, Projection(o.inner))
  /\ o.count = j.count

BindsBundle(o, j, p) ==
  /\ p = PointerTo(o.digest, Projection(o.inner))
  /\ o.journal = j.digest /\ o.count = j.count /\ o.snapshot = j.snapshot
  /\ o.coordinate = j.coordinate /\ o.normalized = j.normalized
  /\ o.result.rejections = j.rejections

-----------------------------------------------------------------------------
(* The authority.  Whoever names an active generation gives its owner, its  *)
(* projection and the digest of the pointer with which they are active.     *)

PointerDigest(owner, projection) == Digest("pointer bytes", PointerTo(owner, projection))

\* Mutant of NamesActive: the digest of the pointer is not derived.
NamesActive_AnyPointer(a) == a.pointer # None

NamesActive(a) == a.pointer = PointerDigest(a.owner, a.projection)

ValidPrior(a) ==
  a # None => a.kind \in {"legacy", "ingest"} /\ (a.kind = "ingest" => NamesActive(a))

Attempt(s) == Digest("attempt", <<s.snapshot, s.effective>>)

ValidStatus(s) ==
  /\ ValidPrior(s.prior)
  /\ s.availability = IF s.prior = None THEN "unavailable" ELSE "stale"
  /\ s.attempt = Attempt(s) /\ BindsItself(s)

ValidMigration(m) ==
  /\ m.legacy_digest = IF m.legacy = None THEN None ELSE Digest("legacy bytes", m.legacy)
  /\ BindsItself(m)

Tombstone(owner, migration) ==
  [kind |-> "tombstone", owner |-> owner, migration |-> migration]

RootFields == {"owner", "projection", "migration", "legacy_digest",
               "tombstone", "pointer", "lock"}

RootDigest(r) ==
  Digest("root", [f \in RootFields \cup {"kind"} |-> IF f = "kind" THEN "root" ELSE r[f]])

\* Of the root of an activation, and of the witness that repeats it.
ValidActivation(r) ==
  /\ NamesActive(r)
  /\ r.tombstone = Digest("tombstone", Tombstone(r.owner, r.migration))

ValidRoot(r) == ValidActivation(r) /\ BindsItself(r)

ValidWitness(w) ==
  /\ w.state \in {"activating", "active"}
  /\ ValidActivation(w) /\ w.root = RootDigest(w) /\ BindsItself(w)

ValidLock(l) ==
  /\ ValidPrior(l.prior)
  /\ \/ l.operation = "preflight" /\ l.target = None
     \/ l.operation = "activation" /\ l.target # None /\ NamesActive(l.target)
     \/ l.operation = "blocked" /\ l.target # None
  /\ BindsItself(l)

\* statuses: the verified attempt statuses of which one may be handed over too.
ValidIndexResult(x, statuses) ==
  /\ ValidPrior(x.active)
  /\ x.status # "operational_failure" => x.observed = x.accepted + x.rejected
  /\ \/ /\ x.status = "published" /\ x.active # None /\ x.active.kind = "ingest"
        /\ x.blocked = None /\ x.rejected = 0
     \/ /\ x.status = "published_with_rejections" /\ x.active # None
        /\ x.active.kind = "ingest" /\ x.blocked = None
        /\ x.mode = "non_strict" /\ x.rejected > 0
     \/ /\ x.status = "blocked_strict" /\ x.mode = "strict" /\ x.rejected > 0
        /\ \E s \in statuses : x.active = s.prior /\ x.blocked = <<s.attempt, s.digest>>
     \/ x.status = "operational_failure" /\ x.active = None /\ x.blocked = None

-----------------------------------------------------------------------------
(* Handing envelopes over. *)

Sealed(kind) == {e \in verified : e.kind = kind}
Offer(kind) == {e \in Offered : e.kind = kind}

StateKinds == {"pointer", "status", "lock", "witness", "root", "tombstone", "migration"}

ValidState(e) ==
  /\ e.kind = "status" => ValidStatus(e)
  /\ e.kind = "lock" => ValidLock(e)
  /\ e.kind = "witness" => ValidWitness(e)
  /\ e.kind = "root" => ValidRoot(e)
  /\ e.kind = "tombstone" => BindsItself(e)
  /\ e.kind = "migration" => ValidMigration(e)

\* What has a seal whatever else was verified.
Profiles == {e \in Offer("profile") : ValidNormalized(e.normalized)}
Results == {e \in Offer("result") : ValidResult(e)}
Journals == {e \in Offer("journal") : ValidJournal(e)}
Owners == {e \in Offer("owner") : ValidOwner(e)}
States == {e \in Offered : e.kind \in StateKinds /\ ValidState(e)}
Bundles == {b \in [owner : Owners, journal : Journals,
                   pointer : {e \in States : e.kind = "pointer"}] :
              BindsBundle(b.owner, b.journal, b.pointer)}

Room == Cardinality(verified) + Cardinality(bundles) < MaxVerified

Rejections == Offer("rejection")
IndexResults == Offer("index")

Seal(e) ==
  /\ Room /\ e \notin verified
  /\ verified' = verified \cup {e}
  /\ UNCHANGED bundles

VerifyNormalizedProfile == \E e \in Profiles : Seal(e)
VerifyValidationResult == \E e \in Results : Seal(e)
VerifyRejectionJournal == \E e \in Journals : Seal(e)
VerifyOwnerGeneration == \E e \in Owners : Seal(e)
VerifyStateEnvelope == \E e \in States : Seal(e)

\* By itself a rejection is verified against a profile that has its seal.
VerifyRejection ==
  \E e \in {x \in Rejections :
              \E p \in Sealed("profile") : ValidRejection(p.normalized, x.coordinate, x)} :
    Seal(e)

VerifyIndexResult ==
  \E e \in {x \in IndexResults : ValidIndexResult(x, Sealed("status"))} : Seal(e)

VerifyOwnerBundle ==
  /\ Room
  /\ \E b \in Bundles \ bundles : bundles' = bundles \cup {b}
  /\ UNCHANGED verified

Init == verified = {} /\ bundles = {}

Next ==
  \/ VerifyNormalizedProfile \/ VerifyValidationResult \/ VerifyRejection
  \/ VerifyRejectionJournal \/ VerifyOwnerGeneration \/ VerifyStateEnvelope
  \/ VerifyIndexResult \/ VerifyOwnerBundle

Spec == Init /\ [][Next]_vars

-----------------------------------------------------------------------------
\* Every source of a verified result is accepted with its bytes and without a
\* blocking finding, or rejected once with every finding of it; and the numbers
\* of both add up, which no line of the code compares.
EverySourceIsDecidedOnce ==
  \A r \in Sealed("result") :
    /\ r.observed = r.accepted + r.rejected
    /\ \A o \in r.observations :
         LET own == {x \in r.rejections : x.source = o.source} IN
         IF \E f \in r.findings : f.source = o.source /\ Blocker(f)
         THEN Cardinality(own) = 1 /\ \A x \in own : x.bytes = o.bytes
                                                     /\ x.findings = Of(r.findings, o.source)
         ELSE own = {} /\ o.bytes \notin {None, "unsealed"}
    /\ \A f \in r.findings : ~f.report => f.source \in Observed(r)

\* A bundle drops nothing: its projection and its journal have as many sources as
\* were observed, the journal has exactly the rejected ones, and that of a strict
\* bundle is empty.
NothingIsDropped ==
  \A b \in bundles :
    LET seen == b.owner.result.observations IN
    /\ Cardinality(seen) = b.owner.inner.manifest.sources + b.journal.count
    /\ \A o \in seen : o.class = "rejected" <=> \E x \in b.journal.rejections : x.source = o.source
    /\ b.owner.mode = "strict" => b.journal.rejections = {}

\* A pointer stands for one owner and one journal: what was verified with it is
\* all that can be, so parts of two generations never pass as one.
PointerNamesOneBundle ==
  \A a, b \in bundles : a.pointer = b.pointer => a = b

\* The active generations that an envelope names with a pointer.
Names(e) ==
  {a \in {IF e.kind \in {"root", "witness"} THEN e
          ELSE IF e.kind = "status" THEN e.prior
          ELSE IF e.kind = "index" THEN e.active
          ELSE IF e.kind = "lock" /\ e.operation = "activation" THEN e.target ELSE None} :
     a # None /\ a.kind # "legacy"}

\* Envelopes that name the same pointer bytes name the same owner and the same
\* projection, and a witness, a root and a tombstone that refer to each other
\* are of the same activation.
AuthorityIsOneActivation ==
  /\ \A a, b \in UNION {Names(e) : e \in verified} :
       a.pointer = b.pointer => a.owner = b.owner /\ a.projection = b.projection
  /\ \A r \in Sealed("root"), w \in Sealed("witness") :
       w.root = r.digest => \A f \in RootFields : w[f] = r[f]
  /\ \A r \in Sealed("root") \cup Sealed("witness"), t \in Sealed("tombstone") :
       r.tombstone = t.digest => t.owner = r.owner /\ t.migration = r.migration

\* A note, as what its fields hold and its other findings, without a blocking
\* finding under a profile.
Accepts(n, values, codes) ==
  /\ \A f \in DOMAIN n.fields : IF f \in DOMAIN values THEN Admits(n.fields[f], values[f])
                                ELSE ~n.fields[f].required
  /\ "sensitivity" \in DOMAIN values => SensitivityRank(values["sensitivity"]) >= n.minimum
  /\ \A c \in codes : ~Blocking(Severity(n, c))

\* An operator can only tighten: what a verified profile accepts, the built-in
\* one accepts; and every field it demands can be given.
OnlyNarrows ==
  \A n \in {e.normalized : e \in Sealed("profile")} :
    /\ \A held \in SUBSET DOMAIN Baseline.fields, codes \in SUBSET DOMAIN Baseline.severity :
         \A values \in [held -> Text] :
           Accepts(n, values, codes) => Accepts(Baseline, values, codes)
    /\ \A f \in n.required : n.fields[f].enum # None =>
         \E v \in n.fields[f].enum : Admits(n.fields[f], v)
=============================================================================

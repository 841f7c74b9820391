----------------------------- MODULE ProviderProof -----------------------------
(***************************************************************************)
(* What a host lets providers do, for any files, options, texts, limits,    *)
(* spaces and answers: which vectors a generation holds, where providers and *)
(* secrets come from, and whose score a candidate gets.                      *)
(***************************************************************************)
EXTENDS EmbeddingBatches, ConfiguredProviders, FiniteSetTheorems, SequenceTheorems, TLAPS

-----------------------------------------------------------------------------
(* Embedding. *)

\* What a call has gathered is its own, and complete but for what is to be sent.
GatheredIsOwn ==
  phase # "idle" =>
    /\ \A t \in Known(vectors) : vectors[t] = [text |-> t, model |-> model]
    /\ model = NoModel => Known(vectors) = {} /\ toSend = {}
    /\ model # NoModel => toSend = input \ Known(vectors)

\* The vector stage of a generation is complete or absent.
CompleteOrAbsent ==
  Known(active.vectors) = IF active.model = NoModel THEN {} ELSE active.texts

\* A request is for texts still to be sent.
RequestIsPending ==
  /\ request.texts \subseteq toSend
  /\ IF phase = "waiting" THEN model # NoModel ELSE request = NoRequest

\* Texts are answered once.
OffsetCounts == offset + Cardinality(toSend) <= Texts

EmbeddingInv ==
  /\ TypeOK
  /\ VectorsAreOwn
  /\ CompleteOrAbsent
  /\ GatheredIsOwn
  /\ RequestIsPending
  /\ OffsetCounts

USE EmbeddingAssumption

\* Sets of texts are finite.
LEMMA TextsAreFinite ==
  ASSUME NEW S \in SUBSET Text
  PROVE  IsFiniteSet(S) /\ Cardinality(S) \in 0..Texts
<1>1. IsFiniteSet(Text) /\ Cardinality(Text) = Texts
  BY FS_Interval DEF Text
<1>2. IsFiniteSet(S) /\ Cardinality(S) <= Cardinality(Text)
  BY <1>1, FS_Subset
<1> QED
  BY <1>1, <1>2, FS_CardinalityType

\* A place in a request belongs to one text.
LEMMA PositionIsInjective ==
  ASSUME NEW S \in SUBSET Text, NEW t \in S, NEW u \in S,
         Position(S, t) = Position(S, u)
  PROVE  t = u
<1>0. \A x \in S : x \in Nat
  BY DEF Text
<1>1. /\ t \in UpTo(S, t) /\ u \in UpTo(S, u)
      /\ UpTo(S, t) \in SUBSET Text /\ UpTo(S, u) \in SUBSET Text
  BY <1>0 DEF UpTo
<1>2. \A x, y \in S : x <= y => UpTo(S, x) \subseteq UpTo(S, y)
  BY <1>0 DEF UpTo
<1>3. UpTo(S, t) = UpTo(S, u)
  <2>1. CASE t <= u
    <3>1. UpTo(S, t) \in SUBSET UpTo(S, u)
      BY <1>2, <2>1
    <3> QED
      BY <1>1, <3>1, TextsAreFinite, FS_Subset DEF Position
  <2>2. CASE u <= t
    <3>1. UpTo(S, u) \in SUBSET UpTo(S, t)
      BY <1>2, <2>2
    <3> QED
      BY <1>1, <3>1, TextsAreFinite, FS_Subset DEF Position
  <2> QED
    BY <1>0, <2>1, <2>2
<1> QED
  BY <1>0, <1>1, <1>3 DEF UpTo

\* An accepted answer gives each text of the request its own vector, in
\* whatever order its items arrived.
LEMMA AnswersAreOwn ==
  ASSUME TypeOK, NEW a \in Answer, Accepted(a), NEW t \in request.texts
  PROVE  VectorFor(a, t) = [text |-> t, model |-> model]
<1>1. a.request = request /\ a.model = model
  BY DEF Accepted, Correlated, Answer
<1>2. \E k \in DOMAIN a.index : a.index[k] = Position(request.texts, t)
  BY DEF Accepted, Complete
<1>3. a.index[ItemFor(a, t)] = Position(request.texts, t)
  BY <1>2 DEF ItemFor
<1>4. request.texts \in SUBSET Text
  BY DEF TypeOK, Request
<1>5. TextAt(request.texts, Position(request.texts, t)) = t
  <2>1. \A u \in request.texts :
          Position(request.texts, u) = Position(request.texts, t) => u = t
    BY <1>4, PositionIsInjective
  <2> QED
    BY <2>1 DEF TextAt
<1> QED
  BY <1>1, <1>3, <1>5 DEF VectorFor

\* At the start there are no vectors and nothing to send.
LEMMA EmbeddingInit == Init => EmbeddingInv
<1> SUFFICES ASSUME Init PROVE EmbeddingInv
  OBVIOUS
<1>1. NoVectors \in [Text -> Vector \cup {NoVector}] /\ Known(NoVectors) = {}
  BY DEF NoVectors, Known
<1>2. TypeOK
  BY <1>1 DEF Init, TypeOK, Generation, Request, NoRequest
<1>3. VectorsAreOwn /\ CompleteOrAbsent
  BY <1>1 DEF Init, VectorsAreOwn, CompleteOrAbsent
<1>4. GatheredIsOwn /\ RequestIsPending
  BY DEF Init, GatheredIsOwn, RequestIsPending, NoRequest
<1>5. OffsetCounts
  BY FS_EmptySet DEF Init, OffsetCounts
<1> QED
  BY <1>2, <1>3, <1>4, <1>5 DEF EmbeddingInv

\* What the cache gives is the call's own.
LEMMA StartInv ==
  ASSUME EmbeddingInv,
         NEW texts \in SUBSET Text, NEW m \in Model \cup {NoModel}, NEW readable \in BOOLEAN,
         StartIndex(texts, m, readable)
  PROVE  EmbeddingInv'
<1> USE DEF EmbeddingInv
<1> DEFINE found == Cached(m, readable)
<1>1. /\ found \in [Text -> Vector \cup {NoVector}]
      /\ \A t \in Known(found) : found[t] = [text |-> t, model |-> m]
      /\ m = NoModel => Known(found) = {}
  <2>1. NoVectors \in [Text -> Vector \cup {NoVector}] /\ Known(NoVectors) = {}
    BY DEF NoVectors, Known
  <2>2. CASE found = NoVectors
    BY <2>1, <2>2
  <2>3. CASE active.model = m /\ found = active.vectors
    BY <2>3 DEF TypeOK, Generation, VectorsAreOwn, CompleteOrAbsent
  <2> QED
    BY <2>2, <2>3 DEF Cached
<1>2. /\ calls < MaxCalls /\ calls' = calls + 1 /\ phase = "idle"
      /\ input' = texts /\ model' = m /\ vectors' = found
      /\ toSend' = IF m = NoModel THEN {} ELSE texts \ Known(found)
      /\ offset' = 0 /\ phase' = "embedding"
      /\ UNCHANGED <<active, request, asked>>
  BY DEF StartIndex
<1> HIDE DEF found
<1>3. TypeOK'
  BY <1>1, <1>2 DEF TypeOK
<1>4. VectorsAreOwn' /\ CompleteOrAbsent'
  BY <1>2 DEF VectorsAreOwn, CompleteOrAbsent, Known
<1>5. GatheredIsOwn'
  BY <1>1, <1>2 DEF GatheredIsOwn, Known
<1>6. RequestIsPending'
  BY <1>2 DEF RequestIsPending, NoRequest
<1>7. OffsetCounts'
  BY <1>2, TextsAreFinite DEF OffsetCounts
<1> QED
  BY <1>3, <1>4, <1>5, <1>6, <1>7

\* A request is a part of what is to be sent.
LEMMA SendInv ==
  ASSUME EmbeddingInv, SendBatch
  PROVE  EmbeddingInv'
<1> USE DEF EmbeddingInv, callVars
<1>1. Batch \subseteq toSend
  BY DEF Batch
<1>2. model # NoModel
  BY DEF SendBatch, GatheredIsOwn
<1>3. TypeOK'
  BY <1>1 DEF SendBatch, TypeOK, Request
<1>4. VectorsAreOwn' /\ CompleteOrAbsent' /\ OffsetCounts'
  BY DEF SendBatch, VectorsAreOwn, CompleteOrAbsent, OffsetCounts
<1>5. GatheredIsOwn'
  BY DEF SendBatch, GatheredIsOwn
<1>6. RequestIsPending'
  BY <1>1, <1>2 DEF SendBatch, RequestIsPending
<1> QED
  BY <1>3, <1>4, <1>5, <1>6

\* Publishing vectors that are own and complete, or none.
LEMMA PublishInv ==
  ASSUME EmbeddingInv,
         NEW m \in Model \cup {NoModel}, NEW v \in [Text -> Vector \cup {NoVector}],
         \A t \in Known(v) : v[t] = [text |-> t, model |-> m],
         Known(v) \cap input = IF m = NoModel THEN {} ELSE input,
         Publish(m, v)
  PROVE  EmbeddingInv'
<1> USE DEF EmbeddingInv, callVars
<1> DEFINE kept == [t \in Text |-> IF t \in input THEN v[t] ELSE NoVector]
<1>1. /\ active' = [model |-> m, texts |-> input, vectors |-> kept]
      /\ phase' = "idle" /\ request' = NoRequest
      /\ UNCHANGED <<calls, callVars, asked>>
  BY DEF Publish
<1>2. kept \in [Text -> Vector \cup {NoVector}] /\ Known(kept) = Known(v) \cap input
  BY DEF Known, TypeOK
<1>3. \A t \in Known(kept) : kept[t] = v[t]
  BY DEF Known
<1> HIDE DEF kept
<1>4. TypeOK'
  BY <1>1, <1>2 DEF TypeOK, Generation, NoRequest, Request
<1>5. VectorsAreOwn' /\ CompleteOrAbsent'
  BY <1>1, <1>2, <1>3 DEF VectorsAreOwn, CompleteOrAbsent, Known
<1>6. GatheredIsOwn' /\ RequestIsPending' /\ OffsetCounts'
  BY <1>1 DEF GatheredIsOwn, RequestIsPending, OffsetCounts, NoRequest
<1> QED
  BY <1>4, <1>5, <1>6

\* An accepted answer completes its request, and only that.
LEMMA ReceiveInv ==
  ASSUME EmbeddingInv, Receive
  PROVE  EmbeddingInv'
<1> USE DEF EmbeddingInv
<1> PICK a \in Answer :
      /\ Accepted(a)
      /\ vectors' = [t \in Text |-> IF t \in request.texts THEN VectorFor(a, t) ELSE vectors[t]]
  BY DEF Receive
<1>1. /\ phase = "waiting" /\ toSend' = toSend \ request.texts
      /\ offset' = offset + Cardinality(request.texts)
      /\ phase' = "embedding" /\ request' = NoRequest
      /\ UNCHANGED <<active, calls, input, model, asked>>
  BY DEF Receive
<1>2. \A t \in request.texts : VectorFor(a, t) = [text |-> t, model |-> model]
  BY AnswersAreOwn
<1>3. request.texts \in SUBSET toSend /\ toSend \in SUBSET Text /\ model \in Model
  BY <1>1 DEF RequestIsPending, TypeOK
<1>4. /\ vectors' \in [Text -> Vector \cup {NoVector}]
      /\ Known(vectors') = Known(vectors) \cup request.texts
      /\ \A t \in Known(vectors') : vectors'[t] = [text |-> t, model |-> model]
  <2>1. \A t \in request.texts : VectorFor(a, t) \in Vector /\ VectorFor(a, t) # NoVector
    BY <1>2, <1>3 DEF Vector
  <2> QED
    BY <1>1, <1>2, <1>3, <2>1 DEF TypeOK, Known, GatheredIsOwn
<1>5. OffsetCounts' /\ offset' \in 0..Texts
  <2>1. toSend \cap request.texts = request.texts
    BY <1>3
  <2>2. Cardinality(toSend') = Cardinality(toSend) - Cardinality(request.texts)
    BY <1>1, <1>3, <2>1, TextsAreFinite, FS_Difference
  <2>3. /\ Cardinality(toSend) \in Nat /\ Cardinality(request.texts) \in Nat
        /\ Cardinality(toSend') \in Nat
    BY <1>1, <1>3, TextsAreFinite
  <2> QED
    BY <1>1, <2>2, <2>3 DEF OffsetCounts, TypeOK
<1>6. TypeOK'
  BY <1>1, <1>4, <1>5 DEF TypeOK, NoRequest, Request
<1>7. VectorsAreOwn' /\ CompleteOrAbsent'
  BY <1>1 DEF VectorsAreOwn, CompleteOrAbsent, Known
<1>8. GatheredIsOwn'
  <2>1. toSend = input \ Known(vectors) /\ model # NoModel
    BY <1>1, <1>3 DEF GatheredIsOwn
  <2>2. toSend' = input \ Known(vectors')
    BY <1>1, <1>4, <2>1
  <2> QED
    BY <1>1, <1>4, <2>1, <2>2 DEF GatheredIsOwn, Known
<1>9. RequestIsPending'
  BY <1>1 DEF RequestIsPending, NoRequest
<1> QED
  BY <1>5, <1>6, <1>7, <1>8, <1>9

\* The other ends of a call.
LEMMA EndInv ==
  ASSUME EmbeddingInv, Refuse \/ Timeout \/ PublishVectors \/ Abandon
  PROVE  EmbeddingInv'
<1> USE DEF EmbeddingInv, callVars
<1>0. NoVectors \in [Text -> Vector \cup {NoVector}] /\ Known(NoVectors) = {}
  BY DEF NoVectors, Known
<1>1. CASE Refuse \/ Timeout
  <2>1. Publish(NoModel, NoVectors)
    BY <1>1 DEF Refuse, Timeout
  <2> QED
    BY <1>0, <2>1, PublishInv
<1>2. CASE PublishVectors
  <2>1. CASE Publish(NoModel, NoVectors)
    BY <1>0, <2>1, PublishInv
  <2>2. CASE model # NoModel /\ input \subseteq Known(vectors) /\ Publish(model, vectors)
    <3>1. \A t \in Known(vectors) : vectors[t] = [text |-> t, model |-> model]
      BY <1>2 DEF PublishVectors, GatheredIsOwn
    <3>2. model \in Model \cup {NoModel} /\ vectors \in [Text -> Vector \cup {NoVector}]
      BY DEF TypeOK
    <3> QED
      BY <2>2, <3>1, <3>2, PublishInv
  <2> QED
    BY <1>2, <2>1, <2>2 DEF PublishVectors
<1>3. CASE Abandon
  <2>1. TypeOK'
    BY <1>3 DEF Abandon, TypeOK, NoRequest, Request
  <2>2. VectorsAreOwn' /\ CompleteOrAbsent' /\ OffsetCounts'
    BY <1>3 DEF Abandon, VectorsAreOwn, CompleteOrAbsent, OffsetCounts
  <2>3. GatheredIsOwn' /\ RequestIsPending'
    BY <1>3 DEF Abandon, GatheredIsOwn, RequestIsPending, NoRequest
  <2> QED
    BY <2>1, <2>2, <2>3
<1> QED
  BY <1>1, <1>2, <1>3

\* The invariant of a step.
LEMMA EmbeddingStep == EmbeddingInv /\ [Next]_vars => EmbeddingInv'
<1>1. EmbeddingInv /\ UNCHANGED vars => EmbeddingInv'
  BY DEF EmbeddingInv, TypeOK, VectorsAreOwn, CompleteOrAbsent, GatheredIsOwn,
     RequestIsPending, OffsetCounts, vars, callVars
<1>2. EmbeddingInv /\ Next => EmbeddingInv'
  BY StartInv, SendInv, ReceiveInv, EndInv DEF Next
<1> QED
  BY <1>1, <1>2

\* The invariant of indexing calls.
THEOREM EmbeddingInvariantHolds == Spec => []EmbeddingInv
<1> QED
  BY EmbeddingInit, EmbeddingStep, PTL DEF Spec

\* A vector of the active generation is the vector of its own text, in the
\* space of the generation.
THEOREM VectorsAreOwnHolds == Spec => []VectorsAreOwn
<1>1. EmbeddingInv => VectorsAreOwn
  BY DEF EmbeddingInv
<1> QED
  BY <1>1, EmbeddingInvariantHolds, PTL

\* When everything has been sent, every text has its vector.
THEOREM NothingSkippedHolds == Spec => []NothingSkipped
<1>1. EmbeddingInv => NothingSkipped
  BY DEF EmbeddingInv, GatheredIsOwn, NothingSkipped
<1> QED
  BY <1>1, EmbeddingInvariantHolds, PTL

\* A generation has the vectors of all its texts, or none.
THEOREM VectorStageIsCompleteOrAbsent == Spec => []CompleteOrAbsent
<1>1. EmbeddingInv => CompleteOrAbsent
  BY DEF EmbeddingInv
<1> QED
  BY <1>1, EmbeddingInvariantHolds, PTL

\* No text is sent whose vector is known, or that is not to be indexed.
THEOREM OnlyNewIsSentHolds == Spec => OnlyNewIsSent
<1> DEFINE NewOnly ==
      phase' = "waiting" =>
        request'.texts \subseteq input /\ request'.texts \cap Known(vectors) = {}
<1>1. EmbeddingInv /\ [Next]_vars => [NewOnly]_vars
  <2> SUFFICES ASSUME EmbeddingInv, Next, phase' = "waiting"
               PROVE  NewOnly
    OBVIOUS
  <2>1. SendBatch
    BY DEF Next, StartIndex, Receive, Refuse, Timeout, PublishVectors, Abandon, Publish
  <2>2. request'.texts \subseteq toSend /\ toSend = input \ Known(vectors)
    BY <2>1 DEF SendBatch, Batch, EmbeddingInv, GatheredIsOwn
  <2> QED
    BY <2>2
<1> QED
  BY <1>1, EmbeddingInvariantHolds, PTL DEF Spec, OnlyNewIsSent

HIDE EmbeddingAssumption

-----------------------------------------------------------------------------
(* Discovery: where a file may come from, and what is known of the vault's own. *)

HasVault == options.vault # NoPath

\* A file that may route: the vault's notes are no such files, unless named.
MayRoute(path) ==
  HasVault /\ Contained(path, Absolute(options.vault)) => Named(path)

\* A candidate is the vault's own file, to be judged, or a file that may route.
CandidatePath == {Absolute(options.explicit), ConfigIn(Absolute(options.cwd)), ConfigIn(Workspace),
                  Absolute(options.user)}

TrustedProvenance == {"explicit", "trusted_cwd", "workspace_root", "user"}

VaultRecord == [path |-> VaultFile, provenance |-> "vault"]

CandidateRecord ==
  {VaultRecord} \cup [path : {p \in CandidatePath : MayRoute(p)}, provenance : TrustedProvenance]

\* The vault's own file is still to be looked at.
VaultIsPending == \E i \in DOMAIN queue : queue[i] = VaultRecord

\* It does not route beside the file that is selected, or was put there meanwhile.
VaultIsJudged ==
  changes = 0 /\ Exists(VaultFile) /\ (selected = NoConfig \/ VaultFile # selected.path) =>
    VaultSafe(files[VaultFile].document)

DiscoveryInv ==
  /\ changes \in Nat
  /\ queue \in Seq(CandidateRecord)
  /\ pc \in {"inspect", "read"} => queue # <<>>
  /\ pc \in {"look", "inspect", "read"} /\ HasVault => Absolute(options.vault) # NoPath
  /\ pc \in {"found", "ready"} => queue = <<>>
  /\ selected # NoConfig => MayRoute(selected.path)
  /\ pc \in {"look", "inspect", "read", "found", "ready"} /\ HasVault =>
       VaultIsPending \/ VaultIsJudged
  /\ pc = "ready" => selected # NoConfig
  /\ resolved # {} =>
       /\ pc \in {"ready", "failed"}
       /\ resolved \subseteq Asks(selected.document.vectors)
                             \cup Asks(selected.document.reranker)

USE ConfigAssumption, ProviderAssumption

\* A list of one candidate that may route, or of none.
LEMMA OneCandidate ==
  ASSUME NEW path, NEW provenance \in TrustedProvenance,
         path # NoPath => path \in CandidatePath /\ MayRoute(path)
  PROVE  Candidate(path, provenance) \in Seq(CandidateRecord)
<1>1. CASE path = NoPath
  BY <1>1 DEF Candidate
<1>2. CASE path # NoPath
  <2>1. [path |-> path, provenance |-> provenance] \in CandidateRecord
    BY <1>2 DEF CandidateRecord
  <2> QED
    BY <1>2, <2>1 DEF Candidate
<1> QED
  BY <1>1, <1>2

\* The vault's file is the one candidate of its list, if it can be spelled.
LEMMA VaultCandidateIsRecord ==
  ASSUME HasVault, Absolute(options.vault) # NoPath
  PROVE  /\ VaultCandidate \in Seq(CandidateRecord)
         /\ VaultFile # NoPath => VaultCandidate = <<VaultRecord>>
<1>1. InDirectory(TrustedPath(options.vault)) = VaultFile
  BY DEF HasVault, InDirectory, TrustedPath, VaultFile
<1>2. VaultRecord \in CandidateRecord
  BY DEF CandidateRecord
<1>3. VaultFile # NoPath => VaultCandidate = <<VaultRecord>>
  BY <1>1 DEF VaultCandidate, Candidate, VaultRecord
<1>4. VaultFile = NoPath => VaultCandidate = <<>>
  BY <1>1 DEF VaultCandidate, Candidate
<1>5. VaultFile # NoPath => VaultCandidate \in Seq(CandidateRecord)
  <2>1. <<VaultRecord>> \in Seq(CandidateRecord)
    <3> HIDE ConfigAssumption, ProviderAssumption
    <3> QED
      BY <1>2
  <2> QED
    BY <1>3, <2>1
<1>6. VaultFile = NoPath => VaultCandidate \in Seq(CandidateRecord)
  BY <1>4
<1> QED
  BY <1>3, <1>5, <1>6

\* Without a vault there is nothing of its own to look at.
LEMMA NoVaultCandidate ==
  ASSUME ~HasVault
  PROVE  VaultCandidate = <<>>
  BY DEF HasVault, VaultCandidate, Candidate, InDirectory, TrustedPath

\* Every list of candidates is made of records, and the vault's own file is last.
LEMMA CandidatesAreRecords ==
  ASSUME HasVault => Absolute(options.vault) # NoPath
  PROVE  /\ Candidates \in Seq(CandidateRecord)
         /\ HasVault /\ VaultFile # NoPath =>
              \E i \in DOMAIN Candidates : Candidates[i] = VaultRecord
<1> DEFINE S == Seq(CandidateRecord)
           explicit == Candidate(TrustedPath(options.explicit), "explicit")
           here == Candidate(IF options.trustCwd THEN ConfigIn(Absolute(options.cwd)) ELSE NoPath,
                             "trusted_cwd")
           workspace == Candidate(InDirectory(Workspace), "workspace_root")
           user == Candidate(Absolute(options.user), "user")
           first == explicit \o here \o workspace \o user
<1>1. explicit \in S
  <2>1. TrustedPath(options.explicit) # NoPath =>
          /\ TrustedPath(options.explicit) = Absolute(options.explicit)
          /\ Named(Absolute(options.explicit))
    BY DEF TrustedPath, Named
  <2> QED
    BY <2>1, OneCandidate DEF CandidatePath, MayRoute, TrustedPath, TrustedProvenance
<1>2. here \in S
  <2>1. options.trustCwd => Named(ConfigIn(Absolute(options.cwd)))
    BY DEF Named
  <2> QED
    BY <2>1, OneCandidate DEF CandidatePath, MayRoute, TrustedProvenance
<1>3. workspace \in S
  <2>1. CASE Workspace = NoPath
    BY <2>1, OneCandidate DEF InDirectory, TrustedProvenance
  <2>2. CASE Workspace # NoPath
    <3>1. InDirectory(Workspace) = ConfigIn(Workspace)
      BY <2>2 DEF InDirectory
    <3>2. MayRoute(ConfigIn(Workspace))
      <4>1. CASE options.workspace # NoPath
        BY <4>1 DEF Workspace, TrustedPath, MayRoute, Named
      <4>2. CASE options.workspace = NoPath
        BY <2>2, <4>2 DEF Workspace, MayRoute, HasVault
      <4> QED
        BY <4>1, <4>2
    <3> QED
      BY <3>1, <3>2, OneCandidate DEF CandidatePath, TrustedProvenance
  <2> QED
    BY <2>1, <2>2
<1>4. user \in S
  BY OneCandidate DEF CandidatePath, MayRoute, Named, TrustedProvenance
<1>5. VaultCandidate \in S
  <2>1. CASE HasVault
    BY <2>1, VaultCandidateIsRecord
  <2>2. CASE ~HasVault
    BY <2>2, NoVaultCandidate
  <2> QED
    BY <2>1, <2>2
<1>6. Candidates = first \o VaultCandidate
  BY DEF Candidates
<1> HIDE DEF explicit, here, workspace, user
<1>7. first \in S
  BY <1>1, <1>2, <1>3, <1>4
<1> HIDE DEF first
<1>8. Candidates \in S
  BY <1>5, <1>6, <1>7, ConcatProperties
<1>9. ASSUME HasVault, VaultFile # NoPath
      PROVE  \E i \in DOMAIN Candidates : Candidates[i] = VaultRecord
  <2>1. VaultCandidate = <<VaultRecord>>
    BY <1>9, VaultCandidateIsRecord
  <2>2. Len(first) \in Nat /\ Len(VaultCandidate) = 1
    BY <1>7, <2>1, LenProperties
  <2>3. /\ Len(Candidates) = Len(first) + 1
        /\ Candidates[Len(first) + 1] = VaultCandidate[1]
    <3>1. /\ Len(Candidates) = Len(first) + Len(VaultCandidate)
          /\ \A i \in 1..Len(first) + Len(VaultCandidate) :
               Candidates[i] = IF i <= Len(first) THEN first[i] ELSE VaultCandidate[i - Len(first)]
      BY <1>5, <1>6, <1>7, ConcatProperties
    <3> QED
      BY <2>2, <3>1
  <2>4. DOMAIN Candidates = 1..Len(first) + 1
    BY <1>8, <2>3, LenProperties
  <2> QED
    BY <2>1, <2>2, <2>3, <2>4
<1> QED
  BY <1>8, <1>9

\* The options and the markers stay, and with them what may be a candidate.
LEMMA OptionsStay ==
  ASSUME UNCHANGED <<options, marked>>
  PROVE  /\ HasVault' = HasVault /\ VaultFile' = VaultFile
         /\ CandidateRecord' = CandidateRecord /\ VaultRecord' = VaultRecord
         /\ Candidates' = Candidates /\ VaultCandidate' = VaultCandidate
         /\ \A p : MayRoute(p)' = MayRoute(p)
<1>1. HasVault' = HasVault /\ VaultFile' = VaultFile /\ Workspace' = Workspace
  BY DEF HasVault, VaultFile, Workspace, WorkspaceOf
<1>2. \A p : MayRoute(p)' = MayRoute(p)
  BY <1>1 DEF MayRoute, Named
<1>3. CandidatePath' = CandidatePath /\ VaultRecord' = VaultRecord
  BY <1>1 DEF CandidatePath, VaultRecord
<1>4. VaultCandidate' = VaultCandidate
  BY DEF VaultCandidate
<1> QED
  BY <1>1, <1>2, <1>3, <1>4 DEF CandidateRecord, Candidates

\* Nothing has been looked at.
LEMMA DiscoveryInit == ConfigInit /\ ProviderInit => DiscoveryInv
  BY DEF ConfigInit, ProviderInit, DiscoveryInv

\* A file that changes while the host looks absolves it of what it saw before.
LEMMA ChangeKeepsDiscovery ==
  ASSUME DiscoveryInv,
         NEW path, NEW file,
         Change(path, file), UNCHANGED providerVars
  PROVE  DiscoveryInv'
<1>1. changes' \in Nat /\ changes' # 0
  BY DEF DiscoveryInv, Change
<1>2. VaultIsJudged'
  BY <1>1 DEF VaultIsJudged
<1>3. UNCHANGED <<options, marked, pc, queue, selected, resolved>>
  BY DEF Change, providerVars
<1> QED
  BY <1>1, <1>2, <1>3, OptionsStay DEF DiscoveryInv, Asks, NeedsSecret, Configured

\* The head of the queue is a record, and the vault's own file is it or follows.
LEMMA HeadOfQueue ==
  ASSUME DiscoveryInv, queue # <<>>
  PROVE  /\ First \in CandidateRecord
         /\ Tail(queue) \in Seq(CandidateRecord)
         /\ VaultIsPending /\ First # VaultRecord =>
              \E i \in DOMAIN Tail(queue) : Tail(queue)[i] = VaultRecord
<1>1. /\ Head(queue) \in CandidateRecord
      /\ Tail(queue) \in Seq(CandidateRecord)
      /\ Len(Tail(queue)) = Len(queue) - 1
      /\ \A i \in 1..Len(Tail(queue)) : Tail(queue)[i] = queue[i + 1]
  BY HeadTailProperties DEF DiscoveryInv
<1>2. /\ Len(queue) \in Nat /\ DOMAIN queue = 1..Len(queue)
      /\ DOMAIN Tail(queue) = 1..Len(queue) - 1
  BY <1>1, LenProperties DEF DiscoveryInv
<1>3. ASSUME VaultIsPending, Head(queue) # VaultRecord
      PROVE  \E i \in DOMAIN Tail(queue) : Tail(queue)[i] = VaultRecord
  <2>1. PICK i \in 1..Len(queue) : queue[i] = VaultRecord
    BY <1>2, <1>3 DEF VaultIsPending
  <2>2. i # 1
    BY <1>3, <2>1
  <2>3. i - 1 \in 1..Len(queue) - 1 /\ Tail(queue)[i - 1] = queue[i]
    BY <1>1, <1>2, <2>1, <2>2
  <2> QED
    BY <1>2, <2>1, <2>3
<1> QED
  BY <1>1, <1>3 DEF First

\* Of the records, the vault's own file alone is to be judged.
LEMMA RecordsAreJudged ==
  ASSUME NEW c \in CandidateRecord
  PROVE  IF c.provenance = "vault" THEN c = VaultRecord
                                   ELSE MayRoute(c.path)
  BY DEF CandidateRecord, VaultRecord, TrustedProvenance

\* Looking at the candidates in turn.
LEMMA LookKeepsDiscovery ==
  ASSUME DiscoveryInv,
         Begin \/ PassOver \/ Find \/ Inspect \/ Found,
         UNCHANGED providerVars
  PROVE  DiscoveryInv'
<1>1. UNCHANGED <<options, marked, files, changes, selected, resolved>>
  BY DEF Begin, PassOver, Find, Inspect, Found, providerVars
<1>2. /\ HasVault' = HasVault /\ VaultRecord' = VaultRecord
      /\ CandidateRecord' = CandidateRecord
      /\ \A p : MayRoute(p)' = MayRoute(p)
      /\ VaultIsJudged' = VaultIsJudged
  BY <1>1, OptionsStay DEF VaultIsJudged, Exists
<1>3. pc \in {"begin", "look", "inspect"} /\ resolved = {}
  BY DEF DiscoveryInv, Begin, PassOver, Find, Inspect, Found
<1>4. changes' \in Nat /\ resolved' = {} /\ (selected # NoConfig => MayRoute(selected.path))'
  BY <1>1, <1>2, <1>3 DEF DiscoveryInv
<1>5. CASE Begin
  <2>1. CASE pc' = "failed"
    BY <1>2, <1>4, <1>5, <2>1 DEF Begin, DiscoveryInv
  <2>2. CASE pc' # "failed"
    <3>1. pc' = "look" /\ queue' = Candidates /\ (HasVault => Absolute(options.vault) # NoPath)
      BY <1>5, <2>2 DEF Begin, Spelled, HasVault
    <3>2. VaultFile = NoPath => VaultIsJudged
      BY DEF VaultIsJudged, Exists
    <3>3. HasVault' => VaultIsPending' \/ VaultIsJudged'
      BY <1>2, <3>1, <3>2, CandidatesAreRecords DEF VaultIsPending
    <3> QED
      BY <1>1, <1>2, <1>4, <3>1, <3>3, CandidatesAreRecords DEF DiscoveryInv
  <2> QED
    BY <2>1, <2>2
<1>6. CASE PassOver
  <2>1. /\ pc = "look" /\ pc' = pc /\ queue # <<>> /\ queue' = Tail(queue)
        /\ \/ ~Exists(First.path)
           \/ First.provenance = "vault" /\ selected # NoConfig /\ selected.path = First.path
    BY <1>6 DEF PassOver
  <2>2. First = VaultRecord => VaultIsJudged
    BY <2>1 DEF VaultIsJudged, VaultRecord
  <2>3. HasVault' => VaultIsPending' \/ VaultIsJudged'
    BY <1>2, <2>1, <2>2, HeadOfQueue DEF VaultIsPending, DiscoveryInv
  <2> QED
    BY <1>1, <1>2, <1>4, <2>1, <2>3, HeadOfQueue DEF DiscoveryInv
<1>7. CASE Find \/ Inspect
  <2>1. /\ queue' = queue /\ queue # <<>> /\ pc \in {"look", "inspect"}
        /\ pc' \in {"inspect", "read", "failed"}
    BY <1>7 DEF Find, Inspect, DiscoveryInv
  <2> QED
    BY <1>1, <1>2, <1>4, <2>1 DEF DiscoveryInv, VaultIsPending
<1>8. CASE Found
  <2>1. queue' = queue /\ queue = <<>> /\ pc = "look" /\ pc' = "found"
    BY <1>8 DEF Found
  <2> QED
    BY <1>1, <1>2, <1>4, <2>1 DEF DiscoveryInv, VaultIsPending
<1> QED
  BY <1>5, <1>6, <1>7, <1>8

\* The file that is selected may route, and the vault's own is looked at after it.
LEMMA ReadKeepsDiscovery ==
  ASSUME DiscoveryInv, ReadSelected \/ ReadVault, UNCHANGED providerVars
  PROVE  DiscoveryInv'
<1>1. /\ UNCHANGED <<options, marked, files, changes, resolved>>
      /\ pc = "read" /\ queue # <<>> /\ resolved = {}
  BY DEF ReadSelected, ReadVault, providerVars, DiscoveryInv
<1>2. /\ HasVault' = HasVault /\ VaultRecord' = VaultRecord /\ VaultFile' = VaultFile
      /\ CandidateRecord' = CandidateRecord /\ VaultCandidate' = VaultCandidate
      /\ \A p : MayRoute(p)' = MayRoute(p)
  BY <1>1, OptionsStay
<1>3. First \in CandidateRecord
  BY <1>1, HeadOfQueue
<1>4. CASE pc' = "failed"
  <2>1. queue' = queue /\ selected' = selected
    BY <1>4 DEF ReadSelected, ReadVault
  <2> QED
    BY <1>1, <1>2, <1>4, <2>1 DEF DiscoveryInv
<1>5. CASE ReadSelected /\ pc' # "failed"
  <2>1. /\ pc' = "look" /\ queue' = VaultCandidate
        /\ selected'.path = First.path /\ First.provenance # "vault"
    BY <1>5 DEF ReadSelected
  <2>2. MayRoute(selected'.path)
    BY <1>3, <2>1, RecordsAreJudged
  <2>3. HasVault => Absolute(options.vault) # NoPath
    BY <1>1 DEF DiscoveryInv
  <2>4. VaultCandidate \in Seq(CandidateRecord)
    BY <2>3, VaultCandidateIsRecord, NoVaultCandidate, EmptySeq
  <2>5. HasVault' => VaultIsPending' \/ VaultIsJudged'
    <3>1. CASE VaultFile = NoPath
      BY <1>1, <1>2, <3>1 DEF VaultIsJudged, Exists
    <3>2. CASE HasVault /\ VaultFile # NoPath
      <4>1. queue' = <<VaultRecord>>
        BY <2>1, <2>3, <3>2, VaultCandidateIsRecord
      <4> QED
        BY <1>2, <4>1 DEF VaultIsPending
    <3> QED
      BY <1>2, <3>1, <3>2
  <2> QED
    BY <1>1, <1>2, <2>1, <2>2, <2>3, <2>4, <2>5 DEF DiscoveryInv
<1>6. CASE ReadVault /\ pc' # "failed"
  <2>1. /\ pc' = "look" /\ queue' = Tail(queue) /\ selected' = selected
        /\ First.provenance = "vault" /\ VaultSafe(files[First.path].document)
    BY <1>6 DEF ReadVault
  <2>2. VaultIsJudged'
    BY <1>1, <1>2, <1>3, <2>1, RecordsAreJudged DEF VaultIsJudged, VaultRecord
  <2> QED
    BY <1>1, <1>2, <2>1, <2>2, HeadOfQueue DEF DiscoveryInv
<1> QED
  BY <1>4, <1>5, <1>6

\* Selection asks for the secrets of the selected document only.
LEMMA SelectKeepsDiscovery ==
  ASSUME DiscoveryInv, SelectProviders
  PROVE  DiscoveryInv'
<1>1. /\ UNCHANGED <<options, marked, files, changes, queue, selected>>
      /\ pc = "found" /\ selected # NoConfig /\ pc' \in {"ready", "failed"}
      /\ resolved' \subseteq Asks(selected.document.vectors) \cup Asks(selected.document.reranker)
  BY DEF SelectProviders
<1>2. /\ HasVault' = HasVault /\ VaultRecord' = VaultRecord
      /\ CandidateRecord' = CandidateRecord
      /\ \A p : MayRoute(p)' = MayRoute(p)
      /\ VaultIsJudged' = VaultIsJudged
  BY <1>1, OptionsStay DEF VaultIsJudged, Exists
<1> QED
  BY <1>1, <1>2 DEF DiscoveryInv, VaultIsPending

\* The searches that follow leave the configuration alone.
LEMMA SearchKeepsDiscovery ==
  ASSUME DiscoveryInv, UNCHANGED <<configVars, resolved>>
  PROVE  DiscoveryInv'
<1>1. UNCHANGED <<options, marked, files, changes, queue, selected, pc, resolved>>
  BY DEF configVars
<1>2. /\ HasVault' = HasVault /\ VaultRecord' = VaultRecord
      /\ CandidateRecord' = CandidateRecord
      /\ \A p : MayRoute(p)' = MayRoute(p)
      /\ VaultIsJudged' = VaultIsJudged
  BY <1>1, OptionsStay DEF VaultIsJudged, Exists
<1> QED
  BY <1>1, <1>2 DEF DiscoveryInv, VaultIsPending

\* The invariant of discovery and selection.
LEMMA DiscoveryStep == DiscoveryInv /\ [HostNext]_hostVars => DiscoveryInv'
<1> SUFFICES ASSUME DiscoveryInv, [HostNext]_hostVars PROVE DiscoveryInv'
  OBVIOUS
<1>1. CASE ConfigNext /\ UNCHANGED providerVars
  BY <1>1, ChangeKeepsDiscovery, LookKeepsDiscovery, ReadKeepsDiscovery DEF ConfigNext
<1>2. CASE SelectProviders
  BY <1>2, SelectKeepsDiscovery
<1>3. ASSUME NEW q \in Query, NEW f \in Ranking, StartRerank(q, f)
      PROVE  DiscoveryInv'
  BY <1>3, SearchKeepsDiscovery DEF StartRerank
<1>4. CASE ReceiveScores \/ RefuseScores \/ Expire \/ UNCHANGED hostVars
  BY <1>4, SearchKeepsDiscovery DEF ReceiveScores, RefuseScores, Expire, hostVars, providerVars
<1> QED
  BY <1>1, <1>2, <1>3, <1>4 DEF HostNext

\* Providers and secrets come from one document, chosen by the operator.
THEOREM RoutesAreChosenHolds == HostSpec => []RoutesAreChosen
<1>1. DiscoveryInv => RoutesAreChosen
  <2> SUFFICES ASSUME DiscoveryInv PROVE RoutesAreChosen
    OBVIOUS
  <2>1. ASSUME pc = "ready", options.vault # NoPath
        PROVE  MayRoute(selected.path) /\ VaultIsJudged
    <3>1. queue = <<>> /\ ~VaultIsPending
      BY <2>1 DEF DiscoveryInv, VaultIsPending
    <3> QED
      BY <2>1, <3>1 DEF DiscoveryInv, HasVault
  <2> QED
    BY <2>1 DEF DiscoveryInv, RoutesAreChosen, MayRoute, VaultIsJudged, HasVault
<1> QED
  BY <1>1, DiscoveryInit, DiscoveryStep, PTL DEF HostSpec

-----------------------------------------------------------------------------
(* Reranking. *)

Fused == ToSet(reranking.inputs)

RerankInv ==
  /\ stage # "idle" => reranking.inputs \in Ranking
  /\ stage = "waiting" => ordered = reranking.inputs
  /\ ScoresAreOwn

\* A ranking lists its candidates once: a candidate has its place.
LEMMA PlacesAreOwn ==
  ASSUME reranking.inputs \in Ranking
  PROVE  /\ Len(reranking.inputs) \in Nat
         /\ DOMAIN reranking.inputs = 1..Len(reranking.inputs)
         /\ \A c \in Fused :
              PlaceOf(c) \in DOMAIN reranking.inputs /\ reranking.inputs[PlaceOf(c)] = c
<1>1. reranking.inputs \in Seq(ToSet(reranking.inputs))
  BY DEF ProviderAssumption
<1>2. /\ Len(reranking.inputs) \in Nat
      /\ DOMAIN reranking.inputs = 1..Len(reranking.inputs)
  BY <1>1, LenProperties
<1>3. ASSUME NEW c \in Fused
      PROVE  PlaceOf(c) \in DOMAIN reranking.inputs /\ reranking.inputs[PlaceOf(c)] = c
  <2>1. \E i \in DOMAIN reranking.inputs : reranking.inputs[i] = c
    BY <1>3 DEF Fused, ToSet
  <2> QED
    BY <2>1 DEF PlaceOf
<1> QED
  BY <1>2, <1>3

\* There are as many candidates as places.
LEMMA CandidatesAreCounted ==
  ASSUME reranking.inputs \in Ranking
  PROVE  IsFiniteSet(Fused) /\ Cardinality(Fused) = Len(reranking.inputs)
<1> DEFINE n == Len(reranking.inputs)
           place == [c \in Fused |-> PlaceOf(c)]
<1>1. n \in Nat /\ DOMAIN reranking.inputs = 1..n
  BY PlacesAreOwn
<1>2. \A i \in 1..n : reranking.inputs[i] \in Fused /\ PlaceOf(reranking.inputs[i]) = i
  <2> SUFFICES ASSUME NEW i \in 1..n
               PROVE  reranking.inputs[i] \in Fused /\ PlaceOf(reranking.inputs[i]) = i
    OBVIOUS
  <2>1. reranking.inputs[i] \in Fused
    BY <1>1 DEF Fused, ToSet
  <2>2. \A k, j \in DOMAIN reranking.inputs : reranking.inputs[k] = reranking.inputs[j] => k = j
    BY DEF ProviderAssumption, Distinct
  <2> QED
    BY <1>1, <2>1, <2>2, PlacesAreOwn
<1>3. place \in [Fused -> 1..n]
  BY <1>1, PlacesAreOwn
<1>4. \A c, d \in Fused : place[c] = place[d] => c = d
  BY PlacesAreOwn
<1>5. \A i \in 1..n : \E c \in Fused : place[c] = i
  BY <1>2
<1> HIDE DEF place, n
<1>6. place \in Injection(Fused, 1..n)
  BY <1>3, <1>4 DEF Injection, IsInjective
<1>7. place \in Surjection(Fused, 1..n)
  BY <1>3, <1>5, Zenon DEF Surjection
<1>8. IsFiniteSet(1..n) /\ Cardinality(1..n) = n
  BY <1>1, FS_Interval
<1>9. IsFiniteSet(Fused) /\ (Cardinality(Fused) = Cardinality(1..n))
  BY <1>6, <1>7, <1>8, FS_Injection
<1> QED
  BY <1>8, <1>9 DEF n

\* An accepted answer has one item for each place.
LEMMA EveryPlaceIsScored ==
  ASSUME reranking.inputs \in Ranking, NEW a \in Answers, AcceptedScores(a)
  PROVE  /\ DOMAIN a.score = DOMAIN a.index
         /\ a.score \in [DOMAIN a.index -> {0, 1}]
         /\ \A i \in DOMAIN reranking.inputs : \E k \in DOMAIN a.index : a.index[k] = i
<1> DEFINE n == Len(reranking.inputs)
<1>1. n \in Nat /\ DOMAIN reranking.inputs = 1..n
  BY PlacesAreOwn
<1>2. PICK r \in rerankings, m \in 0..n + 1 :
        a.index \in [1..m -> 1..Len(r.inputs) + 1] /\ a.score \in [1..m -> {0, 1}]
  <2> DEFINE To(r, m) ==
        [request : {r}, named : BOOLEAN, model : {"own", "other"}, finite : BOOLEAN,
         index : [1..m -> 1..Len(r.inputs) + 1], score : [1..m -> {0, 1}]]
  <2>1. a \in UNION {To(r, m) : r \in rerankings, m \in 0..n + 1}
    BY DEF Answers
  <2> HIDE DEF To
  <2>2. PICK r \in rerankings, m \in 0..n + 1 : a \in To(r, m)
    BY <2>1
  <2> QED
    BY <2>2 DEF To
<1>3. m \in Nat /\ DOMAIN a.index = 1..m
  BY <1>1, <1>2
<1>4. a.index \in Seq(1..Len(r.inputs) + 1)
  BY <1>2, <1>3, SeqDef
<1>5. m = n
  <2>1. Len(a.index) \in Nat /\ DOMAIN a.index = 1..Len(a.index)
    BY <1>4, LenProperties
  <2>2. Len(a.index) = m
    BY <1>3, <2>1
  <2> QED
    BY <2>2 DEF AcceptedScores
<1>6. a.index \in [1..n -> 1..n] /\ \A j, k \in 1..n : a.index[j] = a.index[k] => j = k
  <2>1. \A k \in 1..n : a.index[k] \in 1..n
    BY <1>1, <1>3, <1>5 DEF AcceptedScores
  <2> QED
    BY <1>2, <1>3, <1>5, <2>1 DEF AcceptedScores, Distinct
<1> HIDE DEF n
<1>7. a.index \in Injection(1..n, 1..n)
  BY <1>6 DEF Injection, IsInjective
<1>8. IsFiniteSet(1..n)
  BY <1>1, FS_Interval
<1>9. a.index \in Surjection(1..n, 1..n)
  BY <1>7, <1>8, FS_Injection
<1>10. \A i \in 1..n : \E k \in 1..n : a.index[k] = i
  BY <1>9, Zenon DEF Surjection
<1> QED
  BY <1>1, <1>2, <1>3, <1>5, <1>10

\* So a candidate gets the score made for its place, by an answer to this query.
LEMMA ScoresAreForPlaces ==
  ASSUME reranking.inputs \in Ranking, NEW a \in Answers, AcceptedScores(a),
         NEW c \in Fused
  PROVE  /\ ScoresOf(a)[c].request.query = reranking.query
         /\ reranking.inputs[ScoresOf(a)[c].place] = c
         /\ ScoresOf(a)[c].value \in {0, 1}
<1>1. PlaceOf(c) \in DOMAIN reranking.inputs /\ reranking.inputs[PlaceOf(c)] = c
  BY PlacesAreOwn
<1>2. ScoreItem(a, c) \in DOMAIN a.index /\ a.index[ScoreItem(a, c)] = PlaceOf(c)
  BY <1>1, EveryPlaceIsScored DEF ScoreItem
<1>3. a.score[ScoreItem(a, c)] \in {0, 1}
  BY <1>2, EveryPlaceIsScored
<1>4. a.request.query = reranking.query
  BY DEF AcceptedScores, ForThisQuery
<1>5. ScoresOf(a)[c] = ScoreAt(a, ScoreItem(a, c))
  BY DEF ScoresOf, Fused
<1> QED
  BY <1>1, <1>2, <1>3, <1>4, <1>5 DEF ScoreAt

\* The candidates that go before one.
Before(s, c) == {d \in Fused : Precedes(s, d, c)}

\* Of two candidates one precedes the other, and has fewer before it.
LEMMA PrecedenceIsTotal ==
  ASSUME reranking.inputs \in Ranking, NEW s, \A c \in Fused : s[c].value \in {0, 1},
         NEW c \in Fused, NEW d \in Fused, c # d
  PROVE  /\ Precedes(s, c, d) \/ Precedes(s, d, c)
         /\ Precedes(s, c, d) => Cardinality(Before(s, c)) < Cardinality(Before(s, d))
<1>1. /\ \A e \in Fused : PlaceOf(e) \in Nat /\ s[e].value \in Nat
      /\ PlaceOf(c) # PlaceOf(d)
  BY PlacesAreOwn
<1>2. Precedes(s, c, d) \/ Precedes(s, d, c)
  BY <1>1 DEF Precedes
<1>3. ASSUME Precedes(s, c, d)
      PROVE  Cardinality(Before(s, c)) < Cardinality(Before(s, d))
  <2>1. Before(s, c) \subseteq Before(s, d)
    BY <1>1, <1>3 DEF Before, Precedes
  <2>2. c \in Before(s, d) /\ c \notin Before(s, c)
    BY <1>1, <1>3 DEF Before, Precedes
  <2>3. Before(s, d) \in SUBSET Fused
    BY DEF Before
  <2>4. IsFiniteSet(Before(s, d)) /\ Cardinality(Before(s, d)) \in Nat
    BY <2>3, CandidatesAreCounted, FS_Subset, FS_CardinalityType
  <2>5. /\ Cardinality(Before(s, c)) <= Cardinality(Before(s, d))
        /\ Cardinality(Before(s, d)) # Cardinality(Before(s, c))
    BY <2>1, <2>2, <2>4, FS_Subset
  <2>6. IsFiniteSet(Before(s, c)) /\ Cardinality(Before(s, c)) \in Nat
    BY <2>1, <2>4, FS_Subset, FS_CardinalityType
  <2> QED
    BY <2>4, <2>5, <2>6
<1> QED
  BY <1>2, <1>3

\* So for each place there is one candidate that has as many before it.
LEMMA RanksAreTaken ==
  ASSUME reranking.inputs \in Ranking, NEW s, \A c \in Fused : s[c].value \in {0, 1}
  PROVE  /\ \A c \in Fused : Cardinality(Before(s, c)) \in 0..Len(reranking.inputs) - 1
         /\ \A r \in 0..Len(reranking.inputs) - 1 :
              \E c \in Fused : Cardinality(Before(s, c)) = r
<1> DEFINE n == Len(reranking.inputs)
           rank == [c \in Fused |-> Cardinality(Before(s, c))]
<1>1. n \in Nat /\ IsFiniteSet(Fused) /\ Cardinality(Fused) = n
  BY PlacesAreOwn, CandidatesAreCounted
<1>2. ASSUME NEW c \in Fused
      PROVE  Cardinality(Before(s, c)) \in 0..n - 1
  <2>1. c \notin Before(s, c)
    <3>1. PlaceOf(c) \in Nat /\ s[c].value \in Nat
      BY PlacesAreOwn
    <3> QED
      BY <3>1 DEF Before, Precedes
  <2>2. Before(s, c) \in SUBSET (Fused \ {c})
    BY <2>1 DEF Before
  <2>3. IsFiniteSet(Fused \ {c}) /\ Cardinality(Fused \ {c}) = n - 1
    BY <1>1, FS_RemoveElement
  <2>4. IsFiniteSet(Before(s, c)) /\ Cardinality(Before(s, c)) <= n - 1
    BY <2>2, <2>3, FS_Subset
  <2>5. Cardinality(Before(s, c)) \in Nat
    BY <2>4, FS_CardinalityType
  <2> QED
    BY <1>1, <2>4, <2>5
<1>3. rank \in [Fused -> 0..n - 1]
  BY <1>2
<1>4. \A c, d \in Fused : rank[c] = rank[d] => c = d
  <2> SUFFICES ASSUME NEW c \in Fused, NEW d \in Fused, c # d
               PROVE  rank[c] # rank[d]
    OBVIOUS
  <2>1. Cardinality(Before(s, c)) \in Nat /\ Cardinality(Before(s, d)) \in Nat
    BY <1>2
  <2>2. CASE Precedes(s, c, d)
    BY <2>1, <2>2, PrecedenceIsTotal
  <2>3. CASE Precedes(s, d, c)
    BY <2>1, <2>3, PrecedenceIsTotal
  <2> QED
    BY <2>2, <2>3, PrecedenceIsTotal
<1> HIDE DEF rank, n
<1>5. rank \in Injection(Fused, 0..n - 1)
  BY <1>3, <1>4 DEF Injection, IsInjective
<1>6. IsFiniteSet(0..n - 1) /\ Cardinality(0..n - 1) = n
  <2>1. n - 1 \in Int
    BY <1>1
  <2>2. /\ IsFiniteSet(0..n - 1)
        /\ Cardinality(0..n - 1) = IF 0 > n - 1 THEN 0 ELSE (n - 1) - 0 + 1
    BY <2>1, FS_Interval
  <2> QED
    BY <1>1, <2>2
<1>7. rank \in Surjection(Fused, 0..n - 1)
  BY <1>1, <1>5, <1>6, FS_Injection
<1>8. \A r \in 0..n - 1 : \E c \in Fused : rank[c] = r
  BY <1>7, Zenon DEF Surjection
<1> QED
  BY <1>2, <1>8 DEF rank, n

\* Sorting hands on every candidate once, the better scores first.
LEMMA SortedIsOrdered ==
  ASSUME reranking.inputs \in Ranking, NEW s, \A c \in Fused : s[c].value \in {0, 1}
  PROVE  /\ Len(Sorted(s)) = Len(reranking.inputs)
         /\ ToSet(Sorted(s)) = Fused
         /\ \A i, j \in DOMAIN Sorted(s) :
              i < j => s[Sorted(s)[i]].value >= s[Sorted(s)[j]].value
<1> DEFINE n == Len(reranking.inputs)
           o == Sorted(s)
<1>1. n \in Nat /\ DOMAIN reranking.inputs = 1..n
  BY PlacesAreOwn
<1>2. o = [i \in 1..n |-> CHOOSE c \in Fused : Cardinality(Before(s, c)) = i - 1]
  BY <1>1 DEF Sorted, Before, Fused
<1>3. \A i \in 1..n : o[i] \in Fused /\ Cardinality(Before(s, o[i])) = i - 1
  <2> SUFFICES ASSUME NEW i \in 1..n
               PROVE  o[i] \in Fused /\ Cardinality(Before(s, o[i])) = i - 1
    OBVIOUS
  <2>1. i - 1 \in 0..n - 1
    BY <1>1
  <2>2. \E c \in Fused : Cardinality(Before(s, c)) = i - 1
    BY <2>1, RanksAreTaken
  <2>3. o[i] = CHOOSE c \in Fused : Cardinality(Before(s, c)) = i - 1
    BY <1>2
  <2> HIDE DEF o
  <2> QED
    BY <2>2, <2>3
<1> HIDE DEF o
<1>4. DOMAIN o = 1..n /\ o \in Seq(Fused)
  <2>1. o \in [1..n -> Fused]
    BY <1>2, <1>3
  <2> QED
    BY <1>1, <2>1, SeqDef
<1>5. Len(o) = n
  BY <1>1, <1>4, LenProperties
<1>6. ToSet(o) = Fused
  <2>1. ToSet(o) \subseteq Fused
    BY <1>3, <1>4 DEF ToSet
  <2>2. ASSUME NEW c \in Fused PROVE c \in ToSet(o)
    <3> DEFINE i == Cardinality(Before(s, c)) + 1
    <3>1. i \in 1..n /\ i - 1 = Cardinality(Before(s, c))
      BY <1>1, RanksAreTaken
    <3>2. o[i] \in Fused /\ Cardinality(Before(s, o[i])) = Cardinality(Before(s, c))
      BY <1>3, <3>1
    <3>3. o[i] = c
      <4> SUFFICES ASSUME o[i] # c PROVE FALSE
        OBVIOUS
      <4>1. Cardinality(Before(s, c)) \in Nat
        BY RanksAreTaken
      <4>2. CASE Precedes(s, o[i], c)
        BY <3>2, <4>1, <4>2, PrecedenceIsTotal
      <4>3. CASE Precedes(s, c, o[i])
        BY <3>2, <4>1, <4>3, PrecedenceIsTotal
      <4> QED
        BY <3>2, <4>2, <4>3, PrecedenceIsTotal
    <3> QED
      BY <1>4, <3>1, <3>3 DEF ToSet
  <2> QED
    BY <2>1, <2>2
<1>7. ASSUME NEW i \in 1..n, NEW j \in 1..n, i < j
      PROVE  s[o[i]].value >= s[o[j]].value
  <2>1. /\ o[i] \in Fused /\ o[j] \in Fused
        /\ Cardinality(Before(s, o[i])) = i - 1 /\ Cardinality(Before(s, o[j])) = j - 1
    BY <1>3
  <2>2. o[i] # o[j] /\ ~(j - 1 < i - 1)
    BY <1>7, <2>1
  <2>3. Precedes(s, o[i], o[j])
    BY <2>1, <2>2, PrecedenceIsTotal
  <2>4. s[o[i]].value \in Nat /\ s[o[j]].value \in Nat
    BY <2>1
  <2> QED
    BY <2>3, <2>4 DEF Precedes
<1> QED
  BY <1>4, <1>5, <1>6, <1>7 DEF n, o

\* The candidates and their scores belong to the request that is waited for.
LEMMA RerankStep == RerankInv /\ [HostNext]_hostVars => RerankInv'
<1> SUFFICES ASSUME RerankInv, [HostNext]_hostVars PROVE RerankInv'
  OBVIOUS
<1>1. ASSUME UNCHANGED <<stage, reranking, ordered, scores>> PROVE RerankInv'
  BY <1>1 DEF RerankInv, ScoresAreOwn
<1>2. CASE ConfigNext /\ UNCHANGED providerVars
  BY <1>1, <1>2 DEF providerVars
<1>3. CASE SelectProviders \/ UNCHANGED hostVars
  BY <1>1, <1>3 DEF SelectProviders, hostVars, providerVars
<1>4. ASSUME NEW q \in Query, NEW f \in Ranking, StartRerank(q, f) PROVE RerankInv'
  BY <1>4 DEF StartRerank, RerankInv, ScoresAreOwn
<1>5. CASE ReceiveScores
  <2>1. PICK a \in Answers :
          AcceptedScores(a) /\ scores' = ScoresOf(a) /\ ordered' = Sorted(ScoresOf(a))
    BY <1>5 DEF ReceiveScores
  <2>2. /\ stage' = "active" /\ reranking' = reranking
        /\ reranking.inputs \in Ranking
    BY <1>5 DEF ReceiveScores, RerankInv
  <2>3. \A c \in Fused :
          /\ ScoresOf(a)[c].request.query = reranking.query
          /\ reranking.inputs[ScoresOf(a)[c].place] = c
          /\ ScoresOf(a)[c].value \in {0, 1}
    BY <2>1, <2>2, ScoresAreForPlaces
  <2>4. /\ Len(ordered') = Len(reranking.inputs) /\ ToSet(ordered') = Fused
        /\ \A i, j \in DOMAIN ordered' :
             i < j => scores'[ordered'[i]].value >= scores'[ordered'[j]].value
    BY <2>1, <2>2, <2>3, SortedIsOrdered
  <2> QED
    BY <2>1, <2>2, <2>3, <2>4 DEF RerankInv, ScoresAreOwn, Fused
<1>6. CASE RefuseScores \/ Expire
  BY <1>6 DEF RefuseScores, Expire, RerankInv, ScoresAreOwn
<1> QED
  BY <1>2, <1>3, <1>4, <1>5, <1>6 DEF HostNext

\* A candidate gets the score made for its place, and each is handed on, once.
THEOREM ScoresAreOwnHolds == HostSpec => []ScoresAreOwn
<1>1. ConfigInit /\ ProviderInit => RerankInv
  BY DEF ProviderInit, RerankInv, ScoresAreOwn
<1>2. RerankInv => ScoresAreOwn
  BY DEF RerankInv
<1> QED
  BY <1>1, <1>2, RerankStep, PTL DEF HostSpec
================================================================================

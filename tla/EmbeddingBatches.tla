---------------------------- MODULE EmbeddingBatches ----------------------------
(***************************************************************************)
(* The vectors of successive generations: what an indexing call takes from  *)
(* the active generation, how it sends the rest to the embedding provider in *)
(* batches, and what it makes of the answers.  A text stands for all chunks  *)
(* with that content digest and is numbered in the order of the digests.     *)
(***************************************************************************)
EXTENDS Integers, Sequences, FiniteSets, FiniteSetsExt

CONSTANTS
  Texts,              \* how many texts there are
  Size(_),            \* the bytes of a text
  Model,              \* embedding spaces a provider may be configured for
  NoModel, NoVector,
  MaxItems, MaxBytes, \* of one batch: 32 and 262144
  MaxCalls            \* bound: indexing calls

Text == 1..Texts

ASSUME EmbeddingAssumption ==
  /\ Texts \in Nat
  /\ \A t \in Text : Size(t) \in Nat
  /\ MaxItems \in Nat \ {0} /\ MaxBytes \in Nat /\ MaxCalls \in Nat
  /\ NoModel \notin Model
  /\ NoVector \notin [text : Text, model : Model]

VARIABLES
  active,   \* the active generation: its model, its texts, their vectors
  calls,
  phase,
  input,    \* texts to be indexed (with a policy: those eligible for embedding)
  model,    \* of the configured provider
  vectors,  \* vectors_by_digest
  toSend,   \* texts without a vector yet
  offset,   \* texts answered so far
  request,  \* the one waited for
  asked     \* every request made: its answer may still come

callVars == <<input, model, vectors, toSend, offset>>
vars == <<active, calls, phase, callVars, request, asked>>

Vector == [text : Text, model : Model]
NoVectors == [t \in Text |-> NoVector]
Known(v) == {t \in Text : v[t] # NoVector}

Generation ==
  [model : Model \cup {NoModel}, texts : SUBSET Text, vectors : [Text -> Vector \cup {NoVector}]]

Request == [offset : Nat, texts : SUBSET Text]
NoRequest == [offset |-> 0, texts |-> {}]

TypeOK ==
  /\ active \in Generation
  /\ calls \in 0..MaxCalls
  /\ phase \in {"idle", "embedding", "waiting"}
  /\ input \subseteq Text
  /\ model \in Model \cup {NoModel}
  /\ vectors \in [Text -> Vector \cup {NoVector}]
  /\ toSend \subseteq Text
  /\ offset \in 0..Texts
  /\ request \in Request
  /\ asked \subseteq Request

Init ==
  /\ active = [model |-> NoModel, texts |-> {}, vectors |-> NoVectors]
  /\ calls = 0 /\ phase = "idle"
  /\ input = {} /\ model = NoModel /\ vectors = NoVectors /\ toSend = {} /\ offset = 0
  /\ request = NoRequest /\ asked = {}

-----------------------------------------------------------------------------
(* One indexing call. *)

Publish(m, v) ==
  /\ active' = [model |-> m, texts |-> input,
                vectors |-> [t \in Text |-> IF t \in input THEN v[t] ELSE NoVector]]
  /\ phase' = "idle"
  /\ request' = NoRequest
  /\ UNCHANGED <<calls, callVars, asked>>

\* cached_vectors_by_content: the vectors of a readable active generation, when
\* it is of the same vault, policy and embedding space.
Cached(m, readable) == IF readable /\ active.model = m THEN active.vectors ELSE NoVectors

\* Mutant of StartIndex: every text is sent.
StartIndex_All(texts, m, readable) ==
  /\ phase = "idle" /\ calls < MaxCalls
  /\ calls' = calls + 1
  /\ input' = texts /\ model' = m
  /\ vectors' = Cached(m, readable)
  /\ toSend' = IF m = NoModel THEN {} ELSE texts
  /\ offset' = 0
  /\ phase' = "embedding"
  /\ UNCHANGED <<active, request, asked>>

StartIndex(texts, m, readable) ==
  /\ phase = "idle" /\ calls < MaxCalls
  /\ calls' = calls + 1
  /\ input' = texts /\ model' = m
  /\ vectors' = Cached(m, readable)
  /\ toSend' = IF m = NoModel THEN {} ELSE texts \ Known(Cached(m, readable))
  /\ offset' = 0
  /\ phase' = "embedding"
  /\ UNCHANGED <<active, request, asked>>

UpTo(S, t) == {u \in S : u <= t}

\* Mutant of Batch: a text over the limit of bytes fits into no batch.
Batch_BytesAlways ==
  {t \in toSend : /\ Cardinality(UpTo(toSend, t)) <= MaxItems
                  /\ MapThenSumSet(Size, UpTo(toSend, t)) <= MaxBytes}

\* The next texts in order, while they fit; the first one always does.
Batch ==
  {t \in toSend : /\ Cardinality(UpTo(toSend, t)) <= MaxItems
                  /\ \/ UpTo(toSend, t) = {t}
                     \/ MapThenSumSet(Size, UpTo(toSend, t)) <= MaxBytes}

SendBatch ==
  /\ phase = "embedding" /\ toSend # {}
  /\ request' = [offset |-> offset, texts |-> Batch]
  /\ asked' = asked \cup {request'}
  /\ phase' = "waiting"
  /\ UNCHANGED <<active, calls, callVars>>

-----------------------------------------------------------------------------
(* Answers.  An answer is to some request, names it or not, was computed by    *)
(* some model, and holds items in the order they arrived in, each with the     *)
(* place in the request of the text it is for.  Adapters without indices       *)
(* answer in order: index[k] = k.                                              *)

Position(S, t) == Cardinality(UpTo(S, t))
TextAt(S, i) == CHOOSE t \in S : Position(S, t) = i

Index == UNION {[1..n -> 1..MaxItems + 1] : n \in 0..MaxItems + 1}

\* Only an answer that comes back on the exchange of its own request may leave
\* the request unnamed.
Answer ==
  {a \in [request : asked, named : BOOLEAN, model : Model, index : Index, finite : BOOLEAN] :
     ~a.named => a.request = request}

Correlated(a) == a.named => a.request = request

\* Every place is filled, by one item.
Complete(a) ==
  /\ Len(a.index) = Cardinality(request.texts)
  /\ \A t \in request.texts : \E k \in DOMAIN a.index : a.index[k] = Position(request.texts, t)

Accepted(a) == Correlated(a) /\ Complete(a) /\ a.model = model /\ a.finite

\* Mutant of ItemFor: items are taken in the order they arrived in.
ItemFor_Arrival(a, t) == Position(request.texts, t)

ItemFor(a, t) ==
  CHOOSE k \in DOMAIN a.index : a.index[k] = Position(request.texts, t)

\* The vector an item carries is that of the text at its place.
VectorFor(a, t) ==
  [text |-> TextAt(a.request.texts, a.index[ItemFor(a, t)]), model |-> a.model]

\* Mutant of Receive: the offset moves by a full batch.
Receive_FullBatch ==
  /\ phase = "waiting"
  /\ \E a \in Answer :
       /\ Accepted(a)
       /\ vectors' = [t \in Text |-> IF t \in request.texts THEN VectorFor(a, t) ELSE vectors[t]]
  /\ toSend' = {t \in toSend : Position(toSend, t) > MaxItems}
  /\ offset' = offset + MaxItems
  /\ phase' = "embedding" /\ request' = NoRequest
  /\ UNCHANGED <<active, calls, input, model, asked>>

Receive ==
  /\ phase = "waiting"
  /\ \E a \in Answer :
       /\ Accepted(a)
       /\ vectors' = [t \in Text |-> IF t \in request.texts THEN VectorFor(a, t) ELSE vectors[t]]
  /\ toSend' = toSend \ request.texts
  /\ offset' = offset + Cardinality(request.texts)
  /\ phase' = "embedding" /\ request' = NoRequest
  /\ UNCHANGED <<active, calls, input, model, asked>>

\* An answer that is not accepted costs the generation all its vectors,
Refuse ==
  /\ phase = "waiting"
  /\ \E a \in Answer : ~Accepted(a)
  /\ Publish(NoModel, NoVectors)

\* and so does an answer that does not come in time, or an error.
Timeout ==
  /\ phase = "waiting"
  /\ Publish(NoModel, NoVectors)

\* All texts have been sent.  Were one of them without a vector, or were there
\* no provider, there would be no vectors.
PublishVectors ==
  /\ phase = "embedding" /\ toSend = {}
  /\ IF model # NoModel /\ input \subseteq Known(vectors)
     THEN Publish(model, vectors)
     ELSE Publish(NoModel, NoVectors)

\* The future is dropped, the process ends, or the build fails.
Abandon ==
  /\ phase # "idle"
  /\ phase' = "idle" /\ request' = NoRequest
  /\ UNCHANGED <<active, calls, callVars, asked>>

Next ==
  \/ \E texts \in SUBSET Text, m \in Model \cup {NoModel}, readable \in BOOLEAN :
       StartIndex(texts, m, readable)
  \/ SendBatch \/ Receive \/ Refuse \/ Timeout \/ PublishVectors \/ Abandon

\* A call runs, and its deadline answers if the provider does not.
Spec ==
  /\ Init /\ [][Next]_vars
  /\ WF_vars(SendBatch) /\ WF_vars(Timeout \/ Receive \/ Refuse) /\ WF_vars(PublishVectors)

-----------------------------------------------------------------------------
\* Whatever was cached, batched, reordered, late or lost: a vector of the active
\* generation is the vector of its own text in the space of the generation.
VectorsAreOwn ==
  \A t \in Known(active.vectors) :
    active.vectors[t] = [text |-> t, model |-> active.model]

\* When everything has been sent, every text has its vector: the batches leave
\* none out, and the defensive errors of embed_chunks and validate_vectors do not
\* happen.
NothingSkipped ==
  phase = "embedding" /\ model # NoModel /\ toSend = {} => input \subseteq Known(vectors)

\* No text is sent whose vector is known, from the active generation or from an
\* answer of this call, and none that is not to be indexed.
OnlyNewIsSent ==
  [][phase' = "waiting" =>
       /\ request'.texts \subseteq input
       /\ request'.texts \cap Known(vectors) = {}]_vars

\* Every call ends: a batch is never empty and a provider has a deadline.
CallsEnd == phase # "idle" ~> phase = "idle"
=============================================================================

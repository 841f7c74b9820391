-------------------------- MODULE ConfiguredProviders --------------------------
(***************************************************************************)
(* What a host makes of its configuration: the providers and secrets that   *)
(* select_configured_providers takes from it, what a provider is sent, and   *)
(* what RetrievalCoordinator::rerank makes of the answers of a reranker.     *)
(* The answers of an embedding provider are in EmbeddingBatches.             *)
(***************************************************************************)
EXTENDS TrustedConfig, FiniteSets

CONSTANTS
  Adapters,           \* the provider families the host has an adapter for
  Secrets,            \* the variables its resolver knows
  NoVariable, NoProvider, NoAnswer,
  DefaultTimeout,     \* 30000
  Query,
  Ranking,            \* sequences of candidates, as fusion may order them
  MaxSearches         \* bound: reranked searches

Distinct(f) == \A i, j \in DOMAIN f : f[i] = f[j] => i = j

ASSUME ProviderAssumption ==
  /\ DefaultTimeout \in 1..MaxTimeout /\ MaxSearches \in Nat
  /\ \A f \in Ranking : f \in Seq(ToSet(f)) /\ Distinct(f)

VARIABLES
  providers,    \* [vectors, reranker]: SelectedProviders
  resolved,     \* the variables the resolver was asked for
  stage,        \* of a search: "idle", "waiting", "active", "degraded"
  searches,
  rerankings,   \* every request made to the reranker
  reranking,    \* the last of them
  ordered,      \* the candidates as they are handed on
  scores        \* reranker_scores

providerVars == <<providers, resolved, stage, searches, rerankings, reranking, ordered, scores>>
hostVars == <<configVars, providerVars>>

NoProviders == [vectors |-> NoProvider, reranker |-> NoProvider]
NoReranking == [query |-> "none", inputs |-> <<>>]

ProviderInit ==
  /\ providers = NoProviders /\ resolved = {}
  /\ stage = "idle" /\ searches = 0
  /\ rerankings = {} /\ reranking = NoReranking /\ ordered = <<>> /\ scores = NoAnswer

-----------------------------------------------------------------------------
(* Selection. *)

\* vector_config, rerank_config
Configured(section) == section # NoSection /\ ~section.only

TimeoutOf(section) == IF section.timeout = Unset THEN DefaultTimeout ELSE section.timeout

\* resolve_configured_secret: only for the family that carries a token.
NeedsSecret(section) == section.kind = "openai_compatible" /\ section.secret # NoVariable

Asks(section) == IF Configured(section) /\ NeedsSecret(section) THEN {section.secret} ELSE {}

\* create_vector_provider, create_rerank_provider: a secret that cannot be had is
\* an error, and so is a family without an adapter.
Creatable(section) ==
  Configured(section) =>
    /\ ValidProvider(section)
    /\ Asks(section) \subseteq Secrets
    /\ section.kind \in Adapters

ProviderOf(section) ==
  IF Configured(section)
  THEN [kind |-> section.kind, route |-> section.route, model |-> section.model,
        timeout |-> TimeoutOf(section), token |-> Asks(section)]
  ELSE NoProvider

\* select_configured_providers: the vector provider first; one that fails leaves none.
SelectProviders ==
  /\ pc = "found" /\ selected # NoConfig
  /\ LET d == selected.document IN
       /\ resolved' = Asks(d.vectors) \cup IF Creatable(d.vectors) THEN Asks(d.reranker) ELSE {}
       /\ IF Creatable(d.vectors) /\ Creatable(d.reranker)
          THEN /\ providers' = [vectors |-> ProviderOf(d.vectors),
                                reranker |-> ProviderOf(d.reranker)]
               /\ pc' = "ready"
          ELSE pc' = "failed" /\ UNCHANGED providers
  /\ UNCHANGED <<options, marked, files, changes, queue, selected, stage, searches,
                 rerankings, reranking, ordered, scores>>

-----------------------------------------------------------------------------
(* Reranking.  A request carries an id made of the query alone.                *)

StartRerank(query, fused) ==
  /\ pc = "ready" /\ providers.reranker # NoProvider
  /\ stage # "waiting" /\ searches < MaxSearches
  /\ searches' = searches + 1
  /\ reranking' = [query |-> query, inputs |-> fused]
  /\ rerankings' = rerankings \cup {reranking'}
  /\ ordered' = fused /\ scores' = NoAnswer
  /\ stage' = "waiting"
  /\ UNCHANGED <<configVars, providers, resolved>>

\* An answer to some request: its model, and for each item the place of the
\* candidate it is for and its score, finite or not.
Answers ==
  UNION {[request : {r}, named : BOOLEAN, model : {"own", "other"}, finite : BOOLEAN,
          index : [1..n -> 1..Len(r.inputs) + 1], score : [1..n -> {0, 1}]] :
            r \in rerankings, n \in 0..Len(reranking.inputs) + 1}

\* validate_correlation: only the family that answers on the exchange of its own
\* request may leave the id out.
ForThisQuery(a) ==
  IF a.named THEN a.request.query = reranking.query
             ELSE providers.reranker.kind = "openai_compatible" /\ a.request = reranking

\* validate_indexed_rerank_scores
AcceptedScores(a) ==
  /\ ForThisQuery(a) /\ a.model = "own" /\ a.finite
  /\ Len(a.index) = Len(reranking.inputs)
  /\ \A k \in DOMAIN a.index : a.index[k] \in DOMAIN reranking.inputs
  /\ Distinct(a.index)

PlaceOf(c) == CHOOSE i \in DOMAIN reranking.inputs : reranking.inputs[i] = c
ScoreItem(a, c) == CHOOSE k \in DOMAIN a.index : a.index[k] = PlaceOf(c)

\* A score is known by the request and the place in it that it was made for.
ScoreAt(a, k) == [request |-> a.request, place |-> a.index[k], value |-> a.score[k]]

\* Mutant of ScoresOf: the items are taken in the order they arrived in.
ScoresOf_Arrival(a) == [c \in ToSet(reranking.inputs) |-> ScoreAt(a, PlaceOf(c))]

ScoresOf(a) == [c \in ToSet(reranking.inputs) |-> ScoreAt(a, ScoreItem(a, c))]

\* By score; between equals the order of fusion stays.
Precedes(s, c, d) ==
  \/ s[c].value > s[d].value
  \/ s[c].value = s[d].value /\ PlaceOf(c) < PlaceOf(d)

\* A candidate's place is the one after all that precede it.
Sorted(s) ==
  LET candidates == ToSet(reranking.inputs)
      Before(c) == {d \in candidates : Precedes(s, d, c)} IN
  [i \in DOMAIN reranking.inputs |-> CHOOSE c \in candidates : Cardinality(Before(c)) = i - 1]

ReceiveScores ==
  /\ stage = "waiting"
  /\ \E a \in Answers :
       /\ AcceptedScores(a)
       /\ scores' = ScoresOf(a)
       /\ ordered' = Sorted(ScoresOf(a))
  /\ stage' = "active"
  /\ UNCHANGED <<configVars, providers, resolved, searches, rerankings, reranking>>

\* degraded_rerank: an answer that is not accepted, or none in time, leaves the
\* candidates as they were.
RefuseScores ==
  /\ stage = "waiting"
  /\ \E a \in Answers : ~AcceptedScores(a)
  /\ stage' = "degraded"
  /\ UNCHANGED <<configVars, providers, resolved, searches, rerankings, reranking, ordered, scores>>

Expire ==
  /\ stage = "waiting"
  /\ stage' = "degraded"
  /\ UNCHANGED <<configVars, providers, resolved, searches, rerankings, reranking, ordered, scores>>

HostNext ==
  \/ ConfigNext /\ UNCHANGED providerVars
  \/ SelectProviders
  \/ \E q \in Query, f \in Ranking : StartRerank(q, f)
  \/ ReceiveScores \/ RefuseScores \/ Expire

HostSpec == ConfigInit /\ ProviderInit /\ [][HostNext]_hostVars

-----------------------------------------------------------------------------
VaultFile == ConfigIn(Absolute(options.vault))

\* The operator named this file, whatever lies around it.
Named(path) ==
  \/ options.explicit # NoPath /\ path = Absolute(options.explicit)
  \/ options.trustCwd /\ path = ConfigIn(Absolute(options.cwd))
  \/ options.workspace # NoPath /\ path = ConfigIn(Absolute(options.workspace))
  \/ path = Absolute(options.user)

\* Providers and secrets come from one document, and it is not one of the vault's
\* notes unless the operator named it; nor does the vault hold, beside it, a file
\* of its own that would route (unless it was put there while the host looked).
RoutesAreChosen ==
  /\ resolved # {} => resolved \subseteq Asks(selected.document.vectors)
                                         \cup Asks(selected.document.reranker)
  /\ pc = "ready" /\ options.vault # NoPath =>
       /\ Contained(selected.path, Absolute(options.vault)) => Named(selected.path)
       /\ changes = 0 /\ Exists(VaultFile) /\ VaultFile # selected.path =>
            VaultSafe(files[VaultFile].document)

\* However the items of an answer are ordered, a candidate gets the score made for
\* its place, by an answer to this query; and every candidate is handed on, once.
ScoresAreOwn ==
  /\ stage = "active" =>
       /\ \A c \in ToSet(reranking.inputs) :
            scores[c].request.query = reranking.query /\ reranking.inputs[scores[c].place] = c
       /\ Len(ordered) = Len(reranking.inputs) /\ ToSet(ordered) = ToSet(reranking.inputs)
       /\ \A i, j \in DOMAIN ordered : i < j => scores[ordered[i]].value >= scores[ordered[j]].value
  /\ stage = "degraded" => ordered = reranking.inputs
=============================================================================

----------------------------- MODULE MCProviders -----------------------------
(* Indexing calls that embed three small texts, and one over the limit of    *)
(* bytes by itself; or a host that finds its configuration and reranks.      *)
EXTENDS EmbeddingBatches, ConfiguredProviders

MCSize(t) == IF t = 2 THEN 4 ELSE 1

-----------------------------------------------------------------------------
Root == <<>>
InVault == <<"vault">>
InRepository == <<"vault", "repository">>
InHome == <<"home">>
MCConfigFile == {ConfigIn(d) : d \in {Root, InVault, InRepository, InHome}}

Configures(kind, secret, timeout, wrong) ==
  [only |-> FALSE, enabled |-> TRUE, kind |-> kind, secret |-> secret, timeout |-> timeout,
   wrong |-> wrong, route |-> kind, model |-> "own"]
Enables(enabled) == [only |-> TRUE, enabled |-> enabled]

Says(vector, rerank) ==
  [version |-> TRUE, bounds |-> TRUE, host |-> FALSE, chunking |-> FALSE,
   vectors |-> vector, reranker |-> rerank]
Holds(document) == [plain |-> TRUE, parses |-> TRUE, document |-> document]

Embeds == Holds(Says(Configures("openai_compatible", "key", Unset, {}), Enables(FALSE)))
Reranks == {Holds(Says(NoSection, Configures("openai_compatible", "key", 5, {}))),
            Holds(Says(Configures("openai_compatible", "key", Unset, {}),
                       Configures("mcp", NoVariable, 5, {"endpoint"})))}
Shows == Holds(Says(NoSection, NoSection))
Aliased == [Embeds EXCEPT !.plain = FALSE]
Refused == {Aliased,
            [Shows EXCEPT !.parses = FALSE],
            [Shows EXCEPT !.document.version = FALSE],
            Holds(Says(Enables(TRUE), NoSection)),
            Holds(Says(NoSection, Configures("mcp", NoVariable, 5, {"tool"}))),
            Holds(Says(Configures("mcp", NoVariable, 6, {}), NoSection)),
            Holds(Says(Configures("openai_compatible", "lost", 5, {}),
                       Configures("openai_compatible", "key", 5, {}))),
            Holds(Says(NoSection, Configures("local_onnx", NoVariable, 5, {})))}
MCFile == {Embeds, Shows, Aliased}

At(names) == [absolute |-> TRUE, names |-> names]
From(names) == [absolute |-> FALSE, names |-> names]

Start(explicit, trustCwd, cwd, workspace, vault) ==
  [explicit |-> explicit, trustCwd |-> trustCwd, cwd |-> cwd, workspace |-> workspace,
   vault |-> vault, user |-> At(ConfigIn(InHome))]

MCOptions ==
  {Start(NoPath, trust, At(cwd), workspace, vault) :
     trust \in BOOLEAN, cwd \in {InVault, InRepository},
     workspace \in {NoPath, At(InRepository)}, vault \in {NoPath, From(<<".", "vault">>)}}
  \cup {Start(From(<<"home", "..", "vault", "gkos.toml">>), FALSE, At(InHome), NoPath, At(InVault)),
        Start(NoPath, FALSE, From(<<"..">>), NoPath, At(InVault))}

World(o, m, outer, vault, repository, home) ==
  [options |-> o, marked |-> m,
   files |-> [p \in MCConfigFile |->
                CASE p = ConfigIn(Root) -> outer [] p = ConfigIn(InVault) -> vault
                  [] p = ConfigIn(InRepository) -> repository [] OTHER -> home]]

MCWorlds ==
  {World(o, m, outer, vault, repository, Shows) :
     o \in MCOptions, m \in {{}, {Root}, {InVault}, {Root, InRepository}},
     outer \in {NoFile, Embeds}, vault \in {NoFile, Embeds}, repository \in {NoFile, Embeds}}
  \cup {World(Start(NoPath, FALSE, At(InVault), NoPath, At(InVault)), {}, NoFile, vault, NoFile, home) :
          vault \in {NoFile, Shows, Embeds}, home \in {NoFile} \cup Refused \cup Reranks}

MCRanking == {<<"a", "b">>, <<"b", "c">>}

-----------------------------------------------------------------------------
NoHost ==
  /\ options = NoPath /\ marked = {} /\ files = [p \in ConfigFile |-> NoFile]
  /\ changes = 0 /\ pc = "none" /\ queue = <<>> /\ selected = NoConfig
  /\ ProviderInit

ProvidersInit == Init /\ (NoHost \/ (ConfigInit /\ ProviderInit))

ProvidersNext ==
  \/ pc = "none" /\ Next /\ UNCHANGED hostVars
  \/ HostNext /\ UNCHANGED vars

ProvidersSpec ==
  /\ ProvidersInit /\ [][ProvidersNext]_<<vars, hostVars>>
  /\ WF_vars(SendBatch) /\ WF_vars(Timeout \/ Receive \/ Refuse) /\ WF_vars(PublishVectors)
=============================================================================

----------------------------- MODULE TrustedConfig -----------------------------
(***************************************************************************)
(* discover_trusted_gkos_config: which gkos.toml a host takes its providers  *)
(* and secrets from, while such files are being written and removed.  A path *)
(* is the sequence of its names.  The vault root is given by its canonical   *)
(* path, the root markers (.git) stay, and what a document says is reduced   *)
(* to what decides whether it is valid, safe in a vault, and where it routes.*)
(***************************************************************************)
EXTENDS Integers, SequencesExt

CONSTANTS
  ConfigFile,         \* the paths where there may be a configuration file
  Here,               \* the current directory of the process
  File,               \* [plain, parses, document]: what may be at a path
  NoFile, NoPath, NoSection, NoConfig,
  Unset,              \* no timeout_ms
  MaxTimeout,         \* 300000
  Worlds,             \* the options of the host, and what is on its disk
  MaxChanges          \* bound: files written or removed meanwhile

ASSUME ConfigAssumption ==
  /\ MaxTimeout \in Nat \ {0} /\ MaxChanges \in Nat
  /\ NoFile \notin File
  /\ NoPath \notin ConfigFile

VARIABLES
  options,      \* TrustedConfigDiscoveryOptions: spelled paths, trust_cwd
  marked,       \* directories with a .git
  files,
  changes,
  pc,
  queue,        \* candidates still to be looked at
  selected      \* TrustedGkosConfig: path, provenance, document

configVars == <<options, marked, files, changes, pc, queue, selected>>

-----------------------------------------------------------------------------
(* Paths. *)

Step(path, name) ==
  CASE path = NoPath -> NoPath
    [] path # NoPath /\ name = "." -> path
    [] path # NoPath /\ name = ".." -> IF path = <<>> THEN NoPath ELSE Front(path)
    [] OTHER -> Append(path, name)

\* absolute_lexical_path; NoPath when the path climbs over the root.
Absolute(spelled) ==
  FoldLeft(Step, <<>>, IF spelled.absolute THEN spelled.names ELSE Here \o spelled.names)

Contained(path, root) == IsPrefix(root, path)

Exists(path) == path \in ConfigFile /\ files[path] # NoFile

\* find_workspace_root: the nearest directory upwards that is marked.
WorkspaceOf(cwd) ==
  LET above == {n \in 0..Len(cwd) : SubSeq(cwd, 1, n) \in marked} IN
    IF above = {} THEN NoPath
                  ELSE SubSeq(cwd, 1, CHOOSE n \in above : \A m \in above : m <= n)

ConfigIn(directory) == Append(directory, "gkos.toml")

-----------------------------------------------------------------------------
(* Documents.  A section that only says whether it is enabled is one kind of   *)
(* section, and one that configures a provider is another.                     *)

FieldsOf(kind) ==
  {"provider_id", "model_id", "dimensions"} \cup
  (CASE kind = "openai_compatible" -> {"endpoint", "token_env"}
     [] kind = "local_onnx" -> {"model_path"}
     [] kind = "mcp" -> {"server", "tool"})

\* VectorProviderConfig::validate, RerankProviderConfig::validate
ValidProvider(s) ==
  /\ s.enabled
  /\ s.wrong \cap FieldsOf(s.kind) = {}
  /\ s.timeout # Unset => s.timeout \in 1..MaxTimeout

ValidSection(s) ==
  \/ s = NoSection
  \/ s # NoSection /\ s.only /\ ~s.enabled
  \/ s # NoSection /\ ~s.only /\ ValidProvider(s)

ValidDocument(d) ==
  d.version /\ d.bounds /\ ValidSection(d.vectors) /\ ValidSection(d.reranker)

\* is_vault_safe: nothing but how results are shown.
VaultSafe(d) == ~d.host /\ ~d.chunking /\ d.vectors = NoSection /\ d.reranker = NoSection

-----------------------------------------------------------------------------
(* Discovery. *)

TrustedPath(spelled) == IF spelled = NoPath THEN NoPath ELSE Absolute(spelled)

\* Mutant of Workspace: a repository in the vault counts as a workspace.
Workspace_Anywhere ==
  IF options.workspace # NoPath THEN TrustedPath(options.workspace)
                                ELSE WorkspaceOf(Absolute(options.cwd))

\* The workspace given, or the repository the host was started in: not one in
\* the vault, whose files are notes.
Workspace ==
  IF options.workspace # NoPath THEN TrustedPath(options.workspace)
  ELSE LET found == WorkspaceOf(Absolute(options.cwd)) IN
         IF /\ found # NoPath /\ options.vault # NoPath
            /\ Contained(ConfigIn(found), Absolute(options.vault))
         THEN NoPath ELSE found

Candidate(path, provenance) ==
  IF path = NoPath THEN <<>> ELSE <<[path |-> path, provenance |-> provenance]>>

InDirectory(path) == IF path = NoPath THEN NoPath ELSE ConfigIn(path)

\* reject_unsafe_vault_config looks at the vault's own file last.
VaultCandidate == Candidate(InDirectory(TrustedPath(options.vault)), "vault")

Candidates ==
  Candidate(TrustedPath(options.explicit), "explicit")
  \o Candidate(IF options.trustCwd THEN ConfigIn(Absolute(options.cwd)) ELSE NoPath, "trusted_cwd")
  \o Candidate(InDirectory(Workspace), "workspace_root")
  \o Candidate(Absolute(options.user), "user")
  \o VaultCandidate

Spelled == {options.explicit, options.cwd, options.workspace, options.vault} \ {NoPath}

ConfigInit ==
  /\ \E w \in Worlds : options = w.options /\ marked = w.marked /\ files = w.files
  /\ changes = 0 /\ pc = "begin" /\ queue = <<>> /\ selected = NoConfig

\* A host changes none of these files; its user and other programs do.
Change(path, file) ==
  /\ changes < MaxChanges /\ pc \in {"begin", "look", "inspect", "read"}
  /\ changes' = changes + 1
  /\ files' = [files EXCEPT ![path] = file]
  /\ UNCHANGED <<options, marked, pc, queue, selected>>

Begin ==
  /\ pc = "begin"
  /\ IF \/ \E s \in Spelled : Absolute(s) = NoPath
        \/ options.explicit # NoPath /\ ~Exists(Absolute(options.explicit))
     THEN pc' = "failed" /\ UNCHANGED queue
     ELSE pc' = "look" /\ queue' = Candidates
  /\ UNCHANGED <<options, marked, files, changes, selected>>

First == Head(queue)

\* entry_exists: one that is not there is passed over, and so is the vault's
\* file when it is the one selected.
PassOver ==
  /\ pc = "look" /\ queue # <<>>
  /\ \/ ~Exists(First.path)
     \/ First.provenance = "vault" /\ selected # NoConfig /\ selected.path = First.path
  /\ queue' = Tail(queue)
  /\ UNCHANGED <<options, marked, files, changes, pc, selected>>

Find ==
  /\ pc = "look" /\ queue # <<>>
  /\ Exists(First.path)
  /\ ~(First.provenance = "vault" /\ selected # NoConfig /\ selected.path = First.path)
  /\ pc' = "inspect"
  /\ UNCHANGED <<options, marked, files, changes, queue, selected>>

\* read_config_file: a regular file of its own, not too large, not a link, in
\* directories that are not links.
Inspect ==
  /\ pc = "inspect"
  /\ pc' = IF Exists(First.path) /\ files[First.path].plain THEN "read" ELSE "failed"
  /\ UNCHANGED <<options, marked, files, changes, queue, selected>>

\* It is read again by its path: what is there now is what counts.
Readable(path) ==
  Exists(path) /\ files[path].parses /\ ValidDocument(files[path].document)

\* The first candidate that is there decides, even by being unreadable; after
\* it only the file of the vault is looked at.
ReadSelected ==
  /\ pc = "read" /\ First.provenance # "vault"
  /\ IF Readable(First.path)
     THEN /\ selected' = [path |-> First.path, provenance |-> First.provenance,
                          document |-> files[First.path].document]
          /\ queue' = VaultCandidate
          /\ pc' = "look"
     ELSE pc' = "failed" /\ UNCHANGED <<queue, selected>>
  /\ UNCHANGED <<options, marked, files, changes>>

\* reject_unsafe_vault_config
ReadVault ==
  /\ pc = "read" /\ First.provenance = "vault"
  /\ IF Readable(First.path) /\ VaultSafe(files[First.path].document)
     THEN pc' = "look" /\ queue' = Tail(queue)
     ELSE pc' = "failed" /\ UNCHANGED queue
  /\ UNCHANGED <<options, marked, files, changes, selected>>

Found ==
  /\ pc = "look" /\ queue = <<>>
  /\ pc' = "found"
  /\ UNCHANGED <<options, marked, files, changes, queue, selected>>

ConfigNext ==
  \/ \E p \in ConfigFile, f \in File \cup {NoFile} : Change(p, f)
  \/ Begin \/ PassOver \/ Find \/ Inspect \/ ReadSelected \/ ReadVault \/ Found
=============================================================================

---------------------------- MODULE GenerationFile ----------------------------
(***************************************************************************)
(* What a generation holds, how it is checked when it is built and again    *)
(* every time its file is opened.  Schema 2 is the store of notes           *)
(* (sqlite_store), schema 3 the store of records (candidate_store).         *)
(*                                                                         *)
(* A row is its primary key, the columns copied out of its content, and its *)
(* content; schema 2 has content in columns only.  A digest is taken to be  *)
(* what it is the digest of.                                                *)
(***************************************************************************)
EXTENDS Integers, Sequences, FiniteSets, SequencesExt

CONSTANTS
  Inputs,              \* what may be asked to be built
  NoSpace, NoFile,
  MaxAlterations

VARIABLES
  input,               \* what the generation is built of
  file,                \* its tables, or NoFile
  alterations,         \* how many rows were changed since it was built
  outcome              \* "none", "rejected", "built", "opened" or "refused"

fileVars == <<input, file, alterations, outcome>>

\* Schema 2 has no records, declarations or eligible chunks of its own.
ASSUME InputsAssumption ==
  \A in \in Inputs :
    /\ in = [schema |-> in.schema, chunks |-> in.chunks, space |-> in.space,
             vectors |-> in.vectors, sources |-> in.sources,
             declarations |-> in.declarations, eligible |-> in.eligible]
    /\ in.schema \in {2, 3}
    /\ IsFiniteSet(in.chunks) /\ IsFiniteSet(in.vectors)
    /\ \A v \in in.vectors : v = [chunk |-> v.chunk, value |-> v.value]
    /\ in.schema = 2 => in.sources = {} /\ in.declarations = {} /\ in.eligible = {}

ASSUME AlterationsAssumption == MaxAlterations \in Nat

-----------------------------------------------------------------------------
(* The identity of a chunk is computed from what it is a part of. *)

ChunkKey(c) == <<c.source, c.position, c.part, c.text>>

\* No identity stands twice.  The chunks of one source agree on what they say
\* of it, and are numbered without gaps in the source and in their section; a
\* parent is the first chunk of the section above.
ValidChunks(chunks) ==
  /\ \A c \in chunks :
       LET Of(source) == {d \in chunks : d.source = source}
           At(position) == {d \in Of(c.source) : d.position = position}
           Firsts == {d \in At(Front(c.position)) : d.part = 1} IN
       /\ \A d \in chunks : ChunkKey(d) = ChunkKey(c) => d = c
       /\ \A d \in Of(c.source) : d.path = c.path /\ d.meta = c.meta
       /\ LET ordinals == {d.ordinal : d \in Of(c.source)} IN ordinals = 1..Cardinality(ordinals)
       /\ LET parts == {d.part : d \in At(c.position)} IN parts = 1..Cardinality(parts)
       /\ Cardinality({d \in At(c.position) : d.part = 1}) <= 1
       /\ IF Len(c.position) = 1 THEN c.parent = <<>>
          ELSE c.parent \in {ChunkKey(d) : d \in Firsts}

Targets(in) == IF in.schema = 2 THEN {ChunkKey(c) : c \in in.chunks} ELSE in.eligible

\* None without an embedding space; else one of each target, and of its length.
\* Schema 3 has one vector for one text.
ValidVectors(in) ==
  IF in.space = NoSpace THEN in.vectors = {}
  ELSE /\ {v.chunk : v \in in.vectors} = Targets(in)
       /\ \A v, w \in in.vectors : v.chunk = w.chunk => v = w
       /\ \A v \in in.vectors : Len(v.value) = in.space.dimensions
       /\ in.schema = 3 => \A v, w \in in.vectors : v.chunk[4] = w.chunk[4] => v.value = w.value

\* prepare_generation of schema 3, of the records and what they declare.
ValidRecords(in) ==
  /\ \A s, t \in in.sources : s.key = t.key => s = t
  /\ \A d \in in.declarations :
       /\ \E s \in in.sources : s.key = d.source
       /\ LET alike == {e \in in.declarations : e.source = d.source /\ e.field = d.field} IN
            {e.index : e \in alike} = 0..Cardinality(alike) - 1
  /\ \A c \in in.chunks :
       /\ \E s \in in.sources : s.key = c.source /\ s.path = c.path /\ s.meta = c.meta
       /\ c.parent # <<>> => c.parent[1] = c.source
  /\ in.eligible \subseteq {ChunkKey(c) : c \in in.chunks}

Valid(in) ==
  /\ ValidChunks(in.chunks) /\ ValidVectors(in)
  /\ in.schema = 3 => ValidRecords(in)

\* The digest of schema 2 is of the chunks and vectors only.
Manifest(in) ==
  [schema |-> in.schema, space |-> in.space,
   sources |-> Cardinality({c.source : c \in in.chunks}), chunks |-> Cardinality(in.chunks),
   digest |-> IF in.schema = 2 THEN <<in.chunks, in.vectors>>
              ELSE <<in.chunks, in.vectors, in.sources, in.declarations, in.eligible>>]

-----------------------------------------------------------------------------
(* insert_generation *)

SourceRow(s, schema) == [key |-> s.key, columns |-> <<s.path, s.meta>>,
                         content |-> IF schema = 3 THEN s ELSE <<>>]
DeclarationRow(d) == [key |-> d, columns |-> d.source, content |-> d]
ChunkRow(c, schema) == [key |-> ChunkKey(c), content |-> c,
                        columns |-> IF schema = 3 THEN <<c.source, c.parent>> ELSE <<>>]
VectorRow(v, space) == [key |-> v.chunk, columns |-> space, content |-> v.value]
TextRow(c) == [key |-> ChunkKey(c), fields |-> <<c.meta, c.text>>]

\* The full-text table has no key: equal rows differ in their row number only.
Numbered(row, number) == [row |-> row, number |-> number]
TextsOf(table) == {t.row : t \in table}

\* A note without a chunk is not stored.
StoredSources(in) ==
  LET noted == {[key |-> c.source, path |-> c.path, meta |-> c.meta] : c \in in.chunks} IN
  {SourceRow(s, in.schema) : s \in IF in.schema = 3 THEN in.sources ELSE noted}

Tables(in) ==
  [manifest |-> [columns |-> Manifest(in), content |-> Manifest(in)],
   sources |-> StoredSources(in),
   declarations |-> {DeclarationRow(d) : d \in in.declarations},
   chunks |-> {ChunkRow(c, in.schema) : c \in in.chunks},
   texts |-> {Numbered(TextRow(c), 0) : c \in in.chunks},
   vectors |-> {VectorRow(v, in.space) : v \in in.vectors},
   eligible |-> in.eligible]

FileInit == input \in Inputs /\ file = NoFile /\ alterations = 0 /\ outcome = "none"

Build ==
  /\ outcome = "none" /\ Valid(input)
  /\ file' = Tables(input) /\ outcome' = "built"
  /\ UNCHANGED <<input, alterations>>

Reject ==
  /\ outcome = "none" /\ ~Valid(input)
  /\ outcome' = "rejected"
  /\ UNCHANGED <<input, file, alterations>>

-----------------------------------------------------------------------------
(* A table is damaged, or mixed up with one of another generation. *)

Peers == {in \in Inputs : in.schema = input.schema /\ Valid(in)}

\* Rows of any generation, and rows that mix two of them.
RowsOf(table) ==
  LET rows == UNION {Tables(in)[table] : in \in Peers} IN
  rows \cup UNION {{[b EXCEPT !.columns = a.columns], [b EXCEPT !.key = a.key]} : a, b \in rows}

Keyed(rows) == \A r, s \in rows : r.key = s.key => r = s

\* A row is lost, added or replaced.
AlterRow(table) ==
  \E rows \in {file[table] \ {r} : r \in file[table]} \cup {file[table]},
     new \in {{}} \cup {{r} : r \in RowsOf(table)} :
    /\ Keyed(rows \cup new) /\ rows \cup new # file[table]
    /\ file' = [file EXCEPT ![table] = rows \cup new]

LoseText ==
  \E t \in file.texts : file' = [file EXCEPT !.texts = @ \ {t}]

AddText ==
  \E c \in UNION {in.chunks : in \in Peers} :
    file' = [file EXCEPT !.texts = @ \cup {Numbered(TextRow(c), alterations + 1)}]

AlterEligible ==
  \E key \in UNION {in.eligible : in \in Peers} :
    file' = [file EXCEPT !.eligible = IF key \in @ THEN @ \ {key} ELSE @ \cup {key}]

AlterManifest ==
  \E in \in Peers : \/ file' = [file EXCEPT !.manifest.columns = Manifest(in)]
                    \/ file' = [file EXCEPT !.manifest.content = Manifest(in)]

Alter ==
  /\ outcome = "built" /\ alterations < MaxAlterations
  /\ \/ \E table \in {"sources", "declarations", "chunks", "vectors"} : AlterRow(table)
     \/ LoseText \/ AddText \/ AlterEligible \/ AlterManifest
  /\ alterations' = alterations + 1
  /\ UNCHANGED <<input, outcome>>

-----------------------------------------------------------------------------
(* SqliteRetrievalStore::open and GkxSqliteRetrievalStore::open *)

Contents(rows) == {r.content : r \in rows}

Reread ==
  [schema |-> input.schema, space |-> file.manifest.content.space,
   chunks |-> Contents(file.chunks),
   vectors |-> {[chunk |-> r.key, value |-> r.content] : r \in file.vectors},
   sources |-> IF input.schema = 3 THEN Contents(file.sources) ELSE {},
   declarations |-> Contents(file.declarations), eligible |-> file.eligible]

ReferencesHold ==
  LET keys == {r.key : r \in file.chunks} IN
  /\ \A c \in Contents(file.chunks) : /\ c.source \in {r.key : r \in file.sources}
                                      /\ c.parent # <<>> => c.parent \in keys
  /\ \A d \in Contents(file.declarations) : d.source \in {r.key : r \in file.sources}
  /\ {r.key : r \in file.vectors} \cup file.eligible \subseteq keys

\* Mutant of RowsAgree: the embedding space of a vector is not looked at.
RowsAgree_NoSpace ==
  /\ \A r \in file.chunks : r = ChunkRow(r.content, input.schema)
  /\ \A r \in file.declarations : r = DeclarationRow(r.content)
  /\ input.schema = 3 => \A r \in file.sources : r = SourceRow(r.content, 3)

\* The key and the columns of a row are those of its content.
RowsAgree ==
  /\ \A r \in file.chunks : r = ChunkRow(r.content, input.schema)
  /\ \A r \in file.declarations : r = DeclarationRow(r.content)
  /\ input.schema = 3 => \A r \in file.sources : r = SourceRow(r.content, 3)
  /\ \A r \in file.vectors : r.columns = file.manifest.content.space

\* Schema 2 counts its lexical rows and looks for the chunk of each; schema 3
\* also compares them all, in order of their identities.
TextsAgree(chunks) ==
  LET expected == {TextRow(c) : c \in chunks} IN
  /\ Cardinality(file.texts) = Cardinality(chunks)
  /\ IF input.schema = 3 THEN TextsOf(file.texts) = expected
                         ELSE TextsOf(file.texts) \subseteq expected

\* verify_persisted_projection
NotesVerified ==
  LET manifest == file.manifest.content
      stored == Reread.chunks
      bound == StoredSources(Reread) IN
  /\ ValidChunks(stored) /\ Cardinality(stored) = manifest.chunks
  /\ file.sources \subseteq bound
  /\ Cardinality(file.sources) = manifest.sources /\ Cardinality(bound) = manifest.sources
  /\ IF manifest.space = NoSpace THEN file.vectors = {}
     ELSE /\ \A r \in file.vectors : Len(r.content) = manifest.space.dimensions
          /\ Cardinality(file.vectors) = manifest.chunks
  /\ manifest.digest = <<stored, Reread.vectors>>

\* verify of schema 3 prepares the generation again.
RecordsVerified == Valid(Reread) /\ Manifest(Reread) = file.manifest.content

Verified ==
  /\ file.manifest.columns = file.manifest.content
  /\ ReferencesHold /\ RowsAgree /\ TextsAgree(Reread.chunks)
  /\ IF input.schema = 2 THEN NotesVerified ELSE RecordsVerified
  /\ file.manifest.content = Manifest(input)       \* which the pointer holds

Open ==
  /\ outcome = "built" /\ Verified
  /\ outcome' = "opened" /\ UNCHANGED <<input, file, alterations>>

Refuse ==
  /\ outcome = "built" /\ ~Verified
  /\ outcome' = "refused" /\ UNCHANGED <<input, file, alterations>>

FileNext == Build \/ Reject \/ Alter \/ Open \/ Refuse

FileSpec == FileInit /\ [][FileNext]_fileVars

-----------------------------------------------------------------------------
\* A generation that opens is the one that was built, row by row, except that
\* in schema 2 a lexical row may stand twice where another is missing; and one
\* that nobody changed opens (what was built was valid when it was written).
OnlyWhatWasBuilt ==
  /\ outcome = "opened" =>
       LET built == Tables(input) IN
       /\ \A table \in DOMAIN built \ {"texts"} : file[table] = built[table]
       /\ TextsOf(file.texts) \subseteq TextsOf(built.texts)
       /\ Cardinality(file.texts) = Cardinality(built.texts)
       /\ input.schema = 3 => TextsOf(file.texts) = TextsOf(built.texts)
  /\ outcome = "refused" => file # Tables(input)
=============================================================================

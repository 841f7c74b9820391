---------------------------- MODULE AuthorizedView ----------------------------
(***************************************************************************)
(* build_authorized_candidate_view: which of the records a caller may see   *)
(* are valid at an instant, and which supersede which.  GKOS Full hands     *)
(* over records and declarations; a declaration names its target by tiers   *)
(* of candidate records, and only records the caller may see and that are   *)
(* not later than the instant are looked at when it is resolved.            *)
(***************************************************************************)
EXTENDS Integers, FiniteSets, Sequences

CONSTANTS
  Record,             \* record keys
  Declaration,        \* [source, category, field, tiers]
  NoTime,             \* no instant asked for, or validity not known
  Instant,
  ValidFrom(_),
  SourceId(_), SourcePath(_), Fingerprint(_), SourceDigest(_),
  Chunk, RecordOf(_), ChunkId(_)

ASSUME ViewAssumption ==
  /\ IsFiniteSet(Record)
  /\ Instant \subseteq Int
  /\ NoTime \notin Int
  /\ \A r \in Record : ValidFrom(r) \in Instant \cup {NoTime}
  /\ \A c \in Chunk : RecordOf(c) \in Record
  /\ Declaration \subseteq [source : Record,
                            category : {"lineage", "relationship", "link"},
                            field : {"supersedes", "superseded_by", "related_to", "cites"},
                            tiers : Seq(SUBSET Record)]

Timed(r) == ValidFrom(r) # NoTime

\* Mutant of Known: the partition is skipped.
Known_All(S, at) == S

\* The records of S that are looked at: with an instant, those known to hold by then.
Known(S, at) == {r \in S : at = NoTime \/ (Timed(r) /\ ValidFrom(r) <= at)}
Future(S, at) == {r \in S : at # NoTime /\ Timed(r) /\ ValidFrom(r) > at}
Included(S, at) == S \ Future(S, at)

-----------------------------------------------------------------------------
(* What a declaration refers to. *)

\* The first tier that names a record we look at decides.
Deciding(d, K) == {i \in DOMAIN d.tiers :
                     /\ d.tiers[i] \cap K # {}
                     /\ \A j \in 1..i - 1 : d.tiers[j] \cap K = {}}

Candidates(d, K) == UNION {d.tiers[i] \cap K : i \in Deciding(d, K)}

\* Nothing we look at is named, but a record that is left out of the view is.
Suppressed(d, S, K) ==
  /\ Candidates(d, K) = {}
  /\ \E i \in DOMAIN d.tiers : d.tiers[i] \cap (S \ K) # {}

Resolved(d, K, t) == Candidates(d, K) = {t}

\* A declaration that refers to no record, to several, or to its own source.
Broken(d, S, K) ==
  /\ ~Suppressed(d, S, K)
  /\ ~\E t \in Record :
        /\ Resolved(d, K, t)
        /\ t # d.source \/ (d.category = "relationship" /\ d.field = "related_to")

Heard(D, K) == {d \in D : d.source \in K /\ d.category # "link"}

Edge(d, t) == IF d.field = "supersedes" THEN <<d.source, t>> ELSE <<t, d.source>>

\* <<newer, older>>
Edges(D, K) ==
  {Edge(p[1], p[2]) : p \in {q \in Heard(D, K) \X K :
                              q[1].category = "lineage" /\ Resolved(q[1], K, q[2])}}

Successors(E, r) == {n \in Record : <<n, r>> \in E}

Acyclic(E, K) ==
  \A S \in SUBSET K : S # {} => \E r \in S : \A o \in S : <<r, o>> \notin E

-----------------------------------------------------------------------------
(* The view. *)

Distinct(keys) == \A r, s \in DOMAIN keys : keys[r] = keys[s] => r = s

\* Two records that claim to be the same source, or one text under two digests.
Clash(K) ==
  \/ ~Distinct([r \in K |-> SourceId(r)]) \/ ~Distinct([r \in K |-> SourcePath(r)])
  \/ ~Distinct([c \in {c \in Chunk : RecordOf(c) \in K} |-> ChunkId(c)])
  \/ \E r, s \in K : Fingerprint(r) = Fingerprint(s) /\ SourceDigest(r) # SourceDigest(s)

\* Mutant of Conflict: a record may be superseded twice.
Conflict_Branches(S, D, at) ==
  LET K == Known(S, at) E == Edges(D, K) IN
  \/ Clash(K)
  \/ \E d \in Heard(D, K) : Broken(d, S, K)
  \/ ~Acyclic(E, K)

\* Any of these fails the whole search, with one error that says nothing else.
Conflict(S, D, at) ==
  LET K == Known(S, at) E == Edges(D, K) IN
  \/ Clash(K)
  \/ \E d \in Heard(D, K) : Broken(d, S, K)
  \/ \E e \in E : Timed(e[1]) /\ Timed(e[2]) /\ ValidFrom(e[1]) < ValidFrom(e[2])
  \/ \E r \in K : Cardinality(Successors(E, r)) > 1
  \/ ~Acyclic(E, K)

\* A record ends where the one that supersedes it begins.
ValidTo(E, r) ==
  LET ends == {ValidFrom(n) : n \in Successors(E, r)} \ {NoTime} IN
  IF Timed(r) /\ ends # {} THEN CHOOSE t \in ends : \A u \in ends : t <= u ELSE NoTime

\* The half-open interval.
ValidAt(E, r, at) ==
  /\ Timed(r) /\ ValidFrom(r) <= at
  /\ ValidTo(E, r) = NoTime \/ at < ValidTo(E, r)

\* Mutant of Eligible: the interval is closed.
Eligible_Closed(S, D, at) ==
  LET K == Known(S, at) E == Edges(D, K) IN
  IF at = NoTime THEN S
  ELSE {r \in K : ValidTo(E, r) = NoTime \/ at <= ValidTo(E, r)}

Eligible(S, D, at) ==
  LET K == Known(S, at) IN
  IF at = NoTime THEN S ELSE {r \in K : ValidAt(Edges(D, K), r, at)}

Coverage(S, D, at) ==
  IF at = NoTime THEN "not_requested"
  ELSE IF Included(S, at) = {} THEN "not_evaluated"
  ELSE IF (\E r \in Included(S, at) : ~Timed(r)) \/ Eligible(S, D, at) = {}
       THEN "insufficient" ELSE "sufficient"

View(S, D, at) ==
  LET E == Edges(D, Known(S, at)) valid == Eligible(S, D, at) IN
  [eligible |-> valid,
   valid_to |-> [r \in valid |-> ValidTo(E, r)],
   lineage |-> {e \in E : e[1] \in valid \/ e[2] \in valid},
   coverage |-> Coverage(S, D, at)]

-----------------------------------------------------------------------------
(* The same question asked of the provenance that a view without an instant *)
(* stores: E is the lineage of that view, whose records are S.               *)

Visible(S, at) == {r \in S : Timed(r) /\ (at = NoTime \/ ValidFrom(r) <= at)}

\* build_authorized_temporal_view: only ends that are visible themselves count.
ScopedTo(S, E, r, at) ==
  LET ends == {ValidFrom(n) : n \in {m \in Successors(E, r) \cap Visible(S, at) :
                                        ValidFrom(r) <= ValidFrom(m)}} IN
  IF ends # {} THEN CHOOSE t \in ends : \A u \in ends : t <= u ELSE NoTime

ScopedValid(S, E, at) ==
  IF at = NoTime THEN S
  ELSE {r \in Visible(S, at) : ScopedTo(S, E, r, at) = NoTime \/ at < ScopedTo(S, E, r, at)}

\* project_stored_intervals_at: the interval that was stored with the record.
StoredValid(S, E, at) == {r \in S : ValidAt(E, r, at)}
=============================================================================

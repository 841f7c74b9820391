--------------------------- MODULE MCIngestEnvelopes ---------------------------
(* Two observations of one path, found unreadable or with a diagnostic that    *)
(* only the profile of an operator makes blocking, and two owners that were    *)
(* active.  Beside what Full writes, envelopes that were put together wrongly. *)
EXTENDS IngestEnvelopes

CONSTANT Damaged   \* a digest of something else

TextRow(required, min, enum) ==
  [kind |-> "string", required |-> required, extension |-> FALSE,
   min |-> min, max |-> LongestText, enum |-> enum]

MCBaseline ==
  [authority |-> "standard", id |-> "gkos-current", unknown |-> 0, minimum |-> 0,
   required |-> {"title"}, severity |-> [GKX_TEMPORAL |-> 1],
   fields |-> [title |-> TextRow(TRUE, 1, None),
               sensitivity |-> TextRow(FALSE, None, {"public", "secret"})]]
Raised == [MCBaseline EXCEPT !.id = "operators", !.unknown = 2, !.minimum = 1,
                             !.severity = [GKX_TEMPORAL |-> 2]]
MCRaiseable == {"GKX_TEMPORAL"}
MCText == {"", "public", "secret"}
MCLength(v) == IF v = "" THEN 0 ELSE 6
MCBlank(v) == v = ""
MCSensitivityRank(v) == CASE v = "public" -> 0 [] v = "secret" -> 6 [] OTHER -> -1
MCClass(c) == CASE c = "READ_FAILED" -> "scan" [] c = "CONFLICT" -> "conflict"
                [] c = "GKX_TEMPORAL" -> "diagnostic" [] OTHER -> "type"
MCCodeFloor(c) == 2

Coordinate(n) ==
  [authority |-> n.authority, id |-> n.id, effective |-> n,
   selector |-> IF n = Baseline THEN "builtin" ELSE "operator-overlay",
   overlay |-> IF n = Baseline THEN None ELSE Damaged]

Bound_(e) == [f \in DOMAIN e \cup {"digest"} |-> IF f = "digest" THEN Digest(e.kind, e) ELSE e[f]]

Source == {<<"note", 0>>, <<"note", 1>>}
Found(code, severity, source, scope, basis, line, field) ==
  [code |-> code, severity |-> severity, report |-> source = None, source |-> source,
   scope |-> scope, basis |-> basis, line |-> line, field |-> field]
Finding ==
  {Found("READ_FAILED", 2, <<"note", 0>>, "file", "file_observation", FALSE, None),
   Found("GKX_TEMPORAL", 1, <<"note", 1>>, "field", "missing_field", FALSE, "created_at"),
   Found("GKX_TEMPORAL", 2, <<"note", 1>>, "field", "missing_field", FALSE, "created_at"),
   Found("CONFLICT", 2, None, "corpus", "corpus", FALSE, None)}

Rejection(n, F, s, bytes) ==
  Bound_([kind |-> "rejection", coordinate |-> Coordinate(n), source |-> s,
          bytes |-> bytes, findings |-> F])

Observation(F, s, bytes) ==
  LET blockers == {f \in Of(F, s) : Blocker(f)} IN
  [source |-> s, bytes |-> bytes, findings |-> Of(F, s), blockers |-> blockers,
   class |-> IF blockers = {} THEN "accepted" ELSE "rejected"]

Result(n, F, O, R) ==
  [kind |-> "result", coordinate |-> Coordinate(n), normalized |-> n,
   findings |-> F, observations |-> O, rejections |-> R,
   counts |-> [s \in 0..3 |-> Cardinality({f \in F : f.severity = s})],
   observed |-> Cardinality(O), rejected |-> Cardinality(R),
   accepted |-> Cardinality({o \in O : o.class = "accepted"}),
   corpus_valid |-> \A f \in F : ~Blocking(f.severity),
   intrinsic_valid |-> \A f \in F : ~Blocker(f)]

Seen(F, S, first) == {Observation(F, s, IF s[2] = 0 THEN first ELSE "sealed") : s \in S}
ResultsOf(n) ==
  {Result(n, F, Seen(F, S, first), {Rejection(n, Of(F, s), s, IF s[2] = 0 THEN first ELSE "sealed") : s \in X}) :
     F \in SUBSET Finding, S \in SUBSET Source, X \in SUBSET Source,
     first \in {"unsealed", "sealed"}}
AllResults == ResultsOf(Baseline) \cup ResultsOf(Raised)

\* The results that the owners are made of: nothing found, one source rejected.
Clean == Result(Baseline, {}, Seen({}, {<<"note", 0>>}, "sealed"), {})
CleanRaised == Result(Raised, {}, Seen({}, {<<"note", 0>>}, "sealed"), {})
Failed == CHOOSE F \in SUBSET Finding : Cardinality(F) = 1 /\ \E f \in F : f.code = "READ_FAILED"
Partial == Result(Baseline, Failed, Seen(Failed, Source, "unsealed"),
                  {Rejection(Baseline, Failed, <<"note", 0>>, "unsealed")})

Journal(r, R) ==
  Bound_([kind |-> "journal", snapshot |-> Snapshot(r), coordinate |-> r.coordinate,
          normalized |-> r.normalized, count |-> Cardinality(R), rejections |-> R])

Inner(r, sources) ==
  LET m == [snapshot |-> Snapshot(r), vault |-> "vault", settings |-> "settings",
            projection |-> "projection", sources |-> sources, represented |-> 0,
            chunks |-> 0, eligible |-> 0, provider |-> None, dimensions |-> None] IN
  [manifest |-> m, digest |-> Digest("manifest", m)]

Owner(r, mode, sources, j) ==
  Bound_([kind |-> "owner", mode |-> mode, vault |-> "vault", settings |-> "settings",
          snapshot |-> Snapshot(r), coordinate |-> r.coordinate,
          normalized |-> r.normalized, result |-> r, inner |-> Inner(r, sources),
          journal |-> j.digest, count |-> j.count])

Bases == {Clean, CleanRaised, Partial}
AllJournals == {Journal(r, R) : r \in Bases, R \in {{}, Partial.rejections}}
AllOwners == {Owner(r, mode, r.accepted + more, j) :
                r \in Bases, mode \in {"strict", "non_strict"}, more \in {0, 1},
                j \in AllJournals}
AllPointers == {PointerTo(o.digest, Projection(o.inner)) :
                  o \in {p \in AllOwners : p.journal = JournalDigest(p)}}

Active(kind) ==
  {[kind |-> kind, owner |-> o, projection |-> "p", pointer |-> PointerDigest(q, "p")] :
     o \in {"first", "second"}, q \in {"first", "second"}}
Legacy == [kind |-> "legacy", projection |-> "p"]
AllStatuses ==
  {Bound_([kind |-> "status", prior |-> p, availability |-> a, snapshot |-> "s",
           effective |-> "e", attempt |-> Digest("attempt", <<"s", "e">>)]) :
     p \in Active("ingest") \cup {None, Legacy}, a \in {"unavailable", "stale"}}
AllLocks ==
  {Bound_([kind |-> "lock", prior |-> None, operation |-> o, target |-> t]) :
     o \in {"preflight", "activation", "blocked"},
     t \in Active("activation") \cup {None}}
Roots ==
  {[kind |-> "root", owner |-> a.owner, projection |-> a.projection, pointer |-> a.pointer,
    migration |-> "m", legacy_digest |-> None, lock |-> "l",
    tombstone |-> Digest("tombstone", Tombstone(t, "m"))] :
     a \in Active("ingest"), t \in {"first", "second"}}
Witness(r, root) ==
  Bound_([f \in RootFields \cup {"kind", "state", "root"} |->
            CASE f = "kind" -> "witness" [] f = "state" -> "active"
              [] f = "root" -> RootDigest(root) [] OTHER -> r[f]])
AuthorityEnvelopes ==
  AllStatuses \cup AllLocks \cup {Bound_(r) : r \in Roots}
    \cup {Witness(r, q) : r, q \in Roots}
    \cup {Bound_(Tombstone(o, "m")) : o \in {"first", "second"}}
    \cup {Bound_([kind |-> "migration", legacy |-> l,
                  legacy_digest |-> IF d THEN Digest("legacy bytes", Legacy) ELSE None]) :
            l \in {None, Legacy}, d \in BOOLEAN}

AllIndexResults ==
  {[kind |-> "index", status |-> st, mode |-> md, active |-> a, blocked |-> b,
    observed |-> 1, accepted |-> 1 - x, rejected |-> x] :
     st \in {"published", "published_with_rejections", "blocked_strict", "operational_failure"},
     md \in {"strict", "non_strict"}, a \in Active("ingest") \cup {None},
     b \in {None} \cup {<<s.attempt, s.digest>> : s \in {t \in AllStatuses : ValidStatus(t)}}, x \in {0, 1}}

\* Narrowed and widened fields, required or not.
Changed ==
  {[Baseline EXCEPT !.fields["title"] = [@ EXCEPT !.min = b[1], !.max = b[2], !.enum = e, !.required = q],
                    !.fields["sensitivity"].enum = s,
                    !.required = IF q THEN {"title"} ELSE {}] :
     b \in {<<1, 6>>, <<6, 6>>, <<None, 6>>, <<1, 0>>},
     e \in {None, {}, {""}, {"secret"}}, q \in BOOLEAN,
     s \in {None, {"secret"}, {"public", ""}}}

MCOffered ==
  {[kind |-> "profile", normalized |-> n] :
     n \in {Baseline, Raised, [Baseline EXCEPT !.severity = [GKX_TEMPORAL |-> 0]]} \cup Changed}
    \cup AllResults \cup AllJournals \cup AllOwners \cup AllPointers
    \cup Partial.rejections \cup AuthorityEnvelopes \cup AllIndexResults
=============================================================================

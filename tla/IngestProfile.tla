----------------------------- MODULE IngestProfile -----------------------------
(***************************************************************************)
(* The normalized profile that GKOS Full validates notes under: what an     *)
(* operator may change of the built-in one.  Severities may only rise,      *)
(* floors may only rise, canonical fields may only narrow.                  *)
(*                                                                         *)
(* Severities, sensitivities and the treatment of unknown fields are their  *)
(* ranks.  Values of string fields are members of Text, known by their      *)
(* length, whether they are blank, and their rank as a sensitivity.         *)
(***************************************************************************)
EXTENDS Integers, FiniteSets, Sequences

CONSTANTS
  None,                     \* null
  Baseline,                 \* the built-in normalized profile
  Raiseable,                \* codes whose severity an operator may raise
  Text, Length(_), Blank(_),
  SensitivityRank(_),       \* -1 for a text that is none
  LongestText

ASSUME ProfileAssumption ==
  /\ None \notin Int
  /\ LongestText \in Nat \ {0}
  /\ \A v \in Text : Length(v) \in 0..LongestText /\ SensitivityRank(v) \in -1..6
  /\ \A v \in Text : Length(v) = 0 => Blank(v)

Kinds == {"string", "boolean", "integer", "array<string>"}
Bound == (0..LongestText) \cup {None}

\* A row that is not a string has the one domain of its kind.
Row == [kind : Kinds, required : BOOLEAN, extension : BOOLEAN,
        min : Bound, max : Bound, enum : {None} \cup SUBSET Text]

InBounds(row, v) ==
  /\ row.min = None \/ row.min <= Length(v)
  /\ row.max = None \/ Length(v) <= row.max

\* What the reading of a profile has established before it is compared.
TypedProfile(n) ==
  /\ n.unknown \in Nat /\ n.minimum \in Nat
  /\ n.severity \in [DOMAIN n.severity -> Nat]
  /\ n.fields \in [DOMAIN n.fields -> Row]

ASSUME BaselineAssumption == TypedProfile(Baseline)

\* What a value of the field may be; a required one may not be blank.
Admits(row, v) ==
  /\ InBounds(row, v)
  /\ row.enum = None \/ v \in row.enum
  /\ row.required => ~Blank(v)

WellFormed(row) ==
  /\ row.min # None /\ row.max # None => row.min <= row.max
  /\ row.kind = "string" <=> row.max # None
  /\ row.kind # "string" => row.min = None /\ row.enum = None
  /\ row.kind = "integer" => row.extension
  /\ row.required /\ row.kind = "string" => row.max # 0

EnumReachable(row) ==
  row.enum # None =>
    /\ \E v \in row.enum : InBounds(row, v)
    /\ row.required => \E v \in row.enum : InBounds(row, v) /\ ~Blank(v)

\* Mutant of Narrows: a field that notes must have may be made optional.
Narrows_Optional(row, canonical) ==
  /\ row.kind = canonical.kind
  /\ canonical.min # None => row.min # None /\ row.min >= canonical.min
  /\ canonical.max # None => row.max # None /\ row.max <= canonical.max
  /\ canonical.enum # None => row.enum # None /\ row.enum \subseteq canonical.enum

Narrows(row, canonical) ==
  /\ row.kind = canonical.kind
  /\ canonical.required => row.required
  /\ canonical.min # None => row.min # None /\ row.min >= canonical.min
  /\ canonical.max # None => row.max # None /\ row.max <= canonical.max
  /\ canonical.enum # None => row.enum # None /\ row.enum \subseteq canonical.enum

ValidFields(n) ==
  /\ DOMAIN Baseline.fields \subseteq DOMAIN n.fields
  /\ n.required = {f \in DOMAIN n.fields : n.fields[f].required}
  /\ \A f \in DOMAIN n.fields :
       LET row == n.fields[f] IN
       /\ row.extension <=> f \notin DOMAIN Baseline.fields
       /\ f = "sensitivity" => ~row.required
       /\ WellFormed(row) /\ EnumReachable(row)
       /\ ~row.extension => Narrows(row, Baseline.fields[f])
  /\ "sensitivity" \in DOMAIN n.fields /\ n.fields["sensitivity"].enum # None =>
       \E v \in n.fields["sensitivity"].enum : SensitivityRank(v) >= n.minimum

ValidSeverity(n) ==
  /\ DOMAIN n.severity = DOMAIN Baseline.severity
  /\ \A c \in DOMAIN n.severity :
       /\ n.severity[c] >= Baseline.severity[c]
       /\ c \notin Raiseable => n.severity[c] = Baseline.severity[c]

\* n.authority: contract, standard, engine policy, identity and relationship rules.
ValidNormalized(n) ==
  /\ n.authority = Baseline.authority
  /\ n.unknown >= Baseline.unknown /\ n.minimum >= Baseline.minimum
  /\ ValidSeverity(n) /\ ValidFields(n)

\* effective is the digest of a normalized profile, so the profile itself.
ValidCoordinate(c, n) ==
  /\ ValidNormalized(n)
  /\ c.effective = n /\ c.authority = n.authority /\ c.id = n.id
  /\ \/ c.selector = "builtin" /\ c.overlay = None /\ n = Baseline
     \/ c.selector = "operator-overlay" /\ c.overlay # None
=============================================================================

--------------------------- MODULE MCTemporalSearch ---------------------------
(* Two records at one instant after a first, one whose validity is not known  *)
(* and that has the name of the first, and declarations that contradict each  *)
(* other, fall through to a lower tier, or name what the caller may not see.  *)
EXTENDS TemporalSearch

MCRecord == {"old", "new", "rival", "undated"}
MCChunk == {"old", "oldpart", "new", "rival"}
MCValidFrom(r) == CASE r = "old" -> 1 [] r = "undated" -> NoTime [] OTHER -> 2
MCSourceId(r) == IF r = "undated" THEN "old" ELSE r
MCOwn(r) == r
MCRecordOf(c) == IF c = "oldpart" THEN "old" ELSE c
MCParentOf(c) == IF c = "oldpart" THEN "old" ELSE NoChunk
MCSpans(c) == IF c \in {"old", "oldpart"} THEN {"match"} ELSE {}
MCOverlap(c, d) == c = d
MCHitBytes(c) == IF c = "old" THEN 3 ELSE 2

Says(s, c, f, t) == [source |-> s, category |-> c, field |-> f, tiers |-> t]
MCDeclaration ==
  {Says("new", "lineage", "supersedes", <<{"old"}>>),
   Says("old", "lineage", "superseded_by", <<{"rival", "undated"}, {"new"}>>),
   Says("rival", "relationship", "related_to", <<{"rival"}>>),
   Says("old", "lineage", "supersedes", <<{}, {"undated", "new"}>>)}

MCDenials == {{}, {"oldpart"}, {"new"}}
MCEmbeddings == {<<>>, <<Chunk>>, <<Chunk \ {"new"}>>}
=============================================================================

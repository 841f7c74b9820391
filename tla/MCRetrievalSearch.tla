--------------------------- MODULE MCRetrievalSearch ---------------------------
(* Three overlapping chunks of one source, one of them the parent of the other *)
(* two, and a chunk of a second source.                                        *)
EXTENDS RetrievalSearch

MCSourceOf(c) == IF c = "other" THEN 2 ELSE 1
MCFirst(c) == IF c = "second" THEN 1 ELSE 0
MCLast(c) == CASE c = "first" -> 2 [] c = "second" -> 3 [] c = "whole" -> 3 [] c = "other" -> 2
MCParentOf(c) == IF c \in {"first", "second"} THEN "whole" ELSE NoChunk
=============================================================================

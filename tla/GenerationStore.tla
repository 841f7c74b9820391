--------------------------- MODULE GenerationStore ---------------------------
(***************************************************************************)
(* The public operations that run under the writer lock: building an       *)
(* immutable SQLite generation (build_retrieval_generation), building one   *)
(* after embedding its chunks with a provider (index_retrieval_generation)  *)
(* and selecting one (activate_retrieval_generation).  Schema 3 repeats the *)
(* same protocol in candidate_store.rs and temporal_coordinator.rs.         *)
(***************************************************************************)
EXTENDS WriterGuard

\* A writer with its capability turns to the work of the call.
Start(w, to) ==
  /\ Goto(w, "held", to)
  /\ \E g \in Gen : gen' = [gen EXCEPT ![w] = g]
  /\ UNCHANGED <<directoryVars, cap, seen, dropping>>

StartBuild(w) == Start(w, "build")

\* index: the capability is asserted once more before the provider is called.
StartIndex(w) ==
  IF Guarded(w) THEN Start(w, "embed") ELSE Start(w, "release")

\* The provider answered, timed out or failed: the build goes on with vectors or without.
EmbedReturns(w) ==
  /\ Goto(w, "embed", "build")
  /\ UNCHANGED <<directoryVars, cap, gen, seen, dropping>>

\* The future is dropped, or the provider panics, while the lock is held.
EmbedCancelled(w) ==
  /\ DropFrom(w, "embed")
  /\ UNCHANGED <<directoryVars, cap, gen, seen>>

\* Mutant of StartActivate: the generation is not opened before it is selected.
StartActivate_Unverified(w) ==
  /\ pc[w] = "held"
  /\ \E g \in Gen :
       /\ gen' = [gen EXCEPT ![w] = g]
       /\ Check(w, "held", Guarded(w), "bind", "release")
  /\ UNCHANGED <<directoryVars, cap, seen, dropping>>

\* activate: the generation must be there and verify; even a complete one may
\* fail to open.
StartActivate(w) ==
  /\ pc[w] = "held"
  /\ \E g \in Gen :
       /\ gen' = [gen EXCEPT ![w] = g]
       /\ \/ Guarded(w) /\ db[g] = "good" /\ Goto(w, "held", "bind")
          \/ Goto(w, "held", "release")
  /\ UNCHANGED <<directoryVars, cap, seen, dropping>>

-----------------------------------------------------------------------------
(* build_prepared_retrieval_generation *)

\* A generation of that digest that opens and verifies is reused.  One that does
\* not is moved away, and what is moved may be complete: every error of SQLite
\* counts (is_quarantinable_store_error), in schema 3 any error at all.
FindGeneration(w) ==
  /\ pc[w] = "build"
  /\ \/ Guarded(w) /\ db[gen[w]] = "absent" /\ Goto(w, "build", "insert")
     \/ Guarded(w) /\ db[gen[w]] # "absent" /\ Goto(w, "build", "quarantine")
     \/ (~Guarded(w) \/ db[gen[w]] = "good") /\ Goto(w, "build", "release")
  /\ UNCHANGED <<directoryVars, cap, gen, seen, dropping>>

\* Mutant of Quarantine: the other generations are swept away with that one.
Quarantine_Sweeps(w) ==
  /\ Goto(w, "quarantine", "insert") \/ Goto(w, "discard", "release")
  /\ db' = [g \in Gen |-> "absent"]
  /\ UNCHANGED <<guardVars, ptrTemp, pointer, dbTemp, evidence, cap, gen, seen, dropping>>

\* quarantine_generation_files: before the generation is built anew, or after it
\* failed to open at its final path.
Quarantine(w) ==
  /\ Goto(w, "quarantine", "insert") \/ Goto(w, "discard", "release")
  /\ db' = [db EXCEPT ![gen[w]] = "absent"]
  /\ UNCHANGED <<guardVars, ptrTemp, pointer, dbTemp, evidence, cap, gen, seen, dropping>>

BeginInsert(w) ==
  /\ Goto(w, "insert", "inserting")
  /\ dbTemp' = [dbTemp EXCEPT ![w] = "torn"]
  /\ UNCHANGED <<guardVars, ptrTemp, pointer, db, evidence, cap, gen, seen, dropping>>

EndInsert(w) ==
  /\ Goto(w, "inserting", "verified")
  /\ dbTemp' = [dbTemp EXCEPT ![w] = "whole"]
  /\ UNCHANGED <<guardVars, ptrTemp, pointer, db, evidence, cap, gen, seen, dropping>>

\* A failed insertion, or a temporary that reads back differently, is removed;
\* one that cannot be reopened at all stays behind.
InsertFails(w) ==
  /\ Goto(w, "inserting", "release")
  /\ dbTemp' \in {dbTemp, [dbTemp EXCEPT ![w] = "none"]}
  /\ UNCHANGED <<guardVars, ptrTemp, pointer, db, evidence, cap, gen, seen, dropping>>

\* The last look at the lock; a failure leaves the temporary to a later writer.
CheckBeforeRename(w) ==
  /\ Check(w, "verified", Guarded(w), "rename", "release")
  /\ UNCHANGED <<directoryVars, cap, gen, seen, dropping>>

\* The generation appears under its digest, complete, or not at all.
RenameGeneration(w) ==
  /\ Goto(w, "rename", "reopen")
  /\ db' = IF dbTemp[w] = "whole" THEN [db EXCEPT ![gen[w]] = "good"] ELSE db
  /\ dbTemp' = [dbTemp EXCEPT ![w] = "none"]
  /\ UNCHANGED <<guardVars, ptrTemp, pointer, evidence, cap, gen, seen, dropping>>

\* The renamed file is opened once more: it verifies, or it is discarded.
Reopen(w) ==
  /\ Goto(w, "reopen", "release") \/ Goto(w, "reopen", "discard")
  /\ UNCHANGED <<directoryVars, cap, gen, seen, dropping>>

\* The file system refuses to open, move or rename: the build ends as it stands.
BuildFails(w) ==
  /\ \E from \in {"build", "quarantine", "insert", "rename", "discard"} :
       Goto(w, from, "release")
  /\ UNCHANGED <<directoryVars, cap, gen, seen, dropping>>

-----------------------------------------------------------------------------
(* activate_with_writer, after the target is bound *)

Commit(w) ==
  /\ Check(w, "commit", CommitAllowed(w), "createPtrTemp", "release")
  /\ UNCHANGED <<directoryVars, cap, gen, seen, dropping>>

CreatePtrTemp(w) ==
  /\ Goto(w, "createPtrTemp", "writePtrTemp")
  /\ ptrTemp' = [ptrTemp EXCEPT ![w] = "torn"]
  /\ UNCHANGED <<guardVars, pointer, db, dbTemp, evidence, cap, gen, seen, dropping>>

WritePtrTemp(w) ==
  /\ Goto(w, "writePtrTemp", "recommit")
  /\ ptrTemp' = [ptrTemp EXCEPT ![w] = "whole"]
  /\ UNCHANGED <<guardVars, pointer, db, dbTemp, evidence, cap, gen, seen, dropping>>

WritePtrTempFails(w) ==
  /\ Goto(w, "writePtrTemp", "release")
  /\ ptrTemp' = [ptrTemp EXCEPT ![w] = "none"]
  /\ UNCHANGED <<guardVars, pointer, db, dbTemp, evidence, cap, gen, seen, dropping>>

\* The commit check is repeated; when it fails the writer removes its own temporary.
Recommit(w) ==
  /\ Check(w, "recommit", CommitAllowed(w), "publish", "release")
  /\ ptrTemp' = IF CommitAllowed(w) THEN ptrTemp ELSE [ptrTemp EXCEPT ![w] = "none"]
  /\ UNCHANGED <<guardVars, pointer, db, dbTemp, evidence, cap, gen, seen, dropping>>

\* The pointer is replaced.  Re-reading it afterwards decides only what the
\* call returns, and the release follows either way.
Publish(w) ==
  /\ Goto(w, "publish", "release")
  /\ pointer' = IF ptrTemp[w] = "whole" THEN gen[w] ELSE pointer
  /\ ptrTemp' = [ptrTemp EXCEPT ![w] = "none"]
  /\ UNCHANGED <<guardVars, db, dbTemp, evidence, cap, gen, seen, dropping>>

\* The rename fails and leaves the temporary to the release.
PublishFails(w) ==
  /\ Goto(w, "publish", "release")
  /\ UNCHANGED <<directoryVars, cap, gen, seen, dropping>>

StoreStep(w) ==
  \/ StartBuild(w) \/ StartIndex(w) \/ EmbedReturns(w) \/ EmbedCancelled(w)
  \/ StartActivate(w)
  \/ FindGeneration(w) \/ Quarantine(w) \/ BeginInsert(w) \/ EndInsert(w)
  \/ InsertFails(w) \/ CheckBeforeRename(w) \/ RenameGeneration(w) \/ Reopen(w)
  \/ BuildFails(w)
  \/ Commit(w) \/ CreatePtrTemp(w) \/ WritePtrTemp(w) \/ WritePtrTempFails(w)
  \/ Recommit(w) \/ Publish(w) \/ PublishFails(w)
=============================================================================

----------------------------- MODULE WriterGuard -----------------------------
(***************************************************************************)
(* The legacy writer lock of writer_lock.rs as its owners use it: acquire,  *)
(* bind a target, release, drop, crash.  Each action is one file-system     *)
(* mutation, or a group of reads between two mutations; what is read is     *)
(* remembered in pc, cap and seen, and may be stale when it is used.        *)
(***************************************************************************)
EXTENDS StateDirectory

CONSTANT CreationFaults   \* may a lock file fail to be created although there is none,
                          \* or fail for another reason than that there is one?

ASSUME CreationAssumption == CreationFaults \in BOOLEAN

VARIABLES
  pc,        \* where each writer's call is
  cap,       \* capability.lock: the lock record the writer believes it holds
  gen,       \* the generation the call builds or activates
  seen,      \* the pointer read by the first half of a release
  dropping   \* the explicit release has failed, or never ran: Drop is next

writerVars == <<pc, cap, gen, seen, dropping>>

AcquireStages == {"readPrior", "createLock"}
GuardStages == {"writeLock", "postcheck", "undoLock", "listTemps",
                "cleanTemps", "recheckTemps", "held"}
BuildStages == {"embed", "build", "quarantine", "insert", "inserting",
                "verified", "rename", "reopen", "discard"}
BindStages == {"bind", "createLockTemp", "writeLockTemp", "swapLock", "verifyLock"}
PublishStages == {"commit", "createPtrTemp", "writePtrTemp", "recommit", "publish"}
ReleaseStages == {"release", "releaseTemps", "releaseRecheck", "unlink"}

\* From the creation of its lock file to its removal.
Owning == GuardStages \cup BuildStages \cup BindStages \cup PublishStages
            \cup ReleaseStages

Stages == {"idle", "returned", "crashed"} \cup AcquireStages \cup Owning

WriterTypeOK ==
  /\ pc \in [Writer -> Stages]
  /\ cap \in [Writer -> LockFile \cup {NoFile}]
  /\ gen \in [Writer -> Pointers]
  /\ seen \in [Writer -> Pointers]
  /\ dropping \in [Writer -> BOOLEAN]

WriterInit ==
  /\ pc = [w \in Writer |-> "idle"]
  /\ cap = [w \in Writer |-> NoFile]
  /\ gen = [w \in Writer |-> NoGen]
  /\ seen = [w \in Writer |-> NoGen]
  /\ dropping = [w \in Writer |-> FALSE]

Goto(w, from, to) == pc[w] = from /\ pc' = [pc EXCEPT ![w] = to]

\* A group of checks: continue when they all hold, leave for `other' at the first that fails.
Check(w, from, ok, to, other) == Goto(w, from, IF ok THEN to ELSE other)

\* assert_legacy_writer_capability
CapabilityHolds(w) == ReadLock(cap[w])

\* The pair of assertions every guarded step of the code begins with.
Guarded(w) == CapabilityHolds(w) /\ NoPhase3Authority

-----------------------------------------------------------------------------
(* acquire_legacy_retrieval_writer *)

\* Authority, temporaries and recovery claim are looked at before the lock.
AcquireCheck(w) ==
  /\ Check(w, "idle",
           NoPhase3Authority /\ WriterTemporaries = {} /\ claim = NoFile,
           "readPrior", "returned")
  /\ UNCHANGED <<directoryVars, cap, gen, seen, dropping>>

\* The prior pointer digest of the new lock is read BEFORE the lock exists.
ReadPrior(w) ==
  /\ Goto(w, "readPrior", "createLock")
  /\ cap' = [cap EXCEPT ![w] = [lock_id |-> w, prior |-> pointer, target |-> NoGen]]
  /\ UNCHANGED <<directoryVars, gen, seen, dropping>>

\* Mutant of CreateLock: the file is opened without create_new.
CreateLock_Truncates(w) ==
  /\ Goto(w, "createLock", "writeLock")
  /\ lock' = cap[w] /\ torn' = torn \cup {w}
  /\ UNCHANGED <<claim, lockTemp, storeVars, evidence, cap, gen, seen, dropping>>

\* create_new: an existing lock rejects the call, else an empty file appears.
CreateLock(w) ==
  /\ Check(w, "createLock", lock = NoFile, "writeLock", "returned")
  /\ IF lock = NoFile
       THEN lock' = cap[w] /\ torn' = torn \cup {w}
       ELSE UNCHANGED <<lock, torn>>
  /\ UNCHANGED <<claim, lockTemp, storeVars, evidence, cap, gen, seen, dropping>>

\* remove_uncommitted_writer_temporary of the lock path: whose file it is, is not
\* asked, but one with a second link stays.
RemoveUncommittedLock ==
  IF lock = claim THEN UNCHANGED <<lock, torn>>
                  ELSE lock' = NoFile /\ torn' = {w \in torn : lock.lock_id # w}

\* The creation fails with anything but AlreadyExists (no descriptor is left, say,
\* which is found before the path is looked at), and the call cleans up after a
\* file it did not create.
CreateLockFails(w) ==
  /\ CreationFaults
  /\ Goto(w, "createLock", "returned")
  /\ IF lock = NoFile THEN UNCHANGED <<lock, torn>> ELSE RemoveUncommittedLock
  /\ UNCHANGED <<claim, lockTemp, storeVars, evidence, cap, gen, seen, dropping>>

WriteLock(w) ==
  /\ Goto(w, "writeLock", "postcheck")
  /\ torn' = torn \ {w}
  /\ UNCHANGED <<lock, claim, lockTemp, storeVars, evidence, cap, gen, seen, dropping>>

\* The write, sync or chmod fails, and the call removes the file it created.
WriteLockFails(w) ==
  /\ Goto(w, "writeLock", "returned")
  /\ lock' = IF lock = claim THEN lock ELSE NoFile
  /\ torn' = IF lock = claim THEN torn ELSE torn \ {w}
  /\ UNCHANGED <<claim, lockTemp, storeVars, evidence, cap, gen, seen, dropping>>

Postcheck(w) ==
  /\ Check(w, "postcheck", Guarded(w) /\ WriterTemporaries = {},
           "listTemps", "undoLock")
  /\ UNCHANGED <<directoryVars, cap, gen, seen, dropping>>

\* A failed postcheck removes the lock only when it still reads as its own.
UndoLock(w) ==
  /\ Check(w, "undoLock", CapabilityHolds(w), "unlink", "returned")
  /\ UNCHANGED <<directoryVars, cap, gen, seen, dropping>>

\* The `?' of acquire and cancelled futures go straight to Drop.
DropFrom(w, from) ==
  /\ Goto(w, from, "release")
  /\ dropping' = [dropping EXCEPT ![w] = TRUE]

\* recover_lite_database_temporaries: the private SQLite temporaries of dead
\* builders are removed under the new capability.
ListTemps(w) ==
  /\ IF Guarded(w) THEN Goto(w, "listTemps", "cleanTemps") /\ UNCHANGED dropping
                   ELSE DropFrom(w, "listTemps")
  /\ UNCHANGED <<directoryVars, cap, gen, seen>>

CleanTemps(w) ==
  /\ Goto(w, "cleanTemps", "recheckTemps")
  /\ dbTemp' = [v \in Writer |-> "none"]
  /\ UNCHANGED <<guardVars, ptrTemp, pointer, db, evidence, cap, gen, seen, dropping>>

RecheckTemps(w) ==
  /\ IF Guarded(w) THEN Goto(w, "recheckTemps", "held") /\ UNCHANGED dropping
                   ELSE DropFrom(w, "recheckTemps")
  /\ UNCHANGED <<directoryVars, cap, gen, seen>>

-----------------------------------------------------------------------------
(* bind_legacy_writer_target and replace_lock *)

BoundLock(w) == [cap[w] EXCEPT !.target = gen[w]]

Bind(w) ==
  /\ Check(w, "bind", Guarded(w) /\ pointer = cap[w].prior,
           "createLockTemp", "release")
  /\ UNCHANGED <<directoryVars, cap, gen, seen, dropping>>

CreateLockTemp(w) ==
  /\ Goto(w, "createLockTemp", "writeLockTemp")
  /\ lockTemp' = [lockTemp EXCEPT ![w] = "torn"]
  /\ UNCHANGED <<lock, claim, torn, storeVars, evidence, cap, gen, seen, dropping>>

WriteLockTemp(w) ==
  /\ Goto(w, "writeLockTemp", "swapLock")
  /\ lockTemp' = [lockTemp EXCEPT ![w] = "whole"]
  /\ UNCHANGED <<lock, claim, torn, storeVars, evidence, cap, gen, seen, dropping>>

WriteLockTempFails(w) ==
  /\ Goto(w, "writeLockTemp", "release")
  /\ lockTemp' = [lockTemp EXCEPT ![w] = "none"]
  /\ UNCHANGED <<lock, claim, torn, storeVars, evidence, cap, gen, seen, dropping>>

\* atomic_replace moves the bound record over whatever the lock path holds.
SwapLock(w) ==
  /\ Goto(w, "swapLock", "verifyLock")
  /\ lock' = BoundLock(w)
  /\ lockTemp' = [lockTemp EXCEPT ![w] = "none"]
  /\ UNCHANGED <<claim, torn, storeVars, evidence, cap, gen, seen, dropping>>

\* The rename fails and leaves the temporary to the release.
SwapLockFails(w) ==
  /\ Goto(w, "swapLock", "release")
  /\ UNCHANGED <<directoryVars, cap, gen, seen, dropping>>

\* The capability takes the bound record only when it reads back.
VerifyLock(w) ==
  /\ Check(w, "verifyLock", ReadLock(BoundLock(w)), "commit", "release")
  /\ cap' = IF ReadLock(BoundLock(w)) THEN [cap EXCEPT ![w] = BoundLock(w)] ELSE cap
  /\ UNCHANGED <<directoryVars, gen, seen, dropping>>

\* assert_legacy_writer_commit
CommitAllowed(w) ==
  /\ Guarded(w)
  /\ cap[w].target = gen[w]
  /\ pointer = cap[w].prior

-----------------------------------------------------------------------------
(* release_owned_writer_if_unambiguous, first from finish_with_writer and,   *)
(* when that fails, once more from Drop                                      *)

ReleaseOr(w, from, ok, to) ==
  \/ ok /\ Goto(w, from, to) /\ UNCHANGED dropping
  \/ ~ok /\ dropping[w] /\ Goto(w, from, "returned") /\ UNCHANGED dropping
  \/ ~ok /\ ~dropping[w] /\ DropFrom(w, from)

\* Mutant of ReleaseCheck: only the prior pointer is accepted.
ReleaseCheck_PriorOnly(w) ==
  /\ ReleaseOr(w, "release", Guarded(w) /\ pointer = cap[w].prior, "releaseTemps")
  /\ seen' = [seen EXCEPT ![w] = pointer]
  /\ UNCHANGED <<directoryVars, cap, gen>>

ReleaseCheck(w) ==
  /\ ReleaseOr(w, "release", Guarded(w) /\ UnambiguousPointer(cap[w]), "releaseTemps")
  /\ seen' = [seen EXCEPT ![w] = pointer]
  /\ UNCHANGED <<directoryVars, cap, gen>>

\* Mutant of ReleaseTemps: what a failed rename left is not cleaned up.
ReleaseTemps_Keeps(w) ==
  /\ ReleaseOr(w, "releaseTemps", TornTemporaries = {}, "releaseRecheck")
  /\ UNCHANGED <<directoryVars, cap, gen, seen>>

\* Every controlled temporary must read back before any of this is a release.
ReleaseTemps(w) ==
  /\ ReleaseOr(w, "releaseTemps", TornTemporaries = {}, "releaseRecheck")
  /\ IF TornTemporaries = {} THEN RemoveWriterTemporaries
                             ELSE UNCHANGED <<lockTemp, ptrTemp>>
  /\ UNCHANGED <<lock, claim, torn, pointer, db, dbTemp, evidence, cap, gen, seen>>

ReleaseRecheck(w) ==
  /\ ReleaseOr(w, "releaseRecheck", Guarded(w) /\ pointer = seen[w], "unlink")
  /\ UNCHANGED <<directoryVars, cap, gen, seen>>

\* remove_file(lock) takes whatever file the path names.
Unlink(w) ==
  /\ Goto(w, "unlink", "returned")
  /\ lock' = NoFile
  /\ UNCHANGED <<claim, torn, lockTemp, storeVars, evidence, cap, gen, seen, dropping>>

-----------------------------------------------------------------------------
\* A live call has returned and its lock is still there.
Stranded(w) == pc[w] = "returned" /\ lock # NoFile /\ lock.lock_id = w

\* The process dies: in the middle of a call, or after a call that left its lock.
Crash(w) ==
  /\ pc[w] \in AcquireStages \cup Owning \/ Stranded(w)
  /\ pc' = [pc EXCEPT ![w] = "crashed"]
  /\ UNCHANGED <<directoryVars, cap, gen, seen, dropping>>

GuardStep(w) ==
  \/ AcquireCheck(w) \/ ReadPrior(w) \/ CreateLock(w) \/ CreateLockFails(w)
  \/ WriteLock(w) \/ WriteLockFails(w) \/ Postcheck(w) \/ UndoLock(w)
  \/ ListTemps(w) \/ CleanTemps(w) \/ RecheckTemps(w)
  \/ Bind(w) \/ CreateLockTemp(w) \/ WriteLockTemp(w) \/ WriteLockTempFails(w)
  \/ SwapLock(w) \/ SwapLockFails(w) \/ VerifyLock(w)
  \/ ReleaseCheck(w) \/ ReleaseTemps(w) \/ ReleaseRecheck(w) \/ Unlink(w)
=============================================================================

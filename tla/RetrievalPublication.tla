------------------------- MODULE RetrievalPublication -------------------------
(***************************************************************************)
(* The whole publication protocol over one state directory: writers that   *)
(* build and activate generations under the legacy writer lock, operators  *)
(* that recover the locks of dead writers, and Full (outside this           *)
(* repository), whose ingest-* evidence may come and go.                    *)
(***************************************************************************)
EXTENDS GenerationStore, StaleRecovery

CONSTANT Phase3Contention   \* does Full touch the directory at all?

ASSUME ContentionAssumption == Phase3Contention \in BOOLEAN

vars == <<directoryVars, writerVars, recoveryVars>>

\* An attempt of Full starts, or is aborted and takes its evidence back.
Phase3Authority ==
  /\ Phase3Contention
  /\ evidence' = ~evidence
  /\ UNCHANGED <<guardVars, storeVars, writerVars, recoveryVars>>

WriterStep(w) == (GuardStep(w) \/ StoreStep(w)) /\ UNCHANGED recoveryVars

WriterCrash(w) == Crash(w) /\ UNCHANGED recoveryVars

Init == DirectoryInit /\ WriterInit /\ RecoveryInit

Next ==
  \/ \E w \in Writer : WriterStep(w) \/ WriterCrash(w)
  \/ \E r \in Recoverer : RecoveryStep(r) \/ RecoveryCrashes(r)
  \/ Phase3Authority

Spec == Init /\ [][Next]_vars

\* Every call is a sequential program that ends: file operations return, the
\* provider is bounded by its timeout.  The operator keeps asking for recovery
\* as long as a dead call's lock or claim is there.
Fairness ==
  /\ \A w \in Writer : WF_vars(WriterStep(w))
  /\ \A r \in Recoverer : WF_vars(RecoveryStep(r))

FairSpec == Spec /\ Fairness

-----------------------------------------------------------------------------
TypeOK == DirectoryTypeOK /\ WriterTypeOK /\ RecoveryTypeOK

\* No two calls are between the creation and the removal of their lock files.
MutualExclusion ==
  \A v, w \in Writer : pc[v] \in Owning /\ pc[w] \in Owning => v = w

\* A lock or pointer temporary exists only beside the lock of the call that
\* wrote it: acquisition refuses any temporary and only recovery of a lock
\* removes one, so an orphan would block every writer for good.
TemporariesAreGuarded ==
  \A w \in WriterTemporaries : lock # NoFile /\ lock.lock_id = w

\* What a live builder is about to rename is its own complete database: no
\* other acquisition's clean-up took it.
BuilderKeepsTemporary ==
  \A w \in Writer : pc[w] \in {"verified", "rename"} => dbTemp[w] = "whole"

\* The pointer moves only from the prior to the target that the lock on disk
\* records, by a live call, although each of the checks is made well before
\* the rename: a compare-and-swap in effect.
CompareAndSwap ==
  pointer' # pointer => /\ Sealed(lock)
                        /\ pc[lock.lock_id] = "publish"
                        /\ lock.prior = pointer
                        /\ lock.target = pointer'

PublicationIsCompareAndSwap == [][CompareAndSwap]_vars

\* The pointer moves only to a generation that is complete at that instant: it
\* was verified many steps before, and no build that moves a generation away
\* came between.
SelectsComplete == pointer' # pointer => pointer' # NoGen /\ db[pointer'] = "good"

PublicationIsComplete == [][SelectsComplete]_vars

\* A complete generation is moved away only by the live call that holds the
\* lock and builds that very generation, and under no call that has verified it
\* and is about to publish it.
WithdrawsItsOwn ==
  \A g \in Gen : db[g] = "good" /\ db'[g] # "good" =>
    /\ lock # NoFile
    /\ pc[lock.lock_id] \in {"quarantine", "discard"} /\ gen[lock.lock_id] = g
    /\ \A w \in Writer : gen[w] = g => pc[w] \notin BindStages \cup PublishStages

OnlyItsBuilderWithdraws == [][WithdrawsItsOwn]_vars

\* A stale lock goes only when the directory says which of the two outcomes
\* the dead call had, and nothing half-written of that call stays behind.
LeavesDecidedOutcome ==
  lock # NoFile /\ lock' = NoFile /\ pc[lock.lock_id] = "crashed" =>
    /\ UnambiguousPointer(lock)
    /\ lock.lock_id \notin WriterTemporaries

RecoveryIsAllOrNothing == [][LeavesDecidedOutcome]_vars

\* The lock a recovery removes is the one it verified and claimed, although a
\* listing, two reads and the checks of the pointer lie between.
RemovesOnlyItsLock ==
  \A r \in Recoverer : rpc[r] = "rmLock" /\ rpc'[r] = "final" => lock = rlock[r]

RecoveryRemovesOnlyItsLock == [][RemovesOnlyItsLock]_vars

\* A call that returned without releasing left a lock the recovery path can
\* take: the pointer is one of the two values its record allows.
RetainedLockIsRecoverable ==
  \A w \in Writer : Stranded(w) => UnambiguousPointer(lock)

-----------------------------------------------------------------------------
Holds(f, w) == f # NoFile /\ f.lock_id = w

\* A dead call whose lock or claim, temporaries and pointer are all in order.
OrderlyResidue(w) ==
  /\ pc[w] = "crashed"
  /\ TornTemporaries = {}
  /\ \E f \in {lock, claim} : Holds(f, w) /\ Sealed(f) /\ UnambiguousPointer(f)

\* An operator that keeps recovering removes lock and claim of a dead call,
\* resuming the recoveries that died.
RecoveryCompletes ==
  \A w \in Writer :
    OrderlyResidue(w) ~> ~Holds(lock, w) /\ ~Holds(claim, w)

\* A live call gives its lock back, in whatever way it ends, unless the pointer
\* has become ambiguous.
OwnedLockIsReleased ==
  \A w \in Writer :
    pc[w] \in Owning ~> \/ pc[w] = "crashed"
                       \/ ~Holds(lock, w)
                       \/ ~UnambiguousPointer(lock)

-----------------------------------------------------------------------------
\* The ownership and the store, as ExclusivePublisher sees them.
Abstract == INSTANCE ExclusivePublisher WITH
  Client <- Writer,
  Item <- Gen,
  NoOwner <- NoFile,
  NoItem <- NoGen,
  owner <- IF lock = NoFile THEN NoFile ELSE lock.lock_id,
  active <- pointer,
  complete <- {g \in Gen : db[g] = "good"},
  dead <- {w \in Writer : pc[w] = "crashed"}

\* The protocol implements the abstract exclusive publisher.
ImplementsExclusivePublisher == Abstract!Spec
=============================================================================

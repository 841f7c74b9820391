----------------------------- MODULE ActionProof -----------------------------
(***************************************************************************)
(* What a step of the protocol may never do, from the invariant of         *)
(* PublicationProof: the action properties, and that every step is one of  *)
(* ExclusivePublisher or leaves its variables alone.  They rest on a census *)
(* of the few actions that touch the lock, the pointer, a generation or the *)
(* set of the dead.                                                         *)
(***************************************************************************)
EXTENDS PublicationProof

-----------------------------------------------------------------------------
(* The census.                                                              *)

\* Of the guard's steps, four write the lock file, none the store, and none kills.
LEMMA GuardStepCensus ==
  ASSUME ~CreationFaults, TypeOK, NEW w \in Writer, GuardStep(w)
  PROVE  /\ UNCHANGED <<pointer, db>>
         /\ \/ UNCHANGED lock
            \/ CreateLock(w) /\ lock = NoFile
            \/ WriteLockFails(w) \/ SwapLock(w) \/ Unlink(w)
         /\ \A v \in Writer : (pc'[v] = "crashed") = (pc[v] = "crashed")
<1> USE DEF TypeOK, WriterTypeOK, Goto, Check, DropFrom, ReleaseOr, directoryVars,
    guardVars, storeVars
<1>1. CASE AcquireCheck(w) \/ ReadPrior(w) \/ CreateLock(w) \/ CreateLockFails(w)
  BY <1>1 DEF AcquireCheck, ReadPrior, CreateLock, CreateLockFails
<1>2. CASE WriteLock(w) \/ WriteLockFails(w) \/ Postcheck(w) \/ UndoLock(w)
  BY <1>2 DEF WriteLock, WriteLockFails, Postcheck, UndoLock
<1>3. CASE ListTemps(w) \/ CleanTemps(w) \/ RecheckTemps(w)
  BY <1>3 DEF ListTemps, CleanTemps, RecheckTemps
<1>4. CASE Bind(w) \/ CreateLockTemp(w) \/ WriteLockTemp(w) \/ WriteLockTempFails(w)
  BY <1>4 DEF Bind, CreateLockTemp, WriteLockTemp, WriteLockTempFails
<1>5. CASE SwapLock(w) \/ SwapLockFails(w) \/ VerifyLock(w)
  BY <1>5 DEF SwapLock, SwapLockFails, VerifyLock
<1>6. CASE ReleaseCheck(w) \/ ReleaseRecheck(w) \/ Unlink(w)
  BY <1>6 DEF ReleaseCheck, ReleaseRecheck, Unlink
<1>7. CASE ReleaseTemps(w)
  BY <1>7 DEF ReleaseTemps
<1> QED
  BY <1>1, <1>2, <1>3, <1>4, <1>5, <1>6, <1>7 DEF GuardStep

\* Of the store's steps, one moves the pointer, two write generations, none the lock.
LEMMA StoreStepCensus ==
  ASSUME TypeOK, NEW w \in Writer, StoreStep(w)
  PROVE  /\ UNCHANGED lock
         /\ \/ UNCHANGED <<pointer, db>>
            \/ Quarantine(w) \/ RenameGeneration(w) \/ Publish(w)
         /\ \A v \in Writer : (pc'[v] = "crashed") = (pc[v] = "crashed")
<1> USE DEF TypeOK, WriterTypeOK, Goto, Check, DropFrom, Start, directoryVars,
    guardVars, storeVars
<1>1. CASE StartBuild(w) \/ StartIndex(w) \/ StartActivate(w)
  BY <1>1 DEF StartBuild, StartIndex, StartActivate
<1>2. CASE EmbedReturns(w) \/ EmbedCancelled(w)
  BY <1>2 DEF EmbedReturns, EmbedCancelled
<1>3. CASE FindGeneration(w) \/ Quarantine(w) \/ BeginInsert(w) \/ EndInsert(w)
  BY <1>3 DEF FindGeneration, Quarantine, BeginInsert, EndInsert
<1>4. CASE InsertFails(w) \/ CheckBeforeRename(w) \/ RenameGeneration(w)
          \/ Reopen(w) \/ BuildFails(w)
  BY <1>4 DEF InsertFails, CheckBeforeRename, RenameGeneration, Reopen, BuildFails
<1>5. CASE Commit(w) \/ CreatePtrTemp(w) \/ WritePtrTemp(w) \/ WritePtrTempFails(w)
  BY <1>5 DEF Commit, CreatePtrTemp, WritePtrTemp, WritePtrTempFails
<1>6. CASE Recommit(w) \/ Publish(w) \/ PublishFails(w)
  BY <1>6 DEF Recommit, Publish, PublishFails
<1> QED
  BY <1>1, <1>2, <1>3, <1>4, <1>5, <1>6 DEF StoreStep

\* Of a recovery's steps, one restores a lock and one removes it; the store and
\* the calls are left alone.
LEMMA RecoveryStepCensus ==
  ASSUME NEW r \in Recoverer, RecoveryStep(r)
  PROVE  /\ UNCHANGED <<pointer, db, pc>>
         /\ UNCHANGED lock \/ Relink(r) \/ RemoveStaleLock(r)
<1> USE DEF directoryVars, guardVars, storeVars, writerVars
<1>1. CASE StartRecovery(r) \/ ReadClaim(r) \/ Relink(r) \/ Compare(r) \/ Unclaim(r)
  BY <1>1 DEF StartRecovery, ReadClaim, Relink, Compare, Unclaim
<1>2. CASE ReadStaleLock(r) \/ Link(r) \/ VerifyClaim(r) \/ CheckRecovered(r)
  BY <1>2 DEF ReadStaleLock, Link, VerifyClaim, CheckRecovered
<1>3. CASE RecoverTemporaries(r)
  BY <1>3 DEF RecoverTemporaries
<1>4. CASE RemoveStaleLock(r) \/ FinalClaim(r) \/ RemoveClaim(r)
  BY <1>4 DEF RemoveStaleLock, FinalClaim, RemoveClaim
<1> QED
  BY <1>1, <1>2, <1>3, <1>4 DEF RecoveryStep

\* A step that leaves what the abstract publisher sees.
Quiet ==
  /\ UNCHANGED <<lock, pointer, db>>
  /\ \A v \in Writer : (pc'[v] = "crashed") = (pc[v] = "crashed")

\* A live call's step that changes the lock, the pointer or a generation.
Visible(w) ==
  /\ \/ /\ \/ CreateLock(w) /\ lock = NoFile
           \/ WriteLockFails(w) \/ SwapLock(w) \/ Unlink(w)
        /\ UNCHANGED <<pointer, db>>
     \/ /\ Quarantine(w) \/ RenameGeneration(w) \/ Publish(w)
        /\ UNCHANGED lock
  /\ \A v \in Writer : (pc'[v] = "crashed") = (pc[v] = "crashed")

\* A recovery's step that changes the lock.
VisibleRecovery(r) ==
  (Relink(r) \/ RemoveStaleLock(r)) /\ UNCHANGED <<pointer, db, pc>>

\* Any step is quiet, or one of the nine that are not, or a crash.
LEMMA Census ==
  ASSUME ~CreationFaults, TypeOK, [Next]_vars
  PROVE  \/ Quiet
         \/ \E w \in Writer : Visible(w)
         \/ \E w \in Writer : Crash(w)
         \/ \E r \in Recoverer : VisibleRecovery(r)
<1>1. ASSUME NEW w \in Writer, GuardStep(w) PROVE Quiet \/ Visible(w)
  BY <1>1, GuardStepCensus DEF Quiet, Visible
<1>2. ASSUME NEW w \in Writer, StoreStep(w) PROVE Quiet \/ Visible(w)
  BY <1>2, StoreStepCensus DEF Quiet, Visible
<1>3. ASSUME NEW r \in Recoverer, RecoveryStep(r) PROVE Quiet \/ VisibleRecovery(r)
  BY <1>3, RecoveryStepCensus DEF Quiet, VisibleRecovery
<1>4. ASSUME NEW r \in Recoverer, RecoveryCrashes(r) PROVE Quiet
  BY <1>4 DEF Quiet, RecoveryCrashes, directoryVars, guardVars, storeVars, writerVars
<1>5. CASE Phase3Authority \/ UNCHANGED vars
  BY <1>5 DEF Quiet, Phase3Authority, vars, directoryVars, guardVars, storeVars, writerVars
<1> QED
  BY <1>1, <1>2, <1>3, <1>4, <1>5 DEF Next, WriterStep, WriterCrash

-----------------------------------------------------------------------------
(* The action properties.                                                   *)

\* Only publication moves the pointer, and it moves it from the prior to the
\* target recorded in its own complete lock: PriorStaysCurrent and
\* BoundBeforePublication make the early checks a compare-and-swap.
THEOREM PublicationIsCompareAndSwapHolds ==
  ASSUME ~ConcurrentRecovery, ~CreationFaults
  PROVE  Spec => PublicationIsCompareAndSwap
<1>1. ASSUME IInv, [Next]_vars PROVE CompareAndSwap
  <2> SUFFICES ASSUME pointer' # pointer
               PROVE  /\ Sealed(lock)
                      /\ pc[lock.lock_id] = "publish"
                      /\ lock.prior = pointer
                      /\ lock.target = pointer'
    BY DEF CompareAndSwap
  <2>1. PICK w \in Writer : Publish(w)
    <3>1. TypeOK
      BY <1>1 DEF IInv, OwnershipInv
    <3> QED
      BY <1>1, <3>1, Census DEF Quiet, Visible, VisibleRecovery, Crash, Quarantine,
         RenameGeneration, directoryVars, storeVars
  <2>2. pc[w] = "publish" /\ pointer' = gen[w]
    BY <2>1 DEF Publish, Goto
  <2>3. /\ lock # NoFile /\ lock.lock_id = w
        /\ pointer = cap[w].prior
        /\ lock = cap[w] /\ cap[w].target = gen[w] /\ w \notin torn
    BY <1>1, <2>2 DEF IInv, OwnershipInv, OwnersHoldTheLock, StoreInv,
       PriorStaysCurrent, BoundBeforePublication, Owning, PublishStages
  <2> QED
    BY <2>2, <2>3 DEF Sealed
<1> QED
  BY <1>1, InvariantHolds, PTL DEF Spec, PublicationIsCompareAndSwap

\* Only publication moves the pointer, and OnlyVerifiedIsActivated says that what
\* it selects is still complete: nobody but the owner of the lock moves
\* generations away.
THEOREM PublicationIsCompleteHolds ==
  ASSUME ~ConcurrentRecovery, ~CreationFaults
  PROVE  Spec => PublicationIsComplete
<1>1. ASSUME IInv, [Next]_vars PROVE SelectsComplete
  <2> SUFFICES ASSUME pointer' # pointer
               PROVE  pointer' # NoGen /\ db[pointer'] = "good"
    BY DEF SelectsComplete
  <2>1. PICK w \in Writer : Publish(w)
    <3>1. TypeOK
      BY <1>1 DEF IInv, OwnershipInv
    <3> QED
      BY <1>1, <3>1, Census DEF Quiet, Visible, VisibleRecovery, Crash, Quarantine,
         RenameGeneration, directoryVars, storeVars
  <2>2. pc[w] = "publish" /\ pointer' = gen[w]
    BY <2>1 DEF Publish, Goto
  <2>3. gen[w] \in Gen /\ db[gen[w]] = "good"
    BY <1>1, <2>2 DEF IInv, StoreInv, ChosenGenerations, OnlyVerifiedIsActivated,
       PublishStages
  <2> QED
    BY <2>2, <2>3, DirectoryAssumption
<1> QED
  BY <1>1, InvariantHolds, PTL DEF Spec, PublicationIsComplete

\* Only a quarantine moves a complete generation away: the one its call builds,
\* while OwnersHoldTheLock keeps every other call from binding or publishing.
THEOREM OnlyItsBuilderWithdrawsHolds ==
  ASSUME ~ConcurrentRecovery, ~CreationFaults
  PROVE  Spec => OnlyItsBuilderWithdraws
<1>1. ASSUME IInv, [Next]_vars PROVE WithdrawsItsOwn
  <2> SUFFICES ASSUME NEW g \in Gen, db[g] = "good", db'[g] # "good"
               PROVE  /\ lock # NoFile
                      /\ pc[lock.lock_id] \in {"quarantine", "discard"}
                      /\ gen[lock.lock_id] = g
                      /\ \A w \in Writer : gen[w] = g =>
                           pc[w] \notin BindStages \cup PublishStages
    BY DEF WithdrawsItsOwn
  <2>1. TypeOK
    BY <1>1 DEF IInv, OwnershipInv
  <2>2. ASSUME NEW w \in Writer, RenameGeneration(w) PROVE FALSE
    BY <2>1, <2>2 DEF RenameGeneration, TypeOK, DirectoryTypeOK
  <2>3. PICK w \in Writer : Quarantine(w)
    BY <1>1, <2>1, <2>2, Census DEF Quiet, Visible, VisibleRecovery, Crash, Publish,
       directoryVars, storeVars
  <2>4. pc[w] \in {"quarantine", "discard"} /\ gen[w] = g
    BY <2>1, <2>3 DEF Quarantine, Goto, TypeOK, DirectoryTypeOK
  <2>5. \A v \in Writer : pc[v] \in Owning => lock # NoFile /\ lock.lock_id = v
    BY <1>1 DEF IInv, OwnershipInv, OwnersHoldTheLock
  <2>6. lock # NoFile /\ lock.lock_id = w
    BY <2>4, <2>5 DEF Owning, BuildStages
  <2>7. \A v \in Writer : pc[v] \notin BindStages \cup PublishStages
    BY <2>4, <2>5, <2>6 DEF Owning, BindStages, PublishStages
  <2> QED
    BY <2>4, <2>6, <2>7
<1> QED
  BY <1>1, InvariantHolds, PTL DEF Spec, OnlyItsBuilderWithdraws

\* The lock of a dead call goes only by a recovery that has cleaned up every
\* temporary and found the pointer to be the recorded prior or target.
THEOREM RecoveryIsAllOrNothingHolds ==
  ASSUME ~ConcurrentRecovery, ~CreationFaults
  PROVE  Spec => RecoveryIsAllOrNothing
<1>1. ASSUME IInv, [Next]_vars PROVE LeavesDecidedOutcome
  <2> SUFFICES ASSUME lock # NoFile, lock' = NoFile, pc[lock.lock_id] = "crashed"
               PROVE  /\ UnambiguousPointer(lock)
                      /\ lock.lock_id \notin WriterTemporaries
    BY DEF LeavesDecidedOutcome
  <2>1. TypeOK
    BY <1>1 DEF IInv, OwnershipInv
  <2>2. ASSUME NEW w \in Writer, pc[w] \in Owning PROVE FALSE
    BY <1>1, <2>2 DEF IInv, OwnershipInv, OwnersHoldTheLock, Owning, GuardStages,
       BuildStages, BindStages, PublishStages, ReleaseStages
  <2>3. ASSUME NEW w \in Writer, Visible(w) PROVE FALSE
    <3>1. ~(WriteLockFails(w) \/ SwapLock(w) \/ Unlink(w))
      BY <2>2 DEF WriteLockFails, SwapLock, Unlink, Goto, Owning, GuardStages,
         BindStages, ReleaseStages
    <3> QED
      BY <2>3, <3>1 DEF Visible
  <2>4. PICK r \in Recoverer : rpc[r] = "rmLock"
    BY <1>1, <2>1, <2>3, Census DEF Quiet, VisibleRecovery, Crash, Relink,
       RemoveStaleLock, Then, directoryVars, guardVars
  <2>5. lock = rlock[r]
    BY <1>1, <2>4 DEF IInv, OwnershipInv, VerifiedClaimsStayLocked
  <2> QED
    BY <1>1, <2>4, <2>5 DEF IInv, ResidueInv, CleanBeforeRecovered,
       DecidedBeforeRecovered
<1> QED
  BY <1>1, InvariantHolds, PTL DEF Spec, RecoveryIsAllOrNothing

-----------------------------------------------------------------------------
(* The refinement of ExclusivePublisher.                                     *)

\* A directory at rest is an abstract publisher without an owner.
LEMMA RefinementInit == Init => Abstract!Init
  BY DEF Init, DirectoryInit, WriterInit, Abstract!Init

\* Checks, temporaries and claims are invisible to the abstract publisher.
LEMMA QuietRefines ==
  ASSUME Quiet
  PROVE  UNCHANGED Abstract!vars
  BY DEF Quiet, Abstract!vars

\* A crash is a death, with or without the ownership.
LEMMA CrashRefines ==
  ASSUME TypeOK, NEW w \in Writer, Crash(w)
  PROVE  Abstract!Die(w)
  BY DEF Abstract!Die, Crash, TypeOK, WriterTypeOK, directoryVars, guardVars, storeVars

\* The owner of the lock file is the abstract owner, and alive.
LEMMA OwnerIsLive ==
  ASSUME IInv, NEW w \in Writer, pc[w] \in Owning
  PROVE  lock # NoFile /\ lock.lock_id = w /\ Abstract!LiveOwner(w)
<1>1. lock # NoFile /\ lock.lock_id = w
  BY DEF IInv, OwnershipInv, OwnersHoldTheLock
<1>2. pc[w] # "crashed"
  BY DEF Owning, GuardStages, BuildStages, BindStages, PublishStages, ReleaseStages
<1> QED
  BY <1>1, <1>2 DEF Abstract!LiveOwner

\* A live call acquires, releases, completes, withdraws or selects; binding is
\* not seen.
LEMMA VisibleRefines ==
  ASSUME IInv, NEW w \in Writer, Visible(w)
  PROVE  \/ Abstract!Acquire(w) \/ Abstract!Release(w)
         \/ \E g \in Gen : \/ Abstract!Complete(w, g) \/ Abstract!Withdraw(w, g)
                          \/ Abstract!Select(w, g)
         \/ UNCHANGED Abstract!vars
<1> USE DEF Visible, Goto
<1>0. TypeOK
  BY DEF IInv, OwnershipInv
<1>1. CASE CreateLock(w) /\ lock = NoFile
  <2>1. cap[w] \in LockFile /\ cap[w].lock_id = w
    BY <1>1 DEF CreateLock, Check, IInv, OwnershipInv, CapabilitiesAreOwn
  <2>2. lock' = cap[w] /\ UNCHANGED <<pointer, db>> /\ pc[w] # "crashed"
    BY <1>1 DEF CreateLock, Check, storeVars
  <2> QED
    BY <1>1, <2>1, <2>2, DirectoryAssumption DEF Abstract!Acquire
<1>2. CASE WriteLockFails(w) \/ Unlink(w)
  <2>1. pc[w] \in Owning
    BY <1>2 DEF WriteLockFails, Unlink, Owning, GuardStages, ReleaseStages
  <2>2. UNCHANGED <<pointer, db>> /\ (lock' = NoFile \/ lock' = lock)
    BY <1>2 DEF WriteLockFails, Unlink, storeVars
  <2> QED
    BY <2>1, <2>2, OwnerIsLive DEF Abstract!Release, Abstract!LiveOwner, Abstract!vars
<1>3. CASE SwapLock(w)
  <2>1. pc[w] \in Owning /\ gen[w] \in Gen
    BY <1>3 DEF SwapLock, Owning, BindStages, IInv, StoreInv, ChosenGenerations
  <2>2. BoundLock(w) \in LockFile /\ BoundLock(w).lock_id = w
    BY <2>1 DEF BoundLock, IInv, OwnershipInv, CapabilitiesAreOwn, LockFile, Pointers
  <2>3. lock' = BoundLock(w) /\ UNCHANGED <<pointer, db>>
    BY <1>3 DEF SwapLock, storeVars
  <2> QED
    BY <2>1, <2>2, <2>3, OwnerIsLive, DirectoryAssumption DEF Abstract!vars
<1>4. CASE Quarantine(w)
  <2>1. pc[w] \in Owning /\ gen[w] \in Gen
    BY <1>4 DEF Quarantine, Owning, BuildStages, IInv, StoreInv, ChosenGenerations
  <2>2. db' = [db EXCEPT ![gen[w]] = "absent"] /\ UNCHANGED <<lock, pointer>>
    BY <1>4 DEF Quarantine, guardVars
  <2>3. {g \in Gen : db'[g] = "good"} = {g \in Gen : db[g] = "good"} \ {gen[w]}
    BY <1>0, <2>1, <2>2 DEF TypeOK, DirectoryTypeOK
  <2> QED
    BY <2>1, <2>2, <2>3, OwnerIsLive DEF Abstract!Withdraw
<1>5. CASE RenameGeneration(w)
  <2>1. pc[w] \in Owning /\ gen[w] \in Gen
    BY <1>5 DEF RenameGeneration, Owning, BuildStages, IInv, StoreInv, ChosenGenerations
  <2>2. db' = [db EXCEPT ![gen[w]] = "good"] \/ db' = db
    BY <1>5 DEF RenameGeneration
  <2>3. UNCHANGED <<lock, pointer>>
    BY <1>5 DEF RenameGeneration, guardVars
  <2>4. CASE db' = [db EXCEPT ![gen[w]] = "good"]
    <3>1. {g \in Gen : db'[g] = "good"} = {g \in Gen : db[g] = "good"} \cup {gen[w]}
      BY <1>0, <2>1, <2>4 DEF TypeOK, DirectoryTypeOK
    <3> QED
      BY <2>1, <2>3, <3>1, OwnerIsLive DEF Abstract!Complete
  <2>5. CASE db' = db
    BY <2>3, <2>5 DEF Abstract!vars
  <2> QED
    BY <2>2, <2>4, <2>5
<1>6. CASE Publish(w)
  <2>1. pc[w] \in Owning /\ gen[w] \in Gen /\ db[gen[w]] = "good"
    BY <1>6 DEF Publish, Owning, PublishStages, IInv, StoreInv, ChosenGenerations,
       OnlyVerifiedIsActivated
  <2>2. (pointer' = gen[w] \/ pointer' = pointer) /\ UNCHANGED <<lock, db>>
    BY <1>6 DEF Publish, guardVars
  <2> QED
    BY <2>1, <2>2, OwnerIsLive DEF Abstract!Select, Abstract!vars
<1> QED
  BY <1>1, <1>2, <1>3, <1>4, <1>5, <1>6

\* A recovery puts a dead owner back, to finish what an earlier one began, or
\* takes the ownership away from it.
LEMMA VisibleRecoveryRefines ==
  ASSUME IInv, NEW r \in Recoverer, VisibleRecovery(r)
  PROVE  \/ \E w \in Writer : Abstract!Reinstate(w)
         \/ Abstract!Revoke
         \/ UNCHANGED Abstract!vars
<1> USE DEF VisibleRecovery, Then
<1>0. TypeOK
  BY DEF IInv, OwnershipInv
<1>1. CASE Relink(r)
  <2>1. claim = rlock[r] /\ rlock[r] # NoFile /\ pc[rlock[r].lock_id] = "crashed"
    BY <1>1 DEF Relink, IInv, OwnershipInv, RestoredClaimsAreTheirs,
       RecoveriesAreOfTheDead
  <2>2. claim.lock_id \in Writer
    BY <1>0, <2>1 DEF TypeOK, DirectoryTypeOK, LockFile
  <2>3. lock' = IF lock = NoFile THEN claim ELSE lock
    BY <1>1 DEF Relink
  <2> QED
    BY <2>1, <2>2, <2>3 DEF Abstract!Reinstate, Abstract!vars
<1>2. CASE RemoveStaleLock(r)
  <2>1. lock = rlock[r] /\ rlock[r] # NoFile /\ pc[rlock[r].lock_id] = "crashed"
    BY <1>2 DEF RemoveStaleLock, IInv, OwnershipInv, VerifiedClaimsStayLocked,
       RecoveriesAreOfTheDead
  <2>2. lock.lock_id \in Writer
    BY <1>0, <2>1 DEF TypeOK, DirectoryTypeOK, LockFile
  <2>3. lock' = NoFile
    BY <1>2 DEF RemoveStaleLock
  <2> QED
    BY <2>1, <2>2, <2>3 DEF Abstract!Revoke
<1> QED
  BY <1>1, <1>2

\* The protocol over the files of the directory implements the exclusive
\* publisher: whatever the interleaving of calls, crashes and recoveries, the
\* generations and the pointer change only by the steps of one live owner.
THEOREM ImplementsExclusivePublisherHolds ==
  ASSUME ~ConcurrentRecovery, ~CreationFaults
  PROVE  Spec => ImplementsExclusivePublisher
<1>1. ASSUME IInv, [Next]_vars PROVE [Abstract!Next]_(Abstract!vars)
  <2>1. TypeOK
    BY <1>1 DEF IInv, OwnershipInv
  <2>2. CASE Quiet
    BY <2>2, QuietRefines
  <2>3. ASSUME NEW w \in Writer, Visible(w) PROVE [Abstract!Next]_(Abstract!vars)
    BY <1>1, <2>3, VisibleRefines DEF Abstract!Next
  <2>4. ASSUME NEW w \in Writer, Crash(w) PROVE [Abstract!Next]_(Abstract!vars)
    BY <2>1, <2>4, CrashRefines DEF Abstract!Next
  <2>5. ASSUME NEW r \in Recoverer, VisibleRecovery(r)
        PROVE  [Abstract!Next]_(Abstract!vars)
    BY <1>1, <2>5, VisibleRecoveryRefines DEF Abstract!Next
  <2> QED
    BY <1>1, <2>1, <2>2, <2>3, <2>4, <2>5, Census
<1> QED
  BY <1>1, RefinementInit, InvariantHolds, PTL
     DEF Spec, ImplementsExclusivePublisher, Abstract!Spec
=============================================================================

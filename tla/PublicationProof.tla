--------------------------- MODULE PublicationProof ---------------------------
(***************************************************************************)
(* The inductive invariant of RetrievalPublication and what follows from   *)
(* it for recoveries run one at a time, no creation of a lock that fails   *)
(* for another reason than that there is one, and any number of calls,     *)
(* generations and operators.  First types and ownership: the lock of a    *)
(* call is taken away by nobody but the call itself while it lives.  Then  *)
(* the store and residue parts.  ActionProof builds on it.                 *)
(***************************************************************************)
EXTENDS PublicationInvariant, TLAPS

-----------------------------------------------------------------------------
(* Types.  BoundLock is a lock file only if the capability is one, which is *)
(* why CapabilitiesAreOwn takes part.                                       *)

\* The directory at rest, idle calls and idle operators are well typed.
LEMMA TypeInit == Init => TypeOK
<1> SUFFICES ASSUME Init PROVE TypeOK
  OBVIOUS
<1> USE DEF Init, DirectoryInit, WriterInit, RecoveryInit, TempState, Pointers
<1>1. DirectoryTypeOK
  BY DEF DirectoryTypeOK
<1>2. WriterTypeOK
  BY DEF WriterTypeOK, Stages
<1>3. RecoveryTypeOK
  BY RecoveryAssumption DEF RecoveryTypeOK
<1> QED
  BY <1>1, <1>2, <1>3 DEF TypeOK

\* Where DropFrom and ReleaseOr leave a call.
LEMMA DropFromType ==
  ASSUME WriterTypeOK, NEW w \in Writer, NEW from, DropFrom(w, from)
  PROVE  pc' \in [Writer -> Stages] /\ dropping' \in [Writer -> BOOLEAN]
  BY DEF WriterTypeOK, DropFrom, Goto, Stages, Owning, ReleaseStages

\* Every way out of a release step is a stage of the call.
LEMMA ReleaseOrType ==
  ASSUME WriterTypeOK, NEW w \in Writer, NEW from, NEW to \in ReleaseStages, NEW ok,
         ReleaseOr(w, from, ok, to)
  PROVE  pc' \in [Writer -> Stages] /\ dropping' \in [Writer -> BOOLEAN]
<1>1. CASE Goto(w, from, to) /\ UNCHANGED dropping
  BY <1>1 DEF WriterTypeOK, Goto, Stages, Owning
<1>2. CASE Goto(w, from, "returned") /\ UNCHANGED dropping
  BY <1>2 DEF WriterTypeOK, Goto, Stages
<1>3. CASE DropFrom(w, from)
  BY <1>3, DropFromType
<1> QED
  BY <1>1, <1>2, <1>3 DEF ReleaseOr

\* The lock protocol of a writer keeps the types.
LEMMA GuardStepType ==
  ASSUME TypeOK,
         CapabilitiesAreOwn,
         NEW w \in Writer,
         GuardStep(w),
         UNCHANGED recoveryVars
  PROVE  TypeOK'
<1> USE DEF TypeOK, DirectoryTypeOK, WriterTypeOK, RecoveryTypeOK, TempState,
    directoryVars, guardVars, storeVars, writerVars, recoveryVars, Stages,
    Owning, AcquireStages, GuardStages, BuildStages, BindStages,
    PublishStages, ReleaseStages
<1>1. CASE AcquireCheck(w)
  BY <1>1 DEF AcquireCheck, Goto, Check
<1>2. CASE ReadPrior(w)
  BY <1>2 DEF ReadPrior, Goto, LockFile, Pointers
<1>3. CASE CreateLock(w)
  BY <1>3 DEF CreateLock, Goto, Check
<1>4. CASE WriteLock(w)
  BY <1>4 DEF WriteLock, Goto
<1>5. CASE WriteLockFails(w)
  BY <1>5 DEF WriteLockFails, Goto
<1>6. CASE Postcheck(w)
  BY <1>6 DEF Postcheck, Goto, Check
<1>7. CASE UndoLock(w)
  BY <1>7 DEF UndoLock, Goto, Check
<1>8. CASE ListTemps(w)
  <2>1. WriterTypeOK /\ pc' \in [Writer -> Stages] /\ dropping' \in [Writer -> BOOLEAN]
    <3>1. CASE Guarded(w)
      BY <1>8, <3>1 DEF ListTemps, Goto
    <3>2. CASE ~Guarded(w)
      BY <1>8, <3>2, DropFromType DEF ListTemps
    <3> QED
      BY <3>1, <3>2
  <2> HIDE DEF Stages
  <2> QED
    BY <1>8, <2>1 DEF ListTemps
<1>9. CASE CleanTemps(w)
  BY <1>9 DEF CleanTemps, Goto
<1>10. CASE RecheckTemps(w)
  <2>1. WriterTypeOK /\ pc' \in [Writer -> Stages] /\ dropping' \in [Writer -> BOOLEAN]
    <3>1. CASE Guarded(w)
      BY <1>10, <3>1 DEF RecheckTemps, Goto
    <3>2. CASE ~Guarded(w)
      BY <1>10, <3>2, DropFromType DEF RecheckTemps
    <3> QED
      BY <3>1, <3>2
  <2> HIDE DEF Stages
  <2> QED
    BY <1>10, <2>1 DEF RecheckTemps
<1>11. CASE Bind(w)
  BY <1>11 DEF Bind, Goto, Check
<1>12. CASE CreateLockTemp(w)
  BY <1>12 DEF CreateLockTemp, Goto
<1>13. CASE WriteLockTemp(w)
  BY <1>13 DEF WriteLockTemp, Goto
<1>14. CASE WriteLockTempFails(w)
  BY <1>14 DEF WriteLockTempFails, Goto
<1>15. CASE SwapLock(w)
  BY <1>15 DEF SwapLock, Goto, BoundLock, CapabilitiesAreOwn, LockFile
<1>16. CASE SwapLockFails(w)
  BY <1>16 DEF SwapLockFails, Goto
<1>17. CASE VerifyLock(w)
  BY <1>17 DEF VerifyLock, Goto, Check, BoundLock, CapabilitiesAreOwn,
      LockFile
<1>18. CASE ReleaseCheck(w)
  <2>1. WriterTypeOK /\ "releaseTemps" \in ReleaseStages
    OBVIOUS
  <2>2. pc' \in [Writer -> Stages] /\ dropping' \in [Writer -> BOOLEAN]
    BY <1>18, <2>1, ReleaseOrType DEF ReleaseCheck
  <2> HIDE DEF Stages
  <2> QED
    BY <1>18, <2>2 DEF ReleaseCheck
<1>19. CASE ReleaseTemps(w)
  <2>1. WriterTypeOK /\ "releaseRecheck" \in ReleaseStages
    OBVIOUS
  <2>2. pc' \in [Writer -> Stages] /\ dropping' \in [Writer -> BOOLEAN]
    BY <1>19, <2>1, ReleaseOrType DEF ReleaseTemps
  <2> HIDE DEF Stages
  <2> QED
    BY <1>19, <2>2 DEF ReleaseTemps, RemoveWriterTemporaries
<1>20. CASE ReleaseRecheck(w)
  <2>1. WriterTypeOK /\ "unlink" \in ReleaseStages
    OBVIOUS
  <2>2. pc' \in [Writer -> Stages] /\ dropping' \in [Writer -> BOOLEAN]
    BY <1>20, <2>1, ReleaseOrType DEF ReleaseRecheck
  <2> HIDE DEF Stages
  <2> QED
    BY <1>20, <2>2 DEF ReleaseRecheck
<1>21. CASE Unlink(w)
  BY <1>21 DEF Unlink, Goto
<1>22. CASE CreateLockFails(w)
  BY <1>22 DEF CreateLockFails, RemoveUncommittedLock, Goto
<1> QED
  BY <1>1, <1>2, <1>3, <1>4, <1>5, <1>6, <1>7, <1>8, <1>9, <1>10, <1>11,
     <1>12, <1>13, <1>14, <1>15, <1>16, <1>17, <1>18, <1>19, <1>20, <1>21,
     <1>22 DEF GuardStep

\* Building and activating keeps the types.
LEMMA StoreStepType ==
  ASSUME TypeOK,
         NEW w \in Writer,
         StoreStep(w),
         UNCHANGED recoveryVars
  PROVE  TypeOK'
<1> USE DEF TypeOK, DirectoryTypeOK, WriterTypeOK, RecoveryTypeOK, TempState,
    directoryVars, guardVars, storeVars, writerVars, recoveryVars, Stages,
    Owning, AcquireStages, GuardStages, BuildStages, BindStages,
    PublishStages, ReleaseStages, Pointers
<1>1. CASE StartBuild(w)
  BY <1>1 DEF StartBuild, Goto, Start
<1>2. CASE StartIndex(w)
  BY <1>2 DEF StartIndex, Goto, Start
<1>3. CASE EmbedReturns(w)
  BY <1>3 DEF EmbedReturns, Goto
<1>4. CASE EmbedCancelled(w)
  BY <1>4 DEF EmbedCancelled, Goto, DropFrom
<1>5. CASE StartActivate(w)
  BY <1>5 DEF StartActivate, Goto
<1>6. CASE FindGeneration(w)
  BY <1>6 DEF FindGeneration, Goto
<1>7. CASE Quarantine(w)
  BY <1>7 DEF Quarantine, Goto
<1>8. CASE BeginInsert(w)
  BY <1>8 DEF BeginInsert, Goto
<1>9. CASE EndInsert(w)
  BY <1>9 DEF EndInsert, Goto
<1>10. CASE InsertFails(w)
  BY <1>10 DEF InsertFails, Goto
<1>11. CASE CheckBeforeRename(w)
  BY <1>11 DEF CheckBeforeRename, Goto, Check
<1>12. CASE RenameGeneration(w)
  BY <1>12 DEF RenameGeneration, Goto
<1>13. CASE Commit(w)
  BY <1>13 DEF Commit, Goto, Check
<1>14. CASE CreatePtrTemp(w)
  BY <1>14 DEF CreatePtrTemp, Goto
<1>15. CASE WritePtrTemp(w)
  BY <1>15 DEF WritePtrTemp, Goto
<1>16. CASE WritePtrTempFails(w)
  BY <1>16 DEF WritePtrTempFails, Goto
<1>17. CASE Recommit(w)
  BY <1>17 DEF Recommit, Goto, Check
<1>18. CASE Publish(w)
  BY <1>18 DEF Publish, Goto
<1>19. CASE PublishFails(w)
  BY <1>19 DEF PublishFails, Goto
<1>20. CASE BuildFails(w)
  BY <1>20 DEF BuildFails, Goto
<1>21. CASE Reopen(w)
  BY <1>21 DEF Reopen, Goto
<1> QED
  BY <1>1, <1>2, <1>3, <1>4, <1>5, <1>6, <1>7, <1>8, <1>9, <1>10, <1>11,
     <1>12, <1>13, <1>14, <1>15, <1>16, <1>17, <1>18, <1>19, <1>20, <1>21 DEF
     StoreStep

\* A recovery keeps the types.
LEMMA RecoveryStepType ==
  ASSUME TypeOK,
         NEW r \in Recoverer,
         RecoveryStep(r)
  PROVE  TypeOK'
<1> USE DEF TypeOK, DirectoryTypeOK, WriterTypeOK, RecoveryTypeOK, TempState,
    directoryVars, guardVars, storeVars, writerVars, recoveryVars, BeforeLink,
    AfterLink
<1>1. CASE StartRecovery(r)
  BY <1>1 DEF StartRecovery
<1>2. CASE ReadClaim(r)
  BY <1>2 DEF ReadClaim, Then
<1>3. CASE Relink(r)
  BY <1>3 DEF Relink, Then
<1>4. CASE Compare(r)
  BY <1>4 DEF Compare, Then
<1>5. CASE Unclaim(r)
  BY <1>5 DEF Unclaim, Then
<1>6. CASE ReadStaleLock(r)
  BY <1>6 DEF ReadStaleLock, Then
<1>7. CASE Link(r)
  BY <1>7 DEF Link, Then
<1>8. CASE VerifyClaim(r)
  BY <1>8 DEF VerifyClaim, Then
<1>9. CASE RecoverTemporaries(r)
  BY <1>9 DEF RecoverTemporaries, Then, RemoveWriterTemporaries
<1>10. CASE CheckRecovered(r)
  BY <1>10 DEF CheckRecovered, Then
<1>11. CASE RemoveStaleLock(r)
  BY <1>11 DEF RemoveStaleLock, Then
<1>12. CASE FinalClaim(r)
  BY <1>12 DEF FinalClaim, Then
<1>13. CASE RemoveClaim(r)
  BY <1>13 DEF RemoveClaim, Then
<1> QED
  BY <1>1, <1>2, <1>3, <1>4, <1>5, <1>6, <1>7, <1>8, <1>9, <1>10, <1>11,
     <1>12, <1>13 DEF RecoveryStep

\* Crashes, Full and stuttering keep the types.
LEMMA EnvironmentType ==
  ASSUME TypeOK,
         \/ \E w \in Writer : WriterCrash(w)
         \/ \E r \in Recoverer : RecoveryCrashes(r)
         \/ Phase3Authority
         \/ UNCHANGED vars
  PROVE  TypeOK'
<1> USE DEF TypeOK, DirectoryTypeOK, WriterTypeOK, RecoveryTypeOK, vars,
    directoryVars, guardVars, storeVars, writerVars, recoveryVars
<1>1. ASSUME NEW w \in Writer, WriterCrash(w) PROVE TypeOK'
  BY <1>1 DEF WriterCrash, Crash, Stages
<1>2. ASSUME NEW r \in Recoverer, RecoveryCrashes(r) PROVE TypeOK'
  BY <1>2, RecoveryAssumption DEF RecoveryCrashes
<1>3. CASE Phase3Authority
  BY <1>3 DEF Phase3Authority
<1>4. CASE UNCHANGED vars
  BY <1>4
<1> QED
  BY <1>1, <1>2, <1>3, <1>4

-----------------------------------------------------------------------------
(* Ownership. *)

\* At rest nobody owns or recovers anything.
LEMMA OwnershipInit == Init => OwnershipInv
  BY TypeInit DEF Init, DirectoryInit, WriterInit, RecoveryInit, OwnershipInv,
     CapabilitiesAreOwn, OwnersHoldTheLock, OneRecoveryAtATime,
     RecoveriesAreOfTheDead, RestoredClaimsAreTheirs, VerifiedClaimsStayLocked,
     Owning, GuardStages, BuildStages, BindStages, PublishStages, ReleaseStages

\* A writer changes the lock only when it is absent or its own.
LEMMA GuardStepOwnership ==
  ASSUME ~CreationFaults,
         OwnershipInv,
         NEW w \in Writer,
         GuardStep(w),
         UNCHANGED recoveryVars,
         TypeOK'
  PROVE  OwnershipInv'
<1> USE DEF OwnershipInv, CapabilitiesAreOwn, OwnersHoldTheLock,
    OneRecoveryAtATime, RecoveriesAreOfTheDead, RestoredClaimsAreTheirs,
    VerifiedClaimsStayLocked, TypeOK, DirectoryTypeOK, WriterTypeOK,
    RecoveryTypeOK, LockFile, directoryVars, guardVars, storeVars, writerVars,
    recoveryVars, Stages, Owning, AcquireStages, GuardStages, BuildStages,
    BindStages, PublishStages, ReleaseStages
<1>1. CASE AcquireCheck(w)
  BY <1>1 DEF AcquireCheck, Goto, Check
<1>2. CASE ReadPrior(w)
  BY <1>2 DEF ReadPrior, Goto, Pointers
<1>3. CASE CreateLock(w)
  BY <1>3, DirectoryAssumption DEF CreateLock, Goto, Check
<1>4. CASE WriteLock(w)
  BY <1>4 DEF WriteLock, Goto
<1>5. CASE WriteLockFails(w)
  BY <1>5 DEF WriteLockFails, Goto
<1>6. CASE Postcheck(w)
  BY <1>6 DEF Postcheck, Goto, Check
<1>7. CASE UndoLock(w)
  BY <1>7 DEF UndoLock, Goto, Check
<1>8. CASE ListTemps(w)
  BY <1>8 DEF ListTemps, Goto, DropFrom
<1>9. CASE CleanTemps(w)
  BY <1>9 DEF CleanTemps, Goto
<1>10. CASE RecheckTemps(w)
  BY <1>10 DEF RecheckTemps, Goto, DropFrom
<1>11. CASE Bind(w)
  BY <1>11 DEF Bind, Goto, Check
<1>12. CASE CreateLockTemp(w)
  BY <1>12 DEF CreateLockTemp, Goto
<1>13. CASE WriteLockTemp(w)
  BY <1>13 DEF WriteLockTemp, Goto
<1>14. CASE WriteLockTempFails(w)
  BY <1>14 DEF WriteLockTempFails, Goto
<1>15. CASE SwapLock(w)
  BY <1>15, DirectoryAssumption DEF SwapLock, Goto, BoundLock
<1>16. CASE SwapLockFails(w)
  BY <1>16 DEF SwapLockFails, Goto
<1>17. CASE VerifyLock(w)
  BY <1>17 DEF VerifyLock, Goto, Check, BoundLock
<1>18. CASE ReleaseCheck(w)
  BY <1>18 DEF ReleaseCheck, Goto, ReleaseOr, DropFrom
<1>19. CASE ReleaseTemps(w)
  BY <1>19 DEF ReleaseTemps, Goto, ReleaseOr, DropFrom
<1>20. CASE ReleaseRecheck(w)
  BY <1>20 DEF ReleaseRecheck, Goto, ReleaseOr, DropFrom
<1>21. CASE Unlink(w)
  BY <1>21 DEF Unlink, Goto
<1>22. CASE CreateLockFails(w)
  BY <1>22 DEF CreateLockFails
<1> QED
  BY <1>1, <1>2, <1>3, <1>4, <1>5, <1>6, <1>7, <1>8, <1>9, <1>10, <1>11,
     <1>12, <1>13, <1>14, <1>15, <1>16, <1>17, <1>18, <1>19, <1>20, <1>21,
     <1>22 DEF GuardStep

\* Building and activating leaves the lock alone.
LEMMA StoreStepOwnership ==
  ASSUME OwnershipInv,
         NEW w \in Writer,
         StoreStep(w),
         UNCHANGED recoveryVars,
         TypeOK'
  PROVE  OwnershipInv'
<1> USE DEF OwnershipInv, CapabilitiesAreOwn, OwnersHoldTheLock,
    OneRecoveryAtATime, RecoveriesAreOfTheDead, RestoredClaimsAreTheirs,
    VerifiedClaimsStayLocked, TypeOK, DirectoryTypeOK, WriterTypeOK,
    RecoveryTypeOK, LockFile, directoryVars, guardVars, storeVars, writerVars,
    recoveryVars, Stages, Owning, AcquireStages, GuardStages, BuildStages,
    BindStages, PublishStages, ReleaseStages
<1>1. CASE StartBuild(w)
  BY <1>1 DEF StartBuild, Goto, Start
<1>2. CASE StartIndex(w)
  BY <1>2 DEF StartIndex, Goto, Start
<1>3. CASE EmbedReturns(w)
  BY <1>3 DEF EmbedReturns, Goto
<1>4. CASE EmbedCancelled(w)
  BY <1>4 DEF EmbedCancelled, Goto, DropFrom
<1>5. CASE StartActivate(w)
  BY <1>5 DEF StartActivate, Goto
<1>6. CASE FindGeneration(w)
  BY <1>6 DEF FindGeneration, Goto
<1>7. CASE Quarantine(w)
  BY <1>7 DEF Quarantine, Goto
<1>8. CASE BeginInsert(w)
  BY <1>8 DEF BeginInsert, Goto
<1>9. CASE EndInsert(w)
  BY <1>9 DEF EndInsert, Goto
<1>10. CASE InsertFails(w)
  BY <1>10 DEF InsertFails, Goto
<1>11. CASE CheckBeforeRename(w)
  BY <1>11 DEF CheckBeforeRename, Goto, Check
<1>12. CASE RenameGeneration(w)
  BY <1>12 DEF RenameGeneration, Goto
<1>13. CASE Commit(w)
  BY <1>13 DEF Commit, Goto, Check
<1>14. CASE CreatePtrTemp(w)
  BY <1>14 DEF CreatePtrTemp, Goto
<1>15. CASE WritePtrTemp(w)
  BY <1>15 DEF WritePtrTemp, Goto
<1>16. CASE WritePtrTempFails(w)
  BY <1>16 DEF WritePtrTempFails, Goto
<1>17. CASE Recommit(w)
  BY <1>17 DEF Recommit, Goto, Check
<1>18. CASE Publish(w)
  BY <1>18 DEF Publish, Goto
<1>19. CASE PublishFails(w)
  BY <1>19 DEF PublishFails, Goto
<1>20. CASE BuildFails(w)
  BY <1>20 DEF BuildFails, Goto
<1>21. CASE Reopen(w)
  BY <1>21 DEF Reopen, Goto
<1> QED
  BY <1>1, <1>2, <1>3, <1>4, <1>5, <1>6, <1>7, <1>8, <1>9, <1>10, <1>11,
     <1>12, <1>13, <1>14, <1>15, <1>16, <1>17, <1>18, <1>19, <1>20, <1>21 DEF
     StoreStep

\* The only recovery that runs removes the lock it verified, whose owner is dead.
LEMMA RecoveryStepOwnership ==
  ASSUME ~ConcurrentRecovery,
         OwnershipInv,
         NEW r \in Recoverer,
         RecoveryStep(r),
         TypeOK'
  PROVE  OwnershipInv'
<1> USE DEF OwnershipInv, CapabilitiesAreOwn, OwnersHoldTheLock,
    OneRecoveryAtATime, RecoveriesAreOfTheDead, RestoredClaimsAreTheirs,
    VerifiedClaimsStayLocked, TypeOK, DirectoryTypeOK, WriterTypeOK,
    RecoveryTypeOK, LockFile, directoryVars, guardVars, storeVars, writerVars,
    recoveryVars, Stages, Owning, AcquireStages, GuardStages, BuildStages,
    BindStages, PublishStages, ReleaseStages, BeforeLink, AfterLink
<1>1. CASE StartRecovery(r)
  BY <1>1 DEF StartRecovery, ProcessIsStale, Sealed
<1>2. CASE ReadClaim(r)
  BY <1>2 DEF ReadClaim, Then
<1>3. CASE Relink(r)
  BY <1>3 DEF Relink, Then
<1>4. CASE Compare(r)
  BY <1>4 DEF Compare, Then
<1>5. CASE Unclaim(r)
  BY <1>5 DEF Unclaim, Then
<1>6. CASE ReadStaleLock(r)
  BY <1>6 DEF ReadStaleLock, Then
<1>7. CASE Link(r)
  BY <1>7 DEF Link, Then
<1>8. CASE VerifyClaim(r)
  BY <1>8 DEF VerifyClaim, Then, ReadClaimedLock
<1>9. CASE RecoverTemporaries(r)
  BY <1>9 DEF RecoverTemporaries, Then
<1>10. CASE CheckRecovered(r)
  BY <1>10 DEF CheckRecovered, Then
<1>11. CASE RemoveStaleLock(r)
  BY <1>11 DEF RemoveStaleLock, Then
<1>12. CASE FinalClaim(r)
  BY <1>12 DEF FinalClaim, Then
<1>13. CASE RemoveClaim(r)
  BY <1>13 DEF RemoveClaim, Then
<1> QED
  BY <1>1, <1>2, <1>3, <1>4, <1>5, <1>6, <1>7, <1>8, <1>9, <1>10, <1>11,
     <1>12, <1>13 DEF RecoveryStep

\* Nobody owns more, and no recovery gets further, by a crash or by Full.
LEMMA EnvironmentOwnership ==
  ASSUME OwnershipInv,
         \/ \E w \in Writer : WriterCrash(w)
         \/ \E r \in Recoverer : RecoveryCrashes(r)
         \/ Phase3Authority
         \/ UNCHANGED vars,
         TypeOK'
  PROVE  OwnershipInv'
<1> USE DEF OwnershipInv, CapabilitiesAreOwn, OwnersHoldTheLock,
    OneRecoveryAtATime, RecoveriesAreOfTheDead, RestoredClaimsAreTheirs,
    VerifiedClaimsStayLocked, TypeOK, DirectoryTypeOK, WriterTypeOK,
    RecoveryTypeOK, vars, directoryVars, guardVars, storeVars, writerVars,
    recoveryVars, Stages, Owning, AcquireStages, GuardStages, BuildStages,
    BindStages, PublishStages, ReleaseStages
<1>1. ASSUME NEW w \in Writer, WriterCrash(w) PROVE OwnershipInv'
  BY <1>1 DEF WriterCrash, Crash
<1>2. ASSUME NEW r \in Recoverer, RecoveryCrashes(r) PROVE OwnershipInv'
  BY <1>2 DEF RecoveryCrashes
<1>3. CASE Phase3Authority
  BY <1>3 DEF Phase3Authority
<1>4. CASE UNCHANGED vars
  BY <1>4
<1> QED
  BY <1>1, <1>2, <1>3, <1>4

\* Ownership is inductive: every action of Next, crashes and Full included, keeps it.
LEMMA OwnershipNext ==
  ASSUME ~ConcurrentRecovery, ~CreationFaults, OwnershipInv, [Next]_vars
  PROVE  OwnershipInv'
<1>1. TypeOK /\ CapabilitiesAreOwn
  BY DEF OwnershipInv
<1>2. ASSUME NEW w \in Writer, WriterStep(w) PROVE OwnershipInv'
  <2>1. (GuardStep(w) \/ StoreStep(w)) /\ UNCHANGED recoveryVars
    BY <1>2 DEF WriterStep
  <2>2. TypeOK'
    BY <1>1, <2>1, GuardStepType, StoreStepType
  <2> QED
    BY <2>1, <2>2, GuardStepOwnership, StoreStepOwnership
<1>3. ASSUME NEW r \in Recoverer, RecoveryStep(r) PROVE OwnershipInv'
  BY <1>1, <1>3, RecoveryStepType, RecoveryStepOwnership
<1>4. ASSUME \/ \E w \in Writer : WriterCrash(w)
             \/ \E r \in Recoverer : RecoveryCrashes(r)
             \/ Phase3Authority
             \/ UNCHANGED vars
      PROVE  OwnershipInv'
  BY <1>1, <1>4, EnvironmentType, EnvironmentOwnership
<1> QED
  BY <1>2, <1>3, <1>4 DEF Next

\* Every reachable state of every instance is well typed and owned as above.
THEOREM OwnershipHolds ==
  ASSUME ~ConcurrentRecovery, ~CreationFaults
  PROVE  Spec => []OwnershipInv
<1>1. Init => OwnershipInv
  BY OwnershipInit
<1>2. OwnershipInv /\ [Next]_vars => OwnershipInv'
  BY OwnershipNext
<1> QED
  BY <1>1, <1>2, PTL DEF Spec

\* Type correctness: what acquire, bind, build, publish, release and recovery
\* read and write are the files and records they are meant to be.
THEOREM TypeCorrectness ==
  ASSUME ~ConcurrentRecovery, ~CreationFaults
  PROVE  Spec => []TypeOK
<1>1. OwnershipInv => TypeOK
  BY DEF OwnershipInv
<1> QED
  BY <1>1, OwnershipHolds, PTL

\* The writer lock excludes: no two calls are between creating and removing
\* their lock files, whatever crashes and is recovered meanwhile.
THEOREM MutualExclusionHolds ==
  ASSUME ~ConcurrentRecovery, ~CreationFaults
  PROVE  Spec => []MutualExclusion
<1>1. OwnershipInv => MutualExclusion
  BY DEF OwnershipInv, OwnersHoldTheLock, MutualExclusion
<1> QED
  BY <1>1, OwnershipHolds, PTL

\* A recovery removes the very lock it verified and claimed.
THEOREM RecoveryRemovesOnlyItsLockHolds ==
  ASSUME ~ConcurrentRecovery, ~CreationFaults
  PROVE  Spec => RecoveryRemovesOnlyItsLock
<1>1. OwnershipInv => [RemovesOnlyItsLock]_vars
  BY DEF OwnershipInv, VerifiedClaimsStayLocked, RemovesOnlyItsLock
<1> QED
  BY <1>1, OwnershipHolds, PTL DEF RecoveryRemovesOnlyItsLock, Spec


-----------------------------------------------------------------------------
(* Store: what a call has learned stays true while it owns the lock.        *)

\* At rest no call works on a generation.
LEMMA StoreInit == Init => StoreInv
  BY DirectoryAssumption
     DEF Init, DirectoryInit, WriterInit, StoreInv, ChosenGenerations,
     OnlyVerifiedIsActivated, PriorStaysCurrent,
     BoundBeforePublication, BuilderKeepsTemporary, BuildStages, BindStages, PublishStages

\* Binding establishes the prior, verifying the bound lock the target; nobody else interferes.
LEMMA GuardStepStore ==
  ASSUME ~CreationFaults,
         OwnershipInv,
         StoreInv,
         NEW w \in Writer,
         GuardStep(w),
         UNCHANGED recoveryVars
  PROVE  StoreInv'
<1> USE DEF OwnershipInv, CapabilitiesAreOwn, OwnersHoldTheLock, StoreInv,
    ChosenGenerations, OnlyVerifiedIsActivated,
    PriorStaysCurrent, BoundBeforePublication, BuilderKeepsTemporary,
    TypeOK, DirectoryTypeOK, WriterTypeOK, RecoveryTypeOK,
    LockFile, directoryVars, guardVars, storeVars, writerVars, recoveryVars,
    Stages, Owning, AcquireStages, GuardStages, BuildStages, BindStages,
    PublishStages, ReleaseStages
<1>1. CASE AcquireCheck(w)
  BY <1>1 DEF AcquireCheck, Goto, Check
<1>2. CASE ReadPrior(w)
  BY <1>2 DEF ReadPrior, Goto
<1>3. CASE CreateLock(w)
  BY <1>3, DirectoryAssumption DEF CreateLock, Goto, Check
<1>4. CASE WriteLock(w)
  BY <1>4 DEF WriteLock, Goto
<1>5. CASE WriteLockFails(w)
  BY <1>5 DEF WriteLockFails, Goto
<1>6. CASE Postcheck(w)
  BY <1>6 DEF Postcheck, Goto, Check
<1>7. CASE UndoLock(w)
  BY <1>7 DEF UndoLock, Goto, Check
<1>8. CASE ListTemps(w)
  BY <1>8 DEF ListTemps, Goto, DropFrom
<1>9. CASE CleanTemps(w)
  BY <1>9 DEF CleanTemps, Goto
<1>10. CASE RecheckTemps(w)
  BY <1>10 DEF RecheckTemps, Goto, DropFrom
<1>11. CASE Bind(w)
  BY <1>11 DEF Bind, Goto, Check, Guarded
<1>12. CASE CreateLockTemp(w)
  BY <1>12 DEF CreateLockTemp, Goto
<1>13. CASE WriteLockTemp(w)
  BY <1>13 DEF WriteLockTemp, Goto
<1>14. CASE WriteLockTempFails(w)
  BY <1>14 DEF WriteLockTempFails, Goto
<1>15. CASE SwapLock(w)
  BY <1>15, DirectoryAssumption DEF SwapLock, Goto, BoundLock
<1>16. CASE SwapLockFails(w)
  BY <1>16 DEF SwapLockFails, Goto
<1>17. CASE VerifyLock(w)
  BY <1>17 DEF VerifyLock, Goto, Check, BoundLock, ReadLock, Sealed
<1>18. CASE ReleaseCheck(w)
  BY <1>18 DEF ReleaseCheck, Goto, ReleaseOr, DropFrom
<1>19. CASE ReleaseTemps(w)
  BY <1>19 DEF ReleaseTemps, Goto, ReleaseOr, DropFrom
<1>20. CASE ReleaseRecheck(w)
  BY <1>20 DEF ReleaseRecheck, Goto, ReleaseOr, DropFrom
<1>21. CASE Unlink(w)
  BY <1>21 DEF Unlink, Goto
<1>22. CASE CreateLockFails(w)
  BY <1>22 DEF CreateLockFails
<1> QED
  BY <1>1, <1>2, <1>3, <1>4, <1>5, <1>6, <1>7, <1>8, <1>9, <1>10, <1>11,
     <1>12, <1>13, <1>14, <1>15, <1>16, <1>17, <1>18, <1>19, <1>20, <1>21,
     <1>22 DEF GuardStep

\* Only the owner of the lock touches generations and pointer.
LEMMA StoreStepStore ==
  ASSUME OwnershipInv,
         StoreInv,
         NEW w \in Writer,
         StoreStep(w),
         UNCHANGED recoveryVars
  PROVE  StoreInv'
<1> USE DEF OwnershipInv, CapabilitiesAreOwn, OwnersHoldTheLock, StoreInv,
    ChosenGenerations, OnlyVerifiedIsActivated,
    PriorStaysCurrent, BoundBeforePublication, BuilderKeepsTemporary,
    TypeOK, DirectoryTypeOK, WriterTypeOK, RecoveryTypeOK,
    LockFile, directoryVars, guardVars, storeVars, writerVars, recoveryVars,
    Stages, Owning, AcquireStages, GuardStages, BuildStages, BindStages,
    PublishStages, ReleaseStages
<1>1. CASE StartBuild(w)
  BY <1>1 DEF StartBuild, Goto, Start
<1>2. CASE StartIndex(w)
  BY <1>2 DEF StartIndex, Goto, Start
<1>3. CASE EmbedReturns(w)
  BY <1>3 DEF EmbedReturns, Goto
<1>4. CASE EmbedCancelled(w)
  BY <1>4 DEF EmbedCancelled, Goto, DropFrom
<1>5. CASE StartActivate(w)
  BY <1>5 DEF StartActivate, Goto
<1>6. CASE FindGeneration(w)
  BY <1>6 DEF FindGeneration, Goto
<1>7. CASE Quarantine(w)
  BY <1>7 DEF Quarantine, Goto
<1>8. CASE BeginInsert(w)
  BY <1>8 DEF BeginInsert, Goto
<1>9. CASE EndInsert(w)
  BY <1>9 DEF EndInsert, Goto
<1>10. CASE InsertFails(w)
  BY <1>10 DEF InsertFails, Goto
<1>11. CASE CheckBeforeRename(w)
  BY <1>11 DEF CheckBeforeRename, Goto, Check
<1>12. CASE RenameGeneration(w)
  BY <1>12 DEF RenameGeneration, Goto
<1>13. CASE Commit(w)
  BY <1>13 DEF Commit, Goto, Check
<1>14. CASE CreatePtrTemp(w)
  BY <1>14 DEF CreatePtrTemp, Goto
<1>15. CASE WritePtrTemp(w)
  BY <1>15 DEF WritePtrTemp, Goto
<1>16. CASE WritePtrTempFails(w)
  BY <1>16 DEF WritePtrTempFails, Goto
<1>17. CASE Recommit(w)
  BY <1>17 DEF Recommit, Goto, Check
<1>18. CASE Publish(w)
  BY <1>18 DEF Publish, Goto
<1>19. CASE PublishFails(w)
  BY <1>19 DEF PublishFails, Goto
<1>20. CASE BuildFails(w)
  BY <1>20 DEF BuildFails, Goto
<1>21. CASE Reopen(w)
  BY <1>21 DEF Reopen, Goto
<1> QED
  BY <1>1, <1>2, <1>3, <1>4, <1>5, <1>6, <1>7, <1>8, <1>9, <1>10, <1>11,
     <1>12, <1>13, <1>14, <1>15, <1>16, <1>17, <1>18, <1>19, <1>20, <1>21 DEF
     StoreStep

\* A recovery leaves generations and pointer, and every live lock, alone.
LEMMA RecoveryStepStore ==
  ASSUME OwnershipInv,
         StoreInv,
         NEW r \in Recoverer,
         RecoveryStep(r)
  PROVE  StoreInv'
<1> USE DEF OwnershipInv, CapabilitiesAreOwn, OwnersHoldTheLock, StoreInv,
    ChosenGenerations, OnlyVerifiedIsActivated,
    PriorStaysCurrent, BoundBeforePublication, BuilderKeepsTemporary,
    TypeOK, DirectoryTypeOK, WriterTypeOK, RecoveryTypeOK,
    LockFile, directoryVars, guardVars, storeVars, writerVars, recoveryVars,
    Stages, Owning, AcquireStages, GuardStages, BuildStages, BindStages,
    PublishStages, ReleaseStages, RecoveriesAreOfTheDead,
    VerifiedClaimsStayLocked, BeforeLink, AfterLink
<1>1. CASE StartRecovery(r)
  BY <1>1 DEF StartRecovery
<1>2. CASE ReadClaim(r)
  BY <1>2 DEF ReadClaim, Then
<1>3. CASE Relink(r)
  BY <1>3 DEF Relink, Then
<1>4. CASE Compare(r)
  BY <1>4 DEF Compare, Then
<1>5. CASE Unclaim(r)
  BY <1>5 DEF Unclaim, Then
<1>6. CASE ReadStaleLock(r)
  BY <1>6 DEF ReadStaleLock, Then
<1>7. CASE Link(r)
  BY <1>7 DEF Link, Then
<1>8. CASE VerifyClaim(r)
  BY <1>8 DEF VerifyClaim, Then
<1>9. CASE RecoverTemporaries(r)
  BY <1>9 DEF RecoverTemporaries, Then, RemoveWriterTemporaries
<1>10. CASE CheckRecovered(r)
  BY <1>10 DEF CheckRecovered, Then
<1>11. CASE RemoveStaleLock(r)
  BY <1>11 DEF RemoveStaleLock, Then
<1>12. CASE FinalClaim(r)
  BY <1>12 DEF FinalClaim, Then
<1>13. CASE RemoveClaim(r)
  BY <1>13 DEF RemoveClaim, Then
<1> QED
  BY <1>1, <1>2, <1>3, <1>4, <1>5, <1>6, <1>7, <1>8, <1>9, <1>10, <1>11,
     <1>12, <1>13 DEF RecoveryStep

\* Crashes, Full and stuttering leave generations, pointer and every live call alone.
LEMMA EnvironmentStore ==
  ASSUME OwnershipInv, StoreInv,
         \/ \E w \in Writer : WriterCrash(w)
         \/ \E r \in Recoverer : RecoveryCrashes(r)
         \/ Phase3Authority
         \/ UNCHANGED vars
  PROVE  StoreInv'
<1> USE DEF StoreInv, ChosenGenerations, OnlyVerifiedIsActivated, PriorStaysCurrent, BoundBeforePublication,
    BuilderKeepsTemporary, TypeOK, DirectoryTypeOK,
    WriterTypeOK, RecoveryTypeOK, vars, directoryVars, guardVars, storeVars,
    writerVars, recoveryVars, BuildStages, BindStages, PublishStages
<1>1. ASSUME NEW w \in Writer, WriterCrash(w) PROVE StoreInv'
  BY <1>1 DEF WriterCrash, Crash
<1>2. ASSUME NEW r \in Recoverer, RecoveryCrashes(r) PROVE StoreInv'
  BY <1>2 DEF RecoveryCrashes
<1>3. CASE Phase3Authority
  BY <1>3 DEF Phase3Authority
<1>4. CASE UNCHANGED vars
  BY <1>4
<1> QED
  BY <1>1, <1>2, <1>3, <1>4

\* The store half is inductive, given ownership.
LEMMA StoreNext ==
  ASSUME ~CreationFaults, OwnershipInv, StoreInv, [Next]_vars
  PROVE  StoreInv'
<1>1. ASSUME NEW w \in Writer, WriterStep(w) PROVE StoreInv'
  BY <1>1, GuardStepStore, StoreStepStore DEF WriterStep
<1>2. ASSUME NEW r \in Recoverer, RecoveryStep(r) PROVE StoreInv'
  BY <1>2, RecoveryStepStore
<1>3. ASSUME \/ \E w \in Writer : WriterCrash(w)
             \/ \E r \in Recoverer : RecoveryCrashes(r)
             \/ Phase3Authority
             \/ UNCHANGED vars
      PROVE  StoreInv'
  BY <1>3, EnvironmentStore
<1> QED
  BY <1>1, <1>2, <1>3 DEF Next

-----------------------------------------------------------------------------
(* Residue: what the removal of a lock leaves behind.                       *)

\* At rest there is no temporary.
LEMMA ResidueInit == Init => ResidueInv
  BY DEF Init, DirectoryInit, WriterInit, RecoveryInit, ResidueInv,
     TemporariesAreGuarded, CleanBeforeUnlink, CleanBeforeRecovered,
     DecidedBeforeRecovered, WriterTemporaries

\* A call writes temporaries under its lock only, and none is left when it unlinks.
LEMMA GuardStepResidue ==
  ASSUME ~CreationFaults,
         OwnershipInv,
         ResidueInv,
         NEW w \in Writer,
         GuardStep(w),
         UNCHANGED recoveryVars
  PROVE  ResidueInv'
<1> USE DEF OwnershipInv, CapabilitiesAreOwn, OwnersHoldTheLock,
    OneRecoveryAtATime, RecoveriesAreOfTheDead, RestoredClaimsAreTheirs,
    VerifiedClaimsStayLocked, ResidueInv, TemporariesAreGuarded,
    CleanBeforeUnlink, CleanBeforeRecovered, DecidedBeforeRecovered,
    WriterTemporaries, UnambiguousPointer, TypeOK, DirectoryTypeOK,
    WriterTypeOK, RecoveryTypeOK, LockFile, directoryVars, guardVars,
    storeVars, writerVars, recoveryVars, Stages, Owning, AcquireStages,
    GuardStages, BuildStages, BindStages, PublishStages, ReleaseStages
<1>1. CASE AcquireCheck(w)
  BY <1>1 DEF AcquireCheck, Goto, Check
<1>2. CASE ReadPrior(w)
  BY <1>2 DEF ReadPrior, Goto
<1>3. CASE CreateLock(w)
  BY <1>3, DirectoryAssumption DEF CreateLock, Goto, Check
<1>4. CASE WriteLock(w)
  BY <1>4 DEF WriteLock, Goto
<1>5. CASE WriteLockFails(w)
  BY <1>5 DEF WriteLockFails, Goto
<1>6. CASE Postcheck(w)
  BY <1>6 DEF Postcheck, Goto, Check
<1>7. CASE UndoLock(w)
  BY <1>7 DEF UndoLock, Goto, Check
<1>8. CASE ListTemps(w)
  BY <1>8 DEF ListTemps, Goto, DropFrom
<1>9. CASE CleanTemps(w)
  BY <1>9 DEF CleanTemps, Goto
<1>10. CASE RecheckTemps(w)
  BY <1>10 DEF RecheckTemps, Goto, DropFrom
<1>11. CASE Bind(w)
  BY <1>11 DEF Bind, Goto, Check
<1>12. CASE CreateLockTemp(w)
  BY <1>12 DEF CreateLockTemp, Goto
<1>13. CASE WriteLockTemp(w)
  BY <1>13 DEF WriteLockTemp, Goto
<1>14. CASE WriteLockTempFails(w)
  BY <1>14 DEF WriteLockTempFails, Goto
<1>15. CASE SwapLock(w)
  BY <1>15, DirectoryAssumption DEF SwapLock, Goto, BoundLock
<1>16. CASE SwapLockFails(w)
  BY <1>16 DEF SwapLockFails, Goto
<1>17. CASE VerifyLock(w)
  BY <1>17 DEF VerifyLock, Goto, Check, BoundLock
<1>18. CASE ReleaseCheck(w)
  BY <1>18 DEF ReleaseCheck, Goto, ReleaseOr, DropFrom
<1>19. CASE ReleaseTemps(w)
  BY <1>19 DEF ReleaseTemps, Goto, ReleaseOr, DropFrom,
      RemoveWriterTemporaries
<1>20. CASE ReleaseRecheck(w)
  BY <1>20 DEF ReleaseRecheck, Goto, ReleaseOr, DropFrom
<1>21. CASE Unlink(w)
  BY <1>21 DEF Unlink, Goto
<1>22. CASE CreateLockFails(w)
  BY <1>22 DEF CreateLockFails
<1> QED
  BY <1>1, <1>2, <1>3, <1>4, <1>5, <1>6, <1>7, <1>8, <1>9, <1>10, <1>11,
     <1>12, <1>13, <1>14, <1>15, <1>16, <1>17, <1>18, <1>19, <1>20, <1>21,
     <1>22 DEF GuardStep

\* No pointer temporary, and no other pointer, while a recovery has the lock.
LEMMA StoreStepResidue ==
  ASSUME OwnershipInv,
         ResidueInv,
         NEW w \in Writer,
         StoreStep(w),
         UNCHANGED recoveryVars
  PROVE  ResidueInv'
<1> USE DEF OwnershipInv, CapabilitiesAreOwn, OwnersHoldTheLock,
    OneRecoveryAtATime, RecoveriesAreOfTheDead, RestoredClaimsAreTheirs,
    VerifiedClaimsStayLocked, ResidueInv, TemporariesAreGuarded,
    CleanBeforeUnlink, CleanBeforeRecovered, DecidedBeforeRecovered,
    WriterTemporaries, UnambiguousPointer, TypeOK, DirectoryTypeOK,
    WriterTypeOK, RecoveryTypeOK, LockFile, directoryVars, guardVars,
    storeVars, writerVars, recoveryVars, Stages, Owning, AcquireStages,
    GuardStages, BuildStages, BindStages, PublishStages, ReleaseStages
<1>1. CASE StartBuild(w)
  BY <1>1 DEF StartBuild, Goto, Start
<1>2. CASE StartIndex(w)
  BY <1>2 DEF StartIndex, Goto, Start
<1>3. CASE EmbedReturns(w)
  BY <1>3 DEF EmbedReturns, Goto
<1>4. CASE EmbedCancelled(w)
  BY <1>4 DEF EmbedCancelled, Goto, DropFrom
<1>5. CASE StartActivate(w)
  BY <1>5 DEF StartActivate, Goto
<1>6. CASE FindGeneration(w)
  BY <1>6 DEF FindGeneration, Goto
<1>7. CASE Quarantine(w)
  BY <1>7 DEF Quarantine, Goto
<1>8. CASE BeginInsert(w)
  BY <1>8 DEF BeginInsert, Goto
<1>9. CASE EndInsert(w)
  BY <1>9 DEF EndInsert, Goto
<1>10. CASE InsertFails(w)
  BY <1>10 DEF InsertFails, Goto
<1>11. CASE CheckBeforeRename(w)
  BY <1>11 DEF CheckBeforeRename, Goto, Check
<1>12. CASE RenameGeneration(w)
  BY <1>12 DEF RenameGeneration, Goto
<1>13. CASE Commit(w)
  BY <1>13 DEF Commit, Goto, Check
<1>14. CASE CreatePtrTemp(w)
  BY <1>14 DEF CreatePtrTemp, Goto
<1>15. CASE WritePtrTemp(w)
  BY <1>15 DEF WritePtrTemp, Goto
<1>16. CASE WritePtrTempFails(w)
  BY <1>16 DEF WritePtrTempFails, Goto
<1>17. CASE Recommit(w)
  BY <1>17 DEF Recommit, Goto, Check
<1>18. CASE Publish(w)
  BY <1>18 DEF Publish, Goto
<1>19. CASE PublishFails(w)
  BY <1>19 DEF PublishFails, Goto
<1>20. CASE BuildFails(w)
  BY <1>20 DEF BuildFails, Goto
<1>21. CASE Reopen(w)
  BY <1>21 DEF Reopen, Goto
<1> QED
  BY <1>1, <1>2, <1>3, <1>4, <1>5, <1>6, <1>7, <1>8, <1>9, <1>10, <1>11,
     <1>12, <1>13, <1>14, <1>15, <1>16, <1>17, <1>18, <1>19, <1>20, <1>21 DEF
     StoreStep

\* A recovery cleans and decides before it removes.
LEMMA RecoveryStepResidue ==
  ASSUME OwnershipInv,
         ResidueInv,
         NEW r \in Recoverer,
         RecoveryStep(r)
  PROVE  ResidueInv'
<1> USE DEF OwnershipInv, CapabilitiesAreOwn, OwnersHoldTheLock,
    OneRecoveryAtATime, RecoveriesAreOfTheDead, RestoredClaimsAreTheirs,
    VerifiedClaimsStayLocked, ResidueInv, TemporariesAreGuarded,
    CleanBeforeUnlink, CleanBeforeRecovered, DecidedBeforeRecovered,
    WriterTemporaries, UnambiguousPointer, TypeOK, DirectoryTypeOK,
    WriterTypeOK, RecoveryTypeOK, LockFile, directoryVars, guardVars,
    storeVars, writerVars, recoveryVars, Stages, Owning, AcquireStages,
    GuardStages, BuildStages, BindStages, PublishStages, ReleaseStages,
    BeforeLink, AfterLink
<1>1. CASE StartRecovery(r)
  BY <1>1 DEF StartRecovery
<1>2. CASE ReadClaim(r)
  BY <1>2 DEF ReadClaim, Then
<1>3. CASE Relink(r)
  BY <1>3 DEF Relink, Then
<1>4. CASE Compare(r)
  BY <1>4 DEF Compare, Then
<1>5. CASE Unclaim(r)
  BY <1>5 DEF Unclaim, Then
<1>6. CASE ReadStaleLock(r)
  BY <1>6 DEF ReadStaleLock, Then
<1>7. CASE Link(r)
  BY <1>7 DEF Link, Then
<1>8. CASE VerifyClaim(r)
  BY <1>8 DEF VerifyClaim, Then
<1>9. CASE RecoverTemporaries(r)
  BY <1>9 DEF RecoverTemporaries, Then, RemoveWriterTemporaries
<1>10. CASE CheckRecovered(r)
  BY <1>10 DEF CheckRecovered, Then
<1>11. CASE RemoveStaleLock(r)
  BY <1>11 DEF RemoveStaleLock, Then
<1>12. CASE FinalClaim(r)
  BY <1>12 DEF FinalClaim, Then
<1>13. CASE RemoveClaim(r)
  BY <1>13 DEF RemoveClaim, Then
<1> QED
  BY <1>1, <1>2, <1>3, <1>4, <1>5, <1>6, <1>7, <1>8, <1>9, <1>10, <1>11,
     <1>12, <1>13 DEF RecoveryStep

\* Crashes leave temporaries where they are, beside the lock.
LEMMA EnvironmentResidue ==
  ASSUME OwnershipInv, ResidueInv,
         \/ \E w \in Writer : WriterCrash(w)
         \/ \E r \in Recoverer : RecoveryCrashes(r)
         \/ Phase3Authority
         \/ UNCHANGED vars
  PROVE  ResidueInv'
<1> USE DEF ResidueInv, TemporariesAreGuarded, CleanBeforeUnlink,
    CleanBeforeRecovered, DecidedBeforeRecovered, WriterTemporaries,
    UnambiguousPointer, TypeOK, DirectoryTypeOK, WriterTypeOK, RecoveryTypeOK,
    vars, directoryVars, guardVars, storeVars, writerVars, recoveryVars,
    Stages, Owning, AcquireStages, GuardStages, BuildStages, BindStages,
    PublishStages, ReleaseStages
<1>1. ASSUME NEW w \in Writer, WriterCrash(w) PROVE ResidueInv'
  BY <1>1 DEF WriterCrash, Crash
<1>2. ASSUME NEW r \in Recoverer, RecoveryCrashes(r) PROVE ResidueInv'
  BY <1>2 DEF RecoveryCrashes
<1>3. CASE Phase3Authority
  BY <1>3 DEF Phase3Authority
<1>4. CASE UNCHANGED vars
  BY <1>4
<1> QED
  BY <1>1, <1>2, <1>3, <1>4

\* The residue half is inductive, given ownership.
LEMMA ResidueNext ==
  ASSUME ~CreationFaults, OwnershipInv, ResidueInv, [Next]_vars
  PROVE  ResidueInv'
<1>1. ASSUME NEW w \in Writer, WriterStep(w) PROVE ResidueInv'
  BY <1>1, GuardStepResidue, StoreStepResidue DEF WriterStep
<1>2. ASSUME NEW r \in Recoverer, RecoveryStep(r) PROVE ResidueInv'
  BY <1>2, RecoveryStepResidue
<1>3. ASSUME \/ \E w \in Writer : WriterCrash(w)
             \/ \E r \in Recoverer : RecoveryCrashes(r)
             \/ Phase3Authority
             \/ UNCHANGED vars
      PROVE  ResidueInv'
  BY <1>3, EnvironmentResidue
<1> QED
  BY <1>1, <1>2, <1>3 DEF Next

-----------------------------------------------------------------------------
(* The inductive invariant and the safety properties.                       *)

\* Ownership, store and residue together hold in every reachable state.
THEOREM InvariantHolds ==
  ASSUME ~ConcurrentRecovery, ~CreationFaults
  PROVE  Spec => []IInv
<1>1. Init => IInv
  BY OwnershipInit, StoreInit, ResidueInit DEF IInv
<1>2. IInv /\ [Next]_vars => IInv'
  BY OwnershipNext, StoreNext, ResidueNext DEF IInv
<1> QED
  BY <1>1, <1>2, PTL DEF Spec

\* No lock or pointer temporary outlives the lock of the call that wrote it.
THEOREM TemporariesAreGuardedHolds ==
  ASSUME ~ConcurrentRecovery, ~CreationFaults
  PROVE  Spec => []TemporariesAreGuarded
<1>1. IInv => TemporariesAreGuarded
  BY DEF IInv, ResidueInv
<1> QED
  BY <1>1, InvariantHolds, PTL

\* No clean-up of SQLite temporaries takes the one a live builder will rename.
THEOREM BuilderKeepsTemporaryHolds ==
  ASSUME ~ConcurrentRecovery, ~CreationFaults
  PROVE  Spec => []BuilderKeepsTemporary
<1>1. IInv => BuilderKeepsTemporary
  BY DEF IInv, StoreInv
<1> QED
  BY <1>1, InvariantHolds, PTL

=============================================================================

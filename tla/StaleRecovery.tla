---------------------------- MODULE StaleRecovery ----------------------------
(***************************************************************************)
(* recover_stale_legacy_retrieval_writer: an operator removes the lock of a *)
(* dead call.  The claim is a hard link to the stale lock; the two links of *)
(* one inode are what every step checks.                                    *)
(*                                                                          *)
(* The two attestations the caller makes are honest: the recorded process   *)
(* is dead, and when a claim exists, no running recovery made it.  An       *)
(* invocation that is refused changes nothing and is left out.              *)
(***************************************************************************)
EXTENDS WriterGuard

CONSTANTS
  Recoverer,            \* operators; each runs one recovery after another
  ConcurrentRecovery,   \* may two recoveries run at the same time?
  MaxRecoveryCrashes    \* bound on how many recoveries die half-way

ASSUME RecoveryAssumption == /\ ConcurrentRecovery \in BOOLEAN
                             /\ MaxRecoveryCrashes \in Nat

VARIABLES
  rpc,       \* where each recovery is
  rlock,     \* the lock record it was asked to recover
  rcrashes   \* how many recoveries have died

recoveryVars == <<rpc, rlock, rcrashes>>

BeforeLink == {"readClaim", "relink", "compare", "unclaim", "readLock", "link"}
AfterLink == {"verifyClaim", "temporaries", "check", "rmLock", "final", "rmClaim"}

RecoveryTypeOK ==
  /\ rpc \in [Recoverer -> {"idle"} \cup BeforeLink \cup AfterLink]
  /\ rlock \in [Recoverer -> LockFile \cup {NoFile}]
  /\ rcrashes \in 0..MaxRecoveryCrashes

RecoveryInit ==
  /\ rpc = [r \in Recoverer |-> "idle"]
  /\ rlock = [r \in Recoverer |-> NoFile]
  /\ rcrashes = 0

Then(r, from, ok, to) ==
  rpc[r] = from /\ rpc' = [rpc EXCEPT ![r] = IF ok THEN to ELSE "idle"]

\* Mutant of ProcessIsStale: no attestation is asked for.
ProcessIsStale_Unconfirmed(f) == TRUE

\* confirm_process_incarnation_stale and confirm_recovery_claim_stale.
ProcessIsStale(f) == pc[f.lock_id] = "crashed"
ClaimIsStale(r) == \A s \in Recoverer \ {r} : rpc[s] \notin AfterLink

-----------------------------------------------------------------------------
\* The caller takes the digest from the file it can see and the function
\* samples which of claim and lock exist.
StartRecovery(r) ==
  /\ rpc[r] = "idle"
  /\ ConcurrentRecovery \/ \A s \in Recoverer : rpc[s] = "idle"
  /\ \E f \in {lock, claim} \ {NoFile} :
       /\ Sealed(f)
       /\ ProcessIsStale(f)
       /\ rlock' = [rlock EXCEPT ![r] = f]
  /\ claim # NoFile => ClaimIsStale(r)
  /\ rpc' = [rpc EXCEPT ![r] = IF claim = NoFile THEN "readLock"
                               ELSE IF lock = NoFile THEN "readClaim"
                               ELSE "compare"]
  /\ UNCHANGED <<directoryVars, writerVars, rcrashes>>

\* Mutant of ReadClaim: a claim without its lock is not resumed.
ReadClaim_NeedsLock(r) ==
  /\ Then(r, "readClaim", ReadClaimedLock(rlock[r]), "relink")
  /\ UNCHANGED <<directoryVars, writerVars, rlock, rcrashes>>

\* Only the claim is left: it becomes the lock again.
ReadClaim(r) ==
  /\ Then(r, "readClaim", Sealed(claim) /\ lock # claim, "relink")
  /\ UNCHANGED <<directoryVars, writerVars, rlock, rcrashes>>

Relink(r) ==
  /\ Then(r, "relink", lock = NoFile /\ claim # NoFile, "compare")
  /\ lock' = IF lock = NoFile THEN claim ELSE lock
  /\ UNCHANGED <<claim, torn, lockTemp, storeVars, evidence, writerVars, rlock, rcrashes>>

\* Claim and lock must be the two links of the expected lock record.
Compare(r) ==
  /\ Then(r, "compare", ReadClaimedLock(rlock[r]), "unclaim")
  /\ UNCHANGED <<directoryVars, writerVars, rlock, rcrashes>>

Unclaim(r) ==
  /\ Then(r, "unclaim", claim # NoFile, "readLock")
  /\ claim' = NoFile
  /\ UNCHANGED <<lock, torn, lockTemp, storeVars, evidence, writerVars, rlock, rcrashes>>

ReadStaleLock(r) ==
  /\ Then(r, "readLock", ReadLock(rlock[r]), "link")
  /\ UNCHANGED <<directoryVars, writerVars, rlock, rcrashes>>

\* hard_link refuses an existing claim, and links whatever the lock is now.
Link(r) ==
  /\ Then(r, "link", claim = NoFile /\ lock # NoFile, "verifyClaim")
  /\ claim' = IF claim = NoFile THEN lock ELSE claim
  /\ UNCHANGED <<lock, torn, lockTemp, storeVars, evidence, writerVars, rlock, rcrashes>>

\* The claim is read with two links; its content must be the expected lock's.
VerifyClaim(r) ==
  /\ Then(r, "verifyClaim", ReadClaimedLock(rlock[r]), "temporaries")
  /\ UNCHANGED <<directoryVars, writerVars, rlock, rcrashes>>

\* Each temporary must read back before it goes.  There is at most one: a call
\* replaces its lock temporary, or fails, before it writes a pointer temporary.
RecoverTemporaries(r) ==
  /\ Then(r, "temporaries", TornTemporaries = {}, "check")
  /\ IF rpc'[r] = "check" THEN RemoveWriterTemporaries
                          ELSE UNCHANGED <<lockTemp, ptrTemp>>
  /\ UNCHANGED <<lock, claim, torn, pointer, db, dbTemp, evidence, writerVars, rlock, rcrashes>>

\* Mutant of CheckRecovered: the pointer is not looked at.
CheckRecovered_AnyPointer(r) ==
  /\ Then(r, "check", NoPhase3Authority, "rmLock")
  /\ UNCHANGED <<directoryVars, writerVars, rlock, rcrashes>>

\* Lock and claim stay when the pointer is neither the prior nor the target.
CheckRecovered(r) ==
  /\ Then(r, "check", NoPhase3Authority /\ UnambiguousPointer(rlock[r]), "rmLock")
  /\ UNCHANGED <<directoryVars, writerVars, rlock, rcrashes>>

RemoveStaleLock(r) ==
  /\ Then(r, "rmLock", lock # NoFile, "final")
  /\ lock' = NoFile
  /\ UNCHANGED <<claim, torn, lockTemp, storeVars, evidence, writerVars, rlock, rcrashes>>

FinalClaim(r) ==
  /\ Then(r, "final", claim = rlock[r] /\ lock # claim /\ Sealed(claim), "rmClaim")
  /\ UNCHANGED <<directoryVars, writerVars, rlock, rcrashes>>

RemoveClaim(r) ==
  /\ Then(r, "rmClaim", TRUE, "idle")
  /\ claim' = NoFile
  /\ UNCHANGED <<lock, torn, lockTemp, storeVars, evidence, writerVars, rlock, rcrashes>>

\* The recovering process dies and leaves lock and claim as they are.
RecoveryCrashes(r) ==
  /\ rpc[r] # "idle"
  /\ rcrashes < MaxRecoveryCrashes
  /\ rcrashes' = rcrashes + 1
  /\ rpc' = [rpc EXCEPT ![r] = "idle"]
  /\ UNCHANGED <<directoryVars, writerVars, rlock>>

RecoveryStep(r) ==
  \/ StartRecovery(r) \/ ReadClaim(r) \/ Relink(r) \/ Compare(r) \/ Unclaim(r)
  \/ ReadStaleLock(r) \/ Link(r) \/ VerifyClaim(r) \/ RecoverTemporaries(r)
  \/ CheckRecovered(r) \/ RemoveStaleLock(r) \/ FinalClaim(r) \/ RemoveClaim(r)
=============================================================================

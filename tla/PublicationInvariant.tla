------------------------- MODULE PublicationInvariant -------------------------
(***************************************************************************)
(* The inductive invariant behind the safety of RetrievalPublication when  *)
(* recoveries are run one at a time, as a conjunction of named parts.       *)
(***************************************************************************)
EXTENDS RetrievalPublication

(* Ownership: a lock file is taken away from nobody but the dead. *)

CapabilitiesAreOwn ==
  \A w \in Writer : pc[w] \in Owning \cup {"createLock"} =>
    cap[w] \in LockFile /\ cap[w].lock_id = w

OwnersHoldTheLock ==
  \A w \in Writer : pc[w] \in Owning => lock # NoFile /\ lock.lock_id = w

OneRecoveryAtATime ==
  \A r, s \in Recoverer : rpc[r] # "idle" /\ rpc[s] # "idle" => r = s

RecoveriesAreOfTheDead ==
  \A r \in Recoverer : rpc[r] # "idle" =>
    rlock[r] # NoFile /\ pc[rlock[r].lock_id] = "crashed"

RestoredClaimsAreTheirs ==
  \A r \in Recoverer : rpc[r] \in {"readClaim", "relink"} => claim = rlock[r]

VerifiedClaimsStayLocked ==
  \A r \in Recoverer : rpc[r] \in {"temporaries", "check", "rmLock"} => lock = rlock[r]

OwnershipInv ==
  /\ TypeOK
  /\ CapabilitiesAreOwn
  /\ OwnersHoldTheLock
  /\ OneRecoveryAtATime
  /\ RecoveriesAreOfTheDead
  /\ RestoredClaimsAreTheirs
  /\ VerifiedClaimsStayLocked

(* Store: what a call learned about a generation or the pointer stays true    *)
(* until it acts on it.                                                       *)

ChosenGenerations ==
  \A w \in Writer : pc[w] \in BuildStages \cup BindStages \cup PublishStages => gen[w] \in Gen

OnlyVerifiedIsActivated ==
  \A w \in Writer : pc[w] \in BindStages \cup PublishStages => db[gen[w]] = "good"

PriorStaysCurrent ==
  \A w \in Writer : pc[w] \in (BindStages \ {"bind"}) \cup PublishStages =>
    pointer = cap[w].prior

BoundBeforePublication ==
  \A w \in Writer : pc[w] \in PublishStages =>
    lock = cap[w] /\ cap[w].target = gen[w] /\ w \notin torn

StoreInv ==
  /\ ChosenGenerations
  /\ OnlyVerifiedIsActivated
  /\ PriorStaysCurrent
  /\ BoundBeforePublication
  /\ BuilderKeepsTemporary

(* Residue: temporaries and outcome of a call whose lock goes. *)

CleanBeforeUnlink ==
  \A w \in Writer : pc[w] \in GuardStages \cup {"releaseRecheck", "unlink"} =>
    w \notin WriterTemporaries

CleanBeforeRecovered ==
  \A r \in Recoverer : rpc[r] \in {"check", "rmLock"} => WriterTemporaries = {}

DecidedBeforeRecovered ==
  \A r \in Recoverer : rpc[r] = "rmLock" => UnambiguousPointer(rlock[r])

ResidueInv ==
  /\ TemporariesAreGuarded
  /\ CleanBeforeUnlink
  /\ CleanBeforeRecovered
  /\ DecidedBeforeRecovered

IInv == OwnershipInv /\ StoreInv /\ ResidueInv
=============================================================================

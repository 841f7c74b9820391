--------------------------- MODULE StateDirectory ---------------------------
(***************************************************************************)
(* The retrieval state directory of gkos-retrieval: the files that Lite    *)
(* writers, recovering operators and Full processes share, and the checks  *)
(* that every one of them makes by reading those files.                    *)
(*                                                                         *)
(* A writer is ONE call of a public operation (build, index or activate):  *)
(* each call takes a fresh lock_id, so a writer stands for its lock_id,    *)
(* its capability and the process that made the call.  A pointer digest is *)
(* the generation the pointer names, NoGen is the absent pointer and also  *)
(* the None of an Option<String> digest.                                   *)
(***************************************************************************)
EXTENDS Naturals, FiniteSets

CONSTANTS Writer,   \* calls that take the legacy writer lock
          Gen,      \* generations, one per projection digest
          NoFile,   \* an absent lock or claim file
          NoGen     \* an absent pointer, an unbound target

Pointers == Gen \cup {NoGen}

\* The content of a lock file (struct LegacyWriterLock).
LockFile == [lock_id : Writer, prior : Pointers, target : Pointers]

ASSUME DirectoryAssumption == /\ NoFile \notin LockFile
                              /\ NoGen \notin Gen

VARIABLES
  lock,      \* retrieval-writer.lock, the shared guard
  claim,     \* retrieval-writer.recovery, a hard link to a lock being recovered
  torn,      \* writers whose lock file exists but is not completely written
  lockTemp,  \* retrieval-writer.lock.<pid>.<nonce>.tmp of each writer
  ptrTemp,   \* active-retrieval.json.<pid>.tmp of each writer
  pointer,   \* active-retrieval.json
  db,        \* retrieval-<digest>.sqlite, the immutable generations
  dbTemp,    \* retrieval-<digest>.sqlite.<pid>.tmp of each writer
  evidence   \* some ingest-* authority evidence of Full is in the directory

guardVars == <<lock, claim, torn, lockTemp>>
storeVars == <<ptrTemp, pointer, db, dbTemp>>
directoryVars == <<guardVars, storeVars, evidence>>

TempState == {"none", "torn", "whole"}

DirectoryTypeOK ==
  /\ lock \in LockFile \cup {NoFile}
  /\ claim \in LockFile \cup {NoFile}
  /\ torn \in SUBSET Writer
  /\ lockTemp \in [Writer -> TempState]
  /\ ptrTemp \in [Writer -> TempState]
  /\ pointer \in Pointers
  /\ db \in [Gen -> {"absent", "good", "bad"}]
  /\ dbTemp \in [Writer -> TempState]
  /\ evidence \in BOOLEAN

\* A directory at rest: generations of earlier runs, some of them corrupt, and
\* a pointer that names a verified one.
DirectoryInit ==
  /\ lock = NoFile
  /\ claim = NoFile
  /\ torn = {}
  /\ lockTemp = [w \in Writer |-> "none"]
  /\ ptrTemp = [w \in Writer |-> "none"]
  /\ db \in [Gen -> {"absent", "good", "bad"}]
  /\ pointer \in {NoGen} \cup {g \in Gen : db[g] = "good"}
  /\ dbTemp = [w \in Writer |-> "none"]
  /\ evidence = FALSE

-----------------------------------------------------------------------------
(***************************************************************************)
(* Reads.  Two lock files with the same content are the same inode, because *)
(* lock_id is fresh and a bound lock differs from its unbound predecessor;  *)
(* so the link count of a lock inode is the number of names that hold it.   *)
(***************************************************************************)

\* An empty or partial file fails the size, JSON or digest check of read_lock_path.
Sealed(f) == f # NoFile /\ f.lock_id \notin torn

\* read_lock returns f: the lock is f, complete, and has no second link.
ReadLock(f) == lock = f /\ claim # f /\ Sealed(f)

\* Lock and claim are the two links of the complete inode f.
ReadClaimedLock(f) == lock = f /\ claim = f /\ Sealed(f)

NoPhase3Authority == ~evidence

WriterTemporaries ==
  {w \in Writer : lockTemp[w] # "none" \/ ptrTemp[w] # "none"}

TornTemporaries ==
  {w \in Writer : lockTemp[w] = "torn" \/ ptrTemp[w] = "torn"}

\* The pointer is one of the two values the lock record f allows.
UnambiguousPointer(f) == pointer \in {f.prior, f.target}

\* recover_writer_temporaries: every lock or pointer temporary goes.
RemoveWriterTemporaries ==
  /\ lockTemp' = [w \in Writer |-> "none"]
  /\ ptrTemp' = [w \in Writer |-> "none"]
=============================================================================

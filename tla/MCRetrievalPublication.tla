------------------------ MODULE MCRetrievalPublication ------------------------
(* The publication protocol on a small instance. *)
EXTENDS PublicationInvariant, TLC

\* Calls are interchangeable, and so are generations.
Symmetry == Permutations(Writer) \cup Permutations(Gen)

-----------------------------------------------------------------------------
\* Calls compete, or recoveries die: when a recovery dies while another call
\* acquires, none need ever complete, because a claim is looked for before the
\* lock is created (writer_lock.rs:664).
OneHazard == rcrashes = 0 \/ Cardinality({w \in Writer : pc[w] # "idle"}) <= 1

RecoverySpec ==
  /\ Init /\ [][Next /\ OneHazard']_vars
  /\ \A w \in Writer : WF_vars(WriterStep(w) /\ OneHazard')
  /\ \A r \in Recoverer : WF_vars(RecoveryStep(r))
=============================================================================

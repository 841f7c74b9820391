---------------------------- MODULE SupervisorProof ----------------------------
(***************************************************************************)
(* ServingIsWatched for any number of sidecars, handlers and restarts: the  *)
(* inductive invariant SupervisorInv of DesktopSupervisor, one lemma per    *)
(* group of actions.  OneSidecar: one agent at a time acts for a sidecar.   *)
(***************************************************************************)
EXTENDS DesktopSupervisor, FiniteSetTheorems, TLAPS

USE SupervisorAssumption DEF Agent

\* Nothing runs at the start.
LEMMA SupervisorInit == Init => SupervisorInv
  BY DEF Init, SupervisorInv, TypeOK, Supervisor, MainStages, LoopStages,
     NewbornsAreFresh, CurrentLoopIsTheChilds, ServingHasChild

\* A spawned process is in the hands of the agent that spawned it only.
LEMMA SpawnInv ==
  ASSUME SupervisorInv,
         NEW a \in Agent,
         SpawnProcess(a) \/ SpawnFails(a)
  PROVE  SupervisorInv'
<1> USE DEF SupervisorInv, TypeOK, Supervisor, MainStages, LoopStages,
    Goto, Returned, settingsVars, userVars
<1>1. CASE SpawnProcess(a)
  <2>1. PICK p \in Process : /\ proc[p] = "unborn"
                             /\ proc' = [proc EXCEPT ![p] = "running"]
                             /\ newborn' = [newborn EXCEPT ![a] = p]
    BY <1>1 DEF SpawnProcess
  <2>2. at' = [at EXCEPT ![a] = "attach"] /\ at[a] = "spawn"
    BY <1>1 DEF SpawnProcess
  <2>3. UNCHANGED <<settingsVars, sup, loopGen, userVars>>
    BY <1>1 DEF SpawnProcess
  <2>4. TypeOK'
    BY <2>1, <2>2, <2>3
  <2>5. NewbornsAreFresh'
    BY <2>1, <2>2 DEF NewbornsAreFresh
  <2>6. CurrentLoopIsTheChilds' /\ ServingHasChild'
    BY <2>2, <2>3 DEF CurrentLoopIsTheChilds, ServingHasChild
  <2> QED
    BY <2>4, <2>5, <2>6
<1>2. CASE SpawnFails(a)
  <2>1. TypeOK'
    BY <1>2 DEF SpawnFails
  <2>2. NewbornsAreFresh'
    BY <1>2 DEF SpawnFails, NewbornsAreFresh
  <2>3. CurrentLoopIsTheChilds' /\ ServingHasChild'
    BY <1>2 DEF SpawnFails, CurrentLoopIsTheChilds, ServingHasChild
  <2> QED
    BY <2>1, <2>2, <2>3
<1> QED
  BY <1>1, <1>2

\* The attached process gets a generation no loop has yet.
LEMMA AttachInv ==
  ASSUME SupervisorInv,
         NEW a \in Agent,
         Attach(a)
  PROVE  SupervisorInv'
<1> USE DEF SupervisorInv, TypeOK, Supervisor, MainStages, LoopStages,
    Returned, settingsVars, userVars
<1> DEFINE p == newborn[a]
           g == sup.generation + 1
<1>1. p \in Process /\ at[p] = "none" /\ proc[p] # "unborn" /\ at[a] = "attach"
  BY DEF Attach, NewbornsAreFresh
<1>2. /\ sup' = [sup EXCEPT !.child = p, !.status = "Indexing",
                            !.manual_stop = FALSE, !.generation = g]
      /\ loopGen' = [loopGen EXCEPT ![p] = g]
      /\ at' = [at EXCEPT ![a] = Returned(a), ![p] = "watch"]
      /\ newborn' = [newborn EXCEPT ![a] = NoProcess]
      /\ UNCHANGED <<settingsVars, proc, userVars>>
  BY DEF Attach
<1>3. g \in Nat /\ g > sup.generation
  BY Z3
<1> HIDE DEF p, g
<1>4. TypeOK'
  BY <1>1, <1>2, <1>3
<1>5. NewbornsAreFresh'
  <2>1. \A b \in Agent : at'[b] = "attach" => at[b] = "attach" /\ b # a /\ newborn'[b] = newborn[b]
    BY <1>1, <1>2
  <2>2. \A b \in Agent : at'[b] = "attach" => newborn[b] # p /\ newborn[b] # a
    BY <2>1, <1>1 DEF NewbornsAreFresh, p
  <2>3. \A q \in Process : q # p /\ q # a => at'[q] = at[q]
    BY <1>1, <1>2
  <2>4. \A q \in Process : proc'[q] = "unborn" => at'[q] = "none"
    BY <1>1, <1>2, <2>3 DEF NewbornsAreFresh
  <2> QED
    BY <1>2, <2>1, <2>2, <2>3, <2>4 DEF NewbornsAreFresh
<1>6. CurrentLoopIsTheChilds'
  <2>1. sup'.child = p /\ sup'.generation = g
    BY <1>2
  <2>2. at'[p] = "watch" /\ loopGen'[p] = g
    BY <1>1, <1>2
  <2>3. ASSUME NEW q \in Process, at'[q] = "watch", q # p
        PROVE  loopGen'[q] <= sup.generation
    <3>1. at[q] = "watch" /\ loopGen'[q] = loopGen[q]
      BY <1>1, <1>2, <2>3
    <3> QED
      BY <3>1 DEF CurrentLoopIsTheChilds
  <2>4. \A q \in Process : loopGen'[q] \in Nat
    BY <1>4
  <2>5. \A q \in Process : at'[q] = "watch" =>
          /\ loopGen'[q] <= g
          /\ loopGen'[q] = g => q = p
    BY <1>3, <2>2, <2>3, <2>4
  <2> QED
    BY <2>1, <2>2, <2>5 DEF CurrentLoopIsTheChilds
<1>7. ServingHasChild'
  BY <1>2 DEF ServingHasChild
<1> QED
  BY <1>4, <1>5, <1>6, <1>7

\* The end of the child leaves a typed record with no child, not serving.
LEMMA TerminatedRecord ==
  ASSUME sup \in Supervisor
  PROVE  /\ Terminated \in Supervisor
         /\ Terminated.child = NoProcess
         /\ Terminated.status # "Serving"
         /\ Terminated.generation = sup.generation
<1> USE DEF Supervisor, Terminated
<1>1. CASE sup.manual_stop
  BY <1>1
<1>2. CASE ~sup.manual_stop /\ sup.restarts < MAX_RESTARTS
  <2>1. sup.restarts + 1 \in 0..MAX_RESTARTS
    BY <1>2
  <2>2. Terminated = [sup EXCEPT !.child = NoProcess, !.status = "Indexing",
                                 !.restarts = sup.restarts + 1]
    BY <1>2 DEF Restarts
  <2> QED
    BY <2>1, <2>2
<1>3. CASE ~sup.manual_stop /\ ~(sup.restarts < MAX_RESTARTS)
  BY <1>3 DEF Restarts
<1> QED
  BY <1>1, <1>2, <1>3

\* Only the loop of the child changes the supervisor's child or serves.
LEMMA LoopInv ==
  ASSUME SupervisorInv,
         NEW p \in Process,
         HandleTermination(p) \/ BackoffOver(p) \/ Output(p) \/ Crash(p)
  PROVE  SupervisorInv'
<1> USE DEF SupervisorInv, TypeOK, Supervisor, MainStages, LoopStages,
    Goto, settingsVars, userVars
<1>1. CASE HandleTermination(p)
  <2>1. \/ sup' = sup /\ loopGen[p] # sup.generation
        \/ sup' = Terminated /\ loopGen[p] = sup.generation
    BY <1>1 DEF HandleTermination
  <2>2. /\ at[p] = "watch" /\ proc[p] = "ended"
        /\ \E stage \in {"backoff", "done"} : at' = [at EXCEPT ![p] = stage]
        /\ UNCHANGED <<settingsVars, proc, loopGen, newborn, userVars>>
    BY <1>1 DEF HandleTermination
  <2>3. TypeOK'
    BY <2>1, <2>2, TerminatedRecord
  <2>4. NewbornsAreFresh'
    BY <2>2 DEF NewbornsAreFresh
  <2>5. CurrentLoopIsTheChilds' /\ ServingHasChild'
    <3>1. CASE sup' = sup /\ loopGen[p] # sup.generation
      BY <3>1, <2>2 DEF CurrentLoopIsTheChilds, ServingHasChild
    <3>2. CASE sup' = Terminated /\ loopGen[p] = sup.generation
      BY <3>2, <2>2, TerminatedRecord DEF CurrentLoopIsTheChilds, ServingHasChild
    <3> QED
      BY <2>1, <3>1, <3>2
  <2> QED
    BY <2>3, <2>4, <2>5
<1>2. CASE BackoffOver(p)
  <2>1. TypeOK'
    BY <1>2 DEF BackoffOver
  <2>2. NewbornsAreFresh'
    BY <1>2 DEF BackoffOver, NewbornsAreFresh
  <2>3. CurrentLoopIsTheChilds' /\ ServingHasChild'
    BY <1>2 DEF BackoffOver, CurrentLoopIsTheChilds, ServingHasChild
  <2> QED
    BY <2>1, <2>2, <2>3
<1>3. CASE Output(p)
  BY <1>3 DEF Output, NewbornsAreFresh, CurrentLoopIsTheChilds, ServingHasChild
<1>4. CASE Crash(p)
  BY <1>4 DEF Crash, NewbornsAreFresh, CurrentLoopIsTheChilds, ServingHasChild
<1> QED
  BY <1>1, <1>2, <1>3, <1>4

\* A kill leaves no child and a generation ahead of every loop.
LEMMA KillInv ==
  ASSUME SupervisorInv,
         KillSidecar
  PROVE  /\ sup' \in Supervisor
         /\ proc' \in [Process -> {"unborn", "running", "ended"}]
         /\ \A p \in Process : proc'[p] = "unborn" <=> proc[p] = "unborn"
         /\ sup'.child = NoProcess
         /\ sup'.status = "Stopped"
         /\ sup'.generation > sup.generation
<1> USE DEF SupervisorInv, TypeOK, Supervisor, KillSidecar
<1>1. \A p \in Process : p = sup.child => proc[p] # "unborn"
  BY DEF CurrentLoopIsTheChilds, NewbornsAreFresh
<1> QED
  BY <1>1

\* Commands of the user and the rest of the main thread.
LEMMA CommandInv ==
  ASSUME SupervisorInv,
         \/ \E h \in Handler :
              PageStep(h) \/ Reconfigure(h) \/ \E on \in BOOLEAN : Toggle(h, on)
         \/ CompleteWizard \/ ReloadSettings \/ Quit \/ MainStep
  PROVE  SupervisorInv'
<1> USE DEF SupervisorInv, TypeOK, MainStages, LoopStages,
    Goto, settingsVars, userVars
<1>1. ASSUME NEW h \in Handler, CallStart(h) \/ CallStop(h)
      PROVE  SupervisorInv'
  <2>1. KillSidecar
    BY <1>1 DEF CallStart, CallStop
  <2>2. /\ UNCHANGED <<settingsVars, loopGen, newborn, calls>>
        /\ at[Main] = "idle"
        /\ \E m \in {"reset", "idle"} : at' = [at EXCEPT ![Main] = m]
        /\ handler' \in [Handler -> {"idle", "start", "stop"}]
    BY <1>1 DEF CallStart, CallStop
  <2> QED
    BY <2>1, <2>2, KillInv DEF NewbornsAreFresh, CurrentLoopIsTheChilds, ServingHasChild, Supervisor
<1>2. ASSUME NEW h \in Handler, NEW on \in BOOLEAN, NEW next \in {"idle", "start", "stop"},
             SetSettings(h, on, next)
      PROVE  SupervisorInv'
  BY <1>2 DEF SetSettings, NewbornsAreFresh, CurrentLoopIsTheChilds, ServingHasChild
<1>3. CASE Quit
  <2>1. KillSidecar /\ at[Main] = "idle" /\ at' = [at EXCEPT ![Main] = "exiting"]
    BY <1>3 DEF Quit
  <2>2. UNCHANGED <<settingsVars, loopGen, newborn, userVars>>
    BY <1>3 DEF Quit
  <2> QED
    BY <2>1, <2>2, KillInv DEF NewbornsAreFresh, CurrentLoopIsTheChilds, ServingHasChild, Supervisor
<1>4. CASE CompleteWizard \/ ReloadSettings
  <2>1. UNCHANGED <<sup, proc, loopGen, at, newborn, userVars>>
    BY <1>4 DEF CompleteWizard, ReloadSettings
  <2>2. enabled' \in {enabled, saved, FALSE} /\ saved' \in {saved, enabled}
    BY <1>4, Zenon DEF CompleteWizard, ReloadSettings
  <2>3. NewbornsAreFresh' /\ CurrentLoopIsTheChilds'
    BY <2>1 DEF NewbornsAreFresh, CurrentLoopIsTheChilds
  <2>4. TypeOK'
    BY <2>1, <2>2 DEF TypeOK
  <2> QED
    BY <2>1, <2>3, <2>4 DEF ServingHasChild
<1>5. CASE MainStep
  <2>1. \E m \in {"spawn", "exited"} : at' = [at EXCEPT ![Main] = m]
    BY <1>5 DEF MainStep, ResetRestarts, Exit
  <2>2. UNCHANGED <<settingsVars, proc, loopGen, newborn, userVars>>
    BY <1>5 DEF MainStep, ResetRestarts, Exit
  <2>3. /\ sup' \in Supervisor
        /\ sup'.child = sup.child
        /\ sup'.status = sup.status
        /\ sup'.generation = sup.generation
    <3>1. CASE sup' = [sup EXCEPT !.manual_stop = FALSE, !.restarts = 0]
      <4>1. sup \in Supervisor /\ 0 \in 0..MAX_RESTARTS
        OBVIOUS
      <4> QED
        BY <3>1, <4>1 DEF Supervisor
    <3>2. CASE sup' = sup
      BY <3>2
    <3> QED
      BY <1>5, <3>1, <3>2 DEF MainStep, ResetRestarts, Exit
  <2>4. at[Main] \in {"reset", "exiting"}
    BY <1>5 DEF MainStep, ResetRestarts, Exit
  <2> QED
    BY <2>1, <2>2, <2>3, <2>4 DEF NewbornsAreFresh, CurrentLoopIsTheChilds, ServingHasChild
<1>6. ASSUME NEW h \in Handler,
             PageStep(h) \/ Reconfigure(h) \/ \E on \in BOOLEAN : Toggle(h, on)
      PROVE  SupervisorInv'
  BY <1>1, <1>2, <1>6 DEF PageStep, Reconfigure, Toggle
<1> QED
  BY <1>3, <1>4, <1>5, <1>6

\* The inductive invariant: the child's loop alone has the current generation.
THEOREM SupervisorInvariantHolds == Spec => []SupervisorInv
<1>1. SupervisorInv /\ UNCHANGED vars => SupervisorInv'
  BY DEF SupervisorInv, TypeOK, NewbornsAreFresh, CurrentLoopIsTheChilds,
     ServingHasChild, vars, settingsVars, userVars
<1>2. SupervisorInv /\ Next => SupervisorInv'
  BY SpawnInv, AttachInv, LoopInv, CommandInv DEF Next, SpawnStep, LoopStep
<1> QED
  BY SupervisorInit, <1>1, <1>2, PTL DEF Spec

\* "Serving" is shown only while the child has a loop that will notice its end.
THEOREM ServingIsWatchedHolds == Spec => []ServingIsWatched
<1>1. SupervisorInv => ServingIsWatched
  BY DEF SupervisorInv, TypeOK, Supervisor, CurrentLoopIsTheChilds, ServingHasChild,
     ServingIsWatched
<1> QED
  BY <1>1, SupervisorInvariantHolds, PTL

-----------------------------------------------------------------------------
(* OneSidecar. *)

\* An agent that watches a sidecar or is about to start one.
Busy(a) == at[a] \in {"watch", "backoff", "spawn", "attach"}

Undisturbed == calls = 0 /\ ~Quitting

\* Before the first change of the user no handler is under way, and there is at
\* most one busy agent; it has the only sidecar that runs.
OneAgent ==
  Undisturbed =>
    /\ \A h \in Handler : handler[h] = "idle"
    /\ at[Main] \in {"idle", "spawn", "attach"}
    /\ \A a, b \in Agent : Busy(a) /\ Busy(b) => a = b
    /\ \A p \in Running :
         at[p] = "watch" \/ \E a \in Agent : at[a] = "attach" /\ newborn[a] = p

\* setup leaves at most the main thread busy.
LEMMA OneAgentInit == Init => OneAgent
  BY DEF Init, OneAgent, Undisturbed, Quitting, Busy, Running

\* The spawning agent goes on with the sidecar, and no other one runs.
LEMMA SpawnOneAgent ==
  ASSUME SupervisorInv, OneAgent, Undisturbed,
         NEW a \in Agent,
         SpawnStep(a)
  PROVE  OneAgent'
<1> USE DEF OneAgent, Undisturbed, Busy, Running, Quitting, SupervisorInv, TypeOK, Goto, Returned,
    userVars, MainStages, LoopStages
<1>1. CASE SpawnProcess(a)
  <2>1. \A p \in Process : proc[p] # "running"
    BY <1>1 DEF SpawnProcess
  <2>2. PICK p \in Process : /\ proc' = [proc EXCEPT ![p] = "running"]
                             /\ newborn' = [newborn EXCEPT ![a] = p]
    BY <1>1 DEF SpawnProcess
  <2>3. at' = [at EXCEPT ![a] = "attach"] /\ at[a] = "spawn" /\ UNCHANGED userVars
    BY <1>1 DEF SpawnProcess
  <2> QED
    BY <2>1, <2>2, <2>3
<1>2. CASE SpawnFails(a)
  BY <1>2 DEF SpawnFails
<1>3. CASE Attach(a)
  <2> DEFINE p == newborn[a]
  <2>1. p \in Process /\ at[p] = "none" /\ at[a] = "attach" /\ p # a
    BY <1>3 DEF Attach, NewbornsAreFresh
  <2>2. /\ at' = [at EXCEPT ![a] = Returned(a), ![p] = "watch"]
        /\ UNCHANGED <<proc, userVars>>
    BY <1>3 DEF Attach
  <2>3. \A b \in Agent : Busy(b)' => b = p
    BY <2>1, <2>2
  <2>4. \A q \in Running' : q = p
    BY <2>1, <2>2
  <2> QED
    BY <2>1, <2>2, <2>3, <2>4
<1> QED
  BY <1>1, <1>2, <1>3 DEF SpawnStep

\* A loop leaves "watch" when its sidecar has ended.
LEMMA LoopOneAgent ==
  ASSUME SupervisorInv, OneAgent, Undisturbed,
         NEW p \in Process,
         LoopStep(p) \/ Output(p) \/ Crash(p)
  PROVE  OneAgent'
<1> USE DEF OneAgent, Undisturbed, Busy, Running, Quitting, SupervisorInv, TypeOK, Goto,
    userVars, MainStages, LoopStages
<1>1. CASE LoopStep(p)
  <2>1. /\ \/ at[p] = "watch" /\ proc[p] = "ended"
           \/ at[p] = "backoff"
        /\ \E stage \in {"backoff", "spawn", "done"} : at' = [at EXCEPT ![p] = stage]
        /\ UNCHANGED <<proc, newborn, userVars>>
    BY <1>1 DEF LoopStep, HandleTermination, BackoffOver
  <2>2. \A q \in Running : q # p \/ \E a \in Agent : at[a] = "attach" /\ newborn[a] = p
    BY <2>1
  <2>3. \A q \in Running : q # p
    BY <2>1, <2>2
  <2> QED
    BY <2>1, <2>3
<1>2. CASE Output(p)
  BY <1>2 DEF Output
<1>3. CASE Crash(p)
  BY <1>3 DEF Crash
<1> QED
  BY <1>1, <1>2, <1>3

\* A command is a change of the user, or touches no sidecar, or quits.
LEMMA CommandOneAgent ==
  ASSUME SupervisorInv, OneAgent, Undisturbed,
         \/ \E h \in Handler :
              PageStep(h) \/ Reconfigure(h) \/ \E on \in BOOLEAN : Toggle(h, on)
         \/ CompleteWizard \/ ReloadSettings \/ Quit \/ MainStep
  PROVE  OneAgent'
<1> USE DEF OneAgent, Undisturbed, Busy, Running, Quitting, SupervisorInv, TypeOK, Goto, userVars
<1>1. ASSUME NEW h \in Handler, NEW on \in BOOLEAN, NEW next, SetSettings(h, on, next)
      PROVE  calls' # 0
  BY <1>1 DEF SetSettings
<1>2. CASE CompleteWizard \/ ReloadSettings
  BY <1>2 DEF CompleteWizard, ReloadSettings
<1>3. CASE Quit \/ MainStep
  BY <1>3 DEF Quit, MainStep, ResetRestarts, Exit
<1>4. ~ \E h \in Handler : PageStep(h)
  BY DEF PageStep, CallStart, CallStop
<1>5. ASSUME NEW h \in Handler, Reconfigure(h) \/ \E on \in BOOLEAN : Toggle(h, on)
      PROVE  OneAgent'
  BY <1>1, <1>5 DEF Reconfigure, Toggle
<1> QED
  BY <1>2, <1>3, <1>4, <1>5

\* Neither a change nor quitting is taken back.
LEMMA DisturbedStays ==
  ASSUME SupervisorInv, Next, ~Undisturbed
  PROVE  ~Undisturbed'
<1> USE DEF Undisturbed, Quitting, SupervisorInv, TypeOK, Goto, userVars
<1>1. CASE \E a \in Agent : SpawnStep(a)
  BY <1>1 DEF SpawnStep, SpawnProcess, SpawnFails, Attach, NewbornsAreFresh, Returned
<1>2. CASE \E p \in Process : LoopStep(p) \/ Output(p) \/ Crash(p)
  BY <1>2 DEF LoopStep, HandleTermination, BackoffOver, Output, Crash
<1>3. ASSUME NEW h \in Handler,
             PageStep(h) \/ Reconfigure(h) \/ \E on \in BOOLEAN : Toggle(h, on)
      PROVE  ~Undisturbed'
  BY <1>3 DEF PageStep, CallStart, CallStop, Reconfigure, Toggle, SetSettings
<1>4. CASE CompleteWizard \/ ReloadSettings \/ Quit \/ MainStep
  BY <1>4 DEF CompleteWizard, ReloadSettings, Quit, MainStep, ResetRestarts, Exit
<1> QED
  BY <1>1, <1>2, <1>3, <1>4 DEF Next

\* As long as the user changes nothing, supervision never runs two sidecars.
THEOREM OneSidecarHolds == Spec => []OneSidecar
<1>1. SupervisorInv /\ OneAgent /\ UNCHANGED vars => OneAgent'
  BY DEF OneAgent, Undisturbed, Busy, Running, Quitting, vars, userVars
<1>2. SupervisorInv /\ OneAgent /\ Next => OneAgent'
  <2>1. CASE ~Undisturbed
    BY <2>1, DisturbedStays DEF OneAgent
  <2>2. CASE Undisturbed
    BY <2>2, SpawnOneAgent, LoopOneAgent, CommandOneAgent DEF Next
  <2> QED
    BY <2>1, <2>2
<1>3. OneAgent => OneSidecar
  <2>1. SUFFICES ASSUME OneAgent, Undisturbed PROVE Cardinality(Running) <= 1
    BY DEF OneSidecar, Undisturbed
  <2>2. \A p, q \in Running : p = q
    BY <2>1 DEF OneAgent, Busy, Running
  <2>3. CASE Running = {}
    <3>1. Cardinality(Running) = 0
      BY <2>3, FS_EmptySet, Zenon
    <3> QED
      BY <3>1
  <2>4. ASSUME NEW p \in Running PROVE Cardinality(Running) <= 1
    <3>1. Running = {p}
      BY <2>2, <2>4
    <3>2. Cardinality({p}) = 1
      BY FS_Singleton, Zenon
    <3> QED
      BY <3>1, <3>2
  <2> QED
    BY <2>3, <2>4
<1> QED
  BY <1>1, <1>2, <1>3, OneAgentInit, SupervisorInvariantHolds, PTL DEF Spec
=============================================================================

--------------------------- MODULE DesktopSupervisor ---------------------------
(***************************************************************************)
(* The tray shell and the kosmos-agent sidecars it supervises.  Commands    *)
(* run one after another on the main thread; a supervision loop per sidecar *)
(* and its backoff run on the async runtime beside it; a handler of the     *)
(* settings page is two commands with an await between them.  Each section  *)
(* under the supervisor mutex is one action.                                *)
(*                                                                          *)
(* Of the settings only "enabled" matters here; the length of a backoff is  *)
(* left out, and a spawn may fail at any time (also: no notes folder).      *)
(***************************************************************************)
EXTENDS Naturals, FiniteSets

CONSTANTS
  Process,        \* sidecar processes there may be, a bound
  Handler,        \* handlers of the settings page under way
  Main,           \* the main thread
  NoProcess,      \* "None" of sup.child
  MAX_RESTARTS,
  FileFaults,     \* may settings.json fail to be read or written?
  MaxCalls        \* bound on the changes a user makes

ASSUME SupervisorAssumption ==
  /\ Main \notin Process
  /\ NoProcess \notin Process
  /\ MAX_RESTARTS \in Nat
  /\ FileFaults \in BOOLEAN
  /\ MaxCalls \in Nat

VARIABLES
  enabled,   \* settings.enabled in memory
  saved,     \* and in settings.json
  sup,       \* the Supervisor record
  proc,      \* each sidecar process
  loopGen,   \* the generation its supervision loop was given
  at,        \* where the main thread and the loop of each process are
  newborn,   \* the process an agent has spawned and not attached yet
  handler,   \* what each handler of the page does next
  calls      \* changes made so far

settingsVars == <<enabled, saved>>
userVars == <<handler, calls>>
vars == <<settingsVars, sup, proc, loopGen, at, newborn, userVars>>

Agent == Process \cup {Main}

MainStages == {"idle", "reset", "spawn", "attach", "exiting", "exited"}
LoopStages == {"none", "watch", "backoff", "spawn", "attach", "done"}

Supervisor == [child : Process \cup {NoProcess},
               status : {"Stopped", "Indexing", "Serving", "Error"},
               restarts : 0..MAX_RESTARTS,
               manual_stop : BOOLEAN,
               generation : Nat]

TypeOK ==
  /\ enabled \in BOOLEAN /\ saved \in BOOLEAN
  /\ sup \in Supervisor
  /\ proc \in [Process -> {"unborn", "running", "ended"}]
  /\ loopGen \in [Process -> Nat]
  /\ at \in [Agent -> MainStages \cup LoopStages]
  /\ at[Main] \in MainStages
  /\ \A p \in Process : at[p] \in LoopStages
  /\ newborn \in [Agent -> Process \cup {NoProcess}]
  /\ handler \in [Handler -> {"idle", "start", "stop"}]
  /\ calls \in 0..MaxCalls

\* setup resumes the sidecar when the API was left enabled.
Init ==
  /\ enabled \in BOOLEAN /\ saved = enabled
  /\ sup = [child |-> NoProcess, status |-> "Stopped", restarts |-> 0,
            manual_stop |-> FALSE, generation |-> 0]
  /\ proc = [p \in Process |-> "unborn"]
  /\ loopGen = [p \in Process |-> 0]
  /\ \E m \in {"idle"} \cup IF enabled THEN {"spawn"} ELSE {} :
       at = [a \in Agent |-> IF a = Main THEN m ELSE "none"]
  /\ newborn = [a \in Agent |-> NoProcess]
  /\ handler = [h \in Handler |-> "idle"]
  /\ calls = 0

Alive == at[Main] # "exited"

Goto(a, stage) == at' = [at EXCEPT ![a] = stage]

\* Where an agent goes when spawn_sidecar has returned.
Returned(a) == IF a = Main THEN "idle" ELSE "done"

-----------------------------------------------------------------------------
(* spawn_sidecar, on the main thread or on a backoff task. *)

SpawnProcess(a) ==
  /\ Alive /\ at[a] = "spawn"
  /\ \E p \in Process :
       /\ proc[p] = "unborn"
       /\ proc' = [proc EXCEPT ![p] = "running"]
       /\ newborn' = [newborn EXCEPT ![a] = p]
  /\ Goto(a, "attach")
  /\ UNCHANGED <<settingsVars, sup, loopGen, userVars>>

\* The caller of a failed spawn: a command returns the error, a task shows it.
SpawnFails(a) ==
  /\ Alive /\ at[a] = "spawn"
  /\ sup' = IF a = Main THEN sup ELSE [sup EXCEPT !.status = "Error"]
  /\ Goto(a, Returned(a))
  /\ UNCHANGED <<settingsVars, proc, loopGen, newborn, userVars>>

\* Mutant of Attach: the loop is given the generation from before the increment.
Attach_OldGeneration(a) ==
  /\ Alive /\ at[a] = "attach"
  /\ LET p == newborn[a]  g == sup.generation IN
       /\ sup' = [sup EXCEPT !.child = p, !.status = "Indexing",
                             !.manual_stop = FALSE, !.generation = g + 1]
       /\ loopGen' = [loopGen EXCEPT ![p] = g]
       /\ at' = [at EXCEPT ![a] = Returned(a), ![p] = "watch"]
  /\ newborn' = [newborn EXCEPT ![a] = NoProcess]
  /\ UNCHANGED <<settingsVars, proc, userVars>>

\* Replacing sup.child drops the old handle, which does not end its process.
Attach(a) ==
  /\ Alive /\ at[a] = "attach"
  /\ LET p == newborn[a]  g == sup.generation + 1 IN
       /\ sup' = [sup EXCEPT !.child = p, !.status = "Indexing",
                             !.manual_stop = FALSE, !.generation = g]
       /\ loopGen' = [loopGen EXCEPT ![p] = g]
       /\ at' = [at EXCEPT ![a] = Returned(a), ![p] = "watch"]
  /\ newborn' = [newborn EXCEPT ![a] = NoProcess]
  /\ UNCHANGED <<settingsVars, proc, userVars>>

-----------------------------------------------------------------------------
(* The supervision loop of a sidecar. *)

\* A sidecar ends by itself.
Crash(p) ==
  /\ proc[p] = "running"
  /\ proc' = [proc EXCEPT ![p] = "ended"]
  /\ UNCHANGED <<settingsVars, sup, loopGen, at, newborn, userVars>>

\* Mutant of Output: any line of any sidecar counts.
Output_AnyGeneration(p) ==
  /\ Alive /\ at[p] = "watch"
  /\ sup.status = "Indexing"
  /\ sup' = [sup EXCEPT !.status = "Serving"]
  /\ UNCHANGED <<settingsVars, proc, loopGen, at, newborn, userVars>>

\* A line of output, possibly of a sidecar already killed.
Output(p) ==
  /\ Alive /\ at[p] = "watch"
  /\ sup.generation = loopGen[p] /\ sup.status = "Indexing"
  /\ sup' = [sup EXCEPT !.status = "Serving"]
  /\ UNCHANGED <<settingsVars, proc, loopGen, at, newborn, userVars>>

Restarts == ~sup.manual_stop /\ sup.restarts < MAX_RESTARTS

\* What the end of the current child makes of the supervisor.
Terminated ==
  LET noChild == [sup EXCEPT !.child = NoProcess] IN
  IF sup.manual_stop THEN [noChild EXCEPT !.status = "Stopped"]
  ELSE IF Restarts THEN [noChild EXCEPT !.status = "Indexing", !.restarts = @ + 1]
  ELSE [noChild EXCEPT !.status = "Error"]

\* Mutant of HandleTermination: it does not wait for the process to end.
HandleTermination_Early(p) ==
  /\ Alive /\ at[p] = "watch"
  /\ IF sup.generation = loopGen[p]
     THEN /\ sup' = Terminated
          /\ Goto(p, IF Restarts THEN "backoff" ELSE "done")
     ELSE Goto(p, "done") /\ UNCHANGED sup
  /\ UNCHANGED <<settingsVars, proc, loopGen, newborn, userVars>>

\* The loop of a sidecar already replaced or killed does nothing.
HandleTermination(p) ==
  /\ Alive /\ at[p] = "watch" /\ proc[p] = "ended"
  /\ IF sup.generation = loopGen[p]
     THEN /\ sup' = Terminated
          /\ Goto(p, IF Restarts THEN "backoff" ELSE "done")
     ELSE Goto(p, "done") /\ UNCHANGED sup
  /\ UNCHANGED <<settingsVars, proc, loopGen, newborn, userVars>>

\* Mutant of BackoffOver: nothing is shown when the API was disabled meanwhile.
BackoffOver_Silent(p) ==
  /\ Alive /\ at[p] = "backoff"
  /\ Goto(p, IF enabled THEN "spawn" ELSE "done")
  /\ UNCHANGED <<settingsVars, sup, proc, loopGen, newborn, userVars>>

\* After the sleep only "enabled" is looked at.
BackoffOver(p) ==
  /\ Alive /\ at[p] = "backoff"
  /\ IF enabled THEN Goto(p, "spawn") /\ UNCHANGED sup
     ELSE Goto(p, "done") /\ sup' = [sup EXCEPT !.status = "Stopped"]
  /\ UNCHANGED <<settingsVars, proc, loopGen, newborn, userVars>>

-----------------------------------------------------------------------------
(* Commands, on the main thread. *)

KillSidecar ==
  /\ sup' = [child |-> NoProcess, status |-> "Stopped", restarts |-> 0,
             manual_stop |-> TRUE, generation |-> sup.generation + 1]
  /\ proc' = [p \in Process |-> IF p = sup.child THEN "ended" ELSE proc[p]]

\* set_settings, and what the page does with its result.  When the save fails
\* the page sees an error and stops there; memory keeps the change.
SetSettings(h, on, next) ==
  /\ at[Main] = "idle" /\ handler[h] = "idle" /\ calls < MaxCalls
  /\ calls' = calls + 1
  /\ enabled' = on
  /\ \/ saved' = on /\ handler' = [handler EXCEPT ![h] = next]
     \/ FileFaults /\ UNCHANGED <<saved, handler>>
  /\ UNCHANGED <<sup, proc, loopGen, at, newborn>>

\* The switch of the page.
Toggle(h, on) == SetSettings(h, on, IF on THEN "start" ELSE "stop")

\* Another folder, sensitivity or port: a restart, if the settings that come
\* back are enabled.
Reconfigure(h) == SetSettings(h, enabled, IF enabled THEN "start" ELSE "idle")

\* complete_wizard, and the choices of a folder and a sensitivity in the wizard,
\* save and start nothing; the switch in the wizard is Toggle.
CompleteWizard ==
  /\ at[Main] = "idle"
  /\ saved' = enabled
  /\ UNCHANGED <<enabled, sup, proc, loopGen, at, newborn, userVars>>

\* get_settings, when a window opens, takes what the file says; a file that
\* cannot be read stands for the defaults.
ReloadSettings ==
  /\ at[Main] = "idle"
  /\ \/ enabled' = saved
     \/ FileFaults /\ enabled' = FALSE
  /\ UNCHANGED <<saved, sup, proc, loopGen, at, newborn, userVars>>

CallStart(h) ==
  /\ at[Main] = "idle" /\ handler[h] = "start"
  /\ KillSidecar
  /\ Goto(Main, "reset")
  /\ handler' = [handler EXCEPT ![h] = "idle"]
  /\ UNCHANGED <<settingsVars, loopGen, newborn, calls>>

ResetRestarts ==
  /\ at[Main] = "reset"
  /\ sup' = [sup EXCEPT !.manual_stop = FALSE, !.restarts = 0]
  /\ Goto(Main, "spawn")
  /\ UNCHANGED <<settingsVars, proc, loopGen, newborn, userVars>>

CallStop(h) ==
  /\ at[Main] = "idle" /\ handler[h] = "stop"
  /\ KillSidecar
  /\ handler' = [handler EXCEPT ![h] = "idle"]
  /\ UNCHANGED <<settingsVars, loopGen, at, newborn, calls>>

\* "Quit" of the tray; the runtime works on until the program has exited.
Quit ==
  /\ at[Main] = "idle"
  /\ KillSidecar
  /\ Goto(Main, "exiting")
  /\ UNCHANGED <<settingsVars, loopGen, newborn, userVars>>

Exit ==
  /\ at[Main] = "exiting"
  /\ Goto(Main, "exited")
  /\ UNCHANGED <<settingsVars, sup, proc, loopGen, newborn, userVars>>

-----------------------------------------------------------------------------
SpawnStep(a) == SpawnProcess(a) \/ SpawnFails(a) \/ Attach(a)
LoopStep(p) == HandleTermination(p) \/ BackoffOver(p)
PageStep(h) == CallStart(h) \/ CallStop(h)
MainStep == ResetRestarts \/ Exit

Next ==
  \/ \E a \in Agent : SpawnStep(a)
  \/ \E p \in Process : LoopStep(p) \/ Output(p) \/ Crash(p)
  \/ \E h \in Handler :
       PageStep(h) \/ Reconfigure(h) \/ \E on \in BOOLEAN : Toggle(h, on)
  \/ CompleteWizard \/ ReloadSettings \/ Quit \/ MainStep

Spec == Init /\ [][Next]_vars

\* The runtime and the main thread keep working: spawns return, the end of a
\* process is reported, a sleep ends.  Users, output and crashes owe nothing.
Fairness ==
  /\ \A a \in Agent : WF_vars(SpawnStep(a))
  /\ \A p \in Process : WF_vars(LoopStep(p))
  /\ WF_vars(MainStep)

FairSpec == Spec /\ Fairness

-----------------------------------------------------------------------------
Running == {p \in Process : proc[p] = "running"}

\* "Serving" is shown only while there is a child, and it is that child's
\* loop that has the current generation: its end will not go unnoticed.
ServingIsWatched ==
  sup.status = "Serving" =>
    \E p \in Process : /\ sup.child = p
                       /\ at[p] = "watch"
                       /\ loopGen[p] = sup.generation

\* The end of the child is answered: by another one, or by a status that says
\* there is none.
CrashIsAnswered ==
  \A p \in Process :
    sup.child = p /\ proc[p] = "ended" ~>
      \/ ~Alive
      \/ sup.child \in Running
      \/ sup.status \in {"Stopped", "Error"}

Quitting == at[Main] \in {"exiting", "exited"}

\* As long as the user changes nothing, supervision never runs two sidecars at
\* a time: the next one is started when the one before it has ended ...
OneSidecar == calls = 0 /\ ~Quitting => Cardinality(Running) <= 1

\* ... and with changes or without it comes to rest, with a running child or
\* with the reason why there is none.
SettlesDown ==
  <>[](\/ ~Alive
       \/ sup.child \in Running
       \/ sup.child = NoProcess /\ sup.status \in {"Stopped", "Error"})

\* A backoff ends in a restart only if nobody stopped the sidecar meanwhile,
\* as a stop and a start do.
RestartsItsOwn ==
  \A p \in Process :
    ~Quitting /\ at[p] = "backoff" /\ at'[p] = "spawn" => loopGen[p] = sup.generation

NobodyStoppedMeanwhile == [][RestartsItsOwn]_vars

-----------------------------------------------------------------------------
(* The inductive invariant behind ServingIsWatched. *)

\* A process is in the hands of at most one agent, and watched only later.
NewbornsAreFresh ==
  /\ \A p \in Process : proc[p] = "unborn" => at[p] = "none"
  /\ \A a \in Agent : at[a] = "attach" =>
       /\ newborn[a] \in Process
       /\ proc[newborn[a]] # "unborn"
       /\ at[newborn[a]] = "none"
  /\ \A a, b \in Agent :
       at[a] = "attach" /\ at[b] = "attach" /\ newborn[a] = newborn[b] => a = b

\* Of the loops, exactly the child's has the current generation.
CurrentLoopIsTheChilds ==
  /\ sup.child # NoProcess =>
       at[sup.child] = "watch" /\ loopGen[sup.child] = sup.generation
  /\ \A p \in Process : at[p] = "watch" =>
       /\ loopGen[p] <= sup.generation
       /\ loopGen[p] = sup.generation => sup.child = p

ServingHasChild == sup.status = "Serving" => sup.child # NoProcess

\* Together they make ServingIsWatched survive every step.
SupervisorInv ==
  TypeOK /\ NewbornsAreFresh /\ CurrentLoopIsTheChilds /\ ServingHasChild
=============================================================================

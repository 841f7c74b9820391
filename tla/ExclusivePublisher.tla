-------------------------- MODULE ExclusivePublisher --------------------------
(***************************************************************************)
(* What the writer lock and the generation store promise together: at most *)
(* one owner at a time, who alone completes generations, withdraws them and *)
(* selects one that is complete as the active one.  It may withdraw the     *)
(* active one too, so what is active was complete when it was selected.  A  *)
(* live owner loses the ownership by nobody's action but its own; a dead    *)
(* owner may be replaced, and put back by an interrupted recovery, but does *)
(* nothing any more.                                                        *)
(***************************************************************************)
CONSTANTS Client, Item, NoOwner, NoItem

VARIABLES owner, active, complete, dead

vars == <<owner, active, complete, dead>>

Init ==
  /\ owner = NoOwner
  /\ complete \in SUBSET Item
  /\ active \in {NoItem} \cup complete
  /\ dead = {}

Acquire(c) ==
  /\ owner = NoOwner
  /\ c \notin dead
  /\ owner' = c
  /\ UNCHANGED <<active, complete, dead>>

LiveOwner(c) == owner = c /\ c \notin dead

Complete(c, i) ==
  /\ LiveOwner(c)
  /\ complete' = complete \cup {i}
  /\ UNCHANGED <<owner, active, dead>>

Withdraw(c, i) ==
  /\ LiveOwner(c)
  /\ complete' = complete \ {i}
  /\ UNCHANGED <<owner, active, dead>>

Select(c, i) ==
  /\ LiveOwner(c)
  /\ i \in complete
  /\ active' = i
  /\ UNCHANGED <<owner, complete, dead>>

Release(c) ==
  /\ LiveOwner(c)
  /\ owner' = NoOwner
  /\ UNCHANGED <<active, complete, dead>>

Die(c) ==
  /\ dead' = dead \cup {c}
  /\ UNCHANGED <<owner, active, complete>>

\* Recovery takes the ownership from the dead, or restores it to finish later.
Revoke ==
  /\ owner \in dead
  /\ owner' = NoOwner
  /\ UNCHANGED <<active, complete, dead>>

Reinstate(c) ==
  /\ owner = NoOwner
  /\ c \in dead
  /\ owner' = c
  /\ UNCHANGED <<active, complete, dead>>

Next ==
  \/ \E c \in Client :
       Acquire(c) \/ Release(c) \/ Die(c) \/ Reinstate(c)
  \/ \E c \in Client, i \in Item : Complete(c, i) \/ Withdraw(c, i) \/ Select(c, i)
  \/ Revoke

Spec == Init /\ [][Next]_vars
=============================================================================

---------------------------- MODULE SharedActor ----------------------------
(***************************************************************************)
(* What the actor runtime promises its programs: an actor is an object     *)
(* with one value, changed by one whole method call at a time, that exists *)
(* from its construction until the last handle to it is gone, and is       *)
(* reclaimed once.                                                         *)
(***************************************************************************)
EXTENDS Naturals

CONSTANTS Actors, Handles

VARIABLES
  status,   \* "none" before construction, "live", "freed" once reclaimed
  value,    \* the state of the actor, changed by whole method calls only
  holders   \* the handle values to the actor

avars == <<status, value, holders>>

AInit ==
  /\ status = [a \in Actors |-> "none"]
  /\ value = [a \in Actors |-> 0]
  /\ holders = [a \in Actors |-> {}]

Create(a, h) ==
  /\ status[a] = "none"
  /\ status' = [status EXCEPT ![a] = "live"]
  /\ holders' = [holders EXCEPT ![a] = {h}]
  /\ UNCHANGED value

(* Handles are duplicated, moved and dropped by those who have one. *)
Pass(a, old, new) ==
  /\ holders[a] # {}
  /\ old \subseteq holders[a]
  /\ holders' = [holders EXCEPT ![a] = (@ \ old) \union new]
  /\ UNCHANGED <<status, value>>

(* A method increments the value, as one step, while a handle exists. *)
Update(a) ==
  /\ status[a] = "live" /\ holders[a] # {}
  /\ value' = [value EXCEPT ![a] = @ + 1]
  /\ UNCHANGED <<status, holders>>

Reclaim(a) ==
  /\ status[a] = "live" /\ holders[a] = {}
  /\ status' = [status EXCEPT ![a] = "freed"]
  /\ UNCHANGED <<value, holders>>

ANext ==
  \E a \in Actors :
     \/ \E h \in Handles : Create(a, h)
     \/ \E old, new \in SUBSET Handles : Pass(a, old, new)
     \/ Update(a)
     \/ Reclaim(a)

ASpec == AInit /\ [][ANext]_avars
=============================================================================

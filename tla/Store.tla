--------------------------------- MODULE Store ---------------------------------
(***************************************************************************)
(* What the cache promises, whoever shares it: the state file changes in   *)
(* one step from the state it holds to that state with one login applied,  *)
(* and after a power loss it is one of the states that it held since it    *)
(* was last flushed.  Locks, temporary files and legacy files do not       *)
(* appear.                                                                 *)
(***************************************************************************)
EXTENDS CacheData

VARIABLES
  state,         (* the state file                                          *)
  possible       (* what a power loss may leave in its place                *)

storeVars == <<state, possible>>

Replace(new) == state' = new /\ possible' = possible \cup {new}

Init == state \in Content /\ possible = {state}

Commit ==
  /\ state # Future
  /\ \E u \in Updates : Replace(Apply(Readable(state), u))

Migrate == state = None /\ \E files \in SUBSET Slot : Replace(Migrated(files))

Flush == possible' = {state} /\ UNCHANGED state

PowerLoss == state' \in possible /\ possible' = {state'}

Next == Commit \/ Migrate \/ Flush \/ PowerLoss

Spec == Init /\ [][Next]_storeVars
=============================================================================

---------------------------- MODULE ModuleContract ----------------------------
(***************************************************************************)
(* What a loadable driver promises its users, whatever its init and exit   *)
(* code does: a process can only start to use a module that is there, and  *)
(* a module that somebody uses stays.                                      *)
(***************************************************************************)
CONSTANTS
  Modules,   \* the modules that keep the promise
  Files,     \* the open-file slots of user processes
  NoModule   \* not in use

VARIABLES
  present,   \* the modules whose code is in memory
  uses       \* uses[f]: the module slot f runs in, or NoModule

vars == <<present, uses>>

TypeOK ==
  /\ present \subseteq Modules
  /\ uses \in [Files -> Modules \cup {NoModule}]

Init ==
  /\ present = {}
  /\ uses = [f \in Files |-> NoModule]

Load(m) ==
  /\ present' = present \cup {m}
  /\ UNCHANGED uses

Unload(m) ==
  /\ \A f \in Files : uses[f] # m
  /\ present' = present \ {m}
  /\ UNCHANGED uses

Use(f, m) ==
  /\ uses[f] = NoModule
  /\ m \in present
  /\ uses' = [uses EXCEPT ![f] = m]
  /\ UNCHANGED present

Leave(f) ==
  /\ uses' = [uses EXCEPT ![f] = NoModule]
  /\ UNCHANGED present

Next ==
  \/ \E m \in Modules : Load(m) \/ Unload(m)
  \/ \E f \in Files : Leave(f) \/ \E m \in Modules : Use(f, m)

Spec == Init /\ [][Next]_vars
===============================================================================

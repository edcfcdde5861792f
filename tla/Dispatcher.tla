----------------------------- MODULE Dispatcher -----------------------------
(***************************************************************************)
(* What the kernel expects of its scheduler: whenever it asks, some ready  *)
(* process runs, the idle context only if none is ready, and a process     *)
(* that stays ready is not forgotten.  Module Kernel uses the first part   *)
(* (Runnable), the fairness of module PennOS the second.                   *)
(***************************************************************************)
CONSTANTS
  Process,      \* the pcbs the scheduler may get to know
  None          \* NULL: the idle context runs

VARIABLES
  queued,     \* processes the scheduler knows
  ready,      \* those whose status is READY
  cur         \* the process that runs, or None

vars == <<queued, ready, cur>>

Init == queued = {} /\ ready = {} /\ cur = None

\* A new process, or one that ended: the pcb is free for another one.
Enter(p) ==
  /\ p \notin queued
  /\ queued' = queued \cup {p} /\ ready' = ready \cup {p}
  /\ UNCHANGED cur

Leave(p) ==
  /\ p \in queued
  /\ queued' = queued \ {p} /\ ready' = ready \ {p}
  /\ UNCHANGED cur

\* The status of a process changes.
Wake(p) ==
  /\ p \in queued \ ready
  /\ ready' = ready \cup {p}
  /\ UNCHANGED <<queued, cur>>

Rest(p) ==
  /\ p \in ready
  /\ ready' = ready \ {p}
  /\ UNCHANGED <<queued, cur>>

Dispatch ==
  /\ cur' \in IF ready = {} THEN {None} ELSE ready
  /\ UNCHANGED <<queued, ready>>

Next ==
  \/ \E p \in Process : Enter(p) \/ Leave(p) \/ Wake(p) \/ Rest(p)
  \/ Dispatch

Spec == Init /\ [][Next]_vars
=============================================================================

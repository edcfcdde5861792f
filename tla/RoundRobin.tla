----------------------------- MODULE RoundRobin -----------------------------
(***************************************************************************)
(* The scheduler of scheduler.c: three FIFO queues and a counter of 19     *)
(* quanta that says which queue is asked first.  A process is in the queue *)
(* of its priority.  The kernel around it changes the status of processes  *)
(* and adds, removes and renices them, in any order.                       *)
(*                                                                         *)
(* The order of the three lists is one relation: <<p, q>> \in before says  *)
(* that p is in front of q in the same queue (module LinkedQueue has the   *)
(* lists themselves).                                                      *)
(***************************************************************************)
EXTENDS Integers, FiniteSets

CONSTANTS
  Process,      \* the pcbs the scheduler may get to know
  None          \* NULL: the idle context runs

ASSUME ProcessAssumption == IsFiniteSet(Process) /\ None \notin Process

Class == {"high", "med", "low"}

VARIABLES
  queued,       \* processes in one of the queues
  ready,        \* those whose status is READY
  cur,          \* what getNextProcess returned last, None for NULL
  prio,         \* priority_level, as the queue it selects
  before,       \* the order within the queues
  quantaCount,  \* calls of getNextProcess, modulo 19
  passed,       \* history: the processes of the queue of p that ran while p
                \* was ready and did not
  waited        \* history: the calls of getNextProcess meanwhile, up to
                \* Forever

vars == <<queued, ready, cur, prio, before, quantaCount, passed, waited>>

Init ==
  /\ queued = {} /\ ready = {} /\ cur = None
  /\ prio = [p \in Process |-> "med"]
  /\ before = {}
  /\ quantaCount = 0
  /\ passed = [p \in Process |-> {}]
  /\ waited = [p \in Process |-> 0]

-----------------------------------------------------------------------------
(***************************************************************************)
(* The queues.                                                             *)
(***************************************************************************)
Members(c) == {p \in queued : prio[p] = c}

\* The order without p.
Without(p) == {e \in before : p \notin {e[1], e[2]}}

\* Mutants: not taken out of the old queue; put back at the front.
Requeue_Twice(p, c) == before \cup {<<q, p>> : q \in Members(c) \ {p}}
Requeue_Front(p, c) == Without(p) \cup {<<p, q>> : q \in Members(c) \ {p}}

\* queueRemoveNode from its own queue, queuePush onto the queue c.
Requeue(p, c) == Without(p) \cup {<<q, p>> : q \in Members(c) \ {p}}

ReadyIn(c) == Members(c) \cap ready

\* Mutant: the status is not looked at.
IsFirst_AnyStatus(p, c) ==
  p \in Members(c) /\ \A q \in Members(c) \ {p} : <<p, q>> \in before

\* iterate: the first ready process of a queue.
IsFirst(p, c) ==
  p \in ReadyIn(c) /\ \A q \in ReadyIn(c) \ {p} : <<p, q>> \in before

-----------------------------------------------------------------------------
(***************************************************************************)
(* What the kernel does to the queues.                                     *)
(***************************************************************************)
\* p starts to wait anew: nobody has passed it, and it has passed nobody.
Forget(p) ==
  /\ passed' = [q \in Process |-> IF q = p THEN {} ELSE passed[q] \ {p}]
  /\ waited' = [waited EXCEPT ![p] = 0]

\* k_process_create: priority 0, READY.
Enter(p) ==
  /\ p \notin queued
  /\ queued' = queued \cup {p} /\ ready' = ready \cup {p}
  /\ prio' = [prio EXCEPT ![p] = "med"]
  /\ before' = Requeue(p, "med")
  /\ Forget(p)
  /\ UNCHANGED <<cur, quantaCount>>

\* removeFromScheduler, for a process that ended.
Leave(p) ==
  /\ p \in queued
  /\ queued' = queued \ {p} /\ ready' = ready \ {p}
  /\ before' = Without(p)
  /\ Forget(p)
  /\ UNCHANGED <<cur, prio, quantaCount>>

Nice(p, c) ==
  /\ p \in queued
  /\ prio' = [prio EXCEPT ![p] = c]
  /\ before' = Requeue(p, c)
  /\ Forget(p)
  /\ UNCHANGED <<queued, ready, cur, quantaCount>>

\* Blocking, stopping and their ends touch no queue.
Wake(p) ==
  /\ p \in queued \ ready
  /\ ready' = ready \cup {p}
  /\ UNCHANGED <<queued, cur, prio, before, quantaCount, passed, waited>>

Rest(p) ==
  /\ p \in ready
  /\ ready' = ready \ {p}
  /\ passed' = [passed EXCEPT ![p] = {}]
  /\ waited' = [waited EXCEPT ![p] = 0]
  /\ UNCHANGED <<queued, cur, prio, before, quantaCount>>

-----------------------------------------------------------------------------
(***************************************************************************)
(* getNextProcess.                                                         *)
(***************************************************************************)
After == [high |-> "med", med |-> "low", low |-> "high"]

\* Mutant: the low queue is never asked first.
Start_NeverLow(n) == IF n < 9 THEN "high" ELSE "med"

\* The queue that is asked first: 9 times high, 6 times med, 4 times low.
Start(n) == IF n < 9 THEN "high" ELSE IF n < 15 THEN "med" ELSE "low"

\* The loop over the queues, from the first one on and around, stops at c.
Serves(c) ==
  LET s == Start(quantaCount)
  IN  /\ ReadyIn(c) # {}
      /\ c # s => ReadyIn(s) = {}
      /\ c = After[After[s]] => ReadyIn(After[s]) = {}

\* Above the bound of BoundedWait for every queue: waited counts no further.
Forever == 15 * (Cardinality(Process) \div 4 + 1) + Cardinality(Process)

\* p is taken out of its queue and put back at the end.
Run(p, c) ==
  /\ cur' = p
  /\ before' = Requeue(p, c)
  /\ passed' = [q \in Process |->
                  IF q = p THEN {}
                  ELSE IF q \in ReadyIn(c) THEN passed[q] \cup {p}
                  ELSE passed[q]]
  /\ waited' = [q \in Process |->
                  IF q = p \/ q \notin ready THEN 0
                  ELSE IF waited[q] = Forever THEN Forever
                  ELSE waited[q] + 1]

getNextProcess ==
  /\ quantaCount' = (quantaCount + 1) % 19
  /\ \/ \E c \in Class : Serves(c) /\ \E p \in Process : IsFirst(p, c) /\ Run(p, c)
     \/ /\ \A c \in Class : ReadyIn(c) = {}
        /\ cur' = None
        /\ UNCHANGED <<before, passed, waited>>
  /\ UNCHANGED <<queued, ready, prio>>

-----------------------------------------------------------------------------
Next ==
  \/ \E p \in Process : Enter(p) \/ Leave(p) \/ Wake(p) \/ Rest(p)
  \/ \E p \in Process, c \in Class : Nice(p, c)
  \/ getNextProcess

Spec == Init /\ [][Next]_vars

-----------------------------------------------------------------------------
TypeOK ==
  /\ queued \subseteq Process /\ ready \subseteq queued
  /\ cur \in Process \cup {None}
  /\ prio \in [Process -> Class]
  /\ before \subseteq Process \X Process
  /\ quantaCount \in 0..18
  /\ passed \in [Process -> SUBSET Process]
  /\ waited \in [Process -> Nat]

\* Every process is once in the queue of its priority, and only queued ones
\* are: the order is total on each queue and relates nothing else.  A renice
\* that removes from one queue and pushes onto another (user_level_funcs.c:36)
\* depends on it.
QueuesSound ==
  /\ \A p, q \in Process : <<p, q>> \in before =>
        /\ p # q /\ p \in queued /\ q \in queued /\ prio[p] = prio[q]
        /\ <<q, p>> \notin before
  /\ \A c \in Class : \A p, q \in Members(c) :
        p # q => <<p, q>> \in before \/ <<q, p>> \in before
  /\ \A p, q, r \in Process :
        <<p, q>> \in before /\ <<q, r>> \in before => <<p, r>> \in before

\* Who passed a ready process is behind it in the same queue now.
PassedAreBehind ==
  \A p \in Process : \A q \in passed[p] : p \in ready /\ <<p, q>> \in before

IInv == TypeOK /\ QueuesSound /\ PassedAreBehind

\* No process of its own queue runs twice while a process is ready and waits
\* ("add a process back to the queue in a round-robin fashion",
\* scheduler.c:97).
NoOvertaking ==
  [][getNextProcess =>
       \A p \in ready \ {cur'} : cur' # None => cur' \notin passed[p]]_vars

\* How long a ready process waits: once for every process in front of it, and
\* for the quanta that belong to other queues, as often as a cycle is needed to
\* have enough quanta of its own.  So it runs again and again if the scheduler is
\* entered again and again and it is not reniced for ever, which is what PennOS
\* assumes.
Own    == [high |-> 9, med |-> 6, low |-> 4]
Others == [high |-> 10, med |-> 13, low |-> 15]
BoundedWait ==
  \A p \in Process :
     LET c == prio[p]
         ahead == Cardinality(Process) - 1
     IN  waited[p] <= ahead + Others[c] * (ahead \div Own[c] + 1)

\* The scheduler does what the kernel expects of one.
D == INSTANCE Dispatcher
Dispatches == D!Spec
=============================================================================

-------------------------- MODULE RoundRobinProofs --------------------------
(***************************************************************************)
(* For any number of processes: the queues of the scheduler stay sound, a  *)
(* ready process is never overtaken twice by another one of its queue, it  *)
(* waits for a bounded number of quanta, and the scheduler implements      *)
(* module Dispatcher.                                                      *)
(***************************************************************************)
EXTENDS RoundRobin, TLAPS, FiniteSetTheorems

\* The queues are empty at the start.
LEMMA InitIInv == Init => IInv
BY DEF Init, IInv, TypeOK, QueuesSound, PassedAreBehind, Class, Members

\* Taking p out of its queue and putting it at the end of queue c, when its
\* priority says so, leaves the queues sound, with p behind all others of c.
LEMMA RequeueSound ==
  ASSUME IInv, NEW p \in Process, NEW c \in Class,
         queued' = queued \cup {p}, prio' = [prio EXCEPT ![p] = c],
         before' = Requeue(p, c)
  PROVE  /\ QueuesSound' /\ before' \subseteq Process \X Process
         /\ \A q, r \in Process \ {p} : <<q, r>> \in before' <=> <<q, r>> \in before
         /\ \A q \in Process \ {p} : q \in queued /\ prio[q] = c => <<q, p>> \in before'
<1>1. \A q, r \in Process :
        <<q, r>> \in before' <=>
          \/ <<q, r>> \in before /\ q # p /\ r # p
          \/ r = p /\ q # p /\ q \in queued /\ prio[q] = c
  BY DEF Requeue, Without, Members, IInv, TypeOK
<1>2. before' \subseteq Process \X Process
  BY DEF Requeue, Without, Members, IInv, TypeOK
<1>3. \A q \in Process : prio'[q] = IF q = p THEN c ELSE prio[q]
  BY DEF IInv, TypeOK
<1>4. \A q \in Process : q \in queued' <=> q = p \/ q \in queued
  OBVIOUS
<1>5. QueuesSound'
  <2>1. ASSUME NEW q \in Process, NEW r \in Process, <<q, r>> \in before'
        PROVE  /\ q # r /\ q \in queued' /\ r \in queued' /\ prio'[q] = prio'[r]
               /\ <<r, q>> \notin before'
    BY <1>1, <1>3, <1>4, <2>1 DEF IInv, QueuesSound
  <2>2. ASSUME NEW d \in Class, NEW q \in Members(d)', NEW r \in Members(d)', q # r
        PROVE  <<q, r>> \in before' \/ <<r, q>> \in before'
    <3>1. q \in Process /\ r \in Process /\ prio'[q] = d /\ prio'[r] = d
      BY <1>4, <2>2 DEF Members, IInv, TypeOK
    <3>2. CASE q # p /\ r # p
      BY <1>1, <1>3, <1>4, <2>2, <3>1, <3>2 DEF Members, IInv, QueuesSound
    <3>3. CASE q = p \/ r = p
      BY <1>1, <1>3, <1>4, <2>2, <3>1, <3>3 DEF Members
    <3> QED BY <3>2, <3>3
  <2>3. ASSUME NEW q \in Process, NEW r \in Process, NEW t \in Process,
               <<q, r>> \in before', <<r, t>> \in before'
        PROVE  <<q, t>> \in before'
    <3>1. r # p /\ q # p /\ <<q, r>> \in before
      BY <1>1, <2>3
    <3>2. q \in queued /\ prio[q] = prio[r]
      BY <3>1 DEF IInv, QueuesSound
    <3>3. CASE t = p
      BY <1>1, <2>3, <3>1, <3>2, <3>3
    <3>4. CASE t # p
      BY <1>1, <2>3, <3>1, <3>4 DEF IInv, QueuesSound
    <3> QED BY <3>3, <3>4
  <2> QED BY <2>1, <2>2, <2>3 DEF QueuesSound
<1> QED BY <1>1, <1>2, <1>5

\* After Forget(p) nobody is related to p by passed.
LEMMA ForgetBehind ==
  ASSUME IInv, NEW p \in Process, Forget(p), ready \ {p} \subseteq ready',
         \A q, r \in Process \ {p} : <<q, r>> \in before => <<q, r>> \in before'
  PROVE  PassedAreBehind' /\ passed' \in [Process -> SUBSET Process]
         /\ waited' \in [Process -> Nat]
<1>1. passed' = [q \in Process |-> IF q = p THEN {} ELSE passed[q] \ {p}]
  BY DEF Forget
<1>2. passed' \in [Process -> SUBSET Process] /\ waited' \in [Process -> Nat]
  BY <1>1 DEF Forget, IInv, TypeOK
<1>3. ASSUME NEW q \in Process, NEW r \in passed'[q]
      PROVE  q \in ready' /\ <<q, r>> \in before'
  <2>1. q # p /\ r \in passed[q] /\ r # p
    BY <1>1, <1>3
  <2>2. r \in Process /\ q \in ready /\ <<q, r>> \in before
    BY <2>1 DEF IInv, TypeOK, PassedAreBehind
  <2> QED BY <2>1, <2>2
<1> QED BY <1>2, <1>3 DEF PassedAreBehind

\* A new process.
LEMMA EnterStep == ASSUME NEW p \in Process PROVE IInv /\ Enter(p) => IInv'
<1> SUFFICES ASSUME IInv, Enter(p) PROVE IInv'
  OBVIOUS
<1>1. "med" \in Class
  BY DEF Class
<1>2. /\ QueuesSound' /\ before' \subseteq Process \X Process
      /\ \A q, r \in Process \ {p} : <<q, r>> \in before' <=> <<q, r>> \in before
  BY <1>1, RequeueSound DEF Enter
<1>3. PassedAreBehind' /\ passed' \in [Process -> SUBSET Process]
      /\ waited' \in [Process -> Nat]
  BY <1>2, ForgetBehind DEF Enter
<1>4. TypeOK'
  BY <1>1, <1>2, <1>3 DEF Enter, IInv, TypeOK
<1> QED BY <1>2, <1>3, <1>4 DEF IInv

\* The end of a process.
LEMMA LeaveStep == ASSUME NEW p \in Process PROVE IInv /\ Leave(p) => IInv'
<1> SUFFICES ASSUME IInv, Leave(p) PROVE IInv'
  OBVIOUS
<1>1. \A q, r \in Process :
        <<q, r>> \in before' <=> <<q, r>> \in before /\ q # p /\ r # p
  BY DEF Leave, Without
<1>2. QueuesSound'
  <2>1. queued' = queued \ {p} /\ prio' = prio
    BY DEF Leave
  <2>2. \A d \in Class : Members(d)' = Members(d) \ {p} /\ Members(d) \subseteq Process
    BY <2>1 DEF Members, IInv, TypeOK
  <2> QED BY <1>1, <2>1, <2>2 DEF IInv, QueuesSound
<1>3. PassedAreBehind' /\ passed' \in [Process -> SUBSET Process]
      /\ waited' \in [Process -> Nat]
  BY <1>1, ForgetBehind DEF Leave
<1>4. TypeOK'
  BY <1>3 DEF Leave, Without, IInv, TypeOK
<1> QED BY <1>2, <1>3, <1>4 DEF IInv

\* p_nice.
LEMMA NiceStep ==
  ASSUME NEW p \in Process, NEW c \in Class PROVE IInv /\ Nice(p, c) => IInv'
<1> SUFFICES ASSUME IInv, Nice(p, c) PROVE IInv'
  OBVIOUS
<1>1. queued' = queued \cup {p}
  BY DEF Nice
<1>2. /\ QueuesSound' /\ before' \subseteq Process \X Process
      /\ \A q, r \in Process \ {p} : <<q, r>> \in before' <=> <<q, r>> \in before
  BY <1>1, RequeueSound DEF Nice
<1>3. PassedAreBehind' /\ passed' \in [Process -> SUBSET Process]
      /\ waited' \in [Process -> Nat]
  BY <1>2, ForgetBehind DEF Nice
<1>4. TypeOK'
  BY <1>2, <1>3 DEF Nice, IInv, TypeOK
<1> QED BY <1>2, <1>3, <1>4 DEF IInv

\* A process wakes up or rests.
LEMMA WakeStep == ASSUME NEW p \in Process PROVE IInv /\ Wake(p) => IInv'
BY DEF Wake, IInv, TypeOK, QueuesSound, PassedAreBehind, Members

\* It rests.
LEMMA RestStep == ASSUME NEW p \in Process PROVE IInv /\ Rest(p) => IInv'
BY DEF Rest, IInv, TypeOK, QueuesSound, PassedAreBehind, Members

\* What running p says: p is first among the ready processes of its queue.
LEMMA RunStep ==
  ASSUME IInv, NEW c \in Class, NEW p \in Process, IsFirst(p, c), Run(p, c),
         quantaCount' = (quantaCount + 1) % 19, UNCHANGED <<queued, ready, prio>>
  PROVE  IInv' /\ cur' \in ready /\ \A q \in ready \ {cur'} : cur' \notin passed[q]
<1>1. p \in queued /\ p \in ready /\ prio[p] = c
  BY DEF IsFirst, ReadyIn, Members
<1>2. queued' = queued \cup {p} /\ prio' = [prio EXCEPT ![p] = c]
  BY <1>1 DEF IInv, TypeOK
<1>3. /\ QueuesSound' /\ before' \subseteq Process \X Process
      /\ \A q, r \in Process \ {p} : <<q, r>> \in before' <=> <<q, r>> \in before
      /\ \A q \in Process \ {p} : q \in queued /\ prio[q] = c => <<q, p>> \in before'
  BY <1>2, RequeueSound DEF Run
<1>4. passed' = [q \in Process |->
                  IF q = p THEN {}
                  ELSE IF q \in ReadyIn(c) THEN passed[q] \cup {p}
                  ELSE passed[q]]
  BY DEF Run
<1>5. ASSUME NEW q \in ready \ {p} PROVE p \notin passed[q]
  <2>1. q \in Process /\ q \in queued
    BY DEF IInv, TypeOK
  <2>2. SUFFICES ASSUME p \in passed[q] PROVE FALSE
    OBVIOUS
  <2>3. <<q, p>> \in before
    BY <2>1, <2>2 DEF IInv, PassedAreBehind
  <2>4. prio[q] = c /\ <<p, q>> \notin before
    BY <1>1, <2>1, <2>3 DEF IInv, QueuesSound
  <2>5. q \in ReadyIn(c) \ {p}
    BY <2>1, <2>4 DEF ReadyIn, Members
  <2> QED BY <2>4, <2>5 DEF IsFirst
<1>6. PassedAreBehind'
  <2>1. ASSUME NEW q \in Process, NEW r \in passed'[q]
        PROVE  q \in ready' /\ <<q, r>> \in before'
    <3>1. q # p
      BY <1>4, <2>1
    <3>2. CASE r \in passed[q]
      <4>1. q \in ready /\ <<q, r>> \in before /\ r \in Process
        BY <3>2 DEF IInv, TypeOK, PassedAreBehind
      <4>2. r # p
        BY <1>5, <3>1, <3>2, <4>1
      <4> QED BY <1>3, <3>1, <4>1, <4>2
    <3>3. CASE r \notin passed[q]
      <4>1. r = p /\ q \in ReadyIn(c)
        BY <1>4, <2>1, <3>1, <3>3
      <4> QED BY <1>3, <3>1, <4>1 DEF ReadyIn, Members
    <3> QED BY <3>2, <3>3
  <2> QED BY <2>1 DEF PassedAreBehind
<1>7. TypeOK'
  <2>1. passed' \in [Process -> SUBSET Process]
    BY <1>4 DEF IInv, TypeOK
  <2>2. waited' \in [Process -> Nat]
    BY DEF Run, IInv, TypeOK
  <2>3. quantaCount' \in 0..18
    BY DEF IInv, TypeOK
  <2>4. cur' \in Process
    BY DEF Run
  <2> QED BY <1>2, <1>3, <2>1, <2>2, <2>3, <2>4 DEF IInv, TypeOK
<1>8. cur' = p
  BY DEF Run
<1> QED BY <1>1, <1>3, <1>5, <1>6, <1>7, <1>8 DEF IInv

\* getNextProcess: the idle context runs only if nobody is ready.
LEMMA getNextProcessStep ==
  IInv /\ getNextProcess =>
    /\ IInv'
    /\ cur' \in IF ready = {} THEN {None} ELSE ready
    /\ \A p \in ready \ {cur'} : cur' # None => cur' \notin passed[p]
<1> SUFFICES ASSUME IInv, getNextProcess
             PROVE  /\ IInv'
                    /\ cur' \in IF ready = {} THEN {None} ELSE ready
                    /\ \A p \in ready \ {cur'} : cur' # None => cur' \notin passed[p]
  OBVIOUS
<1>1. quantaCount' = (quantaCount + 1) % 19 /\ UNCHANGED <<queued, ready, prio>>
  BY DEF getNextProcess
<1>2. CASE \E c \in Class : Serves(c) /\ \E p \in Process : IsFirst(p, c) /\ Run(p, c)
  <2>1. PICK c \in Class, p \in Process : IsFirst(p, c) /\ Run(p, c)
    BY <1>2
  <2> QED BY <1>1, <2>1, RunStep
<1>3. CASE /\ \A c \in Class : ReadyIn(c) = {}
           /\ cur' = None
           /\ UNCHANGED <<before, passed, waited>>
  <2>1. ready = {}
    BY <1>3 DEF ReadyIn, Members, IInv, TypeOK
  <2>2. IInv'
    <3>1. quantaCount' \in 0..18
      BY <1>1 DEF IInv, TypeOK
    <3> QED BY <1>1, <1>3, <3>1 DEF IInv, TypeOK, QueuesSound, PassedAreBehind, Members
  <2> QED BY <1>3, <2>1, <2>2
<1> QED BY <1>2, <1>3 DEF getNextProcess

\* IInv is inductive.
LEMMA NextIInv == IInv /\ [Next]_vars => IInv'
<1> SUFFICES ASSUME IInv, [Next]_vars PROVE IInv'
  OBVIOUS
<1>1. ASSUME NEW p \in Process, Enter(p) \/ Leave(p) \/ Wake(p) \/ Rest(p) PROVE IInv'
  BY <1>1, EnterStep, LeaveStep, WakeStep, RestStep
<1>2. ASSUME NEW p \in Process, NEW c \in Class, Nice(p, c) PROVE IInv'
  BY <1>2, NiceStep
<1>3. CASE getNextProcess
  BY <1>3, getNextProcessStep
<1>4. CASE UNCHANGED vars
  BY <1>4 DEF vars, IInv, TypeOK, QueuesSound, PassedAreBehind, Members
<1> QED BY <1>1, <1>2, <1>3, <1>4 DEF Next

\* Every process is once in the queue of its priority, queues have an order, and
\* who passed a ready process is behind it now.
THEOREM Invariance == Spec => []IInv
<1> QED BY InitIInv, NextIInv, PTL DEF Spec

\* No process of its own queue runs twice while a process is ready and waits.
THEOREM NeverOvertakenTwice == Spec => NoOvertaking
<1>1. IInv /\ [Next]_vars =>
        [getNextProcess =>
           \A p \in ready \ {cur'} : cur' # None => cur' \notin passed[p]]_vars
  BY getNextProcessStep
<1> QED BY <1>1, Invariance, PTL DEF Spec, NoOvertaking

\* The scheduler implements what the kernel expects of one: some ready process
\* runs, and the idle context only if none is ready.
THEOREM Implements == Spec => Dispatches
<1>1. Init => D!Init
  BY DEF Init, D!Init
<1>2. IInv /\ [Next]_vars => [D!Next]_(D!vars)
  <2> SUFFICES ASSUME IInv, [Next]_vars PROVE [D!Next]_(D!vars)
    OBVIOUS
  <2>1. ASSUME NEW p \in Process, Enter(p) \/ Leave(p) \/ Wake(p) \/ Rest(p)
        PROVE  D!Next
    BY <2>1 DEF Enter, Leave, Wake, Rest, D!Next, D!Enter, D!Leave, D!Wake, D!Rest
  <2>2. ASSUME NEW p \in Process, NEW c \in Class, Nice(p, c)
        PROVE  UNCHANGED D!vars
    BY <2>2 DEF Nice, D!vars
  <2>3. CASE getNextProcess
    <3>1. cur' \in IF ready = {} THEN {None} ELSE ready
      BY <2>3, getNextProcessStep
    <3>2. UNCHANGED <<queued, ready>>
      BY <2>3 DEF getNextProcess
    <3> QED BY <3>1, <3>2 DEF D!Next, D!Dispatch
  <2>4. CASE UNCHANGED vars
    BY <2>4 DEF vars, D!vars
  <2> QED BY <2>1, <2>2, <2>3, <2>4 DEF Next
<1> QED BY <1>1, <1>2, Invariance, PTL DEF Spec, Dispatches, D!Spec

-----------------------------------------------------------------------------
(***************************************************************************)
(* How long a process waits.                                               *)
(***************************************************************************)
\* Where the quanta of a queue begin, and how far the cycle is since then.
First == [high |-> 0, med |-> 9, low |-> 15]
Phase(n, c) == (n + 19 - First[c]) % 19

\* The processes in front of p in its queue, and how many are not.
Front(p) == {q \in Process : <<q, p>> \in before}
Served(p) == Cardinality(Process) - 1 - Cardinality(Front(p))

\* w calls are accounted for, k of which served queue c, at phase j of its cycle: m
\* times all quanta of the queue have been used since the wait began, and no other
\* quanta have passed than those behind them and, once, some before them.
Fits(w, k, j, c, m) ==
  /\ Own[c] * m <= k
  /\ IF j < Own[c] THEN \/ w - k <= Others[c] * m
                        \/ w - k <= Others[c] * (m + 1) /\ Own[c] * m + j <= k
     ELSE w - k <= Others[c] * m + (j - Own[c])

Waits(p) ==
  \E m \in Nat : Fits(waited[p], Served(p), Phase(quantaCount, prio[p]), prio[p], m)

WaitInv == \A p \in Process : Waits(p) /\ (p \notin ready => waited[p] = 0)

\* A process that does not wait fits.
LEMMA FitsAtFirst ==
  ASSUME NEW c \in Class, NEW k \in Nat, NEW j \in 0..18
  PROVE  Fits(0, k, j, c, 0)
BY DEF Fits, Own, Others, Class

\* A shorter wait fits, and one with more service.
LEMMA FitsLess ==
  ASSUME NEW c \in Class, NEW w \in Nat, NEW v \in Nat, v <= w,
         NEW k \in Nat, NEW h \in Nat, k <= h, NEW j \in 0..18, NEW m \in Nat,
         Fits(w, k, j, c, m)
  PROVE  Fits(v, h, j, c, m)
BY DEF Fits, Own, Others, Class

\* A quantum of the queue serves it.
LEMMA FitsOwn ==
  ASSUME NEW c \in Class, NEW w \in Nat, NEW v \in Nat, v <= w + 1, NEW k \in Nat,
         NEW j \in 0..18, j < Own[c], NEW m \in Nat, Fits(w, k, j, c, m)
  PROVE  \E l \in Nat : Fits(v, k + 1, (j + 1) % 19, c, l)
<1>1. (j + 1) % 19 = j + 1
  BY DEF Own, Class
<1>2. Fits(v, k + 1, j + 1, c, m) \/ Fits(v, k + 1, j + 1, c, m + 1)
  BY DEF Fits, Own, Others, Class
<1> QED BY <1>1, <1>2

\* Any other may, or may not.
LEMMA FitsOther ==
  ASSUME NEW c \in Class, NEW w \in Nat, NEW v \in Nat, v <= w + 1, NEW k \in Nat,
         NEW j \in 0..18, ~ (j < Own[c]), NEW m \in Nat, Fits(w, k, j, c, m)
  PROVE  Fits(v, k, (j + 1) % 19, c, m)
<1>1. CASE j < 18
  <2>1. (j + 1) % 19 = j + 1
    BY <1>1
  <2> QED BY <1>1, <2>1 DEF Fits, Own, Others, Class
<1>2. CASE j = 18
  <2>1. (j + 1) % 19 = 0
    BY <1>2
  <2> QED BY <1>2, <2>1 DEF Fits, Own, Others, Class
<1> QED BY <1>1, <1>2

\* The phases follow each other, and the first ones belong to the queue.
LEMMA PhaseFacts ==
  ASSUME NEW c \in Class, NEW n \in 0..18
  PROVE  /\ Phase(n, c) \in 0..18
         /\ Phase((n + 1) % 19, c) = (Phase(n, c) + 1) % 19
         /\ Phase(n, c) < Own[c] => Start(n) = c
<1>1. c = "high" \/ c = "med" \/ c = "low"
  BY DEF Class
<1>2. CASE c = "high"
  BY <1>2 DEF Phase, First, Own, Start
<1>3. CASE c = "med"
  BY <1>3 DEF Phase, First, Own, Start
<1>4. CASE c = "low"
  BY <1>4 DEF Phase, First, Own, Start
<1> QED BY <1>1, <1>2, <1>3, <1>4

\* A process is not in front of itself, and there are finitely many.
LEMMA OthersCounted ==
  ASSUME NEW p \in Process, NEW S, S \subseteq Process \ {p}
  PROVE  /\ IsFiniteSet(S) /\ Cardinality(S) \in Nat /\ Cardinality(Process) \in Nat
         /\ Cardinality(Process) - 1 - Cardinality(S) \in 0..(Cardinality(Process) - 1)
<1>1. /\ IsFiniteSet(Process \ {p}) /\ Cardinality(Process) \in Nat
      /\ Cardinality(Process \ {p}) = Cardinality(Process) - 1
  BY ProcessAssumption, FS_RemoveElement, FS_CardinalityType
<1>2. /\ IsFiniteSet(S) /\ Cardinality(Process \ {p}) \in Nat
      /\ Cardinality(S) <= Cardinality(Process \ {p}) /\ Cardinality(S) \in Nat
  BY <1>1, FS_Subset, FS_CardinalityType
<1> QED BY <1>1, <1>2

\* Who is in front, and how often they were served, can be counted ...
LEMMA FrontFacts ==
  ASSUME IInv, NEW p \in Process
  PROVE  /\ IsFiniteSet(Front(p)) /\ Cardinality(Front(p)) \in Nat
         /\ Cardinality(Process) \in Nat /\ Served(p) \in Nat
         /\ Served(p) \in 0..(Cardinality(Process) - 1)
<1>1. Front(p) \subseteq Process \ {p}
  BY DEF Front, IInv, QueuesSound
<1> QED BY <1>1, OthersCounted DEF Served

\* ... also in the next state.
LEMMA FrontFactsNext ==
  ASSUME IInv', NEW p \in Process
  PROVE  /\ Cardinality(Front(p)') \in Nat /\ Served(p)' \in Nat
<1>1. Front(p)' \subseteq Process \ {p}
  BY DEF Front, IInv, QueuesSound
<1> QED BY <1>1, OthersCounted DEF Served

\* Who is in front of p no more has been served.
LEMMA FrontShrinks ==
  ASSUME IInv, IInv', NEW p \in Process, Front(p)' \subseteq Front(p)
  PROVE  /\ Served(p) <= Served(p)'
         /\ Front(p)' # Front(p) => Served(p) + 1 <= Served(p)'
<1>1. IsFiniteSet(Front(p)) /\ Cardinality(Front(p)) \in Nat /\ Cardinality(Process) \in Nat
  BY FrontFacts
<1>2. /\ Cardinality(Front(p)') \in Nat /\ Cardinality(Front(p)) \in Nat
      /\ Cardinality(Front(p)') <= Cardinality(Front(p))
      /\ Front(p)' # Front(p) => Cardinality(Front(p)') < Cardinality(Front(p))
  BY <1>1, FS_Subset, FrontFactsNext
<1> QED BY <1>1, <1>2 DEF Served

\* A process that waits anew.
LEMMA WaitsAnew ==
  ASSUME IInv', NEW p \in Process, waited'[p] = 0
  PROVE  Waits(p)'
<1>1. prio'[p] \in Class /\ quantaCount' \in 0..18 /\ Served(p)' \in Nat
  BY FrontFacts, FrontFactsNext DEF IInv, TypeOK
<1>2. Phase(quantaCount', prio'[p]) \in 0..18
  BY <1>1, PhaseFacts
<1>3. Fits(0, Served(p)', Phase(quantaCount', prio'[p]), prio'[p], 0)
  BY <1>1, <1>2, FitsAtFirst
<1> QED BY <1>3 DEF Waits

\* One for which no quantum passes.
LEMMA WaitsOn ==
  ASSUME IInv, IInv', NEW p \in Process, Waits(p), Front(p)' \subseteq Front(p),
         waited'[p] = waited[p], prio'[p] = prio[p], quantaCount' = quantaCount
  PROVE  Waits(p)'
<1>1. /\ prio[p] \in Class /\ quantaCount \in 0..18 /\ waited[p] \in Nat
      /\ Served(p) \in Nat /\ Served(p)' \in Nat
  BY FrontFacts, FrontFactsNext DEF IInv, TypeOK
<1>2. Phase(quantaCount, prio[p]) \in 0..18 /\ Served(p) <= Served(p)'
  BY <1>1, PhaseFacts, FrontShrinks
<1>3. PICK m \in Nat : Fits(waited[p], Served(p), Phase(quantaCount, prio[p]), prio[p], m)
  BY DEF Waits
<1>4. Fits(waited[p], Served(p)', Phase(quantaCount, prio[p]), prio[p], m)
  <2>1. waited[p] <= waited[p]
    BY <1>1
  <2> QED BY ONLY <1>1, <1>2, <1>3, <2>1, FitsLess
<1> QED BY <1>4 DEF Waits

\* One that sees another served.
LEMMA WaitsForQuantum ==
  ASSUME IInv, IInv', NEW p \in Process, Waits(p), Front(p)' \subseteq Front(p),
         waited'[p] <= waited[p] + 1, prio'[p] = prio[p],
         quantaCount' = (quantaCount + 1) % 19,
         Start(quantaCount) = prio[p] => Front(p)' # Front(p)
  PROVE  Waits(p)'
<1> DEFINE j == Phase(quantaCount, prio[p])
           c == prio[p]
<1>1. /\ c \in Class /\ quantaCount \in 0..18 /\ waited[p] \in Nat /\ waited'[p] \in Nat
      /\ Served(p) \in Nat /\ Served(p)' \in Nat
  BY FrontFacts, FrontFactsNext DEF IInv, TypeOK
<1>2. /\ j \in 0..18 /\ Phase(quantaCount', c) = (j + 1) % 19 /\ (j + 1) % 19 \in 0..18
      /\ j < Own[c] => Start(quantaCount) = c
  BY <1>1, PhaseFacts
<1>3. Served(p) <= Served(p)' /\ (Front(p)' # Front(p) => Served(p) + 1 <= Served(p)')
  BY FrontShrinks
<1>4. PICK m \in Nat : Fits(waited[p], Served(p), j, c, m)
  BY DEF Waits
<1>5. PICK i \in 0..18 : i = (j + 1) % 19
  BY <1>2
<1>6. PICK v \in Nat : v = waited'[p]
  BY <1>1
<1>7. PICK h \in Nat : h = Served(p)'
  BY <1>1
<1> HIDE DEF j
<1>8. CASE j < Own[c]
  <2>1. PICK l \in Nat : Fits(v, Served(p) + 1, i, c, l)
    BY <1>1, <1>2, <1>4, <1>5, <1>6, <1>8, FitsOwn
  <2>2. Served(p) + 1 <= h /\ Served(p) + 1 \in Nat /\ v <= v
    BY <1>1, <1>2, <1>3, <1>7, <1>8
  <2>3. Fits(v, h, i, c, l)
    BY ONLY <1>1, <2>1, <2>2, FitsLess
  <2> QED BY <1>2, <1>5, <1>6, <1>7, <2>3 DEF Waits
<1>9. CASE ~ (j < Own[c])
  <2>1. Fits(v, Served(p), i, c, m)
    BY <1>1, <1>2, <1>4, <1>5, <1>6, <1>9, FitsOther
  <2>2. Served(p) <= h /\ v <= v
    BY <1>3, <1>7
  <2>3. Fits(v, h, i, c, m)
    BY ONLY <1>1, <2>1, <2>2, FitsLess
  <2> QED BY <1>2, <1>5, <1>6, <1>7, <2>3 DEF Waits
<1> QED BY <1>8, <1>9

\* Who enters, leaves or is reniced gets in front of nobody.
LEMMA FrontKept ==
  ASSUME NEW p \in Process, NEW q \in Process \ {p},
         before' = Without(p) \/ \E c \in Class : before' = Requeue(p, c)
  PROVE  Front(q)' \subseteq Front(q)
BY DEF Front, Requeue, Without

\* One process runs, and the others of its queue are nearer to the front.
LEMMA RunWaits ==
  ASSUME IInv, IInv', WaitInv, NEW c \in Class, Serves(c), NEW p \in Process,
         IsFirst(p, c), Run(p, c),
         quantaCount' = (quantaCount + 1) % 19, UNCHANGED <<queued, ready, prio>>
  PROVE  WaitInv'
<1> SUFFICES ASSUME NEW q \in Process
             PROVE  Waits(q)' /\ (q \notin ready' => waited'[q] = 0)
  BY DEF WaitInv
<1>1. waited'[q] = IF q = p \/ q \notin ready THEN 0
                   ELSE IF waited[q] = Forever THEN Forever ELSE waited[q] + 1
  BY DEF Run
<1>2. CASE q = p \/ q \notin ready
  BY <1>1, <1>2, WaitsAnew
<1>3. CASE q # p /\ q \in ready
  <2>1. Front(q)' \subseteq Front(q) /\ p \notin Front(q)'
    BY <1>3 DEF Run, Front, Requeue, Without
  <2>2. q \in ReadyIn(prio[q])
    BY <1>3 DEF ReadyIn, Members, IInv, TypeOK
  <2>3. ASSUME Start(quantaCount) = prio[q] PROVE Front(q)' # Front(q)
    <3>1. c = prio[q]
      BY <2>2, <2>3 DEF Serves
    <3>2. p \in Front(q)
      BY <1>3, <2>2, <3>1 DEF IsFirst, Front
    <3> QED BY <2>1, <3>2
  <2>4. waited'[q] <= waited[q] + 1 /\ Waits(q)
    BY <1>1, <1>3 DEF IInv, TypeOK, WaitInv
  <2>5. Waits(q)'
    BY <2>1, <2>3, <2>4, WaitsForQuantum
  <2> QED BY <1>3, <2>5
<1> QED BY <1>2, <1>3

\* WaitInv is inductive.
LEMMA NextWaitInv == IInv /\ IInv' /\ WaitInv /\ [Next]_vars => WaitInv'
<1> SUFFICES ASSUME IInv, IInv', WaitInv, [Next]_vars PROVE WaitInv'
  OBVIOUS
<1>1. ASSUME NEW p \in Process, Forget(p), UNCHANGED quantaCount,
             ready \ {p} \subseteq ready',
             \A q \in Process \ {p} : prio'[q] = prio[q],
             before' = Without(p) \/ \E c \in Class : before' = Requeue(p, c)
      PROVE  WaitInv'
  <2> SUFFICES ASSUME NEW q \in Process
               PROVE  Waits(q)' /\ (q \notin ready' => waited'[q] = 0)
    BY DEF WaitInv
  <2>1. waited'[q] = IF q = p THEN 0 ELSE waited[q]
    BY <1>1 DEF Forget, IInv, TypeOK
  <2>2. CASE q = p
    BY <2>1, <2>2, WaitsAnew
  <2>3. CASE q # p
    <3>1. Front(q)' \subseteq Front(q)
      BY <1>1, <2>3, FrontKept
    <3>2. Waits(q)'
      BY <1>1, <2>1, <2>3, <3>1, WaitsOn DEF WaitInv
    <3> QED BY <1>1, <2>1, <2>3, <3>2 DEF WaitInv
  <2> QED BY <2>2, <2>3
<1>2. ASSUME NEW p \in Process, Enter(p) \/ Leave(p) PROVE WaitInv'
  <2>1. CASE Enter(p)
    <3>1. "med" \in Class /\ \A q \in Process \ {p} : prio'[q] = prio[q]
      BY <2>1 DEF Enter, Class, IInv, TypeOK
    <3> QED BY <1>1, <2>1, <3>1 DEF Enter
  <2>2. CASE Leave(p)
    BY <1>1, <2>2 DEF Leave
  <2> QED BY <1>2, <2>1, <2>2
<1>3. ASSUME NEW p \in Process, NEW c \in Class, Nice(p, c) PROVE WaitInv'
  <2>1. \A q \in Process \ {p} : prio'[q] = prio[q]
    BY <1>3 DEF Nice, IInv, TypeOK
  <2> QED BY <1>1, <1>3, <2>1 DEF Nice
<1>4. ASSUME NEW p \in Process, Wake(p) \/ Rest(p) PROVE WaitInv'
  <2> SUFFICES ASSUME NEW q \in Process
               PROVE  Waits(q)' /\ (q \notin ready' => waited'[q] = 0)
    BY DEF WaitInv
  <2>1. Front(q)' = Front(q) /\ prio' = prio /\ quantaCount' = quantaCount
    BY <1>4 DEF Wake, Rest, Front
  <2>2. CASE waited'[q] = 0
    BY <2>2, WaitsAnew
  <2>3. CASE waited'[q] = waited[q]
    <3>1. Waits(q)'
      BY <2>1, <2>3, WaitsOn DEF WaitInv
    <3>2. q \notin ready' => waited'[q] = 0
      BY <1>4, <2>3 DEF Wake, Rest, WaitInv, IInv, TypeOK
    <3> QED BY <3>1, <3>2
  <2>4. waited'[q] = 0 \/ waited'[q] = waited[q]
    BY <1>4 DEF Wake, Rest, IInv, TypeOK
  <2> QED BY <2>2, <2>3, <2>4, WaitsAnew DEF Wake, Rest, WaitInv
<1>5. CASE getNextProcess
  <2>1. quantaCount' = (quantaCount + 1) % 19 /\ UNCHANGED <<queued, ready, prio>>
    BY <1>5 DEF getNextProcess
  <2>2. CASE \E c \in Class : Serves(c) /\ \E p \in Process : IsFirst(p, c) /\ Run(p, c)
    BY <2>1, <2>2, RunWaits
  <2>3. CASE (\A c \in Class : ReadyIn(c) = {}) /\ UNCHANGED <<before, passed, waited>>
    <3>1. ready = {}
      BY <2>3 DEF ReadyIn, Members, IInv, TypeOK
    <3> QED BY <2>3, <3>1, WaitsAnew DEF WaitInv
  <2> QED BY <1>5, <2>2, <2>3 DEF getNextProcess
<1>6. CASE UNCHANGED vars
  <2>1. \A q \in Process : Front(q)' = Front(q)
    BY <1>6 DEF vars, Front
  <2> QED BY <1>6, <2>1, WaitsOn DEF vars, WaitInv
<1> QED BY <1>2, <1>3, <1>4, <1>5, <1>6 DEF Next

\* The bound follows: no more than the processes in front have been served.
LEMMA WaitInvBounds == IInv /\ WaitInv => BoundedWait
<1> SUFFICES ASSUME IInv, WaitInv, NEW p \in Process
             PROVE  LET c == prio[p]
                        ahead == Cardinality(Process) - 1
                    IN  waited[p] <= ahead + Others[c] * (ahead \div Own[c] + 1)
  BY DEF BoundedWait
<1> DEFINE c == prio[p]
           n == Cardinality(Process) - 1
           k == Served(p)
           j == Phase(quantaCount, c)
<1>1. c \in Class /\ waited[p] \in Nat /\ n \in Nat /\ k \in 0..n /\ j \in 0..18
  BY FrontFacts, PhaseFacts, OthersCounted DEF IInv, TypeOK
<1>2. PICK m \in Nat : Fits(waited[p], k, j, c, m)
  BY DEF WaitInv, Waits
<1> HIDE DEF c, n, k, j
<1>3. waited[p] <= k + Others[c] * (m + 1) /\ Own[c] * m <= n
  BY <1>1, <1>2 DEF Fits, Own, Others, Class
<1>4. m <= n \div Own[c] /\ n \div Own[c] \in Nat
  BY <1>1, <1>3 DEF Own, Class
<1>5. Others[c] * (m + 1) <= Others[c] * (n \div Own[c] + 1)
  BY <1>1, <1>4 DEF Others, Class
<1>6. Others[c] \in Nat
  BY <1>1 DEF Others, Class
<1>7. waited[p] <= n + Others[c] * (n \div Own[c] + 1)
  BY <1>1, <1>3, <1>4, <1>5, <1>6
<1> QED BY <1>7 DEF c, n

\* A ready process runs after at most so many entries of the scheduler.
THEOREM WaitsAreBounded == Spec => []BoundedWait
<1>1. Init => WaitInv
  <2> SUFFICES ASSUME Init, NEW p \in Process
               PROVE  Waits(p) /\ (p \notin ready => waited[p] = 0)
    BY DEF WaitInv
  <2>1. waited[p] = 0 /\ prio[p] \in Class /\ quantaCount \in 0..18 /\ Served(p) \in Nat
    BY InitIInv, FrontFacts DEF Init, Class
  <2>2. Fits(0, Served(p), Phase(quantaCount, prio[p]), prio[p], 0)
    BY <2>1, PhaseFacts, FitsAtFirst
  <2> QED BY <2>1, <2>2 DEF Waits
<1> QED BY <1>1, Invariance, NextWaitInv, WaitInvBounds, PTL DEF Spec
=============================================================================

------------------------------- MODULE Kernel -------------------------------
(***************************************************************************)
(* The data structures of the PennOS kernel (kernel.c) and the calls that  *)
(* change them.  A kernel state is one record k, and every call is an      *)
(* operator from kernel states to kernel states, so that a handler which   *)
(* makes several calls is their composition and stays one atomic action.   *)
(*                                                                         *)
(* A process is an OBJECT 1..MaxProc, numbered in the order the pcbs enter *)
(* the process table; its pid is a field, since the code hands out pids    *)
(* from the back of the table and may hand one out again.  The table is a  *)
(* push-at-the-back list, so its order is the order of the objects.        *)
(***************************************************************************)
EXTENDS Integers

CONSTANT MaxProc        \* bound: how many pcbs are ever created

ASSUME MaxProcAssumption == MaxProc \in Nat \ {0}

Proc  == 1..MaxProc
Shell == 1              \* the pcb built by main(): the only one with pid 1
None  == 0              \* the NULL a search returns; no process running

Status  == {"READY", "BLOCKED", "STOPPED", "SIGNALED", "EXITED"}
Signal  == {"S_SIGSTOP", "S_SIGCONT", "S_SIGTERM"}
Program == {"shell", "busy", "cat", "sleep", "zombify", "zombie_child",
            "orphanify", "orphan_child", "kill"}

\* A linked list with an order that is not the order of the objects (the
\* zombies of a process, the asleep queue) is a set of stamped nodes.
Node == [at: Nat, of: Proc]

(***************************************************************************)
(* The pcb fields that only feed the log (waitedOn, pgid) and the file     *)
(* descriptors are left out.  queued is the union of the three ready       *)
(* queues: prio tells which of them a process is in.                       *)
(***************************************************************************)
KernelState ==
  [ made     : 0..MaxProc,            \* pcbs created so far
    table    : SUBSET Proc,           \* processTable
    pid      : [Proc -> Nat],
    ppid     : [Proc -> Nat],
    prog     : [Proc -> Program],     \* name, and the function it runs
    status   : [Proc -> Status],
    prev     : [Proc -> Status],      \* prevStatus
    prio     : [Proc -> Int],         \* priority_level
    ticks    : [Proc -> Int],         \* ticksLeft
    children : [Proc -> SUBSET Proc], \* child_pids: head = newest object
    zombies  : [Proc -> SUBSET Node], \* zombies: head = newest node
    queued   : SUBSET Proc,           \* in a queue of the scheduler
    asleep   : SUBSET Node,           \* asleep: front = oldest node
    stamp    : Nat,                   \* the stamp of the next node
    fg       : Proc,                  \* foregroundProcess
    power    : {"on", "off", "crashed"} ]

\* startKernel and main: the shell is process 1, high priority, foreground.
InitKernel ==
  [ made     |-> 1,
    table    |-> {Shell},
    pid      |-> [p \in Proc |-> IF p = Shell THEN 1 ELSE 0],
    ppid     |-> [p \in Proc |-> IF p = Shell THEN 1 ELSE 0],
    prog     |-> [p \in Proc |-> "shell"],
    status   |-> [p \in Proc |-> "READY"],
    prev     |-> [p \in Proc |-> "READY"],
    prio     |-> [p \in Proc |-> IF p = Shell THEN -1 ELSE 0],
    ticks    |-> [p \in Proc |-> -1],
    children |-> [p \in Proc |-> {}],
    zombies  |-> [p \in Proc |-> {}],
    queued   |-> {Shell},
    asleep   |-> {},
    stamp    |-> 0,
    fg       |-> Shell,
    power    |-> "on" ]

-----------------------------------------------------------------------------
(***************************************************************************)
(* Lists.                                                                  *)
(***************************************************************************)
\* queueSearch(processTable, pid): the first node with that pid, or NULL.
Search(k, x) ==
  IF \E p \in k.table : k.pid[p] = x
    THEN CHOOSE p \in k.table : /\ k.pid[p] = x
                                /\ \A q \in k.table : k.pid[q] = x => p <= q
    ELSE None

\* processTable->back.
Back(k) == CHOOSE p \in k.table : \A q \in k.table : q <= p

\* The head of a zombies list (addChild inserts at the head).
Head(L) == CHOOSE n \in L : \A m \in L : m.at <= n.at

\* Which of the three queues a priority selects.
Queue(prio) == CASE prio = -1 -> "high" [] prio = 0 -> "med" [] OTHER -> "low"

\* A ready queue is searched by pid.
SameSlot(k, p, q) == k.pid[p] = k.pid[q] /\ Queue(k.prio[p]) = Queue(k.prio[q])

\* removeFromScheduler: found by pid in the queue of p's own priority.
removeFromScheduler(k, p) ==
  [k EXCEPT !.queued = {q \in @ : ~SameSlot(k, p, q)}]

\* addChild(pid, parent->zombies).
PushZombie(k, parent, p) ==
  [k EXCEPT !.zombies[parent] = @ \cup {[at |-> k.stamp, of |-> p]},
            !.stamp = @ + 1]

\* The kernel dereferences a NULL search result.
Crash(k) == [k EXCEPT !.power = "crashed"]

-----------------------------------------------------------------------------
(***************************************************************************)
(* Creation: k_process_create(parent).  NextPid is read some statements    *)
(* before the pcb enters the table; the two operators let a specification  *)
(* put a clock tick between them.                                          *)
(***************************************************************************)
\* Mutants: the last pid again, and pids that count down.
NextPid_Same(k) == k.pid[Back(k)]
NextPid_Down(k) == k.pid[Back(k)] - 1

NextPid(k) == k.pid[Back(k)] + 1

k_process_create(k, parent, program, newPid) ==
  LET p == k.made + 1
  IN  [k EXCEPT !.made = p,
                !.table = @ \cup {p},
                !.pid[p] = newPid,
                !.ppid[p] = k.pid[parent],
                !.prog[p] = program,
                !.status[p] = "READY",
                !.prev[p] = "READY",
                !.prio[p] = 0,
                !.ticks[p] = -1,
                !.children = [q \in Proc |-> IF q = p THEN {}
                                             ELSE IF q = parent THEN @[q] \cup {p}
                                             ELSE @[q]],
                !.zombies[p] = {},
                !.queued = @ \cup {p}]

-----------------------------------------------------------------------------
(***************************************************************************)
(* Reaping.  Reap(k, D) is k_process_cleanup of every process of D: out of *)
(* the table, out of its ready queue, and its first entry out of the       *)
(* children and zombies lists of its parent, if the parent is (still) in   *)
(* the table.  The lists of a reaped process are kept: they drive          *)
(* clearZombiesAndChildren, which runs after the cleanup.                  *)
(***************************************************************************)
\* Mutants: the ready queues, or the parent's children list, are forgotten.
Reap_StillQueued(k, D) ==
  [k EXCEPT !.table = @ \ D,
            !.children = [p \in Proc |-> @[p] \ D]]
Reap_StillChild(k, D) ==
  [k EXCEPT !.table = @ \ D,
            !.queued = {q \in @ : \A d \in D : ~SameSlot(k, d, q)}]

Reap(k, D) ==
  LET left == k.table \ D
      gone(p) == {k.pid[d] : d \in {d \in D : k.ppid[d] = k.pid[p]}}
  IN  [k EXCEPT
         !.table = left,
         !.queued = {q \in @ : \A d \in D : ~SameSlot(k, d, q)},
         !.children = [p \in Proc |->
            IF p \in left
              THEN {c \in @[p] : \/ k.pid[c] \notin gone(p)
                                 \/ \E b \in @[p] : b > c /\ k.pid[b] = k.pid[c]}
              ELSE @[p]],
         !.zombies = [p \in Proc |->
            IF p \in left
              THEN {z \in @[p] : \/ k.pid[z.of] \notin gone(p)
                                 \/ \E y \in @[p] : /\ y.at > z.at
                                                    /\ k.pid[y.of] = k.pid[z.of]}
              ELSE @[p]]]

k_process_cleanup(k, p) ==
  LET n == Search(k, k.pid[p]) IN IF n = None THEN k ELSE Reap(k, {n})

\* The processes that the zombies and children lists of p lead to.
Heirs(k, p) ==
  {q \in k.table : \/ \E z \in k.zombies[p] : Search(k, k.pid[z.of]) = q
                   \/ \E c \in k.children[p] : Search(k, k.pid[c]) = q}

\* Everything the recursion of clearZombiesAndChildren(p) reaches: the least
\* set closed under Heirs.
Doomed(k, p) ==
  {q \in k.table :
     \A S \in SUBSET k.table :
        (\A r \in S \cup {p} : Heirs(k, r) \subseteq S) => q \in S}

clearZombiesAndChildren(k, p) == Reap(k, Doomed(k, p))

-----------------------------------------------------------------------------
(***************************************************************************)
(* Foreground and blocking.                                                *)
(***************************************************************************)
\* setForeground(pid): everyone but the shell blocks its parent.
setForeground(k, x) ==
  LET n == Search(k, x)
      parent == Search(k, k.ppid[n])
  IN  IF n = None THEN k
      ELSE IF k.pid[n] = 1 THEN [k EXCEPT !.fg = n]
      ELSE IF parent = None THEN Crash(k)
      ELSE [k EXCEPT !.fg = n, !.status[parent] = "BLOCKED"]

\* Mutant: the parent gets the processor back but not the terminal.
unblockParent_NoTerminal(k, x) ==
  LET parent == Search(k, x)
  IN  IF parent # None /\ k.status[parent] = "BLOCKED"
        THEN [k EXCEPT !.status[parent] = "READY"]
        ELSE k

\* unblockParent(ppid): a blocked parent is made ready and foreground.
unblockParent(k, x) ==
  LET parent == Search(k, x)
  IN  IF parent # None /\ k.status[parent] = "BLOCKED"
        THEN setForeground([k EXCEPT !.status[parent] = "READY"], x)
        ELSE k

\* Mutant: every process unblocks its parent.
unblockIfForeground_Any(k, p) == unblockParent(k, k.ppid[p])

\* The test in front of most calls of unblockParent.
unblockIfForeground(k, p) ==
  IF k.pid[p] = k.pid[k.fg] THEN unblockParent(k, k.ppid[p]) ELSE k

\* Mutants: p stays in the ready queue; its descendants are left behind.
dealWithUnwaitedProcess_StillQueued(k, p) ==
  LET parent == Search(k, k.ppid[p])
  IN  IF parent = None
        THEN Crash(k)
        ELSE clearZombiesAndChildren(PushZombie(k, parent, p), p)
dealWithUnwaitedProcess_NoHeirs(k, p) ==
  LET k1 == removeFromScheduler(k, p)
      parent == Search(k1, k.ppid[p])
  IN  IF parent = None THEN Crash(k1) ELSE PushZombie(k1, parent, p)

\* dealWithUnwaitedProcess: p leaves the ready queue, becomes a zombie of its
\* parent, and takes its own descendants with it.
dealWithUnwaitedProcess(k, p) ==
  LET k1 == removeFromScheduler(k, p)
      parent == Search(k1, k.ppid[p])
  IN  IF parent = None
        THEN Crash(k1)
        ELSE clearZombiesAndChildren(PushZombie(k1, parent, p), p)

-----------------------------------------------------------------------------
(***************************************************************************)
(* Signals: k_process_kill up to the context switch that ends it.          *)
(***************************************************************************)
\* Mutants: ^C does not unblock the parent, ^Z does not, and S_SIGCONT does not
\* ask whether p is stopped.
k_process_kill_TermNoUnblock(k, p, signal) ==
  IF signal # "S_SIGTERM" THEN k
  ELSE dealWithUnwaitedProcess([k EXCEPT !.status[p] = "SIGNALED"], p)
k_process_kill_StopNoUnblock(k, p, signal) ==
  IF signal = "S_SIGSTOP" THEN [k EXCEPT !.status[p] = "STOPPED"] ELSE k
k_process_kill_ContAny(k, p, signal) ==
  IF signal = "S_SIGCONT" THEN [k EXCEPT !.status[p] = "READY"]
  ELSE IF signal = "S_SIGSTOP"
    THEN unblockIfForeground([k EXCEPT !.status[p] = "STOPPED"], p)
  ELSE dealWithUnwaitedProcess(
         unblockIfForeground([k EXCEPT !.status[p] = "SIGNALED"], p), p)

k_process_kill(k, p, signal) ==
  CASE signal = "S_SIGSTOP" ->
         unblockIfForeground([k EXCEPT !.status[p] = "STOPPED"], p)
    [] signal = "S_SIGCONT" ->
         IF k.status[p] # "STOPPED" THEN k
         ELSE [k EXCEPT !.status[p] =
                          IF k.prog[p] = "sleep" THEN "BLOCKED" ELSE "READY"]
    [] OTHER ->
         dealWithUnwaitedProcess(
           unblockIfForeground([k EXCEPT !.status[p] = "SIGNALED"], p), p)

-----------------------------------------------------------------------------
(***************************************************************************)
(* The sleep queue.  decrementTicks runs on every entry to the scheduler.  *)
(* It walks the list from the front; the first sleeper found finished is   *)
(* retired, and unlinking it clears its next pointer, which ends the walk. *)
(***************************************************************************)
\* addToAsleep.
addToAsleep(k, p) ==
  [k EXCEPT !.asleep = @ \cup {[at |-> k.stamp, of |-> p]}, !.stamp = @ + 1]

Finished(k) ==
  {n \in k.asleep : k.ticks[n.of] = 0 /\ k.status[n.of] # "EXITED"}

\* Mutant: the status is not changed.
RetireSleeper_KeepsStatus(k, n) ==
  LET p == n.of
      k2 == [dealWithUnwaitedProcess(k, p) EXCEPT !.asleep = @ \ {n}]
  IN  unblockIfForeground(k2, p)

\* The body of the else-branch: sleeper n has no ticks left.
RetireSleeper(k, n) ==
  LET p == n.of
      k1 == IF k.status[p] = "SIGNALED" THEN k
            ELSE [k EXCEPT !.status[p] = "EXITED"]
      parent == Search(k1, k1.ppid[p])
      k2 == [dealWithUnwaitedProcess(k1, p) EXCEPT !.asleep = @ \ {n}]
  IN  IF parent # None /\ k.pid[p] = k.pid[k.fg]
        THEN unblockParent(k2, k.pid[parent])
        ELSE k2

\* One tick for the sleepers in front of the first finished one.
CountDown(k) ==
  LET first(n) == \A m \in Finished(k) : n.at < m.at
      awake == {n.of : n \in {n \in k.asleep : first(n)}}
  IN  [k EXCEPT !.ticks = [p \in Proc |->
         IF p \in awake /\ @[p] > 0 /\ k.status[p] # "STOPPED"
           THEN @[p] - 1 ELSE @[p]]]

decrementTicks(k) ==
  IF Finished(k) = {}
    THEN CountDown(k)
    ELSE LET n == CHOOSE n \in Finished(k) : \A m \in Finished(k) : n.at <= m.at
         IN  RetireSleeper(CountDown(k), n)

-----------------------------------------------------------------------------
(***************************************************************************)
(* Scheduling.  Which ready process runs next is left open here: the       *)
(* module RoundRobin has the three queues and their quantum table.         *)
(***************************************************************************)
Ready(k) == {p \in k.queued : k.status[p] = "READY"}

\* getNextProcess, or the idle process when it returns NULL.
Runnable(k) == IF Ready(k) = {} THEN {None} ELSE Ready(k)

\* Mutant: the parent is not unblocked.
RetireReturned_NoUnblock(k, p) ==
  IF k.ticks[p] > 0 THEN k
  ELSE dealWithUnwaitedProcess([k EXCEPT !.status[p] = "EXITED"], p)

\* What schedule() does for a process whose function returned.
RetireReturned(k, p) ==
  IF k.ticks[p] > 0 THEN k
  ELSE unblockIfForeground(
         dealWithUnwaitedProcess([k EXCEPT !.status[p] = "EXITED"], p), p)

-----------------------------------------------------------------------------
(***************************************************************************)
(* What every call of the kernel relies on and preserves: pids ascend in   *)
(* the table, 1 is the pid of the shell alone, the ready queues and the    *)
(* children lists lead into the table, no list leads to the shell, and no  *)
(* node has a stamp from the future.                                       *)
(***************************************************************************)
KernelInv(k) ==
  /\ k \in KernelState
  /\ Shell \in k.table /\ k.table \subseteq 1..k.made
  /\ \A p \in Proc : k.pid[p] = 1 <=> p = Shell
  /\ \A p, q \in k.table : p < q => k.pid[p] < k.pid[q]
  /\ k.queued \subseteq k.table
  /\ \A p \in k.table : \A c \in k.children[p] :
        c \in k.table /\ k.ppid[c] = k.pid[p]
  /\ \A p \in Proc : Shell \notin k.children[p]
  /\ \A p \in Proc : \A z \in k.zombies[p] : z.at < k.stamp /\ z.of # Shell
  /\ \A n \in k.asleep : n.at < k.stamp /\ n.of # Shell
=============================================================================

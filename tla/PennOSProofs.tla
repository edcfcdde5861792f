---------------------------- MODULE PennOSProofs ----------------------------
(***************************************************************************)
(* Invariants of PennOS in any instance without the window "link". IInv is *)
(* split into a part about the kernel, KernelInv, and a part about the     *)
(* shell and the places. First every kernel call and every user call is    *)
(* shown to preserve KernelInv: one lemma per operator of modules Kernel   *)
(* and UserCalls, from the helpers on lists up to p_waitpid. Where the pid *)
(* of a process matters, the proofs need that pids ascend (so that a       *)
(* search finds the process that was meant); where the shell matters, that *)
(* no list ever leads to it. Then every action has a lemma of its own that *)
(* puts the two parts together. The last third is about the scheduler.     *)
(***************************************************************************)
EXTENDS PennOS, TLAPS, WellFoundedInduction

-----------------------------------------------------------------------------
(***************************************************************************)
(* The kernel.                                                             *)
(***************************************************************************)
\* A nonempty set of naturals has a least element.
LEMMA LeastNat ==
  ASSUME NEW T, T \subseteq Nat, T # {}
  PROVE  \E x \in T : \A y \in T : x <= y
<1> DEFINE R == OpToRel(<, Nat)
<1>1. PICK x \in T : \A y \in T : ~ (<<y, x>> \in R)
  <2>1. IsWellFoundedOn(R, Nat)
    BY NatLessThanWellFounded
  <2> HIDE DEF R
  <2> QED BY <2>1, WFMin
<1>2. \A y \in T : <<y, x>> \in R <=> y < x
  BY DEF OpToRel
<1> HIDE DEF R
<1>3. \A y \in T : x <= y
  <2> TAKE y \in T
  <2>1. x \in Nat /\ y \in Nat /\ ~ (y < x)
    BY <1>1, <1>2
  <2> QED BY <2>1
<1> QED BY <1>3

\* A nonempty bounded set of naturals has a greatest element.
LEMMA GreatestNat ==
  ASSUME NEW T, T \subseteq Nat, T # {}, NEW b \in Nat, \A y \in T : y <= b
  PROVE  \E x \in T : \A y \in T : y <= x
<1> DEFINE U == {b - y : y \in T}
<1>1. U \subseteq Nat
  <2>1. \A y \in T : b - y \in Nat
    <3> TAKE y \in T
    <3>1. y \in Nat /\ y <= b
      OBVIOUS
    <3> QED BY <3>1
  <2> QED BY <2>1
<1>2. U # {}
  BY Zenon
<1>3. PICK u \in U : \A v \in U : u <= v
  <2> HIDE DEF U
  <2> QED BY <1>1, <1>2, LeastNat
<1>4. PICK x \in T : u = b - x
  BY <1>3
<1>5. \A y \in T : y <= x
  <2> TAKE y \in T
  <2>1. b - y \in U
    OBVIOUS
  <2>2. b - x <= b - y
    BY <1>3, <1>4, <2>1
  <2>3. x \in Nat /\ y \in Nat
    OBVIOUS
  <2> QED BY <2>2, <2>3
<1> QED BY <1>5

-----------------------------------------------------------------------------
\* queueSearch finds a process of the table with the given pid, or nothing.
LEMMA SearchResult ==
  ASSUME NEW g, KernelInv(g), NEW x
  PROVE  /\ Search(g, x) \in g.table \cup {None}
         /\ Search(g, x) # None => g.pid[Search(g, x)] = x
<1>1. CASE \E p \in g.table : g.pid[p] = x
  <2>1. PICK p \in g.table : g.pid[p] = x
    BY <1>1
  <2>2. ASSUME NEW q \in g.table, g.pid[q] = x PROVE p <= q
    <3>1. p \in Proc /\ q \in Proc /\ g.pid[p] \in Nat /\ g.pid[q] \in Nat
      BY DEF KernelInv, KernelState
    <3>2. q < p => g.pid[q] < g.pid[p]
      BY DEF KernelInv
    <3> QED BY <2>1, <2>2, <3>1, <3>2, MaxProcAssumption DEF Proc
  <2> QED BY <1>1, <2>1, <2>2 DEF Search
<1>2. CASE ~ \E p \in g.table : g.pid[p] = x
  BY <1>2 DEF Search
<1> QED BY <1>1, <1>2

\* A pid other than 1 never leads to the shell.
LEMMA SearchNotShell ==
  ASSUME NEW g, KernelInv(g), NEW x, x # 1
  PROVE  Search(g, x) # Shell
<1>1. Search(g, x) # None => g.pid[Search(g, x)] = x
  BY SearchResult
<1>2. Shell # None /\ Shell \in Proc /\ g.pid[Shell] = 1
  BY MaxProcAssumption DEF KernelInv, Shell, None, Proc
<1> QED BY <1>1, <1>2

\* The types the other lemmas take from KernelInv.
LEMMA TableFacts ==
  ASSUME NEW g, KernelInv(g)
  PROVE  /\ g.table \subseteq Proc
         /\ None \notin Proc /\ Shell \in Proc
         /\ g.fg \in Proc
         /\ \A p \in Proc : g.pid[p] \in Nat /\ g.ppid[p] \in Nat
         /\ \A p \in Proc : p # Shell => g.pid[p] # 1
<1>1. g \in KernelState
  BY DEF KernelInv
<1>2. None \notin Proc /\ Shell \in Proc
  BY MaxProcAssumption DEF Proc, Shell, None
<1>3. g.table \subseteq Proc /\ g.fg \in Proc
  BY <1>1 DEF KernelState
<1>4. \A p \in Proc : g.pid[p] \in Nat /\ g.ppid[p] \in Nat
  BY <1>1 DEF KernelState
<1>5. \A p \in Proc : p # Shell => g.pid[p] # 1
  BY DEF KernelInv
<1> QED BY <1>2, <1>3, <1>4, <1>5

-----------------------------------------------------------------------------
\* A new status, a remembered status, the power, a crash, and another
\* foreground process leave the invariant alone.
LEMMA StatusInv ==
  ASSUME NEW g, KernelInv(g), NEW p \in Proc, NEW s \in Status
  PROVE  KernelInv([g EXCEPT !.status[p] = s])
BY DEF KernelInv, KernelState

\* The same for prevStatus.
LEMMA PrevInv ==
  ASSUME NEW g, KernelInv(g), NEW p \in Proc
  PROVE  KernelInv([g EXCEPT !.prev[p] = g.status[p]])
BY DEF KernelInv, KernelState

\* The same for the end of the program.
LEMMA PowerInv ==
  ASSUME NEW g, KernelInv(g), NEW s \in {"on", "off", "crashed"}
  PROVE  KernelInv([g EXCEPT !.power = s])
BY DEF KernelInv, KernelState

\* The same for a failed dereference.
LEMMA CrashInv ==
  ASSUME NEW g, KernelInv(g)
  PROVE  KernelInv(Crash(g))
BY PowerInv DEF Crash

\* The same for the foreground process.
LEMMA ForegroundInv ==
  ASSUME NEW g, KernelInv(g), NEW p \in Proc
  PROVE  KernelInv([g EXCEPT !.fg = p])
BY DEF KernelInv, KernelState

\* Leaving the ready queue.
LEMMA removeFromSchedulerInv ==
  ASSUME NEW g, KernelInv(g), NEW p \in Proc
  PROVE  KernelInv(removeFromScheduler(g, p))
BY DEF KernelInv, KernelState, removeFromScheduler

\* A new zombie gets a stamp no other node has reached.
LEMMA PushZombieInv ==
  ASSUME NEW g, KernelInv(g), NEW parent \in Proc, NEW p \in Proc, p # Shell
  PROVE  KernelInv(PushZombie(g, parent, p))
<1> DEFINE k1 == PushZombie(g, parent, p)
           z == [at |-> g.stamp, of |-> p]
<1>1. z \in Node /\ z.at < g.stamp + 1 /\ z.of # Shell
  BY DEF KernelInv, KernelState, Node
<1>2. k1 \in KernelState
  <2>1. g.zombies[parent] \cup {z} \in SUBSET Node
    BY <1>1 DEF KernelInv, KernelState
  <2> DEFINE t == g.stamp + 1
  <2>2. t \in Nat
    BY DEF KernelInv, KernelState
  <2> HIDE DEF z, t
  <2>3. [g EXCEPT !.zombies[parent] = @ \cup {z}, !.stamp = t] \in KernelState
    BY <2>1, <2>2 DEF KernelInv, KernelState
  <2> QED BY <2>3 DEF z, t, PushZombie
<1>3. ASSUME NEW q \in Proc, NEW y \in k1.zombies[q]
      PROVE  y.at < k1.stamp /\ y.of # Shell
  <2>1. k1.stamp = g.stamp + 1 /\ k1.zombies[q] \subseteq g.zombies[q] \cup {z}
    BY DEF PushZombie, KernelInv, KernelState
  <2>2. CASE y = z
    BY <1>1, <2>1, <2>2
  <2>3. CASE y \in g.zombies[q]
    <3>1. y.at \in Nat /\ g.stamp \in Nat /\ y.at < g.stamp /\ y.of # Shell
      BY <2>3 DEF KernelInv, KernelState, Node
    <3> QED BY <3>1, <2>1
  <2> QED BY <1>3, <2>1, <2>2, <2>3
<1>4. ASSUME NEW n \in k1.asleep PROVE n.at < k1.stamp /\ n.of # Shell
  <2>1. n.at \in Nat /\ g.stamp \in Nat /\ n.at < g.stamp /\ n.of # Shell
    BY DEF KernelInv, KernelState, Node, PushZombie
  <2> QED BY <2>1 DEF PushZombie, KernelInv, KernelState
<1>5. /\ k1.made = g.made /\ k1.table = g.table /\ k1.pid = g.pid
      /\ k1.ppid = g.ppid /\ k1.queued = g.queued /\ k1.children = g.children
  BY DEF PushZombie, KernelInv, KernelState
<1>6. KernelInv(k1)
  <2> HIDE DEF k1
  <2> QED BY <1>2, <1>3, <1>4, <1>5 DEF KernelInv
<1> QED BY <1>6

\* So does a new sleeper.
LEMMA addToAsleepInv ==
  ASSUME NEW g, KernelInv(g), NEW p \in Proc, p # Shell
  PROVE  KernelInv(addToAsleep(g, p))
<1> DEFINE k1 == addToAsleep(g, p)
           z == [at |-> g.stamp, of |-> p]
<1>1. z \in Node /\ z.at < g.stamp + 1 /\ z.of # Shell
  BY DEF KernelInv, KernelState, Node
<1>2. k1 \in KernelState
  <2>1. g.asleep \cup {z} \in SUBSET Node
    BY <1>1 DEF KernelInv, KernelState
  <2> DEFINE t == g.stamp + 1
  <2>2. t \in Nat
    BY DEF KernelInv, KernelState
  <2> HIDE DEF z, t
  <2>3. [g EXCEPT !.asleep = @ \cup {z}, !.stamp = t] \in KernelState
    BY <2>1, <2>2 DEF KernelInv, KernelState
  <2> QED BY <2>3 DEF z, t, addToAsleep
<1>3. ASSUME NEW y \in k1.asleep
      PROVE  y.at < k1.stamp /\ y.of # Shell
  <2>1. k1.stamp = g.stamp + 1 /\ k1.asleep \subseteq g.asleep \cup {z}
    BY DEF addToAsleep, KernelInv, KernelState
  <2>2. CASE y = z
    BY <1>1, <2>1, <2>2
  <2>3. CASE y \in g.asleep
    <3>1. y.at \in Nat /\ g.stamp \in Nat /\ y.at < g.stamp /\ y.of # Shell
      BY <2>3 DEF KernelInv, KernelState, Node
    <3> QED BY <3>1, <2>1
  <2> QED BY <1>3, <2>1, <2>2, <2>3
<1>4. ASSUME NEW q \in Proc, NEW y \in k1.zombies[q]
      PROVE  y.at < k1.stamp /\ y.of # Shell
  <2>1. y.at \in Nat /\ g.stamp \in Nat /\ y.at < g.stamp /\ y.of # Shell
    BY DEF KernelInv, KernelState, Node, addToAsleep
  <2> QED BY <2>1 DEF addToAsleep, KernelInv, KernelState
<1>5. /\ k1.made = g.made /\ k1.table = g.table /\ k1.pid = g.pid
      /\ k1.ppid = g.ppid /\ k1.queued = g.queued /\ k1.children = g.children
  BY DEF addToAsleep, KernelInv, KernelState
<1>6. KernelInv(k1)
  <2> HIDE DEF k1
  <2> QED BY <1>2, <1>3, <1>4, <1>5 DEF KernelInv
<1> QED BY <1>6

-----------------------------------------------------------------------------
\* Reaping any set of processes but the shell: what leaves the table leaves the
\* ready queues and the children lists with it, because pids are unique.
LEMMA ReapInv ==
  ASSUME NEW g, KernelInv(g), NEW D \in SUBSET g.table, Shell \notin D
  PROVE  KernelInv(Reap(g, D))
<1> DEFINE k1 == Reap(g, D)
<1>1. /\ k1.made = g.made /\ k1.pid = g.pid /\ k1.ppid = g.ppid
      /\ k1.table = g.table \ D
      /\ k1.asleep = g.asleep /\ k1.stamp = g.stamp
  BY DEF Reap, KernelInv, KernelState
<1>2. /\ k1.children \in [Proc -> SUBSET Proc]
      /\ \A p \in Proc : k1.children[p] \subseteq g.children[p]
  BY DEF Reap, KernelInv, KernelState
<1>3. /\ k1.zombies \in [Proc -> SUBSET Node]
      /\ \A p \in Proc : k1.zombies[p] \subseteq g.zombies[p]
  BY DEF Reap, KernelInv, KernelState
<1>4. k1.queued \subseteq g.queued
  BY DEF Reap, KernelInv, KernelState
<1>5. k1.queued \cap D = {}
  BY DEF Reap, KernelInv, KernelState, SameSlot
<1>6. k1 \in KernelState
  <2>1. k1 = [g EXCEPT !.table = k1.table, !.queued = k1.queued,
                       !.children = k1.children, !.zombies = k1.zombies]
    BY DEF Reap, KernelInv, KernelState
  <2>2. k1.table \in SUBSET Proc /\ k1.queued \in SUBSET Proc
    BY <1>1, <1>4 DEF KernelInv, KernelState
  <2> HIDE DEF k1
  <2>3. ASSUME NEW T \in SUBSET Proc, NEW Q \in SUBSET Proc,
               NEW C \in [Proc -> SUBSET Proc], NEW Z \in [Proc -> SUBSET Node]
        PROVE  [g EXCEPT !.table = T, !.queued = Q, !.children = C, !.zombies = Z]
                 \in KernelState
    BY DEF KernelInv, KernelState
  <2>4. [g EXCEPT !.table = k1.table, !.queued = k1.queued,
                  !.children = k1.children, !.zombies = k1.zombies]
          \in KernelState
    BY <2>2, <2>3, <1>2, <1>3
  <2> QED BY <2>1, <2>4, Zenon
<1>7. ASSUME NEW p \in k1.table, NEW c \in k1.children[p]
      PROVE  c \in k1.table /\ k1.ppid[c] = k1.pid[p]
  <2>1. p \in g.table /\ p \in Proc /\ p \in g.table \ D
    BY <1>1 DEF KernelInv, KernelState
  <2>2. c \in g.children[p] /\ c \in g.table /\ g.ppid[c] = g.pid[p]
    BY <1>2, <2>1 DEF KernelInv
  <2>3. c \notin D
    <3>1. SUFFICES ASSUME c \in D PROVE FALSE
      OBVIOUS
    <3>2. \E b \in g.children[p] : b > c /\ g.pid[b] = g.pid[c]
      BY <2>1, <2>2, <3>1 DEF Reap, KernelInv, KernelState
    <3>3. PICK b \in g.children[p] : b > c /\ g.pid[b] = g.pid[c]
      BY <3>2
    <3>4. b \in g.table
      BY <2>1 DEF KernelInv
    <3>5. b \in Proc /\ c \in Proc /\ g.pid[b] \in Nat
      BY <3>4, <2>2, TableFacts
    <3>6. g.pid[c] < g.pid[b]
      BY <3>3, <3>4, <3>5, <2>2, MaxProcAssumption DEF KernelInv, Proc
    <3> QED BY <3>3, <3>5, <3>6
  <2> QED BY <1>1, <2>2, <2>3
<1>8. KernelInv(k1)
  <2> HIDE DEF k1
  <2>1. Shell \in k1.table /\ k1.table \subseteq 1..k1.made
    BY <1>1 DEF KernelInv
  <2>2. k1.queued \subseteq k1.table
    BY <1>1, <1>4, <1>5 DEF KernelInv
  <2>3. \A p \in Proc : Shell \notin k1.children[p]
    BY <1>2 DEF KernelInv
  <2>4. \A p \in Proc : \A z \in k1.zombies[p] : z.at < k1.stamp /\ z.of # Shell
    BY <1>1, <1>3 DEF KernelInv
  <2> QED BY <1>1, <1>6, <1>7, <2>1, <2>2, <2>3, <2>4 DEF KernelInv
<1> QED BY <1>8

\* k_process_cleanup of one process.
LEMMA k_process_cleanupInv ==
  ASSUME NEW g, KernelInv(g), NEW p \in Proc, p # Shell
  PROVE  KernelInv(k_process_cleanup(g, p))
<1> DEFINE n == Search(g, g.pid[p])
<1>1. n \in g.table \cup {None}
  BY SearchResult
<1>2. n # Shell
  BY TableFacts, SearchNotShell
<1>3. n # None => {n} \in SUBSET g.table /\ Shell \notin {n}
  BY <1>1, <1>2
<1> HIDE DEF n
<1>4. n # None => KernelInv(Reap(g, {n}))
  BY <1>3, ReapInv
<1> QED BY <1>4 DEF n, k_process_cleanup

\* No zombies or children list leads to the shell ...
LEMMA HeirsNotShell ==
  ASSUME NEW g, KernelInv(g), NEW p \in Proc
  PROVE  Heirs(g, p) \subseteq g.table \ {Shell}
<1>1. ASSUME NEW z \in g.zombies[p] PROVE Search(g, g.pid[z.of]) # Shell
  <2>1. z.of \in Proc /\ z.of # Shell
    BY DEF KernelInv, KernelState, Node
  <2> QED BY <2>1, TableFacts, SearchNotShell
<1>2. ASSUME NEW c \in g.children[p] PROVE Search(g, g.pid[c]) # Shell
  <2>1. c \in Proc /\ c # Shell
    BY DEF KernelInv, KernelState
  <2> QED BY <2>1, TableFacts, SearchNotShell
<1> QED BY <1>1, <1>2 DEF Heirs

\* ... so the recursion of clearZombiesAndChildren never reaches it.
LEMMA DoomedNotShell ==
  ASSUME NEW g, KernelInv(g), NEW p \in Proc
  PROVE  Doomed(g, p) \in SUBSET g.table /\ Shell \notin Doomed(g, p)
<1> DEFINE S == g.table \ {Shell}
<1>1. \A r \in S \cup {p} : Heirs(g, r) \subseteq S
  BY HeirsNotShell, TableFacts
<1>2. S \in SUBSET g.table
  OBVIOUS
<1>3. Doomed(g, p) \subseteq S
  BY <1>1, <1>2 DEF Doomed
<1> QED BY <1>2, <1>3

\* clearZombiesAndChildren.
LEMMA clearZombiesAndChildrenInv ==
  ASSUME NEW g, KernelInv(g), NEW p \in Proc
  PROVE  KernelInv(clearZombiesAndChildren(g, p))
BY DoomedNotShell, ReapInv DEF clearZombiesAndChildren

-----------------------------------------------------------------------------
\* setForeground.
LEMMA setForegroundInv ==
  ASSUME NEW g, KernelInv(g), NEW x
  PROVE  KernelInv(setForeground(g, x))
<1> DEFINE n == Search(g, x)
           parent == Search(g, g.ppid[n])
<1>1. CASE n = None
  BY <1>1 DEF setForeground
<1>2. CASE n # None
  <2>1. n \in Proc
    BY <1>2, SearchResult, TableFacts
  <2>2. parent = None \/ parent \in Proc
    BY SearchResult, TableFacts
  <2>3. KernelInv(Crash(g))
    BY CrashInv
  <2>4. KernelInv([g EXCEPT !.fg = n])
    BY <2>1, ForegroundInv
  <2>5. parent # None => KernelInv([g EXCEPT !.fg = n, !.status[parent] = "BLOCKED"])
    <3>1. SUFFICES ASSUME parent \in Proc
                   PROVE  KernelInv([g EXCEPT !.fg = n, !.status[parent] = "BLOCKED"])
      BY <2>2
    <3> DEFINE k1 == [g EXCEPT !.fg = n]
    <3>2. KernelInv(k1)
      BY <2>4
    <3>3. "BLOCKED" \in Status
      BY DEF Status
    <3>4. [g EXCEPT !.fg = n, !.status[parent] = "BLOCKED"]
            = [k1 EXCEPT !.status[parent] = "BLOCKED"]
      BY DEF KernelInv, KernelState
    <3> HIDE DEF k1, parent
    <3>5. KernelInv([k1 EXCEPT !.status[parent] = "BLOCKED"])
      BY <3>1, <3>2, <3>3, StatusInv
    <3> QED BY <3>4, <3>5
  <2> QED BY <1>2, <2>3, <2>4, <2>5 DEF setForeground
<1> QED BY <1>1, <1>2

\* unblockParent.
LEMMA unblockParentInv ==
  ASSUME NEW g, KernelInv(g), NEW x
  PROVE  KernelInv(unblockParent(g, x))
<1> DEFINE parent == Search(g, x)
           k1 == [g EXCEPT !.status[parent] = "READY"]
<1>1. ASSUME parent # None PROVE KernelInv(setForeground(k1, x))
  <2>1. parent \in Proc
    BY <1>1, SearchResult, TableFacts
  <2>2. "READY" \in Status
    BY DEF Status
  <2> HIDE DEF parent
  <2>3. KernelInv(k1)
    BY <2>1, <2>2, StatusInv
  <2> HIDE DEF k1
  <2> QED BY <2>3, setForegroundInv
<1> QED BY <1>1 DEF unblockParent

\* unblockParent behind its test.
LEMMA unblockIfForegroundInv ==
  ASSUME NEW g, KernelInv(g), NEW p
  PROVE  KernelInv(unblockIfForeground(g, p))
BY unblockParentInv DEF unblockIfForeground

\* dealWithUnwaitedProcess of any process but the shell.
LEMMA dealWithUnwaitedProcessInv ==
  ASSUME NEW g, KernelInv(g), NEW p \in Proc, p # Shell
  PROVE  KernelInv(dealWithUnwaitedProcess(g, p))
<1> DEFINE k1 == removeFromScheduler(g, p)
           parent == Search(k1, g.ppid[p])
           k2 == PushZombie(k1, parent, p)
<1>1. KernelInv(k1)
  BY removeFromSchedulerInv
<1> HIDE DEF k1
<1>2. KernelInv(Crash(k1))
  BY <1>1, CrashInv
<1>3. parent = None \/ parent \in Proc
  BY <1>1, SearchResult, TableFacts
<1> HIDE DEF parent
<1>4. parent # None => KernelInv(k2)
  BY <1>1, <1>3, PushZombieInv
<1> HIDE DEF k2
<1>5. parent # None => KernelInv(clearZombiesAndChildren(k2, p))
  BY <1>4, clearZombiesAndChildrenInv
<1> QED BY <1>2, <1>5 DEF dealWithUnwaitedProcess, k1, k2, parent

\* k_process_kill; the shell is stopped by itself, but never terminated.
LEMMA k_process_killInv ==
  ASSUME NEW g, KernelInv(g), NEW p \in Proc, NEW signal \in Signal,
         p # Shell \/ signal # "S_SIGTERM"
  PROVE  KernelInv(k_process_kill(g, p, signal))
<1>1. {"STOPPED", "BLOCKED", "READY", "SIGNALED"} \subseteq Status
  BY DEF Status
<1>2. CASE signal = "S_SIGSTOP"
  <2>1. KernelInv([g EXCEPT !.status[p] = "STOPPED"])
    BY <1>1, StatusInv
  <2>2. KernelInv(unblockIfForeground([g EXCEPT !.status[p] = "STOPPED"], p))
    BY <2>1, unblockIfForegroundInv
  <2> QED BY <1>2, <2>2 DEF k_process_kill
<1>3. CASE signal = "S_SIGCONT"
  <2>1. KernelInv([g EXCEPT !.status[p] = "BLOCKED"])
    BY <1>1, StatusInv
  <2>2. KernelInv([g EXCEPT !.status[p] = "READY"])
    BY <1>1, StatusInv
  <2>3. k_process_kill(g, p, signal) \in
          {g, [g EXCEPT !.status[p] = "BLOCKED"], [g EXCEPT !.status[p] = "READY"]}
    BY <1>3 DEF k_process_kill
  <2> QED BY <2>1, <2>2, <2>3
<1>4. CASE signal = "S_SIGTERM"
  <2> DEFINE k1 == [g EXCEPT !.status[p] = "SIGNALED"]
             k2 == unblockIfForeground(k1, p)
  <2>1. KernelInv(k1)
    BY <1>1, StatusInv
  <2> HIDE DEF k1
  <2>2. KernelInv(k2)
    BY <2>1, unblockIfForegroundInv
  <2> HIDE DEF k2
  <2>3. KernelInv(dealWithUnwaitedProcess(k2, p))
    BY <1>4, <2>2, dealWithUnwaitedProcessInv
  <2> QED BY <1>4, <2>3 DEF k_process_kill, k1, k2
<1> QED BY <1>2, <1>3, <1>4 DEF Signal

\* The end of a sleeper, even one that has been reaped before.
LEMMA RetireSleeperInv ==
  ASSUME NEW g, KernelInv(g), NEW n \in g.asleep
  PROVE  KernelInv(RetireSleeper(g, n))
<1> DEFINE p == n.of
           k1 == IF g.status[p] = "SIGNALED" THEN g
                 ELSE [g EXCEPT !.status[p] = "EXITED"]
           parent == Search(k1, k1.ppid[p])
           d == dealWithUnwaitedProcess(k1, p)
           k2 == [d EXCEPT !.asleep = @ \ {n}]
<1>1. p \in Proc /\ p # Shell
  BY DEF KernelInv, KernelState, Node
<1>2. "EXITED" \in Status
  BY DEF Status
<1> HIDE DEF p
<1>3. KernelInv(k1)
  BY <1>1, <1>2, StatusInv
<1> HIDE DEF k1
<1>4. KernelInv(d)
  BY <1>1, <1>3, dealWithUnwaitedProcessInv
<1> HIDE DEF d
<1>5. KernelInv(k2)
  BY <1>4 DEF KernelInv, KernelState
<1> HIDE DEF k2
<1>6. \A x : KernelInv(unblockParent(k2, x))
  BY <1>5, unblockParentInv
<1> HIDE DEF parent
<1>7. KernelInv(IF parent # None /\ g.pid[p] = g.pid[g.fg]
                  THEN unblockParent(k2, g.pid[parent]) ELSE k2)
  BY <1>5, <1>6
<1> QED BY <1>7 DEF RetireSleeper, p, k1, parent, d, k2

\* Counting down changes no list.
LEMMA CountDownInv ==
  ASSUME NEW g, KernelInv(g)
  PROVE  KernelInv(CountDown(g)) /\ CountDown(g).asleep = g.asleep
<1> DEFINE first(n) == \A m \in Finished(g) : n.at < m.at
           awake == {n.of : n \in {n \in g.asleep : first(n)}}
           ticks == [p \in Proc |->
                       IF p \in awake /\ g.ticks[p] > 0 /\ g.status[p] # "STOPPED"
                         THEN g.ticks[p] - 1 ELSE g.ticks[p]]
<1>1. g.ticks \in [Proc -> Int]
  BY DEF KernelInv, KernelState
<1>2. CountDown(g) = [g EXCEPT !.ticks = ticks]
  BY DEF CountDown
<1> HIDE DEF awake
<1>3. ticks \in [Proc -> Int]
  BY <1>1
<1> HIDE DEF ticks
<1>4. KernelInv([g EXCEPT !.ticks = ticks]) /\ [g EXCEPT !.ticks = ticks].asleep = g.asleep
  BY <1>3 DEF KernelInv, KernelState
<1> QED BY <1>2, <1>4

\* decrementTicks.
LEMMA decrementTicksInv ==
  ASSUME NEW g, KernelInv(g)
  PROVE  KernelInv(decrementTicks(g))
<1>1. KernelInv(CountDown(g)) /\ CountDown(g).asleep = g.asleep
  BY CountDownInv
<1>2. CASE Finished(g) = {}
  BY <1>1, <1>2 DEF decrementTicks
<1>3. CASE Finished(g) # {}
  <2> DEFINE T == {n.at : n \in Finished(g)}
             first == CHOOSE n \in Finished(g) : \A m \in Finished(g) : n.at <= m.at
  <2>1. T \subseteq Nat /\ T # {}
    BY <1>3 DEF Finished, KernelInv, KernelState, Node
  <2>2. PICK x \in T : \A y \in T : x <= y
    <3> HIDE DEF T
    <3> QED BY <2>1, LeastNat
  <2>3. \E n \in Finished(g) : \A m \in Finished(g) : n.at <= m.at
    BY <2>2
  <2>4. first \in Finished(g)
    BY <2>3
  <2>5. first \in CountDown(g).asleep
    BY <1>1, <2>4 DEF Finished
  <2> HIDE DEF first
  <2>6. KernelInv(RetireSleeper(CountDown(g), first))
    BY <1>1, <2>5, RetireSleeperInv
  <2> QED BY <1>3, <2>6 DEF decrementTicks, first
<1> QED BY <1>2, <1>3

\* The scheduler picks a process or the idle context.
LEMMA RunnableType ==
  ASSUME NEW g, KernelInv(g)
  PROVE  Runnable(g) \subseteq Proc \cup {None}
BY DEF KernelInv, KernelState, Runnable, Ready

\* The end of a process whose function returned.
LEMMA RetireReturnedInv ==
  ASSUME NEW g, KernelInv(g), NEW p \in Proc, p # Shell
  PROVE  KernelInv(RetireReturned(g, p))
<1> DEFINE k1 == [g EXCEPT !.status[p] = "EXITED"]
           k2 == dealWithUnwaitedProcess(k1, p)
<1>1. "EXITED" \in Status
  BY DEF Status
<1>2. KernelInv(k1)
  BY <1>1, StatusInv
<1> HIDE DEF k1
<1>3. KernelInv(k2)
  BY <1>2, dealWithUnwaitedProcessInv
<1> HIDE DEF k2
<1>4. KernelInv(unblockIfForeground(k2, p))
  BY <1>3, unblockIfForegroundInv
<1> QED BY <1>4 DEF RetireReturned, k1, k2

-----------------------------------------------------------------------------
\* The pid after the last one is greater than every pid of the table, and it is
\* not 1: this is why pids ascend.
LEMMA NextPidGreatest ==
  ASSUME NEW g, KernelInv(g)
  PROVE  /\ NextPid(g) \in Nat \ {0, 1}
         /\ \A q \in g.table : g.pid[q] < NextPid(g)
<1> DEFINE b == Back(g)
<1>1. g.table \subseteq Nat /\ g.table # {} /\ \A y \in g.table : y <= MaxProc
  <2>1. g.table \subseteq Proc /\ Shell \in g.table
    BY TableFacts DEF KernelInv
  <2> QED BY <2>1, MaxProcAssumption DEF Proc
<1>2. \E p \in g.table : \A q \in g.table : q <= p
  BY <1>1, GreatestNat, MaxProcAssumption
<1>3. b \in g.table /\ \A q \in g.table : q <= b
  BY <1>2 DEF Back
<1> HIDE DEF b
<1>4. \A q \in g.table : g.pid[q] \in Nat
  BY TableFacts
<1>5. ASSUME NEW q \in g.table PROVE g.pid[q] <= g.pid[b]
  <2>1. q \in Nat /\ b \in Nat /\ q <= b
    BY <1>1, <1>3
  <2>2. q < b => g.pid[q] < g.pid[b]
    BY <1>3 DEF KernelInv
  <2> QED BY <1>3, <1>4, <2>1, <2>2
<1>6. 1 <= g.pid[b]
  <2>1. Shell \in g.table /\ g.pid[Shell] = 1
    BY TableFacts DEF KernelInv
  <2> QED BY <1>5, <2>1
<1>7. NextPid(g) = g.pid[b] + 1
  BY DEF NextPid, b
<1> QED BY <1>3, <1>4, <1>5, <1>6, <1>7

\* k_process_create with that pid.
LEMMA k_process_createInv ==
  ASSUME NEW g, KernelInv(g), g.made < MaxProc, NEW parent \in Proc,
         NEW program \in Program
  PROVE  KernelInv(k_process_create(g, parent, program, NextPid(g)))
<1> DEFINE new == g.made + 1
           x == NextPid(g)
           k1 == k_process_create(g, parent, program, x)
<1>1. /\ x \in Nat \ {0, 1}
      /\ \A q \in g.table : g.pid[q] < x
  BY NextPidGreatest
<1>2. /\ new \in Proc /\ new \notin g.table /\ new # Shell
      /\ new \in 0..MaxProc /\ \A q \in g.table : q < new
  <2>1. g.made \in 0..MaxProc /\ g.table \subseteq 1..g.made /\ Shell \in g.table
    BY DEF KernelInv, KernelState
  <2> QED BY <2>1, MaxProcAssumption DEF Proc, Shell
<1> HIDE DEF x
<1>0. g \in KernelState
  BY DEF KernelInv
<1>3. k1.made = new /\ k1.table = g.table \cup {new} /\ k1.queued = g.queued \cup {new}
  BY <1>0 DEF KernelState, k_process_create
<1>4. k1.zombies = [g.zombies EXCEPT ![new] = {}]
  BY <1>0 DEF KernelState, k_process_create
<1>5. k1.children = [q \in Proc |-> IF q = new THEN {}
                                     ELSE IF q = parent THEN g.children[q] \cup {new}
                                     ELSE g.children[q]]
  BY <1>0 DEF KernelState, k_process_create
<1>6. k1.pid = [g.pid EXCEPT ![new] = x]
  BY <1>0 DEF KernelState, k_process_create
<1>7. k1.ppid = [g.ppid EXCEPT ![new] = g.pid[parent]]
  BY <1>0 DEF KernelState, k_process_create
<1>8. /\ k1.asleep = g.asleep /\ k1.stamp = g.stamp
      /\ k1.fg = g.fg /\ k1.power = g.power
  <2>1. k1.asleep = g.asleep /\ k1.stamp = g.stamp
    BY <1>0 DEF KernelState, k_process_create
  <2>2. k1.fg = g.fg /\ k1.power = g.power
    BY <1>0 DEF KernelState, k_process_create
  <2> QED BY <2>1, <2>2
<1>9. k1 \in KernelState
  <2> DEFINE T == g.table \cup {new}
             P == [g.pid EXCEPT ![new] = x]
             PP == [g.ppid EXCEPT ![new] = g.pid[parent]]
             G == [g.prog EXCEPT ![new] = program]
             S == [g.status EXCEPT ![new] = "READY"]
             V == [g.prev EXCEPT ![new] = "READY"]
             I == [g.prio EXCEPT ![new] = 0]
             J == [g.ticks EXCEPT ![new] = -1]
             C == [q \in Proc |-> IF q = new THEN {}
                                  ELSE IF q = parent THEN g.children[q] \cup {new}
                                  ELSE g.children[q]]
             Z == [g.zombies EXCEPT ![new] = {}]
             Q == g.queued \cup {new}
             r1 == [g EXCEPT !.made = new, !.table = T, !.pid = P, !.ppid = PP,
                             !.prog = G, !.status = S]
             r2 == [r1 EXCEPT !.prev = V, !.prio = I, !.ticks = J, !.children = C,
                              !.zombies = Z, !.queued = Q]
  <2>1. k1 = r2
    BY DEF k_process_create
  <2>2. T \in SUBSET Proc /\ Q \in SUBSET Proc
    BY <1>2 DEF KernelInv, KernelState
  <2>3. P \in [Proc -> Nat] /\ PP \in [Proc -> Nat]
    BY <1>1, <1>2 DEF KernelInv, KernelState
  <2>4. G \in [Proc -> Program]
    BY DEF KernelInv, KernelState
  <2>5. S \in [Proc -> Status] /\ V \in [Proc -> Status]
    BY DEF KernelInv, KernelState, Status
  <2>6. I \in [Proc -> Int] /\ J \in [Proc -> Int]
    <3>1. ASSUME NEW v \in Int
          PROVE  /\ [g.prio EXCEPT ![new] = v] \in [Proc -> Int]
                 /\ [g.ticks EXCEPT ![new] = v] \in [Proc -> Int]
      BY DEF KernelInv, KernelState
    <3>2. 0 \in Int /\ -1 \in Int
      OBVIOUS
    <3> QED BY <3>1, <3>2
  <2>7. C \in [Proc -> SUBSET Proc]
    BY <1>2 DEF KernelInv, KernelState
  <2>8. Z \in [Proc -> SUBSET Node]
    BY DEF KernelInv, KernelState
  <2> HIDE DEF T, P, PP, G, S, V, I, J, C, Z, Q
  <2>9. r1 \in KernelState
    BY <1>2, <2>2, <2>3, <2>4, <2>5 DEF KernelInv, KernelState
  <2> HIDE DEF r1
  <2>10. r2 \in KernelState
    BY <2>2, <2>5, <2>6, <2>7, <2>8, <2>9 DEF KernelState
  <2> HIDE DEF k1, r2
  <2> QED BY <2>1, <2>10
<1> HIDE DEF k1, new
<1>10. \A p \in Proc : k1.pid[p] = 1 <=> p = Shell
  BY <1>1, <1>2, <1>6 DEF KernelInv, KernelState
<1>11. ASSUME NEW p \in k1.table, NEW q \in k1.table, p < q
       PROVE  k1.pid[p] < k1.pid[q]
  <2>1. \A r \in g.table : r \in Proc /\ r # new /\ k1.pid[r] = g.pid[r]
    BY <1>2, <1>6, TableFacts DEF KernelInv, KernelState
  <2>2. k1.pid[new] = x
    BY <1>2, <1>6 DEF KernelInv, KernelState
  <2>3. CASE p \in g.table /\ q \in g.table
    BY <1>11, <2>1, <2>3 DEF KernelInv
  <2>4. CASE p \in g.table /\ q = new
    BY <1>1, <2>1, <2>2, <2>4
  <2>5. p # new
    <3>1. p \in Nat /\ q \in Nat /\ new \in Nat
      BY <1>2, <1>3, TableFacts, MaxProcAssumption DEF Proc
    <3>2. q <= new
      BY <1>2, <1>3, <3>1
    <3> QED BY <1>11, <3>1, <3>2
  <2> QED BY <1>3, <2>3, <2>4, <2>5
<1>12. k1.queued \subseteq k1.table /\ Shell \in k1.table /\ k1.table \subseteq 1..k1.made
  <2>1. k1.queued \subseteq k1.table /\ Shell \in k1.table
    BY <1>3 DEF KernelInv
  <2>2. \A q \in k1.table : q \in Proc /\ q <= new
    BY <1>2, <1>3, TableFacts, MaxProcAssumption DEF Proc
  <2> QED BY <1>2, <1>3, <2>1, <2>2, MaxProcAssumption DEF Proc
<1>13. ASSUME NEW p \in k1.table, NEW c \in k1.children[p]
       PROVE  c \in k1.table /\ k1.ppid[c] = k1.pid[p]
  <2>1. p # new /\ p \in g.table /\ p \in Proc /\ k1.pid[p] = g.pid[p]
    BY <1>2, <1>3, <1>5, <1>6, TableFacts DEF KernelInv, KernelState
  <2>2. CASE c \in g.children[p]
    <3>1. c \in g.table /\ g.ppid[c] = g.pid[p] /\ c # new
      BY <1>2, <2>1, <2>2 DEF KernelInv
    <3>2. k1.ppid[c] = g.ppid[c]
      BY <1>7, <3>1, TableFacts DEF KernelInv, KernelState
    <3> QED BY <1>3, <2>1, <3>1, <3>2
  <2>3. CASE c = new /\ p = parent
    BY <1>2, <1>3, <1>7, <2>1, <2>3 DEF KernelInv, KernelState
  <2> QED BY <1>5, <2>1, <2>2, <2>3
<1>14. \A p \in Proc : Shell \notin k1.children[p]
  BY <1>2, <1>5 DEF KernelInv
<1>15. \A p \in Proc : k1.zombies[p] \subseteq g.zombies[p]
  BY <1>2, <1>4 DEF KernelInv, KernelState
<1>16. \A p \in Proc : \A z \in k1.zombies[p] : z.at < k1.stamp /\ z.of # Shell
  BY <1>8, <1>15 DEF KernelInv
<1>17. KernelInv(k1)
  BY <1>8, <1>9, <1>10, <1>11, <1>12, <1>13, <1>14, <1>16 DEF KernelInv
<1> QED BY <1>17 DEF k1, x

-----------------------------------------------------------------------------
\* p_kill.
LEMMA p_killInv ==
  ASSUME NEW g, KernelInv(g), NEW x, x # 1, NEW signal \in Signal
  PROVE  KernelInv(p_kill(g, x, signal))
<1> DEFINE n == Search(g, x)
<1>1. n = None \/ (n \in Proc /\ n # Shell)
  BY SearchResult, SearchNotShell, TableFacts
<1> HIDE DEF n
<1>2. n # None => KernelInv(k_process_kill(g, n, signal))
  BY <1>1, k_process_killInv
<1> QED BY <1>2 DEF p_kill, n

\* p_nice.
LEMMA p_niceInv ==
  ASSUME NEW g, KernelInv(g), NEW x, NEW priority \in Int
  PROVE  KernelInv(p_nice(g, x, priority))
<1> DEFINE n == Search(g, x)
           slot == {q \in g.queued : SameSlot(g, n, q)}
           k1 == [g EXCEPT !.queued = (@ \ slot) \cup {n}, !.prio[n] = priority]
<1>1. CASE n = None
  BY <1>1 DEF p_nice
<1>2. CASE n # None
  <2>1. n \in g.table
    BY <1>2, SearchResult
  <2>2. KernelInv(Crash(g))
    BY CrashInv
  <2>3. KernelInv(k1)
    <3> DEFINE Q == (g.queued \ slot) \cup {n}
    <3> HIDE DEF n, slot
    <3>1. Q \in SUBSET g.table
      BY <2>1 DEF KernelInv
    <3>2. n \in Proc
      BY <2>1, TableFacts
    <3> HIDE DEF Q
    <3>3. [g EXCEPT !.queued = Q, !.prio[n] = priority] \in KernelState
      BY <3>1, <3>2 DEF KernelInv, KernelState
    <3>4. KernelInv([g EXCEPT !.queued = Q, !.prio[n] = priority])
      BY <3>1, <3>2, <3>3 DEF KernelInv, KernelState
    <3> QED BY <3>4 DEF Q
  <2> QED BY <1>2, <2>2, <2>3 DEF p_nice
<1> QED BY <1>1, <1>2

-----------------------------------------------------------------------------
(***************************************************************************)
(* p_waitpid.  ResultInv is what its callers may assume of a result.       *)
(***************************************************************************)
ResultInv(r) == KernelInv(r.k) /\ r.pid \in Nat /\ r.status \in Status

\* A wait returns a kernel state, a pid and a status.
LEMMA ResultIntro ==
  ASSUME NEW g, KernelInv(g), NEW x \in Nat, NEW s \in Status
  PROVE  ResultInv(Result(g, x, s))
BY DEF ResultInv, Result

\* A wait that has nothing to report.
LEMMA NothingInv ==
  ASSUME NEW g, KernelInv(g)
  PROVE  ResultInv(Nothing(g))
BY ResultIntro DEF Nothing, Status

\* A wait that reports a change.
LEMMA ReportInv ==
  ASSUME NEW g, KernelInv(g), NEW p \in Proc
  PROVE  ResultInv(Report(g, p))
<1> DEFINE k1 == [g EXCEPT !.prev[p] = g.status[p]]
           k2 == unblockIfForeground(k1, p)
<1>1. KernelInv(k1)
  BY PrevInv
<1> HIDE DEF k1
<1>2. KernelInv(k2)
  BY <1>1, unblockIfForegroundInv
<1> HIDE DEF k2
<1>3. g.pid[p] \in Nat /\ g.status[p] \in Status
  BY DEF KernelInv, KernelState
<1>4. ResultInv(Result(k2, g.pid[p], g.status[p]))
  BY <1>2, <1>3, ResultIntro
<1> QED BY <1>4 DEF Report, k1, k2

\* A wait that reaps a zombie.
LEMMA ReapZombieInv ==
  ASSUME NEW g, KernelInv(g), NEW p \in Proc, p # Shell
  PROVE  ResultInv(ReapZombie(g, p))
<1> DEFINE k1 == k_process_cleanup(g, p)
<1>1. KernelInv(k1)
  BY k_process_cleanupInv
<1> HIDE DEF k1
<1>2. KernelInv(clearZombiesAndChildren(k1, p))
  BY <1>1, clearZombiesAndChildrenInv
<1>3. g.pid[p] \in Nat /\ g.status[p] \in Status
  BY DEF KernelInv, KernelState
<1> QED BY <1>2, <1>3, ResultIntro DEF ReapZombie, k1

\* p_waitpid of one pid without hanging.
LEMMA p_waitpid_nohangInv ==
  ASSUME NEW g, KernelInv(g), NEW caller, NEW x, x # 1
  PROVE  ResultInv(p_waitpid_nohang(g, caller, x))
<1> DEFINE n == Search(g, x)
<1>1. n = None \/ (n \in Proc /\ n # Shell)
  BY SearchResult, SearchNotShell, TableFacts
<1> HIDE DEF n
<1>2. ResultInv(Nothing(g))
  BY NothingInv
<1>3. n # None => ResultInv(ReapZombie(g, n)) /\ ResultInv(Report(g, n))
  BY <1>1, ReapZombieInv, ReportInv
<1> QED BY <1>2, <1>3 DEF p_waitpid_nohang, n

\* The newest of some processes is one of them ...
LEMMA NewestMember ==
  ASSUME NEW S \in SUBSET Proc, S # {}
  PROVE  Newest(S) \in S
<1>1. S \subseteq Nat /\ \A y \in S : y <= MaxProc
  BY MaxProcAssumption DEF Proc
<1>2. \E x \in S : \A y \in S : y <= x
  BY <1>1, GreatestNat, MaxProcAssumption
<1> QED BY <1>2 DEF Newest

\* ... and the head of a zombies list is in the list.
LEMMA HeadMember ==
  ASSUME NEW g, KernelInv(g), NEW p \in Proc, g.zombies[p] # {}
  PROVE  Head(g.zombies[p]) \in g.zombies[p]
<1> DEFINE L == g.zombies[p]
           T == {n.at : n \in L}
<1>1. \A n \in L : n.at \in Nat /\ n.at <= g.stamp
  <2> TAKE n \in L
  <2>1. n.at \in Nat /\ g.stamp \in Nat /\ n.at < g.stamp
    BY DEF KernelInv, KernelState, Node
  <2> QED BY <2>1
<1>2. g.stamp \in Nat
  BY DEF KernelInv, KernelState
<1>3. T \subseteq Nat /\ T # {} /\ \A y \in T : y <= g.stamp
  BY <1>1
<1>4. PICK x \in T : \A y \in T : y <= x
  <2> HIDE DEF T
  <2> QED BY <1>2, <1>3, GreatestNat
<1>5. \E n \in L : \A m \in L : m.at <= n.at
  BY <1>4
<1> QED BY <1>5 DEF Head

\* traverseChild of a child that has news.
LEMMA traverseChildInv ==
  ASSUME NEW g, KernelInv(g), NEW p \in Proc, HasNews(g, p), ~Changed(g, p)
  PROVE  ResultInv(traverseChild(g, p))
<1>1. CASE g.zombies[p] = {}
  <2> DEFINE S == {c \in g.children[p] : Changed(g, c)}
  <2>1. S \in SUBSET Proc /\ S # {}
    BY <1>1 DEF HasNews, KernelInv, KernelState
  <2> HIDE DEF S
  <2>2. ResultInv(Report(g, Newest(S)))
    BY <2>1, NewestMember, ReportInv
  <2> QED BY <1>1, <2>2 DEF traverseChild, S
<1>2. CASE g.zombies[p] # {}
  <2> DEFINE z == Head(g.zombies[p])
             x == g.pid[z.of]
             n == Search(g, x)
             k1 == [g EXCEPT !.prev[n] = g.status[n]]
             k2 == k_process_cleanup(k1, n)
  <2>1. z \in g.zombies[p]
    BY <1>2, HeadMember
  <2>2. z.of \in Proc /\ z.of # Shell
    BY <2>1 DEF KernelInv, KernelState, Node
  <2> HIDE DEF z
  <2>3. x \in Nat /\ x # 1
    BY <2>2, TableFacts
  <2> HIDE DEF x
  <2>4. n = None \/ (n \in Proc /\ n # Shell)
    BY <2>3, SearchResult, SearchNotShell, TableFacts
  <2>5. ResultInv(Nothing(Crash(g)))
    BY CrashInv, NothingInv
  <2> HIDE DEF n
  <2>6. ASSUME n # None PROVE ResultInv(Result(k2, x, g.status[n]))
    <3>1. KernelInv(k1)
      BY <2>4, <2>6, PrevInv
    <3> HIDE DEF k1
    <3>2. KernelInv(k2)
      BY <2>4, <2>6, <3>1, k_process_cleanupInv
    <3>3. g.status[n] \in Status
      BY <2>4, <2>6 DEF KernelInv, KernelState
    <3> HIDE DEF k2
    <3> QED BY <2>3, <3>2, <3>3, ResultIntro
  <2> QED BY <1>2, <2>5, <2>6 DEF traverseChild, z, x, n
<1> QED BY <1>1, <1>2

\* Reaping the newest zombie.
LEMMA ReapNewestInv ==
  ASSUME NEW g, KernelInv(g), NEW caller \in Proc, g.zombies[caller] # {}
  PROVE  ResultInv(ReapNewest(g, caller))
<1> DEFINE z == Head(g.zombies[caller])
           k1 == [g EXCEPT !.zombies[caller] = @ \ {z}]
           x == g.pid[z.of]
           n == Search(k1, x)
           k2 == k_process_cleanup(k1, n)
<1>1. z.of \in Proc /\ z.of # Shell
  <2>1. z \in g.zombies[caller]
    BY HeadMember
  <2> HIDE DEF z
  <2>2. g.zombies[caller] \subseteq Node
    BY DEF KernelInv, KernelState
  <2>3. \A y \in g.zombies[caller] : y.of # Shell
    BY DEF KernelInv
  <2> QED BY <2>1, <2>2, <2>3 DEF Node
<1> HIDE DEF z
<1>2. x # 1
  BY <1>1, TableFacts
<1> HIDE DEF x
<1>3. KernelInv(k1)
  BY DEF KernelInv, KernelState
<1> HIDE DEF k1
<1>4. n = None \/ (n \in Proc /\ n # Shell)
  BY <1>2, <1>3, SearchResult, SearchNotShell, TableFacts
<1> HIDE DEF n
<1>5. ResultInv(Nothing(k1))
  BY <1>3, NothingInv
<1>6. ASSUME n # None
      PROVE  ResultInv(Result(unblockIfForeground(k2, n), g.pid[n], g.status[n]))
  <2>1. KernelInv(k2)
    BY <1>3, <1>4, <1>6, k_process_cleanupInv
  <2> HIDE DEF k2
  <2>2. KernelInv(unblockIfForeground(k2, n))
    BY <2>1, unblockIfForegroundInv
  <2>3. g.pid[n] \in Nat /\ g.status[n] \in Status
    BY <1>4, <1>6 DEF KernelInv, KernelState
  <2> QED BY <2>2, <2>3, ResultIntro
<1> QED BY <1>5, <1>6 DEF ReapNewest, z, k1, x, n, k2

\* p_waitpid(-1).
LEMMA p_waitpid_anyInv ==
  ASSUME NEW g, KernelInv(g), NEW caller \in Proc
  PROVE  ResultInv(p_waitpid_any(g, caller))
<1> DEFINE news == {c \in g.children[caller] : HasNews(g, c)}
           c == Newest(news)
<1>1. g.zombies[caller] # {} => ResultInv(ReapNewest(g, caller))
  BY ReapNewestInv
<1>2. ResultInv(Nothing(g))
  BY NothingInv
<1>3. news \in SUBSET Proc
  BY DEF KernelInv, KernelState
<1>4. ASSUME news # {}
      PROVE  ResultInv(IF Changed(g, c) THEN Report(g, c) ELSE traverseChild(g, c))
  <2>1. c \in news
    <3> HIDE DEF news
    <3> QED BY <1>3, <1>4, NewestMember
  <2>2. c \in Proc /\ HasNews(g, c)
    BY <1>3, <2>1
  <2> HIDE DEF c
  <2>3. ResultInv(Report(g, c))
    BY <2>2, ReportInv
  <2>4. ~Changed(g, c) => ResultInv(traverseChild(g, c))
    BY <2>2, traverseChildInv
  <2> QED BY <2>3, <2>4
<1> QED BY <1>1, <1>2, <1>4 DEF p_waitpid_any

-----------------------------------------------------------------------------
(***************************************************************************)
(* The kernel, the shell and the places.                                   *)
(***************************************************************************)
\* The part of IInv that is about the shell and the places.
ShellPart ==
  /\ pc \in [Proc -> Place]
  /\ sh \in ShellState
  /\ pc[Shell] \in ShellPlace
  /\ \A p \in Proc : pc[p] # "link"
  /\ Shell \notin sh.jobs \cup sh.stopped \cup sh.todo \cup {sh.job, sh.child}
  /\ pc[Shell] \in {"nice", "launch", "resumed", "wait", "block", "woken"} =>
       sh.job # None
  /\ pc[Shell] \in {"block", "woken"} => sh.child # None

\* ... and the part about the kernel and who runs.
KernelPart == KernelInv(k) /\ cur \in Proc \cup {None}

\* IInv by its parts ...
LEMMA IInvParts ==
  IInv <=> /\ KernelPart /\ ShellPart
           /\ req \in [Proc -> Request] /\ keys \in 0..MaxKeys
BY DEF IInv, TypeOK, KernelPart, ShellPart, KernelInv

\* ... and how to show it of the next state.
LEMMA IInvNext ==
  ASSUME KernelPart', ShellPart', req' \in [Proc -> Request], keys' \in 0..MaxKeys
  PROVE  IInv'
BY DEF IInv, TypeOK, KernelPart, ShellPart, KernelInv

\* The kernel as main() leaves it satisfies its invariant.
LEMMA InitKernelInv == KernelInv(InitKernel)
<1> DEFINE I == InitKernel
<1>1. /\ Shell \in Proc /\ 1 \in 0..MaxProc
      /\ \A p \in Proc : p = 1 <=> p = Shell
  BY MaxProcAssumption DEF Proc, Shell
<1>2. {"READY"} \subseteq Status /\ {"shell"} \subseteq Program
  BY DEF Status, Program
<1>3. I.pid \in [Proc -> Nat] /\ I.ppid \in [Proc -> Nat]
  BY DEF InitKernel
<1>4. I.prio \in [Proc -> Int] /\ I.ticks \in [Proc -> Int]
  BY DEF InitKernel
<1>5. /\ I.made \in 0..MaxProc /\ I.stamp \in Nat
      /\ I.table \in SUBSET Proc /\ I.queued \in SUBSET Proc
      /\ I.asleep \in SUBSET Node /\ I.fg \in Proc
      /\ I.power \in {"on", "off", "crashed"}
  BY <1>1 DEF InitKernel
<1>6. /\ I.prog \in [Proc -> Program]
      /\ I.status \in [Proc -> Status] /\ I.prev \in [Proc -> Status]
      /\ I.children \in [Proc -> SUBSET Proc] /\ I.zombies \in [Proc -> SUBSET Node]
  BY <1>2 DEF InitKernel
<1>7. I = [made |-> I.made, table |-> I.table, pid |-> I.pid, ppid |-> I.ppid,
           prog |-> I.prog, status |-> I.status, prev |-> I.prev,
           prio |-> I.prio, ticks |-> I.ticks, children |-> I.children,
           zombies |-> I.zombies, queued |-> I.queued, asleep |-> I.asleep,
           stamp |-> I.stamp, fg |-> I.fg, power |-> I.power]
  BY DEF InitKernel
<1>8. I \in KernelState
  <2> HIDE DEF I
  <2> QED BY <1>3, <1>4, <1>5, <1>6, <1>7 DEF KernelState
<1>9. /\ I.table = {Shell} /\ I.made = 1 /\ I.queued = {Shell} /\ I.asleep = {}
      /\ \A p \in Proc : I.pid[p] = (IF p = Shell THEN 1 ELSE 0)
      /\ \A p \in Proc : I.children[p] = {} /\ I.zombies[p] = {}
  BY DEF InitKernel
<1>10. I.table \subseteq 1..I.made
  BY <1>9 DEF Shell
<1>11. \A p, q \in I.table : ~(p < q)
  BY <1>9 DEF Shell
<1> HIDE DEF I
<1>12. KernelInv(I)
  BY <1>1, <1>8, <1>9, <1>10, <1>11 DEF KernelInv
<1> QED BY <1>12 DEF I

\* So does the initial state.
LEMMA InitIInv == Init => IInv
<1> SUFFICES ASSUME Init PROVE IInv
  OBVIOUS
<1>1. Shell \in Proc /\ None \notin Proc /\ Shell # None
  BY MaxProcAssumption DEF Proc, Shell, None
<1>2. KernelPart
  BY <1>1, InitKernelInv DEF Init, KernelPart
<1>3. ShellPart
  <2>1. pc \in [Proc -> Place] /\ pc[Shell] = "prompt" /\ \A p \in Proc : pc[p] # "link"
    BY <1>1 DEF Init, Place, ShellPlace
  <2>2. sh \in ShellState
    BY DEF Init, AtPrompt, ShellState, Status
  <2>3. Shell \notin sh.jobs \cup sh.stopped \cup sh.todo \cup {sh.job, sh.child}
    BY <1>1 DEF Init, AtPrompt
  <2> QED BY <2>1, <2>2, <2>3 DEF ShellPart, ShellPlace
<1>4. req \in [Proc -> Request]
  <2>1. NoRequest \in Request
    BY DEF NoRequest, Request, Program, Place
  <2> QED BY <2>1 DEF Init
<1>5. keys \in 0..MaxKeys
  BY ConstantsAssumption DEF Init
<1> QED BY <1>2, <1>3, <1>4, <1>5, IInvParts

-----------------------------------------------------------------------------
\* A step that ends in the scheduler.
LEMMA scheduleStep ==
  ASSUME NEW k1, KernelInv(k1), schedule(k1)
  PROVE  KernelPart'
<1>1. KernelInv(decrementTicks(k1))
  BY decrementTicksInv
<1>2. k' = decrementTicks(k1) /\ cur' \in Runnable(decrementTicks(k1))
  BY DEF schedule
<1> QED BY <1>1, <1>2, RunnableType DEF KernelPart

\* A step after which the caller keeps running.
LEMMA ContinueStep ==
  ASSUME KernelPart, NEW k1, KernelInv(k1), Continue(k1)
  PROVE  KernelPart'
BY DEF KernelPart, Continue

\* A program moves on.
LEMMA ProgramMoves ==
  ASSUME ShellPart, NEW p \in Proc, p # Shell, NEW place \in Place \ {"link"},
         Goto(p, place), sh' = sh
  PROVE  ShellPart'
BY DEF ShellPart, Goto

\* The shell is back at its prompt.
LEMMA ToPromptStep ==
  ASSUME ShellPart, NEW jobs \in SUBSET (Proc \ {Shell}),
         NEW stopped \in SUBSET (Proc \ {Shell}), ToPrompt(jobs, stopped)
  PROVE  ShellPart'
<1>1. Shell \in Proc /\ Shell # None
  BY MaxProcAssumption DEF Proc, Shell, None
<1>2. pc' = [pc EXCEPT ![Shell] = "prompt"] /\ sh' = AtPrompt(jobs, stopped)
  BY DEF ToPrompt, Goto
<1>3. pc' \in [Proc -> Place] /\ pc'[Shell] = "prompt" /\ \A p \in Proc : pc'[p] # "link"
  BY <1>1, <1>2 DEF ShellPart, Place, ShellPlace
<1>4. sh' \in ShellState
  BY <1>2 DEF AtPrompt, ShellState, Status
<1>5. Shell \notin sh'.jobs \cup sh'.stopped \cup sh'.todo \cup {sh'.job, sh'.child}
  BY <1>1, <1>2 DEF AtPrompt
<1> QED BY <1>3, <1>4, <1>5 DEF ShellPart, ShellPlace

\* The shell goes to another place of its own; sh' is given by its parts.
LEMMA ShellMoves ==
  ASSUME ShellPart, NEW place \in ShellPlace, Goto(Shell, place),
         sh' \in ShellState,
         Shell \notin sh'.jobs \cup sh'.stopped \cup sh'.todo \cup {sh'.job, sh'.child},
         place \in {"nice", "launch", "resumed", "wait", "block", "woken"} =>
           sh'.job # None,
         place \in {"block", "woken"} => sh'.child # None
  PROVE  ShellPart'
<1>1. Shell \in Proc
  BY MaxProcAssumption DEF Proc, Shell
<1>2. pc' = [pc EXCEPT ![Shell] = place]
  BY DEF Goto
<1>3. pc' \in [Proc -> Place] /\ pc'[Shell] = place /\ \A p \in Proc : pc'[p] # "link"
  BY <1>1, <1>2 DEF ShellPart, Place, ShellPlace
<1> QED BY <1>3 DEF ShellPart

\* The shell goes on with the same locals.
LEMMA ShellGoesOn ==
  ASSUME ShellPart, NEW place \in ShellPlace, Goto(Shell, place), sh' = sh,
         place \in {"nice", "launch", "resumed", "wait", "block", "woken"} =>
           sh.job # None,
         place \in {"block", "woken"} => sh.child # None
  PROVE  ShellPart'
<1>1. /\ sh' \in ShellState
      /\ Shell \notin sh'.jobs \cup sh'.stopped \cup sh'.todo \cup {sh'.job, sh'.child}
  BY DEF ShellPart
<1> QED BY <1>1, ShellMoves

-----------------------------------------------------------------------------
(***************************************************************************)
(* One lemma per action.                                                   *)
(***************************************************************************)
\* What the actions below take from IInv.
LEMMA Facts ==
  ASSUME IInv
  PROVE  /\ KernelInv(k) /\ KernelPart /\ ShellPart
         /\ req \in [Proc -> Request] /\ keys \in 0..MaxKeys
         /\ Shell \in Proc /\ None \notin Proc /\ Shell # None
         /\ k \in KernelState
         /\ \A p \in Proc : k.pid[p] \in Nat /\ (p # Shell => k.pid[p] # 1)
         /\ \A p \in Proc : pc[p] \notin ShellPlace => p # Shell
<1>1. KernelInv(k) /\ KernelPart /\ ShellPart
  BY IInvParts DEF KernelPart
<1>2. req \in [Proc -> Request] /\ keys \in 0..MaxKeys
  BY IInvParts
<1>3. Shell \in Proc /\ None \notin Proc /\ Shell # None
  BY MaxProcAssumption DEF Proc, Shell, None
<1>4. k \in KernelState
  BY <1>1 DEF KernelInv
<1>5. \A p \in Proc : k.pid[p] \in Nat /\ (p # Shell => k.pid[p] # 1)
  BY <1>1, TableFacts
<1>6. pc[Shell] \in ShellPlace
  BY <1>1 DEF ShellPart
<1> QED BY <1>1, <1>2, <1>3, <1>4, <1>5, <1>6

\* SIGALRM.
LEMMA TickStep == IInv /\ Tick => IInv'
<1> SUFFICES ASSUME IInv, Tick PROVE IInv'
  OBVIOUS
<1>1. KernelPart'
  BY Facts, scheduleStep DEF Tick
<1>2. ShellPart'
  BY Facts DEF Tick, ShellPart
<1> QED BY <1>1, <1>2, Facts, IInvNext DEF Tick

\* A terminal key is never for the shell.
LEMMA KeyStep == ASSUME NEW signal \in Keys PROVE IInv /\ Key(signal) => IInv'
<1> SUFFICES ASSUME IInv, Key(signal) PROVE IInv'
  OBVIOUS
<1> DEFINE target == Search(k, k.pid[k.fg])
<1>1. KernelPart'
  <2>1. target \in Proc /\ target # Shell
    BY Facts, SearchResult, SearchNotShell, TableFacts DEF Key
  <2>2. signal \in Signal
    BY ConstantsAssumption DEF Signal
  <2>3. KernelInv(k_process_kill(k, target, signal))
    <3> HIDE DEF target
    <3> QED BY <2>1, <2>2, Facts, k_process_killInv
  <2> QED BY <2>3, scheduleStep DEF Key
<1>2. ShellPart'
  BY Facts DEF Key, ShellPart
<1>3. keys' \in 0..MaxKeys
  BY Facts, ConstantsAssumption DEF Key
<1> QED BY <1>1, <1>2, <1>3, Facts, IInvNext DEF Key

\* p_spawn without the window in k_process_create.
LEMMA SpawnStep ==
  ASSUME IInv, "link" \notin Windows, NEW p \in Proc, NEW program \in Program,
         NEW next \in Place \ {"link"}, p_spawn(p, program, next)
  PROVE  /\ KernelPart' /\ req' = req
         /\ k.made + 1 \in Proc \ {Shell}
         /\ pc' = [pc EXCEPT ![p] = next, ![k.made + 1] = StartPlace(program)]
         /\ StartPlace(program) \in Place \ ({"link"} \cup ShellPlace)
<1>1. /\ k.made < MaxProc /\ req' = req
      /\ Continue(k_process_create(k, p, program, NextPid(k)))
      /\ pc' = [pc EXCEPT ![p] = next, ![k.made + 1] = StartPlace(program)]
  BY DEF p_spawn, Created
<1>2. KernelInv(k_process_create(k, p, program, NextPid(k)))
  BY <1>1, Facts, k_process_createInv
<1>3. KernelPart'
  BY <1>1, <1>2, Facts, ContinueStep
<1>4. k.made + 1 \in Proc \ {Shell}
  <2>1. k.made \in 0..MaxProc /\ k.table \subseteq 1..k.made /\ Shell \in k.table
    BY Facts DEF KernelInv, KernelState
  <2> QED BY <1>1, <2>1, MaxProcAssumption DEF Proc, Shell
<1>5. StartPlace(program) \in Place \ ({"link"} \cup ShellPlace)
  BY DEF StartPlace, Place, ShellPlace
<1> QED BY <1>1, <1>3, <1>4, <1>5

\* zombify and orphanify.
LEMMA SpawnChildStep ==
  ASSUME "link" \notin Windows, NEW p \in Proc
  PROVE  IInv /\ SpawnChild(p) => IInv'
<1> SUFFICES ASSUME IInv, SpawnChild(p) PROVE IInv'
  OBVIOUS
<1>1. p # Shell
  BY Facts DEF SpawnChild, At, ShellPlace
<1>2. PICK program \in Program, next \in {"loop", "return"} : p_spawn(p, program, next)
  <2>1. {"zombie_child", "orphan_child"} \subseteq Program
    BY DEF Program
  <2> QED BY <2>1 DEF SpawnChild
<1>3. next \in Place \ {"link"}
  BY DEF Place
<1>4. /\ KernelPart' /\ req' = req
      /\ k.made + 1 \in Proc \ {Shell}
      /\ pc' = [pc EXCEPT ![p] = next, ![k.made + 1] = StartPlace(program)]
      /\ StartPlace(program) \in Place \ ({"link"} \cup ShellPlace)
  BY <1>2, <1>3, SpawnStep
<1>5. ShellPart'
  <2> DEFINE new == k.made + 1
             start == StartPlace(program)
  <2>1. /\ pc' \in [Proc -> Place] /\ pc'[Shell] = pc[Shell]
        /\ \A q \in Proc : pc'[q] # "link"
    <3> HIDE DEF new, start
    <3>1. /\ new \in Proc \ {Shell} /\ start \in Place \ {"link"}
          /\ pc' = [pc EXCEPT ![p] = next, ![new] = start]
      BY <1>4 DEF new, start
    <3> QED BY <3>1, <1>1, <1>3, Facts DEF ShellPart
  <2>2. sh' = sh
    BY DEF SpawnChild
  <2> QED BY <2>1, <2>2, Facts DEF ShellPart
<1> QED BY <1>4, <1>5, Facts, IInvNext DEF SpawnChild

\* The second half of k_process_create cannot happen without its window.
LEMMA LinkStep ==
  ASSUME NEW p \in Proc
  PROVE  IInv /\ Link(p) => IInv'
BY Facts DEF Link, At, ShellPart

\* p_sleep.
LEMMA SleepStep ==
  ASSUME NEW p \in Proc
  PROVE  IInv /\ Sleep(p) => IInv'
<1> SUFFICES ASSUME IInv, Sleep(p) PROVE IInv'
  OBVIOUS
<1>1. p # Shell
  BY Facts DEF Sleep, At, ShellPlace
<1>2. PICK n \in SleepTicks :
        LET k1 == [k EXCEPT !.status[p] = "BLOCKED", !.ticks[p] = n]
        IN  \/ Continue(k1) /\ Goto(p, "enrol")
            \/ Continue(addToAsleep(k1, p)) /\ Goto(p, "return")
  BY DEF Sleep
<1> DEFINE k1 == [k EXCEPT !.status[p] = "BLOCKED", !.ticks[p] = n]
<1>3. KernelInv(k1)
  <2>1. "BLOCKED" \in Status /\ n \in Int
    BY ConstantsAssumption DEF Status
  <2> QED BY <2>1, Facts DEF KernelInv, KernelState
<1>4. \/ Continue(k1) /\ Goto(p, "enrol")
      \/ Continue(addToAsleep(k1, p)) /\ Goto(p, "return")
  BY <1>2
<1> HIDE DEF k1
<1>5. KernelInv(addToAsleep(k1, p))
  BY <1>1, <1>3, addToAsleepInv
<1>6. KernelPart'
  BY <1>3, <1>4, <1>5, Facts, ContinueStep
<1>7. PICK place \in {"enrol", "return"} : Goto(p, place)
  BY <1>4
<1>8. ShellPart'
  <2>1. place \in Place \ {"link"} /\ sh' = sh
    BY DEF Place, Sleep
  <2> QED BY <1>1, <1>7, <2>1, Facts, ProgramMoves
<1> QED BY <1>6, <1>8, Facts, IInvNext DEF Sleep

\* p_sleep after a tick.
LEMMA EnrolStep ==
  ASSUME NEW p \in Proc
  PROVE  IInv /\ Enrol(p) => IInv'
<1> SUFFICES ASSUME IInv, Enrol(p) PROVE IInv'
  OBVIOUS
<1>1. p # Shell
  BY Facts DEF Enrol, At, ShellPlace
<1>2. KernelPart'
  BY <1>1, Facts, addToAsleepInv, ContinueStep DEF Enrol
<1>3. ShellPart'
  <2>1. "return" \in Place \ {"link"}
    BY DEF Place
  <2> QED BY <1>1, <2>1, Facts, ProgramMoves DEF Enrol
<1> QED BY <1>2, <1>3, Facts, IInvNext DEF Enrol

\* The kill program.
LEMMA KillStep ==
  ASSUME NEW p \in Proc
  PROVE  IInv /\ Kill(p) => IInv'
<1> SUFFICES ASSUME IInv, Kill(p) PROVE IInv'
  OBVIOUS
<1>1. p # Shell
  BY Facts DEF Kill, At, ShellPlace
<1>2. KernelPart'
  <2>1. CASE Continue(k)
    BY <2>1, Facts, ContinueStep
  <2>2. CASE \E q \in k.table \ {Shell}, signal \in Signals :
               schedule(p_kill(k, k.pid[q], signal))
    <3>1. PICK q \in k.table \ {Shell}, signal \in Signals :
            schedule(p_kill(k, k.pid[q], signal))
      BY <2>2
    <3>2. k.pid[q] # 1 /\ signal \in Signal
      BY <3>1, Facts, TableFacts, ConstantsAssumption
    <3>3. KernelInv(p_kill(k, k.pid[q], signal))
      BY <3>2, Facts, p_killInv
    <3> QED BY <3>1, <3>3, scheduleStep
  <2> QED BY <2>1, <2>2 DEF Kill
<1>3. ShellPart'
  <2>1. "return" \in Place \ {"link"}
    BY DEF Place
  <2> QED BY <1>1, <2>1, Facts, ProgramMoves DEF Kill
<1> QED BY <1>2, <1>3, Facts, IInvNext DEF Kill

\* The return of a program.
LEMMA ReturnStep ==
  ASSUME NEW p \in Proc
  PROVE  IInv /\ Return(p) => IInv'
<1> SUFFICES ASSUME IInv, Return(p) PROVE IInv'
  OBVIOUS
<1> DEFINE k1 == decrementTicks(k)
<1>1. p # Shell
  BY Facts DEF Return, At, ShellPlace
<1>2. KernelInv(k1)
  BY Facts, decrementTicksInv
<1>3. KernelPart'
  <2>1. \/ k' = k1 /\ cur' \in Runnable(k1)
        \/ schedule(RetireReturned(k1, p))
    BY DEF Return
  <2> HIDE DEF k1
  <2>2. KernelInv(RetireReturned(k1, p))
    BY <1>1, <1>2, RetireReturnedInv
  <2>3. k' = k1 /\ cur' \in Runnable(k1) => KernelPart'
    BY <1>2, RunnableType DEF KernelPart
  <2> QED BY <2>1, <2>2, <2>3, scheduleStep
<1>4. ShellPart'
  <2>1. "done" \in Place \ {"link"}
    BY DEF Place
  <2> QED BY <1>1, <2>1, Facts, ProgramMoves DEF Return
<1> QED BY <1>3, <1>4, Facts, IInvNext DEF Return

-----------------------------------------------------------------------------
\* The shell's locals, and the sets ToPrompt is called with.
LEMMA ShellFacts ==
  ASSUME IInv
  PROVE  /\ sh \in ShellState
         /\ sh.jobs \in SUBSET (Proc \ {Shell})
         /\ sh.stopped \in SUBSET (Proc \ {Shell})
         /\ sh.todo \in SUBSET (Proc \ {Shell})
         /\ pc[Shell] \in {"nice", "launch", "resumed", "wait", "block", "woken"} =>
              sh.job \in Proc \ {Shell}
         /\ pc[Shell] \in {"block", "woken"} => sh.child \in Proc \ {Shell}
BY Facts DEF ShellPart, ShellState

\* The prompt: the shell may stop itself.
LEMMA PromptStep == IInv /\ Prompt => IInv'
<1> SUFFICES ASSUME IInv, Prompt PROVE IInv'
  OBVIOUS
<1>1. KernelPart'
  <2>1. KernelInv(k_process_kill(k, Shell, "S_SIGSTOP"))
    BY Facts, k_process_killInv DEF Signal
  <2>2. KernelInv(IF k.pid[Shell] # k.pid[k.fg]
                    THEN k_process_kill(k, Shell, "S_SIGSTOP") ELSE k)
    BY <2>1, Facts
  <2> QED BY <2>2, scheduleStep DEF Prompt
<1>2. ShellPart'
  <2>1. "read" \in ShellPlace
    BY DEF ShellPlace
  <2> QED BY <2>1, Facts, ShellGoesOn DEF Prompt
<1> QED BY <1>1, <1>2, Facts, IInvNext DEF Prompt

\* The end of PennOS.
LEMMA LogoutStep == IInv /\ Logout => IInv'
<1> SUFFICES ASSUME IInv, Logout PROVE IInv'
  OBVIOUS
<1>1. KernelInv([k EXCEPT !.power = "off"])
  BY Facts, PowerInv
<1>2. KernelPart'
  BY <1>1, Facts, ContinueStep DEF Logout
<1>3. ShellPart'
  BY Facts DEF Logout, ShellPart
<1> QED BY <1>2, <1>3, Facts, IInvNext DEF Logout

\* The first wait of pollJobChanges.
LEMMA PollStep == IInv /\ Poll => IInv'
<1> SUFFICES ASSUME IInv, Poll PROVE IInv'
  OBVIOUS
<1> DEFINE r == p_waitpid_any(k, Shell)
<1>1. ResultInv(r)
  BY Facts, p_waitpid_anyInv
<1>2. /\ Continue(r.k)
      /\ \/ /\ Goto(Shell, "poll")
            /\ sh' = [sh EXCEPT !.todo = sh.jobs, !.found = r.pid, !.how = r.status]
         \/ Goto(Shell, "command") /\ sh' = sh
  BY DEF Poll
<1> HIDE DEF r
<1>3. KernelPart'
  BY <1>1, <1>2, Facts, ContinueStep DEF ResultInv
<1>4. {"poll", "command"} \subseteq ShellPlace
  BY DEF ShellPlace
<1>5. ShellPart'
  <2>1. ASSUME Goto(Shell, "poll"),
               sh' = [sh EXCEPT !.todo = sh.jobs, !.found = r.pid, !.how = r.status]
        PROVE  ShellPart'
    <3>1. sh' \in ShellState
      BY <1>1, <2>1, ShellFacts DEF ShellState, ResultInv
    <3>2. Shell \notin sh'.jobs \cup sh'.stopped \cup sh'.todo \cup {sh'.job, sh'.child}
      BY <2>1, Facts DEF ShellPart, ShellState
    <3> QED BY <1>4, <2>1, <3>1, <3>2, Facts, ShellMoves
  <2>2. Goto(Shell, "command") /\ sh' = sh => ShellPart'
    BY <1>4, Facts, ShellGoesOn
  <2> QED BY <1>2, <2>1, <2>2
<1> QED BY <1>3, <1>5, Facts, IInvNext DEF Poll

\* pollJobChanges of one job.
LEMMA PollJobStep == ASSUME NEW j \in Proc PROVE IInv /\ PollJob(j) => IInv'
<1> SUFFICES ASSUME IInv, PollJob(j) PROVE IInv'
  OBVIOUS
<1> DEFINE r == p_waitpid_nohang(k, Shell, k.pid[j])
<1>1. j \in sh.todo /\ j \in Proc /\ j # Shell
  BY ShellFacts DEF PollJob
<1>2. ResultInv(r)
  BY <1>1, Facts, p_waitpid_nohangInv
<1>3. KernelPart'
  <2>1. Continue(r.k)
    BY DEF PollJob
  <2> HIDE DEF r
  <2> QED BY <1>2, <2>1, Facts, ContinueStep DEF ResultInv
<1>4. PICK jobs \in {sh.jobs, sh.jobs \ {j}},
           stopped \in {sh.stopped, sh.stopped \ {j}, sh.stopped \cup {j}} :
        \/ Goto(Shell, "command") /\ sh' = AtPrompt(jobs, stopped)
        \/ /\ pc' = pc
           /\ sh' = [sh EXCEPT !.jobs = jobs, !.stopped = stopped, !.todo = @ \ {j}]
  <2> DEFINE mine == sh.found = k.pid[j] \/ r.pid = k.pid[j]
             halted == mine /\ "STOPPED" \in {r.status, sh.how}
             ended == mine /\ ~halted
                        /\ {r.status, sh.how} \cap {"EXITED", "SIGNALED"} # {}
             J == IF ended THEN sh.jobs \ {j} ELSE sh.jobs
             S == IF ended THEN sh.stopped \ {j}
                  ELSE IF halted THEN sh.stopped \cup {j} ELSE sh.stopped
  <2>1. \/ Goto(Shell, "command") /\ sh' = AtPrompt(J, S)
        \/ /\ pc' = pc
           /\ sh' = [sh EXCEPT !.jobs = J, !.stopped = S, !.todo = @ \ {j}]
    BY DEF PollJob
  <2> HIDE DEF ended, halted
  <2>2. /\ J \in {sh.jobs, sh.jobs \ {j}}
        /\ S \in {sh.stopped, sh.stopped \ {j}, sh.stopped \cup {j}}
    OBVIOUS
  <2> HIDE DEF J, S
  <2> QED BY <2>1, <2>2
<1>5. jobs \in SUBSET (Proc \ {Shell}) /\ stopped \in SUBSET (Proc \ {Shell})
  BY <1>1, <1>4, ShellFacts
<1>6. "command" \in ShellPlace
  BY DEF ShellPlace
<1>7. ShellPart'
  <2>1. ASSUME Goto(Shell, "command"), sh' = AtPrompt(jobs, stopped)
        PROVE  ShellPart'
    <3>1. sh' \in ShellState
      BY <1>5, <2>1 DEF AtPrompt, ShellState, Status
    <3>2. Shell \notin sh'.jobs \cup sh'.stopped \cup sh'.todo \cup {sh'.job, sh'.child}
      BY <1>5, <2>1, Facts DEF AtPrompt
    <3> QED BY <1>6, <2>1, <3>1, <3>2, Facts, ShellMoves
  <2>2. ASSUME pc' = pc,
               sh' = [sh EXCEPT !.jobs = jobs, !.stopped = stopped, !.todo = @ \ {j}]
        PROVE  ShellPart'
    <3>1. sh' \in ShellState
      BY <1>5, <2>2, ShellFacts DEF ShellState
    <3>2. /\ sh'.jobs = jobs /\ sh'.stopped = stopped /\ sh'.todo = sh.todo \ {j}
          /\ sh'.job = sh.job /\ sh'.child = sh.child
      BY <2>2, ShellFacts DEF ShellState
    <3>3. Shell \notin sh'.jobs \cup sh'.stopped \cup sh'.todo \cup {sh'.job, sh'.child}
      BY <1>5, <3>2, Facts, ShellFacts DEF ShellPart
    <3> QED BY <2>2, <3>1, <3>2, <3>3, Facts DEF ShellPart
  <2> QED BY <1>4, <2>1, <2>2
<1> QED BY <1>3, <1>7, Facts, IInvNext DEF PollJob

\* A command without effect.
LEMMA BlankStep == IInv /\ Blank => IInv'
<1> SUFFICES ASSUME IInv, Blank PROVE IInv'
  OBVIOUS
<1>1. KernelPart'
  BY Facts, ContinueStep DEF Blank
<1>2. ShellPart'
  BY Facts, ShellFacts, ToPromptStep DEF Blank
<1> QED BY <1>1, <1>2, Facts, IInvNext DEF Blank

\* Starting a program.
LEMMA CommandStep == "link" \notin Windows /\ IInv /\ Command => IInv'
<1> SUFFICES ASSUME "link" \notin Windows, IInv, Command PROVE IInv'
  OBVIOUS
<1> DEFINE new == k.made + 1
<1>1. PICK program \in Programs, mode \in Modes, nice \in {{}} \cup {{n} : n \in Nices} :
        /\ p_spawn(Shell, program, IF nice = {} THEN "launch" ELSE "nice")
        /\ sh' = [sh EXCEPT !.job = IF "link" \in Windows THEN None ELSE k.made + 1,
                            !.mode = mode,
                            !.prio = IF nice = {} THEN 0 ELSE CHOOSE n \in nice : TRUE]
  BY DEF Command
<1> DEFINE next == IF nice = {} THEN "launch" ELSE "nice"
           start == StartPlace(program)
           prio == IF nice = {} THEN 0 ELSE CHOOSE n \in nice : TRUE
<1>2. program \in Program /\ mode \in {"fg", "bg", "resume"} /\ prio \in Int
  BY ConstantsAssumption
<1>3. next \in ShellPlace /\ next \in Place \ {"link"} /\ next \in {"launch", "nice"}
  BY DEF ShellPlace, Place
<1>4. sh' = [sh EXCEPT !.job = new, !.mode = mode, !.prio = prio]
  BY <1>1
<1>5. p_spawn(Shell, program, next)
  BY <1>1
<1> HIDE DEF next, prio
<1>6. /\ KernelPart' /\ req' = req
      /\ new \in Proc \ {Shell}
      /\ pc' = [pc EXCEPT ![Shell] = next, ![new] = start]
      /\ start \in Place \ ({"link"} \cup ShellPlace)
  BY <1>2, <1>3, <1>5, Facts, SpawnStep
<1> HIDE DEF new, start
<1>7. ShellPart'
  <2>1. /\ pc' \in [Proc -> Place] /\ pc'[Shell] = next
        /\ \A q \in Proc : pc'[q] # "link"
    BY <1>3, <1>6, Facts DEF ShellPart
  <2>2. sh' \in ShellState
    BY <1>2, <1>4, <1>6, ShellFacts DEF ShellState
  <2>3. /\ sh'.jobs = sh.jobs /\ sh'.stopped = sh.stopped /\ sh'.todo = sh.todo
        /\ sh'.job = new /\ sh'.child = sh.child
    BY <1>4, ShellFacts DEF ShellState
  <2>4. Shell \notin sh'.jobs \cup sh'.stopped \cup sh'.todo \cup {sh'.job, sh'.child}
    BY <1>6, <2>3, Facts DEF ShellPart
  <2> QED BY <1>3, <1>6, <2>1, <2>2, <2>3, <2>4, Facts DEF ShellPart
<1> QED BY <1>6, <1>7, Facts, IInvNext DEF Command

\* nice.
LEMMA NiceStep == IInv /\ Nice => IInv'
<1> SUFFICES ASSUME IInv, Nice PROVE IInv'
  OBVIOUS
<1>1. sh.prio \in Int /\ sh.job \in Proc \ {Shell}
  BY ShellFacts DEF Nice, At, ShellState
<1>2. KernelPart'
  BY <1>1, Facts, p_niceInv, ContinueStep DEF Nice
<1>3. ShellPart'
  <2>1. "launch" \in ShellPlace /\ sh.job # None
    BY <1>1, Facts DEF ShellPlace
  <2> QED BY <2>1, Facts, ShellGoesOn DEF Nice
<1> QED BY <1>2, <1>3, Facts, IInvNext DEF Nice

\* nice_pid.
LEMMA NicePidStep == IInv /\ NicePid => IInv'
<1> SUFFICES ASSUME IInv, NicePid PROVE IInv'
  OBVIOUS
<1>1. PICK p \in k.table, n \in Nices : Continue(p_nice(k, k.pid[p], n))
  BY DEF NicePid
<1>2. KernelInv(p_nice(k, k.pid[p], n))
  BY Facts, p_niceInv, ConstantsAssumption
<1>3. KernelPart'
  BY <1>1, <1>2, Facts, ContinueStep
<1>4. ShellPart'
  BY Facts, ShellFacts, ToPromptStep DEF NicePid
<1> QED BY <1>3, <1>4, Facts, IInvNext DEF NicePid

\* fg.
LEMMA ForegroundStep == ASSUME NEW j \in Proc PROVE IInv /\ Foreground(j) => IInv'
<1> SUFFICES ASSUME IInv, Foreground(j) PROVE IInv'
  OBVIOUS
<1>1. j # Shell
  BY ShellFacts DEF Foreground
<1>2. KernelPart'
  BY Facts, ContinueStep DEF Foreground
<1>3. sh' = [sh EXCEPT !.jobs = @ \ {j}, !.stopped = @ \ {j}, !.job = j,
                       !.mode = "resume"]
  BY DEF Foreground
<1>4. ShellPart'
  <2>1. sh' \in ShellState
    BY <1>3, ShellFacts DEF ShellState
  <2>2. /\ sh'.jobs = sh.jobs \ {j} /\ sh'.stopped = sh.stopped \ {j}
        /\ sh'.todo = sh.todo /\ sh'.job = j /\ sh'.child = sh.child
    BY <1>3, ShellFacts DEF ShellState
  <2>3. Shell \notin sh'.jobs \cup sh'.stopped \cup sh'.todo \cup {sh'.job, sh'.child}
    BY <1>1, <2>2, Facts DEF ShellPart
  <2>4. "launch" \in ShellPlace /\ sh'.job # None
    BY <2>2, Facts DEF ShellPlace
  <2> QED BY <2>1, <2>3, <2>4, Facts, ShellMoves DEF Foreground
<1> QED BY <1>2, <1>4, Facts, IInvNext DEF Foreground

\* bg.
LEMMA BackgroundStep == ASSUME NEW j \in Proc PROVE IInv /\ Background(j) => IInv'
<1> SUFFICES ASSUME IInv, Background(j) PROVE IInv'
  OBVIOUS
<1>1. j # Shell
  BY ShellFacts DEF Background
<1>2. CASE Continue(k) /\ ToPrompt(sh.jobs, sh.stopped)
  <2>1. KernelPart'
    BY <1>2, Facts, ContinueStep
  <2>2. ShellPart'
    BY <1>2, Facts, ShellFacts, ToPromptStep
  <2> QED BY <2>1, <2>2, Facts, IInvNext DEF Background
<1>3. CASE /\ schedule(p_kill(k, k.pid[j], "S_SIGCONT"))
           /\ Goto(Shell, "resumed")
           /\ sh' = [sh EXCEPT !.job = j]
  <2>1. KernelPart'
    <3>1. KernelInv(p_kill(k, k.pid[j], "S_SIGCONT"))
      BY <1>1, Facts, p_killInv DEF Signal
    <3> QED BY <1>3, <3>1, scheduleStep
  <2>2. ShellPart'
    <3>1. sh' \in ShellState
      BY <1>3, ShellFacts DEF ShellState
    <3>2. /\ sh'.jobs = sh.jobs /\ sh'.stopped = sh.stopped
          /\ sh'.todo = sh.todo /\ sh'.job = j /\ sh'.child = sh.child
      BY <1>3, ShellFacts DEF ShellState
    <3>3. Shell \notin sh'.jobs \cup sh'.stopped \cup sh'.todo \cup {sh'.job, sh'.child}
      BY <1>1, <3>2, Facts DEF ShellPart
    <3>4. "resumed" \in ShellPlace /\ sh'.job # None
      BY <3>2, Facts DEF ShellPlace
    <3> QED BY <1>3, <3>1, <3>3, <3>4, Facts, ShellMoves
  <2> QED BY <2>1, <2>2, Facts, IInvNext DEF Background
<1> QED BY <1>2, <1>3 DEF Background

\* The poll at the end of bg.
LEMMA ResumedStep == IInv /\ Resumed => IInv'
<1> SUFFICES ASSUME IInv, Resumed PROVE IInv'
  OBVIOUS
<1> DEFINE r == p_waitpid_nohang(k, Shell, k.pid[sh.job])
<1>1. sh.job \in Proc \ {Shell}
  BY ShellFacts DEF Resumed, At
<1>2. ResultInv(r)
  BY <1>1, Facts, p_waitpid_nohangInv
<1>3. KernelPart'
  <2>1. Continue(r.k)
    BY DEF Resumed
  <2> HIDE DEF r
  <2> QED BY <1>2, <2>1, Facts, ContinueStep DEF ResultInv
<1>4. ShellPart'
  <2>1. sh.stopped \ {sh.job} \in SUBSET (Proc \ {Shell})
    BY ShellFacts
  <2> QED BY <2>1, Facts, ShellFacts, ToPromptStep DEF Resumed
<1> QED BY <1>3, <1>4, Facts, IInvNext DEF Resumed

\* A job enters the queue or the foreground.
LEMMA LaunchStep == IInv /\ Launch => IInv'
<1> SUFFICES ASSUME IInv, Launch PROVE IInv'
  OBVIOUS
<1>1. sh.job \in Proc \ {Shell}
  BY ShellFacts DEF Launch, At
<1>2. CASE Continue(k) /\ ToPrompt(sh.jobs \cup {sh.job}, sh.stopped)
  <2>1. KernelPart'
    BY <1>2, Facts, ContinueStep
  <2>2. sh.jobs \cup {sh.job} \in SUBSET (Proc \ {Shell})
    BY <1>1, ShellFacts
  <2>3. ShellPart'
    BY <1>2, <2>2, Facts, ShellFacts, ToPromptStep
  <2> QED BY <2>1, <2>3, Facts, IInvNext DEF Launch
<1>3. CASE /\ schedule(p_kill(k, k.pid[sh.job], "S_SIGCONT"))
           /\ Goto(Shell, "wait")
           /\ sh' = sh
  <2>1. KernelPart'
    <3>1. KernelInv(p_kill(k, k.pid[sh.job], "S_SIGCONT"))
      BY <1>1, Facts, p_killInv DEF Signal
    <3> QED BY <1>3, <3>1, scheduleStep
  <2>2. "wait" \in ShellPlace /\ sh.job # None
    BY <1>1, Facts DEF ShellPlace
  <2>3. ShellPart'
    BY <1>3, <2>2, Facts, ShellGoesOn
  <2> QED BY <2>1, <2>3, Facts, IInvNext DEF Launch
<1>4. CASE /\ Continue(IF sh.mode = "resume" THEN k
                       ELSE [k EXCEPT !.power = "off"])
           /\ ToPrompt(sh.jobs, sh.stopped)
  <2>1. KernelPart'
    <3>1. KernelInv(IF sh.mode = "resume" THEN k ELSE [k EXCEPT !.power = "off"])
      BY Facts, PowerInv
    <3> QED BY <1>4, <3>1, Facts, ContinueStep
  <2>2. ShellPart'
    BY <1>4, Facts, ShellFacts, ToPromptStep
  <2> QED BY <2>1, <2>2, Facts, IInvNext DEF Launch
<1> QED BY <1>2, <1>3, <1>4 DEF Launch

\* The shell after a wait has returned a status.
LEMMA WaitedStep ==
  ASSUME IInv, NEW status, sh.job \in Proc \ {Shell}, Waited(status)
  PROVE  ShellPart'
<1>1. CASE ToPrompt(sh.jobs, sh.stopped)
  BY <1>1, Facts, ShellFacts, ToPromptStep
<1>2. CASE ToPrompt(sh.jobs \cup {sh.job}, sh.stopped \cup {sh.job})
  <2>1. /\ sh.jobs \cup {sh.job} \in SUBSET (Proc \ {Shell})
        /\ sh.stopped \cup {sh.job} \in SUBSET (Proc \ {Shell})
    BY ShellFacts
  <2> QED BY <1>2, <2>1, Facts, ToPromptStep
<1>3. CASE Goto(Shell, "wait") /\ sh' = [sh EXCEPT !.child = None]
  <2>1. sh' \in ShellState
    BY <1>3, ShellFacts DEF ShellState
  <2>2. /\ sh'.jobs = sh.jobs /\ sh'.stopped = sh.stopped
        /\ sh'.todo = sh.todo /\ sh'.job = sh.job /\ sh'.child = None
    BY <1>3, ShellFacts DEF ShellState
  <2>3. Shell \notin sh'.jobs \cup sh'.stopped \cup sh'.todo \cup {sh'.job, sh'.child}
    BY <2>2, Facts DEF ShellPart
  <2>4. "wait" \in ShellPlace /\ sh'.job # None
    BY <2>2, Facts DEF ShellPlace
  <2> QED BY <1>3, <2>1, <2>3, <2>4, Facts, ShellMoves
<1> QED BY <1>1, <1>2, <1>3 DEF Waited

\* The wait of putJobInForeground.
LEMMA WaitStep == IInv /\ Wait => IInv'
<1> SUFFICES ASSUME IInv, Wait PROVE IInv'
  OBVIOUS
<1> DEFINE n == Search(k, k.pid[sh.job])
           k1 == [k EXCEPT !.prev[n] = k.status[n]]
           now == IF IsZombieOf(k, Shell, k.pid[sh.job]) THEN ReapZombie(k, n)
                  ELSE IF Changed(k, n) THEN Report(k, n)
                  ELSE Nothing(k)
<1>1. sh.job \in Proc \ {Shell}
  BY ShellFacts DEF Wait, At
<1>2. n \in Proc /\ n # Shell
  BY <1>1, Facts, SearchResult, SearchNotShell, TableFacts DEF Wait
<1>3. \/ Continue(now.k) /\ Waited(now.status)
      \/ /\ sh' = [sh EXCEPT !.child = n]
         /\ \/ Continue(k1) /\ Goto(Shell, "block")
            \/ Block(k1)
  BY DEF Wait
<1> HIDE DEF n
<1>4. KernelInv(k1)
  BY <1>2, Facts, PrevInv
<1>5. ResultInv(now)
  BY <1>2, Facts, ReapZombieInv, ReportInv, NothingInv
<1> HIDE DEF k1, now
<1>6. CASE Continue(now.k) /\ Waited(now.status)
  <2>1. KernelPart'
    BY <1>5, <1>6, Facts, ContinueStep DEF ResultInv
  <2>2. ShellPart'
    BY <1>1, <1>6, WaitedStep
  <2> QED BY <2>1, <2>2, Facts, IInvNext DEF Wait
<1>7. CASE /\ sh' = [sh EXCEPT !.child = n]
           /\ \/ Continue(k1) /\ Goto(Shell, "block")
              \/ Block(k1)
  <2>1. KernelPart'
    <3>1. \A x : KernelInv(setForeground(k1, x))
      BY <1>4, setForegroundInv
    <3> QED BY <1>4, <1>7, <3>1, Facts, ContinueStep, scheduleStep DEF Block
  <2>2. PICK place \in {"block", "woken"} : Goto(Shell, place)
    BY <1>7 DEF Block
  <2>3. ShellPart'
    <3>1. sh' \in ShellState
      BY <1>2, <1>7, ShellFacts DEF ShellState
    <3>2. /\ sh'.jobs = sh.jobs /\ sh'.stopped = sh.stopped
          /\ sh'.todo = sh.todo /\ sh'.job = sh.job /\ sh'.child = n
      BY <1>7, ShellFacts DEF ShellState
    <3>3. Shell \notin sh'.jobs \cup sh'.stopped \cup sh'.todo \cup {sh'.job, sh'.child}
      BY <1>2, <3>2, Facts DEF ShellPart
    <3>4. place \in ShellPlace /\ sh'.job # None /\ sh'.child # None
      BY <1>1, <1>2, <3>2, Facts DEF ShellPlace
    <3> QED BY <2>2, <3>1, <3>3, <3>4, Facts, ShellMoves
  <2> QED BY <2>1, <2>3, Facts, IInvNext DEF Wait
<1> QED BY <1>3, <1>6, <1>7

\* Its second half after a tick.
LEMMA BlockLateStep == IInv /\ BlockLate => IInv'
<1> SUFFICES ASSUME IInv, BlockLate PROVE IInv'
  OBVIOUS
<1>1. sh.job \in Proc \ {Shell} /\ sh.child \in Proc \ {Shell}
  BY ShellFacts DEF BlockLate, At
<1>2. KernelPart'
  BY Facts, setForegroundInv, scheduleStep DEF BlockLate, Block
<1>3. ShellPart'
  <2>1. "woken" \in ShellPlace /\ sh.job # None /\ sh.child # None
    BY <1>1, Facts DEF ShellPlace
  <2> QED BY <2>1, Facts, ShellGoesOn DEF BlockLate, Block
<1> QED BY <1>2, <1>3, Facts, IInvNext DEF BlockLate

\* The shell wakes up from its wait.
LEMMA WokenStep == IInv /\ Woken => IInv'
<1> SUFFICES ASSUME IInv, Woken PROVE IInv'
  OBVIOUS
<1> DEFINE now == IF Changed(k, sh.child) THEN Report(k, sh.child) ELSE Nothing(k)
<1>1. sh.job \in Proc \ {Shell} /\ sh.child \in Proc \ {Shell}
  BY ShellFacts DEF Woken, At
<1>2. ResultInv(now)
  BY <1>1, Facts, ReportInv, NothingInv
<1>3. Continue(now.k) /\ Waited(now.status)
  BY DEF Woken
<1> HIDE DEF now
<1>4. KernelPart'
  BY <1>2, <1>3, Facts, ContinueStep DEF ResultInv
<1>5. ShellPart'
  BY <1>1, <1>3, WaitedStep
<1> QED BY <1>4, <1>5, Facts, IInvNext DEF Woken

\* Stuttering, and a system that has halted.
LEMMA UnchangedStep == IInv /\ UNCHANGED vars => IInv'
BY DEF vars, IInv, TypeOK

-----------------------------------------------------------------------------
\* IInv is inductive, as long as no tick splits k_process_create.
LEMMA NextIInv == "link" \notin Windows /\ IInv /\ [Next]_vars => IInv'
<1> SUFFICES ASSUME "link" \notin Windows, IInv, [Next]_vars PROVE IInv'
  OBVIOUS
<1>1. CASE Tick
  BY <1>1, TickStep
<1>2. ASSUME NEW signal \in Keys, Key(signal) PROVE IInv'
  BY <1>2, KeyStep
<1>3. CASE ShellStep
  <2>1. ASSUME NEW j \in Proc, PollJob(j) \/ Foreground(j) \/ Background(j)
        PROVE  IInv'
    BY <2>1, PollJobStep, ForegroundStep, BackgroundStep
  <2> QED BY <1>3, <2>1, PromptStep, LogoutStep, PollStep, BlankStep, CommandStep,
             NiceStep, NicePidStep, ResumedStep, LaunchStep, WaitStep,
             BlockLateStep, WokenStep DEF ShellStep
<1>4. ASSUME NEW p \in Proc, ProgramStep(p) PROVE IInv'
  BY <1>4, SpawnChildStep, LinkStep, SleepStep, EnrolStep, KillStep, ReturnStep
     DEF ProgramStep
<1>5. CASE Halted
  BY <1>5, UnchangedStep DEF Halted
<1>6. CASE UNCHANGED vars
  BY <1>6, UnchangedStep
<1> QED BY <1>1, <1>2, <1>3, <1>4, <1>5, <1>6 DEF Next

\* The inductive invariant is an invariant.
THEOREM Invariance == ASSUME "link" \notin Windows PROVE Spec => []IInv
<1>1. IInv /\ [Next]_vars => IInv'
  BY NextIInv
<1> QED BY InitIInv, <1>1, PTL DEF Spec

\* Every variable keeps its type.
THEOREM TypeCorrect == ASSUME "link" \notin Windows PROVE Spec => []TypeOK
<1>1. IInv => TypeOK
  BY DEF IInv
<1> QED BY <1>1, Invariance, PTL

\* The pids of the process table ascend, so that they are unique: every search
\* by pid finds the process that was meant.
THEOREM PidsAlwaysAscend == ASSUME "link" \notin Windows PROVE Spec => []PidsAscending
<1>1. IInv => PidsAscending
  BY DEF IInv, KernelInv, PidsAscending
<1> QED BY <1>1, Invariance, PTL

\* The ready queues hold processes of the table only: the scheduler never runs
\* a pcb that was freed.
THEOREM QueuedAlwaysInTable == ASSUME "link" \notin Windows PROVE Spec => []QueuedInTable
<1>1. IInv => QueuedInTable
  BY DEF IInv, KernelInv, QueuedInTable
<1> QED BY <1>1, Invariance, PTL

\* A children list leads to processes of the table, whose parent has that list.
THEOREM ChildrenAlwaysInTable ==
  ASSUME "link" \notin Windows PROVE Spec => []ChildrenInTable
<1>1. IInv => ChildrenInTable
  BY DEF IInv, KernelInv, ChildrenInTable
<1> QED BY <1>1, Invariance, PTL

-----------------------------------------------------------------------------
(***************************************************************************)
(* What the scheduler never runs: a process that left the ready queues     *)
(* never comes back, and a process whose function has returned is never    *)
(* resumed. Both rest on one relation between kernel states, NoRevival,    *)
(* which every call of the kernel satisfies except the creation of a       *)
(* process and p_sleep: nothing enters a queue, and no sleeper is made     *)
(* ready. The second needs that no search by pid for a parent ever finds a *)
(* sleeper, since unblockParent would make it ready.                       *)
(***************************************************************************)
\* The process that has pid x now, if there is one, is no sleeper.
Awake(s, x) == \A q \in s.table : s.pid[q] = x => s.prog[q] # "sleep"

\* Process c was created, and its parent is no sleeper.
SafeChild(s, c) == c <= s.made /\ Awake(s, s.ppid[c])

\* From s to t no process has been created, put into the table, a ready queue or
\* the sleep queue, given ticks or, if it is a sleeper, made ready.
NoRevival(s, t) ==
  /\ t.made = s.made /\ t.pid = s.pid /\ t.ppid = s.ppid /\ t.prog = s.prog
  /\ t.table \subseteq s.table /\ t.queued \subseteq s.queued
  /\ t.asleep \subseteq s.asleep
  /\ \A p \in Proc : s.ticks[p] = -1 => t.ticks[p] = -1
  /\ \A p \in Proc : s.prog[p] = "sleep" /\ t.status[p] = "READY" =>
                       s.status[p] = "READY"

\* NoRevival is a preorder ...
LEMMA Stays == ASSUME NEW s PROVE NoRevival(s, s)
BY DEF NoRevival

\* ... so that it can be followed through the calls of a handler ...
LEMMA Follows ==
  ASSUME NEW s, NEW t, NEW u, NoRevival(s, t), NoRevival(t, u)
  PROVE  NoRevival(s, u)
BY DEF NoRevival

\* ... and a pid that belongs to no sleeper is not given to one.
LEMMA StaysAwake ==
  ASSUME NEW s, NEW t, NoRevival(s, t), NEW x, Awake(s, x)
  PROVE  Awake(t, x)
BY DEF NoRevival, Awake

\* The same for a child.
LEMMA StaysSafe ==
  ASSUME NEW s, NEW t, NoRevival(s, t), NEW c, SafeChild(s, c)
  PROVE  SafeChild(t, c)
<1>1. t.ppid[c] = s.ppid[c] /\ t.made = s.made
  BY DEF NoRevival
<1> QED BY <1>1, StaysAwake DEF SafeChild

-----------------------------------------------------------------------------
\* A new status, other than READY for a sleeper.
LEMMA StatusCalm ==
  ASSUME NEW s, KernelInv(s), NEW p \in Proc, NEW v \in Status,
         v # "READY" \/ s.prog[p] # "sleep"
  PROVE  NoRevival(s, [s EXCEPT !.status[p] = v])
BY DEF NoRevival, KernelInv, KernelState

\* prevStatus.
LEMMA PrevCalm ==
  ASSUME NEW s, KernelInv(s), NEW p \in Proc, NEW v
  PROVE  NoRevival(s, [s EXCEPT !.prev[p] = v])
BY DEF NoRevival, KernelInv, KernelState

\* The end of PennOS.
LEMMA PowerCalm ==
  ASSUME NEW s, KernelInv(s), NEW v
  PROVE  NoRevival(s, [s EXCEPT !.power = v])
BY DEF NoRevival, KernelInv, KernelState

\* Another foreground process.
LEMMA FgCalm ==
  ASSUME NEW s, KernelInv(s), NEW p
  PROVE  NoRevival(s, [s EXCEPT !.fg = p])
BY DEF NoRevival, KernelInv, KernelState

\* Leaving the ready queue; the process itself is gone from it for certain.
LEMMA removeFromSchedulerCalm ==
  ASSUME NEW s, KernelInv(s), NEW p \in Proc
  PROVE  /\ NoRevival(s, removeFromScheduler(s, p))
         /\ p \notin removeFromScheduler(s, p).queued
BY DEF NoRevival, KernelInv, KernelState, removeFromScheduler, SameSlot

\* A new zombie.
LEMMA PushZombieCalm ==
  ASSUME NEW s, KernelInv(s), NEW parent \in Proc, NEW p \in Proc
  PROVE  NoRevival(s, PushZombie(s, parent, p))
BY DEF NoRevival, KernelInv, KernelState, PushZombie

\* Fewer zombies.
LEMMA PopZombieCalm ==
  ASSUME NEW s, KernelInv(s), NEW parent \in Proc, NEW z
  PROVE  NoRevival(s, [s EXCEPT !.zombies[parent] = @ \ {z}])
BY DEF NoRevival, KernelInv, KernelState

\* Reaping.
LEMMA ReapCalm ==
  ASSUME NEW s, KernelInv(s), NEW D
  PROVE  NoRevival(s, Reap(s, D))
BY DEF NoRevival, KernelInv, KernelState, Reap

\* k_process_cleanup.
LEMMA k_process_cleanupCalm ==
  ASSUME NEW s, KernelInv(s), NEW p
  PROVE  NoRevival(s, k_process_cleanup(s, p))
BY ReapCalm, Stays DEF k_process_cleanup

\* clearZombiesAndChildren.
LEMMA clearZombiesAndChildrenCalm ==
  ASSUME NEW s, KernelInv(s), NEW p
  PROVE  NoRevival(s, clearZombiesAndChildren(s, p))
BY ReapCalm DEF clearZombiesAndChildren

\* setForeground blocks, but readies nobody.
LEMMA setForegroundCalm ==
  ASSUME NEW s, KernelInv(s), NEW x
  PROVE  NoRevival(s, setForeground(s, x))
<1> DEFINE n == Search(s, x)
           parent == Search(s, s.ppid[n])
           t == [s EXCEPT !.fg = n]
<1>1. NoRevival(s, s) /\ NoRevival(s, Crash(s)) /\ NoRevival(s, t)
  BY Stays, PowerCalm, FgCalm DEF Crash
<1>2. n # None => n \in Proc
  BY SearchResult, TableFacts
<1>3. parent # None => parent \in Proc
  BY SearchResult, TableFacts
<1> HIDE DEF n, parent
<1>4. ASSUME n # None, parent # None
      PROVE  NoRevival(s, [s EXCEPT !.fg = n, !.status[parent] = "BLOCKED"])
  BY <1>2, <1>3, <1>4 DEF NoRevival, KernelInv, KernelState
<1> QED BY <1>1, <1>4 DEF setForeground, n, parent

\* unblockParent of a pid that is no sleeper's.
LEMMA unblockParentCalm ==
  ASSUME NEW s, KernelInv(s), NEW x, Awake(s, x)
  PROVE  NoRevival(s, unblockParent(s, x))
<1> DEFINE parent == Search(s, x)
           t == [s EXCEPT !.status[parent] = "READY"]
<1>1. ASSUME parent # None PROVE NoRevival(s, setForeground(t, x))
  <2>1. parent \in s.table /\ s.pid[parent] = x
    BY <1>1, SearchResult
  <2>2. parent \in Proc /\ s.prog[parent] # "sleep" /\ "READY" \in Status
    BY <2>1, TableFacts DEF Awake, Status
  <2> HIDE DEF parent
  <2>3. KernelInv(t) /\ NoRevival(s, t)
    BY <2>2, StatusInv, StatusCalm
  <2> HIDE DEF t
  <2> QED BY <2>3, setForegroundCalm, Follows
<1> QED BY <1>1, Stays DEF unblockParent

\* unblockParent behind its test.
LEMMA unblockIfForegroundCalm ==
  ASSUME NEW s, KernelInv(s), NEW p, Awake(s, s.ppid[p])
  PROVE  NoRevival(s, unblockIfForeground(s, p))
BY unblockParentCalm, Stays DEF unblockIfForeground

\* dealWithUnwaitedProcess; the process is in no ready queue afterwards.
LEMMA dealWithUnwaitedProcessCalm ==
  ASSUME NEW s, KernelInv(s), NEW p \in Proc, p # Shell
  PROVE  /\ NoRevival(s, dealWithUnwaitedProcess(s, p))
         /\ p \notin dealWithUnwaitedProcess(s, p).queued
<1> DEFINE s1 == removeFromScheduler(s, p)
           parent == Search(s1, s.ppid[p])
           s2 == PushZombie(s1, parent, p)
           s3 == clearZombiesAndChildren(s2, p)
           r == dealWithUnwaitedProcess(s, p)
<1>1. KernelInv(s1) /\ NoRevival(s, s1) /\ p \notin s1.queued
  BY removeFromSchedulerInv, removeFromSchedulerCalm
<1> HIDE DEF s1
<1>2. parent = None \/ parent \in Proc
  BY <1>1, SearchResult, TableFacts
<1> HIDE DEF parent
<1>3. NoRevival(s1, Crash(s1))
  BY <1>1, PowerCalm DEF Crash
<1>4. parent # None => KernelInv(s2) /\ NoRevival(s1, s2)
  BY <1>1, <1>2, PushZombieInv, PushZombieCalm
<1> HIDE DEF s2
<1>5. parent # None => NoRevival(s1, s3)
  BY <1>4, clearZombiesAndChildrenCalm, Follows
<1> HIDE DEF s3
<1>6. r = IF parent = None THEN Crash(s1) ELSE s3
  BY DEF dealWithUnwaitedProcess, s1, parent, s2, s3
<1> HIDE DEF r
<1>7. NoRevival(s1, r)
  BY <1>3, <1>5, <1>6
<1>8. NoRevival(s, r)
  BY <1>1, <1>7, Follows
<1>9. p \notin r.queued
  BY <1>1, <1>7 DEF NoRevival
<1> QED BY <1>8, <1>9 DEF r

\* k_process_kill: a sleeper that is continued is blocked again.
LEMMA k_process_killCalm ==
  ASSUME NEW s, KernelInv(s), NEW p \in Proc, NEW signal \in Signal,
         p # Shell \/ signal # "S_SIGTERM", Awake(s, s.ppid[p])
  PROVE  NoRevival(s, k_process_kill(s, p, signal))
<1> DEFINE with(v) == [s EXCEPT !.status[p] = v]
<1>1. {"STOPPED", "BLOCKED", "READY", "SIGNALED"} \subseteq Status
  BY DEF Status
<1>2. ASSUME NEW v \in {"STOPPED", "BLOCKED", "SIGNALED"}
      PROVE  /\ KernelInv(with(v)) /\ NoRevival(s, with(v))
             /\ Awake(with(v), with(v).ppid[p])
  <2>1. KernelInv(with(v)) /\ NoRevival(s, with(v))
    BY <1>1, StatusInv, StatusCalm
  <2> HIDE DEF with
  <2>2. Awake(with(v), s.ppid[p])
    BY <2>1, StaysAwake
  <2> QED BY <2>1, <2>2 DEF NoRevival
<1>3. CASE signal = "S_SIGSTOP"
  <2>1. k_process_kill(s, p, signal) = unblockIfForeground(with("STOPPED"), p)
    BY <1>3 DEF k_process_kill
  <2> HIDE DEF with
  <2> QED BY <1>2, <2>1, unblockIfForegroundCalm, Follows
<1>4. CASE signal = "S_SIGCONT"
  <2>1. s.prog[p] # "sleep" => NoRevival(s, with("READY"))
    BY <1>1, StatusCalm
  <2>2. k_process_kill(s, p, signal) =
          IF s.status[p] # "STOPPED" THEN s
          ELSE with(IF s.prog[p] = "sleep" THEN "BLOCKED" ELSE "READY")
    BY <1>4 DEF k_process_kill
  <2> HIDE DEF with
  <2> QED BY <1>2, <2>1, <2>2, Stays
<1>5. CASE signal = "S_SIGTERM"
  <2> DEFINE s1 == with("SIGNALED")
             s2 == unblockIfForeground(s1, p)
  <2>1. /\ KernelInv(s1) /\ NoRevival(s, s1) /\ Awake(s1, s1.ppid[p])
    BY <1>2
  <2>2. k_process_kill(s, p, signal) = dealWithUnwaitedProcess(s2, p)
    BY <1>5 DEF k_process_kill
  <2> HIDE DEF s1
  <2>3. KernelInv(s2) /\ NoRevival(s1, s2)
    BY <2>1, unblockIfForegroundInv, unblockIfForegroundCalm
  <2> HIDE DEF s2
  <2>4. NoRevival(s2, dealWithUnwaitedProcess(s2, p))
    BY <1>5, <2>3, dealWithUnwaitedProcessCalm
  <2> QED BY <2>1, <2>2, <2>3, <2>4, Follows
<1> QED BY <1>3, <1>4, <1>5 DEF Signal

-----------------------------------------------------------------------------
(***************************************************************************)
(* What is true of sleepers in every kernel state: the shell started them, *)
(* the sleep queue holds nobody else, only they have ticks, and no process *)
(* of the table has a sleeper for parent, because a pid that is given to a *)
(* sleeper is greater than the pid of every parent of the table.           *)
(***************************************************************************)
SleepersSound(s) ==
  /\ s.prog[Shell] # "sleep" /\ s.ppid[Shell] = 1
  /\ \A p \in Proc : s.prog[p] = "sleep" => p <= s.made /\ s.ppid[p] = 1
  /\ \A n \in s.asleep : s.prog[n.of] = "sleep"
  /\ \A p \in s.table \ {Shell} : s.ppid[p] < s.pid[p]
  /\ \A p \in s.table : Awake(s, s.ppid[p])
  /\ \A p \in Proc : s.ticks[p] # -1 => s.prog[p] = "sleep"

\* Calls that revive nobody keep it.
LEMMA CalmSound ==
  ASSUME NEW s, NEW t, SleepersSound(s), NoRevival(s, t)
  PROVE  SleepersSound(t)
<1>1. \A p \in t.table : Awake(t, t.ppid[p])
  BY StaysAwake DEF SleepersSound, NoRevival
<1> QED BY <1>1 DEF SleepersSound, NoRevival

\* Pid 1 is no sleeper's.
LEMMA ShellAwake ==
  ASSUME NEW s, KernelInv(s), SleepersSound(s)
  PROVE  Awake(s, 1)
<1>1. \A q \in s.table : s.pid[q] = 1 => q = Shell
  BY TableFacts
<1> QED BY <1>1 DEF Awake, SleepersSound

\* Leaving the sleep queue.
LEMMA LeaveAsleepCalm ==
  ASSUME NEW s, KernelInv(s), NEW n
  PROVE  /\ KernelInv([s EXCEPT !.asleep = @ \ {n}])
         /\ NoRevival(s, [s EXCEPT !.asleep = @ \ {n}])
<1>1. KernelInv([s EXCEPT !.asleep = @ \ {n}])
  BY DEF KernelInv, KernelState
<1>2. NoRevival(s, [s EXCEPT !.asleep = @ \ {n}])
  BY DEF KernelInv, KernelState, NoRevival
<1> QED BY <1>1, <1>2

\* The end of a sleeper: its parent is the shell, even when the sleeper is gone
\* and its pid belongs to another process.
LEMMA RetireSleeperCalm ==
  ASSUME NEW s, KernelInv(s), SleepersSound(s), NEW n \in s.asleep
  PROVE  NoRevival(s, RetireSleeper(s, n))
<1> DEFINE p == n.of
           s1 == IF s.status[p] = "SIGNALED" THEN s
                 ELSE [s EXCEPT !.status[p] = "EXITED"]
           parent == Search(s1, s1.ppid[p])
           d == dealWithUnwaitedProcess(s1, p)
           s2 == [d EXCEPT !.asleep = @ \ {n}]
<1>1. p \in Proc /\ p # Shell /\ s.ppid[p] = 1
  BY DEF KernelInv, KernelState, Node, SleepersSound
<1> HIDE DEF p
<1>2. KernelInv(s1) /\ NoRevival(s, s1)
  <2>1. "EXITED" \in Status
    BY DEF Status
  <2> QED BY <1>1, <2>1, StatusInv, StatusCalm, Stays
<1> HIDE DEF s1
<1>3. KernelInv(d) /\ NoRevival(s1, d)
  BY <1>1, <1>2, dealWithUnwaitedProcessInv, dealWithUnwaitedProcessCalm
<1> HIDE DEF d
<1>4. KernelInv(s2) /\ NoRevival(d, s2)
  BY <1>3, LeaveAsleepCalm
<1> HIDE DEF s2
<1>5. NoRevival(s, s2)
  BY <1>2, <1>3, <1>4, Follows
<1>6. parent # None => s.pid[parent] = 1
  <2>1. parent # None => s1.pid[parent] = s1.ppid[p]
    BY <1>2, SearchResult
  <2> QED BY <1>1, <1>2, <2>1 DEF NoRevival
<1> HIDE DEF parent
<1>7. NoRevival(s2, unblockParent(s2, 1))
  BY <1>4, <1>5, ShellAwake, StaysAwake, unblockParentCalm
<1>8. NoRevival(s, unblockParent(s2, 1))
  BY <1>5, <1>7, Follows
<1>9. NoRevival(s, IF parent # None /\ s.pid[p] = s.pid[s.fg]
                     THEN unblockParent(s2, s.pid[parent]) ELSE s2)
  BY <1>5, <1>6, <1>8
<1> QED BY <1>9 DEF RetireSleeper, p, s1, parent, d, s2

\* A tick gives ticks to nobody.
LEMMA CountDownCalm ==
  ASSUME NEW s, KernelInv(s)
  PROVE  NoRevival(s, CountDown(s))
<1> DEFINE first(n) == \A m \in Finished(s) : n.at < m.at
           awake == {n.of : n \in {n \in s.asleep : first(n)}}
           ticks == [p \in Proc |->
                       IF p \in awake /\ s.ticks[p] > 0 /\ s.status[p] # "STOPPED"
                         THEN s.ticks[p] - 1 ELSE s.ticks[p]]
<1>1. CountDown(s) = [s EXCEPT !.ticks = ticks]
  BY DEF CountDown
<1> HIDE DEF awake
<1>2. \A p \in Proc : s.ticks[p] = -1 => ticks[p] = -1
  OBVIOUS
<1> HIDE DEF ticks
<1>3. NoRevival(s, [s EXCEPT !.ticks = ticks])
  BY <1>2 DEF NoRevival, KernelInv, KernelState
<1> QED BY <1>1, <1>3

\* decrementTicks.
LEMMA decrementTicksCalm ==
  ASSUME NEW s, KernelInv(s), SleepersSound(s)
  PROVE  NoRevival(s, decrementTicks(s))
<1> DEFINE t == CountDown(s)
           first == CHOOSE n \in Finished(s) : \A m \in Finished(s) : n.at <= m.at
<1>1. KernelInv(t) /\ t.asleep = s.asleep /\ NoRevival(s, t) /\ SleepersSound(t)
  BY CountDownInv, CountDownCalm, CalmSound
<1>2. Finished(s) # {} => first \in s.asleep
  <2> SUFFICES ASSUME Finished(s) # {} PROVE first \in s.asleep
    OBVIOUS
  <2> DEFINE T == {n.at : n \in Finished(s)}
  <2>1. T \subseteq Nat /\ T # {}
    BY DEF Finished, KernelInv, KernelState, Node
  <2>2. PICK x \in T : \A y \in T : x <= y
    <3> HIDE DEF T
    <3> QED BY <2>1, LeastNat
  <2>3. \E n \in Finished(s) : \A m \in Finished(s) : n.at <= m.at
    BY <2>2
  <2> QED BY <2>3 DEF Finished
<1> HIDE DEF t, first
<1>3. Finished(s) # {} => NoRevival(s, RetireSleeper(t, first))
  BY <1>1, <1>2, RetireSleeperCalm, Follows
<1> QED BY <1>1, <1>3 DEF decrementTicks, t, first

\* The end of a process whose function returned: unless it still sleeps it is
\* in no ready queue afterwards.
LEMMA RetireReturnedCalm ==
  ASSUME NEW s, KernelInv(s), NEW p \in Proc, p # Shell, Awake(s, s.ppid[p])
  PROVE  /\ NoRevival(s, RetireReturned(s, p))
         /\ s.ticks[p] > 0 \/ p \notin RetireReturned(s, p).queued
<1> DEFINE s1 == [s EXCEPT !.status[p] = "EXITED"]
           s2 == dealWithUnwaitedProcess(s1, p)
           s3 == unblockIfForeground(s2, p)
<1>1. KernelInv(s1) /\ NoRevival(s, s1)
  <2>1. "EXITED" \in Status
    BY DEF Status
  <2> QED BY <2>1, StatusInv, StatusCalm
<1> HIDE DEF s1
<1>2. KernelInv(s2) /\ NoRevival(s1, s2) /\ p \notin s2.queued
  BY <1>1, dealWithUnwaitedProcessInv, dealWithUnwaitedProcessCalm
<1> HIDE DEF s2
<1>3. NoRevival(s, s2)
  BY <1>1, <1>2, Follows
<1>4. Awake(s2, s2.ppid[p])
  <2>1. s2.ppid[p] = s.ppid[p]
    BY <1>3 DEF NoRevival
  <2> QED BY <1>3, <2>1, StaysAwake
<1>5. NoRevival(s2, s3)
  BY <1>2, <1>4, unblockIfForegroundCalm
<1>6. p \notin s3.queued
  BY <1>2, <1>5 DEF NoRevival
<1> HIDE DEF s3
<1>7. RetireReturned(s, p) = IF s.ticks[p] > 0 THEN s ELSE s3
  BY DEF RetireReturned, s1, s2, s3
<1> QED BY <1>3, <1>5, <1>6, <1>7, Stays, Follows

-----------------------------------------------------------------------------
\* p_kill.
LEMMA p_killCalm ==
  ASSUME NEW s, KernelInv(s), SleepersSound(s), NEW x, x # 1, NEW signal \in Signal
  PROVE  NoRevival(s, p_kill(s, x, signal))
<1> DEFINE n == Search(s, x)
<1>1. n # None => n \in Proc /\ n # Shell /\ Awake(s, s.ppid[n])
  BY SearchResult, SearchNotShell, TableFacts DEF SleepersSound
<1> HIDE DEF n
<1>2. n # None => NoRevival(s, k_process_kill(s, n, signal))
  BY <1>1, k_process_killCalm
<1> QED BY <1>2, Stays DEF p_kill, n

\* Pids are unique in the table.
LEMMA SamePid ==
  ASSUME NEW s, KernelInv(s), NEW p \in s.table, NEW q \in s.table, s.pid[p] = s.pid[q]
  PROVE  p = q
<1>1. p \in Nat /\ q \in Nat /\ s.pid[p] \in Nat
  BY TableFacts, MaxProcAssumption DEF Proc
<1>2. ~(p < q) /\ ~(q < p)
  BY <1>1 DEF KernelInv
<1> QED BY <1>1, <1>2

\* p_nice moves a process from one ready queue to another, because it has looked
\* for it in the first: a process in no queue is not found there.
LEMMA p_niceCalm ==
  ASSUME NEW s, KernelInv(s), NEW x, NEW priority
  PROVE  NoRevival(s, p_nice(s, x, priority))
<1> DEFINE n == Search(s, x)
           slot == {q \in s.queued : SameSlot(s, n, q)}
           Q == (s.queued \ slot) \cup {n}
<1>1. NoRevival(s, s) /\ NoRevival(s, Crash(s))
  BY Stays, PowerCalm DEF Crash
<1>2. ASSUME n # None, slot # {} PROVE Q \subseteq s.queued
  <2>1. n \in s.table
    BY <1>2, SearchResult
  <2>2. PICK q \in s.queued : s.pid[n] = s.pid[q]
    BY <1>2 DEF SameSlot
  <2>3. q \in s.table
    BY <2>2 DEF KernelInv
  <2>4. n = q
    BY <2>1, <2>2, <2>3, SamePid
  <2> QED BY <2>2, <2>4
<1> HIDE DEF n, slot
<1>3. ASSUME n # None, slot # {}
      PROVE  NoRevival(s, [s EXCEPT !.queued = Q, !.prio[n] = priority])
  <2>1. Q \subseteq s.queued
    BY <1>2, <1>3
  <2> HIDE DEF Q
  <2> QED BY <2>1 DEF NoRevival, KernelInv, KernelState
<1> QED BY <1>1, <1>3 DEF p_nice, n, slot

-----------------------------------------------------------------------------
\* A wait that reports a change.
LEMMA ReportCalm ==
  ASSUME NEW s, KernelInv(s), NEW p \in Proc, Awake(s, s.ppid[p])
  PROVE  NoRevival(s, Report(s, p).k)
<1> DEFINE s1 == [s EXCEPT !.prev[p] = s.status[p]]
<1>1. KernelInv(s1) /\ NoRevival(s, s1)
  BY PrevInv, PrevCalm
<1> HIDE DEF s1
<1>2. Awake(s1, s1.ppid[p])
  <2>1. s1.ppid[p] = s.ppid[p]
    BY <1>1 DEF NoRevival
  <2> QED BY <1>1, <2>1, StaysAwake
<1>3. NoRevival(s, unblockIfForeground(s1, p))
  BY <1>1, <1>2, unblockIfForegroundCalm, Follows
<1> QED BY <1>3 DEF Report, Result, s1

\* A wait that reaps a zombie.
LEMMA ReapZombieCalm ==
  ASSUME NEW s, KernelInv(s), NEW p \in Proc, p # Shell
  PROVE  NoRevival(s, ReapZombie(s, p).k)
<1> DEFINE s1 == k_process_cleanup(s, p)
<1>1. KernelInv(s1) /\ NoRevival(s, s1)
  BY k_process_cleanupInv, k_process_cleanupCalm
<1> HIDE DEF s1
<1>2. NoRevival(s, clearZombiesAndChildren(s1, p))
  BY <1>1, clearZombiesAndChildrenCalm, Follows
<1> QED BY <1>2 DEF ReapZombie, Result, s1

\* p_waitpid of one pid without hanging.
LEMMA p_waitpid_nohangCalm ==
  ASSUME NEW s, KernelInv(s), SleepersSound(s), NEW caller, NEW x, x # 1
  PROVE  NoRevival(s, p_waitpid_nohang(s, caller, x).k)
<1> DEFINE n == Search(s, x)
<1>1. n # None => n \in Proc /\ n # Shell /\ Awake(s, s.ppid[n])
  BY SearchResult, SearchNotShell, TableFacts DEF SleepersSound
<1> HIDE DEF n
<1>2. Nothing(s).k = s
  BY DEF Nothing, Result
<1>3. n # None => /\ NoRevival(s, ReapZombie(s, n).k)
                  /\ NoRevival(s, Report(s, n).k)
  BY <1>1, ReapZombieCalm, ReportCalm
<1> QED BY <1>2, <1>3, Stays DEF p_waitpid_nohang, n

\* traverseChild of a process of the table.
LEMMA traverseChildCalm ==
  ASSUME NEW s, KernelInv(s), SleepersSound(s), NEW p \in s.table,
         HasNews(s, p), ~Changed(s, p)
  PROVE  NoRevival(s, traverseChild(s, p).k)
<1>1. CASE s.zombies[p] = {}
  <2> DEFINE S == {c \in s.children[p] : Changed(s, c)}
  <2>1. S \in SUBSET Proc /\ S # {} /\ S \subseteq s.table
    BY <1>1, TableFacts DEF HasNews, KernelInv, KernelState
  <2> HIDE DEF S
  <2>2. Newest(S) \in S
    BY <2>1, NewestMember
  <2>3. NoRevival(s, Report(s, Newest(S)).k)
    BY <2>1, <2>2, ReportCalm DEF SleepersSound
  <2> QED BY <1>1, <2>3 DEF traverseChild, S
<1>2. CASE s.zombies[p] # {}
  <2> DEFINE z == Head(s.zombies[p])
             n == Search(s, s.pid[z.of])
             s1 == [s EXCEPT !.prev[n] = s.status[n]]
             s2 == k_process_cleanup(s1, n)
  <2>1. NoRevival(s, Nothing(Crash(s)).k)
    BY PowerCalm DEF Crash, Nothing, Result
  <2>2. ASSUME n # None PROVE NoRevival(s, s2)
    <3>1. n \in Proc
      BY <2>2, SearchResult, TableFacts
    <3> HIDE DEF n
    <3>2. KernelInv(s1) /\ NoRevival(s, s1)
      BY <3>1, PrevInv, PrevCalm
    <3> HIDE DEF s1
    <3> QED BY <3>2, k_process_cleanupCalm, Follows
  <2> QED BY <1>2, <2>1, <2>2 DEF traverseChild, Result
<1> QED BY <1>1, <1>2

\* Reaping the newest zombie.
LEMMA ReapNewestCalm ==
  ASSUME NEW s, KernelInv(s), SleepersSound(s), NEW caller \in Proc,
         s.zombies[caller] # {}
  PROVE  NoRevival(s, ReapNewest(s, caller).k)
<1> DEFINE z == Head(s.zombies[caller])
           s1 == [s EXCEPT !.zombies[caller] = @ \ {z}]
           x == s.pid[z.of]
           n == Search(s1, x)
           s2 == k_process_cleanup(s1, n)
<1>0. z.of \in Proc /\ z.of # Shell
  <2>1. z \in s.zombies[caller]
    BY HeadMember
  <2> HIDE DEF z
  <2>2. s.zombies[caller] \subseteq Node
    BY DEF KernelInv, KernelState
  <2>3. \A y \in s.zombies[caller] : y.of # Shell
    BY DEF KernelInv
  <2> QED BY <2>1, <2>2, <2>3 DEF Node
<1> HIDE DEF z
<1>01. x # 1
  BY <1>0, TableFacts
<1>1. KernelInv(s1) /\ NoRevival(s, s1) /\ SleepersSound(s1)
  <2>1. KernelInv(s1)
    BY DEF KernelInv, KernelState
  <2>2. NoRevival(s, s1)
    BY PopZombieCalm
  <2> HIDE DEF s1
  <2> QED BY <2>1, <2>2, CalmSound
<1> HIDE DEF s1, x
<1>2. n # None => n \in Proc /\ n # Shell /\ Awake(s1, s1.ppid[n])
  BY <1>1, <1>01, SearchResult, SearchNotShell, TableFacts DEF SleepersSound
<1> HIDE DEF n
<1>3. ASSUME n # None PROVE NoRevival(s1, unblockIfForeground(s2, n))
  <2>1. NoRevival(s1, s2)
    BY <1>1, k_process_cleanupCalm
  <2>2. KernelInv(s2)
    BY <1>1, <1>2, <1>3, k_process_cleanupInv
  <2> HIDE DEF s2
  <2>3. Awake(s2, s2.ppid[n])
    <3>1. s2.ppid[n] = s1.ppid[n]
      BY <2>1 DEF NoRevival
    <3> QED BY <1>2, <1>3, <2>1, <3>1, StaysAwake
  <2> QED BY <2>1, <2>2, <2>3, unblockIfForegroundCalm, Follows
<1>4. ReapNewest(s, caller) =
        IF n = None THEN Nothing(s1)
        ELSE Result(unblockIfForeground(s2, n), s.pid[n], s.status[n])
  BY DEF ReapNewest, z, s1, x, n, s2
<1> QED BY <1>1, <1>3, <1>4, Follows DEF Nothing, Result

\* p_waitpid(-1) of a process of the table.
LEMMA p_waitpid_anyCalm ==
  ASSUME NEW s, KernelInv(s), SleepersSound(s), NEW caller \in s.table
  PROVE  NoRevival(s, p_waitpid_any(s, caller).k)
<1> DEFINE news == {c \in s.children[caller] : HasNews(s, c)}
           c == Newest(news)
<1>1. s.zombies[caller] # {} => NoRevival(s, ReapNewest(s, caller).k)
  BY ReapNewestCalm, TableFacts
<1>2. NoRevival(s, Nothing(s).k)
  BY Stays DEF Nothing, Result
<1>3. news \in SUBSET Proc /\ news \subseteq s.table
  BY TableFacts DEF KernelInv, KernelState
<1>4. ASSUME news # {}
      PROVE  NoRevival(s, (IF Changed(s, c) THEN Report(s, c) ELSE traverseChild(s, c)).k)
  <2>1. c \in news
    <3> HIDE DEF news
    <3> QED BY <1>3, <1>4, NewestMember
  <2>2. c \in s.table /\ c \in Proc /\ HasNews(s, c)
    BY <1>3, <2>1
  <2> HIDE DEF c
  <2>3. NoRevival(s, Report(s, c).k)
    BY <2>2, ReportCalm DEF SleepersSound
  <2>4. ~Changed(s, c) => NoRevival(s, traverseChild(s, c).k)
    BY <2>2, traverseChildCalm
  <2> QED BY <2>3, <2>4
<1> QED BY <1>1, <1>2, <1>4 DEF p_waitpid_any

-----------------------------------------------------------------------------
\* k_process_create: the new process is in the ready queue, and nobody else that
\* was not.  Its pid is no parent's of the table.
LEMMA k_process_createSleepers ==
  ASSUME NEW s, KernelInv(s), SleepersSound(s), s.made < MaxProc,
         NEW parent \in s.table, s.prog[parent] # "sleep",
         NEW program \in Program, program = "sleep" => parent = Shell,
         NEW t, t = k_process_create(s, parent, program, NextPid(s))
  PROVE  /\ SleepersSound(t)
         /\ s.made + 1 \in Proc /\ s.made + 1 \notin s.table
         /\ t.queued = s.queued \cup {s.made + 1}
         /\ \A p \in Proc \ {s.made + 1} :
              t.prog[p] = s.prog[p] /\ t.status[p] = s.status[p] /\ t.ppid[p] = s.ppid[p]
         /\ t.prog[s.made + 1] = program
         /\ t.made = s.made + 1 /\ t.table = s.table \cup {s.made + 1}
         /\ \A x : program # "sleep" /\ Awake(s, x) => Awake(t, x)
<1> DEFINE new == s.made + 1
           x == NextPid(s)
<1>1. x \in Nat \ {0, 1} /\ \A q \in s.table : s.pid[q] < x
  BY NextPidGreatest
<1>2. /\ new \in Proc /\ new \notin s.table /\ new # Shell /\ s.made \in Nat
  <2>1. s.made \in 0..MaxProc /\ s.table \subseteq 1..s.made /\ Shell \in s.table
    BY DEF KernelInv, KernelState
  <2> QED BY <2>1, MaxProcAssumption DEF Proc, Shell
<1> HIDE DEF x
<1>0. s \in KernelState
  BY DEF KernelInv
<1>3. t.made = new /\ t.table = s.table \cup {new} /\ t.queued = s.queued \cup {new}
  BY <1>0 DEF KernelState, k_process_create
<1>4. t.pid = [s.pid EXCEPT ![new] = x] /\ t.ppid = [s.ppid EXCEPT ![new] = s.pid[parent]]
  BY <1>0 DEF KernelState, k_process_create, x
<1>5. t.prog = [s.prog EXCEPT ![new] = program] /\ t.status = [s.status EXCEPT ![new] = "READY"]
  BY <1>0 DEF KernelState, k_process_create
<1>6. t.ticks = [s.ticks EXCEPT ![new] = -1] /\ t.asleep = s.asleep
  BY <1>0 DEF KernelState, k_process_create
<1>7. \A p \in Proc \ {new} : /\ t.prog[p] = s.prog[p] /\ t.status[p] = s.status[p]
                              /\ t.pid[p] = s.pid[p] /\ t.ppid[p] = s.ppid[p]
                              /\ t.ticks[p] = s.ticks[p]
  BY <1>0, <1>4, <1>5, <1>6 DEF KernelState
<1>8. /\ t.prog[new] = program /\ t.pid[new] = x /\ t.ppid[new] = s.pid[parent]
      /\ t.ticks[new] = -1
  BY <1>0, <1>2, <1>4, <1>5, <1>6 DEF KernelState
<1>9. \A p \in s.table : p \in Proc \ {new} /\ s.pid[p] \in Nat
  BY <1>2, TableFacts
<1> HIDE DEF new
<1>10. \A y : Awake(s, y) /\ (y # x \/ program # "sleep") => Awake(t, y)
  BY <1>3, <1>7, <1>8, <1>9 DEF Awake
<1>11. ASSUME NEW p \in t.table PROVE Awake(t, t.ppid[p])
  <2>1. CASE p = new
    <3>1. ASSUME NEW q \in s.table, s.pid[q] = s.pid[parent] PROVE s.prog[q] # "sleep"
      BY <3>1, SamePid
    <3>2. Awake(s, s.pid[parent])
      BY <3>1 DEF Awake
    <3>3. s.pid[parent] # x
      BY <1>1, <1>9
    <3> QED BY <1>8, <1>10, <2>1, <3>2, <3>3
  <2>2. CASE p # new
    <3>1. p \in s.table /\ t.ppid[p] = s.ppid[p] /\ Awake(s, s.ppid[p])
      BY <1>3, <1>7, <1>9, <2>2 DEF SleepersSound
    <3>2. s.ppid[p] # x
      <4>1. CASE p = Shell
        BY <1>1, <4>1 DEF SleepersSound
      <4>2. CASE p # Shell
        <5>1. s.ppid[p] < s.pid[p] /\ s.pid[p] < x
          BY <1>1, <3>1, <4>2 DEF SleepersSound
        <5>2. s.ppid[p] \in Nat /\ s.pid[p] \in Nat /\ x \in Nat
          BY <1>1, <1>9, <3>1, TableFacts
        <5> QED BY <5>1, <5>2
      <4> QED BY <4>1, <4>2
    <3> QED BY <1>10, <3>1, <3>2
  <2> QED BY <2>1, <2>2
<1>12. t.prog[Shell] # "sleep" /\ t.ppid[Shell] = 1
  BY <1>2, <1>7, TableFacts DEF SleepersSound
<1>13. ASSUME NEW p \in Proc, t.prog[p] = "sleep" PROVE p <= t.made /\ t.ppid[p] = 1
  <2>1. CASE p = new
    <3>1. parent = Shell
      BY <1>8, <1>13, <2>1
    <3>2. t.ppid[p] = 1
      BY <1>8, <2>1, <3>1, TableFacts DEF KernelInv
    <3> QED BY <1>2, <1>3, <2>1, <3>2 DEF new
  <2>2. CASE p # new
    <3>1. p <= s.made /\ s.ppid[p] = 1
      BY <1>7, <1>13, <2>2 DEF SleepersSound
    <3>2. p \in Nat
      BY MaxProcAssumption DEF Proc
    <3> QED BY <1>2, <1>3, <1>7, <2>2, <3>1, <3>2 DEF new
  <2> QED BY <2>1, <2>2
<1>14. ASSUME NEW n \in t.asleep PROVE t.prog[n.of] = "sleep"
  <2>1. n.of \in Proc /\ s.prog[n.of] = "sleep" /\ n.of <= s.made
    BY <1>0, <1>6 DEF KernelState, Node, SleepersSound
  <2>2. n.of # new
    BY <1>2, <2>1 DEF new
  <2> QED BY <1>7, <2>1, <2>2
<1>15. ASSUME NEW p \in t.table \ {Shell} PROVE t.ppid[p] < t.pid[p]
  <2>1. CASE p = new
    BY <1>1, <1>8, <2>1
  <2>2. CASE p # new
    BY <1>3, <1>7, <1>9, <2>2 DEF SleepersSound
  <2> QED BY <2>1, <2>2
<1>16. \A p \in Proc : t.ticks[p] # -1 => t.prog[p] = "sleep"
  BY <1>7, <1>8 DEF SleepersSound
<1>17. SleepersSound(t)
  BY <1>11, <1>12, <1>13, <1>14, <1>15, <1>16 DEF SleepersSound
<1>18. \A y : program # "sleep" /\ Awake(s, y) => Awake(t, y)
  BY <1>10
<1> QED BY <1>2, <1>3, <1>7, <1>8, <1>17, <1>18 DEF new

-----------------------------------------------------------------------------
(***************************************************************************)
(* The steps of the system.                                                *)
(***************************************************************************)
\* Who runs is in the table and has not returned; a sleeper is not ready once it
\* is past its p_sleep; a process that has returned and is still in a ready queue
\* is a sleeper; the places of sleepers are theirs alone; and the shell, while it
\* waits for a child, will not release a sleeper.
RunsSound ==
  /\ cur # None => cur \in k.table /\ pc[cur] # "done"
  /\ \A p \in Proc : k.prog[p] = "sleep" /\ pc[p] # "sleep" => k.status[p] # "READY"
  /\ \A p \in k.queued : pc[p] = "done" => k.prog[p] = "sleep"
  /\ \A p \in Proc : pc[p] \in {"sleep", "enrol"} => k.prog[p] = "sleep"
  /\ \A p \in Proc : pc[p] = "spawn" => k.prog[p] # "sleep"
  /\ pc[Shell] \in {"block", "woken"} => SafeChild(k, sh.child)

Sound == IInv /\ SleepersSound(k) /\ RunsSound

\* What NeverRequeued says of a step.
NoneRequeued == \A p \in 1..k.made : p \notin k.queued => p \notin k'.queued

\* A step in which p alone moves and nobody is revived.
LEMMA CalmStep ==
  ASSUME Sound, IInv', NoRevival(k, k'),
         NEW p \in Proc, NEW place, pc' = [pc EXCEPT ![p] = place],
         place \in {"sleep", "enrol"} => k.prog[p] = "sleep",
         place = "spawn" => k.prog[p] # "sleep",
         pc[p] = "sleep" => place = "sleep",
         place = "done" => p \notin k'.queued \/ k.prog[p] = "sleep",
         \/ cur' \in Runnable(k')
         \/ cur' = cur /\ cur = p /\ place # "done" /\ p \in k'.table,
         pc'[Shell] \in {"block", "woken"} => SafeChild(k', sh'.child)
  PROVE  Sound' /\ NoneRequeued
<1>1. KernelInv(k) /\ KernelInv(k')
  BY DEF Sound, IInv
<1>2. pc \in [Proc -> Place]
  BY DEF Sound, IInv, TypeOK
<1>3. \A q \in Proc : pc'[q] = IF q = p THEN place ELSE pc[q]
  BY <1>2
<1>4. /\ k'.prog = k.prog /\ k'.ppid = k.ppid /\ k'.queued \subseteq k.queued
      /\ \A q \in Proc : k.prog[q] = "sleep" /\ k'.status[q] = "READY" =>
                           k.status[q] = "READY"
  BY DEF NoRevival
<1>5. \A q \in Proc : k'.prog[q] = "sleep" /\ pc'[q] # "sleep" => k'.status[q] # "READY"
  BY <1>3, <1>4 DEF Sound, RunsSound
<1>6. k'.queued \subseteq Proc /\ k'.queued \subseteq k'.table
  BY <1>1 DEF KernelInv, KernelState
<1>7. \A q \in k'.queued : pc'[q] = "done" => k'.prog[q] = "sleep"
  BY <1>3, <1>4, <1>6 DEF Sound, RunsSound
<1>8. cur' # None => cur' \in k'.table /\ pc'[cur'] # "done"
  <2>1. CASE cur' \in Runnable(k')
    <3>1. cur' # None => cur' \in k'.queued /\ k'.status[cur'] = "READY"
      BY <2>1 DEF Runnable, Ready
    <3> QED BY <1>5, <1>6, <1>7, <3>1
  <2>2. CASE cur' = cur /\ cur = p /\ place # "done" /\ p \in k'.table
    BY <1>3, <2>2
  <2> QED BY <2>1, <2>2
<1>9. \A q \in Proc : pc'[q] \in {"sleep", "enrol"} => k'.prog[q] = "sleep"
  BY <1>3, <1>4 DEF Sound, RunsSound
<1>10. \A q \in Proc : pc'[q] = "spawn" => k'.prog[q] # "sleep"
  BY <1>3, <1>4 DEF Sound, RunsSound
<1>11. RunsSound'
  BY <1>4, <1>5, <1>7, <1>8, <1>9, <1>10 DEF RunsSound
<1>12. SleepersSound(k')
  BY CalmSound DEF Sound
<1> QED BY <1>4, <1>11, <1>12 DEF Sound, NoneRequeued

\* ... such as a step of the shell ...
LEMMA ShellCalm ==
  ASSUME Sound, IInv', NoRevival(k, k'), NEW place \in ShellPlace, Goto(Shell, place),
         cur' \in Runnable(k') \/ (cur' = cur /\ cur = Shell),
         place \in {"block", "woken"} => SafeChild(k', sh'.child)
  PROVE  Sound' /\ NoneRequeued
<1>1. Shell \in Proc /\ Shell \in k'.table /\ pc \in [Proc -> Place]
  BY TableFacts DEF Sound, IInv, TypeOK, KernelInv
<1>2. pc' = [pc EXCEPT ![Shell] = place] /\ pc'[Shell] = place
  BY <1>1 DEF Goto
<1>3. place \notin {"sleep", "enrol", "spawn", "done"} /\ pc[Shell] # "sleep"
  BY DEF ShellPlace, Sound, IInv
<1> QED BY <1>1, <1>2, <1>3, CalmStep

\* ... or one in which nobody moves.
LEMMA StandingCalm ==
  ASSUME Sound, IInv', NoRevival(k, k'), pc' = pc, sh'.child = sh.child,
         cur' \in Runnable(k') \/ (cur' = cur /\ cur = Shell)
  PROVE  Sound' /\ NoneRequeued
<1>1. pc[Shell] \in ShellPlace /\ Goto(Shell, pc[Shell])
  BY DEF Sound, IInv, TypeOK, Goto
<1>2. pc[Shell] \in {"block", "woken"} => SafeChild(k', sh'.child)
  BY StaysSafe DEF Sound, RunsSound
<1> QED BY <1>1, <1>2, ShellCalm

\* The two ways a step ends.
LEMMA scheduleCalm ==
  ASSUME Sound, NEW s, KernelInv(s), NoRevival(k, s), schedule(s)
  PROVE  NoRevival(k, k') /\ NoRevival(s, k') /\ cur' \in Runnable(k')
<1>1. SleepersSound(s)
  BY CalmSound DEF Sound
<1>2. NoRevival(s, decrementTicks(s))
  BY <1>1, decrementTicksCalm
<1> QED BY <1>2, Follows DEF schedule

\* A handler of the shell that ends either way.
LEMMA ShellRuns ==
  ASSUME Sound, IInv', NEW s, KernelInv(s), NoRevival(k, s), cur = Shell,
         Continue(s) \/ schedule(s), NEW place \in ShellPlace, Goto(Shell, place),
         place \in {"block", "woken"} => SafeChild(k, sh'.child)
  PROVE  Sound' /\ NoneRequeued
<1>1. NoRevival(k, k') /\ (cur' \in Runnable(k') \/ (cur' = cur /\ cur = Shell))
  BY scheduleCalm DEF Continue
<1> QED BY <1>1, ShellCalm, StaysSafe

\* What the steps take from Sound.
LEMMA SoundFacts ==
  ASSUME Sound
  PROVE  /\ IInv /\ KernelInv(k) /\ SleepersSound(k) /\ RunsSound
         /\ NoRevival(k, k) /\ Awake(k, 1) /\ k.ppid[Shell] = 1
         /\ \A p \in k.table : p \in Proc /\ Awake(k, k.ppid[p])
         /\ Shell \in Proc /\ Shell \in k.table
<1>1. IInv /\ KernelInv(k) /\ SleepersSound(k) /\ RunsSound
  BY DEF Sound, IInv
<1> QED BY <1>1, Stays, ShellAwake, TableFacts DEF SleepersSound, KernelInv

-----------------------------------------------------------------------------
\* SIGALRM.
LEMMA TickRuns == ASSUME Sound, IInv', Tick PROVE Sound' /\ NoneRequeued
<1>1. NoRevival(k, k') /\ cur' \in Runnable(k')
  BY SoundFacts, scheduleCalm DEF Tick
<1> QED BY <1>1, StandingCalm DEF Tick

\* A terminal key.
LEMMA KeyRuns ==
  ASSUME Sound, IInv', NEW signal \in Keys, Key(signal) PROVE Sound' /\ NoneRequeued
<1> DEFINE target == Search(k, k.pid[k.fg])
           s == k_process_kill(k, target, signal)
<1>1. target \in k.table /\ target \in Proc /\ target # Shell
  BY SoundFacts, SearchResult, SearchNotShell, TableFacts DEF Key
<1>2. signal \in Signal
  BY ConstantsAssumption DEF Signal
<1>3. schedule(s) /\ pc' = pc /\ sh' = sh
  BY DEF Key
<1> HIDE DEF target
<1>4. KernelInv(s) /\ NoRevival(k, s)
  BY <1>1, <1>2, SoundFacts, k_process_killInv, k_process_killCalm
<1> HIDE DEF s
<1>5. NoRevival(k, k') /\ cur' \in Runnable(k')
  BY <1>3, <1>4, scheduleCalm
<1> QED BY <1>3, <1>5, StandingCalm

\* p_spawn: the new process is at its start, and it alone is new in a queue.
LEMMA SpawnRuns ==
  ASSUME Sound, IInv', "link" \notin Windows, NEW p \in Proc, cur = p,
         k.prog[p] # "sleep", NEW program \in Program, program = "sleep" => p = Shell,
         NEW next \in Place \ {"sleep", "enrol", "spawn", "done", "block", "woken"},
         p_spawn(p, program, next), p # Shell => sh' = sh
  PROVE  Sound' /\ NoneRequeued
<1> DEFINE new == k.made + 1
           t == k_process_create(k, p, program, NextPid(k))
           start == StartPlace(program)
<1>1. /\ k.made < MaxProc /\ k' = t /\ cur' = cur
      /\ pc' = [pc EXCEPT ![p] = next, ![new] = start]
  BY DEF p_spawn, Created, Continue
<1>2. p \in k.table /\ p # None
  BY SoundFacts, TableFacts DEF RunsSound
<1> HIDE DEF t
<1>3. /\ SleepersSound(t)
      /\ new \in Proc /\ new \notin k.table
      /\ t.queued = k.queued \cup {new}
      /\ \A q \in Proc \ {new} :
           t.prog[q] = k.prog[q] /\ t.status[q] = k.status[q] /\ t.ppid[q] = k.ppid[q]
      /\ t.prog[new] = program
      /\ t.made = new /\ t.table = k.table \cup {new}
      /\ \A x : program # "sleep" /\ Awake(k, x) => Awake(t, x)
  BY <1>1, <1>2, SoundFacts, k_process_createSleepers DEF t
<1>4. /\ start \notin {"done", "enrol", "block", "woken"}
      /\ (start = "sleep" <=> program = "sleep") /\ (program = "sleep" => start # "spawn")
  BY DEF StartPlace
<1>5. pc \in [Proc -> Place]
  BY SoundFacts DEF IInv, TypeOK
<1> HIDE DEF new, start
<1>6. \A q \in Proc : pc'[q] = IF q = new THEN start ELSE IF q = p THEN next ELSE pc[q]
  BY <1>1, <1>2, <1>3, <1>5
<1>7. k.made \in Nat /\ new = k.made + 1 /\ Shell # new
  BY <1>3, SoundFacts DEF KernelInv, KernelState, new
<1>8. cur' # None => cur' \in k'.table /\ pc'[cur'] # "done"
  BY <1>1, <1>2, <1>3, <1>4, <1>6
<1>9. ASSUME NEW q \in Proc, k'.prog[q] = "sleep", pc'[q] # "sleep"
      PROVE  k'.status[q] # "READY"
  <2>1. q # new
    BY <1>1, <1>3, <1>4, <1>6, <1>9
  <2>2. q # p
    BY <1>1, <1>3, <1>9, <2>1
  <2> QED BY <1>1, <1>3, <1>6, <1>9, <2>1, <2>2, SoundFacts DEF RunsSound
<1>10. \A q \in k'.queued : pc'[q] = "done" => k'.prog[q] = "sleep"
  <2>1. k.queued \subseteq Proc
    BY SoundFacts DEF KernelInv, KernelState
  <2> QED BY <1>1, <1>3, <1>4, <1>6, <2>1, SoundFacts DEF RunsSound
<1>11. \A q \in Proc : pc'[q] \in {"sleep", "enrol"} => k'.prog[q] = "sleep"
  BY <1>1, <1>3, <1>4, <1>6, SoundFacts DEF RunsSound
<1>12. \A q \in Proc : pc'[q] = "spawn" => k'.prog[q] # "sleep"
  BY <1>1, <1>3, <1>4, <1>6, SoundFacts DEF RunsSound
<1>13. ASSUME pc'[Shell] \in {"block", "woken"} PROVE SafeChild(k', sh'.child)
  <2>1. p # Shell /\ pc[Shell] \in {"block", "woken"}
    BY <1>4, <1>6, <1>7, <1>13, SoundFacts
  <2>2. sh' = sh /\ sh.child \in Proc /\ SafeChild(k, sh.child)
    BY <2>1, SoundFacts, ShellFacts DEF RunsSound
  <2>3. sh.child # new /\ sh.child <= new
    BY <1>7, <2>2, MaxProcAssumption DEF SafeChild, Proc
  <2> QED BY <1>1, <1>3, <2>1, <2>2, <2>3 DEF SafeChild
<1>14. RunsSound'
  BY <1>8, <1>9, <1>10, <1>11, <1>12, <1>13 DEF RunsSound
<1>15. NoneRequeued
  BY <1>1, <1>3, <1>7 DEF NoneRequeued
<1> QED BY <1>1, <1>3, <1>14, <1>15 DEF Sound

\* zombify and orphanify.
LEMMA SpawnChildRuns ==
  ASSUME Sound, IInv', "link" \notin Windows, NEW p \in Proc, SpawnChild(p)
  PROVE  Sound' /\ NoneRequeued
<1>1. cur = p /\ pc[p] = "spawn" /\ k.prog[p] # "sleep" /\ sh' = sh
  BY SoundFacts DEF SpawnChild, At, RunsSound
<1>2. PICK program \in {"zombie_child", "orphan_child"}, next \in {"loop", "return"} :
        p_spawn(p, program, next)
  BY DEF SpawnChild
<1>3. /\ program \in Program /\ program # "sleep"
      /\ next \in Place \ {"sleep", "enrol", "spawn", "done", "block", "woken"}
  BY DEF Program, Place
<1> QED BY <1>1, <1>2, <1>3, SpawnRuns

\* The shell starts a program.
LEMMA CommandRuns ==
  ASSUME Sound, IInv', "link" \notin Windows, Command
  PROVE  Sound' /\ NoneRequeued
<1>1. cur = Shell /\ k.prog[Shell] # "sleep"
  BY SoundFacts DEF Command, At, SleepersSound
<1>2. PICK program \in Programs, next \in {"launch", "nice"} :
        p_spawn(Shell, program, next)
  BY DEF Command
<1>3. /\ program \in Program
      /\ next \in Place \ {"sleep", "enrol", "spawn", "done", "block", "woken"}
  BY ConstantsAssumption DEF Place, ShellPlace
<1> QED BY <1>1, <1>2, <1>3, SoundFacts, SpawnRuns

-----------------------------------------------------------------------------
\* A step of a sleeper on its way out of p_sleep: nobody becomes ready.
LEMMA SleeperStep ==
  ASSUME Sound, IInv', NEW p \in Proc, cur = p, cur' = cur, k.prog[p] = "sleep",
         SleepersSound(k'), k'.made = k.made, k'.table = k.table,
         k'.queued = k.queued, k'.prog = k.prog, k'.pid = k.pid, k'.ppid = k.ppid,
         \A q \in Proc : k'.status[q] = "READY" => q # p /\ k.status[q] = "READY",
         NEW place \in {"enrol", "return"}, Goto(p, place), sh' = sh
  PROVE  Sound' /\ NoneRequeued
<1>1. pc \in [Proc -> Place] /\ k.queued \subseteq Proc /\ Shell \in Proc /\ p # Shell
  BY SoundFacts DEF IInv, TypeOK, KernelInv, KernelState, SleepersSound
<1>2. \A q \in Proc : pc'[q] = IF q = p THEN place ELSE pc[q]
  BY <1>1 DEF Goto
<1>3. cur' # None => cur' \in k'.table /\ pc'[cur'] # "done"
  BY <1>2, SoundFacts DEF RunsSound
<1>4. \A q \in Proc : k'.prog[q] = "sleep" /\ pc'[q] # "sleep" => k'.status[q] # "READY"
  BY <1>2, SoundFacts DEF RunsSound
<1>5. \A q \in k'.queued : pc'[q] = "done" => k'.prog[q] = "sleep"
  BY <1>1, <1>2, SoundFacts DEF RunsSound
<1>6. \A q \in Proc : /\ pc'[q] \in {"sleep", "enrol"} => k'.prog[q] = "sleep"
                      /\ pc'[q] = "spawn" => k'.prog[q] # "sleep"
  BY <1>2, SoundFacts DEF RunsSound
<1>7. pc'[Shell] \in {"block", "woken"} => SafeChild(k', sh'.child)
  BY <1>1, <1>2, SoundFacts DEF RunsSound, SafeChild, Awake
<1>8. RunsSound'
  BY <1>3, <1>4, <1>5, <1>6, <1>7 DEF RunsSound
<1> QED BY <1>8 DEF Sound, NoneRequeued

\* Entering the sleep queue.
LEMMA addToAsleepSound ==
  ASSUME NEW s, KernelInv(s), SleepersSound(s), NEW p \in Proc, s.prog[p] = "sleep",
         NEW t, t = addToAsleep(s, p)
  PROVE  /\ SleepersSound(t) /\ t.made = s.made /\ t.table = s.table
         /\ t.queued = s.queued /\ t.prog = s.prog /\ t.pid = s.pid
         /\ t.ppid = s.ppid /\ t.status = s.status
<1>1. /\ t.made = s.made /\ t.table = s.table /\ t.queued = s.queued
      /\ t.prog = s.prog /\ t.pid = s.pid /\ t.ppid = s.ppid
      /\ t.status = s.status /\ t.ticks = s.ticks
      /\ t.asleep = s.asleep \cup {[at |-> s.stamp, of |-> p]}
  BY DEF KernelInv, KernelState, addToAsleep
<1>2. \A n \in t.asleep : t.prog[n.of] = "sleep"
  BY <1>1 DEF SleepersSound
<1>3. SleepersSound(t)
  BY <1>1, <1>2 DEF SleepersSound, Awake
<1> QED BY <1>1, <1>3

\* The status and the ticks of a sleeper that enters p_sleep.
EntersSleep(s, p, n) == [s EXCEPT !.status[p] = "BLOCKED", !.ticks[p] = n]

\* They keep the kernel sound.
LEMMA BlockSleeperSound ==
  ASSUME NEW s, KernelInv(s), SleepersSound(s), NEW p \in Proc, s.prog[p] = "sleep",
         NEW n \in Int, NEW t, t = EntersSleep(s, p, n)
  PROVE  /\ KernelInv(t)
         /\ SleepersSound(t) /\ t.made = s.made /\ t.table = s.table
         /\ t.queued = s.queued /\ t.prog = s.prog /\ t.pid = s.pid
         /\ t.ppid = s.ppid /\ t.status = [s.status EXCEPT ![p] = "BLOCKED"]
<1>1. /\ t.made = s.made /\ t.table = s.table /\ t.queued = s.queued
      /\ t.prog = s.prog /\ t.pid = s.pid /\ t.ppid = s.ppid
      /\ t.status = [s.status EXCEPT ![p] = "BLOCKED"]
      /\ t.ticks = [s.ticks EXCEPT ![p] = n] /\ t.asleep = s.asleep
  BY DEF KernelInv, KernelState, EntersSleep
<1>2. KernelInv(t)
  <2>1. "BLOCKED" \in Status
    BY DEF Status
  <2>2. KernelInv([s EXCEPT !.status[p] = "BLOCKED", !.ticks[p] = n])
    BY <2>1 DEF KernelInv, KernelState
  <2> QED BY <2>2 DEF EntersSleep
<1>3. s.ticks \in [Proc -> Int]
  BY DEF KernelInv, KernelState
<1>4. \A q \in Proc : t.ticks[q] # -1 => t.prog[q] = "sleep"
  BY <1>1, <1>3 DEF SleepersSound
<1>5. SleepersSound(t)
  BY <1>1, <1>4 DEF SleepersSound, Awake
<1> QED BY <1>1, <1>2, <1>5

\* p_sleep.
LEMMA SleepRuns ==
  ASSUME Sound, IInv', NEW p \in Proc, Sleep(p)
  PROVE  Sound' /\ NoneRequeued
<1>1. cur = p /\ k.prog[p] = "sleep" /\ sh' = sh
  BY SoundFacts DEF Sleep, At, RunsSound
<1>2. PICK n \in SleepTicks :
        \/ Continue(EntersSleep(k, p, n)) /\ Goto(p, "enrol")
        \/ Continue(addToAsleep(EntersSleep(k, p, n), p)) /\ Goto(p, "return")
  BY DEF Sleep, EntersSleep
<1> DEFINE k1 == EntersSleep(k, p, n)
<1>3. /\ KernelInv(k1)
      /\ SleepersSound(k1) /\ k1.made = k.made /\ k1.table = k.table
      /\ k1.queued = k.queued /\ k1.prog = k.prog /\ k1.pid = k.pid
      /\ k1.ppid = k.ppid /\ k1.status = [k.status EXCEPT ![p] = "BLOCKED"]
  <2>1. n \in Int /\ KernelInv(k) /\ SleepersSound(k)
    BY SoundFacts, ConstantsAssumption
  <2> QED BY <1>1, <2>1, BlockSleeperSound
<1>4. \/ Continue(k1) /\ Goto(p, "enrol")
      \/ Continue(addToAsleep(k1, p)) /\ Goto(p, "return")
  BY <1>2
<1> HIDE DEF k1
<1>5. /\ SleepersSound(k') /\ k'.made = k.made /\ k'.table = k.table
      /\ k'.queued = k.queued /\ k'.prog = k.prog /\ k'.pid = k.pid
      /\ k'.ppid = k.ppid /\ k'.status = [k.status EXCEPT ![p] = "BLOCKED"]
      /\ cur' = cur
  BY <1>1, <1>3, <1>4, addToAsleepSound DEF Continue
<1>6. \A q \in Proc : k'.status[q] = "READY" => q # p /\ k.status[q] = "READY"
  BY <1>5, SoundFacts DEF KernelInv, KernelState
<1>7. PICK place \in {"enrol", "return"} : Goto(p, place)
  BY <1>4
<1> QED BY <1>1, <1>5, <1>6, <1>7, SleeperStep

\* p_sleep after a tick.
LEMMA EnrolRuns ==
  ASSUME Sound, IInv', NEW p \in Proc, Enrol(p)
  PROVE  Sound' /\ NoneRequeued
<1>1. /\ cur = p /\ k.prog[p] = "sleep" /\ k.status[p] # "READY" /\ sh' = sh
      /\ Goto(p, "return") /\ k' = addToAsleep(k, p) /\ cur' = cur
  BY SoundFacts DEF Enrol, At, RunsSound, Continue
<1>2. /\ SleepersSound(k') /\ k'.made = k.made /\ k'.table = k.table
      /\ k'.queued = k.queued /\ k'.prog = k.prog /\ k'.pid = k.pid
      /\ k'.ppid = k.ppid /\ k'.status = k.status
  BY <1>1, SoundFacts, addToAsleepSound
<1>3. \A q \in Proc : k'.status[q] = "READY" => q # p /\ k.status[q] = "READY"
  BY <1>1, <1>2
<1> QED BY <1>1, <1>2, <1>3, SleeperStep

\* The kill program.
LEMMA KillRuns ==
  ASSUME Sound, IInv', NEW p \in Proc, Kill(p)
  PROVE  Sound' /\ NoneRequeued
<1>1. /\ pc[p] = "kill" /\ cur = p /\ sh' = sh
      /\ pc' = [pc EXCEPT ![p] = "return"]
  BY DEF Kill, At, Goto
<1>2. p # Shell /\ p \in k.table
  BY <1>1, SoundFacts, Facts, TableFacts DEF ShellPlace, RunsSound
<1>3. PICK s : /\ KernelInv(s) /\ NoRevival(k, s)
               /\ schedule(s) \/ (s = k /\ Continue(k))
  <2>1. CASE Continue(k)
    BY <2>1, SoundFacts
  <2>2. CASE \E q \in k.table \ {Shell}, signal \in Signals :
               schedule(p_kill(k, k.pid[q], signal))
    <3>1. PICK q \in k.table \ {Shell}, signal \in Signals :
            schedule(p_kill(k, k.pid[q], signal))
      BY <2>2
    <3>2. k.pid[q] # 1 /\ signal \in Signal
      BY <3>1, SoundFacts, TableFacts, ConstantsAssumption
    <3>3. KernelInv(p_kill(k, k.pid[q], signal)) /\ NoRevival(k, p_kill(k, k.pid[q], signal))
      BY <3>2, SoundFacts, p_killInv, p_killCalm
    <3> QED BY <3>1, <3>3
  <2> QED BY <2>1, <2>2 DEF Kill
<1>4. NoRevival(k, k')
  BY <1>3, scheduleCalm DEF Continue
<1>5. cur' \in Runnable(k') \/ (cur' = cur /\ cur = p /\ p \in k'.table)
  BY <1>1, <1>2, <1>3, scheduleCalm DEF Continue
<1>6. pc'[Shell] \in {"block", "woken"} => SafeChild(k', sh'.child)
  BY <1>1, <1>2, <1>4, SoundFacts, StaysSafe DEF RunsSound, IInv, TypeOK
<1> QED BY <1>1, <1>4, <1>5, <1>6, CalmStep

\* The return of a program.
LEMMA ReturnRuns ==
  ASSUME Sound, IInv', NEW p \in Proc, Return(p)
  PROVE  Sound' /\ NoneRequeued
<1> DEFINE k1 == decrementTicks(k)
           s == RetireReturned(k1, p)
<1>1. /\ pc[p] = "return" /\ cur = p /\ sh' = sh
      /\ pc' = [pc EXCEPT ![p] = "done"]
      /\ \/ k1.ticks[p] = -2 /\ k' = k1 /\ cur' \in Runnable(k1)
         \/ schedule(s)
  BY DEF Return, At, Goto
<1>2. p # Shell /\ p \in k.table
  BY <1>1, SoundFacts, Facts, TableFacts DEF ShellPlace, RunsSound
<1>3. KernelInv(k1) /\ NoRevival(k, k1)
  BY SoundFacts, decrementTicksInv, decrementTicksCalm
<1> HIDE DEF k1
<1>4. k1.ticks[p] \in Int /\ (k1.ticks[p] # -1 => k.prog[p] = "sleep")
  BY <1>3, SoundFacts, CalmSound DEF SleepersSound, NoRevival, KernelInv, KernelState
<1>5. Awake(k1, k1.ppid[p])
  <2>1. k1.ppid[p] = k.ppid[p]
    BY <1>3 DEF NoRevival
  <2> QED BY <1>2, <1>3, <2>1, SoundFacts, StaysAwake
<1>6. KernelInv(s) /\ NoRevival(k1, s) /\ (k1.ticks[p] > 0 \/ p \notin s.queued)
  BY <1>2, <1>3, <1>5, RetireReturnedInv, RetireReturnedCalm
<1> HIDE DEF s
<1>7. NoRevival(k, s)
  BY <1>3, <1>6, Follows
<1>8. NoRevival(k, k') /\ cur' \in Runnable(k')
  BY <1>1, <1>3, <1>6, <1>7, scheduleCalm
<1>9. p \notin k'.queued \/ k.prog[p] = "sleep"
  <2>1. CASE k1.ticks[p] = -2 \/ k1.ticks[p] > 0
    BY <1>4, <2>1
  <2>2. CASE p \notin s.queued /\ schedule(s)
    <3>1. NoRevival(s, k')
      BY <1>6, <1>7, <2>2, scheduleCalm
    <3> QED BY <2>2, <3>1 DEF NoRevival
  <2> QED BY <1>1, <1>6, <2>1, <2>2
<1>10. pc'[Shell] \in {"block", "woken"} => SafeChild(k', sh'.child)
  BY <1>1, <1>2, <1>8, SoundFacts, StaysSafe DEF RunsSound, IInv, TypeOK
<1> QED BY <1>1, <1>8, <1>9, <1>10, CalmStep

-----------------------------------------------------------------------------
\* checkForTerminalControl.
LEMMA PromptRuns == ASSUME Sound, IInv', Prompt PROVE Sound' /\ NoneRequeued
<1>1. KernelInv(k_process_kill(k, Shell, "S_SIGSTOP"))
      /\ NoRevival(k, k_process_kill(k, Shell, "S_SIGSTOP"))
  BY SoundFacts, k_process_killInv, k_process_killCalm DEF Signal
<1>2. PICK s : KernelInv(s) /\ NoRevival(k, s) /\ schedule(s)
  BY <1>1, SoundFacts DEF Prompt
<1>3. "read" \in ShellPlace \ {"block", "woken"} /\ Goto(Shell, "read") /\ cur = Shell
  BY DEF ShellPlace, Prompt, At
<1> QED BY <1>2, <1>3, ShellRuns

\* The end of PennOS.
LEMMA LogoutRuns == ASSUME Sound, IInv', Logout PROVE Sound' /\ NoneRequeued
<1>1. NoRevival(k, k') /\ cur' = cur /\ cur = Shell /\ pc' = pc /\ sh' = sh
  BY SoundFacts, PowerCalm DEF Logout, Continue, At
<1> QED BY <1>1, StandingCalm

\* The first wait of pollJobChanges.
LEMMA PollRuns == ASSUME Sound, IInv', Poll PROVE Sound' /\ NoneRequeued
<1> DEFINE s == p_waitpid_any(k, Shell).k
<1>1. KernelInv(s) /\ NoRevival(k, s)
  BY SoundFacts, p_waitpid_anyInv, p_waitpid_anyCalm DEF ResultInv
<1>2. Continue(s) /\ (Goto(Shell, "poll") \/ Goto(Shell, "command")) /\ cur = Shell
  BY DEF Poll, At
<1>3. {"poll", "command"} \subseteq ShellPlace \ {"block", "woken"}
  BY DEF ShellPlace
<1> HIDE DEF s
<1> QED BY <1>1, <1>2, <1>3, ShellRuns

\* A visit of pollJobChanges.
LEMMA PollJobRuns ==
  ASSUME Sound, IInv', NEW j \in Proc, PollJob(j) PROVE Sound' /\ NoneRequeued
<1> DEFINE s == p_waitpid_nohang(k, Shell, k.pid[j]).k
<1>1. j # Shell
  BY SoundFacts, ShellFacts DEF PollJob
<1>2. KernelInv(s) /\ NoRevival(k, s)
  BY <1>1, SoundFacts, TableFacts, p_waitpid_nohangInv, p_waitpid_nohangCalm DEF ResultInv
<1>3. /\ Continue(s) /\ cur = Shell
      /\ Goto(Shell, "command") \/ (pc' = pc /\ sh'.child = sh.child)
  BY SoundFacts, ShellFacts DEF PollJob, At, ShellState
<1>4. "command" \in ShellPlace \ {"block", "woken"}
  BY DEF ShellPlace
<1> HIDE DEF s
<1>5. CASE Goto(Shell, "command")
  BY <1>2, <1>3, <1>4, <1>5, ShellRuns
<1>6. CASE pc' = pc /\ sh'.child = sh.child
  BY <1>2, <1>3, <1>6, StandingCalm DEF Continue
<1> QED BY <1>3, <1>5, <1>6

\* Commands without effect on a process other than its priority.
LEMMA QuietCommandRuns ==
  ASSUME Sound, IInv', Blank \/ Nice \/ NicePid \/ \E j \in Proc : Foreground(j)
  PROVE  Sound' /\ NoneRequeued
<1>1. cur = Shell /\ \E place \in {"prompt", "launch"} : Goto(Shell, place)
  BY DEF Blank, Nice, NicePid, Foreground, ToPrompt, At
<1>2. {"prompt", "launch"} \subseteq ShellPlace \ {"block", "woken"}
  BY DEF ShellPlace
<1>3. \/ Continue(k)
      \/ \E x \in Nat, n \in Int : Continue(p_nice(k, x, n))
  <2>1. CASE Nice
    <3>1. sh.prio \in Int /\ k.pid[sh.job] \in Nat
      BY <2>1, SoundFacts, ShellFacts, TableFacts DEF Nice, At, ShellState
    <3> QED BY <2>1, <3>1 DEF Nice
  <2>2. CASE NicePid
    <3>1. \A p \in k.table : k.pid[p] \in Nat
      BY SoundFacts, TableFacts
    <3> QED BY <2>2, <3>1, ConstantsAssumption DEF NicePid
  <2> QED BY <2>1, <2>2 DEF Blank, Foreground
<1>4. PICK s : KernelInv(s) /\ NoRevival(k, s) /\ Continue(s)
  BY <1>3, SoundFacts, p_niceInv, p_niceCalm
<1> QED BY <1>1, <1>2, <1>4, ShellRuns

\* bg, and putJobInForeground up to its wait: a job is continued.
LEMMA ContinuedRuns ==
  ASSUME Sound, IInv', NEW j \in Proc \ {Shell}, cur = Shell,
         \/ Continue(k) \/ Continue([k EXCEPT !.power = "off"])
         \/ schedule(p_kill(k, k.pid[j], "S_SIGCONT")),
         NEW place \in ShellPlace \ {"block", "woken"}, Goto(Shell, place)
  PROVE  Sound' /\ NoneRequeued
<1>1. /\ KernelInv(p_kill(k, k.pid[j], "S_SIGCONT"))
      /\ NoRevival(k, p_kill(k, k.pid[j], "S_SIGCONT"))
  <2>1. k.pid[j] # 1 /\ "S_SIGCONT" \in Signal
    BY SoundFacts, TableFacts DEF Signal
  <2> QED BY <2>1, SoundFacts, p_killInv, p_killCalm
<1>2. KernelInv([k EXCEPT !.power = "off"]) /\ NoRevival(k, [k EXCEPT !.power = "off"])
  BY SoundFacts, PowerInv, PowerCalm
<1>3. PICK s : KernelInv(s) /\ NoRevival(k, s) /\ (Continue(s) \/ schedule(s))
  BY <1>1, <1>2, SoundFacts
<1> QED BY <1>3, ShellRuns

\* bg.
LEMMA BackgroundRuns ==
  ASSUME Sound, IInv', NEW j \in Proc, Background(j) PROVE Sound' /\ NoneRequeued
<1>1. j # Shell /\ cur = Shell
  BY SoundFacts, ShellFacts DEF Background, At
<1>2. Continue(k) \/ schedule(p_kill(k, k.pid[j], "S_SIGCONT"))
  BY DEF Background
<1>3. PICK place \in {"prompt", "resumed"} : Goto(Shell, place)
  BY DEF Background, ToPrompt
<1>4. place \in ShellPlace \ {"block", "woken"}
  BY DEF ShellPlace
<1> QED BY <1>1, <1>2, <1>3, <1>4, ContinuedRuns

\* A job enters the queue or the foreground.
LEMMA LaunchRuns == ASSUME Sound, IInv', Launch PROVE Sound' /\ NoneRequeued
<1>1. sh.job \in Proc \ {Shell} /\ cur = Shell
  BY SoundFacts, ShellFacts DEF Launch, At
<1>2. \/ Continue(k) \/ Continue([k EXCEPT !.power = "off"])
      \/ schedule(p_kill(k, k.pid[sh.job], "S_SIGCONT"))
  BY DEF Launch
<1>3. PICK place \in {"prompt", "wait"} : Goto(Shell, place)
  BY DEF Launch, ToPrompt
<1>4. place \in ShellPlace \ {"block", "woken"}
  BY DEF ShellPlace
<1> QED BY <1>1, <1>2, <1>3, <1>4, ContinuedRuns

\* The poll at the end of bg.
LEMMA ResumedRuns == ASSUME Sound, IInv', Resumed PROVE Sound' /\ NoneRequeued
<1> DEFINE s == p_waitpid_nohang(k, Shell, k.pid[sh.job]).k
<1>1. sh.job \in Proc \ {Shell} /\ cur = Shell
  BY SoundFacts, ShellFacts DEF Resumed, At
<1>2. KernelInv(s) /\ NoRevival(k, s)
  BY <1>1, SoundFacts, TableFacts, p_waitpid_nohangInv, p_waitpid_nohangCalm DEF ResultInv
<1>3. Continue(s) /\ Goto(Shell, "prompt")
  BY DEF Resumed, ToPrompt
<1>4. "prompt" \in ShellPlace \ {"block", "woken"}
  BY DEF ShellPlace
<1> HIDE DEF s
<1> QED BY <1>1, <1>2, <1>3, <1>4, ShellRuns

\* The end of the blocking wait.
LEMMA BlockRuns ==
  ASSUME Sound, IInv', NEW s, KernelInv(s), NoRevival(k, s), cur = Shell,
         Block(s), SafeChild(k, sh'.child)
  PROVE  Sound' /\ NoneRequeued
<1>1. PICK x : schedule(setForeground(s, x)) /\ Goto(Shell, "woken")
  BY DEF Block
<1>2. KernelInv(setForeground(s, x)) /\ NoRevival(k, setForeground(s, x))
  BY setForegroundInv, setForegroundCalm, Follows
<1>3. "woken" \in ShellPlace
  BY DEF ShellPlace
<1> QED BY <1>1, <1>2, <1>3, ShellRuns

\* The wait of putJobInForeground.
LEMMA WaitRuns == ASSUME Sound, IInv', Wait PROVE Sound' /\ NoneRequeued
<1> DEFINE n == Search(k, k.pid[sh.job])
           k1 == [k EXCEPT !.prev[n] = k.status[n]]
           now == IF IsZombieOf(k, Shell, k.pid[sh.job]) THEN ReapZombie(k, n)
                  ELSE IF Changed(k, n) THEN Report(k, n)
                  ELSE Nothing(k)
<1>1. sh.job \in Proc \ {Shell} /\ cur = Shell /\ sh \in ShellState
  BY SoundFacts, ShellFacts DEF Wait, At
<1>2. n \in k.table /\ n # Shell /\ n # None
  BY <1>1, SoundFacts, SearchResult, SearchNotShell, TableFacts DEF Wait
<1>3. \/ Continue(now.k) /\ Waited(now.status)
      \/ /\ sh' = [sh EXCEPT !.child = n]
         /\ \/ Continue(k1) /\ Goto(Shell, "block")
            \/ Block(k1)
  BY DEF Wait
<1> HIDE DEF n
<1>4. n \in Proc /\ n <= k.made /\ Awake(k, k.ppid[n])
  BY <1>2, SoundFacts DEF KernelInv, KernelState
<1>5. KernelInv(k1) /\ NoRevival(k, k1)
  BY <1>4, SoundFacts, PrevInv, PrevCalm
<1>6. KernelInv(now.k) /\ NoRevival(k, now.k)
  <2>1. KernelInv(Nothing(k).k) /\ NoRevival(k, Nothing(k).k)
    BY SoundFacts DEF Nothing, Result
  <2>2. KernelInv(Report(k, n).k) /\ NoRevival(k, Report(k, n).k)
    BY <1>4, SoundFacts, ReportInv, ReportCalm DEF ResultInv
  <2>3. KernelInv(ReapZombie(k, n).k) /\ NoRevival(k, ReapZombie(k, n).k)
    BY <1>2, <1>4, SoundFacts, ReapZombieInv, ReapZombieCalm DEF ResultInv
  <2> QED BY <2>1, <2>2, <2>3
<1> HIDE DEF k1, now
<1>7. {"block", "prompt", "wait"} \subseteq ShellPlace
  BY DEF ShellPlace
<1>8. CASE Continue(now.k) /\ Waited(now.status)
  <2>1. PICK place \in {"prompt", "wait"} : Goto(Shell, place)
    BY <1>8 DEF Waited, ToPrompt
  <2> QED BY <1>1, <1>6, <1>7, <1>8, <2>1, ShellRuns
<1>9. CASE /\ sh' = [sh EXCEPT !.child = n]
           /\ \/ Continue(k1) /\ Goto(Shell, "block")
              \/ Block(k1)
  <2>1. SafeChild(k, sh'.child)
    BY <1>1, <1>4, <1>9 DEF SafeChild, ShellState
  <2>2. CASE Continue(k1) /\ Goto(Shell, "block")
    BY <1>1, <1>5, <1>7, <2>1, <2>2, ShellRuns
  <2>3. CASE Block(k1)
    BY <1>1, <1>5, <2>1, <2>3, BlockRuns
  <2> QED BY <1>9, <2>2, <2>3
<1> QED BY <1>3, <1>8, <1>9

\* Its second half after a tick.
LEMMA BlockLateRuns == ASSUME Sound, IInv', BlockLate PROVE Sound' /\ NoneRequeued
<1>1. cur = Shell /\ Block(k) /\ sh' = sh /\ SafeChild(k, sh.child)
  BY SoundFacts DEF BlockLate, At, RunsSound
<1> QED BY <1>1, SoundFacts, BlockRuns

\* The shell wakes up from its wait.
LEMMA WokenRuns == ASSUME Sound, IInv', Woken PROVE Sound' /\ NoneRequeued
<1> DEFINE now == IF Changed(k, sh.child) THEN Report(k, sh.child) ELSE Nothing(k)
<1>1. sh.child \in Proc /\ Awake(k, k.ppid[sh.child]) /\ cur = Shell
  BY SoundFacts, ShellFacts DEF Woken, At, RunsSound, SafeChild
<1>2. KernelInv(now.k) /\ NoRevival(k, now.k)
  <2>1. KernelInv(Nothing(k).k) /\ NoRevival(k, Nothing(k).k)
    BY SoundFacts DEF Nothing, Result
  <2>2. KernelInv(Report(k, sh.child).k) /\ NoRevival(k, Report(k, sh.child).k)
    BY <1>1, SoundFacts, ReportInv, ReportCalm DEF ResultInv
  <2> QED BY <2>1, <2>2
<1>3. Continue(now.k) /\ Waited(now.status)
  BY DEF Woken
<1> HIDE DEF now
<1>4. PICK place \in {"prompt", "wait"} : Goto(Shell, place)
  BY <1>3 DEF Waited, ToPrompt
<1>5. place \in ShellPlace \ {"block", "woken"}
  BY DEF ShellPlace
<1> QED BY <1>1, <1>2, <1>3, <1>4, <1>5, ShellRuns

-----------------------------------------------------------------------------
\* Sound holds of the initial state ...
LEMMA InitSound == Init => Sound
<1> SUFFICES ASSUME Init PROVE Sound
  OBVIOUS
<1>1. Shell \in Proc /\ None \notin Proc /\ Shell # None
  BY MaxProcAssumption DEF Proc, Shell, None
<1>2. /\ k.table = {Shell} /\ k.queued = {Shell} /\ k.asleep = {}
      /\ \A p \in Proc : k.prog[p] = "shell" /\ k.ticks[p] = -1
      /\ \A p \in Proc : k.ppid[p] = (IF p = Shell THEN 1 ELSE 0)
  BY DEF Init, InitKernel
<1>3. SleepersSound(k)
  BY <1>1, <1>2 DEF SleepersSound, Awake
<1>4. /\ cur = Shell /\ pc[Shell] = "prompt"
      /\ \A p \in Proc : pc[p] \in {"prompt", "done"}
  BY <1>1 DEF Init
<1>5. RunsSound
  BY <1>1, <1>2, <1>4 DEF RunsSound
<1> QED BY <1>3, <1>5, InitIInv DEF Sound

\* ... and is inductive, and no step puts anybody back into a ready queue.
LEMMA NextSound ==
  ASSUME "link" \notin Windows, Sound, [Next]_vars
  PROVE  Sound' /\ (NoneRequeued \/ UNCHANGED vars)
<1>1. IInv'
  BY NextIInv DEF Sound
<1>2. CASE Tick
  BY <1>1, <1>2, TickRuns
<1>3. ASSUME NEW signal \in Keys, Key(signal) PROVE Sound' /\ NoneRequeued
  BY <1>1, <1>3, KeyRuns
<1>4. CASE ShellStep
  <2>1. ASSUME NEW j \in Proc, PollJob(j) \/ Foreground(j) \/ Background(j)
        PROVE  Sound' /\ NoneRequeued
    BY <1>1, <2>1, PollJobRuns, QuietCommandRuns, BackgroundRuns
  <2>2. CASE Prompt \/ Logout \/ Poll
    BY <1>1, <2>2, PromptRuns, LogoutRuns, PollRuns
  <2>3. CASE Blank \/ Nice \/ NicePid \/ Command
    BY <1>1, <2>3, QuietCommandRuns, CommandRuns
  <2>4. CASE Resumed \/ Launch \/ Wait \/ BlockLate \/ Woken
    BY <1>1, <2>4, ResumedRuns, LaunchRuns, WaitRuns, BlockLateRuns, WokenRuns
  <2> QED BY <1>4, <2>1, <2>2, <2>3, <2>4 DEF ShellStep
<1>5. ASSUME NEW p \in Proc, ProgramStep(p) PROVE Sound' /\ NoneRequeued
  <2>1. ~Link(p)
    BY SoundFacts DEF Link, At, IInv
  <2> QED BY <1>1, <1>5, <2>1, SpawnChildRuns, SleepRuns, EnrolRuns, KillRuns,
             ReturnRuns DEF ProgramStep
<1>6. CASE UNCHANGED vars
  <2>1. UNCHANGED <<k, cur, pc, sh, req, keys>>
    BY <1>6 DEF vars
  <2> QED BY <1>1, <1>6, <2>1 DEF Sound, RunsSound
<1> QED BY <1>2, <1>3, <1>4, <1>5, <1>6 DEF Next, Halted

\* Sound is an invariant: no sleeper is ever made ready by somebody else, and a
\* process that has returned is out of the ready queues unless it is a sleeper.
THEOREM AlwaysSound == ASSUME "link" \notin Windows PROVE Spec => []Sound
<1>1. Sound /\ [Next]_vars => Sound'
  BY NextSound
<1> QED BY InitSound, <1>1, PTL DEF Spec

\* The scheduler never resumes a process whose function has returned.
THEOREM ReturnedNeverResumed ==
  ASSUME "link" \notin Windows PROVE Spec => []DoneNeverRuns
<1>1. Sound => DoneNeverRuns
  BY DEF Sound, RunsSound, DoneNeverRuns
<1> QED BY <1>1, AlwaysSound, PTL

\* A process that left the ready queues never comes back.
THEOREM LeavesForGood == ASSUME "link" \notin Windows PROVE Spec => NeverRequeued
<1>1. Sound /\ [Next]_vars => [NoneRequeued]_vars
  BY NextSound
<1> QED BY <1>1, AlwaysSound, PTL DEF Spec, NeverRequeued, NoneRequeued
=============================================================================

----------------------------- MODULE QuietProofs -----------------------------
(***************************************************************************)
(* Theorems about a quiet system, in which nobody sends signals but the    *)
(* user with ^C. The kernel calls come first: each takes a quiet kernel to *)
(* a quiet one, and what it may do to the living and the dead is one of a  *)
(* few relations (Passing, SameLives, Buried). Then the steps: one lemma   *)
(* per action shows that QuietInv is kept and that the step is Lawful. At  *)
(* the end the theorems.                                                   *)
(***************************************************************************)
EXTENDS PennOSProofs

(***************************************************************************)
(* A quiet system: nobody sends a signal but the user with ^C, who runs no *)
(* sleeper then, and no tick splits a call.  Without these assumptions the *)
(* properties below fail (README, section 6).                              *)
(***************************************************************************)
QuietSystem ==
  /\ Signals = {} /\ Windows = {} /\ 0 \notin SleepTicks
  /\ Keys \subseteq {"S_SIGTERM"} /\ (Keys = {} \/ SleepTicks = {})

\* Process p has ended.
Ended(s, p) == s.status[p] \in {"EXITED", "SIGNALED"}

\* Every process but the shell is in the children list of a parent; a zombies
\* list has each dead child once, and every dead process is in one and has left
\* no children; and only the shell and its children have children.
Families(s) ==
  /\ s.ppid[Shell] = 1
  /\ \A p \in s.table \ {Shell} : \E q \in s.table : p \in s.children[q]
  /\ \A p \in s.table : \A z \in s.zombies[p] :
        /\ z.of \in s.children[p] /\ Ended(s, z.of)
        /\ \A y \in s.zombies[p] : y.of = z.of => y = z
  /\ \A p \in s.table : Ended(s, p) =>
        /\ s.children[p] = {}
        /\ \E q \in s.table : \E z \in s.zombies[q] : z.of = p
  /\ \A p \in s.table : s.children[p] # {} => s.ppid[p] = 1

\* Nobody is stopped, the shell lives, and the ready queues have the living.
Lives(s) ==
  /\ \A p \in Proc : s.status[p] # "STOPPED"
  /\ ~Ended(s, Shell)
  /\ \A p \in s.table : p \in s.queued <=> ~Ended(s, p)

\* A sleeper in the sleep queue has ended there or is blocked; and a process
\* other than the shell is blocked there only.
Sleepers(s) ==
  /\ \A n \in s.asleep : \/ s.status[n.of] = "EXITED"
                         \/ n.of \in s.table /\ s.status[n.of] = "BLOCKED"
  /\ \A p \in s.table \ {Shell} : s.status[p] = "BLOCKED" =>
        /\ s.ppid[p] = 1 /\ s.children[p] = {}
        /\ \E n \in s.asleep : n.of = p
  /\ SleepTicks = {} => s.asleep = {}

\* The shell is blocked exactly while a child of it has the terminal ...
OnTop(s) ==
  /\ s.fg # Shell <=> s.status[Shell] = "BLOCKED"
  /\ s.fg # Shell => s.fg \in s.table /\ s.ppid[s.fg] = 1

\* ... and that child has not ended.
Awaited(s) == s.fg # Shell => ~Ended(s, s.fg)

\* What holds between two statements of the kernel, and between two calls.
Settling(s) == KernelInv(s) /\ Families(s) /\ Lives(s) /\ Sleepers(s) /\ OnTop(s)
Quiet(s) == Settling(s) /\ Awaited(s)

-----------------------------------------------------------------------------
\* A search by the pid of a process of the table finds that process.
LEMMA SearchFinds ==
  ASSUME NEW s, KernelInv(s), NEW p \in s.table
  PROVE  Search(s, s.pid[p]) = p
<1>1. Search(s, s.pid[p]) \in s.table \cup {None}
      /\ (Search(s, s.pid[p]) # None => s.pid[Search(s, s.pid[p])] = s.pid[p])
  BY SearchResult
<1>2. Search(s, s.pid[p]) # None
  <2>1. PICK q \in s.table : /\ s.pid[q] = s.pid[p]
                             /\ \A r \in s.table : s.pid[r] = s.pid[p] => q <= r
    <3>1. p <= p
      BY TableFacts, MaxProcAssumption DEF Proc
    <3> QED BY <3>1, SamePid
  <2>2. Search(s, s.pid[p]) \in s.table
    BY <2>1 DEF Search
  <2> QED BY <2>2, TableFacts
<1> QED BY <1>1, <1>2, SamePid

\* What the cleanup of some processes leaves behind: nothing of them in the table,
\* the ready queues and the lists of those that stay, and all else unchanged.
LEMMA ReapExact ==
  ASSUME NEW s, KernelInv(s), NEW D \in SUBSET s.table,
         \A p \in s.table : \A z \in s.zombies[p] :
            /\ z.of \in s.children[p]
            /\ \A y \in s.zombies[p] : y.of = z.of => y = z,
         NEW t, t = Reap(s, D)
  PROVE  /\ t.table = s.table \ D /\ t.queued = s.queued \ D
         /\ \A p \in s.table \ D :
               /\ t.children[p] = s.children[p] \ D
               /\ t.zombies[p] = {z \in s.zombies[p] : z.of \notin D}
         /\ \A p \in Proc : /\ t.children[p] \subseteq s.children[p]
                            /\ t.zombies[p] \subseteq s.zombies[p]
         /\ t.made = s.made /\ t.pid = s.pid /\ t.ppid = s.ppid
         /\ t.status = s.status /\ t.asleep = s.asleep /\ t.ticks = s.ticks
         /\ t.fg = s.fg /\ t.power = s.power
<1> DEFINE left == s.table \ D
           gone(p) == {s.pid[d] : d \in {d \in D : s.ppid[d] = s.pid[p]}}
<1>0. s \in KernelState /\ s.table \subseteq Proc
  BY DEF KernelInv, KernelState
<1>1. /\ t.made = s.made /\ t.pid = s.pid /\ t.ppid = s.ppid
      /\ t.status = s.status /\ t.asleep = s.asleep /\ t.ticks = s.ticks
      /\ t.fg = s.fg /\ t.power = s.power
  BY <1>0 DEF Reap, KernelState
<1>2. /\ t.table = left
      /\ t.queued = {q \in s.queued : \A d \in D : ~SameSlot(s, d, q)}
  BY <1>0 DEF Reap, KernelState
<1>3. t.children = [p \in Proc |->
            IF p \in left
              THEN {c \in s.children[p] : \/ s.pid[c] \notin gone(p)
                                 \/ \E b \in s.children[p] : b > c /\ s.pid[b] = s.pid[c]}
              ELSE s.children[p]]
  BY <1>0 DEF Reap, KernelState
<1>4. t.zombies = [p \in Proc |->
            IF p \in left
              THEN {z \in s.zombies[p] : \/ s.pid[z.of] \notin gone(p)
                                 \/ \E y \in s.zombies[p] : /\ y.at > z.at
                                                    /\ s.pid[y.of] = s.pid[z.of]}
              ELSE s.zombies[p]]
  BY <1>0 DEF Reap, KernelState
<1>5. t.queued = s.queued \ D
  <2>1. \A q \in s.queued, d \in D : SameSlot(s, d, q) <=> d = q
    <3> TAKE q \in s.queued, d \in D
    <3>1. q \in s.table /\ d \in s.table
      BY DEF KernelInv
    <3> QED BY <3>1, SamePid DEF SameSlot
  <2> QED BY <1>2, <2>1
<1>6. ASSUME NEW p \in left, NEW c \in s.children[p]
      PROVE  s.pid[c] \in gone(p) <=> c \in D
  <2>1. c \in s.table /\ s.ppid[c] = s.pid[p]
    BY DEF KernelInv
  <2>2. ASSUME s.pid[c] \in gone(p) PROVE c \in D
    <3>1. PICK d \in D : s.pid[c] = s.pid[d]
      BY <2>2
    <3> QED BY <2>1, <3>1, SamePid
  <2> QED BY <2>1, <2>2
<1> HIDE DEF gone
<1>7. ASSUME NEW p \in left PROVE t.children[p] = s.children[p] \ D
  <2>1. \A c \in s.children[p] : ~ \E b \in s.children[p] : b > c /\ s.pid[b] = s.pid[c]
    <3> SUFFICES ASSUME NEW c \in s.children[p], NEW b \in s.children[p],
                        b > c, s.pid[b] = s.pid[c]
                 PROVE  FALSE
      OBVIOUS
    <3>1. b \in s.table /\ c \in s.table
      BY DEF KernelInv
    <3>2. b = c
      BY <3>1, SamePid
    <3>3. b \in Nat
      BY <1>0, <3>1, MaxProcAssumption DEF Proc
    <3> QED BY <3>2, <3>3
  <2>2. t.children[p] = {c \in s.children[p] : \/ s.pid[c] \notin gone(p)
                                 \/ \E b \in s.children[p] : b > c /\ s.pid[b] = s.pid[c]}
    BY <1>0, <1>3
  <2>3. \A c \in s.children[p] : s.pid[c] \in gone(p) <=> c \in D
    BY <1>6
  <2> QED BY <2>1, <2>2, <2>3
<1>8. ASSUME NEW p \in left PROVE t.zombies[p] = {z \in s.zombies[p] : z.of \notin D}
  <2>1. \A z \in s.zombies[p] : ~ \E y \in s.zombies[p] : y.at > z.at /\ s.pid[y.of] = s.pid[z.of]
    <3> SUFFICES ASSUME NEW z \in s.zombies[p], NEW y \in s.zombies[p],
                        y.at > z.at, s.pid[y.of] = s.pid[z.of]
                 PROVE  FALSE
      OBVIOUS
    <3>1. z.of \in s.table /\ y.of \in s.table
      BY DEF KernelInv
    <3>2. y = z
      BY <3>1, SamePid
    <3>3. z.at \in Nat
      BY <1>0 DEF KernelState, Node
    <3> QED BY <3>2, <3>3
  <2>2. t.zombies[p] = {z \in s.zombies[p] : \/ s.pid[z.of] \notin gone(p)
                                 \/ \E y \in s.zombies[p] : /\ y.at > z.at
                                                    /\ s.pid[y.of] = s.pid[z.of]}
    BY <1>0, <1>4
  <2>3. \A z \in s.zombies[p] : s.pid[z.of] \in gone(p) <=> z.of \in D
    BY <1>6
  <2> QED BY <2>1, <2>2, <2>3
<1>9. \A p \in Proc : t.children[p] \subseteq s.children[p]
  BY <1>0, <1>3
<1>10. \A p \in Proc : t.zombies[p] \subseteq s.zombies[p]
  BY <1>0, <1>4
<1> QED BY <1>1, <1>2, <1>5, <1>7, <1>8, <1>9, <1>10

\* clearZombiesAndChildren of a process with at most childless children takes
\* these children.
LEMMA DoomedAreChildren ==
  ASSUME NEW s, KernelInv(s), NEW p \in Proc, s.children[p] \subseteq s.table,
         \A z \in s.zombies[p] : z.of \in s.children[p],
         \A c \in s.children[p] : s.children[c] = {} /\ s.zombies[c] = {}
  PROVE  Doomed(s, p) = s.children[p]
<1> DEFINE S == s.children[p]
<1>1. Heirs(s, p) = S
  <2>1. \A c \in S : Search(s, s.pid[c]) = c
    BY SearchFinds
  <2> QED BY <2>1 DEF Heirs
<1>2. \A c \in S : Heirs(s, c) = {}
  BY DEF Heirs
<1>3. Doomed(s, p) \subseteq S
  <2>1. S \in SUBSET s.table /\ \A r \in S \cup {p} : Heirs(s, r) \subseteq S
    BY <1>1, <1>2
  <2> HIDE DEF S
  <2> QED BY <2>1 DEF Doomed
<1>4. ASSUME NEW c \in S PROVE c \in Doomed(s, p)
  <2>1. ASSUME NEW T \in SUBSET s.table, \A r \in T \cup {p} : Heirs(s, r) \subseteq T
        PROVE  c \in T
    BY <1>1, <2>1
  <2> QED BY <2>1 DEF Doomed
<1> QED BY <1>3, <1>4

\* What the death of one process changes: its own status, ready queue and lists,
\* the zombies of its parent q, and its children, who go with it.
Death(s, t, p, q, v) ==
  /\ t.status = [s.status EXCEPT ![p] = v]
  /\ t.table = s.table \ s.children[p]
  /\ t.queued = s.queued \ ({p} \cup s.children[p])
  /\ \A r \in t.table : t.children[r] = IF r = p THEN {} ELSE s.children[r]
  /\ \A r \in t.table \ {p, q} : t.zombies[r] = s.zombies[r]
  /\ t.zombies[p] = {}
  /\ \E z : z.of = p /\ t.zombies[q] = s.zombies[q] \cup {z}
  /\ \A r \in Proc : t.children[r] \subseteq s.children[r]
  /\ t.made = s.made /\ t.pid = s.pid /\ t.ppid = s.ppid /\ t.asleep = s.asleep
  /\ t.ticks = s.ticks /\ t.fg = s.fg /\ t.power = s.power

\* A process has one parent, and a parent that is not the shell has children
\* without children.
LEMMA FamilyFacts ==
  ASSUME NEW s, KernelInv(s), Families(s), NEW p \in s.table \ {Shell}
  PROVE  /\ \E q \in s.table : p \in s.children[q]
         /\ \A q \in s.table : p \in s.children[q] =>
              q # p /\ q \notin s.children[p] /\ s.pid[q] = s.ppid[p]
         /\ \A q, r \in s.table : p \in s.children[q] /\ p \in s.children[r] => q = r
         /\ \A c \in s.children[p] : /\ c \in s.table /\ c # Shell /\ s.ppid[c] # 1
                                     /\ s.children[c] = {} /\ s.zombies[c] = {}
<1>1. p \in Proc /\ s.table \subseteq Proc /\ s.pid[p] # 1 /\ s.pid[Shell] = 1
  BY TableFacts DEF KernelInv
<1>2. \E q \in s.table : p \in s.children[q]
  BY DEF Families
<1>3. ASSUME NEW c \in s.children[p]
      PROVE  /\ c \in s.table /\ c # Shell /\ s.ppid[c] # 1
             /\ s.children[c] = {} /\ s.zombies[c] = {}
  <2>1. c \in s.table /\ s.ppid[c] = s.pid[p] /\ c # Shell
    BY <1>1 DEF KernelInv
  <2>2. s.children[c] = {}
    BY <1>1, <2>1 DEF Families
  <2>3. s.zombies[c] = {}
    BY <2>1, <2>2 DEF Families
  <2> QED BY <1>1, <2>1, <2>2, <2>3
<1>4. ASSUME NEW q \in s.table, p \in s.children[q]
      PROVE  q # p /\ q \notin s.children[p] /\ s.pid[q] = s.ppid[p]
  <2>1. q \notin s.children[p]
    BY <1>3, <1>4
  <2>2. s.pid[q] = s.ppid[p]
    BY <1>4 DEF KernelInv
  <2> QED BY <1>4, <2>1, <2>2
<1>5. ASSUME NEW q \in s.table, NEW r \in s.table,
             p \in s.children[q], p \in s.children[r]
      PROVE  q = r
  BY <1>4, <1>5, SamePid
<1> QED BY <1>2, <1>3, <1>4, <1>5

\* dealWithUnwaitedProcess, exactly.
LEMMA DeathExact ==
  ASSUME NEW s, KernelInv(s), Families(s), NEW p \in s.table \ {Shell},
         ~Ended(s, p), NEW v \in {"EXITED", "SIGNALED"},
         NEW q \in s.table, p \in s.children[q]
  PROVE  /\ KernelInv(dealWithUnwaitedProcess([s EXCEPT !.status[p] = v], p))
         /\ Death(s, dealWithUnwaitedProcess([s EXCEPT !.status[p] = v], p), p, q, v)
<1> DEFINE u == [s EXCEPT !.status[p] = v]
           u1 == removeFromScheduler(u, p)
           z == [at |-> u1.stamp, of |-> p]
           u2 == PushZombie(u1, q, p)
           t == clearZombiesAndChildren(u2, p)
<1>1. /\ p \in Proc /\ q \in Proc /\ q # p /\ s.pid[q] = s.ppid[p]
      /\ v \in Status /\ q \notin s.children[p]
  BY FamilyFacts, TableFacts DEF Status
<1>2. /\ KernelInv(u) /\ u.status = [s.status EXCEPT ![p] = v]
      /\ u.table = s.table /\ u.queued = s.queued /\ u.children = s.children
      /\ u.zombies = s.zombies /\ u.made = s.made /\ u.pid = s.pid /\ u.ppid = s.ppid
      /\ u.asleep = s.asleep /\ u.ticks = s.ticks /\ u.fg = s.fg /\ u.power = s.power
  <2>1. KernelInv(u)
    BY <1>1, StatusInv
  <2> QED BY <2>1 DEF KernelInv, KernelState
<1> HIDE DEF u
<1>3. /\ KernelInv(u1) /\ u1.queued = u.queued \ {p} /\ u1.status = u.status
      /\ u1.table = u.table /\ u1.children = u.children
      /\ u1.zombies = u.zombies /\ u1.made = u.made /\ u1.pid = u.pid /\ u1.ppid = u.ppid
      /\ u1.asleep = u.asleep /\ u1.ticks = u.ticks /\ u1.fg = u.fg /\ u1.power = u.power
  <2>1. KernelInv(u1)
    BY <1>1, <1>2, removeFromSchedulerInv
  <2>2. \A r \in u.queued : SameSlot(u, p, r) <=> r = p
    <3> TAKE r \in u.queued
    <3>1. r \in u.table /\ p \in u.table
      BY <1>2 DEF KernelInv
    <3> QED BY <1>2, <3>1, SamePid DEF SameSlot
  <2>3. u1.queued = {r \in u.queued : ~SameSlot(u, p, r)}
    BY <1>2 DEF KernelInv, KernelState, removeFromScheduler
  <2>4. u1.queued = u.queued \ {p}
    BY <2>2, <2>3
  <2> QED BY <1>2, <2>1, <2>4 DEF KernelInv, KernelState, removeFromScheduler
<1>4. Search(u1, u.ppid[p]) = q
  <2>1. q \in u1.table /\ u1.pid[q] = u.ppid[p]
    BY <1>1, <1>2, <1>3
  <2> QED BY <1>3, <2>1, SearchFinds
<1>5. dealWithUnwaitedProcess(u, p) = t
  <2>1. q # None
    BY <1>1, MaxProcAssumption DEF Proc, None
  <2> QED BY <1>4, <2>1 DEF dealWithUnwaitedProcess
<1> HIDE DEF u1
<1>6. /\ KernelInv(u2) /\ u2.zombies = [u1.zombies EXCEPT ![q] = @ \cup {z}]
      /\ u2.queued = u1.queued /\ u2.status = u1.status
      /\ u2.table = u1.table /\ u2.children = u1.children
      /\ u2.made = u1.made /\ u2.pid = u1.pid /\ u2.ppid = u1.ppid
      /\ u2.asleep = u1.asleep /\ u2.ticks = u1.ticks /\ u2.fg = u1.fg /\ u2.power = u1.power
  <2>1. KernelInv(u2)
    BY <1>1, <1>3, PushZombieInv
  <2> QED BY <1>3, <2>1 DEF PushZombie, KernelInv, KernelState
<1>7. /\ \A r \in Proc : u2.zombies[r] = IF r = q THEN s.zombies[q] \cup {z} ELSE s.zombies[r]
      /\ z.of = p
  <2>1. u1.zombies \in [Proc -> SUBSET Node]
    BY <1>3 DEF KernelInv, KernelState
  <2> QED BY <1>1, <1>2, <1>3, <1>6, <2>1
<1> HIDE DEF z, u2
<1>8. Doomed(u2, p) = s.children[p]
  <2>1. u2.children[p] = s.children[p] /\ u2.table = s.table /\ u2.children = s.children
    BY <1>2, <1>3, <1>6
  <2>2. \A c \in s.children[p] : c \in Proc /\ c # q
    BY <1>1, FamilyFacts, TableFacts
  <2>3. u2.children[p] \subseteq u2.table
    BY <2>1, FamilyFacts
  <2>4. \A y \in u2.zombies[p] : y.of \in u2.children[p]
    BY <1>1, <1>7, <2>1 DEF Families
  <2>5. \A c \in u2.children[p] : u2.children[c] = {} /\ u2.zombies[c] = {}
    BY <1>7, <2>1, <2>2, FamilyFacts
  <2>6. Doomed(u2, p) = u2.children[p]
    BY <1>1, <1>6, <2>3, <2>4, <2>5, DoomedAreChildren
  <2> QED BY <2>1, <2>6
<1>9. t = Reap(u2, s.children[p])
  BY <1>8 DEF clearZombiesAndChildren
<1>10. KernelInv(t)
  BY <1>1, <1>6, clearZombiesAndChildrenInv
<1> HIDE DEF t
<1>11. ASSUME NEW r \in u2.table, NEW y \in u2.zombies[r]
       PROVE  /\ y.of \in u2.children[r]
              /\ \A x \in u2.zombies[r] : x.of = y.of => x = y
  <2>1. r \in s.table /\ r \in Proc /\ u2.children[r] = s.children[r]
    BY <1>2, <1>3, <1>6, <1>11, TableFacts
  <2>2. \A x \in s.zombies[r] : x.of # p
    <3>1. \A x \in s.zombies[r] : x.of = p => p \in s.children[r] /\ Ended(s, p)
      BY <2>1 DEF Families
    <3> QED BY <3>1
  <2>3. CASE r # q
    BY <1>7, <2>1, <2>3 DEF Families
  <2>4. CASE r = q
    <3>1. \A x \in u2.zombies[r] : x = z \/ (x \in s.zombies[r] /\ x.of # p)
      BY <1>7, <2>1, <2>2, <2>4
    <3>2. CASE y = z
      BY <1>7, <2>1, <2>4, <3>1, <3>2
    <3>3. CASE y \in s.zombies[r] /\ y.of # p
      BY <1>7, <2>1, <3>1, <3>3 DEF Families
    <3> QED BY <3>1, <3>2, <3>3
  <2> QED BY <2>3, <2>4
<1>12. /\ t.table = u2.table \ s.children[p] /\ t.queued = u2.queued \ s.children[p]
       /\ \A r \in u2.table \ s.children[p] :
            /\ t.children[r] = u2.children[r] \ s.children[p]
            /\ t.zombies[r] = {y \in u2.zombies[r] : y.of \notin s.children[p]}
       /\ \A r \in Proc : t.children[r] \subseteq u2.children[r]
       /\ t.made = u2.made /\ t.pid = u2.pid /\ t.ppid = u2.ppid
       /\ t.status = u2.status /\ t.asleep = u2.asleep /\ t.ticks = u2.ticks
       /\ t.fg = u2.fg /\ t.power = u2.power
  <2>1. s.children[p] \in SUBSET u2.table
    BY <1>2, <1>3, <1>6, FamilyFacts
  <2>2. \A r \in u2.table : \A y \in u2.zombies[r] :
           /\ y.of \in u2.children[r]
           /\ \A x \in u2.zombies[r] : x.of = y.of => x = y
    BY <1>11
  <2>3. KernelInv(u2)
    BY <1>6
  <2>4. PICK D \in SUBSET u2.table : D = s.children[p]
    BY <2>1
  <2>5. t = Reap(u2, D)
    BY <1>9, <2>4
  <2> QED BY <2>2, <2>3, <2>4, <2>5, ReapExact
<1>13. ASSUME NEW r \in t.table
       PROVE  t.children[r] = IF r = p THEN {} ELSE s.children[r]
  <2>1. r \in s.table /\ t.children[r] = s.children[r] \ s.children[p]
    BY <1>2, <1>3, <1>6, <1>12
  <2>2. r # p => s.children[r] \cap s.children[p] = {}
    <3> SUFFICES ASSUME r # p, NEW c \in s.children[r], c \in s.children[p] PROVE FALSE
      OBVIOUS
    <3>1. c \in s.table \ {Shell}
      BY FamilyFacts
    <3> QED BY <2>1, <3>1, FamilyFacts
  <2> QED BY <2>1, <2>2
<1>14. p \in t.table /\ q \in t.table /\ t.table = s.table \ s.children[p]
  <2>1. p \notin s.children[p]
    BY <1>1, FamilyFacts
  <2> QED BY <1>1, <1>2, <1>3, <1>6, <1>12, <2>1
<1>15. ASSUME NEW r \in t.table \ {p}, NEW y \in u2.zombies[r]
       PROVE  y.of \notin s.children[p]
  <2>1. r \in s.table /\ y.of \in s.children[r]
    BY <1>2, <1>3, <1>6, <1>11, <1>14
  <2>2. ASSUME y.of \in s.children[p] PROVE FALSE
    <3>1. y.of \in s.table \ {Shell}
      BY <2>2, FamilyFacts
    <3> QED BY <2>1, <2>2, <3>1, FamilyFacts
  <2> QED BY <2>2
<1>16. \A r \in t.table \ {p, q} : t.zombies[r] = s.zombies[r]
  <2> TAKE r \in t.table \ {p, q}
  <2>1. t.zombies[r] = {y \in u2.zombies[r] : y.of \notin s.children[p]}
    BY <1>2, <1>3, <1>6, <1>12, <1>14
  <2>2. t.zombies[r] = u2.zombies[r]
    BY <1>15, <2>1
  <2>3. r \in Proc
    BY <1>10, TableFacts
  <2> QED BY <1>7, <2>2, <2>3
<1>17. t.zombies[p] = {}
  <2>1. u2.zombies[p] = s.zombies[p] /\ \A y \in s.zombies[p] : y.of \in s.children[p]
    BY <1>1, <1>7 DEF Families
  <2> QED BY <1>2, <1>3, <1>6, <1>12, <1>14, <2>1
<1>18. t.zombies[q] = s.zombies[q] \cup {z}
  <2>1. t.zombies[q] = {y \in u2.zombies[q] : y.of \notin s.children[p]}
    BY <1>2, <1>3, <1>6, <1>12, <1>14
  <2>2. t.zombies[q] = u2.zombies[q]
    BY <1>1, <1>14, <1>15, <2>1
  <2> QED BY <1>1, <1>7, <2>2
<1>19. /\ t.status = [s.status EXCEPT ![p] = v]
       /\ t.queued = s.queued \ ({p} \cup s.children[p])
       /\ \A r \in Proc : t.children[r] \subseteq s.children[r]
       /\ t.made = s.made /\ t.pid = s.pid /\ t.ppid = s.ppid /\ t.asleep = s.asleep
       /\ t.ticks = s.ticks /\ t.fg = s.fg /\ t.power = s.power
  BY <1>2, <1>3, <1>6, <1>12
<1>20. Death(s, t, p, q, v)
  BY <1>7, <1>13, <1>14, <1>16, <1>17, <1>18, <1>19 DEF Death
<1> QED BY <1>5, <1>10, <1>20 DEF u

\* After a death the kernel is settled again.
LEMMA DeathSettles ==
  ASSUME NEW s, Settling(s), NEW p \in s.table \ {Shell}, ~Ended(s, p),
         NEW v \in {"EXITED", "SIGNALED"}, v = "EXITED" \/ s.asleep = {},
         NEW q \in s.table, p \in s.children[q],
         NEW t, KernelInv(t), Death(s, t, p, q, v)
  PROVE  Settling(t) /\ p \in t.table /\ Ended(t, p)
<1>0. KernelInv(s) /\ Families(s) /\ Lives(s) /\ Sleepers(s) /\ OnTop(s)
  BY DEF Settling
<1>1. /\ p \in Proc /\ q \in Proc /\ q # p /\ q \notin s.children[p] /\ p \notin s.children[p]
      /\ Shell \in Proc /\ Shell # p /\ s.table \subseteq Proc
      /\ Shell \in s.table /\ Shell \notin s.children[p]
  BY <1>0, FamilyFacts, TableFacts DEF KernelInv
<1>2. /\ t.table = s.table \ s.children[p] /\ p \in t.table /\ q \in t.table
      /\ t.queued = s.queued \ ({p} \cup s.children[p])
      /\ t.ppid = s.ppid /\ t.pid = s.pid /\ t.asleep = s.asleep /\ t.fg = s.fg
  BY <1>1 DEF Death
<1>3. \A r \in Proc : t.status[r] = IF r = p THEN v ELSE s.status[r]
  BY <1>0, <1>1 DEF Death, KernelInv, KernelState
<1>4. \A r \in Proc : Ended(t, r) <=> r = p \/ Ended(s, r)
  BY <1>3 DEF Ended
<1>5. \A r \in t.table : t.children[r] = IF r = p THEN {} ELSE s.children[r]
  BY DEF Death
<1>6. PICK z : z.of = p /\ t.zombies[q] = s.zombies[q] \cup {z}
  BY DEF Death
<1>7. t.zombies[p] = {} /\ \A r \in t.table \ {p, q} : t.zombies[r] = s.zombies[r]
  BY DEF Death
<1>8. \A r \in t.table : \A o \in s.table : r \in s.children[o] => o \in t.table /\ o # p
  <2> TAKE r \in t.table
  <2> TAKE o \in s.table
  <2>1. o \in s.children[p] => s.children[o] = {}
    BY <1>0, FamilyFacts
  <2> QED BY <1>2, <2>1
<1>9. Families(t)
  <2>1. t.ppid[Shell] = 1
    BY <1>0, <1>2 DEF Families
  <2>2. ASSUME NEW r \in t.table \ {Shell} PROVE \E o \in t.table : r \in t.children[o]
    <3>1. PICK o \in s.table : r \in s.children[o]
      BY <1>0, <1>2 DEF Families
    <3>2. o \in t.table /\ o # p
      BY <1>8, <3>1
    <3> QED BY <1>5, <3>1, <3>2
  <2>3. ASSUME NEW r \in t.table, NEW y \in t.zombies[r]
        PROVE  /\ y.of \in t.children[r] /\ Ended(t, y.of)
               /\ \A x \in t.zombies[r] : x.of = y.of => x = y
    <3>1. r # p /\ r \in s.table /\ t.children[r] = s.children[r]
      BY <1>2, <1>5, <1>7, <2>3
    <3>2. \A x \in s.zombies[r] : x.of # p /\ x.of \in Proc /\ x.of \in s.children[r]
      <4>1. \A x \in s.zombies[r] : x.of \in s.children[r] /\ Ended(s, x.of)
        BY <1>0, <3>1 DEF Families
      <4>2. \A c \in s.children[r] : c \in s.table
        BY <1>0, <3>1 DEF KernelInv
      <4> QED BY <1>1, <4>1, <4>2
    <3>3. CASE y \in s.zombies[r] /\ r # q
      <4>1. t.zombies[r] = s.zombies[r]
        BY <1>7, <3>1, <3>3
      <4> QED BY <1>0, <1>4, <3>1, <3>2, <3>3, <4>1 DEF Families
    <3>4. CASE r = q
      <4>1. \A x \in t.zombies[r] : x = z \/ x \in s.zombies[r]
        BY <1>6, <3>4
      <4>2. CASE y = z
        BY <1>1, <1>4, <1>6, <3>1, <3>2, <3>4, <4>1, <4>2
      <4>3. CASE y \in s.zombies[r]
        <5>1. Ended(t, y.of) /\ y.of # p
          BY <1>0, <1>4, <3>1, <3>2, <4>3 DEF Families
        <5>2. \A x \in s.zombies[r] : x.of = y.of => x = y
          BY <1>0, <3>1, <4>3 DEF Families
        <5> QED BY <1>6, <3>1, <3>2, <4>1, <4>3, <5>1, <5>2
      <4> QED BY <2>3, <4>1, <4>2, <4>3
    <3> QED BY <1>7, <2>3, <3>1, <3>3, <3>4
  <2>4. ASSUME NEW r \in t.table, Ended(t, r)
        PROVE  /\ t.children[r] = {}
               /\ \E o \in t.table : \E y \in t.zombies[o] : y.of = r
    <3>1. CASE r = p
      BY <1>2, <1>5, <1>6, <3>1
    <3>2. CASE r # p
      <4>1. r \in s.table /\ Ended(s, r)
        BY <1>1, <1>2, <1>4, <2>4, <3>2
      <4>2. PICK o \in s.table : \E y \in s.zombies[o] : y.of = r
        BY <1>0, <4>1 DEF Families
      <4>3. PICK y \in s.zombies[o] : y.of = r
        BY <4>2
      <4>4. r \in s.children[o] /\ s.children[r] = {}
        BY <1>0, <4>1, <4>3 DEF Families
      <4>5. o \in t.table /\ o # p
        BY <1>8, <4>4
      <4>6. y \in t.zombies[o]
        BY <1>6, <1>7, <4>5
      <4> QED BY <1>5, <3>2, <4>3, <4>4, <4>5, <4>6
    <3> QED BY <3>1, <3>2
  <2>5. ASSUME NEW r \in t.table, t.children[r] # {} PROVE t.ppid[r] = 1
    BY <1>0, <1>2, <1>5, <2>5 DEF Families
  <2> QED BY <2>1, <2>2, <2>3, <2>4, <2>5 DEF Families
<1>10. Lives(t)
  <2>1. \A r \in Proc : t.status[r] # "STOPPED"
    BY <1>0, <1>3 DEF Lives
  <2>2. ~Ended(t, Shell)
    BY <1>0, <1>1, <1>4 DEF Lives
  <2>3. \A r \in t.table : r \in t.queued <=> ~Ended(t, r)
    BY <1>0, <1>1, <1>2, <1>4 DEF Lives
  <2> QED BY <2>1, <2>2, <2>3 DEF Lives
<1>11. Sleepers(t)
  <2>1. ASSUME NEW n \in t.asleep
        PROVE  \/ t.status[n.of] = "EXITED"
               \/ n.of \in t.table /\ t.status[n.of] = "BLOCKED"
    <3>1. n.of \in Proc /\ n \in s.asleep /\ v = "EXITED" /\ n.of # Shell
      BY <1>0, <1>2 DEF KernelInv, KernelState, Node
    <3>2. CASE n.of = p \/ s.status[n.of] = "EXITED"
      BY <1>3, <3>1, <3>2
    <3>3. CASE n.of # p /\ n.of \in s.table /\ s.status[n.of] = "BLOCKED"
      <4>1. s.ppid[n.of] = 1
        BY <1>0, <3>1, <3>3 DEF Sleepers
      <4>2. n.of \notin s.children[p]
        BY <1>0, <4>1, FamilyFacts
      <4> QED BY <1>2, <1>3, <3>1, <3>3, <4>2
    <3> QED BY <1>0, <3>1, <3>2, <3>3 DEF Sleepers
  <2>2. ASSUME NEW r \in t.table \ {Shell}, t.status[r] = "BLOCKED"
        PROVE  /\ t.ppid[r] = 1 /\ t.children[r] = {}
               /\ \E n \in t.asleep : n.of = r
    <3>1. r # p /\ r \in s.table /\ s.status[r] = "BLOCKED"
      BY <1>1, <1>2, <1>3, <2>2
    <3> QED BY <1>0, <1>2, <1>5, <3>1 DEF Sleepers
  <2> QED BY <1>0, <1>2, <2>1, <2>2 DEF Sleepers
<1>12. OnTop(t)
  <2>1. s.fg # Shell => s.fg \in t.table
    <3>1. s.fg # Shell => s.fg \in s.table /\ s.ppid[s.fg] = 1
      BY <1>0 DEF OnTop
    <3> QED BY <1>0, <1>2, <3>1, FamilyFacts
  <2> QED BY <1>0, <1>1, <1>2, <1>3, <2>1 DEF OnTop
<1> QED BY <1>2, <1>4, <1>1, <1>9, <1>10, <1>11, <1>12 DEF Settling

-----------------------------------------------------------------------------
\* From s to t time passes: processes end, and take only their children out of
\* the table with them, and the shell is released by the process it waits for.
Passing(s, t) ==
  /\ t.made = s.made /\ t.pid = s.pid /\ t.ppid = s.ppid /\ t.power = s.power
  /\ t.table \subseteq s.table
  /\ \A p \in Proc : Ended(s, p) => Ended(t, p)
  /\ \A p \in Proc : t.children[p] \subseteq s.children[p]
  /\ \A p \in s.table \ t.table : \E q \in s.table : s.pid[q] = s.ppid[p] /\ Ended(t, q)
  /\ t.status[Shell] = "BLOCKED" => s.status[Shell] = "BLOCKED" /\ t.fg = s.fg
  /\ s.status[Shell] = "BLOCKED" /\ t.status[Shell] # "BLOCKED" => Ended(t, s.fg)

\* Passing is a preorder.
LEMMA PassesNot == ASSUME NEW s PROVE Passing(s, s)
BY DEF Passing

\* One step after the other.
LEMMA PassesOn ==
  ASSUME NEW s, NEW t, NEW u, KernelInv(s), KernelInv(t), Passing(s, t), Passing(t, u)
  PROVE  Passing(s, u)
<1>1. s.table \subseteq Proc /\ t.table \subseteq Proc /\ s.fg \in Proc
  BY TableFacts
<1>2. ASSUME NEW p \in s.table \ u.table
      PROVE  \E q \in s.table : s.pid[q] = s.ppid[p] /\ Ended(u, q)
  <2>1. CASE p \in t.table
    <3>1. PICK q \in t.table : t.pid[q] = t.ppid[p] /\ Ended(u, q)
      BY <2>1 DEF Passing
    <3> QED BY <3>1 DEF Passing
  <2>2. CASE p \notin t.table
    <3>1. PICK q \in s.table : s.pid[q] = s.ppid[p] /\ Ended(t, q)
      BY <2>2 DEF Passing
    <3> QED BY <1>1, <3>1 DEF Passing
  <2> QED BY <2>1, <2>2
<1>3. \A p \in Proc : u.children[p] \subseteq s.children[p]
  BY DEF Passing
<1>4. s.status[Shell] = "BLOCKED" /\ u.status[Shell] # "BLOCKED" => Ended(u, s.fg)
  BY <1>1 DEF Passing
<1>5. u.status[Shell] = "BLOCKED" => s.status[Shell] = "BLOCKED" /\ u.fg = s.fg
  BY DEF Passing
<1>6. \A p \in Proc : Ended(s, p) => Ended(u, p)
  BY DEF Passing
<1>7. /\ u.made = s.made /\ u.pid = s.pid /\ u.ppid = s.ppid /\ u.power = s.power
      /\ u.table \subseteq s.table
  BY DEF Passing
<1> QED BY <1>2, <1>3, <1>4, <1>5, <1>6, <1>7 DEF Passing

\* The shell has the terminal and the processor again.
TerminalBack(s) == [s EXCEPT !.status[Shell] = "READY", !.fg = Shell]

\* unblockParent of the shell gives it the terminal back, if it waits.
LEMMA ShellUnblocked ==
  ASSUME NEW s, KernelInv(s), OnTop(s)
  PROVE  unblockParent(s, 1) = IF s.fg # Shell THEN TerminalBack(s) ELSE s
<1> DEFINE u == [s EXCEPT !.status[Shell] = "READY"]
<1>1. Shell \in s.table /\ s.pid[Shell] = 1 /\ Shell # None /\ Shell \in Proc
  BY TableFacts DEF KernelInv
<1>2. Search(s, 1) = Shell
  BY <1>1, SearchFinds
<1>3. KernelInv(u) /\ u.table = s.table /\ u.pid = s.pid
  <2>1. "READY" \in Status
    BY DEF Status
  <2>2. KernelInv(u)
    BY <1>1, <2>1, StatusInv
  <2> QED BY <2>2 DEF KernelInv, KernelState
<1>4. TerminalBack(s) = [u EXCEPT !.fg = Shell]
  BY DEF TerminalBack, KernelInv, KernelState
<1> HIDE DEF u
<1>5. Search(u, 1) = Shell
  BY <1>1, <1>3, SearchFinds
<1>6. setForeground(u, 1) = [u EXCEPT !.fg = Shell]
  BY <1>1, <1>3, <1>5 DEF setForeground
<1>7. s.status[Shell] = "BLOCKED" <=> s.fg # Shell
  BY DEF OnTop
<1> QED BY <1>1, <1>2, <1>4, <1>6, <1>7 DEF unblockParent, u

\* Then nobody is awaited any more.
LEMMA TerminalBackQuiet ==
  ASSUME NEW s, Settling(s)
  PROVE  /\ Quiet(TerminalBack(s))
         /\ TerminalBack(s) = [s EXCEPT !.status = TerminalBack(s).status, !.fg = Shell]
         /\ TerminalBack(s).status = [s.status EXCEPT ![Shell] = "READY"]
<1> DEFINE t == TerminalBack(s)
<1>0. KernelInv(s) /\ s \in KernelState /\ Families(s) /\ Lives(s) /\ Sleepers(s) /\ OnTop(s)
  BY DEF Settling, KernelInv
<1>1. Shell \in Proc /\ s.table \subseteq Proc /\ Shell \in s.table
  BY <1>0, TableFacts DEF KernelInv
<1>2. t.status = [s.status EXCEPT ![Shell] = "READY"] /\ t.fg = Shell
  BY <1>0 DEF KernelState, TerminalBack
<1>3. t = [s EXCEPT !.status = t.status, !.fg = Shell]
  BY <1>0 DEF KernelState, TerminalBack
<1>4. /\ t.table = s.table /\ t.queued = s.queued /\ t.children = s.children
      /\ t.zombies = s.zombies /\ t.ppid = s.ppid /\ t.pid = s.pid /\ t.asleep = s.asleep
  BY <1>0 DEF KernelState, TerminalBack
<1>5. KernelInv(t)
  <2> DEFINE u == [s EXCEPT !.status[Shell] = "READY"]
  <2>1. "READY" \in Status
    BY DEF Status
  <2>2. KernelInv(u)
    BY <1>0, <1>1, <2>1, StatusInv
  <2>3. t = [u EXCEPT !.fg = Shell]
    BY <1>0 DEF KernelState, TerminalBack
  <2> HIDE DEF u, t
  <2> QED BY <1>1, <2>2, <2>3, ForegroundInv
<1> HIDE DEF t
<1>6. \A p \in Proc : t.status[p] = IF p = Shell THEN "READY" ELSE s.status[p]
  BY <1>0, <1>2 DEF KernelState
<1>7. \A p \in Proc : Ended(t, p) <=> Ended(s, p)
  BY <1>0, <1>6 DEF Lives, Ended
<1>8. Families(t)
  <2>1. \A p \in s.table : \A z \in s.zombies[p] : z.of \in Proc
    BY <1>0, <1>1 DEF KernelState, Node
  <2> QED BY <1>0, <1>1, <1>4, <1>7, <2>1 DEF Families
<1>9. Lives(t)
  BY <1>0, <1>1, <1>4, <1>6, <1>7 DEF Lives
<1>10. Sleepers(t)
  <2>1. \A n \in s.asleep : n.of \in Proc /\ n.of # Shell
    BY <1>0 DEF KernelInv, KernelState, Node
  <2> QED BY <1>0, <1>1, <1>4, <1>6, <2>1 DEF Sleepers
<1>11. OnTop(t) /\ Awaited(t)
  BY <1>1, <1>2, <1>6 DEF OnTop, Awaited
<1> QED BY <1>2, <1>3, <1>5, <1>8, <1>9, <1>10, <1>11 DEF Quiet, Settling, t

\* The test in front of unblockParent asks for the foreground process itself.
LEMMA ForegroundUnblocks ==
  ASSUME NEW s, Settling(s), NEW p \in s.table \ {Shell}
  PROVE  unblockIfForeground(s, p) = IF s.fg = p THEN TerminalBack(s) ELSE s
<1>0. KernelInv(s) /\ OnTop(s)
  BY DEF Settling
<1>1. p # Shell /\ p \in Proc /\ s.pid[p] # 1 /\ s.pid[Shell] = 1
  BY <1>0, TableFacts DEF KernelInv
<1>2. CASE s.fg = p
  <2>1. s.ppid[p] = 1
    BY <1>0, <1>2 DEF OnTop
  <2>2. unblockParent(s, s.ppid[p]) = TerminalBack(s)
    BY <1>0, <1>1, <1>2, <2>1, ShellUnblocked
  <2> QED BY <1>2, <2>2 DEF unblockIfForeground
<1>3. CASE s.fg # p
  <2>1. s.fg # Shell => s.fg \in s.table
    BY <1>0 DEF OnTop
  <2>2. s.pid[p] # s.pid[s.fg]
    BY <1>0, <1>1, <1>3, <2>1, SamePid
  <2> QED BY <1>3, <2>2 DEF unblockIfForeground
<1> QED BY <1>2, <1>3

\* From s to t process p dies with status v, and its parent is not told.
Dies(s, t, p, v) == t = dealWithUnwaitedProcess([s EXCEPT !.status[p] = v], p)

\* How a process may die: by itself, or of a signal while nobody sleeps.
Cause(s, v) == v = "EXITED" \/ (v = "SIGNALED" /\ s.asleep = {})

\* What such a death keeps and changes.
LEMMA ProcessDies ==
  ASSUME NEW s, Settling(s), NEW p \in s.table \ {Shell}, ~Ended(s, p),
         NEW v, Cause(s, v), NEW t, Dies(s, t, p, v)
  PROVE  /\ Settling(t) /\ Passing(s, t)
         /\ t.table = s.table \ s.children[p] /\ p \in t.table
         /\ t.status = [s.status EXCEPT ![p] = v] /\ Ended(t, p)
         /\ t.fg = s.fg /\ t.ticks = s.ticks /\ t.asleep = s.asleep
<1>0. KernelInv(s) /\ Families(s)
  BY DEF Settling
<1>1. PICK q \in s.table : p \in s.children[q]
  BY <1>0 DEF Families
<1>2. KernelInv(t) /\ Death(s, t, p, q, v)
  <2>1. v \in {"EXITED", "SIGNALED"}
    BY DEF Cause
  <2> QED BY <1>0, <1>1, <2>1, DeathExact DEF Dies
<1>3. Settling(t) /\ p \in t.table /\ Ended(t, p)
  <2>1. v \in {"EXITED", "SIGNALED"} /\ (v = "EXITED" \/ s.asleep = {})
    BY DEF Cause
  <2> QED BY <1>1, <1>2, <2>1, DeathSettles
<1>4. Passing(s, t)
  <2>1. \A r \in Proc : Ended(s, r) => Ended(t, r)
    BY <1>0, <1>2 DEF Death, Ended, KernelInv, KernelState
  <2>2. ASSUME NEW r \in s.table \ t.table
        PROVE  \E o \in s.table : s.pid[o] = s.ppid[r] /\ Ended(t, o)
    <3>1. r \in s.children[p]
      BY <1>2 DEF Death
    <3>2. s.ppid[r] = s.pid[p]
      BY <1>0, <3>1 DEF KernelInv
    <3> QED BY <1>3, <3>2
  <2>3. t.status[Shell] = s.status[Shell] /\ t.fg = s.fg
    BY <1>0, <1>2 DEF Death, KernelInv, KernelState
  <2>4. /\ t.made = s.made /\ t.pid = s.pid /\ t.ppid = s.ppid /\ t.power = s.power
        /\ t.table \subseteq s.table
        /\ \A r \in Proc : t.children[r] \subseteq s.children[r]
    BY <1>2 DEF Death
  <2> QED BY <2>1, <2>2, <2>3, <2>4 DEF Passing
<1> QED BY <1>2, <1>3, <1>4 DEF Death

\* The terminal returns to the shell when what had it has ended.
LEMMA TerminalBackPasses ==
  ASSUME NEW s, Settling(s), s.fg # Shell, Ended(s, s.fg)
  PROVE  Passing(s, TerminalBack(s))
<1> DEFINE t == TerminalBack(s)
<1>0. KernelInv(s) /\ s \in KernelState /\ Lives(s)
  BY DEF Settling, KernelInv
<1>1. Shell \in Proc /\ s.fg \in Proc
  BY <1>0, TableFacts
<1>2. t = [s EXCEPT !.status = t.status, !.fg = Shell] /\ t.status = [s.status EXCEPT ![Shell] = "READY"]
  BY TerminalBackQuiet
<1>3. /\ t.made = s.made /\ t.pid = s.pid /\ t.ppid = s.ppid /\ t.power = s.power
      /\ t.table = s.table /\ t.children = s.children
  BY <1>0 DEF TerminalBack, KernelState
<1> HIDE DEF t
<1>4. \A p \in Proc : t.status[p] = IF p = Shell THEN "READY" ELSE s.status[p]
  BY <1>0, <1>2 DEF KernelState
<1>5. \A p \in Proc : Ended(s, p) => Ended(t, p)
  BY <1>0, <1>4 DEF Ended, Lives
<1> QED BY <1>1, <1>3, <1>4, <1>5 DEF Passing, t

\* The end of a process whose function returned.
LEMMA RetireReturnedQuiet ==
  ASSUME NEW s, Quiet(s), NEW p \in s.table \ {Shell}, ~Ended(s, p)
  PROVE  Quiet(RetireReturned(s, p)) /\ Passing(s, RetireReturned(s, p))
<1> DEFINE d == dealWithUnwaitedProcess([s EXCEPT !.status[p] = "EXITED"], p)
           u == unblockIfForeground(d, p)
<1>1. /\ Settling(d) /\ Passing(s, d) /\ p \in d.table /\ Ended(d, p)
      /\ d.status = [s.status EXCEPT ![p] = "EXITED"] /\ d.fg = s.fg
  <2>1. Dies(s, d, p, "EXITED") /\ Cause(s, "EXITED")
    BY DEF Dies, Cause
  <2>2. Settling(s)
    BY DEF Quiet
  <2> HIDE DEF d
  <2> QED BY <2>1, <2>2, ProcessDies
<1>2. RetireReturned(s, p) = IF s.ticks[p] > 0 THEN s ELSE u
  BY DEF RetireReturned
<1> HIDE DEF d
<1>3. u = IF d.fg = p THEN TerminalBack(d) ELSE d
  BY <1>1, ForegroundUnblocks
<1>4. CASE d.fg = p
  <2>1. Quiet(TerminalBack(d)) /\ Passing(d, TerminalBack(d))
    BY <1>1, <1>4, TerminalBackQuiet, TerminalBackPasses
  <2>2. KernelInv(s) /\ KernelInv(d)
    BY <1>1 DEF Quiet, Settling
  <2>3. Passing(s, TerminalBack(d))
    BY <1>1, <2>1, <2>2, PassesOn
  <2> QED BY <1>2, <1>3, <1>4, <2>1, <2>3, PassesNot
<1>5. CASE d.fg # p
  <2>1. Awaited(d)
    <3>1. s.fg # Shell => s.fg \in Proc /\ ~Ended(s, s.fg)
      BY TableFacts DEF Quiet, Settling, Awaited
    <3>2. s.status \in [Proc -> Status]
      BY DEF Quiet, Settling, KernelInv, KernelState
    <3> QED BY <1>1, <1>5, <3>1, <3>2 DEF Awaited, Ended
  <2> QED BY <1>1, <1>2, <1>3, <1>5, <2>1, PassesNot DEF Quiet
<1> QED BY <1>4, <1>5

\* The end of a sleeper.
LEMMA RetireSleeperQuiet ==
  ASSUME NEW s, Quiet(s), NEW n \in s.asleep, s.status[n.of] # "EXITED",
         NEW t, t = RetireSleeper(s, n)
  PROVE  /\ Quiet(t) /\ Passing(s, t) /\ t.table = s.table /\ t.ticks = s.ticks
         /\ \A p \in Proc : p \notin {n.of, Shell} => t.status[p] = s.status[p]
<1>a. PICK p : p = n.of
  OBVIOUS
<1> DEFINE d == dealWithUnwaitedProcess([s EXCEPT !.status[p] = "EXITED"], p)
           w == [d EXCEPT !.asleep = @ \ {n}]
<1>0. Settling(s) /\ KernelInv(s) /\ s.status \in [Proc -> Status]
  BY DEF Quiet, Settling, KernelInv, KernelState
<1>1. p \in s.table \ {Shell} /\ s.status[p] = "BLOCKED" /\ p \in Proc
  BY <1>0, <1>a, TableFacts DEF Settling, Sleepers, KernelInv
<1>2. ~Ended(s, p) /\ s.ppid[p] = 1 /\ s.children[p] = {}
  BY <1>0, <1>1 DEF Ended, Settling, Sleepers
<1>3. /\ Settling(d) /\ Passing(s, d) /\ p \in d.table /\ Ended(d, p) /\ d.table = s.table
      /\ d.status = [s.status EXCEPT ![p] = "EXITED"] /\ d.fg = s.fg /\ d.ticks = s.ticks
  <2>1. Dies(s, d, p, "EXITED") /\ Cause(s, "EXITED")
    BY DEF Dies, Cause
  <2> HIDE DEF d, w
  <2>2. p \in s.table \ {Shell} /\ Settling(s) /\ ~Ended(s, p)
    BY <1>0, <1>1, <1>2
  <2>3. /\ Settling(d) /\ Passing(s, d) /\ p \in d.table /\ Ended(d, p)
        /\ d.table = s.table \ s.children[p]
        /\ d.status = [s.status EXCEPT ![p] = "EXITED"] /\ d.fg = s.fg /\ d.ticks = s.ticks
    BY ONLY <2>1, <2>2, ProcessDies
  <2>4. s.table \ s.children[p] = s.table
    BY <1>2
  <2> QED BY <2>3, <2>4
<1>4. t = IF s.fg = p THEN unblockParent(w, 1) ELSE w
  <2> DEFINE s1 == [s EXCEPT !.status[p] = "EXITED"]
  <2>1. "EXITED" \in Status
    BY DEF Status
  <2>2. KernelInv(s1) /\ s1.ppid[p] = 1
    <3>1. KernelInv(s1)
      BY <1>0, <1>1, <2>1, StatusInv
    <3> QED BY <1>0, <1>2, <3>1 DEF KernelInv, KernelState
  <2> HIDE DEF s1
  <2>3. Search(s1, 1) = Shell /\ Shell # None /\ s.pid[Shell] = 1
    <3>1. Shell \in s1.table /\ s1.pid[Shell] = 1 /\ Shell # None
      BY <2>2, TableFacts DEF KernelInv
    <3>2. s.pid[Shell] = 1
      BY <1>0, TableFacts DEF KernelInv
    <3> QED BY <2>2, <3>1, <3>2, SearchFinds
  <2>4. s.pid[p] = s.pid[s.fg] <=> s.fg = p
    <3>1. s.fg \in s.table
      BY <1>0 DEF Settling, OnTop, KernelInv
    <3> QED BY <1>0, <1>1, <3>1, SamePid
  <2>5. s.status[p] # "SIGNALED"
    BY <1>1
  <2> QED BY <2>2, <2>3, <2>4, <2>5, <1>a DEF RetireSleeper, s1
<1> HIDE DEF d
<1>5. d \in KernelState /\ KernelInv(d)
  BY <1>3 DEF Settling, KernelInv
<1>6. Settling(w)
  <2>1. KernelInv(w)
    BY <1>5, LeaveAsleepCalm
  <2>2. /\ w.table = d.table /\ w.queued = d.queued /\ w.children = d.children
        /\ w.zombies = d.zombies /\ w.ppid = d.ppid /\ w.pid = d.pid
        /\ w.status = d.status /\ w.fg = d.fg /\ w.asleep = d.asleep \ {n}
    BY <1>5 DEF KernelState
  <2> HIDE DEF w
  <2>3. Families(w) /\ Lives(w) /\ OnTop(w)
    BY <1>3, <2>2 DEF Settling, Families, Lives, OnTop, Ended
  <2>4. Sleepers(w)
    <3>1. d.status[p] # "BLOCKED"
      BY <1>3 DEF Ended
    <3> QED BY <1>3, <2>2, <3>1, <1>a DEF Settling, Sleepers
  <2> QED BY <2>1, <2>3, <2>4 DEF Settling
<1>7. w.fg = s.fg /\ w.status = d.status /\ w.table = s.table /\ w.ticks = s.ticks
  BY <1>3, <1>5 DEF KernelState
<1>8. Passing(s, w)
  <2>1. /\ w.made = d.made /\ w.pid = d.pid /\ w.ppid = d.ppid /\ w.power = d.power
        /\ w.table = d.table /\ w.children = d.children /\ w.status = d.status /\ w.fg = d.fg
    BY <1>5 DEF KernelState
  <2> HIDE DEF w
  <2> QED BY <1>3, <2>1 DEF Passing, Ended
<1> HIDE DEF w
<1>9. \A r \in Proc : r # p => w.status[r] = s.status[r]
  BY <1>0, <1>3, <1>7
<1>10. CASE s.fg = p
  <2>1. t = TerminalBack(w)
    BY <1>1, <1>4, <1>6, <1>7, <1>10, ShellUnblocked DEF Settling
  <2>2. Ended(w, w.fg)
    BY <1>3, <1>7, <1>10 DEF Ended
  <2>3. Quiet(t) /\ Passing(w, t) /\ t.status = [w.status EXCEPT ![Shell] = "READY"]
    <3>1. Quiet(t) /\ t.status = [w.status EXCEPT ![Shell] = "READY"]
      BY <1>6, <2>1, TerminalBackQuiet
    <3>2. Passing(w, t)
      BY <1>1, <1>6, <1>7, <1>10, <2>1, <2>2, TerminalBackPasses
    <3> QED BY <3>1, <3>2
  <2>4. Passing(s, t)
    BY <1>0, <1>6, <1>8, <2>3, PassesOn DEF Settling
  <2>5. t.table = w.table /\ t.ticks = w.ticks
    BY <1>6, <2>1 DEF TerminalBack, Settling, KernelInv, KernelState
  <2>6. \A r \in Proc : r # Shell => t.status[r] = w.status[r]
    BY <1>6, <2>3 DEF Settling, KernelInv, KernelState
  <2> QED BY <1>7, <1>9, <2>3, <2>4, <2>5, <2>6, <1>a
<1>11. CASE s.fg # p
  <2>1. Awaited(w)
    <3>1. s.fg # Shell => s.fg \in Proc /\ ~Ended(s, s.fg)
      BY TableFacts DEF Quiet, Settling, Awaited
    <3> QED BY <1>7, <1>9, <1>11, <3>1 DEF Awaited, Ended
  <2> QED BY <1>4, <1>6, <1>7, <1>8, <1>9, <1>11, <2>1, <1>a DEF Quiet
<1> QED BY <1>10, <1>11

-----------------------------------------------------------------------------
\* Calls that leave all but ticks, prevStatus, priorities and power as it is.
SameLives(s, t) ==
  /\ t.made = s.made /\ t.table = s.table /\ t.pid = s.pid /\ t.ppid = s.ppid
  /\ t.status = s.status /\ t.children = s.children /\ t.zombies = s.zombies
  /\ t.queued = s.queued /\ t.asleep = s.asleep /\ t.fg = s.fg

\* What has the same lives is quiet with it.
LEMMA SameLivesQuiet ==
  ASSUME NEW s, NEW t, SameLives(s, t), KernelInv(t)
  PROVE  /\ Quiet(s) => Quiet(t)
         /\ t.power = s.power => Passing(s, t)
<1>1. \A p : Ended(t, p) <=> Ended(s, p)
  BY DEF SameLives, Ended
<1>2. Quiet(s) => Families(t) /\ Lives(t) /\ OnTop(t) /\ Awaited(t)
  BY <1>1 DEF SameLives, Quiet, Settling, Families, Lives, OnTop, Awaited
<1>3. Quiet(s) => Sleepers(t)
  BY <1>1 DEF SameLives, Quiet, Settling, Sleepers
<1>4. t.power = s.power => Passing(s, t)
  BY <1>1 DEF SameLives, Passing
<1> QED BY <1>2, <1>3, <1>4 DEF Quiet, Settling

\* The sleepers count down, and nothing else changes.
LEMMA CountDownSame ==
  ASSUME NEW s, KernelInv(s)
  PROVE  SameLives(s, CountDown(s)) /\ CountDown(s).power = s.power
<1> DEFINE first(n) == \A m \in Finished(s) : n.at < m.at
           awake == {n.of : n \in {n \in s.asleep : first(n)}}
           ticks == [p \in Proc |->
                       IF p \in awake /\ s.ticks[p] > 0 /\ s.status[p] # "STOPPED"
                         THEN s.ticks[p] - 1 ELSE s.ticks[p]]
<1>1. CountDown(s) = [s EXCEPT !.ticks = ticks]
  BY DEF CountDown
<1> HIDE DEF ticks
<1>2. /\ SameLives(s, [s EXCEPT !.ticks = ticks])
      /\ [s EXCEPT !.ticks = ticks].power = s.power
  BY DEF SameLives, KernelInv, KernelState
<1> QED BY <1>1, <1>2

\* decrementTicks ends at most one process, a sleeper with no ticks left.
LEMMA decrementTicksQuiet ==
  ASSUME NEW s, Quiet(s), NEW t, t = decrementTicks(s)
  PROVE  /\ Quiet(t) /\ Passing(s, t) /\ t.table = s.table
         /\ \A p \in Proc \ {Shell} :
               s.status[p] = "READY" \/ s.ticks[p] # 0 => t.status[p] = s.status[p]
<1> DEFINE c == CountDown(s)
           first == CHOOSE n \in Finished(s) : \A m \in Finished(s) : n.at <= m.at
<1>0. KernelInv(s)
  BY DEF Quiet, Settling
<1>1. KernelInv(c) /\ SameLives(s, c) /\ c.power = s.power
  BY <1>0, CountDownInv, CountDownSame
<1>2. Finished(s) # {} => first \in Finished(s)
  <2> SUFFICES ASSUME Finished(s) # {} PROVE first \in Finished(s)
    OBVIOUS
  <2> DEFINE T == {n.at : n \in Finished(s)}
  <2>1. T \subseteq Nat /\ T # {}
    BY <1>0 DEF Finished, KernelInv, KernelState, Node
  <2>2. PICK x \in T : \A y \in T : x <= y
    <3> HIDE DEF T
    <3> QED BY <2>1, LeastNat
  <2>3. \E n \in Finished(s) : \A m \in Finished(s) : n.at <= m.at
    BY <2>2
  <2> QED BY <2>3
<1>3. t = IF Finished(s) = {} THEN c ELSE RetireSleeper(c, first)
  BY DEF decrementTicks
<1> HIDE DEF c, first
<1>4. Quiet(c) /\ Passing(s, c)
  BY <1>1, SameLivesQuiet
<1>5. CASE Finished(s) = {}
  BY <1>1, <1>3, <1>4, <1>5 DEF SameLives
<1>6. CASE Finished(s) # {}
  <2>1. PICK n : n = first
    OBVIOUS
  <2>2. n \in s.asleep /\ s.ticks[n.of] = 0 /\ s.status[n.of] # "EXITED"
    BY <1>2, <1>6, <2>1 DEF Finished
  <2>3. n \in c.asleep /\ c.status[n.of] # "EXITED" /\ t = RetireSleeper(c, n)
    BY <1>1, <1>3, <1>6, <2>1, <2>2 DEF SameLives
  <2>4. /\ Quiet(t) /\ Passing(c, t) /\ t.table = c.table
        /\ \A p \in Proc : p \notin {n.of, Shell} => t.status[p] = c.status[p]
    BY ONLY <1>4, <2>3, RetireSleeperQuiet
  <2>5. Passing(s, t)
    BY <1>0, <1>1, <1>4, <2>4, PassesOn
  <2>6. s.status[n.of] # "READY"
    BY <2>2 DEF Quiet, Settling, Sleepers
  <2> QED BY <1>1, <2>2, <2>4, <2>5, <2>6 DEF SameLives
<1> QED BY <1>5, <1>6

-----------------------------------------------------------------------------
\* Process n is out of the table, the ready queues and the lists of the others,
\* and all else of s is in t.
Buried(s, t, n) ==
  /\ t.table = s.table \ {n} /\ t.queued = s.queued \ {n}
  /\ \A p \in t.table : /\ t.children[p] = s.children[p] \ {n}
                        /\ t.zombies[p] = {z \in s.zombies[p] : z.of # n}
  /\ t.made = s.made /\ t.pid = s.pid /\ t.ppid = s.ppid
  /\ t.status = s.status /\ t.asleep = s.asleep /\ t.fg = s.fg /\ t.power = s.power

\* The dead can be buried.
LEMMA BuriedQuiet ==
  ASSUME NEW s, Quiet(s), NEW n \in s.table \ {Shell}, Ended(s, n),
         NEW t, KernelInv(t), Buried(s, t, n)
  PROVE  Quiet(t)
<1>0. /\ KernelInv(s) /\ Families(s) /\ Lives(s) /\ Sleepers(s) /\ OnTop(s) /\ Awaited(s)
      /\ Shell \in s.table /\ s.table \subseteq Proc /\ n \in Proc
  BY TableFacts DEF Quiet, Settling, KernelInv
<1>1. \A p : Ended(t, p) <=> Ended(s, p)
  BY DEF Buried, Ended
<1>2. s.children[n] = {} /\ s.zombies[n] = {}
  BY <1>0 DEF Families
<1>3. s.fg # n
  BY <1>0 DEF Awaited
<1>4. Families(t)
  <2>1. \A p \in t.table \ {Shell} : \E q \in t.table : p \in t.children[q]
    <3> TAKE p \in t.table \ {Shell}
    <3>1. PICK q \in s.table : p \in s.children[q]
      BY <1>0 DEF Families, Buried
    <3>2. q # n
      BY <1>2, <3>1
    <3> QED BY <3>1, <3>2 DEF Buried
  <2>2. \A p \in t.table : \A z \in t.zombies[p] :
          /\ z.of \in t.children[p] /\ Ended(t, z.of)
          /\ \A y \in t.zombies[p] : y.of = z.of => y = z
    BY <1>0, <1>1 DEF Families, Buried
  <2>3. ASSUME NEW p \in t.table, Ended(t, p)
        PROVE  t.children[p] = {} /\ \E q \in t.table : \E z \in t.zombies[q] : z.of = p
    <3>1. p \in s.table /\ p # n /\ Ended(s, p)
      BY <1>1, <2>3 DEF Buried
    <3>2. s.children[p] = {}
      BY <1>0, <3>1 DEF Families
    <3>3. PICK q \in s.table : \E z \in s.zombies[q] : z.of = p
      BY <1>0, <3>1 DEF Families
    <3>4. q # n
      BY <1>2, <3>3
    <3> QED BY <3>1, <3>2, <3>3, <3>4 DEF Buried
  <2>4. \A p \in t.table : t.children[p] # {} => t.ppid[p] = 1
    BY <1>0 DEF Families, Buried
  <2>5. t.ppid[Shell] = 1
    BY <1>0 DEF Families, Buried
  <2> QED BY <2>1, <2>2, <2>3, <2>4, <2>5 DEF Families
<1>5. Lives(t)
  BY <1>0, <1>1 DEF Lives, Buried
<1>6. Sleepers(t)
  <2>1. s.status[n] # "BLOCKED"
    BY DEF Ended
  <2>2. \A m \in t.asleep : \/ t.status[m.of] = "EXITED"
                            \/ m.of \in t.table /\ t.status[m.of] = "BLOCKED"
    BY <1>0, <2>1 DEF Sleepers, Buried
  <2>3. ASSUME NEW p \in t.table \ {Shell}, t.status[p] = "BLOCKED"
        PROVE  /\ t.ppid[p] = 1 /\ t.children[p] = {}
               /\ \E m \in t.asleep : m.of = p
    BY <1>0, <2>3 DEF Sleepers, Buried
  <2>4. SleepTicks = {} => t.asleep = {}
    BY <1>0 DEF Sleepers, Buried
  <2> QED BY <2>2, <2>3, <2>4 DEF Sleepers
<1>7. OnTop(t) /\ Awaited(t)
  BY <1>0, <1>1, <1>3 DEF OnTop, Awaited, Buried
<1> QED BY <1>4, <1>5, <1>6, <1>7 DEF Quiet, Settling

\* A zombies list has each child once.
OneEntry(s) ==
  \A p \in s.table : \A z \in s.zombies[p] :
     /\ z.of \in s.children[p]
     /\ \A y \in s.zombies[p] : y.of = z.of => y = z

\* k_process_cleanup.
LEMMA CleanupBuries ==
  ASSUME NEW s, KernelInv(s), OneEntry(s), NEW n \in s.table \ {Shell},
         NEW t, t = k_process_cleanup(s, n)
  PROVE  /\ KernelInv(t) /\ Buried(s, t, n)
         /\ t.children[n] \subseteq s.children[n] /\ t.zombies[n] \subseteq s.zombies[n]
<1>1. Search(s, s.pid[n]) = n /\ n # None /\ n \in Proc
  BY SearchFinds, TableFacts
<1>2. PICK D \in SUBSET s.table : D = {n}
  OBVIOUS
<1>3. t = Reap(s, D)
  BY <1>1, <1>2 DEF k_process_cleanup
<1>4. /\ t.table = s.table \ D /\ t.queued = s.queued \ D
      /\ \A p \in s.table \ D :
            /\ t.children[p] = s.children[p] \ D
            /\ t.zombies[p] = {z \in s.zombies[p] : z.of \notin D}
      /\ \A p \in Proc : /\ t.children[p] \subseteq s.children[p]
                         /\ t.zombies[p] \subseteq s.zombies[p]
      /\ t.made = s.made /\ t.pid = s.pid /\ t.ppid = s.ppid
      /\ t.status = s.status /\ t.asleep = s.asleep /\ t.ticks = s.ticks
      /\ t.fg = s.fg /\ t.power = s.power
  <2>1. \A p \in s.table : \A z \in s.zombies[p] :
            /\ z.of \in s.children[p]
            /\ \A y \in s.zombies[p] : y.of = z.of => y = z
    BY DEF OneEntry
  <2> QED BY ONLY KernelInv(s), <1>3, <2>1, ReapExact
<1>5. KernelInv(t)
  BY <1>1, k_process_cleanupInv
<1>6. Buried(s, t, n)
  BY <1>2, <1>4 DEF Buried
<1> QED BY <1>1, <1>4, <1>5, <1>6

\* What the shell gets from a wait: nothing but prevStatus changes, or a dead
\* process is reaped and reported.  Nobody is stopped.
WaitOutcome(s, r) ==
  /\ Quiet(r.k) /\ r.status \in Status \ {"STOPPED"}
  /\ \/ SameLives(s, r.k) /\ r.k.power = s.power
     \/ \E n \in s.table \ {Shell} :
           /\ Ended(s, n) /\ Buried(s, r.k, n)
           /\ r.pid = s.pid[n] /\ r.pid # 0 /\ r.status = s.status[n]

\* A wait that finds nothing.
LEMMA NothingOutcome == ASSUME NEW s, Quiet(s) PROVE WaitOutcome(s, Nothing(s))
<1>1. SameLives(s, s) /\ "READY" \in Status \ {"STOPPED"}
  BY DEF SameLives, Status
<1> QED BY <1>1 DEF WaitOutcome, Nothing, Result

\* A wait that reports a change.
LEMMA ReportOutcome ==
  ASSUME NEW s, Quiet(s), s.fg = Shell, NEW p \in Proc \ {Shell}
  PROVE  WaitOutcome(s, Report(s, p))
<1> DEFINE t == [s EXCEPT !.prev[p] = s.status[p]]
<1>0. KernelInv(s) /\ Lives(s)
  BY DEF Quiet, Settling
<1>1. SameLives(s, t) /\ t.power = s.power
  BY <1>0 DEF SameLives, KernelInv, KernelState
<1>2. KernelInv(t)
  BY <1>0, PrevInv
<1> HIDE DEF t
<1>3. Quiet(t)
  BY <1>1, <1>2, SameLivesQuiet
<1>4. unblockIfForeground(t, p) = t
  <2>1. t.fg = Shell /\ t.pid[p] # 1 /\ t.pid[Shell] = 1
    BY <1>1, <1>2, TableFacts DEF SameLives, KernelInv
  <2> QED BY <2>1 DEF unblockIfForeground
<1>5. s.status[p] \in Status \ {"STOPPED"}
  BY <1>0 DEF Lives, KernelInv, KernelState
<1> QED BY <1>1, <1>3, <1>4, <1>5 DEF WaitOutcome, Report, Result, t

\* What is known of a child of the shell, or of a child of one.
LEMMA ChildFacts ==
  ASSUME NEW s, KernelInv(s), Families(s), NEW p \in s.table
  PROVE  /\ \A c \in s.children[p] : c \in s.table \ {Shell} /\ c \in Proc
         /\ \A z \in s.zombies[p] : /\ z.of \in s.table \ {Shell} /\ Ended(s, z.of)
                                    /\ Search(s, s.pid[z.of]) = z.of
                                    /\ s.pid[z.of] \in Nat \ {0}
<1>1. s.table \subseteq Proc /\ Shell \in s.table /\ s.pid[Shell] = 1
  BY TableFacts DEF KernelInv
<1>2. ASSUME NEW c \in s.children[p] PROVE c \in s.table \ {Shell} /\ c \in Proc
  BY <1>1 DEF KernelInv
<1>3. ASSUME NEW z \in s.zombies[p]
      PROVE  /\ z.of \in s.table \ {Shell} /\ Ended(s, z.of)
             /\ Search(s, s.pid[z.of]) = z.of
             /\ s.pid[z.of] \in Nat \ {0}
  <2>1. z.of \in s.table \ {Shell} /\ Ended(s, z.of) /\ z.of \in Proc
    BY <1>2 DEF Families
  <2>2. Shell < z.of
    BY <1>1, <2>1, MaxProcAssumption DEF Proc, Shell
  <2>3. s.pid[Shell] < s.pid[z.of] /\ s.pid[z.of] \in Nat
    BY <1>1, <2>1, <2>2, TableFacts DEF KernelInv
  <2> QED BY <1>1, <2>1, <2>3, SearchFinds
<1> QED BY <1>2, <1>3

\* A wait that reaps a zombie, after a change that matters to nobody.
LEMMA CleanupOutcome ==
  ASSUME NEW s, Quiet(s), NEW u, KernelInv(u), SameLives(s, u), u.power = s.power,
         NEW n \in s.table \ {Shell}, Ended(s, n), s.pid[n] # 0
  PROVE  WaitOutcome(s, Result(k_process_cleanup(u, n), s.pid[n], s.status[n]))
<1>1. PICK t : t = k_process_cleanup(u, n)
  OBVIOUS
<1>2. Quiet(u) /\ n \in u.table \ {Shell} /\ Ended(u, n)
  BY SameLivesQuiet DEF SameLives, Ended
<1>3. OneEntry(u)
  BY <1>2 DEF OneEntry, Quiet, Settling, Families
<1>4. KernelInv(t) /\ Buried(u, t, n)
  BY <1>1, <1>2, <1>3, CleanupBuries
<1>5. Quiet(t)
  BY <1>2, <1>4, BuriedQuiet
<1>6. Buried(s, t, n)
  BY <1>4 DEF Buried, SameLives
<1>7. s.status[n] \in Status \ {"STOPPED"}
  BY DEF Ended, Status
<1>8. WaitOutcome(s, Result(t, s.pid[n], s.status[n]))
  BY <1>5, <1>6, <1>7 DEF WaitOutcome, Result
<1> QED BY <1>1, <1>8

\* traverseChild of a child of the shell.
LEMMA traverseChildOutcome ==
  ASSUME NEW s, Quiet(s), s.fg = Shell, NEW p \in s.table, HasNews(s, p), ~Changed(s, p)
  PROVE  WaitOutcome(s, traverseChild(s, p))
<1>0. KernelInv(s) /\ Families(s) /\ p \in Proc
  BY TableFacts DEF Quiet, Settling
<1>1. CASE s.zombies[p] = {}
  <2> DEFINE S == {c \in s.children[p] : Changed(s, c)}
  <2>1. S \in SUBSET (Proc \ {Shell}) /\ S # {}
    BY <1>0, <1>1, ChildFacts DEF HasNews
  <2> HIDE DEF S
  <2>2. Newest(S) \in Proc \ {Shell}
    BY <2>1, NewestMember
  <2>3. WaitOutcome(s, Report(s, Newest(S)))
    BY <2>2, ReportOutcome
  <2> QED BY <1>1, <2>3 DEF traverseChild, S
<1>2. CASE s.zombies[p] # {}
  <2> DEFINE z == Head(s.zombies[p])
  <2>1. z \in s.zombies[p]
    BY <1>0, <1>2, HeadMember
  <2> HIDE DEF z
  <2>2. PICK n : n = z.of
    OBVIOUS
  <2>3. n \in s.table \ {Shell} /\ Ended(s, n) /\ Search(s, s.pid[n]) = n /\ s.pid[n] # 0
    BY <1>0, <2>1, <2>2, ChildFacts
  <2>4. n # None /\ n \in Proc
    BY <1>0, <2>3, TableFacts
  <2> DEFINE u == [s EXCEPT !.prev[n] = s.status[n]]
  <2>5. SameLives(s, u) /\ u.power = s.power
    BY <1>0 DEF SameLives, KernelInv, KernelState
  <2>6. KernelInv(u)
    BY <1>0, <2>4, PrevInv
  <2> HIDE DEF u
  <2>7. WaitOutcome(s, Result(k_process_cleanup(u, n), s.pid[n], s.status[n]))
    BY <2>3, <2>5, <2>6, CleanupOutcome
  <2>8. traverseChild(s, p) = Result(k_process_cleanup(u, n), s.pid[n], s.status[n])
    BY <1>2, <2>2, <2>3, <2>4 DEF traverseChild, z, u
  <2> QED BY <2>7, <2>8
<1> QED BY <1>1, <1>2

\* The first branch of p_waitpid(-1).
LEMMA ReapNewestOutcome ==
  ASSUME NEW s, Quiet(s), s.fg = Shell, s.zombies[Shell] # {}
  PROVE  WaitOutcome(s, ReapNewest(s, Shell))
<1> DEFINE z == Head(s.zombies[Shell])
           u == [s EXCEPT !.zombies[Shell] = @ \ {z}]
<1>0. /\ KernelInv(s) /\ Families(s) /\ s \in KernelState
      /\ Shell \in Proc /\ Shell \in s.table /\ s.table \subseteq Proc
  BY TableFacts DEF Quiet, Settling, KernelInv
<1>1. z \in s.zombies[Shell]
  BY <1>0, HeadMember
<1> HIDE DEF z
<1>2. PICK n : n = z.of
  OBVIOUS
<1>3. /\ n \in s.table \ {Shell} /\ Ended(s, n) /\ s.pid[n] # 0
      /\ n # None /\ n \in Proc
  BY <1>0, <1>1, <1>2, ChildFacts, TableFacts
<1>4. KernelInv(u) /\ u.table = s.table /\ u.pid = s.pid
  BY <1>0 DEF KernelInv, KernelState
<1>5. /\ u.zombies = [s.zombies EXCEPT ![Shell] = @ \ {z}]
      /\ u.children = s.children /\ u.queued = s.queued
      /\ u.made = s.made /\ u.ppid = s.ppid /\ u.fg = s.fg
      /\ u.status = s.status /\ u.asleep = s.asleep /\ u.power = s.power
  BY <1>0 DEF KernelState
<1> HIDE DEF u
<1>6. \A p \in Proc : u.zombies[p] = IF p = Shell THEN s.zombies[p] \ {z} ELSE s.zombies[p]
  BY <1>0, <1>5 DEF KernelState
<1>7. OneEntry(u)
  BY <1>0, <1>4, <1>5, <1>6 DEF OneEntry, Families
<1>8. Search(u, s.pid[n]) = n
  BY <1>3, <1>4, SearchFinds
<1>9. PICK t : t = k_process_cleanup(u, n)
  OBVIOUS
<1>10. KernelInv(t) /\ Buried(u, t, n)
  BY <1>3, <1>4, <1>7, <1>9, CleanupBuries
<1>11. Buried(s, t, n)
  <2>1. ASSUME NEW p \in t.table
        PROVE  t.zombies[p] = {y \in s.zombies[p] : y.of # n}
    <3>1. p \in Proc /\ t.zombies[p] = {y \in u.zombies[p] : y.of # n}
      BY <1>0, <1>4, <1>10 DEF Buried
    <3> QED BY <1>2, <1>6, <3>1
  <2> QED BY <1>4, <1>5, <1>10, <2>1 DEF Buried
<1>12. Quiet(t)
  BY <1>3, <1>10, <1>11, BuriedQuiet
<1>13. unblockIfForeground(t, n) = t
  <2>1. t.fg = Shell /\ t.pid[n] # 1 /\ t.pid[Shell] = 1
    BY <1>0, <1>3, <1>10, <1>11, TableFacts DEF Buried, KernelInv
  <2> QED BY <2>1 DEF unblockIfForeground
<1>14. ReapNewest(s, Shell) = Result(t, s.pid[n], s.status[n])
  BY <1>2, <1>3, <1>8, <1>9, <1>13 DEF ReapNewest, z, u
<1>15. s.status[n] \in Status \ {"STOPPED"}
  BY <1>3 DEF Ended, Status
<1>16. WaitOutcome(s, Result(t, s.pid[n], s.status[n]))
  BY <1>3, <1>11, <1>12, <1>15 DEF WaitOutcome, Result
<1> QED BY <1>14, <1>16

\* p_waitpid(-1) of the shell.
LEMMA p_waitpid_anyOutcome ==
  ASSUME NEW s, Quiet(s), s.fg = Shell
  PROVE  WaitOutcome(s, p_waitpid_any(s, Shell))
<1> DEFINE news == {c \in s.children[Shell] : HasNews(s, c)}
<1>0. KernelInv(s) /\ Families(s) /\ Shell \in s.table
  BY DEF Quiet, Settling, KernelInv
<1>1. CASE s.zombies[Shell] # {}
  BY <1>1, ReapNewestOutcome DEF p_waitpid_any
<1>2. CASE s.zombies[Shell] = {} /\ news = {}
  BY <1>2, NothingOutcome DEF p_waitpid_any
<1>3. CASE s.zombies[Shell] = {} /\ news # {}
  <2>1. news \in SUBSET Proc
    BY <1>0, ChildFacts
  <2>2. PICK c : c = Newest(news)
    OBVIOUS
  <2>3. c \in news
    <3> HIDE DEF news
    <3> QED BY <1>3, <2>1, <2>2, NewestMember
  <2>4. c \in s.table /\ c \in Proc \ {Shell} /\ HasNews(s, c)
    BY <1>0, <2>3, ChildFacts
  <2>5. p_waitpid_any(s, Shell) = IF Changed(s, c) THEN Report(s, c) ELSE traverseChild(s, c)
    BY <1>3, <2>2 DEF p_waitpid_any
  <2> HIDE DEF news
  <2>6. CASE Changed(s, c)
    BY <2>4, <2>5, <2>6, ReportOutcome
  <2>7. CASE ~Changed(s, c)
    BY <2>4, <2>5, <2>7, traverseChildOutcome
  <2> QED BY <2>6, <2>7
<1> QED BY <1>1, <1>2, <1>3

\* A zombie that a wait for its pid reaps; nobody goes with it.
LEMMA ReapZombieOutcome ==
  ASSUME NEW s, Quiet(s), NEW n \in s.table \ {Shell}, Ended(s, n), s.pid[n] # 0
  PROVE  WaitOutcome(s, ReapZombie(s, n))
<1>0. KernelInv(s) /\ Families(s) /\ n \in Proc
  BY TableFacts DEF Quiet, Settling
<1>1. OneEntry(s) /\ s.children[n] = {} /\ s.zombies[n] = {}
  BY <1>0 DEF OneEntry, Families
<1>2. PICK t : t = k_process_cleanup(s, n)
  OBVIOUS
<1>3. KernelInv(t) /\ Buried(s, t, n) /\ t.children[n] = {} /\ t.zombies[n] = {}
  BY <1>0, <1>1, <1>2, CleanupBuries
<1>4. Quiet(t)
  BY <1>3, BuriedQuiet
<1>5. Doomed(t, n) = {}
  BY <1>0, <1>3, DoomedAreChildren
<1>6. PICK D \in SUBSET t.table : D = {}
  OBVIOUS
<1>7. PICK u : u = Reap(t, D)
  OBVIOUS
<1>8. OneEntry(t)
  BY <1>4 DEF OneEntry, Quiet, Settling, Families
<1>9. /\ u.table = t.table \ D /\ u.queued = t.queued \ D
      /\ \A p \in t.table \ D :
            /\ u.children[p] = t.children[p] \ D
            /\ u.zombies[p] = {z \in t.zombies[p] : z.of \notin D}
      /\ u.made = t.made /\ u.pid = t.pid /\ u.ppid = t.ppid
      /\ u.status = t.status /\ u.asleep = t.asleep
      /\ u.fg = t.fg /\ u.power = t.power
  <2>1. \A p \in t.table : \A z \in t.zombies[p] :
            /\ z.of \in t.children[p]
            /\ \A y \in t.zombies[p] : y.of = z.of => y = z
    BY <1>8 DEF OneEntry
  <2>2. KernelInv(t)
    BY <1>3
  <2> QED BY ONLY <1>7, <2>1, <2>2, ReapExact
<1>10. Buried(s, u, n)
  BY <1>3, <1>6, <1>9 DEF Buried
<1>11. KernelInv(u)
  BY <1>3, <1>6, <1>7, ReapInv
<1>12. Quiet(u)
  BY <1>10, <1>11, BuriedQuiet
<1>13. ReapZombie(s, n) = Result(u, s.pid[n], s.status[n])
  BY <1>2, <1>5, <1>6, <1>7 DEF ReapZombie, clearZombiesAndChildren
<1>14. s.status[n] \in Status \ {"STOPPED"}
  BY DEF Ended, Status
<1>15. WaitOutcome(s, Result(u, s.pid[n], s.status[n]))
  BY <1>10, <1>12, <1>14 DEF WaitOutcome, Result
<1> QED BY <1>13, <1>15

\* A process that the shell has in its zombies list by pid is one of its dead.
LEMMA ZombieFacts ==
  ASSUME NEW s, KernelInv(s), Families(s), NEW n \in s.table
  PROVE  IsZombieOf(s, Shell, s.pid[n]) => n # Shell /\ Ended(s, n) /\ s.pid[n] # 0
<1> SUFFICES ASSUME NEW z \in s.zombies[Shell], s.pid[z.of] = s.pid[n]
             PROVE  n # Shell /\ Ended(s, n) /\ s.pid[n] # 0
  BY DEF IsZombieOf
<1>1. Shell \in s.table
  BY DEF KernelInv
<1>2. z.of \in s.table \ {Shell} /\ Ended(s, z.of) /\ s.pid[z.of] # 0
  BY <1>1, ChildFacts
<1> QED BY <1>2, SamePid

\* p_waitpid(x, TRUE) of the shell.
LEMMA p_waitpid_nohangOutcome ==
  ASSUME NEW s, Quiet(s), s.fg = Shell, NEW x, x # 1
  PROVE  /\ WaitOutcome(s, p_waitpid_nohang(s, Shell, x))
         /\ Search(s, x) = None => p_waitpid_nohang(s, Shell, x) = Nothing(s)
<1>0. KernelInv(s) /\ Families(s)
  BY DEF Quiet, Settling
<1>1. PICK n : n = Search(s, x)
  OBVIOUS
<1>2. CASE n = None
  BY <1>1, <1>2, NothingOutcome DEF p_waitpid_nohang
<1>3. CASE n # None
  <2>1. n \in s.table /\ n \in Proc /\ s.pid[n] = x /\ n # Shell
    BY <1>0, <1>1, <1>3, SearchResult, SearchNotShell, TableFacts
  <2>2. p_waitpid_nohang(s, Shell, x) =
          IF IsZombieOf(s, Shell, x) THEN ReapZombie(s, n)
          ELSE IF Changed(s, n) THEN Report(s, n) ELSE Nothing(s)
    BY <1>1, <1>3 DEF p_waitpid_nohang
  <2>3. IsZombieOf(s, Shell, x) => WaitOutcome(s, ReapZombie(s, n))
    BY <1>0, <2>1, ZombieFacts, ReapZombieOutcome
  <2>4. WaitOutcome(s, Report(s, n)) /\ WaitOutcome(s, Nothing(s))
    BY <2>1, ReportOutcome, NothingOutcome
  <2> QED BY <1>1, <1>3, <2>2, <2>3, <2>4
<1> QED BY <1>2, <1>3

-----------------------------------------------------------------------------
\* The shell, or a child of it that runs, creates a process.
LEMMA k_process_createQuiet ==
  ASSUME NEW s, Quiet(s), SleepersSound(s), s.made < MaxProc,
         NEW parent \in s.table, s.ppid[parent] = 1, s.status[parent] = "READY",
         NEW program \in Program,
         NEW t, t = k_process_create(s, parent, program, NextPid(s)),
         NEW new, new = s.made + 1
  PROVE  /\ Quiet(t) /\ new \in Proc \ s.table /\ new # Shell
         /\ t.table = s.table \cup {new} /\ t.fg = s.fg /\ t.power = s.power
         /\ t.ppid[new] = s.pid[parent] /\ t.children[new] = {}
         /\ \A p \in Proc \ {new} : /\ t.status[p] = s.status[p] /\ t.ppid[p] = s.ppid[p]
                                    /\ t.pid[p] = s.pid[p]
                                    /\ p # parent => t.children[p] = s.children[p]
<1>0. /\ KernelInv(s) /\ s \in KernelState
      /\ Families(s) /\ Lives(s) /\ Sleepers(s) /\ OnTop(s) /\ Awaited(s)
      /\ Shell \in s.table /\ s.table \subseteq Proc /\ Shell \in Proc
  BY TableFacts DEF Quiet, Settling, KernelInv
<1>1. NextPid(s) \in Nat \ {0, 1} /\ \A q \in s.table : s.pid[q] < NextPid(s)
  BY <1>0, NextPidGreatest
<1>2. new \in Proc /\ new \notin s.table /\ new # Shell
  <2>1. s.made \in 0..MaxProc /\ s.table \subseteq 1..s.made /\ Shell \in s.table
    BY <1>0 DEF KernelInv, KernelState
  <2> QED BY <2>1, MaxProcAssumption DEF Proc, Shell
<1>3. KernelInv(t)
  BY <1>0, k_process_createInv
<1>4. /\ t.table = s.table \cup {new} /\ t.queued = s.queued \cup {new}
      /\ t.asleep = s.asleep /\ t.fg = s.fg /\ t.power = s.power
      /\ t.ppid = [s.ppid EXCEPT ![new] = s.pid[parent]]
      /\ t.pid = [s.pid EXCEPT ![new] = NextPid(s)]
      /\ t.status = [s.status EXCEPT ![new] = "READY"]
      /\ t.zombies = [s.zombies EXCEPT ![new] = {}]
      /\ t.children = [q \in Proc |-> IF q = new THEN {}
                                      ELSE IF q = parent THEN s.children[q] \cup {new}
                                      ELSE s.children[q]]
  BY <1>0 DEF KernelState, k_process_create
<1>5. /\ t.status[new] = "READY" /\ t.ppid[new] = s.pid[parent]
      /\ t.children[new] = {} /\ t.zombies[new] = {}
      /\ t.children[parent] = s.children[parent] \cup {new}
      /\ \A p \in Proc \ {new} : /\ t.status[p] = s.status[p] /\ t.ppid[p] = s.ppid[p]
                                 /\ t.pid[p] = s.pid[p] /\ t.zombies[p] = s.zombies[p]
                                 /\ s.children[p] \subseteq t.children[p]
                                 /\ p # parent => t.children[p] = s.children[p]
  BY <1>0, <1>2, <1>4 DEF KernelState
<1>6. \A p \in Proc \ {new} : Ended(t, p) <=> Ended(s, p)
  BY <1>5 DEF Ended
<1>7. ~Ended(t, new) /\ ~Ended(s, parent)
  BY <1>5 DEF Ended
<1>8. parent \in Proc \ {new} /\ \A p \in s.table : p \in Proc \ {new}
  BY <1>0, <1>2
<1>9. Families(t)
  <2>1. \A p \in t.table \ {Shell} : \E q \in t.table : p \in t.children[q]
    <3> TAKE p \in t.table \ {Shell}
    <3>1. CASE p = new
      BY <1>4, <1>5, <3>1
    <3>2. CASE p # new
      <4>1. PICK q \in s.table : p \in s.children[q]
        BY <1>0, <1>4, <3>2 DEF Families
      <4> QED BY <1>4, <1>5, <1>8, <4>1
    <3> QED BY <3>1, <3>2
  <2>2. ASSUME NEW p \in t.table, NEW z \in t.zombies[p]
        PROVE  /\ z.of \in t.children[p] /\ Ended(t, z.of)
               /\ \A y \in t.zombies[p] : y.of = z.of => y = z
    <3>1. p \in s.table /\ z \in s.zombies[p] /\ t.zombies[p] = s.zombies[p]
      BY <1>4, <1>5, <1>8, <2>2
    <3>2. /\ z.of \in s.children[p] /\ Ended(s, z.of)
          /\ \A y \in s.zombies[p] : y.of = z.of => y = z
      BY <1>0, <3>1 DEF Families
    <3>3. z.of \in Proc \ {new}
      BY <1>0, <1>8, <3>1, <3>2 DEF KernelInv
    <3> QED BY <1>5, <1>6, <1>8, <3>1, <3>2, <3>3
  <2>3. ASSUME NEW p \in t.table, Ended(t, p)
        PROVE  t.children[p] = {} /\ \E q \in t.table : \E z \in t.zombies[q] : z.of = p
    <3>1. p \in s.table /\ Ended(s, p) /\ p # parent
      BY <1>4, <1>6, <1>7, <1>8, <2>3
    <3>2. s.children[p] = {} /\ \E q \in s.table : \E z \in s.zombies[q] : z.of = p
      BY <1>0, <3>1 DEF Families
    <3> QED BY <1>4, <1>5, <1>8, <3>1, <3>2
  <2>4. ASSUME NEW p \in t.table, t.children[p] # {} PROVE t.ppid[p] = 1
    <3>1. p \in s.table /\ (p = parent \/ s.children[p] # {})
      BY <1>4, <1>5, <1>8, <2>4
    <3> QED BY <1>0, <1>5, <1>8, <3>1 DEF Families
  <2>5. t.ppid[Shell] = 1
    BY <1>0, <1>5, <1>8 DEF Families
  <2> QED BY <2>1, <2>2, <2>3, <2>4, <2>5 DEF Families
<1>10. Lives(t)
  <2>1. \A p \in Proc : t.status[p] # "STOPPED"
    BY <1>0, <1>5 DEF Lives
  <2>2. ~Ended(t, Shell)
    BY <1>0, <1>2, <1>6 DEF Lives
  <2>3. ASSUME NEW p \in t.table PROVE p \in t.queued <=> ~Ended(t, p)
    <3>1. CASE p = new
      BY <1>4, <1>7, <3>1
    <3>2. CASE p # new
      BY <1>0, <1>4, <1>6, <1>8, <3>2 DEF Lives
    <3> QED BY <3>1, <3>2
  <2> QED BY <2>1, <2>2, <2>3 DEF Lives
<1>11. Sleepers(t)
  <2>1. ASSUME NEW n \in s.asleep PROVE n.of \in Proc \ {new}
    <3>1. n.of \in Proc /\ n.of <= s.made /\ s.made \in Nat
      BY <1>0 DEF KernelState, Node, SleepersSound
    <3> QED BY <3>1, MaxProcAssumption DEF Proc
  <2>2. \A n \in t.asleep : \/ t.status[n.of] = "EXITED"
                            \/ n.of \in t.table /\ t.status[n.of] = "BLOCKED"
    BY <1>0, <1>4, <1>5, <2>1 DEF Sleepers
  <2>3. ASSUME NEW p \in t.table \ {Shell}, t.status[p] = "BLOCKED"
        PROVE  t.ppid[p] = 1 /\ t.children[p] = {} /\ \E n \in t.asleep : n.of = p
    <3>1. p # new /\ p # parent /\ p \in s.table \ {Shell} /\ s.status[p] = "BLOCKED"
      BY <1>4, <1>5, <1>8, <2>3
    <3> QED BY <1>0, <1>4, <1>5, <1>8, <3>1 DEF Sleepers
  <2>4. SleepTicks = {} => t.asleep = {}
    BY <1>0, <1>4 DEF Sleepers
  <2> QED BY <2>2, <2>3, <2>4 DEF Sleepers
<1>12. OnTop(t) /\ Awaited(t)
  <2>1. s.fg # Shell => s.fg \in Proc \ {new}
    BY <1>0, <1>8 DEF OnTop
  <2>2. t.fg = s.fg /\ t.status[Shell] = s.status[Shell] /\ s.table \subseteq t.table
    BY <1>0, <1>2, <1>4, <1>5
  <2>3. s.fg # Shell => t.ppid[s.fg] = s.ppid[s.fg] /\ (Ended(t, s.fg) <=> Ended(s, s.fg))
    BY <1>5, <1>6, <2>1
  <2>4. /\ s.fg # Shell <=> s.status[Shell] = "BLOCKED"
        /\ s.fg # Shell => s.fg \in s.table /\ s.ppid[s.fg] = 1 /\ ~Ended(s, s.fg)
    BY <1>0 DEF OnTop, Awaited
  <2> QED BY <2>2, <2>3, <2>4 DEF OnTop, Awaited
<1>13. Quiet(t)
  BY <1>3, <1>9, <1>10, <1>11, <1>12 DEF Quiet, Settling
<1> QED BY <1>2, <1>4, <1>5, <1>13

\* A child of the shell goes to sleep.
LEMMA SleepQuiet ==
  ASSUME NEW s, Quiet(s), NEW p \in s.table \ {Shell}, s.status[p] = "READY",
         s.ppid[p] = 1, s.children[p] = {}, NEW n \in SleepTicks,
         NEW t, t = addToAsleep(EntersSleep(s, p, n), p)
  PROVE  /\ Quiet(t) /\ t.table = s.table /\ t.ppid = s.ppid /\ t.pid = s.pid
         /\ t.children = s.children /\ t.fg = s.fg /\ t.power = s.power
         /\ t.status = [s.status EXCEPT ![p] = "BLOCKED"] /\ t.ticks[p] = n
<1> DEFINE z == [at |-> s.stamp, of |-> p]
           u == EntersSleep(s, p, n)
<1>0. /\ KernelInv(s) /\ s \in KernelState
      /\ Families(s) /\ Lives(s) /\ Sleepers(s) /\ OnTop(s) /\ Awaited(s)
      /\ s.table \subseteq Proc /\ Shell \in Proc /\ p \in Proc /\ p # Shell
  BY TableFacts DEF Quiet, Settling, KernelInv
<1>1. KernelInv(t)
  <2>1. KernelInv(u)
    <3>1. "BLOCKED" \in Status /\ n \in Int
      BY ConstantsAssumption DEF Status
    <3> QED BY <1>0, <3>1 DEF EntersSleep, KernelInv, KernelState
  <2> QED BY <1>0, <2>1, addToAsleepInv
<1>2. /\ t.table = s.table /\ t.ppid = s.ppid /\ t.pid = s.pid
      /\ t.children = s.children /\ t.fg = s.fg /\ t.power = s.power
      /\ t.zombies = s.zombies /\ t.queued = s.queued
      /\ t.status = [s.status EXCEPT ![p] = "BLOCKED"] /\ t.ticks[p] = n
      /\ t.asleep = s.asleep \cup {z}
  BY <1>0 DEF addToAsleep, EntersSleep, KernelState
<1>3. \A q \in Proc : t.status[q] = IF q = p THEN "BLOCKED" ELSE s.status[q]
  BY <1>0, <1>2 DEF KernelState
<1>4. \A q \in Proc : Ended(t, q) <=> Ended(s, q)
  BY <1>3 DEF Ended
<1>5. Families(t)
  <2>1. \A q \in s.table : \A y \in s.zombies[q] : y.of \in Proc
    BY <1>0 DEF KernelState, Node
  <2> QED BY <1>0, <1>2, <1>4, <2>1 DEF Families
<1>6. Lives(t)
  BY <1>0, <1>2, <1>3, <1>4 DEF Lives
<1>7. Sleepers(t)
  <2>1. z.of = p /\ z \in t.asleep
    BY <1>2
  <2> HIDE DEF z
  <2>2. \A m \in s.asleep : m.of \in Proc
    BY <1>0 DEF KernelState, Node
  <2>3. \A m \in t.asleep : \/ t.status[m.of] = "EXITED"
                            \/ m.of \in t.table /\ t.status[m.of] = "BLOCKED"
    BY <1>0, <1>2, <1>3, <2>1, <2>2 DEF Sleepers
  <2>4. \A q \in t.table \ {Shell} : t.status[q] = "BLOCKED" =>
          t.ppid[q] = 1 /\ t.children[q] = {} /\ \E m \in t.asleep : m.of = q
    BY <1>0, <1>2, <1>3, <2>1 DEF Sleepers
  <2> QED BY <2>3, <2>4 DEF Sleepers
<1>8. OnTop(t) /\ Awaited(t)
  <2>1. t.status[Shell] = s.status[Shell] /\ s.fg \in Proc
    BY <1>0, <1>3, TableFacts
  <2> QED BY <1>0, <1>2, <1>4, <2>1 DEF OnTop, Awaited
<1> QED BY <1>1, <1>2, <1>5, <1>6, <1>7, <1>8 DEF Quiet, Settling

\* p_nice moves a process between the queues, or crashes, and changes nothing else.
LEMMA p_niceQuiet ==
  ASSUME NEW s, Quiet(s), NEW x, NEW priority \in Int, NEW t, t = p_nice(s, x, priority)
  PROVE  Quiet(t) /\ SameLives(s, t)
<1>0. KernelInv(s) /\ s \in KernelState
  BY DEF Quiet, Settling, KernelInv
<1>1. PICK n : n = Search(s, x)
  OBVIOUS
<1>2. KernelInv(t)
  BY <1>0, p_niceInv
<1>3. CASE n = None
  BY <1>1, <1>3 DEF p_nice, SameLives
<1>4. CASE n # None
  <2> DEFINE slot == {q \in s.queued : SameSlot(s, n, q)}
             u == [s EXCEPT !.queued = (@ \ slot) \cup {n}, !.prio[n] = priority]
  <2>1. n \in s.table
    BY <1>0, <1>1, <1>4, SearchResult
  <2>2. \A q \in slot : q = n
    <3> TAKE q \in slot
    <3>1. q \in s.table /\ s.pid[q] = s.pid[n]
      BY <1>0 DEF KernelInv, SameSlot
    <3> QED BY <1>0, <2>1, <3>1, SamePid
  <2>3. t = IF slot = {} THEN Crash(s) ELSE u
    BY <1>1, <1>4 DEF p_nice
  <2>4. slot # {} => (s.queued \ slot) \cup {n} = s.queued
    BY <2>2
  <2> HIDE DEF slot
  <2>5. SameLives(s, Crash(s))
    BY <1>0 DEF SameLives, KernelState, Crash
  <2>6. slot # {} => SameLives(s, u)
    BY <1>0, <2>4 DEF SameLives, KernelState
  <2> HIDE DEF u
  <2>7. SameLives(s, t)
    BY <2>3, <2>5, <2>6
  <2> QED BY <1>2, <2>7, SameLivesQuiet
<1> QED BY <1>1, <1>3, <1>4

\* The shell waits for a child that has not ended.
LEMMA setForegroundQuiet ==
  ASSUME NEW s, Quiet(s), s.fg = Shell, NEW p \in s.table \ {Shell}, s.ppid[p] = 1,
         ~Ended(s, p), NEW t, t = setForeground(s, s.pid[p])
  PROVE  /\ Quiet(t) /\ t.fg = p /\ t.table = s.table /\ t.ppid = s.ppid
         /\ t.pid = s.pid /\ t.children = s.children /\ t.power = s.power /\ t.made = s.made
         /\ t.status = [s.status EXCEPT ![Shell] = "BLOCKED"]
<1>0. /\ KernelInv(s) /\ s \in KernelState
      /\ Families(s) /\ Lives(s) /\ Sleepers(s)
      /\ Shell \in s.table /\ s.pid[Shell] = 1 /\ Shell # None
      /\ s.table \subseteq Proc /\ Shell \in Proc /\ p \in Proc /\ p # Shell /\ p # None
      /\ s.pid[p] # 1
  BY TableFacts DEF Quiet, Settling, KernelInv
<1>1. Search(s, s.pid[p]) = p /\ Search(s, 1) = Shell
  BY <1>0, SearchFinds
<1>2. t = [s EXCEPT !.fg = p, !.status[Shell] = "BLOCKED"]
  BY <1>0, <1>1 DEF setForeground
<1>3. /\ t.fg = p /\ t.table = s.table /\ t.ppid = s.ppid
      /\ t.pid = s.pid /\ t.children = s.children /\ t.power = s.power /\ t.made = s.made
      /\ t.status = [s.status EXCEPT ![Shell] = "BLOCKED"]
      /\ t.zombies = s.zombies /\ t.queued = s.queued /\ t.asleep = s.asleep
  BY <1>0, <1>2 DEF KernelState
<1>4. KernelInv(t)
  BY <1>0, setForegroundInv
<1>5. \A q \in Proc : t.status[q] = IF q = Shell THEN "BLOCKED" ELSE s.status[q]
  BY <1>0, <1>3 DEF KernelState
<1>6. \A q \in Proc : Ended(t, q) <=> Ended(s, q)
  BY <1>0, <1>5 DEF Ended, Lives
<1>7. Families(t)
  <2>1. \A q \in s.table : \A y \in s.zombies[q] : y.of \in Proc
    BY <1>0 DEF KernelState, Node
  <2> QED BY <1>0, <1>3, <1>6, <2>1 DEF Families
<1>8. Lives(t)
  BY <1>0, <1>3, <1>5, <1>6 DEF Lives
<1>9. Sleepers(t)
  <2>1. \A m \in s.asleep : m.of \in Proc /\ m.of # Shell
    BY <1>0 DEF KernelInv, KernelState, Node
  <2> QED BY <1>0, <1>3, <1>5, <2>1 DEF Sleepers
<1>10. OnTop(t) /\ Awaited(t)
  BY <1>0, <1>3, <1>5, <1>6 DEF OnTop, Awaited
<1> QED BY <1>3, <1>4, <1>7, <1>8, <1>9, <1>10 DEF Quiet, Settling

\* ^C of the process that has the terminal: it dies, and the shell has it back.
LEMMA InterruptQuiet ==
  ASSUME NEW s, Quiet(s), s.fg # Shell, s.asleep = {},
         NEW t, t = k_process_kill(s, s.fg, "S_SIGTERM")
  PROVE  Quiet(t) /\ Passing(s, t)
<1>0. /\ KernelInv(s) /\ s \in KernelState /\ Settling(s)
      /\ OnTop(s) /\ Awaited(s) /\ Lives(s) /\ Shell \in Proc
  BY TableFacts DEF Quiet, Settling, KernelInv
<1>1. PICK p : p = s.fg
  OBVIOUS
<1>2. /\ p \in s.table \ {Shell} /\ s.ppid[p] = 1 /\ ~Ended(s, p)
      /\ p \in Proc /\ s.status[Shell] = "BLOCKED"
  BY <1>0, <1>1, TableFacts DEF OnTop, Awaited
<1> DEFINE u == [s EXCEPT !.status[p] = "SIGNALED"]
<1>3. KernelInv(u)
  <2>1. "SIGNALED" \in Status
    BY DEF Status
  <2> QED BY <1>0, <1>2, <2>1, StatusInv
<1>4. /\ u.table = s.table /\ u.pid = s.pid /\ u.ppid = s.ppid /\ u.fg = s.fg
      /\ u.status[Shell] = "BLOCKED"
  BY <1>0, <1>2 DEF KernelState
<1>5. unblockIfForeground(u, p) = [TerminalBack(s) EXCEPT !.status[p] = "SIGNALED"]
  <2> DEFINE w == [u EXCEPT !.status[Shell] = "READY"]
  <2>1. KernelInv(w) /\ w.table = s.table /\ w.pid = s.pid
    <3>1. "READY" \in Status
      BY DEF Status
    <3>2. KernelInv(w)
      BY <1>0, <1>3, <3>1, StatusInv
    <3> HIDE DEF u
    <3> QED BY <1>3, <1>4, <3>2 DEF KernelInv, KernelState
  <2>2. Shell \in s.table /\ s.pid[Shell] = 1 /\ Shell # None
    BY <1>0, TableFacts DEF KernelInv
  <2>3. [w EXCEPT !.fg = Shell] = [TerminalBack(s) EXCEPT !.status[p] = "SIGNALED"]
    BY <1>0, <1>2 DEF TerminalBack, KernelState
  <2> HIDE DEF w
  <2>4. Search(u, 1) = Shell /\ Search(w, 1) = Shell
    BY <1>3, <1>4, <2>1, <2>2, SearchFinds
  <2>5. setForeground(w, 1) = [w EXCEPT !.fg = Shell]
    BY <2>1, <2>2, <2>4 DEF setForeground
  <2>6. unblockParent(u, 1) = setForeground(w, 1)
    BY <1>4, <2>2, <2>4 DEF unblockParent, w
  <2> HIDE DEF u
  <2>7. unblockIfForeground(u, p) = unblockParent(u, 1)
    BY <1>1, <1>2, <1>4 DEF unblockIfForeground
  <2> QED BY <2>3, <2>5, <2>6, <2>7
<1>6. t = dealWithUnwaitedProcess([TerminalBack(s) EXCEPT !.status[p] = "SIGNALED"], p)
  BY <1>1, <1>5 DEF k_process_kill
<1> HIDE DEF u
<1>7. PICK b : b = TerminalBack(s)
  OBVIOUS
<1>8. Quiet(b) /\ b.status = [s.status EXCEPT ![Shell] = "READY"] /\ b.fg = Shell
  <2>1. b = [s EXCEPT !.status = b.status, !.fg = Shell]
    BY <1>0, <1>7, TerminalBackQuiet
  <2>2. b.fg = Shell
    BY <1>0, <2>1 DEF KernelState
  <2> QED BY <1>0, <1>7, <2>2, TerminalBackQuiet
<1>9. /\ b.table = s.table /\ b.pid = s.pid /\ b.ppid = s.ppid /\ b.made = s.made
      /\ b.power = s.power /\ b.children = s.children /\ b.asleep = s.asleep
  BY <1>0, <1>7 DEF TerminalBack, KernelState
<1>10. \A q \in Proc : b.status[q] = IF q = Shell THEN "READY" ELSE s.status[q]
  BY <1>0, <1>8 DEF KernelState
<1>11. Dies(b, t, p, "SIGNALED")
  BY <1>6, <1>7 DEF Dies
<1>12. p \in b.table \ {Shell} /\ ~Ended(b, p) /\ Settling(b) /\ b.asleep = {}
  BY <1>2, <1>8, <1>9, <1>10 DEF Ended, Quiet
<1>13. /\ Settling(t) /\ Passing(b, t)
       /\ t.table = b.table \ b.children[p] /\ p \in t.table
       /\ t.status = [b.status EXCEPT ![p] = "SIGNALED"] /\ Ended(t, p)
       /\ t.fg = b.fg
  <2>1. Cause(b, "SIGNALED")
    BY <1>12 DEF Cause
  <2> QED BY ONLY <1>11, <1>12, <2>1, ProcessDies
<1>14. Quiet(t)
  BY <1>8, <1>13 DEF Quiet, Awaited
<1>15. Passing(s, t)
  <2>1. \A q \in Proc : Ended(s, q) => Ended(b, q)
    BY <1>0, <1>10 DEF Ended, Lives
  <2>2. b.status[Shell] # "BLOCKED"
    BY <1>0, <1>10
  <2> QED BY <1>1, <1>9, <1>13, <2>1, <2>2 DEF Passing
<1> QED BY <1>14, <1>15

-----------------------------------------------------------------------------
(***************************************************************************)
(* The steps of a quiet system.                                            *)
(***************************************************************************)
\* A job of the queue is a child of the shell that has not been reaped, or one
\* whose death pollJobChanges has been told and which it will visit; the job in
\* hand is a child that has not been reaped; and a blocked shell waits for the
\* process it has given the terminal to.
JobsKnown ==
  /\ sh.stopped = {} /\ sh.how # "STOPPED"
  /\ sh.todo \subseteq sh.jobs /\ (pc[Shell] # "poll" => sh.todo = {})
  /\ \A j \in sh.jobs :
        /\ k.ppid[j] = 1 /\ j <= k.made
        /\ \/ j \in k.table
           \/ /\ j \in sh.todo /\ k.pid[j] = sh.found
              /\ sh.how \in {"EXITED", "SIGNALED"}
  /\ \A i, j \in sh.jobs : k.pid[i] = k.pid[j] => i = j
  /\ pc[Shell] \in {"nice", "launch", "wait", "woken"} =>
       sh.job \in k.table \ sh.jobs /\ k.ppid[sh.job] = 1
  /\ pc[Shell] = "woken" => sh.child = sh.job
  /\ k.status[Shell] = "BLOCKED" => pc[Shell] = "woken" /\ sh.child = k.fg

\* Who has the processor is ready, or has just gone to sleep; who will spawn or
\* sleep is a child of the shell, and a sleeper has no children; and nobody is at
\* a place that only a signal or a window leads to.
Running ==
  cur # None =>
    /\ cur \in k.table
    /\ \/ k.status[cur] = "READY"
       \/ /\ cur # Shell /\ k.status[cur] = "BLOCKED"
          /\ pc[cur] = "return" /\ k.ticks[cur] # 0

Places ==
  /\ \A p \in k.table : pc[p] \in {"spawn", "sleep"} => k.ppid[p] = 1
  /\ \A p \in k.table : pc[p] = "sleep" => k.children[p] = {}
  /\ \A p \in Proc : pc[p] \notin {"enrol", "block", "resumed"}

\* Without nice nothing crashes.
NoFault == Nices = {} => pc[Shell] # "nice" /\ k.power # "crashed"

QuietInv == Sound /\ Quiet(k) /\ JobsKnown /\ Running /\ Places /\ NoFault

\* What a step may do to the living and the dead.
Lawful(s, t) ==
  /\ \A p \in s.table : Ended(s, p) => Ended(t, p)
  /\ \A p \in s.table \ t.table :
        \/ Ended(s, p)
        \/ \E q \in s.table : s.pid[q] = s.ppid[p] /\ Ended(t, q)
  /\ s.status[Shell] = "BLOCKED" /\ t.status[Shell] # "BLOCKED" => Ended(t, s.fg)

\* What all steps but those of the shell leave to the shell ...
Keeps(s, t) ==
  /\ s.made <= t.made
  /\ \A p \in Proc : p <= s.made => t.pid[p] = s.pid[p] /\ t.ppid[p] = s.ppid[p]
  /\ \A p \in s.table : s.ppid[p] = 1 => p \in t.table
  /\ t.status[Shell] = "BLOCKED" => s.status[Shell] = "BLOCKED" /\ t.fg = s.fg

\* ... and all steps but spawns to the programs.
Shrinks(s, t) ==
  /\ t.table \subseteq s.table /\ t.ppid = s.ppid
  /\ \A p \in t.table : t.children[p] \subseteq s.children[p]

\* Passing time keeps both.
LEMMA PassingKeeps ==
  ASSUME NEW s, NEW t, Quiet(s), Quiet(t), Passing(s, t)
  PROVE  Keeps(s, t) /\ Shrinks(s, t) /\ Lawful(s, t)
<1>0. /\ KernelInv(s) /\ s.made \in Nat /\ s.table \subseteq Proc /\ t.table \subseteq Proc
      /\ ~Ended(t, Shell)
  BY TableFacts DEF Quiet, Settling, Lives, KernelInv, KernelState
<1>1. ASSUME NEW p \in s.table, s.ppid[p] = 1 PROVE p \in t.table
  <2>1. ASSUME p \notin t.table PROVE FALSE
    <3>1. PICK q \in s.table : s.pid[q] = s.ppid[p] /\ Ended(t, q)
      BY <2>1 DEF Passing
    <3>2. q = Shell
      BY <1>0, <1>1, <3>1, TableFacts
    <3> QED BY <1>0, <3>1, <3>2
  <2> QED BY <2>1
<1>2. Keeps(s, t)
  BY <1>0, <1>1 DEF Keeps, Passing
<1>3. Shrinks(s, t)
  BY <1>0 DEF Shrinks, Passing
<1>4. Lawful(s, t)
  BY <1>0 DEF Lawful, Passing
<1> QED BY <1>2, <1>3, <1>4

\* So do the calls that only report, and the change of a priority.
LEMMA SameKeeps ==
  ASSUME NEW s, NEW t, Quiet(s), SameLives(s, t)
  PROVE  Keeps(s, t) /\ Shrinks(s, t) /\ Lawful(s, t)
<1>0. s.made \in Nat
  BY DEF Quiet, Settling, KernelInv, KernelState
<1> QED BY <1>0 DEF Keeps, Shrinks, Lawful, SameLives, Ended

\* Reaping the dead is lawful.
LEMMA BuriedLawful ==
  ASSUME NEW s, NEW t, Quiet(s), NEW n, Ended(s, n), Buried(s, t, n)
  PROVE  Shrinks(s, t) /\ Lawful(s, t)
BY DEF Shrinks, Lawful, Buried, Ended

\* Who has the processor after a schedule.
Chosen(c, s) == c # None => c \in s.table /\ s.status[c] = "READY"

\* The scheduler.
LEMMA scheduleQuiet ==
  ASSUME NEW s, Quiet(s), schedule(s)
  PROVE  /\ Quiet(k') /\ Passing(s, k') /\ k'.table = s.table
         /\ Chosen(cur', k')
<1>1. k' = decrementTicks(s) /\ cur' \in Runnable(k')
  BY DEF schedule
<1>2. Quiet(k') /\ Passing(s, k') /\ k'.table = s.table
  BY <1>1, decrementTicksQuiet
<1>3. k'.queued \subseteq k'.table
  BY <1>2 DEF Quiet, Settling, KernelInv
<1> QED BY <1>1, <1>2, <1>3 DEF Runnable, Ready, Chosen

-----------------------------------------------------------------------------
\* What the steps take from QuietInv.
LEMMA QuietFacts ==
  ASSUME QuietInv
  PROVE  /\ KernelInv(k) /\ Quiet(k) /\ IInv /\ Sound /\ SleepersSound(k) /\ k.made \in Nat
         /\ k.table \subseteq Proc /\ k.table \subseteq 1..k.made
         /\ Shell \in Proc /\ Shell \in k.table /\ k.pid[Shell] = 1 /\ k.ppid[Shell] = 1
         /\ Shell # None /\ None \notin Proc /\ Proc \subseteq Nat
         /\ sh \in ShellState /\ sh.jobs \subseteq Proc \ {Shell}
         /\ pc \in [Proc -> Place] /\ pc[Shell] \in ShellPlace
         /\ \A p \in Proc : p # Shell => k.pid[p] # 1
<1>1. KernelInv(k) /\ IInv /\ SleepersSound(k)
  BY DEF QuietInv, Quiet, Settling, Sound
<1>2. Shell \in Proc /\ Shell # None /\ None \notin Proc /\ Proc \subseteq Nat
  BY MaxProcAssumption DEF Proc, Shell, None
<1>3. k.made \in Nat /\ k.table \subseteq 1..k.made /\ Shell \in k.table
  BY <1>1 DEF KernelInv, KernelState
<1>4. sh \in ShellState /\ sh.jobs \subseteq Proc \ {Shell}
  BY <1>1, ShellFacts
<1>5. pc \in [Proc -> Place] /\ pc[Shell] \in ShellPlace
  BY <1>1 DEF IInv, TypeOK
<1>6. k.table \subseteq Proc /\ k.pid[Shell] = 1 /\ k.ppid[Shell] = 1
      /\ \A p \in Proc : p # Shell => k.pid[p] # 1
  BY <1>1, <1>2, TableFacts DEF KernelInv, SleepersSound
<1> QED BY <1>1, <1>2, <1>3, <1>4, <1>5, <1>6 DEF QuietInv

\* The shell's knowledge is kept while others run ...
LEMMA JobsKept ==
  ASSUME QuietInv, Keeps(k, k'), sh' = sh, pc'[Shell] = pc[Shell], k'.made \in Nat
  PROVE  JobsKnown'
<1>0. /\ k.table \subseteq Proc /\ k.made \in Nat /\ Proc \subseteq Nat
      /\ sh.jobs \subseteq Proc /\ JobsKnown
      /\ \A p \in k.table : p <= k.made
  BY QuietFacts DEF QuietInv
<1>1. /\ k.made <= k'.made
      /\ \A p \in Proc : p <= k.made => k'.pid[p] = k.pid[p] /\ k'.ppid[p] = k.ppid[p]
      /\ \A p \in k.table : k.ppid[p] = 1 => p \in k'.table
      /\ k'.status[Shell] = "BLOCKED" => k.status[Shell] = "BLOCKED" /\ k'.fg = k.fg
  BY DEF Keeps
<1>2. \A j \in sh.jobs :
        /\ k'.ppid[j] = 1 /\ j <= k'.made /\ k'.pid[j] = k.pid[j]
        /\ \/ j \in k'.table
           \/ /\ j \in sh.todo /\ k'.pid[j] = sh.found
              /\ sh.how \in {"EXITED", "SIGNALED"}
  <2> TAKE j \in sh.jobs
  <2>1. /\ j \in Proc /\ j <= k.made /\ k.ppid[j] = 1
        /\ \/ j \in k.table
           \/ /\ j \in sh.todo /\ k.pid[j] = sh.found
              /\ sh.how \in {"EXITED", "SIGNALED"}
    BY <1>0 DEF JobsKnown
  <2>2. k'.ppid[j] = 1 /\ k'.pid[j] = k.pid[j]
    BY <1>1, <2>1
  <2>3. j <= k'.made
    <3>1. j \in Nat
      BY <1>0, <2>1
    <3> QED BY <1>0, <1>1, <2>1, <3>1
  <2> QED BY <1>1, <2>1, <2>2, <2>3
<1>3. pc[Shell] \in {"nice", "launch", "wait", "woken"} =>
        sh.job \in k'.table \ sh.jobs /\ k'.ppid[sh.job] = 1
  BY <1>0, <1>1 DEF JobsKnown
<1> QED BY <1>0, <1>1, <1>2, <1>3 DEF JobsKnown

\* ... and is simple within a command.
LEMMA JobsInCommand ==
  ASSUME NEW place \in ShellPlace \ {"poll", "woken"}, pc'[Shell] = place,
         KernelInv(k'), sh'.stopped = {}, sh'.how # "STOPPED", sh'.todo = {},
         sh'.jobs \subseteq k'.table, \A j \in sh'.jobs : k'.ppid[j] = 1,
         k'.status[Shell] # "BLOCKED",
         place \in {"nice", "launch", "wait"} =>
           sh'.job \in k'.table \ sh'.jobs /\ k'.ppid[sh'.job] = 1
  PROVE  JobsKnown'
<1>1. \A j \in sh'.jobs : j <= k'.made
  BY DEF KernelInv
<1>2. \A i, j \in sh'.jobs : k'.pid[i] = k'.pid[j] => i = j
  BY SamePid
<1> QED BY <1>1, <1>2 DEF JobsKnown

\* A step in which p alone moves, if anybody, keeps the places ...
LEMMA PlacesKept ==
  ASSUME QuietInv, Shrinks(k, k'), NEW p \in Proc, NEW place, pc' = [pc EXCEPT ![p] = place],
         place \notin {"spawn", "sleep", "enrol", "block", "resumed"} \/ place = pc[p]
  PROVE  Places'
<1>1. \A q \in Proc : pc'[q] = IF q = p THEN place ELSE pc[q]
  BY QuietFacts
<1>2. Places /\ k.table \subseteq Proc
  BY QuietFacts DEF QuietInv
<1> QED BY <1>1, <1>2 DEF Places, Shrinks

\* ... in particular a step of the shell.
LEMMA ShellPlaces ==
  ASSUME QuietInv, Shrinks(k, k'), NEW place \in ShellPlace \ {"block", "resumed"},
         Goto(Shell, place)
  PROVE  Places'
<1>1. place \notin {"spawn", "sleep", "enrol", "block", "resumed"}
  BY DEF ShellPlace
<1> QED BY <1>1, QuietFacts, PlacesKept DEF Goto

\* Whoever the scheduler has chosen is ready.
LEMMA ChosenRuns == ASSUME Chosen(cur', k') PROVE Running'
BY DEF Chosen, Running

\* The shell goes on, and is ready.
LEMMA ShellStaysReady ==
  ASSUME cur' = Shell, Shell \in k'.table, k'.status[Shell] = "READY" PROVE Running'
<1>1. cur' \in k'.table /\ k'.status[cur'] = "READY"
  OBVIOUS
<1> QED BY <1>1 DEF Running

\* What the shell knows in its turn.
LEMMA ShellTurn ==
  ASSUME QuietInv, cur = Shell
  PROVE  /\ k.status[Shell] = "READY" /\ k.fg = Shell
         /\ pc[Shell] # "poll" => sh.jobs \subseteq k.table /\ sh.todo = {}
         /\ \A j \in sh.jobs : k.ppid[j] = 1
         /\ sh.stopped = {} /\ sh.how # "STOPPED"
<1>1. k.status[Shell] = "READY"
  BY QuietFacts DEF QuietInv, Running
<1>2. k.fg = Shell
  BY <1>1 DEF QuietInv, Quiet, Settling, OnTop
<1> QED BY <1>1, <1>2 DEF QuietInv, JobsKnown

\* A step that ends in the scheduler and in which time passes.
LEMMA TimePasses ==
  ASSUME QuietInv, NEW s, Quiet(s), Passing(k, s), schedule(s)
  PROVE  /\ Quiet(k') /\ Passing(k, k') /\ Keeps(k, k') /\ Shrinks(k, k') /\ Lawful(k, k')
         /\ Running' /\ k'.power = k.power /\ k'.made \in Nat /\ KernelInv(k')
         /\ Passing(s, k')
<1>0. KernelInv(s) /\ KernelInv(k) /\ Quiet(k)
  BY QuietFacts DEF Quiet, Settling
<1>1. Quiet(k') /\ Passing(s, k') /\ Chosen(cur', k')
  BY scheduleQuiet
<1>2. Passing(k, k')
  BY <1>0, <1>1, PassesOn
<1>3. Keeps(k, k') /\ Shrinks(k, k') /\ Lawful(k, k')
  BY <1>0, <1>1, <1>2, PassingKeeps
<1>4. k'.power = k.power
  BY <1>2 DEF Passing
<1>5. KernelInv(k') /\ k'.made \in Nat
  BY <1>1 DEF Quiet, Settling, KernelInv, KernelState
<1> QED BY <1>1, <1>2, <1>3, <1>4, <1>5, ChosenRuns

\* Time passes, and the shell stays where it is.
LEMMA OthersRun ==
  ASSUME QuietInv, Sound', NEW s, Quiet(s), Passing(k, s), schedule(s), sh' = sh,
         NEW p \in Proc, NEW place, pc' = [pc EXCEPT ![p] = place],
         place \notin {"spawn", "sleep", "enrol", "block", "resumed"} \/ place = pc[p],
         p = Shell => place = pc[p]
  PROVE  QuietInv' /\ Lawful(k, k')
<1>1. /\ Quiet(k') /\ Keeps(k, k') /\ Shrinks(k, k') /\ Lawful(k, k')
      /\ Running' /\ k'.power = k.power /\ k'.made \in Nat
  BY TimePasses
<1>2. pc'[Shell] = pc[Shell]
  BY QuietFacts
<1>3. JobsKnown' /\ Places'
  BY <1>1, <1>2, JobsKept, PlacesKept
<1>4. NoFault'
  BY <1>1, <1>2 DEF QuietInv, NoFault
<1> QED BY <1>1, <1>3, <1>4 DEF QuietInv

\* SIGALRM.
LEMMA TickQuiet == ASSUME QuietInv, Sound', Tick PROVE QuietInv' /\ Lawful(k, k')
<1>1. PICK place : place = pc[Shell]
  OBVIOUS
<1>2. schedule(k) /\ sh' = sh /\ pc' = [pc EXCEPT ![Shell] = place]
  BY <1>1, QuietFacts DEF Tick
<1>3. Quiet(k) /\ Passing(k, k) /\ Shell \in Proc
  BY QuietFacts, PassesNot
<1> QED BY <1>1, <1>2, <1>3, OthersRun

\* ^C.
LEMMA KeyQuiet ==
  ASSUME QuietSystem, QuietInv, Sound', NEW signal \in Keys, Key(signal)
  PROVE  QuietInv' /\ Lawful(k, k')
<1>1. PICK place : place = pc[Shell]
  OBVIOUS
<1>2. signal = "S_SIGTERM" /\ k.asleep = {}
  BY QuietFacts DEF QuietSystem, Quiet, Settling, Sleepers
<1>3. k.fg # Shell /\ k.fg \in k.table
  BY QuietFacts DEF Key, Quiet, Settling, OnTop
<1>4. Search(k, k.pid[k.fg]) = k.fg
  BY <1>3, QuietFacts, SearchFinds
<1>5. PICK s : s = k_process_kill(k, k.fg, "S_SIGTERM")
  OBVIOUS
<1>6. schedule(s) /\ sh' = sh /\ pc' = [pc EXCEPT ![Shell] = place]
  BY <1>1, <1>2, <1>4, <1>5, QuietFacts DEF Key
<1>7. Quiet(s) /\ Passing(k, s) /\ Shell \in Proc
  BY <1>2, <1>3, <1>5, QuietFacts, InterruptQuiet
<1> QED BY <1>1, <1>6, <1>7, OthersRun

-----------------------------------------------------------------------------
\* A program's function returns.
LEMMA ReturnQuiet ==
  ASSUME QuietInv, Sound', NEW p \in Proc, Return(p)
  PROVE  QuietInv' /\ Lawful(k, k')
<1>1. PICK k1 : k1 = decrementTicks(k)
  OBVIOUS
<1>2. /\ pc[p] = "return" /\ cur = p /\ sh' = sh
      /\ pc' = [pc EXCEPT ![p] = "done"]
      /\ \/ schedule(k)
         \/ schedule(RetireReturned(k1, p))
  BY <1>1 DEF Return, At, Goto, schedule
<1>3. p # Shell /\ p \in k.table \ {Shell}
  BY <1>2, QuietFacts DEF ShellPlace, QuietInv, Running
<1>4. k.status[p] = "READY" \/ k.ticks[p] # 0
  BY <1>2, <1>3, QuietFacts DEF QuietInv, Running
<1>5. /\ Quiet(k1) /\ Passing(k, k1) /\ k1.table = k.table
      /\ k1.status[p] = k.status[p]
  BY <1>1, <1>3, <1>4, QuietFacts, decrementTicksQuiet
<1>6. ~Ended(k1, p)
  <2>1. k.status[p] \in {"READY", "BLOCKED"}
    BY <1>2, <1>3, QuietFacts DEF QuietInv, Running
  <2> QED BY <1>5, <2>1 DEF Ended
<1>7. Quiet(RetireReturned(k1, p)) /\ Passing(k1, RetireReturned(k1, p))
  BY <1>3, <1>5, <1>6, RetireReturnedQuiet
<1>8. Passing(k, RetireReturned(k1, p))
  BY <1>5, <1>7, QuietFacts, PassesOn DEF Quiet, Settling
<1>9. PICK s : Quiet(s) /\ Passing(k, s) /\ schedule(s)
  BY <1>2, <1>7, <1>8, QuietFacts, PassesNot
<1> QED BY <1>2, <1>3, <1>9, OthersRun

\* Nobody sends signals.
LEMMA KillQuiet ==
  ASSUME QuietSystem, QuietInv, Sound', NEW p \in Proc, Kill(p)
  PROVE  QuietInv' /\ Lawful(k, k')
<1>1. /\ pc[p] = "kill" /\ cur = p /\ sh' = sh /\ k' = k /\ cur' = cur
      /\ pc' = [pc EXCEPT ![p] = "return"]
  BY DEF Kill, At, Goto, Continue, QuietSystem
<1>2. p # Shell
  BY <1>1, QuietFacts DEF ShellPlace
<1>3. Keeps(k, k') /\ Shrinks(k, k') /\ Lawful(k, k') /\ Quiet(k')
  BY <1>1, QuietFacts, PassesNot, PassingKeeps
<1>4. pc'[Shell] = pc[Shell]
  BY <1>1, <1>2, QuietFacts
<1>5. JobsKnown' /\ Places'
  BY <1>1, <1>3, <1>4, QuietFacts, JobsKept, PlacesKept
<1>6. Running'
  BY <1>1, QuietFacts DEF QuietInv, Running
<1>7. NoFault'
  BY <1>1, <1>4 DEF QuietInv, NoFault
<1> QED BY <1>3, <1>5, <1>6, <1>7 DEF QuietInv

\* A sleeper goes to sleep.
LEMMA SleepingQuiet ==
  ASSUME QuietSystem, QuietInv, Sound', NEW p \in Proc, Sleep(p)
  PROVE  QuietInv' /\ Lawful(k, k')
<1>1. /\ pc[p] = "sleep" /\ cur = p /\ sh' = sh /\ cur' = cur
      /\ pc' = [pc EXCEPT ![p] = "return"]
  BY DEF Sleep, At, Goto, Continue, QuietSystem
<1>2. PICK n \in SleepTicks : k' = addToAsleep(EntersSleep(k, p, n), p)
  BY DEF Sleep, Continue, QuietSystem, EntersSleep
<1>3. p # Shell /\ p \in k.table \ {Shell}
  BY <1>1, QuietFacts DEF ShellPlace, QuietInv, Running
<1>4. k.status[p] = "READY" /\ k.ppid[p] = 1 /\ k.children[p] = {}
  BY <1>1, <1>3, QuietFacts DEF QuietInv, Running, Places
<1>5. /\ Quiet(k') /\ k'.table = k.table /\ k'.ppid = k.ppid /\ k'.pid = k.pid
      /\ k'.children = k.children /\ k'.fg = k.fg /\ k'.power = k.power
      /\ k'.status = [k.status EXCEPT ![p] = "BLOCKED"] /\ k'.ticks[p] = n
  BY <1>2, <1>3, <1>4, QuietFacts, SleepQuiet
<1>6. k'.made = k.made /\ k.made \in Nat
  BY <1>2, QuietFacts DEF addToAsleep, EntersSleep, KernelInv, KernelState
<1>7. k.status \in [Proc -> Status] /\ k.table \subseteq Proc /\ n # 0
  BY QuietFacts DEF KernelInv, KernelState, QuietSystem
<1>8. k'.status[Shell] = k.status[Shell] /\ k'.status[p] = "BLOCKED"
      /\ \A q \in k.table : Ended(k, q) => Ended(k', q)
  BY <1>3, <1>4, <1>5, <1>7, QuietFacts DEF Ended
<1>9. Keeps(k, k') /\ Shrinks(k, k') /\ Lawful(k, k')
  BY <1>5, <1>6, <1>8 DEF Keeps, Shrinks, Lawful
<1>10. pc'[Shell] = pc[Shell] /\ pc'[p] = "return"
  BY <1>1, <1>3, QuietFacts
<1>11. JobsKnown' /\ Places'
  BY <1>1, <1>6, <1>9, <1>10, JobsKept, PlacesKept
<1>12. Running'
  BY <1>1, <1>3, <1>5, <1>7, <1>8, <1>10 DEF Running
<1>13. NoFault'
  BY <1>5, <1>10 DEF QuietInv, NoFault
<1> QED BY <1>5, <1>9, <1>11, <1>12, <1>13 DEF QuietInv

\* What a spawn leaves to the shell and to the programs.
LEMMA SpawnQuiet ==
  ASSUME QuietSystem, QuietInv, NEW p \in Proc, cur = p, k.ppid[p] = 1,
         k.status[p] = "READY", NEW program \in Program,
         StartPlace(program) \in {"sleep", "spawn"} => p = Shell,
         NEW next \in Place \ {"link", "spawn", "sleep", "enrol", "block", "resumed"},
         p_spawn(p, program, next), NEW new, new = k.made + 1
  PROVE  /\ Quiet(k') /\ Keeps(k, k') /\ Lawful(k, k') /\ Running' /\ Places'
         /\ new \in Proc \ k.table /\ new # Shell /\ ~(new <= k.made)
         /\ k'.table = k.table \cup {new} /\ k'.ppid[new] = k.pid[p]
         /\ k'.status[Shell] = k.status[Shell]
         /\ k'.power = k.power /\ cur' = cur
         /\ pc' = [pc EXCEPT ![p] = next, ![new] = StartPlace(program)]
<1>1. /\ k.made < MaxProc /\ k' = k_process_create(k, p, program, NextPid(k)) /\ cur' = cur
      /\ pc' = [pc EXCEPT ![p] = next, ![new] = StartPlace(program)]
  BY DEF p_spawn, Created, Continue, QuietSystem
<1>2. p \in k.table
  BY QuietFacts DEF QuietInv, Running
<1>3. /\ Quiet(k') /\ new \in Proc \ k.table /\ new # Shell
      /\ k'.table = k.table \cup {new} /\ k'.fg = k.fg /\ k'.power = k.power
      /\ k'.ppid[new] = k.pid[p] /\ k'.children[new] = {}
      /\ \A q \in Proc \ {new} : /\ k'.status[q] = k.status[q] /\ k'.ppid[q] = k.ppid[q]
                                 /\ k'.pid[q] = k.pid[q]
                                 /\ q # p => k'.children[q] = k.children[q]
  <2>1. /\ Quiet(k) /\ SleepersSound(k) /\ k.made < MaxProc
        /\ p \in k.table /\ k.ppid[p] = 1 /\ k.status[p] = "READY" /\ program \in Program
        /\ k' = k_process_create(k, p, program, NextPid(k)) /\ new = k.made + 1
    BY <1>1, <1>2, QuietFacts
  <2> QED BY ONLY <2>1, k_process_createQuiet
<1>4. k'.made = new /\ k.made \in Nat
  BY <1>1, QuietFacts DEF k_process_create, KernelInv, KernelState
<1>5. ~(new <= k.made) /\ k.made <= k'.made
  BY <1>4
<1>6. \A q \in Proc : q <= k.made => q # new
  BY <1>5
<1>7. Keeps(k, k')
  BY <1>3, <1>5, <1>6, QuietFacts DEF Keeps
<1>8. Lawful(k, k')
  BY <1>3, QuietFacts DEF Lawful, Ended
<1>9. Running'
  BY <1>1, <1>2, <1>3 DEF Running
<1>10. /\ pc'[new] = StartPlace(program)
       /\ pc'[p] = next
       /\ \A q \in Proc \ {new, p} : pc'[q] = pc[q]
  BY <1>1, <1>2, <1>3, QuietFacts
<1>11. Places'
  <2>1. StartPlace(program) \notin {"enrol", "block", "resumed"}
    BY DEF StartPlace
  <2>2. ASSUME NEW q \in k'.table, pc'[q] \in {"spawn", "sleep"}
        PROVE  /\ k'.ppid[q] = 1
               /\ pc'[q] = "sleep" => k'.children[q] = {}
    <3>1. CASE q = new
      BY <1>3, <1>10, <2>2, <3>1, QuietFacts
    <3>2. CASE q # new
      <4>1. q \in k.table /\ q \in Proc \ {new, p} /\ pc[q] = pc'[q]
        BY <1>3, <1>10, <2>2, <3>2, QuietFacts
      <4> QED BY <1>3, <2>2, <4>1 DEF QuietInv, Places
    <3> QED BY <3>1, <3>2
  <2>3. \A q \in Proc : pc'[q] \notin {"enrol", "block", "resumed"}
    BY <1>10, <2>1 DEF QuietInv, Places
  <2> QED BY <2>2, <2>3 DEF Places
<1> QED BY <1>1, <1>3, <1>5, <1>7, <1>8, <1>9, <1>11, QuietFacts

\* zombify and orphanify.
LEMMA SpawnChildQuiet ==
  ASSUME QuietSystem, QuietInv, Sound', NEW p \in Proc, SpawnChild(p)
  PROVE  QuietInv' /\ Lawful(k, k')
<1>1. pc[p] = "spawn" /\ cur = p /\ sh' = sh
  BY DEF SpawnChild, At
<1>2. p # Shell /\ p \in k.table
  BY <1>1, QuietFacts DEF ShellPlace, QuietInv, Running
<1>3. k.status[p] = "READY" /\ k.ppid[p] = 1
  BY <1>1, <1>2, QuietFacts DEF QuietInv, Running, Places
<1>4. PICK program \in {"zombie_child", "orphan_child"}, next \in {"loop", "return"} :
         p_spawn(p, program, next)
  BY DEF SpawnChild
<1>5. PICK new : new = k.made + 1
  OBVIOUS
<1>6. program \in Program /\ StartPlace(program) \notin {"sleep", "spawn"}
      /\ next \in Place \ {"link", "spawn", "sleep", "enrol", "block", "resumed"}
  BY DEF Program, StartPlace, Place
<1>7. /\ Quiet(k') /\ Keeps(k, k') /\ Lawful(k, k') /\ Running' /\ Places'
      /\ new # Shell /\ k'.power = k.power
      /\ pc' = [pc EXCEPT ![p] = next, ![new] = StartPlace(program)]
  BY <1>1, <1>3, <1>4, <1>5, <1>6, SpawnQuiet
<1>8. pc'[Shell] = pc[Shell]
  BY <1>2, <1>7, QuietFacts
<1>9. k'.made \in Nat
  BY <1>7 DEF Quiet, Settling, KernelInv, KernelState
<1>10. JobsKnown'
  BY <1>1, <1>7, <1>8, <1>9, JobsKept
<1>11. NoFault'
  BY <1>7, <1>8 DEF QuietInv, NoFault
<1> QED BY <1>7, <1>10, <1>11 DEF QuietInv

-----------------------------------------------------------------------------
\* A step in which the shell goes on.
LEMMA ShellGoesOnQuiet ==
  ASSUME QuietInv, Sound', cur = Shell, cur' = cur,
         Quiet(k'), Shrinks(k, k'), Lawful(k, k'), k'.status = k.status,
         NEW place \in ShellPlace \ {"block", "resumed"}, Goto(Shell, place),
         Nices = {} => place # "nice" /\ k'.power # "crashed", JobsKnown'
  PROVE  QuietInv' /\ Lawful(k, k')
<1>1. k'.status[Shell] = "READY" /\ Shell \in k'.table
  BY ShellTurn DEF Quiet, Settling, KernelInv
<1>2. Running'
  BY <1>1, ShellStaysReady
<1>3. Places'
  BY ShellPlaces
<1>4. pc'[Shell] = place
  BY QuietFacts DEF Goto
<1>5. NoFault'
  BY <1>4 DEF NoFault
<1> QED BY <1>2, <1>3, <1>5 DEF QuietInv

\* ... within a command, and neither it nor anybody else lives or dies.
LEMMA ShellSame ==
  ASSUME QuietInv, Sound', cur = Shell, cur' = cur, SameLives(k, k'),
         NEW place \in ShellPlace \ {"poll", "woken", "block", "resumed"},
         Goto(Shell, place),
         Nices = {} => place # "nice" /\ k'.power # "crashed",
         sh'.stopped = {}, sh'.how # "STOPPED", sh'.todo = {},
         sh'.jobs \subseteq k.table, \A j \in sh'.jobs : k.ppid[j] = 1,
         place \in {"nice", "launch", "wait"} =>
           sh'.job \in k.table \ sh'.jobs /\ k.ppid[sh'.job] = 1
  PROVE  QuietInv' /\ Lawful(k, k')
<1>1. KernelInv(k')
  BY DEF Sound, IInv
<1>2. /\ k'.table = k.table /\ k'.ppid = k.ppid /\ k'.status = k.status
  BY DEF SameLives
<1>3. Quiet(k') /\ Shrinks(k, k') /\ Lawful(k, k')
  BY <1>1, QuietFacts, SameLivesQuiet, SameKeeps
<1>4. k'.status[Shell] # "BLOCKED" /\ pc'[Shell] = place
  BY <1>2, ShellTurn, QuietFacts DEF Goto
<1>5. JobsKnown'
  BY <1>1, <1>2, <1>4, JobsInCommand
<1> QED BY <1>2, <1>3, <1>5, ShellGoesOnQuiet

\* The shell goes through the scheduler.
LEMMA ShellSwitches ==
  ASSUME QuietInv, Sound', cur = Shell, schedule(k), sh' = sh, pc[Shell] # "poll",
         NEW place \in {"read", "wait"}, Goto(Shell, place),
         place = "wait" => pc[Shell] = "launch"
  PROVE  QuietInv' /\ Lawful(k, k')
<1>1. /\ Quiet(k') /\ Keeps(k, k') /\ Shrinks(k, k') /\ Lawful(k, k')
      /\ Running' /\ k'.power = k.power /\ KernelInv(k') /\ Passing(k, k')
  BY QuietFacts, PassesNot, TimePasses
<1>2. pc'[Shell] = place /\ place \in ShellPlace \ {"poll", "woken", "block", "resumed"}
  BY QuietFacts DEF Goto, ShellPlace
<1>3. k'.status[Shell] # "BLOCKED"
  BY <1>1, ShellTurn DEF Keeps
<1>4. /\ sh.jobs \subseteq k'.table /\ \A j \in sh.jobs : k'.ppid[j] = 1
      /\ sh.stopped = {} /\ sh.how # "STOPPED" /\ sh.todo = {}
  BY <1>1, ShellTurn DEF Keeps, Passing
<1>5. place = "wait" => sh.job \in k'.table \ sh.jobs /\ k'.ppid[sh.job] = 1
  BY <1>1 DEF QuietInv, JobsKnown, Keeps, Passing
<1>6. JobsKnown'
  BY <1>1, <1>2, <1>3, <1>4, <1>5, JobsInCommand
<1>7. Places'
  BY <1>1, <1>2, ShellPlaces
<1>8. NoFault'
  BY <1>1, <1>2 DEF QuietInv, NoFault
<1> QED BY <1>1, <1>6, <1>7, <1>8 DEF QuietInv

\* checkForTerminalControl has nothing to do.
LEMMA PromptQuiet == ASSUME QuietInv, Sound', Prompt PROVE QuietInv' /\ Lawful(k, k')
<1>1. cur = Shell /\ pc[Shell] = "prompt" /\ Goto(Shell, "read") /\ sh' = sh
  BY DEF Prompt, At
<1>2. schedule(k)
  BY <1>1, ShellTurn DEF Prompt
<1> QED BY <1>1, <1>2, ShellSwitches

\* logout.
LEMMA LogoutQuiet == ASSUME QuietInv, Sound', Logout PROVE QuietInv' /\ Lawful(k, k')
<1>1. /\ cur = Shell /\ cur' = cur /\ pc[Shell] \in {"read", "command"}
      /\ k' = [k EXCEPT !.power = "off"] /\ pc' = pc /\ sh' = sh
  BY DEF Logout, At, Continue
<1>2. SameLives(k, k') /\ k'.power = "off"
  BY <1>1, QuietFacts DEF SameLives, KernelInv, KernelState
<1>3. PICK place : place = pc[Shell]
  OBVIOUS
<1>4. Goto(Shell, place) /\ place \in ShellPlace \ {"poll", "woken", "block", "resumed"}
      /\ place \in {"read", "command"}
  BY <1>1, <1>3, QuietFacts DEF Goto, ShellPlace
<1> QED BY <1>1, <1>2, <1>4, ShellTurn, ShellSame

\* An empty line.
LEMMA BlankQuiet == ASSUME QuietInv, Sound', Blank PROVE QuietInv' /\ Lawful(k, k')
<1>1. /\ cur = Shell /\ cur' = cur /\ pc[Shell] = "command" /\ k' = k
      /\ Goto(Shell, "prompt") /\ sh' = AtPrompt(sh.jobs, sh.stopped)
  BY DEF Blank, At, Continue, ToPrompt
<1>2. /\ sh'.stopped = {} /\ sh'.how = "READY" /\ sh'.todo = {} /\ sh'.jobs = sh.jobs
  BY <1>1, ShellTurn DEF AtPrompt
<1>3. "prompt" \in ShellPlace \ {"poll", "woken", "block", "resumed"}
  BY DEF ShellPlace
<1>4. SameLives(k, k') /\ (Nices = {} => k'.power # "crashed")
  BY <1>1 DEF SameLives, QuietInv, NoFault
<1> QED BY <1>1, <1>2, <1>3, <1>4, ShellTurn, ShellSame

-----------------------------------------------------------------------------
\* nice and nice_pid.
LEMMA NiceQuiet == ASSUME QuietInv, Sound', Nice PROVE QuietInv' /\ Lawful(k, k')
<1>1. /\ cur = Shell /\ cur' = cur /\ pc[Shell] = "nice" /\ sh' = sh
      /\ k' = p_nice(k, k.pid[sh.job], sh.prio) /\ Goto(Shell, "launch")
  BY DEF Nice, At, Continue
<1>2. sh.prio \in Int
  BY QuietFacts DEF ShellState
<1>3. SameLives(k, k')
  BY <1>1, <1>2, QuietFacts, p_niceQuiet
<1>4. Nices # {}
  BY <1>1 DEF QuietInv, NoFault
<1>5. "launch" \in ShellPlace \ {"poll", "woken", "block", "resumed"}
  BY DEF ShellPlace
<1>6. sh.job \in k.table \ sh.jobs /\ k.ppid[sh.job] = 1
  BY <1>1 DEF QuietInv, JobsKnown
<1> QED BY <1>1, <1>3, <1>4, <1>5, <1>6, ShellTurn, ShellSame

\* nice_pid.
LEMMA NicePidQuiet == ASSUME QuietInv, Sound', NicePid PROVE QuietInv' /\ Lawful(k, k')
<1>1. /\ cur = Shell /\ pc[Shell] = "command"
      /\ Goto(Shell, "prompt") /\ sh' = AtPrompt(sh.jobs, sh.stopped)
  BY DEF NicePid, At, ToPrompt
<1>2. PICK p \in k.table, n \in Nices : k' = p_nice(k, k.pid[p], n) /\ cur' = cur
  BY DEF NicePid, Continue
<1>3. n \in Int /\ Nices # {}
  BY ConstantsAssumption
<1>4. SameLives(k, k')
  BY <1>2, <1>3, QuietFacts, p_niceQuiet
<1>5. /\ sh'.stopped = {} /\ sh'.how = "READY" /\ sh'.todo = {} /\ sh'.jobs = sh.jobs
  BY <1>1, ShellTurn DEF AtPrompt
<1>6. "prompt" \in ShellPlace \ {"poll", "woken", "block", "resumed"}
  BY DEF ShellPlace
<1> QED BY <1>1, <1>2, <1>3, <1>4, <1>5, <1>6, ShellTurn, ShellSame

\* fg.
LEMMA ForegroundQuiet ==
  ASSUME QuietInv, Sound', NEW j \in Proc, Foreground(j)
  PROVE  QuietInv' /\ Lawful(k, k')
<1>1. /\ cur = Shell /\ cur' = cur /\ pc[Shell] = "command" /\ k' = k /\ j \in sh.jobs
      /\ Goto(Shell, "launch")
      /\ sh' = [sh EXCEPT !.jobs = @ \ {j}, !.stopped = @ \ {j},
                          !.job = j, !.mode = "resume"]
  BY DEF Foreground, At, Continue
<1>2. /\ sh'.stopped = {} /\ sh'.how # "STOPPED" /\ sh'.todo = {}
      /\ sh'.jobs = sh.jobs \ {j} /\ sh'.job = j
  BY <1>1, ShellTurn, QuietFacts DEF ShellState
<1>3. "launch" \in ShellPlace \ {"poll", "woken", "block", "resumed"}
  BY DEF ShellPlace
<1>4. SameLives(k, k') /\ (Nices = {} => k'.power # "crashed")
  BY <1>1 DEF SameLives, QuietInv, NoFault
<1> QED BY <1>1, <1>2, <1>3, <1>4, ShellTurn, ShellSame

\* The end of iter.
LEMMA LaunchQuiet == ASSUME QuietInv, Sound', Launch PROVE QuietInv' /\ Lawful(k, k')
<1>1. cur = Shell /\ pc[Shell] = "launch"
  BY DEF Launch, At
<1>2. sh.job \in k.table \ sh.jobs /\ k.ppid[sh.job] = 1
  BY <1>1 DEF QuietInv, JobsKnown
<1>3. Search(k, k.pid[sh.job]) = sh.job /\ sh.job # None
  BY <1>2, QuietFacts, SearchFinds
<1>4. CASE sh.mode = "bg"
  <2>1. /\ cur' = cur /\ k' = k /\ Goto(Shell, "prompt")
        /\ sh' = AtPrompt(sh.jobs \cup {sh.job}, sh.stopped)
    BY <1>4 DEF Launch, ToPrompt, Continue
  <2>2. /\ sh'.stopped = {} /\ sh'.how = "READY" /\ sh'.todo = {}
        /\ sh'.jobs = sh.jobs \cup {sh.job}
    BY <1>1, <2>1, ShellTurn DEF AtPrompt
  <2>3. "prompt" \in ShellPlace \ {"poll", "woken", "block", "resumed"}
    BY DEF ShellPlace
  <2>4. SameLives(k, k') /\ (Nices = {} => k'.power # "crashed")
    BY <2>1 DEF SameLives, QuietInv, NoFault
  <2> QED BY <1>1, <1>2, <2>1, <2>2, <2>3, <2>4, ShellTurn, ShellSame
<1>5. CASE sh.mode # "bg"
  <2>1. /\ schedule(p_kill(k, k.pid[sh.job], "S_SIGCONT"))
        /\ Goto(Shell, "wait") /\ sh' = sh
    BY <1>3, <1>5 DEF Launch
  <2>2. k.status[sh.job] # "STOPPED"
    BY <1>2, QuietFacts DEF Quiet, Settling, Lives
  <2>3. p_kill(k, k.pid[sh.job], "S_SIGCONT") = k
    BY <1>3, <2>2 DEF p_kill, k_process_kill
  <2> QED BY <1>1, <2>1, <2>3, ShellSwitches
<1> QED BY <1>4, <1>5

\* handleJob.
LEMMA CommandQuiet ==
  ASSUME QuietSystem, QuietInv, Sound', Command
  PROVE  QuietInv' /\ Lawful(k, k')
<1>1. cur = Shell /\ pc[Shell] = "command"
  BY DEF Command, At
<1>2. PICK program \in Programs, mode \in Modes, nice \in {{}} \cup {{n} : n \in Nices} :
         /\ p_spawn(Shell, program, IF nice = {} THEN "launch" ELSE "nice")
         /\ sh' = [sh EXCEPT !.job = k.made + 1, !.mode = mode,
                             !.prio = IF nice = {} THEN 0 ELSE CHOOSE n \in nice : TRUE]
  BY DEF Command, QuietSystem
<1>3. PICK next : next = IF nice = {} THEN "launch" ELSE "nice"
  OBVIOUS
<1>4. PICK new : new = k.made + 1
  OBVIOUS
<1>5. program \in Program
      /\ next \in Place \ {"link", "spawn", "sleep", "enrol", "block", "resumed"}
  BY <1>3, ConstantsAssumption DEF Place, ShellPlace
<1>6. k.ppid[Shell] = 1 /\ k.status[Shell] = "READY" /\ Shell \in Proc
  BY <1>1, QuietFacts, ShellTurn
<1>7. /\ Quiet(k') /\ Keeps(k, k') /\ Lawful(k, k') /\ Running' /\ Places'
      /\ new \in Proc \ k.table /\ new # Shell /\ ~(new <= k.made)
      /\ k'.table = k.table \cup {new} /\ k'.ppid[new] = k.pid[Shell]
      /\ k'.status[Shell] = k.status[Shell]
      /\ k'.power = k.power /\ cur' = cur
      /\ pc' = [pc EXCEPT ![Shell] = next, ![new] = StartPlace(program)]
  BY <1>1, <1>2, <1>3, <1>4, <1>5, <1>6, SpawnQuiet
<1>8. pc'[Shell] = next /\ next \in ShellPlace \ {"poll", "woken"}
  BY <1>3, <1>7, QuietFacts DEF ShellPlace
<1>9. /\ sh'.stopped = {} /\ sh'.how # "STOPPED" /\ sh'.todo = {}
      /\ sh'.jobs = sh.jobs /\ sh'.job = new
  BY <1>1, <1>2, <1>4, ShellTurn, QuietFacts DEF ShellState
<1>10. KernelInv(k')
  BY <1>7 DEF Quiet, Settling
<1>11. /\ sh'.jobs \subseteq k'.table
       /\ \A j \in sh'.jobs : k'.ppid[j] = 1
  BY <1>1, <1>7, <1>9, ShellTurn, QuietFacts DEF Keeps, QuietInv, JobsKnown
<1>12. sh'.job \in k'.table \ sh'.jobs /\ k'.ppid[sh'.job] = 1
  BY <1>1, <1>7, <1>9, ShellTurn, QuietFacts
<1>13. k'.status[Shell] # "BLOCKED"
  BY <1>6, <1>7
<1>14. JobsKnown'
  BY <1>8, <1>9, <1>10, <1>11, <1>12, <1>13, JobsInCommand
<1>15. NoFault'
  BY <1>2, <1>3, <1>7, <1>8 DEF QuietInv, NoFault
<1> QED BY <1>7, <1>14, <1>15 DEF QuietInv

-----------------------------------------------------------------------------
\* The kernel after a wait of the shell.
LEMMA AfterWait ==
  ASSUME QuietInv, NEW r, WaitOutcome(k, r), k' = r.k
  PROVE  /\ Quiet(k') /\ KernelInv(k') /\ Shrinks(k, k') /\ Lawful(k, k')
         /\ k'.status = k.status /\ k'.power = k.power
         /\ k'.pid = k.pid /\ k'.ppid = k.ppid /\ k'.made = k.made
         /\ \/ k'.table = k.table
            \/ \E n \in k.table \ {Shell} :
                  /\ Ended(k, n) /\ k'.table = k.table \ {n}
                  /\ r.pid = k.pid[n] /\ r.pid # 0 /\ r.status = k.status[n]
<1>1. Quiet(k') /\ KernelInv(k')
  BY DEF WaitOutcome, Quiet, Settling
<1>2. CASE SameLives(k, k') /\ k'.power = k.power
  BY <1>1, <1>2, QuietFacts, SameKeeps DEF SameLives
<1>3. ASSUME NEW n \in k.table \ {Shell}, Ended(k, n), Buried(k, k', n),
             r.pid = k.pid[n], r.pid # 0, r.status = k.status[n]
      PROVE  /\ Shrinks(k, k') /\ Lawful(k, k')
             /\ k'.status = k.status /\ k'.power = k.power
             /\ k'.pid = k.pid /\ k'.ppid = k.ppid /\ k'.made = k.made
             /\ k'.table = k.table \ {n}
  BY <1>3, QuietFacts, BuriedLawful DEF Buried
<1> QED BY <1>1, <1>2, <1>3 DEF WaitOutcome

\* The first call of pollJobChanges.
LEMMA PollQuiet == ASSUME QuietInv, Sound', Poll PROVE QuietInv' /\ Lawful(k, k')
<1>1. PICK r : r = p_waitpid_any(k, Shell)
  OBVIOUS
<1>2. /\ cur = Shell /\ pc[Shell] = "read" /\ k' = r.k /\ cur' = cur
      /\ IF r.pid > 0 /\ sh.jobs # {}
           THEN /\ Goto(Shell, "poll")
                /\ sh' = [sh EXCEPT !.todo = sh.jobs, !.found = r.pid, !.how = r.status]
           ELSE Goto(Shell, "command") /\ sh' = sh
  BY <1>1 DEF Poll, At, Continue
<1>3. WaitOutcome(k, r)
  BY <1>1, <1>2, QuietFacts, ShellTurn, p_waitpid_anyOutcome
<1>4. /\ Quiet(k') /\ KernelInv(k') /\ Shrinks(k, k') /\ Lawful(k, k')
      /\ k'.status = k.status /\ k'.power = k.power
      /\ k'.pid = k.pid /\ k'.ppid = k.ppid /\ k'.made = k.made
      /\ \/ k'.table = k.table
         \/ \E n \in k.table \ {Shell} :
               /\ Ended(k, n) /\ k'.table = k.table \ {n}
               /\ r.pid = k.pid[n] /\ r.pid # 0 /\ r.status = k.status[n]
  BY <1>2, <1>3, AfterWait
<1>5. /\ sh.jobs \subseteq k.table /\ sh.todo = {} /\ sh.stopped = {} /\ sh.how # "STOPPED"
      /\ k.status[Shell] = "READY" /\ \A j \in sh.jobs : k.ppid[j] = 1
  BY <1>2, ShellTurn
<1>6. Nices = {} => k'.power # "crashed"
  BY <1>4 DEF QuietInv, NoFault
<1>7. CASE r.pid > 0 /\ sh.jobs # {}
  <2>1. /\ Goto(Shell, "poll") /\ sh'.jobs = sh.jobs /\ sh'.todo = sh.jobs
        /\ sh'.found = r.pid /\ sh'.how = r.status /\ sh'.stopped = {}
    BY <1>2, <1>5, <1>7, QuietFacts DEF ShellState
  <2>2. r.status # "STOPPED" /\ pc'[Shell] = "poll"
    BY <1>3, <2>1, QuietFacts DEF WaitOutcome, Goto
  <2>3. \A j \in sh.jobs : /\ j <= k'.made
                           /\ \/ j \in k'.table
                              \/ k.pid[j] = r.pid /\ r.status \in {"EXITED", "SIGNALED"}
    BY <1>4, <1>5, QuietFacts DEF Ended, KernelInv
  <2>4. \A i, j \in sh.jobs : k'.pid[i] = k'.pid[j] => i = j
    BY <1>4 DEF QuietInv, JobsKnown
  <2>5. JobsKnown'
    BY <1>4, <1>5, <2>1, <2>2, <2>3, <2>4 DEF JobsKnown
  <2>6. "poll" \in ShellPlace \ {"block", "resumed"}
    BY DEF ShellPlace
  <2> QED BY <1>2, <1>4, <1>6, <2>1, <2>5, <2>6, ShellGoesOnQuiet
<1>8. CASE ~(r.pid > 0 /\ sh.jobs # {})
  <2>1. Goto(Shell, "command") /\ sh' = sh /\ pc'[Shell] = "command"
    BY <1>2, <1>8, QuietFacts DEF Goto
  <2>2. sh.jobs \subseteq k'.table
    <3>1. CASE sh.jobs = {}
      BY <3>1
    <3>2. CASE ~(r.pid > 0)
      <4>1. ASSUME NEW n \in k.table, r.pid = k.pid[n], r.pid # 0 PROVE FALSE
        <5>1. k.pid[n] \in Nat
          BY QuietFacts, TableFacts
        <5> QED BY <3>2, <4>1, <5>1
      <4> QED BY <1>4, <1>5, <4>1
    <3> QED BY <1>8, <3>1, <3>2
  <2>3. "command" \in ShellPlace \ {"poll", "woken", "block", "resumed"}
    BY DEF ShellPlace
  <2>4. JobsKnown'
    BY <1>4, <1>5, <2>1, <2>2, <2>3, JobsInCommand
  <2> QED BY <1>2, <1>4, <1>6, <2>1, <2>3, <2>4, ShellGoesOnQuiet
<1> QED BY <1>7, <1>8

\* A wait without hanging reports the process asked for, or nobody.
LEMMA NohangReports ==
  ASSUME NEW s, KernelInv(s), NEW x
  PROVE  p_waitpid_nohang(s, Shell, x).pid \in {0, x}
<1>1. Search(s, x) # None => s.pid[Search(s, x)] = x
  BY SearchResult
<1> QED BY <1>1 DEF p_waitpid_nohang, Nothing, Result, ReapZombie, Report

\* A visit of pollJobChanges.
LEMMA PollJobQuiet ==
  ASSUME QuietInv, Sound', NEW j \in Proc, PollJob(j)
  PROVE  QuietInv' /\ Lawful(k, k')
<1>1. PICK r : r = p_waitpid_nohang(k, Shell, k.pid[j])
  OBVIOUS
<1>2. PICK mine : mine = (sh.found = k.pid[j] \/ r.pid = k.pid[j])
  OBVIOUS
<1>3. PICK halted : halted = (mine /\ "STOPPED" \in {r.status, sh.how})
  OBVIOUS
<1>4. PICK ended : ended = (mine /\ ~halted
                            /\ {r.status, sh.how} \cap {"EXITED", "SIGNALED"} # {})
  OBVIOUS
<1>5. PICK jobs : jobs = IF ended THEN sh.jobs \ {j} ELSE sh.jobs
  OBVIOUS
<1>6. PICK stopped : stopped = IF ended THEN sh.stopped \ {j}
                               ELSE IF halted THEN sh.stopped \cup {j} ELSE sh.stopped
  OBVIOUS
<1>7. /\ cur = Shell /\ pc[Shell] = "poll" /\ j \in sh.todo /\ k' = r.k /\ cur' = cur
      /\ IF sh.todo = {j}
           THEN Goto(Shell, "command") /\ sh' = AtPrompt(jobs, stopped)
           ELSE /\ pc' = pc
                /\ sh' = [sh EXCEPT !.jobs = jobs, !.stopped = stopped,
                                    !.todo = @ \ {j}]
  BY <1>1, <1>2, <1>3, <1>4, <1>5, <1>6 DEF PollJob, At, Continue
<1>8. /\ JobsKnown /\ j \in sh.jobs /\ j # Shell /\ sh.jobs \subseteq Proc
      /\ k.status[Shell] = "READY" /\ k.pid[j] # 1
  BY <1>7, QuietFacts, ShellTurn DEF QuietInv, JobsKnown
<1>9. WaitOutcome(k, r) /\ r.pid \in {0, k.pid[j]}
  BY <1>1, <1>7, <1>8, QuietFacts, ShellTurn, p_waitpid_nohangOutcome, NohangReports
<1>10. /\ Quiet(k') /\ KernelInv(k') /\ Shrinks(k, k') /\ Lawful(k, k')
       /\ k'.status = k.status /\ k'.power = k.power
       /\ k'.pid = k.pid /\ k'.ppid = k.ppid /\ k'.made = k.made
       /\ \/ k'.table = k.table
          \/ \E n \in k.table \ {Shell} :
                /\ Ended(k, n) /\ k'.table = k.table \ {n}
                /\ r.pid = k.pid[n] /\ r.pid # 0 /\ r.status = k.status[n]
  BY <1>7, <1>9, AfterWait
<1>11. r.status # "STOPPED" /\ sh.how # "STOPPED" /\ sh.stopped = {}
  BY <1>8, <1>9 DEF WaitOutcome, JobsKnown
<1>12. stopped = {} /\ jobs \subseteq sh.jobs
  BY <1>3, <1>5, <1>6, <1>11
<1>13. j \in jobs => j \in k'.table
  <2>1. CASE j \notin k.table
    <3>1. ended
      BY <1>2, <1>3, <1>4, <1>8, <1>11, <2>1 DEF JobsKnown
    <3> QED BY <1>5, <3>1
  <2>2. ASSUME NEW n \in k.table, Ended(k, n), k'.table = k.table \ {n},
               r.pid = k.pid[n], r.pid # 0, r.status = k.status[n], j \in k.table
        PROVE  j \notin jobs
    <3>1. ended
      BY <1>2, <1>3, <1>4, <1>9, <1>11, <2>2 DEF Ended
    <3> QED BY <1>5, <3>1
  <2>3. CASE j \in k.table
    BY <1>10, <2>2, <2>3
  <2> QED BY <2>1, <2>3
<1>14. \A i \in jobs : /\ k'.ppid[i] = 1 /\ i <= k'.made
                       /\ \/ i \in k'.table
                          \/ /\ i \in sh.todo \ {j} /\ k'.pid[i] = sh.found
                             /\ sh.how \in {"EXITED", "SIGNALED"}
  <2> TAKE i \in jobs
  <2>1. i \in sh.jobs /\ k'.ppid[i] = 1 /\ i <= k'.made
    BY <1>8, <1>10, <1>12 DEF JobsKnown
  <2>2. CASE i = j
    BY <1>13, <2>1, <2>2
  <2>3. CASE i # j
    <3>1. k.pid[i] # k.pid[j]
      BY <1>8, <2>1, <2>3 DEF JobsKnown
    <3>2. i \in k.table => i \in k'.table
      BY <1>9, <1>10, <3>1
    <3> QED BY <1>8, <1>10, <2>1, <2>3, <3>2 DEF JobsKnown
  <2> QED BY <2>2, <2>3
<1>15. \A i, h \in jobs : k'.pid[i] = k'.pid[h] => i = h
  BY <1>8, <1>10, <1>12 DEF JobsKnown
<1>16. Nices = {} => k'.power # "crashed"
  BY <1>10 DEF QuietInv, NoFault
<1>17. CASE sh.todo = {j}
  <2>1. /\ Goto(Shell, "command") /\ pc'[Shell] = "command"
        /\ sh'.jobs = jobs /\ sh'.stopped = {} /\ sh'.todo = {} /\ sh'.how = "READY"
    BY <1>7, <1>12, <1>17, QuietFacts DEF Goto, AtPrompt
  <2>2. /\ jobs \subseteq k'.table
        /\ \A i \in jobs : k'.ppid[i] = 1
    BY <1>14, <1>17
  <2>3. "command" \in ShellPlace \ {"poll", "woken", "block", "resumed"}
    BY DEF ShellPlace
  <2>4. JobsKnown'
    BY <1>8, <1>10, <2>1, <2>2, <2>3, JobsInCommand
  <2> QED BY <1>7, <1>10, <1>16, <2>1, <2>3, <2>4, ShellGoesOnQuiet
<1>18. CASE sh.todo # {j}
  <2>1. /\ Goto(Shell, "poll") /\ pc'[Shell] = "poll"
        /\ sh'.jobs = jobs /\ sh'.stopped = {} /\ sh'.todo = sh.todo \ {j}
        /\ sh'.found = sh.found /\ sh'.how = sh.how
    <3>1. pc' = pc /\ sh' = [sh EXCEPT !.jobs = jobs, !.stopped = stopped,
                                      !.todo = @ \ {j}]
      BY <1>7, <1>18
    <3>2. Goto(Shell, "poll") /\ pc'[Shell] = "poll"
      BY <1>7, <3>1, QuietFacts DEF Goto
    <3>3. sh \in ShellState
      BY QuietFacts
    <3>4. /\ sh'.jobs = jobs /\ sh'.stopped = stopped /\ sh'.todo = sh.todo \ {j}
          /\ sh'.found = sh.found /\ sh'.how = sh.how
      BY ONLY <3>1, <3>3 DEF ShellState
    <3> QED BY <1>12, <3>2, <3>4
  <2>2. sh.todo \ {j} \subseteq jobs
    BY <1>5, <1>8 DEF JobsKnown
  <2>3. JobsKnown'
    BY <1>8, <1>10, <1>11, <1>14, <1>15, <2>1, <2>2 DEF JobsKnown
  <2>4. "poll" \in ShellPlace \ {"block", "resumed"}
    BY DEF ShellPlace
  <2> QED BY <1>7, <1>10, <1>16, <2>1, <2>3, <2>4, ShellGoesOnQuiet
<1> QED BY <1>17, <1>18

-----------------------------------------------------------------------------
\* The loop of putJobInForeground.
LEMMA WaitedQuiet ==
  ASSUME QuietInv, Sound', cur = Shell, cur' = cur, pc[Shell] \in {"wait", "woken"},
         NEW r, WaitOutcome(k, r), r.pid \in {0, k.pid[sh.job]}, k' = r.k,
         Waited(r.status)
  PROVE  QuietInv' /\ Lawful(k, k')
<1>1. /\ Quiet(k') /\ KernelInv(k') /\ Shrinks(k, k') /\ Lawful(k, k')
      /\ k'.status = k.status /\ k'.power = k.power
      /\ k'.pid = k.pid /\ k'.ppid = k.ppid /\ k'.made = k.made
      /\ \/ k'.table = k.table
         \/ \E n \in k.table \ {Shell} :
               /\ Ended(k, n) /\ k'.table = k.table \ {n}
               /\ r.pid = k.pid[n] /\ r.pid # 0 /\ r.status = k.status[n]
  BY AfterWait
<1>2. /\ sh.jobs \subseteq k.table /\ sh.todo = {} /\ sh.stopped = {} /\ sh.how # "STOPPED"
      /\ k.status[Shell] = "READY" /\ \A j \in sh.jobs : k.ppid[j] = 1
  BY ShellTurn
<1>3. sh.job \in k.table \ sh.jobs /\ k.ppid[sh.job] = 1
  BY DEF QuietInv, JobsKnown
<1>4. \/ k'.table = k.table
      \/ k'.table = k.table \ {sh.job} /\ r.status \in {"EXITED", "SIGNALED"}
  BY <1>1, <1>3, QuietFacts, SamePid DEF Ended
<1>5. sh.jobs \subseteq k'.table /\ \A j \in sh.jobs : k'.ppid[j] = 1
  BY <1>1, <1>2, <1>3, <1>4
<1>6. Nices = {} => k'.power # "crashed"
  BY <1>1 DEF QuietInv, NoFault
<1>7. r.status # "STOPPED"
  BY DEF WaitOutcome
<1>8. CASE r.status \in {"EXITED", "SIGNALED"}
  <2>1. /\ Goto(Shell, "prompt") /\ pc'[Shell] = "prompt"
        /\ sh'.jobs = sh.jobs /\ sh'.stopped = {} /\ sh'.todo = {} /\ sh'.how = "READY"
    BY <1>2, <1>8, QuietFacts DEF Waited, ToPrompt, Goto, AtPrompt
  <2>2. "prompt" \in ShellPlace \ {"poll", "woken", "block", "resumed"}
    BY DEF ShellPlace
  <2>3. JobsKnown'
    BY <1>1, <1>2, <1>5, <2>1, <2>2, JobsInCommand
  <2> QED BY <1>1, <1>6, <2>1, <2>2, <2>3, ShellGoesOnQuiet
<1>9. CASE r.status \notin {"EXITED", "SIGNALED"}
  <2>1. /\ Goto(Shell, "wait") /\ pc'[Shell] = "wait"
        /\ sh'.jobs = sh.jobs /\ sh'.stopped = {} /\ sh'.todo = {} /\ sh'.how # "STOPPED"
        /\ sh'.job = sh.job
    BY <1>2, <1>7, <1>9, QuietFacts DEF Waited, Goto, ShellState
  <2>2. "wait" \in ShellPlace \ {"poll", "woken", "block", "resumed"}
    BY DEF ShellPlace
  <2>3. sh'.job \in k'.table \ sh'.jobs /\ k'.ppid[sh'.job] = 1
    BY <1>1, <1>3, <1>4, <1>9, <2>1
  <2>4. JobsKnown'
    BY <1>1, <1>2, <1>5, <2>1, <2>2, <2>3, JobsInCommand
  <2> QED BY <1>1, <1>6, <2>1, <2>2, <2>4, ShellGoesOnQuiet
<1> QED BY <1>8, <1>9

\* Back from the switch.
LEMMA WokenQuiet == ASSUME QuietInv, Sound', Woken PROVE QuietInv' /\ Lawful(k, k')
<1>1. PICK now : now = IF Changed(k, sh.child) THEN Report(k, sh.child) ELSE Nothing(k)
  OBVIOUS
<1>2. /\ cur = Shell /\ pc[Shell] = "woken" /\ k' = now.k /\ cur' = cur
      /\ Waited(now.status)
  BY <1>1 DEF Woken, At, Continue
<1>3. sh.child = sh.job
  BY <1>2 DEF QuietInv, JobsKnown
<1>4. sh.job \in Proc \ {Shell} /\ k.fg = Shell
  BY <1>2, ShellTurn, QuietFacts, ShellFacts
<1>5. WaitOutcome(k, now)
  BY <1>1, <1>3, <1>4, QuietFacts, NothingOutcome, ReportOutcome
<1>6. now.pid \in {0, k.pid[sh.job]}
  BY <1>1, <1>3 DEF Nothing, Report, Result
<1> QED BY <1>2, <1>5, <1>6, WaitedQuiet

\* A dead child of the shell is among its zombies.
LEMMA EndedIsZombie ==
  ASSUME NEW s, Quiet(s), NEW p \in s.table, Ended(s, p), s.ppid[p] = 1
  PROVE  IsZombieOf(s, Shell, s.pid[p])
<1>1. PICK q \in s.table : \E z \in s.zombies[q] : z.of = p
  BY DEF Quiet, Settling, Families
<1>2. PICK z \in s.zombies[q] : z.of = p
  BY <1>1
<1>3. p \in s.children[q]
  BY <1>2 DEF Quiet, Settling, Families
<1>4. s.pid[q] = 1
  BY <1>3 DEF Quiet, Settling, KernelInv
<1>5. q = Shell
  BY <1>4, TableFacts DEF Quiet, Settling
<1> QED BY <1>2, <1>5 DEF IsZombieOf

\* The shell blocks.
LEMMA BlockQuiet ==
  ASSUME QuietInv, Sound', cur = Shell, pc[Shell] = "wait", ~Ended(k, sh.job),
         NEW s, s = [k EXCEPT !.prev[sh.job] = k.status[sh.job]], Block(s),
         sh' = [sh EXCEPT !.child = sh.job]
  PROVE  QuietInv' /\ Lawful(k, k')
<1>1. /\ sh.jobs \subseteq k.table /\ sh.todo = {} /\ sh.stopped = {} /\ sh.how # "STOPPED"
      /\ k.status[Shell] = "READY" /\ \A j \in sh.jobs : k.ppid[j] = 1
      /\ k.fg = Shell
  BY ShellTurn
<1>2. sh.job \in k.table \ sh.jobs /\ k.ppid[sh.job] = 1 /\ sh.job \in Proc \ {Shell}
  BY QuietFacts, ShellFacts DEF QuietInv, JobsKnown
<1>3. KernelInv(s) /\ SameLives(k, s) /\ s.power = k.power
  <2>1. KernelInv(s)
    BY <1>2, QuietFacts, PrevInv
  <2>2. SameLives(k, s) /\ s.power = k.power
    BY QuietFacts DEF SameLives, KernelInv, KernelState
  <2> QED BY <2>1, <2>2
<1>4. Quiet(s)
  BY <1>3, QuietFacts, SameLivesQuiet
<1>5. PICK t : t = setForeground(s, s.pid[sh.job])
  OBVIOUS
<1>6. schedule(t) /\ Goto(Shell, "woken")
  BY <1>5 DEF Block
<1>7. /\ s.fg = Shell /\ sh.job \in s.table \ {Shell} /\ s.ppid[sh.job] = 1
      /\ ~Ended(s, sh.job)
  BY <1>1, <1>2, <1>3 DEF SameLives, Ended
<1>8. /\ Quiet(t) /\ t.fg = sh.job /\ t.table = s.table /\ t.ppid = s.ppid
      /\ t.pid = s.pid /\ t.children = s.children /\ t.power = s.power /\ t.made = s.made
      /\ t.status = [s.status EXCEPT ![Shell] = "BLOCKED"]
  BY ONLY <1>4, <1>5, <1>7, setForegroundQuiet
<1>9. Quiet(k') /\ Passing(t, k') /\ k'.table = t.table /\ Chosen(cur', k')
  BY <1>6, <1>8, scheduleQuiet
<1>10. KernelInv(k') /\ KernelInv(k) /\ k.status \in [Proc -> Status]
  BY <1>9, QuietFacts DEF Quiet, Settling, KernelInv, KernelState
<1>11. /\ k'.table = k.table /\ k'.ppid = k.ppid /\ k'.pid = k.pid /\ k'.made = k.made
       /\ k'.power = k.power /\ \A p \in Proc : k'.children[p] \subseteq k.children[p]
       /\ k'.status[Shell] = "BLOCKED" => k'.fg = sh.job
  BY <1>3, <1>8, <1>9 DEF Passing, SameLives
<1>12. \A p \in k.table : Ended(k, p) => Ended(k', p)
  <2>1. ASSUME NEW p \in k.table, Ended(k, p) PROVE Ended(t, p)
    BY <1>1, <1>3, <1>8, <1>10, <2>1, QuietFacts DEF SameLives, Ended
  <2> QED BY <1>9, <2>1, QuietFacts DEF Passing
<1>13. Lawful(k, k') /\ Shrinks(k, k')
  BY <1>1, <1>11, <1>12, QuietFacts DEF Lawful, Shrinks
<1>14. /\ sh'.jobs = sh.jobs /\ sh'.todo = {} /\ sh'.stopped = {} /\ sh'.how # "STOPPED"
       /\ sh'.job = sh.job /\ sh'.child = sh.job /\ pc'[Shell] = "woken"
  BY <1>1, <1>6, QuietFacts DEF ShellState, Goto
<1>15. JobsKnown'
  <2>1. \A j \in sh.jobs : j \in k'.table /\ k'.ppid[j] = 1 /\ j <= k'.made
    BY <1>1, <1>10, <1>11 DEF KernelInv
  <2>2. \A i, j \in sh.jobs : k'.pid[i] = k'.pid[j] => i = j
    BY <1>1, <1>10, <1>11, SamePid
  <2>3. sh.job \in k'.table \ sh.jobs /\ k'.ppid[sh.job] = 1
    BY <1>2, <1>11
  <2> QED BY <1>11, <1>14, <2>1, <2>2, <2>3 DEF JobsKnown
<1>16. Running' /\ Places'
  <2>1. "woken" \in ShellPlace \ {"block", "resumed"}
    BY DEF ShellPlace
  <2> QED BY <1>6, <1>9, <1>13, <2>1, ChosenRuns, ShellPlaces
<1>17. NoFault'
  BY <1>11, <1>14 DEF QuietInv, NoFault
<1> QED BY <1>9, <1>13, <1>15, <1>16, <1>17 DEF QuietInv

\* p_waitpid of putJobInForeground.
LEMMA WaitQuiet ==
  ASSUME QuietSystem, QuietInv, Sound', Wait
  PROVE  QuietInv' /\ Lawful(k, k')
<1>1. cur = Shell /\ pc[Shell] = "wait"
  BY DEF Wait, At
<1>2. sh.job \in k.table \ sh.jobs /\ k.ppid[sh.job] = 1 /\ sh.job \in Proc \ {Shell}
  BY <1>1, QuietFacts, ShellFacts DEF QuietInv, JobsKnown
<1>3. Search(k, k.pid[sh.job]) = sh.job
  BY <1>2, QuietFacts, SearchFinds
<1>4. PICK now : now = IF IsZombieOf(k, Shell, k.pid[sh.job]) THEN ReapZombie(k, sh.job)
                       ELSE IF Changed(k, sh.job) THEN Report(k, sh.job)
                       ELSE Nothing(k)
  OBVIOUS
<1>5. PICK s : s = [k EXCEPT !.prev[sh.job] = k.status[sh.job]]
  OBVIOUS
<1>6. IF now.pid # 0
        THEN Continue(now.k) /\ Waited(now.status)
        ELSE sh' = [sh EXCEPT !.child = sh.job] /\ Block(s)
  BY <1>3, <1>4, <1>5 DEF Wait, QuietSystem
<1>7. IsZombieOf(k, Shell, k.pid[sh.job]) => Ended(k, sh.job) /\ k.pid[sh.job] # 0
  BY <1>2, QuietFacts, ZombieFacts DEF Quiet, Settling
<1>8. k.fg = Shell /\ Quiet(k)
  BY <1>1, ShellTurn, QuietFacts
<1>9. WaitOutcome(k, now)
  BY <1>2, <1>4, <1>7, <1>8, NothingOutcome, ReportOutcome, ReapZombieOutcome
<1>10. now.pid \in {0, k.pid[sh.job]}
  BY <1>4 DEF Nothing, Report, ReapZombie, Result
<1>11. CASE now.pid # 0
  <2>1. k' = now.k /\ cur' = cur /\ Waited(now.status)
    BY <1>6, <1>11 DEF Continue
  <2> QED BY <1>1, <1>9, <1>10, <2>1, WaitedQuiet
<1>12. CASE now.pid = 0
  <2>1. ~IsZombieOf(k, Shell, k.pid[sh.job])
    BY <1>4, <1>7, <1>12 DEF ReapZombie, Result
  <2>2. ~Ended(k, sh.job)
    BY <1>2, <1>8, <2>1, EndedIsZombie
  <2> QED BY <1>1, <1>5, <1>6, <1>12, <2>2, BlockQuiet
<1> QED BY <1>11, <1>12

-----------------------------------------------------------------------------
\* The system starts quiet.
LEMMA InitQuiet == Init => QuietInv
<1> SUFFICES ASSUME Init PROVE QuietInv
  OBVIOUS
<1>1. Shell \in Proc /\ None \notin Proc /\ Shell # None
  BY MaxProcAssumption DEF Proc, Shell, None
<1>2. Sound /\ KernelInv(k)
  BY InitSound DEF Sound, IInv
<1>3. /\ k.table = {Shell} /\ k.queued = {Shell} /\ k.asleep = {} /\ k.made = 1
      /\ \A p \in Proc : k.status[p] = "READY" /\ k.children[p] = {} /\ k.zombies[p] = {}
      /\ k.ppid[Shell] = 1 /\ k.fg = Shell /\ k.power = "on"
  BY <1>1 DEF Init, InitKernel
<1>4. /\ cur = Shell /\ pc[Shell] = "prompt" /\ sh = AtPrompt({}, {})
      /\ \A p \in Proc : pc[p] \in {"prompt", "done"}
  BY <1>1 DEF Init
<1>5. \A p \in Proc : ~Ended(k, p)
  BY <1>3 DEF Ended
<1>6. Families(k)
  BY <1>1, <1>3, <1>5 DEF Families
<1>7. Lives(k) /\ Sleepers(k) /\ OnTop(k) /\ Awaited(k)
  BY <1>1, <1>3, <1>5 DEF Lives, Sleepers, OnTop, Awaited
<1>8. sh.jobs = {} /\ sh.stopped = {} /\ sh.todo = {} /\ sh.how = "READY"
  BY <1>4 DEF AtPrompt
<1>9. JobsKnown
  BY <1>1, <1>3, <1>4, <1>8 DEF JobsKnown
<1>10. Running /\ Places /\ NoFault
  BY <1>1, <1>3, <1>4 DEF Running, Places, NoFault
<1> QED BY <1>2, <1>6, <1>7, <1>9, <1>10 DEF QuietInv, Quiet, Settling

\* Every step keeps it quiet and is lawful.
LEMMA NextQuiet ==
  ASSUME QuietSystem, QuietInv, [Next]_vars
  PROVE  QuietInv' /\ (Lawful(k, k') \/ UNCHANGED vars)
<1>0. "link" \notin Windows
  BY DEF QuietSystem
<1>1. Sound'
  BY <1>0, NextSound DEF QuietInv
<1>2. CASE Tick
  BY <1>1, <1>2, TickQuiet
<1>3. ASSUME NEW signal \in Keys, Key(signal) PROVE QuietInv' /\ Lawful(k, k')
  BY <1>1, <1>3, KeyQuiet
<1>4. CASE ShellStep
  <2>1. ASSUME NEW j \in Proc, PollJob(j) \/ Foreground(j) \/ Background(j)
        PROVE  QuietInv' /\ Lawful(k, k')
    <3>1. ~Background(j)
      BY DEF Background, QuietInv, JobsKnown
    <3> QED BY <1>1, <2>1, <3>1, PollJobQuiet, ForegroundQuiet
  <2>2. CASE Prompt \/ Logout \/ Poll
    BY <1>1, <2>2, PromptQuiet, LogoutQuiet, PollQuiet
  <2>3. CASE Blank \/ Nice \/ NicePid \/ Command
    BY <1>1, <2>3, BlankQuiet, NiceQuiet, NicePidQuiet, CommandQuiet
  <2>4. CASE Resumed \/ BlockLate
    BY <2>4, QuietFacts DEF Resumed, BlockLate, At, QuietInv, Places
  <2>5. CASE Launch \/ Wait \/ Woken
    BY <1>1, <2>5, LaunchQuiet, WaitQuiet, WokenQuiet
  <2> QED BY <1>4, <2>1, <2>2, <2>3, <2>4, <2>5 DEF ShellStep
<1>5. ASSUME NEW p \in Proc, ProgramStep(p) PROVE QuietInv' /\ Lawful(k, k')
  <2>1. ~Link(p)
    BY QuietFacts DEF Link, At, IInv
  <2>2. ~Enrol(p)
    BY DEF Enrol, At, QuietInv, Places
  <2> QED BY <1>1, <1>5, <2>1, <2>2, SpawnChildQuiet, SleepingQuiet, KillQuiet,
             ReturnQuiet DEF ProgramStep
<1>6. CASE UNCHANGED vars
  <2>1. UNCHANGED <<k, cur, pc, sh, req, keys>>
    BY <1>6 DEF vars
  <2>2. JobsKnown' /\ Running' /\ Places' /\ NoFault' /\ Quiet(k')
    BY <2>1 DEF QuietInv, JobsKnown, Running, Places, NoFault
  <2> QED BY <1>1, <1>6, <2>2 DEF QuietInv
<1> QED BY <1>2, <1>3, <1>4, <1>5, <1>6 DEF Next, Halted

-----------------------------------------------------------------------------
\* A quiet system stays quiet: the families, the sleepers, the terminal and what
\* the shell knows of its jobs go together.
THEOREM AlwaysQuiet == ASSUME QuietSystem PROVE Spec => []QuietInv
<1>1. QuietInv /\ [Next]_vars => QuietInv'
  BY NextQuiet
<1> QED BY InitQuiet, <1>1, PTL DEF Spec

\* The ready queues hold the living and nobody else.
THEOREM LivingAreScheduled == ASSUME QuietSystem PROVE Spec => []ScheduledIffAlive
<1>1. QuietInv => ScheduledIffAlive
  BY DEF QuietInv, Quiet, Settling, Lives, Ended, Dead, ScheduledIffAlive
<1> QED BY <1>1, AlwaysQuiet, PTL

\* Every dead process of the table is a zombie of its parent.
THEOREM DeadCanBeReaped == ASSUME QuietSystem PROVE Spec => []DeadIsReapable
<1>1. ASSUME QuietInv, NEW p \in k.table, Dead(p)
      PROVE  \E q \in k.table : k.pid[q] = k.ppid[p] /\ IsZombieOf(k, q, k.pid[p])
  <2>1. Quiet(k) /\ Ended(k, p)
    BY <1>1 DEF QuietInv, Ended, Dead
  <2>2. PICK q \in k.table : \E z \in k.zombies[q] : z.of = p
    BY <2>1 DEF Quiet, Settling, Families
  <2>3. PICK z \in k.zombies[q] : z.of = p
    BY <2>2
  <2>4. p \in k.children[q]
    BY <2>1, <2>3 DEF Quiet, Settling, Families
  <2>5. k.pid[q] = k.ppid[p]
    BY <2>1, <2>4 DEF Quiet, Settling, KernelInv
  <2> QED BY <2>3, <2>5 DEF IsZombieOf
<1>2. QuietInv => DeadIsReapable
  BY <1>1 DEF DeadIsReapable
<1> QED BY <1>2, AlwaysQuiet, PTL

\* Whoever sleeps is in the sleep queue, where the clock counts for it.
THEOREM SleepersAreEnrolled == ASSUME QuietSystem PROVE Spec => []BlockedIsEnrolled
<1>1. QuietInv => BlockedIsEnrolled
  BY DEF QuietInv, Quiet, Settling, Sleepers, BlockedIsEnrolled
<1> QED BY <1>1, AlwaysQuiet, PTL

\* The shell has the terminal exactly while it does not wait.
THEOREM TerminalFollowsTheWait == ASSUME QuietSystem PROVE Spec => []ForegroundMatchesWait
<1>1. QuietInv => ForegroundMatchesWait
  BY DEF QuietInv, Quiet, Settling, OnTop, ForegroundMatchesWait
<1> QED BY <1>1, AlwaysQuiet, PTL

\* Whom a blocked shell waits for: the process it gave the terminal to.
LEMMA AwaitedChild ==
  ASSUME QuietInv, k.status[Shell] = "BLOCKED"
  PROVE  /\ sh.child = k.fg /\ sh.child # None /\ ~Ended(k, sh.child)
         /\ k.status[sh.child] # "STOPPED"
<1>1. sh.child = k.fg
  BY DEF QuietInv, JobsKnown
<1>2. k.fg \in Proc /\ k.fg # None
  BY QuietFacts, TableFacts
<1>3. ~Ended(k, k.fg)
  BY DEF QuietInv, Quiet, Settling, OnTop, Awaited
<1>4. k.status[k.fg] # "STOPPED"
  BY <1>2 DEF QuietInv, Quiet, Settling, Lives
<1> QED BY <1>1, <1>2, <1>3, <1>4

\* It waits for the living.
THEOREM ShellWaitsForTheLiving == ASSUME QuietSystem PROVE Spec => []WaitsForTheLiving
<1>1. QuietInv => WaitsForTheLiving
  BY AwaitedChild DEF WaitsForTheLiving, Ended, Dead
<1> QED BY <1>1, AlwaysQuiet, PTL

\* Without nice no failed search is dereferenced.
THEOREM NeverCrashes == ASSUME QuietSystem, Nices = {} PROVE Spec => []NoCrash
<1>1. QuietInv => NoCrash
  BY DEF QuietInv, NoFault, NoCrash
<1> QED BY <1>1, AlwaysQuiet, PTL

\* Death is final.
THEOREM TheDeadStayDead == ASSUME QuietSystem PROVE Spec => StaysDead
<1>1. QuietInv /\ [Next]_vars =>
        [\A p \in k.table : Dead(p) => k'.status[p] \in {"EXITED", "SIGNALED"}]_vars
  BY NextQuiet DEF Lawful, Ended, Dead
<1> QED BY <1>1, AlwaysQuiet, PTL DEF Spec, StaysDead

\* Only the process it waits for releases the shell.
THEOREM NoStrangerWakesTheShell == ASSUME QuietSystem PROVE Spec => NoSpuriousWakeup
<1>1. QuietInv /\ [Next]_vars =>
        [k.status[Shell] = "BLOCKED" /\ k'.status[Shell] # "BLOCKED" =>
           sh.child # None /\ k'.status[sh.child] \in {"STOPPED", "EXITED", "SIGNALED"}]_vars
  BY NextQuiet, AwaitedChild DEF Lawful, Ended
<1> QED BY <1>1, AlwaysQuiet, PTL DEF Spec, NoSpuriousWakeup

\* Nobody is reaped alive, unless its parent has died.
THEOREM TheLivingAreNotReaped == ASSUME QuietSystem PROVE Spec => ReapedIsDeadOrOrphan
<1>1. QuietInv /\ [Next]_vars =>
        [\A p \in k.table \ k'.table :
           Dead(p) \/ \E q \in k.table : k.pid[q] = k.ppid[p]
                                        /\ k'.status[q] \in {"EXITED", "SIGNALED"}]_vars
  BY NextQuiet DEF Lawful, Ended, Dead
<1> QED BY <1>1, AlwaysQuiet, PTL DEF Spec, ReapedIsDeadOrOrphan
==============================================================================

----------------------------- MODULE UserCalls -----------------------------
(***************************************************************************)
(* The process calls of user_level_funcs.c: p_kill, p_nice and p_waitpid,  *)
(* as far as the point where the caller is switched out.                   *)
(***************************************************************************)
EXTENDS Kernel

\* p_kill with a pid nobody has fails and changes nothing.
p_kill(k, x, signal) ==
  LET n == Search(k, x) IN IF n = None THEN k ELSE k_process_kill(k, n, signal)

\* Mutant: the process is pushed whether or not the queue had it.
p_nice_Untested(k, x, priority) ==
  LET n == Search(k, x)
  IN  IF n = None THEN k
      ELSE [k EXCEPT !.queued = @ \cup {n}, !.prio[n] = priority]

\* p_nice looks the process up once more, in the ready queue of its priority,
\* and does not test that result.
p_nice(k, x, priority) ==
  LET n == Search(k, x)
      slot == {q \in k.queued : SameSlot(k, n, q)}
  IN  IF n = None THEN k
      ELSE IF slot = {} THEN Crash(k)
      ELSE [k EXCEPT !.queued = (@ \ slot) \cup {n}, !.prio[n] = priority]

-----------------------------------------------------------------------------
(***************************************************************************)
(* p_waitpid returns a pid (0: nothing to report or no such process) and a *)
(* status; the callers initialise the status to 0, which is READY.         *)
(***************************************************************************)
Result(k, x, status) == [k |-> k, pid |-> x, status |-> status]
Nothing(k) == Result(k, 0, "READY")

Changed(k, p) == k.prev[p] # k.status[p]

\* Mutant: any process that is reported is cleaned up.
Report_Reaps(k, p) ==
  Result(k_process_cleanup(unblockIfForeground(k, p), p), k.pid[p], k.status[p])

\* A status change is remembered, and a wait in the foreground released.
Report(k, p) ==
  Result(unblockIfForeground([k EXCEPT !.prev[p] = k.status[p]], p),
         k.pid[p], k.status[p])

\* p is in the caller's zombies list.
ReapZombie(k, p) ==
  Result(clearZombiesAndChildren(k_process_cleanup(k, p), p),
         k.pid[p], k.status[p])

IsZombieOf(k, parent, x) == \E z \in k.zombies[parent] : k.pid[z.of] = x

\* p_waitpid(x, TRUE) for x > 0.
p_waitpid_nohang(k, caller, x) ==
  LET n == Search(k, x)
  IN  IF n = None THEN Nothing(k)
      ELSE IF IsZombieOf(k, caller, x) THEN ReapZombie(k, n)
      ELSE IF Changed(k, n) THEN Report(k, n)
      ELSE Nothing(k)

\* The newest of a set of children: the first in their list.
Newest(S) == CHOOSE p \in S : \A q \in S : q <= p

\* traverseChild(p): reap p's first zombie, or else report the first changed
\* child of p.  No program a child of p can run has children of its own, so
\* the recursion of the code ends there.
HasNews(k, p) ==
  Changed(k, p) \/ k.zombies[p] # {} \/ \E c \in k.children[p] : Changed(k, c)

traverseChild(k, p) ==
  LET x == k.pid[Head(k.zombies[p]).of]
      n == Search(k, x)
  IN  IF k.zombies[p] = {}
        THEN Report(k, Newest({c \in k.children[p] : Changed(k, c)}))
      ELSE IF n = None THEN Nothing(Crash(k))
      ELSE Result(k_process_cleanup([k EXCEPT !.prev[n] = k.status[n]], n),
                  x, k.status[n])

\* Mutant: the entry is popped and its process stays in the table.
ReapNewest_NoCleanup(k, caller) ==
  LET z == Head(k.zombies[caller])
  IN  Result([k EXCEPT !.zombies[caller] = @ \ {z}],
             k.pid[z.of], k.status[z.of])

\* The first branch of p_waitpid(-1): the caller's newest zombie.  The entry
\* is popped, then k_process_cleanup unlinks by pid once more.
ReapNewest(k, caller) ==
  LET z == Head(k.zombies[caller])
      k1 == [k EXCEPT !.zombies[caller] = @ \ {z}]
      n == Search(k1, k.pid[z.of])
  IN  IF n = None THEN Nothing(k1)
      ELSE Result(unblockIfForeground(k_process_cleanup(k1, n), n),
                  k.pid[n], k.status[n])

\* Mutant: the zombies are not looked at.
p_waitpid_any_NoZombies(k, caller) ==
  LET news == {c \in k.children[caller] : Changed(k, c)}
  IN  IF news = {} THEN Nothing(k) ELSE Report(k, Newest(news))

\* p_waitpid(-1, TRUE).
p_waitpid_any(k, caller) ==
  LET news == {c \in k.children[caller] : HasNews(k, c)}
      c == Newest(news)
  IN  IF k.zombies[caller] # {} THEN ReapNewest(k, caller)
      ELSE IF news = {} THEN Nothing(k)
      ELSE IF Changed(k, c) THEN Report(k, c)
      ELSE traverseChild(k, c)
=============================================================================

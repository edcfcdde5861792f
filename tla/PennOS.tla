------------------------------- MODULE PennOS -------------------------------
(***************************************************************************)
(* The running system: the shell, the programs it starts, the clock and    *)
(* the terminal, on the kernel of module Kernel.  One host thread runs     *)
(* everything; SIGALRM preempts the running context at any point, so a     *)
(* step of a process and a tick interleave freely.  A kernel call is one   *)
(* step, except for the calls named in Windows, in the middle of which a   *)
(* tick may arrive (nothing in the code masks it).                         *)
(***************************************************************************)
EXTENDS UserCalls

CONSTANTS
  Programs,     \* programs the user types
  Modes,        \* "fg", "bg": without and with a trailing &
  Nices,        \* priorities given to nice and nice_pid
  Signals,      \* signals the kill program sends
  Keys,         \* signals of the terminal keys: ^Z S_SIGSTOP, ^C S_SIGTERM
  MaxKeys,      \* bound: key presses
  SleepTicks,   \* arguments of p_sleep: 10 * atoi(argv[1]) or -2 (no argument)
  Windows       \* calls a tick may split, named by the place where it hits

ASSUME ConstantsAssumption ==
  /\ Programs \subseteq Program \ {"shell", "zombie_child", "orphan_child"}
  /\ Modes \subseteq {"fg", "bg"}
  /\ Nices \subseteq Int
  /\ Signals \subseteq Signal
  /\ Keys \subseteq {"S_SIGSTOP", "S_SIGTERM"}
  /\ MaxKeys \in Nat
  /\ SleepTicks \subseteq Int
  /\ Windows \subseteq {"enrol", "link", "block"}

VARIABLES
  k,      \* the kernel
  cur,    \* currProcess, None while the idle context runs
  pc,     \* where each process is
  sh,     \* the shell's job queue and locals
  req,    \* locals of a process inside k_process_create
  keys    \* key presses so far

vars == <<k, cur, pc, sh, req, keys>>

ShellPlace == {"prompt", "read", "poll", "command", "nice", "launch",
               "resumed", "wait", "block", "woken"}
Place == ShellPlace \cup
         {"loop", "return", "done", "sleep", "enrol", "spawn", "link", "kill"}

\* The first place of a program: a program whose only effect on the kernel is
\* to end starts at "return".
StartPlace(program) ==
  CASE program = "sleep" -> "sleep"
    [] program = "kill" -> "kill"
    [] program \in {"zombify", "orphanify"} -> "spawn"
    [] program \in {"busy", "orphan_child"} -> "loop"
    [] OTHER -> "return"

NoRequest == [program |-> "busy", pid |-> 0, next |-> "done"]
Request == [program : Program, pid : Nat, next : Place]

(***************************************************************************)
(* Jobs have one command here, so a job is the process p_spawn returned    *)
(* for it; its pid is what the code keeps.  stopped: jobs not isRunning.   *)
(***************************************************************************)
ShellState ==
  [ jobs    : SUBSET Proc,             \* the job queue
    stopped : SUBSET Proc,
    job     : Proc \cup {None},        \* the job being started or waited for
    mode    : {"fg", "bg", "resume"},  \* how: command, command &, or fg
    prio    : Int,                     \* argument of nice
    todo    : SUBSET Proc,             \* jobs pollJobChanges has yet to visit
    found   : Nat,                     \* pollPid
    how     : Status,                  \* pollStatus
    child   : Proc \cup {None} ]       \* childNode across a blocking wait

AtPrompt(jobs, stopped) ==
  [jobs |-> jobs, stopped |-> stopped, job |-> None, mode |-> "fg",
   prio |-> 0, todo |-> {}, found |-> 0, how |-> "READY", child |-> None]

Init ==
  /\ k = InitKernel
  /\ cur = Shell
  /\ pc = [p \in Proc |-> IF p = Shell THEN "prompt" ELSE "done"]
  /\ sh = AtPrompt({}, {})
  /\ req = [p \in Proc |-> NoRequest]
  /\ keys = 0

-----------------------------------------------------------------------------
(***************************************************************************)
(* Leaving a step: the caller keeps running, or switchContext(0) enters    *)
(* the scheduler, which ticks the sleepers and picks a ready process.      *)
(***************************************************************************)
At(p, place) == k.power = "on" /\ cur = p /\ pc[p] = place

Continue(k1) == k' = k1 /\ cur' = cur

schedule(k1) ==
  LET k2 == decrementTicks(k1)
  IN  k' = k2 /\ cur' \in Runnable(k2)

Goto(p, place) == pc' = [pc EXCEPT ![p] = place]

\* SIGALRM, also in the idle context.
Tick ==
  /\ k.power = "on"
  /\ schedule(k)
  /\ UNCHANGED <<pc, sh, req, keys>>

\* ^C or ^Z.  The handler runs on top of whatever process is running.  With
\* the shell in the foreground it only prints a prompt.
Key(signal) ==
  LET target == Search(k, k.pid[k.fg])
  IN  /\ k.power = "on"
      /\ keys < MaxKeys
      /\ k.pid[k.fg] # 1
      /\ target # None
      /\ schedule(k_process_kill(k, target, signal))
      /\ keys' = keys + 1
      /\ UNCHANGED <<pc, sh, req>>

-----------------------------------------------------------------------------
(***************************************************************************)
(* p_spawn, for the shell and for the programs that spawn.                 *)
(***************************************************************************)
Created(p, program, newPid, next) ==
  /\ Continue(k_process_create(k, p, program, newPid))
  /\ pc' = [pc EXCEPT ![p] = next, ![k.made + 1] = StartPlace(program)]

p_spawn(p, program, next) ==
  /\ k.made < MaxProc
  /\ IF "link" \in Windows
       THEN /\ Continue(k)
            /\ Goto(p, "link")
            /\ req' = [req EXCEPT ![p] = [program |-> program, next |-> next,
                                          pid |-> NextPid(k)]]
       ELSE /\ Created(p, program, NextPid(k), next)
            /\ req' = req

\* The rest of k_process_create after a tick in its window.
Link(p) ==
  /\ At(p, "link")
  /\ k.made < MaxProc
  /\ Created(p, req[p].program, req[p].pid, req[p].next)
  /\ req' = [req EXCEPT ![p] = NoRequest]
  /\ sh' = IF p = Shell THEN [sh EXCEPT !.job = k.made + 1] ELSE sh
  /\ keys' = keys

\* zombify spawns and loops, orphanify spawns and returns.
SpawnChild(p) ==
  /\ At(p, "spawn")
  /\ IF k.prog[p] = "zombify"
       THEN p_spawn(p, "zombie_child", "loop")
       ELSE p_spawn(p, "orphan_child", "return")
  /\ UNCHANGED <<sh, keys>>

\* createSleep: p_sleep blocks the caller and enrols it, but does not switch.
Sleep(p) ==
  /\ At(p, "sleep")
  /\ \E n \in SleepTicks :
       LET k1 == [k EXCEPT !.status[p] = "BLOCKED", !.ticks[p] = n]
       IN  IF "enrol" \in Windows
             THEN Continue(k1) /\ Goto(p, "enrol")
             ELSE Continue(addToAsleep(k1, p)) /\ Goto(p, "return")
  /\ UNCHANGED <<sh, req, keys>>

\* The rest of p_sleep after a tick in its window.
Enrol(p) ==
  /\ At(p, "enrol")
  /\ Continue(addToAsleep(k, p))
  /\ Goto(p, "return")
  /\ UNCHANGED <<sh, req, keys>>

\* killer: a signal to some process other than the shell, or to nobody.
Kill(p) ==
  /\ At(p, "kill")
  /\ Goto(p, "return")
  /\ \/ \E q \in k.table \ {Shell}, signal \in Signals :
          schedule(p_kill(k, k.pid[q], signal))
     \/ Continue(k)
  /\ UNCHANGED <<sh, req, keys>>

\* The program's function returns into schedule().  An indefinite sleeper
\* falls through to the choice of the next process; the others are retired
\* and go through switchContext, a second entry of the scheduler.
Return(p) ==
  /\ At(p, "return")
  /\ Goto(p, "done")
  /\ LET k1 == decrementTicks(k)
     IN  IF k1.ticks[p] = -2
           THEN k' = k1 /\ cur' \in Runnable(k1)
           ELSE schedule(RetireReturned(k1, p))
  /\ UNCHANGED <<sh, req, keys>>

-----------------------------------------------------------------------------
(***************************************************************************)
(* The shell: prompt, read, pollJobChanges, one command.                   *)
(***************************************************************************)
ToPrompt(jobs, stopped) ==
  /\ Goto(Shell, "prompt")
  /\ sh' = AtPrompt(jobs, stopped)

\* checkForTerminalControl.
Prompt ==
  /\ At(Shell, "prompt")
  /\ Goto(Shell, "read")
  /\ schedule(IF k.pid[Shell] # k.pid[k.fg]
                THEN k_process_kill(k, Shell, "S_SIGSTOP") ELSE k)
  /\ UNCHANGED <<sh, req, keys>>

\* getline meets the end of the input: p_exit of the shell ends PennOS.  The
\* command logout does the same, after the poll.
Logout ==
  /\ At(Shell, "read") \/ At(Shell, "command")
  /\ Continue([k EXCEPT !.power = "off"])
  /\ UNCHANGED <<pc, sh, req, keys>>

\* A line was read; the first call of pollJobChanges.
Poll ==
  /\ At(Shell, "read")
  /\ LET r == p_waitpid_any(k, Shell)
     IN  /\ Continue(r.k)
         /\ IF r.pid > 0 /\ sh.jobs # {}
              THEN /\ Goto(Shell, "poll")
                   /\ sh' = [sh EXCEPT !.todo = sh.jobs, !.found = r.pid,
                                       !.how = r.status]
              ELSE Goto(Shell, "command") /\ sh' = sh
  /\ UNCHANGED <<req, keys>>

\* pollJobChanges visits one job (the visits are independent of their order
\* up to which of two zombies is reaped first).
PollJob(j) ==
  /\ At(Shell, "poll")
  /\ j \in sh.todo
  /\ LET r == p_waitpid_nohang(k, Shell, k.pid[j])
         mine == sh.found = k.pid[j] \/ r.pid = k.pid[j]
         halted == mine /\ "STOPPED" \in {r.status, sh.how}
         ended == mine /\ ~halted
                       /\ {r.status, sh.how} \cap {"EXITED", "SIGNALED"} # {}
         jobs == IF ended THEN sh.jobs \ {j} ELSE sh.jobs
         stopped == IF ended THEN sh.stopped \ {j}
                    ELSE IF halted THEN sh.stopped \cup {j} ELSE sh.stopped
     IN  /\ Continue(r.k)
         /\ IF sh.todo = {j}
              THEN Goto(Shell, "command") /\ sh' = AtPrompt(jobs, stopped)
              ELSE /\ pc' = pc
                   /\ sh' = [sh EXCEPT !.jobs = jobs, !.stopped = stopped,
                                       !.todo = @ \ {j}]
  /\ UNCHANGED <<req, keys>>

\* An empty line, man, jobs, an unknown command.
Blank ==
  /\ At(Shell, "command")
  /\ Continue(k)
  /\ ToPrompt(sh.jobs, sh.stopped)
  /\ UNCHANGED <<req, keys>>

\* handleJob: spawn the program, with nice first give it a priority.
Command ==
  /\ At(Shell, "command")
  /\ \E program \in Programs, mode \in Modes, nice \in {{}} \cup {{n} : n \in Nices} :
       /\ p_spawn(Shell, program, IF nice = {} THEN "launch" ELSE "nice")
       /\ sh' = [sh EXCEPT !.job = IF "link" \in Windows THEN None ELSE k.made + 1,
                           !.mode = mode,
                           !.prio = IF nice = {} THEN 0 ELSE CHOOSE n \in nice : TRUE]
  /\ keys' = keys

Nice ==
  /\ At(Shell, "nice")
  /\ Continue(p_nice(k, k.pid[sh.job], sh.prio))
  /\ Goto(Shell, "launch")
  /\ UNCHANGED <<sh, req, keys>>

\* nice_pid of any process, the shell included.
NicePid ==
  /\ At(Shell, "command")
  /\ \E p \in k.table, n \in Nices : Continue(p_nice(k, k.pid[p], n))
  /\ ToPrompt(sh.jobs, sh.stopped)
  /\ UNCHANGED <<req, keys>>

\* fg takes the job out of the queue before it tries to continue it.
Foreground(j) ==
  /\ At(Shell, "command")
  /\ j \in sh.jobs
  /\ Continue(k)
  /\ Goto(Shell, "launch")
  /\ sh' = [sh EXCEPT !.jobs = @ \ {j}, !.stopped = @ \ {j},
                      !.job = j, !.mode = "resume"]
  /\ UNCHANGED <<req, keys>>

\* bg continues a stopped job, and then polls it.
Background(j) ==
  /\ At(Shell, "command")
  /\ j \in sh.stopped
  /\ IF Search(k, k.pid[j]) = None
       THEN Continue(k) /\ ToPrompt(sh.jobs, sh.stopped)
       ELSE /\ schedule(p_kill(k, k.pid[j], "S_SIGCONT"))
            /\ Goto(Shell, "resumed")
            /\ sh' = [sh EXCEPT !.job = j]
  /\ UNCHANGED <<req, keys>>

Resumed ==
  /\ At(Shell, "resumed")
  /\ Continue(p_waitpid_nohang(k, Shell, k.pid[sh.job]).k)
  /\ ToPrompt(sh.jobs, sh.stopped \ {sh.job})
  /\ UNCHANGED <<req, keys>>

\* The end of iter: queue a background job, or putJobInForeground, which
\* starts with S_SIGCONT.  If that fails fg gives the job up, and a new
\* command ends the shell.
Launch ==
  /\ At(Shell, "launch")
  /\ IF sh.mode = "bg"
       THEN Continue(k) /\ ToPrompt(sh.jobs \cup {sh.job}, sh.stopped)
     ELSE IF Search(k, k.pid[sh.job]) # None
       THEN /\ schedule(p_kill(k, k.pid[sh.job], "S_SIGCONT"))
            /\ Goto(Shell, "wait")
            /\ sh' = sh
     ELSE /\ Continue(IF sh.mode = "resume" THEN k
                      ELSE [k EXCEPT !.power = "off"])
          /\ ToPrompt(sh.jobs, sh.stopped)
  /\ UNCHANGED <<req, keys>>

\* The loop of putJobInForeground on the status a wait returned.
Waited(status) ==
  IF status \in {"EXITED", "SIGNALED"} THEN ToPrompt(sh.jobs, sh.stopped)
  ELSE IF status = "STOPPED"
    THEN ToPrompt(sh.jobs \cup {sh.job}, sh.stopped \cup {sh.job})
  ELSE Goto(Shell, "wait") /\ sh' = [sh EXCEPT !.child = None]

\* The end of the blocking p_waitpid: the awaited pid becomes foreground, its
\* parent blocks, and the shell is switched out.
Block(k1) ==
  /\ schedule(setForeground(k1, k1.pid[sh.job]))
  /\ Goto(Shell, "woken")

\* p_waitpid(pid, FALSE).  With no such process it fails with ECHILD, which
\* the loop ignores: the shell calls again and again, which is no step.
Wait ==
  LET n == Search(k, k.pid[sh.job])
      k1 == [k EXCEPT !.prev[n] = k.status[n]]
      now == IF IsZombieOf(k, Shell, k.pid[sh.job]) THEN ReapZombie(k, n)
             ELSE IF Changed(k, n) THEN Report(k, n)
             ELSE Nothing(k)
  IN  /\ At(Shell, "wait")
      /\ n # None
      /\ IF now.pid # 0
           THEN Continue(now.k) /\ Waited(now.status)
           ELSE /\ sh' = [sh EXCEPT !.child = n]
                /\ IF "block" \in Windows
                     THEN Continue(k1) /\ Goto(Shell, "block")
                     ELSE Block(k1)
      /\ UNCHANGED <<req, keys>>

\* The rest of p_waitpid after a tick in its window.
BlockLate ==
  /\ At(Shell, "block")
  /\ Block(k)
  /\ UNCHANGED <<sh, req, keys>>

\* Back from the switch.
Woken ==
  LET now == IF Changed(k, sh.child) THEN Report(k, sh.child) ELSE Nothing(k)
  IN  /\ At(Shell, "woken")
      /\ Continue(now.k)
      /\ Waited(now.status)
      /\ UNCHANGED <<req, keys>>

-----------------------------------------------------------------------------
ShellStep ==
  \/ Prompt \/ Logout \/ Poll \/ Blank \/ Command \/ Nice \/ NicePid
  \/ Resumed \/ Launch \/ Wait \/ BlockLate \/ Woken
  \/ \E j \in Proc : PollJob(j) \/ Foreground(j) \/ Background(j)

ProgramStep(p) ==
  SpawnChild(p) \/ Link(p) \/ Sleep(p) \/ Enrol(p) \/ Kill(p) \/ Return(p)

\* exit(0), or the host killed the program.
Halted == k.power # "on" /\ UNCHANGED vars

Next ==
  \/ Tick
  \/ \E signal \in Keys : Key(signal)
  \/ ShellStep
  \/ \E p \in Proc : ProgramStep(p)
  \/ Halted

Spec == Init /\ [][Next]_vars

-----------------------------------------------------------------------------
(***************************************************************************)
(* Safety.                                                                 *)
(***************************************************************************)
\* Every variable has its type.
TypeOK ==
  /\ k \in KernelState
  /\ cur \in Proc \cup {None}
  /\ pc \in [Proc -> Place]
  /\ sh \in ShellState
  /\ req \in [Proc -> Request]
  /\ keys \in 0..MaxKeys

\* The inductive invariant behind PidsAscending, QueuedInTable and
\* ChildrenInTable, for runs without the window "link": the kernel is sound,
\* the shell is never one of its own jobs and never at the place of a program,
\* and it knows the job and the child it waits for.
IInv ==
  /\ TypeOK
  /\ KernelInv(k)
  /\ pc[Shell] \in ShellPlace
  /\ \A p \in Proc : pc[p] # "link"
  /\ Shell \notin sh.jobs \cup sh.stopped \cup sh.todo \cup {sh.job, sh.child}
  /\ pc[Shell] \in {"nice", "launch", "resumed", "wait", "block", "woken"} =>
       sh.job # None
  /\ pc[Shell] \in {"block", "woken"} => sh.child # None

\* No two processes of the table have the same pid, and a later entry has a
\* greater one ("generate new pid", kernel.c:156): what queueSearch by pid,
\* and every list of pids, relies on.
PidsAscending ==
  \A p, q \in k.table : p < q => k.pid[p] < k.pid[q]

\* No ready queue holds a process that was reaped: getNextProcess would run a
\* pcb that is no longer in the table (kernel.c:188).
QueuedInTable == k.queued \subseteq k.table

\* A pid in a children list leads to a process of the table whose parent has
\* that list: p_waitpid(-1) and traverseChild use the search result without
\* testing it (user_level_funcs.c:199, kernel.c:246).
ChildrenInTable ==
  \A p \in k.table : \A c \in k.children[p] :
     c \in k.table /\ k.ppid[c] = k.pid[p]

Dead(p) == k.status[p] \in {"EXITED", "SIGNALED"}

\* A dead process of the table can be found by a wait: it is in the zombies
\* list of its parent, which is in the table (kernel.c:322).
DeadIsReapable ==
  \A p \in k.table : Dead(p) =>
     \E q \in k.table : k.pid[q] = k.ppid[p] /\ IsZombieOf(k, q, k.pid[p])

\* The scheduler never resumes a process whose function has returned: its
\* saved context is the middle of schedule() (kernel.c:418).
DoneNeverRuns == k.power = "on" /\ cur # None => pc[cur] # "done"

\* The terminal is the shell's exactly while the shell is not blocked in a
\* wait (setForeground and unblockParent always move the two together).
ForegroundMatchesWait ==
  k.power = "on" =>
    (k.fg = Shell <=> k.status[Shell] # "BLOCKED")

\* The kernel never dereferences a failed search.
NoCrash == k.power # "crashed"

\* A blocked shell waits for something that can still happen: the process it
\* waits for has not ended ("blocked until a child of the calling thread
\* changes state", user_level_funcs.h:15).
WaitsForTheLiving ==
  k.power = "on" /\ k.status[Shell] = "BLOCKED" =>
     sh.child # None /\ ~Dead(sh.child)

\* ... and it is not stopped, when only a signal from elsewhere could help.
WaitsForTheMoving ==
  k.power = "on" /\ k.status[Shell] = "BLOCKED" =>
     sh.child # None /\ k.status[sh.child] # "STOPPED"

\* A live process is in a ready queue, and only a live one: nothing ready is
\* forgotten by the scheduler, nothing dead is run (kernel.c:319).
ScheduledIffAlive ==
  k.power = "on" => \A p \in k.table : p \in k.queued <=> ~Dead(p)

\* A process that is switched out in a sleep is in the asleep queue: a tick of
\* the clock counts for nobody else ("blocked until ticks of the system clock
\* elapse, and then sets the thread to running", user_level_funcs.h:33).
BlockedIsEnrolled ==
  \A p \in k.table \ {Shell} :
     k.status[p] = "BLOCKED" /\ cur # p => \E n \in k.asleep : n.of = p

-----------------------------------------------------------------------------
(***************************************************************************)
(* What a step may not do.                                                 *)
(***************************************************************************)
\* A process that left the ready queues never comes back, whatever nice and
\* the signals do to it.
NeverRequeued ==
  [][\A p \in 1..k.made : p \notin k.queued => p \notin k'.queued]_vars

\* Death is final: no signal or timer makes a dead process anything else.
StaysDead ==
  [][\A p \in k.table : Dead(p) => k'.status[p] \in {"EXITED", "SIGNALED"}]_vars

\* The shell is released from a wait only by the process it waits for.
NoSpuriousWakeup ==
  [][k.status[Shell] = "BLOCKED" /\ k'.status[Shell] # "BLOCKED" =>
       sh.child # None /\ k'.status[sh.child] \in {"STOPPED", "EXITED", "SIGNALED"}]_vars

\* Only the dead are reaped, and what a dead process leaves behind.
ReapedIsDeadOrOrphan ==
  [][\A p \in k.table \ k'.table :
        Dead(p) \/ \E q \in k.table : k.pid[q] = k.ppid[p]
                                     /\ k'.status[q] \in {"EXITED", "SIGNALED"}]_vars

-----------------------------------------------------------------------------
(***************************************************************************)
(* Liveness.  The fairness is written out, since it is about the clock and *)
(* the processes rather than about single actions:                         *)
(*   - the clock ticks as long as a sleeper counts down;                   *)
(*   - the scheduler starves nobody that stays ready (BoundedWait of module *)
(*     RoundRobin);                                                        *)
(*   - a process that has the processor again and again gets on, since a   *)
(*     quantum of 100 ms is long for its next kernel call.                 *)
(* The shell gets on by itself only inside a command: what the user types, *)
(* and when, is not up to the system; UserTypes is assumed where it matters.*)
(***************************************************************************)
On == k.power = "on"

SleeperCounts ==
  \E n \in k.asleep : /\ k.status[n.of] \notin {"EXITED", "STOPPED"}
                      /\ k.ticks[n.of] >= 0

ClockTicks == []<>(~On \/ ~SleeperCounts) \/ []<><<Tick>>_vars

NoStarvation(p) == []<>(~On \/ p \notin Ready(k) \/ cur = p)

\* The place p is at has a next step, within the bounds.
CanStep(p) ==
  /\ On /\ cur = p
  /\ \/ pc[p] \in {"nice", "launch", "resumed", "block", "woken",
                    "return", "sleep", "enrol", "kill"}
     \/ pc[p] \in {"spawn", "link"} /\ k.made < MaxProc
     \/ pc[p] = "wait" /\ Search(k, k.pid[sh.job]) # None

Stepped(p) == cur = p /\ (pc'[p] # pc[p] \/ k'.prev # k.prev)

GetsOn(p) == []<>CanStep(p) => []<><<Stepped(p)>>_vars

FairSpec == Spec /\ ClockTicks /\ \A p \in Proc : NoStarvation(p) /\ GetsOn(p)

\* The user keeps typing.
Typing == On /\ cur = Shell /\ pc[Shell] \in {"prompt", "read", "poll", "command"}
UserTypes == []<>Typing => []<><<Typing /\ (pc' # pc \/ sh' # sh)>>_vars

\* A foreground command whose program ends gives the prompt back: the wakeup
\* of the shell is never lost.
PromptReturns == pc[Shell] = "wait" ~> pc[Shell] = "prompt"

\* A process that is about to sleep for a finite time ends, however many sleep
\* and in whatever order decrementTicks meets them ("blocked until ticks of the
\* system clock elapse", user_level_funcs.h:33).
SleepersEnd ==
  \A p \in Proc : pc[p] = "sleep" ~> (Dead(p) \/ ~On)

\* Every zombie of the shell is reaped, as long as lines are read.
ZombiesReaped ==
  UserTypes => \A p \in Proc :
     (\E z \in k.zombies[Shell] : z.of = p)
        ~> (p \notin k.table \/ ~On)
=============================================================================

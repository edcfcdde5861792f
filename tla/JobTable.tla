------------------------------ MODULE JobTable ------------------------------
(***************************************************************************)
(* The job queue of the shell with its job numbers: how jobQueuePush gives *)
(* them out, and how fg and bg find a job by its number or without one.    *)
(* When a job stops or ends is left open here (module PennOS), and so is   *)
(* the order of the pointers (module LinkedQueue).                         *)
(***************************************************************************)
EXTENDS Sequences, Integers

CONSTANTS
  Job,      \* job structures; one that is not in the queue may be allocated
  NULL,
  Number,   \* atoi of the argument of fg and bg; -1: no argument
  MaxId     \* bound: job numbers

ASSUME JobAssumption == NULL \notin Job /\ Number \subseteq Int /\ MaxId \in Nat

VARIABLES
  q,        \* the job queue
  jobId,
  running,  \* the jobs with isRunning
  shell     \* "on", "exited", "crashed"

vars == <<q, jobId, running, shell>>

Init ==
  /\ q = <<>> /\ jobId = [j \in Job |-> 0] /\ running = {}
  /\ shell = "on"

Elements(s) == {s[i] : i \in 1..Len(s)}

\* The sequence without its i-th element.
Delete(s, i) == [m \in 1..(Len(s) - 1) |-> IF m < i THEN s[m] ELSE s[m + 1]]

\* What can be left of s when others have gone: the places f leads to.
Ascending(f) == \A i, m \in DOMAIN f : i < m => f[i] < f[m]
Rests(s) ==
  UNION {{[i \in 1..n |-> s[f[i]]] : f \in {g \in [1..n -> 1..Len(s)] : Ascending(g)}} :
           n \in 0..Len(s)}

-----------------------------------------------------------------------------
\* Mutant: the number of jobs is taken for the last number.
NextId_Count(s) == Len(s) + 1

\* The number of a job pushed onto the queue s.
NextId(s) == IF s = <<>> THEN 1 ELSE jobId[s[Len(s)]] + 1

\* jobQueuePush onto s, what is left of the queue.
Push(s, j) ==
  /\ NextId(s) <= MaxId
  /\ q' = Append(s, j)
  /\ jobId' = [jobId EXCEPT ![j] = NextId(s)]

\* No argument: the stopped job nearest to the back, or else the back.
Default ==
  LET stopped == {i \in 1..Len(q) : q[i] \notin running}
  IN  IF q = <<>> THEN NULL
      ELSE IF stopped = {} THEN q[Len(q)]
      ELSE q[CHOOSE i \in stopped : \A m \in stopped : m <= i]

\* The walk to job number n runs off the end of the queue, for fg, bg and jobs
\* alike.
OffEnd(n) == n > 0 /\ \A i \in 1..Len(q) : jobId[q[i]] < n

\* ... or stops at the first job that has n or more.
Walk(n) ==
  LET far == {i \in 1..Len(q) : jobId[q[i]] >= n}
      i == CHOOSE i \in far : \A m \in far : i <= m
  IN  IF jobId[q[i]] = n THEN q[i] ELSE NULL

\* handleJobControlCommand: the job found, unless OffEnd(n).
Found(n) == IF n = -1 THEN Default ELSE IF n > 0 THEN Walk(n) ELSE NULL

\* The walk dereferences NULL.
Crash ==
  /\ shell' = "crashed"
  /\ UNCHANGED <<q, jobId, running>>

-----------------------------------------------------------------------------
\* pollJobChanges: some jobs have ended, and others have stopped.
Poll ==
  /\ shell = "on"
  /\ q' \in Rests(q)
  /\ running' \in SUBSET (running \cap Elements(q'))
  /\ UNCHANGED <<jobId, shell>>

\* iter for a command line that ends in &.
StartInBackground(j) ==
  /\ shell = "on" /\ j \notin Elements(q)
  /\ Push(q, j)
  /\ running' = running \cup {j}
  /\ UNCHANGED shell

\* Mutant: a job in the foreground stays in the queue.
putJobInForeground_Queued(s, j, onFailure) ==
  /\ running' = running \ {j}
  /\ \/ shell' = onFailure /\ UNCHANGED <<q, jobId>>
     \/ shell' = shell /\ q' = s /\ jobId' = jobId
     \/ shell' = shell /\ Push(q, j)

\* putJobInForeground, where s is the queue without j: S_SIGCONT fails, the
\* job ends, or it stops and goes back into the queue.
putJobInForeground(s, j, onFailure) ==
  /\ running' = running \ {j}
  /\ \/ shell' = onFailure /\ q' = s /\ jobId' = jobId
     \/ shell' = shell /\ q' = s /\ jobId' = jobId
     \/ shell' = shell /\ Push(s, j)

\* iter for any other command line; without the job the shell gives up.
StartInForeground(j) ==
  /\ shell = "on" /\ j \notin Elements(q)
  /\ putJobInForeground(q, j, "exited")

\* fg: the job leaves the queue first, and for good if it cannot be continued.
handleForegroundCommand(n) ==
  /\ shell = "on"
  /\ IF OffEnd(n) THEN Crash
     ELSE \E i \in 1..Len(q) :
            q[i] = Found(n) /\ putJobInForeground(Delete(q, i), q[i], "on")

\* bg: only a stopped job, which stays where it is.
handleBackgroundCommand(n) ==
  /\ shell = "on"
  /\ IF OffEnd(n) THEN Crash
     ELSE \E i \in 1..Len(q) :
            /\ q[i] = Found(n) /\ q[i] \notin running
            /\ running' = running \cup {q[i]}
            /\ UNCHANGED <<q, jobId, shell>>

\* The shell is gone.
Halted == shell # "on" /\ UNCHANGED vars

Next ==
  \/ Poll
  \/ \E j \in Job : StartInBackground(j) \/ StartInForeground(j)
  \/ \E n \in Number : handleForegroundCommand(n) \/ handleBackgroundCommand(n)
  \/ Halted

Spec == Init /\ [][Next]_vars

-----------------------------------------------------------------------------
TypeOK ==
  /\ q \in Seq(Job) /\ jobId \in [Job -> Nat] /\ running \subseteq Job
  /\ shell \in {"on", "exited", "crashed"}

\* However jobs stop, end, are continued and come back: none is queued twice,
\* the numbers are positive and ascend along the queue, and only jobs of the queue count as
\* running in the background.
JobsSound ==
  /\ \A i \in 1..Len(q) : jobId[q[i]] > 0
  /\ \A i, m \in 1..Len(q) : i < m => q[i] # q[m] /\ jobId[q[i]] < jobId[q[m]]
  /\ running \subseteq Elements(q)

IInv == TypeOK /\ JobsSound

\* The number that "jobs" prints for a job leads fg and bg to that job: the
\* walk relies on ascending numbers (jobcontrol.c:48), whatever left the queue
\* in the middle and came back at the end.
NumberFindsJob ==
  \A i \in 1..Len(q) : ~OffEnd(jobId[q[i]]) /\ Found(jobId[q[i]]) = q[i]
=============================================================================

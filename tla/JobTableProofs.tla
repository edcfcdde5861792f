--------------------------- MODULE JobTableProofs ---------------------------
(***************************************************************************)
(* For any number of jobs: numbers ascend along the job queue, and the     *)
(* number of a job leads to that job.                                      *)
(***************************************************************************)
EXTENDS JobTable, TLAPS, SequenceTheorems

\* What the types say of a queue.
LEMMA QueueFacts ==
  ASSUME NEW s \in Seq(Job)
  PROVE  /\ Len(s) \in Nat /\ \A i \in 1..Len(s) : s[i] \in Job
         /\ Elements(s) \subseteq Job /\ (s = <<>> <=> Len(s) = 0)
BY LenProperties, ElementOfSeq, EmptySeq DEF Elements

\* The numbers of a queue s with the running jobs r are sound.
Sound(s, id, r) ==
  /\ \A i \in 1..Len(s) : id[s[i]] > 0
  /\ \A i, m \in 1..Len(s) : i < m => s[i] # s[m] /\ id[s[i]] < id[s[m]]
  /\ r \subseteq Elements(s)

\* Whatever jobs leave the queue, the order of the others stays.
LEMMA RestSound ==
  ASSUME NEW s \in Seq(Job), NEW id \in [Job -> Nat], NEW r, Sound(s, id, r),
         NEW t \in Rests(s)
  PROVE  t \in Seq(Job) /\ Elements(t) \subseteq Elements(s)
         /\ Sound(t, id, r \cap Elements(t))
<1>0. PICK n \in 0..Len(s) :
        \E f \in [1..n -> 1..Len(s)] : Ascending(f) /\ t = [i \in 1..n |-> s[f[i]]]
  BY DEF Rests
<1>1. PICK f \in [1..n -> 1..Len(s)] : Ascending(f) /\ t = [i \in 1..n |-> s[f[i]]]
  BY <1>0
<1>2. Len(s) \in Nat /\ n \in Nat /\ \A i \in 1..n : f[i] \in 1..Len(s) /\ s[f[i]] \in Job
  BY QueueFacts
<1>3. t \in Seq(Job)
  BY <1>1, <1>2, IsASeq
<1>4. Len(t) = n /\ \A i \in 1..n : t[i] = s[f[i]]
  BY <1>1, <1>2, <1>3, LenProperties
<1>5. Elements(t) \subseteq Elements(s)
  BY <1>2, <1>4 DEF Elements
<1>6. \A i, m \in 1..n : i < m => f[i] < f[m]
  BY <1>1 DEF Ascending
<1>7. ASSUME NEW i \in 1..Len(t), NEW m \in 1..Len(t), i < m
      PROVE  t[i] # t[m] /\ id[t[i]] < id[t[m]]
  <2>1. f[i] \in 1..Len(s) /\ f[m] \in 1..Len(s) /\ f[i] < f[m]
    BY <1>2, <1>4, <1>6, <1>7
  <2>2. t[i] = s[f[i]] /\ t[m] = s[f[m]]
    BY <1>4
  <2> QED BY <2>1, <2>2 DEF Sound
<1>8. \A i \in 1..Len(t) : id[t[i]] > 0
  BY <1>2, <1>4 DEF Sound
<1> QED BY <1>3, <1>5, <1>7, <1>8 DEF Sound

\* A queue without its k-th job.
LEMMA DeleteProperties ==
  ASSUME NEW s \in Seq(Job), NEW k \in 1..Len(s)
  PROVE  /\ Delete(s, k) \in Seq(Job) /\ Len(Delete(s, k)) = Len(s) - 1
         /\ \A i \in 1..(Len(s) - 1) :
              Delete(s, k)[i] = IF i < k THEN s[i] ELSE s[i + 1]
<1>1. Len(s) \in Nat /\ Len(s) - 1 \in Nat
  BY LenProperties
<1>2. \A i \in 1..(Len(s) - 1) : (IF i < k THEN s[i] ELSE s[i + 1]) \in Job
  BY <1>1, ElementOfSeq
<1>3. Delete(s, k) \in Seq(Job)
  BY <1>1, <1>2, IsASeq DEF Delete
<1>4. Len(Delete(s, k)) = Len(s) - 1
  BY <1>1, <1>3, LenProperties DEF Delete
<1> QED BY <1>3, <1>4 DEF Delete

\* ... is sound, and that job is not in it any more.
LEMMA DeleteSound ==
  ASSUME NEW s \in Seq(Job), NEW id \in [Job -> Nat], NEW r, Sound(s, id, r),
         NEW k \in 1..Len(s)
  PROVE  Sound(Delete(s, k), id, r \ {s[k]}) /\ s[k] \notin Elements(Delete(s, k))
<1> DEFINE d == Delete(s, k)
<1>1. Len(s) \in Nat /\ Len(d) = Len(s) - 1
      /\ \A i \in 1..(Len(s) - 1) : d[i] = IF i < k THEN s[i] ELSE s[i + 1]
  BY DeleteProperties, LenProperties
<1> HIDE DEF d
<1>2. ASSUME NEW i \in 1..Len(d), NEW m \in 1..Len(d), i < m
      PROVE  d[i] # d[m] /\ id[d[i]] < id[d[m]]
  <2> DEFINE a == IF i < k THEN i ELSE i + 1
             b == IF m < k THEN m ELSE m + 1
  <2>1. i \in Nat /\ m \in Nat /\ k \in Nat /\ i \in 1..(Len(s) - 1) /\ m \in 1..(Len(s) - 1)
    BY <1>1
  <2>2. a \in 1..Len(s) /\ b \in 1..Len(s) /\ a < b
    BY <1>1, <1>2, <2>1
  <2>3. d[i] = s[a] /\ d[m] = s[b]
    BY <1>1, <2>1
  <2> HIDE DEF a, b
  <2> QED BY <2>2, <2>3 DEF Sound
<1>20. ASSUME NEW i \in 1..Len(d) PROVE \E a \in 1..Len(s) : a # k /\ d[i] = s[a]
  <2>1. CASE i < k
    <3>1. i \in 1..Len(s) /\ d[i] = s[i] /\ i # k
      BY <1>1, <2>1
    <3> QED BY <3>1
  <2>2. CASE ~(i < k)
    <3>1. i + 1 \in 1..Len(s) /\ d[i] = s[i + 1] /\ i + 1 # k
      BY <1>1, <2>2
    <3> QED BY <3>1
  <2> QED BY <2>1, <2>2
<1>21. \A i \in 1..Len(d) : id[d[i]] > 0
  BY <1>20 DEF Sound
<1>3. \A i \in 1..Len(d) : d[i] # s[k]
  <2> TAKE i \in 1..Len(d)
  <2>1. PICK a \in 1..Len(s) : a # k /\ d[i] = s[a]
    BY <1>20
  <2>2. a < k \/ k < a
    BY <1>1, <2>1
  <2> QED BY <2>1, <2>2 DEF Sound
<1>4. ASSUME NEW j \in r, j # s[k] PROVE j \in Elements(d)
  <2>1. PICK i \in 1..Len(s) : s[i] = j
    BY DEF Sound, Elements
  <2>2. CASE i < k
    <3>1. i \in 1..Len(d) /\ d[i] = j
      BY <1>1, <2>1, <2>2
    <3> QED BY <3>1 DEF Elements
  <2>3. CASE i > k
    <3>1. i - 1 \in 1..Len(d) /\ d[i - 1] = j
      BY <1>1, <2>1, <2>3
    <3> QED BY <3>1 DEF Elements
  <2> QED BY <1>4, <2>1, <2>2, <2>3
<1>5. Sound(d, id, r \ {s[k]}) /\ s[k] \notin Elements(d)
  BY <1>2, <1>3, <1>4, <1>21 DEF Sound, Elements
<1> QED BY <1>5 DEF d

\* A job at the back, with the next number.
LEMMA PushSound ==
  ASSUME NEW s \in Seq(Job), NEW id \in [Job -> Nat], NEW r, Sound(s, id, r),
         NEW j \in Job, j \notin Elements(s),
         NEW n, n = IF s = <<>> THEN 1 ELSE id[s[Len(s)]] + 1
  PROVE  /\ Append(s, j) \in Seq(Job) /\ [id EXCEPT ![j] = n] \in [Job -> Nat]
         /\ Sound(Append(s, j), [id EXCEPT ![j] = n], r)
         /\ Sound(Append(s, j), [id EXCEPT ![j] = n], r \cup {j})
<1> DEFINE t == Append(s, j)
           new == [id EXCEPT ![j] = n]
<1>1. Len(s) \in Nat /\ \A i \in 1..Len(s) : s[i] \in Job /\ s[i] # j
  BY QueueFacts DEF Elements
<1>2. t \in Seq(Job) /\ Len(t) = Len(s) + 1 /\ t[Len(s) + 1] = j
      /\ \A i \in 1..Len(s) : t[i] = s[i]
  BY AppendProperties
<1>3. s # <<>> => Len(s) \in 1..Len(s)
  BY <1>1, QueueFacts
<1>4. n \in Nat /\ \A i \in 1..Len(s) : id[s[i]] < n
  <2>1. s # <<>> => id[s[Len(s)]] \in Nat
    BY <1>1, <1>3
  <2>2. \A i \in 1..Len(s) : id[s[i]] \in Nat /\ (i = Len(s) \/ id[s[i]] < id[s[Len(s)]])
    BY <1>1, <1>3 DEF Sound
  <2> QED BY <1>1, <1>3, <2>1, <2>2, QueueFacts
<1>41. n > 0
  <2>1. CASE s = <<>>
    BY <2>1
  <2>2. CASE s # <<>>
    <3>1. Len(s) \in 1..Len(s) /\ id[s[Len(s)]] \in Nat
      BY <1>1, <1>3, <2>2
    <3> QED BY <2>2, <3>1
  <2> QED BY <2>1, <2>2
<1>5. new \in [Job -> Nat] /\ new[j] = n /\ \A i \in 1..Len(s) : new[s[i]] = id[s[i]]
  BY <1>1, <1>4
<1> HIDE DEF t, new
<1>6. ASSUME NEW i \in 1..Len(t), NEW m \in 1..Len(t), i < m
      PROVE  t[i] # t[m] /\ new[t[i]] < new[t[m]]
  <2>1. i \in 1..Len(s)
    BY <1>1, <1>2, <1>6
  <2>2. CASE m = Len(s) + 1
    <3>1. t[i] = s[i] /\ t[m] = j /\ new[t[i]] = id[s[i]] /\ new[t[m]] = n
      BY <1>2, <1>5, <2>1, <2>2
    <3> QED BY <1>1, <1>4, <2>1, <3>1
  <2>3. CASE m # Len(s) + 1
    <3>1. m \in 1..Len(s)
      BY <1>1, <1>2, <2>3
    <3>2. s[i] # s[m] /\ id[s[i]] < id[s[m]]
      BY <1>6, <2>1, <3>1 DEF Sound
    <3> QED BY <1>2, <1>5, <2>1, <3>1, <3>2
  <2> QED BY <2>2, <2>3
<1>61. \A i \in 1..Len(t) : new[t[i]] > 0
  <2> TAKE i \in 1..Len(t)
  <2>1. CASE i = Len(s) + 1
    BY <1>2, <1>4, <1>5, <2>1, <1>41
  <2>2. CASE i # Len(s) + 1
    <3>1. i \in 1..Len(s)
      BY <1>1, <1>2, <2>2
    <3> QED BY <1>2, <1>5, <3>1 DEF Sound
  <2> QED BY <2>1, <2>2
<1>7. Elements(s) \cup {j} \subseteq Elements(t)
  <2>1. Len(s) + 1 \in 1..Len(t) /\ 1..Len(s) \subseteq 1..Len(t)
    BY <1>1, <1>2
  <2> QED BY <1>2, <2>1 DEF Elements
<1>8. r \subseteq Elements(s)
  BY DEF Sound
<1>9. Sound(t, new, r) /\ Sound(t, new, r \cup {j})
  BY <1>6, <1>61, <1>7, <1>8 DEF Sound
<1> QED BY <1>2, <1>5, <1>9 DEF t, new

\* putJobInForeground of a job that is not in the queue s.
LEMMA ForegroundStep ==
  ASSUME NEW s \in Seq(Job), jobId \in [Job -> Nat], NEW r, Sound(s, jobId, r),
         NEW j \in Job, j \notin Elements(s), running \ {j} = r,
         NEW x \in {"on", "exited"}, shell \in {"on", "exited", "crashed"},
         putJobInForeground(s, j, x)
  PROVE  IInv'
<1>1. running' = r /\ shell' \in {"on", "exited", "crashed"} /\ r \subseteq Elements(s)
  BY DEF putJobInForeground, Sound
<1>2. Elements(s) \subseteq Job
  BY QueueFacts
<1>3. CASE q' = s /\ jobId' = jobId
  BY <1>1, <1>2, <1>3 DEF IInv, TypeOK, JobsSound, Sound
<1>4. CASE Push(s, j)
  <2> DEFINE n == IF s = <<>> THEN 1 ELSE jobId[s[Len(s)]] + 1
  <2>1. q' = Append(s, j) /\ jobId' = [jobId EXCEPT ![j] = n]
    BY <1>4 DEF Push, NextId
  <2> HIDE DEF n
  <2>2. q' \in Seq(Job) /\ jobId' \in [Job -> Nat] /\ Sound(q', jobId', r)
    BY <2>1, PushSound DEF n
  <2> QED BY <1>1, <1>2, <2>2 DEF IInv, TypeOK, JobsSound, Sound
<1> QED BY <1>3, <1>4 DEF putJobInForeground

\* IInv is inductive.
LEMMA NextIInv == IInv /\ [Next]_vars => IInv'
<1> SUFFICES ASSUME IInv, [Next]_vars PROVE IInv'
  OBVIOUS
<1>1. /\ q \in Seq(Job) /\ jobId \in [Job -> Nat] /\ running \subseteq Job
      /\ shell \in {"on", "exited", "crashed"} /\ Sound(q, jobId, running)
      /\ Elements(q) \subseteq Job
  BY QueueFacts DEF IInv, TypeOK, JobsSound, Sound
<1>2. CASE Poll
  <2>1. /\ q' \in Seq(Job) /\ Elements(q') \subseteq Elements(q)
        /\ Sound(q', jobId, running \cap Elements(q'))
    BY <1>1, <1>2, RestSound DEF Poll
  <2>2. running' \subseteq running \cap Elements(q') /\ jobId' = jobId /\ shell' = shell
    BY <1>2 DEF Poll
  <2> QED BY <1>1, <2>1, <2>2 DEF IInv, TypeOK, JobsSound, Sound
<1>3. ASSUME NEW j \in Job, StartInBackground(j) PROVE IInv'
  <2> DEFINE n == IF q = <<>> THEN 1 ELSE jobId[q[Len(q)]] + 1
  <2>1. /\ q' = Append(q, j) /\ jobId' = [jobId EXCEPT ![j] = n] /\ j \notin Elements(q)
        /\ running' = running \cup {j} /\ shell' = shell
    BY <1>3 DEF StartInBackground, Push, NextId
  <2> HIDE DEF n
  <2>2. q' \in Seq(Job) /\ jobId' \in [Job -> Nat] /\ Sound(q', jobId', running')
    BY <1>1, <2>1, PushSound DEF n
  <2> QED BY <1>1, <2>1, <2>2 DEF IInv, TypeOK, JobsSound, Sound
<1>4. ASSUME NEW j \in Job, StartInForeground(j) PROVE IInv'
  <2>1. j \notin Elements(q) /\ putJobInForeground(q, j, "exited")
    BY <1>4 DEF StartInForeground
  <2>2. running \ {j} = running
    BY <1>1, <2>1 DEF Sound
  <2> QED BY <1>1, <2>1, <2>2, ForegroundStep
<1>5. ASSUME NEW n \in Number, handleForegroundCommand(n) PROVE IInv'
  <2>1. CASE OffEnd(n)
    <3>1. Crash
      BY <1>5, <2>1 DEF handleForegroundCommand
    <3> QED BY <3>1 DEF Crash, IInv, TypeOK, JobsSound, Elements
  <2>2. CASE ~OffEnd(n)
    <3>1. PICK i \in 1..Len(q) : putJobInForeground(Delete(q, i), q[i], "on")
      BY <1>5, <2>2 DEF handleForegroundCommand
    <3>2. q[i] \in Job /\ Delete(q, i) \in Seq(Job)
      BY <1>1, QueueFacts, DeleteProperties
    <3>3. /\ Sound(Delete(q, i), jobId, running \ {q[i]})
          /\ q[i] \notin Elements(Delete(q, i))
      BY <1>1, DeleteSound
    <3> QED BY <1>1, <3>1, <3>2, <3>3, ForegroundStep
  <2> QED BY <2>1, <2>2
<1>6. ASSUME NEW n \in Number, handleBackgroundCommand(n) PROVE IInv'
  <2>1. CASE OffEnd(n)
    <3>1. Crash
      BY <1>6, <2>1 DEF handleBackgroundCommand
    <3> QED BY <3>1 DEF Crash, IInv, TypeOK, JobsSound, Elements
  <2>2. CASE ~OffEnd(n)
    <3>1. PICK i \in 1..Len(q) : /\ running' = running \cup {q[i]}
                                 /\ q' = q /\ jobId' = jobId /\ shell' = shell
      BY <1>6, <2>2 DEF handleBackgroundCommand
    <3> QED BY <1>1, <3>1 DEF IInv, TypeOK, JobsSound, Sound, Elements
  <2> QED BY <2>1, <2>2
<1>7. CASE UNCHANGED vars
  BY <1>7 DEF vars, IInv, TypeOK, JobsSound, Elements
<1> QED BY <1>2, <1>3, <1>4, <1>5, <1>6, <1>7 DEF Next, Halted

\* The numbers of the job queue ascend, no job is in it twice, and what counts as
\* running in the background is in it, whatever number of jobs comes and goes.
THEOREM Invariance == Spec => []IInv
<1>1. Init => IInv
  <2> SUFFICES ASSUME Init PROVE IInv
    OBVIOUS
  <2>1. q = <<>> /\ Len(q) = 0 /\ q \in Seq(Job)
    BY DEF Init
  <2>2. TypeOK
    BY <2>1 DEF Init, TypeOK
  <2>3. JobsSound
    BY <2>1 DEF Init, JobsSound
  <2> QED BY <2>2, <2>3 DEF IInv
<1> QED BY <1>1, NextIInv, PTL DEF Spec

\* The number that "jobs" prints for a job leads fg and bg to that job
\* (jobcontrol.c:48), for any number of jobs.
THEOREM NumbersFindJobs == Spec => []NumberFindsJob
<1>1. IInv => NumberFindsJob
  <2> SUFFICES ASSUME IInv, NEW i \in 1..Len(q)
               PROVE  ~OffEnd(jobId[q[i]]) /\ Found(jobId[q[i]]) = q[i]
    BY DEF NumberFindsJob
  <2> DEFINE n == jobId[q[i]]
             far == {m \in 1..Len(q) : jobId[q[m]] >= n}
  <2>1. \A m \in 1..Len(q) : q[m] \in Job /\ jobId[q[m]] \in Nat
    BY QueueFacts DEF IInv, TypeOK
  <2>2. n \in Nat /\ n > 0 /\ n # -1
    BY <2>1 DEF IInv, JobsSound
  <2>3. Len(q) \in Nat
    BY QueueFacts DEF IInv, TypeOK
  <2>4. i \in far /\ \A m \in far : i <= m
    <3>1. ASSUME NEW m \in 1..Len(q), m < i PROVE ~(jobId[q[m]] >= n)
      BY <2>1, <3>1 DEF IInv, JobsSound
    <3> QED BY <2>1, <2>3, <3>1
  <2>5. \A k \in far : (\A m \in far : k <= m) => k = i
    BY <2>3, <2>4
  <2>6. (CHOOSE k \in far : \A m \in far : k <= m) = i
    <3> HIDE DEF far
    <3> QED BY <2>4, <2>5
  <2>7. ~OffEnd(n)
    BY <2>1, <2>2 DEF OffEnd
  <2>8. Walk(n) = q[i]
    BY <2>6 DEF Walk
  <2>9. Found(n) = Walk(n)
    <3> HIDE DEF n
    <3> QED BY <2>2 DEF Found
  <2> QED BY <2>7, <2>8, <2>9
<1> QED BY <1>1, Invariance, PTL
=============================================================================

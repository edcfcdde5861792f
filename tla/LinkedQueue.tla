---------------------------- MODULE LinkedQueue -----------------------------
(***************************************************************************)
(* The doubly linked queue of queue.c (jobQueue.c is the same code with    *)
(* jobs for nodes), with its pointers.  The process table, the asleep list *)
(* and the queues of the scheduler are such queues, one node each for a    *)
(* process.  Callers push only nodes fresh from newNode, and remove only   *)
(* nodes that a search or a walk of the same queue gave them.              *)
(***************************************************************************)
EXTENDS Sequences, Integers

CONSTANTS Node, NULL

ASSUME NullAssumption == NULL \notin Node

VARIABLES
  next, prev,           \* the pointers of the nodes
  front, back, count,   \* the queue
  ret,                  \* what the last call returned
  list                  \* history: the nodes that ought to be in the queue

vars == <<next, prev, front, back, count, ret, list>>

\* queueInit; the nodes are fresh from newNode.
Init ==
  /\ next = [n \in Node |-> NULL] /\ prev = [n \in Node |-> NULL]
  /\ front = NULL /\ back = NULL /\ count = 0
  /\ ret = NULL
  /\ list = <<>>

Empty == count = 0 \/ front = NULL \/ back = NULL

In(n) == \E i \in 1..Len(list) : list[i] = n

\* p->f = x, which does nothing here if p is NULL: the code tests it.
Set(f, p, x) == IF p = NULL THEN f ELSE [f EXCEPT ![p] = x]

-----------------------------------------------------------------------------
\* Mutant: the new node does not learn who is in front of it.
queuePush_NoPrev(n) ==
  /\ ~In(n)
  /\ IF Empty THEN front' = n /\ next' = [next EXCEPT ![n] = NULL]
     ELSE front' = front /\ next' = [next EXCEPT ![back] = n, ![n] = NULL]
  /\ back' = n /\ count' = count + 1 /\ prev' = prev
  /\ ret' = n /\ list' = Append(list, n)

queuePush(n) ==
  /\ ~In(n)
  /\ IF Empty
       THEN front' = n /\ prev' = prev /\ next' = [next EXCEPT ![n] = NULL]
       ELSE /\ front' = front
            /\ prev' = [prev EXCEPT ![n] = back]
            /\ next' = [next EXCEPT ![back] = n, ![n] = NULL]
  /\ back' = n /\ count' = count + 1
  /\ ret' = n /\ list' = Append(list, n)

\* The last node leaves back behind: it is count that says empty.
queuePop ==
  \/ /\ Empty
     /\ ret' = NULL
     /\ UNCHANGED <<next, prev, front, back, count, list>>
  \/ /\ ~Empty
     /\ front' = next[front]
     /\ prev' = [Set(prev, next[front], NULL) EXCEPT ![front] = NULL]
     /\ next' = [next EXCEPT ![front] = NULL]
     /\ count' = count - 1
     /\ ret' = front
     /\ list' = Tail(list)
     /\ UNCHANGED back

queueFront ==
  /\ ret' = IF Empty THEN NULL ELSE front
  /\ UNCHANGED <<next, prev, front, back, count, list>>

\* The sequence without its i-th element.
Delete(s, i) == [j \in 1..(Len(s) - 1) |-> IF j < i THEN s[j] ELSE s[j + 1]]

\* Mutant: the back of the queue is not looked at.
queueRemoveNode_KeepsBack(n) ==
  LET middle == prev[n] # NULL /\ next[n] # NULL
      prev1 == IF front = n \/ middle THEN Set(prev, next[n], prev[n]) ELSE prev
      next1 == IF middle THEN Set(next, prev[n], next[n]) ELSE next
  IN  /\ In(n)
      /\ front' = IF front = n THEN next[n] ELSE front
      /\ back' = back
      /\ prev' = [prev1 EXCEPT ![n] = NULL] /\ next' = [next1 EXCEPT ![n] = NULL]
      /\ count' = count - 1
      /\ ret' = n
      /\ \E i \in 1..Len(list) : list[i] = n /\ list' = Delete(list, i)

\* n at the front, at the back, and in the middle: three tests in a row, the
\* third on n's own pointers.
queueRemoveNode(n) ==
  LET prev1 == IF front = n THEN Set(prev, next[n], NULL) ELSE prev
      next1 == IF back = n THEN Set(next, prev1[n], NULL) ELSE next
      middle == prev1[n] # NULL /\ next1[n] # NULL
      prev2 == IF middle THEN [prev1 EXCEPT ![next1[n]] = prev1[n]] ELSE prev1
      next2 == IF middle THEN [next1 EXCEPT ![prev1[n]] = next1[n]] ELSE next1
  IN  /\ In(n)
      /\ IF Empty
           THEN ret' = NULL /\ UNCHANGED <<next, prev, front, back, count, list>>
           ELSE /\ front' = IF front = n THEN next[n] ELSE front
                /\ back' = IF back = n THEN prev1[n] ELSE back
                /\ prev' = [prev2 EXCEPT ![n] = NULL]
                /\ next' = [next2 EXCEPT ![n] = NULL]
                /\ count' = count - 1
                /\ ret' = n
                /\ \E i \in 1..Len(list) :
                      list[i] = n /\ list' = Delete(list, i)

Next ==
  \/ queuePop \/ queueFront
  \/ \E n \in Node : queuePush(n) \/ queueRemoveNode(n)

Spec == Init /\ [][Next]_vars

-----------------------------------------------------------------------------
TypeOK ==
  /\ next \in [Node -> Node \cup {NULL}] /\ prev \in [Node -> Node \cup {NULL}]
  /\ front \in Node \cup {NULL} /\ back \in Node \cup {NULL}
  /\ count \in Nat
  /\ ret \in Node \cup {NULL}
  /\ list \in Seq(Node)

\* The nodes that were pushed and not taken are linked in that order, forwards
\* and backwards, no node is in the queue twice, and a node outside has clean
\* pointers.  back may point anywhere once the queue is empty (queue.c:86).
Linked ==
  /\ count = Len(list)
  /\ list = <<>> => front = NULL
  /\ list # <<>> => front = list[1] /\ back = list[Len(list)]
  /\ \A i \in 1..Len(list) :
        /\ next[list[i]] = IF i = Len(list) THEN NULL ELSE list[i + 1]
        /\ prev[list[i]] = IF i = 1 THEN NULL ELSE list[i - 1]
  /\ \A i, j \in 1..Len(list) : list[i] = list[j] => i = j
  /\ \A n \in Node : ~In(n) => next[n] = NULL /\ prev[n] = NULL

IInv == TypeOK /\ Linked

\* The queue is the FIFO queue that queue.h promises.
F == INSTANCE Fifo
IsFifo == F!Spec
=============================================================================

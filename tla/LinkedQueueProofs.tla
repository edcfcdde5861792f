------------------------- MODULE LinkedQueueProofs --------------------------
(***************************************************************************)
(* For any set of nodes: the pointers of the queue always hold the nodes   *)
(* that were pushed and not taken, in that order, and the queue implements *)
(* module Fifo.                                                            *)
(***************************************************************************)
EXTENDS LinkedQueue, TLAPS, SequenceTheorems

\* The empty queue is sound.
LEMMA InitIInv == Init => IInv
<1> SUFFICES ASSUME Init PROVE IInv
  OBVIOUS
<1>1. list = <<>> /\ Len(list) = 0
  BY DEF Init
<1>2. list \in Seq(Node)
  BY <1>1
<1>3. TypeOK
  BY <1>1, <1>2 DEF Init, TypeOK
<1>4. Linked
  BY <1>1 DEF Init, Linked
<1> QED BY <1>3, <1>4 DEF IInv

\* count and the two ends say the same about emptiness.
LEMMA EmptyList == ASSUME IInv PROVE Empty <=> list = <<>>
<1>1. Len(list) \in Nat /\ (Len(list) = 0 <=> list = <<>>)
  BY EmptySeq, LenProperties DEF IInv, TypeOK
<1>2. CASE list = <<>>
  BY <1>1, <1>2 DEF IInv, Linked, Empty
<1>3. CASE list # <<>>
  <2>1. list[1] \in Node /\ list[Len(list)] \in Node
    BY <1>1, <1>3, ElementOfSeq DEF IInv, TypeOK
  <2> QED BY <1>1, <1>3, <2>1, NullAssumption DEF IInv, Linked, Empty
<1> QED BY <1>2, <1>3

\* The pointers of the i-th node.
LEMMA LinkedAt ==
  ASSUME IInv, NEW i \in 1..Len(list)
  PROVE  /\ next[list[i]] = IF i = Len(list) THEN NULL ELSE list[i + 1]
         /\ prev[list[i]] = IF i = 1 THEN NULL ELSE list[i - 1]
BY DEF IInv, Linked

\* queuePush.
LEMMA PushStep == ASSUME NEW n \in Node PROVE IInv /\ queuePush(n) => IInv'
<1> SUFFICES ASSUME IInv, queuePush(n) PROVE IInv'
  OBVIOUS
<1> DEFINE L == Len(list)
<1>1. /\ L \in Nat /\ list' \in Seq(Node) /\ Len(list') = L + 1
      /\ \A i \in 1..L : list'[i] = list[i] /\ list[i] \in Node
      /\ list'[L + 1] = n
  BY AppendProperties, LenProperties, ElementOfSeq DEF queuePush, IInv, TypeOK
<1>2. \A i \in 1..L : list[i] # n
  BY DEF queuePush, In
<1>3. TypeOK'
  <2>1. next' \in [Node -> Node \cup {NULL}] /\ prev' \in [Node -> Node \cup {NULL}]
    BY DEF queuePush, IInv, TypeOK
  <2> QED BY <1>1, <2>1 DEF queuePush, IInv, TypeOK
<1>4. \A m \in Node : ~In(m)' => ~In(m) /\ m # n
  BY <1>1 DEF In
<1>5. Linked'
  <2>1. CASE list = <<>>
    <3>1. L = 0 /\ Empty
      BY <2>1, EmptyList
    <3>2. /\ front' = n /\ back' = n /\ count' = 1 /\ prev' = prev
          /\ next' = [next EXCEPT ![n] = NULL]
      BY <3>1 DEF queuePush, IInv, Linked
    <3>3. prev[n] = NULL
      BY <1>2 DEF IInv, Linked, In
    <3>4. list'[1] = n /\ Len(list') = 1
      BY <1>1, <3>1
    <3>5. next'[n] = NULL /\ prev'[n] = NULL
      BY <3>2, <3>3 DEF IInv, TypeOK
    <3>6. \A m \in Node : ~In(m)' => next'[m] = NULL /\ prev'[m] = NULL
      BY <1>4, <3>2 DEF IInv, TypeOK, Linked
    <3>7. \A i \in 1..1 : i = 1
      OBVIOUS
    <3>8. list' # <<>>
      BY <1>1, <3>4, EmptySeq
    <3> QED BY <3>2, <3>4, <3>5, <3>6, <3>7, <3>8 DEF Linked
  <2>2. CASE list # <<>>
    <3>1. L > 0 /\ ~Empty
      BY <1>1, <2>2, EmptyList, EmptySeq DEF IInv, TypeOK
    <3>2. /\ front' = front /\ back' = n /\ count' = count + 1
          /\ prev' = [prev EXCEPT ![n] = back]
          /\ next' = [next EXCEPT ![back] = n, ![n] = NULL]
      BY <3>1 DEF queuePush
    <3>3. back = list[L] /\ front = list[1]
      BY <2>2 DEF IInv, Linked
    <3>4. /\ \A i \in 1..L : next'[list[i]] = IF i = L THEN n ELSE next[list[i]]
          /\ next'[n] = NULL
      BY <1>1, <1>2, <3>1, <3>2, <3>3 DEF IInv, TypeOK, Linked
    <3>5. (\A i \in 1..L : prev'[list[i]] = prev[list[i]]) /\ prev'[n] = list[L]
      BY <1>1, <1>2, <3>2, <3>3 DEF IInv, TypeOK
    <3>6. ASSUME NEW i \in 1..(L + 1)
          PROVE  /\ next'[list'[i]] = IF i = L + 1 THEN NULL ELSE list'[i + 1]
                 /\ prev'[list'[i]] = IF i = 1 THEN NULL ELSE list'[i - 1]
      <4>1. CASE i = L + 1
        BY <1>1, <3>1, <3>4, <3>5, <4>1
      <4>2. CASE i \in 1..L
        <5>1. /\ next[list[i]] = IF i = L THEN NULL ELSE list[i + 1]
              /\ prev[list[i]] = IF i = 1 THEN NULL ELSE list[i - 1]
          BY <4>2 DEF IInv, Linked
        <5> QED BY <1>1, <3>1, <3>4, <3>5, <4>2, <5>1
      <4> QED BY <1>1, <4>1, <4>2
    <3>7. \A i, j \in 1..(L + 1) : list'[i] = list'[j] => i = j
      BY <1>1, <1>2 DEF IInv, Linked
    <3>8. \A m \in Node : ~In(m)' => next'[m] = NULL /\ prev'[m] = NULL
      <4> TAKE m \in Node
      <4>1. m = back => In(m)
        BY <3>1, <1>1, <3>3 DEF In
      <4> QED BY <1>4, <3>2, <4>1 DEF IInv, TypeOK, Linked
    <3>9. count' = Len(list') /\ front' = list'[1] /\ back' = list'[Len(list')]
          /\ list' # <<>>
      BY <1>1, <3>1, <3>2, <3>3, EmptySeq DEF IInv, Linked
    <3> QED BY <1>1, <3>6, <3>7, <3>8, <3>9 DEF Linked
  <2> QED BY <2>1, <2>2
<1> QED BY <1>3, <1>5 DEF IInv

\* queuePop.
LEMMA PopStep == IInv /\ queuePop => IInv'
<1> SUFFICES ASSUME IInv, queuePop PROVE IInv'
  OBVIOUS
<1>1. CASE Empty
  <2>1. UNCHANGED <<next, prev, front, back, count, list>> /\ ret' = NULL
    BY <1>1 DEF queuePop
  <2> QED BY <2>1 DEF IInv, TypeOK, Linked, In
<1>2. CASE ~Empty
  <2> DEFINE L == Len(list)
  <2>1. list # <<>> /\ list \in Seq(Node)
    BY <1>2, EmptyList DEF IInv, TypeOK
  <2>2. /\ L \in Nat \ {0} /\ list' \in Seq(Node) /\ Len(list') = L - 1
        /\ \A i \in 1..(L - 1) : list'[i] = list[i + 1]
        /\ \A i \in 1..L : list[i] \in Node
    <3>1. L \in Nat \ {0}
      BY <2>1, LenProperties, EmptySeq
    <3>2. \A i \in 1..L : list[i] \in Node
      BY <2>1, <3>1, ElementOfSeq
    <3>3. list' = Tail(list)
      BY <1>2 DEF queuePop
    <3>4. /\ Tail(list) \in Seq(Node) /\ Len(Tail(list)) = L - 1
          /\ \A i \in 1..(L - 1) : Tail(list)[i] = list[i + 1]
      BY <2>1, <3>1, HeadTailProperties
    <3> QED BY <3>1, <3>2, <3>3, <3>4
  <2>3. /\ front = list[1] /\ back = list[L] /\ front' = next[front] /\ back' = back
        /\ prev' = [Set(prev, next[front], NULL) EXCEPT ![front] = NULL]
        /\ next' = [next EXCEPT ![front] = NULL]
        /\ count' = count - 1 /\ ret' = front
    BY <1>2, <2>1 DEF queuePop, IInv, Linked
  <2>4. next[front] = IF L = 1 THEN NULL ELSE list[2]
    <3>1. 1 \in 1..L
      BY <2>2
    <3>2. next[list[1]] = IF 1 = L THEN NULL ELSE list[1 + 1]
      BY <3>1, LinkedAt
    <3> QED BY <2>3, <3>2
  <2>5. TypeOK'
    <3>1. prev' \in [Node -> Node \cup {NULL}] /\ next' \in [Node -> Node \cup {NULL}]
      BY <2>3 DEF Set, IInv, TypeOK
    <3>2. front \in Node /\ front' \in Node \cup {NULL}
      BY <2>2, <2>3, <2>4 DEF IInv, TypeOK
    <3>3. count' \in Nat
      BY <2>2, <2>3 DEF IInv, Linked
    <3> QED BY <2>2, <2>3, <3>1, <3>2, <3>3 DEF IInv, TypeOK
  <2>6. \A m \in Node :
          /\ next'[m] = IF m = front THEN NULL ELSE next[m]
          /\ prev'[m] = IF m = front \/ (L > 1 /\ m = list[2]) THEN NULL ELSE prev[m]
    BY <2>2, <2>3, <2>4, NullAssumption DEF Set, IInv, TypeOK
  <2>7. \A i, j \in 1..L : list[i] = list[j] => i = j
    BY DEF IInv, Linked
  <2>8. ASSUME NEW i \in 1..(L - 1)
        PROVE  /\ next'[list'[i]] = IF i = L - 1 THEN NULL ELSE list'[i + 1]
               /\ prev'[list'[i]] = IF i = 1 THEN NULL ELSE list'[i - 1]
    <3>1. /\ i + 1 \in 1..L /\ list'[i] = list[i + 1] /\ list[i + 1] \in Node
          /\ (i # L - 1 => list'[i + 1] = list[i + 2])
          /\ (i # 1 => list'[i - 1] = list[i])
      BY <2>2
    <3>2. /\ next[list[i + 1]] = IF i + 1 = L THEN NULL ELSE list[i + 2]
          /\ prev[list[i + 1]] = list[i]
      <4>1. /\ next[list[i + 1]] = IF i + 1 = L THEN NULL ELSE list[(i + 1) + 1]
            /\ prev[list[i + 1]] = IF i + 1 = 1 THEN NULL ELSE list[(i + 1) - 1]
        BY <3>1, LinkedAt
      <4>2. i + 1 # 1 /\ (i + 1) - 1 = i /\ (i + 1) + 1 = i + 2
        BY <2>2
      <4> QED BY <4>1, <4>2
    <3>3. list[i + 1] # front /\ (i # 1 => list[i + 1] # list[2]) /\ L > 1
      BY <2>2, <2>3, <2>7, <3>1
    <3> QED BY <2>2, <2>6, <3>1, <3>2, <3>3
  <2>9. \A i, j \in 1..(L - 1) : list'[i] = list'[j] => i = j
    BY <2>2, <2>7
  <2>10. ASSUME NEW m \in Node, ~In(m)' PROVE next'[m] = NULL /\ prev'[m] = NULL
    <3>1. CASE m = front
      BY <2>6, <3>1
    <3>2. CASE m # front
      <4>1. ~In(m)
        <5> SUFFICES ASSUME NEW i \in 1..L, list[i] = m PROVE FALSE
          BY DEF In
        <5>1. i - 1 \in 1..(L - 1) /\ list'[i - 1] = m
          BY <2>2, <2>3, <3>2
        <5> QED BY <2>2, <2>10, <5>1 DEF In
      <4> QED BY <2>6, <4>1 DEF IInv, Linked
    <3> QED BY <3>1, <3>2
  <2>11. count' = Len(list') /\ (list' = <<>> => front' = NULL)
         /\ (list' # <<>> => front' = list'[1] /\ back' = list'[Len(list')])
    BY <2>2, <2>3, <2>4, EmptySeq DEF IInv, Linked
  <2>12. Linked'
    BY <2>2, <2>8, <2>9, <2>10, <2>11 DEF Linked
  <2> QED BY <2>5, <2>12 DEF IInv
<1> QED BY <1>1, <1>2

\* queueFront.
LEMMA FrontStep == IInv /\ queueFront => IInv'
BY DEF queueFront, IInv, TypeOK, Linked, In

\* A sequence without one element.
LEMMA DeleteProperties ==
  ASSUME NEW S, NEW s \in Seq(S), NEW i \in 1..Len(s)
  PROVE  /\ Delete(s, i) \in Seq(S) /\ Len(Delete(s, i)) = Len(s) - 1
         /\ \A j \in 1..(Len(s) - 1) :
              Delete(s, i)[j] = IF j < i THEN s[j] ELSE s[j + 1]
<1>1. Len(s) \in Nat /\ Len(s) - 1 \in Nat
  BY LenProperties
<1>2. \A j \in 1..(Len(s) - 1) : (IF j < i THEN s[j] ELSE s[j + 1]) \in S
  BY <1>1, ElementOfSeq
<1>3. Delete(s, i) \in Seq(S)
  BY <1>1, <1>2, IsASeq DEF Delete
<1>4. Len(Delete(s, i)) = Len(s) - 1
  BY <1>1, <1>3, LenProperties DEF Delete
<1> QED BY <1>3, <1>4 DEF Delete

\* queueRemoveNode: wherever n is, its neighbours are linked to each other.
LEMMA RemoveStep ==
  ASSUME NEW n \in Node
  PROVE  IInv /\ queueRemoveNode(n) =>
           /\ IInv' /\ ret' = n
           /\ \E i \in 1..Len(list) : list[i] = n /\ list' = Delete(list, i)
<1> SUFFICES ASSUME IInv, queueRemoveNode(n)
             PROVE  /\ IInv' /\ ret' = n
                    /\ \E i \in 1..Len(list) : list[i] = n /\ list' = Delete(list, i)
  OBVIOUS
<1> DEFINE L == Len(list)
<1>1. list \in Seq(Node) /\ L \in Nat /\ \A j \in 1..L : list[j] \in Node
  BY LenProperties, ElementOfSeq DEF IInv, TypeOK
<1>2. ~Empty
  <2>1. PICK j \in 1..L : list[j] = n
    BY DEF queueRemoveNode, In
  <2> QED BY <1>1, <2>1, EmptyList, EmptySeq
<1>3. PICK i \in 1..L : list[i] = n /\ list' = Delete(list, i)
  BY <1>2 DEF queueRemoveNode
<1>4. /\ list' \in Seq(Node) /\ Len(list') = L - 1
      /\ \A j \in 1..(L - 1) : list'[j] = IF j < i THEN list[j] ELSE list[j + 1]
  BY <1>1, <1>3, DeleteProperties
<1>5. \A j, m \in 1..L : list[j] = list[m] => j = m
  BY DEF IInv, Linked
<1>6. /\ front = list[1] /\ back = list[L] /\ L >= 1
      /\ next[n] = IF i = L THEN NULL ELSE list[i + 1]
      /\ prev[n] = IF i = 1 THEN NULL ELSE list[i - 1]
      /\ (front = n <=> i = 1) /\ (back = n <=> i = L)
  BY <1>1, <1>2, <1>3, <1>5, EmptyList DEF IInv, Linked
<1>7. /\ next \in [Node -> Node \cup {NULL}] /\ prev \in [Node -> Node \cup {NULL}]
      /\ (i < L => list[i + 1] \in Node /\ list[i + 1] # n)
      /\ (i > 1 => list[i - 1] \in Node /\ list[i - 1] # n)
      /\ (1 < i /\ i < L => list[i - 1] # list[i + 1])
  BY <1>1, <1>3, <1>5 DEF IInv, TypeOK
<1>8. \A m \in Node :
        /\ prev'[m] = IF m = n THEN NULL
                      ELSE IF i < L /\ m = list[i + 1] THEN prev[n]
                      ELSE prev[m]
        /\ next'[m] = IF m = n THEN NULL
                      ELSE IF i > 1 /\ m = list[i - 1] THEN next[n]
                      ELSE next[m]
  <2>1. CASE i = 1 /\ i = L
    <3>1. next[n] = NULL /\ prev[n] = NULL /\ front = n /\ back = n
      BY <1>6, <2>1
    <3>2. prev' = [prev EXCEPT ![n] = NULL] /\ next' = [next EXCEPT ![n] = NULL]
      BY <1>2, <3>1 DEF queueRemoveNode, Set
    <3>3. ~(i < L) /\ ~(i > 1)
      <4>1. i = 1 /\ L = 1
        BY <2>1
      <4> HIDE DEF L
      <4> QED BY <4>1
    <3>4. \A m \in Node :
            /\ prev'[m] = IF m = n THEN NULL ELSE prev[m]
            /\ next'[m] = IF m = n THEN NULL ELSE next[m]
      BY <1>7, <3>2
    <3> QED BY <3>3, <3>4
  <2>2. CASE i = 1 /\ i < L
    BY <1>2, <1>6, <1>7, <2>2, NullAssumption DEF queueRemoveNode, Set
  <2>3. CASE i > 1 /\ i = L
    BY <1>2, <1>6, <1>7, <2>3, NullAssumption DEF queueRemoveNode, Set
  <2>4. CASE i > 1 /\ i < L
    BY <1>2, <1>6, <1>7, <2>4, NullAssumption DEF queueRemoveNode, Set
  <2> QED BY <1>1, <1>3, <2>1, <2>2, <2>3, <2>4
<1>9. /\ front' = IF i = 1 THEN next[n] ELSE front
      /\ back' = IF i = L THEN prev[n] ELSE back
      /\ count' = count - 1 /\ ret' = n
  <2>1. i = L /\ i # 1 => (IF front = n THEN Set(prev, next[n], NULL) ELSE prev)[n] = prev[n]
    BY <1>6
  <2>2. i = L /\ i = 1 => (IF front = n THEN Set(prev, next[n], NULL) ELSE prev)[n] = prev[n]
    BY <1>6 DEF Set
  <2> QED BY <1>2, <1>6, <2>1, <2>2 DEF queueRemoveNode
<1>10. TypeOK'
  <2>1. prev' \in [Node -> Node \cup {NULL}] /\ next' \in [Node -> Node \cup {NULL}]
    <3>1. \A m \in Node : prev'[m] \in Node \cup {NULL} /\ next'[m] \in Node \cup {NULL}
      BY <1>7, <1>8
    <3>2. prev' = [m \in Node |-> prev'[m]] /\ next' = [m \in Node |-> next'[m]]
      BY <1>2, <1>7 DEF queueRemoveNode, Set
    <3> QED BY <3>1, <3>2
  <2>2. count' \in Nat
    BY <1>1, <1>6, <1>9 DEF IInv, Linked
  <2> QED BY <1>4, <1>7, <1>9, <2>1, <2>2 DEF IInv, TypeOK
<1>11. ASSUME NEW j \in 1..(L - 1)
       PROVE  /\ next'[list'[j]] = IF j = L - 1 THEN NULL ELSE list'[j + 1]
              /\ prev'[list'[j]] = IF j = 1 THEN NULL ELSE list'[j - 1]
  <2>1. CASE j < i
    <3>1. /\ j \in 1..L /\ list'[j] = list[j] /\ list[j] \in Node /\ list[j] # n
          /\ next[list[j]] = list[j + 1]
          /\ prev[list[j]] = IF j = 1 THEN NULL ELSE list[j - 1]
      <4>1. j \in 1..L /\ list'[j] = list[j] /\ list[j] \in Node /\ list[j] # n /\ j # L
        BY <1>1, <1>3, <1>4, <1>5, <2>1
      <4> QED BY <4>1, LinkedAt
    <3>2. j # 1 => list'[j - 1] = list[j - 1]
      BY <1>1, <1>4, <2>1
    <3>3. j # L - 1 => list'[j + 1] = IF j + 1 < i THEN list[j + 1] ELSE list[j + 2]
      BY <1>1, <1>4, <2>1
    <3>4. i < L => list[j] # list[i + 1]
      BY <1>1, <1>5, <2>1, <3>1
    <3>5. i > 1 /\ (list[j] = list[i - 1] <=> j = i - 1)
      BY <1>1, <1>5, <2>1, <3>1
    <3>6. prev'[list[j]] = prev[list[j]]
      BY <1>8, <3>1, <3>4
    <3>7. next'[list[j]] = IF j = i - 1 THEN next[n] ELSE list[j + 1]
      BY <1>8, <3>1, <3>5
    <3> QED BY <1>1, <1>6, <2>1, <3>1, <3>2, <3>3, <3>6, <3>7
  <2>2. CASE j >= i
    <3>1. /\ j + 1 \in 1..L /\ list'[j] = list[j + 1] /\ list[j + 1] \in Node
          /\ list[j + 1] # n
          /\ next[list[j + 1]] = IF j + 1 = L THEN NULL ELSE list[j + 2]
          /\ prev[list[j + 1]] = list[j]
      <4>1. /\ j + 1 \in 1..L /\ list'[j] = list[j + 1] /\ list[j + 1] \in Node
            /\ list[j + 1] # n
        BY <1>1, <1>3, <1>4, <1>5, <2>2
      <4>2. /\ next[list[j + 1]] = IF j + 1 = L THEN NULL ELSE list[(j + 1) + 1]
            /\ prev[list[j + 1]] = IF j + 1 = 1 THEN NULL ELSE list[(j + 1) - 1]
        BY <4>1, LinkedAt
      <4>3. j + 1 # 1 /\ (j + 1) - 1 = j /\ (j + 1) + 1 = j + 2
        BY <1>1
      <4> QED BY <4>1, <4>2, <4>3
    <3>2. j # 1 => list'[j - 1] = IF j - 1 < i THEN list[j - 1] ELSE list[j]
      BY <1>1, <1>4, <2>2
    <3>3. j # L - 1 => list'[j + 1] = list[j + 2]
      BY <1>1, <1>4, <2>2
    <3>4. i > 1 => list[j + 1] # list[i - 1]
      BY <1>1, <1>5, <2>2, <3>1
    <3>5. i < L /\ (list[j + 1] = list[i + 1] <=> j = i)
      BY <1>1, <1>5, <2>2, <3>1
    <3>6. next'[list[j + 1]] = next[list[j + 1]]
      BY <1>8, <3>1, <3>4
    <3>7. prev'[list[j + 1]] = IF j = i THEN prev[n] ELSE list[j]
      BY <1>8, <3>1, <3>5
    <3> QED BY <1>1, <1>6, <2>2, <3>1, <3>2, <3>3, <3>6, <3>7
  <2> QED BY <1>1, <2>1, <2>2
<1>12. \A j, m \in 1..(L - 1) : list'[j] = list'[m] => j = m
  BY <1>1, <1>4, <1>5
<1>13. ASSUME NEW m \in Node, ~In(m)' PROVE next'[m] = NULL /\ prev'[m] = NULL
  <2>1. CASE m = n
    BY <1>8, <2>1
  <2>2. CASE m # n
    <3>1. ~In(m)
      <4> SUFFICES ASSUME NEW j \in 1..L, list[j] = m PROVE FALSE
        BY DEF In
      <4>1. j # i
        BY <1>3, <2>2
      <4>2. CASE j < i
        <5>1. j \in 1..(L - 1) /\ list'[j] = m
          BY <1>1, <1>4, <4>2
        <5> QED BY <1>4, <1>13, <5>1 DEF In
      <4>3. CASE j > i
        <5>1. j - 1 \in 1..(L - 1) /\ list'[j - 1] = m
          BY <1>1, <1>4, <4>3
        <5> QED BY <1>4, <1>13, <5>1 DEF In
      <4> QED BY <1>1, <4>1, <4>2, <4>3
    <3>2. (i < L => m # list[i + 1]) /\ (i > 1 => m # list[i - 1])
      BY <1>1, <3>1 DEF In
    <3> QED BY <1>8, <2>2, <3>1, <3>2 DEF IInv, Linked
  <2> QED BY <2>1, <2>2
<1>14. count' = Len(list') /\ (list' = <<>> => front' = NULL)
       /\ (list' # <<>> => front' = list'[1] /\ back' = list'[Len(list')])
  <2>1. count = L
    BY DEF IInv, Linked
  <2>2. list' = <<>> <=> L = 1
    BY <1>1, <1>4, <1>6, EmptySeq
  <2> QED BY <1>1, <1>4, <1>6, <1>9, <2>1, <2>2
<1>15. Linked'
  BY <1>4, <1>11, <1>12, <1>13, <1>14 DEF Linked
<1> QED BY <1>3, <1>9, <1>10, <1>15 DEF IInv

\* IInv is inductive.
LEMMA NextIInv == IInv /\ [Next]_vars => IInv'
<1>1. IInv /\ UNCHANGED vars => IInv'
  BY DEF vars, IInv, TypeOK, Linked, In
<1> QED BY <1>1, PushStep, PopStep, FrontStep, RemoveStep DEF Next

\* The pointers hold the queue at all times.
THEOREM Invariance == Spec => []IInv
<1> QED BY InitIInv, NextIInv, PTL DEF Spec

\* The linked queue is a FIFO queue: what pop, front and remove return is what a
\* sequence of nodes would have returned.
THEOREM Implements == Spec => IsFifo
<1>1. Init => F!Init
  BY DEF Init, F!Init
<1>2. IInv /\ [Next]_vars => [F!Next]_(F!vars)
  <2> SUFFICES ASSUME IInv, [Next]_vars PROVE [F!Next]_(F!vars)
    OBVIOUS
  <2>1. ASSUME NEW n \in Node, queuePush(n) PROVE F!Next
    BY <2>1 DEF queuePush, In, F!Next, F!Push, F!In
  <2>2. CASE queuePop
    <3>1. CASE Empty
      BY <2>2, <3>1, EmptyList DEF queuePop, F!Next, F!Pop
    <3>2. CASE ~Empty
      <4>1. list # <<>> /\ ret' = front /\ list' = Tail(list)
        BY <2>2, <3>2, EmptyList DEF queuePop
      <4>2. front = Head(list)
        BY <4>1, HeadTailProperties DEF IInv, TypeOK, Linked
      <4> QED BY <4>1, <4>2 DEF F!Next, F!Pop
    <3> QED BY <3>1, <3>2
  <2>3. CASE queueFront
    <3>1. list # <<>> => front = Head(list)
      BY HeadTailProperties DEF IInv, TypeOK, Linked
    <3> QED BY <2>3, <3>1, EmptyList DEF queueFront, F!Next, F!Front
  <2>4. ASSUME NEW n \in Node, queueRemoveNode(n) PROVE F!Next
    BY <2>4, RemoveStep DEF F!Next, F!Remove, Delete, F!Delete
  <2>5. CASE UNCHANGED vars
    BY <2>5 DEF vars, F!vars
  <2> QED BY <2>1, <2>2, <2>3, <2>4, <2>5 DEF Next
<1> QED BY <1>1, <1>2, Invariance, PTL DEF Spec, IsFifo, F!Spec
=============================================================================

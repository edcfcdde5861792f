-------------------------------- MODULE Fifo --------------------------------
(***************************************************************************)
(* What queue.h promises: a FIFO queue from which any node can be removed. *)
(***************************************************************************)
EXTENDS Sequences, Integers

CONSTANTS Node, NULL

VARIABLES
  list,   \* the nodes, front first
  ret     \* what the last call returned

vars == <<list, ret>>

Init == list = <<>> /\ ret = NULL

In(n) == \E i \in 1..Len(list) : list[i] = n

Push(n) == ~In(n) /\ list' = Append(list, n) /\ ret' = n

Pop ==
  \/ list = <<>> /\ ret' = NULL /\ list' = list
  \/ list # <<>> /\ ret' = Head(list) /\ list' = Tail(list)

Front ==
  /\ ret' = IF list = <<>> THEN NULL ELSE Head(list)
  /\ list' = list

\* The sequence without its i-th element.
Delete(s, i) == [j \in 1..(Len(s) - 1) |-> IF j < i THEN s[j] ELSE s[j + 1]]

Remove(n) ==
  \E i \in 1..Len(list) : list[i] = n /\ ret' = n /\ list' = Delete(list, i)

Next == Pop \/ Front \/ \E n \in Node : Push(n) \/ Remove(n)

Spec == Init /\ [][Next]_vars
=============================================================================

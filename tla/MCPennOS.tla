------------------------------ MODULE MCPennOS ------------------------------
(***************************************************************************)
(* Module PennOS for TLC: the values of the constants that a configuration *)
(* file cannot write down (negative numbers) and their names.              *)
(***************************************************************************)
EXTENDS PennOS

\* Arguments of p_sleep: none (-2), zero, a time.
NoTicks   == {}
ZeroTicks == {0}
SomeTicks == {2}
AllTicks  == {-2, 0, 1}

\* Priorities given to nice: none, or the low queue.
NoNices == {}
LowNice == {1}
=============================================================================

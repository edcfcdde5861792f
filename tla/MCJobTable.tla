----------------------------- MODULE MCJobTable -----------------------------
(***************************************************************************)
(* Module JobTable for TLC: the arguments of fg and bg.                    *)
(***************************************************************************)
EXTENDS JobTable

\* No argument, 0 (or no number), the numbers up to the bound and one more.
Numbers == -1..(MaxId + 1)
=============================================================================

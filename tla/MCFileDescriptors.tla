-------------------------- MODULE MCFileDescriptors --------------------------
(***************************************************************************)
(* Module FileDescriptors for TLC.                                         *)
(***************************************************************************)
EXTENDS FileDescriptors

CONSTANTS a, b, x, y

\* What pennfat may leave: file a, of one block.
MCMounted ==
  Settle(loadFat(freeFat(saveFat(
    writeFileToFAT(NewFat, a, <<x, y, y>>, 0, FALSE, NewAddr(NewFat)).fs))))

MCGranted == {<<a, {}>>}

Typed(cmd, names) ==
  [cmd |-> cmd, names |-> names, in |-> None, out |-> None, mode |-> "write",
   background |-> FALSE]

\* cat < a > b, cat a >> a, cat a, cp a b, in the background touch b, jobs > b and
\* an unknown command.
MCLines ==
  {[Typed("cat", <<>>) EXCEPT !.in = a, !.out = b],
   [Typed("cat", <<a>>) EXCEPT !.out = a, !.mode = "append"],
   Typed("cat", <<a>>), Typed("cp", <<a, b>>),
   [Typed("touch", <<b>>) EXCEPT !.background = TRUE],
   [Typed("builtin", <<>>) EXCEPT !.out = b], Typed("unknown", <<>>)}

MCRedirected == {[Typed("cat", <<a>>) EXCEPT !.out = b]}

\* FairSpec, its fairness spelled out to spare TLC the ENABLED: Step(p) is enabled
\* if and only if p has a program, changes what p is about to do, and only it does
\* so between the start and the end of a program.
MCFairSpec ==
  Spec /\ \A p \in Proc : []<>(prog[p] = NoProgram) \/ []<><<prog'[p] # prog[p]>>_prog
=============================================================================

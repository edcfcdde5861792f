------------------------------ MODULE MCPennfat ------------------------------
(***************************************************************************)
(* Module Pennfat for TLC.                                                 *)
(***************************************************************************)
EXTENDS Pennfat, TLC

CONSTANTS x, y

MCTexts == {<<x>>, <<y, x, y>>}
MCLists == {<<a>> : a \in Name} \cup {l \in Name \X Name : l[1] # l[2]}
MCGranted == {{}, {"r", "w"}}

Symmetry == Permutations(Name)
=============================================================================

------------------------------ MODULE MCLocalMP ------------------------------
(***************************************************************************)
(* Budgets for three instances on rings of five cells: packets alone, one  *)
(* instance coming back; a host that commands twice; one command, with an  *)
(* instance coming back.                                                   *)
(***************************************************************************)
EXTENDS LocalMP

MCBudgets == {[packets |-> 3, commands |-> 0, stays |-> 4],
              [packets |-> 0, commands |-> 2, stays |-> 3],
              [packets |-> 0, commands |-> 1, stays |-> 4]}
=============================================================================

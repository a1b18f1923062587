-------------------------------- MODULE Units --------------------------------
(* The ARM9's timers, divider and square root unit, and a program that uses *)
(* one of them; they share no state.                                        *)
EXTENDS Timers, MathUnits

VARIABLE uses

unitsVars == <<uses, timerVars, mathVars>>

UnitsInit ==
    /\ uses \in {"timers", "divider", "root"}
    /\ TimersInit /\ MathInit

UnitsNext ==
    /\ UNCHANGED uses
    /\ \/ uses = "timers" /\ TimersNext /\ UNCHANGED mathVars
       \/ uses = "divider" /\ DivNext /\ UNCHANGED timerVars
       \/ uses = "root" /\ SqrtNext /\ UNCHANGED timerVars

UnitsSpec == UnitsInit /\ [][UnitsNext]_unitsVars

\* Type invariant.
UnitsTypeOK == TimersTypeOK /\ MathTypeOK /\ uses \in {"timers", "divider", "root"}

\* The results of the divider and the square root unit are right and those of the
\* present operands.
ResultsExact == DivExact /\ SqrtExact
=============================================================================

------------------------------- MODULE MCUnits -------------------------------
EXTENDS Units

MCSteps     == {1, 2}
MCReloads   == {0, 1}
Control(on, up, irq, step) == [on |-> on, up |-> up, irq |-> irq, step |-> step]
MCControls  == {Control(FALSE, FALSE, FALSE, 2), Control(TRUE, FALSE, TRUE, 2),
                Control(TRUE, FALSE, FALSE, 1), Control(TRUE, TRUE, TRUE, 2)}
MCDivValues == {0, 1, 8, 15}
=============================================================================

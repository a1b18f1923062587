-------------------------------- MODULE MCBus --------------------------------
(* Small instances of Bus: every third command is a push or pop, one swaps.  *)
EXTENDS Bus

MCKindOf == [n \in Commands |-> IF n = 4 THEN "swap"
                                ELSE IF n % 3 = 0 THEN "matrix" ELSE "plain"]
MCModesOf == [n \in Channels |-> IF n = 0 THEN {"now", "vblank", "geometry"} ELSE {"cart"}]
=============================================================================

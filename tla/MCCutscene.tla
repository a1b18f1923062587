------------------------------ MODULE MCCutscene ------------------------------
(* Three cutscenes, two of them played from a file. *)
EXTENDS Cutscene

CONSTANTS c1, c2, c3

MCScenes == {c1, c2, c3}
MCMobi   == {c1, c2}
MCTwins  == {<<c1, c2>>}
MCUnskippable == {c2}
MCPost   == [c \in MCScenes |-> IF c = c1 THEN 2 ELSE 0]

\* What may happen besides the user's choices in the menu.
Use(set) == [kind \in {"saved", "chain", "mash", "hotkey", "errors"} |-> kind \in set]

MCUses   == {Use({}), Use({"saved", "hotkey", "errors"}), Use({"saved", "chain"})}
MashUses == {Use({"saved", "mash"})}
==============================================================================

-------------------------------- MODULE MCBgm --------------------------------
(* One song of the sequencer waits for a film, one has no file. *)
EXTENDS BgmReplacement

CONSTANTS field, battle, jingle, credits

MCSequenced == {field, battle, jingle}
MCStreamed  == {credits}
MCReplaced  == {field, battle, credits}
MCDelayed   == {battle}
MCCourses      == {{"film"}, {"pause"}, {"load"}, {"game"}}
=============================================================================

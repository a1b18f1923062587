----------------------------- MODULE MCEmuControl -----------------------------
(***************************************************************************)
(* Two instances.  In MCUses the menus are all there is, with or without   *)
(* stepping frames; or the first instance has hotkeys and may switch       *)
(* itself off while the menus are used.  MCLending steps a frame before    *)
(* the context is lent.                                                    *)
(***************************************************************************)
EXTENDS EmuControl

Menus == [menu |-> {"run", "pause", "unpause", "stop", "import", "borrow", "exit"},
          keys |-> {}, hot |-> {}]
Tools == [menu |-> {"run", "pause", "reset", "step"}, keys |-> {}, hot |-> {}]
Hot   == [menu |-> {"run", "pause", "unpause", "reset"},
          keys |-> {"pause", "unpause", "reset", "stop"}, hot |-> {0}]

MCUses    == {Menus, Tools, Hot}
MCLending == {[menu |-> {"run", "step", "borrow"}, keys |-> {}, hot |-> {}]}
=============================================================================

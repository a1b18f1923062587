----------------------------- MODULE RenderThread -----------------------------
(***************************************************************************)
(* The threaded software 3D renderer (GPU3D_Soft.cpp): the emulation       *)
(* thread, which walks the scanlines of frame after frame (GPU.cpp), and   *)
(* the render thread, which draws ColorBuffer from top to bottom.  They    *)
(* meet in three semaphores and two flags:                                 *)
(*   - line 215 posts RenderStart, and the render thread begins the next   *)
(*     frame, each of whose lines it announces with ScanlineCount;         *)
(*   - drawing a displayed line takes one ScanlineCount (GetLine);         *)
(*   - line 192 takes the RenderDone that the render thread ends with;     *)
(*   - SetupRenderThread brings it to rest and resets the semaphores.      *)
(* Between frames the user saves or loads a state, resets the console or   *)
(* toggles the option; a game may write VCOUNT or wake up from sleep in    *)
(* the middle of a frame.                                                  *)
(***************************************************************************)
EXTENDS Naturals

CONSTANTS Visible,    \* displayed lines (192), also the line of VBlank
          RenderLine, \* the line rendering starts at (215)
          LastLine,   \* the last line of a frame (262)
          Options,    \* the sets of interruptions to consider
          Prompt      \* whether the render thread gets from one semaphore to
                      \* the next before SetupRenderThread runs, and does not
                      \* get in between the two parts of Semaphore_Reset

Interruptions == {"savestate", "load", "reset", "toggle", "vcount", "wake"}

ASSUME RenderAssumption ==
    /\ {Visible, RenderLine, LastLine} \subseteq Nat
    /\ 0 < Visible /\ Visible < RenderLine /\ RenderLine < LastLine
    /\ Options \subseteq SUBSET Interruptions
    /\ Prompt \in BOOLEAN

None  == LastLine + 1
Drawn == 0 .. Visible - 1

VARIABLES
    start, done, count,  \* Sema_RenderStart, Sema_RenderDone, Sema_ScanlineCount
    running,             \* RenderThreadRunning
    rendering,           \* RenderThreadRendering
    threaded,            \* Threaded
    same,                \* RenderFrameIdentical: the next frame needs no drawing
    identical,           \* FrameIdentical
    shown,               \* the lines of ColorBuffer that show the current polygons
    y,                   \* the line the render thread draws
    current,             \* whether it draws the current polygons
    textures,            \* VRAMFlat_Texture: as in VRAM, or as a reset or a load left it
    abort,               \* AbortFrame
    line,                \* the scanline of the frame
    vcount, next,        \* VCount, NextVCount
    taken,               \* what Semaphore_Reset read from available()
    back,                \* where the emulation thread returns to
    use,                 \* the interruptions of this behaviour
    emu, render          \* where the two threads are

semas  == <<start, done, count>>
flags  == <<running, rendering, threaded>>
image  == <<same, identical, shown, y, current, textures>>
lcd    == <<abort, line, vcount, next>>
vars   == <<semas, flags, image, lcd, taken, back, use, emu, render>>

Init ==
    /\ start = 0 /\ done = 0 /\ count = 0
    /\ running = FALSE /\ rendering = FALSE /\ threaded = FALSE
    /\ same = FALSE /\ identical = FALSE
    /\ shown = Drawn /\ y = 0 /\ current = TRUE /\ textures = "coherent"
    /\ abort = FALSE /\ line = 0 /\ vcount = 0 /\ next = None
    /\ taken = 0
    /\ use \in Options
    /\ back = "between" /\ emu = "between" /\ render = "none"

-----------------------------------------------------------------------------
(* SetupRenderThread, EnableRenderThread and StopRenderThread.  The caller  *)
(* goes to "setup" or "stop" and returns to back.                          *)

Settled == render \in {"none", "draw"} \/ (render = "wait" /\ start = 0)

Call(there, then) == emu' = there /\ back' = then

\* The thread is created, or kept; then RenderStart is reset, which first reads
\* how much there is to take.
Setup ==
    /\ emu = "setup" /\ (Prompt => Settled)
    /\ running' = TRUE
    /\ render' = IF running THEN render ELSE "wait"
    /\ taken' = start
    /\ emu' = "reset"
    /\ UNCHANGED <<semas, rendering, threaded, image, lcd, back>>

\* A defective variant: the thread may be rendering still.
SetupResetBlind ==
    /\ emu = "reset" /\ start >= taken
    /\ start' = start - taken
    /\ emu' = "rest"
    /\ UNCHANGED <<done, count, flags, image, lcd, taken, back, render>>

SetupReset ==
    /\ emu = "reset" /\ start >= taken
    /\ start' = start - taken
    /\ emu' = IF rendering THEN "await" ELSE "rest"
    /\ UNCHANGED <<done, count, flags, image, lcd, taken, back, render>>

SetupAwait ==
    /\ emu = "await" /\ done > 0
    /\ done' = done - 1
    /\ emu' = "rest"
    /\ UNCHANGED <<start, count, flags, image, lcd, taken, back, render>>

\* RenderDone, RenderStart and ScanlineCount are reset: nothing was posted to
\* RenderStart since, and nobody else takes from the others.
SetupRest ==
    /\ emu = "rest"
    /\ start' = 0 /\ done' = 0 /\ count' = 0
    /\ emu' = IF back = "state" THEN back ELSE "enable"
    /\ UNCHANGED <<flags, image, lcd, taken, back, render>>

Enable ==
    /\ emu = "enable"
    /\ start' = start + 1
    /\ emu' = IF back = "state" THEN "between" ELSE back
    /\ UNCHANGED <<done, count, flags, image, lcd, taken, back, render>>

Stop ==
    /\ emu = "stop" /\ (Prompt => Settled)
    /\ IF running THEN start' = start + 1 ELSE UNCHANGED start
    /\ running' = FALSE
    /\ emu' = IF running THEN "join" ELSE back
    /\ UNCHANGED <<done, count, rendering, threaded, image, lcd, taken, back, render>>

Join ==
    /\ emu = "join" /\ render = "none"
    /\ emu' = back
    /\ UNCHANGED <<semas, flags, image, lcd, taken, back, render>>

-----------------------------------------------------------------------------
(* Between frames. *)

Toggle ==
    /\ emu = "between" /\ "toggle" \in use
    /\ threaded' = ~threaded
    /\ Call(IF threaded THEN "stop" ELSE "setup", "between")
    /\ UNCHANGED <<semas, running, rendering, image, lcd, taken, render>>

\* The polygons change: what is shown, and still being drawn, is out of date.
NewPolygons == shown' = {} /\ current' = FALSE

\* SoftRenderer::Reset clears the buffers; no polygons are left to draw, but the
\* render thread may be drawing the old ones.  No texture is left either.
Reset ==
    /\ emu = "between" /\ "reset" \in use
    /\ shown' = Drawn /\ current' = FALSE /\ textures' = "cleared"
    /\ Call(IF threaded THEN "setup" ELSE "stop", "between")
    /\ UNCHANGED <<semas, flags, same, identical, y, lcd, taken, render>>

\* GPU3D::DoSavestate.
DoSavestate ==
    /\ emu = "between" /\ use \cap {"savestate", "load"} # {}
    /\ IF threaded THEN Call("setup", "state") ELSE Call("state", "between")
    /\ UNCHANGED <<semas, flags, image, lcd, taken, render>>

\* The state of the 3D engine has been read or replaced; only now may the
\* render thread go on.  A load brings other polygons and textures, and the renderer
\* does not get to know: FrameIdentical stays, and textures are drawn as they were,
\* or not at all, until RenderFrame copies them from VRAM.
SavestateDone ==
    /\ emu = "state"
    /\ \/ "savestate" \in use /\ UNCHANGED <<shown, current, textures>>
       \/ "load" \in use /\ NewPolygons /\ textures' = "stale"
    /\ same' = FALSE
    /\ emu' = IF threaded THEN "enable" ELSE "between"
    /\ UNCHANGED <<semas, flags, identical, y, lcd, taken, back, render>>

-----------------------------------------------------------------------------
(* A frame. *)

StartFrame ==
    /\ emu = "between"
    /\ line' = 0
    /\ emu' = "scanline"
    /\ UNCHANGED <<semas, flags, image, abort, vcount, next, taken, back, render>>

\* StartScanline: the line counter, and at VBlank VCount144, which may wait.
StartScanline ==
    /\ emu = "scanline"
    /\ vcount' = IF line = 0 THEN 0 ELSE IF next # None THEN next ELSE vcount + 1
    /\ next' = None
    /\ emu' = IF vcount' = Visible THEN "vblank" ELSE "hblank"
    /\ UNCHANGED <<semas, flags, image, abort, line, taken, back, render>>

VCount144 ==
    /\ emu = "vblank"
    /\ IF running /\ ~abort
       THEN done > 0 /\ done' = done - 1
       ELSE UNCHANGED done
    /\ emu' = "swap"
    /\ UNCHANGED <<start, count, flags, image, lcd, taken, back, render>>

\* GPU3D::VBlank: the game has or has not sent new polygons.
VBlank ==
    /\ emu = "swap"
    /\ \/ same' = TRUE /\ UNCHANGED <<shown, current>>
       \/ same' = FALSE /\ NewPolygons
    /\ emu' = "hblank"
    /\ UNCHANGED <<semas, flags, identical, y, textures, lcd, taken, back, render>>

\* StartHBlank of a displayed line draws it, from the 3D line GetLine returns.
GetLine ==
    /\ emu = "hblank" /\ vcount < Visible /\ line < Visible
    /\ IF running /\ ~abort
       THEN count > 0 /\ count' = count - 1
       ELSE UNCHANGED count
    /\ emu' = "line"
    /\ UNCHANGED <<start, done, flags, image, lcd, taken, back, render>>

\* VCount215: copy the textures that changed, all of them after a reset or a load, and
\* start the render thread, or render here and now.
RenderFrame ==
    /\ emu = "hblank" /\ vcount = RenderLine
    /\ textures' = "coherent"
    /\ identical' = (same /\ textures = "coherent")
    /\ IF running THEN start' = start + 1 ELSE UNCHANGED start
    /\ shown' = IF ~running /\ ~identical' THEN Drawn ELSE shown
    /\ emu' = "line"
    /\ UNCHANGED <<done, count, flags, same, y, current, lcd, taken, back, render>>

HBlank ==
    /\ emu = "hblank" /\ vcount # RenderLine
    /\ ~(vcount < Visible /\ line < Visible)
    /\ emu' = "line"
    /\ UNCHANGED <<semas, flags, image, lcd, taken, back, render>>

\* The next line, or FinishFrame.
EndLine ==
    /\ emu = "line"
    /\ IF vcount < LastLine
       THEN line' = line + 1 /\ emu' = "scanline" /\ UNCHANGED <<abort, back>>
       ELSE /\ abort' = FALSE
            /\ IF abort THEN Call(IF threaded THEN "setup" ELSE "stop", "between")
                        ELSE emu' = "between" /\ UNCHANGED back
            /\ UNCHANGED line
    /\ UNCHANGED <<semas, flags, image, vcount, next, taken, render>>

\* The game writes VCOUNT, once a frame and forwards, which bounds a frame.
SetVCount ==
    /\ emu = "line" /\ "vcount" \in use /\ ~abort
    /\ \E v \in vcount + 1 .. LastLine : next' = v
    /\ abort' = TRUE
    /\ UNCHANGED <<semas, flags, image, line, vcount, taken, back, emu, render>>

\* SetIRQ ends sleep mode with a RestartFrame.
Wakeup ==
    /\ emu = "line" /\ "wake" \in use
    /\ Call(IF threaded THEN "setup" ELSE "stop", "line")
    /\ UNCHANGED <<semas, flags, image, lcd, taken, render>>

Emulation ==
    \/ Setup \/ SetupReset \/ SetupAwait \/ SetupRest \/ Enable \/ Stop \/ Join
    \/ SavestateDone
    \/ StartFrame \/ StartScanline \/ VCount144 \/ VBlank \/ GetLine \/ RenderFrame
    \/ HBlank \/ EndLine

Request == \/ Toggle \/ Reset \/ SetVCount \/ Wakeup
           \/ DoSavestate

-----------------------------------------------------------------------------
(* RenderThreadFunc. *)

Acquire ==
    /\ render = "wait" /\ start > 0
    /\ Prompt => emu # "reset"
    /\ start' = start - 1
    /\ render' = IF running THEN "begin" ELSE "none"
    /\ UNCHANGED <<done, count, flags, image, lcd, taken, back, emu>>

\* A defective variant: nothing to draw, nothing announced.
BeginSilent ==
    /\ render = "begin"
    /\ rendering' = TRUE
    /\ y' = 0 /\ current' = (textures # "stale")
    /\ IF identical
       THEN render' = "done" /\ UNCHANGED shown
       ELSE shown' = {} /\ render' = "draw"
    /\ UNCHANGED <<semas, running, threaded, same, identical, textures, lcd, taken, back, emu>>

\* Begin to draw into cleared buffers, or announce all lines at once when
\* nothing changed.
Begin ==
    /\ render = "begin"
    /\ rendering' = TRUE
    /\ y' = 0 /\ current' = (textures # "stale")
    /\ IF identical
       THEN count' = count + Visible /\ render' = "done" /\ UNCHANGED shown
       ELSE shown' = {} /\ render' = "draw" /\ UNCHANGED count
    /\ UNCHANGED <<start, done, running, threaded, same, identical, textures, lcd, taken, back, emu>>

\* A defective variant: a line is announced before its final pass.
DrawLineEarly ==
    /\ render = "draw"
    /\ shown' = IF y > 0 THEN shown \cup {y - 1} ELSE shown
    /\ IF y < Visible
       THEN count' = count + 1 /\ y' = y + 1 /\ UNCHANGED render
       ELSE render' = "done" /\ UNCHANGED <<count, y>>
    /\ UNCHANGED <<start, done, flags, same, identical, current, textures, lcd, taken, back, emu>>

\* The final pass of a line, then its announcement.
DrawLine ==
    /\ render = "draw"
    /\ shown' = IF current THEN shown \cup {y} ELSE shown \ {y}
    /\ count' = count + 1
    /\ y' = y + 1
    /\ render' = IF y' >= Visible THEN "done" ELSE "draw"
    /\ UNCHANGED <<start, done, flags, same, identical, current, textures, lcd, taken, back, emu>>

Done ==
    /\ render = "done"
    /\ done' = done + 1
    /\ render' = "leave"
    /\ UNCHANGED <<start, count, flags, image, lcd, taken, back, emu>>

Leave ==
    /\ render = "leave"
    /\ rendering' = FALSE
    /\ render' = "wait"
    /\ UNCHANGED <<semas, running, threaded, image, lcd, taken, back, emu>>

Render == Acquire \/ Begin \/ DrawLine \/ Done \/ Leave

Next == (Emulation \/ Request \/ Render) /\ UNCHANGED use
Spec == Init /\ [][Next]_vars

\* Both threads keep running, and a line comes to its end however often the
\* game wakes up.
FairSpec ==
    /\ Spec
    /\ WF_vars(Emulation /\ UNCHANGED use) /\ WF_vars(Render /\ UNCHANGED use)
    /\ SF_vars(EndLine /\ UNCHANGED use)
-----------------------------------------------------------------------------
(* Properties. *)

\* "Protect the GPU state from the main thread": while a state is saved or
\* loaded the render thread does not read it.
NotWhileSaving == emu = "state" => render # "draw"

\* No frame is cut short by a VCOUNT write or a wakeup.
Whole == use \cap {"vcount", "wake"} = {}

\* Types; and the threads keep apart while a state is saved.  When frames are cut
\* short they do not: RenderDone keeps a token for which no line 192 came, and
\* SetupRenderThread takes it for the end of the frame being rendered.
TypeOK ==
    /\ {start, done, count, taken} \subseteq Nat
    /\ {running, rendering, threaded, same, identical, current, abort} \subseteq BOOLEAN
    /\ shown \subseteq Drawn /\ y \in 0 .. Visible
    /\ textures \in {"coherent", "cleared", "stale"}
    /\ line \in 0 .. LastLine /\ vcount \in 0 .. LastLine /\ next \in 0 .. None
    /\ use \in Options
    /\ back \in {"between", "line", "state"}
    /\ emu \in {"between", "setup", "reset", "await", "rest", "enable", "stop", "join",
                "state", "scanline", "vblank", "swap", "hblank", "line"}
    /\ render \in {"none", "wait", "begin", "draw", "done", "leave"}
    /\ Whole => NotWhileSaving

\* "Both threads process scanlines from top-to-bottom": a line GetLine returns is
\* one that has been rendered, from the current polygons, unless a frame was
\* cut short by a VCOUNT write or a wakeup, or a state was loaded since RenderFrame:
\* what the frame after a load displays is never right, see NoneNeeded.
LineRendered ==
    [][ (emu = "hblank" /\ emu' = "line" /\ vcount < Visible /\ line < Visible /\ Whole
            /\ textures # "stale")
            => line \in shown ]_vars

\* "If no rendering is needed, just say we're done": when the render thread announces
\* all lines at once, all of them show the current polygons.  It fails: the thread that
\* is started again after a load decides by the FrameIdentical of the frame before,
\* see RenderThread_load.cfg.
NoneNeeded == [][ (render = "begin" /\ render' = "done" /\ Whole) => shown = Drawn ]_vars

\* "Tell me when you're done, I'll wait here": the emulation thread always gets
\* back from a frame, a savestate, a reset or a change of the option.
Returns == (emu # "between") ~> (emu = "between")
=============================================================================

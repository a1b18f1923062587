-------------------------- MODULE RenderThreadProofs --------------------------
(***************************************************************************)
(* What holds of RenderThread for every number of lines and all uses, when *)
(* the threads are not overtaken between neighbouring instructions         *)
(* (Prompt): its types, that no state is saved while the render thread     *)
(* draws, and that a line is displayed only when it has been drawn.        *)
(***************************************************************************)
EXTENDS RenderThread, TLAPS

\* Inside SetupRenderThread, or EnableRenderThread after it.
Setting == {"reset", "await", "rest", "enable"}

\* The types of single variables.
Counters == start \in Nat /\ done \in Nat /\ count \in Nat /\ taken \in Nat

Flags ==
    /\ running \in BOOLEAN /\ rendering \in BOOLEAN /\ threaded \in BOOLEAN
    /\ same \in BOOLEAN /\ identical \in BOOLEAN /\ current \in BOOLEAN /\ abort \in BOOLEAN

Places ==
    /\ shown \subseteq Drawn /\ y \in 0 .. Visible
    /\ textures \in {"coherent", "cleared", "stale"}
    /\ line \in 0 .. LastLine /\ vcount \in 0 .. LastLine /\ next \in 0 .. None
    /\ use \in Options
    /\ back \in {"between", "line", "state"}
    /\ emu \in {"between", "setup", "reset", "await", "rest", "enable", "stop", "join",
                "state", "scanline", "vblank", "swap", "hblank", "line"}
    /\ render \in {"none", "wait", "begin", "draw", "done", "leave"}

Types == Counters /\ Flags /\ Places

\* The emulation thread is at the end of a line, or in a wakeup there.
AtLine ==
    \/ emu = "line"
    \/ emu \in Setting \cup {"setup", "stop", "join"} /\ back = "line"

\* VCOUNT runs ahead of the lines and never backwards within a frame.
Lines ==
    /\ emu = "scanline" /\ line > 0 =>
           line <= vcount + 1 /\ vcount < LastLine /\ (next # None => vcount < next)
    /\ emu \in {"vblank", "swap", "hblank"} => line <= vcount /\ next = None
    /\ AtLine => line <= vcount /\ (next # None => vcount < next)
    /\ emu = "state" => back # "line"
    /\ render = "draw" => y < Visible

\* There is a render thread when there should be one, and it is in a frame when it says so.
Threads ==
    /\ rendering <=> render \in {"draw", "done", "leave"}
    /\ emu \notin {"setup", "stop"} => (running <=> threaded)
    /\ emu \in Setting \cup {"setup"} => threaded
    /\ emu \in {"stop", "join"} => ~threaded
    /\ running => render # "none"
    /\ ~running /\ emu # "join" => render = "none"

\* Frames that are not cut short.
Timing ==
    /\ ~abort /\ next = None /\ back # "line"
    /\ emu = "scanline" /\ line > 0 => line = vcount + 1
    /\ emu \in {"vblank", "swap"} => vcount = Visible
    /\ emu \in {"vblank", "swap", "hblank", "line"} => line = vcount

\* The emulation thread has announced a frame and not taken its RenderDone yet.
Due ==
    \/ emu \in {"between", "setup", "stop", "vblank"}
    \/ emu = "scanline" /\ (line <= Visible \/ line > RenderLine)
    \/ emu = "hblank" /\ (vcount < Visible \/ vcount > RenderLine)
    \/ emu = "line" /\ (vcount < Visible \/ vcount >= RenderLine)

\* It has taken it, and not announced the next.
Idle ==
    \/ emu = "swap"
    \/ emu = "scanline" /\ Visible < line /\ line <= RenderLine
    \/ emu = "hblank" /\ Visible <= vcount /\ vcount <= RenderLine
    \/ emu = "line" /\ Visible <= vcount /\ vcount < RenderLine

\* Lines whose ScanlineCount has been taken.
Consumed ==
    CASE emu = "scanline" /\ line <= Visible -> line
      [] emu = "vblank" -> Visible
      [] emu = "hblank" /\ vcount < Visible -> vcount
      [] emu = "line" /\ vcount < Visible -> vcount + 1
      [] OTHER -> 0

\* One frame is announced, begun or done, once.
OneRound ==
    \/ start = 1 /\ done = 0 /\ render \in {"leave", "wait"}
    \/ start = 0 /\ done = 0 /\ render \in {"begin", "draw", "done"}
    \/ start = 0 /\ done = 1 /\ render \in {"leave", "wait"}

\* Lines of that frame the render thread has announced.
Announced ==
    IF start = 1 \/ render = "begin" THEN 0 ELSE IF render = "draw" THEN y ELSE Visible

\* While a frame is due the tokens are its own.
Tokens ==
    /\ running /\ Due => OneRound /\ count + Consumed = Announced
    /\ running /\ Idle => start = 0 /\ done = 0 /\ count = 0 /\ render \in {"leave", "wait"}

\* SetupRenderThread leaves the render thread at rest.
Settling ==
    /\ emu \in {"reset", "await"} =>
           /\ start = 0 /\ taken = 0 /\ render \in {"draw", "done", "leave", "wait"}
           /\ render \in {"draw", "done"} => done = 0
    /\ emu \in {"rest", "enable"} => start = 0 /\ render \in {"leave", "wait"}
    /\ emu = "enable" => done = 0 /\ count = 0
    /\ emu = "state" /\ running =>
           start = 0 /\ done = 0 /\ count = 0 /\ render \in {"leave", "wait"}

\* StopRenderThread wakes the thread once.
Stopping ==
    /\ ~running /\ emu # "join" => start = 0
    /\ emu = "join" /\ render = "none" => start = 0
    /\ emu = "join" /\ render # "none" => start = 1 /\ render # "begin"

\* A frame that is due is drawn from top to bottom from the current polygons, and without
\* a render thread everything is drawn at once; a frame that need not be drawn is shown.
Complete ==
    /\ emu \in {"between", "stop", "join", "scanline", "vblank", "hblank", "line"}
           /\ render = "draw" => current /\ 0 .. y - 1 \subseteq shown
    /\ running /\ emu \in {"between", "stop", "scanline", "vblank", "hblank", "line"} /\ Due
           /\ (render = "done" \/ done = 1) => shown = Drawn
    /\ emu = "join" /\ render # "draw" => shown = Drawn
    /\ ~running /\ emu \in {"between", "setup", "stop", "state"} => shown = Drawn
    /\ ~running /\ emu \in {"scanline", "vblank", "hblank", "line"} /\ Due => shown = Drawn
    /\ identical /\ ~Idle => shown = Drawn
    /\ Idle /\ same => shown = Drawn
    /\ emu = "swap" => shown = Drawn

\* Except between a load and the RenderFrame after it.
Picture ==
    /\ render = "draw" => ~identical
    /\ textures # "stale" => Complete

\* What frames that are not cut short have in addition.
WholeInv == Timing /\ Tokens /\ Settling /\ Stopping /\ Picture

\* The inductive invariant.
IInv == Types /\ Lines /\ Threads /\ (Whole => WholeInv)

\* SetupRenderThread, StopRenderThread and what calls them between frames keep it.
LEMMA SetupSteps ==
    ASSUME Prompt, IInv, UNCHANGED use, Setup \/ SetupReset \/ SetupAwait \/ SetupRest
      \/ Enable \/ Stop \/ Join \/ Toggle \/ Reset \/ DoSavestate \/ SavestateDone
    PROVE  IInv'
  <1> USE RenderAssumption DEF None, Drawn, semas, flags, image, lcd, IInv, Types,
    Counters, Flags, Places
  <1>1. CASE Setup
    <2>1. Types'
      BY <1>1 DEF Setup, Settled
    <2>2. Lines' /\ Threads'
      BY <1>1 DEF Lines, AtLine, Threads, Setup, Settled
    <2>3. ASSUME Whole' PROVE Timing' /\ Settling' /\ Stopping'
      BY <1>1, <2>3 DEF Whole, WholeInv, Timing, Tokens, OneRound, Due, Settling, Stopping,
        Setup, Settled
    <2>4. ASSUME Whole' PROVE Tokens'
      BY <1>1, <2>1, <2>4 DEF Whole, WholeInv, Tokens, Due, Idle, Setup, Settled
    <2>5. ASSUME Whole' PROVE Picture'
      BY <1>1, <2>5 DEF Whole, WholeInv, Idle, Picture, Complete, Setup, Settled
    <2>6. QED BY <2>1, <2>2, <2>3, <2>4, <2>5 DEF WholeInv
  <1>2. CASE SetupReset
    <2>1. Types'
      BY <1>2 DEF SetupReset
    <2>2. Lines' /\ Threads'
      BY <1>2 DEF Lines, AtLine, Threads, Setting, SetupReset
    <2>3. ASSUME Whole' PROVE Timing' /\ Settling' /\ Stopping'
      BY <1>2, <2>3 DEF Whole, WholeInv, Threads, Timing, Settling, Stopping, SetupReset
    <2>4. ASSUME Whole' PROVE Tokens'
      BY <1>2, <2>1, <2>4 DEF Whole, WholeInv, Tokens, Due, Idle, SetupReset
    <2>5. ASSUME Whole' PROVE Picture'
      BY <1>2, <2>5 DEF Whole, WholeInv, Idle, Picture, Complete, SetupReset
    <2>6. QED BY <2>1, <2>2, <2>3, <2>4, <2>5 DEF WholeInv
  <1>3. CASE SetupAwait
    <2>1. Types'
      BY <1>3 DEF SetupAwait
    <2>2. Lines' /\ Threads'
      BY <1>3 DEF Lines, AtLine, Threads, Setting, SetupAwait
    <2>3. ASSUME Whole' PROVE Timing' /\ Settling' /\ Stopping'
      BY <1>3, <2>3 DEF Whole, WholeInv, Timing, Settling, Stopping, SetupAwait
    <2>4. ASSUME Whole' PROVE Tokens'
      BY <1>3, <2>1, <2>4 DEF Whole, WholeInv, Tokens, Due, Idle, SetupAwait
    <2>5. ASSUME Whole' PROVE Picture'
      BY <1>3, <2>5 DEF Whole, WholeInv, Idle, Picture, Complete, SetupAwait
    <2>6. QED BY <2>1, <2>2, <2>3, <2>4, <2>5 DEF WholeInv
  <1>4. CASE SetupRest
    <2>1. Types'
      BY <1>4 DEF SetupRest
    <2>2. Lines' /\ Threads'
      BY <1>4 DEF Lines, AtLine, Threads, Setting, SetupRest
    <2>3. ASSUME Whole' PROVE Timing' /\ Settling' /\ Stopping'
      BY <1>4, <2>3 DEF Whole, WholeInv, Timing, Settling, Stopping, SetupRest
    <2>4. ASSUME Whole' PROVE Tokens'
      BY <1>4, <2>1, <2>4 DEF Whole, WholeInv, Tokens, Due, Settling, SetupRest
    <2>5. ASSUME Whole' PROVE Picture'
      BY <1>4, <2>5 DEF Whole, WholeInv, Threads, Idle, Setting, Picture, Complete, SetupRest
    <2>6. QED BY <2>1, <2>2, <2>3, <2>4, <2>5 DEF WholeInv
  <1>5. CASE Enable
    <2>1. Types'
      BY <1>5 DEF Enable
    <2>2. Lines' /\ Threads'
      BY <1>5 DEF Lines, AtLine, Threads, Setting, Enable
    <2>3. ASSUME Whole' PROVE Timing' /\ Settling' /\ Stopping'
      BY <1>5, <2>3 DEF Whole, WholeInv, Threads, Timing, Settling, Stopping, Enable
    <2>4. ASSUME Whole' PROVE Tokens'
      BY <1>5, <2>1, <2>4 DEF Whole, WholeInv, Timing, Tokens, OneRound, Announced,
        Consumed, Idle, Settling, Enable
    <2>5. ASSUME Whole' PROVE Picture'
      BY <1>5, <2>5 DEF Whole, WholeInv, Threads, Timing, Idle, Settling, Picture, Complete, Enable
    <2>6. QED BY <2>1, <2>2, <2>3, <2>4, <2>5 DEF WholeInv
  <1>6. CASE Stop
    <2>1. Types'
      <3>1. Counters'
        BY <1>6 DEF Stop
      <3>2. Flags'
        BY <1>6 DEF Stop
      <3>3. Places'
        BY <1>6 DEF Stop
      <3>4. QED BY <3>1, <3>2, <3>3
    <2>2. Lines' /\ Threads'
      BY <1>6 DEF Lines, AtLine, Threads, Setting, Stop, Settled
    <2>3. ASSUME Whole' PROVE Timing' /\ Settling' /\ Stopping'
      BY <1>6, <2>3 DEF Whole, WholeInv, Timing, Tokens, OneRound, Due, Settling, Stopping,
        Stop, Settled
    <2>4. ASSUME Whole' PROVE Tokens'
      BY <1>6, <2>1, <2>4 DEF Whole, WholeInv, Tokens, Stop, Settled
    <2>5. ASSUME Whole' PROVE Picture'
      BY <1>6, <2>5 DEF Whole, WholeInv, Tokens, OneRound, Due, Idle, Picture, Complete, Stop, Settled
    <2>6. QED BY <2>1, <2>2, <2>3, <2>4, <2>5 DEF WholeInv
  <1>7. CASE Join
    <2>1. Types'
      BY <1>7 DEF Join
    <2>2. Lines' /\ Threads'
      BY <1>7 DEF Lines, AtLine, Threads, Setting, Join
    <2>3. ASSUME Whole' PROVE Timing' /\ Settling' /\ Stopping'
      BY <1>7, <2>3 DEF Whole, WholeInv, Threads, Timing, Settling, Stopping, Join
    <2>4. ASSUME Whole' PROVE Tokens'
      BY <1>7, <2>1, <2>4 DEF Whole, WholeInv, Threads, Tokens, Join
    <2>5. ASSUME Whole' PROVE Picture'
      BY <1>7, <2>5 DEF Whole, WholeInv, Picture, Complete, Join
    <2>6. QED BY <2>1, <2>2, <2>3, <2>4, <2>5 DEF WholeInv
  <1>8. CASE Toggle
    <2>1. Types'
      BY <1>8 DEF Toggle, Call
    <2>2. Lines' /\ Threads'
      BY <1>8 DEF Lines, AtLine, Threads, Setting, Toggle, Call
    <2>3. ASSUME Whole' PROVE Timing' /\ Settling' /\ Stopping'
      BY <1>8, <2>3 DEF Whole, WholeInv, Timing, Settling, Stopping, Toggle, Call
    <2>4. ASSUME Whole' PROVE Tokens'
      BY <1>8, <2>1, <2>4 DEF Whole, WholeInv, Tokens, OneRound, Announced, Consumed, Due,
        Idle, Toggle, Call
    <2>5. ASSUME Whole' PROVE Picture'
      BY <1>8, <2>5 DEF Whole, WholeInv, Due, Idle, Picture, Complete, Toggle, Call
    <2>6. QED BY <2>1, <2>2, <2>3, <2>4, <2>5 DEF WholeInv
  <1>9. CASE Reset
    <2>1. Types'
      BY <1>9 DEF Reset, Call
    <2>2. Lines' /\ Threads'
      BY <1>9 DEF Lines, AtLine, Threads, Setting, Reset, Call
    <2>3. ASSUME Whole' PROVE Timing' /\ Settling' /\ Stopping'
      BY <1>9, <2>3 DEF Whole, WholeInv, Timing, Settling, Stopping, Reset, Call
    <2>4. ASSUME Whole' PROVE Tokens'
      BY <1>9, <2>1, <2>4 DEF Whole, WholeInv, Tokens, OneRound, Announced, Consumed, Due,
        Idle, Reset, Call
    <2>5. ASSUME Whole' PROVE Picture'
      BY <1>9, <2>5 DEF Whole, WholeInv, Threads, Picture, Complete, Reset, Call
    <2>6. QED BY <2>1, <2>2, <2>3, <2>4, <2>5 DEF WholeInv
  <1>10. CASE DoSavestate
    <2>1. Types'
      BY <1>10 DEF DoSavestate, Call
    <2>2. Lines' /\ Threads'
      BY <1>10 DEF Lines, AtLine, Threads, Setting, DoSavestate, Call
    <2>3. ASSUME Whole' PROVE Timing' /\ Settling' /\ Stopping'
      BY <1>10, <2>3 DEF Whole, WholeInv, Threads, Timing, Settling, Stopping, DoSavestate,
        Call
    <2>4. ASSUME Whole' PROVE Tokens'
      BY <1>10, <2>1, <2>4 DEF Whole, WholeInv, Tokens, OneRound, Announced, Consumed, Due,
        Idle, DoSavestate, Call
    <2>5. ASSUME Whole' PROVE Picture'
      BY <1>10, <2>5 DEF Whole, WholeInv, Idle, Picture, Complete, DoSavestate, Call
    <2>6. QED BY <2>1, <2>2, <2>3, <2>4, <2>5 DEF WholeInv
  <1>11. CASE SavestateDone
    <2>1. Types'
      <3>1. /\ emu = "state" /\ same' = FALSE /\ emu' \in {"enable", "between"}
            /\ UNCHANGED <<start, done, count, running, rendering, threaded, identical, y,
                           abort, line, vcount, next, taken, back, render>>
        BY <1>11 DEF SavestateDone
      <3>2. shown' \subseteq Drawn /\ current' \in BOOLEAN
            /\ textures' \in {"coherent", "cleared", "stale"}
        BY <1>11 DEF SavestateDone, NewPolygons
      <3>3. QED BY <3>1, <3>2
    <2>2. Lines' /\ Threads'
      BY <1>11 DEF Lines, AtLine, Threads, Setting, SavestateDone
    <2>3. ASSUME Whole' PROVE Timing' /\ Settling' /\ Stopping'
      BY <1>11, <2>3 DEF Whole, WholeInv, Threads, Timing, Settling, Stopping, SavestateDone
    <2>4. ASSUME Whole' PROVE Tokens'
      BY <1>11, <2>1, <2>4 DEF Whole, WholeInv, Threads, Tokens, Due, Settling,
        SavestateDone
    <2>5. ASSUME Whole' PROVE Picture'
      BY <1>11, <2>5 DEF Whole, WholeInv, Threads, Idle, Picture, Complete, SavestateDone
    <2>6. QED BY <2>1, <2>2, <2>3, <2>4, <2>5 DEF WholeInv
  <1>12. QED BY <1>1, <1>2, <1>3, <1>4, <1>5, <1>6, <1>7, <1>8, <1>9, <1>10, <1>11

\* So do the steps of a frame in the emulation thread.
LEMMA FrameSteps ==
    ASSUME Prompt, IInv, UNCHANGED use, StartFrame \/ StartScanline \/ VCount144
      \/ VBlank \/ GetLine \/ RenderFrame \/ HBlank \/ EndLine \/ SetVCount \/ Wakeup
    PROVE  IInv'
  <1> USE RenderAssumption DEF None, Drawn, semas, flags, image, lcd, IInv, Types,
    Counters, Flags, Places
  <1>1. CASE StartFrame
    <2>1. Types'
      BY <1>1 DEF StartFrame
    <2>2. Lines' /\ Threads'
      BY <1>1 DEF Lines, AtLine, Threads, Setting, StartFrame
    <2>3. ASSUME Whole' PROVE Timing' /\ Settling' /\ Stopping'
      BY <1>1, <2>3 DEF Whole, WholeInv, Timing, Settling, Stopping, StartFrame
    <2>4. ASSUME Whole' PROVE Tokens'
      BY <1>1, <2>1, <2>4 DEF Whole, WholeInv, Tokens, OneRound, Announced, Consumed, Due,
        Idle, StartFrame
    <2>5. ASSUME Whole' PROVE Picture'
      BY <1>1, <2>5 DEF Whole, WholeInv, Due, Idle, Picture, Complete, StartFrame
    <2>6. QED BY <2>1, <2>2, <2>3, <2>4, <2>5 DEF WholeInv
  <1>2. CASE StartScanline
    <2>1. Types'
      BY <1>2 DEF Lines, StartScanline
    <2>2. Lines' /\ Threads'
      BY <1>2 DEF Lines, AtLine, Threads, Setting, StartScanline
    <2>3. ASSUME Whole' PROVE Timing' /\ Settling' /\ Stopping'
      BY <1>2, <2>3 DEF Whole, WholeInv, Timing, Settling, Stopping, StartScanline
    <2>4. ASSUME Whole' PROVE Tokens'
      BY <1>2, <2>1, <2>4 DEF Whole, WholeInv, Timing, Tokens, OneRound, Announced,
        Consumed, Due, Idle, StartScanline
    <2>5. ASSUME Whole' PROVE Picture'
      BY <1>2, <2>5 DEF Whole, WholeInv, Timing, Due, Idle, Picture, Complete, StartScanline
    <2>6. QED BY <2>1, <2>2, <2>3, <2>4, <2>5 DEF WholeInv
  <1>3. CASE VCount144
    <2>1. Types'
      BY <1>3 DEF VCount144
    <2>2. Lines' /\ Threads'
      BY <1>3 DEF Lines, AtLine, Threads, Setting, VCount144
    <2>3. ASSUME Whole' PROVE Timing' /\ Settling' /\ Stopping'
      BY <1>3, <2>3 DEF Whole, WholeInv, Timing, Settling, Stopping, VCount144
    <2>4. ASSUME Whole' PROVE Tokens'
      BY <1>3, <2>1, <2>4 DEF Whole, WholeInv, Timing, Tokens, OneRound, Announced,
        Consumed, Due, VCount144
    <2>5. ASSUME Whole' PROVE Picture'
      BY <1>3, <2>5 DEF Whole, WholeInv, Timing, Tokens, OneRound, Due, Picture, Complete, VCount144
    <2>6. QED BY <2>1, <2>2, <2>3, <2>4, <2>5 DEF WholeInv
  <1>4. CASE VBlank
    <2>1. Types'
      <3>1. /\ emu' = "hblank"
            /\ UNCHANGED <<start, done, count, running, rendering, threaded, identical, y,
                           textures, abort, line, vcount, next, taken, back, render>>
        BY <1>4 DEF VBlank
      <3>2. shown' \subseteq Drawn /\ current' \in BOOLEAN /\ same' \in BOOLEAN
        BY <1>4 DEF VBlank, NewPolygons
      <3>3. QED BY <3>1, <3>2
    <2>2. Lines' /\ Threads'
      BY <1>4 DEF Lines, AtLine, Threads, Setting, VBlank, NewPolygons
    <2>3. ASSUME Whole' PROVE Timing' /\ Settling' /\ Stopping'
      BY <1>4, <2>3 DEF Whole, WholeInv, Timing, Settling, Stopping, VBlank, NewPolygons
    <2>4. ASSUME Whole' PROVE Tokens'
      BY <1>4, <2>1, <2>4 DEF Whole, WholeInv, Timing, Tokens, Due, Idle, VBlank,
        NewPolygons
    <2>5. ASSUME Whole' PROVE Picture'
      BY <1>4, <2>5 DEF Whole, WholeInv, Threads, Timing, Tokens, Due, Idle, Picture, Complete,
        VBlank, NewPolygons
    <2>6. QED BY <2>1, <2>2, <2>3, <2>4, <2>5 DEF WholeInv
  <1>5. CASE GetLine
    <2>1. Types'
      BY <1>5 DEF GetLine
    <2>2. Lines' /\ Threads'
      BY <1>5 DEF Lines, AtLine, Threads, Setting, GetLine
    <2>3. ASSUME Whole' PROVE Timing' /\ Settling' /\ Stopping'
      BY <1>5, <2>3 DEF Whole, WholeInv, Timing, Settling, Stopping, GetLine
    <2>4. ASSUME Whole' PROVE Tokens'
      BY <1>5, <2>1, <2>4 DEF Whole, WholeInv, Timing, Tokens, OneRound, Announced,
        Consumed, Due, Idle, GetLine
    <2>5. ASSUME Whole' PROVE Picture'
      BY <1>5, <2>5 DEF Whole, WholeInv, Due, Idle, Picture, Complete, GetLine
    <2>6. QED BY <2>1, <2>2, <2>3, <2>4, <2>5 DEF WholeInv
  <1>6. CASE RenderFrame
    <2>1. Types'
      <3>1. CASE running
        BY <1>6, <3>1 DEF RenderFrame
      <3>2. CASE ~running
        BY <1>6, <3>2 DEF RenderFrame
      <3>3. QED BY <3>1, <3>2
    <2>2. Lines' /\ Threads'
      BY <1>6 DEF Lines, AtLine, Threads, Setting, RenderFrame
    <2>3. ASSUME Whole' PROVE Timing' /\ Settling' /\ Stopping'
      BY <1>6, <2>3 DEF Whole, WholeInv, Timing, Settling, Stopping, RenderFrame
    <2>4. ASSUME Whole' PROVE Tokens'
      BY <1>6, <2>1, <2>4 DEF Whole, WholeInv, Tokens, OneRound, Announced, Consumed, Idle,
        RenderFrame
    <2>5. ASSUME Whole' PROVE Picture'
      <3>1. CASE running
        <4>1. Idle /\ done = 0 /\ render \in {"leave", "wait"} /\ Picture
          BY <1>6, <2>5, <3>1 DEF Whole, WholeInv, Tokens, Idle, RenderFrame
        <4>2. identical' => shown' = Drawn
          BY <1>6, <3>1, <4>1 DEF Picture, Complete, RenderFrame
        <4>3. /\ emu' = "line" /\ vcount' = RenderLine /\ running' /\ done' = 0
              /\ render' \in {"leave", "wait"}
          BY <1>6, <3>1, <4>1 DEF RenderFrame
        <4>4. QED BY <4>2, <4>3 DEF Idle, Picture, Complete
      <3>2. CASE ~running
        BY <1>6, <2>5, <3>2 DEF Whole, WholeInv, Threads, Tokens, Idle, Picture, Complete,
          RenderFrame
      <3>3. QED BY <3>1, <3>2
    <2>6. QED BY <2>1, <2>2, <2>3, <2>4, <2>5 DEF WholeInv
  <1>7. CASE HBlank
    <2>1. Types'
      BY <1>7 DEF HBlank
    <2>2. Lines' /\ Threads'
      BY <1>7 DEF Lines, AtLine, Threads, Setting, HBlank
    <2>3. ASSUME Whole' PROVE Timing' /\ Settling' /\ Stopping'
      BY <1>7, <2>3 DEF Whole, WholeInv, Timing, Settling, Stopping, HBlank
    <2>4. ASSUME Whole' PROVE Tokens'
      BY <1>7, <2>1, <2>4 DEF Whole, WholeInv, Timing, Tokens, OneRound, Announced,
        Consumed, Due, Idle, HBlank
    <2>5. ASSUME Whole' PROVE Picture'
      BY <1>7, <2>5 DEF Whole, WholeInv, Due, Idle, Picture, Complete, HBlank
    <2>6. QED BY <2>1, <2>2, <2>3, <2>4, <2>5 DEF WholeInv
  <1>8. CASE EndLine
    <2>1. Types'
      <3>1. CASE vcount < LastLine
        BY <1>8, <3>1 DEF Lines, AtLine, EndLine, Call
      <3>2. CASE ~(vcount < LastLine)
        BY ZenonT(60), <1>8, <3>2 DEF EndLine, Call
      <3>3. QED BY <3>1, <3>2
    <2>2. Lines' /\ Threads'
      BY <1>8 DEF Lines, AtLine, Threads, Setting, EndLine, Call
    <2>3. ASSUME Whole' PROVE Timing' /\ Settling' /\ Stopping'
      BY <1>8, <2>3 DEF Whole, WholeInv, Timing, Settling, Stopping, EndLine, Call
    <2>4. ASSUME Whole' PROVE Tokens'
      BY <1>8, <2>1, <2>4 DEF Whole, WholeInv, Timing, Tokens, OneRound, Announced,
        Consumed, Due, Idle, EndLine, Call
    <2>5. ASSUME Whole' PROVE Picture'
      BY <1>8, <2>5 DEF Whole, WholeInv, Timing, Due, Idle, Picture, Complete, EndLine, Call
    <2>6. QED BY <2>1, <2>2, <2>3, <2>4, <2>5 DEF WholeInv
  <1>9. CASE SetVCount
    <2>1. Types'
      BY <1>9 DEF SetVCount
    <2>2. Lines' /\ Threads'
      BY <1>9 DEF Lines, AtLine, Threads, SetVCount
    <2>3. ASSUME Whole' PROVE Timing' /\ Settling' /\ Stopping'
      BY <1>9, <2>3 DEF Whole, WholeInv, Timing, Settling, Stopping, SetVCount
    <2>4. ASSUME Whole' PROVE Tokens'
      BY <1>9, <2>1, <2>4 DEF Whole, WholeInv, Tokens, SetVCount
    <2>5. ASSUME Whole' PROVE Picture'
      BY <1>9, <2>5 DEF Whole, WholeInv, Picture, Complete, SetVCount
    <2>6. QED BY <2>1, <2>2, <2>3, <2>4, <2>5 DEF WholeInv
  <1>10. CASE Wakeup
    <2>1. Types'
      BY <1>10 DEF Wakeup, Call
    <2>2. Lines' /\ Threads'
      BY <1>10 DEF Lines, AtLine, Threads, Setting, Wakeup, Call
    <2>3. ASSUME Whole' PROVE Timing' /\ Settling' /\ Stopping'
      BY <1>10, <2>3 DEF Whole, WholeInv, Timing, Settling, Stopping, Wakeup, Call
    <2>4. ASSUME Whole' PROVE Tokens'
      BY <1>10, <2>1, <2>4 DEF Whole, WholeInv, Tokens, Wakeup, Call
    <2>5. ASSUME Whole' PROVE Picture'
      BY <1>10, <2>5 DEF Whole, WholeInv, Picture, Complete, Wakeup, Call
    <2>6. QED BY <2>1, <2>2, <2>3, <2>4, <2>5 DEF WholeInv
  <1>11. QED BY <1>1, <1>2, <1>3, <1>4, <1>5, <1>6, <1>7, <1>8, <1>9, <1>10

\* And those of the render thread.
LEMMA RenderSteps ==
    ASSUME Prompt, IInv, UNCHANGED use, Acquire \/ Begin \/ DrawLine \/ Done \/ Leave
    PROVE  IInv'
  <1> USE RenderAssumption DEF None, Drawn, semas, flags, image, lcd, IInv, Types,
    Counters, Flags, Places
  <1>1. CASE Acquire
    <2>1. Types'
      BY <1>1 DEF Acquire
    <2>2. Lines' /\ Threads'
      BY <1>1 DEF Lines, AtLine, Threads, Acquire
    <2>3. ASSUME Whole' PROVE Timing' /\ Settling' /\ Stopping'
      BY <1>1, <2>3 DEF Whole, WholeInv, Threads, Timing, Settling, Stopping, Acquire
    <2>4. ASSUME Whole' PROVE Tokens'
      BY <1>1, <2>1, <2>4 DEF Whole, WholeInv, Tokens, OneRound, Announced, Consumed, Due,
        Idle, Acquire
    <2>5. ASSUME Whole' PROVE Picture'
      BY <1>1, <2>5 DEF Whole, WholeInv, Due, Idle, Picture, Complete, Acquire
    <2>6. QED BY <2>1, <2>2, <2>3, <2>4, <2>5 DEF WholeInv
  <1>2. CASE Begin
    <2>1. Types'
      <3>1. Counters'
        BY <1>2 DEF Begin
      <3>2. rendering' = TRUE /\ current' \in BOOLEAN
            /\ UNCHANGED <<running, threaded, same, identical, abort>>
        BY <1>2 DEF Begin
      <3>3. shown' \subseteq Drawn /\ y' = 0 /\ render' \in {"draw", "done"}
            /\ UNCHANGED <<textures, line, vcount, next, back, emu>>
        BY <1>2 DEF Begin
      <3>4. QED BY <3>1, <3>2, <3>3
    <2>2. Lines' /\ Threads'
      BY <1>2 DEF Lines, AtLine, Threads, Begin
    <2>3. ASSUME Whole' PROVE Timing' /\ Settling' /\ Stopping'
      BY <1>2, <2>3 DEF Whole, WholeInv, Timing, Settling, Stopping, Begin
    <2>4. ASSUME Whole' PROVE Tokens'
      <3>1. CASE identical
        BY <1>2, <2>1, <2>4, <3>1 DEF Whole, WholeInv, Tokens, OneRound, Announced,
          Consumed, Due, Idle, Begin
      <3>2. CASE ~identical
        BY <1>2, <2>1, <2>4, <3>2 DEF Whole, WholeInv, Tokens, OneRound, Announced,
          Consumed, Due, Idle, Begin
      <3>3. QED BY <3>1, <3>2
    <2>5. ASSUME Whole' PROVE Picture'
      <3>1. CASE identical
        BY <1>2, <2>5, <3>1 DEF Whole, WholeInv, Threads, Tokens, OneRound, Due, Idle, Picture,
          Complete, Begin
      <3>2. CASE ~identical
        <4>1. running /\ emu # "join" /\ ~Idle /\ (Due => done = 0)
          BY <1>2, <2>5 DEF Whole, WholeInv, Threads, Tokens, OneRound, Stopping, Begin
        <4>2. /\ render' = "draw" /\ y' = 0 /\ shown' = {} /\ current' = (textures # "stale")
              /\ UNCHANGED <<emu, line, vcount, running, done, identical, textures>>
          BY <1>2, <3>2 DEF Begin
        <4>3. emu # "swap"
          BY <4>1 DEF Idle
        <4>4. running' /\ emu' # "join" /\ emu' # "swap" /\ ~Idle' /\ ~identical' /\ (Due' => done' # 1)
          BY <3>2, <4>1, <4>2, <4>3 DEF Idle, Due
        <4>5. textures' # "stale" => current' /\ 0 .. y' - 1 \subseteq shown'
          <5>1. textures' # "stale" => current'
            BY <4>2, Zenon
          <5>2. y' = 0
            BY <4>2
          <5>3. 0 .. y' - 1 \subseteq shown'
            BY <5>2
          <5>4. QED BY <5>1, <5>3
        <4>6. ~(render' = "done" \/ done' = 1) \/ ~Due'
          BY <4>2, <4>4
        <4>7. QED
          BY <3>2, <4>2, <4>4, <4>5, <4>6 DEF Picture, Complete
      <3>3. QED BY <3>1, <3>2
    <2>6. QED BY <2>1, <2>2, <2>3, <2>4, <2>5 DEF WholeInv
  <1>3. CASE DrawLine
    <2>1. Types'
      BY <1>3 DEF Lines, DrawLine
    <2>2. Lines' /\ Threads'
      BY <1>3 DEF Lines, AtLine, Threads, DrawLine
    <2>3. ASSUME Whole' PROVE Timing' /\ Settling' /\ Stopping'
      BY <1>3, <2>3 DEF Whole, WholeInv, Timing, Settling, Stopping, DrawLine
    <2>4. ASSUME Whole' PROVE Tokens'
      BY <1>3, <2>1, <2>4 DEF Whole, WholeInv, Tokens, OneRound, Announced, Consumed, Due,
        Idle, DrawLine
    <2>5. ASSUME Whole' PROVE Picture'
      <3>1. y \in Drawn /\ shown' \subseteq Drawn /\ ~identical
        BY <1>3, <2>5 DEF Whole, WholeInv, Lines, Picture, Complete, DrawLine
      <3>2. CASE current /\ 0 .. y - 1 \subseteq shown
        <4>1. shown' = shown \cup {y} /\ y' = y + 1
          BY <1>3, <3>2 DEF DrawLine
        <4>2. 0 .. y' - 1 \subseteq shown'
          BY <4>1, <3>1, <3>2
        <4>3. ASSUME y' >= Visible PROVE shown' = Drawn
          <5>1. Drawn \subseteq 0 .. y' - 1
            BY <4>1, <4>3, <3>1
          <5>2. QED BY <5>1, <4>2, <3>1
        <4>4. QED
          BY <1>3, <2>5, <3>1, <3>2, <4>1, <4>2, <4>3 DEF Whole, WholeInv, Due, Idle,
            Picture, Complete, DrawLine
      <3>3. CASE ~(current /\ 0 .. y - 1 \subseteq shown)
        BY <1>3, <2>5, <3>1, <3>3 DEF Whole, WholeInv, Threads, Tokens, Idle, Picture, Complete,
          DrawLine
      <3>4. QED BY <3>2, <3>3
    <2>6. QED BY <2>1, <2>2, <2>3, <2>4, <2>5 DEF WholeInv
  <1>4. CASE Done
    <2>1. Types'
      BY <1>4 DEF Done
    <2>2. Lines' /\ Threads'
      BY <1>4 DEF Lines, AtLine, Threads, Done
    <2>3. ASSUME Whole' PROVE Timing' /\ Settling' /\ Stopping'
      BY <1>4, <2>3 DEF Whole, WholeInv, Timing, Settling, Stopping, Done
    <2>4. ASSUME Whole' PROVE Tokens'
      BY <1>4, <2>1, <2>4 DEF Whole, WholeInv, Tokens, OneRound, Announced, Consumed, Due,
        Idle, Done
    <2>5. ASSUME Whole' PROVE Picture'
      BY <1>4, <2>5 DEF Whole, WholeInv, Due, Idle, Picture, Complete, Done
    <2>6. QED BY <2>1, <2>2, <2>3, <2>4, <2>5 DEF WholeInv
  <1>5. CASE Leave
    <2>1. Types'
      BY ZenonT(90), <1>5 DEF Leave
    <2>2. Lines' /\ Threads'
      BY <1>5 DEF Lines, AtLine, Threads, Leave
    <2>3. ASSUME Whole' PROVE Timing' /\ Settling' /\ Stopping'
      BY <1>5, <2>3 DEF Whole, WholeInv, Timing, Settling, Stopping, Leave
    <2>4. ASSUME Whole' PROVE Tokens'
      BY <1>5, <2>1, <2>4 DEF Whole, WholeInv, Tokens, OneRound, Announced, Consumed, Due,
        Idle, Leave
    <2>5. ASSUME Whole' PROVE Picture'
      BY <1>5, <2>5 DEF Whole, WholeInv, Due, Idle, Picture, Complete, Leave
    <2>6. QED BY <2>1, <2>2, <2>3, <2>4, <2>5 DEF WholeInv
  <1>6. QED BY <1>1, <1>2, <1>3, <1>4, <1>5

-----------------------------------------------------------------------------
\* A new renderer has no thread and nothing to draw.
LEMMA InitIInv == ASSUME Prompt, Init PROVE IInv
  <1> USE RenderAssumption DEF Init, None, Drawn
  <1>1. Types
    <2>1. Counters /\ Flags
      BY DEF Counters, Flags
    <2>2. Places
      BY DEF Places
    <2>3. QED BY <2>1, <2>2 DEF Types
  <1>2. Lines /\ Threads
    BY DEF Lines, AtLine, Threads, Setting
  <1>3. Timing /\ Settling /\ Stopping
    BY DEF Timing, Settling, Stopping
  <1>4. Tokens /\ Picture
    BY DEF Tokens, Picture, Complete, Due, Idle
  <1>5. QED BY <1>1, <1>2, <1>3, <1>4 DEF IInv, WholeInv

\* Whichever thread steps, the invariant stays.
LEMMA NextIInv == ASSUME Prompt, IInv, [Next]_vars PROVE IInv'
  <1>1. CASE UNCHANGED vars
    BY <1>1 DEF vars, semas, flags, image, lcd, IInv, Types, Counters, Flags, Places, Lines,
        AtLine, Setting, Threads, Whole, WholeInv, Timing, Tokens, Due, Idle, Consumed,
        OneRound, Announced, Settling, Stopping, Picture, Complete
  <1>2. CASE Next
    BY <1>2, SetupSteps, FrameSteps, RenderSteps DEF Next, Emulation, Request, Render
  <1>3. QED BY <1>1, <1>2

\* In every frame, savestate, reset and change of the option, the tokens of the three
\* semaphores belong to the frame that is due, and the picture to the polygons it shows.
THEOREM Invariance == ASSUME Prompt PROVE Spec => []IInv
  <1>1. Init => IInv
    BY InitIInv
  <1>2. IInv /\ [Next]_vars => IInv'
    BY NextIInv
  <1>3. QED BY <1>1, <1>2, PTL DEF Spec

\* "Protect the GPU state from the main thread": with types as they should be, no
\* state is saved or loaded while the render thread draws a frame, unless a frame
\* was cut short.
THEOREM TypesHold == ASSUME Prompt PROVE Spec => []TypeOK
  <1>1. IInv => TypeOK
    <2> SUFFICES ASSUME IInv PROVE TypeOK
      OBVIOUS
    <2>1. Whole => NotWhileSaving
      BY DEF IInv, Types, Places, Threads, WholeInv, Settling, Stopping, Picture, Complete,
        NotWhileSaving
    <2>2. QED BY <2>1 DEF IInv, Types, Counters, Flags, Places, TypeOK
  <1>2. QED BY <1>1, Invariance, PTL

\* "Both threads process scanlines from top-to-bottom": when GetLine has taken its
\* ScanlineCount, the line it returns has been drawn, from the current polygons; of frames
\* that are not cut short, and once RenderFrame has run after a load.
THEOREM LinesRendered == ASSUME Prompt PROVE Spec => LineRendered
  <1> DEFINE Displayed == /\ emu = "hblank" /\ emu' = "line"
                          /\ vcount < Visible /\ line < Visible /\ Whole
                          /\ textures # "stale"
             Good == Displayed => line \in shown
  <1>1. IInv /\ [Next]_vars => [Good]_vars
    <2> SUFFICES ASSUME IInv, Next, Displayed PROVE line \in shown
      OBVIOUS
    <2>1. GetLine
      BY RenderAssumption DEF Next, Emulation, Request, Render, Setup, SetupReset,
        SetupAwait,
          SetupRest, Enable, Stop, Join, SavestateDone, StartFrame, StartScanline, VCount144,
          VBlank, RenderFrame, HBlank, EndLine, Toggle, Reset, SetVCount, Wakeup, DoSavestate, 
          Acquire, Begin, DrawLine, Done, Leave
    <2>2. WholeInv /\ line = vcount /\ ~abort /\ line \in Nat
      BY DEF IInv, WholeInv, Timing, Types, Places
    <2>3. CASE ~running
      BY <2>2, <2>3, RenderAssumption DEF IInv, WholeInv, Picture, Complete, Due, Drawn
    <2>4. CASE running
      <3>1. count > 0 /\ OneRound /\ count + vcount = Announced
        BY <2>1, <2>2, <2>4 DEF GetLine, IInv, WholeInv, Tokens, Due, Consumed
      <3>2. CASE render = "draw" /\ start = 0
        BY <2>2, <3>1, <3>2 DEF IInv, Types, Counters, Places, WholeInv, Picture, Complete, Announced
      <3>3. CASE render = "done" \/ done = 1
        BY <2>2, <2>4, <3>3, RenderAssumption DEF IInv, WholeInv, Picture, Complete, Due, Drawn
      <3>4. ASSUME start = 1 \/ render = "begin" PROVE FALSE
        <4>1. vcount \in Nat /\ count \in Nat
          BY <2>2 DEF IInv, Types, Counters
        <4>2. Announced = 0
          BY <3>4 DEF Announced
        <4>3. QED BY <3>1, <4>1, <4>2
      <3>5. QED BY <3>1, <3>2, <3>3, <3>4 DEF OneRound
    <2>5. QED BY <2>3, <2>4
  <1>2. QED BY <1>1, Invariance, PTL DEF Spec, LineRendered

===============================================================================

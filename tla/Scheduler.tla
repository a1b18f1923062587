------------------------------ MODULE Scheduler ------------------------------
(***************************************************************************)
(* The event scheduler of the emulated console and the loop that runs a    *)
(* frame (NDS.cpp: RunFrame, NextTarget, RunSystem, the sleep variants,    *)
(* ScheduleEvent), with the event sources whose interplay it must get      *)
(* right: the LCD line timing (GPU.cpp), the display FIFO, sound mixing,   *)
(* the RTC, and one-shot transfers started by either CPU.                  *)
(*                                                                         *)
(* A frame is a sequence of slices.  In a slice the ARM9 runs to a target  *)
(* chosen from the earliest event, the ARM7 catches up, and RunSystem      *)
(* fires what has come due.  Only differences between timestamps matter,   *)
(* so every time here is relative to SysTimestamp and moves down as        *)
(* SysTimestamp moves up.                                                  *)
(***************************************************************************)
EXTENDS Integers, FiniteSets

CONSTANTS Uses,           \* what the console is used for, see UseType
          MaxIteration,   \* kMaxIterationCycles
          Margin,         \* kIterationCycleMargin
          MaxInstr,       \* the longest instruction, in cycles
          Line, HBlank,   \* LINE_CYCLES, HBLANK_CYCLES
          Lines, Visible, \* scanlines of a frame (263), those displayed (192)
          FrameCycles,    \* the length of a frame spent asleep
          FifoStart, FifoStep, FifoChunks,
          SpuPeriod, RtcPeriod, SpiDelay, DivDelay,
          MaxWrites       \* bound: writes to VCOUNT in a frame

\* SchedList, in the order of the enumeration in NDS.h, which is the order in
\* which RunSystem visits it.
Order  == <<"LCD", "SPU", "RTC", "DisplayFIFO", "SPITransfer", "Div">>
Events == {Order[i] : i \in DOMAIN Order}

UseType == [sources : SUBSET Events,  \* the event sources active beside the LCD
            sleeps : BOOLEAN,         \* whether the ARM7 enters sleep mode
            counts : BOOLEAN,         \* whether a program writes VCOUNT
            stops : BOOLEAN]          \* whether it powers the console off

ASSUME SchedulerAssumption ==
    /\ Uses \subseteq UseType
    /\ \A c \in {MaxIteration, MaxInstr, Line, HBlank, Lines, FrameCycles, FifoStart,
                 FifoStep, FifoChunks, SpuPeriod, RtcPeriod, SpiDelay, DivDelay} :
            c \in Nat \ {0}
    /\ Margin \in Nat /\ MaxWrites \in Nat /\ Visible \in 0 .. Lines
    /\ HBlank < Line

VARIABLES
    use,      \* what the console is used for
    list,     \* SchedList and SchedListMask, and the requests it turned down
    scan,     \* the part of RunSystem's copy of the mask still to visit
    arm9,     \* ARM9Timestamp >> ARM9ClockShift
    arm7,     \* ARM7Timestamp
    target9,  \* ARM9Target >> ARM9ClockShift
    goal,     \* RunFrame's target
    asleep,   \* CPUStop_Sleep
    wakeup,   \* CPUStop_Wakeup
    running,  \* Running
    lines,    \* GPU.TotalScanlines
    vcount,   \* VCount, NextVCount, and the writes to it in this frame
    left,     \* frametarget
    pc        \* where RunFrame is

flags == <<asleep, wakeup>>
clock == <<arm9, arm7, target9, goal, left>>
vars  == <<use, list, scan, clock, flags, running, lines, vcount, pc>>

SetMin(S) == CHOOSE x \in S : \A y \in S : x <= y
Lesser(a, b) == IF a < b THEN a ELSE b

-----------------------------------------------------------------------------
(* ScheduleEvent and CancelEvent as functions of the list. *)

Scheduled(l, e, at, arg) ==
    IF e \in l.pending
    THEN [l EXCEPT !.dropped = @ \cup {e}]
    ELSE [l EXCEPT !.pending = @ \cup {e}, !.due[e] = at, !.arg[e] = arg]

\* A defective variant: the bit in the mask is left set.
NotCancelled(l, e) == l

Cancelled(l, e) == [l EXCEPT !.pending = @ \ {e}]

\* A periodic event is due a delay after its last time, any other a delay
\* after the time of the CPU that runs; event handlers run as the ARM7.
Again(l, e, delay, arg) == Scheduled(l, e, l.due[e] + delay, arg)

\* SysTimestamp moves on by d.  The time of an event that is not pending is
\* never used again, except that of the LCD: the next frame starts from it.
Moved(l, d) ==
    [l EXCEPT !.due = [e \in Events |->
        IF e \in l.pending THEN @[e] - d ELSE IF e = "LCD" THEN @[e] ELSE 0]]

\* NDS::Reset: the LCD starts with the first frame.
ResetList ==
    LET empty == [pending |-> {}, due |-> [e \in Events |-> 0],
                  arg |-> [e \in Events |-> <<"none", 0>>], dropped |-> {}]
        spu   == IF "SPU" \in use.sources
                 THEN Scheduled(empty, "SPU", SpuPeriod, <<"Mix", 0>>) ELSE empty
    IN  IF "RTC" \in use.sources
        THEN Scheduled(spu, "RTC", RtcPeriod, <<"ClockTimer", 0>>) ELSE spu

NoCount == [now |-> 0, next |-> -1, writes |-> 0]

\* VCOUNT at the start of line n: what a program wrote during the line before, or one more.
VCountAt(n) ==
    IF n = 0
    THEN NoCount
    ELSE [vcount EXCEPT !.now = IF vcount.next # -1 THEN vcount.next ELSE @ + 1, !.next = -1]

StartScanline(l, n) ==
    LET fifo == IF "DisplayFIFO" \in use.sources /\ n < Visible
                THEN Scheduled(l, "DisplayFIFO", arm7 + FifoStart, <<"FIFO", 0>>)
                ELSE l
    IN  Again(fifo, "LCD", HBlank, <<"StartHBlank", n>>)

\* A defective variant: the last line is followed by the first, with no frame
\* end in between.
StartHBlankEndless(l, n) ==
    Again(l, "LCD", Line - HBlank, <<"StartScanline", (n + 1) % Lines>>)

\* Which it is depends on VCOUNT, not on the number of the line.
StartHBlank(l, n) ==
    Again(l, "LCD", Line - HBlank,
          <<IF vcount.now < Lines - 1 THEN "StartScanline" ELSE "FinishFrame", n + 1>>)

DisplayFIFO(l, x) ==
    IF x < FifoChunks THEN Again(l, "DisplayFIFO", FifoStep, <<"FIFO", x + 1>>) ELSE l

\* What the handler of e makes of the list.
Handled(l, e) ==
    LET fn == l.arg[e][1]  n == l.arg[e][2]
    IN  CASE fn = "StartScanline" -> StartScanline(l, n)
          [] fn = "StartHBlank"   -> StartHBlank(l, n)
          [] fn = "FIFO"          -> DisplayFIFO(l, n)
          [] fn = "Mix"           -> Again(l, "SPU", SpuPeriod, <<"Mix", 0>>)
          [] fn = "ClockTimer"    -> Again(l, "RTC", RtcPeriod, <<"ClockTimer", 0>>)
          [] OTHER                -> l

-----------------------------------------------------------------------------
Init ==
    /\ use \in Uses
    /\ list = ResetList
    /\ scan = {}
    /\ arm9 = 0 /\ arm7 = 0 /\ target9 = 0 /\ goal = 0 /\ left = 0
    /\ asleep = FALSE /\ wakeup = FALSE
    /\ running = TRUE
    /\ lines = 0
    /\ vcount = NoCount
    /\ pc = "idle"

\* SetIRQ(1, irq): an interrupt the ARM7 has enabled ends sleep mode.
SetIRQ ==
    IF asleep THEN asleep' = FALSE /\ wakeup' = TRUE ELSE UNCHANGED flags

(* Between frames. *)

RunFrame ==
    /\ pc = "idle"
    /\ lines' = 0
    /\ pc' = "top"
    /\ UNCHANGED <<use, list, scan, clock, flags, running, vcount>>

\* The user opens the lid or presses a key the ARM7 waits for.
UserInput ==
    /\ pc = "idle" /\ asleep
    /\ SetIRQ
    /\ UNCHANGED <<use, list, scan, clock, running, lines, vcount, pc>>

Reset ==
    /\ pc = "idle" /\ ~running
    /\ list' = ResetList
    /\ arm9' = 0 /\ arm7' = 0 /\ target9' = 0
    /\ asleep' = FALSE /\ wakeup' = FALSE
    /\ running' = TRUE
    /\ lines' = 0
    /\ vcount' = NoCount
    /\ UNCHANGED <<use, scan, goal, left, pc>>

(* The outer loop of RunFrame. *)

TopStopped ==
    /\ pc = "top" /\ ~running
    /\ pc' = "idle"
    /\ UNCHANGED <<use, list, scan, clock, flags, running, lines, vcount>>

TopAsleep ==
    /\ pc = "top" /\ running /\ asleep
    /\ left' = FrameCycles
    /\ pc' = "sleep"
    /\ UNCHANGED <<use, list, scan, arm9, arm7, target9, goal, flags, running, lines, vcount>>

\* A frame begins at its first scanline, unless it resumes after a sleep.
TopAwake ==
    /\ pc = "top" /\ running /\ ~asleep
    /\ IF wakeup
       THEN UNCHANGED <<list, lines, vcount>>
       ELSE lines' = 0 /\ list' = StartScanline(list, 0) /\ vcount' = VCountAt(0)
    /\ wakeup' = FALSE
    /\ pc' = "slice"
    /\ UNCHANGED <<use, scan, clock, asleep, running>>

EndLoop ==
    /\ pc = "end"
    /\ pc' = IF lines = 0 THEN "top" ELSE "idle"
    /\ UNCHANGED <<use, list, scan, clock, flags, running, lines, vcount>>

(* A slice. *)

Earliest(l, S) == SetMin({l.due[e] : e \in l.pending \cap S})


\* A defective variant: a slice as long as the wait for the next event.
NextTargetUncapped ==
    IF list.pending # {} THEN Earliest(list, Events) ELSE MaxIteration

NextTarget ==
    IF list.pending # {} /\ Earliest(list, Events) < MaxIteration + Margin
    THEN Earliest(list, Events)
    ELSE MaxIteration

StartSlice ==
    /\ pc = "slice"
    /\ IF running /\ lines = 0
       THEN pc' = "arm9" /\ target9' = NextTarget
       ELSE pc' = "end" /\ UNCHANGED target9
    /\ UNCHANGED <<use, list, scan, arm9, arm7, goal, left, flags, running, lines, vcount>>

ARM9Execute ==
    /\ pc = "arm9" /\ arm9 < target9
    /\ \E n \in 1 .. MaxInstr : arm9' = arm9 + n
    /\ UNCHANGED <<use, list, scan, arm7, target9, goal, left, flags, running, lines, vcount, pc>>

\* Halted, the ARM9 skips to its target.
ARM9Halt ==
    /\ pc = "arm9" /\ arm9 < target9
    /\ arm9' = target9
    /\ UNCHANGED <<use, list, scan, arm7, target9, goal, left, flags, running, lines, vcount, pc>>

\* A defective variant: the target is left where it is.
StartDivLate ==
    /\ pc = "arm9" /\ arm9 < target9 /\ "Div" \in use.sources
    /\ list' = Scheduled(Cancelled(list, "Div"), "Div", arm9 + DivDelay, <<"DivDone", 0>>)
    /\ \E n \in 1 .. MaxInstr : arm9' = arm9 + n
    /\ UNCHANGED <<use, scan, arm7, target9, goal, left, flags, running, lines, vcount, pc>>

\* An instruction that starts the divider: Cancel, schedule, and stop earlier
\* if the event comes before the target.
StartDiv ==
    /\ pc = "arm9" /\ arm9 < target9 /\ "Div" \in use.sources
    /\ list' = Scheduled(Cancelled(list, "Div"), "Div", arm9 + DivDelay, <<"DivDone", 0>>)
    /\ target9' = Lesser(target9, arm9 + DivDelay)
    /\ \E n \in 1 .. MaxInstr : arm9' = arm9 + n
    /\ UNCHANGED <<use, scan, arm7, goal, left, flags, running, lines, vcount, pc>>

EndARM9 ==
    /\ pc = "arm9" /\ arm9 >= target9
    /\ goal' = arm9
    /\ pc' = "arm7"
    /\ UNCHANGED <<use, list, scan, arm9, arm7, target9, left, flags, running, lines, vcount>>

ARM7Execute ==
    /\ pc = "arm7" /\ arm7 < goal
    /\ \E n \in 1 .. MaxInstr : arm7' = arm7 + n
    /\ UNCHANGED <<use, list, scan, arm9, target9, goal, left, flags, running, lines, vcount, pc>>

\* An instruction that writes SPIDATA; the busy flag holds further writes off.
StartSPI ==
    /\ pc = "arm7" /\ arm7 < goal /\ "SPITransfer" \in use.sources
    /\ "SPITransfer" \notin list.pending
    /\ list' = Scheduled(list, "SPITransfer", arm7 + SpiDelay, <<"TransferDone", 0>>)
    /\ \E n \in 1 .. MaxInstr : arm7' = arm7 + n
    /\ UNCHANGED <<use, scan, arm9, target9, goal, left, flags, running, lines, vcount, pc>>

\* An instruction of either CPU writes VCOUNT, which takes effect with the next line.
SetVCount ==
    /\ use.counts /\ vcount.writes < MaxWrites
    /\ \/ /\ pc = "arm9" /\ arm9 < target9
          /\ \E n \in 1 .. MaxInstr : arm9' = arm9 + n
          /\ UNCHANGED arm7
       \/ /\ pc = "arm7" /\ arm7 < goal
          /\ \E n \in 1 .. MaxInstr : arm7' = arm7 + n
          /\ UNCHANGED arm9
    /\ \E v \in 0 .. Lines : vcount' = [vcount EXCEPT !.next = v, !.writes = @ + 1]
    /\ UNCHANGED <<use, list, scan, target9, goal, left, flags, running, lines, pc>>

\* HALTCNT = 0xC0.
EnterSleepMode ==
    /\ pc = "arm7" /\ arm7 < goal /\ use.sleeps /\ ~asleep
    /\ asleep' = TRUE
    /\ \E n \in 1 .. MaxInstr : arm7' = arm7 + n
    /\ UNCHANGED <<use, list, scan, arm9, target9, goal, left, wakeup, running, lines, vcount, pc>>

\* HALTCNT = 0x40, or the power management chip.
Stop ==
    /\ pc = "arm7" /\ arm7 < goal /\ use.stops /\ running
    /\ running' = FALSE
    /\ \E n \in 1 .. MaxInstr : arm7' = arm7 + n
    /\ UNCHANGED <<use, list, scan, arm9, target9, goal, left, flags, lines, vcount, pc>>

\* SysTimestamp becomes the time the ARM9 reached.
EndARM7 ==
    /\ pc = "arm7" /\ arm7 >= goal
    /\ list' = Moved(list, goal)
    /\ arm9' = arm9 - goal /\ arm7' = arm7 - goal
    /\ target9' = 0 /\ goal' = 0
    /\ scan' = list.pending
    /\ pc' = "system"
    /\ UNCHANGED <<use, left, flags, running, lines, vcount>>

\* RunSystem visits its copy of the mask in order.
First(S) == Order[SetMin({i \in DOMAIN Order : Order[i] \in S})]

Interrupting == {"LCD", "RTC", "SPITransfer"}

Fire(e) ==
    /\ list' = Handled(Cancelled(list, e), e)
    /\ lines' = IF list.arg[e][1] = "FinishFrame" THEN list.arg[e][2] ELSE lines
    /\ vcount' = IF list.arg[e][1] = "StartScanline" THEN VCountAt(list.arg[e][2]) ELSE vcount
    /\ \/ UNCHANGED flags
       \/ e \in Interrupting /\ SetIRQ

RunSystem ==
    /\ pc = "system" /\ scan # {}
    /\ LET e == First(scan)
       IN  /\ scan' = scan \ {e}
           /\ IF list.due[e] <= 0 THEN Fire(e) ELSE UNCHANGED <<list, lines, vcount, flags>>
    /\ UNCHANGED <<use, clock, running, pc>>

EndSystem ==
    /\ pc = "system" /\ scan = {}
    /\ pc' = IF asleep THEN "end" ELSE "slice"
    /\ UNCHANGED <<use, list, scan, clock, flags, running, lines, vcount>>

(* Sleep mode. *)

SleepTarget ==
    LET audible == list.pending \cap {"SPU", "RTC"}
    IN  IF audible = {} THEN left ELSE Lesser(Earliest(list, audible), left)

\* RunSystemSleep: the RTC fires, any other event that has come due moves on
\* with the time slept.
Slept(l, d) ==
    [l EXCEPT !.due = [e \in Events |->
        IF e \in l.pending /\ (e = "RTC" \/ @[e] > d) THEN @[e] - d ELSE @[e]]]

RunSystemSleep ==
    /\ pc = "sleep" /\ running /\ left > 0
    /\ LET d == SleepTarget
           l == Slept(list, d)
           rtc == "RTC" \in l.pending /\ l.due["RTC"] <= 0
       IN  /\ list' = IF rtc THEN Handled(Cancelled(l, "RTC"), "RTC") ELSE l
           /\ arm9' = 0 /\ arm7' = 0
           /\ left' = left - d
           /\ \/ UNCHANGED flags /\ UNCHANGED pc
              \/ rtc /\ SetIRQ /\ pc' = "woken"
    /\ UNCHANGED <<use, scan, target9, goal, running, lines, vcount>>

\* A frame slept to its end is blank.
EndSleep ==
    /\ \/ pc = "sleep" /\ ~(running /\ left > 0)
       \/ pc = "woken"
    /\ lines' = IF left <= 0 THEN Lines ELSE lines
    /\ left' = 0
    /\ pc' = "end"
    /\ UNCHANGED <<use, list, scan, arm9, arm7, target9, goal, flags, running, vcount>>

Frame == \/ TopStopped \/ TopAsleep \/ TopAwake \/ EndLoop \/ StartSlice
         \/ ARM9Execute \/ ARM9Halt \/ StartDiv \/ EndARM9
         \/ ARM7Execute \/ StartSPI \/ SetVCount \/ EnterSleepMode \/ Stop \/ EndARM7
         \/ RunSystem \/ EndSystem \/ RunSystemSleep \/ EndSleep

Next == RunFrame \/ UserInput \/ Reset \/ Frame

Spec == Init /\ [][Next]_vars

\* The emulation thread keeps running; the frontend asks for frames.
FairSpec == Spec /\ WF_vars(Frame) /\ WF_vars(RunFrame)

-----------------------------------------------------------------------------
(* Properties. *)

Handlers == {"none", "StartScanline", "StartHBlank", "FinishFrame", "FIFO", "Mix",
             "ClockTimer", "TransferDone", "DivDone"}
Slice    == MaxIteration + Margin

TypeOK ==
    /\ use \in Uses
    /\ list \in [pending : SUBSET Events, due : [Events -> Int],
                arg : [Events -> Handlers \X Nat], dropped : SUBSET Events]
    /\ scan \subseteq Events
    /\ arm9 \in 0 .. Slice + MaxInstr /\ arm7 \in 0 .. Slice + 2 * MaxInstr
    /\ target9 \in Int /\ target9 <= Slice /\ goal \in 0 .. Slice + MaxInstr
    /\ left \in 0 .. FrameCycles
    /\ {asleep, wakeup, running} \subseteq BOOLEAN
    /\ lines \in Nat
    /\ vcount \in [now : Nat, next : -1 .. Lines, writes : 0 .. MaxWrites]
    /\ pc \in {"idle", "top", "slice", "arm9", "arm7", "system", "end", "sleep", "woken"}

\* While a frame is being emulated the line timing is never lost: an LCD event
\* is pending until the frame is complete.  (Of consoles that do not sleep.)
LcdPending ==
    (~use.sleeps /\ pc \in {"slice", "arm9", "arm7"} /\ running /\ lines = 0) => "LCD" \in list.pending

\* When a slice begins no event has been overdue for as long as an instruction takes.
NoEventOverslept ==
    pc \in {"slice", "arm9"} => \A e \in list.pending : list.due[e] > 0 - MaxInstr

\* The ARM9 stops for an event it scheduled itself: when RunSystem comes to it,
\* the divider is late by less than one instruction.
DivPunctual ==
    (pc = "system" /\ "Div" \in scan \cap list.pending) => list.due["Div"] > 0 - MaxInstr

\* Between slices the ARM9 is exactly at SysTimestamp and the ARM7 ahead by
\* less than one instruction.
CpusTogether ==
    pc = "slice" => arm9 = 0 /\ arm7 >= 0 /\ arm7 < MaxInstr

\* No source asks for an event that is still pending: the request, and with it
\* the chain of events it continues, would be lost.
NothingDropped == list.dropped = {}

\* The line timing, and every other chain of events, goes on.
ChainsGoOn == LcdPending /\ NothingDropped

\* Nobody runs away: neither an event nor a CPU is late by more than an instruction
\* at the point where the others rely on it.
Punctual == NoEventOverslept /\ DivPunctual /\ CpusTogether

\* Every frame the frontend asks of a console that does not sleep ends, however long
\* or short a program makes it that writes VCOUNT no more often than MaxWrites times.
FrameReturns == (~use.sleeps /\ pc = "top") ~> (pc = "idle")

\* The same of every console: a frame is counted for every frame asked for.  It fails,
\* see Scheduler_wake.cfg.
EveryFrameReturns == (pc = "top") ~> (pc = "idle")

\* A frame spent asleep comes to an end, or the console wakes up.
SleepReturns == (pc = "sleep") ~> (pc = "idle" \/ ~asleep)

\* RunFrame returns, awake or asleep.
Returns == FrameReturns /\ SleepReturns
=============================================================================

-------------------------------- MODULE Timers --------------------------------
(***************************************************************************)
(* A CPU's hardware timers (NDS.cpp).  They are not advanced cycle by       *)
(* cycle: RunTimers catches up with the CPU's clock at the end of each of   *)
(* its turns, when a counter is read and before a control register is       *)
(* written.  Beside them a bank of timers that does advance every cycle     *)
(* says what they should show.                                              *)
(***************************************************************************)
EXTENDS Naturals, FiniteSets, Powers

CONSTANTS N,            \* timers of a CPU, 4 in the code
          Size,         \* a counter overflows at it, 2^16 in the code
          Unit,         \* parts of a count, 2^10 in the code
          Steps,        \* parts counted in a cycle, Unit over the prescaler
          Reloads, Controls, \* bound: what a program writes to the registers
          ClockShift,   \* ARM9ClockShift: two cycles of this CPU for one of the timers
          MaxAhead      \* bound: cycles of the CPU in a turn

ASSUME TimersAssumption ==
    /\ N \in Nat \ {0} /\ Size \in Nat \ {0} /\ Unit \in Nat \ {0}
    /\ Steps \subseteq 1 .. Unit /\ Reloads \subseteq 0 .. Size - 1
    /\ Controls \subseteq [on : BOOLEAN, up : BOOLEAN, irq : BOOLEAN, step : Steps]
    /\ ClockShift \in Nat /\ MaxAhead \in Nat

VARIABLES
    reload,      \* Timers[].Reload
    cnt,         \* Timers[].Cnt, with CycleShift in its step
    counter,     \* Timers[].Counter, as of TimerTimestamp
    ahead,       \* the CPU's timestamp less TimerTimestamp, in its own cycles
    raised,      \* timers whose interrupt was set the last time they caught up
    exact,       \* history: the counters of the bank that advances every cycle
    owed         \* history: the interrupts it raised since the other caught up

timerVars == <<reload, cnt, counter, ahead, raised, exact, owed>>

TimerIds == 0 .. N - 1
Full == Size * Unit

\* TimerCheckMask.
Counts(t) == cnt[t].on /\ ~cnt[t].up
\* A timer that counts the overflows of the one before it.
Chained(t) == cnt[t].on /\ cnt[t].up

TimersInit ==
    /\ reload = [t \in TimerIds |-> 0]
    /\ cnt \in [TimerIds -> {c \in Controls : ~c.on}]
    /\ counter = [t \in TimerIds |-> 0] /\ exact = counter
    /\ ahead = 0 /\ raised = {} /\ owed = {}

-----------------------------------------------------------------------------
(* Catching up.  A bank is what changes then. *)

Bank == [counter : [TimerIds -> Nat], raised : SUBSET TimerIds]

Raise(b, t) == IF cnt[t].irq THEN [b EXCEPT !.raised = @ \cup {t}] ELSE b

\* A defective variant: a chained timer that overflows tells the next one nothing.
CarryOnce(b, tid) ==
    LET t == tid + 1
        here == [b EXCEPT !.counter[t] = @ + Unit]
    IN  IF tid = N - 1 \/ ~Chained(t) THEN b
        ELSE IF here.counter[t] < Full THEN here
        ELSE Raise([here EXCEPT !.counter[t] = reload[t] * Unit], t)

\* The timers chained to one that has overflowed, as far as each overflows in turn.
Carry(b, tid) ==
    LET carry[t \in TimerIds] ==
            IF t <= tid THEN [bank |-> b, over |-> TRUE]
            ELSE LET c == carry[t - 1]
                     count == c.bank.counter[t] + Unit
                 IN  IF ~c.over \/ ~Chained(t)
                     THEN [c EXCEPT !.over = FALSE]
                     ELSE IF count < Full
                     THEN [bank |-> [c.bank EXCEPT !.counter[t] = count], over |-> FALSE]
                     ELSE [bank |-> Raise([c.bank EXCEPT !.counter[t] = reload[t] * Unit], t),
                           over |-> TRUE]
    IN  carry[N - 1].bank

HandleTimerOverflow(b, tid) ==
    Carry(Raise([b EXCEPT !.counter[tid] = @ + reload[tid] * Unit], tid), tid)

\* A defective variant: a timer overflows at most once in a turn.
RunTimerOnce(b, tid, cycles) ==
    LET count == b.counter[tid] + cycles * cnt[tid].step
    IN  IF count < Full THEN [b EXCEPT !.counter[tid] = count]
        ELSE HandleTimerOverflow([b EXCEPT !.counter[tid] = count - Full], tid)

RunTimer(b, tid, cycles) ==
    LET drain[c \in Bank] == IF c.counter[tid] < Full THEN c
                             ELSE drain[HandleTimerOverflow(
                                            [c EXCEPT !.counter[tid] = @ - Full], tid)]
    IN  drain[[b EXCEPT !.counter[tid] = @ + cycles * cnt[tid].step]]

Cycles(a) == a \div TwoTo[ClockShift]

\* RunTimers: the timers in the mask, one after the other.
CaughtUp ==
    LET run[t \in 0 .. N] ==
            IF t = 0 THEN [counter |-> counter, raised |-> {}]
            ELSE IF Counts(t - 1) THEN RunTimer(run[t - 1], t - 1, Cycles(ahead))
            ELSE run[t - 1]
    IN  run[N]

RunTimers ==
    /\ counter' = CaughtUp.counter /\ raised' = CaughtUp.raised
    /\ ahead' = ahead % TwoTo[ClockShift]
    /\ owed' = {}

-----------------------------------------------------------------------------
(* The bank that advances every cycle: all its timers at once. *)

Tick(b) ==
    LET over[t \in TimerIds] ==
            \/ Counts(t) /\ b.counter[t] + cnt[t].step >= Full
            \/ Chained(t) /\ t > 0 /\ over[t - 1] /\ b.counter[t] + Unit >= Full
        next(t) ==
            IF Counts(t)
            THEN b.counter[t] + cnt[t].step - (IF over[t] THEN Full - reload[t] * Unit ELSE 0)
            ELSE IF over[t] THEN reload[t] * Unit
            ELSE IF Chained(t) /\ t > 0 /\ over[t - 1] THEN b.counter[t] + Unit
            ELSE b.counter[t]
    IN  [counter |-> [t \in TimerIds |-> next(t)],
         raised  |-> b.raised \cup {t \in TimerIds : over[t] /\ cnt[t].irq}]

\* The CPU executes for so many of its cycles.
Execute(cycles) ==
    /\ ahead + cycles <= MaxAhead
    /\ ahead' = ahead + cycles
    /\ LET ticked[n \in Nat] == IF n = 0 THEN [counter |-> exact, raised |-> owed]
                                ELSE Tick(ticked[n - 1])
           now == ticked[Cycles(ahead + cycles) - Cycles(ahead)]
       IN  exact' = now.counter /\ owed' = now.raised
    /\ UNCHANGED <<reload, cnt, counter, raised>>

\* The CPU's turn ends, or a program reads a counter (RunFrame, TimerGetCounter).
CatchUp ==
    /\ ahead > 0
    /\ RunTimers
    /\ UNCHANGED <<reload, cnt, exact>>

\* A reload value is written.  It applies at once, to overflows that are not counted
\* yet too; here a program writes it to a timer that has caught up or stands still.
WriteReload(t, value) ==
    /\ Cycles(ahead) = 0 \/ ~cnt[t].on
    /\ reload' = [reload EXCEPT ![t] = value]
    /\ UNCHANGED <<cnt, counter, ahead, raised, exact, owed>>

\* TimerStart: a control register is written.
TimerStart(t, control) ==
    /\ RunTimers
    /\ LET starts == ~cnt[t].on /\ control.on
       IN  /\ counter' = [CaughtUp.counter EXCEPT ![t] = IF starts THEN reload[t] * Unit ELSE @]
           /\ exact' = [exact EXCEPT ![t] = IF starts THEN reload[t] * Unit ELSE @]
    /\ cnt' = [cnt EXCEPT ![t] = control]
    /\ UNCHANGED reload

TimersNext ==
    \/ \E n \in 1 .. MaxAhead : Execute(n)
    \/ CatchUp
    \/ \E t \in TimerIds, v \in Reloads : WriteReload(t, v)
    \/ \E t \in TimerIds, c \in Controls : TimerStart(t, c)

-----------------------------------------------------------------------------
TimersTypeOK ==
    /\ reload \in [TimerIds -> Reloads \cup {0}] /\ cnt \in [TimerIds -> Controls]
    /\ counter \in [TimerIds -> 0 .. Full - 1] /\ exact \in [TimerIds -> 0 .. Full - 1]
    /\ ahead \in 0 .. MaxAhead
    /\ raised \in SUBSET TimerIds /\ owed \in SUBSET TimerIds

\* However the CPU's time is cut into turns, reads and writes, a counter that catches
\* up gets where it would be had it advanced every cycle, and exactly the interrupts of
\* the cycles it catches up with are raised: no cycle is lost or counted twice, in a
\* chain, across several overflows or across a change of the prescaler.
TimersExact ==
    [][/\ Cycles(ahead') = 0 => counter' = exact'
       /\ ahead' < ahead \/ cnt' # cnt => raised' = owed]_timerVars
=============================================================================

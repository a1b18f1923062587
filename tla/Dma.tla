--------------------------------- MODULE Dma ---------------------------------
(***************************************************************************)
(* The DMA channels of the ARM9 (DMA.cpp, DMA.h) as functions of the       *)
(* channels' registers.  A channel moves units (words) while the ARM9 is   *)
(* stopped; Run9, the loop that moves them, is in module Bus, because each *)
(* unit reaches into the device at its other end.  Addresses and unit      *)
(* timings are left out: what a unit is read from or written to follows    *)
(* from the channel's start mode.  A bit of CPUStop belongs to a channel   *)
(* from Start until Running is reset, so it is the same thing as running.  *)
(***************************************************************************)
EXTENDS Naturals

CONSTANTS Channels,  \* DMAs[0] to DMAs[3], in the order they are run
          Lengths,   \* the word counts a channel is programmed with
          Batch      \* the units a channel in geometry mode moves per start (112)

ASSUME DmaAssumption ==
    /\ Channels \subseteq Nat
    /\ Lengths \subseteq Nat \ {0} /\ Lengths # {}
    /\ Batch \in Nat \ {0}

\* StartMode 0, 1, 5 and 7.
Modes == {"now", "vblank", "cart", "geometry"}

ChannelType ==
    [enabled : BOOLEAN,     \* bit 31 of Cnt
     repeat : BOOLEAN,      \* bit 25 of Cnt
     mode : Modes,          \* StartMode
     len : Lengths,         \* the word count in Cnt
     rem : Nat,             \* RemCount
     iter : Nat,            \* IterCount
     running : BOOLEAN,     \* Running # 0, and the channel's bit of CPUStop
     inProgress : BOOLEAN,  \* InProgress
     executing : BOOLEAN,   \* Executing: inside Run9's loop
     stall : BOOLEAN]       \* Stall

ResetChannel ==
    [enabled |-> FALSE, repeat |-> FALSE, mode |-> "now",
     len |-> CHOOSE l \in Lengths : TRUE, rem |-> 0, iter |-> 0, running |-> FALSE,
     inProgress |-> FALSE, executing |-> FALSE, stall |-> FALSE]

\* A defective variant: a batch interrupted by a full queue is counted anew.
StartAfresh(c) ==
    [c EXCEPT !.rem = c.len,
              !.iter = IF c.mode = "geometry" /\ c.len > Batch THEN Batch ELSE c.len,
              !.running = TRUE, !.inProgress = TRUE]

\* A transfer that is in progress goes on with what remains of it.
Start(c) ==
    LET rem == IF c.inProgress THEN c.rem ELSE c.len
    IN  IF c.running
        THEN c
        ELSE [c EXCEPT !.rem = rem,
                       !.iter = IF c.mode = "geometry" /\ rem > Batch THEN Batch ELSE rem,
                       !.running = TRUE, !.inProgress = TRUE]

\* CheckDMAs: start every channel that waits for this.
CheckDMAs(d, mode) ==
    [n \in Channels |-> IF d[n].enabled /\ d[n].mode = mode THEN Start(d[n]) ELSE d[n]]

\* StallIfRunning of every channel.
StallDMAs(d) == [n \in Channels |-> IF d[n].executing THEN [d[n] EXCEPT !.stall = TRUE]
                                                      ELSE d[n]]

\* One pass of Run9's loop.
Moved(c) == [c EXCEPT !.iter = @ - 1, !.rem = @ - 1]

\* The end of Run9: of a slice's worth, of a batch, or of the transfer.
Left(c) ==
    LET out == [c EXCEPT !.executing = FALSE, !.stall = FALSE]
    IN  CASE c.rem > 0 /\ c.iter > 0 -> out
          [] c.rem > 0 /\ c.iter = 0 -> [out EXCEPT !.running = FALSE]
          [] OTHER -> [out EXCEPT !.running = FALSE, !.inProgress = FALSE,
                                  !.enabled = @ /\ c.repeat]

BatchEnded(c) == c.rem > 0 /\ c.iter = 0
AnyRunning(d) == \E n \in Channels : d[n].running
=============================================================================

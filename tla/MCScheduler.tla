----------------------------- MODULE MCScheduler -----------------------------
(* A console that stays awake, with the sources of one-shot and chained events;  *)
(* one that sleeps, with the periodic ones; one whose programs write VCOUNT; and  *)
(* the smallest that sleeps.                                                     *)
EXTENDS Scheduler

MCUses ==
    {[sources |-> {"DisplayFIFO", "SPITransfer", "Div"},
      sleeps |-> FALSE, counts |-> FALSE, stops |-> TRUE],
     [sources |-> {"SPU", "RTC", "Div"}, sleeps |-> TRUE, counts |-> FALSE, stops |-> TRUE],
     [sources |-> {"DisplayFIFO"}, sleeps |-> FALSE, counts |-> TRUE, stops |-> FALSE]}

WakeUses == {[sources |-> {"RTC"}, sleeps |-> TRUE, counts |-> FALSE, stops |-> FALSE]}
==============================================================================

--------------------------- MODULE SchedulerProofs ---------------------------
(***************************************************************************)
(* What holds of Scheduler for every length of a line, a slice and an      *)
(* instruction: its types, that neither an event nor a CPU is late by more *)
(* than an instruction, and that no chain of events breaks off.  Then what *)
(* holds of Units, the devices that count and calculate in the time it     *)
(* gives out, for any number and size of the timers and any width of the   *)
(* words: that the results are right and that timers that catch up are     *)
(* where a bank that counts every cycle would be.                          *)
(***************************************************************************)
EXTENDS Scheduler, Units, WellFoundedInduction, TLAPS

-----------------------------------------------------------------------------
(* The assumptions on the constants that the theorems state. *)

\* No instruction is longer than the period of an event that ends a sleep.
Short == MaxInstr <= SpuPeriod /\ MaxInstr <= RtcPeriod

\* The chunks of a line are through before the next line, however late each
\* handler runs.
ChunksFit == FifoStart + FifoChunks * FifoStep + 3 * MaxInstr <= Line + 2

\* The console that sleeps does not use the display FIFO.
FifoAwake == \A u \in Uses : "DisplayFIFO" \in u.sources => ~u.sleeps

-----------------------------------------------------------------------------
(* The inductive invariant. *)

Audible == {"SPU", "RTC"}

ListType == [pending : SUBSET Events, due : [Events -> Int],
             arg : [Events -> Handlers \X Nat], dropped : SUBSET Events]

\* The handlers and arguments that go with an event.
Fits(e, a) ==
    /\ e = "LCD" => \/ \E n \in Nat : a = <<"StartScanline", n>> \/ a = <<"StartHBlank", n>>
                    \/ \E n \in Nat \ {0} : a = <<"FinishFrame", n>>
    /\ e = "SPU" => a = <<"Mix", 0>>
    /\ e = "RTC" => a = <<"ClockTimer", 0>>
    /\ e = "DisplayFIFO" => \E x \in 0 .. FifoChunks : a = <<"FIFO", x>>
    /\ e = "SPITransfer" => a = <<"TransferDone", 0>>
    /\ e = "Div" => a = <<"DivDone", 0>>

ArgsRight == \A e \in list.pending : Fits(e, list.arg[e])

\* How far the CPUs are, and how far past its target the slice may end.
Clocks ==
    /\ pc \notin {"arm9", "arm7"} => arm9 = 0 /\ arm7 < MaxInstr
    /\ pc = "arm9" => arm7 < MaxInstr /\ (arm9 = 0 \/ arm9 < target9 + MaxInstr)
    /\ pc = "arm7" => arm9 = goal /\ arm7 < goal + MaxInstr

Live == list.pending \cup {"LCD"}

\* No event is late by an instruction, except a transfer the ARM7 started in the
\* middle of a slice, until RunSystem has come to it.
Late ==
    /\ \A e \in Live : e # "SPITransfer" \/ pc # "system" => list.due[e] > 0 - MaxInstr
    /\ pc = "system" => \A e \in list.pending \ scan : list.due[e] > 0 - MaxInstr

\* The slice ends for each of them.
Stops ==
    /\ pc = "arm9" => \A e \in list.pending : target9 <= list.due[e]
    /\ pc = "arm7" => \A e \in list.pending \ {"SPITransfer"} :
                          goal = 0 \/ goal < list.due[e] + MaxInstr

\* The events that end a sleep are in the future.
Ahead ==
    /\ pc = "system" => \A e \in (list.pending \ scan) \cap Audible : list.due[e] > 0
    /\ pc \notin {"arm7", "system"} => \A e \in list.pending \cap Audible : list.due[e] > 0

Scanning ==
    /\ pc = "system" => scan \subseteq list.pending
    /\ pc # "system" => scan = {}

Sleeping ==
    /\ pc = "sleep" => asleep
    /\ pc = "woken" => wakeup
    /\ pc = "top" => lines = 0
    /\ ~use.sleeps => ~asleep /\ ~wakeup

InSlice == {"slice", "arm9", "arm7", "system"}

\* An LCD event is pending throughout a frame, and otherwise only in a frame that
\* a sleep interrupted.
LcdHere ==
    /\ "LCD" \in list.pending =>
           (pc \in InSlice /\ lines = 0) \/ asleep \/ wakeup \/ ~running
    /\ pc \in InSlice /\ lines = 0 /\ ~use.sleeps => "LCD" \in list.pending

IInv == TypeOK /\ ArgsRight /\ Clocks /\ Late /\ Stops /\ Ahead /\ Scanning /\ Sleeping /\ LcdHere

\* When the next line, or the end of the frame, is due.
NextLine == list.due["LCD"] + IF list.arg["LCD"][1] = "StartHBlank" THEN Line - HBlank ELSE 0

\* The chunks that are left are through before it.
FifoGap ==
    "DisplayFIFO" \in list.pending =>
        /\ "DisplayFIFO" \in use.sources
        /\ "LCD" \in list.pending
        /\ list.due["DisplayFIFO"] + (FifoChunks - list.arg["DisplayFIFO"][2]) * FifoStep
             + MaxInstr <= NextLine

-----------------------------------------------------------------------------
(* The constants and the list of events. *)

\* The assumption on the constants, one by one.
LEMMA Constants ==
    /\ MaxIteration \in Nat \ {0} /\ MaxInstr \in Nat \ {0} /\ Line \in Nat \ {0}
    /\ HBlank \in Nat \ {0} /\ Lines \in Nat \ {0} /\ FrameCycles \in Nat \ {0}
    /\ FifoStart \in Nat \ {0} /\ FifoStep \in Nat \ {0} /\ FifoChunks \in Nat \ {0}
    /\ SpuPeriod \in Nat \ {0} /\ RtcPeriod \in Nat \ {0} /\ SpiDelay \in Nat \ {0}
    /\ DivDelay \in Nat \ {0}
    /\ Margin \in Nat /\ MaxWrites \in Nat /\ HBlank < Line
BY SchedulerAssumption

\* What a use of the console consists of.
LEMMA UseParts == ASSUME use \in Uses
                  PROVE  use.sources \subseteq Events /\ use.sleeps \in BOOLEAN /\ use.stops \in BOOLEAN
BY SchedulerAssumption DEF UseType

\* The events of the list, by name.
LEMMA SixEvents == Events = {"LCD", "SPU", "RTC", "DisplayFIFO", "SPITransfer", "Div"}
<1>1. DOMAIN Order = {1, 2, 3, 4, 5, 6}
  BY DEF Order
<1>2. /\ Order[1] = "LCD" /\ Order[2] = "SPU" /\ Order[3] = "RTC"
      /\ Order[4] = "DisplayFIFO" /\ Order[5] = "SPITransfer" /\ Order[6] = "Div"
  BY DEF Order
<1> QED BY <1>1, <1>2 DEF Events

\* The least of some integers and one more.
LEMMA OneMore ==
    ASSUME NEW S, NEW e, NEW due, due[e] \in Int, \A x \in S : due[x] \in Int,
           S # {} => \E m \in S : \A x \in S : due[m] <= due[x]
    PROVE  \E m \in S \cup {e} : \A x \in S \cup {e} : due[m] <= due[x]
<1>1. CASE S = {}
  BY <1>1
<1>2. CASE S # {}
  <2>1. PICK m \in S : \A x \in S : due[m] <= due[x]
    BY <1>2
  <2>2. CASE due[m] <= due[e]
    BY <2>1, <2>2
  <2>3. CASE ~(due[m] <= due[e])
    <3>1. \A x \in S : due[e] <= due[x]
      BY <2>1, <2>3
    <3> QED BY <3>1
  <2> QED BY <2>2, <2>3
<1> QED BY <1>1, <1>2

\* Some event of any that are pending is due before all others.
LEMMA EarliestExists ==
    ASSUME NEW due \in [Events -> Int], NEW S \in SUBSET Events, S # {}
    PROVE  \E m \in S : \A x \in S : due[m] <= due[x]
<1> DEFINE Has(T) == T # {} => \E m \in T : \A x \in T : due[m] <= due[x]
           A == S \cap {"LCD"}
           B == S \cap {"LCD", "SPU"}
           C == S \cap {"LCD", "SPU", "RTC"}
           D == S \cap {"LCD", "SPU", "RTC", "DisplayFIFO"}
           E == S \cap {"LCD", "SPU", "RTC", "DisplayFIFO", "SPITransfer"}
<1>0. \A x \in Events : due[x] \in Int
  OBVIOUS
<1>1. \A T \in SUBSET Events, e \in Events : Has(T) => Has(T \cup {e})
  BY <1>0, OneMore
<1> HIDE DEF Has
<1>2. Has({})
  BY DEF Has
<1>a. Has(A)
  BY <1>1, <1>2, SixEvents, A = {} \/ A = {} \cup {"LCD"}
<1>b. Has(B)
  BY <1>1, <1>a, SixEvents, B = A \/ B = A \cup {"SPU"}
<1>c. Has(C)
  BY <1>1, <1>b, SixEvents, C = B \/ C = B \cup {"RTC"}
<1>d. Has(D)
  BY <1>1, <1>c, SixEvents, D = C \/ D = C \cup {"DisplayFIFO"}
<1>e. Has(E)
  BY <1>1, <1>d, SixEvents, E = D \/ E = D \cup {"SPITransfer"}
<1>f. Has(S)
  BY <1>1, <1>e, SixEvents, S = E \/ S = E \cup {"Div"}
<1> QED BY <1>f DEF Has

\* Earliest is the time of an event of S that no other comes before.
LEMMA EarliestIs ==
    ASSUME NEW l \in ListType, NEW S, l.pending \cap S # {}
    PROVE  \E m \in l.pending \cap S :
               /\ Earliest(l, S) = l.due[m]
               /\ \A x \in l.pending \cap S : l.due[m] <= l.due[x]
<1> DEFINE T == l.pending \cap S
           V == {l.due[e] : e \in T}
<1>1. l.due \in [Events -> Int] /\ T \in SUBSET Events
  BY DEF ListType
<1>2. PICK m \in T : \A x \in T : l.due[m] <= l.due[x]
  BY <1>1, EarliestExists
<1>3. l.due[m] \in V /\ \A v \in V : l.due[m] <= v
  BY <1>2
<1>4. \A v \in V : v \in Int
  BY <1>1
<1>5. \A v \in V : (\A w \in V : v <= w) => v = l.due[m]
  <2> SUFFICES ASSUME NEW v \in V, \A w \in V : v <= w PROVE v = l.due[m]
    OBVIOUS
  <2>1. v <= l.due[m] /\ l.due[m] <= v
    BY <1>3
  <2>2. v \in Int /\ l.due[m] \in Int
    BY <1>3, <1>4
  <2> QED BY <2>1, <2>2
<1>6. SetMin(V) = l.due[m]
  BY <1>3, <1>5 DEF SetMin
<1> QED BY <1>2, <1>6 DEF Earliest

\* First picks an event of the mask it is given.
LEMMA FirstIn == ASSUME NEW S \in SUBSET Events, S # {} PROVE First(S) \in S
<1> DEFINE I == {i \in DOMAIN Order : Order[i] \in S}
<1>1. DOMAIN Order = 1 .. 6
  BY DEF Order
<1>2. PICK i \in I : TRUE
  BY <1>1 DEF Events
<1>3. \E m \in I : \A k \in I : m <= k
  <2>1. I \subseteq {1, 2, 3, 4, 5, 6}
    BY <1>1
  <2> HIDE DEF I
  <2>2. CASE 1 \in I
    BY <2>1, <2>2
  <2>3. CASE 1 \notin I /\ 2 \in I
    BY <2>1, <2>3
  <2>4. CASE 1 \notin I /\ 2 \notin I /\ 3 \in I
    BY <2>1, <2>4
  <2>5. CASE 1 \notin I /\ 2 \notin I /\ 3 \notin I /\ 4 \in I
    BY <2>1, <2>5
  <2>6. CASE 1 \notin I /\ 2 \notin I /\ 3 \notin I /\ 4 \notin I /\ 5 \in I
    BY <2>1, <2>6
  <2>7. CASE 1 \notin I /\ 2 \notin I /\ 3 \notin I /\ 4 \notin I /\ 5 \notin I
    BY <2>1, <2>7, <1>2
  <2> QED BY <2>2, <2>3, <2>4, <2>5, <2>6, <2>7
<1>4. SetMin(I) \in I
  BY <1>3 DEF SetMin
<1> QED BY <1>4 DEF First

-----------------------------------------------------------------------------
(* The operators on the list. *)

\* ScheduleEvent sets an event that is not pending and leaves one that is.
LEMMA ScheduledIs ==
    ASSUME NEW l \in ListType, NEW e \in Events, NEW at \in Int, NEW a \in Handlers \X Nat
    PROVE  LET m == Scheduled(l, e, at, a) IN
           /\ m \in ListType
           /\ m.pending = l.pending \cup {e}
           /\ \A x \in Events \ {e} : m.due[x] = l.due[x] /\ m.arg[x] = l.arg[x]
           /\ e \notin l.pending => m.due[e] = at /\ m.arg[e] = a /\ m.dropped = l.dropped
           /\ e \in l.pending => m.due[e] = l.due[e] /\ m.arg[e] = l.arg[e]
BY DEF Scheduled, ListType

\* CancelEvent takes an event off the list and changes nothing else.
LEMMA CancelledIs ==
    ASSUME NEW l \in ListType, NEW e \in Events
    PROVE  LET m == Cancelled(l, e) IN
           /\ m \in ListType
           /\ m.pending = l.pending \ {e}
           /\ m.due = l.due /\ m.arg = l.arg /\ m.dropped = l.dropped
BY DEF Cancelled, ListType

\* Moving SysTimestamp on brings every pending event nearer by as much.
LEMMA MovedIs ==
    ASSUME NEW l \in ListType, NEW d \in Int
    PROVE  LET m == Moved(l, d) IN
           /\ m \in ListType
           /\ m.pending = l.pending /\ m.arg = l.arg /\ m.dropped = l.dropped
           /\ \A e \in l.pending : m.due[e] = l.due[e] - d
           /\ "LCD" \notin l.pending => m.due["LCD"] = l.due["LCD"]
BY SixEvents DEF Moved, ListType

\* A sleep brings nearer the events that stay in the future, and the RTC.
LEMMA SleptIs ==
    ASSUME NEW l \in ListType, NEW d \in Int
    PROVE  LET m == Slept(l, d) IN
           /\ m \in ListType
           /\ m.pending = l.pending /\ m.arg = l.arg /\ m.dropped = l.dropped
           /\ \A e \in Events : \/ m.due[e] = l.due[e]
                                \/ m.due[e] = l.due[e] - d /\ (e = "RTC" \/ l.due[e] > d)
           /\ "RTC" \in l.pending => m.due["RTC"] = l.due["RTC"] - d
BY SixEvents DEF Slept, ListType

\* The arguments events are scheduled with.
LEMMA HandlerTypes ==
    /\ \A n \in Nat : /\ <<"StartScanline", n>> \in Handlers \X Nat
                      /\ <<"StartHBlank", n>> \in Handlers \X Nat
                      /\ <<"FinishFrame", n>> \in Handlers \X Nat
                      /\ <<"FIFO", n>> \in Handlers \X Nat
    /\ {<<"none", 0>>, <<"Mix", 0>>, <<"ClockTimer", 0>>, <<"TransferDone", 0>>, <<"DivDone", 0>>}
          \subseteq Handlers \X Nat
BY DEF Handlers

\* The display FIFO a scanline starts, if any.
StartsFifo(n) == "DisplayFIFO" \in use.sources /\ n < Visible

\* StartScanline schedules the HBlank and, on a displayed line, the display FIFO.
LEMMA StartScanlineIs ==
    ASSUME NEW l \in ListType, NEW n \in Nat, "LCD" \notin l.pending, arm7 \in Int
    PROVE  LET m == StartScanline(l, n) IN
           /\ m \in ListType
           /\ m.pending = l.pending \cup {"LCD"} \cup (IF StartsFifo(n) THEN {"DisplayFIFO"} ELSE {})
           /\ m.due["LCD"] = l.due["LCD"] + HBlank /\ m.arg["LCD"] = <<"StartHBlank", n>>
           /\ \A e \in Events \ {"LCD", "DisplayFIFO"} : m.due[e] = l.due[e] /\ m.arg[e] = l.arg[e]
           /\ IF StartsFifo(n) /\ "DisplayFIFO" \notin l.pending
              THEN m.due["DisplayFIFO"] = arm7 + FifoStart /\ m.arg["DisplayFIFO"] = <<"FIFO", 0>>
              ELSE m.due["DisplayFIFO"] = l.due["DisplayFIFO"]
                   /\ m.arg["DisplayFIFO"] = l.arg["DisplayFIFO"]
           /\ "DisplayFIFO" \notin l.pending => m.dropped = l.dropped
<1> DEFINE fifo == IF "DisplayFIFO" \in use.sources /\ n < Visible
                   THEN Scheduled(l, "DisplayFIFO", arm7 + FifoStart, <<"FIFO", 0>>)
                   ELSE l
           m == StartScanline(l, n)
<1>1. n \in Nat /\ arm7 + FifoStart \in Int /\ HBlank \in Int
  BY Constants
<1>2. /\ fifo \in ListType
      /\ fifo.pending = l.pending \cup (IF StartsFifo(n) THEN {"DisplayFIFO"} ELSE {})
      /\ \A e \in Events \ {"DisplayFIFO"} : fifo.due[e] = l.due[e] /\ fifo.arg[e] = l.arg[e]
      /\ IF StartsFifo(n) /\ "DisplayFIFO" \notin l.pending
         THEN fifo.due["DisplayFIFO"] = arm7 + FifoStart /\ fifo.arg["DisplayFIFO"] = <<"FIFO", 0>>
         ELSE fifo.due["DisplayFIFO"] = l.due["DisplayFIFO"]
              /\ fifo.arg["DisplayFIFO"] = l.arg["DisplayFIFO"]
      /\ "DisplayFIFO" \notin l.pending => fifo.dropped = l.dropped
  <2>1. CASE StartsFifo(n)
    <3>1. fifo = Scheduled(l, "DisplayFIFO", arm7 + FifoStart, <<"FIFO", 0>>)
      BY <2>1 DEF StartsFifo
    <3>2. <<"FIFO", 0>> \in Handlers \X Nat /\ "DisplayFIFO" \in Events
      BY HandlerTypes, SixEvents
    <3> HIDE DEF fifo
    <3>3. /\ fifo \in ListType
          /\ fifo.pending = l.pending \cup {"DisplayFIFO"}
          /\ \A x \in Events \ {"DisplayFIFO"} : fifo.due[x] = l.due[x] /\ fifo.arg[x] = l.arg[x]
          /\ "DisplayFIFO" \notin l.pending =>
                 /\ fifo.due["DisplayFIFO"] = arm7 + FifoStart
                 /\ fifo.arg["DisplayFIFO"] = <<"FIFO", 0>>
                 /\ fifo.dropped = l.dropped
          /\ "DisplayFIFO" \in l.pending =>
                 /\ fifo.due["DisplayFIFO"] = l.due["DisplayFIFO"]
                 /\ fifo.arg["DisplayFIFO"] = l.arg["DisplayFIFO"]
      BY <1>1, <3>1, <3>2, ScheduledIs
    <3> QED BY <2>1, <3>3
  <2>2. CASE ~StartsFifo(n)
    BY <2>2 DEF StartsFifo
  <2> QED BY <2>1, <2>2
<1>3. m = Scheduled(fifo, "LCD", fifo.due["LCD"] + HBlank, <<"StartHBlank", n>>)
  BY DEF StartScanline, Again
<1> HIDE DEF m, fifo
<1>4. "LCD" \notin fifo.pending /\ fifo.due["LCD"] \in Int /\ "LCD" \in Events
  BY <1>2, SixEvents DEF ListType
<1>5. <<"StartHBlank", n>> \in Handlers \X Nat
  BY <1>1, HandlerTypes
<1>6. /\ m \in ListType
      /\ m.pending = fifo.pending \cup {"LCD"}
      /\ \A x \in Events \ {"LCD"} : m.due[x] = fifo.due[x] /\ m.arg[x] = fifo.arg[x]
      /\ m.due["LCD"] = fifo.due["LCD"] + HBlank /\ m.arg["LCD"] = <<"StartHBlank", n>>
      /\ m.dropped = fifo.dropped
  BY <1>1, <1>2, <1>3, <1>4, <1>5, ScheduledIs
<1>7. m.pending = l.pending \cup {"LCD"} \cup (IF StartsFifo(n) THEN {"DisplayFIFO"} ELSE {})
  BY <1>2, <1>6
<1>8. \A e \in Events \ {"LCD", "DisplayFIFO"} : m.due[e] = l.due[e] /\ m.arg[e] = l.arg[e]
  BY <1>2, <1>6
<1>9. "DisplayFIFO" \in Events \ {"LCD"} /\ "LCD" \in Events \ {"DisplayFIFO"}
  BY SixEvents
<1> QED BY <1>2, <1>6, <1>7, <1>8, <1>9 DEF m

\* An event scheduled again comes a delay after its last time.
LEMMA AgainIs ==
    ASSUME NEW l \in ListType, NEW e \in Events, NEW delay \in Int, NEW a \in Handlers \X Nat,
           e \notin l.pending
    PROVE  LET m == Again(l, e, delay, a) IN
           /\ m \in ListType
           /\ m.pending = l.pending \cup {e}
           /\ \A x \in Events \ {e} : m.due[x] = l.due[x] /\ m.arg[x] = l.arg[x]
           /\ m.due[e] = l.due[e] + delay /\ m.arg[e] = a /\ m.dropped = l.dropped
<1>1. l.due[e] + delay \in Int
  BY DEF ListType
<1> QED BY <1>1, ScheduledIs DEF Again

\* Which handler is called.
LEMMA HandledCases ==
    ASSUME NEW l, NEW e
    PROVE  /\ \A n : l.arg[e] = <<"StartScanline", n>> => Handled(l, e) = StartScanline(l, n)
           /\ \A n : l.arg[e] = <<"StartHBlank", n>> => Handled(l, e) = StartHBlank(l, n)
           /\ \A n : l.arg[e] = <<"FIFO", n>> => Handled(l, e) = DisplayFIFO(l, n)
           /\ l.arg[e] = <<"Mix", 0>> => Handled(l, e) = Again(l, "SPU", SpuPeriod, <<"Mix", 0>>)
           /\ l.arg[e] = <<"ClockTimer", 0>> =>
                  Handled(l, e) = Again(l, "RTC", RtcPeriod, <<"ClockTimer", 0>>)
           /\ l.arg[e] = <<"TransferDone", 0>> => Handled(l, e) = l
           /\ l.arg[e] = <<"DivDone", 0>> => Handled(l, e) = l
           /\ \A n : l.arg[e] = <<"FinishFrame", n>> => Handled(l, e) = l
BY DEF Handled

\* StartHBlank schedules the next line or the end of the frame.
LEMMA StartHBlankIs ==
    ASSUME NEW l \in ListType, NEW n \in Nat, "LCD" \notin l.pending
    PROVE  LET m == StartHBlank(l, n) IN
           /\ m \in ListType
           /\ m.pending = l.pending \cup {"LCD"}
           /\ m.due["LCD"] = l.due["LCD"] + (Line - HBlank)
           /\ m.arg["LCD"] = <<IF vcount.now < Lines - 1 THEN "StartScanline" ELSE "FinishFrame", n + 1>>
           /\ \A e \in Events \ {"LCD"} : m.due[e] = l.due[e] /\ m.arg[e] = l.arg[e]
           /\ m.dropped = l.dropped
<1> DEFINE a == <<IF vcount.now < Lines - 1 THEN "StartScanline" ELSE "FinishFrame", n + 1>>
<1>1. n + 1 \in Nat /\ Line - HBlank \in Int /\ "LCD" \in Events
  BY Constants, SixEvents
<1>2. a \in Handlers \X Nat
  BY <1>1, HandlerTypes
<1>3. StartHBlank(l, n) = Again(l, "LCD", Line - HBlank, a)
  BY DEF StartHBlank
<1> HIDE DEF a
<1>4. LET m == StartHBlank(l, n) IN
         /\ m \in ListType
         /\ m.pending = l.pending \cup {"LCD"}
         /\ \A x \in Events \ {"LCD"} : m.due[x] = l.due[x] /\ m.arg[x] = l.arg[x]
         /\ m.due["LCD"] = l.due["LCD"] + (Line - HBlank) /\ m.arg["LCD"] = a
         /\ m.dropped = l.dropped
  BY <1>1, <1>2, <1>3, AgainIs
<1> QED BY <1>4 DEF a

\* A chunk schedules the next one, the last chunk nothing.
LEMMA DisplayFIFOIs ==
    ASSUME NEW l \in ListType, NEW x \in 0 .. FifoChunks, "DisplayFIFO" \notin l.pending
    PROVE  LET m == DisplayFIFO(l, x) IN
           /\ x = FifoChunks => m = l
           /\ x # FifoChunks =>
                 /\ x + 1 \in 0 .. FifoChunks
                 /\ m.pending = l.pending \cup {"DisplayFIFO"}
                 /\ m.due["DisplayFIFO"] = l.due["DisplayFIFO"] + FifoStep
                 /\ m.arg["DisplayFIFO"] = <<"FIFO", x + 1>>
           /\ m \in ListType
           /\ \A e \in Events \ {"DisplayFIFO"} : m.due[e] = l.due[e] /\ m.arg[e] = l.arg[e]
           /\ m.dropped = l.dropped
<1>1. x \in Int /\ x + 1 \in Nat /\ FifoStep \in Int /\ "DisplayFIFO" \in Events
  BY Constants, SixEvents
<1>2. <<"FIFO", x + 1>> \in Handlers \X Nat
  BY <1>1, HandlerTypes
<1>3. CASE x = FifoChunks
  BY <1>3, Constants DEF DisplayFIFO
<1>4. CASE x # FifoChunks
  <2>1. x < FifoChunks /\ x + 1 \in 0 .. FifoChunks
    BY <1>4, Constants
  <2>2. DisplayFIFO(l, x) = Again(l, "DisplayFIFO", FifoStep, <<"FIFO", x + 1>>)
    BY <2>1 DEF DisplayFIFO
  <2>3. LET m == DisplayFIFO(l, x) IN
           /\ m \in ListType
           /\ m.pending = l.pending \cup {"DisplayFIFO"}
           /\ \A e \in Events \ {"DisplayFIFO"} : m.due[e] = l.due[e] /\ m.arg[e] = l.arg[e]
           /\ m.due["DisplayFIFO"] = l.due["DisplayFIFO"] + FifoStep
           /\ m.arg["DisplayFIFO"] = <<"FIFO", x + 1>> /\ m.dropped = l.dropped
    BY <1>1, <1>2, <2>2, AgainIs
  <2> QED BY <1>4, <2>1, <2>3
<1> QED BY <1>3, <1>4

\* What any handler does: it leaves the other events alone, and what it schedules
\* fits and comes later than the event itself.
HandledWell(l, e, m) ==
    /\ m \in ListType
    /\ l.pending \subseteq m.pending
    /\ m.pending \subseteq l.pending \cup {e, "DisplayFIFO"}
    /\ \A x \in l.pending : m.due[x] = l.due[x] /\ m.arg[x] = l.arg[x]
    /\ \A x \in m.pending \ l.pending :
           /\ Fits(x, m.arg[x])
           /\ m.due[x] > 0 - MaxInstr
           /\ x \in Audible => m.due[x] > 0
    /\ "LCD" \notin m.pending => m.due["LCD"] = l.due["LCD"]
    /\ "LCD" \notin l.pending =>
           ("LCD" \in m.pending <=> e = "LCD" /\ l.arg[e][1] # "FinishFrame")

\* Every handler does so.
LEMMA HandledIs ==
    ASSUME NEW l \in ListType, NEW e \in Events, e \notin l.pending, Fits(e, l.arg[e]),
           arm7 \in Nat, l.due[e] > 0 - MaxInstr \/ e = "SPITransfer", Short
    PROVE  HandledWell(l, e, Handled(l, e))
<1> DEFINE m == Handled(l, e)
<1>0. l.due[e] \in Int /\ \A x \in Events : l.due[x] \in Int
  BY DEF ListType
<1>p. l.pending \subseteq Events
  BY DEF ListType
<1>1. ASSUME NEW n \in Nat, e = "LCD", l.arg[e] = <<"StartScanline", n>>
      PROVE  HandledWell(l, e, m)
  <2>1. m = StartScanline(l, n)
    BY <1>1, HandledCases
  <2> HIDE DEF m
  <2>2. /\ m \in ListType
        /\ m.pending = l.pending \cup {"LCD"} \cup (IF StartsFifo(n) THEN {"DisplayFIFO"} ELSE {})
        /\ m.due["LCD"] = l.due["LCD"] + HBlank /\ m.arg["LCD"] = <<"StartHBlank", n>>
        /\ \A x \in Events \ {"LCD", "DisplayFIFO"} : m.due[x] = l.due[x] /\ m.arg[x] = l.arg[x]
        /\ IF StartsFifo(n) /\ "DisplayFIFO" \notin l.pending
           THEN m.due["DisplayFIFO"] = arm7 + FifoStart /\ m.arg["DisplayFIFO"] = <<"FIFO", 0>>
           ELSE m.due["DisplayFIFO"] = l.due["DisplayFIFO"]
                /\ m.arg["DisplayFIFO"] = l.arg["DisplayFIFO"]
    <3>1. "LCD" \notin l.pending /\ arm7 \in Int
      BY <1>1
    <3>2. PICK q : q = StartScanline(l, n)
      OBVIOUS
    <3>3. /\ q \in ListType
          /\ q.pending = l.pending \cup {"LCD"} \cup (IF StartsFifo(n) THEN {"DisplayFIFO"} ELSE {})
          /\ q.due["LCD"] = l.due["LCD"] + HBlank /\ q.arg["LCD"] = <<"StartHBlank", n>>
          /\ \A x \in Events \ {"LCD", "DisplayFIFO"} : q.due[x] = l.due[x] /\ q.arg[x] = l.arg[x]
          /\ IF StartsFifo(n) /\ "DisplayFIFO" \notin l.pending
             THEN q.due["DisplayFIFO"] = arm7 + FifoStart /\ q.arg["DisplayFIFO"] = <<"FIFO", 0>>
             ELSE q.due["DisplayFIFO"] = l.due["DisplayFIFO"]
                  /\ q.arg["DisplayFIFO"] = l.arg["DisplayFIFO"]
      BY SMTT(30), <1>1, <3>1, <3>2, StartScanlineIs
    <3>4. m = q
      BY <2>1, <3>2, Zenon
    <3> QED BY <3>3, <3>4
  <2>3. \A x \in l.pending : m.due[x] = l.due[x] /\ m.arg[x] = l.arg[x]
    BY <1>1, <1>p, <2>2
  <2>4. ASSUME NEW x \in m.pending \ l.pending
        PROVE  Fits(x, m.arg[x]) /\ m.due[x] > 0 - MaxInstr /\ x \notin Audible
    <3>1. x = "LCD" \/ (x = "DisplayFIFO" /\ StartsFifo(n))
      BY <2>2, <2>4
    <3>2. CASE x = "LCD"
      BY <1>0, <1>1, <2>2, <3>2, Constants DEF Fits, Audible
    <3>3. CASE x = "DisplayFIFO" /\ StartsFifo(n)
      BY <2>2, <2>4, <3>3, Constants DEF Fits, Audible
    <3> QED BY <3>1, <3>2, <3>3
  <2> QED BY <1>1, <2>2, <2>3, <2>4 DEF HandledWell
<1>2. ASSUME NEW n \in Nat, e = "LCD", l.arg[e] = <<"StartHBlank", n>>
      PROVE  HandledWell(l, e, m)
  <2>1. m = StartHBlank(l, n)
    BY <1>2, HandledCases
  <2> HIDE DEF m
  <2>2. /\ m \in ListType
        /\ m.pending = l.pending \cup {"LCD"}
        /\ m.due["LCD"] = l.due["LCD"] + (Line - HBlank)
        /\ m.arg["LCD"] = <<IF vcount.now < Lines - 1 THEN "StartScanline" ELSE "FinishFrame", n + 1>>
        /\ \A x \in Events \ {"LCD"} : m.due[x] = l.due[x] /\ m.arg[x] = l.arg[x]
    BY <1>2, <2>1, StartHBlankIs
  <2>3. m.due["LCD"] > 0 - MaxInstr
    BY <1>0, <1>2, <2>2, Constants
  <2>4. Fits("LCD", m.arg["LCD"])
    <3>1. CASE vcount.now < Lines - 1
      <4>1. n + 1 \in Nat /\ m.arg["LCD"] = <<"StartScanline", n + 1>>
        BY <1>2, <2>2, <3>1
      <4> QED BY <4>1 DEF Fits
    <3>2. CASE ~(vcount.now < Lines - 1)
      <4>1. n + 1 \in Nat \ {0} /\ m.arg["LCD"] = <<"FinishFrame", n + 1>>
        BY <1>2, <2>2, <3>2
      <4> QED BY <4>1 DEF Fits
    <3> QED BY <3>1, <3>2
  <2>5. \A x \in l.pending : m.due[x] = l.due[x] /\ m.arg[x] = l.arg[x]
    BY <1>2, <1>p, <2>2
  <2>6. \A x \in m.pending \ l.pending : x = "LCD" /\ x \notin Audible
    BY <2>2 DEF Audible
  <2> QED BY <1>2, <2>2, <2>3, <2>4, <2>5, <2>6 DEF HandledWell
<1>3. ASSUME NEW x \in 0 .. FifoChunks, e = "DisplayFIFO", l.arg[e] = <<"FIFO", x>>
      PROVE  HandledWell(l, e, m)
  <2>1. m = DisplayFIFO(l, x)
    BY <1>3, HandledCases
  <2>2. CASE x = FifoChunks
    <3>1. m = l
      BY <1>3, <2>1, <2>2, DisplayFIFOIs
    <3> QED BY <1>3, <3>1 DEF HandledWell
  <2>3. CASE x # FifoChunks
    <3> HIDE DEF m
    <3>1. /\ x + 1 \in 0 .. FifoChunks
          /\ m.pending = l.pending \cup {"DisplayFIFO"}
          /\ m.due["DisplayFIFO"] = l.due["DisplayFIFO"] + FifoStep
          /\ m.arg["DisplayFIFO"] = <<"FIFO", x + 1>>
          /\ m \in ListType
          /\ \A y \in Events \ {"DisplayFIFO"} : m.due[y] = l.due[y] /\ m.arg[y] = l.arg[y]
      BY <1>3, <2>1, <2>3, DisplayFIFOIs
    <3>2. \A y \in m.pending \ l.pending : y = "DisplayFIFO" /\ y \notin Audible
      BY <3>1 DEF Audible
    <3>3. m.due["DisplayFIFO"] > 0 - MaxInstr
      BY <1>0, <1>3, <3>1, Constants
    <3>4. Fits("DisplayFIFO", m.arg["DisplayFIFO"])
      BY <3>1 DEF Fits
    <3>5. \A y \in l.pending : m.due[y] = l.due[y] /\ m.arg[y] = l.arg[y]
      BY <1>3, <1>p, <3>1
    <3>6. "LCD" \in Events \ {"DisplayFIFO"}
      BY SixEvents
    <3> QED BY <1>3, <3>1, <3>2, <3>3, <3>4, <3>5, <3>6 DEF HandledWell
  <2> QED BY <2>2, <2>3
<1>4. ASSUME NEW period \in Nat, period >= MaxInstr, e \in Audible,
             l.arg[e] \in Handlers \X Nat, m = Again(l, e, period, l.arg[e])
      PROVE  HandledWell(l, e, m)
  <2> HIDE DEF m
  <2>1. /\ m \in ListType
        /\ m.pending = l.pending \cup {e}
        /\ \A x \in Events \ {e} : m.due[x] = l.due[x] /\ m.arg[x] = l.arg[x]
        /\ m.due[e] = l.due[e] + period /\ m.arg[e] = l.arg[e]
    <3>1. period \in Int /\ m = Again(l, e, period, l.arg[e])
      BY <1>4
    <3> QED BY <1>4, <3>1, AgainIs
  <2>2. m.due[e] > 0
    BY <1>0, <1>4, <2>1, Constants DEF Audible
  <2>3. m.due[e] > 0 - MaxInstr
    BY <1>0, <1>4, <2>1, Constants DEF Audible
  <2>4. \A x \in l.pending : m.due[x] = l.due[x] /\ m.arg[x] = l.arg[x]
    BY <1>p, <2>1
  <2>5. "LCD" \in Events \ {e}
    BY <1>4, SixEvents DEF Audible
  <2>6. \A x \in m.pending \ l.pending : x = e
    BY <2>1
  <2> QED BY <1>4, <2>1, <2>2, <2>3, <2>4, <2>5, <2>6 DEF HandledWell, Audible
<1>5. ASSUME m = l, e # "LCD" \/ l.arg[e][1] = "FinishFrame"
      PROVE  HandledWell(l, e, m)
  BY <1>5 DEF HandledWell
<1>6. CASE e = "LCD"
  <2>1. \/ \E n \in Nat : l.arg[e] = <<"StartScanline", n>> \/ l.arg[e] = <<"StartHBlank", n>>
        \/ \E n \in Nat \ {0} : l.arg[e] = <<"FinishFrame", n>>
    BY <1>6 DEF Fits
  <2>2. ASSUME NEW n \in Nat, l.arg[e] = <<"FinishFrame", n>>
        PROVE  HandledWell(l, e, m)
    <3>1. m = l
      BY <2>2, HandledCases
    <3>2. l.arg[e][1] = "FinishFrame"
      BY <2>2
    <3> QED BY <1>5, <3>1, <3>2
  <2> QED BY <1>1, <1>2, <1>6, <2>1, <2>2
<1>7. CASE e = "SPU"
  <2>1. l.arg[e] = <<"Mix", 0>>
    BY <1>7 DEF Fits
  <2>2. m = Again(l, e, SpuPeriod, l.arg[e])
    BY <1>7, <2>1, HandledCases
  <2> QED BY <1>4, <1>7, <2>1, <2>2, Constants, HandlerTypes DEF Short, Audible
<1>8. CASE e = "RTC"
  <2>1. l.arg[e] = <<"ClockTimer", 0>>
    BY <1>8 DEF Fits
  <2>2. m = Again(l, e, RtcPeriod, l.arg[e])
    BY <1>8, <2>1, HandledCases
  <2> QED BY <1>4, <1>8, <2>1, <2>2, Constants, HandlerTypes DEF Short, Audible
<1>9. CASE e = "DisplayFIFO"
  <2> QED BY <1>3, <1>9 DEF Fits
<1>10. CASE e \in {"SPITransfer", "Div"}
  <2>1. m = l
    BY <1>10, HandledCases DEF Fits
  <2> QED BY <1>5, <1>10, <2>1
<1> QED BY <1>6, <1>7, <1>8, <1>9, <1>10, SixEvents
-----------------------------------------------------------------------------
(* The invariant. *)

\* The type invariant, variable by variable.
LEMMA TypeParts ==
    ASSUME TypeOK
    PROVE  /\ use \in Uses /\ list \in ListType /\ scan \subseteq Events
           /\ arm9 \in Nat /\ arm7 \in Nat /\ target9 \in Int /\ goal \in Nat /\ left \in Nat
           /\ asleep \in BOOLEAN /\ wakeup \in BOOLEAN /\ running \in BOOLEAN /\ lines \in Nat
           /\ list.pending \subseteq Events /\ \A e \in Events : list.due[e] \in Int
           /\ use.sleeps \in BOOLEAN
BY UseParts, Constants DEF TypeOK, ListType, Slice

CountType == [now : Nat, next : -1 .. Lines, writes : 0 .. MaxWrites]

\* VCOUNT starts at zero and, at the start of each line, is a count of lines again.
LEMMA CountIs ==
    /\ NoCount \in CountType
    /\ TypeOK => \A n \in Nat : VCountAt(n) \in CountType
<1>1. NoCount \in CountType
  BY Constants DEF NoCount, CountType
<1>2. ASSUME TypeOK, NEW n \in Nat, n # 0 PROVE VCountAt(n) \in CountType
  <2>1. vcount \in CountType
    BY <1>2 DEF TypeOK, CountType
  <2>2. -1 \in -1 .. Lines
    BY Constants
  <2>3. (IF vcount.next # -1 THEN vcount.next ELSE vcount.now + 1) \in Nat
    BY <2>1, Constants DEF CountType
  <2> QED BY <1>2, <2>1, <2>2, <2>3 DEF VCountAt, CountType
<1> QED BY <1>1, <1>2 DEF VCountAt

\* A slice ends by the time of the earliest event.
LEMMA NextTargetIs ==
    ASSUME TypeOK
    PROVE  /\ NextTarget \in Int /\ NextTarget <= Slice
           /\ \A e \in list.pending : NextTarget <= list.due[e]
<1>1. CASE list.pending = {}
  BY <1>1, Constants DEF NextTarget, Slice
<1>2. CASE list.pending # {}
  <2>1. list.pending \cap Events = list.pending
    BY TypeParts
  <2>2. PICK m \in list.pending : /\ Earliest(list, Events) = list.due[m]
                                  /\ \A x \in list.pending : list.due[m] <= list.due[x]
    BY <1>2, <2>1, TypeParts, EarliestIs
  <2>3. list.due[m] \in Int /\ \A x \in list.pending : list.due[x] \in Int
    BY TypeParts
  <2> QED BY <1>2, <2>2, <2>3, Constants DEF NextTarget, Slice
<1> QED BY <1>1, <1>2

\* A reset leaves the periodic events and no other.
LEMMA ResetListIs ==
    ASSUME TypeOK \/ use \in Uses
    PROVE  /\ ResetList \in ListType /\ ResetList.dropped = {}
           /\ ResetList.pending \subseteq Audible
           /\ ResetList.due["LCD"] = 0
           /\ "SPU" \in ResetList.pending =>
                  ResetList.due["SPU"] = SpuPeriod /\ ResetList.arg["SPU"] = <<"Mix", 0>>
           /\ "RTC" \in ResetList.pending =>
                  ResetList.due["RTC"] = RtcPeriod /\ ResetList.arg["RTC"] = <<"ClockTimer", 0>>
<1> DEFINE empty == [pending |-> {}, due |-> [e \in Events |-> 0],
                     arg |-> [e \in Events |-> <<"none", 0>>], dropped |-> {}]
           spu   == IF "SPU" \in use.sources
                    THEN Scheduled(empty, "SPU", SpuPeriod, <<"Mix", 0>>) ELSE empty
           m     == IF "RTC" \in use.sources
                    THEN Scheduled(spu, "RTC", RtcPeriod, <<"ClockTimer", 0>>) ELSE spu
<1>1. empty \in ListType /\ empty.pending = {} /\ empty.dropped = {}
      /\ \A e \in Events : empty.due[e] = 0
  BY HandlerTypes DEF ListType
<1>2. "SPU" \in Events /\ "RTC" \in Events /\ "LCD" \in Events
      /\ SpuPeriod \in Int /\ RtcPeriod \in Int
  BY SixEvents, Constants
<1> HIDE DEF empty
<1>3. /\ spu \in ListType /\ spu.dropped = {} /\ spu.pending \subseteq {"SPU"}
      /\ spu.due["LCD"] = 0
      /\ "SPU" \in spu.pending => spu.due["SPU"] = SpuPeriod /\ spu.arg["SPU"] = <<"Mix", 0>>
  BY <1>1, <1>2, ScheduledIs, HandlerTypes
<1> HIDE DEF spu
<1>4. /\ m \in ListType /\ m.dropped = {} /\ m.pending \subseteq spu.pending \cup {"RTC"}
      /\ m.due["LCD"] = 0
      /\ m.due["SPU"] = spu.due["SPU"] /\ m.arg["SPU"] = spu.arg["SPU"]
      /\ spu.pending \subseteq m.pending
      /\ "RTC" \in m.pending => m.due["RTC"] = RtcPeriod /\ m.arg["RTC"] = <<"ClockTimer", 0>>
  BY <1>2, <1>3, ScheduledIs, HandlerTypes
<1>5. m = ResetList
  BY DEF ResetList, empty, spu
<1> HIDE DEF m
<1> QED BY <1>3, <1>4, <1>5 DEF Audible

\* The invariant holds at the start.
LEMMA InitIInv == Short /\ Init => IInv
<1> SUFFICES ASSUME Short, Init PROVE IInv
  OBVIOUS
<1>1. use \in Uses /\ list = ResetList
  BY DEF Init
<1>2. /\ list \in ListType /\ list.pending \subseteq Audible /\ list.due["LCD"] = 0
      /\ "SPU" \in list.pending => list.due["SPU"] = SpuPeriod /\ list.arg["SPU"] = <<"Mix", 0>>
      /\ "RTC" \in list.pending => list.due["RTC"] = RtcPeriod /\ list.arg["RTC"] = <<"ClockTimer", 0>>
  BY <1>1, ResetListIs
<1>t. TypeOK
  <2>1. /\ arm9 \in 0 .. Slice + MaxInstr /\ arm7 \in 0 .. Slice + 2 * MaxInstr
        /\ target9 \in Int /\ target9 <= Slice /\ goal \in 0 .. Slice + MaxInstr
        /\ left \in 0 .. FrameCycles /\ lines \in Nat
    BY Constants DEF Init, Slice
  <2>2. {asleep, wakeup, running} \subseteq BOOLEAN /\ scan \subseteq Events
    BY DEF Init
  <2> QED BY <1>1, <1>2, <2>1, <2>2, CountIs DEF Init, TypeOK, ListType, CountType
<1>a. ArgsRight
  BY <1>2 DEF ArgsRight, Fits, Audible
<1>l. Late /\ Stops /\ Ahead
  BY <1>2, Constants DEF Init, Late, Stops, Ahead, Audible, Live
<1>c. Clocks /\ Scanning /\ Sleeping /\ LcdHere
  BY <1>2, Constants DEF Init, Clocks, Scanning, Sleeping, LcdHere, Audible, InSlice
<1> QED BY <1>t, <1>a, <1>l, <1>c DEF IInv

\* RunFrame keeps the invariant.
LEMMA RunFrameIInv == IInv /\ RunFrame => IInv'
<1> SUFFICES ASSUME IInv, RunFrame PROVE IInv'
  OBVIOUS
<1> USE DEF IInv, RunFrame, flags, clock
<1>0. /\ list' = list /\ use' = use /\ scan' = scan
      /\ use.sleeps \in BOOLEAN
  BY TypeParts
<1>1. TypeOK'
  BY <1>0, TypeParts, Constants, NextTargetIs DEF TypeOK, ListType, Clocks, Slice
<1>2. ArgsRight'
  BY <1>0 DEF ArgsRight, Fits
<1>3. Clocks'
  BY <1>0, TypeParts, Constants, NextTargetIs DEF Clocks
<1>4. Late'
  BY <1>0 DEF Late, Live, Scanning
<1>5. Stops'
  BY <1>0, TypeParts, Constants, NextTargetIs DEF Stops, Clocks
<1>6. Ahead'
  BY <1>0 DEF Ahead, Scanning
<1>7. Scanning'
  BY <1>0 DEF Scanning
<1>8. Sleeping'
  BY <1>0, TypeParts, Constants DEF Sleeping
<1>9. LcdHere'
  BY <1>0, TypeParts, Constants DEF LcdHere, InSlice, Sleeping
<1> QED BY <1>1, <1>2, <1>3, <1>4, <1>5, <1>6, <1>7, <1>8, <1>9

\* UserInput keeps the invariant.
LEMMA UserInputIInv == IInv /\ UserInput => IInv'
<1> SUFFICES ASSUME IInv, UserInput PROVE IInv'
  OBVIOUS
<1> USE DEF IInv, UserInput, flags, clock, SetIRQ
<1>0. /\ list' = list /\ use' = use /\ scan' = scan
      /\ use.sleeps \in BOOLEAN
  BY TypeParts
<1>1. TypeOK'
  BY <1>0, TypeParts, Constants, NextTargetIs DEF TypeOK, ListType, Clocks, Slice
<1>2. ArgsRight'
  BY <1>0 DEF ArgsRight, Fits
<1>3. Clocks'
  BY <1>0, TypeParts, Constants, NextTargetIs DEF Clocks
<1>4. Late'
  BY <1>0 DEF Late, Live, Scanning
<1>5. Stops'
  BY <1>0, TypeParts, Constants, NextTargetIs DEF Stops, Clocks
<1>6. Ahead'
  BY <1>0 DEF Ahead, Scanning
<1>7. Scanning'
  BY <1>0 DEF Scanning
<1>8. Sleeping'
  BY <1>0, TypeParts, Constants DEF Sleeping
<1>9. LcdHere'
  BY <1>0, TypeParts, Constants DEF LcdHere, InSlice, Sleeping
<1> QED BY <1>1, <1>2, <1>3, <1>4, <1>5, <1>6, <1>7, <1>8, <1>9

\* TopStopped keeps the invariant.
LEMMA TopStoppedIInv == IInv /\ TopStopped => IInv'
<1> SUFFICES ASSUME IInv, TopStopped PROVE IInv'
  OBVIOUS
<1> USE DEF IInv, TopStopped, flags, clock
<1>0. /\ list' = list /\ use' = use /\ scan' = scan
      /\ use.sleeps \in BOOLEAN
  BY TypeParts
<1>1. TypeOK'
  BY <1>0, TypeParts, Constants, NextTargetIs DEF TypeOK, ListType, Clocks, Slice
<1>2. ArgsRight'
  BY <1>0 DEF ArgsRight, Fits
<1>3. Clocks'
  BY <1>0, TypeParts, Constants, NextTargetIs DEF Clocks
<1>4. Late'
  BY <1>0 DEF Late, Live, Scanning
<1>5. Stops'
  BY <1>0, TypeParts, Constants, NextTargetIs DEF Stops, Clocks
<1>6. Ahead'
  BY <1>0 DEF Ahead, Scanning
<1>7. Scanning'
  BY <1>0 DEF Scanning
<1>8. Sleeping'
  BY <1>0, TypeParts, Constants DEF Sleeping
<1>9. LcdHere'
  BY <1>0, TypeParts, Constants DEF LcdHere, InSlice, Sleeping
<1> QED BY <1>1, <1>2, <1>3, <1>4, <1>5, <1>6, <1>7, <1>8, <1>9

\* TopAsleep keeps the invariant.
LEMMA TopAsleepIInv == IInv /\ TopAsleep => IInv'
<1> SUFFICES ASSUME IInv, TopAsleep PROVE IInv'
  OBVIOUS
<1> USE DEF IInv, TopAsleep, flags, clock
<1>0. /\ list' = list /\ use' = use /\ scan' = scan
      /\ use.sleeps \in BOOLEAN
  BY TypeParts
<1>1. TypeOK'
  BY <1>0, TypeParts, Constants, NextTargetIs DEF TypeOK, ListType, Clocks, Slice
<1>2. ArgsRight'
  BY <1>0 DEF ArgsRight, Fits
<1>3. Clocks'
  BY <1>0, TypeParts, Constants, NextTargetIs DEF Clocks
<1>4. Late'
  BY <1>0 DEF Late, Live, Scanning
<1>5. Stops'
  BY <1>0, TypeParts, Constants, NextTargetIs DEF Stops, Clocks
<1>6. Ahead'
  BY <1>0 DEF Ahead, Scanning
<1>7. Scanning'
  BY <1>0 DEF Scanning
<1>8. Sleeping'
  BY <1>0, TypeParts, Constants DEF Sleeping
<1>9. LcdHere'
  BY <1>0, TypeParts, Constants DEF LcdHere, InSlice, Sleeping
<1> QED BY <1>1, <1>2, <1>3, <1>4, <1>5, <1>6, <1>7, <1>8, <1>9

\* EndLoop keeps the invariant.
LEMMA EndLoopIInv == IInv /\ EndLoop => IInv'
<1> SUFFICES ASSUME IInv, EndLoop PROVE IInv'
  OBVIOUS
<1> USE DEF IInv, EndLoop, flags, clock
<1>0. /\ list' = list /\ use' = use /\ scan' = scan
      /\ use.sleeps \in BOOLEAN
  BY TypeParts
<1>1. TypeOK'
  BY <1>0, TypeParts, Constants, NextTargetIs DEF TypeOK, ListType, Clocks, Slice
<1>2. ArgsRight'
  BY <1>0 DEF ArgsRight, Fits
<1>3. Clocks'
  BY <1>0, TypeParts, Constants, NextTargetIs DEF Clocks
<1>4. Late'
  BY <1>0 DEF Late, Live, Scanning
<1>5. Stops'
  BY <1>0, TypeParts, Constants, NextTargetIs DEF Stops, Clocks
<1>6. Ahead'
  BY <1>0 DEF Ahead, Scanning
<1>7. Scanning'
  BY <1>0 DEF Scanning
<1>8. Sleeping'
  BY <1>0, TypeParts, Constants DEF Sleeping
<1>9. LcdHere'
  BY <1>0, TypeParts, Constants DEF LcdHere, InSlice, Sleeping
<1> QED BY <1>1, <1>2, <1>3, <1>4, <1>5, <1>6, <1>7, <1>8, <1>9

\* StartSlice keeps the invariant.
LEMMA StartSliceIInv == IInv /\ StartSlice => IInv'
<1> SUFFICES ASSUME IInv, StartSlice PROVE IInv'
  OBVIOUS
<1> USE DEF IInv, StartSlice, flags, clock
<1>0. /\ list' = list /\ use' = use /\ scan' = scan
      /\ use.sleeps \in BOOLEAN
  BY TypeParts
<1>1. TypeOK'
  BY <1>0, TypeParts, Constants, NextTargetIs DEF TypeOK, ListType, Clocks, Slice
<1>2. ArgsRight'
  BY <1>0 DEF ArgsRight, Fits
<1>3. Clocks'
  BY <1>0, TypeParts, Constants, NextTargetIs DEF Clocks
<1>4. Late'
  BY <1>0 DEF Late, Live, Scanning
<1>5. Stops'
  BY <1>0, TypeParts, Constants, NextTargetIs DEF Stops, Clocks
<1>6. Ahead'
  BY <1>0 DEF Ahead, Scanning
<1>7. Scanning'
  BY <1>0 DEF Scanning
<1>8. Sleeping'
  BY <1>0, TypeParts, Constants DEF Sleeping
<1>9. LcdHere'
  BY <1>0, TypeParts, Constants DEF LcdHere, InSlice, Sleeping
<1> QED BY <1>1, <1>2, <1>3, <1>4, <1>5, <1>6, <1>7, <1>8, <1>9

\* ARM9Execute keeps the invariant.
LEMMA ARM9ExecuteIInv == IInv /\ ARM9Execute => IInv'
<1> SUFFICES ASSUME IInv, ARM9Execute PROVE IInv'
  OBVIOUS
<1> USE DEF IInv, ARM9Execute, flags, clock
<1>0. /\ list' = list /\ use' = use /\ scan' = scan
      /\ use.sleeps \in BOOLEAN
  BY TypeParts
<1>1. TypeOK'
  BY <1>0, TypeParts, Constants, NextTargetIs DEF TypeOK, ListType, Clocks, Slice
<1>2. ArgsRight'
  BY <1>0 DEF ArgsRight, Fits
<1>3. Clocks'
  BY <1>0, TypeParts, Constants, NextTargetIs DEF Clocks
<1>4. Late'
  BY <1>0 DEF Late, Live, Scanning
<1>5. Stops'
  BY <1>0, TypeParts, Constants, NextTargetIs DEF Stops, Clocks
<1>6. Ahead'
  BY <1>0 DEF Ahead, Scanning
<1>7. Scanning'
  BY <1>0 DEF Scanning
<1>8. Sleeping'
  BY <1>0, TypeParts, Constants DEF Sleeping
<1>9. LcdHere'
  BY <1>0, TypeParts, Constants DEF LcdHere, InSlice, Sleeping
<1> QED BY <1>1, <1>2, <1>3, <1>4, <1>5, <1>6, <1>7, <1>8, <1>9

\* ARM9Halt keeps the invariant.
LEMMA ARM9HaltIInv == IInv /\ ARM9Halt => IInv'
<1> SUFFICES ASSUME IInv, ARM9Halt PROVE IInv'
  OBVIOUS
<1> USE DEF IInv, ARM9Halt, flags, clock
<1>0. /\ list' = list /\ use' = use /\ scan' = scan
      /\ use.sleeps \in BOOLEAN
  BY TypeParts
<1>1. TypeOK'
  BY <1>0, TypeParts, Constants, NextTargetIs DEF TypeOK, ListType, Clocks, Slice
<1>2. ArgsRight'
  BY <1>0 DEF ArgsRight, Fits
<1>3. Clocks'
  BY <1>0, TypeParts, Constants, NextTargetIs DEF Clocks
<1>4. Late'
  BY <1>0 DEF Late, Live, Scanning
<1>5. Stops'
  BY <1>0, TypeParts, Constants, NextTargetIs DEF Stops, Clocks
<1>6. Ahead'
  BY <1>0 DEF Ahead, Scanning
<1>7. Scanning'
  BY <1>0 DEF Scanning
<1>8. Sleeping'
  BY <1>0, TypeParts, Constants DEF Sleeping
<1>9. LcdHere'
  BY <1>0, TypeParts, Constants DEF LcdHere, InSlice, Sleeping
<1> QED BY <1>1, <1>2, <1>3, <1>4, <1>5, <1>6, <1>7, <1>8, <1>9

\* EndARM9 keeps the invariant.
LEMMA EndARM9IInv == IInv /\ EndARM9 => IInv'
<1> SUFFICES ASSUME IInv, EndARM9 PROVE IInv'
  OBVIOUS
<1> USE DEF IInv, EndARM9, flags, clock
<1>0. /\ list' = list /\ use' = use /\ scan' = scan
      /\ use.sleeps \in BOOLEAN
  BY TypeParts
<1>1. TypeOK'
  BY <1>0, TypeParts, Constants, NextTargetIs DEF TypeOK, ListType, Clocks, Slice
<1>2. ArgsRight'
  BY <1>0 DEF ArgsRight, Fits
<1>3. Clocks'
  BY <1>0, TypeParts, Constants, NextTargetIs DEF Clocks
<1>4. Late'
  BY <1>0 DEF Late, Live, Scanning
<1>5. Stops'
  BY <1>0, TypeParts, Constants, NextTargetIs DEF Stops, Clocks
<1>6. Ahead'
  BY <1>0 DEF Ahead, Scanning
<1>7. Scanning'
  BY <1>0 DEF Scanning
<1>8. Sleeping'
  BY <1>0, TypeParts, Constants DEF Sleeping
<1>9. LcdHere'
  BY <1>0, TypeParts, Constants DEF LcdHere, InSlice, Sleeping
<1> QED BY <1>1, <1>2, <1>3, <1>4, <1>5, <1>6, <1>7, <1>8, <1>9

\* ARM7Execute keeps the invariant.
LEMMA ARM7ExecuteIInv == IInv /\ ARM7Execute => IInv'
<1> SUFFICES ASSUME IInv, ARM7Execute PROVE IInv'
  OBVIOUS
<1> USE DEF IInv, ARM7Execute, flags, clock
<1>0. /\ list' = list /\ use' = use /\ scan' = scan
      /\ use.sleeps \in BOOLEAN
  BY TypeParts
<1>1. TypeOK'
  BY <1>0, TypeParts, Constants, NextTargetIs DEF TypeOK, ListType, Clocks, Slice
<1>2. ArgsRight'
  BY <1>0 DEF ArgsRight, Fits
<1>3. Clocks'
  BY <1>0, TypeParts, Constants, NextTargetIs DEF Clocks
<1>4. Late'
  BY <1>0 DEF Late, Live, Scanning
<1>5. Stops'
  BY <1>0, TypeParts, Constants, NextTargetIs DEF Stops, Clocks
<1>6. Ahead'
  BY <1>0 DEF Ahead, Scanning
<1>7. Scanning'
  BY <1>0 DEF Scanning
<1>8. Sleeping'
  BY <1>0, TypeParts, Constants DEF Sleeping
<1>9. LcdHere'
  BY <1>0, TypeParts, Constants DEF LcdHere, InSlice, Sleeping
<1> QED BY <1>1, <1>2, <1>3, <1>4, <1>5, <1>6, <1>7, <1>8, <1>9

\* A write to VCOUNT keeps the invariant.
LEMMA SetVCountIInv == IInv /\ SetVCount => IInv'
<1> SUFFICES ASSUME IInv, SetVCount PROVE IInv'
  OBVIOUS
<1> USE DEF IInv, flags
<1>0. /\ list' = list /\ use' = use /\ scan' = scan /\ pc' = pc
      /\ target9' = target9 /\ goal' = goal /\ left' = left /\ lines' = lines
      /\ asleep' = asleep /\ wakeup' = wakeup /\ running' = running
      /\ use.sleeps \in BOOLEAN
  BY TypeParts DEF SetVCount
<1>1. \/ pc = "arm9" /\ arm9 < target9 /\ (\E n \in 1 .. MaxInstr : arm9' = arm9 + n) /\ arm7' = arm7
      \/ pc = "arm7" /\ arm7 < goal /\ (\E n \in 1 .. MaxInstr : arm7' = arm7 + n) /\ arm9' = arm9
  BY DEF SetVCount
<1>2. vcount' \in CountType
  <2>1. PICK v \in 0 .. Lines : vcount' = [vcount EXCEPT !.next = v, !.writes = @ + 1]
    BY DEF SetVCount
  <2>2. vcount \in CountType /\ vcount.writes < MaxWrites
    BY DEF SetVCount, TypeOK, CountType
  <2>3. vcount' = [now |-> vcount.now, next |-> v, writes |-> vcount.writes + 1]
    BY <2>1, <2>2 DEF CountType
  <2>4. vcount.writes + 1 \in 0 .. MaxWrites /\ v \in -1 .. Lines
    BY <2>2, Constants DEF CountType
  <2> QED BY <2>2, <2>3, <2>4 DEF CountType
<1>3. arm9' \in 0 .. Slice + MaxInstr /\ arm7' \in 0 .. Slice + 2 * MaxInstr
  BY <1>1, Constants DEF TypeOK, Slice
<1>t. TypeOK'
  BY <1>0, <1>2, <1>3 DEF TypeOK, CountType, Slice
<1>a. ArgsRight'
  BY <1>0 DEF ArgsRight, Fits
<1>c. Clocks'
  BY <1>0, <1>1, TypeParts, Constants DEF Clocks
<1>l. Late' /\ Stops' /\ Ahead' /\ Scanning'
  BY <1>0 DEF Late, Live, Stops, Ahead, Scanning
<1>s. Sleeping' /\ LcdHere'
  BY <1>0 DEF Sleeping, LcdHere, InSlice
<1> QED BY <1>t, <1>a, <1>c, <1>l, <1>s

\* EnterSleepMode keeps the invariant.
LEMMA EnterSleepModeIInv == IInv /\ EnterSleepMode => IInv'
<1> SUFFICES ASSUME IInv, EnterSleepMode PROVE IInv'
  OBVIOUS
<1> USE DEF IInv, EnterSleepMode, flags, clock
<1>0. /\ list' = list /\ use' = use /\ scan' = scan
      /\ use.sleeps \in BOOLEAN
  BY TypeParts
<1>1. TypeOK'
  BY <1>0, TypeParts, Constants, NextTargetIs DEF TypeOK, ListType, Clocks, Slice
<1>2. ArgsRight'
  BY <1>0 DEF ArgsRight, Fits
<1>3. Clocks'
  BY <1>0, TypeParts, Constants, NextTargetIs DEF Clocks
<1>4. Late'
  BY <1>0 DEF Late, Live, Scanning
<1>5. Stops'
  BY <1>0, TypeParts, Constants, NextTargetIs DEF Stops, Clocks
<1>6. Ahead'
  BY <1>0 DEF Ahead, Scanning
<1>7. Scanning'
  BY <1>0 DEF Scanning
<1>8. Sleeping'
  BY <1>0, TypeParts, Constants DEF Sleeping
<1>9. LcdHere'
  BY <1>0, TypeParts, Constants DEF LcdHere, InSlice, Sleeping
<1> QED BY <1>1, <1>2, <1>3, <1>4, <1>5, <1>6, <1>7, <1>8, <1>9

\* Stop keeps the invariant.
LEMMA StopIInv == IInv /\ Stop => IInv'
<1> SUFFICES ASSUME IInv, Stop PROVE IInv'
  OBVIOUS
<1> USE DEF IInv, Stop, flags, clock
<1>0. /\ list' = list /\ use' = use /\ scan' = scan
      /\ use.sleeps \in BOOLEAN
  BY TypeParts
<1>1. TypeOK'
  <2>1. arm7' \in 0 .. Slice + 2 * MaxInstr
    BY TypeParts, Constants DEF TypeOK, Clocks, Slice
  <2>2. {asleep', wakeup', running'} \subseteq BOOLEAN
    BY DEF TypeOK
  <2> QED BY <1>0, <2>1, <2>2 DEF TypeOK, Slice
<1>2. ArgsRight'
  BY <1>0 DEF ArgsRight, Fits
<1>3. Clocks'
  BY <1>0, TypeParts, Constants, NextTargetIs DEF Clocks
<1>4. Late'
  BY <1>0 DEF Late, Live, Scanning
<1>5. Stops'
  BY <1>0, TypeParts, Constants, NextTargetIs DEF Stops, Clocks
<1>6. Ahead'
  BY <1>0 DEF Ahead, Scanning
<1>7. Scanning'
  BY <1>0 DEF Scanning
<1>8. Sleeping'
  BY <1>0, TypeParts, Constants DEF Sleeping
<1>9. LcdHere'
  BY <1>0, TypeParts, Constants DEF LcdHere, InSlice, Sleeping
<1> QED BY <1>1, <1>2, <1>3, <1>4, <1>5, <1>6, <1>7, <1>8, <1>9

\* EndSystem keeps the invariant.
LEMMA EndSystemIInv == IInv /\ EndSystem => IInv'
<1> SUFFICES ASSUME IInv, EndSystem PROVE IInv'
  OBVIOUS
<1> USE DEF IInv, EndSystem, flags, clock
<1>0. /\ list' = list /\ use' = use /\ scan' = scan
      /\ use.sleeps \in BOOLEAN
  BY TypeParts
<1>1. TypeOK'
  BY <1>0, TypeParts, Constants, NextTargetIs DEF TypeOK, ListType, Clocks, Slice
<1>2. ArgsRight'
  BY <1>0 DEF ArgsRight, Fits
<1>3. Clocks'
  BY <1>0, TypeParts, Constants, NextTargetIs DEF Clocks
<1>4. Late'
  BY <1>0 DEF Late, Live, Scanning
<1>5. Stops'
  BY <1>0, TypeParts, Constants, NextTargetIs DEF Stops, Clocks
<1>6. Ahead'
  BY <1>0 DEF Ahead, Scanning
<1>7. Scanning'
  BY <1>0 DEF Scanning
<1>8. Sleeping'
  BY <1>0, TypeParts, Constants DEF Sleeping
<1>9. LcdHere'
  BY <1>0, TypeParts, Constants DEF LcdHere, InSlice, Sleeping
<1> QED BY <1>1, <1>2, <1>3, <1>4, <1>5, <1>6, <1>7, <1>8, <1>9

\* EndSleep keeps the invariant.
LEMMA EndSleepIInv == IInv /\ EndSleep => IInv'
<1> SUFFICES ASSUME IInv, EndSleep PROVE IInv'
  OBVIOUS
<1> USE DEF IInv, EndSleep, flags, clock
<1>0. /\ list' = list /\ use' = use /\ scan' = scan
      /\ use.sleeps \in BOOLEAN
  BY TypeParts
<1>1. TypeOK'
  BY <1>0, TypeParts, Constants, NextTargetIs DEF TypeOK, ListType, Clocks, Slice
<1>2. ArgsRight'
  BY <1>0 DEF ArgsRight, Fits
<1>3. Clocks'
  BY <1>0, TypeParts, Constants, NextTargetIs DEF Clocks
<1>4. Late'
  BY <1>0 DEF Late, Live, Scanning
<1>5. Stops'
  BY <1>0, TypeParts, Constants, NextTargetIs DEF Stops, Clocks
<1>6. Ahead'
  BY <1>0 DEF Ahead, Scanning
<1>7. Scanning'
  BY <1>0 DEF Scanning
<1>8. Sleeping'
  BY <1>0, TypeParts, Constants DEF Sleeping
<1>9. LcdHere'
  BY <1>0, TypeParts, Constants DEF LcdHere, InSlice, Sleeping
<1> QED BY <1>1, <1>2, <1>3, <1>4, <1>5, <1>6, <1>7, <1>8, <1>9

\* Reset keeps the invariant.
LEMMA ResetIInv == Short /\ IInv /\ Reset => IInv'
<1> SUFFICES ASSUME Short, IInv, Reset PROVE IInv'
  OBVIOUS
<1> USE DEF IInv
<1>1. list' = ResetList /\ use' = use /\ pc = "idle" /\ pc' = "idle" /\ scan' = scan
  BY DEF Reset
<1>2. /\ list' \in ListType /\ list'.pending \subseteq Audible /\ list'.due["LCD"] = 0
      /\ "SPU" \in list'.pending => list'.due["SPU"] = SpuPeriod /\ list'.arg["SPU"] = <<"Mix", 0>>
      /\ "RTC" \in list'.pending => list'.due["RTC"] = RtcPeriod /\ list'.arg["RTC"] = <<"ClockTimer", 0>>
  BY <1>1, ResetListIs, TypeParts
<1>t. TypeOK'
  <2>1. /\ arm9' \in 0 .. Slice + MaxInstr /\ arm7' \in 0 .. Slice + 2 * MaxInstr
        /\ target9' \in Int /\ target9' <= Slice /\ lines' \in Nat
    BY Constants DEF Reset, Slice
  <2>2. {asleep', wakeup', running'} \subseteq BOOLEAN
    BY DEF Reset
  <2> QED BY <1>1, <1>2, <2>1, <2>2, CountIs DEF Reset, TypeOK, ListType, Slice, CountType
<1>a. ArgsRight'
  BY <1>2 DEF ArgsRight, Fits, Audible
<1>l. Late' /\ Stops' /\ Ahead'
  BY <1>1, <1>2, Constants DEF Late, Stops, Ahead, Audible, Live
<1>c. Clocks' /\ Scanning' /\ Sleeping' /\ LcdHere'
  BY <1>1, <1>2, Constants DEF Reset, Clocks, Scanning, Sleeping, LcdHere, Audible, InSlice
<1> QED BY <1>t, <1>a, <1>l, <1>c

\* TopAwake keeps the invariant.
LEMMA TopAwakeIInv == IInv /\ TopAwake => IInv'
<1> SUFFICES ASSUME IInv, TopAwake PROVE IInv'
  OBVIOUS
<1> USE DEF IInv
<1>1. /\ pc = "top" /\ running /\ ~asleep /\ wakeup' = FALSE /\ pc' = "slice"
      /\ use' = use /\ scan' = scan /\ asleep' = asleep /\ running' = running
      /\ arm9' = arm9 /\ arm7' = arm7 /\ target9' = target9 /\ goal' = goal /\ left' = left
  BY DEF TopAwake, clock
<1>2. lines = 0 /\ lines' = 0
  BY <1>1 DEF TopAwake, Sleeping
<1>3. /\ list' \in ListType
      /\ list.pending \subseteq list'.pending
      /\ list'.pending \subseteq list.pending \cup {"LCD", "DisplayFIFO"}
      /\ ~wakeup => "LCD" \in list'.pending
      /\ \A e \in list.pending : list'.due[e] = list.due[e] /\ list'.arg[e] = list.arg[e]
      /\ \A e \in (list'.pending \ list.pending) \cup {"LCD"} : list'.due[e] > 0 - MaxInstr
      /\ \A e \in list'.pending \ list.pending : Fits(e, list'.arg[e])
  <2>1. CASE wakeup
    BY <1>1, <2>1, TypeParts DEF TopAwake, Late, Live
  <2>2. CASE ~wakeup
    <3>1. list' = StartScanline(list, 0) /\ 0 \in Nat /\ arm7 \in Nat
      BY <2>2, Constants, TypeParts DEF TopAwake
    <3>2. "LCD" \notin list.pending
      BY <1>1, <2>2 DEF LcdHere, InSlice
    <3>3. /\ list' \in ListType
          /\ list'.pending = list.pending \cup {"LCD"} \cup (IF StartsFifo(0) THEN {"DisplayFIFO"} ELSE {})
          /\ list'.due["LCD"] = list.due["LCD"] + HBlank /\ list'.arg["LCD"] = <<"StartHBlank", 0>>
          /\ \A e \in Events \ {"LCD", "DisplayFIFO"} :
                 list'.due[e] = list.due[e] /\ list'.arg[e] = list.arg[e]
          /\ IF StartsFifo(0) /\ "DisplayFIFO" \notin list.pending
             THEN list'.due["DisplayFIFO"] = arm7 + FifoStart /\ list'.arg["DisplayFIFO"] = <<"FIFO", 0>>
             ELSE list'.due["DisplayFIFO"] = list.due["DisplayFIFO"]
                  /\ list'.arg["DisplayFIFO"] = list.arg["DisplayFIFO"]
      BY <3>1, <3>2, TypeParts, StartScanlineIs
    <3>4. list.due["LCD"] > 0 - MaxInstr /\ list.due["LCD"] \in Int
      BY <1>1, TypeParts, SixEvents DEF Late, Live
    <3>5. list'.due["LCD"] > 0 - MaxInstr
      BY <3>3, <3>4, Constants
    <3>6. Fits("LCD", list'.arg["LCD"])
      BY <3>1, <3>3 DEF Fits
    <3>7. "DisplayFIFO" \in list'.pending \ list.pending =>
              list'.due["DisplayFIFO"] > 0 - MaxInstr /\ Fits("DisplayFIFO", list'.arg["DisplayFIFO"])
      BY <3>1, <3>3, Constants DEF Fits
    <3>8. \A e \in list.pending : list'.due[e] = list.due[e] /\ list'.arg[e] = list.arg[e]
      BY <3>2, <3>3, TypeParts
    <3> QED BY <3>3, <3>5, <3>6, <3>7, <3>8
  <2> QED BY <2>1, <2>2
<1>t. TypeOK'
  <2>1. vcount' \in CountType
    BY CountIs DEF TopAwake, TypeOK, CountType
  <2> QED BY <1>1, <1>2, <1>3, <2>1, Constants DEF TypeOK, ListType, Slice, CountType
<1>a. ArgsRight'
  BY <1>3 DEF ArgsRight, Fits
<1>l. Late'
  BY <1>1, <1>3 DEF Late, Live
<1>h. Stops' /\ Ahead' /\ Scanning'
  BY <1>1, <1>3 DEF Stops, Ahead, Scanning, Audible
<1>c. Clocks' /\ Sleeping'
  BY <1>1, <1>2 DEF Clocks, Sleeping
<1>i. LcdHere'
  BY <1>1, <1>2, <1>3, TypeParts DEF LcdHere, Sleeping, InSlice
<1> QED BY <1>t, <1>a, <1>l, <1>h, <1>c, <1>i

\* StartDiv keeps the invariant.
LEMMA StartDivIInv == IInv /\ StartDiv => IInv'
<1> SUFFICES ASSUME IInv, StartDiv PROVE IInv'
  OBVIOUS
<1> USE DEF IInv
<1>1. /\ pc = "arm9" /\ arm9 < target9 /\ pc' = "arm9"
      /\ list' = Scheduled(Cancelled(list, "Div"), "Div", arm9 + DivDelay, <<"DivDone", 0>>)
      /\ target9' = Lesser(target9, arm9 + DivDelay)
      /\ use' = use /\ scan' = scan /\ asleep' = asleep /\ wakeup' = wakeup /\ running' = running
      /\ arm7' = arm7 /\ goal' = goal /\ left' = left /\ lines' = lines /\ vcount' = vcount
  BY DEF StartDiv, flags
<1>2. PICK n \in 1 .. MaxInstr : arm9' = arm9 + n
  BY DEF StartDiv
<1>3. /\ arm9 \in Nat /\ target9 \in Int /\ DivDelay \in Nat \ {0} /\ arm9 + DivDelay \in Int
      /\ "Div" \in Events /\ <<"DivDone", 0>> \in Handlers \X Nat
  BY TypeParts, Constants, SixEvents, HandlerTypes
<1> DEFINE c == Cancelled(list, "Div")
<1>4. /\ c \in ListType /\ c.pending = list.pending \ {"Div"} /\ c.due = list.due /\ c.arg = list.arg
  BY <1>3, TypeParts, CancelledIs
<1>5. list' = Scheduled(c, "Div", arm9 + DivDelay, <<"DivDone", 0>>)
  BY <1>1
<1> HIDE DEF c
<1>6. /\ list' \in ListType /\ list'.pending = c.pending \cup {"Div"}
      /\ \A x \in Events \ {"Div"} : list'.due[x] = c.due[x] /\ list'.arg[x] = c.arg[x]
      /\ list'.due["Div"] = arm9 + DivDelay /\ list'.arg["Div"] = <<"DivDone", 0>>
  BY <1>3, <1>4, <1>5, ScheduledIs
<1>7. list'.pending = list.pending \cup {"Div"}
  BY <1>4, <1>6
<1>8. \A x \in Events \ {"Div"} : list'.due[x] = list.due[x] /\ list'.arg[x] = list.arg[x]
  BY <1>4, <1>6
<1>9. target9' \in Int /\ target9' <= target9 /\ target9' <= arm9 + DivDelay
      /\ arm9' < target9' + MaxInstr /\ arm9' \in Nat
  BY <1>1, <1>2, <1>3, Constants DEF Lesser
<1>t. TypeOK'
  <2>1. target9' <= Slice /\ arm9' \in 0 .. Slice + MaxInstr
    <3>1. target9 <= Slice /\ Slice \in Nat
      BY Constants DEF TypeOK, Slice
    <3>2. target9' <= Slice
      BY <1>3, <1>9, <3>1
    <3>3. arm9 + n < Slice + MaxInstr /\ arm9 + n \in Nat
      BY <1>1, <1>3, <3>1, Constants
    <3> QED BY <1>2, <3>1, <3>2, <3>3, Constants
  <2> QED BY <1>1, <1>6, <1>9, <2>1 DEF TypeOK, ListType, Slice
<1>a. ArgsRight'
  BY <1>6, <1>7, <1>8, TypeParts, SixEvents DEF ArgsRight, Fits
<1>l. Late'
  <2>1. list'.due["Div"] > 0 - MaxInstr
    BY <1>3, <1>6, Constants
  <2> QED BY <1>1, <1>7, <1>8, <2>1, TypeParts, SixEvents DEF Late, Live
<1>s. Stops'
  <2>1. \A e \in list.pending \ {"Div"} : target9' <= list'.due[e]
    BY <1>1, <1>3, <1>8, <1>9, TypeParts DEF Stops
  <2> QED BY <1>1, <1>6, <1>7, <1>9, <2>1 DEF Stops
<1>h. Ahead' /\ Scanning'
  BY <1>1, <1>7, <1>8, TypeParts DEF Ahead, Scanning, Audible
<1>c. Clocks' /\ Sleeping' /\ LcdHere'
  BY <1>1, <1>7, <1>9 DEF Clocks, Sleeping, LcdHere, InSlice
<1> QED BY <1>t, <1>a, <1>l, <1>s, <1>h, <1>c

\* StartSPI keeps the invariant.
LEMMA StartSPIIInv == IInv /\ StartSPI => IInv'
<1> SUFFICES ASSUME IInv, StartSPI PROVE IInv'
  OBVIOUS
<1> USE DEF IInv
<1>1. /\ pc = "arm7" /\ arm7 < goal /\ pc' = "arm7" /\ "SPITransfer" \notin list.pending
      /\ list' = Scheduled(list, "SPITransfer", arm7 + SpiDelay, <<"TransferDone", 0>>)
      /\ use' = use /\ scan' = scan /\ asleep' = asleep /\ wakeup' = wakeup /\ running' = running
      /\ arm9' = arm9 /\ target9' = target9 /\ goal' = goal /\ left' = left /\ lines' = lines
      /\ vcount' = vcount
  BY DEF StartSPI, flags
<1>2. PICK n \in 1 .. MaxInstr : arm7' = arm7 + n
  BY DEF StartSPI
<1>3. /\ arm7 \in Nat /\ goal \in Nat /\ SpiDelay \in Nat /\ arm7 + SpiDelay \in Int
      /\ "SPITransfer" \in Events /\ <<"TransferDone", 0>> \in Handlers \X Nat
  BY TypeParts, Constants, SixEvents, HandlerTypes
<1>4. /\ list' \in ListType /\ list'.pending = list.pending \cup {"SPITransfer"}
      /\ \A x \in Events \ {"SPITransfer"} : list'.due[x] = list.due[x] /\ list'.arg[x] = list.arg[x]
      /\ list'.due["SPITransfer"] = arm7 + SpiDelay
      /\ list'.arg["SPITransfer"] = <<"TransferDone", 0>>
  BY <1>1, <1>3, TypeParts, ScheduledIs
<1>5. arm7' \in Nat /\ arm7' < goal' + MaxInstr
  BY <1>1, <1>2, <1>3, Constants
<1>t. TypeOK'
  <2>1. arm7' \in 0 .. Slice + 2 * MaxInstr
    BY <1>1, <1>5, Constants DEF TypeOK, Slice
  <2> QED BY <1>1, <1>4, <2>1 DEF TypeOK, ListType, Slice
<1>a. ArgsRight'
  BY <1>4, TypeParts, SixEvents DEF ArgsRight, Fits
<1>l. Late'
  <2>1. list'.due["SPITransfer"] > 0 - MaxInstr
    BY <1>3, <1>4, Constants
  <2> QED BY <1>1, <1>4, <2>1, TypeParts, SixEvents DEF Late, Live
<1>h. Stops' /\ Ahead' /\ Scanning'
  BY <1>1, <1>4, TypeParts DEF Stops, Ahead, Scanning, Audible
<1>c. Clocks' /\ Sleeping' /\ LcdHere'
  BY <1>1, <1>4, <1>5 DEF Clocks, Sleeping, LcdHere, InSlice
<1> QED BY <1>t, <1>a, <1>l, <1>h, <1>c

\* EndARM7 keeps the invariant.
LEMMA EndARM7IInv == IInv /\ EndARM7 => IInv'
<1> SUFFICES ASSUME IInv, EndARM7 PROVE IInv'
  OBVIOUS
<1> USE DEF IInv
<1>1. /\ pc = "arm7" /\ arm7 >= goal /\ pc' = "system" /\ list' = Moved(list, goal)
      /\ arm9' = arm9 - goal /\ arm7' = arm7 - goal /\ target9' = 0 /\ goal' = 0
      /\ scan' = list.pending
      /\ use' = use /\ asleep' = asleep /\ wakeup' = wakeup /\ running' = running
      /\ left' = left /\ lines' = lines /\ vcount' = vcount
  BY DEF EndARM7, flags
<1>2. arm7 \in Nat /\ goal \in Nat /\ goal \in Int /\ arm9 = goal /\ arm7 < goal + MaxInstr
  BY <1>1, TypeParts DEF Clocks
<1>3. /\ list' \in ListType /\ list'.pending = list.pending /\ list'.arg = list.arg
      /\ \A e \in list.pending : list'.due[e] = list.due[e] - goal
      /\ "LCD" \notin list.pending => list'.due["LCD"] = list.due["LCD"]
  BY <1>1, <1>2, TypeParts, MovedIs
<1>4. arm9' = 0 /\ arm7' \in 0 .. MaxInstr - 1
  BY <1>1, <1>2, Constants
<1>5. list'.pending \subseteq Events
  BY <1>3, TypeParts
<1>t. TypeOK'
  <2>1. arm9' \in 0 .. Slice + MaxInstr /\ arm7' \in 0 .. Slice + 2 * MaxInstr
        /\ goal' \in 0 .. Slice + MaxInstr /\ target9' \in Int /\ target9' <= Slice
    BY <1>1, <1>4, Constants DEF Slice
  <2> QED BY <1>1, <1>3, <1>5, <2>1 DEF TypeOK, ListType, Slice
<1>a. ArgsRight'
  BY <1>3 DEF ArgsRight, Fits
<1>l. Late'
  <2>1. \A e \in list.pending \ {"SPITransfer"} : list'.due[e] > 0 - MaxInstr
    BY <1>1, <1>2, <1>3, TypeParts, Constants DEF Late, Live, Stops
  <2>2. "LCD" \notin list.pending => list'.due["LCD"] > 0 - MaxInstr
    BY <1>1, <1>3 DEF Late, Live
  <2> QED BY <1>1, <1>3, <2>1, <2>2 DEF Late, Live
<1>h. Stops' /\ Ahead' /\ Scanning'
  BY <1>1, <1>3 DEF Stops, Ahead, Scanning, Audible
<1>c. Clocks' /\ Sleeping' /\ LcdHere'
  BY <1>1, <1>3, <1>4, Constants DEF Clocks, Sleeping, LcdHere, InSlice
<1> QED BY <1>t, <1>a, <1>l, <1>h, <1>c

\* A visit of RunSystem to an event that is not due.
LEMMA PassedIInv ==
    ASSUME IInv, pc = "system", scan # {}, scan' = scan \ {First(scan)},
           list.due[First(scan)] > 0, UNCHANGED <<list, lines, vcount, flags, use, clock, running, pc>>
    PROVE  IInv'
<1> DEFINE e == First(scan)
<1> USE DEF IInv
<1>1. e \in scan /\ scan \subseteq list.pending /\ scan \subseteq Events
  BY FirstIn, TypeParts DEF Scanning
<1>2. scan' = scan \ {e} /\ list.due[e] > 0
  OBVIOUS
<1> HIDE DEF e
<1>3. list.due[e] \in Int
  BY <1>1, TypeParts
<1> USE DEF flags, clock
<1>t. TypeOK'
  BY <1>1, <1>2 DEF TypeOK, Slice
<1>a. ArgsRight' /\ Clocks' /\ Sleeping' /\ LcdHere' /\ Stops'
  BY DEF ArgsRight, Fits, Clocks, Sleeping, LcdHere, InSlice, Stops
<1>l. Late'
  BY <1>1, <1>2, <1>3, Constants DEF Late, Live
<1>h. Ahead' /\ Scanning'
  BY <1>1, <1>2 DEF Ahead, Scanning
<1> QED BY <1>t, <1>a, <1>l, <1>h

\* An interrupt ends a sleep by a wakeup and does nothing else.
LEMMA FlagsIs ==
    ASSUME TypeOK, Sleeping, UNCHANGED flags \/ SetIRQ
    PROVE  /\ asleep' \in BOOLEAN /\ wakeup' \in BOOLEAN
           /\ (asleep \/ wakeup) => (asleep' \/ wakeup')
           /\ (asleep' \/ wakeup') => (asleep \/ wakeup)
           /\ ~asleep => ~asleep'
<1>1. asleep \in BOOLEAN /\ wakeup \in BOOLEAN
  BY TypeParts
<1>2. CASE UNCHANGED flags
  BY <1>1, <1>2 DEF flags
<1>3. CASE SetIRQ /\ asleep
  BY <1>3 DEF SetIRQ
<1>4. CASE SetIRQ /\ ~asleep
  BY <1>1, <1>4 DEF SetIRQ, flags
<1> QED BY <1>2, <1>3, <1>4

\* A visit of RunSystem to an event that is due.
LEMMA FiredIInv ==
    ASSUME Short, IInv, pc = "system", scan # {}, scan' = scan \ {First(scan)},
           list.due[First(scan)] <= 0, Fire(First(scan)), UNCHANGED <<use, clock, running, pc>>
    PROVE  IInv'
<1> DEFINE e == First(scan)
<1> USE DEF IInv
<1>1. e \in scan /\ scan \subseteq list.pending /\ scan \subseteq Events
  BY FirstIn, TypeParts DEF Scanning
<1>2. scan' = scan \ {e} /\ list.due[e] <= 0 /\ Fire(e)
  OBVIOUS
<1> HIDE DEF e
<1>3. e \in Events /\ list.due[e] \in Int /\ e \in list.pending
  BY <1>1, TypeParts
<1> DEFINE l == Cancelled(list, e)
<1>4. l \in ListType /\ l.pending = list.pending \ {e} /\ l.due = list.due /\ l.arg = list.arg
  BY <1>3, TypeParts, CancelledIs
<1>5. /\ list' = Handled(l, e)
      /\ lines' = IF list.arg[e][1] = "FinishFrame" THEN list.arg[e][2] ELSE lines
      /\ vcount' = IF list.arg[e][1] = "StartScanline" THEN VCountAt(list.arg[e][2]) ELSE vcount
      /\ UNCHANGED flags \/ SetIRQ
  BY <1>2 DEF Fire
<1> HIDE DEF l
<1>6. Fits(e, list.arg[e]) /\ (list.due[e] > 0 - MaxInstr \/ e = "SPITransfer")
  BY <1>3 DEF ArgsRight, Late, Live
<1>7. HandledWell(l, e, list')
  BY <1>3, <1>4, <1>5, <1>6, HandledIs, TypeParts
<1>8. /\ list' \in ListType
      /\ list.pending \ {e} \subseteq list'.pending
      /\ list'.pending \subseteq list.pending \cup {e, "DisplayFIFO"}
      /\ \A x \in list.pending \ {e} : list'.due[x] = list.due[x] /\ list'.arg[x] = list.arg[x]
      /\ \A x \in list'.pending \ (list.pending \ {e}) :
             /\ Fits(x, list'.arg[x])
             /\ list'.due[x] > 0 - MaxInstr
             /\ x \in Audible => list'.due[x] > 0
      /\ "LCD" \notin list'.pending => list'.due["LCD"] = list.due["LCD"]
      /\ "LCD" \notin list.pending \ {e} =>
             ("LCD" \in list'.pending <=> e = "LCD" /\ list.arg[e][1] # "FinishFrame")
  BY <1>4, <1>7 DEF HandledWell
<1>9. /\ asleep' \in BOOLEAN /\ wakeup' \in BOOLEAN
      /\ (asleep \/ wakeup) => (asleep' \/ wakeup')
      /\ (asleep' \/ wakeup') => (asleep \/ wakeup)
  BY <1>5, FlagsIs
<1>10. \/ lines' = lines /\ list.arg[e][1] # "FinishFrame"
       \/ lines' \in Nat \ {0} /\ list.arg[e][1] = "FinishFrame" /\ e = "LCD"
  <2>1. CASE list.arg[e][1] # "FinishFrame"
    BY <1>5, <2>1
  <2>2. CASE list.arg[e][1] = "FinishFrame"
    <3>1. e = "LCD"
      BY <1>3, <1>6, <2>2, SixEvents DEF Fits
    <3>2. \E n \in Nat \ {0} : list.arg[e] = <<"FinishFrame", n>>
      BY <1>6, <2>2, <3>1 DEF Fits
    <3> QED BY <1>5, <2>2, <3>1, <3>2
  <2> QED BY <2>1, <2>2
<1>t. TypeOK'
  <2>1. lines' \in Nat
    BY <1>10, Constants DEF TypeOK
  <2>2. {asleep', wakeup', running'} \subseteq BOOLEAN
    BY <1>9 DEF TypeOK
  <2>3. scan' \subseteq Events /\ use' \in Uses
    BY <1>1, <1>2 DEF TypeOK
  <2>4. list.arg[e][2] \in Nat
    BY <1>3 DEF TypeOK
  <2>5. vcount' \in CountType
    BY <1>5, <2>4, CountIs DEF TypeOK, CountType
  <2> QED BY <1>8, <2>1, <2>2, <2>3, <2>5 DEF TypeOK, ListType, Slice, clock, CountType
<1>a. ArgsRight'
  BY <1>8 DEF ArgsRight, Fits
<1>l. Late'
  <2>1. list.due["LCD"] > 0 - MaxInstr
    BY DEF Late, Live
  <2>2. \A x \in list'.pending : x = "SPITransfer" \/ list'.due[x] > 0 - MaxInstr
    BY <1>8 DEF Late, Live
  <2>3. list'.due["LCD"] > 0 - MaxInstr
    BY <1>8, <2>1, <2>2
  <2>4. \A x \in list'.pending \ scan' : list'.due[x] > 0 - MaxInstr
    BY <1>2, <1>8 DEF Late
  <2> QED BY <2>2, <2>3, <2>4 DEF Late, Live
<1>h. Ahead'
  BY <1>2, <1>8 DEF Ahead, Audible
<1>n. Scanning' /\ Stops' /\ Clocks'
  BY <1>1, <1>2, <1>8 DEF Scanning, Stops, Clocks, clock
<1>s. Sleeping'
  BY <1>9, TypeParts DEF Sleeping
<1>i. LcdHere'
  <2>1. CASE list.arg[e][1] = "FinishFrame" /\ e = "LCD" /\ lines' \in Nat \ {0}
    BY <1>8, <2>1, Constants DEF LcdHere, InSlice
  <2>2. CASE list.arg[e][1] # "FinishFrame" /\ lines' = lines
    <3>1. "LCD" \in list'.pending <=> "LCD" \in list.pending
      BY <1>1, <1>8, <2>2
    <3> QED BY <1>9, <2>2, <3>1, TypeParts DEF LcdHere, InSlice
  <2> QED BY <1>10, <2>1, <2>2
<1> QED BY <1>t, <1>a, <1>l, <1>h, <1>n, <1>s, <1>i

\* RunSystem keeps the invariant.
LEMMA RunSystemIInv == Short /\ IInv /\ RunSystem => IInv'
<1> SUFFICES ASSUME Short, IInv, RunSystem PROVE IInv'
  OBVIOUS
<1>1. /\ pc = "system" /\ scan # {} /\ scan' = scan \ {First(scan)}
      /\ IF list.due[First(scan)] <= 0 THEN Fire(First(scan)) ELSE UNCHANGED <<list, lines, vcount, flags>>
      /\ UNCHANGED <<use, clock, running, pc>>
  BY DEF RunSystem
<1>2. list.due[First(scan)] \in Int
  BY <1>1, FirstIn, TypeParts DEF IInv
<1>3. CASE list.due[First(scan)] <= 0
  BY <1>1, <1>3, FiredIInv
<1>4. CASE list.due[First(scan)] > 0
  <2>1. UNCHANGED <<list, lines, vcount, flags>>
    BY <1>1, <1>2, <1>4
  <2> QED BY <1>1, <1>4, <2>1, PassedIInv
<1> QED BY <1>2, <1>3, <1>4

\* A sleep is as long as the time to the next event that may end it.
LEMMA SleepTargetIs ==
    ASSUME TypeOK, Ahead, pc = "sleep"
    PROVE  /\ SleepTarget \in 0 .. left
           /\ "RTC" \in list.pending => SleepTarget <= list.due["RTC"]
<1> DEFINE S == list.pending \cap Audible
<1>1. left \in Nat /\ \A x \in S : list.due[x] \in Int /\ list.due[x] > 0
  BY TypeParts DEF Ahead
<1>2. CASE S = {}
  BY <1>1, <1>2 DEF SleepTarget, Audible
<1>3. CASE S # {}
  <2>1. PICK m \in S : /\ Earliest(list, Audible) = list.due[m]
                       /\ \A x \in S : list.due[m] <= list.due[x]
    BY <1>3, TypeParts, EarliestIs
  <2>2. SleepTarget = Lesser(list.due[m], left)
    <3>1. SleepTarget = Lesser(Earliest(list, S), left)
      BY <1>3 DEF SleepTarget, Audible
    <3>2. Earliest(list, S) = Earliest(list, Audible)
      BY DEF Earliest
    <3> QED BY <2>1, <3>1, <3>2
  <2>3. SleepTarget \in 0 .. left /\ SleepTarget <= list.due[m]
    BY <1>1, <2>1, <2>2 DEF Lesser
  <2>4. "RTC" \in list.pending => list.due[m] <= list.due["RTC"] /\ list.due["RTC"] \in Int
    BY <1>1, <2>1 DEF Audible
  <2>5. list.due[m] \in Int
    BY <1>1, <2>1
  <2> QED BY <1>1, <2>3, <2>4, <2>5
<1> QED BY <1>2, <1>3

\* RunSystemSleep keeps the invariant.
LEMMA RunSystemSleepIInv == Short /\ IInv /\ RunSystemSleep => IInv'
<1> SUFFICES ASSUME Short, IInv, RunSystemSleep PROVE IInv'
  OBVIOUS
<1> USE DEF IInv
<1> DEFINE d == SleepTarget
           l == Slept(list, d)
           c == Cancelled(l, "RTC")
           rtc == "RTC" \in l.pending /\ l.due["RTC"] <= 0
<1>1. /\ pc = "sleep" /\ running /\ left > 0
      /\ list' = IF rtc THEN Handled(c, "RTC") ELSE l
      /\ arm9' = 0 /\ arm7' = 0 /\ left' = left - d
      /\ \/ UNCHANGED flags /\ pc' = pc
         \/ SetIRQ /\ pc' = "woken"
      /\ use' = use /\ scan' = scan /\ target9' = target9 /\ goal' = goal
      /\ running' = running /\ lines' = lines /\ vcount' = vcount
  BY DEF RunSystemSleep
<1>2. /\ d \in 0 .. left /\ d \in Int /\ left \in Nat /\ arm7 \in Nat
      /\ "RTC" \in list.pending => d <= list.due["RTC"]
  BY <1>1, SleepTargetIs, TypeParts
<1>e. "RTC" \in Events /\ "LCD" \in Events
  BY SixEvents
<1> HIDE DEF d
<1>L. \/ l.due["LCD"] = list.due["LCD"]
      \/ l.due["LCD"] = list.due["LCD"] - d /\ list.due["LCD"] > d
  BY <1>2, <1>e, TypeParts, SleptIs
<1>3. /\ l \in ListType /\ l.pending = list.pending /\ l.arg = list.arg
      /\ \A e \in Events : \/ l.due[e] = list.due[e]
                           \/ l.due[e] = list.due[e] - d /\ (e = "RTC" \/ list.due[e] > d)
      /\ "RTC" \in list.pending => l.due["RTC"] = list.due["RTC"] - d
  BY <1>2, TypeParts, SleptIs
<1> HIDE DEF l
<1>4. /\ c \in ListType /\ c.pending = l.pending \ {"RTC"} /\ c.due = l.due /\ c.arg = l.arg
  BY <1>3, <1>e, CancelledIs
<1> HIDE DEF c
<1>5. \A e \in list.pending \ {"RTC"} : /\ l.due[e] > 0 - MaxInstr
                                        /\ e \in Audible => l.due[e] > 0
  BY <1>1, <1>2, <1>3, TypeParts, Constants DEF Late, Live, Ahead
<1>6. "RTC" \in list.pending => l.due["RTC"] >= 0 /\ l.due["RTC"] \in Int
  BY <1>2, <1>3, <1>e, TypeParts
<1>7. l.due["LCD"] > 0 - MaxInstr
  <2>1. list.due["LCD"] > 0 - MaxInstr /\ list.due["LCD"] \in Int
    BY <1>1, <1>e, TypeParts DEF Late, Live
  <2> QED BY <1>2, <1>L, <2>1, Constants
<1>8. /\ list' \in ListType
      /\ list'.pending \subseteq list.pending \cup {"DisplayFIFO"}
      /\ \A x \in list'.pending : /\ Fits(x, list'.arg[x])
                                  /\ list'.due[x] > 0 - MaxInstr
                                  /\ x \in Audible => list'.due[x] > 0
      /\ list'.due["LCD"] > 0 - MaxInstr
      /\ "LCD" \in list'.pending <=> "LCD" \in list.pending
  <2>1. CASE rtc
    <3>1. list' = Handled(c, "RTC") /\ "RTC" \in list.pending
      BY <1>1, <1>3, <2>1
    <3>2. Fits("RTC", c.arg["RTC"]) /\ c.due["RTC"] > 0 - MaxInstr /\ "RTC" \notin c.pending
      BY <1>3, <1>4, <1>6, <3>1, Constants DEF ArgsRight
    <3>3. HandledWell(c, "RTC", list')
      BY <1>2, <1>4, <1>e, <3>1, <3>2, HandledIs
    <3>4. /\ list' \in ListType
          /\ list.pending \ {"RTC"} \subseteq list'.pending
          /\ list'.pending \subseteq list.pending \cup {"DisplayFIFO"}
          /\ \A x \in list.pending \ {"RTC"} : list'.due[x] = l.due[x] /\ list'.arg[x] = list.arg[x]
          /\ \A x \in list'.pending \ (list.pending \ {"RTC"}) :
                 /\ Fits(x, list'.arg[x])
                 /\ list'.due[x] > 0 - MaxInstr
                 /\ x \in Audible => list'.due[x] > 0
          /\ "LCD" \notin list'.pending => list'.due["LCD"] = l.due["LCD"]
          /\ "LCD" \notin list.pending => "LCD" \notin list'.pending
      BY <1>3, <1>4, <3>1, <3>3 DEF HandledWell
    <3>5. \A x \in list'.pending : /\ Fits(x, list'.arg[x])
                                   /\ list'.due[x] > 0 - MaxInstr
                                   /\ x \in Audible => list'.due[x] > 0
      <4>1. ASSUME NEW x \in list.pending \ {"RTC"}
            PROVE  /\ Fits(x, list'.arg[x])
                   /\ list'.due[x] > 0 - MaxInstr
                   /\ x \in Audible => list'.due[x] > 0
        <5>1. Fits(x, list.arg[x])
          BY DEF ArgsRight
        <5> QED BY <1>5, <3>4, <5>1
      <4> QED BY <3>4, <4>1
    <3>6. list'.due["LCD"] > 0 - MaxInstr
      BY <1>7, <3>4, <3>5
    <3>7. "LCD" \in list'.pending <=> "LCD" \in list.pending
      BY <3>4
    <3> QED BY <3>4, <3>5, <3>6, <3>7
  <2>2. CASE ~rtc
    <3>1. list' = l
      BY <1>1, <2>2
    <3>2. "RTC" \in list.pending => l.due["RTC"] > 0
      BY <1>3, <1>6, <2>2
    <3>3. \A x \in list.pending : l.due[x] > 0 - MaxInstr /\ (x \in Audible => l.due[x] > 0)
      BY <1>5, <1>6, <3>2, Constants
    <3>4. \A x \in list.pending : Fits(x, l.arg[x])
      BY <1>3 DEF ArgsRight
    <3> QED BY <1>3, <1>7, <3>1, <3>3, <3>4
  <2> QED BY <2>1, <2>2
<1> HIDE DEF rtc
<1>9. /\ asleep' \in BOOLEAN /\ wakeup' \in BOOLEAN
      /\ (asleep \/ wakeup) => (asleep' \/ wakeup')
      /\ (asleep' \/ wakeup') => (asleep \/ wakeup)
  BY <1>1, FlagsIs
<1>10. /\ pc' \in {"sleep", "woken"}
       /\ pc' = "sleep" => asleep' = asleep
       /\ pc' = "woken" => wakeup'
  BY <1>1 DEF flags, SetIRQ, Sleeping
<1>t. TypeOK'
  <2>1. /\ arm9' \in 0 .. Slice + MaxInstr /\ arm7' \in 0 .. Slice + 2 * MaxInstr
        /\ left' \in 0 .. FrameCycles
    BY <1>1, <1>2, Constants DEF TypeOK, Slice
  <2>2. {asleep', wakeup', running'} \subseteq BOOLEAN
    BY <1>1, <1>9 DEF TypeOK
  <2> QED BY <1>1, <1>8, <1>10, <2>1, <2>2 DEF TypeOK, ListType, Slice
<1>a. ArgsRight'
  BY <1>8 DEF ArgsRight, Fits
<1>l. Late' /\ Stops' /\ Ahead'
  BY <1>8, <1>10 DEF Late, Live, Stops, Ahead, Audible
<1>c. Clocks' /\ Scanning'
  BY <1>1, <1>10, Constants DEF Clocks, Scanning
<1>s. Sleeping'
  <2>1. asleep
    BY <1>1 DEF Sleeping
  <2>2. use.sleeps
    BY <2>1, TypeParts DEF Sleeping
  <2> QED BY <1>1, <1>10, <2>1, <2>2 DEF Sleeping
<1>i. LcdHere'
  BY <1>1, <1>8, <1>9, <1>10, TypeParts DEF LcdHere, InSlice
<1> QED BY <1>t, <1>a, <1>l, <1>c, <1>s, <1>i

\* Every step keeps the invariant.
LEMMA NextIInv == Short /\ IInv /\ [Next]_vars => IInv'
<1> SUFFICES ASSUME Short, IInv, [Next]_vars PROVE IInv'
  OBVIOUS
<1>1. CASE RunFrame \/ UserInput \/ Reset
  BY <1>1, RunFrameIInv, UserInputIInv, ResetIInv
<1>2. CASE Frame
  BY <1>2, TopStoppedIInv, TopAsleepIInv, TopAwakeIInv, EndLoopIInv, StartSliceIInv, ARM9ExecuteIInv,
     ARM9HaltIInv, StartDivIInv, EndARM9IInv, ARM7ExecuteIInv, StartSPIIInv, SetVCountIInv,
     EnterSleepModeIInv, StopIInv, EndARM7IInv, RunSystemIInv, EndSystemIInv, RunSystemSleepIInv, EndSleepIInv DEF Frame
<1>3. CASE UNCHANGED vars
  BY <1>3 DEF vars, clock, flags, IInv, TypeOK, ArgsRight, Fits, Clocks, Late, Live, Stops, Ahead,
     Scanning, Sleeping, LcdHere, InSlice, Slice
<1> QED BY <1>1, <1>2, <1>3 DEF Next

\* The inductive invariant holds of every run of RunFrame.
THEOREM Invariance == ASSUME Short PROVE Spec => []IInv
<1>1. Init => IInv
  BY InitIInv
<1>2. IInv /\ [Next]_vars => IInv'
  BY NextIInv
<1> QED BY <1>1, <1>2, PTL DEF Spec

\* No counter of the frame loop leaves its range: neither CPU runs further than a slice
\* and its last instructions, and no sleep runs past its frame.
THEOREM TypesHold == ASSUME Short PROVE Spec => []TypeOK
<1>1. IInv => TypeOK
  BY DEF IInv
<1> QED BY <1>1, Invariance, PTL

\* RunFrame, NextTarget and RunSystem together keep time: at the start of a slice no event
\* is late by an instruction, the divider the ARM9 started in mid-slice included, and the
\* CPUs are level to within one.
THEOREM Punctuality == ASSUME Short PROVE Spec => []Punctual
<1>1. IInv => Punctual
  <2> SUFFICES ASSUME IInv PROVE Punctual
    OBVIOUS
  <2>1. NoEventOverslept
    BY DEF IInv, NoEventOverslept, Late, Live
  <2>2. DivPunctual
    BY DEF IInv, DivPunctual, Late, Live
  <2>3. CpusTogether
    BY TypeParts DEF IInv, CpusTogether, Clocks
  <2> QED BY <2>1, <2>2, <2>3 DEF Punctual
<1> QED BY <1>1, Invariance, PTL

-----------------------------------------------------------------------------
(* The chunks of the display FIFO against the lines. *)

Gap == FifoGap /\ NothingDropped

\* What a chunk takes off the time the others need.
LEMMA ChunksLeft ==
    ASSUME NEW x \in 0 .. FifoChunks
    PROVE  /\ (FifoChunks - x) * FifoStep \in Nat
           /\ x # FifoChunks => (FifoChunks - (x + 1)) * FifoStep + FifoStep = (FifoChunks - x) * FifoStep
<1>1. FifoChunks - x \in Nat /\ FifoStep \in Nat /\ x \in Int /\ FifoChunks \in Int
  BY Constants
<1>2. \A a, b \in Nat : a * b \in Nat
  OBVIOUS
<1>3. \A a, b \in Int : (a - 1) * b + b = a * b
  OBVIOUS
<1>4. (FifoChunks - x - 1) * FifoStep + FifoStep = (FifoChunks - x) * FifoStep
  BY <1>1, <1>3
<1>5. FifoChunks - (x + 1) = FifoChunks - x - 1
  BY <1>1
<1> QED BY <1>1, <1>2, <1>4, <1>5

\* A step that leaves both alone.
LEMMA GapKept ==
    ASSUME Gap, use' = use, list'.dropped = list.dropped,
           "DisplayFIFO" \in list'.pending =>
               /\ "DisplayFIFO" \in list.pending
               /\ "LCD" \in list.pending => "LCD" \in list'.pending
               /\ \A e \in {"DisplayFIFO", "LCD"} :
                      list'.due[e] = list.due[e] /\ list'.arg[e] = list.arg[e]
    PROVE  Gap'
BY DEF Gap, FifoGap, NothingDropped, NextLine

\* The gap is there at the start.
LEMMA InitGap == Init => Gap
<1> SUFFICES ASSUME Init PROVE Gap
  OBVIOUS
<1>1. list = ResetList /\ use \in Uses
  BY DEF Init
<1>2. list.pending \subseteq Audible /\ list.dropped = {}
  BY <1>1, ResetListIs
<1> QED BY <1>2 DEF Gap, FifoGap, NothingDropped, Audible

\* Steps that leave the list alone keep the gap.
LEMMA QuietGap ==
    ASSUME Gap, UNCHANGED <<use, list>>
    PROVE  Gap'
BY GapKept

\* Reset keeps the gap.
LEMMA ResetGap == IInv /\ Gap /\ Reset => Gap'
<1> SUFFICES ASSUME IInv, Gap, Reset PROVE Gap'
  OBVIOUS
<1>1. list' = ResetList
  BY DEF Reset
<1>2. list'.pending \subseteq Audible /\ list'.dropped = {}
  BY <1>1, ResetListIs DEF IInv
<1> QED BY <1>2 DEF Gap, FifoGap, NothingDropped, Audible

\* A line begins, less than an instruction late, with no chunk left of the one before.
LEMMA LineGap ==
    ASSUME NEW l \in ListType, NEW n \in Nat, ChunksFit,
           "LCD" \notin l.pending, "DisplayFIFO" \notin l.pending, l.dropped = {},
           l.due["LCD"] > 0 - MaxInstr, arm7 \in Nat, arm7 < MaxInstr,
           list' = StartScanline(l, n), use' = use
    PROVE  Gap'
<1>1. /\ list' \in ListType
      /\ list'.pending = l.pending \cup {"LCD"} \cup (IF StartsFifo(n) THEN {"DisplayFIFO"} ELSE {})
      /\ list'.due["LCD"] = l.due["LCD"] + HBlank /\ list'.arg["LCD"] = <<"StartHBlank", n>>
      /\ StartsFifo(n) => /\ list'.due["DisplayFIFO"] = arm7 + FifoStart
                          /\ list'.arg["DisplayFIFO"] = <<"FIFO", 0>>
      /\ list'.dropped = {}
  BY StartScanlineIs
<1>2. CASE ~StartsFifo(n)
  BY <1>1, <1>2 DEF Gap, FifoGap, NothingDropped
<1>3. CASE StartsFifo(n)
  <2>1. l.due["LCD"] \in Int
    BY SixEvents DEF ListType
  <2>2. list'.arg["DisplayFIFO"][2] = 0 /\ list'.arg["LCD"][1] = "StartHBlank"
    BY <1>1, <1>3
  <2>3. NextLine' = l.due["LCD"] + HBlank + (Line - HBlank)
    BY <1>1, <2>2 DEF NextLine
  <2>4. NextLine' = l.due["LCD"] + Line
    BY <2>1, <2>3, Constants
  <2> DEFINE k == FifoChunks * FifoStep
  <2>5. k \in Int
    BY Constants
  <2>6. (FifoChunks - list'.arg["DisplayFIFO"][2]) * FifoStep = k
    BY <2>2, Constants
  <2>7. FifoStart + k + 3 * MaxInstr <= Line + 2
    BY DEF ChunksFit
  <2> HIDE DEF k
  <2>8. arm7 + FifoStart + k + MaxInstr <= l.due["LCD"] + Line
    BY <2>1, <2>5, <2>7, Constants
  <2>9. list'.due["DisplayFIFO"] + (FifoChunks - list'.arg["DisplayFIFO"][2]) * FifoStep + MaxInstr
            <= NextLine'
    BY <1>1, <1>3, <2>4, <2>6, <2>8
  <2> QED BY <1>1, <1>3, <2>9 DEF Gap, FifoGap, NothingDropped, StartsFifo
<1> QED BY <1>2, <1>3

\* When the line is over no chunk of it is left.
LEMMA NoChunkLeft ==
    ASSUME IInv, FifoGap, pc = "system", "LCD" \in list.pending, list.due["LCD"] <= 0,
           list.arg["LCD"][1] # "StartHBlank"
    PROVE  "DisplayFIFO" \notin list.pending
<1> SUFFICES ASSUME "DisplayFIFO" \in list.pending PROVE FALSE
  OBVIOUS
<1>1. list.due["DisplayFIFO"] > 0 - MaxInstr /\ list.due["DisplayFIFO"] \in Int
      /\ list.due["LCD"] \in Int
  BY TypeParts, SixEvents DEF IInv, Late, Live
<1>2. PICK x \in 0 .. FifoChunks : list.arg["DisplayFIFO"] = <<"FIFO", x>>
  BY DEF IInv, ArgsRight, Fits
<1> DEFINE k == (FifoChunks - x) * FifoStep
<1>3. k \in Nat
  BY ChunksLeft
<1>4. list.due["DisplayFIFO"] + k + MaxInstr <= NextLine
  BY <1>2 DEF FifoGap
<1> HIDE DEF k
<1>5. NextLine = list.due["LCD"]
  BY <1>1 DEF NextLine
<1> QED BY <1>1, <1>3, <1>4, <1>5, Constants

\* TopAwake keeps the gap.
LEMMA TopAwakeGap == ChunksFit /\ IInv /\ Gap /\ TopAwake => Gap'
<1> SUFFICES ASSUME ChunksFit, IInv, Gap, TopAwake PROVE Gap'
  OBVIOUS
<1>1. CASE wakeup
  BY <1>1, QuietGap DEF TopAwake
<1>2. CASE ~wakeup
  <2>1. /\ pc = "top" /\ running /\ ~asleep /\ use' = use
        /\ list' = StartScanline(list, 0) /\ 0 \in Nat
    BY <1>2, Constants DEF TopAwake
  <2>2. "LCD" \notin list.pending
    BY <1>2, <2>1 DEF IInv, LcdHere, InSlice
  <2>3. "DisplayFIFO" \notin list.pending /\ list.dropped = {}
    BY <2>2 DEF Gap, FifoGap, NothingDropped
  <2>4. list.due["LCD"] > 0 - MaxInstr /\ arm7 \in Nat /\ arm7 < MaxInstr
    BY <2>1, TypeParts DEF IInv, Late, Live, Clocks
  <2>5. list \in ListType
    BY TypeParts DEF IInv
  <2> QED BY <2>1, <2>2, <2>3, <2>4, <2>5, LineGap
<1> QED BY <1>1, <1>2

\* StartDiv keeps the gap.
LEMMA StartDivGap == IInv /\ Gap /\ StartDiv => Gap'
<1> SUFFICES ASSUME IInv, Gap, StartDiv PROVE Gap'
  OBVIOUS
<1>1. list' = Scheduled(Cancelled(list, "Div"), "Div", arm9 + DivDelay, <<"DivDone", 0>>) /\ use' = use
  BY DEF StartDiv
<1>2. arm9 + DivDelay \in Int /\ "Div" \in Events /\ <<"DivDone", 0>> \in Handlers \X Nat
      /\ list \in ListType
  BY TypeParts, Constants, SixEvents, HandlerTypes DEF IInv
<1> DEFINE c == Cancelled(list, "Div")
<1>3. /\ c \in ListType /\ c.pending = list.pending \ {"Div"} /\ c.due = list.due /\ c.arg = list.arg
      /\ c.dropped = list.dropped
  BY <1>2, CancelledIs
<1>4. list' = Scheduled(c, "Div", arm9 + DivDelay, <<"DivDone", 0>>)
  BY <1>1
<1> HIDE DEF c
<1>5. /\ list'.pending = c.pending \cup {"Div"} /\ list'.dropped = c.dropped
      /\ \A x \in Events \ {"Div"} : list'.due[x] = c.due[x] /\ list'.arg[x] = c.arg[x]
  BY <1>2, <1>3, <1>4, ScheduledIs
<1>6. {"DisplayFIFO", "LCD"} \subseteq Events \ {"Div"}
  BY SixEvents
<1> QED BY <1>1, <1>3, <1>5, <1>6, GapKept

\* StartSPI keeps the gap.
LEMMA StartSPIGap == IInv /\ Gap /\ StartSPI => Gap'
<1> SUFFICES ASSUME IInv, Gap, StartSPI PROVE Gap'
  OBVIOUS
<1>1. /\ list' = Scheduled(list, "SPITransfer", arm7 + SpiDelay, <<"TransferDone", 0>>)
      /\ use' = use /\ "SPITransfer" \notin list.pending
  BY DEF StartSPI
<1>2. arm7 + SpiDelay \in Int /\ "SPITransfer" \in Events
      /\ <<"TransferDone", 0>> \in Handlers \X Nat /\ list \in ListType
  BY TypeParts, Constants, SixEvents, HandlerTypes DEF IInv
<1>3. /\ list'.pending = list.pending \cup {"SPITransfer"} /\ list'.dropped = list.dropped
      /\ \A x \in Events \ {"SPITransfer"} : list'.due[x] = list.due[x] /\ list'.arg[x] = list.arg[x]
  BY <1>1, <1>2, ScheduledIs
<1>4. {"DisplayFIFO", "LCD"} \subseteq Events \ {"SPITransfer"}
  BY SixEvents
<1> QED BY <1>1, <1>3, <1>4, GapKept

\* EndARM7 keeps the gap.
LEMMA EndARM7Gap == IInv /\ Gap /\ EndARM7 => Gap'
<1> SUFFICES ASSUME IInv, Gap, EndARM7 PROVE Gap'
  OBVIOUS
<1>1. list' = Moved(list, goal) /\ use' = use /\ list \in ListType /\ goal \in Int
  BY TypeParts DEF EndARM7, IInv
<1>2. /\ list'.pending = list.pending /\ list'.arg = list.arg /\ list'.dropped = list.dropped
      /\ \A e \in list.pending : list'.due[e] = list.due[e] - goal
  BY <1>1, MovedIs
<1>3. CASE "DisplayFIFO" \notin list.pending
  BY <1>1, <1>2, <1>3 DEF Gap, FifoGap, NothingDropped
<1>4. CASE "DisplayFIFO" \in list.pending
  <2>1. PICK x \in 0 .. FifoChunks : list.arg["DisplayFIFO"] = <<"FIFO", x>>
    BY <1>4 DEF IInv, ArgsRight, Fits
  <2> DEFINE k == (FifoChunks - x) * FifoStep
             b == IF list.arg["LCD"][1] = "StartHBlank" THEN Line - HBlank ELSE 0
  <2>2. k \in Nat /\ b \in Int
    BY ChunksLeft, Constants
  <2>3. list.arg["DisplayFIFO"][2] = x
    BY <2>1
  <2>4. /\ "DisplayFIFO" \in use.sources /\ "LCD" \in list.pending
        /\ list.due["DisplayFIFO"] + k + MaxInstr <= list.due["LCD"] + b
    BY <1>4, <2>3 DEF Gap, FifoGap, NextLine
  <2>5. list'.due["DisplayFIFO"] = list.due["DisplayFIFO"] - goal
        /\ list'.due["LCD"] = list.due["LCD"] - goal
    BY <1>2, <1>4, <2>4
  <2>6. list.due["DisplayFIFO"] \in Int /\ list.due["LCD"] \in Int
    BY TypeParts, SixEvents DEF IInv
  <2> HIDE DEF k, b
  <2>7. (list.due["DisplayFIFO"] - goal) + k + MaxInstr <= (list.due["LCD"] - goal) + b
    BY <1>1, <2>2, <2>4, <2>6, Constants
  <2> USE DEF k, b
  <2>8. NextLine' = (list.due["LCD"] - goal) + b
    BY <1>2, <2>5 DEF NextLine
  <2>9. list'.due["DisplayFIFO"] + (FifoChunks - list'.arg["DisplayFIFO"][2]) * FifoStep + MaxInstr
            <= NextLine'
    BY <1>2, <2>3, <2>5, <2>7, <2>8
  <2> QED BY <1>1, <1>2, <2>4, <2>9 DEF Gap, FifoGap, NothingDropped
<1> QED BY <1>3, <1>4

\* What a due event does to the gap.
LEMMA FiredGap ==
    ASSUME NEW e \in list.pending, ChunksFit, IInv, Gap, pc = "system", list.due[e] <= 0, use' = use,
           list' = Handled(Cancelled(list, e), e)
    PROVE  Gap'
<1> DEFINE l == Cancelled(list, e)
<1>0. e \in Events /\ list \in ListType
  BY TypeParts DEF IInv
<1>1. /\ l \in ListType /\ l.pending = list.pending \ {e} /\ l.due = list.due /\ l.arg = list.arg
      /\ l.dropped = list.dropped
  BY <1>0, CancelledIs
<1>2. list' = Handled(l, e) /\ list.dropped = {} /\ FifoGap
  BY DEF Gap, NothingDropped
<1>3. /\ arm7 \in Nat /\ arm7 < MaxInstr /\ \A x \in Events : list.due[x] \in Int
      /\ list.due["LCD"] > 0 - MaxInstr
  BY TypeParts DEF IInv, Clocks, Late, Live
<1>4. Fits(e, list.arg[e])
  BY DEF IInv, ArgsRight
<1>5. {"DisplayFIFO", "LCD"} \subseteq Events
  BY SixEvents
<1> HIDE DEF l
<1>6. ASSUME NEW n \in Nat, e = "LCD", list.arg[e] = <<"StartScanline", n>>
      PROVE  Gap'
  <2>1. list' = StartScanline(l, n)
    BY <1>1, <1>2, <1>6, HandledCases
  <2>2. list.arg["LCD"][1] # "StartHBlank"
    BY <1>6
  <2>3. "DisplayFIFO" \notin list.pending
    BY <1>2, <1>6, <2>2, NoChunkLeft
  <2> QED BY <1>1, <1>2, <1>3, <1>6, <2>1, <2>3, LineGap
<1>7. ASSUME NEW n \in Nat, e = "LCD", list.arg[e] = <<"StartHBlank", n>>
      PROVE  Gap'
  <2>1. list' = StartHBlank(l, n)
    BY <1>1, <1>2, <1>7, HandledCases
  <2>2. /\ list'.pending = l.pending \cup {"LCD"}
        /\ list'.due["LCD"] = l.due["LCD"] + (Line - HBlank)
        /\ list'.arg["LCD"] = <<IF vcount.now < Lines - 1 THEN "StartScanline" ELSE "FinishFrame", n + 1>>
        /\ \A x \in Events \ {"LCD"} : list'.due[x] = l.due[x] /\ list'.arg[x] = l.arg[x]
        /\ list'.dropped = l.dropped
    BY <1>1, <1>7, <2>1, StartHBlankIs
  <2>3. list'.arg["LCD"][1] # "StartHBlank" /\ list.arg["LCD"][1] = "StartHBlank"
    BY <1>7, <2>2
  <2>4. NextLine = list.due["LCD"] + (Line - HBlank)
    BY <2>3 DEF NextLine
  <2>5. NextLine' = list.due["LCD"] + (Line - HBlank) + 0
    BY <1>1, <2>2, <2>3 DEF NextLine
  <2>6. NextLine' = NextLine
    BY <1>3, <1>5, <2>4, <2>5, Constants
  <2>7. /\ list'.due["DisplayFIFO"] = list.due["DisplayFIFO"]
        /\ list'.arg["DisplayFIFO"] = list.arg["DisplayFIFO"]
        /\ "DisplayFIFO" \in list'.pending => "DisplayFIFO" \in list.pending
        /\ "LCD" \in list'.pending /\ list'.dropped = {}
    BY <1>1, <1>2, <1>5, <1>7, <2>2
  <2> QED BY <1>2, <2>6, <2>7 DEF Gap, FifoGap, NothingDropped
<1>8. ASSUME NEW n \in Nat, e = "LCD", list.arg[e] = <<"FinishFrame", n>>
      PROVE  Gap'
  <2>1. list' = l
    BY <1>1, <1>2, <1>8, HandledCases
  <2>2. list.arg["LCD"][1] # "StartHBlank"
    BY <1>8
  <2>3. "DisplayFIFO" \notin list.pending
    BY <1>2, <1>8, <2>2, NoChunkLeft
  <2> QED BY <1>1, <1>2, <2>1, <2>3 DEF Gap, FifoGap, NothingDropped
<1>9. CASE e = "DisplayFIFO"
  <2>1. PICK x \in 0 .. FifoChunks : list.arg[e] = <<"FIFO", x>>
    BY <1>4, <1>9 DEF Fits
  <2>2. list' = DisplayFIFO(l, x)
    BY <1>1, <1>2, <2>1, HandledCases
  <2>3. "DisplayFIFO" \notin l.pending
    BY <1>1, <1>9
  <2>4. CASE x = FifoChunks
    <3>1. list' = l
      BY <1>1, <2>2, <2>3, <2>4, DisplayFIFOIs
    <3> QED BY <1>1, <1>2, <2>3, <3>1 DEF Gap, FifoGap, NothingDropped
  <2>5. CASE x # FifoChunks
    <3>1. /\ list'.pending = l.pending \cup {"DisplayFIFO"}
          /\ list'.due["DisplayFIFO"] = l.due["DisplayFIFO"] + FifoStep
          /\ list'.arg["DisplayFIFO"] = <<"FIFO", x + 1>>
          /\ \A y \in Events \ {"DisplayFIFO"} : list'.due[y] = l.due[y] /\ list'.arg[y] = l.arg[y]
          /\ list'.dropped = l.dropped
      BY <1>1, <2>2, <2>3, <2>5, DisplayFIFOIs
    <3>2. list'.arg["DisplayFIFO"][2] = x + 1 /\ list.arg["DisplayFIFO"][2] = x
      BY <1>9, <2>1, <3>1
    <3> DEFINE k == (FifoChunks - (x + 1)) * FifoStep
    <3>3. k + FifoStep = (FifoChunks - x) * FifoStep /\ x + 1 \in 0 .. FifoChunks
      BY <2>5, ChunksLeft, Constants
    <3>4. k \in Nat
      BY <3>3, ChunksLeft
    <3>5. /\ "DisplayFIFO" \in use.sources /\ "LCD" \in list.pending
          /\ list.due["DisplayFIFO"] + (k + FifoStep) + MaxInstr <= NextLine
      BY <1>2, <1>9, <3>2, <3>3 DEF FifoGap
    <3>6. NextLine' = NextLine
      BY <1>1, <1>5, <3>1 DEF NextLine
    <3>7. list'.due["DisplayFIFO"] = list.due["DisplayFIFO"] + FifoStep
      BY <1>1, <3>1
    <3>8. list.due["DisplayFIFO"] \in Int /\ FifoStep \in Int /\ MaxInstr \in Int
      BY <1>3, <1>5, Constants
    <3> HIDE DEF k
    <3>9. (list.due["DisplayFIFO"] + FifoStep) + k + MaxInstr
              = list.due["DisplayFIFO"] + (k + FifoStep) + MaxInstr
      BY <3>4, <3>8
    <3>10. list'.due["DisplayFIFO"] + k + MaxInstr <= NextLine'
      BY <3>5, <3>6, <3>7, <3>9
    <3>11. list'.due["DisplayFIFO"] + (FifoChunks - list'.arg["DisplayFIFO"][2]) * FifoStep + MaxInstr
              <= NextLine'
      BY <3>2, <3>10 DEF k
    <3>12. "LCD" \in list'.pending /\ list'.dropped = {}
      BY <1>1, <1>2, <1>9, <3>1, <3>5
    <3> QED BY <3>5, <3>11, <3>12 DEF Gap, FifoGap, NothingDropped
  <2> QED BY <2>4, <2>5
<1>10. ASSUME NEW period \in Int, NEW a \in Handlers \X Nat, e \in Audible,
              list' = Again(l, e, period, a)
       PROVE  Gap'
  <2>1. e \notin l.pending
    BY <1>1
  <2>2. /\ list'.pending = l.pending \cup {e} /\ list'.dropped = l.dropped
        /\ \A x \in Events \ {e} : list'.due[x] = l.due[x] /\ list'.arg[x] = l.arg[x]
    BY <1>0, <1>1, <1>10, <2>1, AgainIs
  <2>3. {"DisplayFIFO", "LCD"} \subseteq Events \ {e}
    BY <1>5, <1>10 DEF Audible
  <2> QED BY <1>1, <1>10, <2>2, <2>3, GapKept DEF Audible
<1>11. CASE e = "SPU"
  BY <1>1, <1>2, <1>4, <1>10, <1>11, HandledCases, HandlerTypes, Constants DEF Fits, Audible
<1>12. CASE e = "RTC"
  BY <1>1, <1>2, <1>4, <1>10, <1>12, HandledCases, HandlerTypes, Constants DEF Fits, Audible
<1>13. CASE e \in {"SPITransfer", "Div"}
  <2>1. list' = l
    BY <1>1, <1>2, <1>4, <1>13, HandledCases DEF Fits
  <2> QED BY <1>1, <1>13, <2>1, GapKept
<1>14. CASE e = "LCD"
  BY <1>4, <1>6, <1>7, <1>8, <1>14 DEF Fits
<1> QED BY <1>0, <1>9, <1>11, <1>12, <1>13, <1>14, SixEvents

\* RunSystem keeps the gap.
LEMMA RunSystemGap == ChunksFit /\ IInv /\ Gap /\ RunSystem => Gap'
<1> SUFFICES ASSUME ChunksFit, IInv, Gap, RunSystem PROVE Gap'
  OBVIOUS
<1>1. /\ pc = "system" /\ scan # {} /\ use' = use
      /\ IF list.due[First(scan)] <= 0 THEN Fire(First(scan)) ELSE UNCHANGED <<list, lines, vcount, flags>>
  BY DEF RunSystem
<1>2. First(scan) \in list.pending
  BY <1>1, FirstIn, TypeParts DEF IInv, Scanning
<1>3. CASE list.due[First(scan)] <= 0
  <2>1. list' = Handled(Cancelled(list, First(scan)), First(scan))
    BY <1>1, <1>3 DEF Fire
  <2> QED BY <1>1, <1>2, <1>3, <2>1, FiredGap
<1>4. CASE ~(list.due[First(scan)] <= 0)
  BY <1>1, <1>4, QuietGap
<1> QED BY <1>3, <1>4

\* RunSystemSleep keeps the gap.
LEMMA RunSystemSleepGap == FifoAwake /\ IInv /\ Gap /\ RunSystemSleep => Gap'
<1> SUFFICES ASSUME FifoAwake, IInv, Gap, RunSystemSleep PROVE Gap'
  OBVIOUS
<1> DEFINE d == SleepTarget
           l == Slept(list, d)
           c == Cancelled(l, "RTC")
           rtc == "RTC" \in l.pending /\ l.due["RTC"] <= 0
<1>1. /\ pc = "sleep" /\ use' = use
      /\ list' = IF rtc THEN Handled(c, "RTC") ELSE l
  BY DEF RunSystemSleep
<1>2. use.sleeps /\ use \in Uses
  BY <1>1, TypeParts DEF IInv, Sleeping
<1>3. "DisplayFIFO" \notin list.pending
  BY <1>2 DEF FifoAwake, Gap, FifoGap
<1>4. d \in Int /\ list \in ListType /\ "RTC" \in Events
  BY <1>1, SleepTargetIs, TypeParts, SixEvents DEF IInv
<1> HIDE DEF d
<1>5. l \in ListType /\ l.pending = list.pending /\ l.arg = list.arg /\ l.dropped = list.dropped
  BY <1>4, SleptIs
<1> HIDE DEF l
<1>6. /\ c \in ListType /\ c.pending = l.pending \ {"RTC"} /\ c.arg = l.arg /\ c.dropped = l.dropped
  BY <1>4, <1>5, CancelledIs
<1> HIDE DEF c
<1>7. CASE rtc
  <2>1. list' = Handled(c, "RTC") /\ "RTC" \in list.pending
    BY <1>1, <1>5, <1>7
  <2>2. c.arg["RTC"] = <<"ClockTimer", 0>>
    BY <1>5, <1>6, <2>1 DEF IInv, ArgsRight, Fits
  <2>3. list' = Again(c, "RTC", RtcPeriod, <<"ClockTimer", 0>>)
    BY <2>1, <2>2, HandledCases
  <2>4. RtcPeriod \in Int /\ <<"ClockTimer", 0>> \in Handlers \X Nat /\ "RTC" \notin c.pending
    BY <1>6, Constants, HandlerTypes
  <2>5. list'.pending = c.pending \cup {"RTC"} /\ list'.dropped = c.dropped
    BY <1>4, <1>6, <2>3, <2>4, AgainIs
  <2> QED BY <1>1, <1>3, <1>5, <1>6, <2>5 DEF Gap, FifoGap, NothingDropped
<1>8. CASE ~rtc
  BY <1>1, <1>3, <1>5, <1>8 DEF Gap, FifoGap, NothingDropped
<1> QED BY <1>7, <1>8

\* Every step keeps the gap.
LEMMA NextGap == ChunksFit /\ FifoAwake /\ IInv /\ Gap /\ [Next]_vars => Gap'
<1> SUFFICES ASSUME ChunksFit, FifoAwake, IInv, Gap, [Next]_vars PROVE Gap'
  OBVIOUS
<1>1. CASE RunFrame \/ UserInput \/ UNCHANGED vars
  BY <1>1, QuietGap DEF RunFrame, UserInput, vars
<1>2. CASE Reset
  BY <1>2, ResetGap
<1>3. CASE TopStopped \/ TopAsleep \/ EndLoop \/ StartSlice \/ ARM9Execute \/ ARM9Halt \/ EndARM9
  BY <1>3, QuietGap DEF TopStopped, TopAsleep, EndLoop, StartSlice, ARM9Execute, ARM9Halt, EndARM9
<1>4. CASE ARM7Execute \/ SetVCount \/ EnterSleepMode \/ Stop \/ EndSystem \/ EndSleep
  BY <1>4, QuietGap DEF ARM7Execute, SetVCount, EnterSleepMode, Stop, EndSystem, EndSleep
<1>5. CASE TopAwake \/ StartDiv \/ StartSPI \/ EndARM7 \/ RunSystem \/ RunSystemSleep
  BY <1>5, TopAwakeGap, StartDivGap, StartSPIGap, EndARM7Gap, RunSystemGap, RunSystemSleepGap
<1> QED BY <1>1, <1>2, <1>3, <1>4, <1>5 DEF Next, Frame

\* A frame of a console that does not sleep always has an LCD event to go on with, whatever
\* the other events do.
THEOREM LineTiming == ASSUME Short PROVE Spec => []LcdPending
<1>1. IInv => LcdPending
  BY DEF IInv, LcdPending, LcdHere, InSlice
<1> QED BY <1>1, Invariance, PTL

\* ScheduleEvent never turns a request down: by the time a source asks for its next event
\* the last one has fired, the chunks of a line before the next line begins.  With the LCD
\* event always there, every chain of events goes on.
THEOREM ChainsHold ==
    ASSUME Short, ChunksFit, FifoAwake PROVE Spec => []ChainsGoOn
<1>1. Init => IInv /\ Gap
  BY InitIInv, InitGap
<1>2. IInv /\ Gap /\ [Next]_vars => (IInv /\ Gap)'
  BY NextIInv, NextGap
<1>3. IInv /\ Gap => ChainsGoOn
  BY DEF IInv, Gap, ChainsGoOn, LcdPending, LcdHere, InSlice
<1> QED BY <1>1, <1>2, <1>3, PTL DEF Spec

-----------------------------------------------------------------------------
(* Numbers, and functions defined by recursion on them.                    *)

\* A set of numbers with 0 and all successors has them all.
LEMMA Numbers ==
  ASSUME NEW T, 0 \in T, \A n \in Nat : n \in T => n + 1 \in T
  PROVE  Nat \subseteq T
<1> DEFINE S == {n \in Nat : n \notin T}
<1> SUFFICES ASSUME S # {} PROVE FALSE
  OBVIOUS
<1>1. PICK x \in S : \A y \in S : <<y, x>> \notin OpToRel(<, Nat)
  BY NatLessThanWellFounded, WFMin
<1>2. x # 0 /\ x \in Nat
  OBVIOUS
<1>3. x - 1 \in Nat /\ x - 1 < x /\ x = (x - 1) + 1
  BY <1>2
<1>4. x - 1 \in S
  BY <1>3
<1>5. <<x - 1, x>> \in Nat \X Nat /\ <<x - 1, x>>[1] < <<x - 1, x>>[2]
  BY <1>2, <1>3
<1> QED BY <1>1, <1>4, <1>5 DEF OpToRel

\* Two functions that begin alike and go on alike are equal, as far as both go.
LEMMA Alike ==
  ASSUME NEW m \in Nat, NEW f, NEW g, f[0] = g[0],
         \A n \in Nat : n < m /\ f[n] = g[n] => f[n + 1] = g[n + 1]
  PROVE  \A n \in 0 .. m : f[n] = g[n]
<1> DEFINE T == {n \in Nat : n <= m => f[n] = g[n]}
<1>1. 0 \in T
  OBVIOUS
<1>2. \A n \in Nat : n \in T => n + 1 \in T
  OBVIOUS
<1> HIDE DEF T
<1>3. Nat \subseteq T
  BY <1>1, <1>2, Numbers
<1> QED BY <1>3 DEF T

\* A function is defined by its first value and by how each follows from the one before.
Closed(S, base, step) == base \in S /\ \A n \in Nat, x \in S : step[n][x] \in S

\* Closed(S, base, step) is all that is needed for a sequence in S.
LEMMA Recursion ==
  ASSUME NEW S, NEW base, NEW step, Closed(S, base, step)
  PROVE  \E f \in [Nat -> S] : f[0] = base /\ \A n \in Nat : f[n + 1] = step[n][f[n]]
<1> DEFINE Upto(g, m) == /\ g \in [0 .. m -> S] /\ g[0] = base
                         /\ \A n \in 0 .. m - 1 : g[n + 1] = step[n][g[n]]
           T == {m \in Nat : \E g : Upto(g, m)}
<1>0. base \in S /\ \A n \in Nat, x \in S : step[n][x] \in S
  BY DEF Closed
<1>1. 0 \in T
  <2>1. Upto([n \in 0 .. 0 |-> base], 0)
    BY <1>0
  <2> QED BY <2>1
<1>2. ASSUME NEW m \in Nat, m \in T PROVE m + 1 \in T
  <2>1. PICK g : Upto(g, m)
    BY <1>2
  <2>2. PICK h : h = [n \in 0 .. m + 1 |-> IF n = m + 1 THEN step[m][g[m]] ELSE g[n]]
    OBVIOUS
  <2>3. /\ \A n \in 0 .. m : h[n] = g[n]
        /\ h[m + 1] = step[m][g[m]] /\ g[m] \in S /\ DOMAIN h = 0 .. m + 1
    BY <2>1, <2>2
  <2>4. step[m][g[m]] \in S
    BY <1>0, <2>3
  <2>5. h \in [0 .. m + 1 -> S]
    BY <2>1, <2>2, <2>4
  <2>6. \A n \in 0 .. m : h[n + 1] = step[n][h[n]]
    <3> TAKE n \in 0 .. m
    <3>1. CASE n = m
      BY <2>3, <3>1
    <3>2. CASE n # m
      <4>1. n \in 0 .. m - 1 /\ n + 1 \in 0 .. m
        BY <3>2
      <4> QED BY <2>1, <2>3, <4>1
    <3> QED BY <3>1, <3>2
  <2>7. Upto(h, m + 1)
    BY <2>1, <2>3, <2>5, <2>6
  <2> HIDE DEF Upto
  <2> QED BY <2>7
<1>3. Nat \subseteq T
  <2> HIDE DEF T
  <2> QED BY <1>1, <1>2, Numbers
<1>4. PICK c : c = [m \in Nat |-> CHOOSE g : Upto(g, m)]
  OBVIOUS
<1>5. \A m \in Nat : Upto(c[m], m)
  <2> HIDE DEF Upto
  <2> QED BY <1>3, <1>4
<1>6. ASSUME NEW m \in Nat PROVE c[m + 1][m] = c[m][m]
  <2> DEFINE f == c[m + 1]  g == c[m]
  <2>1. Upto(f, m + 1) /\ Upto(g, m)
    <3>1. m + 1 \in Nat
      OBVIOUS
    <3> HIDE DEF Upto
    <3> QED BY <1>5, <3>1
  <2>2. f[0] = g[0]
    BY <2>1
  <2>3. \A n \in Nat : n < m /\ f[n] = g[n] => f[n + 1] = g[n + 1]
    <3> TAKE n \in Nat
    <3>1. HAVE n < m /\ f[n] = g[n]
    <3>2. n \in 0 .. (m + 1) - 1 /\ n \in 0 .. m - 1
      BY <3>1
    <3>3. f[n + 1] = step[n][f[n]] /\ g[n + 1] = step[n][g[n]]
      BY <2>1, <3>2
    <3> QED BY <3>1, <3>3
  <2> HIDE DEF f, g
  <2>4. \A n \in 0 .. m : f[n] = g[n]
    BY <2>2, <2>3, Alike
  <2> QED BY <2>4 DEF f, g
<1>7. PICK f : f = [n \in Nat |-> c[n][n]]
  OBVIOUS
<1>8. f \in [Nat -> S] /\ f[0] = base
  BY <1>5, <1>7
<1>9. ASSUME NEW n \in Nat PROVE f[n + 1] = step[n][f[n]]
  <2>1. Upto(c[n + 1], n + 1) /\ n \in 0 .. (n + 1) - 1
    BY <1>5
  <2>2. c[n + 1][n + 1] = step[n][c[n + 1][n]]
    BY <2>1
  <2> QED BY <1>6, <1>7, <2>2
<1> QED BY <1>8, <1>9

\* What goes on until a measure is below a limit, and makes it smaller, comes to an end.
Falls(S, m, next, L) == /\ m \in [S -> Nat] /\ next \in [S -> S] /\ L \in Nat
                        /\ \A c \in S : m[c] >= L => m[next[c]] < m[c]

\* The function that goes on for as long as the measure is at its limit.
LEMMA Draining ==
  ASSUME NEW S, NEW m, NEW next, NEW L, Falls(S, m, next, L)
  PROVE  \E f \in [S -> S] : \A c \in S : f[c] = IF m[c] < L THEN c ELSE f[next[c]]
<1>0. /\ m \in [S -> Nat] /\ next \in [S -> S] /\ L \in Nat
      /\ \A c \in S : m[c] >= L => m[next[c]] < m[c]
  BY DEF Falls
<1> DEFINE base == [c \in S |-> c]
           round(g) == [c \in S |-> IF m[c] < L THEN c ELSE g[next[c]]]
           step == [n \in Nat |-> [g \in [S -> S] |-> round(g)]]
<1>1. base \in [S -> S] /\ step \in [Nat -> [[S -> S] -> [S -> S]]]
  BY <1>0
<1>2. \A n \in Nat, g \in [S -> S] : step[n][g] = round(g)
  OBVIOUS
<1>3. PICK G \in [Nat -> [S -> S]] : G[0] = base /\ \A n \in Nat : G[n + 1] = round(G[n])
  <2> HIDE DEF base, step, round
  <2>1. PICK Q : Q = [S -> S]
    OBVIOUS
  <2>2. Closed(Q, base, step)
    BY <1>1, <2>1 DEF Closed
  <2>3. PICK G \in [Nat -> Q] : G[0] = base /\ \A n \in Nat : G[n + 1] = step[n][G[n]]
    BY <2>2, Recursion
  <2> QED BY <1>2, <2>1, <2>3
<1>4. ASSUME NEW n \in Nat, NEW c \in S
      PROVE  /\ G[n + 1][c] = IF m[c] < L THEN c ELSE G[n][next[c]]
             /\ G[0][c] = c
  <2>1. G[n + 1] = round(G[n]) /\ G[0] = base
    BY <1>3
  <2> QED BY <2>1
<1>5. \A n \in Nat : \A c \in S : m[c] <= n => G[n + 1][c] = G[n][c]
  <2> DEFINE T == {n \in Nat : \A c \in S : m[c] <= n => G[n + 1][c] = G[n][c]}
  <2>1. 0 \in T
    <3> SUFFICES ASSUME NEW c \in S, m[c] <= 0 PROVE G[0 + 1][c] = G[0][c]
      OBVIOUS
    <3>1. m[c] = 0 /\ m[c] < L
      <4>1. m[c] \in Nat /\ m[next[c]] \in Nat
        BY <1>0
      <4> QED BY <1>0, <4>1
    <3> QED BY <1>4, <3>1
  <2>2. ASSUME NEW n \in Nat, n \in T PROVE n + 1 \in T
    <3> SUFFICES ASSUME NEW c \in S, m[c] <= n + 1 PROVE G[(n + 1) + 1][c] = G[n + 1][c]
      OBVIOUS
    <3>1. CASE m[c] < L
      <4>1. n + 1 \in Nat
        OBVIOUS
      <4>2. G[(n + 1) + 1][c] = c
        BY <1>4, <3>1, <4>1
      <4> QED BY <1>4, <3>1, <4>2
    <3>2. CASE ~(m[c] < L)
      <4>1. m[c] \in Nat /\ m[next[c]] \in Nat /\ next[c] \in S
        BY <1>0
      <4>2. m[next[c]] <= n
        BY <1>0, <3>2, <4>1
      <4>3. G[n + 1][next[c]] = G[n][next[c]]
        BY <2>2, <4>1, <4>2
      <4>4. G[(n + 1) + 1][c] = G[n + 1][next[c]] /\ G[n + 1][c] = G[n][next[c]]
        BY <1>4, <3>2
      <4> QED BY <4>3, <4>4
    <3> QED BY <3>1, <3>2
  <2> HIDE DEF T
  <2>3. Nat \subseteq T
    BY <2>1, <2>2, Numbers
  <2> QED BY <2>3 DEF T
<1>6. ASSUME NEW c \in S PROVE \A n \in Nat : G[m[c] + n][c] = G[m[c]][c]
  <2> DEFINE T == {n \in Nat : G[m[c] + n][c] = G[m[c]][c]}
  <2>0. m[c] \in Nat
    BY <1>0
  <2>1. 0 \in T
    BY <2>0
  <2>2. ASSUME NEW n \in Nat, n \in T PROVE n + 1 \in T
    <3>1. m[c] + n \in Nat /\ m[c] <= m[c] + n /\ (m[c] + n) + 1 = m[c] + (n + 1)
      BY <2>0
    <3>2. G[(m[c] + n) + 1][c] = G[m[c] + n][c]
      BY <1>5, <3>1
    <3> QED BY <2>2, <3>1, <3>2
  <2> HIDE DEF T
  <2>3. Nat \subseteq T
    BY <2>1, <2>2, Numbers
  <2> QED BY <2>3 DEF T
<1>7. PICK f : f = [c \in S |-> G[m[c]][c]]
  OBVIOUS
<1>8. f \in [S -> S]
  BY <1>0, <1>3, <1>7
<1>9. ASSUME NEW c \in S PROVE f[c] = IF m[c] < L THEN c ELSE f[next[c]]
  <2>1. f[c] = G[m[c] + 1][c]
    BY <1>0, <1>6, <1>7
  <2>2. m[c] \in Nat /\ next[c] \in S /\ m[next[c]] \in Nat
    BY <1>0
  <2>3. CASE m[c] < L
    BY <1>4, <2>1, <2>2, <2>3
  <2>4. CASE ~(m[c] < L)
    <3>1. f[c] = G[m[c]][next[c]]
      BY <1>4, <2>1, <2>2, <2>4
    <3>2. m[next[c]] < m[c]
      BY <1>0, <2>2, <2>4
    <3>3. PICK n \in Nat : m[c] = m[next[c]] + n
      <4>1. m[c] - m[next[c]] \in Nat /\ m[c] = m[next[c]] + (m[c] - m[next[c]])
        BY <2>2, <3>2
      <4> QED BY <4>1
    <3>4. f[c] = G[m[next[c]]][next[c]]
      BY <1>6, <2>2, <3>1, <3>3
    <3> QED BY <1>7, <2>2, <2>4, <3>4
  <2> QED BY <2>3, <2>4
<1> QED BY <1>8, <1>9

\* Powers of two.
LEMMA TwoToIs ==
  /\ TwoTo[0] = 1
  /\ \A n \in Nat : TwoTo[n] \in Nat \ {0} /\ TwoTo[n + 1] = 2 * TwoTo[n]
<1> DEFINE P(f) == f = [n \in Nat |-> IF n = 0 THEN 1 ELSE 2 * f[n - 1]]
           step == [n \in Nat |-> [x \in Nat |-> 2 * x]]
<1>1. \A n \in Nat, x \in Nat : step[n][x] = 2 * x /\ step[n][x] \in Nat
  OBVIOUS
<1>2. PICK f \in [Nat -> Nat] : f[0] = 1 /\ \A n \in Nat : f[n + 1] = 2 * f[n]
  <2> HIDE DEF step
  <2>1. PICK Q : Q = Nat
    OBVIOUS
  <2>2. Closed(Q, 1, step)
    BY <1>1, <2>1 DEF Closed
  <2>3. PICK f \in [Nat -> Q] : f[0] = 1 /\ \A n \in Nat : f[n + 1] = step[n][f[n]]
    BY <2>2, Recursion
  <2>4. f \in [Nat -> Nat]
    BY <2>1, <2>3
  <2>5. ASSUME NEW n \in Nat PROVE f[n + 1] = 2 * f[n]
    <3>1. f[n] \in Nat /\ f[n + 1] = step[n][f[n]]
      BY <2>3, <2>4
    <3> QED BY <1>1, <3>1
  <2> QED BY <2>3, <2>4, <2>5
<1>3. P(f)
  <2>1. \A n \in Nat : f[n] = IF n = 0 THEN 1 ELSE 2 * f[n - 1]
    <3> TAKE n \in Nat
    <3>1. CASE n # 0
      <4>1. n - 1 \in Nat /\ (n - 1) + 1 = n
        BY <3>1
      <4>2. f[(n - 1) + 1] = 2 * f[n - 1]
        BY <1>2, <4>1
      <4> QED BY <3>1, <4>1, <4>2
    <3> QED BY <1>2, <3>1
  <2> QED BY <2>1
<1>4. PICK o : o = CHOOSE g : P(g)
  OBVIOUS
<1>5. P(o)
  BY <1>3, <1>4
<1>6. TwoTo = CHOOSE g : P(g)
  BY DEF TwoTo
<1>7. \A n \in Nat : TwoTo[n] = IF n = 0 THEN 1 ELSE 2 * TwoTo[n - 1]
  BY <1>4, <1>5, <1>6
<1>8. TwoTo[0] = 1 /\ \A n \in Nat : TwoTo[n + 1] = 2 * TwoTo[n]
  <2>1. ASSUME NEW n \in Nat PROVE TwoTo[n + 1] = 2 * TwoTo[n]
    <3>1. n + 1 \in Nat /\ n + 1 # 0 /\ (n + 1) - 1 = n
      OBVIOUS
    <3> QED BY <1>7, <3>1
  <2> QED BY <1>7, <2>1
<1>9. \A n \in Nat : TwoTo[n] \in Nat \ {0}
  <2> DEFINE T == {n \in Nat : TwoTo[n] \in Nat \ {0}}
  <2>1. 0 \in T
    BY <1>8
  <2>2. \A n \in Nat : n \in T => n + 1 \in T
    BY <1>8
  <2> HIDE DEF T
  <2>3. Nat \subseteq T
    BY <2>1, <2>2, Numbers
  <2> QED BY <2>3 DEF T
<1> QED BY <1>8, <1>9

-----------------------------------------------------------------------------
(* The divider.                                                            *)

\* Quotients and remainders are what makes up the number.
LEMMA DivMod ==
  ASSUME NEW n \in Int, NEW d \in Int, d > 0
  PROVE  /\ n \div d \in Int /\ n % d \in Int
         /\ n = d * (n \div d) + (n % d) /\ 0 <= n % d /\ n % d < d
         /\ \A q \in Int, r \in Int : 0 <= r /\ r < d /\ n = d * q + r => n \div d = q /\ n % d = r
<1>1. n \div d \in Int /\ n % d \in Int /\ n = d * (n \div d) + (n % d) /\ 0 <= n % d /\ n % d < d
  OBVIOUS
<1>2. ASSUME NEW q \in Int, NEW r \in Int, 0 <= r, r < d, n = d * q + r
      PROVE  n \div d = q /\ n % d = r
  BY <1>2
<1> QED BY <1>1, <1>2

\* Products grow with their factors.
LEMMA Products ==
  ASSUME NEW a \in Nat, NEW x \in Int, NEW y \in Int, x <= y
  PROVE  a * x <= a * y
<1>1. PICK d \in Nat : y = x + d
  <2>1. y - x \in Nat /\ y = x + (y - x)
    OBVIOUS
  <2> QED BY <2>1
<1>2. a * y = a * x + a * d /\ a * d >= 0
  BY <1>1
<1> QED BY <1>2

\* A quotient of natural numbers, and what bounds it.
LEMMA Quotient ==
  ASSUME NEW n \in Nat, NEW d \in Nat, d > 0
  PROVE  \E q \in Nat, r \in Nat : /\ q = n \div d /\ r = n % d /\ n = d * q + r /\ r < d /\ q <= n
                                   /\ \A m \in Nat : n < d * m => q < m
<1>1. PICK q \in Int, r \in Nat : q = n \div d /\ r = n % d /\ n = d * q + r /\ r < d
  BY DivMod
<1>2. q >= 0
  <2> SUFFICES ASSUME q < 0 PROVE FALSE
    OBVIOUS
  <2>1. PICK p \in Nat : q = -(p + 1)
    <3>1. -q - 1 \in Nat /\ q = -((-q - 1) + 1)
      OBVIOUS
    <3> QED BY <3>1
  <2>2. d * q = -(d * p) - d /\ d * p >= 0
    BY <2>1
  <2> QED BY <1>1, <2>2
<1>3. q <= n
  <2>1. d * q >= q
    BY <1>2
  <2> QED BY <1>1, <2>1
<1>4. ASSUME NEW m \in Nat, n < d * m PROVE q < m
  <2> SUFFICES ASSUME m <= q PROVE FALSE
    OBVIOUS
  <2>1. d * m <= d * q
    BY <1>2, Products
  <2>2. d * m \in Int /\ d * q \in Int
    OBVIOUS
  <2> QED BY <1>1, <1>4, <2>1, <2>2
<1> QED BY <1>1, <1>2, <1>3, <1>4

\* A word has two halves.
LEMMA Sizes ==
  ASSUME MathAssumption
  PROVE  \E H \in Nat \ {0} :
            /\ WordSize = 2 * H /\ WordSize \div 2 = H /\ H % 2 = 0
            /\ PairSize = 2 * (H * WordSize) /\ PairSize \div 2 = H * WordSize
            /\ PairSize \div 4 = H * H /\ PairSize = 4 * (H * H)
            /\ H * WordSize \in Nat /\ H <= H * WordSize - 1 /\ WordSize \in Nat /\ PairSize \in Nat
<1>1. PICK w \in Nat : Word = (w + 1) + 1
  <2>1. Word \in Nat /\ Word # 0 /\ Word # 1
    BY DEF MathAssumption
  <2>2. Word - 2 \in Nat /\ Word = ((Word - 2) + 1) + 1
    BY <2>1
  <2> QED BY <2>2
<1>2. PICK K \in Nat \ {0} : K = TwoTo[w]
  BY TwoToIs
<1>3. PICK H \in Nat \ {0} : H = 2 * K
  OBVIOUS
<1>4. TwoTo[w + 1] = H /\ TwoTo[(w + 1) + 1] = 2 * H
  <2>1. TwoTo[w + 1] = 2 * TwoTo[w]
    BY TwoToIs
  <2>2. w + 1 \in Nat
    OBVIOUS
  <2>3. TwoTo[(w + 1) + 1] = 2 * TwoTo[w + 1]
    BY <2>2, TwoToIs
  <2> QED BY <1>2, <1>3, <2>1, <2>3
<1>5. WordSize = 2 * H
  BY <1>1, <1>4 DEF WordSize
<1>6. WordSize \div 2 = H /\ WordSize \in Nat /\ H % 2 = 0
  BY <1>3, <1>5
<1>7. PairSize = 2 * (H * WordSize) /\ PairSize = 4 * (H * H) /\ H * WordSize \in Nat
      /\ H * H \in Nat /\ PairSize \in Nat
  BY <1>5 DEF PairSize
<1>8. PairSize \div 2 = H * WordSize /\ PairSize \div 4 = H * H
  BY <1>7
<1>9. H <= H * WordSize - 1
  <2>1. H * WordSize = 2 * (H * H) /\ H * H >= H
    BY <1>5
  <2> QED BY <2>1, <1>7
<1> QED BY <1>5, <1>6, <1>7, <1>8, <1>9

\* A pair of words, and a number stored in one.
LEMMA Pairs ==
  ASSUME MathAssumption
  PROVE  /\ \A p \in Pair : /\ Value(p) \in 0 .. PairSize - 1 /\ Signed(p) \in Int
                            /\ -(PairSize \div 2) <= Signed(p) /\ Signed(p) < PairSize \div 2
         /\ \A w \in Words : /\ SignedWord(w) \in Int /\ -(WordSize \div 2) <= SignedWord(w)
                             /\ SignedWord(w) < WordSize \div 2
         /\ \A n \in Int : Stored(n) \in Pair /\ Value(Stored(n)) = n % PairSize
<1>1. PICK H \in Nat \ {0} :
            /\ WordSize = 2 * H /\ WordSize \div 2 = H
            /\ PairSize = 2 * (H * WordSize) /\ PairSize \div 2 = H * WordSize
            /\ H * WordSize \in Nat /\ WordSize \in Nat /\ PairSize \in Nat
  BY Sizes
<1>2. ASSUME NEW p \in Pair
      PROVE  /\ Value(p) \in 0 .. PairSize - 1 /\ Signed(p) \in Int
             /\ -(PairSize \div 2) <= Signed(p) /\ Signed(p) < PairSize \div 2
  <2>1. PICK l \in Nat, h \in Nat : l = p.lo /\ h = p.hi /\ l <= WordSize - 1 /\ h <= WordSize - 1
    BY <1>1 DEF Pair, Words
  <2>2. Value(p) = l + h * WordSize
    BY <2>1 DEF Value
  <2>3. h * WordSize \in Nat /\ h * WordSize <= PairSize - WordSize
    <3>1. h * WordSize <= (WordSize - 1) * WordSize
      BY <1>1, <2>1
    <3>2. (WordSize - 1) * WordSize = PairSize - WordSize
      BY <1>1 DEF PairSize
    <3> QED BY <1>1, <2>1, <3>1, <3>2
  <2>4. CASE h < H
    <3>1. h * WordSize <= H * WordSize - WordSize
      <4>1. h * WordSize <= (H - 1) * WordSize
        BY <1>1, <2>1, <2>4
      <4> QED BY <1>1, <4>1
    <3>2. Signed(p) = Value(p)
      BY <1>1, <2>1, <2>4 DEF Signed
    <3> QED BY <1>1, <2>1, <2>2, <2>3, <3>1, <3>2
  <2>5. CASE ~(h < H)
    <3>1. h * WordSize >= H * WordSize
      BY <1>1, <2>1, <2>5
    <3>2. Signed(p) = Value(p) - PairSize
      BY <1>1, <2>1, <2>5 DEF Signed
    <3> QED BY <1>1, <2>1, <2>2, <2>3, <3>1, <3>2
  <2> QED BY <2>4, <2>5
<1>3. \A w \in Words : /\ SignedWord(w) \in Int /\ -(WordSize \div 2) <= SignedWord(w)
                       /\ SignedWord(w) < WordSize \div 2
  BY <1>1 DEF Words, SignedWord
<1>4. ASSUME NEW n \in Int PROVE Stored(n) \in Pair /\ Value(Stored(n)) = n % PairSize
  <2>1. PICK u \in Nat : u = n % PairSize /\ u < PairSize
    BY <1>1, DivMod
  <2>2. u < WordSize * WordSize /\ WordSize > 0
    BY <1>1, <2>1 DEF PairSize
  <2>3. PICK q \in Nat, r \in Nat : /\ q = u \div WordSize /\ r = u % WordSize
                                    /\ u = WordSize * q + r /\ r < WordSize /\ q < WordSize
    BY <1>1, <2>2, Quotient
  <2>4. Stored(n) = [lo |-> r, hi |-> q]
    BY <2>1, <2>3 DEF Stored
  <2>5. Stored(n) \in Pair
    BY <1>1, <2>3, <2>4 DEF Pair, Words
  <2>6. Value(Stored(n)) = r + q * WordSize
    BY <2>4 DEF Value
  <2>7. WordSize * q = q * WordSize /\ q * WordSize \in Int
    BY <1>1
  <2> QED BY <2>1, <2>3, <2>5, <2>6, <2>7
<1> QED BY <1>2, <1>3, <1>4

\* A number that fits is stored as itself.
LEMMA QuotientFits ==
  ASSUME MathAssumption, NEW n \in Int, -(PairSize \div 2) <= n, n < PairSize \div 2
  PROVE  Signed(Stored(n)) = n
<1>1. PICK H \in Nat \ {0} :
            /\ WordSize = 2 * H /\ WordSize \div 2 = H
            /\ PairSize = 2 * (H * WordSize) /\ PairSize \div 2 = H * WordSize
            /\ H * WordSize \in Nat /\ WordSize \in Nat /\ PairSize \in Nat
  BY Sizes
<1>2. PICK p \in Pair : p = Stored(n) /\ Value(p) = n % PairSize
  BY Pairs
<1>3. PICK l \in Nat, h \in Nat : l = p.lo /\ h = p.hi /\ l <= WordSize - 1 /\ h <= WordSize - 1
  BY <1>1 DEF Pair, Words
<1>4. Value(p) = l + h * WordSize /\ h * WordSize \in Nat
  BY <1>1, <1>3 DEF Value
<1>5. CASE n >= 0
  <2>1. n % PairSize = n
    BY <1>1, <1>5
  <2>2. h < H
    <3>1. h >= H => h * WordSize >= H * WordSize
      BY <1>1, <1>3
    <3> QED BY <1>1, <1>2, <1>3, <1>4, <2>1, <3>1
  <2> QED BY <1>1, <1>2, <1>3, <2>1, <2>2 DEF Signed
<1>6. CASE n < 0
  <2>1. n % PairSize = n + PairSize
    <3>1. n = PairSize * (-1) + (n + PairSize) /\ 0 <= n + PairSize /\ n + PairSize < PairSize
      BY <1>1, <1>6
    <3> QED BY <1>1, <3>1, DivMod
  <2>2. ~(h < H)
    <3>1. h < H => h * WordSize <= H * WordSize - WordSize
      <4>1. h < H => h * WordSize <= (H - 1) * WordSize
        BY <1>1, <1>3
      <4> QED BY <1>1, <4>1
    <3> QED BY <1>1, <1>2, <1>3, <1>4, <2>1, <3>1
  <2> QED BY <1>1, <1>2, <1>3, <2>1, <2>2 DEF Signed
<1> QED BY <1>5, <1>6

\* Division as C has it.
LEMMA Division ==
  ASSUME NEW n \in Int, NEW d \in Int, d # 0
  PROVE  /\ Quot(n, d) \in Int /\ Rem(n, d) \in Int
         /\ Quot(n, d) * d + Rem(n, d) = n
         /\ Abs(Rem(n, d)) < Abs(d)
         /\ Rem(n, d) < 0 => n < 0
         /\ Rem(n, d) > 0 => n > 0
         /\ -Abs(n) <= Quot(n, d) /\ Quot(n, d) <= Abs(n)
         /\ n < 0 /\ Quot(n, d) = -n => d = -1
<1>1. PICK a \in Nat, b \in Nat : a = Abs(n) /\ b = Abs(d) /\ b > 0
  BY DEF Abs
<1>2. PICK k \in Nat, m \in Nat : k = a \div b /\ a = b * k + m /\ m < b /\ k <= a
  BY <1>1, Quotient
<1>8. PICK P \in Nat : P = b * k /\ a = P + m
  BY <1>2
<1>3. k = a => b = 1 \/ a = 0
  <2> SUFFICES ASSUME k = a, b # 1 PROVE a = 0
    OBVIOUS
  <2>1. b >= 2
    BY <1>1
  <2>2. P >= 2 * k
    BY <1>8, <2>1
  <2> QED BY <1>8, <2>2
<1>4. CASE n >= 0 /\ d > 0
  <2>1. Quot(n, d) = k /\ a = n /\ b = d
    <3>1. Quot(n, d) = k
      BY <1>1, <1>2, <1>4 DEF Quot
    <3> QED BY <1>1, <1>4, <3>1 DEF Abs
  <2>2. d * (k) = P /\ (k) * d = P
    BY <1>8, <2>1
  <2>3. Rem(n, d) = n - d * (k)
    BY <2>1 DEF Rem
  <2>4. Rem(n, d) = m /\ Quot(n, d) * d + Rem(n, d) = n
    BY <1>8, <2>1, <2>2, <2>3
  <2> QED BY <1>2, <1>3, <1>4, <2>1, <2>4 DEF Abs
<1>5. CASE n >= 0 /\ d < 0
  <2>1. Quot(n, d) = -k /\ a = n /\ b = -d
    <3>1. Quot(n, d) = -k
      BY <1>1, <1>2, <1>5 DEF Quot
    <3> QED BY <1>1, <1>5, <3>1 DEF Abs
  <2>2. d * (-k) = P /\ (-k) * d = P
    BY <1>8, <2>1
  <2>3. Rem(n, d) = n - d * (-k)
    BY <2>1 DEF Rem
  <2>4. Rem(n, d) = m /\ Quot(n, d) * d + Rem(n, d) = n
    BY <1>8, <2>1, <2>2, <2>3
  <2> QED BY <1>2, <1>3, <1>5, <2>1, <2>4 DEF Abs
<1>6. CASE n < 0 /\ d > 0
  <2>1. Quot(n, d) = -k /\ a = -n /\ b = d
    <3>1. Quot(n, d) = -k
      BY <1>1, <1>2, <1>6 DEF Quot
    <3> QED BY <1>1, <1>6, <3>1 DEF Abs
  <2>2. d * (-k) = -P /\ (-k) * d = -P
    BY <1>8, <2>1
  <2>3. Rem(n, d) = n - d * (-k)
    BY <2>1 DEF Rem
  <2>4. Rem(n, d) = -m /\ Quot(n, d) * d + Rem(n, d) = n
    BY <1>8, <2>1, <2>2, <2>3
  <2> QED BY <1>2, <1>3, <1>6, <2>1, <2>4 DEF Abs
<1>7. CASE n < 0 /\ d < 0
  <2>1. Quot(n, d) = k /\ a = -n /\ b = -d
    <3>1. Quot(n, d) = k
      BY <1>1, <1>2, <1>7 DEF Quot
    <3> QED BY <1>1, <1>7, <3>1 DEF Abs
  <2>2. d * (k) = -P /\ (k) * d = -P
    BY <1>8, <2>1
  <2>3. Rem(n, d) = n - d * (k)
    BY <2>1 DEF Rem
  <2>4. Rem(n, d) = -m /\ Quot(n, d) * d + Rem(n, d) = n
    BY <1>8, <2>1, <2>2, <2>3
  <2> QED BY <1>2, <1>3, <1>7, <2>1, <2>4 DEF Abs
<1> QED BY <1>4, <1>5, <1>6, <1>7

-----------------------------------------------------------------------------
(* The square root. *)

\* A number is the quotient of all that it makes with a small remainder.
LEMMA QuotientIs ==
  ASSUME NEW d \in Nat, NEW q \in Nat, NEW r \in Nat, r < d
  PROVE  (d * q + r) \div d = q
<1>1. d * q + r \in Int
  OBVIOUS
<1>2. PICK n \in Int : n = d * q + r
  BY <1>1
<1> QED BY <1>2, DivMod

\* A quotient by four times as much has two bits less.
LEMMA TwoBits ==
  ASSUME NEW x \in Nat, NEW p \in Nat \ {0}, NEW F \in Nat, F = 4 * p
  PROVE  /\ x \div p \in Nat /\ x \div p <= x /\ x \div F \in Nat
         /\ (x \div p) % 4 \in 0 .. 3
         /\ x \div p = 4 * (x \div F) + ((x \div p) % 4)
<1>1. PICK q \in Nat, r \in Nat : q = x \div p /\ x = p * q + r /\ r < p /\ q <= x
  BY Quotient
<1>2. PICK t \in Nat, d \in Nat : t = q \div 4 /\ d = q % 4 /\ q = 4 * t + d /\ d < 4
  BY Quotient
<1>3. PICK P \in Nat, M \in Nat : P = p * t /\ M = p * d
  OBVIOUS
<1>4. M <= 3 * p
  BY <1>2, <1>3
<1>5. PICK R \in Nat : x = F * t + R /\ R < F
  <2>1. p * q = 4 * P + M
    BY <1>2, <1>3
  <2>2. F * t = 4 * P
    BY <1>3
  <2>3. x = F * t + (M + r) /\ M + r \in Nat /\ M + r < F
    BY <1>1, <1>4, <2>1, <2>2
  <2> QED BY <2>3
<1>6. x \div F = t
  <2>1. (F * t + R) \div F = t
    BY <1>5, QuotientIs
  <2> QED BY <1>5, <2>1
<1>7. q = x \div p /\ q <= x
  BY <1>1
<1>8. q = 4 * t + d /\ d = q % 4 /\ d < 4
  BY <1>2
<1>9. q % 4 \in 0 .. 3 /\ q = 4 * t + (q % 4)
  BY <1>8
<1> QED BY <1>6, <1>7, <1>9

\* The bits of a pair are those of two words.
LEMMA Squared == \A n \in Nat : TwoTo[2 * n] = TwoTo[n] * TwoTo[n]
<1> DEFINE T == {n \in Nat : TwoTo[2 * n] = TwoTo[n] * TwoTo[n]}
<1>1. 0 \in T
  BY TwoToIs
<1>2. ASSUME NEW n \in Nat, n \in T PROVE n + 1 \in T
  <2>1. 2 * (n + 1) = (2 * n + 1) + 1 /\ 2 * n \in Nat /\ 2 * n + 1 \in Nat
    OBVIOUS
  <2>2. TwoTo[2 * n + 1] = 2 * TwoTo[2 * n] /\ TwoTo[(2 * n + 1) + 1] = 2 * TwoTo[2 * n + 1]
    BY <2>1, TwoToIs
  <2>3. PICK p \in Nat : p = TwoTo[n] /\ TwoTo[n + 1] = 2 * p /\ TwoTo[2 * n] = p * p
    BY <1>2, TwoToIs
  <2>4. (2 * p) * (2 * p) = 2 * (2 * (p * p))
    OBVIOUS
  <2> QED BY <2>1, <2>2, <2>3, <2>4
<1> HIDE DEF T
<1>3. Nat \subseteq T
  BY <1>1, <1>2, Numbers
<1> QED BY <1>3 DEF T

\* A round of the square root unit.
Rounds == [res : Words, rem : Nat]
RoundOf(x, bits, i, r) ==
    LET res == (2 * r.res) % WordSize
        rem == r.rem * 4 + ((x \div TwoTo[2 * (bits - i)]) % 4)
        prod == (2 * res + 1) % WordSize
    IN  IF rem >= prod THEN [res |-> res + 1, rem |-> rem - prod]
        ELSE [res |-> res, rem |-> rem]

\* A round stays within the registers.
LEMMA RoundTypes ==
  ASSUME MathAssumption, NEW x \in Nat, NEW bits \in Nat, NEW i \in 1 .. bits, NEW r \in Rounds
  PROVE  RoundOf(x, bits, i, r) \in Rounds
<1>1. PICK H \in Nat \ {0} : WordSize = 2 * H
  BY Sizes
<1>2. PICK s \in Nat : s = r.res
  BY DEF Rounds, Words
<1>3. PICK h \in Nat : h = (2 * s) % WordSize /\ h + 1 < WordSize
  <2>1. PICK q \in Nat, m \in Nat : m = (2 * s) % WordSize /\ 2 * s = WordSize * q + m /\ m < WordSize
    <3>1. 2 * s \in Nat /\ WordSize \in Nat /\ WordSize > 0
      BY <1>1
    <3> QED BY <3>1, Quotient
  <2>2. PICK P \in Nat : P = H * q
    OBVIOUS
  <2>3. WordSize * q = 2 * P
    BY <1>1, <2>2
  <2> QED BY <1>1, <2>1, <2>3
<1>4. PICK d \in Nat : d = (x \div TwoTo[2 * (bits - i)]) % 4
  <2>1. 2 * (bits - i) \in Nat
    OBVIOUS
  <2>2. PICK p \in Nat \ {0} : p = TwoTo[2 * (bits - i)]
    BY <2>1, TwoToIs
  <2>3. (x \div p) % 4 \in 0 .. 3
    <3>1. 4 * p \in Nat
      OBVIOUS
    <3> QED BY <3>1, TwoBits
  <2> QED BY <2>2, <2>3
<1>5. PICK p \in Nat : p = (2 * h + 1) % WordSize
  BY <1>1
<1>6. r.rem \in Nat
  BY DEF Rounds
<1>7. RoundOf(x, bits, i, r) = IF r.rem * 4 + d >= p THEN [res |-> h + 1, rem |-> r.rem * 4 + d - p]
                               ELSE [res |-> h, rem |-> r.rem * 4 + d]
  <2>1. h = (2 * r.res) % WordSize
    BY <1>2, <1>3
  <2>2. CASE r.rem * 4 + d >= p
    BY <1>4, <1>5, <1>6, <2>1, <2>2 DEF RoundOf
  <2>3. CASE ~(r.rem * 4 + d >= p)
    BY <1>4, <1>5, <1>6, <2>1, <2>3 DEF RoundOf
  <2> QED BY <2>2, <2>3
<1> QED BY <1>1, <1>3, <1>6, <1>7 DEF Rounds, Words

\* The rounds of a root, one after the other.
LEMMA RootRounds ==
  ASSUME MathAssumption, Operand \in Nat, NEW bits \in Nat,
         bits = IF sqrtWide THEN Word ELSE Word \div 2
  PROVE  \E f \in [Nat -> Rounds] :
            /\ Root = f[bits].res /\ f[0] = [res |-> 0, rem |-> 0]
            /\ \A n \in Nat : n < bits => f[n + 1] = RoundOf(Operand, bits, n + 1, f[n])
<1> DEFINE base == [res |-> 0, rem |-> 0]
           step == [n \in Nat |-> [r \in Rounds |->
                       IF n < bits THEN RoundOf(Operand, bits, n + 1, r) ELSE r]]
           P(g) == g = [i \in 0 .. bits |-> IF i = 0 THEN base
                                            ELSE RoundOf(Operand, bits, i, g[i - 1])]
<1>1. PICK f \in [Nat -> Rounds] : f[0] = base /\ \A n \in Nat : f[n + 1] = step[n][f[n]]
  <2>1. base \in Rounds
    BY Sizes DEF Rounds, Words
  <2>2. \A n \in Nat, r \in Rounds : step[n][r] \in Rounds
    <3> TAKE n \in Nat, r \in Rounds
    <3>1. n < bits => RoundOf(Operand, bits, n + 1, r) \in Rounds
      <4>1. n < bits => n + 1 \in 1 .. bits
        OBVIOUS
      <4> QED BY <4>1, RoundTypes
    <3> QED BY <3>1
  <2>3. PICK Q : Q = Rounds
    OBVIOUS
  <2> HIDE DEF base, step
  <2>4. Closed(Q, base, step)
    BY <2>1, <2>2, <2>3 DEF Closed
  <2>5. PICK f \in [Nat -> Q] : f[0] = base /\ \A n \in Nat : f[n + 1] = step[n][f[n]]
    BY <2>4, Recursion
  <2> QED BY <2>3, <2>5
<1>2. \A n \in Nat : n < bits => f[n + 1] = RoundOf(Operand, bits, n + 1, f[n])
  BY <1>1
<1>3. PICK g : g = [i \in 0 .. bits |-> f[i]]
  OBVIOUS
<1>4. P(g)
  <2>1. \A i \in 0 .. bits : g[i] = IF i = 0 THEN base ELSE RoundOf(Operand, bits, i, g[i - 1])
    <3> TAKE i \in 0 .. bits
    <3>1. CASE i # 0
      <4>1. i - 1 \in Nat /\ i - 1 < bits /\ (i - 1) + 1 = i /\ i - 1 \in 0 .. bits
        BY <3>1
      <4>2. f[(i - 1) + 1] = RoundOf(Operand, bits, (i - 1) + 1, f[i - 1])
        BY <1>2, <4>1
      <4> QED BY <1>3, <3>1, <4>1, <4>2
    <3>2. CASE i = 0
      BY <1>1, <1>3, <3>2
    <3> QED BY <3>1, <3>2
  <2> QED BY <1>3, <2>1
<1>5. PICK o : o = CHOOSE h : P(h)
  OBVIOUS
<1>6. P(o)
  BY <1>4, <1>5
<1>7. Root = (CHOOSE h : P(h))[bits].res
  BY DEF Root, RoundOf
<1>8. \A n \in 0 .. bits : o[n] = f[n]
  <2>1. o[0] = f[0]
    BY <1>1, <1>6
  <2>2. \A n \in Nat : n < bits /\ o[n] = f[n] => o[n + 1] = f[n + 1]
    <3> TAKE n \in Nat
    <3>1. HAVE n < bits /\ o[n] = f[n]
    <3>2. n + 1 \in 0 .. bits /\ n + 1 # 0 /\ (n + 1) - 1 = n
      BY <3>1
    <3>3. o[n + 1] = RoundOf(Operand, bits, n + 1, o[n])
      BY <1>6, <3>2
    <3> QED BY <1>2, <3>1, <3>3
  <2> HIDE DEF P
  <2> QED BY <2>1, <2>2, Alike
<1>9. Root = f[bits].res
  <2>1. bits \in 0 .. bits
    OBVIOUS
  <2> QED BY <1>5, <1>7, <1>8, <2>1
<1> QED BY <1>1, <1>2, <1>9

\* Before each round the root is that of the upper bits of the operand.
RootOf(X, r) == \E Q \in Nat, R \in Nat : /\ Q = r.res * r.res /\ R = r.rem
                                          /\ X = Q + R /\ R <= 2 * r.res

\* After a round the result is the root of the bits taken in so far.
LEMMA RoundRoot ==
  ASSUME MathAssumption, NEW x \in Nat, 4 * x < PairSize,
         NEW bits \in Nat, NEW i \in 1 .. bits, NEW r \in Rounds,
         RootOf(x \div TwoTo[2 * (bits - (i - 1))], r)
  PROVE  RootOf(x \div TwoTo[2 * (bits - i)], RoundOf(x, bits, i, r))
<1>1. PICK H \in Nat \ {0} : WordSize = 2 * H /\ PairSize = 4 * (H * H)
  BY Sizes
<1>2. PICK p \in Nat \ {0}, F \in Nat : /\ p = TwoTo[2 * (bits - i)] /\ F = 4 * p
                                       /\ TwoTo[2 * (bits - (i - 1))] = F
  <2>1. 2 * (bits - i) \in Nat /\ 2 * (bits - i) + 1 \in Nat
        /\ 2 * (bits - (i - 1)) = (2 * (bits - i) + 1) + 1
    OBVIOUS
  <2>2. TwoTo[2 * (bits - i) + 1] = 2 * TwoTo[2 * (bits - i)]
        /\ TwoTo[(2 * (bits - i) + 1) + 1] = 2 * TwoTo[2 * (bits - i) + 1]
        /\ TwoTo[2 * (bits - i)] \in Nat \ {0}
    BY <2>1, TwoToIs
  <2> QED BY <2>1, <2>2
<1>3. PICK X \in Nat, Y \in Nat, d \in 0 .. 3 : /\ X = x \div F /\ Y = x \div p /\ d = (x \div p) % 4
                                               /\ Y = 4 * X + d /\ Y <= x
  BY ZenonT(60), <1>2, TwoBits
<1>4. PICK s \in Nat, Q \in Nat, m \in Nat : s = r.res /\ m = r.rem /\ Q = s * s /\ X = Q + m /\ m <= 2 * s
  <2>1. RootOf(X, r)
    BY <1>2, <1>3, Zenon
  <2>2. PICK Q \in Nat, m \in Nat : Q = r.res * r.res /\ m = r.rem /\ X = Q + m /\ m <= 2 * r.res
    BY <2>1 DEF RootOf
  <2>3. r.res \in Nat
    BY DEF Rounds, Words
  <2> QED BY <2>2, <2>3, Zenon
<1>5. 2 * s < H
  <2> SUFFICES ASSUME H <= 2 * s PROVE FALSE
    OBVIOUS
  <2>1. H * H <= (2 * s) * (2 * s)
    <3>1. H * H <= H * (2 * s) /\ (2 * s) * H <= (2 * s) * (2 * s)
      BY Products
    <3> QED BY <3>1
  <2>2. (2 * s) * (2 * s) = 4 * Q
    BY <1>4
  <2>3. 4 * (4 * Q) <= 4 * x
    BY <1>3, <1>4
  <2>4. PICK G \in Nat : G = H * H
    OBVIOUS
  <2> QED BY <1>1, <2>1, <2>2, <2>3, <2>4
<1>6. (2 * r.res) % WordSize = 2 * s
  <2>1. 2 * s \in Nat /\ 2 * s < WordSize /\ WordSize \in Nat
    BY <1>1, <1>5
  <2>2. (2 * s) % WordSize = 2 * s
    BY <2>1
  <2> QED BY <1>4, <2>2
<1>7. (2 * (2 * s) + 1) % WordSize = 4 * s + 1
  <2>1. 4 * s + 1 \in Nat /\ 4 * s + 1 < WordSize /\ WordSize \in Nat
    BY <1>1, <1>5
  <2>2. (4 * s + 1) % WordSize = 4 * s + 1
    BY <2>1
  <2>3. 2 * (2 * s) + 1 = 4 * s + 1
    OBVIOUS
  <2> QED BY <2>2, <2>3
<1>8. (x \div TwoTo[2 * (bits - i)]) % 4 = d
  BY <1>2, <1>3
<1>11. Y = 4 * Q + 4 * m + d /\ m <= 2 * s
  <2>1. Y = 4 * X + d
    BY <1>3
  <2>2. X = Q + m /\ m <= 2 * s
    BY <1>4
  <2> QED BY <2>1, <2>2
<1>12. x \div TwoTo[2 * (bits - i)] = Y
  BY <1>2, <1>3
<1>9. CASE m * 4 + d >= 4 * s + 1
  <2>1. RoundOf(x, bits, i, r) = [res |-> 2 * s + 1, rem |-> m * 4 + d - (4 * s + 1)]
    BY <1>4, <1>6, <1>7, <1>8, <1>9 DEF RoundOf
  <2>2. (2 * s + 1) * (2 * s + 1) = 4 * Q + 4 * s + 1
    BY <1>4
  <2>3. 4 * Q + 4 * s + 1 \in Nat /\ m * 4 + d - (4 * s + 1) \in Nat
        /\ Y = (4 * Q + 4 * s + 1) + (m * 4 + d - (4 * s + 1)) /\ m * 4 + d - (4 * s + 1) <= 2 * (2 * s + 1)
    BY <1>11, <1>9
  <2>4. PICK u \in Nat, Q2 \in Nat, R2 \in Nat : /\ u = 2 * s + 1 /\ Q2 = 4 * Q + 4 * s + 1
                                                 /\ R2 = m * 4 + d - (4 * s + 1) /\ R2 <= 2 * u
    BY <2>3
  <2>5. Q2 = u * u /\ Y = Q2 + R2
    BY <2>2, <2>3, <2>4
  <2>6. RoundOf(x, bits, i, r) = [res |-> u, rem |-> R2]
    BY <2>1, <2>4
  <2> QED BY <1>12, <2>4, <2>5, <2>6 DEF RootOf
<1>10. CASE ~(m * 4 + d >= 4 * s + 1)
  <2>1. RoundOf(x, bits, i, r) = [res |-> 2 * s, rem |-> m * 4 + d]
    BY <1>4, <1>6, <1>7, <1>8, <1>10 DEF RoundOf
  <2>2. (2 * s) * (2 * s) = 4 * Q
    BY <1>4
  <2>3. 4 * Q \in Nat /\ m * 4 + d \in Nat
        /\ Y = (4 * Q) + (m * 4 + d) /\ m * 4 + d <= 2 * (2 * s)
    BY <1>11, <1>10
  <2>4. PICK u \in Nat, Q2 \in Nat, R2 \in Nat : /\ u = 2 * s /\ Q2 = 4 * Q
                                                 /\ R2 = m * 4 + d /\ R2 <= 2 * u
    BY <2>3
  <2>5. Q2 = u * u /\ Y = Q2 + R2
    BY <2>2, <2>3, <2>4
  <2>6. RoundOf(x, bits, i, r) = [res |-> u, rem |-> R2]
    BY <2>1, <2>4
  <2> QED BY <1>12, <2>4, <2>5, <2>6 DEF RootOf
<1> QED BY <1>9, <1>10

\* The root that a square root unit computes.
LEMMA RootIs ==
  ASSUME MathAssumption, sqrtVal \in Pair, sqrtWide \in BOOLEAN
  PROVE  /\ Root \in Words
         /\ (sqrtWide => Operand < PairSize \div 4) =>
               Root * Root <= Operand /\ Operand < (Root + 1) * (Root + 1)
<1>1. PICK H \in Nat \ {0} : /\ WordSize = 2 * H /\ PairSize = 4 * (H * H) /\ PairSize \div 4 = H * H
                             /\ H % 2 = 0
  BY Sizes
<1>2. PICK x \in Nat : x = Operand
  <2>1. sqrtVal.lo \in Nat /\ Value(sqrtVal) \in Nat
    <3>1. sqrtVal.lo \in Nat /\ H * H \in Nat
      BY <1>1 DEF Pair, Words
    <3>2. Value(sqrtVal) \in 0 .. PairSize - 1
      BY Pairs
    <3> QED BY <1>1, <3>1, <3>2
  <2> QED BY <2>1 DEF Operand
<1>3. PICK bits \in Nat : bits = IF sqrtWide THEN Word ELSE Word \div 2
  <2>1. Word \in Nat /\ Word \div 2 \in Nat
    BY DEF MathAssumption
  <2> QED BY <2>1
<1>4. PICK f \in [Nat -> Rounds] :
            /\ Root = f[bits].res /\ f[0] = [res |-> 0, rem |-> 0]
            /\ \A n \in Nat : n < bits => f[n + 1] = RoundOf(x, bits, n + 1, f[n])
  BY <1>2, <1>3, RootRounds
<1>5. Root \in Words
  BY <1>4 DEF Rounds
<1>6. ASSUME sqrtWide => Operand < PairSize \div 4
      PROVE  Root * Root <= Operand /\ Operand < (Root + 1) * (Root + 1)
  <2>1. 4 * x < PairSize /\ x < TwoTo[2 * bits]
    <3>1. CASE sqrtWide
      <4>1. x < H * H /\ H * H \in Nat
        BY <1>1, <1>2, <1>6, <3>1
      <4>2. TwoTo[2 * bits] = PairSize
        BY <1>3, <3>1, Squared DEF PairSize, WordSize, MathAssumption
      <4> QED BY <1>1, <4>1, <4>2
    <3>2. CASE ~sqrtWide
      <4>1. x <= WordSize - 1
        BY <1>1, <1>2, <3>2 DEF Operand, Pair, Words
      <4>2. TwoTo[2 * bits] = WordSize
        <5>1. 2 * (Word \div 2) = Word
          BY DEF MathAssumption
        <5> QED BY <1>3, <3>2, <5>1 DEF WordSize
      <4>3. 2 * H <= H * H
        <5>1. H >= 2
          BY <1>1
        <5> QED BY <5>1
      <4>4. PICK G \in Nat : G = H * H
        OBVIOUS
      <4> QED BY <1>1, <4>1, <4>2, <4>3, <4>4
    <3> QED BY <3>1, <3>2
  <2> DEFINE T == {n \in Nat : n <= bits => RootOf(x \div TwoTo[2 * (bits - n)], f[n])}
  <2>2. 0 \in T
    <3>1. x \div TwoTo[2 * (bits - 0)] = 0
      <4>1. PICK p \in Nat \ {0} : p = TwoTo[2 * bits]
        <5>1. 2 * bits \in Nat
          OBVIOUS
        <5> QED BY <5>1, TwoToIs
      <4>2. x \div p = 0
        BY <2>1, <4>1
      <4>3. bits - 0 = bits
        OBVIOUS
      <4> QED BY <4>1, <4>2, <4>3
    <3>2. RootOf(0, f[0])
      BY <1>4 DEF RootOf
    <3> QED BY <3>1, <3>2
  <2>3. ASSUME NEW n \in Nat, n \in T PROVE n + 1 \in T
    <3> SUFFICES ASSUME n + 1 <= bits PROVE RootOf(x \div TwoTo[2 * (bits - (n + 1))], f[n + 1])
      OBVIOUS
    <3>1. RootOf(x \div TwoTo[2 * (bits - n)], f[n])
      BY <2>3
    <3>2. n + 1 \in 1 .. bits /\ (n + 1) - 1 = n
      OBVIOUS
    <3>3. RootOf(x \div TwoTo[2 * (bits - ((n + 1) - 1))], f[n])
      BY <3>1, <3>2
    <3>4. RootOf(x \div TwoTo[2 * (bits - (n + 1))], RoundOf(x, bits, n + 1, f[n]))
      BY <2>1, <3>2, <3>3, RoundRoot
    <3>5. f[n + 1] = RoundOf(x, bits, n + 1, f[n])
      BY <1>4
    <3> QED BY <3>4, <3>5
  <2> HIDE DEF T
  <2>4. Nat \subseteq T
    BY <2>2, <2>3, Numbers
  <2>5. RootOf(x \div TwoTo[2 * (bits - bits)], f[bits])
    BY <2>4 DEF T
  <2>6. x \div TwoTo[2 * (bits - bits)] = x
    <3>1. 2 * (bits - bits) = 0 /\ TwoTo[0] = 1 /\ x \div 1 = x
      BY TwoToIs
    <3> QED BY <3>1
  <2>7. PICK s \in Nat, Q \in Nat, m \in Nat : Root = s /\ Q = s * s /\ x = Q + m /\ m <= 2 * s
    BY <1>4, <1>5, <2>5, <2>6 DEF RootOf, Words
  <2>8. (s + 1) * (s + 1) = Q + 2 * s + 1
    BY <2>7
  <2> QED BY <1>2, <2>7, <2>8
<1> QED BY <1>5, <1>6

-----------------------------------------------------------------------------
(* What the units deliver. *)

MathInv == MathTypeOK /\ DivExact /\ SqrtExact

\* The operands of the divider.
LEMMA Operands ==
  ASSUME MathAssumption, MathTypeOK
  PROVE  \E H \in Nat \ {0}, P \in Nat \ {0} :
            /\ WordSize = 2 * H /\ WordSize \div 2 = H /\ PairSize = 2 * P /\ PairSize \div 2 = P
            /\ P = H * WordSize /\ H < P
            /\ Numerator \in Int /\ -P <= Numerator /\ Numerator < P
            /\ Denominator \in Int /\ -P <= Denominator /\ Denominator < P
            /\ Smallest = (IF divMode = 0 THEN -H ELSE -P) /\ Smallest <= Numerator
<1>1. PICK H \in Nat \ {0} :
            /\ WordSize = 2 * H /\ WordSize \div 2 = H
            /\ PairSize = 2 * (H * WordSize) /\ PairSize \div 2 = H * WordSize
            /\ H * WordSize \in Nat /\ H <= H * WordSize - 1
  BY Sizes
<1>2. PICK P \in Nat \ {0} : P = H * WordSize /\ H < P /\ PairSize = 2 * P /\ PairSize \div 2 = P
  BY <1>1
<1>3. /\ Signed(num) \in Int /\ -P <= Signed(num) /\ Signed(num) < P
      /\ Signed(den) \in Int /\ -P <= Signed(den) /\ Signed(den) < P
  <2>1. num \in Pair /\ den \in Pair
    BY DEF MathTypeOK
  <2> QED BY <1>2, <2>1, Pairs
<1>4. /\ SignedWord(num.lo) \in Int /\ -H <= SignedWord(num.lo) /\ SignedWord(num.lo) < H
      /\ SignedWord(den.lo) \in Int /\ -H <= SignedWord(den.lo) /\ SignedWord(den.lo) < H
  <2>1. num.lo \in Words /\ den.lo \in Words
    BY DEF MathTypeOK, Pair
  <2> QED BY <1>1, <2>1, Pairs
<1>5. Smallest = IF divMode = 0 THEN -H ELSE -P
  BY <1>1, <1>2 DEF Smallest
<1>6. /\ Numerator \in Int /\ -P <= Numerator /\ Numerator < P /\ Smallest <= Numerator
      /\ Denominator \in Int /\ -P <= Denominator /\ Denominator < P
  BY <1>2, <1>3, <1>4, <1>5 DEF Numerator, Denominator
<1> QED BY <1>1, <1>2, <1>5, <1>6

\* A division that is done is right.
LEMMA DivideExact ==
  ASSUME MathAssumption, MathTypeOK, DivDone
  PROVE  DivExact'
<1>1. PICK H \in Nat \ {0}, P \in Nat \ {0} :
            /\ WordSize = 2 * H /\ WordSize \div 2 = H /\ PairSize = 2 * P /\ PairSize \div 2 = P
            /\ P = H * WordSize /\ H < P
            /\ Numerator \in Int /\ -P <= Numerator /\ Numerator < P
            /\ Denominator \in Int /\ -P <= Denominator /\ Denominator < P
            /\ Smallest = (IF divMode = 0 THEN -H ELSE -P) /\ Smallest <= Numerator
  BY Operands
<1>2. PICK n \in Int, d \in Int : n = Numerator /\ d = Denominator
  BY <1>1
<1>3. Numerator' = n /\ Denominator' = d /\ Overflows' = Overflows
  BY <1>2 DEF DivDone, Numerator, Denominator, Overflows, Smallest
<1> SUFFICES ASSUME d # 0
             PROVE  /\ Stored(Signed(quotient') * d + (IF Overflows THEN 0 ELSE Signed(remainder')))
                          = Stored(n)
                    /\ ~Overflows => /\ Abs(Signed(remainder')) < Abs(d)
                                     /\ Signed(remainder') # 0 => (Signed(remainder') < 0) = (n < 0)
  BY <1>3, Zenon DEF DivExact, Signed, Value
<1>4. CASE n = Smallest /\ d = -1 /\ divMode = 0
  <2>1. quotient' = [lo |-> H, hi |-> 0] /\ Overflows /\ n = -H
    BY <1>1, <1>2, <1>4 DEF DivDone, Divided, Overflows
  <2>2. Signed(quotient') = H
    BY <1>1, <2>1 DEF Signed, Value
  <2>3. Signed(quotient') * d + 0 = n
    BY <1>4, <2>1, <2>2
  <2> QED BY <2>1, <2>3
<1>5. CASE n = Smallest /\ d = -1 /\ divMode # 0
  <2>1. quotient' = [lo |-> 0, hi |-> H] /\ remainder' = Zero /\ ~Overflows /\ n = -P
    BY <1>1, <1>2, <1>5 DEF DivDone, Divided, Overflows
  <2>2. Signed(quotient') = P - 2 * P
    BY <1>1, <2>1 DEF Signed, Value
  <2>3. Signed(remainder') = 0
    BY <1>1, <2>1 DEF Signed, Value, Zero
  <2>4. Signed(quotient') * d + 0 = P
    BY <1>5, <2>2
  <2>5. P % PairSize = P /\ (-P) % PairSize = P
    BY <1>1
  <2>6. Stored(P) = Stored(-P)
    BY <2>5, Zenon DEF Stored
  <2>7. Abs(0) < Abs(d)
    BY <1>5 DEF Abs
  <2> QED BY <2>1, <2>3, <2>4, <2>6, <2>7
<1>6. CASE ~(n = Smallest /\ d = -1)
  <2>1. quotient' = Stored(Quot(n, d)) /\ remainder' = Stored(Rem(n, d)) /\ ~Overflows
    BY <1>2, <1>6 DEF DivDone, Divided, Overflows
  <2>2. PICK q \in Int, r \in Int : /\ q = Quot(n, d) /\ r = Rem(n, d) /\ q * d + r = n
                                    /\ Abs(r) < Abs(d) /\ (r < 0 => n < 0) /\ (r > 0 => n > 0)
                                    /\ -Abs(n) <= q /\ q <= Abs(n) /\ (n < 0 /\ q = -n => d = -1)
    BY Division
  <2>3. -P <= q /\ q < P
    <3>1. n >= 0 => -n <= q /\ q <= n
      BY <2>2 DEF Abs
    <3>2. n < 0 => n <= q /\ q <= -n
      BY <2>2 DEF Abs
    <3>3. n < 0 /\ q = -n => n # -P
      BY <1>1, <1>2, <1>6, <2>2
    <3> QED BY <1>1, <1>2, <3>1, <3>2, <3>3
  <2>4. -P <= r /\ r < P
    <3>1. Abs(r) < Abs(d) /\ Abs(d) <= P
      BY <1>1, <1>2, <2>2 DEF Abs
    <3> QED BY <3>1 DEF Abs
  <2>5. Signed(quotient') = q /\ Signed(remainder') = r
    BY <1>1, <2>1, <2>2, <2>3, <2>4, QuotientFits
  <2>6. r # 0 => (r < 0) = (n < 0)
    BY <2>2
  <2> QED BY <2>1, <2>2, <2>5, <2>6
<1> QED BY <1>4, <1>5, <1>6

\* A write keeps to the types, and begins the unit anew.
LEMMA MathTypes ==
  ASSUME MathAssumption, MathTypeOK, DivNext \/ SqrtNext
  PROVE  MathTypeOK'
<1>1. PICK H \in Nat \ {0} : /\ WordSize = 2 * H /\ WordSize \div 2 = H
                             /\ H * WordSize \in Nat /\ H <= H * WordSize - 1
  BY Sizes
<1>2. Zero \in Pair
  BY <1>1 DEF Zero, Pair, Words
<1>3. ASSUME NEW p \in Pair, NEW v \in Words
      PROVE  [p EXCEPT !.lo = v] \in Pair /\ [p EXCEPT !.hi = v] \in Pair
  BY DEF Pair
<1>4. CASE DivNext
  <2>1. ASSUME NEW v \in DivValues, WriteDivOperand(v) PROVE MathTypeOK'
    <3>1. v \in Words
      BY DEF MathAssumption
    <3>2. num' \in Pair /\ den' \in Pair
      <4>1. num \in Pair /\ den \in Pair
        BY DEF MathTypeOK
      <4>2. /\ [num EXCEPT !.lo = v] \in Pair /\ [num EXCEPT !.hi = v] \in Pair
            /\ [den EXCEPT !.lo = v] \in Pair /\ [den EXCEPT !.hi = v] \in Pair
        BY <1>3, <3>1, <4>1
      <4> QED BY <2>1, <4>1, <4>2 DEF WriteDivOperand
    <3> QED BY <2>1, <3>2 DEF WriteDivOperand, MathTypeOK, sqrtVars
  <2>2. ASSUME NEW m \in 0 .. 3, WriteDivMode(m) PROVE MathTypeOK'
    BY <2>2 DEF WriteDivMode, MathTypeOK, sqrtVars
  <2>3. CASE DivDone
    <3>1. PICK P \in Nat \ {0} : Numerator \in Int /\ Denominator \in Int
      BY Operands
    <3>2. quotient' \in Pair /\ remainder' \in Pair
      <4>1. CASE Denominator = 0
        <5>1. remainder' = Stored(Numerator)
          BY <2>3, <4>1 DEF DivDone, Divided
        <5>2. CASE divMode = 0
          <6>1. quotient' = [lo |-> IF Numerator < 0 THEN 1 ELSE WordSize - 1,
                             hi |-> IF Numerator < 0 THEN WordSize - 1 ELSE 0]
            BY <2>3, <4>1, <5>2 DEF DivDone, Divided
          <6> QED BY <1>1, <3>1, <5>1, <6>1, Pairs DEF Pair, Words
        <5>3. CASE divMode # 0
          <6>1. quotient' = Stored(IF Numerator < 0 THEN 1 ELSE -1)
            BY <2>3, <4>1, <5>3 DEF DivDone, Divided
          <6> QED BY <3>1, <5>1, <6>1, Pairs
        <5> QED BY <5>2, <5>3
      <4>2. CASE Denominator # 0 /\ Numerator = Smallest /\ Denominator = -1
        BY <1>1, <1>2, <2>3, <4>2 DEF DivDone, Divided, Pair, Words, MathTypeOK
      <4>3. CASE Denominator # 0 /\ ~(Numerator = Smallest /\ Denominator = -1)
        <5>1. quotient' = Stored(Quot(Numerator, Denominator))
              /\ remainder' = Stored(Rem(Numerator, Denominator))
          BY <2>3, <4>3 DEF DivDone, Divided
        <5>2. Quot(Numerator, Denominator) \in Int /\ Rem(Numerator, Denominator) \in Int
          BY <3>1, <4>3, Division
        <5> QED BY <5>1, <5>2, Pairs
      <4> QED BY <4>1, <4>2, <4>3
    <3>3. divZero' \in BOOLEAN
      BY <2>3 DEF DivDone
    <3> QED BY <2>3, <3>2, <3>3 DEF DivDone, MathTypeOK, sqrtVars
  <2> QED BY <1>4, <2>1, <2>2, <2>3 DEF DivNext
<1>5. CASE SqrtNext
  <2>1. ASSUME NEW v \in Words, WriteSqrtOperand(v) PROVE MathTypeOK'
    <3>1. sqrtVal' \in Pair
      <4>1. sqrtVal \in Pair
        BY DEF MathTypeOK
      <4>2. [sqrtVal EXCEPT !.lo = v] \in Pair /\ [sqrtVal EXCEPT !.hi = v] \in Pair
        BY <1>3, <4>1
      <4> QED BY <2>1, <4>2 DEF WriteSqrtOperand
    <3> QED BY <2>1, <3>1 DEF WriteSqrtOperand, MathTypeOK, divVars
  <2>2. ASSUME NEW w \in BOOLEAN, WriteSqrtMode(w) PROVE MathTypeOK'
    BY <2>2 DEF WriteSqrtMode, MathTypeOK, divVars
  <2>3. CASE SqrtDone
    <3>1. Root \in Words
      BY RootIs DEF MathTypeOK
    <3> QED BY <2>3, <3>1 DEF SqrtDone, MathTypeOK, divVars
  <2> QED BY <1>5, <2>1, <2>2, <2>3 DEF SqrtNext
<1> QED BY <1>4, <1>5

\* What DivExact speaks of changes only while the divider is busy, and so for the root.
LEMMA DivKept ==
  ASSUME DivExact, UNCHANGED divVars
  PROVE  DivExact'
BY DEF divVars, DivExact, Denominator, Numerator, Signed, SignedWord, Value, Overflows, Smallest

\* So does the square root unit.
LEMMA SqrtKept ==
  ASSUME SqrtExact, UNCHANGED sqrtVars
  PROVE  SqrtExact'
BY DEF sqrtVars, SqrtExact, Operand, Value

\* Every step keeps what is delivered right.
LEMMA MathStep ==
  ASSUME MathAssumption, MathInv, DivNext \/ SqrtNext \/ UNCHANGED mathVars
  PROVE  MathInv'
<1> USE DEF MathInv
<1>1. CASE DivNext
  <2>1. UNCHANGED sqrtVars
    BY <1>1 DEF DivNext, WriteDivOperand, WriteDivMode, DivDone
  <2>2. CASE DivDone
    BY <1>1, <2>1, <2>2, DivideExact, MathTypes, SqrtKept
  <2>3. CASE ~DivDone
    <3>1. divBusy'
      BY <1>1, <2>3 DEF DivNext, WriteDivOperand, WriteDivMode
    <3> QED BY <1>1, <2>1, <3>1, MathTypes, SqrtKept DEF DivExact
  <2> QED BY <2>2, <2>3
<1>2. CASE SqrtNext
  <2>1. UNCHANGED divVars
    BY <1>2 DEF SqrtNext, WriteSqrtOperand, WriteSqrtMode, SqrtDone
  <2>2. CASE SqrtDone
    <3>1. sqrtRes' = Root /\ Operand' = Operand /\ sqrtWide' = sqrtWide
      BY <2>2 DEF SqrtDone, Operand, Value
    <3>2. SqrtExact'
      BY <3>1, RootIs DEF SqrtExact, MathTypeOK
    <3> QED BY <1>2, <2>1, <3>2, DivKept, MathTypes
  <2>3. CASE ~SqrtDone
    <3>1. sqrtBusy'
      BY <1>2, <2>3 DEF SqrtNext, WriteSqrtOperand, WriteSqrtMode
    <3> QED BY <1>2, <2>1, <3>1, MathTypes, DivKept DEF SqrtExact
  <2> QED BY <2>2, <2>3
<1>3. CASE UNCHANGED mathVars
  <2>1. MathTypeOK'
    BY <1>3 DEF mathVars, divVars, sqrtVars, MathTypeOK
  <2> QED BY <1>3, <2>1, DivKept, SqrtKept DEF mathVars
<1> QED BY <1>1, <1>2, <1>3

\* And so it is after a reset.
LEMMA MathStart ==
  ASSUME MathAssumption, MathInit
  PROVE  MathInv
<1>1. PICK H \in Nat \ {0} : WordSize = 2 * H /\ WordSize \div 2 = H
  BY Sizes
<1>2. MathTypeOK
  <2>1. 0 \in Words
    BY <1>1 DEF Words
  <2>2. Zero \in Pair
    BY <2>1 DEF Zero, Pair
  <2>3. {num, den, quotient, remainder, sqrtVal} = {Zero}
    BY DEF MathInit
  <2>4. {num, den, quotient, remainder, sqrtVal} \subseteq Pair
    BY <2>2, <2>3
  <2>5. divZero \in BOOLEAN /\ divBusy \in BOOLEAN /\ sqrtWide \in BOOLEAN /\ sqrtBusy \in BOOLEAN
    BY Zenon DEF MathInit
  <2>6. divMode \in 0 .. 3 /\ sqrtRes \in Words
    <3>1. divMode = 0 /\ sqrtRes = 0
      BY Zenon DEF MathInit
    <3> QED BY <2>1, <3>1
  <2> QED BY <2>4, <2>5, <2>6 DEF MathTypeOK
<1>3. DivExact
  <2>1. SignedWord(0) = 0
    BY <1>1 DEF SignedWord
  <2> QED BY <2>1 DEF MathInit, DivExact, Denominator, Zero
<1>4. SqrtExact
  BY DEF MathInit, SqrtExact, Operand, Zero
<1> QED BY <1>2, <1>3, <1>4 DEF MathInv

\* However often operands and mode are rewritten while the units are busy, the results
\* they deliver are exact and those of the present operands: for words of any width.
THEOREM ResultsHold ==
  ASSUME MathAssumption
  PROVE  UnitsSpec => []ResultsExact
<1>1. UnitsInit => MathInv
  BY MathStart DEF UnitsInit
<1>2. MathInv /\ [UnitsNext]_unitsVars => MathInv'
  BY MathStep DEF UnitsNext, unitsVars
<1>3. MathInv => ResultsExact
  BY DEF MathInv, ResultsExact
<1> QED BY <1>1, <1>2, <1>3, PTL DEF UnitsSpec

-----------------------------------------------------------------------------
(* The timers' overflows.  What a bank does in a cycle, and what the overflow of a
   timer does to those chained to it, are written without recursion, and with the
   registers as parameters. *)

Settings == [on : BOOLEAN, up : BOOLEAN, irq : BOOLEAN, step : 1 .. Unit]
CountsIn(cn, t) == cn[t].on /\ ~cn[t].up
ChainedIn(cn, t) == cn[t].on /\ cn[t].up

\* All after k as far as t are chained and overflow when they count once more.
Rolls(cn, c, k, t) == \A u \in k + 1 .. t : ChainedIn(cn, u) /\ c[u] + Unit >= Full
\* A counting timer overflows in this cycle, and all the way to t.
Over(cn, c, t) == \E k \in 0 .. t : CountsIn(cn, k) /\ c[k] + cn[k].step >= Full /\ Rolls(cn, c, k, t)

\* The sizes, and what a count may be.
LEMMA Limits ==
  ASSUME TimersAssumption
  PROVE  /\ Full \in Nat \ {0} /\ Unit \in Nat \ {0} /\ N \in Nat \ {0} /\ N - 1 \in TimerIds
         /\ \A r \in 0 .. Size - 1 : r * Unit \in Nat /\ r * Unit + Unit <= Full
         /\ Controls \subseteq Settings /\ Reloads \cup {0} \subseteq 0 .. Size - 1
<1>1. Size \in Nat \ {0} /\ Unit \in Nat \ {0} /\ N \in Nat \ {0}
  BY DEF TimersAssumption
<1>2. Full \in Nat \ {0}
  <2>1. Size * Unit \in Nat /\ Size * Unit # 0
    BY <1>1
  <2> QED BY <2>1 DEF Full
<1>3. ASSUME NEW r \in 0 .. Size - 1 PROVE r * Unit \in Nat /\ r * Unit + Unit <= Full
  <2>1. PICK d \in Nat : Size = r + 1 + d
    <3>1. Size - 1 - r \in Nat /\ Size = r + 1 + (Size - 1 - r)
      BY <1>1
    <3> QED BY <3>1
  <2>2. Size * Unit = r * Unit + Unit + d * Unit
    BY <1>1, <2>1
  <2>3. r * Unit \in Nat /\ d * Unit \in Nat
    BY <1>1
  <2> QED BY <2>2, <2>3 DEF Full
<1>4. Controls \subseteq Settings
  BY DEF TimersAssumption, Settings
<1>5. Reloads \cup {0} \subseteq 0 .. Size - 1
  BY <1>1 DEF TimersAssumption
<1> QED BY <1>1, <1>2, <1>3, <1>4, <1>5 DEF TimerIds

\* One timer more in a chain.
LEMMA RollOn ==
  ASSUME NEW cn, NEW c, NEW k \in Nat, NEW t \in Nat, k < t
  PROVE  Rolls(cn, c, k, t) <=> Rolls(cn, c, k, t - 1) /\ ChainedIn(cn, t) /\ c[t] + Unit >= Full
<1>1. k + 1 .. t = (k + 1 .. t - 1) \cup {t}
  OBVIOUS
<1> QED BY <1>1 DEF Rolls

\* The overflow in a timer's cycle is that of the timer, or passed on to it.
LEMMA OverOn ==
  ASSUME NEW cn, NEW c, NEW t \in Nat
  PROVE  Over(cn, c, t) <=> \/ CountsIn(cn, t) /\ c[t] + cn[t].step >= Full
                            \/ /\ ChainedIn(cn, t) /\ t > 0
                               /\ Over(cn, c, t - 1) /\ c[t] + Unit >= Full
<1>1. Rolls(cn, c, t, t)
  BY DEF Rolls
<1>2. ASSUME Over(cn, c, t)
      PROVE  \/ CountsIn(cn, t) /\ c[t] + cn[t].step >= Full
             \/ ChainedIn(cn, t) /\ t > 0 /\ Over(cn, c, t - 1) /\ c[t] + Unit >= Full
  <2>1. PICK k \in 0 .. t : CountsIn(cn, k) /\ c[k] + cn[k].step >= Full /\ Rolls(cn, c, k, t)
    BY <1>2 DEF Over
  <2>2. CASE k # t
    <3>1. k < t /\ k \in Nat /\ k \in 0 .. t - 1 /\ t > 0
      BY <2>2
    <3>2. Rolls(cn, c, k, t - 1) /\ ChainedIn(cn, t) /\ c[t] + Unit >= Full
      BY <2>1, <3>1, RollOn
    <3> QED BY <2>1, <3>1, <3>2 DEF Over
  <2> QED BY <2>1, <2>2
<1>3. ASSUME ChainedIn(cn, t), t > 0, Over(cn, c, t - 1), c[t] + Unit >= Full
      PROVE  Over(cn, c, t)
  <2>1. PICK k \in 0 .. t - 1 : CountsIn(cn, k) /\ c[k] + cn[k].step >= Full /\ Rolls(cn, c, k, t - 1)
    BY <1>3 DEF Over
  <2>2. k \in Nat /\ k < t /\ k \in 0 .. t
    OBVIOUS
  <2>3. Rolls(cn, c, k, t)
    BY <1>3, <2>1, <2>2, RollOn
  <2> QED BY <2>1, <2>2, <2>3 DEF Over
<1>4. ASSUME CountsIn(cn, t), c[t] + cn[t].step >= Full PROVE Over(cn, c, t)
  <2>1. t \in 0 .. t
    OBVIOUS
  <2> QED BY <1>1, <1>4, <2>1 DEF Over
<1> QED BY <1>2, <1>3, <1>4

\* What has become of the timers after k, as far as t, when k overflows.
Carried(b, k, t) ==
    [counter |-> [u \in TimerIds |->
                    IF ~(k < u /\ u <= t) THEN b.counter[u]
                    ELSE IF Rolls(cnt, b.counter, k, u) THEN reload[u] * Unit
                    ELSE IF Rolls(cnt, b.counter, k, u - 1) /\ ChainedIn(cnt, u)
                         THEN b.counter[u] + Unit ELSE b.counter[u]],
     raised  |-> b.raised \cup {u \in TimerIds : /\ k < u /\ u <= t /\ cnt[u].irq
                                                 /\ Rolls(cnt, b.counter, k, u)}]

\* Nothing is carried to the timers before the one that overflows.
LEMMA CarriedFrom ==
  ASSUME NEW b \in Bank, NEW k \in TimerIds, NEW t \in TimerIds, t <= k
  PROVE  Carried(b, k, t) = b
<1>1. \A u \in TimerIds : ~(k < u /\ u <= t)
  BY DEF TimerIds
<1>2. Carried(b, k, t) = [counter |-> [u \in TimerIds |-> b.counter[u]], raised |-> b.raised \cup {}]
  BY <1>1 DEF Carried
<1>3. b = [counter |-> b.counter, raised |-> b.raised] /\ b.counter = [u \in TimerIds |-> b.counter[u]]
  BY DEF Bank
<1> QED BY <1>2, <1>3

CarriedStep(b, k, t) ==
    /\ t - 1 \in TimerIds
    /\ Carried(b, k, t - 1).counter[t] = b.counter[t]
    /\ Carried(b, k, t).counter =
          [Carried(b, k, t - 1).counter EXCEPT ![t] =
              IF Rolls(cnt, b.counter, k, t) THEN reload[t] * Unit
              ELSE IF Rolls(cnt, b.counter, k, t - 1) /\ ChainedIn(cnt, t)
                   THEN b.counter[t] + Unit ELSE b.counter[t]]
    /\ Carried(b, k, t).raised =
          Carried(b, k, t - 1).raised \cup
              (IF cnt[t].irq /\ Rolls(cnt, b.counter, k, t) THEN {t} ELSE {})

\* What is carried to a timer when it has been carried to those before it.
LEMMA CarriedOn ==
  ASSUME TimersAssumption, NEW b \in Bank, NEW k \in TimerIds, NEW t \in TimerIds, k < t,
         cnt \in [TimerIds -> Settings]
  PROVE  CarriedStep(b, k, t)
<1>1. t - 1 \in TimerIds /\ k \in Nat /\ t \in Nat
  BY Limits DEF TimerIds
<1>2. \A u \in TimerIds : (k < u /\ u <= t) <=> (k < u /\ u <= t - 1) \/ u = t
  BY Limits DEF TimerIds
<1>3. ~(t <= t - 1)
  BY <1>1
<1>4. Carried(b, k, t - 1).counter[t] = b.counter[t]
  BY <1>3 DEF Carried
<1>5. Carried(b, k, t).counter =
               [Carried(b, k, t - 1).counter EXCEPT ![t] =
                   IF Rolls(cnt, b.counter, k, t) THEN reload[t] * Unit
                   ELSE IF Rolls(cnt, b.counter, k, t - 1) /\ ChainedIn(cnt, t)
                        THEN b.counter[t] + Unit ELSE b.counter[t]]
  BY <1>2 DEF Carried
<1>6. Carried(b, k, t).raised =
               Carried(b, k, t - 1).raised \cup
                   (IF cnt[t].irq /\ Rolls(cnt, b.counter, k, t) THEN {t} ELSE {})
  BY <1>2 DEF Carried
<1> QED BY <1>1, <1>4, <1>5, <1>6 DEF CarriedStep

\* No timer after one that has not overflowed is told of an overflow.
LEMMA Stopped ==
  ASSUME NEW c, NEW x, NEW e, c = [bank |-> x, over |-> e], c.bank = x
  PROVE  [c EXCEPT !.over = FALSE] = [bank |-> x, over |-> FALSE]
<1>1. ASSUME NEW v \in BOOLEAN PROVE [c EXCEPT !.over = v] = [bank |-> x, over |-> v]
  OBVIOUS
<1> QED BY <1>1

\* The recursion of Carry computes just that.
LEMMA CarryIs ==
  ASSUME TimersAssumption, cnt \in [TimerIds -> Settings], NEW b \in Bank, NEW tid \in TimerIds
  PROVE  Carry(b, tid) = Carried(b, tid, N - 1)
<1> DEFINE Step(c, t) ==
                       LET count == c.bank.counter[t] + Unit
                       IN  IF ~c.over \/ ~Chained(t)
                           THEN [c EXCEPT !.over = FALSE]
                           ELSE IF count < Full
                           THEN [bank |-> [c.bank EXCEPT !.counter[t] = count], over |-> FALSE]
                           ELSE [bank |-> Raise([c.bank EXCEPT !.counter[t] = reload[t] * Unit], t),
                                 over |-> TRUE]
           P(g) == g = [t \in TimerIds |-> IF t <= tid THEN [bank |-> b, over |-> TRUE]
                                           ELSE Step(g[t - 1], t)]
<1>1. Carry(b, tid) = (CHOOSE g : P(g))[N - 1].bank
  BY DEF Carry
<1>2. PICK w : w = [t \in TimerIds |-> [bank |-> Carried(b, tid, t),
                                        over |-> IF Rolls(cnt, b.counter, tid, t) THEN TRUE ELSE FALSE]]
  OBVIOUS
<1>3. ASSUME NEW t \in TimerIds, tid < t PROVE w[t] = Step(w[t - 1], t)
  <2> DEFINE c == w[t - 1]
  <2>1. t - 1 \in TimerIds /\ tid \in Nat /\ t \in Nat
    BY <1>3, CarriedOn DEF TimerIds, CarriedStep
  <2>11. PICK x, y : x = Carried(b, tid, t - 1) /\ y = Carried(b, tid, t)
    OBVIOUS
  <2>2. PICK e \in BOOLEAN, f \in BOOLEAN :
            /\ e = IF Rolls(cnt, b.counter, tid, t - 1) THEN TRUE ELSE FALSE
            /\ f = IF Rolls(cnt, b.counter, tid, t) THEN TRUE ELSE FALSE
            /\ c = [bank |-> x, over |-> e] /\ w[t] = [bank |-> y, over |-> f]
    BY <1>2, <2>1, <2>11
  <2>3. Rolls(cnt, b.counter, tid, t) <=>
           Rolls(cnt, b.counter, tid, t - 1) /\ ChainedIn(cnt, t) /\ b.counter[t] + Unit >= Full
    BY <1>3, <2>1, RollOn
  <2>4. /\ x.counter[t] = b.counter[t]
        /\ y.counter = [x.counter EXCEPT ![t] =
                   IF Rolls(cnt, b.counter, tid, t) THEN reload[t] * Unit
                   ELSE IF Rolls(cnt, b.counter, tid, t - 1) /\ ChainedIn(cnt, t)
                        THEN b.counter[t] + Unit ELSE b.counter[t]]
        /\ y.raised = x.raised \cup (IF cnt[t].irq /\ Rolls(cnt, b.counter, tid, t) THEN {t} ELSE {})
    <3>1. CarriedStep(b, tid, t)
      BY <1>3, CarriedOn
    <3> QED BY <2>11, <3>1, Zenon DEF CarriedStep
  <2>5. /\ x = [counter |-> x.counter, raised |-> x.raised]
        /\ y = [counter |-> y.counter, raised |-> y.raised]
        /\ x.counter = [x.counter EXCEPT ![t] = x.counter[t]]
    BY <1>3, <2>11 DEF Carried
  <2>6. Chained(t) <=> ChainedIn(cnt, t)
    BY DEF Chained, ChainedIn
  <2>7. b.counter[t] \in Nat /\ Unit \in Nat /\ Full \in Nat
    BY Limits DEF Bank
  <2> HIDE DEF c
  <2>12. c = [bank |-> x, over |-> e] /\ c.bank = x /\ c.over = e
    BY <2>2
  <2>8. CASE ~c.over \/ ~Chained(t)
    <3>1. ~Rolls(cnt, b.counter, tid, t) /\ ~(Rolls(cnt, b.counter, tid, t - 1) /\ ChainedIn(cnt, t))
      BY <2>2, <2>3, <2>6, <2>8
    <3>2. y.counter = x.counter /\ y.raised = x.raised
      BY <2>4, <2>5, <3>1
    <3>3. y = x
      BY <2>5, <3>2
    <3>4. w[t] = [bank |-> x, over |-> FALSE]
      BY <2>2, <3>1, <3>3
    <3>5. [c EXCEPT !.over = FALSE] = [bank |-> x, over |-> FALSE]
      BY <2>12, Stopped
    <3> QED BY <2>8, <3>4, <3>5 DEF c
  <2>9. CASE ~(~c.over \/ ~Chained(t)) /\ c.bank.counter[t] + Unit < Full
    <3>1. ~Rolls(cnt, b.counter, tid, t) /\ Rolls(cnt, b.counter, tid, t - 1) /\ ChainedIn(cnt, t)
      BY <2>2, <2>3, <2>4, <2>6, <2>7, <2>9
    <3>2. y.counter = [x.counter EXCEPT ![t] = b.counter[t] + Unit] /\ y.raised = x.raised
      BY <2>4, <3>1
    <3>3. y = [x EXCEPT !.counter[t] = b.counter[t] + Unit]
      BY <2>5, <3>2
    <3>4. w[t] = [bank |-> y, over |-> FALSE]
      BY <2>2, <3>1
    <3> QED BY <2>4, <2>9, <2>12, <3>3, <3>4 DEF c
  <2>10. CASE ~(~c.over \/ ~Chained(t)) /\ ~(c.bank.counter[t] + Unit < Full)
    <3>1. Rolls(cnt, b.counter, tid, t)
      BY <2>2, <2>3, <2>4, <2>6, <2>7, <2>10
    <3>2. y.counter = [x.counter EXCEPT ![t] = reload[t] * Unit]
          /\ y.raised = IF cnt[t].irq THEN x.raised \cup {t} ELSE x.raised
      BY <2>4, <3>1
    <3>3. y = Raise([x EXCEPT !.counter[t] = reload[t] * Unit], t)
      <4>1. [x EXCEPT !.counter[t] = reload[t] * Unit] = [counter |-> y.counter, raised |-> x.raised]
        BY <2>5, <3>2
      <4>2. PICK z : z = [x EXCEPT !.counter[t] = reload[t] * Unit]
        OBVIOUS
      <4>3. CASE cnt[t].irq
        <5>1. Raise(z, t) = [z EXCEPT !.raised = @ \cup {t}]
          BY <4>3 DEF Raise
        <5>2. Raise(z, t) = [counter |-> y.counter, raised |-> x.raised \cup {t}]
          BY <4>1, <4>2, <5>1
        <5>3. y.raised = x.raised \cup {t}
          BY <3>2, <4>3
        <5> QED BY <2>5, <4>2, <5>2, <5>3
      <4>4. CASE ~cnt[t].irq
        BY <2>5, <3>2, <4>1, <4>2, <4>4 DEF Raise
      <4> QED BY <4>3, <4>4
    <3>4. w[t] = [bank |-> y, over |-> TRUE]
      BY <2>2, <3>1
    <3> QED BY <2>10, <2>12, <3>3, <3>4 DEF c
  <2> QED BY <2>8, <2>9, <2>10
<1>4. ASSUME NEW t \in TimerIds, t <= tid PROVE w[t] = [bank |-> b, over |-> TRUE]
  <2>1. Rolls(cnt, b.counter, tid, t)
    BY <1>4 DEF Rolls, TimerIds
  <2> QED BY <1>2, <1>4, <2>1, CarriedFrom
<1>5. \A t \in TimerIds : t <= tid \/ tid < t
  BY DEF TimerIds
<1>6. P(w)
  <2> HIDE DEF Step
  <2>1. ASSUME NEW t \in TimerIds
        PROVE  w[t] = IF t <= tid THEN [bank |-> b, over |-> TRUE] ELSE Step(w[t - 1], t)
    <3>1. CASE t <= tid
      BY <1>4, <3>1
    <3>2. CASE ~(t <= tid)
      <4>1. tid < t
        BY <1>5, <3>2
      <4> QED BY <1>3, <3>2, <4>1
    <3> QED BY <3>1, <3>2
  <2> QED BY <1>2, <2>1
<1>7. PICK o : o = CHOOSE g : P(g)
  OBVIOUS
<1>8. P(o)
  <2> HIDE DEF P
  <2> QED BY <1>6, <1>7
<1>9. o[N - 1] = w[N - 1]
  <2>1. o[0] = w[0]
    BY <1>6, <1>8, Limits DEF TimerIds
  <2>2. ASSUME NEW n \in Nat, n < N - 1 /\ o[n] = w[n] PROVE o[n + 1] = w[n + 1]
    <3>1. n + 1 \in TimerIds /\ (n + 1) - 1 = n
      BY <2>2, Limits DEF TimerIds
    <3> HIDE DEF Step
    <3>2. o[n + 1] = IF n + 1 <= tid THEN [bank |-> b, over |-> TRUE] ELSE Step(o[n], n + 1)
      BY <1>8, <3>1
    <3>3. w[n + 1] = IF n + 1 <= tid THEN [bank |-> b, over |-> TRUE] ELSE Step(w[n], n + 1)
      BY <1>6, <3>1
    <3> QED BY <2>2, <3>2, <3>3, Zenon
  <2> HIDE DEF P
  <2>3. N - 1 \in Nat /\ N - 1 \in 0 .. N - 1
    BY Limits
  <2>4. \A n \in 0 .. N - 1 : o[n] = w[n]
    BY <2>1, <2>2, <2>3, Alike
  <2> QED BY <2>3, <2>4
<1>10. w[N - 1].bank = Carried(b, tid, N - 1)
  BY <1>2, Limits
<1> HIDE DEF P
<1> QED BY <1>1, <1>7, <1>9, <1>10

-----------------------------------------------------------------------------
(* A timer that catches up. *)

Registers == /\ TimersAssumption
             /\ cnt \in [TimerIds -> Settings] /\ reload \in [TimerIds -> 0 .. Size - 1]

Plus(c, k, x) == [counter |-> [c.counter EXCEPT ![k] = c.counter[k] + x], raised |-> c.raised]

\* What the overflow of timer k does.
Overflowed(c, k) ==
    [counter |-> [u \in TimerIds |->
                    IF u = k THEN c.counter[k] + reload[k] * Unit
                    ELSE IF u < k THEN c.counter[u]
                    ELSE IF Rolls(cnt, c.counter, k, u) THEN reload[u] * Unit
                    ELSE IF Rolls(cnt, c.counter, k, u - 1) /\ ChainedIn(cnt, u)
                         THEN c.counter[u] + Unit ELSE c.counter[u]],
     raised  |-> c.raised \cup {u \in TimerIds : /\ k <= u /\ cnt[u].irq
                                                 /\ Rolls(cnt, c.counter, k, u)}]

\* A count that goes up or down in one timer.
LEMMA PlusIs ==
  ASSUME NEW c \in Bank, NEW k \in TimerIds, NEW x \in Int, c.counter[k] + x >= 0
  PROVE  /\ Plus(c, k, x) \in Bank /\ Plus(c, k, x).counter[k] = c.counter[k] + x
         /\ Plus(c, k, x).raised = c.raised
         /\ \A u \in TimerIds : u # k => Plus(c, k, x).counter[u] = c.counter[u]
         /\ c.counter[k] \in Nat
<1>1. c.counter \in [TimerIds -> Nat] /\ c.raised \in SUBSET TimerIds
  BY DEF Bank
<1>2. c.counter[k] + x \in Nat
  BY <1>1
<1> QED BY <1>1, <1>2 DEF Plus, Bank

\* Two counts make one.
LEMMA PlusPlus ==
  ASSUME NEW c \in Bank, NEW k \in TimerIds, NEW x \in Int, NEW y \in Int
  PROVE  Plus(Plus(c, k, x), k, y) = Plus(c, k, x + y)
<1>1. c.counter \in [TimerIds -> Nat] /\ c.counter[k] \in Nat
  BY DEF Bank
<1>2. PICK f : f = [c.counter EXCEPT ![k] = c.counter[k] + x]
  OBVIOUS
<1>3. f[k] + y = c.counter[k] + (x + y)
  BY <1>1, <1>2
<1>4. [f EXCEPT ![k] = f[k] + y] = [c.counter EXCEPT ![k] = c.counter[k] + (x + y)]
  BY <1>1, <1>2, <1>3
<1> QED BY <1>2, <1>4 DEF Plus

\* Only the counters of the timers chained after k matter to a carry from k.
LEMMA RollsElse ==
  ASSUME NEW c, NEW d, NEW k \in TimerIds, NEW u \in TimerIds,
         \A w \in TimerIds : k < w /\ w <= u => c[w] = d[w]
  PROVE  Rolls(cnt, c, k, u) <=> Rolls(cnt, d, k, u)
<1>1. \A w \in k + 1 .. u : w \in TimerIds /\ k < w /\ w <= u
  BY TimersAssumption DEF TimerIds, TimersAssumption
<1> QED BY <1>1 DEF Rolls

\* HandleTimerOverflow does what Overflowed says.
LEMMA HandleIs ==
  ASSUME Registers, NEW c \in Bank, NEW k \in TimerIds
  PROVE  /\ HandleTimerOverflow(c, k) = Overflowed(c, k)
         /\ Overflowed(c, k) \in Bank
         /\ Overflowed(c, k).counter[k] = c.counter[k] + reload[k] * Unit
<1>0. /\ c.counter \in [TimerIds -> Nat] /\ c.raised \in SUBSET TimerIds
      /\ c = [counter |-> c.counter, raised |-> c.raised]
  BY DEF Bank
<1>1. /\ \A u \in TimerIds : reload[u] * Unit \in Nat
      /\ Unit \in Nat /\ N \in Nat \ {0} /\ TimerIds = 0 .. N - 1
  BY Limits DEF Registers, TimerIds
<1>2. PICK d : d = Raise([c EXCEPT !.counter[k] = @ + reload[k] * Unit], k)
  OBVIOUS
<1>3. PICK R : R = IF cnt[k].irq THEN c.raised \cup {k} ELSE c.raised
  OBVIOUS
<1>4. d = [counter |-> [c.counter EXCEPT ![k] = c.counter[k] + reload[k] * Unit], raised |-> R]
  <2>1. PICK z : z = [c EXCEPT !.counter[k] = @ + reload[k] * Unit]
    OBVIOUS
  <2>2. z = [counter |-> [c.counter EXCEPT ![k] = c.counter[k] + reload[k] * Unit], raised |-> c.raised]
    BY <1>0, <2>1
  <2>3. CASE cnt[k].irq
    <3>1. d = [z EXCEPT !.raised = @ \cup {k}] /\ R = c.raised \cup {k}
      BY <1>2, <1>3, <2>1, <2>3 DEF Raise
    <3> QED BY <2>2, <3>1
  <2>4. CASE ~cnt[k].irq
    <3>1. d = z /\ R = c.raised
      BY <1>2, <1>3, <2>1, <2>4 DEF Raise
    <3> QED BY <2>2, <3>1
  <2> QED BY <2>3, <2>4
<1>5. d \in Bank
  <2>1. c.counter[k] + reload[k] * Unit \in Nat
    BY <1>0, <1>1
  <2>2. R \in SUBSET TimerIds
    BY <1>0, <1>3
  <2> QED BY <1>0, <1>4, <2>1, <2>2 DEF Bank
<1>6. HandleTimerOverflow(c, k) = Carried(d, k, N - 1)
  BY <1>2, <1>5, CarryIs DEF HandleTimerOverflow, Registers
<1>7. \A u \in TimerIds : /\ d.counter[u] = IF u = k THEN c.counter[k] + reload[k] * Unit ELSE c.counter[u]
                          /\ (k < u /\ u <= N - 1) <=> ~(u = k) /\ ~(u < k)
  BY <1>0, <1>1, <1>4
<1>8. ASSUME NEW u \in TimerIds, k <= u
      PROVE  /\ Rolls(cnt, d.counter, k, u) <=> Rolls(cnt, c.counter, k, u)
             /\ k < u => (Rolls(cnt, d.counter, k, u - 1) <=> Rolls(cnt, c.counter, k, u - 1))
  <2>1. \A w \in TimerIds : k < w => d.counter[w] = c.counter[w]
    BY <1>1, <1>7
  <2>2. k < u => u - 1 \in TimerIds
    BY <1>1
  <2> QED BY <2>1, <2>2, RollsElse
<1>9. Rolls(cnt, c.counter, k, k)
  BY <1>1 DEF Rolls
<1>10. Carried(d, k, N - 1).counter = Overflowed(c, k).counter
  BY <1>1, <1>7, <1>8 DEF Carried, Overflowed
<1>11. Carried(d, k, N - 1).raised = Overflowed(c, k).raised
  <2>1. Carried(d, k, N - 1).raised = R \cup {u \in TimerIds : /\ k < u /\ u <= N - 1 /\ cnt[u].irq
                                                              /\ Rolls(cnt, d.counter, k, u)}
    BY <1>4 DEF Carried
  <2>2. \A u \in TimerIds : (k <= u <=> u = k \/ (k < u /\ u <= N - 1))
    BY <1>1
  <2>3. Overflowed(c, k).raised = c.raised \cup {u \in TimerIds : /\ k <= u /\ cnt[u].irq
                                                                 /\ Rolls(cnt, c.counter, k, u)}
    BY DEF Overflowed
  <2> QED BY <1>3, <1>8, <1>9, <2>1, <2>2, <2>3
<1>12. Carried(d, k, N - 1) = Overflowed(c, k)
  <2>1. Carried(d, k, N - 1) = [counter |-> Carried(d, k, N - 1).counter, raised |-> Carried(d, k, N - 1).raised]
    BY DEF Carried
  <2>2. Overflowed(c, k) = [counter |-> Overflowed(c, k).counter, raised |-> Overflowed(c, k).raised]
    BY DEF Overflowed
  <2> QED BY <1>10, <1>11, <2>1, <2>2
<1>13. Overflowed(c, k) \in Bank
  <2>1. Overflowed(c, k).counter \in [TimerIds -> Nat]
    BY <1>0, <1>1 DEF Overflowed
  <2>2. Overflowed(c, k).raised \in SUBSET TimerIds
    BY <1>0 DEF Overflowed
  <2>3. Overflowed(c, k) = [counter |-> Overflowed(c, k).counter, raised |-> Overflowed(c, k).raised]
    BY DEF Overflowed
  <2> QED BY <2>1, <2>2, <2>3 DEF Bank
<1>14. Overflowed(c, k).counter[k] = c.counter[k] + reload[k] * Unit
  BY DEF Overflowed
<1> QED BY <1>6, <1>12, <1>13, <1>14

\* Cycles that are not drained yet do not matter to an overflow.
LEMMA OverflowedPlus ==
  ASSUME Registers, NEW c \in Bank, NEW k \in TimerIds, NEW x \in Int, c.counter[k] + x >= 0
  PROVE  Overflowed(Plus(c, k, x), k) = Plus(Overflowed(c, k), k, x)
<1>1. /\ reload[k] * Unit \in Nat /\ N \in Nat \ {0} /\ TimerIds = 0 .. N - 1
  BY Limits DEF Registers, TimerIds
<1>2. PICK d \in Bank : /\ d = Plus(c, k, x) /\ d.counter[k] = c.counter[k] + x /\ d.raised = c.raised
                        /\ \A u \in TimerIds : u # k => d.counter[u] = c.counter[u]
                        /\ c.counter[k] \in Nat
  BY PlusIs
<1>3. ASSUME NEW u \in TimerIds, k <= u
      PROVE  /\ Rolls(cnt, d.counter, k, u) <=> Rolls(cnt, c.counter, k, u)
             /\ k < u => (Rolls(cnt, d.counter, k, u - 1) <=> Rolls(cnt, c.counter, k, u - 1))
  <2>1. \A w \in TimerIds : k < w => d.counter[w] = c.counter[w]
    BY <1>1, <1>2
  <2>2. k < u => u - 1 \in TimerIds
    BY <1>1
  <2> QED BY <2>1, <2>2, RollsElse
<1>4. d.counter[k] + reload[k] * Unit = (c.counter[k] + reload[k] * Unit) + x
  BY <1>1, <1>2
<1>5. \A u \in TimerIds : u = k \/ u < k \/ (k <= u /\ k < u /\ ~(u < k) /\ u # k)
  BY <1>1
<1>6. Overflowed(d, k).counter = [Overflowed(c, k).counter EXCEPT ![k] = Overflowed(c, k).counter[k] + x]
  BY <1>2, <1>3, <1>4, <1>5 DEF Overflowed
<1>7. Overflowed(d, k).raised = Overflowed(c, k).raised
  BY <1>2, <1>3 DEF Overflowed
<1>8. Overflowed(d, k) = [counter |-> Overflowed(d, k).counter, raised |-> Overflowed(d, k).raised]
  BY DEF Overflowed
<1> QED BY <1>2, <1>6, <1>7, <1>8 DEF Plus

\* What is drained as long as a timer is full.
Drained(c, k) == Overflowed(Plus(c, k, -Full), k)
Drains(D, k) == /\ D \in [Bank -> Bank]
                /\ \A c \in Bank : D[c] = IF c.counter[k] < Full THEN c ELSE D[Drained(c, k)]

\* An overflow lowers the counter and keeps whatever is added beside it.
LEMMA DrainedIs ==
  ASSUME Registers, NEW c \in Bank, NEW k \in TimerIds, c.counter[k] >= Full
  PROVE  /\ Drained(c, k) \in Bank
         /\ Drained(c, k).counter[k] < c.counter[k]
         /\ Drained(c, k).counter[k] = c.counter[k] - Full + reload[k] * Unit
         /\ Drained(c, k) = HandleTimerOverflow([c EXCEPT !.counter[k] = @ - Full], k)
         /\ \A y \in Nat : Plus(c, k, y).counter[k] >= Full
                           /\ Drained(Plus(c, k, y), k) = Plus(Drained(c, k), k, y)
<1>1. /\ Full \in Nat /\ reload[k] * Unit \in Nat /\ reload[k] * Unit < Full
  <2>1. reload[k] \in 0 .. Size - 1
    BY DEF Registers
  <2>2. Full \in Nat /\ reload[k] * Unit \in Nat /\ reload[k] * Unit + Unit <= Full /\ Unit \in Nat \ {0}
    BY <2>1, Limits DEF Registers
  <2> QED BY <2>2
<1>2. PICK x \in Int : x = -Full
  BY <1>1
<1>3. c.counter[k] + x >= 0 /\ c.counter[k] + x = c.counter[k] - Full /\ c.counter[k] \in Nat
  BY <1>1, <1>2 DEF Bank
<1>4. PICK d \in Bank : d = Plus(c, k, x) /\ d.counter[k] = c.counter[k] - Full
  BY <1>3, PlusIs
<1>5. Drained(c, k) = Overflowed(d, k)
  BY <1>2, <1>4, Zenon DEF Drained
<1>6. /\ Overflowed(d, k) \in Bank /\ HandleTimerOverflow(d, k) = Overflowed(d, k)
      /\ Overflowed(d, k).counter[k] = c.counter[k] - Full + reload[k] * Unit
  BY <1>4, HandleIs
<1>7. d = [c EXCEPT !.counter[k] = @ - Full]
  <2>1. c = [counter |-> c.counter, raised |-> c.raised]
    BY DEF Bank
  <2> QED BY <1>3, <1>4, <2>1 DEF Plus
<1>8. ASSUME NEW y \in Nat
      PROVE  Plus(c, k, y).counter[k] >= Full /\ Drained(Plus(c, k, y), k) = Plus(Drained(c, k), k, y)
  <2>1. PICK e \in Bank : e = Plus(c, k, y) /\ e.counter[k] = c.counter[k] + y
    BY <1>3, PlusIs
  <2>2. Plus(e, k, x) = Plus(c, k, x + y)
    <3>1. Plus(e, k, x) = Plus(c, k, y + x) /\ y + x = x + y
      BY <2>1, PlusPlus
    <3> QED BY <3>1
  <2>3. Plus(d, k, y) = Plus(c, k, x + y)
    BY <1>4, PlusPlus
  <2>4. Drained(e, k) = Overflowed(Plus(d, k, y), k)
    BY <1>2, <2>2, <2>3, Zenon DEF Drained
  <2>5. Overflowed(Plus(d, k, y), k) = Plus(Overflowed(d, k), k, y)
    <3>1. d.counter[k] + y >= 0
      BY <1>3, <1>4
    <3> QED BY <3>1, OverflowedPlus
  <2>6. e.counter[k] >= Full
    BY <1>1, <1>3, <2>1
  <2> QED BY <1>5, <2>1, <2>4, <2>5, <2>6
<1>9. c.counter[k] - Full + reload[k] * Unit < c.counter[k]
  BY <1>1, <1>3
<1> QED BY <1>5, <1>6, <1>7, <1>8, <1>9

\* The recursion of RunTimer ends, for an overflow leaves the counter lower.
LEMMA DrainIs ==
  ASSUME Registers, NEW k \in TimerIds
  PROVE  \E D : /\ Drains(D, k)
                /\ \A b \in Bank, n \in Nat : RunTimer(b, k, n) = D[Plus(b, k, n * cnt[k].step)]
<1> DEFINE P(g) == g = [c \in Bank |-> IF c.counter[k] < Full THEN c
                                       ELSE g[HandleTimerOverflow(
                                                 [c EXCEPT !.counter[k] = @ - Full], k)]]
           m == [c \in Bank |-> c.counter[k]]
           next == [c \in Bank |-> IF c.counter[k] < Full THEN c ELSE Drained(c, k)]
<1>1. Full \in Nat /\ m \in [Bank -> Nat]
  BY Limits DEF Registers, Bank
<1>2. ASSUME NEW c \in Bank, ~(c.counter[k] < Full)
      PROVE  /\ Drained(c, k) \in Bank /\ Drained(c, k).counter[k] < c.counter[k]
             /\ Drained(c, k) = HandleTimerOverflow([c EXCEPT !.counter[k] = @ - Full], k)
  <2>1. c.counter[k] >= Full
    BY <1>1, <1>2 DEF Bank
  <2> QED BY <2>1, DrainedIs
<1>3. next \in [Bank -> Bank]
  BY <1>2
<1>4. \A c \in Bank : m[c] >= Full => m[next[c]] < m[c]
  <2> TAKE c \in Bank
  <2>1. HAVE m[c] >= Full
  <2>2. c.counter[k] \in Nat /\ m[c] = c.counter[k]
    BY DEF Bank
  <2>3. ~(c.counter[k] < Full)
    BY <1>1, <2>1, <2>2
  <2>4. next[c] = Drained(c, k) /\ Drained(c, k) \in Bank
    BY <1>2, <2>3
  <2> QED BY <1>2, <2>2, <2>3, <2>4
<1>5. PICK D \in [Bank -> Bank] : \A c \in Bank : D[c] = IF m[c] < Full THEN c ELSE D[next[c]]
  <2> HIDE DEF m, next
  <2>1. Falls(Bank, m, next, Full)
    BY <1>1, <1>3, <1>4 DEF Falls
  <2> QED BY <2>1, Draining
<1>6. Drains(D, k)
  BY <1>5 DEF Drains
<1>7. P(D)
  BY <1>2, <1>6 DEF Drains
<1>8. PICK o : o = CHOOSE g : P(g)
  OBVIOUS
<1>9. P(o)
  <2> HIDE DEF P
  <2> QED BY <1>7, <1>8
<1>10. \A n \in Nat : \A c \in Bank : c.counter[k] <= n => o[c] = D[c]
  <2> DEFINE T == {n \in Nat : \A c \in Bank : c.counter[k] <= n => o[c] = D[c]}
  <2>0. \A c \in Bank : c.counter[k] \in Nat
    BY DEF Bank
  <2>1. \A c \in Bank : c.counter[k] < Full => o[c] = D[c]
    BY <1>7, <1>9
  <2>2. 0 \in T
    <3>1. 0 < Full
      BY Limits DEF Registers
    <3>2. \A c \in Bank : c.counter[k] <= 0 => c.counter[k] < Full
      BY <1>1, <2>0, <3>1
    <3> QED BY <2>1, <3>2
  <2>3. ASSUME NEW n \in Nat, n \in T PROVE n + 1 \in T
    <3> SUFFICES ASSUME NEW c \in Bank, c.counter[k] <= n + 1 PROVE o[c] = D[c]
      OBVIOUS
    <3>1. CASE ~(c.counter[k] < Full)
      <4>1. PICK d \in Bank : /\ d = Drained(c, k) /\ d.counter[k] < c.counter[k]
                              /\ d = HandleTimerOverflow([c EXCEPT !.counter[k] = @ - Full], k)
        BY <1>2, <3>1
      <4>2. d.counter[k] <= n
        BY <2>0, <4>1
      <4>3. o[d] = D[d]
        BY <2>3, <4>2
      <4>4. o[c] = o[d] /\ D[c] = D[d]
        BY <1>7, <1>9, <3>1, <4>1
      <4> QED BY <4>3, <4>4
    <3> QED BY <2>1, <3>1
  <2> HIDE DEF T
  <2>4. Nat \subseteq T
    BY <2>2, <2>3, Numbers
  <2> QED BY <2>4 DEF T
<1>11. \A c \in Bank : o[c] = D[c]
  <2> TAKE c \in Bank
  <2>1. c.counter[k] \in Nat /\ c.counter[k] <= c.counter[k]
    BY DEF Bank
  <2> QED BY <1>10, <2>1
<1>12. ASSUME NEW b \in Bank, NEW n \in Nat PROVE RunTimer(b, k, n) = D[Plus(b, k, n * cnt[k].step)]
  <2>1. RunTimer(b, k, n) = (CHOOSE g : P(g))[[b EXCEPT !.counter[k] = @ + n * cnt[k].step]]
    BY DEF RunTimer
  <2>2. [b EXCEPT !.counter[k] = @ + n * cnt[k].step] = Plus(b, k, n * cnt[k].step)
    <3>1. b = [counter |-> b.counter, raised |-> b.raised]
      BY DEF Bank
    <3> QED BY <3>1 DEF Plus
  <2>3. Plus(b, k, n * cnt[k].step) \in Bank
    <3>1. cnt[k].step \in Nat /\ b.counter[k] \in Nat
      BY DEF Registers, Settings, Bank
    <3>2. n * cnt[k].step \in Nat
      BY <3>1
    <3>3. b.counter[k] + n * cnt[k].step >= 0
      BY <3>1, <3>2
    <3> QED BY <3>2, <3>3, PlusIs
  <2> HIDE DEF P
  <2> QED BY <1>8, <1>11, <2>1, <2>2, <2>3
<1> QED BY <1>6, <1>12

\* Draining in two parts is draining at once.
LEMMA DrainOn ==
  ASSUME Registers, NEW k \in TimerIds, NEW D, Drains(D, k)
  PROVE  \A c \in Bank, y \in Nat : D[Plus(c, k, y)] = D[Plus(D[c], k, y)]
<1> DEFINE T == {n \in Nat : \A c \in Bank, y \in Nat :
                                c.counter[k] <= n => D[Plus(c, k, y)] = D[Plus(D[c], k, y)]}
<1>0. \A c \in Bank : c.counter[k] \in Nat
  BY DEF Bank
<1>1. Full \in Nat \ {0} /\ \A c \in Bank : D[c] = IF c.counter[k] < Full THEN c ELSE D[Drained(c, k)]
  BY Limits DEF Registers, Drains
<1>2. 0 \in T
  <2>1. \A c \in Bank : c.counter[k] <= 0 => c.counter[k] < Full
    BY <1>0, <1>1
  <2> QED BY <1>1, <2>1
<1>3. ASSUME NEW n \in Nat, n \in T PROVE n + 1 \in T
  <2> SUFFICES ASSUME NEW c \in Bank, NEW y \in Nat, c.counter[k] <= n + 1
               PROVE  D[Plus(c, k, y)] = D[Plus(D[c], k, y)]
    OBVIOUS
  <2>1. CASE c.counter[k] < Full
    BY <1>1, <2>1
  <2>2. CASE ~(c.counter[k] < Full)
    <3>1. c.counter[k] >= Full
      BY <1>0, <1>1, <2>2
    <3>2. PICK d \in Bank : /\ d = Drained(c, k) /\ d.counter[k] < c.counter[k]
                            /\ Plus(c, k, y).counter[k] >= Full
                            /\ Drained(Plus(c, k, y), k) = Plus(d, k, y)
      BY <3>1, DrainedIs
    <3>3. d.counter[k] <= n
      BY <1>0, <3>2
    <3>4. D[Plus(d, k, y)] = D[Plus(D[d], k, y)]
      BY <1>3, <3>3
    <3>5. D[c] = D[d]
      BY <1>1, <2>2, <3>2
    <3>6. PICK e \in Bank : e = Plus(c, k, y)
      <4>1. c.counter[k] + y >= 0
        BY <1>0
      <4> QED BY <4>1, PlusIs
    <3>7. ~(e.counter[k] < Full)
      BY <1>0, <1>1, <3>2, <3>6
    <3>8. D[e] = D[Drained(e, k)]
      BY <1>1, <3>7
    <3> QED BY <3>2, <3>4, <3>5, <3>6, <3>8
  <2> QED BY <2>1, <2>2
<1> HIDE DEF T
<1>4. Nat \subseteq T
  BY <1>2, <1>3, Numbers
<1>5. ASSUME NEW c \in Bank, NEW y \in Nat PROVE D[Plus(c, k, y)] = D[Plus(D[c], k, y)]
  <2>1. c.counter[k] \in T /\ c.counter[k] <= c.counter[k]
    BY <1>0, <1>4
  <2> QED BY <2>1 DEF T
<1> QED BY <1>5

\* Banks between two cycles.
Between == {c \in Bank : \A u \in TimerIds : c.counter[u] < Full}

\* A cycle of timer k alone.
Counted(c, k) == IF c.counter[k] + cnt[k].step < Full THEN Plus(c, k, cnt[k].step)
                 ELSE Overflowed(Plus(c, k, cnt[k].step - Full), k)

\* A timer that catches up counts cycle after cycle.
LEMMA Running ==
  ASSUME Registers, NEW k \in TimerIds, NEW b \in Between
  PROVE  /\ RunTimer(b, k, 0) = b
         /\ \A n \in Nat : RunTimer(b, k, n) \in Between
                              => RunTimer(b, k, n + 1) = Counted(RunTimer(b, k, n), k)
<1>1. PICK D : /\ Drains(D, k)
               /\ \A c \in Bank, n \in Nat : RunTimer(c, k, n) = D[Plus(c, k, n * cnt[k].step)]
  BY DrainIs
<1>2. PICK s \in Nat : s = cnt[k].step /\ s <= Unit
  BY Limits DEF Registers, Settings
<1>3. /\ Full \in Nat \ {0} /\ Unit \in Nat
      /\ \A c \in Bank : D[c] = IF c.counter[k] < Full THEN c ELSE D[Drained(c, k)]
      /\ reload[k] * Unit \in Nat /\ reload[k] * Unit + Unit <= Full
  <2>1. reload[k] \in 0 .. Size - 1
    BY DEF Registers
  <2> QED BY <1>1, <2>1, Limits DEF Registers, Drains
<1>4. \A c \in Between : c \in Bank /\ c.counter[k] \in Nat /\ c.counter[k] < Full
  BY DEF Between, Bank
<1>5. RunTimer(b, k, 0) = b
  <2>1. 0 * s = 0
    OBVIOUS
  <2>2. Plus(b, k, 0) = b
    <3>1. b.counter \in [TimerIds -> Nat] /\ b = [counter |-> b.counter, raised |-> b.raised]
      BY <1>4 DEF Bank
    <3>2. b.counter[k] + 0 = b.counter[k]
      BY <3>1
    <3>3. [b.counter EXCEPT ![k] = b.counter[k] + 0] = b.counter
      BY <3>1, <3>2
    <3> QED BY <3>1, <3>3 DEF Plus
  <2>3. RunTimer(b, k, 0) = D[Plus(b, k, 0)]
    BY <1>1, <1>2, <1>4, <2>1
  <2> QED BY <1>3, <1>4, <2>2, <2>3
<1>6. ASSUME NEW n \in Nat, NEW c \in Between, c = RunTimer(b, k, n)
      PROVE  RunTimer(b, k, n + 1) = Counted(c, k)
  <2>1. PICK x \in Nat : x = n * s /\ (n + 1) * s = x + s
    OBVIOUS
  <2>2. b.counter[k] + x >= 0
    BY <1>4
  <2>3. PICK d \in Bank : d = Plus(b, k, x)
    BY <1>4, <2>2, PlusIs
  <2>4. D[d] = c
    BY <1>1, <1>2, <1>4, <1>6, <2>1, <2>3
  <2>5. RunTimer(b, k, n + 1) = D[Plus(b, k, x + s)]
    BY <1>1, <1>2, <1>4, <2>1
  <2>6. Plus(b, k, x + s) = Plus(d, k, s)
    BY <1>4, <2>3, PlusPlus
  <2>7. D[Plus(d, k, s)] = D[Plus(c, k, s)]
    BY <1>1, <2>4, DrainOn
  <2>8. PICK e \in Bank : e = Plus(c, k, s) /\ e.counter[k] = c.counter[k] + s
    <3>1. c.counter[k] + s >= 0
      BY <1>4
    <3> QED BY <1>4, <3>1, PlusIs
  <2>9. RunTimer(b, k, n + 1) = D[e]
    BY <2>5, <2>6, <2>7, <2>8
  <2>10. CASE c.counter[k] + s < Full
    BY <1>2, <1>3, <2>8, <2>9, <2>10 DEF Counted
  <2>11. CASE ~(c.counter[k] + s < Full)
    <3>1. e.counter[k] >= Full /\ ~(e.counter[k] < Full)
      BY <1>3, <1>4, <2>8, <2>11
    <3>2. PICK g \in Bank : /\ g = Drained(e, k)
                            /\ g.counter[k] = e.counter[k] - Full + reload[k] * Unit
      BY <3>1, DrainedIs
    <3>3. g.counter[k] < Full
      BY <1>2, <1>3, <1>4, <2>8, <3>2
    <3>4. D[e] = g
      BY <1>3, <3>1, <3>2, <3>3
    <3>5. Plus(e, k, -Full) = Plus(c, k, s - Full)
      <4>1. PICK y \in Int : y = -Full
        BY <1>3
      <4>2. Plus(e, k, y) = Plus(c, k, s + y)
        BY <1>4, <2>8, PlusPlus
      <4>3. s + y = s - Full
        BY <1>3, <4>1
      <4> QED BY <4>1, <4>2, <4>3
    <3>6. g = Overflowed(Plus(c, k, s - Full), k)
      BY <3>2, <3>5, Zenon DEF Drained
    <3> QED BY <1>2, <2>9, <2>11, <3>4, <3>6 DEF Counted
  <2> QED BY <2>10, <2>11
<1> QED BY <1>5, <1>6

-----------------------------------------------------------------------------
(* A cycle of the whole bank. *)

TickOf(cn, rl, b) ==
    [counter |-> [t \in TimerIds |->
                    IF CountsIn(cn, t)
                    THEN b.counter[t] + cn[t].step
                           - (IF Over(cn, b.counter, t) THEN Full - rl[t] * Unit ELSE 0)
                    ELSE IF Over(cn, b.counter, t) THEN rl[t] * Unit
                    ELSE IF ChainedIn(cn, t) /\ t > 0 /\ Over(cn, b.counter, t - 1)
                         THEN b.counter[t] + Unit ELSE b.counter[t]],
     raised  |-> b.raised \cup {t \in TimerIds : Over(cn, b.counter, t) /\ cn[t].irq}]

\* The recursion of Tick says which timers overflow in the cycle.
LEMMA TickIs ==
  ASSUME Registers, NEW b
  PROVE  Tick(b) = TickOf(cnt, reload, b)
<1> DEFINE Passed(g, t) == \/ Counts(t) /\ b.counter[t] + cnt[t].step >= Full
                           \/ Chained(t) /\ t > 0 /\ g[t - 1] /\ b.counter[t] + Unit >= Full
           P(g) == g = [t \in TimerIds |-> Passed(g, t)]
           next(g, t) ==
              IF Counts(t)
              THEN b.counter[t] + cnt[t].step - (IF g[t] THEN Full - reload[t] * Unit ELSE 0)
              ELSE IF g[t] THEN reload[t] * Unit
              ELSE IF Chained(t) /\ t > 0 /\ g[t - 1] THEN b.counter[t] + Unit
              ELSE b.counter[t]
<1>0. /\ \A t \in TimerIds : (Counts(t) <=> CountsIn(cnt, t)) /\ (Chained(t) <=> ChainedIn(cnt, t))
      /\ N \in Nat \ {0} /\ TimerIds = 0 .. N - 1
  BY Limits DEF Registers, Counts, Chained, CountsIn, ChainedIn, TimerIds
<1>1. PICK w : w = [t \in TimerIds |-> IF Over(cnt, b.counter, t) THEN TRUE ELSE FALSE]
  OBVIOUS
<1>2. \A t \in TimerIds : t > 0 => t - 1 \in TimerIds
  BY <1>0
<1>3. ASSUME NEW t \in TimerIds PROVE Over(cnt, b.counter, t) <=> Passed(w, t)
  <2>1. t \in Nat
    BY <1>0
  <2>2. Over(cnt, b.counter, t) <=> \/ CountsIn(cnt, t) /\ b.counter[t] + cnt[t].step >= Full
                                    \/ /\ ChainedIn(cnt, t) /\ t > 0
                                       /\ Over(cnt, b.counter, t - 1) /\ b.counter[t] + Unit >= Full
    BY <2>1, OverOn
  <2>3. t > 0 => (w[t - 1] <=> Over(cnt, b.counter, t - 1))
    BY <1>1, <1>2
  <2> QED BY <1>0, <2>2, <2>3
<1>4. P(w)
  <2>1. ASSUME NEW t \in TimerIds PROVE w[t] = Passed(w, t)
    <3>1. w[t] \in BOOLEAN
      BY <1>1
    <3>2. Passed(w, t) \in BOOLEAN
      OBVIOUS
    <3>3. w[t] <=> Passed(w, t)
      <4> HIDE DEF Passed
      <4> QED BY <1>1, <1>3
    <3> HIDE DEF Passed
    <3> QED BY <3>1, <3>2, <3>3
  <2> HIDE DEF Passed
  <2> QED BY <1>1, <2>1
<1>5. PICK o : o = CHOOSE g : P(g)
  OBVIOUS
<1>6. P(o)
  <2> HIDE DEF P
  <2> QED BY <1>4, <1>5
<1>7. \A t \in TimerIds : o[t] <=> Over(cnt, b.counter, t)
  <2> DEFINE T == {n \in Nat : n \in TimerIds => (o[n] <=> Over(cnt, b.counter, n))}
  <2>1. ASSUME NEW t \in TimerIds PROVE o[t] <=> Passed(o, t)
    <3> HIDE DEF Passed
    <3> QED BY <1>6
  <2>2. 0 \in T
    <3>1. 0 \in TimerIds /\ ~(0 > 0)
      BY <1>0
    <3>2. Passed(o, 0) <=> Passed(w, 0)
      BY <3>1
    <3> HIDE DEF Passed
    <3> QED BY <1>3, <2>1, <3>1, <3>2
  <2>3. ASSUME NEW n \in Nat, n \in T PROVE n + 1 \in T
    <3> SUFFICES ASSUME n + 1 \in TimerIds PROVE o[n + 1] <=> Over(cnt, b.counter, n + 1)
      OBVIOUS
    <3>1. n \in TimerIds /\ (n + 1) - 1 = n
      BY <1>0
    <3>2. o[n] <=> w[n]
      BY <1>1, <2>3, <3>1
    <3>3. Passed(o, n + 1) <=> Passed(w, n + 1)
      BY <3>1, <3>2
    <3> HIDE DEF Passed
    <3> QED BY <1>3, <2>1, <3>3
  <2> HIDE DEF T
  <2>4. Nat \subseteq T
    BY <2>2, <2>3, Numbers
  <2>5. \A t \in TimerIds : t \in T
    BY <1>0, <2>4
  <2> QED BY <2>5 DEF T
<1>8. Tick(b) = [counter |-> [t \in TimerIds |-> next((CHOOSE g : P(g)), t)],
                 raised  |-> b.raised \cup {t \in TimerIds : (CHOOSE g : P(g))[t] /\ cnt[t].irq}]
  BY DEF Tick
<1>9. Tick(b) = [counter |-> [t \in TimerIds |-> next(o, t)],
                 raised  |-> b.raised \cup {t \in TimerIds : o[t] /\ cnt[t].irq}]
  <2> HIDE DEF P, next
  <2> QED BY <1>5, <1>8
<1>10. \A t \in TimerIds : next(o, t) =
                    IF CountsIn(cnt, t)
                    THEN b.counter[t] + cnt[t].step
                           - (IF Over(cnt, b.counter, t) THEN Full - reload[t] * Unit ELSE 0)
                    ELSE IF Over(cnt, b.counter, t) THEN reload[t] * Unit
                    ELSE IF ChainedIn(cnt, t) /\ t > 0 /\ Over(cnt, b.counter, t - 1)
                         THEN b.counter[t] + Unit ELSE b.counter[t]
  BY <1>0, <1>2, <1>7
<1> HIDE DEF P, Passed, next
<1>11. [t \in TimerIds |-> next(o, t)] = TickOf(cnt, reload, b).counter
  BY <1>10 DEF TickOf
<1>12. b.raised \cup {t \in TimerIds : o[t] /\ cnt[t].irq} = TickOf(cnt, reload, b).raised
  BY <1>7 DEF TickOf
<1>13. TickOf(cnt, reload, b) = [counter |-> TickOf(cnt, reload, b).counter,
                                 raised |-> TickOf(cnt, reload, b).raised]
  BY DEF TickOf
<1> QED BY <1>9, <1>11, <1>12, <1>13

Kinds == [TimerIds -> Settings]
Values == [TimerIds -> 0 .. Size - 1]

\* The counters stay below their limit.
LEMMA TickBetween ==
  ASSUME TimersAssumption, NEW cn \in Kinds, NEW rl \in Values, NEW b \in Between
  PROVE  TickOf(cn, rl, b) \in Between
<1>1. /\ Full \in Nat \ {0} /\ Unit \in Nat \ {0} /\ N \in Nat \ {0} /\ TimerIds = 0 .. N - 1
      /\ \A t \in TimerIds : rl[t] * Unit \in Nat /\ rl[t] * Unit + Unit <= Full
      /\ \A t \in TimerIds : cn[t].step \in Nat /\ cn[t].step <= Unit
      /\ \A t \in TimerIds : b.counter[t] \in Nat /\ b.counter[t] < Full
  <2>1. \A t \in TimerIds : rl[t] \in 0 .. Size - 1 /\ cn[t] \in Settings
    BY DEF Kinds, Values
  <2>2. Full \in Nat \ {0} /\ Unit \in Nat \ {0} /\ N \in Nat \ {0} /\ TimerIds = 0 .. N - 1
    BY Limits DEF TimerIds
  <2>3. \A t \in TimerIds : rl[t] * Unit \in Nat /\ rl[t] * Unit + Unit <= Full
    BY <2>1, Limits
  <2>4. \A t \in TimerIds : cn[t].step \in Nat /\ cn[t].step <= Unit
    BY <2>1, <2>2 DEF Settings
  <2>5. \A t \in TimerIds : b.counter[t] \in Nat /\ b.counter[t] < Full
    BY DEF Between, Bank
  <2> QED BY <2>2, <2>3, <2>4, <2>5
<1>2. ASSUME NEW t \in TimerIds
      PROVE TickOf(cn, rl, b).counter[t] \in Nat /\ TickOf(cn, rl, b).counter[t] < Full
  <2>1. PICK c \in Nat, r \in Nat, s \in Nat :
            /\ c = b.counter[t] /\ r = rl[t] * Unit /\ s = cn[t].step
            /\ c < Full /\ r + Unit <= Full /\ s <= Unit
    BY <1>1
  <2>2. TickOf(cn, rl, b).counter[t] =
            IF CountsIn(cn, t) THEN c + s - (IF Over(cn, b.counter, t) THEN Full - r ELSE 0)
            ELSE IF Over(cn, b.counter, t) THEN r
            ELSE IF ChainedIn(cn, t) /\ t > 0 /\ Over(cn, b.counter, t - 1) THEN c + Unit ELSE c
    BY <2>1 DEF TickOf
  <2>3. Over(cn, b.counter, t) <=> \/ CountsIn(cn, t) /\ c + s >= Full
                                   \/ /\ ChainedIn(cn, t) /\ t > 0
                                      /\ Over(cn, b.counter, t - 1) /\ c + Unit >= Full
    <3>1. t \in Nat
      BY <1>1
    <3> QED BY <2>1, <3>1, OverOn
  <2>4. ~(CountsIn(cn, t) /\ ChainedIn(cn, t))
    BY DEF CountsIn, ChainedIn
  <2>5. PICK v : v = TickOf(cn, rl, b).counter[t]
    OBVIOUS
  <2>6. Full \in Nat \ {0} /\ Unit \in Nat \ {0}
    BY <1>1
  <2>7. CASE CountsIn(cn, t) /\ Over(cn, b.counter, t)
    <3>1. v = c + s - (Full - r) /\ c + s >= Full
      BY <2>2, <2>3, <2>4, <2>5, <2>7
    <3>2. v \in Nat /\ v < Full
      BY <2>1, <2>6, <3>1
    <3> QED BY <2>5, <3>2
  <2>8. CASE CountsIn(cn, t) /\ ~Over(cn, b.counter, t)
    <3>1. v = c + s - 0 /\ ~(c + s >= Full)
      BY <2>2, <2>3, <2>5, <2>8
    <3>2. v \in Nat /\ v < Full
      BY <2>1, <2>6, <3>1
    <3> QED BY <2>5, <3>2
  <2>9. CASE ~CountsIn(cn, t) /\ Over(cn, b.counter, t)
    <3>1. v = r
      BY <2>2, <2>5, <2>9
    <3>2. v \in Nat /\ v < Full
      BY <2>1, <2>6, <3>1
    <3> QED BY <2>5, <3>2
  <2>10. CASE ~CountsIn(cn, t) /\ ~Over(cn, b.counter, t)
    <3>1. v = c \/ (v = c + Unit /\ ~(c + Unit >= Full))
      BY <2>2, <2>3, <2>5, <2>10
    <3>2. v \in Nat /\ v < Full
      BY <2>1, <2>6, <3>1
    <3> QED BY <2>5, <3>2
  <2> QED BY <2>7, <2>8, <2>9, <2>10
<1>3. TickOf(cn, rl, b).counter \in [TimerIds -> Nat]
  <2>1. TickOf(cn, rl, b).counter = [t \in TimerIds |-> TickOf(cn, rl, b).counter[t]]
    BY DEF TickOf
  <2> QED BY <1>2, <2>1
<1>4. TickOf(cn, rl, b).raised \in SUBSET TimerIds
  BY DEF TickOf, Between, Bank
<1>5. TickOf(cn, rl, b) = [counter |-> TickOf(cn, rl, b).counter, raised |-> TickOf(cn, rl, b).raised]
  BY DEF TickOf
<1> QED BY <1>2, <1>3, <1>4, <1>5 DEF Between, Bank

-----------------------------------------------------------------------------
(* One timer after the other, or all of them cycle by cycle. *)

\* A timer and those chained to it.
Seg(k) == {t \in TimerIds : k <= t /\ \A u \in k + 1 .. t : ChainedIn(cnt, u)}
\* A bank with the timers of D from another one.
Mix(b, c, D) == [counter |-> [t \in TimerIds |-> IF t \in D THEN c.counter[t] ELSE b.counter[t]],
                 raised  |-> (b.raised \ D) \cup (c.raised \cap D)]

\* A bank made up of two.
LEMMA MixIs ==
  ASSUME NEW b \in Between, NEW c \in Between, NEW D
  PROVE  /\ Mix(b, c, D) \in Between
         /\ \A t \in TimerIds : Mix(b, c, D).counter[t] = IF t \in D THEN c.counter[t] ELSE b.counter[t]
         /\ Mix(b, c, D).raised = (b.raised \ D) \cup (c.raised \cap D)
<1>1. b.counter \in [TimerIds -> Nat] /\ c.counter \in [TimerIds -> Nat]
      /\ b.raised \in SUBSET TimerIds /\ c.raised \in SUBSET TimerIds
  BY DEF Between, Bank
<1>2. Mix(b, c, D) \in Bank
  BY <1>1 DEF Mix, Bank
<1> QED BY <1>2 DEF Mix, Between

\* Banks are the same when their timers are.
LEMMA SameBank ==
  ASSUME NEW r \in Bank, NEW e \in Bank,
         r.raised = e.raised, \A t \in TimerIds : r.counter[t] = e.counter[t]
  PROVE  r = e
<1>1. r.counter = [t \in TimerIds |-> r.counter[t]] /\ e.counter = [t \in TimerIds |-> e.counter[t]]
  BY DEF Bank
<1>2. r.counter = e.counter
  BY <1>1
<1>3. r = [counter |-> r.counter, raised |-> r.raised] /\ e = [counter |-> e.counter, raised |-> e.raised]
  BY DEF Bank
<1> QED BY <1>2, <1>3

\* Overflows in a segment are those of its first timer.
LEMMA Segment ==
  ASSUME Registers, NEW k \in TimerIds, CountsIn(cnt, k)
  PROVE  /\ k \in Seg(k) /\ Seg(k) \subseteq TimerIds
         /\ \A t \in Seg(k) : t # k => /\ k < t /\ ChainedIn(cnt, t) /\ ~CountsIn(cnt, t)
                                       /\ t > 0 /\ t - 1 \in Seg(k)
         /\ \A t \in Seg(k) : \A c : /\ Rolls(cnt, c, k, k)
                                     /\ Over(cnt, c, t) <=> c[k] + cnt[k].step >= Full /\ Rolls(cnt, c, k, t)
         /\ \A t \in TimerIds : \A c : k < t /\ t \notin Seg(k) => /\ ~Rolls(cnt, c, k, t)
                                                                   /\ ~(Rolls(cnt, c, k, t - 1) /\ ChainedIn(cnt, t))
<1>1. N \in Nat \ {0} /\ TimerIds = 0 .. N - 1
  BY Limits DEF Registers, TimerIds
<1>2. \A u : ~(CountsIn(cnt, u) /\ ChainedIn(cnt, u))
  BY DEF CountsIn, ChainedIn
<1>3. k \in Seg(k) /\ Seg(k) \subseteq TimerIds
  BY <1>1 DEF Seg
<1>4. ASSUME NEW t \in Seg(k), t # k
      PROVE  k < t /\ ChainedIn(cnt, t) /\ ~CountsIn(cnt, t) /\ t > 0 /\ t - 1 \in Seg(k)
  <2>1. t \in TimerIds /\ k <= t /\ \A u \in k + 1 .. t : ChainedIn(cnt, u)
    BY DEF Seg
  <2>2. k < t /\ t > 0 /\ t \in k + 1 .. t /\ t - 1 \in TimerIds /\ k <= t - 1
    BY <1>1, <1>4, <2>1
  <2>3. \A u \in k + 1 .. t - 1 : u \in k + 1 .. t
    BY <1>1, <2>1
  <2>4. ChainedIn(cnt, t)
    BY <2>1, <2>2
  <2>5. t - 1 \in Seg(k)
    BY <2>1, <2>2, <2>3 DEF Seg
  <2> QED BY <1>2, <2>2, <2>4, <2>5
<1>5. ASSUME NEW t \in Seg(k), NEW c
      PROVE  /\ Rolls(cnt, c, k, k)
             /\ Over(cnt, c, t) <=> c[k] + cnt[k].step >= Full /\ Rolls(cnt, c, k, t)
  <2>1. t \in TimerIds /\ k <= t /\ \A u \in k + 1 .. t : ChainedIn(cnt, u)
    BY DEF Seg
  <2>2. Rolls(cnt, c, k, k)
    BY <1>1 DEF Rolls
  <2>3. k \in 0 .. t
    BY <1>1, <2>1
  <2>4. ASSUME NEW j \in 0 .. t, CountsIn(cnt, j), Rolls(cnt, c, j, t) PROVE j = k
    <3>1. CASE j < k
      <4>1. k \in j + 1 .. t
        BY <1>1, <2>1, <3>1
      <4>2. ChainedIn(cnt, k)
        BY <2>4, <4>1 DEF Rolls
      <4> QED BY <1>2, <4>2
    <3>2. CASE k < j
      <4>1. j \in k + 1 .. t
        BY <1>1, <2>1, <3>2
      <4> QED BY <1>2, <2>1, <2>4, <4>1
    <3> QED BY <1>1, <3>1, <3>2
  <2>5. Over(cnt, c, t) => c[k] + cnt[k].step >= Full /\ Rolls(cnt, c, k, t)
    BY <2>4 DEF Over
  <2>6. c[k] + cnt[k].step >= Full /\ Rolls(cnt, c, k, t) => Over(cnt, c, t)
    BY <2>3 DEF Over
  <2> QED BY <2>2, <2>5, <2>6
<1>6. ASSUME NEW t \in TimerIds, NEW c, k < t, t \notin Seg(k)
      PROVE  ~Rolls(cnt, c, k, t) /\ ~(Rolls(cnt, c, k, t - 1) /\ ChainedIn(cnt, t))
  <2>1. k <= t
    BY <1>1, <1>6
  <2>2. PICK u \in k + 1 .. t : ~ChainedIn(cnt, u)
    BY <1>6, <2>1 DEF Seg
  <2>3. u = t \/ u \in k + 1 .. t - 1
    BY <1>1, <2>2
  <2> QED BY <2>2, <2>3 DEF Rolls
<1> QED BY <1>3, <1>4, <1>5, <1>6

\* A cycle of timer k is its segment's part of a cycle of the bank.
LEMMA CycleOf ==
  ASSUME Registers, NEW k \in TimerIds, CountsIn(cnt, k), NEW b \in Between, NEW c \in Between
  PROVE  Counted(Mix(b, c, Seg(k)), k) = Mix(b, TickOf(cnt, reload, c), Seg(k))
<1>1. /\ Full \in Nat \ {0} /\ Unit \in Nat \ {0} /\ N \in Nat \ {0} /\ TimerIds = 0 .. N - 1
      /\ reload[k] * Unit \in Nat
  <2>1. reload[k] \in 0 .. Size - 1
    BY DEF Registers
  <2> QED BY <2>1, Limits DEF Registers, TimerIds
<1>2. PICK S : S = Seg(k)
  OBVIOUS
<1>3. /\ k \in S /\ S \subseteq TimerIds
      /\ \A t \in S : t # k => /\ k < t /\ ChainedIn(cnt, t) /\ ~CountsIn(cnt, t)
                               /\ t > 0 /\ t - 1 \in S
      /\ \A t \in S : \A x : /\ Rolls(cnt, x, k, k)
                             /\ Over(cnt, x, t) <=> x[k] + cnt[k].step >= Full /\ Rolls(cnt, x, k, t)
      /\ \A t \in TimerIds : \A x : k < t /\ t \notin S => /\ ~Rolls(cnt, x, k, t)
                                                           /\ ~(Rolls(cnt, x, k, t - 1) /\ ChainedIn(cnt, t))
  BY <1>2, Segment
<1>4. PICK m \in Between : /\ m = Mix(b, c, S)
                           /\ \A t \in TimerIds : m.counter[t] = IF t \in S THEN c.counter[t] ELSE b.counter[t]
                           /\ m.raised = (b.raised \ S) \cup (c.raised \cap S)
  BY MixIs
<1>5. PICK d \in Between : d = TickOf(cnt, reload, c)
  BY TickBetween DEF Registers, Kinds, Values
<1>6. PICK e \in Between : /\ e = Mix(b, d, S)
                           /\ \A t \in TimerIds : e.counter[t] = IF t \in S THEN d.counter[t] ELSE b.counter[t]
                           /\ e.raised = (b.raised \ S) \cup (d.raised \cap S)
  BY MixIs
<1>7. PICK s \in Nat : s = cnt[k].step
  BY <1>1 DEF Registers, Settings
<1>8. m \in Bank /\ m.counter[k] = c.counter[k] /\ c.counter[k] \in Nat /\ c.counter[k] < Full
  BY <1>3, <1>4 DEF Between, Bank
<1>9. /\ \A t \in TimerIds : d.counter[t] =
                    IF CountsIn(cnt, t)
                    THEN c.counter[t] + cnt[t].step
                           - (IF Over(cnt, c.counter, t) THEN Full - reload[t] * Unit ELSE 0)
                    ELSE IF Over(cnt, c.counter, t) THEN reload[t] * Unit
                    ELSE IF ChainedIn(cnt, t) /\ t > 0 /\ Over(cnt, c.counter, t - 1)
                         THEN c.counter[t] + Unit ELSE c.counter[t]
      /\ d.raised = c.raised \cup {t \in TimerIds : Over(cnt, c.counter, t) /\ cnt[t].irq}
  BY <1>5 DEF TickOf
<1>10. ASSUME NEW r \in Bank, r.raised = e.raised, \A t \in TimerIds : r.counter[t] = e.counter[t]
       PROVE  r = e
  <2>1. e \in Bank
    BY DEF Between
  <2> QED BY <1>10, <2>1, SameBank
<1>11. CASE c.counter[k] + s < Full
  <2>1. ~(c.counter[k] + s >= Full)
    BY <1>1, <1>7, <1>8, <1>11
  <2>2. \A t \in S : ~Over(cnt, c.counter, t)
    BY <1>3, <1>7, <2>1
  <2>3. PICK r \in Bank : /\ r = Plus(m, k, s) /\ r.counter[k] = c.counter[k] + s
                          /\ r.raised = m.raised
                          /\ \A u \in TimerIds : u # k => r.counter[u] = m.counter[u]
    <3>1. m.counter[k] + s >= 0
      BY <1>7, <1>8
    <3> QED BY <1>7, <1>8, <3>1, PlusIs
  <2>4. Counted(m, k) = r
    BY <1>7, <1>8, <1>11, <2>3 DEF Counted
  <2>5. ASSUME NEW t \in TimerIds PROVE r.counter[t] = e.counter[t]
    <3>1. CASE t = k
      <4>1. e.counter[t] = c.counter[k] + s - 0
        BY <1>3, <1>6, <1>7, <1>9, <2>2, <3>1
      <4> QED BY <1>7, <1>8, <2>3, <3>1, <4>1
    <3>2. CASE t \in S /\ t # k
      <4>1. e.counter[t] = c.counter[t]
        BY <1>3, <1>6, <1>9, <2>2, <3>2
      <4> QED BY <1>4, <2>3, <3>2, <4>1
    <3>3. CASE t \notin S
      BY <1>3, <1>4, <1>6, <2>3, <3>3
    <3> QED BY <3>1, <3>2, <3>3
  <2>6. r.raised = e.raised
    BY <1>4, <1>6, <1>9, <2>2, <2>3
  <2> QED BY <1>2, <1>4, <1>5, <1>6, <1>10, <2>4, <2>5, <2>6
<1>12. CASE ~(c.counter[k] + s < Full)
  <2>1. c.counter[k] + s >= Full
    BY <1>1, <1>7, <1>8, <1>12
  <2>2. \A t \in S : Over(cnt, c.counter, t) <=> Rolls(cnt, c.counter, k, t)
    BY <1>3, <1>7, <2>1
  <2>3. PICK p \in Bank : /\ p = Plus(m, k, s - Full) /\ p.counter[k] = c.counter[k] + (s - Full)
                          /\ p.raised = m.raised
                          /\ \A u \in TimerIds : u # k => p.counter[u] = m.counter[u]
    <3>1. m.counter[k] + (s - Full) >= 0 /\ s - Full \in Int
      BY <1>1, <1>7, <1>8, <2>1
    <3> QED BY <1>8, <3>1, PlusIs
  <2>4. PICK r \in Bank : r = Overflowed(p, k)
    BY HandleIs
  <2>5. Counted(m, k) = r
    BY <1>7, <1>8, <1>12, <2>3, <2>4 DEF Counted
  <2>6. ASSUME NEW t \in S
        PROVE  Rolls(cnt, p.counter, k, t) <=> Rolls(cnt, c.counter, k, t)
    <3>1. \A w \in TimerIds : k < w /\ w <= t => w \in S
      <4> TAKE w \in TimerIds
      <4>1. HAVE k < w /\ w <= t
      <4>2. \A u \in k + 1 .. w : u \in k + 1 .. t
        BY <1>1, <1>3, <4>1
      <4>3. \A u \in k + 1 .. t : ChainedIn(cnt, u)
        BY <1>2 DEF Seg
      <4>4. k <= w
        BY <1>1, <4>1
      <4> QED BY <1>2, <4>2, <4>3, <4>4 DEF Seg
    <3>2. \A w \in TimerIds : k < w /\ w <= t => p.counter[w] = c.counter[w]
      <4> TAKE w \in TimerIds
      <4>1. HAVE k < w /\ w <= t
      <4>2. w # k
        BY <1>1, <4>1
      <4> QED BY <1>4, <2>3, <3>1, <4>1, <4>2
    <3> QED BY <1>3, <3>2, RollsElse
  <2>7. ASSUME NEW t \in TimerIds PROVE r.counter[t] = e.counter[t]
    <3>1. CASE t = k
      <4>1. e.counter[t] = c.counter[k] + s - (Full - reload[k] * Unit)
        BY <1>3, <1>6, <1>7, <1>9, <2>2, <3>1
      <4>2. r.counter[t] = (c.counter[k] + (s - Full)) + reload[k] * Unit
        BY <2>3, <2>4, <3>1 DEF Overflowed
      <4> QED BY SMTT(30), <1>1, <1>7, <1>8, <4>1, <4>2
    <3>2. CASE t \in S /\ t # k
      <4>1. /\ k < t /\ ChainedIn(cnt, t) /\ ~CountsIn(cnt, t) /\ t > 0 /\ t - 1 \in S /\ ~(t < k)
        BY <1>1, <1>3, <3>2
      <4>2. e.counter[t] = IF Rolls(cnt, c.counter, k, t) THEN reload[t] * Unit
                           ELSE IF Rolls(cnt, c.counter, k, t - 1) THEN c.counter[t] + Unit
                           ELSE c.counter[t]
        BY <1>6, <1>9, <2>2, <3>2, <4>1
      <4>3. p.counter[t] = c.counter[t]
        BY <1>4, <2>3, <3>2
      <4>4. r.counter[t] = IF Rolls(cnt, p.counter, k, t) THEN reload[t] * Unit
                           ELSE IF Rolls(cnt, p.counter, k, t - 1) THEN p.counter[t] + Unit
                           ELSE p.counter[t]
        BY <2>4, <3>2, <4>1 DEF Overflowed
      <4> QED BY <2>6, <3>2, <4>1, <4>2, <4>3, <4>4
    <3>3. CASE t \notin S
      <4>1. t # k /\ p.counter[t] = b.counter[t] /\ e.counter[t] = b.counter[t]
        BY <1>3, <1>4, <1>6, <2>3, <3>3
      <4>2. t < k \/ k < t
        BY <1>1, <4>1
      <4>3. r.counter[t] = p.counter[t]
        BY <1>3, <2>4, <3>3, <4>1, <4>2 DEF Overflowed
      <4> QED BY <4>1, <4>3
    <3> QED BY <3>1, <3>2, <3>3
  <2>8. r.raised = e.raised
    <3>1. r.raised = m.raised \cup {u \in TimerIds : k <= u /\ cnt[u].irq /\ Rolls(cnt, p.counter, k, u)}
      BY <2>3, <2>4 DEF Overflowed
    <3>2. {u \in TimerIds : k <= u /\ cnt[u].irq /\ Rolls(cnt, p.counter, k, u)}
            = {u \in S : cnt[u].irq /\ Over(cnt, c.counter, u)}
      <4>1. ASSUME NEW u \in TimerIds, k <= u, Rolls(cnt, p.counter, k, u) PROVE u \in S
        <5>1. u = k \/ k < u
          BY <1>1, <4>1
        <5> QED BY <1>3, <4>1, <5>1
      <4>2. \A u \in S : k <= u /\ u \in TimerIds
        BY <1>2 DEF Seg
      <4> QED BY <2>2, <2>6, <4>1, <4>2
    <3>3. d.raised \cap S = (c.raised \cap S) \cup {u \in S : cnt[u].irq /\ Over(cnt, c.counter, u)}
      BY <1>3, <1>9
    <3> QED BY <1>4, <1>6, <3>1, <3>2, <3>3
  <2> QED BY <1>2, <1>4, <1>5, <1>6, <1>10, <2>5, <2>7, <2>8
<1> QED BY <1>11, <1>12

\* The banks of cycle after cycle.
Ticks(f, cn, rl) == f \in [Nat -> Between] /\ \A n \in Nat : f[n + 1] = TickOf(cn, rl, f[n])

\* A timer that catches up takes its segment through the cycles.
LEMMA SegmentRuns ==
  ASSUME Registers, NEW k \in TimerIds, CountsIn(cnt, k), NEW f, Ticks(f, cnt, reload),
         NEW b \in Between, b = Mix(b, f[0], Seg(k))
  PROVE  \A n \in Nat : RunTimer(b, k, n) = Mix(b, f[n], Seg(k))
<1> DEFINE T == {n \in Nat : RunTimer(b, k, n) = Mix(b, f[n], Seg(k))}
<1>1. \A n \in Nat : f[n] \in Between /\ f[n + 1] = TickOf(cnt, reload, f[n])
  BY DEF Ticks
<1>2. 0 \in T
  BY Running
<1>3. ASSUME NEW n \in Nat, n \in T PROVE n + 1 \in T
  <2>1. Mix(b, f[n], Seg(k)) \in Between
    BY <1>1, MixIs
  <2>2. RunTimer(b, k, n + 1) = Counted(Mix(b, f[n], Seg(k)), k)
    <3>1. RunTimer(b, k, n) = Mix(b, f[n], Seg(k))
      BY <1>3
    <3>2. RunTimer(b, k, n + 1) = Counted(RunTimer(b, k, n), k)
      BY <2>1, <3>1, Running
    <3> QED BY <3>1, <3>2
  <2>3. Counted(Mix(b, f[n], Seg(k)), k) = Mix(b, TickOf(cnt, reload, f[n]), Seg(k))
    BY <1>1, CycleOf
  <2> QED BY <1>1, <2>2, <2>3
<1> HIDE DEF T
<1>4. Nat \subseteq T
  BY <1>2, <1>3, Numbers
<1> QED BY <1>4 DEF T

\* The timers that have caught up when all before K have.
Did(K) == {t \in TimerIds : \E k \in 0 .. K - 1 : CountsIn(cnt, k) /\ t \in Seg(k)}

\* The next timer's segment is caught up with, and was not before.
LEMMA DidOn ==
  ASSUME Registers, NEW k \in TimerIds
  PROVE  /\ ~CountsIn(cnt, k) => Did(k + 1) = Did(k)
         /\ CountsIn(cnt, k) => Did(k + 1) = Did(k) \cup Seg(k) /\ Did(k) \cap Seg(k) = {}
<1>1. N \in Nat \ {0} /\ TimerIds = 0 .. N - 1
  BY Limits DEF Registers, TimerIds
<1>2. \A u : ~(CountsIn(cnt, u) /\ ChainedIn(cnt, u))
  BY DEF CountsIn, ChainedIn
<1>3. 0 .. (k + 1) - 1 = (0 .. k - 1) \cup {k}
  BY <1>1
<1>4. Did(k + 1) = Did(k) \cup {t \in TimerIds : CountsIn(cnt, k) /\ t \in Seg(k)}
  BY <1>3 DEF Did
<1>5. Seg(k) \subseteq TimerIds
  BY DEF Seg
<1>6. ASSUME CountsIn(cnt, k), NEW t \in Did(k), t \in Seg(k) PROVE FALSE
  <2>1. PICK j \in 0 .. k - 1 : t \in Seg(j)
    BY DEF Did
  <2>2. k \in j + 1 .. t
    BY <1>1, <1>6 DEF Seg
  <2>3. ChainedIn(cnt, k)
    BY <2>1, <2>2 DEF Seg
  <2> QED BY <1>2, <1>6, <2>3
<1>7. ~CountsIn(cnt, k) => Did(k + 1) = Did(k)
  BY <1>4
<1>8. CountsIn(cnt, k) => Did(k + 1) = Did(k) \cup Seg(k)
  BY <1>4, <1>5
<1> QED BY <1>6, <1>7, <1>8

\* The others stand still.
LEMMA Still ==
  ASSUME Registers, NEW f, Ticks(f, cnt, reload), NEW t \in TimerIds, t \notin Did(N)
  PROVE  \A n \in Nat : /\ f[n].counter[t] = f[0].counter[t]
                        /\ t \in f[n].raised <=> t \in f[0].raised
<1>1. N \in Nat \ {0} /\ TimerIds = 0 .. N - 1 /\ t \in Nat
  BY Limits DEF Registers, TimerIds
<1>2. \A k \in 0 .. t : CountsIn(cnt, k) => t \notin Seg(k)
  BY <1>1 DEF Did
<1>3. ~CountsIn(cnt, t)
  <2>1. t \in 0 .. t
    BY <1>1
  <2> QED BY <1>2, <2>1, Segment
<1>4. ASSUME NEW c PROVE ~Over(cnt, c, t) /\ ~(ChainedIn(cnt, t) /\ t > 0 /\ Over(cnt, c, t - 1))
  <2>1. ~Over(cnt, c, t)
    BY <1>1, <1>2 DEF Over, Rolls, Seg
  <2>2. ASSUME ChainedIn(cnt, t), t > 0, Over(cnt, c, t - 1) PROVE FALSE
    <3>1. PICK k \in 0 .. t - 1 : CountsIn(cnt, k) /\ Rolls(cnt, c, k, t - 1)
      BY <2>2 DEF Over
    <3>2. \A u \in k + 1 .. t : u = t \/ u \in k + 1 .. t - 1
      BY <1>1
    <3>3. k <= t /\ k \in 0 .. t
      BY <1>1, <3>1
    <3>4. t \in Seg(k)
      BY <2>2, <3>1, <3>2, <3>3 DEF Seg, Rolls
    <3> QED BY <1>2, <3>1, <3>3, <3>4
  <2> QED BY <2>1, <2>2
<1> DEFINE T == {n \in Nat : f[n].counter[t] = f[0].counter[t] /\ (t \in f[n].raised <=> t \in f[0].raised)}
<1>5. 0 \in T
  OBVIOUS
<1>6. ASSUME NEW n \in Nat, n \in T PROVE n + 1 \in T
  <2>1. f[n + 1] = TickOf(cnt, reload, f[n])
    BY DEF Ticks
  <2>2. f[n + 1].counter[t] = f[n].counter[t]
    BY <1>3, <1>4, <2>1 DEF TickOf
  <2>3. t \in f[n + 1].raised <=> t \in f[n].raised
    BY <1>4, <2>1 DEF TickOf
  <2> QED BY <1>6, <2>2, <2>3
<1> HIDE DEF T
<1>7. Nat \subseteq T
  BY <1>5, <1>6, Numbers
<1> QED BY <1>7 DEF T

\* RunTimers takes the timers to where that many cycles would have taken them.
LEMMA CaughtUpIs ==
  ASSUME Registers, ahead \in Nat, NEW f, Ticks(f, cnt, reload),
         f[0] = [counter |-> counter, raised |-> {}], Cycles(ahead) \in Nat
  PROVE  CaughtUp = f[Cycles(ahead)]
<1> DEFINE P(g) == g = [t \in 0 .. N |->
            IF t = 0 THEN [counter |-> counter, raised |-> {}]
            ELSE IF Counts(t - 1) THEN RunTimer(g[t - 1], t - 1, Cycles(ahead))
            ELSE g[t - 1]]
<1>1. N \in Nat \ {0} /\ TimerIds = 0 .. N - 1
  BY Limits DEF Registers, TimerIds
<1>2. PICK n \in Nat : n = Cycles(ahead)
  OBVIOUS
<1>3. f[0] \in Between /\ f[n] \in Between
  BY DEF Ticks
<1>4. PICK w : w = [K \in 0 .. N |-> Mix(f[0], f[n], Did(K))]
  OBVIOUS
<1>5. \A K \in 0 .. N : /\ w[K] \in Between /\ w[K] \in Bank
                        /\ \A t \in TimerIds : w[K].counter[t] = IF t \in Did(K) THEN f[n].counter[t]
                                                                 ELSE f[0].counter[t]
                        /\ w[K].raised = (f[0].raised \ Did(K)) \cup (f[n].raised \cap Did(K))
  <2> TAKE K \in 0 .. N
  <2>1. PICK e \in Between :
            /\ e = Mix(f[0], f[n], Did(K))
            /\ \A t \in TimerIds : e.counter[t] = IF t \in Did(K) THEN f[n].counter[t] ELSE f[0].counter[t]
            /\ e.raised = (f[0].raised \ Did(K)) \cup (f[n].raised \cap Did(K))
    BY <1>3, MixIs
  <2>2. w[K] = e /\ e \in Bank
    BY <1>4, <2>1 DEF Between
  <2> QED BY <2>1, <2>2
<1>6. w[0] = f[0]
  <2>1. Did(0) = {}
    BY DEF Did
  <2>2. 0 \in 0 .. N
    BY <1>1
  <2>3. w[0] \in Bank /\ f[0] \in Bank /\ w[0].raised = f[0].raised
        /\ \A t \in TimerIds : w[0].counter[t] = f[0].counter[t]
    BY <1>3, <1>5, <2>1, <2>2 DEF Between
  <2> QED BY <2>3, SameBank
<1>7. ASSUME NEW k \in TimerIds
      PROVE  w[k + 1] = IF Counts(k) THEN RunTimer(w[k], k, n) ELSE w[k]
  <2>1. k \in 0 .. N /\ k + 1 \in 0 .. N
    BY <1>1
  <2>2. CASE ~CountsIn(cnt, k)
    <3>1. w[k + 1] = w[k]
      BY <1>4, <2>1, <2>2, DidOn
    <3> QED BY <2>2, <3>1 DEF Counts, CountsIn
  <2>3. CASE CountsIn(cnt, k)
    <3>1. Did(k + 1) = Did(k) \cup Seg(k) /\ Did(k) \cap Seg(k) = {}
      BY <2>3, DidOn
    <3>2. PICK b \in Between : b = w[k]
      BY <1>5, <2>1
    <3>3. b = Mix(b, f[0], Seg(k))
      <4>1. PICK e \in Between : /\ e = Mix(b, f[0], Seg(k))
                                 /\ \A t \in TimerIds : e.counter[t] = IF t \in Seg(k) THEN f[0].counter[t]
                                                                       ELSE b.counter[t]
                                 /\ e.raised = (b.raised \ Seg(k)) \cup (f[0].raised \cap Seg(k))
        BY <1>3, MixIs
      <4>2. \A t \in TimerIds : b.counter[t] = e.counter[t]
        BY <1>5, <2>1, <3>1, <3>2, <4>1
      <4>3. b.raised = e.raised
        BY <1>5, <2>1, <3>1, <3>2, <4>1
      <4> QED BY <4>1, <4>2, <4>3, SameBank DEF Between
    <3>4. RunTimer(b, k, n) = Mix(b, f[n], Seg(k))
      BY <2>3, <3>3, SegmentRuns
    <3>5. PICK e \in Between : /\ e = Mix(b, f[n], Seg(k))
                               /\ \A t \in TimerIds : e.counter[t] = IF t \in Seg(k) THEN f[n].counter[t]
                                                                     ELSE b.counter[t]
                               /\ e.raised = (b.raised \ Seg(k)) \cup (f[n].raised \cap Seg(k))
      BY <1>3, MixIs
    <3>6. \A t \in TimerIds : w[k + 1].counter[t] = e.counter[t]
      BY <1>5, <2>1, <3>1, <3>2, <3>5
    <3>7. w[k + 1].raised = e.raised
      BY <1>5, <2>1, <3>1, <3>2, <3>5
    <3>8. w[k + 1] = e
      BY <1>5, <2>1, <3>6, <3>7, SameBank DEF Between
    <3> QED BY <2>3, <3>2, <3>4, <3>5, <3>8 DEF Counts, CountsIn
  <2> QED BY <2>2, <2>3
<1>8. P(w)
  <2>1. ASSUME NEW t \in 0 .. N
        PROVE  w[t] = IF t = 0 THEN [counter |-> counter, raised |-> {}]
                      ELSE IF Counts(t - 1) THEN RunTimer(w[t - 1], t - 1, n)
                      ELSE w[t - 1]
    <3>1. CASE t # 0
      <4>1. t - 1 \in TimerIds /\ (t - 1) + 1 = t
        BY <1>1, <3>1
      <4>2. w[(t - 1) + 1] = IF Counts(t - 1) THEN RunTimer(w[t - 1], t - 1, n) ELSE w[t - 1]
        BY <1>7, <4>1
      <4> QED BY <3>1, <4>1, <4>2
    <3> QED BY <1>6, <3>1
  <2> QED BY <1>2, <1>4, <2>1
<1>9. PICK o : o = CHOOSE g : P(g)
  OBVIOUS
<1>10. P(o)
  <2> HIDE DEF P
  <2> QED BY <1>8, <1>9
<1>11. o[N] = w[N]
  <2>1. o[0] = w[0]
    BY <1>1, <1>8, <1>10
  <2>2. ASSUME NEW j \in Nat, j < N /\ o[j] = w[j] PROVE o[j + 1] = w[j + 1]
    <3>1. j + 1 \in 0 .. N /\ j + 1 # 0 /\ (j + 1) - 1 = j
      BY <1>1, <2>2
    <3>2. o[j + 1] = IF Counts(j) THEN RunTimer(o[j], j, Cycles(ahead)) ELSE o[j]
      BY <1>10, <3>1
    <3>3. w[j + 1] = IF Counts(j) THEN RunTimer(w[j], j, Cycles(ahead)) ELSE w[j]
      BY <1>8, <3>1
    <3> QED BY <2>2, <3>2, <3>3
  <2> HIDE DEF P
  <2>3. N \in Nat
    BY SMT, <1>1
  <2>4. \A j \in 0 .. N : o[j] = w[j]
    BY <2>1, <2>2, <2>3, Alike
  <2> QED BY <2>3, <2>4
<1>12. w[N] = f[n]
  <2>1. N \in 0 .. N
    BY <1>1
  <2>2. \A t \in TimerIds : w[N].counter[t] = f[n].counter[t]
    BY <1>5, <2>1, Still
  <2>3. \A t \in TimerIds : t \in w[N].raised <=> t \in f[n].raised
    BY <1>5, <2>1, Still
  <2>4. w[N].raised \subseteq TimerIds /\ f[n].raised \subseteq TimerIds
    BY <1>3, <1>5, <2>1 DEF Between, Bank
  <2>5. w[N].raised = f[n].raised
    BY <2>3, <2>4
  <2> QED BY <1>3, <1>5, <2>1, <2>2, <2>5, SameBank DEF Between
<1>13. CaughtUp = (CHOOSE g : P(g))[N]
  BY DEF CaughtUp
<1> HIDE DEF P
<1> QED BY <1>2, <1>9, <1>11, <1>12, <1>13

-----------------------------------------------------------------------------
(* Every step keeps the two banks together. *)

\* From every bank there are the banks of the cycles that follow.
LEMMA Ticking ==
  ASSUME TimersAssumption, NEW cn \in Kinds, NEW rl \in Values, NEW b \in Between
  PROVE  \E f : Ticks(f, cn, rl) /\ f[0] = b
<1> DEFINE step == [n \in Nat |-> [c \in Between |-> TickOf(cn, rl, c)]]
<1>1. \A n \in Nat, c \in Between : step[n][c] = TickOf(cn, rl, c) /\ step[n][c] \in Between
  BY TickBetween
<1> HIDE DEF step
<1>2. Closed(Between, b, step)
  BY <1>1 DEF Closed
<1>3. PICK f \in [Nat -> Between] : f[0] = b /\ \A n \in Nat : f[n + 1] = step[n][f[n]]
  BY <1>2, Recursion
<1> QED BY <1>1, <1>3 DEF Ticks

\* The banks that a program's time goes through from the last time its timers caught up:
\* the first is what the counters show, and the present one is the bank that counts
\* every cycle.
Together(f) == /\ Ticks(f, cnt, reload)
               /\ f[0] = [counter |-> counter, raised |-> {}]
               /\ f[Cycles(ahead)] = [counter |-> exact, raised |-> owed]
TimersInv == /\ reload \in [TimerIds -> Reloads \cup {0}] /\ cnt \in [TimerIds -> Controls]
             /\ ahead \in 0 .. MaxAhead /\ raised \in SUBSET TimerIds
             /\ \E f : Together(f)

\* The registers hold what the hardware offers.
LEMMA InvIs ==
  ASSUME TimersAssumption, TimersInv
  PROVE  Registers /\ cnt \in Kinds /\ reload \in Values /\ ahead \in Nat
<1>1. cnt \in Kinds /\ reload \in Values
  BY Limits DEF TimersInv, Kinds, Values
<1>2. ahead \in Nat
  BY DEF TimersInv, TimersAssumption
<1> QED BY <1>1, <1>2 DEF Registers, Kinds, Values

\* Cycles of the CPU and of the timers: nothing is left of them after catching up.
LEMMA CyclesAre ==
  ASSUME TimersAssumption
  PROVE  /\ \A a \in Nat : Cycles(a) \in Nat /\ a % TwoTo[ClockShift] \in Nat
                           /\ Cycles(a % TwoTo[ClockShift]) = 0
                           /\ a % TwoTo[ClockShift] <= a
         /\ \A a \in Nat, n \in Nat : Cycles(a + n) - Cycles(a) \in Nat
<1>1. PICK p \in Nat \ {0} : p = TwoTo[ClockShift]
  BY TwoToIs DEF TimersAssumption
<1>2. ASSUME NEW a \in Nat
      PROVE  a \div p \in Nat /\ a % p \in Nat /\ (a % p) \div p = 0 /\ a % p <= a
  <2>1. PICK q \in Nat, r \in Nat : q = a \div p /\ r = a % p /\ a = p * q + r /\ r < p
    BY Quotient
  <2>2. p * q >= 0
    BY <2>1
  <2>3. r \div p = 0
    BY <2>1
  <2> QED BY <2>1, <2>2, <2>3
<1>3. ASSUME NEW a \in Nat, NEW n \in Nat PROVE (a + n) \div p - a \div p \in Nat
  <2>1. PICK q \in Nat, r \in Nat : q = a \div p /\ a = p * q + r /\ r < p
    BY Quotient
  <2>2. PICK u \in Nat, v \in Nat : u = (a + n) \div p /\ a + n = p * u + v /\ v < p
    BY Quotient
  <2>3. q <= u
    <3> SUFFICES ASSUME u < q PROVE FALSE
      OBVIOUS
    <3>1. p * (u + 1) <= p * q
      BY Products
    <3>2. p * (u + 1) = p * u + p
      OBVIOUS
    <3>3. p * u \in Nat /\ p * q \in Nat
      OBVIOUS
    <3> QED BY <2>1, <2>2, <3>1, <3>2, <3>3
  <2> QED BY <2>1, <2>2, <2>3
<1> QED BY <1>1, <1>2, <1>3 DEF Cycles

\* With no cycles to catch up with, the banks show the same.
LEMMA TogetherNow ==
  ASSUME TimersAssumption, NEW cn \in Kinds, NEW rl \in Values, NEW c \in [TimerIds -> 0 .. Full - 1]
  PROVE  \E f : Ticks(f, cn, rl) /\ f[0] = [counter |-> c, raised |-> {}]
<1>1. \A t \in TimerIds : c[t] \in Nat /\ c[t] < Full
  BY Limits
<1>2. [counter |-> c, raised |-> {}] \in Between
  BY <1>1 DEF Between, Bank
<1> QED BY <1>2, Ticking

\* What a bank between two cycles shows.
LEMMA BetweenIs ==
  ASSUME TimersAssumption, NEW c, NEW r, [counter |-> c, raised |-> r] \in Between
  PROVE  c \in [TimerIds -> 0 .. Full - 1] /\ r \in SUBSET TimerIds
<1>1. PICK b \in Between : b = [counter |-> c, raised |-> r]
  OBVIOUS
<1>2. b.counter = c /\ b.raised = r
  BY <1>1
<1>3. c \in [TimerIds -> Nat] /\ r \in SUBSET TimerIds /\ \A t \in TimerIds : c[t] < Full
  BY <1>2 DEF Between, Bank
<1>4. \A t \in TimerIds : c[t] \in 0 .. Full - 1
  BY <1>3, Limits
<1> QED BY <1>3, <1>4

\* Where the timers stand and where they get when they catch up.
LEMMA TogetherIs ==
  ASSUME TimersAssumption, TimersInv
  PROVE  /\ counter \in [TimerIds -> 0 .. Full - 1] /\ exact \in [TimerIds -> 0 .. Full - 1]
         /\ owed \in SUBSET TimerIds
         /\ CaughtUp = [counter |-> exact, raised |-> owed]
         /\ Cycles(ahead) = 0 => counter = exact /\ owed = {}
<1>1. PICK f : Together(f)
  BY DEF TimersInv
<1>2. Cycles(ahead) \in Nat /\ ahead \in Nat
  BY CyclesAre, InvIs
<1>3. f[0] \in Between /\ f[Cycles(ahead)] \in Between
  BY <1>1, <1>2 DEF Together, Ticks
<1>4. /\ counter \in [TimerIds -> 0 .. Full - 1] /\ exact \in [TimerIds -> 0 .. Full - 1]
      /\ owed \in SUBSET TimerIds
  BY <1>1, <1>3, BetweenIs DEF Together
<1>5. Registers
  BY InvIs
<1>6. CaughtUp = f[Cycles(ahead)]
  BY <1>1, <1>2, <1>5, CaughtUpIs DEF Together
<1>7. Cycles(ahead) = 0 => counter = exact /\ owed = {}
  <2>1. HAVE Cycles(ahead) = 0
  <2>2. [counter |-> exact, raised |-> owed] = [counter |-> counter, raised |-> {}]
    BY <1>1, <2>1 DEF Together
  <2> QED BY <2>2
<1> QED BY <1>1, <1>4, <1>6, <1>7 DEF Together

\* At the start both banks show nothing.
LEMMA TimersStart ==
  ASSUME TimersAssumption, TimersInit
  PROVE  TimersInv
<1>1. /\ counter \in [TimerIds -> 0 .. Full - 1] /\ reload \in [TimerIds -> Reloads \cup {0}]
      /\ cnt \in [TimerIds -> Controls]
  BY Limits DEF TimersInit
<1>2. cnt \in Kinds /\ reload \in Values
  BY <1>1, Limits DEF Kinds, Values
<1>3. PICK f : Ticks(f, cnt, reload) /\ f[0] = [counter |-> counter, raised |-> {}]
  BY <1>1, <1>2, TogetherNow
<1>4. Cycles(ahead) = 0
  <2>1. Cycles(0 % TwoTo[ClockShift]) = 0 /\ 0 % TwoTo[ClockShift] \in Nat /\ 0 % TwoTo[ClockShift] <= 0
    BY CyclesAre
  <2>2. 0 % TwoTo[ClockShift] = 0
    BY <2>1
  <2> QED BY <2>1, <2>2 DEF TimersInit
<1>5. ahead \in 0 .. MaxAhead
  BY DEF TimersInit, TimersAssumption
<1> QED BY <1>1, <1>3, <1>4, <1>5 DEF TimersInit, TimersInv, Together

\* The cycles of a turn that goes on lead on along the same banks.
LEMMA ExecuteKeeps ==
  ASSUME TimersAssumption, TimersInv, NEW n \in 1 .. MaxAhead, Execute(n)
  PROVE  TimersInv'
<1>1. PICK f : Together(f)
  BY DEF TimersInv
<1>2. PICK m \in Nat, k \in Nat : m = Cycles(ahead) /\ k = Cycles(ahead + n) - Cycles(ahead)
                                  /\ m + k = Cycles(ahead + n)
  <2>1. n \in Nat /\ ahead \in Nat /\ ahead + n \in Nat
    BY InvIs DEF TimersAssumption
  <2>2. Cycles(ahead) \in Nat /\ Cycles(ahead + n) \in Nat /\ Cycles(ahead + n) - Cycles(ahead) \in Nat
    BY <2>1, CyclesAre
  <2> QED BY <2>2
<1>3. /\ \A j \in Nat : f[j] \in Between /\ f[j + 1] = TickOf(cnt, reload, f[j])
      /\ f[m] = [counter |-> exact, raised |-> owed]
  BY <1>1, <1>2 DEF Together, Ticks
<1> DEFINE P(g) == g = [j \in Nat |-> IF j = 0 THEN [counter |-> exact, raised |-> owed]
                                      ELSE Tick(g[j - 1])]
<1>4. PICK w : w = [j \in Nat |-> f[m + j]]
  OBVIOUS
<1>5. P(w)
  <2>1. ASSUME NEW j \in Nat
        PROVE  w[j] = IF j = 0 THEN [counter |-> exact, raised |-> owed] ELSE Tick(w[j - 1])
    <3>1. CASE j = 0
      <4>1. m + 0 = m
        OBVIOUS
      <4> QED BY <1>3, <1>4, <3>1, <4>1
    <3>2. CASE j # 0
      <4>1. PICK i \in Nat : i = j - 1 /\ m + j = (m + i) + 1 /\ m + i \in Nat
        BY <3>2
      <4>2. f[(m + i) + 1] = TickOf(cnt, reload, f[m + i])
        BY <1>3, <4>1
      <4>3. Tick(f[m + i]) = TickOf(cnt, reload, f[m + i])
        BY InvIs, TickIs
      <4>4. w[j] = f[m + j] /\ w[j - 1] = f[m + i]
        BY <1>4, <4>1
      <4> QED BY <3>2, <4>1, <4>2, <4>3, <4>4
    <3> QED BY <3>1, <3>2
  <2> QED BY <1>4, <2>1
<1>6. PICK o : o = CHOOSE g : P(g)
  OBVIOUS
<1>7. P(o)
  <2> HIDE DEF P
  <2> QED BY <1>5, <1>6
<1>8. o[k] = w[k]
  <2>1. o[0] = w[0]
    BY <1>5, <1>7
  <2>2. ASSUME NEW j \in Nat, j < k /\ o[j] = w[j] PROVE o[j + 1] = w[j + 1]
    <3>1. j + 1 \in Nat /\ j + 1 # 0 /\ (j + 1) - 1 = j
      OBVIOUS
    <3>2. o[j + 1] = Tick(o[j])
      BY <1>7, <3>1
    <3>3. w[j + 1] = Tick(w[j])
      BY <1>5, <3>1
    <3> QED BY <2>2, <3>2, <3>3
  <2> HIDE DEF P
  <2>3. \A j \in 0 .. k : o[j] = w[j]
    BY <2>1, <2>2, Alike
  <2> QED BY <2>3
<1>9. exact' = f[m + k].counter /\ owed' = f[m + k].raised
  <2>1. /\ exact' = (CHOOSE g : P(g))[Cycles(ahead + n) - Cycles(ahead)].counter
        /\ owed' = (CHOOSE g : P(g))[Cycles(ahead + n) - Cycles(ahead)].raised
    BY DEF Execute
  <2> HIDE DEF P
  <2> QED BY <1>2, <1>4, <1>6, <1>8, <2>1
<1>10. /\ UNCHANGED <<reload, cnt, counter, raised>> /\ ahead' = ahead + n
       /\ ahead' \in 0 .. MaxAhead
  BY InvIs DEF Execute, TimersAssumption
<1> HIDE DEF P
<1>11. Cycles(ahead)' = m + k
  BY <1>2, <1>10 DEF Cycles
<1>12. f[m + k] = [counter |-> exact', raised |-> owed']
  BY <1>3, <1>9 DEF Between, Bank
<1>13. Together(f)'
  BY <1>1, <1>10, <1>11, <1>12 DEF Together
<1> QED BY <1>10, <1>13 DEF TimersInv

\* Once the timers have caught up, any banks that start from what they show will do.
LEMMA RunTimersIs ==
  ASSUME TimersAssumption, TimersInv, ahead' = ahead % TwoTo[ClockShift]
  PROVE  ahead' \in 0 .. MaxAhead /\ Cycles(ahead)' = 0
<1>1. PICK a \in Nat : a = ahead /\ a <= MaxAhead
  BY InvIs DEF TimersInv, TimersAssumption
<1>2. PICK b \in Nat : b = a % TwoTo[ClockShift] /\ b <= a /\ Cycles(b) = 0
  BY CyclesAre
<1>3. ahead' = b
  BY <1>1, <1>2
<1>4. Cycles(ahead)' = 0
  BY <1>2, <1>3 DEF Cycles
<1> QED BY <1>1, <1>2, <1>3, <1>4 DEF TimersAssumption

\* Timers that catch up begin anew.
LEMMA CatchUpKeeps ==
  ASSUME TimersAssumption, TimersInv, CatchUp
  PROVE  TimersInv' /\ counter' = exact' /\ raised' = owed
<1>1. /\ counter' = exact /\ raised' = owed /\ owed' = {} /\ exact' = exact
      /\ UNCHANGED <<reload, cnt>>
      /\ exact \in [TimerIds -> 0 .. Full - 1] /\ owed \in SUBSET TimerIds
  <2>1. CaughtUp = [counter |-> exact, raised |-> owed]
    BY TogetherIs
  <2> QED BY <2>1, TogetherIs DEF CatchUp, RunTimers
<1>2. ahead' \in 0 .. MaxAhead /\ Cycles(ahead)' = 0
  BY RunTimersIs DEF CatchUp, RunTimers
<1>3. PICK f : Ticks(f, cnt, reload) /\ f[0] = [counter |-> exact, raised |-> {}]
  BY <1>1, InvIs, TogetherNow
<1>4. Together(f)'
  BY <1>1, <1>2, <1>3 DEF Together
<1> QED BY <1>1, <1>2, <1>4 DEF TimersInv

\* A timer that stands still takes no part in a cycle, so that its reload value says
\* nothing of one.
LEMMA OffTick ==
  ASSUME NEW cn, NEW rl, NEW sl, NEW t \in TimerIds, ~cn[t].on, N \in Nat \ {0},
         \A u \in TimerIds : u # t => rl[u] = sl[u], NEW b
  PROVE  TickOf(cn, rl, b) = TickOf(cn, sl, b)
<1>1. ~CountsIn(cn, t) /\ ~ChainedIn(cn, t)
  BY DEF CountsIn, ChainedIn
<1>2. t \in Nat
  BY DEF TimerIds
<1>3. ~Over(cn, b.counter, t)
  BY <1>1, <1>2, OverOn
<1> HIDE DEF TimerIds
<1> QED BY <1>1, <1>3 DEF TickOf

\* A reload value changes the cycles to come, not those the timers are behind.
LEMMA WriteReloadKeeps ==
  ASSUME TimersAssumption, TimersInv, NEW t \in TimerIds, NEW v \in Reloads, WriteReload(t, v)
  PROVE  TimersInv' /\ UNCHANGED <<cnt, counter, ahead, raised, exact, owed>>
<1>1. /\ UNCHANGED <<cnt, counter, ahead, raised, exact, owed>>
      /\ reload' = [reload EXCEPT ![t] = v]
  BY DEF WriteReload
<1>2. reload' \in [TimerIds -> Reloads \cup {0}] /\ reload' \in Values
  <2>1. reload' \in [TimerIds -> Reloads \cup {0}]
    BY <1>1 DEF TimersInv
  <2> QED BY <2>1, Limits DEF Values
<1>3. Cycles(ahead)' = Cycles(ahead)
  BY <1>1 DEF Cycles
<1>4. \E f : Together(f)'
  <2>1. CASE Cycles(ahead) = 0
    <3>1. /\ counter = exact /\ owed = {} /\ counter \in [TimerIds -> 0 .. Full - 1]
      BY <2>1, TogetherIs
    <3>2. PICK f : Ticks(f, cnt, reload') /\ f[0] = [counter |-> counter, raised |-> {}]
      BY <1>2, <3>1, InvIs, TogetherNow
    <3>3. Together(f)'
      BY <1>1, <1>3, <2>1, <3>1, <3>2 DEF Together
    <3> QED BY <3>3
  <2>2. CASE ~cnt[t].on
    <3>1. PICK f : Together(f)
      BY DEF TimersInv
    <3>2. \A u \in TimerIds : u # t => reload[u] = reload'[u]
      BY <1>1 DEF TimersInv
    <3>3. N \in Nat \ {0}
      BY Limits
    <3>4. \A j \in Nat : TickOf(cnt, reload, f[j]) = TickOf(cnt, reload', f[j])
      BY <2>2, <3>2, <3>3, OffTick
    <3>5. Ticks(f, cnt, reload')
      BY <3>1, <3>4 DEF Together, Ticks
    <3>6. Together(f)'
      BY <1>1, <1>3, <3>1, <3>5 DEF Together
    <3> QED BY <3>6
  <2> QED BY <2>1, <2>2 DEF WriteReload
<1> QED BY <1>1, <1>2, <1>4 DEF TimersInv

\* So do timers one of which is set anew.
LEMMA TimerStartKeeps ==
  ASSUME TimersAssumption, TimersInv, NEW t \in TimerIds, NEW c \in Controls, TimerStart(t, c)
  PROVE  TimersInv' /\ counter' = exact' /\ raised' = owed
<1>1. /\ exact \in [TimerIds -> 0 .. Full - 1] /\ owed \in SUBSET TimerIds
      /\ CaughtUp = [counter |-> exact, raised |-> owed]
  BY TogetherIs
<1>2. PICK x \in [TimerIds -> 0 .. Full - 1] : counter' = x /\ exact' = x
  <2>1. PICK s : s = (~cnt[t].on /\ c.on)
    OBVIOUS
  <2>2. PICK x : x = [exact EXCEPT ![t] = IF s THEN reload[t] * Unit ELSE @]
    OBVIOUS
  <2>3. counter' = x /\ exact' = x
    BY <1>1, <2>1, <2>2 DEF TimerStart
  <2>4. reload[t] * Unit \in 0 .. Full - 1
    <3>1. reload[t] \in 0 .. Size - 1
      BY InvIs DEF Values
    <3>2. PICK y \in Nat : y = reload[t] * Unit /\ y + Unit <= Full
      BY <3>1, Limits
    <3>3. Unit \in Nat \ {0} /\ Full \in Nat
      BY Limits
    <3> QED BY <3>2, <3>3
  <2> QED BY <1>1, <2>2, <2>3, <2>4
<1>3. raised' = owed /\ owed' = {} /\ reload' = reload /\ cnt' = [cnt EXCEPT ![t] = c]
  BY <1>1 DEF TimerStart, RunTimers
<1>4. ahead' \in 0 .. MaxAhead /\ Cycles(ahead)' = 0
  BY RunTimersIs DEF TimerStart, RunTimers
<1>5. cnt' \in [TimerIds -> Controls] /\ cnt' \in Kinds
  <2>1. cnt' \in [TimerIds -> Controls]
    BY <1>3 DEF TimersInv
  <2> QED BY <2>1, Limits DEF Kinds
<1>6. PICK f : Ticks(f, cnt', reload) /\ f[0] = [counter |-> x, raised |-> {}]
  BY <1>2, <1>5, InvIs, TogetherNow
<1>7. Together(f)'
  BY <1>2, <1>3, <1>4, <1>6 DEF Together
<1> QED BY <1>1, <1>2, <1>3, <1>4, <1>5, <1>7 DEF TimersInv

TimersStepExact == /\ Cycles(ahead') = 0 => counter' = exact'
                   /\ ahead' < ahead \/ cnt' # cnt => raised' = owed

\* Every step keeps the two together, and they agree where they should.
LEMMA TimersStep ==
  ASSUME TimersAssumption, TimersInv, [TimersNext]_timerVars
  PROVE  TimersInv' /\ TimersStepExact
<1>1. CASE UNCHANGED timerVars
  <2>1. /\ UNCHANGED <<reload, cnt, counter, ahead, raised, exact, owed>>
        /\ Cycles(ahead)' = Cycles(ahead)
    BY <1>1 DEF timerVars, Cycles
  <2>2. TimersInv'
    BY <2>1 DEF TimersInv, Together
  <2>3. Cycles(ahead') = 0 => counter' = exact'
    BY <2>1, TogetherIs
  <2>4. ~(ahead' < ahead)
    BY <2>1, InvIs
  <2> QED BY <2>1, <2>2, <2>3, <2>4 DEF TimersStepExact
<1>2. ASSUME NEW n \in 1 .. MaxAhead, Execute(n) PROVE TimersInv' /\ TimersStepExact
  <2>1. TimersInv'
    BY <1>2, ExecuteKeeps
  <2>2. cnt' = cnt /\ counter' = counter /\ ahead' = ahead + n
    BY <1>2 DEF Execute
  <2>3. ~(ahead' < ahead)
    BY <2>2, InvIs DEF TimersAssumption
  <2>4. Cycles(ahead') = 0 => counter' = exact'
    <3>1. HAVE Cycles(ahead') = 0
    <3>2. PICK f : Together(f)'
      BY <2>1 DEF TimersInv
    <3>3. [counter |-> exact', raised |-> owed'] = [counter |-> counter', raised |-> {}]
      BY <3>1, <3>2 DEF Together, Cycles
    <3> QED BY <3>3
  <2> QED BY <2>1, <2>2, <2>3, <2>4 DEF TimersStepExact
<1>3. CASE CatchUp
  BY <1>3, CatchUpKeeps DEF TimersStepExact
<1>4. ASSUME NEW t \in TimerIds, NEW v \in Reloads, WriteReload(t, v)
      PROVE  TimersInv' /\ TimersStepExact
  <2>1. TimersInv' /\ UNCHANGED <<cnt, counter, ahead, raised, exact, owed>>
    BY <1>4, WriteReloadKeeps
  <2>2. Cycles(ahead') = 0 => counter' = exact'
    BY <2>1, TogetherIs
  <2>3. ~(ahead' < ahead)
    BY <2>1, InvIs
  <2> QED BY <2>1, <2>2, <2>3 DEF TimersStepExact
<1>5. ASSUME NEW t \in TimerIds, NEW c \in Controls, TimerStart(t, c)
      PROVE  TimersInv' /\ TimersStepExact
  BY <1>5, TimerStartKeeps DEF TimersStepExact
<1> QED BY <1>1, <1>2, <1>3, <1>4, <1>5 DEF TimersNext

\* No counter reaches its limit.
LEMMA TimersTypes ==
  ASSUME TimersAssumption, TimersInv
  PROVE  TimersTypeOK
BY TogetherIs DEF TimersInv, TimersTypeOK

\* The operands, results, registers and counters keep their types: above all, no
\* counter ever reaches its limit.
THEOREM UnitsTypesHold ==
  ASSUME TimersAssumption, MathAssumption
  PROVE  UnitsSpec => []UnitsTypeOK
<1> DEFINE Inv == MathInv /\ TimersInv /\ uses \in {"timers", "divider", "root"}
<1>1. UnitsInit => Inv
  BY MathStart, TimersStart DEF UnitsInit
<1>2. Inv /\ [UnitsNext]_unitsVars => Inv'
  BY MathStep, TimersStep DEF UnitsNext, unitsVars
<1>3. Inv => UnitsTypeOK
  BY TimersTypes DEF MathInv, UnitsTypeOK
<1> QED BY <1>1, <1>2, <1>3, PTL DEF UnitsSpec

\* Timers that catch up get where a bank that counts every cycle has got.
THEOREM TimersHold ==
  ASSUME TimersAssumption
  PROVE  UnitsSpec => TimersExact
<1>1. UnitsInit => TimersInv
  BY TimersStart DEF UnitsInit
<1>2. TimersInv /\ [UnitsNext]_unitsVars => TimersInv' /\ TimersStepExact
  BY TimersStep DEF UnitsNext, unitsVars
<1>3. TimersInv /\ [UnitsNext]_unitsVars
        => [/\ Cycles(ahead') = 0 => counter' = exact'
            /\ ahead' < ahead \/ cnt' # cnt => raised' = owed]_timerVars
  BY <1>2 DEF TimersStepExact
<1> QED BY <1>1, <1>2, <1>3, PTL DEF UnitsSpec, TimersExact
=============================================================================

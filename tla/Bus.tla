--------------------------------- MODULE Bus ---------------------------------
(***************************************************************************)
(* The ARM9's side of a slice (NDS::RunFrame) with what moves data there:  *)
(* the program's stores, the DMA channels that run in its place, the       *)
(* command queue of the geometry engine, which can bring both to a stop,   *)
(* and the card interface.  A slice goes through the phases of RunFrame's  *)
(* loop; how far the clock lets each phase get is left open.               *)
(***************************************************************************)
EXTENDS GeometryFifo, Dma, CartTransfer

CONSTANTS StoreMax,   \* the most commands one store instruction writes (64)
          WordMax,    \* the most commands one word of a DMA channel holds (4)
          Overrun,    \* the most store instructions the ARM9 still executes in a
                      \* slice after the one that stalled the system
          ModesOf,    \* the modes a channel is used in
          Uses        \* what the programs do, see Activities

\* Stores to the geometry engine, its interrupt mode, the card by hand in either
\* direction, and the modes in which DMA channels are used.
Activities == {"store", "status", "poll", "send"} \cup Modes

ASSUME BusAssumption ==
    /\ StoreMax \in 1 .. StallSize /\ WordMax \in 1 .. StallSize /\ Overrun \in Nat
    /\ ModesOf \in [Channels -> SUBSET Modes]
    /\ Uses \subseteq SUBSET Activities

VARIABLES
    use,    \* what this behaviour's program does
    dma,    \* DMAs[0] to DMAs[3]
    card,   \* NDSCartSlot
    pc,     \* the phase of the slice
    ch,     \* the channel RunFrame has got to
    late,   \* ARM9Timestamp >= ARM9Target
    store,  \* commands of a store or of a word that are still to be written
    over    \* store instructions executed since the system stalled

slice == <<pc, ch, late, store, over>>
vars  == <<use, geometry, dma, card, slice>>

Phases == {"slice", "arm9", "dma", "gpu", "system"}

Init ==
    /\ use \in Uses
    /\ GeometryInit
    /\ dma = [n \in Channels |-> ResetChannel]
    /\ card = ResetCard
    /\ pc = "slice" /\ ch = 0 /\ late = FALSE /\ store = 0 /\ over = 0

-----------------------------------------------------------------------------
(* The loop. *)

\* Whether the ARM9, the DMA channels or nothing at all runs in this slice.
BeginSlice ==
    /\ pc = "slice"
    /\ pc' = CASE stalled -> "gpu" [] ~stalled /\ AnyRunning(dma) -> "dma" [] OTHER -> "arm9"
    /\ UNCHANGED <<use, geometry, dma, card, ch, late, store, over>>

\* A defective variant: the stall does not reach the channel that is executing.
WriteCommandOn ==
    /\ store > 0
    /\ store' = store - 1
    /\ CmdFIFOWrite
    /\ UNCHANGED <<use, dma, card, pc, ch, late, over>>

\* The next command of a store instruction or of a DMA word.  A stall stops the
\* channel that is executing; the ARM9 is not halted, CurCPU being 0.
WriteCommand ==
    /\ store > 0
    /\ store' = store - 1
    /\ CmdFIFOWrite
    /\ dma' = IF stalled' /\ ~stalled THEN StallDMAs(dma) ELSE dma
    /\ UNCHANGED <<use, card, pc, ch, late, over>>

-----------------------------------------------------------------------------
(* The ARM9 executes: each action is an instruction of the program. *)

Arm9 == pc = "arm9" /\ store = 0

\* A store instruction, of several words when it is an STM.
StoreCommands ==
    /\ Arm9 /\ "store" \in use
    /\ stalled => over < Overrun
    /\ store' \in 1 .. StoreMax
    /\ over' = IF stalled THEN over + 1 ELSE over
    /\ UNCHANGED <<use, geometry, dma, card, pc, ch, late>>

SetIrqMode ==
    /\ Arm9 /\ "status" \in use /\ WriteGXStat
    /\ UNCHANGED <<use, dma, card, slice>>

AckIrq ==
    /\ Arm9 /\ "status" \in use /\ Acknowledge
    /\ UNCHANGED <<use, dma, card, slice>>

\* CheckFIFODMA.
CheckFIFODMA(d, f) == IF Len(f) < Half THEN CheckDMAs(d, "geometry") ELSE d

\* DMA::WriteCnt that enables a channel, as programs do it: when no transfer is in
\* progress on it, one word at a time and repeating for the card, and before the
\* card is told to start.  A channel that starts at once halts the ARM9.
EnableDma ==
    /\ Arm9
    /\ \E n \in Channels, len \in Lengths, repeat \in BOOLEAN :
        \E mode \in ModesOf[n] \cap use :
            LET c == [dma[n] EXCEPT !.enabled = TRUE, !.repeat = repeat, !.mode = mode,
                                    !.len = len]
                d == [dma EXCEPT ![n] = c]
            IN  /\ ~dma[n].enabled /\ ~dma[n].inProgress
                /\ mode = "cart" => len = 1 /\ repeat /\ ~card.busy
                /\ dma' = CASE mode = "now" -> [d EXCEPT ![n] = Start(c)]
                            [] mode = "geometry" -> CheckFIFODMA(d, fifo)
                            [] OTHER -> d
                /\ pc' = IF AnyRunning(dma') THEN "gpu" ELSE pc
                /\ over' = IF AnyRunning(dma') THEN 0 ELSE over
    /\ UNCHANGED <<use, geometry, card, ch, late, store>>

\* WriteCnt that disables a channel that waits for its trigger.
DisableDma ==
    /\ Arm9
    /\ \E n \in Channels :
        /\ dma[n].enabled /\ ~dma[n].inProgress
        /\ dma[n].mode = "cart" => ~card.busy
        /\ dma' = [dma EXCEPT ![n].enabled = FALSE]
    /\ UNCHANGED <<use, geometry, card, slice>>

CardDma == \E n \in Channels : dma[n].enabled /\ dma[n].mode = "cart"

\* A program starts a transfer when the last one has ended, and then takes or
\* gives a word whenever one is due, unless a DMA channel does.
StartCard ==
    /\ Arm9 /\ ~card.busy
    /\ \E len \in Blocks, write \in BOOLEAN :
        /\ IF write THEN "send" \in use ELSE "poll" \in use \/ CardDma
        /\ write => ~CardDma
        /\ card' = StartTransfer(card, len, write)
    /\ UNCHANGED <<use, geometry, dma, slice>>

PollCard ==
    /\ Arm9 /\ "poll" \in use /\ card.ready /\ ~card.write /\ ~CardDma
    /\ card' = ReadROMData(card)
    /\ UNCHANGED <<use, geometry, dma, slice>>

SendCard ==
    /\ Arm9 /\ "send" \in use /\ card.ready /\ card.write
    /\ card' = WriteROMData(card, Len(card.moved) + 1)
    /\ UNCHANGED <<use, geometry, dma, slice>>

\* The clock has reached the target.
EndArm9 ==
    /\ Arm9
    /\ pc' = "gpu" /\ over' = 0
    /\ UNCHANGED <<use, geometry, dma, card, ch, late, store>>

-----------------------------------------------------------------------------
(* The DMA channels, in their order. *)

\* Run9 is entered for a channel that runs, unless the clock or a stall forbids.
EnterDma ==
    /\ pc = "dma" /\ ch \in Channels
    /\ dma[ch].running /\ ~dma[ch].executing /\ ~stalled /\ ~late
    /\ dma' = [dma EXCEPT ![ch].executing = TRUE]
    /\ UNCHANGED <<use, geometry, card, slice>>

\* One unit: a word of commands, or a word from the card.
MoveUnit ==
    /\ pc = "dma" /\ ch \in Channels /\ store = 0
    /\ dma[ch].executing /\ dma[ch].iter > 0 /\ ~dma[ch].stall /\ ~late
    /\ dma' = [dma EXCEPT ![ch] = Moved(@)]
    /\ late' \in BOOLEAN
    /\ IF dma[ch].mode = "cart"
       THEN card' = ReadROMData(card) /\ UNCHANGED store
       ELSE store' \in 0 .. WordMax /\ UNCHANGED card
    /\ UNCHANGED <<use, geometry, pc, ch, over>>

\* A defective variant: the end of a batch does not look at the FIFO.
LeaveDmaBlind ==
    /\ pc = "dma" /\ ch \in Channels /\ store = 0
    /\ dma[ch].executing /\ (dma[ch].iter = 0 \/ dma[ch].stall \/ late)
    /\ dma' = [dma EXCEPT ![ch] = Left(@)]
    /\ ch' = ch + 1
    /\ UNCHANGED <<use, geometry, card, pc, late, store, over>>

\* The loop ends: a channel at the end of a batch starts the next one at once
\* when the FIFO has room.
LeaveDma ==
    /\ pc = "dma" /\ ch \in Channels /\ store = 0
    /\ dma[ch].executing /\ (dma[ch].iter = 0 \/ dma[ch].stall \/ late)
    /\ LET d == [dma EXCEPT ![ch] = Left(@)]
       IN  dma' = IF BatchEnded(dma[ch]) /\ dma[ch].mode = "geometry"
                  THEN CheckFIFODMA(d, fifo) ELSE d
    /\ ch' = ch + 1
    /\ UNCHANGED <<use, geometry, card, pc, late, store, over>>

PassDma ==
    /\ pc = "dma" /\ ch \in Channels
    /\ ~dma[ch].executing /\ (~dma[ch].running \/ stalled \/ late)
    /\ ch' = ch + 1
    /\ UNCHANGED <<use, geometry, dma, card, pc, late, store, over>>

EndDma ==
    /\ pc = "dma" /\ ch \notin Channels
    /\ pc' = "gpu" /\ ch' = 0 /\ late' = FALSE
    /\ UNCHANGED <<use, geometry, dma, card, store, over>>

-----------------------------------------------------------------------------
(* GPU3D::Run, and the events of RunSystem. *)

\* A defective variant: a FIFO that runs low starts the channels before the stall
\* queue has been emptied into it, and not when it was full.
ExecuteQuiet ==
    /\ pc = "gpu" /\ ~flush
    /\ ExecuteCommand
    /\ dma' = IF Refills /\ ~stalled /\ Len(fifo) < Half - 1 THEN CheckDMAs(dma, "geometry") ELSE dma
    /\ pc' = IF flush' THEN "system" ELSE pc
    /\ UNCHANGED <<use, card, ch, late, store, over>>

\* A command is executed, and the FIFO may have become low enough for the DMA.
\* The time a swap takes ends the engine's turn.
Execute ==
    /\ pc = "gpu" /\ ~flush
    /\ ExecuteCommand
    /\ dma' = IF Refills THEN CheckFIFODMA(dma, fifo') ELSE dma
    /\ pc' = IF flush' THEN "system" ELSE pc
    /\ UNCHANGED <<use, card, ch, late, store, over>>

EndGpu ==
    /\ pc = "gpu"
    /\ pc' = "system"
    /\ \/ UNCHANGED geometry
       \/ ~flush /\ FinishWork
    /\ UNCHANGED <<use, dma, card, ch, late, store, over>>

\* A defective variant: the word is announced to the channels, whether or not
\* the last one has been taken.
CardEventAgain ==
    /\ pc = "system" /\ card.event # "none"
    /\ IF card.event = "prepare"
       THEN /\ card' = [ROMPrepareData(card) EXCEPT !.event = IF card.pos < card.len
                                                              THEN "prepare" ELSE "none"]
            /\ dma' = CheckDMAs(dma, "cart")
       ELSE card' = ROMEndTransfer([card EXCEPT !.event = "none"]) /\ UNCHANGED dma
    /\ UNCHANGED <<use, geometry, slice>>

\* Event_ROMTransfer is due.
CardEvent ==
    /\ pc = "system" /\ card.event # "none"
    /\ IF card.event = "prepare"
       THEN card' = ROMPrepareData(card) /\ dma' = CheckDMAs(dma, "cart")
       ELSE card' = ROMEndTransfer([card EXCEPT !.event = "none"]) /\ UNCHANGED dma
    /\ UNCHANGED <<use, geometry, slice>>

\* Line 192 begins.
VBlank ==
    /\ pc = "system"
    /\ dma' = CheckDMAs(dma, "vblank")
    /\ SwapBuffers
    /\ UNCHANGED <<use, card, slice>>

EndSystem ==
    /\ pc = "system"
    /\ pc' = "slice"
    /\ UNCHANGED <<use, geometry, dma, card, ch, late, store, over>>

Next ==
    \/ BeginSlice \/ WriteCommand
    \/ StoreCommands \/ SetIrqMode \/ AckIrq \/ EnableDma \/ DisableDma
    \/ StartCard \/ PollCard \/ SendCard \/ EndArm9
    \/ EnterDma \/ MoveUnit \/ LeaveDma \/ PassDma \/ EndDma
    \/ Execute \/ EndGpu
    \/ CardEvent \/ VBlank \/ EndSystem

\* The loop of RunFrame never stops.  What a phase is offered again and again it
\* does in the end: the clock runs on in every slice, so the ARM9's turn ends,
\* the engine's cycle count comes down, events fall due, and a program that
\* started a transfer looks for its words.
Fairness ==
    /\ WF_vars(Next)
    /\ SF_vars(EndArm9) /\ SF_vars(Execute) /\ SF_vars(CardEvent) /\ SF_vars(VBlank)
    /\ WF_vars(EndSystem) /\ SF_vars(PollCard \/ SendCard)

Spec == Init /\ [][Next]_vars /\ Fairness

-----------------------------------------------------------------------------
\* The types, with what must hold between the queues and the channels for the
\* handlers to be right: the pipe runs ahead of the FIFO and the FIFO ahead of
\* the stall queue, the system is stalled exactly while the stall queue holds
\* something, and at most one channel is inside Run9.
TypeOK ==
    /\ use \in Uses
    /\ GeometryTypeOK /\ Filled
    /\ dma \in [Channels -> ChannelType]
    /\ card \in CardType
    /\ pc \in Phases /\ ch \in Nat /\ late \in BOOLEAN
    /\ store \in Nat /\ over \in Nat
    /\ \A n \in Channels : dma[n].executing => pc = "dma" /\ ch = n /\ dma[n].running

\* A channel that feeds the geometry engine is never forgotten: at the start of
\* a slice each one that has words left and finds room in the FIFO is running,
\* although only the engine's own reads and the ends of batches look.
FedWhenLow ==
    pc = "slice" /\ Len(fifo) < Half =>
        \A n \in Channels :
            dma[n].inProgress /\ dma[n].enabled /\ dma[n].mode = "geometry" => dma[n].running

\* Everybody who waits on the level of the FIFO is told of it: the program that reads
\* GXSTAT or waits for its interrupt, and the channels.
LevelSeen == StatTruthful /\ FedWhenLow

\* Words go to and from the card in their order, each once, whoever takes them
\* and however long a stall or another channel holds them up, and the transfer
\* raises its interrupt once, after the last of them.
CardInOrder ==
    /\ \A i \in DOMAIN card.moved : card.moved[i] = i
    /\ card.busy => card.ended = 0
    /\ ~card.busy /\ card # ResetCard => card.ended = 1 /\ Len(card.moved) = card.len

\* A command counts as written when its store or DMA word goes on to the next; the
\* queues have taken it when it was given a number.
Taken == written' # written

\* The stall queue has room for all that is written until the system has stopped
\* (GPU3D.cpp:1694).
NothingLost == [][store' < store => Taken]_vars

\* What has no room is part of a store that the ARM9 executed although the system
\* was already stalled.  The store that stalls the system is taken whole, and so is
\* every word of a DMA channel.
LossNeedsOverrun == [][store' < store /\ ~Taken => pc = "arm9" /\ over > 0]_vars

\* What the geometry engine takes and what goes to or from the card arrives, once
\* and in order, also when commands have been refused in between; and those are
\* refused only to an ARM9 that runs on (LossNeedsOverrun).
Delivered ==
    [][/\ InSequence' /\ CardInOrder'
       /\ store' < store /\ ~Taken => pc = "arm9" /\ over > 0]_vars

\* A stalled system goes on; a channel that has started finishes, whatever stops
\* it in between, unless the ARM9's own stores keep the FIFO filled; a transfer
\* with the card ends.
Proceeds ==
    /\ stalled ~> ~stalled
    /\ []<>(pc = "slice" /\ Len(fifo) < Half) =>
           \A n \in Channels : dma[n].inProgress ~> ~dma[n].inProgress
    /\ card.busy ~> ~card.busy
=============================================================================

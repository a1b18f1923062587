---------------------------- MODULE CartTransfer ----------------------------
(***************************************************************************)
(* Transfers to and from a game card (NDSCart.cpp: WriteROMCnt,            *)
(* ROMPrepareData, AdvanceROMTransfer, ReadROMData, WriteROMData,          *)
(* ROMEndTransfer) as functions of the card interface's registers.  One    *)
(* word is transferred at a time: the event ROMTransfer makes it ready, a  *)
(* program or a DMA channel takes it, which schedules the event for the    *)
(* next, and the last one ends the transfer with an interrupt.  Words are  *)
(* numbered from 1; encryption, command decoding and delays are left out.  *)
(***************************************************************************)
EXTENDS Naturals, Sequences

CONSTANT Blocks   \* the block sizes of the transfers, in words

ASSUME CartAssumption == Blocks \subseteq Nat

CardType ==
    [busy : BOOLEAN,                       \* bit 31 of ROMCnt
     ready : BOOLEAN,                      \* bit 23 of ROMCnt
     write : BOOLEAN,                      \* TransferDir
     len : Blocks \cup {0}, pos : Nat,     \* TransferLen, TransferPos
     data : Nat,                           \* ROMData
     event : {"none", "prepare", "end"},   \* what Event_ROMTransfer is to do
     moved : Seq(Nat),                     \* the words that went to the other side
     ended : Nat]                          \* the interrupts this transfer raised

ResetCard == [busy |-> FALSE, ready |-> FALSE, write |-> FALSE, len |-> 0, pos |-> 0,
              data |-> 0, event |-> "none", moved |-> <<>>, ended |-> 0]

\* WriteROMCnt with the start bit set.
StartTransfer(r, len, write) ==
    [r EXCEPT !.busy = TRUE, !.ready = FALSE, !.write = write, !.len = len, !.pos = 0,
              !.event = IF len = 0 THEN "end" ELSE "prepare",
              !.moved = <<>>, !.ended = 0]

ROMEndTransfer(r) == [r EXCEPT !.busy = FALSE, !.ended = @ + 1]

\* The event, when it is ROMTransfer_PrepareData.
ROMPrepareData(r) ==
    IF r.write
    THEN [r EXCEPT !.ready = TRUE, !.event = "none"]
    ELSE [r EXCEPT !.ready = TRUE, !.event = "none", !.pos = @ + 1,
                   !.data = IF r.pos >= r.len THEN 0 ELSE r.pos + 1]

AdvanceROMTransfer(r) ==
    LET s == [r EXCEPT !.ready = FALSE]
    IN  IF s.pos < s.len THEN [s EXCEPT !.event = "prepare"] ELSE ROMEndTransfer(s)

\* A word is read whether or not it is ready: one that is not is the last again.
ReadROMData(r) ==
    LET s == [r EXCEPT !.moved = Append(@, r.data)]
    IN  IF r.ready THEN AdvanceROMTransfer(s) ELSE s

WriteROMData(r, word) ==
    LET s == [r EXCEPT !.data = word]
    IN  IF r.ready /\ r.write
        THEN AdvanceROMTransfer(
                 [s EXCEPT !.pos = @ + 1,
                           !.moved = IF r.pos < r.len THEN Append(@, word) ELSE @])
        ELSE s
=============================================================================

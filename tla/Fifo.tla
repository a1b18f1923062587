-------------------------------- MODULE Fifo --------------------------------
(***************************************************************************)
(* FIFO<T, NumEntries> (FIFO.h): a ring buffer with a read position, a     *)
(* write position and a count, as functions from state to state.           *)
(***************************************************************************)
EXTENDS Naturals, Sequences

CONSTANTS NumEntries,  \* the capacity
          Data,        \* the values an entry can have
          Zero         \* the value of a cleared entry

ASSUME FifoAssumption == NumEntries \in Nat \ {0} /\ Zero \in Data

Positions == 0 .. NumEntries - 1
FifoType  == [entries : [Positions -> Data], occupied : 0 .. NumEntries,
              readPos : Positions, writePos : Positions]

IsEmpty(f) == f.occupied = 0
IsFull(f)  == f.occupied >= NumEntries

\* A defective variant: the end is one entry too late.
StepPast(p) == IF p + 1 > NumEntries THEN 0 ELSE p + 1

\* Positions count up and start again at the end.
Step(p) == IF p + 1 >= NumEntries THEN 0 ELSE p + 1
At(f, offset) ==
    IF f.readPos + offset >= NumEntries THEN f.readPos + offset - NumEntries
                                        ELSE f.readPos + offset

NewFifo == [entries |-> [p \in Positions |-> Zero], occupied |-> 0,
            readPos |-> 0, writePos |-> 0]

\* A defective variant: writing goes on from where it was.
ClearRead(f) == [entries |-> [f.entries EXCEPT ![0] = Zero], occupied |-> 0,
                 readPos |-> 0, writePos |-> f.writePos]

\* Clear zeroes one entry, the one the read position starts from.
Clear(f) == [entries |-> [f.entries EXCEPT ![0] = Zero], occupied |-> 0,
             readPos |-> 0, writePos |-> 0]

Write(f, v) ==
    IF IsFull(f)
    THEN f
    ELSE [f EXCEPT !.entries[f.writePos] = v, !.writePos = Step(f.writePos),
                   !.occupied = @ + 1]

\* The state after a Read, and the value it returns: of an empty FIFO the entry
\* read last.
Read(f) ==
    IF IsEmpty(f)
    THEN f
    ELSE [f EXCEPT !.readPos = Step(f.readPos), !.occupied = @ - 1]

ReadValue(f) ==
    IF IsEmpty(f)
    THEN f.entries[(IF f.readPos = 0 THEN NumEntries ELSE f.readPos) - 1]
    ELSE f.entries[f.readPos]

Peek(f) == f.entries[f.readPos]

-----------------------------------------------------------------------------
\* What is in a FIFO, oldest first.
Contents(f) == [i \in 1 .. f.occupied |-> f.entries[At(f, i - 1)]]

\* The count and the two positions agree.
Consistent(f) == f.writePos = At(f, f.occupied)
=============================================================================

---------------------------- MODULE GeometryFifo ----------------------------
(***************************************************************************)
(* The command queue of the geometry engine (GPU3D.cpp): the pipe, the     *)
(* FIFO behind it, and the queue that takes what is written to a full FIFO *)
(* until the system has come to a stop.  A command is known by its number  *)
(* in the stream of commands these queues take, modulo Stream, and KindOf  *)
(* says what it is: "matrix" for a push or pop, which GXSTAT counts,       *)
(* "swap" for the one that waits for the vertical blank, "plain" for all   *)
(* others (box, position and vector tests are counted as matrix commands   *)
(* are).                                                                   *)
(***************************************************************************)
EXTENDS Naturals, Sequences, FiniteSets

CONSTANTS PipeSize,   \* entries of CmdPIPE (4)
          FifoSize,   \* entries of CmdFIFO (256)
          StallSize,  \* entries of CmdStallQueue (64)
          Half,       \* the level below which the FIFO asks for more (128)
          Stream,     \* the modulus of command numbers
          KindOf      \* the kind of each command

Commands == 0 .. Stream - 1

ASSUME GeometryAssumption ==
    /\ PipeSize \in Nat /\ FifoSize \in Nat /\ StallSize \in Nat \ {0} /\ Half \in Nat
    /\ PipeSize >= 4 /\ FifoSize > 2 /\ Half <= FifoSize
    /\ Stream \in Nat /\ Stream > PipeSize + FifoSize + StallSize
    /\ KindOf \in [Commands -> {"plain", "matrix", "swap"}]

VARIABLES
    pipe, fifo, queue,  \* CmdPIPE, CmdFIFO, CmdStallQueue
    stalled,            \* CPUStop_GXStall
    written,            \* the number of the next command that is taken
    executed,           \* the number of the next command to be executed
    matrixOps,          \* NumPushPopCommands
    stat,               \* GXSTAT: bits 27 and 14, and the interrupt mode
    pending,            \* IRQ_GXFIFO in IF
    flush               \* FlushRequest

geometry == <<pipe, fifo, queue, stalled, written, executed, matrixOps, stat, pending, flush>>

StatType == [busy : BOOLEAN, matrix : BOOLEAN, irq : 0 .. 2]

GeometryInit ==
    /\ pipe = <<>> /\ fifo = <<>> /\ queue = <<>>
    /\ stalled = FALSE
    /\ written = 0 /\ executed = 0 /\ matrixOps = 0
    /\ stat = [busy |-> FALSE, matrix |-> FALSE, irq |-> 0]
    /\ pending = FALSE /\ flush = FALSE

After(n) == (n + 1) % Stream
Lesser(a, b) == IF a < b THEN a ELSE b
IsMatrix(n) == KindOf[n] = "matrix"
MatrixIn(s) == {i \in DOMAIN s : IsMatrix(s[i])}

\* A command that has reached the pipe or the FIFO shows in GXSTAT.
Counted(s, finished) ==
    /\ matrixOps' = matrixOps + Cardinality(MatrixIn(s)) - Cardinality(MatrixIn(finished))
    /\ stat' = [stat EXCEPT !.busy = @ \/ s # <<>>,
                            !.matrix = (@ /\ (finished = <<>> \/ matrixOps # 0))
                                       \/ MatrixIn(s) # {}]

\* Where the next command goes: to the pipe, and nowhere when all three are full.
Direct == fifo = <<>> /\ Len(pipe) < PipeSize
Refused == ~Direct /\ Len(fifo) >= FifoSize /\ Len(queue) >= StallSize

\* A defective variant: a pipe with room is filled first, whatever is in the FIFO.
CmdFIFOWritePipe ==
    LET n == written
        direct == Len(pipe) < PipeSize
    IN  /\ \/ /\ direct
              /\ pipe' = Append(pipe, n)
              /\ Counted(<<n>>, <<>>)
              /\ UNCHANGED <<fifo, queue, stalled>>
           \/ /\ ~direct /\ Len(fifo) < FifoSize
              /\ fifo' = Append(fifo, n)
              /\ Counted(<<n>>, <<>>)
              /\ UNCHANGED <<pipe, queue, stalled>>
           \/ /\ ~direct /\ Len(fifo) >= FifoSize
              /\ queue' = IF Len(queue) < StallSize THEN Append(queue, n) ELSE queue
              /\ stalled' = TRUE
              /\ UNCHANGED <<pipe, fifo, stat, matrixOps>>
        /\ written' = After(n)
        /\ UNCHANGED <<executed, pending, flush>>

\* The program or a DMA channel writes the next command.  Behind a full FIFO it
\* goes to the stall queue and the system is told to stop; a queue that is full
\* itself takes nothing.
CmdFIFOWrite ==
    LET n == written
    IN  /\ \/ /\ Direct
              /\ pipe' = Append(pipe, n)
              /\ Counted(<<n>>, <<>>)
              /\ UNCHANGED <<fifo, queue, stalled>>
           \/ /\ ~Direct /\ Len(fifo) < FifoSize
              /\ fifo' = Append(fifo, n)
              /\ Counted(<<n>>, <<>>)
              /\ UNCHANGED <<pipe, queue, stalled>>
           \/ /\ ~Direct /\ Len(fifo) >= FifoSize
              /\ queue' = IF Refused THEN queue ELSE Append(queue, n)
              /\ stalled' = TRUE
              /\ UNCHANGED <<pipe, fifo, stat, matrixOps>>
        /\ written' = IF Refused THEN written ELSE After(n)
        /\ UNCHANGED <<executed, pending, flush>>

\* The interrupt the FIFO asks for at this level (CheckFIFOIRQ).
Asks(f, irq) == (irq = 1 /\ Len(f) < Half) \/ (irq = 2 /\ f = <<>>)

\* CmdFIFORead looks behind the pipe once two entries are left in it.
Refills == Len(pipe) <= 3

\* A defective variant: the system goes on as soon as one command has left the
\* stall queue.
ExecuteCommandEarly ==
    LET n == Head(pipe)
        f == Lesser(2, Len(fifo))
        kept == SubSeq(fifo, f + 1, Len(fifo))
        q == Lesser(Len(queue), FifoSize - Len(kept))
    IN  /\ pipe # <<>>
        /\ \/ /\ Refills
              /\ pipe' = Tail(pipe) \o SubSeq(fifo, 1, f)
              /\ fifo' = kept \o SubSeq(queue, 1, q)
              /\ queue' = SubSeq(queue, q + 1, Len(queue))
              /\ stalled' = FALSE
              /\ Counted(SubSeq(queue, 1, q), <<n>>)
              /\ pending' = Asks(fifo', stat.irq)
           \/ /\ ~Refills
              /\ pipe' = Tail(pipe)
              /\ Counted(<<>>, <<n>>)
              /\ UNCHANGED <<fifo, queue, stalled, pending>>
        /\ executed' = After(n)
        /\ flush' = (KindOf[n] = "swap")
        /\ UNCHANGED written

\* ExecuteCommand takes the oldest command (CmdFIFORead) and carries it out.
\* Two entries of the FIFO follow into the pipe, what the stall queue holds
\* follows into the FIFO, as far as it goes, and the system goes on when that
\* was all of it.
ExecuteCommand ==
    LET n == Head(pipe)
        f == Lesser(2, Len(fifo))
        kept == SubSeq(fifo, f + 1, Len(fifo))
        q == Lesser(Len(queue), FifoSize - Len(kept))
    IN  /\ pipe # <<>>
        /\ \/ /\ Refills
              /\ pipe' = Tail(pipe) \o SubSeq(fifo, 1, f)
              /\ fifo' = kept \o SubSeq(queue, 1, q)
              /\ queue' = SubSeq(queue, q + 1, Len(queue))
              /\ stalled' = (stalled /\ (queue = <<>> \/ q < Len(queue)))
              /\ Counted(SubSeq(queue, 1, q), <<n>>)
              /\ pending' = Asks(fifo', stat.irq)
           \/ /\ ~Refills
              /\ pipe' = Tail(pipe)
              /\ Counted(<<>>, <<n>>)
              /\ UNCHANGED <<fifo, queue, stalled, pending>>
        /\ executed' = After(n)
        /\ flush' = (KindOf[n] = "swap")
        /\ UNCHANGED written

\* The end of Run when nothing is left to do: the engine is done with its
\* work, which may take some more time (FinishWork).
FinishWork ==
    /\ pipe = <<>> /\ stat.busy
    /\ \E busy \in BOOLEAN :
           stat' = [stat EXCEPT !.busy = busy, !.matrix = @ /\ matrixOps # 0]
    /\ UNCHANGED <<pipe, fifo, queue, stalled, written, executed, matrixOps, pending, flush>>

\* The program chooses when the FIFO asks for an interrupt.
WriteGXStat ==
    /\ \E irq \in 0 .. 2 :
           /\ stat' = [stat EXCEPT !.irq = irq]
           /\ pending' = Asks(fifo, irq)
    /\ UNCHANGED <<pipe, fifo, queue, stalled, written, executed, matrixOps, flush>>

\* The program acknowledges interrupts in IF; the FIFO asks again at once.
Acknowledge ==
    /\ pending' = Asks(fifo, stat.irq)
    /\ UNCHANGED <<pipe, fifo, queue, stalled, written, executed, matrixOps, stat, flush>>

\* The vertical blank carries out the buffer swap the engine waits for.
SwapBuffers ==
    /\ flush' = FALSE
    /\ UNCHANGED <<pipe, fifo, queue, stalled, written, executed, matrixOps, stat, pending>>

-----------------------------------------------------------------------------
GeometryTypeOK ==
    /\ pipe \in Seq(Commands) /\ Len(pipe) <= PipeSize
    /\ fifo \in Seq(Commands) /\ Len(fifo) <= FifoSize
    /\ queue \in Seq(Commands) /\ Len(queue) <= StallSize
    /\ stalled \in BOOLEAN /\ pending \in BOOLEAN /\ flush \in BOOLEAN
    /\ written \in Commands /\ executed \in Commands
    /\ matrixOps \in Nat
    /\ stat \in StatType

\* The pipe runs ahead of the FIFO and the FIFO ahead of the stall queue, and
\* the system is stopped exactly while the stall queue holds something.
Filled ==
    /\ fifo # <<>> => Len(pipe) > 2
    /\ queue # <<>> => Len(fifo) = FifoSize
    /\ stalled <=> queue # <<>>

\* Whatever programs and DMA channels write, and however the FIFO runs full and
\* the system stops: the commands that wait are those taken and not yet executed,
\* every one of them once and in the order they came.
Waiting == pipe \o fifo \o queue
InSequence ==
    /\ Len(Waiting) = (written + Stream - executed) % Stream
    /\ \A i \in DOMAIN Waiting : Waiting[i] = (executed + i - 1) % Stream

\* What GXSTAT and IF tell the program is so: busy while commands wait, the
\* matrix bit while a push or pop is among them, and the interrupt pending
\* whenever the FIFO is at the level at which it asks for it.
StatTruthful ==
    /\ pipe # <<>> => stat.busy
    /\ MatrixIn(pipe \o fifo) # {} => stat.matrix
    /\ matrixOps = Cardinality(MatrixIn(pipe \o fifo))
    /\ Asks(fifo, stat.irq) => pending
=============================================================================

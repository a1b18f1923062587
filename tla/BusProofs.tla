------------------------------ MODULE BusProofs ------------------------------
(***************************************************************************)
(* What the operations of the geometry engine's command queue do, for all  *)
(* sizes of the three queues: their shape, the order of the commands that  *)
(* wait in them, and what GXSTAT tells of them.  Then what holds of Bus    *)
(* for all sizes of the queues, all channels and all programs: its types,  *)
(* that GXSTAT, its interrupt and the channels follow the level of the     *)
(* FIFO, that every command taken and every word of the card arrives once  *)
(* and in order, and which commands are not taken.                         *)
(***************************************************************************)
EXTENDS Bus, FiniteSetTheorems, SequenceTheorems, TLAPS

\* The types, and how the three queues and the stall depend on each other.
Shape ==
    /\ pipe \in Seq(Commands) /\ Len(pipe) <= PipeSize
    /\ fifo \in Seq(Commands) /\ Len(fifo) <= FifoSize
    /\ queue \in Seq(Commands) /\ Len(queue) <= StallSize
    /\ stalled \in BOOLEAN /\ pending \in BOOLEAN /\ flush \in BOOLEAN
    /\ written \in Commands /\ executed \in Commands
    /\ stat \in StatType
    /\ Filled

\* The number of the command k places behind command e.
Place(e, k) == IF e + k < Stream THEN e + k ELSE e + k - Stream

\* A run of commands without a gap, from command e.
Run(s, e) == \A i \in 1 .. Len(s) : s[i] = Place(e, i - 1)

InOrder == Run(Waiting, executed) /\ written = Place(executed, Len(Waiting))

\* How many commands of a sequence GXSTAT counts.
Matrices(s) == Cardinality(MatrixIn(s))

-----------------------------------------------------------------------------
(* Command numbers. *)

\* There are command numbers.
LEMMA StreamFits == Stream \in Nat /\ Stream > 0
  BY GeometryAssumption

\* The place of a command is the sum modulo Stream that the model computes.
LEMMA PlaceIsModulo ==
  ASSUME NEW e \in Commands, NEW k \in 0 .. Stream - 1
  PROVE  (e + k) % Stream = Place(e, k) /\ Place(e, k) \in Commands
  BY StreamFits DEF Commands, Place

\* The next command number, seen from the command and from its place.
LEMMA PlaceAfter ==
  ASSUME NEW e \in Commands, NEW k \in 0 .. Stream - 2
  PROVE  /\ After(e) \in Commands
         /\ Place(After(e), k) = Place(e, k + 1)
         /\ After(Place(e, k)) = Place(e, k + 1)
  <1>1. \A n \in Commands : After(n) = IF n + 1 < Stream THEN n + 1 ELSE 0
    BY StreamFits DEF Commands, After
  <1>2. Place(e, k) \in Commands
    BY StreamFits DEF Commands, Place
  <1>3. QED BY <1>1, <1>2, StreamFits DEF Commands, Place

\* A command at the end carries a run on.
LEMMA RunAppend ==
  ASSUME NEW e \in Commands, NEW s \in Seq(Commands), Len(s) < Stream, Run(s, e)
  PROVE  Run(Append(s, Place(e, Len(s))), e)
  <1> DEFINE n == Place(e, Len(s))
             t == Append(s, n)
  <1>1. n \in Commands
    BY PlaceIsModulo, StreamFits DEF Commands
  <1>2. /\ Len(t) = Len(s) + 1 /\ t[Len(s) + 1] = n
        /\ \A i \in 1 .. Len(s) : t[i] = s[i]
    BY <1>1, AppendProperties
  <1>3. ASSUME NEW i \in 1 .. Len(t) PROVE t[i] = Place(e, i - 1)
    BY <1>2 DEF Run
  <1>4. QED BY <1>3 DEF Run

\* Without its first command a run is the run from the next.
LEMMA RunTail ==
  ASSUME NEW e \in Commands, NEW n \in Commands, NEW t \in Seq(Commands),
         Len(t) < Stream - 1, Run(<<n>> \o t, e)
  PROVE  n = e /\ Run(t, After(e))
  <1> DEFINE s == <<n>> \o t
  <1>1. /\ Len(s) = Len(t) + 1 /\ s[1] = n
        /\ \A i \in 1 .. Len(t) : s[i + 1] = t[i]
    OBVIOUS
  <1>2. n = e
    BY <1>1, StreamFits DEF Run, Place, Commands
  <1>3. ASSUME NEW i \in 1 .. Len(t) PROVE t[i] = Place(After(e), i - 1)
    <2>1. i + 1 \in 1 .. Len(s) /\ (i + 1) - 1 = i
      BY <1>1
    <2>2. s[i + 1] = Place(e, (i + 1) - 1)
      BY <2>1 DEF Run
    <2>3. t[i] = Place(e, i)
      BY <1>1, <2>1, <2>2
    <2>4. QED BY <2>3, PlaceAfter, StreamFits
  <1>4. QED BY <1>2, <1>3 DEF Run

-----------------------------------------------------------------------------
(* Counting pushes and pops. *)

\* What is counted of a sequence is finite.
LEMMA MatricesType ==
  ASSUME NEW s \in Seq(Commands)
  PROVE  /\ IsFiniteSet(MatrixIn(s)) /\ Matrices(s) \in Nat
         /\ Matrices(s) = 0 <=> MatrixIn(s) = {}
  <1>1. IsFiniteSet(1 .. Len(s)) /\ MatrixIn(s) \subseteq 1 .. Len(s)
    BY FS_Interval DEF MatrixIn
  <1>2. IsFiniteSet(MatrixIn(s))
    BY <1>1, FS_Subset
  <1>3. QED BY <1>2, FS_CardinalityType, FS_EmptySet DEF Matrices

\* Nothing is counted of no commands.
LEMMA NoMatrices == MatrixIn(<<>>) = {} /\ Matrices(<<>>) = 0
  BY FS_EmptySet DEF MatrixIn, Matrices

\* What is counted of two sequences adds up.
LEMMA MatricesConcat ==
  ASSUME NEW s \in Seq(Commands), NEW t \in Seq(Commands)
  PROVE  /\ Matrices(s \o t) = Matrices(s) + Matrices(t)
         /\ MatrixIn(s \o t) = {} <=> MatrixIn(s) = {} /\ MatrixIn(t) = {}
  <1> DEFINE A == MatrixIn(s)
             B == MatrixIn(t)
             C == {i + Len(s) : i \in B}
             shift == [i \in B |-> i + Len(s)]
  <1>1. MatrixIn(s \o t) = A \cup C
    <2>1. /\ Len(s \o t) = Len(s) + Len(t)
          /\ \A i \in 1 .. Len(s) : (s \o t)[i] = s[i]
          /\ \A i \in 1 .. Len(t) : (s \o t)[i + Len(s)] = t[i]
      OBVIOUS
    <2>2. \A i \in MatrixIn(s \o t) : i > Len(s) => i - Len(s) \in B
      BY <2>1 DEF MatrixIn
    <2>3. QED BY <2>1, <2>2 DEF MatrixIn
  <1>2. A \cap C = {}
    BY DEF MatrixIn
  <1>3. IsFiniteSet(C) /\ Cardinality(C) = Matrices(t)
    <2>1. B \subseteq Nat
      BY DEF MatrixIn
    <2>2. shift \in Bijection(B, C)
      BY <2>1 DEF Bijection, Injection, Surjection, IsInjective
    <2>3. ExistsBijection(B, C)
      BY <2>2 DEF ExistsBijection
    <2>4. QED BY <2>3, MatricesType, FS_Bijection DEF Matrices
  <1>4. Matrices(s \o t) = Matrices(s) + Matrices(t)
    <2>1. Cardinality(A \cup C) = Cardinality(A) + Cardinality(C) - Cardinality(A \cap C)
      BY <1>3, MatricesType, FS_Union
    <2>2. Cardinality(A \cap C) = 0
      BY <1>2, FS_EmptySet
    <2>3. QED BY <1>1, <1>3, <2>1, <2>2, MatricesType DEF Matrices
  <1>5. C = {} <=> B = {}
    OBVIOUS
  <1>6. QED BY <1>1, <1>4, <1>5

-----------------------------------------------------------------------------
(* Sequences of commands. *)

\* A queue, its length, and the queue with a command behind it.
LEMMA CommandSeqs ==
  ASSUME NEW s \in Seq(Commands)
  PROVE  /\ Len(s) \in Nat /\ (Len(s) = 0 <=> s = <<>>)
         /\ \A n \in Commands :
               /\ Append(s, n) \in Seq(Commands) /\ Len(Append(s, n)) = Len(s) + 1
               /\ Append(s, n) = s \o <<n>> /\ Append(s, n) # <<>>
         /\ s \o <<>> = s
  <1>1. \A n \in Commands :
           /\ Append(s, n) \in Seq(Commands) /\ Len(Append(s, n)) = Len(s) + 1
           /\ Append(s, n) = s \o <<n>> /\ Append(s, n) # <<>>
    BY AppendProperties, AppendIsConcat
  <1>2. QED BY <1>1, EmptySeq, ConcatEmptySeq, LenProperties

\* Two queues one behind the other.
LEMMA CommandConcat ==
  ASSUME NEW s \in Seq(Commands), NEW t \in Seq(Commands)
  PROVE  s \o t \in Seq(Commands) /\ Len(s \o t) = Len(s) + Len(t)
  BY ConcatProperties

\* Commands that move up from one queue to the next keep their order.
LEMMA CommandAssociative ==
  ASSUME NEW s \in Seq(Commands), NEW t \in Seq(Commands), NEW u \in Seq(Commands)
  PROVE  (s \o t) \o u = s \o (t \o u)
  BY ConcatAssociative

\* All that waits is a sequence of commands no longer than the three queues.
LEMMA WaitingType ==
  ASSUME Shape
  PROVE  /\ Waiting \in Seq(Commands)
         /\ Len(Waiting) = Len(pipe) + Len(fifo) + Len(queue)
         /\ Len(Waiting) < Stream
  BY CommandSeqs, CommandConcat, GeometryAssumption DEF Shape, Waiting

-----------------------------------------------------------------------------
(* CmdFIFOWrite. *)

\* The three ways a command can go.
ToPipe  == fifo = <<>> /\ Len(pipe) < PipeSize
ToFifo  == ~ToPipe /\ Len(fifo) < FifoSize
ToQueue == ~ToPipe /\ Len(fifo) >= FifoSize

\* CmdFIFOWrite does one of three things.
LEMMA WriteCases ==
  ASSUME Shape, CmdFIFOWrite
  PROVE  /\ written' = (IF Refused THEN written ELSE After(written)) /\ executed' = executed
         /\ Refused <=> ToQueue /\ ~(Len(queue) < StallSize)
         /\ pending' = pending /\ flush' = flush
         /\ ToPipe \/ ToFifo \/ ToQueue
         /\ ToPipe => /\ pipe' = Append(pipe, written) /\ Counted(<<written>>, <<>>)
                      /\ UNCHANGED <<fifo, queue, stalled>>
         /\ ToFifo => /\ fifo' = Append(fifo, written) /\ Counted(<<written>>, <<>>)
                      /\ UNCHANGED <<pipe, queue, stalled>>
         /\ ToQueue => /\ queue' = IF Len(queue) < StallSize THEN Append(queue, written) ELSE queue
                       /\ stalled' = TRUE
                       /\ UNCHANGED <<pipe, fifo, stat, matrixOps>>
  <1>1. /\ Len(fifo) \in Nat /\ FifoSize \in Nat
        /\ Len(queue) \in Nat /\ StallSize \in Nat
    BY GeometryAssumption, CommandSeqs DEF Shape
  <1>2. Refused <=> ToQueue /\ ~(Len(queue) < StallSize)
    BY <1>1 DEF Refused, Direct, ToPipe, ToQueue
  <1>3. ToPipe \/ ToFifo \/ ToQueue
    BY <1>1 DEF ToPipe, ToFifo, ToQueue
  <1>4. QED BY <1>1, <1>2, <1>3 DEF CmdFIFOWrite, Direct, ToPipe, ToFifo, ToQueue

\* What counting commands in and out does to GXSTAT.
LEMMA CountedStat ==
  ASSUME stat \in StatType, NEW s, NEW t, Counted(s, t)
  PROVE  /\ stat' \in StatType /\ stat'.irq = stat.irq
         /\ stat'.busy <=> stat.busy \/ s # <<>>
         /\ stat'.matrix <=> \/ stat.matrix /\ (t = <<>> \/ matrixOps # 0)
                            \/ MatrixIn(s) # {}
  BY DEF Counted, StatType

\* A write keeps the shape of the queues, and never lowers the level of the FIFO.
LEMMA WriteShape ==
  ASSUME Shape, CmdFIFOWrite
  PROVE  Shape' /\ Len(fifo') >= Len(fifo)
  <1>1. After(written) \in Commands /\ written \in Commands
    BY StreamFits DEF Shape, After, Commands
  <1>2. /\ pipe \in Seq(Commands) /\ fifo \in Seq(Commands) /\ queue \in Seq(Commands)
        /\ Len(pipe) \in Nat /\ Len(fifo) \in Nat /\ Len(queue) \in Nat
        /\ (Len(fifo) = 0 <=> fifo = <<>>) /\ (Len(queue) = 0 <=> queue = <<>>)
    BY CommandSeqs DEF Shape
  <1>3. stat' \in StatType
    BY WriteCases, CountedStat DEF Shape
  <1>4. written' \in Commands /\ UNCHANGED <<executed, pending, flush>>
    BY <1>1, WriteCases
  <1>5. CASE ToPipe
    <2>1. /\ pipe' \in Seq(Commands) /\ Len(pipe') = Len(pipe) + 1
          /\ UNCHANGED <<fifo, queue, stalled>>
      BY ZenonT(40), <1>1, <1>2, <1>5, WriteCases, CommandSeqs
    <2>2. QED BY <1>2, <1>3, <1>4, <1>5, <2>1, GeometryAssumption DEF Shape, Filled, ToPipe
  <1>6. CASE ToFifo
    <2>1. /\ fifo' \in Seq(Commands) /\ Len(fifo') = Len(fifo) + 1
          /\ UNCHANGED <<pipe, queue, stalled>>
      BY ZenonT(40), <1>1, <1>2, <1>6, WriteCases, CommandSeqs
    <2>2. QED BY <1>2, <1>3, <1>4, <1>6, <2>1, GeometryAssumption DEF Shape, Filled, ToPipe, ToFifo
  <1>7. CASE ToQueue
    <2>1. queue' = (IF Len(queue) < StallSize THEN Append(queue, written) ELSE queue)
          /\ stalled' = TRUE /\ UNCHANGED <<pipe, fifo>>
      BY <1>7, WriteCases
    <2>2. /\ queue' \in Seq(Commands) /\ queue' # <<>>
          /\ Len(queue') = IF Len(queue) < StallSize THEN Len(queue) + 1 ELSE Len(queue)
      BY <1>1, <1>2, <2>1, CommandSeqs, GeometryAssumption
    <2>3. QED BY <1>2, <1>3, <1>4, <1>7, <2>1, <2>2, GeometryAssumption DEF Shape, Filled, ToQueue
  <1>8. QED BY <1>5, <1>6, <1>7, WriteCases

\* What is taken waits behind everything else, and what is refused disturbs nothing.
LEMMA WriteInOrder ==
  ASSUME Shape, InOrder, CmdFIFOWrite
  PROVE  InOrder'
  <1>1. /\ pipe \in Seq(Commands) /\ fifo \in Seq(Commands) /\ queue \in Seq(Commands)
        /\ written \in Commands /\ executed \in Commands
    BY DEF Shape
  <1>10. CASE Refused
    <2>1. UNCHANGED <<pipe, fifo, queue, written, executed>>
      BY <1>10, WriteCases
    <2>2. QED BY <2>1 DEF InOrder, Waiting, Run
  <1>11. SUFFICES ASSUME ~Refused PROVE InOrder'
    BY <1>10
  <1>2. Waiting' = Append(Waiting, written)
    <2>1. CASE ToPipe
      <3>1. queue = <<>> /\ fifo = <<>>
        BY <2>1, GeometryAssumption DEF ToPipe, Shape, Filled
      <3>2. pipe' = Append(pipe, written) /\ fifo' = fifo /\ queue' = queue
        BY <2>1, WriteCases
      <3>3. QED BY <1>1, <3>1, <3>2, CommandSeqs DEF Waiting
    <2>2. CASE ToFifo
      <3>1. queue = <<>>
        BY <2>2, GeometryAssumption DEF ToFifo, Shape, Filled
      <3>2. pipe' = pipe /\ fifo' = fifo \o <<written>> /\ queue' = queue
        BY <2>2, <1>1, WriteCases, CommandSeqs
      <3>3. Waiting' = (pipe \o fifo) \o <<written>> /\ Waiting = pipe \o fifo
        BY <1>1, <3>1, <3>2, CommandSeqs, CommandConcat, ConcatAssociative DEF Waiting
      <3>4. QED BY <1>1, <3>3, CommandSeqs, CommandConcat
    <2>3. CASE ToQueue
      <3>1. pipe' = pipe /\ fifo' = fifo /\ queue' = queue \o <<written>>
        BY <2>3, <1>1, <1>11, WriteCases, CommandSeqs
      <3>2. Waiting' = Waiting \o <<written>>
        BY <1>1, <3>1, CommandConcat, ConcatAssociative DEF Waiting
      <3>3. QED BY <1>1, <3>2, CommandSeqs, WaitingType
    <2>4. QED BY <2>1, <2>2, <2>3, WriteCases
  <1>3. written' = After(written) /\ executed' = executed
    BY <1>11, WriteCases
  <1>4. Run(Waiting', executed)
    BY <1>1, <1>2, WaitingType, RunAppend DEF InOrder
  <1>5. Len(Waiting') = Len(Waiting) + 1
    BY <1>1, <1>2, WaitingType, CommandSeqs
  <1>6. Len(Waiting) + 1 < Stream
    <2>1. Len(pipe) < PipeSize \/ Len(fifo) < FifoSize \/ Len(queue) < StallSize
      BY <1>11, WriteCases DEF ToPipe, ToFifo
    <2>2. /\ Len(pipe) \in Nat /\ Len(fifo) \in Nat /\ Len(queue) \in Nat
          /\ Len(pipe) <= PipeSize /\ Len(fifo) <= FifoSize /\ Len(queue) <= StallSize
          /\ Len(Waiting) = Len(pipe) + Len(fifo) + Len(queue)
      BY <1>1, WaitingType, CommandSeqs DEF Shape
    <2>3. QED BY <2>1, <2>2, GeometryAssumption
  <1>7. written' = Place(executed, Len(Waiting) + 1)
    <2>1. written = Place(executed, Len(Waiting)) /\ Len(Waiting) \in 0 .. Stream - 2
      BY <1>6, WaitingType, CommandSeqs, StreamFits DEF InOrder
    <2>2. QED BY <1>1, <1>3, <2>1, PlaceAfter
  <1>8. QED BY <1>3, <1>4, <1>5, <1>7 DEF InOrder

\* GXSTAT and the interrupt tell the truth after a write.
LEMMA WriteTruthful ==
  ASSUME Shape, StatTruthful, CmdFIFOWrite
  PROVE  StatTruthful'
  <1>1. /\ pipe \in Seq(Commands) /\ fifo \in Seq(Commands)
        /\ pipe \o fifo \in Seq(Commands)
        /\ written \in Commands /\ <<written>> \in Seq(Commands)
    BY CommandConcat DEF Shape
  <1>2. /\ matrixOps = Matrices(pipe \o fifo) /\ matrixOps \in Nat
        /\ Matrices(<<written>>) \in Nat /\ Matrices(<<>>) = 0
    <2>1. matrixOps = Matrices(pipe \o fifo)
      BY DEF StatTruthful, Matrices
    <2>2. Matrices(pipe \o fifo) \in Nat /\ Matrices(<<written>>) \in Nat
      BY <1>1, MatricesType
    <2>3. QED BY <2>1, <2>2, NoMatrices
  <1>3. CASE ToPipe \/ ToFifo
    <2>1. pipe' \o fifo' = (pipe \o fifo) \o <<written>>
      <3>1. CASE ToPipe
        <4>1. fifo = <<>>
          BY <3>1 DEF ToPipe
        <4>2. QED BY <1>1, <3>1, <4>1, WriteCases, CommandSeqs
      <3>2. CASE ToFifo
        <4>1. pipe' = pipe /\ fifo' = fifo \o <<written>>
          BY <1>1, <3>2, WriteCases, CommandSeqs
        <4>2. QED BY <1>1, <4>1, ConcatAssociative
      <3>3. QED BY <1>3, <3>1, <3>2
    <2>2. Counted(<<written>>, <<>>)
      BY <1>3, WriteCases
    <2>3. matrixOps' = Matrices(pipe' \o fifo')
      <3>1. matrixOps' = matrixOps + Matrices(<<written>>) - Matrices(<<>>)
        BY <2>2 DEF Counted, Matrices
      <3>2. Matrices(pipe' \o fifo') = Matrices(pipe \o fifo) + Matrices(<<written>>)
        BY <1>1, <2>1, MatricesConcat
      <3>3. QED BY <1>2, <3>1, <3>2
    <2>4. stat'.busy
      BY <2>2, CountedStat DEF Shape
    <2>5. MatrixIn(pipe' \o fifo') # {} => stat'.matrix
      BY ZenonT(40), <1>1, <2>1, <2>2, MatricesConcat, CountedStat DEF Shape, StatTruthful
    <2>6. (Asks(fifo, stat.irq) => pending)'
      <3>1. fifo' \in Seq(Commands) /\ Len(fifo') >= Len(fifo) /\ Len(fifo) \in Nat
        BY <1>1, WriteShape, CommandSeqs DEF Shape
      <3>2. stat'.irq = stat.irq /\ pending' = pending
        BY <2>2, CountedStat, WriteCases DEF Shape
      <3>3. Asks(fifo', stat.irq) => Asks(fifo, stat.irq)
        BY <1>1, <3>1, CommandSeqs, GeometryAssumption DEF Asks
      <3>4. QED BY <3>2, <3>3 DEF StatTruthful
    <2>7. QED BY <2>3, <2>4, <2>5, <2>6 DEF StatTruthful, Matrices
  <1>4. CASE ToQueue
    BY <1>4, WriteCases DEF StatTruthful, Asks
  <1>5. QED BY <1>3, <1>4, WriteCases

-----------------------------------------------------------------------------
(* ExecuteCommand. *)

\* What moves up: the first two entries of the FIFO, what follows them, and what
\* fits behind that from the stall queue.
Up    == Lesser(2, Len(fifo))
First == SubSeq(fifo, 1, Up)
Kept  == SubSeq(fifo, Up + 1, Len(fifo))
Fits  == Lesser(Len(queue), FifoSize - Len(Kept))
Moves == SubSeq(queue, 1, Fits)
Stays == SubSeq(queue, Fits + 1, Len(queue))

\* The parts into which CmdFIFORead cuts the queues.
LEMMA Parts ==
  ASSUME Shape, pipe # <<>>
  PROVE  /\ Head(pipe) \in Commands /\ Tail(pipe) \in Seq(Commands)
         /\ pipe = <<Head(pipe)>> \o Tail(pipe) /\ Len(Tail(pipe)) = Len(pipe) - 1
         /\ First \in Seq(Commands) /\ Kept \in Seq(Commands)
         /\ Moves \in Seq(Commands) /\ Stays \in Seq(Commands)
         /\ fifo = First \o Kept /\ queue = Moves \o Stays
         /\ Len(First) = Up /\ Len(Kept) = Len(fifo) - Up
         /\ Len(Moves) = Fits /\ Len(Stays) = Len(queue) - Fits
         /\ Up \in 0 .. 2 /\ Up <= Len(fifo) /\ (Up < 2 => Up = Len(fifo))
         /\ Fits \in Nat /\ Fits <= Len(queue) /\ Fits <= FifoSize - Len(Kept)
         /\ Fits < Len(queue) => Fits = FifoSize - Len(Kept)
  <1>1. /\ pipe \in Seq(Commands) /\ fifo \in Seq(Commands) /\ queue \in Seq(Commands)
        /\ Len(fifo) \in Nat /\ Len(queue) \in Nat /\ FifoSize \in Nat /\ Len(fifo) <= FifoSize
    BY CommandSeqs, GeometryAssumption DEF Shape
  <1>2. Up \in 0 .. 2 /\ Up <= Len(fifo) /\ (Up < 2 => Up = Len(fifo))
    <2>1. CASE 2 < Len(fifo)
      BY <1>1, <2>1 DEF Up, Lesser
    <2>2. CASE ~(2 < Len(fifo))
      <3>1. Up = Len(fifo)
        BY <2>2 DEF Up, Lesser
      <3>2. QED BY <1>1, <2>2, <3>1
    <2>3. QED BY <2>1, <2>2
  <1>3. ASSUME NEW s \in Seq(Commands), NEW k \in 0 .. Len(s)
        PROVE  /\ SubSeq(s, 1, k) \in Seq(Commands) /\ Len(SubSeq(s, 1, k)) = k
               /\ SubSeq(s, k + 1, Len(s)) \in Seq(Commands)
               /\ Len(SubSeq(s, k + 1, Len(s))) = Len(s) - k
               /\ s = SubSeq(s, 1, k) \o SubSeq(s, k + 1, Len(s))
    <2>1. Len(s) \in Nat /\ \A i \in 1 .. Len(s) : s[i] \in Commands
      BY LenProperties, ElementOfSeq
    <2>2. SubSeq(s, 1, k) \in Seq(Commands) /\ Len(SubSeq(s, 1, k)) = k
      BY <2>1, SubSeqProperties
    <2>3. /\ SubSeq(s, k + 1, Len(s)) \in Seq(Commands)
          /\ Len(SubSeq(s, k + 1, Len(s))) = Len(s) - k
      BY <2>1, SubSeqProperties
    <2>4. SubSeq(s, 1, k) \o SubSeq(s, k + 1, Len(s)) = SubSeq(s, 1, Len(s))
      <3>1. 1 \in 1 .. Len(s) + 1 /\ k \in 1 - 1 .. Len(s) /\ Len(s) \in k .. Len(s)
        BY <2>1
      <3>2. QED BY <3>1, ConcatAdjacentSubSeq
    <2>5. QED BY <2>2, <2>3, <2>4, SubSeqFull
  <1>4. /\ First \in Seq(Commands) /\ Kept \in Seq(Commands) /\ fifo = First \o Kept
        /\ Len(First) = Up /\ Len(Kept) = Len(fifo) - Up
    <2>1. Up \in 0 .. Len(fifo)
      BY <1>1, <1>2
    <2>2. QED BY <1>1, <1>3, <2>1 DEF First, Kept
  <1>5. /\ Fits \in Nat /\ Fits <= Len(queue) /\ Fits <= FifoSize - Len(Kept)
        /\ Fits < Len(queue) => Fits = FifoSize - Len(Kept)
    <2>1. FifoSize - Len(Kept) \in Nat
      BY <1>1, <1>2, <1>4
    <2>2. CASE Len(queue) < FifoSize - Len(Kept)
      BY <1>1, <2>1, <2>2 DEF Fits, Lesser
    <2>3. CASE ~(Len(queue) < FifoSize - Len(Kept))
      BY <1>1, <2>1, <2>3 DEF Fits, Lesser
    <2>4. QED BY <2>2, <2>3
  <1>6. /\ Moves \in Seq(Commands) /\ Stays \in Seq(Commands) /\ queue = Moves \o Stays
        /\ Len(Moves) = Fits /\ Len(Stays) = Len(queue) - Fits
    <2>1. Fits \in 0 .. Len(queue)
      BY <1>1, <1>5
    <2>2. QED BY <1>1, <1>3, <2>1 DEF Moves, Stays
  <1>7. /\ Head(pipe) \in Commands /\ Tail(pipe) \in Seq(Commands)
        /\ pipe = <<Head(pipe)>> \o Tail(pipe) /\ Len(Tail(pipe)) = Len(pipe) - 1
    <2>1. Len(pipe) \in Nat /\ 1 \in 1 .. Len(pipe) /\ Len(pipe) \in 1 .. Len(pipe)
      BY <1>1, CommandSeqs
    <2>2. SubSeq(pipe, 1, Len(pipe)) = <<pipe[1]>> \o SubSeq(pipe, 1 + 1, Len(pipe))
      BY <1>1, <2>1, SubSeqRecursiveFirst
    <2>3. QED BY <1>1, <2>2, SubSeqFull, TailIsSubSeq, HeadTailProperties
  <1>8. QED BY <1>2, <1>4, <1>5, <1>6, <1>7

\* ExecuteCommand with and without a refill of the pipe.
LEMMA ExecuteCases ==
  ASSUME ExecuteCommand
  PROVE  /\ pipe # <<>> /\ executed' = After(Head(pipe)) /\ written' = written
         /\ flush' \in BOOLEAN
         /\ Refills => /\ pipe' = Tail(pipe) \o First /\ fifo' = Kept \o Moves /\ queue' = Stays
                       /\ stalled' = (stalled /\ (queue = <<>> \/ Fits < Len(queue)))
                       /\ Counted(Moves, <<Head(pipe)>>) /\ pending' = Asks(fifo', stat.irq)
         /\ ~Refills => /\ pipe' = Tail(pipe) /\ Counted(<<>>, <<Head(pipe)>>)
                        /\ UNCHANGED <<fifo, queue, stalled, pending>>
  <1>1. pipe # <<>> /\ executed' = After(Head(pipe)) /\ written' = written /\ flush' \in BOOLEAN
    <2>1. pipe # <<>> /\ executed' = After(Head(pipe)) /\ written' = written
      BY DEF ExecuteCommand
    <2>2. flush' = (KindOf[Head(pipe)] = "swap")
      BY DEF ExecuteCommand
    <2>3. QED BY <2>1, <2>2
  <1>2. ASSUME ~Refills
        PROVE  /\ pipe' = Tail(pipe) /\ Counted(<<>>, <<Head(pipe)>>)
               /\ UNCHANGED <<fifo, queue, stalled, pending>>
    BY <1>2 DEF ExecuteCommand
  <1>3. ASSUME Refills
        PROVE  /\ pipe' = Tail(pipe) \o First /\ fifo' = Kept \o Moves /\ queue' = Stays
               /\ stalled' = (stalled /\ (queue = <<>> \/ Fits < Len(queue)))
               /\ Counted(Moves, <<Head(pipe)>>) /\ pending' = Asks(fifo', stat.irq)
    BY <1>3 DEF ExecuteCommand, Up, First, Kept, Fits, Moves, Stays
  <1>4. QED BY <1>1, <1>2, <1>3

\* What fits from the stall queue fills the FIFO up, so that the system goes on
\* exactly when the stall queue is empty.
LEMMA ExecuteShape ==
  ASSUME Shape, ExecuteCommand
  PROVE  Shape'
  <1>1. After(Head(pipe)) \in Commands
    <2>1. Head(pipe) \in Commands
      BY ExecuteCases, Parts
    <2>2. QED BY <2>1, StreamFits DEF After, Commands
  <1>2. stat' \in StatType
    BY ExecuteCases, CountedStat DEF Shape
  <1>3. /\ written' \in Commands /\ executed' \in Commands /\ flush' \in BOOLEAN
        /\ pipe # <<>>
    BY <1>1, ExecuteCases DEF Shape
  <1>4. /\ Len(pipe) \in Nat /\ Len(pipe) > 0 /\ Len(fifo) \in Nat /\ Len(queue) \in Nat
        /\ (Len(fifo) = 0 <=> fifo = <<>>) /\ (Len(queue) = 0 <=> queue = <<>>)
    BY <1>3, CommandSeqs DEF Shape
  <1>5. CASE Refills
    <2>1. /\ pipe' \in Seq(Commands) /\ Len(pipe') = Len(pipe) - 1 + Up
          /\ fifo' \in Seq(Commands) /\ Len(fifo') = Len(fifo) - Up + Fits
          /\ queue' \in Seq(Commands) /\ Len(queue') = Len(queue) - Fits
      <3>1. pipe' = Tail(pipe) \o First /\ fifo' = Kept \o Moves /\ queue' = Stays
        BY <1>5, ExecuteCases
      <3>2. /\ Tail(pipe) \in Seq(Commands) /\ Len(Tail(pipe)) = Len(pipe) - 1
            /\ First \in Seq(Commands) /\ Len(First) = Up
            /\ Kept \in Seq(Commands) /\ Len(Kept) = Len(fifo) - Up
            /\ Moves \in Seq(Commands) /\ Len(Moves) = Fits
            /\ Stays \in Seq(Commands) /\ Len(Stays) = Len(queue) - Fits
        BY <1>3, Parts
      <3>3. QED BY SMTT(40), <3>1, <3>2, CommandConcat
    <2>2. (Len(fifo') = 0 <=> fifo' = <<>>) /\ (Len(queue') = 0 <=> queue' = <<>>)
      BY <2>1, CommandSeqs
    <2>3. Len(pipe) <= 3 /\ (stalled' <=> stalled /\ (queue = <<>> \/ Fits < Len(queue)))
      BY <1>5, ExecuteCases DEF Refills
    <2>4. /\ Up \in 0 .. 2 /\ Up <= Len(fifo) /\ (Up < 2 => Up = Len(fifo))
          /\ Fits \in Nat /\ Fits <= Len(queue) /\ Fits <= FifoSize - (Len(fifo) - Up)
          /\ Fits < Len(queue) => Fits = FifoSize - (Len(fifo) - Up)
      BY <1>3, Parts
    <2>5. /\ Len(pipe) <= PipeSize /\ Len(fifo) <= FifoSize /\ Len(queue) <= StallSize
          /\ PipeSize \in Nat /\ PipeSize >= 4 /\ FifoSize \in Nat /\ FifoSize > 2
          /\ StallSize \in Nat
      BY GeometryAssumption DEF Shape
    <2>6. pending' \in BOOLEAN /\ stalled' \in BOOLEAN
      BY <1>5, ExecuteCases DEF Asks
    <2>7. Len(pipe') <= PipeSize /\ Len(fifo') <= FifoSize /\ Len(queue') <= StallSize
      <3> DEFINE p == Len(pipe)
                 f == Len(fifo)
                 q == Len(queue)
      <3>1. Len(pipe') = p - 1 + Up /\ Len(fifo') = f - Up + Fits /\ Len(queue') = q - Fits
        BY <2>1
      <3>2. p \in Nat /\ f \in Nat /\ q \in Nat /\ p <= 3 /\ q <= StallSize
        BY <1>4, <2>3, <2>5
      <3> HIDE DEF p, f, q
      <3>3. p - 1 + Up <= PipeSize
        BY <2>4, <2>5, <3>2
      <3>4. f - Up + Fits <= FifoSize
        BY <2>4, <2>5, <3>2 DEF f
      <3>5. q - Fits <= StallSize
        BY <2>4, <2>5, <3>2
      <3>6. QED BY <3>1, <3>3, <3>4, <3>5
    <2>8. Filled'
      <3>1. fifo' # <<>> => Len(pipe') > 2
        <4>1. CASE fifo = <<>>
          <5>1. Len(fifo) = 0 /\ Len(queue) = 0
            BY <1>4, <2>5, <4>1 DEF Shape, Filled
          <5>2. QED BY <2>1, <2>2, <2>4, <5>1
        <4>2. CASE fifo # <<>>
          <5>1. Len(fifo) > 0 /\ Len(pipe) > 2
            BY <1>4, <4>2 DEF Shape, Filled
          <5>2. QED BY <1>4, <2>1, <2>4, <5>1
        <4>3. QED BY <4>1, <4>2
      <3>2. queue' # <<>> => Len(fifo') = FifoSize
        BY <1>4, <2>1, <2>2, <2>4, <2>5
      <3>3. stalled' <=> queue' # <<>>
        BY <1>4, <2>1, <2>2, <2>3, <2>4 DEF Shape, Filled
      <3>4. QED BY <3>1, <3>2, <3>3 DEF Filled
    <2>9. QED BY <1>2, <1>3, <2>1, <2>6, <2>7, <2>8 DEF Shape
  <1>6. CASE ~Refills
    <2>1. pipe' = Tail(pipe) /\ UNCHANGED <<fifo, queue, stalled, pending>>
      BY <1>6, ExecuteCases
    <2>2. pipe' \in Seq(Commands) /\ Len(pipe') = Len(pipe) - 1
      BY <1>3, <2>1, Parts
    <2>3. Len(pipe) > 3
      BY <1>4, <1>6 DEF Refills
    <2>4. QED BY <1>2, <1>3, <1>4, <2>1, <2>2, <2>3, GeometryAssumption DEF Shape, Filled
  <1>7. QED BY <1>5, <1>6

\* Whatever moves up, nothing but the executed command leaves, and nothing overtakes.
LEMMA ExecuteInOrder ==
  ASSUME Shape, InOrder, ExecuteCommand
  PROVE  InOrder' /\ Waiting = <<executed>> \o Waiting'
  <1> DEFINE n == Head(pipe)
  <1>1. pipe # <<>> /\ executed' = After(Head(pipe)) /\ written' = written
    BY ExecuteCases
  <1>2. /\ pipe \in Seq(Commands) /\ fifo \in Seq(Commands) /\ queue \in Seq(Commands)
        /\ executed \in Commands /\ written \in Commands
    BY DEF Shape
  <1>3. Waiting' \in Seq(Commands)
    BY ExecuteShape, CommandConcat DEF Shape, Waiting
  <1>4. <<n>> \in Seq(Commands) /\ Tail(pipe) \in Seq(Commands) /\ n \in Commands
    BY <1>1, Parts
  <1>5. Waiting = <<n>> \o Waiting'
    <2>1. pipe \o fifo = <<n>> \o (Tail(pipe) \o fifo)
      <3>1. pipe = <<n>> \o Tail(pipe)
        BY <1>1, Parts
      <3>2. QED BY <1>2, <1>4, <3>1, CommandAssociative
    <2>2. Waiting = <<n>> \o ((Tail(pipe) \o fifo) \o queue)
      BY <1>2, <1>4, <2>1, CommandConcat, CommandAssociative DEF Waiting
    <2>3. CASE Refills
      <3>1. /\ First \in Seq(Commands) /\ Kept \in Seq(Commands) /\ Moves \in Seq(Commands)
            /\ Stays \in Seq(Commands) /\ fifo = First \o Kept /\ queue = Moves \o Stays
        BY <1>1, Parts
      <3> DEFINE front == Tail(pipe) \o First
      <3>2. front \in Seq(Commands) /\ front \o Kept \in Seq(Commands)
        BY <1>4, <3>1, CommandConcat
      <3>3. Tail(pipe) \o fifo = front \o Kept
        BY <1>4, <3>1, CommandAssociative
      <3>4. (front \o Kept) \o queue = ((front \o Kept) \o Moves) \o Stays
        BY ZenonT(40), <3>1, <3>2, CommandAssociative
      <3>5. (front \o Kept) \o Moves = front \o (Kept \o Moves)
        BY ZenonT(40), <3>1, <3>2, CommandAssociative
      <3>6. Waiting' = (front \o (Kept \o Moves)) \o Stays
        BY <2>3, ExecuteCases DEF Waiting
      <3>7. QED BY <2>2, <3>3, <3>4, <3>5, <3>6
    <2>4. CASE ~Refills
      BY <2>2, <2>4, ExecuteCases DEF Waiting
    <2>5. QED BY <2>3, <2>4
  <1>6. Len(Waiting) = Len(Waiting') + 1
    BY <1>3, <1>4, <1>5, ConcatProperties
  <1>7. Len(Waiting') \in Nat /\ Len(Waiting') + 1 < Stream
    BY <1>3, <1>6, WaitingType, CommandSeqs
  <1>8. n = executed /\ Run(Waiting', executed')
    <2>1. Run(<<n>> \o Waiting', executed)
      BY <1>5 DEF InOrder
    <2>2. Len(Waiting') < Stream - 1
      BY <1>7, StreamFits
    <2>3. n = executed /\ Run(Waiting', After(executed))
      BY <1>2, <1>3, <1>4, <2>1, <2>2, RunTail
    <2>4. QED BY <1>1, <2>3
  <1>9. written' = Place(executed', Len(Waiting'))
    <2>1. written = Place(executed, Len(Waiting') + 1)
      BY <1>6 DEF InOrder
    <2>2. Len(Waiting') \in 0 .. Stream - 2
      BY <1>7, StreamFits
    <2>3. QED BY <1>1, <1>2, <1>8, <2>1, <2>2, PlaceAfter
  <1>10. QED BY <1>5, <1>8, <1>9 DEF InOrder

\* GXSTAT and the interrupt tell the truth after a command was executed.
LEMMA ExecuteTruthful ==
  ASSUME Shape, StatTruthful, ExecuteCommand
  PROVE  StatTruthful'
  <1> DEFINE n == Head(pipe)
  <1>1. pipe # <<>> /\ <<n>> # <<>>
    BY ExecuteCases
  <1>2. /\ pipe \in Seq(Commands) /\ fifo \in Seq(Commands) /\ queue \in Seq(Commands)
        /\ <<n>> \in Seq(Commands) /\ Tail(pipe) \in Seq(Commands)
        /\ pipe = <<n>> \o Tail(pipe) /\ stat \in StatType
    BY <1>1, Parts DEF Shape
  <1>3. /\ pipe' \in Seq(Commands) /\ fifo' \in Seq(Commands)
    BY ExecuteShape DEF Shape
  <1>4. /\ matrixOps = Matrices(pipe) + Matrices(fifo)
        /\ Matrices(pipe) = Matrices(<<n>>) + Matrices(Tail(pipe))
    BY <1>2, MatricesConcat DEF StatTruthful, Matrices
  <1>5. /\ Matrices(<<n>>) \in Nat /\ Matrices(Tail(pipe)) \in Nat /\ Matrices(fifo) \in Nat
        /\ Matrices(pipe) \in Nat
    BY <1>2, MatricesType
  <1>6. stat.busy
    BY <1>1 DEF StatTruthful
  <1>7. PICK s \in Seq(Commands) :
          /\ Counted(s, <<n>>)
          /\ Matrices(pipe') + Matrices(fifo') = Matrices(Tail(pipe)) + Matrices(fifo) + Matrices(s)
    <2>1. CASE Refills
      <3>1. /\ First \in Seq(Commands) /\ Kept \in Seq(Commands) /\ Moves \in Seq(Commands)
            /\ fifo = First \o Kept
        BY <1>1, Parts
      <3>2. /\ pipe' = Tail(pipe) \o First /\ fifo' = Kept \o Moves /\ Counted(Moves, <<n>>)
        BY <2>1, ExecuteCases
      <3>3. /\ Matrices(pipe') = Matrices(Tail(pipe)) + Matrices(First)
            /\ Matrices(fifo') = Matrices(Kept) + Matrices(Moves)
            /\ Matrices(fifo) = Matrices(First) + Matrices(Kept)
        BY <1>2, <3>1, <3>2, MatricesConcat
      <3>4. /\ Matrices(First) \in Nat /\ Matrices(Kept) \in Nat /\ Matrices(Moves) \in Nat
        BY <3>1, MatricesType
      <3>5. QED BY <1>5, <3>1, <3>2, <3>3, <3>4
    <2>2. CASE ~Refills
      <3>1. pipe' = Tail(pipe) /\ fifo' = fifo /\ Counted(<<>>, <<n>>) /\ <<>> \in Seq(Commands)
        BY <2>2, ExecuteCases, EmptySeq
      <3>2. Matrices(pipe') + Matrices(fifo') =
                Matrices(Tail(pipe)) + Matrices(fifo) + Matrices(<<>>)
        BY <1>5, <3>1, NoMatrices
      <3>3. QED BY <3>1, <3>2
    <2>3. QED BY <2>1, <2>2
  <1>8. Matrices(s) \in Nat /\ Matrices(pipe') \in Nat /\ Matrices(fifo') \in Nat
    BY <1>3, MatricesType
  <1>9. matrixOps' = matrixOps + Matrices(s) - Matrices(<<n>>)
    BY <1>7 DEF Counted, Matrices
  <1>10. matrixOps' = Matrices(pipe' \o fifo')
    BY SMTT(40), <1>3, <1>4, <1>5, <1>7, <1>8, <1>9, MatricesConcat
  <1>11. stat'.busy
    BY <1>2, <1>6, <1>7, CountedStat
  <1>12. MatrixIn(pipe' \o fifo') # {} => stat'.matrix
    <2> SUFFICES ASSUME MatrixIn(pipe' \o fifo') # {}, MatrixIn(s) = {} PROVE stat'.matrix
      BY <1>2, <1>7, CountedStat
    <2>1. Matrices(s) = 0
      BY MatricesType
    <2>2. Matrices(pipe' \o fifo') # 0
      BY <1>3, CommandConcat, MatricesType
    <2>3. matrixOps # 0
      <3>1. Matrices(pipe' \o fifo') = Matrices(pipe') + Matrices(fifo')
        BY <1>3, MatricesConcat
      <3>2. QED BY <1>4, <1>5, <1>7, <1>8, <2>1, <2>2, <3>1
    <2>4. MatrixIn(pipe \o fifo) # {}
      <3>1. pipe \o fifo \in Seq(Commands) /\ Matrices(pipe \o fifo) = matrixOps
        BY <1>2, <1>4, CommandConcat, MatricesConcat
      <3>2. QED BY <2>3, <3>1, MatricesType
    <2>5. stat.matrix
      BY <2>4 DEF StatTruthful
    <2>6. QED BY <1>2, <1>7, <2>3, <2>5, CountedStat
  <1>13. (Asks(fifo, stat.irq) => pending)'
    <2>1. stat'.irq = stat.irq
      BY <1>2, <1>7, CountedStat
    <2>2. QED BY <2>1, ExecuteCases DEF StatTruthful
  <1>14. QED BY <1>10, <1>11, <1>12, <1>13 DEF StatTruthful, Matrices

-----------------------------------------------------------------------------
(* The operations that only look, and what all of it means. *)

Queues == <<pipe, fifo, queue, stalled, written, executed, matrixOps>>

\* The other operations touch no queue.
LEMMA QuietSteps ==
  ASSUME Shape, FinishWork \/ WriteGXStat \/ Acknowledge \/ SwapBuffers
  PROVE  Shape' /\ UNCHANGED Queues
  <1>1. UNCHANGED Queues
    BY DEF Queues, FinishWork, WriteGXStat, Acknowledge, SwapBuffers
  <1>2. stat' \in StatType
    BY DEF Shape, StatType, FinishWork, WriteGXStat, Acknowledge, SwapBuffers
  <1>3. pending' \in BOOLEAN /\ flush' \in BOOLEAN
    BY DEF Shape, Asks, FinishWork, WriteGXStat, Acknowledge, SwapBuffers
  <1>4. QED BY <1>1, <1>2, <1>3 DEF Queues, Shape, Filled

\* What touches no queue disturbs no order.
LEMMA QuietInOrder ==
  ASSUME InOrder, UNCHANGED Queues
  PROVE  InOrder'
  BY DEF InOrder, Queues, Waiting, Run

\* The other operations leave GXSTAT and the interrupt truthful.
LEMMA QuietTruthful ==
  ASSUME Shape, StatTruthful, FinishWork \/ WriteGXStat \/ Acknowledge \/ SwapBuffers
  PROVE  StatTruthful'
  <1>1. UNCHANGED Queues
    BY QuietSteps
  <1>2. CASE FinishWork
    <2>1. pipe = <<>> /\ stat'.irq = stat.irq /\ pending' = pending
          /\ (stat'.matrix <=> stat.matrix /\ matrixOps # 0)
      BY <1>2 DEF FinishWork, Shape, StatType
    <2>2. MatrixIn(pipe \o fifo) # {} => matrixOps # 0
      BY CommandConcat, MatricesType DEF Shape, StatTruthful, Matrices
    <2>3. QED BY <1>1, <2>1, <2>2 DEF Queues, StatTruthful, Asks
  <1>3. CASE WriteGXStat
    BY <1>1, <1>3 DEF Queues, WriteGXStat, StatTruthful, Shape, StatType
  <1>4. CASE Acknowledge
    BY <1>1, <1>4 DEF Queues, Acknowledge, StatTruthful
  <1>5. CASE SwapBuffers
    BY <1>1, <1>5 DEF Queues, SwapBuffers, StatTruthful, Asks
  <1>6. QED BY <1>2, <1>3, <1>4, <1>5

\* Commands that follow each other without a gap are those taken and not executed.
LEMMA OrderMeansSequence ==
  ASSUME Shape, InOrder
  PROVE  InSequence
  <1> DEFINE len == Len(Waiting)
  <1>1. len \in 0 .. Stream - 1 /\ executed \in Commands
    BY WaitingType, CommandSeqs, StreamFits DEF Shape
  <1>2. len = (written + Stream - executed) % Stream
    <2>1. \A k \in 0 .. Stream - 1 : k % Stream = k /\ (k + Stream) % Stream = k
      BY StreamFits
    <2>2. written + Stream - executed \in {len, len + Stream}
      BY <1>1, StreamFits DEF InOrder, Place, Commands
    <2>3. QED BY <1>1, <2>1, <2>2
  <1>3. \A i \in DOMAIN Waiting : Waiting[i] = (executed + i - 1) % Stream
    <2> TAKE i \in DOMAIN Waiting
    <2>1. i \in 1 .. len
      BY WaitingType, LenProperties
    <2>2. i - 1 \in 0 .. Stream - 1 /\ executed + i - 1 = executed + (i - 1)
      BY <1>1, <2>1, StreamFits DEF Commands
    <2>3. QED BY <1>1, <2>1, <2>2, PlaceIsModulo DEF InOrder, Run
  <1>4. QED BY <1>2, <1>3 DEF InSequence

-----------------------------------------------------------------------------
(* The bus.                                                                *)

\* What holds of a channel's registers by themselves.  A channel in card mode is
\* programmed for one word at a time, and runs from the word's being ready until it
\* has been moved.
ChannelSound(c) ==
    /\ c \in ChannelType
    /\ c.iter <= c.rem
    /\ c.running => c.inProgress

CartSound(c) ==
    c.mode = "cart" =>
        /\ c.enabled => c.repeat /\ c.len = 1
        /\ c.inProgress => c.enabled /\ c.running
        /\ c.running => c.iter = c.rem /\ c.rem <= 1 /\ (c.iter = 0 => c.executing)

\* Only the channel whose turn it is can be in the middle of Run9.
ChannelsInv ==
    /\ dma \in [Channels -> ChannelType]
    /\ \A n \in Channels :
        /\ ChannelSound(dma[n])
        /\ dma[n].executing => pc = "dma" /\ ch = n /\ dma[n].running

\* While the FIFO is low no channel that feeds it is at rest in the middle of a transfer.
Fed ==
    Len(fifo) < Half =>
        \A n \in Channels :
            dma[n].inProgress /\ dma[n].enabled /\ dma[n].mode = "geometry" => dma[n].running

Registers ==
    /\ use \in Uses /\ card \in CardType
    /\ pc \in Phases /\ ch \in Nat /\ late \in BOOLEAN /\ store \in Nat /\ over \in Nat

BaseInv == Shape /\ StatTruthful /\ Registers /\ ChannelsInv /\ Fed

\* The stall queue has room for what is still written after the system was told to
\* stop, the rest of one store or of one word of the channel that then leaves Run9,
\* until the ARM9 executes another store.
Room ==
    /\ store <= StallSize
    /\ over > 0 => pc = "arm9"
    /\ stalled /\ over = 0 => Len(queue) + store <= StallSize
    /\ stalled => \A n \in Channels : dma[n].executing => dma[n].stall

\* The stages of a transfer: its start, a word due, a word ready, and its end.
CardSound(r) ==
    LET k == Len(r.moved)
    IN  /\ r \in CardType
        /\ \A i \in 1 .. k : r.moved[i] = i
        /\ r.busy => r.ended = 0 /\ (r.event = "none" => r.ready)
        /\ ~r.busy => r = ResetCard \/ (r.ended = 1 /\ k = r.len)
        /\ r.event = "end" => r.busy /\ ~r.ready /\ r.len = 0 /\ k = 0
        /\ r.event = "prepare" => r.busy /\ ~r.ready /\ r.pos < r.len /\ k = r.pos
        /\ r.ready => r.busy /\ r.event = "none"
        /\ r.ready /\ r.write => k = r.pos /\ r.pos < r.len
        /\ r.ready /\ ~r.write => k + 1 = r.pos /\ r.data = r.pos /\ r.pos <= r.len

\* A card channel runs when there is a word to be read, and for each word once.
CardInv ==
    /\ CardSound(card)
    /\ \A n \in Channels :
        /\ CartSound(dma[n])
        /\ dma[n].mode = "cart" =>
            /\ "cart" \in ModesOf[n]
            /\ dma[n].enabled /\ card.busy => ~card.write
            /\ dma[n].running /\ dma[n].iter > 0 => card.ready

-----------------------------------------------------------------------------
(* The operations on a channel's registers. *)

\* Registers that only programs write.
Settings(c) == <<c.mode, c.enabled, c.repeat, c.len>>

\* Start makes a channel run, and leaves one that runs alone.
LEMMA StartSound ==
  ASSUME NEW c, ChannelSound(c)
  PROVE  /\ ChannelSound(Start(c)) /\ Start(c).running /\ Start(c).inProgress
         /\ Settings(Start(c)) = Settings(c)
         /\ Start(c).executing = c.executing /\ Start(c).stall = c.stall
         /\ c.running => Start(c) = c
         /\ c.enabled /\ CartSound(c) => CartSound(Start(c))
  <1>1. CASE c.running
    BY <1>1 DEF ChannelSound, Start
  <1>2. CASE ~c.running
    <2> DEFINE rem == IF c.inProgress THEN c.rem ELSE c.len
               iter == IF c.mode = "geometry" /\ rem > Batch THEN Batch ELSE rem
    <2>1. rem \in Nat /\ iter \in Nat /\ iter <= rem
      <3>1. rem \in Nat
        BY DmaAssumption DEF ChannelSound, ChannelType
      <3>2. QED BY <3>1, DmaAssumption
    <2>2. Start(c) = [c EXCEPT !.rem = rem, !.iter = iter, !.running = TRUE, !.inProgress = TRUE]
      BY <1>2 DEF Start
    <2> HIDE DEF iter
    <2>3. /\ ChannelSound(Start(c)) /\ Start(c).running /\ Start(c).inProgress
          /\ Settings(Start(c)) = Settings(c)
          /\ Start(c).executing = c.executing /\ Start(c).stall = c.stall
      BY <2>1, <2>2 DEF ChannelSound, ChannelType, Settings
    <2>4. ASSUME c.enabled, CartSound(c) PROVE CartSound(Start(c))
      BY <1>2, <2>1, <2>2, <2>4 DEF ChannelSound, ChannelType, CartSound, iter
    <2>5. QED BY <1>2, <2>3, <2>4
  <1>3. QED BY <1>1, <1>2

\* CheckDMAs starts the channels that wait for this, and touches no others.
LEMMA CheckSound ==
  ASSUME NEW d \in [Channels -> ChannelType], \A n \in Channels : ChannelSound(d[n]), NEW mode
  PROVE  /\ CheckDMAs(d, mode) \in [Channels -> ChannelType]
         /\ \A n \in Channels :
              LET c == CheckDMAs(d, mode)[n]
              IN  /\ ChannelSound(c) /\ Settings(c) = Settings(d[n])
                  /\ c.executing = d[n].executing /\ c.stall = d[n].stall
                  /\ d[n].running \/ d[n].mode # mode \/ ~d[n].enabled => c = d[n]
                  /\ d[n].mode = mode /\ d[n].enabled => c.running
                  /\ CartSound(d[n]) => CartSound(c)
  <1>1. ASSUME NEW n \in Channels
        PROVE  CheckDMAs(d, mode)[n] =
                   IF d[n].enabled /\ d[n].mode = mode THEN Start(d[n]) ELSE d[n]
    BY DEF CheckDMAs
  <1>2. ASSUME NEW n \in Channels
        PROVE  LET c == CheckDMAs(d, mode)[n]
               IN  /\ ChannelSound(c) /\ Settings(c) = Settings(d[n])
                   /\ c.executing = d[n].executing /\ c.stall = d[n].stall
                   /\ d[n].running \/ d[n].mode # mode \/ ~d[n].enabled => c = d[n]
                   /\ d[n].mode = mode /\ d[n].enabled => c.running
                   /\ CartSound(d[n]) => CartSound(c)
    <2>1. CASE d[n].enabled /\ d[n].mode = mode
      BY <1>1, <2>1, StartSound
    <2>2. CASE ~(d[n].enabled /\ d[n].mode = mode)
      BY <1>1, <2>2
    <2>3. QED BY <2>1, <2>2
  <1>3. CheckDMAs(d, mode) \in [Channels -> ChannelType]
    BY <1>1, <1>2 DEF CheckDMAs, ChannelSound
  <1>4. QED BY <1>2, <1>3

\* A pass of Run9's loop moves one unit of what is left.
LEMMA MovedSound ==
  ASSUME NEW c, ChannelSound(c), c.iter > 0
  PROVE  /\ ChannelSound(Moved(c)) /\ Settings(Moved(c)) = Settings(c)
         /\ Moved(c).executing = c.executing /\ Moved(c).stall = c.stall
         /\ Moved(c).running = c.running /\ Moved(c).inProgress = c.inProgress
         /\ Moved(c).iter = c.iter - 1
         /\ c.executing /\ CartSound(c) => CartSound(Moved(c))
  <1>1. /\ ChannelSound(Moved(c)) /\ Settings(Moved(c)) = Settings(c)
        /\ Moved(c).executing = c.executing /\ Moved(c).stall = c.stall
        /\ Moved(c).running = c.running /\ Moved(c).inProgress = c.inProgress
        /\ Moved(c).iter = c.iter - 1 /\ Moved(c).rem = c.rem - 1
    <2>1. c.iter - 1 \in Nat /\ c.rem - 1 \in Nat /\ c.iter - 1 <= c.rem - 1
      BY DEF ChannelSound, ChannelType
    <2>2. Moved(c) = [c EXCEPT !.iter = c.iter - 1, !.rem = c.rem - 1]
      BY DEF Moved
    <2>3. QED BY <2>1, <2>2 DEF ChannelSound, ChannelType, Settings
  <1>2. c.executing /\ CartSound(c) => CartSound(Moved(c))
    BY <1>1 DEF CartSound, ChannelSound, ChannelType, Settings
  <1>3. QED BY <1>1, <1>2

\* A channel that leaves Run9 goes on running if a unit is left of its batch, and is in
\* progress as long as anything is left.
LEMMA LeftSound ==
  ASSUME NEW c, ChannelSound(c), c.running
  PROVE  /\ ChannelSound(Left(c)) /\ Left(c).mode = c.mode /\ (Left(c).enabled => c.enabled)
         /\ ~Left(c).executing /\ ~Left(c).stall
         /\ Left(c).running => Left(c).iter = c.iter /\ c.iter > 0
         /\ Left(c).inProgress => Left(c).running \/ BatchEnded(c)
         /\ CartSound(c) => CartSound(Left(c))
  <1> USE DEF ChannelSound, ChannelType, BatchEnded, CartSound
  <1>1. c.rem \in Nat /\ c.iter \in Nat
    OBVIOUS
  <1>2. CASE c.rem > 0 /\ c.iter > 0
    <2>1. Left(c) = [c EXCEPT !.executing = FALSE, !.stall = FALSE]
      BY <1>2 DEF Left
    <2>2. /\ ChannelSound(Left(c)) /\ Left(c).mode = c.mode /\ Left(c).enabled = c.enabled
          /\ ~Left(c).executing /\ ~Left(c).stall /\ Left(c).running
          /\ Left(c).iter = c.iter /\ Left(c).rem = c.rem /\ Left(c).repeat = c.repeat
          /\ Left(c).len = c.len /\ Left(c).inProgress = c.inProgress
      BY <2>1
    <2>3. CartSound(c) => CartSound(Left(c))
      BY <1>2, <2>2
    <2>4. QED BY <1>2, <2>2, <2>3
  <1>3. CASE c.rem > 0 /\ c.iter = 0
    <2>1. Left(c) = [c EXCEPT !.executing = FALSE, !.stall = FALSE, !.running = FALSE]
      BY <1>3 DEF Left
    <2>2. /\ ChannelSound(Left(c)) /\ Left(c).mode = c.mode /\ Left(c).enabled = c.enabled
          /\ ~Left(c).executing /\ ~Left(c).stall /\ ~Left(c).running
      BY <2>1
    <2>3. CartSound(c) => c.mode # "cart"
      BY <1>3
    <2>4. QED BY <1>3, <2>2, <2>3
  <1>4. CASE c.rem = 0
    <2>1. Left(c) = [c EXCEPT !.executing = FALSE, !.stall = FALSE, !.running = FALSE,
                              !.inProgress = FALSE, !.enabled = c.enabled /\ c.repeat]
      BY <1>4 DEF Left
    <2>2. QED BY <1>4, <2>1
  <1>5. QED BY <1>1, <1>2, <1>3, <1>4

-----------------------------------------------------------------------------
(* The operations of the card interface. *)

\* A card's registers keep their types when a transfer goes on or ends.
LEMMA AdvanceType ==
  ASSUME NEW r \in CardType
  PROVE  ROMEndTransfer(r) \in CardType /\ AdvanceROMTransfer(r) \in CardType
  <1>1. ASSUME NEW t \in CardType PROVE ROMEndTransfer(t) \in CardType
    <2>1. t.ended + 1 \in Nat
      BY DEF CardType
    <2>2. QED BY <2>1 DEF CardType, ROMEndTransfer
  <1>2. ASSUME NEW t \in CardType PROVE AdvanceROMTransfer(t) \in CardType
    <2>1. [t EXCEPT !.ready = FALSE] \in CardType
      BY DEF CardType
    <2>2. [[t EXCEPT !.ready = FALSE] EXCEPT !.event = "prepare"] \in CardType
      BY <2>1 DEF CardType
    <2>3. QED BY <1>1, <2>1, <2>2 DEF AdvanceROMTransfer
  <1>3. QED BY <1>1, <1>2

\* What an operation on the card does to its type, in any state.
LEMMA CardTypes ==
  ASSUME NEW r \in CardType
  PROVE  /\ \A len \in Blocks, write \in BOOLEAN : StartTransfer(r, len, write) \in CardType
         /\ ReadROMData(r) \in CardType
         /\ \A word \in Nat : WriteROMData(r, word) \in CardType
         /\ ROMPrepareData(r) \in CardType
         /\ ROMEndTransfer([r EXCEPT !.event = "none"]) \in CardType
  <1>3. ASSUME NEW len \in Blocks, NEW write \in BOOLEAN
        PROVE  StartTransfer(r, len, write) \in CardType
    BY EmptySeq DEF CardType, StartTransfer
  <1>4. \A word \in Nat : Append(r.moved, word) \in Seq(Nat)
    BY AppendProperties DEF CardType
  <1>5. ReadROMData(r) \in CardType
    <2>1. [r EXCEPT !.moved = Append(r.moved, r.data)] \in CardType
      BY <1>4 DEF CardType
    <2>2. QED BY <2>1, AdvanceType DEF ReadROMData
  <1>6. ASSUME NEW word \in Nat PROVE WriteROMData(r, word) \in CardType
    <2> DEFINE s == [r EXCEPT !.data = word]
               t == [s EXCEPT !.pos = r.pos + 1,
                              !.moved = IF r.pos < r.len THEN Append(r.moved, word) ELSE r.moved]
    <2>1. s \in CardType
      BY DEF CardType
    <2>2. t \in CardType
      <3>1. r.pos + 1 \in Nat
        BY DEF CardType
      <3>2. (IF r.pos < r.len THEN Append(r.moved, word) ELSE r.moved) \in Seq(Nat)
        BY <1>4 DEF CardType
      <3>3. QED BY <2>1, <3>1, <3>2 DEF CardType
    <2>3. WriteROMData(r, word) = IF r.ready /\ r.write THEN AdvanceROMTransfer(t) ELSE s
      BY <2>1 DEF WriteROMData, CardType
    <2>4. QED BY <2>1, <2>2, <2>3, AdvanceType
  <1>7. ROMPrepareData(r) \in CardType
    <2>1. r.pos + 1 \in Nat /\ (IF r.pos >= r.len THEN 0 ELSE r.pos + 1) \in Nat
      BY DEF CardType
    <2>2. QED BY <2>1 DEF CardType, ROMPrepareData
  <1>8. ROMEndTransfer([r EXCEPT !.event = "none"]) \in CardType
    <2>1. [r EXCEPT !.event = "none"] \in CardType
      BY DEF CardType
    <2>2. QED BY <2>1, AdvanceType
  <1>9. QED BY <1>3, <1>5, <1>6, <1>7, <1>8

\* The registers that are numbers.
LEMMA CardLength ==
  ASSUME NEW r \in CardType
  PROVE  r.pos \in Nat /\ r.len \in Nat /\ r.ended \in Nat
  <1>1. r.len \in Blocks \cup {0} /\ r.pos \in Nat /\ r.ended \in Nat
    BY DEF CardType
  <1>2. r.len \in Nat
    <2>1. CASE r.len = 0
      BY <2>1
    <2>2. CASE r.len \in Blocks
      BY <2>2, CartAssumption
    <2>3. QED BY <1>1, <2>1, <2>2
  <1>3. QED BY <1>1, <1>2

\* The interface after a reset.
LEMMA ResetSound == CardSound(ResetCard)
  <1>1. ResetCard \in CardType /\ Len(ResetCard.moved) = 0
    BY EmptySeq DEF ResetCard, CardType
  <1>2. QED BY <1>1 DEF CardSound, ResetCard

\* A program starts a transfer when none is in progress.
LEMMA TransferSound ==
  ASSUME NEW r, CardSound(r), ~r.busy, NEW len \in Blocks, NEW write \in BOOLEAN
  PROVE  /\ CardSound(StartTransfer(r, len, write))
         /\ StartTransfer(r, len, write).write = write /\ ~StartTransfer(r, len, write).ready
  <1> DEFINE s == StartTransfer(r, len, write)
  <1>1. r \in CardType /\ s \in CardType
    BY CardTypes DEF CardSound
  <1>2. /\ s.busy /\ ~s.ready /\ s.write = write /\ s.len = len /\ s.pos = 0 /\ s.ended = 0
        /\ s.moved = <<>> /\ s.event = (IF len = 0 THEN "end" ELSE "prepare")
    BY <1>1 DEF StartTransfer, CardType
  <1>3. len \in Nat
    BY CartAssumption
  <1>4. QED BY <1>1, <1>2, <1>3 DEF CardSound

\* The event makes a word ready, or ends a transfer without words.
LEMMA PrepareSound ==
  ASSUME NEW r, CardSound(r), r.event = "prepare"
  PROVE  /\ CardSound(ROMPrepareData(r)) /\ ROMPrepareData(r).ready
         /\ ROMPrepareData(r).write = r.write
  <1> DEFINE s == ROMPrepareData(r)
  <1>1. r \in CardType /\ s \in CardType
    BY CardTypes DEF CardSound
  <1>2. /\ s.ready /\ s.event = "none" /\ s.busy = r.busy /\ s.write = r.write /\ s.len = r.len
        /\ s.moved = r.moved /\ s.ended = r.ended
        /\ r.write => s.pos = r.pos
        /\ ~r.write => s.pos = r.pos + 1 /\ s.data = IF r.pos >= r.len THEN 0 ELSE r.pos + 1
    BY <1>1 DEF ROMPrepareData, CardType
  <1>3. r.pos \in Nat /\ r.len \in Nat
    BY <1>1, CardLength
  <1>4. QED BY <1>1, <1>2, <1>3 DEF CardSound

\* The event that ends a transfer without words.
LEMMA EndSound ==
  ASSUME NEW r, CardSound(r), r.event = "end"
  PROVE  CardSound(ROMEndTransfer([r EXCEPT !.event = "none"]))
  <1> DEFINE s == ROMEndTransfer([r EXCEPT !.event = "none"])
  <1>1. r \in CardType /\ s \in CardType
    BY CardTypes DEF CardSound
  <1>2. /\ ~s.busy /\ s.ended = r.ended + 1 /\ s.event = "none" /\ s.ready = r.ready
        /\ s.len = r.len /\ s.moved = r.moved
    BY <1>1 DEF ROMEndTransfer, CardType
  <1>3. QED BY <1>1, <1>2 DEF CardSound

\* A word has gone to the other side: the next is due, or it was the last.
LEMMA AdvanceSound ==
  ASSUME NEW s, s \in CardType, s.busy, s.ended = 0, s.event = "none",
         Len(s.moved) = s.pos, s.pos <= s.len, \A i \in 1 .. Len(s.moved) : s.moved[i] = i
  PROVE  CardSound(AdvanceROMTransfer(s)) /\ AdvanceROMTransfer(s).write = s.write
  <1> DEFINE t == AdvanceROMTransfer(s)
  <1>1. s.pos \in Nat /\ s.len \in Nat /\ t \in CardType
    BY CardLength, CardTypes, AdvanceType
  <1>2. /\ ~t.ready /\ t.write = s.write /\ t.moved = s.moved
        /\ t.len = s.len /\ t.pos = s.pos
        /\ s.pos < s.len => t.event = "prepare" /\ t.busy /\ t.ended = 0
        /\ ~(s.pos < s.len) => t.event = "none" /\ ~t.busy /\ t.ended = 1
    BY DEF AdvanceROMTransfer, ROMEndTransfer, CardType
  <1>3. QED BY <1>1, <1>2 DEF CardSound

\* The word that is ready goes from the card to whoever reads it.
LEMMA ReadSound ==
  ASSUME NEW r, CardSound(r), r.ready, ~r.write
  PROVE  CardSound(ReadROMData(r)) /\ ReadROMData(r).write = r.write
  <1> DEFINE s == [r EXCEPT !.moved = Append(r.moved, r.data)]
  <1>1. r \in CardType /\ Len(r.moved) \in Nat /\ Append(r.moved, r.data) \in Seq(Nat)
        /\ Len(Append(r.moved, r.data)) = Len(r.moved) + 1
        /\ Append(r.moved, r.data)[Len(r.moved) + 1] = r.data
        /\ \A i \in 1 .. Len(r.moved) : Append(r.moved, r.data)[i] = r.moved[i]
    BY AppendProperties, LenProperties DEF CardSound, CardType
  <1>2. /\ s \in CardType /\ s.busy = r.busy /\ s.ended = r.ended /\ s.event = r.event
        /\ s.pos = r.pos /\ s.len = r.len /\ s.write = r.write
        /\ s.moved = Append(r.moved, r.data)
    BY <1>1 DEF CardType
  <1>3. /\ r.busy /\ r.ended = 0 /\ r.event = "none" /\ Len(r.moved) + 1 = r.pos
        /\ r.data = r.pos /\ r.pos <= r.len
        /\ \A i \in 1 .. Len(r.moved) : r.moved[i] = i
    BY DEF CardSound
  <1>4. \A i \in 1 .. Len(s.moved) : s.moved[i] = i
    BY <1>1, <1>2, <1>3
  <1>5. ReadROMData(r) = AdvanceROMTransfer(s)
    BY DEF ReadROMData
  <1>6. QED BY <1>1, <1>2, <1>3, <1>4, <1>5, AdvanceSound

\* A program gives the card the word it waits for.
LEMMA WriteSound ==
  ASSUME NEW r, CardSound(r), r.ready, r.write
  PROVE  /\ CardSound(WriteROMData(r, Len(r.moved) + 1))
         /\ WriteROMData(r, Len(r.moved) + 1).write = r.write
  <1> DEFINE word == Len(r.moved) + 1
             s == [[r EXCEPT !.data = word] EXCEPT !.pos = r.pos + 1,
                                                   !.moved = Append(r.moved, word)]
  <1>1. r \in CardType /\ Len(r.moved) \in Nat /\ Append(r.moved, word) \in Seq(Nat)
        /\ Len(Append(r.moved, word)) = Len(r.moved) + 1
        /\ Append(r.moved, word)[Len(r.moved) + 1] = word
        /\ \A i \in 1 .. Len(r.moved) : Append(r.moved, word)[i] = r.moved[i]
    BY AppendProperties, LenProperties DEF CardSound, CardType
  <1>2. /\ s \in CardType /\ s.busy = r.busy /\ s.ended = r.ended /\ s.event = r.event
        /\ s.pos = r.pos + 1 /\ s.len = r.len /\ s.write = r.write
        /\ s.moved = Append(r.moved, word)
    <2>1. r.pos + 1 \in Nat /\ word \in Nat
      BY <1>1, CardLength
    <2>2. QED BY <1>1, <2>1 DEF CardType
  <1>3. /\ r.busy /\ r.ended = 0 /\ r.event = "none" /\ Len(r.moved) = r.pos /\ r.pos < r.len
        /\ \A i \in 1 .. Len(r.moved) : r.moved[i] = i
        /\ r.pos \in Nat /\ r.len \in Nat
    BY <1>1, CardLength DEF CardSound
  <1>4. \A i \in 1 .. Len(s.moved) : s.moved[i] = i
    BY <1>1, <1>2, <1>3
  <1>5. WriteROMData(r, word) = AdvanceROMTransfer(s)
    BY <1>1, <1>3 DEF WriteROMData, CardType
  <1>6. s.busy /\ s.ended = 0 /\ s.event = "none" /\ Len(s.moved) = s.pos /\ s.pos <= s.len
    BY <1>1, <1>2, <1>3
  <1>7. CardSound(AdvanceROMTransfer(s)) /\ AdvanceROMTransfer(s).write = s.write
    BY <1>2, <1>4, <1>6, AdvanceSound
  <1>8. QED BY <1>2, <1>3, <1>5, <1>7

-----------------------------------------------------------------------------
(* The channels together. *)

\* A stop request changes nothing but Stall, and is meant for a channel inside Run9.
LEMMA StallSound ==
  ASSUME NEW d \in [Channels -> ChannelType], \A n \in Channels : ChannelSound(d[n])
  PROVE  /\ StallDMAs(d) \in [Channels -> ChannelType]
         /\ \A n \in Channels :
              LET c == StallDMAs(d)[n]
              IN  /\ ChannelSound(c) /\ Settings(c) = Settings(d[n])
                  /\ c.running = d[n].running /\ c.inProgress = d[n].inProgress
                  /\ c.executing = d[n].executing /\ c.iter = d[n].iter
                  /\ c.executing => c.stall
                  /\ CartSound(d[n]) => CartSound(c)
  <1>1. ASSUME NEW n \in Channels
        PROVE  LET c == StallDMAs(d)[n]
               IN  /\ ChannelSound(c) /\ Settings(c) = Settings(d[n])
                   /\ c.running = d[n].running /\ c.inProgress = d[n].inProgress
                   /\ c.executing = d[n].executing /\ c.iter = d[n].iter
                   /\ c.executing => c.stall
                   /\ CartSound(d[n]) => CartSound(c)
    <2>1. StallDMAs(d)[n] = IF d[n].executing THEN [d[n] EXCEPT !.stall = TRUE] ELSE d[n]
      BY DEF StallDMAs
    <2>2. CASE d[n].executing
      BY <2>1, <2>2 DEF ChannelSound, ChannelType, CartSound, Settings
    <2>3. CASE ~d[n].executing
      BY <2>1, <2>3 DEF ChannelSound, ChannelType, CartSound, Settings
    <2>4. QED BY <2>2, <2>3
  <1>2. StallDMAs(d) \in [Channels -> ChannelType]
    BY <1>1 DEF StallDMAs, ChannelSound
  <1>3. QED BY <1>1, <1>2

\* A look at the level of the FIFO starts the channels that feed it if it is low.
LEMMA CheckFifoSound ==
  ASSUME NEW d \in [Channels -> ChannelType], \A n \in Channels : ChannelSound(d[n]), NEW f
  PROVE  /\ CheckFIFODMA(d, f) \in [Channels -> ChannelType]
         /\ \A n \in Channels :
              LET c == CheckFIFODMA(d, f)[n]
              IN  /\ ChannelSound(c) /\ Settings(c) = Settings(d[n])
                  /\ c.executing = d[n].executing /\ c.stall = d[n].stall
                  /\ d[n].running \/ d[n].mode # "geometry" \/ ~d[n].enabled => c = d[n]
                  /\ Len(f) < Half /\ d[n].mode = "geometry" /\ d[n].enabled => c.running
                  /\ CartSound(d[n]) => CartSound(c)
  <1>1. CASE Len(f) < Half
    BY <1>1, CheckSound DEF CheckFIFODMA
  <1>2. CASE ~(Len(f) < Half)
    BY <1>2 DEF CheckFIFODMA
  <1>3. QED BY <1>1, <1>2

\* A program enables a channel at rest: it is set up, and starts if its mode says so.
LEMMA EnableSteps ==
  ASSUME ChannelsInv, EnableDma
  PROVE  /\ pc = "arm9" /\ (pc' = "arm9" \/ pc' = "gpu") /\ over' \in {0, over}
         /\ UNCHANGED <<use, geometry, card, ch, late, store>>
         /\ \E n \in Channels, c \in ChannelType, d \in [Channels -> ChannelType] :
              /\ d = [dma EXCEPT ![n] = c]
              /\ ~dma[n].enabled /\ ~dma[n].inProgress
              /\ c.enabled /\ ~c.running /\ ~c.executing /\ ~c.inProgress
              /\ c.mode \in ModesOf[n] \cap use
              /\ c.mode = "cart" => c.len = 1 /\ c.repeat /\ ~card.busy
              /\ \A m \in Channels : ChannelSound(d[m])
              /\ \/ c.mode = "now" /\ dma' = [d EXCEPT ![n] = Start(c)]
                 \/ c.mode = "geometry" /\ dma' = CheckFIFODMA(d, fifo)
                 \/ c.mode \notin {"now", "geometry"} /\ dma' = d
  <1>1. PICK n \in Channels, len \in Lengths, repeat \in BOOLEAN :
          \E mode \in ModesOf[n] \cap use :
            LET c == [dma[n] EXCEPT !.enabled = TRUE, !.repeat = repeat, !.mode = mode,
                                    !.len = len]
                d == [dma EXCEPT ![n] = c]
            IN  /\ ~dma[n].enabled /\ ~dma[n].inProgress
                /\ mode = "cart" => len = 1 /\ repeat /\ ~card.busy
                /\ dma' = CASE mode = "now" -> [d EXCEPT ![n] = Start(c)]
                            [] mode = "geometry" -> CheckFIFODMA(d, fifo)
                            [] OTHER -> d
                /\ pc' = IF AnyRunning(dma') THEN "gpu" ELSE pc
                /\ over' = IF AnyRunning(dma') THEN 0 ELSE over
    BY DEF EnableDma
  <1>2. PICK mode \in ModesOf[n] \cap use :
          LET c == [dma[n] EXCEPT !.enabled = TRUE, !.repeat = repeat, !.mode = mode,
                                  !.len = len]
              d == [dma EXCEPT ![n] = c]
          IN  /\ ~dma[n].enabled /\ ~dma[n].inProgress
              /\ mode = "cart" => len = 1 /\ repeat /\ ~card.busy
              /\ dma' = CASE mode = "now" -> [d EXCEPT ![n] = Start(c)]
                          [] mode = "geometry" -> CheckFIFODMA(d, fifo)
                          [] OTHER -> d
              /\ pc' = IF AnyRunning(dma') THEN "gpu" ELSE pc
              /\ over' = IF AnyRunning(dma') THEN 0 ELSE over
    BY <1>1
  <1> DEFINE c == [dma[n] EXCEPT !.enabled = TRUE, !.repeat = repeat, !.mode = mode, !.len = len]
             d == [dma EXCEPT ![n] = c]
  <1>3. mode \in Modes
    BY <1>2, BusAssumption
  <1>4. /\ ChannelSound(c) /\ ~c.running /\ ~c.executing /\ ~c.inProgress
        /\ c.enabled /\ c.mode = mode /\ c.len = len /\ c.repeat = repeat
    <2>1. ChannelSound(dma[n]) /\ ~dma[n].inProgress /\ ~dma[n].running /\ ~dma[n].executing
      BY <1>2 DEF ChannelsInv, ChannelSound
    <2>2. QED BY <2>1, <1>3 DEF ChannelSound, ChannelType
  <1>5. d \in [Channels -> ChannelType] /\ \A m \in Channels : ChannelSound(d[m])
    BY <1>4 DEF ChannelsInv, ChannelSound
  <1>9. c \in ChannelType
    BY <1>4 DEF ChannelSound
  <1>6. \/ mode = "now" /\ dma' = [d EXCEPT ![n] = Start(c)]
        \/ mode = "geometry" /\ dma' = CheckFIFODMA(d, fifo)
        \/ mode \notin {"now", "geometry"} /\ dma' = d
    BY <1>2
  <1>7. /\ pc = "arm9" /\ (pc' = "arm9" \/ pc' = "gpu") /\ over' \in {0, over}
        /\ UNCHANGED <<use, geometry, card, ch, late, store>>
    <2>1. pc = "arm9" /\ UNCHANGED <<use, geometry, card, ch, late, store>>
      BY DEF EnableDma, Arm9
    <2>2. QED BY <1>2, <2>1
  <1>8. ~dma[n].enabled /\ ~dma[n].inProgress /\ (mode = "cart" => len = 1 /\ repeat /\ ~card.busy)
    BY <1>2
  <1>10. d = [dma EXCEPT ![n] = c]
    OBVIOUS
  <1> HIDE DEF c, d
  <1>11. QED BY <1>4, <1>5, <1>6, <1>7, <1>8, <1>9, <1>10

-----------------------------------------------------------------------------
(* Every step keeps the base invariant, part by part. *)

\* The queues keep their shape, and GXSTAT and the interrupt follow them.
LEMMA GeometrySteps ==
  ASSUME Shape, StatTruthful, [Next]_vars
  PROVE  Shape' /\ StatTruthful'
  <1>1. \/ UNCHANGED geometry
        \/ CmdFIFOWrite \/ ExecuteCommand
        \/ FinishWork \/ WriteGXStat \/ Acknowledge \/ SwapBuffers
    BY DEF Next, vars, BeginSlice, WriteCommand, StoreCommands, SetIrqMode, AckIrq,
           EnableDma, DisableDma, StartCard, PollCard, SendCard, EndArm9, EnterDma, MoveUnit,
           LeaveDma, PassDma, EndDma, Execute, EndGpu, CardEvent, VBlank, EndSystem
  <1>2. CASE UNCHANGED geometry
    BY <1>2 DEF geometry, Shape, Filled, StatTruthful, MatrixIn, IsMatrix, Asks
  <1>3. CASE CmdFIFOWrite
    BY <1>3, WriteShape, WriteTruthful
  <1>4. CASE ExecuteCommand
    BY <1>4, ExecuteShape, ExecuteTruthful
  <1>5. CASE FinishWork \/ WriteGXStat \/ Acknowledge \/ SwapBuffers
    BY <1>5, QuietSteps, QuietTruthful
  <1>6. QED BY <1>1, <1>2, <1>3, <1>4, <1>5

\* The card's registers and the slice's keep their types.
LEMMA RegistersSteps ==
  ASSUME Registers, ChannelsInv, [Next]_vars
  PROVE  Registers'
  <1> DEFINE Slice == /\ pc \in Phases /\ ch \in Nat /\ late \in BOOLEAN
                      /\ store \in Nat /\ over \in Nat
  <1>1. use' \in Uses
    BY DEF Registers, Next, vars, BeginSlice, WriteCommand, StoreCommands, SetIrqMode, AckIrq,
           EnableDma, DisableDma, StartCard, PollCard, SendCard, EndArm9, EnterDma, MoveUnit,
           LeaveDma, PassDma, EndDma, Execute, EndGpu, CardEvent, VBlank, EndSystem
  <1>2. card' \in CardType
    <2>1. CASE UNCHANGED card
      BY <2>1 DEF Registers
    <2>2. CASE StartCard \/ PollCard
      BY <2>2, CardTypes DEF Registers, StartCard, PollCard
    <2>3. CASE SendCard
      <3>1. Len(card.moved) + 1 \in Nat
        BY LenProperties DEF Registers, CardType
      <3>2. QED BY <2>3, <3>1, CardTypes DEF Registers, SendCard
    <2>4. CASE MoveUnit
      BY <2>4, CardTypes DEF Registers, MoveUnit
    <2>5. CASE CardEvent
      BY <2>5, CardTypes DEF Registers, CardEvent
    <2>6. QED
      BY <2>1, <2>2, <2>3, <2>4, <2>5
         DEF Next, vars, BeginSlice, WriteCommand, StoreCommands, SetIrqMode, AckIrq,
             EnableDma, DisableDma, EndArm9, EnterDma, LeaveDma, PassDma, EndDma, Execute,
             EndGpu, VBlank, EndSystem
  <1>3. Slice'
    <2> USE DEF Registers, Phases, slice
    <2>1. CASE BeginSlice
      BY <2>1 DEF BeginSlice
    <2>2. CASE WriteCommand
      BY <2>2 DEF WriteCommand
    <2>3. CASE StoreCommands
      BY <2>3, BusAssumption DEF StoreCommands
    <2>4. CASE EnableDma
      <3>1. /\ pc' = "arm9" \/ pc' = "gpu"
            /\ over' \in {0, over} /\ ch' = ch /\ late' = late /\ store' = store
        BY <2>4, EnableSteps
      <3>2. QED BY <3>1
    <2>5. CASE SetIrqMode \/ AckIrq \/ DisableDma \/ StartCard \/ PollCard \/ SendCard
      BY <2>5 DEF SetIrqMode, AckIrq, DisableDma, StartCard, PollCard, SendCard
    <2>6. CASE EndArm9 \/ EnterDma \/ EndDma
      <3>1. CASE EndArm9
        BY <3>1 DEF EndArm9
      <3>2. CASE EnterDma
        BY <3>2 DEF EnterDma
      <3>3. CASE EndDma
        BY <3>3 DEF EndDma
      <3>4. QED BY <2>6, <3>1, <3>2, <3>3
    <2>7. CASE MoveUnit
      BY <2>7, BusAssumption DEF MoveUnit
    <2>8. CASE LeaveDma \/ PassDma
      BY <2>8 DEF LeaveDma, PassDma
    <2>9. CASE Execute \/ EndGpu
      BY <2>9 DEF Execute, EndGpu
    <2>10. CASE CardEvent \/ VBlank \/ EndSystem
      BY <2>10 DEF CardEvent, VBlank, EndSystem
    <2>11. CASE UNCHANGED vars
      BY <2>11 DEF vars
    <2>12. QED
      BY <2>1, <2>2, <2>3, <2>4, <2>5, <2>6, <2>7, <2>8, <2>9, <2>10, <2>11 DEF Next
  <1>4. QED BY <1>1, <1>2, <1>3 DEF Registers

\* A channel that leaves Run9 leaves none inside it.
LEMMA LeaveSteps ==
  ASSUME ChannelsInv, LeaveDma
  PROVE  /\ dma' \in [Channels -> ChannelType]
         /\ \A n \in Channels : ChannelSound(dma'[n]) /\ ~dma'[n].executing
  <1> USE DEF ChannelsInv
  <1> DEFINE d == [dma EXCEPT ![ch] = Left(dma[ch])]
  <1>1. /\ pc = "dma" /\ ch \in Channels /\ dma[ch].executing
        /\ dma' = d \/ dma' = CheckFIFODMA(d, fifo)
    BY DEF LeaveDma
  <1>2. ChannelSound(Left(dma[ch])) /\ ~Left(dma[ch]).executing
    BY <1>1, LeftSound
  <1>3. /\ d \in [Channels -> ChannelType]
        /\ \A n \in Channels : ChannelSound(d[n]) /\ ~d[n].executing
    BY <1>1, <1>2 DEF ChannelSound
  <1> HIDE DEF d
  <1>4. /\ CheckFIFODMA(d, fifo) \in [Channels -> ChannelType]
        /\ \A n \in Channels : /\ ChannelSound(CheckFIFODMA(d, fifo)[n])
                               /\ ~CheckFIFODMA(d, fifo)[n].executing
    <2>1. d \in [Channels -> ChannelType] /\ \A n \in Channels : ChannelSound(d[n])
      BY <1>3
    <2>2. /\ CheckFIFODMA(d, fifo) \in [Channels -> ChannelType]
          /\ \A n \in Channels : /\ ChannelSound(CheckFIFODMA(d, fifo)[n])
                                 /\ CheckFIFODMA(d, fifo)[n].executing = d[n].executing
      BY <2>1, CheckFifoSound
    <2>3. QED BY <1>3, <2>2
  <1>5. QED BY <1>1, <1>3, <1>4 DEF d

\* The channels keep their types, and only the one whose turn it is is inside Run9.
LEMMA ChannelsSteps ==
  ASSUME ChannelsInv, Registers, Shape, [Next]_vars
  PROVE  ChannelsInv'
  <1> USE DEF ChannelsInv
  <1>1. ASSUME UNCHANGED dma,
               \A n \in Channels : dma[n].executing => pc' = "dma" /\ ch' = n
        PROVE  ChannelsInv'
    BY <1>1 DEF ChannelSound, ChannelType
  <1>2. CASE WriteCommand
    <2>1. dma' = StallDMAs(dma) \/ dma' = dma
      BY <1>2 DEF WriteCommand
    <2>2. pc' = pc /\ ch' = ch
      BY <1>2 DEF WriteCommand
    <2>3. QED BY <2>1, <2>2, <1>1, StallSound
  <1>3. CASE EnableDma
    <2>1. pc = "arm9" /\ \A n \in Channels : ~dma[n].executing
      BY <1>3, EnableSteps
    <2>2. PICK n \in Channels, c \in ChannelType, d \in [Channels -> ChannelType] :
            /\ d = [dma EXCEPT ![n] = c] /\ ~c.executing
            /\ \A m \in Channels : ChannelSound(d[m])
            /\ \/ c.mode = "now" /\ dma' = [d EXCEPT ![n] = Start(c)]
               \/ c.mode = "geometry" /\ dma' = CheckFIFODMA(d, fifo)
               \/ c.mode \notin {"now", "geometry"} /\ dma' = d
      BY <1>3, EnableSteps
    <2>3. \A m \in Channels : ~d[m].executing
      BY <2>1, <2>2
    <2>4. ChannelSound(Start(c)) /\ ~Start(c).executing
      BY <2>2, StartSound
    <2>5. CASE dma' = [d EXCEPT ![n] = Start(c)]
      BY <2>2, <2>3, <2>4, <2>5 DEF ChannelSound
    <2>6. CASE dma' = CheckFIFODMA(d, fifo)
      BY <2>2, <2>3, <2>6, CheckFifoSound
    <2>7. CASE dma' = d
      BY <2>2, <2>3, <2>7
    <2>8. QED BY <2>2, <2>5, <2>6, <2>7
  <1>4. CASE DisableDma
    <2>1. PICK n \in Channels : /\ ~dma[n].inProgress
                                /\ dma' = [dma EXCEPT ![n].enabled = FALSE]
      BY <1>4 DEF DisableDma
    <2>2. pc' = pc /\ ch' = ch
      BY <1>4 DEF DisableDma, slice
    <2>3. QED BY <2>1, <2>2 DEF ChannelSound, ChannelType
  <1>5. CASE EnterDma
    <2>1. /\ pc = "dma" /\ ch \in Channels /\ dma[ch].running /\ pc' = pc /\ ch' = ch
          /\ dma' = [dma EXCEPT ![ch].executing = TRUE]
      BY <1>5 DEF EnterDma, slice
    <2>2. QED BY <2>1 DEF ChannelSound, ChannelType
  <1>6. CASE MoveUnit
    <2>1. /\ pc = "dma" /\ ch \in Channels /\ dma[ch].iter > 0 /\ pc' = pc /\ ch' = ch
          /\ dma' = [dma EXCEPT ![ch] = Moved(dma[ch])]
      BY <1>6 DEF MoveUnit
    <2>2. QED BY <2>1, MovedSound DEF ChannelSound
  <1>7. CASE LeaveDma
    BY <1>7, LeaveSteps
  <1>8. CASE PassDma \/ EndDma
    <2>1. UNCHANGED dma /\ \A n \in Channels : ~dma[n].executing
      BY <1>8 DEF PassDma, EndDma
    <2>2. QED BY <2>1, <1>1
  <1>9. CASE Execute
    <2>1. pc = "gpu" /\ (dma' = dma \/ dma' = CheckFIFODMA(dma, fifo'))
      BY <1>9 DEF Execute
    <2>2. /\ CheckFIFODMA(dma, fifo') \in [Channels -> ChannelType]
          /\ \A n \in Channels : /\ ChannelSound(CheckFIFODMA(dma, fifo')[n])
                                 /\ ~CheckFIFODMA(dma, fifo')[n].executing
      BY <2>1, CheckFifoSound
    <2>3. QED BY <2>1, <2>2, <1>1
  <1>10. CASE CardEvent \/ VBlank
    <2>1. pc = "system" /\ \E mode : dma' = dma \/ dma' = CheckDMAs(dma, mode)
      BY <1>10 DEF CardEvent, VBlank
    <2>2. QED BY <2>1, <1>1, CheckSound
  <1>11. CASE UNCHANGED <<dma, pc, ch>>
    BY <1>11, <1>1
  <1>12. CASE BeginSlice \/ EndArm9 \/ EndGpu \/ EndSystem
    <2>1. pc # "dma" /\ UNCHANGED dma
      BY <1>12 DEF BeginSlice, EndArm9, EndGpu, EndSystem, Arm9
    <2>2. QED BY <2>1, <1>1
  <1>13. StoreCommands \/ SetIrqMode \/ AckIrq \/ StartCard \/ PollCard \/ SendCard
           \/ UNCHANGED vars => UNCHANGED <<dma, pc, ch>>
    BY DEF StoreCommands, SetIrqMode, AckIrq, StartCard, PollCard, SendCard, vars, slice
  <1>14. QED
    BY <1>2, <1>3, <1>4, <1>5, <1>6, <1>7, <1>8, <1>9, <1>10, <1>11, <1>12, <1>13 DEF Next

\* Whoever looks at the level of the FIFO leaves it fed.
LEMMA CheckFifoFeeds ==
  ASSUME NEW d \in [Channels -> ChannelType], \A n \in Channels : ChannelSound(d[n]),
         NEW f, Len(f) < Half, NEW n \in Channels
  PROVE  LET c == CheckFIFODMA(d, f)[n]
         IN  c.inProgress /\ c.enabled /\ c.mode = "geometry" => c.running
  <1>1. CheckFIFODMA(d, f) = CheckDMAs(d, "geometry")
    BY DEF CheckFIFODMA
  <1>2. LET c == CheckDMAs(d, "geometry")[n]
        IN  /\ Settings(c) = Settings(d[n])
            /\ d[n].mode = "geometry" /\ d[n].enabled => c.running
    BY CheckSound
  <1>3. QED BY <1>1, <1>2 DEF Settings

\* No step leaves a channel that feeds the engine at rest while the FIFO is low.
LEMMA FedSteps ==
  ASSUME Fed, ChannelsInv, Shape, [Next]_vars
  PROVE  Fed'
  <1> USE DEF Fed
  <1> DEFINE Rests(c) == c.inProgress /\ c.enabled /\ c.mode = "geometry" /\ ~c.running
  <1>1. ASSUME Len(fifo') < Half => Len(fifo) < Half,
               \A n \in Channels : Rests(dma'[n]) => Rests(dma[n])
        PROVE  Fed'
    BY <1>1
  <1>2. ASSUME UNCHANGED <<fifo, dma>> PROVE Fed'
    BY <1>2
  <1>3. CASE WriteCommand
    <2>1. Len(fifo) \in Nat /\ Len(fifo') \in Nat /\ Half \in Nat /\ Len(fifo') >= Len(fifo)
      BY <1>3, WriteShape, LenProperties, GeometryAssumption DEF WriteCommand, Shape
    <2>2. dma' = StallDMAs(dma) \/ dma' = dma
      BY <1>3 DEF WriteCommand
    <2>3. \A n \in Channels : Rests(dma'[n]) => Rests(dma[n])
      BY <2>2, StallSound DEF ChannelsInv, Settings
    <2>4. QED BY <2>1, <2>3, <1>1
  <1>4. CASE EnableDma
    <2>1. fifo' = fifo
      BY <1>4, EnableSteps DEF geometry
    <2>2. PICK n \in Channels, c \in ChannelType, d \in [Channels -> ChannelType] :
            /\ d = [dma EXCEPT ![n] = c] /\ ~c.inProgress
            /\ \A m \in Channels : ChannelSound(d[m])
            /\ \/ c.mode = "now" /\ dma' = [d EXCEPT ![n] = Start(c)]
               \/ c.mode = "geometry" /\ dma' = CheckFIFODMA(d, fifo)
               \/ c.mode \notin {"now", "geometry"} /\ dma' = d
      BY <1>4, EnableSteps
    <2>4. ~c.inProgress /\ ChannelSound(c) /\ d[n] = c
          /\ \A m \in Channels : m # n => d[m] = dma[m]
      BY <2>2 DEF ChannelsInv
    <2>5. Start(c).running
      BY <2>4, StartSound
    <2>6. CASE dma' = [d EXCEPT ![n] = Start(c)]
      BY <2>1, <2>2, <2>4, <2>5, <2>6, <1>1
    <2>7. CASE dma' = CheckFIFODMA(d, fifo)
      BY <2>1, <2>2, <2>7, CheckFifoFeeds
    <2>8. CASE dma' = d
      BY <2>1, <2>2, <2>4, <2>8, <1>1
    <2>9. QED BY <2>2, <2>6, <2>7, <2>8
  <1>5. CASE DisableDma
    <2>1. PICK n \in Channels : /\ ~dma[n].inProgress
                                /\ dma' = [dma EXCEPT ![n].enabled = FALSE]
      BY <1>5 DEF DisableDma
    <2>2. fifo' = fifo
      BY <1>5 DEF DisableDma, geometry
    <2>3. \A m \in Channels : Rests(dma'[m]) => Rests(dma[m])
      BY <2>1 DEF ChannelsInv, ChannelType
    <2>4. QED BY <2>2, <2>3, <1>1
  <1>6. CASE EnterDma
    <2>1. /\ ch \in Channels /\ fifo' = fifo
          /\ dma' = [dma EXCEPT ![ch].executing = TRUE]
      BY <1>6 DEF EnterDma, geometry
    <2>2. \A m \in Channels : Rests(dma'[m]) => Rests(dma[m])
      BY <2>1 DEF ChannelsInv, ChannelType
    <2>3. QED BY <2>1, <2>2, <1>1
  <1>7. CASE MoveUnit
    <2>1. /\ ch \in Channels /\ dma[ch].iter > 0 /\ fifo' = fifo
          /\ dma' = [dma EXCEPT ![ch] = Moved(dma[ch])]
      BY <1>7 DEF MoveUnit, geometry
    <2>2. \A m \in Channels : Rests(dma'[m]) => Rests(dma[m])
      BY <2>1, MovedSound DEF ChannelsInv, Settings
    <2>3. QED BY <2>1, <2>2, <1>1
  <1>8. CASE LeaveDma
    <2> DEFINE d == [dma EXCEPT ![ch] = Left(dma[ch])]
    <2>1. /\ pc = "dma" /\ ch \in Channels /\ dma[ch].executing /\ fifo' = fifo
          /\ dma' = IF BatchEnded(dma[ch]) /\ dma[ch].mode = "geometry"
                    THEN CheckFIFODMA(d, fifo) ELSE d
      BY <1>8 DEF LeaveDma, geometry
    <2>2. /\ ChannelSound(Left(dma[ch])) /\ Left(dma[ch]).mode = dma[ch].mode
          /\ Left(dma[ch]).inProgress => Left(dma[ch]).running \/ BatchEnded(dma[ch])
      BY <2>1, LeftSound DEF ChannelsInv
    <2>3. /\ d \in [Channels -> ChannelType]
          /\ \A n \in Channels : ChannelSound(d[n])
      BY <2>1, <2>2 DEF ChannelSound, ChannelsInv
    <2>4. CASE dma' = CheckFIFODMA(d, fifo)
      BY <2>1, <2>3, <2>4, CheckFifoFeeds
    <2>5. CASE ~(BatchEnded(dma[ch]) /\ dma[ch].mode = "geometry") /\ dma' = d
      <3>1. \A m \in Channels : Rests(dma'[m]) => Rests(dma[m])
        BY <2>1, <2>2, <2>5 DEF ChannelsInv
      <3>2. QED BY <2>1, <3>1, <1>1
    <2>6. QED BY <2>1, <2>4, <2>5
  <1>9. CASE Execute
    <2>1. /\ dma' = IF Refills THEN CheckFIFODMA(dma, fifo') ELSE dma
          /\ ~Refills => fifo' = fifo
      BY <1>9, ExecuteCases DEF Execute
    <2>2. CASE Refills
      BY <2>1, <2>2, CheckFifoFeeds DEF ChannelsInv
    <2>3. QED BY <2>1, <2>2, <1>2
  <1>10. CASE CardEvent \/ VBlank
    <2>1. fifo' = fifo /\ \E mode : dma' = dma \/ dma' = CheckDMAs(dma, mode)
      BY <1>10 DEF CardEvent, VBlank, SwapBuffers, geometry
    <2>2. \A m \in Channels : Rests(dma'[m]) => Rests(dma[m])
      BY <2>1, CheckSound DEF ChannelsInv, Settings
    <2>3. QED BY <2>1, <2>2, <1>1
  <1>11. BeginSlice \/ StoreCommands \/ SetIrqMode \/ AckIrq \/ StartCard \/ PollCard \/ SendCard
           \/ EndArm9 \/ PassDma \/ EndDma \/ EndGpu \/ EndSystem \/ UNCHANGED vars
             => UNCHANGED <<fifo, dma>>
    BY DEF BeginSlice, StoreCommands, SetIrqMode, AckIrq, StartCard, PollCard, SendCard, EndArm9,
           PassDma, EndDma, EndGpu, EndSystem, FinishWork, WriteGXStat, Acknowledge, geometry, vars
  <1>12. QED
    BY <1>2, <1>3, <1>4, <1>5, <1>6, <1>7, <1>8, <1>9, <1>10, <1>11 DEF Next

-----------------------------------------------------------------------------
(* The invariants hold from the start. *)

\* After a reset all queues are empty and all channels at rest.
LEMMA InitBaseInv == Init => BaseInv
  <1> SUFFICES ASSUME Init PROVE BaseInv
    OBVIOUS
  <1>1. /\ pipe = <<>> /\ fifo = <<>> /\ queue = <<>> /\ stalled = FALSE
        /\ written = 0 /\ executed = 0 /\ matrixOps = 0
        /\ stat = [busy |-> FALSE, matrix |-> FALSE, irq |-> 0]
        /\ pending = FALSE /\ flush = FALSE
    BY DEF Init, GeometryInit
  <1>2. Shape
    <2>1. 0 \in Commands
      BY StreamFits DEF Commands
    <2>2. <<>> \in Seq(Commands) /\ Len(<<>>) = 0
      BY EmptySeq
    <2>3. stat \in StatType
      BY <1>1 DEF StatType
    <2>4. Len(pipe) <= PipeSize /\ Len(fifo) <= FifoSize /\ Len(queue) <= StallSize
      BY <1>1, <2>2, GeometryAssumption
    <2>5. Filled
      BY <1>1 DEF Filled
    <2>6. stalled \in BOOLEAN /\ pending \in BOOLEAN /\ flush \in BOOLEAN
      BY <1>1
    <2>7. QED BY <1>1, <2>1, <2>2, <2>3, <2>4, <2>5, <2>6 DEF Shape
  <1>3. StatTruthful
    <2>1. pipe \o fifo = <<>>
      BY <1>1, EmptySeq
    <2>2. ~Asks(fifo, stat.irq)
      BY <1>1 DEF Asks
    <2>3. QED BY <1>1, <2>1, <2>2, NoMatrices DEF StatTruthful, Matrices
  <1>4. Registers
    BY ResetSound DEF Init, Registers, Phases, CardSound
  <1>5. ChannelSound(ResetChannel) /\ ~ResetChannel.executing /\ ~ResetChannel.inProgress
    BY DmaAssumption DEF ResetChannel, ChannelSound, ChannelType, Modes
  <1>6. dma \in [Channels -> ChannelType] /\ \A n \in Channels : dma[n] = ResetChannel
    BY <1>5 DEF Init, ChannelSound
  <1>7. QED BY <1>2, <1>3, <1>4, <1>5, <1>6 DEF BaseInv, ChannelsInv, Fed

\* The parts of the base invariant together.
LEMMA NextBaseInv == BaseInv /\ [Next]_vars => BaseInv'
  BY GeometrySteps, RegistersSteps, ChannelsSteps, FedSteps DEF BaseInv

\* The base invariant holds in every reachable state, with no assumption on the
\* programs or the sizes.
THEOREM BaseInvariance == Spec => []BaseInv
  BY InitBaseInv, NextBaseInv, PTL DEF Spec

\* The base invariant gives the types; the count of pushes and pops is that of the
\* commands that wait.
LEMMA TypesFollow == BaseInv => TypeOK
  <1> SUFFICES ASSUME BaseInv PROVE TypeOK
    OBVIOUS
  <1>1. matrixOps \in Nat
    <2>1. pipe \o fifo \in Seq(Commands)
      BY CommandConcat DEF BaseInv, Shape
    <2>2. QED BY <2>1, MatricesType DEF BaseInv, StatTruthful, Matrices
  <1>2. GeometryTypeOK /\ Filled
    BY <1>1 DEF BaseInv, Shape, GeometryTypeOK
  <1>3. QED BY <1>2 DEF BaseInv, Registers, ChannelsInv, TypeOK

\* The registers and the queues keep their types: the pipe runs ahead of the FIFO and the
\* FIFO ahead of the stall queue, the system is stalled exactly while the stall queue holds
\* something, and at most one channel is inside Run9.
THEOREM TypesHold == Spec => []TypeOK
  BY BaseInvariance, TypesFollow, PTL

\* The base invariant says more than the property: it holds in mid-slice too.
LEMMA LevelFollows == BaseInv => LevelSeen
  BY DEF BaseInv, Fed, LevelSeen, FedWhenLow

\* Whoever waits on the level of the FIFO is told of it: GXSTAT and the interrupt tell the
\* program, and no channel that feeds the engine is at rest while the FIFO is low.
THEOREM LevelIsSeen == Spec => []LevelSeen
  BY BaseInvariance, LevelFollows, PTL

-----------------------------------------------------------------------------
(* The geometry engine is given every command it takes once. *)

\* Whatever is written or executed, what waits stays in order.
LEMMA OrderSteps ==
  ASSUME BaseInv, InOrder, [Next]_vars
  PROVE  InOrder'
  <1>1. Shape
    BY DEF BaseInv
  <1>2. \/ UNCHANGED geometry
        \/ CmdFIFOWrite \/ ExecuteCommand
        \/ FinishWork \/ WriteGXStat \/ Acknowledge \/ SwapBuffers
    BY DEF Next, vars, BeginSlice, WriteCommand, StoreCommands, SetIrqMode, AckIrq,
           EnableDma, DisableDma, StartCard, PollCard, SendCard, EndArm9, EnterDma, MoveUnit,
           LeaveDma, PassDma, EndDma, Execute, EndGpu, CardEvent, VBlank, EndSystem
  <1>3. CASE UNCHANGED geometry
    <2>1. UNCHANGED Queues
      BY <1>3 DEF geometry, Queues
    <2>2. QED BY <2>1, QuietInOrder
  <1>4. CASE FinishWork \/ WriteGXStat \/ Acknowledge \/ SwapBuffers
    BY <1>1, <1>4, QuietSteps, QuietInOrder
  <1>5. QED BY <1>1, <1>2, <1>3, <1>4, WriteInOrder, ExecuteInOrder

\* The stall queue has room until the ARM9 stores again.
LEMMA RoomSteps ==
  ASSUME BaseInv, Room, [Next]_vars
  PROVE  Room'
  <1>1. /\ store \in Nat /\ over \in Nat /\ StallSize \in Nat /\ StallSize > 0
        /\ Len(queue) \in Nat /\ Len(queue) <= StallSize
        /\ Shape /\ ChannelsInv
        /\ stalled <=> queue # <<>>
    BY GeometryAssumption, LenProperties
       DEF BaseInv, Registers, Shape, Filled
  <1>2. ChannelsInv' /\ store' \in Nat /\ over' \in Nat
    BY NextBaseInv DEF BaseInv, Registers
  <1>3. ASSUME UNCHANGED <<queue, stalled>>,
               store' <= StallSize, over' > 0 => pc' = "arm9",
               stalled /\ over' = 0 => store' = 0 \/ (over = 0 /\ store' <= store),
               stalled => \A n \in Channels : dma'[n].executing => dma'[n].stall
        PROVE  Room'
    <2>1. stalled /\ over' = 0 => Len(queue) + store' <= StallSize
      BY <1>1, <1>2, <1>3 DEF Room
    <2>2. QED BY <1>3, <2>1 DEF Room
  <1>4. CASE WriteCommand
    <2>1. /\ CmdFIFOWrite /\ store > 0 /\ store' = store - 1
          /\ over' = over /\ pc' = pc
          /\ dma' = IF stalled' /\ ~stalled THEN StallDMAs(dma) ELSE dma
      BY <1>4 DEF WriteCommand
    <2>2. stalled /\ over = 0 => Len(queue) + store <= StallSize
      BY DEF Room
    <2>3. ~stalled => Len(queue) = 0
      BY <1>1, EmptySeq
    <2>4. Len(queue') <= Len(queue) + 1 /\ Len(queue') \in Nat
      <3>1. written \in Commands
        BY <1>1 DEF Shape
      <3>2. queue' = queue \/ queue' = Append(queue, written)
        BY <1>1, <2>1, WriteCases
      <3>3. QED BY <1>1, <3>1, <3>2, AppendProperties DEF Shape
    <2>5. stalled' /\ over' = 0 => Len(queue') + store' <= StallSize
      BY <1>1, <2>1, <2>2, <2>3, <2>4 DEF Room
    <2>6. stalled' => \A n \in Channels : dma'[n].executing => dma'[n].stall
      <3>1. CASE stalled
        BY <1>1, <2>1, <3>1 DEF Room
      <3>2. CASE ~stalled
        BY <1>1, <2>1, <3>2, StallSound DEF ChannelsInv
      <3>3. QED BY <3>1, <3>2
    <2>7. store' <= StallSize /\ (over' > 0 => pc' = "arm9")
      BY <1>1, <2>1 DEF Room
    <2>8. QED BY <2>5, <2>6, <2>7 DEF Room
  <1>5. CASE Execute
    <2>1. /\ pc = "gpu" /\ ExecuteCommand /\ store' = store /\ over' = over /\ pc' # "dma"
          /\ ~(over > 0)
      BY <1>5 DEF Execute, Room
    <2>2. (stalled' => stalled) /\ Len(queue') <= Len(queue) /\ Len(queue') \in Nat
      <3>1. CASE Refills
        <4>1. pipe # <<>> /\ queue' = Stays /\ (stalled' => stalled)
          BY <2>1, <3>1, ExecuteCases
        <4>2. Len(Stays) = Len(queue) - Fits /\ Fits \in Nat /\ Fits <= Len(queue)
          BY <1>1, <4>1, Parts
        <4>3. QED BY <1>1, <4>1, <4>2
      <3>2. CASE ~Refills
        BY <1>1, <2>1, <3>2, ExecuteCases
      <3>3. QED BY <3>1, <3>2
    <2>3. \A n \in Channels : ~dma'[n].executing
      BY <1>2, <2>1 DEF ChannelsInv
    <2>4. QED BY <1>1, <2>1, <2>2, <2>3 DEF Room
  <1>6. CASE StoreCommands
    <2>1. /\ pc = "arm9" /\ pc' = pc /\ store' \in 1 .. StoreMax
          /\ UNCHANGED <<queue, stalled, dma>>
          /\ over' = IF stalled THEN over + 1 ELSE over
      BY <1>6 DEF StoreCommands, Arm9, geometry
    <2>2. store' <= StallSize
      BY <1>1, <2>1, BusAssumption
    <2>3. stalled => over' # 0
      BY <1>1, <2>1
    <2>4. QED BY <1>3, <2>1, <2>2, <2>3 DEF Room
  <1>7. CASE MoveUnit
    <2>1. /\ UNCHANGED <<queue, stalled>> /\ pc' = pc /\ over' = over /\ ch \in Channels
          /\ dma[ch].executing /\ ~dma[ch].stall
          /\ store' = store \/ store' \in 0 .. WordMax
      BY <1>7 DEF MoveUnit, geometry
    <2>2. ~stalled
      BY <1>1, <2>1 DEF Room
    <2>3. store' <= StallSize
      BY <1>1, <2>1, BusAssumption DEF Room
    <2>4. QED BY <1>3, <2>1, <2>2, <2>3 DEF Room
  <1>8. CASE EnterDma
    <2>1. ~stalled /\ UNCHANGED <<queue, stalled, slice>>
      BY <1>8 DEF EnterDma, geometry
    <2>2. QED BY <1>1, <1>3, <2>1 DEF slice, Room
  <1>9. CASE EnableDma \/ EndArm9
    <2>1. /\ pc = "arm9" /\ pc' \in {"arm9", "gpu"} /\ store = 0 /\ store' = 0
          /\ UNCHANGED <<queue, stalled>> /\ (pc' = "arm9" \/ over' = 0)
      BY <1>9 DEF EnableDma, EndArm9, Arm9, geometry
    <2>2. \A n \in Channels : ~dma'[n].executing
      BY <1>2, <2>1 DEF ChannelsInv
    <2>3. over' > 0 => pc' = "arm9"
      BY <2>1
    <2>4. QED BY <1>1, <1>3, <2>1, <2>2, <2>3
  <1>10. CASE LeaveDma
    <2>1. UNCHANGED <<queue, stalled, store, over, pc>>
      BY <1>10 DEF LeaveDma, geometry
    <2>2. stalled => \A n \in Channels : dma'[n].executing => dma'[n].stall
      BY <1>1, <1>10, LeaveSteps DEF Room
    <2>3. QED BY <1>1, <1>3, <2>1, <2>2 DEF Room
  <1>11. CASE SetIrqMode \/ AckIrq \/ StartCard \/ PollCard \/ SendCard \/ UNCHANGED vars
    <2>1. UNCHANGED <<queue, stalled, dma, store, over, pc>>
      BY <1>11 DEF SetIrqMode, AckIrq, StartCard, PollCard, SendCard, WriteGXStat, Acknowledge,
                   geometry, slice, vars
    <2>2. QED BY <1>1, <1>3, <2>1 DEF Room
  <1>12. CASE DisableDma
    <2>1. UNCHANGED <<queue, stalled, store, over, pc>> /\ pc = "arm9"
      BY <1>12 DEF DisableDma, Arm9, geometry, slice
    <2>2. \A n \in Channels : ~dma'[n].executing
      BY <1>2, <2>1 DEF ChannelsInv
    <2>3. QED BY <1>1, <1>3, <2>1, <2>2 DEF Room
  <1>13. CASE BeginSlice \/ EndGpu \/ CardEvent \/ VBlank \/ EndSystem
    <2>1. /\ UNCHANGED <<queue, stalled, store, over>> /\ pc # "arm9" /\ pc # "dma"
      BY <1>13 DEF BeginSlice, EndGpu, FinishWork, CardEvent, VBlank, SwapBuffers, EndSystem,
                   geometry, slice
    <2>2. over = 0
      BY <1>1, <2>1 DEF Room
    <2>3. stalled => pc' # "dma"
      BY <1>13, <2>1 DEF BeginSlice, EndGpu, CardEvent, VBlank, EndSystem, slice
    <2>4. stalled => \A n \in Channels : ~dma'[n].executing
      BY <1>2, <2>3 DEF ChannelsInv
    <2>5. QED BY <1>1, <1>3, <2>1, <2>2, <2>4 DEF Room
  <1>14. CASE PassDma \/ EndDma
    <2>1. /\ UNCHANGED <<queue, stalled, dma, store, over>> /\ pc = "dma"
      BY <1>14 DEF PassDma, EndDma, geometry
    <2>2. over = 0
      BY <1>1, <2>1 DEF Room
    <2>3. QED BY <1>1, <1>3, <2>1, <2>2 DEF Room
  <1>15. QED
    BY <1>4, <1>5, <1>6, <1>7, <1>8, <1>9, <1>10, <1>11, <1>12, <1>13, <1>14 DEF Next

\* A command that is refused finds the stall queue full, and that takes another store.
LEMMA RefusalNeedsOverrun ==
  ASSUME BaseInv, Room, [Next]_vars, store' < store, ~Taken
  PROVE  pc = "arm9" /\ over > 0
  <1>1. /\ store \in Nat /\ over \in Nat /\ StallSize \in Nat /\ StallSize > 0
        /\ Len(queue) \in Nat /\ Shape /\ written \in Commands
        /\ stalled <=> queue # <<>>
    BY GeometryAssumption, LenProperties
       DEF BaseInv, Registers, Shape, Filled
  <1>2. store' \in Nat
    BY NextBaseInv DEF BaseInv, Registers
  <1>3. WriteCommand
    <2>1. CASE StoreCommands \/ MoveUnit
      <3>1. store' = store \/ store = 0
        BY <2>1 DEF StoreCommands, MoveUnit, Arm9
      <3>2. QED BY <1>1, <1>2, <3>1
    <2>2. CASE EnableDma
      <3>1. store' = store
        BY <2>2 DEF EnableDma
      <3>2. QED BY <1>1, <3>1
    <2>3. CASE BeginSlice \/ SetIrqMode \/ AckIrq \/ DisableDma \/ StartCard \/ PollCard
                 \/ SendCard \/ EndArm9 \/ EnterDma \/ LeaveDma \/ PassDma \/ EndDma \/ Execute
                 \/ EndGpu \/ CardEvent \/ VBlank \/ EndSystem \/ UNCHANGED vars
      <3>1. store' = store
        BY <2>3
           DEF BeginSlice, SetIrqMode, AckIrq, DisableDma, StartCard, PollCard, SendCard, EndArm9,
               EnterDma, LeaveDma, PassDma, EndDma, Execute, EndGpu, CardEvent, VBlank, EndSystem,
               slice, vars
      <3>2. QED BY <1>1, <3>1
    <2>4. QED BY <2>1, <2>2, <2>3 DEF Next
  <1>4. CmdFIFOWrite /\ store > 0
    BY <1>3 DEF WriteCommand
  <1>5. After(written) # written
    BY <1>1, GeometryAssumption DEF After, Commands
  <1>6. ~(Len(queue) < StallSize)
    BY <1>1, <1>4, <1>5, WriteCases DEF Taken
  <1>7. ~stalled => Len(queue) = 0
    BY <1>1, EmptySeq
  <1>8. stalled /\ over = 0 => Len(queue) + store <= StallSize
    BY DEF Room
  <1>9. over # 0
    BY <1>1, <1>4, <1>6, <1>7, <1>8
  <1>10. QED BY <1>1, <1>9 DEF Room

-----------------------------------------------------------------------------
(* The card is given and gives every word once. *)

\* At most one channel is used for the card: two would share its words.
OneCart == \A m, n \in Channels : "cart" \in ModesOf[m] /\ "cart" \in ModesOf[n] => m = n

\* What CardInv says of one channel.
CardChannel(n) ==
    /\ CartSound(dma[n])
    /\ dma[n].mode = "cart" =>
        /\ "cart" \in ModesOf[n]
        /\ dma[n].enabled /\ card.busy => ~card.write
        /\ dma[n].running /\ dma[n].iter > 0 => card.ready

\* A running card channel has a word to take, or is still inside Run9.
LEMMA CardIsRead ==
  ASSUME BaseInv, CardInv, NEW n \in Channels, dma[n].mode = "cart", dma[n].running
  PROVE  /\ dma[n].enabled
         /\ pc # "dma" \/ dma[n].iter > 0 => card.ready /\ card.busy /\ ~card.write
  <1>1. /\ ChannelSound(dma[n]) /\ CartSound(dma[n]) /\ CardSound(card)
        /\ dma[n].executing => pc = "dma"
    BY DEF BaseInv, ChannelsInv, CardInv
  <1>2. dma[n].enabled /\ (dma[n].iter = 0 => dma[n].executing) /\ dma[n].iter \in Nat
    BY <1>1 DEF ChannelSound, ChannelType, CartSound
  <1>3. dma[n].iter > 0 => card.ready
    BY DEF CardInv
  <1>4. card.ready => card.busy
    BY <1>1 DEF CardSound
  <1>5. card.busy => ~card.write
    BY <1>2 DEF CardInv
  <1>6. QED BY <1>1, <1>2, <1>3, <1>4, <1>5

\* Every step keeps the words of the card in order, whoever moves them.
LEMMA CardSteps ==
  ASSUME OneCart, BaseInv, CardInv, [Next]_vars
  PROVE  CardInv'
  <1>1. /\ ChannelsInv /\ Registers /\ CardSound(card)
        /\ \A n \in Channels : ChannelSound(dma[n]) /\ CardChannel(n)
    BY DEF BaseInv, ChannelsInv, CardInv, CardChannel
  <1>2. ASSUME CardSound(card)', \A n \in Channels : CardChannel(n)'
        PROVE  CardInv'
    BY <1>2 DEF CardInv, CardChannel
  <1>3. ASSUME NEW n \in Channels, card' = card, CartSound(dma'[n]),
               dma'[n].mode = dma[n].mode, dma'[n].enabled => dma[n].enabled,
               dma'[n].running /\ dma'[n].iter > 0 => dma[n].running /\ dma[n].iter > 0
        PROVE  CardChannel(n)'
    BY <1>1, <1>3 DEF CardChannel
  <1>4. ASSUME NEW n \in Channels, card' = card, dma'[n] = dma[n] PROVE CardChannel(n)'
    BY <1>1, <1>4 DEF CardChannel
  <1>5. CASE WriteCommand
    <2>1. card' = card /\ (dma' = StallDMAs(dma) \/ dma' = dma)
      BY <1>5 DEF WriteCommand
    <2>2. ASSUME NEW n \in Channels, dma' = StallDMAs(dma) PROVE CardChannel(n)'
      BY <1>1, <1>3, <2>1, <2>2, StallSound DEF ChannelsInv, Settings, CardChannel
    <2>3. QED BY <1>1, <1>2, <1>4, <2>1, <2>2
  <1>6. CASE EnableDma
    <2>1. card' = card
      BY <1>1, <1>6, EnableSteps
    <2>2. PICK n \in Channels, c \in ChannelType, d \in [Channels -> ChannelType] :
            /\ d = [dma EXCEPT ![n] = c]
            /\ c.enabled /\ ~c.running /\ ~c.executing /\ ~c.inProgress
            /\ c.mode \in ModesOf[n] \cap use
            /\ c.mode = "cart" => c.len = 1 /\ c.repeat /\ ~card.busy
            /\ \A m \in Channels : ChannelSound(d[m])
            /\ \/ c.mode = "now" /\ dma' = [d EXCEPT ![n] = Start(c)]
               \/ c.mode = "geometry" /\ dma' = CheckFIFODMA(d, fifo)
               \/ c.mode \notin {"now", "geometry"} /\ dma' = d
      BY <1>1, <1>6, EnableSteps
    <2>3. ChannelSound(c) /\ d[n] = c /\ \A m \in Channels : m # n => d[m] = dma[m]
      BY <1>1, <2>2 DEF ChannelsInv
    <2>4. ASSUME NEW m \in Channels, d[m].mode = "cart" PROVE dma'[m] = d[m]
      <3>1. CASE dma' = CheckFIFODMA(d, fifo)
        BY ZenonT(40), <2>2, <2>4, <3>1, CheckFifoSound
      <3>2. CASE c.mode = "now" /\ dma' = [d EXCEPT ![n] = Start(c)]
        BY <2>2, <2>3, <2>4, <3>2
      <3>3. QED BY <2>2, <3>1, <3>2
    <2>5. ASSUME NEW m \in Channels, d[m].mode # "cart" PROVE dma'[m].mode # "cart"
      <3>1. CASE dma' = CheckFIFODMA(d, fifo)
        <4>1. Settings(CheckFIFODMA(d, fifo)[m]) = Settings(d[m])
          BY ZenonT(40), <2>2, CheckFifoSound
        <4>2. QED BY <2>5, <3>1, <4>1 DEF Settings
      <3>2. CASE c.mode = "now" /\ dma' = [d EXCEPT ![n] = Start(c)]
        BY ZenonT(40), <2>2, <2>3, <2>5, <3>2, StartSound DEF Settings
      <3>3. QED BY <2>2, <2>5, <3>1, <3>2
    <2>6. ASSUME NEW m \in Channels PROVE CardChannel(m)'
      <3>1. CASE d[m].mode # "cart"
        BY <2>5, <3>1 DEF CardChannel, CartSound
      <3>2. CASE d[m].mode = "cart" /\ m # n
        BY <1>4, <2>1, <2>3, <2>4, <3>2
      <3>3. CASE d[m].mode = "cart" /\ m = n
        BY <2>1, <2>2, <2>3, <2>4, <3>3 DEF CardChannel, CartSound
      <3>4. QED BY <3>1, <3>2, <3>3
    <2>7. QED BY <1>1, <1>2, <2>1, <2>6
  <1>7. CASE DisableDma
    <2>1. card' = card
      BY <1>7 DEF DisableDma
    <2>2. PICK n \in Channels : /\ ~dma[n].inProgress
                                /\ dma' = [dma EXCEPT ![n].enabled = FALSE]
      BY <1>7 DEF DisableDma
    <2>3. ASSUME NEW m \in Channels PROVE CardChannel(m)'
      <3>1. CASE m # n
        BY <1>1, <1>4, <2>1, <2>2, <3>1 DEF ChannelsInv
      <3>2. CASE m = n
        <4>1. dma'[m] = [dma[m] EXCEPT !.enabled = FALSE] /\ ~dma[m].running
          BY <1>1, <2>2, <3>2 DEF ChannelsInv, ChannelSound
        <4>2. /\ dma'[m].mode = dma[m].mode /\ ~dma'[m].enabled
              /\ ~dma'[m].inProgress /\ ~dma'[m].running
          BY <1>1, <2>2, <3>2, <4>1 DEF ChannelSound, ChannelType
        <4>3. QED BY <1>1, <1>3, <2>1, <4>2 DEF CartSound
      <3>3. QED BY <3>1, <3>2
    <2>4. QED BY <1>1, <1>2, <2>1, <2>3
  <1>8. CASE StartCard
    <2>1. /\ dma' = dma /\ ~card.busy
          /\ \E len \in Blocks, write \in BOOLEAN :
                /\ write => ~CardDma
                /\ card' = StartTransfer(card, len, write)
      BY <1>8 DEF StartCard
    <2>2. CardSound(card') /\ (card'.write => ~CardDma)
      BY <1>1, <2>1, TransferSound
    <2>3. ASSUME NEW n \in Channels PROVE CardChannel(n)'
      <3>1. dma[n].mode = "cart" => ~(dma[n].running /\ dma[n].iter > 0)
        BY <2>1, CardIsRead
      <3>2. QED BY <1>1, <2>1, <2>2, <3>1 DEF CardChannel, CardDma
    <2>4. QED BY <1>2, <2>2, <2>3
  <1>9. CASE PollCard \/ SendCard
    <2>1. /\ dma' = dma /\ card.ready /\ pc = "arm9"
          /\ \/ ~card.write /\ ~CardDma /\ card' = ReadROMData(card)
             \/ card.write /\ card' = WriteROMData(card, Len(card.moved) + 1)
      BY <1>9 DEF PollCard, SendCard, Arm9
    <2>2. CardSound(card') /\ card'.write = card.write
      BY <1>1, <2>1, ReadSound, WriteSound
    <2>3. card.busy
      BY <1>1, <2>1 DEF CardSound
    <2>4. ASSUME NEW n \in Channels, dma[n].mode = "cart" PROVE ~dma[n].enabled /\ ~dma[n].running
      <3>1. ~dma[n].enabled
        BY <1>1, <2>1, <2>3, <2>4 DEF CardChannel, CardDma
      <3>2. QED BY <2>4, <3>1, CardIsRead
    <2>5. ASSUME NEW n \in Channels PROVE CardChannel(n)'
      BY <1>1, <2>1, <2>4 DEF CardChannel
    <2>6. QED BY <1>2, <2>2, <2>5
  <1>10. CASE EnterDma
    <2>1. /\ ch \in Channels /\ card' = card
          /\ dma' = [dma EXCEPT ![ch].executing = TRUE]
      BY <1>10 DEF EnterDma
    <2>2. ASSUME NEW n \in Channels PROVE CardChannel(n)'
      <3>1. /\ CartSound(dma'[n]) /\ dma'[n].mode = dma[n].mode /\ dma'[n].enabled = dma[n].enabled
            /\ dma'[n].running = dma[n].running /\ dma'[n].iter = dma[n].iter
        BY <1>1, <2>1 DEF CardChannel, CartSound, ChannelsInv, ChannelType
      <3>2. QED BY <1>3, <2>1, <3>1
    <2>3. QED BY <1>1, <1>2, <2>1, <2>2
  <1>11. CASE MoveUnit
    <2>1. /\ pc = "dma" /\ ch \in Channels
          /\ dma[ch].executing /\ dma[ch].running /\ dma[ch].iter > 0
          /\ dma' = [dma EXCEPT ![ch] = Moved(dma[ch])]
          /\ card' = IF dma[ch].mode = "cart" THEN ReadROMData(card) ELSE card
      BY <1>1, <1>11 DEF MoveUnit, ChannelsInv
    <2>2. /\ CartSound(dma'[ch]) /\ Settings(dma'[ch]) = Settings(dma[ch])
          /\ dma'[ch].running = dma[ch].running /\ dma'[ch].iter = dma[ch].iter - 1
          /\ \A n \in Channels : n # ch => dma'[n] = dma[n]
      BY <1>1, <2>1, MovedSound DEF ChannelsInv, CardChannel
    <2>3. CASE dma[ch].mode # "cart"
      <3>1. ASSUME NEW n \in Channels PROVE CardChannel(n)'
        <4>1. CASE n # ch
          BY <1>4, <2>1, <2>2, <2>3, <4>1
        <4>2. CASE n = ch
          BY <2>2, <2>3, <4>2 DEF Settings, CardChannel
        <4>3. QED BY <4>1, <4>2
      <3>2. QED BY <1>1, <1>2, <2>1, <2>3, <3>1
    <2>4. CASE dma[ch].mode = "cart"
      <3>1. card.ready /\ card.busy /\ ~card.write /\ card' = ReadROMData(card)
        BY <2>1, <2>4, CardIsRead
      <3>2. CardSound(card') /\ ~card'.write
        BY <1>1, <3>1, ReadSound
      <3>3. ASSUME NEW n \in Channels PROVE CardChannel(n)'
        <4>1. CASE n # ch
          <5>1. dma'[n] = dma[n] /\ dma[n].mode # "cart"
            BY <1>1, <2>1, <2>2, <2>4, <4>1 DEF CardChannel, OneCart
          <5>2. QED BY <5>1, <1>1 DEF CardChannel
        <4>2. CASE n = ch
          <5>1. dma[ch].iter \in Nat /\ dma[ch].iter <= 1
            BY <1>1, <2>1, <2>4 DEF CardChannel, CartSound, ChannelSound, ChannelType
          <5>2. ~(dma'[ch].iter > 0)
            BY <2>2, <5>1
          <5>3. QED BY <1>1, <2>1, <2>2, <2>4, <3>2, <4>2, <5>2 DEF CardChannel, Settings
        <4>3. QED BY <4>1, <4>2
      <3>4. QED BY <1>2, <3>2, <3>3
    <2>5. QED BY <2>3, <2>4
  <1>12. CASE LeaveDma
    <2> DEFINE d == [dma EXCEPT ![ch] = Left(dma[ch])]
    <2>1. /\ ch \in Channels /\ dma[ch].running /\ card' = card
          /\ dma' = d \/ dma' = CheckFIFODMA(d, fifo)
      BY <1>1, <1>12 DEF LeaveDma, ChannelsInv
    <2>2. /\ ChannelSound(Left(dma[ch])) /\ CartSound(Left(dma[ch]))
          /\ Left(dma[ch]).mode = dma[ch].mode /\ (Left(dma[ch]).enabled => dma[ch].enabled)
          /\ Left(dma[ch]).running => Left(dma[ch]).iter = dma[ch].iter
      BY <1>1, <2>1, LeftSound DEF CardChannel
    <2>3. /\ d \in [Channels -> ChannelType] /\ d[ch] = Left(dma[ch])
          /\ \A n \in Channels : n # ch => d[n] = dma[n]
          /\ \A n \in Channels : ChannelSound(d[n])
      BY <1>1, <2>1, <2>2 DEF ChannelSound, ChannelsInv
    <2> HIDE DEF d
    <2>4. ASSUME NEW n \in Channels
          PROVE  /\ dma'[n].mode = d[n].mode
                 /\ d[n].mode = "cart" => dma'[n] = d[n]
      <3>1. CASE dma' = CheckFIFODMA(d, fifo)
        <4>1. /\ Settings(CheckFIFODMA(d, fifo)[n]) = Settings(d[n])
              /\ d[n].mode # "geometry" => CheckFIFODMA(d, fifo)[n] = d[n]
          BY <2>3, CheckFifoSound
        <4>2. QED BY <3>1, <4>1 DEF Settings
      <3>2. CASE dma' = d
        BY <3>2
      <3>3. QED BY <2>1, <3>1, <3>2 DEF d
    <2>5. ASSUME NEW n \in Channels PROVE CardChannel(n)'
      <3>1. CASE d[n].mode # "cart"
        BY <2>4, <3>1 DEF CardChannel, CartSound
      <3>2. CASE d[n].mode = "cart" /\ n # ch
        BY <1>4, <2>1, <2>3, <2>4, <3>2
      <3>3. CASE d[n].mode = "cart" /\ n = ch
        BY <1>3, <2>1, <2>2, <2>3, <2>4, <3>3
      <3>4. QED BY <3>1, <3>2, <3>3
    <2>6. QED BY <1>1, <1>2, <2>1, <2>5
  <1>13. ASSUME NEW d, d = CheckFIFODMA(dma, fifo') \/ d = CheckDMAs(dma, "vblank"),
                dma' = d, card' = card
         PROVE  CardInv'
    <2>1. ASSUME NEW n \in Channels
          PROVE  Settings(d[n]) = Settings(dma[n]) /\ (dma[n].mode = "cart" => d[n] = dma[n])
      BY <1>1, <1>13, CheckFifoSound, CheckSound DEF ChannelsInv
    <2>2. ASSUME NEW n \in Channels PROVE CardChannel(n)'
      <3>1. CASE dma[n].mode = "cart"
        BY <1>4, <1>13, <2>1, <3>1
      <3>2. CASE dma[n].mode # "cart"
        BY <1>13, <2>1, <3>2 DEF Settings, CardChannel, CartSound
      <3>3. QED BY <3>1, <3>2
    <2>3. QED BY <1>1, <1>2, <1>13, <2>2
  <1>14. CASE CardEvent /\ card.event = "prepare"
    <2>1. /\ pc = "system" /\ card' = ROMPrepareData(card) /\ dma' = CheckDMAs(dma, "cart")
      BY <1>14 DEF CardEvent
    <2>2. CardSound(card') /\ card'.ready /\ card'.write = card.write /\ card.busy
      BY <1>1, <1>14, <2>1, PrepareSound DEF CardSound
    <2>3. ASSUME NEW n \in Channels PROVE CardChannel(n)'
      <3>1. Settings(dma'[n]) = Settings(dma[n]) /\ CartSound(dma'[n])
        BY <1>1, <2>1, CheckSound DEF ChannelsInv, CardChannel
      <3>2. QED BY <1>1, <2>2, <3>1 DEF CardChannel, Settings
    <2>4. QED BY <1>2, <2>2, <2>3
  <1>15. CASE CardEvent /\ card.event # "prepare"
    <2>1. /\ pc = "system" /\ card.event = "end" /\ dma' = dma
          /\ card' = ROMEndTransfer([card EXCEPT !.event = "none"])
      BY <1>1, <1>15 DEF CardEvent, CardSound, CardType
    <2>2. CardSound(card') /\ ~card'.busy
      BY <1>1, <2>1, EndSound DEF ROMEndTransfer, CardSound, CardType
    <2>3. ASSUME NEW n \in Channels PROVE CardChannel(n)'
      <3>1. dma[n].mode = "cart" => ~dma[n].running
        BY <1>1, <2>1, CardIsRead DEF CardSound
      <3>2. QED BY <1>1, <2>1, <2>2, <3>1 DEF CardChannel
    <2>4. QED BY <1>2, <2>2, <2>3
  <1>16. CASE UNCHANGED <<dma, card>>
    BY <1>1, <1>2, <1>4, <1>16
  <1>17. CASE Execute \/ VBlank
    <2>1. /\ card' = card
          /\ dma' = dma \/ dma' = CheckFIFODMA(dma, fifo') \/ dma' = CheckDMAs(dma, "vblank")
      BY <1>17 DEF Execute, VBlank
    <2>2. QED BY <1>13, <1>16, <2>1
  <1>18. BeginSlice \/ StoreCommands \/ SetIrqMode \/ AckIrq \/ EndArm9 \/ PassDma \/ EndDma
           \/ EndGpu \/ EndSystem \/ UNCHANGED vars => UNCHANGED <<dma, card>>
    BY DEF BeginSlice, StoreCommands, SetIrqMode, AckIrq, EndArm9, PassDma, EndDma, EndGpu,
           EndSystem, vars
  <1>19. QED
    BY <1>5, <1>6, <1>7, <1>8, <1>9, <1>10, <1>11, <1>12, <1>14, <1>15, <1>16, <1>17, <1>18
       DEF Next

\* Nothing waits after a reset.
LEMMA InitQueues == Init => InOrder /\ Room
  <1> SUFFICES ASSUME Init PROVE InOrder /\ Room
    OBVIOUS
  <1>1. /\ pipe = <<>> /\ fifo = <<>> /\ queue = <<>> /\ stalled = FALSE
        /\ written = 0 /\ executed = 0 /\ store = 0 /\ over = 0
    BY DEF Init, GeometryInit
  <1>2. Waiting = <<>> /\ Len(Waiting) = 0
    BY <1>1, EmptySeq DEF Waiting
  <1>3. QED BY <1>1, <1>2, GeometryAssumption DEF InOrder, Run, Place, Room

\* No transfer is in progress after a reset.
LEMMA InitCardInv == Init => CardInv
  <1> SUFFICES ASSUME Init PROVE CardInv
    OBVIOUS
  <1>1. card = ResetCard /\ dma = [n \in Channels |-> ResetChannel]
    BY DEF Init
  <1>2. \A n \in Channels : dma[n].mode = "now"
    <2>1. ResetChannel.mode = "now"
      BY DEF ResetChannel
    <2>2. QED BY <1>1, <2>1
  <1>3. QED BY <1>1, <1>2, ResetSound DEF CardInv, CartSound

\* The stages of a transfer give the property.
LEMMA CardFollows == CardInv => CardInOrder
  <1> SUFFICES ASSUME CardInv PROVE CardInOrder
    OBVIOUS
  <1>1. DOMAIN card.moved = 1 .. Len(card.moved)
    BY LenProperties DEF CardInv, CardSound, CardType
  <1>2. QED BY <1>1 DEF CardInv, CardSound, CardInOrder

\* What the geometry engine takes reaches it, once and in order, whatever is refused
\* in between.
THEOREM CommandsArrive == Spec => []InSequence
  <1>1. BaseInv /\ InOrder /\ [Next]_vars => InOrder'
    BY OrderSteps
  <1>2. BaseInv /\ InOrder => InSequence
    BY OrderMeansSequence DEF BaseInv
  <1>3. QED BY <1>1, <1>2, InitQueues, BaseInvariance, PTL DEF Spec

\* Words go to and from the card in their order, each once, whoever takes them, if at most
\* one DMA channel does.
THEOREM WordsArrive ==
  ASSUME OneCart
  PROVE  Spec => []CardInOrder
  <1>1. BaseInv /\ CardInv /\ [Next]_vars => CardInv'
    BY CardSteps
  <1>2. QED BY <1>1, CardFollows, InitCardInv, BaseInvariance, PTL DEF Spec

\* A command is refused only when the ARM9 executes another store after the one that
\* stalled the system: that one is taken whole, and so is every word of a DMA channel.
THEOREM LossesNeedOverrun == Spec => LossNeedsOverrun
  <1>1. BaseInv /\ Room /\ [Next]_vars => Room'
    BY RoomSteps
  <1>2. BaseInv /\ Room /\ [Next]_vars
          => [store' < store /\ ~Taken => pc = "arm9" /\ over > 0]_vars
    BY RefusalNeedsOverrun
  <1>3. QED BY <1>1, <1>2, InitQueues, BaseInvariance, PTL DEF Spec, LossNeedsOverrun

\* All three: of the commands taken none is lost, and none is turned away but by an
\* ARM9 that runs on; the card's words arrive.
THEOREM DeliveryHolds ==
  ASSUME OneCart
  PROVE  Spec => Delivered
  <1> DEFINE Loss == store' < store /\ ~Taken => pc = "arm9" /\ over > 0
  <1>1. InSequence' /\ CardInOrder' /\ [Loss]_vars => [InSequence' /\ CardInOrder' /\ Loss]_vars
    OBVIOUS
  <1>2. QED BY <1>1, CommandsArrive, WordsArrive, LossesNeedOverrun, PTL
              DEF Delivered, LossNeedsOverrun
==============================================================================

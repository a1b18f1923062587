------------------------------ MODULE QueueProofs ------------------------------
(***************************************************************************)
(* The two components whose parts talk by queues.                          *)
(*                                                                         *)
(* What holds of the IPC registers for any capacity and any words, of both *)
(* CPUs sending and using every register in any order: the cached          *)
(* interrupt lines, the interrupts of the FIFOs, and that the ring buffers *)
(* implement the two queues of Channel (Ipc).                              *)
(*                                                                         *)
(* When no decision about a game's music is under way any more one hears   *)
(* what the game would play (BgmReplacement).                              *)
(***************************************************************************)
EXTENDS Ipc, BgmReplacement, FiniteSetTheorems, TLAPS

(* What the operations of FIFO do to the sequence of its entries, for every *)
(* capacity and through any number of wrap-arounds.                        *)

Sound(f) == f \in FifoType /\ Consistent(f)

\* The k-th entry from the read position is in the buffer.
LEMMA AtType ==
  ASSUME NEW f \in FifoType, NEW k \in 0 .. NumEntries
  PROVE  At(f, k) \in Positions
  BY FifoAssumption DEF FifoType, Positions, At

\* Different offsets below the capacity are different entries.
LEMMA AtInjective ==
  ASSUME NEW f \in FifoType, NEW k \in 0 .. NumEntries - 1, NEW l \in 0 .. NumEntries - 1,
         At(f, k) = At(f, l)
  PROVE  k = l
  BY FifoAssumption DEF FifoType, Positions, At

\* The entry after the k-th is the next one.
LEMMA AtStep ==
  ASSUME NEW f \in FifoType, NEW k \in 0 .. NumEntries - 1
  PROVE  At(f, k + 1) = Step(At(f, k))
  BY FifoAssumption DEF FifoType, Positions, At, Step

\* What is in a FIFO is as long as its count.
LEMMA ContentsType ==
  ASSUME NEW f \in FifoType
  PROVE  /\ Contents(f) \in Seq(Data)
         /\ Len(Contents(f)) = f.occupied
         /\ f.occupied \in Nat
         /\ IsEmpty(f) <=> Contents(f) = <<>>
  <1>1. f.occupied \in Nat
    BY FifoAssumption DEF FifoType
  <1>2. \A i \in 1 .. f.occupied : f.entries[At(f, i - 1)] \in Data
    <2> TAKE i \in 1 .. f.occupied
    <2>1. i - 1 \in 0 .. NumEntries
      BY FifoAssumption DEF FifoType
    <2> QED BY <2>1, AtType DEF FifoType
  <1>3. Contents(f) \in [1 .. f.occupied -> Data]
    BY <1>2 DEF Contents
  <1>4. Contents(f) \in Seq(Data) /\ Len(Contents(f)) = f.occupied
    BY <1>1, <1>3
  <1> QED BY <1>1, <1>4 DEF IsEmpty

\* A new FIFO is empty.
LEMMA NewFifoSound == Sound(NewFifo) /\ Contents(NewFifo) = <<>>
  <1>1. NewFifo \in FifoType
    BY FifoAssumption DEF NewFifo, FifoType, Positions
  <1>2. Consistent(NewFifo) /\ IsEmpty(NewFifo)
    BY FifoAssumption DEF NewFifo, Consistent, At, IsEmpty
  <1> QED BY <1>1, <1>2, ContentsType DEF Sound

\* Clear empties a FIFO, wherever its positions were.
LEMMA ClearSound ==
  ASSUME NEW f, Sound(f)
  PROVE  Sound(Clear(f)) /\ IsEmpty(Clear(f)) /\ Contents(Clear(f)) = <<>>
  <1>1. Clear(f) \in FifoType
    BY FifoAssumption DEF Clear, FifoType, Positions, Sound
  <1>2. Consistent(Clear(f)) /\ IsEmpty(Clear(f))
    BY FifoAssumption DEF Clear, Consistent, At, IsEmpty
  <1> QED BY <1>1, <1>2, ContentsType DEF Sound

\* Write appends, and overwrites nothing that is still to be read.
LEMMA WriteSound ==
  ASSUME NEW f, Sound(f), ~IsFull(f), NEW v \in Data
  PROVE  /\ Sound(Write(f, v))
         /\ Contents(Write(f, v)) = Append(Contents(f), v)
         /\ ~IsEmpty(Write(f, v))
  <1> DEFINE g == Write(f, v)
  <1>1. f \in FifoType /\ f.occupied \in 0 .. NumEntries - 1
    BY FifoAssumption DEF Sound, FifoType, IsFull
  <1>2. /\ g.entries = [f.entries EXCEPT ![f.writePos] = v]
        /\ g.writePos = Step(f.writePos) /\ g.occupied = f.occupied + 1
        /\ g.readPos = f.readPos
    BY <1>1 DEF Write, FifoType
  <1>3. g \in FifoType
    <2>1. Step(f.writePos) \in Positions
      BY <1>1, FifoAssumption DEF FifoType, Step, Positions
    <2>2. f.occupied + 1 \in 0 .. NumEntries
      BY <1>1, FifoAssumption
    <2> QED BY <1>1, <2>1, <2>2 DEF Write, FifoType, IsFull
  <1>4. f.writePos = At(f, f.occupied)
    BY DEF Sound, Consistent
  <1>5. \A k \in 0 .. NumEntries : At(g, k) = At(f, k)
    BY <1>2 DEF At
  <1>6. Consistent(g)
    <2>1. f.occupied + 1 \in 0 .. NumEntries
      BY <1>1, FifoAssumption
    <2>2. g.writePos = At(f, f.occupied + 1)
      BY <1>1, <1>2, <1>4, AtStep
    <2> QED BY <1>2, <1>5, <2>1, <2>2 DEF Consistent
  <1>7. Contents(g) = Append(Contents(f), v)
    <2>1. Contents(g) \in Seq(Data) /\ Contents(f) \in Seq(Data)
      BY <1>1, <1>3, ContentsType
    <2>2. Len(Contents(g)) = f.occupied + 1 /\ Len(Contents(f)) = f.occupied
      BY <1>1, <1>2, <1>3, ContentsType
    <2>3. ASSUME NEW i \in 1 .. f.occupied + 1
          PROVE  Contents(g)[i] = Append(Contents(f), v)[i]
      <3>1. i - 1 \in 0 .. NumEntries - 1
        BY <1>1, FifoAssumption
      <3>2. Contents(g)[i] = g.entries[At(f, i - 1)]
        BY <1>2, <1>5, <3>1, FifoAssumption DEF Contents
      <3>3. At(f, i - 1) \in Positions
        BY <1>1, <3>1, AtType, FifoAssumption
      <3>4. CASE i = f.occupied + 1
        <4>1. i - 1 = f.occupied
          BY <1>1, <3>4, FifoAssumption
        <4>2. Contents(g)[i] = v
          BY <1>1, <1>2, <1>4, <3>2, <3>3, <4>1 DEF FifoType
        <4> QED BY <2>1, <2>2, <3>4, <4>2
      <3>5. CASE i # f.occupied + 1
        <4>1. i \in 1 .. f.occupied /\ i - 1 # f.occupied
          BY <1>1, <3>5, FifoAssumption
        <4>2. At(f, i - 1) # f.writePos
          BY <1>1, <1>4, <3>1, <4>1, AtInjective
        <4>3. Contents(g)[i] = f.entries[At(f, i - 1)]
          BY <1>1, <1>2, <3>2, <3>3, <4>2 DEF FifoType
        <4>4. Contents(f)[i] = f.entries[At(f, i - 1)]
          BY <4>1 DEF Contents
        <4> QED BY <2>1, <2>2, <4>1, <4>3, <4>4
      <3> QED BY <3>4, <3>5
    <2>4. PICK c, d \in Seq(Data), n \in Nat :
              c = Contents(f) /\ d = Contents(g) /\ n = f.occupied
      BY <1>1, <2>1
    <2>5. Len(c) = n /\ Len(d) = n + 1 /\ \A i \in 1 .. n + 1 : d[i] = Append(c, v)[i]
      BY <2>2, <2>3, <2>4
    <2>6. d = Append(c, v)
      BY <2>5
    <2> QED BY <2>4, <2>6
  <1>8. ~IsEmpty(g)
    BY <1>1, <1>2, FifoAssumption DEF IsEmpty
  <1> QED BY <1>3, <1>6, <1>7, <1>8 DEF Sound

\* Read takes the oldest entry.
LEMMA ReadSound ==
  ASSUME NEW f, Sound(f), ~IsEmpty(f)
  PROVE  /\ Sound(Read(f))
         /\ Contents(Read(f)) = Tail(Contents(f))
         /\ ReadValue(f) = Head(Contents(f))
  <1> DEFINE g == Read(f)
  <1>1. f \in FifoType /\ f.occupied \in 1 .. NumEntries
    BY FifoAssumption DEF Sound, FifoType, IsEmpty
  <1>2. /\ g.entries = f.entries /\ g.writePos = f.writePos
        /\ g.occupied = f.occupied - 1 /\ g.readPos = Step(f.readPos)
    BY <1>1 DEF Read, FifoType
  <1>3. g \in FifoType
    <2>1. Step(f.readPos) \in Positions
      BY <1>1, FifoAssumption DEF FifoType, Step, Positions
    <2>2. f.occupied - 1 \in 0 .. NumEntries
      BY <1>1, FifoAssumption
    <2> QED BY <1>1, <2>1, <2>2 DEF Read, FifoType, IsEmpty
  <1>4. \A k \in 0 .. NumEntries - 1 : At(g, k) = At(f, k + 1)
    <2> TAKE k \in 0 .. NumEntries - 1
    <2>1. f.readPos \in 0 .. NumEntries - 1 /\ g.readPos = Step(f.readPos)
      BY <1>1, <1>2 DEF FifoType, Positions
    <2>2. CASE f.readPos + 1 >= NumEntries
      BY <2>1, <2>2, FifoAssumption DEF At, Step
    <2>3. CASE ~(f.readPos + 1 >= NumEntries)
      BY <2>1, <2>3, FifoAssumption DEF At, Step
    <2> QED BY <2>2, <2>3
  <1>5. Consistent(g)
    <2>1. f.occupied - 1 \in 0 .. NumEntries - 1 /\ (f.occupied - 1) + 1 = f.occupied
      BY <1>1, FifoAssumption
    <2> QED BY <1>2, <1>4, <2>1 DEF Consistent, Sound
  <1>6. Contents(g) = Tail(Contents(f))
    <2>1. Contents(g) \in Seq(Data) /\ Contents(f) \in Seq(Data)
      BY <1>1, <1>3, ContentsType
    <2>2. Len(Contents(g)) = f.occupied - 1 /\ Len(Contents(f)) = f.occupied
      BY <1>1, <1>2, <1>3, ContentsType
    <2>3. Contents(f) # <<>>
      BY <1>1, ContentsType
    <2>4. Tail(Contents(f)) \in Seq(Data) /\ Len(Tail(Contents(f))) = f.occupied - 1
      BY <1>1, <2>1, <2>2, <2>3
    <2>5. ASSUME NEW i \in 1 .. f.occupied - 1
          PROVE  Contents(g)[i] = Tail(Contents(f))[i]
      <3>1. i - 1 \in 0 .. NumEntries - 1 /\ (i - 1) + 1 = i /\ (i + 1) - 1 = i
        BY <1>1, FifoAssumption
      <3>2. i + 1 \in 1 .. f.occupied
        BY <1>1, FifoAssumption
      <3>3. Contents(g)[i] = f.entries[At(f, i)]
        BY <1>2, <1>4, <3>1 DEF Contents
      <3>4. Contents(f)[i + 1] = f.entries[At(f, i)]
        BY <3>1, <3>2 DEF Contents
      <3> QED BY <1>1, <2>1, <2>2, <2>3, <3>3, <3>4
    <2> QED BY <1>1, <2>1, <2>2, <2>4, <2>5
  <1>7. ReadValue(f) = Head(Contents(f))
    <2>1. Contents(f)[1] = f.entries[At(f, 0)]
      BY <1>1 DEF Contents
    <2>2. At(f, 0) = f.readPos
      BY <1>1, FifoAssumption DEF At, FifoType, Positions
    <2> QED BY <1>1, <2>1, <2>2, ContentsType DEF ReadValue
  <1> QED BY <1>3, <1>5, <1>6, <1>7 DEF Sound

-----------------------------------------------------------------------------
(* The registers.                                                          *)

IrqType ==
    /\ ime \in [Cpus -> BOOLEAN] /\ line \in [Cpus -> BOOLEAN]
    /\ ie \in [Cpus -> SUBSET Irqs] /\ if \in [Cpus -> SUBSET Irqs]

IInv == TypeOK /\ LineFollows /\ \A c \in Cpus : Sound(fifo[c])

LEMMA OtherCpu == \A c \in Cpus : Other(c) \in Cpus /\ Other(c) # c /\ Other(Other(c)) = c
  BY DEF Cpus, Other

\* UpdateIRQ makes the line of its CPU follow and leaves the other alone.
LEMMA UpdateIRQFollows ==
  ASSUME IrqType, LineFollows, NEW c \in Cpus,
         ime' \in [Cpus -> BOOLEAN], ie' \in [Cpus -> SUBSET Irqs], if' \in [Cpus -> SUBSET Irqs],
         \A d \in Cpus \ {c} : ime'[d] = ime[d] /\ ie'[d] = ie[d] /\ if'[d] = if[d],
         UpdateIRQ(c)
  PROVE  IrqType' /\ LineFollows'
  <1>1. line' \in [Cpus -> BOOLEAN]
    BY DEF UpdateIRQ, IrqType, Interrupting
  <1>2. ASSUME NEW d \in Cpus PROVE line'[d] = Interrupting(d, ime', ie', if')
    <2>1. CASE d = c
      BY <2>1 DEF UpdateIRQ, IrqType
    <2>2. CASE d # c
      <3>1. line'[d] = line[d]
        BY <2>2 DEF UpdateIRQ, IrqType
      <3> QED BY <2>2, <3>1 DEF LineFollows, Interrupting
    <2> QED BY <2>1, <2>2
  <1> QED BY <1>1, <1>2 DEF IrqType, LineFollows

\* SetIRQ keeps every pending interrupt, adds those asked for, and leaves no
\* line stale.
LEMMA SetIRQFollows ==
  ASSUME IrqType, LineFollows, NEW c \in Cpus, NEW S \in SUBSET Irqs, SetIRQ(c, S)
  PROVE  IrqType' /\ LineFollows' /\ S \subseteq if'[c]
  <1>1. if' \in [Cpus -> SUBSET Irqs] /\ S \subseteq if'[c]
    BY DEF SetIRQ, IrqType
  <1>2. \A d \in Cpus \ {c} : if'[d] = if[d]
    BY DEF SetIRQ, IrqType
  <1>3. CASE S = {}
    <2>1. if' = if /\ line' = line /\ ime' = ime /\ ie' = ie
      BY <1>3 DEF SetIRQ, IrqType
    <2> QED BY <1>1, <2>1 DEF IrqType, LineFollows, Interrupting
  <1>4. CASE S # {}
    BY <1>1, <1>2, <1>4, UpdateIRQFollows DEF SetIRQ, IrqType
  <1> QED BY <1>3, <1>4

LEMMA TypeParts ==
  TypeOK <=> /\ fifo \in [Cpus -> FifoType] /\ cnt \in [Cpus -> CntType]
             /\ sync \in [Cpus -> SyncType] /\ IrqType /\ use \in Uses
  BY DEF TypeOK, IrqType

-----------------------------------------------------------------------------
LEMMA InitIInv == Init => IInv
  <1> SUFFICES ASSUME Init PROVE IInv
    OBVIOUS
  <1>1. \A c \in Cpus : fifo[c] = NewFifo
    BY DEF Init
  <1>2. \A c \in Cpus : Sound(fifo[c])
    BY <1>1, NewFifoSound
  <1>3. fifo \in [Cpus -> FifoType]
    BY NewFifoSound DEF Init, Sound
  <1>4. cnt \in [Cpus -> CntType] /\ sync \in [Cpus -> SyncType]
    BY DEF Init, CntType, SyncType
  <1>5. IrqType /\ use \in Uses /\ LineFollows
    BY DEF Init, IrqType, LineFollows, Interrupting
  <1> QED BY <1>2, <1>3, <1>4, <1>5, TypeParts DEF IInv

\* A step that leaves the FIFOs, or changes one of them soundly.
LEMMA FifoStep ==
  ASSUME IInv, NEW c \in Cpus, NEW g, Sound(g), fifo' = [fifo EXCEPT ![c] = g]
  PROVE  fifo' \in [Cpus -> FifoType] /\ \A d \in Cpus : Sound(fifo'[d])
  BY DEF IInv, TypeOK, Sound

LEMMA WriteIMEIInv ==
  ASSUME IInv, UNCHANGED use, NEW c \in Cpus, WriteIME(c) PROVE IInv'
  <1>1. ime' \in [Cpus -> BOOLEAN] /\ \A d \in Cpus \ {c} : ime'[d] = ime[d]
    BY DEF WriteIME, IInv, TypeOK
  <1>2. IrqType' /\ LineFollows'
    BY <1>1, UpdateIRQFollows, TypeParts DEF WriteIME, IInv, IrqType
  <1> QED BY <1>2, TypeParts DEF WriteIME, IInv, TypeOK, IrqType

LEMMA WriteIEIInv ==
  ASSUME IInv, UNCHANGED use, NEW c \in Cpus, WriteIE(c) PROVE IInv'
  <1>1. ie' \in [Cpus -> SUBSET Irqs] /\ \A d \in Cpus \ {c} : ie'[d] = ie[d]
    BY IpcAssumption DEF WriteIE, IInv, TypeOK
  <1>2. IrqType' /\ LineFollows'
    BY <1>1, UpdateIRQFollows, TypeParts DEF WriteIE, IInv, IrqType
  <1> QED BY <1>2, TypeParts DEF WriteIE, IInv, TypeOK, IrqType

LEMMA WriteIFIInv ==
  ASSUME IInv, UNCHANGED use, NEW c \in Cpus, WriteIF(c) PROVE IInv'
  <1>1. if' \in [Cpus -> SUBSET Irqs] /\ \A d \in Cpus \ {c} : if'[d] = if[d]
    BY DEF WriteIF, IInv, TypeOK
  <1>2. IrqType' /\ LineFollows'
    BY <1>1, UpdateIRQFollows, TypeParts DEF WriteIF, IInv, IrqType
  <1> QED BY <1>2, TypeParts DEF WriteIF, IInv, TypeOK, IrqType

LEMMA WriteSyncIInv ==
  ASSUME IInv, UNCHANGED use, NEW c \in Cpus, WriteSync(c) PROVE IInv'
  <1>1. PICK n \in Nibbles, irq \in BOOLEAN, send \in BOOLEAN :
           /\ sync' = [sync EXCEPT ![Other(c)].in = n, ![c].out = n, ![c].irq = irq]
           /\ SetIRQ(Other(c), IF send /\ sync[Other(c)].irq THEN {"Sync"} ELSE {})
    BY DEF WriteSync
  <1>2. IrqType' /\ LineFollows'
    BY <1>1, SetIRQFollows, OtherCpu, TypeParts DEF IInv, Irqs
  <1>3. sync' \in [Cpus -> SyncType]
    <2>1. Other(c) \in Cpus /\ Other(c) # c
      BY OtherCpu
    <2>2. sync \in [Cpus -> SyncType]
      BY DEF IInv, TypeOK
    <2>3. sync' = [sync EXCEPT ![Other(c)] = [@ EXCEPT !.in = n],
                               ![c] = [[@ EXCEPT !.out = n] EXCEPT !.irq = irq]]
      BY <1>1, <2>1, <2>2 DEF SyncType
    <2> QED BY <2>1, <2>2, <2>3 DEF SyncType
  <1> QED BY <1>2, <1>3 DEF WriteSync, IInv, TypeOK, IrqType

\* What a write of IPCFIFOCNT does, for the values it writes.
FifoCntStep(c, clear, sendIrq, recvIrq, enable, ack) ==
    LET f == IF clear THEN Clear(fifo[c]) ELSE fifo[c]
        done == sendIrq /\ ~cnt[c].sendIrq /\ IsEmpty(f)
        recv == recvIrq /\ ~cnt[c].recvIrq /\ ~IsEmpty(fifo[Other(c)])
    IN  /\ fifo' = [fifo EXCEPT ![c] = f]
        /\ cnt' = [cnt EXCEPT ![c] = [sendIrq |-> sendIrq, recvIrq |-> recvIrq,
                                      enable |-> enable, error |-> @.error /\ ~ack]]
        /\ SetIRQ(c, (IF done THEN {"SendDone"} ELSE {}) \cup (IF recv THEN {"Recv"} ELSE {}))

LEMMA WriteFifoCntIInv ==
  ASSUME IInv, UNCHANGED use, NEW c \in Cpus, WriteFifoCnt(c) PROVE IInv'
  <1>1. PICK clear \in BOOLEAN, sendIrq \in BOOLEAN, recvIrq \in BOOLEAN,
             enable \in BOOLEAN, ack \in BOOLEAN :
           FifoCntStep(c, clear, sendIrq, recvIrq, enable, ack)
    BY DEF WriteFifoCnt, FifoCntStep
  <1> DEFINE f == IF clear THEN Clear(fifo[c]) ELSE fifo[c]
             done == sendIrq /\ ~cnt[c].sendIrq /\ IsEmpty(f)
             recv == recvIrq /\ ~cnt[c].recvIrq /\ ~IsEmpty(fifo[Other(c)])
             S == (IF done THEN {"SendDone"} ELSE {}) \cup (IF recv THEN {"Recv"} ELSE {})
  <1>2. Sound(f)
    BY ClearSound DEF IInv
  <1>3. fifo' = [fifo EXCEPT ![c] = f]
    BY <1>1 DEF FifoCntStep
  <1>4. fifo' \in [Cpus -> FifoType] /\ \A d \in Cpus : Sound(fifo'[d])
    <2> HIDE DEF f
    <2> QED BY <1>2, <1>3, FifoStep
  <1>5. S \in SUBSET Irqs
    BY DEF Irqs
  <1>6. SetIRQ(c, S)
    BY <1>1 DEF FifoCntStep
  <1>7. IrqType' /\ LineFollows'
    <2> HIDE DEF S
    <2> QED BY <1>5, <1>6, SetIRQFollows, TypeParts DEF IInv
  <1>8. cnt' \in [Cpus -> CntType]
    BY <1>1 DEF FifoCntStep, IInv, TypeOK, CntType
  <1> QED BY <1>4, <1>7, <1>8 DEF WriteFifoCnt, IInv, TypeOK, IrqType

\* Refusing a word or a read keeps the control registers' type.
LEMMA RefusalType ==
  ASSUME IInv, NEW c \in Cpus, cnt' = [cnt EXCEPT ![c].error = TRUE]
  PROVE  cnt' \in [Cpus -> CntType]
  <1>1. cnt \in [Cpus -> CntType]
    BY DEF IInv, TypeOK
  <1>2. [cnt[c] EXCEPT !.error = TRUE] \in CntType
    BY <1>1 DEF CntType
  <1>3. cnt' = [cnt EXCEPT ![c] = [cnt[c] EXCEPT !.error = TRUE]]
    OBVIOUS
  <1> QED BY ONLY <1>1, <1>2, <1>3

LEMMA SendWordIInv ==
  ASSUME IInv, UNCHANGED use, NEW c \in Cpus, SendWord(c) PROVE IInv'
  <1>1. CASE IsFull(fifo[c])
    <2>1. cnt' \in [Cpus -> CntType]
      BY <1>1, RefusalType DEF SendWord
    <2>2. UNCHANGED <<fifo, ime, ie, if, line, sync>>
      BY <1>1 DEF SendWord, irqs
    <2> QED BY <2>1, <2>2 DEF IInv, TypeOK, LineFollows, Interrupting
  <1>2. CASE ~IsFull(fifo[c])
    <2>1. PICK w \in Words : fifo' = [fifo EXCEPT ![c] = Write(@, w)]
      BY <1>2 DEF SendWord
    <2>2. Sound(Write(fifo[c], w))
      BY <1>2, WriteSound, IpcAssumption DEF IInv
    <2>3. fifo' \in [Cpus -> FifoType] /\ \A d \in Cpus : Sound(fifo'[d])
      BY <2>1, <2>2, FifoStep DEF IInv, TypeOK
    <2>4. IrqType' /\ LineFollows'
      <3> DEFINE S == IF cnt[Other(c)].recvIrq /\ IsEmpty(fifo[c]) THEN {"Recv"} ELSE {}
      <3>1. SetIRQ(Other(c), S)
        BY <1>2 DEF SendWord
      <3>2. S \in SUBSET Irqs
        BY DEF Irqs
      <3> HIDE DEF S
      <3> QED BY <3>1, <3>2, SetIRQFollows, OtherCpu, TypeParts DEF IInv
    <2>5. UNCHANGED <<cnt, sync>>
      BY <1>2 DEF SendWord
    <2> QED BY <2>3, <2>4, <2>5 DEF IInv, TypeOK, IrqType
  <1> QED BY <1>1, <1>2

LEMMA RecvWordIInv ==
  ASSUME IInv, UNCHANGED use, NEW c \in Cpus, RecvWord(c) PROVE IInv'
  <1>1. CASE IsEmpty(fifo[Other(c)])
    <2>1. cnt' \in [Cpus -> CntType]
      BY <1>1, RefusalType DEF RecvWord
    <2>2. UNCHANGED <<fifo, ime, ie, if, line, sync>>
      BY <1>1 DEF RecvWord, irqs
    <2> QED BY <2>1, <2>2 DEF IInv, TypeOK, LineFollows, Interrupting
  <1>2. CASE ~IsEmpty(fifo[Other(c)])
    <2>1. fifo' = [fifo EXCEPT ![Other(c)] = Read(@)]
      BY <1>2 DEF RecvWord
    <2>2. Sound(Read(fifo[Other(c)]))
      BY <1>2, ReadSound, OtherCpu DEF IInv
    <2>3. fifo' \in [Cpus -> FifoType] /\ \A d \in Cpus : Sound(fifo'[d])
      BY <2>1, <2>2, FifoStep, OtherCpu DEF IInv, TypeOK
    <2>4. IrqType' /\ LineFollows'
      <3> DEFINE S == IF IsEmpty(fifo'[Other(c)]) /\ cnt[Other(c)].sendIrq
                      THEN {"SendDone"} ELSE {}
      <3>1. SetIRQ(Other(c), S)
        BY <1>2 DEF RecvWord
      <3>2. S \in SUBSET Irqs
        BY DEF Irqs
      <3> HIDE DEF S
      <3> QED BY <3>1, <3>2, SetIRQFollows, OtherCpu, TypeParts DEF IInv
    <2>5. UNCHANGED <<cnt, sync>>
      BY <1>2 DEF RecvWord
    <2> QED BY <2>3, <2>4, <2>5 DEF IInv, TypeOK, IrqType
  <1> QED BY <1>1, <1>2

LEMMA NextIInv == IInv /\ [Next]_vars => IInv'
  <1>1. ASSUME IInv, Next PROVE IInv'
    BY <1>1, WriteIMEIInv, WriteIEIInv, WriteIFIInv, WriteSyncIInv, WriteFifoCntIInv,
       SendWordIInv, RecvWordIInv DEF Next
  <1>2. ASSUME IInv, UNCHANGED vars PROVE IInv'
    BY <1>2 DEF vars, irqs, IInv, TypeOK, LineFollows, Interrupting
  <1> QED BY <1>1, <1>2

LEMMA Invariance == Spec => []IInv
  BY InitIInv, NextIInv, PTL DEF Spec

-----------------------------------------------------------------------------
\* Every register and both ring buffers keep their type: the positions stay
\* inside the buffers and the counts inside the capacity.
THEOREM IpcTypeCorrect == Spec => []TypeOK
  <1>1. IInv => TypeOK
    BY DEF IInv
  <1> QED BY <1>1, Invariance, PTL

\* ARM::IRQ of either CPU is what its IME, IE and IF say, whoever changed them.
THEOREM LinesFollow == Spec => []LineFollows
  <1>1. IInv => LineFollows
    BY DEF IInv
  <1> QED BY <1>1, Invariance, PTL

-----------------------------------------------------------------------------
(* The interrupts of the FIFOs. *)

RecvStep(c) == (~Waiting(c) /\ Waiting(c)') => "Recv" \in if'[c]

DoneStep(c) ==
    (~Drained(c) /\ Drained(c)' /\ (cnt[c].sendIrq => ~WriteFifoCnt(c))) => "SendDone" \in if'[c]

\* A step that changes neither the FIFOs nor their control registers.
LEMMA QuietSteps ==
  ASSUME NEW c \in Cpus, UNCHANGED <<fifo, cnt>>
  PROVE  RecvStep(c) /\ DoneStep(c)
  BY DEF RecvStep, DoneStep, Waiting, Drained

LEMMA WriteFifoCntSignals ==
  ASSUME IInv, NEW a \in Cpus, NEW c \in Cpus, WriteFifoCnt(a)
  PROVE  RecvStep(c) /\ DoneStep(c)
  <1>1. PICK clear \in BOOLEAN, sendIrq \in BOOLEAN, recvIrq \in BOOLEAN,
             enable \in BOOLEAN, ack \in BOOLEAN :
           FifoCntStep(a, clear, sendIrq, recvIrq, enable, ack)
    BY DEF WriteFifoCnt, FifoCntStep
  <1> DEFINE f == IF clear THEN Clear(fifo[a]) ELSE fifo[a]
             done == sendIrq /\ ~cnt[a].sendIrq /\ IsEmpty(f)
             recv == recvIrq /\ ~cnt[a].recvIrq /\ ~IsEmpty(fifo[Other(a)])
             S == (IF done THEN {"SendDone"} ELSE {}) \cup (IF recv THEN {"Recv"} ELSE {})
  <1>2. fifo'[a] = f /\ \A d \in Cpus \ {a} : fifo'[d] = fifo[d] /\ cnt'[d] = cnt[d]
    BY <1>1 DEF FifoCntStep, IInv, TypeOK
  <1>3. cnt'[a].sendIrq = sendIrq /\ cnt'[a].recvIrq = recvIrq
    BY <1>1 DEF FifoCntStep, IInv, TypeOK
  <1>4. S \subseteq if'[a]
    <2>1. SetIRQ(a, S)
      BY <1>1 DEF FifoCntStep
    <2>2. S \in SUBSET Irqs
      BY DEF Irqs
    <2> HIDE DEF S
    <2> QED BY <2>1, <2>2, SetIRQFollows, TypeParts DEF IInv
  <1>5. CASE a = c
    <2>1. Other(c) \in Cpus \ {c}
      BY OtherCpu
    <2>2. RecvStep(c)
      BY <1>2, <1>3, <1>4, <1>5, <2>1 DEF RecvStep, Waiting
    <2>3. DoneStep(c)
      BY <1>2, <1>3, <1>4, <1>5 DEF DoneStep, Drained
    <2> QED BY <2>2, <2>3
  <1>6. CASE a # c
    <2>1. a = Other(c) /\ cnt'[c] = cnt[c] /\ fifo'[c] = fifo[c]
      BY <1>2, <1>6 DEF Cpus, Other
    <2>2. IsEmpty(fifo[a]) => IsEmpty(f)
      BY ClearSound DEF IInv
    <2>3. RecvStep(c)
      BY <1>2, <2>1, <2>2 DEF RecvStep, Waiting
    <2>4. DoneStep(c)
      BY <2>1 DEF DoneStep, Drained
    <2> QED BY <2>3, <2>4
  <1> QED BY <1>5, <1>6

LEMMA RefusalSignals ==
  ASSUME IInv, NEW a \in Cpus, NEW c \in Cpus,
         cnt' = [cnt EXCEPT ![a].error = TRUE], UNCHANGED fifo
  PROVE  RecvStep(c) /\ DoneStep(c)
  <1>1. cnt'[c].sendIrq = cnt[c].sendIrq /\ cnt'[c].recvIrq = cnt[c].recvIrq
    BY DEF IInv, TypeOK, CntType
  <1> QED BY <1>1 DEF RecvStep, DoneStep, Waiting, Drained

LEMMA SendWordSignals ==
  ASSUME IInv, NEW a \in Cpus, NEW c \in Cpus, SendWord(a)
  PROVE  RecvStep(c) /\ DoneStep(c)
  <1>1. CASE IsFull(fifo[a])
    BY <1>1, RefusalSignals DEF SendWord
  <1>2. CASE ~IsFull(fifo[a])
    <2> DEFINE S == IF cnt[Other(a)].recvIrq /\ IsEmpty(fifo[a]) THEN {"Recv"} ELSE {}
    <2>1. PICK w \in Words : fifo' = [fifo EXCEPT ![a] = Write(@, w)]
      BY <1>2 DEF SendWord
    <2>2. ~IsEmpty(fifo'[a]) /\ \A d \in Cpus \ {a} : fifo'[d] = fifo[d]
      BY <1>2, <2>1, WriteSound, IpcAssumption DEF IInv, TypeOK
    <2>3. cnt' = cnt
      BY <1>2 DEF SendWord
    <2>4. S \subseteq if'[Other(a)]
      <3>1. SetIRQ(Other(a), S)
        BY <1>2 DEF SendWord
      <3>2. S \in SUBSET Irqs
        BY DEF Irqs
      <3> HIDE DEF S
      <3> QED BY <3>1, <3>2, SetIRQFollows, OtherCpu, TypeParts DEF IInv
    <2>5. CASE a = c
      <3>1. Other(c) \in Cpus \ {a}
        BY <2>5, OtherCpu
      <3> QED BY <2>2, <2>3, <2>5, <3>1 DEF RecvStep, DoneStep, Waiting, Drained
    <2>6. CASE a # c
      <3>1. a = Other(c) /\ c = Other(a)
        BY <2>6 DEF Cpus, Other
      <3>2. RecvStep(c)
        BY <2>3, <2>4, <3>1 DEF RecvStep, Waiting
      <3>3. DoneStep(c)
        BY <2>2, <2>3, <2>6 DEF DoneStep, Drained
      <3> QED BY <3>2, <3>3
    <2> QED BY <2>5, <2>6
  <1> QED BY <1>1, <1>2

LEMMA RecvWordSignals ==
  ASSUME IInv, NEW a \in Cpus, NEW c \in Cpus, RecvWord(a)
  PROVE  RecvStep(c) /\ DoneStep(c)
  <1> DEFINE o == Other(a)
  <1>0. o \in Cpus
    BY OtherCpu
  <1>1. CASE IsEmpty(fifo[o])
    BY <1>1, RefusalSignals DEF RecvWord
  <1>2. CASE ~IsEmpty(fifo[o])
    <2> DEFINE S == IF IsEmpty(fifo'[o]) /\ cnt[o].sendIrq THEN {"SendDone"} ELSE {}
    <2>1. cnt' = cnt /\ \A d \in Cpus \ {o} : fifo'[d] = fifo[d]
      BY <1>2 DEF RecvWord, IInv, TypeOK
    <2>2. S \subseteq if'[o]
      <3>1. SetIRQ(o, S)
        BY <1>2 DEF RecvWord
      <3>2. S \in SUBSET Irqs
        BY DEF Irqs
      <3> HIDE DEF S
      <3> QED BY <1>0, <3>1, <3>2, SetIRQFollows, TypeParts DEF IInv
    <2>3. RecvStep(c)
      <3>1. CASE Other(c) = o
        BY <1>2, <2>1, <3>1 DEF RecvStep, Waiting
      <3>2. CASE Other(c) # o
        <4>1. fifo'[Other(c)] = fifo[Other(c)]
          BY <2>1, <3>2, OtherCpu
        <4> QED BY <2>1, <4>1 DEF RecvStep, Waiting
      <3> QED BY <3>1, <3>2
    <2>4. DoneStep(c)
      <3>1. CASE c = o
        BY <2>1, <2>2, <3>1 DEF DoneStep, Drained
      <3>2. CASE c # o
        BY <2>1, <3>2 DEF DoneStep, Drained
      <3> QED BY <3>1, <3>2
    <2> QED BY <2>3, <2>4
  <1> QED BY <1>1, <1>2

LEMMA NextSignals ==
  ASSUME IInv, [Next]_vars, NEW c \in Cpus
  PROVE  RecvStep(c) /\ DoneStep(c)
  <1>1. CASE UNCHANGED vars
    BY <1>1, QuietSteps DEF vars
  <1>2. ASSUME NEW a \in Cpus,
               WriteIME(a) \/ WriteIE(a) \/ WriteIF(a) \/ WriteSync(a)
        PROVE  RecvStep(c) /\ DoneStep(c)
    BY <1>2, QuietSteps DEF WriteIME, WriteIE, WriteIF, WriteSync
  <1> QED BY <1>1, <1>2, WriteFifoCntSignals, SendWordSignals, RecvWordSignals DEF Next

\* A word never comes to wait for a CPU that wants to be interrupted without its
\* interrupt becoming pending.
THEOREM ReceiversTold == Spec => RecvSignalled
  <1>1. IInv /\ [Next]_vars => [\A c \in Cpus : RecvStep(c)]_vars
    BY NextSignals
  <1> QED BY <1>1, Invariance, PTL DEF Spec, RecvSignalled, RecvStep

\* A CPU that wants to be told that its FIFO has run empty is told.
THEOREM SendersTold == Spec => SendDoneSignalled
  <1>1. IInv /\ [Next]_vars => [\A c \in Cpus : DoneStep(c)]_vars
    BY NextSignals
  <1> QED BY <1>1, Invariance, PTL DEF Spec, SendDoneSignalled, DoneStep

\* Both: for every interleaving of the two CPUs, who asked to be told is told.
THEOREM Told == Spec => Signalled
  BY ReceiversTold, SendersTold, PTL DEF Signalled

-----------------------------------------------------------------------------
(* The ring buffers implement the queues of Channel. *)

Queues == [c \in Cpus |-> Contents(fifo[c])]
Errors == [c \in Cpus |-> cnt[c].error]

LEMMA QuietImplements ==
  ASSUME UNCHANGED <<fifo, cnt>> PROVE UNCHANGED ChannelOf!vars
  BY DEF ChannelOf!vars

\* A step that changes one FIFO changes one queue.
LEMMA QueueStep ==
  ASSUME IInv, NEW c \in Cpus, NEW g, fifo' = [fifo EXCEPT ![c] = g]
  PROVE  Queues' = [Queues EXCEPT ![c] = Contents(g)]
  BY DEF IInv, TypeOK, Queues

LEMMA RefusalImplements ==
  ASSUME IInv, NEW c \in Cpus, cnt' = [cnt EXCEPT ![c].error = TRUE], UNCHANGED fifo
  PROVE  ChannelOf!Refuse(c)
  <1>1. Errors' = [Errors EXCEPT ![c] = TRUE]
    BY DEF IInv, TypeOK, CntType, Errors
  <1> QED BY <1>1 DEF ChannelOf!Refuse, Errors

LEMMA WriteFifoCntImplements ==
  ASSUME IInv, NEW c \in Cpus, WriteFifoCnt(c) PROVE ChannelOf!Control(c)
  <1>1. PICK clear \in BOOLEAN, sendIrq \in BOOLEAN, recvIrq \in BOOLEAN,
             enable \in BOOLEAN, ack \in BOOLEAN :
           FifoCntStep(c, clear, sendIrq, recvIrq, enable, ack)
    BY DEF WriteFifoCnt, FifoCntStep
  <1>2. Errors' = [Errors EXCEPT ![c] = @ /\ ~ack]
    <2>1. \A d \in Cpus : cnt'[d].error = IF d = c THEN cnt[c].error /\ ~ack ELSE cnt[d].error
      BY <1>1 DEF FifoCntStep, IInv, TypeOK
    <2> QED BY <2>1 DEF Errors
  <1>3. Queues' = [Queues EXCEPT ![c] = IF clear THEN <<>> ELSE @]
    <2>1. CASE clear
      <3>1. fifo' = [fifo EXCEPT ![c] = Clear(fifo[c])]
        BY <1>1, <2>1 DEF FifoCntStep
      <3>2. Contents(Clear(fifo[c])) = <<>>
        BY ClearSound DEF IInv
      <3> QED BY <2>1, <3>1, <3>2, QueueStep
    <2>2. CASE ~clear
      <3>1. fifo' = [fifo EXCEPT ![c] = fifo[c]]
        BY <1>1, <2>2 DEF FifoCntStep
      <3>2. Queues[c] = Contents(fifo[c])
        BY DEF Queues
      <3> QED BY <2>2, <3>1, <3>2, QueueStep
    <2> QED BY <2>1, <2>2
  <1> QED BY <1>2, <1>3 DEF ChannelOf!Control, Queues, Errors

LEMMA SendWordImplements ==
  ASSUME IInv, NEW c \in Cpus, SendWord(c)
  PROVE  ChannelOf!Refuse(c) \/ \E w \in Words : ChannelOf!Send(c, w)
  <1>1. CASE IsFull(fifo[c])
    BY <1>1, RefusalImplements DEF SendWord
  <1>2. CASE ~IsFull(fifo[c])
    <2>1. PICK w \in Words : fifo' = [fifo EXCEPT ![c] = Write(fifo[c], w)]
      BY <1>2 DEF SendWord
    <2>2. Contents(Write(fifo[c], w)) = Append(Contents(fifo[c]), w)
      BY <1>2, WriteSound, IpcAssumption DEF IInv
    <2>3. Queues' = [Queues EXCEPT ![c] = Append(@, w)]
      BY <2>1, <2>2, QueueStep DEF Queues
    <2>4. Len(Queues[c]) < NumEntries
      <3>1. Len(Contents(fifo[c])) = fifo[c].occupied /\ fifo[c].occupied \in Nat
        BY ContentsType DEF IInv, Sound
      <3> QED BY <1>2, <3>1, FifoAssumption DEF IsFull, Queues
    <2>5. Errors' = Errors
      BY <1>2 DEF SendWord, Errors
    <2> QED BY <2>3, <2>4, <2>5 DEF ChannelOf!Send, Queues, Errors
  <1> QED BY <1>1, <1>2

LEMMA RecvWordImplements ==
  ASSUME IInv, NEW c \in Cpus, RecvWord(c)
  PROVE  ChannelOf!Refuse(c) \/ \E d \in Cpus \ {c} : ChannelOf!Receive(c, d)
  <1>0. Other(c) \in Cpus \ {c}
    BY OtherCpu
  <1>1. CASE IsEmpty(fifo[Other(c)])
    BY <1>1, RefusalImplements DEF RecvWord
  <1>2. CASE ~IsEmpty(fifo[Other(c)])
    <2>1. fifo' = [fifo EXCEPT ![Other(c)] = Read(fifo[Other(c)])]
      BY <1>2 DEF RecvWord
    <2>2. Contents(Read(fifo[Other(c)])) = Tail(Contents(fifo[Other(c)]))
      BY <1>0, <1>2, ReadSound DEF IInv
    <2>3. Queues' = [Queues EXCEPT ![Other(c)] = Tail(@)]
      BY <1>0, <2>1, <2>2, QueueStep DEF Queues
    <2>4. Queues[Other(c)] # <<>>
      BY <1>0, <1>2, ContentsType DEF IInv, Sound, Queues
    <2>5. Errors' = Errors
      BY <1>2 DEF RecvWord, Errors
    <2>6. ChannelOf!Receive(c, Other(c))
      BY <2>3, <2>4, <2>5 DEF ChannelOf!Receive, Queues, Errors
    <2> QED BY <1>0, <2>6
  <1> QED BY <1>1, <1>2

LEMMA InitImplements == Init => ChannelOf!Init
  <1> SUFFICES ASSUME Init PROVE ChannelOf!Init
    OBVIOUS
  <1>1. \A c \in Cpus : fifo[c] = NewFifo /\ cnt[c].error = FALSE
    BY DEF Init
  <1> QED BY <1>1, NewFifoSound DEF ChannelOf!Init

LEMMA StepImplements == IInv /\ [Next]_vars => [ChannelOf!Next]_(ChannelOf!vars)
  <1> SUFFICES ASSUME IInv, [Next]_vars PROVE [ChannelOf!Next]_(ChannelOf!vars)
    OBVIOUS
  <1>1. CASE UNCHANGED vars
    BY <1>1, QuietImplements DEF vars
  <1>2. ASSUME NEW c \in Cpus,
               WriteIME(c) \/ WriteIE(c) \/ WriteIF(c) \/ WriteSync(c)
        PROVE  UNCHANGED ChannelOf!vars
    BY <1>2, QuietImplements DEF WriteIME, WriteIE, WriteIF, WriteSync
  <1>3. ASSUME NEW c \in Cpus, WriteFifoCnt(c) \/ SendWord(c) \/ RecvWord(c)
        PROVE  ChannelOf!Next
    BY <1>3, WriteFifoCntImplements, SendWordImplements, RecvWordImplements DEF ChannelOf!Next
  <1> QED BY <1>1, <1>2, <1>3 DEF Next

\* For every capacity, set of words and use of the registers the IPC FIFOs are
\* bounded queues: no word is lost, duplicated or reordered unreported.
THEOREM Channels == Spec => ImplementsChannel
  BY InitImplements, StepImplements, Invariance, PTL DEF Spec, ImplementsChannel, ChannelOf!Spec
-----------------------------------------------------------------------------
(* The music: who it is proved of.                                         *)

\* What is proved is proved of games that play one song at a time and play each that they
\* load, and of films of which the user pauses none, loads nothing in none, and which delay
\* only songs of the sequencer.  Without: see the README.
Ordinary ==
    /\ \A u \in Courses : u \subseteq {"pause", "load", "game"} \/ (Prompt /\ u = {"film"})
    /\ Sequenced \cap Streamed = {} /\ Delayed \cap Streamed = {}

-----------------------------------------------------------------------------
(* Orders in the window's queue.  One that was posted by a slot is carried *)
(* out in its turn; one that was signalled is posted first, and so comes   *)
(* after all that are posted already.                                      *)

Posted == {"start", "stop", "now", "cleanup"}

\* Event i of the queue is carried out before event j.
Sooner(q, i, j) ==
    \/ q[i].kind \in Posted /\ q[j].kind \notin Posted
    \/ (q[i].kind \in Posted <=> q[j].kind \in Posted) /\ i < j

\* There is an order of A after all of B; a first one of A before those of B; none.
LastIs(q, A, B) ==
    \E i \in DOMAIN q : q[i] \in A /\ \A j \in DOMAIN q : q[j] \in B => Sooner(q, j, i)
FirstIs(q, A, B) ==
    \A j \in DOMAIN q : q[j] \in B => \E i \in DOMAIN q : q[i] \in A /\ Sooner(q, i, j)
Missing(q, A) == \A i \in DOMAIN q : q[i] \notin A

\* How many there are.
Count(q, A) == Cardinality({i \in DOMAIN q : q[i] \in A})

\* Two queues that have the same orders of A and B in the same order: event i of r is f[i] of q.
Match(q, r, A, B, f) ==
    /\ \A i \in DOMAIN r : r[i] \in A \cup B =>
           f[i] \in DOMAIN q /\ (r[i] \in A <=> q[f[i]] \in A) /\ (r[i] \in B <=> q[f[i]] \in B)
    /\ \A k \in DOMAIN q : q[k] \in A \cup B => \E i \in DOMAIN r : f[i] = k /\ r[i] \in A \cup B
    /\ \A i, j \in DOMAIN r : r[i] \in A \cup B /\ r[j] \in A \cup B =>
           (Sooner(r, i, j) <=> Sooner(q, f[i], f[j]))

LEMMA Alike ==
  ASSUME NEW q, NEW r, NEW A, NEW B, NEW f, Match(q, r, A, B, f)
  PROVE  /\ LastIs(r, A, B) <=> LastIs(q, A, B)
         /\ FirstIs(r, A, B) <=> FirstIs(q, A, B)
         /\ Missing(r, A) <=> Missing(q, A)
<1> USE DEF LastIs, FirstIs, Missing, Match
<1>1. ASSUME LastIs(r, A, B) PROVE LastIs(q, A, B)
  <2>1. PICK i \in DOMAIN r : r[i] \in A /\ \A j \in DOMAIN r : r[j] \in B => Sooner(r, j, i)
    BY <1>1
  <2>2. ASSUME NEW k \in DOMAIN q, q[k] \in B PROVE Sooner(q, k, f[i])
    <3>1. PICK j \in DOMAIN r : f[j] = k /\ r[j] \in A \cup B
      BY <2>2
    <3> QED BY <2>1, <2>2, <3>1
  <2> QED BY <2>1, <2>2
<1>2. ASSUME LastIs(q, A, B) PROVE LastIs(r, A, B)
  <2>1. PICK k \in DOMAIN q : q[k] \in A /\ \A j \in DOMAIN q : q[j] \in B => Sooner(q, j, k)
    BY <1>2
  <2>2. PICK i \in DOMAIN r : f[i] = k /\ r[i] \in A \cup B
    BY <2>1
  <2> QED BY <2>1, <2>2
<1>3. ASSUME FirstIs(r, A, B) PROVE FirstIs(q, A, B)
  <2> SUFFICES ASSUME NEW k \in DOMAIN q, q[k] \in B
               PROVE  \E i \in DOMAIN q : q[i] \in A /\ Sooner(q, i, k)
    OBVIOUS
  <2>1. PICK j \in DOMAIN r : f[j] = k /\ r[j] \in A \cup B
    OBVIOUS
  <2>2. PICK i \in DOMAIN r : r[i] \in A /\ Sooner(r, i, j)
    BY <1>3, <2>1
  <2> QED BY <2>1, <2>2
<1>4. ASSUME FirstIs(q, A, B) PROVE FirstIs(r, A, B)
  <2> SUFFICES ASSUME NEW j \in DOMAIN r, r[j] \in B
               PROVE  \E i \in DOMAIN r : r[i] \in A /\ Sooner(r, i, j)
    OBVIOUS
  <2>1. PICK k \in DOMAIN q : q[k] \in A /\ Sooner(q, k, f[j])
    BY <1>4
  <2>2. PICK i \in DOMAIN r : f[i] = k /\ r[i] \in A \cup B
    BY <2>1
  <2> QED BY <2>1, <2>2
<1>5. Missing(r, A) <=> Missing(q, A)
  OBVIOUS
<1> QED BY <1>1, <1>2, <1>3, <1>4, <1>5

\* What sequences the operations make.
LEMMA QueueOperations ==
  ASSUME NEW T, NEW q \in Seq(T)
  PROVE  /\ Len(q) \in Nat /\ DOMAIN q = 1 .. Len(q)
         /\ \A e \in T : /\ Append(q, e) \in Seq(T) /\ DOMAIN Append(q, e) = 1 .. Len(q) + 1
                         /\ Append(q, e)[Len(q) + 1] = e
                         /\ \A i \in 1 .. Len(q) : Append(q, e)[i] = q[i]
         /\ q # <<>> => /\ 1 \in DOMAIN q /\ Head(q) = q[1]
                        /\ Tail(q) \in Seq(T) /\ DOMAIN Tail(q) = 1 .. Len(q) - 1
                        /\ \A i \in 1 .. Len(q) - 1 : Tail(q)[i] = q[i + 1]
                        /\ \A e \in T : /\ Append(Tail(q), e) \in Seq(T)
                                        /\ DOMAIN Append(Tail(q), e) = 1 .. Len(q)
                                        /\ Append(Tail(q), e)[Len(q)] = e
                                        /\ \A i \in 1 .. Len(q) - 1 :
                                               Append(Tail(q), e)[i] = q[i + 1]
<1>1. ASSUME NEW p \in Seq(T)
      PROVE  /\ Len(p) \in Nat /\ DOMAIN p = 1 .. Len(p)
             /\ \A e \in T : /\ Append(p, e) \in Seq(T) /\ DOMAIN Append(p, e) = 1 .. Len(p) + 1
                             /\ Append(p, e)[Len(p) + 1] = e
                             /\ \A i \in 1 .. Len(p) : Append(p, e)[i] = p[i]
  OBVIOUS
<1>2. ASSUME q # <<>>
      PROVE  /\ 1 \in DOMAIN q /\ Head(q) = q[1]
             /\ Tail(q) \in Seq(T) /\ DOMAIN Tail(q) = 1 .. Len(q) - 1 /\ Len(Tail(q)) = Len(q) - 1
             /\ \A i \in 1 .. Len(q) - 1 : Tail(q)[i] = q[i + 1]
  BY <1>2
<1>3. ASSUME q # <<>>, NEW e \in T
      PROVE  /\ Append(Tail(q), e) \in Seq(T)
             /\ DOMAIN Append(Tail(q), e) = 1 .. Len(q)
             /\ Append(Tail(q), e)[Len(q)] = e
             /\ \A i \in 1 .. Len(q) - 1 : Append(Tail(q), e)[i] = q[i + 1]
  <2>0. Len(q) \in Nat /\ Len(q) > 0
    BY <1>3
  <2>1. PICK p \in Seq(T), n \in Nat : p = Tail(q) /\ n = Len(q) /\ Len(p) = n - 1 /\ n > 0
    <3>1. Tail(q) \in Seq(T) /\ Len(Tail(q)) = Len(q) - 1
      BY <1>2, <1>3
    <3> QED BY <2>0, <3>1, Zenon
  <2>2. Len(p) + 1 = n
    BY <2>1
  <2>3. DOMAIN Append(p, e) = 1 .. n /\ Append(p, e)[n] = e
        /\ \A i \in 1 .. n - 1 : Append(p, e)[i] = p[i]
    BY <1>1, <2>1, <2>2
  <2> QED BY <1>1, <1>2, <1>3, <2>1, <2>3
<1> QED BY <1>1, <1>2, <1>3

-----------------------------------------------------------------------------
(* What the operations on the queue do to the orders in it.                *)

\* A signalled order is posted: it keeps its place among the orders.
LEMMA Reposted ==
  ASSUME NEW q \in Seq(EventType), q # <<>>, q[1].kind \notin Posted,
         NEW e \in EventType, e.kind \in Posted,
         NEW A, NEW B, q[1] \in A <=> e \in A, q[1] \in B <=> e \in B
  PROVE  /\ LastIs(Append(Tail(q), e), A, B) <=> LastIs(q, A, B)
         /\ FirstIs(Append(Tail(q), e), A, B) <=> FirstIs(q, A, B)
         /\ Missing(Append(Tail(q), e), A) <=> Missing(q, A)
<1> DEFINE n == Len(q)
           r == Append(Tail(q), e)
<1>0. n \in Nat /\ n > 0
  OBVIOUS
<1>1. /\ n \in Nat /\ r \in Seq(EventType) /\ n > 0
      /\ DOMAIN r = 1 .. n /\ DOMAIN q = 1 .. n /\ r[n] = e
      /\ \A i \in 1 .. n - 1 : r[i] = q[i + 1]
  BY <1>0, QueueOperations
<1> HIDE DEF n, r
<1> DEFINE f == [i \in 1 .. n |-> IF i = n THEN 1 ELSE i + 1]
<1>2. /\ f[n] = 1 /\ \A i \in 1 .. n - 1 : f[i] = i + 1 /\ i + 1 \in 1 .. n /\ i # n
      /\ \A i \in 1 .. n : i = n \/ i \in 1 .. n - 1
      /\ n \in 1 .. n /\ 1 \in 1 .. n
  BY <1>1
<1> HIDE DEF f
<1>3. \A i \in DOMAIN r : r[i] \in A \cup B =>
          f[i] \in DOMAIN q /\ (r[i] \in A <=> q[f[i]] \in A) /\ (r[i] \in B <=> q[f[i]] \in B)
  BY <1>1, <1>2
<1>4. ASSUME NEW k \in DOMAIN q, q[k] \in A \cup B
      PROVE  \E i \in DOMAIN r : f[i] = k /\ r[i] \in A \cup B
  <2>1. CASE k = 1
    BY <1>1, <1>2, <1>4, <2>1
  <2>2. CASE k # 1
    <3>1. k - 1 \in 1 .. n - 1 /\ (k - 1) + 1 = k
      BY <1>1, <2>2
    <3>2. f[k - 1] = k /\ r[k - 1] = q[k] /\ k - 1 \in DOMAIN r
      BY <1>1, <1>2, <3>1
    <3> QED BY <1>4, <3>2
  <2> QED BY <2>1, <2>2
<1>5. ASSUME NEW i \in DOMAIN r, NEW j \in DOMAIN r PROVE Sooner(r, i, j) <=> Sooner(q, f[i], f[j])
  <2>1. CASE i = n /\ j = n
    BY <1>1, <1>2, <2>1 DEF Sooner
  <2>2. CASE i = n /\ j # n
    BY <1>1, <1>2, <2>2 DEF Sooner
  <2>3. CASE i # n /\ j = n
    BY <1>1, <1>2, <2>3 DEF Sooner
  <2>4. CASE i # n /\ j # n
    BY <1>1, <1>2, <2>4 DEF Sooner
  <2> QED BY <2>1, <2>2, <2>3, <2>4
<1>6. /\ LastIs(r, A, B) <=> LastIs(q, A, B)
      /\ FirstIs(r, A, B) <=> FirstIs(q, A, B)
      /\ Missing(r, A) <=> Missing(q, A)
  <2>1. Match(q, r, A, B, f)
    BY <1>3, <1>4, <1>5 DEF Match
  <2> QED BY <2>1, Alike
<1> QED BY <1>6 DEF r

\* The first event is taken, one that is no order of A or B.
LEMMA TakenOther ==
  ASSUME NEW q \in Seq(EventType), q # <<>>, NEW A, NEW B, q[1] \notin A \cup B
  PROVE  /\ LastIs(Tail(q), A, B) <=> LastIs(q, A, B)
         /\ FirstIs(Tail(q), A, B) <=> FirstIs(q, A, B)
         /\ Missing(Tail(q), A) <=> Missing(q, A)
<1> DEFINE n == Len(q)
           r == Tail(q)
<1>0. n \in Nat /\ n > 0
  OBVIOUS
<1>1. /\ n \in Nat /\ r \in Seq(EventType) /\ n > 0
      /\ DOMAIN r = 1 .. n - 1 /\ DOMAIN q = 1 .. n
      /\ \A i \in 1 .. n - 1 : r[i] = q[i + 1]
  BY <1>0, QueueOperations
<1> HIDE DEF n, r
<1> DEFINE f == [i \in 1 .. n - 1 |-> i + 1]
<1>2. \A i \in 1 .. n - 1 : f[i] = i + 1 /\ i + 1 \in 1 .. n
  BY <1>1
<1> HIDE DEF f
<1>3. \A i \in DOMAIN r : r[i] \in A \cup B =>
          f[i] \in DOMAIN q /\ (r[i] \in A <=> q[f[i]] \in A) /\ (r[i] \in B <=> q[f[i]] \in B)
  BY <1>1, <1>2
<1>4. ASSUME NEW k \in DOMAIN q, q[k] \in A \cup B
      PROVE  \E i \in DOMAIN r : f[i] = k /\ r[i] \in A \cup B
  <2>1. k # 1
    BY <1>4
  <2>2. k - 1 \in 1 .. n - 1 /\ (k - 1) + 1 = k
    BY <1>1, <2>1
  <2>3. f[k - 1] = k /\ r[k - 1] = q[k] /\ k - 1 \in DOMAIN r
    BY <1>1, <1>2, <2>2
  <2> QED BY <1>4, <2>3
<1>5. ASSUME NEW i \in DOMAIN r, NEW j \in DOMAIN r PROVE Sooner(r, i, j) <=> Sooner(q, f[i], f[j])
  BY <1>1, <1>2, SMTT(60) DEF Sooner
<1>6. /\ LastIs(r, A, B) <=> LastIs(q, A, B)
      /\ FirstIs(r, A, B) <=> FirstIs(q, A, B)
      /\ Missing(r, A) <=> Missing(q, A)
  <2>1. Match(q, r, A, B, f)
    BY <1>3, <1>4, <1>5 DEF Match
  <2> QED BY <2>1, Alike
<1> QED BY <1>6 DEF r

\* The first event is carried out: it was the last of its kind only if there is no other.
LEMMA Taken ==
  ASSUME NEW q \in Seq(EventType), q # <<>>, q[1].kind \in Posted, NEW A, NEW B, A \cap B = {}
  PROVE  /\ q[1] \in B => (LastIs(Tail(q), A, B) <=> LastIs(q, A, B))
         /\ q[1] \in A => (LastIs(q, A, B) <=> LastIs(Tail(q), A, B) \/ Missing(Tail(q), B))
         /\ FirstIs(q, A, B) => q[1] \notin B
         /\ Missing(q, A) <=> q[1] \notin A /\ Missing(Tail(q), A)
<1> DEFINE n == Len(q)
           r == Tail(q)
<1>0. n \in Nat /\ n > 0
  OBVIOUS
<1>1. /\ n \in Nat /\ r \in Seq(EventType) /\ n > 0
      /\ DOMAIN r = 1 .. n - 1 /\ DOMAIN q = 1 .. n
      /\ \A i \in 1 .. n - 1 : r[i] = q[i + 1]
  BY <1>0, QueueOperations
<1> HIDE DEF n, r
<1>2. /\ \A i \in 1 .. n - 1 : i + 1 \in 1 .. n
      /\ \A k \in 1 .. n : k = 1 \/ (k - 1 \in 1 .. n - 1 /\ (k - 1) + 1 = k)
      /\ 1 \in 1 .. n
  BY <1>1
<1>3. \A k \in 1 .. n : k # 1 => Sooner(q, 1, k) /\ ~Sooner(q, k, 1)
  BY <1>1 DEF Sooner
<1>4. ~Sooner(q, 1, 1)
  BY DEF Sooner
<1>5. ASSUME NEW i \in 1 .. n - 1, NEW j \in 1 .. n - 1
      PROVE  Sooner(r, i, j) <=> Sooner(q, i + 1, j + 1)
  BY <1>1 DEF Sooner
<1>6. ASSUME LastIs(r, A, B), q[1] \in A \cup B PROVE LastIs(q, A, B)
  <2>1. PICK i \in 1 .. n - 1 : r[i] \in A /\ \A j \in 1 .. n - 1 : r[j] \in B => Sooner(r, j, i)
    BY <1>1, <1>6 DEF LastIs
  <2>2. i + 1 \in 1 .. n /\ i + 1 # 1 /\ q[i + 1] \in A
    BY <1>1, <1>2, <2>1
  <2>3. ASSUME NEW k \in 1 .. n, q[k] \in B PROVE Sooner(q, k, i + 1)
    <3>1. CASE k = 1
      BY <1>3, <2>2, <3>1
    <3>2. CASE k # 1
      <4>1. PICK j \in 1 .. n - 1 : k = j + 1
        BY <1>2, <3>2
      <4>2. r[j] \in B
        BY <1>1, <2>3, <4>1
      <4> QED BY <1>5, <2>1, <4>1, <4>2
    <3> QED BY <3>1, <3>2
  <2> QED BY <1>1, <2>2, <2>3 DEF LastIs
<1>7. ASSUME LastIs(q, A, B), q[1] \in A \cup B
      PROVE  LastIs(r, A, B) \/ (q[1] \in A /\ Missing(r, B))
  <2>1. PICK k \in 1 .. n : q[k] \in A /\ \A j \in 1 .. n : q[j] \in B => Sooner(q, j, k)
    BY <1>1, <1>7 DEF LastIs
  <2>2. CASE k = 1
    <3>1. ASSUME NEW j \in 1 .. n - 1 PROVE r[j] \notin B
      <4>1. j + 1 \in 1 .. n /\ j + 1 # 1 /\ r[j] = q[j + 1]
        BY <1>1, <1>2
      <4> QED BY <1>3, <2>1, <2>2, <4>1
    <3> QED BY <1>1, <2>1, <2>2, <3>1 DEF Missing
  <2>3. CASE k # 1
    <3>1. PICK i \in 1 .. n - 1 : k = i + 1
      BY <1>2, <2>3
    <3>2. ASSUME NEW j \in 1 .. n - 1, r[j] \in B PROVE Sooner(r, j, i)
      <4>1. q[j + 1] \in B /\ j + 1 \in 1 .. n
        BY <1>1, <1>2, <3>2
      <4> QED BY <1>5, <2>1, <3>1, <4>1
    <3> QED BY <1>1, <2>1, <3>1, <3>2 DEF LastIs
  <2> QED BY <2>2, <2>3
<1>8. ASSUME q[1] \in A, Missing(r, B) PROVE LastIs(q, A, B)
  <2>1. ASSUME NEW k \in 1 .. n, q[k] \in B PROVE FALSE
    <3>1. k # 1
      BY <1>8, <2>1
    <3>2. PICK j \in 1 .. n - 1 : k = j + 1
      BY <1>2, <3>1
    <3> QED BY <1>1, <1>8, <2>1, <3>2 DEF Missing
  <2> QED BY <1>1, <1>2, <1>8, <2>1 DEF LastIs
<1>9. ASSUME FirstIs(q, A, B) PROVE q[1] \notin B
  BY <1>1, <1>2, <1>3, <1>4, <1>9 DEF FirstIs
<1>10. Missing(q, A) <=> q[1] \notin A /\ Missing(r, A)
  <2>1. ASSUME Missing(q, A) PROVE q[1] \notin A /\ Missing(r, A)
    BY <1>1, <1>2, <2>1 DEF Missing
  <2>2. ASSUME q[1] \notin A, Missing(r, A) PROVE Missing(q, A)
    BY <1>1, <1>2, <2>2 DEF Missing
  <2> QED BY <2>1, <2>2
<1> QED BY <1>6, <1>7, <1>8, <1>9, <1>10 DEF r

\* An order is signalled: it comes after all others.
LEMMA SignalledLast ==
  ASSUME NEW q \in Seq(EventType), NEW e \in EventType, e.kind \notin Posted,
         NEW A, NEW B, A \cap B = {}
  PROVE  /\ e \in A => LastIs(Append(q, e), A, B)
         /\ e \in B => ~LastIs(Append(q, e), A, B)
         /\ e \notin A \cup B => (LastIs(Append(q, e), A, B) <=> LastIs(q, A, B))
         /\ FirstIs(q, A, B) /\ (e \in B => ~Missing(q, A)) => FirstIs(Append(q, e), A, B)
         /\ Missing(Append(q, e), A) <=> Missing(q, A) /\ e \notin A
<1> DEFINE n == Len(q)
           r == Append(q, e)
<1>1. /\ n \in Nat /\ r \in Seq(EventType) /\ DOMAIN r = 1 .. n + 1 /\ DOMAIN q = 1 .. n
      /\ r[n + 1] = e /\ \A i \in 1 .. n : r[i] = q[i]
  BY QueueOperations
<1> HIDE DEF n, r
<1>2. /\ \A i \in 1 .. n : i \in 1 .. n + 1 /\ i # n + 1
      /\ \A i \in 1 .. n + 1 : i = n + 1 \/ i \in 1 .. n
      /\ n + 1 \in 1 .. n + 1
  BY <1>1
<1>3. \A i \in 1 .. n : Sooner(r, i, n + 1) /\ ~Sooner(r, n + 1, i)
  BY <1>1, <1>2 DEF Sooner
<1>4. ~Sooner(r, n + 1, n + 1)
  BY <1>1 DEF Sooner
<1>5. \A i, j \in 1 .. n : Sooner(r, i, j) <=> Sooner(q, i, j)
  BY <1>1 DEF Sooner
<1>6. ASSUME e \in A PROVE LastIs(r, A, B)
  <2>1. \A j \in 1 .. n + 1 : r[j] \in B => Sooner(r, j, n + 1)
    BY <1>1, <1>2, <1>3, <1>6
  <2> QED BY <1>1, <1>2, <1>6, <2>1 DEF LastIs
<1>7. ASSUME e \in B, LastIs(r, A, B) PROVE FALSE
  <2>1. PICK i \in 1 .. n + 1 : r[i] \in A /\ Sooner(r, n + 1, i)
    BY <1>1, <1>2, <1>7 DEF LastIs
  <2> QED BY <1>2, <1>3, <1>4, <2>1
<1>8. ASSUME e \notin A \cup B PROVE LastIs(r, A, B) <=> LastIs(q, A, B)
  BY <1>1, <1>2, <1>5, <1>8 DEF LastIs
<1>9. ASSUME FirstIs(q, A, B), e \in B => ~Missing(q, A) PROVE FirstIs(r, A, B)
  <2> SUFFICES ASSUME NEW j \in 1 .. n + 1, r[j] \in B
               PROVE  \E i \in 1 .. n + 1 : r[i] \in A /\ Sooner(r, i, j)
    BY <1>1 DEF FirstIs
  <2>1. CASE j = n + 1
    <3>1. PICK i \in 1 .. n : q[i] \in A
      BY <1>1, <1>9, <2>1 DEF Missing
    <3> QED BY <1>1, <1>2, <1>3, <2>1, <3>1
  <2>2. CASE j # n + 1
    <3>1. j \in 1 .. n /\ q[j] \in B
      BY <1>1, <1>2, <2>2
    <3>2. PICK i \in 1 .. n : q[i] \in A /\ Sooner(q, i, j)
      BY <1>1, <1>9, <3>1 DEF FirstIs
    <3> QED BY <1>1, <1>2, <1>5, <3>1, <3>2
  <2> QED BY <2>1, <2>2
<1>10. Missing(r, A) <=> Missing(q, A) /\ e \notin A
  BY <1>1, <1>2 DEF Missing
<1> QED BY <1>6, <1>7, <1>8, <1>9, <1>10 DEF r

\* Events that are no orders come to the queue.
LEMMA Joined ==
  ASSUME NEW q \in Seq(EventType), NEW c \in Seq(EventType), NEW A, NEW B,
         \A i \in DOMAIN c : c[i] \notin A \cup B
  PROVE  /\ LastIs(q \o c, A, B) <=> LastIs(q, A, B)
         /\ FirstIs(q \o c, A, B) <=> FirstIs(q, A, B)
         /\ Missing(q \o c, A) <=> Missing(q, A)
<1> DEFINE n == Len(q)
           m == Len(c)
           r == q \o c
<1>1. /\ n \in Nat /\ m \in Nat /\ r \in Seq(EventType) /\ DOMAIN q = 1 .. n /\ DOMAIN c = 1 .. m
      /\ DOMAIN r = 1 .. n + m /\ \A i \in 1 .. n : r[i] = q[i]
      /\ \A i \in n + 1 .. n + m : r[i] = c[i - n]
  OBVIOUS
<1> HIDE DEF n, m, r
<1> DEFINE f == [i \in 1 .. n + m |-> i]
<1>2. \A i \in 1 .. n + m : f[i] = i
  OBVIOUS
<1> HIDE DEF f
<1>3. \A i \in 1 .. n + m : r[i] \in A \cup B => i \in 1 .. n
  <2> SUFFICES ASSUME NEW i \in 1 .. n + m, i \notin 1 .. n PROVE r[i] \notin A \cup B
    OBVIOUS
  <2>1. i \in n + 1 .. n + m /\ i - n \in 1 .. m
    BY <1>1
  <2> QED BY <1>1, <2>1
<1>4. \A i \in 1 .. n : i \in 1 .. n + m
  BY <1>1
<1>5. \A i \in DOMAIN r : r[i] \in A \cup B =>
          f[i] \in DOMAIN q /\ (r[i] \in A <=> q[f[i]] \in A) /\ (r[i] \in B <=> q[f[i]] \in B)
  BY <1>1, <1>2, <1>3
<1>6. \A k \in DOMAIN q : q[k] \in A \cup B => \E i \in DOMAIN r : f[i] = k /\ r[i] \in A \cup B
  BY <1>1, <1>2, <1>4
<1>7. \A i, j \in DOMAIN r : r[i] \in A \cup B /\ r[j] \in A \cup B =>
          (Sooner(r, i, j) <=> Sooner(q, f[i], f[j]))
  BY <1>1, <1>2, <1>3 DEF Sooner
<1>8. /\ LastIs(r, A, B) <=> LastIs(q, A, B)
      /\ FirstIs(r, A, B) <=> FirstIs(q, A, B)
      /\ Missing(r, A) <=> Missing(q, A)
  <2>1. Match(q, r, A, B, f)
    BY <1>5, <1>6, <1>7 DEF Match
  <2> QED BY <2>1, Alike
<1> QED BY <1>8 DEF r

\* Counting.
LEMMA Counts ==
  ASSUME NEW q \in Seq(EventType), NEW A
  PROVE  /\ Count(q, A) \in Nat
         /\ \A e \in EventType : Count(Append(q, e), A) = Count(q, A) + (IF e \in A THEN 1 ELSE 0)
         /\ q # <<>> => Count(q, A) = Count(Tail(q), A) + (IF q[1] \in A THEN 1 ELSE 0)
         /\ \A c \in Seq(EventType) :
                (\A i \in DOMAIN c : c[i] \notin A) => Count(q \o c, A) = Count(q, A)
<1> DEFINE n == Len(q)
           S == {i \in 1 .. n : q[i] \in A}
<1>1. n \in Nat /\ DOMAIN q = 1 .. n
  OBVIOUS
<1>2. IsFiniteSet(S) /\ Cardinality(S) \in Nat
  <2>1. IsFiniteSet(1 .. n)
    BY <1>1, FS_Interval
  <2>2. S \subseteq 1 .. n
    OBVIOUS
  <2> QED BY <2>1, <2>2, FS_Subset, FS_CardinalityType
<1>3. Count(q, A) = Cardinality(S)
  BY <1>1 DEF Count
<1>4. ASSUME NEW e \in EventType
      PROVE  Count(Append(q, e), A) = Cardinality(S) + (IF e \in A THEN 1 ELSE 0)
  <2> DEFINE R == {i \in DOMAIN Append(q, e) : Append(q, e)[i] \in A}
  <2>1. /\ DOMAIN Append(q, e) = 1 .. n + 1 /\ Append(q, e)[n + 1] = e
        /\ \A i \in 1 .. n : Append(q, e)[i] = q[i]
    BY QueueOperations
  <2>2. n + 1 \notin S /\ 1 .. n + 1 = (1 .. n) \cup {n + 1} /\ n + 1 \notin 1 .. n
    BY <1>1
  <2>3. R = IF e \in A THEN S \cup {n + 1} ELSE S
    BY <2>1, <2>2
  <2>4. Cardinality(S \cup {n + 1}) = Cardinality(S) + 1
    BY <1>2, <2>2, FS_AddElement
  <2>5. Count(Append(q, e), A) = Cardinality(R)
    BY DEF Count
  <2> HIDE DEF S, R
  <2> QED BY <1>2, <2>3, <2>4, <2>5
<1>5. ASSUME q # <<>>
      PROVE  Cardinality(S) = Count(Tail(q), A) + (IF q[1] \in A THEN 1 ELSE 0)
  <2> DEFINE R == {i \in 1 .. n - 1 : q[i + 1] \in A}
             f == [i \in R |-> i + 1]
  <2>1. /\ n > 0 /\ DOMAIN Tail(q) = 1 .. n - 1
        /\ \A i \in 1 .. n - 1 : Tail(q)[i] = q[i + 1]
    BY <1>5, QueueOperations
  <2>2. Count(Tail(q), A) = Cardinality(R)
    <3>1. {i \in DOMAIN Tail(q) : Tail(q)[i] \in A} = R
      BY <2>1
    <3> QED BY <3>1 DEF Count
  <2>3. IsFiniteSet(R) /\ Cardinality(R) \in Nat
    <3>1. IsFiniteSet(1 .. n - 1)
      BY <1>1, FS_Interval
    <3>2. R \subseteq 1 .. n - 1
      OBVIOUS
    <3> QED BY <3>1, <3>2, FS_Subset, FS_CardinalityType
  <2>4. f \in Bijection(R, S \ {1})
    <3>1. \A i \in R : f[i] = i + 1 /\ f[i] \in S \ {1} /\ i \in 1 .. n - 1
      BY <1>1, <2>1
    <3>2. \A k \in S \ {1} : k - 1 \in R /\ (k - 1) + 1 = k
      BY <1>1, <2>1
    <3>3. f \in [R -> S \ {1}]
      BY <3>1
    <3> HIDE DEF f, R, S
    <3>4. \A i, j \in R : f[i] = f[j] => i = j
      BY <3>1
    <3>5. \A k \in S \ {1} : \E i \in R : f[i] = k
      BY <3>1, <3>2
    <3> QED BY <3>3, <3>4, <3>5 DEF Bijection, Injection, Surjection, IsInjective
  <2>5. IsFiniteSet(S \ {1}) /\ Cardinality(S \ {1}) = Cardinality(R)
    <3> HIDE DEF S, R, f
    <3>1. ExistsBijection(R, S \ {1})
      BY <2>4 DEF ExistsBijection
    <3> QED BY <2>3, <3>1, FS_Bijection
  <2>6. 1 \in S <=> q[1] \in A
    BY <1>1, <2>1
  <2>7. Cardinality(S \ {1}) = IF 1 \in S THEN Cardinality(S) - 1 ELSE Cardinality(S)
    <3>1. 1 \notin S => S \ {1} = S
      OBVIOUS
    <3>2. 1 \in S => Cardinality(S \ {1}) = Cardinality(S) - 1
      <4> HIDE DEF S
      <4> QED BY <1>2, FS_RemoveElement
    <3> HIDE DEF S
    <3> QED BY <3>1, <3>2
  <2> HIDE DEF S, R
  <2> QED BY <1>2, <2>2, <2>3, <2>5, <2>6, <2>7
<1>6. ASSUME NEW c \in Seq(EventType), \A i \in DOMAIN c : c[i] \notin A
      PROVE  Count(q \o c, A) = Cardinality(S)
  <2> DEFINE m == Len(c)
  <2>1. /\ m \in Nat /\ DOMAIN (q \o c) = 1 .. n + m /\ DOMAIN c = 1 .. m
        /\ \A i \in 1 .. n : (q \o c)[i] = q[i]
        /\ \A i \in n + 1 .. n + m : (q \o c)[i] = c[i - n]
    OBVIOUS
  <2>2. \A i \in 1 .. n + m : i \in 1 .. n \/ (i \in n + 1 .. n + m /\ i - n \in 1 .. m)
    BY <1>1, <2>1
  <2>3. \A i \in 1 .. n : i \in 1 .. n + m
    BY <1>1, <2>1
  <2> HIDE DEF m, n
  <2>4. {i \in DOMAIN (q \o c) : (q \o c)[i] \in A} = S
    BY <1>6, <2>1, <2>2, <2>3
  <2> QED BY <2>4 DEF Count
<1> QED BY <1>2, <1>3, <1>4, <1>5, <1>6

-----------------------------------------------------------------------------
(* The orders.                                                             *)

Starts      == {e \in EventType : e.kind \in {"asyncStart", "start"}}
StartsOf(s) == {e \in Starts : e.id = s}
EndsOf(s)   == {e \in EventType : e.kind \in {"asyncStop", "stop"} /\ e.id = s}
EndsElse(s) == {e \in EventType : e.kind \in {"asyncStop", "stop"} /\ e.id # s}
Pauses      == {e \in EventType : e.kind \in {"async", "now"} /\ e.do = "pause"}
Resumes     == {e \in EventType : e.kind \in {"async", "now"} /\ e.do # "pause"}
StopsOf(s)  == EndsOf(s) \cup {e \in Resumes : e.do = "stopAll"}

\* s is played when queue q has been carried out and the timer has fired.
Waits(s) == timer # None /\ timer.id = s
Will(q, s) ==
    \/ LastIs(q, StartsOf(s), StopsOf(s))
    \/ /\ Missing(q, StartsOf(s)) /\ Missing(q, StopsOf(s))
       /\ s \in Ids(players) \/ Waits(s)
WillPlay(s) == Will(events, s)

-----------------------------------------------------------------------------
(* The invariant: the game, and what the plugin p knows of it.             *)

MidiNext(s) ==
    CASE s = "stopped" -> {"load"} [] s = "load" -> {"preplay"} [] s = "preplay" -> {"playing"}
      [] s = "playing" -> {"stopped", "stopping"} [] s = "stopping" -> {"stopped"}
StreamNext(s) ==
    CASE s = "stopped" -> {"playing"} [] s = "playing" -> {"stopped", "ended"}
      [] s = "ended" -> {"stopped"}

\* One song at a time is played.
World ==
    /\ midi.state \in {"stopped", "stopping"} => midi.song = None
    /\ midi.state \in {"load", "preplay", "playing"} => midi.song \in Sequenced
    /\ stream.state = "stopped" => stream.song = None
    /\ stream.state \in {"playing", "ended"} => stream.song \in Streamed
    /\ stream.state = "playing" => midi.state \in {"stopped", "stopping"}

\* The plugin saw the game a step ago, unless a state was loaded.
SawMidi(p) ==
    \/ midi.state = p.seen \/ midi.state \in MidiNext(p.seen)
    \/ "load" \in course /\ p.seen = "stopped" /\ midi.state \in {"preplay", "playing"}
SawStream(p) == stream.state = p.seenStream \/ stream.state \in StreamNext(p.seenStream)
Follows ==
    /\ SawMidi(plugin) /\ SawStream(plugin)
    /\ pc = "frame" => midi.state = plugin.seen /\ stream.state = plugin.seenStream

With(song) == IF song \in Replaced THEN song ELSE None

\* Which song it takes for the current one.
Knows(p) ==
    /\ p.current \in Streamed =>
          /\ p.isStream /\ p.seenStream = "playing" /\ p.seen \in {"stopped", "stopping", "load"}
          /\ stream.state = "playing" => p.current = stream.song
    /\ p.current \in Sequenced =>
          /\ ~p.isStream /\ p.seen \in {"preplay", "playing"}
          /\ midi.state \in {"preplay", "playing"} => p.current = midi.song
    /\ p.seenStream = "playing" /\ stream.state = "playing" => p.current = With(stream.song)
    /\ p.seen \in {"preplay", "playing"} /\ midi.state \in {"preplay", "playing"} =>
          p.current = With(midi.song)
    /\ p.pending <=> p.seen = "preplay" /\ p.current # None
    /\ p.current # None => p.current \in Replaced /\ p.file = p.current

\* When it has something to say, and who listens.
Flags ==
    /\ plugin.start # "no" => pc \in {"frame", "relay"} /\ status = "running"
    /\ plugin.stop # None => pc # "messages" /\ (pc = "refresh" => "load" \in course /\ plugin.current = None)
    /\ pc \in {"refresh", "frame"} => status = "running"
    /\ plugin.pause \/ plugin.unpause \/ plugin.paused => "pause" \in course

\* What it says agrees with what is played: what should be is played or about to be, and what
\* should not is not or is about to be stopped.
Decided(p) ==
    /\ p.stop = None /\ p.start = "no" =>
           \A s \in Songs : WillPlay(s) <=> (p.current = s /\ ~p.pending)
    /\ p.stop # None => \A s \in Songs : WillPlay(s) => s = p.stop
    /\ p.stop # None /\ p.start = "no" => p.current = None \/ p.pending
    /\ p.start # "no" => p.current # None /\ ~p.pending
    /\ p.start # "no" /\ p.stop = None => \A s \in Songs : ~WillPlay(s)
    /\ p.start = "later" => p.stop = None
    /\ p.start # "no" => (p.start = "later" <=> "film" \in course /\ p.current \in Delayed)

-----------------------------------------------------------------------------
(* The window's queue and its players.                                     *)

OrderlyIs(q) ==
    \A i \in DOMAIN q :
        /\ q[i].kind \in {"asyncStart", "start"} => q[i].id \in Replaced /\ q[i].file = q[i].id
        /\ q[i].kind \in {"asyncStop", "stop"} => q[i].id \in Songs
        /\ q[i].kind = "start" => ~q[i].flag
Orderly == OrderlyIs(events)

\* A player that is done is taken away, once.
CleaningIs(q) ==
    /\ \A i \in DOMAIN q : q[i].kind = "cleanup" => q[i].key \in DOMAIN players /\ players[q[i].key].done
    /\ \A i, j \in DOMAIN q :
           q[i].kind = "cleanup" /\ q[j].kind = "cleanup" /\ q[i].key = q[j].key => i = j
Cleaning == CleaningIs(events)

Playing ==
    \A k \in DOMAIN players : /\ players[k].file = players[k].id /\ players[k].id \in Replaced
                              /\ players[k].done \/ players[k].fading => ~players[k].playing

\* A song that waits for the film is stopped before any other, and not started again.
FilmIs(q) ==
    /\ timer # None =>
           /\ "film" \in course /\ timer.id \in Replaced \cap Delayed /\ timer.file = timer.id
           /\ FirstIs(q, EndsOf(timer.id), EndsElse(timer.id))
           /\ Missing(q, StartsOf(timer.id))
    /\ \A i \in DOMAIN q : q[i].kind = "asyncStart" /\ q[i].flag =>
           /\ i = 1 /\ timer = None /\ "film" \in course /\ q[1].id \in Delayed
           /\ \A j \in DOMAIN q : q[j].kind # "stop"
           /\ FirstIs(q, EndsOf(q[1].id), EndsElse(q[1].id))
           /\ Missing(Tail(q), StartsOf(q[1].id))
    /\ "film" \in course => Missing(q, Pauses) /\ Missing(q, Resumes)
Film == FilmIs(events)

\* A player, and an order to start one, is of a song that has begun.
One(p) == IF p THEN 1 ELSE 0
MidiDue(p) == midi.state \in {"load", "preplay"} \/ (midi.state = "playing" /\ p.seen # "playing")
StreamDue(p) == stream.state = "playing" /\ p.seenStream # "playing"
PluginDue(p) == One(p.start # "no") + One(MidiDue(p)) + One(StreamDue(p))
WindowDue == Cardinality(DOMAIN players) + Count(events, Starts) + One(timer # None)
Counted == WindowDue + PluginDue(plugin) <= begun

-----------------------------------------------------------------------------
(* Pauses.                                                                 *)

\* The music is paused, or will be, when the game is, or will be.
WillPause == (plugin.paused \/ plugin.pause) /\ ~plugin.unpause
Pausing == request = "pause" \/ (status = "paused" /\ request = "none")
Presses ==
    /\ request = "pause" => status = "running"
    /\ request = "unpause" => status = "paused"
    /\ ~(plugin.pause /\ plugin.unpause)
    /\ ~crossed =>
           /\ WillPause <=> Pausing /\ plugin.current # None
           /\ plugin.paused /\ ~plugin.unpause /\ status = "running" => pc = "messages"
           /\ plugin.pause => ~plugin.paused
           /\ plugin.unpause => plugin.paused

\* The last that was said of it is what the plugin thinks, and no song starts after a pause.
Suspension ==
    ~crossed =>
        /\ plugin.paused => \/ LastIs(events, Pauses, Resumes \cup Starts)
                            \/ /\ Missing(events, Pauses) /\ Missing(events, Resumes)
                               /\ Missing(events, Starts)
        /\ ~plugin.paused => ~LastIs(events, Pauses, Resumes)
        /\ Missing(events, Pauses) /\ Missing(events, Resumes) =>
               \A k \in DOMAIN players :
                   players[k].playing /\ plugin.stop # players[k].id
                   /\ Missing(events, StopsOf(players[k].id))
                   => (players[k].suspended <=> plugin.paused)

ThreadInv == World /\ Follows /\ Knows(plugin) /\ Flags /\ Presses
WindowInv == Orderly /\ Cleaning /\ Playing /\ Film

MusicInv == MusicTypeOK /\ ThreadInv /\ WindowInv /\ Decided(plugin) /\ Counted /\ Suspension

-----------------------------------------------------------------------------
(* When all is done.                                                       *)

LEMMA UseIs ==
  ASSUME Ordinary, MusicTypeOK
  PROVE  /\ "overlap" \notin course /\ "cancel" \notin course
         /\ "film" \in course => Prompt /\ "pause" \notin course /\ "load" \notin course /\ "game" \notin course
<1>1. course \subseteq {"pause", "load", "game"} \/ (Prompt /\ course = {"film"})
  BY DEF Ordinary, MusicTypeOK
<1> QED BY <1>1

\* What is in an event.
LEMMA EventIs ==
  ASSUME NEW e \in EventType
  PROVE  /\ e.kind \in {"asyncStart", "asyncStop", "start", "stop", "async", "now", "cleanup"}
         /\ e.kind \in {"asyncStart", "asyncStop", "start", "stop"} =>
                e.id \in Songs \cup {None} /\ e.file \in Songs \cup {None} /\ e.flag \in BOOLEAN
         /\ e.kind \in {"async", "now"} => e.do \in {"pause", "unpause", "stopAll"}
         /\ e.kind = "cleanup" => e.key \in Nat
  BY DEF EventType

\* The orders are told apart.
LEMMA OrdersApart ==
  /\ \A s : StartsOf(s) \cap StopsOf(s) = {} /\ EndsOf(s) \cap EndsElse(s) = {}
  /\ Pauses \cap Resumes = {} /\ Pauses \cap (Resumes \cup Starts) = {}
<1>1. \A e \in EventType : ~(e.kind \in {"asyncStart", "start"} /\ e.kind \in {"asyncStop", "stop"})
                           /\ ~(e.kind \in {"asyncStart", "start"} /\ e.kind \in {"async", "now"})
  OBVIOUS
<1> QED BY <1>1 DEF StartsOf, StopsOf, EndsOf, EndsElse, Pauses, Resumes, Starts

LEMMA PlayersAre ==
  ASSUME MusicTypeOK
  PROVE  /\ \A k \in DOMAIN players : players[k] \in Player
         /\ DOMAIN players \subseteq 1 .. MaxSongs
         /\ players = [k \in DOMAIN players |-> players[k]]
<1>1. PICK keys \in SUBSET (1 .. MaxSongs) : players \in [keys -> Player]
  BY DEF MusicTypeOK
<1> QED BY <1>1

\* An empty queue.
LEMMA Empty ==
  ASSUME NEW q, q = <<>>
  PROVE  /\ \A A, B : ~LastIs(q, A, B) /\ FirstIs(q, A, B)
         /\ \A A : Missing(q, A)
<1>1. DOMAIN q = {}
  OBVIOUS
<1> QED BY <1>1 DEF LastIs, FirstIs, Missing

LEMMA RestHeard ==
  ASSUME BgmAssumption, Ordinary, MusicInv
  PROVE  Heard
<1>1. ASSUME AtRest, plugin.seen = midi.state, plugin.seenStream = stream.state
      PROVE  Ids(players) = Now /\ \A k \in DOMAIN players : players[k].file = players[k].id
  <2>1. events = <<>> /\ timer = None /\ plugin.start = "no" /\ plugin.stop = None
    BY <1>1 DEF AtRest
  <2>2. \A s : WillPlay(s) <=> s \in Ids(players)
    BY <2>1, Empty DEF WillPlay, Will, Waits
  <2>3. Ids(players) \subseteq Replaced
    BY DEF Ids, MusicInv, WindowInv, Playing
  <2>4. \A s \in Songs : s \in Ids(players) <=> plugin.current = s /\ ~plugin.pending
    BY <2>1, <2>2 DEF MusicInv, Decided
  <2>5. Replaced \subseteq Songs /\ None \notin Songs /\ Songs = Sequenced \cup Streamed
    BY DEF BgmAssumption, Songs
  <2>6. Ids(players) = IF plugin.current # None /\ ~plugin.pending THEN {plugin.current} ELSE {}
    <3>1. plugin.current # None => plugin.current \in Songs
      BY <2>5 DEF MusicInv, ThreadInv, Knows
    <3> QED BY <2>3, <2>4, <2>5, <3>1
  <2>7. Knows(plugin) /\ World
    BY DEF MusicInv, ThreadInv
  <2>8. Sequenced \cap Streamed = {}
    BY DEF Ordinary
  <2>9. midi.state \in MidiStates /\ stream.state \in StreamStates
    BY DEF MusicInv, MusicTypeOK
  <2>10. CASE midi.state = "playing"
    <3>1. plugin.current = With(midi.song) /\ ~plugin.pending
      BY <1>1, <2>7, <2>10 DEF Knows
    <3>2. stream.state # "playing" /\ midi.song \in Sequenced
      BY <2>7, <2>10 DEF World
    <3> QED BY <2>5, <2>6, <2>10, <3>1, <3>2 DEF Now, With, MusicInv, WindowInv, Playing
  <2>11. CASE stream.state = "playing"
    <3>1. midi.state \in {"stopped", "stopping"} /\ stream.song \in Streamed
      BY <2>7, <2>11 DEF World
    <3>2. plugin.current = With(stream.song) /\ ~plugin.pending
      BY <1>1, <2>7, <2>11, <3>1 DEF Knows
    <3> QED BY <2>5, <2>6, <2>11, <3>1, <3>2 DEF Now, With, MusicInv, WindowInv, Playing
  <2>12. CASE midi.state # "playing" /\ stream.state # "playing"
    <3>1. plugin.current = None \/ plugin.pending
      <4>1. CASE midi.state = "preplay"
        BY <1>1, <2>7, <4>1 DEF Knows
      <4>2. CASE midi.state # "preplay"
        BY <1>1, <2>5, <2>7, <2>9, <2>12, <4>2 DEF Knows, MidiStates
      <4> QED BY <4>1, <4>2
    <3> QED BY <2>6, <2>12, <3>1 DEF Now, MusicInv, WindowInv, Playing
  <2> QED BY <2>10, <2>11, <2>12
<1>2. ASSUME AtRest, request = "none", ~crossed, NEW k \in DOMAIN players, players[k].playing
      PROVE  players[k].suspended <=> status = "paused"
  <2>1. /\ events = <<>> /\ timer = None /\ plugin.start = "no" /\ plugin.stop = None
        /\ ~plugin.pause /\ ~plugin.unpause
    BY <1>2 DEF AtRest
  <2>2. players[k].id \in Replaced /\ players[k].id \in Ids(players)
    BY <1>2 DEF Ids, MusicInv, WindowInv, Playing
  <2>3. players[k].id \in Songs /\ players[k].id # None
    BY <2>2 DEF BgmAssumption
  <2>4. WillPlay(players[k].id)
    BY <2>1, <2>2, Empty DEF WillPlay, Will, Waits
  <2>5. plugin.current # None
    BY <2>1, <2>3, <2>4 DEF MusicInv, Decided
  <2>6. players[k].suspended <=> plugin.paused
    <3>1. Missing(events, Pauses) /\ Missing(events, Resumes) /\ Missing(events, StopsOf(players[k].id))
      BY <2>1, Empty
    <3> QED BY <1>2, <2>1, <2>3, <3>1 DEF MusicInv, Suspension
  <2>7. WillPause <=> Pausing
    BY <1>2, <2>5 DEF MusicInv, ThreadInv, Presses
  <2> QED BY <1>2, <2>1, <2>6, <2>7 DEF WillPause, Pausing
<1> QED BY <1>1, <1>2 DEF Heard, SongHeard, PausedTogether

-----------------------------------------------------------------------------
(* The plugin's decisions.                                                 *)

LEMMA StopMusicIs ==
  ASSUME NEW p \in PluginType, NEW q, q = StopMusic(p, TRUE) \/ q = StopMusic(p, FALSE)
  PROVE  /\ q \in PluginType
         /\ p.current = None => q = p
         /\ p.current # None => q.stop = p.current /\ q.current = None
         /\ q.current = None
         /\ q.seen = p.seen /\ q.seenStream = p.seenStream /\ q.file = p.file
         /\ q.isStream = p.isStream /\ q.pending = p.pending /\ q.start = p.start
         /\ q.pause = p.pause /\ q.unpause = p.unpause /\ q.paused = p.paused
  BY ZenonT(60) DEF StopMusic, PluginType

LEMMA StartMusicIs ==
  ASSUME NEW p \in PluginType, NEW song \in Songs, NEW q, q = StartMusic(p, song)
  PROVE  /\ q \in PluginType
         /\ song = p.current => q = p
         /\ song # p.current =>
                /\ q.current = With(song)
                /\ q.stop = IF p.current = None THEN p.stop ELSE p.current
                /\ song \in Replaced => q.file = song /\ ~q.isStream /\ q.pending
                /\ song \notin Replaced => q.file = p.file /\ q.isStream = p.isStream
                                           /\ q.pending = p.pending
         /\ q.seen = p.seen /\ q.seenStream = p.seenStream /\ q.start = p.start
         /\ q.pause = p.pause /\ q.unpause = p.unpause /\ q.paused = p.paused
<1>1. PICK r : r = StopMusic(p, TRUE)
  OBVIOUS
<1>2. /\ r \in PluginType /\ r.current = None
      /\ r.stop = IF p.current = None THEN p.stop ELSE p.current
      /\ r.seen = p.seen /\ r.seenStream = p.seenStream /\ r.file = p.file
      /\ r.isStream = p.isStream /\ r.pending = p.pending /\ r.start = p.start
      /\ r.pause = p.pause /\ r.unpause = p.unpause /\ r.paused = p.paused
  BY <1>1, StopMusicIs
<1>3. CASE song = p.current
  BY <1>3 DEF StartMusic
<1>4. CASE song # p.current /\ song \notin Replaced
  <2>1. q = r
    BY <1>1, <1>4 DEF StartMusic
  <2> QED BY <1>2, <1>4, <2>1 DEF With
<1>5. CASE song # p.current /\ song \in Replaced
  <2>1. q = [r EXCEPT !.pending = TRUE, !.file = song, !.current = song, !.isStream = FALSE]
    BY <1>1, <1>5 DEF StartMusic
  <2> QED BY <1>2, <1>5, <2>1, ZenonT(60) DEF With, PluginType
<1> QED BY <1>3, <1>4, <1>5

LEMMA StartPendingIs ==
  ASSUME NEW p \in PluginType, NEW song, NEW q, q = StartPending(p, song)
  PROVE  /\ q \in PluginType
         /\ ~p.pending => q = p
         /\ p.pending => q.start = When(song) /\ ~q.pending
         /\ q.seen = p.seen /\ q.seenStream = p.seenStream /\ q.file = p.file
         /\ q.isStream = p.isStream /\ q.stop = p.stop /\ q.current = p.current
         /\ q.pause = p.pause /\ q.unpause = p.unpause /\ q.paused = p.paused
<1>1. When(song) \in {"now", "later"}
  BY DEF When
<1> QED BY <1>1 DEF StartPending, PluginType

LEMMA StopStreamIs ==
  ASSUME NEW p \in PluginType, NEW q, q = StopStream(p, TRUE) \/ q = StopStream(p, FALSE)
  PROVE  /\ q \in PluginType
         /\ ~(p.isStream /\ p.current # None) => q = p
         /\ p.isStream /\ p.current # None => q.stop = p.current /\ q.current = None /\ ~q.isStream
         /\ q.seen = p.seen /\ q.seenStream = p.seenStream /\ q.file = p.file
         /\ q.pending = p.pending /\ q.start = p.start
         /\ q.pause = p.pause /\ q.unpause = p.unpause /\ q.paused = p.paused
<1>1. PICK r : /\ r = StopMusic(p, TRUE) \/ r = StopMusic(p, FALSE)
               /\ p.isStream /\ p.current # None => q = [r EXCEPT !.isStream = FALSE]
  BY DEF StopStream
<1>2. /\ r \in PluginType
      /\ p.current # None => r.stop = p.current /\ r.current = None
      /\ r.seen = p.seen /\ r.seenStream = p.seenStream /\ r.file = p.file
      /\ r.pending = p.pending /\ r.start = p.start
      /\ r.pause = p.pause /\ r.unpause = p.unpause /\ r.paused = p.paused
  BY <1>1, StopMusicIs
<1>3. CASE p.isStream /\ p.current # None
  <2>1. q = [r EXCEPT !.isStream = FALSE]
    BY <1>1, <1>3
  <2> QED BY <1>2, <1>3, <2>1 DEF PluginType
<1>4. CASE ~(p.isStream /\ p.current # None)
  BY <1>4 DEF StopStream
<1> QED BY <1>3, <1>4

\* Of refreshing: what the plugin does not change, and that it stops one song at most.
Refreshed(p, q) ==
    /\ q \in PluginType
    /\ q.pause = p.pause /\ q.unpause = p.unpause /\ q.paused = p.paused
    /\ p.stop # None => q.stop = p.stop

\* What has to hold before a half of refreshing and holds after it.
Ready(p) == p \in PluginType /\ SawMidi(p) /\ SawStream(p) /\ Knows(p) /\ Decided(p)

\* The song that plays is to be stopped; one is to be started when it is ready; it is ready.
LEMMA DecidedStop ==
  ASSUME BgmAssumption, NEW p \in PluginType, NEW q \in PluginType, Decided(p), p.start = "no",
         p.stop # None => p.current = None,
         q.start = "no", q.current = None, q.stop = IF p.current = None THEN p.stop ELSE p.current
  PROVE  Decided(q)
  BY DEF Decided, BgmAssumption, PluginType
LEMMA DecidedPending ==
  ASSUME BgmAssumption, NEW p \in PluginType, NEW q \in PluginType, Decided(p), p.start = "no",
         p.current = None, q.start = "no", q.pending, q.stop = p.stop
  PROVE  Decided(q)
  BY DEF Decided, BgmAssumption, PluginType
LEMMA DecidedStart ==
  ASSUME BgmAssumption, NEW p \in PluginType, NEW q \in PluginType, Decided(p), p.start = "no",
         p.pending \/ p.current = None,
         q.current \in Songs, q.stop = p.stop, q.start = When(q.current), ~q.pending,
         q.start = "later" => q.stop = None
  PROVE  Decided(q)
<1>1. q.start \in {"now", "later"} /\ (q.start = "later" <=> "film" \in course /\ q.current \in Delayed)
  BY DEF When
<1>2. q.current # None
  BY DEF BgmAssumption
<1>3. p.stop = None => \A s \in Songs : ~WillPlay(s)
  BY DEF Decided, BgmAssumption
<1> QED BY <1>1, <1>2, <1>3 DEF Decided

LEMMA MidiRefreshed ==
  ASSUME BgmAssumption, Ordinary, MusicTypeOK, World, Ready(plugin), plugin.start = "no",
         plugin.stop # None => plugin.current = None /\ "load" \in course,
         NEW q, q = RefreshMidi(plugin)
  PROVE  /\ Ready(q) /\ Refreshed(plugin, q) /\ q.seen = midi.state /\ q.seenStream = plugin.seenStream
         /\ q.start # "no" => midi.state = "playing"
         /\ PluginDue(q) <= PluginDue(plugin)
<1> DEFINE P == plugin
           r == [plugin EXCEPT !.seen = midi.state]
<1>1. midi.state \in MidiStates /\ stream.state \in StreamStates /\ P \in PluginType
  BY DEF MusicTypeOK
<1>2. /\ r \in PluginType /\ r.seen = midi.state
      /\ r.seenStream = P.seenStream /\ r.file = P.file /\ r.isStream = P.isStream
      /\ r.pending = P.pending /\ r.start = P.start /\ r.current = P.current /\ r.stop = P.stop
      /\ r.pause = P.pause /\ r.unpause = P.unpause /\ r.paused = P.paused
  BY <1>1 DEF PluginType
<1>3. SawMidi(P) /\ SawStream(P) /\ Knows(P) /\ Decided(P)
  BY DEF Ready
<1>4. Songs = Sequenced \cup Streamed /\ Sequenced \cap Streamed = {} /\ None \notin Songs
      /\ Replaced \subseteq Songs
  BY DEF BgmAssumption, Ordinary, Songs
<1>5. Decided(r)
  BY <1>2, <1>3 DEF Decided
<1>6. CASE midi.state = P.seen
  <2>1. q = P
    BY <1>6 DEF RefreshMidi
  <2>2. PluginDue(q) <= PluginDue(P)
    BY <2>1 DEF PluginDue, One
  <2> QED BY <1>1, <1>6, <2>1, <2>2 DEF Ready, Refreshed
<1>7. ASSUME q \in PluginType, q.seen = midi.state, q.seenStream = P.seenStream
      PROVE  SawMidi(q) /\ SawStream(q)
  BY <1>3, <1>7 DEF SawMidi, SawStream
<1> HIDE DEF r
<1>8. CASE midi.state # P.seen /\ midi.state = "stopped"
  <2>1. P.seen \in {"playing", "stopping"} /\ ~P.pending
    BY <1>1, <1>3, <1>8 DEF SawMidi, MidiNext, PluginType, MidiStates, Knows
  <2>2. CASE P.isStream
    <3>1. q = r
      BY <1>8, <2>2 DEF RefreshMidi, r
    <3>2. Knows(q)
      BY <1>2, <1>3, <1>8, <2>1, <2>2, <3>1 DEF Knows
    <3>3. PluginDue(q) <= PluginDue(P)
      BY <1>2, <1>8, <2>1, <3>1 DEF PluginDue, MidiDue, StreamDue, One
    <3> QED BY <1>2, <1>5, <1>7, <3>1, <3>2, <3>3 DEF Ready, Refreshed
  <2>3. CASE ~P.isStream
    <3>1. q = StopMusic(r, FALSE)
      BY <1>8, <2>3 DEF RefreshMidi, r
    <3>2. /\ q \in PluginType /\ q.current = None
          /\ r.current = None => q = r
          /\ r.current # None => q.stop = r.current
          /\ q.seen = r.seen /\ q.seenStream = r.seenStream
          /\ q.pending = r.pending /\ q.start = r.start
          /\ q.pause = r.pause /\ q.unpause = r.unpause /\ q.paused = r.paused
      <4>1. PICK u : u = StopMusic(r, FALSE)
        OBVIOUS
      <4>2. r \in PluginType
        BY <1>2
      <4>3. /\ u \in PluginType /\ u.current = None
            /\ r.current = None => u = r
            /\ r.current # None => u.stop = r.current
            /\ u.seen = r.seen /\ u.seenStream = r.seenStream
            /\ u.pending = r.pending /\ u.start = r.start
            /\ u.pause = r.pause /\ u.unpause = r.unpause /\ u.paused = r.paused
        BY <4>1, <4>2, StopMusicIs, ZenonT(60)
      <4>4. q = u
        BY <3>1, <4>1
      <4> QED BY <4>3, <4>4
    <3>3. Knows(q)
      <4>1. P.current \notin Streamed
        BY <1>3, <2>3 DEF Knows
      <4>2. P.seenStream = "playing" /\ stream.state = "playing" => With(stream.song) = None
        BY <1>3, <4>1 DEF Knows, World, With
      <4> QED BY <1>2, <1>4, <1>8, <2>1, <3>2, <4>2 DEF Knows
    <3>4. Decided(q)
      BY <1>2, <1>5, <3>2, DecidedStop
    <3>5. PluginDue(q) <= PluginDue(P)
      BY <1>2, <1>8, <2>1, <3>2 DEF PluginDue, MidiDue, StreamDue, One
    <3> QED BY <1>2, <1>7, <3>2, <3>3, <3>4, <3>5 DEF Ready, Refreshed
  <2> QED BY <2>2, <2>3
<1>9. CASE midi.state # P.seen /\ midi.state = "load"
  <2>1. P.seen = "stopped" /\ ~P.pending
    BY <1>1, <1>3, <1>9 DEF SawMidi, MidiNext, PluginType, MidiStates, Knows
  <2>2. q = r
    BY <1>9 DEF RefreshMidi, r
  <2>3. Knows(q)
    BY <1>2, <1>3, <1>9, <2>1, <2>2 DEF Knows
  <2>4. PluginDue(q) <= PluginDue(P)
    BY <1>2, <1>9, <2>1, <2>2 DEF PluginDue, MidiDue, StreamDue, One
  <2> QED BY <1>2, <1>5, <1>7, <1>9, <2>2, <2>3, <2>4 DEF Ready, Refreshed
<1>10. CASE midi.state # P.seen /\ midi.state = "stopping"
  <2>1. P.seen = "playing" /\ ~P.pending
    BY <1>1, <1>3, <1>10 DEF SawMidi, MidiNext, PluginType, MidiStates, Knows
  <2>2. q = StopMusic(r, TRUE)
    BY <1>10 DEF RefreshMidi, r
  <2>3. /\ q \in PluginType /\ q.current = None
        /\ r.current = None => q = r
        /\ r.current # None => q.stop = r.current
        /\ q.seen = r.seen /\ q.seenStream = r.seenStream
        /\ q.pending = r.pending /\ q.start = r.start
        /\ q.pause = r.pause /\ q.unpause = r.unpause /\ q.paused = r.paused
    <3>1. PICK u : u = StopMusic(r, TRUE)
      OBVIOUS
    <3>2. r \in PluginType
      BY <1>2
    <3>3. /\ u \in PluginType /\ u.current = None
          /\ r.current = None => u = r
          /\ r.current # None => u.stop = r.current
          /\ u.seen = r.seen /\ u.seenStream = r.seenStream
          /\ u.pending = r.pending /\ u.start = r.start
          /\ u.pause = r.pause /\ u.unpause = r.unpause /\ u.paused = r.paused
      BY <3>1, <3>2, StopMusicIs, ZenonT(60)
    <3>4. q = u
      BY <2>2, <3>1
    <3> QED BY <3>3, <3>4
  <2>4. Knows(q)
    <3>1. P.current \notin Streamed
      BY <1>3, <2>1 DEF Knows
    <3>2. P.seenStream = "playing" /\ stream.state = "playing" => With(stream.song) = None
      BY <1>3, <3>1 DEF Knows, World, With
    <3> QED BY <1>2, <1>4, <1>10, <2>1, <2>3, <3>2 DEF Knows
  <2>5. Decided(q)
    BY <1>2, <1>5, <2>3, DecidedStop
  <2>6. PluginDue(q) <= PluginDue(P)
    BY <1>2, <1>10, <2>1, <2>3 DEF PluginDue, MidiDue, StreamDue, One
  <2> QED BY <1>2, <1>7, <1>10, <2>3, <2>4, <2>5, <2>6 DEF Ready, Refreshed
<1>11. ASSUME midi.state # P.seen, midi.state \in {"preplay", "playing"},
              midi.song # P.current,
              NEW t, t = StartMusic(r, midi.song)
       PROVE  /\ t \in PluginType /\ Decided(t) /\ t.current = With(midi.song)
              /\ t.stop = IF P.current = None THEN P.stop ELSE P.current
              /\ t.pending <=> midi.song \in Replaced
              /\ midi.song \in Replaced => t.file = midi.song /\ ~t.isStream
              /\ t.seen = midi.state /\ t.seenStream = P.seenStream /\ t.start = "no"
              /\ t.pause = P.pause /\ t.unpause = P.unpause /\ t.paused = P.paused
  <2>1. midi.song \in Sequenced /\ midi.song \in Songs
    BY <1>4, <1>11 DEF World
  <2>2. ~P.pending
    <3>1. SUFFICES ASSUME P.pending PROVE FALSE
      OBVIOUS
    <3>2. P.seen = "preplay" /\ P.current # None
      BY <1>3, <3>1 DEF Knows
    <3>3. P.current = With(midi.song)
      BY <1>3, <1>11, <3>2 DEF Knows
    <3> QED BY <1>11, <3>2, <3>3 DEF With
  <2>3. /\ t \in PluginType
        /\ t.current = With(midi.song)
        /\ t.stop = IF r.current = None THEN r.stop ELSE r.current
        /\ midi.song \in Replaced => t.file = midi.song /\ ~t.isStream /\ t.pending
        /\ midi.song \notin Replaced => t.pending = r.pending
        /\ t.seen = r.seen /\ t.seenStream = r.seenStream /\ t.start = r.start
        /\ t.pause = r.pause /\ t.unpause = r.unpause /\ t.paused = r.paused
    BY <1>2, <1>11, <2>1, StartMusicIs
  <2>4. PICK u : u = StopMusic(r, TRUE)
    OBVIOUS
  <2>5. /\ u \in PluginType /\ u.current = None /\ u.start = "no"
        /\ u.stop = IF r.current = None THEN r.stop ELSE r.current
    <3>1. r \in PluginType
      BY <1>2
    <3>2. /\ u \in PluginType /\ u.current = None /\ u.start = r.start
          /\ r.current = None => u = r
          /\ r.current # None => u.stop = r.current
      BY <2>4, <3>1, StopMusicIs
    <3> QED BY <1>2, <3>2
  <2>6. Decided(u)
    BY <1>2, <1>5, <2>5, DecidedStop
  <2>7. Decided(t)
    <3>1. CASE midi.song \in Replaced
      BY <1>2, <2>3, <2>5, <2>6, <3>1, DecidedPending
    <3>2. CASE midi.song \notin Replaced
      BY <1>2, <1>4, <2>2, <2>3, <2>5, <2>6, <3>2 DEF Decided, With
    <3> QED BY <3>1, <3>2
  <2> QED BY <1>2, <2>2, <2>3, <2>7
<1>12. CASE midi.state # P.seen /\ midi.state = "preplay"
  <2>1. P.seen \in {"load", "stopped"} /\ midi.song \in Sequenced
    BY <1>1, <1>3, <1>12 DEF SawMidi, MidiNext, PluginType, MidiStates, World
  <2>2. midi.song # P.current
    BY <1>3, <2>1 DEF Knows
  <2>3. q = StartMusic(r, midi.song)
    BY <1>12 DEF RefreshMidi, r
  <2>4. /\ q \in PluginType /\ Decided(q) /\ q.current = With(midi.song)
        /\ q.stop = IF P.current = None THEN P.stop ELSE P.current
        /\ q.pending <=> midi.song \in Replaced
        /\ midi.song \in Replaced => q.file = midi.song /\ ~q.isStream
        /\ q.seen = midi.state /\ q.seenStream = P.seenStream /\ q.start = "no"
        /\ q.pause = P.pause /\ q.unpause = P.unpause /\ q.paused = P.paused
    BY <1>11, <1>12, <2>2, <2>3
  <2>5. Knows(q)
    BY <1>4, <1>12, <2>1, <2>4 DEF Knows, With, World
  <2>6. PluginDue(q) <= PluginDue(P)
    BY <1>12, <2>4 DEF PluginDue, MidiDue, StreamDue, One
  <2> QED BY <1>7, <2>4, <2>5, <2>6 DEF Ready, Refreshed
<1>13. CASE midi.state # P.seen /\ midi.state = "playing"
  <2>1. /\ P.seen = "preplay" \/ (P.seen = "stopped" /\ "load" \in course)
        /\ midi.song \in Sequenced /\ midi.song \in Songs
    BY <1>1, <1>3, <1>4, <1>13 DEF SawMidi, MidiNext, PluginType, MidiStates, World
  <2>2. PICK t : t = StartMusic(r, midi.song)
    OBVIOUS
  <2>3. q = StartPending(t, midi.song)
    BY <1>13, <2>2 DEF RefreshMidi, r
  <2>4. /\ t \in PluginType /\ Decided(t) /\ t.current = With(midi.song)
        /\ P.stop # None => t.stop = P.stop
        /\ P.seen = "preplay" /\ midi.song \in Replaced => t.stop = P.stop
        /\ t.pending <=> midi.song \in Replaced
        /\ midi.song \in Replaced => t.file = midi.song /\ ~t.isStream
        /\ t.seen = midi.state /\ t.seenStream = P.seenStream /\ t.start = "no"
        /\ t.pause = P.pause /\ t.unpause = P.unpause /\ t.paused = P.paused
    <3>1. CASE midi.song = P.current
      <4>1. t = r
        BY <1>2, <2>1, <2>2, <3>1, StartMusicIs
      <4>2. P.seen = "preplay" /\ midi.song \in Replaced
        BY <1>3, <1>4, <2>1, <3>1 DEF Knows
      <4> QED BY <1>2, <1>3, <1>4, <1>5, <2>1, <3>1, <4>1, <4>2 DEF Knows, With
    <3>2. CASE midi.song # P.current
      <4>1. ~(P.seen = "preplay" /\ midi.song \in Replaced)
        BY <1>3, <1>13, <3>2 DEF Knows, With
      <4> QED BY <1>11, <1>13, <2>2, <3>2, <4>1
    <3> QED BY <3>1, <3>2
  <2>5. CASE midi.song \notin Replaced
    <3>1. q = t
      BY <2>3, <2>4, <2>5, StartPendingIs
    <3>2. Knows(q)
      BY <1>4, <1>13, <2>4, <2>5, <3>1 DEF Knows, With, World
    <3>3. PluginDue(q) <= PluginDue(P)
      BY <1>13, <2>4, <3>1 DEF PluginDue, MidiDue, StreamDue, One
    <3> QED BY <1>7, <2>4, <3>1, <3>2, <3>3 DEF Ready, Refreshed
  <2>6. CASE midi.song \in Replaced
    <3>1. /\ q \in PluginType /\ q.start = When(midi.song) /\ ~q.pending
          /\ q.seen = t.seen /\ q.seenStream = t.seenStream /\ q.file = t.file
          /\ q.isStream = t.isStream /\ q.stop = t.stop /\ q.current = t.current
          /\ q.pause = t.pause /\ q.unpause = t.unpause /\ q.paused = t.paused
      BY <2>3, <2>4, <2>6, StartPendingIs
    <3>2. q.current = midi.song
      BY <2>4, <2>6, <3>1 DEF With
    <3>3. q.start = "later" => q.stop = None
      <4>1. SUFFICES ASSUME q.start = "later" PROVE q.stop = None
        OBVIOUS
      <4>2. "film" \in course
        BY <3>1, <4>1 DEF When
      <4>3. "load" \notin course
        BY <4>2, UseIs
      <4> QED BY <2>1, <2>4, <2>6, <3>1, <4>3
    <3>4. Decided(q)
      BY <2>1, <2>4, <2>6, <3>1, <3>2, <3>3, DecidedStart
    <3>5. Knows(q)
      BY <1>4, <1>13, <2>1, <2>4, <2>6, <3>1, <3>2 DEF Knows, With, World
    <3>6. PluginDue(q) <= PluginDue(P)
      <4>1. P.start = "no" /\ P.seen # "playing"
        BY <2>1
      <4>2. MidiDue(P) /\ ~MidiDue(q) /\ (StreamDue(q) <=> StreamDue(P))
        BY <1>13, <2>4, <3>1, <4>1 DEF MidiDue, StreamDue
      <4> QED BY <4>1, <4>2 DEF PluginDue, One
    <3> QED BY <1>7, <1>13, <2>4, <3>1, <3>4, <3>5, <3>6 DEF Ready, Refreshed
  <2> QED BY <2>5, <2>6
<1> QED BY <1>1, <1>6, <1>8, <1>9, <1>10, <1>12, <1>13 DEF MidiStates

LEMMA StreamRefreshed ==
  ASSUME BgmAssumption, Ordinary, MusicTypeOK, World, NEW p \in PluginType, Ready(p), p.seen = midi.state,
         p.start # "no" => midi.state = "playing",
         NEW q, q = RefreshStream(p)
  PROVE  /\ Ready(q) /\ Refreshed(p, q) /\ q.seen = midi.state /\ q.seenStream = stream.state
         /\ PluginDue(q) <= PluginDue(p)
<1> DEFINE r == [p EXCEPT !.seenStream = stream.state]
<1>1. midi.state \in MidiStates /\ stream.state \in StreamStates
  BY DEF MusicTypeOK
<1>2. /\ r \in PluginType /\ r.seenStream = stream.state
      /\ r.seen = p.seen /\ r.file = p.file /\ r.isStream = p.isStream
      /\ r.pending = p.pending /\ r.start = p.start /\ r.current = p.current /\ r.stop = p.stop
      /\ r.pause = p.pause /\ r.unpause = p.unpause /\ r.paused = p.paused
  BY <1>1 DEF PluginType
<1>3. SawMidi(p) /\ SawStream(p) /\ Knows(p) /\ Decided(p)
  BY DEF Ready
<1>4. Songs = Sequenced \cup Streamed /\ Sequenced \cap Streamed = {} /\ None \notin Songs
      /\ Replaced \subseteq Songs /\ Delayed \cap Streamed = {}
  BY DEF BgmAssumption, Ordinary, Songs
<1>5. Decided(r)
  BY <1>2, <1>3 DEF Decided
<1>6. ASSUME q \in PluginType, q.seen = midi.state, q.seenStream = stream.state
      PROVE  SawMidi(q) /\ SawStream(q)
  BY <1>6 DEF SawMidi, SawStream
<1>7. CASE stream.state = p.seenStream
  <2>1. q = p
    BY <1>7 DEF RefreshStream
  <2>2. PluginDue(q) <= PluginDue(p)
    BY <2>1 DEF PluginDue, One
  <2> QED BY <1>3, <1>7, <2>1, <2>2 DEF Ready, Refreshed
<1> HIDE DEF r
<1>8. CASE stream.state # p.seenStream /\ stream.state \in {"stopped", "ended"}
  <2>1. p.seenStream \in {"playing", "ended"}
    BY <1>1, <1>3, <1>8 DEF SawStream, StreamNext, PluginType, StreamStates
  <2>2. q = StopStream(r, TRUE) \/ q = StopStream(r, FALSE)
    BY <1>8 DEF RefreshStream, r
  <2>3. /\ q \in PluginType
        /\ ~(r.isStream /\ r.current # None) => q = r
        /\ r.isStream /\ r.current # None => q.stop = r.current /\ q.current = None /\ ~q.isStream
        /\ q.seen = r.seen /\ q.seenStream = r.seenStream /\ q.file = r.file
        /\ q.pending = r.pending /\ q.start = r.start
        /\ q.pause = r.pause /\ q.unpause = r.unpause /\ q.paused = r.paused
    <3>1. r \in PluginType
      BY <1>2
    <3>2. ASSUME NEW u, u = StopStream(r, TRUE) \/ u = StopStream(r, FALSE)
          PROVE  /\ u \in PluginType
                 /\ ~(r.isStream /\ r.current # None) => u = r
                 /\ r.isStream /\ r.current # None => u.stop = r.current /\ u.current = None /\ ~u.isStream
                 /\ u.seen = r.seen /\ u.seenStream = r.seenStream /\ u.file = r.file
                 /\ u.pending = r.pending /\ u.start = r.start
                 /\ u.pause = r.pause /\ u.unpause = r.unpause /\ u.paused = r.paused
      BY <3>1, <3>2, StopStreamIs
    <3> QED BY <2>2, <3>2
  <2>4. PluginDue(q) <= PluginDue(p)
    BY <1>2, <1>8, <2>3 DEF PluginDue, MidiDue, StreamDue, One
  <2>5. CASE p.isStream /\ p.current # None
    <3>1. p.current \in Streamed
      BY <1>3, <1>4, <2>5 DEF Knows
    <3>2. p.seen \in {"stopped", "stopping", "load"} /\ p.start = "no" /\ ~p.pending
      BY <1>3, <3>1 DEF Knows
    <3>3. p.stop = None
      BY <1>3, <2>5, <3>2 DEF Decided
    <3>4. Decided(q)
      BY <1>2, <1>5, <2>3, <2>5, <3>2, <3>3, DecidedStop
    <3>5. Knows(q)
      BY <1>2, <1>4, <1>8, <2>3, <2>5, <3>2 DEF Knows
    <3> QED BY <1>2, <1>6, <2>3, <2>4, <3>3, <3>4, <3>5 DEF Ready, Refreshed
  <2>6. CASE ~(p.isStream /\ p.current # None)
    <3>1. p.current \notin Streamed
      BY <1>3, <1>4, <2>6 DEF Knows
    <3>2. Knows(q)
      BY <1>2, <1>3, <1>4, <1>8, <2>3, <2>6, <3>1 DEF Knows
    <3> QED BY <1>2, <1>5, <1>6, <2>3, <2>4, <2>6, <3>2 DEF Ready, Refreshed
  <2> QED BY <2>5, <2>6
<1>9. CASE stream.state # p.seenStream /\ stream.state = "playing"
  <2>1. p.seenStream = "stopped" /\ stream.song \in Streamed /\ midi.state \in {"stopped", "stopping"}
    BY <1>1, <1>3, <1>9 DEF SawStream, StreamNext, PluginType, StreamStates, World
  <2>2. p.current = None /\ ~p.pending /\ p.start = "no"
    BY <1>3, <1>4, <2>1 DEF Knows
  <2>3. CASE stream.song \notin Replaced
    <3>1. q = [r EXCEPT !.current = None]
      BY <1>9, <2>3 DEF RefreshStream, r
    <3>2. /\ q \in PluginType /\ q.current = None
          /\ q.seen = r.seen /\ q.seenStream = r.seenStream /\ q.file = r.file
          /\ q.isStream = r.isStream /\ q.stop = r.stop
          /\ q.pending = r.pending /\ q.start = r.start
          /\ q.pause = r.pause /\ q.unpause = r.unpause /\ q.paused = r.paused
      BY <1>2, <3>1 DEF PluginType
    <3>3. Knows(q)
      BY <1>2, <1>4, <2>1, <2>2, <2>3, <3>2 DEF Knows, With
    <3>4. Decided(q)
      BY <1>2, <1>5, <2>2, <3>2 DEF Decided
    <3>5. PluginDue(q) <= PluginDue(p)
      BY <1>2, <1>9, <2>1, <3>2 DEF PluginDue, MidiDue, StreamDue, One
    <3> QED BY <1>2, <1>6, <3>2, <3>3, <3>4, <3>5 DEF Ready, Refreshed
  <2>4. CASE stream.song \in Replaced
    <3>1. stream.song \in Songs /\ stream.song # None
      BY <1>4, <2>4
    <3>2. StopStream(r, FALSE) = r
      BY <1>2, <2>2 DEF StopStream
    <3>3. q = [r EXCEPT !.start = When(stream.song), !.file = stream.song,
                        !.current = stream.song, !.isStream = TRUE]
      BY <1>9, <2>2, <2>4, <3>1, <3>2 DEF RefreshStream, r
    <3>4. When(stream.song) = "now"
      BY <1>4, <2>1 DEF When
    <3>5. /\ q \in PluginType /\ q.current = stream.song /\ q.file = stream.song
          /\ q.start = "now" /\ q.isStream
          /\ q.seen = r.seen /\ q.seenStream = r.seenStream
          /\ q.stop = r.stop /\ q.pending = r.pending
          /\ q.pause = r.pause /\ q.unpause = r.unpause /\ q.paused = r.paused
      BY <1>2, <3>1, <3>3, <3>4 DEF PluginType
    <3>6. Knows(q)
      BY <1>2, <1>4, <1>9, <2>1, <2>2, <2>4, <3>5 DEF Knows, With
    <3>7. Decided(q)
      BY <1>2, <1>3, <2>2, <3>1, <3>4, <3>5, DecidedStart
    <3>8. PluginDue(q) <= PluginDue(p)
      <4>1. StreamDue(p) /\ ~StreamDue(q) /\ (MidiDue(q) <=> MidiDue(p))
        BY <1>2, <1>9, <2>1, <3>5 DEF MidiDue, StreamDue
      <4> QED BY <2>2, <4>1 DEF PluginDue, One
    <3> QED BY <1>2, <1>6, <3>5, <3>6, <3>7, <3>8 DEF Ready, Refreshed
  <2> QED BY <2>3, <2>4
<1> QED BY <1>1, <1>7, <1>8, <1>9 DEF StreamStates

-----------------------------------------------------------------------------
(* The steps of the emulation thread.                                      *)

LEMMA SameWindow ==
  ASSUME UNCHANGED <<course, events, timer, players>>
  PROVE  /\ WindowInv => WindowInv'
         /\ \A s : WillPlay(s)' <=> WillPlay(s)
         /\ WindowDue' = WindowDue
<1>1. WindowInv => WindowInv'
  BY DEF WindowInv, Orderly, OrderlyIs, Cleaning, CleaningIs, Playing, Film, FilmIs
<1>2. \A s : WillPlay(s)' <=> WillPlay(s)
  BY DEF WillPlay, Will, Waits
<1>3. WindowDue' = WindowDue
  BY DEF WindowDue
<1> QED BY <1>1, <1>2, <1>3

\* An order that is signalled comes last.
LEMMA WillSignalled ==
  ASSUME NEW q \in Seq(EventType), NEW e \in EventType, e.kind \notin Posted, NEW s
  PROVE  /\ e \in StartsOf(s) => Will(Append(q, e), s)
         /\ e \in StopsOf(s) => ~Will(Append(q, e), s)
         /\ e \notin StartsOf(s) \cup StopsOf(s) => (Will(Append(q, e), s) <=> Will(q, s))
<1>1. StartsOf(s) \cap StopsOf(s) = {} /\ StopsOf(s) \cap StartsOf(s) = {}
  BY OrdersApart
<1>2. /\ e \in StartsOf(s) => LastIs(Append(q, e), StartsOf(s), StopsOf(s))
      /\ e \in StopsOf(s) => ~LastIs(Append(q, e), StartsOf(s), StopsOf(s))
      /\ e \notin StartsOf(s) \cup StopsOf(s) =>
            (LastIs(Append(q, e), StartsOf(s), StopsOf(s)) <=> LastIs(q, StartsOf(s), StopsOf(s)))
      /\ Missing(Append(q, e), StartsOf(s)) <=> Missing(q, StartsOf(s)) /\ e \notin StartsOf(s)
  BY <1>1, SignalledLast
<1>3. Missing(Append(q, e), StopsOf(s)) <=> Missing(q, StopsOf(s)) /\ e \notin StopsOf(s)
  BY <1>1, SignalledLast
<1> QED BY <1>2, <1>3 DEF Will

\* The players are few, and what is due is a number.
LEMMA PlayersFinite ==
  ASSUME MusicTypeOK
  PROVE  IsFiniteSet(DOMAIN players) /\ Cardinality(DOMAIN players) \in Nat
<1>1. MaxSongs \in Nat
  BY BgmAssumption DEF BgmAssumption
<1>2. IsFiniteSet(1 .. MaxSongs)
  BY <1>1, FS_Interval
<1> QED BY <1>2, PlayersAre, FS_Subset, FS_CardinalityType
LEMMA DueIs ==
  ASSUME MusicTypeOK
  PROVE  WindowDue \in Nat /\ \A p : PluginDue(p) \in Nat /\ begun \in Nat
<1>1. IsFiniteSet(DOMAIN players) /\ Cardinality(DOMAIN players) \in Nat
  BY PlayersFinite
<1>2. Count(events, Starts) \in Nat
  BY Counts DEF MusicTypeOK
<1>3. \A b : One(b) \in {0, 1}
  BY DEF One
<1>4. WindowDue \in Nat
  BY <1>1, <1>2, <1>3 DEF WindowDue
<1>5. \A p : PluginDue(p) \in Nat
  BY <1>3 DEF PluginDue
<1>6. begun \in Nat
  BY DEF MusicTypeOK
<1> QED BY <1>4, <1>5, <1>6

LEMMA RefreshKeeps ==
  ASSUME BgmAssumption, Ordinary, MusicInv, Refresh
  PROVE  MusicInv'
<1>1. /\ pc = "refresh" /\ pc' = "frame" /\ Crosses
      /\ UNCHANGED <<course, midi, stream, begun, status, request, events, timer, players>>
      /\ plugin' = RefreshStream(RefreshMidi(plugin))
  BY DEF Refresh, world, window
<1>2. MusicTypeOK /\ ThreadInv /\ WindowInv /\ Decided(plugin) /\ Counted /\ Suspension
  BY DEF MusicInv
<1>3. /\ World /\ Follows /\ Knows(plugin) /\ Flags /\ Presses
      /\ status = "running" /\ plugin.start = "no"
      /\ plugin.stop # None => plugin.current = None /\ "load" \in course
  BY <1>1, <1>2 DEF ThreadInv, Flags
<1>4. PICK p : p = RefreshMidi(plugin)
  OBVIOUS
<1>5. plugin \in PluginType /\ Ready(plugin)
  BY <1>2, <1>3 DEF MusicTypeOK, Ready, Follows
<1>6. /\ Ready(p) /\ Refreshed(plugin, p) /\ p.seen = midi.state
      /\ p.start # "no" => midi.state = "playing"
      /\ PluginDue(p) <= PluginDue(plugin) /\ p \in PluginType
  BY <1>2, <1>3, <1>4, <1>5, MidiRefreshed DEF Ready
<1>7. PICK q : q = RefreshStream(p) /\ plugin' = q
  BY <1>1, <1>4
<1>8. /\ Ready(q) /\ Refreshed(p, q) /\ q.seen = midi.state /\ q.seenStream = stream.state
      /\ PluginDue(q) <= PluginDue(p)
  BY <1>2, <1>3, <1>6, <1>7, StreamRefreshed
<1>9. /\ q \in PluginType /\ q.pause = plugin.pause /\ q.unpause = plugin.unpause
      /\ q.paused = plugin.paused
      /\ plugin.stop # None => q.stop = plugin.stop
  BY <1>6, <1>8 DEF Refreshed
<1>10. /\ WindowInv' /\ \A s : WillPlay(s)' <=> WillPlay(s)
       /\ WindowDue' = WindowDue
  BY <1>1, <1>2, SameWindow
<1>11. MusicTypeOK'
  BY <1>1, <1>2, <1>7, <1>9 DEF MusicTypeOK, Crosses
<1>12. ThreadInv'
  <2>1. World'
    BY <1>1, <1>3 DEF World
  <2>2. Follows'
    BY <1>1, <1>7, <1>8 DEF Follows, SawMidi, SawStream
  <2>3. Knows(plugin)'
    BY <1>1, <1>7, <1>8 DEF Ready, Knows
  <2>4. Flags'
    BY <1>1, <1>3, <1>7, <1>9 DEF Flags
  <2>5. Presses'
    <3>0. /\ plugin.pause \in BOOLEAN /\ plugin.unpause \in BOOLEAN /\ plugin.paused \in BOOLEAN
          /\ crossed \in BOOLEAN /\ crossed' \in BOOLEAN
      BY <1>2, <1>11 DEF MusicTypeOK, PluginType
    <3>1. crossed' <=> crossed \/ (q.current # plugin.current /\ request # "none")
      BY <1>1, <1>3, <1>7 DEF Crosses
    <3>2. ~crossed' => (WillPause' <=> Pausing' /\ plugin'.current # None)
      BY <1>1, <1>3, <1>7, <1>9, <3>0, <3>1 DEF Presses, WillPause, Pausing
    <3> QED BY <1>1, <1>3, <1>7, <1>9, <3>0, <3>1, <3>2 DEF Presses
  <2> QED BY <2>1, <2>2, <2>3, <2>4, <2>5 DEF ThreadInv
<1>13. Decided(plugin)'
  BY <1>1, <1>7, <1>8, <1>10 DEF Ready, Decided
<1>14. Counted'
  <2>1. PluginDue(plugin)' = PluginDue(q)
    BY <1>1, <1>7 DEF PluginDue, MidiDue, StreamDue
  <2> QED BY <1>1, <1>2, <1>6, <1>8, <1>10, <2>1, DueIs DEF Counted
<1>15. Suspension'
  <2>1. crossed => crossed'
    BY <1>1 DEF Crosses
  <2>2. \A k \in DOMAIN players : players[k].playing => players[k].id # None
    BY <1>2 DEF WindowInv, Playing, BgmAssumption
  <2>3. \A k \in DOMAIN players : players[k].playing /\ q.stop # players[k].id => plugin.stop # players[k].id
    BY <1>9, <2>2
  <2> QED BY <1>1, <1>2, <1>7, <1>9, <2>1, <2>3 DEF Suspension
<1> QED BY <1>10, <1>11, <1>12, <1>13, <1>14, <1>15 DEF MusicInv

\* A step in which the window's thread and the plugin do nothing.
LEMMA FrameKeeps ==
  ASSUME BgmAssumption, Ordinary, MusicInv, Frame
  PROVE  MusicInv'
<1> DEFINE new == {s \in {<<midi, midi'>>, <<stream, stream'>>} : s[1] = Silence /\ s[2] # Silence}
<1>1. /\ pc = "frame" /\ pc' = "relay"
      /\ midi' \in {midi} \cup MidiSteps(midi) /\ stream' \in {stream} \cup StreamSteps(stream)
      /\ stream'.state = "playing" => midi'.state \in {"stopped", "stopping"}
      /\ begun' = begun + Cardinality(new) /\ begun' <= MaxSongs
      /\ UNCHANGED <<course, plugin, status, request, events, timer, players, crossed>>
  <2>1. "overlap" \notin course
    BY UseIs DEF MusicInv
  <2> QED BY <2>1 DEF Frame, OneAtATime, window
<1>2. MusicTypeOK /\ ThreadInv /\ WindowInv /\ Decided(plugin) /\ Counted /\ Suspension
  BY DEF MusicInv
<1>3. /\ World /\ Follows /\ Knows(plugin) /\ Flags /\ Presses /\ status = "running"
      /\ midi.state = plugin.seen /\ stream.state = plugin.seenStream
  BY <1>1, <1>2 DEF ThreadInv, Flags, Follows
<1>4. /\ WindowInv' /\ \A s : WillPlay(s)' <=> WillPlay(s)
      /\ WindowDue' = WindowDue
  BY <1>1, <1>2, SameWindow
<1>5. /\ midi \in [state : MidiStates, song : Songs \cup {None}]
      /\ stream \in [state : StreamStates, song : Songs \cup {None}]
  BY <1>2 DEF MusicTypeOK
<1>6. Silence.state = "stopped" /\ Silence.song = None
  BY DEF Silence
<1>7. /\ midi' \in [state : MidiStates, song : Songs \cup {None}]
      /\ midi' = midi \/ midi'.state \in MidiNext(midi.state)
      /\ midi.state = "stopped" /\ midi' # midi => midi'.state = "load" /\ midi'.song \in Sequenced
      /\ midi.state \in {"load", "preplay"} /\ midi' # midi => midi'.song = midi.song
      /\ midi.state \in {"playing", "stopping"} /\ midi' # midi => midi'.song = None
  <2>1. "cancel" \notin course
    BY <1>2, UseIs
  <2>2. CASE midi.state = "stopped"
    BY <1>1, <1>5, <2>2 DEF MidiSteps, MidiNext, MidiStates, Songs
  <2>3. CASE midi.state = "load"
    BY <1>1, <1>5, <2>3 DEF MidiSteps, MidiNext, MidiStates
  <2>4. CASE midi.state = "preplay"
    BY <1>1, <1>5, <2>1, <2>4 DEF MidiSteps, MidiNext, MidiStates
  <2>5. CASE midi.state = "playing"
    BY <1>1, <1>5, <2>5 DEF MidiSteps, MidiNext, MidiStates, Silence
  <2>6. CASE midi.state = "stopping"
    BY <1>1, <1>5, <2>6 DEF MidiSteps, MidiNext, MidiStates, Silence
  <2> QED BY <1>5, <2>2, <2>3, <2>4, <2>5, <2>6 DEF MidiStates
<1>8. /\ stream' \in [state : StreamStates, song : Songs \cup {None}]
      /\ stream' = stream \/ stream'.state \in StreamNext(stream.state)
      /\ stream'.state = "playing" /\ stream' # stream => stream'.song \in Streamed
      /\ stream'.state = "ended" /\ stream' # stream => stream'.song = stream.song
      /\ stream'.state = "stopped" /\ stream' # stream => stream'.song = None
  <2>1. CASE stream.state = "stopped"
    BY <1>1, <1>5, <2>1 DEF StreamSteps, StreamNext, StreamStates, Songs
  <2>2. CASE stream.state = "playing"
    BY <1>1, <1>5, <2>2 DEF StreamSteps, StreamNext, StreamStates, Silence
  <2>3. CASE stream.state = "ended"
    BY <1>1, <1>5, <2>3 DEF StreamSteps, StreamNext, StreamStates, Silence
  <2> QED BY <1>5, <2>1, <2>2, <2>3 DEF StreamStates
<1>9. Cardinality(new) \in Nat /\ (new # {} => Cardinality(new) >= 1)
  <2>1. IsFiniteSet({<<midi, midi'>>, <<stream, stream'>>})
    <3>1. ASSUME NEW a, NEW b PROVE IsFiniteSet({a, b})
      <4>1. IsFiniteSet({a})
        BY FS_Singleton
      <4>2. IsFiniteSet({a} \cup {b})
        BY <4>1, FS_AddElement
      <4>3. {a, b} = {a} \cup {b}
        OBVIOUS
      <4> QED BY <4>2, <4>3
    <3> QED BY <3>1
  <2>2. IsFiniteSet(new)
    BY <2>1, FS_Subset
  <2> HIDE DEF new
  <2> QED BY <2>2, FS_CardinalityType, FS_EmptySet
<1>10. MidiNext("stopped") = {"load"} /\ MidiNext("load") = {"preplay"} /\ MidiNext("preplay") = {"playing"}
       /\ MidiNext("playing") = {"stopped", "stopping"} /\ MidiNext("stopping") = {"stopped"}
       /\ StreamNext("stopped") = {"playing"} /\ StreamNext("playing") = {"stopped", "ended"}
       /\ StreamNext("ended") = {"stopped"}
  BY DEF MidiNext, StreamNext
<1>11. MusicTypeOK'
  <2>1. begun' \in 0 .. MaxSongs
    BY <1>1, <1>2, <1>9 DEF MusicTypeOK, BgmAssumption
  <2> QED BY <1>1, <1>2, <1>7, <1>8, <2>1 DEF MusicTypeOK
<1>12. ThreadInv'
  <2>1. World'
    BY <1>1, <1>3, <1>5, <1>7, <1>8, <1>10 DEF World, MidiStates, StreamStates
  <2>2. Follows'
    BY <1>1, <1>3, <1>7, <1>8 DEF Follows, SawMidi, SawStream
  <2>3. Knows(plugin)'
    BY <1>1, <1>3, <1>5, <1>7, <1>8, <1>10 DEF Knows, MidiStates, StreamStates
  <2>4. Flags'
    BY <1>1, <1>3 DEF Flags
  <2>5. Presses'
    BY <1>1, <1>3 DEF Presses, WillPause, Pausing
  <2> QED BY <2>1, <2>2, <2>3, <2>4, <2>5 DEF ThreadInv
<1>13. Decided(plugin)'
  BY <1>1, <1>2, <1>4 DEF Decided
<1>14. Counted'
  <2>1. PluginDue(plugin)' <= PluginDue(plugin) + Cardinality(new)
    <3>1. midi' # midi /\ midi.state = "stopped" => new # {}
      <4>1. ASSUME midi' # midi, midi.state = "stopped" PROVE <<midi, midi'>> \in new
        <5>1. midi = Silence
          BY <1>3, <1>5, <4>1 DEF World, Silence
        <5>2. midi' # Silence
          BY <4>1, <5>1
        <5> QED BY <5>1, <5>2
      <4> QED BY <4>1
    <3>2. stream' # stream /\ stream.state = "stopped" => new # {}
      <4>1. ASSUME stream' # stream, stream.state = "stopped" PROVE <<stream, stream'>> \in new
        <5>1. stream = Silence
          BY <1>3, <1>5, <4>1 DEF World, Silence
        <5>2. stream' # Silence
          BY <4>1, <5>1
        <5> QED BY <5>1, <5>2
      <4> QED BY <4>1
    <3>3. ~StreamDue(plugin)
      BY <1>3 DEF StreamDue
    <3>4. StreamDue(plugin)' => new # {} /\ ~MidiDue(plugin)'
      BY <1>1, <1>3, <1>5, <1>8, <1>10, <3>2 DEF StreamDue, MidiDue, StreamStates
    <3>5. MidiDue(plugin)' => MidiDue(plugin) \/ new # {}
      BY <1>1, <1>3, <1>5, <1>7, <1>10, <3>1 DEF MidiDue, MidiStates
    <3> HIDE DEF new
    <3>6. (One(StreamDue(plugin)) + One(MidiDue(plugin)))' <= One(StreamDue(plugin)) + One(MidiDue(plugin)) + Cardinality(new)
      BY <1>9, <3>3, <3>4, <3>5 DEF One
    <3> QED BY <1>1, <1>9, <3>6 DEF PluginDue, One
  <2> HIDE DEF new
  <2> QED BY <1>1, <1>2, <1>4, <1>9, <1>11, <2>1, DueIs DEF Counted, PluginDue, One
<1>15. Suspension'
  BY <1>1, <1>2 DEF Suspension
<1> QED BY <1>4, <1>11, <1>12, <1>13, <1>14, <1>15 DEF MusicInv

LEMMA PressKeeps ==
  ASSUME BgmAssumption, MusicInv, Press
  PROVE  MusicInv'
<1> DEFINE P == plugin
<1>1. /\ "pause" \in course /\ request = "none" /\ ~plugin.pause /\ ~plugin.unpause
      /\ plugin' = [plugin EXCEPT !.pause = plugin.current # None /\ ~plugin.paused,
                                  !.unpause = plugin.current # None /\ plugin.paused]
      /\ request' = IF status = "paused" THEN "unpause" ELSE "pause"
      /\ UNCHANGED <<course, midi, stream, begun, pc, status, events, timer, players, crossed>>
  BY DEF Press, world, window
<1>2. MusicTypeOK /\ ThreadInv /\ WindowInv /\ Decided(plugin) /\ Counted /\ Suspension
  BY DEF MusicInv
<1>3. World /\ Follows /\ Knows(plugin) /\ Flags /\ Presses /\ P \in PluginType
      /\ P.paused \in BOOLEAN /\ crossed \in BOOLEAN /\ status \in {"running", "paused"}
  BY <1>2 DEF ThreadInv, MusicTypeOK, PluginType
<1>4. /\ WindowInv' /\ \A s : WillPlay(s)' <=> WillPlay(s)
      /\ WindowDue' = WindowDue
  BY <1>1, <1>2, SameWindow
<1>5. PICK q : q = plugin'
  OBVIOUS
<1>6. /\ q \in PluginType /\ q.seen = P.seen /\ q.seenStream = P.seenStream /\ q.current = P.current
      /\ q.file = P.file /\ q.isStream = P.isStream /\ q.pending = P.pending /\ q.start = P.start
      /\ q.stop = P.stop /\ q.fade = P.fade /\ q.paused = P.paused
      /\ q.pause = (P.current # None /\ ~P.paused) /\ q.unpause = (P.current # None /\ P.paused)
  BY <1>1, <1>3, <1>5 DEF PluginType
<1>7. MusicTypeOK'
  BY <1>1, <1>2, <1>5, <1>6 DEF MusicTypeOK
<1>8. ThreadInv'
  <2>1. World'
    BY <1>1, <1>3 DEF World
  <2>2. Follows'
    BY <1>1, <1>3, <1>5, <1>6 DEF Follows, SawMidi, SawStream
  <2>3. Knows(plugin)'
    BY <1>1, <1>3, <1>5, <1>6 DEF Knows
  <2>4. Flags'
    BY <1>1, <1>3, <1>5, <1>6 DEF Flags
  <2>5. Presses'
    <3>1. ~crossed => (P.paused <=> status = "paused" /\ P.current # None)
      BY <1>1, <1>3 DEF Presses, WillPause, Pausing
    <3> QED BY <1>1, <1>3, <1>5, <1>6, <3>1 DEF Presses, WillPause, Pausing
  <2> QED BY <2>1, <2>2, <2>3, <2>4, <2>5 DEF ThreadInv
<1>9. Decided(plugin)'
  BY <1>1, <1>2, <1>4, <1>5, <1>6 DEF Decided
<1>10. Counted'
  <2>1. PluginDue(plugin)' = PluginDue(plugin)
    BY <1>1, <1>5, <1>6 DEF PluginDue, MidiDue, StreamDue
  <2> QED BY <1>1, <1>2, <1>4, <2>1 DEF Counted
<1>11. Suspension'
  BY <1>1, <1>2, <1>5, <1>6 DEF Suspension
<1> QED BY <1>4, <1>7, <1>8, <1>9, <1>10, <1>11 DEF MusicInv

LEMMA MessagesKeeps ==
  ASSUME BgmAssumption, MusicInv, Messages
  PROVE  MusicInv'
<1>1. /\ pc = "messages" /\ pc' = NextTurn(status') /\ request' = "none"
      /\ status' = CASE request = "pause" -> "paused" [] request = "unpause" -> "running"
                     [] OTHER -> status
      /\ UNCHANGED <<course, midi, stream, begun, plugin, events, timer, players, crossed>>
  BY DEF Messages, world, window
<1>2. MusicTypeOK /\ ThreadInv /\ WindowInv /\ Decided(plugin) /\ Counted /\ Suspension
  BY DEF MusicInv
<1>3. World /\ Follows /\ Knows(plugin) /\ Flags /\ Presses
      /\ request \in {"none", "pause", "unpause"} /\ status \in {"running", "paused"}
  BY <1>2 DEF ThreadInv, MusicTypeOK
<1>4. /\ WindowInv' /\ \A s : WillPlay(s)' <=> WillPlay(s)
      /\ WindowDue' = WindowDue
  BY <1>1, <1>2, SameWindow
<1>5. /\ request = "pause" => status' = "paused"
      /\ request = "unpause" => status' = "running"
      /\ request = "none" => status' = status
      /\ pc' \in {"refresh", "relay"} /\ (pc' = "refresh" => status' = "running")
  BY <1>1, <1>3 DEF NextTurn
<1>6. MusicTypeOK'
  <2>1. status' \in {"running", "paused"} /\ request' \in {"none", "pause", "unpause"}
        /\ pc' \in {"frame", "refresh", "relay", "messages"}
    BY <1>1, <1>3, <1>5
  <2> QED BY <1>1, <1>2, <2>1 DEF MusicTypeOK
<1>7. ThreadInv'
  <2>1. World'
    BY <1>1, <1>3 DEF World
  <2>2. Follows'
    BY <1>1, <1>3, <1>5 DEF Follows, SawMidi, SawStream
  <2>3. Knows(plugin)'
    BY <1>1, <1>3 DEF Knows
  <2>4. Flags'
    BY <1>1, <1>3, <1>5 DEF Flags
  <2>5. Presses'
    <3>1. Pausing' <=> Pausing
      BY <1>1, <1>3, <1>5 DEF Presses, Pausing
    <3>2. WillPause' <=> WillPause
      BY <1>1 DEF WillPause
    <3>3. status' = "running" => ~Pausing
      BY <1>3, <1>5 DEF Pausing, Presses
    <3> QED BY <1>1, <1>3, <3>1, <3>2, <3>3 DEF Presses, WillPause
  <2> QED BY <2>1, <2>2, <2>3, <2>4, <2>5 DEF ThreadInv
<1>8. Decided(plugin)'
  BY <1>1, <1>2, <1>4 DEF Decided
<1>9. Counted'
  <2>1. PluginDue(plugin)' = PluginDue(plugin)
    BY <1>1 DEF PluginDue, MidiDue, StreamDue
  <2> QED BY <1>1, <1>2, <1>4, <2>1 DEF Counted
<1>10. Suspension'
  BY <1>1, <1>2 DEF Suspension
<1> QED BY <1>4, <1>6, <1>7, <1>8, <1>9, <1>10 DEF MusicInv

LEMMA LoadStateKeeps ==
  ASSUME BgmAssumption, Ordinary, MusicInv, LoadState
  PROVE  MusicInv'
<1> DEFINE P == plugin
<1>1. /\ pc = "messages" /\ "load" \in course /\ begun < MaxSongs /\ begun' = begun + 1
      /\ stream.state = "stopped" /\ ~P.pending
      /\ midi' \in {Silence} \cup [state : {"preplay", "playing"}, song : Sequenced]
      /\ plugin' = [StopMusic(plugin, FALSE) EXCEPT !.seen = "stopped"]
      /\ pc' = NextTurn(status) /\ Crosses
      /\ UNCHANGED <<course, stream, status, request, events, timer, players>>
  BY DEF LoadState, window
<1>2. MusicTypeOK /\ ThreadInv /\ WindowInv /\ Decided(plugin) /\ Counted /\ Suspension
  BY DEF MusicInv
<1>3. /\ World /\ Follows /\ Knows(plugin) /\ Flags /\ Presses /\ P \in PluginType
      /\ P.start = "no" /\ P.stop = None /\ status \in {"running", "paused"}
      /\ P.pause \in BOOLEAN /\ P.unpause \in BOOLEAN /\ P.paused \in BOOLEAN
  BY <1>1, <1>2 DEF ThreadInv, Flags, MusicTypeOK, PluginType
<1>4. /\ WindowInv' /\ \A s : WillPlay(s)' <=> WillPlay(s)
      /\ WindowDue' = WindowDue
  BY <1>1, <1>2, SameWindow
<1>5. PICK r : r = StopMusic(plugin, FALSE)
  OBVIOUS
<1>6. /\ r \in PluginType /\ r.current = None
      /\ r.stop = P.current
      /\ r.seenStream = P.seenStream /\ r.file = P.file
      /\ r.isStream = P.isStream /\ r.pending = P.pending /\ r.start = P.start
      /\ r.pause = P.pause /\ r.unpause = P.unpause /\ r.paused = P.paused
  <2>1. PICK p \in PluginType : p = P /\ r = StopMusic(p, FALSE)
    BY <1>3, <1>5
  <2>2. /\ r \in PluginType /\ r.current = None
        /\ p.current = None => r = p
        /\ p.current # None => r.stop = p.current
        /\ r.seenStream = p.seenStream /\ r.file = p.file
        /\ r.isStream = p.isStream /\ r.pending = p.pending /\ r.start = p.start
        /\ r.pause = p.pause /\ r.unpause = p.unpause /\ r.paused = p.paused
    BY <2>1, StopMusicIs, ZenonT(60)
  <2> QED BY <1>3, <2>1, <2>2
<1>7. PICK q : q = plugin' /\ q = [r EXCEPT !.seen = "stopped"]
  BY <1>1, <1>5
<1>8. /\ q \in PluginType /\ q.current = None /\ q.seen = "stopped" /\ q.stop = P.current
      /\ q.seenStream = P.seenStream /\ q.isStream = P.isStream /\ ~q.pending /\ q.start = "no"
      /\ q.pause = P.pause /\ q.unpause = P.unpause /\ q.paused = P.paused
  BY <1>1, <1>3, <1>6, <1>7, ZenonT(60) DEF PluginType, MidiStates
<1>9. /\ midi' \in [state : MidiStates, song : Songs \cup {None}]
      /\ \/ midi'.state = "stopped" /\ midi'.song = None
         \/ midi'.state \in {"preplay", "playing"} /\ midi'.song \in Sequenced
  BY <1>1 DEF Silence, MidiStates, Songs
<1>10. pc' \in {"refresh", "relay"} /\ (pc' = "refresh" => status = "running")
  BY <1>1, <1>3 DEF NextTurn
<1>11. MusicTypeOK'
  <2>1. begun' \in 0 .. MaxSongs /\ crossed' \in BOOLEAN
    BY <1>1, <1>2 DEF MusicTypeOK, BgmAssumption, Crosses
  <2> QED BY <1>1, <1>2, <1>7, <1>8, <1>9, <1>10, <2>1 DEF MusicTypeOK
<1>12. ThreadInv'
  <2>1. World'
    BY <1>1, <1>3, <1>9 DEF World
  <2>2. Follows'
    BY <1>1, <1>3, <1>7, <1>8, <1>9, <1>10 DEF Follows, SawMidi, SawStream
  <2>3. Knows(plugin)'
    BY <1>1, <1>7, <1>8 DEF Knows, BgmAssumption, Songs
  <2>4. Flags'
    BY <1>1, <1>3, <1>7, <1>8, <1>10 DEF Flags
  <2>5. Presses'
    <3>1. crossed' <=> crossed \/ (P.current # None /\ (status = "paused" \/ request # "none"))
      BY <1>1, <1>7, <1>8 DEF Crosses
    <3>2. ~crossed' => ~WillPause
      BY <1>3, <3>1 DEF Presses, Pausing
    <3> QED BY <1>1, <1>3, <1>7, <1>8, <3>1, <3>2 DEF Presses, WillPause
  <2> QED BY <2>1, <2>2, <2>3, <2>4, <2>5 DEF ThreadInv
<1>13. Decided(plugin)'
  <2>1. Decided(q)
    BY <1>2, <1>3, <1>8, DecidedStop
  <2> QED BY <1>1, <1>4, <1>7, <2>1 DEF Decided
<1>14. Counted'
  <2>1. PluginDue(plugin)' \in {0, 1}
    <3>1. ~StreamDue(plugin)' /\ ~(plugin.start # "no")'
      BY <1>1, <1>7, <1>8 DEF StreamDue
    <3>2. One(MidiDue(plugin)') \in {0, 1} /\ One(StreamDue(plugin)') = 0 /\ One((plugin.start # "no")') = 0
      BY <3>1 DEF One
    <3> QED BY <3>2 DEF PluginDue
  <2> QED BY <1>1, <1>2, <1>4, <2>1, DueIs DEF Counted
<1>15. Suspension'
  <2>1. crossed => crossed'
    BY <1>1 DEF Crosses
  <2>2. \A k \in DOMAIN players : P.stop # players[k].id
    BY <1>2, <1>3 DEF WindowInv, Playing, BgmAssumption
  <2> QED BY <1>1, <1>2, <1>7, <1>8, <2>1, <2>2 DEF Suspension
<1> QED BY <1>4, <1>11, <1>12, <1>13, <1>14, <1>15 DEF MusicInv

LEMMA LoadGameKeeps ==
  ASSUME BgmAssumption, Ordinary, MusicInv, LoadGame
  PROVE  MusicInv'
<1> DEFINE e == [kind |-> "async", do |-> "stopAll"]
<1>1. /\ "game" \in course /\ request = "none" /\ begun < MaxSongs /\ begun' = begun + 1
      /\ midi' = Silence /\ stream' = Silence /\ plugin' = NewPlugin
      /\ events' = Append(events, e)
      /\ status' = "running" /\ pc' = "refresh" /\ crossed' = FALSE
      /\ UNCHANGED <<course, request, timer, players>>
  BY DEF LoadGame, window
<1>2. MusicTypeOK /\ ThreadInv /\ WindowInv /\ Decided(plugin) /\ Counted /\ Suspension
  BY DEF MusicInv
<1>3. "film" \notin course
  BY <1>1, <1>2, UseIs
<1>4. /\ e \in EventType /\ e.kind \notin Posted /\ e.kind = "async"
      /\ e \in Resumes /\ e \notin Starts /\ \A s : e \in StopsOf(s)
  BY DEF EventType, Posted, Resumes, Starts, StopsOf
<1>5. events \in Seq(EventType)
  BY <1>2 DEF MusicTypeOK
<1>6. /\ events' \in Seq(EventType) /\ DOMAIN events' = 1 .. Len(events) + 1
      /\ DOMAIN events = 1 .. Len(events) /\ Len(events) \in Nat
      /\ events'[Len(events) + 1] = e /\ \A i \in 1 .. Len(events) : events'[i] = events[i]
  BY <1>1, <1>4, <1>5, QueueOperations
<1>7. \A i \in DOMAIN events' : (i \in DOMAIN events /\ events'[i] = events[i]) \/ events'[i] = e
  BY <1>6
<1> HIDE DEF e
<1>8. /\ NewPlugin \in PluginType /\ NewPlugin.current = None /\ NewPlugin.seen = "stopped"
      /\ NewPlugin.seenStream = "stopped" /\ NewPlugin.stop = None /\ NewPlugin.start = "no"
      /\ ~NewPlugin.pending /\ ~NewPlugin.pause /\ ~NewPlugin.unpause /\ ~NewPlugin.paused
  BY DEF NewPlugin, PluginType, MidiStates, StreamStates
<1>9. \A s : ~WillPlay(s)'
  <2>1. \A s : ~Will(Append(events, e), s)
    BY <1>4, <1>5, WillSignalled
  <2> QED BY <1>1, <2>1 DEF WillPlay, Will, Ids, Waits
<1>10. MusicTypeOK'
  <2>1. begun' \in 0 .. MaxSongs
    BY <1>1, <1>2 DEF MusicTypeOK, BgmAssumption
  <2>2. Silence \in [state : MidiStates, song : Songs \cup {None}]
        /\ Silence \in [state : StreamStates, song : Songs \cup {None}]
    BY DEF Silence, MidiStates, StreamStates
  <2> QED BY <1>1, <1>2, <1>6, <1>8, <2>1, <2>2 DEF MusicTypeOK
<1>11. ThreadInv'
  <2>1. World'
    BY <1>1 DEF World, Silence
  <2>2. Follows'
    BY <1>1, <1>8 DEF Follows, SawMidi, SawStream, Silence
  <2>3. Knows(plugin)'
    BY <1>1, <1>8 DEF Knows, BgmAssumption, Songs
  <2>4. Flags'
    BY <1>1, <1>8 DEF Flags
  <2>5. Presses'
    BY <1>1, <1>8 DEF Presses, WillPause, Pausing
  <2> QED BY <2>1, <2>2, <2>3, <2>4, <2>5 DEF ThreadInv
<1>12. WindowInv'
  <2>1. WindowInv /\ timer = None
    BY <1>2, <1>3 DEF WindowInv, Film, FilmIs
  <2>2. Orderly'
    BY <1>4, <1>7, <2>1 DEF WindowInv, Orderly, OrderlyIs
  <2>3. Cleaning'
    BY <1>1, <1>4, <1>7, <2>1 DEF WindowInv, Cleaning, CleaningIs
  <2>4. Playing'
    BY <1>1, <2>1 DEF WindowInv, Playing
  <2>5. Film'
    <3>1. \A i \in DOMAIN events : ~(events[i].kind = "asyncStart" /\ events[i].flag)
      BY <1>3, <2>1 DEF WindowInv, Film, FilmIs
    <3>2. \A i \in DOMAIN events' : ~(events'[i].kind = "asyncStart" /\ events'[i].flag)
      BY <1>4, <1>7, <3>1
    <3> QED BY <1>1, <1>3, <2>1, <3>2 DEF Film, FilmIs
  <2> QED BY <2>2, <2>3, <2>4, <2>5 DEF WindowInv
<1>13. Decided(plugin)'
  BY <1>1, <1>8, <1>9 DEF Decided
<1>14. Counted'
  <2>1. PluginDue(plugin)' = 0
    BY <1>1, <1>8 DEF PluginDue, MidiDue, StreamDue, Silence, One
  <2>2. WindowDue' = WindowDue
    <3>1. Count(events', Starts) = Count(events, Starts)
      BY <1>1, <1>4, <1>5, Counts
    <3> QED BY <1>1, <3>1 DEF WindowDue
  <2> QED BY <1>1, <1>2, <2>1, <2>2, DueIs DEF Counted
<1>15. Suspension'
  <2>1. ~LastIs(events', Pauses, Resumes) /\ ~Missing(events', Resumes)
    <3>1. PICK A, B : A = Pauses /\ B = Resumes
      OBVIOUS
    <3>2. A \cap B = {} /\ B \cap A = {} /\ e \in B
      BY <1>4, <3>1, OrdersApart
    <3>3. ~LastIs(Append(events, e), A, B) /\ ~Missing(Append(events, e), B)
      BY <1>4, <1>5, <3>2, SignalledLast
    <3> QED BY <1>1, <3>1, <3>3
  <2> QED BY <1>1, <1>8, <2>1 DEF Suspension
<1> QED BY <1>10, <1>11, <1>12, <1>13, <1>14, <1>15 DEF MusicInv

\* A signal, and what it does to the queue.
LEMMA SignalIs ==
  ASSUME NEW q \in Seq(EventType), NEW e \in EventType
  PROVE  /\ q \o Signal(TRUE, e) = Append(q, e) /\ Append(q, e) \in Seq(EventType)
         /\ q \o Signal(FALSE, e) = q
  BY DEF Signal

LEMMA OrderlySignalled ==
  ASSUME NEW q \in Seq(EventType), NEW e \in EventType, e.kind \notin Posted,
         e.kind = "asyncStart" => e.id \in Replaced /\ e.file = e.id,
         e.kind = "asyncStop" => e.id \in Songs,
         OrderlyIs(q), CleaningIs(q)
  PROVE  OrderlyIs(Append(q, e)) /\ CleaningIs(Append(q, e))
<1> DEFINE r == Append(q, e)
<1>1. \A i \in DOMAIN r : (i \in DOMAIN q /\ r[i] = q[i]) \/ r[i] = e
  BY QueueOperations
<1> HIDE DEF r
<1>2. OrderlyIs(r)
  BY <1>1 DEF OrderlyIs, Posted
<1>3. CleaningIs(r)
  BY <1>1 DEF CleaningIs, Posted
<1> QED BY <1>2, <1>3 DEF r

LEMMA FilmSignalled ==
  ASSUME NEW q \in Seq(EventType), NEW e \in EventType, e.kind \notin Posted, FilmIs(q),
         "film" \in course => e \notin Pauses /\ e \notin Resumes,
         e.kind = "asyncStart" => ~e.flag /\ ("film" \in course => e.id \notin Delayed),
         timer # None /\ e \in EndsElse(timer.id) => ~Missing(q, EndsOf(timer.id)),
         (\E i \in DOMAIN q : q[i].kind = "asyncStart" /\ q[i].flag) /\ e \in EndsElse(q[1].id)
             => ~Missing(q, EndsOf(q[1].id))
  PROVE  FilmIs(Append(q, e))
<1> DEFINE r == Append(q, e)
<1>1. /\ r \in Seq(EventType) /\ DOMAIN q = 1 .. Len(q) /\ DOMAIN r = 1 .. Len(q) + 1
      /\ Len(q) \in Nat /\ r[Len(q) + 1] = e /\ \A i \in 1 .. Len(q) : r[i] = q[i]
  BY QueueOperations
<1>2. \A i \in DOMAIN r : (i \in DOMAIN q /\ r[i] = q[i]) \/ r[i] = e
  BY <1>1
<1>3. \A s : FirstIs(q, EndsOf(s), EndsElse(s)) /\ (e \in EndsElse(s) => ~Missing(q, EndsOf(s)))
                 => FirstIs(r, EndsOf(s), EndsElse(s))
  BY SignalledLast, OrdersApart
<1>4. ASSUME NEW A PROVE Missing(r, A) <=> Missing(q, A) /\ e \notin A
  <2>1. A \cap {} = {}
    OBVIOUS
  <2> QED BY <2>1, SignalledLast
<1>5. \A s \in Delayed : "film" \in course => e \notin StartsOf(s)
  BY DEF StartsOf, Starts, Posted
<1> HIDE DEF r
<1>7. timer # None =>
          /\ "film" \in course /\ timer.id \in Replaced \cap Delayed /\ timer.file = timer.id
          /\ FirstIs(r, EndsOf(timer.id), EndsElse(timer.id))
          /\ Missing(r, StartsOf(timer.id))
  BY <1>3, <1>4, <1>5 DEF FilmIs
<1>8. ASSUME NEW i \in DOMAIN r, r[i].kind = "asyncStart", r[i].flag
      PROVE  /\ i = 1 /\ timer = None /\ "film" \in course /\ r[1].id \in Delayed
             /\ \A j \in DOMAIN r : r[j].kind # "stop"
             /\ FirstIs(r, EndsOf(r[1].id), EndsElse(r[1].id))
             /\ Missing(Tail(r), StartsOf(r[1].id))
  <2>1. i \in DOMAIN q /\ q[i].kind = "asyncStart" /\ q[i].flag
    BY <1>2, <1>8
  <2>2. /\ i = 1 /\ timer = None /\ "film" \in course /\ q[1].id \in Delayed
        /\ \A j \in DOMAIN q : q[j].kind # "stop"
        /\ FirstIs(q, EndsOf(q[1].id), EndsElse(q[1].id))
        /\ Missing(Tail(q), StartsOf(q[1].id))
    BY <2>1 DEF FilmIs
  <2>3. r[1] = q[1] /\ Len(q) > 0 /\ q # <<>>
    BY <1>1, <2>1, <2>2
  <2>4. FirstIs(r, EndsOf(r[1].id), EndsElse(r[1].id))
    BY <1>3, <2>1, <2>2, <2>3
  <2>5. \A j \in DOMAIN r : r[j].kind # "stop"
    BY <1>2, <2>2 DEF Posted
  <2>6. Missing(Tail(r), StartsOf(r[1].id))
    <3>1. r # <<>> /\ Len(r) = Len(q) + 1
      BY <1>1, <2>3
    <3>2. /\ DOMAIN Tail(r) = 1 .. Len(q) /\ \A j \in 1 .. Len(q) : Tail(r)[j] = r[j + 1]
          /\ DOMAIN Tail(q) = 1 .. Len(q) - 1 /\ \A j \in 1 .. Len(q) - 1 : Tail(q)[j] = q[j + 1]
      BY <1>1, <2>3, <3>1, QueueOperations
    <3>3. ASSUME NEW j \in 1 .. Len(q) PROVE Tail(r)[j] \notin StartsOf(q[1].id)
      <4>1. CASE j = Len(q)
        <5>1. Tail(r)[j] = e
          BY <1>1, <3>2, <4>1
        <5> QED BY <1>5, <2>2, <5>1
      <4>2. CASE j # Len(q)
        <5>0. Len(q) \in Nat
          BY <1>1
        <5>1. j \in 1 .. Len(q) - 1 /\ j + 1 \in 1 .. Len(q)
          BY <4>2, <5>0
        <5>2. Tail(r)[j] = Tail(q)[j]
          BY <1>1, <3>2, <5>1
        <5> QED BY <2>2, <3>2, <5>1, <5>2 DEF Missing
      <4> QED BY <4>1, <4>2
    <3> QED BY <2>3, <3>2, <3>3 DEF Missing
  <2> QED BY <2>2, <2>3, <2>4, <2>5, <2>6
<1>9. "film" \in course => Missing(r, Pauses) /\ Missing(r, Resumes)
  BY <1>4 DEF FilmIs
<1>10. FilmIs(r)
  BY <1>7, <1>8, <1>9 DEF FilmIs
<1> QED BY <1>10 DEF r

\* What is said last of pauses.
LEMMA PauseSignalled ==
  ASSUME NEW q \in Seq(EventType), NEW e \in EventType, e.kind \notin Posted
  PROVE  /\ \A s : Missing(Append(q, e), StopsOf(s)) <=> Missing(q, StopsOf(s)) /\ e \notin StopsOf(s)
         /\ Missing(Append(q, e), Pauses) <=> Missing(q, Pauses) /\ e \notin Pauses
         /\ Missing(Append(q, e), Resumes) <=> Missing(q, Resumes) /\ e \notin Resumes
         /\ Missing(Append(q, e), Starts) <=> Missing(q, Starts) /\ e \notin Starts
         /\ e \in Pauses => LastIs(Append(q, e), Pauses, Resumes \cup Starts)
         /\ e \in Resumes => ~LastIs(Append(q, e), Pauses, Resumes)
         /\ e \notin Pauses \cup Resumes =>
                (LastIs(Append(q, e), Pauses, Resumes) <=> LastIs(q, Pauses, Resumes))
         /\ e \notin Pauses \cup Resumes \cup Starts =>
                (LastIs(Append(q, e), Pauses, Resumes \cup Starts)
                     <=> LastIs(q, Pauses, Resumes \cup Starts))
<1>1. Pauses \cap Resumes = {} /\ Pauses \cap (Resumes \cup Starts) = {}
  BY OrdersApart
<1>2. ASSUME NEW A PROVE Missing(Append(q, e), A) <=> Missing(q, A) /\ e \notin A
  <2>1. A \cap {} = {}
    OBVIOUS
  <2> QED BY <2>1, SignalledLast
<1>3. /\ e \in Resumes => ~LastIs(Append(q, e), Pauses, Resumes)
      /\ e \notin Pauses \cup Resumes =>
             (LastIs(Append(q, e), Pauses, Resumes) <=> LastIs(q, Pauses, Resumes))
  BY <1>1, SignalledLast
<1>4. /\ e \in Pauses => LastIs(Append(q, e), Pauses, Resumes \cup Starts)
      /\ e \notin Pauses \cup Resumes \cup Starts =>
             (LastIs(Append(q, e), Pauses, Resumes \cup Starts)
                  <=> LastIs(q, Pauses, Resumes \cup Starts))
  <2> DEFINE B == Resumes \cup Starts
  <2>1. Pauses \cap B = {}
    BY <1>1
  <2> HIDE DEF B
  <2>2. /\ e \in Pauses => LastIs(Append(q, e), Pauses, B)
        /\ e \notin Pauses \cup B => (LastIs(Append(q, e), Pauses, B) <=> LastIs(q, Pauses, B))
    BY <2>1, SignalledLast
  <2> QED BY <2>2 DEF B
<1> QED BY <1>2, <1>3, <1>4

\* The four signals one after the other.
LEMMA RelayKeeps ==
  ASSUME BgmAssumption, Ordinary, MusicInv, Relay
  PROVE  MusicInv'
<1> DEFINE P  == plugin
           e1 == [kind |-> "asyncStop", id |-> P.stop, file |-> None, flag |-> P.fade]
           e2 == [kind |-> "asyncStart", id |-> P.current, file |-> P.file, flag |-> P.start = "later"]
           e3 == [kind |-> "async", do |-> "pause"]
           e4 == [kind |-> "async", do |-> "unpause"]
           q1 == IF P.stop # None THEN Append(events, e1) ELSE events
           q2 == IF P.start # "no" THEN Append(q1, e2) ELSE q1
           q3 == IF P.pause THEN Append(q2, e3) ELSE q2
           q4 == IF P.unpause THEN Append(q3, e4) ELSE q3
<1>1. /\ pc = "relay" /\ pc' = "messages" /\ (Prompt /\ P.start = "later" => events = <<>>)
      /\ events' = events \o Signal(P.stop # None, e1) \o Signal(P.start # "no", e2)
                          \o Signal(P.pause, e3) \o Signal(P.unpause, e4)
      /\ plugin' = [P EXCEPT !.start = "no", !.stop = None, !.fade = FALSE,
                             !.pause = FALSE, !.unpause = FALSE,
                             !.paused = (@ \/ P.pause) /\ ~P.unpause]
      /\ UNCHANGED <<course, midi, stream, begun, status, request, timer, players, crossed>>
  BY DEF Relay, world, window
<1>2. MusicTypeOK /\ ThreadInv /\ WindowInv /\ Decided(plugin) /\ Counted /\ Suspension
  BY DEF MusicInv
<1>3. /\ World /\ Follows /\ Knows(plugin) /\ Flags /\ Presses /\ P \in PluginType
      /\ P.pause \in BOOLEAN /\ P.unpause \in BOOLEAN /\ P.paused \in BOOLEAN
      /\ P.stop \in Songs \cup {None} /\ P.current \in Songs \cup {None}
      /\ events \in Seq(EventType)
  BY <1>2 DEF ThreadInv, MusicTypeOK, PluginType
<1>4. e1 \in EventType /\ e2 \in EventType /\ e3 \in EventType /\ e4 \in EventType
  BY <1>3 DEF EventType, PluginType
<1>5. /\ e1.kind = "asyncStop" /\ e1.id = P.stop
      /\ e2.kind = "asyncStart" /\ e2.id = P.current /\ e2.file = P.file /\ e2.flag = (P.start = "later")
      /\ e3.kind = "async" /\ e3.do = "pause" /\ e4.kind = "async" /\ e4.do = "unpause"
  OBVIOUS
<1> HIDE DEF e1, e2, e3, e4
<1>6. /\ e1.kind \notin Posted /\ e2.kind \notin Posted /\ e3.kind \notin Posted /\ e4.kind \notin Posted
  BY <1>5 DEF Posted
<1>7. /\ \A s : /\ e1 \in EndsOf(s) <=> P.stop = s
                /\ e1 \in EndsElse(s) <=> P.stop # s
                /\ e1 \notin StartsOf(s)
                /\ e1 \in StopsOf(s) <=> P.stop = s
                /\ e2 \in StartsOf(s) <=> P.current = s
                /\ e2 \notin EndsOf(s) /\ e2 \notin EndsElse(s) /\ e2 \notin StopsOf(s)
                /\ e3 \notin StartsOf(s) /\ e3 \notin StopsOf(s) /\ e3 \notin EndsElse(s)
                /\ e4 \notin StartsOf(s) /\ e4 \notin StopsOf(s) /\ e4 \notin EndsElse(s)
      /\ e1 \notin Starts /\ e1 \notin Pauses /\ e1 \notin Resumes
      /\ e2 \in Starts /\ e2 \notin Pauses /\ e2 \notin Resumes
      /\ e3 \notin Starts /\ e3 \in Pauses /\ e3 \notin Resumes
      /\ e4 \notin Starts /\ e4 \notin Pauses /\ e4 \in Resumes
  BY <1>4, <1>5 DEF EndsOf, EndsElse, StartsOf, StopsOf, Starts, Pauses, Resumes
<1>8. /\ q1 \in Seq(EventType) /\ q2 \in Seq(EventType) /\ q3 \in Seq(EventType) /\ q4 \in Seq(EventType)
      /\ events' = q4
  <2>1. q1 = events \o Signal(P.stop # None, e1) /\ q1 \in Seq(EventType)
    BY <1>3, <1>4, SignalIs DEF Signal
  <2> HIDE DEF q1
  <2>2. q2 = q1 \o Signal(P.start # "no", e2) /\ q2 \in Seq(EventType)
    BY <1>4, <2>1, SignalIs DEF Signal
  <2> HIDE DEF q2
  <2>3. q3 = q2 \o Signal(P.pause, e3) /\ q3 \in Seq(EventType)
    BY <1>4, <2>2, SignalIs DEF Signal
  <2> HIDE DEF q3
  <2>4. q4 = q3 \o Signal(P.unpause, e4) /\ q4 \in Seq(EventType)
    BY <1>4, <2>3, SignalIs DEF Signal
  <2> QED BY <1>1, <2>1, <2>2, <2>3, <2>4
<1>9. PICK r1, r2, r3, r4 : r1 = q1 /\ r2 = q2 /\ r3 = q3 /\ r4 = q4
  OBVIOUS
<1>10. /\ P.stop = None => r1 = events
       /\ P.stop # None => r1 = Append(events, e1)
       /\ P.start = "no" => r2 = r1
       /\ P.start # "no" => r2 = Append(r1, e2)
       /\ ~P.pause => r3 = r2
       /\ P.pause => r3 = Append(r2, e3)
       /\ ~P.unpause => r4 = r3
       /\ P.unpause => r4 = Append(r3, e4)
       /\ r1 \in Seq(EventType) /\ r2 \in Seq(EventType) /\ r3 \in Seq(EventType) /\ r4 \in Seq(EventType)
       /\ events' = r4
  BY <1>8, <1>9
<1> HIDE DEF q1, q2, q3, q4
<1>11. PICK q : q = plugin'
  OBVIOUS
<1>12. /\ q \in PluginType /\ q.seen = P.seen /\ q.seenStream = P.seenStream /\ q.current = P.current
       /\ q.file = P.file /\ q.isStream = P.isStream /\ q.pending = P.pending /\ q.start = "no"
       /\ q.stop = None /\ ~q.pause /\ ~q.unpause
       /\ q.paused = ((P.paused \/ P.pause) /\ ~P.unpause)
  BY <1>1, <1>3, <1>11 DEF PluginType
<1>13. MusicTypeOK'
  BY <1>1, <1>2, <1>10, <1>11, <1>12 DEF MusicTypeOK
<1>14. ThreadInv'
  <2>1. World'
    BY <1>1, <1>3 DEF World
  <2>2. Follows'
    BY <1>1, <1>3, <1>11, <1>12 DEF Follows, SawMidi, SawStream
  <2>3. Knows(plugin)'
    BY <1>1, <1>3, <1>11, <1>12 DEF Knows
  <2>4. Flags'
    BY <1>1, <1>3, <1>11, <1>12 DEF Flags
  <2>5. Presses'
    <3>1. WillPause' <=> WillPause
      BY <1>3, <1>11, <1>12 DEF WillPause
    <3> QED BY <1>1, <1>3, <1>11, <1>12, <3>1 DEF Presses, WillPause, Pausing
  <2> QED BY <2>1, <2>2, <2>3, <2>4, <2>5 DEF ThreadInv
<1>15. \A s \in Songs : Will(r2, s) <=> P.current = s /\ ~P.pending
  <2>1. \A s \in Songs : P.stop # None => ~Will(r1, s)
    <3>1. SUFFICES ASSUME NEW s \in Songs, P.stop # None PROVE ~Will(r1, s)
      OBVIOUS
    <3>2. /\ e1 \in StopsOf(s) => ~Will(Append(events, e1), s)
          /\ e1 \notin StartsOf(s) \cup StopsOf(s) => (Will(Append(events, e1), s) <=> Will(events, s))
      BY <1>3, <1>4, <1>6, WillSignalled
    <3>3. Will(events, s) => P.stop = s
      BY <1>2, <3>1 DEF Decided, WillPlay
    <3> QED BY <1>7, <1>10, <3>1, <3>2, <3>3
  <2>2. CASE P.start = "no"
    <3>1. CASE P.stop = None
      BY <1>2, <1>10, <2>2, <3>1 DEF Decided, WillPlay
    <3>2. CASE P.stop # None
      <4>1. P.current = None \/ P.pending
        BY <1>2, <2>2, <3>2 DEF Decided
      <4> QED BY <1>10, <2>1, <2>2, <3>2, <4>1 DEF BgmAssumption
    <3> QED BY <3>1, <3>2
  <2>3. CASE P.start # "no"
    <3>1. \A s \in Songs : ~Will(r1, s)
      BY <1>2, <1>10, <2>1, <2>3 DEF Decided, WillPlay
    <3>2. P.current # None /\ ~P.pending
      BY <1>2, <2>3 DEF Decided
    <3>3. ASSUME NEW s \in Songs PROVE Will(r2, s) <=> P.current = s
      <4>1. /\ e2 \in StartsOf(s) => Will(Append(r1, e2), s)
            /\ e2 \notin StartsOf(s) \cup StopsOf(s) => (Will(Append(r1, e2), s) <=> Will(r1, s))
        BY <1>4, <1>6, <1>10, WillSignalled
      <4> QED BY <1>7, <1>10, <2>3, <3>1, <4>1
    <3> QED BY <3>2, <3>3
  <2> QED BY <2>2, <2>3
<1>16. Decided(plugin)'
  <2>1. ASSUME NEW s \in Songs PROVE Will(r4, s) <=> P.current = s /\ ~P.pending
    <3>1. Will(r3, s) <=> Will(r2, s)
      <4>1. e3 \notin StartsOf(s) \cup StopsOf(s)
        BY <1>7
      <4>2. Will(Append(r2, e3), s) <=> Will(r2, s)
        BY <1>4, <1>6, <1>10, <4>1, WillSignalled
      <4> QED BY <1>10, <4>2
    <3>2. Will(r4, s) <=> Will(r3, s)
      <4>1. e4 \notin StartsOf(s) \cup StopsOf(s)
        BY <1>7
      <4>2. Will(Append(r3, e4), s) <=> Will(r3, s)
        BY <1>4, <1>6, <1>10, <4>1, WillSignalled
      <4> QED BY <1>10, <4>2
    <3> QED BY <1>15, <3>1, <3>2
  <2>2. \A s : WillPlay(s)' <=> Will(r4, s)
    BY <1>1, <1>10 DEF WillPlay, Will, Waits
  <2> QED BY <1>11, <1>12, <2>1, <2>2 DEF Decided
<1>17. OrderlyIs(r4) /\ CleaningIs(r4)
  <2>1. OrderlyIs(r1) /\ CleaningIs(r1)
    BY <1>2, <1>3, <1>4, <1>5, <1>6, <1>10, OrderlySignalled DEF WindowInv, Orderly, Cleaning
  <2>2. OrderlyIs(r2) /\ CleaningIs(r2)
    <3>1. P.start # "no" => P.current \in Replaced /\ P.file = P.current
      BY <1>2, <1>3 DEF Decided, Knows
    <3> QED BY <1>4, <1>5, <1>6, <1>10, <2>1, <3>1, OrderlySignalled
  <2>3. OrderlyIs(r3) /\ CleaningIs(r3)
    BY <1>4, <1>5, <1>6, <1>10, <2>2, OrderlySignalled
  <2> QED BY <1>4, <1>5, <1>6, <1>10, <2>3, OrderlySignalled
<1>18. FilmIs(r4)
  <2>1. FilmIs(events) /\ OrderlyIs(events)
    BY <1>2 DEF WindowInv, Film, Orderly
  <2>2. "film" \in course => Prompt /\ ~P.pause /\ ~P.unpause
    BY <1>2, <1>3, UseIs DEF Flags
  <2>3. ASSUME NEW s, P.stop # None, P.stop # s, s \in Songs, Will(events, s) PROVE FALSE
    BY <1>2, <2>3 DEF Decided, WillPlay
  <2>4. ASSUME "film" \in course, Missing(events, EndsOf(timer.id)), timer # None, P.stop # None, P.stop # timer.id
        PROVE  FALSE
    <3>1. Missing(events, StartsOf(timer.id)) /\ Missing(events, Resumes) /\ timer.id \in Songs
      BY <2>1, <2>4 DEF FilmIs, BgmAssumption
    <3>2. Missing(events, StopsOf(timer.id))
      BY <2>4, <3>1 DEF Missing, StopsOf
    <3> QED BY <2>3, <2>4, <3>1, <3>2 DEF Will, Waits
  <2>5. ASSUME NEW i \in DOMAIN events, events[i].kind = "asyncStart", events[i].flag,
               Missing(events, EndsOf(events[1].id)), P.stop # None, P.stop # events[1].id
        PROVE  FALSE
    <3>1. i = 1 /\ "film" \in course /\ Missing(events, Resumes)
      BY <2>1, <2>5 DEF FilmIs
    <3>2. events[1].id \in Songs /\ events[1] \in StartsOf(events[1].id)
      BY <1>3, <2>1, <2>5, <3>1 DEF OrderlyIs, StartsOf, Starts, BgmAssumption
    <3>3. Missing(events, StopsOf(events[1].id))
      BY <2>5, <3>1 DEF Missing, StopsOf
    <3>4. LastIs(events, StartsOf(events[1].id), StopsOf(events[1].id))
      BY <2>5, <3>1, <3>2, <3>3 DEF LastIs, Missing
    <3> QED BY <2>3, <2>5, <3>2, <3>4 DEF Will
  <2>6. FilmIs(r1)
    <3>1. CASE P.stop = None
      BY <1>10, <2>1, <3>1
    <3>2. CASE P.stop # None
      <4>1. timer # None => "film" \in course
        BY <2>1 DEF FilmIs
      <4>2. timer # None /\ e1 \in EndsElse(timer.id) => ~Missing(events, EndsOf(timer.id))
        BY <1>7, <2>4, <3>2, <4>1
      <4>3. (\E i \in DOMAIN events : events[i].kind = "asyncStart" /\ events[i].flag) /\ e1 \in EndsElse(events[1].id)
                => ~Missing(events, EndsOf(events[1].id))
        BY <1>7, <2>5, <3>2
      <4>4. e1.kind # "asyncStart" /\ e1 \notin Pauses /\ e1 \notin Resumes
        BY <1>5, <1>7
      <4>5. FilmIs(Append(events, e1))
        BY <1>3, <1>4, <1>6, <2>1, <4>2, <4>3, <4>4, FilmSignalled
      <4> QED BY <1>10, <3>2, <4>5
    <3> QED BY <3>1, <3>2
  <2>7. FilmIs(r2)
    <3>1. CASE P.start = "no"
      BY <1>10, <2>6, <3>1
    <3>2. CASE P.start = "now"
      <4>1. ~e2.flag /\ ("film" \in course => e2.id \notin Delayed)
        BY <1>2, <1>5, <3>2 DEF Decided
      <4>2. e2 \notin Pauses /\ e2 \notin Resumes /\ \A s : e2 \notin EndsElse(s)
        BY <1>7
      <4>3. FilmIs(Append(r1, e2))
        BY <1>4, <1>6, <1>10, <2>6, <4>1, <4>2, FilmSignalled
      <4> QED BY <1>10, <3>2, <4>3
    <3>3. CASE P.start = "later"
      <4>1. P.stop = None /\ "film" \in course /\ P.current \in Delayed
            /\ \A s \in Songs : ~Will(events, s)
        BY <1>2, <3>3 DEF Decided, WillPlay
      <4>2. events = <<>>
        BY <1>1, <2>2, <3>3, <4>1
      <4>3. timer = None
        <5>1. SUFFICES ASSUME timer # None PROVE FALSE
          OBVIOUS
        <5>2. timer.id \in Songs
          BY <2>1, <5>1 DEF FilmIs, BgmAssumption
        <5>3. Will(events, timer.id)
          BY <4>2, <5>1, Empty DEF Will, Waits
        <5> QED BY <4>1, <5>2, <5>3
      <4>4. r2 = <<e2>>
        BY <1>10, <3>3, <4>1, <4>2
      <4>5. /\ DOMAIN r2 = {1} /\ r2[1] = e2 /\ Tail(r2) = <<>>
        BY <4>4
      <4>6. FirstIs(r2, EndsOf(e2.id), EndsElse(e2.id)) /\ Missing(r2, Pauses) /\ Missing(r2, Resumes)
        BY <1>7, <4>5 DEF FirstIs, Missing
      <4>7. Missing(Tail(r2), StartsOf(e2.id))
        BY <4>5, Empty
      <4> QED BY <1>5, <4>1, <4>3, <4>5, <4>6, <4>7 DEF FilmIs
    <3> QED BY <1>3, <3>1, <3>2, <3>3 DEF PluginType
  <2>8. FilmIs(r3)
    BY <1>4, <1>5, <1>6, <1>7, <1>10, <2>2, <2>7, FilmSignalled, ZenonT(60)
  <2> QED BY <1>4, <1>5, <1>6, <1>7, <1>10, <2>2, <2>8, FilmSignalled, ZenonT(60)
<1>19. WindowInv'
  <2>1. Orderly' /\ Cleaning'
    BY <1>1, <1>10, <1>17 DEF Orderly, OrderlyIs, Cleaning, CleaningIs
  <2>2. Film'
    BY <1>1, <1>10, <1>18 DEF Film, FilmIs
  <2>3. Playing'
    BY <1>1, <1>2 DEF WindowInv, Playing
  <2> QED BY <2>1, <2>2, <2>3 DEF WindowInv
<1>20. Counted'
  <2>0. ASSUME NEW r \in Seq(EventType), NEW e \in EventType
        PROVE  /\ Count(r, Starts) \in Nat
               /\ e \in Starts => Count(Append(r, e), Starts) = Count(r, Starts) + 1
               /\ e \notin Starts => Count(Append(r, e), Starts) = Count(r, Starts)
    <3>1. /\ Count(r, Starts) \in Nat
          /\ Count(Append(r, e), Starts) = Count(r, Starts) + (IF e \in Starts THEN 1 ELSE 0)
      BY Counts
    <3> QED BY <3>1
  <2>1. Count(r1, Starts) = Count(events, Starts)
    BY <1>3, <1>4, <1>7, <1>10, <2>0
  <2>2. Count(r2, Starts) = Count(r1, Starts) + One(P.start # "no")
    <3>1. Count(r1, Starts) \in Nat /\ Count(Append(r1, e2), Starts) = Count(r1, Starts) + 1
      BY <1>4, <1>7, <1>10, <2>0
    <3>2. CASE P.start = "no"
      BY <1>10, <3>1, <3>2 DEF One
    <3>3. CASE P.start # "no"
      BY <1>10, <3>1, <3>3 DEF One
    <3> QED BY <3>2, <3>3
  <2>3. Count(r3, Starts) = Count(r2, Starts)
    <3>1. Count(Append(r2, e3), Starts) = Count(r2, Starts)
      BY <1>4, <1>7, <1>10, <2>0
    <3> QED BY <1>10, <3>1
  <2>4. Count(r4, Starts) = Count(r3, Starts)
    <3>1. Count(Append(r3, e4), Starts) = Count(r3, Starts)
      BY <1>4, <1>7, <1>10, <2>0
    <3> QED BY <1>10, <3>1
  <2>5. PluginDue(plugin) = One(P.start # "no") + PluginDue(plugin)'
    <3>1. One((plugin.start # "no")') = 0 /\ MidiDue(plugin)' = MidiDue(plugin)
          /\ StreamDue(plugin)' = StreamDue(plugin)
      BY <1>1, <1>11, <1>12 DEF One, MidiDue, StreamDue
    <3>2. \A b : One(b) \in {0, 1}
      BY DEF One
    <3> QED BY <3>1, <3>2 DEF PluginDue
  <2>6. WindowDue' = WindowDue + One(P.start # "no")
    <3>1. Count(events', Starts) = Count(events, Starts) + One(P.start # "no")
      BY <1>10, <2>1, <2>2, <2>3, <2>4
    <3>2. Count(events, Starts) \in Nat /\ Cardinality(DOMAIN players) \in Nat /\ One(timer # None) \in Nat
          /\ One(P.start # "no") \in Nat
      <4>1. Cardinality(DOMAIN players) \in Nat
        BY <1>2, PlayersFinite
      <4> QED BY <1>3, <1>4, <2>0, <4>1 DEF One
    <3> QED BY <1>1, <3>1, <3>2 DEF WindowDue
  <2>7. WindowDue \in Nat /\ PluginDue(plugin)' \in Nat /\ One(P.start # "no") \in Nat
    <3>1. \A b : One(b) \in {0, 1}
      BY DEF One
    <3> QED BY <1>2, <3>1, DueIs DEF PluginDue
  <2> QED BY <1>1, <1>2, <2>5, <2>6, <2>7 DEF Counted
<1>21. Suspension'
  <2>1. SUFFICES ASSUME ~crossed PROVE Suspension'
    BY <1>1 DEF Suspension
  <2>2. ASSUME NEW r \in Seq(EventType), NEW e \in EventType, e.kind \notin Posted,
               NEW t, t = r \/ t = Append(r, e)
        PROVE  /\ \A s : Missing(t, StopsOf(s)) => Missing(r, StopsOf(s))
               /\ Missing(t, Pauses) => Missing(r, Pauses)
               /\ Missing(t, Resumes) => Missing(r, Resumes)
    <3>1. CASE t = r
      BY <3>1
    <3>2. CASE t = Append(r, e)
      BY <2>2, <3>2, PauseSignalled
    <3> QED BY <2>2, <3>1, <3>2
  <2>3. /\ \A s : Missing(r4, StopsOf(s)) => Missing(r1, StopsOf(s)) /\ Missing(events, StopsOf(s))
        /\ Missing(r4, Pauses) => Missing(events, Pauses)
        /\ Missing(r4, Resumes) => Missing(events, Resumes)
    <3>1. /\ \A s : Missing(r4, StopsOf(s)) => Missing(r3, StopsOf(s))
          /\ Missing(r4, Pauses) => Missing(r3, Pauses)
          /\ Missing(r4, Resumes) => Missing(r3, Resumes)
      BY <1>4, <1>6, <1>10, <2>2
    <3>2. /\ \A s : Missing(r3, StopsOf(s)) => Missing(r2, StopsOf(s))
          /\ Missing(r3, Pauses) => Missing(r2, Pauses)
          /\ Missing(r3, Resumes) => Missing(r2, Resumes)
      BY <1>4, <1>6, <1>10, <2>2
    <3>3. /\ \A s : Missing(r2, StopsOf(s)) => Missing(r1, StopsOf(s))
          /\ Missing(r2, Pauses) => Missing(r1, Pauses)
          /\ Missing(r2, Resumes) => Missing(r1, Resumes)
      BY <1>4, <1>6, <1>10, <2>2
    <3>4. /\ \A s : Missing(r1, StopsOf(s)) => Missing(events, StopsOf(s))
          /\ Missing(r1, Pauses) => Missing(events, Pauses)
          /\ Missing(r1, Resumes) => Missing(events, Resumes)
      BY <1>3, <1>4, <1>6, <1>10, <2>2
    <3> QED BY <3>1, <3>2, <3>3, <3>4
  <2>4. \A s : Missing(r4, StopsOf(s)) => P.stop = None \/ P.stop # s
    <3>1. ASSUME NEW s, P.stop # None, P.stop = s PROVE ~Missing(r1, StopsOf(s))
      <4>1. ~Missing(Append(events, e1), StopsOf(s))
        BY <1>3, <1>4, <1>6, <1>7, <3>1, PauseSignalled
      <4> QED BY <1>10, <3>1, <4>1
    <3> QED BY <2>3, <3>1
  <2>5. CASE P.pause
    <3>1. q.paused /\ r4 = Append(r2, e3)
      BY <1>3, <1>10, <1>12, <2>5 DEF Presses
    <3>2. LastIs(r4, Pauses, Resumes \cup Starts) /\ ~Missing(r4, Pauses)
      BY <1>4, <1>6, <1>7, <1>10, <3>1, PauseSignalled
    <3> QED BY <1>10, <1>11, <3>1, <3>2 DEF Suspension
  <2>6. CASE P.unpause
    <3>1. ~q.paused /\ r4 = Append(r3, e4)
      BY <1>10, <1>12, <2>6
    <3>2. ~LastIs(r4, Pauses, Resumes) /\ ~Missing(r4, Resumes)
      BY <1>4, <1>6, <1>7, <1>10, <3>1, PauseSignalled
    <3> QED BY <1>10, <1>11, <3>1, <3>2 DEF Suspension
  <2>7. CASE ~P.pause /\ ~P.unpause
    <3>1. r4 = r2 /\ (q.paused <=> P.paused)
      BY <1>3, <1>10, <1>12, <2>7
    <3>2. LastIs(r1, Pauses, Resumes) <=> LastIs(events, Pauses, Resumes)
      <4>1. LastIs(Append(events, e1), Pauses, Resumes) <=> LastIs(events, Pauses, Resumes)
        BY <1>3, <1>4, <1>6, <1>7, PauseSignalled
      <4> QED BY <1>10, <4>1
    <3>3. LastIs(r2, Pauses, Resumes) <=> LastIs(r1, Pauses, Resumes)
      <4>1. LastIs(Append(r1, e2), Pauses, Resumes) <=> LastIs(r1, Pauses, Resumes)
        BY <1>4, <1>6, <1>7, <1>10, PauseSignalled
      <4> QED BY <1>10, <4>1
    <3>4. ~P.paused => ~LastIs(r4, Pauses, Resumes)
      BY <1>2, <2>1, <3>1, <3>2, <3>3 DEF Suspension
    <3>5. ASSUME P.paused
          PROVE  \/ LastIs(r4, Pauses, Resumes \cup Starts)
                 \/ Missing(r4, Pauses) /\ Missing(r4, Resumes) /\ Missing(r4, Starts)
      <4>1. P.start = "no"
        BY <1>1, <1>3, <2>1, <2>7, <3>5 DEF Presses, Flags
      <4>2. /\ LastIs(Append(events, e1), Pauses, Resumes \cup Starts)
                  <=> LastIs(events, Pauses, Resumes \cup Starts)
            /\ Missing(Append(events, e1), Pauses) <=> Missing(events, Pauses)
            /\ Missing(Append(events, e1), Resumes) <=> Missing(events, Resumes)
            /\ Missing(Append(events, e1), Starts) <=> Missing(events, Starts)
        BY <1>3, <1>4, <1>6, <1>7, PauseSignalled
      <4>3. r4 = events \/ r4 = Append(events, e1)
        BY <1>10, <3>1, <4>1
      <4> QED BY <1>2, <2>1, <3>5, <4>2, <4>3 DEF Suspension
    <3>6. ASSUME Missing(r4, Pauses), Missing(r4, Resumes), NEW k \in DOMAIN players, players[k].playing,
                 Missing(r4, StopsOf(players[k].id))
          PROVE  players[k].suspended <=> P.paused
      <4>1. P.stop # players[k].id
        <5>1. players[k].id # None
          BY <1>2, <3>6 DEF WindowInv, Playing, BgmAssumption
        <5> QED BY <2>4, <3>6, <5>1
      <4> QED BY <1>2, <2>1, <2>3, <3>6, <4>1 DEF Suspension
    <3> QED BY <1>1, <1>10, <1>11, <3>1, <3>4, <3>5, <3>6 DEF Suspension
  <2> QED BY <2>5, <2>6, <2>7
<1> QED BY <1>13, <1>14, <1>16, <1>19, <1>20, <1>21 DEF MusicInv

-----------------------------------------------------------------------------
(* The steps of the window's thread.                                       *)

LEMMA WindowStep ==
  ASSUME MusicInv, UNCHANGED <<course, world, plugin, thread, crossed>>,
         MusicTypeOK', WindowInv', \A s \in Songs : WillPlay(s)' <=> WillPlay(s),
         WindowDue' <= WindowDue, Suspension'
  PROVE  MusicInv'
<1>1. UNCHANGED <<course, midi, stream, begun, plugin, pc, status, request, crossed>>
  BY DEF world, thread
<1>2. MusicTypeOK /\ ThreadInv /\ WindowInv /\ Decided(plugin) /\ Counted
  BY DEF MusicInv
<1>3. ThreadInv'
  <2>1. World'
    BY <1>1, <1>2 DEF ThreadInv, World
  <2>2. Follows'
    BY <1>1, <1>2 DEF ThreadInv, Follows, SawMidi, SawStream
  <2>3. Knows(plugin)'
    BY <1>1, <1>2 DEF ThreadInv, Knows
  <2>4. Flags'
    BY <1>1, <1>2 DEF ThreadInv, Flags
  <2>5. Presses'
    BY <1>1, <1>2 DEF ThreadInv, Presses, WillPause, Pausing
  <2> QED BY <2>1, <2>2, <2>3, <2>4, <2>5 DEF ThreadInv
<1>4. Decided(plugin)'
  BY <1>1, <1>2 DEF Decided
<1>5. Counted'
  <2>1. PluginDue(plugin)' = PluginDue(plugin)
    BY <1>1 DEF PluginDue, MidiDue, StreamDue
  <2>2. WindowDue' \in Nat
    <3>1. IsFiniteSet(DOMAIN players') /\ Cardinality(DOMAIN players') \in Nat
      <4>1. PICK keys \in SUBSET (1 .. MaxSongs) : players' \in [keys -> Player]
        BY DEF MusicTypeOK
      <4>2. DOMAIN players' \subseteq 1 .. MaxSongs
        BY <4>1
      <4>3. MaxSongs \in Nat
        BY BgmAssumption DEF BgmAssumption
      <4>4. IsFiniteSet(1 .. MaxSongs)
        BY <4>3, FS_Interval
      <4> QED BY <4>2, <4>4, FS_Subset, FS_CardinalityType
    <3>2. Count(events', Starts) \in Nat
      <4>1. events' \in Seq(EventType)
        BY DEF MusicTypeOK
      <4> QED BY <4>1, Counts
    <3>3. \A b : One(b) \in {0, 1}
      BY DEF One
    <3> QED BY <3>1, <3>2, <3>3 DEF WindowDue
  <2> QED BY <1>1, <1>2, <2>1, <2>2, DueIs DEF Counted
<1> QED BY <1>3, <1>4, <1>5 DEF MusicInv

\* The rest of the queue.
LEMMA TailIs ==
  ASSUME NEW q \in Seq(EventType), q # <<>>
  PROVE  /\ q[1] \in EventType /\ 1 \in DOMAIN q /\ Head(q) = q[1] /\ Tail(q) \in Seq(EventType)
         /\ \A i \in DOMAIN Tail(q) : i + 1 \in DOMAIN q /\ i + 1 # 1 /\ Tail(q)[i] = q[i + 1]
         /\ OrderlyIs(q) => OrderlyIs(Tail(q))
         /\ CleaningIs(q) => CleaningIs(Tail(q))
         /\ FilmIs(q) => \A i \in DOMAIN Tail(q) : ~(Tail(q)[i].kind = "asyncStart" /\ Tail(q)[i].flag)
<1> DEFINE n == Len(q)
           r == Tail(q)
<1>1. /\ n \in Nat /\ n > 0 /\ r \in Seq(EventType) /\ Head(q) = q[1] /\ q[1] \in EventType
      /\ DOMAIN q = 1 .. n /\ DOMAIN r = 1 .. n - 1 /\ \A i \in 1 .. n - 1 : r[i] = q[i + 1]
  BY QueueOperations
<1> HIDE DEF n, r
<1>2. 1 \in 1 .. n /\ \A i \in 1 .. n - 1 : i + 1 \in 1 .. n /\ i + 1 # 1
  BY <1>1
<1>3. \A i \in DOMAIN r : i + 1 \in DOMAIN q /\ i + 1 # 1 /\ r[i] = q[i + 1]
  BY <1>1, <1>2
<1>4. OrderlyIs(q) => OrderlyIs(r)
  BY <1>3 DEF OrderlyIs
<1>5. CleaningIs(q) => CleaningIs(r)
  <2>1. \A i, j \in DOMAIN r : i + 1 = j + 1 => i = j
    BY <1>1
  <2> QED BY <1>3, <2>1 DEF CleaningIs
<1>6. FilmIs(q) => \A i \in DOMAIN r : ~(r[i].kind = "asyncStart" /\ r[i].flag)
  BY <1>3 DEF FilmIs
<1> QED BY <1>1, <1>2, <1>3, <1>4, <1>5, <1>6 DEF r

\* A slot posts what is to be done.
LEMMA PostKeeps ==
  ASSUME BgmAssumption, MusicInv, events # <<>>, NEW f \in EventType,
         \/ /\ events[1].kind = "asyncStart" /\ ~events[1].flag /\ f.kind = "start" /\ ~f.flag
            /\ f.id = events[1].id /\ f.file = events[1].file
         \/ events[1].kind = "asyncStop" /\ f.kind = "stop" /\ f.id = events[1].id
         \/ events[1].kind = "async" /\ f.kind = "now" /\ f.do = events[1].do,
         events' = Append(Tail(events), f),
         UNCHANGED <<course, world, plugin, thread, crossed, timer, players>>
  PROVE  MusicInv'
<1> DEFINE e == events[1]
           q == events
           r == Append(Tail(events), f)
<1>1. UNCHANGED <<course, midi, stream, begun, plugin, pc, status, request, crossed, timer, players>>
      /\ events' = r
  BY DEF world, thread
<1>2. MusicTypeOK /\ WindowInv /\ Suspension /\ q \in Seq(EventType)
  BY DEF MusicInv, MusicTypeOK
<1>3. /\ e \in EventType /\ r \in Seq(EventType)
      /\ OrderlyIs(Tail(q)) /\ CleaningIs(Tail(q)) /\ Tail(q) \in Seq(EventType)
      /\ \A i \in DOMAIN Tail(q) : ~(Tail(q)[i].kind = "asyncStart" /\ Tail(q)[i].flag)
  BY <1>2, TailIs DEF WindowInv, Orderly, Cleaning, Film
<1>4. e.kind \notin Posted /\ f.kind \in Posted
  BY DEF Posted
<1>5. /\ \A s : /\ e \in StartsOf(s) <=> f \in StartsOf(s)
                /\ e \in StopsOf(s) <=> f \in StopsOf(s)
                /\ e \in EndsOf(s) <=> f \in EndsOf(s)
                /\ e \in EndsElse(s) <=> f \in EndsElse(s)
      /\ e \in Pauses <=> f \in Pauses
      /\ e \in Resumes <=> f \in Resumes
      /\ e \in Starts <=> f \in Starts
  BY <1>3 DEF StartsOf, StopsOf, EndsOf, EndsElse, Pauses, Resumes, Starts
<1>6. \A i \in DOMAIN r : (i \in DOMAIN Tail(q) /\ r[i] = Tail(q)[i]) \/ r[i] = f
  BY <1>3, QueueOperations
<1> HIDE DEF e, r
<1>7. ASSUME NEW A, NEW B, e \in A <=> f \in A, e \in B <=> f \in B
      PROVE  /\ LastIs(r, A, B) <=> LastIs(q, A, B)
             /\ FirstIs(r, A, B) <=> FirstIs(q, A, B)
             /\ Missing(r, A) <=> Missing(q, A)
  BY <1>2, <1>4, <1>7, Reposted DEF e, r
<1>8. MusicTypeOK'
  BY <1>1, <1>2, <1>3 DEF MusicTypeOK
<1>9. WindowInv'
  <2>1. OrderlyIs(r)
    <3>1. /\ f.kind \in {"asyncStart", "start"} => f.id \in Replaced /\ f.file = f.id
          /\ f.kind \in {"asyncStop", "stop"} => f.id \in Songs
          /\ f.kind = "start" => ~f.flag
      <4>1. OrderlyIs(q) /\ 1 \in DOMAIN q
        BY <1>2, TailIs DEF WindowInv, Orderly
      <4> QED BY <4>1 DEF OrderlyIs
    <3> QED BY <1>3, <1>6, <3>1 DEF OrderlyIs
  <2>2. CleaningIs(r)
    BY <1>3, <1>6 DEF CleaningIs
  <2>3. Film'
    <3>1. \A i \in DOMAIN r : ~(r[i].kind = "asyncStart" /\ r[i].flag)
      BY <1>3, <1>6
    <3>2. FilmIs(q)
      BY <1>2 DEF WindowInv, Film
    <3>3. timer # None =>
              /\ "film" \in course /\ timer.id \in Replaced \cap Delayed /\ timer.file = timer.id
              /\ FirstIs(r, EndsOf(timer.id), EndsElse(timer.id))
              /\ Missing(r, StartsOf(timer.id))
      BY <1>5, <1>7, <3>2 DEF FilmIs
    <3>4. "film" \in course => Missing(r, Pauses) /\ Missing(r, Resumes)
      BY <1>5, <1>7, <3>2 DEF FilmIs
    <3> QED BY <1>1, <3>1, <3>3, <3>4 DEF Film, FilmIs
  <2>4. Playing'
    BY <1>1, <1>2 DEF WindowInv, Playing
  <2> QED BY <1>1, <2>1, <2>2, <2>3, <2>4 DEF WindowInv, Orderly, OrderlyIs, Cleaning, CleaningIs
<1>10. \A s \in Songs : WillPlay(s)' <=> WillPlay(s)
  <2>1. ASSUME NEW s PROVE Will(r, s) <=> Will(q, s)
    BY <1>5, <1>7 DEF Will
  <2>2. \A s : WillPlay(s)' <=> Will(r, s)
    BY <1>1 DEF WillPlay, Will, Waits
  <2> QED BY <2>1, <2>2 DEF WillPlay
<1>11. WindowDue' <= WindowDue
  <2>1. Count(r, Starts) = Count(Tail(q), Starts) + (IF f \in Starts THEN 1 ELSE 0)
    <3>1. PICK t \in Seq(EventType) : t = Tail(q)
      BY <1>3
    <3>2. Count(Append(t, f), Starts) = Count(t, Starts) + (IF f \in Starts THEN 1 ELSE 0)
      BY Counts
    <3> QED BY <3>1, <3>2 DEF r
  <2>2. Count(q, Starts) = Count(Tail(q), Starts) + (IF e \in Starts THEN 1 ELSE 0)
    BY <1>2, Counts DEF e
  <2>3. Count(r, Starts) = Count(q, Starts)
    BY <1>5, <2>1, <2>2
  <2>4. WindowDue' = WindowDue
    BY <1>1, <2>3 DEF WindowDue
  <2> QED BY <1>2, <2>4, DueIs
<1>12. Suspension'
  <2>1. /\ LastIs(r, Pauses, Resumes) <=> LastIs(q, Pauses, Resumes)
        /\ LastIs(r, Pauses, Resumes \cup Starts) <=> LastIs(q, Pauses, Resumes \cup Starts)
        /\ Missing(r, Pauses) <=> Missing(q, Pauses)
        /\ Missing(r, Resumes) <=> Missing(q, Resumes)
        /\ Missing(r, Starts) <=> Missing(q, Starts)
        /\ \A s : Missing(r, StopsOf(s)) <=> Missing(q, StopsOf(s))
    BY <1>5, <1>7
  <2>2. SUFFICES ASSUME ~crossed PROVE Suspension'
    BY <1>1 DEF Suspension
  <2>3. /\ plugin.paused => \/ LastIs(r, Pauses, Resumes \cup Starts)
                            \/ Missing(r, Pauses) /\ Missing(r, Resumes) /\ Missing(r, Starts)
        /\ ~plugin.paused => ~LastIs(r, Pauses, Resumes)
    BY <1>2, <2>1, <2>2 DEF Suspension
  <2>4. Missing(r, Pauses) /\ Missing(r, Resumes) =>
            \A k \in DOMAIN players :
                players[k].playing /\ plugin.stop # players[k].id /\ Missing(r, StopsOf(players[k].id))
                    => (players[k].suspended <=> plugin.paused)
    BY <1>2, <2>1, <2>2 DEF Suspension
  <2> QED BY <1>1, <2>3, <2>4 DEF Suspension
<1> QED BY <1>8, <1>9, <1>10, <1>11, <1>12, WindowStep

\* The first event is carried out; it may leave players to be taken away.
Orders == {e \in EventType : e.kind # "cleanup"}

LEMMA OrdersAre ==
  /\ \A s : /\ StartsOf(s) \in SUBSET Orders /\ StopsOf(s) \in SUBSET Orders
            /\ EndsOf(s) \in SUBSET Orders /\ EndsElse(s) \in SUBSET Orders
  /\ Starts \in SUBSET Orders /\ Pauses \in SUBSET Orders /\ Resumes \in SUBSET Orders
  /\ Resumes \cup Starts \in SUBSET Orders
<1>1. Starts \in SUBSET Orders /\ Pauses \in SUBSET Orders /\ Resumes \in SUBSET Orders
  BY DEF Orders, Starts, Pauses, Resumes
<1>2. ASSUME NEW s
      PROVE  /\ StartsOf(s) \in SUBSET Orders /\ EndsOf(s) \in SUBSET Orders
             /\ EndsElse(s) \in SUBSET Orders
  BY DEF Orders, StartsOf, Starts, EndsOf, EndsElse
<1>3. ASSUME NEW s PROVE StopsOf(s) \in SUBSET Orders
  BY <1>1, <1>2 DEF StopsOf
<1> QED BY <1>1, <1>2, <1>3

LEMMA RestIs ==
  ASSUME NEW q \in Seq(EventType), q # <<>>, NEW c \in Seq(EventType),
         \A i \in DOMAIN c : c[i].kind = "cleanup",
         NEW r, r = Tail(q) \o c
  PROVE  /\ r \in Seq(EventType)
         /\ OrderlyIs(q) => OrderlyIs(r)
         /\ FilmIs(q) => \A i \in DOMAIN r : ~(r[i].kind = "asyncStart" /\ r[i].flag)
         /\ \A A \in SUBSET Orders : Missing(q, A) <=> q[1] \notin A /\ Missing(r, A)
         /\ \A A, B \in SUBSET Orders : q[1] \notin A \cup B =>
                /\ LastIs(r, A, B) <=> LastIs(q, A, B)
                /\ FirstIs(r, A, B) <=> FirstIs(q, A, B)
         /\ q[1].kind \in Posted => \A A, B \in SUBSET Orders : A \cap B = {} =>
                /\ q[1] \in B => (LastIs(r, A, B) <=> LastIs(q, A, B))
                /\ q[1] \in A => (LastIs(q, A, B) <=> LastIs(r, A, B) \/ Missing(r, B))
                /\ FirstIs(q, A, B) => q[1] \notin B
         /\ Count(q, Starts) = Count(r, Starts) + (IF q[1] \in Starts THEN 1 ELSE 0)
<1>1. PICK t : t = Tail(q)
  OBVIOUS
<1>2. t \in Seq(EventType) /\ (OrderlyIs(q) => OrderlyIs(t))
      /\ (FilmIs(q) => \A i \in DOMAIN t : ~(t[i].kind = "asyncStart" /\ t[i].flag))
  BY <1>1, TailIs
<1>3. r \in Seq(EventType) /\ \A i \in DOMAIN r : \/ i \in DOMAIN t /\ r[i] = t[i]
                                                  \/ \E j \in DOMAIN c : r[i] = c[j]
  <2>1. /\ r \in Seq(EventType) /\ DOMAIN r = 1 .. Len(t) + Len(c) /\ Len(t) \in Nat /\ Len(c) \in Nat
        /\ DOMAIN t = 1 .. Len(t) /\ DOMAIN c = 1 .. Len(c)
        /\ \A i \in 1 .. Len(t) : r[i] = t[i]
        /\ \A i \in Len(t) + 1 .. Len(t) + Len(c) : r[i] = c[i - Len(t)]
    BY <1>1, <1>2
  <2>2. ASSUME NEW i \in 1 .. Len(t) + Len(c), i \notin 1 .. Len(t)
        PROVE  i \in Len(t) + 1 .. Len(t) + Len(c) /\ i - Len(t) \in 1 .. Len(c)
    BY <2>1, <2>2
  <2> QED BY <2>1, <2>2
<1>4. OrderlyIs(t) => OrderlyIs(r)
  BY <1>3 DEF OrderlyIs
<1>5. FilmIs(q) => \A i \in DOMAIN r : ~(r[i].kind = "asyncStart" /\ r[i].flag)
  BY <1>2, <1>3
<1>6. ASSUME NEW A \in SUBSET Orders, NEW B \in SUBSET Orders
      PROVE  /\ LastIs(r, A, B) <=> LastIs(t, A, B)
             /\ FirstIs(r, A, B) <=> FirstIs(t, A, B)
             /\ Missing(r, A) <=> Missing(t, A)
  <2>1. \A i \in DOMAIN c : c[i] \notin A \cup B
    BY DEF Orders
  <2> QED BY <1>1, <1>2, <2>1, Joined
<1>7. ASSUME NEW A \in SUBSET Orders, NEW B \in SUBSET Orders, q[1] \notin A \cup B
      PROVE  /\ LastIs(t, A, B) <=> LastIs(q, A, B)
             /\ FirstIs(t, A, B) <=> FirstIs(q, A, B)
             /\ Missing(t, A) <=> Missing(q, A)
  BY <1>1, <1>7, TakenOther
<1>8. ASSUME NEW A \in SUBSET Orders, NEW B \in SUBSET Orders, q[1].kind \in Posted, A \cap B = {}
      PROVE  /\ q[1] \in B => (LastIs(t, A, B) <=> LastIs(q, A, B))
             /\ q[1] \in A => (LastIs(q, A, B) <=> LastIs(t, A, B) \/ Missing(t, B))
             /\ FirstIs(q, A, B) => q[1] \notin B
  BY <1>1, <1>8, Taken
<1>9. ASSUME NEW A \in SUBSET Orders PROVE Missing(q, A) <=> q[1] \notin A /\ Missing(t, A)
  <2>1. /\ 1 \in DOMAIN q /\ \A i \in DOMAIN t : i + 1 \in DOMAIN q /\ t[i] = q[i + 1]
    BY <1>1, TailIs
  <2>2. Missing(q, A) => q[1] \notin A /\ Missing(t, A)
    BY <2>1 DEF Missing
  <2>3. q[1] \notin A /\ Missing(t, A) => Missing(q, A)
    <3>1. {} \in SUBSET Orders
      OBVIOUS
    <3> QED BY <1>7, <3>1
  <2> QED BY <2>2, <2>3
<1>10. Count(q, Starts) = Count(r, Starts) + (IF q[1] \in Starts THEN 1 ELSE 0)
  <2>1. Count(q, Starts) = Count(t, Starts) + (IF q[1] \in Starts THEN 1 ELSE 0)
    BY <1>1, Counts
  <2>2. \A i \in DOMAIN c : c[i] \notin Starts
    BY DEF Starts
  <2>3. Count(r, Starts) = Count(t, Starts)
    <3>1. Count(t \o c, Starts) = Count(t, Starts)
      BY <1>2, <2>2, Counts
    <3> QED BY <1>1, <3>1
  <2> QED BY <2>1, <2>3
<1>11. \A A \in SUBSET Orders : Missing(q, A) <=> q[1] \notin A /\ Missing(r, A)
  BY <1>6, <1>9
<1>12. \A A, B \in SUBSET Orders : q[1] \notin A \cup B =>
           /\ LastIs(r, A, B) <=> LastIs(q, A, B)
           /\ FirstIs(r, A, B) <=> FirstIs(q, A, B)
  BY <1>6, <1>7
<1>13. q[1].kind \in Posted => \A A, B \in SUBSET Orders : A \cap B = {} =>
           /\ q[1] \in B => (LastIs(r, A, B) <=> LastIs(q, A, B))
           /\ q[1] \in A => (LastIs(q, A, B) <=> LastIs(r, A, B) \/ Missing(r, B))
           /\ FirstIs(q, A, B) => q[1] \notin B
  BY <1>6, <1>8
<1> QED BY <1>2, <1>3, <1>4, <1>5, <1>10, <1>11, <1>12, <1>13

LEMMA WillRest ==
  ASSUME NEW q \in Seq(EventType), q # <<>>, NEW c \in Seq(EventType),
         \A i \in DOMAIN c : c[i].kind = "cleanup",
         NEW r, r = Tail(q) \o c, NEW s
  PROVE  /\ q[1] \notin StartsOf(s) \cup StopsOf(s) =>
                /\ LastIs(r, StartsOf(s), StopsOf(s)) <=> LastIs(q, StartsOf(s), StopsOf(s))
                /\ Missing(r, StartsOf(s)) <=> Missing(q, StartsOf(s))
                /\ Missing(r, StopsOf(s)) <=> Missing(q, StopsOf(s))
         /\ q[1].kind \in Posted /\ q[1] \in StartsOf(s) =>
                /\ LastIs(q, StartsOf(s), StopsOf(s))
                       <=> LastIs(r, StartsOf(s), StopsOf(s)) \/ Missing(r, StopsOf(s))
                /\ ~Missing(q, StartsOf(s))
         /\ q[1].kind \in Posted /\ q[1] \in StopsOf(s) =>
                /\ LastIs(r, StartsOf(s), StopsOf(s)) <=> LastIs(q, StartsOf(s), StopsOf(s))
                /\ ~Missing(q, StopsOf(s))
<1>1. StartsOf(s) \in SUBSET Orders /\ StopsOf(s) \in SUBSET Orders /\ StartsOf(s) \cap StopsOf(s) = {}
  BY OrdersAre, OrdersApart
<1>2. PICK A, B : A = StartsOf(s) /\ B = StopsOf(s)
  OBVIOUS
<1>3. A \in SUBSET Orders /\ B \in SUBSET Orders /\ A \cap B = {}
  BY <1>1, <1>2
<1>4. Missing(q, A) <=> q[1] \notin A /\ Missing(r, A)
  BY <1>3, RestIs
<1>5. Missing(q, B) <=> q[1] \notin B /\ Missing(r, B)
  BY <1>3, RestIs
<1>6. q[1] \notin A \cup B => (LastIs(r, A, B) <=> LastIs(q, A, B))
  BY <1>3, RestIs
<1>7. q[1].kind \in Posted =>
          /\ q[1] \in B => (LastIs(r, A, B) <=> LastIs(q, A, B))
          /\ q[1] \in A => (LastIs(q, A, B) <=> LastIs(r, A, B) \/ Missing(r, B))
  BY <1>3, RestIs
<1> QED BY <1>2, <1>4, <1>5, <1>6, <1>7

LEMMA PauseRest ==
  ASSUME NEW q \in Seq(EventType), q # <<>>, NEW c \in Seq(EventType),
         \A i \in DOMAIN c : c[i].kind = "cleanup",
         NEW r, r = Tail(q) \o c
  PROVE  /\ Missing(q, Pauses) <=> q[1] \notin Pauses /\ Missing(r, Pauses)
         /\ Missing(q, Resumes) <=> q[1] \notin Resumes /\ Missing(r, Resumes)
         /\ Missing(q, Starts) <=> q[1] \notin Starts /\ Missing(r, Starts)
         /\ \A s : Missing(q, StopsOf(s)) <=> q[1] \notin StopsOf(s) /\ Missing(r, StopsOf(s))
         /\ q[1] \notin Pauses \cup Resumes => (LastIs(r, Pauses, Resumes) <=> LastIs(q, Pauses, Resumes))
         /\ q[1] \notin Pauses \cup Resumes \cup Starts =>
                (LastIs(r, Pauses, Resumes \cup Starts) <=> LastIs(q, Pauses, Resumes \cup Starts))
         /\ q[1].kind \in Posted =>
                /\ q[1] \in Resumes => (LastIs(r, Pauses, Resumes) <=> LastIs(q, Pauses, Resumes))
                /\ q[1] \in Pauses =>
                       (LastIs(q, Pauses, Resumes) <=> LastIs(r, Pauses, Resumes) \/ Missing(r, Resumes))
                /\ q[1] \in Resumes \cup Starts =>
                       (LastIs(r, Pauses, Resumes \cup Starts) <=> LastIs(q, Pauses, Resumes \cup Starts))
                /\ q[1] \in Pauses =>
                       (LastIs(q, Pauses, Resumes \cup Starts)
                            <=> \/ LastIs(r, Pauses, Resumes \cup Starts)
                                \/ Missing(r, Resumes) /\ Missing(r, Starts))
<1>1. PICK A, B, S, C : A = Pauses /\ B = Resumes /\ S = Starts /\ C = Resumes \cup Starts
  OBVIOUS
<1>2. /\ A \in SUBSET Orders /\ B \in SUBSET Orders /\ S \in SUBSET Orders /\ C \in SUBSET Orders
      /\ A \cap B = {} /\ A \cap C = {} /\ C = B \cup S
  BY <1>1, OrdersAre, OrdersApart
<1>3. /\ Missing(q, A) <=> q[1] \notin A /\ Missing(r, A)
      /\ Missing(q, B) <=> q[1] \notin B /\ Missing(r, B)
      /\ Missing(q, S) <=> q[1] \notin S /\ Missing(r, S)
  BY <1>2, RestIs
<1>4. \A s : Missing(q, StopsOf(s)) <=> q[1] \notin StopsOf(s) /\ Missing(r, StopsOf(s))
  <2>1. ASSUME NEW s PROVE Missing(q, StopsOf(s)) <=> q[1] \notin StopsOf(s) /\ Missing(r, StopsOf(s))
    <3>1. StopsOf(s) \in SUBSET Orders
      BY OrdersAre
    <3> QED BY <3>1, RestIs
  <2> QED BY <2>1
<1>5. /\ q[1] \notin A \cup B => (LastIs(r, A, B) <=> LastIs(q, A, B))
      /\ q[1].kind \in Posted =>
             /\ q[1] \in B => (LastIs(r, A, B) <=> LastIs(q, A, B))
             /\ q[1] \in A => (LastIs(q, A, B) <=> LastIs(r, A, B) \/ Missing(r, B))
  BY <1>2, RestIs
<1>6. /\ q[1] \notin A \cup C => (LastIs(r, A, C) <=> LastIs(q, A, C))
      /\ q[1].kind \in Posted =>
             /\ q[1] \in C => (LastIs(r, A, C) <=> LastIs(q, A, C))
             /\ q[1] \in A => (LastIs(q, A, C) <=> LastIs(r, A, C) \/ Missing(r, C))
  BY <1>2, RestIs
<1>7. Missing(r, C) <=> Missing(r, B) /\ Missing(r, S)
  BY <1>2 DEF Missing
<1> QED BY <1>1, <1>2, <1>3, <1>4, <1>5, <1>6, <1>7

\* Of the film.
LEMMA FilmRest ==
  ASSUME MusicTypeOK, Film, events # <<>>, NEW c \in Seq(EventType),
         \A i \in DOMAIN c : c[i].kind = "cleanup",
         events' = Tail(events) \o c, course' = course,
         timer' = None \/ (timer' = timer /\ events[1].kind \notin {"asyncStop", "stop"})
  PROVE  Film'
<1> DEFINE e == events[1]
<1>1. events \in Seq(EventType) /\ FilmIs(events)
  BY DEF MusicTypeOK, Film
<1>2. PICK r : r = Tail(events) \o c
  OBVIOUS
<1>3. \A i \in DOMAIN r : ~(r[i].kind = "asyncStart" /\ r[i].flag)
  BY <1>1, <1>2, RestIs
<1>4. \A A \in SUBSET Orders : Missing(events, A) => Missing(r, A)
  BY <1>1, <1>2, RestIs
<1>5. "film" \in course => Missing(r, Pauses) /\ Missing(r, Resumes)
  BY <1>1, <1>4, OrdersAre DEF FilmIs
<1>6. ASSUME timer # None, timer' = timer, e.kind \notin {"asyncStop", "stop"}
      PROVE  FirstIs(r, EndsOf(timer.id), EndsElse(timer.id)) /\ Missing(r, StartsOf(timer.id))
  <2>1. e \notin EndsOf(timer.id) \cup EndsElse(timer.id)
    BY <1>6 DEF EndsOf, EndsElse
  <2>2. EndsOf(timer.id) \in SUBSET Orders /\ EndsElse(timer.id) \in SUBSET Orders
        /\ StartsOf(timer.id) \in SUBSET Orders
    BY OrdersAre
  <2>3. FirstIs(r, EndsOf(timer.id), EndsElse(timer.id)) <=> FirstIs(events, EndsOf(timer.id), EndsElse(timer.id))
    BY <1>1, <1>2, <2>1, <2>2, RestIs
  <2> QED BY <1>1, <1>4, <1>6, <2>2, <2>3 DEF FilmIs
<1>7. timer' # None => timer' = timer /\ e.kind \notin {"asyncStop", "stop"}
  OBVIOUS
<1>8. events' = r
  BY <1>2
<1> HIDE DEF e
<1> QED BY <1>1, <1>3, <1>5, <1>6, <1>7, <1>8 DEF Film, FilmIs

\* A song for the film is put by.
LEMMA DelayKeeps ==
  ASSUME BgmAssumption, Ordinary, MusicInv, events # <<>>, events[1].kind = "asyncStart", events[1].flag,
         timer' = [id |-> events[1].id, file |-> events[1].file], events' = Tail(events),
         UNCHANGED <<course, world, plugin, thread, crossed, players>>
  PROVE  MusicInv'
<1> DEFINE q == events
<1>0. PICK u : u = events[1].id
  OBVIOUS
<1>1. UNCHANGED <<course, midi, stream, begun, plugin, pc, status, request, crossed, players>>
  BY DEF world, thread
<1>2. MusicTypeOK /\ ThreadInv /\ WindowInv /\ Suspension /\ q \in Seq(EventType)
  BY DEF MusicInv, MusicTypeOK
<1>3. PICK r : r = Tail(q) /\ events' = r
  OBVIOUS
<1>4. /\ r = Tail(q) \o <<>> /\ <<>> \in Seq(EventType) /\ \A i \in DOMAIN <<>> : <<>>[i].kind = "cleanup"
      /\ q[1] \in EventType /\ 1 \in DOMAIN q /\ r \in Seq(EventType)
  <2>1. q[1] \in EventType /\ 1 \in DOMAIN q /\ Tail(q) \in Seq(EventType)
    BY <1>2, TailIs
  <2>2. \A t \in Seq(EventType) : t \o <<>> = t
    OBVIOUS
  <2> QED BY <1>3, <2>1, <2>2
<1>5. /\ timer = None /\ "film" \in course /\ u \in Delayed
      /\ \A j \in DOMAIN q : q[j].kind # "stop"
      /\ FirstIs(q, EndsOf(u), EndsElse(u)) /\ Missing(r, StartsOf(u))
      /\ Missing(q, Pauses) /\ Missing(q, Resumes)
  BY <1>0, <1>2, <1>3, <1>4 DEF WindowInv, Film, FilmIs
<1>6. u \in Replaced /\ q[1].file = u /\ u \in Songs
  BY <1>0, <1>2, <1>4 DEF WindowInv, Orderly, OrderlyIs, BgmAssumption
<1>7. timer' \in [id : Songs, file : Songs] /\ timer'.id = u /\ timer'.file = u /\ timer' # None
  BY <1>0, <1>6 DEF BgmAssumption
<1>8. /\ q[1] \notin Pauses /\ q[1] \notin Resumes /\ q[1] \in Starts /\ q[1] \in StartsOf(u)
      /\ \A s : /\ q[1] \notin EndsOf(s) /\ q[1] \notin EndsElse(s) /\ q[1] \notin StopsOf(s)
                /\ s # u => q[1] \notin StartsOf(s)
  BY <1>0, <1>4 DEF Pauses, Resumes, Starts, StartsOf, EndsOf, EndsElse, StopsOf
<1>9. "pause" \notin course /\ ~plugin.paused
  BY <1>2, <1>5, UseIs DEF ThreadInv, Flags
<1>10. MusicTypeOK'
  BY <1>1, <1>2, <1>3, <1>4, <1>7 DEF MusicTypeOK
<1>11. WindowInv'
  <2>1. OrderlyIs(r)
    BY <1>2, <1>3, TailIs DEF WindowInv, Orderly
  <2>2. CleaningIs(r)
    BY <1>2, <1>3, TailIs DEF WindowInv, Cleaning
  <2>3. Film'
    <3>1. \A i \in DOMAIN r : ~(r[i].kind = "asyncStart" /\ r[i].flag)
      BY <1>2, <1>3, TailIs DEF WindowInv, Film
    <3>2. FirstIs(r, EndsOf(u), EndsElse(u))
      <4>1. q[1] \notin EndsOf(u) \cup EndsElse(u)
        BY <1>8
      <4> QED BY <1>2, <1>3, <1>5, <4>1, TakenOther
    <3>3. Missing(r, Pauses) /\ Missing(r, Resumes)
      BY <1>2, <1>4, <1>5, PauseRest
    <3> QED BY <1>1, <1>3, <1>5, <1>6, <1>7, <3>1, <3>2, <3>3 DEF Film, FilmIs
  <2>4. Playing'
    BY <1>1, <1>2 DEF WindowInv, Playing
  <2> QED BY <1>1, <1>3, <2>1, <2>2, <2>3, <2>4 DEF WindowInv, Orderly, OrderlyIs, Cleaning, CleaningIs
<1>12. \A s \in Songs : WillPlay(s)' <=> WillPlay(s)
  <2>1. ASSUME NEW s \in Songs, s # u PROVE WillPlay(s)' <=> WillPlay(s)
    <3>1. q[1] \notin StartsOf(s) \cup StopsOf(s)
      BY <1>8, <2>1
    <3>2. /\ LastIs(r, StartsOf(s), StopsOf(s)) <=> LastIs(q, StartsOf(s), StopsOf(s))
          /\ Missing(r, StartsOf(s)) <=> Missing(q, StartsOf(s))
          /\ Missing(r, StopsOf(s)) <=> Missing(q, StopsOf(s))
      BY <1>2, <1>4, <3>1, WillRest
    <3> QED BY <1>1, <1>3, <1>5, <1>7, <2>1, <3>2 DEF WillPlay, Will, Waits
  <2>2. LastIs(q, StartsOf(u), StopsOf(u)) <=> Missing(q, StopsOf(u))
    <3>1. ASSUME NEW j \in DOMAIN q, q[j] \in StopsOf(u) PROVE ~Sooner(q, j, 1)
      <4>1. q[j].kind = "asyncStop" /\ j \in 1 .. Len(q)
        BY <1>2, <1>5, <3>1 DEF StopsOf, EndsOf, Missing
      <4> QED BY <4>1 DEF Sooner, Posted
    <3>2. ASSUME NEW i \in DOMAIN q, q[i] \in StartsOf(u) PROVE i = 1
      <4>1. Len(q) \in Nat /\ DOMAIN q = 1 .. Len(q) /\ DOMAIN r = 1 .. Len(q) - 1
            /\ \A k \in 1 .. Len(q) - 1 : r[k] = q[k + 1]
        BY <1>2, <1>3, QueueOperations
      <4>2. ASSUME i # 1 PROVE FALSE
        <5>1. i - 1 \in 1 .. Len(q) - 1 /\ (i - 1) + 1 = i
          BY <4>1, <4>2
        <5> QED BY <1>5, <3>2, <4>1, <5>1 DEF Missing
      <4> QED BY <4>2
    <3> QED BY <1>4, <1>8, <3>1, <3>2 DEF LastIs, Missing
  <2>3. WillPlay(u)' <=> WillPlay(u)
    <3>1. Missing(q, StopsOf(u)) <=> Missing(r, StopsOf(u))
      BY <1>2, <1>4, <1>8, PauseRest
    <3>2. ~LastIs(r, StartsOf(u), StopsOf(u))
      BY <1>5 DEF LastIs, Missing
    <3>3. ~Missing(q, StartsOf(u))
      BY <1>4, <1>8 DEF Missing
    <3> QED BY <1>3, <1>5, <1>7, <2>2, <3>1, <3>2, <3>3 DEF WillPlay, Will, Waits
  <2> QED BY <2>1, <2>3
<1>13. WindowDue' <= WindowDue
  <2>1. Count(q, Starts) = Count(r, Starts) + 1
    BY <1>2, <1>4, <1>8, RestIs
  <2>2. Count(r, Starts) \in Nat /\ Cardinality(DOMAIN players) \in Nat
    BY <1>2, <1>4, Counts, PlayersFinite
  <2> QED BY <1>1, <1>3, <1>5, <1>7, <2>1, <2>2 DEF WindowDue, One
<1>14. Suspension'
  <2>1. SUFFICES ASSUME ~crossed PROVE Suspension'
    BY <1>1 DEF Suspension
  <2>2. Missing(r, Pauses) /\ ~LastIs(r, Pauses, Resumes)
    <3>1. Missing(r, Pauses)
      BY <1>2, <1>4, <1>5, PauseRest
    <3> QED BY <3>1 DEF LastIs, Missing
  <2>3. \A s : Missing(r, StopsOf(s)) => Missing(q, StopsOf(s))
    BY <1>2, <1>4, <1>8, PauseRest
  <2> QED BY <1>1, <1>2, <1>3, <1>5, <1>9, <2>1, <2>2, <2>3 DEF Suspension
<1> QED BY <1>1, <1>10, <1>11, <1>12, <1>13, <1>14, WindowStep

\* There is a number for another player.
LEMMA FreeKeyIs ==
  ASSUME MusicTypeOK
  PROVE  FreeKey \in 1 .. Cardinality(DOMAIN players) + 1 /\ FreeKey \notin DOMAIN players
<1>1. PICK K, n : K = DOMAIN players /\ n = Cardinality(K)
  OBVIOUS
<1>2. IsFiniteSet(K) /\ n \in Nat /\ K \subseteq Nat
  BY <1>1, PlayersFinite, PlayersAre
<1>3. PICK S : S = (1 .. n + 1) \ K
  OBVIOUS
<1>4. S # {}
  <2> SUFFICES ASSUME S = {} PROVE FALSE
    OBVIOUS
  <2>1. 1 .. n + 1 \in SUBSET K
    BY <1>3
  <2>2. Cardinality(1 .. n + 1) <= n
    BY <1>1, <1>2, <2>1, FS_Subset
  <2>3. Cardinality(1 .. n + 1) = n + 1
    <3>1. PICK m \in Nat : m = n + 1 /\ m > 0
      BY <1>2
    <3>2. Cardinality(1 .. m) = IF 1 > m THEN 0 ELSE m - 1 + 1
      BY FS_Interval
    <3> QED BY <3>1, <3>2
  <2> QED BY <1>2, <2>2, <2>3
<1>5. S \subseteq Nat
  BY <1>2, <1>3
<1>6. PICK x \in S : \A y \in S : <<y, x>> \notin OpToRel(<, Nat)
  BY <1>4, <1>5, NatLessThanWellFounded, WFMin
<1>7. \A y \in S : x <= y
  <2>1. ASSUME NEW y \in S, y < x PROVE FALSE
    <3>1. <<y, x>> \in Nat \X Nat /\ <<y, x>>[1] < <<y, x>>[2]
      BY <1>5, <2>1
    <3> QED BY <1>6, <3>1 DEF OpToRel
  <2> QED BY <1>5, <2>1
<1>8. x \in 1 .. n + 1 /\ x \notin K /\ \A j \in 1 .. x - 1 : j \in K
  <2>1. ASSUME NEW j \in 1 .. x - 1 PROVE j \in K
    <3>1. j \in 1 .. n + 1 /\ ~(x <= j)
      BY <1>2, <1>3
    <3> QED BY <1>3, <1>7, <3>1
  <2> QED BY <1>3, <2>1
<1>9. FreeKey = CHOOSE k \in 1 .. n + 1 : k \notin K /\ \A j \in 1 .. k - 1 : j \in K
  BY <1>1 DEF FreeKey
<1> QED BY <1>1, <1>8, <1>9

LEMMA TailRest ==
  ASSUME NEW q \in Seq(EventType), q # <<>>
  PROVE  /\ Tail(q) = Tail(q) \o <<>> /\ <<>> \in Seq(EventType)
         /\ \A i \in DOMAIN <<>> : <<>>[i].kind = "cleanup"
<1>1. \A t \in Seq(EventType) : t \o <<>> = t
  OBVIOUS
<1>2. Tail(q) \in Seq(EventType)
  BY TailIs
<1> QED BY <1>1, <1>2

\* A song is started.
LEMMA StartKeeps ==
  ASSUME BgmAssumption, MusicInv, events # <<>>, events[1].kind = "start", Start(events[1]),
         UNCHANGED <<course, world, plugin, thread, crossed>>
  PROVE  MusicInv'
<1>0. PICK q, e, u, K, n : q = events /\ e = events[1] /\ u = e.id /\ K = DOMAIN players /\ n = FreeKey
  OBVIOUS
<1>1. UNCHANGED <<course, midi, stream, begun, plugin, pc, status, request, crossed, timer>>
  BY DEF world, thread, Start
<1>2. /\ MusicTypeOK /\ ThreadInv /\ WindowInv /\ Counted /\ Suspension /\ q \in Seq(EventType) /\ q # <<>>
      /\ begun \in 0 .. MaxSongs /\ MaxSongs \in Nat
  BY <1>0 DEF MusicInv, MusicTypeOK, BgmAssumption
<1>3. PICK r : r = Tail(q) /\ events' = r
  BY <1>0 DEF Start
<1>4. /\ r = Tail(q) \o <<>> /\ <<>> \in Seq(EventType) /\ \A i \in DOMAIN <<>> : <<>>[i].kind = "cleanup"
      /\ e \in EventType /\ 1 \in DOMAIN q /\ r \in Seq(EventType) /\ q[1] = e
      /\ e.kind = "start" /\ e.kind \in Posted
  BY <1>0, <1>2, <1>3, TailIs, TailRest DEF Posted
<1>5. u \in Replaced /\ e.file = u /\ u \in Songs /\ ~e.flag
  BY <1>0, <1>2, <1>4 DEF WindowInv, Orderly, OrderlyIs, BgmAssumption
<1>6. /\ e \notin Pauses /\ e \notin Resumes /\ e \in Starts /\ e \in StartsOf(u)
      /\ \A s : /\ e \notin EndsOf(s) /\ e \notin EndsElse(s) /\ e \notin StopsOf(s)
                /\ s # u => e \notin StartsOf(s)
  BY <1>0, <1>4 DEF Pauses, Resumes, Starts, StartsOf, EndsOf, EndsElse, StopsOf
<1>7. PICK p : p = [id |-> u, file |-> u, playing |-> TRUE, suspended |-> FALSE, fading |-> FALSE,
                    done |-> FALSE]
  OBVIOUS
<1>8. p \in Player
  BY <1>5, <1>7 DEF Player, BgmAssumption
<1>9. /\ \A k \in K : players[k] \in Player
      /\ K \subseteq 1 .. MaxSongs /\ players = [k \in K |-> players[k]]
      /\ n \in 1 .. Cardinality(K) + 1 /\ n \notin K
      /\ IsFiniteSet(K) /\ Cardinality(K) \in Nat
  BY <1>0, <1>2, PlayersAre, FreeKeyIs, PlayersFinite
<1>10. PICK ps : ps = players'
  OBVIOUS
<1>11. u \in Ids(players) => ps = players
  BY <1>0, <1>10 DEF Start
<1>12. u \notin Ids(players) =>
           /\ ps = [k \in K \cup {n} |-> IF k = n THEN p ELSE players[k]]
           /\ DOMAIN ps = K \cup {n} /\ ps[n] = p /\ \A k \in K : ps[k] = players[k]
  BY <1>0, <1>5, <1>7, <1>9, <1>10 DEF Start
<1>13. Count(q, Starts) = Count(r, Starts) + 1 /\ Count(r, Starts) \in Nat
  BY <1>2, <1>4, <1>6, RestIs, Counts
<1>14. Cardinality(K) + 1 <= MaxSongs
  <2>1. WindowDue = Cardinality(K) + Count(q, Starts) + One(timer # None) /\ One(timer # None) \in Nat
    BY <1>0 DEF WindowDue, One
  <2>2. WindowDue + PluginDue(plugin) <= begun /\ PluginDue(plugin) \in Nat /\ begun <= MaxSongs
    BY <1>2, DueIs DEF Counted
  <2> QED BY <1>2, <1>9, <1>13, <2>1, <2>2
<1>15. K \cup {n} \in SUBSET (1 .. MaxSongs)
  BY <1>2, <1>9, <1>14
<1>16. MusicTypeOK'
  <2>1. \E keys \in SUBSET (1 .. MaxSongs) : ps \in [keys -> Player]
    <3>1. CASE u \in Ids(players)
      BY <1>2, <1>11, <3>1 DEF MusicTypeOK
    <3>2. CASE u \notin Ids(players)
      <4>1. ps \in [K \cup {n} -> Player]
        BY <1>8, <1>9, <1>12, <3>2
      <4> QED BY <1>15, <4>1
    <3> QED BY <3>1, <3>2
  <2>2. \A j, k \in DOMAIN ps : j # k /\ ps[j].playing /\ ps[k].playing => ps[j].id # ps[k].id
    <3>0. \A j, k \in K : j # k /\ players[j].playing /\ players[k].playing => players[j].id # players[k].id
      BY <1>0, <1>2 DEF MusicTypeOK
    <3>1. CASE u \in Ids(players)
      BY <1>0, <1>11, <3>0, <3>1
    <3>2. CASE u \notin Ids(players)
      <4>1. \A k \in K : players[k].playing => players[k].id # u
        BY <1>0, <3>2 DEF Ids
      <4> QED BY <1>7, <1>9, <1>12, <3>0, <3>2, <4>1
    <3> QED BY <3>1, <3>2
  <2> QED BY <1>1, <1>2, <1>3, <1>4, <1>10, <2>1, <2>2 DEF MusicTypeOK
<1>17. WindowInv'
  <2>1. OrderlyIs(r)
    BY <1>0, <1>2, <1>3, TailIs DEF WindowInv, Orderly
  <2>2. Cleaning'
    <3>1. CleaningIs(r)
      BY <1>0, <1>2, <1>3, TailIs DEF WindowInv, Cleaning
    <3>2. \A k \in K : k \in DOMAIN ps /\ ps[k] = players[k]
      BY <1>0, <1>11, <1>12
    <3> QED BY <1>0, <1>3, <1>10, <3>1, <3>2 DEF Cleaning, CleaningIs
  <2>3. Film'
    <3>1. Film /\ events # <<>> /\ events' = Tail(events) \o <<>> /\ course' = course /\ timer' = timer
          /\ events[1].kind \notin {"asyncStop", "stop"}
      BY <1>0, <1>1, <1>2, <1>3, <1>4 DEF WindowInv
    <3> QED BY <1>2, <1>4, <3>1, FilmRest
  <2>4. Playing'
    <3>1. \A k \in K : /\ players[k].file = players[k].id /\ players[k].id \in Replaced
                       /\ players[k].done \/ players[k].fading => ~players[k].playing
      BY <1>0, <1>2 DEF WindowInv, Playing
    <3>2. \A k \in DOMAIN ps : (k \in K /\ ps[k] = players[k]) \/ ps[k] = p
      BY <1>0, <1>11, <1>12
    <3> QED BY <1>5, <1>7, <1>10, <3>1, <3>2 DEF Playing
  <2> QED BY <1>3, <2>1, <2>2, <2>3, <2>4 DEF WindowInv, Orderly, OrderlyIs
<1>18. Ids(ps) = Ids(players) \cup {u}
  <2>1. CASE u \in Ids(players)
    BY <1>11, <2>1
  <2>2. CASE u \notin Ids(players)
    <3>1. DOMAIN ps = K \cup {n} /\ ps[n].playing /\ ps[n].id = u /\ \A k \in K : ps[k] = players[k]
      BY <1>7, <1>12, <2>2
    <3>2. ASSUME NEW s \in Ids(ps) PROVE s \in Ids(players) \cup {u}
      <4>1. PICK k \in DOMAIN ps : ps[k].playing /\ s = ps[k].id
        BY <3>2 DEF Ids
      <4> QED BY <1>0, <3>1, <4>1 DEF Ids
    <3>3. ASSUME NEW s \in Ids(players) PROVE s \in Ids(ps)
      <4>1. PICK k \in K : players[k].playing /\ s = players[k].id
        BY <1>0, <3>3 DEF Ids
      <4> QED BY <3>1, <4>1 DEF Ids
    <3>4. u \in Ids(ps)
      BY <3>1 DEF Ids
    <3> QED BY <3>2, <3>3, <3>4
  <2> QED BY <2>1, <2>2
<1>19. \A s \in Songs : WillPlay(s)' <=> WillPlay(s)
  <2>0. ASSUME NEW s
        PROVE  WillPlay(s)' <=> \/ LastIs(r, StartsOf(s), StopsOf(s))
                                \/ /\ Missing(r, StartsOf(s)) /\ Missing(r, StopsOf(s))
                                   /\ s \in Ids(players) \cup {u} \/ Waits(s)
    BY <1>1, <1>3, <1>10, <1>18 DEF WillPlay, Will, Waits, Ids
  <2>1. ASSUME NEW s \in Songs, s # u PROVE WillPlay(s)' <=> WillPlay(s)
    <3>1. q[1] \notin StartsOf(s) \cup StopsOf(s)
      BY <1>4, <1>6, <2>1
    <3>2. /\ LastIs(r, StartsOf(s), StopsOf(s)) <=> LastIs(q, StartsOf(s), StopsOf(s))
          /\ Missing(r, StartsOf(s)) <=> Missing(q, StartsOf(s))
          /\ Missing(r, StopsOf(s)) <=> Missing(q, StopsOf(s))
      BY <1>2, <1>4, <3>1, WillRest
    <3> QED BY <1>0, <2>0, <2>1, <3>2 DEF WillPlay, Will
  <2>2. WillPlay(u)' <=> WillPlay(u)
    <3>1. /\ LastIs(q, StartsOf(u), StopsOf(u))
                 <=> LastIs(r, StartsOf(u), StopsOf(u)) \/ Missing(r, StopsOf(u))
          /\ ~Missing(q, StartsOf(u))
      BY <1>2, <1>4, <1>6, WillRest
    <3>2. Missing(r, StopsOf(u)) => Missing(r, StartsOf(u)) \/ LastIs(r, StartsOf(u), StopsOf(u))
      BY DEF Missing, LastIs
    <3> QED BY <1>0, <2>0, <3>1, <3>2 DEF WillPlay, Will
  <2> QED BY <2>1, <2>2
<1>20. WindowDue' <= WindowDue
  <2>1. IsFiniteSet(DOMAIN ps) /\ Cardinality(DOMAIN ps) <= Cardinality(K) + 1 /\ Cardinality(DOMAIN ps) \in Nat
    <3>1. IsFiniteSet(K \cup {n}) /\ Cardinality(K \cup {n}) = Cardinality(K) + 1
      BY <1>9, FS_AddElement
    <3> QED BY <1>0, <1>9, <1>11, <1>12, <3>1
  <2>2. One(timer # None) \in Nat
    BY DEF One
  <2>3. WindowDue' = Cardinality(DOMAIN ps) + Count(r, Starts) + One(timer # None)
    BY <1>1, <1>3, <1>10 DEF WindowDue
  <2>4. WindowDue = Cardinality(K) + Count(q, Starts) + One(timer # None)
    BY <1>0 DEF WindowDue
  <2> QED BY <1>9, <1>13, <2>1, <2>2, <2>3, <2>4
<1>21. Suspension'
  <2>1. SUFFICES ASSUME ~crossed PROVE Suspension'
    BY <1>1 DEF Suspension
  <2>2. /\ Missing(q, Pauses) <=> Missing(r, Pauses)
        /\ Missing(q, Resumes) <=> Missing(r, Resumes)
        /\ ~Missing(q, Starts)
        /\ \A s : Missing(q, StopsOf(s)) <=> Missing(r, StopsOf(s))
        /\ LastIs(r, Pauses, Resumes) <=> LastIs(q, Pauses, Resumes)
        /\ LastIs(r, Pauses, Resumes \cup Starts) <=> LastIs(q, Pauses, Resumes \cup Starts)
    BY <1>2, <1>4, <1>6, PauseRest
  <2>3. /\ plugin.paused => LastIs(r, Pauses, Resumes \cup Starts)
        /\ ~plugin.paused => ~LastIs(r, Pauses, Resumes)
    BY <1>0, <1>2, <2>1, <2>2 DEF Suspension
  <2>4. Missing(r, Pauses) => ~plugin.paused
    BY <2>3 DEF Missing, LastIs
  <2>5. \A k \in DOMAIN ps : (k \in K /\ ps[k] = players[k]) \/ ps[k] = p
    BY <1>0, <1>11, <1>12
  <2>6. ASSUME Missing(r, Pauses), Missing(r, Resumes), NEW k \in DOMAIN ps, ps[k].playing,
               plugin.stop # ps[k].id, Missing(r, StopsOf(ps[k].id))
        PROVE  ps[k].suspended <=> plugin.paused
    <3>1. CASE ps[k] = p
      BY <1>7, <2>4, <2>6, <3>1
    <3>2. CASE k \in K /\ ps[k] = players[k]
      BY <1>0, <1>2, <2>1, <2>2, <2>6, <3>2 DEF Suspension
    <3> QED BY <2>5, <3>1, <3>2
  <2> QED BY <1>1, <1>3, <1>10, <2>3, <2>6 DEF Suspension
<1> QED BY <1>1, <1>16, <1>17, <1>19, <1>20, <1>21, WindowStep

\* The pause that comes next.
LEMMA PauseTaken ==
  ASSUME NEW q \in Seq(EventType), q # <<>>, NEW c \in Seq(EventType),
         \A i \in DOMAIN c : c[i].kind = "cleanup",
         NEW r, r = Tail(q) \o c, q[1].kind \in Posted, q[1] \in Pauses
  PROVE  /\ LastIs(q, Pauses, Resumes) <=> LastIs(r, Pauses, Resumes) \/ Missing(r, Resumes)
         /\ LastIs(q, Pauses, Resumes \cup Starts)
                <=> \/ LastIs(r, Pauses, Resumes \cup Starts)
                    \/ Missing(r, Resumes) /\ Missing(r, Starts)
<1>1. PICK A, B, C : A = Pauses /\ B = Resumes /\ C = Resumes \cup Starts
  OBVIOUS
<1>2. A \in SUBSET Orders /\ B \in SUBSET Orders /\ C \in SUBSET Orders /\ A \cap B = {} /\ A \cap C = {}
  BY <1>1, OrdersAre, OrdersApart
<1>3. LastIs(q, A, B) <=> LastIs(r, A, B) \/ Missing(r, B)
  BY <1>1, <1>2, RestIs
<1>4. LastIs(q, A, C) <=> LastIs(r, A, C) \/ Missing(r, C)
  BY <1>1, <1>2, RestIs
<1>5. Missing(r, C) <=> Missing(r, Resumes) /\ Missing(r, Starts)
  BY <1>1 DEF Missing
<1> QED BY <1>1, <1>3, <1>4, <1>5

\* The players are paused, or go on.
LEMMA SuspendKeeps ==
  ASSUME BgmAssumption, MusicInv, events # <<>>, events[1].kind = "now", events[1].do # "stopAll",
         Suspend(events[1].do = "pause"), UNCHANGED <<course, world, plugin, thread, crossed>>
  PROVE  MusicInv'
<1>0. PICK q, e, K, y, ps : q = events /\ e = events[1] /\ K = DOMAIN players /\ y = (e.do = "pause")
                            /\ ps = players'
  OBVIOUS
<1>1. UNCHANGED <<course, midi, stream, begun, plugin, pc, status, request, crossed, timer>>
  BY DEF world, thread, Suspend
<1>2. MusicTypeOK /\ ThreadInv /\ WindowInv /\ Suspension /\ q \in Seq(EventType) /\ q # <<>>
  BY <1>0 DEF MusicInv, MusicTypeOK
<1>3. PICK r : r = Tail(q) /\ events' = r
  BY <1>0 DEF Suspend
<1>4. /\ r = Tail(q) \o <<>> /\ <<>> \in Seq(EventType) /\ \A i \in DOMAIN <<>> : <<>>[i].kind = "cleanup"
      /\ e \in EventType /\ 1 \in DOMAIN q /\ r \in Seq(EventType) /\ q[1] = e
      /\ e.kind = "now" /\ e.kind \in Posted /\ e.do # "stopAll" /\ y \in BOOLEAN
  BY <1>0, <1>2, <1>3, TailIs, TailRest DEF Posted
<1>5. /\ y => e \in Pauses /\ e \notin Resumes
      /\ ~y => e \notin Pauses /\ e \in Resumes
      /\ e \notin Starts
      /\ \A s : e \notin StopsOf(s) /\ e \notin StartsOf(s)
  BY <1>0, <1>4 DEF Pauses, Resumes, Starts, StartsOf, EndsOf, StopsOf
<1>6. /\ \A k \in K : players[k] \in Player
      /\ K \subseteq 1 .. MaxSongs /\ players = [k \in K |-> players[k]]
  BY <1>0, <1>2, PlayersAre
<1>7. /\ DOMAIN ps = K
      /\ \A k \in K : /\ ps[k] \in Player /\ ps[k].suspended = y
                      /\ ps[k].playing = players[k].playing /\ ps[k].id = players[k].id
                      /\ ps[k].file = players[k].file /\ ps[k].done = players[k].done
                      /\ ps[k].fading = players[k].fading
      /\ ps \in [K -> Player]
  <2>1. ps = [k \in K |-> [players[k] EXCEPT !.suspended = y]]
    BY <1>0 DEF Suspend
  <2>2. \A k \in K : ps[k] = [players[k] EXCEPT !.suspended = y]
    BY <2>1
  <2>3. ASSUME NEW k \in K
        PROVE  /\ ps[k] \in Player /\ ps[k].suspended = y
               /\ ps[k].playing = players[k].playing /\ ps[k].id = players[k].id
               /\ ps[k].file = players[k].file /\ ps[k].done = players[k].done
               /\ ps[k].fading = players[k].fading
    <3>1. PICK p \in Player : p = players[k]
      BY <1>6
    <3>2. ps[k] = [p EXCEPT !.suspended = y]
      BY <2>2, <3>1
    <3>3. [p EXCEPT !.suspended = TRUE] \in Player /\ [p EXCEPT !.suspended = FALSE] \in Player
      BY DEF Player
    <3>4. ps[k] \in Player
      BY <1>4, <3>2, <3>3
    <3> QED BY <3>1, <3>2, <3>4 DEF Player
  <2> QED BY <2>1, <2>3
<1>8. Ids(ps) = Ids(players)
  BY <1>0, <1>7 DEF Ids
<1>9. MusicTypeOK'
  <2>1. \E keys \in SUBSET (1 .. MaxSongs) : ps \in [keys -> Player]
    BY <1>6, <1>7
  <2>2. \A j, k \in DOMAIN ps : j # k /\ ps[j].playing /\ ps[k].playing => ps[j].id # ps[k].id
    BY <1>0, <1>2, <1>7 DEF MusicTypeOK
  <2> QED BY <1>0, <1>1, <1>2, <1>3, <1>4, <2>1, <2>2 DEF MusicTypeOK
<1>10. WindowInv'
  <2>1. OrderlyIs(r)
    BY <1>0, <1>2, <1>3, TailIs DEF WindowInv, Orderly
  <2>2. Cleaning'
    <3>1. CleaningIs(r)
      BY <1>0, <1>2, <1>3, TailIs DEF WindowInv, Cleaning
    <3> QED BY <1>0, <1>3, <1>7, <3>1 DEF Cleaning, CleaningIs
  <2>3. Film'
    <3>1. Film /\ events # <<>> /\ events' = Tail(events) \o <<>> /\ course' = course /\ timer' = timer
          /\ events[1].kind \notin {"asyncStop", "stop"}
      BY <1>0, <1>1, <1>2, <1>3, <1>4 DEF WindowInv
    <3> QED BY <1>2, <1>4, <3>1, FilmRest
  <2>4. Playing'
    BY <1>0, <1>2, <1>7 DEF WindowInv, Playing
  <2> QED BY <1>3, <2>1, <2>2, <2>3, <2>4 DEF WindowInv, Orderly, OrderlyIs
<1>11. \A s \in Songs : WillPlay(s)' <=> WillPlay(s)
  <2>1. ASSUME NEW s \in Songs PROVE WillPlay(s)' <=> WillPlay(s)
    <3>1. q[1] \notin StartsOf(s) \cup StopsOf(s)
      BY <1>4, <1>5
    <3>2. /\ LastIs(r, StartsOf(s), StopsOf(s)) <=> LastIs(q, StartsOf(s), StopsOf(s))
          /\ Missing(r, StartsOf(s)) <=> Missing(q, StartsOf(s))
          /\ Missing(r, StopsOf(s)) <=> Missing(q, StopsOf(s))
      BY <1>2, <1>4, <3>1, WillRest
    <3>3. Ids(players)' = Ids(players)
      BY <1>0, <1>8 DEF Ids
    <3> QED BY <1>0, <1>1, <1>3, <3>2, <3>3 DEF WillPlay, Will, Waits
  <2> QED BY <2>1
<1>12. WindowDue' <= WindowDue
  <2>1. Count(q, Starts) = Count(r, Starts) + 0
    BY <1>2, <1>4, <1>5, RestIs, ZenonT(60)
  <2>2. Count(r, Starts) \in Nat
    BY <1>4, Counts
  <2>3. WindowDue' = WindowDue
    BY <1>0, <1>1, <1>3, <1>7, <2>1, <2>2 DEF WindowDue
  <2> QED BY <1>2, <2>3, DueIs
<1>13. Suspension'
  <2>1. SUFFICES ASSUME ~crossed PROVE Suspension'
    BY <1>1 DEF Suspension
  <2>2. PICK P, R, C : P = Pauses /\ R = Resumes /\ C = Resumes \cup Starts
    OBVIOUS
  <2>3. /\ Missing(q, P) <=> ~y /\ Missing(r, P)
        /\ Missing(q, R) <=> y /\ Missing(r, R)
        /\ \A s : Missing(q, StopsOf(s)) <=> Missing(r, StopsOf(s))
        /\ ~y => (LastIs(r, P, R) <=> LastIs(q, P, R))
        /\ ~y => (LastIs(r, P, C) <=> LastIs(q, P, C))
        /\ y => (LastIs(q, P, R) <=> LastIs(r, P, R) \/ Missing(r, R))
        /\ y => (LastIs(q, P, C) <=> LastIs(r, P, C) \/ (Missing(r, R) /\ Missing(r, Starts)))
    <3>1. CASE y
      <4>1. /\ Missing(q, P) <=> e \notin P /\ Missing(r, P)
            /\ Missing(q, R) <=> e \notin R /\ Missing(r, R)
        BY <1>2, <1>4, <2>2, PauseRest
      <4>2. \A s : Missing(q, StopsOf(s)) <=> e \notin StopsOf(s) /\ Missing(r, StopsOf(s))
        BY <1>2, <1>4, PauseRest
      <4>3. /\ LastIs(q, P, R) <=> LastIs(r, P, R) \/ Missing(r, R)
            /\ LastIs(q, P, C) <=> LastIs(r, P, C) \/ (Missing(r, R) /\ Missing(r, Starts))
        <5>1. q[1] \in Pauses /\ q[1].kind \in Posted
          BY <1>4, <1>5, <3>1
        <5>2. LastIs(q, Pauses, Resumes) <=> LastIs(r, Pauses, Resumes) \/ Missing(r, Resumes)
          BY <1>2, <1>4, <5>1, PauseTaken
        <5>3. LastIs(q, Pauses, Resumes \cup Starts)
                  <=> \/ LastIs(r, Pauses, Resumes \cup Starts)
                      \/ Missing(r, Resumes) /\ Missing(r, Starts)
          BY <1>2, <1>4, <5>1, PauseTaken
        <5> QED BY <2>2, <5>2, <5>3
      <4> QED BY <1>5, <2>2, <3>1, <4>1, <4>2, <4>3
    <3>2. CASE ~y
      BY <1>2, <1>4, <1>5, <2>2, <3>2, PauseRest
    <3> QED BY <1>4, <3>1, <3>2
  <2>4. /\ plugin.paused => LastIs(q, P, C) \/ (Missing(q, P) /\ Missing(q, R) /\ Missing(q, Starts))
        /\ ~plugin.paused => ~LastIs(q, P, R)
    BY <1>0, <1>2, <2>1, <2>2 DEF Suspension
  <2>5. /\ Missing(r, P) => ~LastIs(r, P, C) /\ ~LastIs(r, P, R)
        /\ Missing(r, R) /\ Missing(r, Starts) => Missing(r, P) \/ LastIs(r, P, C)
    <3>1. Missing(r, R) /\ Missing(r, Starts) => \A i \in DOMAIN r : r[i] \notin C
      BY <2>2 DEF Missing
    <3> QED BY <3>1 DEF Missing, LastIs
  <2>6. /\ plugin.paused => LastIs(r, P, C) \/ (Missing(r, P) /\ Missing(r, R) /\ Missing(r, Starts))
        /\ ~plugin.paused => ~LastIs(r, P, R)
    BY <1>4, <2>3, <2>4, <2>5
  <2>7. Missing(r, P) /\ Missing(r, R) => (y <=> plugin.paused)
    BY <1>4, <2>3, <2>4, <2>5
  <2>8. ASSUME Missing(r, P), Missing(r, R), NEW k \in DOMAIN ps
        PROVE  ps[k].suspended <=> plugin.paused
    BY <1>7, <2>7, <2>8
  <2> QED BY <1>0, <1>1, <1>3, <2>2, <2>6, <2>8 DEF Suspension
<1> QED BY <1>1, <1>9, <1>10, <1>11, <1>12, <1>13, WindowStep


\* A player that is done is taken away.
LEMMA CleanupKeeps ==
  ASSUME BgmAssumption, MusicInv, events # <<>>, events[1].kind = "cleanup", Cleanup(events[1].key),
         UNCHANGED <<course, world, plugin, thread, crossed>>
  PROVE  MusicInv'
<1>0. PICK q, e, K, x, ps : q = events /\ e = events[1] /\ K = DOMAIN players /\ x = e.key
                            /\ ps = players'
  OBVIOUS
<1>1. UNCHANGED <<course, midi, stream, begun, plugin, pc, status, request, crossed, timer>>
  BY DEF world, thread, Cleanup
<1>2. MusicTypeOK /\ ThreadInv /\ WindowInv /\ Suspension /\ q \in Seq(EventType) /\ q # <<>>
  BY <1>0 DEF MusicInv, MusicTypeOK
<1>3. PICK r : r = Tail(q) /\ events' = r
  BY <1>0 DEF Cleanup
<1>4. /\ r = Tail(q) \o <<>> /\ <<>> \in Seq(EventType) /\ \A i \in DOMAIN <<>> : <<>>[i].kind = "cleanup"
      /\ e \in EventType /\ 1 \in DOMAIN q /\ r \in Seq(EventType) /\ q[1] = e
      /\ e.kind = "cleanup"
      /\ \A i \in DOMAIN r : i + 1 \in DOMAIN q /\ i + 1 # 1 /\ r[i] = q[i + 1]
  BY <1>0, <1>2, <1>3, TailIs, TailRest
<1>5. /\ e \notin Pauses /\ e \notin Resumes /\ e \notin Starts
      /\ \A s : e \notin StopsOf(s) /\ e \notin StartsOf(s)
  BY <1>0, <1>4 DEF Pauses, Resumes, Starts, StartsOf, EndsOf, StopsOf
<1>6. /\ \A k \in K : players[k] \in Player
      /\ K \subseteq 1 .. MaxSongs /\ players = [k \in K |-> players[k]]
      /\ IsFiniteSet(K) /\ Cardinality(K) \in Nat
  BY <1>0, <1>2, PlayersAre, PlayersFinite
<1>7. x \in K /\ players[x].done /\ ~players[x].playing
      /\ \A i \in DOMAIN r : r[i].kind = "cleanup" => r[i].key \in K \ {x}
  <2>1. CleaningIs(q)
    BY <1>0, <1>2 DEF WindowInv, Cleaning
  <2>2. x \in K /\ players[x].done
    BY <1>0, <1>4, <2>1 DEF CleaningIs
  <2>3. ASSUME NEW i \in DOMAIN r, r[i].kind = "cleanup" PROVE r[i].key \in K \ {x}
    BY <1>0, <1>4, <2>1, <2>3 DEF CleaningIs
  <2> QED BY <1>0, <1>2, <2>2, <2>3 DEF WindowInv, Playing
<1>8. /\ ps = [k \in K \ {x} |-> players[k]] /\ DOMAIN ps = K \ {x}
      /\ \A k \in K \ {x} : ps[k] = players[k]
  BY <1>0 DEF Cleanup
<1>9. Ids(ps) = Ids(players)
  <2>1. ASSUME NEW s \in Ids(players) PROVE s \in Ids(ps)
    <3>1. PICK k \in K : players[k].playing /\ s = players[k].id
      BY <1>0, <2>1 DEF Ids
    <3>2. k # x
      BY <1>7, <3>1
    <3> QED BY <1>8, <3>1, <3>2 DEF Ids
  <2>2. ASSUME NEW s \in Ids(ps) PROVE s \in Ids(players)
    <3>1. PICK k \in DOMAIN ps : ps[k].playing /\ s = ps[k].id
      BY <2>2 DEF Ids
    <3> QED BY <1>0, <1>8, <3>1 DEF Ids
  <2> QED BY <2>1, <2>2
<1>10. MusicTypeOK'
  <2>1. \E keys \in SUBSET (1 .. MaxSongs) : ps \in [keys -> Player]
    <3>1. ps \in [K \ {x} -> Player] /\ K \ {x} \in SUBSET (1 .. MaxSongs)
      BY <1>6, <1>8
    <3> QED BY <3>1
  <2>2. \A j, k \in DOMAIN ps : j # k /\ ps[j].playing /\ ps[k].playing => ps[j].id # ps[k].id
    BY <1>0, <1>2, <1>8 DEF MusicTypeOK
  <2> QED BY <1>0, <1>1, <1>2, <1>3, <1>4, <2>1, <2>2 DEF MusicTypeOK
<1>11. WindowInv'
  <2>1. OrderlyIs(r)
    BY <1>0, <1>2, <1>3, TailIs DEF WindowInv, Orderly
  <2>2. Cleaning'
    <3>1. CleaningIs(r)
      BY <1>0, <1>2, <1>3, TailIs DEF WindowInv, Cleaning
    <3> QED BY <1>0, <1>3, <1>7, <1>8, <3>1 DEF Cleaning, CleaningIs
  <2>3. Film'
    <3>1. Film /\ events # <<>> /\ events' = Tail(events) \o <<>> /\ course' = course /\ timer' = timer
          /\ events[1].kind \notin {"asyncStop", "stop"}
      BY <1>0, <1>1, <1>2, <1>3, <1>4 DEF WindowInv
    <3> QED BY <1>2, <1>4, <3>1, FilmRest
  <2>4. Playing'
    BY <1>0, <1>2, <1>8 DEF WindowInv, Playing
  <2> QED BY <1>3, <2>1, <2>2, <2>3, <2>4 DEF WindowInv, Orderly, OrderlyIs
<1>12. \A s \in Songs : WillPlay(s)' <=> WillPlay(s)
  <2>1. ASSUME NEW s \in Songs PROVE WillPlay(s)' <=> WillPlay(s)
    <3>1. q[1] \notin StartsOf(s) \cup StopsOf(s)
      BY <1>4, <1>5
    <3>2. /\ LastIs(r, StartsOf(s), StopsOf(s)) <=> LastIs(q, StartsOf(s), StopsOf(s))
          /\ Missing(r, StartsOf(s)) <=> Missing(q, StartsOf(s))
          /\ Missing(r, StopsOf(s)) <=> Missing(q, StopsOf(s))
      BY <1>2, <1>4, <3>1, WillRest
    <3>3. Ids(players)' = Ids(players)
      BY <1>0, <1>9 DEF Ids
    <3> QED BY <1>0, <1>1, <1>3, <3>2, <3>3 DEF WillPlay, Will, Waits
  <2> QED BY <2>1
<1>13. WindowDue' <= WindowDue
  <2>1. Count(q, Starts) = Count(r, Starts) + (IF q[1] \in Starts THEN 1 ELSE 0)
    BY <1>2, <1>4, RestIs, ZenonT(60)
  <2>2. Count(r, Starts) \in Nat /\ One(timer # None) \in Nat
    BY <1>4, Counts DEF One
  <2>3. Cardinality(K \ {x}) <= Cardinality(K) /\ Cardinality(K \ {x}) \in Nat
    <3>1. IsFiniteSet(K \ {x}) /\ Cardinality(K \ {x}) = Cardinality(K) - 1
      BY <1>6, <1>7, FS_RemoveElement
    <3> QED BY <1>6, <3>1, FS_CardinalityType
  <2>4. /\ WindowDue' = Cardinality(K \ {x}) + Count(r, Starts) + One(timer # None)
        /\ WindowDue = Cardinality(K) + Count(q, Starts) + One(timer # None)
    BY <1>0, <1>1, <1>3, <1>8 DEF WindowDue
  <2> QED BY <1>4, <1>5, <1>6, <2>1, <2>2, <2>3, <2>4
<1>14. Suspension'
  <2>1. SUFFICES ASSUME ~crossed PROVE Suspension'
    BY <1>1 DEF Suspension
  <2>2. /\ Missing(q, Pauses) <=> Missing(r, Pauses)
        /\ Missing(q, Resumes) <=> Missing(r, Resumes)
        /\ Missing(q, Starts) <=> Missing(r, Starts)
        /\ \A s : Missing(q, StopsOf(s)) <=> Missing(r, StopsOf(s))
        /\ LastIs(r, Pauses, Resumes) <=> LastIs(q, Pauses, Resumes)
        /\ LastIs(r, Pauses, Resumes \cup Starts) <=> LastIs(q, Pauses, Resumes \cup Starts)
    BY <1>2, <1>4, <1>5, PauseRest
  <2>3. /\ plugin.paused => \/ LastIs(r, Pauses, Resumes \cup Starts)
                            \/ Missing(r, Pauses) /\ Missing(r, Resumes) /\ Missing(r, Starts)
        /\ ~plugin.paused => ~LastIs(r, Pauses, Resumes)
    BY <1>0, <1>2, <2>1, <2>2 DEF Suspension
  <2>4. ASSUME Missing(r, Pauses), Missing(r, Resumes), NEW k \in DOMAIN ps, ps[k].playing,
               plugin.stop # ps[k].id, Missing(r, StopsOf(ps[k].id))
        PROVE  ps[k].suspended <=> plugin.paused
    <3>1. k \in K /\ ps[k] = players[k]
      BY <1>8
    <3> QED BY <1>0, <1>2, <2>1, <2>2, <2>4, <3>1 DEF Suspension
  <2> QED BY <1>0, <1>1, <1>3, <2>3, <2>4 DEF Suspension
<1> QED BY <1>1, <1>10, <1>11, <1>12, <1>13, <1>14, WindowStep

\* The film comes to the place of the song that waits.
LEMMA TimerFiresKeeps ==
  ASSUME BgmAssumption, Ordinary, MusicInv, TimerFires
  PROVE  MusicInv'
<1>1. /\ UNCHANGED <<course, midi, stream, begun, plugin, pc, status, request, crossed, players>>
      /\ timer # None /\ timer' = None /\ (Prompt => events = <<>>)
  BY DEF TimerFires, world, thread
<1>2. /\ MusicTypeOK /\ ThreadInv /\ WindowInv /\ Suspension /\ events \in Seq(EventType)
      /\ timer \in [id : Songs, file : Songs]
  BY <1>1 DEF MusicInv, MusicTypeOK
<1>3. PICK u : u = timer.id
  OBVIOUS
<1>4. /\ "film" \in course /\ u \in Replaced \cap Delayed /\ timer.file = u /\ u \in Songs
  BY <1>1, <1>2, <1>3 DEF WindowInv, Film, FilmIs
<1>5. events = <<>> /\ "pause" \notin course
  BY <1>1, <1>2, <1>4, UseIs
<1>6. PICK f, r : /\ f = [kind |-> "start", id |-> u, file |-> u, flag |-> FALSE] /\ r = <<f>>
                  /\ events' = r
  <2>1. events' = Append(events, [kind |-> "start", id |-> u, file |-> u, flag |-> FALSE])
    BY <1>3, <1>4 DEF TimerFires
  <2> QED BY <1>5, <2>1
<1>7. f \in EventType /\ f.kind = "start" /\ f.id = u /\ f.file = u /\ f.flag = FALSE
  BY <1>4, <1>6 DEF EventType
<1>8. r \in Seq(EventType) /\ DOMAIN r = {1} /\ r[1] = f
  BY <1>6, <1>7
<1>9. /\ f \notin Pauses /\ f \notin Resumes /\ f \in Starts /\ f \in StartsOf(u)
      /\ \A s : /\ f \notin StopsOf(s)
                /\ s # u => f \notin StartsOf(s)
  BY <1>7 DEF Pauses, Resumes, Starts, StartsOf, EndsOf, StopsOf
<1>10. MusicTypeOK'
  BY <1>1, <1>2, <1>6, <1>8 DEF MusicTypeOK
<1>11. WindowInv'
  <2>1. Orderly'
    BY <1>4, <1>6, <1>7, <1>8 DEF Orderly, OrderlyIs
  <2>2. Cleaning'
    BY <1>6, <1>7, <1>8 DEF Cleaning, CleaningIs
  <2>3. Film'
    BY <1>1, <1>6, <1>7, <1>8, <1>9 DEF Film, FilmIs, Missing
  <2>4. Playing'
    BY <1>1, <1>2 DEF WindowInv, Playing
  <2> QED BY <2>1, <2>2, <2>3, <2>4 DEF WindowInv
<1>12. \A s \in Songs : WillPlay(s)' <=> WillPlay(s)
  <2>1. ASSUME NEW s \in Songs PROVE WillPlay(s)' <=> WillPlay(s)
    <3>1. WillPlay(s) <=> s \in Ids(players) \/ s = u
      BY <1>1, <1>3, <1>5, Empty DEF WillPlay, Will, Waits
    <3>2. Missing(r, StopsOf(s)) /\ (Missing(r, StartsOf(s)) <=> s # u)
      BY <1>8, <1>9 DEF Missing
    <3>3. LastIs(r, StartsOf(s), StopsOf(s)) <=> s = u
      BY <1>8, <1>9 DEF LastIs
    <3>4. WillPlay(s)' <=> s = u \/ (s # u /\ s \in Ids(players))
      BY <1>1, <1>6, <3>2, <3>3 DEF WillPlay, Will, Waits, Ids
    <3> QED BY <3>1, <3>4
  <2> QED BY <2>1
<1>13. WindowDue' <= WindowDue
  <2>1. Count(r, Starts) = Count(events, Starts) + 1
    <3>1. Count(Append(events, f), Starts) = Count(events, Starts) + (IF f \in Starts THEN 1 ELSE 0)
      BY <1>2, <1>7, Counts
    <3>2. Append(events, f) = r
      BY <1>5, <1>6
    <3> QED BY <1>9, <3>1, <3>2
  <2>2. Count(events, Starts) \in Nat /\ Cardinality(DOMAIN players) \in Nat
    BY <1>2, Counts, PlayersFinite
  <2> QED BY <1>1, <1>6, <2>1, <2>2 DEF WindowDue, One
<1>14. Suspension'
  <2>1. SUFFICES ASSUME ~crossed PROVE Suspension'
    BY <1>1 DEF Suspension
  <2>2. ~plugin.paused
    BY <1>2, <1>5 DEF ThreadInv, Flags
  <2>3. ~LastIs(r, Pauses, Resumes)
    BY <1>8, <1>9 DEF LastIs
  <2>4. \A k \in DOMAIN players : players[k].playing /\ plugin.stop # players[k].id
                                     => (players[k].suspended <=> plugin.paused)
    BY <1>2, <1>5, <2>1, Empty DEF Suspension
  <2> QED BY <1>1, <1>6, <2>2, <2>3, <2>4 DEF Suspension
<1> QED BY <1>1, <1>10, <1>11, <1>12, <1>13, <1>14, WindowStep DEF world, thread

LEMMA TailAppended ==
  ASSUME NEW q \in Seq(EventType), q # <<>>, NEW e \in EventType, NEW A, e \notin A, Missing(Tail(q), A)
  PROVE  Missing(Tail(Append(q, e)), A)
<1>1. PICK r, n : r = Append(q, e) /\ n = Len(q)
  OBVIOUS
<1>2. /\ r \in Seq(EventType) /\ DOMAIN r = 1 .. n + 1 /\ n \in Nat /\ r[n + 1] = e
      /\ \A i \in 1 .. n : r[i] = q[i]
  BY <1>1, QueueOperations
<1>3. r # <<>> /\ Len(r) = n + 1
  BY <1>1, <1>2
<1>4. /\ DOMAIN Tail(r) = 1 .. n /\ \A j \in 1 .. n : Tail(r)[j] = r[j + 1]
      /\ DOMAIN Tail(q) = 1 .. n - 1 /\ \A j \in 1 .. n - 1 : Tail(q)[j] = q[j + 1]
  BY <1>1, <1>2, <1>3, QueueOperations
<1>5. ASSUME NEW j \in 1 .. n PROVE Tail(r)[j] \notin A
  <2>1. CASE j = n
    BY <1>2, <1>4, <2>1
  <2>2. CASE j # n
    <3>1. j \in 1 .. n - 1 /\ j + 1 \in 1 .. n
      BY <1>2, <2>2
    <3>2. Tail(r)[j] = Tail(q)[j]
      BY <1>2, <1>4, <3>1
    <3> QED BY <1>4, <3>1, <3>2 DEF Missing
  <2> QED BY <2>1, <2>2
<1> QED BY <1>1, <1>4, <1>5 DEF Missing

\* A player's fade has ended: it is to be taken away.
LEMMA FadeEndsKeeps ==
  ASSUME BgmAssumption, MusicInv, FadeEnds
  PROVE  MusicInv'
<1>1. /\ UNCHANGED <<course, midi, stream, begun, plugin, pc, status, request, crossed, timer>>
      /\ UNCHANGED <<course, world, plugin, thread, crossed>>
  BY DEF FadeEnds, world, thread
<1>2. MusicTypeOK /\ ThreadInv /\ WindowInv /\ Suspension /\ events \in Seq(EventType)
  BY DEF MusicInv, MusicTypeOK
<1>3. PICK k \in DOMAIN players :
          /\ players[k].fading /\ ~players[k].done
          /\ players' = [players EXCEPT ![k].fading = FALSE, ![k].done = TRUE]
          /\ events' = Append(events, [kind |-> "cleanup", key |-> k])
  BY DEF FadeEnds
<1>4. PICK q, K, ps, f, r : /\ q = events /\ K = DOMAIN players /\ ps = players'
                            /\ f = [kind |-> "cleanup", key |-> k] /\ r = Append(q, f) /\ events' = r
  BY <1>3
<1>5. /\ \A j \in K : players[j] \in Player
      /\ K \subseteq 1 .. MaxSongs /\ players = [j \in K |-> players[j]] /\ k \in Nat
  BY <1>2, <1>3, <1>4, PlayersAre
<1>6. f \in EventType /\ f.kind = "cleanup" /\ f.key = k /\ f \notin Orders
  BY <1>4, <1>5 DEF EventType, Orders
<1>7. /\ q \in Seq(EventType) /\ r \in Seq(EventType) /\ <<f>> \in Seq(EventType) /\ r = q \o <<f>>
      /\ DOMAIN <<f>> = {1} /\ <<f>>[1] = f
      /\ \A i \in DOMAIN r : (i \in DOMAIN q /\ r[i] = q[i]) \/ (i = Len(q) + 1 /\ r[i] = f)
  <2>1. q \in Seq(EventType) /\ r \in Seq(EventType) /\ r = q \o <<f>> /\ <<f>> \in Seq(EventType)
    BY <1>2, <1>4, <1>6
  <2>2. \A i \in DOMAIN r : (i \in DOMAIN q /\ r[i] = q[i]) \/ (i = Len(q) + 1 /\ r[i] = f)
    BY <1>4, <1>6, <2>1, QueueOperations
  <2> QED BY <2>1, <2>2
<1>8. /\ DOMAIN ps = K /\ ps \in [K -> Player]
      /\ \A j \in K : /\ j # k => ps[j] = players[j]
                      /\ ps[j].playing = players[j].playing /\ ps[j].id = players[j].id
                      /\ ps[j].file = players[j].file /\ ps[j].suspended = players[j].suspended
                      /\ players[j].done => ps[j].done
      /\ ps[k].done /\ ~ps[k].playing
  <2>1. PICK p \in Player : p = players[k] /\ p.fading /\ ~p.done
    BY <1>3, <1>4, <1>5
  <2>2. ~p.playing
    BY <1>2, <1>3, <2>1 DEF WindowInv, Playing
  <2>3. PICK b : b = [p EXCEPT !.fading = FALSE, !.done = TRUE]
    OBVIOUS
  <2>4. b \in Player /\ b.playing = p.playing /\ b.id = p.id /\ b.file = p.file
        /\ b.suspended = p.suspended /\ b.done
    BY <2>3 DEF Player
  <2>5. ps = [players EXCEPT ![k] = b]
    BY <1>3, <1>4, <2>1, <2>3
  <2>6. DOMAIN ps = K /\ ps[k] = b /\ \A j \in K : j # k => ps[j] = players[j]
    BY <1>3, <1>4, <2>5
  <2>7. ps = [j \in K |-> IF j = k THEN b ELSE players[j]]
    BY <1>3, <1>4, <1>5, <2>5
  <2>8. ps \in [K -> Player]
    BY <1>5, <2>4, <2>7
  <2> QED BY <2>1, <2>2, <2>4, <2>6, <2>8
<1>9. Ids(ps) = Ids(players)
  BY <1>4, <1>8 DEF Ids
<1>10. ASSUME NEW A \in SUBSET Orders, NEW B \in SUBSET Orders
       PROVE  /\ LastIs(r, A, B) <=> LastIs(q, A, B)
              /\ FirstIs(r, A, B) <=> FirstIs(q, A, B)
              /\ Missing(r, A) <=> Missing(q, A)
  <2>1. \A i \in DOMAIN <<f>> : <<f>>[i] \notin A \cup B
    BY <1>6, <1>7
  <2> QED BY <1>7, <2>1, Joined
<1>11. MusicTypeOK'
  <2>1. \E keys \in SUBSET (1 .. MaxSongs) : ps \in [keys -> Player]
    BY <1>5, <1>8
  <2>2. \A i, j \in DOMAIN ps : i # j /\ ps[i].playing /\ ps[j].playing => ps[i].id # ps[j].id
    BY <1>2, <1>4, <1>8 DEF MusicTypeOK
  <2> QED BY <1>1, <1>2, <1>4, <1>7, <2>1, <2>2 DEF MusicTypeOK
<1>12. WindowInv'
  <2>1. OrderlyIs(r)
    BY <1>2, <1>4, <1>6, <1>7 DEF WindowInv, Orderly, OrderlyIs
  <2>2. Cleaning'
    <3>1. CleaningIs(q)
      BY <1>2, <1>4 DEF WindowInv, Cleaning
    <3>2. \A i \in DOMAIN q : q[i].kind = "cleanup" => q[i].key \in K /\ players[q[i].key].done /\ q[i].key # k
      BY <1>3, <1>4, <3>1 DEF CleaningIs
    <3>3. \A i \in DOMAIN r : r[i].kind = "cleanup" => r[i].key \in K /\ ps[r[i].key].done
      BY <1>3, <1>4, <1>6, <1>7, <1>8, <3>2
    <3>4. \A i, j \in DOMAIN r :
              r[i].kind = "cleanup" /\ r[j].kind = "cleanup" /\ r[i].key = r[j].key => i = j
      BY <1>6, <1>7, <3>1, <3>2 DEF CleaningIs
    <3> QED BY <1>4, <1>8, <3>3, <3>4 DEF Cleaning, CleaningIs
  <2>3. Film'
    <3>1. FilmIs(q)
      BY <1>2, <1>4 DEF WindowInv, Film
    <3>2. timer # None =>
              /\ "film" \in course /\ timer.id \in Replaced \cap Delayed /\ timer.file = timer.id
              /\ FirstIs(r, EndsOf(timer.id), EndsElse(timer.id))
              /\ Missing(r, StartsOf(timer.id))
      BY <1>10, <3>1, OrdersAre DEF FilmIs
    <3>3. ASSUME NEW i \in DOMAIN r, r[i].kind = "asyncStart", r[i].flag
          PROVE  /\ i = 1 /\ timer = None /\ "film" \in course /\ r[1].id \in Delayed
                 /\ \A j \in DOMAIN r : r[j].kind # "stop"
                 /\ FirstIs(r, EndsOf(r[1].id), EndsElse(r[1].id))
                 /\ Missing(Tail(r), StartsOf(r[1].id))
      <4>1. i \in DOMAIN q /\ r[i] = q[i]
        BY <1>6, <1>7, <3>3
      <4>2. /\ i = 1 /\ timer = None /\ "film" \in course /\ q[1].id \in Delayed
            /\ \A j \in DOMAIN q : q[j].kind # "stop"
            /\ FirstIs(q, EndsOf(q[1].id), EndsElse(q[1].id))
            /\ Missing(Tail(q), StartsOf(q[1].id))
        BY <3>1, <3>3, <4>1 DEF FilmIs
      <4>3. PICK u : u = q[1].id /\ u = r[1].id
        BY <4>1, <4>2
      <4>4. FirstIs(r, EndsOf(u), EndsElse(u))
        BY <1>10, <4>2, <4>3, OrdersAre
      <4>5. \A j \in DOMAIN r : r[j].kind # "stop"
        BY <1>6, <1>7, <4>2
      <4>6. Missing(Tail(r), StartsOf(u))
        <5>1. q # <<>> /\ f \notin StartsOf(u)
          BY <1>6, <1>7, <4>1, OrdersAre
        <5> QED BY <1>4, <1>6, <1>7, <4>2, <4>3, <5>1, TailAppended
      <4> QED BY <4>2, <4>3, <4>4, <4>5, <4>6
    <3>4. "film" \in course => Missing(r, Pauses) /\ Missing(r, Resumes)
      BY <1>10, <3>1, OrdersAre DEF FilmIs
    <3> QED BY <1>1, <1>4, <3>2, <3>3, <3>4 DEF Film, FilmIs
  <2>4. Playing'
    <3>1. \A j \in K : /\ players[j].file = players[j].id /\ players[j].id \in Replaced
                       /\ players[j].done \/ players[j].fading => ~players[j].playing
      BY <1>2, <1>4 DEF WindowInv, Playing
    <3>2. ASSUME NEW j \in K PROVE ps[j].done \/ ps[j].fading => ~ps[j].playing
      <4>1. CASE j = k
        BY <1>8, <4>1
      <4>2. CASE j # k
        BY <1>8, <3>1, <4>2
      <4> QED BY <4>1, <4>2
    <3> QED BY <1>4, <1>8, <3>1, <3>2 DEF Playing
  <2> QED BY <1>4, <2>1, <2>2, <2>3, <2>4 DEF WindowInv, Orderly, OrderlyIs
<1>13. \A s \in Songs : WillPlay(s)' <=> WillPlay(s)
  <2>1. ASSUME NEW s \in Songs PROVE WillPlay(s)' <=> WillPlay(s)
    <3>1. /\ LastIs(r, StartsOf(s), StopsOf(s)) <=> LastIs(q, StartsOf(s), StopsOf(s))
          /\ Missing(r, StartsOf(s)) <=> Missing(q, StartsOf(s))
          /\ Missing(r, StopsOf(s)) <=> Missing(q, StopsOf(s))
      BY <1>10, OrdersAre
    <3>2. Ids(players)' = Ids(players)
      BY <1>4, <1>9 DEF Ids
    <3> QED BY <1>1, <1>4, <3>1, <3>2 DEF WillPlay, Will, Waits
  <2> QED BY <2>1
<1>14. WindowDue' <= WindowDue
  <2>1. Count(r, Starts) = Count(q, Starts)
    <3>1. \A i \in DOMAIN <<f>> : <<f>>[i] \notin Starts
      BY <1>6, <1>7, OrdersAre
    <3> QED BY <1>7, <3>1, Counts, ZenonT(60)
  <2>2. WindowDue' = WindowDue
    BY <1>1, <1>4, <1>8, <2>1 DEF WindowDue
  <2> QED BY <1>2, <2>2, DueIs
<1>15. Suspension'
  <2>1. SUFFICES ASSUME ~crossed PROVE Suspension'
    BY <1>1 DEF Suspension
  <2>2. PICK P, R, S, C : P = Pauses /\ R = Resumes /\ S = Starts /\ C = Resumes \cup Starts
    OBVIOUS
  <2>3. P \in SUBSET Orders /\ R \in SUBSET Orders /\ S \in SUBSET Orders /\ C \in SUBSET Orders
    BY <2>2, OrdersAre
  <2>4. /\ Missing(r, P) <=> Missing(q, P)
        /\ Missing(r, R) <=> Missing(q, R)
        /\ Missing(r, S) <=> Missing(q, S)
        /\ LastIs(r, P, R) <=> LastIs(q, P, R)
        /\ LastIs(r, P, C) <=> LastIs(q, P, C)
    BY <1>10, <2>3
  <2>5. \A s : Missing(r, StopsOf(s)) <=> Missing(q, StopsOf(s))
    BY <1>10, OrdersAre
  <2>6. /\ plugin.paused => LastIs(r, P, C) \/ (Missing(r, P) /\ Missing(r, R) /\ Missing(r, S))
        /\ ~plugin.paused => ~LastIs(r, P, R)
    BY <1>2, <1>4, <2>1, <2>2, <2>4 DEF Suspension
  <2>7. ASSUME Missing(r, P), Missing(r, R), NEW j \in DOMAIN ps, ps[j].playing,
               plugin.stop # ps[j].id, Missing(r, StopsOf(ps[j].id))
        PROVE  ps[j].suspended <=> plugin.paused
    <3>1. /\ players[j].playing /\ plugin.stop # players[j].id /\ Missing(q, StopsOf(players[j].id))
          /\ ps[j].suspended = players[j].suspended /\ j \in DOMAIN players
      BY <1>4, <1>8, <2>5, <2>7
    <3> QED BY <1>2, <1>4, <2>1, <2>2, <2>4, <2>7, <3>1 DEF Suspension
  <2> QED BY <1>1, <1>4, <2>2, <2>6, <2>7 DEF Suspension
<1> QED BY <1>1, <1>11, <1>12, <1>13, <1>14, <1>15, WindowStep

\* The events that take players away: one for each.
LEMMA CleanupsAre ==
  ASSUME NEW keys \in SUBSET Nat, IsFiniteSet(keys), NEW c, c = Cleanups(keys)
  PROVE  /\ c \in Seq(EventType)
         /\ \A i \in DOMAIN c : c[i].kind = "cleanup" /\ c[i].key \in keys
         /\ \A i, j \in DOMAIN c : c[i].key = c[j].key => i = j
<1>1. PICK S : S = {[kind |-> "cleanup", key |-> k] : k \in keys}
  OBVIOUS
<1>2. \A x \in S : x \in EventType /\ x.kind = "cleanup" /\ x.key \in keys
  BY <1>1 DEF EventType
<1>3. \A x, y \in S : x.key = y.key => x = y
  BY <1>1
<1>4. IsFiniteSet(S)
  <2> DEFINE g == [k \in keys |-> [kind |-> "cleanup", key |-> k]]
  <2>1. g \in Surjection(keys, S)
    <3>1. g \in [keys -> S]
      BY <1>1
    <3>2. ASSUME NEW x \in S PROVE \E k \in keys : g[k] = x
      BY <1>1
    <3> HIDE DEF g
    <3> QED BY <3>1, <3>2 DEF Surjection
  <2> HIDE DEF g
  <2> QED BY <2>1, FS_Surjection
<1>5. PICK n : n = Cardinality(S) /\ n \in Nat
  BY <1>4, FS_CardinalityType
<1>6. \E h \in [1 .. n -> S] : IsInjective(h)
  <2>1. ExistsBijection(1 .. n, S)
    BY <1>4, <1>5, FS_CardinalityType
  <2>2. PICK h \in Bijection(1 .. n, S) : TRUE
    BY <2>1 DEF ExistsBijection
  <2> QED BY <2>2 DEF Bijection, Injection
<1>7. c = CHOOSE h \in [1 .. n -> S] : IsInjective(h)
  BY <1>1, <1>5 DEF Cleanups, SetToSeq
<1>8. c \in [1 .. n -> S] /\ IsInjective(c)
  BY <1>6, <1>7
<1>9. DOMAIN c = 1 .. n /\ \A i \in 1 .. n : c[i] \in S
  BY <1>8
<1>10. c \in Seq(EventType)
  BY <1>2, <1>5, <1>8, <1>9
<1>11. \A i, j \in DOMAIN c : c[i] = c[j] => i = j
  BY <1>8 DEF IsInjective
<1> QED BY <1>2, <1>3, <1>9, <1>10, <1>11

\* Players that are stopped, and the events that take them away.
LEMMA StoppedIs ==
  ASSUME NEW p \in Player, NEW fade \in BOOLEAN
  PROVE  /\ Stopped(p, fade) \in Player /\ ~Stopped(p, fade).playing
         /\ ~fade => Stopped(p, fade).done
         /\ Stopped(p, fade).id = p.id /\ Stopped(p, fade).file = p.file
<1>1. CASE fade
  BY <1>1 DEF Stopped, Player
<1>2. CASE ~fade
  BY <1>2 DEF Stopped, Player
<1> QED BY <1>1, <1>2

LEMMA StoppedAre ==
  ASSUME MusicTypeOK, WindowInv, NEW these \in SUBSET DOMAIN players, NEW ps,
         DOMAIN ps = DOMAIN players, ps = [k \in DOMAIN ps |-> ps[k]],
         \A k \in these : /\ ps[k] \in Player /\ ~ps[k].playing
                          /\ ps[k].id = players[k].id /\ ps[k].file = players[k].file,
         \A k \in DOMAIN players \ these : ps[k] = players[k]
  PROVE  /\ \E keys \in SUBSET (1 .. MaxSongs) : ps \in [keys -> Player]
         /\ \A j, k \in DOMAIN ps : j # k /\ ps[j].playing /\ ps[k].playing => ps[j].id # ps[k].id
         /\ \A k \in DOMAIN ps : /\ ps[k].file = ps[k].id /\ ps[k].id \in Replaced
                                 /\ ps[k].done \/ ps[k].fading => ~ps[k].playing
<1>1. PICK K : K = DOMAIN players
  OBVIOUS
<1>2. (\A k \in K : players[k] \in Player) /\ K \subseteq 1 .. MaxSongs
  BY <1>1, PlayersAre
<1>3. ps \in [K -> Player]
  <2>1. \A k \in K : ps[k] \in Player
    BY <1>1, <1>2
  <2> QED BY <1>1, <2>1
<1>4. \A j, k \in K : j # k /\ ps[j].playing /\ ps[k].playing => ps[j].id # ps[k].id
  BY <1>1 DEF MusicTypeOK
<1>5. \A k \in K : /\ ps[k].file = ps[k].id /\ ps[k].id \in Replaced
                   /\ ps[k].done \/ ps[k].fading => ~ps[k].playing
  BY <1>1 DEF WindowInv, Playing
<1>6. \E keys \in SUBSET (1 .. MaxSongs) : ps \in [keys -> Player]
  BY <1>2, <1>3
<1> QED BY <1>1, <1>4, <1>5, <1>6

LEMMA CleaningRest ==
  ASSUME NEW q \in Seq(EventType), q # <<>>, NEW c \in Seq(EventType), CleaningIs(q), NEW these,
         \A i \in DOMAIN c : c[i].kind = "cleanup" /\ c[i].key \in these,
         \A i, j \in DOMAIN c : c[i].key = c[j].key => i = j,
         \A k \in these : k \in DOMAIN players /\ ~players[k].done,
         events' = Tail(q) \o c, DOMAIN players' = DOMAIN players,
         \A k \in DOMAIN players \ these : players'[k] = players[k],
         \A i \in DOMAIN c : players'[c[i].key].done
  PROVE  Cleaning'
<1>1. PICK t, r, K, ps, m, n : /\ t = Tail(q) /\ r = t \o c /\ K = DOMAIN players /\ ps = players'
                               /\ m = Len(t) /\ n = Len(c)
  OBVIOUS
<1>2. /\ t \in Seq(EventType) /\ CleaningIs(t)
  BY <1>1, TailIs
<1>3. /\ DOMAIN r = 1 .. m + n /\ m \in Nat /\ n \in Nat
      /\ DOMAIN t = 1 .. m /\ DOMAIN c = 1 .. n
      /\ \A i \in 1 .. m : r[i] = t[i]
      /\ \A i \in m + 1 .. m + n : r[i] = c[i - m]
  BY <1>1, <1>2
<1>4. \A i \in DOMAIN r : \/ i \in 1 .. m /\ r[i] = t[i]
                          \/ i \in m + 1 .. m + n /\ i - m \in 1 .. n /\ r[i] = c[i - m]
  <2>1. ASSUME NEW i \in 1 .. m + n, i \notin 1 .. m
        PROVE  i \in m + 1 .. m + n /\ i - m \in 1 .. n
    BY <1>3, <2>1
  <2> QED BY <1>3, <2>1
<1>5. \A i \in 1 .. m : t[i].kind = "cleanup" =>
          t[i].key \in K /\ players[t[i].key].done /\ t[i].key \notin these
  BY <1>1, <1>2, <1>3 DEF CleaningIs
<1>6. \A i \in 1 .. n : c[i].kind = "cleanup" /\ c[i].key \in these /\ c[i].key \in K /\ ps[c[i].key].done
  BY <1>1, <1>3
<1>7. ASSUME NEW i \in DOMAIN r, r[i].kind = "cleanup" PROVE r[i].key \in K /\ ps[r[i].key].done
  <2>1. CASE i \in 1 .. m /\ r[i] = t[i]
    <3>1. PICK k : k = r[i].key /\ k \in K \ these /\ players[k].done
      BY <1>5, <1>7, <2>1
    <3> QED BY <1>1, <3>1
  <2>2. CASE i - m \in 1 .. n /\ r[i] = c[i - m]
    BY <1>6, <2>2
  <2> QED BY <1>4, <2>1, <2>2
<1>8. ASSUME NEW i \in DOMAIN r, NEW j \in DOMAIN r, r[i].kind = "cleanup", r[j].kind = "cleanup",
             r[i].key = r[j].key
      PROVE  i = j
  <2>1. CASE i \in 1 .. m /\ r[i] = t[i]
    <3>1. j \in 1 .. m /\ r[j] = t[j]
      BY <1>4, <1>5, <1>6, <1>8, <2>1
    <3> QED BY <1>2, <1>3, <1>8, <2>1, <3>1 DEF CleaningIs
  <2>2. CASE i \in m + 1 .. m + n /\ i - m \in 1 .. n /\ r[i] = c[i - m]
    <3>1. j \in m + 1 .. m + n /\ j - m \in 1 .. n /\ r[j] = c[j - m]
      <4>1. r[i].key \in these
        BY <1>6, <2>2
      <4>2. CASE j \in 1 .. m /\ r[j] = t[j]
        <5>1. t[j].kind = "cleanup" /\ t[j].key = r[i].key
          BY <1>8, <4>2
        <5> QED BY <1>5, <4>1, <4>2, <5>1
      <4> QED BY <1>4, <4>2
    <3>2. i - m = j - m
      <4>1. PICK a \in 1 .. n, b \in 1 .. n : a = i - m /\ b = j - m /\ r[i] = c[a] /\ r[j] = c[b]
        BY <2>2, <3>1
      <4>2. c[a].key = c[b].key /\ a \in DOMAIN c /\ b \in DOMAIN c
        BY <1>3, <1>8, <4>1
      <4> QED BY <4>1, <4>2
    <3> QED BY <1>3, <2>2, <3>1, <3>2
  <2> QED BY <1>4, <2>1, <2>2
<1> QED BY <1>1, <1>7, <1>8 DEF Cleaning, CleaningIs

\* A song is stopped.
LEMMA StopKeeps ==
  ASSUME BgmAssumption, MusicInv, events # <<>>, events[1].kind = "stop", Stop(events[1]),
         UNCHANGED <<course, world, plugin, thread, crossed>>
  PROVE  MusicInv'
<1>0. PICK q, e, u, K, ps, these, c :
          /\ q = events /\ e = events[1] /\ u = e.id /\ K = DOMAIN players /\ ps = players'
          /\ these = {k \in DOMAIN players : players[k].playing /\ players[k].id = e.id}
          /\ c = IF e.flag THEN <<>> ELSE Cleanups(these)
  OBVIOUS
<1>1. /\ UNCHANGED <<course, midi, stream, begun, plugin, pc, status, request, crossed>>
      /\ timer' = None
      /\ players' = [k \in DOMAIN players |-> IF k \in these THEN Stopped(players[k], e.flag)
                                              ELSE players[k]]
  BY <1>0 DEF world, thread, Stop
<1>2. MusicTypeOK /\ ThreadInv /\ WindowInv /\ Suspension /\ q \in Seq(EventType) /\ q # <<>>
  BY <1>0 DEF MusicInv, MusicTypeOK
<1>3. PICK r : r = Tail(q) \o c /\ events' = r
  BY <1>0 DEF Stop
<1>4. /\ e \in EventType /\ 1 \in DOMAIN q /\ q[1] = e /\ e.kind = "stop" /\ e.kind \in Posted
      /\ e.flag \in BOOLEAN
  BY <1>0, <1>2, TailIs, EventIs DEF Posted
<1>5. /\ \A k \in these : k \in K /\ players[k].playing /\ players[k].id = u /\ ~players[k].done
      /\ \A k \in K \ these : players[k].playing => players[k].id # u
      /\ these \in SUBSET K /\ these \in SUBSET Nat /\ IsFiniteSet(these)
  <2>1. \A k \in K : players[k].done => ~players[k].playing
    BY <1>0, <1>2 DEF WindowInv, Playing
  <2>2. these \in SUBSET K /\ K \subseteq 1 .. MaxSongs /\ IsFiniteSet(K)
    BY <1>0, <1>2, PlayersAre, PlayersFinite
  <2>3. IsFiniteSet(these)
    BY <2>2, FS_Subset
  <2> QED BY <1>0, <2>1, <2>2, <2>3
<1>6. /\ c \in Seq(EventType)
      /\ \A i \in DOMAIN c : c[i].kind = "cleanup" /\ c[i].key \in these /\ ~e.flag
      /\ \A i, j \in DOMAIN c : c[i].key = c[j].key => i = j
  <2>1. CASE e.flag
    BY <1>0, <2>1
  <2>2. CASE ~e.flag
    <3>1. c = Cleanups(these)
      BY <1>0, <2>2
    <3>2. /\ c \in Seq(EventType)
          /\ \A i \in DOMAIN c : c[i].kind = "cleanup" /\ c[i].key \in these
          /\ \A i, j \in DOMAIN c : c[i].key = c[j].key => i = j
      BY <1>5, <3>1, CleanupsAre
    <3> QED BY <2>2, <3>2
  <2> QED BY <2>1, <2>2
<1>7. /\ r \in Seq(EventType) /\ OrderlyIs(r) /\ Count(q, Starts) = Count(r, Starts) + (IF e \in Starts THEN 1 ELSE 0)
  <2>1. OrderlyIs(q)
    BY <1>0, <1>2 DEF WindowInv, Orderly
  <2>2. \A i \in DOMAIN c : c[i].kind = "cleanup"
    BY <1>6
  <2>3. r \in Seq(EventType)
    BY <1>2, <1>3, <1>6, <2>2, RestIs
  <2>4. OrderlyIs(r)
    BY <1>2, <1>3, <1>6, <2>1, <2>2, RestIs, ZenonT(60)
  <2>5. Count(q, Starts) = Count(r, Starts) + (IF q[1] \in Starts THEN 1 ELSE 0)
    BY <1>2, <1>3, <1>6, <2>2, RestIs, ZenonT(60)
  <2> QED BY <1>4, <2>3, <2>4, <2>5
<1>8. /\ e \notin Pauses /\ e \notin Resumes /\ e \notin Starts /\ e \in StopsOf(u)
      /\ \A s : /\ e \notin StartsOf(s)
                /\ s # u => e \notin StopsOf(s) /\ e \in EndsElse(s)
  BY <1>0, <1>4 DEF Pauses, Resumes, Starts, StartsOf, EndsOf, EndsElse, StopsOf
<1>9. /\ DOMAIN ps = K
      /\ \A k \in these : ~ps[k].playing /\ (~e.flag => ps[k].done)
      /\ \A k \in K \ these : ps[k] = players[k]
      /\ \E keys \in SUBSET (1 .. MaxSongs) : ps \in [keys -> Player]
      /\ \A j, k \in DOMAIN ps : j # k /\ ps[j].playing /\ ps[k].playing => ps[j].id # ps[k].id
      /\ Playing'
  <2>1. /\ these \in SUBSET DOMAIN players /\ DOMAIN ps = DOMAIN players
        /\ ps = [k \in DOMAIN ps |-> ps[k]]
        /\ \A k \in these : ps[k] = Stopped(players[k], e.flag)
        /\ \A k \in DOMAIN players \ these : ps[k] = players[k]
    BY <1>0, <1>1, <1>5
  <2>2. ASSUME NEW k \in these
        PROVE  /\ ps[k] \in Player /\ ~ps[k].playing /\ (~e.flag => ps[k].done)
               /\ ps[k].id = players[k].id /\ ps[k].file = players[k].file
    <3>1. PICK p \in Player : p = players[k]
      BY <1>2, <2>1, PlayersAre
    <3>2. ps[k] = Stopped(p, e.flag) /\ e.flag \in BOOLEAN
      BY <1>4, <2>1, <3>1
    <3> QED BY <3>1, <3>2, StoppedIs
  <2>3. /\ \E keys \in SUBSET (1 .. MaxSongs) : ps \in [keys -> Player]
        /\ \A j, k \in DOMAIN ps : j # k /\ ps[j].playing /\ ps[k].playing => ps[j].id # ps[k].id
        /\ \A k \in DOMAIN ps : /\ ps[k].file = ps[k].id /\ ps[k].id \in Replaced
                                /\ ps[k].done \/ ps[k].fading => ~ps[k].playing
    <3>1. \A k \in these : /\ ps[k] \in Player /\ ~ps[k].playing
                           /\ ps[k].id = players[k].id /\ ps[k].file = players[k].file
      BY <2>2
    <3>2. /\ these \in SUBSET DOMAIN players /\ DOMAIN ps = DOMAIN players
          /\ ps = [k \in DOMAIN ps |-> ps[k]]
          /\ \A k \in DOMAIN players \ these : ps[k] = players[k]
      BY <2>1
    <3> QED BY <1>2, <3>1, <3>2, StoppedAre
  <2>4. Playing'
    <3>1. players' = ps
      BY <1>0
    <3> QED BY <2>3, <3>1 DEF Playing
  <2> QED BY <1>0, <2>1, <2>2, <2>3, <2>4
<1>10. MusicTypeOK'
  BY <1>0, <1>1, <1>2, <1>3, <1>7, <1>9 DEF MusicTypeOK
<1>11. WindowInv'
  <2>1. Cleaning'
    <3>1. CleaningIs(q)
      BY <1>0, <1>2 DEF WindowInv, Cleaning
    <3>2. /\ events' = Tail(q) \o c /\ DOMAIN players' = DOMAIN players
          /\ \A k \in these : k \in DOMAIN players /\ ~players[k].done
          /\ \A k \in DOMAIN players \ these : players'[k] = players[k]
          /\ \A i \in DOMAIN c : players'[c[i].key].done
      BY <1>0, <1>3, <1>5, <1>6, <1>9
    <3> QED BY <1>2, <1>6, <3>1, <3>2, CleaningRest, ZenonT(60)
  <2>2. Film'
    <3>1. Film /\ events # <<>> /\ events' = Tail(events) \o c /\ course' = course
      BY <1>0, <1>1, <1>2, <1>3 DEF WindowInv
    <3> QED BY <1>1, <1>2, <1>6, <3>1, FilmRest
  <2> QED BY <1>3, <1>7, <1>9, <2>1, <2>2 DEF WindowInv, Orderly, OrderlyIs
<1>12. \A s \in Songs : WillPlay(s)' <=> WillPlay(s)
  <2>0. \A s : WillPlay(s)' <=> \/ LastIs(r, StartsOf(s), StopsOf(s))
                                \/ Missing(r, StartsOf(s)) /\ Missing(r, StopsOf(s)) /\ s \in Ids(ps)
    BY <1>0, <1>1, <1>3 DEF WillPlay, Will, Waits, Ids
  <2>1. ASSUME NEW s \in Songs, s # u PROVE WillPlay(s)' <=> WillPlay(s)
    <3>1. q[1] \notin StartsOf(s) \cup StopsOf(s)
      BY <1>4, <1>8, <2>1
    <3>2. /\ LastIs(r, StartsOf(s), StopsOf(s)) <=> LastIs(q, StartsOf(s), StopsOf(s))
          /\ Missing(r, StartsOf(s)) <=> Missing(q, StartsOf(s))
          /\ Missing(r, StopsOf(s)) <=> Missing(q, StopsOf(s))
      BY <1>2, <1>3, <1>6, <3>1, WillRest
    <3>3. s \in Ids(ps) <=> s \in Ids(players)
      <4>1. ASSUME s \in Ids(players) PROVE s \in Ids(ps)
        <5>1. PICK k \in K : players[k].playing /\ s = players[k].id
          BY <1>0, <4>1 DEF Ids
        <5>2. ps[k] = players[k] /\ k \in DOMAIN ps
          BY <1>5, <1>9, <2>1, <5>1
        <5> QED BY <5>1, <5>2 DEF Ids
      <4>2. ASSUME s \in Ids(ps) PROVE s \in Ids(players)
        <5>1. PICK k \in DOMAIN ps : ps[k].playing /\ s = ps[k].id
          BY <4>2 DEF Ids
        <5>2. ps[k] = players[k] /\ k \in K
          BY <1>9, <5>1
        <5> QED BY <1>0, <5>1, <5>2 DEF Ids
      <4> QED BY <4>1, <4>2
    <3>4. ~Waits(s)
      <4> SUFFICES ASSUME timer # None, timer.id = s PROVE FALSE
        BY DEF Waits
      <4>1. FirstIs(q, EndsOf(s), EndsElse(s))
        BY <1>0, <1>2 DEF WindowInv, Film, FilmIs
      <4>2. PICK A, B : A = EndsOf(s) /\ B = EndsElse(s)
        OBVIOUS
      <4>3. A \in SUBSET Orders /\ B \in SUBSET Orders /\ A \cap B = {}
        BY <4>2, OrdersAre, OrdersApart
      <4>4. q[1] \notin B
        BY <1>2, <1>3, <1>4, <1>6, <4>1, <4>2, <4>3, RestIs
      <4> QED BY <1>4, <1>8, <2>1, <4>2, <4>4
    <3> QED BY <1>0, <2>0, <3>2, <3>3, <3>4 DEF WillPlay, Will
  <2>2. WillPlay(u)' <=> WillPlay(u)
    <3>1. /\ LastIs(r, StartsOf(u), StopsOf(u)) <=> LastIs(q, StartsOf(u), StopsOf(u))
          /\ ~Missing(q, StopsOf(u))
      BY <1>2, <1>3, <1>4, <1>6, <1>8, WillRest
    <3>2. u \notin Ids(ps)
      BY <1>5, <1>9 DEF Ids
    <3> QED BY <1>0, <2>0, <3>1, <3>2 DEF WillPlay, Will
  <2> QED BY <2>1, <2>2
<1>13. WindowDue' <= WindowDue
  <2>1. Count(r, Starts) \in Nat /\ Cardinality(K) \in Nat
    BY <1>0, <1>2, <1>7, Counts, PlayersFinite
  <2>2. /\ WindowDue' = Cardinality(K) + Count(r, Starts) + 0
        /\ WindowDue = Cardinality(K) + Count(r, Starts) + One(timer # None)
    BY <1>0, <1>1, <1>3, <1>7, <1>8, <1>9, <2>1 DEF WindowDue, One
  <2> QED BY <2>1, <2>2 DEF One
<1>14. Suspension'
  <2>1. SUFFICES ASSUME ~crossed PROVE Suspension'
    BY <1>1 DEF Suspension
  <2>2. /\ Missing(q, Pauses) <=> Missing(r, Pauses)
        /\ Missing(q, Resumes) <=> Missing(r, Resumes)
        /\ Missing(q, Starts) <=> Missing(r, Starts)
        /\ \A s : Missing(q, StopsOf(s)) <=> e \notin StopsOf(s) /\ Missing(r, StopsOf(s))
        /\ LastIs(r, Pauses, Resumes) <=> LastIs(q, Pauses, Resumes)
        /\ LastIs(r, Pauses, Resumes \cup Starts) <=> LastIs(q, Pauses, Resumes \cup Starts)
    BY <1>2, <1>3, <1>4, <1>6, <1>8, PauseRest
  <2>3. /\ plugin.paused => \/ LastIs(r, Pauses, Resumes \cup Starts)
                            \/ Missing(r, Pauses) /\ Missing(r, Resumes) /\ Missing(r, Starts)
        /\ ~plugin.paused => ~LastIs(r, Pauses, Resumes)
    BY <1>0, <1>2, <2>1, <2>2 DEF Suspension
  <2>4. ASSUME Missing(r, Pauses), Missing(r, Resumes), NEW k \in DOMAIN ps, ps[k].playing,
               plugin.stop # ps[k].id, Missing(r, StopsOf(ps[k].id))
        PROVE  ps[k].suspended <=> plugin.paused
    <3>1. k \in K /\ ps[k] = players[k] /\ players[k].id # u
      BY <1>5, <1>9, <2>4
    <3>2. Missing(q, StopsOf(players[k].id))
      BY <1>8, <2>2, <2>4, <3>1
    <3> QED BY <1>0, <1>2, <2>1, <2>2, <2>4, <3>1, <3>2 DEF Suspension
  <2> QED BY <1>0, <1>1, <1>3, <2>3, <2>4, ZenonT(60) DEF Suspension
<1> QED BY <1>1, <1>10, <1>11, <1>12, <1>13, <1>14, WindowStep

\* All that is played is stopped, for another game.
LEMMA StopAllKeeps ==
  ASSUME BgmAssumption, MusicInv, events # <<>>, events[1].kind = "now", events[1].do = "stopAll",
         StopAll, UNCHANGED <<course, world, plugin, thread, crossed>>
  PROVE  MusicInv'
<1>0. PICK q, e, K, ps, these, c :
          /\ q = events /\ e = events[1] /\ K = DOMAIN players /\ ps = players'
          /\ these = {k \in DOMAIN players : ~players[k].done}
          /\ c = Cleanups(these)
  OBVIOUS
<1>1. /\ UNCHANGED <<course, midi, stream, begun, plugin, pc, status, request, crossed, timer>>
      /\ players' = [k \in DOMAIN players |-> IF k \in these THEN Stopped(players[k], FALSE)
                                              ELSE players[k]]
  BY <1>0 DEF world, thread, StopAll
<1>2. MusicTypeOK /\ ThreadInv /\ WindowInv /\ Suspension /\ q \in Seq(EventType) /\ q # <<>>
  BY <1>0 DEF MusicInv, MusicTypeOK
<1>3. PICK r : r = Tail(q) \o c /\ events' = r
  BY <1>0 DEF StopAll
<1>4. /\ e \in EventType /\ 1 \in DOMAIN q /\ q[1] = e /\ e.kind = "now" /\ e.kind \in Posted
      /\ e.do = "stopAll"
  BY <1>0, <1>2, TailIs DEF Posted
<1>5. /\ \A k \in these : k \in K /\ ~players[k].done
      /\ \A k \in K \ these : ~players[k].playing
      /\ these \in SUBSET K /\ these \in SUBSET Nat /\ IsFiniteSet(these)
  <2>1. \A k \in K : players[k].done => ~players[k].playing
    BY <1>0, <1>2 DEF WindowInv, Playing
  <2>2. these \in SUBSET K /\ K \subseteq 1 .. MaxSongs /\ IsFiniteSet(K)
    BY <1>0, <1>2, PlayersAre, PlayersFinite
  <2>3. IsFiniteSet(these)
    BY <2>2, FS_Subset
  <2> QED BY <1>0, <2>1, <2>2, <2>3
<1>6. /\ c \in Seq(EventType)
      /\ \A i \in DOMAIN c : c[i].kind = "cleanup" /\ c[i].key \in these
      /\ \A i, j \in DOMAIN c : c[i].key = c[j].key => i = j
  <2>1. c = Cleanups(these)
    BY <1>0
  <2> QED BY <1>5, <2>1, CleanupsAre
<1>7. /\ r \in Seq(EventType) /\ OrderlyIs(r) /\ Count(q, Starts) = Count(r, Starts) + (IF e \in Starts THEN 1 ELSE 0)
  <2>1. OrderlyIs(q)
    BY <1>0, <1>2 DEF WindowInv, Orderly
  <2>2. \A i \in DOMAIN c : c[i].kind = "cleanup"
    BY <1>6
  <2>3. r \in Seq(EventType)
    BY <1>2, <1>3, <1>6, <2>2, RestIs
  <2>4. OrderlyIs(r)
    BY <1>2, <1>3, <1>6, <2>1, <2>2, RestIs, ZenonT(60)
  <2>5. Count(q, Starts) = Count(r, Starts) + (IF q[1] \in Starts THEN 1 ELSE 0)
    BY <1>2, <1>3, <1>6, <2>2, RestIs, ZenonT(60)
  <2> QED BY <1>4, <2>3, <2>4, <2>5
<1>8. /\ e \notin Pauses /\ e \in Resumes /\ e \notin Starts
      /\ \A s : e \notin StartsOf(s) /\ e \in StopsOf(s)
  BY <1>0, <1>4 DEF Pauses, Resumes, Starts, StartsOf, EndsOf, EndsElse, StopsOf
<1>9. /\ DOMAIN ps = K
      /\ \A k \in these : ~ps[k].playing /\ ps[k].done
      /\ \A k \in K \ these : ps[k] = players[k]
      /\ \E keys \in SUBSET (1 .. MaxSongs) : ps \in [keys -> Player]
      /\ \A j, k \in DOMAIN ps : j # k /\ ps[j].playing /\ ps[k].playing => ps[j].id # ps[k].id
      /\ Playing'
  <2>1. /\ these \in SUBSET DOMAIN players /\ DOMAIN ps = DOMAIN players
        /\ ps = [k \in DOMAIN ps |-> ps[k]]
        /\ \A k \in these : ps[k] = Stopped(players[k], FALSE)
        /\ \A k \in DOMAIN players \ these : ps[k] = players[k]
    BY <1>0, <1>1, <1>5
  <2>2. ASSUME NEW k \in these
        PROVE  /\ ps[k] \in Player /\ ~ps[k].playing /\ ps[k].done
               /\ ps[k].id = players[k].id /\ ps[k].file = players[k].file
    <3>1. PICK p \in Player : p = players[k]
      BY <1>2, <2>1, PlayersAre
    <3>2. ps[k] = Stopped(p, FALSE) /\ FALSE \in BOOLEAN
      BY <2>1, <3>1
    <3> QED BY <3>1, <3>2, StoppedIs
  <2>3. /\ \E keys \in SUBSET (1 .. MaxSongs) : ps \in [keys -> Player]
        /\ \A j, k \in DOMAIN ps : j # k /\ ps[j].playing /\ ps[k].playing => ps[j].id # ps[k].id
        /\ \A k \in DOMAIN ps : /\ ps[k].file = ps[k].id /\ ps[k].id \in Replaced
                                /\ ps[k].done \/ ps[k].fading => ~ps[k].playing
    BY <1>2, <2>1, <2>2, StoppedAre, ZenonT(60)
  <2>4. Playing'
    <3>1. players' = ps
      BY <1>0
    <3> QED BY <2>3, <3>1 DEF Playing
  <2> QED BY <1>0, <2>1, <2>2, <2>3, <2>4
<1>10. Ids(ps) = {}
  BY <1>5, <1>9 DEF Ids
<1>11. "film" \notin course /\ timer = None
  <2>1. FilmIs(q)
    BY <1>0, <1>2 DEF WindowInv, Film
  <2>2. ~Missing(q, Resumes)
    BY <1>4, <1>8 DEF Missing
  <2>3. ("film" \in course => Missing(q, Resumes)) /\ (timer # None => "film" \in course)
    BY <2>1 DEF FilmIs
  <2> QED BY <2>2, <2>3
<1>12. MusicTypeOK'
  <2>1. events' \in Seq(EventType) /\ timer' = timer /\ players' = ps
    BY <1>0, <1>1, <1>3, <1>7
  <2>2. /\ \E keys \in SUBSET (1 .. MaxSongs) : ps \in [keys -> Player]
        /\ \A j, k \in DOMAIN ps : j # k /\ ps[j].playing /\ ps[k].playing => ps[j].id # ps[k].id
    BY <1>9
  <2>3. UNCHANGED <<course, midi, stream, begun, plugin, pc, status, request, crossed>>
    BY <1>1
  <2> QED BY <1>2, <2>1, <2>2, <2>3 DEF MusicTypeOK
<1>13. WindowInv'
  <2>1. Cleaning'
    <3>1. CleaningIs(q)
      BY <1>0, <1>2 DEF WindowInv, Cleaning
    <3>2. /\ events' = Tail(q) \o c /\ DOMAIN players' = DOMAIN players
          /\ \A k \in these : k \in DOMAIN players /\ ~players[k].done
          /\ \A k \in DOMAIN players \ these : players'[k] = players[k]
          /\ \A i \in DOMAIN c : players'[c[i].key].done
      BY <1>0, <1>3, <1>5, <1>6, <1>9
    <3> QED BY <1>2, <1>6, <3>1, <3>2, CleaningRest
  <2>2. Film'
    <3>1. Film /\ events # <<>> /\ events' = Tail(events) \o c /\ course' = course /\ timer' = None
      BY <1>0, <1>1, <1>2, <1>3, <1>11 DEF WindowInv
    <3> QED BY <1>2, <1>6, <3>1, FilmRest
  <2> QED BY <1>3, <1>7, <1>9, <2>1, <2>2 DEF WindowInv, Orderly, OrderlyIs
<1>14. \A s \in Songs : WillPlay(s)' <=> WillPlay(s)
  <2>1. \A s : WillPlay(s)' <=> LastIs(r, StartsOf(s), StopsOf(s))
    BY <1>0, <1>1, <1>3, <1>10, <1>11, ZenonT(60) DEF WillPlay, Will, Waits, Ids
  <2>2. ASSUME NEW s
        PROVE  /\ LastIs(r, StartsOf(s), StopsOf(s)) <=> LastIs(q, StartsOf(s), StopsOf(s))
               /\ ~Missing(q, StopsOf(s))
    BY <1>2, <1>3, <1>4, <1>6, <1>8, WillRest
  <2> QED BY <1>0, <2>1, <2>2 DEF WillPlay, Will
<1>15. WindowDue' <= WindowDue
  <2>1. Count(r, Starts) \in Nat
    BY <1>7, Counts
  <2>2. WindowDue' = WindowDue
    BY <1>0, <1>1, <1>3, <1>7, <1>8, <1>9, <2>1 DEF WindowDue
  <2> QED BY <1>2, <2>2, DueIs
<1>16. Suspension'
  <2>0. crossed' = crossed
    BY <1>1
  <2>1. SUFFICES ASSUME ~crossed PROVE Suspension'
    BY <2>0 DEF Suspension
  <2>2. ~Missing(q, Resumes)
    BY <1>4, <1>8 DEF Missing
  <2>3. /\ LastIs(r, Pauses, Resumes) <=> LastIs(q, Pauses, Resumes)
        /\ LastIs(r, Pauses, Resumes \cup Starts) <=> LastIs(q, Pauses, Resumes \cup Starts)
    <3>1. q[1] \in Resumes /\ q[1] \in Resumes \cup Starts /\ q[1].kind \in Posted
      BY <1>4, <1>8
    <3>2. \A i \in DOMAIN c : c[i].kind = "cleanup"
      BY <1>6
    <3> QED BY <1>2, <1>3, <1>6, <3>1, <3>2, PauseRest
  <2>6. /\ plugin.paused => LastIs(r, Pauses, Resumes \cup Starts)
        /\ ~plugin.paused => ~LastIs(r, Pauses, Resumes)
    BY <1>0, <1>2, <2>1, <2>2, <2>3 DEF Suspension
  <2>7. \A k \in DOMAIN ps : ~ps[k].playing
    BY <1>5, <1>9
  <2> QED BY <1>0, <1>1, <1>3, <2>6, <2>7 DEF Suspension
<1> QED BY <1>1, <1>12, <1>13, <1>14, <1>15, <1>16, WindowStep

-----------------------------------------------------------------------------
(* Every step.                                                             *)

\* The window takes an event.
LEMMA HandleKeeps ==
  ASSUME BgmAssumption, Ordinary, MusicInv, Handle
  PROVE  MusicInv'
<1>1. /\ events # <<>> /\ events \in Seq(EventType)
      /\ UNCHANGED <<course, world, plugin, thread, crossed>>
  BY DEF Handle, MusicInv, MusicTypeOK
<1>2. PICK e \in EventType : e = events[1] /\ e = Head(events)
  BY <1>1, TailIs
<1>3. \/ e.kind = "asyncStart" /\ AsyncStart(e)
      \/ e.kind = "asyncStop" /\ Post([e EXCEPT !.kind = "stop"])
      \/ e.kind = "async" /\ Post([e EXCEPT !.kind = "now"])
      \/ e.kind = "start" /\ Start(e)
      \/ e.kind = "stop" /\ Stop(e)
      \/ e.kind = "now" /\ e.do = "stopAll" /\ StopAll
      \/ e.kind = "now" /\ e.do # "stopAll" /\ Suspend(e.do = "pause")
      \/ e.kind = "cleanup" /\ Cleanup(e.key)
  BY <1>2 DEF Handle
<1>4. CASE e.kind = "asyncStart" /\ AsyncStart(e) /\ e.flag
  <2>1. /\ timer' = [id |-> events[1].id, file |-> events[1].file]
        /\ events' = Tail(events) /\ UNCHANGED players
    BY <1>2, <1>4 DEF AsyncStart
  <2>2. events[1].kind = "asyncStart" /\ events[1].flag
    BY <1>2, <1>4
  <2>3. UNCHANGED <<course, world, plugin, thread, crossed, players>>
    BY <1>1, <2>1
  <2> QED BY <1>1, <2>1, <2>2, <2>3, DelayKeeps
<1>5. CASE e.kind = "asyncStart" /\ AsyncStart(e) /\ ~e.flag
  <2>1. PICK f : f = [e EXCEPT !.kind = "start"]
    OBVIOUS
  <2>2. /\ f \in EventType /\ f.kind = "start" /\ ~f.flag /\ f.id = e.id /\ f.file = e.file
    BY <1>5, <2>1 DEF EventType
  <2>3. events' = Append(Tail(events), f) /\ UNCHANGED <<timer, players>>
    BY <1>5, <2>1 DEF AsyncStart, Post
  <2>4. UNCHANGED <<course, world, plugin, thread, crossed, timer, players>>
    BY <1>1, <2>3
  <2>5. /\ events[1].kind = "asyncStart" /\ ~events[1].flag /\ f.kind = "start" /\ ~f.flag
        /\ f.id = events[1].id /\ f.file = events[1].file
    BY <1>2, <1>5, <2>2
  <2> QED BY <1>1, <2>2, <2>3, <2>4, <2>5, PostKeeps
<1>6. CASE e.kind = "asyncStop" /\ Post([e EXCEPT !.kind = "stop"])
  <2>1. PICK f : f = [e EXCEPT !.kind = "stop"]
    OBVIOUS
  <2>2. f \in EventType /\ f.kind = "stop" /\ f.id = e.id
    BY <1>6, <2>1 DEF EventType
  <2>3. events' = Append(Tail(events), f) /\ UNCHANGED <<timer, players>>
    BY <1>6, <2>1 DEF Post
  <2>4. UNCHANGED <<course, world, plugin, thread, crossed, timer, players>>
    BY <1>1, <2>3
  <2>5. events[1].kind = "asyncStop" /\ f.kind = "stop" /\ f.id = events[1].id
    BY <1>2, <1>6, <2>2
  <2> QED BY <1>1, <2>2, <2>3, <2>4, <2>5, PostKeeps
<1>7. CASE e.kind = "async" /\ Post([e EXCEPT !.kind = "now"])
  <2>1. PICK f : f = [e EXCEPT !.kind = "now"]
    OBVIOUS
  <2>2. f \in EventType /\ f.kind = "now" /\ f.do = e.do
    BY <1>7, <2>1 DEF EventType
  <2>3. events' = Append(Tail(events), f) /\ UNCHANGED <<timer, players>>
    BY <1>7, <2>1 DEF Post
  <2>4. UNCHANGED <<course, world, plugin, thread, crossed, timer, players>>
    BY <1>1, <2>3
  <2>5. events[1].kind = "async" /\ f.kind = "now" /\ f.do = events[1].do
    BY <1>2, <1>7, <2>2
  <2> QED BY <1>1, <2>2, <2>3, <2>4, <2>5, PostKeeps
<1>8. CASE e.kind = "start" /\ Start(e)
  BY <1>1, <1>2, <1>8, StartKeeps
<1>9. CASE e.kind = "stop" /\ Stop(e)
  BY <1>1, <1>2, <1>9, StopKeeps
<1>10. CASE e.kind = "now" /\ e.do = "stopAll" /\ StopAll
  BY <1>1, <1>2, <1>10, StopAllKeeps
<1>11. CASE e.kind = "now" /\ e.do # "stopAll" /\ Suspend(e.do = "pause")
  <2>1. PICK y : y = (e.do = "pause")
    OBVIOUS
  <2>2. Suspend(events[1].do = "pause")
    BY <1>2, <1>11
  <2> QED BY <1>1, <1>2, <1>11, <2>2, SuspendKeeps
<1>12. CASE e.kind = "cleanup" /\ Cleanup(e.key)
  BY <1>1, <1>2, <1>12, CleanupKeeps
<1> QED BY <1>3, <1>4, <1>5, <1>6, <1>7, <1>8, <1>9, <1>10, <1>11, <1>12

LEMMA InitMusicInv ==
  ASSUME BgmAssumption, Ordinary, MusicInit
  PROVE  MusicInv
<1>1. /\ course \in Courses /\ midi = Silence /\ stream = Silence /\ begun = 0 /\ plugin = NewPlugin
      /\ pc = "refresh" /\ status = "running" /\ request = "none"
      /\ events = <<>> /\ timer = None /\ players = <<>> /\ crossed = FALSE
  BY DEF MusicInit
<1>2. /\ DOMAIN events = {} /\ events \in Seq(EventType) /\ DOMAIN players = {}
      /\ players \in [{} -> Player] /\ {} \in SUBSET (1 .. MaxSongs)
  BY <1>1
<1>3. /\ plugin \in PluginType /\ plugin.seen = "stopped" /\ plugin.seenStream = "stopped"
      /\ plugin.current = None /\ plugin.file = None /\ ~plugin.isStream /\ ~plugin.pending
      /\ plugin.start = "no" /\ plugin.stop = None /\ ~plugin.fade
      /\ ~plugin.pause /\ ~plugin.unpause /\ ~plugin.paused
  BY <1>1 DEF NewPlugin, PluginType, MidiStates, StreamStates
<1>4. /\ midi.state = "stopped" /\ midi.song = None /\ stream.state = "stopped" /\ stream.song = None
      /\ midi \in [state : MidiStates, song : Songs \cup {None}]
      /\ stream \in [state : StreamStates, song : Songs \cup {None}]
  BY <1>1 DEF Silence, MidiStates, StreamStates
<1>5. MusicTypeOK
  <2>1. begun \in 0 .. MaxSongs
    BY <1>1 DEF BgmAssumption
  <2> QED BY <1>1, <1>2, <1>3, <1>4, <2>1 DEF MusicTypeOK
<1>6. ThreadInv
  <2>1. World /\ Follows /\ Flags
    BY <1>1, <1>3, <1>4 DEF World, Follows, SawMidi, SawStream, Flags
  <2>2. Knows(plugin)
    BY <1>3, <1>4 DEF Knows, BgmAssumption, Songs
  <2>3. Presses
    BY <1>1, <1>3 DEF Presses, WillPause, Pausing
  <2> QED BY <2>1, <2>2, <2>3 DEF ThreadInv
<1>7. WindowInv
  BY <1>1, <1>2, Empty DEF WindowInv, Orderly, OrderlyIs, Cleaning, CleaningIs, Playing, Film, FilmIs
<1>8. Decided(plugin)
  <2>1. \A s \in Songs : ~WillPlay(s)
    BY <1>1, <1>2, Empty DEF WillPlay, Will, Waits, Ids
  <2>2. None \notin Songs
    BY DEF BgmAssumption
  <2> QED BY <1>3, <2>1, <2>2 DEF Decided
<1>9. Counted
  <2>1. Cardinality(DOMAIN players) = 0 /\ Count(events, Starts) = 0
    <3>1. {i \in DOMAIN events : events[i] \in Starts} = {}
      BY <1>2
    <3> QED BY <1>2, <3>1, FS_EmptySet DEF Count
  <2>2. ~MidiDue(plugin) /\ ~StreamDue(plugin)
    BY <1>4 DEF MidiDue, StreamDue
  <2> QED BY <1>1, <1>3, <2>1, <2>2 DEF Counted, WindowDue, PluginDue, One
<1>10. Suspension
  BY <1>1, <1>2, <1>3, Empty DEF Suspension, LastIs
<1> QED BY <1>5, <1>6, <1>7, <1>8, <1>9, <1>10 DEF MusicInv

LEMMA NextMusicInv ==
  ASSUME BgmAssumption, Ordinary, MusicInv, [MusicNext]_musicVars
  PROVE  MusicInv'
<1>1. CASE Refresh
  BY <1>1, RefreshKeeps
<1>2. CASE Frame
  BY <1>2, FrameKeeps
<1>3. CASE Relay
  BY <1>3, RelayKeeps
<1>4. CASE Messages
  BY <1>4, MessagesKeeps
<1>5. CASE Press
  BY <1>5, PressKeeps
<1>6. CASE LoadState
  BY <1>6, LoadStateKeeps
<1>7. CASE LoadGame
  BY <1>7, LoadGameKeeps
<1>8. CASE Handle
  BY <1>8, HandleKeeps
<1>9. CASE TimerFires
  BY <1>9, TimerFiresKeeps
<1>10. CASE FadeEnds
  BY <1>10, FadeEndsKeeps
<1>11. CASE UNCHANGED musicVars
  <2>1. /\ UNCHANGED <<course, midi, stream, begun, plugin, pc, status, request, events, timer, players,
                       crossed>>
    BY <1>11 DEF musicVars, world, thread, window
  <2>2. MusicTypeOK'
    BY <2>1 DEF MusicInv, MusicTypeOK
  <2>3. ThreadInv'
    <3>1. World' /\ Follows' /\ Flags'
      BY <2>1 DEF MusicInv, ThreadInv, World, Follows, SawMidi, SawStream, Flags
    <3>2. Knows(plugin)'
      BY <2>1 DEF MusicInv, ThreadInv, Knows
    <3>3. Presses'
      BY <2>1 DEF MusicInv, ThreadInv, Presses, WillPause, Pausing
    <3> QED BY <3>1, <3>2, <3>3 DEF ThreadInv
  <2>4. WindowInv'
    BY <2>1 DEF MusicInv, WindowInv, Orderly, OrderlyIs, Cleaning, CleaningIs, Playing, Film, FilmIs
  <2>5. \A s : WillPlay(s)' <=> WillPlay(s)
    BY <2>1 DEF WillPlay, Will, Waits, Ids
  <2>6. Decided(plugin)'
    BY <2>1, <2>5 DEF MusicInv, Decided
  <2>7. Counted'
    BY <2>1 DEF MusicInv, Counted, WindowDue, PluginDue, MidiDue, StreamDue
  <2>8. Suspension'
    BY <2>1 DEF MusicInv, Suspension
  <2> QED BY <2>2, <2>3, <2>4, <2>6, <2>7, <2>8 DEF MusicInv
<1> QED BY <1>1, <1>2, <1>3, <1>4, <1>5, <1>6, <1>7, <1>8, <1>9, <1>10, <1>11 DEF MusicNext, Loop

LEMMA MusicInvariance ==
  ASSUME Ordinary
  PROVE  MusicSpec => []MusicInv
<1>1. MusicInit => MusicInv
  BY BgmAssumption, InitMusicInv
<1>2. MusicInv /\ [MusicNext]_musicVars => MusicInv'
  BY BgmAssumption, NextMusicInv
<1> QED BY <1>1, <1>2, PTL DEF MusicSpec

\* The types are kept, no more players than songs have begun are ever there, and none plays what
\* another plays (BgmReplacement).
THEOREM MusicTypesHold ==
  ASSUME Ordinary
  PROVE  MusicSpec => []MusicTypeOK
<1>1. MusicInv => MusicTypeOK
  BY DEF MusicInv
<1> QED BY <1>1, MusicInvariance, PTL

\* Once everything decided has been carried out one hears what the game would play, from its file
\* and from one player, and paused when the game is (BgmReplacement).
THEOREM HeardHolds ==
  ASSUME Ordinary
  PROVE  MusicSpec => []Heard
<1>1. MusicInv => Heard
  BY BgmAssumption, RestHeard
<1> QED BY <1>1, MusicInvariance, PTL
=============================================================================

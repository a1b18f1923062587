--------------------------------- MODULE Ipc ---------------------------------
(***************************************************************************)
(* Communication between the ARM9 and the ARM7 (NDS.cpp): the IPCSYNC      *)
(* register, the two IPC FIFOs with their control register, and the        *)
(* interrupt controller that both raise interrupts through.  The code has  *)
(* every register handler twice, once for each CPU; here a handler has the *)
(* CPU that executes it as a parameter.                                    *)
(***************************************************************************)
EXTENDS Fifo, FiniteSets

CONSTANTS Words,        \* the words sent
          Nibbles,      \* the values written to IPCSYNC
          Masks,        \* the values written to IE
          Senders,      \* the CPUs that send words
          Uses          \* which of the registers the programs use

Cpus == {"ARM9", "ARM7"}
Other(c) == IF c = "ARM9" THEN "ARM7" ELSE "ARM9"

\* The interrupts of this part: IRQ_IPCSync, IRQ_IPCSendDone, IRQ_IPCRecv.
Irqs == {"Sync", "SendDone", "Recv"}

Registers == {"IME", "IE", "IF", "IPCSYNC", "IPCFIFOCNT", "IPCFIFOSEND", "IPCFIFORECV"}

ASSUME IpcAssumption ==
    /\ Words \subseteq Data
    /\ Masks \subseteq SUBSET Irqs
    /\ Senders \subseteq Cpus
    /\ Uses \subseteq SUBSET Registers

VARIABLES
    fifo,    \* fifo[c]: what c sends (IPCFIFO9, IPCFIFO7)
    cnt,     \* IPCFIFOCnt: bits 2, 10, 15 and the error bit 14
    sync,    \* IPCSync: the nibble received, the nibble sent, bit 14
    ime, ie, if,
    line,    \* ARM::IRQ, the interrupt line of the CPU
    use      \* the registers used in this behaviour

irqs == <<ime, ie, if, line>>
vars == <<fifo, cnt, sync, irqs, use>>

CntType  == [sendIrq : BOOLEAN, recvIrq : BOOLEAN, enable : BOOLEAN, error : BOOLEAN]
SyncType == [in : Nibbles \cup {0}, out : Nibbles \cup {0}, irq : BOOLEAN]

Init ==
    /\ fifo = [c \in Cpus |-> NewFifo]
    /\ cnt = [c \in Cpus |-> [sendIrq |-> FALSE, recvIrq |-> FALSE,
                              enable |-> FALSE, error |-> FALSE]]
    /\ sync = [c \in Cpus |-> [in |-> 0, out |-> 0, irq |-> FALSE]]
    /\ ime = [c \in Cpus |-> FALSE]
    /\ ie = [c \in Cpus |-> {}]
    /\ if = [c \in Cpus |-> {}]
    /\ line = [c \in Cpus |-> FALSE]
    /\ use \in Uses

-----------------------------------------------------------------------------
(* The interrupt controller. *)

Interrupting(c, m, e, f) == m[c] /\ e[c] \cap f[c] # {}

\* UpdateIRQ, on the values the registers are about to have.
UpdateIRQ(c) == line' = [line EXCEPT ![c] = Interrupting(c, ime', ie', if')]

\* A defective variant: the line is left for the next register write.
SetIRQSilently(c, S) ==
    /\ if' = [if EXCEPT ![c] = @ \cup S]
    /\ UNCHANGED <<ime, ie, line>>

\* SetIRQ for each interrupt of a set.
SetIRQ(c, S) ==
    /\ if' = [if EXCEPT ![c] = @ \cup S]
    /\ UNCHANGED <<ime, ie>>
    /\ IF S = {} THEN UNCHANGED line ELSE UpdateIRQ(c)

WriteIME(c) ==
    /\ \E on \in BOOLEAN : ime' = [ime EXCEPT ![c] = on]
    /\ UNCHANGED <<ie, if, fifo, cnt, sync>>
    /\ UpdateIRQ(c)

WriteIE(c) ==
    /\ \E m \in Masks : ie' = [ie EXCEPT ![c] = m]
    /\ UNCHANGED <<ime, if, fifo, cnt, sync>>
    /\ UpdateIRQ(c)

\* Writing IF acknowledges interrupts.
WriteIF(c) ==
    /\ if[c] # {}
    /\ \E S \in SUBSET if[c] : if' = [if EXCEPT ![c] = @ \ S]
    /\ UNCHANGED <<ime, ie, fifo, cnt, sync>>
    /\ UpdateIRQ(c)

-----------------------------------------------------------------------------
(* IPCSYNC. *)

\* The nibble, the enable bit and the request to interrupt the other CPU.
WriteSync(c) ==
    /\ \E n \in Nibbles, irq \in BOOLEAN, send \in BOOLEAN :
        /\ sync' = [sync EXCEPT ![Other(c)].in = n, ![c].out = n, ![c].irq = irq]
        /\ SetIRQ(Other(c), IF send /\ sync[Other(c)].irq THEN {"Sync"} ELSE {})
    /\ UNCHANGED <<fifo, cnt>>

-----------------------------------------------------------------------------
(* The IPC FIFOs. *)

\* A defective variant: enabling the interrupt does not look at what has
\* arrived already.
WriteFifoCntBlind(c) ==
    /\ \E clear, sendIrq, recvIrq, enable, ack \in BOOLEAN :
        LET f == IF clear THEN Clear(fifo[c]) ELSE fifo[c]
            raised == IF sendIrq /\ ~cnt[c].sendIrq /\ IsEmpty(f)
                      THEN {"SendDone"} ELSE {}
        IN  /\ fifo' = [fifo EXCEPT ![c] = f]
            /\ cnt' = [cnt EXCEPT ![c] = [sendIrq |-> sendIrq, recvIrq |-> recvIrq,
                                          enable |-> enable, error |-> @.error /\ ~ack]]
            /\ SetIRQ(c, raised)
    /\ UNCHANGED sync

\* IPCFIFOCNT: clear the send FIFO, set the enable bits, acknowledge an error.
\* Enabling an interrupt whose condition holds raises it.
WriteFifoCnt(c) ==
    /\ \E clear, sendIrq, recvIrq, enable, ack \in BOOLEAN :
        LET f == IF clear THEN Clear(fifo[c]) ELSE fifo[c]
            done == sendIrq /\ ~cnt[c].sendIrq /\ IsEmpty(f)
            recv == recvIrq /\ ~cnt[c].recvIrq /\ ~IsEmpty(fifo[Other(c)])
        IN  /\ fifo' = [fifo EXCEPT ![c] = f]
            /\ cnt' = [cnt EXCEPT ![c] = [sendIrq |-> sendIrq, recvIrq |-> recvIrq,
                                          enable |-> enable, error |-> @.error /\ ~ack]]
            /\ SetIRQ(c, (IF done THEN {"SendDone"} ELSE {})
                         \cup (IF recv THEN {"Recv"} ELSE {}))
    /\ UNCHANGED sync

\* IPCFIFOSEND: the other CPU is interrupted when its FIFO was empty.
SendWord(c) ==
    /\ c \in Senders /\ cnt[c].enable
    /\ \/ /\ IsFull(fifo[c])
          /\ cnt' = [cnt EXCEPT ![c].error = TRUE]
          /\ UNCHANGED <<fifo, irqs>>
       \/ /\ ~IsFull(fifo[c])
          /\ \E w \in Words : fifo' = [fifo EXCEPT ![c] = Write(@, w)]
          /\ SetIRQ(Other(c), IF cnt[Other(c)].recvIrq /\ IsEmpty(fifo[c])
                              THEN {"Recv"} ELSE {})
          /\ UNCHANGED cnt
    /\ UNCHANGED sync

\* IPCFIFORECV: the sender is interrupted when its FIFO has become empty.  With
\* the FIFO disabled a read only peeks.
RecvWord(c) ==
    /\ cnt[c].enable
    /\ LET o == Other(c)
       IN  \/ /\ IsEmpty(fifo[o])
              /\ cnt' = [cnt EXCEPT ![c].error = TRUE]
              /\ UNCHANGED <<fifo, irqs>>
           \/ /\ ~IsEmpty(fifo[o])
              /\ fifo' = [fifo EXCEPT ![o] = Read(@)]
              /\ SetIRQ(o, IF IsEmpty(fifo'[o]) /\ cnt[o].sendIrq THEN {"SendDone"} ELSE {})
              /\ UNCHANGED cnt
    /\ UNCHANGED sync

Next ==
    /\ UNCHANGED use
    /\ \E c \in Cpus :
        \/ "IME" \in use /\ WriteIME(c)
        \/ "IE" \in use /\ WriteIE(c)
        \/ "IF" \in use /\ WriteIF(c)
        \/ "IPCSYNC" \in use /\ WriteSync(c)
        \/ "IPCFIFOCNT" \in use /\ WriteFifoCnt(c)
        \/ "IPCFIFOSEND" \in use /\ SendWord(c)
        \/ "IPCFIFORECV" \in use /\ RecvWord(c)

Spec == Init /\ [][Next]_vars

-----------------------------------------------------------------------------
(* Properties. *)

TypeOK ==
    /\ fifo \in [Cpus -> FifoType]
    /\ cnt \in [Cpus -> CntType]
    /\ sync \in [Cpus -> SyncType]
    /\ ime \in [Cpus -> BOOLEAN] /\ line \in [Cpus -> BOOLEAN]
    /\ ie \in [Cpus -> SUBSET Irqs] /\ if \in [Cpus -> SUBSET Irqs]
    /\ use \in Uses

\* The interrupt line of each CPU follows its registers, whoever changed them.
LineFollows == \A c \in Cpus : line[c] = Interrupting(c, ime, ie, if)

\* The receive condition of c: a word is waiting and c wants to be told.
Waiting(c) == cnt[c].recvIrq /\ ~IsEmpty(fifo[Other(c)])
Drained(c) == cnt[c].sendIrq /\ IsEmpty(fifo[c])

\* However the two CPUs interleave, a word never comes to wait for a CPU that
\* wants to be interrupted without the interrupt becoming pending.
RecvSignalled ==
    [][ \A c \in Cpus : (~Waiting(c) /\ Waiting(c)') => "Recv" \in if'[c] ]_vars

\* The same of a FIFO that runs empty: the sender that wants to be told is,
\* whether the other CPU reads the last word or the sender asks only then.  Not
\* so when the sender itself clears a FIFO whose interrupt is already enabled.
SendDoneSignalled ==
    [][ \A c \in Cpus :
            (~Drained(c) /\ Drained(c)' /\ (cnt[c].sendIrq => ~WriteFifoCnt(c)))
                => "SendDone" \in if'[c] ]_vars

\* Nobody waits untold for the other CPU's word or for a FIFO to run empty (the
\* interrupts raised in the register handlers of NDS.cpp).
Signalled == RecvSignalled /\ SendDoneSignalled

\* The two ring buffers with their control registers are two bounded queues:
\* no word is lost, duplicated or reordered without an error being reported.
ChannelOf == INSTANCE Channel WITH
                Cpus <- Cpus, Data <- Words, Capacity <- NumEntries,
                queue <- [c \in Cpus |-> Contents(fifo[c])],
                error <- [c \in Cpus |-> cnt[c].error]
ImplementsChannel == ChannelOf!Spec
=============================================================================

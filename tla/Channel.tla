------------------------------- MODULE Channel -------------------------------
(***************************************************************************)
(* What the IPC FIFOs promise the two CPUs, without ring buffers, control  *)
(* registers or interrupts: each CPU has a bounded queue to the other.  A  *)
(* word arrives once and in order; a word that cannot be queued, or a read *)
(* with nothing to read, is reported to the CPU that tried.                *)
(***************************************************************************)
EXTENDS Naturals, Sequences

CONSTANTS Cpus, Data, Capacity

VARIABLES queue,  \* queue[c]: the words c has sent and the other not yet read
          error   \* error[c]: c has overrun its queue or read an empty one

vars == <<queue, error>>

Init == queue = [c \in Cpus |-> <<>>] /\ error = [c \in Cpus |-> FALSE]

Send(c, w) ==
    /\ Len(queue[c]) < Capacity
    /\ queue' = [queue EXCEPT ![c] = Append(@, w)]
    /\ UNCHANGED error

Receive(c, d) ==
    /\ queue[d] # <<>>
    /\ queue' = [queue EXCEPT ![d] = Tail(@)]
    /\ UNCHANGED error

\* A refused send or read; an acknowledgement, which may come with a flush.
Refuse(c) ==
    /\ error' = [error EXCEPT ![c] = TRUE]
    /\ UNCHANGED queue

Control(c) ==
    /\ \E ack \in BOOLEAN : error' = [error EXCEPT ![c] = @ /\ ~ack]
    /\ \E flush \in BOOLEAN : queue' = [queue EXCEPT ![c] = IF flush THEN <<>> ELSE @]

Next == \E c \in Cpus :
            \/ \E w \in Data : Send(c, w)
            \/ \E d \in Cpus \ {c} : Receive(c, d)
            \/ Refuse(c) \/ Control(c)

Spec == Init /\ [][Next]_vars
=============================================================================

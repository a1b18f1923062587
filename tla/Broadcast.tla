------------------------------ MODULE Broadcast ------------------------------
(***************************************************************************)
(* What LocalMP promises the emulated consoles, without ring buffers,      *)
(* offsets or semaphores: whoever is a member gets every message sent      *)
(* since it joined, once and in order, and the replies that wait for a     *)
(* host are those sent since its last command.  When somebody falls too    *)
(* far behind nothing is promised any more.                                *)
(***************************************************************************)
EXTENDS Sequences

CONSTANTS Insts,     \* the instances that can join
          Messages,  \* what is sent to all
          Replies    \* what is sent to the host

VARIABLES members,   \* who takes part
          inbox,     \* inbox[i]: the messages i has yet to look at
          box,       \* the replies the host has yet to look at
          broken     \* somebody has fallen too far behind

vars == <<members, inbox, box, broken>>

Init ==
    /\ members = {} /\ broken = FALSE
    /\ inbox = [i \in Insts |-> <<>>] /\ box = <<>>

\* Joining and leaving, a host also forgets its replies.
Forget == box' = <<>> \/ UNCHANGED box

Join(i) ==
    /\ members' = members \cup {i}
    /\ Forget
    /\ inbox' = [inbox EXCEPT ![i] = <<>>]
    /\ UNCHANGED broken

Leave(i) ==
    /\ members' = members \ {i}
    /\ Forget
    /\ inbox' = [inbox EXCEPT ![i] = <<>>]
    /\ UNCHANGED broken

\* Every member, the sender i among them, finds the same new message at the end of its
\* inbox.  A command also forgets the replies to the one before.
Send(i) ==
    /\ UNCHANGED <<members, broken>>
    /\ Forget
    /\ i \in members /\ inbox'[i] # <<>>
    /\ LET new == inbox'[i][Len(inbox'[i])]
       IN  /\ new \in Messages
           /\ inbox' = [j \in Insts |-> IF j \in members THEN Append(inbox[j], new)
                                                          ELSE inbox[j]]

Receive(i) ==
    /\ UNCHANGED <<members, broken>>
    /\ inbox[i] # <<>>
    /\ inbox' = [inbox EXCEPT ![i] = Tail(@)]
    /\ UNCHANGED box

Reply ==
    /\ UNCHANGED <<members, broken>>
    /\ box' # <<>>
    /\ LET new == box'[Len(box')] IN new \in Replies /\ box' = Append(box, new)
    /\ UNCHANGED inbox

Collect ==
    /\ UNCHANGED <<members, broken>>
    /\ box # <<>>
    /\ box' = Tail(box)
    /\ UNCHANGED inbox

Break ==
    /\ broken' = TRUE
    /\ inbox' = [i \in Insts |-> <<>>] /\ box' = <<>>
    /\ UNCHANGED members

Next ==
    \/ \E i \in Insts : Join(i) \/ Leave(i) \/ Send(i) \/ Receive(i)
    \/ Reply \/ Collect
    \/ Break
    \/ broken /\ UNCHANGED <<inbox, box, broken>>

Spec == Init /\ [][Next]_vars
=============================================================================

------------------------------- MODULE LocalMP -------------------------------
(***************************************************************************)
(* Local multiplayer (net/LocalMP.cpp): the consoles of several emulator   *)
(* instances, each on a thread of its own, exchange wifi frames through    *)
(* two rings in shared memory.  The packet ring is read by everyone, each  *)
(* with an offset of its own; the reply ring by the host of the game.  A   *)
(* sender writes under MPQueueLock and posts the readers' semaphores after *)
(* unlocking; a reader takes its semaphore first and locks then.  Nothing  *)
(* keeps a sender from overtaking a reader: `torn' records that one did.   *)
(* A frame is its header and Length cells of payload.                      *)
(***************************************************************************)
EXTENDS Integers, FiniteSets, FiniteSetsExt, Sequences

CONSTANTS Insts, Hosts,  \* the instances, numbers, and those that start a game
          PacketCells,   \* kPacketQueueSize
          ReplyCells,    \* kReplyQueueSize
          Lengths,       \* of packets
          ReplyLengths,  \* of replies; an empty one tells the host not to wait
          Prompt,        \* whether posts are made before their reader, or the
                         \* host of the reply, resets the semaphore
          Budgets        \* bounds: how many packets and commands are sent and
                         \* how often wifi is switched on, a record of three

ASSUME LocalMPAssumption ==
    /\ Insts \subseteq Nat /\ IsFiniteSet(Insts) /\ Hosts \subseteq Insts /\ Hosts # {}
    /\ PacketCells \in Nat \ {0} /\ ReplyCells \in Nat \ {0}
    /\ Lengths \subseteq Nat \ {0} /\ ReplyLengths \subseteq Nat
    /\ \A l \in Lengths : l + 1 < PacketCells
    /\ \A l \in ReplyLengths : l + 1 < ReplyCells
    /\ Prompt \in BOOLEAN
    /\ Budgets \subseteq [packets : Nat, commands : Nat, stays : Nat]

VARIABLES
    packets, replies,       \* MPPacketQueue and MPReplyQueue with their write offsets
    packetRead, replyRead,  \* PacketReadOffset, ReplyReadOffset
    packetSem, replySem,    \* SemPool[i], SemPool[16 + i]
    connected,              \* ConnectedBitmask
    hostInst,               \* MPHostinst
    at, to,                 \* where an instance is; whom it has yet to post
    ask,                    \* the header of the command it has yet to answer
    task,                   \* the arguments and locals of the host's RecvReplies
    answers,                \* who has really answered the current command
    round,                  \* the time, in commands
    budget,                 \* what is left of the budget
    torn                    \* a reader was overtaken

rings == <<packets, replies, packetRead, replyRead, packetSem, replySem>>
vars  == <<rings, connected, hostInst, at, to, ask, task, answers, round, budget, torn>>

-----------------------------------------------------------------------------
(* The rings: FIFOWrite and FIFORead, which wrap at the end.               *)

Blank == [head |-> FALSE, n |-> 0, from |-> CHOOSE i \in Insts : TRUE,
          type |-> 0, len |-> 0, stamp |-> 0]

Ring(size) == [cell |-> [p \in 0 .. size - 1 |-> Blank], write |-> 0, size |-> size]

\* A defective variant: the offset does not wrap when it meets the end.
FIFOWritePast(ring, m) ==
    [ring EXCEPT !.cell = [p \in DOMAIN @ |->
                             LET d == (p - ring.write) % ring.size
                             IN  IF d > m.len THEN @[p] ELSE [m EXCEPT !.head = (d = 0)]],
                 !.write = IF @ + m.len + 1 > ring.size THEN (@ + m.len + 1) % ring.size
                                                        ELSE @ + m.len + 1]

FIFOWrite(ring, m) ==
    [ring EXCEPT !.cell = [p \in DOMAIN @ |->
                             LET d == (p - ring.write) % ring.size
                             IN  IF d > m.len THEN @[p] ELSE [m EXCEPT !.head = (d = 0)]],
                 !.write = (@ + m.len + 1) % ring.size]

\* The offset behind the frame at offset p, whether it is copied or skipped.
Behind(ring, p) == (p + ring.cell[p].len + 1) % ring.size

\* Whether writing m overtakes a reader at offset p, or meets it.
Overtakes(ring, p, m) == ((ring.write - p) % ring.size) + m.len + 1 >= ring.size

-----------------------------------------------------------------------------
NoTask == [round |-> 0, members |-> {}, wanted |-> {}, heard |-> {}, got |-> {}]

Init ==
    /\ packets = Ring(PacketCells) /\ replies = Ring(ReplyCells)
    /\ packetRead = [i \in Insts |-> 0] /\ replyRead = [i \in Insts |-> 0]
    /\ packetSem = [i \in Insts |-> 0] /\ replySem = [i \in Insts |-> 0]
    /\ connected = {}
    /\ hostInst = CHOOSE i \in Insts : TRUE
    /\ at = [i \in Insts |-> "idle"] /\ to = [i \in Insts |-> {}]
    /\ ask = [i \in Insts |-> Blank]
    /\ task = NoTask
    /\ answers = {}
    /\ round = 0 /\ budget \in Budgets
    /\ torn = FALSE

Due(i) == {j \in Insts : i \in to[j]}
Late   == {j \in Insts : at[j] = "answer"}

\* A defective variant: the tokens of an earlier stay are kept.
BeginTokens(i) ==
    /\ at[i] = "idle" /\ i \notin connected /\ budget.stays > 0
    /\ Prompt => Due(i) = {} /\ (i = hostInst => Late = {})
    /\ packetRead' = [packetRead EXCEPT ![i] = packets.write]
    /\ replyRead' = [replyRead EXCEPT ![i] = replies.write]
    /\ connected' = connected \cup {i}
    /\ budget' = [budget EXCEPT !.stays = @ - 1]
    /\ UNCHANGED <<packets, replies, packetSem, replySem, hostInst, at, to, ask, task,
                   answers, round, torn>>

\* Wifi is switched on.
Begin(i) ==
    /\ at[i] = "idle" /\ i \notin connected /\ budget.stays > 0
    /\ Prompt => Due(i) = {} /\ (i = hostInst => Late = {})
    /\ packetRead' = [packetRead EXCEPT ![i] = packets.write]
    /\ replyRead' = [replyRead EXCEPT ![i] = replies.write]
    /\ packetSem' = [packetSem EXCEPT ![i] = 0]
    /\ replySem' = [replySem EXCEPT ![i] = 0]
    /\ connected' = connected \cup {i}
    /\ budget' = [budget EXCEPT !.stays = @ - 1]
    /\ UNCHANGED <<packets, replies, hostInst, at, to, ask, task, answers, round,
                   torn>>

\* Wifi is switched off: the frames and tokens are left alone.
End(i) ==
    /\ at[i] \in {"idle", "commanded"} /\ i \in connected
    /\ connected' = connected \ {i}
    /\ at' = [at EXCEPT ![i] = "idle"]
    /\ ask' = [ask EXCEPT ![i] = Blank]
    /\ UNCHANGED <<rings, hostInst, to, task, answers, round, budget, torn>>

-----------------------------------------------------------------------------
(* Sending: the locked part, then the posts one by one.                    *)

\* A number no other packet has: it tells packets apart.
Number == budget.packets + budget.commands

SendPacket(i, len) ==
    LET m == [head |-> TRUE, n |-> Number, from |-> i, type |-> 0, len |-> len,
              stamp |-> 0]
    IN  /\ at[i] = "idle" /\ i \in connected
        /\ budget.packets > 0
        /\ packets' = FIFOWrite(packets, m)
        /\ torn' = (torn \/ \E j \in connected : Overtakes(packets, packetRead[j], m))
        /\ at' = [at EXCEPT ![i] = "post"] /\ to' = [to EXCEPT ![i] = connected]
        /\ budget' = [budget EXCEPT !.packets = @ - 1]
        /\ UNCHANGED <<replies, packetRead, replyRead, packetSem, replySem, connected,
                       hostInst, ask, task, answers, round>>

\* The host's command opens a round: the replies to the one before are dropped.
SendCmd(i, len) ==
    LET m == [head |-> TRUE, n |-> Number, from |-> i, type |-> 1, len |-> len,
              stamp |-> round + 1]
    IN  /\ i \in Hosts
        /\ at[i] = "idle" /\ i \in connected
        /\ Prompt => Late = {}
        /\ budget.commands > 0
        /\ packets' = FIFOWrite(packets, m)
        /\ torn' = (torn \/ \E j \in connected : Overtakes(packets, packetRead[j], m))
        /\ hostInst' = i
        /\ replyRead' = [replyRead EXCEPT ![i] = replies.write]
        /\ replySem' = [replySem EXCEPT ![i] = 0]
        /\ at' = [at EXCEPT ![i] = "command"] /\ to' = [to EXCEPT ![i] = connected]
        /\ task' = [NoTask EXCEPT !.round = round + 1]
        /\ answers' = {}
        /\ round' = round + 1 /\ budget' = [budget EXCEPT !.commands = @ - 1]
        /\ UNCHANGED <<replies, packetRead, packetSem, connected, ask>>

\* The answer to a command, stamped with the time the client has got to.
SendReply(i, len) ==
    LET m == [head |-> TRUE, n |-> 0, from |-> i, type |-> 2, len |-> len,
              stamp |-> ask[i].stamp]
    IN  /\ at[i] = "idle" /\ i \in connected
        /\ ask[i].head
        /\ replies' = FIFOWrite(replies, m)
        /\ torn' = (torn \/ (hostInst \in connected /\ Overtakes(replies, replyRead[hostInst], m)))
        /\ answers' = IF len > 0 /\ m.stamp = round THEN answers \cup {i} ELSE answers
        /\ ask' = [ask EXCEPT ![i] = Blank]
        /\ at' = [at EXCEPT ![i] = "answer"]
        /\ UNCHANGED <<packets, packetRead, replyRead, packetSem, replySem, connected,
                       hostInst, to, task, round, budget>>

\* SemPool is posted in order for everyone who was connected under the lock.  The host
\* then collects the replies.
Post(i) ==
    \E j \in {k \in to[i] : \A other \in to[i] : k <= other} :
       /\ packetSem' = [packetSem EXCEPT ![j] = @ + 1]
       /\ to' = [to EXCEPT ![i] = @ \ {j}]
       /\ at' = [at EXCEPT ![i] = IF to[i] # {j} THEN @
                                  ELSE IF @ = "command" THEN "commanded" ELSE "idle"]
       /\ UNCHANGED <<packets, replies, packetRead, replyRead, replySem, connected,
                      hostInst, ask, task, answers, round, budget, torn>>

\* MPHostinst is read after the lock was released.
PostReply(i) ==
    /\ at[i] = "answer"
    /\ replySem' = [replySem EXCEPT ![hostInst] = @ + 1]
    /\ at' = [at EXCEPT ![i] = "idle"]
    /\ UNCHANGED <<packets, replies, packetRead, replyRead, packetSem, connected, hostInst,
                   to, ask, task, answers, round, budget, torn>>

-----------------------------------------------------------------------------
(* RecvPacketGeneric.  Taking a token and the locked part are one step: no *)
(* other instance takes a token of i's or moves its offset.                *)

Ready(i) == at[i] = "idle" /\ i \in connected /\ ~ask[i].head /\ packetSem[i] > 0

Facing(i) == packets.cell[packetRead[i]]

\* The header is none: "PACKET FIFO OVERFLOW".
Resync(i) ==
    /\ Ready(i) /\ ~Facing(i).head
    /\ packetRead' = [packetRead EXCEPT ![i] = packets.write]
    /\ packetSem' = [packetSem EXCEPT ![i] = 0]
    /\ UNCHANGED <<packets, replies, replyRead, replySem, connected, hostInst, at, to, ask,
                   task, answers, round, budget, torn>>

\* A defective variant: the payload is not skipped with the header.
SkipHeader(i) ==
    /\ Ready(i) /\ Facing(i).head /\ Facing(i).from = i
    /\ packetSem' = [packetSem EXCEPT ![i] = @ - 1]
    /\ packetRead' = [packetRead EXCEPT ![i] = (@ + 1) % PacketCells]
    /\ UNCHANGED <<packets, replies, replyRead, replySem, connected, hostInst, at, to, ask,
                   task, answers, round, budget, torn>>

\* A frame of one's own is skipped; the loop goes on, which is to call again.
Skip(i) ==
    /\ Ready(i) /\ Facing(i).head /\ Facing(i).from = i
    /\ packetSem' = [packetSem EXCEPT ![i] = @ - 1]
    /\ packetRead' = [packetRead EXCEPT ![i] = Behind(packets, @)]
    /\ UNCHANGED <<packets, replies, replyRead, replySem, connected, hostInst, at, to, ask,
                   task, answers, round, budget, torn>>

\* A client of the game that takes a command answers it before it goes on.
Take(i) ==
    /\ Ready(i) /\ Facing(i).head /\ Facing(i).from # i
    /\ packetSem' = [packetSem EXCEPT ![i] = @ - 1]
    /\ packetRead' = [packetRead EXCEPT ![i] = Behind(packets, @)]
    /\ ask' \in {[ask EXCEPT ![i] = m] : m \in {Blank} \cup {c \in {Facing(i)} : c.type = 1}}
    /\ UNCHANGED <<packets, replies, replyRead, replySem, connected, hostInst, at, to, task,
                   answers, round, budget, torn>>

-----------------------------------------------------------------------------
(* RecvReplies, called by the host when its command is on the air.         *)

\* Nobody is asked, or everyone has left: no reply is waited for.
AskNobody(i) ==
    /\ at[i] = "commanded"
    /\ at' = [at EXCEPT ![i] = "idle"]
    /\ task' = NoTask
    /\ UNCHANGED <<rings, connected, hostInst, to, ask, answers, round, budget, torn>>

AskReplies(i, wanted) ==
    /\ at[i] = "commanded"
    /\ wanted # {} /\ connected # {i}
    /\ at' = [at EXCEPT ![i] = "collect"]
    /\ task' = [task EXCEPT !.members = connected, !.wanted = wanted, !.heard = {i}]
    /\ UNCHANGED <<rings, connected, hostInst, to, ask, answers, round, budget, torn>>

First(i) == replies.cell[replyRead[i]]
Stale(i) == First(i).from = i \/ First(i).stamp < task.round

ReplyResync(i) ==
    /\ at[i] = "collect" /\ replySem[i] > 0 /\ ~First(i).head
    /\ replyRead' = [replyRead EXCEPT ![i] = replies.write]
    /\ replySem' = [replySem EXCEPT ![i] = 0]
    /\ at' = [at EXCEPT ![i] = "idle"]
    /\ task' = NoTask
    /\ UNCHANGED <<packets, replies, packetRead, packetSem, connected, hostInst, to, ask,
                   answers, round, budget, torn>>

DropStale(i) ==
    /\ at[i] = "collect" /\ replySem[i] > 0 /\ First(i).head
    /\ Stale(i)
    /\ replySem' = [replySem EXCEPT ![i] = @ - 1]
    /\ replyRead' = [replyRead EXCEPT ![i] = Behind(replies, @)]
    /\ UNCHANGED <<packets, replies, packetRead, packetSem, connected, hostInst, at, to, ask,
                   task, answers, round, budget, torn>>

\* The last reply that can be hoped for ends the call.
Accept(i) ==
    /\ at[i] = "collect" /\ replySem[i] > 0 /\ First(i).head
    /\ ~Stale(i)
    /\ replySem' = [replySem EXCEPT ![i] = @ - 1]
    /\ replyRead' = [replyRead EXCEPT ![i] = Behind(replies, @)]
    /\ task' = [task EXCEPT !.heard = @ \cup {First(i).from},
                            !.got = IF First(i).len > 0 THEN @ \cup {First(i).from} ELSE @]
    /\ at' = [at EXCEPT ![i] = IF \/ task.members \subseteq task'.heard
                                  \/ task.wanted \subseteq task'.got THEN "idle" ELSE @]
    /\ UNCHANGED <<packets, replies, packetRead, packetSem, connected, hostInst, to, ask,
                   answers, round, budget, torn>>

\* RecvTimeout goes by without a token.
GiveUp(i) ==
    /\ at[i] = "collect" /\ replySem[i] = 0
    /\ at' = [at EXCEPT ![i] = "idle"]
    /\ task' = NoTask
    /\ UNCHANGED <<rings, connected, hostInst, to, ask, answers, round, budget, torn>>

Next ==
    \E i \in Insts :
       \/ Begin(i) \/ End(i)
       \/ \E len \in Lengths : SendPacket(i, len) \/ SendCmd(i, len)
       \/ \E len \in ReplyLengths : SendReply(i, len)
       \/ Post(i) \/ PostReply(i)
       \/ Resync(i) \/ Skip(i) \/ Take(i)
       \/ AskNobody(i) \/ \E wanted \in SUBSET (Insts \ {i}) : AskReplies(i, wanted)
       \/ ReplyResync(i) \/ DropStale(i) \/ Accept(i) \/ GiveUp(i)

Spec == Init /\ [][Next]_vars

-----------------------------------------------------------------------------
(* Properties.  The message at an offset, if it is whole; those that n      *)
(* tokens stand for.                                                       *)

Content(ring, p) ==
    LET m == ring.cell[p]
    IN  IF m.head /\ \A k \in 1 .. m.len :
                        ring.cell[(p + k) % ring.size] = [m EXCEPT !.head = FALSE]
        THEN m ELSE Blank

Unread(ring, p, n) ==
    LET offset[k \in 0 .. n] == IF k = 0 THEN p ELSE Behind(ring, offset[k - 1])
    IN  [k \in 1 .. n |-> Content(ring, offset[k - 1])]

Most == [packets  |-> Max({b.packets : b \in Budgets}),
         commands |-> Max({b.commands : b \in Budgets}),
         stays    |-> Max({b.stays : b \in Budgets})]

Headers == [head : BOOLEAN, n : 0 .. Most.packets + Most.commands, from : Insts, type : 0 .. 2,
            len : Lengths \cup ReplyLengths \cup {0}, stamp : 0 .. Most.commands]

\* Type invariant.  Every offset stays inside its ring, no packet semaphore counts more than
\* was ever sent and, while nobody is overtaken, none more frames than its ring can hold.
TypeOK ==
    /\ packets.write \in DOMAIN packets.cell /\ replies.write \in DOMAIN replies.cell
    /\ packetRead \in [Insts -> 0 .. PacketCells - 1]
    /\ replyRead \in [Insts -> 0 .. ReplyCells - 1]
    /\ packetSem \in [Insts -> 0 .. Most.packets + Most.commands]
    /\ replySem \in [Insts -> Nat]
    /\ ~torn => /\ \A i \in connected : packetSem[i] < PacketCells
                /\ hostInst \in connected => replySem[hostInst] < ReplyCells
    /\ connected \subseteq Insts /\ hostInst \in Insts
    /\ at \in [Insts -> {"idle", "post", "command", "commanded", "collect", "answer"}]
    /\ to \in [Insts -> SUBSET Insts] /\ ask \in [Insts -> Headers]
    /\ answers \subseteq Insts
    /\ round \in 0 .. Most.commands
    /\ \A part \in DOMAIN Most : budget[part] \in 0 .. Most[part]
    /\ torn \in BOOLEAN

\* "Semaphore I is posted when instance I needs to process a new frame", or reply
\* (LocalMP.cpp:43): while nobody was overtaken, who finds a token finds a frame.
PostedForUnread ==
    ~torn => /\ \A i \in connected : packetSem[i] > 0 => packetRead[i] # packets.write
             /\ hostInst \in connected /\ replySem[hostInst] > 0
                  => replyRead[hostInst] # replies.write

\* The answers RecvReplies hands to the host are answers to the command it has just sent,
\* whatever clients that were late left in the ring.
RepliesFresh == ~torn => task.got \subseteq answers

\* What a semaphore or a command promises is what its reader finds.
Matched == PostedForUnread /\ RepliesFresh

\* As long as nobody is overtaken the two rings are queues: everyone who is connected reads
\* each frame sent since it joined once, whole and in order, and the host the replies sent
\* since its command.
Abstract == INSTANCE Broadcast WITH
    Messages <- Headers, Replies <- Headers,
    members <- connected,
    broken  <- torn,
    inbox   <- [i \in Insts |->
                  IF torn \/ i \notin connected THEN <<>>
                  ELSE Unread(packets, packetRead[i], packetSem[i] + Cardinality(Due(i)))],
    box     <- IF torn \/ hostInst \notin connected THEN <<>>
               ELSE Unread(replies, replyRead[hostInst],
                           replySem[hostInst] + Cardinality(Late))

ImplementsBroadcast == Abstract!Spec
=============================================================================

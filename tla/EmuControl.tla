------------------------------ MODULE EmuControl ------------------------------
(***************************************************************************)
(* How emulator instances are controlled (EmuThread.cpp).  Each has an     *)
(* emulation thread with a message queue and a semaphore: a caller         *)
(* enqueues a message (sendMessage) and takes a token that the emulation   *)
(* thread releases for every message it has handled (waitMessage).  The    *)
(* callers are the UI thread, for the menus, and the emulation threads     *)
(* themselves, for hotkeys: a thread does not wait for its own tokens, and *)
(* pausing is passed on to every other instance.  One message lends the    *)
(* emulation thread's OpenGL context to the UI thread.                     *)
(***************************************************************************)
EXTENDS Naturals, Sequences, SequencesExt

CONSTANTS Insts,    \* the instances, numbers: each is also its thread's name
          UI,       \* the name of the UI thread
          MaxInsts, \* kMaxEmuInstances
          Uses,     \* what the menus offer, what hotkeys do, and where there are any
          Prompt,   \* whether the context is returned only to a thread that waits
          MaxMenu,  \* bound: calls from menus
          MaxKeys   \* bound: hotkeys and power-offs

Ops == {"run", "pause", "unpause", "stop", "reset", "step", "import", "borrow", "exit"}

ASSUME EmuControlAssumption ==
    /\ MaxInsts \in Nat \ {0} /\ Insts \subseteq 0 .. MaxInsts - 1 /\ UI \notin Insts
    /\ Uses \subseteq [menu : SUBSET Ops, keys : SUBSET Ops, hot : SUBSET Insts]
    /\ Prompt \in BOOLEAN /\ MaxMenu \in Nat /\ MaxKeys \in Nat

Threads == Insts \cup {UI}

VARIABLES queue, tokens,   \* msgQueue, with who sent what, and msgSemaphore
          status, prev,    \* emuStatus, prevEmuStatus
          stack, active,   \* emuPauseStack, emuActive
          at,              \* where an emulation thread is in its loop
          current,         \* whether the context is current on it
          lend,            \* glborrow
          todo,            \* what a thread has yet to do of its call
          menus, keys,     \* how many calls were made
          use

control == <<status, prev, stack, active>>
vars    == <<queue, tokens, control, at, current, lend, todo, menus, keys, use>>

Statuses == {"Running", "Paused", "FrameStep", "Exit"}
Messages == Ops \cup {"saved"}

Init ==
    /\ queue = [i \in Insts |-> <<>>] /\ tokens = [i \in Insts |-> 0]
    /\ status = [i \in Insts |-> "Paused"] /\ prev = [i \in Insts |-> "Paused"]
    /\ stack = [i \in Insts |-> 0] /\ active = [i \in Insts |-> FALSE]
    /\ at = [i \in Insts |-> "top"] /\ current = [i \in Insts |-> TRUE]
    /\ lend = [i \in Insts |-> FALSE]
    /\ todo = [t \in Threads |-> <<>>]
    /\ menus = 0 /\ keys = 0
    /\ use \in Uses

-----------------------------------------------------------------------------
(* The calls, each as the steps it takes.                                  *)

Send(m, i)  == [do |-> "send", inst |-> i, what |-> m, n |-> 0]
Wait(n, i)  == [do |-> "wait", inst |-> i, what |-> "none", n |-> n]
WaitAll(i)  == [do |-> "waitall", inst |-> i, what |-> "none", n |-> 0]
Do(what, i) == [do |-> what, inst |-> i, what |-> "none", n |-> 0]

\* broadcastCommand passes a pause on to the others that are there, in order, and waits for
\* each.
Everyone(op, i) ==
    FlattenSeq([k \in 1 .. MaxInsts |->
                  IF k - 1 \in Insts \ {i} /\ at[k - 1] # "gone"
                  THEN <<Send(op, k - 1), Wait(1, k - 1)>> ELSE <<>>])

\* A defective variant: one token stands for both messages of an import.
StepsOne(op, i) ==
    CASE op \in {"pause", "unpause"} -> <<Send(op, i), Wait(1, i)>> \o Everyone(op, i)
      [] op = "step"   -> (IF stack[i] < 1 THEN <<Send("pause", i)>> ELSE <<>>)
                             \o <<Send(op, i), WaitAll(i)>>
      [] op = "import" -> <<Send("reset", i), Send("saved", i), Wait(1, i)>>
      [] op = "borrow" -> <<Send(op, i), Wait(1, i), Do("create", i), Do("return", i)>>
      [] op = "exit"   -> <<Send(op, i), WaitAll(i), Do("join", i)>>
      [] OTHER         -> <<Send(op, i), Wait(1, i)>>

Steps(op, i) ==
    CASE op \in {"pause", "unpause"} -> <<Send(op, i), Wait(1, i)>> \o Everyone(op, i)
      [] op = "step"   -> (IF stack[i] < 1 THEN <<Send("pause", i)>> ELSE <<>>)
                             \o <<Send(op, i), WaitAll(i)>>
      [] op = "import" -> <<Send("reset", i), Send("saved", i), Wait(2, i)>>
      [] op = "borrow" -> <<Send(op, i), Wait(1, i), Do("create", i), Do("return", i)>>
      [] op = "exit"   -> <<Send(op, i), WaitAll(i), Do("join", i)>>
      [] OTHER         -> <<Send(op, i), Wait(1, i)>>

\* The menus for a console that runs are off when none does.  An instance that has left is
\* not called any more.
Menu(op, i) ==
    /\ todo[UI] = <<>> /\ at[i] # "gone" /\ menus < MaxMenu
    /\ op \in use.menu
    /\ op \in {"pause", "stop", "reset", "step", "import"} => active[i]
    /\ todo' = [todo EXCEPT ![UI] = Steps(op, i)]
    /\ menus' = menus + 1
    /\ UNCHANGED <<queue, tokens, control, at, current, lend, keys, use>>

\* A hotkey, at the top of the emulation thread's loop; pausing toggles.
Key(op, i) ==
    /\ at[i] = "top" /\ todo[i] = <<>> /\ keys < MaxKeys
    /\ i \in use.hot /\ op \in use.keys \ {"stop"}
    /\ op = "pause"   => status[i] # "Paused"
    /\ op = "unpause" => status[i] = "Paused"
    /\ todo' = [todo EXCEPT ![i] = Steps(op, i)]
    /\ keys' = keys + 1
    /\ UNCHANGED <<queue, tokens, control, at, current, lend, menus, use>>

-----------------------------------------------------------------------------
(* One step of a call.                                                     *)

Due(t, what) == todo[t] # <<>> /\ Head(todo[t]).do = what
Advance(t)     == todo' = [todo EXCEPT ![t] = Tail(@)]

\* msgMutex is held while messages are handled.
SendMessage(t) ==
    /\ Due(t, "send")
    /\ LET s == Head(todo[t])
       IN  /\ at[s.inst] # "handle"
           /\ queue' = [queue EXCEPT ![s.inst] = Append(@, <<s.what, t>>)]
    /\ Advance(t)
    /\ UNCHANGED <<tokens, control, at, current, lend, menus, keys, use>>

WaitMessage(t) ==
    /\ Due(t, "wait")
    /\ LET s == Head(todo[t])
       IN  \/ t = s.inst /\ UNCHANGED tokens
           \/ /\ t # s.inst /\ tokens[s.inst] >= s.n
              /\ tokens' = [tokens EXCEPT ![s.inst] = @ - s.n]
    /\ Advance(t)
    /\ UNCHANGED <<queue, control, at, current, lend, menus, keys, use>>

\* It looks at the queue without the mutex, and takes a token as long as it is not empty.
WaitAllMessages(t) ==
    /\ Due(t, "waitall")
    /\ LET i == Head(todo[t]).inst
       IN  \/ (t = i \/ queue[i] = <<>>) /\ Advance(t) /\ UNCHANGED tokens
           \/ /\ t # i /\ queue[i] # <<>> /\ tokens[i] > 0
              /\ tokens' = [tokens EXCEPT ![i] = @ - 1]
              /\ UNCHANGED todo
    /\ UNCHANGED <<queue, control, at, current, lend, menus, keys, use>>

\* The context is created; then whoever waits on glBorrowCond is woken; the instance is
\* deleted when its thread has ended.
UseContext(t) ==
    /\ Due(t, "create")
    /\ Advance(t)
    /\ UNCHANGED <<queue, tokens, control, at, current, lend, menus, keys, use>>

ReturnGL(t) ==
    /\ Due(t, "return")
    /\ LET i == Head(todo[t]).inst
       IN  /\ Prompt => ~lend[i] \/ at[i] = "lent"
           /\ at' = [at EXCEPT ![i] = IF @ = "lent" THEN "top" ELSE @]
    /\ Advance(t)
    /\ UNCHANGED <<queue, tokens, control, current, lend, menus, keys, use>>

Join(t) ==
    /\ Due(t, "join")
    /\ at[Head(todo[t]).inst] = "gone"
    /\ Advance(t)
    /\ UNCHANGED <<queue, tokens, control, at, current, lend, menus, keys, use>>

Step(t) == SendMessage(t) \/ WaitMessage(t) \/ WaitAllMessages(t) \/ UseContext(t)
              \/ ReturnGL(t) \/ Join(t)

-----------------------------------------------------------------------------
(* The emulation thread.                                                   *)

Emulates(i) == status[i] \in {"Running", "FrameStep"}

\* One round of the loop: a frame, which makes the context current, or a pause.
Frame(i) ==
    /\ at[i] = "top" /\ todo[i] = <<>>
    /\ status' = [status EXCEPT ![i] = IF @ = "FrameStep" THEN "Paused" ELSE @]
    /\ current' = [current EXCEPT ![i] = @ \/ Emulates(i)]
    /\ at' = [at EXCEPT ![i] = "framed"]
    /\ UNCHANGED <<queue, tokens, prev, stack, active, lend, todo, menus, keys, use>>

\* The console switches itself off in a frame: emuStop is called on its own thread.
PowerOff(i) ==
    /\ at[i] = "framed" /\ todo[i] = <<>> /\ status[i] = "Running" /\ keys < MaxKeys
    /\ i \in use.hot /\ "stop" \in use.keys
    /\ todo' = [todo EXCEPT ![i] = Steps("stop", i)]
    /\ keys' = keys + 1
    /\ UNCHANGED <<queue, tokens, control, at, current, lend, menus, use>>

Lock(i) ==
    /\ at[i] = "framed" /\ todo[i] = <<>>
    /\ at' = [at EXCEPT ![i] = "handle"]
    /\ UNCHANGED <<queue, tokens, control, current, lend, todo, menus, keys, use>>

Set(i, st, pr, sk, ac) ==
    /\ status' = [status EXCEPT ![i] = st] /\ prev' = [prev EXCEPT ![i] = pr]
    /\ stack' = [stack EXCEPT ![i] = sk]   /\ active' = [active EXCEPT ![i] = ac]

\* A defective variant: an unpause is counted even when there was no pause.
EffectBelow(i, m) ==
    CASE m = "exit"  -> Set(i, "Exit", prev[i], 0, active[i])
      [] m \in {"run", "reset"} -> Set(i, "Running", prev[i], 0, TRUE)
      [] m = "pause" /\ stack[i] = 0 -> Set(i, "Paused", status[i], 1, active[i])
      [] m = "pause" /\ stack[i] > 0 -> Set(i, status[i], prev[i], stack[i] + 1, active[i])
      [] m = "unpause" -> Set(i, prev[i], prev[i], stack[i] - 1, active[i])
      [] m = "stop"  -> Set(i, "Paused", prev[i], stack[i], FALSE)
      [] m = "step"  -> Set(i, "FrameStep", prev[i], stack[i], active[i])
      [] OTHER       -> UNCHANGED control

\* What a message does to the instance; a pause counts, the first one pauses.
Effect(i, m) ==
    CASE m = "exit"  -> Set(i, "Exit", prev[i], 0, active[i])
      [] m \in {"run", "reset"} -> Set(i, "Running", prev[i], 0, TRUE)
      [] m = "pause" /\ stack[i] = 0 -> Set(i, "Paused", status[i], 1, active[i])
      [] m = "pause" /\ stack[i] > 0 -> Set(i, status[i], prev[i], stack[i] + 1, active[i])
      [] m = "unpause" /\ stack[i] = 1 -> Set(i, prev[i], prev[i], 0, active[i])
      [] m = "unpause" /\ stack[i] > 1 -> Set(i, status[i], prev[i], stack[i] - 1, active[i])
      [] m = "stop"  -> Set(i, "Paused", prev[i], stack[i], FALSE)
      [] m = "step"  -> Set(i, "FrameStep", prev[i], stack[i], active[i])
      [] OTHER       -> UNCHANGED control

\* A defective variant: an unpause that changes nothing releases no token.
HandleSilent(i) ==
    /\ at[i] = "handle" /\ queue[i] # <<>>
    /\ LET m == Head(queue[i])[1]
       IN  /\ Effect(i, m)
           /\ current' = [current EXCEPT ![i] = @ /\ m # "borrow"]
           /\ lend' = [lend EXCEPT ![i] = @ \/ m = "borrow"]
           /\ tokens' = [tokens EXCEPT ![i] = IF m = "unpause" /\ stack[i] = 0 THEN @
                                                                             ELSE @ + 1]
    /\ queue' = [queue EXCEPT ![i] = Tail(@)]
    /\ UNCHANGED <<at, todo, menus, keys, use>>

Handle(i) ==
    /\ at[i] = "handle" /\ queue[i] # <<>>
    /\ LET m == Head(queue[i])[1]
       IN  /\ Effect(i, m)
           /\ current' = [current EXCEPT ![i] = @ /\ m # "borrow"]
           /\ lend' = [lend EXCEPT ![i] = @ \/ m = "borrow"]
    /\ queue' = [queue EXCEPT ![i] = Tail(@)]
    /\ tokens' = [tokens EXCEPT ![i] = @ + 1]
    /\ UNCHANGED <<at, todo, menus, keys, use>>

\* The queue is empty: the mutex is released, and the thread waits if it has lent the
\* context, ends if it was told to, or goes round.
Unlock(i) ==
    /\ at[i] = "handle" /\ queue[i] = <<>>
    /\ at' = [at EXCEPT ![i] = IF lend[i] THEN "lent"
                               ELSE IF status[i] = "Exit" THEN "gone" ELSE "top"]
    /\ lend' = [lend EXCEPT ![i] = FALSE]
    /\ UNCHANGED <<queue, tokens, control, current, todo, menus, keys, use>>

Loop(i) == Frame(i) \/ Lock(i) \/ Handle(i) \/ Unlock(i)

Next ==
    \/ \E i \in Insts : \/ \E op \in Ops : Menu(op, i) \/ Key(op, i)
                        \/ Loop(i) \/ PowerOff(i)
    \/ \E t \in Threads : Step(t)

Spec == Init /\ [][Next]_vars

\* Every emulation thread goes round its loop, and a call gets the mutex and the tokens that
\* are there for it again and again.
FairSpec == Spec /\ (\A i \in Insts : WF_vars(Loop(i))) /\ (\A t \in Threads : SF_vars(Step(t)))

-----------------------------------------------------------------------------
(* Properties.                                                             *)

\* Type invariant.
TypeOK ==
    /\ queue \in [Insts -> Seq(Messages \X Threads)]
    /\ tokens \in [Insts -> Nat]
    /\ status \in [Insts -> Statuses] /\ prev \in [Insts -> Statuses]
    /\ stack \in [Insts -> Nat] /\ active \in [Insts -> BOOLEAN]
    /\ at \in [Insts -> {"top", "framed", "handle", "lent", "gone"}]
    /\ current \in [Insts -> BOOLEAN] /\ lend \in [Insts -> BOOLEAN]
    /\ menus \in 0 .. MaxMenu /\ keys \in 0 .. MaxKeys /\ use \in Uses

\* As long as only menus are used and no frame is stepped, a call that has returned has been
\* carried out: nothing it sent is waiting (waitMessage, EmuThread.cpp:683).
Stepped == "step" \in use.menu \cup use.keys
Served  == use.hot = {} /\ ~Stepped /\ todo[UI] = <<>> => \A i \in Insts : queue[i] = <<>>

\* "Make sure no GL context is in use by the emu thread" (Window.cpp:928): while the UI thread
\* creates its context the emulation thread's is not current.
GLFree == \A i \in Insts : todo[UI] # <<>> /\ Head(todo[UI]) = Do("create", i) => ~current[i]

\* As long as no frame is stepped, a console that is there and stands still can be resumed: a
\* pause is counted for it, however menus, hotkeys and other instances pause and resume it.
PausedIsCounted ==
    ~Stepped => \A i \in Insts : active[i] /\ status[i] = "Paused" => stack[i] > 0

\* What the calls of the menus asked for has been done, can be undone, and is not undone
\* by the thread while the caller relies on it.
Accounted == Served /\ PausedIsCounted /\ GLFree

\* Every call returns, whoever makes it: messages are handled, tokens come, the lent context
\* is given back and an instance that is told to leave does.
Returns == \A t \in Threads : todo[t] # <<>> ~> todo[t] = <<>>
=============================================================================

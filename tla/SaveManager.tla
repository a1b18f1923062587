----------------------------- MODULE SaveManager -----------------------------
(***************************************************************************)
(* SaveManager (src/frontend/qt_sdl/SaveManager.cpp): the battery save of  *)
(* a cartridge on its way from the emulated save memory to the .sav file.  *)
(*                                                                         *)
(* Two threads share it.  The emulation thread mirrors every save-memory   *)
(* write into Buffer (RequestFlush), once a frame copies Buffer into       *)
(* SecondaryBuffer (CheckFlush), and between frames redirects Path         *)
(* (SetPath) for savestates and resets or destroys the manager.  The saver *)
(* thread wakes up, debounces and writes SecondaryBuffer to Path.          *)
(*                                                                         *)
(* A file holds a sequence of Size blocks, <<>> when it has been truncated  *)
(* by an open for writing, Null when it does not exist.  A block is the    *)
(* number of the game write that produced it.                              *)
(***************************************************************************)
EXTENDS Naturals, Sequences

CONSTANTS Slots,        \* the .sav paths of the savestate slots
          Home,         \* the .sav path of the game itself
          Size,          \* blocks of save memory
          Null,         \* a null pointer, a file that does not exist
          Torn,         \* a std::string another thread is assigning
          Relocate,     \* the option Savestate.RelocSRAM
          OpenMayFail,  \* whether opening for writing can fail
          MaxVer,       \* bound on game writes and state loads together
          MaxFlush      \* bound on the flushes after which a state is saved
                        \* or the console reset

Paths  == Slots \cup {Home}
Blocks == 1 .. Size

ASSUME SaveAssumption ==
    /\ Size \in Nat \ {0}
    /\ MaxVer \in Nat /\ MaxFlush \in Nat
    /\ Relocate \in BOOLEAN
    /\ OpenMayFail \in BOOLEAN
    /\ Null \notin Paths
    /\ Torn \notin Paths
    /\ Torn # Null
    /\ Null \notin [Blocks -> Nat] \cup {<<>>}

VARIABLES
    sram,       \* the save memory of the emulated cartridge
    ver,        \* game writes and state loads so far
    saved,      \* per slot: the save memory inside that savestate, or Null
    backup,     \* EmuInstance::backupState, or Null
    prevSave,   \* EmuInstance::previousSaveFile, or Null
    buffer,     \* Buffer, <<>> while Length is 0
    flushReq,   \* FlushRequested
    path,       \* Path
    secondary,  \* SecondaryBuffer
    flushVer,   \* FlushVersion
    prevVer,    \* PreviousFlushVersion
    timer,      \* TimeAtLastFlushRequest: 0, less than or at least 2 s ago
    lock,       \* the holder of SecondaryBufferLock
    running,    \* Running
    file,       \* the file system
    dest,       \* where the last OpenFile(Path, Write) led: a path, Torn, Null
    goal,       \* the arguments of the SetPath call in progress
    pc          \* where each thread is

game   == <<sram, ver, saved, backup, prevSave>>
cache  == <<buffer, flushReq>>
second == <<secondary, flushVer, prevVer, timer>>
vars   == <<game, cache, path, second, lock, running, file, dest, goal, pc>>

Threads == {"emu", "saver"}
At(t, l) == pc[t] = l
Goto(t, l) == pc' = [pc EXCEPT ![t] = l]

NeedsFlush == flushVer # prevVer

Init ==
    /\ sram = [b \in Blocks |-> 0]
    /\ ver = 0
    /\ saved = [s \in Slots |-> Null]
    /\ backup = Null /\ prevSave = Null
    /\ buffer = <<>> /\ flushReq = FALSE
    /\ path = Home
    /\ secondary = Null /\ flushVer = 0 /\ prevVer = 0
    /\ timer = "unset"
    /\ lock = "free"
    /\ running = TRUE
    /\ file = [p \in Paths |-> Null]
    /\ dest = Null
    /\ goal = [to |-> Home, reload |-> FALSE]
    /\ pc = [t \in Threads |-> IF t = "emu" THEN "between" ELSE "sleep"]

-----------------------------------------------------------------------------
(* The emulation thread. *)

\* The blocks a game write of n blocks from block o on changes: save memory
\* addresses wrap around.
Dirty(o, n) == {((o - 1 + i) % Size) + 1 : i \in 0 .. n - 1}

\* A defective variant: a write that wraps is copied up to the end only.
CopiedNoWrap(o, n) == {b \in Blocks : o <= b /\ b < o + n}

\* The blocks RequestFlush copies for it, in two parts when it wraps.
Copied(o, n) ==
    IF o - 1 + n > Size
    THEN LET rest == n - (Size - (o - 1))
         IN  (o .. Size) \cup (1 .. IF rest > Size THEN Size ELSE rest)
    ELSE o .. o + n - 1

\* What RequestFlush leaves in Buffer: the whole memory when the size differs,
\* else the written blocks alone.
Mirror(data, dirty) ==
    IF buffer = <<>>
    THEN data
    ELSE [b \in Blocks |-> IF b \in dirty THEN data[b] ELSE buffer[b]]

RequestFlush(data, dirty) ==
    /\ buffer' = Mirror(data, dirty)
    /\ flushReq' = TRUE

CallSetPath(to, reload) ==
    /\ goal' = [to |-> to, reload |-> reload]
    /\ Goto("emu", "setPath")

StartFrame ==
    /\ At("emu", "between")
    /\ Goto("emu", "frame")
    /\ UNCHANGED <<game, cache, path, second, lock, running, file, dest, goal>>

\* The game writes blocks of its save memory.
GameWrite ==
    /\ At("emu", "frame")
    /\ ver < MaxVer
    /\ ver' = ver + 1
    /\ \E o \in Blocks, n \in 1 .. Size + 1 :
        /\ sram' = [b \in Blocks |-> IF b \in Dirty(o, n) THEN ver + 1 ELSE sram[b]]
        /\ RequestFlush(sram', Copied(o, n))
    /\ UNCHANGED <<saved, backup, prevSave, path, second, lock, running, file,
                   dest, goal, pc>>

EndFrame ==
    /\ At("emu", "frame")
    /\ Goto("emu", IF flushReq THEN "cfLock" ELSE "between")
    /\ UNCHANGED <<game, cache, path, second, lock, running, file, dest, goal>>

\* A defective variant: the copy does not wait for the saver.
CheckFlushUnlocked ==
    /\ At("emu", "cfLock")
    /\ Goto("emu", "cfCopy")
    /\ UNCHANGED <<game, cache, path, second, lock, running, file, dest, goal>>

CheckFlushLock ==
    /\ At("emu", "cfLock")
    /\ lock = "free"
    /\ lock' = "emu"
    /\ Goto("emu", "cfCopy")
    /\ UNCHANGED <<game, cache, path, second, running, file, dest, goal>>

\* SecondaryBuffer is allocated when its length is not Length: before there is
\* any save memory both are 0, and it stays null.
Copy == IF secondary = Null /\ buffer = <<>> THEN Null ELSE buffer

\* A defective variant: the time of the request is not recorded.
CheckFlushUntimed ==
    /\ At("emu", "cfCopy")
    /\ secondary' = Copy
    /\ flushReq' = FALSE
    /\ flushVer' = flushVer + 1
    /\ lock' = "free"
    /\ Goto("emu", "between")
    /\ UNCHANGED <<game, buffer, path, prevVer, timer, running, file, dest, goal>>

CheckFlushCopy ==
    /\ At("emu", "cfCopy")
    /\ secondary' = Copy
    /\ flushReq' = FALSE
    /\ flushVer' = flushVer + 1
    /\ timer' = "fresh"
    /\ lock' = "free"
    /\ Goto("emu", "between")
    /\ UNCHANGED <<game, buffer, path, prevVer, running, file, dest, goal>>

\* Loading a state replaces the save memory, reports all of it as written and,
\* with RelocSRAM, moves on to the .sav beside the state.
LoadState(s) ==
    /\ At("emu", "between")
    /\ saved[s] # Null
    /\ ver < MaxVer
    /\ ver' = ver + 1
    /\ backup' = sram
    /\ sram' = saved[s]
    /\ RequestFlush(saved[s], Blocks)
    /\ IF Relocate
       THEN prevSave' = path /\ CallSetPath(s, TRUE)
       ELSE UNCHANGED <<prevSave, goal, pc>>
    /\ UNCHANGED <<saved, path, second, lock, running, file, dest>>

SaveState(s) ==
    /\ At("emu", "between")
    /\ flushVer < MaxFlush
    /\ saved' = [saved EXCEPT ![s] = sram]
    /\ IF Relocate
       THEN CallSetPath(s, FALSE)
       ELSE UNCHANGED <<goal, pc>>
    /\ UNCHANGED <<sram, ver, backup, prevSave, cache, path, second, lock,
                   running, file, dest>>

UndoStateLoad ==
    /\ At("emu", "between")
    /\ backup # Null
    /\ ver < MaxVer
    /\ ver' = ver + 1
    /\ sram' = backup
    /\ RequestFlush(backup, Blocks)
    /\ IF prevSave # Null
       THEN CallSetPath(prevSave, TRUE)
       ELSE UNCHANGED <<goal, pc>>
    /\ UNCHANGED <<saved, backup, prevSave, path, second, lock, running, file,
                   dest>>

\* A reset returns to the .sav of the game when a state had redirected it.
Reset ==
    /\ At("emu", "between")
    /\ path # Home
    /\ flushVer < MaxFlush
    /\ CallSetPath(Home, FALSE)
    /\ UNCHANGED <<game, cache, path, second, lock, running, file, dest>>

\* SetPath assigns Path without the lock the saver opens it under.
SetPathBegin ==
    /\ At("emu", "setPath")
    /\ path' = Torn
    /\ Goto("emu", "setPathEnd")
    /\ UNCHANGED <<game, cache, second, lock, running, file, dest, goal>>

SetPathEnd ==
    /\ At("emu", "setPathEnd")
    /\ path' = goal.to
    /\ IF goal.reload
       THEN Goto("emu", "reload") /\ UNCHANGED cache
       ELSE Goto("emu", "between") /\ flushReq' = TRUE /\ UNCHANGED buffer
    /\ UNCHANGED <<game, second, lock, running, file, dest, goal>>

\* A defective variant: the result of opening the new file is not tested.
SetPathReloadUntested ==
    /\ At("emu", "reload")
    /\ buffer' = file[path]
    /\ Goto("emu", "between")
    /\ UNCHANGED <<game, flushReq, path, second, lock, running, file, dest, goal>>

SetPathReload ==
    /\ At("emu", "reload")
    /\ buffer' = IF file[path] = Null THEN buffer ELSE file[path]
    /\ Goto("emu", "between")
    /\ UNCHANGED <<game, flushReq, path, second, lock, running, file, dest, goal>>

\* ~SaveManager: stop the saver, wait for it, flush what it left.
Destroy ==
    /\ At("emu", "between")
    /\ running' = FALSE
    /\ Goto("emu", "join")
    /\ UNCHANGED <<game, cache, path, second, lock, file, dest, goal>>

\* A defective variant: the destructor leaves the last flush to the saver.
JoinOnly ==
    /\ At("emu", "join")
    /\ At("saver", "done")
    /\ Goto("emu", "gone")
    /\ UNCHANGED <<game, cache, path, second, lock, running, file, dest, goal>>

Join ==
    /\ At("emu", "join")
    /\ At("saver", "done")
    /\ Goto("emu", "flush")
    /\ UNCHANGED <<game, cache, path, second, lock, running, file, dest, goal>>

-----------------------------------------------------------------------------
(* The saver thread, and FlushSecondaryBuffer, which the destructor shares. *)

\* Wake up after 100 ms: return when the manager is being destroyed, sleep
\* again when there is nothing to write or it was requested a moment ago.
Wake ==
    /\ At("saver", "sleep")
    /\ \/ ~running /\ Goto("saver", "done")
       \/ running /\ timer = "aged" /\ Goto("saver", "flush")
    /\ UNCHANGED <<game, cache, path, second, lock, running, file, dest, goal>>

\* Two seconds go by after the last request.
Tick ==
    /\ timer = "fresh"
    /\ timer' = "aged"
    /\ UNCHANGED <<game, cache, path, secondary, flushVer, prevVer, lock,
                   running, file, dest, goal, pc>>

AfterFlush(t) == IF t = "saver" THEN "sleep" ELSE "gone"

\* The tests before the lock is taken.
FlushCheck(t) ==
    /\ At(t, "flush")
    /\ Goto(t, IF secondary = Null \/ ~NeedsFlush THEN AfterFlush(t) ELSE "lock")
    /\ UNCHANGED <<game, cache, path, second, lock, running, file, dest, goal>>

FlushLock(t) ==
    /\ At(t, "lock")
    /\ lock = "free"
    /\ lock' = t
    /\ Goto(t, "open")
    /\ UNCHANGED <<game, cache, path, second, running, file, dest, goal>>

\* A path read while it is being assigned names the old file, the new one or
\* neither.
Targets == IF path = Torn THEN Paths \cup {Torn} ELSE {path}

\* Opening for writing truncates the file.
FlushOpen(t) ==
    /\ At(t, "open")
    /\ \E d \in Targets :
        /\ dest' = d
        /\ file' = IF d = Torn THEN file ELSE [file EXCEPT ![d] = <<>>]
    /\ Goto(t, "write")
    /\ UNCHANGED <<game, cache, path, second, lock, running, goal>>

FlushOpenFails(t) ==
    /\ At(t, "open")
    /\ OpenMayFail
    /\ dest' = Null
    /\ Goto(t, "publish")
    /\ UNCHANGED <<game, cache, path, second, lock, running, file, goal>>

FlushWrite(t) ==
    /\ At(t, "write")
    /\ file' = IF dest = Torn THEN file ELSE [file EXCEPT ![dest] = secondary]
    /\ Goto(t, "publish")
    /\ UNCHANGED <<game, cache, path, second, lock, running, dest, goal>>

\* Whether or not the file could be opened, the version counts as flushed.
FlushPublish(t) ==
    /\ At(t, "publish")
    /\ prevVer' = flushVer
    /\ timer' = "unset"
    /\ lock' = "free"
    /\ Goto(t, AfterFlush(t))
    /\ UNCHANGED <<game, cache, path, secondary, flushVer, running, file, dest,
                   goal>>

-----------------------------------------------------------------------------
Closed ==
    /\ At("emu", "gone")
    /\ UNCHANGED vars

Frame   == StartFrame \/ GameWrite \/ EndFrame \/ CheckFlushLock \/ CheckFlushCopy
SetPath == SetPathBegin \/ SetPathEnd \/ SetPathReload
Message == \/ \E s \in Slots : LoadState(s) \/ SaveState(s)
           \/ UndoStateLoad \/ Reset \/ Destroy \/ Join
Flush(t) == \/ FlushCheck(t) \/ FlushLock(t) \/ FlushOpen(t) \/ FlushOpenFails(t)
            \/ FlushWrite(t) \/ FlushPublish(t)

Next == Frame \/ SetPath \/ Message \/ Wake \/ Tick \/ (\E t \in Threads : Flush(t))
        \/ Closed

Spec == Init /\ [][Next]_vars

\* The saver is a thread that keeps running; the emulation thread finishes a
\* CheckFlush and a SetPath it has begun; time passes.
FairSpec ==
    /\ Spec
    /\ WF_vars(Wake) /\ WF_vars(Tick) /\ SF_vars(Flush("saver"))
    /\ WF_vars(CheckFlushCopy) /\ WF_vars(SetPath)

-----------------------------------------------------------------------------
(* Properties. *)

Content == [Blocks -> Nat]
Labels  == {"between", "frame", "cfLock", "cfCopy", "setPath", "setPathEnd",
            "reload", "join", "sleep", "done", "flush", "lock", "open", "write",
            "publish", "gone"}

TypeOK ==
    /\ sram \in Content
    /\ ver \in Nat
    /\ saved \in [Slots -> Content \cup {Null}]
    /\ backup \in Content \cup {Null}
    /\ prevSave \in Paths \cup {Null}
    /\ buffer \in Content \cup {<<>>}
    /\ flushReq \in BOOLEAN
    /\ path \in Paths \cup {Torn}
    /\ secondary \in Content \cup {<<>>, Null}
    /\ flushVer \in Nat /\ prevVer \in Nat
    /\ timer \in {"unset", "fresh", "aged"}
    /\ lock \in Threads \cup {"free"}
    /\ running \in BOOLEAN
    /\ file \in [Paths -> Content \cup {<<>>, Null}]
    /\ dest \in Paths \cup {Torn, Null}
    /\ goal \in [to : Paths, reload : BOOLEAN]
    /\ pc \in [Threads -> Labels]

\* When NeedsFlush says that there is nothing to write, the file the last open
\* led to holds exactly SecondaryBuffer: no copy made by CheckFlush while the
\* saver was writing is taken for written.
WrittenWhenClean ==
    (~NeedsFlush /\ secondary # Null /\ dest \in Paths) => file[dest] = secondary

\* Once the manager is destroyed with no request outstanding and its last open
\* succeeded, the file holds the last requested contents.
ClosedIsFlushed ==
    (At("emu", "gone") /\ ~flushReq /\ buffer # <<>> /\ dest \in Paths)
        => file[dest] = buffer

\* Until a state is loaded together with its own .sav, Buffer is the save memory:
\* the partial, wrapping copies of RequestFlush miss no block.
BufferMirrorsSram ==
    (prevSave = Null /\ buffer # <<>>) => buffer = sram

\* A version handed to the saver is eventually taken care of, provided that
\* requests stop arriving.  A redirection before the first game write hands over
\* a null buffer: that version is never flushed, and NeedsFlush stays true until
\* there is something to write.
EventuallyClean ==
    <>[](~flushReq) =>
        (NeedsFlush /\ secondary # Null ~> (~NeedsFlush \/ ~running))

\* "When flushing to a file, there's no point in re-writing the exact same
\* data": a skipped flush is one whose data is already in the file at Path.
SkippedIsWritten ==
    (~NeedsFlush /\ secondary # Null /\ path \in Paths) => file[path] = secondary
=============================================================================

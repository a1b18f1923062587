-------------------------- MODULE SaveManagerProofs --------------------------
(***************************************************************************)
(* What holds of SaveManager for any slots, memory size and file-system    *)
(* behaviour: its type invariant, that no version is mistaken for written, *)
(* and that the destructor leaves the last requested contents behind.      *)
(***************************************************************************)
EXTENDS SaveManager, TLAPS

Flushing == {"lock", "open", "write", "publish"}
Holding  == {"open", "write", "publish"}

\* Where each thread can be.
Places ==
    /\ pc["saver"] \in {"sleep", "done", "flush"} \cup Flushing
    /\ pc["emu"] \in {"between", "frame", "cfLock", "cfCopy", "setPath",
                      "setPathEnd", "reload", "join", "flush", "gone"} \cup Flushing

\* The lock is held exactly in the critical sections.
Holder ==
    /\ (lock = "saver") <=> (pc["saver"] \in Holding)
    /\ (lock = "emu") <=> (pc["emu"] \in Holding \cup {"cfCopy"})

\* The destructor flushes after the saver has returned.
OneFlusher ==
    pc["emu"] \in Flushing \cup {"flush", "gone"} => pc["saver"] = "done"

\* A flush past its tests has a newer version to write.
Busy ==
    /\ prevVer <= flushVer
    /\ \A t \in Threads : pc[t] \in Flushing => prevVer < flushVer /\ secondary # Null

\* A flush about to publish has written SecondaryBuffer.
Written ==
    \A t \in Threads : (pc[t] = "publish" /\ dest \in Paths) => file[dest] = secondary

\* Path is torn exactly inside its assignment, and a SetPath that reloads runs
\* with a flush requested.
Redirecting ==
    /\ (path = Torn) <=> (pc["emu"] = "setPathEnd")
    /\ (pc["emu"] \in {"setPath", "setPathEnd"} /\ goal.reload) => flushReq
    /\ pc["emu"] = "reload" => flushReq

\* With no request outstanding SecondaryBuffer is a copy of Buffer.
InStep ==
    ~flushReq => (secondary = buffer \/ (secondary = Null /\ buffer = <<>>))

GoneClean == pc["emu"] = "gone" => (~NeedsFlush \/ secondary = Null)

IInv == /\ TypeOK /\ Places /\ Holder /\ OneFlusher /\ Busy /\ Written
        /\ WrittenWhenClean /\ Redirecting /\ InStep /\ GoneClean

-----------------------------------------------------------------------------
(* The initial state satisfies the invariant. *)
LEMMA InitIInv == Init => IInv
  <1> SUFFICES ASSUME Init PROVE IInv
    OBVIOUS
  <1> USE SaveAssumption DEF Init
  <1>1. TypeOK
    <2>1. sram \in Content
      BY DEF Content
    <2>2. pc \in [Threads -> Labels]
      BY DEF Threads, Labels
    <2> QED BY <2>1, <2>2 DEF TypeOK, Content, Threads, Paths
  <1>2. Places /\ Holder /\ OneFlusher
    BY DEF Places, Holder, OneFlusher, Threads, Flushing, Holding
  <1>3. Busy /\ GoneClean /\ Written /\ WrittenWhenClean
    BY DEF Busy, GoneClean, Written, WrittenWhenClean, NeedsFlush, Threads, Flushing, Paths
  <1>4. Redirecting /\ InStep
    BY DEF Redirecting, InStep, Threads, Paths
  <1> QED BY <1>1, <1>2, <1>3, <1>4 DEF IInv

LEMMA StartFrameIInv == IInv /\ StartFrame => IInv'
  <1> SUFFICES ASSUME IInv, StartFrame PROVE IInv'
    OBVIOUS
  <1> USE SaveAssumption DEF At, Goto, game, cache, second
  <1>1. TypeOK'
    BY DEF StartFrame, IInv, TypeOK, Threads, Labels
  <1>2. (Places /\ Holder /\ OneFlusher)'
    BY DEF StartFrame, IInv, TypeOK, Places, Holder, OneFlusher, Threads, Flushing, Holding
  <1>3. (Busy /\ GoneClean)'
    BY DEF StartFrame, IInv, TypeOK, Places, Holder, OneFlusher, Busy, GoneClean, NeedsFlush,
       Content, Threads, Flushing, Holding
  <1>4. (Written /\ WrittenWhenClean)'
    BY DEF StartFrame, IInv, TypeOK, Places, Holder, OneFlusher, Busy, Written, WrittenWhenClean,
       NeedsFlush, Threads, Flushing, Holding
  <1>5. (Redirecting /\ InStep)'
    BY DEF StartFrame, IInv, TypeOK, Places, OneFlusher, Redirecting, InStep, Threads, Flushing
  <1> QED BY <1>1, <1>2, <1>3, <1>4, <1>5 DEF IInv

LEMMA GameWriteIInv == IInv /\ GameWrite => IInv'
  <1> SUFFICES ASSUME IInv, GameWrite PROVE IInv'
    OBVIOUS
  <1> USE SaveAssumption DEF At, Goto, game, cache, second
  <1>1. TypeOK'
    <2>1. TypeOK
      BY DEF IInv
    <2>2. sram' \in Content /\ ver' \in Nat
      BY <2>1 DEF GameWrite, TypeOK, Content
    <2>3. buffer' \in Content \cup {<<>>} /\ flushReq' \in BOOLEAN
      BY <2>1, <2>2 DEF GameWrite, RequestFlush, Mirror, TypeOK, Content
    <2>4. UNCHANGED <<saved, backup, prevSave, path, secondary, flushVer, prevVer, timer, lock,
                      running, file, dest, goal, pc>>
      BY DEF GameWrite
    <2> QED BY ONLY <2>1, <2>2, <2>3, <2>4 DEF TypeOK
  <1>2. (Places /\ Holder /\ OneFlusher)'
    BY DEF GameWrite, RequestFlush, Mirror, IInv, TypeOK, Places, Holder, OneFlusher, Threads, Flushing, Holding
  <1>3. (Busy /\ GoneClean)'
    BY DEF GameWrite, RequestFlush, Mirror, IInv, TypeOK, Places, Holder, OneFlusher, Busy, GoneClean, NeedsFlush,
       Content, Threads, Flushing, Holding
  <1>4. (Written /\ WrittenWhenClean)'
    BY DEF GameWrite, RequestFlush, Mirror, IInv, TypeOK, Places, Holder, OneFlusher, Busy, Written, WrittenWhenClean,
       NeedsFlush, Threads, Flushing, Holding
  <1>5. (Redirecting /\ InStep)'
    BY DEF GameWrite, RequestFlush, Mirror, IInv, TypeOK, Places, OneFlusher, Redirecting, InStep, Threads, Flushing
  <1> QED BY <1>1, <1>2, <1>3, <1>4, <1>5 DEF IInv

LEMMA EndFrameIInv == IInv /\ EndFrame => IInv'
  <1> SUFFICES ASSUME IInv, EndFrame PROVE IInv'
    OBVIOUS
  <1> USE SaveAssumption DEF At, Goto, game, cache, second
  <1>1. TypeOK'
    BY DEF EndFrame, IInv, TypeOK, Threads, Labels
  <1>2. (Places /\ Holder /\ OneFlusher)'
    BY DEF EndFrame, IInv, TypeOK, Places, Holder, OneFlusher, Threads, Flushing, Holding
  <1>3. (Busy /\ GoneClean)'
    BY DEF EndFrame, IInv, TypeOK, Places, Holder, OneFlusher, Busy, GoneClean, NeedsFlush,
       Content, Threads, Flushing, Holding
  <1>4. (Written /\ WrittenWhenClean)'
    BY DEF EndFrame, IInv, TypeOK, Places, Holder, OneFlusher, Busy, Written, WrittenWhenClean,
       NeedsFlush, Threads, Flushing, Holding
  <1>5. (Redirecting /\ InStep)'
    BY DEF EndFrame, IInv, TypeOK, Places, OneFlusher, Redirecting, InStep, Threads, Flushing
  <1> QED BY <1>1, <1>2, <1>3, <1>4, <1>5 DEF IInv

LEMMA CheckFlushLockIInv == IInv /\ CheckFlushLock => IInv'
  <1> SUFFICES ASSUME IInv, CheckFlushLock PROVE IInv'
    OBVIOUS
  <1> USE SaveAssumption DEF At, Goto, game, cache, second
  <1>1. TypeOK'
    BY DEF CheckFlushLock, IInv, TypeOK, Threads, Labels
  <1>2. (Places /\ Holder /\ OneFlusher)'
    BY DEF CheckFlushLock, IInv, TypeOK, Places, Holder, OneFlusher, Threads, Flushing, Holding
  <1>3. (Busy /\ GoneClean)'
    BY DEF CheckFlushLock, IInv, TypeOK, Places, Holder, OneFlusher, Busy, GoneClean, NeedsFlush,
       Content, Threads, Flushing, Holding
  <1>4. (Written /\ WrittenWhenClean)'
    BY DEF CheckFlushLock, IInv, TypeOK, Places, Holder, OneFlusher, Busy, Written, WrittenWhenClean,
       NeedsFlush, Threads, Flushing, Holding
  <1>5. (Redirecting /\ InStep)'
    BY DEF CheckFlushLock, IInv, TypeOK, Places, OneFlusher, Redirecting, InStep, Threads, Flushing
  <1> QED BY <1>1, <1>2, <1>3, <1>4, <1>5 DEF IInv

LEMMA CheckFlushCopyIInv == IInv /\ CheckFlushCopy => IInv'
  <1> SUFFICES ASSUME IInv, CheckFlushCopy PROVE IInv'
    OBVIOUS
  <1> USE SaveAssumption DEF At, Goto, game, cache, second
  <1>1. TypeOK'
    <2>1. TypeOK
      BY DEF IInv
    <2>2. pc' \in [Threads -> Labels]
      BY <2>1 DEF CheckFlushCopy, TypeOK, Threads, Labels
    <2>3. secondary' \in Content \cup {<<>>, Null}
      BY <2>1 DEF CheckFlushCopy, Copy, TypeOK
    <2>4. flushVer' \in Nat
      BY <2>1 DEF CheckFlushCopy, TypeOK
    <2>5. flushReq' \in BOOLEAN
      BY DEF CheckFlushCopy
    <2>6. timer' \in {"unset", "fresh", "aged"} /\ lock' \in Threads \cup {"free"}
      BY DEF CheckFlushCopy
    <2> QED BY <2>1, <2>2, <2>3, <2>4, <2>5, <2>6 DEF CheckFlushCopy, TypeOK
  <1>2. (Places /\ Holder /\ OneFlusher)'
    BY DEF CheckFlushCopy, IInv, TypeOK, Places, Holder, OneFlusher, Threads, Flushing, Holding
  <1>3. (Busy /\ GoneClean)'
    BY DEF CheckFlushCopy, Copy, IInv, TypeOK, Places, Holder, OneFlusher, Busy, GoneClean, NeedsFlush,
       Content, Threads, Flushing, Holding
  <1>4. (Written /\ WrittenWhenClean)'
    BY DEF CheckFlushCopy, Copy, IInv, TypeOK, Places, Holder, OneFlusher, Busy, Written, WrittenWhenClean,
       NeedsFlush, Threads, Flushing, Holding
  <1>5. (Redirecting /\ InStep)'
    BY DEF CheckFlushCopy, Copy, IInv, TypeOK, Places, OneFlusher, Redirecting, InStep, Threads, Flushing
  <1> QED BY <1>1, <1>2, <1>3, <1>4, <1>5 DEF IInv

LEMMA SetPathBeginIInv == IInv /\ SetPathBegin => IInv'
  <1> SUFFICES ASSUME IInv, SetPathBegin PROVE IInv'
    OBVIOUS
  <1> USE SaveAssumption DEF At, Goto, game, cache, second
  <1>1. TypeOK'
    BY DEF SetPathBegin, IInv, TypeOK, Threads, Labels
  <1>2. (Places /\ Holder /\ OneFlusher)'
    BY DEF SetPathBegin, IInv, TypeOK, Places, Holder, OneFlusher, Threads, Flushing, Holding
  <1>3. (Busy /\ GoneClean)'
    BY DEF SetPathBegin, IInv, TypeOK, Places, Holder, OneFlusher, Busy, GoneClean, NeedsFlush,
       Content, Threads, Flushing, Holding
  <1>4. (Written /\ WrittenWhenClean)'
    BY DEF SetPathBegin, IInv, TypeOK, Places, Holder, OneFlusher, Busy, Written, WrittenWhenClean,
       NeedsFlush, Threads, Flushing, Holding
  <1>5. (Redirecting /\ InStep)'
    BY DEF SetPathBegin, IInv, TypeOK, Places, OneFlusher, Redirecting, InStep, Threads, Flushing
  <1> QED BY <1>1, <1>2, <1>3, <1>4, <1>5 DEF IInv

LEMMA SetPathEndIInv == IInv /\ SetPathEnd => IInv'
  <1> SUFFICES ASSUME IInv, SetPathEnd PROVE IInv'
    OBVIOUS
  <1> USE SaveAssumption DEF At, Goto, game, cache, second
  <1>1. TypeOK'
    <2>1. TypeOK
      BY DEF IInv
    <2>2. pc' \in [Threads -> Labels]
      BY <2>1 DEF SetPathEnd, TypeOK, Threads, Labels
    <2>3. path' \in Paths /\ flushReq' \in BOOLEAN
      BY <2>1 DEF SetPathEnd, TypeOK
    <2>4. UNCHANGED <<sram, ver, saved, backup, prevSave, buffer, secondary, flushVer,
                      prevVer, timer, lock, running, file, dest, goal>>
      BY DEF SetPathEnd
    <2> QED BY ONLY <2>1, <2>2, <2>3, <2>4 DEF TypeOK
  <1>2. (Places /\ Holder /\ OneFlusher)'
    BY DEF SetPathEnd, IInv, TypeOK, Places, Holder, OneFlusher, Threads, Flushing, Holding
  <1>3. (Busy /\ GoneClean)'
    BY DEF SetPathEnd, IInv, TypeOK, Places, Holder, OneFlusher, Busy, GoneClean, NeedsFlush,
       Content, Threads, Flushing, Holding
  <1>4. (Written /\ WrittenWhenClean)'
    BY DEF SetPathEnd, IInv, TypeOK, Places, Holder, OneFlusher, Busy, Written, WrittenWhenClean,
       NeedsFlush, Threads, Flushing, Holding
  <1>5. (Redirecting /\ InStep)'
    BY DEF SetPathEnd, IInv, TypeOK, Places, OneFlusher, Redirecting, InStep, Threads, Flushing
  <1> QED BY <1>1, <1>2, <1>3, <1>4, <1>5 DEF IInv

LEMMA SetPathReloadIInv == IInv /\ SetPathReload => IInv'
  <1> SUFFICES ASSUME IInv, SetPathReload PROVE IInv'
    OBVIOUS
  <1> USE SaveAssumption DEF At, Goto, game, cache, second
  <1>1. TypeOK'
    <2>1. TypeOK
      BY DEF IInv
    <2>2. pc' \in [Threads -> Labels]
      BY <2>1 DEF SetPathReload, TypeOK, Threads, Labels
    <2>3. path \in Paths
      BY <2>1 DEF SetPathReload, IInv, TypeOK, Redirecting
    <2>4. buffer' \in Content \cup {<<>>}
      <3>1. file[path] \in Content \cup {<<>>, Null}
        BY <2>1, <2>3 DEF TypeOK
      <3> QED BY <2>1, <3>1 DEF SetPathReload, TypeOK
    <2>5. UNCHANGED <<sram, ver, saved, backup, prevSave, flushReq, path, secondary, flushVer,
                      prevVer, timer, lock, running, file, dest, goal>>
      BY DEF SetPathReload
    <2> QED BY ONLY <2>1, <2>2, <2>4, <2>5 DEF TypeOK
  <1>2. (Places /\ Holder /\ OneFlusher)'
    BY DEF SetPathReload, IInv, TypeOK, Places, Holder, OneFlusher, Threads, Flushing, Holding
  <1>3. (Busy /\ GoneClean)'
    BY DEF SetPathReload, IInv, TypeOK, Places, Holder, OneFlusher, Busy, GoneClean, NeedsFlush,
       Content, Threads, Flushing, Holding
  <1>4. (Written /\ WrittenWhenClean)'
    BY DEF SetPathReload, IInv, TypeOK, Places, Holder, OneFlusher, Busy, Written, WrittenWhenClean,
       NeedsFlush, Threads, Flushing, Holding
  <1>5. (Redirecting /\ InStep)'
    BY DEF SetPathReload, IInv, TypeOK, Places, OneFlusher, Redirecting, InStep, Threads, Flushing
  <1> QED BY <1>1, <1>2, <1>3, <1>4, <1>5 DEF IInv

LEMMA UndoStateLoadIInv == IInv /\ UndoStateLoad => IInv'
  <1> SUFFICES ASSUME IInv, UndoStateLoad PROVE IInv'
    OBVIOUS
  <1> USE SaveAssumption DEF At, Goto, game, cache, second
  <1>1. TypeOK'
    <2>1. TypeOK
      BY DEF IInv
    <2>2. pc' \in [Threads -> Labels]
      BY <2>1 DEF UndoStateLoad, RequestFlush, Mirror, CallSetPath, TypeOK, Threads, Labels
    <2>3. sram' \in Content /\ ver' \in Nat
      BY <2>1 DEF UndoStateLoad, TypeOK
    <2>4. buffer' \in Content
      BY <2>1 DEF UndoStateLoad, TypeOK, RequestFlush, Mirror, Content
    <2>5. flushReq' \in BOOLEAN
      BY DEF UndoStateLoad, RequestFlush
    <2>6. goal' \in [to : Paths, reload : BOOLEAN]
      <3>1. CASE prevSave = Null
        BY <2>1, <3>1 DEF UndoStateLoad, TypeOK
      <3>2. CASE prevSave # Null
        <4>1. prevSave \in Paths
          BY <2>1, <3>2 DEF TypeOK
        <4>2. goal' = [to |-> prevSave, reload |-> TRUE]
          BY <3>2 DEF UndoStateLoad, CallSetPath
        <4> QED BY <4>1, <4>2
      <3> QED BY <3>1, <3>2
    <2> QED BY <2>1, <2>2, <2>3, <2>4, <2>5, <2>6 DEF UndoStateLoad, TypeOK
  <1>2. (Places /\ Holder /\ OneFlusher)'
    BY DEF UndoStateLoad, RequestFlush, Mirror, CallSetPath, IInv, TypeOK, Places, Holder, OneFlusher, Threads, Flushing, Holding
  <1>3. (Busy /\ GoneClean)'
    BY DEF UndoStateLoad, RequestFlush, Mirror, CallSetPath, IInv, TypeOK, Places, Holder, OneFlusher, Busy, GoneClean, NeedsFlush,
       Content, Threads, Flushing, Holding
  <1>4. (Written /\ WrittenWhenClean)'
    BY DEF UndoStateLoad, RequestFlush, Mirror, CallSetPath, IInv, TypeOK, Places, Holder, OneFlusher, Busy, Written, WrittenWhenClean,
       NeedsFlush, Threads, Flushing, Holding
  <1>5. (Redirecting /\ InStep)'
    BY DEF UndoStateLoad, RequestFlush, Mirror, CallSetPath, IInv, TypeOK, Places, OneFlusher, Redirecting, InStep, Threads, Flushing
  <1> QED BY <1>1, <1>2, <1>3, <1>4, <1>5 DEF IInv

LEMMA ResetIInv == IInv /\ Reset => IInv'
  <1> SUFFICES ASSUME IInv, Reset PROVE IInv'
    OBVIOUS
  <1> USE SaveAssumption DEF At, Goto, game, cache, second
  <1>1. TypeOK'
    BY DEF Reset, CallSetPath, Paths, IInv, TypeOK, Threads, Labels
  <1>2. (Places /\ Holder /\ OneFlusher)'
    BY DEF Reset, CallSetPath, Paths, IInv, TypeOK, Places, Holder, OneFlusher, Threads, Flushing, Holding
  <1>3. (Busy /\ GoneClean)'
    BY DEF Reset, CallSetPath, Paths, IInv, TypeOK, Places, Holder, OneFlusher, Busy, GoneClean, NeedsFlush,
       Content, Threads, Flushing, Holding
  <1>4. (Written /\ WrittenWhenClean)'
    BY DEF Reset, CallSetPath, Paths, IInv, TypeOK, Places, Holder, OneFlusher, Busy, Written, WrittenWhenClean,
       NeedsFlush, Threads, Flushing, Holding
  <1>5. (Redirecting /\ InStep)'
    BY DEF Reset, CallSetPath, Paths, IInv, TypeOK, Places, OneFlusher, Redirecting, InStep, Threads, Flushing
  <1> QED BY <1>1, <1>2, <1>3, <1>4, <1>5 DEF IInv

LEMMA DestroyIInv == IInv /\ Destroy => IInv'
  <1> SUFFICES ASSUME IInv, Destroy PROVE IInv'
    OBVIOUS
  <1> USE SaveAssumption DEF At, Goto, game, cache, second
  <1>1. TypeOK'
    <2>1. TypeOK
      BY DEF IInv
    <2>2. pc' \in [Threads -> Labels]
      BY <2>1 DEF Destroy, TypeOK, Threads, Labels
    <2>3. /\ running' \in BOOLEAN
          /\ UNCHANGED <<sram, ver, saved, backup, prevSave, buffer, flushReq, path,
                         secondary, flushVer, prevVer, timer, lock, file, dest, goal>>
      BY DEF Destroy
    <2> QED BY ONLY <2>1, <2>2, <2>3 DEF TypeOK
  <1>2. (Places /\ Holder /\ OneFlusher)'
    BY DEF Destroy, IInv, TypeOK, Places, Holder, OneFlusher, Threads, Flushing, Holding
  <1>3. (Busy /\ GoneClean)'
    BY DEF Destroy, IInv, TypeOK, Places, Holder, OneFlusher, Busy, GoneClean, NeedsFlush,
       Content, Threads, Flushing, Holding
  <1>4. (Written /\ WrittenWhenClean)'
    BY DEF Destroy, IInv, TypeOK, Places, Holder, OneFlusher, Busy, Written, WrittenWhenClean,
       NeedsFlush, Threads, Flushing, Holding
  <1>5. (Redirecting /\ InStep)'
    BY DEF Destroy, IInv, TypeOK, Places, OneFlusher, Redirecting, InStep, Threads, Flushing
  <1> QED BY <1>1, <1>2, <1>3, <1>4, <1>5 DEF IInv

LEMMA JoinIInv == IInv /\ Join => IInv'
  <1> SUFFICES ASSUME IInv, Join PROVE IInv'
    OBVIOUS
  <1> USE SaveAssumption DEF At, Goto, game, cache, second
  <1>1. TypeOK'
    BY DEF Join, IInv, TypeOK, Threads, Labels
  <1>2. (Places /\ Holder /\ OneFlusher)'
    BY DEF Join, IInv, TypeOK, Places, Holder, OneFlusher, Threads, Flushing, Holding
  <1>3. (Busy /\ GoneClean)'
    BY DEF Join, IInv, TypeOK, Places, Holder, OneFlusher, Busy, GoneClean, NeedsFlush,
       Content, Threads, Flushing, Holding
  <1>4. (Written /\ WrittenWhenClean)'
    BY DEF Join, IInv, TypeOK, Places, Holder, OneFlusher, Busy, Written, WrittenWhenClean,
       NeedsFlush, Threads, Flushing, Holding
  <1>5. (Redirecting /\ InStep)'
    BY DEF Join, IInv, TypeOK, Places, OneFlusher, Redirecting, InStep, Threads, Flushing
  <1> QED BY <1>1, <1>2, <1>3, <1>4, <1>5 DEF IInv

LEMMA WakeIInv == IInv /\ Wake => IInv'
  <1> SUFFICES ASSUME IInv, Wake PROVE IInv'
    OBVIOUS
  <1> USE SaveAssumption DEF At, Goto, game, cache, second
  <1>1. TypeOK'
    BY DEF Wake, IInv, TypeOK, Threads, Labels
  <1>2. (Places /\ Holder /\ OneFlusher)'
    BY DEF Wake, IInv, TypeOK, Places, Holder, OneFlusher, Threads, Flushing, Holding
  <1>3. (Busy /\ GoneClean)'
    BY DEF Wake, IInv, TypeOK, Places, Holder, OneFlusher, Busy, GoneClean, NeedsFlush,
       Content, Threads, Flushing, Holding
  <1>4. (Written /\ WrittenWhenClean)'
    BY DEF Wake, IInv, TypeOK, Places, Holder, OneFlusher, Busy, Written, WrittenWhenClean,
       NeedsFlush, Threads, Flushing, Holding
  <1>5. (Redirecting /\ InStep)'
    BY DEF Wake, IInv, TypeOK, Places, OneFlusher, Redirecting, InStep, Threads, Flushing
  <1> QED BY <1>1, <1>2, <1>3, <1>4, <1>5 DEF IInv

LEMMA TickIInv == IInv /\ Tick => IInv'
  <1> SUFFICES ASSUME IInv, Tick PROVE IInv'
    OBVIOUS
  <1> USE SaveAssumption DEF At, Goto, game, cache, second
  <1>1. TypeOK'
    BY DEF Tick, IInv, TypeOK, Threads, Labels
  <1>2. (Places /\ Holder /\ OneFlusher)'
    BY DEF Tick, IInv, TypeOK, Places, Holder, OneFlusher, Threads, Flushing, Holding
  <1>3. (Busy /\ GoneClean)'
    BY DEF Tick, IInv, TypeOK, Places, Holder, OneFlusher, Busy, GoneClean, NeedsFlush,
       Content, Threads, Flushing, Holding
  <1>4. (Written /\ WrittenWhenClean)'
    BY DEF Tick, IInv, TypeOK, Places, Holder, OneFlusher, Busy, Written, WrittenWhenClean,
       NeedsFlush, Threads, Flushing, Holding
  <1>5. (Redirecting /\ InStep)'
    BY DEF Tick, IInv, TypeOK, Places, OneFlusher, Redirecting, InStep, Threads, Flushing
  <1> QED BY <1>1, <1>2, <1>3, <1>4, <1>5 DEF IInv

LEMMA FlushCheckIInv == ASSUME NEW t \in Threads, IInv, FlushCheck(t) PROVE IInv'
  <1> USE SaveAssumption DEF At, Goto, game, cache, second
  <1>1. TypeOK'
    BY DEF FlushCheck, Targets, AfterFlush, IInv, TypeOK, Threads, Labels
  <1>2. (Places /\ Holder /\ OneFlusher)'
    BY DEF FlushCheck, Targets, AfterFlush, IInv, TypeOK, Places, Holder, OneFlusher, Threads, Flushing, Holding
  <1>3. (Busy /\ GoneClean)'
    BY DEF FlushCheck, Targets, AfterFlush, IInv, TypeOK, Places, Holder, OneFlusher, Busy, GoneClean, NeedsFlush,
       Content, Threads, Flushing, Holding
  <1>4. (Written /\ WrittenWhenClean)'
    BY DEF FlushCheck, Targets, AfterFlush, IInv, TypeOK, Places, Holder, OneFlusher, Busy, Written, WrittenWhenClean,
       NeedsFlush, Threads, Flushing, Holding
  <1>5. (Redirecting /\ InStep)'
    BY DEF FlushCheck, Targets, AfterFlush, IInv, TypeOK, Places, OneFlusher, Redirecting, InStep, Threads, Flushing
  <1> QED BY <1>1, <1>2, <1>3, <1>4, <1>5 DEF IInv

LEMMA FlushLockIInv == ASSUME NEW t \in Threads, IInv, FlushLock(t) PROVE IInv'
  <1> USE SaveAssumption DEF At, Goto, game, cache, second
  <1>1. TypeOK'
    BY DEF FlushLock, Targets, AfterFlush, IInv, TypeOK, Threads, Labels
  <1>2. (Places /\ Holder /\ OneFlusher)'
    BY DEF FlushLock, Targets, AfterFlush, IInv, TypeOK, Places, Holder, OneFlusher, Threads, Flushing, Holding
  <1>3. (Busy /\ GoneClean)'
    BY DEF FlushLock, Targets, AfterFlush, IInv, TypeOK, Places, Holder, OneFlusher, Busy, GoneClean, NeedsFlush,
       Content, Threads, Flushing, Holding
  <1>4. (Written /\ WrittenWhenClean)'
    BY DEF FlushLock, Targets, AfterFlush, IInv, TypeOK, Places, Holder, OneFlusher, Busy, Written, WrittenWhenClean,
       NeedsFlush, Threads, Flushing, Holding
  <1>5. (Redirecting /\ InStep)'
    BY DEF FlushLock, Targets, AfterFlush, IInv, TypeOK, Places, OneFlusher, Redirecting, InStep, Threads, Flushing
  <1> QED BY <1>1, <1>2, <1>3, <1>4, <1>5 DEF IInv

LEMMA FlushOpenIInv == ASSUME NEW t \in Threads, IInv, FlushOpen(t) PROVE IInv'
  <1> USE SaveAssumption DEF At, Goto, game, cache, second
  <1>1. TypeOK'
    BY DEF FlushOpen, Targets, AfterFlush, IInv, TypeOK, Threads, Labels
  <1>2. (Places /\ Holder /\ OneFlusher)'
    BY DEF FlushOpen, Targets, AfterFlush, IInv, TypeOK, Places, Holder, OneFlusher, Threads, Flushing, Holding
  <1>3. (Busy /\ GoneClean)'
    BY DEF FlushOpen, Targets, AfterFlush, IInv, TypeOK, Places, Holder, OneFlusher, Busy, GoneClean, NeedsFlush,
       Content, Threads, Flushing, Holding
  <1>4. (Written /\ WrittenWhenClean)'
    BY DEF FlushOpen, Targets, AfterFlush, IInv, TypeOK, Places, Holder, OneFlusher, Busy, Written, WrittenWhenClean,
       NeedsFlush, Threads, Flushing, Holding
  <1>5. (Redirecting /\ InStep)'
    BY DEF FlushOpen, Targets, AfterFlush, IInv, TypeOK, Places, OneFlusher, Redirecting, InStep, Threads, Flushing
  <1> QED BY <1>1, <1>2, <1>3, <1>4, <1>5 DEF IInv

LEMMA FlushOpenFailsIInv == ASSUME NEW t \in Threads, IInv, FlushOpenFails(t) PROVE IInv'
  <1> USE SaveAssumption DEF At, Goto, game, cache, second
  <1>1. TypeOK'
    BY DEF FlushOpenFails, Targets, AfterFlush, IInv, TypeOK, Threads, Labels
  <1>2. (Places /\ Holder /\ OneFlusher)'
    BY DEF FlushOpenFails, Targets, AfterFlush, IInv, TypeOK, Places, Holder, OneFlusher, Threads, Flushing, Holding
  <1>3. (Busy /\ GoneClean)'
    BY DEF FlushOpenFails, Targets, AfterFlush, IInv, TypeOK, Places, Holder, OneFlusher, Busy, GoneClean, NeedsFlush,
       Content, Threads, Flushing, Holding
  <1>4. (Written /\ WrittenWhenClean)'
    BY DEF FlushOpenFails, Targets, AfterFlush, IInv, TypeOK, Places, Holder, OneFlusher, Busy, Written, WrittenWhenClean,
       NeedsFlush, Threads, Flushing, Holding
  <1>5. (Redirecting /\ InStep)'
    BY DEF FlushOpenFails, Targets, AfterFlush, IInv, TypeOK, Places, OneFlusher, Redirecting, InStep, Threads, Flushing
  <1> QED BY <1>1, <1>2, <1>3, <1>4, <1>5 DEF IInv

LEMMA FlushWriteIInv == ASSUME NEW t \in Threads, IInv, FlushWrite(t) PROVE IInv'
  <1> USE SaveAssumption DEF At, Goto, game, cache, second
  <1>1. TypeOK'
    <2>1. TypeOK
      BY DEF IInv
    <2>2. pc' \in [Threads -> Labels]
      BY <2>1 DEF FlushWrite, TypeOK, Threads, Labels
    <2>3. file' \in [Paths -> Content \cup {<<>>, Null}]
      BY <2>1 DEF FlushWrite, TypeOK
    <2> QED BY <2>1, <2>2, <2>3 DEF FlushWrite, TypeOK
  <1>2. (Places /\ Holder /\ OneFlusher)'
    BY DEF FlushWrite, IInv, TypeOK, Places, Holder, OneFlusher, Threads, Flushing, Holding
  <1>3. (Busy /\ GoneClean)'
    BY DEF FlushWrite, IInv, TypeOK, Places, Holder, OneFlusher, Busy, GoneClean, NeedsFlush,
       Content, Threads, Flushing, Holding
  <1>4. (Written /\ WrittenWhenClean)'
    BY DEF FlushWrite, IInv, TypeOK, Places, Holder, OneFlusher, Busy, Written, WrittenWhenClean,
       NeedsFlush, Threads, Flushing, Holding
  <1>5. (Redirecting /\ InStep)'
    BY DEF FlushWrite, IInv, TypeOK, Places, OneFlusher, Redirecting, InStep, Threads, Flushing
  <1> QED BY <1>1, <1>2, <1>3, <1>4, <1>5 DEF IInv

LEMMA FlushPublishIInv == ASSUME NEW t \in Threads, IInv, FlushPublish(t) PROVE IInv'
  <1> USE SaveAssumption DEF At, Goto, game, cache, second
  <1>1. TypeOK'
    BY DEF FlushPublish, Targets, AfterFlush, IInv, TypeOK, Threads, Labels
  <1>2. (Places /\ Holder /\ OneFlusher)'
    BY DEF FlushPublish, Targets, AfterFlush, IInv, TypeOK, Places, Holder, OneFlusher, Threads, Flushing, Holding
  <1>3. (Busy /\ GoneClean)'
    BY DEF FlushPublish, Targets, AfterFlush, IInv, TypeOK, Places, Holder, OneFlusher, Busy, GoneClean, NeedsFlush,
       Content, Threads, Flushing, Holding
  <1>4. (Written /\ WrittenWhenClean)'
    BY DEF FlushPublish, Targets, AfterFlush, IInv, TypeOK, Places, Holder, OneFlusher, Busy, Written, WrittenWhenClean,
       NeedsFlush, Threads, Flushing, Holding
  <1>5. (Redirecting /\ InStep)'
    BY DEF FlushPublish, Targets, AfterFlush, IInv, TypeOK, Places, OneFlusher, Redirecting, InStep, Threads, Flushing
  <1> QED BY <1>1, <1>2, <1>3, <1>4, <1>5 DEF IInv

LEMMA LoadStateIInv == ASSUME NEW s \in Slots, IInv, LoadState(s) PROVE IInv'
  <1> USE SaveAssumption DEF At, Goto, game, cache, second
  <1>1. TypeOK'
    <2>1. TypeOK
      BY DEF IInv
    <2>2. pc' \in [Threads -> Labels]
      BY <2>1 DEF LoadState, RequestFlush, Mirror, CallSetPath, TypeOK, Threads, Labels
    <2>3. /\ sram' \in Content /\ ver' \in Nat
          /\ backup' \in Content \cup {Null}
      BY <2>1 DEF LoadState, TypeOK
    <2>4. buffer' \in Content
      BY <2>1 DEF LoadState, TypeOK, RequestFlush, Mirror, Content
    <2>5. flushReq' \in BOOLEAN
      BY DEF LoadState, RequestFlush
    <2>6. goal' \in [to : Paths, reload : BOOLEAN]
      <3>1. CASE Relocate
        <4>1. goal' = [to |-> s, reload |-> TRUE]
          BY <3>1 DEF LoadState, CallSetPath
        <4> QED BY <4>1 DEF Paths
      <3>2. CASE ~Relocate
        BY <2>1, <3>2 DEF LoadState, TypeOK
      <3> QED BY <3>1, <3>2
    <2>7. prevSave' \in Paths \cup {Null}
      BY <2>1 DEF LoadState, TypeOK, CallSetPath, IInv, Redirecting
    <2> QED BY <2>1, <2>2, <2>3, <2>4, <2>5, <2>6, <2>7 DEF LoadState, TypeOK
  <1>2. (Places /\ Holder /\ OneFlusher)'
    BY DEF LoadState, RequestFlush, Mirror, CallSetPath, IInv, TypeOK, Places, Holder, OneFlusher, Threads, Flushing, Holding
  <1>3. (Busy /\ GoneClean)'
    BY DEF LoadState, RequestFlush, Mirror, CallSetPath, IInv, TypeOK, Places, Holder, OneFlusher, Busy, GoneClean, NeedsFlush,
       Content, Threads, Flushing, Holding
  <1>4. (Written /\ WrittenWhenClean)'
    BY DEF LoadState, RequestFlush, Mirror, CallSetPath, IInv, TypeOK, Places, Holder, OneFlusher, Busy, Written, WrittenWhenClean,
       NeedsFlush, Threads, Flushing, Holding
  <1>5. (Redirecting /\ InStep)'
    BY DEF LoadState, RequestFlush, Mirror, CallSetPath, IInv, TypeOK, Places, OneFlusher, Redirecting, InStep, Threads, Flushing, Paths
  <1> QED BY <1>1, <1>2, <1>3, <1>4, <1>5 DEF IInv

LEMMA SaveStateIInv == ASSUME NEW s \in Slots, IInv, SaveState(s) PROVE IInv'
  <1> USE SaveAssumption DEF At, Goto, game, cache, second
  <1>1. TypeOK'
    <2>1. TypeOK
      BY DEF IInv
    <2>2. pc' \in [Threads -> Labels]
      BY <2>1 DEF SaveState, RequestFlush, Mirror, CallSetPath, TypeOK, Threads, Labels
    <2>3. saved' \in [Slots -> Content \cup {Null}]
      BY <2>1 DEF SaveState, TypeOK
    <2>4. goal' \in [to : Paths, reload : BOOLEAN]
      <3>1. CASE Relocate
        <4>1. goal' = [to |-> s, reload |-> FALSE]
          BY <3>1 DEF SaveState, CallSetPath
        <4> QED BY <4>1 DEF Paths
      <3>2. CASE ~Relocate
        BY <2>1, <3>2 DEF SaveState, TypeOK
      <3> QED BY <3>1, <3>2
    <2> QED BY <2>1, <2>2, <2>3, <2>4 DEF SaveState, TypeOK
  <1>2. (Places /\ Holder /\ OneFlusher)'
    BY DEF SaveState, RequestFlush, Mirror, CallSetPath, IInv, TypeOK, Places, Holder, OneFlusher, Threads, Flushing, Holding
  <1>3. (Busy /\ GoneClean)'
    BY DEF SaveState, RequestFlush, Mirror, CallSetPath, IInv, TypeOK, Places, Holder, OneFlusher, Busy, GoneClean, NeedsFlush,
       Content, Threads, Flushing, Holding
  <1>4. (Written /\ WrittenWhenClean)'
    BY DEF SaveState, RequestFlush, Mirror, CallSetPath, IInv, TypeOK, Places, Holder, OneFlusher, Busy, Written, WrittenWhenClean,
       NeedsFlush, Threads, Flushing, Holding
  <1>5. (Redirecting /\ InStep)'
    BY DEF SaveState, RequestFlush, Mirror, CallSetPath, IInv, TypeOK, Places, OneFlusher, Redirecting, InStep, Threads, Flushing, Paths
  <1> QED BY <1>1, <1>2, <1>3, <1>4, <1>5 DEF IInv

LEMMA FlushIInv == ASSUME NEW t \in Threads, IInv, Flush(t) PROVE IInv'
  BY FlushCheckIInv, FlushLockIInv, FlushOpenIInv, FlushOpenFailsIInv, FlushWriteIInv,
     FlushPublishIInv DEF Flush

LEMMA StutterIInv == IInv /\ UNCHANGED vars => IInv'
  BY DEF IInv, TypeOK, Places, Holder, OneFlusher, Busy, Written, WrittenWhenClean,
     Redirecting, InStep, GoneClean, NeedsFlush, At, game, cache, second, vars

(* Every step preserves the invariant. *)
LEMMA NextIInv == IInv /\ [Next]_vars => IInv'
  <1> SUFFICES ASSUME IInv, [Next]_vars PROVE IInv'
    OBVIOUS
  <1>1. CASE Frame
    BY <1>1, StartFrameIInv, GameWriteIInv, EndFrameIInv, CheckFlushLockIInv,
       CheckFlushCopyIInv DEF Frame
  <1>2. CASE SetPath
    BY <1>2, SetPathBeginIInv, SetPathEndIInv, SetPathReloadIInv DEF SetPath
  <1>3. CASE Message
    BY <1>3, LoadStateIInv, SaveStateIInv, UndoStateLoadIInv, ResetIInv, DestroyIInv,
       JoinIInv DEF Message
  <1>4. CASE Wake \/ Tick
    BY <1>4, WakeIInv, TickIInv
  <1>5. CASE \E t \in Threads : Flush(t)
    BY <1>5, FlushIInv
  <1>6. CASE Closed \/ UNCHANGED vars
    BY <1>6, StutterIInv DEF Closed
  <1> QED BY <1>1, <1>2, <1>3, <1>4, <1>5, <1>6 DEF Next

LEMMA Invariance == Spec => []IInv
  <1>1. Init => IInv
    BY InitIInv
  <1>2. IInv /\ [Next]_vars => IInv'
    BY NextIInv
  <1> QED BY <1>1, <1>2, PTL DEF Spec

\* Every variable keeps its type, whatever the slots, the size of the memory,
\* the option for relocation and the opens that fail.
THEOREM TypeCorrect == Spec => []TypeOK
  <1>1. IInv => TypeOK
    BY DEF IInv
  <1> QED BY <1>1, Invariance, PTL

\* CheckFlush and the saver never lose a version between them: when NeedsFlush
\* is false, the file the last open led to holds SecondaryBuffer.
THEOREM NoVersionLost == Spec => []WrittenWhenClean
  <1>1. IInv => WrittenWhenClean
    BY DEF IInv
  <1> QED BY <1>1, Invariance, PTL

\* A destroyed manager with no request outstanding has written the contents of
\* Buffer, unless its last open failed or led astray.
THEOREM CloseFlushes == Spec => []ClosedIsFlushed
  <1>1. IInv => ClosedIsFlushed
    <2> SUFFICES ASSUME IInv PROVE ClosedIsFlushed
      OBVIOUS
    <2>1. buffer # Null
      BY SaveAssumption DEF IInv, TypeOK, Content
    <2> QED BY <2>1 DEF IInv, WrittenWhenClean, InStep, GoneClean, ClosedIsFlushed, At
  <1> QED BY <1>1, Invariance, PTL

-----------------------------------------------------------------------------
(* RequestFlush. *)

\* A sum of a block's offset and a length that is at most one more than the memory is
\* taken modulo the size by subtracting the size once.
LEMMA Wraps ==
  ASSUME NEW x \in Nat, x < 2 * Size
  PROVE  x % Size = IF x < Size THEN x ELSE x - Size
  <1>1. Size \in Nat /\ Size > 0
    BY SaveAssumption
  <1>2. CASE x < Size
    BY <1>1, <1>2
  <1>3. CASE x >= Size
    BY <1>1, <1>3
  <1>4. QED BY <1>1, <1>2, <1>3

\* The two parts RequestFlush copies are the blocks a write changes, wherever it begins and
\* however it wraps.
LEMMA CopiedIsDirty ==
  ASSUME NEW o \in Blocks, NEW n \in 1 .. Size + 1
  PROVE  Copied(o, n) \cap Blocks = Dirty(o, n)
  <1>1. Size \in Nat /\ Size > 0 /\ o \in Nat /\ 1 <= o /\ o <= Size /\ n \in Nat
        /\ 1 <= n /\ n <= Size + 1
    BY SaveAssumption DEF Blocks
  <1>2. \A i \in 0 .. n - 1 :
            (o - 1 + i) % Size = IF o - 1 + i < Size THEN o - 1 + i ELSE o - 1 + i - Size
    <2> DEFINE Mod(x) == x % Size
    <2>1. \A x \in Nat : x < 2 * Size => Mod(x) = IF x < Size THEN x ELSE x - Size
      BY Wraps
    <2> HIDE DEF Mod
    <2>2. \A i \in 0 .. n - 1 :
              Mod(o - 1 + i) = IF o - 1 + i < Size THEN o - 1 + i ELSE o - 1 + i - Size
      BY <1>1, <2>1
    <2>3. QED BY <2>2, Zenon DEF Mod
  <1>3. ASSUME NEW b \in Dirty(o, n) PROVE b \in Copied(o, n) /\ b \in Blocks
    <2>1. PICK i \in 0 .. n - 1 : b = ((o - 1 + i) % Size) + 1
      BY DEF Dirty
    <2>2. CASE o - 1 + i < Size
      BY <1>1, <1>2, <2>1, <2>2 DEF Copied, Blocks
    <2>3. CASE o - 1 + i >= Size
      BY <1>1, <1>2, <2>1, <2>3 DEF Copied, Blocks
    <2>4. QED BY <1>1, <2>2, <2>3
  <1>4. ASSUME NEW b \in Blocks, b \in Copied(o, n) PROVE b \in Dirty(o, n)
    <2>1. \E i \in 0 .. n - 1 : b = (IF o - 1 + i < Size THEN o - 1 + i ELSE o - 1 + i - Size) + 1
      <3>1. CASE b >= o
        <4>1. b - o \in 0 .. n - 1 /\ o - 1 + (b - o) < Size
          BY <1>1, <1>4, <3>1 DEF Copied, Blocks
        <4>2. b = o - 1 + (b - o) + 1
          BY <1>1 DEF Blocks
        <4>3. QED BY <4>1, <4>2
      <3>2. CASE b < o
        <4> DEFINE k == b - o + Size
        <4>1. k \in 0 .. n - 1 /\ ~(o - 1 + k < Size) /\ b = o - 1 + k - Size + 1
          BY <1>1, <1>4, <3>2 DEF Copied, Blocks
        <4> HIDE DEF k
        <4>2. QED BY <4>1
      <3>3. QED BY <1>1, <3>1, <3>2 DEF Blocks
    <2>2. QED BY <1>2, <2>1 DEF Dirty
  <1>5. QED BY <1>3, <1>4

\* Buffer is reloaded from a file only after a state was loaded together with its own.
Reloading ==
    (pc["emu"] \in {"setPath", "setPathEnd"} /\ goal.reload) \/ pc["emu"] = "reload"
        => prevSave # Null

LEMMA MirrorSteps == IInv /\ Reloading /\ BufferMirrorsSram /\ [Next]_vars
                        => Reloading' /\ BufferMirrorsSram'
  <1> SUFFICES ASSUME IInv, Reloading, BufferMirrorsSram, [Next]_vars
               PROVE  Reloading' /\ BufferMirrorsSram'
    OBVIOUS
  <1> DEFINE Emu == pc["emu"]
  <1>1. /\ sram \in Content /\ buffer \in Content \cup {<<>>} /\ backup \in Content \cup {Null}
        /\ saved \in [Slots -> Content \cup {Null}] /\ pc \in [Threads -> Labels]
        /\ "emu" \in Threads
    BY DEF IInv, TypeOK, Threads
  <1>2. ASSUME UNCHANGED <<sram, buffer, prevSave, goal>>,
               Emu' = Emu \/ Emu' \notin {"setPath", "setPathEnd", "reload"}
                 \/ (Emu = "setPath" /\ Emu' = "setPathEnd")
                 \/ (Emu = "setPathEnd" /\ Emu' = "reload" /\ goal.reload)
        PROVE  Reloading' /\ BufferMirrorsSram'
    BY <1>2 DEF Reloading, BufferMirrorsSram
  <1>3. CASE GameWrite
    <2>1. PICK o \in Blocks, n \in 1 .. Size + 1 :
            /\ sram' = [b \in Blocks |-> IF b \in Dirty(o, n) THEN ver + 1 ELSE sram[b]]
            /\ buffer' = Mirror(sram', Copied(o, n))
      BY <1>3 DEF GameWrite, RequestFlush
    <2>2. UNCHANGED <<prevSave, goal, pc>>
      BY <1>3 DEF GameWrite
    <2>3. \A b \in Blocks : b \in Copied(o, n) <=> b \in Dirty(o, n)
      BY CopiedIsDirty
    <2>4. CASE buffer = <<>>
      BY <2>1, <2>2, <2>4 DEF Mirror, Reloading, BufferMirrorsSram
    <2>5. CASE buffer # <<>>
      <3>1. prevSave = Null => buffer = sram
        BY <2>5 DEF BufferMirrorsSram
      <3>2. buffer' = [b \in Blocks |-> IF b \in Dirty(o, n) THEN sram'[b] ELSE buffer[b]]
        BY <2>1, <2>3, <2>5 DEF Mirror
      <3>3. prevSave = Null => buffer' = sram'
        BY <2>1, <3>1, <3>2
      <3>4. QED BY <2>2, <3>3 DEF Reloading, BufferMirrorsSram
    <2>6. QED BY <2>4, <2>5
  <1>4. ASSUME NEW s \in Slots, LoadState(s) PROVE Reloading' /\ BufferMirrorsSram'
    <2>1. /\ Emu = "between" /\ saved[s] \in Content /\ sram' = saved[s]
          /\ buffer' = Mirror(saved[s], Blocks)
          /\ IF Relocate THEN prevSave' = path ELSE UNCHANGED <<prevSave, goal, pc>>
      BY <1>1, <1>4 DEF LoadState, RequestFlush, At
    <2>2. buffer' = sram'
      BY <2>1 DEF Mirror, Content
    <2>3. path # Null
      BY SaveAssumption DEF IInv, TypeOK
    <2>4. Reloading'
      BY <2>1, <2>3 DEF Reloading
    <2>5. QED BY <2>2, <2>4 DEF BufferMirrorsSram
  <1>5. ASSUME NEW s \in Slots, SaveState(s) PROVE Reloading' /\ BufferMirrorsSram'
    <2>1. /\ UNCHANGED <<sram, buffer, prevSave>>
          /\ \/ goal' = [to |-> s, reload |-> FALSE] /\ Emu' = "setPath"
             \/ UNCHANGED <<goal, pc>>
      BY <1>1, <1>5 DEF SaveState, CallSetPath, Goto, cache
    <2>2. QED BY <2>1 DEF Reloading, BufferMirrorsSram
  <1>6. CASE UndoStateLoad
    <2>1. /\ Emu = "between" /\ backup \in Content /\ sram' = backup /\ prevSave' = prevSave
          /\ buffer' = Mirror(backup, Blocks)
          /\ prevSave = Null => UNCHANGED pc
      BY <1>1, <1>6 DEF UndoStateLoad, RequestFlush, At
    <2>2. buffer' = sram'
      BY <2>1 DEF Mirror, Content
    <2>3. QED BY <2>1, <2>2 DEF Reloading, BufferMirrorsSram
  <1>7. CASE Reset
    <2>1. /\ UNCHANGED <<sram, buffer, prevSave>>
          /\ goal' = [to |-> Home, reload |-> FALSE] /\ Emu' = "setPath"
      BY <1>1, <1>7 DEF Reset, CallSetPath, Goto, game, cache
    <2>2. QED BY <2>1 DEF Reloading, BufferMirrorsSram
  <1>8. CASE SetPathReload
    <2>1. Emu = "reload" /\ UNCHANGED prevSave
      BY <1>8 DEF SetPathReload, At, game
    <2>2. QED BY <2>1 DEF Reloading, BufferMirrorsSram
  <1>9. CASE Frame /\ ~GameWrite
    BY <1>1, <1>2, <1>9
       DEF Frame, StartFrame, EndFrame, CheckFlushLock, CheckFlushCopy, game, cache, Goto, At
  <1>10. CASE SetPathBegin \/ SetPathEnd
    BY <1>1, <1>2, <1>10 DEF SetPathBegin, SetPathEnd, game, cache, Goto, At
  <1>11. CASE Destroy \/ Join
    BY <1>1, <1>2, <1>11 DEF Destroy, Join, game, cache, Goto, At
  <1>12. CASE Wake \/ Tick
    BY <1>1, <1>2, <1>12 DEF Wake, Tick, game, cache, Goto, At
  <1>13. ASSUME NEW t \in Threads, Flush(t) PROVE Reloading' /\ BufferMirrorsSram'
    <2>1. UNCHANGED <<sram, buffer, prevSave, goal>>
      BY <1>13 DEF Flush, FlushCheck, FlushLock, FlushOpen, FlushOpenFails, FlushWrite,
                   FlushPublish, game, cache
    <2>2. \E l \in {"sleep", "gone", "lock", "open", "write", "publish"} :
              pc' = [pc EXCEPT ![t] = l]
      BY <1>13 DEF Flush, FlushCheck, FlushLock, FlushOpen, FlushOpenFails, FlushWrite,
                   FlushPublish, AfterFlush, Goto
    <2>3. QED BY <1>1, <1>2, <2>1, <2>2
  <1>14. CASE Closed \/ UNCHANGED vars
    BY <1>2, <1>14 DEF Closed, vars, game, cache
  <1>15. QED
    BY <1>3, <1>4, <1>5, <1>6, <1>7, <1>8, <1>9, <1>10, <1>11, <1>12, <1>13, <1>14
       DEF Next, Message, SetPath

\* Until a state is loaded together with its own .sav, Buffer is the save memory: the partial
\* copies of RequestFlush miss no block, for every size of the memory.
THEOREM BufferIsSram == Spec => []BufferMirrorsSram
  <1>1. Init => Reloading /\ BufferMirrorsSram
    BY DEF Init, Reloading, BufferMirrorsSram, Threads
  <1>2. QED BY <1>1, MirrorSteps, Invariance, PTL DEF Spec
=============================================================================

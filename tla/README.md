# Melon Mix in TLA+

Melon Mix is a Nintendo DS and DSi emulator: melonDS with plugins that improve single games
(films in place of the game's cutscenes, HUDs, music). This directory keeps formal models of
the parts where two threads, two processors or a user and a timer meet, the TLC configurations
that check them on small instances, and proofs for TLAPS. Paths below are relative to the
repository's `src/`, where the sources of the program are, unless they name a module.

`PROJECT.json` relates every definition to the lines it models, and lists the runs, the
variants of the code that each property is known to reject, the hazards, the theorems and the
disagreements that were found.

## The system

| part | state | operations | meets |
|---|---|---|---|
| emulation thread (`EmuThread.cpp`) | status, message queue, semaphore, pause stack | run, pause, reset, load, import, frame step, lend the GL context | windows, other instances, plugins |
| console (`NDS.cpp`) | event list, the CPUs' timestamps, sleep flags | RunFrame, RunSystem, ScheduleEvent | every device |
| CPUs (`ARM*.cpp`, `CP15.cpp`, `ARMJIT*`) | registers, caches, interrupt lines | Execute, IRQ | console, IPC |
| IPC and interrupts (`NDS.cpp`, `FIFO.h`) | two FIFOs, control registers, IME, IE, IF | register reads and writes of either CPU | the two CPUs |
| line timing, 2D graphics (`GPU*.cpp`) | VCOUNT, line state, VRAM map | StartScanline, StartHBlank, FinishFrame | event list, 3D renderer, DMA |
| 3D graphics (`GPU3D*.cpp`) | command FIFO and stall queue; polygon lists; render thread | commands; RenderFrame, GetLine | DMA, frontend settings, savestates |
| timers, divider, DMA, SPI, RTC, SPU | registers, pending events | register writes, event handlers | event list |
| cartridges (`NDSCart.cpp`, `GBACart.cpp`) | transfer state, save memory | commands, save writes | save manager |
| save manager (`SaveManager.cpp`) | two buffers, versions, path, timer | RequestFlush, CheckFlush, SetPath, saver thread, destructor | emulation thread, file system |
| local multiplayer (`LocalMP.cpp`) | two rings, offsets, 32 semaphores, connected mask | Begin, End, SendPacket/Cmd/Reply/Ack, RecvPacket/HostPacket/Replies | instances, `Wifi.cpp` |
| LAN session (`LAN.cpp`) | places, player list, peers, who plays | StartHost, StartClient, EndSession, events of ENet, Begin, End | ENet, other machines |
| network (`net/`) | packet queues | packets | libslirp, libpcap |
| plugins (`plugins/`) | per game: scene, cutscene queue, music, HUD | refresh once a frame, keys | emulation thread, windows |
| windows (`frontend/qt_sdl`) | dialogs, video player, settings | slots, menus | emulation thread, plugins |
| savestates, cheats, firmware, DSi devices | serial formats and device registers | load, save, registers | console |

The calls go one way, from a window or a hotkey through messages to the emulation thread and
from there into the console; what comes back are signals to the windows' event loops, files,
and frames. Beside the emulation thread run the saver threads, the render thread, the audio
callback, the window's thread, and the emulation threads of further instances.

What is hard is where these meet:

* data handed to a thread that may not have finished with what it was handed before
  (save buffers, polygon lists, replies of other consoles);
* semaphores that count, reset by one side while the other posts or takes;
* a state read by one thread between two writes of another (cutscene flags, status);
* an event list whose links are re-created by handlers, through sleep, stop and reset;
* interrupts that must come whichever of two CPUs acts first;
* calls that wait for an answer by counting tokens, from a thread that may be the answerer.

For each of the parts modelled, what makes it correct:

* save manager: nothing counts as written that is not; closing loses nothing it was handed;
* frame loop: a frame asked for ends; no event is lost, or late by an instruction when a slice begins;
* IPC: words arrive once and in order or an error is set; no interrupt is missed;
* render thread: lines are shown when drawn; nobody draws while a state is saved; nobody waits
  for ever;
* local multiplayer: each frame is read once by each who is connected, whole and in order, and
  a host is given answers to the command it has just sent;
* thread control: a call is carried out before it returns; who borrows the GL context has it
  alone; a paused console can be resumed;
* cutscenes: one film for each cutscene, played to its end or until the user skips it; then the
  game goes on and nothing of the film is left;
* timers, divider, square root: whenever a program looks, they show what units that worked every
  cycle, on the present operands, would show;
* geometry commands, DMA and card: everything written is executed, everything transferred
  arrives, once and in order, however the ARM9, the channels and the engine hold each other up;
* music: the players play the song the game plays, and nothing else;
* LAN: a place, its peer and its client's number belong together; all agree on who is there and who
  plays; no place is kept for who has gone.

## Modules

| module | models | runs |
|---|---|---|
| `SaveManager` | `SaveManager.cpp`, with the calls of `EmuInstance.cpp` and `EmuThread.cpp` | `save` |
| `SaveManagerProofs` | theorems about it | |
| `Scheduler`, `MCScheduler` | `NDS.cpp`: RunFrame, RunSystem, sleep; `GPU.cpp`: line timing | `sched` |
| `SchedulerProofs` | theorems about it and about `Units` | |
| `Ipc`, over `Fifo` | `NDS.cpp`: IPC registers, interrupt control; `FIFO.h` | `ipc` |
| `QueueProofs` | lemmas about `Fifo`, theorems about `Ipc` and `BgmReplacement` | |
| `Channel` | what a FIFO promises the two programs | refined by `Ipc` |
| `RenderThread` | `GPU3D_Soft.cpp`: the hand-over between threads; `Platform.cpp`: semaphores | `render` |
| `RenderThreadProofs` | theorems about it | |
| `LocalMP`, `MCLocalMP` | `net/LocalMP.cpp` | `localmp` |
| `Broadcast` | what the rings promise | refined by `LocalMP` |
| `LocalMPProofs` | theorems about `LocalMP` | |
| `EmuControl`, `MCEmuControl` | `EmuThread.cpp`: messages; `EmuInstance.cpp`, `Window.cpp`, `main.cpp`: who sends them | `emucontrol` |
| `EmuControlProofs` | theorems about it | |
| `Cutscene`, `MCCutscene` | `plugins/Plugin.cpp`: cutscenes; `MainWindowSettings.cpp`: the player; `EmuThread.cpp`: callbacks | `cutscene` |
| `Dma`, `GeometryFifo`, `CartTransfer`, composed by `Bus`, `MCBus` | `DMA.cpp`; `GPU3D.cpp`: the command queues; `NDSCart.cpp`: the transfer; `NDS.cpp`: who runs in a slice | `bus`, `bus_stall` |
| `BusProofs` | lemmas about `GeometryFifo`, theorems about `Bus` | |
| `BgmReplacement`, `MCBgm` | `plugins/Plugin.cpp`: music; `EmuThread.cpp`: its signals; `MainWindowSettings.cpp`, `AudioPlayer.cpp`: the players | `bgm` |
| `Lan`, `MCLan` | `net/LAN.cpp`: the session | `lan` |
| `LanProofs` | theorems about it | |
| `Powers`; `Timers`, `MathUnits`, composed by `Units`, `MCUnits` | `NDS.cpp`: timers; divider and square root | `units` |

A definition named `..._Something`, or introduced as a defect or a defective variant, is not
part of a model: it is the form of the definition after it that a slip in the code would have,
and `PROJECT.json` ("mutants") says which property rejects it.

### SaveManager

Save memory is a sequence of `Size` blocks, and a block is the number of the write that made it,
so that contents can be told apart. The emulation thread's operations (`GameWrite` with
RequestFlush, `CheckFlushLock`/`Copy`, `SetPathBegin`/`End`/`Reload`, savestates, resets,
`Destroy`/`Join`) interleave with the saver's (`Wake`, `Tick`, and `Flush...`, one action
each for the test, the lock, the open, the write and the publication). The lock
`SecondaryBufferLock` is a variable. `SetPath` assigns a `std::string` without a lock: while it
does, an open by the saver leads to the old file, the new one or neither. A redirection before the
first game write hands over a buffer that was never allocated (`Null`), which FlushSecondaryBuffer
does not write.

* `BufferMirrorsSram`: the partial copies of RequestFlush add up, wrapping writes included.
* `WrittenWhenClean`: NeedsFlush is false only when the file last opened holds SecondaryBuffer.
* `ClosedIsFlushed`: after the destructor with no request left, it holds Buffer.
* `EventuallyClean`: the saver gets to every version that has a buffer, if opening succeeds again
  and again.
* `SkippedIsWritten` (refuted by `SaveManager_openfail.cfg`): a flush that is skipped has been written; not after an open that
  failed.

### Scheduler

All times are relative to SysTimestamp. A slice is: a target from the earliest event
(`NextTarget`), steps of the ARM9 of 1 to `MaxInstr` cycles, the ARM7 catching up, then
`RunSystem` over its copy of the event mask, in the order of the enumeration, with the
handlers' rescheduling. Sleep, wakeup by an interrupt or by the user, stop and reset come at
any point the code lets them. What the console is used for (event sources, sleep, stop) is the
variable `use`, fixed in the initial state.

* `ChainsGoOn`: the line timing's chain of events is not lost (`LcdPending`), and no event is
  requested while it is pending, which ScheduleEvent would drop (`NothingDropped`).
* `Punctual`: no event is late by an instruction when a slice begins (`NoEventOverslept`), nor the
  divider when RunSystem comes to it (`DivPunctual`); the CPUs are level to within an instruction
  (`CpusTogether`).
* `Returns`: a frame ends (`FrameReturns`), also one spent asleep (`SleepReturns`).

A frame ends when VCOUNT (`vcount`) gets to the last line, as in StartHBlank, and either CPU may
write VCOUNT, up to `MaxWrites` times a frame: frames are longer or shorter than `Lines`, and
`lines` has no bound of its own. `FrameReturns` is of finitely many writes.

The constants keep the proportions that matter (HBlank < line, slice < HBlank, an instruction
shorter than a slice) at a hundredth of the sizes.

### Ipc, Fifo, Channel

One action per register access of either CPU, with everything it triggers: the other's status,
interrupt requests, and the cached line of `ARM::IRQ`. `Fifo` is the template of `FIFO.h` with
its positions and its wrap-around. `Channel` is a sequence with a capacity; `ImplementsChannel`
maps the entries between the positions to it. `RecvSignalled` and `SendDoneSignalled` say that
whatever the order of writing a word, enabling the interrupt, reading and acknowledging, a CPU
that asked to be told is told (`Signalled` is both); `LineFollows` that the cached line never is stale.

### RenderThread

The three semaphores and two flags of `SoftRenderer`, the loop of the render thread, and for the
emulation thread the frame's lines, VCOUNT writes, mid-frame wakeups, savestates, resets and
toggles of the threaded setting. A drawn line is a member of a set. `Semaphore_Reset` takes
what `available()` returned a moment ago, in two steps.

A state that is loaded brings other polygons and textures (`textures` is "stale" until
RenderFrame copies them from VRAM), and the thread is started before RenderFrame has looked at
them: the first frame after a load is drawn with the textures from before, or not drawn at all.

* `LineRendered`: a line that is displayed was drawn and finished, from the present polygons, where
  frames are not cut short, and once RenderFrame has run after a load.
* `NoneNeeded` (refuted by `RenderThread_load.cfg`): all lines are announced at once only when they show the
  present polygons. After a load FrameIdentical is that of the frame before.
* `TypeOK`, with the types, has `NotWhileSaving`: a savestate meets no thread that draws, unless a
  VCOUNT write or a wakeup has cut a frame short (`Whole`), see `RenderThread_saving.cfg` below.
* `Returns`: neither thread waits for ever.

### LocalMP, Broadcast

The rings have cells; a message is a head and payload cells, so that a reader who meets a
payload where a head should be is seen. An action is what runs under the mutex; the posts that
follow an unlock are actions of their own. `Broadcast` keeps for each instance the messages it
has yet to read; `ImplementsBroadcast` maps the ring from its offset and the tokens to it. It
holds while nobody was overtaken (`torn`): the code has no check that the ring has room.
`Matched`: a token is posted for each unread message and no other (`PostedForUnread`), and
answers to the host are answers to its last command (`RepliesFresh`).

### EmuControl

Several emulation threads, each with its queue, token count and pause depth, and callers: menus
(the window's thread) and hotkeys (the emulation threads themselves). A call is a sequence of
steps: send, wait for a token, wait for all. Instances are numbers below `MaxInsts`; a pause is
passed on to the others in this order, and not to one that has left (`Everyone`).

* `Accounted`: when a call returns its message has been handled (`Served`), and a console that is
  paused has a pause somebody can take back (`PausedIsCounted`), and a lent context is not in use
  by the thread (`GLFree`).
* `Returns`: calls return.

### Cutscene

The emulation thread goes through a loop: keys, the rest of the key handling, the test of
emuStatus, refreshCutscene (four actions, cut where other threads can see or change what it
uses), and the frame, in which the game may begin or end a cutscene. Signals reach the window's
slots in two hops. The window's thread handles them in order and calls back into the plugin,
again cut at every shared access. Frame counters count down from small numbers.

* `InStep`, the film, the game and the window agree: when it is over no film plays or waits, and
  neither its page nor its menu is up (`GameAlone`); a halted console has a film, or a skip, that
  will let it go on (`HaltedForFilm`); unchecked indices into the queue are in range, and what is
  blacklisted is what failed (`FailureHasCutscene`, `CutsceneInQueue`); Start opens the menu
  (`MenuOpens`).
* `PlayedOnceInFull`: one film for a cutscene (`OncePerCutscene`), ended by itself or by the user
  (`NeverCutShort`).
* `Returns`: the game goes on.

### Dma, GeometryFifo, CartTransfer, Bus

A slice of RunFrame in its phases: the ARM9, or the DMA channels in its place, or neither while
the geometry engine stalls the system; then the engine; then the events of the card and of the
line timing. How much of a phase fits into a slice is left open (`late`). Commands are numbered as
they are written, so that loss and order show; `KindOf` tells apart what the queues tell apart: a
push or pop of a matrix and a swap of buffers. A store instruction writes up to `StoreMax`
commands, a word of a channel up to `WordMax`. A channel moves one unit an action, and leaves
Run9's loop with what is left of its batch when it is stalled or late. The card's words carry
their position.

* `TypeOK` has, with the types, the order of the three queues: the pipe runs ahead of the FIFO, the
  FIFO ahead of the stall queue, and the system is stalled while the last is not empty.
* `Delivered`: the commands the queues take are executed once and in order, also when some are
  refused in between (`InSequence`); one is refused only if it is part of a store that the ARM9
  executed after the one that stalled the system, which is taken whole, like each word of a channel
  (`LossNeedsOverrun`); the card's words go once and in order and the transfer's interrupt comes
  once, after the last (`CardInOrder`).
* `LevelSeen`: GXSTAT says busy while commands wait and shows the matrix bit while one of them
  is a push or pop, and the FIFO's interrupt is pending whenever its condition holds
  (`StatTruthful`); a channel that feeds the engine is running whenever the FIFO has room for it,
  although only the engine's reads and the ends of batches look (`FedWhenLow`).
* `Proceeds`: a stall ends, a channel that has started finishes, a transfer with the card ends.
* `bus_stall` refutes `NothingLost` of an ARM9 that runs on after the store that stalled it, which
  it does: GXFIFOStall halts it only if CurCPU is 1, and CurCPU is 0 while the ARM9 runs.

The programs modelled wait for the card's bit 31, use geometry DMA with the repeat bit, do not
rewrite a channel in mid-transfer, and a card channel moves a word at a time and is enabled before
the transfer, as the games' library does. After the store that stalls the system the ARM9 executes
up to `Overrun` more before its slice ends: one in `bus` and in `bus_stall`. The engine is powered
(GeometryEnabled).

### BgmReplacement

The game's sequencer and stream go through their states as a game would have them; once a frame
Plugin.cpp compares them with the frame before (`RefreshMidi`, `RefreshStream`), then the emulation
thread relays what was decided, in the code's order (`Signal`). Slots named async put the call
into the queue a second time, and a song that waits for its place in a film is a timer. Players
are numbered as they are made; they fade, end and are taken away by an event.

* `Heard`: when everything decided is carried out, the players play the game's song, from its own
  file, and no other (`SongHeard`), and it is paused when the game is (`PausedTogether`).
* `Settles`: what was decided is heard, and a player that has stopped is taken away.

A pause is relayed before the next is pressed. The game plays one song at a time (no `overlap`),
does not drop a song it has loaded (no `cancel`), and states are not loaded while a song is
beginning nor from or to a stream; `PausedTogether` excepts songs that change during a pause
(`crossed`). What may happen is the variable `course`: in the run a film, or pauses, or savestates, or
another game. The code does not keep its promise in the other cases; see below.

### Lan

One host and clients. A connection has a state at each end and a queue of commands each way; ENet
delivers them reliably and in order, and tells an end some time later that the other is gone. The
host's actions are the cases of ProcessHostEvent, with the player list they broadcast; the
clients' are StartClient in its steps, the cases of ProcessClientEvent, EndSession, Begin and End.
EndSession destroys the ENet host without flushing it, so a client leaves without a word, and may
come back while the host still has it in its list. What may happen is the variable `use`: players
come back (`back`), the network fails (`lose`), games are played (`play`), the host leaves (`over`).

* `PlacesRight`: NumPlayers counts the players; a place, RemotePeers, the peer's data and the
  client's own number belong together, through leaving, refusal and coming back.
* `Agreed`: when all is said and heard, all have the host's list, it holds who is there, and
  ConnectedBitmask is of who plays (`SameList`); a host that plays is not taken for one that has
  gone, which is what RecvHostPacket concludes from the mask (`GoneWhenGone`).
* `Settles`: whoever was promised a place becomes a player or leaves it; the peer of a broken
  connection is forgotten.

ENet is not in the repository. A peer it uses again keeps its data, which nothing in `LAN.cpp`
clears either. So a client can be refused on a peer that was a player's, and when that connection
closes the player who has the place now is taken off the list (`Lan_peers.cfg`, where
`Places`, which is `PlacesRight` without that exception, is violated). The variable
`mistaken`, which is not in the code, records that step; `PlacesRight` and `Agreed` hold until it is
taken. The
sessions of the run `lan` are too short for it. `Lan_full.cfg`, of a session of two, goes through that
step with `PlacesRight`, `Agreed` and `Settles`, and passes (77,387 states). A client that hears of another tries to connect to it, but a client's ENet host
takes no connections, and the attempt ends with a peer without data, which the code ignores;
this, and two instances on one machine, where the attempt would reach the host, are left out.

### Powers, Timers, MathUnits, Units

`Timers` keeps a bank of timers as the code does, caught up now and then by however many cycles
have passed, and beside it a bank that ticks every cycle. `MathUnits` has the two units' registers
and the events that deliver results; numbers have two words of `Word` bits, signed or not as in
the code, and stored results wrap. `Root` is the code's loop, bit by bit. They share no state, and
`Units` puts them into one specification (`UnitsSpec`) of which a behaviour uses one. `Powers` has the
powers of two that shifts are made of.

* `TimersExact`: when the lazy bank is caught up it shows what the other shows, and has raised the
  interrupts the other has, across chains, several overflows and changes of the prescaler.
* `ResultsExact`: a unit that is not busy has the results of its present operands (`DivExact`,
  `SqrtExact`).

A program writes a reload value to a timer that has caught up or stands still (one that is behind
would use it for the overflows not yet counted). Wide roots are of operands below a quarter of the
range, 2^62 in the code: above it the last round's product does not fit its word and the root can
be one too large. The quotient of the smallest 32-bit number by -1 leaves the remainder of the
division before (`Overflows`).

## Runs and bounds

Every property of a passing run is rejected by TLC when one definition is replaced by a
plausible slip, so no bound is too small for its property to fail.

| run | bounds | why they are enough |
|---|---|---|
| `save` | 1 slot and the home file, 2 blocks, 2 writes, 2 flushes before a redirection | a write that wraps needs two blocks; an overtaken flush needs two versions |
| `sched` | 3 lines, 2 displayed; slices of at most 3 cycles; 2 writes to VCOUNT a frame (`MaxWrites`); three uses | first, middle, blank and last line; an instruction can overshoot every target; lines are repeated, left out, and counted beyond the last |
| `ipc` | FIFOs of 2 words, 2 words' values, two groups of registers | full, empty and wrapped; order and loss show with two values |
| `render` | 2 displayed lines of 5; two sets of options, without and with VCOUNT writes and wakeups | a line is the first or the last, before and after the start of rendering |
| `localmp` | 3 instances, rings of 5 cells, messages of 1 or 2 cells, budgets of sends and stays | messages end at, and are split by, the end of the ring; a third sees what two exchange |
| `emucontrol` | 2 instances, with a free number between them; 3 menu calls, 2 hotkeys | the token left over by one call is taken by the next, and one more can notice |
| `cutscene` | 3 cutscenes (2 of them from files, one of these unskippable, one a twin), 2 played in a run | what the first leaves behind meets the second |
| `bus`, `bus_stall` | pipe of 4, FIFO and stall queue of 3, a stream of 11 commands; 2 channels with transfers of 1 or 3 units in batches of 2; 1 store beyond the stall (`Overrun`); 5 sets of uses | the stream fills all queues and more; a transfer is cut between and inside batches; a store is as long as the stall queue, as in the code |
| `bgm` | 4 songs, one streamed, one delayed, one without a file; 2 begun in a run, at most 1 event queued when the emulation thread goes on | a song and the one after it, with what the first leaves behind; two signals of a frame in the queue |
| `lan` | 2 clients, a session of 3, 3 connections; three sets of uses | a client is refused because its own old connection holds the last place; a place is taken again with another before and behind it |
| `units` | 3 timers of 2 counts of 2 parts, turns of 4 cycles; words of 4 bits, all roots, divisions of 4 values a word | a chain of two links overflows twice in a turn; zero, one, the smallest number and -1 in each mode |

`CHECK_DEADLOCK FALSE` is set where calls, sends or options run out and the system may stop:
`localmp` (Spec has no idle step), `emucontrol` (exited), `lan` (connections run out).

## Fairness and assumptions

* Threads keep running: weak fairness of each thread's steps taken together. Strong fairness
  only for what another thread can disable for a while: a mutex, a token (a semaphore wakes
  waiters as they come), a line's end that the game postpones by waking up, `Flush` of the saver.
* `Bus` assumes that RunFrame's loop goes on, and that what a phase of it is offered again and again
  it does in the end (strong fairness of the end of the ARM9's turn, of the engine, of events):
  the clock runs on in every slice. A program that started a transfer comes for its words.
* `Lan` assumes that both sides handle what arrives once a frame, as Process does, that ENet finds
  out an end that is gone, and that StartClient, which has a timeout, returns. Nobody has to join,
  leave or play.
* `BgmReplacement` assumes that both threads go on and that fades and the timer end.
* `Cutscene` assumes of the world that a film that is played again and again ends, that the game
  ends its cutscene, that a user who opens the menu again and again at last chooses Skip, and
  that one whose film the hotkey paused presses Start. None of these is needed for safety.
* The constant `Prompt` of `RenderThread`, `LocalMP`, `EmuControl`, `Cutscene` and
  `BgmReplacement` says that a
  thread is not overtaken between two neighbouring instructions, where the code has no lock and
  the time is microseconds against frames. The passing runs assume it, and it is where they
  would fail without: with `Prompt = FALSE` `Returns` fails in the first, third and fourth,
  `PostedForUnread` in `LocalMP`, `Heard` in `BgmReplacement`. The hazards of `PROJECT.json` say by which
  interleaving.

## Proofs

`SaveManagerProofs` proves, for every set of slots, size of the memory and behaviour of the file
system, under `SaveAssumption` alone (the special values differ from paths and contents):

* `TypeCorrect`: `TypeOK` is invariant;
* `NoVersionLost`: so is `WrittenWhenClean`;
* `CloseFlushes`: so is `ClosedIsFlushed`.

None is inductive. `IInv` adds where each thread can be and that the lock is held exactly in the
critical sections (`Places`, `Holder`: two flushes would otherwise publish each other's version);
that the destructor flushes only when the saver has returned (`OneFlusher`); that a flush past
its tests has a newer version (`Busy`) and, about to publish, has written SecondaryBuffer, which
nobody can have changed under the lock (`Written`); that Path is torn exactly inside its
assignment (`Redirecting`); and that SecondaryBuffer is a copy of Buffer when no request is
outstanding (`InStep`), which is what makes the destructor's flush the last contents. There is
one lemma per action, `NextIInv` combines them, `Invariance` is the temporal step.

`QueueProofs` holds the proofs about two unrelated components, `Ipc` and `BgmReplacement` (at the end
of this section). It first states what the operations of `Fifo` do to the sequence of its entries, for every
capacity: `WriteSound` that a write appends and overwrites nothing still to be read, `ReadSound`
that a read takes the oldest, `ClearSound` that a cleared FIFO is empty. They need `Consistent`:
the write position is the read position advanced by the count, which `AtInjective` turns into
"no two entries share a place". It then proves of `Ipc`, with both CPUs sending and using all
registers, from `FifoAssumption` and `IpcAssumption`:

* `IpcTypeCorrect` and `LinesFollow`: `TypeOK` and `LineFollows` are invariant;
* `ReceiversTold` and `SendersTold`: `RecvSignalled` and `SendDoneSignalled`, together `Told`: `Signalled`;
* `Channels`: `Spec => ImplementsChannel`, by one lemma per register: a step is one of `Channel`'s
  or leaves both queues as they are.

The inductive invariant is `TypeOK`, `LineFollows` and `Consistent` of both FIFOs.
`SetIRQFollows` carries the interrupt line through every action that raises an interrupt.

`SchedulerProofs` proves of `Scheduler`, for all lengths that satisfy `SchedulerAssumption`:

* `TypesHold` and `Punctuality`: `TypeOK` and `Punctual` are invariant, if no instruction is longer
  than the periods of sound and RTC (`Short`; they are 704 or 1024, and 1022 cycles in the code). A longer one
  could leave such an event overdue when a sleep begins, which would then end before it began;
* `ChainsHold`: so is `ChainsGoOn`, if in addition the chunks of a line fit in it with three
  instructions to spare (`ChunksFit`; in the code 32 + 32 * 48 of 2130 cycles are taken) and the console
  that sleeps does not use the display FIFO (`FifoAwake`, as the run assumes: see below).
  `LineTiming` says of `LcdPending` that it needs `Short` alone.

The invariant follows the slice. `Late`: nothing is overdue by an instruction, except an SPI transfer
the ARM7 started in mid-slice until RunSystem has visited it; that is so because the ARM9's
target is no later than any pending event and an instruction runs past it by less than
`MaxInstr` (`Stops`, `Clocks`), and because RunSystem visits what was pending when the slice
ended (`Scanning`). `Ahead`: what ends a sleep is in the future. `LcdHere`: the LCD event is
pending in a frame, and outside only in one that a sleep interrupted, so that StartFrame never finds it
there. `ArgsRight`: a handler gets an argument it can have, so FinishFrame is called with the last line.
For `NothingDropped`, `FifoGap`: the chunks that are left, with their delays and the instruction
each can be late by, are through before the next line. When a line's last chunk were still pending
at its end it would have been overdue by an instruction, against `Late` (`NoChunkLeft`). `HandledIs`
says what every handler does to the list, `EarliestIs` and `FirstIn` what the two searches find.

It also proves of `Units`, for all widths, timers and prescalers, from `TimersAssumption` and
`MathAssumption` alone:

* `UnitsTypesHold` and `ResultsHold`: `UnitsTypeOK` and `ResultsExact` are invariant;
* `TimersHold`: `TimersExact` is an action property.

These are inductions over numbers. `Numbers` makes one possible for a set of numbers, from the
well-foundedness of <; `Recursion` says that a sequence given by its first member and a step exists,
`TwoToIs` and `Draining` that the recursive functions of the models have the values their equations give.
The divider needs that a quotient of numbers of two words fits again, but for the one `Overflows`
names (`DivMod`, `Quotient`, `QuotientFits`). For the root, `RoundRoot` says what is known before each of
the loop's rounds: the root so far is that of the operand's upper bits, and the remainder what is left of them.

A bank that catches up by n cycles goes timer by timer, the other cycle by cycle. `TimersInv` says that
the banks between, of which the k-th has caught up with the cycles before the k-th, agree (`Together`). They do
because a timer and those chained to it do not touch the others (`Segment`, `SegmentRuns`): what
a timer that counts does in n cycles is what it does in one and then in n - 1, interrupts and
the timers it carries into included (`DrainOn`, `CaughtUpIs`). `OffTick` is the case of a reload value
that is written to a timer standing still.

`RenderThreadProofs` proves, for every number of lines and all uses, loads among them, when no thread is overtaken
between neighbouring instructions (`Prompt`, without which they are false): `TypesHold`, with
`NotWhileSaving`, and `LinesRendered`, that `LineRendered` is an action property. The invariant
accounts for the tokens of the three semaphores by the position of both threads: a frame has one
RenderStart or one RenderDone or is being drawn (`OneRound`); what ScanlineCount holds and what has been
taken of it is what was announced (`Tokens`); setting up and stopping leave none (`Settling`,
`Stopping`); and the picture that is due holds the lines drawn (`Picture`). It is stated of whole
frames; of the others only the types and who runs are invariant.

`BusProofs` first says what the operations of `GeometryFifo` do to the three queues read one after the
other: the order of commands and its gaplessness, levels, and the registers that follow them, for all
capacities. It then proves of `Bus`, from the named assumptions (a stall queue that is not empty
when full, at least one transfer length):

* `TypesHold` and `LevelIsSeen`: `TypeOK` and `LevelSeen` are invariant, of every program;
* `DeliveryHolds`: `Delivered` is an action property, if at most one channel serves the card (`OneCart`),
  whatever the ARM9 stores after a stall. Of its parts `CommandsArrive` needs no hypothesis, `WordsArrive`
  needs this one, and `LossesNeedOverrun` that a store and a word of a channel
  are no longer than the stall queue (`BusAssumption`; in the code at most 64 commands and 4, against 64).

`BaseInv` holds without a hypothesis: the shape of the queues, GXSTAT, the registers, where each
channel is in Run9 (`ChannelsInv`), and that a channel that feeds the engine is started whenever there
is room (`Fed`, in mid-slice too). `QueueInv` adds that what waits, with what has been executed, is
all that was taken (`InOrder`). `Room` says that the stall queue has room for the rest of a store
or word that was begun before the system stalled (`RefusalNeedsOverrun`). `CardInv` follows a transfer through its stages: a word
due, a word ready, its end; a channel in mid-transfer knows of a ready word.

`BufferIsSram` of `SaveManagerProofs`: `BufferMirrorsSram` is invariant. `CopiedIsDirty` shows that the
two parts RequestFlush copies are the blocks a write changes, wherever it begins and however it
wraps, from `Wraps`, the modulus of a sum; `Reloading`, that only a state loaded with its own save file
leaves Buffer and the memory apart, is the invariant it needs.

`EmuControlProofs` proves of `EmuControl`, for any number of instances and calls, from
`EmuControlAssumption`:

* `TypesHold`: `TypeOK` is invariant;
* `CallsServed` and `PausesCounted`: so are `Served` and `PausedIsCounted`;
* `AccountedHolds`: so is `Accounted`, with `GLFree`, if contexts are lent only where nobody uses hotkeys
  or steps frames (`LendsAlone`; `EmuControl_lending.cfg` is a behaviour in which `GLFree` fails without).

`Served` alone says nothing about the middle of a call. `Calls` does, when only menus are used: the
steps left are in an order a call can have (`Regular`), and the first of them says what the instance
called is like. It owes as many tokens as will be waited for, some posted and some of messages still
queued (`Owes`); it leaves and will not come back (`Leaves`); its context is lent (`Lent`); every
other one is quiet: nothing queued, no token left over. A pause that is passed on makes a call as
long as there are instances, so the order is a fact about `FlattenSeq` of any length
(`FlattenClosed`, `EveryonePasses`). The library's induction theorems take an operator, which the provers
cannot instantiate; `Induction`, over subsets of Nat, follows from `Least`, the well-foundedness of <. For pauses,
`Resumable` adds to `PausedIsCounted` what the last unpause returns to: a status that is not "Paused".

`LanProofs` proves of `Lan`, for any number of clients, places, connections and commands under way,
with any options, from `LanAssumption` alone:

* `TypesHold`, `PlacesHold` and `AgreementHolds`: `TypeOK`, `PlacesRight` and `Agreed` are invariant.
  The last two say nothing after a refused connection has taken a player off the list (`mistaken`).

What holds until that step is stated as `mistaken \/ ...`, and every lemma about a step is of one that
begins and ends before it. The types hold beyond it, by an invariant of their own: `TInv` says of
places, peers and connections only what the mistake leaves alone.

`PlacesRight` speaks of open connections; `Wire` says of all what the host's end is worth: one that is
being made or refused has no place, so that its end takes nobody's, and the commands on an open
one are about its place, so that no client is refused for its number. `Apart`, that connections which
are not closed use different peers, is why a place given or cleared is nobody else's; it needs that there is a free peer
(`FreePeerIs`, a pigeonhole). `FreeIdIs` is the heart of ProcessHostEvent's search: were the place it
ends at taken, all before it would be too, against the count. Most steps give and take no place,
and need only show that what they do to one connection and one client is harmless (`TameTo`,
`Keeps`, `TameStep`). For `Agreed`, which speaks of the moments when all is said and heard, `AInv` says of
all others what will be known once the commands under way have arrived: the last list a client has
been sent, or will be sent at the latest by an answer still due, is the host's.

`LocalMPProofs` proves of `LocalMP`, for any number of instances, rings and frames of any size, from
`LocalMPAssumption`, under the hypothesis `Alone`: posts are prompt (else one that comes after its
reader's reset is a token for a frame the reader has skipped), and one instance starts games (the
code has one MPHostinst for all, and notes that it "is not guarded against, say, multiple multiplay
games happening on the same machine", `net/LocalMP.cpp:181`):

* `TokensMatch`: `Matched` is invariant;
* `RingsBroadcast`: `Spec => ImplementsBroadcast`, and `TypesHold`: `TypeOK` is invariant, if budgets are
  bounded too (`Thrifty`: the heads of frames carry numbers, which are counted up to the largest budget).

The invariant is `Kept`. A reader's `Queue` is a chain of frames from its offset to the place that is
written next, each a head and as many payload cells as it says, where the next begins. `PacketsQueued`
and `RepliesQueued`: while nobody is overtaken the chain has as many frames as the reader has tokens
and posts due to it (`Waiting`, `Awaited`). `QueueWrite` and `QueueRead` say what an operation of the ring
does to the chain: a write that overtakes nobody appends a frame and leaves the cells of the others
alone (`Apart`), a read takes the first. The distances of a chain's frames are a function that exists,
not a recursion; that the recursive function of `Unread` has the values they give is an
induction, by way of `Least`. Every action has one of a few effects on a queue (`Still`,
`PacketTaken`, `PacketPut`, `Joined`, `ReplyTaken`, `ReplyPut`, `ReplyReset`), and each effect is a step of
`Broadcast` on the sequence the chain stands for (`StepImplements`). The chain bounds tokens too, for frames do
not overlap and are fewer than cells (`ChainFits`). `RepliesFresh` needs `Honest`: a reply to the last
command that is still queued is of one who gave it.

Of `BgmReplacement`, `QueueProofs` proves, for any songs, any number of them and any length of the queue,
from `BgmAssumption` and the hypothesis `Ordinary`:

* `MusicTypesHold` and `HeardHolds`: `MusicTypeOK` and `Heard` are invariant.

`Ordinary` is of the courses of events: pauses, savestates and new games in any mixture, or a film, alone
and before a prompt window; a song belongs to the sequencer or to a stream, and only the sequencer's wait for a
film. The others are not left out for the proof's sake: with `cancel`, `overlap`, or a film and any of the
other three together, TLC finds `Heard` violated. `Heard` speaks of moments of rest. `MusicInv` says of all
others what will be heard once the queue has been carried out. An event signalled is queued a second time by its slot, so the
order of the queue is not that of its effects: `Sooner` is, and `LastIs`, `FirstIs` and `Missing` are stated with
it (`SignalledLast`, `Reposted`, `Taken`: what a signal, a slot and a handler do to them). `Decided`: a song will
play (`WillPlay`) exactly if the plugin takes it for the current one and has begun it, and what it has
decided and not relayed yet makes up the difference. `Knows` and `Follows` tie the plugin to the game it saw a
frame ago; `Film` says that a waiting song is stopped before any other; `Suspension` and `Presses` do for pauses what
`Decided` does for songs. `Counted`, a player or an order for each song begun at the most, bounds the
players for the types. What the window does without the emulation thread needs only to leave
`WillPlay` as it was (`WindowStep`).

Only model-checked: all properties of `Cutscene`, and all liveness, which is out of the prover's reach.
The safety of `Cutscene` is within it, and not attempted yet: `InStep` relates the console's memory, the
plugin's flags, the window's queue and the player at every step of two threads.

## Disagreements found

One is a run TLC refutes and a "finding" in `PROJECT.json`:

* `bus_stall`: the store that fills the geometry FIFO does not end the ARM9's turn, and the stall
  queue, sized for one instruction, drops commands of the next.

Nine more are configurations kept beside the runs. Each is a passing run with one assumption
taken away, or with a property the code does not have, and `tlc -config X.cfg M` finds that
violated in seconds:

| configuration | module | refutes | how |
|---|---|---|---|
| `SaveManager_openfail.cfg` | `SaveManager` | `SkippedIsWritten` | a save whose file cannot be opened is dropped and counts as saved |
| `Scheduler_wake.cfg` | `MCScheduler` | `EveryFrameReturns` | sleep entered in the slice that ends a frame, or left in the slice it was entered in, makes the next RunFrame wait for an LCD event that is not pending |
| `RenderThread_load.cfg` | `RenderThread` | `NoneNeeded` | a load starts the render thread with the FrameIdentical of the frame before (RenderFrameIdentical alone is reset, `GPU3D.cpp:558`); if that one needed no drawing, the loaded polygons are announced as drawn and a frame shows the old picture, against "If no rendering is needed, just say we're done" (`GPU3D_Soft.cpp:1787`) |
| `RenderThread_stuck.cfg` | `RenderThread` | `Returns` | setting up the render thread twice in a row can wait for a token that is gone |
| `RenderThread_saving.cfg` | `RenderThread` | `NotWhileSaving` | after a frame that a VCOUNT write cut short, RenderDone keeps a token nobody took; SetupRenderThread takes it for the end of the frame being drawn, and a state is saved while the render thread draws, against "Protect the GPU state from the main thread" (`GPU3D_Soft.cpp:1780`) |
| `EmuControl_lending.cfg` | `MCEmuControl` | `GLFree` | after a stepped frame, a window can take the GL context while it is used |
| `Cutscene_menu.cfg` | `MCCutscene` | `StartOpensMenu` | Start pressed again during a skip disables the Skip/Continue menu |
| `Lan_peers.cfg` | `MCLan` | `Places` | a client is refused on a peer ENet used before for a player; when the refused connection closes, the player who has that place now is taken off the list |
| `Lan_late.cfg` | `MCLan` | `GoneWhenGone` | who joins when the host has begun is never told so, and takes the host for gone after its first command |

Met while modelling, and kept as conditions of the properties: two cutscenes in a row lose the
second film or halt the console (`~use.chain`); a film of the unskippable cutscene that ends
early or is paused by the hotkey never lets go (`Returns`); frame steps and hotkeys leave
tokens over (`Served`, `PausedIsCounted`); lines shown after a VCOUNT write may be undrawn
(`LineRendered`); a game that writes VCOUNT back in every line never ends a frame (`FrameReturns`);
after a redirection before the first game write NeedsFlush stays true, for there is no buffer to
write (`EventuallyClean`); a slow reader of the multiplayer ring is overtaken (`torn`); a sleep can make
the display FIFO's event be requested twice (`NothingDropped`).

Of the music: `_PendingReplacmentBgmMusicStart` survives the end of the song it was set for, so
that a song which is loaded and dropped, or stops before it plays, is begun under the next one's
state; a load of the state before the last (undoStateLoad) and a reset do not call
onLoadState; stopAllBgm leaves the timer of a delayed song running; a state loaded during a film makes the
plugin stop a song and delay the next in one frame, and the stop, queued twice, then cancels the timer set
before it; a pause is undone by a flag that a song's change clears.

Met and not covered by a model, at their lines: `RecvHostPacket` reads LastHostID, one for all
instances, and the connected mask without the lock (`net/LocalMP.cpp:290`); sendPacket reads
instanceMask before it takes the mutex, so a packet can go to a queue that is gone
(`net/PacketDispatcher.cpp:88`); a card transfer that is aborted and started anew finds the old
one's event pending (`NDSCart.cpp`); the status a message sets during Exit is replaced
(`EmuThread.cpp:707`); 16-bit writes of ROMCTRL by the ARM7 use other masks than the ARM9's
(`NDS.cpp:4187` and `3399`).

## Not modelled

Instruction semantics, pixel, polygon and sample arithmetic, the JIT's code, shaders: pure
functions of large data. Serial formats, file formats, dialogs, network libraries and vendored
code. The whole list with reasons is under "components" in `PROJECT.json`. In the modelled parts:
DSi's second interrupt registers; `LastHostID` of LocalMP; the sub-frame timing of the JIT; the
choice of messages in EmuControl that only load or eject; in Cutscene the key presses fed to the
game, the menu's selection and sounds, and games other than Days.

## Plan

Done, in this order: save manager with proofs, frame loop, IPC with proofs, render thread, local
multiplayer, thread control, cutscenes, the bus of the ARM9 (geometry queues, DMA, card), music,
timers and the arithmetic units, the LAN session.

Proved: all safety properties and both refinements, of everything but `Cutscene`. Theorems worth proving
next: `TypeOK`, `CutsceneInQueue` and `MenuOpens` of `Cutscene`, then the rest of `InStep`. None of the
modules declares a RECURSIVE operator, so all are open to it.

Next modules, most important first:

1. `WifiExchange` (`Wifi.cpp` over `LocalMP` through `Broadcast`): a multiplayer round with
   timeouts.
2. `AudioRing` (`SPU.cpp`, `EmuInstanceAudio.cpp`): the output ring, the callback, audioSync.
3. `PacketDispatcher` and the frames of `LAN.cpp` (`net/`); save chips (`NDSCart.cpp`); the JIT's block cache.

Composition: `EmuControl` with `Cutscene` (both set emuStatus) and with `RenderThread` (settings
change renderers while a frame is drawn).

---------------------------- MODULE BgmReplacement ----------------------------
(***************************************************************************)
(* The replacement of a game's music with audio files.  The emulation      *)
(* thread compares, once a frame, what the game's sequencer and its stream *)
(* are doing with what it saw in the frame before (plugins/Plugin.cpp),    *)
(* and relays its decisions as signals (EmuThread.cpp).  The window's      *)
(* thread carries them out on its audio players, a turn of its event queue *)
(* later (MainWindowSettings.cpp, AudioPlayer.cpp).  Volumes, positions to *)
(* resume at and the muting of the game's own music are left out.          *)
(***************************************************************************)
EXTENDS Naturals, Sequences, FiniteSets, SequencesExt

CONSTANTS Sequenced, Streamed,  \* the songs of the game, by how it plays them
          Replaced,    \* those with a file
          Delayed,     \* those that wait for their place in the film being played
          MaxSongs,    \* bound: songs that are begun, and states and games loaded
          MaxEvents,   \* bound: queued events at which the emulation thread waits
          Courses,        \* what may happen, see Options
          Prompt,      \* whether the window keeps up, see Relay and TimerFires
          None         \* BGM_INVALID_ID

Songs == Sequenced \cup Streamed

\* A film plays; the user pauses, loads a savestate or another game; the game drops
\* a song it has loaded, or plays a stream and a sequence at once.
Options == {"film", "pause", "load", "game", "cancel", "overlap"}

ASSUME BgmAssumption ==
    /\ Replaced \subseteq Songs /\ Delayed \subseteq Songs /\ None \notin Songs
    /\ MaxSongs \in Nat /\ MaxEvents \in Nat
    /\ Courses \subseteq SUBSET Options /\ Prompt \in BOOLEAN
    /\ None \notin [id : Songs, file : Songs]

VARIABLES
    course,
    midi, stream,  \* the game's sequencer and stream: state and song
    begun,         \* songs begun, and states and games loaded
    plugin,        \* see PluginType
    pc,            \* where the emulation thread is in its loop
    status,        \* emuStatus
    request,       \* a pause or unpause message in its queue
    events,        \* the window's event queue
    timer,         \* delayedBgmStart
    players,       \* bgmPlayers, each at a number of its own
    crossed        \* history: the song changed while a pause was in force or under way

world  == <<midi, stream, begun>>
thread == <<pc, status, request>>
window == <<timer, players>>
musicVars   == <<course, world, plugin, thread, events, window, crossed>>

MidiStates == {"stopped", "load", "preplay", "playing", "stopping"}
StreamStates == {"stopped", "playing", "ended"}

PluginType ==
    [seen : MidiStates,           \* _SoundtrackState
     seenStream : StreamStates,   \* _BgmStreamState
     current : Songs \cup {None}, \* _CurrentBackgroundMusic
     file : Songs \cup {None},    \* _CurrentBackgroundMusicFilepath
     isStream : BOOLEAN,          \* _CurrentBgmIsStream
     pending : BOOLEAN,           \* _PendingReplacmentBgmMusicStart
     start : {"no", "now", "later"},      \* _ShouldStart..., with its delay
     stop : Songs \cup {None},    \* _ShouldStop..., _BackgroundMusicToStop
     fade : BOOLEAN,              \* _BgmFadeOutDurationMs # 0, of a stop
     pause : BOOLEAN, unpause : BOOLEAN,  \* _ShouldPause..., _ShouldUnpause...
     paused : BOOLEAN]            \* _PausedReplacementBgmMusic

NewPlugin ==
    [seen |-> "stopped", seenStream |-> "stopped", current |-> None, file |-> None,
     isStream |-> FALSE, pending |-> FALSE, start |-> "no", stop |-> None, fade |-> FALSE,
     pause |-> FALSE, unpause |-> FALSE, paused |-> FALSE]

Silence == [state |-> "stopped", song |-> None]

Player == [id : Songs \cup {None}, file : Songs, playing : BOOLEAN,
           suspended : BOOLEAN, fading : BOOLEAN, done : BOOLEAN]

EventType ==
    [kind : {"asyncStart", "asyncStop", "start", "stop"},
     id : Songs \cup {None}, file : Songs \cup {None}, flag : BOOLEAN]
    \cup [kind : {"async", "now"}, do : {"pause", "unpause", "stopAll"}]
    \cup [kind : {"cleanup"}, key : Nat]

MusicInit ==
    /\ course \in Courses
    /\ midi = Silence /\ stream = Silence /\ begun = 0
    /\ plugin = NewPlugin
    /\ pc = "refresh" /\ status = "running" /\ request = "none"
    /\ events = <<>> /\ timer = None /\ players = <<>>
    /\ crossed = FALSE

-----------------------------------------------------------------------------
(* The plugin's decisions. *)

StopMusic(p, fade) ==
    IF p.current = None
    THEN p
    ELSE [p EXCEPT !.stop = p.current, !.fade = fade, !.current = None]

StartMusic(p, song) ==
    LET q == StopMusic(p, TRUE)
    IN  IF song = p.current
        THEN p
        ELSE IF song \in Replaced
             THEN [q EXCEPT !.pending = TRUE, !.file = song, !.current = song,
                            !.isStream = FALSE]
             ELSE q

\* delayBeforeStartReplacementBackgroundMusic.
When(song) == IF song \in Delayed /\ "film" \in course THEN "later" ELSE "now"

\* A song that is loaded and ready is started when the sequencer gets to it.
StartPending(p, song) ==
    IF p.pending
    THEN [p EXCEPT !.start = When(song), !.pending = FALSE]
    ELSE p

\* refreshBackgroundMusic: what the sequencer's new state means.
RefreshMidi(p) ==
    LET q == [p EXCEPT !.seen = midi.state]
    IN  IF midi.state = p.seen
        THEN p
        ELSE CASE midi.state = "stopped" -> IF p.isStream THEN q ELSE StopMusic(q, FALSE)
               [] midi.state = "load" -> q
               [] midi.state = "preplay" -> StartMusic(q, midi.song)
               [] midi.state = "playing" -> StartPending(StartMusic(q, midi.song), midi.song)
               [] midi.state = "stopping" -> StopMusic(q, TRUE)

StopStream(p, fade) ==
    IF p.isStream /\ p.current # None
    THEN [StopMusic(p, fade) EXCEPT !.isStream = FALSE]
    ELSE p

\* refreshStreamedMusic.
RefreshStream(p) ==
    LET q == [p EXCEPT !.seenStream = stream.state]
        song == stream.song
    IN  IF stream.state = p.seenStream
        THEN p
        ELSE CASE stream.state = "stopped" -> StopStream(q, FALSE)
               [] stream.state = "ended" -> StopStream(q, TRUE)
               [] stream.state = "playing" ->
                     IF song \notin Replaced
                     THEN [q EXCEPT !.current = None]
                     ELSE IF p.isStream /\ p.current = song
                     THEN q
                     ELSE [StopStream(q, FALSE) EXCEPT
                               !.start = When(song), !.file = song, !.current = song,
                               !.isStream = TRUE]

-----------------------------------------------------------------------------
(* The emulation thread's loop.  A paused one refreshes nothing. *)

Crosses == crossed' = (crossed \/ (plugin'.current # plugin.current
                                   /\ (status = "paused" \/ request # "none")))

\* refreshPluginGameScene.
Refresh ==
    /\ pc = "refresh"
    /\ plugin' = RefreshStream(RefreshMidi(plugin))
    /\ pc' = "frame"
    /\ Crosses
    /\ UNCHANGED <<course, world, status, request, events, window>>

\* What a frame of the game may do to its music.
MidiSteps(m) ==
    CASE m.state = "stopped" -> {[state |-> "load", song |-> s] : s \in Sequenced}
      [] m.state = "load" -> {[m EXCEPT !.state = "preplay"]}
      [] m.state = "preplay" -> {[m EXCEPT !.state = "playing"]}
                                \cup (IF "cancel" \in course THEN {Silence} ELSE {})
      [] m.state = "playing" -> {Silence, [state |-> "stopping", song |-> None]}
      [] m.state = "stopping" -> {Silence}
StreamSteps(s) ==
    CASE s.state = "stopped" -> {[state |-> "playing", song |-> x] : x \in Streamed}
      [] s.state = "playing" -> {Silence, [s EXCEPT !.state = "ended"]}
      [] s.state = "ended" -> {Silence}

\* The game plays one song at a time.
OneAtATime(m, s) == "overlap" \notin course /\ s.state = "playing" => m.state \in {"stopped", "stopping"}

\* RunFrame.
Frame ==
    /\ pc = "frame"
    /\ midi' \in {midi} \cup MidiSteps(midi)
    /\ stream' \in {stream} \cup StreamSteps(stream)
    /\ OneAtATime(midi', stream')
    /\ begun' = begun + Cardinality({s \in {<<midi, midi'>>, <<stream, stream'>>} :
                                        s[1] = Silence /\ s[2] # Silence})
    /\ begun' <= MaxSongs
    /\ pc' = "relay"
    /\ UNCHANGED <<course, plugin, status, request, events, window, crossed>>

Signal(set, event) == IF set THEN <<event>> ELSE <<>>

\* A defective variant: the order to start a song is not taken back once given.
RelayAgain ==
    /\ pc = "relay" /\ Len(events) <= MaxEvents
    /\ Prompt /\ plugin.start = "later" => events = <<>>
    /\ events' = events
           \o Signal(plugin.stop # None, [kind |-> "asyncStop", id |-> plugin.stop,
                                   file |-> None, flag |-> plugin.fade])
           \o Signal(plugin.start # "no", [kind |-> "asyncStart", id |-> plugin.current,
                                    file |-> plugin.file, flag |-> plugin.start = "later"])
           \o Signal(plugin.pause, [kind |-> "async", do |-> "pause"])
           \o Signal(plugin.unpause, [kind |-> "async", do |-> "unpause"])
    /\ plugin' = [plugin EXCEPT !.stop = None, !.fade = FALSE,
                                !.pause = FALSE, !.unpause = FALSE,
                                !.paused = (@ \/ plugin.pause) /\ ~plugin.unpause]
    /\ pc' = "messages"
    /\ UNCHANGED <<course, world, status, request, window, crossed>>

\* refreshPluginState: the flags become signals, a stop before a start, and are
\* cleared.  Prompt: the window has seen to what was signalled in earlier frames
\* when a delayed song is announced.
Relay ==
    /\ pc = "relay" /\ Len(events) <= MaxEvents
    /\ Prompt /\ plugin.start = "later" => events = <<>>
    /\ events' = events
           \o Signal(plugin.stop # None, [kind |-> "asyncStop", id |-> plugin.stop,
                                   file |-> None, flag |-> plugin.fade])
           \o Signal(plugin.start # "no", [kind |-> "asyncStart", id |-> plugin.current,
                                    file |-> plugin.file, flag |-> plugin.start = "later"])
           \o Signal(plugin.pause, [kind |-> "async", do |-> "pause"])
           \o Signal(plugin.unpause, [kind |-> "async", do |-> "unpause"])
    /\ plugin' = [plugin EXCEPT !.start = "no", !.stop = None, !.fade = FALSE,
                                !.pause = FALSE, !.unpause = FALSE,
                                !.paused = (@ \/ plugin.pause) /\ ~plugin.unpause]
    /\ pc' = "messages"
    /\ UNCHANGED <<course, world, status, request, window, crossed>>

\* The user pauses or resumes (emuTogglePause, togglePause), by a hotkey or from
\* the menu, when the last time he did has been relayed.
Press ==
    /\ "pause" \in course /\ request = "none" /\ ~plugin.pause /\ ~plugin.unpause
    /\ plugin' = [plugin EXCEPT !.pause = plugin.current # None /\ ~plugin.paused,
                                !.unpause = plugin.current # None /\ plugin.paused]
    /\ request' = IF status = "paused" THEN "unpause" ELSE "pause"
    /\ UNCHANGED <<course, world, pc, status, events, window, crossed>>

NextTurn(s) == IF s = "paused" THEN "relay" ELSE "refresh"

\* handleMessages.
Messages ==
    /\ pc = "messages"
    /\ status' = CASE request = "pause" -> "paused" [] request = "unpause" -> "running"
                   [] OTHER -> status
    /\ request' = "none"
    /\ pc' = NextTurn(status')
    /\ UNCHANGED <<course, world, plugin, events, window, crossed>>

\* A savestate is loaded (onLoadState), in between songs or from one to another;
\* not into or out of a stream, and not while a loaded song waits to be played.
LoadState ==
    /\ pc = "messages" /\ "load" \in course
    /\ begun < MaxSongs /\ begun' = begun + 1
    /\ stream.state = "stopped" /\ ~plugin.pending
    /\ midi' \in {Silence} \cup [state : {"preplay", "playing"}, song : Sequenced]
    /\ plugin' = [StopMusic(plugin, FALSE) EXCEPT !.seen = "stopped"]
    /\ pc' = NextTurn(status)
    /\ Crosses
    /\ UNCHANGED <<course, stream, status, request, events, window>>

\* Another game is started, with a plugin of its own; the players of the last one
\* are told to stop.
LoadGame ==
    /\ pc = "messages" /\ "game" \in course /\ request = "none"
    /\ Len(events) <= MaxEvents
    /\ begun < MaxSongs /\ begun' = begun + 1
    /\ midi' = Silence /\ stream' = Silence
    /\ plugin' = NewPlugin
    /\ events' = Append(events, [kind |-> "async", do |-> "stopAll"])
    /\ status' = "running" /\ pc' = "refresh" /\ crossed' = FALSE
    /\ UNCHANGED <<course, request, window>>

-----------------------------------------------------------------------------
(* The window's thread. *)

Ids(ps) == {ps[k].id : k \in {k \in DOMAIN ps : ps[k].playing}}
FreeKey == CHOOSE k \in 1 .. Cardinality(DOMAIN players) + 1 :
               /\ k \notin DOMAIN players
               /\ \A j \in 1 .. k - 1 : j \in DOMAIN players

\* AudioPlayer::stop, at once or with a fade.
Stopped(p, fade) == [p EXCEPT !.playing = FALSE, !.fading = fade, !.done = ~fade]

\* startBgmMusic: a song that is playing is not started again.
Start(e) ==
    /\ players' = IF e.id \in Ids(players)
                  THEN players
                  ELSE [k \in DOMAIN players \cup {FreeKey} |->
                            IF k = FreeKey
                            THEN [id |-> e.id, file |-> e.file, playing |-> TRUE,
                                  suspended |-> FALSE, fading |-> FALSE, done |-> FALSE]
                            ELSE players[k]]
    /\ events' = Tail(events)
    /\ UNCHANGED timer

Cleanups(keys) == SetToSeq({[kind |-> "cleanup", key |-> k] : k \in keys})

\* A defective variant: a song that waits for its place in the film is not stopped.
StopPlaying(e) ==
    LET these == {k \in DOMAIN players : players[k].playing /\ players[k].id = e.id}
    IN  /\ players' = [k \in DOMAIN players |-> IF k \in these THEN Stopped(players[k], e.flag)
                                                ELSE players[k]]
        /\ events' = Tail(events) \o (IF e.flag THEN <<>> ELSE Cleanups(these))
        /\ UNCHANGED timer

\* stopBgmMusic: whatever waits to be started is not.
Stop(e) ==
    LET these == {k \in DOMAIN players : players[k].playing /\ players[k].id = e.id}
    IN  /\ timer' = None
        /\ players' = [k \in DOMAIN players |-> IF k \in these THEN Stopped(players[k], e.flag)
                                                ELSE players[k]]
        /\ events' = Tail(events) \o (IF e.flag THEN <<>> ELSE Cleanups(these))

\* stopAllBgm.
StopAll ==
    LET these == {k \in DOMAIN players : ~players[k].done}
    IN  /\ players' = [k \in DOMAIN players |-> IF k \in these THEN Stopped(players[k], FALSE)
                                                ELSE players[k]]
        /\ events' = Tail(events) \o Cleanups(these)
        /\ UNCHANGED timer

\* pauseBgmMusic, unpauseBgmMusic.
Suspend(yes) ==
    /\ players' = [k \in DOMAIN players |-> [players[k] EXCEPT !.suspended = yes]]
    /\ events' = Tail(events)
    /\ UNCHANGED timer

\* onBgmFadeOutCompleted.
Cleanup(key) ==
    /\ players' = [k \in DOMAIN players \ {key} |-> players[k]]
    /\ events' = Tail(events)
    /\ UNCHANGED timer

Post(event) == events' = Append(Tail(events), event) /\ UNCHANGED <<timer, players>>

\* The slots named async... post the call they stand for, so that it waits its turn
\* a second time; a delayed song sets a timer at once.
AsyncStart(e) ==
    IF e.flag
    THEN timer' = [id |-> e.id, file |-> e.file] /\ events' = Tail(events) /\ UNCHANGED players
    ELSE Post([e EXCEPT !.kind = "start"])

Handle ==
    /\ events # <<>>
    /\ LET e == Head(events)
       IN  \/ e.kind = "asyncStart" /\ AsyncStart(e)
           \/ e.kind = "asyncStop" /\ Post([e EXCEPT !.kind = "stop"])
           \/ e.kind = "async" /\ Post([e EXCEPT !.kind = "now"])
           \/ e.kind = "start" /\ Start(e)
           \/ e.kind = "stop" /\ Stop(e)
           \/ e.kind = "now" /\ e.do = "stopAll" /\ StopAll
           \/ e.kind = "now" /\ e.do # "stopAll" /\ Suspend(e.do = "pause")
           \/ e.kind = "cleanup" /\ Cleanup(e.key)
    /\ UNCHANGED <<course, world, plugin, thread, crossed>>

\* The film has come to the song's place.  Prompt: not in the instant in which the
\* song's end is on its way through the queue.
TimerFires ==
    /\ timer # None
    /\ Prompt => events = <<>>
    /\ events' = Append(events, [kind |-> "start", id |-> timer.id, file |-> timer.file,
                                 flag |-> FALSE])
    /\ timer' = None
    /\ UNCHANGED <<course, world, plugin, thread, players, crossed>>

\* A defective variant: a player that has faded is forgotten.
FadeEndsUnseen ==
    /\ \E k \in DOMAIN players :
           /\ players[k].fading /\ ~players[k].done
           /\ players' = [players EXCEPT ![k].fading = FALSE, ![k].done = TRUE]
    /\ UNCHANGED <<course, world, plugin, thread, events, timer, crossed>>

\* A fade has ended (AudioPlayer::onFadeOutCompleted).
FadeEnds ==
    /\ \E k \in DOMAIN players :
           /\ players[k].fading /\ ~players[k].done
           /\ players' = [players EXCEPT ![k].fading = FALSE, ![k].done = TRUE]
           /\ events' = Append(events, [kind |-> "cleanup", key |-> k])
    /\ UNCHANGED <<course, world, plugin, thread, timer, crossed>>

Loop == Refresh \/ Frame \/ Relay \/ Messages
MusicNext == Loop \/ Press \/ LoadState \/ LoadGame \/ Handle \/ TimerFires \/ FadeEnds

\* Both threads go on, and timers run out.
MusicSpec == /\ MusicInit /\ [][MusicNext]_musicVars
        /\ WF_musicVars(Loop) /\ WF_musicVars(Handle) /\ WF_musicVars(TimerFires) /\ WF_musicVars(FadeEnds)

-----------------------------------------------------------------------------
\* The types; there is no more than a player for every song that has begun, and of
\* two players with the same song at most one plays.
MusicTypeOK ==
    /\ course \in Courses
    /\ midi \in [state : MidiStates, song : Songs \cup {None}]
    /\ begun \in 0 .. MaxSongs
    /\ stream \in [state : StreamStates, song : Songs \cup {None}]
    /\ plugin \in PluginType
    /\ pc \in {"frame", "refresh", "relay", "messages"}
    /\ status \in {"running", "paused"} /\ request \in {"none", "pause", "unpause"}
    /\ events \in Seq(EventType)
    /\ timer \in [id : Songs, file : Songs] \cup {None}
    /\ \E keys \in SUBSET (1 .. MaxSongs) : players \in [keys -> Player]
    /\ crossed \in BOOLEAN
    /\ \A j, k \in DOMAIN players :
           j # k /\ players[j].playing /\ players[k].playing => players[j].id # players[k].id

\* What the plugin has decided has been carried out.
AtRest == /\ plugin.start = "no" /\ plugin.stop = None /\ ~plugin.pause /\ ~plugin.unpause
          /\ events = <<>> /\ timer = None

\* The song with a file that the game plays now, as far as the plugin can know.
Now == IF midi.state = "playing" /\ midi.song \in Replaced THEN {midi.song}
       ELSE IF stream.state = "playing" /\ stream.song \in Replaced THEN {stream.song}
       ELSE {}

\* When nothing is under way any more, the players play the song the game plays and
\* no other, from its file, whatever songs began and ended, faded, waited for the
\* film or were loaded with a savestate on the way there.
SongHeard ==
    AtRest /\ plugin.seen = midi.state /\ plugin.seenStream = stream.state =>
        /\ Ids(players) = Now
        /\ \A k \in DOMAIN players : players[k].playing => players[k].file = players[k].id

\* Then, too, the music is paused when the game is, and only then, unless the song
\* changed while the game was paused or on its way there: the plugin takes the next
\* pause for the end of this one then.
PausedTogether ==
    AtRest /\ request = "none" /\ ~crossed =>
        \A k \in DOMAIN players :
            players[k].playing => (players[k].suspended <=> status = "paused")

\* Once everything decided has been carried out one hears what the game would play.
Heard == SongHeard /\ PausedTogether

\* A song that has been decided on is heard, unless it is given up first, and a
\* player that has stopped is taken away.
Settles ==
    /\ \A s \in Replaced : plugin.current = s /\ ~plugin.pending
                               ~> s \in Ids(players) \/ plugin.current # s \/ plugin.pending
    /\ \A k \in 1 .. MaxSongs : k \in DOMAIN players /\ ~players[k].playing
                                      ~> k \notin DOMAIN players \/ players[k].playing
=============================================================================

------------------------------- MODULE Cutscene -------------------------------
(* The replacement of a game's cutscenes with films: the plugin's state machine *)
(* (plugins/Plugin.cpp), which the emulation thread runs once a frame, and the  *)
(* video player of the user interface thread (MainWindowSettings.cpp), which    *)
(* answers it by events and by calls of its own into the same plugin.           *)
(* The game's own decisions are those of PluginKingdomHeartsDays.               *)
EXTENDS Naturals, Sequences, FiniteSets, SequencesExt

CONSTANTS Scenes,        \* cutscenes that have a replacement film
          Mobi,          \* those the game plays from a file; the others are acted by its engine
          Twins,         \* the pairs that have the same film
          Unskippable,   \* those with no way to skip them once a save is loaded
          Post,          \* postVideoFrameCount of each
          PlayLimit,     \* _PlayFrameLimitCount at the start of a film
          ReplayLimit,   \* _ReplayFrameLimitCount after one
          MaxScenes,     \* bound: cutscenes the game plays
          MaxEvents,     \* bound: queued events at which the user takes his fingers off the keys
          Uses,          \* what may happen, see UseType
          Prompt,        \* whether a thread's few instructions beat the other's, see Steady
          None

UseType == [saved : BOOLEAN,    \* a save is loaded
            chain : BOOLEAN,    \* cutscenes may follow each other directly
            mash : BOOLEAN,     \* Start is pressed although a skip is under way
            hotkey : BOOLEAN,   \* the pause hotkey is pressed
            errors : BOOLEAN]   \* films may fail to play

ASSUME CutsceneAssumption ==
    /\ Mobi \subseteq Scenes /\ Unskippable \subseteq Mobi
    /\ Twins \subseteq Scenes \X Scenes
    /\ Post \in [Scenes -> Nat]
    /\ PlayLimit \in Nat /\ ReplayLimit \in Nat /\ MaxScenes \in Nat /\ MaxEvents \in Nat
    /\ Uses \subseteq UseType /\ Prompt \in BOOLEAN
    /\ None \notin Scenes

VARIABLES
    use,
    \* the plugin
    queue,         \* _CutscenesQueue
    index,         \* _CurrentCutsceneIndex + 1
    ds,            \* _IsMobiCutsceneRunning, _IsInEngineCutsceneRunning
    replacement,   \* _IsReplacementCutsceneRunning
    either,        \* _IsIngameOrReplacementCutsceneRunning
    skip,          \* _SkipDsCutscene
    failed,        \* _DidReplacementCutsceneFailedToPlay
    paused,        \* _ReplacementCutsceneIsPaused
    showing,       \* _ShowingCutsceneSkipMenu
    locked,        \* _IsUnskippableCutscene
    blacklist,     \* _CutscenesBlacklist
    last,          \* _LastCutscene
    play, replay, post,   \* its three frame counters
    \* the emulation thread
    pc, found, equal,
    status,        \* emuStatus
    \* the user interface thread
    events,        \* its event queue
    uipc,
    player, film,  \* the video player and its source
    view,          \* the page shown
    overlay,       \* whether the menu is visible on the film's page
    \* the game
    shown,         \* the cutscene it plays
    addr,          \* the address of the last one in its memory
    left,
    over,          \* history: films that ended, failed, or that the user skipped
    due            \* history: cutscenes the game began whose film was not started yet

menu     == <<paused, showing>>
counters == <<play, replay, post>>
course   == <<queue, index, ds, either, locked, last, counters>>
locals   == <<found, equal>>
screen   == <<player, film, view, overlay>>
game     == <<shown, addr, left>>
plugin   == <<course, replacement, skip, failed, menu, blacklist>>
vars     == <<use, plugin, pc, locals, status, events, uipc, screen, game, over, due>>

\* Type invariant.
TypeOK ==
    /\ use \in Uses
    /\ queue \in Seq(Scenes) /\ index \in Nat \ {0}
    /\ ds \in {"none", "mobi", "engine"}
    /\ {replacement, either, skip, failed, paused, showing, locked, equal, overlay} \subseteq BOOLEAN
    /\ blacklist \subseteq Scenes /\ {last, found, film, shown, addr} \subseteq Scenes \cup {None}
    /\ play \in 0 .. PlayLimit /\ replay \in 0 .. ReplayLimit /\ post \in Nat
    /\ pc \in {"input", "skip", "status", "refresh", "settle", "count", "halt", "detect", "run"}
    /\ status \in {"running", "paused"}
    /\ uipc \in {"idle", "ended", "skip", "leave", "resume", "failed"}
    /\ player \in {"stopped", "playing", "paused"} /\ view \in {"game", "film"}
    /\ left \in 0 .. MaxScenes /\ due \subseteq Scenes /\ over \subseteq Scenes \cup {None}

Init ==
    /\ use \in Uses
    /\ queue = <<>> /\ index = 1 /\ ds = "none"
    /\ replacement = FALSE /\ either = FALSE /\ skip = FALSE /\ failed = FALSE
    /\ paused = FALSE /\ showing = FALSE /\ locked = FALSE
    /\ blacklist = {} /\ last = None
    /\ play = 0 /\ replay = 0 /\ post = 0
    /\ pc = "input" /\ found = None /\ equal = FALSE /\ status = "running"
    /\ events = <<>> /\ uipc = "idle"
    /\ player = "stopped" /\ film = None /\ view = "game" /\ overlay = FALSE
    /\ shown = None /\ addr = None /\ left = MaxScenes
    /\ over = {} /\ due = {}

(* Signals of the emulation thread reach a slot of the window by the event      *)
(* queue, and the slot queues the call it stands for: two hops.                 *)

Signal(name, scene) == [name |-> name, scene |-> scene, hops |-> 2]
Emit(names) == events' = events \o [i \in DOMAIN names |-> Signal(names[i], None)]

Pending(name) == \E i \in DOMAIN events : events[i].name = name
AtRest == events = <<>> /\ uipc = "idle"

(* The game. *)

InMobi   == shown \in Mobi
InEngine == shown \in Scenes \ Mobi
Kind(c)  == IF c \in Mobi THEN "mobi" ELSE "engine"

DetectCutscene == IF InEngine THEN shown ELSE addr

DidMobiEnd   == ~InMobi \/ (use.saved /\ Len(queue) > 1)
DidEngineEnd == ~InEngine \/ shown # queue[index]
DidEnd == IF ds = "mobi" THEN DidMobiEnd ELSE DidEngineEnd

CanReturn == use.saved => shown = None \/ Len(queue) > 1 \/ locked

(* The emulation thread: keys. *)

\* The film has not come to its end behind the emulation thread's back.
Playing == uipc = "idle" /\ ~Pending("stopVideo") /\ ~failed

Fingers == pc = "input" /\ replacement /\ ~locked /\ Len(events) <= MaxEvents

NoKey ==
    /\ pc = "input" /\ pc' = "skip"
    /\ UNCHANGED <<use, due, plugin, locals, status, events, uipc, screen, game, over>>

\* Start, while the film plays.
OpenMenu ==
    /\ Fingers /\ ~showing /\ ~paused
    /\ use.mash \/ ~skip
    /\ Prompt => Playing
    /\ showing' = TRUE /\ paused' = TRUE
    /\ Emit(<<"pauseVideo", "showMenu">>)
    /\ pc' = "skip"
    /\ UNCHANGED <<use, due, course, replacement, skip, failed, blacklist, locals, status, uipc, screen, game, over>>

\* Start or A, on Continue.
ResumeVideo ==
    /\ Fingers /\ showing
    /\ showing' = FALSE /\ paused' = FALSE
    /\ Emit(<<"unpauseVideo", "hideMenu">>)
    /\ pc' = "skip"
    /\ UNCHANGED <<use, due, course, replacement, skip, failed, blacklist, locals, status, uipc, screen, game, over>>

\* A, on Skip.
ChooseSkip ==
    /\ Fingers /\ showing
    /\ showing' = FALSE /\ paused' = FALSE /\ skip' = TRUE
    /\ over' = over \cup {film}
    /\ pc' = "skip"
    /\ UNCHANGED <<use, due, course, replacement, failed, blacklist, locals, status, events, uipc, screen, game>>

\* The pause hotkey, which a running film keeps from the console (togglePause).
TogglePause ==
    /\ pc = "status" /\ use.hotkey /\ replacement /\ ~showing /\ AtRest
    /\ Prompt => Playing
    /\ Emit(IF paused THEN <<"unpauseVideo", "hideMenu">> ELSE <<"pauseVideo", "showMenu">>)
    /\ UNCHANGED <<use, due, plugin, pc, locals, status, uipc, screen, game, over>>

\* The rest of the key handling. While the game plays its cutscene, Start is
\* pressed for it.
FinishSkip ==
    /\ pc = "skip" /\ pc' = "status"
    /\ IF skip /\ ds = "none" /\ ~locked
       THEN /\ skip' = FALSE
            /\ IF replacement
               THEN /\ showing' = FALSE /\ replacement' = FALSE
                    /\ Emit(<<"stopVideo">>)
                    /\ status' = "running"
               ELSE UNCHANGED <<showing, replacement, events, status>>
       ELSE UNCHANGED <<skip, showing, replacement, events, status>>
    /\ UNCHANGED <<use, due, course, failed, paused, blacklist, locals, uipc, screen, game, over>>

EmulateOrNot ==
    /\ pc = "status"
    /\ pc' = IF status = "running" THEN "refresh" ELSE "input"
    /\ UNCHANGED <<use, due, plugin, locals, status, events, uipc, screen, game, over>>

(* refreshCutscene. *)

Started(c) ==
    /\ play' = PlayLimit /\ post' = Post[c] /\ ds' = Kind(c)
    /\ replacement' = TRUE /\ either' = TRUE
    /\ locked' = (use.saved /\ c \in Unskippable)
    /\ events' = Append(events, Signal("startVideo", c)) /\ due' = due \ {c}
    /\ status' = "running"

\* A film is over and so is the cutscene, or it failed.
ReturnToGame ==
    /\ either' = FALSE
    /\ IF failed THEN replacement' = FALSE /\ ds' = "none" ELSE UNCHANGED <<replacement, ds>>
    /\ status' = "running"
    /\ UNCHANGED <<play, post, locked, events, due>>

Refresh ==
    /\ pc = "refresh"
    /\ found' = DetectCutscene
    /\ equal' = (Len(queue) > index /\ <<queue[index], queue[index + 1]>> \in Twins)
    /\ IF failed \/ (~replacement /\ ds = "none" /\ either /\ CanReturn)
       THEN /\ last' = queue[index]
            /\ queue' = SubSeq(queue, index + 1, Len(queue))
            /\ index' = 1
            /\ IF ~failed /\ queue' # <<>> THEN Started(queue'[1]) ELSE ReturnToGame
            /\ pc' = "settle"
       ELSE /\ pc' = "count"
            /\ UNCHANGED <<queue, index, ds, replacement, either, locked, last, play, post, events, status, due>>
    /\ UNCHANGED <<use, replay, skip, failed, menu, blacklist, uipc, screen, game, over>>

\* Defect: the game's memory goes on naming the cutscene.
Settle_Detectable ==
    /\ pc = "settle"
    /\ replay' = ReplayLimit
    /\ failed' = FALSE
    /\ pc' = "count"
    /\ UNCHANGED <<use, due, queue, index, ds, either, locked, last, play, post, replacement, skip, menu,
                   blacklist, locals, status, events, uipc, screen, game, over>>

\* The same branch, after startReplacementCutscene returned.
Settle ==
    /\ pc = "settle"
    /\ replay' = ReplayLimit
    /\ addr' = IF ~failed /\ queue = <<>> THEN None ELSE addr
    /\ failed' = FALSE
    /\ pc' = "count"
    /\ UNCHANGED <<use, due, queue, index, ds, either, locked, last, play, post, replacement, skip, menu,
                   blacklist, locals, status, events, uipc, screen, shown, left, over>>

\* Defect: the counter passes zero.
Below_Zero(n) == n - 1
Below(n) == IF n > 0 THEN n - 1 ELSE 0

\* The cutscene detected is one to play; the game's own has come to its end.
Count ==
    /\ pc = "count"
    /\ found' = IF found \in blacklist \/ (replay > 0 /\ found = last) THEN None ELSE found
    /\ replay' = Below(replay)
    /\ LET over_ == play <= 1 /\ ds # "none" /\ DidEnd
           next  == queue[index + 1]
       IN  IF over_ /\ post <= 1
           THEN IF equal
                THEN /\ last' = queue[index] /\ index' = index + 1
                     /\ play' = PlayLimit /\ post' = Post[next] /\ ds' = Kind(next)
                     /\ addr' = IF ds = "mobi" THEN None ELSE addr
                     /\ pc' = "detect"
                ELSE /\ ds' = "none" /\ post' = 0 /\ play' = Below(play)
                     /\ pc' = "halt"
                     /\ UNCHANGED <<last, index, addr>>
           ELSE /\ post' = IF over_ THEN post - 1 ELSE post
                /\ play' = Below(play)
                /\ pc' = "detect"
                /\ UNCHANGED <<last, index, ds, addr>>
    /\ UNCHANGED <<use, due, queue, either, locked, replacement, skip, failed, menu, blacklist, equal,
                   status, events, uipc, screen, shown, left, over>>

\* pauseEmulatorAfterIngamePrerenderedCutsceneEndedBeforeReplacementCutscene
Halt ==
    /\ pc = "halt" /\ pc' = "detect"
    /\ status' = "paused"
    /\ UNCHANGED <<use, due, plugin, locals, events, uipc, screen, game, over>>

Detect ==
    /\ pc = "detect" /\ pc' = "run"
    /\ IF found = None \/ found \in ToSet(queue)
       THEN UNCHANGED <<queue, ds, replacement, either, locked, play, post, events, status, due>>
       ELSE /\ queue' = Append(queue, found)
            /\ IF queue = <<>>
               THEN Started(found)
               ELSE UNCHANGED <<ds, replacement, either, locked, play, post, events, status, due>>
    /\ UNCHANGED <<use, index, last, replay, skip, failed, menu, blacklist, locals, uipc, screen, game, over>>

(* The frame: the game plays on, begins a cutscene, or ends one. *)

PlayOn ==
    /\ pc = "run" /\ pc' = "input"
    /\ UNCHANGED <<use, due, plugin, locals, status, events, uipc, screen, game, over>>

Begin(c) ==
    /\ pc = "run" /\ left > 0
    /\ IF use.chain THEN shown # c ELSE shown = None /\ ~either /\ AtRest
    /\ shown' = c /\ left' = left - 1 /\ due' = due \cup {c}
    /\ addr' = IF c \in Mobi THEN c ELSE addr
    /\ pc' = "input"
    /\ UNCHANGED <<use, plugin, locals, status, events, uipc, screen, over>>

End ==
    /\ pc = "run" /\ shown # None
    /\ shown' = None
    /\ pc' = "input"
    /\ UNCHANGED <<use, due, plugin, locals, status, events, uipc, screen, addr, left, over>>

(* The user interface thread: its queue. *)

Handling(name) ==
    /\ uipc = "idle" /\ events # <<>>
    /\ Head(events).hops = 1 /\ Head(events).name = name
    /\ events' = Tail(events)

Relay ==
    /\ uipc = "idle" /\ events # <<>> /\ Head(events).hops = 2
    /\ events' = Append(Tail(events), [Head(events) EXCEPT !.hops = 1])
    /\ UNCHANGED <<use, due, plugin, pc, locals, status, uipc, screen, game, over>>

StartVideo ==
    /\ Handling("startVideo")
    /\ film' = Head(events).scene /\ over' = over \ {film'}
    /\ player' = "playing" /\ view' = "film"
    /\ UNCHANGED <<use, due, plugin, pc, locals, status, uipc, overlay, game>>

PauseVideo ==
    /\ Handling("pauseVideo")
    /\ player' = "paused"
    /\ UNCHANGED <<use, due, plugin, pc, locals, status, uipc, film, view, overlay, game, over>>

UnpauseVideo ==
    /\ Handling("unpauseVideo")
    /\ player' = "playing"
    /\ UNCHANGED <<use, due, plugin, pc, locals, status, uipc, film, view, overlay, game, over>>

ShowMenu ==
    /\ Handling("showMenu")
    /\ overlay' = TRUE
    /\ UNCHANGED <<use, due, plugin, pc, locals, status, uipc, player, film, view, game, over>>

HideMenu ==
    /\ Handling("hideMenu")
    /\ overlay' = FALSE
    /\ UNCHANGED <<use, due, plugin, pc, locals, status, uipc, player, film, view, game, over>>

ShowGame == player' = "stopped" /\ overlay' = FALSE /\ view' = "game"

StopVideo ==
    /\ Handling("stopVideo")
    /\ ShowGame
    /\ uipc' = "ended"
    /\ UNCHANGED <<use, due, plugin, pc, locals, status, film, game, over>>

(* The player. *)

EndOfMedia ==
    /\ uipc = "idle" /\ player = "playing"
    /\ Prompt => ~Pending("pauseVideo")
    /\ player' = "stopped" /\ over' = over \cup {film}
    /\ events' = Append(events, [Signal("stopVideo", None) EXCEPT !.hops = 1])
    /\ UNCHANGED <<use, due, plugin, pc, locals, status, uipc, film, view, overlay, game>>

\* cancelVideo
Error ==
    /\ use.errors /\ uipc = "idle" /\ player = "playing"
    /\ Prompt => ~Pending("pauseVideo")
    /\ ShowGame
    /\ over' = over \cup {film}
    /\ uipc' = "failed"
    /\ UNCHANGED <<use, due, plugin, pc, locals, status, events, film, game>>

(* Its calls into the plugin. *)

\* The emulation thread is not overtaken within refreshCutscene.
Steady == Prompt => pc \notin {"settle", "count", "halt"}

\* Defect: the only cutscene of the queue counts as one with another after it.
JudgeEnd_OffByOne ==
    /\ uipc = "ended" /\ Steady
    /\ uipc' = IF Len(queue) < 1 /\ ds # "none" THEN "skip" ELSE "leave"
    /\ UNCHANGED <<use, due, plugin, pc, locals, status, events, screen, game, over>>

\* skipIngamePrerenderedCutsceneAfterReplacementCutsceneFinishesNaturally
JudgeEnd ==
    /\ uipc = "ended" /\ Steady
    /\ uipc' = IF Len(queue) <= 1 /\ ds # "none" THEN "skip" ELSE "leave"
    /\ UNCHANGED <<use, due, plugin, pc, locals, status, events, screen, game, over>>

SkipGameCutscene ==
    /\ uipc = "skip"
    /\ skip' = TRUE
    /\ uipc' = "idle"
    /\ UNCHANGED <<use, due, course, replacement, failed, menu, blacklist, pc, locals, status, events, screen, game, over>>

LeaveVideo ==
    /\ uipc = "leave"
    /\ replacement' = FALSE
    /\ uipc' = "resume"
    /\ UNCHANGED <<use, due, course, skip, failed, menu, blacklist, pc, locals, status, events, screen, game, over>>

\* Defect: the emulator stays halted.
ResumeHiddenEmulator_Halted ==
    /\ uipc = "resume" /\ Steady
    /\ uipc' = "idle"
    /\ UNCHANGED <<use, due, plugin, pc, locals, status, events, screen, game, over>>

ResumeHiddenEmulator ==
    /\ uipc = "resume" /\ Steady
    /\ status' = "running"
    /\ uipc' = "idle"
    /\ UNCHANGED <<use, due, plugin, pc, locals, events, screen, game, over>>

\* resumeIngamePrerenderedCutsceneAfterReplacementCutsceneFailedToPlay
Blacklist ==
    /\ uipc = "failed" /\ queue # <<>> /\ Steady
    /\ blacklist' = blacklist \cup {queue[1]}
    /\ failed' = TRUE
    /\ uipc' = "resume"
    /\ UNCHANGED <<use, due, course, replacement, skip, menu, pc, locals, status, events, screen, game, over>>

(* The system. *)

Keys == OpenMenu \/ ResumeVideo \/ ChooseSkip \/ TogglePause

Emulation ==
    \/ NoKey \/ FinishSkip \/ EmulateOrNot
    \/ Refresh \/ Settle \/ Count \/ Halt \/ Detect
    \/ PlayOn \/ End \/ \E c \in Scenes : Begin(c)

Calls == JudgeEnd \/ SkipGameCutscene \/ LeaveVideo \/ ResumeHiddenEmulator \/ Blacklist

Interface ==
    \/ Relay \/ StartVideo \/ PauseVideo \/ UnpauseVideo \/ ShowMenu \/ HideMenu \/ StopVideo
    \/ Calls

Next == Keys \/ Emulation \/ Interface \/ EndOfMedia \/ Error

Spec == Init /\ [][Next]_vars

\* Both threads run on; a film that is played again and again comes to its end
\* and so does the game's cutscene; a user who opens the menu again and again at last
\* skips the film, and one whose film was paused by the hotkey presses Start.
FairSpec ==
    /\ Spec
    /\ WF_vars(Emulation) /\ WF_vars(Interface) /\ SF_vars(EndOfMedia)
    /\ SF_vars(End)
    /\ SF_vars(ChooseSkip)
    /\ SF_vars(player = "paused" /\ OpenMenu)

(* Properties. *)

\* When the cutscene is over for the plugin and the interface thread has caught
\* up, no film plays or waits behind the game, and neither its page nor its
\* menu covers it. Of games whose cutscenes do not follow each other directly.
GameAlone ==
    ~use.chain /\ ~either /\ AtRest => player = "stopped" /\ view = "game" /\ ~overlay

\* A console the plugin has halted waits for a film that still has an end to
\* come to, or for the skip that will end it (the same games).
HaltedForFilm ==
    ~use.chain /\ status = "paused" /\ AtRest /\ pc \in {"input", "status"}
        => replacement /\ (player # "stopped" \/ skip)

\* A film that fails is the one the plugin has at the head of its queue: that
\* cutscene and no other is blacklisted, and the queue it is read from is not
\* empty (the same games).
FailureHasCutscene == ~use.chain /\ uipc = "failed" => queue # <<>> /\ queue[1] = film

\* The plugin looks up the cutscene it is in, in every game: its queue has it.
CutsceneInQueue == (ds # "none" \/ either) /\ pc # "settle" => index <= Len(queue)

\* The film of a cutscene is started once for each time the game plays it, although
\* the game's memory still names the cutscene when both are over; and it ends because
\* it came to its end, failed, or the user chose to skip it, never for a cutscene
\* before it.  Of games whose cutscenes do not follow each other directly.
PlayedOnceInFull ==
    [][~use.chain =>
         /\ Len(events') > Len(events) /\ Last(events').name = "startVideo"
              => Last(events').scene \in due
         /\ player # "stopped" /\ player' = "stopped" => film \in over']_vars

\* While a film plays and nothing is being skipped, Start opens the menu: the
\* plugin never believes the film paused without its menu. Of users who leave
\* Start alone while a skip is under way.
MenuOpens == ~use.mash /\ paused => showing

\* The same of every user: pressing Start while a film plays opens the menu, for
\* the plugin does not take it to be paused already.  It fails, see Cutscene_menu.cfg.
StartOpensMenu == replacement /\ ~skip /\ paused => showing

\* The plugin, what the user sees, what the player does and what the console does fit
\* together.
InStep == GameAlone /\ HaltedForFilm /\ MenuOpens /\ FailureHasCutscene /\ CutsceneInQueue

\* The cutscene comes to its end and the game goes on, unless it cannot be
\* skipped and its film ended before the game's own or was paused by the hotkey.
Returns ==
    ~use.chain /\ either
        ~> (~either /\ status = "running") \/ (locked /\ (skip \/ player = "paused"))
==============================================================================

----------------------------- MODULE MusicActor -----------------------------
(***************************************************************************)
(* The local music player of services/music/service.rs: one actor task     *)
(* that owns the queue and the current track, fed by an unbounded mailbox  *)
(* (rx) and by the media bus (mediaEvents), and the world it drives: one   *)
(* operating-system process per started track, the tasks that wait for     *)
(* those processes, force-kill timers, cool-down timers and background     *)
(* searches.                                                               *)
(*                                                                         *)
(* The actor runs every handler to completion, so a handler without an     *)
(* await is one action.  A handler that awaits a search or a play URL      *)
(* leaves pc # "select": the world moves on, and the mailbox fills up,     *)
(* before the handler's next step.  Each iteration of the loop of          *)
(* start_next_with_retry is one step, from the pop to the answer: nothing  *)
(* outside the actor sees the queue.                                       *)
(***************************************************************************)
EXTENDS Integers, Sequences, Functions

CONSTANTS
  Songs,                  \* tracks, by MID
  NoSong,                 \* no track
  NoTrack,                \* the actor's current: None
  Requests,               \* the commands and dialogue events of this instance
  Outcomes,               \* what resolve_url and spawn may answer
  UnexpectedExitRetries,  \* player.unexpected_exit_retries
  MaxFailures,            \* player.max_consecutive_failures
  CooldownRetries,        \* play_url.primary_cooldown_retries
  SkipOnFailure,          \* queue.on_url_failure = "skip_to_next"
  SameArtist,             \* queue.after_single_song = "same_artist"
  ShuffleInit,            \* queue.default_order = "random"
  RepeatInit,             \* queue.repeat_mode
  RejectWhileAirPlay,     \* audio_policy.music_while_airplay = "reject"
  Heeded,                 \* the wake and AirPlay events whose policy is to pause or
                          \* resume: interruption.on_wake, .resume_on_dialog_finish,
                          \* audio_policy.on_airplay_start and .on_airplay_end
  MaxRequests,            \* bound: commands and wake events in a behaviour
  MaxAirPlay,             \* bound: AirPlay starts in a behaviour
  MaxGeneration,          \* bound: players started in a behaviour
  MaxBatch                \* bound: songs in one search result

Commands == {"Play", "List", "Pause", "Resume", "Next", "Previous", "Stop",
             "Shuffle", "RepeatOne", "RepeatAll"}
Events == {"WakeStarted", "DialogFinished"}
MediaEvents == {"AirPlayStarted", "AirPlayEnded"}
RepeatModes == {"off", "one", "all"}

ASSUME RequestsAssumption == Requests \subseteq Commands \cup Events
ASSUME OutcomesAssumption == Outcomes \subseteq {"playing", "cooldown", "failed"}
ASSUME ConfigAssumption ==
  /\ UnexpectedExitRetries \in Nat
  /\ MaxFailures \in Nat
  /\ CooldownRetries \in Nat
  /\ SkipOnFailure \in BOOLEAN
  /\ SameArtist \in BOOLEAN
  /\ ShuffleInit \in BOOLEAN
  /\ RepeatInit \in RepeatModes
  /\ RejectWhileAirPlay \in BOOLEAN
  /\ Heeded \subseteq Events \cup MediaEvents
ASSUME BoundsAssumption ==
  MaxRequests \in Nat /\ MaxAirPlay \in Nat /\ MaxGeneration \in Nat /\ MaxBatch \in Nat
ASSUME NoSongAssumption == NoSong \notin Songs

Sources == {"User", "Wake", "AirPlay"}
EndReasons == {"None", "Replace", "Next", "Previous", "Stop"}

Track == [song : Songs, generation : Nat, ending : EndReasons,
          pausedBy : SUBSET Sources, retries : Nat]

ASSUME NoTrackAssumption == NoTrack \notin Track

Paused(track) == track.pausedBy # {}

Message ==
  [type : {"Execute"}, command : Commands]
    \cup [type : Events]
    \cup [type : {"PlayerExited"}, generation : Nat, ok : BOOLEAN]
    \cup [type : {"ForceKill"}, generation : Nat]
    \cup [type : {"AppendQueue"}, epoch : Nat, songs : Seq(Songs)]
    \cup [type : {"RetryQueue"}, epoch : Nat]

Execute(c) == [type |-> "Execute", command |-> c]
Exited(g, ok) == [type |-> "PlayerExited", generation |-> g, ok |-> ok]

VARIABLES
  pc,              \* where the actor's task is: select, or an await
  rx,              \* the actor's mailbox
  mediaEvents,     \* the actor's subscription to the media bus
  queue, history,  \* songs to play, songs that ended
  played,          \* played_mids
  current,         \* the current track, or NoTrack
  generation,      \* generation of the newest player
  epoch,           \* queue_epoch
  failures,        \* consecutive_failures
  pauseActive,     \* {"Wake", "AirPlay"}: the two *_pause_active flags
  retryScheduled,  \* url_retry_scheduled
  cooldowns,       \* url_cooldown_retry_count
  shuffle, repeatMode,
  retryCount,      \* local of start_next_with_retry
  selected,        \* local of execute(Play): the song a prefetch follows
  active,          \* the flag MusicService.is_active reads
  led,             \* the media bus's music LED state
  airplayActive,   \* the media bus's flag
  live,            \* generations whose process is not yet reaped
  stopped,         \* those of them under SIGSTOP
  killed,          \* those of them that were sent SIGKILL
  killTimers,      \* generations with a force-kill timer
  retryTimers,     \* epochs of the cool-down timers, oldest first
  kicks,           \* tasks about to report the player of generation 0
  prefetches,      \* background artist searches
  requests, airplays,  \* how much of the bounds is used up
  intent,          \* history: what the user last asked of the music
  crashes          \* history: bad exits since a good one, a new queue or a switch

mailboxes == <<rx, mediaEvents>>
songsVars == <<queue, history, played>>
modes == <<shuffle, repeatMode>>
failureVars == <<failures, retryScheduled, cooldowns>>
locals == <<retryCount, selected>>
processes == <<live, stopped, killed>>
tasks == <<killTimers, retryTimers, kicks, prefetches>>
bounds == <<requests, airplays>>
ghosts == <<intent, crashes>>
vars == <<pc, mailboxes, songsVars, current, generation, epoch, failureVars,
          pauseActive, modes, locals, active, led, airplayActive, processes,
          tasks, bounds, ghosts>>

Init ==
  /\ pc = "select"
  /\ rx = <<>> /\ mediaEvents = <<>>
  /\ queue = <<>> /\ history = <<>> /\ played = {}
  /\ current = NoTrack
  /\ generation = 0
  /\ epoch = 0
  /\ failures = 0 /\ retryScheduled = FALSE /\ cooldowns = 0
  /\ pauseActive = {}
  /\ shuffle = ShuffleInit /\ repeatMode = RepeatInit
  /\ retryCount = 0 /\ selected = NoSong
  /\ active = FALSE
  /\ led = "Idle"
  /\ airplayActive = FALSE
  /\ live = {} /\ stopped = {} /\ killed = {}
  /\ killTimers = {} /\ retryTimers = <<>> /\ kicks = 0 /\ prefetches = {}
  /\ requests = 0 /\ airplays = 0
  /\ intent = "none" /\ crashes = 0

-----------------------------------------------------------------------------
(* Helpers.                                                                 *)

Receive(m) == pc = "select" /\ rx # <<>> /\ Head(rx) = m /\ rx' = Tail(rx)

Playing == current # NoTrack

Shuffles(s) == {[i \in DOMAIN s |-> s[p[i]]] : p \in Bijection(DOMAIN s, DOMAIN s)}
Ordered(s) == IF shuffle THEN Shuffles(s) ELSE {s}

Results == {s \in UNION {[1..n -> Songs] : n \in 0..MaxBatch} : IsInjective(s)}

FailureLimit == IF MaxFailures = 0 THEN 1 ELSE MaxFailures

\* Background answers carry the epoch of the queue they were asked for.
NextEpoch == epoch + 1
StaleNever(e) == FALSE
Stale(e) == e # epoch

\* update_active, given the new values of current and queue
UpdateActiveByTrack == active' = (current' # NoTrack)
UpdateActive == active' = (current' # NoTrack \/ queue' # <<>>)

\* Enter the loop of start_next_with_retry.
StartNext(n) == pc' = "starting" /\ retryCount' = n

\* set_music_state(Idle)
LedKept == UNCHANGED led
LedOff == led' = "Idle"

\* The sources in force once one of them is raised or dropped, and the flags
\* that a track started later inherits
Put(source, value, sources) == IF value THEN sources \cup {source} ELSE sources \ {source}

Flags(source, value) ==
  IF source = "User" THEN pauseActive ELSE Put(source, value, pauseActive)

\* A change of the track's overall state reaches its process, if that is not yet
\* reaped; the LED follows a signal that did.
PauseTrack(source, value) ==
  LET track == [current EXCEPT !.pausedBy = Put(source, value, @)]
      signalled == Paused(track) # Paused(current) /\ current.generation \in live
  IN  /\ Playing
      /\ current' = track
      /\ stopped' = IF ~signalled THEN stopped
                    ELSE IF Paused(track) THEN stopped \cup {current.generation}
                    ELSE stopped \ {current.generation}
      /\ led' = IF ~signalled THEN led
                ELSE IF Paused(track) THEN "Paused" ELSE "Playing"

\* set_pause: one source's pause on the flags, the track and its process
SetPauseOfTrack(source, value) ==
  \/ ~Playing /\ UNCHANGED <<pauseActive, current, stopped, led>>
  \/ pauseActive' = Flags(source, value) /\ PauseTrack(source, value)

SetPause(source, value) ==
  /\ pauseActive' = Flags(source, value)
  /\ \/ ~Playing /\ UNCHANGED <<current, stopped, led>>
     \/ PauseTrack(source, value)

\* An event that the configuration does not heed is taken and changes nothing.
Heed(event, source, value) ==
  \/ event \in Heeded /\ SetPause(source, value)
  \/ event \notin Heeded /\ UNCHANGED <<pauseActive, current, stopped, led>>

\* stop_current: mark the track, continue and terminate its process and arm
\* the force-kill timer; with no track, have a task report generation 0.
TerminateWithoutTimer(reason) ==
  /\ current' = [current EXCEPT !.ending = reason]
  /\ stopped' = stopped \ {current.generation}
  /\ UNCHANGED killTimers

Terminate(reason) ==
  /\ current' = [current EXCEPT !.ending = reason]
  /\ stopped' = stopped \ {current.generation}
  /\ killTimers' = killTimers \cup {current.generation}

KickNever(reason) == UNCHANGED kicks
Kick(reason) == kicks' = IF reason = "Stop" THEN kicks ELSE kicks + 1

StopCurrent(reason) ==
  \/ ~Playing /\ Kick(reason) /\ UNCHANGED <<current, stopped, killTimers>>
  \/ /\ Playing /\ current.ending # "None"
     /\ UNCHANGED <<current, stopped, killTimers, kicks>>
  \/ Playing /\ current.ending = "None" /\ Terminate(reason) /\ UNCHANGED kicks

\* What Stop, a new queue and an exhausted cool-down reset
ResetCooldownCount == retryScheduled' = retryScheduled /\ cooldowns' = 0
ResetCooldown == retryScheduled' = FALSE /\ cooldowns' = 0

-----------------------------------------------------------------------------
(* Commands: execute, for each variant.                                     *)

ExecutePause ==
  /\ Receive(Execute("Pause"))
  /\ SetPause("User", TRUE)
  /\ UNCHANGED <<pc, mediaEvents, songsVars, generation, epoch, failureVars, modes,
                 locals, active, airplayActive, live, killed, tasks, bounds, ghosts>>

ExecuteResume ==
  /\ Receive(Execute("Resume"))
  /\ SetPause("User", FALSE)
  /\ UNCHANGED <<pc, mediaEvents, songsVars, generation, epoch, failureVars, modes,
                 locals, active, airplayActive, live, killed, tasks, bounds, ghosts>>

ExecuteNext ==
  /\ Receive(Execute("Next"))
  /\ StopCurrent("Next")
  /\ UNCHANGED <<pc, mediaEvents, songsVars, generation, epoch, failureVars,
                 pauseActive, modes, locals, active, led, airplayActive, live, killed,
                 retryTimers, prefetches, bounds, ghosts>>

\* previous, which lets the songs it queues be played again
PlayedAfterAll(again) == played
PlayedAfter(again) == played \ Range(again)

ExecutePrevious ==
  /\ Receive(Execute("Previous"))
  /\ \/ /\ history = <<>>
        /\ UNCHANGED <<songsVars, current, stopped, killTimers, kicks, intent>>
     \/ /\ history # <<>>
        /\ LET last == history[Len(history)]
               again == IF Playing THEN <<last, current.song>> ELSE <<last>>
           IN  /\ history' = SubSeq(history, 1, Len(history) - 1)
               /\ played' = PlayedAfter(again)
               /\ queue' = again \o queue
        /\ StopCurrent("Previous")
        /\ intent' = "play"
  /\ UNCHANGED <<pc, mediaEvents, generation, epoch, failureVars, pauseActive, modes,
                 locals, active, led, airplayActive, live, killed, retryTimers,
                 prefetches, bounds, crashes>>

ExecuteStop ==
  /\ Receive(Execute("Stop"))
  /\ epoch' = NextEpoch
  /\ ResetCooldown
  /\ queue' = <<>> /\ history' = <<>> /\ played' = {}
  /\ StopCurrent("Stop")
  /\ UpdateActive
  /\ intent' = "stop"
  /\ UNCHANGED <<pc, mediaEvents, generation, failures, pauseActive, modes, locals, led,
                 airplayActive, live, killed, retryTimers, prefetches, bounds, crashes>>

ExecuteShuffle ==
  /\ Receive(Execute("Shuffle"))
  /\ shuffle' = TRUE
  /\ queue' \in Shuffles(queue)
  /\ UNCHANGED <<pc, mediaEvents, history, played, current, generation, epoch,
                 failureVars, pauseActive, repeatMode, locals, active, led,
                 airplayActive, processes, tasks, bounds, ghosts>>

ExecuteRepeat ==
  /\ \/ Receive(Execute("RepeatOne")) /\ repeatMode' = "one"
     \/ Receive(Execute("RepeatAll")) /\ repeatMode' = "all"
  /\ UNCHANGED <<pc, mediaEvents, songsVars, current, generation, epoch, failureVars,
                 pauseActive, shuffle, locals, active, led, airplayActive, processes,
                 tasks, bounds, ghosts>>

\* Play, and Singer, Playlist and Random ("List"): rejected during AirPlay,
\* else the handler awaits its search.
ExecuteSearch ==
  /\ \/ Receive(Execute("Play")) /\ pc' = "searchSong"
     \/ Receive(Execute("List")) /\ pc' = "searchList"
  /\ ~(airplayActive /\ RejectWhileAirPlay)
  /\ UNCHANGED <<mediaEvents, songsVars, current, generation, epoch, failureVars,
                 pauseActive, modes, locals, active, led, airplayActive, processes,
                 tasks, bounds, ghosts>>

\* reject_for_airplay
RejectSearch ==
  /\ Receive(Execute("Play")) \/ Receive(Execute("List"))
  /\ airplayActive /\ RejectWhileAirPlay
  /\ UNCHANGED <<pc, mediaEvents, songsVars, current, generation, epoch, failureVars,
                 pauseActive, modes, locals, active, led, airplayActive, processes,
                 tasks, bounds, ghosts>>

\* The search fails, or its list has no song that replace_queue would take.
SearchFailed ==
  /\ pc \in {"searchSong", "searchList"}
  /\ pc' = "select"
  /\ UNCHANGED <<mailboxes, songsVars, current, generation, epoch, failureVars,
                 pauseActive, modes, locals, active, led, airplayActive, processes,
                 tasks, bounds, ghosts>>

\* prefetch_same_artist, when a song was selected and its artist is known
Prefetch(song, e) ==
  \/ song \in Songs /\ SameArtist /\ prefetches' = prefetches \cup {[epoch |-> e, selected |-> song]}
  \/ UNCHANGED prefetches

\* The search answered: replace_queue.  After a stop_current(Replace) the
\* handler goes on to the prefetch at once; otherwise start_next comes first.
ReplaceQueue(songs, song) ==
  /\ epoch' = NextEpoch
  /\ ResetCooldown
  /\ failures' = 0
  /\ queue' \in Ordered(songs) /\ history' = <<>> /\ played' = {}
  /\ intent' = "play" /\ crashes' = 0
  /\ \/ /\ Playing
        /\ StopCurrent("Replace")
        /\ UpdateActive
        /\ Prefetch(song, epoch')
        /\ pc' = "select"
        /\ UNCHANGED locals
     \/ /\ ~Playing
        /\ StartNext(0)
        /\ selected' = song
        /\ UNCHANGED <<current, active, stopped, killTimers, kicks, prefetches>>
  /\ UNCHANGED <<mailboxes, generation, pauseActive, modes, led, airplayActive, live,
                 killed, retryTimers, bounds>>

SongFound == pc = "searchSong" /\ \E song \in Songs : ReplaceQueue(<<song>>, song)
ListFound == pc = "searchList" /\ \E songs \in Results \ {<<>>} : ReplaceQueue(songs, NoSong)

-----------------------------------------------------------------------------
(* start_next_with_retry.                                                   *)

\* The loop returns to its caller: clear the locals, and spawn the prefetch
\* that follows a Play.
Return ==
  /\ pc' = "select"
  /\ Prefetch(selected, epoch)
  /\ retryCount' = 0 /\ selected' = NoSong

Fresh(song) == retryCount > 0 \/ song \notin played

SkipPlayed ==
  /\ pc = "starting" /\ queue # <<>> /\ ~Fresh(Head(queue))
  /\ queue' = Tail(queue)
  /\ UNCHANGED <<pc, mailboxes, history, played, current, generation, epoch,
                 failureVars, pauseActive, modes, locals, active, led, airplayActive,
                 processes, tasks, bounds, ghosts>>

\* A new track inherits the pauses in force.
NewTrackUnpaused(song, g) ==
  [song |-> song, generation |-> g, ending |-> "None", pausedBy |-> {},
   retries |-> retryCount]

NewTrack(song, g) ==
  [song |-> song, generation |-> g, ending |-> "None", pausedBy |-> pauseActive,
   retries |-> retryCount]

\* A play URL and a player.
StartPlayer ==
  /\ pc = "starting" /\ queue # <<>> /\ Fresh(Head(queue))
  /\ "playing" \in Outcomes /\ generation < MaxGeneration
  /\ queue' = Tail(queue)
  /\ played' = played \cup {Head(queue)}
  /\ generation' = generation + 1
  /\ cooldowns' = 0
  /\ current' = NewTrack(Head(queue), generation')
  /\ live' = live \cup {generation'}
  /\ stopped' = IF Paused(current') THEN stopped \cup {generation'} ELSE stopped
  /\ led' = IF Paused(current') THEN "Paused" ELSE "Playing"
  /\ UpdateActive
  /\ Return
  /\ UNCHANGED <<mailboxes, history, epoch, failures, retryScheduled, pauseActive,
                 modes, airplayActive, killed, killTimers, retryTimers, kicks, bounds,
                 ghosts>>

ScheduleRetry ==
  /\ cooldowns' = cooldowns + 1
  /\ retryScheduled' = TRUE
  /\ retryTimers' = IF retryScheduled THEN retryTimers ELSE Append(retryTimers, epoch)

\* The primary service is cooling down: retain the song and schedule a retry,
\* unless one is scheduled.
CoolDown ==
  /\ pc = "starting" /\ queue # <<>> /\ Fresh(Head(queue)) /\ "cooldown" \in Outcomes
  /\ cooldowns < CooldownRetries
  /\ ScheduleRetry
  /\ current' = NoTrack
  /\ LedOff
  /\ UNCHANGED queue
  /\ UpdateActive
  /\ Return
  /\ UNCHANGED <<mailboxes, history, played, generation, epoch, failures, pauseActive,
                 modes, airplayActive, processes, killTimers, kicks, bounds, ghosts>>

CoolDownExhausted ==
  /\ pc = "starting" /\ queue # <<>> /\ Fresh(Head(queue)) /\ "cooldown" \in Outcomes
  /\ cooldowns >= CooldownRetries
  /\ ResetCooldown
  /\ queue' = <<>>
  /\ current' = NoTrack
  /\ LedOff
  /\ UpdateActive
  /\ Return
  /\ UNCHANGED <<mailboxes, history, played, generation, epoch, failures, pauseActive,
                 modes, airplayActive, processes, killTimers, retryTimers, kicks, bounds,
                 ghosts>>

\* No URL from either service, or no process: count it, then try the next
\* song or give the queue up.
StartFailed ==
  /\ pc = "starting" /\ queue # <<>> /\ Fresh(Head(queue)) /\ "failed" \in Outcomes
  /\ failures' = failures + 1
  /\ queue' = IF SkipOnFailure /\ failures' < FailureLimit THEN Tail(queue) ELSE <<>>
  /\ UNCHANGED <<pc, mailboxes, history, played, current, generation, epoch,
                 retryScheduled, cooldowns, pauseActive, modes, locals, active, led,
                 airplayActive, processes, tasks, bounds, ghosts>>

QueueExhausted ==
  /\ pc = "starting" /\ queue = <<>>
  /\ current' = NoTrack
  /\ LedOff
  /\ UNCHANGED queue
  /\ UpdateActive
  /\ Return
  /\ UNCHANGED <<mailboxes, history, played, generation, epoch, failureVars, pauseActive,
                 modes, airplayActive, processes, killTimers, retryTimers, kicks, bounds,
                 ghosts>>

-----------------------------------------------------------------------------
(* player_exited.                                                           *)

ReceiveAnyExit(g, ok) ==
  pc = "select" /\ rx # <<>> /\ Head(rx).type = "PlayerExited" /\ rx' = Tail(rx)

ReceiveExit(g, ok) == Receive(Exited(g, ok))

\* The task of stop_current reports generation 0.
ExitWithoutPlayer ==
  /\ ReceiveExit(0, FALSE)
  /\ ~Playing
  /\ StartNext(0)
  /\ UNCHANGED <<mediaEvents, songsVars, current, generation, epoch, failureVars,
                 pauseActive, modes, selected, active, led, airplayActive, processes,
                 tasks, bounds, ghosts>>

\* An exit of another generation than the current track's changes nothing.
ExitIgnored ==
  /\ \E g \in 0..generation, ok \in BOOLEAN :
       /\ ReceiveExit(g, ok)
       /\ IF Playing THEN g # current.generation ELSE g # 0
  /\ UNCHANGED <<pc, mediaEvents, songsVars, current, generation, epoch, failureVars,
                 pauseActive, modes, locals, active, led, airplayActive, processes,
                 tasks, bounds, ghosts>>

\* An unexpected exit is retried while the track has retries left.
MayRetryOnceMore == current.retries <= UnexpectedExitRetries
MayRetry == current.retries < UnexpectedExitRetries

\* The current track's player exited: the track is taken and the LED goes off.
ExitOfCurrent(ok) ==
  /\ Playing
  /\ ReceiveExit(current.generation, ok)
  /\ current' = NoTrack
  /\ LedOff
  /\ UNCHANGED <<mediaEvents, generation, epoch, retryScheduled, cooldowns, pauseActive,
                 modes, selected, airplayActive, processes, tasks, bounds, intent>>

ExitAfterStop ==
  /\ \E ok \in BOOLEAN : ExitOfCurrent(ok)
  /\ current.ending = "Stop"
  /\ UNCHANGED <<pc, songsVars, failures, retryCount, crashes>>
  /\ UpdateActive

ExitAfterSwitch ==
  /\ \E ok \in BOOLEAN : ExitOfCurrent(ok)
  /\ current.ending \in {"Replace", "Previous", "Next"}
  /\ history' = IF current.ending = "Next" THEN Append(history, current.song) ELSE history
  /\ StartNext(0)
  /\ crashes' = 0
  /\ UNCHANGED <<queue, played, failures, active>>

RetryAfterExit ==
  /\ ExitOfCurrent(FALSE)
  /\ current.ending = "None"
  /\ MayRetry
  /\ queue' = <<current.song>> \o queue
  /\ StartNext(current.retries + 1)
  /\ crashes' = crashes + 1
  /\ UNCHANGED <<history, played, failures, active>>

\* The end of a track the user let play: count or clear the failures, file the
\* song, refill_repeat_all, and go on unless the player failed too often.
TrackEnded ==
  \E ok \in BOOLEAN :
    /\ ExitOfCurrent(ok)
    /\ current.ending = "None"
    /\ ok \/ ~MayRetry
    /\ failures' = IF ok THEN 0 ELSE failures + 1
    /\ crashes' = IF ok THEN 0 ELSE crashes + 1
    /\ LET again == repeatMode = "one"
           left == IF again THEN <<current.song>> \o queue ELSE queue
           ended == IF again THEN history ELSE Append(history, current.song)
           kept == IF again THEN played \ {current.song} ELSE played
           refill == left = <<>> /\ repeatMode = "all" /\ ended # <<>>
       IN  \/ /\ failures' >= FailureLimit
              /\ queue' = <<>> /\ history' = ended /\ played' = kept
              /\ UpdateActive
              /\ UNCHANGED <<pc, retryCount>>
           \/ /\ failures' < FailureLimit
              /\ queue' \in IF refill THEN Ordered(ended) ELSE {left}
              /\ history' = IF refill THEN <<>> ELSE ended
              /\ played' = IF refill THEN {} ELSE kept
              /\ StartNext(0)
              /\ UNCHANGED active

-----------------------------------------------------------------------------
(* The other messages of handle_message and handle_media_event.             *)

HandleWake ==
  /\ \/ Receive([type |-> "WakeStarted"]) /\ Heed("WakeStarted", "Wake", TRUE)
     \/ Receive([type |-> "DialogFinished"]) /\ Heed("DialogFinished", "Wake", FALSE)
  /\ UNCHANGED <<pc, mediaEvents, songsVars, generation, epoch, failureVars, modes,
                 locals, active, airplayActive, live, killed, tasks, bounds, ghosts>>

HandleAirPlay ==
  /\ pc = "select" /\ mediaEvents # <<>>
  /\ mediaEvents' = Tail(mediaEvents)
  /\ LET event == Head(mediaEvents)
     IN  Heed(event, "AirPlay", event = "AirPlayStarted")
  /\ UNCHANGED <<pc, rx, songsVars, generation, epoch, failureVars, modes, locals, active,
                 airplayActive, live, killed, tasks, bounds, ghosts>>

HandleForceKill ==
  /\ \E g \in 1..generation :
       /\ Receive([type |-> "ForceKill", generation |-> g])
       /\ killed' = IF Playing /\ current.generation = g THEN killed \cup ({g} \cap live)
                    ELSE killed
  /\ UNCHANGED <<pc, mediaEvents, songsVars, current, generation, epoch, failureVars,
                 pauseActive, modes, locals, active, led, airplayActive, live, stopped,
                 tasks, bounds, ghosts>>

\* A background message starts a song if none plays and one is queued.
MayStart(songs) == ~Playing /\ songs # <<>>

\* append_queue, which keeps the new songs in their order unless shuffling
KeepsOrder(s, t) ==
  \A i, j \in DOMAIN s : i < j =>
    \E a, b \in DOMAIN t : a < b /\ t[a] = s[i] /\ t[b] = s[j]

Appended(songs, known) ==
  {s \in Results : Range(s) = Range(songs) \ known /\ (shuffle \/ KeepsOrder(s, songs))}

HandleAppendQueue ==
  /\ pc = "select" /\ rx # <<>> /\ Head(rx).type = "AppendQueue" /\ rx' = Tail(rx)
  /\ LET m == Head(rx)
         known == played \cup Range(queue) \cup (IF Playing THEN {current.song} ELSE {})
     IN  \/ /\ Stale(m.epoch)
            /\ UNCHANGED <<queue, pc, retryCount, active>>
         \/ /\ ~Stale(m.epoch)
            /\ \E more \in Appended(m.songs, known) : queue' = queue \o more
            /\ IF MayStart(queue') /\ ~retryScheduled
               THEN StartNext(0) /\ UNCHANGED active
               ELSE active' = (Playing \/ queue' # <<>>) /\ UNCHANGED <<pc, retryCount>>
  /\ UNCHANGED <<mediaEvents, history, played, current, generation, epoch, failureVars,
                 pauseActive, modes, selected, led, airplayActive, processes, tasks,
                 bounds, ghosts>>

HandleRetryQueue ==
  /\ \E e \in 0..epoch :
       /\ Receive([type |-> "RetryQueue", epoch |-> e])
       /\ retryScheduled' = (retryScheduled /\ Stale(e))
       /\ IF ~Stale(e) /\ MayStart(queue) THEN StartNext(0)
          ELSE UNCHANGED <<pc, retryCount>>
  /\ UNCHANGED <<mediaEvents, songsVars, current, generation, epoch, failures, cooldowns,
                 pauseActive, modes, selected, active, led, airplayActive, processes,
                 tasks, bounds, ghosts>>

-----------------------------------------------------------------------------
(* The world around the actor.                                              *)

Deliver(m) == rx' = Append(rx, m)

\* A client of MusicService: the routing task and the dialogue tasks.
Request ==
  /\ requests < MaxRequests
  /\ requests' = requests + 1
  /\ \/ \E c \in Requests \cap Commands : Deliver(Execute(c))
     \/ \E e \in Requests \cap Events : Deliver([type |-> e])
  /\ UNCHANGED <<pc, mediaEvents, songsVars, current, generation, epoch, failureVars,
                 pauseActive, modes, locals, active, led, airplayActive, processes,
                 tasks, airplays, ghosts>>

\* MediaBus.set_airplay_active, whose halves AirPlaySessions takes apart
AirPlayChanges ==
  /\ \/ ~airplayActive /\ airplays < MaxAirPlay /\ airplays' = airplays + 1
     \/ airplayActive /\ UNCHANGED airplays
  /\ airplayActive' = ~airplayActive
  /\ mediaEvents' = Append(mediaEvents,
                           IF airplayActive THEN "AirPlayEnded" ELSE "AirPlayStarted")
  /\ UNCHANGED <<pc, rx, songsVars, current, generation, epoch, failureVars, pauseActive,
                 modes, locals, active, led, processes, tasks, requests, ghosts>>

\* The task that waits for a player reports how its process ended.
ReportSuccess(g, ok) == IF ok THEN Deliver(Exited(g, ok)) ELSE UNCHANGED rx
Report(g, ok) == Deliver(Exited(g, ok))

\* A player's process ends, of itself unless it is stopped, or by SIGKILL.
PlayerExits(g) ==
  /\ g \in live /\ (g \notin stopped \/ g \in killed)
  /\ live' = live \ {g} /\ stopped' = stopped \ {g} /\ killed' = killed \ {g}
  /\ \E ok \in BOOLEAN : (ok => g \notin killed) /\ Report(g, ok)
  /\ UNCHANGED <<pc, mediaEvents, songsVars, current, generation, epoch, failureVars,
                 pauseActive, modes, locals, active, led, airplayActive, tasks, bounds,
                 ghosts>>

KillTimerFires(g) ==
  /\ g \in killTimers
  /\ killTimers' = killTimers \ {g}
  /\ Deliver([type |-> "ForceKill", generation |-> g])
  /\ UNCHANGED <<pc, mediaEvents, songsVars, current, generation, epoch, failureVars,
                 pauseActive, modes, locals, active, led, airplayActive, processes,
                 retryTimers, kicks, prefetches, bounds, ghosts>>

\* Cool-downs differ in length: any timer may be the next to fire.
RetryTimerFires ==
  /\ \E i \in DOMAIN retryTimers :
       /\ Deliver([type |-> "RetryQueue", epoch |-> retryTimers[i]])
       /\ retryTimers' = SubSeq(retryTimers, 1, i - 1)
                           \o SubSeq(retryTimers, i + 1, Len(retryTimers))
  /\ UNCHANGED <<pc, mediaEvents, songsVars, current, generation, epoch, failureVars,
                 pauseActive, modes, locals, active, led, airplayActive, processes,
                 killTimers, kicks, prefetches, bounds, ghosts>>

KickArrives ==
  /\ kicks > 0
  /\ kicks' = kicks - 1
  /\ Deliver(Exited(0, FALSE))
  /\ UNCHANGED <<pc, mediaEvents, songsVars, current, generation, epoch, failureVars,
                 pauseActive, modes, locals, active, led, airplayActive, processes,
                 killTimers, retryTimers, prefetches, bounds, ghosts>>

\* A background search ends: an artist's other songs, or an error.
PrefetchEnds ==
  /\ \E p \in prefetches :
       /\ prefetches' = prefetches \ {p}
       /\ \/ \E songs \in Results :
               /\ p.selected \notin Range(songs)
               /\ Deliver([type |-> "AppendQueue", epoch |-> p.epoch, songs |-> songs])
          \/ UNCHANGED rx
  /\ UNCHANGED <<pc, mediaEvents, songsVars, current, generation, epoch, failureVars,
                 pauseActive, modes, locals, active, led, airplayActive, processes,
                 killTimers, retryTimers, kicks, bounds, ghosts>>

-----------------------------------------------------------------------------
ExecuteCommand ==
  \/ ExecutePause \/ ExecuteResume \/ ExecuteNext \/ ExecutePrevious \/ ExecuteStop
  \/ ExecuteShuffle \/ ExecuteRepeat \/ ExecuteSearch \/ RejectSearch

HandleExit ==
  \/ ExitWithoutPlayer \/ ExitIgnored \/ ExitAfterStop \/ ExitAfterSwitch
  \/ RetryAfterExit \/ TrackEnded

HandleMessage ==
  \/ ExecuteCommand \/ HandleExit \/ HandleWake \/ HandleForceKill
  \/ HandleAppendQueue \/ HandleRetryQueue

Search == SearchFailed \/ SongFound \/ ListFound

Start ==
  \/ SkipPlayed \/ StartPlayer \/ CoolDown \/ CoolDownExhausted \/ StartFailed
  \/ QueueExhausted

World ==
  \/ Request
  \/ AirPlayChanges
  \/ \E g \in live : PlayerExits(g)
  \/ \E g \in killTimers : KillTimerFires(g)
  \/ RetryTimerFires
  \/ KickArrives
  \/ PrefetchEnds

Next == HandleMessage \/ HandleAirPlay \/ Search \/ Start \/ World

Spec == Init /\ [][Next]_vars

\* The runtime polls the actor's task, so it makes progress at every await and
\* takes from both of its channels (tokio::select! picks among the ready ones
\* at random); timers fire, spawned tasks run, and SIGKILL is final.  Nothing
\* makes a user act, AirPlay change or a player reach the end of its song.
Fairness ==
  /\ WF_vars(HandleMessage) /\ WF_vars(HandleAirPlay)
  /\ WF_vars(Search) /\ WF_vars(Start)
  /\ WF_vars(\E g \in killTimers : KillTimerFires(g))
  /\ WF_vars(RetryTimerFires)
  /\ WF_vars(KickArrives)
  /\ WF_vars(PrefetchEnds)
  /\ WF_vars(\E g \in killed : PlayerExits(g))

FairSpec == Spec /\ Fairness

-----------------------------------------------------------------------------
(* Properties.                                                              *)

TypeOK ==
  /\ pc \in {"select", "searchSong", "searchList", "starting"}
  /\ rx \in Seq(Message)
  /\ mediaEvents \in Seq(MediaEvents)
  /\ queue \in Seq(Songs) /\ history \in Seq(Songs) /\ played \subseteq Songs
  /\ current \in Track \cup {NoTrack}
  /\ generation \in Nat /\ epoch \in Nat
  /\ failures \in Nat /\ retryScheduled \in BOOLEAN /\ cooldowns \in Nat
  /\ pauseActive \subseteq {"Wake", "AirPlay"}
  /\ shuffle \in BOOLEAN /\ repeatMode \in RepeatModes
  /\ retryCount \in Nat /\ selected \in Songs \cup {NoSong}
  /\ active \in BOOLEAN /\ airplayActive \in BOOLEAN
  /\ led \in {"Idle", "Playing", "Paused"}
  /\ live \subseteq Nat /\ stopped \subseteq live /\ killed \subseteq live
  /\ killTimers \subseteq Nat /\ retryTimers \in Seq(Nat) /\ kicks \in Nat
  /\ prefetches \subseteq [epoch : Nat, selected : Songs]
  /\ requests \in Nat /\ airplays \in Nat
  /\ intent \in {"none", "play", "stop"} /\ crashes \in Nat

\* No two players ever run at once: a process that is not yet reaped belongs
\* to the current track, whatever exits, kicks and kills are in the mailbox.
SinglePlayer == live \subseteq (IF Playing THEN {current.generation} ELSE {})

\* The actor cannot wedge on a dead track: the exit of the current track's
\* player is still to happen or its report is in the mailbox.
ExitOnItsWay ==
  Playing => \/ current.generation \in live
             \/ \E ok \in BOOLEAN : Exited(current.generation, ok) \in Range(rx)

\* The exits in the mailbox are of processes that are gone, a start is under way
\* only without a track, and generations only grow: with these SinglePlayer is
\* inductive.
PlayerAccounting ==
  /\ pc = "starting" => ~Playing
  /\ \A g \in live : 0 < g /\ g <= generation
  /\ Playing => 0 < current.generation /\ current.generation <= generation
  /\ \A m \in Range(rx) : m.type = "PlayerExited" =>
       m.generation <= generation /\ m.generation \notin live

\* A track is stopped exactly while some source pauses it, and a track started
\* or switched to during a wake or an AirPlay session is paused by it too.
PauseHeld ==
  Playing =>
    /\ current.pausedBy \ {"User"} = pauseActive
    /\ current.ending = "None" /\ current.generation \in live
         => (current.generation \in stopped <=> Paused(current))

\* Once the bus's events are drained the actor's pause agrees with the AirPlay
\* flag, and no player is audible while the flag is up, but one being stopped:
\* each as far as the configuration heeds the event that makes it so.
SilentUnderAirPlay ==
  mediaEvents = <<>> =>
    /\ airplayActive /\ "AirPlayStarted" \in Heeded =>
         /\ "AirPlay" \in pauseActive
         /\ Playing /\ current.ending = "None" => live \subseteq stopped
    /\ ~airplayActive /\ "AirPlayEnded" \in Heeded => "AirPlay" \notin pauseActive

\* The LED shows what the player does, as long as there is one to signal.
LedFollowsPlayer ==
  /\ ~Playing => led = "Idle"
  /\ Playing /\ current.generation \in live
       => led = IF Paused(current) THEN "Paused" ELSE "Playing"

KickPending == kicks > 0 \/ Exited(0, FALSE) \in Range(rx)
RetryPending ==
  epoch \in Range(retryTimers) \/ [type |-> "RetryQueue", epoch |-> epoch] \in Range(rx)

\* Between handlers the flag that routes short commands to the music is up
\* exactly while there is a track or a queue, but for a song taken from the
\* history when nothing plays: it counts when the report of generation 0 arrives.
ActiveFlagAgrees ==
  pc = "select" /\ ~KickPending => active = (Playing \/ queue # <<>>)

\* While url_retry_scheduled keeps further retries and append_queue from
\* starting a song, a timer of this queue's epoch is on its way to clear it.
RetryScheduledHasTimer == retryScheduled => RetryPending

\* A queue that waits, with nothing on its way that would play it
Stranded == pc # "starting" /\ ~Playing /\ queue # <<>> /\ ~KickPending /\ ~RetryPending

\* MUSIC-PLAN.md: the first result of a search is played at once.  Nothing strands
\* a queue, except the exit of a track that a Stop was ending when the queue was
\* put in place: the code leaves the queue of a Play that overtakes that exit.
NoStranding ==
  [][Stranded' => Stranded \/ (Playing /\ current.ending = "Stop")]_vars

\* After a Stop no late search, timer, kick or exit starts a player, until the
\* user asks for a queue or takes a song from the history.
StopIsFinal == [][intent = "stop" => live' \subseteq live]_vars

\* Moving songs between the queue, the current track and the history, by
\* switches, shuffles and repeats in any order, loses none of them: only a new
\* queue, a Stop or a failure forgets a song.  (A track that ends for a new
\* queue, for Previous or for Stop is not owed anything more.  Every play URL
\* resolves: a cool-down whose retries are exhausted empties the queue.)
Known ==
  Range(queue) \cup Range(history)
    \cup (IF Playing /\ current.ending \in {"None", "Next"} THEN {current.song} ELSE {})

SongsKept ==
  [][Known \subseteq Known' \/ epoch' # epoch \/ failures' > failures]_vars

\* A player that keeps failing is counted: every failure stands for at most
\* the configured retries and one more exit, so the limit on failures bounds
\* how often a broken player is started.  (As long as the primary service does
\* not cool down during a retry: the retained song's retries are forgotten.)
CrashesCounted ==
  crashes <= (UnexpectedExitRetries + 1) * failures + UnexpectedExitRetries

\* What README.md says of a cool-down: the retained song is kept, and the
\* songs behind it are not tried.
RetainedSongKept == [][~(SkipPlayed /\ cooldowns > 0)]_vars

\* The actor leases the loudspeaker to one player at a time: the live process is
\* the holder, and a track told to end dooms it.
Lease == INSTANCE PlayerLease WITH
  holder <- IF live = {} THEN 0 ELSE generation,
  last   <- generation,
  doomed <- live # {} /\ Playing /\ current.ending # "None"

\* The actor's steps are the lease's steps, for every schedule
LeaseSafety == Lease!SafeSpec
\* ... and the fairness of the actor and of SIGKILL gives the lease back: a track
\* told to end goes, even when a wake stops it after its SIGTERM.
LeaseSpec == Lease!Spec
=============================================================================

----------------------------- MODULE LampControl -----------------------------
(***************************************************************************)
(* The lamp of the speaker (effect 14 of its ledd) and those who switch    *)
(* it: the LED controller of services/led.rs, the monitor of native events *)
(* of services/native_events.rs with its restore tasks, and the native     *)
(* system.  None of them knows what the others did: the controller         *)
(* compares the bus with what it commanded last, the monitor reads the     *)
(* line of every shut, its own included.  A command is two steps: the      *)
(* decision to run it and its effect on the lamp.                          *)
(* Configuration of the example file: one level command (show), shut for   *)
(* off, pause and stop, suspend_during_wakeup, any shut is of interest,    *)
(* and a restore delay (250 ms) above the debounce of shuts (200 ms).      *)
(***************************************************************************)
EXTENDS Naturals

CONSTANTS
  MaxShuts,   \* bound: shut lines unread and restores under way
  MaxTouches  \* bound: touches of the play key

ASSUME MaxShutsAssumption == MaxShuts \in Nat
ASSUME MaxTouchesAssumption == MaxTouches \in Nat

VARIABLES
  music,       \* the bus's music_state
  airplay,     \* the bus's airplay_active
  wake,        \* the bus's wake_active
  lamp,        \* whether effect 14 is shown
  at,          \* the controller: waiting for a tick or for a command to end
  commanded,   \* the music state whose command runs while at = "music"
  lit,         \* last_level is Some
  wasAirPlay,  \* airplay_was_active
  lastMusic,   \* last_music_state
  lines,       \* shut lines the monitor has not read
  up,          \* the monitor's process runs
  debouncing,  \* the last restore began less than 200 ms ago
  fresh,       \* restore tasks asleep for less than 200 ms
  due,         \* restore tasks asleep for longer
  restoring,   \* restore tasks whose command runs
  touched,     \* a key sound within the sequence window
  pressed,     \* a key command within the debounce time
  touches,     \* history: key sounds
  sent,        \* history: commands sent for the key
  gaveUp,      \* history: a shut was dropped that the controller never saw
  stale        \* history: music stopped before the controller or a running
               \* restore command could know

busVars == <<music, airplay, wake>>
controllerVars == <<at, commanded, lit, wasAirPlay, lastMusic>>
restoreVars == <<debouncing, fresh, due, restoring>>
keyVars == <<touched, pressed, touches, sent>>
history == <<gaveUp, stale>>
vars == <<busVars, lamp, controllerVars, lines, up, restoreVars, keyVars, history>>

States == {"Idle", "Playing", "Paused"}

Init ==
  /\ music = "Idle" /\ airplay = FALSE /\ wake = FALSE
  /\ lamp = FALSE
  /\ at = "tick" /\ commanded = "Idle"
  /\ lit = FALSE /\ wasAirPlay = FALSE /\ lastMusic = "none"
  /\ lines = 0 /\ up = TRUE
  /\ debouncing = FALSE /\ fresh = 0 /\ due = 0 /\ restoring = 0
  /\ touched = FALSE /\ pressed = FALSE /\ touches = 0 /\ sent = 0
  /\ gaveUp = FALSE /\ stale = FALSE

-----------------------------------------------------------------------------
(* The bus, written by the music actor, the AirPlay sessions and the router *)

\* The controller has seen that music plays.
SeesPlaying ==
  lastMusic = "Playing" \/ (at = "music" /\ commanded = "Playing")

MusicChanges ==
  /\ music' \in States \ {music}
  /\ stale' = (stale \/ (music = "Playing"
                         /\ (restoring > 0 \/ (lamp /\ ~SeesPlaying))))
  /\ UNCHANGED <<airplay, wake, lamp, controllerVars, lines, up, restoreVars,
                 keyVars, gaveUp>>

AirPlayChanges ==
  /\ airplay' = ~airplay
  /\ UNCHANGED <<music, wake, lamp, controllerVars, lines, up, restoreVars,
                 keyVars, history>>

WakeChanges ==
  /\ wake' = ~wake
  /\ UNCHANGED <<music, airplay, lamp, controllerVars, lines, up, restoreVars,
                 keyVars, history>>

-----------------------------------------------------------------------------
(* The lamp *)

Room == lines + fresh + due + restoring < MaxShuts

\* A shut, whoever commands it, darkens the lamp; the monitor sees its line.
Shut ==
  /\ lamp' = FALSE
  /\ lines' = IF up /\ Room THEN lines + 1 ELSE lines

\* The native system ends its own effect, after speech for instance.  One that
\* the monitor is not there to see is lost.
NativeShut ==
  /\ Room
  /\ Shut
  /\ gaveUp' = (gaveUp \/ ~up)
  /\ UNCHANGED <<busVars, controllerVars, up, restoreVars, keyVars, stale>>

-----------------------------------------------------------------------------
(* The LED controller: run() of led.rs *)

\* The command of the present state begins.
Command == at' = "music" /\ commanded' = music

\* A tick: during a wake (suspend_during_wakeup) it forgets the level; AirPlay
\* shows its level once; the first tick after AirPlay clears up; a change of the
\* music runs its command.
Tick ==
  /\ at = "tick"
  /\ \/ /\ wake
        /\ lit' = FALSE
        /\ UNCHANGED <<at, commanded, wasAirPlay>>
     \/ /\ ~wake /\ airplay
        /\ at' = IF lit THEN "tick" ELSE "level"
        /\ wasAirPlay' = (wasAirPlay \/ lit)
        /\ UNCHANGED <<commanded, lit>>
     \/ /\ ~wake /\ ~airplay /\ wasAirPlay
        /\ at' = "off"
        /\ UNCHANGED <<commanded, lit, wasAirPlay>>
     \/ /\ ~wake /\ ~airplay /\ ~wasAirPlay /\ music # lastMusic
        /\ Command
        /\ UNCHANGED <<lit, wasAirPlay>>
  /\ UNCHANGED <<busVars, lamp, lastMusic, lines, up, restoreVars, keyVars,
                 history>>

LevelShown ==
  /\ at = "level"
  /\ at' = "tick"
  /\ lamp' = TRUE
  /\ lit' = TRUE
  /\ wasAirPlay' = TRUE
  /\ gaveUp' = FALSE
  /\ UNCHANGED <<busVars, commanded, lastMusic, lines, up, restoreVars,
                 keyVars, stale>>

\* The off command ends; the same pass goes on with the music.
OffDone ==
  /\ at = "off"
  /\ Shut
  /\ wasAirPlay' = FALSE /\ lit' = FALSE /\ lastMusic' = "none"
  /\ Command
  /\ stale' = (stale /\ restoring > 0)
  /\ UNCHANGED <<busVars, up, restoreVars, keyVars, gaveUp>>

\* The state the command stands for is remembered, not the present one.
MusicDone ==
  /\ at = "music"
  /\ at' = "tick"
  /\ lastMusic' = commanded
  /\ gaveUp' = FALSE
  /\ IF commanded = "Playing"
     THEN lamp' = TRUE /\ UNCHANGED <<lines, stale>>
     ELSE Shut /\ stale' = (stale /\ restoring > 0)
  /\ UNCHANGED <<busVars, commanded, lit, wasAirPlay, up, restoreVars, keyVars>>

Controller == Tick \/ LevelShown \/ OffDone \/ MusicDone

-----------------------------------------------------------------------------
(* The monitor of native events and its restore tasks *)

\* A shut counts while music plays, once per debounce.
LedShutDropped ==
  /\ lines > 0
  /\ debouncing \/ music # "Playing"
  /\ lines' = lines - 1
  /\ gaveUp' = (gaveUp \/ (music # "Playing" /\ lastMusic = "Playing" /\ ~lamp))
  /\ UNCHANGED <<busVars, lamp, controllerVars, up, restoreVars, keyVars,
                 stale>>

\* With a restore delay below the debounce
LedShutSooner ==
  /\ lines > 0
  /\ ~debouncing /\ music = "Playing"
  /\ lines' = lines - 1
  /\ debouncing' = TRUE
  /\ due' = due + 1
  /\ UNCHANGED <<busVars, lamp, controllerVars, up, fresh, restoring, keyVars,
                 history>>

LedShut ==
  /\ lines > 0
  /\ ~debouncing /\ music = "Playing"
  /\ lines' = lines - 1
  /\ debouncing' = TRUE
  /\ fresh' = fresh + 1
  /\ UNCHANGED <<busVars, lamp, controllerVars, up, due, restoring, keyVars,
                 history>>

\* 200 ms after a restore began it still sleeps, for 50 ms more.
DebounceEnds ==
  /\ debouncing
  /\ debouncing' = FALSE
  /\ fresh' = 0
  /\ due' = due + fresh
  /\ UNCHANGED <<busVars, lamp, controllerVars, lines, up, restoring, keyVars,
                 history>>

\* A restore wakes up and looks at the bus once more.
RestoreUnchecked ==
  /\ due > 0
  /\ due' = due - 1
  /\ restoring' = restoring + 1
  /\ UNCHANGED <<busVars, lamp, controllerVars, lines, up, debouncing, fresh,
                 keyVars, history>>

RestoreWakes ==
  /\ due > 0
  /\ due' = due - 1
  /\ IF music = "Playing" /\ ~airplay
     THEN restoring' = restoring + 1 /\ UNCHANGED gaveUp
     ELSE /\ gaveUp' = (gaveUp \/ (lastMusic = "Playing" /\ ~lamp))
          /\ UNCHANGED restoring
  /\ UNCHANGED <<busVars, lamp, controllerVars, lines, up, debouncing, fresh,
                 keyVars, stale>>

RestoreShown ==
  /\ restoring > 0
  /\ restoring' = restoring - 1
  /\ lamp' = TRUE
  /\ gaveUp' = FALSE
  /\ UNCHANGED <<busVars, controllerVars, lines, up, debouncing, fresh, due,
                 keyVars, stale>>

\* The play key sounds, then toggles; other toggles are not of the key.
PlayKeySound ==
  /\ up /\ touches < MaxTouches
  /\ touched' = TRUE
  /\ touches' = touches + 1
  /\ UNCHANGED <<busVars, lamp, controllerVars, lines, up, restoreVars,
                 pressed, sent, history>>

SoundFades ==
  /\ touched
  /\ touched' = FALSE
  /\ UNCHANGED <<busVars, lamp, controllerVars, lines, up, restoreVars,
                 pressed, touches, sent, history>>

\* Pause while playing, Resume while paused, nothing while idle
CommonToggleKept ==
  /\ up /\ sent < MaxTouches + 1
  /\ IF touched /\ ~pressed /\ music # "Idle"
     THEN pressed' = TRUE /\ sent' = sent + 1
     ELSE UNCHANGED <<pressed, sent>>
  /\ UNCHANGED <<busVars, lamp, controllerVars, lines, up, restoreVars,
                 touched, touches, history>>

CommonToggle ==
  /\ up
  /\ touched' = FALSE
  /\ IF touched /\ ~pressed /\ music # "Idle"
     THEN pressed' = TRUE /\ sent' = sent + 1
     ELSE UNCHANGED <<pressed, sent>>
  /\ UNCHANGED <<busVars, lamp, controllerVars, lines, up, restoreVars,
                 touches, history>>

PressFades ==
  /\ pressed
  /\ pressed' = FALSE
  /\ UNCHANGED <<busVars, lamp, controllerVars, lines, up, restoreVars,
                 touched, touches, sent, history>>

\* ubus monitor ends; its lines and the times of its loop are gone.
MonitorEnds ==
  /\ up
  /\ up' = FALSE
  /\ lines' = 0
  /\ touched' = FALSE /\ pressed' = FALSE
  /\ gaveUp' = (gaveUp \/ lines > 0)
  /\ UNCHANGED <<busVars, lamp, controllerVars, restoreVars, touches, sent,
                 stale>>

\* A second later: by then no shut is debounced any more.
MonitorStarts ==
  /\ ~up /\ ~debouncing
  /\ up' = TRUE
  /\ UNCHANGED <<busVars, lamp, controllerVars, lines, restoreVars, keyVars,
                 history>>

Restore == DebounceEnds \/ RestoreWakes \/ RestoreShown

Monitor ==
  \/ LedShutDropped \/ LedShut \/ PlayKeySound \/ SoundFades \/ CommonToggle
  \/ PressFades \/ MonitorEnds \/ MonitorStarts

Next ==
  \/ MusicChanges \/ AirPlayChanges \/ WakeChanges \/ NativeShut
  \/ Controller \/ Monitor \/ Restore

Spec == Init /\ [][Next]_vars

\* The controller ticks and its commands end, the monitor reads its lines, time
\* passes for the restores.  Nothing obliges the bus, the native system, the
\* key or the monitor's process.
FairSpec ==
  /\ Spec
  /\ WF_vars(Controller)
  /\ WF_vars(LedShut \/ LedShutDropped)
  /\ WF_vars(DebounceEnds) /\ WF_vars(RestoreWakes) /\ WF_vars(RestoreShown)

-----------------------------------------------------------------------------
\* The values of the variables; shuts are debounced to one fresh restore.
TypeOK ==
  /\ music \in States /\ commanded \in States
  /\ lastMusic \in States \cup {"none"}
  /\ at \in {"tick", "level", "off", "music"}
  /\ {airplay, wake, lamp, lit, wasAirPlay, up, debouncing, touched, pressed,
      gaveUp, stale} \subseteq BOOLEAN
  /\ fresh \in 0..1
  /\ {lines, due, restoring} \subseteq 0..MaxShuts
  /\ {touches, sent} \subseteq 0..MaxTouches

\* README.md: local music that plays shows the lamp, also after the native
\* system shut it.  While music plays and neither a wake nor AirPlay has the
\* lamp, it comes on, however the commands, the shuts and the restores overlap.
\* Excepted is a shut that the monitor drops because music is not playing at
\* that moment, and a controller that does not see that moment.
LampComesOn ==
  (music = "Playing" /\ ~wake /\ ~airplay)
    ~> (lamp \/ music # "Playing" \/ wake \/ airplay \/ gaveUp)

\* README.md: paused or ended music shows no lamp.  Excepted are a restore whose
\* command was running when the music stopped playing, which looked before, and
\* one that showed the lamp for music that came and went between two ticks.
LampGoesOff ==
  (music # "Playing" /\ ~wake /\ ~airplay)
    ~> (~lamp \/ music = "Playing" \/ wake \/ airplay \/ stale)

\* One touch of the play key sends one command, whatever toggles the native
\* system adds to it.
OneCommandPerTouch == sent <= touches
=============================================================================

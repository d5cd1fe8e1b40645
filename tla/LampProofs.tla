----------------------------- MODULE LampProofs -----------------------------
(* Theorems about LampControl, for any number of shuts and touches.          *)
EXTENDS LampControl, TLAPS

USE DEF busVars, controllerVars, restoreVars, keyVars, history, vars

Stages ==
  /\ music \in States /\ commanded \in States
  /\ lastMusic \in States \cup {"none"}
  /\ at \in {"tick", "level", "off", "music"}

Flags ==
  /\ airplay \in BOOLEAN /\ wake \in BOOLEAN /\ lamp \in BOOLEAN
  /\ lit \in BOOLEAN /\ wasAirPlay \in BOOLEAN /\ up \in BOOLEAN
  /\ debouncing \in BOOLEAN /\ touched \in BOOLEAN /\ pressed \in BOOLEAN
  /\ gaveUp \in BOOLEAN /\ stale \in BOOLEAN

\* A shut is a line, then a restore that is fresh, due and at last running; the
\* debounce of the shuts lets one restore be fresh at a time.
ShutsInv ==
  /\ lines \in Nat /\ fresh \in Nat /\ due \in Nat /\ restoring \in Nat
  /\ lines + fresh + due + restoring <= MaxShuts
  /\ fresh <= 1

DebounceInv == debouncing \/ fresh = 0

\* A sound that no toggle has used up is a touch without a command.
TouchInv ==
  /\ touches \in 0..MaxTouches /\ sent \in Nat
  /\ sent <= touches
  /\ touched => sent < touches

IInv == Stages /\ Flags /\ ShutsInv /\ DebounceInv /\ TouchInv

-----------------------------------------------------------------------------
LEMMA StagesStep ==
  ASSUME Stages, [Next]_vars
  PROVE  Stages'
<1>1. CASE MusicChanges
  BY <1>1 DEF Stages, MusicChanges
<1>2. CASE Tick
  BY <1>2 DEF Stages, Tick, Command
<1>3. CASE LevelShown \/ OffDone \/ MusicDone
  BY <1>3 DEF Stages, LevelShown, OffDone, MusicDone, Command
<1>4. CASE UNCHANGED <<music, commanded, lastMusic, at>>
  BY <1>4 DEF Stages
<1>5. MusicChanges \/ Tick \/ LevelShown \/ OffDone \/ MusicDone
      \/ UNCHANGED <<music, commanded, lastMusic, at>>
  BY DEF Next, Controller, Monitor, Restore, AirPlayChanges, WakeChanges, NativeShut,
     LedShutDropped, LedShut, PlayKeySound, SoundFades, CommonToggle, PressFades,
     MonitorEnds, MonitorStarts, DebounceEnds, RestoreWakes, RestoreShown
<1> QED
  BY <1>1, <1>2, <1>3, <1>4, <1>5

LEMMA FlagsStep ==
  ASSUME Flags, [Next]_vars
  PROVE  Flags'
<1>1. CASE MusicChanges
  BY <1>1 DEF Flags, MusicChanges
<1>2. CASE AirPlayChanges
  BY <1>2 DEF Flags, AirPlayChanges
<1>3. CASE WakeChanges
  BY <1>3 DEF Flags, WakeChanges
<1>4. CASE NativeShut
  BY <1>4 DEF Flags, NativeShut, Shut
<1>5. CASE Tick
  BY <1>5 DEF Flags, Tick
<1>6. CASE LevelShown
  BY <1>6 DEF Flags, LevelShown
<1>7. CASE OffDone
  BY <1>7 DEF Flags, OffDone, Shut
<1>8. CASE MusicDone
  BY <1>8 DEF Flags, MusicDone, Shut
<1>9. CASE LedShutDropped
  BY <1>9 DEF Flags, LedShutDropped
<1>10. CASE LedShut
  BY <1>10 DEF Flags, LedShut
<1>11. CASE PlayKeySound
  BY <1>11 DEF Flags, PlayKeySound
<1>12. CASE SoundFades
  BY <1>12 DEF Flags, SoundFades
<1>13. CASE CommonToggle
  BY <1>13 DEF Flags, CommonToggle
<1>14. CASE PressFades
  BY <1>14 DEF Flags, PressFades
<1>15. CASE MonitorEnds
  BY <1>15 DEF Flags, MonitorEnds
<1>16. CASE MonitorStarts
  BY <1>16 DEF Flags, MonitorStarts
<1>17. CASE DebounceEnds
  BY <1>17 DEF Flags, DebounceEnds
<1>18. CASE RestoreWakes
  BY <1>18 DEF Flags, RestoreWakes
<1>19. CASE RestoreShown
  BY <1>19 DEF Flags, RestoreShown
<1>20. CASE UNCHANGED vars
  BY <1>20 DEF Flags
<1> QED
  BY <1>1, <1>2, <1>3, <1>4, <1>5, <1>6, <1>7, <1>8, <1>9, <1>10, <1>11, <1>12, <1>13, <1>14, <1>15, <1>16, <1>17, <1>18, <1>19, <1>20
     DEF Next, Controller, Monitor, Restore

LEMMA FewerLines ==
  ASSUME NEW i \in Nat, NEW j \in Nat, NEW k \in Nat, NEW l \in Nat, NEW m \in Nat,
         NEW n \in Nat, j <= i, i + k + l + m <= n
  PROVE  j + k + l + m <= n
OBVIOUS

LEMMA ShutsStep ==
  ASSUME ShutsInv, DebounceInv, [Next]_vars
  PROVE  ShutsInv'
<1>1. CASE NativeShut \/ OffDone \/ MusicDone
  <2>1. lines' = lines \/ (lines' = lines + 1 /\ Room)
    <3>1. CASE Shut
      BY <3>1 DEF Shut
    <3>2. Shut \/ lines' = lines
      BY <1>1 DEF NativeShut, OffDone, MusicDone
    <3> QED
      BY <3>1, <3>2
  <2>2. UNCHANGED <<fresh, due, restoring>>
    BY <1>1 DEF NativeShut, OffDone, MusicDone
  <2> QED
    BY <2>1, <2>2, MaxShutsAssumption DEF ShutsInv, Room
<1>2. CASE LedShutDropped \/ MonitorEnds
  <2>1. lines' \in Nat /\ lines' <= lines
    BY <1>2 DEF LedShutDropped, MonitorEnds, ShutsInv
  <2>2. UNCHANGED <<fresh, due, restoring>>
    BY <1>2 DEF LedShutDropped, MonitorEnds
  <2>3. lines' + fresh + due + restoring <= MaxShuts
    BY <2>1, FewerLines, MaxShutsAssumption DEF ShutsInv
  <2> QED
    BY <2>1, <2>2, <2>3 DEF ShutsInv
<1>3. CASE LedShut
  <2>1. fresh = 0
    BY <1>3 DEF LedShut, DebounceInv
  <2> QED
    BY <1>3, <2>1, MaxShutsAssumption DEF LedShut, ShutsInv
<1>4. CASE DebounceEnds
  BY <1>4, MaxShutsAssumption DEF DebounceEnds, ShutsInv
<1>5. CASE RestoreWakes \/ RestoreShown
  <2>1. /\ \/ due' = due - 1 /\ due > 0 /\ restoring' \in {restoring, restoring + 1}
           \/ due' = due /\ restoring > 0 /\ restoring' = restoring - 1
        /\ UNCHANGED <<lines, fresh>>
    BY <1>5 DEF RestoreWakes, RestoreShown
  <2> QED
    BY <2>1, MaxShutsAssumption DEF ShutsInv
<1>6. CASE UNCHANGED <<lines, fresh, due, restoring>>
  BY <1>6 DEF ShutsInv
<1>7. \/ NativeShut \/ OffDone \/ MusicDone \/ LedShutDropped \/ MonitorEnds \/ LedShut
      \/ DebounceEnds \/ RestoreWakes \/ RestoreShown
      \/ UNCHANGED <<lines, fresh, due, restoring>>
  BY DEF Next, Controller, Monitor, Restore, MusicChanges, AirPlayChanges, WakeChanges,
     Tick, LevelShown, PlayKeySound, SoundFades, CommonToggle, PressFades, MonitorStarts
<1> QED
  BY <1>1, <1>2, <1>3, <1>4, <1>5, <1>6, <1>7

LEMMA DebounceStep ==
  ASSUME DebounceInv, [Next]_vars
  PROVE  DebounceInv'
<1>1. \/ UNCHANGED <<fresh, debouncing>>
      \/ debouncing' = TRUE
      \/ fresh' = 0
  BY DEF Next, Controller, Monitor, Restore, MusicChanges, AirPlayChanges, WakeChanges,
     NativeShut, Tick, LevelShown, OffDone, MusicDone, LedShutDropped, LedShut,
     PlayKeySound, SoundFades, CommonToggle, PressFades, MonitorEnds, MonitorStarts,
     DebounceEnds, RestoreWakes, RestoreShown
<1> QED
  BY <1>1 DEF DebounceInv

LEMMA TouchStep ==
  ASSUME TouchInv, [Next]_vars
  PROVE  TouchInv'
<1>1. CASE PlayKeySound
  <2>1. touches' = touches + 1 /\ touches < MaxTouches /\ sent' = sent
    BY <1>1 DEF PlayKeySound
  <2> QED
    BY <2>1, MaxTouchesAssumption DEF TouchInv
<1>2. CASE CommonToggle
  <2>1. /\ ~touched' /\ touches' = touches
        /\ \/ sent' = sent + 1 /\ touched
           \/ sent' = sent
    BY <1>2 DEF CommonToggle
  <2>2. sent' \in Nat /\ sent' <= touches'
    BY <2>1, MaxTouchesAssumption DEF TouchInv
  <2> QED
    BY <2>1, <2>2 DEF TouchInv
<1>3. CASE ~touched' /\ UNCHANGED <<touches, sent>>
  BY <1>3 DEF TouchInv
<1>4. CASE UNCHANGED <<touched, touches, sent>>
  BY <1>4 DEF TouchInv
<1>5. \/ PlayKeySound \/ CommonToggle
      \/ ~touched' /\ UNCHANGED <<touches, sent>>
      \/ UNCHANGED <<touched, touches, sent>>
  BY DEF Next, Controller, Monitor, Restore, MusicChanges, AirPlayChanges, WakeChanges,
     NativeShut, Tick, LevelShown, OffDone, MusicDone, LedShutDropped, LedShut, SoundFades,
     PressFades, MonitorEnds, MonitorStarts, DebounceEnds, RestoreWakes, RestoreShown
<1> QED
  BY <1>1, <1>2, <1>3, <1>4, <1>5

LEMMA IInvAlways == Spec => []IInv
<1>1. Init => IInv
  <2> SUFFICES ASSUME Init PROVE IInv
    OBVIOUS
  <2>1. Stages
    BY DEF Init, Stages, States
  <2>2. Flags
    BY DEF Init, Flags
  <2>3. ShutsInv
    BY MaxShutsAssumption DEF Init, ShutsInv
  <2>4. DebounceInv
    BY DEF Init, DebounceInv
  <2>5. TouchInv
    BY MaxTouchesAssumption DEF Init, TouchInv
  <2> QED
    BY <2>1, <2>2, <2>3, <2>4, <2>5 DEF IInv
<1>2. IInv /\ [Next]_vars => IInv'
  BY StagesStep, FlagsStep, ShutsStep, DebounceStep, TouchStep DEF IInv
<1> QED
  BY <1>1, <1>2, PTL DEF Spec

\* The variables keep their types; of the shuts only one restore sleeps off its
\* debounce (handle_led_shut of native_events.rs).
THEOREM TypeCorrect == Spec => []TypeOK
<1>1. IInv => TypeOK
  <2> SUFFICES ASSUME IInv PROVE TypeOK
    OBVIOUS
  <2>1. /\ fresh \in 0..1 /\ {lines, due, restoring} \subseteq 0..MaxShuts
        /\ {touches, sent} \subseteq 0..MaxTouches
    BY MaxShutsAssumption, MaxTouchesAssumption DEF IInv, ShutsInv, TouchInv
  <2>2. {airplay, wake, lamp, lit, wasAirPlay, up, debouncing, touched, pressed,
         gaveUp, stale} \subseteq BOOLEAN
    BY DEF IInv, Flags
  <2> QED
    BY <2>1, <2>2 DEF IInv, Stages, TypeOK
<1> QED
  BY <1>1, IInvAlways, PTL

\* One touch of the play key sends one command at most, whatever toggles, ends of
\* the monitor and fading sounds come between (handle_common_toggle).
THEOREM OneCommandPerTouchAlways == Spec => []OneCommandPerTouch
<1>1. IInv => OneCommandPerTouch
  BY DEF IInv, TouchInv, OneCommandPerTouch
<1> QED
  BY <1>1, IInvAlways, PTL
=============================================================================

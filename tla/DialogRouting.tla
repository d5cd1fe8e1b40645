---------------------------- MODULE DialogRouting ----------------------------
(***************************************************************************)
(* The voice dialogues of services/routing.rs.  The speaker writes a line  *)
(* for every event of a dialogue; the router takes them one at a time,     *)
(* claims the dialogues whose text is a music command, hands others to     *)
(* Home Assistant, stops the native music of the claimed ones, and tells   *)
(* the media bus and the music actor when a wake begins and ends.  A route *)
(* through Home Assistant is a task of its own, which ends the wake itself *)
(* unless it opened a dialogue that will.  The music actor is reduced to   *)
(* its wake pause; MusicActor has the rest.                                *)
(***************************************************************************)
EXTENDS Naturals, Sequences, Functions

CONSTANTS
  Dialogs,          \* dialogue identifiers
  NoDialog,
  CacheSize,        \* dialogues the cache remembers: 64
  HomeAssistant,    \* whether a Home Assistant service is configured
  RepeatedResults,  \* whether results may follow a dialogue's final result
  MaxLines          \* bound: lines of a dialogue, its Finish not counted

ASSUME NoDialogAssumption == NoDialog \notin Dialogs
ASSUME CacheSizeAssumption == CacheSize \in Nat \ {0}
ASSUME SwitchesAssumption == HomeAssistant \in BOOLEAN /\ RepeatedResults \in BOOLEAN
ASSUME MaxLinesAssumption == MaxLines \in Nat

Phases == {"new", "listening", "asked", "answering", "done"}

\* What a recognition says: nothing final yet, a request for music, a short
\* command, which counts only while the music is active, or anything else.
Texts == {"none", "request", "short", "other"}

Directives == {"AudioPlayer.Play", "SpeechSynthesizer.Speak", "PlaybackController"}

Lines == [name : {"RecognizeResult"}, dialog : Dialogs, text : Texts]
           \cup [name : {"Dialog.Finish"}, dialog : Dialogs]

NoLine == [name |-> "none"]

VARIABLES
  phase, lines,               \* the speaker's dialogues, and their lines so far
  hand,                       \* the line the router is in the middle of
  order,                      \* dialogues in the cache, oldest first
  routed, claimed, external,  \* those with routed_asr, claimed_music, external_pending
  asking, ending,             \* Home Assistant tasks: waiting, ending the wake
  wakeActive,                 \* the media bus's flag
  rx,                         \* the music actor's mailbox
  wakePause,                  \* the actor's wake_pause_active
  musicActive,                \* MusicService.is_active
  native,                     \* the dialogue whose native music plays
  stops,                      \* runs of native_stop_command under way
  executed,                   \* history: commands executed for a dialogue
  forgotten,                  \* history: dialogues evicted or cleared
  cutShort                    \* history: dialogues whose wake another one has ended

cache == <<order, routed, claimed, external>>
haTasks == <<asking, ending>>
wake == <<wakeActive, rx, wakePause>>
dialogues == <<phase, lines>>
nativeVars == <<native, stops>>
ghosts == <<executed, forgotten>>
vars == <<dialogues, hand, cache, haTasks, wake, musicActive, nativeVars, ghosts, cutShort>>

Init ==
  /\ phase = [d \in Dialogs |-> "new"] /\ lines = [d \in Dialogs |-> 0]
  /\ hand = NoLine
  /\ order = <<>> /\ routed = {} /\ claimed = {} /\ external = {}
  /\ asking = 0 /\ ending = 0
  /\ wakeActive = FALSE /\ rx = <<>> /\ wakePause = FALSE
  /\ musicActive = FALSE
  /\ native = NoDialog /\ stops = 0
  /\ executed = [d \in Dialogs |-> 0] /\ forgotten = {} /\ cutShort = {}

-----------------------------------------------------------------------------
(* The cache: DialogCache.                                                  *)

\* state_mut: a new dialogue may push out the oldest
Remembered(d) ==
  IF d \in Range(order) THEN order
  ELSE IF Len(order) < CacheSize THEN Append(order, d)
  ELSE Append(Tail(order), d)

\* Remember d, and mark it in the three sets as given
Mark(d, routes, claims, externals) ==
  /\ order' = Remembered(d)
  /\ LET kept == Range(order')
         With(set, add) == (set \cup {x \in {d} : add}) \cap kept
     IN  /\ routed' = With(routed, routes)
         /\ claimed' = With(claimed, claims)
         /\ external' = With(external, externals)
         /\ forgotten' = forgotten \cup (Range(order) \ kept)

\* A router that claims a dialogue stops the native path and executes the command.
Claim(d) == executed' = [executed EXCEPT ![d] = @ + 1] /\ stops' = stops + 1

\* The wake ends while the speaker attends to other dialogues than d.
Attended == {e \in Dialogs : phase[e] \in {"listening", "asked"}}
CutsShort(ds) == cutShort' = cutShort \cup (Attended \ ds)

-----------------------------------------------------------------------------
(* process: the router.                                                     *)

Write(d, next) ==
  /\ hand = NoLine
  /\ lines[d] < MaxLines
  /\ lines' = [lines EXCEPT ![d] = @ + 1]
  /\ phase' = [phase EXCEPT ![d] = next]

\* The speaker listens to one dialogue at a time.
Hears(d) ==
  \/ /\ phase[d] = "new"
     /\ \A e \in Dialogs : phase[e] \notin {"listening", "asked"}
  \/ phase[d] = "listening"
  \/ phase[d] = "asked" /\ RepeatedResults

\* SpeechRecognizer.RecognizeResult, up to set_wake_active(true)
RecognizeResult(d, text) ==
  /\ Hears(d)
  /\ Write(d, IF text = "none" /\ phase[d] # "asked" THEN "listening" ELSE "asked")
  /\ wakeActive' = TRUE
  /\ hand' = [name |-> "RecognizeResult", dialog |-> d, text |-> text]
  /\ cutShort' = cutShort \ {d}
  /\ UNCHANGED <<cache, haTasks, rx, wakePause, musicActive, nativeVars, ghosts>>

AlreadyRoutedNever(d) == FALSE
AlreadyRouted(d) == d \in routed

Parses(text) == text = "request" \/ (text = "short" /\ musicActive)

WakeStartedOnce == rx' = IF wakePause THEN rx ELSE Append(rx, "WakeStarted")
WakeStarted == rx' = Append(rx, "WakeStarted")

\* ... and from wake_started on.  Whether Home Assistant gets the text also
\* depends on a file of the lab.
Route ==
  /\ hand.name = "RecognizeResult"
  /\ WakeStarted
  /\ hand' = NoLine
  /\ LET d == hand.dialog IN
       \/ /\ hand.text = "none" \/ AlreadyRouted(d)
          /\ UNCHANGED <<cache, asking, stops, ghosts>>
       \/ /\ hand.text # "none" /\ ~AlreadyRouted(d)
          /\ \/ Parses(hand.text) /\ Mark(d, TRUE, TRUE, FALSE) /\ Claim(d) /\ UNCHANGED asking
             \/ /\ ~Parses(hand.text) /\ HomeAssistant
                /\ Mark(d, TRUE, FALSE, TRUE)
                /\ asking' = asking + 1
                /\ UNCHANGED <<stops, executed>>
             \/ /\ ~Parses(hand.text)
                /\ Mark(d, TRUE, FALSE, FALSE)
                /\ UNCHANGED <<asking, stops, executed>>
  /\ UNCHANGED <<dialogues, ending, wakeActive, wakePause, musicActive, native, cutShort>>

\* Dialog.Finish, up to set_wake_active(false), unless the wake's end is left to
\* Home Assistant's task
DeferredByAny(d) == external # {}
Deferred(d) == d \in external

Finish(d) ==
  /\ hand = NoLine
  /\ phase[d] \in {"listening", "asked", "answering"}
  /\ phase' = [phase EXCEPT ![d] = "done"]
  /\ \/ Deferred(d) /\ UNCHANGED <<wakeActive, hand, cutShort>>
     \/ /\ ~Deferred(d)
        /\ wakeActive' = FALSE
        /\ CutsShort({d})
        /\ hand' = [name |-> "Dialog.Finish", dialog |-> d]
  /\ UNCHANGED <<lines, cache, haTasks, rx, wakePause, musicActive, nativeVars, ghosts>>

\* ... and dialog_finished
FinishWake ==
  /\ hand.name = "Dialog.Finish"
  /\ rx' = Append(rx, "DialogFinished")
  /\ CutsShort({hand.dialog})
  /\ hand' = NoLine
  /\ UNCHANGED <<dialogues, cache, haTasks, wakeActive, wakePause, musicActive,
                 nativeVars, ghosts>>

\* A directive to the native player, which acts on it as it is written: stopped
\* if the dialogue is claimed; a playback control claims a dialogue while the
\* local music is active, if it is one the music has too.
SuppressesControls(d, directive) == d \in claimed /\ directive = "PlaybackController"
Suppresses(d, directive) == d \in claimed

Directive(d, directive) ==
  /\ phase[d] \in {"asked", "answering", "done"}
  /\ Write(d, phase[d])
  /\ native' = IF directive = "AudioPlayer.Play" THEN d ELSE native
  /\ \/ Suppresses(d, directive) /\ stops' = stops + 1 /\ UNCHANGED <<cache, ghosts>>
     \/ /\ ~Suppresses(d, directive)
        /\ directive = "PlaybackController" /\ musicActive
        /\ Mark(d, d \in routed, TRUE, d \in external)
        /\ Claim(d)
     \/ ~Suppresses(d, directive) /\ UNCHANGED <<cache, stops, ghosts>>
  /\ UNCHANGED <<hand, haTasks, wake, musicActive, cutShort>>

\* The log was truncated: the cache is cleared.
NewFile ==
  /\ hand = NoLine /\ order # <<>>
  /\ order' = <<>> /\ routed' = {} /\ claimed' = {} /\ external' = {}
  /\ forgotten' = forgotten \cup Range(order)
  /\ UNCHANGED <<dialogues, hand, haTasks, wake, musicActive, nativeVars, executed, cutShort>>

-----------------------------------------------------------------------------
(* The tasks, and the actor.                                                *)

\* route_home_assistant: whatever Home Assistant answers, or its timeout.  An
\* answer that is spoken, or a fallback to the speaker's own assistant, opens a
\* dialogue whose Finish ends the wake; otherwise set_wake_active(false) ...
HomeAssistantAnswers ==
  /\ asking > 0
  /\ asking' = asking - 1
  /\ \/ /\ \E d \in Dialogs :
             phase[d] = "new" /\ phase' = [phase EXCEPT ![d] = "answering"]
        /\ UNCHANGED <<ending, wakeActive, cutShort>>
     \/ wakeActive' = FALSE /\ ending' = ending + 1 /\ CutsShort({}) /\ UNCHANGED phase
  /\ UNCHANGED <<lines, hand, cache, rx, wakePause, musicActive, nativeVars, ghosts>>

\* ... and dialog_finished
HomeAssistantEnds ==
  /\ ending > 0
  /\ ending' = ending - 1
  /\ rx' = Append(rx, "DialogFinished")
  /\ CutsShort({})
  /\ UNCHANGED <<dialogues, hand, cache, asking, wakeActive, wakePause, musicActive,
                 nativeVars, ghosts>>

\* stop_native_music: the configured script stops what plays.
StopNative ==
  /\ stops > 0
  /\ stops' = stops - 1
  /\ native' = NoDialog
  /\ UNCHANGED <<dialogues, hand, cache, haTasks, wake, musicActive, ghosts, cutShort>>

\* The actor's set_pause(Wake), with the default policies: the last message wins.
HandleWake ==
  /\ rx # <<>>
  /\ rx' = Tail(rx)
  /\ wakePause' = (Head(rx) = "WakeStarted")
  /\ UNCHANGED <<dialogues, hand, cache, haTasks, wakeActive, musicActive, nativeVars,
                 ghosts, cutShort>>

\* The music starts or stops for reasons of its own.
MusicChanges ==
  /\ musicActive' = ~musicActive
  /\ UNCHANGED <<dialogues, hand, cache, haTasks, wake, nativeVars, ghosts, cutShort>>

-----------------------------------------------------------------------------
Router == Route \/ FinishWake

Next ==
  \/ \E d \in Dialogs :
       \/ \E text \in Texts : RecognizeResult(d, text)
       \/ \E directive \in Directives : Directive(d, directive)
       \/ Finish(d)
  \/ Router \/ NewFile
  \/ HomeAssistantAnswers \/ HomeAssistantEnds
  \/ StopNative \/ HandleWake \/ MusicChanges

Spec == Init /\ [][Next]_vars

\* The router, the tasks and the actor run on; a request to Home Assistant has a
\* timeout.  The speaker finishes every dialogue it opens.
FairSpec ==
  /\ Spec
  /\ WF_vars(Router) /\ WF_vars(HandleWake) /\ WF_vars(StopNative)
  /\ WF_vars(HomeAssistantAnswers) /\ WF_vars(HomeAssistantEnds)
  /\ \A d \in Dialogs : WF_vars(Finish(d))

-----------------------------------------------------------------------------
(* Properties.                                                              *)

\* The cache never outgrows its limit, and marks only what it remembers.
TypeOK ==
  /\ phase \in [Dialogs -> Phases] /\ lines \in [Dialogs -> 0..MaxLines]
  /\ hand \in Lines \cup {NoLine}
  /\ order \in Seq(Dialogs) /\ IsInjective(order) /\ Len(order) <= CacheSize
  /\ routed \cup claimed \cup external \subseteq Range(order)
  /\ asking \in Nat /\ ending \in Nat
  /\ wakeActive \in BOOLEAN /\ wakePause \in BOOLEAN /\ musicActive \in BOOLEAN
  /\ rx \in Seq({"WakeStarted", "DialogFinished"})
  /\ native \in Dialogs \cup {NoDialog} /\ stops \in Nat
  /\ executed \in [Dialogs -> Nat] /\ forgotten \cup cutShort \subseteq Dialogs

\* A dialogue commands the music at most once, however often its result and its
\* playback controls come, as long as the cache remembers it.
OncePerDialog == \A d \in Dialogs : executed[d] > 1 => d \in forgotten

\* When the stops have run, no native music plays for a dialogue whose command
\* the local music took, as long as the cache remembers it.
NoDoublePlayback ==
  stops = 0 /\ native # NoDialog => executed[native] = 0 \/ native \in forgotten

\* What the router and the actor do of a wake is done.
Settled == hand = NoLine /\ rx = <<>>

\* What MUSIC-PLAN.md says of a wake: its pause lasts until its Dialog.Finish.  It
\* does unless the end of another dialogue's wake, by its Finish or by its Home
\* Assistant task, falls into it: there is one flag and one pause for all.  The next
\* line of the dialogue in progress sets both right again.
WakeHolds ==
  Settled => \A d \in Attended \ cutShort : wakeActive /\ wakePause

\* A wake does not last for ever: neither the music nor AirPlay is left paused or
\* ducked.  Not so when a result follows the answer of Home Assistant: the
\* dialogue's Finish is still deferred, to a task that is gone.
WakeEnds == (wakePause ~> ~wakePause) /\ (wakeActive ~> ~wakeActive)
=============================================================================

-------------------------- MODULE AirPlaySessions --------------------------
(***************************************************************************)
(* The AirPlay receiver of services/airplay.rs and the media bus of        *)
(* services/media.rs: sessions open and close on threads of the AirPlay    *)
(* server, count themselves, and the first and the last one change the     *)
(* bus.  MediaBus.set_airplay_active is three steps, as in the code: the   *)
(* swap of the flag, the send of the event, the reset of the level.        *)
(* The music actor is reduced to its AirPlay pause (MusicActor has the     *)
(* rest): it takes the events in the order they were sent.                 *)
(***************************************************************************)
EXTENDS Naturals, Sequences, FiniteSets

CONSTANTS
  Sessions,    \* sessions the AirPlay server may run
  MaxClients,  \* airplay.max_clients: sessions that are not closed
  MaxEvents    \* bound: events the actor has not taken yet

ASSUME MaxClientsAssumption == MaxClients \in Nat \ {0}
ASSUME MaxEventsAssumption == MaxEvents \in Nat

VARIABLES
  at,           \* where each session's thread is
  piped,        \* sessions with a pipe to aplay
  count,        \* active_sessions
  active,       \* the bus's airplay_active
  events,       \* sent to the actor, not yet taken
  level,        \* the bus's AirPlay level: "silent" (minus infinity) or "sound"
  musicPaused,  \* the actor's airplay_pause_active
  overlapped    \* history: a session came or went inside another's handler

vars == <<at, piped, count, active, events, level, musicPaused, overlapped>>

Places == {"closed", "raising", "announcing", "open",
           "lowering", "retracting", "muting"}

Init ==
  /\ at = [s \in Sessions |-> "closed"]
  /\ piped = {}
  /\ count = 0
  /\ active = FALSE
  /\ events = <<>>
  /\ level = "silent"
  /\ musicPaused = FALSE
  /\ overlapped = FALSE

Go(s, place) == at' = [at EXCEPT ![s] = place]

\* Somebody is inside set_airplay_active.  The code has no lock against it:
\* the overlap is only remembered, for the properties that except it.
Changing == \E s \in Sessions : at[s] \notin {"closed", "open"}
NoteOverlap == overlapped' = (overlapped \/ Changing)

\* audio_init: spawn aplay, which may fail, and count the session.  The
\* server admits no more clients than configured.
AudioInit(s) ==
  /\ at[s] = "closed"
  /\ Cardinality({t \in Sessions : at[t] # "closed"}) < MaxClients
  /\ Len(events) < MaxEvents
  /\ piped' \in {piped, piped \cup {s}}
  /\ count' = count + 1
  /\ Go(s, IF count = 0 THEN "raising" ELSE "open")
  /\ NoteOverlap
  /\ UNCHANGED <<active, events, level, musicPaused>>

\* set_airplay_active(true): the swap, and the event if the flag was down
RaiseUnannounced(s) ==
  /\ at[s] = "raising"
  /\ active' = TRUE
  /\ Go(s, "open")
  /\ UNCHANGED <<piped, count, events, level, musicPaused, overlapped>>

Raise(s) ==
  /\ at[s] = "raising"
  /\ active' = TRUE
  /\ Go(s, IF active THEN "open" ELSE "announcing")
  /\ UNCHANGED <<piped, count, events, level, musicPaused, overlapped>>

Announce(s) ==
  /\ at[s] = "announcing"
  /\ events' = Append(events, "AirPlayStarted")
  /\ Go(s, "open")
  /\ UNCHANGED <<piped, count, active, level, musicPaused, overlapped>>

\* audio_process: samples set the level; a failed write loses the pipe.
AudioProcess(s) ==
  /\ at[s] = "open" /\ s \in piped
  /\ level' \in {level, "sound"}
  /\ piped' \in {piped, piped \ {s}}
  /\ UNCHANGED <<at, count, active, events, musicPaused, overlapped>>

DropForgetsLast(s) ==
  /\ at[s] = "open"
  /\ piped' = piped \ {s}
  /\ count' = count - 1
  /\ Go(s, IF count = 2 THEN "lowering" ELSE "closed")
  /\ NoteOverlap
  /\ UNCHANGED <<active, events, level, musicPaused>>

Drop(s) ==
  /\ at[s] = "open"
  /\ piped' = piped \ {s}
  /\ count' = count - 1
  /\ Go(s, IF count = 1 THEN "lowering" ELSE "closed")
  /\ NoteOverlap
  /\ UNCHANGED <<active, events, level, musicPaused>>

\* set_airplay_active(false)
Lower(s) ==
  /\ at[s] = "lowering"
  /\ active' = FALSE
  /\ Go(s, IF active THEN "retracting" ELSE "muting")
  /\ UNCHANGED <<piped, count, events, level, musicPaused, overlapped>>

RetractUnsent(s) ==
  /\ at[s] = "retracting"
  /\ Go(s, "muting")
  /\ UNCHANGED <<piped, count, active, events, level, musicPaused, overlapped>>

RetractBeforeLevel(s) ==
  /\ at[s] = "retracting"
  /\ events' = Append(events, "AirPlayEnded")
  /\ Go(s, "closed")
  /\ UNCHANGED <<piped, count, active, level, musicPaused, overlapped>>

Retract(s) ==
  /\ at[s] = "retracting"
  /\ events' = Append(events, "AirPlayEnded")
  /\ Go(s, "muting")
  /\ UNCHANGED <<piped, count, active, level, musicPaused, overlapped>>

Mute(s) ==
  /\ at[s] = "muting"
  /\ level' = "silent"
  /\ Go(s, "closed")
  /\ UNCHANGED <<piped, count, active, events, musicPaused, overlapped>>

\* handle_media_event of the music actor, with the default policies
HandleMediaEventInverted ==
  /\ events # <<>>
  /\ events' = Tail(events)
  /\ musicPaused' = (Head(events) = "AirPlayEnded")
  /\ UNCHANGED <<at, piped, count, active, level, overlapped>>

HandleMediaEvent ==
  /\ events # <<>>
  /\ events' = Tail(events)
  /\ musicPaused' = (Head(events) = "AirPlayStarted")
  /\ UNCHANGED <<at, piped, count, active, level, overlapped>>

\* A session's thread inside a handler
Step(s) == Raise(s) \/ Announce(s) \/ Lower(s) \/ Retract(s) \/ Mute(s)

Next ==
  \/ \E s \in Sessions : AudioInit(s) \/ AudioProcess(s) \/ Drop(s) \/ Step(s)
  \/ HandleMediaEvent

Spec == Init /\ [][Next]_vars

\* Handlers run to their end and the actor takes its events; nothing makes a
\* sender open or close a session.
FairSpec ==
  /\ Spec
  /\ \A s \in Sessions : WF_vars(Step(s))
  /\ WF_vars(HandleMediaEvent)

-----------------------------------------------------------------------------
\* The values of the variables; the sessions counted are never more than the
\* server admits.
TypeOK ==
  /\ at \in [Sessions -> Places]
  /\ piped \subseteq Sessions
  /\ count \in 0..MaxClients
  /\ active \in BOOLEAN
  /\ events \in Seq({"AirPlayStarted", "AirPlayEnded"})
  /\ level \in {"silent", "sound"}
  /\ musicPaused \in BOOLEAN
  /\ overlapped \in BOOLEAN

Settled == events = <<>> /\ ~Changing
AllClosed == \A s \in Sessions : at[s] = "closed"

\* When the last session is gone the bus is at rest: the flag is down, the level
\* silent and the count zero, however the opening and closing of sessions
\* overlapped.
BusAtRest ==
  Settled /\ AllClosed => ~active /\ level = "silent" /\ count = 0

\* README.md: AirPlay and local music exclude each other.  While a session is
\* open and nothing is under way, the flag is up and the music paused; while
\* none is, the music is not kept paused.  The exception is an overlap, which
\* takes two clients: the code counts, swaps and sends in three steps, and a
\* session that opens while the last one closes may end with the flag down.
MusicGivesWay ==
  Settled /\ ~overlapped =>
    /\ active <=> ~AllClosed
    /\ musicPaused <=> ~AllClosed

\* A session that stays open silences the music, and when none comes back the
\* music does, unless sessions overlapped.
MusicFollowsAirPlay ==
  /\ \A s \in Sessions : at[s] = "open" ~> (musicPaused \/ at[s] # "open" \/ overlapped)
  /\ AllClosed ~> (~musicPaused \/ ~AllClosed \/ overlapped)

\* The bus the actor sees, with an event whose flag is swapped but which is not
\* sent yet counted as sent.
Unsent ==
  IF \E s \in Sessions : at[s] = "announcing" THEN <<"AirPlayStarted">>
  ELSE IF \E s \in Sessions : at[s] = "retracting" THEN <<"AirPlayEnded">>
  ELSE <<>>

Bus == INSTANCE MediaBus WITH active <- active, events <- events \o Unsent

\* Up to the first overlap the bus implements MediaBus: the flag and the events
\* tell one story.
BusSpec == Bus!Init /\ [][overlapped' \/ Bus!Next]_(Bus!busVars)
=============================================================================

----------------------------- MODULE RemotePlayer -----------------------------
(***************************************************************************)
(* The player of services/audio/play.rs: one aplay process fed from a      *)
(* channel by a task.  Child, stdin, task and sender are four slots, each  *)
(* under a lock of its own.  A stop holds the sender's lock to its end; a  *)
(* start only looks at the sender first and then fills the slots one by    *)
(* one, so that starts and stops of two tasks interleave.  What is put in  *)
(* a slot drops what was there: a child goes on unattended, a process      *)
(* whose stdin is dropped reads an end of file and exits, a task whose     *)
(* sender is dropped drains its channel and ends.                          *)
(***************************************************************************)
EXTENDS ClientTasks

CONSTANTS
  Players,    \* names for aplay processes with their channels and tasks
  NoPlayer,
  MaxChunks   \* the capacity of the channel: 50

ASSUME PlayersAssumption == NoPlayer \notin Players
ASSUME MaxChunksAssumption == MaxChunks \in Nat \ {0}

VARIABLES
  senderLock,                   \* the task that holds the lock of the sender
  aplay, stdin, task, sender,   \* the four slots
  running,                      \* processes that are not gone
  feeding,                      \* tasks that still take from their channel
  chunks,                       \* chunks in the sender's channel
  restarting,                   \* starts that stop the player first
  mine,                         \* the process each task is starting
  crossed                       \* history: a stop began in the middle of a start, or either was cut short

playerVars ==
  <<senderLock, aplay, stdin, task, sender, running, feeding, chunks, restarting, mine, crossed>>

PlayerInit ==
  /\ senderLock = Nobody
  /\ aplay = NoPlayer /\ stdin = NoPlayer /\ task = NoPlayer /\ sender = NoPlayer
  /\ running = {} /\ feeding = {} /\ chunks = 0
  /\ restarting = {} /\ mine = [t \in Tasks |-> NoPlayer]
  /\ crossed = FALSE

\* Where a task goes on when AudioPlayer::stop returns
AfterStop(t) ==
  IF t = Main THEN "stopRecording" ELSE IF t \in restarting THEN "spawn" ELSE "respond"

Starting == {t \in Tasks : at[t] \in StartPlaces}
InUse == running \cup feeding \cup {aplay, stdin, task, sender} \cup {mine[t] : t \in Tasks}

-----------------------------------------------------------------------------
(* AudioPlayer::start.                                                      *)

\* is_started, under the sender's lock
CheckStart(t) ==
  /\ at[t] = "checkStart" /\ senderLock = Nobody
  /\ IF sender = NoPlayer THEN Goes(t, "spawn") /\ UNCHANGED restarting
     ELSE Goes(t, "take") /\ restarting' = restarting \cup {t}
  /\ UNCHANGED <<senderLock, aplay, stdin, task, sender, running, feeding, chunks, mine, crossed>>

\* aplay cannot be started, or is and its child is kept
Spawn(t) ==
  /\ at[t] = "spawn"
  /\ \/ Goes(t, "respond") /\ UNCHANGED <<aplay, running, mine>>
     \/ \E p \in Players \ InUse :
          /\ Goes(t, "keepStdin")
          /\ aplay' = p /\ running' = running \cup {p}
          /\ mine' = [mine EXCEPT ![t] = p]
  /\ UNCHANGED <<senderLock, stdin, task, sender, feeding, chunks, restarting, crossed>>

KeepStdin(t) ==
  /\ at[t] = "keepStdin"
  /\ Goes(t, "keepTask")
  /\ stdin' = mine[t]
  /\ UNCHANGED <<senderLock, aplay, task, sender, running, feeding, chunks, restarting, mine, crossed>>

KeepTask(t) ==
  /\ at[t] = "keepTask"
  /\ Goes(t, "keepSender")
  /\ task' = mine[t] /\ feeding' = feeding \cup {mine[t]}
  /\ UNCHANGED <<senderLock, aplay, stdin, sender, running, chunks, restarting, mine, crossed>>

KeepSender(t) ==
  /\ at[t] = "keepSender" /\ senderLock = Nobody
  /\ Goes(t, "respond")
  /\ sender' = mine[t] /\ chunks' = 0
  /\ mine' = [mine EXCEPT ![t] = NoPlayer]
  /\ UNCHANGED <<senderLock, aplay, stdin, task, running, feeding, restarting, crossed>>

-----------------------------------------------------------------------------
(* AudioPlayer::stop.                                                       *)

TakeSenderIfAny(t) ==
  /\ at[t] = "take" /\ senderLock = Nobody
  /\ IF sender = NoPlayer
     THEN Goes(t, AfterStop(t)) /\ restarting' = restarting \ {t} /\ UNCHANGED <<senderLock, sender, chunks>>
     ELSE /\ Goes(t, "abortTask") /\ UNCHANGED restarting
          /\ senderLock' = t /\ sender' = NoPlayer /\ chunks' = 0
  /\ crossed' = (Starting # {})
  /\ UNCHANGED <<aplay, stdin, task, running, feeding, mine>>

TakeSender(t) ==
  /\ at[t] = "take" /\ senderLock = Nobody
  /\ Goes(t, "abortTask")
  /\ senderLock' = t
  /\ sender' = NoPlayer /\ chunks' = 0
  /\ crossed' = (Starting # {})
  /\ UNCHANGED <<aplay, stdin, task, running, feeding, mine, restarting>>

AbortTask(t) ==
  /\ at[t] = "abortTask"
  /\ Goes(t, "closeStdin")
  /\ task' = NoPlayer /\ feeding' = feeding \ {task}
  /\ UNCHANGED <<senderLock, aplay, stdin, sender, running, chunks, restarting, mine, crossed>>

CloseStdinNever(t) ==
  /\ at[t] = "closeStdin"
  /\ Goes(t, "killPlayer")
  /\ UNCHANGED playerVars

CloseStdin(t) ==
  /\ at[t] = "closeStdin"
  /\ Goes(t, "killPlayer")
  /\ stdin' = NoPlayer
  /\ UNCHANGED <<senderLock, aplay, task, sender, running, feeding, chunks, restarting, mine, crossed>>

KillPlayer(t) ==
  /\ at[t] = "killPlayer"
  /\ Goes(t, AfterStop(t))
  /\ aplay' = NoPlayer /\ running' = running \ {aplay}
  /\ senderLock' = Nobody /\ restarting' = restarting \ {t}
  /\ UNCHANGED <<stdin, task, sender, feeding, chunks, mine, crossed>>

-----------------------------------------------------------------------------
(* AudioPlayer::play, called by the main task for the server's stream.      *)

\* Without a sender the chunk is dropped.
PlayChunk ==
  /\ at[Main] = "play" /\ senderLock = Nobody
  /\ IF sender = NoPlayer THEN Goes(Main, "read") /\ UNCHANGED senderLock
     ELSE Goes(Main, "enqueue") /\ senderLock' = Main
  /\ UNCHANGED <<aplay, stdin, task, sender, running, feeding, chunks, restarting, mine, crossed>>

\* The lock is held until the channel has room, or nobody is left to take from it.
Enqueue ==
  /\ at[Main] = "enqueue"
  /\ \/ sender \in feeding /\ chunks < MaxChunks /\ chunks' = chunks + 1
     \/ sender \notin feeding /\ UNCHANGED chunks
  /\ Goes(Main, "read")
  /\ senderLock' = Nobody
  /\ UNCHANGED <<aplay, stdin, task, sender, running, feeding, restarting, mine, crossed>>

-----------------------------------------------------------------------------
(* The player's task and its process.                                       *)

\* A chunk is written, or given up after 100 ms; without a stdin the task breaks.
Feed ==
  /\ sender \in feeding /\ chunks > 0
  /\ IF stdin = NoPlayer THEN feeding' = feeding \ {sender} /\ UNCHANGED chunks
     ELSE chunks' = chunks - 1 /\ UNCHANGED feeding
  /\ UNCHANGED <<at, senderLock, aplay, stdin, task, sender, running, restarting, mine, crossed>>

\* The channel of a task is closed, and it ends.
FeedEnds(p) ==
  /\ p \in feeding \ {sender} /\ \A t \in Starting : mine[t] # p
  /\ feeding' = feeding \ {p}
  /\ UNCHANGED <<at, senderLock, aplay, stdin, task, sender, running, chunks, restarting, mine, crossed>>

\* A process whose stdin is closed comes to the end of its sound.
PlayerEnds(p) ==
  /\ p \in running \ {stdin} /\ \A t \in Tasks : at[t] = "keepStdin" => mine[t] # p
  /\ running' = running \ {p}
  /\ UNCHANGED <<at, senderLock, aplay, stdin, task, sender, feeding, chunks, restarting, mine, crossed>>

StartStep(t) == CheckStart(t) \/ Spawn(t) \/ KeepStdin(t) \/ KeepTask(t) \/ KeepSender(t)
StopStep(t) == TakeSender(t) \/ AbortTask(t) \/ CloseStdin(t) \/ KillPlayer(t)
PlayStep == PlayChunk \/ Enqueue
PlayerTask == Feed \/ \E p \in Players : FeedEnds(p) \/ PlayerEnds(p)

\* What handlers that are aborted let go of
DropStarts(gone) ==
  /\ senderLock' = IF senderLock \in gone THEN Nobody ELSE senderLock
  /\ mine' = [t \in Tasks |-> IF t \in gone THEN NoPlayer ELSE mine[t]]
  /\ crossed' = (crossed \/ senderLock \in gone \/ \E t \in gone : mine[t] # NoPlayer)
  /\ restarting' = restarting \ gone
  /\ UNCHANGED <<aplay, stdin, task, sender, running, feeding, chunks>>

-----------------------------------------------------------------------------
PlayerQuiet ==
  at[Main] # "take" /\ \A t \in Tasks : at[t] \notin StartPlaces \cup (StopPlaces \ {"take"})

\* Between the operations the slots tell one story: with a sender there is a task
\* that takes from it and a process it can write to; without one no process is
\* kept alive.  Two starts that interleave keep to it.  The exceptions are a stop
\* that crosses a start, which may take the child and the stdin from under it while
\* the start goes on to report success, and a start or stop that is aborted
\* half-way; they last until the next stop.
PlayerAgrees ==
  PlayerQuiet /\ ~crossed =>
    /\ sender # NoPlayer => sender \in feeding /\ stdin \in running
    /\ sender = NoPlayer => stdin = NoPlayer
=============================================================================

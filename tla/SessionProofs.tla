---------------------------- MODULE SessionProofs ----------------------------
(***************************************************************************)
(* Theorems about Session with its player and recorder, for any handlers,  *)
(* player processes and capacities: the slots of the player and the state  *)
(* of the recorder tell one story, and nothing of a connection outlives    *)
(* it.                                                                     *)
(***************************************************************************)
EXTENDS Session, SequenceTheorems, TLAPS

USE DEF playerVars, recorderVars, netVars, vars

-----------------------------------------------------------------------------
(* The invariants.                                                          *)

HandlerPlaces ==
  {"free", "shell", "checkStart", "respond"}
    \cup StartPlaces \cup StopPlaces \cup RecorderPlaces
MainPlaces ==
  {"connect", "read", "permit", "play", "enqueue", "dispose", "stopMonitors",
   "stopRecording", "killCapture"} \cup StopPlaces
PlacesInv ==
  /\ at \in [Tasks -> Places]
  /\ at[Main] \in MainPlaces
  /\ \A h \in Handlers : at[h] \in HandlerPlaces

PlayerTypes ==
  /\ {aplay, stdin, task, sender} \subseteq Players \cup {NoPlayer}
  /\ running \subseteq Players /\ feeding \subseteq Players
  /\ mine \in [Tasks -> Players \cup {NoPlayer}] /\ restarting \subseteq Handlers
  /\ senderLock \in Tasks \cup {Nobody}
  /\ crossed \in BOOLEAN

RecorderTypes ==
  /\ stateLock \in Tasks \cup {Nobody}
  /\ recording \in BOOLEAN /\ capture \in BOOLEAN /\ halted \in BOOLEAN
  /\ reader \in Readers

NetTypes ==
  /\ conn \in {"none", "up", "lost"} /\ inbox \in Seq(Messages) /\ doomed \subseteq Handlers
  /\ monitors \in BOOLEAN /\ outran \in BOOLEAN

Bounds ==
  /\ chunks \in 0..MaxChunks /\ session \in 0..MaxSessions
  /\ Len(inbox) <= MaxInbox
  /\ unsent \in 0..Capacity /\ messages \in 0..MaxMessages

\* The places of a stop that hold the sender's lock, and those of a start that has
\* a process
Killing == {"abortTask", "closeStdin", "killPlayer"}
Keeping == {"keepStdin", "keepTask", "keepSender"}

SenderLockInv ==
  \A t \in Tasks : senderLock = t <=> at[t] \in Killing \cup {"enqueue"}
MineInv == \A t \in Tasks : mine[t] # NoPlayer <=> at[t] \in Keeping

\* While a stop that no start has crossed empties the slots no start is under way;
\* otherwise each start finds what it has put in a slot still alive, and the slots
\* agree as soon as no start is between two of them.
Stopping == \E t \in Tasks : at[t] \in Killing
StopInv ==
  /\ sender = NoPlayer
  /\ \A t \in Tasks : at[t] \notin StartPlaces
  /\ \A t \in Tasks : at[t] = "killPlayer" => stdin = NoPlayer
PlayInv ==
  /\ sender # NoPlayer => sender \in feeding /\ stdin \in running
  /\ \A t \in Tasks :
       /\ at[t] = "keepStdin" => mine[t] \in running
       /\ at[t] \in {"keepTask", "keepSender"} => stdin \in running
       /\ at[t] = "keepSender" => mine[t] \in feeding
  /\ sender = NoPlayer /\ (\A t \in Tasks : at[t] \notin {"keepTask", "keepSender"})
       => stdin = NoPlayer
PlayerInv == ~crossed => IF Stopping THEN StopInv ELSE PlayInv

StateLockInv == \A t \in Tasks : stateLock = t <=> at[t] = "killCapture"
RecordInv ==
  /\ ~recording => reader = "none" /\ ~capture
  /\ stateLock # Nobody => recording /\ reader = "none" /\ ~capture
  /\ stateLock = Nobody /\ ~halted => (recording <=> reader # "none" /\ capture)

\* From the dispose of the connection to the next one the handlers left are those
\* being aborted, and the main task finds each slot it has emptied still empty.
Disposing == {"take", "stopRecording", "killCapture", "stopMonitors", "connect"} \cup Killing
DisposeInv ==
  /\ at[Main] \in Disposing => Busy \subseteq doomed
  /\ at[Main] = "connect" => ~monitors
Emptied ==
  /\ at[Main] \in Disposing \ {"take"} => sender = NoPlayer
  /\ at[Main] \in Disposing \ {"take", "abortTask"} => task = NoPlayer
  /\ at[Main] \in Disposing \ {"take", "abortTask", "closeStdin"} => stdin = NoPlayer
  /\ at[Main] \in Disposing \ ({"take"} \cup Killing) => aplay = NoPlayer
  /\ at[Main] \in {"stopMonitors", "connect"} => ~recording /\ reader = "none"
EmptiedInv == ~outran => Emptied

-----------------------------------------------------------------------------
(* Where the steps lead.                                                    *)

LEMMA MainIsOne == Main \in Tasks /\ Main \notin Handlers /\ Handlers \subseteq Tasks
BY TasksAssumption DEF Tasks

LEMMA GoesTo ==
  ASSUME PlacesInv, NEW t \in Tasks, NEW place, Goes(t, place)
  PROVE  at'[t] = place /\ \A u \in Tasks \ {t} : at'[u] = at[u]
BY DEF PlacesInv, Goes

\* A task may go to a place of its kind.
LEMMA GoesWell ==
  ASSUME PlacesInv, NEW t \in Tasks, NEW place, Goes(t, place),
         t = Main => place \in MainPlaces,
         t # Main => place \in HandlerPlaces
  PROVE  PlacesInv'
<1>1. place \in Places
  <2>1. MainPlaces \subseteq Places /\ HandlerPlaces \subseteq Places
    BY DEF MainPlaces, HandlerPlaces, Places, StartPlaces, StopPlaces, RecorderPlaces
  <2> QED
    BY <2>1
<1>2. t \in Handlers \/ t = Main
  BY DEF Tasks
<1> QED
  BY <1>1, <1>2, MainIsOne, GoesTo DEF PlacesInv, Goes

\* What the steps of the player and the recorder do to the places: the task is a
\* handler or the main task at a place of its program, and goes on within it.
LEMMA DeviceGoes ==
  ASSUME PlacesInv, NEW t \in Tasks, StartStep(t) \/ StopStep(t) \/ RecordStep(t)
  PROVE  /\ PlacesInv'
         /\ at[t] # at'[t]
         /\ \A u \in Tasks \ {t} : at'[u] = at[u]
<1>0. t = Main \/ t \in Handlers
  BY DEF Tasks
<1>1. CASE StartStep(t)
  <2>1. t # Main
    BY <1>1, MainIsOne DEF PlacesInv, MainPlaces, StartStep, CheckStart, Spawn, KeepStdin,
       KeepTask, KeepSender, StopPlaces
  <2>2. PICK place \in {"spawn", "take", "respond", "keepStdin", "keepTask", "keepSender"} :
          Goes(t, place) /\ place # at[t]
    BY <1>1 DEF StartStep, CheckStart, Spawn, KeepStdin, KeepTask, KeepSender
  <2> QED
    BY <2>1, <2>2, GoesWell, GoesTo DEF HandlerPlaces, StartPlaces, StopPlaces
<1>2. CASE StopStep(t)
  <2>1. PICK place \in {"abortTask", "closeStdin", "killPlayer", AfterStop(t)} :
          Goes(t, place) /\ place # at[t]
    BY <1>2 DEF StopStep, TakeSender, AbortTask, CloseStdin, KillPlayer, AfterStop
  <2>2. t = Main => place \in MainPlaces
    BY <2>1 DEF AfterStop, MainPlaces, StopPlaces
  <2>3. t # Main => place \in HandlerPlaces
    BY <2>1 DEF AfterStop, HandlerPlaces, StopPlaces, StartPlaces
  <2> QED
    BY <2>1, <2>2, <2>3, GoesWell, GoesTo
<1>3. CASE RecordStep(t)
  <2>1. PICK place \in {"respond", "killCapture", AfterStopRecording(t)} :
          Goes(t, place) /\ place # at[t] /\ (place = "respond" => t # Main)
    BY <1>3, MainIsOne DEF RecordStep, StartRecording, StopRecording, KillCapture,
       AfterStopRecording, PlacesInv, MainPlaces, StopPlaces
  <2>2. t = Main => place \in MainPlaces
    BY <2>1 DEF AfterStopRecording, MainPlaces
  <2>3. t # Main => place \in HandlerPlaces
    BY <2>1 DEF AfterStopRecording, HandlerPlaces, RecorderPlaces
  <2> QED
    BY <2>1, <2>2, <2>3, GoesWell, GoesTo
<1> QED
  BY <1>1, <1>2, <1>3

\* Handlers that are aborted, at once or at the next wait.
Abort(gone) ==
  /\ gone \subseteq Handlers
  /\ \A t \in gone : at'[t] = "free"
  /\ \A t \in Tasks \ gone :
       at'[t] = at[t] \/ (t = Main /\ at[t] = "dispose" /\ at'[t] = "take")
  /\ DropStarts(gone) /\ DropStops(gone)

LEMMA DisposeAborts ==
  ASSUME PlacesInv, Dispose
  PROVE  PlacesInv' /\ Abort(Busy \ doomed') /\ Busy' \subseteq doomed'
<1>1. at[Main] = "dispose" /\ doomed' \subseteq Busy
  BY DEF Dispose
<1>2. at' = [t \in Tasks |-> IF t = Main THEN "take"
                             ELSE IF t \in doomed' THEN at[t] ELSE "free"]
  BY DEF Dispose
<1>3. DropStarts(Busy \ doomed') /\ DropStops(Busy \ doomed')
  BY DEF Dispose
<1>4. Busy \subseteq Handlers /\ \A h \in Handlers \ Busy : at[h] = "free"
  BY DEF Busy
<1>5. "free" \in HandlerPlaces \cap Places /\ "take" \in MainPlaces \cap Places
  BY DEF HandlerPlaces, MainPlaces, StopPlaces, Places
<1>6. /\ at'[Main] = "take"
      /\ \A h \in Handlers : at'[h] = IF h \in doomed' THEN at[h] ELSE "free"
  BY <1>2, MainIsOne
<1>7. PlacesInv'
  <2>1. at' \in [Tasks -> Places]
    BY <1>2, <1>5 DEF PlacesInv
  <2> QED
    BY <1>5, <1>6, <2>1 DEF PlacesInv
<1>8. \A t \in Tasks \ (Busy \ doomed') : at'[t] = at[t] \/ t = Main
  BY <1>4, <1>6 DEF Tasks
<1>9. Abort(Busy \ doomed')
  BY <1>1, <1>3, <1>4, <1>6, <1>8, MainIsOne DEF Abort
<1>10. Busy' \subseteq doomed'
  BY <1>6 DEF Busy
<1> QED
  BY <1>7, <1>9, <1>10

LEMMA AbortedAborts ==
  ASSUME PlacesInv, NEW h \in Handlers, Aborted(h)
  PROVE  PlacesInv' /\ Abort({h}) /\ UNCHANGED at[Main]
<1>1. "free" \in HandlerPlaces /\ h \in Tasks /\ h # Main
  BY MainIsOne DEF HandlerPlaces
<1>2. at'[h] = "free" /\ \A u \in Tasks \ {h} : at'[u] = at[u]
  BY <1>1, GoesTo DEF Aborted
<1>3. PlacesInv'
  BY <1>1, GoesWell DEF Aborted
<1> QED
  BY <1>1, <1>2, <1>3, MainIsOne DEF Abort, Aborted

\* The steps that neither start nor stop a device, nor abort
NetStep ==
  \/ ServerSends \/ ServerReads \/ ConnectionLost
  \/ Connect \/ AwaitPermit \/ ReadStream \/ NoticeLoss \/ StopMonitors
  \/ SendEvent
  \/ \E h \in Handlers : Accept(h) \/ Respond(h) \/ Shell(h)

Held == {"spawn", "enqueue"} \cup Keeping \cup Killing

LEMMA NetGoes ==
  ASSUME PlacesInv, NetStep
  PROVE  /\ PlacesInv'
         /\ UNCHANGED <<playerVars, recorderVars>>
         /\ \A t \in Tasks : at'[t] = at[t]
              \/ (at[t] \notin Held \cup {"killCapture"} /\ at'[t] \notin Held \cup {"killCapture"})
<1>1. CASE ServerSends \/ ServerReads \/ ConnectionLost \/ SendEvent
  <2>1. UNCHANGED <<at, playerVars, recorderVars>>
    BY <1>1 DEF ServerSends, ServerReads, ConnectionLost, SendEvent
  <2> QED
    BY <2>1 DEF PlacesInv
<1>2. CASE Connect \/ AwaitPermit \/ ReadStream \/ NoticeLoss \/ StopMonitors
  <2>1. PICK place \in {"read", "permit", "play", "dispose", "connect"} : Goes(Main, place)
    BY <1>2 DEF Connect, AwaitPermit, ReadStream, NoticeLoss, StopMonitors
  <2>2. /\ at[Main] \in {"connect", "read", "stopMonitors"}
        /\ UNCHANGED <<playerVars, recorderVars>>
    BY <1>2 DEF Connect, AwaitPermit, ReadStream, NoticeLoss, StopMonitors
  <2>3. at'[Main] = place /\ \A u \in Tasks \ {Main} : at'[u] = at[u]
    BY <2>1, MainIsOne, GoesTo
  <2>4. PlacesInv'
    BY <2>1, MainIsOne, GoesWell DEF MainPlaces
  <2> QED
    BY <2>1, <2>2, <2>3, <2>4 DEF Held, Keeping, Killing
<1>3. ASSUME NEW h \in Handlers, Respond(h) \/ Shell(h)
      PROVE  /\ PlacesInv'
             /\ UNCHANGED <<playerVars, recorderVars>>
             /\ at[h] \in {"respond", "shell"} /\ at'[h] \in {"free", "respond"}
             /\ \A u \in Tasks \ {h} : at'[u] = at[u]
  <2>1. PICK place \in {"free", "respond"} : Goes(h, place)
    BY <1>3 DEF Respond, Shell
  <2>2. h \in Tasks /\ h # Main
    BY MainIsOne
  <2>3. at'[h] = place /\ \A u \in Tasks \ {h} : at'[u] = at[u]
    BY <2>1, <2>2, GoesTo
  <2>4. PlacesInv'
    BY <2>1, <2>2, GoesWell DEF HandlerPlaces
  <2> QED
    BY <1>3, <2>1, <2>3, <2>4 DEF Respond, Shell
<1>4. ASSUME NEW h \in Handlers, Accept(h)
      PROVE  /\ PlacesInv'
             /\ UNCHANGED <<playerVars, recorderVars>>
             /\ at[h] = "free"
             /\ at'[h] \in HandlerPlaces \ (Held \cup {"killCapture"})
             /\ at[Main] \in {"read", "permit"} /\ at'[Main] = "read"
             /\ \A u \in Tasks \ {h, Main} : at'[u] = at[u]
  <2>1. PICK c \in Commands : at' = [at EXCEPT ![Main] = "read", ![h] = FirstPlace(c)]
    BY <1>4 DEF Accept
  <2>2. FirstPlace(c) \in {"respond", "shell", "checkStart", "take", "startRecording",
                           "stopRecording"}
    BY DEF FirstPlace, Commands
  <2>3. /\ FirstPlace(c) \in HandlerPlaces \ (Held \cup {"killCapture"})
        /\ FirstPlace(c) \in Places /\ "read" \in Places \cap MainPlaces
    BY <2>2 DEF HandlerPlaces, MainPlaces, Places, Held, Keeping, Killing, StopPlaces,
       StartPlaces, RecorderPlaces
  <2>4. /\ at' \in [Tasks -> Places]
        /\ at'[h] = FirstPlace(c) /\ at'[Main] = "read"
        /\ \A u \in Tasks \ {h, Main} : at'[u] = at[u]
    BY <2>1, <2>3, MainIsOne DEF PlacesInv
  <2>5. PlacesInv'
    BY <2>3, <2>4, MainIsOne DEF PlacesInv
  <2> QED
    BY <1>4, <2>3, <2>4, <2>5 DEF Accept
<1>5. {"respond", "shell", "free", "read", "permit"} \cap (Held \cup {"killCapture"}) = {}
  BY DEF Held, Keeping, Killing
<1>6. ASSUME NEW h \in Handlers, Respond(h) \/ Shell(h) \/ Accept(h)
      PROVE  /\ PlacesInv'
             /\ UNCHANGED <<playerVars, recorderVars>>
             /\ \A t \in Tasks : at'[t] = at[t]
                  \/ (at[t] \notin Held \cup {"killCapture"}
                        /\ at'[t] \notin Held \cup {"killCapture"})
  <2>1. CASE Respond(h) \/ Shell(h)
    BY <1>3, <1>5, <2>1
  <2>2. CASE Accept(h)
    BY <1>4, <1>5, <2>2
  <2> QED
    BY <1>6, <2>1, <2>2
<1> QED
  BY <1>1, <1>2, <1>6 DEF NetStep

\* The steps of the whole client
LEMMA NextCases ==
  ASSUME [Next]_vars
  PROVE  \/ NetStep \/ Dispose \/ PlayerRuns \/ ReaderRuns \/ SendRecorded \/ Play
         \/ \E h \in Handlers : Aborted(h)
         \/ \E t \in Tasks : PlayerStep(t) \/ RecorderStep(t)
         \/ UNCHANGED vars
BY MainIsOne DEF Next, MainStep, HandlerStep, NetStep

LEMMA PlaysGo ==
  ASSUME PlacesInv, PlayStep
  PROVE  /\ PlacesInv'
         /\ at[Main] \in {"play", "enqueue"} /\ at'[Main] \in {"read", "enqueue"}
         /\ \A u \in Tasks \ {Main} : at'[u] = at[u]
<1>1. PICK place \in {"read", "enqueue"} : Goes(Main, place)
  BY DEF PlayStep, PlayChunk, Enqueue
<1>2. PlacesInv'
  BY <1>1, MainIsOne, GoesWell DEF MainPlaces
<1> QED
  BY <1>1, <1>2, MainIsOne, GoesTo DEF PlayStep, PlayChunk, Enqueue

LEMMA PlacesStep ==
  ASSUME PlacesInv, [Next]_vars
  PROVE  PlacesInv'
<1>1. CASE PlayerRuns \/ ReaderRuns \/ SendRecorded \/ UNCHANGED vars
  <2>1. at' = at
    BY <1>1 DEF PlayerRuns, PlayerTask, Feed, FeedEnds, PlayerEnds, ReaderRuns, Read,
       ReaderStops, SendRecorded
  <2> QED
    BY <2>1 DEF PlacesInv
<1>2. CASE Play
  BY <1>2, PlaysGo DEF Play
<1>3. CASE \E t \in Tasks : PlayerStep(t) \/ RecorderStep(t)
  BY <1>3, DeviceGoes DEF PlayerStep, RecorderStep
<1> QED
  BY <1>1, <1>2, <1>3, NextCases, NetGoes, DisposeAborts, AbortedAborts

-----------------------------------------------------------------------------
(* The player.                                                              *)

LEMMA AtCheckStart ==
  ASSUME PlacesInv, NEW t \in Tasks, at[t] = "checkStart"
  PROVE  t \in Handlers
BY DEF PlacesInv, MainPlaces, StopPlaces, Tasks

LEMMA PlayerTypesStep ==
  ASSUME PlacesInv, PlayerTypes, MineInv, [Next]_vars
  PROVE  PlayerTypes'
<1>1. CASE NetStep \/ ReaderRuns \/ SendRecorded \/ UNCHANGED vars
  <2>1. UNCHANGED playerVars
    BY <1>1, NetGoes DEF ReaderRuns, SendRecorded
  <2> QED
    BY <2>1 DEF PlayerTypes
<1>2. ASSUME NEW gone, Abort(gone)
      PROVE  PlayerTypes'
  BY <1>2 DEF Abort, DropStarts, PlayerTypes
<1>3. CASE PlayerRuns \/ Play
  BY <1>3, MainIsOne DEF PlayerTypes, PlayerRuns, PlayerTask, Feed, FeedEnds, PlayerEnds, Play, PlayStep,
     PlayChunk, Enqueue
<1>4. ASSUME NEW t \in Tasks, StartStep(t)
      PROVE  PlayerTypes'
  <2>1. CASE CheckStart(t)
    BY <2>1, AtCheckStart DEF PlayerTypes, CheckStart
  <2>2. CASE Spawn(t)
    BY <2>2 DEF PlayerTypes, Spawn
  <2>3. CASE KeepStdin(t) \/ KeepTask(t) \/ KeepSender(t)
    <3>1. at[t] \in Keeping
      BY <2>3 DEF KeepStdin, KeepTask, KeepSender, Keeping
    <3>2. mine[t] \in Players
      BY <3>1 DEF MineInv, PlayerTypes
    <3> QED
      BY <2>3, <3>2 DEF PlayerTypes, KeepStdin, KeepTask, KeepSender
  <2> QED
    BY <1>4, <2>1, <2>2, <2>3 DEF StartStep
<1>5. ASSUME NEW t \in Tasks, StopStep(t)
      PROVE  PlayerTypes'
  BY <1>5 DEF PlayerTypes, StopStep, TakeSender, AbortTask, CloseStdin, KillPlayer
<1>6. ASSUME NEW t \in Tasks, RecorderStep(t)
      PROVE  PlayerTypes'
  BY <1>6 DEF RecorderStep, PlayerTypes
<1> QED
  BY <1>1, <1>2, <1>3, <1>4, <1>5, <1>6, NextCases, DisposeAborts, AbortedAborts
     DEF PlayerStep

\* A step of the recorder leaves the player alone, and its places.
LEMMA RecorderApart ==
  ASSUME PlacesInv, NEW t \in Tasks, RecorderStep(t)
  PROVE  /\ UNCHANGED playerVars
         /\ at[t] \notin Held /\ at'[t] \notin Held
         /\ \A u \in Tasks \ {t} : at'[u] = at[u]
<1>1. PICK place \in {"respond", "killCapture", "stopMonitors"} : Goes(t, place)
  BY DEF RecorderStep, RecordStep, StartRecording, StopRecording, KillCapture,
     AfterStopRecording
<1>2. at[t] \in RecorderPlaces
  BY DEF RecorderStep, RecordStep, StartRecording, StopRecording, KillCapture, RecorderPlaces
<1> QED
  BY <1>1, <1>2, GoesTo DEF RecorderStep, RecorderPlaces, Held, Keeping, Killing

\* The steps that leave the slots and the places that matter to them alone
PlayerApart ==
  /\ UNCHANGED playerVars
  /\ \A t \in Tasks : at'[t] = at[t] \/ (at[t] \notin Held /\ at'[t] \notin Held)

LEMMA PlayerCases ==
  ASSUME PlacesInv, [Next]_vars
  PROVE  \/ PlayerApart
         \/ \E gone : Abort(gone)
         \/ PlayerTask /\ UNCHANGED at
         \/ PlayStep
         \/ \E t \in Tasks : StartStep(t) \/ StopStep(t)
<1>1. CASE NetStep
  BY <1>1, NetGoes DEF PlayerApart
<1>2. CASE ReaderRuns \/ SendRecorded \/ UNCHANGED vars
  BY <1>2 DEF PlayerApart, ReaderRuns, Read, ReaderStops, SendRecorded
<1>3. CASE \E t \in Tasks : RecorderStep(t)
  BY <1>3, RecorderApart DEF PlayerApart
<1>4. CASE PlayerRuns
  BY <1>4 DEF PlayerRuns, PlayerTask, Feed, FeedEnds, PlayerEnds
<1> QED
  BY <1>1, <1>2, <1>3, <1>4, NextCases, DisposeAborts, AbortedAborts DEF Play, PlayerStep

LEMMA LocksStep ==
  ASSUME PlacesInv, PlayerTypes, MineInv, SenderLockInv, [Next]_vars
  PROVE  MineInv' /\ SenderLockInv'
<1>1. CASE PlayerApart
  BY <1>1 DEF PlayerApart, MineInv, SenderLockInv, Held
<1>2. ASSUME NEW gone, Abort(gone)
      PROVE  MineInv' /\ SenderLockInv'
  <2>1. "free" \notin Held /\ "dispose" \notin Held /\ "take" \notin Held
    BY DEF Held, Keeping, Killing
  <2>2. \A t \in Tasks : \/ at'[t] = at[t] /\ t \notin gone
                         \/ at'[t] \notin Held /\ t \in gone
                         \/ at'[t] \notin Held /\ at[t] \notin Held /\ t \notin gone
    BY <1>2, <2>1 DEF Abort
  <2>3. gone \subseteq Tasks /\ Nobody \notin Tasks
    BY <1>2, TasksAssumption DEF Abort, Tasks
  <2>4. \A t \in Tasks : mine'[t] = IF t \in gone THEN NoPlayer ELSE mine[t]
    BY <1>2 DEF Abort, DropStarts
  <2>5. senderLock' = IF senderLock \in gone THEN Nobody ELSE senderLock
    BY <1>2 DEF Abort, DropStarts
  <2>6. MineInv'
    BY <2>2, <2>4 DEF MineInv, Held
  <2>7. SenderLockInv'
    BY <2>2, <2>3, <2>5 DEF SenderLockInv, Held
  <2> QED
    BY <2>6, <2>7
<1>3. CASE PlayerTask /\ UNCHANGED at
  BY <1>3 DEF PlayerTask, Feed, FeedEnds, PlayerEnds, MineInv, SenderLockInv
<1>4. CASE PlayStep
  <2>1. Nobody \notin Tasks
    BY TasksAssumption DEF Tasks
  <2>2. mine' = mine /\ at[Main] \notin Keeping /\ at'[Main] \notin Keeping
    BY <1>4, PlaysGo DEF PlayStep, PlayChunk, Enqueue, Keeping
  <2>3. MineInv'
    BY <1>4, <2>2, PlaysGo DEF MineInv
  <2>4. \/ senderLock' = senderLock /\ at[Main] = "play" /\ at'[Main] = "read"
        \/ senderLock = Nobody /\ senderLock' = Main /\ at'[Main] = "enqueue"
        \/ at[Main] = "enqueue" /\ senderLock' = Nobody /\ at'[Main] = "read"
    BY <1>4, MainIsOne, GoesTo DEF PlayStep, PlayChunk, Enqueue
  <2>5. SenderLockInv'
    BY <1>4, <2>1, <2>4, MainIsOne, PlaysGo DEF SenderLockInv, Killing
  <2> QED
    BY <2>3, <2>5
<1>5. ASSUME NEW t \in Tasks, StartStep(t)
      PROVE  MineInv' /\ SenderLockInv'
  <2>1. \A u \in Tasks \ {t} : at'[u] = at[u]
    BY <1>5, DeviceGoes
  <2>2. /\ senderLock' = senderLock
        /\ at[t] \notin Killing \cup {"enqueue"} /\ at'[t] \notin Killing \cup {"enqueue"}
    BY <1>5, GoesTo DEF StartStep, CheckStart, Spawn, KeepStdin, KeepTask, KeepSender, Killing
  <2>3. SenderLockInv'
    BY <2>1, <2>2 DEF SenderLockInv
  <2>4. CASE CheckStart(t)
    <3>1. /\ at[t] = "checkStart" /\ at'[t] \in {"spawn", "take"}
          /\ mine' = mine
      BY <2>4, GoesTo DEF CheckStart
    <3> QED
      BY <2>1, <2>3, <3>1 DEF MineInv, Keeping
  <2>5. CASE Spawn(t)
    <3>1. CASE Goes(t, "respond") /\ UNCHANGED mine
      <4>1. at[t] = "spawn" /\ at'[t] = "respond"
        BY <2>5, <3>1, GoesTo DEF Spawn
      <4> QED
        BY <2>1, <2>3, <3>1, <4>1 DEF MineInv, Keeping
    <3>2. CASE \E q \in Players : Goes(t, "keepStdin") /\ mine' = [mine EXCEPT ![t] = q]
      <4>1. at'[t] = "keepStdin"
        BY <3>2, GoesTo
      <4>2. mine'[t] # NoPlayer /\ \A u \in Tasks \ {t} : mine'[u] = mine[u]
        BY <3>2, PlayersAssumption DEF PlayerTypes
      <4> QED
        BY <2>1, <2>3, <4>1, <4>2 DEF MineInv, Keeping
    <3> QED
      BY <2>3, <2>5, <3>1, <3>2 DEF Spawn
  <2>6. CASE KeepStdin(t) \/ KeepTask(t)
    <3>1. at[t] \in Keeping /\ at'[t] \in Keeping /\ mine' = mine
      BY <2>6, GoesTo DEF KeepStdin, KeepTask, Keeping
    <3> QED
      BY <2>1, <2>3, <3>1 DEF MineInv
  <2>7. CASE KeepSender(t)
    <3>1. at'[t] \notin Keeping
      BY <2>7, GoesTo DEF KeepSender, Keeping
    <3>2. mine'[t] = NoPlayer /\ \A u \in Tasks \ {t} : mine'[u] = mine[u]
      BY <2>7 DEF KeepSender, PlayerTypes
    <3> QED
      BY <2>1, <2>3, <3>1, <3>2 DEF MineInv
  <2> QED
    BY <1>5, <2>3, <2>4, <2>5, <2>6, <2>7 DEF StartStep
<1>6. ASSUME NEW t \in Tasks, StopStep(t)
      PROVE  MineInv' /\ SenderLockInv'
  <2>1. \A u \in Tasks \ {t} : at'[u] = at[u]
    BY <1>6, DeviceGoes
  <2>2. mine' = mine /\ at[t] \notin Keeping /\ at'[t] \notin Keeping
    BY <1>6, GoesTo DEF StopStep, TakeSender, AbortTask, CloseStdin, KillPlayer, AfterStop,
       Keeping
  <2>3. MineInv'
    BY <2>1, <2>2 DEF MineInv
  <2>4. Nobody \notin Tasks
    BY TasksAssumption DEF Tasks
  <2>5. CASE TakeSender(t)
    <3>1. senderLock = Nobody /\ senderLock' = t /\ at'[t] = "abortTask"
      BY <2>5, GoesTo DEF TakeSender
    <3> QED
      BY <2>1, <2>3, <2>4, <3>1 DEF SenderLockInv, Killing
  <2>6. CASE AbortTask(t) \/ CloseStdin(t)
    <3>1. senderLock' = senderLock /\ at[t] \in Killing /\ at'[t] \in Killing
      BY <2>6, GoesTo DEF AbortTask, CloseStdin, Killing
    <3> QED
      BY <2>1, <2>3, <3>1 DEF SenderLockInv
  <2>7. CASE KillPlayer(t)
    <3>1. /\ senderLock' = Nobody /\ at[t] \in Killing
          /\ at'[t] \notin Killing \cup {"enqueue"}
      BY <2>7, GoesTo DEF KillPlayer, AfterStop, Killing
    <3> QED
      BY <2>1, <2>3, <2>4, <3>1 DEF SenderLockInv
  <2> QED
    BY <1>6, <2>5, <2>6, <2>7 DEF StopStep
<1> QED
  BY <1>1, <1>2, <1>3, <1>4, <1>5, <1>6, PlayerCases

\* The lock of the sender: one stop at a time, and none while it is free.
LEMMA OneStop ==
  ASSUME SenderLockInv
  PROVE  /\ senderLock = Nobody => ~Stopping
         /\ \A t, u \in Tasks : at[t] \in Killing /\ at[u] \in Killing => t = u
BY TasksAssumption DEF SenderLockInv, Stopping, Tasks

\* The step of a start, in the terms of the invariants
LEMMA StartKeeps ==
  ASSUME PlacesInv, PlayerTypes, MineInv, SenderLockInv, PlayerInv, ~crossed,
         NEW t \in Tasks, StartStep(t)
  PROVE  ~Stopping' /\ PlayInv'
<1>1. \A u \in Tasks \ {t} : at'[u] = at[u]
  BY DeviceGoes
<1>2. at[t] \in {"checkStart"} \cup StartPlaces /\ at'[t] \notin Killing
  BY GoesTo DEF StartStep, CheckStart, Spawn, KeepStdin, KeepTask, KeepSender,
     StartPlaces, Killing
<1>3. ~Stopping
  <2>1. CASE CheckStart(t)
    BY <2>1, OneStop DEF CheckStart
  <2>2. CASE ~CheckStart(t)
    <3>1. at[t] \in StartPlaces
      BY <2>2 DEF StartStep, Spawn, KeepStdin, KeepTask, KeepSender, StartPlaces
    <3> QED
      BY <3>1 DEF PlayerInv, StopInv
  <2> QED
    BY <2>1, <2>2
<1>4. ~Stopping'
  BY <1>1, <1>2, <1>3 DEF Stopping
<1>5. PlayInv
  BY <1>3 DEF PlayerInv
<1>6. CASE CheckStart(t)
  <2>1. /\ at[t] = "checkStart" /\ at'[t] \in {"spawn", "take"}
        /\ UNCHANGED <<stdin, sender, running, feeding, mine>>
    BY <1>6, GoesTo DEF CheckStart
  <2> QED
    BY <1>1, <1>4, <1>5, <2>1 DEF PlayInv
<1>7. CASE Spawn(t)
  <2>1. at[t] = "spawn" /\ UNCHANGED <<stdin, sender, feeding>>
    BY <1>7 DEF Spawn
  <2>2. CASE Goes(t, "respond") /\ UNCHANGED <<running, mine>>
    <3>1. at'[t] = "respond"
      BY <2>2, GoesTo
    <3> QED
      BY <1>1, <1>4, <1>5, <2>1, <2>2, <3>1 DEF PlayInv
  <2>3. ASSUME NEW q \in Players, Goes(t, "keepStdin"), running' = running \cup {q},
               mine' = [mine EXCEPT ![t] = q]
        PROVE  PlayInv'
    <3>1. at'[t] = "keepStdin"
      BY <2>3, GoesTo
    <3>2. mine'[t] = q /\ \A u \in Tasks \ {t} : mine'[u] = mine[u]
      BY <2>3 DEF PlayerTypes
    <3> QED
      BY <1>1, <1>5, <2>1, <2>3, <3>1, <3>2 DEF PlayInv
  <2> QED
    BY <1>4, <1>7, <2>2, <2>3 DEF Spawn
<1>8. CASE KeepStdin(t)
  <2>1. /\ at[t] = "keepStdin" /\ at'[t] = "keepTask" /\ stdin' = mine[t]
        /\ UNCHANGED <<sender, running, feeding, mine>>
    BY <1>8, GoesTo DEF KeepStdin
  <2> QED
    BY <1>1, <1>4, <1>5, <2>1 DEF PlayInv
<1>9. CASE KeepTask(t)
  <2>1. /\ at[t] = "keepTask" /\ at'[t] = "keepSender" /\ feeding' = feeding \cup {mine[t]}
        /\ UNCHANGED <<stdin, sender, running, mine>>
    BY <1>9, GoesTo DEF KeepTask
  <2> QED
    BY <1>1, <1>4, <1>5, <2>1 DEF PlayInv
<1>10. CASE KeepSender(t)
  <2>1. /\ at[t] = "keepSender" /\ at'[t] = "respond" /\ sender' = mine[t]
        /\ UNCHANGED <<stdin, running, feeding>>
    BY <1>10, GoesTo DEF KeepSender
  <2>2. mine[t] # NoPlayer /\ \A u \in Tasks \ {t} : mine'[u] = mine[u]
    BY <1>10, <2>1 DEF KeepSender, PlayerTypes, MineInv, Keeping
  <2> QED
    BY <1>1, <1>4, <1>5, <2>1, <2>2 DEF PlayInv
<1> QED
  BY <1>4, <1>6, <1>7, <1>8, <1>9, <1>10 DEF StartStep

\* The step of a stop: a stop that begins while no start is under way empties the
\* slots, and leaves what agrees.
LEMMA StopKeeps ==
  ASSUME PlacesInv, PlayerTypes, SenderLockInv, PlayerInv, ~crossed',
         NEW t \in Tasks, StopStep(t)
  PROVE  IF Stopping' THEN StopInv' ELSE PlayInv'
<1>1. \A u \in Tasks \ {t} : at'[u] = at[u]
  BY DeviceGoes
<1>2. CASE TakeSender(t)
  <2>1. senderLock = Nobody /\ sender' = NoPlayer /\ at'[t] = "abortTask"
    BY <1>2, GoesTo DEF TakeSender
  <2>2. \A u \in Tasks : at[u] \notin StartPlaces
    BY <1>2 DEF TakeSender, Starting
  <2>3. \A u \in Tasks : at[u] \notin Killing
    BY <2>1, OneStop DEF Stopping
  <2>4. Stopping'
    BY <2>1 DEF Stopping, Killing
  <2>5. StopInv'
    BY <1>1, <2>1, <2>2, <2>3 DEF StopInv, StartPlaces, Killing
  <2> QED
    BY <2>4, <2>5
<1>3. ASSUME ~TakeSender(t)
      PROVE  /\ at[t] \in Killing /\ ~crossed
             /\ StopInv /\ \A u \in Tasks \ {t} : at'[u] \notin Killing \cup StartPlaces
  <2>1. at[t] \in Killing /\ ~crossed
    BY <1>3 DEF StopStep, AbortTask, CloseStdin, KillPlayer, Killing
  <2>2. StopInv
    BY <2>1 DEF PlayerInv, Stopping
  <2> QED
    BY <1>1, <2>1, <2>2, OneStop DEF StopInv
<1>4. CASE AbortTask(t)
  <2>1. at[t] = "abortTask" /\ at'[t] = "closeStdin" /\ UNCHANGED sender
    BY <1>4, GoesTo DEF AbortTask
  <2>2. ~TakeSender(t)
    BY <2>1 DEF TakeSender
  <2>3. Stopping'
    BY <2>1 DEF Stopping, Killing
  <2>4. StopInv'
    BY <1>3, <2>1, <2>2 DEF StopInv, StartPlaces, Killing
  <2> QED
    BY <2>3, <2>4
<1>5. CASE CloseStdin(t)
  <2>1. at[t] = "closeStdin" /\ at'[t] = "killPlayer" /\ UNCHANGED sender /\ stdin' = NoPlayer
    BY <1>5, GoesTo DEF CloseStdin
  <2>2. ~TakeSender(t)
    BY <2>1 DEF TakeSender
  <2>3. Stopping'
    BY <2>1 DEF Stopping, Killing
  <2>4. StopInv'
    BY <1>3, <2>1, <2>2 DEF StopInv, StartPlaces, Killing
  <2> QED
    BY <2>3, <2>4
<1>6. CASE KillPlayer(t)
  <2>1. /\ at[t] = "killPlayer" /\ at'[t] \in {"stopRecording", "spawn", "respond"}
        /\ UNCHANGED <<stdin, sender>>
    BY <1>6, GoesTo DEF KillPlayer, AfterStop
  <2>2. ~TakeSender(t)
    BY <2>1 DEF TakeSender
  <2>3. sender' = NoPlayer /\ stdin' = NoPlayer
    BY <1>3, <2>1, <2>2 DEF StopInv
  <2>4. \A u \in Tasks : at'[u] \notin Killing \cup Keeping
    BY <1>3, <2>1, <2>2 DEF Killing, Keeping, StartPlaces
  <2>5. ~Stopping'
    BY <2>4 DEF Stopping
  <2>6. PlayInv'
    BY <2>3, <2>4 DEF PlayInv, Keeping
  <2> QED
    BY <2>5, <2>6
<1> QED
  BY <1>2, <1>4, <1>5, <1>6 DEF StopStep

LEMMA PlayerStepKeeps ==
  ASSUME PlacesInv, PlayerTypes, MineInv, SenderLockInv, PlayerInv, [Next]_vars
  PROVE  PlayerInv'
<1> SUFFICES ASSUME ~crossed'
             PROVE  IF Stopping' THEN StopInv' ELSE PlayInv'
  BY DEF PlayerInv
<1>0. StartPlaces = {"spawn"} \cup Keeping
  BY DEF StartPlaces, Keeping
<1>1. CASE PlayerApart
  <2>1. \A u \in Tasks : at'[u] = at[u] \/ (at[u] \notin Held /\ at'[u] \notin Held)
    BY <1>1 DEF PlayerApart
  <2>2. Stopping' <=> Stopping
    BY <2>1 DEF Stopping, Held
  <2>3. ~crossed /\ UNCHANGED <<stdin, sender, running, feeding, mine>>
    BY <1>1 DEF PlayerApart
  <2>4. StopInv => StopInv'
    BY <1>0, <2>1, <2>3 DEF StopInv, Held, Killing
  <2>5. PlayInv => PlayInv'
    BY <2>1, <2>3 DEF PlayInv, Held, Keeping
  <2> QED
    BY <2>2, <2>3, <2>4, <2>5 DEF PlayerInv
<1>2. ASSUME NEW gone, Abort(gone)
      PROVE  IF Stopping' THEN StopInv' ELSE PlayInv'
  <2>1. ~crossed /\ senderLock \notin gone /\ \A u \in gone : mine[u] = NoPlayer
    BY <1>2 DEF Abort, DropStarts
  <2>2. gone \subseteq Tasks
    BY <1>2, MainIsOne DEF Abort
  <2>3. \A u \in gone : at[u] \notin Killing \cup Keeping
    BY <2>1, <2>2 DEF SenderLockInv, MineInv
  <2>4. {"free", "dispose", "take"} \cap (Killing \cup StartPlaces) = {}
    BY DEF Killing, StartPlaces
  <2>5. \A u \in Tasks :
          \/ at'[u] = at[u] /\ u \notin gone
          \/ at[u] \notin Killing \cup Keeping /\ at'[u] \notin Killing \cup StartPlaces
    BY <1>0, <1>2, <2>2, <2>3, <2>4 DEF Abort
  <2>6. UNCHANGED <<stdin, sender, running, feeding>>
    BY <1>2 DEF Abort, DropStarts
  <2>7. \A u \in Tasks \ gone : mine'[u] = mine[u]
    BY <1>2 DEF Abort, DropStarts
  <2>8. Stopping' <=> Stopping
    BY <2>5 DEF Stopping
  <2>9. StopInv => StopInv'
    BY <2>5, <2>6 DEF StopInv, Killing
  <2>10. PlayInv => PlayInv'
    BY <1>0, <2>5, <2>6, <2>7 DEF PlayInv, Keeping
  <2> QED
    BY <2>1, <2>8, <2>9, <2>10 DEF PlayerInv
<1>3. CASE PlayerTask /\ UNCHANGED at
  <2>1. ~crossed /\ UNCHANGED <<stdin, sender, mine>>
    BY <1>3 DEF PlayerTask, Feed, FeedEnds, PlayerEnds
  <2>2. Stopping' <=> Stopping
    BY <1>3 DEF Stopping
  <2>3. StopInv => StopInv'
    BY <1>3, <2>1 DEF StopInv
  <2>4. ASSUME PlayInv, Feed
        PROVE  PlayInv'
    <3>1. sender \in feeding /\ sender \in Players
      BY <2>4 DEF Feed, PlayerTypes
    <3>2. stdin \in Players
      BY <2>4, <3>1, PlayersAssumption DEF PlayInv, PlayerTypes
    <3>3. UNCHANGED <<running, feeding>>
      BY <2>4, <3>2, PlayersAssumption DEF Feed
    <3> QED
      BY <1>3, <2>1, <2>4, <3>3 DEF PlayInv
  <2>5. ASSUME PlayInv, NEW p \in Players, FeedEnds(p)
        PROVE  PlayInv'
    <3>1. p # sender /\ \A u \in Tasks : at[u] = "keepSender" => mine[u] # p
      BY <2>5 DEF FeedEnds, Starting, StartPlaces
    <3>2. feeding' = feeding \ {p} /\ running' = running
      BY <2>5 DEF FeedEnds
    <3> QED
      BY <1>3, <2>1, <2>5, <3>1, <3>2 DEF PlayInv
  <2>6. ASSUME PlayInv, NEW p \in Players, PlayerEnds(p)
        PROVE  PlayInv'
    <3>1. p # stdin /\ \A u \in Tasks : at[u] = "keepStdin" => mine[u] # p
      BY <2>6 DEF PlayerEnds
    <3>2. running' = running \ {p} /\ feeding' = feeding
      BY <2>6 DEF PlayerEnds
    <3> QED
      BY <1>3, <2>1, <2>6, <3>1, <3>2 DEF PlayInv
  <2> QED
    BY <1>3, <2>1, <2>2, <2>3, <2>4, <2>5, <2>6 DEF PlayerInv, PlayerTask
<1>4. CASE PlayStep
  <2>1. /\ ~crossed /\ UNCHANGED <<stdin, sender, running, feeding, mine>>
        /\ {at[Main], at'[Main]} \subseteq {"play", "enqueue", "read"}
        /\ \A u \in Tasks \ {Main} : at'[u] = at[u]
    BY <1>4, PlaysGo DEF PlayStep, PlayChunk, Enqueue
  <2>2. Stopping' <=> Stopping
    BY <2>1 DEF Stopping, Killing
  <2>3. StopInv => StopInv'
    BY <2>1 DEF StopInv, StartPlaces
  <2>4. PlayInv => PlayInv'
    BY <2>1 DEF PlayInv
  <2> QED
    BY <2>1, <2>2, <2>3, <2>4 DEF PlayerInv
<1>5. ASSUME NEW t \in Tasks, StartStep(t)
      PROVE  ~Stopping' /\ PlayInv'
  <2>1. ~crossed
    BY <1>5 DEF StartStep, CheckStart, Spawn, KeepStdin, KeepTask, KeepSender
  <2> QED
    BY <1>5, <2>1, StartKeeps
<1> QED
  BY <1>1, <1>2, <1>3, <1>4, <1>5, PlayerCases, StopKeeps

-----------------------------------------------------------------------------
(* The recorder.                                                            *)

\* A step of the player or of the network leaves the recorder and its lock alone.
LEMMA RecorderCases ==
  ASSUME PlacesInv, [Next]_vars
  PROVE  \/ /\ UNCHANGED recorderVars
            /\ \A t \in Tasks : at'[t] = at[t] \/ "killCapture" \notin {at[t], at'[t]}
         \/ \E gone : Abort(gone)
         \/ Read \/ ReaderStops
         \/ /\ reader = "sending" /\ reader' = "reading"
            /\ UNCHANGED <<at, stateLock, recording, capture, halted>>
         \/ \E t \in Tasks : RecordStep(t)
<1>1. CASE NetStep
  BY <1>1, NetGoes
<1>2. ASSUME NEW t \in Tasks, PlayerStep(t)
      PROVE  /\ UNCHANGED recorderVars
             /\ \A u \in Tasks : at'[u] = at[u] \/ "killCapture" \notin {at[u], at'[u]}
  <2>1. "killCapture" \notin {at[t], at'[t]}
    BY <1>2, GoesTo DEF PlayerStep, StartStep, StopStep, CheckStart, Spawn, KeepStdin,
       KeepTask, KeepSender, TakeSender, AbortTask, CloseStdin, KillPlayer, AfterStop
  <2> QED
    BY <1>2, <2>1, DeviceGoes DEF PlayerStep
<1>3. CASE PlayerRuns \/ UNCHANGED vars
  BY <1>3 DEF PlayerRuns, PlayerTask, Feed, FeedEnds, PlayerEnds
<1>4. CASE Play
  <2>1. UNCHANGED recorderVars /\ PlayStep
    BY <1>4 DEF Play
  <2> QED
    BY <2>1, PlaysGo
<1>5. CASE ReaderRuns \/ SendRecorded
  BY <1>5 DEF ReaderRuns, SendRecorded
<1> QED
  BY <1>1, <1>2, <1>3, <1>4, <1>5, NextCases, DisposeAborts, AbortedAborts
     DEF RecorderStep

LEMMA RecorderTypesStep ==
  ASSUME PlacesInv, RecorderTypes, [Next]_vars
  PROVE  RecorderTypes'
<1>1. ASSUME NEW gone, Abort(gone)
      PROVE  RecorderTypes'
  BY <1>1 DEF Abort, DropStops, RecorderTypes
<1>2. CASE Read \/ ReaderStops
  BY <1>2 DEF Read, ReaderStops, RecorderTypes, Readers
<1>3. ASSUME NEW t \in Tasks, RecordStep(t)
      PROVE  RecorderTypes'
  BY <1>3 DEF RecordStep, StartRecording, StopRecording, KillCapture, RecorderTypes, Readers
<1>4. CASE UNCHANGED recorderVars
  BY <1>4 DEF RecorderTypes
<1>5. CASE reader' = "reading" /\ UNCHANGED <<stateLock, recording, capture, halted>>
  BY <1>5 DEF RecorderTypes, Readers
<1> QED
  BY <1>1, <1>2, <1>3, <1>4, <1>5, RecorderCases

LEMMA RecordStepKeeps ==
  ASSUME PlacesInv, RecorderTypes, StateLockInv, RecordInv, [Next]_vars
  PROVE  StateLockInv' /\ RecordInv'
<1>0. Nobody \notin Tasks
  BY TasksAssumption DEF Tasks
<1>1. CASE /\ UNCHANGED recorderVars
           /\ \A t \in Tasks : at'[t] = at[t] \/ "killCapture" \notin {at[t], at'[t]}
  BY <1>1 DEF StateLockInv, RecordInv
<1>2. ASSUME NEW gone, Abort(gone)
      PROVE  StateLockInv' /\ RecordInv'
  <2>1. gone \subseteq Tasks
    BY <1>2, MainIsOne DEF Abort
  <2>2. \A t \in Tasks : \/ at'[t] = at[t] /\ t \notin gone
                         \/ at'[t] # "killCapture" /\ t \in gone
                         \/ "killCapture" \notin {at[t], at'[t]} /\ t \notin gone
    BY <1>2 DEF Abort
  <2>3. /\ stateLock' = IF stateLock \in gone THEN Nobody ELSE stateLock
        /\ UNCHANGED <<recording, capture, reader>>
    BY <1>2 DEF Abort, DropStops
  <2>4. StateLockInv'
    BY <1>0, <2>1, <2>2, <2>3 DEF StateLockInv
  <2>5. ~halted' => ~halted /\ stateLock \notin gone
    BY <1>2 DEF Abort, DropStops
  <2>6. RecordInv'
    BY <2>3, <2>5 DEF RecordInv
  <2> QED
    BY <2>4, <2>6
<1>3. CASE Read
  BY <1>3 DEF Read, StateLockInv, RecordInv
<1>4. CASE ReaderStops
  <2>1. StateLockInv'
    BY <1>4 DEF ReaderStops, StateLockInv
  <2>2. /\ reader' = "none" /\ ~capture' /\ stateLock' = Nobody
        /\ ~halted' => ~recording'
    BY <1>4 DEF ReaderStops
  <2>3. RecordInv'
    BY <2>2 DEF RecordInv
  <2> QED
    BY <2>1, <2>3
<1>5. CASE /\ reader = "sending" /\ reader' = "reading"
           /\ UNCHANGED <<at, stateLock, recording, capture, halted>>
  BY <1>5 DEF StateLockInv, RecordInv
<1>6. ASSUME NEW t \in Tasks, RecordStep(t)
      PROVE  StateLockInv' /\ RecordInv'
  <2>1. \A u \in Tasks \ {t} : at'[u] = at[u]
    BY <1>6, DeviceGoes
  <2>2. CASE StartRecording(t)
    <3>1. /\ at[t] = "startRecording" /\ at'[t] = "respond"
          /\ UNCHANGED <<stateLock, halted>>
      BY <2>2, GoesTo DEF StartRecording
    <3>2. StateLockInv'
      BY <2>1, <3>1 DEF StateLockInv
    <3>3. stateLock = Nobody /\ (\/ UNCHANGED <<recording, capture, reader>>
                                 \/ recording' /\ capture' /\ reader' = "reading")
      BY <2>2 DEF StartRecording
    <3>4. RecordInv'
      BY <3>1, <3>3 DEF RecordInv
    <3> QED
      BY <3>2, <3>4
  <2>3. CASE StopRecording(t) /\ ~recording
    <3>1. at[t] = "stopRecording" /\ at'[t] # "killCapture" /\ UNCHANGED recorderVars
      BY <2>3, GoesTo DEF StopRecording, AfterStopRecording
    <3> QED
      BY <2>1, <3>1 DEF StateLockInv, RecordInv
  <2>4. CASE StopRecording(t) /\ recording
    <3>1. /\ stateLock = Nobody /\ stateLock' = t /\ at'[t] = "killCapture"
          /\ reader' = "none" /\ ~capture' /\ UNCHANGED recording
      BY <2>4, GoesTo DEF StopRecording
    <3>2. StateLockInv'
      BY <1>0, <2>1, <3>1 DEF StateLockInv
    <3>3. RecordInv'
      BY <1>0, <2>4, <3>1 DEF RecordInv
    <3> QED
      BY <3>2, <3>3
  <2>5. CASE KillCapture(t)
    <3>1. /\ at[t] = "killCapture" /\ at'[t] # "killCapture" /\ stateLock' = Nobody
          /\ ~recording' /\ UNCHANGED <<capture, reader>>
      BY <2>5, GoesTo DEF KillCapture, AfterStopRecording
    <3>2. stateLock = t
      BY <3>1 DEF StateLockInv
    <3>3. StateLockInv'
      BY <1>0, <2>1, <3>1, <3>2 DEF StateLockInv
    <3>4. RecordInv'
      BY <1>0, <3>1, <3>2 DEF RecordInv
    <3> QED
      BY <3>3, <3>4
  <2> QED
    BY <1>6, <2>2, <2>3, <2>4, <2>5 DEF RecordStep
<1> QED
  BY <1>1, <1>2, <1>3, <1>4, <1>5, <1>6, RecorderCases

-----------------------------------------------------------------------------
(* The connection.                                                          *)

\* The handlers busy after a step of the network were so before, unless the main
\* task is reading; it leaves its disposal by a connection only.
LEMMA NetBusy ==
  ASSUME PlacesInv, NetStep
  PROVE  /\ \/ at'[Main] = at[Main] /\ monitors' = monitors
            \/ at'[Main] \in {"read", "permit", "play", "dispose"}
            \/ at[Main] = "stopMonitors" /\ at'[Main] = "connect" /\ ~monitors'
         /\ outran' = outran
         /\ at'[Main] \in Disposing =>
              \A h \in Handlers : (h \in Busy' => h \in Busy)
                                /\ (h \in doomed /\ h \notin doomed' => h \notin Busy')
<1>0. {"read", "permit", "play", "dispose"} \cap Disposing = {}
  BY DEF Disposing, Killing
<1>1. CASE ServerSends \/ ServerReads \/ ConnectionLost \/ SendEvent
  BY <1>1 DEF ServerSends, ServerReads, ConnectionLost, SendEvent, Busy
<1>2. CASE Connect \/ AwaitPermit \/ ReadStream \/ NoticeLoss
  <2>1. at'[Main] \in {"read", "permit", "play", "dispose"} /\ outran' = outran
    BY <1>2, MainIsOne, GoesTo DEF Connect, AwaitPermit, ReadStream, NoticeLoss
  <2> QED
    BY <1>0, <2>1
<1>3. CASE StopMonitors
  <2>1. /\ at[Main] = "stopMonitors" /\ at'[Main] = "connect" /\ ~monitors'
        /\ outran' = outran /\ doomed' = doomed
        /\ \A h \in Handlers : at'[h] = at[h]
    BY <1>3, MainIsOne, GoesTo DEF StopMonitors
  <2> QED
    BY <2>1 DEF Busy
<1>4. ASSUME NEW g \in Handlers, Respond(g)
      PROVE  /\ at'[Main] = at[Main] /\ monitors' = monitors /\ outran' = outran
             /\ \A h \in Handlers : (h \in Busy' => h \in Busy)
                                /\ (h \in doomed /\ h \notin doomed' => h \notin Busy')
  <2>1. /\ at[g] = "respond" /\ at'[g] = "free" /\ doomed' = doomed \ {g}
        /\ \A u \in Tasks \ {g} : at'[u] = at[u]
    BY <1>4, MainIsOne, GoesTo DEF Respond
  <2> QED
    BY <1>4, <2>1, MainIsOne DEF Respond, Busy
<1>5. ASSUME NEW g \in Handlers, Shell(g)
      PROVE  /\ at'[Main] = at[Main] /\ monitors' = monitors /\ outran' = outran
             /\ \A h \in Handlers : (h \in Busy' => h \in Busy)
                                /\ (h \in doomed /\ h \notin doomed' => h \notin Busy')
  <2>1. /\ at[g] = "shell" /\ at'[g] = "respond" /\ doomed' = doomed
        /\ \A u \in Tasks \ {g} : at'[u] = at[u]
    BY <1>5, MainIsOne, GoesTo DEF Shell
  <2> QED
    BY <1>5, <2>1, MainIsOne DEF Shell, Busy
<1>6. ASSUME NEW g \in Handlers, Accept(g)
      PROVE  at'[Main] = "read" /\ outran' = outran
  BY <1>6, MainIsOne DEF Accept, PlacesInv
<1> QED
  BY <1>0, <1>1, <1>2, <1>3, <1>4, <1>5, <1>6 DEF NetStep

\* A task inside the player or the recorder is no free handler; the main task is
\* there only to dispose of them.
LEMMA DeviceBusy ==
  ASSUME PlacesInv, NEW t \in Tasks, StartStep(t) \/ StopStep(t) \/ RecordStep(t)
  PROVE  /\ t \in Handlers => t \in Busy
         /\ t = Main => at[Main] \in Disposing /\ ~StartStep(t) /\ ~StartRecording(t)
         /\ t = Main => at'[Main] # "connect"
<1>1. at[t] \notin {"free", "connect"}
  BY DEF StartStep, StopStep, RecordStep, CheckStart, Spawn, KeepStdin, KeepTask, KeepSender,
     TakeSender, AbortTask, CloseStdin, KillPlayer, StartRecording, StopRecording, KillCapture
<1>2. StartStep(t) => at[t] \in {"checkStart"} \cup StartPlaces
  BY DEF StartStep, CheckStart, Spawn, KeepStdin, KeepTask, KeepSender, StartPlaces
<1>3. StartRecording(t) => at[t] = "startRecording"
  BY DEF StartRecording
<1>4. StopStep(t) \/ StopRecording(t) \/ KillCapture(t) => at[t] \in Disposing
  BY DEF StopStep, TakeSender, AbortTask, CloseStdin, KillPlayer, StopRecording, KillCapture,
     Disposing, Killing
<1>5. t = Main => ~StartStep(t) /\ ~StartRecording(t)
  BY <1>2, <1>3 DEF PlacesInv, MainPlaces, StartPlaces, StopPlaces
<1>6. StopStep(t) \/ RecordStep(t) => at'[t] # "connect"
  BY GoesTo DEF StopStep, TakeSender, AbortTask, CloseStdin, KillPlayer, RecordStep,
     StartRecording, StopRecording, KillCapture, AfterStop, AfterStopRecording
<1> QED
  BY <1>1, <1>4, <1>5, <1>6 DEF Busy, RecordStep

LEMMA DisposeStep ==
  ASSUME PlacesInv, DisposeInv, [Next]_vars
  PROVE  DisposeInv'
<1>1. CASE NetStep
  <2>1. at'[Main] \in Disposing => at[Main] \in Disposing
    BY <1>1, NetBusy DEF Disposing, Killing
  <2>2. ASSUME at'[Main] \in Disposing, NEW h \in Busy'
        PROVE  h \in doomed'
    <3>1. h \in Handlers
      BY <2>2 DEF Busy
    <3> QED
      BY <1>1, <2>1, <2>2, <3>1, NetBusy DEF DisposeInv
  <2>3. at'[Main] = "connect" => ~monitors'
    BY <1>1, NetBusy DEF DisposeInv
  <2> QED
    BY <2>2, <2>3 DEF DisposeInv
<1>2. CASE Dispose
  <2>1. at'[Main] = "take"
    BY <1>2, MainIsOne DEF Dispose
  <2> QED
    BY <1>2, <2>1, DisposeAborts DEF DisposeInv
<1>3. ASSUME NEW h \in Handlers, Aborted(h)
      PROVE  DisposeInv'
  <2>1. /\ at'[h] = "free" /\ doomed' = doomed \ {h} /\ monitors' = monitors
        /\ \A u \in Tasks \ {h} : at'[u] = at[u]
    BY <1>3, MainIsOne, GoesTo DEF Aborted
  <2> QED
    BY <2>1, MainIsOne DEF DisposeInv, Busy
<1>4. CASE PlayerRuns \/ ReaderRuns \/ SendRecorded \/ UNCHANGED vars
  <2>1. UNCHANGED <<at, doomed, monitors>>
    BY <1>4 DEF PlayerRuns, PlayerTask, Feed, FeedEnds, PlayerEnds, ReaderRuns, Read,
       ReaderStops, SendRecorded
  <2> QED
    BY <2>1 DEF DisposeInv, Busy
<1>5. CASE Play
  <2>1. at'[Main] \in {"read", "enqueue"}
    BY <1>5, PlaysGo DEF Play
  <2> QED
    BY <2>1 DEF DisposeInv, Disposing, Killing
<1>6. ASSUME NEW t \in Tasks, PlayerStep(t) \/ RecorderStep(t)
      PROVE  DisposeInv'
  <2>1. StartStep(t) \/ StopStep(t) \/ RecordStep(t)
    BY <1>6 DEF PlayerStep, RecorderStep
  <2>2. doomed' = doomed /\ monitors' = monitors
    BY <1>6 DEF PlayerStep, RecorderStep
  <2>3. \A u \in Tasks \ {t} : at'[u] = at[u]
    BY <2>1, DeviceGoes
  <2>4. CASE t = Main
    <3>1. at[Main] \in Disposing /\ at'[Main] # "connect"
      BY <2>1, <2>4, DeviceBusy
    <3>2. Busy' = Busy
      BY <2>3, <2>4, MainIsOne DEF Busy
    <3> QED
      BY <2>2, <3>1, <3>2 DEF DisposeInv
  <2>5. CASE t # Main
    <3>1. t \in Busy /\ t \in Handlers
      BY <2>1, <2>5, DeviceBusy DEF Tasks
    <3>2. Busy' \subseteq Busy
      BY <2>3, <3>1, MainIsOne DEF Busy
    <3> QED
      BY <2>2, <2>3, <2>5, <3>2, MainIsOne DEF DisposeInv
  <2> QED
    BY <2>4, <2>5
<1> QED
  BY <1>1, <1>2, <1>3, <1>4, <1>5, <1>6, NextCases

LEMMA EmptiedStep ==
  ASSUME PlacesInv, StateLockInv, RecordInv, DisposeInv, EmptiedInv, [Next]_vars
  PROVE  EmptiedInv'
<1> SUFFICES ASSUME ~outran', at'[Main] \in Disposing
             PROVE  Emptied'
  BY DEF EmptiedInv, Emptied, Disposing
<1>1. CASE NetStep
  <2>1. Emptied
    BY <1>1, NetBusy DEF EmptiedInv
  <2>2. UNCHANGED <<aplay, stdin, task, sender, recording, reader>>
    BY <1>1, NetGoes
  <2>3. at'[Main] = at[Main] \/ (at[Main] = "stopMonitors" /\ at'[Main] = "connect")
    BY <1>1, NetBusy DEF Disposing, Killing
  <2> QED
    BY <2>1, <2>2, <2>3 DEF Emptied, Disposing, Killing
<1>2. CASE Dispose
  <2>1. at'[Main] = "take"
    BY <1>2, MainIsOne DEF Dispose
  <2> QED
    BY <2>1 DEF Emptied, Killing
<1>3. CASE (\E h \in Handlers : Aborted(h)) \/ PlayerRuns \/ UNCHANGED vars
  <2>1. UNCHANGED <<aplay, stdin, task, sender, recording, reader, outran>>
    BY <1>3 DEF Aborted, DropStarts, DropStops, PlayerRuns, PlayerTask, Feed, FeedEnds, PlayerEnds
  <2>2. at'[Main] = at[Main]
    BY <1>3, AbortedAborts DEF PlayerRuns, PlayerTask, Feed, FeedEnds, PlayerEnds
  <2> QED
    BY <2>1, <2>2 DEF EmptiedInv, Emptied
<1>4. CASE ReaderRuns \/ SendRecorded
  <2>1. UNCHANGED <<at, aplay, stdin, task, sender, outran>> /\ reader # "none"
    BY <1>4 DEF ReaderRuns, Read, ReaderStops, SendRecorded
  <2> QED
    BY <2>1 DEF EmptiedInv, Emptied
<1>5. CASE Play
  <2>1. at'[Main] \in {"read", "enqueue"}
    BY <1>5, PlaysGo DEF Play
  <2> QED
    BY <2>1 DEF Disposing, Killing
<1>6. ASSUME NEW t \in Tasks, PlayerStep(t) \/ RecorderStep(t)
      PROVE  Emptied'
  <2>1. StartStep(t) \/ StopStep(t) \/ RecordStep(t)
    BY <1>6 DEF PlayerStep, RecorderStep
  <2>2. ~outran /\ t \notin doomed
    BY <1>6 DEF PlayerStep, RecorderStep
  <2>3. Emptied
    BY <2>2 DEF EmptiedInv
  <2>4. t = Main
    <3>1. SUFFICES ASSUME t \in Handlers PROVE FALSE
      BY DEF Tasks
    <3>2. at'[Main] = at[Main]
      BY <2>1, <3>1, MainIsOne, DeviceGoes
    <3>3. t \in Busy
      BY <2>1, <3>1, DeviceBusy
    <3> QED
      BY <2>2, <3>2, <3>3 DEF DisposeInv
  <2>5. StopStep(Main) \/ StopRecording(Main) \/ KillCapture(Main)
    BY <2>1, <2>4, DeviceBusy DEF RecordStep
  <2>6. CASE StopStep(Main)
    <3>1. AfterStop(Main) = "stopRecording"
      BY DEF AfterStop
    <3>2. CASE TakeSender(Main)
      <4>1. at'[Main] = "abortTask" /\ sender' = NoPlayer
        BY <3>2, MainIsOne, GoesTo DEF TakeSender
      <4> QED
        BY <4>1 DEF Emptied, Killing
    <3>3. CASE AbortTask(Main)
      <4>1. /\ at[Main] = "abortTask" /\ at'[Main] = "closeStdin" /\ task' = NoPlayer
            /\ UNCHANGED sender
        BY <3>3, MainIsOne, GoesTo DEF AbortTask
      <4> QED
        BY <2>3, <4>1 DEF Emptied, Disposing, Killing
    <3>4. CASE CloseStdin(Main)
      <4>1. /\ at[Main] = "closeStdin" /\ at'[Main] = "killPlayer" /\ stdin' = NoPlayer
            /\ UNCHANGED <<sender, task>>
        BY <3>4, MainIsOne, GoesTo DEF CloseStdin
      <4> QED
        BY <2>3, <4>1 DEF Emptied, Disposing, Killing
    <3>5. CASE KillPlayer(Main)
      <4>1. /\ at[Main] = "killPlayer" /\ at'[Main] = "stopRecording" /\ aplay' = NoPlayer
            /\ UNCHANGED <<sender, task, stdin>>
        BY <3>1, <3>5, MainIsOne, GoesTo DEF KillPlayer
      <4> QED
        BY <2>3, <4>1 DEF Emptied, Disposing, Killing
    <3> QED
      BY <2>6, <3>2, <3>3, <3>4, <3>5 DEF StopStep
  <2>7. CASE StopRecording(Main) \/ KillCapture(Main)
    <3>1. UNCHANGED <<aplay, stdin, task, sender>>
      BY <1>6, <2>4, <2>7, MainIsOne, GoesTo DEF PlayerStep, RecorderStep, StartStep, StopStep,
         CheckStart, Spawn, KeepStdin, KeepTask, KeepSender, TakeSender, AbortTask, CloseStdin,
         KillPlayer, StopRecording, KillCapture
    <3>2. at[Main] \in {"stopRecording", "killCapture"}
      BY <2>7 DEF StopRecording, KillCapture
    <3>3. sender = NoPlayer /\ task = NoPlayer /\ stdin = NoPlayer /\ aplay = NoPlayer
      BY <2>3, <3>2 DEF Emptied, Disposing, Killing
    <3>4. at'[Main] \in {"stopMonitors", "connect"} => ~recording' /\ reader' = "none"
      <4>1. CASE StopRecording(Main) /\ ~recording
        BY <4>1 DEF StopRecording, RecordInv
      <4>2. CASE StopRecording(Main) /\ recording
        BY <4>2, MainIsOne, GoesTo DEF StopRecording
      <4>3. CASE KillCapture(Main)
        <5>1. stateLock = Main
          BY <4>3, MainIsOne DEF KillCapture, StateLockInv
        <5>2. reader = "none"
          BY <5>1, TasksAssumption DEF RecordInv
        <5> QED
          BY <4>3, <5>2 DEF KillCapture
      <4> QED
        BY <2>7, <4>1, <4>2, <4>3
    <3> QED
      BY <3>1, <3>3, <3>4 DEF Emptied
  <2> QED
    BY <2>5, <2>6, <2>7
<1> QED
  BY <1>1, <1>2, <1>3, <1>4, <1>5, <1>6, NextCases

LEMMA NetTypesStep ==
  ASSUME PlacesInv, NetTypes, [Next]_vars
  PROVE  NetTypes'
<1>1. ASSUME UNCHANGED inbox PROVE inbox' \in Seq(Messages)
  BY <1>1 DEF NetTypes
<1>2. inbox' \in Seq(Messages)
  <2>1. CASE ServerSends
    BY <2>1, AppendProperties DEF ServerSends, NetTypes
  <2>2. CASE ReadStream \/ \E h \in Handlers : Accept(h)
    BY <2>2, HeadTailProperties DEF ReadStream, Accept, NetTypes
  <2>3. CASE Dispose
    BY <2>3, EmptySeq DEF Dispose
  <2>4. ServerSends \/ ReadStream \/ (\E h \in Handlers : Accept(h)) \/ Dispose \/ UNCHANGED inbox
    BY NextCases DEF NetStep, ServerReads, ConnectionLost, Connect, AwaitPermit, NoticeLoss,
       StopMonitors, SendEvent, Respond, Shell, PlayerRuns, ReaderRuns, SendRecorded, Play,
       Aborted, PlayerStep, RecorderStep
  <2> QED
    BY <1>1, <2>1, <2>2, <2>3, <2>4
<1>3. conn' \in {"none", "up", "lost"}
  BY NextCases DEF NetTypes, NetStep, ServerSends, ServerReads, ConnectionLost, Connect,
     AwaitPermit, ReadStream, Accept, NoticeLoss, StopMonitors, SendEvent, Respond, Shell,
     PlayerRuns, ReaderRuns, SendRecorded, Play, Aborted, PlayerStep, RecorderStep, Dispose
<1>4. doomed' \subseteq Handlers
  BY NextCases DEF NetTypes, NetStep, ServerSends, ServerReads, ConnectionLost, Connect,
     AwaitPermit, ReadStream, Accept, NoticeLoss, StopMonitors, SendEvent, Respond, Shell,
     PlayerRuns, ReaderRuns, SendRecorded, Play, Aborted, PlayerStep, RecorderStep, Dispose, Busy
<1>5. monitors' \in BOOLEAN
  <2>1. monitors' = monitors \/ monitors' = TRUE \/ monitors' = FALSE
    BY NextCases DEF NetStep, ServerSends, ServerReads, ConnectionLost, Connect,
       AwaitPermit, ReadStream, Accept, NoticeLoss, StopMonitors, SendEvent, Respond, Shell,
       PlayerRuns, ReaderRuns, SendRecorded, Play, Aborted, PlayerStep, RecorderStep, Dispose
  <2> QED
    BY <2>1 DEF NetTypes
<1>6. outran' \in BOOLEAN
  <2>1. outran' = outran \/ \E t \in Tasks : outran' = (outran \/ t \in doomed)
    BY NextCases DEF NetStep, ServerSends, ServerReads, ConnectionLost, Connect,
       AwaitPermit, ReadStream, Accept, NoticeLoss, StopMonitors, SendEvent, Respond, Shell,
       PlayerRuns, ReaderRuns, SendRecorded, Play, Aborted, PlayerStep, RecorderStep, Dispose
  <2> QED
    BY <2>1 DEF NetTypes
<1> QED
  BY <1>2, <1>3, <1>4, <1>5, <1>6 DEF NetTypes

LEMMA BoundsStep ==
  ASSUME PlacesInv, NetTypes, Bounds, [Next]_vars
  PROVE  Bounds'
<1> USE SessionAssumption, MaxChunksAssumption
<1>1. chunks' \in 0..MaxChunks
  <2>1. \/ chunks' \in {chunks, 0}
        \/ chunks < MaxChunks /\ chunks' = chunks + 1
        \/ chunks > 0 /\ chunks' = chunks - 1
    <3>1. CASE NetStep \/ Dispose \/ \E h \in Handlers : Aborted(h)
      BY <3>1, NetGoes DEF Dispose, Aborted, DropStarts
    <3>2. CASE PlayerRuns \/ ReaderRuns \/ SendRecorded \/ Play \/ UNCHANGED vars
      BY <3>2 DEF PlayerRuns, PlayerTask, Feed, FeedEnds, PlayerEnds, ReaderRuns, SendRecorded,
         Play, PlayStep, PlayChunk, Enqueue
    <3>3. ASSUME NEW t \in Tasks, PlayerStep(t) \/ RecorderStep(t)
          PROVE  chunks' \in {chunks, 0}
      BY <3>3 DEF PlayerStep, RecorderStep, StartStep, StopStep, CheckStart, Spawn, KeepStdin,
         KeepTask, KeepSender, TakeSender, AbortTask, CloseStdin, KillPlayer
    <3> QED
      BY <3>1, <3>2, <3>3, NextCases
  <2> QED
    BY <2>1 DEF Bounds
<1>2. session' \in 0..MaxSessions
  <2>1. session' = session \/ (session < MaxSessions /\ session' = session + 1)
    BY NextCases DEF NetStep, ServerSends, ServerReads, ConnectionLost, Connect,
       AwaitPermit, ReadStream, Accept, NoticeLoss, StopMonitors, SendEvent, Respond, Shell,
       PlayerRuns, ReaderRuns, SendRecorded, Play, Aborted, PlayerStep, RecorderStep, Dispose
  <2> QED
    BY <2>1 DEF Bounds
<1>3. messages' \in 0..MaxMessages
  <2>1. messages' = messages \/ (messages < MaxMessages /\ messages' = messages + 1)
    BY NextCases DEF NetStep, ServerSends, ServerReads, ConnectionLost, Connect,
       AwaitPermit, ReadStream, Accept, NoticeLoss, StopMonitors, SendEvent, Respond, Shell,
       PlayerRuns, ReaderRuns, SendRecorded, Play, Aborted, PlayerStep, RecorderStep, Dispose
  <2> QED
    BY <2>1 DEF Bounds
<1>4. unsent' \in 0..Capacity
  <2>1. \/ unsent' \in {unsent, 0}
        \/ unsent > 0 /\ unsent' = unsent - 1
        \/ unsent < Capacity /\ unsent' = unsent + 1
    BY NextCases DEF NetStep, ServerSends, ServerReads, ConnectionLost, Connect,
       AwaitPermit, ReadStream, Accept, NoticeLoss, StopMonitors, SendEvent, Respond, Shell,
       PlayerRuns, ReaderRuns, SendRecorded, Play, Aborted, PlayerStep, RecorderStep, Dispose,
       CanSend
  <2> QED
    BY <2>1 DEF Bounds
<1>5. Len(inbox') <= MaxInbox
  <2>1. Len(inbox) \in Nat /\ Len(inbox) <= MaxInbox
    BY LenProperties DEF NetTypes, Bounds
  <2>2. CASE ServerSends
    <3>1. Len(inbox') = Len(inbox) + 1 /\ Len(inbox) < MaxInbox
      BY <2>2, AppendProperties DEF ServerSends, NetTypes
    <3> QED
      BY <2>1, <3>1
  <2>3. CASE ReadStream \/ \E h \in Handlers : Accept(h)
    <3>1. Len(inbox') = Len(inbox) - 1
      BY <2>3, HeadTailProperties DEF ReadStream, Accept, NetTypes
    <3> QED
      BY <2>1, <3>1
  <2>4. CASE Dispose
    <3>1. Len(inbox') = 0
      BY <2>4 DEF Dispose
    <3> QED
      BY <3>1
  <2>5. ServerSends \/ ReadStream \/ (\E h \in Handlers : Accept(h)) \/ Dispose \/ UNCHANGED inbox
    BY NextCases DEF NetStep, ServerReads, ConnectionLost, Connect, AwaitPermit, NoticeLoss,
       StopMonitors, SendEvent, Respond, Shell, PlayerRuns, ReaderRuns, SendRecorded, Play,
       Aborted, PlayerStep, RecorderStep
  <2> QED
    BY <2>1, <2>2, <2>3, <2>4, <2>5
<1> QED
  BY <1>1, <1>2, <1>3, <1>4, <1>5 DEF Bounds

-----------------------------------------------------------------------------
(* The theorems.                                                            *)

IInv ==
  /\ PlacesInv /\ PlayerTypes /\ RecorderTypes /\ NetTypes /\ Bounds
  /\ MineInv /\ SenderLockInv /\ PlayerInv
  /\ StateLockInv /\ RecordInv
  /\ DisposeInv /\ EmptiedInv

LEMMA InitIInv == Init => IInv
<1> SUFFICES ASSUME Init PROVE IInv
  OBVIOUS
<1>1. \A t \in Tasks : at[t] = IF t = Main THEN "connect" ELSE "free"
  BY DEF Init
<1>2. at[Main] = "connect" /\ \A h \in Handlers : at[h] = "free"
  BY <1>1, MainIsOne
<1>3. PlacesInv
  BY <1>2 DEF Init, PlacesInv, Places, MainPlaces, HandlerPlaces
<1>4. PlayerTypes
  BY DEF Init, PlayerInit, PlayerTypes
<1>5. RecorderTypes
  BY DEF Init, RecorderInit, RecorderTypes, Readers
<1>6. NetTypes
  <2>1. inbox \in Seq(Messages)
    BY EmptySeq DEF Init
  <2> QED
    BY <2>1 DEF Init, NetTypes
<1>7. Bounds
  <2>1. Len(inbox) = 0
    BY DEF Init
  <2> QED
    BY <2>1, SessionAssumption, MaxChunksAssumption DEF Init, PlayerInit, Bounds
<1>8. \A t \in Tasks : at[t] \in {"connect", "free"}
  BY <1>1
<1>9. Nobody \notin Tasks
  BY TasksAssumption DEF Tasks
<1>10. MineInv /\ SenderLockInv /\ StateLockInv
  BY <1>8, <1>9 DEF Init, PlayerInit, RecorderInit, MineInv, SenderLockInv, StateLockInv,
     Keeping, Killing
<1>11. ~Stopping
  BY <1>8 DEF Stopping, Killing
<1>12. PlayInv
  BY <1>8 DEF Init, PlayerInit, PlayInv
<1>13. RecordInv
  BY DEF Init, RecorderInit, RecordInv
<1>14. DisposeInv /\ Emptied
  BY <1>2 DEF Init, PlayerInit, RecorderInit, DisposeInv, Emptied, Busy
<1> QED
  BY <1>3, <1>4, <1>5, <1>6, <1>7, <1>10, <1>11, <1>12, <1>13, <1>14
     DEF IInv, PlayerInv, EmptiedInv

LEMMA IInvAlways == Spec => []IInv
<1>1. IInv /\ [Next]_vars => IInv'
  <2> SUFFICES ASSUME IInv, [Next]_vars PROVE IInv'
    OBVIOUS
  <2>1. PlacesInv' /\ PlayerTypes' /\ RecorderTypes' /\ NetTypes' /\ Bounds'
    BY PlacesStep, PlayerTypesStep, RecorderTypesStep, NetTypesStep, BoundsStep DEF IInv
  <2>2. MineInv' /\ SenderLockInv' /\ PlayerInv'
    BY LocksStep, PlayerStepKeeps DEF IInv
  <2>3. StateLockInv' /\ RecordInv'
    BY RecordStepKeeps DEF IInv
  <2>4. DisposeInv' /\ EmptiedInv'
    BY DisposeStep, EmptiedStep DEF IInv
  <2> QED
    BY <2>1, <2>2, <2>3, <2>4 DEF IInv
<1> QED
  BY <1>1, InitIInv, PTL DEF Spec

\* The variables of the client keep their types and stay within the capacities of
\* the channel and of the connection.
THEOREM TypeCorrect == Spec => []TypeOK
<1>1. IInv => TypeOK
  <2> SUFFICES ASSUME IInv PROVE TypeOK
    OBVIOUS
  <2>1. {crossed, recording, capture, halted, monitors, outran} \subseteq BOOLEAN
    BY DEF IInv, PlayerTypes, RecorderTypes, NetTypes
  <2>2. {senderLock, stateLock} \subseteq Tasks \cup {Nobody}
    BY DEF IInv, PlayerTypes, RecorderTypes
  <2> QED
    BY <2>1, <2>2 DEF IInv, PlacesInv, PlayerTypes, RecorderTypes, NetTypes, Bounds, TypeOK
<1> QED
  BY <1>1, IInvAlways, PTL

\* The four slots of the player agree when no start or stop is half-way, however
\* the starts and stops of the handlers and the main task interleave, unless a stop
\* crossed a start or one of them was aborted (AudioPlayer::start, stop).
THEOREM PlayerAgreesAlways == Spec => []PlayerAgrees
<1>1. IInv => PlayerAgrees
  <2> SUFFICES ASSUME IInv, PlayerQuiet, ~crossed
               PROVE  /\ sender # NoPlayer => sender \in feeding /\ stdin \in running
                      /\ sender = NoPlayer => stdin = NoPlayer
    BY DEF PlayerAgrees
  <2>1. \A t \in Tasks : at[t] \notin Killing \cup Keeping
    BY DEF PlayerQuiet, StartPlaces, StopPlaces, Killing, Keeping
  <2>2. ~Stopping
    BY <2>1 DEF Stopping
  <2>3. PlayInv
    BY <2>2 DEF IInv, PlayerInv
  <2> QED
    BY <2>1, <2>3 DEF PlayInv, Keeping
<1> QED
  BY <1>1, IInvAlways, PTL

\* The state of the recorder says whether there is a capture and a reader, unless a
\* stop was cut short (AudioRecorder::start_recording, stop_recording).
THEOREM RecorderAgreesAlways == Spec => []RecorderAgrees
<1>1. IInv => RecorderAgrees
  BY DEF IInv, RecordInv, RecorderAgrees
<1> QED
  BY <1>1, IInvAlways, PTL

\* When the main task is about to connect, no handler, device or monitor of the lost
\* connection goes on, but for a handler that outruns its abort
\* (MessageManager::dispose and the dispose of the client).
THEOREM QuietWhenDisconnectedAlways == Spec => []QuietWhenDisconnected
<1>1. IInv => QuietWhenDisconnected
  <2> SUFFICES ASSUME IInv, at[Main] = "connect"
               PROVE  Busy \subseteq doomed /\ ~monitors /\ (outran \/ DevicesQuiet)
    BY DEF QuietWhenDisconnected
  <2>1. Busy \subseteq doomed /\ ~monitors
    BY DEF IInv, DisposeInv, Disposing
  <2>2. ASSUME ~outran
        PROVE  DevicesQuiet
    BY <2>2 DEF IInv, EmptiedInv, Emptied, Disposing, Killing, DevicesQuiet
  <2> QED
    BY <2>1, <2>2
<1> QED
  BY <1>1, IInvAlways, PTL
=============================================================================

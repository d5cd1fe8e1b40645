-------------------------------- MODULE Session --------------------------------
(***************************************************************************)
(* The client of bin/client.rs and its message layer: the main task        *)
(* connects to the server, starts the monitors, reads messages until the   *)
(* connection is lost, and disposes of everything before it connects       *)
(* again.  Each request runs in a handler of its own (services/connect/    *)
(* message.rs); the handlers operate the player and the recorder.          *)
(***************************************************************************)
EXTENDS RemotePlayer, Recorder, Sequences, FiniteSets

CONSTANTS
  Capacity,      \* messages the connection takes while the server reads none
  MaxInbox,      \* messages the server may be ahead by
  MaxMessages,   \* bound: messages of the server in a behaviour
  MaxSessions    \* bound: connections in a behaviour

ASSUME SessionAssumption ==
  Capacity \in Nat \ {0} /\ MaxInbox \in Nat \ {0} /\ {MaxMessages, MaxSessions} \subseteq Nat

VARIABLES
  conn,      \* the connection: "none", "up", or "lost" and not noticed yet
  session,   \* the number of connections made
  inbox,     \* messages of the server not yet read
  unsent,    \* messages of the client the server has not read
  messages,  \* messages the server has sent
  doomed,    \* handlers that are aborted while they run on another thread
  monitors,  \* the monitors of the playing state and of the wake word run
  outran     \* history: such a handler went on past the abort

netVars == <<conn, session, inbox, unsent, messages>>
vars == <<at, playerVars, recorderVars, netVars, doomed, monitors, outran>>

Commands ==
  {"get_version", "run_shell", "start_play", "stop_play", "start_recording", "stop_recording"}
Messages == Commands \cup {"stream"}

TypeOK ==
  /\ at \in [Tasks -> Places]
  /\ {aplay, stdin, task, sender} \subseteq Players \cup {NoPlayer}
  /\ running \subseteq Players /\ feeding \subseteq Players /\ chunks \in 0..MaxChunks
  /\ mine \in [Tasks -> Players \cup {NoPlayer}] /\ restarting \subseteq Handlers
  /\ {senderLock, stateLock} \subseteq Tasks \cup {Nobody}
  /\ {crossed, recording, capture, halted, monitors, outran} \subseteq BOOLEAN
  /\ reader \in Readers
  /\ conn \in {"none", "up", "lost"} /\ session \in 0..MaxSessions
  /\ inbox \in Seq(Messages) /\ Len(inbox) <= MaxInbox
  /\ unsent \in 0..Capacity /\ messages \in 0..MaxMessages
  /\ doomed \subseteq Handlers

Init ==
  /\ at = [t \in Tasks |-> IF t = Main THEN "connect" ELSE "free"]
  /\ PlayerInit /\ RecorderInit
  /\ conn = "none" /\ session = 0 /\ inbox = <<>> /\ unsent = 0 /\ messages = 0
  /\ doomed = {} /\ monitors = FALSE /\ outran = FALSE

-----------------------------------------------------------------------------
(* The connection and the server.                                           *)

CanSend == conn = "up" /\ unsent < Capacity

ServerSends ==
  /\ conn = "up" /\ messages < MaxMessages /\ Len(inbox) < MaxInbox
  /\ \E msg \in Messages : inbox' = Append(inbox, msg)
  /\ messages' = messages + 1
  /\ UNCHANGED <<at, playerVars, recorderVars, conn, session, unsent, doomed, monitors, outran>>

ServerReads ==
  /\ conn = "up" /\ unsent > 0
  /\ unsent' = unsent - 1
  /\ UNCHANGED <<at, playerVars, recorderVars, conn, session, inbox, messages, doomed, monitors, outran>>

ConnectionLost ==
  /\ conn = "up"
  /\ conn' = "lost"
  /\ UNCHANGED <<at, playerVars, recorderVars, session, inbox, unsent, messages, doomed, monitors, outran>>

-----------------------------------------------------------------------------
(* The main task.                                                           *)

Busy == {h \in Handlers : at[h] # "free"}

\* An attempt that fails changes nothing.  A connection takes several round trips, and
\* by then no aborted handler runs any more.
Connect ==
  /\ at[Main] = "connect" /\ doomed = {} /\ session < MaxSessions
  /\ Goes(Main, "read")
  /\ conn' = "up" /\ session' = session + 1 /\ monitors' = TRUE
  /\ UNCHANGED <<playerVars, recorderVars, inbox, unsent, messages, doomed, outran>>

FirstPlace(c) ==
  CASE c = "get_version" -> "respond"
    [] c = "run_shell" -> "shell"
    [] c = "start_play" -> "checkStart"
    [] c = "stop_play" -> "take"
    [] c = "start_recording" -> "startRecording"
    [] c = "stop_recording" -> "stopRecording"

\* A request is given a handler as soon as one is free.
Accept(h) ==
  /\ at[Main] \in {"read", "permit"} /\ at[h] = "free"
  /\ inbox # <<>> /\ Head(inbox) \in Commands
  /\ at' = [at EXCEPT ![Main] = "read", ![h] = FirstPlace(Head(inbox))]
  /\ inbox' = Tail(inbox)
  /\ UNCHANGED <<playerVars, recorderVars, conn, session, unsent, messages, doomed, monitors, outran>>

\* With every permit taken the reader waits and reads nothing, not even the end.
AwaitPermit ==
  /\ at[Main] = "read" /\ inbox # <<>> /\ Head(inbox) \in Commands
  /\ \A h \in Handlers : at[h] # "free"
  /\ Goes(Main, "permit")
  /\ UNCHANGED <<playerVars, recorderVars, netVars, doomed, monitors, outran>>

ReadStream ==
  /\ at[Main] = "read" /\ inbox # <<>> /\ Head(inbox) = "stream"
  /\ Goes(Main, "play")
  /\ inbox' = Tail(inbox)
  /\ UNCHANGED <<playerVars, recorderVars, conn, session, unsent, messages, doomed, monitors, outran>>

\* The end of the stream, an error or a Close; what was not read yet may be lost.
NoticeLoss ==
  /\ at[Main] = "read" /\ conn = "lost"
  /\ Goes(Main, "dispose")
  /\ UNCHANGED <<playerVars, recorderVars, netVars, doomed, monitors, outran>>

DisposeNoAbort ==
  /\ at[Main] = "dispose"
  /\ Goes(Main, "take")
  /\ conn' = "none" /\ inbox' = <<>> /\ unsent' = 0
  /\ UNCHANGED <<playerVars, recorderVars, session, messages, doomed, monitors, outran>>

\* MessageManager::dispose drops the connection and aborts the handlers.  One that
\* waits, or has only its answer left, is gone; one that runs on another thread goes
\* on to its next wait.
Dispose ==
  /\ at[Main] = "dispose"
  /\ doomed' \in SUBSET {h \in Busy : at[h] \notin {"shell", "respond"}}
  /\ at' = [t \in Tasks |-> IF t = Main THEN "take" ELSE IF t \in doomed' THEN at[t] ELSE "free"]
  /\ DropStarts(Busy \ doomed') /\ DropStops(Busy \ doomed')
  /\ conn' = "none" /\ inbox' = <<>> /\ unsent' = 0
  /\ UNCHANGED <<session, messages, monitors, outran>>

StopMonitors ==
  /\ at[Main] = "stopMonitors"
  /\ Goes(Main, "connect")
  /\ monitors' = FALSE
  /\ UNCHANGED <<playerVars, recorderVars, netVars, doomed, outran>>

-----------------------------------------------------------------------------
(* The handlers, and the other tasks that send.                             *)

\* run_shell, whose command may never end
Shell(h) ==
  /\ at[h] = "shell"
  /\ Goes(h, "respond")
  /\ UNCHANGED <<playerVars, recorderVars, netVars, doomed, monitors, outran>>

RespondInsists(h) ==
  /\ at[h] = "respond" /\ CanSend
  /\ unsent' = unsent + 1
  /\ Goes(h, "free")
  /\ doomed' = doomed \ {h}
  /\ UNCHANGED <<playerVars, recorderVars, conn, session, inbox, messages, monitors, outran>>

\* The answer is sent, or fails for want of a connection; the permit is returned.
Respond(h) ==
  /\ at[h] = "respond"
  /\ \/ CanSend /\ unsent' = unsent + 1
     \/ conn # "up" /\ UNCHANGED unsent
  /\ Goes(h, "free")
  /\ doomed' = doomed \ {h}
  /\ UNCHANGED <<playerVars, recorderVars, conn, session, inbox, messages, monitors, outran>>

\* An aborted handler comes to a wait.
Aborted(h) ==
  /\ h \in doomed
  /\ Goes(h, "free")
  /\ doomed' = doomed \ {h}
  /\ DropStarts({h}) /\ DropStops({h})
  /\ UNCHANGED <<netVars, monitors, outran>>

PlayerStep(t) ==
  /\ StartStep(t) \/ StopStep(t)
  /\ outran' = (outran \/ t \in doomed)
  /\ UNCHANGED <<recorderVars, netVars, doomed, monitors>>

RecorderStep(t) ==
  /\ RecordStep(t)
  /\ outran' = (outran \/ t \in doomed)
  /\ UNCHANGED <<playerVars, netVars, doomed, monitors>>

Play == PlayStep /\ UNCHANGED <<recorderVars, netVars, doomed, monitors, outran>>
PlayerRuns == PlayerTask /\ UNCHANGED <<recorderVars, netVars, doomed, monitors, outran>>
ReaderRuns ==
  (Read \/ ReaderStops) /\ UNCHANGED <<playerVars, netVars, doomed, monitors, outran>>

\* A recorded buffer; without a connection it is dropped.
SendRecorded ==
  /\ reader = "sending"
  /\ \/ CanSend /\ unsent' = unsent + 1
     \/ conn # "up" /\ UNCHANGED unsent
  /\ reader' = "reading"
  /\ UNCHANGED <<at, playerVars, stateLock, recording, capture, halted, conn, session, inbox,
                 messages, doomed, monitors, outran>>

SendEvent ==
  /\ monitors /\ CanSend
  /\ unsent' = unsent + 1
  /\ UNCHANGED <<at, playerVars, recorderVars, conn, session, inbox, messages, doomed, monitors, outran>>

-----------------------------------------------------------------------------
MainStep ==
  \/ Connect \/ AwaitPermit \/ ReadStream \/ NoticeLoss \/ Dispose \/ StopMonitors \/ Play
  \/ \E h \in Handlers : Accept(h)
  \/ PlayerStep(Main) \/ RecorderStep(Main)

HandlerStep(h) == Respond(h) \/ Aborted(h) \/ PlayerStep(h) \/ RecorderStep(h)

Next ==
  \/ ServerSends \/ ServerReads \/ ConnectionLost \/ MainStep \/ PlayerRuns \/ ReaderRuns
  \/ SendRecorded \/ SendEvent
  \/ \E h \in Handlers : HandlerStep(h) \/ Shell(h)

\* The tasks are scheduled, but neither the server nor a shell command need go on.
Fairness ==
  /\ WF_vars(MainStep) /\ WF_vars(PlayerRuns)
  /\ \A h \in Handlers : WF_vars(HandlerStep(h))

Spec == Init /\ [][Next]_vars /\ Fairness

-----------------------------------------------------------------------------
DevicesQuiet ==
  /\ {aplay, stdin, task, sender} = {NoPlayer}
  /\ ~recording /\ reader = "none"

\* When the main task is about to connect, no request, device or monitor of the
\* lost connection goes on, so none of it can answer, sound or record on the next
\* one; a handler that runs on another thread goes on for an instant, and only if it
\* outruns the stop of the devices is something left.
QuietWhenDisconnected ==
  at[Main] = "connect" =>
    /\ Busy \subseteq doomed /\ ~monitors
    /\ outran \/ DevicesQuiet

\* A lost connection is left and a new one tried for, whatever the devices are
\* doing, even if the server had stopped reading; except while shell commands that
\* do not end have all the permits.
ReconnectsAfterLoss ==
  conn = "lost" ~> (at[Main] = "connect" \/ \A h \in Handlers : at[h] = "shell")
=============================================================================

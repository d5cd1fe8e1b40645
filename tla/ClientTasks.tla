----------------------------- MODULE ClientTasks -----------------------------
(***************************************************************************)
(* The tasks that operate the audio devices for the server: the client's   *)
(* main task and the handlers it spawns for requests.  A task is at a      *)
(* place of its program; a handler that is free is a permit of the         *)
(* semaphore of services/connect/message.rs.                               *)
(***************************************************************************)
EXTENDS Naturals

CONSTANTS
  Handlers,  \* the tasks the semaphore admits at once: 32
  Main,      \* the client's main task
  Nobody     \* the holder of a lock that is free

ASSUME TasksAssumption == Main \notin Handlers /\ Nobody \notin Handlers \cup {Main}

Tasks == Handlers \cup {Main}

VARIABLE at   \* where each task is

\* The places of a task inside services/audio/play.rs, those of a start and those
\* of a stop, and inside services/audio/record.rs
StartPlaces == {"spawn", "keepStdin", "keepTask", "keepSender"}
StopPlaces == {"take", "abortTask", "closeStdin", "killPlayer"}
RecorderPlaces == {"startRecording", "stopRecording", "killCapture"}

Places ==
  {"free", "shell", "checkStart", "respond",                       \* handlers
   "connect", "read", "permit", "play", "enqueue", "dispose", "stopMonitors"}  \* Main
    \cup StartPlaces \cup StopPlaces \cup RecorderPlaces

Goes(t, place) == at' = [at EXCEPT ![t] = place]

\* Where a task goes on when AudioRecorder::stop_recording returns
AfterStopRecording(t) == IF t = Main THEN "stopMonitors" ELSE "respond"
=============================================================================

------------------------------- MODULE Recorder -------------------------------
(***************************************************************************)
(* The recorder of services/audio/record.rs: an arecord process and the    *)
(* task that reads it and sends what it reads to the server.  One lock,    *)
(* that of the state, covers a start and a stop from end to end.  When the *)
(* capture stalls or ends, the reader stops the recording itself, that is, *)
(* it aborts its own task.                                                 *)
(***************************************************************************)
EXTENDS ClientTasks

VARIABLES
  stateLock,   \* the task that holds the lock of the state
  recording,   \* the state is Recording
  capture,     \* the arecord process that is kept runs
  reader,      \* what the reader is doing
  halted       \* history: a stop was cut short before it set the state

recorderVars == <<stateLock, recording, capture, reader, halted>>

Readers == {"none", "reading", "sending", "stopping"}

RecorderInit ==
  /\ stateLock = Nobody
  /\ recording = FALSE /\ capture = FALSE /\ reader = "none" /\ halted = FALSE

-----------------------------------------------------------------------------
\* AudioRecorder::start_recording; arecord may fail to start
StartRecording(t) ==
  /\ at[t] = "startRecording" /\ stateLock = Nobody
  /\ Goes(t, "respond")
  /\ \/ UNCHANGED <<recording, capture, reader>>
     \/ ~recording /\ recording' = TRUE /\ capture' = TRUE /\ reader' = "reading"
  /\ UNCHANGED <<stateLock, halted>>

StopRecordingOnly(t) ==
  /\ at[t] = "stopRecording" /\ stateLock = Nobody
  /\ IF ~recording THEN Goes(t, AfterStopRecording(t)) /\ UNCHANGED recorderVars
     ELSE /\ Goes(t, "killCapture")
          /\ stateLock' = t /\ capture' = FALSE
          /\ UNCHANGED <<recording, reader, halted>>

\* AudioRecorder::stop_recording, up to the wait for the process, and after it
StopRecording(t) ==
  /\ at[t] = "stopRecording" /\ stateLock = Nobody
  /\ IF ~recording THEN Goes(t, AfterStopRecording(t)) /\ UNCHANGED recorderVars
     ELSE /\ Goes(t, "killCapture")
          /\ stateLock' = t /\ reader' = "none" /\ capture' = FALSE
          /\ UNCHANGED <<recording, halted>>

KillCapture(t) ==
  /\ at[t] = "killCapture"
  /\ Goes(t, AfterStopRecording(t))
  /\ recording' = FALSE /\ stateLock' = Nobody /\ halted' = FALSE
  /\ UNCHANGED <<capture, reader>>

\* A buffer is full, or nothing comes for 500 ms, or the process has ended.
Read ==
  /\ reader = "reading"
  /\ reader' \in {"sending", "stopping"}
  /\ UNCHANGED <<at, stateLock, recording, capture, halted>>

\* stop_recording by the reader.  It aborts itself: if the process is still to be
\* waited for, the task is cancelled there and the state is not set to Idle.
ReaderStops ==
  /\ reader = "stopping" /\ stateLock = Nobody
  /\ reader' = "none" /\ capture' = FALSE
  /\ recording' \in BOOLEAN /\ halted' = recording'
  /\ UNCHANGED <<at, stateLock>>

\* The handlers that are aborted release the lock.
DropStops(gone) ==
  /\ stateLock' = IF stateLock \in gone THEN Nobody ELSE stateLock
  /\ halted' = (halted \/ stateLock \in gone)
  /\ UNCHANGED <<recording, capture, reader>>

RecordStep(t) == StartRecording(t) \/ StopRecording(t) \/ KillCapture(t)

-----------------------------------------------------------------------------
\* The recorder is Recording exactly while a reader reads a running capture, and
\* what is Idle has left no reader behind, however starts, stops, stalls and the
\* aborting of handlers fall.  The exception is a stop that was cut short, by the
\* reader that aborts itself or by the main task: the state stays Recording with
\* nothing behind it, and a start does nothing until there is another stop.
RecorderAgrees ==
  /\ ~recording => reader = "none" /\ ~capture
  /\ stateLock = Nobody /\ ~halted => (recording <=> reader # "none" /\ capture)
=============================================================================

---------------------------- MODULE InstructionLog ----------------------------
(***************************************************************************)
(* The monitor of the instruction log (services/monitor/file.rs and        *)
(* instruction.rs) and what bin/client.rs does with each line: it is given *)
(* to the routing, and the event is then sent to the server.  The native   *)
(* assistant appends to the file, a line at once or in two writes, and     *)
(* truncates it between lines.  The file is a sequence of pieces, and a    *)
(* piece stands for the bytes of one write: positions count pieces.        *)
(***************************************************************************)
EXTENDS Naturals, Sequences

CONSTANTS
  Capacity,        \* messages the connection takes while the server reads none
  MaxLines,        \* bound: lines written in a behaviour
  MaxTruncations   \* bound: truncations in a behaviour

ASSUME LogAssumption == Capacity \in Nat \ {0} /\ {MaxLines, MaxTruncations} \subseteq Nat

VARIABLES
  exists, file,      \* the file
  written,           \* lines written, or begun
  truncations,
  at,                \* what the monitor does next
  position,          \* up to where it has read lines
  buffer,            \* what it has fetched beyond that
  hand,              \* what it has read last
  connected, unsent, \* the connection to the server
  routed,            \* history: lines routed
  passed,            \* history: lines that were there before the file was opened
  torn,              \* history: lines handed on in two parts
  unnoticed          \* history: a truncation the monitor has not noticed

logVars == <<exists, file, written, truncations>>
monitorVars == <<at, position, buffer, hand>>
netVars == <<connected, unsent>>
histories == <<routed, passed, torn, unnoticed>>
vars == <<logVars, monitorVars, netVars, histories>>

Lines == 1..MaxLines
Whole(n) == [line |-> n, part |-> "whole"]
Head1(n) == [line |-> n, part |-> "head"]
Tail1(n) == [line |-> n, part |-> "tail"]

NewFile == [line |-> 0, part |-> "newFile"]

TypeOK ==
  /\ {exists, connected, unnoticed} \subseteq BOOLEAN
  /\ file \in Seq([line : Lines, part : {"whole", "head", "tail"}])
  /\ written \in 0..MaxLines /\ truncations \in 0..MaxTruncations
  /\ at \in {"absent", "stat", "read", "route", "send"}
  /\ position \in Nat /\ buffer \in Seq([line : Lines, part : {"whole", "head", "tail"}])
  /\ hand = NewFile \/ hand \in [line : Lines, part : {"whole", "head", "tail"}]
  /\ unsent \in 0..Capacity
  /\ routed \in Seq(Lines) /\ passed \cup torn \subseteq Lines

Init ==
  /\ exists = FALSE /\ file = <<>> /\ written = 0 /\ truncations = 0
  /\ at = "absent" /\ position = 0 /\ buffer = <<>> /\ hand = NewFile
  /\ connected = FALSE /\ unsent = 0
  /\ routed = <<>> /\ passed = {} /\ torn = {} /\ unnoticed = FALSE

-----------------------------------------------------------------------------
(* The native assistant.                                                    *)

Begun == file # <<>> /\ file[Len(file)].part = "head"

Create ==
  /\ ~exists /\ exists' = TRUE
  /\ UNCHANGED <<file, written, truncations, monitorVars, netVars, histories>>

\* The first of two writes ends inside the text of the line.
WriteLine ==
  /\ exists /\ ~Begun /\ written < MaxLines
  /\ \E piece \in {Whole(written + 1), Head1(written + 1)} : file' = Append(file, piece)
  /\ written' = written + 1
  /\ UNCHANGED <<exists, truncations, monitorVars, netVars, histories>>

EndLine ==
  /\ Begun
  /\ file' = Append(file, Tail1(written))
  /\ UNCHANGED <<exists, written, truncations, monitorVars, netVars, histories>>

\* Up to where the monitor has taken the file
Fetched == position + Len(buffer)

Truncate ==
  /\ file # <<>> /\ ~Begun /\ truncations < MaxTruncations
  /\ file' = <<>> /\ truncations' = truncations + 1
  /\ unnoticed' = (Fetched > 0)
  /\ UNCHANGED <<exists, written, monitorVars, netVars, routed, passed, torn>>

-----------------------------------------------------------------------------
(* FileMonitor::start_monitor.                                              *)

\* What is in the file when it is opened is passed over.
Open ==
  /\ at = "absent" /\ exists
  /\ at' = "stat" /\ position' = Len(file)
  /\ passed' = {file[i].line : i \in 1..Len(file)}
  /\ UNCHANGED <<logVars, buffer, hand, netVars, routed, torn, unnoticed>>

StatToEnd ==
  /\ at = "stat"
  /\ IF Len(file) < position
     THEN at' = "route" /\ position' = Len(file) /\ hand' = NewFile /\ unnoticed' = FALSE
     ELSE at' = "read" /\ UNCHANGED <<position, hand, unnoticed>>
  /\ UNCHANGED <<logVars, buffer, netVars, routed, passed, torn>>

StatAnyChange ==
  /\ at = "stat"
  /\ IF Len(file) # position
     THEN at' = "route" /\ position' = 0 /\ hand' = NewFile /\ unnoticed' = FALSE
     ELSE at' = "read" /\ UNCHANGED <<position, hand, unnoticed>>
  /\ UNCHANGED <<logVars, buffer, netVars, routed, passed, torn>>

\* A file that is shorter than what was read of it has been truncated.
Stat ==
  /\ at = "stat"
  /\ IF Len(file) < position
     THEN at' = "route" /\ position' = 0 /\ hand' = NewFile /\ unnoticed' = FALSE
     ELSE at' = "read" /\ UNCHANGED <<position, hand, unnoticed>>
  /\ UNCHANGED <<logVars, buffer, netVars, routed, passed, torn>>

\* read_line fetches more, as much as fits, when it has nothing or no end of a line;
\* what is fetched outlives a truncation.
Fill ==
  /\ at = "read" /\ Fetched < Len(file)
  /\ Len(buffer) > 0 => Len(buffer) = 1 /\ buffer[1].part = "head"
  /\ \E n \in Fetched + 1..Len(file) : buffer' = buffer \o SubSeq(file, Fetched + 1, n)
  /\ UNCHANGED <<logVars, at, position, hand, netVars, histories>>

\* It returns up to the end of a line or of the file.  After a truncation the head of
\* one line may be joined with another line.
Joined == buffer[1].part = "head" /\ Len(buffer) > 1
Matching == buffer[2].part = "tail" /\ buffer[2].line = buffer[1].line

Take(n) ==
  /\ position' = position + n
  /\ buffer' = SubSeq(buffer, n + 1, Len(buffer))
  /\ torn' = IF hand'.part = "whole" THEN torn ELSE torn \cup {buffer[i].line : i \in 1..n}

ReadLine ==
  /\ at = "read" /\ buffer # <<>>
  /\ buffer[1].part = "head" /\ ~Joined => Fetched >= Len(file)
  /\ at' = "route"
  /\ hand' = IF Joined /\ Matching THEN Whole(buffer[1].line) ELSE buffer[1]
  /\ IF Joined THEN Take(2) ELSE Take(1)
  /\ UNCHANGED <<logVars, netVars, routed, passed, unnoticed>>

\* The end of the file, or a part that ends inside a character: it is fetched again.
ReadNothing ==
  /\ at = "read" /\ Fetched >= Len(file)
  /\ Len(buffer) > 0 => Len(buffer) = 1 /\ buffer[1].part = "head"
  /\ at' = "stat" /\ buffer' = <<>>
  /\ UNCHANGED <<logVars, position, hand, netVars, histories>>

\* RoutingService::process; a part of a line does not parse, and is not sent either.
Route ==
  /\ at = "route"
  /\ at' = IF hand.part \in {"whole", "newFile"} THEN "send" ELSE "read"
  /\ routed' = IF hand.part = "whole" THEN Append(routed, hand.line) ELSE routed
  /\ UNCHANGED <<logVars, position, buffer, hand, netVars, passed, torn, unnoticed>>

\* MessageManager::send_event; without a connection it fails and the error is ignored.
SendInsists ==
  /\ at = "send"
  /\ connected /\ unsent < Capacity /\ unsent' = unsent + 1
  /\ at' = "read"
  /\ UNCHANGED <<logVars, position, buffer, hand, connected, histories>>

Send ==
  /\ at = "send"
  /\ \/ connected /\ unsent < Capacity /\ unsent' = unsent + 1
     \/ ~connected /\ UNCHANGED unsent
  /\ at' = "read"
  /\ UNCHANGED <<logVars, position, buffer, hand, connected, histories>>

-----------------------------------------------------------------------------
(* The connection.                                                          *)

ConnectOrLose ==
  /\ connected' = ~connected /\ unsent' = 0
  /\ UNCHANGED <<logVars, monitorVars, histories>>

ServerReads ==
  /\ unsent > 0 /\ unsent' = unsent - 1
  /\ UNCHANGED <<logVars, monitorVars, connected, histories>>

-----------------------------------------------------------------------------
Assistant == Create \/ WriteLine \/ EndLine \/ Truncate
Monitor == Open \/ Stat \/ Fill \/ ReadLine \/ ReadNothing \/ Route \/ Send
Next == Assistant \/ Monitor \/ ConnectOrLose \/ ServerReads

\* The monitor runs, and a line that is begun is ended.
LocalSpec == Init /\ [][Next]_vars /\ WF_vars(Monitor) /\ WF_vars(EndLine)

\* Moreover the server reads what it is sent.
Spec == LocalSpec /\ WF_vars(ServerReads)

-----------------------------------------------------------------------------
\* No line is routed twice and none before an earlier one, whatever the file is
\* truncated to and however the reading is repeated.
InOrder == \A i, j \in 1..Len(routed) : i < j => routed[i] < routed[j]

\* A monitor that has read to the end of the file has routed every line of it that
\* was written since it was opened, except a line that was read while it was being
\* written, and except when a truncated file has grown past the position before the
\* monitor looked at its size.
NothingLost ==
  at = "stat" /\ position >= Len(file) /\ ~unnoticed =>
    \A i \in 1..Len(file) :
      file[i].part # "head" /\ file[i].line \notin passed \cup torn =>
        \E k \in 1..Len(routed) : routed[k] = file[i].line

\* Every line that is written is routed, with the same exceptions, whether there is
\* a connection to the server or not.
LinesRouted ==
  \A n \in Lines :
    (\E i \in 1..Len(file) : file[i].line = n) ~>
      \/ \E k \in 1..Len(routed) : routed[k] = n
      \/ n \in passed \cup torn \/ unnoticed \/ \A i \in 1..Len(file) : file[i].line # n
=============================================================================

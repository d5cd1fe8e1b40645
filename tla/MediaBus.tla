------------------------------ MODULE MediaBus ------------------------------
(***************************************************************************)
(* What the music actor takes for granted about the AirPlay side of the    *)
(* media bus: the flag and the stream of events tell one story.  Every     *)
(* change of the flag is one event, in the order of the changes.           *)
(***************************************************************************)
EXTENDS Sequences

VARIABLES active, events

busVars == <<active, events>>

Init == active = FALSE /\ events = <<>>

Change ==
  /\ active' = ~active
  /\ events' = Append(events, IF active THEN "AirPlayEnded" ELSE "AirPlayStarted")

Take == events # <<>> /\ events' = Tail(events) /\ UNCHANGED active

Next == Change \/ Take

Spec == Init /\ [][Next]_busVars
=============================================================================

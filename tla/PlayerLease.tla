---------------------------- MODULE PlayerLease ----------------------------
(***************************************************************************)
(* What the music actor promises about the loudspeaker: it leases it to    *)
(* one player at a time, every lease has a new generation, and a player    *)
(* told to go gives the lease back.                                        *)
(***************************************************************************)
EXTENDS Naturals

VARIABLES
  holder,  \* the generation that has the lease, 0 when nobody does
  last,    \* the newest generation
  doomed   \* whether the holder was told to go

leaseVars == <<holder, last, doomed>>

Init == holder = 0 /\ last = 0 /\ doomed = FALSE

Acquire ==
  /\ holder = 0
  /\ last' = last + 1
  /\ holder' = last'
  /\ UNCHANGED doomed

Doom == holder # 0 /\ doomed' = TRUE /\ UNCHANGED <<holder, last>>

Release ==
  /\ holder # 0
  /\ holder' = 0
  /\ doomed' = FALSE
  /\ UNCHANGED last

Next == Acquire \/ Doom \/ Release

SafeSpec == Init /\ [][Next]_leaseVars

Spec == SafeSpec /\ WF_leaseVars(doomed /\ Release)
=============================================================================

--------------------------- MODULE AirPlayProofs ---------------------------
(***************************************************************************)
(* Theorems about AirPlaySessions, for any sessions and any number of      *)
(* clients: the bus comes to rest, AirPlay and the music exclude each      *)
(* other unless sessions overlap, and up to the first overlap the bus      *)
(* implements MediaBus.                                                    *)
(***************************************************************************)
EXTENDS AirPlaySessions, FiniteSetTheorems, SequenceTheorems, TLAPS

In(places) == \E s \in Sessions : at[s] \in places
Present == {s \in Sessions : at[s] # "closed"}
Counted == {s \in Sessions : at[s] \in {"raising", "announcing", "open"}}

Types ==
  /\ at \in [Sessions -> Places]
  /\ piped \subseteq Sessions
  /\ active \in BOOLEAN
  /\ events \in Seq({"AirPlayStarted", "AirPlayEnded"})
  /\ level \in {"silent", "sound"}
  /\ musicPaused \in BOOLEAN
  /\ overlapped \in BOOLEAN

\* active_sessions counts the sessions between their init and their drop, and
\* the server admits no more than it may.
CountInv ==
  /\ IsFiniteSet(Present)
  /\ Cardinality(Present) <= MaxClients
  /\ count = Cardinality(Counted)

\* Whoever finds the flag up or a level will still take it down, overlap or not.
RestInv ==
  /\ active => In({"raising", "announcing", "open", "lowering"})
  /\ level = "sound" => In(Places \ {"closed"})

\* Without an overlap a session that changes the bus is the only one there is,
\* the flag is up between the two swaps, and the last event the actor took or
\* will take is the one the sessions have announced.
AloneInv ==
  \A s, t \in Sessions :
    at[s] \notin {"closed", "open"} /\ t # s => at[t] = "closed"
FlagInv == active <=> In({"announcing", "open", "lowering"})
Told == IF events = <<>> THEN musicPaused ELSE events[Len(events)] = "AirPlayStarted"
ToldInv == Told <=> In({"open", "lowering", "retracting"})
StoryInv == ~overlapped => AloneInv /\ FlagInv /\ ToldInv

IInv == Types /\ CountInv /\ RestInv /\ StoryInv

USE DEF vars

-----------------------------------------------------------------------------
(* What a step does, in the terms of the invariants.                        *)

LEMMA TypesStep ==
  ASSUME Types, [Next]_vars
  PROVE  Types'
<1>1. ASSUME NEW s \in Sessions, AudioInit(s) \/ AudioProcess(s) \/ Drop(s)
      PROVE  Types'
  BY <1>1 DEF Types, Places, AudioInit, AudioProcess, Drop, Go, NoteOverlap, Changing
<1>2. ASSUME NEW s \in Sessions, Raise(s) \/ Lower(s) \/ Mute(s)
      PROVE  Types'
  BY <1>2 DEF Types, Places, Raise, Lower, Mute, Go
<1>3. ASSUME NEW s \in Sessions, Announce(s) \/ Retract(s)
      PROVE  Types'
  BY <1>3 DEF Types, Places, Announce, Retract, Go
<1>4. CASE HandleMediaEvent
  BY <1>4 DEF Types, HandleMediaEvent
<1>5. CASE UNCHANGED vars
  BY <1>5 DEF Types
<1> QED
  BY <1>1, <1>2, <1>3, <1>4, <1>5 DEF Next, Step

\* A session inside a handler is present before and after, unless it mutes; it
\* is counted after if it was before.
LEMMA StepPlaces ==
  ASSUME Types, NEW s \in Sessions, Step(s)
  PROVE  /\ Present' = IF at[s] = "muting" THEN Present \ {s} ELSE Present
         /\ Counted' = Counted
         /\ count' = count
BY DEF Types, Step, Raise, Announce, Lower, Retract, Mute, Go, Present, Counted

LEMMA CountStep ==
  ASSUME Types, CountInv, [Next]_vars
  PROVE  CountInv'
<1>1. ASSUME NEW s \in Sessions, AudioInit(s)
      PROVE  CountInv'
  <2>1. Present' = Present \cup {s} /\ s \notin Present
    BY <1>1 DEF Types, AudioInit, Go, Present
  <2>2. Counted' = Counted \cup {s} /\ s \notin Counted
    BY <1>1 DEF Types, AudioInit, Go, Counted
  <2>3. Cardinality(Present) < MaxClients
    BY <1>1 DEF AudioInit, Present
  <2>4. Counted \in SUBSET Present
    BY DEF Counted, Present
  <2>5. IsFiniteSet(Counted) /\ Cardinality(Counted) \in Nat
    BY <2>4, FS_Subset, FS_CardinalityType DEF CountInv
  <2>6. IsFiniteSet(Present') /\ Cardinality(Present') = Cardinality(Present) + 1
    BY <2>1, FS_AddElement DEF CountInv
  <2>7. Cardinality(Counted') = Cardinality(Counted) + 1
    BY <2>2, <2>5, FS_AddElement
  <2>8. Cardinality(Present) \in Nat
    BY FS_CardinalityType DEF CountInv
  <2>9. count' = count + 1
    BY <1>1 DEF AudioInit
  <2> QED
    BY <2>3, <2>5, <2>6, <2>7, <2>8, <2>9, MaxClientsAssumption DEF CountInv
<1>2. ASSUME NEW s \in Sessions, Drop(s)
      PROVE  CountInv'
  <2>1. Present' \in SUBSET Present
    BY <1>2 DEF Types, Drop, Go, Present
  <2>2. Counted' = Counted \ {s} /\ s \in Counted
    BY <1>2 DEF Types, Drop, Go, Counted
  <2>3. Counted \in SUBSET Present
    BY DEF Counted, Present
  <2>4. IsFiniteSet(Counted)
    BY <2>3, FS_Subset DEF CountInv
  <2>5. Cardinality(Counted') = Cardinality(Counted) - 1
    BY <2>2, <2>4, FS_RemoveElement
  <2>6. IsFiniteSet(Present') /\ Cardinality(Present') <= Cardinality(Present)
    BY <2>1, FS_Subset DEF CountInv
  <2>7. Cardinality(Present) \in Nat /\ Cardinality(Present') \in Nat
    BY <2>6, FS_CardinalityType DEF CountInv
  <2>8. count' = count - 1
    BY <1>2 DEF Drop
  <2> QED
    BY <2>5, <2>6, <2>7, <2>8, MaxClientsAssumption DEF CountInv
<1>3. ASSUME NEW s \in Sessions, Step(s)
      PROVE  CountInv'
  <2>1. Present' \in SUBSET Present
    BY <1>3, StepPlaces
  <2>2. IsFiniteSet(Present') /\ Cardinality(Present') <= Cardinality(Present)
    BY <2>1, FS_Subset DEF CountInv
  <2>3. Cardinality(Present) \in Nat /\ Cardinality(Present') \in Nat
    BY <2>2, FS_CardinalityType DEF CountInv
  <2> QED
    BY <1>3, <2>2, <2>3, StepPlaces, MaxClientsAssumption DEF CountInv
<1>4. CASE (\E s \in Sessions : AudioProcess(s)) \/ HandleMediaEvent \/ UNCHANGED vars
  <2>1. Present' = Present /\ Counted' = Counted /\ count' = count
    BY <1>4 DEF AudioProcess, HandleMediaEvent, Present, Counted
  <2> QED
    BY <2>1 DEF CountInv
<1> QED
  BY <1>1, <1>2, <1>3, <1>4 DEF Next

\* The first and the last session counted know it.
LEMMA FirstAndLast ==
  ASSUME CountInv
  PROVE  /\ count \in 0..MaxClients
         /\ count = 0 => \A s \in Sessions : at[s] \notin {"raising", "announcing", "open"}
         /\ \A s \in Sessions : at[s] = "open" =>
              /\ count = 1 => \A t \in Sessions \ {s} :
                                 at[t] \notin {"raising", "announcing", "open"}
              /\ count # 1 => \E t \in Sessions \ {s} :
                                 at[t] \in {"raising", "announcing", "open"}
<1>1. Counted \in SUBSET Present
  BY DEF Counted, Present
<1>2. IsFiniteSet(Counted) /\ Cardinality(Counted) <= Cardinality(Present)
  BY <1>1, FS_Subset DEF CountInv
<1>3. Cardinality(Counted) \in Nat /\ Cardinality(Present) \in Nat
  BY <1>2, FS_CardinalityType DEF CountInv
<1>4. count = 0 => Counted = {}
  BY <1>2, FS_EmptySet DEF CountInv
<1>5. count = 1 <=> \E x : Counted = {x}
  BY <1>2, FS_Singleton DEF CountInv
<1>6. ASSUME NEW s \in Sessions, at[s] = "open"
      PROVE  /\ count = 1 => \A t \in Sessions \ {s} : t \notin Counted
             /\ count # 1 => \E t \in Sessions \ {s} : t \in Counted
  <2>1. s \in Counted
    BY <1>6 DEF Counted
  <2>2. ASSUME count # 1
        PROVE  \E t \in Counted : t # s
    BY <1>5, <2>1, <2>2
  <2>3. Counted \subseteq Sessions
    BY DEF Counted
  <2> QED
    BY <1>5, <2>1, <2>2, <2>3
<1>7. \A t \in Sessions : t \in Counted <=> at[t] \in {"raising", "announcing", "open"}
  BY DEF Counted
<1>8. count \in 0..MaxClients
  BY <1>2, <1>3, MaxClientsAssumption DEF CountInv
<1>9. count = 0 => \A s \in Sessions : at[s] \notin {"raising", "announcing", "open"}
  BY <1>4, <1>7
<1> QED
  BY <1>6, <1>7, <1>8, <1>9

LEMMA RestStep ==
  ASSUME Types, CountInv, RestInv, [Next]_vars
  PROVE  RestInv'
<1> DEFINE Up == {"raising", "announcing", "open", "lowering"}
           Busy == Places \ {"closed"}
<1>0. \A s \in Sessions : at[s] \in Places
  BY DEF Types
<1>1. ASSUME NEW s \in Sessions, AudioInit(s)
      PROVE  RestInv'
  <2>1. at'[s] \in {"raising", "open"}
    BY <1>1 DEF AudioInit, Go, Types
  <2> QED
    BY <1>1, <2>1 DEF AudioInit, RestInv, In, Places
<1>2. ASSUME NEW s \in Sessions, AudioProcess(s)
      PROVE  RestInv'
  BY <1>2 DEF AudioProcess, RestInv, In, Places
<1>3. ASSUME NEW s \in Sessions, Drop(s)
      PROVE  RestInv'
  <2>1. at[s] = "open" /\ active' = active /\ level' = level
    BY <1>3 DEF Drop
  <2>2. CASE count = 1
    <3>1. at'[s] = "lowering"
      BY <1>3, <2>2 DEF Drop, Go, Types
    <3> QED
      BY <2>1, <3>1 DEF RestInv, In, Places
  <2>3. CASE count # 1
    <3>1. PICK t \in Sessions \ {s} : at[t] \in {"raising", "announcing", "open"}
      BY <2>1, <2>3, FirstAndLast
    <3>2. at'[t] \in {"raising", "announcing", "open"}
      BY <1>3, <3>1 DEF Drop, Go, Types
    <3> QED
      BY <2>1, <3>1, <3>2 DEF RestInv, In, Places
  <2> QED
    BY <2>2, <2>3
<1>4. ASSUME NEW s \in Sessions, Step(s), ~Mute(s)
      PROVE  RestInv'
  <2>1. /\ at'[s] \in Busy
        /\ level' = level
        /\ \A t \in Sessions \ {s} : at'[t] = at[t]
    BY <1>4 DEF Types, Step, Raise, Announce, Lower, Retract, Go, Places
  <2>2. \/ at'[s] \in Up
        \/ active' = FALSE
        \/ active' = active /\ at[s] = "retracting"
    BY <1>4 DEF Types, Step, Raise, Announce, Lower, Retract, Go
  <2>3. active' => In(Up)'
    <3>1. CASE at'[s] \in Up
      BY <3>1 DEF In
    <3>2. CASE active' = active /\ at[s] = "retracting"
      BY <2>1, <3>2 DEF In, RestInv
    <3> QED
      BY <2>2, <3>1, <3>2
  <2> QED
    BY <2>1, <2>3 DEF RestInv, In
<1>5. ASSUME NEW s \in Sessions, Mute(s)
      PROVE  RestInv'
  BY <1>5 DEF Mute, Go, Types, RestInv, In
<1>6. CASE HandleMediaEvent \/ UNCHANGED vars
  BY <1>6 DEF HandleMediaEvent, RestInv, In
<1> QED
  BY <1>1, <1>2, <1>3, <1>4, <1>5, <1>6 DEF Next

\* The event a sender appends is the last one; taking one leaves the last one
\* last, or makes it what the actor believes.
LEMMA ToldSend ==
  ASSUME Types, NEW e \in {"AirPlayStarted", "AirPlayEnded"}, events' = Append(events, e)
  PROVE  Told' <=> e = "AirPlayStarted"
<1>1. events' # <<>> /\ events'[Len(events')] = e
  BY AppendProperties DEF Types
<1> QED
  BY <1>1 DEF Told

LEMMA ToldTake ==
  ASSUME Types, HandleMediaEvent
  PROVE  Told' <=> Told
<1>1. events \in Seq({"AirPlayStarted", "AirPlayEnded"}) /\ events # <<>>
  BY DEF Types, HandleMediaEvent
<1>2. events' = Tail(events) /\ (musicPaused' <=> Head(events) = "AirPlayStarted")
  BY DEF HandleMediaEvent
<1>3. Head(events) = events[1] /\ Len(events) \in Nat \ {0}
  BY <1>1
<1>4. CASE Len(events) = 1
  <2>1. events' = <<>>
    BY <1>1, <1>2, <1>4
  <2> QED
    BY <1>1, <1>2, <1>3, <1>4, <2>1 DEF Told
<1>5. CASE Len(events) # 1
  <2>1. events' # <<>> /\ events'[Len(events')] = events[Len(events)]
    <3>1. /\ Len(events') = Len(events) - 1
          /\ \A i \in 1..Len(events') : events'[i] = events[i + 1]
      BY <1>1, <1>2, HeadTailProperties
    <3>2. Len(events') \in 1..Len(events')
      BY <1>3, <1>5, <3>1
    <3>3. events'[Len(events')] = events[Len(events') + 1]
      BY <3>1, <3>2
    <3>4. Len(events') + 1 = Len(events)
      BY <1>3, <3>1
    <3>5. events' # <<>>
      BY <3>2, EmptySeq
    <3> QED
      BY <3>3, <3>4, <3>5
  <2> QED
    BY <1>1, <2>1 DEF Told
<1> QED
  BY <1>4, <1>5

LEMMA StoryStep ==
  ASSUME Types, CountInv, StoryInv, [Next]_vars
  PROVE  StoryInv'
<1> SUFFICES ASSUME ~overlapped'
             PROVE  AloneInv' /\ FlagInv' /\ ToldInv'
  BY DEF StoryInv
<1>1. ~overlapped
  BY DEF Next, AudioInit, AudioProcess, Drop, Step, Raise, Announce, Lower, Retract,
     Mute, HandleMediaEvent, NoteOverlap
<1>2. AloneInv /\ FlagInv /\ ToldInv
  BY <1>1 DEF StoryInv
<1>3. \A s \in Sessions : at[s] \in Places
  BY DEF Types
<1>4. ASSUME NEW s \in Sessions, AudioInit(s)
      PROVE  AloneInv' /\ FlagInv' /\ ToldInv'
  <2>1. \A t \in Sessions : at[t] \in {"closed", "open"}
    BY <1>4 DEF AudioInit, NoteOverlap, Changing
  <2>2. /\ at[s] = "closed" /\ at'[s] \in {"raising", "open"}
        /\ at'[s] = "raising" <=> count = 0
        /\ \A t \in Sessions \ {s} : at'[t] = at[t]
    BY <1>4 DEF AudioInit, Go, Types
  <2>3. active' = active /\ (Told' <=> Told)
    BY <1>4 DEF AudioInit, Told
  <2>4. CASE count = 0
    <3>1. \A t \in Sessions : at[t] = "closed"
      BY <2>1, <2>4, FirstAndLast
    <3> QED
      BY <1>2, <2>2, <2>3, <2>4, <3>1 DEF AloneInv, FlagInv, ToldInv, In
  <2>5. CASE count # 0
    <3>1. PICK t \in Sessions : at[t] = "open"
      <4>1. Counted # {}
        BY <2>5, FS_EmptySet DEF CountInv
      <4> QED
        BY <2>1, <4>1 DEF Counted
    <3>2. at'[s] = "open" /\ t # s /\ at'[t] = "open"
      BY <2>2, <2>5, <3>1
    <3> QED
      BY <1>2, <2>1, <2>2, <2>3, <3>1, <3>2 DEF AloneInv, FlagInv, ToldInv, In
  <2> QED
    BY <2>4, <2>5
<1>5. ASSUME NEW s \in Sessions, Drop(s)
      PROVE  AloneInv' /\ FlagInv' /\ ToldInv'
  <2>1. \A t \in Sessions : at[t] \in {"closed", "open"}
    BY <1>5 DEF Drop, NoteOverlap, Changing
  <2>2. /\ at[s] = "open" /\ at'[s] \in {"lowering", "closed"}
        /\ at'[s] = "lowering" <=> count = 1
        /\ \A t \in Sessions \ {s} : at'[t] = at[t]
    BY <1>5 DEF Drop, Go, Types
  <2>3. active' = active /\ (Told' <=> Told)
    BY <1>5 DEF Drop, Told
  <2>4. CASE count = 1
    <3>1. \A t \in Sessions \ {s} : at[t] = "closed"
      BY <2>1, <2>2, <2>4, FirstAndLast
    <3> QED
      BY <1>2, <2>2, <2>3, <2>4, <3>1 DEF AloneInv, FlagInv, ToldInv, In
  <2>5. CASE count # 1
    <3>1. PICK t \in Sessions \ {s} : at[t] = "open"
      BY <2>1, <2>2, <2>5, FirstAndLast
    <3> QED
      BY <1>2, <2>1, <2>2, <2>3, <2>5, <3>1 DEF AloneInv, FlagInv, ToldInv, In
  <2> QED
    BY <2>4, <2>5
<1>6. ASSUME NEW s \in Sessions, Step(s)
      PROVE  AloneInv' /\ FlagInv' /\ ToldInv'
  <2>1. at[s] \notin {"closed", "open"} /\ \A t \in Sessions \ {s} : at'[t] = at[t]
    BY <1>6 DEF Step, Raise, Announce, Lower, Retract, Mute, Go, Types
  <2>2. \A t \in Sessions \ {s} : at[t] = "closed" /\ at'[t] = "closed"
    BY <1>2, <2>1 DEF AloneInv
  <2>3. AloneInv'
    BY <2>2 DEF AloneInv
  <2>4. /\ active <=> at[s] \in {"announcing", "open", "lowering"}
        /\ Told <=> at[s] \in {"open", "lowering", "retracting"}
    BY <1>2, <2>2 DEF FlagInv, ToldInv, In
  <2>5. ASSUME active' <=> at'[s] \in {"announcing", "open", "lowering"}
        PROVE  FlagInv'
    BY <2>2, <2>5 DEF FlagInv, In
  <2>6. ASSUME Told' <=> at'[s] \in {"open", "lowering", "retracting"}
        PROVE  ToldInv'
    BY <2>2, <2>6 DEF ToldInv, In
  <2>7. CASE Raise(s)
    <3>1. at'[s] = "announcing" /\ active' = TRUE /\ (Told' <=> Told) /\ at[s] = "raising"
      BY <2>4, <2>7 DEF Raise, Go, Types, Told
    <3> QED
      BY <2>3, <2>4, <2>5, <2>6, <3>1
  <2>8. CASE Announce(s)
    <3>1. at'[s] = "open" /\ active' = active /\ at[s] = "announcing"
      BY <2>8 DEF Announce, Go, Types
    <3>2. Told'
      BY <2>8, ToldSend DEF Announce
    <3> QED
      BY <2>3, <2>4, <2>5, <2>6, <3>1, <3>2
  <2>9. CASE Lower(s)
    <3>1. at'[s] = "retracting" /\ active' = FALSE /\ (Told' <=> Told) /\ at[s] = "lowering"
      BY <2>4, <2>9 DEF Lower, Go, Types, Told
    <3> QED
      BY <2>3, <2>4, <2>5, <2>6, <3>1
  <2>10. CASE Retract(s)
    <3>1. at'[s] = "muting" /\ active' = active /\ at[s] = "retracting"
      BY <2>10 DEF Retract, Go, Types
    <3>2. ~Told'
      BY <2>10, ToldSend DEF Retract
    <3> QED
      BY <2>3, <2>4, <2>5, <2>6, <3>1, <3>2
  <2>11. CASE Mute(s)
    <3>1. at'[s] = "closed" /\ active' = active /\ (Told' <=> Told) /\ at[s] = "muting"
      BY <2>11 DEF Mute, Go, Types, Told
    <3> QED
      BY <2>3, <2>4, <2>5, <2>6, <3>1
  <2> QED
    BY <1>6, <2>7, <2>8, <2>9, <2>10, <2>11 DEF Step
<1>7. CASE (\E s \in Sessions : AudioProcess(s)) \/ UNCHANGED vars
  BY <1>2, <1>7 DEF AudioProcess, AloneInv, FlagInv, ToldInv, Told, In
<1>8. CASE HandleMediaEvent
  <2>1. at' = at /\ active' = active
    BY <1>8 DEF HandleMediaEvent
  <2>2. Told' <=> Told
    BY <1>8, ToldTake
  <2> QED
    BY <1>2, <2>1, <2>2 DEF AloneInv, FlagInv, ToldInv, In
<1> QED
  BY <1>4, <1>5, <1>6, <1>7, <1>8 DEF Next

LEMMA IInvAlways == Spec => []IInv
<1>1. Init => IInv
  <2> SUFFICES ASSUME Init PROVE IInv
    OBVIOUS
  <2>1. Types
    <3>1. events \in Seq({"AirPlayStarted", "AirPlayEnded"})
      BY EmptySeq DEF Init
    <3> QED
      BY <3>1 DEF Init, Types, Places
  <2>2. Present = {} /\ Counted = {}
    BY DEF Init, Present, Counted
  <2>3. CountInv
    BY <2>2, FS_EmptySet, MaxClientsAssumption DEF Init, CountInv
  <2>4. RestInv /\ AloneInv /\ FlagInv /\ ToldInv
    BY DEF Init, RestInv, AloneInv, FlagInv, ToldInv, Told, In
  <2> QED
    BY <2>1, <2>3, <2>4 DEF IInv, StoryInv
<1>2. IInv /\ [Next]_vars => IInv'
  BY TypesStep, CountStep, RestStep, StoryStep DEF IInv
<1> QED
  BY <1>1, <1>2, PTL DEF Spec

-----------------------------------------------------------------------------
(* The theorems.                                                            *)

\* The variables of the receiver keep their types, and the sessions counted in
\* active_sessions stay within airplay.max_clients.
THEOREM TypeCorrect == Spec => []TypeOK
<1>1. IInv => TypeOK
  BY FirstAndLast DEF IInv, Types, TypeOK
<1> QED
  BY <1>1, IInvAlways, PTL

\* When the last session is gone the bus is at rest, however the sessions
\* overlapped: whoever closes last finds the flag and the level and takes them
\* down (audio_init, drop, set_airplay_active).
THEOREM BusComesToRest == Spec => []BusAtRest
<1>1. IInv => BusAtRest
  <2> SUFFICES ASSUME IInv, AllClosed
               PROVE  ~active /\ level = "silent" /\ count = 0
    BY DEF BusAtRest
  <2>1. ~active /\ level = "silent"
    BY DEF IInv, Types, RestInv, In, AllClosed
  <2>2. Counted = {}
    BY DEF AllClosed, Counted
  <2> QED
    BY <2>1, <2>2, FS_EmptySet DEF IInv, CountInv
<1> QED
  BY <1>1, IInvAlways, PTL

\* AirPlay and the local music exclude each other as long as no session comes or
\* goes inside another's handler.
THEOREM MusicGivesWayAlways == Spec => []MusicGivesWay
<1>1. IInv => MusicGivesWay
  <2> SUFFICES ASSUME IInv, Settled, ~overlapped
               PROVE  (active <=> ~AllClosed) /\ (musicPaused <=> ~AllClosed)
    BY DEF MusicGivesWay
  <2>1. FlagInv /\ ToldInv
    BY DEF IInv, StoryInv
  <2>2. \A s \in Sessions : at[s] \in {"closed", "open"}
    BY DEF Settled, Changing
  <2>3. Told <=> musicPaused
    BY DEF Told, Settled
  <2>4. AllClosed <=> ~ \E s \in Sessions : at[s] = "open"
    BY <2>2 DEF AllClosed
  <2> QED
    BY <2>1, <2>2, <2>3, <2>4 DEF FlagInv, ToldInv, In
<1> QED
  BY <1>1, IInvAlways, PTL

\* What a lone session inside a handler owes the actor.
LEMMA UnsentAlone ==
  ASSUME AloneInv, NEW s \in Sessions, at[s] \notin {"closed", "open"}
  PROVE  Unsent = IF at[s] = "announcing" THEN <<"AirPlayStarted">>
                  ELSE IF at[s] = "retracting" THEN <<"AirPlayEnded">>
                  ELSE <<>>
<1>1. \A t \in Sessions \ {s} : at[t] = "closed"
  BY DEF AloneInv
<1> QED
  BY <1>1 DEF Unsent

LEMMA UnsentNone ==
  ASSUME \A t \in Sessions : at[t] \notin {"announcing", "retracting"}
  PROVE  Unsent = <<>>
BY DEF Unsent

LEMMA TailOfConcat ==
  ASSUME NEW S, NEW s \in Seq(S), NEW t \in Seq(S), s # <<>>
  PROVE  s \o t # <<>> /\ Tail(s \o t) = Tail(s) \o t
<1>1. /\ s \o t \in Seq(S) /\ Len(s \o t) = Len(s) + Len(t)
      /\ \A i \in 1..Len(s) + Len(t) : (s \o t)[i] =
            IF i <= Len(s) THEN s[i] ELSE t[i - Len(s)]
  BY ConcatProperties
<1>2. s \o t # <<>>
  BY ConcatEqualIffEmpty
<1>3. Len(s) \in Nat \ {0} /\ Len(t) \in Nat
  BY EmptySeq, LenProperties
<1>4. /\ Tail(s) \in Seq(S) /\ Len(Tail(s)) = Len(s) - 1
      /\ \A i \in 1..Len(Tail(s)) : Tail(s)[i] = s[i + 1]
  BY HeadTailProperties
<1>5. /\ Tail(s) \o t \in Seq(S) /\ Len(Tail(s) \o t) = Len(Tail(s)) + Len(t)
      /\ \A i \in 1..Len(Tail(s)) + Len(t) : (Tail(s) \o t)[i] =
            IF i <= Len(Tail(s)) THEN Tail(s)[i] ELSE t[i - Len(Tail(s))]
  BY <1>4, ConcatProperties
<1>6. /\ Tail(s \o t) \in Seq(S) /\ Len(Tail(s \o t)) = Len(s \o t) - 1
      /\ \A i \in 1..Len(Tail(s \o t)) : Tail(s \o t)[i] = (s \o t)[i + 1]
  BY <1>1, <1>2, HeadTailProperties
<1>7. Len(Tail(s \o t)) = Len(Tail(s) \o t)
  BY <1>1, <1>3, <1>4, <1>5, <1>6
<1>8. ASSUME NEW i \in 1..Len(Tail(s \o t))
      PROVE  Tail(s \o t)[i] = (Tail(s) \o t)[i]
  <2>1. i \in Nat \ {0} /\ i + 1 \in 1..Len(s) + Len(t) /\ i \in 1..Len(Tail(s)) + Len(t)
    BY <1>1, <1>3, <1>4, <1>6
  <2>2. Tail(s \o t)[i] = IF i + 1 <= Len(s) THEN s[i + 1] ELSE t[i + 1 - Len(s)]
    BY <1>1, <1>6, <2>1
  <2>3. (Tail(s) \o t)[i] = IF i <= Len(Tail(s)) THEN Tail(s)[i] ELSE t[i - Len(Tail(s))]
    BY <1>5, <2>1
  <2>4. CASE i + 1 <= Len(s)
    <3>1. i \in 1..Len(Tail(s)) /\ i <= Len(Tail(s))
      BY <1>3, <1>4, <2>1, <2>4
    <3> QED
      BY <1>4, <2>2, <2>3, <2>4, <3>1
  <2>5. CASE ~(i + 1 <= Len(s))
    <3>1. ~(i <= Len(Tail(s))) /\ i - Len(Tail(s)) = i + 1 - Len(s)
      BY <1>3, <1>4, <2>1, <2>5
    <3> QED
      BY <2>2, <2>3, <2>5, <3>1
  <2> QED
    BY <2>4, <2>5
<1> QED
  BY <1>2, <1>5, <1>6, <1>7, <1>8, SeqEqual

\* The flag and the events tell one story: up to the first overlap every step of
\* the receiver is a change of the bus with its event, the actor's taking of the
\* next event, or no step of the bus at all.
LEMMA BusStep ==
  ASSUME IInv, IInv', [Next]_vars, ~overlapped'
  PROVE  Bus!Next \/ UNCHANGED Bus!busVars
<1> USE DEF Bus!busVars
<1>1. ~overlapped
  BY DEF Next, AudioInit, AudioProcess, Drop, Step, Raise, Announce, Lower, Retract,
     Mute, HandleMediaEvent, NoteOverlap
<1>2. AloneInv /\ FlagInv /\ AloneInv'
  BY <1>1 DEF IInv, StoryInv
<1>3. Types
  BY DEF IInv
<1>4. events \in Seq({"AirPlayStarted", "AirPlayEnded"})
  BY <1>3 DEF Types
<1>5. events \o <<>> = events
  BY <1>4, ConcatEmptySeq
<1>6. ASSUME NEW s \in Sessions, AudioInit(s) \/ Drop(s)
      PROVE  UNCHANGED <<active, events \o Unsent>>
  <2>1. \A t \in Sessions : at[t] \in {"closed", "open"}
    BY <1>6 DEF AudioInit, Drop, NoteOverlap, Changing
  <2>2. /\ at'[s] \notin {"announcing", "retracting"}
        /\ \A t \in Sessions \ {s} : at'[t] = at[t]
    BY <1>3, <1>6 DEF AudioInit, Drop, Go, Types
  <2>3. Unsent = <<>> /\ Unsent' = <<>>
    BY <2>1, <2>2 DEF Unsent
  <2> QED
    BY <1>6, <2>3 DEF AudioInit, Drop
<1>7. ASSUME NEW s \in Sessions, Step(s)
      PROVE  Bus!Next \/ UNCHANGED <<active, events \o Unsent>>
  <2>1. at[s] \notin {"closed", "open"} /\ \A t \in Sessions \ {s} : at'[t] = at[t]
    BY <1>3, <1>7 DEF Step, Raise, Announce, Lower, Retract, Mute, Go, Types
  <2>2. \A t \in Sessions \ {s} : at[t] = "closed" /\ at'[t] = "closed"
    BY <1>2, <2>1 DEF AloneInv
  <2>3. active <=> at[s] \in {"announcing", "lowering"}
    BY <1>2, <2>1, <2>2 DEF FlagInv, In
  <2>4. Unsent = IF at[s] = "announcing" THEN <<"AirPlayStarted">>
                 ELSE IF at[s] = "retracting" THEN <<"AirPlayEnded">>
                 ELSE <<>>
    BY <1>2, <2>1, UnsentAlone
  <2>5. Unsent' = IF at'[s] = "announcing" THEN <<"AirPlayStarted">>
                  ELSE IF at'[s] = "retracting" THEN <<"AirPlayEnded">>
                  ELSE <<>>
    BY <2>2 DEF Unsent
  <2>6. CASE Raise(s)
    <3>1. at[s] = "raising" /\ at'[s] = "announcing" /\ active' = TRUE /\ events' = events
      BY <1>3, <2>3, <2>6 DEF Raise, Go, Types
    <3>2. active = FALSE
      BY <1>3, <2>3, <3>1 DEF Types
    <3>3. Unsent = <<>> /\ Unsent' = <<"AirPlayStarted">>
      BY <2>4, <2>5, <3>1
    <3>4. (events \o Unsent)' = Append(events \o Unsent, "AirPlayStarted")
      BY <1>4, <1>5, <3>1, <3>3
    <3> QED
      BY <3>1, <3>2, <3>4 DEF Bus!Next, Bus!Change
  <2>7. CASE Lower(s)
    <3>1. at[s] = "lowering" /\ at'[s] = "retracting" /\ active' = FALSE /\ events' = events
      BY <1>3, <2>3, <2>7 DEF Lower, Go, Types
    <3>2. active = TRUE
      BY <1>3, <2>3, <3>1 DEF Types
    <3>3. Unsent = <<>> /\ Unsent' = <<"AirPlayEnded">>
      BY <2>4, <2>5, <3>1
    <3>4. (events \o Unsent)' = Append(events \o Unsent, "AirPlayEnded")
      BY <1>4, <1>5, <3>1, <3>3
    <3> QED
      BY <3>1, <3>2, <3>4 DEF Bus!Next, Bus!Change
  <2>8. CASE Announce(s)
    <3>1. at[s] = "announcing" /\ at'[s] = "open" /\ active' = active
          /\ events' = Append(events, "AirPlayStarted")
      BY <1>3, <2>8 DEF Announce, Go, Types
    <3>2. Unsent = <<"AirPlayStarted">> /\ Unsent' = <<>>
      BY <2>4, <2>5, <3>1
    <3> QED
      BY <1>4, <3>1, <3>2, ConcatEmptySeq
  <2>9. CASE Retract(s)
    <3>1. at[s] = "retracting" /\ at'[s] = "muting" /\ active' = active
          /\ events' = Append(events, "AirPlayEnded")
      BY <1>3, <2>9 DEF Retract, Go, Types
    <3>2. Unsent = <<"AirPlayEnded">> /\ Unsent' = <<>>
      BY <2>4, <2>5, <3>1
    <3> QED
      BY <1>4, <3>1, <3>2, ConcatEmptySeq
  <2>10. CASE Mute(s)
    <3>1. at[s] = "muting" /\ at'[s] = "closed" /\ active' = active /\ events' = events
      BY <1>3, <2>10 DEF Mute, Go, Types
    <3> QED
      BY <2>4, <2>5, <3>1
  <2> QED
    BY <1>7, <2>6, <2>7, <2>8, <2>9, <2>10 DEF Step
<1>8. CASE HandleMediaEvent
  <2>1. /\ events # <<>> /\ events' = Tail(events)
        /\ active' = active /\ Unsent' = Unsent
    BY <1>8 DEF HandleMediaEvent, Unsent
  <2>2. Unsent \in Seq({"AirPlayStarted", "AirPlayEnded"})
    <3>1. Unsent \in {<<>>, <<"AirPlayStarted">>, <<"AirPlayEnded">>}
      BY DEF Unsent
    <3>2. <<>> \in Seq({"AirPlayStarted", "AirPlayEnded"})
      BY EmptySeq
    <3>3. <<"AirPlayStarted">> \in Seq({"AirPlayStarted", "AirPlayEnded"})
      OBVIOUS
    <3>4. <<"AirPlayEnded">> \in Seq({"AirPlayStarted", "AirPlayEnded"})
      OBVIOUS
    <3> QED
      BY <3>1, <3>2, <3>3, <3>4
  <2>3. events \o Unsent # <<>> /\ Tail(events \o Unsent) = Tail(events) \o Unsent
    BY <1>4, <2>1, <2>2, TailOfConcat
  <2> QED
    BY <2>1, <2>3 DEF Bus!Next, Bus!Take
<1>9. CASE (\E s \in Sessions : AudioProcess(s)) \/ UNCHANGED vars
  BY <1>9 DEF AudioProcess, Unsent
<1> QED
  BY <1>6, <1>7, <1>8, <1>9 DEF Next

\* AirPlaySessions implements MediaBus up to the first overlap: the actor that
\* takes the events learns every change of the flag once and in order
\* (set_airplay_active, handle_media_event).
THEOREM ImplementsMediaBus == Spec => BusSpec
<1>1. Init => Bus!Init
  <2> SUFFICES ASSUME Init PROVE Bus!Init
    OBVIOUS
  <2>1. Unsent = <<>>
    BY UnsentNone DEF Init
  <2> QED
    BY <2>1 DEF Init, Bus!Init
<1>2. IInv /\ IInv' /\ [Next]_vars => [overlapped' \/ Bus!Next]_(Bus!busVars)
  BY BusStep
<1> QED
  BY <1>1, <1>2, IInvAlways, PTL DEF Spec, BusSpec
=============================================================================

-------------------------- MODULE MusicActorProofs --------------------------
(* Theorems about MusicActor, for every value of its constants.             *)
EXTENDS MusicActor, SequenceTheorems, TLAPS

LEMMA ShufflesType ==
  ASSUME NEW s \in Seq(Songs), NEW t \in Shuffles(s)
  PROVE  t \in Seq(Songs)
<1>1. PICK p \in [DOMAIN s -> DOMAIN s] : t = [i \in DOMAIN s |-> s[p[i]]]
  BY DEF Shuffles, Bijection, Injection, Surjection
<1> QED
  BY <1>1

LEMMA OrderedType ==
  ASSUME NEW s \in Seq(Songs), NEW t \in Ordered(s)
  PROVE  t \in Seq(Songs)
BY ShufflesType DEF Ordered

LEMMA ResultsType == Results \subseteq Seq(Songs)
<1> SUFFICES ASSUME NEW s \in Results
             PROVE  s \in Seq(Songs)
  OBVIOUS
<1>1. PICK n \in Nat : s \in [1..n -> Songs]
  BY BoundsAssumption DEF Results
<1> QED
  BY <1>1


USE DEF mailboxes, songsVars, modes, failureVars, locals, processes, tasks, bounds, ghosts

\* What a pause or an event that may be one does
Pausing(source, value) ==
  SetPause(source, value) \/ UNCHANGED <<pauseActive, current, stopped, led>>

LEMMA WakePauses == HandleWake => \E value \in BOOLEAN : Pausing("Wake", value)
BY DEF HandleWake, Heed, Pausing

LEMMA AirPlayPauses == HandleAirPlay => \E value \in BOOLEAN : Pausing("AirPlay", value)
BY DEF HandleAirPlay, Heed, Pausing

LEMMA SetPauseType ==
  ASSUME TypeOK, NEW source \in Sources, NEW value \in BOOLEAN, Pausing(source, value)
  PROVE  /\ current' \in Track \cup {NoTrack}
         /\ stopped' \subseteq live
         /\ led' \in {"Idle", "Playing", "Paused"}
         /\ pauseActive' \subseteq {"Wake", "AirPlay"}
<1> DEFINE track == [current EXCEPT !.pausedBy = Put(source, value, @)]
<1>0. CASE UNCHANGED <<pauseActive, current, stopped, led>>
  BY <1>0 DEF TypeOK
<1>1. pauseActive' \subseteq {"Wake", "AirPlay"}
  BY DEF Pausing, SetPause, PauseTrack, Flags, Put, Sources, TypeOK
<1>2. CASE ~Playing /\ SetPause(source, value)
  BY <1>1, <1>2 DEF SetPause, PauseTrack, Flags, Put, TypeOK
<1>3. CASE Playing /\ SetPause(source, value)
  <2>1. current \in Track
    BY <1>3 DEF TypeOK, Playing
  <2>2. track \in Track
    BY <2>1 DEF Put, Track, Sources
  <2>3. current' = track
    BY <1>3 DEF SetPause, PauseTrack, Flags, Put
  <2>4. stopped' \subseteq live /\ led' \in {"Idle", "Playing", "Paused"}
    BY <1>3 DEF SetPause, PauseTrack, Flags, Put, TypeOK
  <2> QED
    BY <1>1, <2>2, <2>3, <2>4
<1> QED
  BY <1>0, <1>2, <1>3 DEF Pausing

LEMMA ReceiveType ==
  ASSUME rx \in Seq(Message), NEW m, Receive(m)
  PROVE  rx' \in Seq(Message) /\ pc = "select"
BY DEF Receive

LEMMA StopCurrentType ==
  ASSUME TypeOK, NEW reason \in EndReasons, StopCurrent(reason)
  PROVE  /\ current' \in Track \cup {NoTrack}
         /\ stopped' \subseteq live
         /\ killTimers' \subseteq Nat
         /\ kicks' \in Nat
<1>1. CASE ~Playing
  <2>1. Kick(reason) /\ UNCHANGED <<current, stopped, killTimers>>
    BY <1>1 DEF StopCurrent
  <2>2. kicks' \in Nat
    BY <2>1 DEF Kick, TypeOK
  <2> QED
    BY <2>1, <2>2 DEF TypeOK
<1>2. CASE Playing
  <2>1. current \in Track
    BY <1>2 DEF TypeOK, Playing
  <2> QED
    BY <1>2, <2>1 DEF StopCurrent, Terminate, TypeOK, Track
<1> QED
  BY <1>1, <1>2


(* One lemma per group of actions: each preserves the types.                *)

LEMMA ReturnType ==
  ASSUME TypeOK, Return
  PROVE  /\ pc' = "select" /\ retryCount' = 0 /\ selected' = NoSong
         /\ prefetches' \subseteq [epoch : Nat, selected : Songs]
BY DEF Return, Prefetch, TypeOK

LEMMA UpdateActiveType ==
  ASSUME UpdateActive
  PROVE  active' \in BOOLEAN
BY DEF UpdateActive

LEMMA ResetCooldownType ==
  ASSUME ResetCooldown
  PROVE  retryScheduled' \in BOOLEAN /\ cooldowns' \in Nat
<1>1. retryScheduled' \in BOOLEAN
  BY DEF ResetCooldown
<1>2. cooldowns' \in Nat
  BY DEF ResetCooldown
<1> QED
  BY <1>1, <1>2

LEMMA MessageTypes ==
  /\ \A c \in Commands : Execute(c) \in Message
  /\ \A e \in Events : [type |-> e] \in Message
  /\ \A g \in Nat : \A ok \in BOOLEAN : Exited(g, ok) \in Message
  /\ \A g \in Nat : [type |-> "ForceKill", generation |-> g] \in Message
  /\ \A e \in Nat : \A songs \in Seq(Songs) :
       [type |-> "AppendQueue", epoch |-> e, songs |-> songs] \in Message
  /\ \A e \in Nat : [type |-> "RetryQueue", epoch |-> e] \in Message
BY DEF Message, Execute, Exited

LEMMA CommandType == TypeOK /\ ExecuteCommand => TypeOK'
<1> SUFFICES ASSUME TypeOK, ExecuteCommand
             PROVE  TypeOK'
  OBVIOUS
<1> USE DEF Execute
<1>0. rx' \in Seq(Message) /\ pc = "select"
  BY ReceiveType DEF ExecuteCommand, ExecutePause, ExecuteResume, ExecuteNext,
     ExecutePrevious, ExecuteStop, ExecuteShuffle, ExecuteRepeat, ExecuteSearch,
     RejectSearch, TypeOK
<1>1. CASE ExecutePause
  BY <1>0, <1>1, SetPauseType DEF TypeOK, ExecutePause, Pausing, Sources
<1>2. CASE ExecuteResume
  BY <1>0, <1>2, SetPauseType DEF TypeOK, ExecuteResume, Pausing, Sources
<1>3. CASE ExecuteNext
  BY <1>0, <1>3, StopCurrentType DEF TypeOK, ExecuteNext, EndReasons
<1>4. CASE ExecutePrevious
  <2>1. CASE history = <<>>
    BY <1>0, <1>4, <2>1 DEF TypeOK, ExecutePrevious
  <2>2. CASE history # <<>>
    <3> DEFINE last == history[Len(history)]
               again == IF Playing THEN <<last, current.song>> ELSE <<last>>
    <3>1. last \in Songs /\ SubSeq(history, 1, Len(history) - 1) \in Seq(Songs)
      BY <2>2 DEF TypeOK
    <3>2. Playing => current.song \in Songs
      BY DEF TypeOK, Playing, Track
    <3>3. again \in Seq(Songs)
      BY <3>1, <3>2
    <3>4. /\ history' = SubSeq(history, 1, Len(history) - 1)
          /\ played' = played \ Range(again)
          /\ queue' = again \o queue
          /\ StopCurrent("Previous")
          /\ intent' = "play"
      BY <1>4, <2>2 DEF ExecutePrevious, PlayedAfter
    <3>5. queue' \in Seq(Songs) /\ played' \subseteq Songs
      BY <3>3, <3>4 DEF TypeOK
    <3> QED
      BY <1>0, <1>4, <3>1, <3>4, <3>5, StopCurrentType DEF TypeOK, ExecutePrevious, EndReasons
  <2> QED
    BY <2>1, <2>2
<1>5. CASE ExecuteStop
  <2>1. queue' \in Seq(Songs) /\ history' \in Seq(Songs) /\ played' \subseteq Songs
    BY <1>5 DEF ExecuteStop
  <2>2. epoch' \in Nat /\ cooldowns' \in Nat /\ retryScheduled' \in BOOLEAN
    BY <1>5, ResetCooldownType DEF ExecuteStop, NextEpoch, TypeOK
  <2>3. active' \in BOOLEAN
    BY <1>5, UpdateActiveType DEF ExecuteStop
  <2>4. /\ current' \in Track \cup {NoTrack} /\ stopped' \subseteq live
        /\ killTimers' \subseteq Nat /\ kicks' \in Nat
    BY <1>5, StopCurrentType DEF ExecuteStop, EndReasons
  <2> QED
    BY <1>0, <1>5, <2>1, <2>2, <2>3, <2>4 DEF TypeOK, ExecuteStop
<1>6. CASE ExecuteShuffle
  BY <1>0, <1>6, ShufflesType DEF TypeOK, ExecuteShuffle
<1>7. CASE ExecuteRepeat
  BY <1>0, <1>7 DEF TypeOK, ExecuteRepeat, RepeatModes
<1>8. CASE ExecuteSearch
  BY <1>0, <1>8 DEF TypeOK, ExecuteSearch
<1>9. CASE RejectSearch
  BY <1>0, <1>9 DEF TypeOK, RejectSearch
<1> QED
  BY <1>1, <1>2, <1>3, <1>4, <1>5, <1>6, <1>7, <1>8, <1>9 DEF ExecuteCommand

LEMMA ReplaceQueueType ==
  ASSUME TypeOK, NEW songs \in Seq(Songs), NEW song \in Songs \cup {NoSong},
         ReplaceQueue(songs, song)
  PROVE  TypeOK'
<1>1. queue' \in Seq(Songs)
  BY OrderedType DEF ReplaceQueue
<1>2. prefetches' \subseteq [epoch : Nat, selected : Songs]
  BY DEF ReplaceQueue, Prefetch, NextEpoch, TypeOK
<1>3. \/ StopCurrent("Replace") /\ UpdateActive /\ pc' = "select" /\ UNCHANGED locals
      \/ /\ pc' = "starting" /\ retryCount' = 0 /\ selected' = song
         /\ UNCHANGED <<current, active, stopped, killTimers, kicks>>
  BY DEF ReplaceQueue, StartNext
<1>4. /\ current' \in Track \cup {NoTrack} /\ stopped' \subseteq live
      /\ killTimers' \subseteq Nat /\ kicks' \in Nat
  BY <1>3, StopCurrentType DEF EndReasons, TypeOK
<1>5. active' \in BOOLEAN
  BY <1>3, UpdateActiveType DEF TypeOK
<1>6. /\ pc' \in {"select", "searchSong", "searchList", "starting"}
      /\ retryCount' \in Nat /\ selected' \in Songs \cup {NoSong}
  BY <1>3 DEF TypeOK
<1>7. /\ epoch' = epoch + 1 /\ failures' = 0
      /\ history' = <<>> /\ played' = {} /\ intent' = "play" /\ crashes' = 0
      /\ UNCHANGED <<mailboxes, generation, pauseActive, modes, led, airplayActive, live,
                     killed, retryTimers, bounds>>
  BY DEF ReplaceQueue, NextEpoch
<1>8. history' \in Seq(Songs)
  BY <1>7
<1>9. retryScheduled' \in BOOLEAN /\ cooldowns' \in Nat
  BY ResetCooldownType DEF ReplaceQueue
<1> QED
  BY <1>1, <1>2, <1>4, <1>5, <1>6, <1>7, <1>8, <1>9 DEF TypeOK

LEMMA SearchType == TypeOK /\ Search => TypeOK'
<1> SUFFICES ASSUME TypeOK, Search
             PROVE  TypeOK'
  OBVIOUS
<1>1. CASE SearchFailed
  BY <1>1 DEF TypeOK, SearchFailed
<1>2. CASE SongFound
  <2>1. PICK song \in Songs : ReplaceQueue(<<song>>, song)
    BY <1>2 DEF SongFound
  <2>2. <<song>> \in Seq(Songs)
    OBVIOUS
  <2> QED
    BY <2>1, <2>2, ReplaceQueueType
<1>3. CASE ListFound
  BY <1>3, ReplaceQueueType, ResultsType DEF ListFound
<1> QED
  BY <1>1, <1>2, <1>3 DEF Search

LEMMA StartType == TypeOK /\ Start => TypeOK'
<1> SUFFICES ASSUME TypeOK, Start
             PROVE  TypeOK'
  OBVIOUS
<1>0. queue # <<>> => Head(queue) \in Songs /\ Tail(queue) \in Seq(Songs)
  BY DEF TypeOK
<1>1. CASE SkipPlayed
  BY <1>0, <1>1 DEF TypeOK, SkipPlayed
<1>2. CASE StartPlayer
  <2>1. current' \in Track
    BY <1>0, <1>2 DEF TypeOK, StartPlayer, NewTrack, Track, EndReasons, Sources
  <2> QED
    BY <1>0, <1>2, <2>1, ReturnType, UpdateActiveType DEF TypeOK, StartPlayer
<1>3. CASE CoolDown
  BY <1>3, ReturnType, UpdateActiveType DEF TypeOK, CoolDown, ScheduleRetry, LedOff
<1>4. CASE CoolDownExhausted
  <2>1. queue' \in Seq(Songs)
    BY <1>4 DEF CoolDownExhausted
  <2> QED
    BY <1>4, <2>1, ReturnType, UpdateActiveType, ResetCooldownType
       DEF TypeOK, CoolDownExhausted, LedOff
<1>5. CASE StartFailed
  BY <1>0, <1>5 DEF TypeOK, StartFailed
<1>6. CASE QueueExhausted
  BY <1>6, ReturnType, UpdateActiveType DEF TypeOK, QueueExhausted, LedOff
<1> QED
  BY <1>1, <1>2, <1>3, <1>4, <1>5, <1>6 DEF Start

LEMMA ExitType == TypeOK /\ HandleExit => TypeOK'
<1> SUFFICES ASSUME TypeOK, HandleExit
             PROVE  TypeOK'
  OBVIOUS
<1>0. rx' \in Seq(Message) /\ pc = "select"
  BY ReceiveType DEF HandleExit, ExitWithoutPlayer, ExitIgnored, ExitAfterStop,
     ExitAfterSwitch, RetryAfterExit, TrackEnded, ExitOfCurrent, ReceiveExit, TypeOK
<1>1. CASE ExitWithoutPlayer
  BY <1>0, <1>1 DEF TypeOK, ExitWithoutPlayer, StartNext
<1>2. CASE ExitIgnored
  BY <1>0, <1>2 DEF TypeOK, ExitIgnored
<1>3. CASE ExitAfterStop
  BY <1>0, <1>3, UpdateActiveType DEF TypeOK, ExitAfterStop, ExitOfCurrent, LedOff
<1>4. CASE ExitAfterSwitch
  <2>1. current.song \in Songs
    BY <1>4 DEF TypeOK, ExitAfterSwitch, ExitOfCurrent, Playing, Track
  <2> QED
    BY <1>0, <1>4, <2>1 DEF TypeOK, ExitAfterSwitch, ExitOfCurrent, LedOff, StartNext
<1>5. CASE RetryAfterExit
  <2>1. current.song \in Songs /\ current.retries \in Nat
    BY <1>5 DEF TypeOK, RetryAfterExit, ExitOfCurrent, Playing, Track
  <2> QED
    BY <1>0, <1>5, <2>1 DEF TypeOK, RetryAfterExit, ExitOfCurrent, LedOff, StartNext
<1>6. CASE TrackEnded
  <2>1. PICK ok \in BOOLEAN :
          /\ ExitOfCurrent(ok)
          /\ failures' = IF ok THEN 0 ELSE failures + 1
          /\ crashes' = IF ok THEN 0 ELSE crashes + 1
    BY <1>6 DEF TrackEnded
  <2>2. current.song \in Songs
    BY <2>1 DEF TypeOK, ExitOfCurrent, Playing, Track
  <2> DEFINE again == repeatMode = "one"
             left == IF again THEN <<current.song>> \o queue ELSE queue
             ended == IF again THEN history ELSE Append(history, current.song)
             kept == IF again THEN played \ {current.song} ELSE played
             refill == left = <<>> /\ repeatMode = "all" /\ ended # <<>>
  <2>3. left \in Seq(Songs) /\ ended \in Seq(Songs) /\ kept \subseteq Songs
    BY <2>2 DEF TypeOK
  <2>4. \/ /\ failures' >= FailureLimit
           /\ queue' = <<>> /\ history' = ended /\ played' = kept
           /\ UpdateActive
           /\ UNCHANGED <<pc, retryCount>>
        \/ /\ failures' < FailureLimit
           /\ queue' \in IF refill THEN Ordered(ended) ELSE {left}
           /\ history' = IF refill THEN <<>> ELSE ended
           /\ played' = IF refill THEN {} ELSE kept
           /\ StartNext(0)
           /\ UNCHANGED active
    BY <1>6 DEF TrackEnded
  <2> HIDE DEF left, ended, kept, refill
  <2>5. queue' \in Seq(Songs) /\ history' \in Seq(Songs) /\ played' \subseteq Songs
    <3>1. queue' = <<>> => queue' \in Seq(Songs)
      OBVIOUS
    <3>2. \A t \in Ordered(ended) : t \in Seq(Songs)
      BY <2>3, OrderedType
    <3>3. queue' = <<>> \/ queue' \in Ordered(ended) \/ queue' = left
      BY <2>4
    <3>4. history' = ended \/ history' = <<>>
      BY <2>4
    <3>5. played' = kept \/ played' = {}
      BY <2>4
    <3>6. queue' \in Seq(Songs)
      BY <2>3, <3>1, <3>2, <3>3
    <3>7. history' \in Seq(Songs)
      <4>1. history' = <<>> => history' \in Seq(Songs)
        OBVIOUS
      <4> QED
        BY <2>3, <3>4, <4>1
    <3> QED
      BY <2>3, <3>5, <3>6, <3>7
  <2>6. pc' \in {"select", "starting"} /\ retryCount' \in Nat /\ active' \in BOOLEAN
    BY <1>0, <2>4, UpdateActiveType DEF TypeOK, StartNext
  <2> QED
    BY <1>0, <2>1, <2>5, <2>6 DEF TypeOK, ExitOfCurrent, LedOff
<1> QED
  BY <1>1, <1>2, <1>3, <1>4, <1>5, <1>6 DEF HandleExit

LEMMA OtherMessageType ==
  TypeOK /\ (HandleWake \/ HandleAirPlay \/ HandleForceKill \/ HandleAppendQueue
             \/ HandleRetryQueue) => TypeOK'
<1> SUFFICES ASSUME TypeOK
             PROVE  (HandleWake \/ HandleAirPlay \/ HandleForceKill
                      \/ HandleAppendQueue \/ HandleRetryQueue) => TypeOK'
  OBVIOUS
<1>1. ASSUME HandleWake PROVE TypeOK'
  BY <1>1, WakePauses, SetPauseType, ReceiveType DEF TypeOK, HandleWake, Sources
<1>2. ASSUME HandleAirPlay PROVE TypeOK'
  <2>1. PICK value \in BOOLEAN : Pausing("AirPlay", value)
    BY <1>2, AirPlayPauses
  <2>2. mediaEvents' \in Seq(MediaEvents)
    BY <1>2 DEF TypeOK, HandleAirPlay
  <2> QED
    BY <1>2, <2>1, <2>2, SetPauseType DEF TypeOK, HandleAirPlay, Sources
<1>3. ASSUME HandleForceKill PROVE TypeOK'
  BY <1>3, ReceiveType DEF TypeOK, HandleForceKill
<1>4. ASSUME HandleAppendQueue PROVE TypeOK'
  <2>1. rx' \in Seq(Message)
    BY <1>4 DEF TypeOK, HandleAppendQueue
  <2>2. queue' \in Seq(Songs)
    <3>1. \/ queue' = queue
          \/ \E more \in Results : queue' = queue \o more
      BY <1>4 DEF HandleAppendQueue, Appended
    <3> QED
      <4>1. \A more \in Results : queue \o more \in Seq(Songs)
        BY ResultsType DEF TypeOK
      <4> QED
        BY <3>1, <4>1 DEF TypeOK
  <2>3. pc' \in {"select", "starting"} /\ retryCount' \in Nat
    BY <1>4 DEF TypeOK, HandleAppendQueue, StartNext
  <2>4. active' = active \/ active' = (Playing \/ queue' # <<>>)
    BY <1>4 DEF HandleAppendQueue
  <2>5. active' \in BOOLEAN
    BY <2>4 DEF TypeOK
  <2> QED
    BY <1>4, <2>1, <2>2, <2>3, <2>5 DEF TypeOK, HandleAppendQueue
<1>5. ASSUME HandleRetryQueue PROVE TypeOK'
  BY <1>5, ReceiveType DEF TypeOK, HandleRetryQueue, StartNext
<1> QED
  BY <1>1, <1>2, <1>3, <1>4, <1>5

LEMMA WorldType == TypeOK /\ World => TypeOK'
<1> SUFFICES ASSUME TypeOK, World
             PROVE  TypeOK'
  OBVIOUS
<1> USE DEF Deliver
<1>1. CASE Request
  <2>1. rx' \in Seq(Message)
    <3>1. PICK m \in Message : rx' = Append(rx, m)
      BY <1>1, MessageTypes DEF Request
    <3> QED
      BY <3>1 DEF TypeOK
  <2> QED
    BY <1>1, <2>1 DEF TypeOK, Request
<1>2. CASE AirPlayChanges
  BY <1>2 DEF TypeOK, AirPlayChanges, MediaEvents
<1>3. ASSUME NEW g \in live, PlayerExits(g) PROVE TypeOK'
  <2>1. rx' \in Seq(Message)
    BY <1>3, MessageTypes DEF TypeOK, PlayerExits, Report
  <2> QED
    BY <1>3, <2>1 DEF TypeOK, PlayerExits
<1>4. ASSUME NEW g \in killTimers, KillTimerFires(g) PROVE TypeOK'
  BY <1>4, MessageTypes DEF TypeOK, KillTimerFires
<1>5. CASE RetryTimerFires
  <2>1. PICK i \in DOMAIN retryTimers :
          /\ rx' = Append(rx, [type |-> "RetryQueue", epoch |-> retryTimers[i]])
          /\ retryTimers' = SubSeq(retryTimers, 1, i - 1)
                              \o SubSeq(retryTimers, i + 1, Len(retryTimers))
    BY <1>5 DEF RetryTimerFires
  <2>2. retryTimers[i] \in Nat /\ i \in 1..Len(retryTimers)
    BY DEF TypeOK
  <2>3. rx' \in Seq(Message)
    BY <2>1, <2>2, MessageTypes DEF TypeOK
  <2>4. /\ SubSeq(retryTimers, 1, i - 1) \in Seq(Nat)
        /\ SubSeq(retryTimers, i + 1, Len(retryTimers)) \in Seq(Nat)
    BY <2>2 DEF TypeOK
  <2>5. retryTimers' \in Seq(Nat)
    BY <2>1, <2>4
  <2> QED
    BY <1>5, <2>3, <2>5 DEF TypeOK, RetryTimerFires
<1>6. CASE KickArrives
  <2>1. PICK m \in Message : rx' = Append(rx, m)
    BY <1>6, MessageTypes DEF KickArrives
  <2>2. rx' \in Seq(Message)
    BY <2>1 DEF TypeOK
  <2>3. kicks > 0 /\ kicks' = kicks - 1
    BY <1>6 DEF KickArrives
  <2>4. kicks' \in Nat
    BY <2>3 DEF TypeOK
  <2>5. UNCHANGED <<pc, mediaEvents, songsVars, current, generation, epoch, failureVars,
                    pauseActive, modes, locals, active, led, airplayActive, processes,
                    killTimers, retryTimers, prefetches, bounds, ghosts>>
    BY <1>6 DEF KickArrives
  <2> QED
    BY <2>2, <2>4, <2>5 DEF TypeOK
<1>7. CASE PrefetchEnds
  <2>1. PICK p \in prefetches :
          /\ prefetches' = prefetches \ {p}
          /\ \/ \E songs \in Results :
                  rx' = Append(rx, [type |-> "AppendQueue", epoch |-> p.epoch, songs |-> songs])
             \/ rx' = rx
    BY <1>7 DEF PrefetchEnds
  <2>2. p.epoch \in Nat
    BY DEF TypeOK
  <2>3. rx' \in Seq(Message)
    <3>1. \A songs \in Results :
            [type |-> "AppendQueue", epoch |-> p.epoch, songs |-> songs] \in Message
      BY <2>2, ResultsType, MessageTypes
    <3> QED
      <4>1. rx' = rx \/ \E m \in Message : rx' = Append(rx, m)
        BY <2>1, <3>1
      <4>2. rx \in Seq(Message)
        BY DEF TypeOK
      <4>3. CASE rx' = rx
        BY <4>2, <4>3
      <4>4. ASSUME NEW m \in Message, rx' = Append(rx, m)
            PROVE  rx' \in Seq(Message)
        BY <4>2, <4>4
      <4> QED
        BY <4>1, <4>3, <4>4
  <2> QED
    BY <1>7, <2>1, <2>3 DEF TypeOK, PrefetchEnds
<1> QED
  BY <1>1, <1>2, <1>3, <1>4, <1>5, <1>6, <1>7 DEF World

LEMMA TypeInductive == TypeOK /\ [Next]_vars => TypeOK'
<1>1. TypeOK /\ UNCHANGED vars => TypeOK'
  BY DEF TypeOK, vars
<1> QED
  BY <1>1, CommandType, SearchType, StartType, ExitType, OtherMessageType, WorldType
     DEF Next, HandleMessage

\* Every variable keeps its type, whatever the order of commands, exits and timers.
THEOREM Typing == Spec => []TypeOK
<1>1. Init => TypeOK
  <2> SUFFICES ASSUME Init
               PROVE  TypeOK
    OBVIOUS
  <2>1. /\ rx \in Seq(Message) /\ mediaEvents \in Seq(MediaEvents)
        /\ queue \in Seq(Songs) /\ history \in Seq(Songs) /\ retryTimers \in Seq(Nat)
    BY DEF Init
  <2> QED
    BY <2>1, ConfigAssumption DEF Init, TypeOK
<1> QED
  BY <1>1, TypeInductive, PTL DEF Spec

-----------------------------------------------------------------------------
(* One player at a time.  SinglePlayer is not inductive: that the actor may  *)
(* drop its track when an exit is reported rests on every report in the      *)
(* mailbox being about a process that is gone, and that it may start one     *)
(* rests on there being no track while a start is under way.                 *)

Accounting == SinglePlayer /\ PlayerAccounting

LEMMA MailOfTail ==
  ASSUME NEW q \in Seq(Message), q # <<>>
  PROVE  Head(q) \in Range(q) /\ Range(Tail(q)) \subseteq Range(q)
<1>1. Head(q) \in Range(q)
  BY DEF Range
<1>2. ASSUME NEW m \in Range(Tail(q)) PROVE m \in Range(q)
  <2>1. PICK i \in 1..Len(Tail(q)) : m = Tail(q)[i]
    BY DEF Range
  <2>2. i + 1 \in 1..Len(q) /\ m = q[i + 1]
    BY <2>1
  <2> QED
    BY <2>2 DEF Range
<1> QED
  BY <1>1, <1>2

LEMMA MailOfAppend ==
  ASSUME NEW q \in Seq(Message), NEW m
  PROVE  Range(Append(q, m)) \subseteq Range(q) \cup {m}
BY DEF Range

LEMMA ReceiveMail ==
  ASSUME TypeOK, NEW m, Receive(m)
  PROVE  m \in Range(rx) /\ Range(rx') \subseteq Range(rx) /\ pc = "select"
BY MailOfTail DEF Receive, TypeOK

\* The track keeps its player: unchanged, or marked, and never unmarked.
SamePlayer ==
  \/ current' = current
  \/ /\ Playing /\ Playing'
     /\ current'.generation = current.generation
     /\ current.ending # "None" => current'.ending # "None"

\* What a step must do: keep the accounts, and be a step of the lease or stutter.
Accounted == Accounting' /\ [Lease!Next]_(Lease!leaseVars)

LEMMA SetPauseKeepsPlayer ==
  ASSUME TypeOK, NEW source \in Sources, NEW value \in BOOLEAN, Pausing(source, value)
  PROVE  SamePlayer
<1>0. CASE UNCHANGED <<pauseActive, current, stopped, led>>
  BY <1>0 DEF SamePlayer
<1>1. CASE ~Playing /\ SetPause(source, value)
  BY <1>1 DEF SetPause, PauseTrack, Flags, Put, SamePlayer
<1>2. CASE Playing /\ SetPause(source, value)
  <2>1. current \in Track
    BY <1>2 DEF TypeOK, Playing
  <2>2. /\ current' \in Track /\ current'.generation = current.generation
        /\ current'.ending = current.ending
    BY <1>2, <2>1 DEF SetPause, PauseTrack, Flags, Put, Track, Sources
  <2> QED
    BY <1>2, <2>2, NoTrackAssumption DEF SamePlayer, Playing
<1> QED
  BY <1>0, <1>1, <1>2 DEF Pausing

LEMMA StopCurrentKeepsPlayer ==
  ASSUME TypeOK, NEW reason \in EndReasons \ {"None"}, StopCurrent(reason)
  PROVE  SamePlayer
<1>1. CASE current' = current
  BY <1>1 DEF SamePlayer
<1>2. CASE Playing /\ Terminate(reason)
  <2>1. current \in Track
    BY <1>2 DEF TypeOK, Playing
  <2>2. /\ current' \in Track /\ current'.generation = current.generation
        /\ current'.ending # "None"
    BY <1>2, <2>1 DEF Terminate, Track, EndReasons
  <2> QED
    BY <1>2, <2>2, NoTrackAssumption DEF SamePlayer, Playing
<1> QED
  BY <1>1, <1>2 DEF StopCurrent

\* A step that starts no player, loses none and reports no exit of one
LEMMA QuietStep ==
  ASSUME TypeOK, Accounting, SamePlayer, live' = live, generation' = generation,
         \A m \in Range(rx') : \/ m \in Range(rx)
                               \/ m.type # "PlayerExited"
                               \/ m.generation = 0,
         pc' = "starting" => ~Playing'
  PROVE  Accounted
<1>1. Playing' = Playing /\ (Playing => current'.generation = current.generation)
  BY DEF SamePlayer, Playing
<1>2. SinglePlayer'
  BY <1>1 DEF Accounting, SinglePlayer
<1>3. \A g \in live' : 0 < g /\ g <= generation'
  BY DEF Accounting, PlayerAccounting
<1>4. Playing' => 0 < current'.generation /\ current'.generation <= generation'
  BY <1>1 DEF Accounting, PlayerAccounting
<1>5. ASSUME NEW m \in Range(rx'), m.type = "PlayerExited"
      PROVE  m.generation <= generation' /\ m.generation \notin live'
  <2>1. CASE m \in Range(rx)
    BY <1>5, <2>1 DEF Accounting, PlayerAccounting
  <2>2. CASE m.generation = 0
    BY <1>3, <2>2 DEF TypeOK
  <2> QED
    BY <1>5, <2>1, <2>2
<1>6. Accounting'
  BY <1>2, <1>3, <1>4, <1>5 DEF Accounting, PlayerAccounting
<1>7. CASE live = {}
  BY <1>6, <1>7 DEF Accounted, Lease!leaseVars
<1>8. CASE live # {}
  <2>1. Playing /\ generation # 0
    <3>1. PICK g \in live : 0 < g /\ g <= generation
      BY <1>8 DEF Accounting, PlayerAccounting
    <3>2. Playing
      BY <1>8 DEF Accounting, SinglePlayer
    <3> QED
      BY <3>1, <3>2 DEF TypeOK
  <2>2. Playing' /\ (current.ending # "None" => current'.ending # "None")
    BY <1>1, <2>1 DEF SamePlayer
  <2> QED
    BY <1>6, <1>8, <2>1, <2>2 DEF Accounted, Lease!Next, Lease!Doom, Lease!leaseVars
<1> QED
  BY <1>7, <1>8

LEMMA CommandAccounting == TypeOK /\ Accounting /\ ExecuteCommand => Accounted
<1> SUFFICES ASSUME TypeOK, Accounting, ExecuteCommand
             PROVE  Accounted
  OBVIOUS
<1>1. Range(rx') \subseteq Range(rx) /\ pc = "select"
  BY ReceiveMail DEF ExecuteCommand, ExecutePause, ExecuteResume, ExecuteNext,
     ExecutePrevious, ExecuteStop, ExecuteShuffle, ExecuteRepeat, ExecuteSearch,
     RejectSearch
<1>2. live' = live /\ generation' = generation /\ pc' # "starting"
  BY <1>1 DEF ExecuteCommand, ExecutePause, ExecuteResume, ExecuteNext, ExecutePrevious,
     ExecuteStop, ExecuteShuffle, ExecuteRepeat, ExecuteSearch, RejectSearch
<1>3. SamePlayer
  <2>1. CASE ExecutePause \/ ExecuteResume
    BY <2>1, SetPauseKeepsPlayer DEF ExecutePause, ExecuteResume, Pausing, Sources
  <2>2. CASE ExecuteNext \/ ExecuteStop
    BY <2>2, StopCurrentKeepsPlayer DEF ExecuteNext, ExecuteStop, EndReasons
  <2>3. CASE ExecutePrevious
    <3>1. current' = current \/ StopCurrent("Previous")
      BY <2>3 DEF ExecutePrevious
    <3> QED
      BY <3>1, StopCurrentKeepsPlayer DEF SamePlayer, EndReasons
  <2>4. CASE ExecuteShuffle \/ ExecuteRepeat \/ ExecuteSearch \/ RejectSearch
    BY <2>4 DEF ExecuteShuffle, ExecuteRepeat, ExecuteSearch, RejectSearch, SamePlayer
  <2> QED
    BY <2>1, <2>2, <2>3, <2>4 DEF ExecuteCommand
<1> QED
  BY <1>1, <1>2, <1>3, QuietStep

LEMMA SearchAccounting == TypeOK /\ Accounting /\ Search => Accounted
<1> SUFFICES ASSUME TypeOK, Accounting, Search
             PROVE  Accounted
  OBVIOUS
<1>1. rx' = rx /\ live' = live /\ generation' = generation
  BY DEF Search, SearchFailed, SongFound, ListFound, ReplaceQueue
<1>2. SamePlayer /\ (pc' = "starting" => ~Playing')
  <2>1. CASE SearchFailed
    BY <2>1 DEF SearchFailed, SamePlayer
  <2>2. ASSUME NEW songs, NEW song, ReplaceQueue(songs, song)
        PROVE  SamePlayer /\ (pc' = "starting" => ~Playing')
    <3>1. CASE Playing
      BY <2>2, <3>1, StopCurrentKeepsPlayer DEF ReplaceQueue, EndReasons
    <3>2. CASE ~Playing
      BY <2>2, <3>2 DEF ReplaceQueue, SamePlayer, Playing
    <3> QED
      BY <3>1, <3>2
  <2> QED
    BY <2>1, <2>2 DEF Search, SongFound, ListFound
<1> QED
  BY <1>1, <1>2, QuietStep

LEMMA StartAccounting == TypeOK /\ Accounting /\ Start => Accounted
<1> SUFFICES ASSUME TypeOK, Accounting, Start
             PROVE  Accounted
  OBVIOUS
<1>1. rx' = rx /\ pc = "starting"
  BY DEF Start, SkipPlayed, StartPlayer, CoolDown, CoolDownExhausted, StartFailed,
     QueueExhausted
<1>2. ~Playing /\ live = {}
  BY <1>1 DEF Accounting, PlayerAccounting, SinglePlayer
<1>3. CASE StartPlayer
  <2>1. /\ generation' = generation + 1 /\ live' = {generation'}
        /\ current'.generation = generation' /\ pc' = "select"
        /\ current'.ending = "None"
    BY <1>2, <1>3 DEF StartPlayer, NewTrack, Return
  <2>2. current' \in Track
    BY <1>3, StartType DEF Start, TypeOK, StartPlayer, NewTrack, Track, EndReasons, Sources
  <2>3. Playing'
    BY <2>2, NoTrackAssumption DEF Playing
  <2>4. SinglePlayer'
    BY <2>1, <2>3 DEF SinglePlayer
  <2>5. \A m \in Range(rx) : m.type = "PlayerExited" =>
          m.generation <= generation
    BY DEF Accounting, PlayerAccounting
  <2>6. \A m \in Range(rx) : m.type = "PlayerExited" => m.generation \in Nat
    <3>1. \A m \in Range(rx) : m \in Message
      BY DEF TypeOK, Range
    <3>2. \A m \in Message : m.type = "PlayerExited" => m.generation \in Nat
      BY DEF Message, Events
    <3> QED
      BY <3>1, <3>2
  <2>7. generation \in Nat
    BY DEF TypeOK
  <2>8. Accounting'
    BY <1>1, <2>1, <2>3, <2>4, <2>5, <2>6, <2>7 DEF Accounting, PlayerAccounting
  <2>9. Lease!Acquire
    BY <1>2, <2>1, <2>7 DEF Lease!Acquire
  <2> QED
    BY <2>8, <2>9 DEF Accounted, Lease!Next
<1>4. CASE ~StartPlayer
  <2>1. current' = NoTrack /\ live' = live /\ generation' = generation
    BY <1>2, <1>4 DEF Start, SkipPlayed, CoolDown, CoolDownExhausted, StartFailed,
       QueueExhausted, Playing
  <2>2. SamePlayer /\ ~Playing'
    BY <1>2, <2>1 DEF SamePlayer, Playing
  <2> QED
    BY <1>1, <2>1, <2>2, QuietStep
<1> QED
  BY <1>3, <1>4

LEMMA ExitAccounting == TypeOK /\ Accounting /\ HandleExit => Accounted
<1> SUFFICES ASSUME TypeOK, Accounting, HandleExit
             PROVE  Accounted
  OBVIOUS
<1>1. CASE ExitWithoutPlayer
  <2>1. Range(rx') \subseteq Range(rx)
    BY <1>1, ReceiveMail DEF ExitWithoutPlayer, ReceiveExit
  <2> QED
    BY <1>1, <2>1, QuietStep DEF ExitWithoutPlayer, SamePlayer, Playing
<1>2. CASE ExitIgnored
  <2>1. Range(rx') \subseteq Range(rx) /\ pc = "select"
    BY <1>2, ReceiveMail DEF ExitIgnored, ReceiveExit
  <2> QED
    BY <1>2, <2>1, QuietStep DEF ExitIgnored, SamePlayer
<1>3. ASSUME NEW ok \in BOOLEAN, ExitOfCurrent(ok)
      PROVE  Accounted
  <2>1. /\ Exited(current.generation, ok) \in Range(rx)
        /\ Range(rx') \subseteq Range(rx)
    BY <1>3, ReceiveMail DEF ExitOfCurrent, ReceiveExit
  <2>2. current.generation \notin live
    BY <2>1 DEF Accounting, PlayerAccounting, Exited
  <2>3. current' = NoTrack /\ live' = live /\ generation' = generation
    BY <1>3 DEF ExitOfCurrent
  <2>4. live = {}
    BY <2>2 DEF Accounting, SinglePlayer
  <2> QED
    BY <2>1, <2>3, <2>4
       DEF Accounted, Accounting, PlayerAccounting, SinglePlayer, Playing, Lease!leaseVars
<1> QED
  BY <1>1, <1>2, <1>3 DEF HandleExit, ExitAfterStop, ExitAfterSwitch, RetryAfterExit,
     TrackEnded

LEMMA OtherMessageAccounting ==
  ASSUME TypeOK, Accounting,
         HandleWake \/ HandleAirPlay \/ HandleForceKill \/ HandleAppendQueue
           \/ HandleRetryQueue
  PROVE  Accounted
<1>1. Range(rx') \subseteq Range(rx) /\ pc = "select"
  <2>1. CASE HandleAppendQueue
    BY <2>1, MailOfTail DEF HandleAppendQueue, TypeOK
  <2> QED
    BY <2>1, ReceiveMail DEF HandleWake, HandleAirPlay, HandleForceKill, HandleRetryQueue
<1>2. live' = live /\ generation' = generation
  BY DEF HandleWake, HandleAirPlay, HandleForceKill, HandleAppendQueue, HandleRetryQueue
<1>3. SamePlayer
  <2>1. CASE HandleWake
    BY <2>1, WakePauses, SetPauseKeepsPlayer DEF HandleWake, Sources
  <2>2. CASE HandleAirPlay
    <3>1. PICK value \in BOOLEAN : Pausing("AirPlay", value)
      BY <2>2, AirPlayPauses
    <3> QED
      BY <3>1, SetPauseKeepsPlayer DEF Sources
  <2> QED
    BY <2>1, <2>2 DEF HandleForceKill, HandleAppendQueue, HandleRetryQueue, SamePlayer
<1>4. pc' = "starting" => ~Playing'
  BY <1>1 DEF HandleWake, HandleAirPlay, HandleForceKill, HandleAppendQueue,
     HandleRetryQueue, StartNext, MayStart, Playing
<1> QED
  BY <1>1, <1>2, <1>3, <1>4, QuietStep

LEMMA WorldAccounting == TypeOK /\ Accounting /\ World => Accounted
<1> SUFFICES ASSUME TypeOK, Accounting, World
             PROVE  Accounted
  OBVIOUS
<1>1. pc' = pc /\ current' = current /\ generation' = generation
  BY DEF World, Request, AirPlayChanges, PlayerExits, KillTimerFires, RetryTimerFires,
     KickArrives, PrefetchEnds
<1>2. SamePlayer /\ (pc' = "starting" => ~Playing')
  BY <1>1 DEF SamePlayer, Playing, Accounting, PlayerAccounting
<1>3. ASSUME NEW g \in live, PlayerExits(g)
      PROVE  Accounted
  <2>1. PICK ok \in BOOLEAN : rx' = Append(rx, Exited(g, ok))
    BY <1>3 DEF PlayerExits, Report, Deliver
  <2>2. Range(rx') \subseteq Range(rx) \cup {Exited(g, ok)}
    BY <2>1, MailOfAppend DEF TypeOK
  <2>3. live' = live \ {g}
    BY <1>3 DEF PlayerExits
  <2>4. \A m \in Range(rx') : m.type = "PlayerExited" =>
          m.generation <= generation' /\ m.generation \notin live'
    <3>1. Exited(g, ok).generation = g
      BY DEF Exited
    <3>2. g <= generation
      BY DEF Accounting, PlayerAccounting
    <3> QED
      BY <1>1, <2>2, <2>3, <3>1, <3>2 DEF Accounting, PlayerAccounting
  <2>5. SinglePlayer'
    BY <1>1, <2>3 DEF Accounting, SinglePlayer, Playing
  <2>6. Accounting'
    BY <1>1, <1>2, <2>3, <2>4, <2>5 DEF Accounting, PlayerAccounting, Playing
  <2>7. live # {} /\ live' = {} /\ generation # 0
    BY <2>3 DEF Accounting, SinglePlayer, PlayerAccounting, TypeOK
  <2>8. Lease!Release
    BY <1>1, <2>7 DEF Lease!Release
  <2> QED
    BY <2>6, <2>8 DEF Accounted, Lease!Next
<1>4. CASE KickArrives
  <2>1. rx' = Append(rx, Exited(0, FALSE))
    BY <1>4 DEF KickArrives, Deliver
  <2>2. Range(rx') \subseteq Range(rx) \cup {Exited(0, FALSE)}
    BY <2>1, MailOfAppend DEF TypeOK
  <2>3. Exited(0, FALSE).generation = 0
    BY DEF Exited
  <2>4. \A m \in Range(rx') : m \in Range(rx) \/ m.generation = 0
    BY <2>2, <2>3
  <2> QED
    BY <1>1, <1>2, <1>4, <2>4, QuietStep DEF KickArrives
<1>5. CASE Request \/ AirPlayChanges \/ RetryTimerFires \/ PrefetchEnds
             \/ \E g \in killTimers : KillTimerFires(g)
  <2>1. live' = live
    BY <1>5 DEF Request, AirPlayChanges, KillTimerFires, RetryTimerFires, PrefetchEnds
  <2>2. rx' = rx \/ \E m : m.type # "PlayerExited" /\ rx' = Append(rx, m)
    BY <1>5 DEF Request, AirPlayChanges, KillTimerFires, RetryTimerFires, PrefetchEnds,
       Deliver, Execute, Events
  <2>3. \A m \in Range(rx') : m \in Range(rx) \/ m.type # "PlayerExited"
    <3>1. ASSUME NEW m, m.type # "PlayerExited", rx' = Append(rx, m)
          PROVE  \A n \in Range(rx') : n \in Range(rx) \/ n.type # "PlayerExited"
      BY <3>1, MailOfAppend DEF TypeOK
    <3> QED
      BY <2>2, <3>1
  <2> QED
    BY <1>1, <1>2, <2>1, <2>3, QuietStep
<1> QED
  BY <1>3, <1>4, <1>5 DEF World

LEMMA AccountingInductive == TypeOK /\ Accounting /\ [Next]_vars => Accounted
<1>1. TypeOK /\ Accounting /\ UNCHANGED vars => Accounted
  BY DEF Accounted, Accounting, SinglePlayer, PlayerAccounting, Playing, vars,
     Lease!leaseVars
<1> QED
  BY <1>1, CommandAccounting, SearchAccounting, StartAccounting, ExitAccounting,
     OtherMessageAccounting, WorldAccounting DEF Next, HandleMessage

LEMMA AccountingAlways == Spec => []Accounting
<1>1. Init => Accounting
  BY DEF Init, Accounting, SinglePlayer, PlayerAccounting, Playing, Range
<1>2. TypeOK /\ Accounting /\ [Next]_vars => Accounting'
  BY AccountingInductive DEF Accounted
<1> QED
  BY <1>1, <1>2, Typing, PTL DEF Spec

\* At most one player process runs, whatever exits, kicks and kills are pending.
THEOREM OnePlayer == Spec => []SinglePlayer
<1>1. Accounting => SinglePlayer
  BY DEF Accounting
<1> QED
  BY <1>1, AccountingAlways, PTL

\* The actor implements the lease: a player starts only when the loudspeaker is
\* free, with a new generation, and a track told to end is never un-told.
THEOREM LeaseRefinement == Spec => LeaseSafety
<1>1. Init => Lease!Init
  BY DEF Init, Lease!Init
<1>2. TypeOK /\ Accounting /\ [Next]_vars => [Lease!Next]_(Lease!leaseVars)
  BY AccountingInductive DEF Accounted
<1> QED
  BY <1>1, <1>2, Typing, AccountingAlways, PTL DEF Spec, LeaseSafety, Lease!SafeSpec

-----------------------------------------------------------------------------
(* Pauses.  The bookkeeping of the pauses in force, the track's own set and  *)
(* the process under SIGSTOP stay in step; for a new player that   *)
(* takes Accounting too: no older process is left under SIGSTOP.             *)

\* A step that leaves the track, its process and the pauses alone
LEMMA PauseFrame ==
  ASSUME PauseHeld, pauseActive' = pauseActive, stopped' = stopped, live' = live,
         current' = current \/ ~Playing'
  PROVE  PauseHeld'
BY DEF PauseHeld, Playing, Paused

LEMMA SetPauseHolds ==
  ASSUME TypeOK, PauseHeld, NEW source \in Sources, NEW value \in BOOLEAN,
         Pausing(source, value), live' = live
  PROVE  PauseHeld'
<1> DEFINE track == [current EXCEPT !.pausedBy = Put(source, value, @)]
           signalled == Paused(track) # Paused(current) /\ current.generation \in live
<1>0. CASE UNCHANGED <<pauseActive, current, stopped, led>>
  BY <1>0 DEF PauseHeld, Playing
<1>1. CASE ~Playing /\ SetPause(source, value)
  BY <1>1 DEF SetPause, PauseTrack, Flags, Put, PauseHeld, Playing
<1>2. CASE Playing /\ SetPause(source, value)
  <2>1. current \in Track
    BY <1>2 DEF TypeOK, Playing
  <2>2. /\ current' = track
        /\ pauseActive' = Flags(source, value)
        /\ stopped' = IF ~signalled THEN stopped
                      ELSE IF Paused(track) THEN stopped \cup {current.generation}
                      ELSE stopped \ {current.generation}
    BY <1>2 DEF SetPause, PauseTrack, Flags, Put
  <2>3. /\ track.pausedBy = Put(source, value, current.pausedBy)
        /\ track.generation = current.generation
        /\ track.ending = current.ending
    BY <2>1 DEF Track
  <2>4. current.pausedBy \ {"User"} = pauseActive
    BY <1>2 DEF PauseHeld
  <2>5. "User" \notin pauseActive
    BY DEF TypeOK
  <2>6. current'.pausedBy \ {"User"} = pauseActive'
    BY <2>2, <2>3, <2>4, <2>5 DEF Flags, Put
  <2>7. ASSUME current'.ending = "None", current'.generation \in live'
        PROVE  current'.generation \in stopped' <=> Paused(track)
    <3>1. current.generation \in stopped <=> Paused(current)
      BY <1>2, <2>2, <2>3, <2>7 DEF PauseHeld
    <3>2. CASE Paused(track) # Paused(current)
      BY <2>2, <2>3, <2>7, <3>2
    <3>3. CASE Paused(track) = Paused(current)
      BY <2>2, <2>3, <3>1, <3>3
    <3> QED
      BY <3>2, <3>3
  <2> HIDE DEF track
  <2> QED
    BY <2>2, <2>6, <2>7 DEF PauseHeld, Paused
<1> QED
  BY <1>0, <1>1, <1>2 DEF Pausing

LEMMA StopCurrentHolds ==
  ASSUME TypeOK, PauseHeld, NEW reason \in EndReasons \ {"None"}, StopCurrent(reason),
         pauseActive' = pauseActive, live' = live
  PROVE  PauseHeld'
<1>1. CASE UNCHANGED <<current, stopped>>
  BY <1>1, PauseFrame
<1>2. CASE Playing /\ Terminate(reason)
  <2>1. current \in Track
    BY <1>2 DEF TypeOK, Playing
  <2>2. current'.ending # "None" /\ current'.pausedBy = current.pausedBy
    BY <1>2, <2>1 DEF Terminate, Track, EndReasons
  <2> QED
    BY <1>2, <2>2 DEF PauseHeld
<1> QED
  BY <1>1, <1>2 DEF StopCurrent

LEMMA MessagePauses == TypeOK /\ PauseHeld /\ (HandleMessage \/ HandleAirPlay) => PauseHeld'
<1> SUFFICES ASSUME TypeOK, PauseHeld, HandleMessage \/ HandleAirPlay
             PROVE  PauseHeld'
  OBVIOUS
<1>1. CASE ExecutePause \/ ExecuteResume
  BY <1>1, SetPauseHolds DEF ExecutePause, ExecuteResume, Pausing, Sources
<1>2. CASE HandleWake
  BY <1>2, WakePauses, SetPauseHolds DEF HandleWake, Sources
<1>3. CASE HandleAirPlay
  <2>1. PICK value \in BOOLEAN : Pausing("AirPlay", value)
    BY <1>3, AirPlayPauses
  <2> QED
    BY <1>3, <2>1, SetPauseHolds DEF HandleAirPlay, Sources
<1>4. CASE ExecuteNext \/ ExecuteStop
  BY <1>4, StopCurrentHolds DEF ExecuteNext, ExecuteStop, EndReasons
<1>5. CASE ExecutePrevious
  <2>1. UNCHANGED <<current, stopped>> \/ StopCurrent("Previous")
    BY <1>5 DEF ExecutePrevious
  <2>2. pauseActive' = pauseActive /\ live' = live
    BY <1>5 DEF ExecutePrevious
  <2> QED
    BY <2>1, <2>2, PauseFrame, StopCurrentHolds DEF EndReasons
<1>6. CASE ExecuteShuffle \/ ExecuteRepeat \/ ExecuteSearch \/ RejectSearch
  BY <1>6, PauseFrame DEF ExecuteShuffle, ExecuteRepeat, ExecuteSearch, RejectSearch
<1>7. CASE HandleExit
  <2>1. /\ pauseActive' = pauseActive /\ stopped' = stopped /\ live' = live
        /\ current' = current \/ current' = NoTrack
    BY <1>7 DEF HandleExit, ExitWithoutPlayer, ExitIgnored, ExitAfterStop,
       ExitAfterSwitch, RetryAfterExit, TrackEnded, ExitOfCurrent
  <2> QED
    BY <2>1, PauseFrame DEF Playing
<1>8. CASE HandleForceKill \/ HandleAppendQueue \/ HandleRetryQueue
  BY <1>8, PauseFrame DEF HandleForceKill, HandleAppendQueue, HandleRetryQueue
<1> QED
  BY <1>1, <1>2, <1>3, <1>4, <1>5, <1>6, <1>7, <1>8 DEF HandleMessage, ExecuteCommand

LEMMA OtherPauses ==
  TypeOK /\ Accounting /\ PauseHeld /\ (Search \/ Start \/ World) => PauseHeld'
<1> SUFFICES ASSUME TypeOK, Accounting, PauseHeld, Search \/ Start \/ World
             PROVE  PauseHeld'
  OBVIOUS
<1>1. CASE SearchFailed
  BY <1>1, PauseFrame DEF SearchFailed
<1>2. ASSUME NEW songs, NEW song, ReplaceQueue(songs, song)
      PROVE  PauseHeld'
  <2>1. UNCHANGED <<current, stopped>> \/ StopCurrent("Replace")
    BY <1>2 DEF ReplaceQueue
  <2>2. pauseActive' = pauseActive /\ live' = live
    BY <1>2 DEF ReplaceQueue
  <2> QED
    BY <2>1, <2>2, PauseFrame, StopCurrentHolds DEF EndReasons
<1>3. CASE StartPlayer
  <2>1. /\ current'.pausedBy = pauseActive
        /\ current'.generation = generation'
        /\ stopped' = IF Paused(current') THEN stopped \cup {generation'} ELSE stopped
        /\ pauseActive' = pauseActive
        /\ generation' = generation + 1
    BY <1>3 DEF StartPlayer, NewTrack
  <2>2. "User" \notin pauseActive
    BY DEF TypeOK
  <2>3. stopped = {}
    BY <1>3 DEF StartPlayer, Accounting, PlayerAccounting, SinglePlayer, TypeOK
  <2>4. current'.pausedBy \ {"User"} = pauseActive'
    BY <2>1, <2>2
  <2>5. current'.generation \in stopped' <=> Paused(current')
    BY <2>1, <2>3
  <2> QED
    BY <2>4, <2>5 DEF PauseHeld, Paused
<1>4. CASE SkipPlayed \/ CoolDown \/ CoolDownExhausted \/ StartFailed \/ QueueExhausted
  BY <1>4, PauseFrame DEF SkipPlayed, CoolDown, CoolDownExhausted, StartFailed,
     QueueExhausted, Playing
<1>5. ASSUME NEW g \in live, PlayerExits(g)
      PROVE  PauseHeld'
  BY <1>5 DEF PlayerExits, PauseHeld, Playing, Paused
<1>6. CASE Request \/ AirPlayChanges \/ RetryTimerFires \/ KickArrives \/ PrefetchEnds
             \/ \E g \in killTimers : KillTimerFires(g)
  BY <1>6, PauseFrame DEF Request, AirPlayChanges, RetryTimerFires, KickArrives,
     PrefetchEnds, KillTimerFires
<1> QED
  BY <1>1, <1>2, <1>3, <1>4, <1>5, <1>6 DEF Search, SongFound, ListFound, Start, World

\* A track is under SIGSTOP exactly while a source pauses it, and every new track
\* inherits the wake and AirPlay pauses in force.
THEOREM PausesHold == Spec => []PauseHeld
<1>1. Init => PauseHeld
  BY DEF Init, PauseHeld, Playing
<1>2. PauseHeld /\ UNCHANGED vars => PauseHeld'
  BY DEF PauseHeld, Playing, Paused, vars
<1> QED
  BY <1>1, <1>2, MessagePauses, OtherPauses, Typing, AccountingAlways, PTL DEF Spec, Next

-----------------------------------------------------------------------------
(* The mailbox and the track, for every step: a message goes only into the   *)
(* hands of its handler, and a track changes only as TrackStep says.         *)

LEMMA MailExact ==
  ASSUME NEW q \in Seq(Message), q # <<>>
  PROVE  Range(q) = {Head(q)} \cup Range(Tail(q))
<1>1. ASSUME NEW m \in Range(q), m # Head(q) PROVE m \in Range(Tail(q))
  <2>1. PICK i \in 1..Len(q) : m = q[i]
    BY DEF Range
  <2>2. i # 1
    BY <1>1, <2>1
  <2>3. i - 1 \in 1..Len(Tail(q)) /\ m = Tail(q)[i - 1]
    BY <2>1, <2>2
  <2>4. DOMAIN Tail(q) = 1..Len(Tail(q))
    OBVIOUS
  <2> QED
    BY <2>3, <2>4 DEF Range
<1> QED
  BY <1>1, MailOfTail

LEMMA DeliverMail ==
  ASSUME TypeOK, NEW m, Deliver(m)
  PROVE  Range(rx') = Range(rx) \cup {m}
<1>1. rx \in Seq(Message) /\ rx' = Append(rx, m)
  BY DEF TypeOK, Deliver
<1>2. ASSUME NEW n \in Range(rx) PROVE n \in Range(rx')
  <2>1. PICK i \in 1..Len(rx) : n = rx[i]
    BY <1>1 DEF Range
  <2>2. i \in 1..Len(rx') /\ n = rx'[i]
    BY <1>1, <2>1
  <2> QED
    BY <1>1, <2>2 DEF Range
<1>3. m \in Range(rx')
  <2>1. Len(rx') = Len(rx) + 1 /\ rx'[Len(rx) + 1] = m /\ Len(rx) \in Nat
    BY <1>1
  <2>2. Len(rx') \in 1..Len(rx') /\ DOMAIN rx' = 1..Len(rx')
    BY <1>1, <2>1
  <2> QED
    BY <2>1, <2>2 DEF Range
<1>4. Range(rx') \subseteq Range(rx) \cup {m}
  BY <1>1, MailOfAppend
<1> QED
  BY <1>2, <1>3, <1>4

\* The head of the mailbox is in hand.
Takes == pc = "select" /\ rx # <<>> /\ rx' = Tail(rx)

LEMMA HandlerOf ==
  ASSUME HandleMessage
  PROVE  /\ Takes
         /\ Head(rx).type = "RetryQueue" => HandleRetryQueue
         /\ Head(rx).type = "PlayerExited" => HandleExit
<1>1. CASE ExecuteCommand
  <2>1. PICK c : Receive(Execute(c))
    BY <1>1 DEF ExecuteCommand, ExecutePause, ExecuteResume, ExecuteNext,
       ExecutePrevious, ExecuteStop, ExecuteShuffle, ExecuteRepeat, ExecuteSearch,
       RejectSearch
  <2> QED
    BY <2>1 DEF Receive, Execute, Takes
<1>2. CASE HandleExit
  <2>1. \E g, ok : ReceiveExit(g, ok)
    BY <1>2 DEF HandleExit, ExitWithoutPlayer, ExitIgnored, ExitAfterStop,
       ExitAfterSwitch, RetryAfterExit, TrackEnded, ExitOfCurrent
  <2> QED
    BY <1>2, <2>1 DEF ReceiveExit, Receive, Exited, Takes
<1>3. CASE HandleWake \/ HandleForceKill
  <2>1. \/ Receive([type |-> "WakeStarted"]) \/ Receive([type |-> "DialogFinished"])
        \/ \E g \in 1..generation : Receive([type |-> "ForceKill", generation |-> g])
    BY <1>3 DEF HandleWake, HandleForceKill
  <2>2. /\ [type |-> "WakeStarted"].type = "WakeStarted"
        /\ [type |-> "DialogFinished"].type = "DialogFinished"
        /\ \A g : [type |-> "ForceKill", generation |-> g].type = "ForceKill"
    OBVIOUS
  <2>3. \E m : Receive(m) /\ m.type \in {"WakeStarted", "DialogFinished", "ForceKill"}
    BY <2>1, <2>2
  <2> QED
    BY <2>3 DEF Receive, Takes
<1>4. CASE HandleAppendQueue
  BY <1>4 DEF HandleAppendQueue, Takes
<1>5. CASE HandleRetryQueue
  BY <1>5 DEF HandleRetryQueue, Receive, Takes
<1> QED
  BY <1>1, <1>2, <1>3, <1>4, <1>5 DEF HandleMessage

\* What a step may put into the mailbox
Delivers(m) ==
  \/ m.type \in {"Execute", "WakeStarted", "DialogFinished", "ForceKill"}
  \/ KickArrives /\ m = Exited(0, FALSE)
  \/ \E g \in live, ok \in BOOLEAN : PlayerExits(g) /\ m = Exited(g, ok)
  \/ \E i \in DOMAIN retryTimers : m = [type |-> "RetryQueue", epoch |-> retryTimers[i]]
  \/ \E p \in prefetches : m.type = "AppendQueue" /\ m.epoch = p.epoch

LEMMA WorldMail ==
  ASSUME TypeOK, World
  PROVE  rx' = rx \/ \E m : Deliver(m) /\ Delivers(m)
<1>1. CASE Request
  <2>1. \/ \E c : Deliver(Execute(c))
        \/ \E e \in Events : Deliver([type |-> e])
    BY <1>1 DEF Request
  <2>2. \A c : Execute(c).type = "Execute"
    BY DEF Execute
  <2>3. \A e \in Events : [type |-> e].type \in {"WakeStarted", "DialogFinished"}
    BY DEF Events
  <2> QED
    BY <2>1, <2>2, <2>3 DEF Delivers
<1>2. CASE AirPlayChanges
  BY <1>2 DEF AirPlayChanges
<1>3. ASSUME NEW g \in live, PlayerExits(g)
      PROVE  \E m : Deliver(m) /\ Delivers(m)
  BY <1>3 DEF PlayerExits, Report, Delivers
<1>4. ASSUME NEW g \in killTimers, KillTimerFires(g)
      PROVE  \E m : Deliver(m) /\ Delivers(m)
  <2> DEFINE m == [type |-> "ForceKill", generation |-> g]
  <2>1. Deliver(m) /\ m.type = "ForceKill"
    BY <1>4 DEF KillTimerFires
  <2> QED
    BY <2>1 DEF Delivers
<1>5. CASE RetryTimerFires
  BY <1>5 DEF RetryTimerFires, Delivers
<1>6. CASE KickArrives
  BY <1>6 DEF KickArrives, Delivers
<1>7. CASE PrefetchEnds
  <2>1. PICK p \in prefetches :
          \/ rx' = rx
          \/ \E songs \in Results :
               Deliver([type |-> "AppendQueue", epoch |-> p.epoch, songs |-> songs])
    BY <1>7 DEF PrefetchEnds
  <2>2. ASSUME NEW songs \in Results,
               Deliver([type |-> "AppendQueue", epoch |-> p.epoch, songs |-> songs])
        PROVE  \E m : Deliver(m) /\ Delivers(m)
    <3> DEFINE m == [type |-> "AppendQueue", epoch |-> p.epoch, songs |-> songs]
    <3>1. m.type = "AppendQueue" /\ m.epoch = p.epoch
      OBVIOUS
    <3> QED
      BY <2>2, <3>1 DEF Delivers
  <2> QED
    BY <2>1, <2>2
<1> QED
  BY <1>1, <1>2, <1>3, <1>4, <1>5, <1>6, <1>7 DEF World

LEMMA MailStep ==
  ASSUME TypeOK, [Next]_vars
  PROVE  \/ rx' = rx
         \/ HandleMessage /\ Range(rx) = {Head(rx)} \cup Range(rx')
         \/ \E m : World /\ Delivers(m) /\ Range(rx') = Range(rx) \cup {m}
<1>1. CASE HandleMessage
  BY <1>1, HandlerOf, MailExact DEF Takes, TypeOK
<1>2. CASE HandleAirPlay \/ Search \/ Start
  BY <1>2 DEF HandleAirPlay, Search, SearchFailed, SongFound, ListFound, ReplaceQueue,
     Start, SkipPlayed, StartPlayer, CoolDown, CoolDownExhausted, StartFailed,
     QueueExhausted
<1>3. CASE World
  BY <1>3, WorldMail, DeliverMail
<1>4. CASE UNCHANGED vars
  BY <1>4 DEF vars
<1> QED
  BY <1>1, <1>2, <1>3, <1>4 DEF Next

\* A track that stays keeps its player, and once told to end its reason to.
SameTrack ==
  /\ Playing /\ Playing'
  /\ current'.generation = current.generation /\ current'.song = current.song
  /\ current'.retries = current.retries
  /\ current'.ending # current.ending => current.ending = "None"

LEMMA SetPauseTrack ==
  ASSUME TypeOK, NEW source \in Sources, NEW value \in BOOLEAN, Pausing(source, value)
  PROVE  current' = current \/ (SameTrack /\ current'.ending = current.ending)
<1>0. CASE UNCHANGED <<pauseActive, current, stopped, led>>
  BY <1>0
<1>1. CASE ~Playing /\ SetPause(source, value)
  BY <1>1 DEF SetPause, PauseTrack
<1>2. CASE Playing /\ SetPause(source, value)
  <2>1. current \in Track
    BY <1>2 DEF TypeOK, Playing
  <2>2. /\ current' \in Track /\ current'.generation = current.generation
        /\ current'.ending = current.ending /\ current'.song = current.song
        /\ current'.retries = current.retries
    BY <1>2, <2>1 DEF SetPause, PauseTrack, Put, Track, Sources
  <2> QED
    BY <1>2, <2>2, NoTrackAssumption DEF SameTrack, Playing
<1> QED
  BY <1>0, <1>1, <1>2 DEF Pausing

LEMMA StopCurrentTrack ==
  ASSUME TypeOK, NEW reason \in EndReasons \ {"None"}, StopCurrent(reason)
  PROVE  /\ current' = current
            \/ (SameTrack /\ current'.pausedBy = current.pausedBy /\ current'.ending = reason)
         /\ Playing => Playing' /\ current'.ending # "None"
<1>1. CASE current' = current /\ ~(Playing /\ current.ending = "None")
  BY <1>1 DEF Playing
<1>2. CASE Playing /\ current.ending = "None" /\ Terminate(reason)
  <2>1. current \in Track
    BY <1>2 DEF TypeOK, Playing
  <2>2. /\ current' \in Track /\ current'.generation = current.generation
        /\ current'.ending = reason /\ current'.song = current.song
        /\ current'.retries = current.retries /\ current'.pausedBy = current.pausedBy
    BY <1>2, <2>1 DEF Terminate, Track, EndReasons
  <2> QED
    BY <1>2, <2>2, NoTrackAssumption DEF SameTrack, Playing
<1> QED
  BY <1>1, <1>2 DEF StopCurrent

LEMMA TrackStep ==
  ASSUME TypeOK, Accounting, [Next]_vars
  PROVE  \/ current' = current
         \/ SameTrack
         \/ StartPlayer /\ ~Playing
         \/ current' = NoTrack /\ \E ok \in BOOLEAN : ExitOfCurrent(ok)
<1>1. CASE ExecutePause \/ ExecuteResume
  BY <1>1, SetPauseTrack DEF ExecutePause, ExecuteResume, Pausing, Sources
<1>2. CASE HandleWake
  BY <1>2, WakePauses, SetPauseTrack DEF HandleWake, Sources
<1>3. CASE HandleAirPlay
  <2>1. PICK value \in BOOLEAN : Pausing("AirPlay", value)
    BY <1>3, AirPlayPauses
  <2> QED
    BY <2>1, SetPauseTrack DEF Sources
<1>4. CASE ExecuteNext \/ ExecuteStop
  BY <1>4, StopCurrentTrack DEF ExecuteNext, ExecuteStop, EndReasons
<1>5. CASE ExecutePrevious
  <2>1. current' = current \/ StopCurrent("Previous")
    BY <1>5 DEF ExecutePrevious
  <2> QED
    BY <2>1, StopCurrentTrack DEF EndReasons
<1>6. CASE ExecuteShuffle \/ ExecuteRepeat \/ ExecuteSearch \/ RejectSearch
  BY <1>6 DEF ExecuteShuffle, ExecuteRepeat, ExecuteSearch, RejectSearch
<1>7. CASE HandleExit
  BY <1>7 DEF HandleExit, ExitWithoutPlayer, ExitIgnored, ExitAfterStop,
     ExitAfterSwitch, RetryAfterExit, TrackEnded, ExitOfCurrent
<1>8. CASE HandleForceKill \/ HandleAppendQueue \/ HandleRetryQueue
  BY <1>8 DEF HandleForceKill, HandleAppendQueue, HandleRetryQueue
<1>9. CASE SearchFailed
  BY <1>9 DEF SearchFailed
<1>10. ASSUME NEW songs, NEW song, ReplaceQueue(songs, song)
       PROVE  current' = current \/ SameTrack
  <2>1. current' = current \/ StopCurrent("Replace")
    BY <1>10 DEF ReplaceQueue
  <2> QED
    BY <2>1, StopCurrentTrack DEF EndReasons
<1>11. CASE Start
  <2>1. ~Playing
    BY <1>11 DEF Accounting, PlayerAccounting, Start, SkipPlayed, StartPlayer, CoolDown,
       CoolDownExhausted, StartFailed, QueueExhausted
  <2> QED
    BY <1>11, <2>1 DEF Start, SkipPlayed, CoolDown, CoolDownExhausted, StartFailed,
       QueueExhausted, Playing
<1>12. CASE World
  BY <1>12 DEF World, Request, AirPlayChanges, PlayerExits, KillTimerFires,
     RetryTimerFires, KickArrives, PrefetchEnds
<1>13. CASE UNCHANGED vars
  BY <1>13 DEF vars
<1> QED
  BY <1>1, <1>2, <1>3, <1>4, <1>5, <1>6, <1>7, <1>8, <1>9, <1>10, <1>11, <1>12, <1>13
     DEF Next, HandleMessage, ExecuteCommand, Search, SongFound, ListFound

-----------------------------------------------------------------------------
(* The actor cannot wedge: the current track's process lives, or its exit is *)
(* in the mailbox, from which only the track's own end takes it.             *)

\* A step under which the track has the player it had
LEMMA ExitFrame ==
  ASSUME TypeOK, ExitOnItsWay, live \subseteq live',
         Playing' => Playing /\ current'.generation = current.generation,
         \A m \in Range(rx) : m.type = "PlayerExited" /\ m.generation = current.generation
           => m \in Range(rx')
  PROVE  ExitOnItsWay'
<1>1. \A g, ok : Exited(g, ok).type = "PlayerExited" /\ Exited(g, ok).generation = g
  BY DEF Exited
<1>2. CASE ~Playing'
  BY <1>2 DEF ExitOnItsWay
<1>3. CASE Playing'
  <2>1. CASE current.generation \in live
    BY <1>3, <2>1 DEF ExitOnItsWay
  <2>2. CASE \E ok \in BOOLEAN : Exited(current.generation, ok) \in Range(rx)
    <3>1. PICK ok \in BOOLEAN : Exited(current.generation, ok) \in Range(rx)
      BY <2>2
    <3>2. Exited(current'.generation, ok) \in Range(rx')
      BY <1>1, <1>3, <3>1
    <3> QED
      BY <3>2 DEF ExitOnItsWay
  <2> QED
    BY <1>3, <2>1, <2>2 DEF ExitOnItsWay
<1> QED
  BY <1>2, <1>3

LEMMA LiveStep ==
  ASSUME [Next]_vars
  PROVE  \/ live' = live
         \/ StartPlayer
         \/ \E g \in live : PlayerExits(g)
BY DEF Next, HandleMessage, ExecuteCommand, ExecutePause, ExecuteResume, ExecuteNext,
   ExecutePrevious, ExecuteStop, ExecuteShuffle, ExecuteRepeat, ExecuteSearch,
   RejectSearch, HandleExit, ExitWithoutPlayer, ExitIgnored, ExitAfterStop,
   ExitAfterSwitch, RetryAfterExit, TrackEnded, ExitOfCurrent, HandleWake,
   HandleAirPlay, HandleForceKill, HandleAppendQueue, HandleRetryQueue, Search,
   SearchFailed, SongFound, ListFound, ReplaceQueue, Start, SkipPlayed, CoolDown,
   CoolDownExhausted, StartFailed, QueueExhausted, World, Request, AirPlayChanges,
   KillTimerFires, RetryTimerFires, KickArrives, PrefetchEnds, vars

LEMMA ExitStep ==
  ASSUME TypeOK, Accounting, ExitOnItsWay, [Next]_vars
  PROVE  ExitOnItsWay'
<1>1. CASE StartPlayer
  <2>1. live' = live \cup {generation'} /\ current'.generation = generation'
    BY <1>1 DEF StartPlayer, NewTrack
  <2> QED
    BY <2>1 DEF ExitOnItsWay
<1>2. CASE current' = NoTrack
  BY <1>2 DEF ExitOnItsWay, Playing
<1>3. CASE (current' = current \/ SameTrack) /\ ~StartPlayer
  <2>1. Playing' => Playing /\ current'.generation = current.generation
    BY <1>3 DEF SameTrack, Playing
  <2>2. ASSUME NEW g \in live, PlayerExits(g)
        PROVE  ExitOnItsWay'
    <3>1. PICK ok \in BOOLEAN : Deliver(Exited(g, ok))
      BY <2>2 DEF PlayerExits, Report
    <3>2. Range(rx') = Range(rx) \cup {Exited(g, ok)}
      BY <3>1, DeliverMail
    <3>3. current' = current
      BY <2>2 DEF PlayerExits
    <3>4. Playing => g = current.generation
      BY DEF Accounting, SinglePlayer
    <3> QED
      BY <3>2, <3>3, <3>4 DEF ExitOnItsWay, Playing
  <2>3. CASE live' = live
    <3>1. CASE HandleExit
      <4>1. CASE ExitWithoutPlayer
        BY <2>1, <4>1 DEF ExitWithoutPlayer, ExitOnItsWay, Playing
      <4>2. ASSUME NEW g, NEW ok, ReceiveExit(g, ok), Playing => g # current.generation
            PROVE  ExitOnItsWay'
        <5>1. Range(rx) = {Exited(g, ok)} \cup Range(rx')
          BY <4>2, MailExact DEF ReceiveExit, Receive, TypeOK
        <5>2. Exited(g, ok).generation = g
          BY DEF Exited
        <5> QED
          BY <2>1, <2>3, <4>2, <5>1, <5>2, ExitFrame DEF ExitOnItsWay
      <4>3. CASE ExitIgnored
        BY <4>2, <4>3 DEF ExitIgnored
      <4>4. ASSUME NEW ok, ExitOfCurrent(ok)
            PROVE  ExitOnItsWay'
        BY <4>4 DEF ExitOfCurrent, ExitOnItsWay, Playing
      <4> QED
        BY <3>1, <4>1, <4>3, <4>4 DEF HandleExit, ExitAfterStop, ExitAfterSwitch,
           RetryAfterExit, TrackEnded
    <3>2. CASE ~HandleExit
      <4>1. \A m \in Range(rx) : m.type = "PlayerExited" => m \in Range(rx')
        BY <3>2, MailStep, HandlerOf
      <4> QED
        BY <2>1, <2>3, <4>1, ExitFrame
    <3> QED
      BY <3>1, <3>2
  <2> QED
    BY <1>3, <2>2, <2>3, LiveStep
<1> QED
  BY <1>1, <1>2, <1>3, TrackStep

\* The exit of the current track's player is still to happen, or its report waits in
\* the mailbox: no kick, kill, switch or late exit takes it from there.
THEOREM ExitsArrive == Spec => []ExitOnItsWay
<1>1. Init => ExitOnItsWay
  BY DEF Init, ExitOnItsWay, Playing
<1>2. TypeOK /\ Accounting /\ ExitOnItsWay /\ [Next]_vars => ExitOnItsWay'
  BY ExitStep
<1> QED
  BY <1>1, <1>2, Typing, AccountingAlways, PTL DEF Spec

-----------------------------------------------------------------------------
(* The LED, and AirPlay.                                                     *)

\* A step that neither signals a process nor starts or takes a track
LEMMA LedFrame ==
  ASSUME LedFollowsPlayer, led' = led, live' \subseteq live,
         \/ current' = current
         \/ /\ SameTrack
            /\ current.generation \in live => (Paused(current') <=> Paused(current))
  PROVE  LedFollowsPlayer'
<1>1. CASE current' = current
  BY <1>1 DEF LedFollowsPlayer, Playing, Paused
<1>2. CASE /\ SameTrack
           /\ current.generation \in live => (Paused(current') <=> Paused(current))
  BY <1>2 DEF LedFollowsPlayer, SameTrack, Paused
<1> QED
  BY <1>1, <1>2

LEMMA SetPauseLed ==
  ASSUME TypeOK, LedFollowsPlayer, NEW source \in Sources, NEW value \in BOOLEAN,
         Pausing(source, value), live' = live
  PROVE  LedFollowsPlayer'
<1>0. CASE UNCHANGED <<pauseActive, current, stopped, led>>
  BY <1>0, LedFrame
<1>1. CASE ~Playing /\ SetPause(source, value)
  BY <1>1, LedFrame DEF SetPause, PauseTrack
<1>2. CASE Playing /\ SetPause(source, value)
  <2> DEFINE track == [current EXCEPT !.pausedBy = Put(source, value, @)]
             signalled == Paused(track) # Paused(current) /\ current.generation \in live
  <2>1. current' = track /\ current \in Track
    BY <1>2 DEF SetPause, PauseTrack, TypeOK, Playing
  <2>2. led' = IF ~signalled THEN led ELSE IF Paused(track) THEN "Paused" ELSE "Playing"
    BY <1>2 DEF SetPause, PauseTrack
  <2>3. SameTrack
    <3>1. current' = current \/ SameTrack
      BY SetPauseTrack
    <3> QED
      BY <1>2, <3>1 DEF SameTrack, Playing
  <2> HIDE DEF track
  <2>4. CASE signalled
    BY <2>1, <2>2, <2>3, <2>4 DEF LedFollowsPlayer, SameTrack, Paused
  <2>5. CASE ~signalled
    BY <2>1, <2>2, <2>3, <2>5, LedFrame DEF Paused
  <2> QED
    BY <2>4, <2>5
<1> QED
  BY <1>0, <1>1, <1>2 DEF Pausing

LEMMA StopCurrentLed ==
  ASSUME TypeOK, LedFollowsPlayer, NEW reason \in EndReasons \ {"None"},
         StopCurrent(reason), led' = led, live' = live
  PROVE  LedFollowsPlayer'
BY StopCurrentTrack, LedFrame DEF Paused

LEMMA LedStep ==
  ASSUME TypeOK, LedFollowsPlayer, [Next]_vars
  PROVE  LedFollowsPlayer'
<1>0. ASSUME current' = NoTrack, led' = "Idle"
      PROVE  LedFollowsPlayer'
  BY <1>0 DEF LedFollowsPlayer, Playing
<1>1. CASE ExecutePause \/ ExecuteResume
  BY <1>1, SetPauseLed DEF ExecutePause, ExecuteResume, Pausing, Sources
<1>2. CASE HandleWake
  BY <1>2, WakePauses, SetPauseLed DEF HandleWake, Sources
<1>3. CASE HandleAirPlay
  <2>1. PICK value \in BOOLEAN : Pausing("AirPlay", value)
    BY <1>3, AirPlayPauses
  <2> QED
    BY <1>3, <2>1, SetPauseLed DEF HandleAirPlay, Sources
<1>4. CASE ExecuteNext \/ ExecuteStop
  BY <1>4, StopCurrentLed DEF ExecuteNext, ExecuteStop, EndReasons
<1>5. CASE ExecutePrevious
  <2>1. current' = current \/ StopCurrent("Previous")
    BY <1>5 DEF ExecutePrevious
  <2>2. led' = led /\ live' = live
    BY <1>5 DEF ExecutePrevious
  <2> QED
    BY <2>1, <2>2, LedFrame, StopCurrentLed DEF EndReasons
<1>6. CASE ExecuteShuffle \/ ExecuteRepeat \/ ExecuteSearch \/ RejectSearch
  BY <1>6, LedFrame DEF ExecuteShuffle, ExecuteRepeat, ExecuteSearch, RejectSearch
<1>7. CASE HandleExit
  <2>1. \/ current' = NoTrack /\ led' = "Idle"
        \/ current' = current /\ led' = led /\ live' = live
    BY <1>7 DEF HandleExit, ExitWithoutPlayer, ExitIgnored, ExitAfterStop,
       ExitAfterSwitch, RetryAfterExit, TrackEnded, ExitOfCurrent, LedOff
  <2> QED
    BY <1>0, <2>1, LedFrame
<1>8. CASE HandleForceKill \/ HandleAppendQueue \/ HandleRetryQueue
  BY <1>8, LedFrame DEF HandleForceKill, HandleAppendQueue, HandleRetryQueue
<1>9. CASE SearchFailed
  BY <1>9, LedFrame DEF SearchFailed
<1>10. ASSUME NEW songs, NEW song, ReplaceQueue(songs, song)
       PROVE  LedFollowsPlayer'
  <2>1. current' = current \/ StopCurrent("Replace")
    BY <1>10 DEF ReplaceQueue
  <2>2. led' = led /\ live' = live
    BY <1>10 DEF ReplaceQueue
  <2> QED
    BY <2>1, <2>2, LedFrame, StopCurrentLed DEF EndReasons
<1>11. CASE StartPlayer
  <2>1. /\ led' = IF Paused(current') THEN "Paused" ELSE "Playing"
        /\ current' = NewTrack(Head(queue), generation')
    BY <1>11 DEF StartPlayer
  <2>2. current' # NoTrack
    <3>1. Head(queue) \in Songs /\ generation' \in Nat
      BY <1>11 DEF StartPlayer, TypeOK
    <3>2. current' \in Track
      BY <2>1, <3>1 DEF NewTrack, Track, EndReasons, Sources, TypeOK
    <3> QED
      BY <3>2, NoTrackAssumption
  <2> QED
    BY <2>1, <2>2 DEF LedFollowsPlayer, Playing, Paused
<1>12. CASE SkipPlayed \/ CoolDown \/ CoolDownExhausted \/ StartFailed \/ QueueExhausted
  <2>1. \/ current' = NoTrack /\ led' = "Idle"
        \/ current' = current /\ led' = led /\ live' = live
    BY <1>12 DEF SkipPlayed, CoolDown, CoolDownExhausted, StartFailed, QueueExhausted,
       LedOff
  <2> QED
    BY <1>0, <2>1, LedFrame
<1>13. CASE World
  <2>1. current' = current /\ led' = led /\ live' \subseteq live
    BY <1>13 DEF World, Request, AirPlayChanges, PlayerExits, KillTimerFires,
       RetryTimerFires, KickArrives, PrefetchEnds
  <2> QED
    BY <2>1, LedFrame
<1>14. CASE UNCHANGED vars
  BY <1>14, LedFrame DEF vars
<1> QED
  BY <1>1, <1>2, <1>3, <1>4, <1>5, <1>6, <1>7, <1>8, <1>9, <1>10, <1>11, <1>12, <1>13,
     <1>14
     DEF Next, HandleMessage, ExecuteCommand, Search, SongFound, ListFound, Start

\* The LED of the music shows whether the current player sounds, and is off without a
\* track, whatever pauses, switches and exits come in between.
THEOREM LedFollows == Spec => []LedFollowsPlayer
<1>1. Init => LedFollowsPlayer
  BY DEF Init, LedFollowsPlayer, Playing
<1>2. TypeOK /\ LedFollowsPlayer /\ [Next]_vars => LedFollowsPlayer'
  BY LedStep
<1> QED
  BY <1>1, <1>2, Typing, PTL DEF Spec

\* The actor's pause agrees with the bus's flag, as far as the configuration heeds
\* the event that makes it so.
BusHeeded ==
  /\ airplayActive /\ "AirPlayStarted" \in Heeded => "AirPlay" \in pauseActive
  /\ ~airplayActive /\ "AirPlayEnded" \in Heeded => "AirPlay" \notin pauseActive

\* The last event the actor has taken or will take tells the bus's flag.
BusInv ==
  IF mediaEvents = <<>> THEN BusHeeded
  ELSE airplayActive <=> mediaEvents[Len(mediaEvents)] = "AirPlayStarted"

LEMMA BusFrame ==
  ASSUME BusInv, mediaEvents' = mediaEvents, airplayActive' = airplayActive,
         "AirPlay" \in pauseActive' <=> "AirPlay" \in pauseActive
  PROVE  BusInv'
BY DEF BusInv, BusHeeded

LEMMA BusStep ==
  ASSUME TypeOK, BusInv, [Next]_vars
  PROVE  BusInv'
<1>1. CASE ExecutePause \/ ExecuteResume
  BY <1>1, BusFrame DEF ExecutePause, ExecuteResume, SetPause, Flags
<1>2. CASE HandleWake
  <2>1. PICK value \in BOOLEAN : Pausing("Wake", value)
    BY <1>2, WakePauses
  <2>2. "AirPlay" \in pauseActive' <=> "AirPlay" \in pauseActive
    BY <2>1 DEF Pausing, SetPause, Flags, Put
  <2> QED
    BY <1>2, <2>2, BusFrame DEF HandleWake
<1>3. CASE HandleAirPlay
  <2> DEFINE event == Head(mediaEvents)
  <2>1. /\ mediaEvents # <<>> /\ mediaEvents' = Tail(mediaEvents)
        /\ airplayActive' = airplayActive
        /\ Heed(event, "AirPlay", event = "AirPlayStarted")
    BY <1>3 DEF HandleAirPlay
  <2>2. event \in Heeded => ("AirPlay" \in pauseActive' <=> event = "AirPlayStarted")
    BY <2>1 DEF Heed, SetPause, Flags, Put
  <2>3. airplayActive <=> mediaEvents[Len(mediaEvents)] = "AirPlayStarted"
    BY <2>1 DEF BusInv
  <2>4. mediaEvents \in Seq(MediaEvents)
    BY DEF TypeOK
  <2>5. CASE mediaEvents' = <<>>
    <3>1. Len(mediaEvents) = 1
      <4>1. Len(Tail(mediaEvents)) = Len(mediaEvents) - 1 /\ Len(mediaEvents) \in Nat
        BY <2>1, <2>4
      <4>2. Len(Tail(mediaEvents)) = 0
        BY <2>1, <2>5, EmptySeq
      <4> QED
        BY <4>1, <4>2
    <3>2. mediaEvents[Len(mediaEvents)] = event
      BY <2>1, <2>4, <3>1
    <3>3. event \in MediaEvents
      BY <2>1, <2>4, HeadTailProperties
    <3> HIDE DEF event
    <3>4. airplayActive' <=> event = "AirPlayStarted"
      BY <2>1, <2>3, <3>2, Zenon
    <3>5. BusHeeded'
      BY <2>2, <3>3, <3>4 DEF BusHeeded, MediaEvents
    <3> QED
      BY <2>5, <3>5 DEF BusInv
  <2>6. CASE mediaEvents' # <<>>
    <3>1. mediaEvents'[Len(mediaEvents')] = mediaEvents[Len(mediaEvents)]
      BY <2>1, <2>4, <2>6
    <3>2. airplayActive' <=> mediaEvents'[Len(mediaEvents')] = "AirPlayStarted"
      BY <2>1, <2>3, <3>1, Zenon
    <3> QED
      BY <2>6, <3>2 DEF BusInv
  <2> QED
    BY <2>5, <2>6
<1>4. CASE AirPlayChanges
  <2> DEFINE event == IF airplayActive THEN "AirPlayEnded" ELSE "AirPlayStarted"
  <2>1. mediaEvents' = Append(mediaEvents, event)
    BY <1>4 DEF AirPlayChanges
  <2>2. event = "AirPlayStarted" <=> ~airplayActive
    BY DEF TypeOK
  <2>3. airplayActive' <=> ~airplayActive
    BY <1>4 DEF AirPlayChanges
  <2>4. mediaEvents \in Seq(MediaEvents)
    BY DEF TypeOK
  <2> HIDE DEF event
  <2>5. mediaEvents' # <<>> /\ mediaEvents'[Len(mediaEvents')] = event
    BY <2>1, <2>4
  <2>6. airplayActive' <=> mediaEvents'[Len(mediaEvents')] = "AirPlayStarted"
    BY <2>2, <2>3, <2>5, Zenon
  <2> QED
    BY <2>5, <2>6 DEF BusInv
<1>5. CASE ExecuteNext \/ ExecutePrevious \/ ExecuteStop \/ ExecuteShuffle
             \/ ExecuteRepeat \/ ExecuteSearch \/ RejectSearch
  BY <1>5, BusFrame DEF ExecuteNext, ExecutePrevious, ExecuteStop, ExecuteShuffle,
     ExecuteRepeat, ExecuteSearch, RejectSearch
<1>6. CASE HandleExit
  BY <1>6, BusFrame DEF HandleExit, ExitWithoutPlayer, ExitIgnored, ExitAfterStop,
     ExitAfterSwitch, RetryAfterExit, TrackEnded, ExitOfCurrent
<1>7. CASE HandleForceKill \/ HandleAppendQueue \/ HandleRetryQueue
  BY <1>7, BusFrame DEF HandleForceKill, HandleAppendQueue, HandleRetryQueue
<1>8. CASE Search \/ Start
  BY <1>8, BusFrame DEF Search, SearchFailed, SongFound, ListFound, ReplaceQueue, Start,
     SkipPlayed, StartPlayer, CoolDown, CoolDownExhausted, StartFailed, QueueExhausted
<1>9. CASE World /\ ~AirPlayChanges
  BY <1>9, BusFrame DEF World, Request, PlayerExits, KillTimerFires, RetryTimerFires,
     KickArrives, PrefetchEnds
<1>10. CASE UNCHANGED vars
  BY <1>10, BusFrame DEF vars
<1> QED
  BY <1>1, <1>2, <1>3, <1>4, <1>5, <1>6, <1>7, <1>8, <1>9, <1>10
     DEF Next, HandleMessage, ExecuteCommand

\* When the bus's events are drained the actor's pause is the bus's flag, and while it
\* is up no player sounds, also one started, resumed or switched to meanwhile.
THEOREM SilentWhileAirPlay == Spec => []SilentUnderAirPlay
<1>1. Init => BusInv
  BY DEF Init, BusInv, BusHeeded
<1>2. TypeOK /\ BusInv /\ [Next]_vars => BusInv'
  BY BusStep
<1>3. TypeOK /\ Accounting /\ PauseHeld /\ BusInv => SilentUnderAirPlay
  <2> SUFFICES ASSUME TypeOK, Accounting, PauseHeld, BusInv, mediaEvents = <<>>
               PROVE  /\ BusHeeded
                      /\ airplayActive /\ "AirPlayStarted" \in Heeded /\ Playing
                         /\ current.ending = "None" => live \subseteq stopped
    BY DEF SilentUnderAirPlay, BusHeeded
  <2>1. BusHeeded
    BY DEF BusInv
  <2>2. ASSUME airplayActive, "AirPlayStarted" \in Heeded, Playing,
               current.ending = "None", NEW g \in live
        PROVE  g \in stopped
    <3>1. Paused(current)
      BY <2>1, <2>2 DEF BusHeeded, PauseHeld, Paused
    <3>2. g = current.generation
      BY <2>2 DEF Accounting, SinglePlayer
    <3> QED
      BY <2>2, <3>1, <3>2 DEF PauseHeld
  <2> QED
    BY <2>1, <2>2
<1> QED
  BY <1>1, <1>2, <1>3, Typing, AccountingAlways, PausesHold, PTL DEF Spec

-----------------------------------------------------------------------------
(* Sequences of timers.                                                      *)

LEMMA AppendTimer ==
  ASSUME NEW s \in Seq(Nat), NEW e \in Nat
  PROVE  Range(Append(s, e)) = Range(s) \cup {e}
<1>1. \A i \in 1..Len(s) : i \in 1..Len(Append(s, e)) /\ Append(s, e)[i] = s[i]
  OBVIOUS
<1>2. Len(s) + 1 \in 1..Len(Append(s, e)) /\ Append(s, e)[Len(s) + 1] = e
  OBVIOUS
<1>3. DOMAIN s = 1..Len(s) /\ DOMAIN Append(s, e) = 1..Len(s) + 1
  OBVIOUS
<1>4. \A i \in 1..Len(s) + 1 : i \in 1..Len(s) \/ i = Len(s) + 1
  OBVIOUS
<1> QED
  BY <1>1, <1>2, <1>3, <1>4 DEF Range

LEMMA DropKeeps ==
  ASSUME NEW s \in Seq(Nat), NEW i \in 1..Len(s), NEW j \in 1..Len(s), s[i] # s[j]
  PROVE  s[j] \in Range(SubSeq(s, 1, i - 1) \o SubSeq(s, i + 1, Len(s)))
<1> DEFINE a == SubSeq(s, 1, i - 1)
           b == SubSeq(s, i + 1, Len(s))
<1>1. a \in Seq(Nat) /\ Len(a) = i - 1 /\ \A k \in 1..i - 1 : a[k] = s[k]
  OBVIOUS
<1>2. b \in Seq(Nat) /\ Len(b) = Len(s) - i /\ \A k \in 1..Len(s) - i : b[k] = s[i + k]
  OBVIOUS
<1> HIDE DEF a, b
<1>3. /\ Len(a \o b) = Len(a) + Len(b) /\ DOMAIN (a \o b) = 1..Len(a) + Len(b)
      /\ \A k \in 1..Len(a) : (a \o b)[k] = a[k]
      /\ \A k \in 1..Len(b) : (a \o b)[Len(a) + k] = b[k]
  <2>1. a \in Seq(Nat) /\ b \in Seq(Nat) /\ Len(a) \in Nat /\ Len(b) \in Nat
    BY <1>1, <1>2
  <2>2. /\ a \o b \in Seq(Nat) /\ Len(a \o b) = Len(a) + Len(b)
        /\ DOMAIN (a \o b) = 1..Len(a) + Len(b)
    BY <2>1
  <2>3. \A k \in 1..Len(a) + Len(b) :
          (a \o b)[k] = IF k <= Len(a) THEN a[k] ELSE b[k - Len(a)]
    BY <2>1
  <2>4. ASSUME NEW k \in 1..Len(a) PROVE (a \o b)[k] = a[k]
    BY <2>1, <2>3
  <2>5. ASSUME NEW k \in 1..Len(b) PROVE (a \o b)[Len(a) + k] = b[k]
    <3>1. Len(a) + k \in 1..Len(a) + Len(b) /\ ~(Len(a) + k <= Len(a))
      BY <2>1
    <3>2. Len(a) + k - Len(a) = k
      BY <2>1
    <3> QED
      BY <2>3, <3>1, <3>2
  <2> QED
    BY <2>2, <2>4, <2>5
<1>4. CASE j < i
  <2>1. j \in 1..i - 1 /\ j \in 1..Len(a) + Len(b)
    BY <1>1, <1>2, <1>4
  <2>2. (a \o b)[j] = s[j]
    BY <1>1, <1>3, <2>1
  <2> QED
    BY <1>3, <2>1, <2>2 DEF Range, a, b
<1>5. CASE j > i
  <2>1. j - i \in 1..Len(s) - i /\ j - 1 \in 1..Len(a) + Len(b) /\ Len(a) + (j - i) = j - 1
    BY <1>1, <1>2, <1>5
  <2>2. b[j - i] = s[j]
    <3>1. i + (j - i) = j
      OBVIOUS
    <3> QED
      BY <1>2, <2>1, <3>1
  <2>3. (a \o b)[j - 1] = s[j]
    BY <1>2, <1>3, <2>1, <2>2
  <2> QED
    BY <1>3, <2>1, <2>3 DEF Range, a, b
<1> QED
  BY <1>4, <1>5

LEMMA TimersStep ==
  ASSUME [Next]_vars
  PROVE  retryTimers' = retryTimers \/ RetryTimerFires \/ CoolDown
BY DEF Next, HandleMessage, ExecuteCommand, ExecutePause, ExecuteResume, ExecuteNext,
   ExecutePrevious, ExecuteStop, ExecuteShuffle, ExecuteRepeat, ExecuteSearch,
   RejectSearch, HandleExit, ExitWithoutPlayer, ExitIgnored, ExitAfterStop,
   ExitAfterSwitch, RetryAfterExit, TrackEnded, ExitOfCurrent, HandleWake,
   HandleAirPlay, HandleForceKill, HandleAppendQueue, HandleRetryQueue, Search,
   SearchFailed, SongFound, ListFound, ReplaceQueue, Start, SkipPlayed, StartPlayer,
   CoolDownExhausted, StartFailed, QueueExhausted, World, Request, AirPlayChanges,
   PlayerExits, KillTimerFires, KickArrives, PrefetchEnds, vars

-----------------------------------------------------------------------------
(* Retries and kicks: what is on its way to start a song is not lost.        *)

RetryMessage == [type |-> "RetryQueue", epoch |-> epoch]

\* The promise of a retry outlives every step that keeps the queue's epoch, until the
\* retry itself is handled.
LEMMA RetryKept ==
  ASSUME TypeOK, [Next]_vars, RetryPending, epoch' = epoch
  PROVE  RetryPending' \/ (HandleRetryQueue /\ Head(rx) = RetryMessage)
<1>1. RetryMessage' = RetryMessage
  BY DEF RetryMessage
<1>2. CASE RetryMessage \in Range(rx)
  <2>1. CASE RetryMessage \in Range(rx')
    BY <1>1, <2>1 DEF RetryPending, RetryMessage
  <2>2. CASE RetryMessage \notin Range(rx')
    <3>1. HandleMessage /\ Head(rx) = RetryMessage
      BY <1>2, <2>2, MailStep
    <3>2. RetryMessage.type = "RetryQueue"
      BY DEF RetryMessage
    <3> QED
      BY <3>1, <3>2, HandlerOf
  <2> QED
    BY <2>1, <2>2
<1>3. CASE epoch \in Range(retryTimers)
  <2>1. CASE Range(retryTimers) \subseteq Range(retryTimers')
    BY <1>3, <2>1 DEF RetryPending
  <2>2. CASE RetryTimerFires
    <3>1. PICK i \in DOMAIN retryTimers :
            /\ Deliver([type |-> "RetryQueue", epoch |-> retryTimers[i]])
            /\ retryTimers' = SubSeq(retryTimers, 1, i - 1)
                                \o SubSeq(retryTimers, i + 1, Len(retryTimers))
      BY <2>2 DEF RetryTimerFires
    <3>2. CASE retryTimers[i] = epoch
      <4>1. RetryMessage \in Range(rx')
        BY <3>1, <3>2, DeliverMail DEF RetryMessage
      <4> QED
        BY <1>1, <4>1 DEF RetryPending, RetryMessage
    <3>3. CASE retryTimers[i] # epoch
      <4>1. PICK j \in DOMAIN retryTimers : retryTimers[j] = epoch
        BY <1>3 DEF Range
      <4>2. /\ retryTimers \in Seq(Nat)
            /\ i \in 1..Len(retryTimers) /\ j \in 1..Len(retryTimers)
        BY DEF TypeOK
      <4>3. epoch \in Range(retryTimers')
        BY <3>1, <3>3, <4>1, <4>2, DropKeeps
      <4> QED
        BY <4>3 DEF RetryPending
    <3> QED
      BY <3>2, <3>3
  <2>3. CASE CoolDown
    <3>1. retryTimers' = retryTimers \/ retryTimers' = Append(retryTimers, epoch)
      BY <2>3 DEF CoolDown, ScheduleRetry
    <3>2. Range(retryTimers) \subseteq Range(Append(retryTimers, epoch))
      BY AppendTimer DEF TypeOK
    <3> QED
      BY <2>1, <3>1, <3>2
  <2>4. retryTimers' = retryTimers \/ RetryTimerFires \/ CoolDown
    BY TimersStep
  <2> QED
    BY <2>1, <2>2, <2>3, <2>4
<1> QED
  BY <1>2, <1>3 DEF RetryPending, RetryMessage

LEMMA ScheduledStep ==
  ASSUME [Next]_vars
  PROVE  \/ retryScheduled' = retryScheduled /\ epoch' = epoch
         \/ retryScheduled' = FALSE
         \/ CoolDown
         \/ HandleRetryQueue
BY DEF Next, HandleMessage, ExecuteCommand, ExecutePause, ExecuteResume, ExecuteNext,
   ExecutePrevious, ExecuteStop, ExecuteShuffle, ExecuteRepeat, ExecuteSearch,
   RejectSearch, HandleExit, ExitWithoutPlayer, ExitIgnored, ExitAfterStop,
   ExitAfterSwitch, RetryAfterExit, TrackEnded, ExitOfCurrent, HandleWake,
   HandleAirPlay, HandleForceKill, HandleAppendQueue, Search,
   SearchFailed, SongFound, ListFound, ReplaceQueue, Start, SkipPlayed, StartPlayer,
   CoolDownExhausted, StartFailed, QueueExhausted, World, Request, AirPlayChanges,
   PlayerExits, KillTimerFires, RetryTimerFires, KickArrives, PrefetchEnds,
   ResetCooldown, vars

LEMMA RetryStep ==
  ASSUME TypeOK, RetryScheduledHasTimer, [Next]_vars
  PROVE  RetryScheduledHasTimer'
<1>1. CASE retryScheduled' = FALSE
  BY <1>1 DEF RetryScheduledHasTimer
<1>2. CASE CoolDown
  <2>1. epoch' = epoch /\ epoch \in Nat /\ retryTimers \in Seq(Nat)
    BY <1>2 DEF CoolDown, TypeOK
  <2>2. CASE retryScheduled
    <3>1. RetryPending
      BY <2>2 DEF RetryScheduledHasTimer
    <3>2. ~HandleRetryQueue
      BY <1>2 DEF CoolDown, HandleRetryQueue, Receive
    <3> QED
      BY <2>1, <3>1, <3>2, RetryKept DEF RetryScheduledHasTimer
  <2>3. CASE ~retryScheduled
    <3>1. retryTimers' = Append(retryTimers, epoch)
      BY <1>2, <2>3 DEF CoolDown, ScheduleRetry
    <3>2. epoch' \in Range(retryTimers')
      BY <2>1, <3>1, AppendTimer
    <3> QED
      BY <3>2 DEF RetryScheduledHasTimer, RetryPending
  <2> QED
    BY <2>2, <2>3
<1>3. CASE HandleRetryQueue
  <2>1. PICK e \in 0..epoch :
          /\ Head(rx) = [type |-> "RetryQueue", epoch |-> e]
          /\ retryScheduled' = (retryScheduled /\ Stale(e))
    BY <1>3 DEF HandleRetryQueue, Receive
  <2>2. epoch' = epoch
    BY <1>3 DEF HandleRetryQueue
  <2>3. CASE e = epoch
    BY <2>1, <2>3 DEF Stale, RetryScheduledHasTimer
  <2>4. CASE e # epoch
    <3>1. Head(rx) # RetryMessage
      <4>1. Head(rx).epoch = e /\ RetryMessage.epoch = epoch
        BY <2>1 DEF RetryMessage
      <4> QED
        BY <2>4, <4>1
    <3>2. retryScheduled' => RetryPending
      BY <2>1, <2>4 DEF Stale, RetryScheduledHasTimer
    <3> QED
      BY <2>2, <3>1, <3>2, RetryKept DEF RetryScheduledHasTimer
  <2> QED
    BY <2>3, <2>4
<1>4. CASE retryScheduled' = retryScheduled /\ epoch' = epoch /\ ~HandleRetryQueue
  BY <1>4, RetryKept DEF RetryScheduledHasTimer
<1> QED
  BY <1>1, <1>2, <1>3, <1>4, ScheduledStep

\* While url_retry_scheduled holds back other starts, its retry is on its way.
THEOREM RetriesArrive == Spec => []RetryScheduledHasTimer
<1>1. Init => RetryScheduledHasTimer
  BY DEF Init, RetryScheduledHasTimer
<1>2. TypeOK /\ RetryScheduledHasTimer /\ [Next]_vars => RetryScheduledHasTimer'
  BY RetryStep
<1> QED
  BY <1>1, <1>2, Typing, PTL DEF Spec

LEMMA KicksStep ==
  ASSUME [Next]_vars
  PROVE  kicks' = kicks \/ kicks' = kicks + 1 \/ KickArrives
BY DEF Next, HandleMessage, ExecuteCommand, ExecutePause, ExecuteResume, ExecuteNext,
   ExecutePrevious, ExecuteStop, ExecuteShuffle, ExecuteRepeat, ExecuteSearch,
   RejectSearch, HandleExit, ExitWithoutPlayer, ExitIgnored, ExitAfterStop,
   ExitAfterSwitch, RetryAfterExit, TrackEnded, ExitOfCurrent, HandleWake,
   HandleAirPlay, HandleForceKill, HandleAppendQueue, HandleRetryQueue, Search,
   SearchFailed, SongFound, ListFound, ReplaceQueue, Start, SkipPlayed, StartPlayer,
   CoolDown, CoolDownExhausted, StartFailed, QueueExhausted, World, Request,
   AirPlayChanges, PlayerExits, KillTimerFires, RetryTimerFires, PrefetchEnds,
   StopCurrent, Terminate, Kick, vars

\* A kick reaches the actor, which starts the next song unless one plays.
LEMMA KickKept ==
  ASSUME TypeOK, Accounting, [Next]_vars, KickPending
  PROVE  KickPending' \/ ExitWithoutPlayer \/ (Playing /\ ExitIgnored)
<1> DEFINE kick == Exited(0, FALSE)
<1>1. /\ kick.type = "PlayerExited" /\ kick.generation = 0
      /\ \A g, ok : Exited(g, ok).generation = g
  BY DEF Exited
<1>2. CASE kick \in Range(rx)
  <2>1. CASE kick \in Range(rx')
    BY <2>1 DEF KickPending
  <2>2. CASE kick \notin Range(rx')
    <3>1. HandleMessage /\ Head(rx) = kick
      BY <1>2, <2>2, MailStep
    <3>2. HandleExit
      BY <1>1, <3>1, HandlerOf
    <3>3. ASSUME NEW ok \in BOOLEAN, ExitOfCurrent(ok)
          PROVE  FALSE
      <4>1. Playing /\ Head(rx) = Exited(current.generation, ok)
        BY <3>3 DEF ExitOfCurrent, ReceiveExit, Receive
      <4>2. Head(rx).generation = current.generation /\ Head(rx).generation = 0
        BY <1>1, <3>1, <4>1, Zenon
      <4> QED
        BY <4>1, <4>2 DEF Accounting, PlayerAccounting
    <3>4. CASE ExitIgnored
      <4>1. PICK g, ok : Head(rx) = Exited(g, ok) /\ (Playing \/ g # 0)
        BY <3>4 DEF ExitIgnored, ReceiveExit, Receive
      <4>2. Head(rx).generation = g /\ Head(rx).generation = 0
        BY <1>1, <3>1, <4>1, Zenon
      <4> QED
        BY <3>4, <4>1, <4>2
    <3> QED
      BY <3>2, <3>3, <3>4 DEF HandleExit, ExitAfterStop, ExitAfterSwitch,
         RetryAfterExit, TrackEnded
  <2> QED
    BY <2>1, <2>2
<1>3. CASE kicks > 0
  <2>1. CASE KickArrives
    <3>1. kick \in Range(rx')
      BY <2>1, DeliverMail DEF KickArrives
    <3> QED
      BY <3>1 DEF KickPending
  <2>2. CASE kicks' = kicks \/ kicks' = kicks + 1
    <3>1. kicks' > 0
      BY <1>3, <2>2 DEF TypeOK
    <3> QED
      BY <3>1 DEF KickPending
  <2> QED
    BY <2>1, <2>2, KicksStep
<1> QED
  BY <1>2, <1>3 DEF KickPending

LEMMA ShuffleEmpty ==
  ASSUME NEW s \in Seq(Songs), NEW t \in Shuffles(s)
  PROVE  t = <<>> <=> s = <<>>
<1>1. t \in Seq(Songs) /\ DOMAIN t = DOMAIN s
  BY ShufflesType DEF Shuffles
<1>2. DOMAIN t = 1..Len(t) /\ DOMAIN s = 1..Len(s) /\ Len(s) \in Nat /\ Len(t) \in Nat
  BY <1>1, LenProperties
<1>3. Len(t) = 0 <=> Len(s) = 0
  <2>1. (1 \in 1..Len(t) <=> Len(t) # 0) /\ (1 \in 1..Len(s) <=> Len(s) # 0)
    BY <1>2
  <2>2. 1..Len(t) = 1..Len(s)
    BY <1>1, <1>2
  <2> QED
    BY <2>1, <2>2
<1> QED
  BY <1>1, <1>3, EmptySeq

LEMMA TrackOfStart ==
  ASSUME TypeOK, StartPlayer
  PROVE  /\ current' = NewTrack(Head(queue), generation') /\ current' \in Track
         /\ Playing'
<1>1. current' = NewTrack(Head(queue), generation')
  BY DEF StartPlayer
<1>2. Head(queue) \in Songs /\ generation' \in Nat
  BY DEF StartPlayer, TypeOK
<1>3. current' \in Track
  BY <1>1, <1>2 DEF NewTrack, Track, EndReasons, Sources, TypeOK
<1> QED
  BY <1>1, <1>3, NoTrackAssumption DEF Playing

\* Only the handler of exits takes the current track's exit.
LEMMA ExitIsHandled ==
  ASSUME TypeOK, [Next]_vars, NEW ok \in BOOLEAN, ExitOfCurrent(ok)
  PROVE  HandleExit
<1>1. Takes /\ Head(rx).type = "PlayerExited" /\ rx' # rx
  BY DEF ExitOfCurrent, ReceiveExit, Receive, Exited, Takes, TypeOK
<1>2. HandleMessage
  <2>1. CASE World
    <3>1. rx' = rx \/ \E m : rx' = Append(rx, m)
      BY <2>1, WorldMail DEF Deliver
    <3> QED
      BY <1>1, <3>1 DEF Takes, TypeOK
  <2>2. CASE HandleAirPlay \/ Search \/ Start \/ UNCHANGED vars
    BY <1>1, <2>2 DEF HandleAirPlay, Search, SearchFailed, SongFound, ListFound,
       ReplaceQueue, Start, SkipPlayed, StartPlayer, CoolDown, CoolDownExhausted,
       StartFailed, QueueExhausted, vars
  <2> QED
    BY <2>1, <2>2 DEF Next
<1> QED
  BY <1>1, <1>2, HandlerOf

\* A queue that lies idle after a step of the actor lay idle before, if it was there.
LEMMA StrandFrame ==
  ASSUME TypeOK, Accounting, [Next]_vars, Stranded',
         pc # "starting", ~Playing, queue # <<>>, epoch' = epoch
  PROVE  Stranded
<1>1. ~KickPending
  <2>1. ~ExitWithoutPlayer
    BY DEF ExitWithoutPlayer, StartNext, Stranded
  <2> QED
    BY <2>1, KickKept DEF Stranded
<1>2. ~RetryPending
  <2>1. ASSUME HandleRetryQueue, Head(rx) = RetryMessage
        PROVE  FALSE
    <3>1. PICK e \in 0..epoch :
            /\ Head(rx) = [type |-> "RetryQueue", epoch |-> e]
            /\ ~Stale(e) /\ MayStart(queue) => pc' = "starting"
      BY <2>1 DEF HandleRetryQueue, Receive, StartNext
    <3>2. Head(rx).epoch = e /\ Head(rx).epoch = epoch
      BY <2>1, <3>1 DEF RetryMessage
    <3> QED
      BY <3>1, <3>2 DEF Stale, MayStart, Stranded
  <2> QED
    BY <2>1, RetryKept DEF Stranded
<1> QED
  BY <1>1, <1>2 DEF Stranded

LEMMA StrandStep ==
  ASSUME TypeOK, Accounting, RetryScheduledHasTimer, RetryScheduledHasTimer', [Next]_vars,
         Stranded'
  PROVE  Stranded \/ (Playing /\ current.ending = "Stop")
<1> USE DEF StartNext
<1>0. pc' # "starting" /\ ~Playing' /\ queue' # <<>> /\ ~KickPending' /\ ~RetryPending'
  BY DEF Stranded
<1>1. CASE HandleExit
  <2>1. CASE ExitWithoutPlayer
    BY <1>0, <2>1 DEF ExitWithoutPlayer
  <2>2. CASE ExitIgnored
    <3>1. UNCHANGED <<pc, queue, current, epoch>>
      BY <2>2 DEF ExitIgnored
    <3> QED
      BY <1>0, <3>1, StrandFrame DEF Playing
  <2>3. CASE ExitAfterStop
    BY <2>3 DEF ExitAfterStop, ExitOfCurrent
  <2>4. CASE ExitAfterSwitch \/ RetryAfterExit
    BY <1>0, <2>4 DEF ExitAfterSwitch, RetryAfterExit
  <2>5. CASE TrackEnded
    BY <1>0, <2>5 DEF TrackEnded
  <2> QED
    BY <1>1, <2>1, <2>2, <2>3, <2>4, <2>5 DEF HandleExit
<1>2. CASE Start
  <2>1. CASE SkipPlayed \/ StartFailed
    BY <1>0, <2>1 DEF SkipPlayed, StartFailed
  <2>2. CASE StartPlayer
    BY <1>0, <2>2, TrackOfStart
  <2>3. CASE CoolDown
    BY <1>0, <2>3 DEF CoolDown, ScheduleRetry, RetryScheduledHasTimer
  <2>4. CASE CoolDownExhausted \/ QueueExhausted
    BY <1>0, <2>4 DEF CoolDownExhausted, QueueExhausted
  <2> QED
    BY <1>2, <2>1, <2>2, <2>3, <2>4 DEF Start
<1>3. CASE ~HandleExit /\ ~Start
  <2>1. current' = current /\ ~Playing
    <3>1. ~SameTrack
      BY <1>0 DEF SameTrack
    <3>2. ~ \E ok \in BOOLEAN : ExitOfCurrent(ok)
      BY <1>3, ExitIsHandled
    <3> QED
      BY <1>0, <1>3, <3>1, <3>2, TrackStep DEF Start, Playing
  <2>2. CASE ExecuteCommand
    <3>1. pc = "select"
      BY <2>2, HandlerOf DEF HandleMessage, Takes
    <3>2. CASE ExecuteStop
      BY <1>0, <3>2 DEF ExecuteStop
    <3>3. CASE ExecutePrevious
      <4>1. CASE history = <<>>
        <5>1. UNCHANGED <<queue, epoch>>
          BY <3>3, <4>1 DEF ExecutePrevious
        <5> QED
          BY <1>0, <2>1, <3>1, <5>1, StrandFrame
      <4>2. CASE history # <<>>
        <5>1. kicks' = kicks + 1
          BY <2>1, <3>3, <4>2 DEF ExecutePrevious, StopCurrent, Kick
        <5>2. kicks' > 0
          BY <5>1 DEF TypeOK
        <5> QED
          BY <1>0, <5>2 DEF KickPending
      <4> QED
        BY <4>1, <4>2
    <3>4. CASE ExecuteShuffle
      <4>1. epoch' = epoch /\ queue' \in Shuffles(queue)
        BY <3>4 DEF ExecuteShuffle
      <4>2. queue # <<>>
        BY <1>0, <4>1, ShuffleEmpty DEF TypeOK
      <4> QED
        BY <2>1, <3>1, <4>1, <4>2, StrandFrame
    <3>5. CASE ExecutePause \/ ExecuteResume \/ ExecuteNext \/ ExecuteRepeat
                 \/ ExecuteSearch \/ RejectSearch
      <4>1. UNCHANGED <<queue, epoch>>
        BY <3>5 DEF ExecutePause, ExecuteResume, ExecuteNext, ExecuteRepeat,
           ExecuteSearch, RejectSearch
      <4> QED
        BY <1>0, <2>1, <3>1, <4>1, StrandFrame
    <3> QED
      BY <2>2, <3>2, <3>3, <3>4, <3>5 DEF ExecuteCommand
  <2>3. CASE Search
    <3>1. CASE SearchFailed
      <4>1. pc # "starting" /\ UNCHANGED <<queue, epoch>>
        BY <3>1 DEF SearchFailed
      <4> QED
        BY <1>0, <2>1, <4>1, StrandFrame
    <3>2. ASSUME NEW songs, NEW song, ReplaceQueue(songs, song)
          PROVE  FALSE
      BY <1>0, <2>1, <3>2 DEF ReplaceQueue
    <3> QED
      BY <2>3, <3>1, <3>2 DEF Search, SongFound, ListFound
  <2>4. CASE HandleAppendQueue
    <3>1. pc = "select" /\ epoch' = epoch /\ Head(rx).type = "AppendQueue"
      BY <2>4 DEF HandleAppendQueue
    <3>2. CASE queue' = queue
      BY <1>0, <2>1, <3>1, <3>2, StrandFrame
    <3>3. CASE queue' # queue
      <4>1. MayStart(queue') /\ ~retryScheduled => pc' = "starting"
        BY <2>4, <3>3 DEF HandleAppendQueue
      <4>2. retryScheduled
        BY <1>0, <2>1, <4>1 DEF MayStart
      <4>3. RetryPending
        BY <4>2 DEF RetryScheduledHasTimer
      <4>4. Head(rx) # RetryMessage
        BY <3>1 DEF RetryMessage
      <4> QED
        BY <1>0, <3>1, <4>3, <4>4, RetryKept
    <3> QED
      BY <3>2, <3>3
  <2>5. CASE HandleWake \/ HandleForceKill \/ HandleRetryQueue
    <3>1. pc = "select" /\ UNCHANGED <<queue, epoch>>
      BY <2>5 DEF HandleWake, HandleForceKill, HandleRetryQueue, Receive
    <3> QED
      BY <1>0, <2>1, <3>1, StrandFrame
  <2>6. CASE HandleAirPlay \/ World \/ UNCHANGED vars
    <3>1. UNCHANGED <<pc, queue, epoch>>
      BY <2>6 DEF HandleAirPlay, World, Request, AirPlayChanges, PlayerExits,
         KillTimerFires, RetryTimerFires, KickArrives, PrefetchEnds, vars
    <3> QED
      BY <1>0, <2>1, <3>1, StrandFrame
  <2> QED
    BY <1>3, <2>2, <2>3, <2>4, <2>5, <2>6 DEF Next, HandleMessage
<1> QED
  BY <1>1, <1>2, <1>3

\* Nothing strands a queue but the exit of a track that a Stop was ending when the
\* queue came: the first result of a search is played at once.
THEOREM NothingStrands == Spec => NoStranding
<1>1. TypeOK /\ Accounting /\ RetryScheduledHasTimer /\ RetryScheduledHasTimer' /\ [Next]_vars
        => [Stranded' => Stranded \/ (Playing /\ current.ending = "Stop")]_vars
  BY StrandStep
<1> QED
  BY <1>1, Typing, AccountingAlways, RetriesArrive, PTL DEF Spec, NoStranding

-----------------------------------------------------------------------------
(* The flag that routes short commands to the music.                         *)

ActiveInv ==
  /\ Playing => active
  /\ pc # "starting" /\ ~KickPending => (active <=> Playing \/ queue # <<>>)

\* A step that leaves the flag, the track and the emptiness of the queue alone
LEMMA ActiveFrame ==
  ASSUME TypeOK, Accounting, ActiveInv, [Next]_vars, ~ExitWithoutPlayer,
         active' = active, Playing' <=> Playing, queue' = <<>> <=> queue = <<>>,
         pc = "starting" => pc' = "starting"
  PROVE  ActiveInv'
<1>1. CASE Playing
  BY <1>1 DEF ActiveInv
<1>2. CASE ~Playing
  <2>1. pc' # "starting" /\ ~KickPending' => pc # "starting" /\ ~KickPending
    BY <1>2, KickKept
  <2> QED
    BY <1>2, <2>1 DEF ActiveInv
<1> QED
  BY <1>1, <1>2

\* update_active, and the steps that leave it to the loop of start_next_with_retry
LEMMA ActiveSet ==
  ASSUME \/ UpdateActive
         \/ pc' = "starting" /\ ~Playing'
         \/ KickPending' /\ ~Playing'
         \/ Playing' /\ active'
  PROVE  ActiveInv'
<1>1. CASE UpdateActive
  <2>1. active' <=> Playing' \/ queue' # <<>>
    BY <1>1, Zenon DEF UpdateActive, Playing
  <2> QED
    BY <2>1 DEF ActiveInv
<1> QED
  BY <1>1 DEF ActiveInv

LEMMA CommandActive ==
  ASSUME TypeOK, Accounting, ActiveInv, ExecuteCommand
  PROVE  ActiveInv'
<1>1. [Next]_vars /\ pc = "select"
  BY HandlerOf DEF Next, HandleMessage, Takes
<1>2. ~ExitWithoutPlayer
  <2>1. PICK c : Head(rx) = Execute(c)
    BY DEF ExecuteCommand, ExecutePause, ExecuteResume, ExecuteNext,
       ExecutePrevious, ExecuteStop, ExecuteShuffle, ExecuteRepeat, ExecuteSearch,
       RejectSearch, Receive
  <2>2. Execute(c).type = "Execute" /\ Exited(0, FALSE).type = "PlayerExited"
    BY DEF Execute, Exited
  <2> QED
    BY <2>1, <2>2 DEF ExitWithoutPlayer, ReceiveExit, Receive
<1>3. CASE ExecutePause \/ ExecuteResume
  <2>1. current' = current \/ SameTrack
    BY <1>3, SetPauseTrack DEF ExecutePause, ExecuteResume, Pausing, Sources
  <2>2. Playing' <=> Playing
    BY <2>1 DEF SameTrack, Playing
  <2> QED
    BY <1>1, <1>2, <1>3, <2>2, ActiveFrame DEF ExecutePause, ExecuteResume
<1>4. CASE ExecuteNext
  <2>1. current' = current \/ SameTrack
    BY <1>4, StopCurrentTrack DEF ExecuteNext, EndReasons
  <2>2. Playing' <=> Playing
    BY <2>1 DEF SameTrack, Playing
  <2> QED
    BY <1>1, <1>2, <1>4, <2>2, ActiveFrame DEF ExecuteNext
<1>5. CASE ExecutePrevious /\ history = <<>>
  BY <1>1, <1>2, <1>5, ActiveFrame DEF ExecutePrevious, Playing
<1>6. CASE ExecutePrevious /\ history # <<>>
  <2>1. StopCurrent("Previous") /\ active' = active
    BY <1>6 DEF ExecutePrevious
  <2>2. CASE Playing
    BY <2>1, <2>2, StopCurrentTrack, ActiveSet DEF ActiveInv, EndReasons
  <2>3. CASE ~Playing
    <3>1. kicks' = kicks + 1 /\ ~Playing'
      BY <2>1, <2>3 DEF StopCurrent, Kick, Playing
    <3>2. kicks' > 0
      BY <3>1 DEF TypeOK
    <3>3. KickPending'
      BY <3>2 DEF KickPending
    <3> QED
      BY <3>1, <3>3, ActiveSet
  <2> QED
    BY <2>2, <2>3
<1>7. CASE ExecuteStop
  BY <1>7, ActiveSet DEF ExecuteStop
<1>8. CASE ExecuteShuffle
  <2>1. queue' = <<>> <=> queue = <<>>
    BY <1>8, ShuffleEmpty DEF ExecuteShuffle, TypeOK
  <2> QED
    BY <1>1, <1>2, <1>8, <2>1, ActiveFrame DEF ExecuteShuffle, Playing
<1>9. CASE ExecuteRepeat \/ ExecuteSearch \/ RejectSearch
  <2>1. UNCHANGED <<current, queue, active>>
    BY <1>9 DEF ExecuteRepeat, ExecuteSearch, RejectSearch
  <2> QED
    BY <1>1, <1>2, <2>1, ActiveFrame DEF Playing
<1> QED
  BY <1>3, <1>4, <1>5, <1>6, <1>7, <1>8, <1>9 DEF ExecuteCommand

LEMMA ExitActive ==
  ASSUME TypeOK, Accounting, ActiveInv, HandleExit
  PROVE  ActiveInv'
<1> USE DEF StartNext
<1>1. [Next]_vars
  BY DEF Next, HandleMessage
<1>2. CASE ExitWithoutPlayer
  BY <1>2, ActiveSet DEF ExitWithoutPlayer, Playing
<1>3. CASE ExitIgnored /\ ~ExitWithoutPlayer
  BY <1>1, <1>3, ActiveFrame DEF ExitIgnored, Playing
<1>4. CASE ExitAfterStop
  BY <1>4, ActiveSet DEF ExitAfterStop
<1>5. CASE ExitAfterSwitch \/ RetryAfterExit
  <2>1. pc' = "starting" /\ ~Playing'
    BY <1>5 DEF ExitAfterSwitch, RetryAfterExit, ExitOfCurrent, Playing
  <2> QED
    BY <2>1, ActiveSet
<1>6. CASE TrackEnded
  <2>1. UpdateActive \/ (pc' = "starting" /\ ~Playing')
    BY <1>6 DEF TrackEnded, ExitOfCurrent, Playing
  <2> QED
    BY <2>1, ActiveSet
<1> QED
  BY <1>2, <1>3, <1>4, <1>5, <1>6 DEF HandleExit

LEMMA StartActive ==
  ASSUME TypeOK, Accounting, ActiveInv, Start
  PROVE  ActiveInv'
<1>1. pc = "starting" /\ ~Playing
  BY DEF Start, SkipPlayed, StartPlayer, CoolDown, CoolDownExhausted, StartFailed,
     QueueExhausted, Accounting, PlayerAccounting
<1>2. CASE SkipPlayed \/ StartFailed
  <2>1. pc' = "starting" /\ ~Playing'
    BY <1>1, <1>2 DEF SkipPlayed, StartFailed, Playing
  <2> QED
    BY <2>1, ActiveSet
<1>3. CASE StartPlayer \/ CoolDown \/ CoolDownExhausted \/ QueueExhausted
  BY <1>3, ActiveSet DEF StartPlayer, CoolDown, CoolDownExhausted, QueueExhausted
<1> QED
  BY <1>2, <1>3 DEF Start

LEMMA ActiveStep ==
  ASSUME TypeOK, Accounting, ActiveInv, [Next]_vars
  PROVE  ActiveInv'
<1>1. CASE ExecuteCommand
  BY <1>1, CommandActive
<1>2. CASE HandleExit
  BY <1>2, ExitActive
<1>3. CASE Start
  BY <1>3, StartActive
<1>4. CASE HandleAppendQueue
  <2>1. pc = "select" /\ current' = current /\ Head(rx).type = "AppendQueue"
    BY <1>4 DEF HandleAppendQueue
  <2>2. CASE UNCHANGED <<queue, pc, active>>
    <3>1. ~ExitWithoutPlayer
      <4>1. Exited(0, FALSE).type = "PlayerExited"
        BY DEF Exited
      <4> QED
        BY <2>1, <4>1 DEF ExitWithoutPlayer, ReceiveExit, Receive
    <3> QED
      BY <2>1, <2>2, <3>1, ActiveFrame DEF Playing
  <2>3. CASE MayStart(queue') /\ StartNext(0)
    BY <2>1, <2>3, ActiveSet DEF MayStart, StartNext, Playing
  <2>4. CASE active' = (Playing \/ queue' # <<>>)
    <3>1. UpdateActive
      BY <2>1, <2>4, Zenon DEF UpdateActive, Playing
    <3> QED
      BY <3>1, ActiveSet
  <2> QED
    BY <1>4, <2>2, <2>3, <2>4 DEF HandleAppendQueue
<1>5. CASE HandleRetryQueue
  <2>1. pc = "select" /\ UNCHANGED <<current, queue, active>>
    BY <1>5 DEF HandleRetryQueue, Receive
  <2>2. CASE MayStart(queue) /\ StartNext(0)
    BY <2>1, <2>2, ActiveSet DEF MayStart, StartNext, Playing
  <2>3. CASE pc' = pc
    <3>1. ~ExitWithoutPlayer
      BY <2>1, <2>3 DEF ExitWithoutPlayer, StartNext
    <3> QED
      BY <2>1, <2>3, <3>1, ActiveFrame DEF Playing
  <2> QED
    BY <1>5, <2>2, <2>3 DEF HandleRetryQueue
<1>6. CASE HandleWake \/ HandleAirPlay
  <2>1. PICK source \in {"Wake", "AirPlay"}, value \in BOOLEAN : Pausing(source, value)
    BY <1>6, WakePauses, AirPlayPauses
  <2>2. current' = current \/ SameTrack
    BY <2>1, SetPauseTrack DEF Sources
  <2>3. Playing' <=> Playing
    BY <2>2 DEF SameTrack, Playing
  <2>4. pc = "select" /\ UNCHANGED <<pc, queue, active>>
    BY <1>6 DEF HandleWake, HandleAirPlay, Receive
  <2>5. ~ExitWithoutPlayer
    BY <2>4 DEF ExitWithoutPlayer, StartNext
  <2> QED
    BY <2>3, <2>4, <2>5, ActiveFrame
<1>7. CASE HandleForceKill \/ World \/ SearchFailed \/ UNCHANGED vars
  <2>1. UNCHANGED <<current, queue, active>> /\ (pc = "starting" => pc' = "starting")
    BY <1>7 DEF HandleForceKill, Receive, World, Request, AirPlayChanges, PlayerExits,
       KillTimerFires, RetryTimerFires, KickArrives, PrefetchEnds, SearchFailed, vars
  <2>2. pc' = pc \/ pc' = "select"
    BY <1>7 DEF HandleForceKill, Receive, World, Request, AirPlayChanges, PlayerExits,
       KillTimerFires, RetryTimerFires, KickArrives, PrefetchEnds, SearchFailed, vars
  <2>3. ~ExitWithoutPlayer
    BY <2>2 DEF ExitWithoutPlayer, StartNext, ReceiveExit, Receive
  <2> QED
    BY <2>1, <2>3, ActiveFrame DEF Playing
<1>8. ASSUME NEW songs, NEW song, ReplaceQueue(songs, song)
      PROVE  ActiveInv'
  <2>1. CASE Playing
    BY <1>8, <2>1, ActiveSet DEF ReplaceQueue
  <2>2. CASE ~Playing
    BY <1>8, <2>2, ActiveSet DEF ReplaceQueue, StartNext, Playing
  <2> QED
    BY <2>1, <2>2
<1> QED
  BY <1>1, <1>2, <1>3, <1>4, <1>5, <1>6, <1>7, <1>8
     DEF Next, HandleMessage, Search, SongFound, ListFound

\* MusicService.is_active agrees with the track and the queue between handlers, unless
\* the report that starts a song from the history is on its way.
THEOREM ActiveFlag == Spec => []ActiveFlagAgrees
<1>1. Init => ActiveInv
  BY DEF Init, ActiveInv, Playing
<1>2. TypeOK /\ Accounting /\ ActiveInv /\ [Next]_vars => ActiveInv'
  BY ActiveStep
<1>3. TypeOK /\ ActiveInv => ActiveFlagAgrees
  <2> SUFFICES ASSUME TypeOK, ActiveInv, pc = "select", ~KickPending
               PROVE  active = (Playing \/ queue # <<>>)
    BY DEF ActiveFlagAgrees
  <2>1. active \in BOOLEAN /\ (active <=> Playing \/ queue # <<>>)
    BY DEF ActiveInv, TypeOK
  <2> QED
    BY <2>1, Zenon
<1> QED
  BY <1>1, <1>2, <1>3, Typing, AccountingAlways, PTL DEF Spec

-----------------------------------------------------------------------------
(* After a Stop.  The epoch of a stopped queue is in no task and no message, *)
(* so nothing that is still under way finds a queue to start.                *)

EpochInv ==
  /\ \A p \in prefetches : p.epoch <= epoch
  /\ \A m \in Range(rx) : m.type = "AppendQueue" => m.epoch <= epoch

StopInv ==
  /\ selected # NoSong => pc = "starting"
  /\ intent = "stop" =>
       /\ queue = <<>> /\ selected = NoSong
       /\ Playing => current.ending # "None"
       /\ \A p \in prefetches : p.epoch # epoch
       /\ \A m \in Range(rx) : m.type = "AppendQueue" => m.epoch # epoch

LEMMA EpochStep ==
  ASSUME TypeOK, [Next]_vars
  PROVE  epoch' = epoch \/ epoch' = epoch + 1
BY DEF Next, HandleMessage, ExecuteCommand, ExecutePause, ExecuteResume, ExecuteNext,
   ExecutePrevious, ExecuteStop, ExecuteShuffle, ExecuteRepeat, ExecuteSearch,
   RejectSearch, HandleExit, ExitWithoutPlayer, ExitIgnored, ExitAfterStop,
   ExitAfterSwitch, RetryAfterExit, TrackEnded, ExitOfCurrent, HandleWake,
   HandleAirPlay, HandleForceKill, HandleAppendQueue, HandleRetryQueue, Search,
   SearchFailed, SongFound, ListFound, ReplaceQueue, Start, SkipPlayed, StartPlayer,
   CoolDown, CoolDownExhausted, StartFailed, QueueExhausted, World, Request,
   AirPlayChanges, PlayerExits, KillTimerFires, RetryTimerFires, KickArrives,
   PrefetchEnds, NextEpoch, vars

\* A new background search carries the epoch of the step that spawns it.
LEMMA PrefetchStep ==
  ASSUME [Next]_vars
  PROVE  \/ prefetches' \subseteq prefetches
         \/ /\ pc = "starting" \/ intent' = "play"
            /\ \E song : song \in Songs /\ (intent' = "play" \/ song = selected)
                 /\ prefetches' = prefetches \cup {[epoch |-> epoch', selected |-> song]}
<1>1. CASE PrefetchEnds
  BY <1>1 DEF PrefetchEnds
<1>2. CASE Start
  BY <1>2 DEF Start, SkipPlayed, StartPlayer, CoolDown, CoolDownExhausted, StartFailed,
     QueueExhausted, Return, Prefetch
<1>3. CASE Search
  BY <1>3 DEF Search, SearchFailed, SongFound, ListFound, ReplaceQueue, Prefetch
<1>4. CASE HandleMessage
  BY <1>4 DEF HandleMessage, ExecuteCommand, ExecutePause, ExecuteResume, ExecuteNext,
     ExecutePrevious, ExecuteStop, ExecuteShuffle, ExecuteRepeat, ExecuteSearch,
     RejectSearch, HandleExit, ExitWithoutPlayer, ExitIgnored, ExitAfterStop,
     ExitAfterSwitch, RetryAfterExit, TrackEnded, ExitOfCurrent, HandleWake,
     HandleForceKill, HandleAppendQueue, HandleRetryQueue
<1>5. CASE HandleAirPlay \/ (World /\ ~PrefetchEnds) \/ UNCHANGED vars
  BY <1>5 DEF HandleAirPlay, World, Request, AirPlayChanges, PlayerExits,
     KillTimerFires, RetryTimerFires, KickArrives, vars
<1> QED
  BY <1>1, <1>2, <1>3, <1>4, <1>5 DEF Next

\* The AppendQueue messages come from the background searches.
LEMMA AppendMail ==
  ASSUME TypeOK, [Next]_vars, NEW m \in Range(rx'), m.type = "AppendQueue"
  PROVE  m \in Range(rx) \/ \E p \in prefetches : m.epoch = p.epoch
<1>1. ASSUME NEW n, Delivers(n), n.type = "AppendQueue"
      PROVE  \E p \in prefetches : n.epoch = p.epoch
  BY <1>1 DEF Delivers, Exited
<1> QED
  BY <1>1, MailStep

LEMMA EpochsStep ==
  ASSUME TypeOK, EpochInv, [Next]_vars
  PROVE  EpochInv'
<1>1. epoch \in Nat /\ epoch' \in Nat /\ epoch <= epoch'
  BY EpochStep DEF TypeOK
<1>2. \A p \in prefetches : p.epoch \in Nat
  BY DEF TypeOK
<1>3. \A m \in Range(rx) : m.type = "AppendQueue" => m.epoch \in Nat
  <2>1. \A m \in Range(rx) : m \in Message
    BY DEF TypeOK, Range
  <2>2. \A m \in Message : m.type = "AppendQueue" => m.epoch \in Nat
    BY DEF Message, Events
  <2> QED
    BY <2>1, <2>2
<1>4. ASSUME NEW p \in prefetches'
      PROVE  p.epoch <= epoch'
  <2>1. p \in prefetches \/ p.epoch = epoch'
    BY PrefetchStep
  <2> QED
    BY <1>1, <1>2, <2>1 DEF EpochInv
<1>5. ASSUME NEW m \in Range(rx'), m.type = "AppendQueue"
      PROVE  m.epoch <= epoch'
  <2>1. CASE m \in Range(rx)
    BY <1>1, <1>3, <1>5, <2>1 DEF EpochInv
  <2>2. CASE \E p \in prefetches : m.epoch = p.epoch
    BY <1>1, <1>2, <2>2 DEF EpochInv
  <2> QED
    BY <1>5, <2>1, <2>2, AppendMail
<1> QED
  BY <1>4, <1>5 DEF EpochInv

LEMMA IntentStep ==
  ASSUME [Next]_vars
  PROVE  \/ intent' = intent /\ epoch' = epoch
         \/ ExecuteStop
         \/ intent' = "play"
BY DEF Next, HandleMessage, ExecuteCommand, ExecutePause, ExecuteResume, ExecuteNext,
   ExecutePrevious, ExecuteShuffle, ExecuteRepeat, ExecuteSearch,
   RejectSearch, HandleExit, ExitWithoutPlayer, ExitIgnored, ExitAfterStop,
   ExitAfterSwitch, RetryAfterExit, TrackEnded, ExitOfCurrent, HandleWake,
   HandleAirPlay, HandleForceKill, HandleAppendQueue, HandleRetryQueue, Search,
   SearchFailed, SongFound, ListFound, ReplaceQueue, Start, SkipPlayed, StartPlayer,
   CoolDown, CoolDownExhausted, StartFailed, QueueExhausted, World, Request,
   AirPlayChanges, PlayerExits, KillTimerFires, RetryTimerFires, KickArrives,
   PrefetchEnds, vars

LEMMA SelectedStep ==
  ASSUME [Next]_vars, selected # NoSong => pc = "starting"
  PROVE  /\ selected' # NoSong => pc' = "starting"
         /\ selected' \in {selected, NoSong} \/ intent' = "play"
<1>1. CASE Start
  BY <1>1 DEF Start, SkipPlayed, StartPlayer, CoolDown, CoolDownExhausted, StartFailed,
     QueueExhausted, Return
<1>2. CASE Search
  BY <1>2 DEF Search, SearchFailed, SongFound, ListFound, ReplaceQueue, StartNext
<1>3. CASE HandleMessage
  <2>1. selected' = selected
    BY <1>3 DEF HandleMessage, ExecuteCommand, ExecutePause, ExecuteResume, ExecuteNext,
       ExecutePrevious, ExecuteStop, ExecuteShuffle, ExecuteRepeat, ExecuteSearch,
       RejectSearch, HandleExit, ExitWithoutPlayer, ExitIgnored, ExitAfterStop,
       ExitAfterSwitch, RetryAfterExit, TrackEnded, ExitOfCurrent, HandleWake,
       HandleForceKill, HandleAppendQueue, HandleRetryQueue
  <2>2. pc = "select"
    BY <1>3, HandlerOf DEF Takes
  <2> QED
    BY <2>1, <2>2
<1>4. CASE HandleAirPlay \/ World \/ UNCHANGED vars
  BY <1>4 DEF HandleAirPlay, World, Request, AirPlayChanges, PlayerExits,
     KillTimerFires, RetryTimerFires, KickArrives, PrefetchEnds, vars
<1> QED
  BY <1>1, <1>2, <1>3, <1>4 DEF Next

\* While the user wants silence the queue stays empty.
LEMMA QueueStaysEmpty ==
  ASSUME TypeOK, StopInv, intent = "stop", intent' # "play", [Next]_vars
  PROVE  queue' = <<>>
<1>0. /\ queue = <<>> /\ (Playing => current.ending # "None")
      /\ \A m \in Range(rx) : m.type = "AppendQueue" => m.epoch # epoch
  BY DEF StopInv
<1>1. CASE ExecutePrevious
  BY <1>0, <1>1 DEF ExecutePrevious
<1>2. CASE ExecuteShuffle
  BY <1>0, <1>2, ShuffleEmpty DEF ExecuteShuffle, TypeOK
<1>3. CASE HandleAppendQueue
  <2>1. rx # <<>> /\ Head(rx).type = "AppendQueue"
        /\ (Stale(Head(rx).epoch) => queue' = queue)
    BY <1>3 DEF HandleAppendQueue
  <2>2. Head(rx) \in Range(rx)
    BY <2>1, MailOfTail DEF TypeOK
  <2> QED
    BY <1>0, <2>1, <2>2 DEF Stale
<1>4. CASE HandleExit
  BY <1>0, <1>4 DEF HandleExit, ExitWithoutPlayer, ExitIgnored, ExitAfterStop,
     ExitAfterSwitch, RetryAfterExit, TrackEnded, ExitOfCurrent
<1>5. CASE Start
  BY <1>0, <1>5 DEF Start, SkipPlayed, StartPlayer, CoolDown, CoolDownExhausted,
     StartFailed, QueueExhausted
<1>6. CASE Search
  BY <1>0, <1>6 DEF Search, SearchFailed, SongFound, ListFound, ReplaceQueue
<1>7. CASE ExecuteCommand /\ ~ExecutePrevious /\ ~ExecuteShuffle
  BY <1>0, <1>7 DEF ExecuteCommand, ExecutePause, ExecuteResume, ExecuteNext,
     ExecuteStop, ExecuteRepeat, ExecuteSearch, RejectSearch
<1>8. CASE HandleWake \/ HandleAirPlay \/ HandleForceKill \/ HandleRetryQueue
             \/ World \/ UNCHANGED vars
  BY <1>0, <1>8 DEF HandleWake, HandleAirPlay, HandleForceKill, HandleRetryQueue, World,
     Request, AirPlayChanges, PlayerExits, KillTimerFires, RetryTimerFires, KickArrives,
     PrefetchEnds, vars
<1> QED
  BY <1>1, <1>2, <1>3, <1>4, <1>5, <1>6, <1>7, <1>8 DEF Next, HandleMessage

LEMMA StopStep ==
  ASSUME TypeOK, Accounting, EpochInv, StopInv, [Next]_vars
  PROVE  StopInv'
<1>1. /\ selected' # NoSong => pc' = "starting"
      /\ selected' \in {selected, NoSong} \/ intent' = "play"
  BY SelectedStep DEF StopInv
<1>2. CASE intent' # "stop"
  BY <1>1, <1>2 DEF StopInv
<1>3. CASE ExecuteStop
  <2>1. /\ queue' = <<>> /\ selected' = selected /\ prefetches' = prefetches
        /\ StopCurrent("Stop") /\ epoch' = epoch + 1
    BY <1>3 DEF ExecuteStop, NextEpoch
  <2>2. pc = "select" /\ Range(rx') \subseteq Range(rx)
    BY <1>3, ReceiveMail DEF ExecuteStop
  <2>3. selected' = NoSong
    BY <2>1, <2>2 DEF StopInv
  <2>4. Playing' => current'.ending # "None"
    <3>1. CASE Playing
      BY <2>1, <3>1, StopCurrentTrack DEF EndReasons
    <3>2. CASE ~Playing
      BY <2>1, <3>2 DEF StopCurrent, Playing
    <3> QED
      BY <3>1, <3>2
  <2>5. epoch \in Nat
    BY DEF TypeOK
  <2>6. \A p \in prefetches' : p.epoch # epoch'
    <3>1. \A p \in prefetches : p.epoch \in Nat /\ p.epoch <= epoch
      BY DEF TypeOK, EpochInv
    <3> QED
      BY <2>1, <2>5, <3>1
  <2>7. \A m \in Range(rx') : m.type = "AppendQueue" => m.epoch # epoch'
    <3>1. \A m \in Range(rx) : m.type = "AppendQueue" => m.epoch <= epoch
      BY DEF EpochInv
    <3>2. ~(epoch + 1 <= epoch)
      BY <2>5
    <3> QED
      BY <2>1, <2>2, <3>1, <3>2
  <2> QED
    BY <1>1, <2>1, <2>3, <2>4, <2>6, <2>7 DEF StopInv
<1>4. CASE intent' = "stop" /\ intent = "stop" /\ epoch' = epoch
  <2>1. queue' = <<>> /\ queue = <<>>
    BY <1>4, QueueStaysEmpty DEF StopInv
  <2>2. selected = NoSong /\ selected' = NoSong
    BY <1>1, <1>4 DEF StopInv
  <2>3. Playing' => current'.ending # "None"
    <3>1. ~StartPlayer
      BY <2>1 DEF StartPlayer
    <3>2. current' = current \/ SameTrack \/ current' = NoTrack
      BY <3>1, TrackStep
    <3> QED
      BY <1>4, <3>2 DEF StopInv, SameTrack, Playing
  <2>4. prefetches' \subseteq prefetches
    BY <1>4, <2>2, NoSongAssumption, PrefetchStep
  <2>5. \A m \in Range(rx') : m.type = "AppendQueue" => m.epoch # epoch'
    BY <1>4, AppendMail DEF StopInv
  <2> QED
    BY <1>1, <1>4, <2>1, <2>2, <2>3, <2>4, <2>5 DEF StopInv
<1> QED
  BY <1>2, <1>3, <1>4, IntentStep

LEMMA StopAlways == Spec => [](EpochInv /\ StopInv)
<1>1. Init => EpochInv /\ StopInv
  BY DEF Init, EpochInv, StopInv, Range
<1>2. TypeOK /\ Accounting /\ (EpochInv /\ StopInv) /\ [Next]_vars => (EpochInv /\ StopInv)'
  BY EpochsStep, StopStep
<1> QED
  BY <1>1, <1>2, Typing, AccountingAlways, PTL DEF Spec

\* After a Stop nothing under way - a search, a retry, a kick, a late exit - starts a
\* player, until the user asks for music again.
THEOREM StopStands == Spec => StopIsFinal
<1>1. TypeOK /\ StopInv /\ [Next]_vars => [intent = "stop" => live' \subseteq live]_vars
  <2> SUFFICES ASSUME TypeOK, StopInv, [Next]_vars, intent = "stop"
               PROVE  live' \subseteq live
    OBVIOUS
  <2>1. ~StartPlayer
    BY DEF StopInv, StartPlayer
  <2>2. ASSUME NEW g \in live, PlayerExits(g) PROVE live' \subseteq live
    BY <2>2 DEF PlayerExits
  <2> QED
    BY <2>1, <2>2, LiveStep
<1> QED
  BY <1>1, Typing, StopAlways, PTL DEF Spec, StopIsFinal

-----------------------------------------------------------------------------
(* Crashes.  Each failure counted so far pays for the configured retries and *)
(* for the exit that ended them; the retries of the track that plays, or of  *)
(* the one being started again, pay for the rest.                            *)

R == UnexpectedExitRetries
Paid == (R + 1) * failures

CrashInv ==
  /\ retryCount <= R
  /\ crashes <= Paid + R
  /\ Playing => current.retries <= R /\ crashes <= Paid + current.retries
  /\ Playing /\ current.ending = "Stop" /\ intent # "stop" => crashes = 0
  /\ intent = "stop" /\ history # <<>> => crashes = 0
  /\ pc = "starting" /\ intent # "stop" =>
       \/ crashes <= Paid
       \/ queue # <<>> /\ retryCount > 0 /\ crashes <= Paid + retryCount
  /\ pc # "starting" /\ ~Playing /\ intent # "stop" => crashes <= Paid

LEMMA PaidIsNat ==
  ASSUME TypeOK
  PROVE  Paid \in Nat /\ R \in Nat
<1>1. R \in Nat /\ failures \in Nat
  BY ConfigAssumption DEF R, TypeOK
<1>2. \A m, n \in Nat : (m + 1) * n \in Nat
  OBVIOUS
<1> QED
  BY <1>1, <1>2 DEF Paid

LEMMA PaidGrows ==
  ASSUME TypeOK, failures' = failures + 1
  PROVE  Paid' = Paid + R + 1
<1>1. R \in Nat /\ failures \in Nat /\ R' = R
  BY ConfigAssumption DEF R, TypeOK
<1>2. \A m, n \in Nat : (m + 1) * (n + 1) = (m + 1) * n + m + 1
  OBVIOUS
<1> QED
  BY <1>1, <1>2 DEF Paid

\* Where the crashes are forgotten only the retries are left to bound.
LEMMA NoCrashes ==
  ASSUME TypeOK', crashes' = 0, retryCount' <= R, Playing' => current'.retries <= R
  PROVE  CrashInv'
<1>1. Paid' \in Nat /\ R \in Nat /\ R' = R
  <2>1. failures' \in Nat /\ R \in Nat /\ R' = R
    BY ConfigAssumption DEF TypeOK, R
  <2>2. \A m, n \in Nat : (m + 1) * n \in Nat
    OBVIOUS
  <2> QED
    BY <2>1, <2>2 DEF Paid
<1>2. Playing' => current'.retries \in Nat
  <2>1. current' \in Track \/ ~Playing'
    BY DEF TypeOK, Playing
  <2> QED
    BY <2>1 DEF Track
<1>3. crashes' <= Paid' /\ crashes' <= Paid' + R'
  <2>1. \A m, n \in Nat : 0 <= m /\ 0 <= m + n
    OBVIOUS
  <2>2. Paid' \in Nat /\ R' \in Nat
    BY <1>1
  <2> QED
    BY <2>1, <2>2
<1>4. Playing' => current'.retries <= R' /\ crashes' <= Paid' + current'.retries
  BY <1>1, <1>2
<1>5. retryCount' <= R'
  BY <1>1
<1> QED
  BY <1>3, <1>4, <1>5, Zenon DEF CrashInv

\* A step that neither starts a song nor drops the track
QuietCrash ==
  /\ UNCHANGED <<failures, crashes, intent, history, retryCount>>
  /\ pc' = "starting" => pc = "starting" /\ queue' = queue
  /\ pc = "starting" => pc' = "starting"
  /\ \/ current' = current
     \/ SameTrack /\ current'.ending \in {current.ending, "Next"}

LEMMA QuietCrashes ==
  ASSUME TypeOK, CrashInv, QuietCrash
  PROVE  CrashInv'
<1>1. Paid' = Paid /\ R' = R
  BY DEF QuietCrash, Paid, R
<1>2. (Playing' <=> Playing) /\ (Playing => current'.retries = current.retries)
  BY DEF QuietCrash, SameTrack, Playing
<1>3. Playing' /\ current'.ending = "Stop" => current.ending = "Stop"
  BY DEF QuietCrash
<1>4. /\ failures' = failures /\ crashes' = crashes /\ intent' = intent
      /\ history' = history /\ retryCount' = retryCount
      /\ (pc' = "starting" <=> pc = "starting") /\ (pc = "starting" => queue' = queue)
  BY DEF QuietCrash
<1>5. /\ retryCount' <= R' /\ crashes' <= Paid' + R'
      /\ Playing' => current'.retries <= R' /\ crashes' <= Paid' + current'.retries
  BY <1>1, <1>2, <1>4 DEF CrashInv
<1>6. /\ Playing' /\ current'.ending = "Stop" /\ intent' # "stop" => crashes' = 0
      /\ intent' = "stop" /\ history' # <<>> => crashes' = 0
  BY <1>2, <1>3, <1>4 DEF CrashInv
<1>7. pc' = "starting" /\ intent' # "stop" =>
        \/ crashes' <= Paid'
        \/ queue' # <<>> /\ retryCount' > 0 /\ crashes' <= Paid' + retryCount'
  BY <1>1, <1>4 DEF CrashInv
<1>8. pc' # "starting" /\ ~Playing' /\ intent' # "stop" => crashes' <= Paid'
  BY <1>1, <1>2, <1>4 DEF CrashInv
<1> QED
  BY <1>5, <1>6, <1>7, <1>8 DEF CrashInv

\* A background message or a kick starts the queue.
LEMMA IdleStart ==
  ASSUME TypeOK, CrashInv, UNCHANGED <<failures, crashes, intent, history, current>>,
         pc # "starting", ~Playing, pc' = "starting", retryCount' = 0
  PROVE  CrashInv'
<1>1. Paid' = Paid /\ R' = R /\ R \in Nat
  BY PaidIsNat DEF Paid, R
<1>2. ~Playing'
  BY DEF Playing
<1> QED
  BY <1>1, <1>2 DEF CrashInv

LEMMA CommandCrash ==
  ASSUME TypeOK, CrashInv, ExecuteCommand
  PROVE  CrashInv'
<1>0. pc = "select" /\ "select" # "starting"
  BY DEF ExecuteCommand, ExecutePause, ExecuteResume, ExecuteNext, ExecutePrevious,
     ExecuteStop, ExecuteShuffle, ExecuteRepeat, ExecuteSearch, RejectSearch, Receive
<1>1. CASE ExecutePause \/ ExecuteResume
  <2>1. PICK value \in BOOLEAN : Pausing("User", value)
    BY <1>1 DEF ExecutePause, ExecuteResume, Pausing
  <2>2. current' = current \/ (SameTrack /\ current'.ending = current.ending)
    BY <2>1, SetPauseTrack DEF Sources
  <2>3. UNCHANGED <<pc, failures, crashes, intent, history, retryCount>>
    BY <1>1 DEF ExecutePause, ExecuteResume
  <2> QED
    BY <1>0, <2>2, <2>3, QuietCrashes DEF QuietCrash
<1>2. CASE ExecuteNext
  <2>1. current' = current \/ (SameTrack /\ current'.ending = "Next")
    <3>1. StopCurrent("Next") /\ "Next" \in EndReasons \ {"None"}
      BY <1>2 DEF ExecuteNext, EndReasons
    <3> QED
      BY <3>1, StopCurrentTrack
  <2>2. UNCHANGED <<pc, failures, crashes, intent, history, retryCount>>
    BY <1>2 DEF ExecuteNext
  <2> QED
    BY <1>0, <2>1, <2>2, QuietCrashes DEF QuietCrash
<1>3. CASE ExecuteShuffle \/ ExecuteRepeat \/ ExecuteSearch \/ RejectSearch
  <2>1. /\ UNCHANGED <<current, failures, crashes, intent, history, retryCount>>
        /\ pc' \in {"select", "searchSong", "searchList"}
    BY <1>0, <1>3 DEF ExecuteShuffle, ExecuteRepeat, ExecuteSearch, RejectSearch
  <2> QED
    BY <1>0, <2>1, QuietCrashes DEF QuietCrash
<1>4. CASE ExecuteStop
  <2>1. /\ UNCHANGED <<pc, failures, crashes, retryCount>>
        /\ intent' = "stop" /\ history' = <<>>
    BY <1>4 DEF ExecuteStop
  <2>2. current' = current \/ SameTrack
    BY <1>4, StopCurrentTrack DEF ExecuteStop, EndReasons
  <2>3. Paid' = Paid /\ R' = R
    BY <2>1 DEF Paid, R
  <2>4. (Playing' <=> Playing) /\ (Playing => current'.retries = current.retries)
    BY <2>2 DEF SameTrack, Playing
  <2>5. /\ retryCount' <= R' /\ crashes' <= Paid' + R'
        /\ Playing' => current'.retries <= R' /\ crashes' <= Paid' + current'.retries
    BY <2>1, <2>3, <2>4 DEF CrashInv
  <2> QED
    BY <2>1, <2>5 DEF CrashInv
<1>5. CASE ExecutePrevious /\ history = <<>>
  <2>1. UNCHANGED <<pc, current, failures, crashes, intent, history, retryCount>>
    BY <1>5 DEF ExecutePrevious
  <2> QED
    BY <1>0, <2>1, QuietCrashes DEF QuietCrash
<1>6. CASE ExecutePrevious /\ history # <<>>
  <2>1. UNCHANGED <<pc, failures, crashes, retryCount>> /\ intent' = "play"
    BY <1>6 DEF ExecutePrevious
  <2>2. current' = current \/ (SameTrack /\ current'.ending = "Previous")
    <3>1. StopCurrent("Previous") /\ "Previous" \in EndReasons \ {"None"}
      BY <1>6 DEF ExecutePrevious, EndReasons
    <3> QED
      BY <3>1, StopCurrentTrack
  <2>3. Paid' = Paid /\ R' = R /\ Paid \in Nat
    BY <2>1, PaidIsNat DEF Paid, R
  <2>4. (Playing' <=> Playing) /\ (Playing => current'.retries = current.retries)
    BY <2>2 DEF SameTrack, Playing
  <2>5. /\ retryCount' <= R' /\ crashes' <= Paid' + R'
        /\ Playing' => current'.retries <= R' /\ crashes' <= Paid' + current'.retries
    BY <2>1, <2>3, <2>4 DEF CrashInv
  <2>6. intent = "stop" => crashes = 0
    BY <1>6 DEF CrashInv
  <2>7. ~Playing' => crashes' <= Paid'
    BY <1>0, <2>1, <2>3, <2>4, <2>6 DEF CrashInv
  <2>8. Playing' /\ current'.ending = "Stop" => crashes' = 0
    BY <2>1, <2>2, <2>4, <2>6 DEF CrashInv
  <2> QED
    BY <1>0, <2>1, <2>5, <2>7, <2>8 DEF CrashInv
<1> QED
  BY <1>1, <1>2, <1>3, <1>4, <1>5, <1>6 DEF ExecuteCommand

LEMMA ExitCrash ==
  ASSUME TypeOK, TypeOK', StopInv, CrashInv, HandleExit
  PROVE  CrashInv'
<1>0. R \in Nat /\ Paid \in Nat /\ R' = R /\ crashes \in Nat /\ retryCount \in Nat
  BY PaidIsNat DEF R, TypeOK
<1>1. CASE ExitIgnored
  BY <1>1, QuietCrashes DEF ExitIgnored, QuietCrash
<1>2. CASE ExitWithoutPlayer
  <2>1. /\ pc # "starting" /\ ~Playing /\ pc' = "starting" /\ retryCount' = 0
        /\ UNCHANGED <<failures, crashes, intent, history, current>>
    BY <1>2 DEF ExitWithoutPlayer, ReceiveExit, Receive, StartNext
  <2> QED
    BY <2>1, IdleStart
<1>3. CASE ExitAfterStop
  <2>1. /\ Playing /\ current.ending = "Stop" /\ ~Playing' /\ pc = "select" /\ pc' = pc
        /\ UNCHANGED <<failures, crashes, intent, history, retryCount>>
    BY <1>3 DEF ExitAfterStop, ExitOfCurrent, ReceiveExit, Receive, Playing
  <2>2. Paid' = Paid
    BY <2>1 DEF Paid
  <2>3. intent # "stop" => crashes = 0
    BY <2>1 DEF CrashInv
  <2>4. intent' # "stop" => crashes' <= Paid'
    BY <1>0, <2>1, <2>2, <2>3
  <2>5. retryCount' <= R' /\ crashes' <= Paid' + R'
    BY <1>0, <2>1, <2>2 DEF CrashInv
  <2>6. intent' = "stop" /\ history' # <<>> => crashes' = 0
    BY <2>1 DEF CrashInv
  <2> QED
    BY <2>1, <2>4, <2>5, <2>6 DEF CrashInv
<1>4. CASE ExitAfterSwitch
  <2>1. crashes' = 0 /\ retryCount' = 0 /\ ~Playing'
    BY <1>4 DEF ExitAfterSwitch, ExitOfCurrent, StartNext, Playing
  <2> QED
    BY <1>0, <2>1, NoCrashes
<1>5. CASE RetryAfterExit
  <2>1. /\ Playing /\ current.ending = "None" /\ current.retries < R
        /\ ~Playing' /\ pc' = "starting" /\ retryCount' = current.retries + 1
        /\ crashes' = crashes + 1 /\ failures' = failures /\ intent' = intent
        /\ queue' = <<current.song>> \o queue
    BY <1>5 DEF RetryAfterExit, ExitOfCurrent, MayRetry, StartNext, Playing, R
  <2>2. Paid' = Paid
    BY <2>1 DEF Paid
  <2>3. intent # "stop"
    BY <2>1 DEF StopInv
  <2>4. current.song \in Songs /\ current.retries \in Nat /\ queue \in Seq(Songs)
    BY <2>1 DEF TypeOK, Playing, Track
  <2>5. queue' # <<>>
    BY <2>1, <2>4
  <2>6. crashes <= Paid + current.retries
    BY <2>1 DEF CrashInv
  <2>7. retryCount' > 0 /\ crashes' <= Paid' + retryCount' /\ retryCount' <= R'
        /\ crashes' <= Paid' + R'
    BY <1>0, <2>1, <2>2, <2>4, <2>6
  <2> QED
    BY <2>1, <2>3, <2>5, <2>7 DEF CrashInv
<1>6. CASE TrackEnded
  <2>1. PICK ok \in BOOLEAN :
          /\ Playing /\ current.ending = "None" /\ ~Playing' /\ intent' = intent
          /\ retryCount' \in {retryCount, 0}
          /\ failures' = IF ok THEN 0 ELSE failures + 1
          /\ crashes' = IF ok THEN 0 ELSE crashes + 1
    BY <1>6 DEF TrackEnded, ExitOfCurrent, StartNext, Playing
  <2>2. intent # "stop"
    BY <2>1 DEF StopInv
  <2>3. retryCount' <= R'
    BY <1>0, <2>1 DEF CrashInv
  <2>4. CASE ok
    BY <1>0, <2>1, <2>3, <2>4, NoCrashes
  <2>5. CASE ~ok
    <3>1. Paid' = Paid + R + 1
      BY <2>1, <2>5, PaidGrows
    <3>2. crashes <= Paid + R
      BY DEF CrashInv
    <3>3. crashes' <= Paid' /\ crashes' <= Paid' + R'
      BY <1>0, <2>1, <2>5, <3>1, <3>2
    <3> QED
      BY <2>1, <2>2, <2>3, <3>3 DEF CrashInv
  <2> QED
    BY <2>4, <2>5
<1> QED
  BY <1>1, <1>2, <1>3, <1>4, <1>5, <1>6 DEF HandleExit

LEMMA SearchCrash ==
  ASSUME TypeOK, TypeOK', CrashInv, Search
  PROVE  CrashInv'
<1>0. R \in Nat /\ pc \in {"searchSong", "searchList"}
  BY PaidIsNat DEF Search, SearchFailed, SongFound, ListFound
<1>1. CASE SearchFailed
  BY <1>1, QuietCrashes DEF SearchFailed, QuietCrash
<1>2. ASSUME NEW songs, NEW song, ReplaceQueue(songs, song)
      PROVE  CrashInv'
  <2>1. crashes' = 0 /\ retryCount' \in {retryCount, 0}
    BY <1>2 DEF ReplaceQueue, StartNext
  <2>2. current' = current \/ SameTrack
    <3>1. current' = current \/ StopCurrent("Replace")
      BY <1>2 DEF ReplaceQueue
    <3>2. "Replace" \in EndReasons \ {"None"}
      BY DEF EndReasons
    <3> QED
      BY <3>1, <3>2, StopCurrentTrack
  <2>3. Playing' => current'.retries <= R
    BY <2>2 DEF CrashInv, SameTrack, Playing
  <2>4. retryCount' <= R
    BY <1>0, <2>1 DEF CrashInv
  <2> QED
    BY <2>1, <2>3, <2>4, NoCrashes
<1> QED
  BY <1>1, <1>2 DEF Search, SongFound, ListFound

LEMMA StartCrash ==
  ASSUME "cooldown" \notin Outcomes, TypeOK, TypeOK', Accounting, StopInv, CrashInv, Start
  PROVE  CrashInv'
<1>0. R \in Nat /\ Paid \in Nat /\ R' = R /\ crashes \in Nat /\ retryCount \in Nat
  BY PaidIsNat DEF R, TypeOK
<1>1. pc = "starting" /\ ~Playing
  BY DEF Start, SkipPlayed, StartPlayer, CoolDown, CoolDownExhausted, StartFailed,
     QueueExhausted, Accounting, PlayerAccounting
<1>2. intent' = intent /\ crashes' = crashes /\ history' = history
  BY DEF Start, SkipPlayed, StartPlayer, CoolDown, CoolDownExhausted, StartFailed,
     QueueExhausted
<1>3. intent' = "stop" /\ history' # <<>> => crashes' = 0
  BY <1>2 DEF CrashInv
<1>4. CASE SkipPlayed
  <2>1. /\ UNCHANGED <<pc, current, failures, retryCount>> /\ retryCount = 0
    BY <1>0, <1>4 DEF SkipPlayed, Fresh
  <2>2. Paid' = Paid /\ ~Playing'
    BY <1>1, <2>1 DEF Paid, Playing
  <2>3. intent # "stop" => crashes <= Paid
    BY <1>1, <2>1 DEF CrashInv
  <2>4. intent' # "stop" => crashes' <= Paid'
    BY <1>2, <2>2, <2>3
  <2>5. retryCount' <= R' /\ crashes' <= Paid' + R'
    BY <1>0, <1>2, <2>1, <2>2 DEF CrashInv
  <2> QED
    BY <1>1, <1>3, <2>1, <2>2, <2>4, <2>5 DEF CrashInv
<1>5. CASE StartPlayer
  <2>1. /\ current' = NewTrack(Head(queue), generation') /\ Playing'
    BY <1>5, TrackOfStart
  <2>2. current'.retries = retryCount /\ current'.ending = "None"
    BY <2>1 DEF NewTrack
  <2>3. queue # <<>> /\ failures' = failures /\ retryCount' = 0 /\ pc' = "select"
    BY <1>5 DEF StartPlayer, Return
  <2>4. Paid' = Paid
    BY <2>3 DEF Paid
  <2>5. intent # "stop"
    BY <2>3 DEF StopInv
  <2>6. crashes <= Paid + retryCount
    <3>1. crashes <= Paid \/ crashes <= Paid + retryCount
      BY <1>1, <2>5 DEF CrashInv
    <3> QED
      BY <1>0, <3>1
  <2>7. retryCount <= R /\ crashes <= Paid + R
    BY DEF CrashInv
  <2>8. /\ retryCount' <= R' /\ crashes' <= Paid' + R'
        /\ current'.retries <= R' /\ crashes' <= Paid' + current'.retries
    BY <1>0, <1>2, <2>2, <2>3, <2>4, <2>6, <2>7
  <2> QED
    BY <1>3, <2>1, <2>2, <2>3, <2>8 DEF CrashInv
<1>6. CASE StartFailed
  <2>1. failures' = failures + 1 /\ retryCount' = retryCount /\ current' = current
    BY <1>6 DEF StartFailed
  <2>2. Paid' = Paid + R + 1 /\ ~Playing'
    BY <1>1, <2>1, PaidGrows DEF Playing
  <2>3. crashes <= Paid + R /\ retryCount <= R
    BY DEF CrashInv
  <2>4. crashes' <= Paid' /\ crashes' <= Paid' + R' /\ retryCount' <= R'
    BY <1>0, <1>2, <2>1, <2>2, <2>3
  <2> QED
    BY <1>3, <2>2, <2>4 DEF CrashInv
<1>7. CASE QueueExhausted
  <2>1. queue = <<>> /\ failures' = failures /\ retryCount' = 0 /\ ~Playing'
    BY <1>7 DEF QueueExhausted, Return, Playing
  <2>2. Paid' = Paid
    BY <2>1 DEF Paid
  <2>3. intent # "stop" => crashes <= Paid
    BY <1>1, <2>1 DEF CrashInv
  <2>4. intent' # "stop" => crashes' <= Paid'
    BY <1>2, <2>2, <2>3
  <2>5. retryCount' <= R' /\ crashes' <= Paid' + R'
    BY <1>0, <1>2, <2>1, <2>2 DEF CrashInv
  <2> QED
    BY <1>3, <2>1, <2>4, <2>5 DEF CrashInv
<1> QED
  BY <1>4, <1>5, <1>6, <1>7 DEF Start, CoolDown, CoolDownExhausted

LEMMA OtherCrash ==
  ASSUME TypeOK, CrashInv,
         HandleWake \/ HandleAirPlay \/ HandleForceKill \/ HandleAppendQueue
           \/ HandleRetryQueue \/ World \/ UNCHANGED vars
  PROVE  CrashInv'
<1>1. CASE HandleWake
  <2>1. PICK value \in BOOLEAN : Pausing("Wake", value)
    BY <1>1, WakePauses
  <2>2. current' = current \/ (SameTrack /\ current'.ending = current.ending)
    BY <2>1, SetPauseTrack DEF Sources
  <2>3. UNCHANGED <<pc, failures, crashes, intent, history, queue, retryCount>>
    BY <1>1 DEF HandleWake
  <2> QED
    BY <2>2, <2>3, QuietCrashes DEF QuietCrash
<1>2. CASE HandleAirPlay
  <2>1. PICK value \in BOOLEAN : Pausing("AirPlay", value)
    BY <1>2, AirPlayPauses
  <2>2. current' = current \/ (SameTrack /\ current'.ending = current.ending)
    BY <2>1, SetPauseTrack DEF Sources
  <2>3. UNCHANGED <<pc, failures, crashes, intent, history, queue, retryCount>>
    BY <1>2 DEF HandleAirPlay
  <2> QED
    BY <2>2, <2>3, QuietCrashes DEF QuietCrash
<1>3. CASE HandleForceKill \/ World \/ UNCHANGED vars
  <2>1. UNCHANGED <<pc, current, failures, crashes, intent, history, queue, retryCount>>
    BY <1>3 DEF HandleForceKill, World, Request, AirPlayChanges, PlayerExits,
       KillTimerFires, RetryTimerFires, KickArrives, PrefetchEnds, vars
  <2> QED
    BY <2>1, QuietCrashes DEF QuietCrash
<1>4. CASE HandleAppendQueue \/ HandleRetryQueue
  <2>1. /\ UNCHANGED <<current, failures, crashes, intent, history>> /\ pc = "select"
        /\ \/ UNCHANGED <<pc, retryCount>>
           \/ ~Playing /\ pc' = "starting" /\ retryCount' = 0
    BY <1>4 DEF HandleAppendQueue, HandleRetryQueue, Receive, StartNext, MayStart
  <2>2. CASE UNCHANGED <<pc, retryCount>>
    BY <2>1, <2>2, QuietCrashes DEF QuietCrash
  <2>3. CASE ~Playing /\ pc' = "starting" /\ retryCount' = 0
    BY <2>1, <2>3, IdleStart
  <2> QED
    BY <2>1, <2>2, <2>3
<1> QED
  BY <1>1, <1>2, <1>3, <1>4

\* While the primary never cools down, every failure stands for at most the configured
\* retries and one more exit: the limit on failures bounds how often a broken player is
\* started.  (A cool-down forgets which song was being retried, and its crashes are then
\* those of no failure.)
THEOREM CrashesAreCounted ==
  ASSUME "cooldown" \notin Outcomes
  PROVE  Spec => []CrashesCounted
<1>1. TypeOK /\ Init => CrashInv
  <2> SUFFICES ASSUME TypeOK, Init
               PROVE  CrashInv
    OBVIOUS
  <2>1. R \in Nat /\ Paid \in Nat
    BY PaidIsNat
  <2>2. /\ retryCount = 0 /\ crashes = 0 /\ pc = "select" /\ intent = "none"
        /\ history = <<>> /\ ~Playing
    BY DEF Init, Playing
  <2> QED
    BY <2>1, <2>2 DEF CrashInv
<1>2. TypeOK /\ TypeOK' /\ Accounting /\ StopInv /\ CrashInv /\ [Next]_vars => CrashInv'
  BY CommandCrash, ExitCrash, SearchCrash, StartCrash, OtherCrash DEF Next, HandleMessage
<1>3. CrashInv => CrashesCounted
  BY DEF CrashInv, CrashesCounted, Paid, R
<1> QED
  BY <1>1, <1>2, <1>3, Typing, AccountingAlways, StopAlways, PTL DEF Spec

-----------------------------------------------------------------------------
(* Songs.  Every song that counts as played is in the history, plays, or is  *)
(* the head of the queue for a retry: one that is dropped from the queue for *)
(* having been played is still known.                                        *)

LEMMA RangeOfTail ==
  ASSUME NEW s \in Seq(Songs), s # <<>>
  PROVE  Range(s) = {Head(s)} \cup Range(Tail(s)) /\ Head(s) \in Songs
<1>1. /\ <<Head(s)>> \in Seq(Songs) /\ Tail(s) \in Seq(Songs) /\ Head(s) \in Songs
      /\ s = <<Head(s)>> \o Tail(s)
  OBVIOUS
<1>2. Range(<<Head(s)>>) = {Head(s)}
  BY DEF Range
<1>3. Range(<<Head(s)>> \o Tail(s)) = Range(<<Head(s)>>) \cup Range(Tail(s))
  BY <1>1, RangeConcatenation
<1> QED
  BY <1>1, <1>2, <1>3, Zenon

LEMMA RangeOfPush ==
  ASSUME NEW s \in Seq(Songs), NEW song \in Songs
  PROVE  /\ Range(<<song>> \o s) = {song} \cup Range(s)
         /\ Range(Append(s, song)) = Range(s) \cup {song}
         /\ <<song>> \o s # <<>> /\ Head(<<song>> \o s) = song
<1>1. /\ <<song>> \in Seq(Songs) /\ Range(<<song>>) = {song}
      /\ Append(s, song) = s \o <<song>>
  BY DEF Range
<1>2. <<song>> \o s # <<>> /\ Head(<<song>> \o s) = song
  OBVIOUS
<1>3. /\ Range(<<song>> \o s) = Range(<<song>>) \cup Range(s)
      /\ Range(s \o <<song>>) = Range(s) \cup Range(<<song>>)
  BY <1>1, RangeConcatenation
<1> QED
  BY <1>1, <1>2, <1>3, Zenon

LEMMA RangeOfFront ==
  ASSUME NEW s \in Seq(Songs), s # <<>>
  PROVE  /\ Range(s) = Range(SubSeq(s, 1, Len(s) - 1)) \cup {s[Len(s)]}
         /\ s[Len(s)] \in Songs
<1> DEFINE front == SubSeq(s, 1, Len(s) - 1)
<1>1. Len(s) \in Nat /\ Len(s) > 0 /\ s[Len(s)] \in Songs
  <2>1. Len(s) \in Nat /\ Len(s) # 0
    BY EmptySeq
  <2>2. Len(s) > 0 /\ Len(s) \in 1..Len(s)
    BY <2>1
  <2>3. s[Len(s)] \in Songs
    BY <2>2, ElementOfSeq, Zenon
  <2> QED
    BY <2>1, <2>2, <2>3
<1>2. Len(front) = Len(s) - 1 /\ \A i \in 1..(Len(s) - 1) : front[i] = s[i]
  <2> DEFINE n == Len(s) - 1
  <2>1. n \in Nat
    BY <1>1
  <2>2. \A i \in 1..n : s[i] \in Songs
    OBVIOUS
  <2> HIDE DEF n
  <2>3. /\ Len(SubSeq(s, 1, n)) = IF 1 <= n THEN n - 1 + 1 ELSE 0
        /\ \A i \in 1..(n - 1 + 1) : SubSeq(s, 1, n)[i] = s[1 + i - 1]
    BY <2>1, <2>2, SubSeqProperties
  <2>4. Len(SubSeq(s, 1, n)) = n /\ \A i \in 1..n : SubSeq(s, 1, n)[i] = s[i]
    BY <2>1, <2>3
  <2> QED
    BY <2>4 DEF n
<1>3. front \in Seq(Songs)
  BY <1>1
<1>4. Range(front) = {front[i] : i \in 1..(Len(s) - 1)}
  BY <1>2, <1>3, RangeEquality
<1>5. Range(s) = {s[i] : i \in 1..Len(s)}
  BY RangeEquality
<1>6. 1..Len(s) = 1..(Len(s) - 1) \cup {Len(s)}
  BY <1>1
<1>7. {s[i] : i \in 1..Len(s)} = {s[i] : i \in 1..(Len(s) - 1)} \cup {s[Len(s)]}
  BY <1>6
<1>8. {front[i] : i \in 1..(Len(s) - 1)} = {s[i] : i \in 1..(Len(s) - 1)}
  BY <1>2
<1> QED
  BY <1>1, <1>4, <1>5, <1>7, <1>8

LEMMA RangeOfShuffle ==
  ASSUME NEW s \in Seq(Songs), NEW t \in Ordered(s) \cup Shuffles(s)
  PROVE  Range(t) = Range(s)
<1>1. CASE t = s
  BY <1>1
<1>2. CASE t \in Shuffles(s)
  <2>1. PICK p \in Bijection(DOMAIN s, DOMAIN s) : t = [i \in DOMAIN s |-> s[p[i]]]
    BY <1>2 DEF Shuffles
  <2>2. /\ \A i \in DOMAIN s : p[i] \in DOMAIN s
        /\ \A j \in DOMAIN s : \E i \in DOMAIN s : p[i] = j
    BY DEF Bijection, Injection, Surjection
  <2> QED
    BY <2>1, <2>2 DEF Range
<1> QED
  BY <1>1, <1>2 DEF Ordered

CurrentSong ==
  IF Playing /\ current.ending \in {"None", "Next"} THEN {current.song} ELSE {}

Retried == IF pc = "starting" /\ retryCount > 0 /\ queue # <<>> THEN {Head(queue)} ELSE {}

PlayedInv == played \subseteq Range(history) \cup CurrentSong \cup Retried

\* What a step must do: keep the invariant, and know every song it knew
SongsHeld ==
  /\ PlayedInv'
  /\ Known \subseteq Known' \/ epoch' # epoch \/ failures' > failures

LEMMA KnownIs ==
  /\ Known = Range(queue) \cup Range(history) \cup CurrentSong
  /\ Known' = Range(queue') \cup Range(history') \cup CurrentSong'
BY DEF Known, CurrentSong

\* A step that moves no song, but may reorder the queue or add to it
QuietSongs ==
  /\ UNCHANGED <<history, played>>
  /\ Range(queue) \subseteq Range(queue')
  /\ pc = "starting" => UNCHANGED <<pc, queue, retryCount>>
  /\ \/ current' = current
     \/ SameTrack /\ current'.ending \in {current.ending, "Next"}

LEMMA QuietSongsHeld ==
  ASSUME PlayedInv, QuietSongs
  PROVE  SongsHeld
<1>1. CurrentSong \subseteq CurrentSong'
  <2>1. CASE current' = current
    BY <2>1 DEF CurrentSong, Playing
  <2>2. CASE SameTrack /\ current'.ending \in {current.ending, "Next"}
    BY <2>2 DEF CurrentSong, SameTrack
  <2> QED
    BY <2>1, <2>2 DEF QuietSongs
<1>2. Retried \subseteq Retried'
  BY DEF Retried, QuietSongs
<1>3. history' = history /\ played' = played /\ Range(queue) \subseteq Range(queue')
  BY DEF QuietSongs
<1>4. PlayedInv'
  BY <1>1, <1>2, <1>3 DEF PlayedInv
<1>5. Known \subseteq Known'
  BY <1>1, <1>3, KnownIs
<1> QED
  BY <1>4, <1>5 DEF SongsHeld

LEMMA CommandSongs ==
  ASSUME TypeOK, PlayedInv, ExecuteCommand
  PROVE  SongsHeld
<1>0. pc = "select" /\ "select" # "starting" /\ Retried = {}
  BY DEF ExecuteCommand, ExecutePause, ExecuteResume, ExecuteNext, ExecutePrevious,
     ExecuteStop, ExecuteShuffle, ExecuteRepeat, ExecuteSearch, RejectSearch, Receive,
     Retried
<1>1. CASE ExecutePause \/ ExecuteResume
  <2>1. PICK value \in BOOLEAN : Pausing("User", value)
    BY <1>1 DEF ExecutePause, ExecuteResume, Pausing
  <2>2. current' = current \/ (SameTrack /\ current'.ending = current.ending)
    BY <2>1, SetPauseTrack DEF Sources
  <2>3. UNCHANGED <<history, played, queue>>
    BY <1>1 DEF ExecutePause, ExecuteResume
  <2> QED
    BY <1>0, <2>2, <2>3, QuietSongsHeld DEF QuietSongs
<1>2. CASE ExecuteNext
  <2>1. StopCurrent("Next") /\ "Next" \in EndReasons \ {"None"}
    BY <1>2 DEF ExecuteNext, EndReasons
  <2>2. current' = current \/ (SameTrack /\ current'.ending = "Next")
    BY <2>1, StopCurrentTrack
  <2>3. UNCHANGED <<history, played, queue>>
    BY <1>2 DEF ExecuteNext
  <2> QED
    BY <1>0, <2>2, <2>3, QuietSongsHeld DEF QuietSongs
<1>3. CASE ExecuteShuffle
  <2>1. Range(queue') = Range(queue) /\ UNCHANGED <<history, played, current>>
    BY <1>3, RangeOfShuffle DEF ExecuteShuffle, TypeOK
  <2> QED
    BY <1>0, <2>1, QuietSongsHeld DEF QuietSongs
<1>4. CASE ExecuteRepeat \/ ExecuteSearch \/ RejectSearch
  <2>1. UNCHANGED <<history, played, queue, current>>
    BY <1>4 DEF ExecuteRepeat, ExecuteSearch, RejectSearch
  <2> QED
    BY <1>0, <2>1, QuietSongsHeld DEF QuietSongs
<1>5. CASE ExecuteStop
  <2>1. played' = {} /\ epoch' # epoch
    BY <1>5 DEF ExecuteStop, NextEpoch, TypeOK
  <2> QED
    BY <2>1 DEF SongsHeld, PlayedInv
<1>6. CASE ExecutePrevious /\ history = <<>>
  <2>1. UNCHANGED <<history, played, queue, current>>
    BY <1>6 DEF ExecutePrevious
  <2> QED
    BY <1>0, <2>1, QuietSongsHeld DEF QuietSongs
<1>7. CASE ExecutePrevious /\ history # <<>>
  <2> DEFINE last == history[Len(history)]
             again == IF Playing THEN <<last, current.song>> ELSE <<last>>
  <2>1. /\ history' = SubSeq(history, 1, Len(history) - 1)
        /\ played' = played \ Range(again)
        /\ queue' = again \o queue
        /\ StopCurrent("Previous")
    BY <1>7 DEF ExecutePrevious, PlayedAfter
  <2>2. Range(history) = Range(history') \cup {last} /\ last \in Songs
    BY <1>7, <2>1, RangeOfFront DEF TypeOK
  <2>3. Playing => current.song \in Songs
    BY DEF TypeOK, Playing, Track
  <2>4. /\ again \in Seq(Songs)
        /\ Range(again) = {last} \cup (IF Playing THEN {current.song} ELSE {})
    <3>1. CASE Playing
      <4>1. again = <<last, current.song>> /\ again \in Seq(Songs) /\ Len(again) = 2
        BY <2>2, <2>3, <3>1
      <4>2. Range(again) = {again[i] : i \in 1..2}
        BY <4>1, RangeEquality
      <4>3. 1..2 = {1, 2}
        OBVIOUS
      <4>4. Range(again) = {again[1], again[2]}
        BY <4>2, <4>3
      <4>5. again[1] = last /\ again[2] = current.song
        BY <4>1
      <4> QED
        BY <3>1, <4>1, <4>4, <4>5
    <3>2. CASE ~Playing
      BY <2>2, <3>2 DEF Range
    <3> QED
      BY <3>1, <3>2
  <2>5. Range(queue') = Range(again) \cup Range(queue)
    BY <2>1, <2>4, RangeConcatenation DEF TypeOK
  <2>6. CurrentSong \subseteq Range(again)
    BY <2>4 DEF CurrentSong
  <2>7. PlayedInv'
    BY <1>0, <2>1, <2>2, <2>4, <2>6 DEF PlayedInv
  <2>8. Known \subseteq Known'
    BY <2>2, <2>4, <2>5, <2>6, KnownIs
  <2> QED
    BY <2>7, <2>8 DEF SongsHeld
<1> QED
  BY <1>1, <1>2, <1>3, <1>4, <1>5, <1>6, <1>7 DEF ExecuteCommand

LEMMA ExitSongs ==
  ASSUME TypeOK, PlayedInv, HandleExit
  PROVE  SongsHeld
<1>0. pc = "select" /\ "select" # "starting" /\ Retried = {}
  BY DEF HandleExit, ExitWithoutPlayer, ExitIgnored, ExitAfterStop, ExitAfterSwitch,
     RetryAfterExit, TrackEnded, ExitOfCurrent, ReceiveExit, Receive, Retried
<1>1. CASE ExitIgnored \/ ExitWithoutPlayer
  <2>1. UNCHANGED <<history, played, queue, current>>
    BY <1>1 DEF ExitIgnored, ExitWithoutPlayer
  <2> QED
    BY <1>0, <2>1, QuietSongsHeld DEF QuietSongs
<1> DEFINE song == current.song
<1>2. Playing => song \in Songs
  BY DEF TypeOK, Playing, Track
<1>3. queue \in Seq(Songs) /\ history \in Seq(Songs)
  BY DEF TypeOK
<1>4. ASSUME Playing PROVE
        /\ Range(<<song>> \o queue) = {song} \cup Range(queue)
        /\ Range(Append(history, song)) = Range(history) \cup {song}
        /\ <<song>> \o queue # <<>> /\ Head(<<song>> \o queue) = song
  BY <1>2, <1>3, <1>4, RangeOfPush
<1>5. CASE ExitAfterStop
  <2>1. CurrentSong = {} /\ UNCHANGED <<history, played, queue>>
    BY <1>5 DEF ExitAfterStop, CurrentSong
  <2> QED
    BY <1>0, <2>1, KnownIs DEF SongsHeld, PlayedInv
<1>6. CASE ExitAfterSwitch
  <2>1. /\ Playing /\ current.ending \in {"Replace", "Previous", "Next"}
        /\ history' = IF current.ending = "Next" THEN Append(history, song) ELSE history
        /\ UNCHANGED <<played, queue>>
    BY <1>6 DEF ExitAfterSwitch, ExitOfCurrent
  <2>2. Range(history) \cup CurrentSong \subseteq Range(history')
    <3>1. CASE current.ending = "Next"
      BY <1>4, <2>1, <3>1 DEF CurrentSong
    <3>2. CASE current.ending # "Next"
      BY <2>1, <3>2 DEF CurrentSong
    <3> QED
      BY <3>1, <3>2
  <2> QED
    BY <1>0, <2>1, <2>2, KnownIs DEF SongsHeld, PlayedInv
<1>7. CASE RetryAfterExit
  <2>1. /\ Playing /\ queue' = <<song>> \o queue /\ pc' = "starting"
        /\ retryCount' = current.retries + 1 /\ UNCHANGED <<history, played>>
    BY <1>7 DEF RetryAfterExit, ExitOfCurrent, StartNext
  <2>2. current.retries \in Nat
    BY <2>1 DEF TypeOK, Playing, Track
  <2>3. retryCount' > 0
    BY <2>1, <2>2
  <2>4. Retried' = {song} /\ CurrentSong \subseteq {song}
    BY <1>4, <2>1, <2>3 DEF Retried, CurrentSong
  <2>5. Range(queue') = {song} \cup Range(queue)
    BY <1>4, <2>1
  <2> QED
    BY <1>0, <2>1, <2>4, <2>5, KnownIs DEF SongsHeld, PlayedInv
<1>8. CASE TrackEnded
  <2> DEFINE again == repeatMode = "one"
             left == IF again THEN <<song>> \o queue ELSE queue
             ended == IF again THEN history ELSE Append(history, song)
             kept == IF again THEN played \ {song} ELSE played
             refill == left = <<>> /\ repeatMode = "all" /\ ended # <<>>
  <2>1. PICK ok \in BOOLEAN :
          /\ Playing /\ current.ending = "None"
          /\ failures' = IF ok THEN 0 ELSE failures + 1
          /\ \/ failures' >= FailureLimit /\ history' = ended /\ played' = kept
             \/ /\ queue' \in IF refill THEN Ordered(ended) ELSE {left}
                /\ history' = IF refill THEN <<>> ELSE ended
                /\ played' = IF refill THEN {} ELSE kept
    BY <1>8 DEF TrackEnded, ExitOfCurrent
  <2>2. /\ ended \in Seq(Songs) /\ CurrentSong = {song}
        /\ Range(left) \cup Range(ended) = Range(queue) \cup Range(history) \cup {song}
        /\ Range(queue) \subseteq Range(left)
        /\ kept \subseteq Range(ended)
    <3>1. ended \in Seq(Songs)
      BY <1>2, <1>3, <2>1
    <3>2. CurrentSong = {song}
      BY <2>1 DEF CurrentSong
    <3>3. played \subseteq Range(history) \cup {song}
      BY <1>0, <3>2 DEF PlayedInv
    <3>4. CASE again
      BY <1>4, <2>1, <3>1, <3>2, <3>3, <3>4
    <3>5. CASE ~again
      BY <1>4, <2>1, <3>1, <3>2, <3>3, <3>5
    <3> QED
      BY <3>4, <3>5
  <2>3. CASE failures' >= FailureLimit /\ history' = ended /\ played' = kept
    <3>1. FailureLimit > 0 /\ FailureLimit \in Nat /\ failures \in Nat
      BY ConfigAssumption DEF FailureLimit, TypeOK
    <3>2. failures' > failures
      BY <2>1, <2>3, <3>1
    <3> QED
      BY <2>2, <2>3, <3>2 DEF SongsHeld, PlayedInv
  <2>4. CASE /\ queue' \in IF refill THEN Ordered(ended) ELSE {left}
             /\ history' = IF refill THEN <<>> ELSE ended
             /\ played' = IF refill THEN {} ELSE kept
    <3>1. CASE refill
      <4>1. Range(queue') = Range(ended) /\ played' = {} /\ left = <<>>
        BY <2>2, <2>4, <3>1, RangeOfShuffle
      <4>2. Range(left) = {}
        BY <4>1 DEF Range
      <4>3. Known \subseteq Known'
        BY <2>2, <4>1, <4>2, KnownIs
      <4> QED
        BY <4>1, <4>3 DEF SongsHeld, PlayedInv
    <3>2. CASE ~refill
      <4>1. queue' = left /\ history' = ended /\ played' = kept
        BY <2>4, <3>2
      <4>2. Known \subseteq Known'
        BY <2>2, <4>1, KnownIs
      <4> QED
        BY <2>2, <4>1, <4>2 DEF SongsHeld, PlayedInv
    <3> QED
      BY <3>1, <3>2
  <2> QED
    BY <2>1, <2>3, <2>4
<1> QED
  BY <1>1, <1>5, <1>6, <1>7, <1>8 DEF HandleExit

LEMMA SearchSongs ==
  ASSUME TypeOK, PlayedInv, Search
  PROVE  SongsHeld
<1>1. CASE SearchFailed
  <2>1. pc \in {"searchSong", "searchList"} /\ UNCHANGED <<history, played, queue, current>>
    BY <1>1 DEF SearchFailed
  <2> QED
    BY <2>1, QuietSongsHeld DEF QuietSongs
<1>2. ASSUME NEW songs, NEW song, ReplaceQueue(songs, song)
      PROVE  SongsHeld
  <2>1. played' = {} /\ epoch' # epoch
    BY <1>2 DEF ReplaceQueue, NextEpoch, TypeOK
  <2> QED
    BY <2>1 DEF SongsHeld, PlayedInv
<1> QED
  BY <1>1, <1>2 DEF Search, SongFound, ListFound

LEMMA StartSongs ==
  ASSUME Outcomes \subseteq {"playing"}, TypeOK, Accounting, PlayedInv, Start
  PROVE  SongsHeld
<1>1. /\ pc = "starting" /\ ~Playing /\ CurrentSong = {} /\ history' = history
      /\ queue \in Seq(Songs)
  BY DEF Start, SkipPlayed, StartPlayer, CoolDown, CoolDownExhausted, StartFailed,
     QueueExhausted, Accounting, PlayerAccounting, CurrentSong, TypeOK
<1>2. CASE SkipPlayed
  <2>1. /\ queue # <<>> /\ queue' = Tail(queue) /\ played' = played /\ current' = current
        /\ ~(retryCount > 0) /\ Head(queue) \in played
    BY <1>2 DEF SkipPlayed, Fresh
  <2>2. Retried = {} /\ Head(queue) \in Range(history)
    BY <1>1, <2>1 DEF Retried, PlayedInv
  <2>3. Range(queue) = {Head(queue)} \cup Range(queue')
    BY <1>1, <2>1, RangeOfTail
  <2>4. Known \subseteq Known'
    BY <1>1, <2>2, <2>3, KnownIs
  <2> QED
    BY <1>1, <2>1, <2>2, <2>4 DEF SongsHeld, PlayedInv
<1>3. CASE StartPlayer
  <2>1. /\ queue # <<>> /\ queue' = Tail(queue) /\ played' = played \cup {Head(queue)}
    BY <1>3 DEF StartPlayer
  <2>2. CurrentSong' = {Head(queue)}
    BY <1>3, TrackOfStart DEF CurrentSong, NewTrack
  <2>3. Retried \subseteq {Head(queue)}
    BY DEF Retried
  <2>4. Range(queue) = {Head(queue)} \cup Range(queue')
    BY <1>1, <2>1, RangeOfTail
  <2>5. Known \subseteq Known'
    BY <1>1, <2>2, <2>4, KnownIs
  <2> QED
    BY <1>1, <2>1, <2>2, <2>3, <2>5 DEF SongsHeld, PlayedInv
<1>4. CASE QueueExhausted
  <2>1. queue = <<>> /\ UNCHANGED <<queue, played>>
    BY <1>4 DEF QueueExhausted
  <2>2. Retried = {}
    BY <2>1 DEF Retried
  <2> QED
    BY <1>1, <2>1, <2>2, KnownIs DEF SongsHeld, PlayedInv
<1> QED
  BY <1>2, <1>3, <1>4 DEF Start, CoolDown, CoolDownExhausted, StartFailed

LEMMA OtherSongs ==
  ASSUME TypeOK, PlayedInv,
         HandleWake \/ HandleAirPlay \/ HandleForceKill \/ HandleAppendQueue
           \/ HandleRetryQueue \/ World \/ UNCHANGED vars
  PROVE  SongsHeld
<1>1. CASE HandleWake
  <2>1. PICK value \in BOOLEAN : Pausing("Wake", value)
    BY <1>1, WakePauses
  <2>2. current' = current \/ (SameTrack /\ current'.ending = current.ending)
    BY <2>1, SetPauseTrack DEF Sources
  <2>3. UNCHANGED <<pc, history, played, queue, retryCount>>
    BY <1>1 DEF HandleWake
  <2> QED
    BY <2>2, <2>3, QuietSongsHeld DEF QuietSongs
<1>2. CASE HandleAirPlay
  <2>1. PICK value \in BOOLEAN : Pausing("AirPlay", value)
    BY <1>2, AirPlayPauses
  <2>2. current' = current \/ (SameTrack /\ current'.ending = current.ending)
    BY <2>1, SetPauseTrack DEF Sources
  <2>3. UNCHANGED <<pc, history, played, queue, retryCount>>
    BY <1>2 DEF HandleAirPlay
  <2> QED
    BY <2>2, <2>3, QuietSongsHeld DEF QuietSongs
<1>3. CASE HandleForceKill \/ World \/ UNCHANGED vars
  <2>1. UNCHANGED <<pc, current, history, played, queue, retryCount>>
    BY <1>3 DEF HandleForceKill, World, Request, AirPlayChanges, PlayerExits,
       KillTimerFires, RetryTimerFires, KickArrives, PrefetchEnds, vars
  <2> QED
    BY <2>1, QuietSongsHeld DEF QuietSongs
<1>4. CASE HandleAppendQueue
  <2>1. UNCHANGED <<current, history, played>> /\ pc = "select"
    BY <1>4 DEF HandleAppendQueue
  <2>2. queue' = queue \/ \E more \in Results : queue' = queue \o more
    BY <1>4 DEF HandleAppendQueue, Appended
  <2>3. Range(queue) \subseteq Range(queue')
    <3>1. CASE queue' = queue
      BY <3>1
    <3>2. ASSUME NEW more \in Results, queue' = queue \o more
          PROVE  Range(queue) \subseteq Range(queue')
      <4>1. queue \in Seq(Songs) /\ more \in Seq(Songs)
        BY <3>2, ResultsType DEF TypeOK
      <4>2. Range(queue \o more) = Range(queue) \cup Range(more)
        BY <4>1, RangeConcatenation
      <4> QED
        BY <3>2, <4>2
    <3> QED
      BY <2>2, <3>1, <3>2
  <2> QED
    BY <2>1, <2>3, QuietSongsHeld DEF QuietSongs
<1>5. CASE HandleRetryQueue
  <2>1. UNCHANGED <<current, history, played, queue>> /\ pc = "select"
    BY <1>5 DEF HandleRetryQueue, Receive
  <2> QED
    BY <2>1, QuietSongsHeld DEF QuietSongs
<1> QED
  BY <1>1, <1>2, <1>3, <1>4, <1>5

\* While every play URL resolves, however the players end, no switch, shuffle, repeat or
\* late answer loses a song: only a new queue, a Stop or a counted failure does.
THEOREM SongsAreKept ==
  ASSUME Outcomes \subseteq {"playing"}
  PROVE  Spec => SongsKept
<1>1. Init => PlayedInv
  BY DEF Init, PlayedInv
<1>2. TypeOK /\ Accounting /\ PlayedInv /\ [Next]_vars => SongsHeld
  BY CommandSongs, ExitSongs, SearchSongs, StartSongs, OtherSongs DEF Next, HandleMessage
<1>3. SongsHeld => PlayedInv'
      /\ [Known \subseteq Known' \/ epoch' # epoch \/ failures' > failures]_vars
  BY DEF SongsHeld
<1> QED
  BY <1>1, <1>2, <1>3, Typing, AccountingAlways, PTL DEF Spec, SongsKept
=============================================================================

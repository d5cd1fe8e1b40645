------------------------- MODULE DialogRoutingProofs -------------------------
(***************************************************************************)
(* Theorems about DialogRouting, for any dialogues, lines and cache size:  *)
(* a dialogue commands once, its native music is stopped, and its wake     *)
(* holds, each with the exceptions the code makes.                         *)
(***************************************************************************)
EXTENDS DialogRouting, SequenceTheorems, TLAPS

USE DEF cache, haTasks, wake, dialogues, nativeVars, ghosts, vars

-----------------------------------------------------------------------------
(* The invariants.                                                          *)

CacheTypes ==
  /\ order \in Seq(Dialogs) /\ IsInjective(order) /\ Len(order) <= CacheSize
  /\ routed \subseteq Range(order)
  /\ claimed \subseteq Range(order)
  /\ external \subseteq Range(order)
  /\ forgotten \subseteq Dialogs

DialogTypes ==
  /\ phase \in [Dialogs -> Phases] /\ lines \in [Dialogs -> 0..MaxLines]
  /\ hand \in Lines \cup {NoLine}
  /\ cutShort \subseteq Dialogs

OtherTypes ==
  /\ asking \in Nat /\ ending \in Nat /\ stops \in Nat
  /\ native \in Dialogs \cup {NoDialog}
  /\ executed \in [Dialogs -> Nat]
  /\ rx \in Seq({"WakeStarted", "DialogFinished"})

FlagTypes ==
  wakeActive \in BOOLEAN /\ wakePause \in BOOLEAN /\ musicActive \in BOOLEAN

\* The line in hand is of the dialogue as it stands.
HandInv ==
  /\ hand.name = "RecognizeResult" => phase[hand.dialog] \in {"listening", "asked"}
  /\ hand.name = "Dialog.Finish" => phase[hand.dialog] = "done"

\* A dialogue whose text is known has been routed, unless its line is in hand; and one
\* that may still be routed is claimed only by a route.
InHand(d) == hand.name = "RecognizeResult" /\ hand.dialog = d /\ hand.text # "none"
RoutedInv ==
  \A d \in Dialogs \ forgotten :
    /\ phase[d] = "asked" /\ ~InHand(d) => d \in routed
    /\ phase[d] \in {"new", "listening", "asked"} /\ d \in claimed => d \in routed

\* Whoever executes a command claims the dialogue and starts a stop.
OnceInv ==
  \A d \in Dialogs \ forgotten : executed[d] = 0 \/ (executed[d] = 1 /\ d \in claimed)
NativeInv ==
  native # NoDialog /\ native \notin forgotten /\ executed[native] # 0 => stops # 0

\* A wake that no other cuts short has its flag up, and the last message the actor
\* has taken or will take is its start, or that start is in the router's hand.
LastWake == IF rx = <<>> THEN wakePause ELSE rx[Len(rx)] = "WakeStarted"
FlagInv == \A d \in Attended \ cutShort : wakeActive
PauseInv == \A d \in Attended \ cutShort : hand.name = "RecognizeResult" \/ LastWake

-----------------------------------------------------------------------------
(* The cache.                                                               *)

LEMMA AppendNew ==
  ASSUME NEW S, NEW s \in Seq(S), IsInjective(s), NEW e \in S, e \notin Range(s)
  PROVE  /\ Append(s, e) \in Seq(S) /\ Len(Append(s, e)) = Len(s) + 1
         /\ IsInjective(Append(s, e))
         /\ Range(Append(s, e)) = Range(s) \cup {e}
<1> DEFINE t == Append(s, e)
<1>1. /\ t \in Seq(S) /\ Len(t) = Len(s) + 1
      /\ \A i \in 1..Len(s) : t[i] = s[i]
      /\ t[Len(s) + 1] = e
  BY AppendProperties
<1>2. Len(s) \in Nat /\ DOMAIN s = 1..Len(s) /\ DOMAIN t = 1..Len(s) + 1
  BY <1>1, LenProperties
<1>3. \A i \in 1..Len(s) : s[i] # e
  BY <1>2 DEF Range
<1>4. \A i \in 1..Len(s) + 1 : i \in 1..Len(s) \/ i = Len(s) + 1
  BY <1>2
<1> HIDE DEF t
<1>5. ASSUME NEW i \in 1..Len(s) + 1, NEW j \in 1..Len(s) + 1, t[i] = t[j]
      PROVE  i = j
  <2>1. \A k \in 1..Len(s), l \in 1..Len(s) : s[k] = s[l] => k = l
    BY <1>2 DEF IsInjective
  <2> QED
    BY <1>1, <1>3, <1>4, <1>5, <2>1
<1>6. IsInjective(t)
  BY <1>2, <1>5 DEF IsInjective
<1>7. 1..Len(s) \subseteq 1..Len(s) + 1 /\ Len(s) + 1 \in 1..Len(s) + 1
  BY <1>2
<1>8. Range(t) = Range(s) \cup {e}
  BY <1>1, <1>2, <1>4, <1>7 DEF Range
<1> QED
  BY <1>1, <1>6, <1>8 DEF t

LEMMA TailKeeps ==
  ASSUME NEW S, NEW s \in Seq(S), IsInjective(s), s # <<>>
  PROVE  /\ Tail(s) \in Seq(S) /\ Len(Tail(s)) = Len(s) - 1
         /\ IsInjective(Tail(s))
         /\ Range(Tail(s)) \subseteq Range(s)
<1>1. /\ Tail(s) \in Seq(S) /\ Len(Tail(s)) = Len(s) - 1
      /\ \A i \in 1..Len(Tail(s)) : Tail(s)[i] = s[i + 1]
  BY HeadTailProperties
<1>2. /\ Len(s) \in Nat \ {0} /\ DOMAIN s = 1..Len(s)
      /\ DOMAIN Tail(s) = 1..Len(s) - 1 /\ Len(Tail(s)) = Len(s) - 1
  BY <1>1, EmptySeq, LenProperties
<1>3. \A i \in 1..Len(s) - 1 : i + 1 \in 1..Len(s) /\ Tail(s)[i] = s[i + 1]
  BY <1>1, <1>2
<1>4. ASSUME NEW i \in 1..Len(s) - 1, NEW j \in 1..Len(s) - 1, Tail(s)[i] = Tail(s)[j]
      PROVE  i = j
  <2>1. i + 1 \in 1..Len(s) /\ j + 1 \in 1..Len(s) /\ s[i + 1] = s[j + 1]
    BY <1>3, <1>4
  <2>2. i + 1 = j + 1
    BY <1>2, <2>1 DEF IsInjective
  <2> QED
    BY <1>2, <2>2
<1>5. IsInjective(Tail(s))
  BY <1>2, <1>4 DEF IsInjective
<1>6. Range(Tail(s)) \subseteq Range(s)
  BY <1>2, <1>3 DEF Range
<1> QED
  BY <1>1, <1>5, <1>6

\* state_mut: the cache stays within its limit, has no dialogue twice, and has the
\* one asked for.
LEMMA RememberedType ==
  ASSUME CacheTypes, NEW d \in Dialogs
  PROVE  /\ Remembered(d) \in Seq(Dialogs) /\ IsInjective(Remembered(d))
         /\ Len(Remembered(d)) <= CacheSize
         /\ d \in Range(Remembered(d))
         /\ Range(Remembered(d)) \subseteq Range(order) \cup {d}
<1>0. order \in Seq(Dialogs) /\ IsInjective(order) /\ Len(order) <= CacheSize
  BY DEF CacheTypes
<1>1. CASE d \in Range(order)
  BY <1>0, <1>1 DEF Remembered
<1>2. CASE d \notin Range(order) /\ Len(order) < CacheSize
  <2>1. Remembered(d) = Append(order, d)
    BY <1>2 DEF Remembered
  <2>2. Len(order) + 1 <= CacheSize
    BY <1>0, <1>2, LenProperties, CacheSizeAssumption
  <2> QED
    BY <1>0, <1>2, <2>1, <2>2, AppendNew
<1>3. CASE d \notin Range(order) /\ ~(Len(order) < CacheSize)
  <2>1. Remembered(d) = Append(Tail(order), d)
    BY <1>3 DEF Remembered
  <2>2. Len(order) \in Nat /\ Len(order) = CacheSize
    BY <1>0, <1>3, LenProperties, CacheSizeAssumption
  <2>3. order # <<>>
    BY <2>2, CacheSizeAssumption
  <2> DEFINE rest == Tail(order)
  <2>4. /\ rest \in Seq(Dialogs) /\ Len(rest) = Len(order) - 1
        /\ IsInjective(rest) /\ Range(rest) \subseteq Range(order)
    BY <1>0, <2>3, TailKeeps
  <2>5. d \notin Range(rest)
    BY <1>3, <2>4
  <2> HIDE DEF rest
  <2>6. /\ Append(rest, d) \in Seq(Dialogs)
        /\ Len(Append(rest, d)) = Len(rest) + 1
        /\ IsInjective(Append(rest, d))
        /\ Range(Append(rest, d)) = Range(rest) \cup {d}
    BY <2>4, <2>5, AppendNew
  <2>7. Len(Append(rest, d)) = CacheSize
    BY <2>2, <2>4, <2>6
  <2>8. Remembered(d) = Append(rest, d)
    BY <2>1 DEF rest
  <2> QED
    BY <2>4, <2>6, <2>7, <2>8, CacheSizeAssumption
<1> QED
  BY <1>1, <1>2, <1>3

LEMMA RangeTypes ==
  ASSUME CacheTypes
  PROVE  Range(order) \subseteq Dialogs
<1>1. order \in Seq(Dialogs)
  BY DEF CacheTypes
<1>2. \A i \in DOMAIN order : order[i] \in Dialogs
  BY <1>1, LenProperties
<1> QED
  BY <1>2 DEF Range

\* What a step does to the marks of the dialogues it does not make the cache forget,
\* and that whoever executes a command claims a dialogue nobody had claimed.
Kept ==
  /\ forgotten \subseteq forgotten'
  /\ \A e \in Dialogs \ forgotten' :
       (e \in routed => e \in routed') /\ (e \in claimed => e \in claimed')
ClaimsOnly(d) ==
  \A e \in Dialogs \ forgotten' : e \in claimed' => e \in claimed \/ e = d

LEMMA MarkKeeps ==
  ASSUME CacheTypes, NEW d \in Dialogs, NEW routes, NEW claims, NEW externals,
         Mark(d, routes, claims, externals)
  PROVE  /\ CacheTypes' /\ Kept
         /\ routes => d \in routed'
         /\ claims => d \in claimed'
         /\ ClaimsOnly(d)
<1>1. order' = Remembered(d)
  BY DEF Mark
<1>2. /\ routed' = (routed \cup {x \in {d} : routes}) \cap Range(order')
      /\ claimed' = (claimed \cup {x \in {d} : claims}) \cap Range(order')
      /\ external' = (external \cup {x \in {d} : externals}) \cap Range(order')
      /\ forgotten' = forgotten \cup (Range(order) \ Range(order'))
  BY DEF Mark
<1>3. /\ order' \in Seq(Dialogs) /\ IsInjective(order') /\ Len(order') <= CacheSize
      /\ d \in Range(order')
  BY <1>1, RememberedType
<1>4. Range(order) \subseteq Dialogs
  BY RangeTypes
<1>5. CacheTypes'
  BY <1>2, <1>3, <1>4 DEF CacheTypes
<1>6. Kept /\ ClaimsOnly(d)
  BY <1>2 DEF CacheTypes, Kept, ClaimsOnly
<1>7. (routes => d \in routed') /\ (claims => d \in claimed')
  BY <1>2, <1>3
<1> QED
  BY <1>5, <1>6, <1>7

-----------------------------------------------------------------------------
(* Each invariant, kept by each step.                                       *)

LEMMA HandLine ==
  ASSUME DialogTypes
  PROVE  /\ hand.name \in {"none", "RecognizeResult", "Dialog.Finish"}
         /\ hand.name = "none" <=> hand = NoLine
         /\ hand.name # "none" => hand.dialog \in Dialogs
         /\ hand.name = "RecognizeResult" => hand.text \in Texts
BY DEF DialogTypes, Lines, NoLine

LEMMA InitInvs ==
  Init => /\ CacheTypes /\ DialogTypes /\ OtherTypes /\ FlagTypes
          /\ HandInv /\ RoutedInv /\ OnceInv /\ NativeInv /\ FlagInv /\ PauseInv
<1> SUFFICES ASSUME Init
             PROVE  /\ CacheTypes /\ DialogTypes /\ OtherTypes /\ FlagTypes
                    /\ HandInv /\ RoutedInv /\ OnceInv /\ NativeInv /\ FlagInv /\ PauseInv
  OBVIOUS
<1>1. CacheTypes
  <2>1. order = <<>> /\ routed = {} /\ claimed = {} /\ external = {} /\ forgotten = {}
    BY DEF Init
  <2>2. <<>> \in Seq(Dialogs) /\ Len(<<>>) = 0
    BY EmptySeq
  <2>3. IsInjective(<<>>)
    BY DEF IsInjective
  <2> QED
    BY <2>1, <2>2, <2>3, CacheSizeAssumption DEF CacheTypes
<1>2. DialogTypes
  BY MaxLinesAssumption DEF Init, DialogTypes, Phases
<1>3. OtherTypes
  <2>1. rx \in Seq({"WakeStarted", "DialogFinished"})
    BY EmptySeq DEF Init
  <2> QED
    BY <2>1 DEF Init, OtherTypes
<1>4. FlagTypes
  BY DEF Init, FlagTypes
<1>5. HandInv /\ RoutedInv
  BY DEF Init, HandInv, RoutedInv, NoLine
<1>6. OnceInv /\ NativeInv
  BY DEF Init, OnceInv, NativeInv
<1>7. FlagInv /\ PauseInv
  BY DEF Init, FlagInv, PauseInv, Attended
<1> QED
  BY <1>1, <1>2, <1>3, <1>4, <1>5, <1>6, <1>7

LEMMA CacheStep ==
  ASSUME CacheTypes, DialogTypes, [Next]_vars
  PROVE  CacheTypes'
<1>1. ASSUME NEW d \in Dialogs, NEW text \in Texts, RecognizeResult(d, text)
      PROVE  CacheTypes'
  BY <1>1 DEF RecognizeResult, CacheTypes
<1>2. ASSUME NEW d \in Dialogs, NEW directive \in Directives, Directive(d, directive)
      PROVE  CacheTypes'
  <2>1. CASE UNCHANGED <<cache, ghosts>>
    BY <2>1 DEF CacheTypes
  <2>2. CASE Mark(d, d \in routed, TRUE, d \in external)
    BY <2>2, MarkKeeps
  <2> QED
    BY <1>2, <2>1, <2>2 DEF Directive
<1>3. ASSUME NEW d \in Dialogs, Finish(d)
      PROVE  CacheTypes'
  BY <1>3 DEF Finish, CacheTypes
<1>4. CASE Route
  <2>1. CASE UNCHANGED <<cache, ghosts>>
    BY <2>1 DEF CacheTypes
  <2>2. ASSUME NEW routes, NEW claims, NEW externals,
               Mark(hand.dialog, routes, claims, externals)
        PROVE  CacheTypes'
    <3>1. hand.dialog \in Dialogs
      BY <1>4, HandLine DEF Route
    <3> QED
      BY <2>2, <3>1, MarkKeeps
  <2> QED
    BY <1>4, <2>1, <2>2 DEF Route
<1>5. CASE FinishWake
  BY <1>5 DEF FinishWake, CacheTypes
<1>6. CASE NewFile
  <2>1. order' = <<>> /\ routed' = {} /\ claimed' = {} /\ external' = {}
        /\ forgotten' = forgotten \cup Range(order)
    BY <1>6 DEF NewFile
  <2>2. <<>> \in Seq(Dialogs) /\ Len(<<>>) = 0
    BY EmptySeq
  <2>3. IsInjective(<<>>)
    BY DEF IsInjective
  <2>4. Range(order) \subseteq Dialogs
    BY RangeTypes
  <2> QED
    BY <2>1, <2>2, <2>3, <2>4, CacheSizeAssumption DEF CacheTypes
<1>7. CASE HomeAssistantAnswers \/ HomeAssistantEnds \/ StopNative \/ HandleWake
           \/ MusicChanges
  BY <1>7 DEF HomeAssistantAnswers, HomeAssistantEnds, StopNative, HandleWake,
              MusicChanges, CacheTypes
<1>8. CASE UNCHANGED vars
  BY <1>8 DEF CacheTypes
<1> QED
  BY <1>1, <1>2, <1>3, <1>4, <1>5, <1>6, <1>7, <1>8 DEF Next, Router

LEMMA DialogStep ==
  ASSUME DialogTypes, [Next]_vars
  PROVE  DialogTypes'
<1> USE MaxLinesAssumption
<1>1. ASSUME NEW d \in Dialogs, NEW next \in Phases, Write(d, next)
      PROVE  phase' \in [Dialogs -> Phases] /\ lines' \in [Dialogs -> 0..MaxLines]
  BY <1>1 DEF Write, DialogTypes
<1>2. ASSUME NEW d \in Dialogs, NEW text \in Texts, RecognizeResult(d, text)
      PROVE  DialogTypes'
  <2>1. PICK next \in {"listening", "asked"} : Write(d, next)
    BY <1>2 DEF RecognizeResult
  <2>2. phase' \in [Dialogs -> Phases] /\ lines' \in [Dialogs -> 0..MaxLines]
    BY <1>1, <2>1 DEF Phases
  <2>3. hand' \in Lines
    BY <1>2 DEF RecognizeResult, Lines
  <2> QED
    BY <1>2, <2>2, <2>3 DEF RecognizeResult, DialogTypes
<1>3. ASSUME NEW d \in Dialogs, NEW directive \in Directives, Directive(d, directive)
      PROVE  DialogTypes'
  <2>1. phase[d] \in Phases /\ Write(d, phase[d])
    BY <1>3 DEF Directive, DialogTypes
  <2>2. phase' \in [Dialogs -> Phases] /\ lines' \in [Dialogs -> 0..MaxLines]
    BY <1>1, <2>1
  <2> QED
    BY <1>3, <2>2 DEF Directive, DialogTypes
<1>4. ASSUME NEW d \in Dialogs, Finish(d)
      PROVE  DialogTypes'
  <2>1. phase' \in [Dialogs -> Phases]
    BY <1>4 DEF Finish, DialogTypes, Phases
  <2>2. hand' \in Lines \cup {NoLine} /\ cutShort' \subseteq Dialogs
    BY <1>4 DEF Finish, DialogTypes, Lines, CutsShort, Attended
  <2> QED
    BY <1>4, <2>1, <2>2 DEF Finish, DialogTypes
<1>5. CASE Route
  BY <1>5 DEF Route, DialogTypes
<1>6. CASE FinishWake
  BY <1>6 DEF FinishWake, DialogTypes, CutsShort, Attended
<1>7. CASE NewFile
  BY <1>7 DEF NewFile, DialogTypes
<1>8. CASE HomeAssistantAnswers
  <2>1. phase' \in [Dialogs -> Phases]
    BY <1>8 DEF HomeAssistantAnswers, DialogTypes, Phases
  <2>2. cutShort' \subseteq Dialogs
    BY <1>8 DEF HomeAssistantAnswers, DialogTypes, CutsShort, Attended
  <2> QED
    BY <1>8, <2>1, <2>2 DEF HomeAssistantAnswers, DialogTypes
<1>9. CASE HomeAssistantEnds
  BY <1>9 DEF HomeAssistantEnds, DialogTypes, CutsShort, Attended
<1>10. CASE StopNative \/ HandleWake \/ MusicChanges
  BY <1>10 DEF StopNative, HandleWake, MusicChanges, DialogTypes
<1>11. CASE UNCHANGED vars
  BY <1>11 DEF DialogTypes
<1> QED
  BY <1>2, <1>3, <1>4, <1>5, <1>6, <1>7, <1>8, <1>9, <1>10, <1>11 DEF Next, Router

Messages == {"WakeStarted", "DialogFinished"}

LEMMA ClaimTypes ==
  ASSUME OtherTypes, NEW d \in Dialogs, Claim(d)
  PROVE  /\ executed' \in [Dialogs -> Nat] /\ stops' \in Nat /\ stops' # 0
         /\ executed'[d] = executed[d] + 1
         /\ \A e \in Dialogs \ {d} : executed'[e] = executed[e]
<1>1. executed' = [executed EXCEPT ![d] = @ + 1] /\ stops' = stops + 1
  BY DEF Claim
<1>2. executed \in [Dialogs -> Nat] /\ stops \in Nat
  BY DEF OtherTypes
<1> QED
  BY <1>1, <1>2

LEMMA Sends ==
  ASSUME OtherTypes, NEW m \in Messages, rx' = Append(rx, m)
  PROVE  /\ rx' \in Seq(Messages) /\ rx' # <<>> /\ rx'[Len(rx')] = m
<1>1. rx \in Seq(Messages)
  BY DEF OtherTypes, Messages
<1>2. /\ Append(rx, m) \in Seq(Messages) /\ Len(Append(rx, m)) = Len(rx) + 1
      /\ Append(rx, m)[Len(rx) + 1] = m
  BY <1>1, AppendProperties
<1>3. Len(rx) \in Nat /\ Len(rx) + 1 # 0
  BY <1>1, LenProperties
<1>4. Append(rx, m) # <<>>
  BY <1>2, <1>3, EmptySeq
<1> QED
  BY <1>2, <1>4

LEMMA OtherStep ==
  ASSUME OtherTypes, DialogTypes, [Next]_vars
  PROVE  OtherTypes'
<1>0. ASSUME NEW d \in Dialogs, Claim(d) \/ (stops' \in {stops, stops + 1} /\ executed' = executed)
      PROVE  stops' \in Nat /\ executed' \in [Dialogs -> Nat]
  <2>1. CASE Claim(d)
    BY <2>1, ClaimTypes
  <2>2. CASE stops' \in {stops, stops + 1} /\ executed' = executed
    BY <2>2 DEF OtherTypes
  <2> QED
    BY <1>0, <2>1, <2>2
<1>1. ASSUME NEW d \in Dialogs, NEW text \in Texts, RecognizeResult(d, text)
      PROVE  OtherTypes'
  BY <1>1 DEF RecognizeResult, OtherTypes
<1>2. ASSUME NEW d \in Dialogs, NEW directive \in Directives, Directive(d, directive)
      PROVE  OtherTypes'
  <2>1. /\ native' \in Dialogs \cup {NoDialog} /\ asking' \in Nat /\ ending' \in Nat
        /\ rx' \in Seq(Messages)
    BY <1>2 DEF Directive, OtherTypes, Messages
  <2>2. Claim(d) \/ (stops' \in {stops, stops + 1} /\ executed' = executed)
    BY <1>2 DEF Directive
  <2>3. stops' \in Nat /\ executed' \in [Dialogs -> Nat]
    BY <1>0, <2>2
  <2> QED
    BY <2>1, <2>3 DEF OtherTypes, Messages
<1>3. ASSUME NEW d \in Dialogs, Finish(d)
      PROVE  OtherTypes'
  BY <1>3 DEF Finish, OtherTypes
<1>4. CASE Route
  <2>1. rx' \in Seq(Messages)
    BY <1>4, Sends DEF Route, WakeStarted, Messages
  <2>2. hand.dialog \in Dialogs
    BY <1>4, HandLine DEF Route
  <2>3. Claim(hand.dialog) \/ (stops' \in {stops, stops + 1} /\ executed' = executed)
    BY <1>4 DEF Route
  <2>4. stops' \in Nat /\ executed' \in [Dialogs -> Nat]
    BY <1>0, <2>2, <2>3
  <2>5. asking' \in {asking, asking + 1} /\ ending' = ending /\ native' = native
    BY <1>4 DEF Route
  <2> QED
    BY <2>1, <2>4, <2>5 DEF OtherTypes, Messages
<1>5. CASE FinishWake
  <2>1. rx' \in Seq(Messages)
    BY <1>5, Sends DEF FinishWake, Messages
  <2> QED
    BY <1>5, <2>1 DEF FinishWake, OtherTypes, Messages
<1>6. CASE NewFile
  BY <1>6 DEF NewFile, OtherTypes
<1>7. CASE HomeAssistantAnswers
  BY <1>7 DEF HomeAssistantAnswers, OtherTypes
<1>8. CASE HomeAssistantEnds
  <2>1. rx' \in Seq(Messages)
    BY <1>8, Sends DEF HomeAssistantEnds, Messages
  <2> QED
    BY <1>8, <2>1 DEF HomeAssistantEnds, OtherTypes, Messages
<1>9. CASE StopNative
  BY <1>9 DEF StopNative, OtherTypes
<1>10. CASE HandleWake
  <2>1. rx' \in Seq(Messages)
    BY <1>10, HeadTailProperties DEF HandleWake, OtherTypes, Messages
  <2> QED
    BY <1>10, <2>1 DEF HandleWake, OtherTypes, Messages
<1>11. CASE MusicChanges
  BY <1>11 DEF MusicChanges, OtherTypes
<1>12. CASE UNCHANGED vars
  BY <1>12 DEF OtherTypes
<1> QED
  BY <1>1, <1>2, <1>3, <1>4, <1>5, <1>6, <1>7, <1>8, <1>9, <1>10, <1>11, <1>12
     DEF Next, Router

LEMMA FlagTypeStep ==
  ASSUME FlagTypes, [Next]_vars
  PROVE  FlagTypes'
<1>1. CASE MusicChanges
  BY <1>1, Zenon DEF MusicChanges, FlagTypes
<1>2. CASE HandleWake
  BY <1>2 DEF HandleWake, FlagTypes
<1>3. CASE HomeAssistantAnswers
  BY <1>3 DEF HomeAssistantAnswers, FlagTypes
<1>4. ASSUME NEW d \in Dialogs, Finish(d)
      PROVE  FlagTypes'
  BY <1>4 DEF Finish, FlagTypes
<1>5. ASSUME NEW d \in Dialogs, NEW text \in Texts, RecognizeResult(d, text)
      PROVE  FlagTypes'
  BY <1>5 DEF RecognizeResult, FlagTypes
<1>6. ASSUME UNCHANGED <<wakeActive, wakePause, musicActive>>
      PROVE  FlagTypes'
  BY <1>6 DEF FlagTypes
<1>7. ASSUME NEW d \in Dialogs, NEW directive \in Directives, Directive(d, directive)
      PROVE  FlagTypes'
  BY <1>6, <1>7 DEF Directive
<1>8. CASE Route \/ FinishWake \/ NewFile \/ HomeAssistantEnds \/ StopNative
  BY <1>6, <1>8 DEF Route, FinishWake, NewFile, HomeAssistantEnds, StopNative
<1>9. CASE UNCHANGED vars
  BY <1>6, <1>9
<1> QED
  BY <1>1, <1>2, <1>3, <1>4, <1>5, <1>7, <1>8, <1>9 DEF Next, Router

LEMMA HandStep ==
  ASSUME DialogTypes, HandInv, [Next]_vars
  PROVE  HandInv'
<1> USE DEF NoLine
<1>1. ASSUME NEW d \in Dialogs, NEW text \in Texts, RecognizeResult(d, text)
      PROVE  HandInv'
  <2>1. hand'.name = "RecognizeResult" /\ hand'.dialog = d
    BY <1>1 DEF RecognizeResult
  <2>2. phase'[d] \in {"listening", "asked"}
    BY <1>1 DEF RecognizeResult, Write, DialogTypes
  <2> QED
    BY <2>1, <2>2 DEF HandInv
<1>2. ASSUME NEW d \in Dialogs, NEW directive \in Directives, Directive(d, directive)
      PROVE  HandInv'
  BY <1>2 DEF Directive, Write, HandInv
<1>3. ASSUME NEW d \in Dialogs, Finish(d)
      PROVE  HandInv'
  <2>1. hand = NoLine /\ phase'[d] = "done"
    BY <1>3 DEF Finish, DialogTypes
  <2>2. hand' \in {hand, [name |-> "Dialog.Finish", dialog |-> d]}
    BY <1>3 DEF Finish
  <2> QED
    BY <2>1, <2>2 DEF HandInv
<1>4. CASE Route \/ FinishWake
  <2>1. hand' = NoLine
    BY <1>4 DEF Route, FinishWake
  <2> QED
    BY <2>1 DEF HandInv
<1>5. CASE HomeAssistantAnswers
  <2>1. hand' = hand
    BY <1>5 DEF HomeAssistantAnswers
  <2>2. \A e \in Dialogs : phase[e] # "new" => phase'[e] = phase[e]
    BY <1>5 DEF HomeAssistantAnswers, DialogTypes
  <2>3. hand.name # "none" => hand.dialog \in Dialogs
    BY HandLine
  <2> QED
    BY <2>1, <2>2, <2>3 DEF HandInv
<1>6. CASE NewFile \/ HomeAssistantEnds \/ StopNative \/ HandleWake \/ MusicChanges
  BY <1>6 DEF NewFile, HomeAssistantEnds, StopNative, HandleWake, MusicChanges, HandInv
<1>7. CASE UNCHANGED vars
  BY <1>7 DEF HandInv
<1> QED
  BY <1>1, <1>2, <1>3, <1>4, <1>5, <1>6, <1>7 DEF Next, Router

LEMMA RouteEffect ==
  ASSUME CacheTypes, DialogTypes, HandInv, Route
  PROVE  /\ hand.name = "RecognizeResult" /\ hand.dialog \in Dialogs
         /\ phase[hand.dialog] \in {"listening", "asked"}
         /\ phase' = phase /\ hand' = NoLine
         /\ Kept /\ ClaimsOnly(hand.dialog)
         /\ hand.text # "none" => hand.dialog \in routed'
         /\ hand.dialog \in claimed' /\ hand.dialog \notin forgotten'
              => hand.dialog \in claimed \/ hand.dialog \in routed'
         /\ \/ executed' = executed /\ stops' = stops
            \/ /\ Claim(hand.dialog)
               /\ hand.dialog \notin routed /\ hand.dialog \in claimed'
<1> DEFINE d == hand.dialog
<1>1. /\ hand.name = "RecognizeResult" /\ d \in Dialogs
      /\ phase[d] \in {"listening", "asked"}
      /\ phase' = phase /\ hand' = NoLine
  BY HandLine DEF Route, HandInv
<1>2. CASE /\ hand.text = "none" \/ d \in routed
           /\ UNCHANGED <<cache, ghosts, stops>>
  BY <1>1, <1>2 DEF Kept, ClaimsOnly
<1>3. ASSUME NEW claims \in BOOLEAN, NEW externals, Mark(d, TRUE, claims, externals)
      PROVE  /\ Kept /\ ClaimsOnly(d) /\ d \in routed'
             /\ claims => d \in claimed'
  <2> HIDE DEF d
  <2> QED
    BY <1>1, <1>3, MarkKeeps, Zenon
<1>4. CASE ~(d \in routed) /\ Mark(d, TRUE, TRUE, FALSE) /\ Claim(d)
  <2> HIDE DEF d
  <2>1. Kept /\ ClaimsOnly(d) /\ d \in routed' /\ d \in claimed'
    BY <1>3, <1>4
  <2> QED
    BY <1>1, <1>4, <2>1 DEF d
<1>5. ASSUME NEW externals \in BOOLEAN, Mark(d, TRUE, FALSE, externals),
             UNCHANGED <<stops, executed>>
      PROVE  /\ Kept /\ ClaimsOnly(d) /\ d \in routed'
             /\ executed' = executed /\ stops' = stops
  BY <1>3, <1>5
<1>6. \/ (hand.text = "none" \/ d \in routed) /\ UNCHANGED <<cache, ghosts, stops>>
      \/ ~(d \in routed) /\ Mark(d, TRUE, TRUE, FALSE) /\ Claim(d)
      \/ Mark(d, TRUE, FALSE, TRUE) /\ UNCHANGED <<stops, executed>>
      \/ Mark(d, TRUE, FALSE, FALSE) /\ UNCHANGED <<stops, executed>>
  BY DEF Route, AlreadyRouted
<1> QED
  <2>1. CASE Mark(d, TRUE, FALSE, TRUE) /\ UNCHANGED <<stops, executed>>
    BY <1>1, <1>5, <2>1
  <2>2. CASE Mark(d, TRUE, FALSE, FALSE) /\ UNCHANGED <<stops, executed>>
    BY <1>1, <1>5, <2>2
  <2> QED
    BY <1>2, <1>4, <1>6, <2>1, <2>2

LEMMA DirectiveEffect ==
  ASSUME CacheTypes, DialogTypes,
         NEW d \in Dialogs, NEW directive \in Directives, Directive(d, directive)
  PROVE  /\ hand = NoLine /\ hand' = NoLine /\ phase' = phase
         /\ phase[d] \in {"asked", "answering", "done"}
         /\ native' \in {d, native}
         /\ Kept /\ ClaimsOnly(d)
         /\ d \in routed /\ d \notin forgotten' => d \in routed'
         /\ \/ executed' = executed /\ stops' = stops + 1 /\ claimed' = claimed
            \/ executed' = executed /\ stops' = stops /\ claimed' = claimed /\ d \notin claimed
            \/ Claim(d) /\ d \notin claimed /\ d \in claimed'
<1>1. /\ hand = NoLine /\ hand' = NoLine /\ phase' = phase
      /\ phase[d] \in {"asked", "answering", "done"} /\ native' \in {d, native}
  BY DEF Directive, Write, DialogTypes
<1>2. ASSUME UNCHANGED <<cache, ghosts>>
      PROVE  /\ Kept /\ ClaimsOnly(d)
             /\ d \in routed /\ d \notin forgotten' => d \in routed'
             /\ executed' = executed /\ claimed' = claimed
  BY <1>2 DEF Kept, ClaimsOnly
<1>3. ASSUME Mark(d, d \in routed, TRUE, d \in external)
      PROVE  /\ Kept /\ ClaimsOnly(d) /\ d \in claimed'
             /\ d \in routed /\ d \notin forgotten' => d \in routed'
  BY <1>3, MarkKeeps, Zenon
<1>4. \/ UNCHANGED <<cache, ghosts>> /\ stops' = stops + 1
      \/ d \notin claimed /\ Mark(d, d \in routed, TRUE, d \in external) /\ Claim(d)
      \/ d \notin claimed /\ UNCHANGED <<cache, ghosts>> /\ stops' = stops
  BY DEF Directive, Suppresses
<1> QED
  BY <1>1, <1>2, <1>3, <1>4

\* The steps that neither the cache nor a dialogue's text sees
LEMMA NewFileForgets ==
  ASSUME CacheTypes, NewFile
  PROVE  /\ forgotten \subseteq forgotten' /\ phase' = phase /\ hand = NoLine /\ hand' = hand
         /\ executed' = executed /\ stops' = stops /\ native' = native
         /\ \A e \in Dialogs \ forgotten' : e \notin routed /\ e \notin claimed /\ e \notin claimed'
BY DEF NewFile, CacheTypes

LEMMA RoutedStep ==
  ASSUME CacheTypes, DialogTypes, HandInv, RoutedInv, [Next]_vars
  PROVE  RoutedInv'
<1> USE DEF NoLine
<1>0. ASSUME NEW e \in Dialogs \ forgotten, hand = NoLine
      PROVE  (phase[e] = "asked" => e \in routed) /\ ~InHand(e)
  BY <1>0 DEF RoutedInv, InHand
<1>1. ASSUME NEW d \in Dialogs, NEW text \in Texts, RecognizeResult(d, text)
      PROVE  RoutedInv'
  <2>1. hand = NoLine /\ UNCHANGED <<cache, forgotten>>
    BY <1>1 DEF RecognizeResult, Write
  <2>2. phase[d] \in {"new", "listening", "asked"}
    BY <1>1 DEF RecognizeResult, Hears
  <2>3. /\ phase'[d] \in {"listening", "asked"}
        /\ phase'[d] = "asked" => phase[d] = "asked" \/ text # "none"
        /\ \A e \in Dialogs \ {d} : phase'[e] = phase[e]
    BY <1>1 DEF RecognizeResult, Write, DialogTypes
  <2>4. hand' = [name |-> "RecognizeResult", dialog |-> d, text |-> text]
    BY <1>1 DEF RecognizeResult
  <2>5. ASSUME NEW e \in Dialogs \ forgotten
        PROVE  /\ phase'[e] = "asked" /\ ~InHand(e)' => e \in routed
               /\ phase'[e] \in {"new", "listening", "asked"} /\ e \in claimed => e \in routed
    <3>1. CASE e = d
      <4>1. text # "none" => InHand(d)'
        BY <2>4 DEF InHand
      <4> QED
        BY <1>0, <2>1, <2>2, <2>3, <3>1, <4>1 DEF RoutedInv
    <3>2. CASE e # d
      BY <1>0, <2>1, <2>3, <3>2 DEF RoutedInv
    <3> QED
      BY <3>1, <3>2
  <2> QED
    BY <2>1, <2>5 DEF RoutedInv
<1>2. ASSUME NEW d \in Dialogs, NEW directive \in Directives, Directive(d, directive)
      PROVE  RoutedInv'
  <2>1. /\ hand = NoLine /\ phase' = phase /\ Kept /\ ClaimsOnly(d)
        /\ phase[d] \in {"asked", "answering", "done"}
    BY <1>2, DirectiveEffect
  <2>2. ASSUME NEW e \in Dialogs \ forgotten'
        PROVE  /\ phase[e] = "asked" => e \in routed'
               /\ phase[e] \in {"new", "listening", "asked"} /\ e \in claimed' => e \in routed'
    <3>1. e \in Dialogs \ forgotten /\ (e \in routed => e \in routed')
      BY <2>1 DEF Kept
    <3>2. e \in claimed' => e \in claimed \/ e = d
      BY <2>1 DEF ClaimsOnly
    <3> QED
      BY <1>0, <2>1, <3>1, <3>2 DEF RoutedInv
  <2> QED
    BY <2>1, <2>2 DEF RoutedInv
<1>3. ASSUME NEW d \in Dialogs, Finish(d)
      PROVE  RoutedInv'
  <2>1. hand = NoLine /\ UNCHANGED <<cache, forgotten>>
    BY <1>3 DEF Finish
  <2>2. \A e \in Dialogs : phase'[e] = phase[e] \/ phase'[e] = "done"
    BY <1>3 DEF Finish, DialogTypes
  <2> QED
    BY <1>0, <2>1, <2>2 DEF RoutedInv
<1>4. CASE Route
  <2> DEFINE d == hand.dialog
  <2>1. /\ phase' = phase /\ hand' = NoLine /\ d \in Dialogs
        /\ hand.text # "none" => d \in routed'
        /\ d \in claimed' /\ d \notin forgotten' => d \in claimed \/ d \in routed'
    BY <1>4, RouteEffect
  <2>2. Kept /\ ClaimsOnly(d)
    BY <1>4, RouteEffect
  <2>3. \A e \in Dialogs \ {d} : ~InHand(e)
    BY DEF InHand
  <2>4. InHand(d) => hand.text # "none"
    BY DEF InHand
  <2> HIDE DEF d
  <2>5. ASSUME NEW e \in Dialogs \ forgotten'
        PROVE  /\ phase[e] = "asked" => e \in routed'
               /\ phase[e] \in {"new", "listening", "asked"} /\ e \in claimed' => e \in routed'
    <3>1. e \in Dialogs \ forgotten /\ (e \in routed => e \in routed')
      BY <2>2 DEF Kept
    <3>2. e \in claimed' => e \in claimed \/ e = d
      BY <2>2 DEF ClaimsOnly
    <3>3. phase[e] = "asked" => e \in routed'
      BY <2>1, <2>3, <2>4, <3>1 DEF RoutedInv
    <3> QED
      BY <2>1, <3>1, <3>2, <3>3 DEF RoutedInv
  <2> QED
    BY <2>1, <2>5 DEF RoutedInv
<1>5. CASE FinishWake
  <2>1. hand.name = "Dialog.Finish" /\ UNCHANGED <<dialogues, cache, forgotten>>
    BY <1>5 DEF FinishWake
  <2>2. \A e \in Dialogs : ~InHand(e)
    BY <2>1 DEF InHand
  <2> QED
    BY <2>1, <2>2 DEF RoutedInv
<1>6. CASE NewFile
  <2>1. /\ phase' = phase /\ hand = NoLine /\ forgotten \subseteq forgotten'
        /\ \A e \in Dialogs \ forgotten' : e \notin routed /\ e \notin claimed'
    BY <1>6, NewFileForgets
  <2>2. ASSUME NEW e \in Dialogs \ forgotten'
        PROVE  phase[e] # "asked" /\ e \notin claimed'
    BY <1>0, <2>1
  <2> QED
    BY <2>1, <2>2 DEF RoutedInv
<1>7. CASE HomeAssistantAnswers
  <2>1. \A e \in Dialogs : phase'[e] = phase[e] \/ phase'[e] = "answering"
    BY <1>7 DEF HomeAssistantAnswers, DialogTypes
  <2>2. UNCHANGED <<hand, cache, forgotten>>
    BY <1>7 DEF HomeAssistantAnswers
  <2> QED
    BY <2>1, <2>2 DEF RoutedInv, InHand
<1>8. CASE HomeAssistantEnds \/ StopNative \/ HandleWake \/ MusicChanges
  <2>1. UNCHANGED <<dialogues, hand, cache, forgotten>>
    BY <1>8 DEF HomeAssistantEnds, StopNative, HandleWake, MusicChanges
  <2> QED
    BY <2>1 DEF RoutedInv, InHand
<1>9. CASE UNCHANGED vars
  BY <1>9 DEF RoutedInv, InHand
<1> QED
  BY <1>1, <1>2, <1>3, <1>4, <1>5, <1>6, <1>7, <1>8, <1>9 DEF Next, Router

LEMMA ClaimCounts ==
  ASSUME OtherTypes, OnceInv, NEW d \in Dialogs, Claim(d), Kept,
         d \notin forgotten' => d \notin claimed, d \in claimed'
  PROVE  OnceInv'
<1>1. /\ executed'[d] = executed[d] + 1
      /\ \A e \in Dialogs \ {d} : executed'[e] = executed[e]
  BY ClaimTypes
<1>2. ASSUME NEW e \in Dialogs \ forgotten'
      PROVE  executed'[e] = 0 \/ (executed'[e] = 1 /\ e \in claimed')
  <2>1. e \in Dialogs \ forgotten /\ (e \in claimed => e \in claimed')
    BY DEF Kept
  <2>2. CASE e = d
    BY <1>1, <2>1, <2>2 DEF OnceInv
  <2>3. CASE e # d
    BY <1>1, <2>1, <2>3 DEF OnceInv
  <2> QED
    BY <2>2, <2>3
<1> QED
  BY <1>2 DEF OnceInv

LEMMA OnceStep ==
  ASSUME CacheTypes, DialogTypes, OtherTypes, HandInv, RoutedInv, OnceInv, [Next]_vars
  PROVE  OnceInv'
<1>0. ASSUME executed' = executed, Kept
      PROVE  OnceInv'
  BY <1>0 DEF OnceInv, Kept
<1>1. ASSUME UNCHANGED <<cache, ghosts>>
      PROVE  OnceInv'
  BY <1>1 DEF OnceInv
<1>2. ASSUME NEW d \in Dialogs, NEW text \in Texts, RecognizeResult(d, text)
      PROVE  OnceInv'
  BY <1>1, <1>2 DEF RecognizeResult
<1>3. ASSUME NEW d \in Dialogs, NEW directive \in Directives, Directive(d, directive)
      PROVE  OnceInv'
  <2>1. Kept
    BY <1>3, DirectiveEffect
  <2>2. executed' = executed \/ (Claim(d) /\ d \notin claimed /\ d \in claimed')
    BY <1>3, DirectiveEffect
  <2> QED
    BY <1>0, <2>1, <2>2, ClaimCounts
<1>4. ASSUME NEW d \in Dialogs, Finish(d)
      PROVE  OnceInv'
  BY <1>1, <1>4 DEF Finish
<1>5. CASE Route
  <2> DEFINE d == hand.dialog
  <2>1. Kept /\ d \in Dialogs /\ phase[d] \in {"listening", "asked"}
    BY <1>5, RouteEffect
  <2>2. executed' = executed \/ (Claim(d) /\ d \notin routed /\ d \in claimed')
    BY <1>5, RouteEffect
  <2> HIDE DEF d
  <2>3. d \notin routed /\ d \notin forgotten' => d \notin claimed
    BY <2>1 DEF RoutedInv, Kept
  <2> QED
    BY <1>0, <2>1, <2>2, <2>3, ClaimCounts
<1>6. CASE NewFile
  <2>1. /\ executed' = executed /\ forgotten \subseteq forgotten'
        /\ \A e \in Dialogs \ forgotten' : e \notin claimed
    BY <1>6, NewFileForgets
  <2> QED
    BY <2>1 DEF OnceInv
<1>7. CASE \/ FinishWake \/ HomeAssistantAnswers \/ HomeAssistantEnds
           \/ StopNative \/ HandleWake \/ MusicChanges
  <2>1. UNCHANGED <<cache, ghosts>>
    BY <1>7 DEF FinishWake, HomeAssistantAnswers, HomeAssistantEnds, StopNative,
                HandleWake, MusicChanges
  <2> QED
    BY <1>1, <2>1
<1>8. CASE UNCHANGED vars
  BY <1>1, <1>8
<1> QED
  BY <1>2, <1>3, <1>4, <1>5, <1>6, <1>7, <1>8 DEF Next, Router

LEMMA NativeStep ==
  ASSUME CacheTypes, DialogTypes, OtherTypes, HandInv, OnceInv, NativeInv, [Next]_vars
  PROVE  NativeInv'
<1>0. ASSUME native' = native, stops' = stops, executed' = executed, forgotten \subseteq forgotten'
      PROVE  NativeInv'
  BY <1>0 DEF NativeInv
<1>1. ASSUME NEW d \in Dialogs, NEW text \in Texts, RecognizeResult(d, text)
      PROVE  NativeInv'
  BY <1>0, <1>1 DEF RecognizeResult
<1>2. ASSUME NEW d \in Dialogs, NEW directive \in Directives, Directive(d, directive)
      PROVE  NativeInv'
  <2>1. forgotten \subseteq forgotten' /\ native' \in {d, native}
    BY <1>2, DirectiveEffect DEF Kept
  <2>2. \/ Claim(d)
        \/ executed' = executed /\ stops' = stops + 1
        \/ executed' = executed /\ stops' = stops /\ d \notin claimed
    BY <1>2, DirectiveEffect
  <2>3. CASE Claim(d)
    BY <2>3, ClaimTypes DEF NativeInv
  <2>4. CASE executed' = executed /\ stops' = stops + 1
    <3>1. stops' # 0
      BY <2>4 DEF OtherTypes
    <3> QED
      BY <3>1 DEF NativeInv
  <2>5. CASE executed' = executed /\ stops' = stops /\ d \notin claimed
    <3>1. d \in forgotten \/ executed[d] = 0
      BY <2>5 DEF OnceInv
    <3> QED
      BY <2>1, <2>5, <3>1 DEF NativeInv
  <2> QED
    BY <2>2, <2>3, <2>4, <2>5
<1>3. ASSUME NEW d \in Dialogs, Finish(d)
      PROVE  NativeInv'
  BY <1>0, <1>3 DEF Finish
<1>4. CASE Route
  <2>1. hand.dialog \in Dialogs /\ forgotten \subseteq forgotten'
    BY <1>4, RouteEffect DEF Kept
  <2>2. Claim(hand.dialog) \/ (executed' = executed /\ stops' = stops)
    BY <1>4, RouteEffect
  <2>3. native' = native
    BY <1>4 DEF Route
  <2>4. CASE Claim(hand.dialog)
    <3>1. stops' # 0
      BY <2>1, <2>4, ClaimTypes
    <3> QED
      BY <3>1 DEF NativeInv
  <2> QED
    BY <1>0, <2>1, <2>2, <2>3, <2>4
<1>5. CASE NewFile
  BY <1>0, <1>5, NewFileForgets
<1>6. CASE StopNative
  BY <1>6 DEF StopNative, NativeInv
<1>7. CASE \/ FinishWake \/ HomeAssistantAnswers \/ HomeAssistantEnds
           \/ HandleWake \/ MusicChanges
  <2>1. UNCHANGED <<nativeVars, ghosts>>
    BY <1>7 DEF FinishWake, HomeAssistantAnswers, HomeAssistantEnds, HandleWake, MusicChanges
  <2> QED
    BY <1>0, <2>1
<1>8. CASE UNCHANGED vars
  BY <1>0, <1>8
<1> QED
  BY <1>1, <1>2, <1>3, <1>4, <1>5, <1>6, <1>7, <1>8 DEF Next, Router

\* Whoever lowers the flag or sends the end of a wake cuts the other dialogues' short.
LEMMA FlagStep ==
  ASSUME DialogTypes, FlagInv, [Next]_vars
  PROVE  FlagInv'
<1>0. ASSUME Attended' \subseteq Attended, cutShort \subseteq cutShort',
             wakeActive' = wakeActive
      PROVE  FlagInv'
  BY <1>0 DEF FlagInv
<1>1. ASSUME NEW d \in Dialogs, NEW text \in Texts, RecognizeResult(d, text)
      PROVE  FlagInv'
  BY <1>1 DEF RecognizeResult, FlagInv
<1>2. ASSUME NEW d \in Dialogs, NEW directive \in Directives, Directive(d, directive)
      PROVE  FlagInv'
  <2>1. phase' = phase
    BY <1>2 DEF Directive, Write, DialogTypes
  <2>2. UNCHANGED <<wake, cutShort>>
    BY <1>2 DEF Directive
  <2> QED
    BY <1>0, <2>1, <2>2 DEF Attended
<1>3. ASSUME NEW d \in Dialogs, Finish(d)
      PROVE  FlagInv'
  <2>1. Attended' \subseteq Attended \ {d}
    BY <1>3 DEF Finish, DialogTypes, Attended
  <2>2. CASE Deferred(d)
    BY <1>0, <1>3, <2>1, <2>2 DEF Finish
  <2>3. CASE ~Deferred(d)
    <3>1. cutShort' = cutShort \cup (Attended \ {d})
      BY <1>3, <2>3 DEF Finish, CutsShort
    <3> QED
      BY <2>1, <3>1 DEF FlagInv
  <2> QED
    BY <2>2, <2>3
<1>4. CASE HomeAssistantAnswers
  <2>1. Attended' \subseteq Attended
    BY <1>4 DEF HomeAssistantAnswers, DialogTypes, Attended
  <2>2. CASE UNCHANGED <<wakeActive, cutShort>>
    BY <1>0, <2>1, <2>2
  <2>3. CASE CutsShort({})
    BY <2>1, <2>3 DEF CutsShort, FlagInv
  <2> QED
    BY <1>4, <2>2, <2>3 DEF HomeAssistantAnswers
<1>5. CASE FinishWake \/ HomeAssistantEnds
  <2>1. UNCHANGED <<phase, wakeActive>> /\ cutShort \subseteq cutShort'
    BY <1>5 DEF FinishWake, HomeAssistantEnds, CutsShort
  <2> QED
    BY <1>0, <2>1 DEF Attended
<1>6. CASE Route \/ NewFile \/ StopNative \/ HandleWake \/ MusicChanges
  <2>1. UNCHANGED <<phase, wakeActive, cutShort>>
    BY <1>6 DEF Route, NewFile, StopNative, HandleWake, MusicChanges
  <2> QED
    BY <1>0, <2>1 DEF Attended
<1>7. CASE UNCHANGED vars
  BY <1>0, <1>7 DEF Attended
<1> QED
  BY <1>1, <1>2, <1>3, <1>4, <1>5, <1>6, <1>7 DEF Next, Router

\* The actor takes a message: the last one it has taken or will take stays the same.
LEMMA LastTaken ==
  ASSUME OtherTypes, HandleWake
  PROVE  LastWake' <=> LastWake
<1>1. /\ rx \in Seq(Messages) /\ rx # <<>>
      /\ rx' = Tail(rx) /\ wakePause' = (Head(rx) = "WakeStarted")
  BY DEF HandleWake, OtherTypes, Messages
<1>2. /\ rx' \in Seq(Messages) /\ Len(rx') = Len(rx) - 1 /\ Head(rx) = rx[1]
      /\ \A i \in 1..Len(rx') : rx'[i] = rx[i + 1]
  BY <1>1, HeadTailProperties
<1>3. Len(rx) \in Nat \ {0}
  BY <1>1, EmptySeq, LenProperties
<1>4. CASE rx' = <<>>
  <2>1. Len(rx') = 0
    BY <1>2, <1>4, EmptySeq
  <2>2. Len(rx) = 1
    BY <1>2, <1>3, <2>1
  <2>3. Head(rx) = rx[Len(rx)]
    BY <1>2, <2>2
  <2> QED
    BY <1>1, <1>4, <2>3, Zenon DEF LastWake
<1>5. CASE rx' # <<>>
  <2>1. Len(rx') # 0 /\ Len(rx') \in Nat
    BY <1>2, <1>5, EmptySeq, LenProperties
  <2>2. Len(rx') \in 1..Len(rx') /\ Len(rx') + 1 = Len(rx)
    BY <1>2, <1>3, <2>1
  <2>3. rx'[Len(rx')] = rx[Len(rx)]
    BY <1>2, <2>2
  <2> QED
    BY <1>1, <1>5, <2>3, Zenon DEF LastWake
<1> QED
  BY <1>4, <1>5

LEMMA PauseStep ==
  ASSUME CacheTypes, DialogTypes, OtherTypes, HandInv, PauseInv, [Next]_vars
  PROVE  PauseInv'
<1> USE DEF NoLine
<1>0. ASSUME Attended' \subseteq Attended, cutShort \subseteq cutShort',
             hand.name = "RecognizeResult" => hand'.name = "RecognizeResult",
             LastWake => LastWake'
      PROVE  PauseInv'
  BY <1>0 DEF PauseInv
<1>1. ASSUME UNCHANGED <<rx, wakePause>>
      PROVE  LastWake => LastWake'
  BY <1>1 DEF LastWake
<1>2. ASSUME NEW d \in Dialogs, NEW text \in Texts, RecognizeResult(d, text)
      PROVE  PauseInv'
  <2>1. hand'.name = "RecognizeResult"
    BY <1>2 DEF RecognizeResult
  <2> QED
    BY <2>1 DEF PauseInv
<1>3. ASSUME NEW d \in Dialogs, NEW directive \in Directives, Directive(d, directive)
      PROVE  PauseInv'
  <2>1. phase' = phase
    BY <1>3 DEF Directive, Write, DialogTypes
  <2>2. UNCHANGED <<wake, cutShort, hand>>
    BY <1>3 DEF Directive
  <2> QED
    BY <1>0, <1>1, <2>1, <2>2 DEF Attended
<1>4. ASSUME NEW d \in Dialogs, Finish(d)
      PROVE  PauseInv'
  <2>1. Attended' \subseteq Attended
    BY <1>4 DEF Finish, DialogTypes, Attended
  <2>2. cutShort \subseteq cutShort' /\ hand = NoLine /\ UNCHANGED <<rx, wakePause>>
    BY <1>4 DEF Finish, CutsShort
  <2> QED
    BY <1>0, <1>1, <2>1, <2>2
<1>5. CASE Route
  <2>1. LastWake'
    <3>1. rx' # <<>> /\ rx'[Len(rx')] = "WakeStarted"
      BY <1>5, Sends DEF Route, WakeStarted, Messages
    <3> QED
      BY <3>1 DEF LastWake
  <2> QED
    BY <2>1 DEF PauseInv
<1>6. CASE FinishWake
  <2>1. phase' = phase /\ cutShort' = cutShort \cup (Attended \ {hand.dialog})
    BY <1>6 DEF FinishWake, CutsShort
  <2>2. hand.dialog \notin Attended
    BY <1>6 DEF FinishWake, HandInv, Attended
  <2>3. Attended' = Attended
    BY <2>1 DEF Attended
  <2> QED
    BY <2>1, <2>2, <2>3 DEF PauseInv
<1>7. CASE HomeAssistantEnds
  <2>1. phase' = phase /\ cutShort' = cutShort \cup Attended
    BY <1>7 DEF HomeAssistantEnds, CutsShort
  <2>2. Attended' = Attended
    BY <2>1 DEF Attended
  <2> QED
    BY <2>1, <2>2 DEF PauseInv
<1>8. CASE HomeAssistantAnswers
  <2>1. Attended' \subseteq Attended
    BY <1>8 DEF HomeAssistantAnswers, DialogTypes, Attended
  <2>2. cutShort \subseteq cutShort' /\ UNCHANGED <<hand, rx, wakePause>>
    BY <1>8 DEF HomeAssistantAnswers, CutsShort
  <2> QED
    BY <1>0, <1>1, <2>1, <2>2
<1>9. CASE HandleWake
  <2>1. UNCHANGED <<phase, hand, cutShort>>
    BY <1>9 DEF HandleWake
  <2>2. LastWake => LastWake'
    BY <1>9, LastTaken
  <2> QED
    BY <1>0, <2>1, <2>2 DEF Attended
<1>10. CASE NewFile \/ StopNative \/ MusicChanges
  <2>1. UNCHANGED <<phase, hand, cutShort, rx, wakePause>>
    BY <1>10 DEF NewFile, StopNative, MusicChanges
  <2> QED
    BY <1>0, <1>1, <2>1 DEF Attended
<1>11. CASE UNCHANGED vars
  BY <1>0, <1>1, <1>11 DEF Attended
<1> QED
  BY <1>2, <1>3, <1>4, <1>5, <1>6, <1>7, <1>8, <1>9, <1>10, <1>11 DEF Next, Router

-----------------------------------------------------------------------------
(* The theorems.                                                            *)

IInv ==
  /\ CacheTypes /\ DialogTypes /\ OtherTypes /\ FlagTypes
  /\ HandInv /\ RoutedInv /\ OnceInv /\ NativeInv /\ FlagInv /\ PauseInv

LEMMA IInvAlways == Spec => []IInv
<1>1. Init => IInv
  BY InitInvs, Zenon DEF IInv
<1>2. IInv /\ [Next]_vars => IInv'
  <2> SUFFICES ASSUME IInv, [Next]_vars PROVE IInv'
    OBVIOUS
  <2>1. CacheTypes /\ DialogTypes /\ OtherTypes /\ FlagTypes
    BY Zenon DEF IInv
  <2>2. HandInv /\ RoutedInv /\ OnceInv /\ NativeInv /\ FlagInv /\ PauseInv
    BY Zenon DEF IInv
  <2>3. CacheTypes' /\ DialogTypes' /\ OtherTypes' /\ FlagTypes'
    BY <2>1, CacheStep, DialogStep, OtherStep, FlagTypeStep, Zenon
  <2>4. HandInv' /\ RoutedInv'
    BY <2>1, <2>2, HandStep, RoutedStep, Zenon
  <2>5. OnceInv' /\ NativeInv'
    BY <2>1, <2>2, OnceStep, NativeStep, Zenon
  <2>6. FlagInv' /\ PauseInv'
    BY <2>1, <2>2, FlagStep, PauseStep, Zenon
  <2> QED
    BY <2>3, <2>4, <2>5, <2>6, Zenon DEF IInv
<1> QED
  BY <1>1, <1>2, PTL DEF Spec

\* Type correctness: the cache never outgrows CacheSize and has no dialogue twice, and
\* what it marks of a dialogue goes when the dialogue goes (DialogCache).
THEOREM TypeCorrect == Spec => []TypeOK
<1>1. IInv => TypeOK
  BY DEF IInv, CacheTypes, DialogTypes, OtherTypes, FlagTypes, TypeOK
<1> QED
  BY <1>1, IInvAlways, PTL

\* A dialogue the cache remembers commands the music at most once: route_music, the
\* router's repeats and the playback controls together.
THEOREM OncePerDialogAlways == Spec => []OncePerDialog
<1>1. IInv => OncePerDialog
  BY DEF IInv, OnceInv, OncePerDialog
<1> QED
  BY <1>1, IInvAlways, PTL

\* Once the runs of native_stop_command have ended, no native music plays for a
\* dialogue the local music has answered.
THEOREM NoDoublePlaybackAlways == Spec => []NoDoublePlayback
<1>1. IInv => NoDoublePlayback
  BY DEF IInv, NativeInv, OtherTypes, NoDoublePlayback
<1> QED
  BY <1>1, IInvAlways, PTL

\* A wake's pause lasts, unless the end of another wake falls into it.
THEOREM WakeHoldsAlways == Spec => []WakeHolds
<1>1. IInv => WakeHolds
  <2> SUFFICES ASSUME IInv, Settled, NEW d \in Attended \ cutShort
               PROVE  wakeActive /\ wakePause
    BY DEF WakeHolds
  <2>1. wakeActive
    BY DEF IInv, FlagInv
  <2>2. hand.name # "RecognizeResult" /\ rx = <<>>
    BY DEF Settled, NoLine
  <2>3. LastWake
    BY <2>2 DEF IInv, PauseInv
  <2>4. wakePause
    BY <2>2, <2>3 DEF LastWake
  <2> QED
    BY <2>1, <2>4
<1> QED
  BY <1>1, IInvAlways, PTL
=============================================================================

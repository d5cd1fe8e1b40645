--------------------------- MODULE PlayUrlsProofs ---------------------------
(* Theorems about PlayUrls, for any songs and limits.                        *)
EXTENDS PlayUrls, FiniteSetTheorems, TLAPS

USE DEF limits, retry, vars

\* The times and the place, without the size of the cache
Times ==
  /\ now \in Nat /\ now > 0
  /\ pc \in {"idle", "gate", "primary", "backup", "kuwo"} /\ key \in Keys
  /\ wakeAt \in Nat /\ blockedUntil \in Nat /\ retryAfter \in Nat /\ retryAt \in Nat
  /\ lastPrimary \in {Never} \cup Nat /\ failedAt \in {Never} \cup Nat
  /\ overtaken \in BOOLEAN /\ broken \subseteq Keys

LEMMA CachedKey ==
  ASSUME NEW mid \in Mids
  PROVE  mid.key \in Keys
BY DEF Mids, Keys

\* What a call of resolve_url does to the limits and the place
LEMMA ResolveEffect ==
  ASSUME Times, NEW mid \in Mids, Resolve(mid)
  PROVE  /\ pc = "idle" /\ key' \in Keys /\ wakeAt' \in Nat /\ retryAfter' \in Nat
         /\ UNCHANGED lastPrimary
         /\ \/ pc' = "idle" /\ UNCHANGED <<blockedUntil, retryAfter>>
            \/ pc' = "kuwo" /\ UNCHANGED <<blockedUntil, retryAfter>>
            \/ pc' = "backup" /\ retryAfter' = blockedUntil - now /\ UNCHANGED blockedUntil
            \/ /\ pc' = "gate" /\ blockedUntil' = 0 /\ blockedUntil <= now
               /\ wakeAt' >= lastPrimary + MinInterval /\ UNCHANGED retryAfter
<1>1. key' \in Keys
  BY CachedKey DEF Resolve
<1> QED
  BY <1>1, LimitsAssumption DEF Times, Resolve, Gate, Cooling, Never

LEMMA TimesInductive ==
  ASSUME Times, [Next]_vars
  PROVE  Times'
<1>1. CASE Play \/ Retry
  <2>1. PICK mid \in Mids : Resolve(mid)
    BY <1>1 DEF Play, Retry
  <2>2. /\ UNCHANGED <<now, failedAt, broken>> /\ retryAt' \in {0, retryAt}
        /\ overtaken' = overtaken
    BY <1>1 DEF Play, Retry
  <2>3. blockedUntil' \in Nat /\ pc' \in {"idle", "gate", "primary", "backup", "kuwo"}
    BY <2>1, ResolveEffect DEF Times
  <2> QED
    BY <2>1, <2>2, <2>3, ResolveEffect DEF Times
<1>2. CASE Invalidate
  BY <1>2 DEF Times, Invalidate
<1>3. CASE AskPrimary \/ Tick
  BY <1>3 DEF Times, AskPrimary, Tick
<1>4. CASE PrimarySucceeds \/ BackupSucceeds \/ KuwoEnds
  <2>1. /\ UNCHANGED <<now, key, wakeAt, lastPrimary, retryAfter, retryAt, overtaken, failedAt>>
        /\ pc' = "idle" /\ blockedUntil' \in {0, blockedUntil} /\ broken' \subseteq broken
    BY <1>4 DEF PrimarySucceeds, BackupSucceeds, KuwoEnds, Found, BlockKept
  <2> QED
    BY <2>1 DEF Times
<1>5. CASE PrimaryFails
  <2>1. overtaken' \in BOOLEAN
    BY <1>5 DEF PrimaryFails
  <2> QED
    BY <1>5, <2>1, LimitsAssumption DEF Times, PrimaryFails, RetryLater
<1>6. CASE BackupFails
  <2>1. retryAt' \in Nat
    BY <1>6 DEF Times, BackupFails
  <2>2. overtaken' \in BOOLEAN
    BY <1>6, Zenon DEF Times, BackupFails
  <2> QED
    BY <1>6, <2>1, <2>2 DEF Times, BackupFails
<1>7. CASE UNCHANGED vars
  BY <1>7 DEF Times
<1> QED
  BY <1>1, <1>2, <1>3, <1>4, <1>5, <1>6, <1>7 DEF Next

LEMMA TimesInit == Init => Times
<1>1. Init => overtaken \in BOOLEAN
  BY DEF Init
<1> QED
  BY <1>1, LimitsAssumption DEF Init, Times, Never

LEMMA TimesAlways == Spec => []Times
BY TimesInit, TimesInductive, PTL DEF Spec

-----------------------------------------------------------------------------
(* The limits of the primary.                                               *)

\* A request that waits at the gate wakes after the interval, the cool-down of the last
\* failure is in force or over, and a request that passed it finds it over.
Limited ==
  /\ pc = "gate" => wakeAt >= lastPrimary + MinInterval
  /\ failedAt # Never => blockedUntil = failedAt + Cooldown \/ now >= failedAt + Cooldown
  /\ failedAt # Never /\ pc \in {"gate", "primary"} => now >= failedAt + Cooldown

LEMMA LimitedInductive ==
  ASSUME Times, Limited, [Next]_vars
  PROVE  Limited'
<1>1. CASE Play \/ Retry
  <2>1. PICK mid \in Mids : Resolve(mid)
    BY <1>1 DEF Play, Retry
  <2>2. UNCHANGED <<now, failedAt>>
    BY <1>1 DEF Play, Retry
  <2> QED
    BY <2>1, <2>2, ResolveEffect, LimitsAssumption DEF Times, Limited, Never
<1>2. CASE AskPrimary
  BY <1>2 DEF Limited, AskPrimary
<1>3. CASE PrimarySucceeds \/ BackupSucceeds \/ KuwoEnds
  <2>1. /\ UNCHANGED <<now, wakeAt, lastPrimary, failedAt>> /\ pc' = "idle"
        /\ blockedUntil' = blockedUntil \/ pc = "primary"
    BY <1>3 DEF PrimarySucceeds, BackupSucceeds, KuwoEnds, Found, BlockKept
  <2> QED
    BY <2>1 DEF Limited
<1>4. CASE PrimaryFails
  BY <1>4, LimitsAssumption DEF Times, Limited, PrimaryFails
<1>5. CASE BackupFails \/ Invalidate \/ UNCHANGED vars
  BY <1>5 DEF Limited, BackupFails, Invalidate
<1>6. CASE Tick
  <2>1. now' = now + 1 /\ UNCHANGED <<pc, wakeAt, limits, failedAt>>
    BY <1>6 DEF Tick
  <2> QED
    BY <2>1, LimitsAssumption DEF Times, Limited, Never
<1> QED
  BY <1>1, <1>2, <1>3, <1>4, <1>5, <1>6 DEF Next

LEMMA LimitedAlways == Spec => []Limited
<1>1. Init => Limited
  BY DEF Init, Limited
<1> QED
  BY <1>1, LimitedInductive, TimesAlways, PTL DEF Spec

\* Only a request at the gate asks the primary.
LEMMA Asked ==
  ASSUME Times, [Next]_vars, lastPrimary' # lastPrimary
  PROVE  pc = "gate" /\ now >= wakeAt
<1>1. CASE Play \/ Retry
  <2>1. PICK mid \in Mids : Resolve(mid)
    BY <1>1 DEF Play, Retry
  <2> QED
    BY <2>1, ResolveEffect
<1>2. CASE AskPrimary
  BY <1>2 DEF AskPrimary
<1> QED
  BY <1>1, <1>2 DEF Next, Invalidate, PrimarySucceeds, PrimaryFails, BackupSucceeds,
     BackupFails, KuwoEnds, Tick

\* Requests to the primary are spaced, for any songs and limits.
THEOREM Spaced == Spec => PrimarySpaced
<1>1. Times /\ Limited /\ [Next]_vars =>
        [lastPrimary' # lastPrimary => now >= lastPrimary + MinInterval]_vars
  <2> SUFFICES ASSUME Times, Limited, [Next]_vars, lastPrimary' # lastPrimary
               PROVE  now >= lastPrimary + MinInterval
    OBVIOUS
  <2> QED
    BY Asked, LimitsAssumption DEF Times, Limited, Never
<1> QED
  BY <1>1, TimesAlways, LimitedAlways, PTL DEF Spec, PrimarySpaced

\* The primary is left alone after a failure, for any songs and limits.
THEOREM LeftAlone == Spec => CooldownRespected
<1>1. Times /\ Limited /\ [Next]_vars =>
        [lastPrimary' # lastPrimary /\ failedAt # Never => now >= failedAt + Cooldown]_vars
  BY Asked DEF Limited
<1> QED
  BY <1>1, TimesAlways, LimitedAlways, PTL DEF Spec, CooldownRespected

-----------------------------------------------------------------------------
(* The retry.                                                               *)

\* An armed timer is due when the block is over or later, and so is the one that a
\* request at the backup would arm.
RetryAfterBlock ==
  /\ retryAt # 0 /\ ~overtaken => blockedUntil <= retryAt
  /\ pc = "backup" => blockedUntil <= now + retryAfter

LEMMA RetryInductive ==
  ASSUME Times, RetryAfterBlock, [Next]_vars
  PROVE  RetryAfterBlock'
<1>1. CASE Play \/ Retry
  <2>1. PICK mid \in Mids : Resolve(mid)
    BY <1>1 DEF Play, Retry
  <2>2. UNCHANGED <<now, overtaken>> /\ retryAt' \in {0, retryAt}
    BY <1>1 DEF Play, Retry
  <2> QED
    BY <2>1, <2>2, ResolveEffect DEF Times, RetryAfterBlock
<1>2. CASE PrimarySucceeds \/ BackupSucceeds \/ KuwoEnds
  <2>1. /\ UNCHANGED <<retryAt, overtaken>> /\ pc' = "idle"
        /\ blockedUntil' \in {0, blockedUntil}
    BY <1>2 DEF PrimarySucceeds, BackupSucceeds, KuwoEnds, Found, BlockKept
  <2> QED
    BY <2>1 DEF Times, RetryAfterBlock
<1>3. CASE PrimaryFails
  <2>1. retryAt' # 0 => overtaken'
    BY <1>3 DEF PrimaryFails
  <2>2. blockedUntil' <= now' + retryAfter'
    BY <1>3, LimitsAssumption DEF Times, PrimaryFails, RetryLater
  <2> QED
    BY <2>1, <2>2 DEF RetryAfterBlock
<1>4. CASE BackupFails
  BY <1>4 DEF Times, RetryAfterBlock, BackupFails
<1>5. CASE AskPrimary \/ Invalidate \/ Tick \/ UNCHANGED vars
  <2>1. /\ UNCHANGED <<retryAt, overtaken, blockedUntil, retryAfter>>
        /\ now' \in {now, now + 1} /\ (pc' = "backup" => pc = "backup")
    BY <1>5 DEF AskPrimary, Invalidate, Tick
  <2>2. retryAt' # 0 /\ ~overtaken' => blockedUntil' <= retryAt'
    BY <2>1 DEF RetryAfterBlock
  <2>4. pc = "backup" => blockedUntil <= now + retryAfter
    BY DEF RetryAfterBlock
  <2>5. now \in Nat /\ retryAfter \in Nat /\ blockedUntil \in Nat
    BY DEF Times
  <2>3. pc' = "backup" => blockedUntil' <= now' + retryAfter'
    <3> SUFFICES ASSUME pc' = "backup"
                 PROVE  blockedUntil' <= now' + retryAfter'
      OBVIOUS
    <3>1. blockedUntil <= now + retryAfter
      BY <2>1, <2>4
    <3>2. blockedUntil' = blockedUntil /\ retryAfter' = retryAfter
      BY <2>1
    <3>3. now' = now \/ now' = now + 1
      BY <2>1
    <3> QED
      BY <2>5, <3>1, <3>2, <3>3
  <2> QED
    BY <2>2, <2>3 DEF RetryAfterBlock
<1> QED
  BY <1>1, <1>2, <1>3, <1>4, <1>5 DEF Next

\* A retry finds the primary open, for any songs and limits.
THEOREM RetryIsWorthIt == Spec => []RetryFindsPrimaryOpen
<1>1. Init => RetryAfterBlock
  BY DEF Init, RetryAfterBlock
<1>2. Times /\ RetryAfterBlock => RetryFindsPrimaryOpen
  BY DEF Times, RetryAfterBlock, RetryFindsPrimaryOpen, Cooling
<1> QED
  BY <1>1, <1>2, RetryInductive, TimesAlways, PTL DEF Spec

-----------------------------------------------------------------------------
(* The cache.                                                               *)

Cached == cache \in [Keys -> Nat]

\* What a key's entry is after a step: what it was, nothing, or new if its URL was
\* found.
LEMMA CacheEffect ==
  ASSUME Times, Cached, [Next]_vars
  PROVE  /\ Cached'
         /\ \A k \in broken' : cache'[k] \in {0, cache[k]}
         /\ \A k \in broken' \ broken : cache'[k] = 0
<1>1. CASE Play \/ Retry
  <2>1. PICK mid \in Mids : Resolve(mid)
    BY <1>1 DEF Play, Retry
  <2>2. broken' = broken
    BY <1>1 DEF Play, Retry
  <2> QED
    BY <2>1, <2>2, CachedKey DEF Times, Cached, Resolve, CachedUrl, NoCachedUrl
<1>2. CASE PrimarySucceeds \/ BackupSucceeds \/ KuwoEnds
  <2>1. UNCHANGED <<cache, broken>> \/ Found
    BY <1>2 DEF PrimarySucceeds, BackupSucceeds, KuwoEnds
  <2>2. ASSUME Found
        PROVE  /\ Cached' /\ broken' = broken \ {key}
               /\ \A k \in Keys \ {key} : cache'[k] \in {0, cache[k]}
    <3>1. CASE UNCHANGED cache
      BY <2>2, <3>1 DEF Cached, Found
    <3>2. CASE ~(UNCHANGED cache)
      <4>1. PICK kept \in SUBSET Keys :
              cache' = [e \in Keys |-> IF e = key THEN now + TimeToLive
                                       ELSE IF e \in kept THEN cache[e] ELSE 0]
        <5> DEFINE fresh == {e \in Entries : Live(e)}
        <5>1. PICK drop \in SUBSET fresh :
                cache' = [e \in Keys |-> IF e = key THEN now + TimeToLive
                                         ELSE IF e \in fresh \ drop THEN cache[e] ELSE 0]
          BY <2>2, <3>2 DEF Found, CacheUrl
        <5>2. fresh \ drop \in SUBSET Keys
          BY DEF Entries
        <5> QED
          BY <5>1, <5>2
      <4>2. now + TimeToLive \in Nat
        BY LimitsAssumption DEF Times
      <4> QED
        BY <2>2, <4>1, <4>2 DEF Cached, Found
    <3> QED
      BY <3>1, <3>2
  <2> QED
    BY <2>1, <2>2 DEF Times, Cached
<1>3. CASE Invalidate
  <2>1. PICK mid \in Mids :
          /\ mid.key = key
          /\ cache' = [k \in Keys |-> IF k \in Invalidated(mid) THEN 0 ELSE cache[k]]
    BY <1>3 DEF Invalidate
  <2>2. broken' = broken \cup {key}
    BY <1>3 DEF Invalidate
  <2> QED
    BY <2>1, <2>2 DEF Times, Cached, Invalidated
<1>4. CASE AskPrimary \/ PrimaryFails \/ BackupFails \/ Tick \/ UNCHANGED vars
  BY <1>4 DEF Times, Cached, AskPrimary, PrimaryFails, BackupFails, Tick
<1> QED
  BY <1>1, <1>2, <1>3, <1>4 DEF Next

LEMMA BrokenInductive ==
  ASSUME Times, Cached, BrokenNotServed, [Next]_vars
  PROVE  BrokenNotServed'
<1>1. now' \in {now, now + 1}
  BY DEF Next, Play, Retry, Invalidate, AskPrimary, PrimarySucceeds, PrimaryFails,
     BackupSucceeds, BackupFails, KuwoEnds, Tick
<1>2. ASSUME NEW k \in broken'
      PROVE  ~(cache'[k] > now')
  <2>1. k \in Keys
    BY TimesInductive DEF Times
  <2>2. CASE cache'[k] = 0
    BY <1>1, <2>2 DEF Times
  <2>3. CASE cache'[k] # 0
    <3>1. k \in broken /\ cache'[k] = cache[k]
      BY <1>2, <2>3, CacheEffect
    <3>2. ~(cache[k] > now)
      BY <3>1 DEF BrokenNotServed, Live
    <3> QED
      BY <1>1, <2>1, <3>1, <3>2 DEF Times, Cached
  <2> QED
    BY <2>2, <2>3
<1> QED
  BY <1>2 DEF BrokenNotServed, Live

\* The URL of a player that crashed is not served again, for any songs and limits.
THEOREM NeverServedBroken == Spec => []BrokenNotServed
<1>1. Init => Cached /\ BrokenNotServed
  BY DEF Init, Cached, BrokenNotServed
<1> QED
  BY <1>1, CacheEffect, BrokenInductive, TimesAlways, PTL DEF Spec

-----------------------------------------------------------------------------
(* The size of the cache.  Whatever is written into it first makes room.     *)

Sized == IsFiniteSet(Entries) /\ Cardinality(Entries) <= MaxEntries

InTime == now \in 1..MaxTime

LEMMA FewerEntries ==
  ASSUME Sized, Entries' \subseteq Entries
  PROVE  Sized'
<1>1. IsFiniteSet(Entries) /\ Cardinality(Entries) \in Nat /\ Cardinality(Entries) <= MaxEntries
  BY FS_CardinalityType DEF Sized
<1>2. /\ IsFiniteSet(Entries') /\ Cardinality(Entries') <= Cardinality(Entries)
  BY <1>1, FS_Subset
<1>3. Cardinality(Entries') \in Nat
  BY <1>2, FS_CardinalityType
<1> QED
  BY <1>1, <1>2, <1>3, LimitsAssumption DEF Sized

LEMMA CacheUrlSized ==
  ASSUME Sized, NEW k \in Keys, CacheUrl(k)
  PROVE  Sized'
<1>1. CASE UNCHANGED cache
  <2>1. Entries' = Entries
    BY <1>1 DEF Entries
  <2> QED
    BY <2>1, FewerEntries
<1>2. CASE ~(UNCHANGED cache)
  <2> DEFINE fresh == {e \in Entries : Live(e)}
  <2>1. PICK drop \in SUBSET fresh :
          /\ Cardinality(drop) = IF Cardinality(fresh) >= MaxEntries THEN 1 ELSE 0
          /\ cache' = [e \in Keys |-> IF e = k THEN now + TimeToLive
                                      ELSE IF e \in fresh \ drop THEN cache[e] ELSE 0]
    BY <1>2 DEF CacheUrl
  <2>2. MaxEntries \in Nat /\ MaxEntries > 0
    BY <1>2, LimitsAssumption DEF CacheUrl
  <2>3. Entries' \subseteq (fresh \ drop) \cup {k}
    BY <2>1 DEF Entries
  <2>4. fresh \subseteq Entries
    OBVIOUS
  <2> HIDE DEF fresh
  <2>5. IsFiniteSet(Entries) /\ Cardinality(Entries) <= MaxEntries
    BY DEF Sized
  <2>6. IsFiniteSet(fresh) /\ Cardinality(fresh) <= Cardinality(Entries)
    BY <2>4, <2>5, FS_Subset
  <2>7. Cardinality(fresh) \in Nat /\ Cardinality(Entries) \in Nat
    BY <2>5, <2>6, FS_CardinalityType
  <2>8. /\ IsFiniteSet(fresh \ drop)
        /\ Cardinality(fresh \ drop) = Cardinality(fresh) - Cardinality(fresh \cap drop)
    BY <2>6, FS_Difference
  <2>9. fresh \cap drop = drop
    BY <2>1
  <2>10. Cardinality(fresh \ drop) + 1 <= MaxEntries
    <3>1. Cardinality(fresh \cap drop) = IF Cardinality(fresh) >= MaxEntries THEN 1 ELSE 0
      BY <2>1, <2>9
    <3> QED
      BY <2>2, <2>5, <2>6, <2>7, <2>8, <3>1
  <2>11. /\ IsFiniteSet((fresh \ drop) \cup {k})
         /\ Cardinality((fresh \ drop) \cup {k}) <= Cardinality(fresh \ drop) + 1
    <3>1. Cardinality(fresh \ drop) \in Nat
      BY <2>8, FS_CardinalityType
    <3>2. /\ IsFiniteSet((fresh \ drop) \cup {k})
          /\ Cardinality((fresh \ drop) \cup {k})
               = IF k \in fresh \ drop THEN Cardinality(fresh \ drop)
                 ELSE Cardinality(fresh \ drop) + 1
      BY <2>8, FS_AddElement
    <3> QED
      BY <3>1, <3>2
  <2>12. /\ IsFiniteSet(Entries')
         /\ Cardinality(Entries') <= Cardinality((fresh \ drop) \cup {k})
    BY <2>3, <2>11, FS_Subset
  <2>13. /\ Cardinality(Entries') \in Nat /\ Cardinality((fresh \ drop) \cup {k}) \in Nat
         /\ Cardinality(fresh \ drop) \in Nat
    BY <2>8, <2>11, <2>12, FS_CardinalityType
  <2>14. Cardinality(Entries') <= MaxEntries
    BY <2>2, <2>10, <2>11, <2>12, <2>13
  <2> QED
    BY <2>12, <2>14 DEF Sized
<1> QED
  BY <1>1, <1>2

LEMMA SizedInductive ==
  ASSUME Times, Cached, Sized, [Next]_vars
  PROVE  Sized'
<1>1. CASE Entries' \subseteq Entries
  BY <1>1, FewerEntries
<1>2. CASE Found
  BY <1>2, CacheUrlSized DEF Found, Times
<1>3. ASSUME NEW mid \in Mids, Resolve(mid)
      PROVE  Entries' \subseteq Entries
  BY <1>3 DEF Resolve, CachedUrl, NoCachedUrl, Entries, Cached
<1>4. CASE Invalidate
  <2>1. Entries' \subseteq Entries
    BY <1>4 DEF Invalidate, Entries
  <2> QED
    BY <2>1, FewerEntries
<1>5. CASE UNCHANGED cache
  <2>1. Entries' = Entries
    BY <1>5 DEF Entries
  <2> QED
    BY <2>1, FewerEntries
<1> QED
  BY <1>1, <1>2, <1>3, <1>4, <1>5 DEF Next, Play, Retry, AskPrimary, PrimarySucceeds,
     PrimaryFails, BackupSucceeds, BackupFails, KuwoEnds, Tick

\* The cache never outgrows its limit, also with more songs than entries and a limit
\* of none, and every time and place keeps its type.
THEOREM TypeCorrect == Spec => []TypeOK
<1>1. Init => Cached /\ Sized
  <2> SUFFICES ASSUME Init
               PROVE  Cached /\ Sized
    OBVIOUS
  <2>1. Cached /\ Entries = {}
    BY DEF Init, Cached, Entries
  <2>2. IsFiniteSet({}) /\ Cardinality({}) = 0
    BY FS_EmptySet
  <2> QED
    BY <2>1, <2>2, LimitsAssumption DEF Sized
<1>2. Init => InTime
  BY LimitsAssumption DEF Init, InTime
<1>3. InTime /\ [Next]_vars => InTime'
  BY LimitsAssumption DEF InTime, Next, Play, Retry, Invalidate, AskPrimary, PrimarySucceeds,
     PrimaryFails, BackupSucceeds, BackupFails, KuwoEnds, Tick
<1>4. Times /\ Cached /\ Sized /\ InTime => TypeOK
  <2> SUFFICES ASSUME Times, Cached, Sized, InTime
               PROVE  TypeOK
    OBVIOUS
  <2>1. /\ pc \in {"idle", "gate", "primary", "backup", "kuwo"} /\ key \in Keys
        /\ wakeAt \in Nat /\ blockedUntil \in Nat /\ retryAfter \in Nat /\ retryAt \in Nat
        /\ lastPrimary \in {Never} \cup Nat /\ failedAt \in {Never} \cup Nat
        /\ broken \subseteq Keys
    BY DEF Times
  <2>2. overtaken \in BOOLEAN
    BY DEF Times
  <2>3. cache \in [Keys -> Nat] /\ Cardinality(Entries) <= MaxEntries
    BY DEF Cached, Sized
  <2> QED
    BY <2>1, <2>2, <2>3, Zenon DEF TypeOK, InTime
<1> QED
  BY <1>1, <1>2, <1>3, <1>4, CacheEffect, SizedInductive, TimesAlways, PTL DEF Spec
=============================================================================

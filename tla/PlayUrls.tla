------------------------------ MODULE PlayUrls ------------------------------
(***************************************************************************)
(* Play URLs, QqMusic::resolve_url of services/music/qq.rs: a cache with a *)
(* time to live, a primary service that is asked at intervals and left     *)
(* alone after a failure, and a backup service.  Kuwo songs have two       *)
(* services of their own and neither limit.  The music actor asks for one  *)
(* URL at a time; it is reduced to what it does with the answer: play,     *)
(* invalidate the URL of a player that crashed, or retry after a delay.    *)
(* Time is counted in ticks; a request takes any number of them.           *)
(***************************************************************************)
EXTENDS Integers, FiniteSets

CONSTANTS
  QqKeys, KuwoKeys,  \* cache keys of the songs of either provider
  MinInterval,       \* play_url.primary_min_interval_ms
  Cooldown,          \* play_url.primary_failure_cooldown_ms
  TimeToLive,        \* play_url.cache_ttl_s
  MaxEntries,        \* play_url.cache_max_entries
  BackupEnabled,     \* play_url.backup_enabled
  MaxTime            \* bound: ticks in a behaviour

ASSUME KeysAssumption == QqKeys \cap KuwoKeys = {}
ASSUME LimitsAssumption ==
  /\ MinInterval \in Nat /\ Cooldown \in Nat \ {0} /\ TimeToLive \in Nat
  /\ MaxEntries \in Nat /\ BackupEnabled \in BOOLEAN /\ MaxTime \in Nat \ {0}

Keys == QqKeys \cup KuwoKeys

\* A song is named with its provider's prefix or, a QQ song, without.
Mids == [key : Keys, prefixed : {TRUE}] \cup [key : QqKeys, prefixed : {FALSE}]

Never == -MinInterval

VARIABLES
  now,            \* the clock
  pc,             \* where resolve_url is: idle, gate, primary, backup or kuwo
  key,            \* the key it resolves
  wakeAt,         \* when the gate's sleep ends
  lastPrimary,    \* last_primary_attempt
  blockedUntil,   \* primary_blocked_until
  retryAfter,     \* the delay a cool-down error would carry
  cache,          \* expires_at of the cached keys, 0 for the others
  retryAt,        \* when the actor's retry timer is due, 0 for none
  overtaken,      \* history: the primary failed after the timer was armed
  failedAt,       \* history: the primary's last failure, or Never
  broken          \* history: keys whose player crashed, until resolved again

limits == <<lastPrimary, blockedUntil>>
retry == <<retryAt, overtaken>>
vars == <<now, pc, key, wakeAt, limits, retryAfter, cache, retry, failedAt, broken>>

Init ==
  /\ now = 1
  /\ pc = "idle" /\ key \in Keys /\ wakeAt = 0 /\ retryAfter = 0
  /\ lastPrimary = Never /\ blockedUntil = 0
  /\ cache = [k \in Keys |-> 0]
  /\ retryAt = 0 /\ overtaken = FALSE
  /\ failedAt = Never /\ broken = {}

-----------------------------------------------------------------------------
(* The cache.                                                               *)

Live(k) == cache[k] > now
Entries == {k \in Keys : cache[k] # 0}

\* cached_url: an expired entry is dropped as it is found.
CachedUrl(k) == Live(k) /\ UNCHANGED cache
NoCachedUrl(k) == ~Live(k) /\ cache' = [cache EXCEPT ![k] = 0]

\* cache_url: drop what expired, then any entry if the cache is full
CacheUrlUnlimited(k) == cache' = [cache EXCEPT ![k] = now + TimeToLive]
CacheUrl(k) ==
  IF TimeToLive = 0 \/ MaxEntries = 0 THEN UNCHANGED cache
  ELSE LET fresh == {e \in Entries : Live(e)}
       IN  \E drop \in SUBSET fresh :
             /\ Cardinality(drop) = IF Cardinality(fresh) >= MaxEntries THEN 1 ELSE 0
             /\ cache' = [e \in Keys |->
                            IF e = k THEN now + TimeToLive
                            ELSE IF e \in fresh \ drop THEN cache[e] ELSE 0]

\* The key under which a name's URL is invalidated
InvalidatedAsNamed(mid) == IF mid.prefixed /\ mid.key \in QqKeys THEN {} ELSE {mid.key}
Invalidated(mid) == {mid.key}

-----------------------------------------------------------------------------
(* resolve_url.                                                             *)

Cooling == blockedUntil > now

GateOpen == wakeAt' = now
Gate ==
  wakeAt' = IF lastPrimary + MinInterval > now THEN lastPrimary + MinInterval ELSE now

\* primary_failed, and the delay of the error should the backup fail too
RetrySoon == retryAfter' = MinInterval
RetryLater == retryAfter' = Cooldown

\* The cache first, then the gate of the primary or, for Kuwo, its services
Resolve(mid) ==
  /\ pc = "idle"
  /\ key' = mid.key
  /\ \/ CachedUrl(mid.key) /\ UNCHANGED <<pc, wakeAt, limits, retryAfter>>
     \/ /\ NoCachedUrl(mid.key)
        /\ \/ /\ mid.key \in KuwoKeys
              /\ pc' = "kuwo"
              /\ UNCHANGED <<wakeAt, limits, retryAfter>>
           \/ /\ mid.key \in QqKeys /\ Cooling
              /\ pc' = "backup"
              /\ retryAfter' = blockedUntil - now
              /\ UNCHANGED <<wakeAt, limits>>
           \/ /\ mid.key \in QqKeys /\ ~Cooling
              /\ pc' = "gate"
              /\ Gate
              /\ blockedUntil' = 0
              /\ UNCHANGED <<lastPrimary, retryAfter>>

\* A URL was found, by whichever service.
Found ==
  /\ CacheUrl(key)
  /\ broken' = broken \ {key}
  /\ pc' = "idle"

AskPrimary ==
  /\ pc = "gate" /\ now >= wakeAt
  /\ lastPrimary' = now
  /\ pc' = "primary"
  /\ UNCHANGED <<now, key, wakeAt, blockedUntil, retryAfter, cache, retry, failedAt,
                 broken>>

PrimarySucceeds ==
  /\ pc = "primary"
  /\ blockedUntil' = 0
  /\ Found
  /\ UNCHANGED <<now, key, wakeAt, lastPrimary, retryAfter, retry, failedAt>>

PrimaryFails ==
  /\ pc = "primary"
  /\ blockedUntil' = now + Cooldown
  /\ RetryLater
  /\ failedAt' = now
  /\ overtaken' = (retryAt # 0)
  /\ pc' = "backup"
  /\ UNCHANGED <<now, key, wakeAt, lastPrimary, cache, retryAt, broken>>

\* resolve_backup
UnblockedByBackup == blockedUntil' = 0
BlockKept == UNCHANGED blockedUntil

BackupSucceeds ==
  /\ pc = "backup" /\ BackupEnabled
  /\ Found
  /\ BlockKept
  /\ UNCHANGED <<now, key, wakeAt, lastPrimary, retryAfter, retry, failedAt>>

\* No URL: the actor retains the song and arms its timer, unless it is armed,
\* or gives the queue up.
BackupFails ==
  /\ pc = "backup"
  /\ pc' = "idle"
  /\ \/ retryAt = 0 /\ retryAt' = now + retryAfter /\ overtaken' = FALSE
     \/ UNCHANGED retry
     \/ retryAt' = 0 /\ UNCHANGED overtaken
  /\ UNCHANGED <<now, key, wakeAt, limits, retryAfter, cache, failedAt, broken>>

\* resolve_kuwo_url: either of its services, or an error that is no cool-down
KuwoEnds ==
  /\ pc = "kuwo"
  /\ Found \/ (pc' = "idle" /\ UNCHANGED <<cache, broken>>)
  /\ UNCHANGED <<now, key, wakeAt, limits, retryAfter, retry, failedAt>>

-----------------------------------------------------------------------------
(* The actor.                                                               *)

\* The next song, of a new queue or of this one
Play ==
  /\ \E mid \in Mids : Resolve(mid)
  /\ \/ retryAt' = 0 /\ UNCHANGED overtaken
     \/ UNCHANGED retry
  /\ UNCHANGED <<now, failedAt, broken>>

\* The timer is due: the song at the head of the queue is resolved.
Retry ==
  /\ retryAt # 0 /\ now >= retryAt
  /\ \E mid \in Mids : Resolve(mid)
  /\ retryAt' = 0
  /\ UNCHANGED <<now, overtaken, failedAt, broken>>

\* invalidate_url, for the song of a player that crashed: the last one resolved
Invalidate ==
  /\ pc = "idle"
  /\ \E mid \in Mids :
       /\ mid.key = key
       /\ cache' = [k \in Keys |-> IF k \in Invalidated(mid) THEN 0 ELSE cache[k]]
  /\ broken' = broken \cup {key}
  /\ UNCHANGED <<now, pc, key, wakeAt, limits, retryAfter, retry, failedAt>>

Tick ==
  /\ now < MaxTime
  /\ now' = now + 1
  /\ UNCHANGED <<pc, key, wakeAt, limits, retryAfter, cache, retry, failedAt, broken>>

Next ==
  \/ Play \/ Retry \/ Invalidate
  \/ AskPrimary \/ PrimarySucceeds \/ PrimaryFails
  \/ BackupSucceeds \/ BackupFails \/ KuwoEnds
  \/ Tick

Spec == Init /\ [][Next]_vars

-----------------------------------------------------------------------------
(* Properties.                                                              *)

\* The cache stays within its limit.
TypeOK ==
  /\ now \in 1..MaxTime
  /\ pc \in {"idle", "gate", "primary", "backup", "kuwo"}
  /\ key \in Keys
  /\ wakeAt \in Nat /\ blockedUntil \in Nat /\ retryAfter \in Nat
  /\ lastPrimary \in {Never} \cup Nat /\ failedAt \in {Never} \cup Nat
  /\ cache \in [Keys -> Nat] /\ Cardinality(Entries) <= MaxEntries
  /\ retryAt \in Nat /\ overtaken \in BOOLEAN
  /\ broken \subseteq Keys

\* Two requests to the primary are at least the configured interval apart,
\* whether the first one failed, succeeded or was followed by the backup.
PrimarySpaced == [][lastPrimary' # lastPrimary => now >= lastPrimary + MinInterval]_vars

\* The primary is left alone for the cool-down after a failure, though songs are
\* resolved by the backup and by the cache meanwhile.
CooldownRespected ==
  [][lastPrimary' # lastPrimary /\ failedAt # Never => now >= failedAt + Cooldown]_vars

\* A URL whose player crashed is not served again from the cache, by whichever
\* of its names the song is asked for.
BrokenNotServed == \A k \in broken : ~Live(k)

\* A retry is worth it: when the timer is due the primary may be asked, unless
\* it failed after the timer was armed.
RetryFindsPrimaryOpen ==
  retryAt # 0 /\ now >= retryAt /\ ~overtaken => ~Cooling
=============================================================================

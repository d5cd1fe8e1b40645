# Verification of the open-xiaoai OH2P client

The client runs on a Xiaomi speaker and adds an AirPlay 1 receiver, music by
fixed phrases with a play queue, a status lamp and the routing of voice
commands to Home Assistant. It is one Rust process of a few tokio tasks and
threads that share an in-memory bus and talk over channels. This directory
holds TLA+ models of its components, TLC configurations that check them, and
proofs TLAPS checks.

Commands, from this directory: `tlasany M.tla` parses, `tlc -config X.cfg M`
runs the module that `PROJECT.json` names for X, `tlapm M.tla` checks the
proofs of `MusicActorProofs` (some minutes), `AirPlayProofs`,
`DialogRoutingProofs`, `InstructionLogProofs`, `LampProofs`, `PlayUrlsProofs`,
`SessionProofs` and `SupervisorProofs` (a minute or two each).

## 1. The system

| Component | State it keeps | Operations | Talks to |
| --- | --- | --- | --- |
| Music actor `services/music/service.rs` | queue, history, played MIDs, current track with its pauses and its ending, generation and queue epoch, failure and cool-down counters | ten commands, wake and dialogue events, AirPlay events, player exits, force kills, background songs, URL retries | its own mailbox; play URLs; player processes; the bus's music state and `is_active` |
| Player `music/player.rs` | one OS process per track | spawn, SIGSTOP/SIGCONT, SIGTERM, SIGKILL; a task that reaps it | reports its exit to the actor |
| Play URLs `music/qq.rs` | URL cache, last request to the primary, end of its cool-down | resolve, invalidate, for QQ and Kuwo songs | called by the actor, with awaits inside |
| Search, parser `music/qq.rs`, `music/command.rs` | none | search songs and lists; text to command | actor, router |
| Dialogue routing `services/routing.rs` | the last 64 dialogues with three marks each | recognition results, `Dialog.Finish`, native directives, new log file; Home Assistant and stop-native tasks | actor (commands, wake events), bus (wake flag), native player, Home Assistant |
| AirPlay `services/airplay.rs` | session count, a pipe to aplay per session | open, samples, close, on threads of the receiver | bus |
| Media bus `services/media.rs` | AirPlay flag and level, wake flag, music state | setters that store, one that also sends an event | all of the above, the LED controller, the native events |
| LED controller `services/led.rs` | last level, last music state, whether AirPlay had the lamp | a tick loop that runs shell commands | reads the bus, commands the lamp |
| Native events `services/native_events.rs` | times of the last key sound, key command and restore | lines of `ubus monitor`: key sound, toggle, shut | reads the bus; sends Pause/Resume; restores the lamp |
| Home Assistant client `services/home_assistant.rs` | none | health check, conversation | called by routing tasks |
| Client loop, message and RPC layer `bin/client.rs`, `services/connect/*`, `utils/task.rs` | connection, handler permits, named tasks | connect, init, read, answer, dispose, reconnect | recorder, RPC player, monitors |
| RPC player `services/audio/play.rs` | child, stdin, task and sender, each under its lock; a channel of 50 chunks | start, stop, play | handlers start and stop it, the client loop plays and stops it |
| Recorder `services/audio/record.rs` | state under a lock, capture process, reader task | start, stop, the reader's stop of itself | handlers, client loop, the connection |
| Monitors `services/monitor/*` | file position and what is read ahead, last value | tail the instruction log and the wake-word file, poll the play state | routing, the connection |
| Supervisor `init-ha.example.sh` | `$child`, `$lab_enabled`; the files `pns` and `ready` | start, watch, switch the native assistant, clean up, trap | the client's start, the native assistant |

`PROJECT.json` lists every component, also configuration, shell helpers and the
monitor binary, with what is modelled of it.

What is hard:

* **Order.** The actor's commands, a dying player's report, its own delayed
  messages and the background searches meet in one mailbox in any order. A
  track that is ending still occupies the actor until its exit is reported.
* **Awaits.** A search or a play URL takes seconds, in which the mailbox fills
  up and other tasks read flags the actor last wrote before them.
* **Overlapping pauses.** The user, a wake and AirPlay pause independently, and
  pauses begin and end while no track exists, while one ends or starts.
* **Timers.** Force-kill timers and cool-down timers outlive what they were
  armed for.
* **Threads.** AirPlay sessions change a count, a flag and a channel in three
  steps without a lock.
* **Handlers on other threads.** Requests of the server run concurrently on
  devices whose parts have locks of their own, and a lost connection aborts
  them anywhere, without waiting for the one that just runs.
* **Reading what is being written.** The log is tailed while the native
  assistant writes it in parts and truncates it.
* **Signals between commands.** The supervisor script may be terminated between
  any two of its commands, and its client may crash at any.
* **Tasks that outlive their dialogue.** One wake flag serves all dialogues.
* **A shared lamp.** Three parties command it and none reads it back.

What makes each component correct: one player at a time, pauses and lamp state
that agree with the process, no stranded queue, stops that are final (actor); a
bounded cache that serves no broken URL and a spaced primary (play URLs); one
command per dialogue, no double playback, a wake that lasts for its dialogue
and no longer (routing); flag, events and level that agree (AirPlay); a lamp
that settles on what plays (LED); devices whose parts agree, nothing left of a
lost connection, a way back to a new one (client, player, recorder); every line
routed once, in order (log); a native assistant that is reduced to recognition
only for an accepted client and restored after it (supervisor). `PROJECT.json`
names the hazards line by line; where the code lets one happen, or a property
excepts an outcome, its note says so.

## 2. The modules

**MusicActor** is the core: the actor, the processes it drives and the tasks
and timers it spawns. The actor runs each handler to completion, so a handler
without an await is one action, its trailing `update_active` and LED write
included; an await leaves `pc` at `searchSong`, `searchList` or `starting`.
Every iteration of `start_next_with_retry` is one step (`SkipPlayed`,
`StartPlayer`, `CoolDown`, `CoolDownExhausted`, `StartFailed`,
`QueueExhausted`). Each command, message and media event has its action
(`Execute*`, `Exit*`, `RetryAfterExit`, `TrackEnded`, `Handle*`). A song is a
model value. `Outcomes` says what URL and spawn may answer, `Heeded` which wake
and AirPlay events the configuration pauses and resumes for (`Heed`). `pausedBy` is the
set of the three booleans of a track, `pauseActive` that of the actor's two. A
process is its generation, in `live`, `stopped` and `killed`; a stopped one
does not act on SIGTERM. `kicks` are the tasks of `stop_current` that report
generation 0 to restart an idle actor. `intent` and `crashes` are histories.

**PlayerLease** is what the actor promises about the loudspeaker: leases with
new generations, one at a time, and a doomed one is given back. `MusicActor`
instantiates it as `Lease` (holder: the generation of the live process, doomed:
a live process whose track was told to end); `LeaseSafety` and `LeaseSpec` are
its safety part and all of it.

**AirPlaySessions** has the sessions' threads, with `set_airplay_active` as its
three steps (swap, send, reset of the level), and the actor reduced to its
AirPlay pause under the default policies. **MediaBus** is the abstract bus, where the flag and the events
tell one story; `BusSpec` is the refinement, with a swapped flag whose event is
not yet sent counted as sent.

**DialogRouting** has the speaker's dialogues, the router with `process` in the
steps its awaits and tasks allow, the cache, the Home Assistant and stop-native
tasks, and the actor reduced to its wake pause under the default policies. A directive is written, acted
on by the native player and routed in one step; the stop that follows is a task.

**PlayUrls** is `resolve_url` over discrete time. Requests take any number of
ticks; the gate's sleep ends no earlier than its time. The order in which the
code drops cache entries over the limit is a choice.

**LampControl** has the lamp, the LED controller with every command as two
steps (decision, effect), the monitor that reads the line of every shut, the
controller's own included, and the restore tasks. The example configuration
is built in: one level command, a restore delay (250 ms) above the debounce
(200 ms). `debouncing` ends before the restore that set it is `due`, which is
all the model needs of those two times. The bus's values change freely: an
over-approximation of what the actor, AirPlay and the router do.

**Session** is `bin/client.rs` with its message layer: the main task connects,
reads a message at a time (`Accept`, `AwaitPermit`, `ReadStream`), notices the
loss and disposes, place by place; each request has a handler, and a handler
that is `free` is a permit. It extends **ClientTasks** (the places of a task),
**RemotePlayer** (the four slots of the player, every lock a step) and
**Recorder** (one lock from end to end, so fewer steps), and adds what an abort
lets go of: `DropStarts`, `DropStops`. `doomed` are the handlers that are
aborted while they run on another thread: they make further steps of their
program until `Aborted`. A send takes room in the connection or fails without
one; `unsent` that stays full is a server that reads nothing. A command of
`run_shell` need not end. By the time a new connection is made no aborted
handler runs any more: a handshake takes several round trips.

**InstructionLog** is the monitor of the instruction log with the file, its
writer and the way of each line through `main`'s closure: routed first, sent
then. The file is a sequence of pieces, each the bytes of one write: a whole
line or the head and the tail of one. `buffer` is what `BufReader` has fetched
beyond `position`; `Fill` fetches any part of what is there, `ReadLine` takes up
to the end of a line or of the file, and `ReadNothing` is the seek that drops
what is left, also of a part that ends inside a character, on which `read_line`
fails. What was fetched before a truncation is still read after it.

**Supervisor** is the script command by command, with the trap between any two,
the part of `main` that the script waits for (ready file removed, health check
with its attempts, ready file published), and the native assistant that reads
its mode when its service restarts. A client that died is a zombie that
`kill -0` still finds until the shell waits for something.

The `MC*` modules add the symmetry sets and model values TLC uses,
the `*Proofs` modules the theorems.
Definitions such as `ReceiveAnyExit` or `LedShutSooner` that no action
uses are mistakes a change of the code could make; `PROJECT.json` says which
property each would violate.

## 3. The runs

| Run | What it asks | Instance | Distinct states |
| --- | --- | --- | --- |
| `music_pauses` | the pauses of a track are those in force and its process is stopped exactly then; silence under AirPlay; the music state follows the player; the lease is given back | one song, four requests out of Play, Next, Pause, Resume, wake and finish, an AirPlay session, three players, fairness | 0.5 M |
| `music_queue` | one player, its exit on its way, `is_active`, timers for scheduled retries, stranded queues only as section 6 says, final stops, the lease's safety | two songs, three requests out of Play, Next, Previous, Stop, every outcome of a URL, three players | 5.9 M |
| `music_orders` | lists, shuffle, repeat, Previous and Next lose no song; crashes are counted | two songs, lists of two, four requests, three players, AirPlay ends not heeded | 1.9 M |
| `airplay` | arbitration and `MediaBus` until sessions overlap, the bus at rest in any case | three sessions, two clients, three events in the channel | 10 k |
| `routing` | one command per dialogue, no double playback, the wake holds | two dialogues, a cache of one, Home Assistant, two lines each, repeated results | 0.82 M |
| `routing_assistant` | every wake ends | three dialogues, Home Assistant, one line each, fairness | 0.37 M |
| `play_urls` | interval, cool-down, cache limit, broken URLs, the retry's time | three songs of two providers, a cache of two, eight ticks | 1.3 M |
| `lamp` | the lamp comes on and goes off, keys | two shuts and restores at once, two touches, fairness | 0.54 M |
| `session` | the parts of player and recorder agree between operations; nothing of a lost connection goes on; the client gets back to connecting | two handlers, two player processes, three messages of the server, two connections, fairness | 1.06 M |
| `voice` | every line is routed once, in order and in the end | four lines, two truncations, fairness | 0.14 M |
| `supervisor` | when the native assistant is reduced and restored; who answers is agreed; what a terminated script leaves | four clients, two runs of the script, two attempts, fairness | 0.12 M |
| `music_retained` | a statement of the documentation that the code does not keep (section 6) | two songs, three requests | stops at the violation |

**Why the bounds are enough.** Three players are what the longest interaction
needs: one that exits late, its successor, and one started by a retry or a
switch. Three or four requests let a switch, a stop and a new queue meet in
every order. Two songs tell "this song" from "another", lists of two make
shuffles and repeats differ. A cache of one dialogue evicts at the second. Two
clients suffice for an overlap, the third session lets one come back. The
interval, cool-down and lifetime of `PlayUrls` (2, 3 and 4 ticks) differ, and
eight ticks hold two failures with a retry between. The lamp needs two shuts,
one debounced by the other. Two handlers and the main task are two starts and a
stop, or two stops and a start, at once; three messages fill both permits and
have one more wait for them, in the first connection or over both. With three
players or four messages (2.6 and 7.6 million states) the safety properties of
`session` hold as well, and so they do if an aborted handler may outlive the
handshake (2.6 million). Four lines and two truncations let a file grow past
the monitor's position after each truncation, with a line in parts before and
after. Four clients and two runs of the script are a crash and a restart in
each. Symmetry is used for songs, dialogues and URL keys
in runs without liveness properties, of which `music_pauses` has one song and no
symmetry. All state machines may stop: users fall
silent and bounds run out, so no run checks deadlock; what must go on is stated
as a liveness property or as an invariant on what is under way
(`ExitOnItsWay`, `RetryScheduledHasTimer`).

`CrashesCounted` is checked where no song is retained for a cool-down: there a
crashed player's retry may become a retained song, which its timer drops as
played and whose retries nobody remembers, so that the next song's crash comes on
top (TLC finds it with one failure allowed for). `SongsKept` owes nothing to a
track that is ending for a new queue, for Previous or for Stop, and is checked
where every URL resolves: a cool-down whose retries are exhausted empties the
queue and counts no failure (TLC finds it when the primary may cool down).

**Fairness.** tokio polls every task that is ready and `select!` picks among
ready channels at random, so weak fairness is assumed of the actor's handlers
per channel, of its steps after an await (every HTTP request has a timeout), of
timers and of spawned tasks. SIGKILL ends a process, stopped or not. A request
to Home Assistant has a timeout, and the speaker finishes the dialogues it
opens. The LED controller's interval ticks, its commands end and the monitor
reads the lines it has. The main task, every handler and the player's task go
on (`Session`), the monitor goes on and a line that is begun is ended
(`InstructionLog`), and the shell goes on with its script (`Supervisor`).
`LinesRouted` needs moreover that the server reads what it is sent: without
`WF(ServerReads)` TLC finds the monitor waiting for room with a line unrouted
(section 6). Nothing is assumed of users, AirPlay senders, the native system, of
players reaching the end of their song, of the server or of shell commands in
`Session`, or of how fast a client of the script starts.

## 4. The proofs

Every safety property that a passing run checks, invariant or action property,
is also a theorem, and so are both refinements (`LeaseSafety`, `BusSpec`). They
hold for every value of the constants that meets the named assumptions of the
module: limits and bounds are natural numbers, and "none" values are none of the
things they stand beside. The runs show the same formulas on small instances;
what is not inductive in them is strengthened in the proof modules, and the
strengthened invariants were model-checked before they were proved.

### The actor: `MusicActorProofs`

* `Typing`: `TypeOK` is inductive as it stands; one lemma per group of actions,
  on lemmas about what the helpers (`SetPause`, `StopCurrent`, `Ordered`,
  `Results`, `Return`) keep.
* `OnePlayer`: `SinglePlayer` is not inductive. It needs that no track exists
  while a start is under way, that generations only grow, and that an exit in
  the mailbox is of a process that is gone: `PlayerAccounting`. `Accounting`,
  the conjunction, is inductive relative to `TypeOK`. The proof sorts the
  actions: most leave `SamePlayer` alone (`QuietStep`), the others are exits,
  starts and kills. All theorems below use `TypeOK` and `Accounting`.
* `LeaseRefinement`: each step from an `Accounting` state is a step of
  `PlayerLease` or leaves the lease alone. It is carried along with `Accounting`
  (`Accounted`), since both ask the same of each action.
* `PausesHold`: `PauseHeld` is inductive relative to these: they tell that the
  process a new track is given is new and not stopped.
* `ExitsArrive` rests on four lemmas that the later proofs share: what a step
  does to the mailbox (`MailStep`: it keeps every message but the one its
  handler takes), which handler takes which message (`HandlerOf`), what becomes
  of the track (`TrackStep`) and of the live processes (`LiveStep`).
* `LedFollows`: `LedFollowsPlayer` is inductive, since the one signal that does
  not reach a process (it is reaped, its exit is in the mailbox) changes the
  track's pauses and not the LED, and the invariant asks nothing then.
* `SilentWhileAirPlay`: the last event in the channel, or the pause if there is
  none, agrees with the flag (`BusInv`), as far as the configuration heeds the
  event (`BusHeeded`); the rest is `PauseHeld` and `SinglePlayer`.
* `RetriesArrive`: a scheduled retry's timer or message is lost only to a new
  epoch, and whoever changes the epoch clears the flag (`TimersStep`,
  `RetryKept`).
* `NothingStrands`: a queue that lies idle after a step did so before it, or was
  left by the exit of a stopped track: whoever puts a queue in place or drops the
  track starts it, kicks, or leaves a timer (`StrandStep`). The attempt to prove
  an earlier form, which looked at `pc = "select"` only, failed for a good
  reason: the stranded queue of section 6 is counted again when the search of a
  later command fails.
* `ActiveFlag`: that a track implies the flag, and that it agrees during searches
  too (`ActiveInv`).
* `StopStands`: searches and answers carry an epoch no newer than the queue's
  (`EpochInv`), and after a Stop an older one; the queue is empty, and the track,
  if any, is told to end (`StopInv`).
* `CrashesAreCounted` assumes that the primary does not cool down: see section 3.
  Each failure pays for the retries and the exit that ended them, and the retries
  of the song that plays or is being started again pay for the rest (`CrashInv`).
* `SongsAreKept` assumes that every play URL resolves. A song may be dropped from
  the queue because it was played; it is then in the history, or plays, or is the
  head for a retry (`PlayedInv`). With cool-downs the property does not hold
  (section 3). With URLs that fail TLC finds no loss on the small instance, but
  `PlayedInv` does not hold: a song whose retry gets no URL stays in
  `played_mids` and is neither played, nor queued, nor in the history.

### AirPlay: `AirPlayProofs`

For any set of sessions, infinite ones too, and any number of clients.

* `TypeCorrect` needs that the count is the number of the sessions between their
  init and their drop (`CountInv`).
* `BusComesToRest`, which excepts no overlap: a session that will still take them
  down exists while the flag or the level is up (`RestInv`).
* `MusicGivesWayAlways`: until sessions overlap, one that changes the bus is the
  only one there is, the flag is up between the two swaps, and the last event the
  actor took or will take is the one the sessions announced (`StoryInv`).
* `ImplementsMediaBus`: every step maps to a step of `MediaBus` or a stutter, by
  the same invariant; the swap is the abstract change, the send a stutter.

### Routing: `DialogRoutingProofs`

For any number of dialogues and lines and any size of the cache.

* `TypeCorrect`: the order of the cache has no duplicates, and its three marks are
  of dialogues it holds.
* `OncePerDialogAlways`: a dialogue that is not forgotten and whose text is known
  was routed, unless the line is in the router's hand (`RoutedInv`), and who
  executes a command has claimed the dialogue (`OnceInv`).
* `NoDoublePlaybackAlways`: native music for a dialogue that was answered implies
  a stop that has not run (`NativeInv`).
* `WakeHoldsAlways`: `WakeHolds` speaks of settled states. In between, the last
  message the actor has taken or will take is the wake's start, or the router has
  it in hand (`PauseInv`).

### The lamp: `LampProofs`

For any number of shuts and touches. `OneCommandPerTouchAlways`: a sound not used
up by a toggle is a touch without a command (`TouchInv`). `TypeCorrect` bounds the
restores that still sleep by one, because a shut within the debounce is dropped
(`DebounceInv`).

### The client: `SessionProofs`

For any number of handlers, player processes, messages and connections.

* `TypeCorrect`, with the places each task may be at (`PlacesInv`).
* `PlayerAgreesAlways`: `PlayerAgrees` speaks of quiet states. The strengthening
  says what each place of a start may rely on, for any number of starts at once
  (`PlayInv`), and what a stop has emptied (`StopInv`), until they cross.
* `RecorderAgreesAlways`: between the two halves of a stop the lock is held by
  who kills the capture (`StateLockInv`, `RecordInv`).
* `QuietWhenDisconnectedAlways`: from the dispose on, the handlers left are those
  being aborted (`DisposeInv`), and unless one outran its abort every slot the
  main task has emptied stays empty (`EmptiedInv`).

### The log: `InstructionLogProofs`

For any number of lines, truncations and messages in the connection.

* `Typing`, with the shape of the file: lines in order, the last one the last
  written, a head followed by its tail (`FileShape`).
* `RoutedInOrder`: `InOrder` is not inductive. The strengthening orders three
  stages: what is unfetched is later than what is in the buffer, and both are
  later than what was routed or is in hand (`BufferOrder`, `RoutedOrder`). After
  a truncation that is not noticed yet the whole file is unfetched. The step that
  needs care is the seek that drops a fetched head: what stood behind the
  position may be another line by then, but no earlier one.
* `NoneLost`: until a truncation escapes the monitor its buffer holds what comes
  next in the file, and what it has passed it has routed or has in hand
  (`LossInv`).
* Both rest on `Drained`: nothing is in the buffer when the size is looked at.

### The supervisor: `SupervisorProofs`

For any number of clients, runs and attempts.

* `Agreement`: `ModesAgree` is not inductive; `ModeInv` ties the mode file,
  `$lab_enabled` and the native mode together at every command.
* `CleanExit`: a client that lives and is no orphan was just forked, or is
  `$child` while the script watches or kills it (`Attended`).
* `AcceptedFirst`: a ready file means that a client was accepted, and the current
  one unless there is an orphan (`ReadyInv`).

### Play URLs: `PlayUrlsProofs`

For any songs, limits and length of the run.

* `Spaced`, `LeftAlone`: what waits at the gate wakes after the interval, and the
  block of the last failure is in force or over; behind the gate it is over
  (`Limited`). Only a request at the gate asks the primary (`Asked`).
* `RetryIsWorthIt`: a timer armed since the last failure is due no earlier than
  the block ends, and the delay a request at the backup carries is no shorter
  (`RetryAfterBlock`).
* `NeverServedBroken`: an entry that grows is that of a key just resolved, which
  is broken no more (`CacheEffect`).
* `TypeCorrect`: the size of the cache. `cache_url` drops what expired and one
  entry more if the rest is at the limit, so that the new one fits; the proof
  counts with the theorems on finite sets and needs no bound on the songs.

### Only model-checked

* The liveness properties `MusicFollowsAirPlay`, `LampComesOn`, `LampGoesOff`,
  `WakeEnds`, `ReconnectsAfterLoss`, `LinesRouted`, `FailOpen` and the fairness of
  `LeaseSpec`: liveness and `ENABLED` are out of the prover's reach.
* `SongsKept` with failing URLs (two songs and four requests, outside the listed
  runs). `CrashesCounted` and `SongsKept` do not hold with cool-downs (section 3).
* What shuffling computes by induction: `ShufflesType` and `RangeOfShuffle` need
  only that a shuffle permutes.

## 5. Not modelled, and plan

Abstracted for good: HTTP and JSON, the encoding of messages, PCM conversion and
levels, the words of the command grammar, shell commands' text and their failure
(the lamp's commands succeed, the supervisor's may fail), the reuse of a reaped
PID.

Not modelled:

* Configuration, shell and random helpers, the monitor binary, the event bus and
  `speaker.rs`: data, pure input and output, or code the client does not run.
* Calls of the client to the server (`call_remote`, `pending_requests`): nothing
  the client runs makes one.
* Which changes the playing and the wake-word monitor report, and that the
  latter panics on a part of a line (`kws.rs:52`): no state depends on it but
  what the server is told. `Session` has their start, their events and their end.
* An `aplay` that fails while it plays, a `SIGKILL` of the script, which runs no
  trap, and a buffer of `BufReader` (8 KB) that ends inside a line.
* In the LED controller, commands that fail (`led.rs:80`).

Planned, in this order:

1. **Composition**: the key's commands followed into `MusicActor`
   (`native_events.rs:107`), routing with the actor's real mailbox.
2. **Proofs**: that the steps of the composed modules are steps of their parts.

## 6. Where the code and its documentation differ

Shown by a run that ends in a violation:

* `music_retained`: a song retained for a cool-down after its player crashed is
  already in `played_mids`; the timer's retry starts at count 0 and drops it
  (`service.rs:629`). `README.md:14` says the current MID is retained.

Met while modelling, and stated as the exception of a property:

* A Play handled between a Stop and the exit of the stopped player is put in the
  queue, `stop_current` returns early because the track is already ending, and
  the exit of a stopped track starts nothing (`service.rs:564`).
  `MUSIC-PLAN.md:22` promises immediate playback. `NoStranding` says that this is
  the only way to strand a queue.
* The task that routed an earlier dialogue to Home Assistant ends the wake of the
  one in progress (`routing.rs:231`), against `MUSIC-PLAN.md:34`; so does the
  Finish of an earlier dialogue. `WakeHolds` excepts the dialogues `cutShort`.
* Two AirPlay clients (`max_clients` above its default of 1): a session that
  opens while the last one closes can end with the flag down and both audible
  (`airplay.rs:180`), and events sent in the other order than their swaps leave
  the music paused (`media.rs:49`). `MusicGivesWay`, `MusicFollowsAirPlay` and
  `BusSpec` except states after an overlap.
* A recognition result repeated after Home Assistant's answer starts a wake
  whose Finish is deferred to a task that is gone (`routing.rs:119`); `WakeEnds`
  is checked with one result per dialogue.
* A user pause is a property of the track: the track after a Next, a retry or a
  natural end plays (`service.rs:658`). `PauseHeld` covers wakes and AirPlay.
* A restore of the lamp whose command runs when the music pauses leaves it on,
  and so does one for music that came and went between two ticks
  (`native_events.rs:179`); a shut the monitor drops because the music is paused
  at that moment, by a wake for instance, is repaired by nobody if the
  controller does not see that pause (`led.rs:39`). `LampComesOn` and
  `LampGoesOff` except exactly these.
* A server that keeps the connection but reads nothing holds up the routing of
  voice commands, which has nothing to do with it: the instruction monitor waits
  for room before it reads the next line (`client.rs:301`). `LinesRouted` holds
  under `Spec`, not under `LocalSpec`.
* A line read while it is being written is handed on in two parts, neither of
  which parses, and a truncation after which the file grows past the old position
  within one pause of the monitor is not seen (`file.rs:75`). `NothingLost` and
  `LinesRouted` except these lines (`torn`, `unnoticed`).
* The recorder's reader that finds its capture stalled aborts itself in
  `stop_recording`; if the process is still to be waited for, the state stays
  Recording and a start does nothing until there is another stop
  (`record.rs:111`). A start of the player crossed by a stop reports success for
  a player that is gone (`play.rs:60`), and a start or stop that an abort cuts
  short leaves its slots half filled until the next stop. `RecorderAgrees` and
  `PlayerAgrees` except these (`halted`, `crossed`).
* A handler that runs on another thread when the connection is disposed of may
  start a device after the main task has stopped it (`message.rs:81`).
  `QuietWhenDisconnected` excepts it (`outran`). 32 shell commands that never end
  keep the client from seeing the end of its connection (`message.rs:192`), the
  exception of `ReconnectsAfterLoss`.
* A termination of the script between `&` and `child=$!` leaves a client nobody
  knows of, which may publish the ready file for the next run; and a restart of
  the native service that fails is ignored (`|| true`), so that its mode and the
  file disagree. The properties of `supervisor` except these (`orphans`, `stuck`).

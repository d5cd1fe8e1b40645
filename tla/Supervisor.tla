------------------------------ MODULE Supervisor ------------------------------
(***************************************************************************)
(* The shell script that supervises the client (init-ha.example.sh) and    *)
(* the start of the client as far as it concerns the script (bin/client.rs,*)
(* services/home_assistant.rs).  The native assistant answers by itself    *)
(* ("full") or only recognises speech and leaves the answers to the client *)
(* ("asr"); which one is read from the file pns when its service restarts, *)
(* and the client routes to Home Assistant while that file exists.  The    *)
(* client publishes the file ready once Home Assistant has accepted it.    *)
(*                                                                         *)
(* The script is a sequence of commands, between any two of which the trap *)
(* for a termination signal may run.  A client that is gone is a zombie,   *)
(* still found by kill -0, until the shell waits for a command.            *)
(***************************************************************************)
EXTENDS Naturals, FiniteSets

CONSTANTS
  MaxClients,  \* bound: clients started in a behaviour
  MaxRuns,     \* bound: runs of the script in a behaviour
  Attempts     \* startup_retry_attempts

ASSUME SupervisorAssumption ==
  MaxClients \in Nat /\ MaxRuns \in Nat \ {0} /\ Attempts \in Nat \ {0}

Clients == 1..MaxClients
NoClient == 0

Loop == {"sweep", "fork", "record", "reset", "watch", "check", "mark", "flag", "restart",
         "pause", "wait", "forget", "sleep"}
Cleanup == {"cleanFiles", "cleanMode", "cleanFlag"}
Places == Loop \cup Cleanup \cup {"kill", "reap", "exited"}

VARIABLES
  at,          \* the next command of the script
  exiting,     \* the trap runs
  child,       \* $child
  labEnabled,  \* $lab_enabled
  pns, ready,  \* the files exist
  native,      \* the mode of the native assistant
  stage,       \* how far each client has come
  attempt,     \* its health checks
  started,     \* clients started
  runs,        \* runs of the script
  accepted,    \* history: clients that Home Assistant accepted
  orphans,     \* history: clients the script lost track of
  stuck        \* history: a restart of the native service failed

scriptVars == <<at, exiting, child, labEnabled, runs>>
histories == <<accepted, orphans, stuck>>
vars == <<scriptVars, pns, ready, native, stage, attempt, started, histories>>

Stages == {"none", "starting", "checking", "accepted", "serving", "local", "zombie", "gone"}
Alive(c) == stage[c] \in {"starting", "checking", "accepted", "serving", "local"}

\* The values of the variables; a client is recorded after it was forked.
TypeOK ==
  /\ at \in Places /\ child \in Clients \cup {NoClient}
  /\ {exiting, labEnabled, pns, ready, stuck} \subseteq BOOLEAN
  /\ native \in {"full", "asr"}
  /\ stage \in [Clients -> Stages] /\ attempt \in [Clients -> 0..Attempts]
  /\ started \in 0..MaxClients /\ runs \in 1..MaxRuns
  /\ accepted \subseteq Clients /\ orphans \subseteq Clients
  /\ at = "record" => started # 0

\* After a boot: the files are in a file system that is empty then.
Init ==
  /\ at = "sweep" /\ exiting = FALSE /\ child = NoClient /\ labEnabled = FALSE /\ runs = 1
  /\ pns = FALSE /\ ready = FALSE /\ native = "full"
  /\ stage = [c \in Clients |-> "none"] /\ attempt = [c \in Clients |-> 0] /\ started = 0
  /\ accepted = {} /\ orphans = {} /\ stuck = FALSE

Goes(from, to) == at = from /\ at' = to

\* What a shell that waits for a command finds of the clients that are gone
Reaped == [c \in Clients |-> IF stage[c] = "zombie" THEN "gone" ELSE stage[c]]

\* /etc/init.d/mico_aivs_lab restart || true
RestartNative ==
  /\ \/ native' = (IF pns THEN "asr" ELSE "full") /\ UNCHANGED stuck
     \/ stuck' = TRUE /\ UNCHANGED native
  /\ stage' = Reaped

-----------------------------------------------------------------------------
(* The script.                                                              *)

Sweep ==
  /\ Goes("sweep", "fork")
  /\ pns' = FALSE /\ ready' = FALSE
  /\ UNCHANGED <<exiting, child, labEnabled, runs, native, stage, attempt, started, histories>>

Fork ==
  /\ Goes("fork", "record") /\ started < MaxClients
  /\ started' = started + 1
  /\ stage' = [stage EXCEPT ![started + 1] = "starting"]
  /\ UNCHANGED <<exiting, child, labEnabled, runs, pns, ready, native, attempt, histories>>

\* child=$!
Record ==
  /\ Goes("record", "reset")
  /\ child' = started
  /\ UNCHANGED <<exiting, labEnabled, runs, pns, ready, native, stage, attempt, started, histories>>

Reset ==
  /\ Goes("reset", "watch")
  /\ labEnabled' = FALSE
  /\ UNCHANGED <<exiting, child, runs, pns, ready, native, stage, attempt, started, histories>>

\* while kill -0 "$child"
Watch ==
  /\ at = "watch"
  /\ at' = IF Alive(child) \/ stage[child] = "zombie" THEN "check" ELSE "wait"
  /\ UNCHANGED <<exiting, child, labEnabled, runs, pns, ready, native, stage, attempt, started, histories>>

Check ==
  /\ at = "check"
  /\ at' = IF ready /\ ~pns THEN "mark" ELSE "pause"
  /\ UNCHANGED <<exiting, child, labEnabled, runs, pns, ready, native, stage, attempt, started, histories>>

Mark ==
  /\ Goes("mark", "flag")
  /\ pns' = TRUE
  /\ UNCHANGED <<exiting, child, labEnabled, runs, ready, native, stage, attempt, started, histories>>

FlagNever ==
  /\ Goes("flag", "restart")
  /\ UNCHANGED <<exiting, child, labEnabled, runs, pns, ready, native, stage, attempt, started, histories>>

Flag ==
  /\ Goes("flag", "restart")
  /\ labEnabled' = TRUE
  /\ UNCHANGED <<exiting, child, runs, pns, ready, native, stage, attempt, started, histories>>

EnableAsr ==
  /\ Goes("restart", "wait")
  /\ RestartNative
  /\ UNCHANGED <<exiting, child, labEnabled, runs, pns, ready, attempt, started, accepted, orphans>>

Pause ==
  /\ Goes("pause", "watch")
  /\ stage' = Reaped
  /\ UNCHANGED <<exiting, child, labEnabled, runs, pns, ready, native, attempt, started, histories>>

Wait ==
  /\ Goes("wait", "forget") /\ ~Alive(child)
  /\ stage' = Reaped
  /\ UNCHANGED <<exiting, child, labEnabled, runs, pns, ready, native, attempt, started, histories>>

Forget ==
  /\ Goes("forget", "cleanFiles")
  /\ child' = NoClient
  /\ UNCHANGED <<exiting, labEnabled, runs, pns, ready, native, stage, attempt, started, histories>>

Sleep ==
  /\ Goes("sleep", "sweep")
  /\ stage' = Reaped
  /\ UNCHANGED <<exiting, child, labEnabled, runs, pns, ready, native, attempt, started, histories>>

(* cleanup, called by the loop and by the trap.                             *)

CleanReadyOnly ==
  /\ at = "cleanFiles"
  /\ at' = IF labEnabled THEN "cleanMode" ELSE IF exiting THEN "exited" ELSE "sleep"
  /\ ready' = FALSE
  /\ UNCHANGED <<exiting, child, labEnabled, runs, pns, native, stage, attempt, started, histories>>

CleanFiles ==
  /\ at = "cleanFiles"
  /\ at' = IF labEnabled THEN "cleanMode" ELSE IF exiting THEN "exited" ELSE "sleep"
  /\ pns' = FALSE /\ ready' = FALSE
  /\ UNCHANGED <<exiting, child, labEnabled, runs, native, stage, attempt, started, histories>>

CleanMode ==
  /\ Goes("cleanMode", "cleanFlag")
  /\ RestartNative
  /\ UNCHANGED <<exiting, child, labEnabled, runs, pns, ready, attempt, started, accepted, orphans>>

CleanFlag ==
  /\ Goes("cleanFlag", IF exiting THEN "exited" ELSE "sleep")
  /\ labEnabled' = FALSE
  /\ UNCHANGED <<exiting, child, runs, pns, ready, native, stage, attempt, started, histories>>

TerminateOnly ==
  /\ at # "exited" /\ ~exiting
  /\ exiting' = TRUE
  /\ at' = "cleanFiles"
  /\ orphans' = IF at = "record" THEN orphans \cup {started} ELSE orphans
  /\ UNCHANGED <<child, labEnabled, runs, pns, ready, native, stage, attempt, started, accepted, stuck>>

\* The trap.  A client forked an instant ago is not $child yet.
Terminate ==
  /\ at # "exited" /\ ~exiting
  /\ exiting' = TRUE
  /\ at' = IF child = NoClient THEN "cleanFiles" ELSE "kill"
  /\ orphans' = IF at = "record" THEN orphans \cup {started} ELSE orphans
  /\ UNCHANGED <<child, labEnabled, runs, pns, ready, native, stage, attempt, started, accepted, stuck>>

Kill ==
  /\ Goes("kill", "reap")
  /\ stage' = IF Alive(child) THEN [stage EXCEPT ![child] = "zombie"] ELSE stage
  /\ UNCHANGED <<exiting, child, labEnabled, runs, pns, ready, native, attempt, started, histories>>

Reap ==
  /\ Goes("reap", "cleanFiles")
  /\ stage' = Reaped
  /\ UNCHANGED <<exiting, child, labEnabled, runs, pns, ready, native, attempt, started, histories>>

\* The script is started again.
Rerun ==
  /\ Goes("exited", "sweep") /\ runs < MaxRuns
  /\ runs' = runs + 1
  /\ exiting' = FALSE /\ child' = NoClient /\ labEnabled' = FALSE
  /\ UNCHANGED <<pns, ready, native, stage, attempt, started, histories>>

-----------------------------------------------------------------------------
(* A client.                                                                *)

Becomes(c, from, to) == stage[c] = from /\ stage' = [stage EXCEPT ![c] = to]

RemoveReady(c) ==
  /\ Becomes(c, "starting", "checking")
  /\ ready' = FALSE
  /\ UNCHANGED <<scriptVars, pns, native, attempt, started, histories>>

\* Home Assistant is disabled or its token cannot be read, it accepts the token, it
\* rejects it, or the last of the attempts has found it away.
HealthCheck(c) ==
  /\ stage[c] = "checking"
  /\ \/ Becomes(c, "checking", "local") /\ UNCHANGED <<attempt, accepted>>
     \/ /\ Becomes(c, "checking", "accepted")
        /\ attempt' = [attempt EXCEPT ![c] = 0] /\ accepted' = accepted \cup {c}
     \/ /\ attempt[c] + 1 < Attempts
        /\ attempt' = [attempt EXCEPT ![c] = @ + 1] /\ UNCHANGED <<stage, accepted>>
  /\ UNCHANGED <<scriptVars, pns, ready, native, started, orphans, stuck>>

PublishAnyway(c) ==
  /\ Becomes(c, "accepted", "serving") \/ Becomes(c, "local", "serving")
  /\ ready' = TRUE
  /\ UNCHANGED <<scriptVars, pns, native, attempt, started, histories>>

\* The file is written, or cannot be and the client goes on without the service.
Publish(c) ==
  /\ \/ /\ Becomes(c, "accepted", "serving")
        /\ ready' = TRUE
     \/ Becomes(c, "accepted", "local") /\ UNCHANGED ready
  /\ UNCHANGED <<scriptVars, pns, native, attempt, started, histories>>

\* An error of a later step of main, a panic, or a kill from outside
Crash(c) ==
  /\ Alive(c)
  /\ stage' = [stage EXCEPT ![c] = IF c \in orphans THEN "gone" ELSE "zombie"]
  /\ attempt' = [attempt EXCEPT ![c] = 0]
  /\ UNCHANGED <<scriptVars, pns, ready, native, started, histories>>

ScriptStep ==
  \/ Sweep \/ Fork \/ Record \/ Reset \/ Watch \/ Check \/ Mark \/ Flag \/ EnableAsr \/ Pause
  \/ Wait \/ Forget \/ Sleep \/ CleanFiles \/ CleanMode \/ CleanFlag \/ Kill \/ Reap

ClientStep(c) == RemoveReady(c) \/ HealthCheck(c) \/ Publish(c) \/ Crash(c)

Next == ScriptStep \/ Terminate \/ Rerun \/ \E c \in Clients : ClientStep(c)

\* The shell goes on with its script; a client may take its time with any step.
Spec == Init /\ [][Next]_vars /\ WF_vars(ScriptStep)

-----------------------------------------------------------------------------
Serving == \E c \in Clients : stage[c] = "serving"

\* The native assistant is reduced to speech recognition only for a client that
\* Home Assistant has accepted ("HA 鉴权成功前不进入 ASR-only", README.md); the
\* exception is a client that the trap did not know of and that lives on under the
\* next run of the script.
AsrOnlyWithHa ==
  [][native = "full" /\ native' = "asr" => child \in accepted \/ orphans # {}]_vars

\* Who answers is agreed: the client routes while the native assistant only
\* recognises, and the other way round, except between a change of the file and
\* the restart that makes it effective.  Otherwise both answer, or nobody does.
ModesAgree ==
  ~stuck /\ at \notin {"flag", "restart", "kill", "reap", "cleanFiles", "cleanMode"} =>
    (pns <=> native = "asr")

\* The speaker never stays without an assistant: when the native one only
\* recognises and there is no client that serves, it is restored or a client
\* serves again ("Client 异常退出或重启后自动恢复原生小爱", README.md), as long as
\* the restarts of its service succeed and no client is left over from another run.
FailOpen ==
  (native = "asr" /\ ~Serving) ~> (native = "full" \/ Serving \/ stuck \/ orphans # {})

\* A script that has been terminated leaves the native assistant in charge and no
\* client behind, wherever in its loop the signal came.
ExitLeavesNothing ==
  at = "exited" =>
    /\ ~stuck => native = "full"
    /\ ~pns
    /\ \A c \in Clients \ orphans : ~Alive(c)
=============================================================================

-------------------------- MODULE SupervisorProofs --------------------------
(* Theorems about Supervisor, for any number of clients, runs of the script  *)
(* and attempts.                                                             *)
EXTENDS Supervisor, TLAPS

USE DEF scriptVars, histories, vars

LEMMA ReapedType ==
  ASSUME stage \in [Clients -> Stages]
  PROVE  /\ Reaped \in [Clients -> Stages]
         /\ \A c \in Clients :
              /\ Reaped[c] \in {stage[c], "gone"}
              /\ Reaped[c] = stage[c] \/ stage[c] = "zombie"
BY DEF Reaped, Stages

LEMMA ScriptType ==
  ASSUME TypeOK, ScriptStep \/ Terminate \/ Rerun
  PROVE  TypeOK'
<1>1. CASE Fork
  <2>1. started + 1 \in Clients /\ started' \in 0..MaxClients
    BY <1>1, SupervisorAssumption DEF TypeOK, Fork, Clients
  <2> QED
    BY <1>1, <2>1, SupervisorAssumption
       DEF TypeOK, Fork, Goes, Places, Loop, Stages
<1>2. CASE Record
  <2>1. started \in Clients \cup {NoClient}
    BY SupervisorAssumption DEF TypeOK, Clients, NoClient
  <2> QED
    BY <1>2, <2>1 DEF TypeOK, Record, Goes, Places, Loop
<1>3. CASE Sweep \/ Reset \/ Watch \/ Check \/ Mark \/ Flag \/ Forget
  BY <1>3 DEF TypeOK, Sweep, Reset, Watch, Check, Mark, Flag, Forget, Goes, Places,
     Loop, Cleanup
<1>4. CASE EnableAsr \/ CleanMode \/ Pause \/ Wait \/ Sleep \/ Reap
  BY <1>4, ReapedType DEF TypeOK, EnableAsr, CleanMode, Pause, Wait, Sleep, Reap,
     RestartNative, Goes, Places, Loop, Cleanup
<1>5. CASE CleanFiles \/ CleanFlag
  BY <1>5 DEF TypeOK, CleanFiles, CleanFlag, Goes, Places, Loop, Cleanup
<1>6. CASE Kill
  BY <1>6 DEF TypeOK, Kill, Goes, Places, Stages
<1>7. CASE Terminate
  <2>1. at = "record" => started \in Clients
    BY SupervisorAssumption DEF TypeOK, Clients
  <2> QED
    BY <1>7, <2>1 DEF TypeOK, Terminate, Places, Cleanup
<1>8. CASE Rerun
  <2>1. runs' \in 1..MaxRuns /\ at' \in Places
    BY <1>8, SupervisorAssumption DEF TypeOK, Rerun, Goes, Places, Loop
  <2> QED
    BY <1>8, <2>1 DEF TypeOK, Rerun, Goes
<1> QED
  BY <1>1, <1>2, <1>3, <1>4, <1>5, <1>6, <1>7, <1>8 DEF ScriptStep

LEMMA ClientType ==
  ASSUME TypeOK, NEW c \in Clients, ClientStep(c)
  PROVE  TypeOK'
<1>1. CASE RemoveReady(c)
  BY <1>1 DEF TypeOK, RemoveReady, Becomes, Stages
<1>2. CASE HealthCheck(c)
  <2>1. attempt[c] + 1 < Attempts => attempt[c] + 1 \in 0..Attempts
    BY SupervisorAssumption DEF TypeOK
  <2>2. 0 \in 0..Attempts
    BY SupervisorAssumption
  <2> QED
    BY <1>2, <2>1, <2>2 DEF TypeOK, HealthCheck, Becomes, Stages
<1>3. CASE Publish(c)
  BY <1>3 DEF TypeOK, Publish, Becomes, Stages
<1>4. CASE Crash(c)
  <2>1. 0 \in 0..Attempts
    BY SupervisorAssumption
  <2> QED
    BY <1>4, <2>1 DEF TypeOK, Crash, Stages
<1> QED
  BY <1>1, <1>2, <1>3, <1>4 DEF ClientStep

\* Every variable of the script and of its clients keeps its type.
THEOREM Typing == Spec => []TypeOK
<1>1. Init => TypeOK
  <2> SUFFICES ASSUME Init
               PROVE  TypeOK
    OBVIOUS
  <2>1. /\ 0 \in 0..Attempts /\ 0 \in 0..MaxClients /\ 1 \in 1..MaxRuns
        /\ at \in Places /\ "none" \in Stages
    BY SupervisorAssumption DEF Init, Places, Loop, Stages
  <2>2. stage \in [Clients -> Stages] /\ attempt \in [Clients -> 0..Attempts]
    BY <2>1 DEF Init
  <2> QED
    BY <2>1, <2>2 DEF Init, TypeOK
<1>2. TypeOK /\ [Next]_vars => TypeOK'
  BY ScriptType, ClientType DEF Next, TypeOK
<1> QED
  BY <1>1, <1>2, PTL DEF Spec

-----------------------------------------------------------------------------
(* The agreement of the file, the flag and the native assistant at each      *)
(* command of the script.  The file and the flag are the script's alone, so  *)
(* only its steps can disturb it.                                            *)

ModeInv ==
  /\ at \in {"sweep", "fork", "record", "reset", "watch", "check", "mark", "pause", "sleep",
            "exited", "cleanMode", "cleanFlag"} => ~pns
  /\ at \in {"sweep", "fork", "record", "reset", "watch", "check", "mark", "flag", "pause",
            "sleep", "exited"} => ~labEnabled
  /\ at \in {"flag", "restart"} => pns
  /\ at \in {"restart", "cleanMode", "cleanFlag"} => labEnabled
  /\ at \in {"wait", "forget"} => (pns <=> labEnabled)
  /\ ~stuck /\ ~labEnabled => native = "full"
  /\ ~stuck /\ at \in {"wait", "forget"} /\ labEnabled => native = "asr"
  /\ ~stuck /\ at = "cleanFlag" => native = "full"

LEMMA ModeInductive ==
  ASSUME TypeOK, ModeInv, [Next]_vars
  PROVE  ModeInv'
<1>1. CASE Sweep \/ Fork \/ Record \/ Reset \/ Watch \/ Check \/ Mark \/ Flag
  BY <1>1 DEF TypeOK, ModeInv, Sweep, Fork, Record, Reset, Watch, Check, Mark, Flag, Goes
<1>2. CASE EnableAsr \/ CleanMode
  BY <1>2 DEF TypeOK, ModeInv, EnableAsr, CleanMode, RestartNative, Goes
<1>3. CASE Pause \/ Wait \/ Forget \/ Sleep \/ CleanFiles \/ CleanFlag \/ Kill \/ Reap
  BY <1>3 DEF TypeOK, ModeInv, Pause, Wait, Forget, Sleep, CleanFiles, CleanFlag, Kill, Reap,
     Goes
<1>4. CASE Terminate \/ Rerun
  BY <1>4 DEF TypeOK, ModeInv, Terminate, Rerun, Goes
<1>5. CASE \E c \in Clients : ClientStep(c)
  BY <1>5 DEF ModeInv, ClientStep, RemoveReady, HealthCheck, Publish, Crash
<1>6. CASE UNCHANGED vars
  BY <1>6 DEF ModeInv
<1> QED
  BY <1>1, <1>2, <1>3, <1>4, <1>5, <1>6 DEF Next, ScriptStep

LEMMA ModesAlways == Spec => []ModeInv
<1>1. Init => ModeInv
  BY DEF Init, ModeInv
<1> QED
  BY <1>1, ModeInductive, Typing, PTL DEF Spec

\* The client routes exactly while the native assistant only recognises, except
\* between a change of the file and the restart that makes it effective.
THEOREM Agreement == Spec => []ModesAgree
<1>1. TypeOK /\ ModeInv => ModesAgree
  BY DEF TypeOK, ModeInv, ModesAgree, Places, Loop, Cleanup
<1> QED
  BY <1>1, ModesAlways, Typing, PTL

-----------------------------------------------------------------------------
(* The client the script watches.  A client that lives is the script's child *)
(* at a command where the script would still kill it or wait for it, or the  *)
(* one it is about to record, or an orphan.                                  *)

Watching == {"reset", "watch", "check", "mark", "flag", "restart", "pause", "wait", "kill"}

Attended ==
  \A c \in Clients \ orphans :
    Alive(c) => (at = "record" /\ c = started) \/ (at \in Watching /\ c = child)

LEMMA AttendedByScript ==
  ASSUME TypeOK, Attended, ScriptStep \/ Terminate \/ Rerun
  PROVE  Attended'
<1>1. CASE Fork
  BY <1>1 DEF TypeOK, Attended, Watching, Alive, Fork, Goes
<1>2. CASE Sweep \/ Record \/ Reset \/ Watch \/ Check \/ Mark \/ Flag \/ Forget
  BY <1>2 DEF TypeOK, Attended, Watching, Alive, Sweep, Record, Reset, Watch, Check, Mark, Flag,
     Forget, Goes
<1>3. CASE EnableAsr \/ CleanMode \/ Pause \/ Wait \/ Sleep \/ Reap
  <2>1. \A c \in Clients : Alive(c)' => Alive(c)
    BY <1>3, ReapedType DEF TypeOK, Alive, EnableAsr, CleanMode, Pause, Wait, Sleep, Reap,
       RestartNative
  <2> QED
    BY <1>3, <2>1 DEF Attended, Watching, EnableAsr, CleanMode, Pause, Wait, Sleep, Reap, Goes
<1>4. CASE CleanFiles \/ CleanFlag
  BY <1>4 DEF TypeOK, Attended, Watching, Alive, CleanFiles, CleanFlag, Goes
<1>5. CASE Kill
  BY <1>5 DEF TypeOK, Attended, Watching, Alive, Kill, Goes
<1>6. CASE Terminate
  <2> SUFFICES ASSUME NEW c \in Clients \ orphans', Alive(c)'
               PROVE  at' \in Watching /\ c = child'
    BY DEF Attended
  <2>1. c \notin orphans /\ Alive(c) /\ UNCHANGED child
    BY <1>6 DEF Terminate, Alive
  <2>2. ~(at = "record" /\ c = started)
    BY <1>6 DEF Terminate
  <2>3. c = child
    BY <2>1, <2>2 DEF Attended
  <2>4. child # NoClient
    BY <2>3, SupervisorAssumption DEF Clients, NoClient
  <2> QED
    BY <1>6, <2>1, <2>3, <2>4 DEF Terminate, Watching
<1>7. CASE Rerun
  BY <1>7 DEF Attended, Watching, Alive, Rerun, Goes
<1> QED
  BY <1>1, <1>2, <1>3, <1>4, <1>5, <1>6, <1>7 DEF ScriptStep

LEMMA AttendedByClients ==
  ASSUME TypeOK, Attended, NEW c \in Clients, ClientStep(c)
  PROVE  Attended'
<1>1. UNCHANGED <<at, child, started, orphans>>
  BY DEF ClientStep, RemoveReady, HealthCheck, Publish, Crash
<1>2. \A d \in Clients : Alive(d)' => Alive(d)
  BY DEF TypeOK, Alive, ClientStep, RemoveReady, HealthCheck, Publish, Crash, Becomes
<1> QED
  BY <1>1, <1>2 DEF Attended

LEMMA AttendedAlways == Spec => []Attended
<1>1. Init => Attended
  BY DEF Init, Attended, Alive
<1>2. TypeOK /\ Attended /\ UNCHANGED vars => Attended'
  BY DEF Attended, Alive
<1> QED
  <2> DEFINE Step == TypeOK /\ Attended /\ [Next]_vars => Attended'
  <2>1. Step
    BY <1>2, AttendedByScript, AttendedByClients DEF Next
  <2> QED
    BY <1>1, <2>1, Typing, PTL DEF Spec

\* A script that was terminated, wherever in its loop, leaves the native assistant
\* in charge and no client behind that it knew of.
THEOREM CleanExit == Spec => []ExitLeavesNothing
<1>1. TypeOK /\ ModeInv /\ Attended => ExitLeavesNothing
  BY DEF TypeOK, ModeInv, Attended, Watching, ExitLeavesNothing
<1> QED
  BY <1>1, ModesAlways, AttendedAlways, Typing, PTL

-----------------------------------------------------------------------------
(* The ready file.  What it says is about the client of this round of the    *)
(* loop, as long as no orphan writes it too.                                 *)

ReadyInv ==
  /\ \A c \in Clients : stage[c] \in {"accepted", "serving"} => c \in accepted
  /\ orphans = {} /\ ready =>
       /\ at # "fork"
       /\ at = "record" => started \in accepted
       /\ at \in {"reset", "watch", "check", "pause"} => child \in accepted
  /\ orphans = {} /\ at \in {"mark", "flag", "restart"} => child \in accepted

LEMMA ReadyInductive ==
  ASSUME TypeOK, ModeInv, Attended, ReadyInv, [Next]_vars
  PROVE  ReadyInv'
<1>1. CASE Sweep \/ Record \/ Reset \/ Watch \/ Check \/ Mark \/ Flag \/ Forget
  BY <1>1 DEF ReadyInv, Sweep, Record, Reset, Watch, Check, Mark, Flag, Forget, Goes
<1>2. CASE Fork
  BY <1>2 DEF TypeOK, ReadyInv, Fork, Goes
<1>3. CASE EnableAsr \/ CleanMode \/ Pause \/ Wait \/ Sleep \/ Reap
  <2>1. \A c \in Clients : stage'[c] \in {stage[c], "gone"}
    BY <1>3, ReapedType DEF TypeOK, EnableAsr, CleanMode, Pause, Wait, Sleep, Reap, RestartNative
  <2> QED
    BY <1>3, <2>1 DEF ReadyInv, EnableAsr, CleanMode, Pause, Wait, Sleep, Reap, Goes
<1>4. CASE CleanFiles \/ CleanFlag \/ Kill
  BY <1>4 DEF TypeOK, ReadyInv, CleanFiles, CleanFlag, Kill, Goes
<1>5. CASE Terminate \/ Rerun
  BY <1>5 DEF ReadyInv, Terminate, Rerun, Goes
<1>6. ASSUME NEW c \in Clients, RemoveReady(c) \/ HealthCheck(c) \/ Crash(c)
      PROVE  ReadyInv'
  BY <1>6 DEF TypeOK, ReadyInv, RemoveReady, HealthCheck, Crash, Becomes
<1>7. ASSUME NEW c \in Clients, Publish(c)
      PROVE  ReadyInv'
  <2>1. c \in accepted /\ Alive(c)
    BY <1>7 DEF ReadyInv, Publish, Becomes, Alive
  <2>2. orphans = {} => (at = "record" /\ c = started) \/ (at \in Watching /\ c = child)
    BY <2>1 DEF Attended
  <2> QED
    BY <1>7, <2>1, <2>2 DEF TypeOK, ReadyInv, Publish, Becomes, Watching
<1>8. CASE UNCHANGED vars
  BY <1>8 DEF ReadyInv
<1> QED
  BY <1>1, <1>2, <1>3, <1>4, <1>5, <1>6, <1>7, <1>8 DEF Next, ScriptStep, ClientStep

LEMMA ReadyAlways == Spec => []ReadyInv
<1>1. Init => ReadyInv
  BY DEF Init, ReadyInv
<1> QED
  BY <1>1, ReadyInductive, ModesAlways, AttendedAlways, Typing, PTL DEF Spec

\* The native assistant is reduced to recognition only for a client that Home
\* Assistant accepted, or when an orphan of an earlier round lives.
THEOREM AcceptedFirst == Spec => AsrOnlyWithHa
<1>1. ModeInv /\ ReadyInv /\ [Next]_vars
        => (native = "full" /\ native' = "asr" => child \in accepted \/ orphans # {})
  <2> SUFFICES ASSUME ModeInv, ReadyInv, [Next]_vars, native = "full", native' = "asr"
               PROVE  child \in accepted \/ orphans # {}
    OBVIOUS
  <2>1. EnableAsr \/ CleanMode
    BY DEF Next, ScriptStep, ClientStep, Sweep, Fork, Record, Reset, Watch, Check, Mark, Flag,
       Pause, Wait, Forget, Sleep, CleanFiles, CleanFlag, Kill, Reap, Terminate, Rerun,
       RemoveReady, HealthCheck, Publish, Crash
  <2> QED
    BY <2>1 DEF ModeInv, ReadyInv, EnableAsr, CleanMode, RestartNative, Goes
<1> QED
  BY <1>1, ModesAlways, ReadyAlways, PTL DEF Spec, AsrOnlyWithHa
=============================================================================

------------------------------ MODULE Manticore ------------------------------
(***************************************************************************)
(* The supervision of searchd (src/src/data/manticore) by one run of the   *)
(* program after the other: Application::start() calls start() and then    *)
(* waitForReady(), Application::stop() calls stop() once.  The daemon is a *)
(* child that loads its tables, replays its binlog, and may die; it        *)
(* outlives a program that is killed, and is then attached to.             *)
(* The Unix build: searchd runs with --nodetach.                           *)
(***************************************************************************)
EXTENDS Integers

CONSTANTS MaxRuns, MaxDeaths  \* bounds: runs of the program, deaths of a daemon

VARIABLES
    at,        \* where the program is in Application::start() and stop()
    status,    \* status_
    process,   \* process_, the child: "none", "loading", "serving"
    blamed,    \* binlogFailureSeen_, or a fatal line in this run's part of searchd.log
    resetDone, \* binlogResetDone_
    external,  \* isExternalInstance_
    timer,     \* connectionCheckTimer_ runs
    foreign,   \* a daemon an earlier run of the program left: "none", "loading", "serving"
    pidFile,   \* who wrote searchd.pid: "none", "child", "foreign", "dead"
    binlog,    \* the binlog files: "none", "good", "torn"
    runs, deaths

manticoreVars == <<at, status, process, blamed, resetDone, external, timer, foreign, pidFile,
                   binlog, runs, deaths>>
survivors == <<foreign, pidFile, binlog>>

Status == {"Stopped", "Starting", "Running", "Error"}

Fresh ==
    /\ status' = "Stopped" /\ process' = "none" /\ blamed' = FALSE /\ resetDone' = FALSE
    /\ external' = FALSE /\ timer' = FALSE
ManticoreInit ==
    /\ at = "off" /\ status = "Stopped" /\ process = "none" /\ blamed = FALSE
    /\ resetDone = FALSE /\ external = FALSE /\ timer = FALSE
    /\ foreign = "none" /\ pidFile = "none" /\ binlog \in {"none", "torn"}
    /\ runs = 0 /\ deaths = 0

ProgramStarts ==
    /\ at = "off" /\ runs < MaxRuns
    /\ runs' = runs + 1 /\ at' = "starting" /\ Fresh
    /\ UNCHANGED <<survivors, deaths>>

-----------------------------------------------------------------------------
(* The daemon                                                               *)

\* testConnection(): some daemon answers "SHOW STATUS" on the port; each probe may
\* also time out on a daemon that is busy.
Answers == process = "serving" \/ foreign = "serving"

\* isProcessRunning() of the pid in the file.
PidAlive == \/ pidFile = "child" /\ process # "none"
            \/ pidFile = "foreign" /\ foreign # "none"

\* searchd, loading, writes its pid file; another one's pid file is locked.
WritesPid ==
    /\ process = "loading" /\ pidFile \notin {"child", "foreign"}
    /\ pidFile' = "child"
    /\ UNCHANGED <<at, status, process, blamed, resetDone, external, timer, foreign, binlog, runs, deaths>>

\* It has replayed its binlog and accepts connections.
Serves ==
    /\ \/ process = "loading" /\ pidFile = "child" /\ process' = "serving" /\ UNCHANGED foreign
       \/ foreign = "loading" /\ foreign' = "serving" /\ UNCHANGED process
    /\ binlog # "torn" /\ binlog' = "good"
    /\ UNCHANGED <<at, status, blamed, resetDone, external, timer, pidFile, runs, deaths>>

\* isBinlogFailureLine: "FATAL: binlog ...", and the daemon is about to exit.
BlamesBinlog ==
    /\ process = "loading" /\ pidFile = "child" /\ binlog = "torn"
    /\ blamed' = TRUE
    /\ UNCHANGED <<at, status, process, resetDone, external, timer, survivors, runs, deaths>>

Dead(p) == IF pidFile = p THEN "dead" ELSE pidFile

\* onProcessFinished() and onProcessError(): the child is gone; which of the two
\* slots ends last decides between "Stopped" and "Error".
OnProcessFinished == status' = IF status \in {"Running", "Starting"} THEN "Stopped" ELSE status
OnProcessError == status' = "Error"
ChildSignals == OnProcessFinished \/ OnProcessError

ChildDies ==
    /\ process # "none"
    /\ \/ /\ blamed \/ pidFile = "foreign"        \* it gives up
          /\ UNCHANGED <<deaths, binlog>>
       \/ /\ deaths < MaxDeaths /\ deaths' = deaths + 1
          /\ binlog' \in IF process = "serving" THEN {"good", "torn"} ELSE {binlog}
    /\ process' = "none" /\ pidFile' = Dead("child")
    /\ IF at = "stopping" THEN UNCHANGED status ELSE ChildSignals
    /\ UNCHANGED <<at, blamed, resetDone, external, timer, foreign, runs>>

ForeignDies ==
    /\ foreign # "none" /\ deaths < MaxDeaths
    /\ deaths' = deaths + 1 /\ foreign' = "none" /\ pidFile' = Dead("foreign")
    /\ binlog' \in {binlog, "torn"}
    /\ UNCHANGED <<at, status, process, blamed, resetDone, external, timer, runs>>

-----------------------------------------------------------------------------
(* start()                                                                  *)

\* attachToExternalInstance: a live pid, and an answer.
Attaches ==
    /\ at = "starting" /\ PidAlive /\ Answers
    /\ external' = TRUE /\ status' = "Running" /\ at' = "waiting2"
    /\ UNCHANGED <<process, blamed, resetDone, timer, survivors, runs, deaths>>

\* resolveSearchdPath, ensureAvailablePort, prepareDatabaseAndConfig or
\* verifyDriverAvailable: nothing has been launched.
CannotLaunch ==
    /\ at = "starting" /\ at' = "failed" /\ status' = "Error"
    /\ UNCHANGED <<process, blamed, resetDone, external, timer, survivors, runs, deaths>>

\* launchSearchdProcess: the diagnosis is scoped to this launch.
LaunchSearchdProcess ==
    /\ status' = "Starting" /\ process' = "loading" /\ blamed' = FALSE

Launches ==
    /\ at = "starting" /\ process = "none"
    /\ at' = "waiting"
    /\ LaunchSearchdProcess
    /\ UNCHANGED <<resetDone, external, timer, survivors, runs, deaths>>

-----------------------------------------------------------------------------
(* waitForReady(), called by start() and again by Application::start()      *)

WaitsForReady == at \in {"waiting", "waiting2"}

Ready ==
    /\ WaitsForReady /\ pidFile # "none" /\ Answers
    /\ status' = "Running" /\ timer' = TRUE
    /\ at' = IF at = "waiting" THEN "waiting2" ELSE "up"
    /\ UNCHANGED <<process, blamed, resetDone, external, survivors, runs, deaths>>

\* binlogFailureReported() is asked by start(), once; Application::start() gives up.
GivesUp == IF at = "waiting" /\ ~resetDone /\ blamed THEN "recovering" ELSE "failed"

\* The child is NotRunning, or the time has run out with it still loading (its
\* process stays).
NotReady ==
    /\ WaitsForReady /\ ~Answers
    /\ status' = "Error" /\ at' = GivesUp
    /\ UNCHANGED <<process, blamed, resetDone, external, timer, survivors, runs, deaths>>

\* resetBinlog() drops the whole chain of files; it tells when there was none.
ResetBinlog(removed) == removed /\ binlog # "none"

\* shutdownProcess(): terminate, then kill.
ShutdownProcess == process = "none"
ChildIsShut ==
    /\ at \in {"recovering", "stopping"} /\ process # "none"
    /\ process' = "none" /\ pidFile' = Dead("child")
    /\ UNCHANGED <<at, status, blamed, resetDone, external, timer, foreign, binlog, runs, deaths>>

\* The recovery of start(): shut the child down, drop the log, launch again.
Recover(removed) ==
    /\ at = "recovering" /\ ShutdownProcess
    /\ resetDone' = TRUE
    /\ IF ResetBinlog(removed)
       THEN binlog' = "none" /\ LaunchSearchdProcess /\ at' = "waiting" /\ UNCHANGED pidFile
       ELSE at' = "failed" /\ UNCHANGED <<status, process, blamed, binlog, pidFile>>
    /\ UNCHANGED <<external, timer, foreign, runs, deaths>>

-----------------------------------------------------------------------------
(* While the program is up, and its end                                     *)

CheckConnection ==
    /\ at = "up" /\ timer /\ status = "Running" /\ ~Answers
    /\ status' = "Error"
    /\ UNCHANGED <<at, process, blamed, resetDone, external, timer, survivors, runs, deaths>>

\* stop(), or the destructor of a program that failed to start: the signals of the
\* child are disconnected.
StopManticore ==
    /\ at \in {"up", "failed"}
    /\ timer' = FALSE
    /\ at' = IF status = "Stopped" \/ external THEN "off" ELSE "stopping"
    /\ status' = "Stopped"
    /\ UNCHANGED <<process, blamed, resetDone, external, survivors, runs, deaths>>

Stopped ==
    /\ at = "stopping" /\ ShutdownProcess
    /\ at' = "off"
    /\ UNCHANGED <<status, process, blamed, resetDone, external, timer, survivors, runs, deaths>>

\* The program is killed: its child lives on, with nobody to stop it.  (Not in the
\* moment between the fork and the child's lock on the pid file.)
ProgramKilled ==
    /\ at # "off" /\ (process # "none" => pidFile \in {"child", "foreign"})
    /\ deaths < MaxDeaths /\ deaths' = deaths + 1
    /\ at' = "off" /\ Fresh
    /\ foreign' = IF process # "none" THEN process ELSE foreign
    /\ pidFile' = IF pidFile = "child" THEN "foreign" ELSE pidFile
    /\ UNCHANGED <<binlog, runs>>

-----------------------------------------------------------------------------
Program ==
    \/ Attaches \/ Launches \/ CannotLaunch \/ Ready \/ NotReady \/ ChildIsShut
    \/ \E removed \in BOOLEAN : Recover(removed)
    \/ CheckConnection \/ Stopped
Daemon == WritesPid \/ Serves \/ BlamesBinlog \/ ChildDies \/ ForeignDies
ManticoreNext == Program \/ Daemon \/ ProgramStarts \/ StopManticore \/ ProgramKilled

ManticoreSpec == ManticoreInit /\ [][ManticoreNext]_manticoreVars

ManticoreTypeOK ==
    /\ at \in {"off", "starting", "waiting", "waiting2", "recovering", "up", "failed", "stopping"}
    /\ status \in Status /\ process \in {"none", "loading", "serving"}
    /\ foreign \in {"none", "loading", "serving"} /\ pidFile \in {"none", "child", "foreign", "dead"}
    /\ binlog \in {"none", "good", "torn"} /\ {blamed, resetDone, external, timer} \subseteq BOOLEAN

(* The binlog is the only copy of what is not flushed: it is dropped only   *)
(* when it is torn, while no daemon has it open, and once per start().      *)
ResetOnlyTorn ==
    [][binlog # "none" /\ binlog' = "none" =>
          binlog = "torn" /\ process = "none" /\ foreign = "none" /\ ~resetDone]_manticoreVars

(* A program that stopped by itself leaves no daemon it launched, whichever *)
(* error its daemon was in.                                                 *)
NoneLeftBehind == at = "off" => process = "none"

(* The program believes in a daemon that died, attached to or launched. It  *)
(* does not go on so.                                                       *)
BelievesTheDead == at = "up" /\ status = "Running" /\ ~Answers
=============================================================================

------------------------------ MODULE Profiler ------------------------------
(***************************************************************************)
(* telemetry-profile-cpu and the benchmark it profiles (bench): the        *)
(* controller runs one perf command after the other, each in a process     *)
(* group of its own and under a deadline; perf runs run_benchmark.py,      *)
(* which starts the server, with its reader, in a session of their own.    *)
(*                                                                         *)
(* step is the place in runProfile().  perf is a black box: its exit       *)
(* status need not be that of its workload.                                *)
(***************************************************************************)
EXTENDS Integers

CONSTANT Repeat          \* --repeat

ASSUME ProfilerAssumption == Repeat \in Nat \ {0}

VARIABLES
  \* controller
  mode, step,       \* --mode, or "check"; and the place in runProfile()
  ppc,              \* "step", or in runCommand(): "poll", "deadline", "reap"; "exited"
  exitCode,         \* "none", "success" or "failure"
  expired,          \* the deadline of the command has passed
  staged,           \* the temporary copies of the executables exist
  \* the command
  perf,             \* "none", "running", "ok" or "failed" (ended, not waited for)
  bpc,              \* where the benchmark is: "none" to "ended"
  attempt,          \* its current run
  server, reader,   \* "none", "running", "success" (server) or "ended"
  \* files
  csv,              \* rows of each mode's results; NoFile; Stale, an earlier result
  data,             \* perf.data: "none", "empty" or "samples"
  report            \* "none", "unresolved" or "resolved"

controllerVars == <<mode, step, ppc, exitCode, expired, staged>>
benchmarkVars == <<bpc, attempt, server, reader>>
fileVars == <<csv, data, report>>
vars == <<controllerVars, perf, benchmarkVars, fileVars>>

Modes == {"record", "stat"}
NoFile == -1
Stale == -2

(* runProfile(): the record mode first, then the stat mode, as asked for.  *)
Advance ==
  \/ step = "check" /\ step' = IF mode = "check" THEN "return" ELSE "stage"
  \/ step = "stage" /\ step' = IF mode = "stat" THEN "stat" ELSE "record"
  \/ step = "record" /\ step' = "verify record"
  \/ step = "verify record" /\ step' = "data"
  \/ step = "data" /\ step' = "cache server"
  \/ step = "cache server" /\ step' = "cache sender"
  \/ step = "cache sender" /\ step' = "report"
  \/ step = "report" /\ step' = "symbols"
  \/ step = "symbols" /\ step' = IF mode = "both" THEN "stat" ELSE "return"
  \/ step = "stat" /\ step' = "verify stat"
  \/ step = "verify stat" /\ step' = "return"

Init ==
  /\ mode \in {"check", "record", "stat", "both"} /\ step = "check"
  /\ ppc = "step" /\ exitCode = "none" /\ expired = FALSE /\ staged = FALSE
  /\ perf = "none" /\ bpc = "none" /\ attempt = 0 /\ server = "none" /\ reader = "none"
  /\ csv \in [Modes -> {NoFile, Stale}]
  /\ data \in {"none", "samples"} /\ report \in {"none", "resolved"}

Caching == {"cache server", "cache sender"}
Commands == {"check", "record", "stat", "report"} \cup Caching

(* An exception, or the normal end: the copies are removed by their        *)
(* destructor.                                                             *)
Exit(code) ==
  /\ ppc' = "exited" /\ exitCode' = code /\ staged' = FALSE
  /\ UNCHANGED <<mode, step, expired>>

(* The outcome of a command: only buildid-cache may fail.                  *)
Proceed == /\ ppc' = "step" /\ Advance
           /\ UNCHANGED <<mode, exitCode, expired, staged>>
CommandFailed == IF step \in Caching THEN Proceed ELSE Exit("failure")

-----------------------------------------------------------------------------
(* Copying the executables.                                                *)
Stage ==
  /\ ppc = "step" /\ step = "stage"
  /\ \/ /\ staged' = TRUE /\ Advance
        /\ UNCHANGED <<mode, ppc, exitCode, expired>>
     \/ Exit("failure")
  /\ UNCHANGED <<perf, benchmarkVars, fileVars>>

(* Faulty RemoveOld: an earlier result stays.                              *)
RemoveOldData ==
  /\ data' = IF step = "record" THEN "none" ELSE data
  /\ UNCHANGED csv

(* runMode() removes its old results first; the report is truncated.       *)
RemoveOld ==
  /\ csv' = [m \in Modes |-> IF m = step THEN NoFile ELSE csv[m]]
  /\ data' = IF step = "record" THEN "none" ELSE data

(* runCommand(): spawn, or fail to.                                        *)
Spawn ==
  /\ ppc = "step" /\ step \in Commands
  /\ RemoveOld
  /\ report' = IF step = "report" THEN "none" ELSE report
  /\ \/ /\ ppc' = "poll" /\ expired' = FALSE
        /\ perf' = "running"
        /\ bpc' = IF step \in Modes THEN "begin" ELSE "none"
        /\ UNCHANGED <<mode, step, exitCode, staged>>
     \/ /\ CommandFailed
        /\ UNCHANGED <<perf, bpc>>
  /\ UNCHANGED <<attempt, server, reader>>

(* kill(-pid, SIGKILL): perf and the benchmark, not the server's session.  *)
KillGroup ==
  /\ bpc' = IF bpc \in {"none", "ended"} THEN bpc ELSE "killed"
  /\ UNCHANGED <<attempt, server, reader>>

(* waitpid(WNOHANG) in the loop: the command runs, or has ended.           *)
Poll ==
  /\ ppc = "poll" /\ perf = "running"
  /\ ppc' = "deadline"
  /\ UNCHANGED <<mode, step, exitCode, expired, staged, perf, benchmarkVars, fileVars>>
Collect ==
  /\ ppc = "poll" /\ perf # "running"
  /\ perf' = "none"
  /\ IF perf = "ok" THEN Proceed /\ UNCHANGED benchmarkVars
                    ELSE KillGroup /\ CommandFailed
  /\ UNCHANGED fileVars

(* waitpid() fails once the command has ended, if SIGCHLD was ignored when *)
(* the profiler was started: the group is killed, and what the command did *)
(* is not known.                                                           *)
WaitFails ==
  /\ ppc = "poll" /\ perf # "running"
  /\ perf' = "none"
  /\ KillGroup /\ CommandFailed
  /\ UNCHANGED fileVars

(* Faulty PastDeadline: the deadline is looked at once the child has ended.*)
PastDeadlineLate == expired /\ perf # "running"

PastDeadline == expired

Deadline ==
  /\ ppc = "deadline"
  /\ IF PastDeadline
       THEN /\ ppc' = "reap"
            /\ perf' = IF perf = "running" THEN "failed" ELSE perf
            /\ KillGroup
       ELSE /\ ppc' = "poll"
            /\ UNCHANGED <<perf, benchmarkVars>>
  /\ UNCHANGED <<mode, step, exitCode, expired, staged, fileVars>>

(* The blocking waitpid() after the kill.                                  *)
Reap ==
  /\ ppc = "reap" /\ perf # "running"
  /\ perf' = "none"
  /\ CommandFailed
  /\ UNCHANGED <<benchmarkVars, fileVars>>

(* verifyCsv(): as many good rows as runs were asked for.                  *)
VerifyCsv(m) == csv[m] \in {Repeat, Stale}

(* validateReport(): symbols of the server were resolved.                  *)
ValidateReport == report = "resolved"

Passes ==
  /\ step = "verify record" => VerifyCsv("record")
  /\ step = "verify stat" => VerifyCsv("stat")
  /\ step = "data" => data = "samples"
  /\ step = "symbols" => ValidateReport
Verify ==
  /\ ppc = "step" /\ step \in {"verify record", "verify stat", "data", "symbols"}
  /\ IF Passes THEN Proceed ELSE Exit("failure")
  /\ UNCHANGED <<perf, benchmarkVars, fileVars>>

Done ==
  /\ ppc = "step" /\ step = "return"
  /\ Exit("success")
  /\ UNCHANGED <<perf, benchmarkVars, fileVars>>

Controller == Stage \/ Spawn \/ Poll \/ Collect \/ WaitFails \/ Deadline \/ Reap \/ Verify \/ Done

(* Time passes.                                                            *)
Clock ==
  /\ ppc \in {"poll", "deadline"} /\ ~expired
  /\ expired' = TRUE
  /\ UNCHANGED <<mode, step, ppc, exitCode, staged, perf, benchmarkVars, fileVars>>

-----------------------------------------------------------------------------
(* perf ends with its workload, or on its own.                             *)
PerfEnds ==
  /\ perf = "running"
  /\ perf' \in IF bpc \in {"none", "ended"} THEN {"ok", "failed"} ELSE {"failed"}
  /\ data' \in IF step = "record" THEN {"none", "empty", "samples"} ELSE {data}
  /\ report' \in IF step = "report" THEN {"unresolved", "resolved"} ELSE {report}
  /\ UNCHANGED <<controllerVars, benchmarkVars, csv>>

(* run_benchmark.py: main() opens the results, run_once() starts a server, *)
(* loads it, stops it and verifies its file.                               *)
Runs(at, to) == bpc = at /\ bpc' = to /\ UNCHANGED <<controllerVars, perf, data, report>>

OpenCsv ==
  /\ Runs("begin", "start")
  /\ csv' = [csv EXCEPT ![step] = 0]
  /\ attempt' = 1
  /\ UNCHANGED <<server, reader>>
StartServer ==
  /\ Runs("start", "load")
  /\ server' = "running" /\ reader' = "running"
  /\ UNCHANGED <<attempt, csv>>
LoadServer ==      \* ready, frames sent, file complete, SIGTERM sent
  /\ Runs("load", "stop")
  /\ server = "running"
  /\ UNCHANGED <<attempt, server, reader, csv>>
AwaitExit ==
  /\ Runs("stop", "verify")
  /\ server = "success"
  /\ UNCHANGED <<attempt, server, reader, csv>>

(* Faulty MoreRuns: one too many.                                          *)
MoreRunsByOne == attempt <= Repeat

MoreRuns == attempt < Repeat
WriteRow ==
  /\ Runs("verify", IF MoreRuns THEN "start" ELSE "ended")
  /\ csv' = [csv EXCEPT ![step] = attempt]
  /\ attempt' = attempt + 1
  /\ server' = "none" /\ reader' = "none"

(* Faulty KillSession: only the server itself.                             *)
KillSessionServer ==
  /\ server' = IF server = "running" THEN "ended" ELSE server
  /\ UNCHANGED reader

(* os.killpg(): the server's session.                                      *)
KillSession ==
  /\ server' = IF server = "running" THEN "ended" ELSE server
  /\ reader' = IF reader = "running" THEN "ended" ELSE reader

(* A step of it fails or times out: finally stops server and reader.       *)
BenchmarkFails ==
  /\ \E at \in {"begin", "start", "load", "stop", "verify"} : Runs(at, "ended")
  /\ KillSession
  /\ UNCHANGED <<attempt, csv>>

(* The server after SIGTERM, which reports success only when its reader    *)
(* has ended (System); or either of them is lost.                          *)
ServerEnds ==
  /\ server = "running"
  /\ \/ server' = "ended" /\ UNCHANGED reader
     \/ bpc = "stop" /\ server' = "success" /\ reader' = "ended"
  /\ UNCHANGED <<controllerVars, perf, bpc, attempt, fileVars>>
ReaderEnds ==
  /\ reader = "running"
  /\ reader' = "ended"
  /\ UNCHANGED <<controllerVars, perf, bpc, attempt, server, fileVars>>

Workload ==
  \/ PerfEnds \/ OpenCsv \/ StartServer \/ LoadServer \/ AwaitExit \/ WriteRow
  \/ BenchmarkFails \/ ServerEnds \/ ReaderEnds

Exited == ppc = "exited" /\ UNCHANGED vars

Next == Controller \/ Clock \/ Workload \/ Exited
Spec == Init /\ [][Next]_vars

(* The controller is scheduled and time passes; perf, the benchmark and    *)
(* the server may hang.                                                    *)
FairSpec == Spec /\ WF_vars(Controller) /\ WF_vars(Clock)

-----------------------------------------------------------------------------
TypeOK ==
  /\ mode \in {"check", "record", "stat", "both"}
  /\ step \in {"stage", "verify record", "data", "symbols", "verify stat", "return"} \cup Commands
  /\ ppc \in {"step", "poll", "deadline", "reap", "exited"}
  /\ exitCode \in {"none", "success", "failure"}
  /\ expired \in BOOLEAN /\ staged \in BOOLEAN
  /\ perf \in {"none", "running", "ok", "failed"}
  /\ bpc \in {"none", "begin", "start", "load", "stop", "verify", "ended", "killed"}
  /\ attempt \in 0..(Repeat + 1)
  /\ server \in {"none", "running", "success", "ended"}
  /\ reader \in {"none", "running", "ended"}
  /\ csv \in [Modes -> {NoFile, Stale} \cup 0..Repeat]
  /\ data \in {"none", "empty", "samples"} /\ report \in {"none", "unresolved", "resolved"}

(* However the profile ends, by success, failure or a deadline that races  *)
(* the end of the command: no child is left to wait for, its group and     *)
(* the temporary copies are gone, and so are server and reader, if the     *)
(* benchmark was left to end by itself.                                    *)
CleanExit ==
  ppc = "exited" =>
    /\ perf = "none" /\ ~staged
    /\ bpc \in {"none", "ended", "killed"}
    /\ bpc # "killed" => server # "running" /\ reader # "running"

(* Success is reported only for results of this profile: all runs of each  *)
(* mode asked for, with samples and resolved symbols, never for files of   *)
(* an earlier one.                                                         *)
SuccessMeansMeasured ==
  exitCode = "success" =>
    /\ mode \in {"record", "both"} =>
         csv["record"] = Repeat /\ data = "samples" /\ report = "resolved"
    /\ mode \in {"stat", "both"} => csv["stat"] = Repeat

(* Whatever hangs, the controller ends.                                    *)
ProfilerEnds == <>(ppc = "exited")

(* A command that is stopped, at its deadline or because it failed, takes  *)
(* the server and the reader of its benchmark with it.                     *)
NoOrphans == ppc = "exited" => server # "running" /\ reader # "running"
=============================================================================

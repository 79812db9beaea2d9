--------------------------- MODULE ProfilerProofs ---------------------------
(***************************************************************************)
(* Proofs about Profiler: however commands, deadlines and the benchmark    *)
(* interleave, the controller leaves nothing of its own behind and reports *)
(* success only for results of its own, for every number of runs.          *)
(***************************************************************************)
EXTENDS Profiler, TLAPS

(* Steps of runProfile() that look at results.                             *)
Checks == {"verify record", "verify stat", "data", "symbols"}

(* The values of the controller's variables, and the steps of each mode.   *)
ControlTypes ==
  /\ mode \in {"check", "record", "stat", "both"}
  /\ step \in {"stage", "return"} \cup Checks \cup Commands
  /\ mode = "check" => step \in {"check", "return"}
  /\ mode = "stat" => step \in {"check", "stage", "stat", "verify stat", "return"}
  /\ ppc \in {"step", "poll", "deadline", "reap", "exited"}
  /\ exitCode \in {"none", "success", "failure"}

(* The values of its flags.                                                *)
Flags == expired \in BOOLEAN /\ staged \in BOOLEAN

(* The values of the variables of perf and the benchmark.                  *)
WorkTypes ==
  /\ perf \in {"none", "running", "ok", "failed"}
  /\ bpc \in {"none", "begin", "start", "load", "stop", "verify", "ended", "killed"}
  /\ attempt \in 0..(Repeat + 1)
  /\ server \in {"none", "running", "success", "ended"}
  /\ reader \in {"none", "running", "ended"}

(* The values of the result files.                                         *)
FileTypes ==
  /\ csv \in [Modes -> {NoFile, Stale} \cup 0..Repeat]
  /\ data \in {"none", "empty", "samples"} /\ report \in {"none", "unresolved", "resolved"}

(* runCommand() waits for its child.                                       *)
Awaiting == ppc \in {"poll", "deadline", "reap"}

(* The benchmark has started a server.                                     *)
Serving == {"load", "stop", "verify"}

(* The benchmark runs.                                                     *)
Benching == {"begin", "start"} \cup Serving

(* A child exists only while runCommand() waits for it.  perf reports      *)
(* success only when its workload has ended, so that runProfile() never    *)
(* goes on while a benchmark runs; and only a benchmark that was killed    *)
(* can be left unfinished, which ends the controller.                      *)
Command ==
  /\ Awaiting => step \in Commands
  /\ perf # "none" => Awaiting
  /\ perf = "ok" => bpc \in {"none", "ended"}
  /\ bpc \in Benching => ppc \in {"poll", "deadline"} /\ step \in Modes
  /\ bpc = "killed" => ppc = "exited" \/ (ppc = "reap" /\ step \in Modes)

(* The current run is one of those asked for, and only a benchmark that    *)
(* runs or was killed has a server or reader.                              *)
Benchmark ==
  /\ bpc \in {"start"} \cup Serving => attempt \in 1..Repeat
  /\ server = "running" \/ reader = "running" => bpc \in Serving \cup {"killed"}

(* Steps that come after the record mode is complete.                      *)
Recorded == IF mode \in {"record", "both"} THEN {"stat", "verify stat", "return"} ELSE {}

(* Steps that come after the samples were seen.                            *)
Sampled == {"cache server", "cache sender", "report", "symbols"} \cup Recorded

(* Steps that come after the rows of the record mode were counted.         *)
Verified == {"data"} \cup Sampled

(* What is known of the result files at each step: an old file is gone     *)
(* once its command was started, and what a check has seen still holds at  *)
(* every later step, since no later command writes there.                  *)
Results ==
  /\ step = "verify record" \/ (step = "record" /\ Awaiting) => csv["record"] # Stale
  /\ step \in Verified => csv["record"] = Repeat
  /\ step \in Sampled => data = "samples"
  /\ step \in Recorded => report = "resolved"
  /\ step = "verify stat" \/ (step = "stat" /\ Awaiting) => csv["stat"] # Stale
  /\ step = "return" /\ mode \in {"stat", "both"} => csv["stat"] = Repeat

(* How the controller ends.                                                *)
Ending ==
  /\ exitCode = "success" => step = "return" /\ ppc = "exited"
  /\ ppc = "exited" => ~staged

(* The inductive invariant.  SuccessMeansMeasured looks at the end only;   *)
(* it needs what each step before has established and that the steps after *)
(* it leave it alone, which in turn needs that no benchmark outlives its   *)
(* command.                                                                *)
ProfilerInv ==
  ControlTypes /\ Flags /\ WorkTypes /\ FileTypes /\ Command /\ Benchmark /\ Results /\ Ending

-----------------------------------------------------------------------------
(* The invariant holds at first.                                           *)
LEMMA ProfilerInit == Init => ProfilerInv
<1>. SUFFICES ASSUME Init PROVE ProfilerInv
  OBVIOUS
<1>1. ControlTypes
  BY DEF Init, ControlTypes, Checks, Commands, Caching
<1>2. Flags
  BY DEF Init, Flags
<1>3. WorkTypes /\ FileTypes
  BY ProfilerAssumption DEF Init, WorkTypes, FileTypes
<1>4. Command /\ Benchmark
  BY DEF Init, Command, Benchmark, Awaiting, Serving, Benching
<1>5. Results /\ Ending
  BY DEF Init, Results, Ending, Recorded, Sampled, Verified, Awaiting
<1>. QED BY <1>1, <1>2, <1>3, <1>4, <1>5 DEF ProfilerInv

(* Stuttering.                                                             *)
LEMMA ProfilerSame ==
  ASSUME ProfilerInv, UNCHANGED vars
  PROVE  ProfilerInv'
<1>. USE DEF ProfilerInv, vars, controllerVars, benchmarkVars, fileVars
<1>1. ControlTypes' /\ Flags'
  BY DEF ControlTypes, Flags
<1>2. WorkTypes' /\ FileTypes'
  BY DEF WorkTypes, FileTypes
<1>3. Command' /\ Benchmark'
  BY DEF Command, Benchmark, Awaiting
<1>4. Results' /\ Ending'
  BY DEF Results, Ending, Recorded, Sampled, Verified, Awaiting
<1>. QED BY <1>1, <1>2, <1>3, <1>4

(* The controller's own state when it exits.                               *)
LEMMA ControlsExit ==
  ASSUME ProfilerInv, NEW code \in {"success", "failure"}, Exit(code),
         code = "success" => step = "return"
  PROVE  ControlTypes' /\ Flags' /\ Ending'
<1>1. ControlTypes'
  BY DEF ProfilerInv, ControlTypes, Exit
<1>2. Flags'
  BY DEF ProfilerInv, Flags, Exit
<1>. QED BY <1>1, <1>2 DEF Ending, Exit

(* The controller's own state when it goes to the next step.               *)
LEMMA ControlsAdvance ==
  ASSUME ProfilerInv, ppc # "exited", ppc' = "step", Advance,
         UNCHANGED <<mode, exitCode, expired>>, staged' \in BOOLEAN
  PROVE  ControlTypes' /\ Flags' /\ Ending'
<1>1. ControlTypes'
  BY DEF ProfilerInv, ControlTypes, Advance, Checks, Commands, Caching
<1>2. Flags'
  BY DEF ProfilerInv, Flags
<1>3. Ending'
  BY DEF ProfilerInv, Ending
<1>. QED BY <1>1, <1>2, <1>3

(* Between commands there is no child, no benchmark and no server.         *)
LEMMA AtRest ==
  ASSUME ProfilerInv, ppc = "step"
  PROVE  /\ perf = "none" /\ bpc \in {"none", "ended"} /\ ~Awaiting
         /\ server # "running" /\ reader # "running"
<1>1. perf = "none" /\ ~Awaiting /\ bpc \in {"none", "ended"}
  BY DEF ProfilerInv, Command, WorkTypes, Awaiting, Benching, Serving
<1>. QED BY <1>1 DEF ProfilerInv, Benchmark, Serving

(* Steps between commands leave the benchmark as it is.                    *)
LEMMA QuietSteps ==
  ASSUME ProfilerInv, ppc = "step", ppc' \in {"step", "exited"},
         UNCHANGED <<perf, benchmarkVars>>
  PROVE  WorkTypes' /\ Command' /\ Benchmark'
<1>1. WorkTypes'
  BY DEF ProfilerInv, WorkTypes, benchmarkVars
<1>2. Command' /\ Benchmark'
  BY AtRest DEF Command, Benchmark, Awaiting, Benching, Serving, benchmarkVars
<1>. QED BY <1>1, <1>2

(* An exit leaves the results as they are.                                 *)
LEMMA ResultsExit ==
  ASSUME ProfilerInv, ppc' = "exited", UNCHANGED <<mode, step, fileVars>>
  PROVE  FileTypes' /\ Results'
<1>1. FileTypes'
  BY DEF ProfilerInv, FileTypes, fileVars
<1>2. Results'
  BY DEF ProfilerInv, Results, Recorded, Sampled, Verified, Awaiting, fileVars
<1>. QED BY <1>1, <1>2

(* Copying the executables.                                                *)
LEMMA ProfilerStages ==
  ASSUME ProfilerInv, Stage
  PROVE  ProfilerInv'
<1>0. /\ ppc = "step" /\ step = "stage" /\ UNCHANGED <<perf, benchmarkVars, fileVars>>
  BY DEF Stage
<1>1. CASE Exit("failure")
  <2>1. ppc' = "exited" /\ UNCHANGED <<mode, step>>
    BY <1>1 DEF Exit
  <2>2. ControlTypes' /\ Flags' /\ Ending'
    BY <1>1, ControlsExit
  <2>. QED BY <1>0, <2>1, <2>2, QuietSteps, ResultsExit DEF ProfilerInv
<1>2. CASE staged' = TRUE /\ Advance /\ UNCHANGED <<mode, ppc, exitCode, expired>>
  <2>1. ControlTypes' /\ Flags' /\ Ending'
    BY <1>0, <1>2, ControlsAdvance
  <2>2. WorkTypes' /\ Command' /\ Benchmark'
    BY <1>0, <1>2, QuietSteps
  <2>3. FileTypes'
    BY <1>0 DEF ProfilerInv, FileTypes, fileVars
  <2>4. step' = IF mode = "stat" THEN "stat" ELSE "record"
    BY <1>0, <1>2 DEF Advance
  <2>5. Results'
    BY <1>0, <1>2, <2>4 DEF Results, Recorded, Sampled, Verified, Awaiting
  <2>. QED BY <2>1, <2>2, <2>3, <2>5 DEF ProfilerInv
<1>. QED BY <1>1, <1>2 DEF Stage

(* The next step after a command that ended well, or that may fail.        *)
LEMMA CommandDone ==
  ASSUME ProfilerInv, step \in Commands, step \in Caching \/ Awaiting,
         ppc' = "step", Advance, mode' = mode, UNCHANGED fileVars
  PROVE  FileTypes' /\ Results'
<1>0. csv' = csv /\ data' = data /\ report' = report
  BY DEF fileVars
<1>1. FileTypes'
  BY <1>0 DEF ProfilerInv, FileTypes
<1>. USE DEF ProfilerInv, Results, Recorded, Sampled, Verified
<1>2. CASE step = "check"
  <2>1. step' = IF mode = "check" THEN "return" ELSE "stage"
    BY <1>2 DEF Advance
  <2>. QED BY <1>1, <2>1 DEF Awaiting
<1>3. CASE step = "record"
  <2>1. step' = "verify record" /\ Awaiting
    BY <1>3 DEF Advance, Caching
  <2>. QED BY <1>0, <1>1, <1>3, <2>1
<1>4. CASE step \in Caching
  <2>1. step' \in {"cache sender", "report"}
    BY <1>4 DEF Advance, Caching
  <2>. QED BY <1>0, <1>1, <1>4, <2>1 DEF Caching
<1>5. CASE step = "report"
  <2>1. step' = "symbols"
    BY <1>5 DEF Advance
  <2>. QED BY <1>0, <1>1, <1>5, <2>1
<1>6. CASE step = "stat"
  <2>1. step' = "verify stat" /\ Awaiting
    BY <1>6 DEF Advance, Caching
  <2>. QED BY <1>0, <1>1, <1>6, <2>1
<1>. QED BY <1>2, <1>3, <1>4, <1>5, <1>6 DEF Commands

(* The old results of a command are removed before it starts, and no       *)
(* others.                                                                 *)
LEMMA Removed ==
  ASSUME ProfilerInv, ppc = "step", step \in Commands, RemoveOld,
         report' = IF step = "report" THEN "none" ELSE report
  PROVE  /\ FileTypes'
         /\ step \in Caching => UNCHANGED fileVars
         /\ step' = step /\ mode' = mode => Results'
<1>1. /\ csv' \in [Modes -> {NoFile, Stale} \cup 0..Repeat]
      /\ \A m \in Modes : csv'[m] = IF m = step THEN NoFile ELSE csv[m]
  BY DEF RemoveOld, ProfilerInv, FileTypes
<1>2. data' = IF step = "record" THEN "none" ELSE data
  BY DEF RemoveOld
<1>3. FileTypes'
  BY <1>1, <1>2 DEF ProfilerInv, FileTypes
<1>4. ASSUME step \in Caching PROVE UNCHANGED fileVars
  <2>1. step \notin Modes /\ step # "record" /\ step # "report"
    BY <1>4 DEF Caching, Modes
  <2>2. csv' = csv
    BY <1>1, <2>1 DEF ProfilerInv, FileTypes
  <2>. QED BY <1>2, <2>1, <2>2 DEF fileVars
<1>5. ASSUME step' = step, mode' = mode PROVE Results'
  <2>1. csv'["record"] = (IF step = "record" THEN NoFile ELSE csv["record"])
        /\ csv'["stat"] = IF step = "stat" THEN NoFile ELSE csv["stat"]
    BY <1>1 DEF Modes
  <2>2. NoFile # Stale
    BY DEF NoFile, Stale
  <2>3. step \in Verified => step # "record"
    BY DEF Verified, Sampled, Recorded
  <2>4. step \in Recorded => step # "report" /\ step # "record"
    BY DEF Recorded
  <2>5. step \in Sampled => step # "record"
    BY DEF Sampled, Recorded
  <2>6. Recorded' = Recorded /\ Sampled' = Sampled /\ Verified' = Verified
    BY <1>5 DEF Recorded, Sampled, Verified
  <2>7. step \notin {"verify record", "verify stat", "return"}
    BY DEF Commands, Caching
  <2>. QED BY <1>2, <1>5, <2>1, <2>2, <2>3, <2>4, <2>5, <2>6, <2>7 DEF ProfilerInv, Results
<1>. QED BY <1>3, <1>4, <1>5

(* Starting a command, or failing to.                                      *)
LEMMA ProfilerSpawns ==
  ASSUME ProfilerInv, Spawn
  PROVE  ProfilerInv'
<1>0. /\ ppc = "step" /\ step \in Commands /\ RemoveOld
      /\ report' = IF step = "report" THEN "none" ELSE report
      /\ UNCHANGED <<attempt, server, reader>>
  BY DEF Spawn
<1>1. /\ FileTypes'
      /\ step \in Caching => UNCHANGED fileVars
      /\ step' = step /\ mode' = mode => Results'
  BY <1>0, Removed
<1>2. CASE /\ ppc' = "poll" /\ expired' = FALSE /\ perf' = "running"
           /\ bpc' = IF step \in Modes THEN "begin" ELSE "none"
           /\ UNCHANGED <<mode, step, exitCode, staged>>
  <2>1. Results'
    BY <1>1, <1>2
  <2>2. ControlTypes' /\ Ending'
    BY <1>0, <1>2 DEF ProfilerInv, ControlTypes, Ending
  <2>3. Flags'
    BY <1>2 DEF ProfilerInv, Flags
  <2>4. WorkTypes'
    BY <1>0, <1>2 DEF ProfilerInv, WorkTypes
  <2>5. Command' /\ Benchmark'
    BY <1>0, <1>2, AtRest DEF Command, Benchmark, Awaiting, Benching, Serving
  <2>. QED BY <1>1, <2>1, <2>2, <2>3, <2>4, <2>5 DEF ProfilerInv
<1>3. CASE CommandFailed /\ UNCHANGED <<perf, bpc>>
  <2>0. UNCHANGED <<perf, benchmarkVars>>
    BY <1>0, <1>3 DEF benchmarkVars
  <2>1. CASE step \in Caching
    <3>1. Proceed
      BY <1>3, <2>1 DEF CommandFailed
    <3>2. /\ ppc' = "step" /\ Advance /\ UNCHANGED <<mode, exitCode, expired, staged>>
          /\ staged' \in BOOLEAN
      BY <3>1 DEF Proceed, ProfilerInv, Flags
    <3>3. ControlTypes' /\ Flags' /\ Ending'
      BY <1>0, <3>2, ControlsAdvance
    <3>4. FileTypes' /\ Results'
      BY <1>0, <1>1, <2>1, <3>2, CommandDone
    <3>. QED BY <1>0, <2>0, <3>2, <3>3, <3>4, QuietSteps DEF ProfilerInv
  <2>2. CASE step \notin Caching
    <3>1. Exit("failure")
      BY <1>3, <2>2 DEF CommandFailed
    <3>2. ControlTypes' /\ Flags' /\ Ending'
      BY <3>1, ControlsExit
    <3>3. ppc' = "exited" /\ UNCHANGED <<mode, step>>
      BY <3>1 DEF Exit
    <3>. QED BY <1>0, <1>1, <2>0, <3>2, <3>3, QuietSteps DEF ProfilerInv
  <2>. QED BY <2>1, <2>2
<1>. QED BY <1>2, <1>3 DEF Spawn

(* Looking at a child that runs.                                           *)
LEMMA ProfilerPolls ==
  ASSUME ProfilerInv, Poll
  PROVE  ProfilerInv'
<1>. USE DEF ProfilerInv, Poll, benchmarkVars, fileVars
<1>1. ControlTypes' /\ Flags' /\ Ending'
  BY DEF ControlTypes, Flags, Ending
<1>2. WorkTypes' /\ FileTypes'
  BY DEF WorkTypes, FileTypes
<1>3. Command' /\ Benchmark'
  BY DEF Command, Benchmark, Awaiting
<1>4. Results'
  BY DEF Results, Recorded, Sampled, Verified, Awaiting
<1>. QED BY <1>1, <1>2, <1>3, <1>4

(* The end of a command, waited for, with its workload ended or killed.    *)
LEMMA CommandEnds ==
  ASSUME ProfilerInv, Awaiting, perf' = "none", UNCHANGED <<attempt, server, reader, fileVars>>,
         bpc' = bpc \/ bpc' = "killed", bpc' \notin Benching,
         bpc' = "killed" => step \in Modes,
         CommandFailed \/ (Proceed /\ bpc' \in {"none", "ended"})
  PROVE  ProfilerInv'
<1>0. step \in Commands
  BY DEF ProfilerInv, Command
<1>1. WorkTypes'
  BY DEF ProfilerInv, WorkTypes
<1>2. CASE Proceed /\ bpc' \in {"none", "ended"}
  <2>1. /\ ppc' = "step" /\ Advance /\ UNCHANGED <<mode, exitCode, expired, staged>>
        /\ staged' \in BOOLEAN /\ ppc # "exited"
    BY <1>2 DEF Proceed, ProfilerInv, Flags, Awaiting
  <2>2. ControlTypes' /\ Flags' /\ Ending'
    BY <2>1, ControlsAdvance
  <2>3. FileTypes' /\ Results'
    BY <1>0, <2>1, CommandDone
  <2>4. Command' /\ Benchmark'
    BY <1>2, <2>1 DEF ProfilerInv, Command, Benchmark, Awaiting, Benching, Serving
  <2>. QED BY <1>1, <2>2, <2>3, <2>4 DEF ProfilerInv
<1>3. CASE Exit("failure")
  <2>1. ppc' = "exited" /\ UNCHANGED <<mode, step>>
    BY <1>3 DEF Exit
  <2>2. ControlTypes' /\ Flags' /\ Ending'
    BY <1>3, ControlsExit
  <2>3. FileTypes' /\ Results'
    BY <2>1, ResultsExit
  <2>4. Command' /\ Benchmark'
    BY <2>1 DEF ProfilerInv, Command, Benchmark, Awaiting, Benching, Serving
  <2>. QED BY <1>1, <2>2, <2>3, <2>4 DEF ProfilerInv
<1>4. CASE CommandFailed
  <2>1. CASE step \in Caching
    <3>1. Proceed /\ step \notin Modes
      BY <1>4, <2>1 DEF CommandFailed, Caching, Modes
    <3>2. bpc' \in {"none", "ended"}
      BY <3>1 DEF ProfilerInv, WorkTypes, Benching, Serving
    <3>. QED BY <1>2, <3>1, <3>2
  <2>2. CASE step \notin Caching
    BY <1>3, <1>4, <2>2 DEF CommandFailed
  <2>. QED BY <2>1, <2>2
<1>. QED BY <1>2, <1>4

(* kill() of the group ends the benchmark, if it runs.                     *)
LEMMA Killed ==
  ASSUME ProfilerInv, Awaiting, KillGroup
  PROVE  /\ bpc' = bpc \/ bpc' = "killed"
         /\ bpc' \notin Benching
         /\ bpc' = "killed" => step \in Modes
         /\ UNCHANGED <<attempt, server, reader>>
  BY DEF ProfilerInv, WorkTypes, Command, KillGroup, Awaiting, Benching, Serving

(* Waiting for a child that has ended by itself.                           *)
LEMMA ProfilerCollects ==
  ASSUME ProfilerInv, Collect
  PROVE  ProfilerInv'
<1>0. Awaiting /\ ppc = "poll" /\ perf' = "none" /\ UNCHANGED fileVars
  BY DEF Collect, Awaiting
<1>1. CASE perf = "ok"
  <2>1. Proceed /\ UNCHANGED <<bpc, attempt, server, reader>>
    BY <1>1 DEF Collect, benchmarkVars
  <2>2. bpc \in {"none", "ended"}
    BY <1>1 DEF ProfilerInv, Command
  <2>3. bpc' \in {"none", "ended"} /\ bpc' \notin Benching /\ bpc' # "killed"
    BY <2>1, <2>2 DEF Benching, Serving
  <2>. QED BY <1>0, <2>1, <2>3, CommandEnds
<1>2. CASE perf # "ok"
  <2>1. KillGroup /\ CommandFailed
    BY <1>2 DEF Collect
  <2>. QED BY <1>0, <2>1, Killed, CommandEnds
<1>. QED BY <1>1, <1>2

(* A child that has ended and cannot be waited for.                        *)
LEMMA ProfilerMisses ==
  ASSUME ProfilerInv, WaitFails
  PROVE  ProfilerInv'
<1>1. /\ Awaiting /\ ppc = "poll" /\ perf' = "none" /\ UNCHANGED fileVars
      /\ KillGroup /\ CommandFailed
  BY DEF WaitFails, Awaiting
<1>. QED BY <1>1, Killed, CommandEnds

(* Waiting for a child that was killed.                                    *)
LEMMA ProfilerReaps ==
  ASSUME ProfilerInv, Reap
  PROVE  ProfilerInv'
<1>1. /\ Awaiting /\ ppc = "reap" /\ perf' = "none" /\ UNCHANGED fileVars /\ CommandFailed
      /\ UNCHANGED <<bpc, attempt, server, reader>>
  BY DEF Reap, Awaiting, benchmarkVars
<1>2. bpc' \notin Benching /\ (bpc' = "killed" => step \in Modes)
  BY <1>1 DEF ProfilerInv, Command
<1>. QED BY <1>1, <1>2, CommandEnds

(* The deadline: the group is killed, whether or not the child has ended   *)
(* in the meantime.                                                        *)
LEMMA ProfilerTimesOut ==
  ASSUME ProfilerInv, Deadline
  PROVE  ProfilerInv'
<1>0. /\ ppc = "deadline" /\ Awaiting
      /\ UNCHANGED <<mode, step, exitCode, expired, staged, csv, data, report>>
  BY DEF Deadline, Awaiting, fileVars
<1>1. ppc' \in {"poll", "reap"}
  BY DEF Deadline
<1>2. ControlTypes' /\ Flags' /\ Ending'
  BY <1>0, <1>1 DEF ProfilerInv, ControlTypes, Flags, Ending
<1>3. FileTypes' /\ Results'
  BY <1>0, <1>1 DEF ProfilerInv, FileTypes, Results, Recorded, Sampled, Verified, Awaiting
<1>4. CASE PastDeadline
  <2>1. /\ ppc' = "reap" /\ KillGroup
        /\ perf' = IF perf = "running" THEN "failed" ELSE perf
    BY <1>4 DEF Deadline
  <2>2. bpc' = IF bpc \in {"none", "ended"} THEN bpc ELSE "killed"
    BY <2>1 DEF KillGroup
  <2>3. WorkTypes'
    BY <2>1, <2>2 DEF ProfilerInv, WorkTypes, KillGroup
  <2>4. Command'
    <3>1. perf' = "ok" => perf = "ok"
      BY <2>1
    <3>. QED BY <1>0, <2>1, <2>2, <3>1
         DEF ProfilerInv, WorkTypes, Command, Awaiting, Benching, Serving
  <2>5. Benchmark'
    BY <1>0, <2>1, <2>2 DEF ProfilerInv, WorkTypes, Benchmark, KillGroup, Serving
  <2>. QED BY <1>2, <1>3, <2>3, <2>4, <2>5 DEF ProfilerInv
<1>5. CASE ~PastDeadline
  <2>1. ppc' = "poll" /\ UNCHANGED <<perf, bpc, attempt, server, reader>>
    BY <1>5 DEF Deadline, benchmarkVars
  <2>2. WorkTypes' /\ Command' /\ Benchmark'
    BY <1>0, <2>1 DEF ProfilerInv, WorkTypes, Command, Benchmark, Awaiting
  <2>. QED BY <1>2, <1>3, <2>2 DEF ProfilerInv
<1>. QED BY <1>4, <1>5

(* Checking results.                                                       *)
LEMMA ProfilerVerifies ==
  ASSUME ProfilerInv, Verify
  PROVE  ProfilerInv'
<1>0. /\ ppc = "step" /\ step \in Checks /\ UNCHANGED <<perf, benchmarkVars, fileVars>>
  BY DEF Verify, Checks
<1>1. CASE ~Passes
  <2>1. Exit("failure")
    BY <1>1 DEF Verify
  <2>2. ppc' = "exited" /\ UNCHANGED <<mode, step>>
    BY <2>1 DEF Exit
  <2>3. ControlTypes' /\ Flags' /\ Ending'
    BY <2>1, ControlsExit
  <2>. QED BY <1>0, <2>2, <2>3, QuietSteps, ResultsExit DEF ProfilerInv
<1>2. CASE Passes
  <2>1. /\ ppc' = "step" /\ Advance /\ UNCHANGED <<mode, exitCode, expired, staged>>
        /\ staged' \in BOOLEAN
    BY <1>2 DEF Verify, Proceed, ProfilerInv, Flags
  <2>2. ControlTypes' /\ Flags' /\ Ending'
    BY <1>0, <2>1, ControlsAdvance
  <2>3. WorkTypes' /\ Command' /\ Benchmark'
    BY <1>0, <2>1, QuietSteps
  <2>4. csv' = csv /\ data' = data /\ report' = report
    BY <1>0 DEF fileVars
  <2>5. FileTypes'
    BY <2>4 DEF ProfilerInv, FileTypes
  <2>6. Results'
    <3>. USE DEF ProfilerInv, Results, Recorded, Sampled, Verified
    <3>1. CASE step = "verify record"
      <4>1. step' = "data" /\ csv["record"] = Repeat
        BY <1>2, <2>1, <3>1 DEF Advance, Passes, VerifyCsv
      <4>. QED BY <2>1, <2>4, <4>1
    <3>2. CASE step = "data"
      <4>1. step' = "cache server" /\ data = "samples"
        BY <1>2, <2>1, <3>2 DEF Advance, Passes
      <4>. QED BY <2>1, <2>4, <3>2, <4>1
    <3>3. CASE step = "symbols"
      <4>1. step' = (IF mode = "both" THEN "stat" ELSE "return") /\ report = "resolved"
        BY <1>2, <2>1, <3>3 DEF Advance, Passes, ValidateReport
      <4>2. ~Awaiting'
        BY <2>1 DEF Awaiting
      <4>3. step' = "return" /\ mode' \in {"stat", "both"} => mode = "stat"
        BY <2>1, <4>1
      <4>4. mode # "stat"
        BY <3>3 DEF ControlTypes
      <4>. QED BY <2>1, <2>4, <3>3, <4>1, <4>2, <4>3, <4>4
    <3>4. CASE step = "verify stat"
      <4>1. step' = "return" /\ csv["stat"] = Repeat
        BY <1>2, <2>1, <3>4 DEF Advance, Passes, VerifyCsv
      <4>. QED BY <2>1, <2>4, <3>4, <4>1
    <3>. QED BY <1>0, <3>1, <3>2, <3>3, <3>4 DEF Checks
  <2>. QED BY <2>2, <2>3, <2>5, <2>6 DEF ProfilerInv
<1>. QED BY <1>1, <1>2

(* The normal end.                                                         *)
LEMMA ProfilerReturns ==
  ASSUME ProfilerInv, Done
  PROVE  ProfilerInv'
<1>1. /\ ppc = "step" /\ step = "return" /\ Exit("success")
      /\ UNCHANGED <<perf, benchmarkVars, fileVars>>
  BY DEF Done
<1>2. ppc' = "exited" /\ UNCHANGED <<mode, step>>
  BY <1>1 DEF Exit
<1>3. ControlTypes' /\ Flags' /\ Ending'
  BY <1>1, ControlsExit
<1>. QED BY <1>1, <1>2, <1>3, QuietSteps, ResultsExit DEF ProfilerInv

(* The deadline passes.                                                    *)
LEMMA TimePasses ==
  ASSUME ProfilerInv, Clock
  PROVE  ProfilerInv'
<1>. USE DEF ProfilerInv, Clock, benchmarkVars, fileVars
<1>1. ControlTypes' /\ Flags' /\ Ending'
  BY DEF ControlTypes, Flags, Ending
<1>2. WorkTypes' /\ FileTypes'
  BY DEF WorkTypes, FileTypes
<1>3. Command' /\ Benchmark'
  BY DEF Command, Benchmark, Awaiting
<1>4. Results'
  BY DEF Results, Recorded, Sampled, Verified, Awaiting
<1>. QED BY <1>1, <1>2, <1>3, <1>4

(* Steps of others leave the controller's own state as it is.              *)
LEMMA ControlSame ==
  ASSUME ProfilerInv, UNCHANGED controllerVars
  PROVE  ControlTypes' /\ Flags' /\ Ending'
  BY DEF ProfilerInv, ControlTypes, Flags, Ending, controllerVars

(* The end of perf writes samples or a report only for the step that asks  *)
(* for it.                                                                 *)
LEMMA PerfLeaves ==
  ASSUME ProfilerInv, PerfEnds
  PROVE  ProfilerInv'
<1>0. Awaiting /\ step \in Commands /\ UNCHANGED <<bpc, attempt, server, reader, csv>>
      /\ UNCHANGED <<mode, step, ppc>>
  BY DEF PerfEnds, ProfilerInv, Command, benchmarkVars, controllerVars
<1>1. perf' \in {"ok", "failed"} /\ (perf' = "ok" => bpc \in {"none", "ended"})
  BY DEF PerfEnds
<1>2. /\ data' \in {"none", "empty", "samples"} /\ (step # "record" => data' = data)
      /\ report' \in {"none", "unresolved", "resolved"} /\ (step # "report" => report' = report)
  BY DEF PerfEnds, ProfilerInv, FileTypes
<1>3. WorkTypes' /\ FileTypes'
  BY <1>0, <1>1, <1>2 DEF ProfilerInv, WorkTypes, FileTypes
<1>4. Command' /\ Benchmark'
  BY <1>0, <1>1 DEF ProfilerInv, Command, Benchmark, Awaiting
<1>5. Results'
  <2>1. step \in Sampled => step # "record"
    BY DEF Sampled, Recorded
  <2>2. step \in Recorded => step # "report"
    BY DEF Recorded
  <2>3. Recorded' = Recorded /\ Sampled' = Sampled /\ Verified' = Verified /\ Awaiting' = Awaiting
    BY <1>0 DEF Recorded, Sampled, Verified, Awaiting
  <2>. QED BY <1>0, <1>2, <2>1, <2>2, <2>3 DEF ProfilerInv, Results
<1>. QED BY <1>3, <1>4, <1>5, ControlSame DEF ProfilerInv, PerfEnds

(* Steps that write no results.                                            *)
LEMMA ResultsSame ==
  ASSUME ProfilerInv, UNCHANGED <<controllerVars, fileVars>>
  PROVE  FileTypes' /\ Results'
<1>1. FileTypes'
  BY DEF ProfilerInv, FileTypes, fileVars
<1>2. Results'
  BY DEF ProfilerInv, Results, Recorded, Sampled, Verified, Awaiting, fileVars, controllerVars
<1>. QED BY <1>1, <1>2

(* The benchmark writes rows to the file of the current mode only.         *)
LEMMA RowWritten ==
  ASSUME ProfilerInv, bpc \in Benching, NEW n \in 0..Repeat, csv' = [csv EXCEPT ![step] = n],
         UNCHANGED <<controllerVars, data, report>>
  PROVE  FileTypes' /\ Results'
<1>0. step \in Modes /\ Awaiting
  BY DEF ProfilerInv, Command, Awaiting
<1>1. n # Stale /\ n \in {NoFile, Stale} \cup 0..Repeat
  BY DEF Stale
<1>2. /\ csv' \in [Modes -> {NoFile, Stale} \cup 0..Repeat]
      /\ \A m \in Modes : csv'[m] = IF m = step THEN n ELSE csv[m]
  BY <1>0, <1>1 DEF ProfilerInv, FileTypes
<1>3. FileTypes'
  BY <1>2 DEF ProfilerInv, FileTypes
<1>4. UNCHANGED <<mode, step, ppc>>
  BY DEF controllerVars
<1>5. Recorded' = Recorded /\ Sampled' = Sampled /\ Verified' = Verified /\ Awaiting' = Awaiting
  BY <1>4 DEF Recorded, Sampled, Verified, Awaiting
<1>6. step \in Verified => step # "record"
  BY DEF Verified, Sampled, Recorded
<1>7. csv'["record"] = (IF step = "record" THEN n ELSE csv["record"])
      /\ csv'["stat"] = IF step = "stat" THEN n ELSE csv["stat"]
  BY <1>2 DEF Modes
<1>8. step # "return"
  BY <1>0 DEF Modes
<1>9. Results'
  BY <1>1, <1>4, <1>5, <1>6, <1>7, <1>8 DEF ProfilerInv, Results
<1>. QED BY <1>3, <1>9

(* The steps of a benchmark that succeed.                                  *)
LEMMA BenchmarkRuns ==
  ASSUME ProfilerInv, OpenCsv \/ StartServer \/ LoadServer \/ AwaitExit \/ WriteRow
  PROVE  ProfilerInv'
<1>. USE DEF Runs
<1>0. /\ bpc \in Benching /\ bpc' \in Benching \cup {"ended"}
      /\ UNCHANGED <<controllerVars, perf, data, report>>
  BY DEF OpenCsv, StartServer, LoadServer, AwaitExit, WriteRow, Benching, Serving
<1>1. ControlTypes' /\ Flags' /\ Ending'
  BY <1>0, ControlSame
<1>2. UNCHANGED <<mode, step, ppc>>
  BY <1>0 DEF controllerVars
<1>3. Command'
  <2>1. ppc \in {"poll", "deadline"} /\ step \in Modes /\ perf # "ok"
    BY <1>0 DEF ProfilerInv, Command, Benching, Serving
  <2>2. perf' = perf /\ bpc' # "killed"
    BY <1>0 DEF Benching, Serving
  <2>. QED BY <1>2, <2>1, <2>2 DEF ProfilerInv, Command, Awaiting
<1>4. WorkTypes' /\ Benchmark'
  <2>. USE ProfilerAssumption DEF ProfilerInv, WorkTypes, Benchmark, Serving
  <2>1. CASE OpenCsv
    BY <2>1 DEF OpenCsv
  <2>2. CASE StartServer
    BY <2>2 DEF StartServer
  <2>3. CASE LoadServer
    BY <2>3 DEF LoadServer
  <2>4. CASE AwaitExit
    BY <2>4 DEF AwaitExit
  <2>5. CASE WriteRow
    BY <2>5 DEF WriteRow, MoreRuns
  <2>. QED BY <2>1, <2>2, <2>3, <2>4, <2>5
<1>5. FileTypes' /\ Results'
  <2>1. CASE OpenCsv
    <3>1. csv' = [csv EXCEPT ![step] = 0] /\ 0 \in 0..Repeat
      BY <2>1, ProfilerAssumption DEF OpenCsv
    <3>. QED BY <1>0, <3>1, RowWritten
  <2>2. CASE WriteRow
    <3>1. csv' = [csv EXCEPT ![step] = attempt] /\ bpc = "verify"
      BY <2>2 DEF WriteRow
    <3>2. attempt \in 0..Repeat
      BY <3>1, ProfilerAssumption DEF ProfilerInv, Benchmark, Serving
    <3>. QED BY <1>0, <3>1, <3>2, RowWritten
  <2>3. CASE StartServer \/ LoadServer \/ AwaitExit
    <3>1. UNCHANGED <<controllerVars, fileVars>>
      BY <1>0, <2>3 DEF StartServer, LoadServer, AwaitExit, fileVars
    <3>. QED BY <3>1, ResultsSame
  <2>. QED BY <2>1, <2>2, <2>3
<1>. QED BY <1>1, <1>3, <1>4, <1>5 DEF ProfilerInv

(* The benchmark fails, or its server or reader is lost.                   *)
LEMMA BenchmarkStops ==
  ASSUME ProfilerInv, BenchmarkFails \/ ServerEnds \/ ReaderEnds
  PROVE  ProfilerInv'
<1>0. /\ UNCHANGED <<controllerVars, fileVars, perf, attempt>>
      /\ bpc' = bpc \/ (bpc \in Benching /\ bpc' = "ended")
      /\ bpc' = "ended" /\ bpc # "ended" => server' # "running" /\ reader' # "running"
  BY DEF BenchmarkFails, ServerEnds, ReaderEnds, KillSession, Runs, Benching, Serving, fileVars
<1>1. /\ server' \in {server, "ended", "success"} /\ reader' \in {reader, "ended"}
  BY DEF BenchmarkFails, ServerEnds, ReaderEnds, KillSession
<1>2. ControlTypes' /\ Flags' /\ Ending' /\ FileTypes' /\ Results'
  BY <1>0, ControlSame, ResultsSame
<1>3. UNCHANGED <<mode, step, ppc>>
  BY <1>0 DEF controllerVars
<1>4. WorkTypes'
  BY <1>0, <1>1 DEF ProfilerInv, WorkTypes
<1>5. Command'
  BY <1>0, <1>3 DEF ProfilerInv, Command, Awaiting, Benching, Serving
<1>6. Benchmark'
  BY <1>0, <1>1 DEF ProfilerInv, Benchmark, Serving
<1>. QED BY <1>2, <1>4, <1>5, <1>6 DEF ProfilerInv

(* Every step keeps the invariant.                                         *)
LEMMA ProfilerNext ==
  ASSUME ProfilerInv, [Next]_vars
  PROVE  ProfilerInv'
<1>1. CASE Controller
  BY <1>1, ProfilerStages, ProfilerSpawns, ProfilerPolls, ProfilerCollects, ProfilerMisses,
     ProfilerTimesOut, ProfilerReaps, ProfilerVerifies, ProfilerReturns DEF Controller
<1>2. CASE Clock
  BY <1>2, TimePasses
<1>3. CASE Workload
  BY <1>3, PerfLeaves, BenchmarkRuns, BenchmarkStops DEF Workload
<1>4. CASE Exited \/ UNCHANGED vars
  BY <1>4, ProfilerSame DEF Exited
<1>. QED BY <1>1, <1>2, <1>3, <1>4 DEF Next

(* The controller, its child, the benchmark and the result files agree at  *)
(* every point of runProfile() and runCommand().                           *)
THEOREM ProfilerInvariant == Spec => []ProfilerInv
  BY ProfilerInit, ProfilerNext, PTL DEF Spec

(* Every variable of the profiler keeps its type, and the benchmark never  *)
(* writes more rows than runs were asked for.                              *)
THEOREM ProfilerTypesHold == Spec => []TypeOK
<1>1. ProfilerInv => TypeOK
  <2>. SUFFICES ASSUME ProfilerInv PROVE TypeOK
    OBVIOUS
  <2>1. step \in {"stage", "verify record", "data", "symbols", "verify stat", "return"} \cup Commands
    BY DEF ProfilerInv, ControlTypes, Checks
  <2>2. expired \in BOOLEAN /\ staged \in BOOLEAN
    BY DEF ProfilerInv, Flags
  <2>. QED BY <2>1, <2>2, Zenon DEF ProfilerInv, ControlTypes, WorkTypes, FileTypes, TypeOK
<1>. QED BY <1>1, ProfilerInvariant, PTL

(* However runCommand()'s deadline races the end of the command, on exit   *)
(* no child is left to wait for, the copies are removed, and server and    *)
(* reader are gone unless the benchmark was killed.                        *)
THEOREM CleanExitHolds == Spec => []CleanExit
<1>1. ProfilerInv => CleanExit
  BY DEF ProfilerInv, CleanExit, WorkTypes, Command, Benchmark, Ending, Awaiting, Benching, Serving
<1>. QED BY <1>1, ProfilerInvariant, PTL

(* runProfile() succeeds only when each mode asked for has all its rows,   *)
(* with samples and resolved symbols, whatever an earlier profile left and *)
(* whatever perf reports.                                                  *)
THEOREM SuccessMeansMeasuredHolds == Spec => []SuccessMeansMeasured
<1>1. ProfilerInv => SuccessMeansMeasured
  BY DEF ProfilerInv, SuccessMeansMeasured, Results, Ending, Recorded, Sampled, Verified
<1>. QED BY <1>1, ProfilerInvariant, PTL
=============================================================================

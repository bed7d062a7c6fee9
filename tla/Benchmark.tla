------------------------------ MODULE Benchmark ------------------------------
(***************************************************************************)
(* The benchmark harness (crates/bench): BenchmarkRunner runs a scenario   *)
(* against one candidate proxy after another.  A local run starts a mock   *)
(* upstream (a task told to stop through a watch channel), launches the    *)
(* candidate as a child process, and then, window by window, warms it up   *)
(* and measures it; the runner, the mock, the child, the load generator's  *)
(* workers and timer, and the resource monitor's task all run concurrently.*)
(* With --pgo (profiling/pgo.rs) a profiling run, run 0 here, comes first: *)
(* an instrumented build is put under load, and the candidate is built     *)
(* again from its profile; run 1 measures the build that was there before, *)
(* run 2 what the binary directory holds then.                             *)
(*                                                                         *)
(* Latencies, bodies, rates and CPU samples are abstracted away: a request *)
(* ends in one of Outcomes, and a result is the window it belongs to.      *)
(* Delays and timeouts are steps that may happen at any moment.            *)
(* SIGKILL takes effect at once.                                           *)
(***************************************************************************)
EXTENDS Integers, Sequences, Functions, FiniteSets

CONSTANTS
    Runs,          \* number of candidate runs, one after another
    Windows,       \* measurement windows of a scenario
    Concurrency,   \* workers of a measurement window
    MaxRequests    \* bound: requests sent by one run of the load generator

ASSUME BenchmarkAssumption ==
    /\ Runs \in Nat \ {0}
    /\ Windows \in Nat \ {0}
    /\ Concurrency \in Nat \ {0}
    /\ MaxRequests \in Nat

VARIABLES
    mode,        \* "local" or "external" run_all, or "pgo" (run_pgo_delta)
    pc,          \* where the runner is
    run,         \* the candidate run it is in
    window,      \* the measurement window of that run
    mock,        \* run -> its mock upstream's task
    signal,      \* run -> the sender of the mock's shutdown channel
    child,       \* run -> its candidate process
    running,     \* the load generator's stop flag, TRUE while load is offered
    worker,      \* worker -> what its task is doing
    recorder,    \* the counters the load generator records into
    sent,        \* history: requests sent by this run of the load generator
    monitoring,  \* windows whose ResourceMonitor flag is still set
    samplers,    \* windows whose ResourceMonitor task has not ended
    results,     \* the results gathered so far, in order
    failed,      \* runs whose run_candidate returned an error
    elsewhere,   \* --binary-dir is not the target/release of the PGO builds
    built,       \* what target/release holds
    binary,      \* what the binary directory holds
    baseline,    \* what pgo-baseline holds
    profile,     \* the profile directory: "none", "raw" or "merged"
    ran          \* history: run -> the build its process was started from

builds == <<elsewhere, built, binary, baseline, profile, ran>>
load == <<running, worker, recorder, sent>>
monitors == <<monitoring, samplers>>
vars == <<mode, pc, run, window, mock, signal, child, load, monitors, results, failed, builds>>

Workers == 1..Concurrency
Outcomes == {"success", "error_response", "failure"}
Alive == {"starting", "serving", "draining"}
ThisWindow == <<run, window>>
NewRecorder == [successful |-> 0, failed |-> 0, error_responses |-> 0]

Init ==
    /\ mode \in {"local", "external"} \union (IF Runs = 2 THEN {"pgo"} ELSE {})
    /\ IF mode = "pgo" THEN pc = "preserve" /\ run = 0 ELSE pc = "start" /\ run = 1
    /\ window = 1
    /\ mock = [i \in 0..Runs |-> "none"]
    /\ signal = [i \in 0..Runs |-> "open"]
    /\ child = [i \in 0..Runs |-> "none"]
    /\ running = FALSE
    /\ worker = [w \in Workers |-> "none"]
    /\ recorder = NewRecorder
    /\ sent = 0
    /\ monitoring = {} /\ samplers = {}
    /\ results = <<>>
    /\ failed = {}
    /\ elsewhere \in IF mode = "pgo" THEN BOOLEAN ELSE {FALSE}
    /\ built = "found" /\ binary = "found" /\ baseline = "none"
    /\ profile = "none"
    /\ ran = [i \in 0..Runs |-> "none"]

-----------------------------------------------------------------------------
(* run_all and run_pgo_delta: what happens when run_candidate returns. *)

NextRun ==
    \/ run = 0 /\ UNCHANGED <<run, window>> /\ pc' = "merge"
    \/ run \in 1..Runs - 1 /\ run' = run + 1 /\ window' = 1 /\ pc' = "start"
    \/ run = Runs /\ UNCHANGED <<run, window>> /\ pc' = "done"

\* Mutant: a failed run ends run_all.
FailRunStopsAll ==
    /\ failed' = failed \union {run}
    /\ signal' = [signal EXCEPT ![run] = IF @ = "sent" THEN @ ELSE "dropped"]
    /\ child' = [child EXCEPT ![run] = IF @ \in Alive THEN "dead" ELSE @]
    /\ pc' = "done" /\ UNCHANGED <<run, window, results>>

\* `?` leaves run_candidate: the running candidate is dropped (kill_on_drop)
\* and so is the sender of the mock's channel, with nothing sent on it.
\* run_all goes on with the rest; run_pgo_delta returns the error, and the
\* results of an earlier build are lost with it.
FailRun ==
    /\ failed' = failed \union {run}
    /\ signal' = [signal EXCEPT ![run] = IF @ = "sent" THEN @ ELSE "dropped"]
    /\ child' = [child EXCEPT ![run] = IF @ \in Alive THEN "dead" ELSE @]
    /\ IF mode = "pgo"
       THEN pc' = "done" /\ results' = <<>> /\ UNCHANGED <<run, window>>
       ELSE NextRun /\ UNCHANGED results

-----------------------------------------------------------------------------
(* run_candidate, part 1: the mock upstream (start_mock_upstream). *)

\* The mock gets a fresh port and a task.  An external candidate has
\* neither a mock nor a child.
StartRun ==
    /\ pc = "start"
    /\ IF mode = "external"
       THEN pc' = "cold" /\ UNCHANGED mock
       ELSE pc' = "connect" /\ mock' = [mock EXCEPT ![run] = "starting"]
    /\ UNCHANGED <<mode, run, window, signal, child, load, monitors, results, failed, builds>>

\* No port could be had for it.
ProbeFails ==
    /\ pc = "start" /\ mode # "external"
    /\ FailRun
    /\ UNCHANGED <<mode, mock, load, monitors, builds>>

MockAccepts ==
    /\ pc = "connect" /\ mock[run] = "listening"
    /\ pc' = "launch"
    /\ UNCHANGED <<mode, run, window, mock, signal, child, load, monitors, results, failed, builds>>

\* None of the 200 connection attempts succeeded.
MockTimeout ==
    /\ pc = "connect"
    /\ FailRun
    /\ UNCHANGED <<mode, mock, load, monitors, builds>>

\* The task of MockUpstream::run binds, or fails and ends.
MockBinds(i) ==
    /\ mock[i] = "starting"
    /\ \E s \in {"listening", "failed"} : mock' = [mock EXCEPT ![i] = s]
    /\ UNCHANGED <<mode, pc, run, window, signal, child, load, monitors, results, failed, builds>>

\* changed() returned and the value is true.  When the sender was dropped,
\* changed() fails and the value is still false: the loop goes on.
MockStops(i) ==
    /\ mock[i] = "listening" /\ signal[i] = "sent"
    /\ mock' = [mock EXCEPT ![i] = "stopped"]
    /\ UNCHANGED <<mode, pc, run, window, signal, child, load, monitors, results, failed, builds>>

-----------------------------------------------------------------------------
(* run_candidate, part 2: the candidate process (RunningCandidate). *)

\* Mutant: both runs of the comparison use the configured directory.
BuildConfigured == IF run = 0 THEN built ELSE binary

\* The build in the directory that this run launches from: target/release for
\* the profiling run, standard_dir and then pgo_dir for run_pgo_delta's.
Build ==
    CASE run = 0 -> built
      [] mode = "pgo" /\ run = 1 -> baseline
      [] OTHER -> binary

Launch ==
    /\ pc = "launch"
    /\ child' = [child EXCEPT ![run] = "starting"]
    /\ ran' = [ran EXCEPT ![run] = Build]
    /\ pc' = "ready"
    /\ UNCHANGED <<mode, run, window, mock, signal, load, monitors, results, failed,
                   elsewhere, built, binary, baseline, profile>>

\* No binary, or the process could not be spawned.
LaunchFails ==
    /\ pc = "launch"
    /\ FailRun
    /\ UNCHANGED <<mode, mock, load, monitors, builds>>

\* wait_until_ready: the listen address accepts a connection, the child's own
\* or that of another process which has the address.
Ready ==
    /\ pc = "ready"
    /\ pc' = IF run = 0 THEN "profile" ELSE "cold"
    /\ UNCHANGED <<mode, run, window, mock, signal, child, load, monitors, results, failed, builds>>

\* STARTUP_TIMEOUT passed without a connection being accepted.
ReadyTimeout ==
    /\ pc = "ready"
    /\ FailRun
    /\ UNCHANGED <<mode, mock, load, monitors, builds>>

\* The child begins to accept connections, or exits: a crash at any time,
\* or the end of its own shutdown after SIGTERM.  An instrumented process
\* that returns from `main`, and is not killed by the signal, writes its profile.
ChildSteps(i) ==
    /\ \/ /\ child[i] = "starting"
          /\ child' = [child EXCEPT ![i] = "serving"]
          /\ UNCHANGED profile
       \/ /\ child[i] \in Alive
          /\ child' = [child EXCEPT ![i] = "dead"]
          /\ profile' \in IF i = 0 THEN {profile, "raw"} ELSE {profile}
    /\ UNCHANGED <<mode, pc, run, window, mock, signal, load, monitors, results, failed,
                   elsewhere, built, binary, baseline, ran>>

-----------------------------------------------------------------------------
(* LoadGenerator::run, by the warm-up and by the measurement. *)

\* n workers and a timer are spawned, recording into a new recorder.
StartLoad(n) ==
    /\ running' = TRUE
    /\ worker' = [w \in Workers |-> IF w <= n THEN "loop" ELSE "none"]
    /\ recorder' = NewRecorder
    /\ sent' = 0

\* WarmupProtocol::execute: half the concurrency, a throwaway recorder.
WarmUp ==
    /\ pc = "cold"
    /\ StartLoad(IF Concurrency = 1 THEN 1 ELSE Concurrency \div 2)
    /\ pc' = "warm"
    /\ UNCHANGED <<mode, run, window, mock, signal, child, monitors, results, failed, builds>>

\* The timer's task clears the flag when the duration has passed.
TimerFires ==
    /\ running
    /\ running' = FALSE
    /\ UNCHANGED <<mode, pc, run, window, mock, signal, child,
                   worker, recorder, sent, monitors, results, failed, builds>>

\* A worker reads the flag at the head of its loop ...
WorkerLoops(w) ==
    /\ worker[w] = "loop"
    /\ \/ /\ running
          /\ sent + Cardinality({v \in Workers : worker[v] = "sending"}) < MaxRequests
          /\ worker' = [worker EXCEPT ![w] = "sending"]
       \/ /\ ~running
          /\ worker' = [worker EXCEPT ![w] = "done"]
    /\ UNCHANGED <<mode, pc, run, window, mock, signal, child,
                   running, recorder, sent, monitors, results, failed, builds>>

\* ... sleeps until its request is due when the load is paced, and sends it,
\* whatever has become of the flag ...
WorkerSends(w) ==
    /\ worker[w] = "sending"
    /\ worker' = [worker EXCEPT ![w] = "awaiting"]
    /\ sent' = sent + 1
    /\ UNCHANGED <<mode, pc, run, window, mock, signal, child,
                   running, recorder, monitors, results, failed, builds>>

\* record_success, record_error_response (which also calls record_success)
\* and record_failure.
Recorded(outcome) ==
    CASE outcome = "success"        -> [recorder EXCEPT !.successful = @ + 1]
      [] outcome = "error_response" -> [recorder EXCEPT !.successful = @ + 1,
                                                        !.error_responses = @ + 1]
      [] outcome = "failure"        -> [recorder EXCEPT !.failed = @ + 1]

\* ... and records how it ended, whoever answered it.
WorkerRecords(w) ==
    /\ worker[w] = "awaiting"
    /\ \E outcome \in Outcomes : recorder' = Recorded(outcome)
    /\ worker' = [worker EXCEPT ![w] = "loop"]
    /\ UNCHANGED <<mode, pc, run, window, mock, signal, child,
                   running, sent, monitors, results, failed, builds>>

-----------------------------------------------------------------------------
(* measure_all and measure_one. *)

MeasureOne ==
    /\ pc = "measure"
    /\ monitoring' = monitoring \union {ThisWindow}
    /\ samplers' = samplers \union {ThisWindow}
    /\ StartLoad(Concurrency)
    /\ pc' = "load"
    /\ UNCHANGED <<mode, run, window, mock, signal, child, results, failed, builds>>

\* Mutant: run returns as soon as the time is up.
LoadEndsAtTimer ==
    /\ pc \in {"warm", "load"} /\ ~running
    /\ IF pc = "warm"
       THEN pc' = "measure" /\ UNCHANGED monitoring
       ELSE pc' = "sampled" /\ monitoring' = monitoring \ {ThisWindow}
    /\ UNCHANGED <<mode, run, window, mock, signal, child, load,
                   samplers, results, failed, builds>>

\* Every worker's handle has been awaited.  After a warm-up the measurement
\* follows; after a measurement ResourceMonitor::stop clears its flag.
LoadEnds ==
    /\ pc \in {"warm", "load"}
    /\ \A w \in Workers : worker[w] \in {"none", "done"}
    /\ IF pc = "warm"
       THEN pc' = "measure" /\ UNCHANGED monitoring
       ELSE pc' = "sampled" /\ monitoring' = monitoring \ {ThisWindow}
    /\ UNCHANGED <<mode, run, window, mock, signal, child, load,
                   samplers, results, failed, builds>>

\* The monitor's task wakes from its sleep and finds its flag cleared.
SamplerEnds(id) ==
    /\ id \in samplers \ monitoring
    /\ samplers' = samplers \ {id}
    /\ UNCHANGED <<mode, pc, run, window, mock, signal, child, load,
                   monitoring, results, failed, builds>>

\* Mutant: the monitor's task is not awaited.
SummarizeAtOnce ==
    /\ pc = "sampled"
    /\ results' = Append(results, ThisWindow)
    /\ pc' = "settle"
    /\ UNCHANGED <<mode, run, window, mock, signal, child, load, monitors, failed, builds>>

\* The monitor's task has been awaited: the counters are read (summarize)
\* and the result is pushed.
Summarize ==
    /\ pc = "sampled" /\ ThisWindow \notin samplers
    /\ results' = Append(results, ThisWindow)
    /\ pc' = "settle"
    /\ UNCHANGED <<mode, run, window, mock, signal, child, load, monitors, failed, builds>>

\* INTER_RUN_SETTLE, then the next combination of the scenario.
Settle ==
    /\ pc = "settle"
    /\ IF window < Windows
       THEN window' = window + 1 /\ pc' = "cold"
       ELSE UNCHANGED window /\ pc' = "stop"
    /\ UNCHANGED <<mode, run, mock, signal, child, load, monitors, results, failed, builds>>

-----------------------------------------------------------------------------
(* PgoPipeline::run, before run_pgo_delta. *)

\* `?` in main: the error ends the benchmark.
PgoFails ==
    /\ FailRun
    /\ UNCHANGED <<mode, mock, load, monitors, builds>>

\* main copies the binary it finds to pgo-baseline before it is overwritten.
Preserve ==
    /\ pc = "preserve"
    /\ \/ /\ baseline' = binary /\ pc' = "instrument"
          /\ UNCHANGED <<mode, run, window, mock, signal, child, load, monitors, results, failed,
                         elsewhere, built, binary, profile, ran>>
       \/ PgoFails

\* run_cargo puts a build into target/release, or fails and leaves it alone.
run_cargo(b) ==
    /\ built' = b
    /\ binary' = IF elsewhere THEN binary ELSE b

\* Pass 1 empties the profile directory and builds.
build_instrumented ==
    /\ pc = "instrument"
    /\ \/ /\ run_cargo("instrumented") /\ profile' = "none" /\ pc' = "collect"
          /\ UNCHANGED <<mode, run, window, mock, signal, child, load, monitors, results, failed,
                         elsewhere, baseline, ran>>
       \/ PgoFails

\* Pass 2: a mock is spawned, and the candidate launched without waiting for
\* it; one recorder serves all the loads.
collect_profile ==
    /\ pc = "collect"
    /\ \/ /\ mock' = [mock EXCEPT ![0] = "starting"]
          /\ recorder' = NewRecorder /\ sent' = 0
          /\ pc' = "launch"
          /\ UNCHANGED <<mode, run, window, signal, child, running, worker,
                         monitors, results, failed, builds>>
       \/ PgoFails

ProfileLoad ==
    /\ pc = "profile"
    /\ running' = TRUE
    /\ worker' = [w \in Workers |-> "loop"]
    /\ pc' = "profiling"
    /\ UNCHANGED <<mode, run, window, mock, signal, child, recorder, sent,
                   monitors, results, failed, builds>>

\* The next concurrency and size, or the end: the candidate is stopped, then
\* the mock.
ProfileLoadEnds ==
    /\ pc = "profiling"
    /\ \A w \in Workers : worker[w] = "done"
    /\ IF window < Windows
       THEN window' = window + 1 /\ pc' = "profile"
       ELSE UNCHANGED window /\ pc' = "stop"
    /\ UNCHANGED <<mode, run, mock, signal, child, load, monitors, results, failed, builds>>

\* Mutant: an empty run is not noticed.
MergeUnchecked ==
    /\ pc = "merge"
    /\ \/ /\ profile = "raw"
          /\ profile' = "merged" /\ pc' = "optimize"
          /\ UNCHANGED <<mode, run, window, mock, signal, child, load, monitors, results, failed,
                         elsewhere, built, binary, baseline, ran>>
       \/ PgoFails

\* collect_profile refuses a run without requests, merge_profiles one without
\* .profraw files; the merge itself may fail.
merge_profiles ==
    /\ pc = "merge"
    /\ \/ /\ recorder.successful + recorder.failed > 0 /\ profile = "raw"
          /\ profile' = "merged" /\ pc' = "optimize"
          /\ UNCHANGED <<mode, run, window, mock, signal, child, load, monitors, results, failed,
                         elsewhere, built, binary, baseline, ran>>
       \/ PgoFails

\* Pass 3, and on to run_pgo_delta.
build_optimized ==
    /\ pc = "optimize"
    /\ \/ /\ run_cargo("optimized")
          /\ run' = 1 /\ window' = 1 /\ pc' = "start"
          /\ UNCHANGED <<mode, mock, signal, child, load, monitors, results, failed,
                         elsewhere, baseline, profile, ran>>
       \/ PgoFails

-----------------------------------------------------------------------------
(* run_candidate, part 3: tear-down. *)

\* RunningCandidate::stop sends SIGTERM to a child it has ...
Stop ==
    /\ pc = "stop"
    /\ child' = [child EXCEPT ![run] = IF @ \in Alive THEN "draining" ELSE @]
    /\ pc' = "grace"
    /\ UNCHANGED <<mode, run, window, mock, signal, load, monitors, results, failed, builds>>

\* Mutant: the exit is not waited for.
GraceWithoutWait ==
    /\ pc = "grace"
    /\ pc' = "shutdown"
    /\ UNCHANGED <<mode, run, window, mock, signal, child, load, monitors, results, failed, builds>>

\* ... and waits for its exit; after SHUTDOWN_GRACE it kills it.
Grace ==
    /\ pc = "grace"
    /\ child' = [child EXCEPT ![run] = IF @ \in Alive THEN "dead" ELSE @]
    /\ pc' = "shutdown"
    /\ UNCHANGED <<mode, run, window, mock, signal, load, monitors, results, failed, builds>>

\* Mutant: the sender is dropped, not used.
ShutdownDrops ==
    /\ pc = "shutdown"
    /\ signal' = [signal EXCEPT ![run] = "dropped"]
    /\ NextRun
    /\ UNCHANGED <<mode, mock, child, load, monitors, results, failed, builds>>

\* The mock, if there is one, is told to stop, and not waited for.
Shutdown ==
    /\ pc = "shutdown"
    /\ signal' = [signal EXCEPT ![run] = IF mode = "external" THEN @ ELSE "sent"]
    /\ NextRun
    /\ UNCHANGED <<mode, mock, child, load, monitors, results, failed, builds>>

-----------------------------------------------------------------------------

Runner ==
    \/ StartRun \/ ProbeFails \/ MockAccepts \/ MockTimeout
    \/ Launch \/ LaunchFails \/ Ready \/ ReadyTimeout
    \/ WarmUp \/ MeasureOne \/ LoadEnds \/ Summarize \/ Settle
    \/ Stop \/ Grace \/ Shutdown
    \/ Preserve \/ build_instrumented \/ collect_profile \/ ProfileLoad \/ ProfileLoadEnds
    \/ merge_profiles \/ build_optimized

Worker(w) == WorkerLoops(w) \/ WorkerSends(w) \/ WorkerRecords(w)

Next ==
    \/ Runner
    \/ TimerFires
    \/ \E w \in Workers : Worker(w)
    \/ \E i \in 0..Runs : MockBinds(i) \/ MockStops(i) \/ ChildSteps(i)
    \/ \E id \in (1..Runs) \X (1..Windows) : SamplerEnds(id)

Spec == Init /\ [][Next]_vars

\* The tasks of the harness are scheduled, its timers fire, and a request
\* ends in a response or an error (the load generator sets no timeout, so
\* this is asked of the proxies).  Nothing is asked of the child: it may
\* never accept a connection and never exit on SIGTERM.
Fairness ==
    /\ WF_vars(Runner)
    /\ WF_vars(TimerFires)
    /\ \A w \in Workers : WF_vars(Worker(w))
    /\ \A i \in 0..Runs : WF_vars(MockBinds(i)) /\ WF_vars(MockStops(i))
    /\ \A id \in (1..Runs) \X (1..Windows) : WF_vars(SamplerEnds(id))

FairSpec == Spec /\ Fairness

-----------------------------------------------------------------------------
(* Properties. *)

Binaries == {"none", "found", "instrumented", "optimized"}

\* The states of the tasks, the process and the counters.
TypeOK ==
    /\ mode \in {"local", "external", "pgo"}
    /\ pc \in {"start", "connect", "launch", "ready", "cold", "warm", "measure",
               "load", "sampled", "settle", "stop", "grace", "shutdown", "done", "preserve",
               "instrument", "collect", "profile", "profiling", "merge", "optimize"}
    /\ run \in 0..Runs /\ window \in 1..Windows
    /\ mock \in [0..Runs -> {"none", "starting", "listening", "failed", "stopped"}]
    /\ signal \in [0..Runs -> {"open", "sent", "dropped"}]
    /\ child \in [0..Runs -> Alive \union {"none", "dead"}]
    /\ running \in BOOLEAN
    /\ worker \in [Workers -> {"none", "loop", "sending", "awaiting", "done"}]
    /\ recorder \in [successful : 0..MaxRequests, failed : 0..MaxRequests,
                    error_responses : 0..MaxRequests]
    /\ sent \in 0..MaxRequests
    /\ samplers \subseteq (1..Runs) \X (1..Windows) /\ monitoring \subseteq samplers
    /\ results \in Seq((1..Runs) \X (1..Windows))
    /\ failed \subseteq 0..Runs
    /\ {built, binary, baseline} \subseteq Binaries /\ ran \in [0..Runs -> Binaries]
    /\ profile \in {"none", "raw", "merged"} /\ elsewhere \in BOOLEAN

\* run_all's "candidates are run strictly one at a time": no process of an
\* earlier run (the profiling run included) survives into a later one, however
\* that run ended (SIGTERM obeyed or ignored, start-up timeout, crash), and
\* none is left at the end.  run_candidate tears down in reverse order: while
\* a candidate's process is alive its mock upstream is listening, so that no
\* request is measured against a missing upstream, nor drained into one.
OneAtATime ==
    \A i \in 0..Runs : child[i] \in Alive =>
        i = run /\ pc # "done" /\ (i > 0 => mock[i] = "listening")

\* summarize reads the counters when every request this measurement sent has
\* been recorded, once, and none of the warm-up's is among them: requests
\* still in flight when the timer fired are waited for.
EveryRequestCounted ==
    [][results' # results /\ results' # <<>> =>
         recorder.successful + recorder.failed = sent]_vars

\* measure_one awaits the monitor's task: the sampling of one window is over
\* before the next window's warm-up begins, in this run or the next one.
SamplersDoNotOverlap ==
    samplers # {} => samplers = {ThisWindow} /\ pc \in {"load", "sampled"}

\* run_pgo_delta's "the delta is attributable to the build and nothing else":
\* the standard run was of the build that main found, the pgo run of one made
\* from a profile of this very pipeline, whose load sent requests.  It takes a
\* binary directory that is the target/release of the pipeline's builds.
DeltaIsOfTheBuilds ==
    mode = "pgo" /\ results # <<>> /\ ~elsewhere =>
        /\ ran[0] = "instrumented" /\ ran[1] = "found" /\ profile = "merged"
        /\ ran[2] \in {"none", "optimized"}

\* No optimised build comes from a profiling run that sent no request, or that
\* left no profile behind.
ProfileIsOfTraffic ==
    [][built' = "optimized" /\ built # "optimized" =>
         sent > 0 /\ recorder.successful + recorder.failed = sent /\ profile = "merged"]_vars

Precedes(a, b) == a[1] < b[1] \/ (a[1] = b[1] /\ a[2] < b[2])

\* What run_all and run_pgo_delta return: every window of every run that did
\* not fail, in order and once; nothing at all when a PGO run failed.
ResultsComplete ==
    pc = "done" =>
        IF mode = "pgo" /\ failed # {} THEN results = <<>>
        ELSE /\ Range(results) = ((1..Runs) \ failed) \X (1..Windows)
             /\ \A j, k \in 1..Len(results) : j < k => Precedes(results[j], results[k])

\* The benchmark comes to its end even if a candidate never starts to serve
\* or ignores SIGTERM, and in the end the only mocks still listening are those
\* of runs that failed (their channel was dropped, which does not stop them).
RunsToCompletion ==
    /\ <>(pc = "done")
    /\ <>[](\A i \in 0..Runs : mock[i] = "listening" => i \in failed)

=============================================================================

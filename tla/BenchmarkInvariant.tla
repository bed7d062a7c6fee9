-------------------------- MODULE BenchmarkInvariant -------------------------
(***************************************************************************)
(* The inductive invariant of the benchmark harness, and that the steps of *)
(* its runner, processes, monitor and builds keep their parts of it, for   *)
(* any number of runs, windows, workers and requests.                      *)
(***************************************************************************)
EXTENDS Benchmark, TLAPS

-----------------------------------------------------------------------------
(* The inductive invariant, a part for each of the concurrent tasks.  The  *)
(* properties are not inductive: each of them holds because of where the   *)
(* runner is, and Control says which candidate run and window go with it.  *)

Profiling == {"preserve", "instrument", "collect", "profile", "profiling", "merge", "optimize"}
Starting  == {"start", "connect", "launch", "ready"}
Measuring == {"cold", "warm", "measure", "load", "sampled", "settle"}
Stopping  == {"stop", "grace", "shutdown"}
WithChild == {"ready", "profile", "profiling", "stop", "grace"} \union Measuring

\* The runner: run 0 and the phases of the pipeline belong to PGO, a run fails only while it is
\* starting, and in PGO mode a failure is the end.
Control ==
    /\ mode = "pgo" => Runs = 2
    /\ run = 0 => mode = "pgo"
    /\ pc \in Profiling => run = 0
    /\ pc \in {"start", "connect"} \union Measuring => run >= 1
    /\ mode = "external" => pc \notin {"connect", "launch", "ready"}
    /\ pc \in {"preserve", "instrument", "collect"} \union Starting => window = 1
    /\ pc \in Stopping => window = Windows
    /\ pc # "done" => run \notin failed /\ (mode = "pgo" => failed = {})
    /\ \A i \in failed : i <= run
    /\ pc = "done" => run = Runs \/ (mode = "pgo" /\ failed # {})
    /\ mode = "pgo" /\ failed # {} => results = <<>>

\* The candidate and its mock: the channel of a run that is not over has not been used, so that
\* its mock goes on listening once it does.
Processes ==
    /\ \A i \in 0..Runs : child[i] \in Alive => i = run /\ pc \in WithChild
    /\ mode = "external" => \A i \in 0..Runs : child[i] \notin Alive
    /\ pc # "done" => \A i \in 1..Runs : i >= run => signal[i] = "open"
    /\ run > 0 /\ mode # "external" /\ pc \in {"launch"} \union WithChild =>
           mock[run] = "listening"

\* The resource monitor: its flag is set during the load of the current window.
Sampling ==
    /\ monitoring = IF pc = "load" THEN {ThisWindow} ELSE {}
    /\ samplers \subseteq {ThisWindow}
    /\ samplers # {} => pc \in {"load", "sampled"}

InState(tasks, s) == {w \in Workers : tasks[w] = s}

\* The load generator: what was sent has been recorded or is awaited, and the workers have ended
\* when no load is offered.
Counting ==
    /\ pc \notin {"warm", "load", "profiling"} =>
           \A w \in Workers : worker[w] \in {"none", "done"}
    /\ recorder.successful + recorder.failed + Cardinality(InState(worker, "awaiting")) = sent
    /\ recorder.error_responses <= recorder.successful
    /\ sent + Cardinality(InState(worker, "sending")) <= MaxRequests

\* The builds: what the three directories hold, what the runs were started from, and what the
\* profile is of.
Building ==
    mode = "pgo" =>
      /\ run = 0 => results = <<>>
      /\ pc = "preserve" => built = "found" /\ binary = "found"
      /\ pc # "preserve" /\ pc # "done" => baseline = "found"
      /\ run = 0 /\ pc \notin {"preserve", "instrument", "done"} => built = "instrumented"
      /\ run = 0 /\ pc \in {"ready", "profile", "profiling", "merge", "optimize"} \union Stopping =>
             ran[0] = "instrumented"
      /\ pc = "optimize" => profile = "merged" /\ recorder.successful + recorder.failed > 0
      /\ run > 0 =>
             /\ built = "optimized" /\ profile = "merged" /\ ran[0] = "instrumented"
             /\ ~elsewhere => binary = "optimized"
      /\ run = 1 /\ pc \in {"start", "connect", "launch"} => results = <<>>
      /\ run = 1 /\ pc \notin {"start", "connect", "launch", "done"} => ran[1] = "found"
      /\ run <= 1 => ran[2] = "none"
      /\ run = 2 => ran[1] = "found" /\ (~elsewhere => ran[2] \in {"none", "optimized"})
      /\ run < 2 /\ pc = "done" => results = <<>>

\* The windows whose results have been gathered.
Gathered(i, w) ==
    \/ i \in 1..run - 1 /\ i \notin failed
    \/ pc = "done" /\ i = run /\ i \notin failed
    \/ pc # "done" /\ i = run /\ (w < window \/ (w = window /\ pc \in {"settle"} \union Stopping))

Gathering ==
    /\ \A j, k \in 1..Len(results) : j < k => Precedes(results[j], results[k])
    /\ ~(mode = "pgo" /\ failed # {}) =>
           \A i \in 1..Runs, w \in 1..Windows :
               Gathered(i, w) <=> \E k \in 1..Len(results) : results[k] = <<i, w>>

Inv == TypeOK /\ Control /\ Processes /\ Sampling /\ Counting /\ Building /\ Gathering

-----------------------------------------------------------------------------
(* Every step keeps the invariant.                                         *)

\* `?` leaves run_candidate, collect_profile or main with an error.
Fails ==
    /\ pc \in {"start", "connect", "launch", "ready",
               "preserve", "instrument", "collect", "merge", "optimize"}
    /\ FailRun
    /\ UNCHANGED <<mode, mock, load, monitors, builds>>

\* The steps of the harness, with those that fail a run taken together.
LEMMA NextCases ==
    Next =>
      \/ Fails
      \/ StartRun \/ MockAccepts \/ Launch \/ Ready
      \/ WarmUp \/ MeasureOne \/ LoadEnds \/ Summarize \/ Settle
      \/ Stop \/ Grace \/ Shutdown
      \/ Preserve \/ build_instrumented \/ collect_profile \/ ProfileLoad \/ ProfileLoadEnds
      \/ merge_profiles \/ build_optimized
      \/ TimerFires
      \/ \E w \in Workers : Worker(w)
      \/ \E i \in 0..Runs : MockBinds(i) \/ MockStops(i) \/ ChildSteps(i)
      \/ \E id \in (1..Runs) \X (1..Windows) : SamplerEnds(id)
  BY Zenon DEF Next, Runner, Fails, ProbeFails, MockTimeout, LaunchFails, ReadyTimeout

\* The runner's own state: its phase, the run, the window and the runs that failed.
LEMMA ControlStep == Inv /\ Next => Control'
<1> SUFFICES ASSUME Inv, Next PROVE Control'
  BY Zenon
<1>t. TypeOK /\ Control
  BY Zenon DEF Inv
<1>0. /\ Control /\ mode \in {"local", "external", "pgo"}
      /\ run \in 0..Runs /\ window \in 1..Windows /\ failed \subseteq 0..Runs
  BY <1>t, Zenon DEF TypeOK
<1> USE BenchmarkAssumption DEF Control, Profiling, Starting, Measuring, Stopping
<1>1. CASE Fails
  BY <1>1, <1>0 DEF Fails, FailRun, NextRun
<1>2. CASE StartRun
  BY <1>2, <1>0, Zenon DEF StartRun
<1>3. CASE MockAccepts
  BY <1>3, <1>0, Zenon DEF MockAccepts
<1>4. CASE Launch
  BY <1>4, <1>0, Zenon DEF Launch, Build
<1>5. CASE Ready
  BY <1>5, <1>0 DEF Ready
<1>6. CASE WarmUp
  BY <1>6, <1>0, Zenon DEF WarmUp, StartLoad
<1>7. CASE MeasureOne
  BY <1>7, <1>0, Zenon DEF MeasureOne, StartLoad
<1>8. CASE LoadEnds
  BY <1>8, <1>0, Zenon DEF LoadEnds
<1>9. CASE Summarize
  BY <1>9, <1>0, Zenon DEF Summarize
<1>10. CASE Settle
  BY <1>10, <1>0 DEF Settle
<1>11. CASE Stop
  BY <1>11, <1>0, Zenon DEF Stop
<1>12. CASE Grace
  BY <1>12, <1>0, Zenon DEF Grace
<1>13. CASE Shutdown
  BY <1>13, <1>0, SMTT(30) DEF Shutdown, NextRun
<1>14. CASE Preserve
  BY <1>14, <1>1, <1>0, Zenon DEF Preserve, PgoFails, Fails
<1>15. CASE build_instrumented
  BY <1>15, <1>1, <1>0, Zenon DEF build_instrumented, run_cargo, PgoFails, Fails
<1>16. CASE collect_profile
  BY <1>16, <1>1, <1>0, Zenon DEF collect_profile, PgoFails, Fails
<1>17. CASE ProfileLoad
  BY <1>17, <1>0, Zenon DEF ProfileLoad
<1>18. CASE ProfileLoadEnds
  BY <1>18, <1>0 DEF ProfileLoadEnds
<1>19. CASE merge_profiles
  BY <1>19, <1>1, <1>0, Zenon DEF merge_profiles, PgoFails, Fails
<1>20. CASE build_optimized
  <2>1. CASE Fails
    BY <1>1, <2>1, Zenon
  <2>2. CASE ~Fails
    <3>1. run = 0 /\ mode = "pgo" /\ failed = {}
      BY <1>20, <1>0, Zenon DEF build_optimized
    <3>2. run' = 1 /\ window' = 1 /\ pc' = "start" /\ UNCHANGED <<mode, failed, results>>
      BY <1>20, <2>2, Zenon DEF build_optimized, PgoFails, Fails
    <3> QED
      BY <1>0, <3>1, <3>2
  <2> QED
    BY <2>1, <2>2, Zenon
<1>21. CASE TimerFires
  BY <1>21, <1>0, Zenon DEF TimerFires
<1>22. ASSUME NEW w \in Workers, WorkerLoops(w) PROVE Control'
  BY <1>22, <1>0, Zenon DEF WorkerLoops
<1>23. ASSUME NEW w \in Workers, WorkerSends(w) PROVE Control'
  BY <1>23, <1>0, Zenon DEF WorkerSends
<1>24. ASSUME NEW w \in Workers, WorkerRecords(w) PROVE Control'
  BY <1>24, <1>0, Zenon DEF WorkerRecords, Recorded
<1>25. ASSUME NEW i \in 0..Runs, MockBinds(i) PROVE Control'
  BY <1>25, <1>0, Zenon DEF MockBinds
<1>26. ASSUME NEW i \in 0..Runs, MockStops(i) PROVE Control'
  BY <1>26, <1>0, Zenon DEF MockStops
<1>27. ASSUME NEW i \in 0..Runs, ChildSteps(i) PROVE Control'
  BY <1>27, <1>0, Zenon DEF ChildSteps
<1>28. ASSUME NEW id \in (1..Runs) \X (1..Windows), SamplerEnds(id) PROVE Control'
  BY <1>28, <1>0, Zenon DEF SamplerEnds
<1> QED
  BY <1>1, <1>2, <1>3, <1>4, <1>5, <1>6, <1>7, <1>8, <1>9, <1>10, <1>11, <1>12, <1>13, <1>14,
      <1>15, <1>16, <1>17, <1>18, <1>19, <1>20, <1>21, <1>22, <1>23, <1>24, <1>25, <1>26, <1>27,
      <1>28, NextCases, Zenon DEF Worker

\* The candidates' processes and their mock upstreams.
LEMMA ProcessesStep == Inv /\ Next => Processes'
<1> SUFFICES ASSUME Inv, Next PROVE Processes'
  BY Zenon
<1> USE BenchmarkAssumption DEF Processes, WithChild, Measuring, Profiling, Alive
<1>0. /\ Processes /\ run \in 0..Runs /\ mode \in {"local", "external", "pgo"}
      /\ mock \in [0..Runs -> {"none", "starting", "listening", "failed", "stopped"}]
      /\ signal \in [0..Runs -> {"open", "sent", "dropped"}]
      /\ child \in [0..Runs -> Alive \union {"none", "dead"}]
      /\ pc \in {"start", "connect"} => run >= 1
      /\ pc \in Profiling => run = 0
      /\ mode = "external" => pc \notin {"connect", "launch", "ready"}
  BY Zenon DEF Inv, TypeOK, Control
<1>1. CASE Fails
  BY <1>1, <1>0 DEF Fails, FailRun, NextRun
<1>2. CASE StartRun
  BY <1>2, <1>0, Zenon DEF StartRun
<1>3. CASE MockAccepts
  BY <1>3, <1>0, Zenon DEF MockAccepts
<1>4. CASE Launch
  BY <1>4, <1>0, Zenon DEF Launch, Build
<1>5. CASE Ready
  BY <1>5, <1>0, Zenon DEF Ready
<1>6. CASE WarmUp
  BY <1>6, <1>0, Zenon DEF WarmUp, StartLoad
<1>7. CASE MeasureOne
  BY <1>7, <1>0, Zenon DEF MeasureOne, StartLoad
<1>8. CASE LoadEnds
  BY <1>8, <1>0, Zenon DEF LoadEnds
<1>9. CASE Summarize
  BY <1>9, <1>0, Zenon DEF Summarize
<1>10. CASE Settle
  BY <1>10, <1>0, Zenon DEF Settle
<1>11. CASE Stop
  BY <1>11, <1>0, Zenon DEF Stop
<1>12. CASE Grace
  BY <1>12, <1>0, Zenon DEF Grace
<1>13. CASE Shutdown
  BY <1>13, <1>0 DEF Shutdown, NextRun
<1>14. CASE Preserve
  BY <1>14, <1>1, <1>0, Zenon DEF Preserve, PgoFails, Fails
<1>15. CASE build_instrumented
  BY <1>15, <1>1, <1>0, Zenon DEF build_instrumented, run_cargo, PgoFails, Fails
<1>16. CASE collect_profile
  BY <1>16, <1>1, <1>0 DEF collect_profile, PgoFails, Fails
<1>17. CASE ProfileLoad
  BY <1>17, <1>0, Zenon DEF ProfileLoad
<1>18. CASE ProfileLoadEnds
  BY <1>18, <1>0, Zenon DEF ProfileLoadEnds
<1>19. CASE merge_profiles
  BY <1>19, <1>1, <1>0, Zenon DEF merge_profiles, PgoFails, Fails
<1>20. CASE build_optimized
  BY <1>20, <1>1, <1>0 DEF build_optimized, run_cargo, PgoFails, Fails
<1>21. CASE TimerFires
  BY <1>21, <1>0, Zenon DEF TimerFires
<1>22. ASSUME NEW w \in Workers, WorkerLoops(w) PROVE Processes'
  BY <1>22, <1>0, Zenon DEF WorkerLoops
<1>23. ASSUME NEW w \in Workers, WorkerSends(w) PROVE Processes'
  BY <1>23, <1>0, Zenon DEF WorkerSends
<1>24. ASSUME NEW w \in Workers, WorkerRecords(w) PROVE Processes'
  BY <1>24, <1>0, Zenon DEF WorkerRecords, Recorded
<1>25. ASSUME NEW i \in 0..Runs, MockBinds(i) PROVE Processes'
  BY <1>25, <1>0, Zenon DEF MockBinds
<1>26. ASSUME NEW i \in 0..Runs, MockStops(i) PROVE Processes'
  BY <1>26, <1>0 DEF MockStops
<1>27. ASSUME NEW i \in 0..Runs, ChildSteps(i) PROVE Processes'
  BY <1>27, <1>0, Zenon DEF ChildSteps
<1>28. ASSUME NEW id \in (1..Runs) \X (1..Windows), SamplerEnds(id) PROVE Processes'
  BY <1>28, <1>0, Zenon DEF SamplerEnds
<1> QED
  BY <1>1, <1>2, <1>3, <1>4, <1>5, <1>6, <1>7, <1>8, <1>9, <1>10, <1>11, <1>12, <1>13, <1>14,
      <1>15, <1>16, <1>17, <1>18, <1>19, <1>20, <1>21, <1>22, <1>23, <1>24, <1>25, <1>26, <1>27,
      <1>28, NextCases, Zenon DEF Worker

\* The resource monitor's flag and task.
LEMMA SamplingStep == Inv /\ Next => Sampling'
<1> SUFFICES ASSUME Inv, Next PROVE Sampling'
  BY Zenon
<1> USE BenchmarkAssumption DEF Sampling, ThisWindow
<1>0. Sampling
  BY Zenon DEF Inv
<1>1. CASE Fails
  BY <1>1, <1>0, Zenon DEF Fails, FailRun, NextRun, monitors
<1>2. CASE StartRun
  BY <1>2, <1>0, Zenon DEF StartRun, monitors
<1>3. CASE MockAccepts
  BY <1>3, <1>0, Zenon DEF MockAccepts, monitors
<1>4. CASE Launch
  BY <1>4, <1>0, Zenon DEF Launch, Build, monitors
<1>5. CASE Ready
  BY <1>5, <1>0, Zenon DEF Ready, monitors
<1>6. CASE WarmUp
  BY <1>6, <1>0, Zenon DEF WarmUp, StartLoad, monitors
<1>7. CASE MeasureOne
  BY <1>7, <1>0, Zenon DEF MeasureOne, StartLoad, monitors
<1>8. CASE LoadEnds
  BY <1>8, <1>0, Zenon DEF LoadEnds, monitors
<1>9. CASE Summarize
  BY <1>9, <1>0, Zenon DEF Summarize, monitors
<1>10. CASE Settle
  BY <1>10, <1>0, Zenon DEF Settle, monitors
<1>11. CASE Stop
  BY <1>11, <1>0, Zenon DEF Stop, monitors
<1>12. CASE Grace
  BY <1>12, <1>0, Zenon DEF Grace, monitors
<1>13. CASE Shutdown
  BY <1>13, <1>0, Zenon DEF Shutdown, NextRun, monitors
<1>14. CASE Preserve
  BY <1>14, <1>1, <1>0, Zenon DEF Preserve, PgoFails, Fails, monitors
<1>15. CASE build_instrumented
  BY <1>15, <1>1, <1>0, Zenon DEF build_instrumented, run_cargo, PgoFails, Fails, monitors
<1>16. CASE collect_profile
  BY <1>16, <1>1, <1>0, Zenon DEF collect_profile, PgoFails, Fails, monitors
<1>17. CASE ProfileLoad
  BY <1>17, <1>0, Zenon DEF ProfileLoad, monitors
<1>18. CASE ProfileLoadEnds
  BY <1>18, <1>0, Zenon DEF ProfileLoadEnds, monitors
<1>19. CASE merge_profiles
  BY <1>19, <1>1, <1>0, Zenon DEF merge_profiles, PgoFails, Fails, monitors
<1>20. CASE build_optimized
  BY <1>20, <1>1, <1>0, Zenon DEF build_optimized, run_cargo, PgoFails, Fails, monitors
<1>21. CASE TimerFires
  BY <1>21, <1>0, Zenon DEF TimerFires, monitors
<1>22. ASSUME NEW w \in Workers, WorkerLoops(w) PROVE Sampling'
  BY <1>22, <1>0, Zenon DEF WorkerLoops, monitors
<1>23. ASSUME NEW w \in Workers, WorkerSends(w) PROVE Sampling'
  BY <1>23, <1>0, Zenon DEF WorkerSends, monitors
<1>24. ASSUME NEW w \in Workers, WorkerRecords(w) PROVE Sampling'
  BY <1>24, <1>0, Zenon DEF WorkerRecords, Recorded, monitors
<1>25. ASSUME NEW i \in 0..Runs, MockBinds(i) PROVE Sampling'
  BY <1>25, <1>0, Zenon DEF MockBinds, monitors
<1>26. ASSUME NEW i \in 0..Runs, MockStops(i) PROVE Sampling'
  BY <1>26, <1>0, Zenon DEF MockStops, monitors
<1>27. ASSUME NEW i \in 0..Runs, ChildSteps(i) PROVE Sampling'
  BY <1>27, <1>0, Zenon DEF ChildSteps, monitors
<1>28. ASSUME NEW id \in (1..Runs) \X (1..Windows), SamplerEnds(id) PROVE Sampling'
  BY <1>28, <1>0, Zenon DEF SamplerEnds, monitors
<1> QED
  BY <1>1, <1>2, <1>3, <1>4, <1>5, <1>6, <1>7, <1>8, <1>9, <1>10, <1>11, <1>12, <1>13, <1>14,
      <1>15, <1>16, <1>17, <1>18, <1>19, <1>20, <1>21, <1>22, <1>23, <1>24, <1>25, <1>26, <1>27,
      <1>28, NextCases, Zenon DEF Worker

\* The builds of the PGO pipeline, and which of them each run is of.
LEMMA BuildingStep == Inv /\ Next => Building'
<1> SUFFICES ASSUME Inv, Next PROVE Building'
  BY Zenon
<1>t. TypeOK /\ Control /\ Processes /\ Building
  BY Zenon DEF Inv
<1>r. run \in 0..Runs /\ DOMAIN ran = 0..Runs
  BY <1>t, Zenon DEF TypeOK
<1>c. /\ mode = "pgo" => Runs = 2
      /\ run = 0 => mode = "pgo"
      /\ pc \in Profiling => run = 0
      /\ pc \in {"start", "connect"} \union Measuring => run >= 1
  BY <1>t, <1>r, BenchmarkAssumption, Zenon DEF Control, Profiling, Measuring
<1>p. child[0] \in Alive => run = 0 /\ pc # "optimize"
  BY <1>t, <1>r, BenchmarkAssumption, SMTT(30) DEF Processes, WithChild, Measuring
<1> USE BenchmarkAssumption DEF Building, Profiling, Measuring, Stopping
<1>0. /\ Building /\ run \in 0..Runs /\ DOMAIN ran = 0..Runs
      /\ mode = "pgo" => Runs = 2
      /\ run = 0 => mode = "pgo"
      /\ pc \in Profiling => run = 0
      /\ pc \in {"start", "connect"} \union Measuring => run >= 1
      /\ child[0] \in Alive => run = 0 /\ pc # "optimize"
  BY <1>t, <1>r, <1>c, <1>p, Zenon
<1>a. pc = "optimize" => \A w \in Workers : worker[w] # "awaiting"
  BY Zenon DEF Inv, Counting
<1>1. CASE Fails
  BY <1>1, <1>0, <1>a, Zenon DEF Fails, FailRun, NextRun, builds, load
<1>2. CASE StartRun
  BY <1>2, <1>0, <1>a, Zenon DEF StartRun, builds, load
<1>3. CASE MockAccepts
  BY <1>3, <1>0, <1>a, Zenon DEF MockAccepts, builds, load
<1>4. CASE Launch
  BY <1>4, <1>0, <1>a DEF Launch, Build, builds, load
<1>5. CASE Ready
  BY <1>5, <1>0, <1>a, Zenon DEF Ready, builds, load
<1>6. CASE WarmUp
  BY <1>6, <1>0, <1>a, Zenon DEF WarmUp, StartLoad, builds, load
<1>7. CASE MeasureOne
  BY <1>7, <1>0, <1>a, Zenon DEF MeasureOne, StartLoad, builds, load
<1>8. CASE LoadEnds
  BY <1>8, <1>0, <1>a, Zenon DEF LoadEnds, builds, load
<1>9. CASE Summarize
  BY <1>9, <1>0, <1>a DEF Summarize, builds, load
<1>10. CASE Settle
  BY <1>10, <1>0, <1>a DEF Settle, builds, load
<1>11. CASE Stop
  BY <1>11, <1>0, <1>a, Zenon DEF Stop, builds, load
<1>12. CASE Grace
  BY <1>12, <1>0, <1>a, Zenon DEF Grace, builds, load
<1>13. CASE Shutdown
  BY <1>13, <1>0, <1>a, SMTT(30) DEF Shutdown, NextRun, builds, load
<1>14. CASE Preserve
  BY <1>14, <1>1, <1>0, <1>a, Zenon DEF Preserve, PgoFails, Fails, builds, load
<1>15. CASE build_instrumented
  BY <1>15, <1>1, <1>0, <1>a, SMTT(30) DEF build_instrumented, run_cargo, PgoFails, Fails, builds, load
<1>16. CASE collect_profile
  BY <1>16, <1>1, <1>0, <1>a, Zenon DEF collect_profile, PgoFails, Fails, builds, load
<1>17. CASE ProfileLoad
  BY <1>17, <1>0, <1>a, Zenon DEF ProfileLoad, builds, load
<1>18. CASE ProfileLoadEnds
  BY <1>18, <1>0, <1>a, Zenon DEF ProfileLoadEnds, builds, load
<1>19. CASE merge_profiles
  BY <1>19, <1>1, <1>0, <1>a, Zenon DEF merge_profiles, PgoFails, Fails, builds, load
<1>20. CASE build_optimized
  BY <1>20, <1>1, <1>0, <1>a DEF build_optimized, run_cargo, PgoFails, Fails, builds, load
<1>21. CASE TimerFires
  BY <1>21, <1>0, <1>a, Zenon DEF TimerFires, builds, load
<1>22. ASSUME NEW w \in Workers, WorkerLoops(w) PROVE Building'
  BY <1>22, <1>0, <1>a, Zenon DEF WorkerLoops, builds, load
<1>23. ASSUME NEW w \in Workers, WorkerSends(w) PROVE Building'
  BY <1>23, <1>0, <1>a, Zenon DEF WorkerSends, builds, load
<1>24. ASSUME NEW w \in Workers, WorkerRecords(w) PROVE Building'
  BY <1>24, <1>0, <1>a, Zenon DEF WorkerRecords, Recorded, builds, load
<1>25. ASSUME NEW i \in 0..Runs, MockBinds(i) PROVE Building'
  BY <1>25, <1>0, <1>a, Zenon DEF MockBinds, builds, load
<1>26. ASSUME NEW i \in 0..Runs, MockStops(i) PROVE Building'
  BY <1>26, <1>0, <1>a, Zenon DEF MockStops, builds, load
<1>27. ASSUME NEW i \in 0..Runs, ChildSteps(i) PROVE Building'
  BY <1>27, <1>0, <1>a DEF ChildSteps, builds, load
<1>28. ASSUME NEW id \in (1..Runs) \X (1..Windows), SamplerEnds(id) PROVE Building'
  BY <1>28, <1>0, <1>a, Zenon DEF SamplerEnds, builds, load
<1> QED
  BY <1>1, <1>2, <1>3, <1>4, <1>5, <1>6, <1>7, <1>8, <1>9, <1>10, <1>11, <1>12, <1>13, <1>14,
      <1>15, <1>16, <1>17, <1>18, <1>19, <1>20, <1>21, <1>22, <1>23, <1>24, <1>25, <1>26, <1>27,
      <1>28, NextCases, Zenon DEF Worker

\* Where the runner may go without a result: the windows that count as gathered stay the same.
LEMMA GatheringFrame ==
    ASSUME Gathering, UNCHANGED results,
           (mode = "pgo" /\ failed # {})' \/ ~(mode = "pgo" /\ failed # {}),
           \A i \in 1..Runs, w \in 1..Windows : Gathered(i, w)' <=> Gathered(i, w)
    PROVE  Gathering'
  BY Zenon DEF Gathering

\* The results: in the order of the runs and their windows, each once.
LEMMA GatheringStep == Inv /\ Next => Gathering'
<1> SUFFICES ASSUME Inv, Next PROVE Gathering'
  BY Zenon
<1> USE BenchmarkAssumption DEF Profiling, Starting, Measuring, Stopping
<1>0. /\ Gathering /\ run \in 0..Runs /\ window \in 1..Windows /\ failed \subseteq 0..Runs
      /\ run = 0 => mode = "pgo"
      /\ pc \in Profiling => run = 0
      /\ pc \in {"start", "connect"} \union Measuring => run >= 1
      /\ pc \in {"preserve", "instrument", "collect"} \union Starting => window = 1
      /\ pc \in Stopping => window = Windows
      /\ pc # "done" => run \notin failed /\ (mode = "pgo" => failed = {})
  BY Zenon DEF Inv, TypeOK, Control
<1>r. results \in Seq((1..Runs) \X (1..Windows))
  BY Zenon DEF Inv, TypeOK
<1>1. CASE Fails
  <2>1. CASE mode = "pgo"
    <3>1. mode' = "pgo" /\ run \in failed' /\ results' = <<>>
      BY <1>1, <2>1, Zenon DEF Fails, FailRun
    <3> QED
      BY <3>1 DEF Gathering
  <2>2. CASE mode # "pgo"
    <3>1. /\ UNCHANGED mode /\ UNCHANGED results /\ window = 1 /\ run \in 1..Runs
          /\ failed' = failed \union {run} /\ NextRun /\ pc \in Starting
      BY <1>0, <1>1, <2>2 DEF Fails, FailRun
    <3>2. ASSUME NEW i \in 1..Runs, NEW w \in 1..Windows PROVE Gathered(i, w)' <=> Gathered(i, w)
      BY <1>0, <3>1 DEF NextRun, Gathered
    <3> QED
      BY <1>0, <2>2, <3>1, <3>2, GatheringFrame, Zenon
  <2> QED
    BY <2>1, <2>2, Zenon
<1>2. CASE StartRun
  <2>1. UNCHANGED results /\ UNCHANGED mode /\ UNCHANGED failed
    BY <1>2, Zenon DEF StartRun
  <2>2. ASSUME NEW i \in 1..Runs, NEW w \in 1..Windows PROVE Gathered(i, w)' <=> Gathered(i, w)
    BY <1>2, <1>0, Zenon DEF StartRun, Gathered
  <2> QED
    BY <1>0, <2>1, <2>2, GatheringFrame, Zenon
<1>3. CASE MockAccepts
  <2>1. UNCHANGED results /\ UNCHANGED mode /\ UNCHANGED failed
    BY <1>3, Zenon DEF MockAccepts
  <2>2. ASSUME NEW i \in 1..Runs, NEW w \in 1..Windows PROVE Gathered(i, w)' <=> Gathered(i, w)
    BY <1>3, <1>0, Zenon DEF MockAccepts, Gathered
  <2> QED
    BY <1>0, <2>1, <2>2, GatheringFrame, Zenon
<1>4. CASE Launch
  <2>1. UNCHANGED results /\ UNCHANGED mode /\ UNCHANGED failed
    BY <1>4, Zenon DEF Launch
  <2>2. ASSUME NEW i \in 1..Runs, NEW w \in 1..Windows PROVE Gathered(i, w)' <=> Gathered(i, w)
    BY <1>4, <1>0, Zenon DEF Launch, Build, Gathered
  <2> QED
    BY <1>0, <2>1, <2>2, GatheringFrame, Zenon
<1>5. CASE Ready
  <2>1. UNCHANGED results /\ UNCHANGED mode /\ UNCHANGED failed
    BY <1>5, Zenon DEF Ready
  <2>2. ASSUME NEW i \in 1..Runs, NEW w \in 1..Windows PROVE Gathered(i, w)' <=> Gathered(i, w)
    BY <1>5, <1>0, Zenon DEF Ready, Gathered
  <2> QED
    BY <1>0, <2>1, <2>2, GatheringFrame, Zenon
<1>6. CASE WarmUp
  <2>1. UNCHANGED results /\ UNCHANGED mode /\ UNCHANGED failed
    BY <1>6, Zenon DEF WarmUp
  <2>2. ASSUME NEW i \in 1..Runs, NEW w \in 1..Windows PROVE Gathered(i, w)' <=> Gathered(i, w)
    BY <1>6, <1>0, Zenon DEF WarmUp, StartLoad, Gathered
  <2> QED
    BY <1>0, <2>1, <2>2, GatheringFrame, Zenon
<1>7. CASE MeasureOne
  <2>1. UNCHANGED results /\ UNCHANGED mode /\ UNCHANGED failed
    BY <1>7, Zenon DEF MeasureOne
  <2>2. ASSUME NEW i \in 1..Runs, NEW w \in 1..Windows PROVE Gathered(i, w)' <=> Gathered(i, w)
    BY <1>7, <1>0, Zenon DEF MeasureOne, StartLoad, Gathered
  <2> QED
    BY <1>0, <2>1, <2>2, GatheringFrame, Zenon
<1>8. CASE LoadEnds
  <2>1. UNCHANGED results /\ UNCHANGED mode /\ UNCHANGED failed
    BY <1>8, Zenon DEF LoadEnds
  <2>2. ASSUME NEW i \in 1..Runs, NEW w \in 1..Windows PROVE Gathered(i, w)' <=> Gathered(i, w)
    BY <1>8, <1>0, Zenon DEF LoadEnds, Gathered
  <2> QED
    BY <1>0, <2>1, <2>2, GatheringFrame, Zenon
<1>9. CASE Summarize
  <2> DEFINE n == Len(results)
  <2>1. /\ pc = "sampled" /\ pc' = "settle" /\ results' = Append(results, <<run, window>>)
        /\ UNCHANGED <<mode, run, window, failed>>
    BY <1>9, Zenon DEF Summarize, ThisWindow
  <2>2. run \in 1..Runs /\ ~(mode = "pgo" /\ failed # {})
    <3>1. pc = "sampled"
      BY <2>1, Zenon
    <3>2. run \in 1..Runs
      BY <1>0, <3>1
    <3>3. ~(mode = "pgo" /\ failed # {})
      BY <1>0, <3>1, Zenon
    <3> QED
      BY <3>2, <3>3, Zenon
  <2>3. n \in Nat /\ \A k \in 1..n : results[k] \in (1..Runs) \X (1..Windows)
    BY <1>r
  <2>4. /\ Len(results') = n + 1 /\ results'[n + 1] = <<run, window>>
        /\ \A k \in 1..n : results'[k] = results[k]
    BY <1>r, <2>1
  <2> HIDE DEF n
  <2>5. ASSUME NEW k \in 1..n PROVE Precedes(results[k], <<run, window>>)
    <3>1. PICK i \in 1..Runs, w \in 1..Windows : results[k] = <<i, w>>
      BY <2>3
    <3>2. Gathered(i, w)
      BY <1>0, <2>1, <2>2, <3>1, Zenon DEF Gathering, n
    <3> QED
      BY <1>0, <2>1, <2>2, <3>1, <3>2, SMTT(30) DEF Gathered, Precedes
  <2>6. ASSUME NEW j \in 1..n + 1, NEW k \in 1..n + 1, j < k
        PROVE  Precedes(results'[j], results'[k])
    <3>1. j \in 1..n /\ results'[j] = results[j]
      BY <2>3, <2>4, <2>6
    <3>2. CASE k = n + 1
      BY <2>4, <2>5, <3>1, <3>2, Zenon
    <3>3. CASE k \in 1..n
      BY <1>0, <2>4, <2>6, <3>1, <3>3, Zenon DEF Gathering, n
    <3> QED
      BY <2>3, <3>2, <3>3
  <2>7. ASSUME NEW i \in 1..Runs, NEW w \in 1..Windows
        PROVE  Gathered(i, w)' <=> \E k \in 1..n + 1 : results'[k] = <<i, w>>
    <3>1. Gathered(i, w)' <=> Gathered(i, w) \/ <<i, w>> = <<run, window>>
      BY <1>0, <2>1, <2>2, Zenon DEF Gathered
    <3>2. Gathered(i, w) <=> \E k \in 1..n : results[k] = <<i, w>>
      BY <1>0, <2>1, <2>2, Zenon DEF Gathering, n
    <3>3. (\E k \in 1..n + 1 : results'[k] = <<i, w>>) <=>
            (\E k \in 1..n : results[k] = <<i, w>>) \/ <<i, w>> = <<run, window>>
      <4>1. 1..n + 1 = (1..n) \union {n + 1}
        BY <2>3
      <4> QED
        BY <2>4, <4>1, Zenon
    <3> QED
      BY <3>1, <3>2, <3>3, Zenon
  <2> QED
    BY <2>4, <2>6, <2>7, Zenon DEF Gathering
<1>10. CASE Settle
  <2>1. UNCHANGED results /\ UNCHANGED mode /\ UNCHANGED failed
    BY <1>10, Zenon DEF Settle
  <2>2. ASSUME NEW i \in 1..Runs, NEW w \in 1..Windows PROVE Gathered(i, w)' <=> Gathered(i, w)
    BY <1>10, <1>0 DEF Settle, Gathered
  <2> QED
    BY <1>0, <2>1, <2>2, GatheringFrame, Zenon
<1>11. CASE Stop
  <2>1. UNCHANGED results /\ UNCHANGED mode /\ UNCHANGED failed
    BY <1>11, Zenon DEF Stop
  <2>2. ASSUME NEW i \in 1..Runs, NEW w \in 1..Windows PROVE Gathered(i, w)' <=> Gathered(i, w)
    BY <1>11, <1>0, Zenon DEF Stop, Gathered
  <2> QED
    BY <1>0, <2>1, <2>2, GatheringFrame, Zenon
<1>12. CASE Grace
  <2>1. UNCHANGED results /\ UNCHANGED mode /\ UNCHANGED failed
    BY <1>12, Zenon DEF Grace
  <2>2. ASSUME NEW i \in 1..Runs, NEW w \in 1..Windows PROVE Gathered(i, w)' <=> Gathered(i, w)
    BY <1>12, <1>0, Zenon DEF Grace, Gathered
  <2> QED
    BY <1>0, <2>1, <2>2, GatheringFrame, Zenon
<1>13. CASE Shutdown
  <2>1. UNCHANGED results /\ UNCHANGED mode /\ UNCHANGED failed
    BY <1>13, Zenon DEF Shutdown
  <2>2. ASSUME NEW i \in 1..Runs, NEW w \in 1..Windows PROVE Gathered(i, w)' <=> Gathered(i, w)
    BY <1>13, <1>0 DEF Shutdown, NextRun, Gathered
  <2> QED
    BY <1>0, <2>1, <2>2, GatheringFrame, Zenon
<1>14. CASE Preserve
  <2>1. CASE Fails
    BY <1>1, <2>1, Zenon
  <2>2. CASE ~Fails
    <3>1. UNCHANGED results /\ UNCHANGED mode /\ UNCHANGED failed
      BY <1>14, <2>2, Zenon DEF Preserve, PgoFails, Fails
    <3>2. ASSUME NEW i \in 1..Runs, NEW w \in 1..Windows PROVE Gathered(i, w)' <=> Gathered(i, w)
      BY <1>14, <1>0, <2>2, Zenon DEF Preserve, PgoFails, Fails, Gathered
    <3> QED
      BY <1>0, <3>1, <3>2, GatheringFrame, Zenon
  <2> QED
    BY <2>1, <2>2, Zenon
<1>15. CASE build_instrumented
  <2>1. CASE Fails
    BY <1>1, <2>1, Zenon
  <2>2. CASE ~Fails
    <3>1. UNCHANGED results /\ UNCHANGED mode /\ UNCHANGED failed
      BY <1>15, <2>2, Zenon DEF build_instrumented, PgoFails, Fails
    <3>2. ASSUME NEW i \in 1..Runs, NEW w \in 1..Windows PROVE Gathered(i, w)' <=> Gathered(i, w)
      BY <1>15, <1>0, <2>2, Zenon DEF build_instrumented, PgoFails, Fails, Gathered
    <3> QED
      BY <1>0, <3>1, <3>2, GatheringFrame, Zenon
  <2> QED
    BY <2>1, <2>2, Zenon
<1>16. CASE collect_profile
  <2>1. CASE Fails
    BY <1>1, <2>1, Zenon
  <2>2. CASE ~Fails
    <3>1. UNCHANGED results /\ UNCHANGED mode /\ UNCHANGED failed
      BY <1>16, <2>2, Zenon DEF collect_profile, PgoFails, Fails
    <3>2. ASSUME NEW i \in 1..Runs, NEW w \in 1..Windows PROVE Gathered(i, w)' <=> Gathered(i, w)
      BY <1>16, <1>0, <2>2, Zenon DEF collect_profile, PgoFails, Fails, Gathered
    <3> QED
      BY <1>0, <3>1, <3>2, GatheringFrame, Zenon
  <2> QED
    BY <2>1, <2>2, Zenon
<1>17. CASE ProfileLoad
  <2>1. UNCHANGED results /\ UNCHANGED mode /\ UNCHANGED failed
    BY <1>17, Zenon DEF ProfileLoad
  <2>2. ASSUME NEW i \in 1..Runs, NEW w \in 1..Windows PROVE Gathered(i, w)' <=> Gathered(i, w)
    BY <1>17, <1>0, Zenon DEF ProfileLoad, Gathered
  <2> QED
    BY <1>0, <2>1, <2>2, GatheringFrame, Zenon
<1>18. CASE ProfileLoadEnds
  <2>1. UNCHANGED results /\ UNCHANGED mode /\ UNCHANGED failed
    BY <1>18, Zenon DEF ProfileLoadEnds
  <2>2. ASSUME NEW i \in 1..Runs, NEW w \in 1..Windows PROVE Gathered(i, w)' <=> Gathered(i, w)
    BY <1>18, <1>0, SMTT(30) DEF ProfileLoadEnds, Gathered
  <2> QED
    BY <1>0, <2>1, <2>2, GatheringFrame, Zenon
<1>19. CASE merge_profiles
  <2>1. CASE Fails
    BY <1>1, <2>1, Zenon
  <2>2. CASE ~Fails
    <3>1. UNCHANGED results /\ UNCHANGED mode /\ UNCHANGED failed
      BY <1>19, <2>2, Zenon DEF merge_profiles, PgoFails, Fails
    <3>2. ASSUME NEW i \in 1..Runs, NEW w \in 1..Windows PROVE Gathered(i, w)' <=> Gathered(i, w)
      BY <1>19, <1>0, <2>2, Zenon DEF merge_profiles, PgoFails, Fails, Gathered
    <3> QED
      BY <1>0, <3>1, <3>2, GatheringFrame, Zenon
  <2> QED
    BY <2>1, <2>2, Zenon
<1>20. CASE build_optimized
  <2>1. CASE Fails
    BY <1>1, <2>1, Zenon
  <2>2. CASE ~Fails
    <3>1. UNCHANGED results /\ UNCHANGED mode /\ UNCHANGED failed
      BY <1>20, <2>2, Zenon DEF build_optimized, PgoFails, Fails
    <3>2. ASSUME NEW i \in 1..Runs, NEW w \in 1..Windows PROVE Gathered(i, w)' <=> Gathered(i, w)
      BY <1>20, <1>0, <2>2 DEF build_optimized, PgoFails, Fails, Gathered
    <3> QED
      BY <1>0, <3>1, <3>2, GatheringFrame, Zenon
  <2> QED
    BY <2>1, <2>2, Zenon
<1>21. CASE TimerFires
  BY <1>21, <1>0, GatheringFrame, Zenon DEF TimerFires, Gathered
<1>22. ASSUME NEW w \in Workers, WorkerLoops(w) PROVE Gathering'
  BY <1>22, <1>0, GatheringFrame, Zenon DEF WorkerLoops, Gathered
<1>23. ASSUME NEW w \in Workers, WorkerSends(w) PROVE Gathering'
  BY <1>23, <1>0, GatheringFrame, Zenon DEF WorkerSends, Gathered
<1>24. ASSUME NEW w \in Workers, WorkerRecords(w) PROVE Gathering'
  BY <1>24, <1>0, GatheringFrame, Zenon DEF WorkerRecords, Gathered
<1>25. ASSUME NEW i \in 0..Runs, MockBinds(i) PROVE Gathering'
  BY <1>25, <1>0, GatheringFrame, Zenon DEF MockBinds, Gathered
<1>26. ASSUME NEW i \in 0..Runs, MockStops(i) PROVE Gathering'
  BY <1>26, <1>0, GatheringFrame, Zenon DEF MockStops, Gathered
<1>27. ASSUME NEW i \in 0..Runs, ChildSteps(i) PROVE Gathering'
  BY <1>27, <1>0, GatheringFrame, Zenon DEF ChildSteps, Gathered
<1>28. ASSUME NEW id \in (1..Runs) \X (1..Windows), SamplerEnds(id) PROVE Gathering'
  BY <1>28, <1>0, GatheringFrame, Zenon DEF SamplerEnds, Gathered
<1> QED
  BY <1>1, <1>2, <1>3, <1>4, <1>5, <1>6, <1>7, <1>8, <1>9, <1>10, <1>11, <1>12, <1>13, <1>14,
      <1>15, <1>16, <1>17, <1>18, <1>19, <1>20, <1>21, <1>22, <1>23, <1>24, <1>25, <1>26, <1>27,
      <1>28, NextCases, Zenon DEF Worker

\* TypeOK, in the parts that different steps change.
RunnerType ==
    /\ mode \in {"local", "external", "pgo"}
    /\ pc \in {"done"} \union Profiling \union Starting \union Measuring \union Stopping
    /\ run \in 0..Runs /\ window \in 1..Windows /\ failed \subseteq 0..Runs

ProcessType ==
    /\ mock \in [0..Runs -> {"none", "starting", "listening", "failed", "stopped"}]
    /\ signal \in [0..Runs -> {"open", "sent", "dropped"}]
    /\ child \in [0..Runs -> Alive \union {"none", "dead"}]

LoadType ==
    /\ running \in BOOLEAN
    /\ worker \in [Workers -> {"none", "loop", "sending", "awaiting", "done"}]
    /\ recorder \in [successful : 0..MaxRequests, failed : 0..MaxRequests,
                     error_responses : 0..MaxRequests]
    /\ sent \in 0..MaxRequests

OutputType ==
    /\ samplers \subseteq (1..Runs) \X (1..Windows) /\ monitoring \subseteq samplers
    /\ results \in Seq((1..Runs) \X (1..Windows))

BuildType ==
    /\ {built, binary, baseline} \subseteq Binaries /\ ran \in [0..Runs -> Binaries]
    /\ profile \in {"none", "raw", "merged"} /\ elsewhere \in BOOLEAN

\* The parts are all of TypeOK.
LEMMA TypeParts ==
    TypeOK <=> RunnerType /\ ProcessType /\ LoadType /\ OutputType /\ BuildType
  BY Zenon DEF TypeOK, RunnerType, ProcessType, LoadType, OutputType, BuildType, Profiling, Starting,
      Measuring, Stopping

\* The runner stays within its phases, runs and windows.
LEMMA RunnerTypeStep == Inv /\ Next => RunnerType'
<1> SUFFICES ASSUME Inv, Next PROVE RunnerType'
  BY Zenon
<1> USE BenchmarkAssumption DEF RunnerType, Profiling, Starting, Measuring, Stopping
<1>0. RunnerType /\ (pc \in {"start", "connect"} \union Measuring => run >= 1)
  BY TypeParts, Zenon DEF Inv, Control
<1>1. CASE Fails
  BY <1>0, <1>1, SMTT(30) DEF Fails, FailRun, NextRun
<1>2. CASE StartRun \/ MockAccepts \/ Launch \/ Ready \/ WarmUp \/ MeasureOne
  BY <1>0, <1>2, Zenon DEF StartRun, MockAccepts, Launch, Ready, WarmUp, MeasureOne
<1>3. CASE LoadEnds \/ Summarize \/ Stop \/ Grace \/ ProfileLoad
  BY <1>0, <1>3, Zenon DEF LoadEnds, Summarize, Stop, Grace, ProfileLoad
<1>4. CASE Settle \/ ProfileLoadEnds
  <2>1. window' \in 1..Windows
    BY <1>0, <1>4 DEF Settle, ProfileLoadEnds
  <2>2. pc' \in {"cold", "profile", "stop"} /\ UNCHANGED <<mode, run, failed>>
    BY <1>4, Zenon DEF Settle, ProfileLoadEnds
  <2> QED
    BY <1>0, <2>1, <2>2, Zenon
<1>5. CASE Shutdown
  BY <1>0, <1>5, SMTT(30) DEF Shutdown, NextRun
<1>6. CASE Preserve \/ build_instrumented \/ collect_profile \/ merge_profiles
  BY <1>0, <1>1, <1>6, Zenon DEF Preserve, build_instrumented, collect_profile, merge_profiles, PgoFails,
      Fails
<1>7. CASE build_optimized
  <2>1. CASE Fails
    BY <1>1, <2>1, Zenon
  <2>2. CASE ~Fails
    <3>1. run' = 1 /\ window' = 1 /\ pc' = "start" /\ UNCHANGED <<mode, failed>>
      BY <1>7, <2>2, Zenon DEF build_optimized, PgoFails, Fails
    <3> QED
      BY <1>0, <3>1
  <2> QED
    BY <2>1, <2>2, Zenon
<1>8. CASE TimerFires
  BY <1>0, <1>8, Zenon DEF TimerFires
<1>9. ASSUME NEW w \in Workers, Worker(w) PROVE RunnerType'
  BY <1>0, <1>9, Zenon DEF Worker, WorkerLoops, WorkerSends, WorkerRecords
<1>10. ASSUME NEW i \in 0..Runs, MockBinds(i) \/ MockStops(i) \/ ChildSteps(i) PROVE RunnerType'
  BY <1>0, <1>10, Zenon DEF MockBinds, MockStops, ChildSteps
<1>11. ASSUME NEW id \in (1..Runs) \X (1..Windows), SamplerEnds(id) PROVE RunnerType'
  BY <1>0, <1>11, Zenon DEF SamplerEnds
<1> QED
  BY <1>1, <1>2, <1>3, <1>4, <1>5, <1>6, <1>7, <1>8, <1>9, <1>10, <1>11, NextCases, Zenon

\* The states of the mocks, their channels and the candidates.
LEMMA ProcessTypeStep == Inv /\ Next => ProcessType'
<1> SUFFICES ASSUME Inv, Next PROVE ProcessType'
  BY Zenon
<1> USE BenchmarkAssumption DEF ProcessType, Alive
<1>0. ProcessType /\ run \in 0..Runs
  BY TypeParts, Zenon DEF Inv, RunnerType
<1>1. CASE Fails
  BY <1>0, <1>1, Zenon DEF Fails, FailRun
<1>2. CASE StartRun \/ Launch
  BY <1>0, <1>2, Zenon DEF StartRun, Launch
<1>3. CASE Stop \/ Grace \/ Shutdown
  BY <1>0, <1>3, Zenon DEF Stop, Grace, Shutdown
<1>4. CASE collect_profile
  BY <1>0, <1>1, <1>4, Zenon DEF collect_profile, PgoFails, Fails
<1>5. CASE Preserve \/ build_instrumented \/ merge_profiles \/ build_optimized
  BY <1>0, <1>1, <1>5, Zenon DEF Preserve, build_instrumented, merge_profiles, build_optimized, PgoFails,
      Fails
<1>6. ASSUME NEW i \in 0..Runs, MockBinds(i) \/ MockStops(i) \/ ChildSteps(i) PROVE ProcessType'
  BY <1>0, <1>6, Zenon DEF MockBinds, MockStops, ChildSteps
<1>7. CASE MockAccepts \/ Ready \/ WarmUp \/ MeasureOne \/ LoadEnds \/ Summarize \/ Settle
  BY <1>0, <1>7, Zenon DEF MockAccepts, Ready, WarmUp, MeasureOne, LoadEnds, Summarize, Settle
<1>8. CASE ProfileLoad \/ ProfileLoadEnds \/ TimerFires
  BY <1>0, <1>8, Zenon DEF ProfileLoad, ProfileLoadEnds, TimerFires
<1>9. ASSUME NEW w \in Workers, Worker(w) PROVE ProcessType'
  BY <1>0, <1>9, Zenon DEF Worker, WorkerLoops, WorkerSends, WorkerRecords
<1>10. ASSUME NEW id \in (1..Runs) \X (1..Windows), SamplerEnds(id) PROVE ProcessType'
  BY <1>0, <1>10, Zenon DEF SamplerEnds
<1> QED
  BY <1>1, <1>2, <1>3, <1>4, <1>5, <1>6, <1>7, <1>8, <1>9, <1>10, NextCases, Zenon

\* What is sampled and gathered are windows of the runs.
LEMMA OutputTypeStep == Inv /\ Next => OutputType'
<1> SUFFICES ASSUME Inv, Next PROVE OutputType'
  BY Zenon
<1> USE DEF OutputType
<1>0. OutputType
  BY TypeParts, Zenon DEF Inv
<1>a. pc \in Measuring => ThisWindow \in (1..Runs) \X (1..Windows)
  <2>1. run \in 0..Runs /\ window \in 1..Windows /\ (pc \in Measuring => run >= 1)
    BY TypeParts, Zenon DEF Inv, RunnerType, Control
  <2> QED
    BY <2>1, BenchmarkAssumption DEF ThisWindow
<1>1. CASE Fails
  <2> DEFINE All == (1..Runs) \X (1..Windows)
  <2>1. results' \in {results, <<>>} /\ UNCHANGED monitors
    BY <1>1, Zenon DEF Fails, FailRun
  <2>2. results \in Seq(All)
    BY <1>0, Zenon
  <2> HIDE DEF All
  <2>3. <<>> \in Seq(All)
    OBVIOUS
  <2>4. results' \in Seq(All)
    BY <2>1, <2>2, <2>3, Zenon
  <2> QED
    BY <1>0, <2>1, <2>4, Zenon DEF monitors, All
<1>2. CASE MeasureOne
  BY <1>0, <1>2, <1>a, Zenon DEF MeasureOne, Measuring
<1>3. CASE LoadEnds
  BY <1>0, <1>3, Zenon DEF LoadEnds
<1>4. CASE Summarize
  <2> DEFINE All == (1..Runs) \X (1..Windows)
  <2>1. ThisWindow \in All /\ results' = Append(results, ThisWindow) /\ UNCHANGED monitors
    BY <1>4, <1>a, Zenon DEF Summarize, Measuring
  <2>2. results \in Seq(All)
    BY <1>0, Zenon
  <2> HIDE DEF All
  <2>3. results' \in Seq(All)
    BY <2>1, <2>2
  <2> QED
    BY <1>0, <2>1, <2>3, Zenon DEF monitors, All
<1>5. ASSUME NEW id \in (1..Runs) \X (1..Windows), SamplerEnds(id) PROVE OutputType'
  BY <1>0, <1>5, Zenon DEF SamplerEnds
<1>6. CASE UNCHANGED <<results, monitors>>
  BY <1>0, <1>6, Zenon DEF monitors
<1>7. CASE Preserve \/ build_instrumented \/ collect_profile \/ merge_profiles \/ build_optimized
  BY <1>1, <1>6, <1>7, Zenon DEF Preserve, build_instrumented, collect_profile, merge_profiles,
      build_optimized, PgoFails, Fails
<1>8. CASE StartRun \/ MockAccepts \/ Launch \/ Ready \/ WarmUp \/ Settle
  BY <1>6, <1>8, Zenon DEF StartRun, MockAccepts, Launch, Ready, WarmUp, Settle
<1>9. CASE Stop \/ Grace \/ Shutdown \/ ProfileLoad \/ ProfileLoadEnds \/ TimerFires
  BY <1>6, <1>9, Zenon DEF Stop, Grace, Shutdown, ProfileLoad, ProfileLoadEnds, TimerFires
<1>10. ASSUME NEW w \in Workers, Worker(w) PROVE OutputType'
  BY <1>6, <1>10, Zenon DEF Worker, WorkerLoops, WorkerSends, WorkerRecords
<1>11. ASSUME NEW i \in 0..Runs, MockBinds(i) \/ MockStops(i) \/ ChildSteps(i) PROVE OutputType'
  BY <1>6, <1>11, Zenon DEF MockBinds, MockStops, ChildSteps
<1> QED
  BY <1>1, <1>2, <1>3, <1>4, <1>5, <1>7, <1>8, <1>9, <1>10, <1>11, NextCases, Zenon

\* The directories hold builds, and the runs are started from them.
LEMMA BuildTypeStep == Inv /\ Next => BuildType'
<1> SUFFICES ASSUME Inv, Next PROVE BuildType'
  BY Zenon
<1> USE DEF BuildType, Binaries
<1>0. BuildType /\ run \in 0..Runs
  BY TypeParts, Zenon DEF Inv, RunnerType
<1>1. CASE UNCHANGED builds
  BY <1>0, <1>1, Zenon DEF builds
<1>2. CASE Launch
  BY <1>0, <1>2, Zenon DEF Launch, Build
<1>3. ASSUME NEW i \in 0..Runs, ChildSteps(i) PROVE BuildType'
  BY <1>0, <1>3, Zenon DEF ChildSteps
<1>4. CASE Preserve \/ merge_profiles
  BY <1>0, <1>1, <1>4, Zenon DEF Preserve, merge_profiles, PgoFails
<1>5. CASE build_instrumented \/ build_optimized
  BY <1>0, <1>1, <1>5, Zenon DEF build_instrumented, build_optimized, run_cargo, PgoFails
<1>6. CASE Fails \/ StartRun \/ MockAccepts \/ Ready \/ WarmUp \/ MeasureOne \/ LoadEnds
  BY <1>1, <1>6, Zenon DEF Fails, StartRun, MockAccepts, Ready, WarmUp, MeasureOne, LoadEnds
<1>7. CASE Summarize \/ Settle \/ Stop \/ Grace \/ Shutdown \/ TimerFires
  BY <1>1, <1>7, Zenon DEF Summarize, Settle, Stop, Grace, Shutdown, TimerFires
<1>8. CASE collect_profile \/ ProfileLoad \/ ProfileLoadEnds
  BY <1>1, <1>8, Zenon DEF collect_profile, ProfileLoad, ProfileLoadEnds, PgoFails
<1>9. ASSUME NEW w \in Workers, Worker(w) PROVE BuildType'
  BY <1>1, <1>9, Zenon DEF Worker, WorkerLoops, WorkerSends, WorkerRecords
<1>10. ASSUME NEW i \in 0..Runs, MockBinds(i) \/ MockStops(i) PROVE BuildType'
  BY <1>1, <1>10, Zenon DEF MockBinds, MockStops
<1>11. ASSUME NEW id \in (1..Runs) \X (1..Windows), SamplerEnds(id) PROVE BuildType'
  BY <1>1, <1>11, Zenon DEF SamplerEnds
<1> QED
  BY <1>2, <1>3, <1>4, <1>5, <1>6, <1>7, <1>8, <1>9, <1>10, <1>11, NextCases, Zenon

=============================================================================

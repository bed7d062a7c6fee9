--------------------------- MODULE BenchmarkProofs ---------------------------
(***************************************************************************)
(* The safety properties of the benchmark harness, for any number of runs, *)
(* windows, workers and requests.                                          *)
(***************************************************************************)
EXTENDS BenchmarkInvariant, FiniteSetTheorems

-----------------------------------------------------------------------------
(* The parts of the invariant that count workers, and the types.           *)

\* The workers are finitely many.
LEMMA InStateFinite ==
    ASSUME NEW f, NEW s
    PROVE  IsFiniteSet(InState(f, s)) /\ Cardinality(InState(f, s)) \in Nat
<1>1. IsFiniteSet(Workers)
  BY FS_Interval, BenchmarkAssumption DEF Workers
<1>2. InState(f, s) \in SUBSET Workers
  BY Zenon DEF InState
<1> QED
  BY <1>1, <1>2, FS_Subset, FS_CardinalityType, Zenon

\* None is counted in a state that no worker is in.
LEMMA NoneInState ==
    ASSUME NEW f, NEW s, \A w \in Workers : f[w] # s
    PROVE  Cardinality(InState(f, s)) = 0
<1>1. InState(f, s) = {}
  BY Zenon DEF InState
<1> QED
  BY <1>1, FS_EmptySet, Zenon

\* A worker that goes from one state to another is counted there and no longer here.
LEMMA MoveWorker ==
    ASSUME DOMAIN worker = Workers, NEW w \in Workers, NEW a, NEW b, a # b, worker[w] = a,
           worker' = [worker EXCEPT ![w] = b]
    PROVE  /\ Cardinality(InState(worker', a)) = Cardinality(InState(worker, a)) - 1
           /\ Cardinality(InState(worker', b)) = Cardinality(InState(worker, b)) + 1
           /\ Cardinality(InState(worker, a)) > 0
<1>1. /\ InState(worker', a) = InState(worker, a) \ {w} /\ w \in InState(worker, a)
      /\ InState(worker', b) = InState(worker, b) \cup {w} /\ w \notin InState(worker, b)
  BY Zenon DEF InState
<1>2. Cardinality(InState(worker', a)) = Cardinality(InState(worker, a)) - 1
  BY <1>1, InStateFinite, FS_RemoveElement, Zenon
<1>f. IsFiniteSet(InState(worker, b))
  BY InStateFinite, Zenon
<1>3. Cardinality(InState(worker', b)) = Cardinality(InState(worker, b)) + 1
  <2>1. Cardinality(InState(worker, b) \cup {w}) =
          IF w \in InState(worker, b) THEN Cardinality(InState(worker, b))
                                     ELSE Cardinality(InState(worker, b)) + 1
    BY <1>f, FS_AddElement, Zenon
  <2> QED
    BY <1>1, <2>1, Zenon
<1>4. Cardinality(InState(worker, a)) # 0
  BY <1>1, InStateFinite, FS_EmptySet, Zenon
<1>5. Cardinality(InState(worker, a)) > 0
  BY <1>4, InStateFinite
<1> QED
  BY <1>2, <1>3, <1>5, Zenon

\* The load generator's workers and counters.
LEMMA CountingStep == Inv /\ Next => Counting'
<1> SUFFICES ASSUME Inv, Next PROVE Counting'
  BY Zenon
<1> USE DEF Counting
<1>0. /\ Counting /\ DOMAIN worker = Workers /\ sent \in Nat /\ MaxRequests \in Nat
      /\ recorder \in [successful : Nat, failed : Nat, error_responses : Nat]
      /\ Cardinality(InState(worker, "awaiting")) \in Nat
      /\ Cardinality(InState(worker, "sending")) \in Nat
  BY BenchmarkAssumption, InStateFinite DEF Inv, TypeOK
<1>p. \A s : InState(worker, s)' = InState(worker', s)
  BY Zenon DEF InState
<1>1. CASE Fails
  BY <1>1, <1>0, Zenon DEF Fails, FailRun, NextRun, load
<1>2. CASE StartRun
  BY <1>2, <1>0, Zenon DEF StartRun, load
<1>3. CASE MockAccepts
  BY <1>3, <1>0, Zenon DEF MockAccepts, load
<1>4. CASE Launch
  BY <1>4, <1>0, Zenon DEF Launch, Build, load
<1>5. CASE Ready
  BY <1>5, <1>0, Zenon DEF Ready, load
<1>6. CASE WarmUp
  <2>1. \A w \in Workers : worker'[w] \in {"loop", "none"}
    BY <1>6, Zenon DEF WarmUp, StartLoad
  <2>2. /\ Cardinality(InState(worker', "awaiting")) = 0
        /\ Cardinality(InState(worker', "sending")) = 0
    BY <2>1, NoneInState, Zenon
  <2>3. recorder' = NewRecorder /\ sent' = 0 /\ pc' \in {"warm", "load"}
    BY <1>6, Zenon DEF WarmUp, StartLoad
  <2> QED
    BY <1>0, <1>p, <2>2, <2>3 DEF NewRecorder
<1>7. CASE MeasureOne
  <2>1. \A w \in Workers : worker'[w] \in {"loop", "none"}
    BY <1>7, Zenon DEF MeasureOne, StartLoad
  <2>2. /\ Cardinality(InState(worker', "awaiting")) = 0
        /\ Cardinality(InState(worker', "sending")) = 0
    BY <2>1, NoneInState, Zenon
  <2>3. recorder' = NewRecorder /\ sent' = 0 /\ pc' \in {"warm", "load"}
    BY <1>7, Zenon DEF MeasureOne, StartLoad
  <2> QED
    BY <1>0, <1>p, <2>2, <2>3 DEF NewRecorder
<1>8. CASE LoadEnds
  BY <1>8, <1>0, Zenon DEF LoadEnds, load
<1>9. CASE Summarize
  BY <1>9, <1>0, Zenon DEF Summarize, load
<1>10. CASE Settle
  BY <1>10, <1>0, Zenon DEF Settle, load
<1>11. CASE Stop
  BY <1>11, <1>0, Zenon DEF Stop, load
<1>12. CASE Grace
  BY <1>12, <1>0, Zenon DEF Grace, load
<1>13. CASE Shutdown
  BY <1>13, <1>0, Zenon DEF Shutdown, NextRun, load
<1>14. CASE Preserve
  BY <1>14, <1>1, <1>0, Zenon DEF Preserve, PgoFails, Fails, load
<1>15. CASE build_instrumented
  BY <1>15, <1>1, <1>0, Zenon DEF build_instrumented, run_cargo, PgoFails, Fails, load
<1>16. CASE collect_profile
  <2>1. CASE Fails
    BY <1>1, <2>1, Zenon
  <2>2. CASE ~Fails
    <3>1. /\ recorder' = NewRecorder /\ sent' = 0 /\ worker' = worker
          /\ \A w \in Workers : worker[w] \in {"none", "done"}
      BY <1>16, <1>0, <2>2, Zenon DEF collect_profile, PgoFails, Fails
    <3>2. /\ Cardinality(InState(worker, "awaiting")) = 0
          /\ Cardinality(InState(worker, "sending")) = 0
      BY <3>1, NoneInState, Zenon
    <3> QED
      BY <1>0, <1>p, <3>1, <3>2 DEF NewRecorder
  <2> QED
    BY <2>1, <2>2, Zenon
<1>17. CASE ProfileLoad
  <2>1. /\ \A w \in Workers : worker[w] \in {"none", "done"}
        /\ \A w \in Workers : worker'[w] = "loop"
        /\ UNCHANGED <<recorder, sent>> /\ pc' = "profiling"
    BY <1>17, <1>0, Zenon DEF ProfileLoad
  <2>2. /\ Cardinality(InState(worker, "awaiting")) = 0
        /\ Cardinality(InState(worker', "awaiting")) = 0
        /\ Cardinality(InState(worker', "sending")) = 0
    BY <2>1, NoneInState, Zenon
  <2> QED
    BY <1>0, <1>p, <2>1, <2>2, SMTT(30)
<1>18. CASE ProfileLoadEnds
  BY <1>18, <1>0, Zenon DEF ProfileLoadEnds, load
<1>19. CASE merge_profiles
  BY <1>19, <1>1, <1>0, Zenon DEF merge_profiles, PgoFails, Fails, load
<1>20. CASE build_optimized
  BY <1>20, <1>1, <1>0, Zenon DEF build_optimized, run_cargo, PgoFails, Fails, load
<1>21. CASE TimerFires
  BY <1>21, <1>0, Zenon DEF TimerFires, load
<1>22. ASSUME NEW w \in Workers, WorkerLoops(w) PROVE Counting'
  <2>1. CASE worker' = [worker EXCEPT ![w] = "sending"]
    <3>1. /\ worker[w] = "loop" /\ UNCHANGED <<pc, recorder, sent>> /\ pc \in {"warm", "load", "profiling"}
          /\ sent + Cardinality(InState(worker, "sending")) < MaxRequests
      BY <1>22, <1>0, <2>1, Zenon DEF WorkerLoops, InState
    <3>2. Cardinality(InState(worker', "sending")) = Cardinality(InState(worker, "sending")) + 1
      BY <1>0, <2>1, <3>1, MoveWorker, Zenon
    <3>3. InState(worker', "awaiting") = InState(worker, "awaiting")
      BY <1>0, <2>1, <3>1, Zenon DEF InState
    <3> QED
      BY <1>0, <1>p, <3>1, <3>2, <3>3, SMTT(30)
  <2>2. CASE worker' = [worker EXCEPT ![w] = "done"]
    <3>1. worker[w] = "loop" /\ UNCHANGED <<pc, recorder, sent>> /\ pc \in {"warm", "load", "profiling"}
      BY <1>22, <1>0, Zenon DEF WorkerLoops
    <3>2. /\ InState(worker', "sending") = InState(worker, "sending")
          /\ InState(worker', "awaiting") = InState(worker, "awaiting")
      BY <1>0, <2>2, <3>1, Zenon DEF InState
    <3> QED
      BY <1>0, <1>p, <3>1, <3>2, Zenon
  <2> QED
    BY <1>22, <2>1, <2>2, Zenon DEF WorkerLoops
<1>23. ASSUME NEW w \in Workers, WorkerSends(w) PROVE Counting'
  <2>1. /\ worker[w] = "sending" /\ worker' = [worker EXCEPT ![w] = "awaiting"]
        /\ sent' = sent + 1 /\ UNCHANGED <<pc, recorder>> /\ pc \in {"warm", "load", "profiling"}
    BY <1>23, <1>0, Zenon DEF WorkerSends
  <2>2. /\ Cardinality(InState(worker', "sending")) = Cardinality(InState(worker, "sending")) - 1
        /\ Cardinality(InState(worker', "awaiting")) = Cardinality(InState(worker, "awaiting")) + 1
    BY <1>0, <2>1, MoveWorker, Zenon
  <2> QED
    BY <1>0, <1>p, <2>1, <2>2
<1>24. ASSUME NEW w \in Workers, WorkerRecords(w) PROVE Counting'
  <2>1. /\ worker[w] = "awaiting" /\ worker' = [worker EXCEPT ![w] = "loop"]
        /\ UNCHANGED <<pc, sent>> /\ pc \in {"warm", "load", "profiling"}
    BY <1>24, <1>0, Zenon DEF WorkerRecords
  <2>2. Cardinality(InState(worker', "awaiting")) = Cardinality(InState(worker, "awaiting")) - 1
    BY <1>0, <2>1, MoveWorker, Zenon
  <2>3. InState(worker', "sending") = InState(worker, "sending")
    BY <1>0, <2>1, Zenon DEF InState
  <2>4. /\ recorder'.successful + recorder'.failed = recorder.successful + recorder.failed + 1
        /\ recorder'.error_responses <= recorder'.successful
    BY <1>24, <1>0 DEF WorkerRecords, Recorded, Outcomes
  <2>5. recorder'.successful \in Nat /\ recorder'.failed \in Nat
    BY <1>24, <1>0 DEF WorkerRecords, Recorded, Outcomes
  <2> QED
    <3> DEFINE a == Cardinality(InState(worker, "awaiting"))
               e == Cardinality(InState(worker, "sending"))
    <3>1. /\ Cardinality(InState(worker, "awaiting")') = a - 1
          /\ Cardinality(InState(worker, "sending")') = e
      BY <1>p, <2>2, <2>3, Zenon
    <3>2. recorder.successful + recorder.failed + a = sent /\ sent + e <= MaxRequests
      BY <1>0, Zenon
    <3>3. a \in Nat /\ e \in Nat /\ recorder.successful \in Nat /\ recorder.failed \in Nat
      BY <1>0, Zenon
    <3> HIDE DEF a, e
    <3>4. recorder'.successful + recorder'.failed + (a - 1) = sent' /\ sent' + e <= MaxRequests
      BY <1>0, <2>1, <2>4, <2>5, <3>2, <3>3, SMTT(30)
    <3> QED
      BY <2>1, <2>4, <3>1, <3>4, Zenon
<1>25. ASSUME NEW i \in 0..Runs, MockBinds(i) PROVE Counting'
  BY <1>25, <1>0, Zenon DEF MockBinds, load
<1>26. ASSUME NEW i \in 0..Runs, MockStops(i) PROVE Counting'
  BY <1>26, <1>0, Zenon DEF MockStops, load
<1>27. ASSUME NEW i \in 0..Runs, ChildSteps(i) PROVE Counting'
  BY <1>27, <1>0, Zenon DEF ChildSteps, load
<1>28. ASSUME NEW id \in (1..Runs) \X (1..Windows), SamplerEnds(id) PROVE Counting'
  BY <1>28, <1>0, Zenon DEF SamplerEnds, load
<1> QED
  BY <1>1, <1>2, <1>3, <1>4, <1>5, <1>6, <1>7, <1>8, <1>9, <1>10, <1>11, <1>12, <1>13, <1>14,
      <1>15, <1>16, <1>17, <1>18, <1>19, <1>20, <1>21, <1>22, <1>23, <1>24, <1>25, <1>26, <1>27,
      <1>28, NextCases, ZenonT(60) DEF Worker

\* The states of the workers, and the counters: what is recorded was sent.
LEMMA LoadTypeStep == Inv /\ Next => LoadType'
<1> SUFFICES ASSUME Inv, Next PROVE LoadType'
  BY Zenon
<1> USE DEF LoadType
<1>0. LoadType /\ MaxRequests \in Nat
  BY TypeParts, BenchmarkAssumption, Zenon DEF Inv
<1>a. 0 \in 0..MaxRequests /\ NewRecorder \in [successful : 0..MaxRequests, failed : 0..MaxRequests,
                                              error_responses : 0..MaxRequests]
  BY <1>0 DEF NewRecorder
<1>1. CASE Fails
  BY <1>0, <1>1, Zenon DEF Fails, load
<1>2. CASE WarmUp \/ MeasureOne
  BY <1>0, <1>2, <1>a, Zenon DEF WarmUp, MeasureOne, StartLoad
<1>3. CASE ProfileLoad \/ TimerFires
  BY <1>0, <1>3, Zenon DEF ProfileLoad, TimerFires
<1>4. CASE collect_profile
  BY <1>0, <1>1, <1>4, <1>a, Zenon DEF collect_profile, PgoFails, Fails
<1>5. CASE Preserve \/ build_instrumented \/ merge_profiles \/ build_optimized
  BY <1>0, <1>1, <1>5, Zenon DEF Preserve, build_instrumented, merge_profiles, build_optimized, PgoFails,
      Fails, load
<1>6. ASSUME NEW w \in Workers, WorkerLoops(w) PROVE LoadType'
  BY <1>0, <1>6, Zenon DEF WorkerLoops
<1>7. ASSUME NEW w \in Workers, WorkerSends(w) PROVE LoadType'
  <2>1. worker' = [worker EXCEPT ![w] = "awaiting"] /\ sent' = sent + 1 /\ UNCHANGED <<running, recorder>>
    BY <1>7, Zenon DEF WorkerSends
  <2>2. sent' <= MaxRequests
    <3>1. sent' + Cardinality(InState(worker, "sending")') <= MaxRequests
      BY CountingStep, Zenon DEF Counting
    <3>2. Cardinality(InState(worker, "sending")') \in Nat
      BY InStateFinite, Zenon DEF InState
    <3> QED
      BY <1>0, <2>1, <3>1, <3>2
  <2> QED
    BY <1>0, <2>1, <2>2, SMTT(30)
<1>8. ASSUME NEW w \in Workers, WorkerRecords(w) PROVE LoadType'
  <2>1. worker' = [worker EXCEPT ![w] = "loop"] /\ UNCHANGED <<running, sent>>
    BY <1>8, Zenon DEF WorkerRecords
  <2>2. recorder' \in [successful : Nat, failed : Nat, error_responses : Nat]
    <3>1. recorder \in [successful : Nat, failed : Nat, error_responses : Nat]
      BY <1>0
    <3>2. PICK outcome \in Outcomes : recorder' = Recorded(outcome)
      BY <1>8, Zenon DEF WorkerRecords
    <3>3. CASE outcome = "success"
      BY <3>1, <3>2, <3>3 DEF Recorded
    <3>4. CASE outcome = "error_response"
      <4>1. recorder' = [successful |-> recorder.successful + 1, failed |-> recorder.failed,
                         error_responses |-> recorder.error_responses + 1]
        BY <3>1, <3>2, <3>4, Zenon DEF Recorded
      <4> QED
        BY <3>1, <4>1
    <3>5. CASE outcome = "failure"
      BY <3>1, <3>2, <3>5, SMTT(30) DEF Recorded
    <3> QED
      BY <3>3, <3>4, <3>5, Zenon DEF Outcomes
  <2>3. /\ recorder'.successful + recorder'.failed <= sent
        /\ recorder'.error_responses <= recorder'.successful
    <3>1. /\ recorder'.successful + recorder'.failed
               + Cardinality(InState(worker, "awaiting")') = sent'
          /\ recorder'.error_responses <= recorder'.successful
      BY CountingStep, Zenon DEF Counting
    <3>2. Cardinality(InState(worker, "awaiting")') \in Nat
      BY InStateFinite, Zenon DEF InState
    <3> QED
      BY <1>0, <2>1, <2>2, <3>1, <3>2, SMTT(30)
  <2> QED
    BY <1>0, <2>1, <2>2, <2>3, SMTT(30)
<1>9. CASE StartRun \/ MockAccepts \/ Launch \/ Ready \/ LoadEnds \/ Summarize \/ Settle
  BY <1>0, <1>9, Zenon DEF StartRun, MockAccepts, Launch, Ready, LoadEnds, Summarize, Settle, load
<1>10. CASE Stop \/ Grace \/ Shutdown \/ ProfileLoadEnds
  BY <1>0, <1>10, Zenon DEF Stop, Grace, Shutdown, ProfileLoadEnds, load
<1>11. ASSUME NEW i \in 0..Runs, MockBinds(i) \/ MockStops(i) \/ ChildSteps(i) PROVE LoadType'
  BY <1>0, <1>11, Zenon DEF MockBinds, MockStops, ChildSteps, load
<1>12. ASSUME NEW id \in (1..Runs) \X (1..Windows), SamplerEnds(id) PROVE LoadType'
  BY <1>0, <1>12, Zenon DEF SamplerEnds, load
<1> QED
  BY <1>1, <1>2, <1>3, <1>4, <1>5, <1>6, <1>7, <1>8, <1>9, <1>10, <1>11, <1>12, NextCases, Zenon
  DEF Worker

-----------------------------------------------------------------------------
(* The theorems.                                                           *)

\* The harness starts with nothing running, nothing sent and nothing gathered.
LEMMA InitInv == Init => Inv
<1> SUFFICES ASSUME Init PROVE Inv
  BY Zenon
<1> USE BenchmarkAssumption DEF Init, NewRecorder
<1>1. TypeOK
  <2>1. RunnerType
    BY SMTT(30) DEF RunnerType, Profiling, Starting
  <2>2. ProcessType
    BY Zenon DEF ProcessType
  <2>3. LoadType
    <3>1. 0 \in 0..MaxRequests
      OBVIOUS
    <3>2. /\ running = FALSE /\ worker = [w \in Workers |-> "none"] /\ sent = 0
          /\ recorder = [successful |-> 0, failed |-> 0, error_responses |-> 0]
      BY Zenon
    <3>3. recorder \in [successful : 0..MaxRequests, failed : 0..MaxRequests,
                       error_responses : 0..MaxRequests]
      BY <3>1, <3>2
    <3> QED
      BY <3>1, <3>2, <3>3, Zenon DEF LoadType
  <2>4. OutputType
    <3> DEFINE All == (1..Runs) \X (1..Windows)
    <3>1. results = <<>> /\ samplers = {} /\ monitoring = {}
      BY Zenon
    <3> HIDE DEF All
    <3>2. results \in Seq(All)
      BY <3>1, SMTT(30)
    <3> QED
      BY <3>1, <3>2, Zenon DEF OutputType, All
  <2>5. BuildType
    BY Zenon DEF BuildType, Binaries
  <2> QED
    BY <2>1, <2>2, <2>3, <2>4, <2>5, TypeParts, Zenon
<1>2. Control
  BY DEF Control, Profiling, Starting, Measuring, Stopping
<1>3. Processes
  BY DEF Processes, WithChild, Measuring, Alive
<1>4. Sampling
  BY Zenon DEF Sampling
<1>5. Counting
  <2>1. /\ Cardinality(InState(worker, "awaiting")) = 0
        /\ Cardinality(InState(worker, "sending")) = 0
    BY NoneInState, Zenon
  <2> QED
    BY <2>1, SMTT(30) DEF Counting
<1>6. Building
  BY SMTT(30) DEF Building, Stopping
<1>7. Gathering
  <2>1. \A i \in 1..Runs, w \in 1..Windows : ~Gathered(i, w)
    BY DEF Gathered, Stopping
  <2> QED
    BY <2>1, SMTT(30) DEF Gathering
<1> QED
  BY <1>1, <1>2, <1>3, <1>4, <1>5, <1>6, <1>7, Zenon DEF Inv

\* A step of any task keeps the invariant.
LEMMA NextInv == Inv /\ [Next]_vars => Inv'
<1> SUFFICES ASSUME Inv, [Next]_vars PROVE Inv'
  BY Zenon
<1>1. CASE Next
  <2>1. TypeOK'
    <3>1. RunnerType' /\ ProcessType' /\ LoadType' /\ OutputType' /\ BuildType'
      BY <1>1, RunnerTypeStep, ProcessTypeStep, LoadTypeStep, OutputTypeStep, BuildTypeStep, Zenon
    <3> QED
      BY <3>1, TypeParts, PTL
  <2> QED
    BY <1>1, <2>1, ControlStep, ProcessesStep, SamplingStep, CountingStep, BuildingStep,
       GatheringStep, Zenon
    DEF Inv
<1>2. CASE UNCHANGED vars
  <2> USE <1>2 DEF vars, load, monitors, builds
  <2>0. TypeOK'
    <3>1. RunnerType' /\ ProcessType' /\ LoadType' /\ OutputType' /\ BuildType'
      BY TypeParts, Zenon DEF Inv, RunnerType, ProcessType, LoadType, OutputType, BuildType
    <3> QED
      BY <3>1, TypeParts, PTL
  <2>1. Control'
    BY Zenon DEF Inv, Control
  <2>2. Processes' /\ Sampling'
    BY Zenon DEF Inv, Processes, Sampling, ThisWindow
  <2>3. Counting' /\ Building'
    BY SMTT(30) DEF Inv, Counting, Building, InState
  <2>4. Gathering'
    BY Zenon DEF Inv, Gathering, Gathered
  <2> QED
    BY <2>0, <2>1, <2>2, <2>3, <2>4, Zenon DEF Inv
<1> QED
  BY <1>1, <1>2, Zenon

\* The invariant holds throughout.
LEMMA Invariance == Spec => []Inv
  BY InitInv, NextInv, PTL DEF Spec

\* The counters never pass the number of requests, and the runs, windows, tasks, processes and
\* builds keep to their states.
THEOREM TypeCorrect == Spec => []TypeOK
<1>1. Inv => TypeOK
  BY Zenon DEF Inv
<1> QED
  BY <1>1, Invariance, PTL

\* run_all's "strictly one at a time": for any number of candidates, at most the current run's
\* process is alive, and never without the upstream that it proxies to.
THEOREM OneCandidateAtATime == Spec => []OneAtATime
<1>1. Inv => OneAtATime
  BY DEF Inv, TypeOK, Control, Processes, OneAtATime, WithChild, Measuring
<1> QED
  BY <1>1, Invariance, PTL

\* measure_one awaits the sampling of its window: no two windows are ever sampled together.
THEOREM WindowsAreSampledApart == Spec => []SamplersDoNotOverlap
<1>1. Inv => SamplersDoNotOverlap
  BY Zenon DEF Inv, Sampling, SamplersDoNotOverlap
<1> QED
  BY <1>1, Invariance, PTL

\* run_pgo_delta's "attributable to the build and nothing else", for any number of windows.
THEOREM DeltaIsAttributable == Spec => []DeltaIsOfTheBuilds
<1>1. Inv => DeltaIsOfTheBuilds
  <2> SUFFICES ASSUME Inv, mode = "pgo", results # <<>>, ~elsewhere
               PROVE  /\ ran[0] = "instrumented" /\ ran[1] = "found" /\ profile = "merged"
                      /\ ran[2] \in {"none", "optimized"}
    BY Zenon DEF DeltaIsOfTheBuilds
  <2>1. run \in {0, 1, 2}
    BY DEF Inv, TypeOK, Control
  <2> QED
    BY <2>1 DEF Inv, Building
<1> QED
  BY <1>1, Invariance, PTL

\* What run_all and run_pgo_delta return is every window of every run that did not fail, in order
\* and once, whichever runs fail.
THEOREM ResultsAreComplete == Spec => []ResultsComplete
<1>1. Inv => ResultsComplete
  <2> SUFFICES ASSUME Inv, pc = "done" PROVE ResultsComplete
    BY Zenon DEF ResultsComplete
  <2>1. CASE mode = "pgo" /\ failed # {}
    BY <2>1, Zenon DEF Inv, Control, ResultsComplete
  <2>2. CASE ~(mode = "pgo" /\ failed # {})
    <3>1. run = Runs /\ Runs \in Nat
      BY <2>2, BenchmarkAssumption, Zenon DEF Inv, Control
    <3>2. \A i \in 1..Runs, w \in 1..Windows : Gathered(i, w) <=> i \notin failed
      BY <3>1, SMTT(30) DEF Gathered
    <3>3. \A i \in 1..Runs, w \in 1..Windows :
            i \notin failed <=> \E k \in 1..Len(results) : results[k] = <<i, w>>
      BY <2>2, <3>2, Zenon DEF Inv, Gathering
    <3>4. DOMAIN results = 1..Len(results)
          /\ \A k \in 1..Len(results) : results[k] \in (1..Runs) \X (1..Windows)
      BY DEF Inv, TypeOK
    <3>5. Range(results) = ((1..Runs) \ failed) \X (1..Windows)
      <4>1. ASSUME NEW k \in 1..Len(results)
            PROVE  results[k] \in ((1..Runs) \ failed) \X (1..Windows)
        <5>1. PICK i \in 1..Runs, w \in 1..Windows : results[k] = <<i, w>>
          BY <3>4
        <5>2. i \notin failed
          BY <3>3, <5>1, Zenon
        <5> QED
          BY <5>1, <5>2, SMTT(30)
      <4>2. ASSUME NEW i \in (1..Runs) \ failed, NEW w \in 1..Windows
            PROVE  \E k \in 1..Len(results) : results[k] = <<i, w>>
        BY <3>3, Zenon
      <4>3. \A x \in ((1..Runs) \ failed) \X (1..Windows) :
              \E k \in 1..Len(results) : results[k] = x
        <5>1. TAKE x \in ((1..Runs) \ failed) \X (1..Windows)
        <5>2. PICK i \in (1..Runs) \ failed, w \in 1..Windows : x = <<i, w>>
          OBVIOUS
        <5> QED
          BY <4>2, <5>2, Zenon
      <4>4. Range(results) = {results[k] : k \in 1..Len(results)}
        BY <3>4, Zenon DEF Range
      <4> QED
        BY <4>1, <4>3, <4>4, SMTT(30)
    <3> QED
      BY <2>2, <3>5, Zenon DEF Inv, Gathering, ResultsComplete
  <2> QED
    BY <2>1, <2>2, Zenon
<1> QED
  BY <1>1, Invariance, PTL

\* With no load offered, no request is in flight: what was sent has been recorded.
LEMMA QuietIsCounted ==
    ASSUME Inv, pc \notin {"warm", "load", "profiling"}
    PROVE  recorder.successful + recorder.failed = sent
<1>1. /\ \A w \in Workers : worker[w] # "awaiting"
      /\ recorder.successful + recorder.failed + Cardinality(InState(worker, "awaiting")) = sent
  BY Zenon DEF Inv, Counting
<1>2. recorder.successful \in Nat /\ recorder.failed \in Nat /\ sent \in Nat
  BY TypeParts, BenchmarkAssumption DEF Inv, LoadType
<1>3. Cardinality(InState(worker, "awaiting")) = 0
  BY <1>1, NoneInState, Zenon
<1> QED
  BY <1>1, <1>2, <1>3

\* A result is pushed only when every request of its window, and none of the warm-up's, has been
\* recorded, for any number of workers and requests.
THEOREM RequestsAreCounted == Spec => EveryRequestCounted
<1>1. ASSUME Inv, [Next]_vars, results' # results, results' # <<>>
      PROVE  recorder.successful + recorder.failed = sent
  <2>1. Next
    BY <1>1, Zenon DEF vars
  <2>2. CASE Summarize
    BY <1>1, <2>2, QuietIsCounted, Zenon DEF Summarize
  <2>3. CASE Fails
    BY <1>1, <2>3, Zenon DEF Fails, FailRun
  <2>4. ASSUME ~Summarize, ~Fails PROVE UNCHANGED results
    <3>1. CASE Preserve \/ build_instrumented \/ collect_profile \/ merge_profiles \/ build_optimized
      BY <2>4, <3>1, Zenon DEF Preserve, build_instrumented, collect_profile, merge_profiles,
          build_optimized, PgoFails, Fails
    <3>2. CASE StartRun \/ MockAccepts \/ Launch \/ Ready \/ WarmUp \/ MeasureOne \/ LoadEnds
      BY <3>2, Zenon DEF StartRun, MockAccepts, Launch, Ready, WarmUp, MeasureOne, LoadEnds
    <3>3. CASE Settle \/ Stop \/ Grace \/ Shutdown \/ ProfileLoad \/ ProfileLoadEnds \/ TimerFires
      BY <3>3, Zenon DEF Settle, Stop, Grace, Shutdown, ProfileLoad, ProfileLoadEnds, TimerFires
    <3>4. ASSUME NEW w \in Workers, Worker(w) PROVE UNCHANGED results
      BY <3>4, Zenon DEF Worker, WorkerLoops, WorkerSends, WorkerRecords
    <3>5. ASSUME NEW i \in 0..Runs, MockBinds(i) \/ MockStops(i) \/ ChildSteps(i)
          PROVE  UNCHANGED results
      BY <3>5, Zenon DEF MockBinds, MockStops, ChildSteps
    <3>6. ASSUME NEW id \in (1..Runs) \X (1..Windows), SamplerEnds(id) PROVE UNCHANGED results
      BY <3>6, Zenon DEF SamplerEnds
    <3> QED
      BY <2>1, <2>4, <3>1, <3>2, <3>3, <3>4, <3>5, <3>6, NextCases, Zenon
  <2> QED
    BY <1>1, <2>2, <2>3, <2>4, Zenon
<1>2. Inv /\ [Next]_vars =>
        [results' # results /\ results' # <<>> =>
           recorder.successful + recorder.failed = sent]_vars
  BY <1>1, Zenon
<1> QED
  BY <1>2, Invariance, PTL DEF Spec, EveryRequestCounted

\* An optimised build is made only from a merged profile of a load that sent requests, all of
\* which had ended.
THEOREM ProfilesAreOfTraffic == Spec => ProfileIsOfTraffic
<1>1. ASSUME Inv, [Next]_vars, built' = "optimized", built # "optimized"
      PROVE  sent > 0 /\ recorder.successful + recorder.failed = sent /\ profile = "merged"
  <2>1. Next
    BY <1>1, Zenon DEF vars, builds
  <2>2. CASE build_optimized
    <3>1. pc = "optimize" /\ mode = "pgo"
      BY <1>1, <2>2, Zenon DEF build_optimized, Inv, Control, Profiling
    <3>2. profile = "merged" /\ recorder.successful + recorder.failed > 0
      BY <1>1, <3>1, Zenon DEF Inv, Building
    <3>3. recorder.successful + recorder.failed = sent
      BY <1>1, <3>1, QuietIsCounted, Zenon
    <3> QED
      BY <3>2, <3>3, Zenon
  <2>3. ASSUME ~build_optimized PROVE built' \in {built, "instrumented"}
    <3>1. CASE Fails \/ Preserve \/ build_instrumented \/ collect_profile \/ merge_profiles
      BY <3>1, Zenon DEF Fails, Preserve, build_instrumented, run_cargo, collect_profile, merge_profiles,
          PgoFails, builds
    <3>2. CASE StartRun \/ MockAccepts \/ Launch \/ Ready \/ WarmUp \/ MeasureOne \/ LoadEnds
      BY <3>2, Zenon DEF StartRun, MockAccepts, Launch, Ready, WarmUp, MeasureOne, LoadEnds, builds
    <3>3. CASE Summarize \/ Settle \/ Stop \/ Grace \/ Shutdown
      BY <3>3, Zenon DEF Summarize, Settle, Stop, Grace, Shutdown, builds
    <3>4. CASE ProfileLoad \/ ProfileLoadEnds \/ TimerFires
      BY <3>4, Zenon DEF ProfileLoad, ProfileLoadEnds, TimerFires, builds
    <3>5. ASSUME NEW w \in Workers, Worker(w) PROVE built' = built
      BY <3>5, Zenon DEF Worker, WorkerLoops, WorkerSends, WorkerRecords, builds
    <3>6. ASSUME NEW i \in 0..Runs, MockBinds(i) \/ MockStops(i) \/ ChildSteps(i)
          PROVE  built' = built
      BY <3>6, Zenon DEF MockBinds, MockStops, ChildSteps, builds
    <3>7. ASSUME NEW id \in (1..Runs) \X (1..Windows), SamplerEnds(id) PROVE built' = built
      BY <3>7, Zenon DEF SamplerEnds, builds
    <3> QED
      BY <2>1, <2>3, <3>1, <3>2, <3>3, <3>4, <3>5, <3>6, <3>7, NextCases, Zenon
  <2> QED
    BY <1>1, <2>2, <2>3, Zenon
<1>2. Inv /\ [Next]_vars =>
        [built' = "optimized" /\ built # "optimized" =>
           sent > 0 /\ recorder.successful + recorder.failed = sent /\ profile = "merged"]_vars
  BY <1>1, Zenon
<1> QED
  BY <1>2, Invariance, PTL DEF Spec, ProfileIsOfTraffic

=============================================================================

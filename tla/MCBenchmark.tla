----------------------------- MODULE MCBenchmark -----------------------------
(* Two candidates, two windows each, three workers (one while warming up). *)
EXTENDS Benchmark
=============================================================================

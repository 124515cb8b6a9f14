--------------------------- MODULE RandenBenchmark ---------------------------
(***************************************************************************)
(* random/internal/randen_benchmarks.cc: the benchmark driver.  main calls *)
(* RunAll, which optionally pins the thread to the CPU given as argv[1],   *)
(* then runs Measure<Op> for each benchmarked operation in turn.  Measure  *)
(* hands the op to nanobenchmark's MeasureClosure, which calls op(num_iters)*)
(* for the inputs, and prints the results with Print<N>.                   *)
(*                                                                         *)
(* MeasureClosure, PinThreadToCPU, SimpleAtoi and the Randen permutation   *)
(* are not in this repository.  MeasureClosure is modelled from its        *)
(* contract: a bounded number of calls op(x) with x among the inputs, then *)
(* either 0 results (measurement failed) or one result per input, in       *)
(* order.  A SimpleAtoi outcome is given as [ok, val].  The work an op     *)
(* does is abstracted to the number of Absorb / Generate / rng() calls.    *)
(* FuncInput and the loop counter are size_t: Width bits, arithmetic       *)
(* modulo 2^Width.                                                         *)
(***************************************************************************)
EXTENDS Integers, Sequences, FiniteSets

CONSTANTS
    Width,      \* bits of size_t
    HasAes,     \* TURBO_HAVE_ACCELERATED_AES && !TURBO_INTERNAL_DISABLE_AES
    Argcs,      \* argument counts main may be started with
    CpuArgs,    \* SimpleAtoi outcomes for argv[1]: [ok, val]
    kInputs,    \* the multipliers of inputs[]  (100, 1000 in the code)
    kInputs1,   \* the multipliers of inputs1[] (1000, 10000 in the code)
    kMaxEvals   \* bound on the op calls one MeasureClosure makes

ASSUME Width >= 1 /\ HasAes \in BOOLEAN /\ kMaxEvals >= 1

kSizeMax == 2^Width

\* The benchmarked ops: Fn picks the operator(), In which input array.
Op(fn, in) == [fn |-> fn, in |-> in]
Plan ==
    (IF HasAes THEN <<Op("absorb", 1)>> ELSE <<>>) \o <<Op("absorb", 1)>> \o
    (IF HasAes THEN <<Op("generate", 1)>> ELSE <<>>) \o <<Op("generate", 1)>> \o
    <<Op("engine", 2), Op("engine", 2)>>

VARIABLES
    pc,            \* "start", "measure", "closure", "call", "print", "done", "fatal"
    argc,          \* main's argc
    pinned,        \* the arguments of the PinThreadToCPU calls made
    unpredictable, \* (argc != 999)
    measure,       \* index into Plan of the running Measure
    evals,         \* op calls made by the running MeasureClosure
    numIters,      \* the running op call's num_iters
    iter,          \* its loop counter i
    work,          \* Absorb / Generate / rng() calls made by the running op call
    results,       \* the inputs MeasureClosure returned results for
    out,           \* the lines printed: [kind, measure, input]
    headers        \* the N of every Print<N> whose static header is initialized

benchVars == <<pc, argc, pinned, unpredictable, measure, evals, numIters, iter,
               work, results, out, headers>>

\* static const FuncInput inputs[] and inputs1[].
Inputs == [j \in DOMAIN kInputs |-> (unpredictable * kInputs[j]) % kSizeMax]
Inputs1 == [j \in DOMAIN kInputs1 |-> (unpredictable * kInputs1[j]) % kSizeMax]
InputsOf(k) == IF Plan[k].in = 1 THEN Inputs ELSE Inputs1

\* The loop bound of each operator(): i < num_iters for AbsorbFn and
\* GenerateFn, i < num_iters - 1 (in size_t) for Engine, which calls rng()
\* once more to return.
AbsorbIters(x) == x
GenerateIters(x) == x
EngineIters(x) == (x - 1) % kSizeMax
LoopBound(fn, x) ==
    CASE fn = "absorb" -> AbsorbIters(x)
      [] fn = "generate" -> GenerateIters(x)
      [] fn = "engine" -> EngineIters(x)

Line(kind, k, x) == [kind |-> kind, measure |-> k, input |-> x]

BenchInit ==
    /\ pc = "start"
    /\ argc \in Argcs
    /\ pinned = <<>>
    /\ unpredictable = 0
    /\ measure = 0
    /\ evals = 0 /\ numIters = 0 /\ iter = 0 /\ work = 0
    /\ results = <<>>
    /\ out = <<>>
    /\ headers = {}

\* RunAll up to the first Measure: with one argument, a CPU number that
\* SimpleAtoi rejects is a FATAL raw log (the process aborts); any number
\* it accepts is passed to PinThreadToCPU.  Then unpredictable and the
\* static input arrays are set.
Start ==
    /\ pc = "start"
    /\ \/ /\ argc = 2 /\ \E a \in CpuArgs : ~a.ok
          /\ pc' = "fatal"
          /\ UNCHANGED <<pinned, unpredictable, measure>>
       \/ /\ \/ argc # 2 /\ UNCHANGED pinned
             \/ argc = 2 /\ \E a \in CpuArgs : a.ok /\ pinned' = <<a.val>>
          /\ unpredictable' = IF argc # 999 THEN 1 ELSE 0
          /\ measure' = 1
          /\ pc' = "measure"
    /\ UNCHANGED <<argc, evals, numIters, iter, work, results, out, headers>>

\* Measure<Op>: a fresh Op, and MeasureClosure is entered.
MeasureBegin ==
    /\ pc = "measure" /\ measure <= Len(Plan)
    /\ pc' = "closure"
    /\ evals' = 0
    /\ UNCHANGED <<argc, pinned, unpredictable, measure, numIters, iter, work,
                   results, out, headers>>

\* MeasureClosure calls op(x) for one of the inputs.
ClosureCall ==
    /\ pc = "closure" /\ evals < kMaxEvals
    /\ \E j \in DOMAIN InputsOf(measure) :
          /\ numIters' = InputsOf(measure)[j]
          /\ iter' = 0 /\ work' = 0
    /\ evals' = evals + 1
    /\ pc' = "call"
    /\ UNCHANGED <<argc, pinned, unpredictable, measure, results, out, headers>>

\* One iteration of the op's for loop: this->Absorb, this->Generate or rng().
OpStep ==
    /\ pc = "call"
    /\ iter < LoopBound(Plan[measure].fn, numIters)
    /\ work' = work + 1
    /\ iter' = (iter + 1) % kSizeMax
    /\ UNCHANGED <<pc, argc, pinned, unpredictable, measure, evals, numIters,
                   results, out, headers>>

\* The loop ends: return state[0], or return rng() for Engine.
OpReturn ==
    /\ pc = "call"
    /\ ~(iter < LoopBound(Plan[measure].fn, numIters))
    /\ work' = work + (IF Plan[measure].fn = "engine" THEN 1 ELSE 0)
    /\ pc' = "closure"
    /\ UNCHANGED <<argc, pinned, unpredictable, measure, evals, numIters, iter,
                   results, out, headers>>

\* MeasureClosure returns num_results: 0 when the measurement failed, else
\* one result per input.
ClosureReturn ==
    /\ pc = "closure" /\ evals >= 1
    /\ \/ results' = <<>>
       \/ results' = InputsOf(measure)
    /\ pc' = "print"
    /\ UNCHANGED <<argc, pinned, unpredictable, measure, evals, numIters, iter,
                   work, out, headers>>

\* Mutant: the header is a plain local, printed on every non-empty Print.
PrintNoStatic(k, n, rs) ==
    IF n = 0 THEN <<Line("warning", k, 0)>>
    ELSE <<Line("header", k, 0)>> \o [j \in 1..n |-> Line("row", k, rs[j])]

\* Print<N>(name, n, results, bytes): a warning and return when n == 0;
\* else the static header (printed when first initialized) and one row per
\* result.
PrintLines(k, n, rs) ==
    IF n = 0 THEN <<Line("warning", k, 0)>>
    ELSE (IF Len(InputsOf(k)) \in headers THEN <<>> ELSE <<Line("header", k, 0)>>)
         \o [j \in 1..n |-> Line("row", k, rs[j])]

\* Print<N> after MeasureClosure; Measure returns and RunAll goes on.
PrintResults ==
    /\ pc = "print"
    /\ out' = out \o PrintLines(measure, Len(results), results)
    /\ headers' = IF Len(results) = 0 THEN headers
                  ELSE headers \cup {Len(InputsOf(measure))}
    /\ measure' = measure + 1
    /\ pc' = "measure"
    /\ UNCHANGED <<argc, pinned, unpredictable, evals, numIters, iter, work, results>>

\* RunAll returns after the last Measure, and main returns 0.
Finish ==
    /\ pc = "measure" /\ measure > Len(Plan)
    /\ pc' = "done"
    /\ UNCHANGED <<argc, pinned, unpredictable, measure, evals, numIters, iter,
                   work, results, out, headers>>

BenchNext ==
    \/ Start \/ MeasureBegin \/ ClosureCall \/ OpStep \/ OpReturn
    \/ ClosureReturn \/ PrintResults \/ Finish

BenchSpec == BenchInit /\ [][BenchNext]_benchVars

-----------------------------------------------------------------------------
BenchTypeOK ==
    /\ pc \in {"start", "measure", "closure", "call", "print", "done", "fatal"}
    /\ argc \in Argcs
    /\ pinned \in {<<>>} \cup {<<a.val>> : a \in {b \in CpuArgs : b.ok}}
    /\ unpredictable \in 0..1
    /\ measure \in 0..(Len(Plan) + 1)
    /\ evals \in 0..kMaxEvals
    /\ {numIters, iter} \subseteq 0..(kSizeMax - 1)
    /\ work \in Nat
    /\ headers \subseteq {Len(kInputs), Len(kInputs1)}

(***************************************************************************)
(* The column header is printed once, and before any result row: the       *)
(* header of Print<N> is a function-local static initialized after the    *)
(* n == 0 early return, and every Measure here uses arrays of one size N. *)
(***************************************************************************)
HeaderOnceBeforeRows ==
    LET hs == {j \in DOMAIN out : out[j].kind = "header"}
    IN  /\ Cardinality(hs) <= 1
        /\ \A j \in DOMAIN out : out[j].kind = "row" => \E h \in hs : h < j

=============================================================================

---------------------------- MODULE MCMockingBitGen ----------------------------
(***************************************************************************)
(* The random library's two stateful pieces in one model: MockingBitGen   *)
(* and the Randen benchmark driver.  They share no state; a variable      *)
(* fixed in the initial state (part) picks the one a behaviour runs, so   *)
(* the state space is the sum of the two, not their product.              *)
(***************************************************************************)
EXTENDS MockingBitGen, RandenBenchmark

CONSTANTS uniformInt, bernoulli

MCTypes == {uniformInt, bernoulli}

\* argv[1] as SimpleAtoi reads it: a CPU number, -1 (as RunAll's own
\* default), or a text that is no number.
MCCpuArgs == {[ok |-> TRUE, val |-> 0], [ok |-> TRUE, val |-> -1],
              [ok |-> FALSE, val |-> 0]}

\* inputs[] and inputs1[] scaled down from 100, 1000 and 1000, 10000.
MCInputs == <<1, 2>>
MCInputs1 == <<2, 4>>

VARIABLE part

RandomInit ==
    /\ Init /\ BenchInit
    /\ \/ part = "mock"
       \/ part = "bench"

RandomNext ==
    \/ part = "mock" /\ Next /\ UNCHANGED <<part, benchVars>>
    \/ part = "bench" /\ BenchNext /\ UNCHANGED <<part, vars>>

RandomSpec == RandomInit /\ [][RandomNext]_<<part, vars, benchVars>>

RandomTypeOK == TypeOK /\ BenchTypeOK /\ part \in {"mock", "bench"}

=============================================================================

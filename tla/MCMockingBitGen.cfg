\* MockingBitGen: a StrictMock test over two distribution types.
\* The benchmark: main with no argument or with a CPU argument, on a build
\* with accelerated AES; the inputs scaled down to 1, 2 and 2, 4 (the code
\* has 100, 1000 and 1000, 10000); a 3-bit size_t; two op calls per
\* MeasureClosure (the code sets max_evals = 6).
CONSTANTS
    uniformInt = uniformInt
    bernoulli = bernoulli
    Types <- MCTypes
    Flavor = "strict"
    MaxRegistrations = 3
    MaxCalls = 3
    Width = 3
    HasAes = TRUE
    Argcs = {1, 2}
    CpuArgs <- MCCpuArgs
    kInputs <- MCInputs
    kInputs1 <- MCInputs1
    kMaxEvals = 2

SPECIFICATION RandomSpec

INVARIANTS
    RandomTypeOK
    ExpectationsOnInvokedMock
    HeaderOnceBeforeRows


\* A test makes finitely many registrations and calls and then ends; the
\* benchmark's main returns, or aborts on a bad CPU argument.
CHECK_DEADLOCK FALSE

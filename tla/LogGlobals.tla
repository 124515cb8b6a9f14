------------------------------ MODULE LogGlobals ------------------------------
(***************************************************************************)
(* log/internal/globals.cc: the process-wide logging state, and            *)
(* log/internal/test_helpers.cc: LogTestEnvironment::SetUp, which          *)
(* initialises logging unless it already is.  Every global is a           *)
(* std::atomic accessed with release stores and acquire loads, so each     *)
(* access is one step and a load sees every store that preceded the store *)
(* it reads from.                                                          *)
(*                                                                         *)
(* turbo::InitializeLog is not in this repository: it is modelled as the   *)
(* sequence its callers rely on, SetTimeZone(local zone) then              *)
(* SetInitialized().                                                       *)
(*                                                                         *)
(* Actors: the test runner's main thread, which runs SetUp once per       *)
(* --gtest_repeat iteration; Setters, threads that call SetTimeZone        *)
(* directly; Readers, logging threads that check IsInitialized and then    *)
(* read the time zone; and any thread changing the logging options.       *)
(***************************************************************************)
EXTENDS Integers, Sequences, FiniteSets

CONSTANTS
    Setters,    \* threads calling SetTimeZone themselves
    Readers,    \* threads formatting a log message
    Zones,      \* TimeZone values
    LocalZone,  \* the zone InitializeLog installs
    NoZone,     \* nullptr
    Repeats,    \* how many times the test runner calls SetUp
    FrameCounts \* values given to SetMaxFramesInLogStackTrace

ASSUME /\ LocalZone \in Zones /\ NoZone \notin Zones
       /\ Repeats \in Nat /\ 64 \in FrameCounts

VARIABLES
    logging_initialized,
    timezone_ptr,
    symbolize_stack_trace,
    max_frames_in_stack_trace,
    exit_on_dfatal,
    suppress_sigabort_trace,
    fatal,        \* a FATAL raw log has ended the process
    tzCalls,      \* SetTimeZone calls made so far
    mainPc,       \* the test runner: "setUp" | "init" | "done"
    initStep,     \* which call of InitializeLog the runner is at
    setUps,       \* SetUp calls completed
    setterPc,     \* setterPc[t]: "call" | "done"
    readerPc,     \* readerPc[r]: "check" | "readTz" | "done"
    seen          \* seen[r]: the zone reader r read, or NoZone

options == <<symbolize_stack_trace, max_frames_in_stack_trace, exit_on_dfatal,
             suppress_sigabort_trace>>
vars == <<logging_initialized, timezone_ptr, options, fatal, tzCalls, mainPc,
          initStep, setUps, setterPc, readerPc, seen>>

TypeOK ==
    /\ logging_initialized \in BOOLEAN
    /\ timezone_ptr \in Zones \cup {NoZone}
    /\ symbolize_stack_trace \in BOOLEAN /\ exit_on_dfatal \in BOOLEAN
    /\ suppress_sigabort_trace \in BOOLEAN
    /\ max_frames_in_stack_trace \in FrameCounts
    /\ fatal \in BOOLEAN
    /\ tzCalls \in 0..(Cardinality(Setters) + Repeats)
    /\ mainPc \in {"setUp", "init", "done"}
    /\ initStep \in 1..2
    /\ setUps \in 0..Repeats
    /\ setterPc \in [Setters -> {"call", "done"}]
    /\ readerPc \in [Readers -> {"check", "readTz", "stderr", "done"}]
    /\ seen \in [Readers -> Zones \cup {NoZone}]

\* The TURBO_CONST_INIT initial values of the atomics.
Init ==
    /\ logging_initialized = FALSE
    /\ timezone_ptr = NoZone
    /\ symbolize_stack_trace = TRUE
    /\ max_frames_in_stack_trace = 64
    /\ exit_on_dfatal = TRUE
    /\ suppress_sigabort_trace = FALSE
    /\ fatal = FALSE
    /\ tzCalls = 0
    /\ initStep = 1
    /\ mainPc = IF Repeats > 0 THEN "setUp" ELSE "done"
    /\ setUps = 0
    /\ setterPc = [t \in Setters |-> "call"]
    /\ readerPc = [r \in Readers |-> "check"]
    /\ seen = [r \in Readers |-> NoZone]

\* Mutant: the result of the compare-exchange is not checked.
SetTimeZoneUnchecked(tz) ==
    /\ IF timezone_ptr = NoZone THEN timezone_ptr' = tz ELSE UNCHANGED timezone_ptr
    /\ fatal' = FALSE
    /\ tzCalls' = tzCalls + 1

\* Mutant: an exchange instead of a compare-exchange.
SetTimeZoneExchange(tz) ==
    /\ timezone_ptr' = tz
    /\ fatal' = (timezone_ptr # NoZone)
    /\ tzCalls' = tzCalls + 1

\* SetTimeZone(tz): compare_exchange_strong(nullptr, new_tz); if another
\* zone is already installed, TURBO_RAW_LOG(FATAL) ends the process.
SetTimeZone(tz) ==
    /\ IF timezone_ptr = NoZone
       THEN timezone_ptr' = tz /\ fatal' = FALSE
       ELSE UNCHANGED timezone_ptr /\ fatal' = TRUE
    /\ tzCalls' = tzCalls + 1

\* SetInitialized(): a release store of true.
SetInitialized == logging_initialized' = TRUE

\* The calls turbo::InitializeLog makes, in order.
InitializeLogCalls == <<"SetTimeZone", "SetInitialized">>

\* Mutant: the runner's iteration count is off by one.
NextIterationOffByOne ==
    /\ setUps' = setUps + 1
    /\ mainPc' = IF setUps + 1 <= Repeats THEN "setUp" ELSE "done"

\* The test runner's loop over --gtest_repeat iterations.
NextIteration ==
    /\ setUps' = setUps + 1
    /\ mainPc' = IF setUps + 1 < Repeats THEN "setUp" ELSE "done"

\* Mutant: SetUp calls InitializeLog without checking IsInitialized.
SetUpNoCheck ==
    /\ ~fatal /\ mainPc = "setUp"
    /\ mainPc' = "init" /\ initStep' = 1
    /\ UNCHANGED <<logging_initialized, timezone_ptr, options, fatal, tzCalls,
                   setUps, setterPc, readerPc, seen>>

\* LogTestEnvironment::SetUp: if (!IsInitialized()) InitializeLog().
SetUp ==
    /\ ~fatal /\ mainPc = "setUp"
    /\ IF logging_initialized
       THEN NextIteration /\ UNCHANGED initStep
       ELSE mainPc' = "init" /\ initStep' = 1 /\ UNCHANGED setUps
    /\ UNCHANGED <<logging_initialized, timezone_ptr, options, fatal, tzCalls,
                   setterPc, readerPc, seen>>

\* One call of InitializeLog; after the last one SetUp returns.
InitializeLogStep ==
    /\ ~fatal /\ mainPc = "init"
    /\ IF InitializeLogCalls[initStep] = "SetTimeZone"
       THEN SetTimeZone(LocalZone) /\ UNCHANGED logging_initialized
       ELSE SetInitialized /\ UNCHANGED <<timezone_ptr, fatal, tzCalls>>
    /\ IF initStep = Len(InitializeLogCalls)
       THEN NextIteration /\ initStep' = 1
       ELSE initStep' = initStep + 1 /\ UNCHANGED <<mainPc, setUps>>
    /\ UNCHANGED <<options, setterPc, readerPc, seen>>

\* A thread calling SetTimeZone(tz) directly.
SetterCall(t) ==
    /\ ~fatal /\ setterPc[t] = "call"
    /\ \E tz \in Zones : SetTimeZone(tz)
    /\ setterPc' = [setterPc EXCEPT ![t] = "done"]
    /\ UNCHANGED <<logging_initialized, options, mainPc, initStep, setUps,
                   readerPc, seen>>

\* A logging thread: IsInitialized(), an acquire load; messages logged
\* before initialisation go to stderr and do not read the zone.
ReaderCheck(r) ==
    /\ ~fatal /\ readerPc[r] = "check"
    /\ readerPc' = [readerPc EXCEPT ![r] = IF logging_initialized THEN "readTz"
                                                                  ELSE "stderr"]
    /\ UNCHANGED <<logging_initialized, timezone_ptr, options, fatal, tzCalls,
                   mainPc, initStep, setUps, setterPc, seen>>

\* TimeZone(): an acquire load of timezone_ptr.
ReaderReadTz(r) ==
    /\ ~fatal /\ readerPc[r] = "readTz"
    /\ seen' = [seen EXCEPT ![r] = timezone_ptr]
    /\ readerPc' = [readerPc EXCEPT ![r] = "done"]
    /\ UNCHANGED <<logging_initialized, timezone_ptr, options, fatal, tzCalls,
                   mainPc, initStep, setUps, setterPc>>

\* The option setters: release stores, and an exchange for
\* SetSuppressSigabortTrace.  Any thread may call them at any time.
SetOption ==
    /\ ~fatal
    /\ \/ \E b \in BOOLEAN : symbolize_stack_trace' = b
            /\ UNCHANGED <<max_frames_in_stack_trace, exit_on_dfatal,
                           suppress_sigabort_trace>>
       \/ \E n \in FrameCounts : max_frames_in_stack_trace' = n
            /\ UNCHANGED <<symbolize_stack_trace, exit_on_dfatal,
                           suppress_sigabort_trace>>
       \/ \E b \in BOOLEAN : exit_on_dfatal' = b
            /\ UNCHANGED <<symbolize_stack_trace, max_frames_in_stack_trace,
                           suppress_sigabort_trace>>
       \/ \E b \in BOOLEAN : suppress_sigabort_trace' = b
            /\ UNCHANGED <<symbolize_stack_trace, max_frames_in_stack_trace,
                           exit_on_dfatal>>
    /\ UNCHANGED <<logging_initialized, timezone_ptr, fatal, tzCalls, mainPc,
                   initStep, setUps, setterPc, readerPc, seen>>

Next ==
    \/ SetUp \/ InitializeLogStep \/ SetOption
    \/ \E t \in Setters : SetterCall(t)
    \/ \E r \in Readers : ReaderCheck(r) \/ ReaderReadTz(r)

Spec == Init /\ [][Next]_vars

-----------------------------------------------------------------------------
(***************************************************************************)
(* Running SetUp again in later --gtest_repeat iterations, while logging  *)
(* threads run, never reaches the FATAL in SetTimeZone: the IsInitialized  *)
(* check skips InitializeLog once it has run.                              *)
(***************************************************************************)
NoFatal == ~fatal

(***************************************************************************)
(* The time zone is set once: whichever SetTimeZone call, from a setter   *)
(* thread or from InitializeLog, wins the race, no later step replaces   *)
(* the installed zone.                                                     *)
(***************************************************************************)
TimeZoneSetOnce ==
    [][timezone_ptr # NoZone => timezone_ptr' = timezone_ptr]_timezone_ptr

(***************************************************************************)
(* A second SetTimeZone call, in whatever order the callers race, is      *)
(* never silently ignored: it ends the process with FATAL (the caller that *)
(* lost would otherwise log with a zone other than the one it set).       *)
(***************************************************************************)
SecondSetTimeZoneIsFatal == tzCalls >= 2 => fatal

=============================================================================

----------------------------- MODULE ScopedMockLog -----------------------------
(***************************************************************************)
(* log/scoped_mock_log.cc: ScopedMockLog objects capturing logs through    *)
(* their sink_, and the global sink set that StartCapturingLogs and       *)
(* StopCapturingLogs register it in.  A test may call the methods in any   *)
(* order; misuse is caught by TURBO_RAW_CHECK, which aborts the process.  *)
(*                                                                         *)
(* AddLogSink / RemoveLogSink / LogToSinks are declared in                 *)
(* log/internal/log_sink_set.h and implemented outside this repository;   *)
(* they are modelled from their contract: adding a sink that is already   *)
(* registered, or removing one that is not, is fatal; a message goes to   *)
(* every registered sink.                                                  *)
(***************************************************************************)
EXTENDS Integers

CONSTANTS
    Mocks,            \* the ScopedMockLog objects a test creates
    MaxConstructions  \* bound on constructions

VARIABLES
    alive,            \* alive[m]: m is constructed and not destroyed
    capturing,        \* capturing[m]: m.is_capturing_logs_
    triggered,        \* triggered[m]: m.is_triggered_
    sinks,            \* the global sink set (sinks named by their mock)
    aborted,          \* "none" | "rawCheck" | "forgotStart" | "sinkSet"
    constructions

vars == <<alive, capturing, triggered, sinks, aborted, constructions>>

Init ==
    /\ alive = [m \in Mocks |-> FALSE]
    /\ capturing = [m \in Mocks |-> FALSE]
    /\ triggered = [m \in Mocks |-> FALSE]
    /\ sinks = {}
    /\ aborted = "none"
    /\ constructions = 0

\* turbo::AddLogSink: a sink already in the set is fatal.
AddLogSink(m) ==
    IF m \in sinks THEN aborted' = "sinkSet" /\ UNCHANGED sinks
                   ELSE sinks' = sinks \cup {m} /\ UNCHANGED aborted

\* turbo::RemoveLogSink: a sink not in the set is fatal.
RemoveLogSink(m) ==
    IF m \notin sinks THEN aborted' = "sinkSet" /\ UNCHANGED sinks
                      ELSE sinks' = sinks \ {m} /\ UNCHANGED aborted

\* ScopedMockLog(default_exp): sink_(this), is_capturing_logs_(false); the
\* EXPECT_CALL defaults set up only the mock's reactions.
Construct(m) ==
    /\ aborted = "none" /\ ~alive[m]
    /\ constructions < MaxConstructions
    /\ alive' = [alive EXCEPT ![m] = TRUE]
    /\ capturing' = [capturing EXCEPT ![m] = FALSE]
    /\ triggered' = [triggered EXCEPT ![m] = FALSE]
    /\ constructions' = constructions + 1
    /\ UNCHANGED <<sinks, aborted>>

\* Mutant: StartCapturingLogs without its RAW_CHECK.
StartCapturingLogsUnchecked(m) ==
    /\ aborted = "none" /\ alive[m]
    /\ capturing' = [capturing EXCEPT ![m] = TRUE]
    /\ triggered' = [triggered EXCEPT ![m] = TRUE]
    /\ AddLogSink(m)
    /\ UNCHANGED <<alive, constructions>>

\* StartCapturingLogs: RAW_CHECK(!is_capturing_logs_), set both flags,
\* AddLogSink(&sink_).
StartCapturingLogs(m) ==
    /\ aborted = "none" /\ alive[m]
    /\ \/ /\ capturing[m]
          /\ aborted' = "rawCheck"
          /\ UNCHANGED <<capturing, triggered, sinks>>
       \/ /\ ~capturing[m]
          /\ capturing' = [capturing EXCEPT ![m] = TRUE]
          /\ triggered' = [triggered EXCEPT ![m] = TRUE]
                /\ AddLogSink(m)
    /\ UNCHANGED <<alive, constructions>>

\* Mutant: StopCapturingLogs clears the flag but keeps the sink registered.
StopCapturingLogsKeepsSink(m) ==
    /\ aborted = "none" /\ alive[m]
    /\ \/ /\ ~capturing[m]
          /\ aborted' = "rawCheck"
          /\ UNCHANGED <<capturing, sinks>>
       \/ /\ capturing[m]
          /\ capturing' = [capturing EXCEPT ![m] = FALSE]
          /\ UNCHANGED <<sinks, aborted>>
    /\ UNCHANGED <<alive, triggered, constructions>>

\* StopCapturingLogs: RAW_CHECK(is_capturing_logs_), clear it,
\* RemoveLogSink(&sink_).
StopCapturingLogs(m) ==
    /\ aborted = "none" /\ alive[m]
    /\ \/ /\ ~capturing[m]
          /\ aborted' = "rawCheck"
          /\ UNCHANGED <<capturing, sinks>>
       \/ /\ capturing[m]
          /\ capturing' = [capturing EXCEPT ![m] = FALSE]
          /\ RemoveLogSink(m)
    /\ UNCHANGED <<alive, triggered, constructions>>

\* UseAsLocalSink: is_triggered_ = true; the test then logs with
\* ToSinkOnly(&sink_), whose Send is the default action below.
UseAsLocalSink(m) ==
    /\ aborted = "none" /\ alive[m]
    /\ triggered' = [triggered EXCEPT ![m] = TRUE]
    /\ UNCHANGED <<alive, capturing, sinks, aborted, constructions>>

\* A LOG statement: LogToSinks calls Send on every registered sink, whose
\* default action stores is_triggered_ = true and forwards to Log.
LogToSinks ==
    /\ aborted = "none"
    /\ triggered' = [m \in Mocks |-> triggered[m] \/ m \in sinks]
    /\ UNCHANGED <<alive, capturing, sinks, aborted, constructions>>

\* ~ScopedMockLog: RAW_CHECK(is_triggered_), then StopCapturingLogs() if
\* still capturing.
Destroy(m) ==
    /\ aborted = "none" /\ alive[m]
    /\ \/ /\ ~triggered[m]
          /\ aborted' = "forgotStart"
          /\ UNCHANGED <<alive, capturing, sinks>>
       \/ /\ triggered[m] /\ capturing[m]
          /\ alive' = [alive EXCEPT ![m] = FALSE]
          /\ capturing' = [capturing EXCEPT ![m] = FALSE]
          /\ RemoveLogSink(m)
       \/ /\ triggered[m] /\ ~capturing[m]
          /\ alive' = [alive EXCEPT ![m] = FALSE]
          /\ UNCHANGED <<capturing, sinks, aborted>>
    /\ UNCHANGED <<triggered, constructions>>

Next ==
    \/ LogToSinks
    \/ \E m \in Mocks :
          \/ Construct(m) \/ StartCapturingLogs(m) \/ StopCapturingLogs(m)
          \/ UseAsLocalSink(m) \/ Destroy(m)

\* The test's calls are its own choice: no fairness.
Spec == Init /\ [][Next]_vars

-----------------------------------------------------------------------------
(***************************************************************************)
(* Through any sequence of construction, Start/StopCapturingLogs, local   *)
(* use, logging and destruction, a mock's sink is in the global set        *)
(* exactly while it is alive and capturing: the destructor never leaves a *)
(* dangling sink behind, and a stopped mock receives no global logs.      *)
(***************************************************************************)
SinkRegisteredIffCapturing ==
    aborted = "none" =>
        \A m \in Mocks : (m \in sinks) <=> (alive[m] /\ capturing[m])

(***************************************************************************)
(* Misusing a ScopedMockLog (starting twice, stopping when not started)   *)
(* is caught by its own RAW_CHECK with its message; the sink set's own    *)
(* fatal errors about duplicate or unknown sinks are never reached.      *)
(***************************************************************************)
MisuseCaughtByRawCheck == aborted # "sinkSet"

=============================================================================

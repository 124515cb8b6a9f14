------------------------------ MODULE LogStreamer ------------------------------
(***************************************************************************)
(* turbo::LogStreamer (log/log_streamer.h): a movable object that buffers  *)
(* what is streamed into stream() and logs the buffer, as if by LOG at its *)
(* severity, when it is destroyed.  A moved-from streamer has a disengaged *)
(* stream_ and logs nothing; move assignment first logs the target's own   *)
(* buffer, then takes over the source's severity, buffer and stream, and   *)
(* rebinds the stream to its own buffer.  Logging at kFatal terminates the *)
(* program.                                                                *)
(*                                                                         *)
(* Streamers are the objects of Slots, each either alive or not.  Text is *)
(* abstracted to chunks: the n-th write streams the chunk n, so every      *)
(* piece of text can be followed through moves to the log.  A log message *)
(* with an empty buffer carries no text and is left out of the log.        *)
(***************************************************************************)
EXTENDS Integers, Sequences, FiniteSets, SequencesExt

CONSTANTS
    Slots,             \* the LogStreamer objects of the program
    Severities,        \* the severities the program constructs streamers with
    kInfo, kWarning, kError, kFatal,  \* the turbo::LogSeverity values
    MaxChunks,         \* bound on the writes into stream()
    MaxConstructions   \* bound on the objects constructed

ASSUME /\ kFatal \in Severities
       /\ MaxChunks \in Nat /\ MaxConstructions \in Nat

VARIABLES
    alive,          \* alive[s]: s is constructed and not yet destroyed
    engaged,        \* engaged[s]: s.stream_.has_value()
    severity,       \* severity[s]: s.severity_
    buf,            \* buf[s]: s.buf_, a sequence of chunks
    target,         \* target[s]: the buffer s.stream_ writes into
    chunkSeverity,  \* chunkSeverity[n]: severity of the streamer chunk n went into
    logged,         \* the log: a sequence of [sev, text] messages
    terminated,     \* a kFatal message has terminated the program
    constructions   \* objects constructed so far

vars == <<alive, engaged, severity, buf, target, chunkSeverity, logged,
          terminated, constructions>>

Chunks == 1..MaxChunks

Init ==
    /\ alive = [s \in Slots |-> FALSE]
    /\ engaged = [s \in Slots |-> FALSE]
    /\ severity \in [Slots -> Severities]
    /\ buf = [s \in Slots |-> <<>>]
    /\ target = [s \in Slots |-> s]
    /\ chunkSeverity = <<>>
    /\ logged = <<>>
    /\ terminated = FALSE
    /\ constructions = 0

\* TURBO_LOG_IF(LEVEL(sev), TRUE) << text: the message is logged, and
\* logging at kFatal terminates the program.
LogMessage(sev, text) ==
    /\ logged' = IF text = <<>> THEN logged
                 ELSE Append(logged, [sev |-> sev, text |-> text])
    /\ terminated' = (sev = kFatal)

\* A moved-from std::string is valid but unspecified: emptied or kept.
MovedFrom(str) == {<<>>, str}

\* LogInfoStreamer, LogWarningStreamer, LogErrorStreamer, LogFatalStreamer:
\* each returns LogStreamer(its severity, file, line).
Factories == [LogInfoStreamer |-> kInfo, LogWarningStreamer |-> kWarning,
              LogErrorStreamer |-> kError, LogFatalStreamer |-> kFatal]

\* LogStreamer(severity, file, line), directly or through a factory:
\* stream_ is engaged and bound to buf_.
Construct(s, sev) ==
    /\ ~terminated /\ ~alive[s]
    /\ constructions < MaxConstructions
    /\ alive' = [alive EXCEPT ![s] = TRUE]
    /\ engaged' = [engaged EXCEPT ![s] = TRUE]
    /\ severity' = [severity EXCEPT ![s] = sev]
    /\ buf' = [buf EXCEPT ![s] = <<>>]
    /\ target' = [target EXCEPT ![s] = s]
    /\ constructions' = constructions + 1
    /\ UNCHANGED <<chunkSeverity, logged, terminated>>

\* s.stream() << text: the text goes into the buffer the stream is bound
\* to.  Streaming into a moved-from streamer is undefined and not done.
Write(s) ==
    /\ ~terminated /\ alive[s] /\ engaged[s]
    /\ Len(chunkSeverity) < MaxChunks
    /\ buf' = [buf EXCEPT ![target[s]] = Append(@, Len(chunkSeverity) + 1)]
    /\ chunkSeverity' = Append(chunkSeverity, severity[s])
    /\ UNCHANGED <<alive, engaged, severity, target, logged, terminated,
                   constructions>>

\* Mutant: the move constructor does not reset that.stream_.
MoveConstructNoReset(d, s) ==
    /\ ~terminated /\ ~alive[d] /\ alive[s] /\ d # s
    /\ constructions < MaxConstructions
    /\ alive' = [alive EXCEPT ![d] = TRUE]
    /\ severity' = [severity EXCEPT ![d] = severity[s]]
    /\ \E rest \in MovedFrom(buf[s]) :
           buf' = [buf EXCEPT ![d] = buf[s], ![s] = rest]
    /\ engaged' = [engaged EXCEPT ![d] = engaged[s]]
    /\ target' = [target EXCEPT ![d] = IF engaged[s] THEN d ELSE target[s]]
    /\ constructions' = constructions + 1
    /\ UNCHANGED <<chunkSeverity, logged, terminated>>

\* LogStreamer d(std::move(s)): d takes severity, buffer and stream; the
\* stream is rebound to d's buffer if engaged; s.stream_ is reset.
MoveConstruct(d, s) ==
    /\ ~terminated /\ ~alive[d] /\ alive[s] /\ d # s
    /\ constructions < MaxConstructions
    /\ alive' = [alive EXCEPT ![d] = TRUE]
    /\ severity' = [severity EXCEPT ![d] = severity[s]]
    /\ \E rest \in MovedFrom(buf[s]) :
           buf' = [buf EXCEPT ![d] = buf[s], ![s] = rest]
    /\ engaged' = [engaged EXCEPT ![d] = engaged[s], ![s] = FALSE]
    /\ target' = [target EXCEPT ![d] = IF engaged[s] THEN d ELSE target[s]]
    /\ constructions' = constructions + 1
    /\ UNCHANGED <<chunkSeverity, logged, terminated>>

\* Mutant: move assignment does not log the target's own buffer first.
MoveAssignNoFlush(d, s) ==
    /\ ~terminated /\ alive[d] /\ alive[s]
    /\ severity' = [severity EXCEPT ![d] = severity[s]]
    /\ \E rest \in MovedFrom(buf[s]) :
           buf' = IF d = s THEN [buf EXCEPT ![d] = rest]
                  ELSE [buf EXCEPT ![d] = buf[s], ![s] = rest]
    /\ engaged' = [[engaged EXCEPT ![d] = engaged[s]] EXCEPT ![s] = FALSE]
    /\ target' = [target EXCEPT ![d] = IF engaged[s] THEN d ELSE target[s]]
    /\ UNCHANGED <<alive, chunkSeverity, constructions, logged, terminated>>

\* Mutant: move assignment keeps the target's severity.
MoveAssignKeepSeverity(d, s) ==
    /\ ~terminated /\ alive[d] /\ alive[s]
    /\ \/ /\ engaged[d] /\ severity[d] = kFatal
          /\ LogMessage(severity[d], buf[d])
          /\ UNCHANGED <<alive, engaged, severity, buf, target, chunkSeverity,
                         constructions>>
       \/ /\ ~(engaged[d] /\ severity[d] = kFatal)
          /\ IF engaged[d] THEN LogMessage(severity[d], buf[d])
                           ELSE UNCHANGED <<logged, terminated>>
          /\ \E rest \in MovedFrom(buf[s]) :
                 buf' = IF d = s THEN [buf EXCEPT ![d] = rest]
                        ELSE [buf EXCEPT ![d] = buf[s], ![s] = rest]
          /\ engaged' = [[engaged EXCEPT ![d] = engaged[s]] EXCEPT ![s] = FALSE]
          /\ target' = [target EXCEPT ![d] = IF engaged[s] THEN d ELSE target[s]]
          /\ UNCHANGED <<alive, severity, chunkSeverity, constructions>>

\* d = std::move(s): log d's own buffer if d is engaged (at kFatal this
\* terminates the program), then take s's severity, buffer and stream,
\* rebind the stream to d's buffer if engaged, and reset s.stream_.
\* With d = s the buffer is self-moved and the stream ends disengaged.
MoveAssign(d, s) ==
    /\ ~terminated /\ alive[d] /\ alive[s]
    /\ \/ /\ engaged[d] /\ severity[d] = kFatal
          /\ LogMessage(severity[d], buf[d])
          /\ UNCHANGED <<alive, engaged, severity, buf, target, chunkSeverity,
                         constructions>>
       \/ /\ ~(engaged[d] /\ severity[d] = kFatal)
          /\ IF engaged[d] THEN LogMessage(severity[d], buf[d])
                           ELSE UNCHANGED <<logged, terminated>>
          /\ severity' = [severity EXCEPT ![d] = severity[s]]
          /\ \E rest \in MovedFrom(buf[s]) :
                 buf' = IF d = s THEN [buf EXCEPT ![d] = rest]
                        ELSE [buf EXCEPT ![d] = buf[s], ![s] = rest]
          /\ engaged' = [[engaged EXCEPT ![d] = engaged[s]] EXCEPT ![s] = FALSE]
          /\ target' = [target EXCEPT ![d] = IF engaged[s] THEN d ELSE target[s]]
          /\ UNCHANGED <<alive, chunkSeverity, constructions>>

\* ~LogStreamer(): log the buffer if stream_ is engaged.
Destroy(s) ==
    /\ ~terminated /\ alive[s]
    /\ IF engaged[s] THEN LogMessage(severity[s], buf[s])
                     ELSE UNCHANGED <<logged, terminated>>
    /\ alive' = [alive EXCEPT ![s] = FALSE]
    /\ engaged' = [engaged EXCEPT ![s] = FALSE]
    /\ UNCHANGED <<severity, buf, target, chunkSeverity, constructions>>

Next ==
    \E d, s \in Slots :
        \/ \E sev \in Severities : Construct(s, sev)
        \/ \E f \in DOMAIN Factories : Construct(s, Factories[f])
        \/ Write(s)
        \/ MoveConstruct(d, s)
        \/ MoveAssign(d, s)
        \/ Destroy(s)

\* Which operations the program performs is up to the program: no fairness.
Spec == Init /\ [][Next]_vars

-----------------------------------------------------------------------------
\* How often chunk c appears in the log, and in how many live streamers
\* that will still log it.
LogCount(c) == Cardinality({i \in DOMAIN logged : c \in ToSet(logged[i].text)})
PendingCount(c) ==
    Cardinality({x \in Slots : alive[x] /\ engaged[x] /\ c \in ToSet(buf[x])})

(***************************************************************************)
(* Through any sequence of constructions, writes, move constructions, move *)
(* assignments (self-assignment included) and destructions, every piece of *)
(* text streamed into a LogStreamer is logged at most once, and until a    *)
(* kFatal message ends the program it is either logged or held by exactly  *)
(* one live streamer that will log it: moves neither lose nor duplicate    *)
(* buffered text.                                                          *)
(***************************************************************************)
TextLoggedExactlyOnce ==
    \A c \in 1..Len(chunkSeverity) :
        /\ LogCount(c) <= 1
        /\ ~terminated => LogCount(c) + PendingCount(c) = 1

(***************************************************************************)
(* Text is logged at the severity of the streamer it was streamed into,   *)
(* however many moves carried it to the object that logs it.               *)
(***************************************************************************)
LoggedAtWrittenSeverity ==
    \A i \in DOMAIN logged :
        \A c \in ToSet(logged[i].text) : logged[i].sev = chunkSeverity[c]

\* The live streamers that will log at kFatal when destroyed.
FatalPending == Cardinality({x \in Slots : alive[x] /\ engaged[x] /\ severity[x] = kFatal})

(***************************************************************************)
(* "The program will be terminated when this LogStreamer [from             *)
(* LogFatalStreamer] is destroyed, regardless of whether any data were     *)
(* streamed in": moving a fatal streamer, into a new object or onto        *)
(* another streamer, never drops its pending kFatal message; only the      *)
(* termination itself ends it.  Unlike the text properties this also       *)
(* covers fatal streamers that hold no text.                               *)
(***************************************************************************)
FatalStreamerNeverDropped ==
    [][~terminated' => FatalPending' >= FatalPending]_vars

=============================================================================

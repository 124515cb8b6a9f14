----------------------------- MODULE MockingBitGen -----------------------------
(***************************************************************************)
(* random/mocking_bit_gen.h: MockingBitGen keeps mocks_, a map from the    *)
(* FastTypeId of a distribution signature to a heap FunctionHolderImpl     *)
(* that owns the gmock MockFunction.  A test installs expectations through *)
(* RegisterMock (get or create); every distribution call made with the     *)
(* generator goes through InvokeMock and, when no mock is registered for   *)
(* its type, falls back to the real generator gen_.                        *)
(*                                                                         *)
(* The caller of InvokeMock (DistributionCaller) and gmock itself are not  *)
(* in this repository and are modelled from their contracts: a call uses   *)
(* one outstanding expectation of the mock; a call of a mock with no       *)
(* expectation is "uninteresting", a test failure only for a StrictMock;   *)
(* a call of a mock whose expectations are all used is a test failure.     *)
(***************************************************************************)
EXTENDS Naturals, Sequences

CONSTANTS
    Types,            \* FastTypeIds of the distributions the test uses
    Flavor,           \* how the test declares the generator (SelfT)
    MaxRegistrations, \* bound on RegisterMock calls
    MaxCalls          \* bound on distribution calls

Flavors == {"plain", "nice", "naggy", "strict"}
ASSUME Flavor \in Flavors

VARIABLES
    mocks,      \* mocks[t]: index into holders, 0 when mocks_ has no entry
    holders,    \* the FunctionHolderImpl objects: [kind, set, used]
    expected,   \* expected[t]: expectations the test set for t, not yet used
    registered, \* types the test has registered a mock for
    answered,   \* the last call: [type, by, mocked] or NoCall
    failed,     \* gmock has reported a test failure
    regs, calls

vars == <<mocks, holders, expected, registered, answered, failed, regs, calls>>

NoCall == [type |-> "none", by |-> "none", mocked |-> FALSE]
\* The record of a call of type t answered by "mock" or "gen"; mocked
\* notes whether the test had registered a mock for t by then.
Answer(t, by) == [type |-> t, by |-> by, mocked |-> t \in registered]

Init ==
    /\ mocks = [t \in Types |-> 0]
    /\ holders = <<>>
    /\ expected = [t \in Types |-> 0]
    /\ registered = {}
    /\ answered = NoCall
    /\ failed = FALSE
    /\ regs = 0 /\ calls = 0

\* WrappedFnType: NiceMock<MockingBitGen> gives NiceMock<MockFnType>, and
\* so on; a plain MockingBitGen gives a plain MockFnType.
WrappedFnType == Flavor

\* Mutant: the holder is created on every registration (no "if (!mock)").
RegisterMockAlwaysNew(t, n) ==
    /\ regs < MaxRegistrations
    /\ holders' = Append(holders, [kind |-> WrappedFnType, set |-> n, used |-> 0])
    /\ mocks' = [mocks EXCEPT ![t] = Len(holders) + 1]
    /\ expected' = [expected EXCEPT ![t] = @ + n]
    /\ registered' = registered \cup {t}
    /\ regs' = regs + 1
    /\ UNCHANGED <<answered, failed, calls>>

\* RegisterMock<ResultT, ArgTupleT>(self, type): mocks_[type] creates the
\* entry, a null one gets a new FunctionHolderImpl, and the mock_fn_ of
\* the holder is returned.  The test then sets n expectations on it
\* (EXPECT_CALL(...).WillOnce), or none (ON_CALL only).
RegisterMock(t, n) ==
    /\ regs < MaxRegistrations
    /\ IF mocks[t] = 0
       THEN /\ holders' = Append(holders, [kind |-> WrappedFnType, set |-> n, used |-> 0])
            /\ mocks' = [mocks EXCEPT ![t] = Len(holders) + 1]
       ELSE /\ holders' = [holders EXCEPT ![mocks[t]].set = @ + n]
            /\ UNCHANGED mocks
    /\ expected' = [expected EXCEPT ![t] = @ + n]
    /\ registered' = registered \cup {t}
    /\ regs' = regs + 1
    /\ UNCHANGED <<answered, failed, calls>>

\* Mutant: a call always uses an expectation, even when none is left.
ApplyAlwaysConsumes(t) ==
    /\ holders' = [holders EXCEPT ![mocks[t]].used = @ + 1]
    /\ expected' = [expected EXCEPT ![t] = @ - 1]
    /\ UNCHANGED failed

\* FunctionHolderImpl::Apply: the mock function is called; gmock uses an
\* outstanding expectation, or reports an uninteresting or excess call.
Apply(t) ==
    LET h == holders[mocks[t]] IN
    \/ /\ h.used < h.set
       /\ holders' = [holders EXCEPT ![mocks[t]].used = @ + 1]
       /\ expected' = [expected EXCEPT ![t] = @ - 1]
       /\ UNCHANGED failed
    \/ /\ h.used = h.set
       /\ failed' = (h.set > 0 \/ h.kind = "strict")
       /\ UNCHANGED <<holders, expected>>

\* InvokeMock(type, args, result): find the entry; none means false, and
\* the caller draws from the distribution with operator(), that is gen_().
InvokeMock(t) ==
    IF mocks[t] = 0
    THEN answered' = Answer(t, "gen") /\ UNCHANGED <<holders, expected, failed>>
    ELSE Apply(t) /\ answered' = Answer(t, "mock")

\* A distribution call (turbo::Uniform(gen, ...) and the like) in the code
\* under test.
Call(t) ==
    /\ calls < MaxCalls /\ ~failed
    /\ InvokeMock(t)
    /\ calls' = calls + 1
    /\ UNCHANGED <<mocks, registered, regs>>

Next == \E t \in Types : (\E n \in 0..1 : RegisterMock(t, n)) \/ Call(t)

Spec == Init /\ [][Next]_vars

-----------------------------------------------------------------------------
TypeOK ==
    /\ mocks \in [Types -> 0..MaxRegistrations]
    /\ \A i \in 1..Len(holders) :
          holders[i].kind \in Flavors /\ holders[i].used \in 0..holders[i].set
    /\ expected \in [Types -> Nat]
    /\ registered \subseteq Types
    /\ failed \in BOOLEAN

(***************************************************************************)
(* However often the test registers mocks for the same distribution, every *)
(* expectation it has set and not yet used sits on the one mock function   *)
(* that InvokeMock will apply for that type: RegisterMock returns the      *)
(* existing holder instead of replacing it and orphaning its expectations. *)
(***************************************************************************)
ExpectationsOnInvokedMock ==
    \A t \in Types :
        expected[t] = IF mocks[t] = 0 THEN 0
                      ELSE holders[mocks[t]].set - holders[mocks[t]].used

=============================================================================

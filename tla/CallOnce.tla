------------------------------ MODULE CallOnce ------------------------------
(***************************************************************************)
(* base/call_once_test.cc, CallOnceTest.ExecutionCount: the threads of     *)
(* Threads all run ThreadBody, which calls turbo::call_once(once,          *)
(* WaitAndIncrement); WaitAndIncrement blocks under counters_mu until the  *)
(* main thread sets done_blocking, which it does only once every thread is *)
(* running and WaitAndIncrement has been entered.  The main thread then    *)
(* joins the threads and checks the counters.                              *)
(*                                                                         *)
(* turbo::call_once itself is not in this repository; it is modelled from  *)
(* the one-time initialisation the specification requires (section 5):     *)
(* the first caller runs the function, concurrent callers wait until it    *)
(* has returned, later callers return at once.                             *)
(*                                                                         *)
(* Every access to the counters and to done_blocking is under counters_mu, *)
(* and no critical section blocks inside, so each critical section is one  *)
(* atomic step; LockWhen(cond) is a step enabled only when cond holds.     *)
(***************************************************************************)
EXTENDS Integers, FiniteSets

CONSTANT Threads   \* the threads started by the test (ten in the code)

ASSUME Threads # {} /\ IsFiniteSet(Threads)

N == Cardinality(Threads)

VARIABLES
    once,            \* the once_flag: "init" | "running" | "done"
    pc,              \* pc[t]: where thread t is
    mainPc,          \* where the test's main thread is
    runningCount,    \* running_thread_count
    invokeCount,     \* call_once_invoke_count
    finishedCount,   \* call_once_finished_count
    returnCount,     \* call_once_return_count
    doneBlocking     \* done_blocking

vars == <<once, pc, mainPc, runningCount, invokeCount, finishedCount,
          returnCount, doneBlocking>>

ThreadPcs == {"start", "callOnce", "invoke", "lockWhen", "fnReturned",
              "onceWait", "return", "exited"}

TypeOK ==
    /\ once \in {"init", "running", "done"}
    /\ pc \in [Threads -> ThreadPcs]
    /\ mainPc \in {"waitSetup", "join", "done"}
    /\ {runningCount, invokeCount, finishedCount, returnCount} \subseteq 0..N
    /\ doneBlocking \in BOOLEAN

Init ==
    /\ once = "init"
    /\ pc = [t \in Threads |-> "start"]
    /\ mainPc = "waitSetup"
    /\ runningCount = 0
    /\ invokeCount = 0
    /\ finishedCount = 0
    /\ returnCount = 0
    /\ doneBlocking = FALSE

\* ThreadBody: ++running_thread_count under counters_mu.
ThreadStart(t) ==
    /\ pc[t] = "start"
    /\ runningCount' = runningCount + 1
    /\ pc' = [pc EXCEPT ![t] = "callOnce"]
    /\ UNCHANGED <<once, mainPc, invokeCount, finishedCount, returnCount,
                   doneBlocking>>

\* turbo::call_once(once, WaitAndIncrement): the first caller claims the
\* flag and runs the function; a caller that finds it running waits; a
\* caller that finds it done returns.
CallOnce(t) ==
    /\ pc[t] = "callOnce"
    /\ \/ /\ once = "init"
          /\ once' = "running"
          /\ pc' = [pc EXCEPT ![t] = "invoke"]
       \/ /\ once = "running"
          /\ pc' = [pc EXCEPT ![t] = "onceWait"]
          /\ UNCHANGED once
       \/ /\ once = "done"
          /\ pc' = [pc EXCEPT ![t] = "return"]
          /\ UNCHANGED once
    /\ UNCHANGED <<mainPc, runningCount, invokeCount, finishedCount,
                   returnCount, doneBlocking>>

\* Mutant: a woken waiter re-runs the function instead of returning.
OnceWaitReruns(t) ==
    /\ pc[t] = "onceWait"
    /\ once = "done"
    /\ pc' = [pc EXCEPT ![t] = "invoke"]
    /\ UNCHANGED <<once, mainPc, runningCount, invokeCount, finishedCount,
                   returnCount, doneBlocking>>

\* A caller blocked in call_once proceeds once the flag is done.
OnceWait(t) ==
    /\ pc[t] = "onceWait"
    /\ once = "done"
    /\ pc' = [pc EXCEPT ![t] = "return"]
    /\ UNCHANGED <<once, mainPc, runningCount, invokeCount, finishedCount,
                   returnCount, doneBlocking>>

\* WaitAndIncrement: ++call_once_invoke_count under counters_mu.
InvokeIncrement(t) ==
    /\ pc[t] = "invoke"
    /\ invokeCount' = invokeCount + 1
    /\ pc' = [pc EXCEPT ![t] = "lockWhen"]
    /\ UNCHANGED <<once, mainPc, runningCount, finishedCount, returnCount,
                   doneBlocking>>

\* WaitAndIncrement: LockWhen(done_blocking), ++call_once_finished_count.
FinishIncrement(t) ==
    /\ pc[t] = "lockWhen"
    /\ doneBlocking
    /\ finishedCount' = finishedCount + 1
    /\ pc' = [pc EXCEPT ![t] = "fnReturned"]
    /\ UNCHANGED <<once, mainPc, runningCount, invokeCount, returnCount,
                   doneBlocking>>

\* Mutant: the flag is never marked done, so waiters are never released.
OnceDoneNoRelease(t) ==
    /\ pc[t] = "fnReturned"
    /\ pc' = [pc EXCEPT ![t] = "return"]
    /\ UNCHANGED <<once, mainPc, runningCount, invokeCount, finishedCount,
                   returnCount, doneBlocking>>

\* The function has returned: call_once marks the flag done, releasing the
\* waiting callers.
OnceDone(t) ==
    /\ pc[t] = "fnReturned"
    /\ once' = "done"
    /\ pc' = [pc EXCEPT ![t] = "return"]
    /\ UNCHANGED <<mainPc, runningCount, invokeCount, finishedCount,
                   returnCount, doneBlocking>>

\* Mutant: the return-count critical section does not move the thread on.
ThreadReturnStays(t) ==
    /\ pc[t] = "return"
    /\ returnCount' = returnCount + 1
    /\ UNCHANGED <<once, pc, mainPc, runningCount, invokeCount, finishedCount,
                   doneBlocking>>

\* ThreadBody: ++call_once_return_count under counters_mu, then exit.
ThreadReturn(t) ==
    /\ pc[t] = "return"
    /\ returnCount' = returnCount + 1
    /\ pc' = [pc EXCEPT ![t] = "exited"]
    /\ UNCHANGED <<once, mainPc, runningCount, invokeCount, finishedCount,
                   doneBlocking>>

\* Mutant: ThreadsAreSetup checks only running_thread_count.
MainReleaseRunningOnly ==
    /\ mainPc = "waitSetup"
    /\ runningCount = N
    /\ doneBlocking' = TRUE
    /\ mainPc' = "join"
    /\ UNCHANGED <<once, pc, runningCount, invokeCount, finishedCount,
                   returnCount>>

\* Main: LockWhen(ThreadsAreSetup), the EXPECTs, done_blocking = true,
\* Unlock -- one critical section.
MainRelease ==
    /\ mainPc = "waitSetup"
    /\ runningCount = N /\ invokeCount = 1
    /\ doneBlocking' = TRUE
    /\ mainPc' = "join"
    /\ UNCHANGED <<once, pc, runningCount, invokeCount, finishedCount,
                   returnCount>>

\* Main: join every thread, then Lock and check the final counters.
MainJoin ==
    /\ mainPc = "join"
    /\ \A t \in Threads : pc[t] = "exited"
    /\ mainPc' = "done"
    /\ UNCHANGED <<once, pc, runningCount, invokeCount, finishedCount,
                   returnCount, doneBlocking>>

ThreadStep(t) ==
    \/ ThreadStart(t) \/ CallOnce(t) \/ OnceWait(t) \/ InvokeIncrement(t)
    \/ FinishIncrement(t) \/ OnceDone(t) \/ ThreadReturn(t)

Next == MainRelease \/ MainJoin \/ \E t \in Threads : ThreadStep(t)

\* Every thread, the main thread included, is scheduled; each blocking step
\* waits on a condition that stays true once it holds, so weak fairness is
\* enough.
Spec == Init /\ [][Next]_vars /\ WF_vars(MainRelease) /\ WF_vars(MainJoin)
        /\ \A t \in Threads : WF_vars(ThreadStep(t))

-----------------------------------------------------------------------------
(***************************************************************************)
(* The EXPECTs after LockWhen(ThreadsAreSetup): when the main thread gets  *)
(* past it, WaitAndIncrement has been entered but not finished and no      *)
(* thread has returned from call_once -- every other caller must still be  *)
(* blocked inside call_once.                                               *)
(***************************************************************************)
SetupExpectations ==
    [][mainPc = "waitSetup" /\ mainPc' = "join" =>
         /\ invokeCount = 1
         /\ finishedCount = 0
         /\ returnCount = 0]_vars

(***************************************************************************)
(* The final EXPECTs: after all threads are joined the function ran once, *)
(* finished once, and every thread returned from call_once.               *)
(***************************************************************************)
FinalExpectations ==
    mainPc = "done" =>
        /\ invokeCount = 1
        /\ finishedCount = 1
        /\ returnCount = N

(***************************************************************************)
(* The test terminates: neither the main thread's LockWhen, nor the        *)
(* function's LockWhen, nor the callers blocked in call_once, nor the join *)
(* waits forever.                                                          *)
(***************************************************************************)
TestTerminates == <>(mainPc = "done")

=============================================================================

---------------------------- MODULE CordzSampleToken ----------------------------
(***************************************************************************)
(* strings/internal/cordz_sample_token.cc: CordzSampleToken::Iterator, the *)
(* iterator a sampling thread uses to walk the global list of CordzInfo    *)
(* objects (the sampled cords) under a snapshot token:                     *)
(*     for (const CordzInfo& info : token) { ... }                         *)
(* begin() is Iterator(&token), whose constructor starts at                *)
(* CordzInfo::Head(token); end() is Iterator(), with a null token_ and a   *)
(* null current_.  operator++ follows CordzInfo::Next(token).              *)
(*                                                                         *)
(* CordzInfo and CordzHandle are not in this repository and are modelled   *)
(* from their contract: other threads Track a new CordzInfo at the head of *)
(* the list and Untrack one by unlinking it under the list mutex; the      *)
(* unlinked info keeps its own next pointer.  CordzHandle::Delete frees it *)
(* at once when no snapshot is alive, and otherwise queues it until every  *)
(* snapshot that was alive at the deletion is destroyed (the delete queue  *)
(* is drained by the oldest snapshot's destructor).  A sampling thread     *)
(* that inspects a freed CordzInfo has undefined behaviour, recorded ub.   *)
(***************************************************************************)
EXTENDS FiniteSets

CONSTANTS
    Infos,     \* CordzInfo objects the program may sample
    Samplers   \* threads that each create one CordzSampleToken and loop

Null == "null"

VARIABLES
    status,    \* status[i]: "new", "listed", "queued" (deferred) or "freed"
    head,      \* the head of the global CordzInfo list
    next,      \* next[i]: ci_next_ of CordzInfo i
    pending,   \* pending[i]: the snapshots i's deferred deletion waits for
    tokens,    \* samplers whose CordzSampleToken is alive
    it,        \* it[s]: sampler s's Iterator, [token, current]
    pc,        \* pc[s]: where sampler s is in its loop
    stable,    \* stable[s]: infos listed at token creation, never untracked since
    visited,   \* visited[s]: infos sampler s's loop body has seen
    ub         \* a sampler read a freed CordzInfo or dereferenced null

vars == <<status, head, next, pending, tokens, it, pc, stable, visited, ub>>

Listed == {i \in Infos : status[i] = "listed"}

\* DiagnosticsHandleIsSafeToInspect: a listed or a queued info may be read.
Safe(x) == x \in Infos /\ status[x] \in {"listed", "queued"}

\* CordzInfo::Head(token) and CordzInfo::Next(token).
Head == head
NextInfo(x) == next[x]

\* Iterator(): the end() iterator.
End == [token |-> Null, current |-> Null]

\* Mutant: the constructor leaves token_ null.
IteratorNullToken(s) == [token |-> Null, current |-> Head]

\* Iterator(const CordzSampleToken* token): token_(token),
\* current_(CordzInfo::Head(*token)).
Iterator(s) == [token |-> s, current |-> Head]

\* operator++(): if (current_) current_ = current_->Next(*token_).
Increment(i) ==
    IF i.current # Null THEN [i EXCEPT !.current = NextInfo(i.current)] ELSE i

\* operator++(int): Iterator it(*this); operator++(); return it.
PostIncrement(i) == [old |-> i, new |-> Increment(i)]

\* Mutant: operator== compares the tokens also for null positions.
EqualComparesTokens(l, r) == l.current = r.current /\ l.token = r.token

\* operator==: same position, and the same token unless both are at the end.
Equal(l, r) == l.current = r.current /\ (l.current = Null \/ l.token = r.token)

\* operator!=.
NotEqual(l, r) == ~Equal(l, r)

\* operator* and operator->: *current_.  Reading a CordzInfo (to
\* dereference it, or its ci_next_ in operator++) requires it to be safe.
ReadsFreed(x) == ~Safe(x)
AdvanceReadsFreed(i) == i.current # Null /\ ~Safe(i.current)

Init ==
    /\ status = [i \in Infos |-> "new"]
    /\ head = Null
    /\ next = [i \in Infos |-> Null]
    /\ pending = [i \in Infos |-> {}]
    /\ tokens = {}
    /\ it = [s \in Samplers |-> End]
    /\ pc = [s \in Samplers |-> "idle"]
    /\ stable = [s \in Samplers |-> {}]
    /\ visited = [s \in Samplers |-> {}]
    /\ ub = FALSE

\* CordzInfo::Track: a newly sampled cord is linked at the head.
Track(i) ==
    /\ status[i] = "new"
    /\ status' = [status EXCEPT ![i] = "listed"]
    /\ next' = [next EXCEPT ![i] = head]
    /\ head' = i
    /\ UNCHANGED <<pending, tokens, it, pc, stable, visited, ub>>

\* Mutant: Untrack also clears the unlinked info's own next pointer.
UntrackClearsNext(i) ==
    /\ status[i] = "listed"
    /\ IF head = i
       THEN head' = next[i] /\ next' = [next EXCEPT ![i] = Null]
       ELSE LET p == CHOOSE j \in Listed : next[j] = i
            IN  next' = [next EXCEPT ![p] = next[i], ![i] = Null] /\ UNCHANGED head
    /\ status' = [status EXCEPT ![i] = IF tokens = {} THEN "freed" ELSE "queued"]
    /\ pending' = [pending EXCEPT ![i] = tokens]
    /\ stable' = [s \in Samplers |-> stable[s] \ {i}]
    /\ UNCHANGED <<tokens, it, pc, visited, ub>>

\* CordzInfo::Untrack: unlink i (i keeps its next pointer), then
\* CordzHandle::Delete: free it, or queue it while a snapshot is alive.
Untrack(i) ==
    /\ status[i] = "listed"
    /\ IF head = i
       THEN head' = next[i] /\ UNCHANGED next
       ELSE LET p == CHOOSE j \in Listed : next[j] = i
            IN  next' = [next EXCEPT ![p] = next[i]] /\ UNCHANGED head
    /\ status' = [status EXCEPT ![i] = IF tokens = {} THEN "freed" ELSE "queued"]
    /\ pending' = [pending EXCEPT ![i] = tokens]
    /\ stable' = [s \in Samplers |-> stable[s] \ {i}]
    /\ UNCHANGED <<tokens, it, pc, visited, ub>>

\* CordzSampleToken token; then the range for calls token.begin().
Begin(s) ==
    /\ pc[s] = "idle"
    /\ tokens' = tokens \cup {s}
    /\ it' = [it EXCEPT ![s] = Iterator(s)]
    /\ stable' = [stable EXCEPT ![s] = Listed]
    /\ pc' = [pc EXCEPT ![s] = "test"]
    /\ UNCHANGED <<status, head, next, pending, visited, ub>>

\* The loop condition: it != token.end().
Test(s) ==
    /\ pc[s] = "test"
    /\ pc' = [pc EXCEPT ![s] = IF NotEqual(it[s], End) THEN "body" ELSE "exit"]
    /\ UNCHANGED <<status, head, next, pending, tokens, it, stable, visited, ub>>

\* The loop body reads *it, and the range for then calls ++it.
Body(s) ==
    /\ pc[s] = "body"
    /\ visited' = [visited EXCEPT ![s] = @ \cup {it[s].current}]
    /\ ub' = (ub \/ ReadsFreed(it[s].current))
    /\ pc' = [pc EXCEPT ![s] = "inc"]
    /\ UNCHANGED <<status, head, next, pending, tokens, it, stable>>

Inc(s) ==
    /\ pc[s] = "inc"
    /\ it' = [it EXCEPT ![s] = Increment(@)]
    /\ ub' = (ub \/ AdvanceReadsFreed(it[s]))
    /\ pc' = [pc EXCEPT ![s] = "test"]
    /\ UNCHANGED <<status, head, next, pending, tokens, stable, visited>>

\* The body of a hand-written loop: const CordzInfo& info = *it++;
PostIncBody(s) ==
    LET p == PostIncrement(it[s]) IN
    /\ pc[s] = "body"
    /\ it' = [it EXCEPT ![s] = p.new]
    /\ visited' = [visited EXCEPT ![s] = @ \cup {p.old.current}]
    /\ ub' = (ub \/ AdvanceReadsFreed(it[s]) \/ ReadsFreed(p.old.current))
    /\ pc' = [pc EXCEPT ![s] = "test"]
    /\ UNCHANGED <<status, head, next, pending, tokens, stable>>

\* The token goes out of scope: ~CordzHandle of the snapshot frees every
\* queued info no older snapshot still protects.
Exit(s) ==
    LET left == [i \in Infos |-> pending[i] \ {s}] IN
    /\ pc[s] = "exit"
    /\ tokens' = tokens \ {s}
    /\ pending' = left
    /\ status' = [i \in Infos |->
                    IF status[i] = "queued" /\ left[i] = {} THEN "freed" ELSE status[i]]
    /\ pc' = [pc EXCEPT ![s] = "done"]
    /\ UNCHANGED <<head, next, it, stable, visited, ub>>

Next ==
    \/ \E i \in Infos : Track(i) \/ Untrack(i)
    \/ \E s \in Samplers :
          Begin(s) \/ Test(s) \/ Body(s) \/ Inc(s) \/ PostIncBody(s) \/ Exit(s)

Spec == Init /\ [][Next]_vars

-----------------------------------------------------------------------------
TypeOK ==
    /\ status \in [Infos -> {"new", "listed", "queued", "freed"}]
    /\ head \in Infos \cup {Null} /\ next \in [Infos -> Infos \cup {Null}]
    /\ tokens \subseteq Samplers
    /\ \A s \in Samplers :
          /\ it[s].current \in Infos \cup {Null}
          /\ pc[s] \in {"idle", "test", "body", "inc", "exit", "done"}
          /\ pc[s] \in {"test", "body", "inc"} => s \in tokens /\ it[s].token = s

(***************************************************************************)
(* While other threads track and untrack cords concurrently, a sampling    *)
(* loop never dereferences a null iterator and never reads a CordzInfo     *)
(* that was freed: the loop stops exactly at end(), and every info it can  *)
(* still reach from its position is protected by its token.                *)
(***************************************************************************)
SampledInfosStayInspectable == ~ub

(***************************************************************************)
(* A sampling loop, in either form (range for, or *it++), that has reached *)
(* end() has seen every CordzInfo that was tracked when its token was      *)
(* created and stayed tracked: unlinking other infos during the walk does  *)
(* not cut the iterator off from the rest of the list.                     *)
(***************************************************************************)
LoopVisitsStableInfos ==
    \A s \in Samplers : pc[s] \in {"exit", "done"} => stable[s] \subseteq visited[s]

=============================================================================

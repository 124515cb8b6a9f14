------------------------------- MODULE HashState -------------------------------
(***************************************************************************)
(* hash/hash.h: turbo::HashState, the type-erased hash state.  A HashState *)
(* holds state_, a pointer to a real hash state of type T, and the         *)
(* function pointers CombineContiguousImpl<T> and RunCombineUnorderedImpl  *)
(* <T>.  Create(&state) wraps a real state; Create(&erased) copies the     *)
(* pointers of an already erased state ("Do not erase an already erased    *)
(* state"); the move operations are defaulted, so a moved-from HashState   *)
(* keeps its pointers.  HashState objects are passed by value and die at   *)
(* the end of the TurboHashValue / HashValue call that owns them.          *)
(*                                                                         *)
(* T::combine_contiguous and T::RunCombineUnordered belong to              *)
(* hash_internal, outside this repository: combine_contiguous appends the  *)
(* bytes to the real state, RunCombineUnordered adds each element's inner  *)
(* hash to an order-insensitive part of it.                                *)
(***************************************************************************)
EXTENDS Naturals, Sequences, FiniteSets, Bags

CONSTANTS
    Handles,     \* HashState objects
    Reals,       \* real hash states (the H of a TurboHashValue)
    Bytes,       \* byte values combined
    MaxCombines  \* bound on combine calls

Null == "null"

VARIABLES
    alive,       \* alive[h]: HashState h is in scope
    target,      \* target[h]: state_, a real state, a HashState, or Null
    value,       \* value[r]: the bytes combined into real state r, in order
    unordered,   \* unordered[r]: inner hashes added by RunCombineUnordered
    intended,    \* intended[h]: the real state h was created to wrap
    written,     \* written[r]: bytes the program combined for r, in order
    unorderedWritten,
    ub,          \* a HashState dereferenced a dead object or the wrong type
    combines

vars == <<alive, target, value, unordered, intended, written, unorderedWritten,
          ub, combines>>

Init ==
    /\ alive = [h \in Handles |-> FALSE]
    /\ target = [h \in Handles |-> Null]
    /\ value = [r \in Reals |-> <<>>]
    /\ unordered = [r \in Reals |-> EmptyBag]
    /\ intended = [h \in Handles |-> Null]
    /\ written = [r \in Reals |-> <<>>]
    /\ unorderedWritten = [r \in Reals |-> EmptyBag]
    /\ ub = FALSE
    /\ combines = 0

\* Mutant: Create returns the HashState before calling Init on it.
CreateNoInit(h, r) ==
    /\ ~alive[h]
    /\ alive' = [alive EXCEPT ![h] = TRUE]
    /\ intended' = [intended EXCEPT ![h] = r]
    /\ UNCHANGED <<target, value, unordered, written, unorderedWritten, ub, combines>>

\* HashState::Create(T* state) with Init<T>: state_ = state.
Create(h, r) ==
    /\ ~alive[h]
    /\ alive' = [alive EXCEPT ![h] = TRUE]
    /\ target' = [target EXCEPT ![h] = r]
    /\ intended' = [intended EXCEPT ![h] = r]
    /\ UNCHANGED <<value, unordered, written, unorderedWritten, ub, combines>>

\* Mutant: the generic Init<T> is used for a HashState too, erasing twice.
CreateFromErasedTwice(h, g) ==
    /\ ~alive[h] /\ alive[g]
    /\ alive' = [alive EXCEPT ![h] = TRUE]
    /\ target' = [target EXCEPT ![h] = g]
    /\ intended' = [intended EXCEPT ![h] = intended[g]]
    /\ UNCHANGED <<value, unordered, written, unorderedWritten, ub, combines>>

\* HashState::Create(HashState* state) with Init(HashState*): copy state_
\* and the function pointers of the erased state.
CreateFromErased(h, g) ==
    /\ ~alive[h] /\ alive[g]
    /\ alive' = [alive EXCEPT ![h] = TRUE]
    /\ target' = [target EXCEPT ![h] = target[g]]
    /\ intended' = [intended EXCEPT ![h] = intended[g]]
    /\ UNCHANGED <<value, unordered, written, unorderedWritten, ub, combines>>

\* HashState(HashState&&) = default: the pointers are copied; the
\* moved-from object keeps them.
MoveConstruct(h, g) ==
    /\ ~alive[h] /\ alive[g]
    /\ alive' = [alive EXCEPT ![h] = TRUE]
    /\ target' = [target EXCEPT ![h] = target[g]]
    /\ intended' = [intended EXCEPT ![h] = intended[g]]
    /\ UNCHANGED <<value, unordered, written, unorderedWritten, ub, combines>>

\* The end of the scope that owns h.
Destroy(h) ==
    /\ alive[h]
    /\ alive' = [alive EXCEPT ![h] = FALSE]
    /\ UNCHANGED <<target, value, unordered, intended, written, unorderedWritten,
                   ub, combines>>

\* Following state_: a real state, or for a doubly erased state the
\* HashState it points to, which must still be alive.
RECURSIVE Resolve(_, _)
Resolve(x, depth) ==
    IF x \in Reals THEN x
    ELSE IF x = Null \/ depth = 0 \/ ~alive[x] THEN Null
    ELSE Resolve(target[x], depth - 1)

\* combine_contiguous(hash_state, first, size):
\* combine_contiguous_(state_, first, size), that is CombineContiguousImpl<T>
\* replacing the real state by T::combine_contiguous of it.
CombineContiguous(h, b) ==
    LET r == Resolve(target[h], Cardinality(Handles)) IN
    /\ alive[h] /\ combines < MaxCombines
    /\ IF r = Null THEN ub' = TRUE /\ UNCHANGED value
       ELSE value' = [value EXCEPT ![r] = Append(@, b)] /\ UNCHANGED ub
    /\ written' = [written EXCEPT ![intended[h]] = Append(@, b)]
    /\ combines' = combines + 1
    /\ UNCHANGED <<alive, target, unordered, intended, unorderedWritten>>

\* RunCombineUnordered(state, combiner): run_combine_unordered_, that is
\* RunCombineUnorderedImpl<T>, takes Real<T>() (a static_cast of state_,
\* which must be a T) and runs T::RunCombineUnordered; each element is
\* hashed into a fresh inner state through a HashState created for it.
RunCombineUnordered(h, b) ==
    /\ alive[h] /\ combines < MaxCombines
    /\ IF target[h] \in Reals
       THEN unordered' = [unordered EXCEPT ![target[h]] = @ (+) SetToBag({b})] /\ UNCHANGED ub
       ELSE ub' = TRUE /\ UNCHANGED unordered
    /\ unorderedWritten' = [unorderedWritten EXCEPT ![intended[h]] = @ (+) SetToBag({b})]
    /\ combines' = combines + 1
    /\ UNCHANGED <<alive, target, value, intended, written>>

Next ==
    \/ \E h \in Handles :
          \/ \E r \in Reals : Create(h, r)
          \/ \E g \in Handles : CreateFromErased(h, g) \/ MoveConstruct(h, g)
          \/ Destroy(h)
          \/ \E b \in Bytes : CombineContiguous(h, b) \/ RunCombineUnordered(h, b)

Spec == Init /\ [][Next]_vars

-----------------------------------------------------------------------------
TypeOK ==
    /\ alive \in [Handles -> BOOLEAN]
    /\ \A h \in Handles : alive[h] => target[h] \in Reals \cup Handles
    /\ \A h \in Handles : alive[h] => intended[h] \in Reals
    /\ value \in [Reals -> Seq(Bytes)] /\ written \in [Reals -> Seq(Bytes)]
    /\ ub \in BOOLEAN

(***************************************************************************)
(* Through any nesting of Create, Create from an erased state, moves and   *)
(* the end of the scopes that own them, every combine_contiguous and       *)
(* RunCombineUnordered made through a live HashState reaches, in order,    *)
(* exactly the real state it was created for, and never goes through a     *)
(* dead HashState or casts a HashState to the real state's type.           *)
(***************************************************************************)
ErasedCombinesReachRealState ==
    /\ ~ub
    /\ value = written
    /\ unordered = unorderedWritten

=============================================================================

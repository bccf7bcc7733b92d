------------------------------ MODULE PlStore ------------------------------
(***************************************************************************)
(* What backtracking promises a Prolog program: a store of variables that  *)
(* only unbound ones may be bound in, and choice points that bring back,   *)
(* exactly, the store as it was when they were made.                       *)
(***************************************************************************)
EXTENDS Integers, Sequences

CONSTANTS Variables, Values, Unset

VARIABLES
    store,      \* the value of each variable, or Unset
    saves       \* the store at each choice point, the oldest first

Init ==
    /\ store = [v \in Variables |-> Unset]
    /\ saves = <<>>

Bind(v, t) ==
    /\ store[v] = Unset
    /\ store' = [store EXCEPT ![v] = t]
    /\ UNCHANGED saves

Save ==
    /\ saves' = Append(saves, store)
    /\ UNCHANGED store

\* Back to choice point k; the ones made after it are gone.
RestoreTo(k) ==
    /\ store' = saves[k]
    /\ saves' = SubSeq(saves, 1, k)

\* Choice point k has no alternative left, or a cut removed it and the ones after it.
Forget(k) ==
    /\ saves' = SubSeq(saves, 1, k - 1)
    /\ UNCHANGED store

\* The last alternative of k: back to it, and it is gone.
RestoreLast(k) ==
    /\ store' = saves[k]
    /\ saves' = SubSeq(saves, 1, k - 1)

Next ==
    \/ \E v \in Variables, t \in Values : Bind(v, t)
    \/ Save
    \/ \E k \in DOMAIN saves : RestoreTo(k) \/ Forget(k) \/ RestoreLast(k)

Spec == Init /\ [][Next]_<<store, saves>>
=============================================================================

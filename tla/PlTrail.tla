------------------------------ MODULE PlTrail ------------------------------
(***************************************************************************)
(* frontend/prolog/prolog_unify.c: unification and the trail.  A bound     *)
(* variable becomes a TERM_REF to its value and is pushed on the trail;    *)
(* trail_unwind pops the trail down to a mark and makes each variable      *)
(* popped unbound again.                                                   *)
(*                                                                         *)
(* The marks are the callers' (lower/ir_exec.c, frontend/prolog/           *)
(* pl_broker.c): a clause choice, a disjunction and a call keep one while  *)
(* they can be resumed, a unification keeps one while it runs.             *)
(***************************************************************************)
EXTENDS Integers, Sequences

CONSTANTS
    Vars,            \* the TERM_VAR cells of a program
    Anonymous,       \* those with var_slot = -1
    Atoms,           \* atoms and numbers, each standing for the cells of one value
    Compounds,       \* the TERM_COMPOUND cells
    Functor, Args,   \* of each compound
    Goals,           \* the unifications: sequences of pairs of terms
    Unbound,         \* the tag of a variable that refers to nothing
    MaxMarks,        \* bound: marks held at once
    MaxAgenda        \* bound: pairs waiting in one unification

Terms == Vars \cup Atoms \cup Compounds

ASSUME TermAssumption ==
    /\ Anonymous \subseteq Vars
    /\ Unbound \notin Terms
    /\ Vars \cap (Atoms \cup Compounds) = {}
    /\ Args \in [Compounds -> Seq(Terms)]
    /\ Goals \subseteq Seq(Terms \X Terms)
    /\ MaxMarks \in Nat /\ MaxAgenda \in Nat

VARIABLES
    ref,             \* what each variable refers to, or Unbound
    trail,           \* Trail.stack up to Trail.top
    marks,           \* the marks held, the oldest first
    agenda,          \* the pairs unify has still to unify
    goal             \* the unification running, or <<>>

vars == <<ref, trail, marks, agenda, goal>>

Init ==
    /\ ref = [v \in Vars |-> Unbound]
    /\ trail = <<>>
    /\ marks = <<>>
    /\ agenda = <<>>
    /\ goal = <<>>

Running == goal # <<>>

-----------------------------------------------------------------------------
\* Mutant: a variable bound to a variable is not recorded.
bindUntrailed(var, val) ==
    /\ trail' = IF var \in Anonymous \/ val \in Vars THEN trail ELSE Append(trail, var)
    /\ ref' = [ref EXCEPT ![var] = val]

\* Mutant: anonymous variables are recorded too.
bindAnonymous(var, val) ==
    /\ trail' = Append(trail, var)
    /\ ref' = [ref EXCEPT ![var] = val]

\* bind: the variable is recorded, unless it is anonymous, and refers to val.
bind(var, val) ==
    /\ trail' = IF var \in Anonymous THEN trail ELSE Append(trail, var)
    /\ ref' = [ref EXCEPT ![var] = val]

\* The variables recorded above a mark.
Above(mark) == {trail[i] : i \in mark + 1 .. Len(trail)}

\* Mutant: the last variable to pop keeps its binding.
trail_unwindShort(mark) ==
    /\ ref' = [v \in Vars |-> IF v \in Above(mark + 1) THEN Unbound ELSE ref[v]]
    /\ trail' = IF mark < Len(trail) THEN SubSeq(trail, 1, mark) ELSE trail

trail_unwind(mark) ==
    /\ ref' = [v \in Vars |-> IF v \in Above(mark) THEN Unbound ELSE ref[v]]
    /\ trail' = IF mark < Len(trail) THEN SubSeq(trail, 1, mark) ELSE trail

-----------------------------------------------------------------------------
(* unify                                                                   *)

\* A caller notes the mark and unifies the pairs of g one after the other.
Unify(g) ==
    /\ ~Running /\ g # <<>> /\ Len(marks) < MaxMarks
    /\ goal' = g
    /\ agenda' = g
    /\ marks' = Append(marks, Len(trail))
    /\ UNCHANGED <<ref, trail>>

left  == Head(agenda)[1]
right == Head(agenda)[2]

IsRef(t) == t \in Vars /\ ref[t] # Unbound

\* One turn of term_deref's loop for the first term of the pair, and then one
\* for the second.
DerefLeft ==
    /\ agenda # <<>> /\ IsRef(left)
    /\ agenda' = <<<<ref[left], right>>>> \o Tail(agenda)
    /\ UNCHANGED <<ref, trail, marks, goal>>

DerefRight ==
    /\ agenda # <<>> /\ ~IsRef(left) /\ IsRef(right)
    /\ agenda' = <<<<left, ref[right]>>>> \o Tail(agenda)
    /\ UNCHANGED <<ref, trail, marks, goal>>

\* Both terms of the pair are dereferenced.
Pair == agenda # <<>> /\ ~IsRef(left) /\ ~IsRef(right)

UnifySame ==
    /\ Pair /\ left = right
    /\ agenda' = Tail(agenda)
    /\ UNCHANGED <<ref, trail, marks, goal>>

\* Mutant: a variable is bound to itself.
UnifyVarSelf ==
    /\ Pair
    /\ \/ left \in Vars /\ bind(left, right)
       \/ left \notin Vars /\ right \in Vars /\ bind(right, left)
    /\ agenda' = Tail(agenda)
    /\ UNCHANGED <<marks, goal>>

UnifyVar ==
    /\ Pair /\ left # right
    /\ \/ left \in Vars /\ bind(left, right)
       \/ left \notin Vars /\ right \in Vars /\ bind(right, left)
    /\ agenda' = Tail(agenda)
    /\ UNCHANGED <<marks, goal>>

BothCompound == left \in Compounds /\ right \in Compounds
SameFunctor ==
    Functor[left] = Functor[right] /\ Len(Args[left]) = Len(Args[right])

\* Mutant: only the first arguments are unified.
UnifyArgsFirst ==
    /\ Pair /\ left # right
    /\ BothCompound /\ SameFunctor
    /\ agenda' = <<<<Args[left][1], Args[right][1]>>>> \o Tail(agenda)
    /\ UNCHANGED <<ref, trail, marks, goal>>

\* The arguments are unified left to right, before what is left of the rest.
UnifyArgs ==
    /\ Pair /\ left # right
    /\ BothCompound /\ SameFunctor
    /\ Len(agenda) + Len(Args[left]) <= MaxAgenda
    /\ agenda' = [i \in 1 .. Len(Args[left]) |-> <<Args[left][i], Args[right][i]>>] \o Tail(agenda)
    /\ UNCHANGED <<ref, trail, marks, goal>>

\* Mutant: only a variable on the left can be bound.
ClashLeftOnly ==
    /\ Pair /\ left # right
    /\ left \notin Vars
    /\ BothCompound => ~SameFunctor

Clash ==
    /\ Pair /\ left # right
    /\ left \notin Vars /\ right \notin Vars
    /\ BothCompound => ~SameFunctor

\* unify returns 0 and its caller unwinds to the mark it noted.
UnifyFails ==
    /\ Clash
    /\ trail_unwind(marks[Len(marks)])
    /\ marks' = SubSeq(marks, 1, Len(marks) - 1)
    /\ agenda' = <<>>
    /\ goal' = <<>>

\* unify returns 1 and the bindings stay; a builtin forgets its mark, a box
\* keeps it for when it is resumed.
UnifySucceeds ==
    /\ Running /\ agenda = <<>>
    /\ \/ marks' = SubSeq(marks, 1, Len(marks) - 1)
       \/ UNCHANGED marks
    /\ goal' = <<>>
    /\ UNCHANGED <<ref, trail, agenda>>

-----------------------------------------------------------------------------
(* The choice points                                                       *)

\* A clause, a disjunct or a call is about to be tried.
TryAlternative ==
    /\ ~Running /\ Len(marks) < MaxMarks
    /\ marks' = Append(marks, Len(trail))
    /\ UNCHANGED <<ref, trail, agenda, goal>>

\* Mutant: the choice points made since stay.
BacktrackKeep(k) ==
    /\ ~Running
    /\ trail_unwind(marks[k])
    /\ UNCHANGED <<marks, agenda, goal>>

\* Choice point k is resumed; the ones made since are given up with it.
Backtrack(k) ==
    /\ ~Running
    /\ trail_unwind(marks[k])
    /\ marks' = SubSeq(marks, 1, k)
    /\ UNCHANGED <<agenda, goal>>

\* Choice point k failed for good.
LastAlternative(k) ==
    /\ ~Running
    /\ trail_unwind(marks[k])
    /\ marks' = SubSeq(marks, 1, k - 1)
    /\ UNCHANGED <<agenda, goal>>

\* A cut or a last success: k and what was made since cannot be resumed.
Commit(k) ==
    /\ ~Running
    /\ marks' = SubSeq(marks, 1, k - 1)
    /\ UNCHANGED <<ref, trail, agenda, goal>>

Next ==
    \/ \E g \in Goals : Unify(g)
    \/ DerefLeft \/ DerefRight
    \/ UnifySame \/ UnifyVar \/ UnifyArgs \/ UnifyFails \/ UnifySucceeds
    \/ TryAlternative
    \/ \E k \in DOMAIN marks : Backtrack(k) \/ LastAlternative(k) \/ Commit(k)

Spec == Init /\ [][Next]_vars

-----------------------------------------------------------------------------
\* Variables refer to terms, the trail holds named variables, and a unification that is under
\* way has noted its mark.
TypeOK ==
    /\ ref \in [Vars -> Terms \cup {Unbound}]
    /\ trail \in Seq(Vars \ Anonymous)
    /\ marks \in Seq(Nat)
    /\ agenda \in Seq(Terms \X Terms)
    /\ goal \in Seq(Terms \X Terms)
    /\ Running => marks # <<>>
    /\ agenda # <<>> => Running

\* Each variable is on the trail exactly while it is bound, and once.
TrailRecordsBindings ==
    /\ \A v \in Vars \ Anonymous :
         ref[v] # Unbound <=> \E i \in DOMAIN trail : trail[i] = v
    /\ \A i, j \in DOMAIN trail : trail[i] = trail[j] => i = j

\* The marks held never point above the trail, nor below an older mark.
MarksNested ==
    /\ \A k \in DOMAIN marks : marks[k] <= Len(trail)
    /\ \A j, k \in DOMAIN marks : j <= k => marks[j] <= marks[k]

\* References never form a ring, so term_deref's loop ends.
NoRefRing ==
    \A S \in (SUBSET Vars) \ {{}} : \E v \in S : ref[v] \notin S

\* The store as the unification that is running found it: what it recorded is undone.
Before == [v \in Vars |-> IF v \in Above(marks[Len(marks)]) THEN Unbound ELSE ref[v]]

TrailInv == TypeOK /\ TrailRecordsBindings /\ MarksNested

-----------------------------------------------------------------------------
\* The store the trail keeps: every variable but the anonymous ones, and for
\* each mark the store with what is recorded above the mark undone.
Named == Vars \ Anonymous
Undone(mark) == [v \in Named |-> IF v \in Above(mark) THEN Unbound ELSE ref[v]]

Store == INSTANCE PlStore WITH
    Variables <- Named, Values <- Terms, Unset <- Unbound,
    store <- [v \in Named |-> ref[v]],
    saves <- [k \in DOMAIN marks |-> Undone(marks[k])]

\* Whatever unifications succeed, fail half way or are undone, backtracking to
\* a mark gives every named variable the value it had when the mark was taken.
BacktrackingRestores == Store!Spec
=============================================================================

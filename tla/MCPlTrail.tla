----------------------------- MODULE MCPlTrail -----------------------------
(***************************************************************************)
(* The trail and unification on three variables, two atoms and five         *)
(* compound terms, with what a unification leaves compared with the least  *)
(* congruence of its goal: a definition of what a unifier identifies that  *)
(* knows nothing of bindings or of the order of the work.                  *)
(***************************************************************************)
EXTENDS PlTrail, FiniteSets, TLC

CONSTANTS X, Y, U, a, b, fX, fY, fa, gXY, gYb

MCArgs == (fX :> <<X>>) @@ (fY :> <<Y>>) @@ (fa :> <<a>>) @@ (gXY :> <<X, Y>>) @@ (gYb :> <<Y, b>>)
MCFunctor == (fX :> "f") @@ (fY :> "f") @@ (fa :> "f") @@ (gXY :> "g") @@ (gYb :> "g")
One(s, t) == << <<s, t>> >>
MCGoals == {One(X, Y), One(Y, U), One(b, Y), One(Y, fa), One(X, fY), One(gXY, gYb), One(fX, fY),
            << <<X, a>>, <<Y, X>>, <<U, b>> >>, << <<Y, X>>, <<fX, Y>> >>}

-----------------------------------------------------------------------------
\* What a set of equations between terms makes equal: the least congruence
\* that also goes down to the arguments of compounds of one functor.
SameShape(s, t) ==
    /\ s \in Compounds /\ t \in Compounds
    /\ Functor[s] = Functor[t] /\ Len(Args[s]) = Len(Args[t])

ArgsAlike(class, s, t) == \A i \in DOMAIN Args[s] : class[Args[s][i]] = class[Args[t][i]]

\* A congruence is kept as the representative of each term.  What must still be
\* joined: equations, arguments of compounds joined, compounds of like arguments.
ToJoin(class, eqs) ==
    LET alike == {p \in Compounds \X Compounds : p[1] # p[2] /\ SameShape(p[1], p[2])}
        down  == UNION {{<<Args[p[1]][i], Args[p[2]][i]>> : i \in DOMAIN Args[p[1]]} :
                          p \in {q \in alike : class[q[1]] = class[q[2]]}}
        up    == {p \in alike : ArgsAlike(class, p[1], p[2])}
    IN {p \in eqs \cup down \cup up : class[p[1]] # class[p[2]]}

RECURSIVE Closure(_, _)
Closure(class, eqs) ==
    LET join == ToJoin(class, eqs) IN
    IF join = {} THEN class
    ELSE LET p == CHOOSE q \in join : TRUE
         IN Closure([t \in {u \in Terms : class[u] = class[p[2]]} |-> class[p[1]]] @@ class, eqs)

\* What a binding store and a list of pairs make equal.
Congruence(store, pairs) ==
    Closure([t \in Terms |-> t],
            {<<v, store[v]>> : v \in {w \in Vars : store[w] # Unbound}} \cup {pairs[i] : i \in DOMAIN pairs})

Same(c, d) == \A s, t \in Terms : c[s] = c[t] <=> d[s] = d[t]
Consistent(class) ==
    \A s, t \in Atoms \cup Compounds : class[s] = class[t] => s = t \/ SameShape(s, t)

\* A unification that succeeds leaves bindings that say what its goal says, given
\* the store it started from: it is a unifier and a most general one.
SuccessIsMostGeneral ==
    Running /\ agenda = <<>> =>
        LET meant == Congruence(Before, goal)
        IN Consistent(meant) /\ Same(Congruence(ref, <<>>), meant)

\* A unification fails only when no substitution, not even one by infinite
\* terms, makes its goal's pairs equal.
FailureMeansNoUnifier == Clash => ~Consistent(Congruence(Before, goal))
=============================================================================

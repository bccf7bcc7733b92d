---- MODULE Scopes ----
(***************************************************************************)
(* What a SNOBOL4 function call promises about variables: a deep-binding   *)
(* environment.  Every activation has a scope of its own that binds the    *)
(* function's name, its parameters and its locals; a name means its        *)
(* binding in the innermost scope that has one, and below all of them lies *)
(* the global scope, which binds every name.  The program keeps one value  *)
(* per name instead, and saves and restores values around each call        *)
(* (SMCalls); a call is right when nobody can tell the difference.         *)
(***************************************************************************)
EXTENDS Naturals, Sequences

CONSTANTS Names,     \* the variables
          Values     \* what a variable may hold

VARIABLE env         \* the scopes, env[1] the global one

\* The depth of the scope a name is looked up in, and the value found there.
Home(e, x) == CHOOSE k \in 1..Len(e) : x \in DOMAIN e[k] /\ \A j \in (k+1)..Len(e) : x \notin DOMAIN e[j]
Visible(e, x) == e[Home(e, x)][x]

Init == Len(env) = 1 /\ env = <<env[1]>> /\ env[1] \in [Names -> Values]

\* A scope binds some of the names.
IsScope(s) == DOMAIN s \in SUBSET Names /\ s \in [DOMAIN s -> Values]

\* A function is called: a scope is opened on top.
Enter ==
    /\ Len(env') = Len(env) + 1
    /\ LET scope == env'[Len(env) + 1] IN env' = Append(env, scope) /\ IsScope(scope)

\* A variable is assigned: its innermost binding changes, and no other.
Assign ==
    /\ Len(env') = Len(env)
    /\ env' # env
    /\ \E x \in Names :
        LET v == env'[Home(env, x)][x]
        IN v \in Values /\ env' = [env EXCEPT ![Home(env, x)] = [@ EXCEPT ![x] = v]]

\* A function returns: its scope goes, and those below are as they were.
Leave == Len(env) > 1 /\ env' = SubSeq(env, 1, Len(env) - 1)

\* The scopes above depth m are abandoned: each name keeps the value it was seen with, so
\* the bindings of the abandoned scopes leak into the scopes that remain.
Abandoned(m) ==
    LET rest == SubSeq(env, 1, m)
    IN [k \in 1..m |-> [x \in DOMAIN env[k] |->
           IF k = Home(rest, x) THEN Visible(env, x) ELSE env[k][x]]]

\* A run is cut short by an error, or by END in a nested run: the scopes above m are abandoned, those from m down to n are left.
Cut ==
    /\ Len(env') \in 1..(Len(env) - 1)
    /\ \E m \in Len(env')..Len(env) : env' = SubSeq(Abandoned(m), 1, Len(env'))

(***************************************************************************)
(* The promise the program keeps in every case.                            *)
(***************************************************************************)
Spec == Init /\ [][Enter \/ Assign \/ Leave \/ Cut]_env
====

------------------------------ MODULE PlEngine ------------------------------
(***************************************************************************)
(* The Prolog nodes of the graph walker (src/lower/ir_exec.c): sequence,   *)
(* alternative, choice, call, cut, unification and the builtins, walked by *)
(* bb_exec_node, which calls itself.  The C stack is k; what a node keeps  *)
(* from one visit to the next is in the node, one copy for all the calls   *)
(* that use it: st (nd->state) and saved (nd->opaque of a call).           *)
(***************************************************************************)
EXTENDS PlGraph

CONSTANTS
    Codes,          \* the programs that are run, lowered
    MaxSlot,        \* slots of an environment: 0 .. MaxSlot
    MaxVars,        \* bound: a run that makes more variables is given up
    MaxOut          \* bound: a run that writes more is given up

ASSUME PlEngineAssumption ==
    /\ MaxSlot \in Nat /\ MaxVars \in Nat /\ MaxOut \in Nat
    /\ \A c \in Codes : IsLowered(c, MaxSlot)

VARIABLES
    code,                   \* the program that is run
    st, saved,              \* what the nodes keep
    ref, trail,             \* the variables and what they are bound to; g_pl_trail
    env, genv, freed,       \* environments, the current one (g_pl_env), those given back
    cut,                    \* g_pl_cut_flag
    k, ctl,                 \* the C stack and what happens next
    out                     \* what was written

terms   == <<ref, trail>>
envs    == <<env, genv, freed>>
vars == <<code, st, saved, terms, envs, cut, k, ctl, out>>

Ids == {nd.id : nd \in code.nodes}

\* Terms at run time: an unbound or bound variable, an integer, or nothing.
Ref(i)  == [ref |-> i, n |-> 0]
Num(i)  == [ref |-> 0, n |-> i]
NULL    == [ref |-> -1, n |-> 0]
Blank   == 0                        \* what is written for a variable without a value

NoCall == [cenv |-> 0, senv |-> 0, mark |-> 0, store |-> <<>>]

\* From a variable to the one it is bound to.
Hop(i) == IF ref[i].ref > 0 THEN ref[i].ref ELSE i
\* A variable's value, or the last unbound variable: no chain of variables is longer than ref is.
term_deref(t) ==
    LET last[n \in 0 .. Len(ref)] == IF n = 0 THEN t.ref ELSE [i \in DOMAIN ref |-> Hop(i)][last[n - 1]]
        v == last[Len(ref)]
    IN IF t.ref <= 0 THEN t ELSE IF ref[v] = NULL THEN Ref(v) ELSE ref[v]

Value(a) == IF a.slot = NoSlot THEN Num(a.n) ELSE term_deref(env[genv][a.slot])
Bound(t) == t.ref = 0
Number(t) == IF Bound(t) THEN t.n ELSE 0

Unwound(mark) == LET undone == {trail[i] : i \in mark + 1 .. Len(trail)}
                 IN [i \in DOMAIN ref |-> IF i \in undone THEN NULL ELSE ref[i]]
trail_unwind(mark) == /\ ref' = Unwound(mark)
                      /\ trail' = SubSeq(trail, 1, IF mark < Len(trail) THEN mark ELSE Len(trail))

-----------------------------------------------------------------------------
(* Control.                                                                *)

Exec(nd)   == ctl' = [at |-> "exec", nd |-> nd]
Return(ok) == ctl' = [at |-> IF ok THEN "ok" ELSE "fail", nd |-> NoNode]
Go(where)  == ctl' = [at |-> where, nd |-> NoNode]

Frame(nd, j) == [nd |-> nd, j |-> j, mark |-> Len(trail), env |-> genv, cenv |-> 0,
                 cut |-> cut, mode |-> "go", cs |-> NoCall]
Top == k[Len(k)]
Push(f)   == k' = Append(k, f)
Pop       == k' = SubSeq(k, 1, Len(k) - 1)
SetTop(f) == k' = [k EXCEPT ![Len(k)] = f]

Executing(op) == ctl.at = "exec" /\ ctl.nd.op = op
In(op, at) == k # <<>> /\ Top.nd.op = op /\ ctl.at = at
Within == Len(ref) <= MaxVars /\ Len(out) <= MaxOut

\* bb_reset: the states of a graph's nodes; what a call keeps in nd->opaque stays.
bb_reset(nd) == st' = [i \in DOMAIN st |-> IF InGraph(i, nd) THEN 0 ELSE st[i]]

\* rt_pl_once: an environment for main, and main once.
Init ==
    /\ code \in Codes
    /\ st = [i \in Ids |-> 0] /\ saved = [i \in Ids |-> NoCall]
    /\ ref = <<>> /\ trail = <<>>
    /\ env = <<[s \in 0 .. MaxSlot |-> NULL]>> /\ genv = 1 /\ freed = {}
    /\ cut = FALSE /\ k = <<>> /\ ctl = [at |-> "exec", nd |-> code.entry["main"]] /\ out = <<>>

-----------------------------------------------------------------------------
(* Leaves.                                                                 *)

\* A slot without a variable gets a new one, the n-th.
Empty(e, a) == a.slot # NoSlot /\ e[a.slot] = NULL
Fresh(e, a, n) == IF Empty(e, a) THEN [e EXCEPT ![a.slot] = Ref(n)] ELSE e
Count(e, a) == IF Empty(e, a) THEN 1 ELSE 0

\* Two arguments are unified: the slots that are empty first get variables.
ExecUnify ==
    /\ Executing("UNIFY")
    /\ LET a  == ctl.nd.args[1]
           b  == ctl.nd.args[2]
           n1 == Len(ref) + Count(env[genv], a)
           e1 == Fresh(env[genv], a, n1)
           n2 == n1 + Count(e1, b)
           e2 == Fresh(e1, b, n2)
           term(x) == IF x.slot = NoSlot THEN Num(x.n)
                      ELSE IF e2[x.slot].ref > Len(ref) THEN e2[x.slot] ELSE term_deref(e2[x.slot])
           lt == term(a)
           rt == term(b)
           more == [i \in 1 .. n2 |-> IF i <= Len(ref) THEN ref[i] ELSE NULL]
           bind(v, t) == ref' = [more EXCEPT ![v.ref] = t] /\ trail' = Append(trail, v.ref)
       IN /\ env' = [env EXCEPT ![genv] = e2]
          /\ CASE lt = rt             -> ref' = more /\ UNCHANGED trail /\ Return(TRUE)
               [] lt # rt /\ ~Bound(lt) -> bind(lt, rt) /\ Return(TRUE)
               [] lt # rt /\ Bound(lt) /\ ~Bound(rt) -> bind(rt, lt) /\ Return(TRUE)
               [] OTHER               -> ref' = more /\ UNCHANGED trail /\ Return(FALSE)
    /\ UNCHANGED <<code, st, saved, genv, freed, cut, k, out>>

ExecCut ==
    /\ Executing("CUT") /\ cut' = TRUE /\ Return(TRUE)
    /\ UNCHANGED <<code, st, saved, terms, envs, k, out>>

ExecWrite ==
    /\ Executing("WRITE")
    /\ out' = Append(out, LET t == Value(ctl.nd.args[1]) IN IF Bound(t) THEN t.n ELSE Blank)
    /\ Return(TRUE)
    /\ UNCHANGED <<code, st, saved, terms, envs, cut, k>>

\* is: the value is put into the slot; the variable that was there is not bound.
ExecIs ==
    /\ Executing("IS")
    /\ LET a == ctl.nd.args
           v == Num(Number(Value(a[2])) - Number(Value(a[3])))
       IN env' = IF a[1].slot = NoSlot THEN env ELSE [env EXCEPT ![genv][a[1].slot] = v]
    /\ Return(TRUE)
    /\ UNCHANGED <<code, st, saved, terms, genv, freed, cut, k, out>>

ExecGt ==
    /\ Executing("GT")
    /\ Return(Number(Value(ctl.nd.args[1])) > Number(Value(ctl.nd.args[2])))
    /\ UNCHANGED <<code, st, saved, terms, envs, cut, k, out>>

ExecConst ==
    /\ Executing("SUCCEED") \/ Executing("FAIL")
    /\ Return(ctl.nd.op = "SUCCEED")
    /\ UNCHANGED <<code, st, saved, terms, envs, cut, k, out>>

-----------------------------------------------------------------------------
(* BB_PL_SEQ: goals from left to right; when one fails, the nearest call   *)
(* or alternative to its left that may have another solution is resumed.   *)

\* On to goal j, or done.
Forward(f, j) ==
    IF j <= Len(f.nd.c) THEN SetTop([f EXCEPT !.j = j, !.mode = "go", !.cs = NoCall]) /\ Exec(f.nd.c[j])
                        ELSE Pop /\ Return(TRUE)

\* Goal j has failed, or has no further solution.
Backward(f, j) == SetTop([f EXCEPT !.j = j, !.mode = "go", !.cs = NoCall]) /\ Go("back")

Resumable(nd) == \/ nd.op = "CALL" /\ st[nd.id] = 1 /\ saved[nd.id] # NoCall
                 \/ nd.op = "ALT" /\ st[nd.id] = 1
Found(f) == {j \in 1 .. f.j - 1 : Resumable(f.nd.c[j])}
\* Mutant: the one furthest to the left.
NearestFirst(f) == CHOOSE j \in Found(f) : \A i \in Found(f) : j <= i

Nearest(f) == CHOOSE j \in Found(f) : \A i \in Found(f) : i <= j

\* Mutant: a slot gets the variable of the argument after its own.
WriteBackShifted(nd, cenv, senv) ==
    env' = [env EXCEPT ![senv] =
              [s \in DOMAIN @ |->
                  LET ai == {i \in DOMAIN nd.args : nd.args[i].slot = s /\ env[cenv][i - 1] # NULL}
                  IN IF ai = {} THEN @[s] ELSE env[cenv][(CHOOSE i \in ai : \A j \in ai : j <= i)]]]

\* After a call: the caller's variables are the callee's.
WriteBack(nd, cenv, senv) ==
    env' = [env EXCEPT ![senv] =
              [s \in DOMAIN @ |->
                  LET ai == {i \in DOMAIN nd.args : nd.args[i].slot = s /\ env[cenv][i - 1] # NULL}
                  IN IF ai = {} THEN @[s] ELSE env[cenv][(CHOOSE i \in ai : \A j \in ai : j <= i) - 1]]]

ExecSeq ==
    /\ Executing("SEQ")
    /\ Push(Frame(ctl.nd, 1)) /\ Exec(ctl.nd.c[1])
    /\ UNCHANGED <<code, st, saved, terms, envs, cut, out>>

SeqGoal ==
    /\ \/ In("SEQ", "ok") /\ Top.mode = "go" /\ Forward(Top, Top.j + 1)
       \/ In("SEQ", "fail") /\ Top.mode = "go" /\ Backward(Top, Top.j)
    /\ UNCHANGED <<code, st, saved, terms, envs, cut, out>>

SeqFails ==
    /\ In("SEQ", "back") /\ Found(Top) = {}
    /\ Pop /\ Return(FALSE)
    /\ UNCHANGED <<code, st, saved, terms, envs, cut, out>>

\* Mutant: what was bound since the call stays bound.
SeqResumesCallBound ==
    /\ In("SEQ", "back") /\ Found(Top) # {} /\ Within
    /\ LET j  == Nearest(Top)
           nd == Top.nd.c[j]
       IN /\ nd.op = "CALL"
          /\ UNCHANGED terms
          /\ genv' = saved[nd.id].cenv
          /\ saved' = [saved EXCEPT ![nd.id].mark = Len(trail)]
          /\ SetTop([Top EXCEPT !.j = j, !.mode = "call", !.cs = saved'[nd.id]]) /\ Exec(code.entry[nd.pred])
    /\ UNCHANGED <<code, st, env, freed, cut, out>>

\* IR_exec_resume enters the predicate's graph as it is.  What the call kept is at hand until that
\* is done, whatever the node keeps by then.
SeqResumesCall ==
    /\ In("SEQ", "back") /\ Found(Top) # {} /\ Within
    /\ LET j  == Nearest(Top)
           nd == Top.nd.c[j]
       IN /\ nd.op = "CALL"
          /\ trail_unwind(saved[nd.id].mark)
          /\ genv' = saved[nd.id].cenv
          /\ saved' = [saved EXCEPT ![nd.id].mark = Len(trail')]
          /\ SetTop([Top EXCEPT !.j = j, !.mode = "call", !.cs = saved'[nd.id]]) /\ Exec(code.entry[nd.pred])
    /\ UNCHANGED <<code, st, env, freed, cut, out>>

\* Mutant: the environment of the call stays the current one.
SeqCallAgainInCallee ==
    /\ In("SEQ", "ok") /\ Top.mode = "call"
    /\ WriteBack(Top.nd.c[Top.j], Top.cs.cenv, Top.cs.senv)
    /\ Forward(Top, Top.j + 1)
    /\ UNCHANGED <<code, st, saved, terms, genv, freed, cut, out>>

SeqCallAgain ==
    /\ In("SEQ", "ok") /\ Top.mode = "call"
    /\ WriteBack(Top.nd.c[Top.j], Top.cs.cenv, Top.cs.senv) /\ genv' = Top.cs.senv
    /\ Forward(Top, Top.j + 1)
    /\ UNCHANGED <<code, st, saved, terms, freed, cut, out>>

\* Mutant: the call stays marked as having a solution.
SeqCallExhaustedKeepsState ==
    /\ In("SEQ", "fail") /\ Top.mode = "call"
    /\ LET id == Top.nd.c[Top.j].id
       IN /\ genv' = Top.cs.senv
          /\ saved' = [saved EXCEPT ![id] = NoCall] /\ UNCHANGED st
    /\ Backward(Top, Top.j)
    /\ UNCHANGED <<code, terms, env, freed, cut, out>>

SeqCallExhausted ==
    /\ In("SEQ", "fail") /\ Top.mode = "call"
    /\ LET id == Top.nd.c[Top.j].id
       IN /\ genv' = Top.cs.senv
          /\ saved' = [saved EXCEPT ![id] = NoCall] /\ st' = [st EXCEPT ![id] = 0]
    /\ Backward(Top, Top.j)
    /\ UNCHANGED <<code, terms, env, freed, cut, out>>

\* The right branch of an alternative is run as it is: nothing the left branch, or a goal after
\* it, has bound is undone.
SeqResumesAlt ==
    /\ In("SEQ", "back") /\ Found(Top) # {}
    /\ LET j  == Nearest(Top)
           nd == Top.nd.c[j]
       IN /\ nd.op = "ALT"
          /\ st' = [st EXCEPT ![nd.id] = 2]
          /\ SetTop([Top EXCEPT !.j = j, !.mode = "alt"]) /\ Exec(nd.c[2])
    /\ UNCHANGED <<code, saved, terms, envs, cut, out>>

SeqAltDone ==
    /\ \/ In("SEQ", "ok") /\ Top.mode = "alt" /\ Forward(Top, Top.j + 1)
       \/ In("SEQ", "fail") /\ Top.mode = "alt" /\ Backward(Top, Top.j)
    /\ st' = [st EXCEPT ![Top.nd.c[Top.j].id] = 0]
    /\ UNCHANGED <<code, saved, terms, envs, cut, out>>

-----------------------------------------------------------------------------
(* BB_PL_ALT.                                                              *)

ExecAlt ==
    /\ Executing("ALT")
    /\ Push(Frame(ctl.nd, 1)) /\ Exec(ctl.nd.c[1])
    /\ UNCHANGED <<code, st, saved, terms, envs, cut, out>>

AltDone(f, ok, s) == Pop /\ Return(ok) /\ st' = [st EXCEPT ![f.nd.id] = s]

AltLeft ==
    /\ \/ In("ALT", "ok") /\ Top.j = 1 /\ AltDone(Top, TRUE, 1) /\ UNCHANGED <<terms, genv>>
       \/ /\ In("ALT", "fail") /\ Top.j = 1
          /\ trail_unwind(Top.mark) /\ genv' = Top.env
          /\ SetTop([Top EXCEPT !.j = 2]) /\ Exec(Top.nd.c[2]) /\ UNCHANGED st
    /\ UNCHANGED <<code, saved, env, freed, cut, out>>

AltRight ==
    /\ In("ALT", "ok") \/ In("ALT", "fail")
    /\ Top.j = 2 /\ AltDone(Top, ctl.at = "ok", 0)
    /\ UNCHANGED <<code, saved, terms, envs, cut, out>>

-----------------------------------------------------------------------------
(* BB_PL_CHOICE: the clauses in turn, from where the last solution left    *)
(* off.                                                                    *)

ExecChoice ==
    /\ Executing("CHOICE")
    /\ cut' = FALSE
    /\ Push(Frame(ctl.nd, st[ctl.nd.id] + 1)) /\ Go("try")
    /\ UNCHANGED <<code, st, saved, terms, envs, out>>

TryClause ==
    /\ In("CHOICE", "try") /\ Top.j <= Len(Top.nd.c)
    /\ SetTop([Top EXCEPT !.mark = Len(trail), !.env = genv])
    /\ bb_reset(Top.nd.c[Top.j]) /\ Exec(Top.nd.c[Top.j])
    /\ UNCHANGED <<code, saved, terms, envs, cut, out>>

ChoiceDone(ok, s) ==
    /\ cut' = Top.cut /\ st' = [st EXCEPT ![Top.nd.id] = s]
    /\ Pop /\ Return(ok)

ChoiceEmpty ==
    /\ In("CHOICE", "try") /\ Top.j > Len(Top.nd.c)
    /\ ChoiceDone(FALSE, 0)
    /\ UNCHANGED <<code, saved, terms, envs, out>>

\* Mutant: the clause that succeeded is the one to go on with.
ClauseSucceedsAgain ==
    /\ In("CHOICE", "ok") /\ ChoiceDone(TRUE, Top.j - 1)
    /\ UNCHANGED <<code, saved, terms, envs, out>>

ClauseSucceeds ==
    /\ In("CHOICE", "ok") /\ ChoiceDone(TRUE, Top.j)
    /\ UNCHANGED <<code, saved, terms, envs, out>>

ClauseFails ==
    /\ In("CHOICE", "fail")
    /\ IF cut THEN ChoiceDone(FALSE, 0) /\ UNCHANGED <<terms, genv>>
       ELSE /\ trail_unwind(Top.mark) /\ genv' = Top.env
            /\ SetTop([Top EXCEPT !.j = @ + 1]) /\ Go("try")
            /\ UNCHANGED <<st, cut>>
    /\ UNCHANGED <<code, saved, env, freed, out>>

-----------------------------------------------------------------------------
(* BB_PL_CALL.                                                             *)

\* A call that has a solution already is not run again, and an unknown predicate fails.
CallFailsAtOnce ==
    /\ Executing("CALL")
    /\ ctl.nd.pred \notin DOMAIN code.entry \/ st[ctl.nd.id] # 0
    /\ Return(FALSE)
    /\ UNCHANGED <<code, st, saved, terms, envs, cut, k, out>>

\* A new environment: a new variable for each argument, bound to its value if it has one.
Given(args) == {i \in DOMAIN args : Bound(Value(args[i]))}
WithArgs(args) == ref \o [i \in DOMAIN args |-> IF i \in Given(args) THEN Value(args[i]) ELSE NULL]
Recorded(args) ==
    LET to[i \in 0 .. Len(args)] == IF i = 0 THEN trail
                                    ELSE IF i \in Given(args) THEN Append(to[i - 1], Len(ref) + i) ELSE to[i - 1]
    IN to[Len(args)]

ExecCall ==
    /\ Executing("CALL") /\ Within
    /\ ctl.nd.pred \in DOMAIN code.entry /\ st[ctl.nd.id] = 0
    /\ ref' = WithArgs(ctl.nd.args) /\ trail' = Recorded(ctl.nd.args)
    /\ env' = Append(env, [s \in 0 .. MaxSlot |->
                              IF s < Len(ctl.nd.args) THEN Ref(Len(ref) + s + 1) ELSE NULL])
    /\ genv' = Len(env) + 1
    /\ bb_reset(code.entry[ctl.nd.pred])
    /\ Push([Frame(ctl.nd, 0) EXCEPT !.mark = Len(trail'), !.cenv = Len(env) + 1])
    /\ Exec(code.entry[ctl.nd.pred])
    /\ UNCHANGED <<code, saved, freed, cut, out>>

CallSucceeds ==
    /\ In("CALL", "ok")
    /\ LET nd == Top.nd IN
       /\ saved' = [saved EXCEPT ![nd.id] = [cenv |-> Top.cenv, senv |-> Top.env, mark |-> Top.mark,
                                             store |-> Unwound(Top.mark)]]
       /\ st' = [st EXCEPT ![nd.id] = 1]
       /\ WriteBack(nd, Top.cenv, Top.env)
    /\ genv' = Top.env
    /\ Pop /\ Return(TRUE)
    /\ UNCHANGED <<code, terms, freed, cut, out>>

CallFails ==
    /\ In("CALL", "fail")
    /\ trail_unwind(Top.mark) /\ genv' = Top.env /\ freed' = freed \cup {Top.cenv}
    /\ st' = [st EXCEPT ![Top.nd.id] = 0]
    /\ Pop /\ Return(FALSE)
    /\ UNCHANGED <<code, saved, env, cut, out>>

-----------------------------------------------------------------------------
Next == \/ ExecUnify \/ ExecCut \/ ExecWrite \/ ExecIs \/ ExecGt \/ ExecConst
        \/ ExecSeq \/ SeqGoal \/ SeqFails \/ SeqResumesCall \/ SeqCallAgain \/ SeqCallExhausted
        \/ SeqResumesAlt \/ SeqAltDone
        \/ ExecAlt \/ AltLeft \/ AltRight
        \/ ExecChoice \/ TryClause \/ ChoiceEmpty \/ ClauseSucceeds \/ ClauseFails
        \/ CallFailsAtOnce \/ ExecCall \/ CallSucceeds \/ CallFails

Spec == Init /\ [][Next]_vars
FairSpec == Spec /\ WF_vars(Next)

Done == k = <<>> /\ ctl.at # "exec"

-----------------------------------------------------------------------------
\* The state is well typed: what is dereferenced, unwound, restored or resumed is there, in every
\* program.  A call that is marked as having a solution has kept its environments, what the trail
\* holds is bound, and no mark is above the trail.
TypeOK ==
    /\ \A nd \in code.nodes : nd.op = "CALL" /\ st[nd.id] = 1 => saved[nd.id] # NoCall
    /\ \A i \in DOMAIN ref : ref[i] = NULL \/ ref[i].ref \in 0 .. Len(ref)
    /\ \A i \in DOMAIN trail : trail[i] \in DOMAIN ref /\ ref[trail[i]] # NULL
    /\ genv \in DOMAIN env /\ freed \subseteq DOMAIN env /\ cut \in BOOLEAN
    /\ \A i \in DOMAIN k : k[i].mark <= Len(trail)
    /\ ctl.at \in {"exec", "ok", "fail", "back", "try"}

\* The environment what a frame runs has to be in, and the one the i-th frame was made in.
Inside(f) == IF f.nd.op = "CALL" THEN f.cenv
             ELSE IF f.mode = "call" THEN f.cs.cenv ELSE f.env
Around(i) == IF i = 1 THEN 1 ELSE Inside(k[i - 1])

\* Whatever fails, is resumed or is cut, the current environment is never one that a failed call
\* has freed, nor is one that a call could be resumed into by the sequence that is running.
EnvIsLive ==
    /\ genv \notin freed
    /\ k # <<>> /\ Top.nd.op = "SEQ" =>
          \A j \in Found(Top) : Top.nd.c[j].op = "CALL" =>
              {saved[Top.nd.c[j].id].cenv, saved[Top.nd.c[j].id].senv} \cap freed = {}

\* In a program without recursion, no goal runs in an environment that was given back, and every
\* goal of a clause runs in the environment its call made, however often calls of the same
\* predicate have been made and resumed in between.
EnvIsOwn ==
    \/ EnvIsLive /\ genv = Around(Len(k) + 1) /\ \A i \in DOMAIN k : k[i].env = Around(i)
    \/ Recursive(code)

\* Resuming a call of a program without recursion takes back everything that was bound since it
\* was made: the variables there were then have the values they had then.
ResumeRestores ==
    ctl.at = "exec" /\ k # <<>> /\ Top.nd.op = "SEQ" /\ Top.mode = "call" =>
        \/ \A i \in DOMAIN Top.cs.store : ref[i] = Top.cs.store[i]
        \/ Recursive(code)
=============================================================================

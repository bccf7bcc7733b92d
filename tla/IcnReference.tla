---------------------------- MODULE IcnReference ----------------------------
(***************************************************************************)
(* What an Icon program means: the reference the engine is compared with.  *)
(* An expression has results, one after the other; what surrounds it takes *)
(* a result and may ask for the next, or be content with one.              *)
(*                                                                         *)
(* Ev evaluates expression e in state s for continuation K, a sequence of  *)
(* what is still to be done with a result.  When K is done (empty) the     *)
(* result is got and no other is asked for; when it fails, Ev goes on to   *)
(* the next result, in the state the failure left: assignments and output  *)
(* are not taken back.                                                     *)
(***************************************************************************)
EXTENDS IcnProgram

CONSTANT Fuel       \* bound: loop steps and calls of a program whose meaning is worked out

Number(n)  == [t |-> "int", n |-> n]
NullValue  == [t |-> "null", n |-> 0]
Ref(s, x)  == [t |-> "ref", n |-> 0, x |-> x, d |-> s.cur]

\* The outcome of an evaluation: how it ended, a value, the state, the limit that was used up.
Outcome(how, v, s) == [how |-> how, v |-> v, s |-> s, lim |-> 0]
Fail(s) == Outcome("fail", NullValue, s)
Burn(s) == [s EXCEPT !.fuel = @ - 1]

Static(q, s, d, x) == x \in Statics(q[s.envs[d].proc])
Deref(q, s, v) ==
    IF v.t # "ref" THEN v
    ELSE IF Static(q, s, v.d, v.x) THEN s.static[<<s.envs[v.d].proc, v.x>>] ELSE s.envs[v.d].env[v.x]
Put(q, s, r, v) ==
    IF Static(q, s, r.d, r.x) THEN [s EXCEPT !.static[<<s.envs[r.d].proc, r.x>>] = v]
                              ELSE [s EXCEPT !.envs[r.d].env[r.x] = v]

Activation(q, f, args) ==
    [proc |-> f,
     env |-> [x \in Scope(q[f]) |->
                LET i == {j \in DOMAIN q[f].params : q[f].params[j] = x /\ j <= Len(args)}
                IN IF i = {} THEN NullValue ELSE args[CHOOSE j \in i : TRUE]]]

Compute(o, l, r) == IF o = "+" THEN l.n + r.n ELSE l.n - r.n
Holds(o, l, r)   == CASE o = "<" -> l.n < r.n [] o = ">" -> l.n > r.n [] o = "=" -> l.n = r.n

Numbers(vals) == \A v \in vals : v.t = "int"

Frame(do, e, vs, d) == [do |-> do, e |-> e, vs |-> vs, d |-> d]

\* Operations on the values of all their operands, which are evaluated from left to right.
Operands(e) == IF e.op \in {"ASSIGN", "AUGOP"} THEN <<e.c[2]>> ELSE e.c
Strict == {"ASSIGN", "AUGOP", "SWAP", "BINOP", "NONNULL", "CALL", "TO", "TO_BY"}

RECURSIVE Do(_, _, _, _, _)
Ev(q, e, s, K)            == Do(q, "evaluate", <<e>>, s, K)             \* an expression
Ap(q, v, s, K)            == Do(q, "hand on", <<v>>, s, K)              \* a result
Each(q, lo, hi, by, s, K) == Do(q, "each", <<lo, hi, by>>, s, K)        \* lo, lo + by, ..., up to hi
Arms(q, arms, s, K)       == Do(q, "arms", <<arms>>, s, K)              \* one expression after the other
Loop(q, e, s, K)          == Do(q, "loop", <<e>>, s, K)                 \* until it ends
Cases(q, sel, c, s, K)    == Do(q, "cases", <<sel, c>>, s, K)           \* pairs of a key and an expression
Statements(q, body, s, K) == Do(q, "body", <<body>>, s, K)              \* of a procedure

\* One result, no more.
Once(q, e, s) == Ev(q, e, s, <<>>)
Goes(r) == r.how \in {"got", "fail"}

\* Do the operation on these operands.
Apply(q, e, vs, s, K) ==
    LET val(i) == Deref(q, s, vs[i])
        x      == Ref(s, e.c[1].x)
        vals   == {val(i) : i \in DOMAIN vs} \cup IF e.op = "AUGOP" THEN {Deref(q, s, x)} ELSE {}
    IN CASE e.op \in {"BINOP", "AUGOP", "TO", "TO_BY"} /\ ~Numbers(vals) -> Outcome("err", NullValue, s)
         [] e.op = "ASSIGN"  -> Ap(q, x, Put(q, s, x, val(1)), K)
         [] e.op = "AUGOP"   -> Ap(q, x, Put(q, s, x, Number(Compute(e.x, Deref(q, s, x), val(1)))), K)
         [] e.op = "SWAP"    -> Ap(q, x, Put(q, Put(q, s, vs[1], val(2)), vs[2], val(1)), K)
         [] e.op = "NONNULL" -> IF val(1) = NullValue THEN Fail(s) ELSE Ap(q, vs[1], s, K)
         [] e.op = "TO"      -> Each(q, val(1).n, val(2).n, 1, s, K)
         [] e.op = "TO_BY"   -> Each(q, val(1).n, val(2).n, val(3).n, s, K)
         [] e.op = "BINOP"   -> IF e.x \notin Relops THEN Ap(q, Number(Compute(e.x, val(1), val(2))), s, K)
                                ELSE IF Holds(e.x, val(1), val(2)) THEN Ap(q, val(2), s, K) ELSE Fail(s)
         [] e.op = "CALL" ->
              LET args == [i \in DOMAIN vs |-> val(i)]
                  in   == [Burn(s) EXCEPT !.envs = Append(@, Activation(q, e.x, args)), !.cur = Len(s.envs) + 1]
                  r    == Statements(q, q[e.x].body, in, <<Frame("yield", e, <<>>, s.cur)>> \o K)
              IN IF e.x = "write" THEN Ap(q, vs[Len(vs)], [s EXCEPT !.out = Append(@, args)], K)
                 ELSE IF e.x \notin DOMAIN q THEN Outcome("err", NullValue, s)
                 ELSE IF r.s.cur # in.cur THEN r
                 ELSE CASE r.how = "return" -> Ap(q, r.v, [r.s EXCEPT !.cur = s.cur], K)
                        [] r.how = "pfail"  -> Fail([r.s EXCEPT !.cur = s.cur])
                        [] OTHER            -> r

Evaluate(q, e, s, K) ==
    LET with(do) == <<Frame(do, e, <<>>, s.cur)>> \o K
        first    == Once(q, e.c[1], s)
    IN CASE s.fuel = 0        -> Outcome("err", NullValue, s)
         [] e.op = "LIT_I"    -> Ap(q, Number(e.n), s, K)
         [] e.op = "SUCCEED"  -> Ap(q, NullValue, s, K)
         [] e.op = "VAR"      -> Ap(q, Ref(s, e.x), s, K)
         [] e.op \in Strict   -> IF Operands(e) = <<>> THEN Apply(q, e, <<>>, s, K)
                                 ELSE Ev(q, Operands(e)[1], s, with("operand"))
         [] e.op = "AND"      -> Ev(q, e.c[1], s, with("and"))
         [] e.op = "ALT"      -> Arms(q, e.c, s, K)
         [] e.op = "IF"       -> IF first.how = "got" THEN Ev(q, e.c[2], first.s, K)
                                 ELSE IF first.how = "fail" /\ Len(e.c) = 3 THEN Ev(q, e.c[3], first.s, K)
                                 ELSE first
         [] e.op = "NOT"      -> IF first.how = "fail" THEN Ap(q, NullValue, first.s, K)
                                 ELSE IF first.how = "got" THEN Fail(first.s) ELSE first
         [] e.op = "CASE"     -> IF first.how = "got" THEN Cases(q, Deref(q, first.s, first.v), Tail(e.c), first.s, K)
                                 ELSE first
         [] e.op = "SEQ_EXPR" ->
              IF Len(e.c) = 1 THEN Ev(q, e.c[1], s, K)
              ELSE IF Goes(first) THEN Ev(q, [e EXCEPT !.c = Tail(@)], first.s, K) ELSE first
         [] e.op = "LIMIT"    ->
              LET max == Once(q, e.c[2], s)
                  n   == Deref(q, max.s, max.v).n
                  id  == Len(s.lims) + 1
                  r   == Ev(q, e.c[1], [max.s EXCEPT !.lims = Append(@, n)],
                            <<Frame("limit", e, <<>>, id)>> \o K)
              IN IF max.how # "got" THEN max ELSE IF n <= 0 THEN Fail(max.s)
                 ELSE IF r.how = "lim" /\ r.lim = id THEN Fail(r.s) ELSE r
         [] e.op = "EVERY"    ->
              LET r == Ev(q, e.c[1], s, with("do"))
              IN IF r.how = "break" THEN Ap(q, NullValue, r.s, K) ELSE r
         [] e.op \in {"WHILE", "UNTIL", "REPEAT"} -> Loop(q, e, s, K)
         [] e.op = "INITIAL"  ->
              LET p == s.envs[s.cur].proc
              IN IF p \in s.begun THEN Fail(s) ELSE Once(q, e.c[1], [s EXCEPT !.begun = @ \cup {p}])
         [] e.op = "RETURN"   -> IF first.how = "got"
                                 THEN Outcome("return", Deref(q, first.s, first.v), first.s)
                                 ELSE IF first.how = "fail" THEN Outcome("pfail", NullValue, first.s) ELSE first
         [] e.op = "FAIL"     -> Outcome("pfail", NullValue, s)
         [] e.op = "BREAK"    -> Outcome("break", NullValue, s)
         [] e.op = "NEXT"     -> Outcome("next", NullValue, s)

\* Hand a result on.
HandOn(q, v, s, K) ==
    IF K = <<>> THEN Outcome("got", v, s)
    ELSE LET f    == Head(K)
             rest == Tail(K)
             vs   == Append(f.vs, v)
         IN CASE f.do = "operand" ->
                   IF Len(vs) = Len(Operands(f.e)) THEN Apply(q, f.e, vs, s, rest)
                   ELSE Ev(q, Operands(f.e)[Len(vs) + 1], s, <<[f EXCEPT !.vs = vs]>> \o rest)
              [] f.do = "and"   -> Ev(q, f.e.c[2], s, rest)
              [] f.do = "limit" ->
                   LET left == s.lims[f.d] - 1
                       r    == Ap(q, v, [s EXCEPT !.lims[f.d] = left], rest)
                   IN IF r.how = "fail" /\ left = 0 THEN [r EXCEPT !.how = "lim", !.lim = f.d] ELSE r
              [] f.do = "do" ->
                   LET r == IF Len(f.e.c) = 2 THEN Once(q, f.e.c[2], s) ELSE Fail(s)
                   IN IF Goes(r) \/ r.how = "next" THEN Fail(Burn(r.s)) ELSE r
              [] f.do = "yield" ->
                   LET r == Ap(q, Deref(q, s, v), [s EXCEPT !.cur = f.d], rest)
                   IN IF r.how = "fail" THEN [r EXCEPT !.s.cur = s.cur] ELSE r

DoEach(q, lo, hi, by, s, K) ==
    IF lo > hi THEN Fail(s)
    ELSE LET r == Ap(q, Number(lo), s, K)
         IN IF r.how = "fail" THEN Each(q, lo + by, hi, by, r.s, K) ELSE r

DoArms(q, arms, s, K) ==
    IF arms = <<>> THEN Fail(s)
    ELSE LET r == Ev(q, Head(arms), s, K)
         IN IF r.how = "fail" THEN Arms(q, Tail(arms), r.s, K) ELSE r

DoLoop(q, e, s, K) ==
    LET head == Once(q, e.c[1], s)
        over == e.op # "REPEAT" /\ head.how = IF e.op = "WHILE" THEN "fail" ELSE "got"
        body == IF Len(e.c) = 2 /\ Goes(head) THEN Once(q, e.c[2], head.s) ELSE head
    IN CASE over                              -> Fail(head.s)
         [] ~over /\ body.how = "break"       -> Ap(q, NullValue, body.s, K)
         [] ~over /\ (Goes(body) \/ body.how = "next") ->
              IF s.fuel = 0 THEN Outcome("err", NullValue, s) ELSE Loop(q, e, Burn(body.s), K)
         [] OTHER                             -> body

DoCases(q, sel, c, s, K) ==
    IF c = <<>> THEN Fail(s)
    ELSE IF Len(c) = 1 THEN Ev(q, c[1], s, K)
    ELSE LET key == Once(q, c[1], s)
         IN IF ~Goes(key) THEN key
            ELSE IF key.how = "got" /\ Deref(q, key.s, key.v) = sel THEN Ev(q, c[2], key.s, K)
            ELSE Cases(q, sel, Tail(Tail(c)), key.s, K)

\* The body of a procedure; what it suspends goes to K, in the caller's activation.
DoStatements(q, body, s, K) ==
    IF body = <<>> THEN Outcome("pfail", NullValue, s)
    ELSE LET st == Head(body)
             r  == IF st.op = "SUSPEND" THEN Ev(q, st.c[1], s, K) ELSE Once(q, st, s)
         IN IF r.how = "fail" \/ (r.how = "got" /\ st.op # "SUSPEND")
            THEN Statements(q, Tail(body), r.s, K) ELSE r

Do(q, what, a, s, K) ==
    CASE what = "evaluate" -> Evaluate(q, a[1], s, K)
      [] what = "hand on"  -> HandOn(q, a[1], s, K)
      [] what = "each"     -> DoEach(q, a[1], a[2], a[3], s, K)
      [] what = "arms"     -> DoArms(q, a[1], s, K)
      [] what = "loop"     -> DoLoop(q, a[1], s, K)
      [] what = "cases"    -> DoCases(q, a[1], a[2], s, K)
      [] what = "body"     -> DoStatements(q, a[1], s, K)

\* What the program writes, and whether its meaning could be worked out.
Meaning(q) ==
    LET s == [envs |-> <<Activation(q, "main", <<>>)>>, cur |-> 1, begun |-> {}, out |-> <<>>,
              lims |-> <<>>, fuel |-> Fuel,
              static |-> [fx \in UNION {{f} \X Statics(q[f]) : f \in DOMAIN q} |-> NullValue]]
        r == Statements(q, q["main"].body, s, <<>>)
    IN [out |-> r.s.out, err |-> r.how = "err"]
=============================================================================

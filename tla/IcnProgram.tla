----------------------------- MODULE IcnProgram -----------------------------
(***************************************************************************)
(* Icon programs and the graphs they are lowered to                        *)
(* (src/lower/lower_icn.c).  An expression is a tree; most trees become    *)
(* one node of the same kind, so trees and nodes share the names of the    *)
(* nodes.  A procedure with a suspend in it gets no graph: its body is     *)
(* code of the stack machine, run by a generator.                          *)
(***************************************************************************)
EXTENDS Integers, Sequences, FiniteSets
LOCAL INSTANCE IcnGraph

-----------------------------------------------------------------------------
(* Trees: an operation, operands, a number and a name.                     *)

Tree(op, c, n, x) == [op |-> op, c |-> c, n |-> n, x |-> x]

Lit(n)          == Tree("LIT_I", <<>>, n, "")
Var(x)          == Tree("VAR", <<>>, 0, x)
Assign(x, e)    == Tree("ASSIGN", <<Var(x), e>>, 0, "")
Swap(x, y)      == Tree("SWAP", <<Var(x), Var(y)>>, 0, "")
Bin(o, a, b)    == Tree("BINOP", <<a, b>>, 0, o)
Aug(o, x, e)    == Tree("AUGOP", <<Var(x), e>>, 0, o)
Fnc(f, args)    == Tree("CALL", args, 0, f)
If(c, t, e)     == Tree("IF", <<c, t, e>>, 0, "")
When(c, t)      == Tree("IF", <<c, t>>, 0, "")
And(a, b)       == Tree("AND", <<a, b>>, 0, "")
To(a, b)        == Tree("TO", <<a, b>>, 0, "")
ToBy(a, b, s)   == Tree("TO_BY", <<a, b, s>>, 0, "")
Alt(arms)       == Tree("ALT", arms, 0, "")
Limit(e, n)     == Tree("LIMIT", <<e, n>>, 0, "")
Not(e)          == Tree("NOT", <<e>>, 0, "")
NonNull(e)      == Tree("NONNULL", <<e>>, 0, "")
Case(c)         == Tree("CASE", c, 0, "")
Block(s)        == Tree("SEQ_EXPR", s, 0, "")
Every(e, b)     == Tree("EVERY", <<e, b>>, 0, "")
EveryOf(e)      == Tree("EVERY", <<e>>, 0, "")
While(c, b)     == Tree("WHILE", <<c, b>>, 0, "")
Until(c, b)     == Tree("UNTIL", <<c, b>>, 0, "")
Repeat(b)       == Tree("REPEAT", <<b>>, 0, "")
Ret(e)          == Tree("RETURN", <<e>>, 0, "")
Suspend(e)      == Tree("SUSPEND", <<e>>, 0, "")
Initially(e)    == Tree("INITIAL", <<e>>, 0, "")
Break           == Tree("BREAK", <<>>, 0, "")
NextLoop        == Tree("NEXT", <<>>, 0, "")
ProcFail        == Tree("FAIL", <<>>, 0, "")
Null            == Tree("SUCCEED", <<>>, 0, "")
Write(e)        == Fnc("write", <<e>>)

Relops == {"<", ">", "="}

Elements(s) == {s[i] : i \in DOMAIN s}

RECURSIVE Subtrees(_)
Subtrees(e) == {e} \cup UNION {Subtrees(e.c[i]) : i \in DOMAIN e.c}
AllOf(body) == UNION {Subtrees(s) : s \in Elements(body)}

-----------------------------------------------------------------------------
(* Procedures: parameters and a body.                                      *)

Proc(params, body) == [params |-> params, body |-> body]
IsGenerator(p) == \E e \in AllOf(p.body) : e.op = "SUSPEND"

\* What `initial' assigns is static, the other variables are local.
Statics(p) == {e.c[1].c[1].x : e \in {s \in Elements(p.body) : s.op = "INITIAL" /\ s.c[1].op = "ASSIGN"}}
Scope(p)   == (Elements(p.params) \cup {e.x : e \in {v \in AllOf(p.body) : v.op = "VAR"}}) \ Statics(p)
Names(q)   == UNION {Scope(q[f]) \cup Statics(q[f]) : f \in DOMAIN q}

\* The scope in order: parameters, then variables as they come outside `initial', each once.
Adding(sc, x) == IF x \in Elements(sc) THEN sc ELSE Append(sc, x)
RECURSIVE expression_scope_walk(_, _)
expression_scope_walk(sc, e) ==
    LET walk[i \in 0 .. Len(e.c)] == IF i = 0 THEN sc ELSE expression_scope_walk(walk[i - 1], e.c[i])
    IN CASE e.op = "INITIAL" -> sc
         [] e.op = "VAR"     -> Adding(sc, e.x)
         [] OTHER            -> walk[Len(e.c)]
build_proc_scope(p) ==
    SelectSeq(expression_scope_walk(p.params, Block(p.body)), LAMBDA x : x \notin Statics(p))

RECURSIVE is_suspendable(_)
is_suspendable(e) ==
    \/ e.op \in {"TO", "TO_BY", "ALT", "SUSPEND", "LIMIT", "SEQ_EXPR", "CALL"}
    \/ e.op = "ASSIGN" /\ is_suspendable(e.c[2])
    \/ e.op \in {"BINOP", "NONNULL"} /\ \E i \in DOMAIN e.c : is_suspendable(e.c[i])

-----------------------------------------------------------------------------
(* Nodes, each with its id.                                                *)

Made(id, nd) == {<<id, nd>>}

\* Most trees become a node of their kind; `to' between literals keeps its bounds, an operator on what
\* may have several results becomes a node of another kind, `&' an if; x +:= e reads x once more.
RECURSIVE Lower(_, _)
Lower(e, id) ==
    LET nd(op) == Node(op, Len(e.c), e.n, e.x)
        parts  == UNION {Lower(e.c[i], Below(id, i)) : i \in DOMAIN e.c}
    IN CASE e.op = "TO" /\ e.c[1].op = "LIT_I" /\ e.c[2].op = "LIT_I" ->
              Made(id, [Node("TO", 0, e.n, e.x) EXCEPT !.lo = e.c[1].n, !.hi = e.c[2].n])
         [] e.op = "AUGOP" ->
              LET sum == Below(id, 2)
              IN Made(id, Node("ASSIGN", 2, 0, "")) \cup Lower(e.c[1], Below(id, 1))
                 \cup Made(sum, Node("BINOP", 2, 0, e.x))
                 \cup Lower(e.c[1], Below(sum, 1)) \cup Lower(e.c[2], Below(sum, 2))
         [] e.op = "BINOP" /\ is_suspendable(e) -> Made(id, nd("BINOP_GEN")) \cup parts
         [] e.op = "AND" -> Made(id, nd("IF")) \cup parts
         [] OTHER -> Made(id, nd(e.op)) \cup parts

\* lower_icn_proc_body, for the procedures that get a graph.
lower_icn_proc_body(q, f) == Lower(Tree("SEQ", q[f].body, 0, ""), Root(f))

\* What a statement of a generator becomes: operands by slot.
SlotIn(sc, x) == CHOOSE i \in DOMAIN sc : sc[i] = x
SmOperand(sc, e) == IF e.op = "VAR" THEN Slot(SlotIn(sc, e.x)) ELSE Literal(e.n)
SmOperands(sc, e) == IF e.op = "BINOP" THEN <<SmOperand(sc, e.c[1]), SmOperand(sc, e.c[2])>> ELSE <<SmOperand(sc, e)>>
SmStatement(sc, s) ==
    IF s.op = "ASSIGN" THEN [op |-> s.op, slot |-> SlotIn(sc, s.c[1].x), c |-> SmOperands(sc, s.c[2]), x |-> s.c[2].x]
                       ELSE [op |-> s.op, slot |-> NoSlot, c |-> SmOperands(sc, s.c[1]), x |-> s.c[1].x]

Compiled(p) ==
    LET sc == build_proc_scope(p)
    IN [nparams |-> Len(p.params), sc |-> sc,
        body |-> IF IsGenerator(p) THEN [i \in DOMAIN p.body |-> SmStatement(sc, p.body[i])] ELSE <<>>]

Code(q) ==
    LET made == UNION {lower_icn_proc_body(q, f) : f \in {g \in DOMAIN q : ~IsGenerator(q[g])}}
    IN Lowered(q, [f \in DOMAIN q |-> Compiled(q[f])],
               [id \in {n[1] : n \in made} |-> (CHOOSE n \in made : n[1] = id)[2]],
               Names(q))
=============================================================================

------------------------------ MODULE IcnGraph ------------------------------
(***************************************************************************)
(* The nodes of an Icon program as lower_icn.c makes them and ir_exec.c    *)
(* evaluates them, and the procedures they belong to.  A node's id is a    *)
(* procedure and a path: << >> the body, <<j>> its j-th statement, and so  *)
(* on; `at' has the node of each id.  A procedure without nodes is a       *)
(* generator, which the stack machine runs.                                *)
(***************************************************************************)
EXTENDS Integers, Sequences

\* A kind, the number of operands, a number, a name, and the bounds of a `to' between literals.
Node(op, kids, n, x) == [op |-> op, kids |-> kids, n |-> n, x |-> x, lo |-> 0, hi |-> 0]

Root(f) == <<f, <<>>>>
Below(id, j) == <<id[1], Append(id[2], j)>>
IsBelow(id, d) == /\ d[1] = id[1] /\ Len(id[2]) <= Len(d[2])
                  /\ SubSeq(d[2], 1, Len(id[2])) = id[2]

\* What the machine is given: the slot of a variable, or an integer.
NoSlot == 0
Slot(s)    == [slot |-> s, n |-> 0]
Literal(i) == [slot |-> NoSlot, n |-> i]

\* A lowered program: what it was made from, its procedures, its nodes, and its variables' names.
Lowered(source, proc, at, names) == [source |-> source, proc |-> proc, at |-> at, names |-> names]

HasGraph(c, f) == f \in DOMAIN c.proc /\ Root(f) \in DOMAIN c.at
Suspends(c, f) == f \in DOMAIN c.proc /\ Root(f) \notin DOMAIN c.at

Loops  == {"EVERY", "WHILE", "UNTIL", "REPEAT"}
Strict == {"ASSIGN", "SWAP", "BINOP", "NONNULL", "CALL"}
Kinds  == Loops \cup Strict \cup {"LIT_I", "VAR", "SUCCEED", "FAIL", "BREAK", "NEXT", "SEQ", "SEQ_EXPR",
          "RETURN", "INITIAL", "IF", "NOT", "CASE", "TO", "TO_BY", "LIMIT", "ALT", "BINOP_GEN"}
Signs  == {"+", "-", "<", ">", "="}

\* How many operands a node has.
Arity(op, kids) ==
    CASE op \in {"NONNULL", "NOT", "RETURN", "INITIAL", "REPEAT"} -> kids = 1
      [] op \in {"ASSIGN", "SWAP", "BINOP", "BINOP_GEN", "LIMIT", "WHILE", "UNTIL"} -> kids = 2
      [] op = "TO"    -> kids = 0 \/ kids = 2
      [] op = "TO_BY" -> kids = 3
      [] op = "EVERY" -> kids = 1 \/ kids = 2
      [] op = "IF"    -> kids = 2 \/ kids = 3
      [] op \in {"SEQ", "SEQ_EXPR", "ALT", "CASE"} -> kids > 0
      [] OTHER -> TRUE

IsNode(c, id) ==
    LET nd == c.at[id] IN
    /\ id[1] \in DOMAIN c.proc
    /\ nd.op \in Kinds /\ nd.kids \in Nat /\ {nd.n, nd.lo, nd.hi} \subseteq Int
    /\ Arity(nd.op, nd.kids)
    /\ \A j \in 1 .. nd.kids : Below(id, j) \in DOMAIN c.at
    /\ nd.op = "VAR" => nd.x \in c.names
    /\ nd.op \in {"ASSIGN", "SWAP"} => c.at[Below(id, 1)].op = "VAR"
    /\ nd.op = "SWAP" => c.at[Below(id, 2)].op = "VAR"
    /\ nd.op \in {"BINOP", "BINOP_GEN"} => nd.x \in Signs

\* A statement of a generator: a value is kept in a slot, or handed out; at most one operation.
IsStatement(s) ==
    /\ s.op \in {"ASSIGN", "SUSPEND"} /\ s.slot \in Nat
    /\ Len(s.c) \in {1, 2} /\ \A i \in 1 .. Len(s.c) : s.c[i].slot \in Nat /\ s.c[i].n \in Int
    /\ Len(s.c) = 2 => s.x \in {"+", "-"}

\* nparams, lower_sc (where no parameter is missing), and the code of a generator.
IsProc(p) ==
    /\ p.nparams \in Nat /\ p.nparams <= Len(p.sc) /\ p.sc \in Seq(STRING)
    /\ Len(p.body) \in Nat /\ \A i \in 1 .. Len(p.body) : IsStatement(p.body[i])

IsLowered(c) ==
    /\ HasGraph(c, "main")
    /\ \A f \in DOMAIN c.proc :
          /\ IsProc(c.proc[f])
          /\ Suspends(c, f) => \E i \in 1 .. Len(c.proc[f].body) : c.proc[f].body[i].op = "SUSPEND"
    /\ \A id \in DOMAIN c.at : IsNode(c, id)

\* The kinds whose node keeps enough to be entered again for another value.
\* Mutant: `to ... by' is missing from the list.
GenKindNoToBy(nd) == nd.op \in {"TO", "ALT", "BINOP_GEN"}
GenKind(nd) == nd.op \in {"TO", "TO_BY", "ALT", "BINOP_GEN"}

\* Whether `every' runs its expression once only.
ir_is_single_shot(c, id) ==
    \A d \in DOMAIN c.at : IsBelow(id, d) =>
        /\ c.at[d].op \notin {"TO", "TO_BY", "BINOP_GEN", "ALT", "LIMIT", "REPEAT"}
        /\ c.at[d].op = "CALL" => ~Suspends(c, c.at[d].x)
=============================================================================

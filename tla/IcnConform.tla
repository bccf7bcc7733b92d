----------------------------- MODULE IcnConform -----------------------------
(***************************************************************************)
(* How far the engine computes what a program means.  A node that has      *)
(* results left is entered where it stopped, wherever it is evaluated      *)
(* next; only some nodes ask their operands for more; blocks remember that *)
(* they were run.  Exact names the programs that are run as Icon does:     *)
(* they are what the run is about, and its conditions are what a program   *)
(* has to keep to.                                                         *)
(***************************************************************************)
EXTENDS IcnEngine, IcnProgram

CONSTANT Fuel

ASSUME LoweredPrograms == \A c \in Codes : c = Code(c.source)

src == code.source

M == INSTANCE IcnReference

User(q, e)      == e.op = "CALL" /\ e.x \in DOMAIN q
Generates(q, e) == User(q, e) /\ IsGenerator(q[e.x])
Simple(e)       == e.op \in {"LIT_I", "VAR", "SUCCEED"}
GeneratorOf(e)  == e.op \in {"TO", "TO_BY", "ALT"} \/ (e.op = "BINOP" /\ is_suspendable(e))

\* What ir_is_single_shot says of its nodes.
Once(q, e) == \A d \in Subtrees(e) : ~GeneratorOf(d) /\ ~Generates(q, d) /\ d.op \notin {"LIMIT", "REPEAT"}

\* A key without a result is the null value to the engine.
LiteralKeys(e) == \A i \in DOMAIN e.c : i % 2 = 0 /\ i < Len(e.c) => e.c[i].op = "LIT_I"

\* What may change a variable: an operand to its left would be read too early.
Quiet(q, e) == \A d \in Subtrees(e) : d.op \notin {"ASSIGN", "AUGOP", "SWAP"} /\ ~User(q, d)
QuietAfterFirst(q, e) == \A i \in DOMAIN e.c : i = 1 \/ Quiet(q, e.c[i])

\* May have a variable for its result, which Icon reads when it is used and the engine at once.
RECURSIVE Refers(_)
Refers(e) ==
    \/ e.op \in {"VAR", "ASSIGN", "AUGOP", "SWAP"}
    \/ e.op \in {"ALT", "NONNULL", "LIMIT", "IF", "AND", "CASE", "SEQ_EXPR"} /\ \E i \in DOMAIN e.c : Refers(e.c[i])

RECURSIVE Single(_, _), Several(_, _), CannotFail(_, _)

\* One result at most, and nothing kept from one evaluation to the next.
Single(q, e) ==
    \/ Simple(e)
    \/ /\ e.op \in {"ASSIGN", "SWAP", "NONNULL", "AND", "IF", "CASE"}
       /\ \A i \in DOMAIN e.c : Single(q, e.c[i])
       /\ e.op = "CASE" => LiteralKeys(e)
    \/ /\ e.op \in {"BINOP", "AUGOP", "CALL"} /\ QuietAfterFirst(q, e)
       /\ ~Generates(q, e) /\ ~GeneratorOf(e)
       /\ \A i \in DOMAIN e.c : Single(q, e.c[i])
    \/ e.op = "NOT" /\ (Single(q, e.c[1]) \/ (Several(q, e.c[1]) /\ GeneratorOf(e.c[1])))

\* Evaluated again and again it has all its results, in order, and then fails.
Several(q, e) ==
    LET single(i)  == Single(q, e.c[i])
        several(i) == Several(q, e.c[i])
        arm(i)     == several(i) /\ GeneratorOf(e.c[i])
    IN CASE e.op = "TO"    -> single(1) /\ single(2) /\ Quiet(q, e)
         [] e.op = "TO_BY" -> Simple(e.c[1]) /\ e.c[2].op = "LIT_I" /\ e.c[3].op = "LIT_I" /\ e.c[3].n > 0
         [] e.op = "ALT"   -> \A i \in DOMAIN e.c : single(i) \/ arm(i)
         [] e.op = "BINOP" -> /\ GeneratorOf(e) /\ Quiet(q, e.c[2])
                              /\ \/ \A i \in {1, 2} : Simple(e.c[i]) \/ (arm(i) /\ (i = 1 => ~Refers(e.c[1])))
                                 \/ \A i \in {1, 2} : single(i)
         [] e.op = "LIMIT" -> arm(1) /\ e.c[2].op = "LIT_I"
         [] e.op = "ASSIGN"  -> several(2)
         [] e.op = "AUGOP"   -> several(2) /\ Quiet(q, e.c[2])
         [] e.op = "NONNULL" -> several(1)
         [] e.op = "CALL"    ->
              IF Generates(q, e) THEN \A i \in DOMAIN e.c : Simple(e.c[i])
              ELSE \E i \in DOMAIN e.c : several(i) /\ \A j \in DOMAIN e.c \ {i} : Simple(e.c[j])
         [] e.op = "SEQ_EXPR" ->
              LET n == Len(e.c)
              IN several(n) /\ \A i \in 1 .. n - 1 : single(i) /\ CannotFail(q, e.c[i])
         [] OTHER -> FALSE

\* Has a result, or leaves the loop or the procedure.
CannotFail(q, e) ==
    \/ Simple(e) \/ e.op \in Loops \cup {"SWAP", "BREAK", "NEXT", "RETURN"}
    \/ e.op \in {"ASSIGN", "AUGOP", "SEQ_EXPR"} /\ CannotFail(q, e.c[Len(e.c)])
    \/ e.op = "IF" /\ Len(e.c) = 3 /\ CannotFail(q, e.c[2]) /\ CannotFail(q, e.c[3])
    \/ e.op = "ALT" /\ \E i \in DOMAIN e.c : CannotFail(q, e.c[i])
    \/ /\ \/ e.op = "BINOP" /\ e.x \notin Relops
          \/ e.op = "CALL" /\ e.x = "write"
          \/ User(q, e) /\ q[e.x].body[Len(q[e.x].body)].op = "RETURN"
       /\ \A i \in DOMAIN e.c : CannotFail(q, e.c[i])

\* Jumps of that kind that leave e, not a loop in it.
RECURSIVE Jumps(_, _)
Jumps(op, e) == e.op = op \/ (e.op \notin Loops /\ \E i \in DOMAIN e.c : Jumps(op, e.c[i]))

\* What may stand as a statement: `again' in a loop, where it is evaluated more than once, and
\* `block' where a block starts afresh.
RECURSIVE Statement(_, _, _, _)
Statement(q, e, again, block) ==
    LET value(d) == Single(q, d) \/ (~again /\ Several(q, d))
        body(i)  == Statement(q, e.c[i], TRUE, TRUE)
        part(i)  == Statement(q, e.c[i], again, ~again)
    IN CASE e.op = "EVERY" ->
              /\ Several(q, e.c[1]) \/ (Single(q, e.c[1]) /\ Once(q, e.c[1]))
              /\ Len(e.c) = 2 => body(2) /\ ~(again /\ Jumps("BREAK", e.c[2]))
         [] e.op \in {"WHILE", "UNTIL"} ->
              (Single(q, e.c[1]) \/ (Several(q, e.c[1]) /\ GeneratorOf(e.c[1]))) /\ body(2)
         [] e.op = "REPEAT" -> body(1) /\ CannotFail(q, e.c[1]) /\ ~Jumps("NEXT", e.c[1])
         [] e.op \in {"IF", "CASE"} ->
              /\ value(e.c[1]) /\ (e.op = "CASE" => LiteralKeys(e))
              /\ \A i \in DOMAIN e.c : i = 1 \/ part(i)
         [] e.op = "SEQ_EXPR" ->
              block /\ \A i \in DOMAIN e.c : part(i) /\ (i < Len(e.c) => CannotFail(q, e.c[i]))
         [] e.op \in {"BREAK", "NEXT"} -> again
         [] e.op = "RETURN" -> (Single(q, e.c[1]) \/ Several(q, e.c[1])) /\ CannotFail(q, e.c[1])
         [] OTHER -> value(e)

CallsOf(q, p) == {e \in AllOf(p.body) : User(q, e)}

RECURSIVE Reaches(_, _, _)
Reaches(q, f, n) ==
    IF n = 0 THEN {}
    ELSE LET next == {e.x : e \in CallsOf(q, q[f])}
         IN next \cup UNION {Reaches(q, g, n - 1) : g \in next}

NamesOf(p) == Scope(p) \cup Statics(p)
OtherNames(q, f) == UNION {NamesOf(q[g]) : g \in DOMAIN q \ {f}}

\* The only call of a generator in a procedure is asked by an `every' of its own for all results.
DrivesToEnd(q, f) ==
    LET body == q[f].body
        at   == {i \in DOMAIN body : \E e \in Subtrees(body[i]) : Generates(q, e)}
    IN at # {} =>
         /\ f \notin Reaches(q, f, Cardinality(DOMAIN q))
         /\ \E i \in at :
               /\ at = {i} /\ body[i].op = "EVERY" /\ Several(q, body[i].c[1])
               /\ \A e \in Subtrees(body[i]) : e.op \notin {"BREAK", "RETURN"}
               /\ Len(body[i].c) = 2 => \A e \in Subtrees(body[i].c[2]) : ~Generates(q, e)

\* The frame of a suspended generator hides the caller's variables: they have no value before it is
\* started.
HidesNothing(q, f) ==
    LET body == q[f].body
        at   == {i \in DOMAIN body : \E e \in Subtrees(body[i]) : Generates(q, e)}
    IN at # {} =>
         /\ \A i \in at : \A j \in 1 .. i - 1 : \A e \in Subtrees(body[j]) : e.op # "VAR"
         /\ Scope(q[f]) \cap OtherNames(q, f) = {} /\ q[f].params = <<>>

Exact(q) ==
    \A f \in DOMAIN q : LET body == q[f].body IN
        /\ IsGenerator(q[f]) \/ \A i \in DOMAIN body :
              \/ body[i].op = "INITIAL" /\ Single(q, body[i].c[1])
              \/ body[i].op = "FAIL" /\ i = Len(body)
              \/ Statement(q, body[i], FALSE, TRUE)
        /\ Statics(q[f]) \cap OtherNames(q, f) = {}
        /\ f \in Reaches(q, f, Cardinality(DOMAIN q)) =>
              \A e \in AllOf(body) : e.op \notin {"LIMIT", "TO_BY"}
                                     /\ (e.op = "TO" => e.c[1].op = "LIT_I" /\ e.c[2].op = "LIT_I")
        /\ DrivesToEnd(q, f) /\ HidesNothing(q, f)

-----------------------------------------------------------------------------
\* A program of the exact kind writes what Icon writes, in that order: operands are asked for more
\* results when and only when they should be, and nothing is entered half-way.
ExactOutput ==
    Ended /\ Exact(src) => LET meant == M!Meaning(src) IN meant.err \/ out = meant.out

\* ... and it ends.
ExactEnds == (k = <<>> /\ Exact(src) /\ ~M!Meaning(src).err) ~> Ended

\* Where generators are driven to their end by the procedure that starts them, the frame in use is
\* that of the innermost call whenever none is suspended.
FramesBalance ==
    (\A g \in DOMAIN gens : gens[g].over) /\ (\A f \in DOMAIN src : DrivesToEnd(src, f)) =>
        depth = 1 + Cardinality({i \in DOMAIN k : k[i].ph = "call"})
=============================================================================

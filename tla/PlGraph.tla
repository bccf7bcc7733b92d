------------------------------ MODULE PlGraph ------------------------------
(***************************************************************************)
(* The Byrd-box nodes of a Prolog program, as lower_pl.c makes them and    *)
(* ir_exec.c walks them.  A node's id is a predicate and a path: << >> the *)
(* choice between the clauses, <<c>> the sequence of clause c, <<c, j>>    *)
(* its j-th goal, and so on.                                               *)
(***************************************************************************)
EXTENDS Integers, Sequences

\* What a node is given: the slot of a variable, or an integer.
NoSlot == -1
Slot(s)    == [slot |-> s, n |-> 0]
Literal(i) == [slot |-> NoSlot, n |-> i]

Node(op, id, pred, args, c) == [op |-> op, id |-> id, pred |-> pred, args |-> args, c |-> c]
NoNode == Node("", <<"", <<>>>>, "", <<>>, <<>>)

\* A lowered program: what it was made from, the entry node of each predicate, the nodes of all.
Lowered(source, entry, nodes) == [source |-> source, entry |-> entry, nodes |-> nodes]

Inner == {"SEQ", "ALT", "CHOICE", "CALL"}
Leaf  == {"UNIFY", "WRITE", "IS", "GT", "CUT", "SUCCEED", "FAIL"}

ArgCount == [UNIFY |-> 2, WRITE |-> 1, IS |-> 3, GT |-> 2]

IsNode(nd, c, top) ==
    /\ nd.op \in Inner \cup Leaf
    /\ nd.id[2] \in Seq(Nat)
    /\ nd.args \in Seq([slot : NoSlot .. top, n : Int])
    /\ nd.op \in DOMAIN ArgCount => Len(nd.args) = ArgCount[nd.op]
    /\ nd.op = "CALL" => Len(nd.args) <= top + 1
    /\ nd.c \in Seq(c.nodes)
    /\ \A i \in DOMAIN nd.c : nd.c[i].id = <<nd.id[1], Append(nd.id[2], i)>>
    /\ nd.op = "SEQ" => nd.c # <<>>
    /\ nd.op = "ALT" => Len(nd.c) = 2

\* What the nodes of a lowered program keep to, with slots up to top.
IsLowered(c, top) ==
    /\ "main" \in DOMAIN c.entry
    /\ \A p \in DOMAIN c.entry : /\ c.entry[p] \in c.nodes
                                 /\ c.entry[p].op \in {"SEQ", "CHOICE"}
                                 /\ c.entry[p].id[1] = p
    /\ \A nd \in c.nodes : IsNode(nd, c, top)
    /\ \A m, nd \in c.nodes : m.id = nd.id => m = nd

\* Predicates that call each other in a circle.
Recursive(c) ==
    \E S \in SUBSET DOMAIN c.entry :
        /\ S # {}
        /\ \A p \in S : \E nd \in c.nodes : nd.op = "CALL" /\ nd.id[1] = p /\ nd.pred \in S

\* The nodes of the graph nd is the entry of: a choice's clauses have graphs of their own.
InGraph(id, nd) ==
    IF nd.op = "CHOICE" THEN id = nd.id
    ELSE /\ id[1] = nd.id[1] /\ Len(nd.id[2]) <= Len(id[2])
         /\ SubSeq(id[2], 1, Len(nd.id[2])) = nd.id[2]
=============================================================================

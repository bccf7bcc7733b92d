------------------------------ MODULE PatGraph ------------------------------
(***************************************************************************)
(* What lower/lower_pat_dcg.c hands to lower/ir_exec.c: patterns and the   *)
(* boxes of a graph.                                                       *)
(*                                                                         *)
(* A pattern is [t, arg, kids]: t names the box, arg is the literal, the   *)
(* character set, the number or the variable, kids are the operands.  A    *)
(* node is known by its path in the tree; the operand of an ARBNO is       *)
(* lowered into a graph of its own, named by the path of the ARBNO.        *)
(***************************************************************************)
EXTENDS Integers, Sequences, FiniteSets

Pat(t, arg, kids) == [t |-> t, arg |-> arg, kids |-> kids]

NullNode == <<0>>          \* a NULL port
TopGraph == <<>>           \* the graph BB_lower_pat returns
RootPath == <<1>>

\* Boxes that are their own beta: they may succeed again after a backtrack.
Resumable == {"ARB", "SPAN", "ARBNO"}

\* What build_node gives every graph: a port leads to a box of the same graph or to none, an ARBNO
\* has a graph of its own below it with an entry, and an argument is of the kind its box takes.
BoxesOf(nodes, blk) == {n \in DOMAIN nodes : nodes[n].blk = blk}
PortsOf(nd) == {nd.al, nd.ga, nd.om}
IsGraph(g) ==
    /\ DOMAIN g.nodes \subseteq Seq(Int) \ {NullNode} /\ IsFiniteSet(DOMAIN g.nodes)
    /\ g.entry \in BoxesOf(g.nodes, TopGraph)
    /\ \A n \in DOMAIN g.nodes :
         LET nd == g.nodes[n] IN
         /\ nd.blk \in Seq(Int) /\ Len(nd.blk) < Len(n)
         /\ PortsOf(nd) \subseteq BoxesOf(g.nodes, nd.blk) \cup {NullNode}
         /\ nd.t = "ARBNO" => nd.inner \in BoxesOf(g.nodes, n)
         /\ nd.t = "LIT" => Len(nd.arg) \in Nat
         /\ nd.t \in {"LEN", "TAB", "RTAB", "POS", "RPOS"} => nd.arg \in Int

\* The sets of boxes of one graph that no port leads out of.
ClosedSets(nodes, blk) ==
    {C \in SUBSET BoxesOf(nodes, blk) : \A n \in C : PortsOf(nodes[n]) \ {NullNode} \subseteq C}

\* The boxes that control can come to once it has come to a port, given the closed sets.
Beyond(Cs, port) ==
    IF port = NullNode THEN {} ELSE {m \in UNION Cs : \A C \in Cs : port \in C => m \in C}

\* A pattern is steady when no box that moves the cursor can be entered again once it has
\* matched, but one that may match again, and that one only while no other box has moved the
\* cursor since.
Movers == {"LIT", "ANY", "NOTANY", "LEN", "REM", "BREAK", "TAB", "RTAB"} \cup Resumable
SteadyBoxes(nodes, Cs) ==
    \A n \in {x \in UNION Cs : nodes[x].t \in Movers} :
        LET after == Beyond(Cs, nodes[n].ga) IN
        /\ nodes[n].t \notin Resumable => n \notin after
        /\ \A m \in {x \in after \ {n} : nodes[x].t \in Movers} :
             /\ n \notin Beyond(Cs, nodes[m].ga)
             /\ nodes[m].t \in Resumable => n \notin Beyond(Cs, nodes[m].om)
Steady(nodes) ==
    \A blk \in {nodes[n].blk : n \in DOMAIN nodes} : SteadyBoxes(nodes, ClosedSets(nodes, blk))
=============================================================================

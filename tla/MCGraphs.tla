------------------------------- MODULE MCGraphs -------------------------------
(***************************************************************************)
(* Graphs of three nodes and up to three edges, with and without a         *)
(* condition and in any order: loops of a call, dead ends, several start   *)
(* nodes or none that ends, and an edge to a node that is gone.  Graphs of *)
(* four nodes with any of eight edges: two ways to a node, cycles of one   *)
(* to four nodes that can be reached or not, and one through the end.      *)
(* And the graph without nodes.                                            *)
(***************************************************************************)
EXTENDS WorkflowHints, SequencesExt

Edge(from, to, tests) == [from : {from}, to : to, test : tests]

SmallTypes ==
    {<<"start", called, other>> : called \in {"employee", "openapi", "skill"},
                                  other \in {"start", "end"}}
First == Edge(1, {2, 3}, BOOLEAN)
Others == First \cup Edge(2, 1..3, BOOLEAN)
                \cup Edge(3, {2}, {TRUE}) \cup Edge(3, {5}, {FALSE})
SmallEdges == {<<e>> \o rest : e \in First, rest \in BoundedSeq(Others, 2)}

LargeTypes == {<<"start", "knowledge", "condition", "end">>}
Joins ==
    <<<<1, 2>>, <<1, 3>>, <<2, 3>>, <<3, 2>>, <<2, 4>>, <<3, 3>>, <<4, 1>>, <<4, 2>>>>
LargeEdges ==
    {[i \in ids |-> [from |-> Joins[i][1], to |-> Joins[i][2], test |-> i \in {1, 3}]] :
        ids \in SUBSET DOMAIN Joins}

MCGraphs ==
    [type : SmallTypes, edges : SmallEdges]
    \cup [type : LargeTypes, edges : LargeEdges]
    \cup [type : {<<>>}, edges : {<<>>}]
=============================================================================

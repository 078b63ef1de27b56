---------------------------- MODULE WorkflowHints ----------------------------
(***************************************************************************)
(* The hints a sandbox run gives about a graph before it walks it:         *)
(* _topology_warnings, the loop that finds what can be reached, and        *)
(* _detect_cycle, a depth-first search with three colours that stops at    *)
(* the first edge back into its own path.  The search is a state machine   *)
(* of its own, whose steps come before those of WorkflowEngine.  Nodes and *)
(* edges are queried without an order, so the search takes them in any.    *)
(* The hints and the run query them each on their own: that they are about *)
(* one graph assumes that it is not edited between the two.                *)
(***************************************************************************)
EXTENDS WorkflowEngine, Sequences

VARIABLES
    search,     \* which part of _topology_warnings is at work, "none" for a
                \* caller that asks for no hints
    found,      \* reachable
    pending,    \* stack: the nodes found that have not been looked at
    color,      \* of the nodes: white, gray on the path, black when done
    parent,     \* the node a node was called from
    path,       \* the calls of dfs that have not returned, by their nodes
    node,       \* where following the parents back has come to
    cycle,      \* the cycle, once it is found
    hints       \* kinds of warnings

hintVars == <<search, found, pending, color, parent, path, node, cycle, hints>>
allVars == <<graph, caller, phase, at, visits, steps, attempt, effects,
             warnings, outcome, row, hintVars>>

\* adj: edges from or to a node that is gone are left out.
Successors(g, n) ==
    {m \in Nodes(g) : \E i \in DOMAIN g.edges :
                          g.edges[i].from = n /\ g.edges[i].to = m}
Starts == OfType(graph, "start")
White == [n \in Nodes(graph) |-> "white"]
Top == path[Len(path)]

\* Only the sandbox gives hints.
HintsInit ==
    /\ Init
    /\ search = IF caller \in {"sandbox", "trial"} THEN "new" ELSE "none"
    /\ found = {} /\ pending = {}
    /\ color = White /\ parent = <<>> /\ path = <<>> /\ node = 0
    /\ cycle = <<>>
    /\ hints = {}

-----------------------------------------------------------------------------
(* What can be reached.                                                    *)

\* Nothing is said of a graph that has no start node, or several.
StartSearch ==
    /\ search = "new"
    /\ IF Cardinality(Starts) = 1
       THEN search' = "spread" /\ pending' = Starts /\ UNCHANGED hints
       ELSE /\ search' = "done"
            /\ hints' = Note("empty", Nodes(graph) = {})
            /\ UNCHANGED pending
    /\ UNCHANGED <<found, color, parent, path, node, cycle>>

Spread(u) ==
    /\ search = "spread" /\ u \in pending
    /\ found' = found \cup {u}
    /\ pending' = (pending \cup Successors(graph, u)) \ found'
    /\ UNCHANGED <<search, color, parent, path, node, cycle, hints>>

\* Nothing is pending: the hints are given, and dfs is called on the start.
HintReached ==
    /\ search = "spread" /\ pending = {}
    /\ LET unreached == Nodes(graph) \ found
       IN  hints' = Note("unreached end", OfType(graph, "end") \cap unreached # {})
                    \cup Note("isolated", unreached # {})
    /\ search' = "explore"
    /\ \E s \in Starts : color' = [color EXCEPT ![s] = "gray"] /\ path' = <<s>>
    /\ found' = {}
    /\ UNCHANGED <<pending, parent, node, cycle>>

-----------------------------------------------------------------------------
(* dfs(u), for the node u on top of the path.  Successors that are black   *)
(* are passed over.                                                        *)

Descend(v) ==
    /\ search = "explore" /\ v \in Successors(graph, Top)
    /\ color[v] = "white"
    /\ parent' = [n \in DOMAIN parent \cup {v} |->
                     IF n = v THEN Top ELSE parent[n]]
    /\ color' = [color EXCEPT ![v] = "gray"]
    /\ path' = Append(path, v)
    /\ UNCHANGED <<search, found, pending, node, cycle, hints>>

\* A mutant that takes any node seen before for a node on the path.
MeetSeen(v) ==
    /\ search = "explore" /\ v \in Successors(graph, Top)
    /\ color[v] # "white"
    /\ search' = "trace" /\ node' = Top /\ cycle' = <<v>>
    /\ UNCHANGED <<found, pending, color, parent, path, hints>>

MeetGray(v) ==
    /\ search = "explore" /\ v \in Successors(graph, Top)
    /\ color[v] = "gray"
    /\ search' = "trace" /\ node' = Top /\ cycle' = <<v>>
    /\ UNCHANGED <<found, pending, color, parent, path, hints>>

\* The locals of the search go away with it.
Forget == color' = White /\ parent' = <<>> /\ path' = <<>> /\ node' = 0

Return ==
    /\ search = "explore"
    /\ \A v \in Successors(graph, Top) : color[v] = "black"
    /\ IF Len(path) = 1
       THEN search' = "done" /\ Forget
       ELSE /\ color' = [color EXCEPT ![Top] = "black"]
            /\ path' = SubSeq(path, 1, Len(path) - 1)
            /\ UNCHANGED <<search, parent, node>>
    /\ UNCHANGED <<found, pending, cycle, hints>>

\* The parents are followed from the node that met a gray one back to it; the
\* list is turned round, so that the cycle begins and ends with the gray node.
TraceBack ==
    /\ search = "trace"
    /\ LET v == cycle[Len(cycle)]
       IN  IF node # v /\ node \in DOMAIN parent
           THEN /\ cycle' = <<node>> \o cycle
                /\ node' = parent[node]
                /\ UNCHANGED <<search, color, parent, path, hints>>
           ELSE /\ cycle' = <<v>> \o cycle
                /\ hints' = hints \cup {"cycle"}
                /\ search' = "done" /\ Forget
    /\ UNCHANGED <<found, pending>>

Search ==
    \/ StartSearch
    \/ \E u \in Nodes(graph) : Spread(u)
    \/ HintReached
    \/ \E v \in Nodes(graph) : Descend(v) \/ MeetGray(v)
    \/ Return
    \/ TraceBack

\* run_sandbox: first the hints, then the run.
HintsGiven == search \in {"none", "done"}
HintsNext ==
    \/ Search /\ UNCHANGED vars
    \/ HintsGiven /\ Next /\ UNCHANGED hintVars

HintsSpec == HintsInit /\ [][HintsNext]_allVars
FairHintsSpec ==
    /\ HintsSpec
    /\ WF_allVars(Search /\ UNCHANGED vars)
    /\ WF_allVars(HintsGiven /\ Run /\ UNCHANGED hintVars)

-----------------------------------------------------------------------------
(* What the hints promise.                                                 *)

\* A set of nodes no edge leads out of.
Closed(g, S) ==
    \A i \in DOMAIN g.edges :
        g.edges[i].from \in S /\ g.edges[i].to \in Nodes(g) => g.edges[i].to \in S

\* The nodes walks from the nodes of F lead to: those in every closed set
\* around F.
Reachable(g, F) ==
    {n \in Nodes(g) :
        \A S \in SUBSET Nodes(g) : F \subseteq S /\ Closed(g, S) => n \in S}

\* A node a walk along the edges leads back to.
OnCycle(g, n) == n \in Reachable(g, Successors(g, n))

\* A walk that ends where it began and passes no other node twice.
IsCycle(g, walk) ==
    /\ Len(walk) > 1 /\ walk[1] = walk[Len(walk)]
    /\ \A i \in 1..(Len(walk) - 1) : walk[i + 1] \in Successors(g, walk[i])
    /\ \A i, j \in 2..Len(walk) : walk[i] = walk[j] => i = j

Visited == {n \in Nodes(graph) : visits[n] > 0}

\* The hints of the sandbox are right about the graph and about the run that
\* follows, whatever order the edges came in: an end or a node is said to be
\* out of reach exactly when no walk leads there, and the run never does; a
\* cycle is reported exactly when one can be reached, and is one; without that
\* hint no node runs twice and no cap stops the run, unless there are more
\* nodes in reach than steps.
HintsPredictRuns ==
    LET reached == Reachable(graph, Starts)
    IN  search = "done" /\ Cardinality(Starts) = 1 =>
        /\ "unreached end" \in hints <=> ~(OfType(graph, "end") \subseteq reached)
        /\ "isolated" \in hints <=> reached # Nodes(graph)
        /\ "cycle" \in hints <=> \E n \in reached : OnCycle(graph, n)
        /\ "cycle" \in hints => IsCycle(graph, cycle) /\ cycle[1] \in reached
        /\ Visited \subseteq reached
        /\ "cycle" \notin hints =>
            /\ \A n \in Nodes(graph) : visits[n] <= 1
            /\ "loop" \notin warnings
            /\ Cardinality(reached) <= MaxSteps => "steps" \notin warnings

-----------------------------------------------------------------------------
(* Why they do: what is true of the search while it goes on.               *)

Colors == {"white", "gray", "black"}

SearchTypeOK ==
    /\ search \in {"none", "new", "spread", "explore", "trace", "done"}
    /\ found \subseteq Nodes(graph) /\ pending \subseteq Nodes(graph)
    /\ color \in [Nodes(graph) -> Colors]
    /\ path \in Seq(Nodes(graph)) /\ cycle \in Seq(Nodes(graph))
    /\ search = "new" => found = {} /\ color = White /\ parent = <<>>
    /\ search \in {"spread", "explore", "trace"} => Cardinality(Starts) = 1

\* What is found or pending can be reached, and what is found has been looked
\* at: the pending nodes are all that lead further.
SpreadInv ==
    search = "spread" =>
        /\ color = White /\ parent = <<>> /\ found \cap pending = {}
        /\ Starts \subseteq found \cup pending
        /\ found \cup pending \subseteq Reachable(graph, Starts)
        /\ \A n \in found : Successors(graph, n) \subseteq found \cup pending

ReachedIsHinted ==
    LET reached == Reachable(graph, Starts)
    IN  search \in {"explore", "trace", "done"} /\ Cardinality(Starts) = 1 =>
        /\ "unreached end" \in hints <=> ~(OfType(graph, "end") \subseteq reached)
        /\ "isolated" \in hints <=> reached # Nodes(graph)
        /\ search # "done" => "cycle" \notin hints

\* The gray nodes are those of the path, which leads from the start node along
\* edges, and back along the parents.
PathInv ==
    search \in {"explore", "trace"} =>
        /\ path # <<>> /\ path[1] \in Starts /\ path[1] \notin DOMAIN parent
        /\ \A i \in 1..Len(path) : path[i] \in Reachable(graph, Starts)
        /\ \A i, j \in 1..Len(path) : path[i] = path[j] => i = j
        /\ \A n \in Nodes(graph) :
              color[n] = "gray" <=> \E i \in 1..Len(path) : path[i] = n
        /\ \A i \in 1..Len(path) :
              i > 1 => /\ path[i] \in DOMAIN parent
                       /\ parent[path[i]] = path[i - 1]
                       /\ path[i] \in Successors(graph, path[i - 1])

\* In S no edge leads out, and a rank rises along every edge.
NoCycleIn(g, S) ==
    \E rank \in [Nodes(g) -> Nat] :
        \A n \in S : \A m \in Successors(g, n) : m \in S /\ rank[n] < rank[m]

Black == {n \in Nodes(graph) : color[n] = "black"}
BlackInv == search = "explore" => NoCycleIn(graph, Black)

\* The rest of the path from place k on, closed by the node at place j.
Rest(k, j) ==
    [i \in 1..(Len(path) - k + 1) |->
        IF i <= Len(path) - k THEN path[k + i] ELSE path[j]]
TraceInv ==
    search = "trace" =>
        \E k \in 1..Len(path) : \E j \in 1..k :
            /\ node = path[k] /\ cycle = Rest(k, j)
            /\ path[j] \in Successors(graph, Top)

CycleIsHinted ==
    search = "done" /\ Cardinality(Starts) = 1 =>
        \/ /\ "cycle" \in hints
           /\ IsCycle(graph, cycle) /\ cycle[1] \in Reachable(graph, Starts)
        \/ /\ "cycle" \notin hints
           /\ \E S \in SUBSET Nodes(graph) : Starts \subseteq S /\ NoCycleIn(graph, S)

HintInv ==
    /\ SearchTypeOK /\ SpreadInv /\ ReachedIsHinted /\ PathInv
    /\ BlackInv /\ TraceInv /\ CycleIsHinted
=============================================================================

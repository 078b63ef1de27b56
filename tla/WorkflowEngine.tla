---------------------------- MODULE WorkflowEngine ----------------------------
(***************************************************************************)
(* One execution of a user's workflow: the graph is loaded, walked from    *)
(* its start node along the first edge whose condition holds, and stopped  *)
(* by an end node, by a dead end or by the caps on steps and visits.  The  *)
(* walk is asked for by the API, which keeps a row of it, by a trigger     *)
(* (cron, webhook or event), which does not, or by the sandbox, which      *)
(* validates the graph first, and replaces the calls of nodes by mocks     *)
(* unless it is told to try them (mock_employees=False).                   *)
(*                                                                         *)
(* Conditions are evaluated over data the user controls, so an evaluation  *)
(* may come out either way each time a node is left.                       *)
(***************************************************************************)
EXTENDS Integers, FiniteSets, FiniteSetsExt, Functions

CONSTANTS
    NodeIds,        \* ids of workflow_nodes, numbers
    Graphs,         \* the graphs considered, see GraphOK
    Retries,        \* retry_count of the nodes that have one
    MaxVisits,      \* MAX_NODE_VISITS
    MaxSteps        \* MAX_WORKFLOW_STEPS

\* What a node does when it is executed: the ones that only pass data on, the
\* calls that are retried, the calls whose errors are data, and the calls
\* whose errors are raised.
Passive == {"start", "end", "condition"}
Calls == {"employee", "openapi", "knowledge", "skill"}
NodeTypes == Passive \cup Calls

\* A graph gives a type to the nodes that exist and lists the edges by id.
EdgeOK(e) == e.from \in NodeIds /\ e.to \in NodeIds /\ e.test \in BOOLEAN
GraphOK(g) ==
    /\ DOMAIN g.type \subseteq NodeIds
    /\ \A n \in DOMAIN g.type : g.type[n] \in NodeTypes
    /\ DOMAIN g.edges \subseteq Nat \ {0}
    /\ \A i \in DOMAIN g.edges : EdgeOK(g.edges[i])

ASSUME WorkflowEngineAssumption ==
    /\ NodeIds \subseteq Nat /\ IsFiniteSet(NodeIds)
    /\ Retries \in Nat /\ MaxVisits \in Nat \ {0} /\ MaxSteps \in Nat \ {0}
    /\ \A g \in Graphs : GraphOK(g)

VARIABLES
    graph,      \* the nodes and edges the run has loaded
    caller,     \* who asked for it
    phase,      \* where the handler is
    at,         \* current_node, 0 when there is none
    visits,     \* visit_count
    steps,      \* total_steps
    attempt,    \* attempts of the call of the current node
    effects,    \* calls of a node that took effect outside
    warnings,   \* kinds of run_warnings
    outcome,    \* how the run came out
    row         \* status of the workflow_executions row

vars == <<graph, caller, phase, at, visits, steps, attempt, effects, warnings,
          outcome, row>>

-----------------------------------------------------------------------------
(* The graph, and the WorkflowValidator.                                   *)

Nodes(g) == DOMAIN g.type
OfType(g, type) == {n \in Nodes(g) : g.type[n] = type}

\* The validator; configurations of nodes are taken to be complete.
Note(kind, given) == IF given THEN {kind} ELSE {}
Errors(g) ==
    Note("starts", Cardinality(OfType(g, "start")) # 1)
    \cup Note("ends", OfType(g, "end") = {})
    \cup Note("dangling", \E i \in DOMAIN g.edges :
                ~({g.edges[i].from, g.edges[i].to} \subseteq Nodes(g)))

-----------------------------------------------------------------------------
(* The callers.                                                            *)

Callers == {"api", "trigger", "sandbox", "trial"}

Init ==
    /\ graph \in Graphs
    /\ caller \in Callers
    /\ phase = "new"
    /\ at = 0
    /\ visits = [n \in Nodes(graph) |-> 0]
    /\ steps = 0
    /\ attempt = 0
    /\ effects = [n \in Nodes(graph) |-> 0]
    /\ warnings = {}
    /\ outcome = "none"
    /\ row = "none"

Ended(result) == phase' = "done" /\ outcome' = result
Raised == phase' = "close" /\ outcome' = "raised"
Completed == phase' = "close" /\ outcome' = "completed"

\* The first start node in the order of an unordered query.
EnterGraph ==
    \/ /\ \E n \in OfType(graph, "start") : at' = n
       /\ phase' = "visit" /\ UNCHANGED outcome
    \/ OfType(graph, "start") = {} /\ Raised /\ UNCHANGED at

\* The API commits a running row first.  The sandbox ends here when there are
\* errors, or when validating is all it was asked for.
Begin ==
    /\ phase = "new"
    /\ IF caller \in {"sandbox", "trial"}
       THEN \/ Errors(graph) = {} /\ EnterGraph
            \/ Ended("validated") /\ UNCHANGED at
       ELSE phase' = "credit" /\ UNCHANGED <<at, outcome>>
    /\ row' = IF caller = "api" THEN "running" ELSE row
    /\ UNCHANGED <<graph, caller, visits, steps, attempt, effects, warnings>>

\* require_llm_credit raises out of the handler, whose row stays as it is.
RequireCredit ==
    /\ phase = "credit"
    /\ EnterGraph \/ (Ended("refused") /\ UNCHANGED at)
    /\ UNCHANGED <<graph, caller, visits, steps, attempt, effects, warnings,
                   row>>

\* A mutant that updates the row of a completed run only.
CloseCompleted ==
    /\ phase = "close"
    /\ phase' = "done"
    /\ row' = IF caller = "api" /\ outcome = "completed" THEN "completed" ELSE row
    /\ UNCHANGED <<graph, caller, at, visits, steps, attempt, effects,
                   warnings, outcome>>

\* A mutant that stores the status of a sandbox run.
CloseAsSandbox ==
    /\ phase = "close"
    /\ phase' = "done"
    /\ row' = IF caller = "api" THEN "success" ELSE row
    /\ UNCHANGED <<graph, caller, at, visits, steps, attempt, effects,
                   warnings, outcome>>

\* The last commit of the handler.
Close ==
    /\ phase = "close"
    /\ phase' = "done"
    /\ row' = CASE caller # "api" -> row
                [] outcome = "completed" -> "completed"
                [] OTHER -> "failed"
    /\ UNCHANGED <<graph, caller, at, visits, steps, attempt, effects,
                   warnings, outcome>>

\* The process goes away in the middle.
Crash ==
    /\ phase \notin {"new", "done"}
    /\ Ended("died")
    /\ UNCHANGED <<graph, caller, at, visits, steps, attempt, effects,
                   warnings, row>>

-----------------------------------------------------------------------------
(* The walk: _run_graph.                                                   *)

\* A mutant that stops without a word.
StopSilently(kinds) ==
    /\ warnings' = warnings
    /\ Completed

Stop(kinds) ==
    /\ warnings' = warnings \cup kinds
    /\ Completed

Visit ==
    /\ phase = "visit"
    /\ steps' = steps + 1
    /\ IF steps' > MaxSteps THEN Stop({"steps"}) /\ UNCHANGED visits
       ELSE /\ visits' = [visits EXCEPT ![at] = @ + 1]
            /\ IF visits'[at] > MaxVisits THEN Stop({"loop"})
               ELSE /\ phase' = IF graph.type[at] \in Passive THEN "leave"
                                ELSE "call"
                    /\ UNCHANGED <<warnings, outcome>>
    /\ attempt' = 0
    /\ UNCHANGED <<graph, caller, at, effects, row>>

\* _execute_node: a sandbox run with mocks never makes the call itself.
Mocked == caller = "sandbox"
Returns == phase' = "leave" /\ UNCHANGED outcome
Again == phase' = "call" /\ UNCHANGED outcome
\* A mutant that retries once too often.
AttemptsPast == attempt' = Retries + 2

LastAttempt == attempt' = Retries + 1

MockNode ==
    /\ phase = "call" /\ Mocked
    /\ Returns
    /\ UNCHANGED <<graph, caller, at, visits, steps, attempt, effects,
                   warnings, row>>

\* A call that fails, or that is given up when its time is over, may have had
\* its effect; giving up still waits for the thread, so attempts never overlap.
TakesEffect == effects' = [effects EXCEPT ![at] = @ + 1]
Makes(type) ==
    /\ phase = "call" /\ ~Mocked /\ graph.type[at] = type
    /\ attempt' = attempt + 1
    /\ UNCHANGED <<graph, caller, at, visits, steps, warnings, row>>

EmployeeNode ==
    /\ Makes("employee")
    /\ \/ TakesEffect /\ Returns
       \/ /\ TakesEffect \/ UNCHANGED effects
          /\ IF LastAttempt THEN Raised ELSE Again

\* An operation that keeps failing is an error in the data, not in the run.
OpenapiOperationNode ==
    /\ Makes("openapi")
    /\ \/ TakesEffect /\ Returns
       \/ /\ TakesEffect \/ UNCHANGED effects
          /\ IF LastAttempt THEN Returns ELSE Again

KnowledgeSearchNode ==
    /\ Makes("knowledge")
    /\ Returns
    /\ UNCHANGED effects

\* eskill, vibe_skill and vibe_workflow nodes.
SkillNode ==
    /\ Makes("skill")
    /\ TakesEffect \/ UNCHANGED effects
    /\ Returns \/ Raised

\* The edges that leave a node, and the first of them that is taken when the
\* tests in "hold" come out true.
Out(n) == {i \in DOMAIN graph.edges : graph.edges[i].from = n}
Tests(out) == {i \in out : graph.edges[i].test}
Taken(out, hold) ==
    LET open == {i \in out : i \in Tests(out) => i \in hold}
    IN  IF open = {} THEN 0 ELSE Min(open)

Leave ==
    /\ phase = "leave"
    /\ LET out == Out(at)
           ambiguous == Note("ambiguous", Cardinality(out \ Tests(out)) > 1)
       IN  IF graph.type[at] = "end" THEN Stop({}) /\ UNCHANGED at
           ELSE IF out = {} THEN Stop({"no edge"}) /\ UNCHANGED at
           ELSE \E hold \in SUBSET Tests(out) :
                LET i == Taken(out, hold)
                    target == graph.edges[i].to
                IN  IF i # 0 /\ target \in Nodes(graph)
                    THEN /\ at' = target
                         /\ phase' = "visit"
                         /\ warnings' = warnings \cup ambiguous
                         /\ UNCHANGED outcome
                    ELSE /\ Stop({"no match"} \cup ambiguous)
                         /\ at' = 0
    /\ UNCHANGED <<graph, caller, visits, steps, attempt, effects, row>>

Call ==
    \/ MockNode \/ EmployeeNode \/ OpenapiOperationNode
    \/ KnowledgeSearchNode \/ SkillNode

Run == Begin \/ RequireCredit \/ Visit \/ Call \/ Leave \/ Close

Next == Run \/ Crash

Spec == Init /\ [][Next]_vars
FairSpec == Spec /\ WF_vars(Run)

-----------------------------------------------------------------------------
(* Properties.                                                             *)

Phases == {"new", "credit", "visit", "call", "leave", "close", "done"}
Outcomes == {"none", "validated", "refused", "raised", "completed", "died"}

TypeOK ==
    /\ GraphOK(graph)
    /\ caller \in Callers
    /\ phase \in Phases
    /\ at \in Nodes(graph) \cup {0}
    /\ visits \in [Nodes(graph) -> 0..(MaxVisits + 1)]
    /\ steps \in 0..(MaxSteps + 1)
    /\ attempt \in 0..(Retries + 1)
    /\ effects \in [Nodes(graph) -> Nat]
    /\ warnings \subseteq {"steps", "loop", "ambiguous", "no edge", "no match"}
    /\ outcome \in Outcomes
    /\ row \in {"none", "running", "completed", "failed"}

\* A run that completes without a word has reached an end node.
QuietRunReachesEnd ==
    outcome = "completed" /\ warnings \subseteq {"ambiguous"} =>
        at \in OfType(graph, "end")

\* However the conditions come out, the calls a node makes are bounded by the
\* cap on visits and its retries, those of the whole run by the cap on steps,
\* and a run with mocks makes none.
EffectsBounded ==
    /\ \A n \in Nodes(graph) :
          /\ effects[n] <= MaxVisits * (Retries + 1)
          /\ caller = "sandbox" => effects[n] = 0
    /\ SumFunction(effects) <= MaxSteps * (Retries + 1)

\* Every run ends, and the row of a run that was not refused and whose process
\* lived says how it came out.
RunsClose ==
    /\ phase # "new" ~> phase = "done"
    /\ row = "running" ~> \/ <<row, outcome>> = <<"completed", "completed">>
                           \/ <<row, outcome>> = <<"failed", "raised">>
                           \/ outcome \in {"refused", "died"}
=============================================================================

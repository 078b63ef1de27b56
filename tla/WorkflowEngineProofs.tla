------------------------ MODULE WorkflowEngineProofs ------------------------
(***************************************************************************)
(* Theorems about WorkflowEngine, for every set of graphs and every value  *)
(* of the caps: how a run stops and after how many steps, what it may have *)
(* spent when it does, and which nodes it can be at; and about             *)
(* WorkflowHints: that the hints given before a run are right.             *)
(***************************************************************************)
EXTENDS WorkflowHints, Sums, TLAPS

----------------------------------------------------------------------------
(***************************************************************************)
(* What a call and a leave may do, whichever of their forms is taken.      *)
(***************************************************************************)

\* A call ends an attempt, which may have had its effect unless it is mocked,
\* and is made again only while attempts are left.
CallStep ==
    /\ phase = "call" /\ phase' \in {"call", "leave", "close"}
    /\ \/ attempt' = attempt /\ phase' # "call" /\ effects' = effects
       \/ attempt' = attempt + 1 /\ effects' = effects
       \/ attempt' = attempt + 1 /\ ~Mocked /\ TakesEffect
    /\ phase' = "call" => attempt' # Retries + 1
    /\ outcome' = IF phase' = "close" THEN "raised" ELSE outcome
    /\ UNCHANGED <<graph, caller, at, visits, steps, warnings, row>>

LEMMA CallMakesStep == Call => CallStep
<1>1. MockNode => CallStep
  BY DEF MockNode, Returns, CallStep
<1>2. EmployeeNode => CallStep
  BY DEF EmployeeNode, Makes, Returns, Again, LastAttempt, Raised, CallStep
<1>3. OpenapiOperationNode => CallStep
  BY DEF OpenapiOperationNode, Makes, Returns, Again, LastAttempt, CallStep
<1>4. KnowledgeSearchNode => CallStep
  BY DEF KnowledgeSearchNode, Makes, Returns, CallStep
<1>5. SkillNode => CallStep
  BY DEF SkillNode, Makes, Returns, Raised, CallStep
<1>6. QED
  BY <1>1, <1>2, <1>3, <1>4, <1>5 DEF Call

\* A node is left along one of its edges to a node that exists, or the run
\* completes, at an end node or with a warning.
Follows(i) ==
    /\ i \in DOMAIN graph.edges
    /\ graph.edges[i].from = at /\ graph.edges[i].to = at'
    /\ at' \in Nodes(graph)

LeaveStep ==
    /\ phase = "leave"
    /\ \/ /\ phase' = "visit" /\ outcome' = outcome
          /\ \E i \in DOMAIN graph.edges : Follows(i)
          /\ warnings' \in {warnings, warnings \cup {"ambiguous"}}
       \/ /\ phase' = "close" /\ outcome' = "completed"
          /\ graph.type[at] = "end" /\ at' = at
          /\ warnings' = warnings
       \/ /\ phase' = "close" /\ outcome' = "completed"
          /\ at' \in {at, 0}
          /\ \E kinds \in SUBSET {"ambiguous", "no edge", "no match"} :
                /\ kinds \cap {"no edge", "no match"} # {}
                /\ warnings' = warnings \cup kinds
    /\ UNCHANGED <<graph, caller, visits, steps, attempt, effects, row>>

\* The edge taken is one of those that leave the node.
LEMMA TakenLeaves ==
    ASSUME GraphOK(graph), NEW n, NEW hold,
           Taken(Out(n), hold) # 0
    PROVE  Taken(Out(n), hold) \in Out(n)
<1> DEFINE open == {i \in Out(n) : i \in Tests(Out(n)) => i \in hold}
<1>1. open # {} /\ Taken(Out(n), hold) = Min(open)
  BY DEF Taken
<1>2. open \subseteq Out(n) /\ open \subseteq Nat
  BY DEF Out, GraphOK
<1> HIDE DEF open
<1>3. PICK i \in open : \A j \in open : i <= j
  BY <1>1, <1>2, Least
<1>4. Min(open) \in open
  BY <1>3 DEF Min
<1>5. QED
  BY <1>1, <1>2, <1>4

LEMMA LeaveMakesStep ==
    ASSUME GraphOK(graph), Leave
    PROVE  LeaveStep
<1> DEFINE out == Out(at)
           ambiguous == Note("ambiguous", Cardinality(out \ Tests(out)) > 1)
<1>1. ambiguous \in {{}, {"ambiguous"}}
  BY DEF Note
<1>2. /\ phase = "leave"
      /\ UNCHANGED <<graph, caller, visits, steps, attempt, effects, row>>
  BY DEF Leave
<1>3. CASE graph.type[at] = "end"
  BY <1>2, <1>3 DEF Leave, Stop, Completed, LeaveStep
<1>4. CASE graph.type[at] # "end" /\ out = {}
  BY <1>2, <1>4 DEF Leave, Stop, Completed, LeaveStep
<1>5. CASE graph.type[at] # "end" /\ out # {}
  <2>1. PICK hold \in SUBSET Tests(out) :
            LET i == Taken(out, hold)
                target == graph.edges[i].to
            IN  IF i # 0 /\ target \in Nodes(graph)
                THEN /\ at' = target
                     /\ phase' = "visit"
                     /\ warnings' = warnings \cup ambiguous
                     /\ UNCHANGED outcome
                ELSE /\ Stop({"no match"} \cup ambiguous)
                     /\ at' = 0
    BY <1>5 DEF Leave
  <2> DEFINE i == Taken(out, hold)
  <2>2. CASE i # 0 /\ graph.edges[i].to \in Nodes(graph)
    <3>1. i \in Out(at)
      BY <2>2, TakenLeaves
    <3>2. Follows(i)
      BY <2>1, <2>2, <3>1 DEF Follows, Out
    <3>3. QED
      BY <1>1, <1>2, <2>1, <2>2, <3>2 DEF LeaveStep, Follows
  <2>3. CASE ~ (i # 0 /\ graph.edges[i].to \in Nodes(graph))
    <3>1. Stop({"no match"} \cup ambiguous) /\ at' = 0
      BY <2>1, <2>3
    <3>2. QED
      BY <1>1, <1>2, <3>1 DEF Stop, Completed, LeaveStep
  <2>4. QED
    BY <2>2, <2>3
<1>6. QED
  BY <1>3, <1>4, <1>5

----------------------------------------------------------------------------
(***************************************************************************)
(* A run that goes on has not come out in any way, is at a node, and has   *)
(* kept to the caps so far: it passes one only in the step that stops it.  *)
(***************************************************************************)
Running == phase \in {"new", "credit", "visit", "call", "leave"}

WalkInv ==
    /\ phase \in {"visit", "call", "leave"} => at \in Nodes(graph)
    /\ phase = "call" => attempt <= Retries
    /\ Running => /\ outcome = "none" /\ steps <= MaxSteps
                  /\ \A n \in Nodes(graph) : visits[n] <= MaxVisits

\* The parts of the types that arithmetic needs.
LEMMA Counts ==
    ASSUME TypeOK
    PROVE  /\ visits \in [Nodes(graph) -> Nat] /\ effects \in [Nodes(graph) -> Nat]
           /\ steps \in Nat /\ attempt \in Nat /\ Retries \in Nat
           /\ MaxVisits \in Nat \ {0} /\ MaxSteps \in Nat \ {0}
           /\ IsFiniteSet(Nodes(graph))
<1>1. Retries \in Nat /\ MaxVisits \in Nat \ {0} /\ MaxSteps \in Nat \ {0}
  BY WorkflowEngineAssumption
<1>2. visits \in [Nodes(graph) -> 0..(MaxVisits + 1)] /\ effects \in [Nodes(graph) -> Nat]
  BY DEF TypeOK
<1>3. 0..(MaxVisits + 1) \subseteq Nat
  BY <1>1
<1>4. visits \in [Nodes(graph) -> Nat]
  BY <1>2, <1>3
<1>5. steps \in 0..(MaxSteps + 1) /\ attempt \in 0..(Retries + 1)
  BY DEF TypeOK
<1>6. steps \in Nat /\ attempt \in Nat
  BY <1>1, <1>5
<1>7. IsFiniteSet(Nodes(graph))
  BY WorkflowEngineAssumption, FS_Subset DEF TypeOK, GraphOK, Nodes
<1>8. QED
  BY <1>1, <1>2, <1>4, <1>6, <1>7

LEMMA InitTypes == Init => TypeOK /\ WalkInv
<1> SUFFICES ASSUME Init PROVE TypeOK /\ WalkInv
  OBVIOUS
<1>1. GraphOK(graph)
  BY WorkflowEngineAssumption DEF Init
<1>2. TypeOK
  BY <1>1, WorkflowEngineAssumption DEF Init, TypeOK, Phases, Outcomes
<1>3. WalkInv
  BY WorkflowEngineAssumption DEF Init, WalkInv, Running
<1>4. QED
  BY <1>2, <1>3

LEMMA EnterGraphStep ==
    ASSUME EnterGraph
    PROVE  \/ phase' = "visit" /\ at' \in OfType(graph, "start") /\ outcome' = outcome
           \/ phase' = "close" /\ at' = at /\ outcome' = "raised"
BY DEF EnterGraph, Raised

LEMMA NextTypes ==
    ASSUME TypeOK, WalkInv, [Next]_vars
    PROVE  TypeOK' /\ WalkInv'
<1>c. Retries \in Nat /\ MaxVisits \in Nat \ {0} /\ MaxSteps \in Nat \ {0}
  BY WorkflowEngineAssumption
<1>1. CASE Begin
  <2>1. OfType(graph, "start") \subseteq Nodes(graph)
    BY DEF OfType
  <2>2. TypeOK'
    BY <1>1, <2>1, EnterGraphStep DEF TypeOK, Phases, Outcomes, Begin, Ended, GraphOK, Nodes
  <2>3. WalkInv'
    BY <1>1, <2>1, EnterGraphStep DEF TypeOK, WalkInv, Running, Begin, Ended, Nodes
  <2>4. QED
    BY <2>2, <2>3
<1>2. CASE RequireCredit
  <2>1. OfType(graph, "start") \subseteq Nodes(graph)
    BY DEF OfType
  <2>2. TypeOK'
    BY <1>2, <2>1, EnterGraphStep DEF TypeOK, Phases, Outcomes, RequireCredit, Ended, GraphOK, Nodes
  <2>3. WalkInv'
    BY <1>2, <2>1, EnterGraphStep DEF TypeOK, WalkInv, Running, RequireCredit, Ended, Nodes
  <2>4. QED
    BY <2>2, <2>3
<1>3. CASE Visit
  <2>0. phase = "visit"
    BY <1>3 DEF Visit
  <2>1. at \in Nodes(graph) /\ visits[at] \in 0..MaxVisits /\ steps \in 0..MaxSteps
    <3>1. at \in Nodes(graph) /\ visits[at] <= MaxVisits /\ steps <= MaxSteps
      BY <2>0 DEF WalkInv, Running
    <3>2. visits[at] \in 0..(MaxVisits + 1) /\ steps \in 0..(MaxSteps + 1)
      BY <3>1 DEF TypeOK
    <3>3. QED
      BY <1>c, <3>1, <3>2
  <2>2. graph' = graph /\ steps' = steps + 1 /\ attempt' = 0
        /\ UNCHANGED <<caller, at, effects, row>>
    BY <1>3 DEF Visit
  <2>3. attempt' \in 0..(Retries + 1) /\ steps' \in 0..(MaxSteps + 1)
    BY <1>c, <2>1, <2>2
  <2>4. CASE steps' > MaxSteps
    <3>1. visits' = visits /\ warnings' = warnings \cup {"steps"}
          /\ phase' = "close" /\ outcome' = "completed"
      BY <1>3, <2>4 DEF Visit, Stop, Completed
    <3>2. TypeOK'
      BY <2>2, <2>3, <3>1 DEF TypeOK, Phases, Outcomes, GraphOK, Nodes
    <3>3. WalkInv'
      BY <3>1 DEF WalkInv, Running
    <3>4. QED
      BY <3>2, <3>3
  <2>5. CASE ~ (steps' > MaxSteps)
    <3>1. visits' = [visits EXCEPT ![at] = @ + 1]
      BY <1>3, <2>5 DEF Visit
    <3>2. /\ visits' \in [Nodes(graph) -> 0..(MaxVisits + 1)]
          /\ visits'[at] = visits[at] + 1
          /\ \A n \in Nodes(graph) : n # at => visits'[n] = visits[n]
      <4>1. visits \in [Nodes(graph) -> 0..(MaxVisits + 1)]
        BY DEF TypeOK
      <4>2. visits[at] + 1 \in 0..(MaxVisits + 1)
        BY <1>c, <2>1
      <4>3. QED
        BY <2>1, <3>1, <4>1, <4>2
    <3>3. \/ /\ visits'[at] > MaxVisits /\ warnings' = warnings \cup {"loop"}
             /\ phase' = "close" /\ outcome' = "completed"
          \/ /\ ~ (visits'[at] > MaxVisits) /\ phase' \in {"leave", "call"}
             /\ UNCHANGED <<warnings, outcome>>
      BY <1>3, <2>5 DEF Visit, Stop, Completed
    <3>4. TypeOK'
      BY <2>2, <2>3, <3>2, <3>3 DEF TypeOK, Phases, Outcomes, GraphOK, Nodes
    <3>5. WalkInv'
      <4>1. CASE phase' = "close"
        BY <4>1 DEF WalkInv, Running
      <4>2. CASE phase' # "close"
        <5>1. visits'[at] <= MaxVisits /\ outcome' = outcome
              /\ phase' \in {"leave", "call"}
          BY <1>c, <2>1, <3>2, <3>3, <4>2
        <5>2. \A n \in Nodes(graph) : visits'[n] <= MaxVisits
          BY <2>0, <3>2, <5>1 DEF WalkInv, Running
        <5>3. steps' <= MaxSteps /\ attempt' <= Retries
          BY <1>c, <2>2, <2>3, <2>5
        <5>4. outcome = "none"
          BY <2>0 DEF WalkInv, Running
        <5>5. QED
          BY <2>1, <2>2, <5>1, <5>2, <5>3, <5>4 DEF WalkInv, Running
      <4>3. QED
        BY <4>1, <4>2
    <3>6. QED
      BY <3>4, <3>5
  <2>6. QED
    BY <2>4, <2>5
<1>4. CASE Call
  <2>1. CallStep
    BY <1>4, CallMakesStep
  <2>2. at \in Nodes(graph) /\ attempt \in 0..Retries
    <3>1. attempt \in 0..(Retries + 1)
      BY DEF TypeOK
    <3>2. at \in Nodes(graph) /\ attempt <= Retries
      BY <2>1 DEF WalkInv, CallStep
    <3>3. QED
      BY <1>c, <3>1, <3>2
  <2>3. attempt' \in 0..(Retries + 1) /\ (phase' = "call" => attempt' <= Retries)
    <3>1. attempt' \in {attempt, attempt + 1}
          /\ (phase' = "call" => attempt' # Retries + 1)
      BY <2>1 DEF CallStep
    <3>2. QED
      BY <1>c, <2>2, <3>1
  <2>4. effects' \in [Nodes(graph) -> Nat]
    <3>1. effects \in [Nodes(graph) -> Nat]
      BY DEF TypeOK
    <3>2. effects' = effects \/ effects' = [effects EXCEPT ![at] = @ + 1]
      BY <2>1 DEF CallStep, TakesEffect
    <3>3. QED
      BY <2>2, <3>1, <3>2
  <2>5. TypeOK'
    BY <2>1, <2>3, <2>4 DEF TypeOK, CallStep, Phases, Outcomes, GraphOK, Nodes
  <2>6. WalkInv'
    BY <2>1, <2>2, <2>3 DEF WalkInv, Running, CallStep, Nodes
  <2>7. QED
    BY <2>5, <2>6
<1>5. CASE Leave
  <2>1. LeaveStep
    BY <1>5, LeaveMakesStep DEF TypeOK
  <2>2. at \in Nodes(graph)
    BY <2>1 DEF WalkInv, LeaveStep
  <2>3. TypeOK'
    BY <2>1, <2>2 DEF TypeOK, Phases, Outcomes, LeaveStep, Follows, GraphOK, Nodes
  <2>4. WalkInv'
    BY <2>1, <2>2 DEF TypeOK, WalkInv, Running, LeaveStep, Follows, Nodes
  <2>5. QED
    BY <2>3, <2>4
<1>6. CASE Close
  BY <1>6 DEF TypeOK, Phases, Outcomes, WalkInv, Running, Close, GraphOK, Nodes
<1>7. CASE Crash
  BY <1>7 DEF TypeOK, Phases, Outcomes, WalkInv, Running, Crash, Ended, GraphOK, Nodes
<1>8. CASE UNCHANGED vars
  BY <1>8 DEF TypeOK, WalkInv, Running, vars, GraphOK, Nodes
<1>9. QED
  BY <1>1, <1>2, <1>3, <1>4, <1>5, <1>6, <1>7, <1>8 DEF Next, Run

\* Every variable has its type: a run is always at a node of its graph or at
\* none, and counts no further than one past a cap.
THEOREM WorkflowTypes == Spec => []TypeOK
<1>1. TypeOK /\ WalkInv /\ [Next]_vars => (TypeOK /\ WalkInv)'
  BY NextTypes
<1>2. QED
  BY InitTypes, <1>1, PTL DEF Spec

LEMMA WalkInvariant == Spec => [](TypeOK /\ WalkInv)
<1>1. TypeOK /\ WalkInv /\ [Next]_vars => (TypeOK /\ WalkInv)'
  BY NextTypes
<1>2. QED
  BY InitTypes, <1>1, PTL DEF Spec

----------------------------------------------------------------------------
(***************************************************************************)
(* How a run comes out.                                                    *)
(***************************************************************************)

\* The steps of a run, told by what they do to its outcome and its row.
LEMMA NextOutcome ==
    ASSUME TypeOK, WalkInv, [Next]_vars
    PROVE  \/ /\ phase' # "done" /\ outcome' \in {outcome, "raised"}
              /\ outcome' = "raised" => outcome = "raised" \/ phase' = "close"
              /\ outcome' = "completed" => UNCHANGED <<at, warnings, graph>>
              /\ row' \in {row, "running"}
           \/ /\ phase \in {"visit", "leave"} /\ phase' = "close"
              /\ outcome' = "completed"
              /\ \/ warnings' \cap {"steps", "loop", "no edge", "no match"} # {}
                 \/ at' \in OfType(graph, "end")'
              /\ row' = row
           \/ Close
           \/ phase' = "done" /\ outcome' \in {"validated", "refused", "died"}
           \/ UNCHANGED vars
<1>1. CASE Begin
  BY <1>1, EnterGraphStep DEF Begin, Ended, WalkInv, Running
<1>2. CASE RequireCredit
  BY <1>2, EnterGraphStep DEF RequireCredit, Ended, WalkInv, Running
<1>3. CASE Visit
  BY <1>3 DEF Visit, Stop, Completed, WalkInv, Running
<1>4. CASE Call
  BY <1>4, CallMakesStep DEF CallStep, WalkInv, Running
<1>5. CASE Leave
  <2>1. LeaveStep
    BY <1>5, LeaveMakesStep DEF TypeOK
  <2>2. at \in Nodes(graph)
    BY <2>1 DEF LeaveStep, WalkInv
  <2>3. QED
    BY <2>1, <2>2 DEF LeaveStep, WalkInv, Running, OfType, Nodes
<1>6. CASE Crash
  BY <1>6 DEF Crash, Ended
<1>7. QED
  BY <1>1, <1>2, <1>3, <1>4, <1>5, <1>6 DEF Next, Run

\* A run that completes without a word has reached an end node: every other
\* way to stop the walk leaves a warning of its own.
THEOREM QuietEnds == Spec => []QuietRunReachesEnd
<1>1. Init => QuietRunReachesEnd
  BY DEF Init, QuietRunReachesEnd
<1>2. TypeOK /\ WalkInv /\ QuietRunReachesEnd /\ [Next]_vars => QuietRunReachesEnd'
  <2> SUFFICES ASSUME TypeOK, WalkInv, QuietRunReachesEnd, [Next]_vars
               PROVE  QuietRunReachesEnd'
    OBVIOUS
  <2>1. CASE Close
    BY <2>1 DEF Close, QuietRunReachesEnd, OfType, Nodes
  <2>2. CASE UNCHANGED vars
    BY <2>2 DEF vars, QuietRunReachesEnd, OfType, Nodes
  <2>3. QED
    BY <2>1, <2>2, NextOutcome DEF QuietRunReachesEnd, OfType, Nodes
<1>3. QED
  BY <1>1, <1>2, WalkInvariant, PTL DEF Spec

\* The row of a run the API has handled to the end says how the run came out;
\* only a run that was refused, or whose process died, leaves it running.
RowTellsOutcome ==
    phase = "done" /\ caller = "api" =>
        <<row, outcome>> \in {<<"completed", "completed">>, <<"failed", "raised">>,
                              <<"running", "refused">>, <<"running", "died">>}

\* Until then the row is as execute_workflow has inserted it.
RowInv ==
    /\ RowTellsOutcome
    /\ caller = "api" /\ phase \notin {"new", "done"} => row = "running"
    /\ phase = "close" => outcome \in {"completed", "raised"}

\* The row of a run tells how it came out: execute_workflow writes completed or
\* failed for every run that ends, but for those it leaves at running.
THEOREM RowsTellOutcomes == Spec => []RowTellsOutcome
<1>1. Init => RowInv
  BY DEF Init, RowInv, RowTellsOutcome
<1>2. TypeOK /\ WalkInv /\ RowInv /\ [Next]_vars => RowInv'
  <2> SUFFICES ASSUME TypeOK, WalkInv, RowInv, [Next]_vars
               PROVE  RowInv'
    OBVIOUS
  <2>1. CASE Begin
    BY <2>1, EnterGraphStep DEF Begin, Ended, RowInv, RowTellsOutcome
  <2>2. CASE RequireCredit
    BY <2>2, EnterGraphStep DEF RequireCredit, Ended, RowInv, RowTellsOutcome
  <2>3. CASE Visit
    BY <2>3 DEF Visit, Stop, Completed, RowInv, RowTellsOutcome
  <2>4. CASE Call
    BY <2>4, CallMakesStep DEF CallStep, RowInv, RowTellsOutcome
  <2>5. CASE Leave
    BY <2>5, LeaveMakesStep DEF LeaveStep, TypeOK, RowInv, RowTellsOutcome
  <2>6. CASE Close
    BY <2>6 DEF Close, RowInv, RowTellsOutcome
  <2>7. CASE Crash
    BY <2>7 DEF Crash, Ended, RowInv, RowTellsOutcome
  <2>8. CASE UNCHANGED vars
    BY <2>8 DEF vars, RowInv, RowTellsOutcome
  <2>9. QED
    BY <2>1, <2>2, <2>3, <2>4, <2>5, <2>6, <2>7, <2>8 DEF Next, Run
<1>3. RowInv => RowTellsOutcome
  BY DEF RowInv
<1>4. QED
  BY <1>1, <1>2, <1>3, WalkInvariant, PTL DEF Spec

----------------------------------------------------------------------------
(***************************************************************************)
(* Where a run can be.                                                     *)
(***************************************************************************)

\* What a step does to the place of a run and to the nodes it has visited.
LEMMA NextPlace ==
    ASSUME TypeOK, WalkInv, [Next]_vars
    PROVE  /\ graph' = graph
           /\ \/ /\ UNCHANGED <<visits, steps, warnings>>
                 /\ phase \in {"new", "credit"}
                 /\ \/ phase' = "visit" /\ at' \in OfType(graph, "start")
                    \/ phase' \in {"credit", "close", "done"}
              \/ phase = "visit" /\ Visit
              \/ /\ UNCHANGED <<at, visits, steps, warnings>>
                 /\ phase \in {"call", "leave"}
                 /\ phase' \in {"call", "leave", "close"}
              \/ /\ UNCHANGED <<visits, steps>>
                 /\ warnings' \subseteq warnings \cup {"ambiguous", "no edge", "no match"}
                 /\ \/ phase = "leave" /\ phase' = "visit"
                       /\ \E i \in DOMAIN graph.edges : Follows(i)
                    \/ phase' = "close"
              \/ UNCHANGED <<at, visits, steps, warnings>> /\ phase' = "done"
              \/ UNCHANGED <<at, visits, steps, warnings, phase>>
<1>1. CASE Begin
  BY <1>1, EnterGraphStep DEF Begin, Ended
<1>2. CASE RequireCredit
  BY <1>2, EnterGraphStep DEF RequireCredit, Ended
<1>3. CASE Visit
  BY <1>3 DEF Visit
<1>4. CASE Call
  BY <1>4, CallMakesStep DEF CallStep
<1>5. CASE Leave
  BY <1>5, LeaveMakesStep DEF LeaveStep, TypeOK
<1>6. CASE Close
  BY <1>6 DEF Close
<1>7. CASE Crash
  BY <1>7 DEF Crash, Ended
<1>8. CASE UNCHANGED vars
  BY <1>8 DEF vars
<1>9. QED
  BY <1>1, <1>2, <1>3, <1>4, <1>5, <1>6, <1>7, <1>8 DEF Next, Run

\* A visit counts the node and goes on, or stops at one of the caps.
LEMMA VisitPlace ==
    ASSUME TypeOK, WalkInv, Visit
    PROVE  /\ phase = "visit" /\ at \in Nodes(graph)
           /\ graph' = graph /\ at' = at /\ steps' = steps + 1
           /\ \/ /\ visits' = visits /\ steps' > MaxSteps
                 /\ phase' = "close" /\ warnings' = warnings \cup {"steps"}
              \/ /\ visits' = [visits EXCEPT ![at] = @ + 1]
                 /\ \/ phase' \in {"call", "leave"} /\ warnings' = warnings
                    \/ /\ visits'[at] > MaxVisits
                       /\ phase' = "close" /\ warnings' = warnings \cup {"loop"}
BY DEF Visit, WalkInv, Stop, Completed

\* A part of the graph a run cannot leave.
Encloses(S) == OfType(graph, "start") \subseteq S /\ Closed(graph, S)

\* A run visits only nodes that can be reached from a start node: it stays in
\* every closed set of nodes that holds the start nodes.
StaysReachable ==
    \A S \in SUBSET Nodes(graph) : Encloses(S) => Visited \subseteq S

\* That holds of the node the run is at, too.
ReachInv ==
    \A S \in SUBSET Nodes(graph) : Encloses(S) =>
        Visited \subseteq S /\ (phase \in {"visit", "call", "leave"} => at \in S)

LEMMA ReachInvariant == Spec => []ReachInv
<1>1. Init => ReachInv
  BY DEF Init, ReachInv, Visited
<1>2. TypeOK /\ WalkInv /\ ReachInv /\ [Next]_vars => ReachInv'
  <2> SUFFICES ASSUME TypeOK, WalkInv, ReachInv, [Next]_vars,
                      NEW S \in SUBSET Nodes(graph),
                      OfType(graph, "start") \subseteq S, Closed(graph, S)
               PROVE  /\ Visited' \subseteq S
                      /\ phase' \in {"visit", "call", "leave"} => at' \in S
    BY NextPlace DEF ReachInv, Encloses, OfType, Closed, Nodes
  <2>1. Visited \subseteq S /\ (phase \in {"visit", "call", "leave"} => at \in S)
    BY DEF ReachInv, Encloses
  <2>2. CASE phase = "visit" /\ Visit
    <3>1. \A n \in Nodes(graph) : n # at => visits'[n] = visits[n]
      BY <2>2, VisitPlace DEF TypeOK
    <3>2. Visited' \subseteq Visited \cup {at}
      BY <2>2, <3>1, VisitPlace DEF Visited, Nodes
    <3>3. QED
      BY <2>1, <2>2, <3>2, VisitPlace
  <2>3. CASE phase = "leave" /\ phase' = "visit" /\ visits' = visits
              /\ \E i \in DOMAIN graph.edges : Follows(i)
    BY <2>1, <2>3, NextPlace DEF Follows, Closed, Visited, Nodes
  <2>4. QED
    BY <2>1, <2>2, <2>3, NextPlace DEF Visited, Nodes
<1>3. QED
  BY <1>1, <1>2, WalkInvariant, PTL DEF Spec

\* Whatever the conditions come to, _run_graph never leaves the part of the
\* graph that can be reached from a start node.
THEOREM RunsStayReachable == Spec => []StaysReachable
<1>1. ReachInv => StaysReachable
  BY DEF ReachInv, StaysReachable
<1>2. QED
  BY <1>1, ReachInvariant, PTL

\* A part of a graph without a cycle has a rank that rises along its edges.
Rises(g, S, rank) ==
    \A i \in DOMAIN g.edges :
        {g.edges[i].from, g.edges[i].to} \subseteq S =>
            rank[g.edges[i].from] < rank[g.edges[i].to]
Acyclic(g, S) == \E rank \in [Nodes(g) -> Nat] : Rises(g, S, rank)

\* The caps are there for loops alone: where no cycle can be reached no node
\* runs twice, so no run is stopped as a loop, nor for its steps if no more
\* nodes can be reached than steps are allowed.
CapsSpareAcyclic ==
    \A S \in SUBSET Nodes(graph) : Encloses(S) /\ Acyclic(graph, S) =>
        /\ \A n \in Nodes(graph) : visits[n] <= 1
        /\ "loop" \notin warnings
        /\ Cardinality(S) <= MaxSteps => "steps" \notin warnings

\* The nodes visited so far are behind the one the run is at.
Behind(S, rank) ==
    /\ phase \in {"new", "credit"} => Visited = {}
    /\ phase = "visit" => \A n \in Visited : rank[n] < rank[at]
    /\ phase \in {"call", "leave"} => \A n \in Visited : rank[n] <= rank[at]
    /\ Running => steps = Cardinality(Visited)
    /\ \A n \in Nodes(graph) : visits[n] <= 1
    /\ "loop" \notin warnings
    /\ Cardinality(S) <= MaxSteps => "steps" \notin warnings

\* Whichever rank shows that a part of the graph has no cycle.
ForwardInv ==
    \A S \in SUBSET Nodes(graph) : \A rank \in [Nodes(graph) -> Nat] :
        Encloses(S) /\ Rises(graph, S, rank) => Behind(S, rank)

LEMMA VisitForward ==
    ASSUME TypeOK, WalkInv, Visit, NEW S \in SUBSET Nodes(graph),
           Visited \subseteq S, at \in S,
           NEW rank \in [Nodes(graph) -> Nat], Behind(S, rank)
    PROVE  Behind(S, rank)'
<1>1. phase = "visit" /\ at \in Nodes(graph)
  BY VisitPlace
<1>2. at \notin Visited /\ \A n \in Visited : rank[n] < rank[at]
  BY <1>1 DEF Behind, Visited
<1>3. visits[at] = 0 /\ \A n \in Nodes(graph) : visits[n] \in Nat
  BY <1>1, <1>2, Counts DEF Visited
<1>4. IsFiniteSet(S)
  BY Counts, FS_Subset
<1>5. /\ IsFiniteSet(Visited) /\ IsFiniteSet(Visited \cup {at})
      /\ Cardinality(Visited \cup {at}) = Cardinality(Visited) + 1
      /\ Cardinality(Visited \cup {at}) <= Cardinality(S)
      /\ Cardinality(Visited) \in Nat /\ Cardinality(S) \in Nat
  <2>1. Visited \subseteq S /\ Visited \cup {at} \subseteq S
    OBVIOUS
  <2>2. IsFiniteSet(Visited)
    BY <1>4, <2>1, FS_Subset
  <2>3. QED
    BY <1>2, <1>4, <2>1, <2>2, FS_AddElement, FS_Subset, FS_CardinalityType
<1>6. steps = Cardinality(Visited)
  BY <1>1 DEF Behind, Running
<1>7. MaxVisits \in Nat \ {0} /\ MaxSteps \in Nat
  BY WorkflowEngineAssumption
<1>8. CASE visits' = visits /\ steps' > MaxSteps
           /\ phase' = "close" /\ warnings' = warnings \cup {"steps"}
  <2>1. ~ (Cardinality(S) <= MaxSteps)
    BY <1>5, <1>6, <1>7, <1>8, VisitPlace
  <2>2. QED
    BY <1>8, <2>1, VisitPlace DEF Behind, Running, Nodes
<1>9. CASE visits' = [visits EXCEPT ![at] = @ + 1]
  <2>1. visits'[at] = 1 /\ \A n \in Nodes(graph) \ {at} : visits'[n] = visits[n]
    BY <1>1, <1>3, <1>9, Counts
  <2>2. graph' = graph /\ at' = at /\ Visited' = Visited \cup {at}
    BY <1>1, <2>1, VisitPlace DEF Visited, Nodes
  <2>3. phase' \in {"call", "leave"} /\ warnings' = warnings
    <3>1. ~ (visits'[at] > MaxVisits) /\ visits' # visits
      BY <1>3, <1>7, <2>1
    <3>2. QED
      BY <3>1, VisitPlace
  <2>4. \A n \in Visited' : rank[n] <= rank[at']
    BY <1>1, <1>2, <2>2 DEF Visited
  <2>5. steps' = Cardinality(Visited')
    BY <1>5, <1>6, <2>2, VisitPlace
  <2>6. \A n \in Nodes(graph) : visits'[n] <= 1
    BY <2>1 DEF Behind
  <2>7. QED
    BY <2>2, <2>3, <2>4, <2>5, <2>6 DEF Behind, Running, Nodes
<1>10. QED
  BY <1>8, <1>9, VisitPlace

\* In a graph without a cycle the caps of _run_graph never stop a run: it calls
\* each node at most once.
THEOREM AcyclicRunsOnce == Spec => []CapsSpareAcyclic
<1>1. Init => ForwardInv
  <2> SUFFICES ASSUME Init, NEW S, NEW rank PROVE Behind(S, rank)
    BY DEF ForwardInv
  <2>1. Visited = {}
    BY DEF Init, Visited
  <2>2. QED
    BY <2>1, FS_EmptySet DEF Init, Behind, Running
<1>2. TypeOK /\ WalkInv /\ ReachInv /\ ReachInv' /\ ForwardInv /\ [Next]_vars
        => ForwardInv'
  <2> SUFFICES ASSUME TypeOK, WalkInv, ReachInv, ReachInv', ForwardInv, [Next]_vars,
                      NEW S \in SUBSET Nodes(graph), Encloses(S),
                      NEW rank \in [Nodes(graph) -> Nat], Rises(graph, S, rank)
               PROVE  Behind(S, rank)'
    BY NextPlace DEF ForwardInv, Encloses, Closed, OfType, Rises, Nodes
  <2>1. Behind(S, rank)
    BY DEF ForwardInv
  <2>r. /\ Visited \subseteq S /\ (phase \in {"visit", "call", "leave"} => at \in S)
        /\ phase' = "visit" => at' \in S
    BY NextPlace DEF ReachInv, Encloses, Closed, OfType, Nodes
  <2>2. CASE Visit
    BY <2>1, <2>2, <2>r, VisitForward, VisitPlace
  <2>3. CASE ~ Visit
    <3>1. graph' = graph /\ UNCHANGED <<visits, steps>>
          /\ warnings' \subseteq warnings \cup {"ambiguous", "no edge", "no match"}
      BY <2>3, NextPlace
    <3>2. Visited' = Visited
      BY <3>1 DEF Visited, Nodes
    <3>3. /\ \A n \in Nodes(graph) : visits'[n] <= 1
          /\ "loop" \notin warnings'
          /\ Cardinality(S) <= MaxSteps => "steps" \notin warnings'
      <4>1. /\ "loop" \in warnings' => "loop" \in warnings
            /\ "steps" \in warnings' => "steps" \in warnings
        BY <3>1
      <4>2. visits' = visits
        BY <3>1
      <4>3. QED
        BY <2>1, <4>1, <4>2 DEF Behind
    <3>4. Running' => Running
      BY <2>3, NextPlace DEF Running
    <3>5. Running' => steps' = Cardinality(Visited')
      BY <2>1, <3>1, <3>2, <3>4 DEF Behind
    <3>6. \/ phase' \in {"close", "done"}
          \/ phase \in {"new", "credit"} /\ phase' \in {"visit", "credit"}
          \/ phase = "leave" /\ phase' = "visit"
             /\ \E i \in DOMAIN graph.edges : Follows(i)
          \/ UNCHANGED at /\ phase \in {"call", "leave"} /\ phase' \in {"call", "leave"}
          \/ UNCHANGED <<at, phase>>
      BY <2>3, NextPlace
    <3>7. /\ phase' \in {"new", "credit"} => Visited' = {}
          /\ phase' = "visit" => \A n \in Visited' : rank[n] < rank[at']
          /\ phase' \in {"call", "leave"} => \A n \in Visited' : rank[n] <= rank[at']
      <4>1. CASE phase = "leave" /\ phase' = "visit"
                 /\ \E i \in DOMAIN graph.edges : Follows(i)
        <5>1. PICK i \in DOMAIN graph.edges : Follows(i)
          BY <4>1
        <5>2. at \in Nodes(graph) /\ at' \in Nodes(graph) /\ rank[at] < rank[at']
          BY <2>r, <4>1, <5>1 DEF WalkInv, Follows, Rises
        <5>3. \A n \in Visited : rank[n] <= rank[at]
          BY <2>1, <4>1 DEF Behind
        <5>4. \A n \in Visited : rank[n] < rank[at']
          BY <5>2, <5>3 DEF Visited
        <5>5. QED
          BY <3>2, <4>1, <5>4
      <4>2. CASE phase \in {"new", "credit"} /\ phase' \in {"visit", "credit"}
        BY <2>1, <3>2, <4>2 DEF Behind
      <4>3. CASE UNCHANGED at /\ phase \in {"call", "leave"} /\ phase' \in {"call", "leave"}
        BY <2>1, <3>2, <4>3 DEF Behind
      <4>4. CASE UNCHANGED <<at, phase>>
        BY <2>1, <3>2, <4>4 DEF Behind
      <4>5. QED
        BY <3>6, <4>1, <4>2, <4>3, <4>4
    <3>8. QED
      BY <3>1, <3>3, <3>5, <3>7 DEF Behind, Nodes
  <2>4. QED
    BY <2>2, <2>3
<1>3. ForwardInv => CapsSpareAcyclic
  BY DEF ForwardInv, CapsSpareAcyclic, Acyclic, Behind
<1>4. QED
  BY <1>1, <1>2, <1>3, WalkInvariant, ReachInvariant, PTL DEF Spec

----------------------------------------------------------------------------
(***************************************************************************)
(* What a run may have spent.                                              *)
(***************************************************************************)

\* The attempts that may have had an effect when a node has been visited so
\* many times, the attempts of the present visit counted while it is called.
Paid(times) == times * (Retries + 1)
Paying(times) == (times - 1) * (Retries + 1) + attempt
Budget(times, calling) == IF calling THEN Paying(times) ELSE Paid(times)

SpendInv ==
    /\ phase = "call" => visits[at] >= 1 /\ steps >= 1
    /\ Running => /\ SumFunction(effects) <= Budget(steps, phase = "call")
                  /\ \A n \in Nodes(graph) :
                        effects[n] <= Budget(visits[n], phase = "call" /\ n = at)
    /\ EffectsBounded

\* Products of counts grow with their factor.
LEMMA MoreTimes ==
    ASSUME NEW a \in Nat, NEW b \in Nat, NEW r \in Nat, a <= b
    PROVE  /\ a * r \in Nat /\ b * r \in Nat /\ a * r <= b * r
           /\ (a + 1) * r = a * r + r
<1>1. PICK d \in Nat : b = a + d
  <2>1. b - a \in Nat /\ b = a + (b - a)
    OBVIOUS
  <2>2. QED
    BY <2>1
<1>2. b * r = a * r + d * r
  BY <1>1
<1>3. a * r \in Nat /\ d * r \in Nat
  OBVIOUS
<1>4. (a + 1) * r = a * r + r
  OBVIOUS
<1>5. QED
  BY <1>2, <1>3, <1>4

\* An attempt pays from the budget of its visit, which is used up when the
\* node is left; and a new visit adds to the budget.
LEMMA BudgetGrows ==
    ASSUME TypeOK, NEW times \in Nat, attempt <= Retries
    PROVE  /\ Paid(times) \in Nat
           /\ times >= 1 => /\ Paying(times) \in Nat
                            /\ Paying(times) + 1 <= Paid(times)
           /\ Paid(times) <= Paid(times + 1)
           /\ Paid(times) = times * (Retries + 1)
<1>1. Retries \in Nat /\ attempt \in Nat /\ Retries + 1 \in Nat
  BY Counts
<1>2. times * (Retries + 1) \in Nat
      /\ times * (Retries + 1) <= (times + 1) * (Retries + 1)
  BY <1>1, MoreTimes
<1>3. ASSUME times >= 1
      PROVE  /\ (times - 1) * (Retries + 1) \in Nat
             /\ times * (Retries + 1) = (times - 1) * (Retries + 1) + (Retries + 1)
  <2> DEFINE before == times - 1
  <2>1. before \in Nat /\ times = before + 1
    BY <1>3
  <2>2. before * (Retries + 1) \in Nat
        /\ (before + 1) * (Retries + 1) = before * (Retries + 1) + (Retries + 1)
    BY <1>1, <2>1, MoreTimes
  <2>3. QED
    BY <2>1, <2>2
<1>4. QED
  BY <1>1, <1>2, <1>3 DEF Budget, Paid, Paying

LEMMA TotalType ==
    ASSUME TypeOK
    PROVE  /\ SumFunction(effects) \in Int
           /\ SumFunction(effects) = SumFunctionOnSet(effects, Nodes(graph))
<1>1. IsFiniteSet(Nodes(graph)) /\ \A n \in Nodes(graph) : effects[n] \in Int
  BY Counts
<1>2. DOMAIN effects = Nodes(graph)
  BY Counts
<1>3. SumFunction(effects) = SumFunctionOnSet(effects, Nodes(graph))
  BY <1>2 DEF SumFunction
<1>4. SumFunctionOnSet(effects, Nodes(graph)) \in Int
  BY <1>1, SumInt
<1>5. QED
  BY <1>3, <1>4

LEMMA CallSpends ==
    ASSUME TypeOK, TypeOK', WalkInv, CallStep
    PROVE  \E d \in {0, 1} :
              /\ effects'[at] = effects[at] + d
              /\ \A n \in Nodes(graph) : n # at => effects'[n] = effects[n]
              /\ SumFunction(effects') = SumFunction(effects) + d
              /\ d = 1 => caller # "sandbox"
              /\ d = 1 \/ phase' = "call" => attempt' = attempt + 1
<1>1. at \in Nodes(graph) /\ graph' = graph
  BY DEF WalkInv, CallStep
<1>2. CASE effects' = effects
  <2>1. SumFunction(effects') = SumFunction(effects) + 0 /\ effects'[at] = effects[at] + 0
    BY <1>1, <1>2, TotalType, Counts
  <2>2. phase' = "call" => attempt' = attempt + 1
    BY DEF CallStep
  <2>3. QED
    BY <1>2, <2>1, <2>2
<1>3. CASE attempt' = attempt + 1 /\ ~Mocked /\ TakesEffect
  <2>1. effects' = [effects EXCEPT ![at] = @ + 1]
    BY <1>3 DEF TakesEffect
  <2>2. effects \in [Nodes(graph) -> Nat] /\ effects' \in [Nodes(graph) -> Nat]
        /\ IsFiniteSet(Nodes(graph))
    BY <1>1, <2>1, Counts
  <2>3. /\ effects'[at] = effects[at] + 1
        /\ \A n \in Nodes(graph) : n # at => effects'[n] = effects[n]
    BY <1>1, <2>1, <2>2
  <2>4. SumFunctionOnSet(effects', Nodes(graph)) =
            SumFunctionOnSet(effects, Nodes(graph)) + effects'[at] - effects[at]
    <3>1. /\ \A n \in Nodes(graph) : effects[n] \in Int
          /\ \A n \in Nodes(graph) : effects'[n] \in Int
          /\ \A n \in Nodes(graph) \ {at} : effects'[n] = effects[n]
      BY <2>2, <2>3
    <3>2. QED
      BY <1>1, <2>2, <3>1, SumChange
  <2>5. SumFunction(effects') = SumFunctionOnSet(effects', Nodes(graph))
    BY <2>2 DEF SumFunction
  <2>6. SumFunction(effects') = SumFunction(effects) + 1
    BY <1>1, <2>2, <2>3, <2>4, <2>5, TotalType
  <2>7. QED
    BY <1>3, <2>3, <2>6 DEF Mocked
<1>4. QED
  BY <1>2, <1>3 DEF CallStep

LEMMA SpendInit == Init => SpendInv
<1> SUFFICES ASSUME Init PROVE SpendInv
  OBVIOUS
<1>1. TypeOK
  BY InitTypes
<1>2. /\ effects = [n \in Nodes(graph) |-> 0] /\ visits = [n \in Nodes(graph) |-> 0]
      /\ steps = 0 /\ phase = "new"
  BY DEF Init
<1>3. SumFunctionOnSet(effects, Nodes(graph)) = 0
  <2>1. \A n \in Nodes(graph) : effects[n] = 0
    BY <1>2
  <2>2. QED
    BY <1>1, <2>1, Counts, SumZero
<1>4. SumFunction(effects) = 0
  BY <1>1, <1>3, TotalType
<1>5. Paid(0) = 0 /\ 0 * (Retries + 1) = 0
  BY <1>1, Counts DEF Budget, Paid, Paying
<1>6. MaxVisits * (Retries + 1) \in Nat /\ MaxSteps * (Retries + 1) \in Nat
  BY <1>1, Counts, MoreTimes
<1>7. EffectsBounded
  BY <1>2, <1>4, <1>6 DEF EffectsBounded
<1>8. \A n \in Nodes(graph) : effects[n] = 0 /\ visits[n] = 0
  BY <1>2
<1>9. QED
  BY <1>2, <1>4, <1>5, <1>7, <1>8 DEF SpendInv, Budget, Paid, Paying

LEMMA VisitSpends ==
    ASSUME TypeOK, TypeOK', WalkInv, SpendInv, Visit
    PROVE  SpendInv'
<1>1. /\ phase = "visit" /\ at \in Nodes(graph)
      /\ UNCHANGED <<graph, at, effects, caller>> /\ attempt' = 0 /\ steps' = steps + 1
  BY VisitPlace DEF Visit
<1>2. EffectsBounded'
  BY <1>1 DEF SpendInv, EffectsBounded, Nodes
<1>3. /\ SumFunction(effects) <= steps * (Retries + 1)
      /\ \A n \in Nodes(graph) : effects[n] <= visits[n] * (Retries + 1)
  BY <1>1 DEF SpendInv, Running, Budget, Paid, Paying
<1>4. CASE phase' \notin {"call", "leave"}
  BY <1>2, <1>4, VisitPlace DEF SpendInv, Running
<1>5. CASE phase' \in {"call", "leave"}
  <2>1. visits' = [visits EXCEPT ![at] = @ + 1]
    BY <1>5, VisitPlace
  <2>2. visits'[at] = visits[at] + 1 /\ visits[at] \in Nat /\ steps \in Nat
        /\ \A n \in Nodes(graph) : n # at => visits'[n] = visits[n]
    BY <1>1, <2>1, Counts
  <2>3. /\ (visits'[at] - 1) * (Retries + 1) + attempt' = visits[at] * (Retries + 1)
        /\ (steps' - 1) * (Retries + 1) + attempt' = steps * (Retries + 1)
        /\ visits[at] * (Retries + 1) <= visits'[at] * (Retries + 1)
        /\ steps * (Retries + 1) <= steps' * (Retries + 1)
    <3>1. Retries + 1 \in Nat /\ visits'[at] - 1 = visits[at] /\ steps' - 1 = steps
      BY <1>1, <2>2, Counts
    <3>2. /\ visits[at] * (Retries + 1) \in Nat /\ steps * (Retries + 1) \in Nat
          /\ visits[at] * (Retries + 1) <= (visits[at] + 1) * (Retries + 1)
          /\ steps * (Retries + 1) <= (steps + 1) * (Retries + 1)
      BY <2>2, <3>1, MoreTimes
    <3>3. QED
      BY <1>1, <2>2, <3>1, <3>2
  <2>4. SumFunction(effects) <= Budget(steps, phase = "call")'
    <3>1. SumFunction(effects) \in Int /\ steps * (Retries + 1) \in Nat
          /\ steps' * (Retries + 1) \in Nat
      BY <1>1, <2>2, Counts, TotalType, MoreTimes
    <3>2. QED
      BY <1>3, <2>3, <3>1 DEF Budget, Paid, Paying
  <2>5. ASSUME NEW n \in Nodes(graph)
        PROVE  effects[n] <= Budget(visits[n], phase = "call" /\ n = at)'
    <3>1. effects[n] \in Nat /\ visits[n] * (Retries + 1) \in Nat
          /\ visits'[n] * (Retries + 1) \in Nat
      BY <1>1, <2>2, Counts, MoreTimes
    <3>2. CASE n = at
      BY <1>1, <1>3, <2>3, <3>1, <3>2 DEF Budget, Paid, Paying
    <3>3. CASE n # at
      BY <1>1, <1>3, <2>2, <3>1, <3>3 DEF Budget, Paid, Paying
    <3>4. QED
      BY <3>2, <3>3
  <2>6. visits'[at] >= 1 /\ steps' >= 1
    BY <1>1, <2>2
  <2>7. QED
    BY <1>1, <1>2, <2>4, <2>5, <2>6 DEF SpendInv, Nodes
<1>6. QED
  BY <1>4, <1>5

LEMMA CallsSpend ==
    ASSUME TypeOK, TypeOK', WalkInv, WalkInv', SpendInv, CallStep
    PROVE  SpendInv'
<1>1. /\ phase = "call" /\ at \in Nodes(graph) /\ attempt <= Retries
      /\ UNCHANGED <<graph, caller, at, visits, steps>>
      /\ phase' \in {"call", "leave", "close"}
  BY DEF WalkInv, CallStep
<1>2. PICK d \in {0, 1} :
          /\ effects'[at] = effects[at] + d
          /\ \A n \in Nodes(graph) : n # at => effects'[n] = effects[n]
          /\ SumFunction(effects') = SumFunction(effects) + d
          /\ d = 1 => caller # "sandbox"
          /\ d = 1 \/ phase' = "call" => attempt' = attempt + 1
  BY CallSpends
<1>3. /\ visits[at] \in Nat /\ visits[at] >= 1 /\ visits[at] <= MaxVisits
      /\ steps \in Nat /\ steps >= 1 /\ steps <= MaxSteps
      /\ attempt \in Nat /\ Retries \in Nat /\ MaxVisits \in Nat /\ MaxSteps \in Nat
  BY <1>1, Counts DEF SpendInv, WalkInv, Running
<1>4. /\ SumFunction(effects) <= Paying(steps)
      /\ effects[at] <= Paying(visits[at])
      /\ \A n \in Nodes(graph) : n # at => effects[n] <= Paid(visits[n])
  BY <1>1 DEF SpendInv, Running, Budget
<1>5. /\ Paying(steps) \in Nat /\ Paying(visits[at]) \in Nat
      /\ Paid(steps) \in Nat /\ Paid(visits[at]) \in Nat
      /\ Paying(steps) + 1 <= Paid(steps)
      /\ Paying(visits[at]) + 1 <= Paid(visits[at])
  BY <1>1, <1>3, BudgetGrows
<1>6. /\ SumFunction(effects) \in Int /\ effects[at] \in Nat
      /\ SumFunction(effects') \in Int /\ effects'[at] \in Nat
      /\ SumFunction(effects') <= SumFunction(effects) + 1
      /\ effects'[at] <= effects[at] + 1
  <2>1. d \in Int /\ d <= 1
    OBVIOUS
  <2>2. SumFunction(effects) \in Int /\ effects[at] \in Nat
    BY <1>1, Counts, TotalType
  <2>3. QED
    BY <1>2, <2>1, <2>2
<1>7. /\ SumFunction(effects') <= Paid(steps)
      /\ effects'[at] <= Paid(visits[at])
  BY <1>4, <1>5, <1>6
<1>8. EffectsBounded'
  <2>1. /\ Paid(steps) = steps * (Retries + 1)
        /\ Paid(visits[at]) = visits[at] * (Retries + 1)
    BY DEF Paid
  <2>2. /\ steps * (Retries + 1) <= MaxSteps * (Retries + 1)
        /\ visits[at] * (Retries + 1) <= MaxVisits * (Retries + 1)
        /\ MaxSteps * (Retries + 1) \in Nat /\ MaxVisits * (Retries + 1) \in Nat
    BY <1>3, MoreTimes
  <2>3. SumFunction(effects') <= MaxSteps * (Retries + 1)
    BY <1>3, <1>5, <1>6, <1>7, <2>1, <2>2
  <2>4. effects'[at] <= MaxVisits * (Retries + 1)
    BY <1>3, <1>5, <1>6, <1>7, <2>1, <2>2
  <2>5. caller' = "sandbox" => effects'[at] = 0
    BY <1>1, <1>2, <1>6 DEF SpendInv, EffectsBounded
  <2>6. QED
    BY <1>1, <1>2, <2>3, <2>4, <2>5 DEF SpendInv, EffectsBounded, Nodes
<1>9. CASE phase' = "call"
  <2>1. attempt' = attempt + 1
    BY <1>2, <1>9
  <2>2. /\ Paying(steps)' = Paying(steps) + 1
        /\ Paying(visits[at])' = Paying(visits[at]) + 1
    <3>1. (visits[at] - 1) * (Retries + 1) \in Int /\ (steps - 1) * (Retries + 1) \in Int
      BY <1>3
    <3>2. QED
      BY <1>1, <1>3, <2>1, <3>1 DEF Budget, Paid, Paying
  <2>3. /\ SumFunction(effects') <= Paying(steps)'
        /\ effects'[at] <= Paying(visits[at])'
    BY <1>4, <1>5, <1>6, <2>2
  <2>4. ASSUME NEW n \in Nodes(graph)
        PROVE  effects'[n] <= Budget(visits[n], phase = "call" /\ n = at)'
    BY <1>1, <1>2, <1>4, <1>9, <2>3 DEF Budget, Paid, Paying
  <2>5. SumFunction(effects') <= Budget(steps, phase = "call")'
    BY <1>9, <2>3 DEF Budget, Paid, Paying
  <2>6. QED
    BY <1>1, <1>3, <1>8, <2>4, <2>5 DEF SpendInv, Nodes
<1>10. CASE phase' = "leave"
  <2>1. ASSUME NEW n \in Nodes(graph)
        PROVE  effects'[n] <= Budget(visits[n], phase = "call" /\ n = at)'
    BY <1>1, <1>2, <1>4, <1>7, <1>10 DEF Budget, Paid, Paying
  <2>2. SumFunction(effects') <= Budget(steps, phase = "call")'
    BY <1>1, <1>7, <1>10 DEF Budget, Paid, Paying
  <2>3. QED
    BY <1>1, <1>8, <1>10, <2>1, <2>2 DEF SpendInv, Nodes
<1>11. CASE phase' = "close"
  BY <1>8, <1>11 DEF SpendInv, Running
<1>12. QED
  BY <1>1, <1>9, <1>10, <1>11

\* Steps that make no call and visit nothing.
LEMMA NextSpendsNothing ==
    ASSUME TypeOK, WalkInv, [Next]_vars, ~Visit, ~Call
    PROVE  /\ UNCHANGED <<graph, caller, visits, steps, effects>>
           /\ \/ phase' # "call" /\ (Running' => Running /\ phase # "call")
              \/ UNCHANGED <<phase, at, attempt>>
<1>1. CASE Begin
  BY <1>1, EnterGraphStep DEF Begin, Ended, Running
<1>2. CASE RequireCredit
  BY <1>2, EnterGraphStep DEF RequireCredit, Ended, Running
<1>3. CASE Leave
  BY <1>3, LeaveMakesStep DEF LeaveStep, TypeOK, Running
<1>4. CASE Close
  BY <1>4 DEF Close, Running
<1>5. CASE Crash
  BY <1>5 DEF Crash, Ended, Running
<1>6. CASE UNCHANGED vars
  BY <1>6 DEF vars
<1>7. QED
  BY <1>1, <1>2, <1>3, <1>4, <1>5, <1>6 DEF Next, Run

\* However the conditions come out, the calls of a node are bounded by the cap
\* on visits and its retries, those of a whole run by the cap on steps.
THEOREM EffectsAreBounded == Spec => []EffectsBounded
<1>1. TypeOK /\ WalkInv /\ SpendInv /\ [Next]_vars => SpendInv'
  <2> SUFFICES ASSUME TypeOK, WalkInv, SpendInv, [Next]_vars
               PROVE  SpendInv'
    OBVIOUS
  <2>1. TypeOK' /\ WalkInv'
    BY NextTypes
  <2>2. CASE Visit
    BY <2>1, <2>2, VisitSpends
  <2>3. CASE Call
    BY <2>1, <2>3, CallMakesStep, CallsSpend
  <2>4. CASE ~Visit /\ ~Call
    <3>1. UNCHANGED <<graph, caller, visits, steps, effects>>
      BY <2>4, NextSpendsNothing
    <3>2. EffectsBounded'
      BY <3>1 DEF SpendInv, EffectsBounded, Nodes
    <3>3. CASE UNCHANGED <<phase, at, attempt>>
      BY <3>1, <3>2, <3>3 DEF SpendInv, Running, Budget, Paid, Paying, Nodes
    <3>4. CASE phase' # "call" /\ (Running' => Running /\ phase # "call")
      BY <3>1, <3>2, <3>4 DEF SpendInv, Budget, Paid, Paying, Nodes
    <3>5. QED
      BY <2>4, <3>3, <3>4, NextSpendsNothing
  <2>5. QED
    BY <2>2, <2>3, <2>4
<1>2. SpendInv => EffectsBounded
  BY DEF SpendInv
<1>3. QED
  BY <1>1, <1>2, SpendInit, WalkInvariant, PTL DEF Spec

----------------------------------------------------------------------------
(***************************************************************************)
(* How long a run may take: a number that every step lowers.               *)
(***************************************************************************)

\* The steps a run may still take: a visit, all attempts of its call and a leave
\* for each node it may still execute, and what is left of the present one.
Round == Retries + 3
Stage ==
    CASE phase = "new" -> 3
      [] phase = "call" -> Retries + 3 - attempt
      [] phase = "visit" -> 1
      [] OTHER -> 2
Ahead ==
    IF Running THEN (MaxSteps + 1 - steps) * Round + Stage
    ELSE IF phase = "close" THEN 1 ELSE 0

\* Rounds that are left, and one round less.
LEMMA Rounds ==
    ASSUME TypeOK, WalkInv
    PROVE  /\ Round \in Nat /\ Round >= 3
           /\ Running => /\ (MaxSteps + 1 - steps) * Round \in Nat
                         /\ (MaxSteps - steps) * Round \in Nat
                         /\ (MaxSteps + 1 - steps) * Round
                               = (MaxSteps - steps) * Round + Round
                         /\ (MaxSteps + 1 - steps) * Round <= (MaxSteps + 1) * Round
                         /\ Stage \in 1..(Retries + 3)
                         /\ phase # "call" => Stage \in 1..3
           /\ (MaxSteps + 1) * Round \in Nat
<1>1. /\ Round \in Nat /\ Round >= 3 /\ MaxSteps \in Nat /\ Retries \in Nat
      /\ steps \in Nat /\ attempt \in Nat /\ Retries + 3 = Round
  BY Counts DEF Round
<1>2. ASSUME Running
      PROVE  Stage \in 1..(Retries + 3) /\ (phase # "call" => Stage \in 1..3)
  <2>1. phase = "call" => attempt <= Retries
    BY DEF WalkInv
  <2>2. QED
    BY <1>1, <2>1 DEF Stage
<1>3. ASSUME Running
      PROVE  /\ (MaxSteps + 1 - steps) * Round \in Nat
             /\ (MaxSteps - steps) * Round \in Nat
             /\ (MaxSteps + 1 - steps) * Round = (MaxSteps - steps) * Round + Round
             /\ (MaxSteps + 1 - steps) * Round <= (MaxSteps + 1) * Round
  <2> DEFINE left == MaxSteps - steps
  <2>1. steps <= MaxSteps
    BY <1>3 DEF WalkInv
  <2>2. /\ left \in Nat /\ MaxSteps + 1 - steps = left + 1
        /\ left + 1 \in Nat /\ MaxSteps + 1 \in Nat /\ left + 1 <= MaxSteps + 1
    BY <1>1, <2>1
  <2> HIDE DEF left
  <2>3. (left + 1) * Round = left * Round + Round /\ left * Round \in Nat
    BY <1>1, <2>2, MoreTimes
  <2>4. (left + 1) * Round <= (MaxSteps + 1) * Round /\ (left + 1) * Round \in Nat
    BY <1>1, <2>2, MoreTimes
  <2>5. QED
    BY <2>2, <2>3, <2>4 DEF left
<1>4. (MaxSteps + 1) * Round \in Nat
  BY <1>1, MoreTimes
<1>5. QED
  BY <1>1, <1>2, <1>3, <1>4

\* Whatever a run does next brings it nearer to its end.
LEMMA NextIsNearer ==
    ASSUME TypeOK, WalkInv, TypeOK', WalkInv', Next
    PROVE  Ahead' < Ahead
<1> DEFINE past == (MaxSteps - steps) * Round
<1>1. /\ Round \in Nat /\ Round >= 3 /\ Round = Retries + 3
      /\ Retries \in Nat /\ steps \in Nat /\ attempt \in Nat /\ MaxSteps \in Nat
  BY Rounds, Counts DEF Round
<1>2. Running => /\ past \in Nat /\ Stage \in Nat /\ Stage >= 1
                 /\ Ahead = past + Round + Stage
  BY <1>1, Rounds DEF Ahead
<1>3. Running' => Ahead' = (MaxSteps + 1 - steps') * Round + Stage'
  BY DEF Ahead, Round
<1>4. steps' = steps /\ Running /\ Running' => Ahead' = past + Round + Stage'
  BY <1>3, Rounds
<1>5. Running /\ ~Running' => Ahead' < Ahead
  BY <1>1, <1>2 DEF Ahead
<1> HIDE DEF past
<1>6. CASE Begin
  <2>1. /\ phase = "new" /\ Running /\ steps' = steps
        /\ phase' \in {"visit", "credit", "close", "done"}
    BY <1>6, EnterGraphStep DEF Begin, Ended, Running
  <2>2. Stage = 3 /\ (Running' => Stage' < 3 /\ Stage' \in Nat)
    BY <2>1 DEF Stage, Running
  <2>3. QED
    BY <1>1, <1>2, <1>4, <1>5, <2>1, <2>2
<1>7. CASE RequireCredit
  <2>1. /\ phase = "credit" /\ Running /\ steps' = steps
        /\ phase' \in {"visit", "close", "done"}
    BY <1>7, EnterGraphStep DEF RequireCredit, Ended, Running
  <2>2. Stage = 2 /\ (Running' => Stage' = 1)
    BY <2>1 DEF Stage, Running
  <2>3. QED
    BY <1>1, <1>2, <1>4, <1>5, <2>1, <2>2
<1>8. CASE Visit
  <2>1. /\ phase = "visit" /\ Running /\ steps' = steps + 1 /\ attempt' = 0
        /\ phase' \in {"call", "leave", "close"}
    BY <1>8 DEF Visit, Stop, Completed, Running
  <2>2. Stage = 1 /\ (Running' => Stage' \in Nat /\ Stage' <= Round)
    BY <1>1, <2>1 DEF Stage, Running
  <2>3. Running' => Ahead' = past + Stage'
    <3>1. MaxSteps + 1 - steps' = MaxSteps - steps
      BY <1>1, <2>1
    <3>2. QED
      BY <1>3, <3>1 DEF past
  <2>4. QED
    BY <1>1, <1>2, <1>5, <2>1, <2>2, <2>3
<1>9. CASE Call
  <2>1. CallStep
    BY <1>9, CallMakesStep
  <2>2. /\ phase = "call" /\ Running /\ steps' = steps
        /\ phase' \in {"call", "leave", "close"}
        /\ phase' = "call" => attempt' = attempt + 1
        /\ attempt <= Retries
    BY <2>1 DEF CallStep, Running, WalkInv
  <2>3. /\ Stage = Retries + 3 - attempt
        /\ Running' => Stage' \in Nat /\ Stage' < Stage
    <3>1. Stage = Retries + 3 - attempt
      BY <2>2 DEF Stage
    <3>2. phase' = "call" => Stage' = Retries + 3 - (attempt + 1)
      BY <2>2 DEF Stage
    <3>3. phase' = "leave" => Stage' = 2
      BY DEF Stage
    <3>4. attempt' = attempt + 1 /\ phase' = "call" => attempt + 1 <= Retries
      BY DEF WalkInv
    <3>5. Running' => phase' = "call" \/ phase' = "leave"
      BY <2>2 DEF Running
    <3>6. QED
      BY <1>1, <2>2, <3>1, <3>2, <3>3, <3>4, <3>5
  <2>4. QED
    BY <1>1, <1>2, <1>4, <1>5, <2>2, <2>3
<1>10. CASE Leave
  <2>1. LeaveStep
    BY <1>10, LeaveMakesStep DEF TypeOK
  <2>2. phase = "leave" /\ Running /\ steps' = steps /\ phase' \in {"visit", "close"}
    BY <2>1 DEF LeaveStep, Running
  <2>3. Stage = 2 /\ (Running' => Stage' = 1)
    BY <2>2 DEF Stage, Running
  <2>4. QED
    BY <1>1, <1>2, <1>4, <1>5, <2>2, <2>3
<1>11. CASE Close \/ Crash
  <2>1. phase' = "done" /\ phase # "done" /\ (Running \/ phase = "close")
    BY <1>11 DEF Close, Crash, Ended, Running, TypeOK, Phases
  <2>2. ~Running' /\ Ahead' = 0
    BY <2>1 DEF Ahead, Running
  <2>3. QED
    BY <1>1, <1>2, <1>5, <2>1, <2>2 DEF Ahead
<1>12. QED
  BY <1>6, <1>7, <1>8, <1>9, <1>10, <1>11 DEF Next, Run

Limit == (MaxSteps + 1) * Round + 3

\* A run of any graph is over after so many steps: whatever the conditions and
\* the calls of its nodes come to, each step is nearer to the end.
THEOREM RunsAreFinite == Spec => [](Ahead \in 0..Limit) /\ [][Ahead' < Ahead]_vars
<1> DEFINE WithinLimit == Ahead \in Nat /\ Ahead <= Limit
<1>1. TypeOK /\ WalkInv => Ahead \in Nat /\ Limit \in Nat
  <2> SUFFICES ASSUME TypeOK, WalkInv PROVE Ahead \in Nat /\ Limit \in Nat
    OBVIOUS
  <2>1. Running => (MaxSteps + 1 - steps) * Round \in Nat /\ Stage \in Nat
    BY Counts, Rounds
  <2>2. (MaxSteps + 1) * Round \in Nat
    BY Rounds
  <2>3. QED
    BY <2>1, <2>2 DEF Ahead, Limit
<1>2. Init => WithinLimit
  <2> SUFFICES ASSUME Init PROVE WithinLimit
    OBVIOUS
  <2>1. TypeOK /\ WalkInv
    BY InitTypes
  <2>2. Running /\ Stage = 3 /\ steps = 0
    BY DEF Init, Running, Stage
  <2>3. MaxSteps + 1 - steps = MaxSteps + 1
    BY <2>2, WorkflowEngineAssumption
  <2>4. Ahead = Limit
    BY <2>2, <2>3 DEF Ahead, Limit
  <2>5. QED
    BY <1>1, <2>1, <2>4
<1>3. TypeOK /\ WalkInv /\ (TypeOK /\ WalkInv)' /\ [Next]_vars => [Ahead' < Ahead]_vars
  BY NextIsNearer
<1>4. /\ Ahead \in Nat /\ Limit \in Nat /\ (Ahead \in Nat /\ Limit \in Nat)'
      /\ WithinLimit /\ [Ahead' < Ahead]_vars
      => WithinLimit'
  <2> SUFFICES ASSUME Ahead \in Nat, Limit \in Nat, Ahead' \in Nat,
                      WithinLimit, [Ahead' < Ahead]_vars
               PROVE  WithinLimit'
    OBVIOUS
  <2>1. Limit' = Limit
    BY DEF Limit, Round
  <2>2. CASE Ahead' < Ahead
    BY <2>1, <2>2
  <2>3. CASE UNCHANGED vars
    BY <2>1, <2>3 DEF vars, Ahead, Stage, Running, Round
  <2>4. QED
    BY <2>2, <2>3
<1>5. WithinLimit => Ahead \in 0..Limit
  BY WorkflowEngineAssumption DEF Limit, Round
<1> HIDE DEF WithinLimit
<1>6. QED
  BY <1>1, <1>2, <1>3, <1>4, <1>5, WalkInvariant, PTL DEF Spec

----------------------------------------------------------------------------
(***************************************************************************)
(* What the hints are worth: reachable sets, cycles and ranks of a graph.  *)
(***************************************************************************)

\* The nodes that can be reached are a closed set, and lie in every closed set
\* around those they are reached from.
LEMMA ReachableHull ==
    ASSUME NEW g, NEW F \in SUBSET Nodes(g)
    PROVE  /\ F \subseteq Reachable(g, F) /\ Reachable(g, F) \subseteq Nodes(g)
           /\ \A n \in Reachable(g, F) : Successors(g, n) \subseteq Reachable(g, F)
           /\ \A S \in SUBSET Nodes(g) :
                 F \subseteq S /\ (\A n \in S : Successors(g, n) \subseteq S)
                    => Reachable(g, F) \subseteq S
<1>1. \A S \in SUBSET Nodes(g) :
         Closed(g, S) <=> \A n \in S : Successors(g, n) \subseteq S
  BY DEF Closed, Successors
<1>2. ASSUME NEW n \in Reachable(g, F), NEW m \in Successors(g, n)
      PROVE  m \in Reachable(g, F)
  <2>1. m \in Nodes(g)
    BY <1>2 DEF Successors
  <2>2. ASSUME NEW S \in SUBSET Nodes(g), F \subseteq S, Closed(g, S) PROVE m \in S
    <3>1. n \in S
      BY <1>2, <2>2 DEF Reachable
    <3>2. QED
      BY <1>1, <1>2, <2>2, <3>1
  <2>3. QED
    BY <2>1, <2>2 DEF Reachable
<1>3. F \subseteq Reachable(g, F) /\ Reachable(g, F) \subseteq Nodes(g)
  BY DEF Reachable
<1>4. ASSUME NEW S \in SUBSET Nodes(g), F \subseteq S,
             \A n \in S : Successors(g, n) \subseteq S
      PROVE  Reachable(g, F) \subseteq S
  BY <1>1, <1>4 DEF Reachable
<1>5. QED
  BY <1>2, <1>3, <1>4

\* The search answers with a walk, the property asks whether a node can be
\* reached from itself: a walk that ends where it began shows that.
LEMMA CycleLeadsBack ==
    ASSUME NEW g, NEW walk \in Seq(Nodes(g)), IsCycle(g, walk)
    PROVE  OnCycle(g, walk[1])
<1> DEFINE F == Successors(g, walk[1])
           Off == {i \in Nat : i \in 2..Len(walk) /\ walk[i] \notin Reachable(g, F)}
<1>1. F \in SUBSET Nodes(g) /\ Len(walk) \in Nat /\ Len(walk) > 1
  BY DEF IsCycle, Successors
<1>2. \A i \in 1..(Len(walk) - 1) : walk[i + 1] \in Successors(g, walk[i])
  BY DEF IsCycle
<1> HIDE DEF F
<1>3. Off = {}
  <2> SUFFICES ASSUME Off # {} PROVE FALSE
    OBVIOUS
  <2>1. PICK i \in Off : \A j \in Off : i <= j
    BY Least
  <2>2. CASE i = 2
    <3>1. walk[2] \in F
      BY <1>1, <1>2 DEF F
    <3>2. QED
      BY <1>1, <2>1, <2>2, <3>1, ReachableHull
  <2>3. CASE i > 2
    <3>1. i - 1 \in 2..Len(walk) /\ i - 1 \notin Off
      BY <2>1, <2>3
    <3>2. walk[i - 1] \in Reachable(g, F)
      BY <3>1
    <3>3. walk[i] \in Successors(g, walk[i - 1])
      <4>1. i - 1 \in 1..(Len(walk) - 1) /\ (i - 1) + 1 = i
        BY <1>1, <2>1, <2>3
      <4>2. QED
        BY <1>2, <4>1
    <3>4. QED
      BY <1>1, <2>1, <3>2, <3>3, ReachableHull
  <2>4. QED
    BY <2>1, <2>2, <2>3
<1>4. walk[Len(walk)] \in Reachable(g, F)
  BY <1>1, <1>3
<1>5. QED
  BY <1>4 DEF IsCycle, OnCycle, F

\* Reaching a node raises the rank, so a node of a ranked part is on no cycle.
LEMMA RankForbidsCycles ==
    ASSUME NEW g, NEW S \in SUBSET Nodes(g), NoCycleIn(g, S), NEW n \in S
    PROVE  ~OnCycle(g, n)
<1>1. PICK rank \in [Nodes(g) -> Nat] :
         \A a \in S : \A b \in Successors(g, a) : b \in S /\ rank[a] < rank[b]
  BY DEF NoCycleIn
<1> DEFINE F == Successors(g, n)
           Above == {m \in S : rank[n] < rank[m]}
<1>2. F \in SUBSET Nodes(g)
  BY DEF Successors
<1>3. F \subseteq Above /\ Above \in SUBSET Nodes(g)
  BY <1>1
<1>4. \A a \in Above : Successors(g, a) \subseteq Above
  <2> SUFFICES ASSUME NEW a \in Above, NEW b \in Successors(g, a) PROVE b \in Above
    OBVIOUS
  <2>1. b \in S /\ rank[a] < rank[b] /\ rank[n] < rank[a]
    BY <1>1
  <2>2. rank[a] \in Nat /\ rank[b] \in Nat /\ rank[n] \in Nat
    BY <2>1
  <2>3. QED
    BY <2>1, <2>2
<1> HIDE DEF F
<1>5. Reachable(g, F) \subseteq Above
  BY <1>2, <1>3, <1>4, ReachableHull
<1>6. rank[n] \in Nat
  OBVIOUS
<1>7. QED
  BY <1>5, <1>6 DEF OnCycle, F

\* The part that the search has ranked is one the run cannot leave, and has no
\* cycle in the sense of AcyclicRunsOnce; so has what can be reached.
LEMMA RankIsAcyclic ==
    ASSUME NEW S \in SUBSET Nodes(graph), Starts \subseteq S, NoCycleIn(graph, S)
    PROVE  /\ Encloses(S) /\ Acyclic(graph, S)
           /\ Reachable(graph, Starts) \subseteq S
           /\ Encloses(Reachable(graph, Starts))
           /\ Acyclic(graph, Reachable(graph, Starts))
<1> DEFINE R == Reachable(graph, Starts)
<1>1. PICK rank \in [Nodes(graph) -> Nat] :
         \A a \in S : \A b \in Successors(graph, a) : b \in S /\ rank[a] < rank[b]
  BY DEF NoCycleIn
<1>2. Closed(graph, S) /\ Rises(graph, S, rank)
  BY <1>1 DEF Closed, Rises, Successors
<1>3. Starts \in SUBSET Nodes(graph) /\ Starts = OfType(graph, "start")
  BY DEF Starts, OfType
<1>4. R \subseteq S /\ Starts \subseteq R /\ \A n \in R : Successors(graph, n) \subseteq R
  BY <1>1, <1>3, ReachableHull
<1>5. R \subseteq Nodes(graph) /\ Closed(graph, R)
  BY <1>3, <1>4, ReachableHull DEF Closed, Successors
<1>6. Rises(graph, R, rank)
  BY <1>2, <1>4 DEF Rises
<1> HIDE DEF R
<1>7. Encloses(S) /\ Encloses(R)
  BY <1>2, <1>3, <1>4, <1>5 DEF Encloses
<1>8. QED
  BY <1>2, <1>4, <1>6, <1>7 DEF Acyclic, R

\* When the search is done its invariant says what the hints are worth; what it
\* says of the run comes from the theorems about runs.
LEMMA InvariantPredicts ==
    ASSUME HintInv, StaysReachable, CapsSpareAcyclic
    PROVE  HintsPredictRuns
<1> DEFINE R == Reachable(graph, Starts)
<1> SUFFICES ASSUME search = "done", Cardinality(Starts) = 1
             PROVE  /\ "unreached end" \in hints <=> ~(OfType(graph, "end") \subseteq R)
                    /\ "isolated" \in hints <=> R # Nodes(graph)
                    /\ "cycle" \in hints <=> \E n \in R : OnCycle(graph, n)
                    /\ "cycle" \in hints => IsCycle(graph, cycle) /\ cycle[1] \in R
                    /\ Visited \subseteq R
                    /\ "cycle" \notin hints =>
                        /\ \A n \in Nodes(graph) : visits[n] <= 1
                        /\ "loop" \notin warnings
                        /\ Cardinality(R) <= MaxSteps => "steps" \notin warnings
  BY DEF HintsPredictRuns
<1>1. /\ "unreached end" \in hints <=> ~(OfType(graph, "end") \subseteq R)
      /\ "isolated" \in hints <=> R # Nodes(graph)
  BY DEF HintInv, ReachedIsHinted
<1>2. Visited \subseteq R
  <2>1. Starts \in SUBSET Nodes(graph)
    BY DEF Starts, OfType
  <2>2. /\ Starts \subseteq R /\ R \subseteq Nodes(graph)
        /\ \A n \in R : Successors(graph, n) \subseteq R
    BY <2>1, ReachableHull
  <2> HIDE DEF R
  <2>3. Encloses(R)
    BY <2>1, <2>2 DEF Encloses, Starts, Closed, Successors
  <2>4. QED
    BY <2>2, <2>3 DEF StaysReachable
<1>3. CASE "cycle" \in hints
  <2>1. IsCycle(graph, cycle) /\ cycle[1] \in R
    BY <1>3 DEF HintInv, CycleIsHinted
  <2>2. OnCycle(graph, cycle[1])
    BY <2>1, CycleLeadsBack DEF HintInv, SearchTypeOK
  <2>3. QED
    BY <1>1, <1>2, <1>3, <2>1, <2>2
<1>4. CASE "cycle" \notin hints
  <2>1. PICK S \in SUBSET Nodes(graph) : Starts \subseteq S /\ NoCycleIn(graph, S)
    BY <1>4 DEF HintInv, CycleIsHinted
  <2>2. Encloses(R) /\ Acyclic(graph, R) /\ R \subseteq S
    BY <2>1, RankIsAcyclic
  <2>3. ~\E n \in R : OnCycle(graph, n)
    BY <2>1, <2>2, RankForbidsCycles
  <2>4. R \in SUBSET Nodes(graph)
    BY <2>2
  <2> HIDE DEF R
  <2>5. /\ \A n \in Nodes(graph) : visits[n] <= 1
        /\ "loop" \notin warnings
        /\ Cardinality(R) <= MaxSteps => "steps" \notin warnings
    BY <2>2, <2>4 DEF CapsSpareAcyclic
  <2>6. QED
    BY <1>1, <1>2, <1>4, <2>3, <2>5 DEF R
<1>5. QED
  BY <1>3, <1>4

----------------------------------------------------------------------------
(***************************************************************************)
(* _topology_warnings and _detect_cycle keep the invariant of the search.  *)
(***************************************************************************)

\* Before anything has been looked at.
LEMMA HintInitially == ASSUME HintsInit PROVE HintInv
BY DEF HintsInit, HintInv, SearchTypeOK, SpreadInv, ReachedIsHinted, PathInv, BlackInv,
       TraceInv, CycleIsHinted, White, Colors

\* Nothing the search does touches the graph, so what is defined by the graph
\* stays the same.
SameGraph ==
    /\ graph' = graph /\ Starts' = Starts /\ White' = White
    /\ Reachable(graph, Starts)' = Reachable(graph, Starts)

\* That is all a step of the search needs to know of the graph.
LEMMA GraphStays == ASSUME graph' = graph PROVE SameGraph
BY DEF SameGraph, Starts, White, OfType, Nodes, Reachable, Closed

\* A step that leaves the path, its parents and the colours alone keeps what
\* is known of them.
LEMMA PathStays ==
    ASSUME PathInv, search \in {"explore", "trace"}, graph' = graph,
           UNCHANGED <<color, parent, path>>
    PROVE  PathInv'
<1>1. SameGraph
  BY GraphStays
<1>2. /\ path' # <<>> /\ path'[1] \in Starts' /\ path'[1] \notin DOMAIN parent'
      /\ \A i \in 1..Len(path') : path'[i] \in Reachable(graph, Starts)'
      /\ \A i, j \in 1..Len(path') : path'[i] = path'[j] => i = j
  <2>1. /\ path # <<>> /\ path[1] \in Starts /\ path[1] \notin DOMAIN parent
        /\ \A i \in 1..Len(path) : path[i] \in Reachable(graph, Starts)
        /\ \A i, j \in 1..Len(path) : path[i] = path[j] => i = j
    BY DEF PathInv
  <2>2. QED
    BY <1>1, <2>1 DEF SameGraph
<1>3. \A n \in Nodes(graph') :
          color'[n] = "gray" <=> \E i \in 1..Len(path') : path'[i] = n
  <2>1. \A n \in Nodes(graph) :
            color[n] = "gray" <=> \E i \in 1..Len(path) : path[i] = n
    BY DEF PathInv
  <2>2. QED
    BY <2>1
<1>4. \A i \in 1..Len(path') :
          i > 1 => /\ path'[i] \in DOMAIN parent'
                   /\ parent'[path'[i]] = path'[i - 1]
                   /\ path'[i] \in Successors(graph', path'[i - 1])
  <2>1. \A i \in 1..Len(path) :
            i > 1 => /\ path[i] \in DOMAIN parent
                     /\ parent[path[i]] = path[i - 1]
                     /\ path[i] \in Successors(graph, path[i - 1])
    BY DEF PathInv
  <2>2. QED
    BY <2>1
<1>5. QED
  BY <1>2, <1>3, <1>4 DEF PathInv

\* _topology_warnings begins: only a graph with one start node is searched.
LEMMA StartSearches ==
    ASSUME HintInv, StartSearch, graph' = graph
    PROVE  HintInv'
<1>1. SameGraph
  BY GraphStays
<1> DEFINE R == Reachable(graph, Starts)
<1>2. Starts \in SUBSET Nodes(graph)
  BY DEF Starts, OfType
<1>3. CASE Cardinality(Starts) = 1
  <2>1. /\ search' = "spread" /\ pending' = Starts
        /\ UNCHANGED <<hints, found, color, parent, path, node, cycle>>
    BY <1>3 DEF StartSearch
  <2>2. SearchTypeOK'
    BY <1>1, <1>2, <1>3, <2>1 DEF HintInv, SearchTypeOK, SameGraph, Nodes
  <2>3. SpreadInv'
    <3>1. Starts \subseteq R
      BY <1>2, ReachableHull
    <3>2. found = {} /\ color = White /\ parent = <<>>
      BY DEF HintInv, SearchTypeOK, StartSearch
    <3>3. QED
      BY <1>1, <2>1, <3>1, <3>2 DEF SpreadInv, SameGraph
  <2>4. QED
    BY <1>3, <2>1, <2>2, <2>3 DEF HintInv, ReachedIsHinted, PathInv, BlackInv,
       TraceInv, CycleIsHinted
<1>4. CASE Cardinality(Starts) # 1
  BY <1>1, <1>4 DEF StartSearch, HintInv, SearchTypeOK, SpreadInv, ReachedIsHinted,
     PathInv, BlackInv, TraceInv, CycleIsHinted, SameGraph, Nodes
<1>5. QED
  BY <1>3, <1>4

\* A node is looked at: its successors can be reached as it can.
LEMMA Spreads ==
    ASSUME HintInv, NEW u \in Nodes(graph), Spread(u), graph' = graph
    PROVE  HintInv'
<1> DEFINE R == Reachable(graph, Starts)
<1>1. SameGraph
  BY GraphStays
<1>2. Starts \in SUBSET Nodes(graph)
  BY DEF Starts, OfType
<1>3. /\ search = "spread" /\ search' = "spread" /\ u \in pending
      /\ found' = found \cup {u}
      /\ pending' = (pending \cup Successors(graph, u)) \ found'
      /\ UNCHANGED <<color, parent, path, node, cycle, hints>>
  BY DEF Spread
<1>4. /\ found \subseteq Nodes(graph) /\ pending \subseteq Nodes(graph)
      /\ color = White /\ parent = <<>>
      /\ Starts \subseteq found \cup pending
      /\ found \cup pending \subseteq R
      /\ \A n \in found : Successors(graph, n) \subseteq found \cup pending
  BY <1>3 DEF HintInv, SearchTypeOK, SpreadInv
<1>5. Successors(graph, u) \subseteq R /\ Successors(graph, u) \subseteq Nodes(graph)
  BY <1>2, <1>3, <1>4, ReachableHull DEF Successors
<1>6. found' \cup pending' = found \cup pending \cup Successors(graph, u)
  BY <1>3
<1>7. \A n \in found' : Successors(graph, n) \subseteq found' \cup pending'
  BY <1>3, <1>4, <1>6
<1>8. SearchTypeOK'
  <2>1. found' \subseteq Nodes(graph) /\ pending' \subseteq Nodes(graph)
    BY <1>3, <1>4, <1>5
  <2>2. QED
    BY <1>1, <1>3, <2>1 DEF HintInv, SearchTypeOK, SameGraph, Nodes
<1>9. SpreadInv'
  <2>1. Starts \subseteq found' \cup pending' /\ found' \cup pending' \subseteq R
    BY <1>4, <1>5, <1>6
  <2> HIDE DEF R
  <2>2. \A n \in found' : Successors(graph', n) \subseteq found' \cup pending'
    BY <1>7
  <2>3. QED
    BY <1>1, <1>3, <1>4, <2>1, <2>2 DEF SpreadInv, SameGraph, R
<1>10. QED
  BY <1>3, <1>8, <1>9 DEF HintInv, ReachedIsHinted, PathInv, BlackInv, TraceInv,
     CycleIsHinted

\* When nothing is pending, what was found is closed, hence all of what can be
\* reached; the path begins at the start node.
LEMMA HintsReached ==
    ASSUME HintInv, HintReached, graph' = graph, GraphOK(graph)
    PROVE  HintInv'
<1> DEFINE R == Reachable(graph, Starts)
<1>1. SameGraph
  BY GraphStays
<1>2. Starts \in SUBSET Nodes(graph)
  BY DEF Starts, OfType
<1>3. /\ search = "spread" /\ search' = "explore" /\ pending = {} /\ found' = {}
      /\ UNCHANGED <<pending, parent, node, cycle>>
  BY DEF HintReached
<1>s. PICK s \in Starts : color' = [color EXCEPT ![s] = "gray"] /\ path' = <<s>>
  BY DEF HintReached
<1>4. /\ found \subseteq Nodes(graph) /\ color = White /\ parent = <<>>
      /\ Starts \subseteq found /\ found \subseteq R
      /\ \A n \in found : Successors(graph, n) \subseteq found
  BY <1>3 DEF HintInv, SearchTypeOK, SpreadInv
<1>5. found = R
  BY <1>2, <1>4, ReachableHull
<1>6. SearchTypeOK'
  <2>1. path' \in Seq(Nodes(graph)) /\ cycle' \in Seq(Nodes(graph))
    BY <1>2, <1>s, <1>3 DEF HintInv, SearchTypeOK
  <2>2. color' \in [Nodes(graph) -> Colors]
    BY <1>4, <1>s DEF White, Colors
  <2>3. Cardinality(Starts') = 1
    BY <1>1, <1>3 DEF HintInv, SearchTypeOK, SameGraph
  <2>4. QED
    BY <1>3, <2>1, <2>2, <2>3 DEF HintInv, SearchTypeOK
<1>7. ReachedIsHinted'
  <2>1. LET unreached == Nodes(graph) \ found
        IN  hints' = Note("unreached end", OfType(graph, "end") \cap unreached # {})
                     \cup Note("isolated", unreached # {})
    BY DEF HintReached
  <2>2. /\ "unreached end" \in hints' <=> OfType(graph, "end") \cap (Nodes(graph) \ found) # {}
        /\ "isolated" \in hints' <=> Nodes(graph) \ found # {}
        /\ "cycle" \notin hints'
    BY <2>1 DEF Note
  <2>3. /\ "unreached end" \in hints' <=> ~(OfType(graph, "end") \subseteq found)
        /\ "isolated" \in hints' <=> found # Nodes(graph)
    BY <1>4, <2>2 DEF OfType
  <2>4. QED
    BY <1>1, <1>5, <2>2, <2>3 DEF ReachedIsHinted, SameGraph, OfType, Nodes
<1>8. PathInv'
  <2>1. /\ Len(path') = 1 /\ path'[1] = s /\ path' # <<>> /\ DOMAIN parent' = {}
        /\ \A i \in 1..1 : i = 1
    BY <1>s, <1>3, <1>4
  <2>2. s \in R /\ s \in Starts'
    BY <1>1, <1>4, <1>5 DEF SameGraph
  <2>3. \A n \in Nodes(graph) : color'[n] = "gray" <=> n = s
    BY <1>2, <1>4, <1>s DEF White
  <2>4. R' = R
    BY <1>1 DEF SameGraph
  <2> HIDE DEF R
  <2>5. QED
    BY <2>1, <2>2, <2>3, <2>4 DEF PathInv, Nodes, R
<1>9. BlackInv'
  <2>1. Black' = {}
    BY <1>4, <1>s DEF Black, White, Nodes
  <2>2. [n \in Nodes(graph) |-> 0] \in [Nodes(graph) -> Nat]
    OBVIOUS
  <2>3. NoCycleIn(graph', {})
    BY <2>2 DEF NoCycleIn
  <2>4. QED
    BY <2>1, <2>3 DEF BlackInv
<1>10. QED
  BY <1>3, <1>6, <1>7, <1>8, <1>9 DEF HintInv, SpreadInv, TraceInv, CycleIsHinted

\* The node on top of the path is gray and can be reached, as its successors.
LEMMA OnPath ==
    ASSUME HintInv, search = "explore"
    PROVE  /\ path \in Seq(Nodes(graph)) /\ Len(path) \in Nat /\ Len(path) >= 1
           /\ Len(path) \in 1..Len(path)
           /\ \A i \in 1..Len(path) : path[i] \in Nodes(graph)
           /\ Top \in Nodes(graph) /\ color[Top] = "gray"
           /\ Starts \in SUBSET Nodes(graph)
           /\ Top \in Reachable(graph, Starts)
           /\ Successors(graph, Top) \subseteq Reachable(graph, Starts)
           /\ Successors(graph, Top) \subseteq Nodes(graph)
<1>1. path \in Seq(Nodes(graph)) /\ path # <<>>
  BY DEF HintInv, SearchTypeOK, PathInv
<1>2. Len(path) \in Nat /\ Len(path) >= 1 /\ Len(path) \in 1..Len(path)
  BY <1>1
<1>3. \A i \in 1..Len(path) : path[i] \in Nodes(graph)
  BY <1>1
<1>4. Top \in Nodes(graph) /\ color[Top] = "gray"
  BY <1>2, <1>3 DEF Top, HintInv, PathInv
<1>5. Starts \in SUBSET Nodes(graph)
  BY DEF Starts, OfType
<1>6. Top \in Reachable(graph, Starts)
  BY <1>2 DEF Top, HintInv, PathInv
<1>7. Successors(graph, Top) \subseteq Reachable(graph, Starts)
  BY <1>5, <1>6, ReachableHull
<1>8. QED
  BY <1>1, <1>2, <1>3, <1>4, <1>5, <1>6, <1>7 DEF Successors

\* dfs calls itself on a white node, which is on the path from then on.
LEMMA Descends ==
    ASSUME HintInv, NEW v \in Nodes(graph), Descend(v), graph' = graph
    PROVE  HintInv'
<1> DEFINE R == Reachable(graph, Starts)
           L == Len(path)
<1>1. SameGraph
  BY GraphStays
<1>2. /\ search = "explore" /\ search' = "explore" /\ v \in Successors(graph, Top)
      /\ color[v] = "white"
      /\ parent' = [n \in DOMAIN parent \cup {v} |-> IF n = v THEN Top ELSE parent[n]]
      /\ color' = [color EXCEPT ![v] = "gray"]
      /\ path' = Append(path, v)
      /\ UNCHANGED <<found, pending, node, cycle, hints>>
  BY DEF Descend
<1>3. /\ path \in Seq(Nodes(graph)) /\ L \in Nat /\ L >= 1
      /\ \A i \in 1..L : path[i] \in Nodes(graph)
      /\ v \in R
  BY <1>2, OnPath
<1>4. color \in [Nodes(graph) -> Colors]
  BY DEF HintInv, SearchTypeOK
<1>5. /\ Len(path') = L + 1 /\ path'[L + 1] = v
      /\ \A i \in 1..L : path'[i] = path[i]
  BY <1>2, <1>3
<1>6. SearchTypeOK'
  <2>1. path' \in Seq(Nodes(graph)) /\ color' \in [Nodes(graph) -> Colors]
    BY <1>2, <1>3, <1>4 DEF Colors
  <2>2. QED
    BY <1>1, <1>2, <2>1 DEF HintInv, SearchTypeOK, SameGraph, Nodes
<1>7. PathInv'
  <2>p. /\ path[1] \in Starts /\ path[1] \notin DOMAIN parent
        /\ \A i \in 1..L : path[i] \in R
        /\ \A i, j \in 1..L : path[i] = path[j] => i = j
        /\ \A n \in Nodes(graph) : color[n] = "gray" <=> \E i \in 1..L : path[i] = n
        /\ \A i \in 1..L :
              i > 1 => /\ path[i] \in DOMAIN parent
                       /\ parent[path[i]] = path[i - 1]
                       /\ path[i] \in Successors(graph, path[i - 1])
    BY <1>2 DEF HintInv, PathInv
  <2>1. \A i \in 1..L : path[i] # v
    BY <1>2, <2>p
  <2>2. \A i \in 1..(L + 1) : i \in 1..L \/ i = L + 1
    BY <1>3
  <2> HIDE DEF R
  <2>3. path' # <<>> /\ path'[1] \in Starts /\ path'[1] \notin DOMAIN parent'
    BY <1>2, <1>3, <1>5, <2>p, <2>1
  <2>4. \A i \in 1..Len(path') : path'[i] \in R
    BY <1>3, <1>5, <2>p, <2>2
  <2>5. \A i, j \in 1..Len(path') : path'[i] = path'[j] => i = j
    BY <1>3, <1>5, <2>p, <2>1, <2>2
  <2>6. \A n \in Nodes(graph) :
           color'[n] = "gray" <=> \E i \in 1..Len(path') : path'[i] = n
    <3> SUFFICES ASSUME NEW n \in Nodes(graph)
                 PROVE  color'[n] = "gray" <=> \E i \in 1..(L + 1) : path'[i] = n
      BY <1>5
    <3>1. CASE n = v
      <4>1. color'[n] = "gray"
        BY <1>2, <1>4, <3>1
      <4>2. L + 1 \in 1..(L + 1)
        BY <1>3
      <4>3. QED
        BY <1>5, <3>1, <4>1, <4>2
    <3>2. CASE n # v
      <4>1. color'[n] = color[n]
        BY <1>2, <1>4, <3>2
      <4>2. \A i \in 1..L : i \in 1..(L + 1)
        BY <1>3
      <4>3. (\E i \in 1..(L + 1) : path'[i] = n) <=> \E i \in 1..L : path[i] = n
        BY <1>5, <2>2, <3>2, <4>2
      <4>4. QED
        BY <2>p, <4>1, <4>3
    <3>3. QED
      BY <3>1, <3>2
  <2>7. \A i \in 1..Len(path') :
           i > 1 => /\ path'[i] \in DOMAIN parent'
                    /\ parent'[path'[i]] = path'[i - 1]
                    /\ path'[i] \in Successors(graph, path'[i - 1])
    <3> SUFFICES ASSUME NEW i \in 1..(L + 1), i > 1
                 PROVE  /\ path'[i] \in DOMAIN parent'
                        /\ parent'[path'[i]] = path'[i - 1]
                        /\ path'[i] \in Successors(graph, path'[i - 1])
      BY <1>5
    <3>1. CASE i = L + 1
      <4>1. i - 1 = L /\ L \in 1..L
        BY <1>3, <3>1
      <4>2. path'[i - 1] = Top
        BY <1>5, <4>1 DEF Top
      <4>3. QED
        BY <1>2, <1>5, <3>1, <4>2
    <3>2. CASE i # L + 1
      <4>1. i \in 1..L /\ i - 1 \in 1..L
        BY <1>3, <3>2
      <4>2. path'[i] = path[i] /\ path'[i - 1] = path[i - 1] /\ path[i] # v
        BY <1>5, <2>1, <4>1
      <4>3. QED
        BY <1>2, <2>p, <4>1, <4>2
    <3>3. QED
      BY <3>1, <3>2
  <2>8. R' = R /\ Starts' = Starts /\ graph' = graph
    BY <1>1 DEF SameGraph, R
  <2>9. QED
    BY <2>3, <2>4, <2>5, <2>6, <2>7, <2>8 DEF PathInv, R
<1>8. BlackInv'
  <2>1. Black' = Black
    BY <1>1, <1>2, <1>4 DEF Black, SameGraph, Nodes
  <2>2. QED
    BY <1>1, <1>2, <2>1 DEF HintInv, BlackInv, SameGraph, NoCycleIn, Nodes, Successors
<1>9. QED
  <2>1. ReachedIsHinted'
    BY <1>1, <1>2 DEF HintInv, ReachedIsHinted, SameGraph, OfType, Nodes
  <2>2. QED
    BY <1>2, <1>6, <1>7, <1>8, <2>1 DEF HintInv, SpreadInv, TraceInv, CycleIsHinted

\* dfs meets a gray node: it is on the path, so the rest of the path closes.
LEMMA MeetsGray ==
    ASSUME HintInv, NEW v \in Nodes(graph), MeetGray(v), graph' = graph
    PROVE  HintInv'
<1>1. SameGraph
  BY GraphStays
<1>2. /\ search = "explore" /\ search' = "trace" /\ v \in Successors(graph, Top)
      /\ color[v] = "gray" /\ node' = Top /\ cycle' = <<v>>
      /\ UNCHANGED <<found, pending, color, parent, path, hints>>
  BY DEF MeetGray
<1>3. SearchTypeOK'
  <2>1. cycle' \in Seq(Nodes(graph))
    BY <1>2
  <2>2. Nodes(graph') = Nodes(graph)
    OBVIOUS
  <2>3. QED
    BY <1>1, <1>2, <2>1, <2>2 DEF HintInv, SearchTypeOK, SameGraph
<1>4. PathInv'
  BY <1>1, <1>2 DEF HintInv, PathInv, SameGraph, Nodes, Successors
<1>5. TraceInv'
  <2> DEFINE L == Len(path)
  <2>1. L \in Nat /\ L \in 1..L
    BY <1>2, OnPath
  <2>2. PICK j \in 1..L : path[j] = v
    BY <1>2 DEF HintInv, PathInv
  <2>3. Rest(L, j) = <<v>>
    <3>1. L - L + 1 = 1 /\ \A i \in 1..1 : i = 1 /\ ~(i <= L - L)
      BY <2>1
    <3>2. Rest(L, j) = [i \in 1..1 |-> path[j]]
      BY <3>1 DEF Rest
    <3>3. QED
      BY <2>2, <3>2
  <2>4. node' = path[L] /\ cycle' = Rest(L, j) /\ path[j] \in Successors(graph, Top)
    BY <1>2, <2>2, <2>3 DEF Top
  <2>5. \E k \in 1..L : \E m \in 1..k :
           /\ node' = path[k] /\ cycle' = Rest(k, m)
           /\ path[m] \in Successors(graph, Top)
    BY <2>1, <2>2, <2>4
  <2>6. QED
    BY <1>1, <1>2, <2>5 DEF TraceInv, Rest, Top, SameGraph
<1>6. QED
  <2>1. ReachedIsHinted'
    BY <1>1, <1>2 DEF HintInv, ReachedIsHinted, SameGraph, OfType, Nodes
  <2>2. QED
    BY <1>2, <1>3, <1>4, <1>5, <2>1 DEF HintInv, SpreadInv, BlackInv, CycleIsHinted

\* A node whose edges all lead into a ranked part can be ranked below it.
LEMMA RankGrows ==
    ASSUME NEW g, NEW S \in SUBSET Nodes(g), NoCycleIn(g, S),
           NEW n \in Nodes(g), n \notin S, Successors(g, n) \subseteq S
    PROVE  NoCycleIn(g, S \cup {n})
<1>1. PICK rank \in [Nodes(g) -> Nat] :
         \A a \in S : \A b \in Successors(g, a) : b \in S /\ rank[a] < rank[b]
  BY DEF NoCycleIn
<1> DEFINE above == [m \in Nodes(g) |-> IF m = n THEN 0 ELSE rank[m] + 1]
<1>2. above \in [Nodes(g) -> Nat]
  OBVIOUS
<1>3. ASSUME NEW a \in S \cup {n}, NEW b \in Successors(g, a)
      PROVE  b \in S \cup {n} /\ above[a] < above[b]
  <2>1. CASE a = n
    <3>1. b \in S /\ b # n /\ rank[b] \in Nat
      BY <1>3, <2>1
    <3>2. above[a] = 0 /\ above[b] = rank[b] + 1
      BY <2>1, <3>1
    <3>3. QED
      BY <3>1, <3>2
  <2>2. CASE a # n
    <3>1. /\ a \in S /\ b \in S /\ b # n /\ rank[a] < rank[b]
          /\ rank[a] \in Nat /\ rank[b] \in Nat
      BY <1>1, <1>3, <2>2
    <3>2. above[a] = rank[a] + 1 /\ above[b] = rank[b] + 1
      BY <2>2, <3>1
    <3>3. QED
      BY <3>1, <3>2
  <2>3. QED
    BY <2>1, <2>2
<1> HIDE DEF above
<1>4. QED
  BY <1>2, <1>3 DEF NoCycleIn

\* dfs returns: a node with black successors only turns black, below them all.
\* When the last call returns there is a rank for the part around the start.
LEMMA CallReturns ==
    ASSUME HintInv, Return, graph' = graph, GraphOK(graph)
    PROVE  HintInv'
<1> DEFINE R == Reachable(graph, Starts)
           L == Len(path)
<1>1. SameGraph
  BY GraphStays
<1>2. /\ search = "explore" /\ UNCHANGED <<found, pending, cycle, hints>>
      /\ \A v \in Successors(graph, Top) : color[v] = "black"
  BY DEF Return
<1>3. /\ path \in Seq(Nodes(graph)) /\ L \in Nat /\ L >= 1 /\ L \in 1..L
      /\ \A i \in 1..L : path[i] \in Nodes(graph)
      /\ Top \in Nodes(graph) /\ color[Top] = "gray"
      /\ Starts \in SUBSET Nodes(graph)
      /\ Successors(graph, Top) \subseteq Nodes(graph)
  BY <1>2, OnPath
<1>4. color \in [Nodes(graph) -> Colors] /\ Cardinality(Starts) = 1
  BY <1>2 DEF HintInv, SearchTypeOK
<1>5. NoCycleIn(graph, Black \cup {Top})
  <2>1. Black \in SUBSET Nodes(graph) /\ Top \notin Black
    BY <1>3 DEF Black
  <2>2. Successors(graph, Top) \subseteq Black
    BY <1>2, <1>3 DEF Black
  <2>3. NoCycleIn(graph, Black)
    BY <1>2 DEF HintInv, BlackInv
  <2>4. QED
    BY <1>3, <2>1, <2>2, <2>3, RankGrows
<1>6. CASE Len(path) = 1
  <2>1. search' = "done" /\ color' = White /\ parent' = <<>> /\ path' = <<>>
    BY <1>6 DEF Return, Forget
  <2>2. SearchTypeOK'
    <3>1. White \in [Nodes(graph) -> Colors] /\ <<>> \in Seq(Nodes(graph))
      BY DEF White, Colors
    <3>2. Nodes(graph') = Nodes(graph)
      OBVIOUS
    <3>3. QED
      BY <1>2, <2>1, <3>1, <3>2 DEF HintInv, SearchTypeOK
  <2>3. ReachedIsHinted'
    BY <1>1, <1>2, <1>4, <2>1 DEF HintInv, ReachedIsHinted, SameGraph, OfType, Nodes
  <2>4. CycleIsHinted'
    <3>1. Starts \subseteq Black \cup {Top}
      <4>1. Top \in Starts
        BY <1>2, <1>6 DEF HintInv, PathInv, Top
      <4>2. PICK s : Starts = {s}
        <5>1. IsFiniteSet(Starts)
          BY <1>3, WorkflowEngineAssumption, FS_Subset DEF GraphOK, Nodes
        <5>2. QED
          BY <1>4, <5>1, FS_Singleton
      <4>3. QED
        BY <4>1, <4>2
    <3>2. "cycle" \notin hints
      BY <1>2, <1>4 DEF HintInv, ReachedIsHinted
    <3>3. Black \cup {Top} \in SUBSET Nodes(graph)
      BY <1>3 DEF Black
    <3>4. \E S \in SUBSET Nodes(graph) : Starts \subseteq S /\ NoCycleIn(graph, S)
      BY <1>5, <3>1, <3>3
    <3>5. QED
      <4>1. Starts' = Starts /\ graph' = graph
        BY <1>1 DEF SameGraph
      <4>2. \E S \in SUBSET Nodes(graph') : Starts' \subseteq S /\ NoCycleIn(graph', S)
        BY <3>4, <4>1
      <4>3. "cycle" \notin hints'
        BY <1>2, <3>2
      <4>4. QED
        BY <4>2, <4>3 DEF CycleIsHinted
  <2>5. QED
    BY <2>1, <2>2, <2>3, <2>4 DEF HintInv, SpreadInv, PathInv, BlackInv, TraceInv
<1>7. CASE Len(path) # 1
  <2>1. /\ color' = [color EXCEPT ![Top] = "black"]
        /\ path' = SubSeq(path, 1, L - 1)
        /\ UNCHANGED <<search, parent, node>>
    BY <1>7 DEF Return
  <2>2. /\ Len(path') = L - 1 /\ L - 1 \in Nat /\ L - 1 >= 1
        /\ \A i \in 1..(L - 1) : path'[i] = path[i] /\ i \in 1..L /\ i # L
    <3>1. L - 1 \in Nat /\ L - 1 >= 1
      <4>1. L \in Nat /\ L >= 1 /\ L # 1
        BY <1>3, <1>7
      <4> HIDE DEF L
      <4>2. QED
        BY <4>1
    <3>2. \A i \in 1..(L - 1) : i \in 1..L /\ i # L
      BY <1>3
    <3>3. 1 \in 1..L /\ L - 1 \in 1..L
      BY <1>3, <3>1
    <3> HIDE DEF L
    <3>4. Len(path') = L - 1 /\ \A i \in 1..(L - 1) : path'[i] = path[i]
      BY <1>3, <2>1, <3>1, <3>3
    <3>5. QED
      BY <3>1, <3>2, <3>4
  <2>3. SearchTypeOK'
    <3>1. path' \in Seq(Nodes(graph))
      BY <1>3, <2>1, <2>2
    <3>2. color' \in [Nodes(graph) -> Colors]
      BY <1>4, <2>1 DEF Colors
    <3>3. Nodes(graph') = Nodes(graph)
      OBVIOUS
    <3>4. QED
      BY <1>1, <1>2, <2>1, <3>1, <3>2, <3>3 DEF HintInv, SearchTypeOK, SameGraph
  <2>4. PathInv'
    <3>p. /\ path[1] \in Starts /\ path[1] \notin DOMAIN parent
          /\ \A i \in 1..L : path[i] \in R
          /\ \A i, j \in 1..L : path[i] = path[j] => i = j
          /\ \A n \in Nodes(graph) : color[n] = "gray" <=> \E i \in 1..L : path[i] = n
          /\ \A i \in 1..L :
                i > 1 => /\ path[i] \in DOMAIN parent
                         /\ parent[path[i]] = path[i - 1]
                         /\ path[i] \in Successors(graph, path[i - 1])
      BY <1>2 DEF HintInv, PathInv
    <3> HIDE DEF R
    <3>1. path' # <<>> /\ path'[1] \in Starts /\ path'[1] \notin DOMAIN parent'
      BY <1>3, <2>1, <2>2, <3>p
    <3>2. /\ \A i \in 1..Len(path') : path'[i] \in R
          /\ \A i, j \in 1..Len(path') : path'[i] = path'[j] => i = j
      BY <2>2, <3>p
    <3>3. \A n \in Nodes(graph) :
             color'[n] = "gray" <=> \E i \in 1..Len(path') : path'[i] = n
      <4> SUFFICES ASSUME NEW n \in Nodes(graph)
                   PROVE  color'[n] = "gray" <=> \E i \in 1..(L - 1) : path'[i] = n
        BY <2>2
      <4>1. CASE n = Top
        <5>1. color'[n] # "gray"
          BY <1>3, <1>4, <2>1, <4>1
        <5>2. \A i \in 1..(L - 1) : path'[i] # n
          BY <1>3, <2>2, <3>p, <4>1 DEF Top
        <5>3. QED
          BY <5>1, <5>2
      <4>2. CASE n # Top
        <5>1. color'[n] = color[n]
          BY <1>4, <2>1, <4>2
        <5>2. \A i \in 1..L : path[i] = n => i \in 1..(L - 1)
          <6> SUFFICES ASSUME NEW i \in 1..L, path[i] = n PROVE i \in 1..(L - 1)
            OBVIOUS
          <6>1. i # L
            BY <4>2 DEF Top
          <6>2. QED
            BY <1>3, <6>1
        <5>3. (\E i \in 1..(L - 1) : path'[i] = n) <=> \E i \in 1..L : path[i] = n
          BY <2>2, <5>2
        <5>4. QED
          BY <3>p, <5>1, <5>3
      <4>3. QED
        BY <4>1, <4>2
    <3>4. \A i \in 1..Len(path') :
             i > 1 => /\ path'[i] \in DOMAIN parent'
                      /\ parent'[path'[i]] = path'[i - 1]
                      /\ path'[i] \in Successors(graph, path'[i - 1])
      <4> SUFFICES ASSUME NEW i \in 1..(L - 1), i > 1
                   PROVE  /\ path'[i] \in DOMAIN parent'
                          /\ parent'[path'[i]] = path'[i - 1]
                          /\ path'[i] \in Successors(graph, path'[i - 1])
        BY <2>2
      <4>1. i - 1 \in 1..(L - 1)
        BY <2>2
      <4>2. path'[i] = path[i] /\ path'[i - 1] = path[i - 1] /\ i \in 1..L
        BY <2>2, <4>1
      <4>3. QED
        BY <2>1, <3>p, <4>2
    <3>5. R' = R /\ Starts' = Starts /\ graph' = graph
      BY <1>1 DEF SameGraph, R
    <3>6. QED
      BY <3>1, <3>2, <3>3, <3>4, <3>5 DEF PathInv, R
  <2>5. BlackInv'
    <3>1. Black' = Black \cup {Top}
      BY <1>3, <1>4, <2>1 DEF Black, Nodes
    <3>2. QED
      BY <1>5, <3>1 DEF BlackInv, NoCycleIn, Nodes, Successors
  <2>6. ReachedIsHinted'
    BY <1>1, <1>2, <2>1 DEF HintInv, ReachedIsHinted, SameGraph, OfType, Nodes
  <2>7. QED
    BY <1>2, <2>1, <2>3, <2>4, <2>5, <2>6 DEF HintInv, SpreadInv, TraceInv, CycleIsHinted
<1>8. QED
  BY <1>6, <1>7

\* A sequence with one element more in front.
LEMMA Prepended ==
    ASSUME NEW S, NEW s \in Seq(S), NEW x \in S
    PROVE  /\ <<x>> \o s \in Seq(S) /\ Len(<<x>> \o s) = Len(s) + 1
           /\ (<<x>> \o s)[1] = x
           /\ \A i \in 2..(Len(s) + 1) : (<<x>> \o s)[i] = s[i - 1]
OBVIOUS

\* The rest of the path: its places, and how it grows by the node before.
LEMMA RestOfPath ==
    ASSUME path \in Seq(Nodes(graph)), Len(path) >= 1,
           NEW k \in 0..Len(path), NEW j \in 1..Len(path)
    PROVE  /\ Rest(k, j) \in Seq(Nodes(graph))
           /\ Len(Rest(k, j)) = Len(path) - k + 1
           /\ Rest(k, j)[Len(path) - k + 1] = path[j]
           /\ \A i \in 1..(Len(path) - k) : Rest(k, j)[i] = path[k + i]
           /\ k > 0 => <<path[k]>> \o Rest(k, j) = Rest(k - 1, j)
<1> DEFINE L == Len(path)
<1>1. L \in Nat /\ \A i \in 1..L : path[i] \in Nodes(graph)
  OBVIOUS
<1> HIDE DEF L
<1>2. k \in Nat /\ j \in 1..L /\ L - k \in Nat
  BY <1>1 DEF L
<1>3. Rest(k, j) = [i \in 1..(L - k + 1) |-> IF i <= L - k THEN path[k + i] ELSE path[j]]
  BY DEF Rest, L
<1>4. \A i \in 1..(L - k) : k + i \in 1..L
  BY <1>1, <1>2
<1>5. Rest(k, j) \in Seq(Nodes(graph)) /\ Len(Rest(k, j)) = L - k + 1
  <2>1. \A i \in 1..(L - k + 1) :
           (IF i <= L - k THEN path[k + i] ELSE path[j]) \in Nodes(graph)
    BY <1>1, <1>2, <1>4
  <2>2. L - k + 1 \in Nat
    BY <1>1, <1>2
  <2>3. QED
    BY <1>3, <2>1, <2>2
<1>6. /\ Rest(k, j)[L - k + 1] = path[j]
      /\ \A i \in 1..(L - k) : Rest(k, j)[i] = path[k + i]
  <2>1. L - k + 1 \in 1..(L - k + 1) /\ ~(L - k + 1 <= L - k)
    BY <1>1, <1>2
  <2>2. \A i \in 1..(L - k) : i \in 1..(L - k + 1) /\ i <= L - k
    BY <1>1, <1>2
  <2>3. QED
    BY <1>3, <2>1, <2>2
<1>7. ASSUME k > 0 PROVE <<path[k]>> \o Rest(k, j) = Rest(k - 1, j)
  <2> DEFINE A == <<path[k]>> \o Rest(k, j)
             B == Rest(k - 1, j)
  <2>1. B = [i \in 1..(L - k + 2) |-> IF i <= L - k + 1 THEN path[k - 1 + i] ELSE path[j]]
    <3>1. L - (k - 1) + 1 = L - k + 2 /\ L - (k - 1) = L - k + 1
      BY <1>1, <1>2
    <3>2. QED
      BY <3>1 DEF Rest, L
  <2>2. path[k] \in Nodes(graph)
    <3>1. k \in 1..L
      BY <1>1, <1>2, <1>7
    <3>2. QED
      BY <1>1, <3>1
  <2>3. /\ A \in Seq(Nodes(graph)) /\ Len(A) = L - k + 2 /\ A[1] = path[k]
        /\ \A i \in 2..(L - k + 2) : A[i] = Rest(k, j)[i - 1]
    <3> DEFINE s == Rest(k, j)
    <3>1. s \in Seq(Nodes(graph)) /\ Len(s) = L - k + 1 /\ Len(s) + 1 = L - k + 2
      BY <1>1, <1>2, <1>5
    <3> HIDE DEF s
    <3>2. /\ <<path[k]>> \o s \in Seq(Nodes(graph))
          /\ Len(<<path[k]>> \o s) = Len(s) + 1
          /\ (<<path[k]>> \o s)[1] = path[k]
          /\ \A i \in 2..(Len(s) + 1) : (<<path[k]>> \o s)[i] = s[i - 1]
      BY <2>2, <3>1, Prepended
    <3>3. QED
      BY <3>1, <3>2 DEF s
  <2> HIDE DEF A, B
  <2>4. A = [i \in 1..(L - k + 2) |-> A[i]]
    BY <2>3
  <2>5. ASSUME NEW i \in 1..(L - k + 2)
        PROVE  A[i] = IF i <= L - k + 1 THEN path[k - 1 + i] ELSE path[j]
    <3>1. CASE i = 1
      <4>1. k - 1 + i = k /\ i <= L - k + 1
        BY <1>1, <1>2, <3>1
      <4>2. QED
        BY <2>3, <3>1, <4>1
    <3>2. CASE i # 1 /\ i <= L - k + 1
      <4>1. i \in 2..(L - k + 2) /\ i - 1 \in 1..(L - k) /\ k + (i - 1) = k - 1 + i
        BY <1>1, <1>2, <3>2
      <4>2. QED
        BY <1>6, <2>3, <3>2, <4>1
    <3>3. CASE ~(i <= L - k + 1)
      <4>1. i \in 2..(L - k + 2) /\ i - 1 = L - k + 1
        BY <1>1, <1>2, <3>3
      <4>2. QED
        BY <1>6, <2>3, <3>3, <4>1
    <3>4. QED
      BY <3>1, <3>2, <3>3
  <2>6. QED
    BY <2>1, <2>4, <2>5 DEF A, B
<1>8. QED
  BY <1>5, <1>6, <1>7 DEF L

\* The path from a node on, closed by that node, is a cycle.
LEMMA PathClosesCycle ==
    ASSUME HintInv, search = "trace", NEW j \in 1..Len(path),
           path[j] \in Successors(graph, Top)
    PROVE  IsCycle(graph, Rest(j - 1, j)) /\ Rest(j - 1, j)[1] = path[j]
<1> DEFINE L == Len(path)
           W == Rest(j - 1, j)
<1>1. /\ path \in Seq(Nodes(graph)) /\ L \in Nat
      /\ \A a, b \in 1..L : path[a] = path[b] => a = b
      /\ \A i \in 1..L : i > 1 => path[i] \in Successors(graph, path[i - 1])
  BY DEF HintInv, SearchTypeOK, PathInv
<1>2. j - 1 \in 0..L /\ L >= 1 /\ j \in Nat /\ j >= 1 /\ j <= L
  BY <1>1
<1>3. /\ Len(W) = L - (j - 1) + 1 /\ W[L - (j - 1) + 1] = path[j]
      /\ \A i \in 1..(L - (j - 1)) : W[i] = path[j - 1 + i]
  BY <1>1, <1>2, RestOfPath
<1>4. path[j] \in Successors(graph, path[L])
  BY DEF Top
<1> HIDE DEF L, W
<1> DEFINE last == L - j + 2
<1>5. /\ Len(W) = last /\ W[last] = path[j] /\ last > 1 /\ last \in Nat
      /\ \A i \in 1..(last - 1) : W[i] = path[j - 1 + i]
  <2>1. L - (j - 1) + 1 = last /\ L - (j - 1) = last - 1 /\ last > 1 /\ last \in Nat
    BY <1>1, <1>2
  <2>2. QED
    BY <1>3, <2>1
<1>6. W[1] = path[j]
  <2>1. 1 \in 1..(last - 1) /\ j - 1 + 1 = j
    BY <1>1, <1>2
  <2>2. QED
    BY <1>5, <2>1
<1>7. ASSUME NEW i \in 1..(last - 1) PROVE W[i + 1] \in Successors(graph, W[i])
  <2>1. W[i] = path[j - 1 + i]
    BY <1>5
  <2>2. CASE i = last - 1
    <3>1. j - 1 + i = L /\ i + 1 = last
      BY <1>1, <1>2, <2>2
    <3>2. QED
      BY <1>4, <1>5, <2>1, <3>1
  <2>3. CASE i # last - 1
    <3>1. /\ i + 1 \in 1..(last - 1) /\ j - 1 + (i + 1) = j + i
          /\ j + i \in 1..L /\ j + i > 1 /\ j + i - 1 = j - 1 + i
      BY <1>1, <1>2, <2>3
    <3>2. W[i + 1] = path[j + i]
      BY <1>5, <3>1
    <3>3. path[j + i] \in Successors(graph, path[j + i - 1])
      BY <1>1, <3>1
    <3>4. QED
      BY <2>1, <3>1, <3>2, <3>3
  <2>4. QED
    BY <2>2, <2>3
<1>8. ASSUME NEW a \in 2..last, NEW b \in 2..last, W[a] = W[b] PROVE a = b
  <2> DEFINE place(i) == IF i = last THEN j ELSE j - 1 + i
  <2>1. ASSUME NEW i \in 2..last PROVE W[i] = path[place(i)] /\ place(i) \in 1..L
    <3>1. CASE i = last
      BY <1>2, <1>5, <3>1
    <3>2. CASE i # last
      <4>1. i \in 1..(last - 1) /\ j - 1 + i \in 1..L /\ place(i) = j - 1 + i
        BY <1>1, <1>2, <3>2
      <4>2. W[i] = path[j - 1 + i]
        BY <1>5, <4>1
      <4>3. QED
        BY <4>1, <4>2
    <3>3. QED
      BY <3>1, <3>2
  <2>2. /\ W[a] = path[place(a)] /\ place(a) \in 1..L
        /\ W[b] = path[place(b)] /\ place(b) \in 1..L
    BY <2>1
  <2> HIDE DEF place
  <2>3. place(a) = place(b)
    BY <1>1, <1>8, <2>2
  <2>4. QED
    BY <1>1, <1>2, <2>3 DEF place
<1>9. QED
  BY <1>5, <1>6, <1>7, <1>8 DEF IsCycle, W

\* The parents are the path, backwards, and lead to the gray node.
LEMMA TracesBack ==
    ASSUME HintInv, TraceBack, graph' = graph
    PROVE  HintInv'
<1> DEFINE R == Reachable(graph, Starts)
           L == Len(path)
           v == cycle[Len(cycle)]
<1>1. SameGraph
  BY GraphStays
<1>2. search = "trace" /\ UNCHANGED <<found, pending>>
  BY DEF TraceBack
<1>3. /\ path \in Seq(Nodes(graph)) /\ path # <<>> /\ Cardinality(Starts) = 1
      /\ \A i \in 1..L : path[i] \in R
      /\ \A a, b \in 1..L : path[a] = path[b] => a = b
      /\ \A i \in 1..L : i > 1 => /\ path[i] \in DOMAIN parent
                                  /\ parent[path[i]] = path[i - 1]
  BY <1>2 DEF HintInv, SearchTypeOK, PathInv
<1>4. PICK k \in 1..L : \E j \in 1..k :
         /\ node = path[k] /\ cycle = Rest(k, j)
         /\ path[j] \in Successors(graph, Top)
  BY <1>2 DEF HintInv, TraceInv
<1>j. PICK j \in 1..k :
         /\ node = path[k] /\ cycle = Rest(k, j)
         /\ path[j] \in Successors(graph, Top)
  BY <1>4
<1>5. L \in Nat /\ L >= 1 /\ j \in 1..L /\ k \in 0..L /\ k > 0 /\ k - 1 \in 0..L
  BY <1>3
<1>6. /\ v = path[j]
      /\ <<path[k]>> \o cycle = Rest(k - 1, j)
  <2>1. /\ Len(Rest(k, j)) = Len(path) - k + 1
        /\ Rest(k, j)[Len(path) - k + 1] = path[j]
        /\ <<path[k]>> \o Rest(k, j) = Rest(k - 1, j)
    BY <1>3, <1>5, RestOfPath
  <2>2. QED
    BY <1>j, <2>1
<1>7. Rest(k - 1, j) \in Seq(Nodes(graph))
  BY <1>3, <1>5, RestOfPath
<1> HIDE DEF R
<1>8. CASE node # v /\ node \in DOMAIN parent
  <2>1. /\ cycle' = Rest(k - 1, j) /\ node' = parent[node]
        /\ UNCHANGED <<search, color, parent, path, hints>>
    BY <1>j, <1>6, <1>8 DEF TraceBack
  <2>2. k > j /\ k > 1 /\ k - 1 \in 1..L /\ j \in 1..(k - 1)
    BY <1>j, <1>5, <1>6, <1>8
  <2>3. node' = path[k - 1]
    BY <1>3, <1>j, <2>1, <2>2
  <2>4. TraceInv'
    <3>1. \E m \in 1..L : \E i \in 1..m :
             /\ node' = path[m] /\ cycle' = Rest(m, i)
             /\ path[i] \in Successors(graph, Top)
      BY <1>j, <2>1, <2>2, <2>3
    <3>2. QED
      BY <1>1, <2>1, <3>1 DEF TraceInv, Rest, Top, SameGraph
  <2>5. SearchTypeOK'
    <3>1. Nodes(graph') = Nodes(graph)
      OBVIOUS
    <3>2. QED
      BY <1>1, <1>2, <1>7, <2>1, <3>1 DEF HintInv, SearchTypeOK, SameGraph
  <2>6. PathInv'
    BY <1>2, <2>1, PathStays DEF HintInv
  <2>7. ReachedIsHinted'
    BY <1>1, <2>1 DEF HintInv, ReachedIsHinted, SameGraph, OfType, Nodes
  <2>8. QED
    BY <1>2, <2>1, <2>4, <2>5, <2>6, <2>7 DEF HintInv, SpreadInv, BlackInv, CycleIsHinted
<1>9. CASE ~(node # v /\ node \in DOMAIN parent)
  <2>1. /\ cycle' = <<v>> \o cycle /\ hints' = hints \cup {"cycle"} /\ search' = "done"
        /\ color' = White /\ parent' = <<>> /\ path' = <<>> /\ node' = 0
    BY <1>9 DEF TraceBack, Forget
  <2>2. k = j
    <3>1. CASE node = v
      BY <1>3, <1>j, <1>5, <1>6, <3>1
    <3>2. CASE node \notin DOMAIN parent
      <4>1. k = 1
        BY <1>3, <1>j, <1>5, <3>2
      <4>2. QED
        BY <1>j, <4>1
    <3>3. QED
      BY <1>9, <3>1, <3>2
  <2>3. cycle' = Rest(j - 1, j)
    BY <1>6, <2>1, <2>2
  <2>4. IsCycle(graph, cycle') /\ cycle'[1] = path[j]
    BY <1>2, <1>j, <1>5, <2>3, PathClosesCycle
  <2>5. cycle'[1] \in R
    BY <1>3, <1>5, <2>4
  <2>6. SearchTypeOK'
    <3>1. White \in [Nodes(graph) -> Colors] /\ <<>> \in Seq(Nodes(graph))
      BY DEF White, Colors
    <3>2. Nodes(graph') = Nodes(graph)
      OBVIOUS
    <3>3. QED
      BY <1>2, <1>7, <2>1, <2>2, <2>3, <3>1, <3>2 DEF HintInv, SearchTypeOK
  <2>7. ReachedIsHinted'
    BY <1>1, <1>2, <1>3, <2>1 DEF HintInv, ReachedIsHinted, SameGraph, OfType, Nodes
  <2>8. CycleIsHinted'
    <3>1. IsCycle(graph', cycle') /\ R' = R
      BY <1>1, <2>4 DEF SameGraph, R
    <3>2. "cycle" \in hints'
      BY <2>1
    <3>3. QED
      BY <2>5, <3>1, <3>2 DEF CycleIsHinted, R
  <2>9. QED
    BY <2>1, <2>6, <2>7, <2>8 DEF HintInv, SpreadInv, PathInv, BlackInv, TraceInv
<1>10. QED
  BY <1>8, <1>9

\* The run that follows leaves the hints alone.
LEMMA RunKeepsHints ==
    ASSUME HintInv, HintsGiven, graph' = graph, UNCHANGED hintVars
    PROVE  HintInv'
<1>1. SameGraph
  BY GraphStays
<1>2. /\ search \in {"none", "done"}
      /\ UNCHANGED <<search, found, pending, color, parent, path, node, cycle, hints>>
  BY DEF hintVars, HintsGiven
<1>3. SearchTypeOK'
  <2>1. Nodes(graph') = Nodes(graph)
    OBVIOUS
  <2>2. QED
    BY <1>1, <1>2, <2>1 DEF HintInv, SearchTypeOK, SameGraph
<1>4. ReachedIsHinted'
  BY <1>1, <1>2 DEF HintInv, ReachedIsHinted, SameGraph, OfType, Nodes
<1>5. CycleIsHinted'
  <2>1. Starts' = Starts /\ Reachable(graph, Starts)' = Reachable(graph, Starts)
    BY <1>1 DEF SameGraph
  <2>2. CycleIsHinted
    BY DEF HintInv
  <2>3. search = "done" /\ Cardinality(Starts) = 1 =>
          \/ /\ "cycle" \in hints'
             /\ IsCycle(graph', cycle') /\ cycle'[1] \in Reachable(graph, Starts)
          \/ /\ "cycle" \notin hints'
             /\ \E S \in SUBSET Nodes(graph') : Starts \subseteq S /\ NoCycleIn(graph', S)
    BY <1>2, <2>2 DEF CycleIsHinted
  <2>4. QED
    BY <1>2, <2>1, <2>3 DEF CycleIsHinted
<1>6. QED
  BY <1>2, <1>3, <1>4, <1>5 DEF HintInv, SpreadInv, PathInv, BlackInv, TraceInv

\* The search of run_sandbox changes nothing of the run that follows: what is
\* true of every run is true of those that hints were given for.
THEOREM HintsBeforeRuns == HintsSpec => Spec
<1>1. HintsInit => Init
  BY DEF HintsInit
<1>2. [HintsNext]_allVars => [Next]_vars
  BY DEF HintsNext, allVars, vars
<1>3. QED
  BY <1>1, <1>2, PTL DEF HintsSpec, Spec

\* Every step of the search, and of the run after it, keeps the invariant.
LEMMA HintsStayRight ==
    ASSUME TypeOK, WalkInv, HintInv, [HintsNext]_allVars
    PROVE  HintInv'
<1>1. GraphOK(graph)
  BY DEF TypeOK
<1>2. graph' = graph
  <2>1. [Next]_vars
    BY DEF HintsNext, allVars, vars
  <2>2. QED
    BY <2>1, NextPlace
<1>3. CASE Search
  BY <1>1, <1>2, <1>3, StartSearches, Spreads, HintsReached, Descends, MeetsGray,
     CallReturns, TracesBack DEF Search
<1>4. CASE HintsGiven /\ UNCHANGED hintVars
  BY <1>2, <1>4, RunKeepsHints
<1>5. CASE UNCHANGED allVars
  <2>1. /\ SameGraph /\ UNCHANGED hintVars
        /\ UNCHANGED <<search, found, pending, color, parent, path, node, cycle, hints>>
    BY <1>2, <1>5, GraphStays DEF allVars, hintVars
  <2>2. CASE HintsGiven
    BY <1>2, <2>1, <2>2, RunKeepsHints
  <2>3. CASE ~HintsGiven
    <3>1. SearchTypeOK'
      <4>1. Nodes(graph') = Nodes(graph)
        BY <1>2
      <4>2. QED
        BY <2>1, <4>1 DEF HintInv, SearchTypeOK, SameGraph
    <3>2. SpreadInv' /\ ReachedIsHinted'
      BY <1>2, <2>1 DEF HintInv, SpreadInv, ReachedIsHinted, SameGraph, OfType, Nodes,
         Successors
    <3>3. PathInv'
      <4>1. CASE search \in {"explore", "trace"}
        BY <1>2, <2>1, <4>1, PathStays DEF HintInv
      <4>2. CASE search \notin {"explore", "trace"}
        BY <2>1, <4>2 DEF PathInv
      <4>3. QED
        BY <4>1, <4>2
    <3>4. BlackInv'
      <4>1. Black' = Black
        BY <1>2, <2>1 DEF Black, Nodes
      <4>2. QED
        BY <1>2, <2>1, <4>1 DEF HintInv, BlackInv, NoCycleIn, Nodes, Successors
    <3>5. TraceInv'
      BY <1>2, <2>1 DEF HintInv, TraceInv, Rest, Top, Successors, Nodes
    <3>6. QED
      BY <2>1, <2>3, <3>1, <3>2, <3>3, <3>4, <3>5 DEF HintInv, CycleIsHinted, HintsGiven
  <2>4. QED
    BY <2>2, <2>3
<1>6. QED
  BY <1>3, <1>4, <1>5 DEF HintsNext

\* The invariant of the search holds throughout the search and the run.
LEMMA HintInvariant == HintsSpec => []HintInv
<1>1. HintsInit => HintInv
  BY HintInitially
<1>2. TypeOK /\ WalkInv /\ HintInv /\ [HintsNext]_allVars => HintInv'
  BY HintsStayRight
<1>3. QED
  BY <1>1, <1>2, HintsBeforeRuns, WalkInvariant, PTL DEF HintsSpec

\* For every graph: the hints run_sandbox gives are right about what can be
\* reached and about cycles, and the run that follows does what they say.
THEOREM HintsAreRight == HintsSpec => []HintsPredictRuns
<1>1. HintInv /\ StaysReachable /\ CapsSpareAcyclic => HintsPredictRuns
  BY InvariantPredicts
<1>2. QED
  BY <1>1, HintInvariant, HintsBeforeRuns, RunsStayReachable, AcyclicRunsOnce, PTL

----------------------------------------------------------------------------
(***************************************************************************)
(* How long the search may take: a number that every step of it lowers.    *)
(***************************************************************************)

\* The steps the search may still take: a look at each node that is not found
\* yet, then a call of dfs and its return for each node that is white, a return
\* for each on the path, or a step back along it.
Size == Cardinality(Nodes(graph))
WhiteNodes == {n \in Nodes(graph) : color[n] = "white"}
SearchAhead ==
    CASE search = "new" -> 4 * Size + 1
      [] search = "spread" -> 3 * Size + Cardinality(Nodes(graph) \ found)
      [] search = "explore" -> 3 * Cardinality(WhiteNodes) + Len(path) + 1
      [] search = "trace" -> Len(path) - Len(cycle) + 1
      [] OTHER -> 0

\* A set of nodes has a size, which falls with every node it loses.
LEMMA Falls ==
    ASSUME GraphOK(graph), NEW S \in SUBSET Nodes(graph)
    PROVE  /\ IsFiniteSet(S) /\ Cardinality(S) \in Nat
           /\ Size \in Nat /\ Cardinality(S) <= Size
           /\ \A n \in S : /\ Cardinality(S \ {n}) = Cardinality(S) - 1
                           /\ Cardinality(S) >= 1
<1>1. IsFiniteSet(Nodes(graph))
  BY WorkflowEngineAssumption, FS_Subset DEF GraphOK, Nodes
<1>2. IsFiniteSet(S) /\ Cardinality(S) <= Size
  BY <1>1, FS_Subset DEF Size
<1>3. Cardinality(S) \in Nat /\ Size \in Nat
  BY <1>1, <1>2, FS_CardinalityType DEF Size
<1>4. ASSUME NEW n \in S
      PROVE  Cardinality(S \ {n}) = Cardinality(S) - 1 /\ Cardinality(S) >= 1
  <2>1. Cardinality(S \ {n}) = Cardinality(S) - 1 /\ IsFiniteSet(S \ {n})
    BY <1>2, FS_RemoveElement
  <2>2. Cardinality(S \ {n}) \in Nat
    BY <2>1, FS_CardinalityType
  <2>3. QED
    BY <1>3, <2>1, <2>2
<1>5. QED
  BY <1>2, <1>3, <1>4

\* How far the search is, part by part.
LEMMA SearchIsAhead ==
    ASSUME HintInv, GraphOK(graph)
    PROVE  /\ Size \in Nat /\ SearchAhead \in Nat
           /\ ~HintsGiven => SearchAhead >= 1
           /\ search = "trace" => /\ cycle \in Seq(Nodes(graph))
                                  /\ Len(path) - Len(cycle) + 1 \in 1..Len(path)
<1>1. /\ search \in {"none", "new", "spread", "explore", "trace", "done"}
      /\ path \in Seq(Nodes(graph)) /\ cycle \in Seq(Nodes(graph))
  BY DEF HintInv, SearchTypeOK
<1>2. Size \in Nat
  BY Falls
<1>3. ASSUME search = "spread"
      PROVE  Cardinality(Nodes(graph) \ found) \in Nat /\ 3 * Size + Cardinality(Nodes(graph) \ found) >= 1
  <2>1. Cardinality(Nodes(graph) \ found) \in Nat
    BY Falls
  <2>2. PICK s : s \in Starts
    <3>1. Cardinality(Starts) = 1
      BY <1>3 DEF HintInv, SearchTypeOK
    <3>2. QED
      BY <3>1, FS_EmptySet
  <2>3. Size >= 1
    <3>1. s \in Nodes(graph)
      BY <2>2 DEF Starts, OfType
    <3>2. QED
      BY <3>1, Falls DEF Size
  <2>4. QED
    BY <1>2, <2>1, <2>3
<1>4. ASSUME search = "explore"
      PROVE  Cardinality(WhiteNodes) \in Nat /\ Len(path) \in Nat
  <2>1. WhiteNodes \in SUBSET Nodes(graph)
    BY DEF WhiteNodes
  <2>2. QED
    BY <1>1, <2>1, Falls
<1>5. ASSUME search = "trace"
      PROVE  Len(path) - Len(cycle) + 1 \in 1..Len(path)
  <2>1. PICK k \in 1..Len(path) : \E j \in 1..k : cycle = Rest(k, j)
    BY <1>5 DEF HintInv, TraceInv
  <2>2. PICK j \in 1..k : cycle = Rest(k, j)
    BY <2>1
  <2>3. Len(path) \in Nat /\ Len(path) >= 1 /\ k \in 0..Len(path) /\ j \in 1..Len(path)
    BY <1>1
  <2>4. Len(cycle) = Len(path) - k + 1
    BY <1>1, <2>2, <2>3, RestOfPath
  <2>5. QED
    BY <2>3, <2>4
<1>6. SearchAhead \in Nat /\ (~HintsGiven => SearchAhead >= 1)
  <2>1. CASE search = "new"
    BY <1>2, <2>1 DEF SearchAhead
  <2>2. CASE search = "spread"
    BY <1>2, <1>3, <2>2 DEF SearchAhead
  <2>3. CASE search = "explore"
    BY <1>4, <2>3 DEF SearchAhead
  <2>4. CASE search = "trace"
    <3>1. SearchAhead = Len(path) - Len(cycle) + 1 /\ Len(path) \in Nat
      BY <1>1, <2>4 DEF SearchAhead
    <3>2. QED
      BY <1>5, <2>4, <3>1
  <2>5. CASE HintsGiven
    BY <2>5 DEF SearchAhead, HintsGiven
  <2>6. QED
    BY <1>1, <2>1, <2>2, <2>3, <2>4, <2>5 DEF HintsGiven
<1>7. QED
  BY <1>1, <1>2, <1>5, <1>6

\* Whatever the search does next brings it nearer to its end.
LEMMA SearchIsNearer ==
    ASSUME HintInv, GraphOK(graph), graph' = graph, Search
    PROVE  SearchAhead' < SearchAhead
<1>1. Size' = Size /\ Nodes(graph') = Nodes(graph) /\ Size \in Nat
  BY Falls DEF Size, Nodes
<1>2. /\ path \in Seq(Nodes(graph)) /\ cycle \in Seq(Nodes(graph))
      /\ color \in [Nodes(graph) -> Colors]
      /\ Len(path) \in Nat /\ Len(cycle) \in Nat
  BY DEF HintInv, SearchTypeOK
<1>3. /\ WhiteNodes \in SUBSET Nodes(graph) /\ IsFiniteSet(WhiteNodes)
      /\ Cardinality(WhiteNodes) \in Nat
  <2>1. WhiteNodes \in SUBSET Nodes(graph)
    BY DEF WhiteNodes
  <2>2. QED
    BY <2>1, Falls
<1>4. search \notin {"none", "done"} => SearchAhead >= 1 /\ SearchAhead \in Nat
  BY SearchIsAhead DEF HintsGiven
<1>5. search' = "done" => SearchAhead' = 0
  BY DEF SearchAhead
<1>6. CASE StartSearch
  <2>1. CASE search' = "spread"
    <3>1. search = "new" /\ found' = {}
      BY <1>6 DEF StartSearch, HintInv, SearchTypeOK
    <3>2. Nodes(graph') \ found' = Nodes(graph)
      BY <1>1, <3>1
    <3>3. SearchAhead' = 3 * Size + Size
      BY <1>1, <2>1, <3>2 DEF SearchAhead, Size
    <3>4. SearchAhead = 4 * Size + 1
      BY <3>1 DEF SearchAhead
    <3>5. QED
      BY <1>1, <3>3, <3>4
  <2>2. CASE search' = "done"
    BY <1>4, <1>5, <1>6, <2>2 DEF StartSearch
  <2>3. QED
    BY <1>6, <2>1, <2>2 DEF StartSearch
<1>7. ASSUME NEW u \in Nodes(graph), Spread(u) PROVE SearchAhead' < SearchAhead
  <2> DEFINE left == Nodes(graph) \ found
  <2>1. /\ search = "spread" /\ search' = "spread" /\ u \in left
        /\ Nodes(graph') \ found' = left \ {u}
    BY <1>1, <1>7 DEF Spread, HintInv, SpreadInv
  <2>2. Cardinality(left \ {u}) = Cardinality(left) - 1 /\ Cardinality(left) \in Nat
    BY <2>1, Falls
  <2>3. SearchAhead = 3 * Size + Cardinality(left)
    BY <2>1 DEF SearchAhead
  <2>4. SearchAhead' = 3 * Size + Cardinality(left \ {u})
    BY <1>1, <2>1 DEF SearchAhead
  <2> HIDE DEF left
  <2>5. QED
    BY <1>1, <2>2, <2>3, <2>4
<1>8. CASE HintReached
  <2>1. PICK s \in Starts : color' = [color EXCEPT ![s] = "gray"] /\ path' = <<s>>
    BY <1>8 DEF HintReached
  <2>2. /\ search = "spread" /\ search' = "explore" /\ color = White
        /\ s \in Nodes(graph) /\ Len(path') = 1
    BY <1>8, <2>1 DEF HintReached, HintInv, SpreadInv, Starts, OfType
  <2>3. WhiteNodes' = Nodes(graph) \ {s}
    BY <1>1, <2>1, <2>2 DEF WhiteNodes, White
  <2>4. Cardinality(Nodes(graph) \ {s}) = Size - 1 /\ Size >= 1
    BY <2>2, Falls DEF Size
  <2>5. SearchAhead' = 3 * (Size - 1) + 1 + 1
    BY <2>2, <2>3, <2>4 DEF SearchAhead
  <2>6. SearchAhead = 3 * Size + Cardinality(Nodes(graph) \ found)
    BY <2>2 DEF SearchAhead
  <2>7. Cardinality(Nodes(graph) \ found) \in Nat
    BY Falls
  <2>8. QED
    BY <1>1, <2>4, <2>5, <2>6, <2>7
<1>9. ASSUME NEW v \in Nodes(graph), Descend(v) PROVE SearchAhead' < SearchAhead
  <2>1. /\ search = "explore" /\ search' = "explore" /\ color[v] = "white"
        /\ color' = [color EXCEPT ![v] = "gray"] /\ path' = Append(path, v)
    BY <1>9 DEF Descend
  <2>2. v \in WhiteNodes /\ WhiteNodes' = WhiteNodes \ {v}
    BY <1>1, <1>2, <2>1 DEF WhiteNodes
  <2>3. Cardinality(WhiteNodes') = Cardinality(WhiteNodes) - 1
    BY <1>3, <2>2, Falls
  <2>4. Len(path') = Len(path) + 1
    BY <1>2, <2>1
  <2>5. SearchAhead' = 3 * Cardinality(WhiteNodes') + Len(path') + 1
    BY <2>1 DEF SearchAhead
  <2>6. SearchAhead = 3 * Cardinality(WhiteNodes) + Len(path) + 1
    BY <2>1 DEF SearchAhead
  <2>7. QED
    BY <1>2, <1>3, <2>3, <2>4, <2>5, <2>6
<1>10. ASSUME NEW v \in Nodes(graph), MeetGray(v) PROVE SearchAhead' < SearchAhead
  <2>1. /\ search = "explore" /\ search' = "trace" /\ path' = path
        /\ Len(cycle') = 1
    BY <1>10 DEF MeetGray
  <2>2. SearchAhead' = Len(path) - 1 + 1
    BY <2>1 DEF SearchAhead
  <2>3. SearchAhead = 3 * Cardinality(WhiteNodes) + Len(path) + 1
    BY <2>1 DEF SearchAhead
  <2>4. QED
    BY <1>2, <1>3, <2>2, <2>3
<1>11. CASE Return
  <2>1. search = "explore"
    BY <1>11 DEF Return
  <2>2. CASE search' = "done"
    BY <1>4, <1>5, <2>1, <2>2
  <2>3. CASE search' # "done"
    <3>1. /\ search' = "explore" /\ color' = [color EXCEPT ![Top] = "black"]
          /\ path' = SubSeq(path, 1, Len(path) - 1)
      BY <1>11, <2>3 DEF Return
    <3>2. Len(path) >= 1 /\ color[Top] = "gray" /\ Top \in Nodes(graph)
      BY <2>1, OnPath
    <3>3. WhiteNodes' = WhiteNodes
      BY <1>1, <1>2, <3>1, <3>2 DEF WhiteNodes
    <3>4. Len(path') = Len(path) - 1
      <4> DEFINE last == Len(path) - 1
      <4>1. last \in 0..Len(path) /\ path' = SubSeq(path, 1, last)
        BY <1>2, <3>1, <3>2
      <4> HIDE DEF last
      <4>2. Len(path') = last
        BY <1>2, <4>1
      <4>3. QED
        BY <4>2 DEF last
    <3>5. SearchAhead' = 3 * Cardinality(WhiteNodes) + Len(path') + 1
      BY <3>1, <3>3 DEF SearchAhead
    <3>6. SearchAhead = 3 * Cardinality(WhiteNodes) + Len(path) + 1
      BY <2>1 DEF SearchAhead
    <3>7. QED
      BY <1>2, <1>3, <3>4, <3>5, <3>6
  <2>4. QED
    BY <2>2, <2>3
<1>12. CASE TraceBack
  <2>1. search = "trace"
    BY <1>12 DEF TraceBack
  <2>2. CASE search' = "done"
    BY <1>4, <1>5, <2>1, <2>2
  <2>3. CASE search' # "done"
    <3>1. search' = "trace" /\ path' = path /\ cycle' = <<node>> \o cycle
      BY <1>12, <2>1, <2>3 DEF TraceBack
    <3>2. Len(cycle') = Len(cycle) + 1
      BY <1>2, <3>1
    <3>3. SearchAhead' = Len(path) - Len(cycle') + 1
      BY <3>1 DEF SearchAhead
    <3>4. SearchAhead = Len(path) - Len(cycle) + 1
      BY <2>1 DEF SearchAhead
    <3>5. QED
      BY <1>2, <3>2, <3>3, <3>4
  <2>4. QED
    BY <2>2, <2>3
<1>13. QED
  BY <1>6, <1>7, <1>8, <1>9, <1>10, <1>11, <1>12 DEF Search

\* The search of any graph is over after so many steps for each of its nodes.
THEOREM SearchIsFinite ==
    HintsSpec => /\ [](SearchAhead \in 0..(4 * Size + 1))
                 /\ [][Search => SearchAhead' < SearchAhead]_allVars
<1> DEFINE Searching == TypeOK /\ WalkInv /\ HintInv
           WithinLimit == SearchAhead <= 4 * Size + 1
<1>1. HintsSpec => []Searching
  BY HintsBeforeRuns, WalkInvariant, HintInvariant, PTL
<1>2. Searching => SearchAhead \in Nat /\ Size \in Nat
  BY SearchIsAhead DEF TypeOK
<1>3. HintsInit => WithinLimit
  <2> SUFFICES ASSUME HintsInit PROVE WithinLimit
    OBVIOUS
  <2>1. Size \in Nat
    BY InitTypes, Falls DEF HintsInit, TypeOK
  <2>2. SearchAhead = 4 * Size + 1 \/ SearchAhead = 0
    BY DEF HintsInit, SearchAhead
  <2>3. QED
    BY <2>1, <2>2
<1>4. Searching /\ [HintsNext]_allVars => [Search => SearchAhead' < SearchAhead]_allVars
  <2> SUFFICES ASSUME Searching, HintsNext, Search PROVE SearchAhead' < SearchAhead
    OBVIOUS
  <2>1. graph' = graph
    <3>1. [Next]_vars
      BY DEF HintsNext
    <3>2. QED
      BY <3>1, NextPlace
  <2>2. QED
    BY <2>1, SearchIsNearer DEF TypeOK
<1>5. /\ SearchAhead \in Nat /\ Size \in Nat /\ (SearchAhead \in Nat /\ Size \in Nat)'
      /\ WithinLimit /\ [HintsNext]_allVars /\ [Next]_vars /\ TypeOK /\ WalkInv
      /\ [Search => SearchAhead' < SearchAhead]_allVars
      => WithinLimit'
  <2> SUFFICES ASSUME SearchAhead \in Nat, Size \in Nat, SearchAhead' \in Nat,
                      WithinLimit, [HintsNext]_allVars, [Next]_vars, TypeOK, WalkInv,
                      [Search => SearchAhead' < SearchAhead]_allVars
               PROVE  WithinLimit'
    OBVIOUS
  <2>1. graph' = graph /\ Size' = Size
    BY NextPlace DEF Size, Nodes
  <2>2. CASE Search /\ SearchAhead' < SearchAhead
    BY <2>1, <2>2
  <2>3. CASE UNCHANGED hintVars
    <3>1. SearchAhead' = SearchAhead
      BY <2>1, <2>3 DEF hintVars, SearchAhead, WhiteNodes, Size, Nodes
    <3>2. QED
      BY <2>1, <3>1
  <2>4. UNCHANGED allVars => UNCHANGED hintVars
    BY DEF allVars
  <2>5. QED
    BY <2>2, <2>3, <2>4 DEF HintsNext
<1>6. WithinLimit /\ SearchAhead \in Nat /\ Size \in Nat => SearchAhead \in 0..(4 * Size + 1)
  OBVIOUS
<1>7. [HintsNext]_allVars => [Next]_vars
  BY DEF HintsNext, allVars, vars
<1> HIDE DEF Searching, WithinLimit
<1>8. QED
  BY <1>1, <1>2, <1>3, <1>4, <1>5, <1>6, <1>7, HintsBeforeRuns, WalkInvariant, PTL
     DEF HintsSpec
=============================================================================

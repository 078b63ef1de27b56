------------------------ MODULE WorkflowVersionsProofs ------------------------
(***************************************************************************)
(* What publishing, rolling back, editing and testing keep of a workflow,  *)
(* for any number of processes and of requests, at READ COMMITTED.         *)
(***************************************************************************)
EXTENDS WorkflowVersions, TLAPS

LEMMA GoesEffect ==
    ASSUME TypeOK, NEW p \in Processes, NEW r \in Request, Goes(p, r)
    PROVE  /\ request' \in [Processes -> Request]
           /\ request'[p] = r
           /\ \A q \in Processes \ {p} : request'[q] = request[q]
BY DEF Goes, TypeOK

LEMMA NoRequestOK ==
    /\ NoRequest \in Request
    /\ RequestOK(NoRequest) /\ CutOK(NoRequest) /\ Given(NoRequest.read)
    /\ (RequestOK(NoRequest) /\ CutOK(NoRequest) /\ Given(NoRequest.read))'
<1>1. NoRequest \in Request
  BY DEF NoRequest, Request, Ops, Steps, NoGraph, Graph
<1>2. NoRequest' = NoRequest
  BY DEF NoRequest, NoGraph
<1>3. RequestOK(NoRequest) /\ RequestOK(NoRequest)'
  BY DEF NoRequest, RequestOK, ReadOK, RanOK, SameBut
<1>4. CutOK(NoRequest) /\ CutOK(NoRequest)'
  BY DEF NoRequest, CutOK
<1>5. Given(NoRequest.read) /\ Given(NoRequest.read)'
  BY DEF NoRequest, Given, NoGraph
<1>6. QED
  BY <1>1, <1>3, <1>4, <1>5

\* A statement that changes nothing but the request it belongs to.
LEMMA OwnStep ==
    ASSUME IInv, NEW p \in Processes, NEW r \in Request, Goes(p, r),
           UNCHANGED <<graph, versions, test, serial>>,
           RequestOK(r), CutOK(r), Given(r.read),
           edits' \in Nat, rollbacks' \in Nat, tests' \in Nat
    PROVE  IInv'
<1>1. /\ request' \in [Processes -> Request] /\ request'[p] = r
      /\ \A q \in Processes \ {p} : request'[q] = request[q]
  BY GoesEffect DEF IInv
<1>2. TypeOK'
  BY <1>1 DEF IInv, TypeOK
<1>3. ASSUME NEW q \in Processes
      PROVE  RequestOK(request[q])' /\ CutOK(request[q])' /\ Given(request[q].read)'
  <2>1. /\ request'[q] \in {r, request[q]}
        /\ RequestOK(request[q]) /\ CutOK(request[q]) /\ Given(request[q].read)
    BY <1>1 DEF IInv, SerialOK
  <2>2. RequestOK(request[q])'
    BY <2>1 DEF RequestOK, ReadOK, RanOK, SameBut
  <2>3. CutOK(request[q])' /\ Given(request[q].read)'
    BY <2>1 DEF CutOK, Given
  <2>4. QED
    BY <2>2, <2>3
<1>4. SameBut(test.ran, test.fingerprint, test.replaced)' /\ GraphsWhole'
      /\ SomeCurrentVersion'
  BY DEF IInv, GraphsWhole, Whole, SomeCurrentVersion, CurrentVersions
<1>5. SerialOK'
  BY <1>3 DEF IInv, SerialOK, Given
<1>6. QED
  BY <1>2, <1>3, <1>4, <1>5 DEF IInv

\* The rows an UPDATE has changed keep their graphs.
LEMMA UnmarkedEffect ==
    ASSUME TypeOK, NEW p
    PROVE  /\ Unmarked(p) \in Seq(Version)
           /\ Len(Unmarked(p)) = Len(versions)
           /\ \A v \in 1..Len(versions) :
                 /\ Unmarked(p)[v].graph = versions[v].graph
                 /\ Unmarked(p)[v].torn = versions[v].torn
<1>1. versions \in Seq(Version) /\ DOMAIN versions = 1..Len(versions)
      /\ Len(versions) \in Nat
  BY DEF TypeOK
<1>2. ASSUME NEW v \in 1..Len(versions)
      PROVE  /\ Unmarked(p)[v] \in Version
             /\ Unmarked(p)[v].graph = versions[v].graph
             /\ Unmarked(p)[v].torn = versions[v].torn
  <2> DEFINE row == versions[v]
  <2>1. row \in Version
    BY <1>1
  <2>2. Unmarked(p)[v] \in {row, [row EXCEPT !.current = FALSE]}
    BY <1>1 DEF Unmarked
  <2> HIDE DEF row
  <2>3. /\ [row EXCEPT !.current = FALSE] \in Version
        /\ [row EXCEPT !.current = FALSE].graph = row.graph
        /\ [row EXCEPT !.current = FALSE].torn = row.torn
    BY <2>1 DEF Version
  <2>4. QED
    BY <2>1, <2>2, <2>3 DEF row
<1>3. DOMAIN Unmarked(p) = 1..Len(versions)
      /\ Unmarked(p) = [v \in 1..Len(versions) |-> Unmarked(p)[v]]
  BY <1>1 DEF Unmarked
<1> DEFINE rows == Unmarked(p)
<1> HIDE DEF rows
<1>4. rows \in Seq(Version) /\ Len(rows) = Len(versions)
  BY <1>1, <1>2, <1>3 DEF rows
<1>5. QED
  BY <1>2, <1>4 DEF rows

LEMMA Beginnings ==
    ASSUME IInv, NEW p \in Processes, BeginPublish(p) \/ BeginSandbox(p)
    PROVE  IInv'
<1>1. PICK op \in {"publish", "sandbox"} : Begins(p, op)
  BY DEF BeginPublish, BeginSandbox
<1> DEFINE r == [NoRequest EXCEPT !.op = op, !.step = "nodes"]
<1>2. r \in Request
  BY NoRequestOK DEF Request, Ops, Steps
<1>3. r.op = op /\ r.step = "nodes" /\ r.result = "none" /\ r.gone = {}
      /\ r.read = NoRequest.read
  BY DEF NoRequest
<1>4. Goes(p, r)
  BY <1>1 DEF Begins
<1> HIDE DEF r
<1>5. RequestOK(r) /\ CutOK(r) /\ Given(r.read)
  BY <1>3, NoRequestOK DEF RequestOK, ReadOK, RanOK, SameBut, CutOK
<1>6. UNCHANGED <<graph, versions, test, serial>>
      /\ edits' \in Nat /\ rollbacks' \in Nat /\ tests' \in Nat
  <2>1. edits \in Nat /\ rollbacks \in Nat /\ tests \in Nat
    BY DEF IInv, TypeOK
  <2>2. QED
    BY <2>1 DEF BeginPublish, BeginSandbox, counters
<1>7. QED
  BY <1>2, <1>4, <1>5, <1>6, OwnStep

LEMMA BeginRollbackPreserves ==
    ASSUME IInv, NEW p \in Processes, NEW v \in DOMAIN versions, BeginRollback(p, v)
    PROVE  IInv'
<1> DEFINE r == [NoRequest EXCEPT !.op = "rollback", !.target = v,
                                  !.read.edges = graph.edges, !.step = "cut"]
<1>1. /\ graph \in Graph /\ v \in Nat
      /\ UNCHANGED <<graph, versions, test, serial>> /\ Goes(p, r)
      /\ edits' \in Nat /\ rollbacks' \in Nat /\ tests' \in Nat
  BY DEF BeginRollback, IInv, TypeOK, counters
<1>2. r \in Request
  BY <1>1, NoRequestOK DEF Request, Ops, Steps, Graph
<1>3. /\ r.op = "rollback" /\ r.step = "cut" /\ r.result = "none"
      /\ r.target = v /\ r.gone = {} /\ r.read.nodes = {}
  BY DEF NoRequest, NoGraph
<1> HIDE DEF r
<1>4. RequestOK(r) /\ CutOK(r) /\ Given(r.read)
  BY <1>3 DEF RequestOK, ReadOK, RanOK, SameBut, CutOK, Given
<1>5. QED
  BY <1>1, <1>2, <1>4, OwnStep

\* The statements that read or wait, but write nothing another can see.
LEMMA Statements ==
    ASSUME IInv, NEW p \in Processes,
           \/ ReadNodes(p) \/ ReadEdges(p) \/ FindCurrent(p) \/ Unmark(p)
           \/ CutEdges(p) \/ DeleteNodes(p) \/ CheckEdges(p) \/ RunSandbox(p)
    PROVE  IInv'
<1> DEFINE old == request[p]
<1>1. /\ old \in Request /\ RequestOK(old) /\ CutOK(old) /\ Given(old.read)
      /\ graph \in Graph /\ Given(graph) /\ versions \in Seq(Version)
      /\ edits \in Nat /\ rollbacks \in Nat /\ tests \in Nat
  BY DEF IInv, TypeOK, SerialOK
<1>2. UNCHANGED <<graph, versions, test, serial>>
      /\ edits' \in Nat /\ rollbacks' \in Nat /\ tests' \in Nat
  BY <1>1 DEF ReadNodes, ReadEdges, FindCurrent, Unmark, CutEdges, DeleteNodes,
              CheckEdges, RunSandbox, counters
<1>3. ASSUME NEW r \in Request, Goes(p, r), RequestOK(r), CutOK(r), Given(r.read)
      PROVE  IInv'
  BY <1>2, <1>3, OwnStep
<1>4. CASE Ends(p)
  BY <1>3, <1>4, NoRequestOK DEF Ends
<1>5. CASE ReadNodes(p)
  <2> DEFINE r == [old EXCEPT !.read.nodes = graph.nodes, !.step = "edges"]
  <2>1. r \in Request
    BY <1>1 DEF Request, Steps, Graph
  <2>2. /\ r.step = "edges" /\ r.read.nodes = graph.nodes
        /\ r.op = old.op /\ r.target = old.target /\ r.replaced = old.replaced
        /\ r.result = old.result /\ r.ran = old.ran /\ r.gone = old.gone
    BY <1>1 DEF Request, Graph
  <2>3. Goes(p, r) /\ old.step = "nodes"
    BY <1>5 DEF ReadNodes
  <2> HIDE DEF r
  <2>4. RequestOK(r)
    BY <1>1, <2>2, <2>3 DEF RequestOK, ReadOK, RanOK, SameBut
  <2>5. CutOK(r) /\ Given(r.read)
    BY <1>1, <2>2 DEF CutOK, Given
  <2>6. QED
    BY <1>3, <2>1, <2>3, <2>4, <2>5
<1>6. CASE ReadEdges(p) /\ ~Ends(p)
  <2> DEFINE step == IF old.op = "publish" THEN "find"
                     ELSE IF old.result = "none" THEN "run" ELSE "record"
             r == [old EXCEPT !.read.edges = graph.edges, !.step = step]
  <2>1. r \in Request
    BY <1>1 DEF Request, Steps, Graph
  <2>2. /\ r.step = step /\ r.read.nodes = old.read.nodes
        /\ r.read.edges = graph.edges /\ r.read \in Graph
        /\ r.op = old.op /\ r.target = old.target /\ r.replaced = old.replaced
        /\ r.result = old.result /\ r.ran = old.ran /\ r.gone = old.gone
    BY <1>1 DEF Request, Graph
  <2>3. Goes(p, r) /\ old.step = "edges"
    BY <1>6 DEF ReadEdges
  <2> HIDE DEF r
  <2>4. old.read.nodes = graph.nodes => Whole(r.read)
    BY <2>2 DEF IInv, GraphsWhole, Whole
  <2>5. RequestOK(r)
    BY <1>1, <2>2, <2>3, <2>4 DEF RequestOK, ReadOK, RanOK, SameBut
  <2>6. CutOK(r) /\ Given(r.read)
    BY <1>1, <2>2 DEF CutOK, Given
  <2>7. QED
    BY <1>3, <2>1, <2>3, <2>5, <2>6
<1>7. CASE FindCurrent(p)
  <2> DEFINE target == IF old.target = 0 THEN Len(versions) + 1 ELSE old.target
             r == [old EXCEPT !.seen = CurrentVersions, !.target = target,
                              !.step = "unmark"]
  <2>1. CurrentVersions \in SUBSET Nat /\ target \in Nat
    BY <1>1 DEF CurrentVersions, Request
  <2>2. r \in Request
    BY <1>1, <2>1 DEF Request, Steps
  <2>3. /\ r.step = "unmark" /\ r.target = target /\ r.read = old.read
        /\ r.op = old.op /\ r.replaced = old.replaced
        /\ r.result = old.result /\ r.ran = old.ran
        /\ r.gone = old.gone /\ r.cut = old.cut
    BY <1>1 DEF Request
  <2>4. Goes(p, r) /\ old.step = "find"
    BY <1>7 DEF FindCurrent
  <2> HIDE DEF r
  <2>5. r.op = "rollback" => r.target \in DOMAIN versions
    BY <1>1, <2>3 DEF RequestOK
  <2>6. RequestOK(r)
    BY <1>1, <2>3, <2>4, <2>5 DEF RequestOK, ReadOK, RanOK, SameBut
  <2>7. CutOK(r) /\ Given(r.read)
    BY <1>1, <2>3, <2>4 DEF CutOK
  <2>8. QED
    BY <1>3, <2>2, <2>4, <2>6, <2>7
<1>8. CASE Unmark(p)
  <2> DEFINE r == [old EXCEPT !.holds = old.seen \cap CurrentVersions,
                              !.step = "commit"]
  <2>1. r \in Request
    BY <1>1 DEF Request, Steps
  <2>2. /\ r.step = "commit" /\ r.target = old.target /\ r.read = old.read
        /\ r.op = old.op /\ r.replaced = old.replaced
        /\ r.result = old.result /\ r.ran = old.ran
        /\ r.gone = old.gone /\ r.cut = old.cut
    BY <1>1 DEF Request
  <2>3. Goes(p, r) /\ old.step = "unmark"
    BY <1>8 DEF Unmark
  <2> HIDE DEF r
  <2>4. RequestOK(r)
    BY <1>1, <2>2, <2>3 DEF RequestOK, ReadOK, RanOK, SameBut
  <2>5. CutOK(r) /\ Given(r.read)
    BY <1>1, <2>2, <2>3 DEF CutOK
  <2>6. QED
    BY <1>3, <2>1, <2>3, <2>4, <2>5
<1>9. CASE CutEdges(p)
  <2> DEFINE r == [old EXCEPT !.cut = old.read.edges \cap graph.edges,
                              !.read.nodes = graph.nodes, !.step = "delete"]
  <2>1. r \in Request
    BY <1>1 DEF Request, Steps, Graph
  <2>2. /\ r.step = "delete" /\ r.target = old.target /\ r.op = old.op
        /\ r.result = old.result /\ r.gone = old.gone
        /\ r.read.nodes = graph.nodes /\ r.ran = old.ran
    BY <1>1 DEF Request, Graph
  <2>3. Goes(p, r) /\ old.step = "cut" /\ old.op = "rollback"
    BY <1>9 DEF CutEdges, At
  <2> HIDE DEF r
  <2>4. RequestOK(r)
    BY <1>1, <2>2, <2>3 DEF RequestOK, ReadOK, RanOK, SameBut
  <2>5. CutOK(r) /\ Given(r.read)
    BY <1>1, <2>2 DEF CutOK, Given
  <2>6. QED
    BY <1>3, <2>1, <2>3, <2>4, <2>5
<1>10. CASE DeleteNodes(p)
  <2> DEFINE gone == Ids(old.read.nodes) \cap Ids(graph.nodes)
             r == [old EXCEPT !.gone = gone, !.step = "check"]
  <2>1. gone \in SUBSET Nat /\ \A id \in gone : id < serial
    BY <1>1 DEF Ids, Graph, Node, Given
  <2>2. Goes(p, r) /\ old.step = "delete" /\ old.op = "rollback"
    BY <1>10 DEF DeleteNodes, At
  <2> HIDE DEF gone
  <2>3. r \in Request
    BY <1>1, <2>1 DEF Request, Steps
  <2>4. /\ r.step = "check" /\ r.target = old.target /\ r.op = old.op
        /\ r.result = old.result /\ r.gone = gone
        /\ r.read = old.read /\ r.ran = old.ran
    BY <1>1 DEF Request
  <2> HIDE DEF r
  <2>5. RequestOK(r)
    BY <1>1, <2>2, <2>4 DEF RequestOK, ReadOK, RanOK, SameBut
  <2>6. CutOK(r) /\ Given(r.read)
    BY <1>1, <2>1, <2>4 DEF CutOK
  <2>7. QED
    BY <1>3, <2>2, <2>3, <2>5, <2>6
<1>11. CASE CheckEdges(p) /\ ~Ends(p)
  <2> DEFINE r == [old EXCEPT !.step = "find"]
  <2>1. r \in Request
    BY <1>1 DEF Request, Steps
  <2>2. /\ r.step = "find" /\ r.target = old.target /\ r.op = old.op
        /\ r.result = old.result /\ r.gone = old.gone /\ r.cut = old.cut
        /\ r.read = old.read /\ r.ran = old.ran
    BY <1>1 DEF Request
  <2>3. Goes(p, r) /\ old.step = "check" /\ old.op = "rollback" /\ Left(p) = {}
    BY <1>11 DEF CheckEdges, At
  <2> HIDE DEF r
  <2>4. RequestOK(r)
    BY <1>1, <2>2, <2>3 DEF RequestOK, ReadOK, RanOK, SameBut
  <2>5. CutOK(r) /\ Given(r.read)
    BY <1>1, <2>2, <2>3 DEF CutOK, Left
  <2>6. QED
    BY <1>3, <2>1, <2>3, <2>4, <2>5
<1>12. CASE RunSandbox(p) /\ ~Ends(p)
  <2>1. PICK result \in {"passed", "failed"} :
          Goes(p, [old EXCEPT !.ran = old.read, !.result = result,
                              !.step = "nodes"])
    BY <1>12 DEF RunSandbox
  <2> DEFINE r == [old EXCEPT !.ran = old.read, !.result = result,
                              !.step = "nodes"]
  <2>2. r \in Request
    BY <1>1 DEF Request, Steps
  <2>3. /\ r.step = "nodes" /\ r.target = old.target /\ r.read = old.read
        /\ r.op = old.op /\ r.replaced = old.replaced
        /\ r.result = result /\ r.ran = old.read /\ r.gone = old.gone
    BY <1>1 DEF Request
  <2>4. old.step = "run" /\ old.op = "sandbox"
    BY <1>12 DEF RunSandbox, At
  <2> HIDE DEF r
  <2>5. RequestOK(r)
    BY <1>1, <2>3, <2>4 DEF RequestOK, ReadOK, RanOK, SameBut
  <2>6. CutOK(r) /\ Given(r.read)
    BY <1>1, <2>3 DEF CutOK
  <2>7. QED
    BY <1>3, <2>1, <2>2, <2>5, <2>6 DEF r
<1>13. QED
  BY <1>4, <1>5, <1>6, <1>7, <1>8, <1>9, <1>10, <1>11, <1>12

\* A commit that changes the graph marks the parts that other requests hold.
LEMMA Replacing ==
    ASSUME IInv, NEW p \in Processes, NEW g \in Graph, Replaces(p, g),
           \A n \in g.nodes : n.id < serial',
           \A q \in Processes \ {p}, e \in g.edges \ graph.edges :
              ~On(e, request[q].gone),
           DOMAIN versions \subseteq DOMAIN versions',
           serial' \in Nat, serial <= serial'
    PROVE  /\ request' \in [Processes -> Request] /\ graph' = g
           /\ \A q \in Processes : /\ RequestOK(request[q])' /\ CutOK(request[q])'
                                   /\ Given(request[q].read)'
<1> DEFINE changed == {x \in Parts : g[x] # graph[x]}
           Marked(q) == [request[q] EXCEPT
                            !.replaced = @ \cup (Held(request[q]) \cap changed)]
<1>1. /\ graph' = g
      /\ request' = [q \in Processes |-> IF q = p THEN NoRequest ELSE Marked(q)]
  BY DEF Replaces
<1>2. /\ "nodes" \notin changed => g.nodes = graph.nodes
      /\ "edges" \notin changed => g.edges = graph.edges
      /\ changed \subseteq Parts
  BY DEF Parts
<1> HIDE DEF changed
<1>3. ASSUME NEW q \in Processes
      PROVE  Marked(q) \in Request
  BY <1>2 DEF IInv, TypeOK, Request
<1>4. request' \in [Processes -> Request]
  BY <1>1, <1>3, NoRequestOK
<1>5. ASSUME NEW q \in Processes, q # p
      PROVE  RequestOK(request[q])' /\ CutOK(request[q])' /\ Given(request[q].read)'
  <2> DEFINE old == request[q]
             held == Held(old)
  <2>1. /\ old \in Request /\ RequestOK(old) /\ CutOK(old) /\ Given(old.read)
        /\ serial \in Nat
    BY DEF IInv, TypeOK, SerialOK
  <2>2. PICK r \in Request :
          /\ request'[q] = r
          /\ r.step = old.step /\ r.op = old.op /\ r.target = old.target
          /\ r.result = old.result /\ r.read = old.read /\ r.ran = old.ran
          /\ r.replaced = old.replaced \cup (held \cap changed)
          /\ r.cut = old.cut /\ r.gone = old.gone
    <3>1. request'[q] = Marked(q) /\ Marked(q) \in Request
      BY <1>1, <1>3, <1>5
    <3>2. QED
      BY <2>1, <3>1 DEF Request
  <2>3. /\ old.result = "none" /\ old.step = "edges" => "nodes" \in held
        /\ old.result = "none" /\ old.step = "run" =>
              "nodes" \in held /\ "edges" \in held
        /\ old.result # "none" /\ old.step = "nodes" =>
              "nodes" \in held /\ "edges" \in held
        /\ old.result # "none" /\ old.step = "edges" => "edges" \in held
    BY DEF Held, Parts
  <2> HIDE DEF held
  <2>4. ReadOK(r)'
    BY <1>1, <1>2, <2>1, <2>2, <2>3 DEF RequestOK, ReadOK, SameBut, Whole
  <2>5. RanOK(r)'
    BY <1>1, <1>2, <2>1, <2>2, <2>3 DEF RequestOK, RanOK, SameBut
  <2>6. RequestOK(r)'
    BY <2>1, <2>2, <2>4, <2>5 DEF RequestOK
  <2>7. RequestOK(request[q])'
    BY <2>2, <2>6 DEF RequestOK, ReadOK, RanOK, SameBut, Whole
  <2>8. Given(request[q].read)'
    <3>1. \A n \in old.read.nodes : n.id \in Nat /\ n.id < serial
      BY <2>1 DEF Given, Request, Graph, Node
    <3>2. request'[q].read = old.read
      BY <2>2
    <3>3. QED
      BY <2>1, <3>1, <3>2 DEF Given
  <2>9. CutOK(request[q])'
    <3>1. \A id \in old.gone : id \in Nat /\ id < serial
      BY <2>1 DEF CutOK, Request
    <3>2. ASSUME old.op = "rollback", old.step \in {"find", "unmark", "commit"},
                 NEW e \in g.edges \ old.cut
          PROVE  ~On(e, old.gone)
      BY <1>5, <2>1, <3>2 DEF CutOK
    <3>3. /\ request'[q].gone = old.gone /\ request'[q].cut = old.cut
          /\ request'[q].op = old.op /\ request'[q].step = old.step
      BY <2>2
    <3>4. QED
      BY <1>1, <2>1, <3>1, <3>2, <3>3 DEF CutOK, On
  <2>10. QED
    BY <2>7, <2>8, <2>9
<1>6. RequestOK(request[p])' /\ CutOK(request[p])' /\ Given(request[p].read)'
  <2>1. request'[p] = NoRequest
    BY <1>1
  <2>2. QED
    BY <2>1 DEF RequestOK, ReadOK, RanOK, CutOK, Given, NoRequest, NoGraph
<1>7. QED
  BY <1>1, <1>4, <1>5, <1>6

\* Ids stay given when serial grows.
LEMMA GivenStays ==
    ASSUME serial \in Nat, serial' \in Nat, serial <= serial',
           NEW g, \A n \in g.nodes : n.id \in Nat, Given(g)
    PROVE  \A n \in g.nodes : n.id < serial'
BY DEF Given

LEMMA VersionsGiven ==
    ASSUME IInv, serial' \in Nat, serial <= serial', NEW v \in DOMAIN versions
    PROVE  \A n \in versions[v].graph.nodes : n.id < serial'
<1>1. versions[v].graph \in Graph /\ Given(versions[v].graph) /\ serial \in Nat
  <2>1. versions \in Seq(Version) /\ serial \in Nat /\ Given(versions[v].graph)
    BY DEF IInv, TypeOK, SerialOK
  <2>2. versions[v] \in Version
    BY <2>1
  <2>3. QED
    BY <2>1, <2>2 DEF Version
<1>2. \A n \in versions[v].graph.nodes : n.id \in Nat
  BY <1>1 DEF Graph, Node
<1>3. QED
  BY <1>1, <1>2, GivenStays

\* An edit: the graph stays whole, and no edge is added to nodes that another
\* request has deleted.
LEMMA EditKeeps ==
    ASSUME IInv, NEW p \in Processes, NEW g \in Graph, Edits(p, g), Whole(g),
           \A n \in g.nodes : n.id < serial',
           \A q \in Processes \ {p}, e \in g.edges \ graph.edges :
              ~On(e, request[q].gone),
           serial' \in Nat \ {0}, serial <= serial'
    PROVE  IInv'
<1>1. /\ edits \in Nat /\ edits' = edits + 1 /\ Replaces(p, g)
      /\ UNCHANGED <<versions, test, rollbacks, tests>>
  BY DEF Edits, IInv, TypeOK
<1>2. /\ request' \in [Processes -> Request] /\ graph' = g
      /\ \A q \in Processes : /\ RequestOK(request[q])' /\ CutOK(request[q])'
                              /\ Given(request[q].read)'
  BY <1>1, Replacing
<1>3. TypeOK'
  BY <1>1, <1>2 DEF IInv, TypeOK
<1>4. /\ GraphsWhole' /\ SomeCurrentVersion'
      /\ SameBut(test.ran, test.fingerprint, test.replaced)'
  BY <1>1, <1>2 DEF IInv, GraphsWhole, Whole, SomeCurrentVersion, CurrentVersions
<1>5. SerialOK'
  <2>1. \A v \in DOMAIN versions : \A n \in versions[v].graph.nodes : n.id < serial'
    BY VersionsGiven
  <2>2. QED
    BY <1>1, <1>2, <2>1 DEF SerialOK, Given
<1>6. QED
  BY <1>2, <1>3, <1>4, <1>5 DEF IInv

LEMMA EditPreserves ==
    ASSUME IInv, NEW p \in Processes,
           \/ AddNode(p)
           \/ \E n \in graph.nodes :
                 \/ UpdateNode(p, n) \/ DeleteNode(p, n)
                 \/ \E m \in graph.nodes : AddEdge(p, m, n)
           \/ \E e \in graph.edges : DeleteEdge(p, e)
    PROVE  IInv'
<1>1. /\ graph \in Graph /\ edits \in Nat /\ serial \in Nat \ {0}
      /\ Whole(graph) /\ \A n \in graph.nodes : n.id \in Nat /\ n.id < serial
  BY DEF IInv, TypeOK, GraphsWhole, SerialOK, Given, Graph, Node
<1>2. CASE AddNode(p)
  <2> DEFINE new == [id |-> serial, rev |-> 0]
             g == [graph EXCEPT !.nodes = @ \cup {new}]
  <2>1. new \in Node /\ new.id = serial
    BY <1>1 DEF Node
  <2> HIDE DEF new
  <2>2. /\ g.nodes = graph.nodes \cup {new} /\ g.edges = graph.edges
        /\ g \in Graph
    BY <1>1, <2>1 DEF Graph
  <2>3. Edits(p, g) /\ serial' = serial + 1
    BY <1>2 DEF AddNode, new
  <2> HIDE DEF g
  <2>4. Whole(g) /\ \A n \in g.nodes : n.id < serial'
    BY <1>1, <2>1, <2>2, <2>3 DEF Whole, Ids
  <2>5. QED
    BY <1>1, <2>2, <2>3, <2>4, EditKeeps
<1>3. ASSUME NEW n \in graph.nodes, UpdateNode(p, n) PROVE IInv'
  <2> DEFINE new == [n EXCEPT !.rev = edits']
             g == [graph EXCEPT !.nodes = (@ \ {n}) \cup {new}]
  <2>1. Edits(p, g) /\ serial' = serial /\ edits' \in Nat
    BY <1>1, <1>3 DEF UpdateNode, Edits
  <2>2. new \in Node /\ new.id = n.id
    BY <1>1, <2>1 DEF Node, Graph
  <2> HIDE DEF new
  <2>3. /\ g.nodes = (graph.nodes \ {n}) \cup {new} /\ g.edges = graph.edges
        /\ g \in Graph
    BY <1>1, <2>2 DEF Graph
  <2> HIDE DEF g
  <2>4. Whole(g) /\ \A m \in g.nodes : m.id < serial'
    <3>1. Ids(graph.nodes) \subseteq Ids(g.nodes)
      BY <2>2, <2>3 DEF Ids
    <3>2. Whole(g)
      BY <1>1, <2>3, <3>1 DEF Whole
    <3>3. QED
      BY <1>1, <2>1, <2>2, <2>3, <3>2
  <2>5. QED
    BY <1>1, <2>1, <2>3, <2>4, EditKeeps
<1>4. ASSUME NEW n \in graph.nodes, DeleteNode(p, n) PROVE IInv'
  <2> DEFINE joined == {e \in graph.edges : On(e, {n.id})}
             g == [nodes |-> graph.nodes \ {n}, edges |-> graph.edges \ joined]
  <2>1. Edits(p, g) /\ serial' = serial
    BY <1>4 DEF DeleteNode
  <2>2. g.nodes = graph.nodes \ {n} /\ g.edges = graph.edges \ joined /\ g \in Graph
    BY <1>1 DEF Graph
  <2>3. ASSUME NEW e \in g.edges PROVE {e.from, e.to} \subseteq Ids(g.nodes)
    <3>1. {e.from, e.to} \subseteq Ids(graph.nodes) /\ e.from # n.id /\ e.to # n.id
      BY <1>1, <2>2, <2>3 DEF Whole, On
    <3>2. QED
      BY <2>2, <3>1 DEF Ids
  <2>4. Whole(g) /\ \A m \in g.nodes : m.id < serial'
    BY <1>1, <2>1, <2>2, <2>3 DEF Whole
  <2>5. g.edges \ graph.edges = {}
    BY <2>2
  <2> HIDE DEF g
  <2>6. QED
    BY <1>1, <2>1, <2>2, <2>4, <2>5, EditKeeps
<1>5. ASSUME NEW n \in graph.nodes, NEW m \in graph.nodes, AddEdge(p, m, n)
      PROVE  IInv'
  <2> DEFINE new == [id |-> serial, from |-> m.id, to |-> n.id]
             g == [graph EXCEPT !.edges = @ \cup {new}]
  <2>1. new \in Edge /\ new.from = m.id /\ new.to = n.id
    BY <1>1 DEF Edge
  <2>2. Edits(p, g) /\ serial' = serial + 1 /\ {m.id, n.id} \cap GoneByOthers(p) = {}
    BY <1>5 DEF AddEdge
  <2> HIDE DEF new
  <2>3. /\ g.edges = graph.edges \cup {new} /\ g.nodes = graph.nodes
        /\ g \in Graph
    BY <1>1, <2>1 DEF Graph
  <2> HIDE DEF g
  <2>4. Whole(g) /\ \A k \in g.nodes : k.id < serial'
    BY <1>1, <2>1, <2>2, <2>3 DEF Whole, Ids
  <2>5. ASSUME NEW q \in Processes \ {p}, NEW e \in g.edges \ graph.edges
        PROVE  ~On(e, request[q].gone)
    BY <2>1, <2>2, <2>3 DEF On, GoneByOthers, Others
  <2>6. QED
    BY <1>1, <2>2, <2>3, <2>4, <2>5, EditKeeps
<1>6. ASSUME NEW e \in graph.edges, DeleteEdge(p, e) PROVE IInv'
  <2> DEFINE g == [graph EXCEPT !.edges = @ \ {e}]
  <2>1. Edits(p, g) /\ serial' = serial
    BY <1>6 DEF DeleteEdge
  <2>2. g.edges = graph.edges \ {e} /\ g.nodes = graph.nodes /\ g \in Graph
    BY <1>1 DEF Graph
  <2> HIDE DEF g
  <2>3. Whole(g) /\ \A n \in g.nodes : n.id < serial'
    BY <1>1, <2>1, <2>2 DEF Whole
  <2>4. QED
    BY <1>1, <2>1, <2>2, <2>3, EditKeeps
<1>7. QED
  BY <1>2, <1>3, <1>4, <1>5, <1>6

LEMMA PublishPreserves ==
    ASSUME IInv, NEW p \in Processes, Publish(p)
    PROVE  IInv'
<1> DEFINE old == request[p]
           row == [graph |-> old.read, current |-> TRUE, torn |-> Torn(p)]
           kept == Unmarked(p)
<1>1. /\ TypeOK /\ old \in Request /\ RequestOK(old) /\ Given(old.read)
      /\ versions \in Seq(Version) /\ old.op = "publish" /\ old.step = "commit"
      /\ UNCHANGED <<graph, test, counters>> /\ Ends(p)
  BY DEF IInv, TypeOK, SerialOK, Publish, At
<1>2. /\ request' \in [Processes -> Request] /\ request'[p] = NoRequest
      /\ \A q \in Processes \ {p} : request'[q] = request[q]
  BY <1>1, NoRequestOK, GoesEffect DEF Ends
<1>3. CASE versions' = versions
  <2>1. edits' \in Nat /\ rollbacks' \in Nat /\ tests' \in Nat /\ serial' = serial
    BY <1>1 DEF TypeOK, counters
  <2>2. QED
    BY <1>1, <1>3, <2>1, NoRequestOK, OwnStep DEF Ends
<1>4. CASE versions' = Append(kept, row)
  <2>1. /\ kept \in Seq(Version) /\ Len(kept) = Len(versions)
        /\ \A v \in 1..Len(versions) : /\ kept[v].graph = versions[v].graph
                                       /\ kept[v].torn = versions[v].torn
    BY <1>1, UnmarkedEffect
  <2>2. row \in Version /\ row.graph = old.read /\ row.current
        /\ row.torn = (old.replaced # {})
    BY <1>1 DEF Version, Request, Torn
  <2> HIDE DEF kept, row
  <2>3. /\ versions' \in Seq(Version) /\ Len(versions') = Len(versions) + 1
        /\ versions'[Len(versions) + 1] = row
        /\ \A v \in 1..Len(versions) : versions'[v] = kept[v]
        /\ DOMAIN versions' = 1..(Len(versions) + 1)
        /\ DOMAIN versions = 1..Len(versions) /\ Len(versions) \in Nat
    BY <1>1, <1>4, <2>1, <2>2
  <2>4. TypeOK'
    BY <1>1, <1>2, <2>3 DEF TypeOK, counters
  <2>5. SomeCurrentVersion'
    BY <2>2, <2>3 DEF SomeCurrentVersion, CurrentVersions
  <2>6. GraphsWhole'
    <3>1. Whole(graph)' /\ graph' = graph /\ (old.replaced = {} => Whole(row.graph))
      BY <1>1, <2>2 DEF IInv, GraphsWhole, Whole, RequestOK, ReadOK, RanOK, SameBut
    <3>2. ASSUME NEW v \in DOMAIN versions', ~versions'[v].torn
          PROVE  Whole(versions'[v].graph)
      <4>1. CASE v = Len(versions) + 1
        BY <2>2, <2>3, <3>1, <3>2, <4>1
      <4>2. CASE v \in 1..Len(versions)
        <5>1. versions'[v].graph = versions[v].graph /\ ~versions[v].torn
          BY <2>1, <2>3, <3>2, <4>2
        <5>2. QED
          BY <2>3, <4>2, <5>1 DEF IInv, GraphsWhole
      <4>3. QED
        BY <2>3, <4>1, <4>2
    <3>3. QED
      BY <3>1, <3>2 DEF GraphsWhole, Whole
  <2>7. ASSUME NEW q \in Processes
        PROVE  RequestOK(request[q])' /\ CutOK(request[q])' /\ Given(request[q].read)'
    <3>1. request'[q] \in {NoRequest, request[q]} /\ serial' = serial
      BY <1>1, <1>2 DEF counters
    <3>2. RequestOK(request[q]) /\ CutOK(request[q]) /\ Given(request[q].read)
      BY DEF IInv, SerialOK
    <3>3. CASE request'[q] = request[q]
      <4>1. RequestOK(request[q])'
        BY <1>1, <2>3, <3>2, <3>3 DEF RequestOK, ReadOK, RanOK, SameBut
      <4>2. QED
        BY <1>1, <3>1, <3>2, <3>3, <4>1 DEF CutOK, Given
    <3>4. CASE request'[q] = NoRequest
      BY <3>4, NoRequestOK DEF RequestOK, ReadOK, RanOK, SameBut, CutOK, Given, NoRequest, NoGraph
    <3>5. QED
      BY <3>1, <3>3, <3>4
  <2>8. SerialOK'
    <3>1. graph' = graph /\ serial' = serial
      BY <1>1 DEF counters
    <3>2. Given(graph)' /\ \A n \in row.graph.nodes : n.id < serial
      BY <1>1, <2>2, <3>1 DEF IInv, SerialOK, Given
    <3>3. ASSUME NEW v \in DOMAIN versions'
          PROVE  \A n \in versions'[v].graph.nodes : n.id < serial
      <4>1. CASE v = Len(versions) + 1
        BY <2>3, <3>2, <4>1
      <4>2. CASE v \in 1..Len(versions)
        <5>1. versions'[v].graph = versions[v].graph /\ v \in DOMAIN versions
          BY <2>1, <2>3, <4>2
        <5>2. Given(versions[v].graph)
          BY <5>1 DEF IInv, SerialOK
        <5>3. QED
          BY <5>1, <5>2 DEF Given
      <4>3. QED
        BY <2>3, <4>1, <4>2
    <3>4. QED
      BY <2>7, <3>1, <3>2, <3>3 DEF SerialOK, Given
  <2>9. QED
    BY <1>1, <2>4, <2>5, <2>6, <2>7, <2>8 DEF IInv
<1>5. QED
  BY <1>3, <1>4 DEF Publish

LEMMA RecordPreserves ==
    ASSUME IInv, NEW p \in Processes, RecordSandboxRun(p)
    PROVE  IInv'
<1> DEFINE old == request[p]
<1>1. /\ TypeOK /\ old \in Request /\ RequestOK(old) /\ old.step = "record"
      /\ test' = [ok |-> old.result = "passed", fingerprint |-> old.read,
                  ran |-> old.ran, replaced |-> old.replaced]
      /\ Ends(p) /\ UNCHANGED <<graph, versions, counters>>
  BY DEF IInv, TypeOK, RecordSandboxRun, At
<1>2. /\ request' \in [Processes -> Request] /\ request'[p] = NoRequest
      /\ \A q \in Processes \ {p} : request'[q] = request[q]
  BY <1>1, NoRequestOK, GoesEffect DEF Ends
<1>3. SameBut(test.ran, test.fingerprint, test.replaced)'
  BY <1>1 DEF RequestOK, ReadOK, RanOK, SameBut
<1>4. TypeOK'
  <2>1. test' \in [ok : BOOLEAN, fingerprint : Graph, ran : Graph,
               replaced : SUBSET Parts]
    BY <1>1 DEF Request
  <2>2. QED
    BY <1>1, <1>2, <2>1 DEF TypeOK, counters
<1>5. ASSUME NEW q \in Processes
      PROVE  RequestOK(request[q])' /\ CutOK(request[q])' /\ Given(request[q].read)'
  <2>1. /\ request'[q] \in {NoRequest, request[q]} /\ serial' = serial
        /\ RequestOK(request[q]) /\ CutOK(request[q]) /\ Given(request[q].read)
    BY <1>1, <1>2 DEF IInv, SerialOK, counters
  <2>2. CASE request'[q] = request[q]
    <3>1. RequestOK(request[q])'
      BY <1>1, <2>1, <2>2 DEF RequestOK, ReadOK, RanOK, SameBut
    <3>2. QED
      BY <1>1, <2>1, <2>2, <3>1 DEF CutOK, Given
  <2>3. CASE request'[q] = NoRequest
    BY <2>3, NoRequestOK DEF RequestOK, ReadOK, RanOK, SameBut, CutOK, Given, NoRequest, NoGraph
  <2>4. QED
    BY <2>1, <2>2, <2>3
<1>6. GraphsWhole' /\ SomeCurrentVersion'
  BY <1>1 DEF IInv, GraphsWhole, Whole, SomeCurrentVersion, CurrentVersions
<1>7. SerialOK'
  BY <1>1, <1>5 DEF IInv, SerialOK, Given, counters
<1>8. QED
  BY <1>3, <1>4, <1>5, <1>6, <1>7 DEF IInv

\* What is restored is a whole graph with new ids, whatever the snapshot was.
LEMMA RestoredIsWhole ==
    ASSUME NEW snapshot \in Graph, Given(snapshot), serial \in Nat
    PROVE  /\ Restored(snapshot) \in Graph /\ Whole(Restored(snapshot))
           /\ \A n \in Restored(snapshot).nodes : n.id < 2 * serial
           /\ \A e \in Restored(snapshot).edges : e.from >= serial /\ e.to >= serial
<1> DEFINE kept == {e \in snapshot.edges : {e.from, e.to} \subseteq Ids(snapshot.nodes)}
           New(n) == [n EXCEPT !.id = @ + serial]
           NewEdge(e) == [id |-> e.id + serial, from |-> e.from + serial,
                          to |-> e.to + serial]
           nodes == {New(n) : n \in snapshot.nodes}
           edges == {NewEdge(e) : e \in kept}
<1>1. Restored(snapshot) = [nodes |-> nodes, edges |-> edges]
  BY DEF Restored
<1>2. ASSUME NEW n \in snapshot.nodes
      PROVE  New(n) \in Node /\ New(n).id = n.id + serial /\ New(n).id < 2 * serial
  BY DEF Graph, Node, Given
<1>3. ASSUME NEW e \in kept
      PROVE  /\ NewEdge(e) \in Edge
             /\ NewEdge(e).from = e.from + serial /\ NewEdge(e).to = e.to + serial
             /\ NewEdge(e).from >= serial /\ NewEdge(e).to >= serial
  <2>1. e.id \in Nat /\ e.from \in Nat /\ e.to \in Nat
    BY DEF Graph, Edge
  <2>2. QED
    BY <2>1 DEF Edge
<1>4. ASSUME NEW id \in Ids(snapshot.nodes) PROVE id + serial \in Ids(nodes)
  <2>1. PICK n \in snapshot.nodes : id = n.id
    BY DEF Ids
  <2>2. New(n) \in nodes /\ New(n).id = id + serial
    BY <1>2, <2>1
  <2> HIDE DEF nodes
  <2>3. QED
    BY <2>2 DEF Ids
<1>5. ASSUME NEW e \in edges
      PROVE  e \in Edge /\ e.from >= serial /\ e.to >= serial
             /\ {e.from, e.to} \subseteq Ids(nodes)
  <2>1. PICK k \in kept : e = NewEdge(k)
    OBVIOUS
  <2>2. k.from \in Ids(snapshot.nodes) /\ k.to \in Ids(snapshot.nodes)
    OBVIOUS
  <2> HIDE DEF kept, nodes, edges, NewEdge
  <2>3. QED
    BY <1>3, <1>4, <2>1, <2>2
<1>6. ASSUME NEW n \in nodes PROVE n \in Node /\ n.id < 2 * serial
  <2>1. PICK m \in snapshot.nodes : n = New(m)
    OBVIOUS
  <2> HIDE DEF New, nodes
  <2>2. QED
    BY <1>2, <2>1
<1> HIDE DEF nodes, edges
<1>7. QED
  BY <1>1, <1>5, <1>6 DEF Graph, Whole

\* A rollback that has passed its check leaves a whole graph.
LEMMA RolledBackIsWhole ==
    ASSUME IInv, NEW p \in Processes, At(p, "rollback", "commit"),
           request[p].target \in DOMAIN versions
    PROVE  /\ RolledBack(p) \in Graph /\ Whole(RolledBack(p))
           /\ \A n \in RolledBack(p).nodes : n.id < 2 * serial
           /\ \A q \in Processes, e \in RolledBack(p).edges \ graph.edges :
                 ~On(e, request[q].gone)
<1> DEFINE snapshot == versions[request[p].target].graph
           restored == Restored(snapshot)
           left == {n \in graph.nodes : n.id \notin request[p].gone}
           kept == graph.edges \ request[p].cut
<1>1. /\ graph \in Graph /\ Whole(graph) /\ serial \in Nat /\ snapshot \in Graph
      /\ Given(snapshot) /\ CutOK(request[p]) /\ Given(graph)
  <2>1. versions \in Seq(Version) /\ versions[request[p].target] \in Version
    BY DEF IInv, TypeOK
  <2>2. snapshot \in Graph
    BY <2>1 DEF Version
  <2>3. QED
    BY <2>2 DEF IInv, TypeOK, GraphsWhole, SerialOK
<1>2. /\ restored \in Graph /\ Whole(restored)
      /\ \A n \in restored.nodes : n.id < 2 * serial
      /\ \A e \in restored.edges : e.from >= serial /\ e.to >= serial
  BY <1>1, RestoredIsWhole
<1>3. RolledBack(p) = [nodes |-> left \cup restored.nodes, edges |-> kept \cup restored.edges]
  BY DEF RolledBack
<1> HIDE DEF restored
<1>4. ASSUME NEW e \in kept PROVE {e.from, e.to} \subseteq Ids(left)
  <2>1. ~On(e, request[p].gone) /\ {e.from, e.to} \subseteq Ids(graph.nodes)
    BY <1>1 DEF CutOK, At, Whole
  <2>2. QED
    BY <2>1 DEF On, Ids
<1>5. /\ left \subseteq Node /\ kept \subseteq Edge
      /\ \A n \in left : n.id < 2 * serial
  <2>1. \A n \in graph.nodes : n.id \in Nat /\ n.id < serial
    BY <1>1 DEF Graph, Node, Given
  <2>2. QED
    BY <1>1, <2>1 DEF Graph
<1>6. ASSUME NEW q \in Processes, NEW e \in restored.edges
      PROVE  ~On(e, request[q].gone)
  <2>1. \A id \in request[q].gone : id \in Nat /\ id < serial
    BY DEF IInv, TypeOK, Request, CutOK
  <2>2. e.from >= serial /\ e.to >= serial /\ e.from \in Nat /\ e.to \in Nat
    BY <1>2 DEF Graph, Edge
  <2>3. QED
    BY <1>1, <2>1, <2>2 DEF On
<1> HIDE DEF left
<1>7. QED
  BY <1>2, <1>3, <1>4, <1>5, <1>6 DEF Graph, Whole, Ids

LEMMA RollbackPreserves ==
    ASSUME IInv, NEW p \in Processes, Rollback(p)
    PROVE  IInv'
<1> DEFINE target == request[p].target
           kept == Unmarked(p)
           g == RolledBack(p)
<1>1. /\ TypeOK /\ target \in 1..Len(versions) /\ versions \in Seq(Version)
      /\ Len(versions) \in Nat /\ DOMAIN versions = 1..Len(versions)
      /\ rollbacks' \in Nat /\ versions[target] \in Version
      /\ versions' = [kept EXCEPT ![target].current = TRUE]
      /\ UNCHANGED <<test, edits, tests>> /\ Replaces(p, g)
      /\ At(p, "rollback", "commit") /\ serial \in Nat /\ serial' = 2 * serial
      /\ serial' \in Nat \ {0} /\ serial <= serial'
  <2>1. TypeOK /\ RequestOK(request[p]) /\ request[p].op = "rollback"
        /\ versions \in Seq(Version) /\ rollbacks \in Nat /\ serial \in Nat \ {0}
    BY DEF IInv, TypeOK, Rollback, At
  <2>2. target \in 1..Len(versions) /\ Len(versions) \in Nat
        /\ DOMAIN versions = 1..Len(versions)
    BY <2>1 DEF RequestOK
  <2>3. QED
    BY <2>1, <2>2 DEF Rollback
<1>2. /\ kept \in Seq(Version) /\ Len(kept) = Len(versions)
      /\ \A v \in 1..Len(versions) : /\ kept[v].graph = versions[v].graph
                                     /\ kept[v].torn = versions[v].torn
  BY <1>1, UnmarkedEffect
<1>3. /\ g \in Graph /\ Whole(g) /\ \A n \in g.nodes : n.id < serial'
      /\ \A q \in Processes, e \in g.edges \ graph.edges : ~On(e, request[q].gone)
  BY <1>1, RolledBackIsWhole
<1> DEFINE row == [kept[target] EXCEPT !.current = TRUE]
<1>4. row \in Version /\ row.current /\ row.graph = kept[target].graph
      /\ row.torn = kept[target].torn
  <2>1. kept[target] \in Version
    BY <1>1, <1>2
  <2>2. QED
    BY <2>1 DEF Version
<1>5. versions' = [kept EXCEPT ![target] = row]
  BY <1>1
<1> HIDE DEF kept, row, g
<1>6. /\ versions' \in Seq(Version) /\ Len(versions') = Len(versions)
      /\ DOMAIN versions' = 1..Len(versions)
      /\ versions'[target] = row
      /\ \A v \in 1..Len(versions) : v # target => versions'[v] = kept[v]
  BY <1>1, <1>2, <1>4, <1>5
<1>7. /\ request' \in [Processes -> Request] /\ graph' = g
      /\ \A q \in Processes : /\ RequestOK(request[q])' /\ CutOK(request[q])'
                              /\ Given(request[q].read)'
  <2>1. DOMAIN versions \subseteq DOMAIN versions'
    BY <1>1, <1>6
  <2>2. QED
    BY <1>1, <1>3, <2>1, Replacing
<1>8. TypeOK'
  BY <1>1, <1>3, <1>6, <1>7 DEF TypeOK
<1>9. SomeCurrentVersion'
  BY <1>1, <1>4, <1>6 DEF SomeCurrentVersion, CurrentVersions
<1>10. GraphsWhole'
  <2>1. ASSUME NEW v \in DOMAIN versions', ~versions'[v].torn
        PROVE  Whole(versions'[v].graph)
    <3>1. v \in DOMAIN versions /\ versions'[v].graph = versions[v].graph
          /\ versions'[v].torn = versions[v].torn
      BY <1>1, <1>2, <1>4, <1>6
    <3>2. QED
      BY <2>1, <3>1 DEF IInv, GraphsWhole
  <2>2. QED
    BY <1>3, <1>7, <2>1 DEF GraphsWhole, Whole
<1>11. SameBut(test.ran, test.fingerprint, test.replaced)'
  BY <1>1 DEF IInv
<1>12. SerialOK'
  <2>1. ASSUME NEW v \in DOMAIN versions'
        PROVE  \A n \in versions'[v].graph.nodes : n.id < serial'
    <3>1. v \in DOMAIN versions /\ versions'[v].graph = versions[v].graph
      BY <1>1, <1>2, <1>4, <1>6
    <3>2. QED
      BY <1>1, <3>1, VersionsGiven
  <2>2. QED
    BY <1>3, <1>7, <2>1 DEF SerialOK, Given
<1>13. QED
  BY <1>7, <1>8, <1>9, <1>10, <1>11, <1>12 DEF IInv

LEMMA InitEstablishes == Init => IInv
<1> SUFFICES ASSUME Init PROVE IInv
  OBVIOUS
<1>1. NewGraph \in Graph /\ graph \in Graph /\ Whole(graph) /\ Given(graph)
  <2>1. NewGraph \in Graph
    BY DEF NewGraph, Graph, Node, Edge
  <2>2. /\ graph.nodes = NewGraph.nodes /\ graph.edges \subseteq NewGraph.edges
        /\ graph \in Graph /\ serial = 1
    BY <2>1 DEF Init, Graph
  <2>3. graph.nodes = {[id |-> 0, rev |-> 0]}
        /\ \A e \in graph.edges : e.from = 0 /\ e.to = 0
    BY <2>2 DEF NewGraph
  <2>4. 0 \in Ids(graph.nodes)
    BY <2>3 DEF Ids
  <2>5. QED
    BY <2>1, <2>2, <2>3, <2>4 DEF Whole, Given
<1>2. TypeOK
  BY <1>1, NoRequestOK DEF Init, TypeOK
<1>3. \A p \in Processes : /\ RequestOK(request[p]) /\ CutOK(request[p])
                           /\ Given(request[p].read)
  BY NoRequestOK DEF Init
<1>4. GraphsWhole /\ SomeCurrentVersion /\ SerialOK
  BY <1>1, <1>3 DEF Init, GraphsWhole, SomeCurrentVersion, SerialOK
<1>5. SameBut(test.ran, test.fingerprint, test.replaced)
  BY DEF Init, SameBut
<1>6. QED
  BY <1>2, <1>3, <1>4, <1>5 DEF IInv

LEMMA StepPreserves == IInv /\ [Next]_vars => IInv'
<1> SUFFICES ASSUME IInv, [Next]_vars PROVE IInv'
  OBVIOUS
<1>1. ASSUME NEW p \in Processes,
             \/ Statement(p) \/ BeginPublish(p) \/ BeginSandbox(p)
             \/ \E v \in DOMAIN versions : BeginRollback(p, v)
      PROVE  IInv'
  BY <1>1, Beginnings, BeginRollbackPreserves, Statements, PublishPreserves,
     RollbackPreserves, RecordPreserves DEF Statement
<1>2. CASE UNCHANGED vars
  <2>1. TypeOK' /\ SameBut(test.ran, test.fingerprint, test.replaced)'
    BY <1>2 DEF vars, IInv, TypeOK
  <2>2. GraphsWhole' /\ SomeCurrentVersion' /\ SerialOK'
    BY <1>2 DEF vars, IInv, GraphsWhole, Whole, SomeCurrentVersion,
                CurrentVersions, SerialOK, Given
  <2>3. \A p \in Processes : RequestOK(request[p])' /\ CutOK(request[p])'
    BY <1>2 DEF vars, IInv, RequestOK, ReadOK, RanOK, SameBut, CutOK
  <2>4. QED
    BY <2>1, <2>2, <2>3 DEF IInv
<1>3. QED
  BY <1>1, <1>2, EditPreserves DEF Next

-----------------------------------------------------------------------------

\* The invariant holds of every behaviour: what a request has read is the graph
\* as it is, part by part, or it knows that the part was changed.
THEOREM VersionsInvariance == Spec => []IInv
<1>1. Init => IInv
  BY InitEstablishes
<1>2. IInv /\ [Next]_vars => IInv'
  BY StepPreserves
<1>3. QED
  BY <1>1, <1>2, PTL DEF Spec

\* A workflow that was ever published always has a current version.
THEOREM AlwaysSomeCurrent == Spec => []SomeCurrentVersion
<1>1. IInv => SomeCurrentVersion
  BY DEF IInv
<1>2. QED
  BY <1>1, VersionsInvariance, PTL

\* No edge is ever left without its nodes, in the graph or in a version that
\* was read without interference.
THEOREM AlwaysWhole == Spec => []GraphsWhole
<1>1. IInv => GraphsWhole
  BY DEF IInv
<1>2. QED
  BY <1>1, VersionsInvariance, PTL

\* A workflow that counts as tested has the nodes the sandbox ran, unless they
\* were changed after the run had read them and before the fingerprint did, and
\* its edges likewise: no other edit or rollback goes unnoticed.
THEOREM ReadyMeansTested == Spec => []ReadyWasTested
<1>1. IInv => ReadyWasTested
  BY DEF IInv, ReadyWasTested, SandboxReady, SameBut, Parts
<1>2. QED
  BY <1>1, VersionsInvariance, PTL

-----------------------------------------------------------------------------
(* Waiting.  A request changes rows of workflow_versions only on the way   *)
(* to its commit, and of rollbacks one is there at a time.  Nodes are      *)
(* deleted only by rollbacks that are at their check or past it, and edges *)
(* only by these and by those that come to delete nodes.  So, if nobody    *)
(* could go on: no rollback would be at its commit, as it would find no    *)
(* row held; then nobody would hold rows, none be past its check, no node  *)
(* be deleted, no edge be deleted, and nobody would wait.                  *)

LocksOK(r) ==
    /\ r.holds # {} => r.step = "commit"
    /\ r.gone # {} =>
          r.op = "rollback" /\ r.step \in {"check", "find", "unmark", "commit"}
    /\ r.cut # {} =>
          /\ r.op = "rollback"
          /\ r.step \in {"delete", "check", "find", "unmark", "commit"}
    /\ r.step = "idle" => r = NoRequest
    /\ r.step \in {"nodes", "edges"} => r.op \in {"publish", "sandbox"}
    /\ r.step \in {"find", "unmark", "commit"} => r.op \in {"publish", "rollback"}
    /\ r.step \in {"cut", "delete", "check"} => r.op = "rollback"

LocksInv ==
    /\ \A p \in Processes : LocksOK(request[p])
    /\ \A p, q \in Processes : Marks(p) /\ Marks(q) => p = q

LEMMA NoRequestLocks == LocksOK(NoRequest)
BY DEF LocksOK, NoRequest

\* A request goes on: it holds the workflows row already, or nobody does.
LEMMA GoesKeepsLocks ==
    ASSUME TypeOK, LocksInv, NEW p \in Processes, NEW r \in Request, Goes(p, r),
           LocksOK(r),
           r.op = "rollback" /\ r.step \in {"unmark", "commit"} =>
              Marks(p) \/ ~\E q \in Others(p) : Marks(q)
    PROVE  LocksInv'
<1>1. /\ request'[p] = r
      /\ \A q \in Processes \ {p} : request'[q] = request[q]
  BY GoesEffect
<1>2. ASSUME NEW q \in Processes PROVE LocksOK(request[q])'
  <2>1. LocksOK(request'[q])
    BY <1>1 DEF LocksInv
  <2>2. QED
    BY <2>1 DEF LocksOK, NoRequest, NoGraph
<1>3. ASSUME NEW a \in Processes, NEW b \in Processes, Marks(a)', Marks(b)'
      PROVE  a = b
  <2>1. \A q \in Processes \ {p} : Marks(q)' => Marks(q)
    BY <1>1 DEF Marks
  <2>2. CASE a # p /\ b # p
    BY <1>3, <2>1, <2>2 DEF LocksInv
  <2>3. CASE a = p \/ b = p
    <3>1. Marks(p)' => Marks(p) \/ ~\E q \in Others(p) : Marks(q)
      BY <1>1 DEF Marks
    <3>2. QED
      BY <1>3, <2>1, <2>3, <3>1 DEF LocksInv, Others
  <2>4. QED
    BY <2>2, <2>3
<1>4. QED
  BY <1>2, <1>3 DEF LocksInv

\* A commit that replaces the graph ends its request and moves no other.
LEMMA ReplacesKeepsLocks ==
    ASSUME TypeOK, LocksInv, NEW p \in Processes, NEW g, Replaces(p, g)
    PROVE  LocksInv'
<1>1. request'[p] = NoRequest
  BY DEF Replaces
<1>2. ASSUME NEW q \in Processes, q # p
      PROVE  LocksOK(request'[q]) /\ (Marks(q)' => Marks(q))
  <2> DEFINE old == request[q]
             changed == {x \in Parts : g[x] # graph[x]}
             more == Held(old) \cap changed
             r == [old EXCEPT !.replaced = @ \cup more]
  <2>1. request'[q] = r
    BY <1>2 DEF Replaces
  <2>2. old \in Request /\ LocksOK(old)
    BY DEF TypeOK, LocksInv
  <2>3. old = NoRequest => more = {}
    BY DEF Held, NoRequest
  <2> HIDE DEF more
  <2>4. /\ r.step = old.step /\ r.op = old.op /\ r.holds = old.holds
        /\ r.cut = old.cut /\ r.gone = old.gone /\ (more = {} => r = old)
    BY <2>2 DEF Request
  <2> HIDE DEF r
  <2>5. QED
    BY <2>1, <2>2, <2>3, <2>4 DEF LocksOK, NoRequest, Marks
<1>3. ASSUME NEW q \in Processes PROVE LocksOK(request[q])'
  <2>1. LocksOK(request'[q])
    BY <1>1, <1>2, NoRequestLocks
  <2>2. QED
    BY <2>1 DEF LocksOK, NoRequest, NoGraph
<1>4. ASSUME NEW q \in Processes, Marks(q)' PROVE Marks(q)
  BY <1>1, <1>2, <1>4 DEF Marks, NoRequest
<1>5. QED
  BY <1>3, <1>4 DEF LocksInv

LEMMA LocksInitially == Init => LocksInv
<1>1. \A p \in Processes : Init => request[p] = NoRequest
  BY DEF Init
<1>2. \A p \in Processes : request[p] = NoRequest => ~Marks(p)
  BY DEF Marks, NoRequest
<1>3. QED
  BY <1>1, <1>2, NoRequestLocks DEF LocksInv

\* The statements that read, wait or delete.
LEMMA StatementsKeepLocks ==
    ASSUME IInv, LocksInv, NEW p \in Processes,
           \/ ReadNodes(p) \/ ReadEdges(p) \/ FindCurrent(p) \/ Unmark(p)
           \/ CutEdges(p) \/ DeleteNodes(p) \/ CheckEdges(p) \/ RunSandbox(p)
    PROVE  LocksInv'
<1> DEFINE old == request[p]
<1>1. /\ old \in Request /\ LocksOK(old) /\ graph \in Graph
      /\ versions \in Seq(Version) /\ TypeOK
  BY DEF IInv, TypeOK, LocksInv
<1>2. ASSUME NEW r \in Request, Goes(p, r), LocksOK(r),
             r.step \notin {"unmark", "commit"}
      PROVE  LocksInv'
  BY <1>1, <1>2, GoesKeepsLocks
<1>3. ASSUME Ends(p) PROVE LocksInv'
  <2>1. NoRequest.step = "idle"
    BY DEF NoRequest
  <2>2. QED
    BY <1>2, <1>3, <2>1, NoRequestOK, NoRequestLocks DEF Ends
<1>4. CASE ReadNodes(p)
  <2> DEFINE r == [old EXCEPT !.read.nodes = graph.nodes, !.step = "edges"]
  <2>1. r \in Request /\ r.step = "edges" /\ r.op = old.op
        /\ r.holds = old.holds /\ r.cut = old.cut /\ r.gone = old.gone
    BY <1>1 DEF Request, Steps, Graph
  <2>2. Goes(p, r) /\ old.step = "nodes"
    BY <1>4 DEF ReadNodes
  <2> HIDE DEF r
  <2>3. LocksOK(r)
    BY <1>1, <2>1, <2>2 DEF LocksOK, NoRequest
  <2>4. QED
    BY <1>2, <2>1, <2>2, <2>3
<1>5. CASE ReadEdges(p) /\ ~Ends(p)
  <2> DEFINE step == IF old.op = "publish" THEN "find"
                     ELSE IF old.result = "none" THEN "run" ELSE "record"
             r == [old EXCEPT !.read.edges = graph.edges, !.step = step]
  <2>1. r \in Request /\ r.step = step /\ r.op = old.op
        /\ r.holds = old.holds /\ r.cut = old.cut /\ r.gone = old.gone
    BY <1>1 DEF Request, Steps, Graph
  <2>2. Goes(p, r) /\ old.step = "edges"
    BY <1>5 DEF ReadEdges
  <2> HIDE DEF r
  <2>3. LocksOK(r)
    BY <1>1, <2>1, <2>2 DEF LocksOK, NoRequest
  <2>4. QED
    BY <1>2, <2>1, <2>2, <2>3
<1>6. CASE FindCurrent(p)
  <2> DEFINE target == IF old.target = 0 THEN Len(versions) + 1 ELSE old.target
             r == [old EXCEPT !.seen = CurrentVersions, !.target = target,
                              !.step = "unmark"]
  <2>1. CurrentVersions \in SUBSET Nat /\ target \in Nat
    BY <1>1 DEF CurrentVersions, Request
  <2>2. r \in Request /\ r.step = "unmark" /\ r.op = old.op
        /\ r.holds = old.holds /\ r.cut = old.cut /\ r.gone = old.gone
    BY <1>1, <2>1 DEF Request, Steps
  <2>3. Goes(p, r) /\ old.step = "find" /\ ~RowIsHeld(p)
    BY <1>6 DEF FindCurrent
  <2> HIDE DEF r
  <2>4. LocksOK(r)
    BY <1>1, <2>2, <2>3 DEF LocksOK, NoRequest
  <2>5. QED
    BY <1>1, <2>2, <2>3, <2>4, GoesKeepsLocks DEF RowIsHeld
<1>7. CASE Unmark(p)
  <2> DEFINE r == [old EXCEPT !.holds = old.seen \cap CurrentVersions,
                              !.step = "commit"]
  <2>1. r \in Request /\ r.step = "commit" /\ r.op = old.op
        /\ r.cut = old.cut /\ r.gone = old.gone
    BY <1>1 DEF Request, Steps, Graph
  <2>2. Goes(p, r) /\ old.step = "unmark"
    BY <1>7 DEF Unmark
  <2> HIDE DEF r
  <2>3. LocksOK(r)
    BY <1>1, <2>1, <2>2 DEF LocksOK, NoRequest
  <2>4. QED
    BY <1>1, <2>1, <2>2, <2>3, GoesKeepsLocks DEF Marks
<1>8. CASE CutEdges(p)
  <2> DEFINE r == [old EXCEPT !.cut = old.read.edges \cap graph.edges,
                              !.read.nodes = graph.nodes, !.step = "delete"]
  <2>1. r \in Request /\ r.step = "delete" /\ r.op = old.op
        /\ r.holds = old.holds /\ r.gone = old.gone
    BY <1>1 DEF Request, Steps, Graph
  <2>2. Goes(p, r) /\ old.op = "rollback" /\ old.step = "cut"
    BY <1>8 DEF CutEdges, At
  <2> HIDE DEF r
  <2>3. LocksOK(r)
    BY <1>1, <2>1, <2>2 DEF LocksOK, NoRequest
  <2>4. QED
    BY <1>2, <2>1, <2>2, <2>3
<1>9. CASE DeleteNodes(p)
  <2> DEFINE gone == Ids(old.read.nodes) \cap Ids(graph.nodes)
             r == [old EXCEPT !.gone = gone, !.step = "check"]
  <2>1. gone \in SUBSET Nat
    BY <1>1 DEF Ids, Graph, Node
  <2>2. r \in Request /\ r.step = "check" /\ r.op = old.op
        /\ r.holds = old.holds /\ r.cut = old.cut
    BY <1>1, <2>1 DEF Request, Steps
  <2>3. Goes(p, r) /\ old.op = "rollback" /\ old.step = "delete"
    BY <1>9 DEF DeleteNodes, At
  <2> HIDE DEF r
  <2>4. LocksOK(r)
    BY <1>1, <2>2, <2>3 DEF LocksOK, NoRequest
  <2>5. QED
    BY <1>2, <2>2, <2>3, <2>4
<1>10. CASE CheckEdges(p)
  <2> DEFINE r == [old EXCEPT !.step = "find"]
  <2>1. r \in Request /\ r.step = "find" /\ r.op = old.op
        /\ r.holds = old.holds /\ r.cut = old.cut /\ r.gone = old.gone
    BY <1>1 DEF Request, Steps
  <2>2. old.op = "rollback" /\ old.step = "check" /\ (Ends(p) \/ Goes(p, r))
    BY <1>10 DEF CheckEdges, At
  <2> HIDE DEF r
  <2>3. LocksOK(r)
    BY <1>1, <2>1, <2>2 DEF LocksOK, NoRequest
  <2>4. QED
    BY <1>2, <1>3, <2>1, <2>2, <2>3
<1>11. CASE RunSandbox(p)
  <2>1. CASE Ends(p)
    BY <1>3, <2>1
  <2>2. ASSUME NEW result \in {"passed", "failed"},
               Goes(p, [old EXCEPT !.ran = old.read, !.result = result,
                                   !.step = "nodes"])
        PROVE  LocksInv'
    <3> DEFINE r == [old EXCEPT !.ran = old.read, !.result = result,
                                !.step = "nodes"]
    <3>1. r \in Request /\ r.step = "nodes" /\ r.op = old.op
          /\ r.holds = old.holds /\ r.cut = old.cut /\ r.gone = old.gone
      BY <1>1 DEF Request, Steps
    <3>2. old.step = "run" /\ old.op = "sandbox" /\ Goes(p, r)
      BY <1>11, <2>2 DEF RunSandbox, At
    <3> HIDE DEF r
    <3>3. LocksOK(r)
      BY <1>1, <3>1, <3>2 DEF LocksOK, NoRequest
    <3>4. QED
      BY <1>2, <3>1, <3>2, <3>3
  <2>3. QED
    BY <1>11, <2>1, <2>2 DEF RunSandbox
<1>12. QED
  BY <1>3, <1>4, <1>5, <1>6, <1>7, <1>8, <1>9, <1>10, <1>11

LEMMA LocksPreserved == IInv /\ LocksInv /\ [Next]_vars => LocksInv'
<1> SUFFICES ASSUME IInv, LocksInv, [Next]_vars PROVE LocksInv'
  OBVIOUS
<1>1. TypeOK
  BY DEF IInv
<1>2. ASSUME NEW p \in Processes, NEW op \in {"publish", "sandbox"}, Begins(p, op)
      PROVE  LocksInv'
  <2> DEFINE r == [NoRequest EXCEPT !.op = op, !.step = "nodes"]
  <2>1. r \in Request
    BY NoRequestOK DEF Request, Ops, Steps
  <2>2. LocksOK(r) /\ r.step = "nodes"
    BY DEF LocksOK, NoRequest
  <2>3. Goes(p, r)
    BY <1>2 DEF Begins
  <2> HIDE DEF r
  <2>4. QED
    BY <1>1, <2>1, <2>2, <2>3, GoesKeepsLocks
<1>3. ASSUME NEW p \in Processes, Ends(p) PROVE LocksInv'
  <2>1. NoRequest.step = "idle"
    BY DEF NoRequest
  <2>2. QED
    BY <1>1, <1>3, <2>1, NoRequestOK, NoRequestLocks, GoesKeepsLocks DEF Ends
<1>4. ASSUME NEW p \in Processes, NEW g, Edits(p, g) PROVE LocksInv'
  BY <1>1, <1>4, ReplacesKeepsLocks DEF Edits
<1>5. ASSUME NEW p \in Processes, Statement(p) PROVE LocksInv'
  <2>1. CASE Publish(p) \/ RecordSandboxRun(p)
    BY <1>3, <2>1 DEF Publish, RecordSandboxRun
  <2>2. CASE Rollback(p)
    BY <1>1, <2>2, ReplacesKeepsLocks DEF Rollback
  <2>3. QED
    BY <1>5, <2>1, <2>2, StatementsKeepLocks DEF Statement
<1>6. ASSUME NEW p \in Processes, BeginPublish(p) \/ BeginSandbox(p)
      PROVE  LocksInv'
  BY <1>2, <1>6 DEF BeginPublish, BeginSandbox
<1>7. ASSUME NEW p \in Processes, NEW v \in DOMAIN versions, BeginRollback(p, v)
      PROVE  LocksInv'
  <2> DEFINE r == [NoRequest EXCEPT !.op = "rollback", !.target = v,
                                    !.read.edges = graph.edges, !.step = "cut"]
  <2>1. v \in Nat /\ graph.edges \in SUBSET Edge
    BY <1>1 DEF TypeOK, Graph
  <2>2. r \in Request
    BY <2>1, NoRequestOK DEF Request, Ops, Steps, Graph
  <2>3. LocksOK(r) /\ r.step = "cut"
    BY DEF LocksOK, NoRequest
  <2>4. Goes(p, r)
    BY <1>7 DEF BeginRollback
  <2> HIDE DEF r
  <2>5. QED
    BY <1>1, <2>2, <2>3, <2>4, GoesKeepsLocks
<1>8. CASE UNCHANGED vars
  <2>1. request' = request
    BY <1>8 DEF vars
  <2>2. QED
    BY <2>1 DEF LocksInv, LocksOK, NoRequest, NoGraph, Marks
<1>9. ASSUME NEW p \in Processes,
             \/ AddNode(p)
             \/ \E n \in graph.nodes :
                   \/ UpdateNode(p, n) \/ DeleteNode(p, n)
                   \/ \E m \in graph.nodes : AddEdge(p, m, n)
             \/ \E e \in graph.edges : DeleteEdge(p, e)
      PROVE  LocksInv'
  BY <1>4, <1>9 DEF AddNode, UpdateNode, DeleteNode, AddEdge, DeleteEdge
<1>10. QED
  BY <1>5, <1>6, <1>7, <1>8, <1>9 DEF Next

\* While a request is open, the statement that some request has come to need
\* not wait for a lock, unless rollbacks crossed.
SomeMayStep ==
    (\E p \in Processes : ~Idle(p)) /\ ~Crossed => \E p \in Processes : MayStep(p)

LEMMA LocksAreFreed == LocksInv => SomeMayStep
<1> SUFFICES ASSUME LocksInv, ~Crossed, NEW p \in Processes, ~Idle(p),
                    \A q \in Processes : ~MayStep(q)
             PROVE  FALSE
  BY DEF SomeMayStep
<1>1. \A q \in Processes : LocksOK(request[q])
  BY DEF LocksInv
<1>2. \A q \in Processes : request[q].step # "idle" => ~Idle(q)
  BY DEF Idle, NoRequest
\* Whoever holds rows is a rollback at its commit.
<1>3. ASSUME NEW q \in Processes, request[q].holds # {} PROVE At(q, "rollback", "commit")
  <2>1. request[q].step = "commit" /\ request[q].op \in {"publish", "rollback"}
    BY <1>1, <1>3 DEF LocksOK
  <2>2. CASE request[q].op = "publish"
    BY <1>2, <2>1, <2>2 DEF MayStep, At
  <2>3. QED
    BY <2>1, <2>2 DEF At
\* It is the only one there, so nobody is, and nobody holds rows.
<1>4. ASSUME NEW q \in Processes, At(q, "rollback", "commit") PROVE FALSE
  <2>1. ASSUME NEW h \in Others(q) PROVE request[h].holds = {}
    <3>1. h \in Processes /\ h # q
      BY DEF Others
    <3>2. QED
      BY <1>3, <1>4, <3>1 DEF LocksInv, Marks, At
  <2>2. HeldByOthers(q) = {}
    BY <2>1 DEF HeldByOthers
  <2>3. QED
    BY <1>2, <1>4, <2>2 DEF MayStep, At
<1>5. \A q \in Processes : HeldByOthers(q) = {}
  <2>1. \A q \in Processes : request[q].holds = {}
    BY <1>3, <1>4
  <2>2. QED
    BY <2>1 DEF HeldByOthers, Others
\* So none is past its check.
<1>6. \A q \in Processes : ~Marks(q)
  BY <1>2, <1>4, <1>5 DEF MayStep, At, Marks
<1>7. ASSUME NEW q \in Processes PROVE request[q].step # "find"
  <2>1. ~RowIsHeld(q)
    BY <1>6 DEF RowIsHeld, Others
  <2>2. QED
    BY <1>2, <2>1 DEF MayStep, At
\* Nobody is at the check, so nobody has deleted nodes, or edges.
<1>8. \A q \in Processes : request[q].step # "check"
  BY DEF Crossed
<1>9. \A q \in Processes : GoneByOthers(q) = {}
  <2>1. \A q \in Processes : request[q].gone = {}
    BY <1>1, <1>6, <1>7, <1>8 DEF LocksOK, Marks
  <2>2. QED
    BY <2>1 DEF GoneByOthers, Others
<1>10. \A q \in Processes : request[q].step # "delete"
  BY <1>2, <1>9 DEF MayStep, At
<1>11. CutByOthers(p) = {}
  <2>1. \A q \in Processes : request[q].cut = {}
    BY <1>1, <1>6, <1>7, <1>8, <1>10 DEF LocksOK, Marks
  <2>2. QED
    BY <2>1 DEF CutByOthers, Others
\* Then nobody waits.
<1>12. MayStep(p)
  BY <1>5, <1>7, <1>9, <1>11 DEF MayStep
<1>13. QED
  BY <1>12

\* Requests wait for each other in a circle only when rollbacks crossed:
\* otherwise one of those that are open has come to a statement that need not
\* wait.
THEOREM NobodyWaitsInACircle == Spec => []SomeMayStep
<1>1. Init => IInv /\ LocksInv
  BY InitEstablishes, LocksInitially
<1>2. IInv /\ LocksInv /\ [Next]_vars => IInv' /\ LocksInv'
  BY StepPreserves, LocksPreserved
<1>3. QED
  BY <1>1, <1>2, LocksAreFreed, PTL DEF Spec
=============================================================================

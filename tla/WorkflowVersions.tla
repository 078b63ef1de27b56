--------------------------- MODULE WorkflowVersions ---------------------------
(***************************************************************************)
(* The graph of one workflow while it is edited, published, rolled back    *)
(* and tested by several API processes on PostgreSQL at READ COMMITTED.    *)
(* A handler awaits nothing, so a process serves one request at a time;    *)
(* the statements of requests of different processes interleave.  Each     *)
(* statement sees what was committed when it began, an UPDATE waits for    *)
(* rows another transaction has changed and looks at them again.           *)
(*                                                                         *)
(* Nodes and edges are read by a query each.  Of a node there is its id    *)
(* and a revision that stands for its content; of an edge its id and the   *)
(* nodes it joins, since edges are not changed, only added and deleted.    *)
(***************************************************************************)
EXTENDS Naturals, FiniteSets, Sequences

CONSTANTS
    Processes,
    MaxEdits, MaxVersions, MaxRollbacks, MaxTests   \* bounds

ASSUME WorkflowVersionsAssumption ==
    /\ IsFiniteSet(Processes)
    /\ MaxEdits \in Nat /\ MaxVersions \in Nat
    /\ MaxRollbacks \in Nat /\ MaxTests \in Nat

VARIABLES
    graph,      \* the committed workflow_nodes and workflow_edges
    versions,   \* workflow_versions by version_no
    test,       \* the newest workflow_sandbox_runs row
    request,    \* what each process works on
    serial,     \* above every id that was given out
    edits, rollbacks, tests

vars == <<graph, versions, test, request, serial, edits, rollbacks, tests>>
counters == <<serial, edits, rollbacks, tests>>

Node == [id : Nat, rev : Nat]
Edge == [id : Nat, from : Nat, to : Nat]
Graph == [nodes : SUBSET Node, edges : SUBSET Edge]
Parts == {"nodes", "edges"}
NoGraph == [nodes |-> {}, edges |-> {}]
NewGraph == [nodes |-> {[id |-> 0, rev |-> 0]},
             edges |-> {[id |-> 0, from |-> 0, to |-> 0]}]

Ids(nodes) == {n.id : n \in nodes}
On(e, ids) == e.from \in ids \/ e.to \in ids
Whole(g) == \A e \in g.edges : {e.from, e.to} \subseteq Ids(g.nodes)

\* read: the graph as read, or as a DELETE has found it; ran: as run;
\* cut, gone: the edges and the ids of the nodes it has deleted; seen: the
\* rows an UPDATE found; holds: the rows it changed; replaced: parts that
\* were changed while the request relied on having read them (Held).
NoRequest == [op |-> "none", step |-> "idle", read |-> NoGraph,
              ran |-> NoGraph, result |-> "none", target |-> 0,
              cut |-> {}, gone |-> {}, seen |-> {}, holds |-> {},
              replaced |-> {}]

Init ==
    /\ graph \in {NewGraph, [NewGraph EXCEPT !.edges = {}]}
    /\ versions = <<>>
    /\ test = [ok |-> FALSE, fingerprint |-> NewGraph, ran |-> NewGraph,
               replaced |-> {}]
    /\ request = [p \in Processes |-> NoRequest]
    /\ serial = 1 /\ edits = 0 /\ rollbacks = 0 /\ tests = 0

-----------------------------------------------------------------------------
(* Rows, locks and requests.                                               *)

CurrentVersions == {v \in DOMAIN versions : versions[v].current}
Others(p) == Processes \ {p}
HeldByOthers(p) == UNION {request[q].holds : q \in Others(p)}
CutByOthers(p) == UNION {request[q].cut : q \in Others(p)}
GoneByOthers(p) == UNION {request[q].gone : q \in Others(p)}

At(p, op, step) == request[p].op = op /\ request[p].step = step
Idle(p) == request[p] = NoRequest
Goes(p, r) == request' = [request EXCEPT ![p] = r]
Ends(p) == Goes(p, NoRequest)
Begins(p, op) ==
    /\ Idle(p)
    /\ Goes(p, [NoRequest EXCEPT !.op = op, !.step = "nodes"])

\* The parts a request has read and relies on: until it has read the rest of
\* the graph and, in a sandbox, until the fingerprint reads them again.
Held(r) ==
    CASE r.result = "none" /\ r.step = "edges" -> {"nodes"}
      [] r.result = "none" /\ r.step = "run"   -> Parts
      [] r.result # "none" /\ r.step = "nodes" -> Parts
      [] r.result # "none" /\ r.step = "edges" -> {"edges"}
      [] OTHER -> {}

\* A commit that changes the graph, under requests that hold parts of it.
Replaces(p, g) ==
    LET changed == {x \in Parts : g[x] # graph[x]} IN
    /\ graph' = g
    /\ request' = [q \in Processes |->
                    IF q = p THEN NoRequest
                    ELSE [request[q] EXCEPT
                            !.replaced = @ \cup (Held(request[q]) \cap changed)]]

-----------------------------------------------------------------------------
(* The node and edge endpoints: a short transaction each, which waits for  *)
(* rows that a rollback in progress has deleted, and for nothing else: a   *)
(* node is added beside a rollback, and an edge as long as its nodes are   *)
(* not deleted yet.                                                        *)

Edits(p, g) ==
    /\ Idle(p) /\ edits < MaxEdits
    /\ edits' = edits + 1
    /\ Replaces(p, g)
    /\ UNCHANGED <<versions, test, rollbacks, tests>>

AddNode(p) ==
    /\ Edits(p, [graph EXCEPT !.nodes = @ \cup {[id |-> serial, rev |-> 0]}])
    /\ serial' = serial + 1

UpdateNode(p, n) ==
    /\ n.id \notin GoneByOthers(p)
    /\ Edits(p, [graph EXCEPT !.nodes = (@ \ {n}) \cup {[n EXCEPT !.rev = edits']}])
    /\ UNCHANGED serial

\* The edges of the node go first.
DeleteNode(p, n) ==
    LET joined == {e \in graph.edges : On(e, {n.id})} IN
    /\ n.id \notin GoneByOthers(p) /\ joined \cap CutByOthers(p) = {}
    /\ Edits(p, [nodes |-> graph.nodes \ {n}, edges |-> graph.edges \ joined])
    /\ UNCHANGED serial

AddEdge(p, m, n) ==
    /\ {m.id, n.id} \cap GoneByOthers(p) = {}
    /\ Edits(p, [graph EXCEPT !.edges = @ \cup
                    {[id |-> serial, from |-> m.id, to |-> n.id]}])
    /\ serial' = serial + 1

DeleteEdge(p, e) ==
    /\ e \notin CutByOthers(p)
    /\ Edits(p, [graph EXCEPT !.edges = @ \ {e}])
    /\ UNCHANGED serial

-----------------------------------------------------------------------------
\* Reading the graph, which publishing, running and fingerprinting share.
ReadNodes(p) ==
    /\ request[p].step = "nodes"
    /\ Goes(p, [request[p] EXCEPT !.read.nodes = graph.nodes,
                                  !.step = "edges"])
    /\ UNCHANGED <<graph, versions, test, counters>>

\* An empty graph is not published.
ReadEdges(p) ==
    /\ request[p].step = "edges"
    /\ IF request[p].op = "publish" /\ request[p].read.nodes = {} THEN Ends(p)
       ELSE Goes(p, [request[p] EXCEPT
                        !.read.edges = graph.edges,
                        !.step = IF request[p].op = "publish" THEN "find"
                                 ELSE IF request[p].result = "none" THEN "run"
                                 ELSE "record"])
    /\ UNCHANGED <<graph, versions, test, counters>>

-----------------------------------------------------------------------------
(* The UPDATE that takes is_current away, in publishing and rolling back.  *)
(* The number of a new version is read just before it.  A rollback updates *)
(* its workflows row before it, which one holds at a time.                 *)

Marks(p) == request[p].op = "rollback" /\ request[p].step \in {"unmark", "commit"}
RowIsHeld(p) == request[p].op = "rollback" /\ \E q \in Others(p) : Marks(q)

FindCurrent(p) ==
    /\ request[p].step = "find" /\ ~RowIsHeld(p)
    /\ Goes(p, [request[p] EXCEPT
                    !.seen = CurrentVersions,
                    !.target = IF @ = 0 THEN Len(versions) + 1 ELSE @,
                    !.step = "unmark"])
    /\ UNCHANGED <<graph, versions, test, counters>>

Unmark(p) ==
    /\ request[p].step = "unmark"
    /\ request[p].seen \cap HeldByOthers(p) = {}
    /\ Goes(p, [request[p] EXCEPT
                    !.holds = request[p].seen \cap CurrentVersions,
                    !.step = "commit"])
    /\ UNCHANGED <<graph, versions, test, counters>>

Unmarked(p) == [v \in DOMAIN versions |->
    IF v \in request[p].holds THEN [versions[v] EXCEPT !.current = FALSE]
    ELSE versions[v]]

-----------------------------------------------------------------------------
(* publish_workflow_version                                                *)

BeginPublish(p) ==
    /\ Len(versions) < MaxVersions
    /\ Begins(p, "publish")
    /\ UNCHANGED <<graph, versions, test, counters>>

\* The nodes of the snapshot were changed before its edges were read.
Torn(p) == request[p].replaced # {}

\* A mutant that leaves the transaction open when the number is refused.
PublishOpen(p) ==
    /\ At(p, "publish", "commit")
    /\ IF request[p].target \in DOMAIN versions
       THEN /\ Goes(p, [request[p] EXCEPT !.step = "refused"])
            /\ UNCHANGED versions
       ELSE /\ Ends(p)
            /\ versions' = Append(Unmarked(p), [graph |-> request[p].read,
                                                current |-> TRUE,
                                                torn |-> Torn(p)])
    /\ UNCHANGED <<graph, test, counters>>

\* The unique version_no refuses the second of two equal numbers.
Publish(p) ==
    /\ At(p, "publish", "commit")
    /\ versions' = IF request[p].target \in DOMAIN versions THEN versions
                   ELSE Append(Unmarked(p), [graph |-> request[p].read,
                                             current |-> TRUE,
                                             torn |-> Torn(p)])
    /\ Ends(p)
    /\ UNCHANGED <<graph, test, counters>>

-----------------------------------------------------------------------------
(* rollback_workflow_version and _restore_workflow_from_snapshot           *)

BeginRollback(p, v) ==
    /\ rollbacks + Cardinality({q \in Processes : request[q].op = "rollback"})
         < MaxRollbacks
    /\ Idle(p)
    /\ Goes(p, [NoRequest EXCEPT !.op = "rollback", !.target = v,
                                !.read.edges = graph.edges, !.step = "cut"])
    /\ UNCHANGED <<graph, versions, test, counters>>

\* A DELETE waits for the rows it has found that another has deleted, and
\* deletes those that are left.  The next one finds what is there then.
CutEdges(p) ==
    /\ At(p, "rollback", "cut")
    /\ request[p].read.edges \cap CutByOthers(p) = {}
    /\ Goes(p, [request[p] EXCEPT !.cut = request[p].read.edges \cap graph.edges,
                                  !.read.nodes = graph.nodes,
                                  !.step = "delete"])
    /\ UNCHANGED <<graph, versions, test, counters>>

DeleteNodes(p) ==
    LET found == Ids(request[p].read.nodes) IN
    /\ At(p, "rollback", "delete")
    /\ found \cap GoneByOthers(p) = {}
    /\ Goes(p, [request[p] EXCEPT !.gone = found \cap Ids(graph.nodes),
                                  !.step = "check"])
    /\ UNCHANGED <<graph, versions, test, counters>>

\* Edges that are on the deleted nodes and were not deleted with them.
Left(p) == {e \in graph.edges \ request[p].cut : On(e, request[p].gone)}

\* The foreign keys: an edge that is left refuses the DELETE of its nodes,
\* after a wait if another request has deleted it and may yet commit.
CheckEdges(p) ==
    /\ At(p, "rollback", "check")
    /\ Left(p) \cap CutByOthers(p) = {}
    /\ IF Left(p) # {} THEN Ends(p)
       ELSE Goes(p, [request[p] EXCEPT !.step = "find"])
    /\ UNCHANGED <<graph, versions, test, counters>>

\* A mutant that writes the edges with the ids of the snapshot.
RestoredAsWas(snapshot) ==
    [nodes |-> {[n EXCEPT !.id = @ + serial] : n \in snapshot.nodes},
     edges |-> snapshot.edges]

\* Nodes and edges get new ids; edges whose nodes the snapshot lacks are
\* left out.
Restored(snapshot) ==
    LET kept == {e \in snapshot.edges : {e.from, e.to} \subseteq Ids(snapshot.nodes)} IN
    [nodes |-> {[n EXCEPT !.id = @ + serial] : n \in snapshot.nodes},
     edges |-> {[id |-> e.id + serial, from |-> e.from + serial, to |-> e.to + serial] :
                   e \in kept}]

\* What was added since its DELETEs looked stays beside what it restores.
RolledBack(p) ==
    LET restored == Restored(versions[request[p].target].graph) IN
    [nodes |-> {n \in graph.nodes : n.id \notin request[p].gone} \cup restored.nodes,
     edges |-> (graph.edges \ request[p].cut) \cup restored.edges]

\* A mutant that marks the version first and then unmarks the current ones.
RollbackMarksFirst(p) ==
    LET v == request[p].target IN
    /\ At(p, "rollback", "commit") /\ v \notin HeldByOthers(p)
    /\ rollbacks' = rollbacks + 1 /\ serial' = 2 * serial
    /\ versions' = [w \in DOMAIN versions |->
                     IF w = v /\ v \notin request[p].holds
                     THEN [versions[w] EXCEPT !.current = TRUE]
                     ELSE Unmarked(p)[w]]
    /\ Replaces(p, RolledBack(p))
    /\ UNCHANGED <<test, edits, tests>>

Rollback(p) ==
    LET v == request[p].target IN
    /\ At(p, "rollback", "commit") /\ v \notin HeldByOthers(p)
    /\ rollbacks' = rollbacks + 1 /\ serial' = 2 * serial
    /\ versions' = [Unmarked(p) EXCEPT ![v].current = TRUE]
    /\ Replaces(p, RolledBack(p))
    /\ UNCHANGED <<test, edits, tests>>

-----------------------------------------------------------------------------
(* sandbox_run_workflow, record_workflow_sandbox_run and the check that an *)
(* employee may be bound to the workflow.                                  *)

BeginSandbox(p) ==
    /\ tests < MaxTests
    /\ Begins(p, "sandbox")
    /\ tests' = tests + 1
    /\ UNCHANGED <<graph, versions, test, serial, edits, rollbacks>>

\* A node that raises ends the request without a record.
RunSandbox(p) ==
    /\ At(p, "sandbox", "run")
    /\ \/ Ends(p)
       \/ \E result \in {"passed", "failed"} :
            Goes(p, [request[p] EXCEPT !.ran = request[p].read,
                                       !.result = result, !.step = "nodes"])
    /\ UNCHANGED <<graph, versions, test, counters>>

RecordSandboxRun(p) ==
    /\ At(p, "sandbox", "record")
    /\ test' = [ok |-> request[p].result = "passed",
                fingerprint |-> request[p].read, ran |-> request[p].ran,
                replaced |-> request[p].replaced]
    /\ Ends(p)
    /\ UNCHANGED <<graph, versions, counters>>

\* A mutant that does not compare fingerprints.
LastRunPassed == test.ok

\* sandbox_passed_for_current_graph
SandboxReady == test.ok /\ test.fingerprint = graph

Statement(p) ==
    \/ ReadNodes(p) \/ ReadEdges(p) \/ FindCurrent(p) \/ Unmark(p)
    \/ Publish(p)
    \/ CutEdges(p) \/ DeleteNodes(p) \/ CheckEdges(p) \/ Rollback(p)
    \/ RunSandbox(p) \/ RecordSandboxRun(p)

Next == \E p \in Processes :
    \/ AddNode(p)
    \/ \E n \in graph.nodes :
          \/ UpdateNode(p, n) \/ DeleteNode(p, n)
          \/ \E m \in graph.nodes : AddEdge(p, m, n)
    \/ \E e \in graph.edges : DeleteEdge(p, e)
    \/ BeginPublish(p) \/ BeginSandbox(p) \/ Statement(p)
    \/ \E v \in DOMAIN versions : BeginRollback(p, v)

Spec == Init /\ [][Next]_vars

-----------------------------------------------------------------------------
(* Properties.                                                             *)

\* However publishing and rolling back interleave, a workflow that was ever
\* published has a current version.
SomeCurrentVersion == versions # <<>> => CurrentVersions # {}

\* The graph never has edges of other nodes, and a version is such a graph
\* too, unless its nodes were changed before its edges were read.
GraphsWhole ==
    /\ Whole(graph)
    /\ \A v \in DOMAIN versions :
          ~versions[v].torn => Whole(versions[v].graph)

\* A graph that counts as tested is, nodes and edges each, the one the sandbox
\* ran, or that part was changed after the run had read it and before the
\* fingerprint did: an edit or a rollback before, after or between other
\* reads never goes unnoticed.
ReadyWasTested ==
    SandboxReady =>
        \A x \in Parts : graph[x] = test.ran[x] \/ x \in test.replaced

\* When the statement a request has come to need not wait for a lock.
MayStep(p) ==
    CASE request[p].step = "unmark" -> request[p].seen \cap HeldByOthers(p) = {}
      [] request[p].step = "cut"    -> request[p].read.edges \cap CutByOthers(p) = {}
      [] request[p].step = "delete" ->
            Ids(request[p].read.nodes) \cap GoneByOthers(p) = {}
      [] request[p].step = "check"  -> Left(p) \cap CutByOthers(p) = {}
      [] request[p].step = "find"   -> ~RowIsHeld(p)
      [] At(p, "rollback", "commit") -> request[p].target \notin HeldByOthers(p)
      [] OTHER -> ~Idle(p)

\* A rollback has deleted nodes that were given an edge after it had looked
\* for edges, and which another is deleting.
Crossed == \E p \in Processes : request[p].step = "check" /\ ~MayStep(p)

\* Requests do not wait for each other in a circle, unless rollbacks crossed:
\* while one is open, some process can take its next step, since its statement
\* need not wait.
NoDeadlock ==
    /\ \A p \in Processes : MayStep(p) => ENABLED Statement(p)
    /\ (\E p \in Processes : ~Idle(p)) /\ ~Crossed =>
          \E p \in Processes : ENABLED Statement(p)

\* models.py: a workflow has only one row with is_current at a time.
OneCurrentVersion == Cardinality(CurrentVersions) <= 1

-----------------------------------------------------------------------------
(* The inductive invariant.                                                *)

Ops == {"none", "publish", "rollback", "sandbox"}
Steps == {"idle", "nodes", "edges", "find", "unmark", "commit", "delete",
          "cut", "check", "run", "record"}
Request == [op : Ops, step : Steps, read : Graph, ran : Graph,
            result : {"none", "passed", "failed"}, target : Nat,
            cut : SUBSET Edge, gone : SUBSET Nat, seen : SUBSET Nat,
            holds : SUBSET Nat, replaced : SUBSET Parts]
Version == [graph : Graph, current : BOOLEAN, torn : BOOLEAN]

TypeOK ==
    /\ graph \in Graph
    /\ versions \in Seq(Version)
    /\ test \in [ok : BOOLEAN, fingerprint : Graph, ran : Graph,
                replaced : SUBSET Parts]
    /\ request \in [Processes -> Request]
    /\ serial \in Nat \ {0}
    /\ edits \in Nat /\ rollbacks \in Nat /\ tests \in Nat

\* a and b agree in all parts but these.
SameBut(a, b, parts) ==
    /\ "nodes" \notin parts => a.nodes = b.nodes
    /\ "edges" \notin parts => a.edges = b.edges

\* What a request has read is the graph as it is, but for the parts that were
\* changed while it held them.
ReadOK(r) ==
    /\ r.step = "edges" /\ r.result = "none" =>
          SameBut(r.read, graph, {"edges"} \cup r.replaced)
    /\ r.op = "publish" /\ r.step \in {"find", "unmark", "commit"} =>
          r.replaced # {} \/ Whole(r.read)
    /\ r.step = "run" => SameBut(r.read, graph, r.replaced)

\* What a sandbox ran is the graph as it is, or as the fingerprint has read it.
RanOK(r) ==
    r.result # "none" =>
        /\ r.step = "nodes" => SameBut(r.ran, graph, r.replaced)
        /\ r.step = "edges" =>
              /\ SameBut(r.ran, r.read, {"edges"} \cup r.replaced)
              /\ SameBut(r.ran, graph, {"nodes"} \cup r.replaced)
        /\ r.step = "record" => SameBut(r.ran, r.read, r.replaced)

RequestOK(r) ==
    /\ ReadOK(r) /\ RanOK(r)
    /\ r.op = "publish" \/ r.step = "run" => r.result = "none"
    /\ r.step = "record" => r.result # "none"
    /\ r.op = "rollback" => r.target \in DOMAIN versions

\* Ids are given out once, and what a snapshot has will be given new ones.
Given(g) == \A n \in g.nodes : n.id < serial
SerialOK ==
    /\ Given(graph)
    /\ \A v \in DOMAIN versions : Given(versions[v].graph)
    /\ \A p \in Processes : Given(request[p].read)

\* A rollback that has passed its check leaves no edge without its nodes.
CutOK(r) ==
    /\ \A id \in r.gone : id < serial
    /\ r.op = "rollback" /\ r.step \in {"find", "unmark", "commit"} =>
          \A e \in graph.edges \ r.cut : ~On(e, r.gone)

IInv ==
    /\ TypeOK
    /\ SerialOK
    /\ \A p \in Processes : RequestOK(request[p]) /\ CutOK(request[p])
    /\ SameBut(test.ran, test.fingerprint, test.replaced)
    /\ GraphsWhole
    /\ SomeCurrentVersion
=============================================================================

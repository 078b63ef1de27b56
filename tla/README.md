# A verified model of the XCai server

TLA+ modules, TLC configurations and TLAPS proofs about MODstore, the server of
XCai (`src/MODstore_deploy`): the Java payment service that handles its money,
and the parts of the Python server that keep state which several requests,
workers or services change at once. Java paths below are relative to the package
`com.modstore` of `java_payment_service`, Python paths to
`src/MODstore_deploy/modstore_server`.

## 1. Inventory

XCai is a monorepo. Its components, the state they keep and how they interact:

| Component | State | Operations | Hard behaviours | What makes it correct |
|---|---|---|---|---|
| Order lifecycle: `OrderService`, `PaymentController`, `AlipayController`, `WechatPayController`, `PendingOrderCleanupScheduler` | `orders` | checkout, notify, reconcile on polling, fulfil, cancel, close expired, backfill tokens | repeated and late notifications, polling and cleanup against notifications, crashes | paid once, granted once, only when paid, eventually |
| Refunds: `RefundService` | `refunds`, `orders` | apply, approve, reject | refunds against late notifications and against usage | at most what was paid, once; takes back what was granted |
| Wallet: `WalletService` | `wallets`, `transactions` | credit and debit with idempotency keys | duplicate keys, spending between grant and refund | the balance is the sum of the ledger, never negative |
| Entitlements: `EntitlementService` | `purchases`, `entitlements`, `user_plans`, `quotas` | grant item, activate plan, revoke | plans of one user bought, fulfilled again and refunded in any order | one active plan where the wallet lock keeps fulfilments apart; refunded goods are gone |
| Marks and signatures: `SecurityService` | Redis keys | mark and clear notification, nonce, sign | Redis down, key outlives a failed handler | what is answered is handled |
| AI usage billing: `llm_api.py`, `llm_billing.py`, holds of `WalletService` | `wallet_holds`, `transactions`, call logs | preauthorise, settle, release over HTTP | timeouts, unlocked reads, logs that fail, streams cut off | charged once and at most the larger of estimate and charge; holds close |
| Quota metering: `quota_middleware.py` | `quotas` (shared with Java) | require, consume, monthly reset | check, work, check and count, without a lock | never more counted than sold |
| Event outbox: `eventing/db_outbox.py`, `webhook_dispatcher.py`, `api/admin_events.py` | `event_outbox`, `event_outbox_dlq` | enqueue, drain, retry, replay, discard | several drains at once, crash between send and mark, lost counts | at least once, never forgotten, not given up early |
| Customer service: `customer_service_orchestrator.py`, `customer_service_tools.py` | tickets, actions, audit, refunds, complaints | message, actions, integrations, events | duplicate events that roll back, workflows that commit on their own | tickets and events exist together; what is told is recorded |
| Workflow engine: `workflow_engine.py`, `workflow_variables.py` | `workflow_executions` | validate, hint, sandbox, execute | cycles, conditions over user data, retries, failing nodes, crashes | ends; bounded calls; hints are right; rows close |
| Workflow editing: `workflow_api.py`, `workflow_sandbox_state.py` | nodes, edges, `workflow_versions`, `workflow_sandbox_runs` | edit, publish, roll back, record a test | several processes, statements that interleave | one current version; whole graphs; what is called tested was tested |
| Experience: `AccountLevelService` | `account_experience_ledger`, `users.experience` | add for an order or usage, take back | unlocked read and write | the ledger |
| Webhooks out (Java): `WebhookDispatcher` | none | send `payment.paid` | sent before the commit | sent for what is committed |
| Python payment fallback: `payment_api.py`, `payment_orders.py`, `payment_fulfilment.py`, `refund_api.py` | JSON files, the same tables | as the order lifecycle | the same | the same |
| Renewal, reconciliation, author earnings | the same tables | periodic jobs | overlap of runs | no double charge |
| Employees, script agent, skills | runs | loops around a language model | retries, limits | stops |
| Connectors and HTTP clients | none | outbound calls | timeouts | bounded retries |
| Catalogue, market, knowledge, authoring APIs | tables, files | create, read, update, delete | little | - |
| `src/MODstore_deploy/market` | browser | Vue client; polls `query?reconcile=true` | - | - |
| `src/vibe-coding` | files | agent library: patch applier, workflow engine, sandboxes | partial application of a patch | all or nothing |
| `modman`, static sites, deployment files | - | - | - | - |

**Buying.** A buyer checks out with the Java service, pays at Alipay or WeChat,
and the provider notifies the service until it is answered with success. The
handler locks the order, marks it paid and fulfils it: it books the payment,
which locks the buyer's wallet unless it is booked already, and gives the goods. The buyer's page polls
meanwhile and may settle the order itself by asking Alipay; a job closes orders
that are not paid in half an hour. An administrator reviews refund requests.

**Using.** The Python server reads the same tables. A chat on a platform key
holds an estimate in the wallet by an HTTP call to the Java service, asks the
provider, settles the hold for the real charge or releases it. Other calls of a
model are metered against the monthly quota of the plan.

**Telling.** Python handlers write events into the outbox table in their own
transaction; a worker posts them to the business webhook. The customer service
is such a producer, and also runs workflows.

**Automating.** Users draw workflows, test them in a sandbox, publish and roll
back versions, and run them from the API, a webhook or an event. `Dockerfile`
starts four API processes over one PostgreSQL database, with the background
jobs in one process of their own.

`PROJECT.json` lists every component with what is modelled of it, and the
hazards of this code at the line where each bites.

## 2. Modules

| Module | Models |
|---|---|
| `Settlement` | what the service promises for an order: it is paid, then granted, then perhaps returned, each once |
| `WalletService` | one user's balance and the transactions of one order: `changeBalance` and every booking fulfilment and refund make |
| `EntitlementService` | plans, entitlement rows and quotas: what `activatePlan`, `grantCatalogEntitlement` and `revokeOrderEntitlements` do to them |
| `OrderLifecycle` | the state machine: extends the two above, one action per handler, job or step |
| `AiBilling` | chats that hold, settle and release, the wallet that answers them, and metered calls |
| `Outbox` | the table of events and the processes that drain it; the abstract specification of every producer |
| `CustomerService` | extends `Outbox`: the desk as a producer that implements it |
| `WorkflowEngine` | validation and one execution of a graph |
| `WorkflowHints` | extends `WorkflowEngine`: the search for the hints a sandbox run gives, before the run |
| `WorkflowVersions` | the tables behind the editor, statement by statement |
| `MCOrders`, `MCBilling`, `MCOutbox`, `MCDesk`, `MCGraphs`, `MCVersions` | small instances |
| `Sums` | facts about the sum of a function over a finite set, which the ledgers are |
| `ServiceProofs` (about `WalletService` and `EntitlementService`), `OrderLifecycleProofs`, `AiBillingProofs`, `OutboxProofs`, `CustomerServiceProofs`, `WorkflowEngineProofs`, `WorkflowVersionsProofs` | lemmas and theorems |

`OrderLifecycle` composes the wallet, the entitlements and the order; the
refinement is of `Settlement`. `CustomerService` composes the desk with the
outbox and refines the latter: its specification implies `OutboxSpec` with the
same variables, so that whatever is proved of the outbox holds of the desk's
events. `AiBilling` starts where `OrderLifecycle` stops at `Spend`: a usage
there is the sum of the bookings here.

### 2.1 Orders

| Variable | In the code |
|---|---|
| `order` | the row of `orders`: status, fulfilled, refunded_amount |
| `refund` | the rows of `refunds` of an order, oldest first |
| `balance`, `txn` | `wallets.balance`; the signed amount in `transactions` under each idempotency key of an order |
| `purchases`, `ent`, `plans`, `quota`, `xp` | rows inserted into `purchases`; rows of `entitlements` of an order and whether the newest is active; `user_plans` of a user in order of start; `quotas`; the ledger entry of the order |
| `sweep`, `view`, `backfill` | what the cleanup transaction, the session of a polling request and the backfill have read and not yet written |
| `trade`, `notify` | the provider: the trade, and the notifications it still repeats |
| `seen`, `busy` | the Redis key `payment:notify:*`; notifications whose handler is past it |
| `plansRead` | what a fulfilment that has not written yet has read of the buyer's plans and quotas, and which transaction it is |
| `spent` | metered usage so far |
| `exceptions`, `lostMarks` | counters of injected faults |

A `@Transactional` method whose first statement locks the order row is one
step: no other handler sees or changes the row until it commits. That says
nothing of *another* order of the same buyer, whose fulfilment writes the same
plans and quotas. The wallet row keeps the two apart only when a payment is
booked: `changeBalance` returns before it locks when the idempotency keys are
there (`WalletService`, lines 348-355). An order that is fulfilled again, after
a stale row cleared its flag, or completed after a reconcile that stopped
halfway, takes no lock before `activatePlan`. What is *not* protected is split:

* `SweepReads` / `SweepWrites`: `closeExpiredPendingOrders` selects without a
  lock and saves whole rows; neither `@Version` nor `@DynamicUpdate` is on `Order`.
* `PollReads` / `Reconcile`: `queryOrder` loads the order before the
  transaction locks it, in the same session, since open-in-view is left on; the
  locking query then returns the loaded state.
* `AlipayMark` / `AlipayProcess` / `AlipayThrows` / `AlipayLosesMark`: the key
  in Redis is no part of the database transaction. WeChat has no key.
* `ReadsPlans` / `FulfilAs`: the plan to end and the quotas are read, and
  written in a later step. A fulfilment that books its payment (`~NoWalletLock`)
  starts and ends only while no other one of the buyer holds the lock
  (`WalletFree`); one that does not may come between the two steps of any other.
* `BackfillReads` / `BackfillGrants`: the selection is not locked.
* `Checkout` / `ProviderOpens` / `ProviderRefuses`: row first, provider second.

`RefundService.review` loads the order with the request and locks it a moment
later. While a request is pending only the status of an order in `Guarded` can
change, and review overwrites the status; so one step is exact for these.

`Exposed` are the orders that a configuration lets the cleanup job or a polling
page reach (`Expirable`, `Polled`), and `Guarded` the others. The split is the
point of the model: what holds of guarded orders alone fails for exposed ones,
and run `swept` shows how. `OneActivePlan` is the property that holds of both:
one plan, and one more for each grant that was made without the wallet lock
beside another fulfilment (`GrantedBeside`), which only exposed orders come to.

A buyer none of whose plan orders is exposed never fulfils without the lock;
for such a buyer, and for other kinds of orders, `FulfilAs` reads and writes in
one step. Usage counted by the Python server between a read and a write of a
quota row is not under that lock; no property speaks of usage. An approval books
the refund under a key of its own, so it always takes the lock, and waits for a
holder. Rows of `plans` are in the order of their commits, in which `started_at`
may differ for two fulfilments that overlapped; how many are active does not
depend on it. A fulfilment without the lock may finish here before a holder
does, though a token grant it still had to book would wait in the code: the
model has more behaviours there.

Amounts are whole units, `UnitsPerYuan` to the yuan, so that rounding to yuan
shows. Signature checks, amounts that do not match, wrong owners and missing
rows end a handler without a change and are left out. A refund request is
always for the whole remainder, as in `apply`. Usage is charged one unit at a
time (`Spend`), and only while there is a balance. Quotas of
a negative total (unlimited) are left out. Polling reads only rows worth
settling. Payments of an order end in `paid` or `finished`; what happens at the
provider is the environment.

### 2.2 Billing

| Variable | In the code |
|---|---|
| `chat` | the line `llm_chat` or the generator of `llm_chat_stream` has come to |
| `call` | each of its three calls of the wallet: not made, sent, past its unlocked read of the hold, answered or refused, lost on the way |
| `hold` | `wallet_holds.status` |
| `booked`, `balance` | the transaction under each of the keys `ai:preauth:`, `ai:settle-extra:`, `ai:settle-release:`, `ai:release:`; `wallets.balance` |
| `timedOut`, `disturbed` | history: chats that gave up on their settlement; chats that met any fault |
| `meter`, `seen`, `used` | a metered call; the count it read; `quotas.used` of `llm_calls` |

The caller and the Java transaction are separate actors: `TimeOut` (httpx, 20
seconds) moves the caller on while the request may be lost, waiting, between its
read and its write, or done. `SettleReads`/`SettleAiUsage` and
`ReleaseReads`/`ReleaseAiUsage` are split where the status of the hold has been
read and the wallet is not locked yet. `LogFails` and `CutOff` are the two ways
out of the handler that the `except` clauses do not cover: a log that cannot be
written before the release, and a stream whose reader is gone. A key is derived
from the `request_id` of a chat and each call is sent once, so that
`changeBalance` never meets its key again. `consume_quota` reads and writes in
two steps, after the work, and what it raises is swallowed by `services/llm.py`.

### 2.3 Outbox and customer service

| Variable | In the code |
|---|---|
| `row`, `letters` | `event_outbox` by event id; rows of `event_outbox_dlq` per event |
| `taken`, `step`, `answer`, `count` | the records `fetch_pending` returned to a drain, where `drain` is, the result of its post, the attempts `mark_failed` read |
| `tried`, `received` | history: posts of an event; events that reached the receiver |
| `hasUrl` | whether `MODSTORE_WEBHOOK_URL` is set |
| `db` | tickets of the session, their actions, and the rows actions made |
| `refundable`, `runs`, `told` | paid orders; completed runs of the integrated workflow per ticket; refunds a reply has confirmed |

`Fetch`, `Post` and `Mark` are separate since rows are not claimed and marks are
by id; `Post` also reads the attempts that `Mark` later writes plus one, as
`mark_failed` does. A post may arrive and still be answered as failed. A skipped
post (no URL) is counted but never terminal, by `drain`. `Replay` sets rows
pending whatever they were and keeps their attempts. A drain may die between any
two steps.

A message is one database session: `HandleMessage` computes the session that
`handle_customer_message` leaves (`Handled`), puts the decision into it
(`AtCommit`) and commits. `Enqueue` with an id that exists returns the empty
session, as `session.rollback()` does. The workflow of an integration commits on
its own, so `runs` changes even when the message is rolled back
(`HandleMessage`) or dies (`AbandonMessage`). Messages of one session come one
at a time: the customer waits for the reply.

### 2.4 Workflows

`WorkflowEngine` follows `_run_graph`: `Visit` counts, `Call` has one action per
kind of node with its own treatment of failure (an employee raises after its
retries, an OpenAPI operation puts its error into the data, a search swallows
it, a skill raises at once), `Leave` picks the first edge by id whose condition
holds. Conditions read data of the user, so each evaluation may come out either
way. `Begin` and `Close` write the row that `execute_workflow` of the API keeps.

In `WorkflowHints` the search of `run_sandbox` is a state machine whose steps
come before those of the run (`HintsNext`); other callers ask for no hints.
`StartSearch` gives up on a graph without one start node; `Spread` is a turn of
the loop of `_topology_warnings` and `HintReached` its end; `Descend`,
`MeetGray` and `Return` are what one call of `dfs` may do next, for the node on
top of the stack of calls (`path`), and `TraceBack` is the loop that follows the
parents. The code queries nodes and edges without an order, so the model looks
at them in any; that a node is put on the stack of `_topology_warnings` twice,
or a black successor looked at, changes nothing and is left out. The variables
of the search are reset when it returns (`Forget`).

The model has one graph. In the code the validator (`workflow_engine.py`, lines
967-978), the hints (871-880) and the run (176-185) query nodes and edges each on
their own, so an edit committed between them gives the run another graph than the
one the hints are about. `HintsPredictRuns` is about a graph that is left alone
for the length of the request; `WorkflowVersions` has edits in between.

`WorkflowVersions` splits requests into SQL statements, since the session is
PostgreSQL's at READ COMMITTED and the tables are not locked before they are
read.

| Variable | In the code |
|---|---|
| `graph` | the committed rows of `workflow_nodes`, by id and a revision for their content, and of `workflow_edges`, by id and the nodes they join |
| `versions`, `test` | `workflow_versions` by number; the newest `workflow_sandbox_runs` row, and what was run for it |
| `request` | per process, the statement its request has come to and what it has read, found (`seen`), deleted (`cut`, `gone`) and changed (`holds`), which stays locked until it ends |
| `serial` | the sequences that ids come from |

Handlers are `async` functions that await nothing, so one process works on one
request at a time. Edits are a step each: `AddNode`, `UpdateNode`, `DeleteNode`
(with the edges of the node), `AddEdge`, `DeleteEdge`. They wait for rows that a
rollback in progress has deleted and for nothing else. A node is inserted beside
a rollback and survives it; so does an edge as long as its nodes are not deleted
yet, in which case it refuses the DELETE of its nodes (`CheckEdges`, the foreign
keys of `WorkflowEdge`). A publication reads nodes and edges, finds the current
versions, unmarks them and inserts its own. A rollback finds and deletes the
edges (`BeginRollback`, `CutEdges`), then the nodes (`DeleteNodes`,
`CheckEdges`), inserts those of the version with new ids (`Restored`, visible
when it commits), updates the workflow's row, which one rollback holds at a time
(`RowIsHeld`: `updated_at` always changes, and the session flushes it before its
next UPDATE), and moves the mark. What was added since its DELETEs looked stays
(`RolledBack`).

`replaced` are the parts, nodes or edges, that a commit changed while a request
relied on having read them (`Held`): for a publication, the nodes before it has
read the edges, which is how a version comes to be `torn`; for a sandbox, what
the run has read and the fingerprint has not read again.

A statement takes all its rows at once: two DELETEs that lock the same rows in
different orders, or an edge that waits for its two nodes one after the other,
could also end in an error of PostgreSQL, after which a request leaves nothing
behind. Name and description of a workflow are left out.

## 3. Runs

| Run | Instance | Shows | Distinct states |
|---|---|---|---|
| `plans` | a 1.50 plan by Alipay, a higher 1.00 plan by WeChat | types, ledger, refunds, clawback, one grant, one plan, revocation, refinement of `Settlement` | 325 480 |
| `exposed` | two plans the job may overwrite, one of which a page may too | ledger, nothing without payment, no more plans than grants beside each other explain | 1 215 373 |
| `goods` | an employee pack, a plan from before token grants | clawback and revocation with lost marks, thrown notifications and backfills | 210 450 |
| `notices` | a recharge by Alipay, a plan by WeChat, fair | answered means handled; paid leads to granted | 1 560 |
| `usage` | a chat estimated at 2 and charged 1, one estimated at 1 and charged 3, a wallet of 4; two metered calls on a quota of one | what a hold says, what a chat costs, what an answer implies, counting, closing | 227 360 |
| `outbox` | two events, a worker and an administrator, two attempts, one record per batch | dispatched means received, no giving up early, retrying ends, events settle | 214 384 |
| `desk` | two tickets, an order, an item, a workflow, a worker | tickets and events, resolved means done, refinement of `OutboxSpec` | 271 036 |
| `graphs` | every graph of three nodes and up to three edges, of four nodes and any of eight; four callers, two attempts, two visits, five steps | hints against the graph and the run, warnings, bounded calls, closing | 632 190 |
| `editing` | two processes; one edit, two versions, two rollbacks, one test | a current version, whole graphs, tested graphs, no circular wait | 2 311 504 |
| `swept`, `told`, `current` | the smallest instance that has the counterexample | what the repository says and the code does not do, one each; see Findings | up to a few thousand |

### Bounds

*Orders.* All orders belong to one user, over whom they compete; orders of
different users share nothing but the cleanup and backfill transactions.
`MaxRefunds` 2 lets a request be rejected and made again; `MaxSpend` 2 units is
enough to spend tokens before they are taken back and to leave less than the
clawback wants; one exception and one lost mark reach every order of failure and
repetition for one order; `MaxRows` bounds duplicate grants in `exposed`, which
the code does not. Of the amounts 3 and 2, with two units to the yuan, the first
is rounded up to whole tokens and the second is not.

*Usage.* The two chats cover a refund and an extra debit on settling; the wallet
of 4 covers both estimates and not both charges, so that an extra debit may be
refused. Two timeouts let a chat give up on its settlement and then on its
release, or both chats on one call each; one further fault may hit either. A
quota of one unit has its last unit contested.

*Outbox.* `BatchSize` 1 makes a record wait behind one that fails; two attempts
separate the first failure from the last; one replay makes two drains work on
one row, one crash falls anywhere between fetching and marking, and `MaxSkips` 1
has an attempt counted without a URL. There is one worker, as in the deployment:
`docker-compose.yml` (lines 157-159) starts one `scheduler` container with one
process, so that the background jobs run once. `AttemptsBounded` is about that
deployment, and about no more attempts without a URL than attempts allowed: with
more, an event has used up its attempts before it is ever posted. With three
workers a count that is written back late puts a row back to few attempts and
starts its retrying anew.

*Desk.* Two tickets are needed for events to be told apart and for a ticket to
be resolved while another is opened; messages are not bounded, and the second on
an open ticket meets the duplicate event. The instance keeps to a configured URL and
keeps its dead letters (`WithUrl`, `KeepLetters`), which `outbox` varies.

*Graphs.* Three nodes and three edges have self-loops, two-node cycles, cycles
with and without a way out, unreachable ends, several start nodes, ambiguous and
dangling edges, in any order of edge ids. The caps, 1000 steps and 50 visits in
the code (`workflow_engine.py`, lines 35 and 37), are 5 and 2, so that each can be
the one that stops a run.

The eight edges of the graphs of four nodes give two ways to a node, so that the
search meets black nodes, a self-loop, overlapping cycles of two to four nodes,
cycles and ends out of reach, and a cycle that passes the end and not the start.

*Editing.* Two processes are enough for every pair of statements to interleave
and are interchangeable (`SYMMETRY`, safety only); two versions give a rollback
a target that is not current, and two rollbacks meet in every order of their
statements. One edit falls between any two statements of the others; the graph
starts as one node, with an edge to itself or without, so that rollbacks find
rows in common, or none. A third process adds waiters on the same rows; the
theorems are for any number.

`CHECK_DEADLOCK FALSE` everywhere: when all is paid, sent, settled, edited or
run within the bounds, nothing more need happen.

### Liveness and fairness

* `PaidEventuallyGranted`: weak fairness of `WechatNotify`, of `AlipayMark` or
  `AlipayDuplicate`, and of `AlipayProcess`, per order and notification. The
  first two say that the provider repeats a notification until it is answered,
  which both providers document and on which the service relies; the third that
  a handler past its mark runs to its end. No fairness is assumed of buyers,
  reviewers, jobs or polling. Handlers do not fail in that run: with one failure
  the property is false, by observation 2 below.
* `EventSettles`: weak fairness of every drain. The worker is a thread that
  loops for as long as the process lives (`OutboxDispatcherWorker`) and an
  answer comes within the timeout given to `httpx`; a crash is not a drain step
  and crashes are bounded, which says that a process manager restarts it. No
  fairness of replays or of the receiver, which may fail every time.
* `HoldsClose`: weak fairness of the handler of a chat and of the Java
  transaction it called; both run without waiting for anything but a lock that
  is released at a commit. Timeouts and faults are not fair, they only may
  happen.
* `RunsClose`: weak fairness of the search and of the run, synchronous loops of
  one request; a crash may happen and ends the run.

### Findings

1. `swept`: the cleanup job overwrites a payment fulfilled after its read; the
   order is granted twice.
2. `told`: the second message on an open ticket queues `decision_made` under an
   event id that exists. `enqueue` then rolls the caller's session back, and the
   message has done nothing, while its reply says that a refund was applied for.
3. `current`: a publication and a rollback in two processes each take
   `is_current` away from the versions they saw; two versions stay current.

`PROJECT.json` quotes, for each, the line of the repository it contradicts.

### Observations

Met while modelling; the models admit each of them where they reach that far,
and no run is spent on it.

1. A polling request settles the row its session loaded before it took the
   lock, and fulfils again what a notification fulfilled in between
   (`PaymentController.queryOrder`; `Reconcile` of an exposed order).
2. The Redis mark is set before the order is processed, so a repetition is
   answered with success while the first handler may still fail
   (`AlipayController`; `AlipayDuplicate` before `AlipayThrows`).
3. `updateOrderStatus` refuses only paid after paid: a late notification sets a
   refunded order back to paid, while the backfill relies on its being refunded.
4. `get_quota` sets `used` to zero each month, and with it gives back what
   `revokeOrderEntitlements` left of a refunded plan's quota.
5. The gate that an item is bought once is evaluated at checkout; two pending
   orders of an item are both sold.
6. A settlement whose caller gave up may run beside the release that follows it,
   and both give the reserve back (`HoldMatchesBookings` excludes such chats;
   `ChargeBounded` covers them).
7. Nothing reads `wallet_holds.expires_at`: a hold that was left open stays so.
   `agent_butler_api.py` leaves one by each chat on a platform key, since it calls
   `settle` and `release` with arguments they do not have (lines 392, 400, 459
   and 467).
8. An execution row stays `running` when `require_llm_credit` raises or the
   process dies (`RunsClose` excludes both).
9. A snapshot whose nodes change between its two queries has edges of nodes it
   lacks, which restoring it drops without a word (`GraphsWhole` excludes it).
10. The fingerprint of a sandbox run is taken after the run; an edit during the
    run is recorded as tested (`ReadyWasTested` says of which parts this can be).
11. An order that is fulfilled again takes no wallet lock before `activatePlan`.
    Beside the fulfilment of another plan of the buyer it reads the same active
    plan, both end that one, and two plans stay active until both are refunded
    or ended one after the other (run `exposed`; `OneActivePlan` counts them).
    The repository promises one plan for payments that follow each other
    (`EntitlementServiceTest.java`, line 108), no more.
12. Of two rollbacks the second waits for rows the first has deleted and does
    not see the rows the first has restored, if both looked for nodes before the
    first committed: the graph has the nodes of both versions. Where the first
    restored edges in the meantime, they refuse the second (`CheckEdges`).
13. An edge that is added between the two DELETEs of a rollback, and that a
    second rollback then deletes, makes the two wait for each other, for the
    edge and for its node; PostgreSQL ends one with an error. `NoDeadlock` excludes
    this state (`Crossed`). Deleting a node that such an edge joins can do the
    same; as an edit it is one step here.
14. `applyPlanQuotas` saves the whole row of a quota it has read; units that the
    Python server counts in between are lost.
15. Nothing calls `workflow_scheduler.start_scheduler`: cron triggers do not
    fire. The session in which `subscription_renewer` charges wallets is never
    committed.

## 4. Proofs

Eight modules, checked by TLAPS; every theorem holds for all values of the
constants that the named assumptions admit. Every safety property that a passing
run checks is a theorem, but for the form of `NoDeadlock` that mentions ENABLED.

| Theorem | Statement |
|---|---|
| `OrderLifecycleProofs`: `TypeCorrect`, `Invariance` | `Spec => []TypeOK`, `Spec => []IInv` |
| `NothingForNothing`, `RefundBound`, `GrantOnce`, `SinglePlan`, `RefundTakesBack` | `Spec => []` of `NoValueWithoutPayment`, `RefundsBounded`, `GrantedOnce`, `OneActivePlan`, `RefundRevokes` |
| `WalletMatchesLedger`, `RefundClawsBack` | `Spec => []` of `BalanceMatchesLedger`, `ClawbackComplete` |
| `AnswersAreKept` | `Spec => [](NoFailure => AnsweredMeansHandled)` |
| `Refinement` | `Spec => Settles` |
| `OutboxProofs`: `OutboxInvariance`, `OutboxTypes`, `Delivered`, `Patience`, `RetryingStops` | `OutboxSpec => []` of the invariant, `OutboxTypeOK`, `DispatchedWasReceived`, `GaveUpAfterMax`, `AttemptsBounded` |
| `CustomerServiceProofs`: `UsesOutbox` | `Spec => OutboxSpec` |
| `TicketEventsDelivered` | the outbox's theorems inherited by the desk |
| `DeskTypes`, `EventsForTickets`, `ResolvedTicketsDone` | `Spec => []` of `TypeOK`, `EventsMatchTickets`, `ResolvedIsDone` |
| `AiBillingProofs`: `BillingInvariance`, `BillingTypes`, `ChargeIsBounded`, `AnswersArePaid`, `HoldsTellBookings`, `QuotaHolds`, `WalletIsBooked` | `Spec => []` of `IInv`, `TypeOK`, `ChargeBounded`, `AnsweredIsPaid`, `HoldMatchesBookings`, `CountedWithinQuota`, `BalanceIsBooked` |
| `WorkflowEngineProofs`: `WorkflowTypes`, `QuietEnds`, `EffectsAreBounded` | `Spec => []` of `TypeOK`, `QuietRunReachesEnd`, `EffectsBounded` |
| `RowsTellOutcomes`, `RunsStayReachable`, `AcyclicRunsOnce` | `Spec => []` of `RowTellsOutcome`, `StaysReachable`, `CapsSpareAcyclic`, which no run checks |
| `HintsBeforeRuns`, `HintsAreRight` | `HintsSpec => Spec`, `HintsSpec => []HintsPredictRuns` |
| `RunsAreFinite`, `SearchIsFinite` | each step of a run, and of the search for hints, lowers a bounded natural number |
| `WorkflowVersionsProofs`: `VersionsInvariance`, `AlwaysSomeCurrent`, `AlwaysWhole`, `ReadyMeansTested` | `Spec => []` of `IInv`, `SomeCurrentVersion`, `GraphsWhole`, `ReadyWasTested` |
| `NobodyWaitsInACircle` | `Spec => []SomeMayStep`: as long as a request is open, and no rollbacks have crossed over a new edge, some request has a statement that need not wait |
| `Sums`: `SumSame`, `SumEmpty`, `SumInt`, `SumRemove`, `SumChange`, `SumZero`, `SumGrows` | what `SumFunction` of the community modules is on finite domains |

### Orders

The assumptions: orders are finitely many with positive amounts; only Alipay
orders are polled; a user has at most one legacy plan; `UnitsPerYuan` is
positive; `employee_count` is a quota type.

The inductive invariant `IInv` strengthens the properties in four ways.
`PaymentTraces` adds to "nothing without a payment" everything that can later
cause a grant: loaded rows, unanswered notifications, running handlers, refund
requests, the selection of the backfill. `RefundTraces` ties each booked refund
to an approved request. `FlagTellsGrants` says that for a guarded order the
fulfilled flag tells exactly what has been granted and that no transaction holds
an old copy of its row: that is why a repeated notification grants nothing, and
what the two lost updates destroy for exposed orders. `PlanCount` and
`PlanTraces` carry `OneActivePlan`. `activatePlan` ends just the newest active
plan, as it has read it. One fulfilment at a time holds the wallet lock while it
reads and writes (`Holders`); if the plan it has read is still active it replaces
it, and if that was ended meanwhile (`Outdated`) the plan it will add is counted
already: only a grant without the lock, or a refund, can have ended it, and a
grant adds itself to `GrantedBeside` (`SumGrows`). Which grants take no lock is
told by `PlanTraces`: those of plans whose payment is booked, so all but the
first of an order, and of a polled one also the first if a reconcile of it has
stopped halfway.

The proof has one lemma per group of actions and conjunct. Actions that touch
neither money nor goods are covered by one description, `Quiet`. What fulfilment
and approval do to an account, to plans and to quotas are lemmas of
`ServiceProofs`. The refinement maps an order to paid, granted and returned
through its trade, its grants and its approved requests; each step is a step of
`Settlement` or a stutter.

Three properties have invariants of their own beside `IInv`:

* `BalanceMatchesLedger` says that a balance is the sum of all bookings less
  what was spent, and is not negative. `SpentAsPaid` adds that the payment of an
  order and the spending of it are booked together, so that fulfilling an order
  again never leaves only the spending to be booked, for which the balance might
  not do. `ServiceProofs` shows for each kind of booking that it leaves balance
  minus ledger as it was and the balance not below zero (`Sound`, `Moves`).
* `ClawbackComplete` needs `TokenTraces`: until a refund is approved no row, and
  no copy of a row that a transaction holds, says refunded; and a copy that says
  fulfilled had its tokens granted.
* `AnsweredMeansHandled` needs `MarkMeansHandled`: with the Redis key set,
  either the order was handled or its handler is running. `NoFailure` is a
  condition on the history, no constant: handlers may fail in every behaviour,
  and what is claimed is claimed until the first one does. Observation 2 shows
  that it is needed.

### Outbox and customer service

The assumptions: finitely many events and drains, workers among the drains, at
least one attempt and one record per batch. `DispatchedWasReceived` needs that a
drain about to mark a record "ok" has posted it and the post arrived;
`GaveUpAfterMax` needs that whatever a drain carries, in its record or in the
count it read, is at most the number of posts made of that event. Both survive
lost counts because counts only err downwards.

`AttemptsBounded` has to do with how far they err. Every count of an event, be
it in its row or about to be written by a mark, must leave room for the attempts
still owed, and `RoomLeft` says how much: two as long as the worker may count an
attempt and leave the event pending (`Young`), one as long as it may count one
at all (`Open`), nothing once the event is given up, and one for each replay
that still holds the event. The room is the allowed attempts and two for each
replay: one for its own drain, which fetches once, and one for what the worker
does with the row it has revived. The invariant was checked by TLC before it was
proved, also with three replays by three drains. With three workers the bound is
false: TLC found 6, 8, 10 and 12 attempts where 2, 3, 4 and 5 are allowed, so
that no constant excess would do.

`UsesOutbox` shows that every commit of the desk inserts one new event or two,
or is a stutter: an event that exists makes `Enqueue` return a session without
any. It is by this theorem that what is proved of the outbox holds of the desk
(`TicketEventsDelivered`). `EventsForTickets` needs in addition that tickets are
only added, and only by a commit whose session holds both their events.
`ResolvedTicketsDone` follows from the shape of the rows (`RowsInv`) and from
`Untouched`: a ticket that does not exist has no actions, so what a message
finds recorded for the ticket it opens it has done itself.

### Billing

The assumptions: finitely many chats, apart from the metered calls; positive
estimates; the bounds. The invariant has three layers per chat:
`StageMatchesCalls`, where the handler is given what its calls have come to;
`CallsMatchBookings`, what is booked given the calls that came back; and
`OneEnding`, that settling and releasing exclude each other as long as the
caller did not give up on the settlement. The last is exactly what the unlocked
reads lose for `timedOut` chats, so `HoldMatchesBookings` is proved for the
others, while `ChargeBounded` follows from the first two layers for all chats. A
chat that was answered did not give up on its settlement, by
`StageMatchesCalls`, whence `AnsweredIsPaid`. For the quota, a count about to be
written was below the total when it was read (`SeenBelowQuota`), which no other
call and no reset can spoil. `BalanceIsBooked` has the total of all bookings of
all chats: each transaction of the wallet changes one of them and the balance by
the same amount (`SumChange`), and each that debits compares with the balance
under the lock of the wallet.

### Workflow runs

The assumptions: nodes are numbered and finitely many, edges are numbered and
join numbers of nodes, the caps are positive. Nothing else is assumed of the
form or the size of a graph: the theorems hold for every graph a user may draw,
with loops, dangling edges and several start nodes.

`WalkInv` says where a run is while it lasts, and that the caps are not passed.
`RowInv` adds that the row of an API run says `running` while the run lasts, and
that it is closed only after a run that completed or raised; hence
`RowsTellOutcomes`: a row that still says `running` when all is over is of a run
that was refused its credit or died. `EffectsAreBounded` bounds the calls of a
node by visits times attempts, and the calls of a whole run by `MaxSteps *
(Retries + 1)`: `SpendInv` counts the attempts of the call that is being made
apart from those of finished calls.

`RunsStayReachable` and `AcyclicRunsOnce` say what runs do on a graph whoever
has looked at it before: a run visits only what every set that contains the
start nodes and is closed under edges contains (`ReachInv`); and if such a set
has a rank which rises along every edge within it, no node is visited twice, so
that neither the cap on visits nor, with no more nodes in the set than
`MaxSteps`, the cap on steps stops the run (`ForwardInv`, over all such sets and
ranks). Cycles elsewhere in the graph do not matter.

`HintsAreRight` adds the search. `HintInv`, the conjunction at the end of
`WorkflowHints`, is its inductive invariant. `SpreadInv`: what is found or
pending can be reached, and only pending nodes lead further; with nothing
pending what is found is closed, hence exactly what can be reached. `PathInv`:
the gray nodes are those of the path, each once, the path leads along edges from
the start node, and the parents lead back along it. `BlackInv`: the black nodes
are a closed set with a rank that rises along its edges; a node turns black when
its successors are, and can be ranked below them all (`RankGrows`). So when
`dfs` returns from the start node there is a ranked set around it, in which
`AcyclicRunsOnce` holds and no node leads back to itself (`RankForbidsCycles`).
`TraceInv`: what has been traced is the rest of the path from the present node
on, closed by the gray node that was met; at the end it is a cycle
(`PathClosesCycle`), through a node that can be reached and leads back to itself
(`CycleLeadsBack`). The reachable nodes are those in every closed set around the
start nodes, so the proof needs no induction over walks, which are data. The
search changes nothing of the run (`HintsBeforeRuns`), whose theorems therefore
hold after it.

`RunsAreFinite` and `SearchIsFinite` are the part of liveness that can be proved
here: every step of a run, a crash included, lowers `Ahead`, which begins at
`(MaxSteps + 1) * (Retries + 3) + 3`, and every step of the search lowers
`SearchAhead`, which begins at four times the nodes and one. That a run which is
not over has a next step is what run `graphs` adds with `RunsClose`.

### Versions

The assumptions: finitely many processes, natural bounds. The invariant follows
a request part by part: what it has read is the graph as it is in all parts but
those that were changed since (`ReadOK`), and a sandbox has run what is there, or
what the fingerprint has read, in the same sense (`RanOK`); so what is recorded
as tested differs from what was run in `test.replaced` at most, which is
`ReadyMeansTested`. For `AlwaysWhole` ids are given out once (`SerialOK`), and a
rollback that has passed its check leaves no edge on the nodes it deletes
(`CutOK`); edits keep that, since they wait for deleted nodes before they give
them an edge. `SomeCurrentVersion` is inductive by itself once a rollback is
known to have a target that exists.

`NobodyWaitsInACircle` is `NoDeadlock` without ENABLED. `MayStep` spells out
when the next statement of a request need not wait; that it then can be taken is
the first half of `NoDeadlock`, which run `editing` checks. By `LocksInv`
version rows are held on the way to a commit only, one rollback is on that way
at a time, deleted nodes are held by rollbacks at their check or past it, and
deleted edges by these and by those about to delete nodes. Suppose nobody could
go on. Then no rollback is at its commit, for it would find no row held; so
nobody holds version rows, no rollback is past its check, and by `~Crossed` none
is at it; so no node is deleted, nobody waits to delete nodes, no edge is
deleted, and nobody waits at all.

### Sums

`SumFunction` is defined by a fold, over whose recursion the library's induction
theorems would have to be instantiated with an operator. `Sums` uses a minimal
counterexample instead (`WFMin`, on the numbers and on the subsets of a finite
set): the recursion that defines a sum has exactly one solution, whence the sum
without one term, and with one term changed.

### Only model-checked

`PaidEventuallyGranted`, `EventSettles`, `HoldsClose` and `RunsClose` are
liveness under fairness, and `NoDeadlock` mentions ENABLED: neither is in reach
of the prover. Of `RunsClose` what can be said without fairness is proved: a run
is bounded (`RunsAreFinite`), and its row tells how it came out
(`RowsTellOutcomes`); of `NoDeadlock`, `NobodyWaitsInACircle`. The runs of the
three findings have a counterexample.

## 5. Not modelled

* *Python payment fallback, renewal, reconciliation, author earnings*: a second
  implementation for installations without the Java service, and jobs over the
  same tables. The fallback's orders are files that are read, changed and
  written without a lock; there is little left to verify before that changes.
* *Employees, script agent, skills, vibe-coding*: loops around the answers of a
  language model. Their control is a bounded retry; what matters about them is
  the data.
* *Connectors, HTTP clients, in-process event bus, Java webhooks*: outbound
  calls without state of their own here; a failure is an outcome in the models
  that make such calls.
* *Catalogue, market, knowledge, authoring APIs, market web client*: create,
  read, update and delete with little state that several steps share.
* *Experience*: the sum in `users.experience` is added to without a lock; it is
  only displayed.
* *Dismissed orders, signatures and nonces, manual credits, unlimited quotas,
  keys of the user's own*: named where they are left out, in `PROJECT.json` and
  above.
* *modman, static sites, deployment files*: no state that runs.

## 6. Plan

1. The Python payment fallback against `Settlement`, and `Employee` runs as a
   caller of `WorkflowEngine`.
2. The end of a graph without edges in `WorkflowVersions`.

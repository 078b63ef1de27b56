---------------------------- MODULE CustomerService ----------------------------
(***************************************************************************)
(* The AI customer service: handle_customer_message of one session, the    *)
(* actions it carries out, and the two events of a ticket in the outbox.   *)
(* A message is one database session that the endpoint commits at the end. *)
(* A customer waits for the reply before the next message, so those of a   *)
(* session come one at a time.  A workflow it starts runs and commits on   *)
(* its own.  What the text of a message is understood as (extract_fields,  *)
(* infer_intent) is the choice of the intent, the subject, and whether     *)
(* every required field is there.  Extending a model's capabilities        *)
(* behaves like a review, and help with an account like a general request. *)
(***************************************************************************)
EXTENDS Outbox

CONSTANTS
    Orders, Items,  \* what a message may be about
    MaxTickets,     \* bound: tickets of the session
    MaxRuns,        \* bound: times a ticket's workflow runs to its end
    HasWorkflow     \* a workflow integration matches the session's intents

Tickets == 1 .. MaxTickets

ASSUME CustomerServiceAssumption ==
    /\ MaxTickets \in Nat /\ MaxRuns \in Nat /\ HasWorkflow \in BOOLEAN
    /\ Events = {"ticket_created", "decision_made"} \X Tickets

Intents == {"refund", "catalog_complaint", "catalog_review", "general"}
SubjectsOf(intent) ==
    CASE intent = "refund" -> Orders
      [] intent = "general" -> {"none"}
      [] OTHER -> Items

\* What a message asks for; a general one requires no field.
Messages == {[intent |-> i, subject |-> s, complete |-> c] :
                i \in Intents, s \in Orders \cup Items \cup {"none"},
                c \in BOOLEAN}
Message == {m \in Messages :
                /\ m.subject \in SubjectsOf(m.intent)
                /\ m.intent = "general" => m.complete}

VARIABLES
    db,         \* the committed rows: tickets, actions and what actions made
    refundable, \* orders that are paid
    runs,       \* times a ticket's workflow ran to its end
    told        \* refunds the customer was told were applied for

desk == <<db, refundable, runs, told>>
vars == <<outbox, desk>>

TicketStatus == {"processing", "waiting_user", "resolved"}
Db == [tickets : Seq([intent : Intents, status : TicketStatus]),
       actions : [Tickets \X (Intents \cup {"workflow"})
                    \X (Orders \cup Items \cup {"none"}) ->
                  {"none", "completed", "failed"}],
       made : [Intents \X (Orders \cup Items \cup {"none"}) -> Nat]]

Init ==
    /\ OutboxInit
    /\ db = [tickets |-> <<>>,
             actions |-> [k \in Tickets \X (Intents \cup {"workflow"})
                            \X (Orders \cup Items \cup {"none"}) |-> "none"],
             made |-> [k \in Intents \X (Orders \cup Items \cup {"none"}) |-> 0]]
    /\ refundable = {}
    /\ runs = [t \in Tickets |-> 0]
    /\ told = {}

-----------------------------------------------------------------------------
\* The newest open ticket, if its intent is the message's: else a new one.
OpenTickets == {t \in DOMAIN db.tickets : db.tickets[t].status # "resolved"}
Newest == CHOOSE t \in OpenTickets : \A u \in OpenTickets : u <= t
Reuses(m) == OpenTickets # {} /\ db.tickets[Newest].intent = m.intent
TicketFor(m) == IF Reuses(m) THEN Newest ELSE Len(db.tickets) + 1

EnsureTicket(m) ==
    IF Reuses(m) THEN Begun(db)
    ELSE Enqueue(db,
                 Begun([db EXCEPT !.tickets =
                            Append(@, [intent |-> m.intent,
                                       status |-> "processing"])]),
                 <<"ticket_created", TicketFor(m)>>)

\* The action of the intent: whether it can be done, and the rows it adds.
\* A refund exists once per order; a complaint is a new row each time; a
\* review overwrites the item's state.
Possible(m) == m.intent = "refund" => m.subject \in refundable
RowsMade(m, n) == CASE m.intent = "catalog_complaint" -> n + 1 [] OTHER -> 1

\* build_action and execute_action: a completed action is not repeated.
Act(session, m) ==
    LET key == <<TicketFor(m), m.intent, m.subject>>
        made == <<m.intent, m.subject>>
    IN  IF ~m.complete \/ m.intent = "general"
           \/ session.db.actions[key] = "completed"
        THEN session
        ELSE IF Possible(m)
        THEN [session EXCEPT !.db = [session.db EXCEPT
                  !.actions[key] = "completed",
                  !.made[made] = RowsMade(m, session.db.made[made])]]
        ELSE [session EXCEPT !.db.actions[key] = "failed"]

\* execute_matching_integrations: whatever was decided.
WorkflowKey(m) == <<TicketFor(m), "workflow", "none">>
RunsWorkflow(session, m) ==
    HasWorkflow /\ session.db.actions[WorkflowKey(m)] # "completed"
Integrate(session, m, succeeds) ==
    IF RunsWorkflow(session, m)
    THEN [session EXCEPT !.db.actions[WorkflowKey(m)] =
                            IF succeeds THEN "completed" ELSE "failed"]
    ELSE session

ActionsOf(m) ==
    (IF m.complete /\ m.intent # "general"
     THEN {<<TicketFor(m), m.intent, m.subject>>} ELSE {})
    \cup (IF HasWorkflow THEN {WorkflowKey(m)} ELSE {})

\* A mutant that concludes from the message alone.
ConcludeComplete(session, m) ==
    [session EXCEPT !.db.tickets[TicketFor(m)].status =
        IF m.complete THEN "resolved" ELSE "waiting_user"]

\* A mutant that gives a ticket the status of an action.
ConcludeAsAction(session, m) ==
    [session EXCEPT !.db.tickets[TicketFor(m)].status =
        IF m.complete THEN "completed" ELSE "waiting_user"]

Conclude(session, m) ==
    [session EXCEPT !.db.tickets[TicketFor(m)].status =
        CASE ~m.complete -> "waiting_user"
          [] m.complete /\ (\A k \in ActionsOf(m) :
                               session.db.actions[k] = "completed")
                -> "resolved"
          [] OTHER -> "processing"]

\* The session the message leaves, and the one after its decision is queued.
Handled(m, succeeds) ==
    Conclude(Integrate(Act(EnsureTicket(m), m), m, succeeds), m)
\* A mutant that commits the message without its decision.
CommitAlone(m, succeeds) == Handled(m, succeeds)

AtCommit(m, succeeds) ==
    Enqueue(db, Handled(m, succeeds), <<"decision_made", TicketFor(m)>>)

\* The reply is built before the decision is queued, from the session's rows.
TellsRefund(m, session) ==
    /\ m.intent = "refund" /\ m.complete
    /\ session.db.actions[<<TicketFor(m), "refund", m.subject>>] = "completed"

HandleMessage(m, succeeds) ==
    /\ TicketFor(m) \in Tickets
    /\ IF RunsWorkflow(EnsureTicket(m), m)
       THEN succeeds => runs[TicketFor(m)] < MaxRuns
       ELSE succeeds
    /\ db' = AtCommit(m, succeeds).db
    /\ Commit(AtCommit(m, succeeds).events)
    /\ told' = IF TellsRefund(m, Handled(m, succeeds))
               THEN told \cup {m.subject} ELSE told
    /\ runs' = IF succeeds /\ RunsWorkflow(EnsureTicket(m), m)
               THEN [runs EXCEPT ![TicketFor(m)] = @ + 1] ELSE runs
    /\ UNCHANGED refundable

\* The process dies, or the commit fails, with the message unanswered: only
\* what the workflow did is left.
AbandonMessage(m) ==
    /\ TicketFor(m) \in Tickets /\ runs[TicketFor(m)] < MaxRuns
    /\ RunsWorkflow(EnsureTicket(m), m)
    /\ runs' = [runs EXCEPT ![TicketFor(m)] = @ + 1]
    /\ UNCHANGED <<outbox, db, refundable, told>>

OrderPaid(o) ==
    /\ o \notin refundable
    /\ refundable' = refundable \cup {o}
    /\ UNCHANGED <<outbox, db, runs, told>>

Desk ==
    \/ \E m \in Message, succeeds \in BOOLEAN : HandleMessage(m, succeeds)
    \/ \E m \in Message : AbandonMessage(m)
    \/ \E o \in Orders : OrderPaid(o)

Next == Desk \/ (Deliver /\ UNCHANGED desk)
Spec == Init /\ [][Next]_vars

-----------------------------------------------------------------------------
(* Properties.                                                             *)

TypeOK ==
    /\ OutboxTypeOK
    /\ db \in Db /\ Len(db.tickets) <= MaxTickets
    /\ refundable \subseteq Orders /\ told \subseteq Orders
    /\ runs \in [Tickets -> 0 .. MaxRuns]

\* The outbox promises that an event exists if and only if what it announces
\* was committed: no event is stored, or has reached the receiver, for a
\* ticket that is not there, and every ticket has both of its events.
EventsMatchTickets ==
    /\ \A e \in Present \cup received : e[2] \in DOMAIN db.tickets
    /\ \A t \in DOMAIN db.tickets :
          {<<"ticket_created", t>>, <<"decision_made", t>>} \subseteq Present

\* A resolved ticket has all of its actions completed and recorded, whatever
\* messages were rolled back or abandoned.
ResolvedIsDone ==
    \A t \in DOMAIN db.tickets : db.tickets[t].status = "resolved" =>
        /\ \A k \in DOMAIN db.actions :
              k[1] = t => db.actions[k] # "failed"
        /\ \A i \in Intents, s \in Orders \cup Items :
              db.actions[<<t, i, s>>] = "completed" => db.made[<<i, s>>] > 0
        /\ db.actions[<<t, "workflow", "none">>] = "completed" => runs[t] > 0

\* A refund the customer was told of exists.
ToldIsRecorded == \A o \in told : db.made[<<"refund", o>>] = 1
=============================================================================

------------------------ MODULE CustomerServiceProofs ------------------------
(***************************************************************************)
(* The customer service uses the outbox as the outbox promises: whatever   *)
(* messages do, the rows of events move as those of Outbox, and there is   *)
(* an event exactly for what was committed.                                *)
(***************************************************************************)
EXTENDS CustomerService, OutboxProofs, SequenceTheorems

\* A session keeps the events it has flushed while actions are carried out.
IsSession(s) == "events" \in DOMAIN s

LEMMA Starts == IsSession(Begun(db)) /\ Begun(db).events = <<>>
BY DEF Begun, IsSession

LEMMA ActFlushesNothing ==
    ASSUME NEW s, IsSession(s), NEW m
    PROVE  IsSession(Act(s, m)) /\ Act(s, m).events = s.events
<1> DEFINE key == <<TicketFor(m), m.intent, m.subject>>
           made == <<m.intent, m.subject>>
           done == [s.db EXCEPT !.actions[key] = "completed",
                                !.made[made] = RowsMade(m, s.db.made[made])]
<1>1. \/ Act(s, m) = s
      \/ Act(s, m) = [s EXCEPT !.db = done]
      \/ Act(s, m) = [s EXCEPT !.db.actions[key] = "failed"]
  BY DEF Act
<1> HIDE DEF key, made, done
<1>2. QED
  BY <1>1 DEF IsSession

LEMMA IntegrateFlushesNothing ==
    ASSUME NEW s, IsSession(s), NEW m, NEW b
    PROVE  IsSession(Integrate(s, m, b)) /\ Integrate(s, m, b).events = s.events
BY DEF Integrate, IsSession

LEMMA ConcludeFlushesNothing ==
    ASSUME NEW s, IsSession(s), NEW m
    PROVE  IsSession(Conclude(s, m)) /\ Conclude(s, m).events = s.events
BY DEF Conclude, IsSession

LEMMA AppendOne ==
    ASSUME NEW S, NEW c \in S, NEW d \in S
    PROVE  Append(<<c>>, d) = <<c, d>>
<1> DEFINE seq == <<c>>
           two == <<c, d>>
<1>1. seq \in Seq(S) /\ Len(seq) = 1 /\ seq[1] = c
  OBVIOUS
<1>2. two \in Seq(S) /\ Len(two) = 2 /\ two[1] = c /\ two[2] = d
  OBVIOUS
<1> HIDE DEF seq, two
<1>3. Append(seq, d) \in Seq(S) /\ Len(Append(seq, d)) = Len(seq) + 1
  BY <1>1, AppendProperties
<1>4. 1 \in 1..Len(seq)
  BY <1>1
<1>5. Append(seq, d)[1] = seq[1]
  BY <1>1, <1>4, AppendProperties
<1>6. Append(seq, d)[Len(seq) + 1] = d
  BY <1>1, AppendProperties
<1>7. Len(Append(seq, d)) = Len(two)
      /\ \A i \in 1..Len(Append(seq, d)) : Append(seq, d)[i] = two[i]
  BY <1>1, <1>2, <1>3, <1>5, <1>6
<1>8. Append(seq, d) = two
  BY <1>2, <1>3, <1>7, SeqEqual
<1>9. QED
  BY <1>8 DEF seq, two

\* A message commits nothing, its decision, or a new ticket and its decision.
LEMMA EventsOfMessage ==
    ASSUME NEW m \in Message, TicketFor(m) \in Tickets, NEW b
    PROVE  LET created == <<"ticket_created", TicketFor(m)>>
               decided == <<"decision_made", TicketFor(m)>>
           IN  /\ created \in Events /\ decided \in Events
               /\ \/ AtCommit(m, b).events = <<>>
                  \/ /\ AtCommit(m, b).events = <<decided>>
                     /\ decided \notin Present
                  \/ /\ AtCommit(m, b).events = <<created, decided>>
                     /\ {created, decided} \cap Present = {}
<1> DEFINE created == <<"ticket_created", TicketFor(m)>>
           decided == <<"decision_made", TicketFor(m)>>
<1>1. created \in Events /\ decided \in Events
  BY CustomerServiceAssumption
<1>2. /\ IsSession(EnsureTicket(m))
      /\ \/ EnsureTicket(m).events = <<>>
         \/ EnsureTicket(m).events = <<created>> /\ created \notin Present
  <2> DEFINE new == [db EXCEPT !.tickets =
                        Append(@, [intent |-> m.intent, status |-> "processing"])]
  <2>1. EnsureTicket(m) = IF Reuses(m) THEN Begun(db)
                          ELSE IF created \in Present THEN Begun(db)
                          ELSE [Begun(new) EXCEPT !.events = Append(@, created)]
    BY DEF EnsureTicket, Enqueue
  <2> HIDE DEF new, created
  <2>2. [Begun(new) EXCEPT !.events = Append(@, created)]
            = [db |-> new, events |-> <<created>>]
    BY DEF Begun
  <2>3. QED
    BY <2>1, <2>2, Starts DEF IsSession
<1>3. /\ IsSession(Handled(m, b))
      /\ Handled(m, b).events = EnsureTicket(m).events
  BY <1>2, ActFlushesNothing, IntegrateFlushesNothing, ConcludeFlushesNothing
     DEF Handled
<1>4. AtCommit(m, b) = IF decided \in Present THEN Begun(db)
                       ELSE [Handled(m, b) EXCEPT !.events = Append(@, decided)]
  BY DEF AtCommit, Enqueue
<1> HIDE DEF created, decided
<1>5. decided \notin Present =>
        AtCommit(m, b).events = Append(EnsureTicket(m).events, decided)
  BY <1>3, <1>4 DEF IsSession
<1>6. /\ Append(<<>>, decided) = <<decided>>
      /\ Append(<<created>>, decided) = <<created, decided>>
  <2>1. ASSUME NEW c \in Events, NEW d \in Events
        PROVE  Append(<<>>, d) = <<d>> /\ Append(<<c>>, d) = <<c, d>>
    <3>1. Append(<<>>, d) = <<d>>
      OBVIOUS
    <3>2. Append(<<c>>, d) = <<c, d>>
      BY AppendOne
    <3>3. QED
      BY <3>1, <3>2
  <2>2. QED
    BY <1>1, <2>1
<1>7. \/ AtCommit(m, b).events = <<>>
      \/ /\ AtCommit(m, b).events = <<decided>>
         /\ decided \notin Present
      \/ /\ AtCommit(m, b).events = <<created, decided>>
         /\ {created, decided} \cap Present = {}
  BY <1>2, <1>4, <1>5, <1>6, Starts
<1>8. QED
  BY <1>1, <1>7 DEF created, decided

LEMMA CommitNothing ==
    ASSUME OutboxTypeOK, Commit(<<>>)
    PROVE  UNCHANGED outbox
<1>1. Range(<<>>) = {}
  BY DEF Range
<1>2. row' = row
  BY <1>1 DEF Commit, Inserted, OutboxTypeOK
<1>3. QED
  BY <1>2 DEF Commit, outbox

\* Each step of the customer service is a step of the outbox or none.
LEMMA StepIsOutboxStep ==
    OutboxInv /\ [Next]_vars => [OutboxNext]_outbox
<1> SUFFICES ASSUME OutboxInv, [Next]_vars PROVE [OutboxNext]_outbox
  OBVIOUS
<1>1. ASSUME NEW m \in Message, NEW b \in BOOLEAN, HandleMessage(m, b)
      PROVE  [OutboxNext]_outbox
  <2> DEFINE created == <<"ticket_created", TicketFor(m)>>
             decided == <<"decision_made", TicketFor(m)>>
  <2>1. TicketFor(m) \in Tickets /\ Commit(AtCommit(m, b).events)
    BY <1>1 DEF HandleMessage
  <2>2. CASE AtCommit(m, b).events = <<>>
    BY <2>1, <2>2, CommitNothing DEF OutboxInv
  <2>3. CASE AtCommit(m, b).events = <<decided>> /\ decided \in Events \ Present
    BY <2>1, <2>3 DEF OutboxNext, Produce
  <2>4. CASE /\ AtCommit(m, b).events = <<created, decided>>
             /\ {created, decided} \subseteq Events \ Present
    <3>1. created # decided
      OBVIOUS
    <3>2. QED
      BY <2>1, <2>4, <3>1 DEF OutboxNext, Produce
  <2>5. QED
    BY <2>1, <2>2, <2>3, <2>4, EventsOfMessage
<1>2. CASE \E m \in Message : AbandonMessage(m)
  BY <1>2 DEF AbandonMessage
<1>3. CASE \E o \in Orders : OrderPaid(o)
  BY <1>3 DEF OrderPaid
<1>4. CASE Deliver
  BY <1>4 DEF OutboxNext
<1>5. CASE UNCHANGED vars
  BY <1>5 DEF vars
<1>6. QED
  BY <1>1, <1>2, <1>3, <1>4, <1>5 DEF Next, Desk

\* The customer service implements the outbox: its messages only ever add
\* pending events, by one or two in a transaction, and never touch others.
THEOREM UsesOutbox == Spec => OutboxSpec
<1>1. Init => OutboxInit
  BY DEF Init
<1>2. OutboxInv /\ [Next]_vars => [OutboxNext]_outbox /\ OutboxInv'
  BY StepIsOutboxStep, StepKeeps
<1>3. QED
  BY <1>1, <1>2, InitHolds, PTL DEF Spec, OutboxSpec

\* What the outbox guarantees, it guarantees for the events of tickets too.
THEOREM TicketEventsDelivered ==
    Spec => [](DispatchedWasReceived /\ GaveUpAfterMax /\ AttemptsBounded)
BY UsesOutbox, Delivered, Patience, RetryingStops, PTL

-----------------------------------------------------------------------------
(* An event exists if and only if its ticket does.                         *)

Ticket == [intent : Intents, status : TicketStatus]

TicketInv ==
    /\ OutboxInv
    /\ TakenIsStored
    /\ "tickets" \in DOMAIN db /\ db.tickets \in Seq(Ticket)
    /\ EventsMatchTickets

HoldsTickets(s) == "db" \in DOMAIN s /\ "tickets" \in DOMAIN s.db

\* Carrying out actions leaves the tickets alone; concluding changes one.
LEMMA ActKeepsTickets ==
    ASSUME NEW s, HoldsTickets(s), NEW m
    PROVE  HoldsTickets(Act(s, m)) /\ Act(s, m).db.tickets = s.db.tickets
<1> DEFINE key == <<TicketFor(m), m.intent, m.subject>>
           made == <<m.intent, m.subject>>
           done == [s.db EXCEPT !.actions[key] = "completed",
                                !.made[made] = RowsMade(m, s.db.made[made])]
<1>1. \/ Act(s, m) = s
      \/ Act(s, m) = [s EXCEPT !.db = done]
      \/ Act(s, m) = [s EXCEPT !.db.actions[key] = "failed"]
  BY DEF Act
<1> HIDE DEF key, made
<1>2. DOMAIN done = DOMAIN s.db /\ done.tickets = s.db.tickets
  BY DEF HoldsTickets
<1>3. CASE Act(s, m) = [s EXCEPT !.db = done]
  <2> HIDE DEF done
  <2>1. QED
    BY <1>2, <1>3 DEF HoldsTickets
<1>4. CASE Act(s, m) = [s EXCEPT !.db.actions[key] = "failed"]
  BY <1>4 DEF HoldsTickets
<1>5. QED
  BY <1>1, <1>3, <1>4

LEMMA IntegrateKeepsTickets ==
    ASSUME NEW s, HoldsTickets(s), NEW m, NEW b
    PROVE  HoldsTickets(Integrate(s, m, b))
           /\ Integrate(s, m, b).db.tickets = s.db.tickets
<1> DEFINE key == WorkflowKey(m)
<1>1. \/ Integrate(s, m, b) = s
      \/ Integrate(s, m, b) =
            [s EXCEPT !.db.actions[key] = IF b THEN "completed" ELSE "failed"]
  BY DEF Integrate
<1> HIDE DEF key
<1>2. QED
  BY <1>1 DEF HoldsTickets

LEMMA ConcludeKeepsTickets ==
    ASSUME NEW s, HoldsTickets(s), s.db.tickets \in Seq(Ticket), NEW m,
           TicketFor(m) \in DOMAIN s.db.tickets
    PROVE  /\ HoldsTickets(Conclude(s, m))
           /\ Conclude(s, m).db.tickets \in Seq(Ticket)
           /\ DOMAIN Conclude(s, m).db.tickets = DOMAIN s.db.tickets
<1> DEFINE t == TicketFor(m)
           as == CASE ~m.complete -> "waiting_user"
                   [] m.complete /\ (\A k \in ActionsOf(m) :
                                        s.db.actions[k] = "completed") -> "resolved"
                   [] OTHER -> "processing"
           old == s.db.tickets
           new == [old EXCEPT ![t].status = as]
<1>1. as \in TicketStatus
  BY DEF TicketStatus
<1>2. Conclude(s, m) = [s EXCEPT !.db.tickets[t].status = as]
  BY DEF Conclude
<1> HIDE DEF t, as
<1>3. HoldsTickets(Conclude(s, m)) /\ Conclude(s, m).db.tickets = new
  BY <1>2 DEF HoldsTickets
<1>4. old[t] \in Ticket /\ [old[t] EXCEPT !.status = as] \in Ticket
  <2>1. old[t] \in Ticket
    BY DEF t
  <2>2. ASSUME NEW x \in Ticket, NEW y \in TicketStatus
        PROVE  [x EXCEPT !.status = y] \in Ticket
    BY DEF Ticket
  <2> HIDE DEF old
  <2>3. QED
    BY <1>1, <2>1, <2>2
<1>5. new \in Seq(Ticket) /\ DOMAIN new = DOMAIN old
  <2> DEFINE ticket == [old[t] EXCEPT !.status = as]
  <2>1. new = [old EXCEPT ![t] = ticket]
    OBVIOUS
  <2>2. t \in 1..Len(old)
    BY DEF t
  <2> HIDE DEF ticket, old
  <2>3. [old EXCEPT ![t] = ticket] \in Seq(Ticket)
    BY <1>4, <2>2, ExceptSeq DEF ticket, old
  <2>4. QED
    BY <2>1, <2>3
<1>6. QED
  BY <1>3, <1>5

\* The ticket a message continues is one that exists.
LEMMA NewestExists ==
    ASSUME NEW m, Reuses(m), db.tickets \in Seq(Ticket)
    PROVE  TicketFor(m) \in DOMAIN db.tickets
<1> DEFINE n == Len(db.tickets)
           ages == {n - t : t \in OpenTickets}
<1>1. n \in Nat /\ DOMAIN db.tickets = 1..n
  OBVIOUS
<1>2. OpenTickets \subseteq 1..n /\ OpenTickets # {}
  BY <1>1 DEF OpenTickets, Reuses
<1> HIDE DEF n
<1>3. ages \subseteq Nat /\ ages # {}
  <2>1. \A t \in OpenTickets : n - t \in Nat
    BY <1>1, <1>2
  <2>2. QED
    BY <1>2, <2>1
<1>4. PICK a \in ages : \A b \in ages : a <= b
  BY <1>3, LeastExists
<1>5. PICK t \in OpenTickets : a = n - t
  OBVIOUS
<1>6. \A u \in OpenTickets : u <= t
  <2> SUFFICES ASSUME NEW u \in OpenTickets PROVE u <= t
    OBVIOUS
  <2>1. n - t <= n - u
    BY <1>4, <1>5
  <2>2. QED
    BY <1>1, <1>2, <2>1
<1>7. Newest \in OpenTickets
  BY <1>6 DEF Newest
<1>8. QED
  BY <1>1, <1>2, <1>7 DEF TicketFor

\* What a message commits: nothing when it continues a ticket, since the
\* decision of that ticket exists; else a ticket and its two events.
LEMMA MessageEffect ==
    ASSUME TicketInv, NEW m \in Message, TicketFor(m) \in Tickets, NEW b
    PROVE  LET created == <<"ticket_created", TicketFor(m)>>
               decided == <<"decision_made", TicketFor(m)>>
               after == AtCommit(m, b)
           IN  \/ after.events = <<>> /\ after.db = db
               \/ /\ after.events = <<created, decided>>
                  /\ "tickets" \in DOMAIN after.db
                  /\ after.db.tickets \in Seq(Ticket)
                  /\ DOMAIN after.db.tickets =
                        DOMAIN db.tickets \cup {TicketFor(m)}
<1> USE DEF TicketInv
<1> DEFINE t == TicketFor(m)
           created == <<"ticket_created", t>>
           decided == <<"decision_made", t>>
           session == Handled(m, b)
<1>1. AtCommit(m, b) = IF decided \in Present THEN Begun(db)
                       ELSE [session EXCEPT !.events = Append(@, decided)]
  BY DEF AtCommit, Enqueue
<1>2. CASE decided \in Present
  BY <1>1, <1>2 DEF Begun
<1>3. CASE decided \notin Present
  <2>1. t \notin DOMAIN db.tickets /\ ~Reuses(m)
    BY <1>3, NewestExists DEF EventsMatchTickets
  <2>2. t = Len(db.tickets) + 1
    BY <2>1 DEF TicketFor
  <2>3. created \notin Present
    BY <2>1 DEF EventsMatchTickets
  <2> DEFINE first == [intent |-> m.intent, status |-> "processing"]
             new == [db EXCEPT !.tickets = Append(@, first)]
             start == [db |-> new, events |-> <<created>>]
  <2>4. EnsureTicket(m) = start
    <3>1. EnsureTicket(m) = [Begun(new) EXCEPT !.events = Append(@, created)]
      BY <2>1, <2>3 DEF EnsureTicket, Enqueue
    <3> HIDE DEF new, created
    <3>2. Append(<<>>, created) = <<created>>
      OBVIOUS
    <3>3. QED
      BY <3>1, <3>2 DEF Begun
  <2>5. /\ HoldsTickets(start) /\ IsSession(start)
        /\ start.db.tickets = Append(db.tickets, first)
    BY DEF HoldsTickets, IsSession
  <2>6. /\ Append(db.tickets, first) \in Seq(Ticket)
        /\ DOMAIN Append(db.tickets, first) = DOMAIN db.tickets \cup {t}
    <3>1. first \in Ticket
      BY DEF Message, Messages, Ticket, TicketStatus
    <3> HIDE DEF first, t
    <3>2. /\ Append(db.tickets, first) \in Seq(Ticket)
          /\ Len(Append(db.tickets, first)) = Len(db.tickets) + 1
      BY <3>1, AppendProperties
    <3>3. DOMAIN Append(db.tickets, first) = 1..(Len(db.tickets) + 1)
          /\ DOMAIN db.tickets = 1..Len(db.tickets) /\ Len(db.tickets) \in Nat
      BY <3>2
    <3>4. QED
      BY <2>2, <3>2, <3>3
  <2> DEFINE acted == Act(start, m)
             integrated == Integrate(acted, m, b)
  <2>7. session = Conclude(integrated, m)
    BY <2>4 DEF Handled
  <2> HIDE DEF first, start, t, created, decided, session
  <2>8. /\ HoldsTickets(integrated) /\ IsSession(integrated)
        /\ integrated.db.tickets = Append(db.tickets, first)
        /\ integrated.events = start.events
    <3>1. /\ HoldsTickets(acted) /\ IsSession(acted)
          /\ acted.db.tickets = start.db.tickets /\ acted.events = start.events
      BY <2>5, ActKeepsTickets, ActFlushesNothing
    <3> HIDE DEF acted
    <3>2. QED
      BY <2>5, <3>1, IntegrateKeepsTickets, IntegrateFlushesNothing
  <2> HIDE DEF integrated
  <2>9. /\ HoldsTickets(session) /\ IsSession(session)
        /\ session.db.tickets \in Seq(Ticket)
        /\ DOMAIN session.db.tickets = DOMAIN db.tickets \cup {t}
        /\ session.events = <<created>>
    <3>1. TicketFor(m) \in DOMAIN integrated.db.tickets
      BY <2>6, <2>8 DEF t
    <3>2. QED
      BY <2>6, <2>7, <2>8, <3>1, ConcludeKeepsTickets, ConcludeFlushesNothing
         DEF start
  <2>10. created \in Events /\ decided \in Events
    BY CustomerServiceAssumption DEF created, decided, t
  <2>11. /\ AtCommit(m, b).db = session.db
         /\ AtCommit(m, b).events = <<created, decided>>
    <3>1. AtCommit(m, b) = [session EXCEPT !.events = Append(@, decided)]
      BY <1>1, <1>3
    <3>2. Append(session.events, decided) = <<created, decided>>
      BY <2>9, <2>10, AppendOne
    <3>3. QED
      BY <2>9, <3>1, <3>2 DEF IsSession, HoldsTickets
  <2>12. QED
    BY <2>9, <2>11 DEF HoldsTickets, created, decided, t
<1>4. QED
  BY <1>2, <1>3

\* A message keeps events and tickets together.
LEMMA MessageKeepsTickets ==
    ASSUME TicketInv, OutboxInv', NEW m \in Message, NEW b \in BOOLEAN,
           HandleMessage(m, b)
    PROVE  TicketInv'
<1> USE DEF TicketInv
<1> DEFINE created == <<"ticket_created", TicketFor(m)>>
           decided == <<"decision_made", TicketFor(m)>>
           after == AtCommit(m, b)
<1>1. /\ TicketFor(m) \in Tickets /\ Commit(after.events) /\ db' = after.db
      /\ created \in Events /\ decided \in Events
  BY CustomerServiceAssumption DEF HandleMessage
<1>2. CASE after.events = <<>> /\ after.db = db
  <2>1. UNCHANGED outbox /\ db' = db
    BY <1>1, <1>2, CommitNothing DEF OutboxInv
  <2>2. QED
    BY <2>1 DEF outbox, TakenIsStored, EventsMatchTickets, Present
<1>3. CASE /\ after.events = <<created, decided>>
           /\ "tickets" \in DOMAIN after.db
           /\ after.db.tickets \in Seq(Ticket)
           /\ DOMAIN after.db.tickets = DOMAIN db.tickets \cup {TicketFor(m)}
  <2>1. Range(<<created, decided>>) = {created, decided}
    BY DEF Range
  <2>2. Present' = Present \cup {created, decided}
    <3>1. row' = Inserted(<<created, decided>>)
      BY <1>1, <1>3 DEF Commit
    <3>2. \A e \in Events : row'[e].status =
            IF e \in {created, decided} THEN "pending" ELSE row[e].status
      BY <2>1, <3>1 DEF Inserted
    <3> HIDE DEF created, decided
    <3>3. QED
      BY <1>1, <3>2 DEF Present
  <2>3. taken' = taken /\ received' = received
    BY <1>1 DEF Commit
  <2>4. TakenIsStored'
    BY <2>2, <2>3 DEF TakenIsStored
  <2>5. EventsMatchTickets'
    <3>1. DOMAIN db'.tickets = DOMAIN db.tickets \cup {TicketFor(m)}
      BY <1>1, <1>3
    <3>2. created[2] = TicketFor(m) /\ decided[2] = TicketFor(m)
      OBVIOUS
    <3>3. QED
      BY <2>2, <2>3, <3>1, <3>2 DEF EventsMatchTickets
  <2>6. QED
    BY <1>1, <1>3, <2>4, <2>5
<1>4. QED
  BY <1>1, <1>2, <1>3, MessageEffect

LEMMA InitTickets == Init => TicketInv
<1> SUFFICES ASSUME Init PROVE TicketInv
  OBVIOUS
<1>1. OutboxInv
  BY InitHolds DEF Init
<1>2. db.tickets = <<>> /\ "tickets" \in DOMAIN db
  BY DEF Init
<1>3. Present = {} /\ received = {} /\ \A d \in Drains : taken[d] = {}
  BY DEF Init, OutboxInit, Present, NoEvent
<1>4. QED
  BY <1>1, <1>2, <1>3 DEF TicketInv, TakenIsStored, EventsMatchTickets

LEMMA NextKeepsTickets == TicketInv /\ [Next]_vars => TicketInv'
<1> SUFFICES ASSUME TicketInv, [Next]_vars PROVE TicketInv'
  OBVIOUS
<1>1. OutboxInv'
  BY StepIsOutboxStep, StepKeeps DEF TicketInv
<1>2. CASE \E m \in Message, b \in BOOLEAN : HandleMessage(m, b)
  BY <1>1, <1>2, MessageKeepsTickets
<1>3. CASE Deliver /\ UNCHANGED desk
  <2>1. db' = db
    BY <1>3 DEF desk
  <2>2. Present' = Present /\ received' \subseteq received \cup Present
        /\ TakenIsStored'
    BY <1>3, DeliverMovesNone DEF TicketInv
  <2>3. QED
    BY <1>1, <2>1, <2>2 DEF TicketInv, EventsMatchTickets
<1>4. CASE UNCHANGED <<outbox, db>>
  BY <1>1, <1>4 DEF TicketInv, TakenIsStored, EventsMatchTickets, Present, outbox
<1>5. QED
  BY <1>2, <1>3, <1>4 DEF Next, Desk, AbandonMessage, OrderPaid, vars, desk

\* Every ticket has its two events, and every event, stored or received, is
\* of a ticket that was committed.  A message that continues a ticket finds
\* its decision stored and is rolled back whole, which is what keeps this.
THEOREM EventsForTickets == Spec => []EventsMatchTickets
<1>1. TicketInv => EventsMatchTickets
  BY DEF TicketInv
<1>2. QED
  BY <1>1, InitTickets, NextKeepsTickets, PTL DEF Spec

-----------------------------------------------------------------------------
(***************************************************************************)
(* A resolved ticket has been dealt with.  Only the first message of a     *)
(* ticket commits, so it is enough to follow that one: it starts from a    *)
(* ticket number without actions, and touches no other ticket.             *)
(***************************************************************************)
Subjects == Orders \cup Items \cup {"none"}
ActionKeys == Tickets \X (Intents \cup {"workflow"}) \X Subjects
MadeKeys == Intents \X Subjects
ActionStatus == {"none", "completed", "failed"}

\* The rows with an action, what it made, or the status of a ticket written.
RowsWith(rows, k, as, p, n) == [rows EXCEPT !.actions[k] = as, !.made[p] = n]
ActionWith(rows, k, as) == [rows EXCEPT !.actions[k] = as]
TicketWith(rows, t, as) == [rows EXCEPT !.tickets[t].status = as]

DiffersBy(after, rows, k, as, p, n) ==
    /\ after \in Db /\ after.tickets = rows.tickets
    /\ after.actions = [rows.actions EXCEPT ![k] = as]
    /\ after.made = [rows.made EXCEPT ![p] = n]

LEMMA RowsWritten ==
    ASSUME NEW rows \in Db, NEW k \in ActionKeys, NEW as \in ActionStatus,
           NEW p \in MadeKeys, NEW n \in Nat
    PROVE  DiffersBy(RowsWith(rows, k, as, p, n), rows, k, as, p, n)
<1> DEFINE after == RowsWith(rows, k, as, p, n)
           actions == [rows.actions EXCEPT ![k] = as]
           made == [rows.made EXCEPT ![p] = n]
<1>1. rows.actions \in [ActionKeys -> ActionStatus] /\ rows.made \in [MadeKeys -> Nat]
      /\ rows.tickets \in Seq(Ticket)
  BY DEF Db, ActionKeys, ActionStatus, MadeKeys, Subjects, Ticket
<1>2. after = [tickets |-> rows.tickets, actions |-> actions, made |-> made]
  <2>1. rows = [tickets |-> rows.tickets, actions |-> rows.actions, made |-> rows.made]
    BY DEF Db
  <2>2. after = [rows EXCEPT !.actions = actions, !.made = made]
    BY DEF RowsWith
  <2> HIDE DEF actions, made, after
  <2>3. QED
    BY <2>1, <2>2
<1>3. actions \in [ActionKeys -> ActionStatus] /\ made \in [MadeKeys -> Nat]
  BY <1>1
<1> HIDE DEF actions, made, after
<1>4. after \in Db
  BY <1>1, <1>2, <1>3 DEF Db, ActionKeys, ActionStatus, MadeKeys, Subjects, Ticket
<1>5. after.tickets = rows.tickets /\ after.actions = actions /\ after.made = made
  BY <1>2
<1>6. QED
  BY <1>4, <1>5 DEF DiffersBy, after, actions, made

LEMMA ActionWritten ==
    ASSUME NEW rows \in Db, NEW k \in ActionKeys, NEW as \in ActionStatus
    PROVE  LET after == ActionWith(rows, k, as)
           IN  /\ after \in Db /\ after.tickets = rows.tickets
               /\ after.actions = [rows.actions EXCEPT ![k] = as]
               /\ after.made = rows.made
<1> DEFINE after == ActionWith(rows, k, as)
           actions == [rows.actions EXCEPT ![k] = as]
<1>1. rows.actions \in [ActionKeys -> ActionStatus]
  BY DEF Db, ActionKeys, ActionStatus, Subjects
<1>2. after = [tickets |-> rows.tickets, actions |-> actions, made |-> rows.made]
  <2>1. rows = [tickets |-> rows.tickets, actions |-> rows.actions, made |-> rows.made]
    BY DEF Db
  <2>2. after = [rows EXCEPT !.actions = actions]
    BY DEF ActionWith
  <2> HIDE DEF actions, after
  <2>3. QED
    BY <2>1, <2>2
<1>3. actions \in [ActionKeys -> ActionStatus]
  BY <1>1
<1> HIDE DEF actions, after
<1>4. after \in Db
  BY <1>2, <1>3 DEF Db, ActionKeys, ActionStatus, Subjects
<1>5. after.tickets = rows.tickets /\ after.actions = actions /\ after.made = rows.made
  BY <1>2
<1>6. QED
  BY <1>4, <1>5 DEF after, actions

DiffersInTicket(after, rows, t, as) ==
    /\ after \in Db /\ after.actions = rows.actions
    /\ after.made = rows.made
    /\ DOMAIN after.tickets = DOMAIN rows.tickets
    /\ after.tickets[t].status = as
    /\ \A u \in DOMAIN rows.tickets :
          u # t => after.tickets[u] = rows.tickets[u]

LEMMA TicketWritten ==
    ASSUME NEW rows \in Db, NEW t \in DOMAIN rows.tickets, NEW as \in TicketStatus
    PROVE  DiffersInTicket(TicketWith(rows, t, as), rows, t, as)
<1> DEFINE after == TicketWith(rows, t, as)
           old == rows.tickets
           ticket == [old[t] EXCEPT !.status = as]
           tickets == [old EXCEPT ![t] = ticket]
<1>1. old \in Seq(Ticket) /\ t \in 1..Len(old)
  BY DEF Db, Ticket
<1>2. after = [tickets |-> tickets, actions |-> rows.actions, made |-> rows.made]
  <2>1. rows = [tickets |-> rows.tickets, actions |-> rows.actions, made |-> rows.made]
    BY DEF Db
  <2>2. after = [rows EXCEPT !.tickets = tickets]
    BY DEF TicketWith
  <2> HIDE DEF tickets, after
  <2>3. QED
    BY <2>1, <2>2
<1>3. ticket \in Ticket /\ ticket.status = as
  <2>1. ASSUME NEW x \in Ticket
        PROVE  [x EXCEPT !.status = as] \in Ticket /\ [x EXCEPT !.status = as].status = as
    BY DEF Ticket
  <2>2. old[t] \in Ticket
    BY <1>1
  <2> HIDE DEF old
  <2>3. QED
    BY <2>1, <2>2
<1> HIDE DEF ticket, after
<1>4. tickets \in Seq(Ticket)
  BY <1>1, <1>3, ExceptSeq
<1>5. /\ DOMAIN tickets = DOMAIN old /\ tickets[t] = ticket
      /\ \A u \in DOMAIN old : u # t => tickets[u] = old[u]
  BY <1>1
<1> HIDE DEF tickets, old
<1>6. after \in Db
  BY <1>2, <1>4 DEF Db, Ticket
<1>7. after.tickets = tickets /\ after.actions = rows.actions /\ after.made = rows.made
  BY <1>2
<1>8. QED
  BY <1>3, <1>5, <1>6, <1>7 DEF DiffersInTicket, after, old

\* execute_action touches the action of its ticket, intent and subject alone,
\* and one that is completed has made its row.
LEMMA ActEffect ==
    ASSUME NEW s, "db" \in DOMAIN s, s.db \in Db, NEW m \in Message,
           TicketFor(m) \in Tickets
    PROVE  LET key == <<TicketFor(m), m.intent, m.subject>>
               after == Act(s, m).db
           IN  /\ "db" \in DOMAIN Act(s, m) /\ after \in Db
               /\ after.tickets = s.db.tickets
               /\ \A k \in ActionKeys : k # key => after.actions[k] = s.db.actions[k]
               /\ ~m.complete \/ m.intent = "general" =>
                     after.actions = s.db.actions
               /\ \A p \in MadeKeys : s.db.made[p] > 0 => after.made[p] > 0
               /\ after.actions[key] = "completed" =>
                     \/ s.db.actions[key] = "completed"
                     \/ after.made[<<m.intent, m.subject>>] > 0
<1> DEFINE key == <<TicketFor(m), m.intent, m.subject>>
           made == <<m.intent, m.subject>>
           n == RowsMade(m, s.db.made[made])
           done == RowsWith(s.db, key, "completed", made, n)
           missed == ActionWith(s.db, key, "failed")
<1>1. key \in ActionKeys /\ made \in MadeKeys
  BY DEF Message, Messages, ActionKeys, MadeKeys, Subjects
<1>2. /\ s.db.made[made] \in Nat
      /\ s.db.actions \in [ActionKeys -> ActionStatus] /\ s.db.made \in [MadeKeys -> Nat]
  BY <1>1 DEF Db, MadeKeys, ActionKeys, ActionStatus, Subjects
<1>3. n \in Nat /\ n > 0
  BY <1>2 DEF RowsMade
<1>4. \/ Act(s, m) = s
      \/ /\ Act(s, m) = [s EXCEPT !.db = done]
         /\ m.complete /\ m.intent # "general"
      \/ /\ Act(s, m) = [s EXCEPT !.db.actions[key] = "failed"]
         /\ m.complete /\ m.intent # "general"
  BY DEF Act, RowsWith
<1> HIDE DEF key, made, n
<1>5. CASE Act(s, m) = s
  BY <1>5 DEF key
<1>6. CASE Act(s, m) = [s EXCEPT !.db = done] /\ m.complete /\ m.intent # "general"
  <2>1. /\ done \in Db /\ done.tickets = s.db.tickets
        /\ done.actions = [s.db.actions EXCEPT ![key] = "completed"]
        /\ done.made = [s.db.made EXCEPT ![made] = n]
    <3>1. "completed" \in ActionStatus
      BY DEF ActionStatus
    <3>2. DiffersBy(done, s.db, key, "completed", made, n)
      BY <1>1, <1>3, <3>1, RowsWritten
    <3> HIDE DEF done
    <3>3. QED
      BY <3>2 DEF DiffersBy
  <2> HIDE DEF done
  <2>2. "db" \in DOMAIN Act(s, m) /\ Act(s, m).db = done
    BY <1>6
  <2>3. /\ \A k \in ActionKeys : k # key => done.actions[k] = s.db.actions[k]
        /\ done.made[made] > 0
        /\ \A p \in MadeKeys : p # made => done.made[p] = s.db.made[p]
    BY <1>1, <1>2, <1>3, <2>1
  <2>4. \A p \in MadeKeys : s.db.made[p] > 0 => done.made[p] > 0
    BY <2>3
  <2>5. QED
    BY <1>6, <2>1, <2>2, <2>3, <2>4 DEF key, made
<1>7. CASE /\ Act(s, m) = [s EXCEPT !.db.actions[key] = "failed"]
           /\ m.complete /\ m.intent # "general"
  <2>1. /\ missed \in Db /\ missed.tickets = s.db.tickets
        /\ missed.actions = [s.db.actions EXCEPT ![key] = "failed"]
        /\ missed.made = s.db.made
    BY <1>1, ActionWritten DEF ActionStatus
  <2>2. Act(s, m) = [s EXCEPT !.db = missed]
    BY <1>7 DEF ActionWith
  <2> HIDE DEF missed
  <2>3. "db" \in DOMAIN Act(s, m) /\ Act(s, m).db = missed
    BY <2>2
  <2>4. /\ \A k \in ActionKeys : k # key => missed.actions[k] = s.db.actions[k]
        /\ missed.actions[key] = "failed"
    BY <1>1, <1>2, <2>1
  <2>5. QED
    BY <1>7, <2>1, <2>3, <2>4 DEF key, made
<1>8. QED
  BY <1>4, <1>5, <1>6, <1>7

\* Integrations touch the workflow action of the ticket alone, which is
\* completed only by a workflow that ran to its end.
LEMMA IntegrateEffect ==
    ASSUME NEW s, "db" \in DOMAIN s, s.db \in Db, NEW m, TicketFor(m) \in Tickets,
           NEW b \in BOOLEAN
    PROVE  LET key == WorkflowKey(m)
               after == Integrate(s, m, b).db
           IN  /\ "db" \in DOMAIN Integrate(s, m, b) /\ after \in Db
               /\ after.tickets = s.db.tickets /\ after.made = s.db.made
               /\ \A k \in ActionKeys : k # key => after.actions[k] = s.db.actions[k]
               /\ ~HasWorkflow => after.actions = s.db.actions
               /\ after.actions[key] = "completed" =>
                     s.db.actions[key] = "completed" \/ (b /\ HasWorkflow)
<1> DEFINE key == WorkflowKey(m)
           as == IF b THEN "completed" ELSE "failed"
           after == ActionWith(s.db, key, as)
<1>1. key \in ActionKeys /\ as \in ActionStatus
  BY DEF WorkflowKey, ActionKeys, Subjects, ActionStatus
<1>2. s.db.actions \in [ActionKeys -> ActionStatus]
  BY DEF Db, ActionKeys, ActionStatus, Subjects
<1>3. \/ Integrate(s, m, b) = s
      \/ Integrate(s, m, b) = [s EXCEPT !.db = after] /\ HasWorkflow
  BY DEF Integrate, RunsWorkflow, ActionWith
<1>4. as = "completed" => b
  OBVIOUS
<1>5. /\ after \in Db /\ after.tickets = s.db.tickets /\ after.made = s.db.made
      /\ after.actions = [s.db.actions EXCEPT ![key] = as]
  <2> HIDE DEF key, as
  <2>1. QED
    BY <1>1, ActionWritten
<1> HIDE DEF key, as, after
<1>6. CASE Integrate(s, m, b) = s
  BY <1>6 DEF key
<1>7. CASE Integrate(s, m, b) = [s EXCEPT !.db = after] /\ HasWorkflow
  <2>1. "db" \in DOMAIN Integrate(s, m, b) /\ Integrate(s, m, b).db = after
    BY <1>7
  <2>2. /\ \A k \in ActionKeys : k # key => after.actions[k] = s.db.actions[k]
        /\ after.actions[key] = as
    BY <1>1, <1>2, <1>5
  <2>3. QED
    BY <1>4, <1>5, <1>7, <2>1, <2>2 DEF key
<1>8. QED
  BY <1>3, <1>6, <1>7

\* The rows before the actions of a first message: its ticket has been added.
FirstRows(m) ==
    [db EXCEPT !.tickets = Append(@, [intent |-> m.intent, status |-> "processing"])]

LEMMA FirstMessage ==
    ASSUME TicketInv, NEW m \in Message, NEW b,
           <<"decision_made", TicketFor(m)>> \notin Present
    PROVE  /\ TicketFor(m) = Len(db.tickets) + 1
           /\ TicketFor(m) \notin DOMAIN db.tickets
           /\ "db" \in DOMAIN EnsureTicket(m) /\ EnsureTicket(m).db = FirstRows(m)
           /\ "db" \in DOMAIN Handled(m, b) =>
                 AtCommit(m, b).db = Handled(m, b).db
<1> DEFINE t == TicketFor(m)
           created == <<"ticket_created", t>>
           decided == <<"decision_made", t>>
<1>1. t \notin DOMAIN db.tickets /\ ~Reuses(m)
  BY NewestExists DEF EventsMatchTickets, TicketInv
<1>2. t = Len(db.tickets) + 1
  BY <1>1 DEF TicketFor
<1>3. created \notin Present
  BY <1>1 DEF EventsMatchTickets, TicketInv
<1>4. EnsureTicket(m) = [Begun(FirstRows(m)) EXCEPT !.events = Append(@, created)]
  BY <1>1, <1>3 DEF EnsureTicket, Enqueue, FirstRows
<1>5. "db" \in DOMAIN EnsureTicket(m) /\ EnsureTicket(m).db = FirstRows(m)
  <2> HIDE DEF created
  <2>1. QED
    BY <1>4 DEF Begun
<1>6. AtCommit(m, b) = [Handled(m, b) EXCEPT !.events = Append(@, decided)]
  BY DEF AtCommit, Enqueue
<1>7. "db" \in DOMAIN Handled(m, b) => AtCommit(m, b).db = Handled(m, b).db
  <2> HIDE DEF decided
  <2>1. QED
    BY <1>6
<1>8. QED
  BY <1>1, <1>2, <1>5, <1>7

\* A ticket number without a ticket has no actions.
Untouched ==
    \A k \in ActionKeys : k[1] \notin DOMAIN db.tickets => db.actions[k] = "none"

RowsInv ==
    /\ db \in Db /\ Len(db.tickets) <= MaxTickets
    /\ refundable \subseteq Orders /\ told \subseteq Orders
    /\ runs \in [Tickets -> 0 .. MaxRuns]
    /\ Untouched
    /\ ResolvedIsDone

\* What a first message commits.  Its ticket is resolved only if all of the
\* actions it has are completed; a completed one has made its row, or is that
\* of a workflow that ran.
LEMMA FirstMessageEffect ==
    ASSUME TicketInv, RowsInv, NEW m \in Message, TicketFor(m) \in Tickets,
           NEW b \in BOOLEAN, <<"decision_made", TicketFor(m)>> \notin Present
    PROVE  LET t == TicketFor(m)
               after == AtCommit(m, b).db
           IN  /\ after \in Db
               /\ t = Len(db.tickets) + 1 /\ t \notin DOMAIN db.tickets
               /\ DOMAIN after.tickets = DOMAIN db.tickets \cup {t}
               /\ \A u \in DOMAIN db.tickets : after.tickets[u] = db.tickets[u]
               /\ \A k \in ActionKeys : k[1] # t => after.actions[k] = db.actions[k]
               /\ \A p \in MadeKeys : db.made[p] > 0 => after.made[p] > 0
               /\ after.tickets[t].status = "resolved" =>
                     \A k \in ActionKeys : k[1] = t => after.actions[k] # "failed"
               /\ \A i \in Intents, s \in Subjects :
                     after.actions[<<t, i, s>>] = "completed" => after.made[<<i, s>>] > 0
               /\ after.actions[WorkflowKey(m)] = "completed" =>
                     b /\ RunsWorkflow(EnsureTicket(m), m)
<1> DEFINE t == TicketFor(m)
           key == <<t, m.intent, m.subject>>
           first == FirstRows(m)
           acted == Act(EnsureTicket(m), m)
           integrated == Integrate(acted, m, b)
           as == CASE ~m.complete -> "waiting_user"
                   [] m.complete /\ (\A k \in ActionsOf(m) :
                                        integrated.db.actions[k] = "completed") -> "resolved"
                   [] OTHER -> "processing"
           after == TicketWith(integrated.db, t, as)
<1>1. /\ t = Len(db.tickets) + 1 /\ t \notin DOMAIN db.tickets
      /\ "db" \in DOMAIN EnsureTicket(m) /\ EnsureTicket(m).db = first
      /\ "db" \in DOMAIN Handled(m, b) => AtCommit(m, b).db = Handled(m, b).db
  BY FirstMessage
<1>2. /\ first \in Db /\ first.actions = db.actions /\ first.made = db.made
      /\ DOMAIN first.tickets = DOMAIN db.tickets \cup {t}
      /\ \A u \in DOMAIN db.tickets : first.tickets[u] = db.tickets[u]
  <2> DEFINE new == [intent |-> m.intent, status |-> "processing"]
             tickets == Append(db.tickets, new)
  <2>1. db \in Db /\ db.tickets \in Seq(Ticket)
    BY DEF RowsInv, TicketInv
  <2>2. first = [tickets |-> tickets, actions |-> db.actions, made |-> db.made]
    <3>1. db = [tickets |-> db.tickets, actions |-> db.actions, made |-> db.made]
      BY <2>1 DEF Db
    <3>2. first = [db EXCEPT !.tickets = tickets]
      BY DEF FirstRows
    <3> HIDE DEF first, tickets
    <3>3. QED
      BY <3>1, <3>2
  <2>3. new \in Ticket
    BY DEF Message, Messages, Ticket, TicketStatus
  <2> HIDE DEF new
  <2>4. /\ tickets \in Seq(Ticket) /\ Len(tickets) = Len(db.tickets) + 1
        /\ \A u \in 1..Len(db.tickets) : tickets[u] = db.tickets[u]
    BY <2>1, <2>3, AppendProperties
  <2> HIDE DEF tickets
  <2>5. DOMAIN tickets = 1..(Len(db.tickets) + 1) /\ DOMAIN db.tickets = 1..Len(db.tickets)
        /\ Len(db.tickets) \in Nat
    BY <2>1, <2>4
  <2>6. DOMAIN tickets = DOMAIN db.tickets \cup {t}
    BY <1>1, <2>5
  <2>7. first \in Db
    BY <2>1, <2>2, <2>4 DEF Db, Ticket
  <2> HIDE DEF first
  <2>8. first.tickets = tickets /\ first.actions = db.actions /\ first.made = db.made
    BY <2>2
  <2>9. QED
    BY <2>4, <2>5, <2>6, <2>7, <2>8
<1> HIDE DEF first
<1>3. /\ "db" \in DOMAIN acted /\ acted.db \in Db
      /\ acted.db.tickets = first.tickets
      /\ \A k \in ActionKeys : k # key => acted.db.actions[k] = db.actions[k]
      /\ ~m.complete \/ m.intent = "general" => acted.db.actions = db.actions
      /\ \A p \in MadeKeys : db.made[p] > 0 => acted.db.made[p] > 0
      /\ acted.db.actions[key] = "completed" =>
            db.actions[key] = "completed" \/ acted.db.made[<<m.intent, m.subject>>] > 0
  BY <1>1, <1>2, ActEffect
<1> HIDE DEF acted
<1>4. /\ "db" \in DOMAIN integrated /\ integrated.db \in Db
      /\ integrated.db.tickets = first.tickets /\ integrated.db.made = acted.db.made
      /\ \A k \in ActionKeys :
            k # WorkflowKey(m) => integrated.db.actions[k] = acted.db.actions[k]
      /\ ~HasWorkflow => integrated.db.actions = acted.db.actions
      /\ integrated.db.actions[WorkflowKey(m)] = "completed" =>
            acted.db.actions[WorkflowKey(m)] = "completed" \/ (b /\ HasWorkflow)
  BY <1>3, IntegrateEffect
<1>5. as \in TicketStatus
      /\ (as = "resolved" => \A k \in ActionsOf(m) : integrated.db.actions[k] = "completed")
  BY DEF TicketStatus
<1>6. Handled(m, b) = [integrated EXCEPT !.db.tickets[t].status = as]
  BY DEF Handled, Conclude, acted
<1> HIDE DEF integrated, as
<1>7. "db" \in DOMAIN Handled(m, b) /\ Handled(m, b).db = after
  <2>1. Handled(m, b) = [integrated EXCEPT !.db = after]
    BY <1>6 DEF TicketWith
  <2> HIDE DEF after
  <2>2. QED
    BY <1>4, <2>1
<1>8. AtCommit(m, b).db = after
  BY <1>1, <1>7
<1>9. /\ after \in Db /\ after.actions = integrated.db.actions
      /\ after.made = integrated.db.made
      /\ DOMAIN after.tickets = DOMAIN first.tickets
      /\ after.tickets[t].status = as
      /\ \A u \in DOMAIN first.tickets : u # t => after.tickets[u] = first.tickets[u]
  <2>1. t \in DOMAIN integrated.db.tickets
    BY <1>2, <1>4
  <2> HIDE DEF t
  <2>2. DiffersInTicket(after, integrated.db, t, as)
    BY <1>4, <1>5, <2>1, TicketWritten
  <2> HIDE DEF after
  <2>3. QED
    BY <1>4, <2>2 DEF DiffersInTicket
<1> HIDE DEF after
<1>10. key \in ActionKeys /\ WorkflowKey(m) \in ActionKeys /\ WorkflowKey(m) # key
  BY DEF Message, Messages, ActionKeys, Subjects, WorkflowKey, Intents
<1>11. \A k \in ActionKeys : k[1] = t => db.actions[k] = "none"
  BY <1>1 DEF RowsInv, Untouched
<1>12. \A k \in ActionKeys :
          k \notin {key, WorkflowKey(m)} => after.actions[k] = db.actions[k]
  BY <1>3, <1>4, <1>9
<1>13. key[1] = t /\ WorkflowKey(m)[1] = t
  BY DEF WorkflowKey
<1>14. \A k \in ActionKeys : k[1] # t => after.actions[k] = db.actions[k]
  BY <1>12, <1>13
<1>15. after.actions[key] = "none" \/ key \in ActionsOf(m)
  BY <1>3, <1>4, <1>9, <1>10, <1>11, <1>13 DEF ActionsOf
<1>16. after.actions[WorkflowKey(m)] = "none" \/ WorkflowKey(m) \in ActionsOf(m)
  BY <1>3, <1>4, <1>9, <1>10, <1>11, <1>13 DEF ActionsOf
<1>17. ASSUME after.tickets[t].status = "resolved", NEW k \in ActionKeys, k[1] = t
       PROVE  after.actions[k] # "failed"
  <2>1. \A a \in ActionsOf(m) : after.actions[a] = "completed"
    BY <1>5, <1>9, <1>17
  <2>2. CASE k \notin {key, WorkflowKey(m)}
    BY <1>11, <1>12, <1>17, <2>2
  <2>3. CASE k \in {key, WorkflowKey(m)}
    BY <1>15, <1>16, <2>1, <2>3
  <2>4. QED
    BY <2>2, <2>3
<1>18. ASSUME NEW i \in Intents, NEW s \in Subjects,
              after.actions[<<t, i, s>>] = "completed"
       PROVE  after.made[<<i, s>>] > 0
  <2>1. <<t, i, s>> \in ActionKeys /\ <<t, i, s>>[1] = t
    BY DEF ActionKeys
  <2>2. <<t, i, s>> # WorkflowKey(m)
    BY DEF WorkflowKey, Intents
  <2>3. <<t, i, s>> = key
    BY <1>11, <1>12, <1>18, <2>1, <2>2
  <2>4. i = m.intent /\ s = m.subject
    BY <2>3
  <2>5. acted.db.actions[key] = "completed"
    BY <1>4, <1>9, <1>10, <1>18, <2>3
  <2>6. QED
    BY <1>3, <1>4, <1>9, <1>10, <1>11, <1>13, <2>4, <2>5
<1>19. after.actions[WorkflowKey(m)] = "completed" =>
           b /\ RunsWorkflow(EnsureTicket(m), m)
  BY <1>1, <1>2, <1>3, <1>4, <1>9, <1>10, <1>11, <1>13 DEF RunsWorkflow
<1>20. \A p \in MadeKeys : db.made[p] > 0 => after.made[p] > 0
  BY <1>3, <1>4, <1>9
<1>21. /\ DOMAIN after.tickets = DOMAIN db.tickets \cup {t}
       /\ \A u \in DOMAIN db.tickets : after.tickets[u] = db.tickets[u]
  BY <1>1, <1>2, <1>9
<1>22. QED
  BY <1>1, <1>8, <1>9, <1>14, <1>17, <1>18, <1>19, <1>20, <1>21

LEMMA MessageKeepsRows ==
    ASSUME TicketInv, RowsInv, NEW m \in Message, NEW b \in BOOLEAN,
           HandleMessage(m, b)
    PROVE  RowsInv'
<1> DEFINE t == TicketFor(m)
           after == AtCommit(m, b).db
           starts == b /\ RunsWorkflow(EnsureTicket(m), m)
<1>1. /\ t \in Tickets /\ db' = after /\ refundable' = refundable
      /\ runs' = IF starts THEN [runs EXCEPT ![t] = @ + 1] ELSE runs
      /\ starts => runs[t] < MaxRuns
  BY DEF HandleMessage
<1>2. told' \subseteq Orders
  <2>1. TellsRefund(m, Handled(m, b)) => m.subject \in Orders
    BY DEF TellsRefund, Message, SubjectsOf
  <2>2. QED
    BY <2>1 DEF RowsInv, HandleMessage
<1> HIDE DEF t, starts
<1>3. /\ runs' \in [Tickets -> 0 .. MaxRuns]
      /\ \A u \in Tickets : runs[u] > 0 => runs'[u] > 0
      /\ starts => runs'[t] > 0
  <2>1. runs \in [Tickets -> 0 .. MaxRuns] /\ MaxRuns \in Nat
    BY CustomerServiceAssumption DEF RowsInv
  <2>2. CASE starts
    <3>1. runs[t] + 1 \in 0 .. MaxRuns /\ runs[t] + 1 > 0
      BY <1>1, <2>1, <2>2
    <3>2. runs' = [runs EXCEPT ![t] = @ + 1]
      BY <1>1, <2>2
    <3>3. QED
      BY <1>1, <2>1, <3>1, <3>2
  <2>3. CASE ~starts
    BY <1>1, <2>1, <2>3
  <2>4. QED
    BY <2>2, <2>3
<1>4. db \in Db /\ db.tickets \in Seq(Ticket) /\ DOMAIN db.tickets = 1..Len(db.tickets)
      /\ Len(db.tickets) \in Nat /\ Len(db.tickets) <= MaxTickets
  BY DEF RowsInv, TicketInv
<1>5. /\ DOMAIN db.actions = ActionKeys
      /\ \A i \in Intents, s \in Orders \cup Items :
            s \in Subjects /\ <<i, s>> \in MadeKeys
      /\ DOMAIN db.tickets \subseteq Tickets
  <2>1. MaxTickets \in Nat
    BY CustomerServiceAssumption
  <2>2. QED
    BY <1>4, <2>1 DEF Db, ActionKeys, Subjects, MadeKeys, Tickets
<1>6. CASE <<"decision_made", t>> \in Present
  <2>1. after = db
    BY <1>6 DEF AtCommit, Enqueue, Begun, t
  <2>2. ResolvedIsDone'
    BY <1>1, <1>3, <1>5, <2>1 DEF RowsInv, ResolvedIsDone
  <2>3. QED
    BY <1>1, <1>2, <1>3, <2>1, <2>2 DEF RowsInv, Untouched
<1>7. CASE <<"decision_made", t>> \notin Present
  <2>1. /\ after \in Db
        /\ t = Len(db.tickets) + 1 /\ t \notin DOMAIN db.tickets
        /\ DOMAIN after.tickets = DOMAIN db.tickets \cup {t}
        /\ \A u \in DOMAIN db.tickets : after.tickets[u] = db.tickets[u]
        /\ \A k \in ActionKeys : k[1] # t => after.actions[k] = db.actions[k]
        /\ \A p \in MadeKeys : db.made[p] > 0 => after.made[p] > 0
        /\ after.tickets[t].status = "resolved" =>
              \A k \in ActionKeys : k[1] = t => after.actions[k] # "failed"
        /\ \A i \in Intents, s \in Subjects :
              after.actions[<<t, i, s>>] = "completed" => after.made[<<i, s>>] > 0
        /\ after.actions[WorkflowKey(m)] = "completed" => starts
    BY <1>1, <1>7, FirstMessageEffect DEF t, starts
  <2>2. WorkflowKey(m) = <<t, "workflow", "none">>
    BY DEF WorkflowKey, t
  <2> HIDE DEF after
  <2>3. Len(after.tickets) <= MaxTickets
    <3>1. Len(db.tickets) + 1 <= MaxTickets /\ MaxTickets \in Nat
      BY <1>1, <1>4, <2>1, CustomerServiceAssumption DEF Tickets
    <3>2. after.tickets \in Seq(Ticket)
      BY <2>1 DEF Db, Ticket
    <3>3. DOMAIN after.tickets = 1..Len(after.tickets) /\ Len(after.tickets) \in Nat
      BY <3>2
    <3>4. Len(after.tickets) = 0 \/ Len(after.tickets) \in DOMAIN after.tickets
      BY <3>3
    <3>5. Len(after.tickets) = 0 \/ Len(after.tickets) \in 1..Len(db.tickets)
          \/ Len(after.tickets) = Len(db.tickets) + 1
      BY <1>4, <2>1, <3>4
    <3>6. QED
      BY <1>4, <3>1, <3>3, <3>5
  <2>4. DOMAIN after.actions = ActionKeys
    BY <2>1 DEF Db, ActionKeys, Subjects
  <2>5. \A k \in ActionKeys : k[1] \notin DOMAIN after.tickets => after.actions[k] = "none"
    BY <2>1 DEF RowsInv, Untouched
  <2>6. ASSUME NEW u \in DOMAIN after.tickets, after.tickets[u].status = "resolved"
        PROVE  /\ \A k \in ActionKeys : k[1] = u => after.actions[k] # "failed"
               /\ \A i \in Intents, s \in Orders \cup Items :
                     after.actions[<<u, i, s>>] = "completed" => after.made[<<i, s>>] > 0
               /\ after.actions[<<u, "workflow", "none">>] = "completed" => runs'[u] > 0
    <3>1. CASE u = t
      BY <1>3, <1>5, <2>1, <2>2, <2>6, <3>1
    <3>2. CASE u # t
      <4>1. u \in DOMAIN db.tickets /\ db.tickets[u].status = "resolved" /\ u \in Tickets
        BY <1>5, <2>1, <2>6, <3>2
      <4>2. \A k \in ActionKeys : k[1] = u => after.actions[k] = db.actions[k]
        BY <2>1, <3>2
      <4>3. /\ \A k \in ActionKeys : k[1] = u => db.actions[k] # "failed"
            /\ \A i \in Intents, s \in Orders \cup Items :
                  db.actions[<<u, i, s>>] = "completed" => db.made[<<i, s>>] > 0
            /\ db.actions[<<u, "workflow", "none">>] = "completed" => runs[u] > 0
        BY <1>5, <4>1 DEF RowsInv, ResolvedIsDone
      <4>4. /\ \A i \in Intents, s \in Orders \cup Items : <<u, i, s>> \in ActionKeys
            /\ <<u, "workflow", "none">> \in ActionKeys
        BY <4>1 DEF ActionKeys, Subjects
      <4>5. /\ \A i \in Intents, s \in Orders \cup Items :
                  after.actions[<<u, i, s>>] = db.actions[<<u, i, s>>]
            /\ after.actions[<<u, "workflow", "none">>] =
                  db.actions[<<u, "workflow", "none">>]
        BY <4>2, <4>4
      <4>6. QED
        BY <1>3, <1>5, <2>1, <4>1, <4>2, <4>3, <4>5
    <3>3. QED
      BY <3>1, <3>2
  <2>7. ResolvedIsDone'
    BY <1>1, <2>4, <2>6 DEF ResolvedIsDone
  <2>8. Untouched'
    BY <1>1, <2>5 DEF Untouched
  <2>9. QED
    BY <1>1, <1>2, <1>3, <2>1, <2>3, <2>7, <2>8 DEF RowsInv
<1>8. QED
  BY <1>6, <1>7

LEMMA InitRows == Init => RowsInv
<1> SUFFICES ASSUME Init PROVE RowsInv
  OBVIOUS
<1>1. /\ db = [tickets |-> <<>>, actions |-> [k \in ActionKeys |-> "none"],
               made |-> [k \in MadeKeys |-> 0]]
      /\ refundable = {} /\ told = {} /\ runs = [t \in Tickets |-> 0]
  BY DEF Init, ActionKeys, MadeKeys, Subjects
<1>2. db \in Db /\ db.tickets = <<>>
  BY <1>1 DEF Db, ActionKeys, MadeKeys, Subjects
<1>3. Untouched
  BY <1>1 DEF Untouched
<1>4. ResolvedIsDone
  BY <1>2 DEF ResolvedIsDone
<1>5. runs \in [Tickets -> 0 .. MaxRuns] /\ Len(db.tickets) <= MaxTickets
  BY <1>1, <1>2, CustomerServiceAssumption
<1>6. QED
  BY <1>1, <1>2, <1>3, <1>4, <1>5 DEF RowsInv

LEMMA NextKeepsRows ==
    TicketInv /\ RowsInv /\ [Next]_vars => RowsInv'
<1> SUFFICES ASSUME TicketInv, RowsInv, [Next]_vars PROVE RowsInv'
  OBVIOUS
<1>1. CASE \E m \in Message, b \in BOOLEAN : HandleMessage(m, b)
  BY <1>1, MessageKeepsRows
<1>2. ASSUME NEW m \in Message, AbandonMessage(m)
      PROVE  RowsInv'
  <2>1. db' = db /\ refundable' = refundable /\ told' = told
    BY <1>2 DEF AbandonMessage
  <2>2. TicketFor(m) \in Tickets /\ runs[TicketFor(m)] < MaxRuns
        /\ runs' = [runs EXCEPT ![TicketFor(m)] = @ + 1]
    BY <1>2 DEF AbandonMessage
  <2>3. runs' \in [Tickets -> 0 .. MaxRuns] /\ \A u \in Tickets : runs[u] > 0 => runs'[u] > 0
    <3>1. runs \in [Tickets -> 0 .. MaxRuns] /\ MaxRuns \in Nat
      BY CustomerServiceAssumption DEF RowsInv
    <3>2. runs[TicketFor(m)] + 1 \in 0 .. MaxRuns /\ runs[TicketFor(m)] + 1 > 0
      BY <2>2, <3>1
    <3> DEFINE t == TicketFor(m)
    <3>3. t \in Tickets /\ runs' = [runs EXCEPT ![t] = @ + 1]
      BY <2>2
    <3> HIDE DEF t
    <3>4. QED
      BY <2>2, <3>1, <3>2, <3>3 DEF t
  <2>4. DOMAIN db.tickets \subseteq Tickets
    <3>1. db.tickets \in Seq(Ticket) /\ Len(db.tickets) <= MaxTickets
      BY DEF RowsInv, TicketInv
    <3>2. QED
      BY <3>1, CustomerServiceAssumption DEF Tickets
  <2>5. ResolvedIsDone'
    BY <2>1, <2>3, <2>4 DEF RowsInv, ResolvedIsDone
  <2>6. QED
    BY <2>1, <2>3, <2>5 DEF RowsInv, Untouched
<1>3. CASE \E o \in Orders : OrderPaid(o)
  BY <1>3 DEF OrderPaid, RowsInv, Untouched, ResolvedIsDone
<1>4. CASE UNCHANGED desk
  BY <1>4 DEF desk, RowsInv, Untouched, ResolvedIsDone
<1>5. QED
  BY <1>1, <1>2, <1>3, <1>4 DEF Next, Desk, vars

LEMMA RowsInvariant == Spec => [](TicketInv /\ RowsInv)
<1>1. Init => TicketInv /\ RowsInv
  BY InitTickets, InitRows
<1>2. TicketInv /\ RowsInv /\ [Next]_vars => (TicketInv /\ RowsInv)'
  BY NextKeepsTickets, NextKeepsRows
<1>3. QED
  BY <1>1, <1>2, PTL DEF Spec

\* The rows of the desk and of the outbox keep their types.
THEOREM DeskTypes == Spec => []TypeOK
<1>1. TicketInv /\ RowsInv => TypeOK
  BY DEF TicketInv, RowsInv, OutboxInv, TypeOK
<1>2. QED
  BY <1>1, RowsInvariant, PTL

\* A resolved ticket has been dealt with: no action of it failed, what it
\* completed has a row, and its workflow ran to its end.
THEOREM ResolvedTicketsDone == Spec => []ResolvedIsDone
<1>1. RowsInv => ResolvedIsDone
  BY DEF RowsInv
<1>2. QED
  BY <1>1, RowsInvariant, PTL
=============================================================================

-------------------------------- MODULE Outbox --------------------------------
(***************************************************************************)
(* The transactional outbox of the Python server (eventing/db_outbox.py):  *)
(* a table of events written in the transaction of their cause, and the    *)
(* drains that post pending rows to the business webhook.  Rows are not    *)
(* claimed, so the background worker, an administrator's replay and the    *)
(* replay script may work on the same row at once; each posts and marks    *)
(* from the copy it fetched.  Publishing to the in-process bus changes     *)
(* nothing kept here: an outbox event has only metrics subscribers.        *)
(***************************************************************************)
EXTENDS Integers, FiniteSets, Sequences, Functions

CONSTANTS
    Events,         \* event ids: name and aggregate
    Drains,         \* processes that drain the table
    Workers,        \* the drains that run on a timer; the others on replay
    MaxAttempts,    \* MODSTORE_OUTBOX_MAX_ATTEMPTS
    BatchSize,      \* limit of one fetch
    MaxReplays,     \* bound: replays asked for
    MaxCrashes,     \* bound: drains that die between two steps
    MaxSkips        \* bound: attempts of a row while no URL is configured

ASSUME OutboxAssumption ==
    /\ IsFiniteSet(Events)
    /\ IsFiniteSet(Drains)
    /\ Workers \subseteq Drains
    /\ MaxAttempts \in Nat \ {0}
    /\ BatchSize \in Nat \ {0}
    /\ MaxReplays \in Nat /\ MaxCrashes \in Nat
    /\ MaxSkips \in Nat

VARIABLES
    row,        \* event_outbox; status "none" where there is no row
    letters,    \* rows of event_outbox_dlq per event
    taken,      \* records each drain fetched and has not marked yet
    step,       \* what each drain does next
    answer,     \* what its last post came to
    count,      \* the attempts it read of the row to mark
    tried,      \* posts of each event
    received,   \* events the receiver has got at least once
    hasUrl,     \* MODSTORE_WEBHOOK_URL is set
    replays, crashes

outbox == <<row, letters, taken, step, answer, count, tried, received, hasUrl,
            replays, crashes>>

Row == [status : {"none", "pending", "dispatched", "failed"},
        attempts : Nat, id : Nat]
Record == [event : Events, attempts : Nat, id : Nat]
Answers == {"none", "ok", "failed", "skipped"}

NoEvent == [status |-> "none", attempts |-> 0, id |-> 0]
Present == {e \in Events : row[e].status # "none"}
Pending == {e \in Events : row[e].status = "pending"}

OutboxInit ==
    /\ row = [e \in Events |-> NoEvent]
    /\ letters = [e \in Events |-> 0]
    /\ taken = [d \in Drains |-> {}]
    /\ step = [d \in Drains |-> "idle"]
    /\ answer = [d \in Drains |-> "none"]
    /\ count = [d \in Drains |-> 0]
    /\ tried = [e \in Events |-> 0]
    /\ received = {}
    /\ hasUrl \in BOOLEAN
    /\ replays = 0
    /\ crashes = 0

-----------------------------------------------------------------------------
(* A session: the writes a transaction has made and the events it has      *)
(* flushed.  enqueue adds an event to it; the unique index on event_id     *)
(* makes it roll the whole session back when the event exists already, and *)
(* the caller goes on with an empty one.                                   *)

Begun(db) == [db |-> db, events |-> <<>>]
\* A mutant that writes over an event that exists.
Upsert(db, session, e) == [session EXCEPT !.events = Append(@, e)]

Enqueue(db, session, e) ==
    IF e \in Present THEN Begun(db)
    ELSE [session EXCEPT !.events = Append(@, e)]

\* The rows once a session with these new events has committed.
Inserted(events) ==
    [e \in Events |->
        IF e \in Range(events)
        THEN [status |-> "pending", attempts |-> 0,
              id |-> Cardinality(Present)
                     + (CHOOSE i \in DOMAIN events : events[i] = e)]
        ELSE row[e]]

Commit(events) ==
    /\ row' = Inserted(events)
    /\ UNCHANGED <<letters, taken, step, answer, count, tried, received, hasUrl,
                   replays, crashes>>

-----------------------------------------------------------------------------
(* Drains.                                                                 *)

\* A mutant that never fetches again what has failed once.
BatchOfNew ==
    {[event |-> e, attempts |-> 0, id |-> row[e].id] :
        e \in {f \in Pending : row[f].attempts = 0}}

\* The first BatchSize pending rows by id.
Batch ==
    {[event |-> e, attempts |-> row[e].attempts, id |-> row[e].id] :
        e \in {f \in Pending :
                Cardinality({g \in Pending : row[g].id < row[f].id})
                    < BatchSize}}

Current(d) == CHOOSE r \in taken[d] : \A s \in taken[d] : r.id <= s.id

Fetch(d) ==
    /\ \/ step[d] = "fetch"
       \/ step[d] = "idle" /\ d \in Workers /\ Pending # {}
    /\ taken' = [taken EXCEPT ![d] = Batch]
    /\ step' = [step EXCEPT ![d] = IF Batch = {} THEN "idle" ELSE "post"]
    /\ UNCHANGED <<row, letters, answer, count, tried, received, hasUrl, replays,
                   crashes>>

\* dispatch_event never raises: it answers skipped without a URL, and failed
\* for an answer that did not come, whether or not the receiver got the post.
\* mark_failed then reads the row without a lock; until it writes, other
\* drains may count too.
Post(d, a, arrives) ==
    /\ step[d] = "post"
    /\ IF hasUrl THEN a \in {"ok", "failed"} /\ (a = "ok" => arrives)
       ELSE /\ a = "skipped" /\ ~arrives
            /\ row[Current(d).event].attempts < MaxSkips
    /\ received' = IF arrives THEN received \cup {Current(d).event}
                   ELSE received
    /\ tried' = [tried EXCEPT ![Current(d).event] = @ + 1]
    /\ count' = [count EXCEPT ![d] = row[Current(d).event].attempts]
    /\ answer' = [answer EXCEPT ![d] = a]
    /\ step' = [step EXCEPT ![d] = "mark"]
    /\ UNCHANGED <<row, letters, taken, hasUrl, replays, crashes>>

\* A mutant that gives up one attempt early.
TerminalEarly(r, a) == a # "skipped" /\ r.attempts + 2 >= MaxAttempts

\* A mutant that compares before it counts.
TerminalLate(r, a) == a # "skipped" /\ r.attempts > MaxAttempts

\* A delivery is given up when the attempts, as fetched, are used up.
Terminal(r, a) == a # "skipped" /\ r.attempts + 1 >= MaxAttempts

MarkDispatched(e) ==
    /\ row' = [row EXCEPT ![e].status = "dispatched"]
    /\ UNCHANGED letters

\* A mutant that stores a status the queries do not know.
MarkFailedAsError(e, read, terminal) ==
    /\ row' = [row EXCEPT ![e].status = "error"]
    /\ UNCHANGED letters

MarkFailed(e, read, terminal) ==
    /\ row' = [row EXCEPT ![e] =
                    [status |-> IF terminal THEN "failed" ELSE @.status,
                     attempts |-> read + 1, id |-> @.id]]
    /\ letters' = [letters EXCEPT ![e] = IF terminal THEN @ + 1 ELSE @]

\* A mutant that takes a skipped post for a delivery.
MarkUnlessFailed(d) ==
    LET r == Current(d) IN
    /\ step[d] = "mark"
    /\ IF answer[d] # "failed" THEN MarkDispatched(r.event)
       ELSE MarkFailed(r.event, count[d], Terminal(r, answer[d]))
    /\ taken' = [taken EXCEPT ![d] = @ \ {r}]
    /\ step' = [step EXCEPT ![d] = IF taken[d] = {r} THEN "idle" ELSE "post"]
    /\ answer' = [answer EXCEPT ![d] = "none"]
    /\ count' = [count EXCEPT ![d] = 0]
    /\ UNCHANGED <<tried, received, hasUrl, replays, crashes>>

Mark(d) ==
    LET r == Current(d) IN
    /\ step[d] = "mark"
    /\ IF answer[d] = "ok" THEN MarkDispatched(r.event)
       ELSE MarkFailed(r.event, count[d], Terminal(r, answer[d]))
    /\ taken' = [taken EXCEPT ![d] = @ \ {r}]
    /\ step' = [step EXCEPT ![d] = IF taken[d] = {r} THEN "idle" ELSE "post"]
    /\ answer' = [answer EXCEPT ![d] = "none"]
    /\ count' = [count EXCEPT ![d] = 0]
    /\ UNCHANGED <<tried, received, hasUrl, replays, crashes>>

\* Replay marks the matching rows pending whatever they were, keeps their
\* attempts, and drains.
Replay(d, es) ==
    /\ d \in Drains \ Workers /\ step[d] = "idle"
    /\ replays < MaxReplays
    /\ es \subseteq Present
    /\ row' = [e \in Events |->
                IF e \in es THEN [row[e] EXCEPT !.status = "pending"]
                ELSE row[e]]
    /\ step' = [step EXCEPT ![d] = "fetch"]
    /\ replays' = replays + 1
    /\ UNCHANGED <<letters, taken, answer, count, tried, received, hasUrl,
                   crashes>>

Discard(e) ==
    /\ letters[e] > 0
    /\ letters' = [letters EXCEPT ![e] = @ - 1]
    /\ UNCHANGED <<row, taken, step, answer, count, tried, received, hasUrl,
                   replays, crashes>>

\* A drain dies; what it fetched is forgotten, and the table keeps the rest.
Crash(d) ==
    /\ step[d] # "idle" /\ crashes < MaxCrashes
    /\ taken' = [taken EXCEPT ![d] = {}]
    /\ step' = [step EXCEPT ![d] = "idle"]
    /\ answer' = [answer EXCEPT ![d] = "none"]
    /\ count' = [count EXCEPT ![d] = 0]
    /\ crashes' = crashes + 1
    /\ UNCHANGED <<row, letters, tried, received, hasUrl, replays>>

\* The URL is configured and every process restarted.
Configure ==
    /\ ~hasUrl
    /\ hasUrl' = TRUE
    /\ taken' = [d \in Drains |-> {}]
    /\ step' = [d \in Drains |-> "idle"]
    /\ answer' = [d \in Drains |-> "none"]
    /\ count' = [d \in Drains |-> 0]
    /\ UNCHANGED <<row, letters, tried, received, replays, crashes>>

Drain(d) ==
    \/ Fetch(d)
    \/ \E a \in Answers, arrives \in BOOLEAN : Post(d, a, arrives)
    \/ Mark(d)

Deliver ==
    \/ \E d \in Drains : Drain(d) \/ Crash(d)
    \/ \E d \in Drains, es \in SUBSET Events : Replay(d, es)
    \/ \E e \in Events : Discard(e)
    \/ Configure

\* Some producer commits a transaction with one new event, or two.
Produce ==
    \E e, f \in Events \ Present : Commit(IF e = f THEN <<e>> ELSE <<e, f>>)

OutboxNext == Produce \/ Deliver
OutboxSpec == OutboxInit /\ [][OutboxNext]_outbox

DrainFairness == \A d \in Drains : WF_outbox(Drain(d))
FairOutbox == OutboxSpec /\ DrainFairness

-----------------------------------------------------------------------------
(* Properties.                                                             *)

OutboxTypeOK ==
    /\ row \in [Events -> Row]
    /\ letters \in [Events -> Nat]
    /\ taken \in [Drains -> SUBSET Record]
    /\ step \in [Drains -> {"idle", "fetch", "post", "mark"}]
    /\ answer \in [Drains -> Answers]
    /\ count \in [Drains -> Nat]
    /\ tried \in [Events -> Nat]
    /\ received \subseteq Events
    /\ hasUrl \in BOOLEAN
    /\ replays \in Nat /\ crashes \in Nat

\* An event recorded as dispatched has reached the receiver, whichever of
\* several drains recorded it (mark_dispatched is a blind write by id).
DispatchedWasReceived ==
    \A e \in Events : row[e].status = "dispatched" => e \in received

\* An event is only given up, and put among the dead letters, after as many
\* attempts as are allowed, although drain decides from the count it fetched,
\* and other drains count at the same time and lose counts to each other.
GaveUpAfterMax ==
    \A e \in Events : row[e].status = "failed" \/ letters[e] > 0
                         => tried[e] >= MaxAttempts

\* Retrying stops.  With one worker, as the deployment runs it, a replay adds
\* at most two attempts to the allowed ones, however many replays work beside
\* the worker on the same rows, and however they lose counts to each other.
\* Attempts made without a URL use up the same allowance.  (With three workers
\* a count that is lost can start the retrying of an event anew.)
AttemptsBounded ==
    MaxSkips < MaxAttempts /\ Cardinality(Workers) <= 1 =>
        \A e \in Events : row[e].attempts <= MaxAttempts + 2 * replays

\* With a URL, a pending event does not stay pending: it is dispatched or
\* given up, also behind a batch of others that fail, after a drain died and
\* after a replay.
EventSettles ==
    \A e \in Events :
        (row[e].status = "pending" /\ hasUrl) ~> row[e].status # "pending"
=============================================================================

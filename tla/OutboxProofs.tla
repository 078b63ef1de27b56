----------------------------- MODULE OutboxProofs -----------------------------
(***************************************************************************)
(* The safety of the outbox, for any events, drains and bounds: what is    *)
(* marked dispatched was received, and what is given up was tried often    *)
(* enough, although drains share rows and lose each other's counts.        *)
(***************************************************************************)
EXTENDS Outbox, WellFoundedInduction, FiniteSetTheorems, TLAPS

\* No count is above the number of posts: neither the row's, nor one that a
\* drain fetched, nor the one it is about to raise, which is below it.
CountsWereTried ==
    /\ \A e \in Events : row[e].attempts <= tried[e]
    /\ \A d \in Drains : \A r \in taken[d] : r.attempts <= tried[r.event]

\* A drain that is about to mark has posted the event it marks.
MarksFollowPosts ==
    \A d \in Drains :
        /\ step[d] \in {"post", "mark"} => taken[d] # {}
        /\ step[d] = "mark" =>
              /\ answer[d] = "ok" => Current(d).event \in received
              /\ Current(d).attempts < tried[Current(d).event]
              /\ count[d] < tried[Current(d).event]

OutboxInv ==
    /\ OutboxTypeOK
    /\ DispatchedWasReceived
    /\ GaveUpAfterMax
    /\ CountsWereTried
    /\ MarksFollowPosts

-----------------------------------------------------------------------------
\* A set of numbers that is not empty has a least one.
LEMMA LeastExists ==
    ASSUME NEW S, S \subseteq Nat, S # {}
    PROVE  \E i \in S : \A j \in S : i <= j
<1> DEFINE less == {p \in Nat \X Nat : p[1] < p[2]}
<1>1. PICK i \in S : \A j \in S : ~(<<j, i>> \in less)
  <2>1. IsWellFoundedOn(less, Nat)
    BY NatLessThanWellFounded DEF OpToRel
  <2>2. QED
    BY <2>1, WFMin
<1>2. ASSUME NEW j \in S PROVE i <= j
  <2> DEFINE p == <<j, i>>
  <2>1. p \in Nat \X Nat /\ p[1] = j /\ p[2] = i
    OBVIOUS
  <2> HIDE DEF p
  <2>2. j < i => p \in less
    BY <2>1
  <2>3. QED
    BY <1>1, <2>2 DEF p
<1>3. QED
  BY <1>2

\* Of the records a drain holds, one has the least id.
LEMMA CurrentIsTaken ==
    ASSUME NEW d \in Drains, taken[d] \subseteq Record, taken[d] # {}
    PROVE  Current(d) \in taken[d]
<1> DEFINE ids == {r.id : r \in taken[d]}
<1>1. ids \subseteq Nat /\ ids # {}
  BY DEF Record
<1>2. PICK i \in ids : \A j \in ids : i <= j
  BY <1>1, LeastExists
<1>3. PICK r \in taken[d] : r.id = i
  OBVIOUS
<1>4. \A s \in taken[d] : r.id <= s.id
  BY <1>2, <1>3
<1>5. QED
  BY <1>4 DEF Current

\* It depends on nothing but those records.
LEMMA CurrentStays ==
    ASSUME NEW d \in Drains, taken'[d] = taken[d]
    PROVE  Current(d)' = Current(d)
BY DEF Current

-----------------------------------------------------------------------------
\* A transaction adds pending rows without attempts and leaves the others.
LEMMA InsertedRows ==
    ASSUME OutboxTypeOK, NEW events \in Seq(Events)
    PROVE  /\ Inserted(events) \in [Events -> Row]
           /\ \A e \in Events :
                 \/ Inserted(events)[e] = row[e]
                 \/ /\ Inserted(events)[e].status = "pending"
                    /\ Inserted(events)[e].attempts = 0
<1>1. Cardinality(Present) \in Nat
  BY FS_Subset, FS_CardinalityType, OutboxAssumption DEF Present
<1>2. ASSUME NEW e \in Events, e \in Range(events)
      PROVE  (CHOOSE i \in DOMAIN events : events[i] = e) \in Nat
  <2>1. \E i \in DOMAIN events : events[i] = e
    BY <1>2 DEF Range
  <2>2. DOMAIN events \subseteq Nat
    OBVIOUS
  <2>3. QED
    BY <2>1, <2>2
<1>3. ASSUME NEW e \in Events
      PROVE  /\ Inserted(events)[e] \in Row
             /\ \/ Inserted(events)[e] = row[e]
                \/ /\ Inserted(events)[e].status = "pending"
                   /\ Inserted(events)[e].attempts = 0
  <2> DEFINE id == Cardinality(Present)
                   + (CHOOSE i \in DOMAIN events : events[i] = e)
             new == [status |-> "pending", attempts |-> 0, id |-> id]
  <2>1. Inserted(events)[e] = IF e \in Range(events) THEN new ELSE row[e]
    BY DEF Inserted
  <2>2. e \in Range(events) => id \in Nat
    BY <1>1, <1>2
  <2> HIDE DEF id
  <2>3. QED
    BY <2>1, <2>2 DEF OutboxTypeOK, Row
<1>4. Inserted(events) = [e \in Events |-> Inserted(events)[e]]
  BY DEF Inserted
<1>5. QED
  BY <1>3, <1>4

\* A transaction keeps the invariant.
LEMMA CommitKeeps ==
    ASSUME OutboxInv, NEW events \in Seq(Events), Commit(events)
    PROVE  OutboxInv'
<1> USE DEF OutboxInv
<1>1. /\ row' \in [Events -> Row]
      /\ \A e \in Events :
            row'[e] = row[e] \/ (row'[e].status = "pending" /\ row'[e].attempts = 0)
  BY InsertedRows DEF Commit
<1>2. OutboxTypeOK'
  BY <1>1 DEF OutboxTypeOK, Commit
<1>3. DispatchedWasReceived' /\ GaveUpAfterMax'
  BY <1>1 DEF DispatchedWasReceived, GaveUpAfterMax, Commit
<1>4. CountsWereTried'
  <2>1. UNCHANGED <<taken, tried>> /\ \A e \in Events : tried[e] \in Nat
    BY DEF Commit, OutboxTypeOK
  <2>2. \A e \in Events : row'[e].attempts <= tried[e]
    BY <1>1, <2>1 DEF CountsWereTried
  <2>3. QED
    BY <2>1, <2>2 DEF CountsWereTried
<1>5. MarksFollowPosts'
  <2>1. \A d \in Drains : Current(d)' = Current(d)
    BY CurrentStays DEF Commit
  <2>2. QED
    BY <2>1 DEF MarksFollowPosts, Commit
<1>6. QED
  BY <1>2, <1>3, <1>4, <1>5

\* A fetched record has the count of its row.
LEMMA FetchKeeps ==
    ASSUME OutboxInv, NEW d \in Drains, Fetch(d)
    PROVE  OutboxInv'
<1> USE DEF OutboxInv
<1>1. /\ Batch \subseteq Record
      /\ \A r \in Batch : r.attempts <= tried[r.event]
  <2>1. ASSUME NEW r \in Batch
        PROVE  r \in Record /\ r.attempts <= tried[r.event]
    <3>1. PICK e \in Events :
              r = [event |-> e, attempts |-> row[e].attempts, id |-> row[e].id]
      BY DEF Batch, Pending
    <3>2. row[e].attempts \in Nat /\ row[e].id \in Nat
      BY DEF OutboxTypeOK, Row
    <3>3. QED
      BY <3>1, <3>2 DEF Record, CountsWereTried
  <2>2. QED
    BY <2>1
<1>2. /\ step' = [step EXCEPT ![d] = IF Batch = {} THEN "idle" ELSE "post"]
      /\ taken' = [taken EXCEPT ![d] = Batch]
      /\ UNCHANGED <<row, letters, answer, count, tried, received, hasUrl,
                     replays, crashes>>
  BY DEF Fetch
<1>3. OutboxTypeOK'
  BY <1>1, <1>2 DEF OutboxTypeOK
<1>4. DispatchedWasReceived' /\ GaveUpAfterMax'
  BY <1>2 DEF DispatchedWasReceived, GaveUpAfterMax
<1>5. CountsWereTried'
  BY <1>1, <1>2 DEF CountsWereTried, OutboxTypeOK
<1>6. MarksFollowPosts'
  <2>1. \A b \in Drains \ {d} : taken'[b] = taken[b] /\ Current(b)' = Current(b)
    BY <1>2, CurrentStays DEF OutboxTypeOK
  <2>2. QED
    BY <1>2, <2>1 DEF MarksFollowPosts, OutboxTypeOK
<1>7. QED
  BY <1>3, <1>4, <1>5, <1>6

\* What was read before a post is below the number of posts after it.
LEMMA PostKeeps ==
    ASSUME OutboxInv, NEW d \in Drains, NEW a \in Answers,
           NEW arrives \in BOOLEAN, Post(d, a, arrives)
    PROVE  OutboxInv'
<1> USE DEF OutboxInv
<1> DEFINE e == Current(d).event
<1>1. Current(d) \in taken[d] /\ Current(d) \in Record /\ e \in Events
  <2>1. Current(d) \in taken[d]
    BY CurrentIsTaken DEF MarksFollowPosts, Post, OutboxTypeOK
  <2>2. QED
    BY <2>1 DEF OutboxTypeOK, Record
<1>2. /\ tried' = [tried EXCEPT ![e] = @ + 1]
      /\ count' = [count EXCEPT ![d] = row[e].attempts]
      /\ answer' = [answer EXCEPT ![d] = a]
      /\ step' = [step EXCEPT ![d] = "mark"]
      /\ received' \in SUBSET Events /\ received \subseteq received'
      /\ a = "ok" => e \in received'
      /\ UNCHANGED <<row, letters, taken, hasUrl, replays, crashes>>
  BY <1>1 DEF Post, OutboxTypeOK
<1> HIDE DEF e
<1>3. OutboxTypeOK'
  BY <1>1, <1>2 DEF OutboxTypeOK, Row
<1>4. /\ \A f \in Events : tried'[f] \in Nat /\ tried'[f] >= tried[f]
      /\ tried'[e] = tried[e] + 1
  BY <1>1, <1>2 DEF OutboxTypeOK
<1>5. DispatchedWasReceived'
  BY <1>2 DEF DispatchedWasReceived
<1>6. GaveUpAfterMax'
  BY <1>2, <1>4, OutboxAssumption DEF GaveUpAfterMax, OutboxTypeOK
<1>7. CountsWereTried'
  BY <1>2, <1>4 DEF CountsWereTried, OutboxTypeOK, Row, Record
<1>8. MarksFollowPosts'
  <2>1. \A b \in Drains : taken'[b] = taken[b] /\ Current(b)' = Current(b)
    BY <1>2, CurrentStays
  <2>2. ASSUME NEW b \in Drains, b # d, step'[b] = "mark"
        PROVE  /\ answer'[b] = "ok" => Current(b)'.event \in received'
               /\ Current(b)'.attempts < tried'[Current(b)'.event]
               /\ count'[b] < tried'[Current(b)'.event]
    <3>1. step[b] = "mark" /\ answer'[b] = answer[b] /\ count'[b] = count[b]
      BY <1>2, <2>2 DEF OutboxTypeOK
    <3>2. Current(b) \in Record
      BY <3>1, CurrentIsTaken DEF MarksFollowPosts, OutboxTypeOK
    <3>3. QED
      BY <1>2, <1>4, <2>1, <3>1, <3>2 DEF MarksFollowPosts, OutboxTypeOK, Record
  <2>3. /\ answer'[d] = "ok" => Current(d)'.event \in received'
        /\ Current(d)'.attempts < tried'[Current(d)'.event]
        /\ count'[d] < tried'[Current(d)'.event]
    <3>1. Current(d).attempts <= tried[e] /\ row[e].attempts <= tried[e]
      BY <1>1 DEF CountsWereTried, e
    <3>2. Current(d)' = Current(d) /\ Current(d)'.event = e
      BY <2>1 DEF e
    <3>3. answer'[d] = a /\ count'[d] = row[e].attempts
      BY <1>2 DEF OutboxTypeOK
    <3>4. QED
      BY <1>1, <1>2, <1>4, <3>1, <3>2, <3>3 DEF OutboxTypeOK, Row, Record
  <2>4. \A b \in Drains : step'[b] \in {"post", "mark"} => taken'[b] # {}
    BY <1>2, <2>1 DEF MarksFollowPosts, OutboxTypeOK, Post
  <2>5. QED
    BY <2>2, <2>3, <2>4 DEF MarksFollowPosts
<1>9. QED
  BY <1>3, <1>5, <1>6, <1>7, <1>8

\* Marking gives up only what was tried often enough, and writes a count
\* that was tried, whatever other drains have written since it was read.
LEMMA MarkKeeps ==
    ASSUME OutboxInv, NEW d \in Drains, Mark(d)
    PROVE  OutboxInv'
<1> USE DEF OutboxInv
<1> DEFINE r == Current(d)
           e == r.event
           terminal == Terminal(r, answer[d])
<1>1. /\ r \in taken[d] /\ r \in Record /\ e \in Events
      /\ r.attempts < tried[e] /\ count[d] < tried[e]
      /\ answer[d] = "ok" => e \in received
  <2>1. step[d] = "mark"
    BY DEF Mark
  <2>2. r \in taken[d]
    BY <2>1, CurrentIsTaken DEF MarksFollowPosts, OutboxTypeOK
  <2>3. QED
    BY <2>1, <2>2 DEF MarksFollowPosts, OutboxTypeOK, Record
<1>2. /\ IF answer[d] = "ok" THEN MarkDispatched(e)
         ELSE MarkFailed(e, count[d], terminal)
      /\ taken' = [taken EXCEPT ![d] = @ \ {r}]
      /\ step' = [step EXCEPT ![d] = IF taken[d] = {r} THEN "idle" ELSE "post"]
      /\ answer' = [answer EXCEPT ![d] = "none"]
      /\ count' = [count EXCEPT ![d] = 0]
      /\ UNCHANGED <<tried, received, hasUrl, replays, crashes>>
  BY DEF Mark
<1>3. terminal => tried[e] >= MaxAttempts
  BY <1>1, OutboxAssumption DEF Terminal, OutboxTypeOK, Record
<1> HIDE DEF r, e, terminal
<1>4. /\ row' \in [Events -> Row] /\ letters' \in [Events -> Nat]
      /\ \A f \in Events \ {e} : row'[f] = row[f] /\ letters'[f] = letters[f]
      /\ row'[e].attempts <= tried[e]
      /\ row'[e].status = "dispatched" => row[e].status = "dispatched" \/ e \in received
      /\ row'[e].status = "failed" \/ letters'[e] > 0 =>
            row[e].status = "failed" \/ letters[e] > 0 \/ terminal
  <2>1. CASE answer[d] = "ok"
    <3>1. /\ row' = [row EXCEPT ![e].status = "dispatched"]
          /\ letters' = letters
      BY <1>2, <2>1 DEF MarkDispatched
    <3>2. row'[e].status = "dispatched" /\ row'[e].attempts = row[e].attempts
      BY <1>1, <3>1 DEF OutboxTypeOK, Row
    <3>3. row' \in [Events -> Row] /\ \A f \in Events \ {e} : row'[f] = row[f]
      BY <1>1, <3>1 DEF OutboxTypeOK, Row
    <3>4. row[e].attempts <= tried[e]
      BY <1>1 DEF CountsWereTried
    <3>5. letters' \in [Events -> Nat] /\ \A f \in Events : letters'[f] = letters[f]
      BY <3>1 DEF OutboxTypeOK
    <3>6. QED
      BY <1>1, <2>1, <3>2, <3>3, <3>4, <3>5
  <2>2. CASE answer[d] # "ok"
    <3> DEFINE new == [status |-> IF terminal THEN "failed" ELSE row[e].status,
                       attempts |-> count[d] + 1, id |-> row[e].id]
    <3>1. /\ row' = [row EXCEPT ![e] = new]
          /\ letters' = [letters EXCEPT ![e] = IF terminal THEN @ + 1 ELSE @]
      BY <1>1, <1>2, <2>2 DEF MarkFailed, OutboxTypeOK
    <3>2. count[d] + 1 \in Nat /\ count[d] + 1 <= tried[e]
      BY <1>1 DEF OutboxTypeOK
    <3>3. letters'[e] = IF terminal THEN letters[e] + 1 ELSE letters[e]
      BY <1>1, <3>1 DEF OutboxTypeOK
    <3>4. row[e] \in Row /\ new \in Row
      BY <1>1, <3>2 DEF OutboxTypeOK, Row
    <3>5. /\ row' \in [Events -> Row] /\ \A f \in Events \ {e} : row'[f] = row[f]
          /\ row'[e].attempts = count[d] + 1
          /\ row'[e].status = IF terminal THEN "failed" ELSE row[e].status
      <4> HIDE DEF new
      <4>1. /\ row' \in [Events -> Row] /\ row'[e] = new
            /\ \A f \in Events \ {e} : row'[f] = row[f]
        BY <1>1, <3>1, <3>4 DEF OutboxTypeOK
      <4>2. QED
        BY <4>1 DEF new
    <3>6. letters' \in [Events -> Nat] /\ \A f \in Events \ {e} : letters'[f] = letters[f]
      BY <1>1, <3>1 DEF OutboxTypeOK
    <3>7. CASE terminal
      BY <1>1, <3>2, <3>5, <3>6, <3>7
    <3>8. CASE ~terminal
      BY <1>1, <2>2, <3>2, <3>3, <3>5, <3>6, <3>8
    <3>9. QED
      BY <3>7, <3>8
  <2>3. QED
    BY <2>1, <2>2
<1>5. OutboxTypeOK'
  BY <1>2, <1>4 DEF OutboxTypeOK, Answers
<1>6. DispatchedWasReceived'
  BY <1>1, <1>2, <1>4 DEF DispatchedWasReceived
<1>7. GaveUpAfterMax'
  BY <1>1, <1>2, <1>3, <1>4 DEF GaveUpAfterMax
<1>8. CountsWereTried'
  BY <1>1, <1>2, <1>4 DEF CountsWereTried, OutboxTypeOK
<1>9. MarksFollowPosts'
  <2>1. \A b \in Drains \ {d} : taken'[b] = taken[b] /\ Current(b)' = Current(b)
    BY <1>2, CurrentStays DEF OutboxTypeOK
  <2>2. step'[d] \in {"post", "mark"} => step'[d] = "post" /\ taken'[d] # {}
    BY <1>1, <1>2 DEF OutboxTypeOK
  <2>3. QED
    BY <1>2, <2>1, <2>2 DEF MarksFollowPosts, OutboxTypeOK
<1>10. QED
  BY <1>5, <1>6, <1>7, <1>8, <1>9

\* Replays, discards, deaths and restarts.
LEMMA ReplayKeeps ==
    ASSUME OutboxInv, NEW d \in Drains, NEW es \in SUBSET Events, Replay(d, es)
    PROVE  OutboxInv'
<1> USE DEF OutboxInv
<1>1. \A e \in Events : /\ row'[e] \in Row
                        /\ row'[e].attempts = row[e].attempts
                        /\ row'[e].status \in {row[e].status, "pending"}
  BY DEF Replay, OutboxTypeOK, Row
<1>2. \A b \in Drains : taken'[b] = taken[b] /\ Current(b)' = Current(b)
  BY CurrentStays DEF Replay
<1>3. OutboxTypeOK'
  BY <1>1 DEF Replay, OutboxTypeOK
<1>4. DispatchedWasReceived' /\ GaveUpAfterMax'
  BY <1>1 DEF Replay, DispatchedWasReceived, GaveUpAfterMax
<1>5. CountsWereTried'
  BY <1>1 DEF Replay, CountsWereTried
<1>6. MarksFollowPosts'
  BY <1>2 DEF Replay, MarksFollowPosts, OutboxTypeOK
<1>7. QED
  BY <1>3, <1>4, <1>5, <1>6

LEMMA DiscardKeeps ==
    ASSUME OutboxInv, NEW e \in Events, Discard(e)
    PROVE  OutboxInv'
<1> USE DEF OutboxInv
<1>1. \A f \in Events : letters'[f] \in Nat /\ letters'[f] <= letters[f]
  BY DEF Discard, OutboxTypeOK
<1>2. \A b \in Drains : Current(b)' = Current(b)
  BY CurrentStays DEF Discard
<1>3. OutboxTypeOK'
  BY <1>1 DEF Discard, OutboxTypeOK
<1>4. DispatchedWasReceived' /\ CountsWereTried'
  BY DEF Discard, DispatchedWasReceived, CountsWereTried
<1>5. GaveUpAfterMax'
  BY <1>1 DEF Discard, GaveUpAfterMax, OutboxTypeOK
<1>6. MarksFollowPosts'
  BY <1>2 DEF Discard, MarksFollowPosts
<1>7. QED
  BY <1>3, <1>4, <1>5, <1>6

LEMMA StopKeeps ==
    ASSUME OutboxInv, (\E d \in Drains : Crash(d)) \/ Configure
    PROVE  OutboxInv'
<1> USE DEF OutboxInv
<1>1. /\ UNCHANGED <<row, letters, tried, received>>
      /\ \A b \in Drains :
            \/ taken'[b] = taken[b] /\ step'[b] = step[b]
               /\ answer'[b] = answer[b] /\ count'[b] = count[b]
            \/ taken'[b] = {} /\ step'[b] = "idle"
  BY DEF Crash, Configure, OutboxTypeOK
<1>2. \A b \in Drains : taken'[b] = taken[b] => Current(b)' = Current(b)
  BY CurrentStays
<1>3. OutboxTypeOK'
  <2>1. CASE \E d \in Drains : Crash(d)
    BY <2>1 DEF Crash, OutboxTypeOK, Answers
  <2>2. CASE Configure
    BY <2>2 DEF Configure, OutboxTypeOK, Answers
  <2>3. QED
    BY <2>1, <2>2
<1>4. DispatchedWasReceived' /\ GaveUpAfterMax'
  BY <1>1 DEF DispatchedWasReceived, GaveUpAfterMax
<1>5. CountsWereTried'
  BY <1>1 DEF CountsWereTried
<1>6. MarksFollowPosts'
  BY <1>1, <1>2 DEF MarksFollowPosts
<1>7. QED
  BY <1>3, <1>4, <1>5, <1>6

-----------------------------------------------------------------------------
LEMMA InitHolds == OutboxInit => OutboxInv
BY DEF OutboxInit, OutboxInv, OutboxTypeOK, Row, Answers, NoEvent,
       DispatchedWasReceived, GaveUpAfterMax, CountsWereTried, MarksFollowPosts

LEMMA StepKeeps == OutboxInv /\ [OutboxNext]_outbox => OutboxInv'
<1> SUFFICES ASSUME OutboxInv, [OutboxNext]_outbox PROVE OutboxInv'
  OBVIOUS
<1>1. CASE Produce
  <2>1. PICK e, f \in Events : Commit(IF e = f THEN <<e>> ELSE <<e, f>>)
    BY <1>1 DEF Produce
  <2>2. (IF e = f THEN <<e>> ELSE <<e, f>>) \in Seq(Events)
    OBVIOUS
  <2>3. QED
    BY <2>1, <2>2, CommitKeeps
<1>2. CASE \E d \in Drains : Drain(d)
  BY <1>2, FetchKeeps, PostKeeps, MarkKeeps DEF Drain
<1>3. CASE \E d \in Drains, es \in SUBSET Events : Replay(d, es)
  BY <1>3, ReplayKeeps
<1>4. CASE \E e \in Events : Discard(e)
  BY <1>4, DiscardKeeps
<1>5. CASE (\E d \in Drains : Crash(d)) \/ Configure
  BY <1>5, StopKeeps
<1>6. CASE UNCHANGED outbox
  <2>1. \A b \in Drains : Current(b)' = Current(b)
    BY <1>6, CurrentStays DEF outbox
  <2>2. QED
    BY <1>6, <2>1 DEF outbox, OutboxInv, OutboxTypeOK, DispatchedWasReceived,
                      GaveUpAfterMax, CountsWereTried, MarksFollowPosts
<1>7. QED
  BY <1>1, <1>2, <1>3, <1>4, <1>5, <1>6 DEF OutboxNext, Deliver

\* The invariant of the outbox: every count is of posts that were made, and
\* a drain marks what it posted.  It is what makes the rest inductive.
THEOREM OutboxInvariance == OutboxSpec => []OutboxInv
BY InitHolds, StepKeeps, PTL DEF OutboxSpec

\* Every variable of the outbox keeps its type.
THEOREM OutboxTypes == OutboxSpec => []OutboxTypeOK
<1>1. OutboxInv => OutboxTypeOK
  BY DEF OutboxInv
<1>2. QED
  BY <1>1, OutboxInvariance, PTL

\* What any drain has marked dispatched has reached the receiver.
THEOREM Delivered == OutboxSpec => []DispatchedWasReceived
<1>1. OutboxInv => DispatchedWasReceived
  BY DEF OutboxInv
<1>2. QED
  BY <1>1, OutboxInvariance, PTL

\* No event is given up before its attempts are used up.
THEOREM Patience == OutboxSpec => []GaveUpAfterMax
<1>1. OutboxInv => GaveUpAfterMax
  BY DEF OutboxInv
<1>2. QED
  BY <1>1, OutboxInvariance, PTL

-----------------------------------------------------------------------------
\* Delivering never adds or removes an event, and only posts stored ones.
TakenIsStored == \A d \in Drains : \A r \in taken[d] : r.event \in Present

LEMMA DeliverMovesNone ==
    ASSUME OutboxInv, TakenIsStored, Deliver
    PROVE  Present' = Present /\ received' \subseteq received \cup Present
           /\ TakenIsStored'
<1> USE DEF OutboxInv
<1>1. ASSUME NEW d \in Drains, step[d] \in {"post", "mark"}
      PROVE  Current(d) \in taken[d] /\ Current(d).event \in Present
  BY <1>1, CurrentIsTaken DEF MarksFollowPosts, OutboxTypeOK, TakenIsStored
<1>2. ASSUME NEW d \in Drains, Fetch(d) PROVE
        Present' = Present /\ received' = received /\ TakenIsStored'
  <2>1. row' = row /\ received' = received /\ taken' = [taken EXCEPT ![d] = Batch]
    BY <1>2 DEF Fetch
  <2>2. Present' = Present
    BY <2>1 DEF Present
  <2>3. ASSUME NEW r \in Batch PROVE r.event \in Present
    <3>1. PICK e \in Pending :
              r = [event |-> e, attempts |-> row[e].attempts, id |-> row[e].id]
      BY DEF Batch
    <3>2. QED
      BY <3>1 DEF Pending, Present
  <2>4. QED
    BY <2>1, <2>2, <2>3 DEF TakenIsStored, OutboxTypeOK
<1>3. ASSUME NEW d \in Drains, NEW a, NEW b, Post(d, a, b) PROVE
        Present' = Present /\ received' \subseteq received \cup Present /\ TakenIsStored'
  BY <1>1, <1>3 DEF Post, Present, TakenIsStored
<1>4. ASSUME NEW d \in Drains, Mark(d) PROVE
        Present' = Present /\ received' = received /\ TakenIsStored'
  <2>1. Current(d).event \in Present
    BY <1>1, <1>4 DEF Mark
  <2> DEFINE c == Current(d).event
  <2>2. \A e \in Events : row'[e].status = "none" <=> row[e].status = "none"
    <3>1. row \in [Events -> Row] /\ c \in Events /\ row[c].status # "none"
      BY <2>1 DEF OutboxTypeOK, Present
    <3>2. \E r : /\ row' = [row EXCEPT ![c] = r] /\ r.status # "none"
      <4>1. MarkDispatched(c) \/ MarkFailed(c, count[d], Terminal(Current(d), answer[d]))
        BY <1>4 DEF Mark
      <4>2. CASE MarkDispatched(c)
        <5> DEFINE r == [row[c] EXCEPT !.status = "dispatched"]
        <5>1. r.status = "dispatched"
          BY <3>1 DEF Row
        <5>2. row' = [row EXCEPT ![c] = r]
          BY <4>2, <3>1 DEF MarkDispatched
        <5>3. QED
          BY <5>1, <5>2
      <4>3. CASE MarkFailed(c, count[d], Terminal(Current(d), answer[d]))
        <5> DEFINE t == Terminal(Current(d), answer[d])
                   r == [status |-> IF t THEN "failed" ELSE row[c].status,
                         attempts |-> count[d] + 1, id |-> row[c].id]
        <5>1. r.status # "none"
          BY <3>1
        <5>2. row' = [row EXCEPT ![c] = r]
          BY <4>3, <3>1 DEF MarkFailed
        <5>3. QED
          BY <5>1, <5>2
      <4>4. QED
        BY <4>1, <4>2, <4>3
    <3>3. PICK r : row' = [row EXCEPT ![c] = r] /\ r.status # "none"
      BY <3>2
    <3> HIDE DEF c
    <3>4. ASSUME NEW e \in Events
          PROVE  row'[e].status = "none" <=> row[e].status = "none"
      BY <3>1, <3>3
    <3>5. QED
      BY <3>4
  <2>3. Present' = Present
    BY <2>2 DEF Present
  <2>4. \A b \in Drains : taken'[b] \subseteq taken[b]
    BY <1>4 DEF Mark, OutboxTypeOK
  <2>5. QED
    BY <1>4, <2>3, <2>4 DEF Mark, TakenIsStored
<1>5. ASSUME NEW d \in Drains, NEW es \in SUBSET Events, Replay(d, es) PROVE
        Present' = Present /\ received' = received /\ TakenIsStored'
  <2>1. \A e \in Events : row'[e].status = "none" <=> row[e].status = "none"
    BY <1>5 DEF Replay, Present, OutboxTypeOK, Row
  <2>2. QED
    BY <1>5, <2>1 DEF Replay, Present, TakenIsStored
<1>6. ASSUME (\E d \in Drains : Crash(d)) \/ (\E e \in Events : Discard(e)) \/ Configure
      PROVE  Present' = Present /\ received' = received /\ TakenIsStored'
  <2>1. /\ row' = row /\ received' = received
        /\ \A b \in Drains : taken'[b] \subseteq taken[b]
    BY <1>6 DEF Crash, Discard, Configure, OutboxTypeOK
  <2>2. QED
    BY <2>1 DEF Present, TakenIsStored
<1>7. QED
  BY <1>2, <1>3, <1>4, <1>5, <1>6 DEF Deliver, Drain

-----------------------------------------------------------------------------
(* How long an event is retried.  A replay adds two attempts to what an    *)
(* event may have: one for its own drain, one for what the worker does     *)
(* with the row it has revived.  Every count that may still be raised      *)
(* keeps room for the attempts that are owed: by replays that still hold   *)
(* the event, by the worker where the event is still open, and by the      *)
(* worker once more where it may try again after that.                     *)

Holds(d, e) == \E r \in taken[d] : r.event = e
Marking(d, e) == step[d] = "mark" /\ Current(d).event = e
IsPending(e) == row[e].status = "pending"
MayRetry(n) == n + 1 < MaxAttempts

Replaying(e) == {d \in Drains \ Workers : step[d] = "fetch" \/ Holds(d, e)}
Spare(e) == 2 * replays - Cardinality(Replaying(e))

\* The worker can still count an attempt of the event.
Open(e) ==
    \/ IsPending(e) \/ MayRetry(row[e].attempts)
    \/ \E d \in Workers : Holds(d, e)

\* It can do so without giving the event up.
Young(e) ==
    \/ IsPending(e) /\ MayRetry(row[e].attempts)
    \/ \E d \in Workers : \E r \in taken[d] : r.event = e /\ MayRetry(r.attempts)
    \/ IsPending(e) /\ \E d \in Workers : Marking(d, e) /\ MayRetry(count[d])

Needs(e) == IF Young(e) THEN 2 ELSE IF Open(e) THEN 1 ELSE 0

\* The counts of an event: the row's, and those about to be written.
IsCount(e, n) ==
    \/ n = row[e].attempts
    \/ \E d \in Drains : Marking(d, e) /\ n = count[d]

RoomLeft(e) ==
    /\ Cardinality(Replaying(e)) <= replays
    /\ \A n \in Nat : IsCount(e, n) => n + Needs(e) <= MaxAttempts + Spare(e)

\* A drain fetches a record once, and posts without a URL only so often.
FetchedOnce ==
    /\ \A d \in Drains : \A r, s \in taken[d] : r.event = s.event => r = s
    /\ \A d \in Drains : answer[d] = "skipped" => count[d] < MaxSkips

AttemptsInv ==
    /\ TakenIsStored /\ FetchedOnce
    /\ \A e \in Events : RoomLeft(e)

LoneWorker == MaxSkips < MaxAttempts /\ Cardinality(Workers) <= 1

LEMMA OneWorker ==
    ASSUME LoneWorker, NEW v \in Workers, NEW w \in Workers
    PROVE  v = w
<1>1. IsFiniteSet(Workers)
  BY FS_Subset, OutboxAssumption
<1>2. Cardinality(Workers) \in Nat /\ Cardinality(Workers) # 0
  BY <1>1, FS_CardinalityType, FS_EmptySet
<1>3. Cardinality(Workers) = 1
  BY <1>2 DEF LoneWorker
<1>4. PICK x : Workers = {x}
  BY <1>1, <1>3, FS_Singleton
<1>5. QED
  BY <1>4

\* The numbers the rooms are about; a drain that marks holds what it marks.
LEMMA RoomFacts ==
    ASSUME OutboxInv, NEW e \in Events
    PROVE  /\ IsFiniteSet(Replaying(e)) /\ Cardinality(Replaying(e)) \in Nat
           /\ Spare(e) \in Int /\ Needs(e) \in 0..2
           /\ replays \in Nat /\ MaxAttempts \in Nat \ {0}
           /\ row[e].attempts \in Nat
           /\ \A d \in Drains : count[d] \in Nat
           /\ \A d \in Drains : Marking(d, e) => Holds(d, e)
<1>1. IsFiniteSet(Replaying(e))
  BY FS_Subset, OutboxAssumption DEF Replaying
<1>2. Cardinality(Replaying(e)) \in Nat
  BY <1>1, FS_CardinalityType
<1>3. replays \in Nat /\ MaxAttempts \in Nat \ {0} /\ row[e].attempts \in Nat
      /\ \A d \in Drains : count[d] \in Nat
  BY OutboxAssumption DEF OutboxInv, OutboxTypeOK, Row
<1>4. ASSUME NEW d \in Drains, Marking(d, e) PROVE Holds(d, e)
  <2>1. Current(d) \in taken[d]
    BY <1>4, CurrentIsTaken DEF Marking, OutboxInv, MarksFollowPosts, OutboxTypeOK
  <2>2. QED
    BY <1>4, <2>1 DEF Marking, Holds
<1>5. QED
  BY <1>1, <1>2, <1>3, <1>4 DEF Spare, Needs

\* What the worker may still do counts as open.
LEMMA YoungIsOpen == ASSUME NEW e PROVE Young(e) => Open(e)
BY DEF Young, Open, Holds

\* A step that needs no more room, and adds no count, leaves enough.
LEMMA RoomStays ==
    ASSUME OutboxInv, OutboxInv', NEW e \in Events, RoomLeft(e),
           replays' = replays, Replaying(e)' \subseteq Replaying(e),
           Young(e)' => Young(e), Open(e)' => Open(e),
           \A n \in Nat : IsCount(e, n)' => IsCount(e, n)
    PROVE  RoomLeft(e)'
<1>1. Needs(e)' <= Needs(e)
  BY YoungIsOpen DEF Needs
<1>2. Cardinality(Replaying(e)') <= Cardinality(Replaying(e))
  BY RoomFacts, FS_Subset
<1>3. /\ Cardinality(Replaying(e)) \in Nat /\ replays \in Nat
      /\ Spare(e) \in Int /\ Needs(e) \in 0..2 /\ MaxAttempts \in Nat
  BY RoomFacts
<1>4. Cardinality(Replaying(e))' \in Nat /\ Spare(e)' \in Int /\ Needs(e)' \in 0..2
  <2>1. IsFiniteSet(Replaying(e)')
    BY <1>3, RoomFacts, FS_Subset
  <2>2. Cardinality(Replaying(e)') \in Nat
    BY <2>1, FS_CardinalityType
  <2>3. QED
    BY <1>3, <2>2 DEF Spare, Needs
<1>5. Spare(e)' >= Spare(e)
  BY <1>2, <1>3, <1>4 DEF Spare
<1>6. ASSUME NEW n \in Nat, IsCount(e, n)'
      PROVE  n + Needs(e)' <= MaxAttempts + Spare(e)'
  <2>1. n + Needs(e) <= MaxAttempts + Spare(e)
    BY <1>6 DEF RoomLeft
  <2> HIDE DEF Needs, Spare
  <2>2. QED
    BY <1>1, <1>3, <1>4, <1>5, <2>1
<1>7. Cardinality(Replaying(e)') <= replays'
  BY <1>2, <1>3, <1>4 DEF RoomLeft
<1>8. QED
  BY <1>6, <1>7 DEF RoomLeft

\* What a drain holds and marks depends on its own state alone.
LEMMA SameDrain ==
    ASSUME NEW d \in Drains, NEW e, taken'[d] = taken[d], step'[d] = step[d]
    PROVE  (Holds(d, e)' <=> Holds(d, e)) /\ (Marking(d, e)' <=> Marking(d, e))
BY CurrentStays DEF Holds, Marking

\* A drain that goes idle gives back what it had.
LEMMA IdleLeavesRoom ==
    ASSUME OutboxInv, OutboxInv', AttemptsInv, UNCHANGED <<row, replays>>,
           \A d \in Drains :
              \/ taken'[d] = taken[d] /\ step'[d] = step[d] /\ count'[d] = count[d]
              \/ taken'[d] = {} /\ step'[d] = "idle"
    PROVE  \A e \in Events : RoomLeft(e)'
<1> SUFFICES ASSUME NEW e \in Events PROVE RoomLeft(e)'
  OBVIOUS
<1>1. ASSUME NEW d \in Drains
      PROVE  /\ Holds(d, e)' => Holds(d, e)
             /\ Marking(d, e)' => Marking(d, e) /\ count'[d] = count[d]
  BY SameDrain DEF Holds, Marking
<1>2. Workers \subseteq Drains
  BY OutboxAssumption
<1>3. Replaying(e)' \subseteq Replaying(e)
  BY <1>1 DEF Replaying
<1>4. IsPending(e)' <=> IsPending(e)
  BY DEF IsPending
<1>5. Open(e)' => Open(e)
  BY <1>1, <1>2, <1>4 DEF Open
<1>6. Young(e)' => Young(e)
  <2>1. \A d \in Workers : \A r \in taken'[d] : r \in taken[d]
    BY <1>2
  <2>2. QED
    BY <1>1, <1>2, <1>4, <2>1 DEF Young
<1>7. \A n \in Nat : IsCount(e, n)' => IsCount(e, n)
  BY <1>1 DEF IsCount
<1>8. QED
  BY <1>3, <1>5, <1>6, <1>7, RoomStays DEF AttemptsInv

LEMMA StopLeavesRoom ==
    ASSUME OutboxInv, OutboxInv', AttemptsInv,
           \/ \E d \in Drains : Crash(d)
           \/ \E e \in Events : Discard(e)
           \/ Configure
    PROVE  FetchedOnce' /\ \A e \in Events : RoomLeft(e)'
<1>1. /\ UNCHANGED <<row, replays>>
      /\ \A d \in Drains :
            \/ /\ taken'[d] = taken[d] /\ step'[d] = step[d]
               /\ count'[d] = count[d] /\ answer'[d] = answer[d]
            \/ taken'[d] = {} /\ step'[d] = "idle" /\ answer'[d] = "none"
  BY DEF Crash, Discard, Configure, OutboxInv, OutboxTypeOK
<1>2. FetchedOnce'
  BY <1>1 DEF FetchedOnce, AttemptsInv
<1>3. QED
  BY <1>1, <1>2, IdleLeavesRoom

\* A fetched copy has the count of its row, and is of a pending one.
LEMMA FetchLeavesRoom ==
    ASSUME OutboxInv, OutboxInv', AttemptsInv, NEW d \in Drains, Fetch(d)
    PROVE  FetchedOnce' /\ \A e \in Events : RoomLeft(e)'
<1>1. /\ d \notin Workers => step[d] = "fetch"
      /\ taken'[d] = Batch /\ step'[d] \in {"idle", "post"}
      /\ \A b \in Drains \ {d} : taken'[b] = taken[b] /\ step'[b] = step[b]
      /\ row' = row /\ answer' = answer /\ count' = count /\ replays' = replays
  BY DEF Fetch, OutboxInv, OutboxTypeOK
<1>2. /\ \A r \in Batch : IsPending(r.event) /\ r.attempts = row[r.event].attempts
      /\ \A r, s \in Batch : r.event = s.event => r = s
  <2>1. ASSUME NEW r \in Batch
        PROVE  /\ IsPending(r.event)
               /\ r = [event |-> r.event, attempts |-> row[r.event].attempts,
                       id |-> row[r.event].id]
    <3>1. PICK e \in Pending :
              r = [event |-> e, attempts |-> row[e].attempts, id |-> row[e].id]
      BY DEF Batch
    <3>2. QED
      BY <3>1 DEF Pending, IsPending
  <2>2. \A r \in Batch : r.attempts = row[r.event].attempts
    BY <2>1
  <2>3. \A r, s \in Batch : r.event = s.event => r = s
    BY <2>1
  <2>4. QED
    BY <2>1, <2>2, <2>3
<1>3. FetchedOnce'
  BY <1>1, <1>2 DEF FetchedOnce, AttemptsInv
<1>4. ASSUME NEW e \in Events PROVE RoomLeft(e)'
  <2>1. \A b \in Drains \ {d} : /\ Holds(b, e)' <=> Holds(b, e)
                                /\ Marking(b, e)' <=> Marking(b, e)
    BY <1>1, SameDrain
  <2>2. ~Marking(d, e)' /\ (Holds(d, e)' => IsPending(e))
    BY <1>1, <1>2 DEF Marking, Holds
  <2>3. Workers \subseteq Drains
    BY OutboxAssumption
  <2>4. Replaying(e)' \subseteq Replaying(e)
    BY <1>1, <2>1 DEF Replaying
  <2>5. IsPending(e)' <=> IsPending(e)
    BY <1>1 DEF IsPending
  <2>6. Open(e)' => Open(e)
    BY <1>1, <2>1, <2>2, <2>3, <2>5 DEF Open
  <2>7. Young(e)' => Young(e)
    <3>1. CASE IsPending(e)' /\ MayRetry(row[e].attempts)'
      BY <1>1, <2>5, <3>1 DEF Young, MayRetry
    <3>2. ASSUME NEW b \in Workers, NEW r \in taken'[b],
                 r.event = e, MayRetry(r.attempts)
          PROVE  Young(e)
      BY <1>1, <1>2, <2>3, <3>2 DEF Young
    <3>3. ASSUME NEW b \in Workers, IsPending(e)', Marking(b, e)',
                 MayRetry(count'[b])
          PROVE  Young(e)
      BY <1>1, <2>1, <2>2, <2>3, <2>5, <3>3 DEF Young
    <3>4. QED
      BY <3>1, <3>2, <3>3 DEF Young, MayRetry
  <2>8. \A n \in Nat : IsCount(e, n)' => IsCount(e, n)
    BY <1>1, <2>1, <2>2 DEF IsCount
  <2>9. QED
    BY <2>4, <2>6, <2>7, <2>8, <1>1, RoomStays DEF AttemptsInv
<1>5. QED
  BY <1>3, <1>4

\* A drain reads the count it will raise from the row.
LEMMA PostLeavesRoom ==
    ASSUME OutboxInv, OutboxInv', AttemptsInv, NEW d \in Drains,
           NEW a \in Answers, NEW arrives \in BOOLEAN, Post(d, a, arrives)
    PROVE  FetchedOnce' /\ \A e \in Events : RoomLeft(e)'
<1> DEFINE f == Current(d).event
<1>1. /\ step[d] = "post" /\ step'[d] = "mark"
      /\ taken' = taken /\ row' = row /\ replays' = replays
      /\ count'[d] = row[f].attempts /\ answer'[d] = a
      /\ a = "skipped" => row[f].attempts < MaxSkips
      /\ \A b \in Drains \ {d} : /\ step'[b] = step[b] /\ count'[b] = count[b]
                                 /\ answer'[b] = answer[b]
  BY DEF Post, OutboxInv, OutboxTypeOK
<1>2. FetchedOnce'
  BY <1>1 DEF FetchedOnce, AttemptsInv
<1>3. Current(d)' = Current(d)
  BY <1>1, CurrentStays
<1>4. ASSUME NEW e \in Events PROVE RoomLeft(e)'
  <2>1. \A b \in Drains \ {d} : Marking(b, e)' <=> Marking(b, e)
    BY <1>1, SameDrain
  <2>2. \A b \in Drains : Holds(b, e)' <=> Holds(b, e)
    BY <1>1 DEF Holds
  <2>3. Marking(d, e)' => count'[d] = row[e].attempts
    BY <1>1, <1>3 DEF Marking
  <2>4. Workers \subseteq Drains
    BY OutboxAssumption
  <2>5. Replaying(e)' \subseteq Replaying(e)
    BY <1>1, <2>2 DEF Replaying
  <2>6. IsPending(e)' <=> IsPending(e)
    BY <1>1 DEF IsPending
  <2>7. Open(e)' => Open(e)
    BY <1>1, <2>2, <2>4, <2>6 DEF Open
  <2>8. Young(e)' => Young(e)
    BY <1>1, <2>1, <2>3, <2>4, <2>6 DEF Young
  <2>9. \A n \in Nat : IsCount(e, n)' => IsCount(e, n)
    BY <1>1, <2>1, <2>3 DEF IsCount
  <2>10. QED
    BY <2>5, <2>7, <2>8, <2>9, <1>1, RoomStays DEF AttemptsInv
<1>5. QED
  BY <1>2, <1>4

\* What a mark changes, of the event marked and of the drain that marks.
Counted(d, e) ==
    IF answer[d] = "ok"
    THEN row'[e].status = "dispatched" /\ row'[e].attempts = row[e].attempts
    ELSE /\ row'[e].attempts = count[d] + 1
         /\ IF Terminal(Current(d), answer[d]) THEN row'[e].status = "failed"
            ELSE row'[e].status = row[e].status

MarkedBy(d) ==
    /\ Current(d) \in taken[d] /\ Current(d).event \in Events
    /\ step'[d] \in {"idle", "post"} /\ answer'[d] = "none"
    /\ taken'[d] = taken[d] \ {Current(d)}
    /\ \A b \in Drains : b # d =>
          /\ taken'[b] = taken[b] /\ step'[b] = step[b]
          /\ count'[b] = count[b] /\ answer'[b] = answer[b]
    /\ replays' = replays
    /\ \A f \in Events : f # Current(d).event => row'[f] = row[f]
    /\ Counted(d, Current(d).event)

LEMMA MarkEffect ==
    ASSUME OutboxInv, NEW d \in Drains, Mark(d)
    PROVE  MarkedBy(d)
<1> DEFINE r == Current(d)
           e == r.event
           new == [status |-> IF Terminal(r, answer[d]) THEN "failed"
                              ELSE row[e].status,
                   attempts |-> count[d] + 1, id |-> row[e].id]
<1>1. r \in taken[d] /\ e \in Events
  BY CurrentIsTaken DEF Mark, OutboxInv, MarksFollowPosts, OutboxTypeOK, Record
<1>2. /\ row' = IF answer[d] = "ok" THEN [row EXCEPT ![e].status = "dispatched"]
                ELSE [row EXCEPT ![e] = new]
      /\ taken' = [taken EXCEPT ![d] = @ \ {r}]
      /\ step' = [step EXCEPT ![d] = IF taken[d] = {r} THEN "idle" ELSE "post"]
      /\ answer' = [answer EXCEPT ![d] = "none"]
      /\ count' = [count EXCEPT ![d] = 0]
      /\ replays' = replays
  BY <1>1 DEF Mark, MarkDispatched, MarkFailed, OutboxInv, OutboxTypeOK
<1>3. Counted(d, e)
  BY <1>1, <1>2 DEF Counted, OutboxInv, OutboxTypeOK, Row
<1>4. \A f \in Events : f # e => row'[f] = row[f]
  BY <1>1, <1>2 DEF OutboxInv, OutboxTypeOK
<1>5. /\ step'[d] \in {"idle", "post"} /\ answer'[d] = "none"
      /\ taken'[d] = taken[d] \ {r}
      /\ \A b \in Drains : b # d =>
            /\ taken'[b] = taken[b] /\ step'[b] = step[b]
            /\ count'[b] = count[b] /\ answer'[b] = answer[b]
  BY <1>2 DEF OutboxInv, OutboxTypeOK
<1>6. QED
  BY <1>1, <1>2, <1>3, <1>4, <1>5 DEF MarkedBy

\* After the mark the drain has nothing of the event; the others are as before.
LEMMA MarkLetsGo ==
    ASSUME OutboxInv, AttemptsInv, NEW d \in Drains, MarkedBy(d), NEW e \in Events
    PROVE  /\ ~Marking(d, e)' /\ (Holds(d, e)' => Holds(d, e))
           /\ e = Current(d).event => ~Holds(d, e)'
           /\ \A b \in Drains : b # d =>
                 (Holds(b, e)' <=> Holds(b, e)) /\ (Marking(b, e)' <=> Marking(b, e))
           /\ Replaying(e)' \subseteq Replaying(e)
<1>1. ~Marking(d, e)' /\ (Holds(d, e)' => Holds(d, e))
  BY DEF Marking, Holds, MarkedBy
<1>2. e = Current(d).event => ~Holds(d, e)'
  BY DEF Holds, MarkedBy, AttemptsInv, FetchedOnce
<1>3. \A b \in Drains : b # d =>
         (Holds(b, e)' <=> Holds(b, e)) /\ (Marking(b, e)' <=> Marking(b, e))
  BY SameDrain DEF MarkedBy
<1>4. Replaying(e)' \subseteq Replaying(e)
  BY <1>1, <1>3 DEF Replaying, MarkedBy
<1>5. QED
  BY <1>1, <1>2, <1>3, <1>4

LEMMA MarkLeavesOthers ==
    ASSUME OutboxInv, OutboxInv', AttemptsInv, NEW d \in Drains, MarkedBy(d),
           NEW e \in Events, e # Current(d).event
    PROVE  RoomLeft(e)'
<1>1. row'[e] = row[e] /\ replays' = replays
  BY DEF MarkedBy
<1>2. Workers \subseteq Drains
  BY OutboxAssumption
<1>3. IsPending(e)' <=> IsPending(e)
  BY <1>1 DEF IsPending
<1>4. Open(e)' => Open(e)
  BY <1>1, <1>2, <1>3, MarkLetsGo DEF Open
<1>5. Young(e)' => Young(e)
  <2>1. \A b \in Drains : taken'[b] \subseteq taken[b]
    BY DEF MarkedBy
  <2>2. \A b \in Drains : Marking(b, e)' => Marking(b, e) /\ count'[b] = count[b]
    BY MarkLetsGo DEF MarkedBy
  <2>3. QED
    BY <1>1, <1>2, <1>3, <2>1, <2>2 DEF Young
<1>6. \A n \in Nat : IsCount(e, n)' => IsCount(e, n)
  BY <1>1, MarkLetsGo DEF IsCount, MarkedBy
<1>7. QED
  BY <1>1, <1>4, <1>5, <1>6, MarkLetsGo, RoomStays DEF AttemptsInv

\* A count of an event after a mark: the row's new one, or one of before.
LEMMA MarkCounts ==
    ASSUME OutboxInv, AttemptsInv, NEW d \in Drains, MarkedBy(d),
           NEW e \in Events, NEW n \in Nat, IsCount(e, n)'
    PROVE  n = row'[e].attempts \/ IsCount(e, n)
BY MarkLetsGo DEF IsCount, MarkedBy

\* A step by which no replay takes the event spares as much; one by which a
\* replay lets go of it spares one attempt more.
LEMMA SpareGrows ==
    ASSUME OutboxInv, OutboxInv', NEW e \in Events, RoomLeft(e),
           replays' = replays, Replaying(e)' \subseteq Replaying(e)
    PROVE  /\ Cardinality(Replaying(e))' <= replays'
           /\ 0 <= Spare(e) /\ Spare(e) <= Spare(e)'
           /\ \A d \in Replaying(e) : d \notin Replaying(e)' => Spare(e) + 1 <= Spare(e)'
<1>1. /\ IsFiniteSet(Replaying(e)) /\ Cardinality(Replaying(e)) \in Nat
      /\ replays \in Nat
  BY RoomFacts
<1>2. /\ IsFiniteSet(Replaying(e)')
      /\ Cardinality(Replaying(e)') <= Cardinality(Replaying(e))
  BY <1>1, FS_Subset
<1>3. Cardinality(Replaying(e)') \in Nat
  BY <1>2, FS_CardinalityType
<1>4. Cardinality(Replaying(e)) <= replays
  BY DEF RoomLeft
<1>5. ASSUME NEW d \in Replaying(e), d \notin Replaying(e)'
      PROVE  Spare(e) + 1 <= Spare(e)'
  <2>1. Replaying(e)' \subseteq Replaying(e) \ {d}
    BY <1>5
  <2>2. /\ IsFiniteSet(Replaying(e) \ {d})
        /\ Cardinality(Replaying(e) \ {d}) = Cardinality(Replaying(e)) - 1
    BY <1>1, <1>5, FS_RemoveElement
  <2>3. Cardinality(Replaying(e)') <= Cardinality(Replaying(e) \ {d})
    BY <2>1, <2>2, FS_Subset
  <2>4. QED
    BY <1>1, <1>3, <2>2, <2>3 DEF Spare
<1>6. 0 <= Spare(e) /\ Spare(e) <= Spare(e)'
  BY <1>1, <1>2, <1>3, <1>4 DEF Spare
<1>7. QED
  BY <1>1, <1>2, <1>3, <1>4, <1>5, <1>6

\* The worker's mark.  It leaves the event open only when it could retry it
\* before, and then one attempt of the two that were kept for it is counted.
LEMMA WorkerLeavesRoom ==
    ASSUME OutboxInv, OutboxInv', AttemptsInv, LoneWorker,
           NEW d \in Workers, MarkedBy(d), step[d] = "mark",
           NEW e \in Events, e = Current(d).event
    PROVE  RoomLeft(e)'
<1>1. /\ d \in Drains /\ \A b \in Workers : b = d
      /\ RoomLeft(e)
  BY OneWorker, OutboxAssumption DEF AttemptsInv
<1>2. /\ Marking(d, e) /\ Holds(d, e) /\ Open(e)
      /\ IsCount(e, count[d]) /\ IsCount(e, row[e].attempts)
  BY <1>1 DEF Marking, Holds, Open, IsCount, MarkedBy
<1>3. /\ count[d] \in Nat /\ row[e].attempts \in Nat /\ MaxAttempts \in Nat \ {0}
      /\ Needs(e) \in 1..2 /\ Spare(e) \in Int
      /\ Needs(e)' \in 0..2 /\ Spare(e)' \in Int /\ row'[e].attempts \in Nat
  <2>1. Needs(e)' \in 0..2 /\ Spare(e)' \in Int
    BY RoomFacts, FS_Subset, FS_CardinalityType, MarkLetsGo, <1>1
       DEF Needs, Spare, MarkedBy
  <2>2. row'[e].attempts \in Nat
    BY DEF OutboxInv, OutboxTypeOK, Row
  <2>3. Needs(e) \in 1..2
    BY <1>2 DEF Needs
  <2>4. QED
    BY <1>1, <2>1, <2>2, <2>3, RoomFacts
<1>4. /\ Cardinality(Replaying(e))' <= replays'
      /\ 0 <= Spare(e) /\ Spare(e) <= Spare(e)'
  BY <1>1, SpareGrows, MarkLetsGo DEF MarkedBy
<1>5. /\ Young(e)' <=> row'[e].status = "pending" /\ MayRetry(row'[e].attempts)
      /\ Open(e)' <=> row'[e].status = "pending" \/ MayRetry(row'[e].attempts)
  <2>1. \A b \in Workers : ~Marking(b, e)' /\ ~Holds(b, e)'
    BY <1>1, MarkLetsGo
  <2>2. QED
    BY <2>1 DEF Young, Open, Holds, IsPending, MayRetry
<1>6. \A n \in Nat : IsCount(e, n) => n + Needs(e) <= MaxAttempts + Spare(e)
  BY <1>1 DEF RoomLeft
<1>7. CASE answer[d] = "ok"
  <2>1. row'[e].status = "dispatched" /\ row'[e].attempts = row[e].attempts
    BY <1>7 DEF MarkedBy, Counted
  <2>2. Needs(e)' <= Needs(e)
    BY <1>3, <1>5, <2>1 DEF Needs
  <2>3. ASSUME NEW n \in Nat, IsCount(e, n)' PROVE IsCount(e, n)
    BY <1>1, <1>2, <2>1, <2>3, MarkCounts
  <2>4. ASSUME NEW n \in Nat, IsCount(e, n)'
        PROVE  n + Needs(e)' <= MaxAttempts + Spare(e)'
    <3>1. n + Needs(e) <= MaxAttempts + Spare(e)
      BY <1>6, <2>3, <2>4
    <3>2. QED
      BY <1>3, <1>4, <2>2, <3>1
  <2>5. QED
    BY <1>4, <2>4 DEF RoomLeft
<1>8. CASE answer[d] # "ok"
  <2> DEFINE terminal == Terminal(Current(d), answer[d])
  <2>1. /\ row'[e].attempts = count[d] + 1
        /\ terminal => row'[e].status = "failed"
        /\ ~terminal => row'[e].status = row[e].status
    BY <1>8 DEF MarkedBy, Counted
  <2>2. Young(e)' => Young(e)
    BY <1>1, <1>2, <1>3, <1>5, <2>1 DEF Young, IsPending, MayRetry
  <2>3. Needs(e)' <= Needs(e)
    BY <1>2, <2>2, YoungIsOpen DEF Needs
  <2>4. count[d] + 1 + Needs(e)' <= MaxAttempts + Spare(e)'
    <3>1. count[d] + Needs(e) <= MaxAttempts + Spare(e)
      BY <1>2, <1>3, <1>6
    <3>2. CASE Young(e)' \/ (Open(e)' /\ MayRetry(row'[e].attempts))
      <4>1. count[d] + 2 < MaxAttempts
        BY <1>3, <1>5, <2>1, <3>2 DEF MayRetry
      <4>2. Needs(e)' = 1 \/ Young(e)'
        BY <3>2 DEF Needs
      <4>3. count[d] + 3 <= MaxAttempts
        BY <1>3, <4>1
      <4>4. QED
        BY <1>3, <1>4, <4>3
    <3>3. CASE ~Open(e)'
      <4>1. Needs(e)' = 0
        BY <3>3, YoungIsOpen, <1>5 DEF Needs
      <4>2. QED
        BY <1>3, <1>4, <3>1, <4>1
    <3>4. CASE row'[e].status = "pending" /\ ~MayRetry(row'[e].attempts)
      <4>1. Needs(e)' = 1
        BY <1>5, <3>4 DEF Needs
      <4>2. ~terminal
        BY <2>1, <3>4
      <4>3. CASE answer[d] = "skipped"
        <5>1. count[d] < MaxSkips /\ MaxSkips < MaxAttempts
          BY <1>1, <4>3 DEF AttemptsInv, FetchedOnce, LoneWorker
        <5>2. MaxSkips \in Nat
          BY OutboxAssumption
        <5>3. QED
          BY <1>3, <1>4, <4>1, <5>1, <5>2
      <4>4. CASE answer[d] # "skipped"
        <5>1. Current(d).attempts \in Nat
          BY <1>1 DEF MarkedBy, OutboxInv, OutboxTypeOK, Record
        <5>2. MayRetry(Current(d).attempts)
          BY <1>3, <4>2, <4>4, <5>1 DEF Terminal, MayRetry
        <5>3. Young(e)
          BY <5>2 DEF Young, MarkedBy
        <5>4. Needs(e) = 2
          BY <5>3 DEF Needs
        <5>5. QED
          BY <1>3, <1>4, <3>1, <4>1, <5>4
      <4>5. QED
        BY <4>3, <4>4
    <3>5. QED
      BY <1>5, <3>2, <3>3, <3>4
  <2>5. ASSUME NEW n \in Nat, IsCount(e, n)'
        PROVE  n + Needs(e)' <= MaxAttempts + Spare(e)'
    <3>1. CASE n = row'[e].attempts
      BY <1>3, <2>1, <2>4, <3>1
    <3>2. CASE IsCount(e, n)
      <4>1. n + Needs(e) <= MaxAttempts + Spare(e)
        BY <1>6, <3>2
      <4>2. QED
        BY <1>3, <1>4, <2>3, <4>1
    <3>3. QED
      BY <1>1, <2>5, <3>1, <3>2, MarkCounts
  <2>6. QED
    BY <1>4, <2>5 DEF RoomLeft
<1>9. QED
  BY <1>7, <1>8

\* A replay's mark.  The attempt it counts was kept for it, and if it brings
\* the count down, so that the event is open again, it has raised nothing.
LEMMA ReplayLeavesRoom ==
    ASSUME OutboxInv, OutboxInv', AttemptsInv, LoneWorker,
           NEW d \in Drains \ Workers, MarkedBy(d), step[d] = "mark",
           NEW e \in Events, e = Current(d).event
    PROVE  RoomLeft(e)'
<1>1. RoomLeft(e) /\ d \in Drains /\ Workers \subseteq Drains
  BY OutboxAssumption DEF AttemptsInv
<1>2. /\ Marking(d, e) /\ Holds(d, e)
      /\ IsCount(e, count[d]) /\ IsCount(e, row[e].attempts)
  BY <1>1 DEF Marking, Holds, IsCount, MarkedBy
<1>3. d \in Replaying(e) /\ d \notin Replaying(e)'
  BY <1>1, <1>2, MarkLetsGo DEF Replaying, MarkedBy
<1>4. /\ count[d] \in Nat /\ row[e].attempts \in Nat /\ MaxAttempts \in Nat \ {0}
      /\ Needs(e) \in 0..2 /\ Spare(e) \in Int
      /\ Needs(e)' \in 0..2 /\ Spare(e)' \in Int /\ row'[e].attempts \in Nat
  <2>1. Needs(e)' \in 0..2 /\ Spare(e)' \in Int
    BY RoomFacts, FS_Subset, FS_CardinalityType, MarkLetsGo, <1>1
       DEF Needs, Spare, MarkedBy
  <2>2. row'[e].attempts \in Nat
    BY DEF OutboxInv, OutboxTypeOK, Row
  <2>3. QED
    BY <1>1, <2>1, <2>2, RoomFacts
<1>5. /\ Cardinality(Replaying(e))' <= replays'
      /\ 0 <= Spare(e) /\ Spare(e) + 1 <= Spare(e)'
  BY <1>1, <1>3, SpareGrows, MarkLetsGo DEF MarkedBy
<1>6. row'[e].status = "pending" => row[e].status = "pending"
  BY DEF MarkedBy, Counted
<1>7. /\ Young(e)' => Young(e) \/ (IsPending(e) /\ MayRetry(row'[e].attempts))
      /\ Open(e)' => Open(e) \/ MayRetry(row'[e].attempts)
  <2>1. \A b \in Workers : /\ taken'[b] = taken[b] /\ count'[b] = count[b]
                           /\ Marking(b, e)' => Marking(b, e)
                           /\ Holds(b, e)' => Holds(b, e)
    BY <1>1, MarkLetsGo DEF MarkedBy
  <2>2. IsPending(e)' => IsPending(e)
    BY <1>6 DEF IsPending
  <2>3. Open(e)' => Open(e) \/ MayRetry(row'[e].attempts)
    BY <2>1, <2>2 DEF Open, MayRetry
  <2>4. Young(e)' => Young(e) \/ (IsPending(e) /\ MayRetry(row'[e].attempts))
    BY <2>1, <2>2 DEF Young, MayRetry
  <2>5. QED
    BY <2>3, <2>4
<1>8. Needs(e)' <= Needs(e) + 1
  BY <1>7, YoungIsOpen DEF Needs, Open
<1>9. \A n \in Nat : IsCount(e, n) => n + Needs(e) <= MaxAttempts + Spare(e)
  BY <1>1 DEF RoomLeft
<1>10. row'[e].attempts + Needs(e)' <= MaxAttempts + Spare(e)'
  <2>1. CASE MayRetry(row'[e].attempts)
    BY <1>4, <1>5, <2>1 DEF MayRetry
  <2>2. CASE ~MayRetry(row'[e].attempts)
    <3>1. Needs(e)' <= Needs(e)
      BY <1>7, <2>2, YoungIsOpen DEF Needs
    <3>2. row'[e].attempts <= count[d] + 1 \/ row'[e].attempts = row[e].attempts
      BY <1>4 DEF MarkedBy, Counted
    <3>3. /\ count[d] + Needs(e) <= MaxAttempts + Spare(e)
          /\ row[e].attempts + Needs(e) <= MaxAttempts + Spare(e)
      BY <1>2, <1>4, <1>9
    <3>4. QED
      BY <1>4, <1>5, <3>1, <3>2, <3>3
  <2>3. QED
    BY <2>1, <2>2
<1>11. ASSUME NEW n \in Nat, IsCount(e, n)'
       PROVE  n + Needs(e)' <= MaxAttempts + Spare(e)'
  <2>1. CASE n = row'[e].attempts
    BY <1>10, <2>1
  <2>2. CASE IsCount(e, n)
    <3>1. n + Needs(e) <= MaxAttempts + Spare(e)
      BY <1>9, <2>2
    <3>2. QED
      BY <1>4, <1>5, <1>8, <3>1
  <2>3. QED
    BY <1>1, <1>11, <2>1, <2>2, MarkCounts
<1>12. QED
  BY <1>5, <1>11 DEF RoomLeft

LEMMA MarkLeavesRoom ==
    ASSUME OutboxInv, OutboxInv', AttemptsInv, LoneWorker, NEW d \in Drains, Mark(d)
    PROVE  FetchedOnce' /\ \A e \in Events : RoomLeft(e)'
<1>1. MarkedBy(d) /\ step[d] = "mark"
  BY MarkEffect DEF Mark
<1>2. FetchedOnce'
  BY <1>1 DEF FetchedOnce, MarkedBy, AttemptsInv
<1>3. ASSUME NEW e \in Events PROVE RoomLeft(e)'
  <2>1. CASE e # Current(d).event
    BY <1>1, <2>1, MarkLeavesOthers
  <2>2. CASE e = Current(d).event /\ d \in Workers
    BY <1>1, <2>2, WorkerLeavesRoom
  <2>3. CASE e = Current(d).event /\ d \notin Workers
    BY <1>1, <2>3, ReplayLeavesRoom
  <2>4. QED
    BY <2>1, <2>2, <2>3
<1>4. QED
  BY <1>2, <1>3

\* A replay brings room for two attempts, takes one itself, and opens an event
\* to the worker only by one more.
LEMMA ReplayBringsRoom ==
    ASSUME OutboxInv, OutboxInv', AttemptsInv, NEW d \in Drains,
           NEW es \in SUBSET Events, Replay(d, es)
    PROVE  FetchedOnce' /\ \A e \in Events : RoomLeft(e)'
<1>1. /\ taken' = taken /\ answer' = answer /\ count' = count
      /\ replays' = replays + 1
      /\ step[d] = "idle" /\ step'[d] = "fetch"
      /\ \A b \in Drains : b # d => step'[b] = step[b]
  BY DEF Replay, OutboxInv, OutboxTypeOK
<1>2. \A e \in Events : row'[e].attempts = row[e].attempts
  BY DEF Replay, OutboxInv, OutboxTypeOK, Row
<1>3. FetchedOnce'
  BY <1>1 DEF FetchedOnce, AttemptsInv
<1>4. ASSUME NEW e \in Events PROVE RoomLeft(e)'
  <2>1. /\ IsFiniteSet(Replaying(e)) /\ Cardinality(Replaying(e)) \in Nat
        /\ replays \in Nat /\ MaxAttempts \in Nat /\ Needs(e) \in 0..2
        /\ \A b \in Drains : Marking(b, e) => Holds(b, e)
    BY RoomFacts
  <2>2. \A b \in Drains : (Holds(b, e)' <=> Holds(b, e))
    BY <1>1 DEF Holds
  <2>3. \A b \in Drains : Marking(b, e)' <=> Marking(b, e)
    <3>1. ~Marking(d, e)' /\ ~Marking(d, e)
      BY <1>1 DEF Marking
    <3>2. QED
      BY <1>1, <3>1, SameDrain
  <2>4. Replaying(e)' \subseteq Replaying(e) \cup {d}
    BY <1>1, <2>2 DEF Replaying
  <2>5. /\ Cardinality(Replaying(e)') \in Nat
        /\ Cardinality(Replaying(e)') <= Cardinality(Replaying(e)) + 1
    <3>1. /\ IsFiniteSet(Replaying(e) \cup {d})
          /\ Cardinality(Replaying(e) \cup {d}) <= Cardinality(Replaying(e)) + 1
      <4> DEFINE S == Replaying(e)
      <4>1. IsFiniteSet(S) /\ Cardinality(S) \in Nat
        BY <2>1
      <4> HIDE DEF S
      <4>2. /\ IsFiniteSet(S \cup {d})
            /\ Cardinality(S \cup {d}) =
                  IF d \in S THEN Cardinality(S) ELSE Cardinality(S) + 1
        BY <4>1, FS_AddElement
      <4>3. Cardinality(S \cup {d}) <= Cardinality(S) + 1
        BY <4>1, <4>2
      <4>4. QED
        BY <4>2, <4>3 DEF S
    <3>2. /\ IsFiniteSet(Replaying(e)')
          /\ Cardinality(Replaying(e)') <= Cardinality(Replaying(e) \cup {d})
      BY <2>4, <3>1, FS_Subset
    <3>3. /\ Cardinality(Replaying(e)') \in Nat
          /\ Cardinality(Replaying(e) \cup {d}) \in Nat
      BY <3>1, <3>2, FS_CardinalityType
    <3>4. QED
      BY <2>1, <3>1, <3>2, <3>3
  <2>6. Cardinality(Replaying(e)) <= replays
    BY <1>4 DEF AttemptsInv, RoomLeft
  <2>7. /\ Cardinality(Replaying(e)') <= replays'
        /\ Spare(e) \in Int /\ Spare(e)' \in Int /\ Spare(e) + 1 <= Spare(e)'
    BY <1>1, <2>1, <2>5, <2>6 DEF Spare
  <2>8. Young(e)' => Open(e)
    <3>1. Workers \subseteq Drains
      BY OutboxAssumption
    <3>2. QED
      BY <1>1, <1>2, <2>1, <2>2, <2>3, <3>1 DEF Young, Open, Holds, MayRetry
  <2>9. Needs(e)' \in 0..2 /\ Needs(e)' <= Needs(e) + 1
    BY <2>8 DEF Needs
  <2>10. ASSUME NEW n \in Nat, IsCount(e, n)'
         PROVE  n + Needs(e)' <= MaxAttempts + Spare(e)'
    <3>1. IsCount(e, n)
      BY <1>1, <1>2, <2>3, <2>10 DEF IsCount
    <3>2. n + Needs(e) <= MaxAttempts + Spare(e)
      BY <3>1 DEF AttemptsInv, RoomLeft
    <3>3. QED
      BY <2>1, <2>7, <2>9, <3>2
  <2>11. QED
    BY <2>7, <2>10 DEF RoomLeft
<1>5. QED
  BY <1>3, <1>4

\* A new event has no attempts and no drain holds it; the others stay.
LEMMA CommitLeavesRoom ==
    ASSUME OutboxInv, OutboxInv', AttemptsInv, NEW events \in Seq(Events),
           Range(events) \subseteq Events \ Present, Commit(events)
    PROVE  FetchedOnce' /\ TakenIsStored' /\ \A e \in Events : RoomLeft(e)'
<1>1. /\ taken' = taken /\ step' = step /\ answer' = answer
      /\ count' = count /\ replays' = replays
  BY DEF Commit
<1>2. ASSUME NEW e \in Events
      PROVE  \/ row'[e] = row[e]
             \/ e \notin Present /\ row'[e].attempts = 0 /\ row'[e].status = "pending"
  <2>1. row'[e] = Inserted(events)[e]
    BY DEF Commit
  <2>2. CASE e \in Range(events)
    BY <2>1, <2>2 DEF Inserted
  <2>3. CASE e \notin Range(events)
    BY <2>1, <2>3 DEF Inserted
  <2>4. QED
    BY <2>2, <2>3
<1>3. FetchedOnce'
  BY <1>1 DEF FetchedOnce, AttemptsInv
<1>4. TakenIsStored'
  <2>1. Present \subseteq Present'
    BY <1>2 DEF Present
  <2>2. QED
    BY <1>1, <2>1 DEF TakenIsStored, AttemptsInv
<1>5. ASSUME NEW e \in Events PROVE RoomLeft(e)'
  <2>1. \A b \in Drains : /\ Holds(b, e)' <=> Holds(b, e)
                          /\ Marking(b, e)' <=> Marking(b, e)
    BY <1>1, SameDrain
  <2>2. Workers \subseteq Drains
    BY OutboxAssumption
  <2>3. Replaying(e)' \subseteq Replaying(e)
    BY <1>1, <2>1 DEF Replaying
  <2>4. RoomLeft(e)
    BY DEF AttemptsInv
  <2>5. CASE row'[e] = row[e]
    <3>1. IsPending(e)' <=> IsPending(e)
      BY <2>5 DEF IsPending
    <3>2. Open(e)' => Open(e)
      BY <2>1, <2>2, <2>5, <3>1 DEF Open
    <3>3. Young(e)' => Young(e)
      BY <1>1, <2>1, <2>2, <2>5, <3>1 DEF Young
    <3>4. \A n \in Nat : IsCount(e, n)' => IsCount(e, n)
      BY <1>1, <2>1, <2>5 DEF IsCount
    <3>5. QED
      BY <1>1, <2>3, <2>4, <3>2, <3>3, <3>4, RoomStays
  <2>6. CASE e \notin Present /\ row'[e].attempts = 0 /\ row'[e].status = "pending"
    <3>1. \A b \in Drains : ~Holds(b, e)' /\ ~Marking(b, e)'
      BY <2>1, <2>6, RoomFacts DEF Holds, AttemptsInv, TakenIsStored
    <3>2. /\ Cardinality(Replaying(e))' <= replays'
          /\ Spare(e) \in Int /\ 0 <= Spare(e) /\ Spare(e) <= Spare(e)'
      BY <1>1, <2>3, <2>4, SpareGrows, RoomFacts
    <3>3. Spare(e)' \in Int
      <4>1. IsFiniteSet(Replaying(e)')
        BY <2>3, RoomFacts, FS_Subset
      <4>2. Cardinality(Replaying(e)') \in Nat
        BY <4>1, FS_CardinalityType
      <4>3. QED
        BY <1>1, <4>2, RoomFacts DEF Spare
    <3>4. Young(e)' <=> MayRetry(0)
      BY <2>2, <2>6, <3>1 DEF Young, IsPending, MayRetry, Holds
    <3>5. Open(e)'
      BY <2>6 DEF Open, IsPending
    <3>6. Needs(e)' \in 1..2 /\ Needs(e)' <= MaxAttempts
      BY <3>4, <3>5, OutboxAssumption DEF Needs, MayRetry
    <3>7. ASSUME NEW n \in Nat, IsCount(e, n)' PROVE n = 0
      BY <2>6, <3>1, <3>7 DEF IsCount
    <3>8. \A n \in Nat : IsCount(e, n)' => n + Needs(e)' <= MaxAttempts + Spare(e)'
      BY <3>2, <3>3, <3>6, <3>7, OutboxAssumption
    <3>9. QED
      BY <3>2, <3>8 DEF RoomLeft
  <2>7. QED
    BY <1>2, <2>5, <2>6
<1>6. QED
  BY <1>3, <1>4, <1>5

-----------------------------------------------------------------------------
LEMMA InitHasRoom == OutboxInit => AttemptsInv
<1> SUFFICES ASSUME OutboxInit PROVE AttemptsInv
  OBVIOUS
<1>1. TakenIsStored /\ FetchedOnce
  BY DEF OutboxInit, TakenIsStored, FetchedOnce
<1>2. ASSUME NEW e \in Events PROVE RoomLeft(e)
  <2>1. /\ row[e].status = "none" /\ row[e].attempts = 0 /\ replays = 0
        /\ \A d \in Drains : taken[d] = {} /\ step[d] = "idle"
    BY DEF OutboxInit, NoEvent
  <2>2. Workers \subseteq Drains /\ MaxAttempts \in Nat \ {0}
    BY OutboxAssumption
  <2>3. \A d \in Drains : ~Holds(d, e) /\ ~Marking(d, e)
    BY <2>1 DEF Holds, Marking
  <2>4. Replaying(e) = {}
    BY <2>1, <2>3 DEF Replaying
  <2>5. Cardinality(Replaying(e)) = 0 /\ Spare(e) = 0
    BY <2>1, <2>4, FS_EmptySet DEF Spare
  <2>6. ~Young(e)
    BY <2>1, <2>2 DEF Young, IsPending
  <2>7. Needs(e) \in 0..1
    BY <2>6 DEF Needs
  <2>8. \A n \in Nat : IsCount(e, n) => n = 0
    BY <2>1, <2>3 DEF IsCount
  <2>9. QED
    BY <2>1, <2>2, <2>5, <2>7, <2>8 DEF RoomLeft
<1>3. QED
  BY <1>1, <1>2 DEF AttemptsInv

LEMMA StepLeavesRoom ==
    ASSUME OutboxInv, OutboxInv', LoneWorker, AttemptsInv, [OutboxNext]_outbox
    PROVE  AttemptsInv'
<1> USE DEF AttemptsInv
<1>1. CASE Produce
  <2>1. PICK e, f \in Events \ Present : Commit(IF e = f THEN <<e>> ELSE <<e, f>>)
    BY <1>1 DEF Produce
  <2> DEFINE events == IF e = f THEN <<e>> ELSE <<e, f>>
  <2>2. events \in Seq(Events) /\ Range(events) \subseteq Events \ Present
    BY DEF Range
  <2>3. QED
    BY <2>1, <2>2, CommitLeavesRoom
<1>2. CASE Deliver
  <2>1. TakenIsStored'
    BY <1>2, DeliverMovesNone
  <2>2. CASE \E d \in Drains : Drain(d)
    BY <2>1, <2>2, FetchLeavesRoom, PostLeavesRoom, MarkLeavesRoom DEF Drain
  <2>3. CASE \E d \in Drains, es \in SUBSET Events : Replay(d, es)
    BY <2>1, <2>3, ReplayBringsRoom
  <2>4. CASE (\E d \in Drains : Crash(d)) \/ (\E e \in Events : Discard(e)) \/ Configure
    BY <2>1, <2>4, StopLeavesRoom
  <2>5. QED
    BY <1>2, <2>2, <2>3, <2>4 DEF Deliver
<1>3. CASE UNCHANGED outbox
  <2>1. /\ row' = row /\ taken' = taken /\ step' = step /\ answer' = answer
        /\ count' = count /\ replays' = replays
    BY <1>3 DEF outbox
  <2>2. TakenIsStored' /\ FetchedOnce'
    BY <2>1 DEF TakenIsStored, Present, FetchedOnce
  <2>3. QED
    BY <2>1, <2>2, IdleLeavesRoom
<1>4. QED
  BY <1>1, <1>2, <1>3 DEF OutboxNext

\* With one worker, retrying stops: an event never has more attempts than are
\* allowed and two for each replay, for any number of replays and batch size.
THEOREM RetryingStops == OutboxSpec => []AttemptsBounded
<1> DEFINE Inv == OutboxInv /\ (LoneWorker => AttemptsInv)
<1>1. OutboxInit => Inv
  BY InitHolds, InitHasRoom
<1>2. Inv /\ [OutboxNext]_outbox => Inv'
  <2>1. SUFFICES ASSUME Inv, [OutboxNext]_outbox PROVE Inv'
    OBVIOUS
  <2>2. OutboxInv'
    BY <2>1, StepKeeps
  <2>3. LoneWorker => AttemptsInv'
    BY <2>1, <2>2, StepLeavesRoom
  <2>4. QED
    BY <2>2, <2>3 DEF LoneWorker
<1>3. Inv => AttemptsBounded
  <2>1. SUFFICES ASSUME Inv, LoneWorker, NEW e \in Events
                 PROVE  row[e].attempts <= MaxAttempts + 2 * replays
    BY DEF AttemptsBounded, LoneWorker
  <2>2. row[e].attempts + Needs(e) <= MaxAttempts + Spare(e)
    BY <2>1, RoomFacts DEF AttemptsInv, RoomLeft, IsCount
  <2>3. QED
    BY <2>1, <2>2, RoomFacts DEF Spare
<1>4. QED
  BY <1>1, <1>2, <1>3, PTL DEF OutboxSpec
=============================================================================

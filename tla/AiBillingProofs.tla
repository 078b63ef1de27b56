---------------------------- MODULE AiBillingProofs ----------------------------
(***************************************************************************)
(* What a chat costs, for any chats, charges, balance and bounds, whatever *)
(* is late, lost or cut off; and that a quota is not exceeded.             *)
(***************************************************************************)
EXTENDS AiBilling, Sums, TLAPS

ChatOK(c) == StageMatchesCalls(c) /\ CallsMatchBookings(c) /\ OneEnding(c)

\* A step of one chat leaves the others, and the metered calls, alone.
LeavesOthers(c) ==
    /\ \A d \in Chats \ {c} :
          /\ chat'[d] = chat[d] /\ call'[d] = call[d] /\ hold'[d] = hold[d]
          /\ booked'[d] = booked[d] /\ (d \in timedOut' <=> d \in timedOut)
    /\ UNCHANGED quota

LEMMA OthersStayOK ==
    ASSUME IInv, NEW c \in Chats, LeavesOthers(c),
           TypeOK', balance' >= 0, ChatOK(c)'
    PROVE  IInv'
<1>1. ASSUME NEW d \in Chats \ {c} PROVE ChatOK(d)'
  <2>1. ChatOK(d)
    BY DEF IInv, ChatOK
  <2>2. /\ chat'[d] = chat[d] /\ call'[d] = call[d] /\ hold'[d] = hold[d]
        /\ booked'[d] = booked[d] /\ (d \in timedOut' <=> d \in timedOut)
    BY DEF LeavesOthers
  <2>3. QED
    BY <2>1, <2>2 DEF ChatOK, StageMatchesCalls, CallsMatchBookings, OneEnding,
                      Adjusted, Delta
<1>2. SeenBelowQuota' /\ CountedWithinQuota'
  BY DEF IInv, LeavesOthers, quota, SeenBelowQuota, CountedWithinQuota
<1>3. QED
  BY <1>1, <1>2 DEF IInv, ChatOK

LEMMA AnswerEffect ==
    ASSUME TypeOK, NEW c \in Chats, NEW op \in Ops, NEW state \in CallStates,
           Answer(c, op, state)
    PROVE  /\ call' \in [Chats -> [Ops -> CallStates]]
           /\ call'[c][op] = state
           /\ \A o \in Ops \ {op} : call'[c][o] = call[c][o]
           /\ \A d \in Chats \ {c} : call'[d] = call[d]
<1>1. call' = [call EXCEPT ![c] = [call[c] EXCEPT ![op] = state]]
  BY DEF Answer, TypeOK
<1>2. call[c] \in [Ops -> CallStates]
  BY DEF TypeOK
<1> DEFINE new == [call[c] EXCEPT ![op] = state]
<1>3. new \in [Ops -> CallStates] /\ new[op] = state
      /\ \A o \in Ops \ {op} : new[o] = call[c][o]
  BY <1>2
<1> HIDE DEF new
<1>4. call' = [call EXCEPT ![c] = new]
  BY <1>1 DEF new
<1>5. QED
  BY <1>3, <1>4 DEF TypeOK

LEMMA BookEffect ==
    ASSUME TypeOK, NEW c \in Chats, NEW b \in Bookings, NEW amount \in Int,
           Book(c, b, amount)
    PROVE  /\ booked' \in [Chats -> [Bookings -> Int]]
           /\ booked'[c][b] = amount
           /\ \A o \in Bookings \ {b} : booked'[c][o] = booked[c][o]
           /\ \A d \in Chats \ {c} : booked'[d] = booked[d]
           /\ balance' = balance + amount /\ balance' \in Int
<1> DEFINE new == [booked[c] EXCEPT ![b] = amount]
<1>1. booked' = [booked EXCEPT ![c] = new]
  BY DEF Book, TypeOK
<1>2. booked[c] \in [Bookings -> Int]
  BY DEF TypeOK
<1>3. new \in [Bookings -> Int] /\ new[b] = amount
      /\ \A o \in Bookings \ {b} : new[o] = booked[c][o]
  BY <1>2
<1> HIDE DEF new
<1>4. QED
  BY <1>1, <1>3 DEF Book, TypeOK

LEMMA Names ==
    /\ {"preauth", "settle", "release"} = Ops
    /\ {"preauth", "extra", "refund", "release"} = Bookings
    /\ {"none", "sent", "read", "ok", "refused", "lost"} = CallStates
    /\ {"none", "held", "settled", "released"} = HoldStates
BY DEF Ops, Bookings, CallStates, HoldStates

LEMMA GoesEffect ==
    ASSUME TypeOK, NEW c \in Chats, NEW stage \in Stages, Goes(c, stage)
    PROVE  /\ chat' \in [Chats -> Stages]
           /\ chat'[c] = stage
           /\ \A d \in Chats \ {c} : chat'[d] = chat[d]
BY DEF Goes, TypeOK

\* What is known of one chat.
LEMMA Shape ==
    ASSUME AiBillingAssumption, IInv, NEW c \in Chats
    PROVE  /\ chat[c] \in Stages /\ hold[c] \in HoldStates
           /\ call[c]["preauth"] \in CallStates
           /\ call[c]["settle"] \in CallStates
           /\ call[c]["release"] \in CallStates
           /\ booked[c]["preauth"] \in Int /\ booked[c]["extra"] \in Int
           /\ booked[c]["refund"] \in Int /\ booked[c]["release"] \in Int
           /\ Reserve[c] \in Nat \ {0} /\ Actual[c] \in Nat
           /\ ChatOK(c)
<1>1. /\ call[c] \in [Ops -> CallStates] /\ booked[c] \in [Bookings -> Int]
      /\ chat[c] \in Stages /\ hold[c] \in HoldStates
  BY DEF IInv, TypeOK
<1>2. Reserve[c] \in Nat \ {0} /\ Actual[c] \in Nat
  BY DEF AiBillingAssumption
<1>3. QED
  BY <1>1, <1>2 DEF Ops, Bookings, IInv, ChatOK

\* A step of the handler that makes no call: it changes the stage alone.
LEMMA StageStep ==
    ASSUME AiBillingAssumption, IInv, NEW c \in Chats,
           NEW stage \in Stages, Goes(c, stage),
           UNCHANGED <<call, hold, booked, balance, timedOut, quota>>,
           disturbed' \subseteq Chats, timeouts' \in Nat, faults' \in Nat,
           StageMatchesCalls(c)'
    PROVE  IInv'
<1>1. TypeOK
  BY DEF IInv
<1>2. /\ chat' \in [Chats -> Stages] /\ chat'[c] = stage
      /\ \A d \in Chats \ {c} : chat'[d] = chat[d]
  BY <1>1, GoesEffect
<1>3. TypeOK' /\ balance' >= 0
  BY <1>1, <1>2 DEF TypeOK, quota, IInv
<1>4. LeavesOthers(c)
  BY <1>2 DEF LeavesOthers
<1>5. ChatOK(c)'
  BY Shape DEF ChatOK, CallsMatchBookings, OneEnding, Adjusted, Delta
<1>6. QED
  BY <1>3, <1>4, <1>5, OthersStayOK

\* A step of the handler that sends a call.
LEMMA SendStep ==
    ASSUME AiBillingAssumption, IInv, NEW c \in Chats, NEW op \in Ops,
           chat[c] \notin Ended, Sends(c, op),
           \/ op = "preauth" /\ chat[c] = "new"
           \/ op = "settle" /\ chat[c] = "provider"
           \/ op = "release" /\ chat[c] = "note"
           \/ op = "release" /\ chat[c] = "settle" /\ call[c]["settle"] = "refused",
           UNCHANGED <<hold, booked, balance, timedOut, disturbed, timeouts,
                       faults, quota>>
    PROVE  IInv'
<1>1. TypeOK
  BY DEF IInv
<1>2. op \in Stages /\ "sent" \in CallStates
  BY DEF Ops, Stages, CallStates
<1>3. /\ chat' \in [Chats -> Stages] /\ chat'[c] = op
      /\ \A d \in Chats \ {c} : chat'[d] = chat[d]
  BY <1>1, <1>2, GoesEffect DEF Sends
<1>4. /\ call' \in [Chats -> [Ops -> CallStates]] /\ call'[c][op] = "sent"
      /\ \A o \in Ops \ {op} : call'[c][o] = call[c][o]
      /\ \A d \in Chats \ {c} : call'[d] = call[d]
  BY <1>1, <1>2, AnswerEffect DEF Sends
<1>5. TypeOK' /\ balance' >= 0
  BY <1>1, <1>3, <1>4 DEF TypeOK, quota, IInv
<1>6. LeavesOthers(c)
  BY <1>3, <1>4 DEF LeavesOthers
<1>7. StageMatchesCalls(c)'
  BY <1>3, <1>4, Shape DEF ChatOK, StageMatchesCalls, OneEnding,
     CallsMatchBookings, Ops
<1>8. CallsMatchBookings(c)'
  BY <1>3, <1>4, Shape DEF ChatOK, StageMatchesCalls, CallsMatchBookings,
     Ops, Adjusted, Delta
<1>9. OneEnding(c)'
  BY <1>3, <1>4, Shape DEF ChatOK, StageMatchesCalls, CallsMatchBookings,
     OneEnding, Ops
<1>10. QED
  BY <1>5, <1>6, <1>7, <1>8, <1>9, OthersStayOK DEF ChatOK

LEMMA HandlerPreserves ==
    ASSUME AiBillingAssumption, IInv, NEW c \in Chats, Handler(c)
    PROVE  IInv'
<1>1. /\ timeouts \in Nat /\ faults \in Nat /\ disturbed \subseteq Chats
      /\ ChatOK(c)
  BY Shape DEF IInv, TypeOK
<1>2. CASE Preauthorize(c)
  BY <1>2, SendStep DEF Preauthorize, Ops, Ended
<1>3. CASE Settle(c)
  BY <1>3, SendStep DEF Settle, Ops, Ended
<1>4. CASE SaveFailureLog(c)
  BY <1>4, SendStep DEF SaveFailureLog, Ops, Ended
<1>5. CASE Preauthorized(c)
  <2>1. PICK stage \in {"provider", "failed"} :
          /\ Goes(c, stage)
          /\ stage = "provider" => call[c]["preauth"] = "ok"
    BY <1>5 DEF Preauthorized
  <2>2. stage \in Stages /\ chat'[c] = stage
    BY <2>1, GoesEffect DEF Stages, IInv
  <2>3. StageMatchesCalls(c)'
    BY <1>1, <1>5, <2>1, <2>2 DEF Preauthorized, ChatOK, StageMatchesCalls
  <2>4. QED
    BY <1>1, <1>5, <2>1, <2>2, <2>3, StageStep DEF Preauthorized
<1>6. CASE ProviderFails(c)
  <2>1. "note" \in Stages /\ chat'[c] = "note"
    BY <1>6, GoesEffect DEF Stages, IInv, ProviderFails
  <2>2. StageMatchesCalls(c)'
    BY <1>1, <1>6, <2>1 DEF ProviderFails, ChatOK, StageMatchesCalls
  <2>3. QED
    BY <1>1, <1>6, <2>1, <2>2, StageStep DEF ProviderFails
<1>7. CASE Settled(c)
  <2>1. CASE call[c]["settle"] = "ok"
    <3>1. "log" \in Stages /\ Goes(c, "log") /\ UNCHANGED call
      BY <1>7, <2>1 DEF Stages, Settled
    <3>2. chat'[c] = "log"
      BY <3>1, GoesEffect DEF IInv
    <3>3. StageMatchesCalls(c)'
      BY <1>1, <1>7, <2>1, <3>1, <3>2 DEF Settled, ChatOK, StageMatchesCalls
    <3>4. QED
      BY <1>1, <1>7, <3>1, <3>3, StageStep DEF Settled
  <2>2. CASE call[c]["settle"] = "refused" /\ Sends(c, "release")
    BY <1>7, <2>2, SendStep DEF Settled, Ops, Ended
  <2>3. CASE /\ call[c]["settle"] = "refused"
             /\ Goes(c, "note") /\ UNCHANGED call
    <3>1. "note" \in Stages /\ chat'[c] = "note"
      BY <2>3, GoesEffect DEF Stages, IInv
    <3>2. StageMatchesCalls(c)'
      BY <1>1, <1>7, <2>3, <3>1 DEF Settled, ChatOK, StageMatchesCalls
    <3>3. QED
      BY <1>1, <1>7, <2>3, <3>1, <3>2, StageStep DEF Settled
  <2>4. QED
    BY <1>7, <2>1, <2>2, <2>3 DEF Settled
<1>8. CASE SaveSuccessLog(c)
  <2>1. "answered" \in Stages /\ chat'[c] = "answered"
    BY <1>8, GoesEffect DEF Stages, IInv, SaveSuccessLog
  <2>2. StageMatchesCalls(c)'
    BY <1>1, <1>8, <2>1 DEF SaveSuccessLog, ChatOK, StageMatchesCalls
  <2>3. QED
    BY <1>1, <1>8, <2>1, <2>2, StageStep DEF SaveSuccessLog
<1>9. CASE Released(c)
  <2>1. "failed" \in Stages /\ chat'[c] = "failed"
    BY <1>9, GoesEffect DEF Stages, IInv, Released
  <2>2. StageMatchesCalls(c)'
    BY <1>1, <1>9, <2>1 DEF Released, ChatOK, StageMatchesCalls
  <2>3. QED
    BY <1>1, <1>9, <2>1, <2>2, StageStep DEF Released
<1>10. QED
  BY <1>2, <1>3, <1>4, <1>5, <1>6, <1>7, <1>8, <1>9 DEF Handler

LEMMA FaultsPreserve ==
    ASSUME AiBillingAssumption, IInv, NEW c \in Chats, LogFails(c) \/ CutOff(c)
    PROVE  IInv'
<1>1. PICK stage \in {"note", "failed"} :
        /\ Goes(c, stage)
        /\ stage = "note" => chat[c] = "log"
  BY DEF LogFails, CutOff
<1>2. stage \in Stages /\ chat'[c] = stage
  BY <1>1, GoesEffect DEF Stages, IInv
<1>3. UNCHANGED <<call, hold, booked, balance, timedOut, quota>>
  BY DEF LogFails, CutOff
<1>4. disturbed' \subseteq Chats /\ timeouts' \in Nat /\ faults' \in Nat
  BY DEF LogFails, CutOff, IInv, TypeOK
<1>5. chat[c] # "new" /\ ChatOK(c)
  BY Shape DEF LogFails, CutOff
<1>6. StageMatchesCalls(c)'
  BY <1>1, <1>2, <1>3, <1>5 DEF ChatOK, StageMatchesCalls
<1>7. QED
  BY <1>1, <1>2, <1>3, <1>4, <1>6, StageStep

LEMMA TimeOutPreserves ==
    ASSUME AiBillingAssumption, IInv, NEW c \in Chats, TimeOut(c)
    PROVE  IInv'
<1> DEFINE op == chat[c]
           stage == IF op = "settle" THEN "note" ELSE "failed"
<1>1. TypeOK
  BY DEF IInv
<1>2. op \in Ops /\ stage \in Stages /\ "lost" \in CallStates
  BY DEF TimeOut, Ops, Stages, CallStates
<1>3. /\ chat' \in [Chats -> Stages] /\ chat'[c] = stage
      /\ \A d \in Chats \ {c} : chat'[d] = chat[d]
  BY <1>1, <1>2, GoesEffect DEF TimeOut
<1>4. /\ call' \in [Chats -> [Ops -> CallStates]]
      /\ \/ call'[c][op] = call[c][op]
         \/ call[c][op] = "sent" /\ call'[c][op] = "lost"
      /\ \A o \in Ops \ {op} : call'[c][o] = call[c][o]
      /\ \A d \in Chats \ {c} : call'[d] = call[d]
  <2>1. CASE UNCHANGED call
    BY <1>1, <2>1 DEF TypeOK
  <2>2. CASE call[c][op] = "sent" /\ Answer(c, op, "lost")
    BY <1>1, <1>2, <2>2, AnswerEffect
  <2>3. QED
    BY <2>1, <2>2 DEF TimeOut
<1>5. /\ call[c][op] \notin {"ok", "refused"}
      /\ UNCHANGED <<hold, booked, balance, faults, quota>>
      /\ timedOut' = IF op = "settle" THEN timedOut \cup {c} ELSE timedOut
      /\ disturbed' = disturbed \cup {c} /\ timeouts' = timeouts + 1
  BY DEF TimeOut
<1>6. TypeOK' /\ balance' >= 0
  BY <1>1, <1>3, <1>4, <1>5 DEF TypeOK, quota, IInv
<1>7. LeavesOthers(c)
  BY <1>3, <1>4, <1>5 DEF LeavesOthers
<1>8. StageMatchesCalls(c)'
  BY <1>2, <1>3, <1>4, <1>5, Shape DEF ChatOK, StageMatchesCalls, Ops
<1>9. CallsMatchBookings(c)'
  BY <1>2, <1>3, <1>4, <1>5, Shape DEF ChatOK, CallsMatchBookings, Ops, Adjusted, Delta
<1>10. OneEnding(c)'
  BY <1>2, <1>3, <1>4, <1>5, Shape DEF ChatOK, OneEnding, Ops
<1>11. QED
  BY <1>6, <1>7, <1>8, <1>9, <1>10, OthersStayOK DEF ChatOK

\* A step of the wallet that only looks at the hold.
LEMMA ReadsPreserve ==
    ASSUME AiBillingAssumption, IInv, NEW c \in Chats,
           SettleReads(c) \/ ReleaseReads(c)
    PROVE  IInv'
<1>1. TypeOK /\ ChatOK(c)
  BY Shape DEF IInv
<1>2. PICK op \in {"settle", "release"}, state \in {"read", "ok", "refused"} :
        /\ call[c][op] = "sent"
        /\ Answer(c, op, state)
        /\ op = "settle" => state = CASE hold[c] = "held" -> "read"
                                      [] hold[c] = "settled" -> "ok"
                                      [] OTHER -> "refused"
        /\ op = "release" => state = IF hold[c] = "held" THEN "read" ELSE "ok"
  BY DEF SettleReads, ReleaseReads
<1>3. op \in Ops /\ state \in CallStates
  BY DEF Ops, CallStates
<1>4. /\ call' \in [Chats -> [Ops -> CallStates]] /\ call'[c][op] = state
      /\ \A o \in Ops \ {op} : call'[c][o] = call[c][o]
      /\ \A d \in Chats \ {c} : call'[d] = call[d]
  BY <1>1, <1>2, <1>3, AnswerEffect
<1>5. UNCHANGED <<chat, hold, booked, balance, timedOut, disturbed, timeouts,
                  faults, quota>>
  BY DEF SettleReads, ReleaseReads
<1>6. TypeOK' /\ balance' >= 0
  BY <1>1, <1>4, <1>5 DEF TypeOK, quota, IInv
<1>7. LeavesOthers(c)
  BY <1>4, <1>5 DEF LeavesOthers
<1>8. StageMatchesCalls(c)'
  BY <1>2, <1>3, <1>4, <1>5, Shape DEF ChatOK, StageMatchesCalls, Ops
<1>9. CallsMatchBookings(c)'
  BY <1>2, <1>3, <1>4, <1>5, Shape
     DEF ChatOK, CallsMatchBookings, Ops, Adjusted, Delta, HoldStates
<1>10. OneEnding(c)'
  BY <1>2, <1>3, <1>4, <1>5, Shape
     DEF ChatOK, OneEnding, CallsMatchBookings, Ops, HoldStates
<1>11. QED
  BY <1>6, <1>7, <1>8, <1>9, <1>10, OthersStayOK DEF ChatOK

LEMMA PreauthorizePreserves ==
    ASSUME AiBillingAssumption, IInv, NEW c \in Chats, PreauthorizeAiUsage(c)
    PROVE  IInv'
<1>1. TypeOK /\ ChatOK(c) /\ Reserve[c] \in Nat \ {0} /\ balance \in Int
  BY Shape DEF IInv, TypeOK
<1>2. call[c]["preauth"] = "sent" /\ hold[c] = "none"
  BY <1>1 DEF PreauthorizeAiUsage, ChatOK, CallsMatchBookings
<1>3. UNCHANGED <<chat, timedOut, disturbed, timeouts, faults, quota>>
  BY DEF PreauthorizeAiUsage
<1>4. PICK state \in {"ok", "refused"} :
        /\ Answer(c, "preauth", state)
        /\ state = "ok" => /\ Book(c, "preauth", -Reserve[c])
                           /\ hold' = [hold EXCEPT ![c] = "held"]
                           /\ balance - Reserve[c] >= 0
        /\ state = "refused" => UNCHANGED <<hold, booked, balance>>
  BY <1>1 DEF PreauthorizeAiUsage, Affords
<1>5. "preauth" \in Ops /\ state \in CallStates /\ "preauth" \in Bookings
  BY DEF Ops, CallStates, Bookings
<1>6. /\ call' \in [Chats -> [Ops -> CallStates]] /\ call'[c]["preauth"] = state
      /\ \A o \in Ops \ {"preauth"} : call'[c][o] = call[c][o]
      /\ \A d \in Chats \ {c} : call'[d] = call[d]
  BY <1>1, <1>4, <1>5, AnswerEffect
<1>7. CASE state = "refused"
  <2>1. TypeOK' /\ balance' >= 0
    BY <1>1, <1>3, <1>4, <1>6, <1>7 DEF TypeOK, quota, IInv
  <2>2. LeavesOthers(c)
    BY <1>3, <1>4, <1>6, <1>7 DEF LeavesOthers
  <2>3. ChatOK(c)'
    BY <1>2, <1>3, <1>4, <1>6, <1>7, Shape
       DEF ChatOK, StageMatchesCalls, CallsMatchBookings, OneEnding, Ops,
           Adjusted, Delta
  <2>4. QED
    BY <2>1, <2>2, <2>3, OthersStayOK
<1>8. CASE state = "ok"
  <2>1. /\ booked' \in [Chats -> [Bookings -> Int]]
        /\ booked'[c]["preauth"] = -Reserve[c]
        /\ \A o \in Bookings \ {"preauth"} : booked'[c][o] = booked[c][o]
        /\ \A d \in Chats \ {c} : booked'[d] = booked[d]
        /\ balance' = balance - Reserve[c] /\ balance' \in Int
    BY <1>1, <1>4, <1>5, <1>8, BookEffect
  <2>2. /\ hold' \in [Chats -> HoldStates] /\ hold'[c] = "held"
        /\ \A d \in Chats \ {c} : hold'[d] = hold[d]
    BY <1>1, <1>4, <1>8 DEF TypeOK, HoldStates
  <2>3. TypeOK' /\ balance' >= 0
    BY <1>1, <1>3, <1>4, <1>6, <1>8, <2>1, <2>2 DEF TypeOK, quota
  <2>4. LeavesOthers(c)
    BY <1>3, <1>6, <2>1, <2>2 DEF LeavesOthers
  <2>5. /\ call[c]["settle"] = "none" /\ call[c]["release"] = "none"
        /\ booked[c]["release"] = 0 /\ booked[c]["extra"] = 0
        /\ booked[c]["refund"] = 0
    BY <1>1, <1>2, Shape DEF ChatOK, CallsMatchBookings
  <2>6. ChatOK(c)'
    BY <1>2, <1>3, <1>6, <1>8, <2>1, <2>2, <2>5, Shape
       DEF ChatOK, StageMatchesCalls, CallsMatchBookings, OneEnding, Ops,
           Bookings, Adjusted, Delta
  <2>7. QED
    BY <2>3, <2>4, <2>6, OthersStayOK
<1>9. QED
  BY <1>4, <1>7, <1>8

LEMMA ReleasePreserves ==
    ASSUME AiBillingAssumption, IInv, NEW c \in Chats, ReleaseAiUsage(c)
    PROVE  IInv'
<1>1. TypeOK /\ ChatOK(c) /\ Reserve[c] \in Nat \ {0} /\ balance >= 0
      /\ balance \in Int
  BY Shape DEF IInv, TypeOK
<1>2. /\ call[c]["release"] = "read"
      /\ Book(c, "release", Reserve[c])
      /\ hold' = [hold EXCEPT ![c] = "released"]
      /\ Answer(c, "release", "ok")
      /\ UNCHANGED <<chat, timedOut, disturbed, timeouts, faults, quota>>
  BY DEF ReleaseAiUsage
<1>3. "release" \in Ops /\ "ok" \in CallStates /\ "release" \in Bookings
  BY DEF Ops, CallStates, Bookings
<1>4. /\ call' \in [Chats -> [Ops -> CallStates]] /\ call'[c]["release"] = "ok"
      /\ \A o \in Ops \ {"release"} : call'[c][o] = call[c][o]
      /\ \A d \in Chats \ {c} : call'[d] = call[d]
  BY <1>1, <1>2, <1>3, AnswerEffect
<1>5. /\ booked' \in [Chats -> [Bookings -> Int]]
      /\ booked'[c]["release"] = Reserve[c]
      /\ \A o \in Bookings \ {"release"} : booked'[c][o] = booked[c][o]
      /\ \A d \in Chats \ {c} : booked'[d] = booked[d]
      /\ balance' = balance + Reserve[c] /\ balance' \in Int
  BY <1>1, <1>2, <1>3, BookEffect
<1>6. /\ hold' \in [Chats -> HoldStates] /\ hold'[c] = "released"
      /\ \A d \in Chats \ {c} : hold'[d] = hold[d]
  BY <1>1, <1>2 DEF TypeOK, HoldStates
<1>7. TypeOK' /\ balance' >= 0
  BY <1>1, <1>2, <1>4, <1>5, <1>6 DEF TypeOK, quota
<1>8. LeavesOthers(c)
  BY <1>2, <1>4, <1>5, <1>6 DEF LeavesOthers
<1>9. StageMatchesCalls(c)'
  BY <1>1, <1>2, <1>4 DEF ChatOK, StageMatchesCalls, Ops
<1>10. CallsMatchBookings(c)'
  <2>1. call[c]["preauth"] = "ok" /\ hold[c] # "none"
    BY <1>1, <1>2 DEF ChatOK, CallsMatchBookings
  <2>2. QED
    BY <1>1, <1>2, <1>4, <1>5, <1>6, <2>1
       DEF ChatOK, CallsMatchBookings, Ops, Bookings, Adjusted, Delta
<1>11. OneEnding(c)'
  BY <1>1, <1>2, <1>4, <1>5, <1>6
     DEF ChatOK, OneEnding, CallsMatchBookings, Ops
<1>12. QED
  BY <1>7, <1>8, <1>9, <1>10, <1>11, OthersStayOK DEF ChatOK

LEMMA SettlePreserves ==
    ASSUME AiBillingAssumption, IInv, NEW c \in Chats, SettleAiUsage(c)
    PROVE  IInv'
<1>1. /\ TypeOK /\ ChatOK(c) /\ balance >= 0 /\ balance \in Int
      /\ Reserve[c] \in Nat \ {0} /\ Actual[c] \in Nat
      /\ Delta(c) \in Int
  BY Shape DEF IInv, TypeOK, Delta
<1>2. /\ call[c]["settle"] = "read"
      /\ UNCHANGED <<chat, timedOut, disturbed, timeouts, faults, quota>>
  BY DEF SettleAiUsage
<1>3. "settle" \in Ops /\ "ok" \in CallStates /\ "refused" \in CallStates
      /\ "extra" \in Bookings /\ "refund" \in Bookings
  BY DEF Ops, CallStates, Bookings
<1>4. CASE ~Affords(-Delta(c))
  <2>1. Answer(c, "settle", "refused") /\ UNCHANGED <<hold, booked, balance>>
    BY <1>4 DEF SettleAiUsage
  <2>2. /\ call' \in [Chats -> [Ops -> CallStates]]
        /\ call'[c]["settle"] = "refused"
        /\ \A o \in Ops \ {"settle"} : call'[c][o] = call[c][o]
        /\ \A d \in Chats \ {c} : call'[d] = call[d]
    BY <1>1, <1>3, <2>1, AnswerEffect
  <2>3. TypeOK' /\ balance' >= 0
    BY <1>1, <1>2, <2>1, <2>2 DEF TypeOK, quota
  <2>4. LeavesOthers(c)
    BY <1>2, <2>1, <2>2 DEF LeavesOthers
  <2>5. StageMatchesCalls(c)' /\ OneEnding(c)'
    BY <1>1, <1>2, <2>1, <2>2 DEF ChatOK, StageMatchesCalls, OneEnding, Ops
  <2>6. CallsMatchBookings(c)'
    BY <1>1, <1>2, <2>1, <2>2
       DEF ChatOK, CallsMatchBookings, Ops, Adjusted, Delta
  <2>7. QED
    BY <2>3, <2>4, <2>5, <2>6, OthersStayOK DEF ChatOK
<1>5. CASE Affords(-Delta(c))
  <2>1. /\ hold' = [hold EXCEPT ![c] = "settled"]
        /\ Answer(c, "settle", "ok")
        /\ Delta(c) > 0 => Book(c, "extra", -Delta(c))
        /\ Delta(c) < 0 => Book(c, "refund", -Delta(c))
        /\ Delta(c) = 0 => UNCHANGED <<booked, balance>>
    BY <1>1, <1>5 DEF SettleAiUsage
  <2>2. /\ call' \in [Chats -> [Ops -> CallStates]]
        /\ call'[c]["settle"] = "ok"
        /\ \A o \in Ops \ {"settle"} : call'[c][o] = call[c][o]
        /\ \A d \in Chats \ {c} : call'[d] = call[d]
    BY <1>1, <1>3, <2>1, AnswerEffect
  <2>3. /\ hold' \in [Chats -> HoldStates] /\ hold'[c] = "settled"
        /\ \A d \in Chats \ {c} : hold'[d] = hold[d]
    BY <1>1, <2>1 DEF TypeOK, HoldStates
  <2>4. booked[c]["extra"] = 0 /\ booked[c]["refund"] = 0
    BY <1>1, <1>2 DEF ChatOK, CallsMatchBookings
  <2>5. /\ booked' \in [Chats -> [Bookings -> Int]]
        /\ booked'[c]["extra"] + booked'[c]["refund"] = -Delta(c)
        /\ booked'[c]["preauth"] = booked[c]["preauth"]
        /\ booked'[c]["release"] = booked[c]["release"]
        /\ \A d \in Chats \ {c} : booked'[d] = booked[d]
        /\ balance' \in Int /\ balance' = balance - Delta(c)
    <3>1. CASE Delta(c) > 0
      BY <1>1, <1>3, <2>1, <2>4, <3>1, BookEffect DEF Bookings
    <3>2. CASE Delta(c) < 0
      BY <1>1, <1>3, <2>1, <2>4, <3>2, BookEffect DEF Bookings
    <3>3. CASE Delta(c) = 0
      BY <1>1, <2>1, <2>4, <3>3 DEF TypeOK
    <3>4. QED
      BY <1>1, <3>1, <3>2, <3>3
  <2>6. TypeOK' /\ balance' >= 0
    BY <1>1, <1>2, <1>5, <2>2, <2>3, <2>5 DEF TypeOK, quota, Affords
  <2>7. LeavesOthers(c)
    BY <1>2, <2>2, <2>3, <2>5 DEF LeavesOthers
  <2>8. StageMatchesCalls(c)'
    BY <1>1, <1>2, <2>2 DEF ChatOK, StageMatchesCalls, Ops
  <2>9. CallsMatchBookings(c)'
    <3>1. call[c]["preauth"] = "ok" /\ hold[c] # "none"
      BY <1>1, <1>2 DEF ChatOK, CallsMatchBookings
    <3>2. Adjusted(c)' = -Delta(c)'
      BY <2>5 DEF Adjusted, Delta
    <3>3. QED
      BY <1>1, <2>2, <2>3, <2>5, <3>1, <3>2 DEF ChatOK, CallsMatchBookings, Ops
  <2>10. OneEnding(c)'
    BY <1>1, <1>2, <2>2, <2>3, <2>5 DEF ChatOK, OneEnding, CallsMatchBookings, Ops
  <2>11. QED
    BY <2>6, <2>7, <2>8, <2>9, <2>10, OthersStayOK DEF ChatOK
<1>6. QED
  BY <1>4, <1>5

\* Metered calls and the end of the month do not touch the chats.
LEMMA MeteredPreserves ==
    ASSUME AiBillingAssumption, IInv,
           \/ MonthlyReset
           \/ \E m \in Metered : Require(m) \/ ConsumeReads(m) \/ ConsumeWrites(m)
    PROVE  IInv'
<1>1. UNCHANGED chats
  BY DEF MonthlyReset, Require, ConsumeReads, ConsumeWrites
<1>2. /\ meter \in [Metered -> {"new", "work", "consume", "counted",
                                "uncounted", "refused"}]
      /\ seen \in [Metered -> Nat] /\ used \in Nat /\ resets \in Nat
      /\ Total \in Nat /\ SeenBelowQuota /\ CountedWithinQuota
  BY DEF IInv, TypeOK, AiBillingAssumption
<1>3. /\ meter' \in [Metered -> {"new", "work", "consume", "counted",
                                 "uncounted", "refused"}]
      /\ seen' \in [Metered -> Nat] /\ used' \in Nat /\ resets' \in Nat
  <2>1. CASE MonthlyReset
    BY <1>2, <2>1 DEF MonthlyReset
  <2>2. ASSUME NEW m \in Metered,
               Require(m) \/ ConsumeReads(m) \/ ConsumeWrites(m)
        PROVE  <1>3!:
    BY <1>2, <2>2 DEF Require, ConsumeReads, ConsumeWrites
  <2>3. QED
    BY <2>1, <2>2
<1>4. SeenBelowQuota' /\ CountedWithinQuota'
  BY <1>2 DEF MonthlyReset, Require, ConsumeReads, ConsumeWrites,
              SeenBelowQuota, CountedWithinQuota
<1>5. TypeOK' /\ balance' >= 0
  BY <1>1, <1>3 DEF IInv, TypeOK, chats
<1>6. ASSUME NEW c \in Chats PROVE ChatOK(c)'
  BY <1>1, Shape DEF chats, ChatOK, StageMatchesCalls, CallsMatchBookings,
                     OneEnding, Adjusted, Delta
<1>7. QED
  BY <1>4, <1>5, <1>6 DEF IInv, ChatOK

LEMMA InitEstablishes ==
    ASSUME AiBillingAssumption, Init
    PROVE  IInv
<1>1. TypeOK /\ balance >= 0
  BY DEF AiBillingAssumption, Init, TypeOK, Stages, Ops, CallStates, HoldStates,
         Bookings
<1>2. ASSUME NEW c \in Chats PROVE ChatOK(c)
  BY DEF Init, ChatOK, StageMatchesCalls, CallsMatchBookings, OneEnding, Ops,
         Bookings, Adjusted, Delta
<1>3. SeenBelowQuota /\ CountedWithinQuota
  BY DEF AiBillingAssumption, Init, SeenBelowQuota, CountedWithinQuota
<1>4. QED
  BY <1>1, <1>2, <1>3 DEF IInv, ChatOK

LEMMA StepPreserves == AiBillingAssumption /\ IInv /\ [Next]_vars => IInv'
<1> SUFFICES ASSUME AiBillingAssumption, IInv, [Next]_vars
             PROVE  IInv'
  OBVIOUS
<1>1. ASSUME NEW c \in Chats, Wallet(c)
      PROVE  IInv'
  BY <1>1, PreauthorizePreserves, ReadsPreserve, SettlePreserves,
     ReleasePreserves DEF Wallet
<1>2. ASSUME NEW c \in Chats, Handler(c)
      PROVE  IInv'
  BY <1>2, HandlerPreserves
<1>3. ASSUME NEW c \in Chats, TimeOut(c) \/ LogFails(c) \/ CutOff(c)
      PROVE  IInv'
  BY <1>3, TimeOutPreserves, FaultsPreserve
<1>4. CASE UNCHANGED vars
  <2>1. TypeOK' /\ balance' >= 0 /\ SeenBelowQuota' /\ CountedWithinQuota'
    BY <1>4 DEF vars, chats, quota, IInv, TypeOK, SeenBelowQuota,
                CountedWithinQuota
  <2>2. ASSUME NEW c \in Chats PROVE ChatOK(c)'
    BY <1>4, Shape DEF vars, chats, ChatOK, StageMatchesCalls,
                       CallsMatchBookings, OneEnding, Adjusted, Delta
  <2>3. QED
    BY <2>1, <2>2 DEF IInv, ChatOK
<1>5. QED
  BY <1>1, <1>2, <1>3, <1>4, MeteredPreserves DEF Next

-----------------------------------------------------------------------------

\* The invariant holds of every behaviour: what the calls of a chat say of its
\* hold, and of what was booked for it.
THEOREM BillingInvariance == Spec => []IInv
<1>1. Init => IInv
  BY AiBillingAssumption, InitEstablishes
<1>2. IInv /\ [Next]_vars => IInv'
  BY AiBillingAssumption, StepPreserves
<1>3. QED
  BY <1>1, <1>2, PTL DEF Spec

\* What the invariant says of the money of one chat.
LEMMA NetOfChat ==
    ASSUME AiBillingAssumption, IInv, NEW c \in Chats
    PROVE  /\ -Net(c) <= Larger(Reserve[c], Actual[c])
           /\ chat[c] = "answered" => hold[c] = "settled" /\ Net(c) = -Actual[c]
           /\ c \notin timedOut =>
                 Net(c) = CASE hold[c] = "held" -> -Reserve[c]
                            [] hold[c] = "settled" -> -Actual[c]
                            [] OTHER -> 0
<1>1. /\ ChatOK(c) /\ hold[c] \in HoldStates
      /\ Reserve[c] \in Nat \ {0} /\ Actual[c] \in Nat
      /\ booked[c]["extra"] \in Int /\ booked[c]["refund"] \in Int
  BY Shape
<1>2. CASE hold[c] = "none"
  <2>1. Net(c) = 0
    BY <1>1, <1>2 DEF ChatOK, CallsMatchBookings, Net, Adjusted
  <2>2. chat[c] # "answered"
    BY <1>1, <1>2 DEF ChatOK, CallsMatchBookings, StageMatchesCalls
  <2>3. QED
    BY <1>1, <1>2, <2>1, <2>2 DEF Larger
<1>3. CASE hold[c] # "none"
  <2>1. /\ booked[c]["preauth"] = -Reserve[c]
        /\ booked[c]["release"] \in {0, Reserve[c]}
        /\ IF call[c]["settle"] = "ok" THEN Adjusted(c) = Reserve[c] - Actual[c]
           ELSE Adjusted(c) = 0
    BY <1>1, <1>3 DEF ChatOK, CallsMatchBookings, Adjusted, Delta
  <2>2. -Net(c) <= Larger(Reserve[c], Actual[c])
    BY <1>1, <2>1 DEF Net, Larger
  <2>3. ASSUME chat[c] = "answered"
        PROVE  hold[c] = "settled" /\ Net(c) = -Actual[c]
    <3>1. /\ c \notin timedOut /\ call[c]["settle"] = "ok"
          /\ booked[c]["release"] = 0
      BY <1>1, <2>3 DEF ChatOK, StageMatchesCalls, CallsMatchBookings
    <3>2. hold[c] = "settled"
      BY <1>1, <1>3, <3>1 DEF ChatOK, OneEnding, CallsMatchBookings, HoldStates
    <3>3. QED
      BY <1>1, <2>1, <3>1, <3>2 DEF Net
  <2>4. ASSUME c \notin timedOut
        PROVE  Net(c) = CASE hold[c] = "held" -> -Reserve[c]
                          [] hold[c] = "settled" -> -Actual[c]
                          [] OTHER -> 0
    <3>1. CASE hold[c] = "held"
      BY <1>1, <2>1, <3>1 DEF ChatOK, CallsMatchBookings, Net
    <3>2. CASE hold[c] = "settled"
      BY <1>1, <2>1, <2>4, <3>2 DEF ChatOK, CallsMatchBookings, OneEnding, Net
    <3>3. CASE hold[c] = "released"
      BY <1>1, <2>1, <2>4, <3>3 DEF ChatOK, CallsMatchBookings, OneEnding, Net
    <3>4. QED
      BY <1>1, <1>3, <3>1, <3>2, <3>3 DEF HoldStates
  <2>5. QED
    BY <2>2, <2>3, <2>4
<1>4. QED
  BY <1>2, <1>3

\* Every variable keeps its type.
THEOREM BillingTypes == Spec => []TypeOK
<1>1. IInv => TypeOK
  BY DEF IInv
<1>2. QED
  BY <1>1, BillingInvariance, PTL

\* A chat never costs more than the larger of its estimate and its charge,
\* whatever is late, lost or cut off.
THEOREM ChargeIsBounded == Spec => []ChargeBounded
<1>1. IInv => ChargeBounded
  BY AiBillingAssumption, NetOfChat DEF ChargeBounded
<1>2. QED
  BY <1>1, BillingInvariance, PTL

\* A chat that was answered has been charged exactly for its usage.
THEOREM AnswersArePaid == Spec => []AnsweredIsPaid
<1>1. IInv => AnsweredIsPaid
  BY AiBillingAssumption, NetOfChat DEF AnsweredIsPaid
<1>2. QED
  BY <1>1, BillingInvariance, PTL

\* The status of a hold is what was booked for it, unless the settlement was
\* given up.
THEOREM HoldsTellBookings == Spec => []HoldMatchesBookings
<1>1. IInv => HoldMatchesBookings
  BY AiBillingAssumption, NetOfChat DEF HoldMatchesBookings
<1>2. QED
  BY <1>1, BillingInvariance, PTL

\* However metered calls and resets interleave, no more is counted than sold.
THEOREM QuotaHolds == Spec => []CountedWithinQuota
<1>1. IInv => CountedWithinQuota
  BY DEF IInv
<1>2. QED
  BY <1>1, BillingInvariance, PTL

-----------------------------------------------------------------------------
(* The wallet as a whole: its balance is what the chats have booked.       *)

LEMMA NetsAreInt ==
    ASSUME TypeOK
    PROVE  /\ DOMAIN Nets = Chats
           /\ \A c \in Chats : Nets[c] \in Int /\ Nets[c] = Net(c)
<1>1. ASSUME NEW c \in Chats PROVE Net(c) \in Int
  <2>1. booked[c] \in [Bookings -> Int]
    BY DEF TypeOK
  <2>2. QED
    BY <2>1 DEF Bookings, Net, Adjusted
<1>2. QED
  BY <1>1 DEF Nets

\* A first booking moves the balance and the sum by the same amount.
LEMMA FirstBookingBalances ==
    ASSUME AiBillingAssumption, IInv, BalanceIsBooked, TypeOK',
           NEW c \in Chats, NEW b \in Bookings, NEW amount \in Int,
           booked[c][b] = 0, Book(c, b, amount)
    PROVE  balance' = Funds + SumFunction(Nets')
<1>1. TypeOK /\ IsFiniteSet(Chats) /\ Funds \in Int
  BY DEF IInv, AiBillingAssumption
<1>2. /\ DOMAIN Nets = Chats /\ DOMAIN Nets' = Chats
      /\ \A d \in Chats : Nets[d] \in Int /\ Nets[d] = Net(d)
      /\ \A d \in Chats : Nets'[d] \in Int /\ Nets'[d] = Net(d)'
  <2>1. DOMAIN Nets' = Chats /\ \A d \in Chats : Nets'[d] = Net(d)'
    BY DEF Nets
  <2>2. \A d \in Chats : Net(d)' \in Int
    <3>1. ASSUME NEW d \in Chats PROVE Net(d)' \in Int
      <4>1. booked'[d] \in [Bookings -> Int]
        BY DEF TypeOK
      <4>2. QED
        BY <4>1 DEF Bookings, Net, Adjusted
    <3>2. QED
      BY <3>1
  <2>3. QED
    BY <1>1, <2>1, <2>2, NetsAreInt
<1>3. /\ booked'[c][b] = amount
      /\ \A o \in Bookings \ {b} : booked'[c][o] = booked[c][o]
      /\ \A d \in Chats \ {c} : booked'[d] = booked[d]
      /\ balance' = balance + amount
  BY <1>1, BookEffect
<1>4. \A d \in Chats \ {c} : Nets'[d] = Nets[d]
  BY <1>2, <1>3 DEF Net, Adjusted
<1>5. Nets'[c] = Nets[c] + amount
  <2>1. booked[c] \in [Bookings -> Int]
    BY <1>1 DEF TypeOK
  <2>2. Net(c)' = Net(c) + amount
    BY <1>3, <2>1 DEF Bookings, Net, Adjusted
  <2>3. QED
    BY <1>2, <2>2
<1>6. SumFunctionOnSet(Nets', Chats)
        = SumFunctionOnSet(Nets, Chats) + Nets'[c] - Nets[c]
  BY <1>1, <1>2, <1>4, SumChange
<1>7. SumFunctionOnSet(Nets, Chats) \in Int
  BY <1>1, <1>2, SumInt
<1>8. balance = Funds + SumFunctionOnSet(Nets, Chats)
  BY <1>2 DEF BalanceIsBooked, SumFunction
<1>9. QED
  BY <1>1, <1>2, <1>3, <1>5, <1>6, <1>7, <1>8 DEF SumFunction

\* Every booking is the first of its key: the calls that have come back say so.
LEMMA BookingsAreFirst ==
    ASSUME AiBillingAssumption, IInv, NEW c \in Chats, Wallet(c)
    PROVE  \/ UNCHANGED <<booked, balance>>
           \/ \E b \in Bookings, amount \in Int :
                 booked[c][b] = 0 /\ Book(c, b, amount)
<1>1. ChatOK(c) /\ Reserve[c] \in Nat /\ Actual[c] \in Nat
  BY Shape
<1>2. CASE PreauthorizeAiUsage(c)
  <2>1. booked[c]["preauth"] = 0
    BY <1>1, <1>2 DEF PreauthorizeAiUsage, ChatOK, CallsMatchBookings
  <2>2. "preauth" \in Bookings /\ -Reserve[c] \in Int
    BY <1>1 DEF Bookings
  <2>3. QED
    BY <1>2, <2>1, <2>2 DEF PreauthorizeAiUsage
<1>3. CASE SettleAiUsage(c)
  <2>1. booked[c]["extra"] = 0 /\ booked[c]["refund"] = 0
    BY <1>1, <1>3 DEF SettleAiUsage, ChatOK, CallsMatchBookings
  <2>2. "extra" \in Bookings /\ "refund" \in Bookings /\ -Delta(c) \in Int
    BY <1>1 DEF Bookings, Delta
  <2>3. \/ Book(c, "extra", -Delta(c)) \/ Book(c, "refund", -Delta(c))
        \/ UNCHANGED <<booked, balance>>
    BY <1>3 DEF SettleAiUsage
  <2>4. QED
    BY <2>1, <2>2, <2>3
<1>4. CASE ReleaseAiUsage(c)
  <2>1. booked[c]["release"] = 0
    BY <1>1, <1>4 DEF ReleaseAiUsage, ChatOK, CallsMatchBookings
  <2>2. "release" \in Bookings /\ Reserve[c] \in Int
    BY <1>1 DEF Bookings
  <2>3. QED
    BY <1>4, <2>1, <2>2 DEF ReleaseAiUsage
<1>5. CASE SettleReads(c) \/ ReleaseReads(c)
  BY <1>5 DEF SettleReads, ReleaseReads
<1>6. QED
  BY <1>2, <1>3, <1>4, <1>5 DEF Wallet

\* Whatever is late, lost, retried or raced, the wallet never goes below zero
\* and its balance is the funds with everything the chats have booked.
THEOREM WalletIsBooked == Spec => []BalanceIsBooked
<1>1. Init => BalanceIsBooked
  <2> SUFFICES ASSUME Init PROVE BalanceIsBooked
    OBVIOUS
  <2>1. IInv
    BY AiBillingAssumption, InitEstablishes
  <2>2. \A c \in Chats : Nets[c] = 0
    BY DEF Init, Nets, Net, Adjusted, Bookings
  <2>3. SumFunction(Nets) = 0
    BY <2>2, AiBillingAssumption, SumZero DEF Nets, SumFunction, AiBillingAssumption
  <2>4. QED
    BY <2>3, AiBillingAssumption DEF Init, BalanceIsBooked, AiBillingAssumption
<1>2. IInv /\ IInv' /\ BalanceIsBooked /\ [Next]_vars => BalanceIsBooked'
  <2> SUFFICES ASSUME IInv, IInv', BalanceIsBooked, [Next]_vars
               PROVE  BalanceIsBooked'
    OBVIOUS
  <2>1. balance' >= 0 /\ TypeOK'
    BY DEF IInv
  <2>2. CASE UNCHANGED <<booked, balance>>
    BY <2>1, <2>2 DEF BalanceIsBooked, Nets, Net, Adjusted
  <2>3. ASSUME NEW c \in Chats, Wallet(c)
        PROVE  BalanceIsBooked'
    <3>1. CASE \E b \in Bookings, amount \in Int :
                  booked[c][b] = 0 /\ Book(c, b, amount)
      BY <2>1, <3>1, AiBillingAssumption, FirstBookingBalances
         DEF BalanceIsBooked
    <3>2. QED
      BY <2>2, <2>3, <3>1, AiBillingAssumption, BookingsAreFirst
  <2>4. ASSUME NEW c \in Chats,
               Handler(c) \/ TimeOut(c) \/ LogFails(c) \/ CutOff(c)
        PROVE  UNCHANGED <<booked, balance>>
    BY <2>4 DEF Handler, Preauthorize, Preauthorized, Settle, ProviderFails,
                Settled, SaveSuccessLog, SaveFailureLog, Released, TimeOut,
                LogFails, CutOff
  <2>5. \/ \E c \in Chats : Wallet(c)
        \/ UNCHANGED <<booked, balance>>
    <3>1. CASE \/ MonthlyReset
               \/ \E m \in Metered :
                     Require(m) \/ ConsumeReads(m) \/ ConsumeWrites(m)
      BY <3>1 DEF MonthlyReset, Require, ConsumeReads, ConsumeWrites, chats
    <3>2. CASE UNCHANGED vars
      BY <3>2 DEF vars, chats
    <3>3. QED
      BY <2>4, <3>1, <3>2 DEF Next
  <2>6. QED
    BY <2>2, <2>3, <2>5
<1>3. QED
  BY <1>1, <1>2, BillingInvariance, PTL DEF Spec
=============================================================================

------------------------------- MODULE AiBilling -------------------------------
(***************************************************************************)
(* What one user's calls of a language model cost, with the Java service   *)
(* as the wallet (PAYMENT_BACKEND=java).                                   *)
(*                                                                         *)
(* A chat on a platform key holds an estimate in the wallet, asks the      *)
(* provider, then settles the hold for the real charge or releases it;     *)
(* the three are HTTP calls whose answer may be late or lost, and the Java *)
(* transaction of a call goes on after its caller has given up.  It reads  *)
(* the hold without a lock and locks the wallet only to book.  A metered   *)
(* call checks the monthly quota before the work and counts it after, each *)
(* in a database session of its own; the row is not locked.                *)
(***************************************************************************)
EXTENDS Integers, FiniteSets, Functions

CONSTANTS
    Chats,          \* chat requests, each with its own request_id
    Metered,        \* calls that are metered with llm_calls instead
    Reserve,        \* [Chats -> estimated charge]
    Actual,         \* [Chats -> charge of the usage the provider reports]
    Funds,          \* balance of the wallet at the start
    Total,          \* llm_calls of the plan
    MaxTimeouts,    \* bound: calls of the wallet that are given up
    MaxFaults,      \* bound: log writes that fail, streams cut off
    MaxResets       \* bound: months that end

ASSUME AiBillingAssumption ==
    /\ IsFiniteSet(Chats) /\ Chats \cap Metered = {}
    /\ Reserve \in [Chats -> Nat \ {0}] /\ Actual \in [Chats -> Nat]
    /\ Funds \in Nat /\ Total \in Nat
    /\ MaxTimeouts \in Nat /\ MaxFaults \in Nat /\ MaxResets \in Nat

VARIABLES
    chat,       \* where the handler of a chat is
    call,       \* progress of its calls of the wallet
    hold,       \* status of its wallet_holds row
    booked,     \* its transactions, signed, by type of booking
    balance,
    timedOut,   \* chats that gave up waiting for their settlement
    disturbed,  \* chats that met a fault of any kind
    timeouts, faults,
    meter,      \* where a metered call is
    seen,       \* the count it read
    used, resets

chats == <<chat, call, hold, booked, balance, timedOut, disturbed, timeouts,
           faults>>
quota == <<meter, seen, used, resets>>
vars == <<chats, quota>>

Stages == {"new", "preauth", "provider", "settle", "log", "note", "release",
           "answered", "failed"}
Ended == {"answered", "failed"}
Ops == {"preauth", "settle", "release"}
CallStates == {"none", "sent", "read", "ok", "refused", "lost"}
HoldStates == {"none", "held", "settled", "released"}
Bookings == {"preauth", "extra", "refund", "release"}

Init ==
    /\ chat = [c \in Chats |-> "new"]
    /\ call = [c \in Chats |-> [op \in Ops |-> "none"]]
    /\ hold = [c \in Chats |-> "none"]
    /\ booked = [c \in Chats |-> [b \in Bookings |-> 0]]
    /\ balance = Funds
    /\ timedOut = {} /\ disturbed = {}
    /\ timeouts = 0 /\ faults = 0
    /\ meter = [m \in Metered |-> "new"]
    /\ seen = [m \in Metered |-> 0]
    /\ used = 0
    /\ resets = 0

-----------------------------------------------------------------------------
(* The Java side: WalletService.                                           *)

\* A mutant that debits what is not there.
AffordsAny(amount) == amount < 0 \/ balance + amount >= 0

\* changeBalance: a key is booked once, and a debit needs the money.
Affords(amount) == balance + amount >= 0
Book(c, booking, amount) ==
    /\ balance' = balance + amount
    /\ booked' = [booked EXCEPT ![c][booking] = amount]

Answer(c, op, state) == call' = [call EXCEPT ![c][op] = state]

PreauthorizeAiUsage(c) ==
    /\ call[c]["preauth"] = "sent"
    /\ IF Affords(-Reserve[c])
       THEN /\ Book(c, "preauth", -Reserve[c])
            /\ hold' = [hold EXCEPT ![c] = "held"]
            /\ Answer(c, "preauth", "ok")
       ELSE /\ Answer(c, "preauth", "refused")
            /\ UNCHANGED <<hold, booked, balance>>
    /\ UNCHANGED <<chat, timedOut, disturbed, timeouts, faults, quota>>

\* The status of the hold, read before the wallet is locked, decides.
SettleReads(c) ==
    /\ call[c]["settle"] = "sent"
    /\ Answer(c, "settle", CASE hold[c] = "held" -> "read"
                             [] hold[c] = "settled" -> "ok"
                             [] OTHER -> "refused")
    /\ UNCHANGED <<chat, hold, booked, balance, timedOut, disturbed, timeouts,
                   faults, quota>>

\* A mutant that debits the whole charge on top of the reserve.
WholeCharge(c) == Actual[c]

\* A charge above the reserve is debited, one below it is given back.
Delta(c) == Actual[c] - Reserve[c]
SettleAiUsage(c) ==
    /\ call[c]["settle"] = "read"
    /\ IF Affords(-Delta(c))
       THEN /\ CASE Delta(c) > 0 -> Book(c, "extra", -Delta(c))
                 [] Delta(c) < 0 -> Book(c, "refund", -Delta(c))
                 [] OTHER -> UNCHANGED <<booked, balance>>
            /\ hold' = [hold EXCEPT ![c] = "settled"]
            /\ Answer(c, "settle", "ok")
       ELSE /\ Answer(c, "settle", "refused")
            /\ UNCHANGED <<hold, booked, balance>>
    /\ UNCHANGED <<chat, timedOut, disturbed, timeouts, faults, quota>>

ReleaseReads(c) ==
    /\ call[c]["release"] = "sent"
    /\ Answer(c, "release", IF hold[c] = "held" THEN "read" ELSE "ok")
    /\ UNCHANGED <<chat, hold, booked, balance, timedOut, disturbed, timeouts,
                   faults, quota>>

\* A mutant that gives the charge back instead of the reserve.
ReleaseCharge(c) ==
    /\ call[c]["release"] = "read"
    /\ Book(c, "release", Actual[c])
    /\ hold' = [hold EXCEPT ![c] = "released"]
    /\ Answer(c, "release", "ok")
    /\ UNCHANGED <<chat, timedOut, disturbed, timeouts, faults, quota>>

\* A mutant that names the status after the booking.
ReleaseAsRefund(c) ==
    /\ call[c]["release"] = "read"
    /\ Book(c, "release", Reserve[c])
    /\ hold' = [hold EXCEPT ![c] = "refund"]
    /\ Answer(c, "release", "ok")
    /\ UNCHANGED <<chat, timedOut, disturbed, timeouts, faults, quota>>

ReleaseAiUsage(c) ==
    /\ call[c]["release"] = "read"
    /\ Book(c, "release", Reserve[c])
    /\ hold' = [hold EXCEPT ![c] = "released"]
    /\ Answer(c, "release", "ok")
    /\ UNCHANGED <<chat, timedOut, disturbed, timeouts, faults, quota>>

Wallet(c) ==
    \/ PreauthorizeAiUsage(c)
    \/ SettleReads(c) \/ SettleAiUsage(c)
    \/ ReleaseReads(c) \/ ReleaseAiUsage(c)

-----------------------------------------------------------------------------
(* The chat handler: llm_chat and llm_chat_stream.                         *)

Goes(c, stage) == chat' = [chat EXCEPT ![c] = stage]
Sends(c, op) == Goes(c, op) /\ Answer(c, op, "sent")

Preauthorize(c) ==
    /\ chat[c] = "new"
    /\ Sends(c, "preauth")
    /\ UNCHANGED <<hold, booked, balance, timedOut, disturbed, timeouts,
                   faults, quota>>

\* An error of the first call leaves the handler before its try block.
Preauthorized(c) ==
    /\ chat[c] = "preauth" /\ call[c]["preauth"] \in {"ok", "refused"}
    /\ Goes(c, IF call[c]["preauth"] = "ok" THEN "provider" ELSE "failed")
    /\ UNCHANGED <<call, hold, booked, balance, timedOut, disturbed, timeouts,
                   faults, quota>>

\* The provider answers, and the usage is settled.
Settle(c) ==
    /\ chat[c] = "provider"
    /\ Sends(c, "settle")
    /\ UNCHANGED <<hold, booked, balance, timedOut, disturbed, timeouts,
                   faults, quota>>

\* A mutant that answers the error at once.
ProviderFailsOnly(c) ==
    /\ chat[c] = "provider"
    /\ Goes(c, "failed")
    /\ UNCHANGED <<call, hold, booked, balance, timedOut, disturbed, timeouts,
                   faults, quota>>

\* The provider reports an error: it is noted in the log before the release.
ProviderFails(c) ==
    /\ chat[c] = "provider"
    /\ Goes(c, "note")
    /\ UNCHANGED <<call, hold, booked, balance, timedOut, disturbed, timeouts,
                   faults, quota>>

\* A mutant that does not look at the answer of the settlement.
SettledAnyway(c) ==
    /\ chat[c] = "settle" /\ call[c]["settle"] \in {"ok", "refused"}
    /\ Goes(c, "log")
    /\ UNCHANGED <<call, hold, booked, balance, timedOut, disturbed, timeouts,
                   faults, quota>>

\* A refused settlement is released; a stream notes it in the log before.
Settled(c) ==
    /\ chat[c] = "settle"
    /\ \/ /\ call[c]["settle"] = "ok"
          /\ Goes(c, "log") /\ UNCHANGED call
       \/ /\ call[c]["settle"] = "refused"
          /\ Sends(c, "release") \/ (Goes(c, "note") /\ UNCHANGED call)
    /\ UNCHANGED <<hold, booked, balance, timedOut, disturbed, timeouts,
                   faults, quota>>

SaveSuccessLog(c) ==
    /\ chat[c] = "log"
    /\ Goes(c, "answered")
    /\ UNCHANGED <<call, hold, booked, balance, timedOut, disturbed, timeouts,
                   faults, quota>>

SaveFailureLog(c) ==
    /\ chat[c] = "note"
    /\ Sends(c, "release")
    /\ UNCHANGED <<hold, booked, balance, timedOut, disturbed, timeouts,
                   faults, quota>>

\* The release of a failed chat; its outcome is only logged.
Released(c) ==
    /\ chat[c] = "release" /\ call[c]["release"] = "ok"
    /\ Goes(c, "failed")
    /\ UNCHANGED <<call, hold, booked, balance, timedOut, disturbed, timeouts,
                   faults, quota>>

Handler(c) ==
    \/ Preauthorize(c) \/ Preauthorized(c)
    \/ Settle(c) \/ ProviderFails(c) \/ Settled(c)
    \/ SaveSuccessLog(c) \/ SaveFailureLog(c) \/ Released(c)

\* After 20 seconds the caller gives up: on the hold it does not know of, on
\* the release, or on the settlement, which it then notes and releases.  The
\* request may not have arrived at all.
TimeOut(c) ==
    /\ timeouts < MaxTimeouts
    /\ chat[c] \in Ops /\ call[c][chat[c]] \notin {"ok", "refused"}
    /\ Goes(c, IF chat[c] = "settle" THEN "note" ELSE "failed")
    /\ timedOut' = IF chat[c] = "settle" THEN timedOut \cup {c} ELSE timedOut
    /\ disturbed' = disturbed \cup {c}
    /\ timeouts' = timeouts + 1
    /\ \/ UNCHANGED call
       \/ call[c][chat[c]] = "sent" /\ Answer(c, chat[c], "lost")
    /\ UNCHANGED <<hold, booked, balance, faults, quota>>

\* A log that cannot be written: after a settlement the failure is noted and
\* the release tried, while a note that fails leaves the hold as it is.
LogFails(c) ==
    /\ faults < MaxFaults
    /\ chat[c] \in {"log", "note"}
    /\ Goes(c, IF chat[c] = "log" THEN "note" ELSE "failed")
    /\ disturbed' = disturbed \cup {c}
    /\ faults' = faults + 1
    /\ UNCHANGED <<call, hold, booked, balance, timedOut, timeouts, quota>>

\* The reader of a stream goes away, which ends the generator where it waits
\* without running its except clause; or the process dies.
CutOff(c) ==
    /\ faults < MaxFaults
    /\ chat[c] \notin {"new"} \cup Ended
    /\ Goes(c, "failed")
    /\ disturbed' = disturbed \cup {c}
    /\ faults' = faults + 1
    /\ UNCHANGED <<call, hold, booked, balance, timedOut, timeouts, quota>>

-----------------------------------------------------------------------------
(* Metered calls: quota_middleware as services/llm.py uses it.             *)

Require(m) ==
    /\ meter[m] = "new"
    /\ meter' = [meter EXCEPT ![m] = IF used + 1 > Total THEN "refused"
                                     ELSE "work"]
    /\ UNCHANGED <<seen, used, resets, chats>>

\* A mutant that counts without checking again.
ConsumeUnchecked(m) ==
    /\ meter[m] = "work"
    /\ seen' = [seen EXCEPT ![m] = used]
    /\ meter' = [meter EXCEPT ![m] = "consume"]
    /\ UNCHANGED <<used, resets, chats>>

\* The work is done and consume_quota reads the row again; what it raises is
\* swallowed.
ConsumeReads(m) ==
    /\ meter[m] = "work"
    /\ seen' = [seen EXCEPT ![m] = used]
    /\ meter' = [meter EXCEPT ![m] = IF used + 1 > Total THEN "uncounted"
                                     ELSE "consume"]
    /\ UNCHANGED <<used, resets, chats>>

ConsumeWrites(m) ==
    /\ meter[m] = "consume"
    /\ used' = seen[m] + 1
    /\ meter' = [meter EXCEPT ![m] = "counted"]
    /\ UNCHANGED <<seen, resets, chats>>

\* The first get_quota after reset_at.
MonthlyReset ==
    /\ resets < MaxResets /\ used > 0
    /\ used' = 0
    /\ resets' = resets + 1
    /\ UNCHANGED <<meter, seen, chats>>

Next ==
    \/ \E c \in Chats : Wallet(c) \/ Handler(c)
    \/ \E c \in Chats : TimeOut(c) \/ LogFails(c) \/ CutOff(c)
    \/ \E m \in Metered : Require(m) \/ ConsumeReads(m) \/ ConsumeWrites(m)
    \/ MonthlyReset

Spec == Init /\ [][Next]_vars
Fairness == \A c \in Chats : WF_vars(Wallet(c)) /\ WF_vars(Handler(c))
FairSpec == Spec /\ Fairness

-----------------------------------------------------------------------------
(* Properties.                                                             *)

TypeOK ==
    /\ chat \in [Chats -> Stages]
    /\ call \in [Chats -> [Ops -> CallStates]]
    /\ hold \in [Chats -> HoldStates]
    /\ booked \in [Chats -> [Bookings -> Int]]
    /\ balance \in Int
    /\ timedOut \subseteq Chats /\ disturbed \subseteq Chats
    /\ timeouts \in Nat /\ faults \in Nat
    /\ meter \in [Metered -> {"new", "work", "consume", "counted",
                              "uncounted", "refused"}]
    /\ seen \in [Metered -> Nat] /\ used \in Nat /\ resets \in Nat

Adjusted(c) == booked[c]["extra"] + booked[c]["refund"]
Net(c) == booked[c]["preauth"] + Adjusted(c) + booked[c]["release"]
Nets == [c \in Chats |-> Net(c)]
Larger(a, b) == IF a >= b THEN a ELSE b

\* The wallet never goes below zero, and moves by the bookings of the chats.
BalanceIsBooked ==
    /\ balance >= 0
    /\ balance = Funds + SumFunction(Nets)

\* Whatever is late, lost or cut off, a chat never costs more than the larger
\* of its estimate and its charge.
ChargeBounded == \A c \in Chats : -Net(c) <= Larger(Reserve[c], Actual[c])

\* What a hold says of itself is what was booked for it, unless the caller
\* gave up on its settlement: then the settlement and the release may both
\* find it held.
HoldMatchesBookings ==
    \A c \in Chats \ timedOut :
        Net(c) = CASE hold[c] = "held" -> -Reserve[c]
                   [] hold[c] = "settled" -> -Actual[c]
                   [] OTHER -> 0

\* A chat that was answered has been paid for, at the charge of its usage.
AnsweredIsPaid ==
    \A c \in Chats : chat[c] = "answered" =>
        hold[c] = "settled" /\ Net(c) = -Actual[c]

\* Unlocked counting loses calls but never counts past the quota, also when a
\* count read before the end of the month is written after it.
CountedWithinQuota == used <= Total

\* Every chat ends, and the hold of one that met no fault is settled or
\* released; after a fault it may stay open for good, since nothing sweeps a
\* hold when it expires.
HoldsClose ==
    \A c \in Chats :
        /\ chat[c] # "new" ~> chat[c] \in Ended
        /\ hold[c] = "held" ~> hold[c] # "held" \/ c \in disturbed

-----------------------------------------------------------------------------
(* The inductive invariant: what the calls of a chat say of its hold.      *)

\* A chat is where its calls are: one call is sent after the other, and one
\* that is given up is not sent again.
StageMatchesCalls(c) ==
    /\ chat[c] = "new" => call[c]["preauth"] = "none"
    /\ chat[c] \in {"new", "preauth", "provider"} =>
          call[c]["settle"] = "none"
    /\ chat[c] \in {"provider", "settle", "log", "answered", "note", "release"} =>
          call[c]["preauth"] = "ok"
    /\ chat[c] \notin {"release", "failed"} => call[c]["release"] = "none"
    /\ chat[c] \in {"log", "answered"} => call[c]["settle"] = "ok"
    /\ chat[c] \in {"note", "release"} /\ c \notin timedOut =>
          call[c]["settle"] \in {"none", "ok", "refused"}
    /\ c \in timedOut => chat[c] \in {"note", "release", "failed"}

\* What was booked, by the calls that have come back.
CallsMatchBookings(c) ==
    /\ call[c]["preauth"] # "read"
    /\ hold[c] # "none" <=> call[c]["preauth"] = "ok"
    /\ call[c]["settle"] # "none" \/ call[c]["release"] # "none" =>
          call[c]["preauth"] = "ok"
    /\ booked[c]["preauth"] = IF hold[c] = "none" THEN 0 ELSE -Reserve[c]
    /\ IF call[c]["settle"] = "ok" THEN Adjusted(c) = -Delta(c)
       ELSE booked[c]["extra"] = 0 /\ booked[c]["refund"] = 0
    /\ booked[c]["release"] \in {0, Reserve[c]}
    /\ call[c]["release"] # "ok" => booked[c]["release"] = 0
    /\ hold[c] = "settled" => call[c]["settle"] = "ok"
    /\ hold[c] = "held" =>
          call[c]["settle"] # "ok" /\ booked[c]["release"] = 0

\* Without a timeout of the settlement, settling and releasing exclude each
\* other.
OneEnding(c) ==
    c \notin timedOut =>
        /\ call[c]["release"] # "none" =>
              call[c]["settle"] \in {"none", "ok", "refused"}
        /\ "read" \in {call[c]["settle"], call[c]["release"]} => hold[c] = "held"
        /\ hold[c] = "settled" => booked[c]["release"] = 0
        /\ hold[c] = "released" =>
              call[c]["settle"] # "ok" /\ booked[c]["release"] = Reserve[c]

\* A count that is about to be written was below the quota when read.
SeenBelowQuota ==
    \A m \in Metered : meter[m] = "consume" => seen[m] + 1 <= Total

IInv ==
    /\ TypeOK
    /\ balance >= 0
    /\ \A c \in Chats :
          StageMatchesCalls(c) /\ CallsMatchBookings(c) /\ OneEnding(c)
    /\ SeenBelowQuota /\ CountedWithinQuota
=============================================================================

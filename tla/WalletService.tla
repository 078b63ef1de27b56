--------------------------- MODULE WalletService ---------------------------
(***************************************************************************)
(* The money side of the payment service: what WalletService does to one   *)
(* user's balance and to the transactions it books for one order.          *)
(*                                                                         *)
(* An account is a record [balance, txn]: the user's balance, and for the  *)
(* order at hand the signed amount booked under each idempotency key (0    *)
(* when no transaction has that key; a booked amount is never 0).  Who     *)
(* books holds the wallet row FOR UPDATE until it commits, so operators on *)
(* the account are applied one after the other inside one step.  A booking *)
(* that finds its key takes no lock, and changes nothing of the account.   *)
(***************************************************************************)
EXTENDS Integers

CONSTANTS
    UnitsPerYuan,   \* money is counted in units; so many of them are one yuan
    MaxRefunds      \* bound: refund requests an order may ever have

ASSUME UnitsPerYuanAssumption == UnitsPerYuan \in Nat \ {0}
ASSUME MaxRefundsAssumption == MaxRefunds \in Nat

(***************************************************************************)
(* Idempotency keys of the transactions of one order.                      *)
(***************************************************************************)
RechargeKey == <<"order:wallet-recharge", 0>>
ExternalKey == <<"order:alipay-credit", 0>>
SpendKey == <<"order:wallet-debit", 0>>
TokenKey == <<"membership-tokens", 0>>
TokenRevokeKey == <<"plan-tok-revoke", 0>>
RefundKey(n) == <<"refund:wallet-credit", n>>

Keys == {RechargeKey, ExternalKey, SpendKey, TokenKey, TokenRevokeKey}
            \cup {RefundKey(n) : n \in 1..MaxRefunds}

Account == [balance : Int, txn : [Keys -> Int]]

Booked(txn, key) == txn[key] # 0

\* MoneyUtils.toIntYuanHalfUp, in units: a whole number of yuan, halves up.
RoundYuan(amount) ==
    UnitsPerYuan * ((2 * amount + UnitsPerYuan) \div (2 * UnitsPerYuan))

Lesser(a, b) == IF a <= b THEN a ELSE b

----------------------------------------------------------------------------
\* A mutant of changeBalance that never looks the idempotency key up.
PostTwice(acct, key, amount) ==
    [balance |-> acct.balance + amount,
     txn |-> [acct.txn EXCEPT ![key] = amount]]

(***************************************************************************)
(* changeBalance: a key that is already booked changes nothing, otherwise  *)
(* the balance moves and the transaction is recorded in the same commit.   *)
(***************************************************************************)
Post(acct, key, amount) ==
    IF Booked(acct.txn, key)
    THEN acct
    ELSE [balance |-> acct.balance + amount,
          txn |-> [acct.txn EXCEPT ![key] = amount]]

\* A mutant of the grant that moves the balance and records nothing.
GrantTokensUnbooked(acct, amount) ==
    IF RoundYuan(amount) <= 0 \/ Booked(acct.txn, TokenKey)
    THEN acct
    ELSE [acct EXCEPT !.balance = @ + RoundYuan(amount)]

\* grantPlanMembershipTokenAllowance: nothing to book below half a yuan.
GrantTokens(acct, amount) ==
    IF RoundYuan(amount) <= 0
    THEN acct
    ELSE Post(acct, TokenKey, RoundYuan(amount))

\* A mutant of the revocation that takes what was granted, available or not.
RevokeAllTokens(acct, amount) ==
    IF RoundYuan(amount) <= 0
    THEN acct
    ELSE Post(acct, TokenRevokeKey, -RoundYuan(amount))

\* revokePlanMembershipTokenAllowance: never more than is available.
RevokeTokens(acct, amount) ==
    IF RoundYuan(amount) <= 0 \/ acct.balance <= 0
    THEN acct
    ELSE Post(acct, TokenRevokeKey, -Lesser(RoundYuan(amount), acct.balance))

(***************************************************************************)
(* What fulfillOrder books: a recharge is credited; any other order books  *)
(* the external payment and the spending of it, and a plan its tokens.     *)
(***************************************************************************)
PayAndSpend(acct, amount) ==
    Post(Post(acct, ExternalKey, amount), SpendKey, -amount)

FulfilAccount(acct, kind, amount) ==
    IF kind = "wallet" THEN Post(acct, RechargeKey, amount)
    ELSE IF kind = "plan" THEN GrantTokens(PayAndSpend(acct, amount), amount)
    ELSE PayAndSpend(acct, amount)

\* A mutant of the approval that claws the tokens back before it refunds.
RevokeThenRefund(acct, kind, amount, refunded, n) ==
    IF kind = "plan"
    THEN Post(RevokeTokens(acct, amount), RefundKey(n), refunded)
    ELSE Post(acct, RefundKey(n), refunded)

(***************************************************************************)
(* What the approval of refund n books: the refund first, then, for a      *)
(* plan, the tokens are taken back out of what is then available.          *)
(***************************************************************************)
RefundAccount(acct, kind, amount, refunded, n) ==
    LET paidBack == Post(acct, RefundKey(n), refunded)
    IN  IF kind = "plan" THEN RevokeTokens(paidBack, amount) ELSE paidBack
============================================================================

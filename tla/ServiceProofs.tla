---------------------------- MODULE ServiceProofs ----------------------------
(***************************************************************************)
(* What the operators of the two services an order calls return: those of  *)
(* WalletService an account again, with the keys each of them leaves alone *)
(* named and the balance moved by exactly what was booked; those of        *)
(* EntitlementService well-formed rows, and how many of the plans are      *)
(* active.                                                                 *)
(***************************************************************************)
EXTENDS WalletService, EntitlementService, Sums

----------------------------------------------------------------------------
(* WalletService.                                                          *)

\* The idempotency keys are pairwise different, refund keys by their number.
LEMMA KeysDiffer ==
    /\ RechargeKey \in Keys /\ ExternalKey \in Keys /\ SpendKey \in Keys
    /\ TokenKey \in Keys /\ TokenRevokeKey \in Keys
    /\ \A n \in 1..MaxRefunds : RefundKey(n) \in Keys
    /\ RechargeKey \notin {ExternalKey, SpendKey, TokenKey, TokenRevokeKey}
    /\ ExternalKey \notin {SpendKey, TokenKey, TokenRevokeKey}
    /\ \A n \in 1..MaxRefunds :
          RefundKey(n) \notin {RechargeKey, ExternalKey, SpendKey, TokenKey, TokenRevokeKey}
    /\ \A m, n \in 1..MaxRefunds : RefundKey(m) = RefundKey(n) => m = n
BY DEF Keys, RechargeKey, ExternalKey, SpendKey, TokenKey, TokenRevokeKey, RefundKey

\* Rounding to whole yuan gives a number of units.
LEMMA RoundYuanType ==
    ASSUME NEW amount \in Nat
    PROVE  RoundYuan(amount) \in Int
BY UnitsPerYuanAssumption DEF RoundYuan

\* A posting touches one key, which is then booked, and never rebooks it.
LEMMA PostEffect ==
    ASSUME NEW acct \in Account, NEW key \in Keys, NEW amount \in Int
    PROVE  /\ Post(acct, key, amount) \in Account
           /\ \A k \in Keys : k # key => Post(acct, key, amount).txn[k] = acct.txn[k]
           /\ Post(acct, key, amount).txn[key] =
                 IF Booked(acct.txn, key) THEN acct.txn[key] ELSE amount
BY DEF Post, Account, Booked

LEMMA GrantTokensEffect ==
    ASSUME NEW acct \in Account, NEW amount \in Nat
    PROVE  /\ GrantTokens(acct, amount) \in Account
           /\ \A k \in Keys : k # TokenKey => GrantTokens(acct, amount).txn[k] = acct.txn[k]
<1> DEFINE tokens == RoundYuan(amount)
<1>1. TokenKey \in Keys /\ tokens \in Int
  BY KeysDiffer, RoundYuanType
<1>2. GrantTokens(acct, amount) = IF tokens <= 0 THEN acct ELSE Post(acct, TokenKey, tokens)
  BY DEF GrantTokens
<1> HIDE DEF tokens
<1>3. QED
  BY <1>1, <1>2, PostEffect

LEMMA RevokeTokensEffect ==
    ASSUME NEW acct \in Account, NEW amount \in Nat
    PROVE  /\ RevokeTokens(acct, amount) \in Account
           /\ \A k \in Keys :
                 k # TokenRevokeKey => RevokeTokens(acct, amount).txn[k] = acct.txn[k]
<1> DEFINE taken == -Lesser(RoundYuan(amount), acct.balance)
<1>1. TokenRevokeKey \in Keys /\ taken \in Int
  BY KeysDiffer, RoundYuanType DEF Lesser, Account
<1>2. RevokeTokens(acct, amount) =
        IF RoundYuan(amount) <= 0 \/ acct.balance <= 0
        THEN acct ELSE Post(acct, TokenRevokeKey, taken)
  BY DEF RevokeTokens
<1> HIDE DEF taken
<1>3. QED
  BY <1>1, <1>2, PostEffect

LEMMA PayAndSpendEffect ==
    ASSUME NEW acct \in Account, NEW amount \in Nat
    PROVE  /\ PayAndSpend(acct, amount) \in Account
           /\ \A k \in Keys \ {ExternalKey, SpendKey} :
                 PayAndSpend(acct, amount).txn[k] = acct.txn[k]
<1> DEFINE paid == Post(acct, ExternalKey, amount)
<1>1. /\ paid \in Account
      /\ \A k \in Keys : k # ExternalKey => paid.txn[k] = acct.txn[k]
  BY KeysDiffer, PostEffect
<1>2. /\ Post(paid, SpendKey, -amount) \in Account
      /\ \A k \in Keys : k # SpendKey => Post(paid, SpendKey, -amount).txn[k] = paid.txn[k]
  <2> HIDE DEF paid
  <2>1. -amount \in Int
    OBVIOUS
  <2>2. QED
    BY <1>1, <2>1, KeysDiffer, PostEffect
<1>3. QED
  BY <1>1, <1>2 DEF PayAndSpend

\* A fulfilment books no refund, and a recharge exactly for a wallet order.
LEMMA FulfilAccountEffect ==
    ASSUME NEW acct \in Account, NEW kind \in {"wallet", "plan", "item"},
           NEW amount \in Nat \ {0}
    PROVE  /\ FulfilAccount(acct, kind, amount) \in Account
           /\ \A n \in 1..MaxRefunds :
                 FulfilAccount(acct, kind, amount).txn[RefundKey(n)] = acct.txn[RefundKey(n)]
           /\ Booked(FulfilAccount(acct, kind, amount).txn, RechargeKey)
                 <=> (kind = "wallet" \/ Booked(acct.txn, RechargeKey))
<1> DEFINE after == FulfilAccount(acct, kind, amount)
           others == Keys \ {RechargeKey, ExternalKey, SpendKey, TokenKey}
<1>1. /\ RechargeKey \in Keys \ {ExternalKey, SpendKey, TokenKey}
      /\ \A n \in 1..MaxRefunds : RefundKey(n) \in others
  BY KeysDiffer
<1>2. CASE kind = "wallet"
  <2>1. after = Post(acct, RechargeKey, amount)
    BY <1>2 DEF FulfilAccount
  <2>2. /\ after \in Account
        /\ \A k \in others : after.txn[k] = acct.txn[k]
        /\ Booked(after.txn, RechargeKey)
    BY <1>1, <2>1, PostEffect DEF Booked
  <2>3. QED
    BY <1>1, <1>2, <2>2
<1>3. CASE kind # "wallet"
  <2> DEFINE bought == PayAndSpend(acct, amount)
  <2>1. /\ bought \in Account
        /\ \A k \in Keys \ {ExternalKey, SpendKey} : bought.txn[k] = acct.txn[k]
    BY PayAndSpendEffect
  <2>2. after = IF kind = "plan" THEN GrantTokens(bought, amount) ELSE bought
    BY <1>3 DEF FulfilAccount
  <2> HIDE DEF bought
  <2>3. /\ after \in Account
        /\ \A k \in Keys \ {ExternalKey, SpendKey, TokenKey} : after.txn[k] = acct.txn[k]
    <3> HIDE DEF after
    <3>1. QED
      BY <2>1, <2>2, GrantTokensEffect
  <2>4. Booked(after.txn, RechargeKey) <=> Booked(acct.txn, RechargeKey)
    BY <1>1, <2>3 DEF Booked
  <2>5. QED
    BY <1>1, <1>3, <2>3, <2>4
<1>4. QED
  BY <1>2, <1>3

\* An approval books the refund under its own key, and a revocation.
LEMMA RefundAccountEffect ==
    ASSUME NEW acct \in Account, NEW kind,
           NEW amount \in Nat, NEW refunded \in Nat, NEW n \in 1..MaxRefunds,
           NEW key, key = RefundKey(n),
           NEW after, after = RefundAccount(acct, kind, amount, refunded, n)
    PROVE  /\ after \in Account
           /\ \A k \in Keys : k # key /\ k # TokenRevokeKey => after.txn[k] = acct.txn[k]
           /\ after.txn[key] \in {acct.txn[key], refunded}
<1> DEFINE paidBack == Post(acct, key, refunded)
<1>1. /\ paidBack \in Account
      /\ \A k \in Keys : k # key => paidBack.txn[k] = acct.txn[k]
      /\ paidBack.txn[key] \in {acct.txn[key], refunded}
  <2>1. key \in Keys /\ refunded \in Int
    BY KeysDiffer
  <2>2. QED
    BY <2>1, PostEffect
<1>2. /\ RevokeTokens(paidBack, amount) \in Account
      /\ \A k \in Keys :
            k # TokenRevokeKey => RevokeTokens(paidBack, amount).txn[k] = paidBack.txn[k]
  <2> HIDE DEF paidBack
  <2>1. QED
    BY <1>1, RevokeTokensEffect
<1>3. after = IF kind = "plan" THEN RevokeTokens(paidBack, amount) ELSE paidBack
  BY DEF RefundAccount
<1> HIDE DEF paidBack
<1>4. QED
  BY <1>1, <1>2, <1>3, KeysDiffer

----------------------------------------------------------------------------
(***************************************************************************)
(* The balance and the transactions of an account move together.  Outside  *)
(* is the part of the balance that the transactions do not account for:    *)
(* other orders and metered usage; no operator changes it.                 *)
(***************************************************************************)
Outside(acct) == acct.balance - SumFunction(acct.txn)

\* A balance above zero, and payment and spending booked together.
Sound(acct) ==
    /\ acct \in Account
    /\ acct.balance >= 0
    /\ acct.txn[SpendKey] = -acct.txn[ExternalKey]

\* What an operator makes of a sound account: a sound one, moved as booked.
Moves(before, after) == Sound(after) /\ Outside(after) = Outside(before)

LEMMA KeysFinite == IsFiniteSet(Keys)
<1> DEFINE refunds == {RefundKey(n) : n \in 1..MaxRefunds}
           key == [n \in 1..MaxRefunds |-> RefundKey(n)]
           fixed == {RechargeKey, ExternalKey, SpendKey, TokenKey, TokenRevokeKey}
<1>1. IsFiniteSet(1..MaxRefunds)
  BY MaxRefundsAssumption, FS_Interval
<1>2. key \in Surjection(1..MaxRefunds, refunds)
  BY DEF Surjection
<1>3. IsFiniteSet(refunds)
  <2> HIDE DEF key, refunds
  <2>1. QED
    BY <1>1, <1>2, FS_Surjection
<1>4. IsFiniteSet(fixed)
  <2>1. /\ IsFiniteSet({RechargeKey})
        /\ \A S, x : IsFiniteSet(S) => IsFiniteSet(S \cup {x})
    BY FS_Singleton, FS_AddElement
  <2>2. fixed = ((({RechargeKey} \cup {ExternalKey}) \cup {SpendKey})
                   \cup {TokenKey}) \cup {TokenRevokeKey}
    OBVIOUS
  <2>3. IsFiniteSet((({RechargeKey} \cup {ExternalKey}) \cup {SpendKey}) \cup {TokenKey})
    BY <2>1, Zenon
  <2>4. IsFiniteSet(((({RechargeKey} \cup {ExternalKey}) \cup {SpendKey})
                       \cup {TokenKey}) \cup {TokenRevokeKey})
    BY <2>1, <2>3, Zenon
  <2> HIDE DEF fixed
  <2>5. QED
    BY <2>2, <2>4, Zenon
<1>5. IsFiniteSet(fixed \cup refunds)
  <2> HIDE DEF fixed, refunds
  <2>1. QED
    BY <1>3, <1>4, FS_Union
<1>6. QED
  BY <1>5 DEF Keys

\* Transactions that differ in one key differ in their sum by as much.
LEMMA TxnSum ==
    ASSUME NEW f \in [Keys -> Int], NEW g \in [Keys -> Int], NEW key \in Keys,
           \A k \in Keys : k # key => g[k] = f[k]
    PROVE  /\ SumFunction(f) \in Int
           /\ SumFunction(g) = SumFunction(f) + g[key] - f[key]
<1>1. \A k \in Keys \ {key} : g[k] = f[k]
  OBVIOUS
<1>2. (\A k \in Keys : f[k] \in Int) /\ \A k \in Keys : g[k] \in Int
  OBVIOUS
<1>3. SumFunctionOnSet(g, Keys) = SumFunctionOnSet(f, Keys) + g[key] - f[key]
  BY <1>1, <1>2, KeysFinite, SumChange
<1>4. SumFunctionOnSet(f, Keys) \in Int
  BY <1>2, KeysFinite, SumInt
<1>5. QED
  BY <1>3, <1>4 DEF SumFunction

\* A posting moves the balance by what it books.
LEMMA PostMoves ==
    ASSUME NEW acct \in Account, NEW key \in Keys, NEW amount \in Int
    PROVE  /\ Outside(Post(acct, key, amount)) = Outside(acct)
           /\ Post(acct, key, amount).balance =
                 IF Booked(acct.txn, key) THEN acct.balance ELSE acct.balance + amount
<1>1. CASE Booked(acct.txn, key)
  BY <1>1 DEF Post
<1>2. CASE ~Booked(acct.txn, key)
  <2> DEFINE after == Post(acct, key, amount)
             f == acct.txn
             g == [acct.txn EXCEPT ![key] = amount]
  <2>1. after.balance = acct.balance + amount /\ after.txn = g
    BY <1>2 DEF Post
  <2>2. /\ f \in [Keys -> Int] /\ g \in [Keys -> Int]
        /\ \A k \in Keys : k # key => g[k] = f[k]
        /\ g[key] = amount /\ f[key] = 0
        /\ acct.balance \in Int
    BY <1>2 DEF Account, Booked
  <2>3. SumFunction(f) \in Int /\ SumFunction(g) = SumFunction(f) + g[key] - f[key]
    <3> HIDE DEF f, g
    <3>1. QED
      BY <2>2, TxnSum
  <2>4. Outside(acct) = acct.balance - SumFunction(f)
    BY DEF Outside
  <2>5. Outside(after) = (acct.balance + amount) - SumFunction(g)
    BY <2>1 DEF Outside
  <2> HIDE DEF after, f, g
  <2>6. Outside(after) = Outside(acct)
    BY <2>2, <2>3, <2>4, <2>5
  <2>7. QED
    BY <1>2, <2>1, <2>6 DEF after
<1>3. QED
  BY <1>1, <1>2

\* Posting under a key of its own, and no more than is there, is sound.
LEMMA PostSound ==
    ASSUME NEW acct, Sound(acct), NEW key \in Keys \ {ExternalKey, SpendKey},
           NEW amount \in Int, acct.balance + amount >= 0
    PROVE  Moves(acct, Post(acct, key, amount))
<1> DEFINE after == Post(acct, key, amount)
<1>1. acct \in Account /\ key \in Keys
  BY DEF Sound
<1>2. /\ Outside(after) = Outside(acct)
      /\ after.balance = IF Booked(acct.txn, key)
                         THEN acct.balance ELSE acct.balance + amount
  BY <1>1, PostMoves
<1>3. after \in Account /\ \A k \in Keys : k # key => after.txn[k] = acct.txn[k]
  BY <1>1, PostEffect
<1> HIDE DEF after
<1>4. after.balance >= 0
  BY <1>2 DEF Sound
<1>5. after.txn[SpendKey] = -after.txn[ExternalKey]
  BY <1>3, KeysDiffer DEF Sound
<1>6. QED
  BY <1>2, <1>3, <1>4, <1>5 DEF Moves, Sound, after

LEMMA GrantTokensMoves ==
    ASSUME NEW acct, Sound(acct), NEW amount \in Nat
    PROVE  Moves(acct, GrantTokens(acct, amount))
<1> DEFINE tokens == RoundYuan(amount)
<1>1. tokens \in Int /\ TokenKey \in Keys \ {ExternalKey, SpendKey}
  BY RoundYuanType DEF Keys, TokenKey, ExternalKey, SpendKey
<1>2. acct.balance \in Int /\ acct.balance >= 0
  BY DEF Sound, Account
<1>3. GrantTokens(acct, amount) = IF tokens <= 0 THEN acct ELSE Post(acct, TokenKey, tokens)
  BY DEF GrantTokens
<1> HIDE DEF tokens
<1>4. tokens > 0 => Moves(acct, Post(acct, TokenKey, tokens))
  BY <1>1, <1>2, PostSound
<1>5. QED
  BY <1>1, <1>3, <1>4 DEF Moves

\* A revocation takes what is there at most.
LEMMA RevokeTokensMoves ==
    ASSUME NEW acct, Sound(acct), NEW amount \in Nat
    PROVE  Moves(acct, RevokeTokens(acct, amount))
<1> DEFINE taken == -Lesser(RoundYuan(amount), acct.balance)
<1>1. acct.balance \in Int /\ acct.balance >= 0
  BY DEF Sound, Account
<1>2. taken \in Int /\ TokenRevokeKey \in Keys \ {ExternalKey, SpendKey}
  BY <1>1, RoundYuanType DEF Keys, TokenRevokeKey, ExternalKey, SpendKey, Lesser
<1>3. acct.balance + taken >= 0
  BY <1>1, RoundYuanType DEF Lesser
<1>4. \/ RevokeTokens(acct, amount) = acct
      \/ RevokeTokens(acct, amount) = Post(acct, TokenRevokeKey, taken)
  BY DEF RevokeTokens
<1> HIDE DEF taken
<1>5. Moves(acct, Post(acct, TokenRevokeKey, taken))
  BY <1>2, <1>3, PostSound
<1>6. QED
  BY <1>4, <1>5 DEF Moves

\* Paying and spending moves nothing: both are booked, or neither was.
LEMMA PayAndSpendMoves ==
    ASSUME NEW acct, Sound(acct), NEW amount \in Nat \ {0}
    PROVE  Moves(acct, PayAndSpend(acct, amount))
<1> DEFINE paid == Post(acct, ExternalKey, amount)
           after == Post(paid, SpendKey, -amount)
<1>1. acct \in Account /\ ExternalKey \in Keys /\ SpendKey \in Keys
      /\ ExternalKey # SpendKey /\ amount \in Int /\ -amount \in Int
  BY DEF Sound, Keys, ExternalKey, SpendKey
<1>2. /\ paid \in Account
      /\ \A k \in Keys : k # ExternalKey => paid.txn[k] = acct.txn[k]
      /\ paid.txn[ExternalKey] = IF Booked(acct.txn, ExternalKey)
                                 THEN acct.txn[ExternalKey] ELSE amount
      /\ Outside(paid) = Outside(acct)
      /\ paid.balance = IF Booked(acct.txn, ExternalKey)
                        THEN acct.balance ELSE acct.balance + amount
  <2>1. acct \in Account /\ ExternalKey \in Keys /\ amount \in Int
    BY <1>1
  <2>2. /\ paid \in Account
        /\ \A k \in Keys : k # ExternalKey => paid.txn[k] = acct.txn[k]
        /\ paid.txn[ExternalKey] = IF Booked(acct.txn, ExternalKey)
                                   THEN acct.txn[ExternalKey] ELSE amount
    BY <2>1, PostEffect
  <2>3. /\ Outside(paid) = Outside(acct)
        /\ paid.balance = IF Booked(acct.txn, ExternalKey)
                          THEN acct.balance ELSE acct.balance + amount
    BY <2>1, PostMoves
  <2>4. QED
    BY <2>2, <2>3
<1> HIDE DEF paid
<1>3. /\ after \in Account
      /\ \A k \in Keys : k # SpendKey => after.txn[k] = paid.txn[k]
      /\ after.txn[SpendKey] = IF Booked(paid.txn, SpendKey)
                               THEN paid.txn[SpendKey] ELSE -amount
      /\ Outside(after) = Outside(paid)
      /\ after.balance = IF Booked(paid.txn, SpendKey)
                         THEN paid.balance ELSE paid.balance + (-amount)
  BY <1>1, <1>2, PostEffect, PostMoves
<1>4. after = PayAndSpend(acct, amount)
  BY DEF PayAndSpend, paid
<1> HIDE DEF after
<1>5. /\ acct.balance \in Int /\ acct.balance >= 0
      /\ acct.txn[SpendKey] \in Int /\ acct.txn[ExternalKey] \in Int
      /\ acct.txn[SpendKey] = -acct.txn[ExternalKey]
  BY <1>1 DEF Sound, Account
<1>6. Booked(paid.txn, SpendKey) <=> Booked(acct.txn, ExternalKey)
  BY <1>1, <1>2, <1>5 DEF Booked
<1>7. after.balance >= 0 /\ after.txn[SpendKey] = -after.txn[ExternalKey]
  BY <1>1, <1>2, <1>3, <1>5, <1>6
<1>8. QED
  BY <1>2, <1>3, <1>4, <1>7 DEF Moves, Sound

LEMMA FulfilAccountMoves ==
    ASSUME NEW acct, Sound(acct), NEW kind, NEW amount \in Nat \ {0}
    PROVE  Moves(acct, FulfilAccount(acct, kind, amount))
<1> DEFINE bought == PayAndSpend(acct, amount)
<1>1. Moves(acct, bought)
  BY PayAndSpendMoves
<1>2. FulfilAccount(acct, kind, amount) =
        IF kind = "wallet" THEN Post(acct, RechargeKey, amount)
        ELSE IF kind = "plan" THEN GrantTokens(bought, amount) ELSE bought
  BY DEF FulfilAccount
<1> HIDE DEF bought
<1>3. Moves(bought, GrantTokens(bought, amount))
  BY <1>1, GrantTokensMoves DEF Moves
<1>4. Moves(acct, Post(acct, RechargeKey, amount))
  <2>1. RechargeKey \in Keys \ {ExternalKey, SpendKey}
    BY DEF Keys, RechargeKey, ExternalKey, SpendKey
  <2>2. acct.balance \in Int /\ acct.balance >= 0
    BY DEF Sound, Account
  <2>3. amount \in Int /\ acct.balance + amount >= 0
    BY <2>2
  <2>4. QED
    BY <2>1, <2>3, PostSound
<1>5. QED
  BY <1>1, <1>2, <1>3, <1>4 DEF Moves

LEMMA RefundAccountMoves ==
    ASSUME NEW acct, Sound(acct), NEW kind, NEW amount \in Nat,
           NEW refunded \in Nat, NEW n \in 1..MaxRefunds
    PROVE  Moves(acct, RefundAccount(acct, kind, amount, refunded, n))
<1> DEFINE key == RefundKey(n)
           paidBack == Post(acct, key, refunded)
<1>1. key \in Keys \ {ExternalKey, SpendKey}
  BY KeysDiffer
<1>2. acct.balance \in Int /\ acct.balance >= 0
  BY DEF Sound, Account
<1>3. RefundAccount(acct, kind, amount, refunded, n) =
        IF kind = "plan" THEN RevokeTokens(paidBack, amount) ELSE paidBack
  BY DEF RefundAccount
<1> HIDE DEF key
<1>4. Moves(acct, paidBack)
  <2>1. refunded \in Int /\ acct.balance + refunded >= 0
    BY <1>2
  <2>2. QED
    BY <1>1, <2>1, PostSound
<1> HIDE DEF paidBack
<1>5. Moves(paidBack, RevokeTokens(paidBack, amount))
  BY <1>4, RevokeTokensMoves DEF Moves
<1>6. QED
  BY <1>3, <1>4, <1>5 DEF Moves

----------------------------------------------------------------------------
(***************************************************************************)
(* The tokens of a plan: what a grant and a revocation leave booked.       *)
(***************************************************************************)
\* The tokens booked after a grant of a number of them, if it is above zero.
GrantedTokens(txn, tokens) ==
    IF tokens <= 0 \/ Booked(txn, TokenKey) THEN txn[TokenKey] ELSE tokens

LEMMA GrantTokensBooks ==
    ASSUME NEW acct \in Account, NEW amount \in Nat
    PROVE  GrantTokens(acct, amount).txn[TokenKey]
              = GrantedTokens(acct.txn, RoundYuan(amount))
<1> DEFINE tokens == RoundYuan(amount)
<1>1. tokens \in Int /\ TokenKey \in Keys
  BY RoundYuanType, KeysDiffer
<1>2. GrantTokens(acct, amount) = IF tokens <= 0 THEN acct ELSE Post(acct, TokenKey, tokens)
  BY DEF GrantTokens
<1> HIDE DEF tokens
<1>3. Post(acct, TokenKey, tokens).txn[TokenKey]
        = IF Booked(acct.txn, TokenKey) THEN acct.txn[TokenKey] ELSE tokens
  BY <1>1, PostEffect
<1>4. GrantTokens(acct, amount).txn[TokenKey] = GrantedTokens(acct.txn, tokens)
  BY <1>1, <1>2, <1>3 DEF GrantedTokens
<1>5. QED
  BY <1>4 DEF tokens

\* A fulfilment revokes nothing, and grants tokens for a plan alone.
LEMMA FulfilAccountTokens ==
    ASSUME NEW acct \in Account, NEW kind, NEW amount \in Nat,
           NEW after, after = FulfilAccount(acct, kind, amount)
    PROVE  /\ after.txn[TokenRevokeKey] = acct.txn[TokenRevokeKey]
           /\ after.txn[TokenKey] = IF kind = "plan"
                                    THEN GrantedTokens(acct.txn, RoundYuan(amount))
                                    ELSE acct.txn[TokenKey]
<1> DEFINE bought == PayAndSpend(acct, amount)
           granted == GrantTokens(bought, amount)
           recharged == Post(acct, RechargeKey, amount)
<1>1. /\ RechargeKey \in Keys /\ TokenKey \in Keys \ {ExternalKey, SpendKey}
      /\ TokenRevokeKey \in Keys \ {ExternalKey, SpendKey}
      /\ TokenRevokeKey # TokenKey
      /\ TokenKey # RechargeKey /\ TokenRevokeKey # RechargeKey /\ amount \in Int
  BY DEF Keys, RechargeKey, TokenKey, TokenRevokeKey, ExternalKey, SpendKey
<1>2. after = IF kind = "wallet" THEN recharged
              ELSE IF kind = "plan" THEN granted ELSE bought
  BY DEF FulfilAccount
<1>3. /\ recharged.txn[TokenKey] = acct.txn[TokenKey]
      /\ recharged.txn[TokenRevokeKey] = acct.txn[TokenRevokeKey]
  BY <1>1, PostEffect
<1>4. /\ bought \in Account
      /\ bought.txn[TokenKey] = acct.txn[TokenKey]
      /\ bought.txn[TokenRevokeKey] = acct.txn[TokenRevokeKey]
  BY <1>1, PayAndSpendEffect
<1> HIDE DEF bought, recharged
<1>5. /\ granted.txn[TokenRevokeKey] = bought.txn[TokenRevokeKey]
      /\ granted.txn[TokenKey] = GrantedTokens(bought.txn, RoundYuan(amount))
  BY <1>1, <1>4, GrantTokensEffect, GrantTokensBooks
<1>6. GrantedTokens(bought.txn, RoundYuan(amount)) = GrantedTokens(acct.txn, RoundYuan(amount))
  BY <1>4 DEF GrantedTokens, Booked
<1> HIDE DEF granted
<1>7. QED
  BY <1>2, <1>3, <1>4, <1>5, <1>6

\* A refund that is not booked yet is paid back first, so that a plan's
\* tokens, or as many as were paid back, are there to be taken.
LEMMA RefundAccountTokens ==
    ASSUME NEW acct, Sound(acct), NEW amount \in Nat \ {0}, NEW n \in 1..MaxRefunds,
           ~Booked(acct.txn, RefundKey(n)), ~Booked(acct.txn, TokenRevokeKey),
           NEW after, after = RefundAccount(acct, "plan", amount, amount, n)
    PROVE  /\ after.txn[TokenKey] = acct.txn[TokenKey]
           /\ -after.txn[TokenRevokeKey] >= Lesser(RoundYuan(amount), amount)
           /\ -after.txn[TokenRevokeKey] <=
                 IF RoundYuan(amount) <= 0 THEN 0 ELSE RoundYuan(amount)
<1> DEFINE key == RefundKey(n)
           tokens == RoundYuan(amount)
           paidBack == Post(acct, key, amount)
           taken == -Lesser(tokens, paidBack.balance)
           revoked == Post(paidBack, TokenRevokeKey, taken)
<1>1. /\ acct \in Account /\ acct.balance \in Int /\ acct.balance >= 0
      /\ tokens \in Int /\ amount \in Int /\ amount > 0
  BY RoundYuanType DEF Sound, Account
<1>2. /\ key \in Keys /\ TokenKey \in Keys /\ TokenRevokeKey \in Keys
      /\ key # TokenKey /\ key # TokenRevokeKey /\ TokenKey # TokenRevokeKey
      /\ ~Booked(acct.txn, key)
  BY DEF Keys, RefundKey, TokenKey, TokenRevokeKey
<1>3. after = RevokeTokens(paidBack, amount)
  BY DEF RefundAccount
<1> HIDE DEF key
<1>4. /\ paidBack \in Account
      /\ paidBack.txn[TokenKey] = acct.txn[TokenKey]
      /\ paidBack.txn[TokenRevokeKey] = acct.txn[TokenRevokeKey]
  BY <1>1, <1>2, PostEffect
<1>5. paidBack.balance = acct.balance + amount
  BY <1>1, <1>2, PostMoves
<1> HIDE DEF paidBack
<1>6. after = IF tokens <= 0 \/ paidBack.balance <= 0 THEN paidBack ELSE revoked
  BY <1>3 DEF RevokeTokens
<1>7. taken \in Int
  BY <1>1, <1>5 DEF Lesser
<1>8. after.txn[TokenKey] = acct.txn[TokenKey]
  <2>1. TokenKey \in Keys /\ amount \in Nat
    BY <1>2
  <2>2. RevokeTokens(paidBack, amount).txn[TokenKey] = paidBack.txn[TokenKey]
    BY <1>2, <1>4, <2>1, RevokeTokensEffect
  <2>3. QED
    BY <1>3, <1>4, <2>2
<1>9. acct.txn[TokenRevokeKey] = 0
  BY DEF Booked
<1>10. CASE tokens <= 0
  <2>1. after.txn[TokenRevokeKey] = 0
    BY <1>4, <1>6, <1>9, <1>10
  <2>2. Lesser(tokens, amount) <= 0
    BY <1>1, <1>10 DEF Lesser
  <2>3. QED
    BY <1>8, <1>10, <2>1, <2>2, <1>1 DEF Lesser
<1>11. CASE tokens > 0
  <2>1. after = revoked
    BY <1>1, <1>5, <1>6, <1>11
  <2>2. ~Booked(paidBack.txn, TokenRevokeKey)
    BY <1>4, <1>9 DEF Booked
  <2> HIDE DEF taken
  <2>3. revoked.txn[TokenRevokeKey] = taken
    BY <1>2, <1>4, <1>7, <2>2, PostEffect
  <2> HIDE DEF revoked
  <2>4. after.txn[TokenRevokeKey] = -Lesser(tokens, paidBack.balance)
    BY <2>1, <2>3 DEF taken
  <2>5. /\ Lesser(tokens, paidBack.balance) \in Int
        /\ Lesser(tokens, paidBack.balance) >= Lesser(tokens, amount)
        /\ Lesser(tokens, paidBack.balance) <= tokens
    BY <1>1, <1>5 DEF Lesser
  <2> HIDE DEF tokens
  <2>6. -after.txn[TokenRevokeKey] = Lesser(tokens, paidBack.balance)
    BY <2>4, <2>5
  <2>7. QED
    BY <1>8, <1>11, <2>5, <2>6, <1>1 DEF tokens
<1>12. QED
  BY <1>1, <1>10, <1>11

----------------------------------------------------------------------------
(* EntitlementService.                                                     *)

PlanRow(orders) == [order : orders, active : BOOLEAN]

\* A sequence of rows stays one when every row is replaced by a row.
LEMMA RowsReplaced ==
    ASSUME NEW orders, NEW plans \in Seq(PlanRow(orders)),
           NEW rows, rows = [i \in DOMAIN plans |-> rows[i]],
           \A i \in DOMAIN plans : rows[i] \in PlanRow(orders)
    PROVE  /\ rows \in Seq(PlanRow(orders))
           /\ DOMAIN rows = DOMAIN plans
           /\ Len(rows) = Len(plans)
<1>1. DOMAIN plans = 1..Len(plans) /\ Len(plans) \in Nat
  OBVIOUS
<1>2. rows \in [1..Len(plans) -> PlanRow(orders)]
  BY <1>1
<1>3. QED
  BY <1>1, <1>2

\* activatePlan deactivates the rows it found current and adds an active one.
LEMMA ActivatePlanEffect ==
    ASSUME NEW orders, NEW plans \in Seq(PlanRow(orders)), NEW o \in orders, NEW current
    PROVE  /\ ActivatePlan(plans, current, o) \in Seq(PlanRow(orders))
           /\ ActiveRows(ActivatePlan(plans, current, o))
                 = (ActiveRows(plans) \ current) \cup {Len(plans) + 1}
           /\ ActivePlans(ActivatePlan(plans, current, o)) \subseteq ActivePlans(plans) \cup {o}
<1> DEFINE old == [i \in DOMAIN plans |-> [plans[i] EXCEPT !.active = @ /\ i \notin current]]
           row == [order |-> o, active |-> TRUE]
           new == Append(old, row)
<1>1. DOMAIN plans = 1..Len(plans) /\ Len(plans) \in Nat
  OBVIOUS
<1>2. \A i \in DOMAIN plans : plans[i] \in PlanRow(orders)
  BY <1>1
<1>3. ASSUME NEW i \in DOMAIN plans
      PROVE  /\ old[i] \in PlanRow(orders)
             /\ old[i].order = plans[i].order
             /\ old[i].active <=> plans[i].active /\ i \notin current
  <2>1. plans[i] \in PlanRow(orders)
    BY <1>2
  <2>2. old[i] = [order |-> plans[i].order, active |-> plans[i].active /\ i \notin current]
    BY <2>1 DEF PlanRow
  <2>3. QED
    BY <2>1, <2>2 DEF PlanRow
<1>4. old \in Seq(PlanRow(orders)) /\ Len(old) = Len(plans) /\ DOMAIN old = DOMAIN plans
  <2>1. old = [i \in DOMAIN plans |-> old[i]]
    OBVIOUS
  <2> HIDE DEF old
  <2>2. QED
    BY <1>3, <2>1, RowsReplaced
<1>5. row \in PlanRow(orders) /\ row.active /\ row.order = o
  BY DEF PlanRow
<1>6. new = ActivatePlan(plans, current, o)
  BY DEF ActivatePlan
<1> HIDE DEF old, row
<1>7. /\ new \in Seq(PlanRow(orders))
      /\ DOMAIN new = 1..(Len(plans) + 1)
      /\ \A i \in 1..Len(plans) : new[i] = old[i]
      /\ new[Len(plans) + 1] = row
  BY <1>1, <1>4, <1>5
<1> HIDE DEF new
<1>8. \A i \in DOMAIN new :
         new[i].active <=> (i \in ActiveRows(plans) /\ i \notin current) \/ i = Len(plans) + 1
  BY <1>1, <1>3, <1>5, <1>7 DEF ActiveRows
<1>9. ActiveRows(new) = (ActiveRows(plans) \ current) \cup {Len(plans) + 1}
  BY <1>1, <1>7, <1>8 DEF ActiveRows
<1>10. ActivePlans(new) \subseteq ActivePlans(plans) \cup {o}
  <2>1. ASSUME NEW i \in ActiveRows(new)
        PROVE  new[i].order \in ActivePlans(plans) \cup {o}
    BY <1>1, <1>3, <1>5, <1>7, <1>9 DEF ActivePlans, ActiveRows
  <2>2. QED
    BY <2>1 DEF ActivePlans
<1>11. QED
  BY <1>6, <1>7, <1>9, <1>10

\* The active rows are finitely many; the last of them is the current plan.
LEMMA ActiveRowsFinite ==
    ASSUME NEW orders, NEW plans \in Seq(PlanRow(orders))
    PROVE  /\ IsFiniteSet(ActiveRows(plans))
           /\ Cardinality(ActiveRows(plans)) \in Nat
<1>1. IsFiniteSet(1..Len(plans))
  BY FS_Interval
<1>2. ActiveRows(plans) \subseteq 1..Len(plans)
  BY DEF ActiveRows
<1>3. QED
  BY <1>1, <1>2, FS_Subset, FS_CardinalityType

LEMMA SomeRowIsCurrent ==
    ASSUME NEW orders, NEW plans \in Seq(PlanRow(orders)), ActiveRows(plans) # {}
    PROVE  \E i \in ActiveRows(plans) : i \in CurrentPlan(plans)
<1> DEFINE n == Len(plans)
           Back == {n - i : i \in ActiveRows(plans)}
<1>1. n \in Nat /\ DOMAIN plans = 1..n
  OBVIOUS
<1>2. ActiveRows(plans) \subseteq 1..n
  BY <1>1 DEF ActiveRows
<1> HIDE DEF n
<1>3. Back \subseteq Nat /\ Back # {}
  BY <1>1, <1>2
<1> HIDE DEF Back
<1>4. PICK b \in Back : \A c \in Back : b <= c
  BY <1>3, Least
<1>5. PICK i \in ActiveRows(plans) : b = n - i
  BY <1>4 DEF Back
<1>6. ASSUME NEW j \in (i + 1)..n PROVE ~plans[j].active
  <2>1. n - j < n - i /\ j \in 1..n
    BY <1>1, <1>2, <1>5
  <2>2. n - j \notin Back
    BY <1>1, <1>2, <1>4, <1>5, <2>1
  <2>3. QED
    BY <1>1, <2>1, <2>2 DEF ActiveRows, Back
<1>7. i \in CurrentPlan(plans)
  BY <1>1, <1>2, <1>5, <1>6 DEF CurrentPlan, IsCurrentPlan, ActiveRows, n
<1>8. QED
  BY <1>5, <1>7

\* Starting a plan adds one active row at most; none beyond the first, when
\* what it deactivates is still active, as the current plan of the moment is.
LEMMA ActivatePlanRows ==
    ASSUME NEW orders, NEW plans \in Seq(PlanRow(orders)), NEW o \in orders, NEW current
    PROVE  LET before == Cardinality(ActiveRows(plans))
               after == Cardinality(ActiveRows(ActivatePlan(plans, current, o)))
           IN  /\ after \in Nat
               /\ after <= before + 1
               /\ current \cap ActiveRows(plans) # {} => after <= before
               /\ current = CurrentPlan(plans) => after <= 1 \/ after <= before
<1> DEFINE A == ActiveRows(plans)
           C == A \ current
           new == ActiveRows(ActivatePlan(plans, current, o))
           k == Len(plans) + 1
<1>1. IsFiniteSet(A) /\ Cardinality(A) \in Nat
  BY ActiveRowsFinite
<1>2. new = C \cup {k} /\ k \notin C
  BY ActivatePlanEffect DEF ActiveRows
<1>3. /\ A # {} /\ current = CurrentPlan(plans) => \E i \in A : i \notin C
      /\ current \cap A # {} => \E i \in A : i \notin C
  BY SomeRowIsCurrent
<1>4. C \subseteq A /\ IsFiniteSet(C) /\ Cardinality(C) \in Nat /\ Cardinality(C) <= Cardinality(A)
  BY <1>1, FS_Subset, FS_CardinalityType
<1> HIDE DEF A, C, new, k
<1>5. Cardinality(new) = Cardinality(C) + 1
  BY <1>2, <1>4, FS_AddElement
<1>6. ASSUME NEW i \in A, i \notin C
      PROVE  Cardinality(C) <= Cardinality(A) - 1
  <2>1. C \subseteq A \ {i}
    BY <1>4, <1>6
  <2>2. IsFiniteSet(A \ {i}) /\ Cardinality(A \ {i}) = Cardinality(A) - 1
    BY <1>1, FS_RemoveElement
  <2>3. QED
    BY <2>1, <2>2, FS_Subset
<1>7. A = {} => Cardinality(C) = 0
  BY <1>4, FS_EmptySet
<1>8. /\ Cardinality(new) \in Nat
      /\ Cardinality(new) <= Cardinality(A) + 1
      /\ current \cap A # {} => Cardinality(new) <= Cardinality(A)
      /\ current = CurrentPlan(plans)
            => Cardinality(new) <= 1 \/ Cardinality(new) <= Cardinality(A)
  BY <1>1, <1>3, <1>4, <1>5, <1>6, <1>7
<1>9. QED
  BY <1>8 DEF A, new

\* Deactivating an order's plan activates nothing and leaves no plan of it.
LEMMA DeactivatePlanEffect ==
    ASSUME NEW orders, NEW plans \in Seq(PlanRow(orders)), NEW o
    PROVE  /\ DeactivatePlan(plans, o) \in Seq(PlanRow(orders))
           /\ ActiveRows(DeactivatePlan(plans, o)) \subseteq ActiveRows(plans)
           /\ ActivePlans(DeactivatePlan(plans, o)) = ActivePlans(plans) \ {o}
<1> DEFINE new == [i \in DOMAIN plans |->
                       [plans[i] EXCEPT !.active = @ /\ plans[i].order # o]]
<1>1. DOMAIN plans = 1..Len(plans) /\ Len(plans) \in Nat
  OBVIOUS
<1>2. \A i \in DOMAIN plans : plans[i] \in PlanRow(orders)
  BY <1>1
<1>3. ASSUME NEW i \in DOMAIN plans
      PROVE  /\ new[i] \in PlanRow(orders)
             /\ new[i].order = plans[i].order
             /\ new[i].active <=> plans[i].active /\ plans[i].order # o
  <2>1. plans[i] \in PlanRow(orders)
    BY <1>2
  <2>2. new[i] = [order |-> plans[i].order,
                  active |-> plans[i].active /\ plans[i].order # o]
    BY <2>1 DEF PlanRow
  <2>3. QED
    BY <2>1, <2>2 DEF PlanRow
<1>4. new \in Seq(PlanRow(orders)) /\ DOMAIN new = DOMAIN plans
  <2>1. new = [i \in DOMAIN plans |-> new[i]]
    OBVIOUS
  <2> HIDE DEF new
  <2>2. QED
    BY <1>3, <2>1, RowsReplaced
<1>5. new = DeactivatePlan(plans, o)
  BY DEF DeactivatePlan
<1> HIDE DEF new
<1>6. ActiveRows(new) = {i \in ActiveRows(plans) : plans[i].order # o}
  BY <1>3, <1>4 DEF ActiveRows
<1>7. ActivePlans(new) = ActivePlans(plans) \ {o}
  <2>1. \A i \in ActiveRows(new) : new[i].order = plans[i].order
    BY <1>3, <1>6 DEF ActiveRows
  <2>2. QED
    BY <1>6, <2>1 DEF ActivePlans
<1>8. QED
  BY <1>4, <1>5, <1>6, <1>7

\* The quota operators keep totals and counts natural numbers.
LEMMA QuotaTypesKept ==
    ASSUME NEW quota \in [QuotaTypes -> Quota]
    PROVE  /\ IncrementEmployeeCount(quota) \in [QuotaTypes -> Quota]
           /\ ClampQuotas(quota) \in [QuotaTypes -> Quota]
           /\ \A read \in [QuotaTypes -> Quota] : \A totals :
                 (\A t \in DOMAIN totals : totals[t] \in Nat) =>
                    ApplyPlanQuotas(quota, read, totals) \in [QuotaTypes -> Quota]
<1>1. IncrementEmployeeCount(quota) \in [QuotaTypes -> Quota]
  BY QuotaTypesAssumption DEF IncrementEmployeeCount, Quota
<1>2. ClampQuotas(quota) \in [QuotaTypes -> Quota]
  BY DEF ClampQuotas, Quota
<1>3. ASSUME NEW read \in [QuotaTypes -> Quota],
             NEW totals, \A t \in DOMAIN totals : totals[t] \in Nat
      PROVE  ApplyPlanQuotas(quota, read, totals) \in [QuotaTypes -> Quota]
  BY <1>3 DEF ApplyPlanQuotas, Quota
<1>4. QED
  BY <1>1, <1>2, <1>3
=============================================================================

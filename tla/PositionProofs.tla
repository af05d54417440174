--------------------------- MODULE PositionProofs ---------------------------
(***************************************************************************)
(* Proofs about Position, for any coins, prices, limits, shares and bounds.*)
(* Amounts are sums over the coins and over the open orders: what a step   *)
(* does to one order or one coin it does to the sum (module Sums).         *)
(***************************************************************************)
EXTENDS Position, Sums

OrderSet == [symbol : Symbol, side : {"buy", "sell"}, size : Nat \ {0}, heard : BOOLEAN]
JobSet == [symbol : Symbol, side : {"buy", "sell"}, size : Nat \ {0}, price : Nat \ {0},
           cause : {"signal", "exit"}, judged : BOOLEAN]
AccountSet == [cash : Nat, locked : Nat, qty : [Symbol -> Nat], all : [Symbol -> Nat],
               cost : [Symbol -> Nat]]

(* The sums of the model, as sums of functions, and the account in them.   *)
sizes == [o \in OrderSet |-> o.size]
locks == [o \in OrderSet |-> o.size + FeeOf(o.size)]

BuysOf(os) == {o \in os : o.side = "buy"}
SellsOf(os, s) == {o \in os : o.symbol = s /\ o.side = "sell"}
BuySize(os) == Total(sizes, BuysOf(os))
BuyLock(os) == Total(locks, BuysOf(os))
SellSize(os, s) == Total(sizes, SellsOf(os, s))
CostSum == Total(cost, Symbol)

Ledger ==
  [cash |-> cash, locked |-> BuyLock(orders), qty |-> qty,
   all |-> [s \in Symbol |-> qty[s] + SellSize(orders, s)], cost |-> cost]

(* The types, of jobs and readings too.                                    *)
MoneyOK ==
  /\ cash \in Nat /\ qty \in [Symbol -> Nat] /\ cost \in [Symbol -> Nat]
  /\ orders \subseteq OrderSet /\ IsFiniteSet(orders)
  /\ seen \in AccountSet /\ lost \in Int /\ baseline \in Nat \cup {NoBaseline}
  /\ job = NoJob \/ job \in JobSet

PriceOK ==
  /\ price \in [Symbol -> Nat] /\ \A s \in Symbol : price[s] \in Price[s]
  /\ peak \in [Symbol -> Nat] /\ high \in [Symbol -> Nat]
  /\ \A s \in Symbol : {peak[s], high[s]} \subseteq Price[s] \cup {0} /\ high[s] <= peak[s]

CountOK ==
  /\ accepted \in 0 .. MaxOrders /\ faults \in 0 .. MaxFaults /\ unheard \in 0 .. faults
  /\ cached \in BOOLEAN /\ blind \in BOOLEAN /\ age \in {"now", "filled", "older"}

(* A job has passed the rules.                                             *)
Judged == job # NoJob /\ job.judged
JudgedBuy == Judged /\ job.side = "buy"

(* Open orders on record keep to the limits and leave room for the judged; *)
(* the others are of answers that were lost.                               *)
OrderInv ==
  /\ Cardinality(Known(orders)) <= MaxOpenOrders
  /\ \A s \in Symbol : Cardinality(Known({o \in orders : o.symbol = s})) <= 1
  /\ Cardinality(orders \ Known(orders)) <= unheard
  /\ Judged => ~AtOpenLimit(job.symbol)
  /\ \A o \in Buys : o.size <= MaxOrder
  /\ JudgedBuy => job.size <= MaxOrder

(* What is at risk, and what the rule does not see of it.                  *)
AtRisk == CostSum + BuySize(orders)
Unseen == (MaxOpenOrders + unheard) * MaxOrder

ExposureInv ==
  /\ cached => AtRisk <= Total(seen.cost, Symbol) + Unseen
  /\ ~blind => /\ AtRisk <= MaxExposure + Unseen
               /\ JudgedBuy => AtRisk + job.size <= MaxExposure + Unseen

(* Cash goes only to an order, after which the reading does not count.     *)
CashInv ==
  ~blind /\ unheard = 0 =>
    /\ cached => seen.cash <= cash
    /\ job # NoJob /\ job.side = "buy" => job.size + FeeOf(job.size) <= cash

(* Nothing gets lost but what is counted as lost.                          *)
LossInv ==
  /\ age = "now" => seen = Ledger
  /\ baseline # NoBaseline => cash + BuyLock(orders) + CostSum + lost = baseline
  /\ JudgedBuy /\ age = "now" /\ ~blind => lost < MaxDailyLoss

(* An exit is a SELL of something.                                         *)
ExitInv == job # NoJob /\ job.cause = "exit" => job.side = "sell"
-----------------------------------------------------------------------------
(* A fee is never more than the amount.                                    *)
LEMMA FeeBounds ==
  ASSUME NEW n \in Nat
  PROVE  FeeOf(n) \in Nat /\ FeeOf(n) <= n
<1>1. Fee \in 0 .. 100
  BY SharesAssumption
<1>2. n * Fee \in Nat /\ n * Fee <= n * 100
  BY <1>1
<1> QED
  BY <1>2 DEF FeeOf, Whole

(* What an order counts for.                                               *)
LEMMA OrderFunctions ==
  ASSUME NEW o \in OrderSet
  PROVE  /\ sizes[o] = o.size /\ locks[o] = o.size + FeeOf(o.size)
         /\ o.size \in Nat /\ sizes[o] \in Nat /\ locks[o] \in Nat
<1>1. o.size \in Nat
  BY DEF OrderSet
<1> QED
  BY <1>1, FeeBounds DEF sizes, locks

(* The sizes of the model are a total.                                     *)
LEMMA SizeSum ==
  ASSUME NEW os \in SUBSET OrderSet, IsFiniteSet(os)
  PROVE  SizeOf(os) = Total(sizes, os)
<1> DEFINE Computes(g) == g = [s \in SUBSET os |->
                             IF s = {} THEN 0
                             ELSE (CHOOSE x \in s : TRUE).size + g[s \ {CHOOSE x \in s : TRUE}]]
           it == CHOOSE g : Computes(g)
<1>1. SizeOf(os) = it[os]
  BY DEF SizeOf, MapThenSumSet, MapThenFoldSet
<1>2. ASSUME NEW g PROVE Computes(g) <=> IsSum(g, sizes, os)
  <2>1. ASSUME NEW s \in SUBSET os, s # {} PROVE sizes[pick(s)] = pick(s).size
    BY <2>1, Picked, OrderFunctions
  <2>2. [s \in SUBSET os |-> IF s = {} THEN 0 ELSE pick(s).size + g[s \ {pick(s)}]]
          = [s \in SUBSET os |-> IF s = {} THEN 0 ELSE sizes[pick(s)] + g[s \ {pick(s)}]]
    BY <2>1
  <2> QED
    BY <2>2 DEF IsSum, pick
<1> HIDE DEF Computes
<1>3. Computes(it)
  BY <1>2, SumExists
<1>4. IsSum(it, sizes, os) /\ IsSum(SumOf(sizes, os), sizes, os)
  BY <1>2, <1>3, SumSound
<1> HIDE DEF it
<1>5. it[os] = SumOf(sizes, os)[os]
  BY <1>4, SumsAgree
<1> QED
  BY <1>1, <1>5, TotalIsSum

(* So is what is locked.                                                   *)
LEMMA LockSum ==
  ASSUME NEW os \in SUBSET OrderSet, IsFiniteSet(os)
  PROVE  MapThenSumSet(LAMBDA o : o.size + FeeOf(o.size), os) = Total(locks, os)
<1> DEFINE Computes(g) == g = [s \in SUBSET os |->
                             IF s = {} THEN 0
                             ELSE ((CHOOSE x \in s : TRUE).size + FeeOf((CHOOSE x \in s : TRUE).size))
                                    + g[s \ {CHOOSE x \in s : TRUE}]]
           it == CHOOSE g : Computes(g)
<1>1. MapThenSumSet(LAMBDA o : o.size + FeeOf(o.size), os) = it[os]
  BY DEF MapThenSumSet, MapThenFoldSet
<1>2. ASSUME NEW g PROVE Computes(g) <=> IsSum(g, locks, os)
  <2>1. ASSUME NEW s \in SUBSET os, s # {}
        PROVE  locks[pick(s)] = pick(s).size + FeeOf(pick(s).size)
    BY <2>1, Picked, OrderFunctions
  <2>2. [s \in SUBSET os |-> IF s = {} THEN 0
                             ELSE (pick(s).size + FeeOf(pick(s).size)) + g[s \ {pick(s)}]]
          = [s \in SUBSET os |-> IF s = {} THEN 0 ELSE locks[pick(s)] + g[s \ {pick(s)}]]
    BY <2>1
  <2> QED
    BY <2>2 DEF IsSum, pick
<1> HIDE DEF Computes
<1>3. Computes(it)
  BY <1>2, SumExists
<1>4. IsSum(it, locks, os) /\ IsSum(SumOf(locks, os), locks, os)
  BY <1>2, <1>3, SumSound
<1> HIDE DEF it
<1>5. it[os] = SumOf(locks, os)[os]
  BY <1>4, SumsAgree
<1> QED
  BY <1>1, <1>5, TotalIsSum

(* Orders by side and symbol.                                              *)
LEMMA Parts ==
  ASSUME NEW os \in SUBSET OrderSet, IsFiniteSet(os)
  PROVE  /\ BuysOf(os) \in SUBSET OrderSet /\ IsFiniteSet(BuysOf(os))
         /\ \A s : SellsOf(os, s) \in SUBSET OrderSet /\ IsFiniteSet(SellsOf(os, s))
         /\ BuySize(os) \in Nat /\ BuyLock(os) \in Nat
         /\ \A s : SellSize(os, s) \in Nat /\ \A o \in SellsOf(os, s) : o.size <= SellSize(os, s)
<1>1. BuysOf(os) \in SUBSET OrderSet /\ IsFiniteSet(BuysOf(os))
  <2>1. BuysOf(os) \in SUBSET os
    BY DEF BuysOf
  <2> QED
    BY <2>1, FS_Subset
<1>2. ASSUME NEW s PROVE SellsOf(os, s) \in SUBSET OrderSet /\ IsFiniteSet(SellsOf(os, s))
  <2>1. SellsOf(os, s) \in SUBSET os
    BY DEF SellsOf
  <2> QED
    BY <2>1, FS_Subset
<1>3. BuySize(os) \in Nat /\ BuyLock(os) \in Nat
  <2>1. \A o \in BuysOf(os) : sizes[o] \in Nat /\ locks[o] \in Nat
    BY <1>1, OrderFunctions
  <2> QED
    BY <1>1, <2>1, TotalNat DEF BuySize, BuyLock
<1>4. ASSUME NEW s
      PROVE  SellSize(os, s) \in Nat /\ \A o \in SellsOf(os, s) : o.size <= SellSize(os, s)
  <2>1. \A o \in SellsOf(os, s) : sizes[o] \in Nat /\ sizes[o] = o.size
    BY <1>2, OrderFunctions
  <2>2. /\ Total(sizes, SellsOf(os, s)) \in Nat
        /\ \A o \in SellsOf(os, s) : sizes[o] <= Total(sizes, SellsOf(os, s))
    BY <1>2, <2>1, TotalNat
  <2> QED
    BY <2>1, <2>2 DEF SellSize
<1> QED
  BY <1>1, <1>2, <1>3, <1>4

(* An order more, or one less.                                             *)
LEMMA OrderMore ==
  ASSUME NEW os \in SUBSET OrderSet, IsFiniteSet(os), NEW o \in OrderSet, o \notin os
  PROVE  /\ BuySize(os \cup {o}) = BuySize(os) + (IF o.side = "buy" THEN o.size ELSE 0)
         /\ BuyLock(os \cup {o})
              = BuyLock(os) + (IF o.side = "buy" THEN o.size + FeeOf(o.size) ELSE 0)
<1> DEFINE B == BuysOf(os)
<1>1. B \in SUBSET OrderSet /\ IsFiniteSet(B) /\ BuySize(os) \in Nat /\ BuyLock(os) \in Nat
  BY Parts
<1>2. BuySize(os) = Total(sizes, B) /\ BuyLock(os) = Total(locks, B)
  BY DEF BuySize, BuyLock
<1>3. CASE o.side = "buy"
  <2>1. BuysOf(os \cup {o}) = B \cup {o} /\ o \notin B
    BY <1>3 DEF BuysOf
  <2>2. \A x \in B \cup {o} : sizes[x] \in Int /\ locks[x] \in Int
    BY <1>1, OrderFunctions
  <2> HIDE DEF B
  <2>3. Total(sizes, B \cup {o}) = Total(sizes, B) + sizes[o]
    BY <1>1, <2>1, <2>2, TotalAdd
  <2>4. Total(locks, B \cup {o}) = Total(locks, B) + locks[o]
    BY <1>1, <2>1, <2>2, TotalAdd
  <2>5. BuySize(os \cup {o}) = Total(sizes, B \cup {o}) /\ BuyLock(os \cup {o}) = Total(locks, B \cup {o})
    BY <2>1 DEF BuySize, BuyLock
  <2> QED
    BY <1>2, <1>3, <2>3, <2>4, <2>5, OrderFunctions
<1>4. CASE o.side # "buy"
  <2>1. BuysOf(os \cup {o}) = B
    BY <1>4 DEF BuysOf
  <2> QED
    BY <1>1, <1>2, <1>4, <2>1 DEF BuySize, BuyLock
<1> QED
  BY <1>3, <1>4

(* An order less.                                                          *)
LEMMA OrderLess ==
  ASSUME NEW os \in SUBSET OrderSet, IsFiniteSet(os), NEW o \in os
  PROVE  /\ BuySize(os \ {o}) = BuySize(os) - (IF o.side = "buy" THEN o.size ELSE 0)
         /\ BuyLock(os \ {o})
              = BuyLock(os) - (IF o.side = "buy" THEN o.size + FeeOf(o.size) ELSE 0)
<1> DEFINE r == os \ {o}
<1>1. r \in SUBSET OrderSet /\ IsFiniteSet(r) /\ o \in OrderSet /\ o \notin r /\ r \cup {o} = os
  BY FS_RemoveElement
<1> HIDE DEF r
<1>2. /\ BuySize(r \cup {o}) = BuySize(r) + (IF o.side = "buy" THEN o.size ELSE 0)
      /\ BuyLock(r \cup {o})
           = BuyLock(r) + (IF o.side = "buy" THEN o.size + FeeOf(o.size) ELSE 0)
  BY <1>1, OrderMore
<1>3. BuySize(r) \in Nat /\ BuyLock(r) \in Nat /\ o.size \in Nat /\ FeeOf(o.size) \in Nat
  BY <1>1, Parts, OrderFunctions, FeeBounds
<1>4. /\ BuySize(os) = BuySize(r) + (IF o.side = "buy" THEN o.size ELSE 0)
      /\ BuyLock(os) = BuyLock(r) + (IF o.side = "buy" THEN o.size + FeeOf(o.size) ELSE 0)
  BY <1>1, <1>2
<1> QED
  BY <1>3, <1>4 DEF r
-----------------------------------------------------------------------------
(* The account, and the amounts that are worked out from one.              *)
LEMMA LedgerTyped ==
  ASSUME MoneyOK
  PROVE  Ledger \in AccountSet
<1>1. BuyLock(orders) \in Nat /\ \A s \in Symbol : SellSize(orders, s) \in Nat
  BY Parts DEF MoneyOK
<1>2. [s \in Symbol |-> qty[s] + SellSize(orders, s)] \in [Symbol -> Nat]
  BY <1>1 DEF MoneyOK
<1> QED
  BY <1>1, <1>2 DEF Ledger, AccountSet, MoneyOK

(* What GET /v1/accounts answers is the account in sums.                   *)
LEMMA AccountIs ==
  ASSUME MoneyOK
  PROVE  Account = Ledger
<1>1. /\ orders \in SUBSET OrderSet /\ IsFiniteSet(orders)
      /\ BuysOf(orders) \in SUBSET OrderSet /\ IsFiniteSet(BuysOf(orders))
      /\ \A s : SellsOf(orders, s) \in SUBSET OrderSet /\ IsFiniteSet(SellsOf(orders, s))
  BY Parts DEF MoneyOK
<1>2. MapThenSumSet(LAMBDA o : o.size + FeeOf(o.size), Buys) = BuyLock(orders)
  <2>1. Buys = BuysOf(orders)
    BY DEF Buys, BuysOf
  <2>2. MapThenSumSet(LAMBDA o : o.size + FeeOf(o.size), BuysOf(orders)) = Total(locks, BuysOf(orders))
    BY <1>1, LockSum
  <2> QED
    BY <2>1, <2>2 DEF BuyLock
<1>3. ASSUME NEW s \in Symbol PROVE SizeOf(Of(s, "sell")) = SellSize(orders, s)
  <2>1. Of(s, "sell") = SellsOf(orders, s)
    BY DEF Of, SellsOf
  <2> QED
    BY <1>1, <2>1, SizeSum DEF SellSize
<1> QED
  BY <1>2, <1>3 DEF Account, Ledger

(* The amounts of the rules, of any account.                               *)
LEMMA Amounts ==
  ASSUME NEW a \in AccountSet
  PROVE  /\ Exposure(a) = Total(a.cost, Symbol) /\ Exposure(a) \in Nat
         /\ CashKrw(a) = a.cash + a.locked /\ EquityKrw(a) = CashKrw(a) + Exposure(a)
         /\ a.cash \in Nat /\ a.locked \in Nat
<1>1. Exposure(a) = Total(a.cost, Symbol)
  BY DEF Exposure, Total
<1>2. \A s \in Symbol : a.cost[s] \in Nat
  BY DEF AccountSet
<1>3. Total(a.cost, Symbol) \in Nat
  BY <1>2, TotalNat, BoundsAssumption
<1> QED
  BY <1>1, <1>3 DEF CashKrw, EquityKrw, AccountSet

(* Division rounds down.                                                   *)
LEMMA Divided ==
  ASSUME NEW x \in Int, NEW d \in Nat \ {0}
  PROVE  x \div d \in Int /\ d * (x \div d) <= x /\ x < d * (x \div d) + d
  OBVIOUS

(* A natural number divided is one.                                        *)
LEMMA DividedNat ==
  ASSUME NEW x \in Nat, NEW d \in Nat \ {0}
  PROVE  x \div d \in Nat
  OBVIOUS

(* The equity at market prices is an integer.                              *)
LEMMA EquityMtmTyped ==
  ASSUME NEW a \in AccountSet, NEW unpriced \in SUBSET Symbol, PriceOK
  PROVE  EquityMtm(a, unpriced) \in Int
<1> DEFINE Term(s) == IF a.all[s] = 0 THEN 0
                      ELSE IF s \in unpriced THEN (a.cost[s] * a.qty[s]) \div a.all[s]
                      ELSE OpenValue(a, s, price[s]) \div Scale
           f == [s \in Symbol |-> Term(s)]
           Computes(g) == g = [t \in SUBSET Symbol |->
                                 IF t = {} THEN 0
                                 ELSE Term(CHOOSE x \in t : TRUE) + g[t \ {CHOOSE x \in t : TRUE}]]
           it == CHOOSE g : Computes(g)
<1>1. ASSUME NEW s \in Symbol PROVE Term(s) \in Int
  <2>1. a.cost[s] \in Nat /\ a.qty[s] \in Nat /\ a.all[s] \in Nat /\ price[s] \in Nat
        /\ Scale \in Nat \ {0}
    BY AmountsAssumption DEF AccountSet, PriceOK
  <2>2. a.cost[s] * a.qty[s] \in Int /\ OpenValue(a, s, price[s]) \in Int
    BY <2>1 DEF OpenValue
  <2>3. CASE a.all[s] = 0
    BY <2>3
  <2>4. CASE a.all[s] # 0
    <3>1. (a.cost[s] * a.qty[s]) \div a.all[s] \in Int /\ OpenValue(a, s, price[s]) \div Scale \in Int
      BY <2>1, <2>2, <2>4, Divided
    <3> QED
      BY <2>4, <3>1
  <2> QED
    BY <2>3, <2>4
<1>2. EquityMtm(a, unpriced) = CashKrw(a) + it[Symbol]
  BY DEF EquityMtm, MapThenSumSet, MapThenFoldSet
<1> HIDE DEF Term
<1>3. ASSUME NEW g PROVE Computes(g) <=> IsSum(g, f, Symbol)
  <2>1. ASSUME NEW t \in SUBSET Symbol, t # {} PROVE f[pick(t)] = Term(pick(t))
    BY <2>1, Picked
  <2>2. [t \in SUBSET Symbol |-> IF t = {} THEN 0 ELSE Term(pick(t)) + g[t \ {pick(t)}]]
          = [t \in SUBSET Symbol |-> IF t = {} THEN 0 ELSE f[pick(t)] + g[t \ {pick(t)}]]
    BY <2>1
  <2> QED
    BY <2>2 DEF IsSum, pick
<1>4. \A s \in Symbol : f[s] \in Int
  BY <1>1
<1> HIDE DEF Computes, f
<1>5. Computes(it)
  BY <1>3, SumExists, BoundsAssumption
<1>6. IsSum(it, f, Symbol) /\ IsSum(SumOf(f, Symbol), f, Symbol)
  BY <1>3, <1>5, SumSound, BoundsAssumption
<1> HIDE DEF it
<1>7. it[Symbol] = Total(f, Symbol)
  BY <1>6, SumsAgree, TotalIsSum, BoundsAssumption
<1>8. Total(f, Symbol) \in Int /\ CashKrw(a) \in Int
  BY <1>4, TotalInt, BoundsAssumption, Amounts
<1> QED
  BY <1>2, <1>7, <1>8

(* A least amount is no more than any.                                     *)
LEMMA LeastOfThem ==
  ASSUME NEW w \in Int, NEW x \in Int, NEW y \in Int, NEW z \in Int,
         NEW R, R = {} \/ \E v \in Int : R = {v}
  PROVE  LET m == Min({w, x, y, z} \cup R)
         IN  m \in Int /\ m <= w /\ m <= x /\ m <= y /\ m <= z
<1> DEFINE T == {w, x, y, z} \cup R
<1>1. \E m \in T : \A n \in T : m <= n
  <2>1. \E m \in {w, x} : m <= w /\ m <= x
    OBVIOUS
  <2>2. \E m \in {w, x, y} : m <= w /\ m <= x /\ m <= y
    BY <2>1
  <2>3. PICK m \in {w, x, y, z} : m <= w /\ m <= x /\ m <= y /\ m <= z
    BY <2>2
  <2>4. CASE R = {}
    BY <2>3, <2>4
  <2>5. ASSUME NEW v \in Int, R = {v} PROVE \E k \in T : \A n \in T : k <= n
    <3>1. CASE m <= v
      <4>1. m \in T /\ \A n \in T : m <= n
        BY <2>3, <2>5, <3>1
      <4> QED
        BY <4>1
    <3>2. CASE ~(m <= v)
      <4>1. v \in T /\ \A n \in T : v <= n
        BY <2>3, <2>5, <3>2
      <4> QED
        BY <4>1
    <3> QED
      BY <3>1, <3>2
  <2> QED
    BY <2>4, <2>5
<1>2. Min(T) \in T /\ \A n \in T : Min(T) <= n
  BY <1>1 DEF Min
<1>3. Min(T) \in Int /\ w \in T /\ x \in T /\ y \in T /\ z \in T
  BY <1>2
<1> QED
  BY <1>2, <1>3

(* A BUY is sized within what is spendable and an order may be.            *)
LEMMA BuyAmountBounds ==
  ASSUME NEW a \in AccountSet, NEW s \in Symbol, NEW multiplier \in Multiplier
  PROVE  LET amount == BuyAmount(a, s, multiplier)
         IN  amount \in Int /\ amount <= Spendable(a) /\ amount <= MaxOrder
<1> DEFINE base == a.cash * CashUsage * multiplier
           adjusted == (2 * base + Whole * Whole) \div (2 * Whole * Whole)
           allocation == EquityKrw(a) \div Targets - a.cost[s]
           R == IF Targets > 1 THEN {Higher(0, allocation)} ELSE {}
<1>0. /\ CashUsage \in Nat /\ multiplier \in Nat /\ Targets \in Nat \ {0} /\ Buffer \in 0 .. 100
      /\ MaxOrder \in Nat /\ MaxExposure \in Nat
  BY SharesAssumption, AmountsAssumption
<1>1. a.cash \in Nat /\ a.cost[s] \in Nat /\ Exposure(a) \in Nat /\ EquityKrw(a) \in Int
  BY Amounts DEF AccountSet
<1>2. Higher(1, adjusted) \in Int
  <2>1. base \in Nat
    BY <1>0, <1>1
  <2> HIDE DEF base
  <2>2. adjusted \in Int
    BY <2>1 DEF Whole
  <2> HIDE DEF adjusted
  <2> QED
    BY <2>2 DEF Higher
<1>3. Spendable(a) \in Int
  <2>1. a.cash * (Whole - Buffer) \in Int
    BY <1>0, <1>1 DEF Whole
  <2> QED
    BY <2>1, Divided DEF Spendable, Whole
<1>4. Higher(0, MaxExposure - Exposure(a)) \in Int
  BY <1>0, <1>1 DEF Higher
<1>5. R = {} \/ \E v \in Int : R = {v}
  <2>1. EquityKrw(a) \div Targets \in Int
    BY <1>0, <1>1, Divided
  <2>2. Higher(0, allocation) \in Int
    BY <1>1, <2>1 DEF Higher
  <2> QED
    BY <2>2
<1>6. BuyAmount(a, s, multiplier)
        = Min({Higher(1, adjusted), Spendable(a), Higher(0, MaxExposure - Exposure(a)), MaxOrder}
                \cup R)
  BY DEF BuyAmount
<1> DEFINE w == Higher(1, adjusted)
           x == Spendable(a)
           y == Higher(0, MaxExposure - Exposure(a))
           z == MaxOrder
           least == Min({w, x, y, z} \cup R)
<1>7. w \in Int /\ x \in Int /\ y \in Int /\ z \in Int /\ (R = {} \/ \E v \in Int : R = {v})
  BY <1>0, <1>2, <1>3, <1>4, <1>5
<1>8. BuyAmount(a, s, multiplier) = least
  BY <1>6
<1>9. x = Spendable(a) /\ z = MaxOrder
  OBVIOUS
<1> HIDE DEF R, w, x, y, z
<1>10. least \in Int /\ least <= x /\ least <= z
  BY <1>7, LeastOfThem
<1> QED
  BY <1>8, <1>9, <1>10
-----------------------------------------------------------------------------
(* What the steps do. First, every step of Next, by name.                  *)
LEMMA NextSteps ==
  ASSUME [Next]_vars
  PROVE  \/ \E s \in Symbol : Tick(s) \/ Trade(s)
         \/ Pass \/ Refuse \/ Answered \/ AnswerLost \/ Declined \/ MarkToMarket
         \/ \E o \in orders : FillBuy(o) \/ FillSell(o) \/ Cancelled(o)
         \/ CacheExpires \/ NewDay \/ Crash \/ UNCHANGED vars
  BY DEF Next

(* A job is not the absence of one.                                        *)
LEMMA JobOrNone == \A j \in JobSet : j # NoJob
<1> SUFFICES ASSUME NEW j \in JobSet, j = NoJob PROVE FALSE
  OBVIOUS
<1>1. "side" \in DOMAIN j
  BY DEF JobSet
<1>2. "side" \notin DOMAIN NoJob
  BY DEF NoJob
<1> QED
  BY <1>1, <1>2

(* Prices are above zero.                                                  *)
LEMMA PriceIs ==
  ASSUME PriceOK, NEW s \in Symbol
  PROVE  price[s] \in Nat \ {0} /\ price[s] \in Price[s]
         /\ Price[s] \subseteq Nat \ {0} /\ Price \in [Symbol -> SUBSET (Nat \ {0})]
  BY AmountsAssumption DEF PriceOK

(* loadAccountContext gives the cache, a reading, or an old one.           *)
LEMMA LoadIs ==
  ASSUME MoneyOK, CountOK, NEW a, Load(a)
  PROVE  /\ a \in AccountSet /\ seen' \in AccountSet
         /\ faults' \in 0 .. MaxFaults /\ faults' >= faults
         /\ cached' \in BOOLEAN /\ blind' \in BOOLEAN /\ age' \in {"now", "filled", "older"}
         /\ \/ cached /\ a = seen /\ UNCHANGED <<seen, cached, age, blind>>
            \/ a = Ledger /\ seen' = a /\ age' = "now" /\ blind' = blind
            \/ a = seen /\ UNCHANGED <<seen, cached, age>> /\ ~cached /\ blind'
<1>0. /\ seen \in AccountSet /\ Ledger \in AccountSet /\ Account = Ledger
      /\ MaxFaults \in Nat /\ TRUE \in BOOLEAN
  BY AccountIs, LedgerTyped, BoundsAssumption DEF MoneyOK
<1>1. CASE cached /\ a = seen /\ UNCHANGED <<reading, faults>>
  BY <1>0, <1>1 DEF reading, CountOK
<1>2. CASE /\ ~cached /\ a = Account
           /\ seen' = a /\ cached' = TRUE /\ age' = "now"
           /\ UNCHANGED <<blind, faults>>
  BY <1>0, <1>2 DEF CountOK
<1>3. CASE /\ ~cached /\ a = seen /\ faults < MaxFaults
           /\ blind' = TRUE /\ faults' = faults + 1
           /\ UNCHANGED <<seen, cached, age>>
  <2>1. faults \in 0 .. MaxFaults /\ cached \in BOOLEAN /\ age \in {"now", "filled", "older"}
    BY DEF CountOK
  <2>2. faults' \in 0 .. MaxFaults /\ faults' >= faults
    BY <1>0, <1>3, <2>1
  <2> QED
    BY <1>0, <1>3, <2>1, <2>2
<1> QED
  BY <1>1, <1>2, <1>3 DEF Load

(* resolveDailyPnl takes the baseline once a day.                          *)
LEMMA MeasureIs ==
  ASSUME MoneyOK, NEW equity \in Int, Measure(equity)
  PROVE  /\ baseline' \in Nat \cup {NoBaseline} /\ lost' \in Int
         /\ \/ /\ baseline = NoBaseline /\ equity > 0
               /\ baseline' = equity /\ lost' = equity - (cash + BuyLock(orders) + CostSum)
            \/ UNCHANGED <<baseline, lost>> /\ (baseline # NoBaseline \/ equity <= 0)
<1>0. /\ Account \in AccountSet /\ Account.cash = cash /\ Account.locked = BuyLock(orders)
      /\ Account.cost = cost
  BY AccountIs, LedgerTyped DEF Ledger
<1>1. EquityKrw(Account) = cash + BuyLock(orders) + CostSum /\ EquityKrw(Account) \in Int
  BY <1>0, Amounts DEF CostSum
<1> QED
  BY <1>1 DEF Measure, MoneyOK, day

(* A job that is decided is new and has the latest price.                  *)
LEMMA DecidedIs ==
  ASSUME PriceOK, NEW s \in Symbol, NEW side \in {"buy", "sell"}, NEW size \in Nat \ {0},
         NEW cause \in {"signal", "exit"}, Decided(s, side, size, cause)
  PROVE  /\ job' \in JobSet /\ job'.symbol = s /\ job'.side = side /\ job'.size = size
         /\ job'.price = price[s] /\ job'.cause = cause /\ job'.judged = FALSE
<1>1. price[s] \in Nat \ {0} /\ FALSE \in BOOLEAN
  BY PriceIs
<1> QED
  BY <1>1 DEF Decided, JobSet

(* What a tick may decide.                                                 *)
NewJob(a, s) ==
  /\ job' \in JobSet /\ job'.symbol = s /\ job'.price = price[s] /\ job'.judged = FALSE
  /\ job'.side = "buy" => job'.cause = "signal" /\ job'.size <= Spendable(a)
  /\ job'.cause = "exit" => job'.side = "sell"

(* What is cut off is less than one decimal.                               *)
LEMMA FlooredIs ==
  ASSUME NEW q \in Nat
  PROVE  Floored(q) \in Nat /\ Floored(q) <= q /\ q < Floored(q) + Lot
<1>1. Lot \in Nat \ {0}
  BY AmountsAssumption
<1>2. q % Lot \in 0 .. Lot - 1 /\ q = Lot * (q \div Lot) + (q % Lot) /\ q \div Lot \in Nat
  BY <1>1
<1>3. Lot * (q \div Lot) \in Nat
  BY <1>1, <1>2
<1> QED
  BY <1>1, <1>2, <1>3 DEF Floored

(* A SELL that is prepared is for all that is free, cut off, or not at all.*)
LEMMA SellIs ==
  ASSUME PriceOK, NEW a \in AccountSet, NEW s \in Symbol, NEW cause \in {"signal", "exit"},
         PrepareSell(a, s, cause)
  PROVE  IF Sellable(a, s, price[s])
         THEN NewJob(a, s) /\ job'.side = "sell" /\ job'.size = Floored(a.qty[s])
         ELSE job' = job
<1>1. CASE Sellable(a, s, price[s])
  <2> DEFINE size == Floored(a.qty[s])
  <2>1. size \in Nat /\ price[s] \in Nat
    BY PriceIs, FlooredIs DEF AccountSet
  <2>2. SellFloor * Scale > 0
    <3>1. SellFloor \in Nat \ {0} /\ Scale \in Nat \ {0}
      BY AmountsAssumption DEF SellFloor, Higher
    <3> QED
      BY <3>1
  <2>3. size * price[s] >= SellFloor * Scale
    BY <1>1 DEF Sellable
  <2>4. Decided(s, "sell", size, cause)
    BY <1>1 DEF PrepareSell
  <2> HIDE DEF size
  <2>5. size \in Nat \ {0}
    <3>1. SellFloor * Scale \in Nat
      BY AmountsAssumption DEF SellFloor, Higher
    <3>2. size * price[s] > 0
      BY <2>1, <2>2, <2>3, <3>1
    <3>3. size = 0 => size * price[s] = 0
      BY <2>1
    <3> QED
      BY <2>1, <3>2, <3>3
  <2>6. /\ job' \in JobSet /\ job'.symbol = s /\ job'.side = "sell" /\ job'.size = size
        /\ job'.price = price[s] /\ job'.cause = cause /\ job'.judged = FALSE
    BY <2>4, <2>5, DecidedIs
  <2> QED
    BY <1>1, <2>6 DEF NewJob, size
<1>2. CASE ~Sellable(a, s, price[s])
  BY <1>2 DEF PrepareSell
<1> QED
  BY <1>1, <1>2

(* A BUY that is prepared is new, if there is one.                         *)
LEMMA BuyIs ==
  ASSUME PriceOK, NEW a \in AccountSet, NEW s \in Symbol, PrepareBuy(a, s)
  PROVE  NewJob(a, s) \/ job' = job
<1>1. PICK multiplier \in Multiplier :
        LET amount == BuyAmount(a, s, multiplier)
        IN  IF amount > 0 /\ a.cash >= amount /\ ~SinglePosition(a, s, price[s])
            THEN Decided(s, "buy", amount, "signal") ELSE UNCHANGED job
  BY DEF PrepareBuy
<1> DEFINE amount == BuyAmount(a, s, multiplier)
<1>2. amount \in Int /\ amount <= Spendable(a)
  BY BuyAmountBounds
<1>3. job' = job \/ (amount > 0 /\ Decided(s, "buy", amount, "signal"))
  BY <1>1
<1> HIDE DEF amount
<1>4. CASE amount > 0 /\ Decided(s, "buy", amount, "signal")
  <2>1. amount \in Nat \ {0}
    BY <1>2, <1>4
  <2>2. /\ job' \in JobSet /\ job'.symbol = s /\ job'.side = "buy" /\ job'.size = amount
        /\ job'.price = price[s] /\ job'.cause = "signal" /\ job'.judged = FALSE
    BY <1>4, <2>1, DecidedIs
  <2> QED
    BY <1>2, <2>2 DEF NewJob
<1> QED
  BY <1>3, <1>4

(* A tick ends in a new job or none, and in one when an exit is due and    *)
(* there is enough to sell.                                                *)
LEMMA TickIs ==
  ASSUME MoneyOK, PriceOK, CountOK, NEW s \in Symbol, Tick(s)
  PROVE  /\ job = NoJob /\ UNCHANGED <<market, day, unheard>>
         /\ \E a \in AccountSet :
              /\ Load(a) /\ Track(a, s)
              /\ NewJob(a, s) \/ job' = NoJob
              /\ ShouldExit(a, s, price[s], peak[s]) /\ Sellable(a, s, price[s]) =>
                   NewJob(a, s)
<1>1. PICK a \in {seen, Account} :
        /\ Load(a)
        /\ Track(a, s)
        /\ IF ShouldExit(a, s, price[s], peak[s]) THEN PrepareSell(a, s, "exit")
           ELSE PrepareSell(a, s, "signal") \/ PrepareBuy(a, s) \/ UNCHANGED job
  BY DEF Tick
<1>2. a \in AccountSet
  BY <1>1, LoadIs
<1>3. job = NoJob /\ UNCHANGED <<market, day, unheard>>
  BY DEF Tick
<1>4. CASE ShouldExit(a, s, price[s], peak[s])
  <2>1. PrepareSell(a, s, "exit")
    BY <1>1, <1>4
  <2>2. NewJob(a, s) \/ (job' = job /\ ~Sellable(a, s, price[s]))
    BY <1>2, <2>1, SellIs
  <2> QED
    BY <1>1, <1>2, <1>3, <2>2
<1>5. CASE ~ShouldExit(a, s, price[s], peak[s])
  <2>1. PrepareSell(a, s, "signal") \/ PrepareBuy(a, s) \/ UNCHANGED job
    BY <1>1, <1>5
  <2>2. NewJob(a, s) \/ job' = job
    BY <1>2, <2>1, SellIs, BuyIs
  <2> QED
    BY <1>1, <1>2, <1>3, <1>5, <2>2
<1> QED
  BY <1>4, <1>5
-----------------------------------------------------------------------------
(* What the exchange does to the money.                                    *)
LEMMA AcceptIs ==
  ASSUME MoneyOK, NEW heard \in BOOLEAN, Accept(heard)
  PROVE  /\ Judged /\ job \in JobSet /\ job' = NoJob
         /\ \E o \in OrderSet \ orders :
              /\ orders' = orders \cup {o} /\ o.heard = heard
              /\ o.symbol = job.symbol /\ o.side = job.side /\ o.size = job.size
         /\ orders' \subseteq OrderSet /\ IsFiniteSet(orders')
         /\ cash' \in Nat /\ qty' \in [Symbol -> Nat]
         /\ BuySize(orders') = BuySize(orders) + (IF job.side = "buy" THEN job.size ELSE 0)
         /\ cash' + BuyLock(orders') = cash + BuyLock(orders)
         /\ age' = "older"
         /\ UNCHANGED <<price, cost, seen, blind, baseline, lost, peak, high>>
<1> DEFINE o == [symbol |-> job.symbol, side |-> job.side, size |-> job.size, heard |-> heard]
<1>1. /\ Judged /\ job \in JobSet /\ job' = NoJob /\ age' = "older"
      /\ UNCHANGED <<price, cost, seen, blind, baseline, lost, peak, high>>
  BY DEF Accept, Judged, MoneyOK, day, peaks
<1>2. /\ o \in OrderSet /\ o.symbol = job.symbol /\ o.side = job.side /\ o.size = job.size
      /\ o.heard = heard
  BY <1>1 DEF OrderSet, JobSet
<1>3. orders' = orders \cup {o} /\ orders' # orders
  BY DEF Accept
<1>4. o \notin orders /\ orders \in SUBSET OrderSet /\ IsFiniteSet(orders) /\ cash \in Nat
      /\ qty \in [Symbol -> Nat]
  BY <1>3 DEF MoneyOK
<1>5. \/ /\ job.side = "buy" /\ cash' = cash - job.size - FeeOf(job.size) /\ cash' >= 0
         /\ qty' = qty
      \/ /\ job.side = "sell" /\ cash' = cash
         /\ qty' = [qty EXCEPT ![job.symbol] = @ - job.size] /\ qty'[job.symbol] >= 0
  BY <1>1 DEF Accept, JobSet
<1> HIDE DEF o
<1>6. /\ BuySize(orders') = BuySize(orders) + (IF job.side = "buy" THEN job.size ELSE 0)
      /\ BuyLock(orders')
           = BuyLock(orders) + (IF job.side = "buy" THEN job.size + FeeOf(job.size) ELSE 0)
  BY <1>2, <1>3, <1>4, OrderMore
<1>7. BuyLock(orders) \in Nat /\ job.size \in Nat /\ FeeOf(job.size) \in Nat /\ job.symbol \in Symbol
  BY <1>1, <1>4, Parts, FeeBounds DEF JobSet
<1>8. cash' \in Nat /\ cash' + BuyLock(orders') = cash + BuyLock(orders)
  <2>1. CASE job.side = "buy"
    BY <1>4, <1>5, <1>6, <1>7, <2>1
  <2>2. CASE job.side # "buy"
    BY <1>4, <1>5, <1>6, <1>7, <2>2
  <2> QED
    BY <2>1, <2>2
<1>9. qty' \in [Symbol -> Nat]
  <2>1. CASE qty' = qty
    BY <1>4, <2>1
  <2>2. CASE qty' = [qty EXCEPT ![job.symbol] = @ - job.size] /\ qty'[job.symbol] >= 0
    <3>1. qty'[job.symbol] = qty[job.symbol] - job.size
      BY <1>4, <1>7, <2>2
    <3>2. qty[job.symbol] - job.size \in Nat
      BY <1>4, <1>7, <2>2, <3>1
    <3> QED
      BY <1>4, <1>7, <2>2, <3>2
  <2> QED
    BY <1>5, <2>1, <2>2
<1>10. orders' \subseteq OrderSet /\ IsFiniteSet(orders')
  BY <1>2, <1>3, <1>4, FS_AddElement
<1> QED
  BY <1>1, <1>2, <1>3, <1>4, <1>6, <1>8, <1>9, <1>10

(* The sums when an order is no longer open.                               *)
LEMMA OrderLeaves ==
  ASSUME MoneyOK, NEW o \in orders, orders' = orders \ {o}
  PROVE  /\ orders' \subseteq OrderSet /\ IsFiniteSet(orders')
         /\ BuySize(orders') = BuySize(orders) - (IF o.side = "buy" THEN o.size ELSE 0)
         /\ BuyLock(orders')
              = BuyLock(orders) - (IF o.side = "buy" THEN o.size + FeeOf(o.size) ELSE 0)
         /\ BuySize(orders) \in Nat /\ BuyLock(orders) \in Nat
         /\ BuySize(orders') \in Nat /\ BuyLock(orders') \in Nat
         /\ o \in OrderSet /\ o.size \in Nat /\ FeeOf(o.size) \in Nat /\ o.symbol \in Symbol
<1>1. orders \in SUBSET OrderSet /\ IsFiniteSet(orders) /\ o \in OrderSet
  BY DEF MoneyOK
<1>2. orders' \in SUBSET OrderSet /\ IsFiniteSet(orders')
  BY <1>1, FS_RemoveElement
<1>3. /\ BuySize(orders') = BuySize(orders) - (IF o.side = "buy" THEN o.size ELSE 0)
      /\ BuyLock(orders')
           = BuyLock(orders) - (IF o.side = "buy" THEN o.size + FeeOf(o.size) ELSE 0)
  BY <1>1, OrderLess
<1>4. o.size \in Nat /\ o.symbol \in Symbol
  BY <1>1 DEF OrderSet
<1> QED
  BY <1>1, <1>2, <1>3, <1>4, Parts, FeeBounds

(* The sum of the costs when one of them changes.                          *)
LEMMA CostChanges ==
  ASSUME MoneyOK, NEW s \in Symbol, NEW c \in Nat, cost' = [cost EXCEPT ![s] = c]
  PROVE  cost' \in [Symbol -> Nat] /\ CostSum' = CostSum - cost[s] + c
         /\ CostSum \in Nat /\ CostSum' \in Nat /\ cost[s] \in Nat
<1>1. cost \in [Symbol -> Nat] /\ IsFiniteSet(Symbol)
  BY BoundsAssumption DEF MoneyOK
<1> DEFINE new == [cost EXCEPT ![s] = c]
<1>2. new \in [Symbol -> Nat] /\ new[s] = c /\ \A t \in Symbol \ {s} : new[t] = cost[t]
  BY <1>1
<1> HIDE DEF new
<1>3. \A t \in Symbol : cost[t] \in Int /\ new[t] \in Int /\ cost[t] \in Nat /\ new[t] \in Nat
  BY <1>1, <1>2
<1>4. Total(new, Symbol) = Total(cost, Symbol) - cost[s] + new[s]
  BY <1>1, <1>2, <1>3, TotalChanged
<1>5. Total(new, Symbol) \in Nat /\ Total(cost, Symbol) \in Nat
  BY <1>1, <1>3, TotalNat
<1>6. cost' = new
  BY DEF new
<1> QED
  BY <1>1, <1>2, <1>4, <1>5, <1>6 DEF CostSum

(* A filled BUY moves its size from the orders to the cost.                *)
LEMMA FillBuyIs ==
  ASSUME MoneyOK, PriceOK, NEW o \in orders, FillBuy(o)
  PROVE  /\ cash' = cash /\ qty' \in [Symbol -> Nat] /\ cost' \in [Symbol -> Nat]
         /\ CostSum' + BuySize(orders') = CostSum + BuySize(orders)
         /\ BuyLock(orders') + CostSum' + lost' = BuyLock(orders) + CostSum + lost
         /\ lost' \in Int
<1>1. /\ o.side = "buy" /\ orders' = orders \ {o}
      /\ qty' = [qty EXCEPT ![o.symbol] = @ + (o.size * Scale) \div price[o.symbol]]
      /\ cost' = [cost EXCEPT ![o.symbol] = @ + o.size]
      /\ lost' = lost + FeeOf(o.size) /\ cash' = cash
  BY DEF FillBuy
<1>2. /\ BuySize(orders') = BuySize(orders) - o.size
      /\ BuyLock(orders') = BuyLock(orders) - (o.size + FeeOf(o.size))
      /\ BuySize(orders) \in Nat /\ BuyLock(orders) \in Nat
      /\ o.size \in Nat /\ FeeOf(o.size) \in Nat /\ o.symbol \in Symbol
  BY <1>1, OrderLeaves
<1> DEFINE s == o.symbol
           c == cost[s] + o.size
           got == (o.size * Scale) \div price[s]
<1>3. s \in Symbol /\ cost[s] \in Nat /\ qty[s] \in Nat /\ c \in Nat /\ lost \in Int
  BY <1>2 DEF MoneyOK
<1>4. cost' = [cost EXCEPT ![s] = c]
  BY <1>1
<1>5. got \in Nat
  <2>1. price[s] \in Nat \ {0} /\ Scale \in Nat
    BY <1>3, PriceIs, AmountsAssumption
  <2>2. o.size * Scale \in Nat
    BY <1>2, <2>1
  <2> QED
    BY <2>1, <2>2, DividedNat
<1>6. qty' \in [Symbol -> Nat]
  <2>1. qty' = [qty EXCEPT ![s] = qty[s] + got]
    BY <1>1
  <2>2. qty[s] + got \in Nat
    BY <1>3, <1>5
  <2> QED
    BY <2>1, <2>2 DEF MoneyOK
<1> HIDE DEF s
<1>7. cost' \in [Symbol -> Nat] /\ CostSum' = CostSum - cost[s] + c /\ CostSum \in Nat
  BY <1>3, <1>4, CostChanges
<1>8. CostSum' = CostSum + o.size
  BY <1>2, <1>3, <1>7
<1> QED
  BY <1>1, <1>2, <1>3, <1>6, <1>7, <1>8

(* A filled SELL takes its share of the cost, and pays at least its fee.   *)
LEMMA FillSellIs ==
  ASSUME MoneyOK, PriceOK, NEW o \in orders, FillSell(o)
  PROVE  /\ cash' \in Nat /\ cash' >= cash /\ cost' \in [Symbol -> Nat]
         /\ BuySize(orders') = BuySize(orders) /\ BuyLock(orders') = BuyLock(orders)
         /\ CostSum' <= CostSum
         /\ lost' = lost + (cash - cash') + (CostSum - CostSum')
         /\ lost' \in Int
<1> DEFINE s == o.symbol
           all == Account.all[s]
           proceeds == (o.size * price[s]) \div Scale
           left == (cost[s] * (all - o.size)) \div all
<1>1. /\ o.side = "sell" /\ orders' = orders \ {o}
      /\ cash' = cash + proceeds - FeeOf(proceeds)
      /\ cost' = [cost EXCEPT ![s] = left]
      /\ lost' = lost + (cost[s] - left) - proceeds + FeeOf(proceeds)
  BY DEF FillSell
<1>2. /\ BuySize(orders') = BuySize(orders) /\ BuyLock(orders') = BuyLock(orders)
      /\ o \in OrderSet /\ o.size \in Nat /\ s \in Symbol
  <2>1. /\ BuySize(orders') = BuySize(orders) - (IF o.side = "buy" THEN o.size ELSE 0)
        /\ BuyLock(orders')
             = BuyLock(orders) - (IF o.side = "buy" THEN o.size + FeeOf(o.size) ELSE 0)
        /\ BuySize(orders) \in Nat /\ BuyLock(orders) \in Nat
        /\ o \in OrderSet /\ o.size \in Nat /\ s \in Symbol
    BY <1>1, OrderLeaves
  <2>2. o.side # "buy"
    BY <1>1
  <2> QED
    BY <2>1, <2>2
<1>3. /\ cost[s] \in Nat /\ qty[s] \in Nat /\ price[s] \in Nat \ {0} /\ Scale \in Nat \ {0}
      /\ o.size \in Nat \ {0} /\ lost \in Int /\ cash \in Nat
  BY <1>2, PriceIs, AmountsAssumption DEF MoneyOK, OrderSet
<1>4. all \in Nat /\ o.size <= all
  <2>1. all = qty[s] + SellSize(orders, s)
    BY <1>2, AccountIs DEF Ledger
  <2>2. o \in SellsOf(orders, s)
    BY <1>1 DEF SellsOf
  <2>3. SellSize(orders, s) \in Nat /\ o.size <= SellSize(orders, s)
    BY <2>2, Parts DEF MoneyOK
  <2> QED
    BY <1>3, <2>1, <2>3
<1>5. proceeds \in Nat
  <2>1. o.size * price[s] \in Nat
    BY <1>3
  <2> QED
    BY <1>3, <2>1, DividedNat
<1> HIDE DEF s, all, proceeds
<1>6. FeeOf(proceeds) \in Nat /\ FeeOf(proceeds) <= proceeds
  BY <1>5, FeeBounds
<1>7. left \in Nat /\ left <= cost[s]
  <2> DEFINE x == all - o.size
             c == cost[s]
             p == c * x
  <2>1. x \in Nat /\ x <= all /\ c \in Nat /\ all \in Nat \ {0}
    BY <1>3, <1>4
  <2> HIDE DEF x, c
  <2>2. p \in Nat /\ p <= c * all /\ c * all \in Nat
    BY <2>1
  <2> HIDE DEF p
  <2>3. p \div all \in Nat /\ all * (p \div all) <= p
    BY <2>1, <2>2, Divided, DividedNat
  <2>4. p \div all <= c
    <3> DEFINE q == p \div all
    <3>1. q \in Nat /\ all * q <= c * all
      BY <2>2, <2>3, <2>1
    <3> HIDE DEF q
    <3>2. q <= c
      BY <2>1, <3>1
    <3> QED
      BY <3>2 DEF q
  <2> QED
    BY <2>3, <2>4 DEF p, x, c
<1> HIDE DEF left
<1>8. /\ cost' \in [Symbol -> Nat] /\ CostSum' = CostSum - cost[s] + left
      /\ CostSum \in Nat /\ CostSum' \in Nat
  BY <1>1, <1>2, <1>7, CostChanges
<1>9. cash' \in Nat /\ cash' >= cash /\ lost' \in Int /\ CostSum' <= CostSum
  BY <1>1, <1>3, <1>5, <1>6, <1>7, <1>8
<1>10. lost' = lost + (cash - cash') + (CostSum - CostSum')
  BY <1>1, <1>3, <1>5, <1>6, <1>7, <1>8
<1> QED
  BY <1>2, <1>8, <1>9, <1>10

(* A cancelled order gives back what it had locked.                        *)
LEMMA CancelledIs ==
  ASSUME MoneyOK, NEW o \in orders, Cancelled(o)
  PROVE  /\ cash' \in Nat /\ cash' >= cash /\ qty' \in [Symbol -> Nat]
         /\ BuySize(orders') <= BuySize(orders)
         /\ cash' + BuyLock(orders') = cash + BuyLock(orders)
<1>1. orders' = orders \ {o}
  BY DEF Cancelled
<1>2. /\ BuySize(orders') = BuySize(orders) - (IF o.side = "buy" THEN o.size ELSE 0)
      /\ BuyLock(orders')
           = BuyLock(orders) - (IF o.side = "buy" THEN o.size + FeeOf(o.size) ELSE 0)
      /\ BuySize(orders) \in Nat /\ BuyLock(orders) \in Nat
      /\ o.size \in Nat /\ FeeOf(o.size) \in Nat /\ o.symbol \in Symbol
  BY <1>1, OrderLeaves
<1>3. cash \in Nat /\ qty \in [Symbol -> Nat] /\ qty[o.symbol] \in Nat
  BY <1>2 DEF MoneyOK
<1>4. CASE o.side = "buy"
  <2>1. cash' = cash + o.size + FeeOf(o.size) /\ qty' = qty
    BY <1>4 DEF Cancelled
  <2> QED
    BY <1>2, <1>3, <1>4, <2>1
<1>5. CASE o.side # "buy"
  <2>1. cash' = cash /\ qty' = [qty EXCEPT ![o.symbol] = @ + o.size]
    BY <1>5 DEF Cancelled
  <2>2. qty[o.symbol] + o.size \in Nat
    BY <1>2, <1>3
  <2>3. qty' \in [Symbol -> Nat]
    BY <1>2, <1>3, <2>1, <2>2
  <2> QED
    BY <1>2, <1>3, <1>5, <2>1, <2>3
<1> QED
  BY <1>4, <1>5
-----------------------------------------------------------------------------
(* The types are kept. First the peaks, by a tick.                         *)
LEMMA TrackKeeps ==
  ASSUME PriceOK, NEW a \in AccountSet, NEW s \in Symbol, Track(a, s), price' = price
  PROVE  PriceOK'
<1> DEFINE p == price[s]
<1>1. p \in Nat \ {0} /\ p \in Price[s] /\ peak \in [Symbol -> Nat] /\ high \in [Symbol -> Nat]
  BY PriceIs DEF PriceOK
<1>2. \/ peak' = peak /\ high' = high
      \/ /\ peak' = [peak EXCEPT ![s] = Higher(peak[s], p)]
         /\ high' = [high EXCEPT ![s] = Higher(high[s], p)]
  BY <1>1 DEF Track, NextPeak
<1>3. CASE peak' = peak /\ high' = high
  BY <1>3 DEF PriceOK
<1>4. CASE /\ peak' = [peak EXCEPT ![s] = Higher(peak[s], p)]
           /\ high' = [high EXCEPT ![s] = Higher(high[s], p)]
  <2> HIDE DEF p
  <2> DEFINE u == Higher(peak[s], p)
             v == Higher(high[s], p)
  <2>1. /\ u \in Nat /\ v \in Nat /\ v <= u
        /\ u \in {p, peak[s]} /\ v \in {p, high[s]}
    BY <1>1 DEF Higher, PriceOK
  <2>2. {u, v} \subseteq Price[s] \cup {0}
    BY <1>1, <2>1 DEF PriceOK
  <2> HIDE DEF u, v
  <2>3. peak' = [peak EXCEPT ![s] = u] /\ high' = [high EXCEPT ![s] = v]
    BY <1>4 DEF u, v
  <2>4. /\ peak' \in [Symbol -> Nat] /\ high' \in [Symbol -> Nat]
        /\ peak'[s] = u /\ high'[s] = v
        /\ \A t \in Symbol \ {s} : peak'[t] = peak[t] /\ high'[t] = high[t]
    BY <1>1, <2>1, <2>3
  <2>5. \A t \in Symbol : {peak'[t], high'[t]} \subseteq Price[t] \cup {0} /\ high'[t] <= peak'[t]
    BY <2>1, <2>2, <2>4 DEF PriceOK
  <2> QED
    BY <2>4, <2>5 DEF PriceOK
<1> QED
  BY <1>2, <1>3, <1>4

(* What a reading, and a measurement of the day, leave.                    *)
LEMMA ReadKeeps ==
  ASSUME MoneyOK, PriceOK, CountOK, NEW a, Load(a), NEW equity \in Int, Measure(equity),
         UNCHANGED <<market, peaks, unheard>>, job' = NoJob \/ job' \in JobSet
  PROVE  MoneyOK' /\ PriceOK' /\ CountOK'
<1>1. UNCHANGED <<price, cash, qty, cost, orders, accepted, peak, high, unheard>>
  BY DEF market, purse, peaks
<1>2. /\ seen' \in AccountSet /\ faults' \in 0 .. MaxFaults /\ faults' >= faults
      /\ cached' \in BOOLEAN /\ blind' \in BOOLEAN /\ age' \in {"now", "filled", "older"}
  BY LoadIs
<1>3. baseline' \in Nat \cup {NoBaseline} /\ lost' \in Int
  BY MeasureIs
<1>4. MoneyOK'
  BY <1>1, <1>2, <1>3 DEF MoneyOK
<1>5. PriceOK'
  BY <1>1 DEF PriceOK
<1>6. unheard' \in 0 .. faults'
  BY <1>1, <1>2 DEF CountOK
<1> QED
  BY <1>1, <1>2, <1>4, <1>5, <1>6 DEF CountOK

(* A tick keeps the types.                                                 *)
LEMMA TickKeeps ==
  ASSUME MoneyOK, PriceOK, CountOK, NEW s \in Symbol, Tick(s)
  PROVE  MoneyOK' /\ PriceOK' /\ CountOK'
<1>1. UNCHANGED <<price, cash, qty, cost, orders, accepted, baseline, lost, unheard>>
  BY TickIs DEF market, purse, day
<1>2. PICK a \in AccountSet : Load(a) /\ Track(a, s) /\ (NewJob(a, s) \/ job' = NoJob)
  BY TickIs
<1>3. /\ seen' \in AccountSet /\ faults' \in 0 .. MaxFaults /\ faults' >= faults
      /\ cached' \in BOOLEAN /\ blind' \in BOOLEAN /\ age' \in {"now", "filled", "older"}
  BY <1>2, LoadIs
<1>4. PriceOK'
  BY <1>1, <1>2, TrackKeeps
<1>5. MoneyOK'
  BY <1>1, <1>2, <1>3 DEF MoneyOK, NewJob
<1>6. unheard' \in 0 .. faults'
  BY <1>1, <1>3 DEF CountOK
<1> QED
  BY <1>1, <1>3, <1>4, <1>5, <1>6 DEF CountOK

(* Every job is judged on the account it is given.                         *)
LEMMA JudgeIs ==
  ASSUME MoneyOK, CountOK, NEW a \in {seen, Account}, Judge(a)
  PROVE  /\ a \in AccountSet /\ Load(a) /\ Measure(EquityKrw(a)) /\ EquityKrw(a) \in Int
         /\ job \in JobSet /\ ~job.judged
<1>1. Load(a) /\ Measure(EquityKrw(a)) /\ job \in JobSet /\ ~job.judged
  BY DEF Judge, MoneyOK
<1>2. a \in AccountSet
  BY <1>1, LoadIs
<1>3. EquityKrw(a) \in Int
  BY <1>2, Amounts
<1> QED
  BY <1>1, <1>2, <1>3

(* The rules keep the types.                                               *)
LEMMA JudgedKeeps ==
  ASSUME MoneyOK, PriceOK, CountOK, Pass \/ Refuse
  PROVE  MoneyOK' /\ PriceOK' /\ CountOK'
<1>1. PICK a \in {seen, Account} : Judge(a)
  BY DEF Pass, Refuse
<1>2. Load(a) /\ Measure(EquityKrw(a)) /\ EquityKrw(a) \in Int /\ job \in JobSet
  BY <1>1, JudgeIs
<1>3. UNCHANGED <<market, peaks, unheard>>
  BY DEF Pass, Refuse
<1>4. job' = [job EXCEPT !.judged = TRUE] \/ job' = NoJob
  BY DEF Pass, Refuse
<1>5. job' \in JobSet \/ job' = NoJob
  BY <1>2, <1>4 DEF JobSet
<1> HIDE DEF JobSet
<1> QED
  BY <1>2, <1>3, <1>5, ReadKeeps

(* The mark to market keeps the types.                                     *)
LEMMA MarkKeeps ==
  ASSUME MoneyOK, PriceOK, CountOK, MarkToMarket
  PROVE  MoneyOK' /\ PriceOK' /\ CountOK'
<1>1. PICK a \in {seen, Account}, unpriced \in SUBSET Symbol :
        Load(a) /\ Measure(EquityMtm(a, unpriced))
  BY DEF MarkToMarket
<1>2. UNCHANGED <<market, peaks, unheard>> /\ job' = NoJob
  BY DEF MarkToMarket
<1>3. EquityMtm(a, unpriced) \in Int
  BY <1>1, LoadIs, EquityMtmTyped
<1> QED
  BY <1>1, <1>2, <1>3, ReadKeeps

(* An order that is accepted keeps the types.                              *)
LEMMA AcceptKeeps ==
  ASSUME MoneyOK, PriceOK, CountOK, Answered \/ AnswerLost
  PROVE  MoneyOK' /\ PriceOK' /\ CountOK'
<1>1. PICK heard \in BOOLEAN :
        /\ Accept(heard)
        /\ \/ cached' = FALSE /\ UNCHANGED <<unheard, faults>>
           \/ cached' = cached /\ faults < MaxFaults /\ faults' = faults + 1 /\ unheard' = unheard + 1
  <2>1. TRUE \in BOOLEAN /\ FALSE \in BOOLEAN
    OBVIOUS
  <2> QED
    BY <2>1 DEF Answered, AnswerLost
<1>2. /\ job' = NoJob /\ orders' \subseteq OrderSet /\ IsFiniteSet(orders')
      /\ cash' \in Nat /\ qty' \in [Symbol -> Nat] /\ age' = "older"
      /\ UNCHANGED <<price, cost, seen, blind, baseline, lost, peak, high>>
  BY <1>1, AcceptIs
<1>3. accepted < MaxOrders /\ accepted' = accepted + 1
  BY <1>1 DEF Accept
<1>4. MoneyOK'
  BY <1>2 DEF MoneyOK
<1>5. PriceOK'
  BY <1>2 DEF PriceOK
<1>6. accepted' \in 0 .. MaxOrders
  BY <1>3, BoundsAssumption DEF CountOK
<1>7. faults' \in 0 .. MaxFaults /\ unheard' \in 0 .. faults'
  BY <1>1, BoundsAssumption DEF CountOK
<1>8. cached' \in BOOLEAN /\ blind' \in BOOLEAN
  BY <1>1, <1>2 DEF CountOK
<1> QED
  BY <1>2, <1>4, <1>5, <1>6, <1>7, <1>8 DEF CountOK

(* What the exchange does to an order leaves the process alone.            *)
LEMMA ExchangeLeaves ==
  ASSUME NEW o \in orders, FillBuy(o) \/ FillSell(o) \/ Cancelled(o), CountOK
  PROVE  /\ orders' = orders \ {o} /\ (age' = "filled" \/ age' = "older") /\ CountOK'
         /\ UNCHANGED <<price, accepted, seen, cached, blind, baseline, peak, job, unheard, faults>>
<1>1. /\ orders' = orders \ {o} /\ (age' = "filled" \/ age' = "older")
      /\ UNCHANGED <<price, accepted, seen, cached, blind, baseline, peak, job, unheard, faults>>
  BY DEF FillBuy, FillSell, Cancelled, Changed, peaks, day
<1> QED
  BY <1>1 DEF CountOK

(* What happens to open orders keeps the types.                            *)
LEMMA ExchangeKeeps ==
  ASSUME MoneyOK, PriceOK, CountOK, NEW o \in orders, FillBuy(o) \/ FillSell(o) \/ Cancelled(o)
  PROVE  MoneyOK' /\ PriceOK' /\ CountOK'
<1>1. /\ orders' = orders \ {o} /\ CountOK'
      /\ UNCHANGED <<price, accepted, seen, cached, blind, baseline, peak, job, unheard, faults>>
  BY ExchangeLeaves
<1>2. orders' \subseteq OrderSet /\ IsFiniteSet(orders')
  BY <1>1, OrderLeaves
<1>3. /\ cash' \in Nat /\ qty' \in [Symbol -> Nat] /\ cost' \in [Symbol -> Nat] /\ lost' \in Int
      /\ high' = high \/ \E s \in Symbol : high' = [high EXCEPT ![s] = 0]
  <2>1. CASE FillBuy(o)
    BY <2>1, FillBuyIs DEF FillBuy, peaks, MoneyOK
  <2>2. CASE FillSell(o)
    <3>1. cash' \in Nat /\ cost' \in [Symbol -> Nat] /\ lost' \in Int
      BY <2>2, FillSellIs
    <3>2. qty' = qty /\ o.symbol \in Symbol
      BY <1>1, <2>2, OrderLeaves DEF FillSell
    <3>3. high' = [high EXCEPT ![o.symbol] = IF Account.all[o.symbol] = o.size THEN 0 ELSE @]
      BY <2>2 DEF FillSell
    <3>4. high' = high \/ high' = [high EXCEPT ![o.symbol] = 0]
      BY <3>3 DEF PriceOK
    <3> QED
      BY <3>1, <3>2, <3>4 DEF MoneyOK
  <2>3. CASE Cancelled(o)
    BY <2>3, CancelledIs DEF Cancelled, peaks, day, MoneyOK
  <2> QED
    BY <2>1, <2>2, <2>3
<1>4. MoneyOK'
  BY <1>1, <1>2, <1>3 DEF MoneyOK
<1>5. PriceOK'
  BY <1>1, <1>3 DEF PriceOK
<1> QED
  BY <1>1, <1>4, <1>5

(* The steps that touch neither the money nor what is at risk.             *)
LEMMA QuietKeeps ==
  ASSUME MoneyOK, PriceOK, CountOK,
         \/ \E s \in Symbol : Trade(s)
         \/ Declined \/ CacheExpires \/ NewDay \/ Crash \/ UNCHANGED vars
  PROVE  /\ MoneyOK' /\ PriceOK' /\ CountOK'
         /\ UNCHANGED <<cash, qty, cost, orders, seen, blind, unheard, age>>
         /\ job' \in {job, NoJob} /\ cached' \in {cached, FALSE}
         /\ UNCHANGED <<baseline, lost>> \/ (baseline' = NoBaseline /\ lost' = 0)
<1>1. CASE \E s \in Symbol : Trade(s)
  <2>1. PICK s \in Symbol : Trade(s)
    BY <1>1
  <2>2. PICK p \in Price[s] : price' = [price EXCEPT ![s] = p]
    BY <2>1 DEF Trade
  <2>3. UNCHANGED <<cash, qty, cost, orders, accepted, reading, day, peaks, job, unheard, faults>>
    BY <2>1 DEF Trade, purse
  <2>4. MoneyOK'
    BY <2>3 DEF MoneyOK, reading, day
  <2>5. p \in Nat
    BY PriceIs
  <2>6. PriceOK'
    BY <2>2, <2>3, <2>5 DEF PriceOK, peaks
  <2>7. CountOK'
    BY <2>3 DEF CountOK, reading
  <2> QED
    BY <2>3, <2>4, <2>6, <2>7 DEF reading, day
<1>2. CASE Declined \/ CacheExpires \/ NewDay \/ Crash \/ UNCHANGED vars
  <2>1. /\ UNCHANGED <<price, cash, qty, cost, orders, accepted, seen, blind, unheard, age, peak, high>>
        /\ job' \in {job, NoJob} /\ cached' \in {cached, FALSE}
        /\ UNCHANGED <<baseline, lost>> \/ (baseline' = NoBaseline /\ lost' = 0)
        /\ faults' = faults \/ (faults < MaxFaults /\ faults' = faults + 1)
    <3>1. CASE Declined
      BY <3>1 DEF Declined, market, purse, reading, day, peaks
    <3>2. CASE CacheExpires
      BY <3>2 DEF CacheExpires, market, purse, day, peaks
    <3>3. CASE NewDay
      BY <3>3 DEF NewDay, market, purse, reading, peaks
    <3>4. CASE Crash
      BY <3>4 DEF Crash, market, purse, day, peaks
    <3>5. CASE UNCHANGED vars
      BY <3>5 DEF vars, market, purse, reading, day, peaks
    <3> QED
      BY <1>2, <3>1, <3>2, <3>3, <3>4, <3>5
  <2>2. MoneyOK'
    BY <2>1 DEF MoneyOK
  <2>3. PriceOK'
    BY <2>1 DEF PriceOK
  <2>4. faults' \in 0 .. MaxFaults /\ unheard' \in 0 .. faults'
    BY <2>1, BoundsAssumption DEF CountOK
  <2>5. CountOK'
    BY <2>1, <2>4 DEF CountOK
  <2> QED
    BY <2>1, <2>2, <2>3, <2>5 DEF day
<1> QED
  BY <1>1, <1>2

(* Every step keeps the types.                                             *)
LEMMA TypesKept ==
  ASSUME MoneyOK, PriceOK, CountOK, [Next]_vars
  PROVE  MoneyOK' /\ PriceOK' /\ CountOK'
  BY NextSteps, TickKeeps, JudgedKeeps, MarkKeeps, AcceptKeeps, ExchangeKeeps, QuietKeeps
-----------------------------------------------------------------------------
(* The open orders. Fewer of them break no limit.                          *)
LEMMA FewerKnown ==
  ASSUME NEW os, IsFiniteSet(os), NEW qs \in SUBSET os
  PROVE  /\ Cardinality(Known(qs)) <= Cardinality(Known(os))
         /\ Cardinality(qs \ Known(qs)) <= Cardinality(os \ Known(os))
         /\ Cardinality(Known(os)) \in Nat /\ Cardinality(Known(qs)) \in Nat
         /\ Cardinality(os \ Known(os)) \in Nat /\ Cardinality(qs \ Known(qs)) \in Nat
         /\ Known(qs) \subseteq Known(os)
<1>1. IsFiniteSet(Known(os)) /\ Known(qs) \subseteq Known(os)
  BY FS_Subset DEF Known
<1>2. IsFiniteSet(os \ Known(os)) /\ qs \ Known(qs) \subseteq os \ Known(os)
  BY FS_Subset DEF Known
<1>3. IsFiniteSet(Known(qs)) /\ IsFiniteSet(qs \ Known(qs))
  BY <1>1, <1>2, FS_Subset
<1> QED
  BY <1>1, <1>2, <1>3, FS_Subset, FS_CardinalityType

(* One element more makes a set larger by one at most.                     *)
LEMMA OneMore ==
  ASSUME NEW A, IsFiniteSet(A), NEW x
  PROVE  /\ IsFiniteSet(A \cup {x}) /\ Cardinality(A) \in Nat /\ Cardinality(A \cup {x}) \in Nat
         /\ Cardinality(A \cup {x}) <= Cardinality(A) + 1
<1>1. IsFiniteSet(A \cup {x}) /\ Cardinality(A) \in Nat
      /\ Cardinality(A \cup {x}) = IF x \in A THEN Cardinality(A) ELSE Cardinality(A) + 1
  BY FS_AddElement, FS_CardinalityType
<1> QED
  BY <1>1

(* Steps that open no order keep to the limits.                            *)
LEMMA FewerOrders ==
  ASSUME MoneyOK, CountOK, OrderInv, orders' \in SUBSET orders, unheard' = unheard,
         Judged' => ~AtOpenLimit(job'.symbol),
         JudgedBuy' => job'.size <= MaxOrder
  PROVE  OrderInv'
<1>1. IsFiniteSet(orders) /\ unheard \in Nat /\ MaxOpenOrders \in Nat
  BY BoundsAssumption DEF MoneyOK, CountOK
<1>2. Cardinality(Known(orders'))  <= MaxOpenOrders /\ Cardinality(orders' \ Known(orders')) <= unheard
  BY <1>1, FewerKnown DEF OrderInv
<1>3. ASSUME NEW s \in Symbol
      PROVE  Cardinality(Known({o \in orders' : o.symbol = s})) <= 1
  <2> DEFINE os == {o \in orders : o.symbol = s}
             qs == {o \in orders' : o.symbol = s}
  <2>1. IsFiniteSet(os) /\ qs \in SUBSET os
    BY <1>1, FS_Subset
  <2>2. Cardinality(Known(os)) <= 1
    BY DEF OrderInv
  <2> HIDE DEF os, qs
  <2>3. /\ Cardinality(Known(qs)) <= Cardinality(Known(os))
        /\ Cardinality(Known(os)) \in Nat /\ Cardinality(Known(qs)) \in Nat
    BY <2>1, FewerKnown
  <2>4. Cardinality(Known(qs)) <= 1
    BY <2>2, <2>3
  <2> QED
    BY <2>4 DEF qs
<1>4. ASSUME NEW s, ~AtOpenLimit(s)
      PROVE  /\ Cardinality(Known(orders')) < MaxOpenOrders
             /\ Known({o \in orders' : o.symbol = s /\ o.side = "buy"}
                        \cup {o \in orders' : o.symbol = s /\ o.side = "sell"}) = {}
  <2>1. Cardinality(Known(orders')) <= Cardinality(Known(orders))
        /\ Cardinality(Known(orders)) \in Nat /\ Cardinality(Known(orders')) \in Nat
    BY <1>1, FewerKnown
  <2>2. Cardinality(Known(orders)) < MaxOpenOrders
    BY <1>1, <1>4, <2>1 DEF AtOpenLimit
  <2>3. Known({o \in orders : o.symbol = s /\ o.side = "buy"}
                \cup {o \in orders : o.symbol = s /\ o.side = "sell"}) = {}
    BY <1>4 DEF AtOpenLimit, Of
  <2> QED
    BY <1>1, <2>1, <2>2, <2>3 DEF Known
<1>5. Judged' => ~AtOpenLimit(job.symbol)'
  <2>1. ASSUME Judged' PROVE ~AtOpenLimit(job.symbol)'
    <3>1. /\ Cardinality(Known(orders')) < MaxOpenOrders /\ Cardinality(Known(orders')) \in Nat
          /\ Known({o \in orders' : o.symbol = job'.symbol /\ o.side = "buy"}
                     \cup {o \in orders' : o.symbol = job'.symbol /\ o.side = "sell"}) = {}
      BY <1>1, <1>4, <2>1, FewerKnown
    <3> QED
      BY <1>1, <3>1 DEF AtOpenLimit, Of, Known
  <2> QED
    BY <2>1
<1>6. \A o \in Buys' : o.size <= MaxOrder
  BY DEF OrderInv, Buys
<1> QED
  BY <1>1, <1>2, <1>3, <1>5, <1>6 DEF OrderInv, Known

(* An order more is one for which the rules left room.                     *)
LEMMA AcceptedCount ==
  ASSUME MoneyOK, CountOK, OrderInv, NEW heard \in BOOLEAN, Accept(heard),
         unheard' = IF heard THEN unheard ELSE unheard + 1
  PROVE  OrderInv'
<1>1. PICK o \in OrderSet \ orders :
        /\ orders' = orders \cup {o} /\ o.heard = heard
        /\ o.symbol = job.symbol /\ o.side = job.side /\ o.size = job.size
  BY AcceptIs
<1>2. Judged /\ job' = NoJob /\ orders \in SUBSET OrderSet /\ IsFiniteSet(orders)
      /\ unheard \in Nat /\ MaxOpenOrders \in Nat
  BY AcceptIs, BoundsAssumption DEF MoneyOK, CountOK
<1>3. ~Judged'
  BY <1>2 DEF Judged
<1>4. /\ Cardinality(Known(orders)) < MaxOpenOrders /\ Cardinality(Known(orders)) \in Nat
      /\ Known({q \in orders : q.symbol = o.symbol}) = {}
      /\ IsFiniteSet(Known(orders)) /\ IsFiniteSet(orders \ Known(orders))
      /\ Cardinality(orders \ Known(orders)) \in Nat
  <2>1. ~AtOpenLimit(o.symbol)
    BY <1>1, <1>2 DEF OrderInv
  <2>2. {q \in orders : q.symbol = o.symbol} = Of(o.symbol, "buy") \cup Of(o.symbol, "sell")
    BY <1>2 DEF Of, OrderSet
  <2>3. IsFiniteSet(Known(orders)) /\ IsFiniteSet(orders \ Known(orders))
    BY <1>2, FS_Subset DEF Known
  <2>4. Cardinality(Known(orders)) \in Nat /\ Cardinality(orders \ Known(orders)) \in Nat
    BY <2>3, FS_CardinalityType
  <2>5. ~(Cardinality(Known(orders)) >= MaxOpenOrders)
        /\ Known(Of(o.symbol, "buy") \cup Of(o.symbol, "sell")) = {}
    BY <2>1 DEF AtOpenLimit
  <2>6. Cardinality(Known(orders)) < MaxOpenOrders
    BY <1>2, <2>4, <2>5
  <2>7. Known({q \in orders : q.symbol = o.symbol}) = {}
    BY <2>2, <2>5
  <2> QED
    BY <2>3, <2>4, <2>6, <2>7
<1>5. Cardinality(Known(orders')) <= MaxOpenOrders
  <2>1. CASE heard
    <3>1. Known(orders') = Known(orders) \cup {o}
      BY <1>1, <2>1 DEF Known
    <3>2. /\ Cardinality(Known(orders')) <= Cardinality(Known(orders)) + 1
          /\ Cardinality(Known(orders')) \in Nat
      BY <1>4, <3>1, OneMore
    <3> QED
      BY <1>2, <1>4, <3>2
  <2>2. CASE ~heard
    <3>1. Known(orders') = Known(orders)
      BY <1>1, <2>2 DEF Known
    <3> QED
      BY <1>2, <1>4, <3>1
  <2> QED
    BY <2>1, <2>2
<1>6. Cardinality(orders' \ Known(orders')) <= unheard'
  <2>0. Cardinality(orders \ Known(orders)) <= unheard
    BY DEF OrderInv
  <2>1. CASE heard
    <3>1. orders' \ Known(orders') = orders \ Known(orders)
      BY <1>1, <2>1 DEF Known
    <3> QED
      BY <2>0, <2>1, <3>1
  <2>2. CASE ~heard
    <3>1. orders' \ Known(orders') = (orders \ Known(orders)) \cup {o}
      BY <1>1, <2>2 DEF Known
    <3>2. /\ Cardinality(orders' \ Known(orders')) <= Cardinality(orders \ Known(orders)) + 1
          /\ Cardinality(orders' \ Known(orders')) \in Nat
      BY <1>4, <3>1, OneMore
    <3> QED
      BY <1>2, <1>4, <2>0, <2>2, <3>2
  <2> QED
    BY <2>1, <2>2
<1>7. ASSUME NEW s \in Symbol
      PROVE  Cardinality(Known({q \in orders' : q.symbol = s})) <= 1
  <2>1. CASE s = o.symbol
    <3>1. Known({q \in orders' : q.symbol = s}) \in SUBSET {o}
      BY <1>1, <1>4, <2>1 DEF Known
    <3>2. IsFiniteSet({o}) /\ Cardinality({o}) = 1
      BY FS_Singleton
    <3>3. Cardinality(Known({q \in orders' : q.symbol = s})) <= Cardinality({o})
      BY <3>1, <3>2, FS_Subset
    <3> QED
      BY <3>2, <3>3
  <2>2. CASE s # o.symbol
    <3>1. {q \in orders' : q.symbol = s} = {q \in orders : q.symbol = s}
      BY <1>1, <2>2
    <3> QED
      BY <3>1 DEF OrderInv
  <2> QED
    BY <2>1, <2>2
<1>8. \A q \in Buys' : q.size <= MaxOrder
  BY <1>1, <1>2 DEF OrderInv, Buys, JudgedBuy
<1> QED
  BY <1>3, <1>5, <1>6, <1>7, <1>8 DEF OrderInv, JudgedBuy, Known

(* What passes is what the rules allow on the account.                     *)
LEMMA PassIs ==
  ASSUME MoneyOK, CountOK, Pass
  PROVE  \E a \in AccountSet :
           /\ Load(a) /\ Measure(EquityKrw(a)) /\ Allowed(a) /\ EquityKrw(a) \in Int
           /\ job \in JobSet /\ job' \in JobSet /\ job'.judged
           /\ job'.symbol = job.symbol /\ job'.side = job.side /\ job'.size = job.size
           /\ UNCHANGED <<price, cash, qty, cost, orders, unheard>>
<1>1. PICK a \in {seen, Account} : Judge(a) /\ Allowed(a)
  BY DEF Pass
<1>2. /\ a \in AccountSet /\ Load(a) /\ Measure(EquityKrw(a)) /\ EquityKrw(a) \in Int
      /\ job \in JobSet
  BY <1>1, JudgeIs
<1>3. job' = [job EXCEPT !.judged = TRUE]
      /\ UNCHANGED <<price, cash, qty, cost, orders, unheard>>
  BY DEF Pass, market, purse
<1>4. /\ job' \in JobSet /\ job'.judged
      /\ job'.symbol = job.symbol /\ job'.side = job.side /\ job'.size = job.size
  BY <1>2, <1>3 DEF JobSet
<1> QED
  BY <1>1, <1>2, <1>3, <1>4

(* The other steps that read the account judge nothing.                    *)
LEMMA NotJudged ==
  ASSUME MoneyOK, PriceOK, CountOK,
         \/ \E s \in Symbol : Tick(s)
         \/ Refuse \/ MarkToMarket
  PROVE  ~Judged' /\ UNCHANGED <<cash, qty, cost, orders, unheard>>
<1>1. CASE \E s \in Symbol : Tick(s)
  BY <1>1, TickIs DEF NewJob, Judged, market, purse
<1>2. CASE Refuse \/ MarkToMarket
  BY <1>2 DEF Refuse, MarkToMarket, Judged, market, purse
<1> QED
  BY <1>1, <1>2

(* Every step keeps to the limits for open orders.                         *)
LEMMA OrdersKept ==
  ASSUME MoneyOK, PriceOK, CountOK, OrderInv, [Next]_vars
  PROVE  OrderInv'
<1>1. ASSUME (\E s \in Symbol : Tick(s)) \/ Refuse \/ MarkToMarket
      PROVE  OrderInv'
  <2>1. ~Judged' /\ orders' \in SUBSET orders /\ unheard' = unheard
    BY <1>1, NotJudged
  <2> QED
    BY <2>1, FewerOrders DEF JudgedBuy
<1>2. ASSUME Pass
      PROVE  OrderInv'
  <2>1. PICK a \in AccountSet :
          /\ Allowed(a) /\ orders' = orders /\ unheard' = unheard
          /\ job'.symbol = job.symbol /\ job'.side = job.side /\ job'.size = job.size
    BY <1>2, PassIs
  <2>2. ~AtOpenLimit(job'.symbol) /\ (job'.side = "buy" => job'.size <= MaxOrder)
    BY <2>1 DEF Allowed
  <2>3. orders' \in SUBSET orders /\ unheard' = unheard
    BY <2>1
  <2> QED
    BY <2>2, <2>3, FewerOrders DEF JudgedBuy
<1>3. ASSUME Answered \/ AnswerLost
      PROVE  OrderInv'
  <2>1. PICK heard \in BOOLEAN : Accept(heard) /\ unheard' = IF heard THEN unheard ELSE unheard + 1
    <3>1. TRUE \in BOOLEAN /\ FALSE \in BOOLEAN
      OBVIOUS
    <3> QED
      BY <1>3, <3>1 DEF Answered, AnswerLost
  <2> QED
    BY <2>1, AcceptedCount
<1>4. ASSUME orders' \in SUBSET orders, unheard' = unheard, job' \in {job, NoJob}
      PROVE  OrderInv'
  <2>1. Judged' => ~AtOpenLimit(job'.symbol)
    BY <1>4 DEF Judged, OrderInv
  <2>2. JudgedBuy' => job'.size <= MaxOrder
    BY <1>4 DEF Judged, JudgedBuy, OrderInv
  <2> QED
    BY <1>4, <2>1, <2>2, FewerOrders
<1>5. ASSUME NEW o \in orders, FillBuy(o) \/ FillSell(o) \/ Cancelled(o)
      PROVE  OrderInv'
  <2>1. orders' = orders \ {o} /\ unheard' = unheard /\ job' = job
    BY <1>5, ExchangeLeaves
  <2> QED
    BY <1>4, <2>1
<1>6. ASSUME \/ \E s \in Symbol : Trade(s)
             \/ Declined \/ CacheExpires \/ NewDay \/ Crash \/ UNCHANGED vars
      PROVE  OrderInv'
  BY <1>4, <1>6, QuietKeeps
<1> QED
  BY <1>1, <1>2, <1>3, <1>5, <1>6, NextSteps
-----------------------------------------------------------------------------
(* The exposure. The open BUYs are within what the rule does not see.      *)
LEMMA BuysWithin ==
  ASSUME MoneyOK, CountOK, OrderInv
  PROVE  /\ BuySize(orders) <= Unseen /\ BuySize(orders) \in Nat /\ CostSum \in Nat
         /\ Unseen \in Nat /\ MaxOrder \in Nat /\ MaxExposure \in Nat
         /\ Total(seen.cost, Symbol) \in Nat /\ AtRisk = CostSum + BuySize(orders)
<1>1. /\ orders \in SUBSET OrderSet /\ IsFiniteSet(orders) /\ unheard \in Nat
      /\ MaxOpenOrders \in Nat /\ MaxOrder \in Nat /\ MaxExposure \in Nat
  BY BoundsAssumption, AmountsAssumption DEF MoneyOK, CountOK
<1>2. /\ BuysOf(orders) \in SUBSET OrderSet /\ IsFiniteSet(BuysOf(orders))
      /\ BuySize(orders) \in Nat
  BY <1>1, Parts
<1>3. \A o \in BuysOf(orders) : sizes[o] \in Nat /\ sizes[o] <= MaxOrder
  BY <1>2, OrderFunctions DEF OrderInv, Buys, BuysOf
<1>4. BuySize(orders) <= Cardinality(BuysOf(orders)) * MaxOrder
  BY <1>1, <1>2, <1>3, TotalAtMost DEF BuySize
<1>5. Cardinality(orders) <= MaxOpenOrders + unheard /\ Cardinality(orders) \in Nat
  <2> DEFINE A == Known(orders)
             B == orders \ A
  <2>1. A \cup B = orders /\ A \cap B = {} /\ IsFiniteSet(A) /\ IsFiniteSet(B)
    BY <1>1, FS_Subset DEF Known
  <2>2. Cardinality(A) <= MaxOpenOrders /\ Cardinality(B) <= unheard
    BY DEF OrderInv
  <2> HIDE DEF A, B
  <2>3. Cardinality(A) \in Nat /\ Cardinality(B) \in Nat /\ Cardinality(A \cap B) = 0
    BY <2>1, FS_CardinalityType, FS_EmptySet
  <2>4. Cardinality(A \cup B) = Cardinality(A) + Cardinality(B) - Cardinality(A \cap B)
    BY <2>1, FS_Union
  <2>5. Cardinality(A \cup B) = Cardinality(A) + Cardinality(B)
    BY <2>3, <2>4
  <2>6. Cardinality(A \cup B) = Cardinality(orders)
    BY <2>1, Zenon
  <2> QED
    BY <1>1, <2>2, <2>3, <2>5, <2>6
<1>6. Cardinality(BuysOf(orders)) <= Cardinality(orders) /\ Cardinality(BuysOf(orders)) \in Nat
  BY <1>1, <1>2, FS_Subset, FS_CardinalityType DEF BuysOf
<1>7. BuySize(orders) <= Unseen /\ Unseen \in Nat
  <2> DEFINE n == Cardinality(BuysOf(orders))
             m == MaxOpenOrders + unheard
  <2>1. n \in Nat /\ m \in Nat /\ n <= m
    BY <1>1, <1>5, <1>6
  <2> HIDE DEF n, m
  <2>2. n * MaxOrder <= m * MaxOrder /\ n * MaxOrder \in Nat /\ m * MaxOrder \in Nat
    BY <1>1, <2>1
  <2>3. BuySize(orders) <= n * MaxOrder /\ Unseen = m * MaxOrder
    BY <1>4 DEF n, m, Unseen
  <2> QED
    BY <1>2, <2>2, <2>3
<1>8. CostSum \in Nat /\ Total(seen.cost, Symbol) \in Nat
  <2>1. /\ \A s \in Symbol : cost[s] \in Nat /\ seen.cost[s] \in Nat
        /\ IsFiniteSet(Symbol)
    BY BoundsAssumption DEF MoneyOK, AccountSet
  <2> QED
    BY <2>1, TotalNat DEF CostSum
<1> QED
  BY <1>1, <1>2, <1>7, <1>8 DEF AtRisk

(* A reading shows every cost, though not the orders.                      *)
LEMMA ReadRisk ==
  ASSUME MoneyOK, CountOK, OrderInv, ExposureInv, NEW a, Load(a),
         UNCHANGED <<cash, qty, cost, orders, unheard>>
  PROVE  /\ cached' => AtRisk' <= Total(seen'.cost, Symbol) + Unseen'
         /\ ~blind' => ~blind /\ AtRisk <= Total(a.cost, Symbol) + Unseen
         /\ AtRisk' = AtRisk /\ Unseen' = Unseen /\ a \in AccountSet
<1>1. AtRisk' = AtRisk /\ Unseen' = Unseen
  BY DEF AtRisk, Unseen, CostSum
<1>2. /\ a \in AccountSet
      /\ \/ cached /\ a = seen /\ UNCHANGED <<seen, cached, age, blind>>
         \/ a = Ledger /\ seen' = a /\ age' = "now" /\ blind' = blind
         \/ a = seen /\ UNCHANGED <<seen, cached, age>> /\ ~cached /\ blind'
  BY LoadIs
<1>3. AtRisk <= CostSum + Unseen
  BY BuysWithin
<1>4. Total(Ledger.cost, Symbol) = CostSum
  BY DEF Ledger, CostSum
<1> QED
  BY <1>1, <1>2, <1>3, <1>4 DEF ExposureInv

(* Every step keeps the exposure bounded.                                  *)
LEMMA RiskKept ==
  ASSUME MoneyOK, PriceOK, CountOK, OrderInv, ExposureInv, [Next]_vars
  PROVE  ExposureInv'
<1>1. /\ AtRisk = CostSum + BuySize(orders) /\ BuySize(orders) \in Nat /\ CostSum \in Nat
      /\ Unseen \in Nat /\ MaxOrder \in Nat /\ MaxExposure \in Nat
      /\ Total(seen.cost, Symbol) \in Nat
  BY BuysWithin
<1>2. ASSUME (\E s \in Symbol : Tick(s)) \/ Refuse \/ MarkToMarket
      PROVE  ExposureInv'
  <2>1. ~Judged' /\ UNCHANGED <<cash, qty, cost, orders, unheard>>
    BY <1>2, NotJudged
  <2>2. \E a : Load(a)
    BY <1>2 DEF Tick, Refuse, MarkToMarket, Judge
  <2> QED
    BY <2>1, <2>2, ReadRisk DEF ExposureInv, JudgedBuy
<1>3. ASSUME Pass
      PROVE  ExposureInv'
  <2>1. PICK a \in AccountSet :
          /\ Load(a) /\ Allowed(a) /\ job' \in JobSet
          /\ job'.side = job.side /\ job'.size = job.size
          /\ UNCHANGED <<price, cash, qty, cost, orders, unheard>>
    BY <1>3, PassIs
  <2>2. /\ cached' => AtRisk' <= Total(seen'.cost, Symbol) + Unseen'
        /\ ~blind' => ~blind /\ AtRisk <= Total(a.cost, Symbol) + Unseen
        /\ AtRisk' = AtRisk /\ Unseen' = Unseen
    BY <2>1, ReadRisk
  <2>3. job'.side = "buy" => Total(a.cost, Symbol) + job'.size <= MaxExposure
    BY <2>1, Amounts DEF Allowed
  <2>4. Total(a.cost, Symbol) \in Nat /\ job'.size \in Nat
    <3>1. Exposure(a) = Total(a.cost, Symbol) /\ Exposure(a) \in Nat
      BY <2>1, Amounts
    <3> QED
      BY <2>1, <3>1 DEF JobSet
  <2>5. ASSUME ~blind', JudgedBuy'
        PROVE  AtRisk' + job'.size <= MaxExposure + Unseen'
    <3>1. job'.side = "buy"
      BY <2>5 DEF JudgedBuy
    <3>2. AtRisk \in Nat
      BY <1>1
    <3> QED
      BY <1>1, <2>2, <2>3, <2>4, <2>5, <3>1, <3>2
  <2> QED
    BY <2>2, <2>5 DEF ExposureInv
<1>4. ASSUME Answered \/ AnswerLost
      PROVE  ExposureInv'
  <2>1. PICK heard \in BOOLEAN :
          /\ Accept(heard)
          /\ \/ cached' = FALSE /\ unheard' = unheard
             \/ cached' = cached /\ unheard' = unheard + 1
    <3>1. TRUE \in BOOLEAN /\ FALSE \in BOOLEAN
      OBVIOUS
    <3> QED
      BY <1>4, <3>1 DEF Answered, AnswerLost
  <2>2. /\ Judged /\ job \in JobSet /\ job' = NoJob /\ cost' = cost /\ seen' = seen /\ blind' = blind
        /\ BuySize(orders') = BuySize(orders) + (IF job.side = "buy" THEN job.size ELSE 0)
    BY <2>1, AcceptIs
  <2> DEFINE extra == IF job.side = "buy" THEN job.size ELSE 0
  <2>3. extra \in Nat /\ extra <= MaxOrder /\ (~blind => AtRisk + extra <= MaxExposure + Unseen)
    BY <1>1, <2>2 DEF JobSet, OrderInv, ExposureInv, JudgedBuy
  <2>4. AtRisk' = AtRisk + extra
    <3>1. CostSum' = CostSum /\ AtRisk' = CostSum' + BuySize(orders')
      BY <2>2 DEF CostSum, AtRisk
    <3> HIDE DEF BuySize
    <3> QED
      BY <1>1, <2>2, <2>3, <3>1
  <2>5. Unseen' = IF unheard' = unheard THEN Unseen ELSE Unseen + MaxOrder
    <3>1. /\ unheard \in Nat /\ MaxOpenOrders \in Nat
          /\ unheard' = unheard \/ unheard' = unheard + 1
      BY <2>1, BoundsAssumption DEF CountOK
    <3>2. (MaxOpenOrders + (unheard + 1)) * MaxOrder = (MaxOpenOrders + unheard) * MaxOrder + MaxOrder
      BY <1>1, <3>1
    <3> QED
      BY <3>1, <3>2 DEF Unseen
  <2>6. unheard \in Nat
    BY DEF CountOK
  <2> HIDE DEF extra
  <2>7. AtRisk \in Nat
    BY <1>1
  <2>8. cached' => AtRisk' <= Total(seen'.cost, Symbol) + Unseen'
    <3>1. SUFFICES ASSUME cached' PROVE AtRisk' <= Total(seen'.cost, Symbol) + Unseen'
      OBVIOUS
    <3>0. cached /\ unheard' = unheard + 1
      BY <2>1, <3>1, Zenon
    <3>2. cached /\ Unseen' = Unseen + MaxOrder
      <4>1. unheard' # unheard
        BY <2>6, <3>0
      <4> QED
        BY <2>5, <3>0, <4>1
    <3>3. AtRisk <= Total(seen.cost, Symbol) + Unseen
      BY <3>2 DEF ExposureInv
    <3>4. AtRisk + extra <= Total(seen.cost, Symbol) + (Unseen + MaxOrder)
      BY <1>1, <2>3, <2>7, <3>3
    <3>5. Total(seen'.cost, Symbol) = Total(seen.cost, Symbol)
      BY <2>2
    <3> QED
      BY <2>4, <3>2, <3>4, <3>5
  <2>9. ~blind' => AtRisk' <= MaxExposure + Unseen'
    BY <1>1, <2>2, <2>3, <2>4, <2>5, <2>7
  <2> QED
    BY <2>2, <2>8, <2>9 DEF ExposureInv, JudgedBuy, Judged
<1>5. ASSUME AtRisk' \in Int, AtRisk' <= AtRisk, Unseen' = Unseen, seen' = seen, blind' = blind,
             cached' \in {cached, FALSE}, job' \in {job, NoJob}
      PROVE  ExposureInv'
  <2>0. Total(seen'.cost, Symbol) = Total(seen.cost, Symbol) /\ AtRisk \in Int
    BY <1>1, <1>5
  <2>1. cached' => AtRisk' <= Total(seen'.cost, Symbol) + Unseen'
    <3>1. ASSUME cached' PROVE AtRisk <= Total(seen.cost, Symbol) + Unseen
      BY <1>5, <3>1 DEF ExposureInv
    <3>2. ASSUME AtRisk <= Total(seen.cost, Symbol) + Unseen
          PROVE  AtRisk' <= Total(seen.cost, Symbol) + Unseen
      BY <1>1, <1>5, <2>0, <3>2
    <3> QED
      BY <1>5, <2>0, <3>1, <3>2
  <2>2. ~blind' => AtRisk' <= MaxExposure + Unseen'
    BY <1>1, <1>5 DEF ExposureInv
  <2>3. ASSUME ~blind', JudgedBuy'
        PROVE  AtRisk' + job'.size <= MaxExposure + Unseen'
    <3>1. JudgedBuy /\ job' = job /\ job.size \in Nat
      BY <1>5, <2>3 DEF JudgedBuy, Judged, MoneyOK, JobSet
    <3>2. AtRisk + job.size <= MaxExposure + Unseen
      BY <1>5, <2>3, <3>1 DEF ExposureInv
    <3>3. AtRisk \in Int
      BY <1>1
    <3> QED
      BY <1>1, <1>5, <3>1, <3>2, <3>3
  <2> QED
    BY <2>1, <2>2, <2>3 DEF ExposureInv
<1>6. ASSUME NEW o \in orders, FillBuy(o) \/ FillSell(o) \/ Cancelled(o)
      PROVE  ExposureInv'
  <2>1. UNCHANGED <<seen, cached, blind, unheard, job>> /\ orders' = orders \ {o}
    BY <1>6, ExchangeLeaves
  <2>2. BuySize(orders') \in Nat /\ CostSum' \in Nat
    <3>1. BuySize(orders') \in Nat
      BY <2>1, OrderLeaves
    <3>2. CostSum' \in Nat
      <4>1. cost' \in [Symbol -> Nat]
        BY <1>6, ExchangeKeeps DEF MoneyOK
      <4>2. Total(cost', Symbol) \in Nat
        BY <4>1, BoundsAssumption, TotalNat
      <4> QED
        BY <4>2 DEF CostSum
    <3> QED
      BY <3>1, <3>2
  <2>3. CostSum' + BuySize(orders') <= CostSum + BuySize(orders)
    <3>1. CASE FillBuy(o)
      BY <1>1, <2>2, <3>1, FillBuyIs
    <3>2. CASE FillSell(o)
      <4>1. BuySize(orders') = BuySize(orders) /\ CostSum' <= CostSum
        BY <3>2, FillSellIs
      <4> QED
        BY <1>1, <2>2, <4>1
    <3>3. CASE Cancelled(o)
      <4>1. BuySize(orders') <= BuySize(orders)
        BY <3>3, CancelledIs
      <4>2. CostSum' = CostSum
        BY <3>3 DEF Cancelled, CostSum
      <4> QED
        BY <1>1, <2>2, <4>1, <4>2
    <3> QED
      BY <1>6, <3>1, <3>2, <3>3
  <2>4. AtRisk' = CostSum' + BuySize(orders')
    BY DEF AtRisk
  <2>5. Unseen' = Unseen
    BY <2>1 DEF Unseen
  <2> QED
    BY <1>1, <1>5, <2>1, <2>2, <2>3, <2>4, <2>5
<1>7. ASSUME \/ \E s \in Symbol : Trade(s)
             \/ Declined \/ CacheExpires \/ NewDay \/ Crash \/ UNCHANGED vars
      PROVE  ExposureInv'
  <2>1. /\ UNCHANGED <<cash, qty, cost, orders, seen, blind, unheard>>
        /\ job' \in {job, NoJob} /\ cached' \in {cached, FALSE}
    BY <1>7, QuietKeeps
  <2>2. AtRisk' = AtRisk /\ Unseen' = Unseen
    BY <2>1 DEF AtRisk, Unseen, CostSum
  <2>3. AtRisk' \in Int /\ AtRisk' <= AtRisk
    BY <1>1, <2>2
  <2> QED
    BY <1>5, <2>1, <2>2, <2>3
<1> QED
  BY <1>2, <1>3, <1>4, <1>6, <1>7, NextSteps
-----------------------------------------------------------------------------
(* The loss of a day.                                                      *)
Held == cash + BuyLock(orders) + CostSum

(* What is held is not negative.                                           *)
LEMMA HeldTyped ==
  ASSUME MoneyOK
  PROVE  /\ cash \in Nat /\ BuyLock(orders) \in Nat /\ CostSum \in Nat /\ Held \in Nat
         /\ Held = cash + BuyLock(orders) + CostSum
<1>1. /\ cash \in Nat /\ orders \in SUBSET OrderSet /\ IsFiniteSet(orders)
      /\ IsFiniteSet(Symbol) /\ \A s \in Symbol : cost[s] \in Nat
  BY BoundsAssumption DEF MoneyOK
<1>2. BuyLock(orders) \in Nat
  BY <1>1, Parts
<1>3. CostSum \in Nat
  BY <1>1, TotalNat DEF CostSum
<1> QED
  BY <1>1, <1>2, <1>3 DEF Held

(* An account just read holds what there is.                               *)
LEMMA ReadAge ==
  ASSUME MoneyOK, CountOK, LossInv, NEW a, Load(a), UNCHANGED <<cash, qty, cost, orders>>
  PROVE  /\ age' = "now" => seen' = Ledger'
         /\ age' = "now" /\ ~blind' => a = Ledger
         /\ Ledger' = Ledger /\ Held' = Held /\ a \in AccountSet
<1>1. Ledger' = Ledger /\ Held' = Held
  BY DEF Ledger, Held, CostSum
<1>2. /\ a \in AccountSet
      /\ \/ cached /\ a = seen /\ UNCHANGED <<seen, cached, age, blind>>
         \/ a = Ledger /\ seen' = a /\ age' = "now" /\ blind' = blind
         \/ a = seen /\ UNCHANGED <<seen, cached, age>> /\ ~cached /\ blind'
  BY LoadIs
<1>3. age = "now" => seen = Ledger
  BY DEF LossInv
<1> QED
  BY <1>1, <1>2, <1>3

(* The equity of an account just read is what is held.                     *)
LEMMA LedgerEquity ==
  ASSUME MoneyOK
  PROVE  EquityKrw(Ledger) = Held /\ CashKrw(Ledger) = cash + BuyLock(orders)
<1>1. Ledger \in AccountSet
  BY LedgerTyped
<1>2. /\ Exposure(Ledger) = Total(Ledger.cost, Symbol)
      /\ CashKrw(Ledger) = Ledger.cash + Ledger.locked
      /\ EquityKrw(Ledger) = CashKrw(Ledger) + Exposure(Ledger)
  BY <1>1, Amounts
<1>3. Ledger.cash = cash /\ Ledger.locked = BuyLock(orders) /\ Ledger.cost = cost
  BY DEF Ledger
<1> QED
  BY <1>2, <1>3 DEF Held, CostSum

(* The first measurement of the day counts from what is held.              *)
LEMMA MeasureHeld ==
  ASSUME MoneyOK, LossInv, NEW equity \in Int, Measure(equity)
  PROVE  /\ baseline' # NoBaseline => Held + lost' = baseline'
         /\ equity > 0 => baseline' # NoBaseline
         /\ baseline' \in Nat \cup {NoBaseline} /\ lost' \in Int
<1>1. /\ baseline' \in Nat \cup {NoBaseline} /\ lost' \in Int
      /\ \/ /\ baseline = NoBaseline /\ equity > 0
            /\ baseline' = equity /\ lost' = equity - (cash + BuyLock(orders) + CostSum)
         \/ UNCHANGED <<baseline, lost>> /\ (baseline # NoBaseline \/ equity <= 0)
  BY MeasureIs
<1>2. Held \in Nat /\ Held = cash + BuyLock(orders) + CostSum
  BY HeldTyped
<1>3. baseline # NoBaseline => Held + lost = baseline
  BY DEF LossInv, Held
<1> HIDE DEF BuyLock
<1>4. CASE /\ baseline = NoBaseline /\ equity > 0
           /\ baseline' = equity /\ lost' = equity - (cash + BuyLock(orders) + CostSum)
  <2>1. lost' = equity - Held /\ baseline' # NoBaseline
    BY <1>2, <1>4 DEF NoBaseline
  <2> QED
    BY <1>1, <1>2, <1>4, <2>1
<1>5. CASE UNCHANGED <<baseline, lost>> /\ (baseline # NoBaseline \/ equity <= 0)
  BY <1>1, <1>3, <1>5
<1> QED
  BY <1>1, <1>4, <1>5

(* What passes on an account just read has not lost too much.              *)
LEMMA LossPassed ==
  ASSUME MoneyOK, CountOK, LossInv, Pass
  PROVE  /\ age' = "now" => seen' = Ledger'
         /\ baseline' # NoBaseline => Held' + lost' = baseline'
         /\ JudgedBuy' /\ age' = "now" /\ ~blind' => lost' < MaxDailyLoss
<1>1. PICK a \in AccountSet :
        /\ Load(a) /\ Measure(EquityKrw(a)) /\ Allowed(a) /\ EquityKrw(a) \in Int
        /\ job \in JobSet /\ job'.side = job.side
        /\ UNCHANGED <<price, cash, qty, cost, orders, unheard>>
  BY PassIs
<1>2. /\ age' = "now" => seen' = Ledger'
      /\ age' = "now" /\ ~blind' => a = Ledger
      /\ Held' = Held
  BY <1>1, ReadAge
<1>3. /\ baseline' # NoBaseline => Held + lost' = baseline'
      /\ EquityKrw(a) > 0 => baseline' # NoBaseline
      /\ baseline' \in Nat \cup {NoBaseline} /\ lost' \in Int
  BY <1>1, MeasureHeld
<1>4. ASSUME JudgedBuy', age' = "now", ~blind'
      PROVE  lost' < MaxDailyLoss
  <2>1. a = Ledger /\ job.side = "buy"
    BY <1>1, <1>2, <1>4 DEF JudgedBuy
  <2>2. CashKrw(a) >= job.size /\ DailyPnl(EquityKrw(a)) > -MaxDailyLoss
    BY <1>1, <2>1 DEF Allowed
  <2>3. EquityKrw(a) = Held /\ CashKrw(a) = cash + BuyLock(orders)
    BY <2>1, LedgerEquity
  <2>4. /\ cash \in Nat /\ BuyLock(orders) \in Nat /\ CostSum \in Nat /\ Held \in Nat
        /\ Held = cash + BuyLock(orders) + CostSum
    BY HeldTyped
  <2>5. job.size \in Nat \ {0} /\ MaxDailyLoss \in Nat
    BY <1>1, AmountsAssumption DEF JobSet
  <2> HIDE DEF BuyLock
  <2>6. Held > 0
    BY <2>2, <2>3, <2>4, <2>5
  <2>7. DailyPnl(Held) = Held - baseline'
    BY <2>4, <2>6 DEF DailyPnl
  <2>8. Held - baseline' > -MaxDailyLoss
    BY <2>2, <2>3, <2>7
  <2>9. baseline' \in Nat /\ Held + lost' = baseline'
    BY <1>3, <2>3, <2>6
  <2> QED
    BY <1>3, <2>4, <2>5, <2>8, <2>9
<1> QED
  BY <1>2, <1>3, <1>4

(* Every step keeps count of what is lost.                                 *)
LEMMA LossKept ==
  ASSUME MoneyOK, PriceOK, CountOK, LossInv, [Next]_vars
  PROVE  LossInv'
<1>1. /\ cash \in Nat /\ BuyLock(orders) \in Nat /\ CostSum \in Nat /\ Held \in Nat
      /\ Held = cash + BuyLock(orders) + CostSum
      /\ lost \in Int /\ baseline \in Int /\ MaxDailyLoss \in Nat \ {0}
  BY HeldTyped, AmountsAssumption DEF MoneyOK, NoBaseline
<1>2. /\ age = "now" => seen = Ledger
      /\ baseline # NoBaseline => Held + lost = baseline
      /\ JudgedBuy /\ age = "now" /\ ~blind => lost < MaxDailyLoss
  BY DEF LossInv, Held
<1>3. SUFFICES /\ age' = "now" => seen' = Ledger'
               /\ baseline' # NoBaseline => Held' + lost' = baseline'
               /\ JudgedBuy' /\ age' = "now" /\ ~blind' => lost' < MaxDailyLoss
  BY DEF LossInv, Held
<1> DEFINE Kept == /\ age' = "now" => seen' = Ledger'
                   /\ baseline' # NoBaseline => Held' + lost' = baseline'
                   /\ JudgedBuy' /\ age' = "now" /\ ~blind' => lost' < MaxDailyLoss
<1>4. ASSUME (\E s \in Symbol : Tick(s)) \/ Refuse \/ MarkToMarket
      PROVE  Kept
  <2>1. ~Judged' /\ UNCHANGED <<cash, qty, cost, orders, unheard>>
    BY <1>4, NotJudged
  <2>2. PICK a : Load(a) /\ (UNCHANGED day \/ \E equity \in Int : Measure(equity))
    <3>1. CASE \E s \in Symbol : Tick(s)
      BY <3>1 DEF Tick
    <3>2. CASE Refuse
      BY <3>2, JudgeIs DEF Refuse
    <3>3. CASE MarkToMarket
      <4>1. PICK a \in {seen, Account}, unpriced \in SUBSET Symbol :
              Load(a) /\ Measure(EquityMtm(a, unpriced))
        BY <3>3 DEF MarkToMarket
      <4>2. EquityMtm(a, unpriced) \in Int
        BY <4>1, LoadIs, EquityMtmTyped
      <4> QED
        BY <4>1, <4>2
    <3> QED
      BY <1>4, <3>1, <3>2, <3>3
  <2>3. (age' = "now" => seen' = Ledger') /\ Held' = Held
    BY <2>1, <2>2, ReadAge
  <2>4. baseline' # NoBaseline => Held + lost' = baseline'
    BY <1>2, <2>2, MeasureHeld DEF day
  <2> QED
    BY <2>1, <2>3, <2>4 DEF JudgedBuy
<1>5. ASSUME Pass PROVE Kept
  BY <1>5, LossPassed
<1>6. ASSUME Answered \/ AnswerLost
      PROVE  Kept
  <2>1. PICK heard \in BOOLEAN : Accept(heard)
    <3>1. TRUE \in BOOLEAN /\ FALSE \in BOOLEAN
      OBVIOUS
    <3> QED
      BY <1>6, <3>1 DEF Answered, AnswerLost
  <2>2. /\ cash' \in Nat /\ cash' + BuyLock(orders') = cash + BuyLock(orders)
        /\ job' = NoJob /\ age' = "older" /\ UNCHANGED <<cost, baseline, lost>>
    BY <2>1, AcceptIs
  <2>3. Held' = Held
    <3>1. Held' = cash' + BuyLock(orders') + CostSum' /\ CostSum' = CostSum
      BY <2>2 DEF Held, CostSum
    <3> QED
      BY <1>1, <2>2, <3>1
  <2> QED
    BY <1>2, <2>2, <2>3 DEF JudgedBuy, Judged
<1>7. ASSUME NEW o \in orders, FillBuy(o) \/ FillSell(o) \/ Cancelled(o)
      PROVE  Kept
  <2>1. orders' = orders \ {o} /\ (age' = "filled" \/ age' = "older") /\ baseline' = baseline
    BY <1>7, ExchangeLeaves
  <2>2. MoneyOK'
    BY <1>7, ExchangeKeeps
  <2>3. cash' \in Nat /\ lost' \in Int /\ BuyLock(orders') \in Nat /\ CostSum' \in Nat
    <3>1. cash' \in Nat /\ lost' \in Int /\ \A s \in Symbol : cost'[s] \in Nat
      BY <2>2 DEF MoneyOK
    <3>2. BuyLock(orders') \in Nat
      BY <2>1, OrderLeaves
    <3>3. Total(cost', Symbol) \in Nat
      BY <3>1, BoundsAssumption, TotalNat
    <3> QED
      BY <3>1, <3>2, <3>3 DEF CostSum
  <2>4. Held' = cash' + BuyLock(orders') + CostSum'
    BY DEF Held
  <2>5. Held' + lost' = Held + lost
    <3>1. CASE FillBuy(o)
      <4>1. cash' = cash /\ BuyLock(orders') + CostSum' + lost' = BuyLock(orders) + CostSum + lost
        BY <3>1, FillBuyIs
      <4> QED
        BY <1>1, <2>3, <2>4, <4>1
    <3>2. CASE FillSell(o)
      <4>1. BuyLock(orders') = BuyLock(orders) /\ lost' = lost + (cash - cash') + (CostSum - CostSum')
        BY <3>2, FillSellIs
      <4>2. Held' = cash' + BuyLock(orders) + CostSum'
        BY <2>4, <4>1
      <4> QED
        BY <1>1, <2>3, <4>1, <4>2
    <3>3. CASE Cancelled(o)
      <4>1. cash' + BuyLock(orders') = cash + BuyLock(orders)
        BY <3>3, CancelledIs
      <4>2. lost' = lost /\ CostSum' = CostSum
        BY <3>3 DEF Cancelled, CostSum, day
      <4> QED
        BY <1>1, <2>3, <2>4, <4>1, <4>2
    <3> QED
      BY <1>7, <3>1, <3>2, <3>3
  <2> QED
    BY <1>2, <2>1, <2>5
<1>8. ASSUME \/ \E s \in Symbol : Trade(s)
             \/ Declined \/ CacheExpires \/ NewDay \/ Crash \/ UNCHANGED vars
      PROVE  Kept
  <2>1. /\ UNCHANGED <<cash, qty, cost, orders, seen, blind, age>>
        /\ job' \in {job, NoJob}
        /\ UNCHANGED <<baseline, lost>> \/ (baseline' = NoBaseline /\ lost' = 0)
    BY <1>8, QuietKeeps
  <2>2. Held' = Held /\ Ledger' = Ledger
    BY <2>1 DEF Held, CostSum, Ledger
  <2>3. JudgedBuy' => JudgedBuy
    BY <2>1 DEF JudgedBuy, Judged
  <2> QED
    BY <1>1, <1>2, <2>1, <2>2, <2>3
<1> QED
  BY <1>4, <1>5, <1>6, <1>7, <1>8, NextSteps

(* An exit stays a SELL.                                                   *)
LEMMA ExitsKept ==
  ASSUME MoneyOK, PriceOK, CountOK, ExitInv, [Next]_vars
  PROVE  ExitInv'
<1>1. ASSUME NEW s \in Symbol, Tick(s) PROVE ExitInv'
  BY <1>1, TickIs DEF ExitInv, NewJob
<1>2. ASSUME Pass PROVE ExitInv'
  <2>1. job' = [job EXCEPT !.judged = TRUE] /\ job \in JobSet
    BY <1>2, PassIs DEF Pass
  <2>2. job'.cause = job.cause /\ job'.side = job.side
    BY <2>1 DEF JobSet
  <2>3. job # NoJob
    BY <2>1, JobOrNone
  <2> QED
    BY <2>2, <2>3 DEF ExitInv
<1>3. ASSUME job' \in {job, NoJob} PROVE ExitInv'
  BY <1>3 DEF ExitInv
<1>4. ASSUME Refuse \/ MarkToMarket \/ Answered \/ AnswerLost PROVE job' \in {job, NoJob}
  BY <1>4 DEF Refuse, MarkToMarket, Answered, AnswerLost, Accept
<1>5. ASSUME NEW o \in orders, FillBuy(o) \/ FillSell(o) \/ Cancelled(o) PROVE job' = job
  BY <1>5, ExchangeLeaves
<1>6. ASSUME \/ \E s \in Symbol : Trade(s)
             \/ Declined \/ CacheExpires \/ NewDay \/ Crash \/ UNCHANGED vars
      PROVE  job' \in {job, NoJob}
  BY <1>6, QuietKeeps
<1> QED
  BY <1>1, <1>2, <1>3, <1>4, <1>5, <1>6, NextSteps
-----------------------------------------------------------------------------
(* The cash for a BUY: the buffer covers the fee.                          *)
LEMMA BufferCovers ==
  ASSUME NEW F \in 0 .. 100, NEW B \in 0 .. 100, F <= B, NEW c \in Nat, NEW z \in Nat,
         z <= (c * (100 - B)) \div 100
  PROVE  z + (z * F + 100 - 1) \div 100 <= c
<1> DEFINE m == c * (100 - B)
<1>1. m \in Nat
  OBVIOUS
<1> HIDE DEF m
<1>2. 100 * (m \div 100) <= m /\ m \div 100 \in Int
  BY <1>1, Divided
<1>3. 100 * z <= m
  BY <1>1, <1>2 DEF m
<1>4. (100 - B) * (100 + F) <= 10000
  <2>1. (100 - B) * (100 + F) = 10000 + 100 * F - 100 * B - B * F
    OBVIOUS
  <2>2. B * F \in Nat
    OBVIOUS
  <2> QED
    BY <2>1, <2>2
<1>5. c * ((100 - B) * (100 + F)) <= c * 10000
  <2> DEFINE u == (100 - B) * (100 + F)
  <2>1. u \in Nat /\ u <= 10000
    BY <1>4
  <2> HIDE DEF u
  <2>2. c * u <= c * 10000
    BY <2>1
  <2> QED
    BY <2>2 DEF u
<1>6. (100 * z) * (100 + F) <= m * (100 + F)
  <2> DEFINE k == 100 + F
             p == 100 * z
  <2>1. k \in Nat /\ p \in Nat /\ p <= m
    BY <1>3
  <2> HIDE DEF k, p
  <2>2. p * k <= m * k
    BY <1>1, <2>1
  <2> QED
    BY <2>2 DEF k, p
<1>7. z * (100 + F) <= 100 * c
  <2>1. m * (100 + F) = c * ((100 - B) * (100 + F))
    BY DEF m
  <2> QED
    BY <1>5, <1>6, <2>1
<1>8. z * F <= 100 * (c - z) /\ z * F \in Nat
  BY <1>7
<1> QED
  BY <1>8

(* A BUY within what is spendable leaves room for its fee.                 *)
LEMMA Covered ==
  ASSUME Fee <= Buffer, NEW a \in AccountSet, NEW z \in Nat, z <= Spendable(a)
  PROVE  z + FeeOf(z) <= a.cash
<1>1. Fee \in 0 .. 100 /\ Buffer \in 0 .. 100 /\ a.cash \in Nat
  BY SharesAssumption DEF AccountSet
<1>2. z <= (a.cash * (100 - Buffer)) \div 100
  BY DEF Spendable, Whole
<1>3. z + (z * Fee + 100 - 1) \div 100 <= a.cash
  BY <1>1, <1>2, BufferCovers
<1> QED
  BY <1>3 DEF FeeOf, Whole

(* Every step keeps the cash for the BUY that is under way.                *)
LEMMA CashKept ==
  ASSUME Fee <= Buffer, MoneyOK, PriceOK, CountOK, CashInv, [Next]_vars
  PROVE  CashInv'
<1>1. cash \in Nat /\ seen.cash \in Nat /\ unheard \in Nat
      /\ (job = NoJob \/ (job \in JobSet /\ job.size + FeeOf(job.size) \in Nat))
  <2>1. job \in JobSet => job.size + FeeOf(job.size) \in Nat
    BY FeeBounds DEF JobSet
  <2> QED
    BY <2>1 DEF MoneyOK, CountOK, AccountSet
<1>2. ASSUME NEW a, Load(a), UNCHANGED <<cash, qty, cost, orders, unheard>>, ~blind', unheard' = 0
      PROVE  /\ cached' => seen'.cash <= cash'
             /\ a \in AccountSet /\ a.cash <= cash /\ ~blind /\ unheard = 0
  <2>1. /\ a \in AccountSet
        /\ \/ cached /\ a = seen /\ UNCHANGED <<seen, cached, age, blind>>
           \/ a = Ledger /\ seen' = a /\ age' = "now" /\ blind' = blind
    BY <1>2, LoadIs
  <2>0. blind' = blind /\ unheard' = unheard
    BY <1>2, <2>1
  <2>2. cached => seen.cash <= cash
    BY <1>2, <2>0 DEF CashInv
  <2>3. Ledger.cash = cash
    BY DEF Ledger
  <2> QED
    BY <1>1, <1>2, <2>0, <2>1, <2>2, <2>3
<1>3. ASSUME NEW s \in Symbol, Tick(s) PROVE CashInv'
  <2>1. PICK a \in AccountSet : Load(a) /\ (NewJob(a, s) \/ job' = NoJob)
    BY <1>3, TickIs
  <2>2. UNCHANGED <<cash, qty, cost, orders, unheard>>
    BY <1>3, NotJudged
  <2>3. SUFFICES ASSUME ~blind', unheard' = 0
                 PROVE  /\ cached' => seen'.cash <= cash'
                        /\ job' # NoJob /\ job'.side = "buy" => job'.size + FeeOf(job'.size) <= cash'
    BY DEF CashInv
  <2>4. (cached' => seen'.cash <= cash') /\ a.cash <= cash
    BY <1>2, <2>1, <2>2, <2>3
  <2>5. ASSUME job' # NoJob, job'.side = "buy"
        PROVE  job'.size + FeeOf(job'.size) <= cash'
    <3>1. job' \in JobSet /\ job'.size <= Spendable(a)
      BY <2>1, <2>5 DEF NewJob
    <3>2. job'.size \in Nat
      BY <3>1 DEF JobSet
    <3> DEFINE z == job'.size
    <3> HIDE DEF z
    <3>3. z + FeeOf(z) <= a.cash /\ FeeOf(z) \in Nat
      BY <2>1, <3>1, <3>2, Covered, FeeBounds DEF z
    <3>4. a.cash \in Nat
      BY <2>1 DEF AccountSet
    <3>5. z + FeeOf(z) <= cash'
      BY <1>1, <2>2, <2>4, <3>2, <3>3, <3>4 DEF z
    <3> QED
      BY <3>5 DEF z
  <2> QED
    BY <2>4, <2>5
<1>4. ASSUME Pass PROVE CashInv'
  <2>1. PICK a \in AccountSet :
          /\ Load(a) /\ job \in JobSet /\ job'.side = job.side /\ job'.size = job.size
          /\ UNCHANGED <<price, cash, qty, cost, orders, unheard>>
    BY <1>4, PassIs
  <2>2. job # NoJob
    BY <2>1, JobOrNone
  <2>3. SUFFICES ASSUME ~blind', unheard' = 0
                 PROVE  /\ cached' => seen'.cash <= cash'
                        /\ job' # NoJob /\ job'.side = "buy" => job'.size + FeeOf(job'.size) <= cash'
    BY DEF CashInv
  <2>4. (cached' => seen'.cash <= cash') /\ ~blind /\ unheard = 0
    BY <1>2, <2>1, <2>3
  <2>5. job.side = "buy" => job.size + FeeOf(job.size) <= cash
    BY <2>2, <2>4 DEF CashInv
  <2> QED
    BY <2>1, <2>4, <2>5
<1>5. ASSUME Refuse \/ MarkToMarket PROVE CashInv'
  <2>1. job' = NoJob /\ UNCHANGED <<cash, qty, cost, orders, unheard>>
    BY <1>5, NotJudged DEF Refuse, MarkToMarket
  <2>2. PICK a : Load(a)
    BY <1>5 DEF Refuse, MarkToMarket, Judge
  <2> QED
    BY <1>2, <2>1, <2>2 DEF CashInv
<1>6. ASSUME Answered \/ AnswerLost PROVE CashInv'
  <2>1. CASE Answered
    <3>1. cached' = FALSE /\ job' = NoJob
      BY <2>1 DEF Answered, Accept
    <3> QED
      BY <3>1 DEF CashInv
  <2>2. CASE AnswerLost
    <3>1. unheard' # 0
      BY <1>1, <2>2 DEF AnswerLost
    <3> QED
      BY <3>1 DEF CashInv
  <2> QED
    BY <1>6, <2>1, <2>2
<1>7. ASSUME cash' \in Nat, cash' >= cash, UNCHANGED <<seen, blind, unheard>>,
             cached' \in {cached, FALSE}, job' \in {job, NoJob}
      PROVE  CashInv'
  <2>1. SUFFICES ASSUME ~blind', unheard' = 0
                 PROVE  /\ cached' => seen'.cash <= cash'
                        /\ job' # NoJob /\ job'.side = "buy" => job'.size + FeeOf(job'.size) <= cash'
    BY DEF CashInv
  <2>2. /\ cached => seen.cash <= cash
        /\ job # NoJob /\ job.side = "buy" => job.size + FeeOf(job.size) <= cash
    BY <1>7, <2>1 DEF CashInv
  <2>3. cached' => seen'.cash <= cash'
    <3>1. cached' => cached
      BY <1>7
    <3>2. seen'.cash = seen.cash
      BY <1>7
    <3>3. seen.cash <= cash => seen.cash <= cash'
      BY <1>1, <1>7
    <3> QED
      BY <2>2, <3>1, <3>2, <3>3
  <2>4. ASSUME job' # NoJob, job'.side = "buy"
        PROVE  job'.size + FeeOf(job'.size) <= cash'
    <3>1. job' = job /\ job \in JobSet /\ job.size + FeeOf(job.size) <= cash
          /\ job.size + FeeOf(job.size) \in Nat
      BY <1>1, <1>7, <2>2, <2>4
    <3>2. job.size + FeeOf(job.size) <= cash'
      BY <1>1, <1>7, <3>1
    <3> QED
      BY <3>1, <3>2
  <2> QED
    BY <2>3, <2>4
<1>8. ASSUME NEW o \in orders, FillBuy(o) \/ FillSell(o) \/ Cancelled(o) PROVE CashInv'
  <2>1. UNCHANGED <<seen, blind, unheard, cached, job>>
    BY <1>8, ExchangeLeaves
  <2>2. cash' \in Nat /\ cash' >= cash
    BY <1>1, <1>8, FillBuyIs, FillSellIs, CancelledIs
  <2> QED
    BY <1>7, <2>1, <2>2
<1>9. ASSUME \/ \E s \in Symbol : Trade(s)
             \/ Declined \/ CacheExpires \/ NewDay \/ Crash \/ UNCHANGED vars
      PROVE  CashInv'
  <2>1. /\ cash' = cash /\ UNCHANGED <<seen, blind, unheard>>
        /\ job' \in {job, NoJob} /\ cached' \in {cached, FALSE}
    BY <1>9, QuietKeeps
  <2>2. cash' \in Nat /\ cash' >= cash
    BY <1>1, <2>1
  <2> QED
    BY <1>7, <2>1, <2>2
<1> QED
  BY <1>3, <1>4, <1>5, <1>6, <1>8, <1>9, NextSteps
-----------------------------------------------------------------------------
(* All of it, from the start.                                              *)
PositionInv ==
  /\ MoneyOK /\ PriceOK /\ CountOK
  /\ OrderInv /\ ExposureInv /\ LossInv /\ ExitInv

(* The types, at the start.                                                *)
LEMMA StartTyped ==
  ASSUME Init
  PROVE  MoneyOK /\ PriceOK /\ CountOK
<1>1. MoneyOK
  <2>1. cash \in Nat /\ IsFiniteSet({})
    BY AmountsAssumption, FS_EmptySet DEF Init
  <2>2. qty \in [Symbol -> Nat] /\ cost \in [Symbol -> Nat] /\ Nothing \in AccountSet
    BY DEF Init, Nothing, AccountSet
  <2> QED
    BY <2>1, <2>2 DEF Init, MoneyOK
<1>2. PriceOK
  <2>1. \A s \in Symbol : price[s] \in Price[s] /\ price[s] \in Nat
    BY AmountsAssumption DEF Init
  <2>2. price \in [Symbol -> Nat]
    BY <2>1 DEF Init
  <2> QED
    BY <2>1, <2>2 DEF Init, PriceOK
<1>3. CountOK
  <2>1. 0 \in 0 .. MaxOrders /\ 0 \in 0 .. MaxFaults /\ 0 \in 0 .. 0
    BY BoundsAssumption
  <2>2. FALSE \in BOOLEAN /\ "older" \in {"now", "filled", "older"}
    OBVIOUS
  <2>3. /\ accepted = 0 /\ faults = 0 /\ unheard = 0 /\ age = "older"
        /\ cached = FALSE /\ blind = FALSE
    BY DEF Init
  <2>4. accepted \in 0 .. MaxOrders /\ faults \in 0 .. MaxFaults /\ unheard \in 0 .. faults
    BY <2>1, <2>3
  <2>5. cached \in BOOLEAN /\ blind \in BOOLEAN /\ age \in {"now", "filled", "older"}
    BY <2>2, <2>3
  <2> QED
    BY <2>4, <2>5 DEF CountOK
<1> QED
  BY <1>1, <1>2, <1>3

(* The invariant, at the start.                                            *)
LEMMA StartInv ==
  ASSUME Init
  PROVE  PositionInv
<1>1. MoneyOK /\ PriceOK /\ CountOK
  BY StartTyped
<1>2. /\ orders = {} /\ job = NoJob /\ cached = FALSE /\ age = "older" /\ baseline = NoBaseline
      /\ unheard = 0 /\ MaxOpenOrders \in Nat
  BY BoundsAssumption DEF Init
<1>3. OrderInv
  <2>1. /\ Known(orders) = {} /\ orders \ Known(orders) = {} /\ Buys = {}
        /\ \A s \in Symbol : Known({o \in orders : o.symbol = s}) = {}
    BY <1>2 DEF Known, Buys
  <2>2. Cardinality({}) = 0
    BY FS_EmptySet
  <2> QED
    BY <1>2, <2>1, <2>2 DEF OrderInv, Judged, JudgedBuy
<1>4. AtRisk <= MaxExposure + Unseen
  <2>1. /\ BuySize(orders) \in Nat /\ CostSum \in Nat /\ Unseen \in Nat /\ MaxExposure \in Nat
        /\ AtRisk = CostSum + BuySize(orders) /\ BuySize(orders) <= Unseen
    BY <1>1, <1>3, BuysWithin
  <2>2. IsFiniteSet(Symbol) /\ \A s \in Symbol : cost[s] \in Nat /\ cost[s] <= 0
    BY BoundsAssumption DEF Init
  <2>3. CostSum <= Cardinality(Symbol) * 0
    BY <2>2, TotalAtMost DEF CostSum
  <2>4. Cardinality(Symbol) \in Nat
    BY <2>2, FS_CardinalityType
  <2> QED
    BY <2>1, <2>3, <2>4
<1>5. ExposureInv
  BY <1>2, <1>4 DEF ExposureInv, JudgedBuy, Judged
<1>6. LossInv
  BY <1>2 DEF LossInv, JudgedBuy, Judged
<1> QED
  BY <1>1, <1>2, <1>3, <1>5, <1>6 DEF PositionInv, ExitInv

(* The invariant always holds.                                             *)
LEMMA InvariantHolds == Spec => []PositionInv
<1>1. Init => PositionInv
  BY StartInv
<1>2. PositionInv /\ [Next]_vars => PositionInv'
  <2> SUFFICES ASSUME PositionInv, [Next]_vars
               PROVE  PositionInv'
    OBVIOUS
  <2>1. MoneyOK /\ PriceOK /\ CountOK /\ OrderInv /\ ExposureInv /\ LossInv /\ ExitInv
    BY DEF PositionInv
  <2>2. MoneyOK' /\ PriceOK' /\ CountOK'
    BY <2>1, TypesKept
  <2>3. OrderInv'
    BY <2>1, OrdersKept
  <2>4. ExposureInv'
    BY <2>1, RiskKept
  <2>5. LossInv'
    BY <2>1, LossKept
  <2>6. ExitInv'
    BY <2>1, ExitsKept
  <2> QED
    BY <2>2, <2>3, <2>4, <2>5, <2>6 DEF PositionInv
<1> QED
  BY <1>1, <1>2, PTL DEF Spec

(* Money, quantities and counters keep their types, and at most one order  *)
(* per symbol is open and on record (TypeOK; risk-engine.js:44).           *)
THEOREM TypeCorrect == Spec => []TypeOK
<1>1. PositionInv => TypeOK
  <2> SUFFICES ASSUME PositionInv PROVE TypeOK
    OBVIOUS
  <2>1. MoneyOK /\ PriceOK /\ CountOK /\ OrderInv
    BY DEF PositionInv
  <2>2. \A o \in orders : /\ o.symbol \in Symbol /\ o.side \in {"buy", "sell"}
                          /\ o.size \in Nat \ {0}
    BY <2>1 DEF MoneyOK, OrderSet
  <2>3. job = NoJob \/ job.symbol \in Symbol
    BY <2>1 DEF MoneyOK, JobSet
  <2>4. \A s \in Symbol : price[s] \in Price[s] /\ {peak[s], high[s]} \subseteq Price[s] \cup {0}
    BY <2>1 DEF PriceOK
  <2> QED
    BY <2>1, <2>2, <2>3, <2>4 DEF TypeOK, MoneyOK, CountOK, OrderInv
<1> QED
  BY <1>1, InvariantHolds, PTL

(* The money in positions and open BUYs exceeds maxExposureKrw by no more  *)
(* than one order per order that may be open, whatever the account that is *)
(* cached still misses (ExposureIsLimited; risk-engine.js:87).             *)
THEOREM ExposureLimited == Spec => []ExposureIsLimited
<1>1. PositionInv => ExposureIsLimited
  <2> SUFFICES ASSUME PositionInv, ~blind PROVE ExposureIsLimited
    BY DEF ExposureIsLimited
  <2>1. AtRisk <= MaxExposure + Unseen
    BY DEF PositionInv, ExposureInv
  <2>2. MapThenSumSet(LAMBDA s : cost[s], Symbol) = CostSum
    BY DEF CostSum, Total
  <2>3. orders \in SUBSET OrderSet /\ IsFiniteSet(orders)
    BY DEF PositionInv, MoneyOK
  <2>4. BuysOf(orders) \in SUBSET OrderSet /\ IsFiniteSet(BuysOf(orders))
    BY <2>3, Parts
  <2>5. SizeOf(BuysOf(orders)) = BuySize(orders)
    BY <2>4, SizeSum DEF BuySize
  <2>6. Buys = BuysOf(orders)
    BY DEF Buys, BuysOf
  <2>7. SizeOf(Buys) = BuySize(orders)
    BY <2>5, <2>6
  <2> QED
    BY <2>1, <2>2, <2>7 DEF ExposureIsLimited, AtRisk, Unseen
<1> QED
  BY <1>1, InvariantHolds, PTL

(* On an account just read, no BUY passes the rules once the day has lost  *)
(* maxDailyLossKrw (LossStopsEntries; resolveDailyPnl).                    *)
THEOREM LossStops == Spec => []LossStopsEntries
<1>1. PositionInv => LossStopsEntries
  BY DEF PositionInv, LossInv, LossStopsEntries, JudgedBuy, Judged
<1> QED
  BY <1>1, InvariantHolds, PTL

(* As long as the buffer is no smaller than the fee, a BUY and its fee are *)
(* covered by the cash no order has locked (BuyIsCovered;                  *)
(* resolveBuyAmountFromCash).                                              *)
THEOREM BuyCovered ==
  ASSUME Fee <= Buffer
  PROVE  Spec => []BuyIsCovered
<1>1. Init => CashInv
  BY DEF Init, CashInv
<1>2. PositionInv /\ CashInv /\ [Next]_vars => CashInv'
  BY CashKept DEF PositionInv
<1>3. PositionInv /\ CashInv => BuyIsCovered
  BY DEF PositionInv, CountOK, CashInv, BuyIsCovered
<1> QED
  BY <1>1, <1>2, <1>3, InvariantHolds, PTL DEF Spec

(* A stop that is due from the higher of two prices is due from the other. *)
LEMMA StopIsMonotone ==
  ASSUME NEW a, NEW s, NEW p \in Nat, NEW low \in Nat, NEW top \in Nat, low <= top,
         ShouldExit(a, s, p, low)
  PROVE  ShouldExit(a, s, p, top)
<1> DEFINE u == Higher(low, p)
           v == Higher(top, p)
           k == Whole - TrailingStop
<1>1. u \in Nat /\ v \in Nat /\ u <= v /\ k \in Nat
  BY SharesAssumption DEF Higher, Whole
<1> HIDE DEF u, v, k
<1>2. u * k <= v * k /\ u * k \in Nat /\ v * k \in Nat
  BY <1>1
<1>3. p * Whole <= u * k => p * Whole <= v * k
  BY <1>2 DEF Whole
<1>4. DropsBy(TrailingStop, Higher(low, p), p) => DropsBy(TrailingStop, Higher(top, p), p)
  BY <1>3 DEF DropsBy, u, v, k
<1> QED
  BY <1>4 DEF ShouldExit

(* A look at a price never leaves a due stop behind on a position that is  *)
(* worth the least SELL, also when the peak was kept from before a restart *)
(* (NoStopIsPassedOver; resolveProtectiveExit, trading-system.js:2497).    *)
THEOREM NoStopPassedOver == Spec => NoStopIsPassedOver
<1> DEFINE Looked ==
             \A s \in Symbol :
               ShouldExit(seen', s, price[s], high[s]) /\ Sellable(seen', s, price[s]) =>
                 blind' \/ ~(job' = NoJob /\ Tick(s))
<1>1. PositionInv /\ [Next]_vars => [Looked]_vars
  <2> SUFFICES ASSUME PositionInv, NEW s \in Symbol,
                      ShouldExit(seen', s, price[s], high[s]),
                      Sellable(seen', s, price[s]), Tick(s), ~blind'
               PROVE  job' # NoJob
    OBVIOUS
  <2>1. MoneyOK /\ PriceOK /\ CountOK
    BY DEF PositionInv
  <2>2. PICK a \in AccountSet :
          /\ Load(a)
          /\ ShouldExit(a, s, price[s], peak[s]) /\ Sellable(a, s, price[s]) => NewJob(a, s)
    BY <2>1, TickIs
  <2>3. a = seen'
    BY <2>1, <2>2, LoadIs
  <2>4. price[s] \in Nat /\ high[s] \in Nat /\ peak[s] \in Nat /\ high[s] <= peak[s]
    BY <2>1 DEF PriceOK
  <2>5. ShouldExit(a, s, price[s], peak[s])
    BY <2>3, <2>4, StopIsMonotone
  <2> QED
    BY <2>2, <2>3, <2>5, JobOrNone DEF NewJob
<1> QED
  BY <1>1, InvariantHolds, PTL DEF Spec, NoStopIsPassedOver

(* With p * q the worth of a holding q, an order for x pieces of it that   *)
(* leaves less than one decimal is large enough for the rules, or the      *)
(* decimal decides (risk-engine.js:58).                                    *)
LEMMA FlooredOrder ==
  ASSUME NEW x \in Nat \ {0}, NEW q \in Nat, NEW p \in Nat \ {0}, NEW l \in Nat \ {0},
         NEW least \in Nat, x <= q, q < x + l
  PROVE  /\ 0 < x * p /\ x * p <= q * p
         /\ \/ x * p >= least
            \/ q * p <= least /\ (x * p) * 20 >= (q * p) * 19
            \/ x * p < least /\ least < x * p + l * p
            \/ x < 19 * l
<1>1. x * p \in Nat \ {0} /\ q * p \in Nat /\ x * p <= q * p
  BY SMT
<1>2. q * p < x * p + l * p
  <2>1. q * p < (x + l) * p
    BY SMT
  <2>2. (x + l) * p = x * p + l * p
    BY SMT
  <2> QED
    BY <2>1, <2>2
<1>3. x >= 19 * l => (x * p) * 20 >= (q * p) * 19
  <2> SUFFICES ASSUME x >= 19 * l PROVE (x * p) * 20 >= (q * p) * 19
    OBVIOUS
  <2>1. x * 20 >= q * 19
    BY SMT
  <2>2. (x * 20) * p >= (q * 19) * p
    BY <2>1, SMT
  <2>3. (x * 20) * p = (x * p) * 20 /\ (q * 19) * p = (q * p) * 19
    BY SMT
  <2> QED
    BY <2>2, <2>3
<1>4. l * p \in Nat
  BY SMT
<1> QED
  BY <1>1, <1>2, <1>3, <1>4

(* A protective exit is refused only for the open orders, because the      *)
(* position has changed, or where the decimals cut off decide              *)
(* (ExitsPassTheRules; resolveSellOrderAmount, risk-engine.js:58).         *)
THEOREM ExitsPass == Spec => ExitsPassTheRules
<1> DEFINE Passed ==
             ExitRefused => AtOpenLimit(job.symbol) \/ Outdated \/ FlooringDecides
<1>1. PositionInv /\ [Next]_vars => [Passed]_vars
  <2> SUFFICES ASSUME PositionInv, job # NoJob, job.cause = "exit", Refuse,
                      ~AtOpenLimit(job.symbol), Floored(seen'.qty[job.symbol]) = job.size,
                      ~FlooringDecides
               PROVE  FALSE
    BY DEF ExitRefused, Outdated
  <2>1. MoneyOK /\ CountOK /\ job.side = "sell" /\ job \in JobSet
    BY DEF PositionInv, ExitInv, MoneyOK
  <2>2. PICK a \in {seen, Account} : Judge(a) /\ ~Allowed(a)
    BY DEF Refuse
  <2>3. a = seen' /\ a \in AccountSet
    BY <2>1, <2>2, JudgeIs, LoadIs
  <2> DEFINE x == job.size
             q == a.qty[job.symbol]
             p == job.price
             least == AppliedMin * Scale
  <2>4. x \in Nat \ {0} /\ q \in Nat /\ p \in Nat \ {0} /\ least \in Nat /\ Lot \in Nat \ {0}
    <3>1. AppliedMin \in Nat /\ Scale \in Nat
      BY AmountsAssumption DEF AppliedMin, Higher
    <3> QED
      BY <2>1, <2>3, <3>1, AmountsAssumption DEF JobSet, AccountSet
  <2>5. x <= q /\ q < x + Lot
    BY <2>3, <2>4, FlooredIs
  <2>6. OpenValue(a, job.symbol, job.price) = q * p /\ Worth = x * p
    BY <2>1 DEF OpenValue, Worth
  <2>7. ~(x * p < least /\ least < x * p + Lot * p) /\ ~(x < 19 * Lot)
    BY <2>6 DEF FlooringDecides
  <2> HIDE DEF x, q, p, least
  <2>8. /\ 0 < x * p /\ x * p <= q * p
        /\ x * p >= least \/ (q * p <= least /\ (x * p) * 20 >= (q * p) * 19)
    BY <2>4, <2>5, <2>7, FlooredOrder
  <2>9. 0 < q * p
    <3>1. x * p \in Nat /\ q * p \in Nat
      BY <2>4
    <3> QED
      BY <2>8, <3>1
  <2>10. Worth >= AppliedMin * Scale \/ DustLiquidation(a)
    BY <2>1, <2>6, <2>8, <2>9 DEF DustLiquidation, least
  <2>11. 0 < Worth /\ Worth <= OpenValue(a, job.symbol, job.price)
    BY <2>6, <2>8
  <2> QED
    BY <2>1, <2>2, <2>10, <2>11 DEF Allowed
<1> QED
  BY <1>1, InvariantHolds, PTL DEF Spec, ExitsPassTheRules
=============================================================================

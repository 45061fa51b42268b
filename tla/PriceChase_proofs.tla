-------------------------- MODULE PriceChase_proofs -------------------------
(***************************************************************************)
(* The reach of the price chase, for every price, quote, buffer, step,     *)
(* offset and number of retries.                                           *)
(***************************************************************************)
EXTENDS PriceChase, TLAPS

\* The command's own price stays within the bounds stated of its orders.
PriceWithinReach ==
  LET base(q) == NoFurther(price, Plus(q, Step * retries))
  IN  base(initial) \/ (peak # NoMarket /\ base(Plus(peak, Buffer)))

PriceCapped == peak = NoMarket => NoFurther(price, Plus(initial, Offset))

IInv ==
  /\ TypeOK
  /\ NeverShyOfInitial
  /\ PriceWithinReach
  /\ WithinReach
  /\ PriceCapped
  /\ CapWithoutMarket

\* Every retry adds one step to the reach.
LEMMA OneStepMore ==
  ASSUME NEW n \in Nat
  PROVE  /\ Step * n \in Nat
         /\ Step * (n + 1) = Step * n + Step
  BY ChaseConstants

\* Every step keeps the bounds of the price and of the limits placed.
LEMMA StepIInv == IInv /\ [Next]_vars => IInv'
<1> SUFFICES ASSUME IInv, [Next]_vars PROVE IInv'
  OBVIOUS
<1>0. /\ side \in {"B", "S"} /\ initial \in InitialPrices /\ initial \in Int
      /\ price \in Int /\ limit \in Int /\ retries \in Nat
      /\ peak = NoMarket \/ (peak \in Int /\ peak \in Quotes)
      /\ Buffer \in Nat /\ Step \in Nat /\ Offset \in Nat /\ NoMarket \notin Int
  BY ChaseConstants DEF IInv, TypeOK, Markets
<1>1. Step * retries \in Nat /\ Step * (retries + 1) = Step * retries + Step
  BY <1>0, OneStepMore
<1>2. ASSUME NEW m \in Markets, PlaceLeg(m) PROVE IInv'
  <2>0. /\ UNCHANGED <<side, initial, price, retries>>
        /\ limit' = ChaseLimitPrice(side, price, m)
        /\ peak' = Further(side, peak, m)
        /\ m = NoMarket \/ m \in Int
    BY <1>2, ChaseConstants DEF PlaceLeg, Markets
  <2>1. TypeOK'
    BY <1>0, <1>2, <2>0 DEF IInv, TypeOK, PlaceLeg, ChaseLimitPrice, Further,
       Larger, Smaller, Markets
  <2>2. CASE side = "B"
    <3>1. limit' = IF m = NoMarket THEN price ELSE Larger(price, m + Buffer)
      BY <2>0, <2>2 DEF ChaseLimitPrice
    <3>2. /\ m = NoMarket => peak' = peak
          /\ m # NoMarket => peak' \in Int /\ peak' >= m
          /\ peak # NoMarket => peak' \in Int /\ peak' >= peak
      BY <1>0, <2>0, <2>2 DEF Further, Larger
    <3> QED BY <1>0, <1>1, <2>0, <2>1, <2>2, <3>1, <3>2
            DEF IInv, NeverShyOfInitial, PriceWithinReach, WithinReach,
                PriceCapped, CapWithoutMarket, NoFurther, Plus, Larger
  <2>3. CASE side = "S"
    <3>1. limit' = IF m = NoMarket THEN price ELSE Smaller(price, m - Buffer)
      BY <2>0, <2>3 DEF ChaseLimitPrice
    <3>2. /\ m = NoMarket => peak' = peak
          /\ m # NoMarket => peak' \in Int /\ peak' <= m
          /\ peak # NoMarket => peak' \in Int /\ peak' <= peak
      BY <1>0, <2>0, <2>3 DEF Further, Smaller
    <3> QED BY <1>0, <1>1, <2>0, <2>1, <2>3, <3>1, <3>2
            DEF IInv, NeverShyOfInitial, PriceWithinReach, WithinReach,
                PriceCapped, CapWithoutMarket, NoFurther, Plus, Smaller
  <2> QED BY <1>0, <2>2, <2>3
<1>3. ASSUME NEW m \in Markets, Retry(m) PROVE IInv'
  <2>0. /\ UNCHANGED <<side, initial, limit>> /\ retries' = retries + 1
        /\ price' = NextChasePrice(side, price, initial, m)
        /\ peak' = Further(side, peak, m)
        /\ m = NoMarket \/ m \in Int
    BY <1>3, ChaseConstants DEF Retry, Markets
  <2>1. TypeOK'
    BY <1>0, <1>3, <2>0, ChaseConstants DEF IInv, TypeOK, Retry, NextChasePrice,
       NextBuyPrice, NextSellPrice, Further, Larger, Smaller, Markets
  <2>2. CASE side = "B"
    <3>1. price' = NextBuyPrice(price, initial, m)
      BY <2>0, <2>2 DEF NextChasePrice
    <3>2. /\ m = NoMarket => peak' = peak
          /\ m # NoMarket => peak' \in Int /\ peak' >= m
          /\ peak # NoMarket => peak' \in Int /\ peak' >= peak
      BY <1>0, <2>0, <2>2 DEF Further, Larger
    <3> QED BY <1>0, <1>1, <2>0, <2>1, <2>2, <3>1, <3>2
            DEF IInv, NeverShyOfInitial, PriceWithinReach, WithinReach,
                PriceCapped, CapWithoutMarket, NoFurther, Plus, Larger,
                Smaller, NextBuyPrice
  <2>3. CASE side = "S"
    <3>1. price' = NextSellPrice(price, initial, m)
      BY <2>0, <2>3 DEF NextChasePrice
    <3>2. /\ m = NoMarket => peak' = peak
          /\ m # NoMarket => peak' \in Int /\ peak' <= m
          /\ peak # NoMarket => peak' \in Int /\ peak' <= peak
      BY <1>0, <2>0, <2>3 DEF Further, Smaller
    <3> QED BY <1>0, <1>1, <2>0, <2>1, <2>3, <3>1, <3>2
            DEF IInv, NeverShyOfInitial, PriceWithinReach, WithinReach,
                PriceCapped, CapWithoutMarket, NoFurther, Plus, Larger,
                Smaller, NextSellPrice
  <2> QED BY <1>0, <2>2, <2>3
<1>4. CASE ShrinkQty \/ UNCHANGED vars
  BY <1>4 DEF ShrinkQty, vars, IInv, TypeOK, NeverShyOfInitial, PriceWithinReach,
     WithinReach, PriceCapped, CapWithoutMarket, NoFurther, Plus
<1> QED BY <1>2, <1>3, <1>4 DEF Next

\* The bounds hold in every reachable state.
LEMMA Invariance == Spec => []IInv
<1>1. Init => IInv
  <2> SUFFICES ASSUME Init PROVE IInv
    OBVIOUS
  <2>1. initial \in Int /\ Step * 0 = 0
    BY ChaseConstants DEF Init
  <2> QED BY <2>1, ChaseConstants DEF Init, IInv, TypeOK, Markets, NeverShyOfInitial,
             PriceWithinReach, WithinReach, PriceCapped, CapWithoutMarket,
             NoFurther, Plus
<1> QED BY <1>1, StepIInv, PTL DEF Spec

\* Every variable stays in its domain: retries never pass their limit.
THEOREM TypeCorrect == Spec => []TypeOK
<1>1. IInv => TypeOK
  BY DEF IInv
<1> QED BY <1>1, Invariance, PTL

\* No order is placed short of the command's price (fubon_api.py:1070-1122).
THEOREM OrdersNeverShy == Spec => []NeverShyOfInitial
<1>1. IInv => NeverShyOfInitial
  BY DEF IInv
<1> QED BY <1>1, Invariance, PTL

\* How far the chase can go, whatever quotes it meets.
THEOREM ChaseIsBounded == Spec => []WithinReach
<1>1. IInv => WithinReach
  BY DEF IInv
<1> QED BY <1>1, Invariance, PTL

\* Without quotes PRICE_RETRY_LIMIT_OFFSET is a hard cap.
THEOREM CapHoldsWithoutMarket == Spec => []CapWithoutMarket
<1>1. IInv => CapWithoutMarket
  BY DEF IInv
<1> QED BY <1>1, Invariance, PTL

\* The sell branch of the chase is the buy branch with every sign changed.
THEOREM BranchesMirror == Spec => []SellMirrorsBuy
<1>1. IInv => SellMirrorsBuy
  <2> SUFFICES ASSUME IInv, NEW m \in Quotes
               PROVE  /\ NextSellPrice(price, initial, m)
                           = 0 - NextBuyPrice(0 - price, 0 - initial, 0 - m)
                      /\ NextSellPrice(price, initial, NoMarket)
                           = 0 - NextBuyPrice(0 - price, 0 - initial, NoMarket)
                      /\ ChaseLimitPrice("S", price, m)
                           = 0 - ChaseLimitPrice("B", 0 - price, 0 - m)
    BY DEF SellMirrorsBuy
  <2>1. price \in Int /\ initial \in Int /\ m \in Int /\ 0 - m # NoMarket /\ m # NoMarket
    BY ChaseConstants DEF IInv, TypeOK
  <2> QED BY <2>1, ChaseConstants DEF NextSellPrice, NextBuyPrice,
             ChaseLimitPrice, Larger, Smaller
<1> QED BY <1>1, Invariance, PTL
=============================================================================

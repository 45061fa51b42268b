----------------------------- MODULE PriceChase -----------------------------
(***************************************************************************)
(* The limit price of a CloseAndBuy or CloseAndSell command in             *)
(* fubon_api.py: every leg is placed at a price chased to the market       *)
(* (_chase_limit_price), and every retry moves the command's own price     *)
(* (_next_chase_price).                                                    *)
(*                                                                         *)
(* The market is the market_price of a position of the product, so there   *)
(* is none while the account is flat or the query fails: each look at it   *)
(* returns a new quote or NoMarket.  Prices are whole points.              *)
(***************************************************************************)
EXTENDS Integers

CONSTANTS
  InitialPrices,  \* prices a command may come with
  Quotes,         \* whole points the market may stand at
  NoMarket,       \* _get_market_ref_price returned None
  Buffer,         \* PRICE_CHASE_BUFFER (30)
  Step,           \* PRICE_RETRY_STEP (50)
  Offset,         \* PRICE_RETRY_LIMIT_OFFSET (200)
  MaxRetries      \* CLOSE_OPEN_MAX_OUTER_RETRY (5)

ASSUME ChaseConstants ==
  /\ InitialPrices \subseteq Int /\ Quotes \subseteq Int
  /\ NoMarket \notin Int
  /\ Buffer \in Nat /\ Step \in Nat /\ Offset \in Nat /\ MaxRetries \in Nat

Markets == Quotes \union {NoMarket}

VARIABLES
  side,     \* "B" for CloseAndBuy, "S" for CloseAndSell
  initial,  \* the price of the command
  price,    \* the price of this attempt
  limit,    \* the limit of the last order placed
  legs,     \* legs of this attempt placed so far: closing, then opening
  retries,  \* NeedRetryErrors so far
  peak      \* history: the quote furthest in the command's direction, if any

vars == <<side, initial, price, limit, legs, retries, peak>>

Larger(a, b) == IF a > b THEN a ELSE b
Smaller(a, b) == IF a < b THEN a ELSE b

\* Mutant of ChaseLimitPrice: the buffer is added to the command's price too.
ChaseThenBuffer(s, p, m) ==
  IF m = NoMarket THEN p
  ELSE IF s = "B" THEN Larger(p, m) + Buffer ELSE Smaller(p, m) - Buffer

\* _chase_limit_price
ChaseLimitPrice(s, p, m) ==
  IF m = NoMarket THEN p
  ELSE IF s = "B" THEN Larger(p, m + Buffer) ELSE Smaller(p, m - Buffer)

\* Mutant of NextBuyPrice: the soft cap is taken from the current price.
NextBuyUncapped(p, first, m) ==
  LET stepped == IF m = NoMarket THEN p + Step ELSE Larger(p + Step, m + Buffer)
  IN  Smaller(stepped, p + Offset)

\* The two branches of _next_chase_price.
NextBuyPrice(p, first, m) ==
  LET stepped == IF m = NoMarket THEN p + Step ELSE Larger(p + Step, m + Buffer)
      softCap == first + Offset
  IN  IF m # NoMarket /\ stepped > softCap THEN stepped
      ELSE Smaller(stepped, softCap)

\* Mutant of NextSellPrice: a step in the direction of a buyer.
NextSellUp(p, first, m) ==
  LET stepped == IF m = NoMarket THEN p + Step ELSE Smaller(p + Step, m - Buffer)
      softFloor == first - Offset
  IN  IF m # NoMarket /\ stepped < softFloor THEN stepped
      ELSE Larger(stepped, softFloor)

NextSellPrice(p, first, m) ==
  LET stepped == IF m = NoMarket THEN p - Step ELSE Smaller(p - Step, m - Buffer)
      softFloor == first - Offset
  IN  IF m # NoMarket /\ stepped < softFloor THEN stepped
      ELSE Larger(stepped, softFloor)

NextChasePrice(s, p, first, m) ==
  IF s = "B" THEN NextBuyPrice(p, first, m) ELSE NextSellPrice(p, first, m)

\* The furthest quote after seeing m.
Further(s, f, m) ==
  CASE m = NoMarket -> f
    [] m # NoMarket /\ f = NoMarket -> m
    [] OTHER -> IF s = "B" THEN Larger(f, m) ELSE Smaller(f, m)

-----------------------------------------------------------------------------
Init ==
  /\ side \in {"B", "S"} /\ initial \in InitialPrices
  /\ price = initial /\ limit = initial
  /\ legs = 0 /\ retries = 0 /\ peak = NoMarket

\* A leg is placed at the chased price.
PlaceLeg(m) ==
  /\ legs < 2
  /\ limit' = ChaseLimitPrice(side, price, m)
  /\ legs' = legs + 1
  /\ peak' = Further(side, peak, m)
  /\ UNCHANGED <<side, initial, price, retries>>

\* Mutant of Retry: one retry too many.
RetryOnceMore(m) ==
  /\ legs > 0 /\ retries <= MaxRetries
  /\ price' = NextChasePrice(side, price, initial, m)
  /\ retries' = retries + 1
  /\ legs' = 0
  /\ peak' = Further(side, peak, m)
  /\ UNCHANGED <<side, initial, limit>>

\* NeedRetryError: a new attempt at a new price.
Retry(m) ==
  /\ legs > 0 /\ retries < MaxRetries
  /\ price' = NextChasePrice(side, price, initial, m)
  /\ retries' = retries + 1
  /\ legs' = 0
  /\ peak' = Further(side, peak, m)
  /\ UNCHANGED <<side, initial, limit>>

\* NotEnoughMoneyError: a new attempt with one lot less at the same price.
ShrinkQty == legs > 0 /\ legs' = 0 /\ UNCHANGED <<side, initial, price, limit, retries, peak>>

Next ==
  \/ \E m \in Markets : PlaceLeg(m) \/ Retry(m)
  \/ ShrinkQty

Spec == Init /\ [][Next]_vars

-----------------------------------------------------------------------------
(* Properties.                                                             *)

TypeOK ==
  /\ side \in {"B", "S"} /\ initial \in InitialPrices
  /\ price \in Int /\ limit \in Int
  /\ legs \in 0..2 /\ retries \in 0..MaxRetries
  /\ peak \in Markets

\* a is at most as far in the direction of the command as b: no order at a
\* pays more, or asks less, than one at b.
NoFurther(a, b) == IF side = "B" THEN a <= b ELSE a >= b

\* n points further than p.
Plus(p, n) == IF side = "B" THEN p + n ELSE p - n

\* Whatever the market does and however often its quote is missing, no order
\* is placed at a price worse for filling than the one the command came with.
NeverShyOfInitial == NoFurther(initial, limit) /\ NoFurther(initial, price)

\* An order is never placed further than the furthest quote calls for, or
\* the command's own price, plus one step per retry: quotes that jump back
\* and forth do not add up.
WithinReach ==
  LET base(q) == NoFurther(limit, Plus(q, Step * retries))
  IN  base(initial) \/ (peak # NoMarket /\ base(Plus(peak, Buffer)))

\* Without a single quote no order is placed past the soft cap.
CapWithoutMarket == peak = NoMarket => NoFurther(limit, Plus(initial, Offset))

\* The sell branch is the buy branch with the sign of every price changed.
SellMirrorsBuy ==
  \A m \in Quotes :
    /\ NextSellPrice(price, initial, m)
         = 0 - NextBuyPrice(0 - price, 0 - initial, 0 - m)
    /\ NextSellPrice(price, initial, NoMarket)
         = 0 - NextBuyPrice(0 - price, 0 - initial, NoMarket)
    /\ ChaseLimitPrice("S", price, m) = 0 - ChaseLimitPrice("B", 0 - price, 0 - m)
=============================================================================

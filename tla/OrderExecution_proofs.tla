------------------------ MODULE OrderExecution_proofs -----------------------
(***************************************************************************)
(* What OrderExecution guarantees for every quantity, cap, batch size,     *)
(* retry limit and starting book: first whatever the faults, then without  *)
(* lost cancels, then in a calm run, in which the book is never misread.   *)
(***************************************************************************)
EXTENDS OrderExecution, WellFoundedInduction, TLAPS

\* A leg has something left to place exactly while it places.
LegShape ==
  /\ pc \in {"close", "open"} => todo > 0
  /\ pc \in {"checkclose", "checkopen"} => todo = 0

\* A closing leg faces a position; an opening leg was planned on a snapshot
\* with no position against it or after that position was closed.
LegSide ==
  /\ Closing => Toward(seen, seen) < 0
  /\ Opening => cmd.kind # "MAYDAY"

\* Shrinking the quantity stops at one lot.
QtyStaysPositive ==
  (pc \notin {"idle", "done"} /\ (cmd.kind = "BUY" \/ cmd.qty > 0)) => qty > 0

\* A command gives up lots and takes none back.
QtyOnlyShrinks == pc \notin {"idle", "done"} => qty <= cmd.qty

\* A BUY without a cap keeps its quantity until it first acts, has acted in its
\* legs, and places what fits in one batch at once.
UncappedShape ==
  Uncapped => /\ pc \notin {"idle", "done"} /\ base = -1 => qty = cmd.qty
              /\ Closing \/ Opening => base # -1
              /\ pc = "open" /\ cmd.qty <= BatchQty => todo = qty

\* What holds whatever the faults.
Shape ==
  TypeOK /\ LegShape /\ LegSide /\ QtyStaysPositive /\ QtyOnlyShrinks /\ UncappedShape

\* After the cancels nothing works until the command places its own orders.
FreshIsClear ==
  pc \in {"positions", "orders"} /\ snapshot = "fresh" => buying = 0 /\ selling = 0

\* What holds as long as every cancel succeeds.
CrossInv == Shape /\ FreshIsClear /\ NoCrossing

\* The faults that let a command act on a book it has misread are absent:
\* no move between the two queries of a snapshot, no cancel that is lost, no
\* failed refresh, no accepted order whose answer is lost.  Rejections, failed
\* sends and queries, reconnects, margin shortages, withdrawn orders and fills
\* at any other moment remain.
Calm == Faults \cap {"skew", "cancel_error", "refresh_error", "lost_ack"} = {}

\* A snapshot is the book it was taken of, and after the cancels nothing works.
SnapshotIsTrue ==
  /\ pc = "orders" => seen = pos
  /\ pc \in {"positions", "orders"} /\ snapshot = "fresh" => buying = 0 /\ selling = 0

\* A BUY without a cap that starts over has room for what it will buy again.
StartsOver == Uncapped /\ base # -1 /\ pc \in {"positions", "orders", "cancel"}

RestartIsCounted == StartsOver => pos + buying + qty <= Target + Uncounted

IInv ==
  /\ TypeOK
  /\ SnapshotIsTrue
  /\ LegShape
  /\ LegSide
  /\ QtyStaysPositive
  /\ QtyOnlyShrinks
  /\ UncappedShape
  /\ RestartIsCounted
  /\ NoOvershoot
  /\ NoCrossing

-----------------------------------------------------------------------------
\* What the prover needs to know of the command.
LEMMA CommandFacts ==
  ASSUME TypeOK
  PROVE  /\ cmd.kind \in Kinds /\ cmd.qty \in Int /\ cmd.cap \in Nat /\ cmd.limit \in BOOLEAN
         /\ cmd.dry \in BOOLEAN
  BY OrderConstants DEF TypeOK, CommandType

\* Sides and quantities are what their names say.
LEMMA SideFacts ==
  ASSUME TypeOK, NEW p \in Int, NEW n \in Int
  PROVE  /\ Side(p) \in {"B", "S"}
         /\ Toward(p, n) = n \/ Toward(p, n) = 0 - n
         /\ Held(p) \in Nat /\ Against(p) \in Nat
         /\ Held(p) = 0 \/ Against(p) = 0
         /\ Held(p) - Against(p) = Toward(p, p)
         /\ OpenLots(p) \in Nat
  BY CommandFacts DEF Side, Toward, Held, Against, AtLeast0, OpenLots, Lesser, Kinds, TypeOK

-----------------------------------------------------------------------------
(* Type correctness, whatever the faults.                                  *)

\* The moves a step ends with.
Move(p) ==
  \/ Finish("ok") \/ Finish("fail") \/ Leg("cancel", 0)
  \/ CloseLeg(p) \/ OpenLeg(p) \/ NeedRetry \/ NotEnoughMoney

\* Ending, restarting and starting a leg keep the variables in their domains.
LEMMA MoveTypes ==
  ASSUME TypeOK, NEW p \in Int, Move(p)
  PROVE  /\ pc' \in {"positions", "cancel", "close", "open", "done"}
         /\ qty' \in Int
         /\ retries' \in 0..(CloseOpenRetries + MayDayRetries + 1)
         /\ snapshot' \in {"first", "fresh"}
         /\ todo' \in Nat /\ placed' \in Nat
         /\ sends' \in 0..(PlaceRetries + 1) /\ reconnects' \in 0..1
         /\ result' \in {"none", "ok", "fail"}
<1>0. /\ cmd.kind \in Kinds
      /\ Against(p) \in Nat /\ OpenLots(p) \in Nat
  BY CommandFacts, SideFacts
<1> USE <1>0, OrderConstants DEF TypeOK
<1>1. CASE Finish("ok") \/ Finish("fail")
  BY <1>1 DEF Finish
<1>2. CASE Leg("cancel", 0)
  BY <1>2 DEF Leg
<1>3. CASE OpenLeg(p)
  BY <1>3 DEF OpenLeg, Finish, Leg
<1>4. CASE CloseLeg(p)
  BY <1>4 DEF CloseLeg, OpenLeg, Finish, Leg
<1>5. CASE NeedRetry
  BY <1>5 DEF NeedRetry, Finish, StartOver, NextRetry, Kinds
<1>6. CASE NotEnoughMoney
  BY <1>6 DEF NotEnoughMoney, Finish, StartOver
<1> QED BY <1>1, <1>2, <1>3, <1>4, <1>5, <1>6 DEF Move

\* Every step keeps the variables in their domains.
LEMMA TypeStep == TypeOK /\ [Next]_vars => TypeOK'
<1> SUFFICES ASSUME TypeOK, [Next]_vars PROVE TypeOK'
  OBVIOUS
<1> USE OrderConstants DEF Inject, book, plan, trader
<1>1. ASSUME NEW c \in Commands, Begin(c) PROVE TypeOK'
  <2>1. c.qty \in Int
    BY DEF CommandType
  <2> QED BY <1>1, <2>1 DEF Begin, TypeOK
<1>2. CASE ReadPositions
  BY <1>2 DEF ReadPositions, TypeOK
<1>3. CASE ReadOrders
  <2>1. seen \in Int /\ Held(seen) \in Nat
    BY SideFacts DEF TypeOK
  <2>2. Move(seen)
    BY <1>3 DEF ReadOrders, ActOn, Move
  <2>3. base' \in Nat \cup {-1}
    BY <1>3, <2>1 DEF ReadOrders, ActOn, TypeOK
  <2> QED BY <1>3, <2>1, <2>2, <2>3, MoveTypes DEF ReadOrders, TypeOK
<1>4. CASE QueryFails
  <2>1. PICK p \in {seen, 0} : seen' = p /\ Move(p)
    BY <1>4 DEF QueryFails, ActOn, Move
  <2>2. p \in Int /\ Held(0) \in Nat
    BY <2>1, SideFacts DEF TypeOK
  <2>3. base' \in Nat \cup {-1}
    BY <1>4, <2>2 DEF QueryFails, ActOn, TypeOK
  <2> QED BY <1>4, <2>1, <2>2, <2>3, MoveTypes DEF QueryFails, TypeOK
<1>5. CASE CancelTrades
  BY <1>5 DEF CancelTrades, Kept, TypeOK
<1>6. CASE PlaceAccepted
  <2>1. Batch \in Nat /\ todo - Batch \in Nat
    BY DEF Batch, Lesser, TypeOK
  <2> QED BY <1>6, <2>1 DEF PlaceAccepted, Placing, Booked, Advance, TypeOK, book
<1>7. CASE MarginShort
  <2>1. Move(0)
    BY <1>7 DEF MarginShort, Move
  <2> QED BY <1>7, <2>1, MoveTypes DEF MarginShort, Placing, TypeOK
<1>8. CASE PlaceRejected
  <2>1. Move(0)
    BY <1>8 DEF PlaceRejected, Move
  <2> QED BY <1>8, <2>1, MoveTypes DEF PlaceRejected, Placing, TypeOK
<1>9. CASE PlaceRaises \/ PlaceReconnects
  <2>1. Batch \in Nat
    BY DEF Batch, Lesser, TypeOK
  <2>2. buying' \in Nat /\ selling' \in Nat /\ UNCHANGED <<pos, dead>>
    BY <1>9, <2>1 DEF PlaceRaises, PlaceReconnects, Booked, TypeOK
  <2>3. UNCHANGED <<cmd, seen, base, left>> /\ faults' = faults + 1
    BY <1>9 DEF PlaceRaises, PlaceReconnects, Placing
  <2>4. CASE \E r \in 0..1 : SendAgain(r)
    BY <2>2, <2>3, <2>4 DEF SendAgain, Finish, TypeOK
  <2>5. CASE ~\E r \in 0..1 : SendAgain(r)
    <3>1. ~PlaceRaises
      BY <2>5 DEF PlaceRaises, TypeOK
    <3> QED BY <1>9, <2>2, <2>3, <2>5, <3>1 DEF PlaceReconnects, TypeOK
  <2> QED BY <2>4, <2>5
<1>11. CASE CheckPasses
  <2>1. CASE placed > 1
    BY <1>11, <2>1 DEF CheckPasses, Checking, TypeOK
  <2>2. CASE ~(placed > 1)
    <3>1. seen \in Int
      BY DEF TypeOK
    <3>2. Move(seen)
      BY <1>11, <2>2 DEF CheckPasses, Move
    <3> QED BY <1>11, <3>1, <3>2, MoveTypes DEF CheckPasses, Checking, TypeOK
  <2> QED BY <2>1, <2>2
<1>12. CASE CheckRaises
  <2>1. Move(0)
    BY <1>12 DEF CheckRaises, Move
  <2> QED BY <1>12, <2>1, MoveTypes DEF CheckRaises, Checking, TypeOK
<1>13. CASE Fill
  BY <1>13 DEF Fill, Moves, TypeOK
<1>14. CASE Withdraw
  <2>1. dead' \in BOOLEAN
    BY <1>14, Zenon DEF Withdraw, TypeOK
  <2> QED BY <1>14, <2>1 DEF Withdraw, Moves, TypeOK
<1>15. CASE UNCHANGED vars
  BY <1>15 DEF vars, TypeOK
<1> QED
  BY <1>1, <1>2, <1>3, <1>4, <1>5, <1>6, <1>7, <1>8, <1>9, <1>11, <1>12,
     <1>13, <1>14, <1>15 DEF Next, TraderStep

\* Every reachable state is well typed, whatever faults are injected.
THEOREM TypeCorrect == Spec => []TypeOK
<1>1. Init => TypeOK
  <2> SUFFICES ASSUME Init PROVE TypeOK
    OBVIOUS
  <2>1. pos \in Int /\ buying \in Nat /\ selling \in Nat
    BY OrderConstants DEF Init
  <2>2. cmd \in Commands /\ qty \in Int
    BY OrderConstants DEF Init, CommandType
  <2>3. dead \in BOOLEAN
    BY DEF Init
  <2> QED BY <2>1, <2>2, <2>3, OrderConstants DEF Init, TypeOK
<1> QED BY <1>1, TypeStep, PTL DEF Spec

-----------------------------------------------------------------------------
(* The shape of a command, whatever the faults.                            *)

\* The moves a step ends with start a leg with something in it, against a
\* position when it closes, and never give up the last lot.
LEMMA MoveShape ==
  ASSUME Shape, TypeOK', UNCHANGED cmd, pc \notin {"idle", "done"}, Move(seen')
  PROVE  LegShape' /\ LegSide' /\ QtyStaysPositive'
<1> USE DEF Shape
<1>0. /\ cmd.kind \in Kinds /\ cmd.qty \in Int /\ qty \in Int /\ seen' \in Int
      /\ cmd'.kind = cmd.kind
  BY CommandFacts DEF TypeOK
<1>1. CASE pc' = "done"
  BY <1>1 DEF LegShape, LegSide, QtyStaysPositive, Closing, Opening
<1>2. CASE Leg("cancel", 0)
  BY <1>2 DEF Leg, LegShape, LegSide, QtyStaysPositive, Closing, Opening
<1>3. CASE NeedRetry \/ NotEnoughMoney
  <2>1. CASE pc' # "done"
    <3>1. pc' = "positions"
      BY <1>3, <2>1 DEF NeedRetry, NotEnoughMoney, Finish, StartOver
    <3>2. cmd.kind = "BUY" \/ cmd.qty > 0 => qty' > 0
      BY <1>0, <1>3, <2>1 DEF NeedRetry, NotEnoughMoney, Finish, StartOver,
         QtyStaysPositive, Kinds
    <3> QED BY <3>1, <3>2 DEF LegShape, LegSide, QtyStaysPositive, Closing, Opening
  <2> QED BY <1>1, <2>1
<1>4. CASE pc' # "done" /\ (CloseLeg(seen') \/ OpenLeg(seen'))
  <2>1. /\ \/ pc' = "close" /\ Against(seen') > 0 /\ todo' = Against(seen')
           \/ pc' = "open" /\ OpenLots(seen') > 0 /\ todo' = OpenLots(seen')
        /\ qty' = qty
    BY <1>4 DEF CloseLeg, OpenLeg, Leg, Finish
  <2>2. pc' = "close" => Toward(seen, seen)' < 0
    <3>1. Toward(seen', seen') \in Int
      BY <1>0 DEF Toward
    <3>2. Toward(seen, seen)' = Toward(seen', seen')
      BY <1>0 DEF Toward, Side
    <3> QED BY <2>1, <3>1, <3>2 DEF Against, AtLeast0
  <2>3. pc' = "open" => cmd.kind # "MAYDAY"
    BY <2>1 DEF OpenLots
  <2> QED BY <1>0, <2>1, <2>2, <2>3 DEF LegShape, LegSide, QtyStaysPositive, Closing, Opening
<1> QED BY <1>1, <1>2, <1>3, <1>4 DEF Move, Finish

\* They never raise the quantity, and a BUY without a cap gives up no lot before
\* it has acted.
LEMMA MoveQty ==
  ASSUME Shape, TypeOK', UNCHANGED cmd, pc \notin {"idle", "done"}, Move(seen'),
         \/ ActOn(seen')
         \/ UNCHANGED base /\ (Closing \/ Opening \/ pc' = "done" \/ Leg("cancel", 0))
  PROVE  QtyOnlyShrinks' /\ UncappedShape'
<1> USE DEF Shape
<1>0. /\ cmd.kind \in Kinds /\ cmd.qty \in Int /\ qty \in Int /\ seen' \in Int
      /\ base \in Nat \cup {-1} /\ base' \in Nat \cup {-1} /\ qty <= cmd.qty
      /\ Uncapped' = Uncapped /\ Held(seen') \in Nat
  BY CommandFacts, SideFacts DEF TypeOK, QtyOnlyShrinks, Uncapped
<1>1. CASE pc' = "done"
  BY <1>1 DEF QtyOnlyShrinks, UncappedShape, Closing, Opening
<1>2. CASE Leg("cancel", 0) /\ UNCHANGED base
  BY <1>0, <1>2 DEF Leg, QtyOnlyShrinks, UncappedShape, Closing, Opening
<1>3. CASE pc' # "done" /\ (NeedRetry \/ NotEnoughMoney)
  <2>1. pc' = "positions" /\ qty' <= qty /\ qty' \in Int
    BY <1>0, <1>3 DEF NeedRetry, NotEnoughMoney, Finish, StartOver
  <2>2. UNCHANGED base /\ (Closing \/ Opening)
    BY <1>3, <2>1 DEF ActOn, CloseLeg, OpenLeg, Leg, Finish
  <2> QED BY <1>0, <2>1, <2>2 DEF QtyOnlyShrinks, UncappedShape, Closing, Opening
<1>4. CASE pc' # "done" /\ (CloseLeg(seen') \/ OpenLeg(seen'))
  <2>1. /\ pc' = "close" \/ (pc' = "open" /\ todo' = OpenLots(seen'))
        /\ qty' = qty /\ OpenLots(seen') \in Nat
    BY <1>0, <1>4, SideFacts DEF CloseLeg, OpenLeg, Leg, Finish
  <2>2. Uncapped => base' # -1
    <3>1. CASE ActOn(seen')
      BY <1>0, <3>1 DEF ActOn
    <3>2. CASE ~ActOn(seen')
      BY <1>4, <2>1, <3>2 DEF UncappedShape, Leg
    <3> QED BY <3>1, <3>2
  <2>3. Uncapped /\ pc' = "open" => todo' = qty
    BY <1>0, <2>1 DEF OpenLots, AtLeast0, QtyStaysPositive, Uncapped
  <2> QED BY <1>0, <2>1, <2>2, <2>3 DEF QtyOnlyShrinks, UncappedShape, Closing, Opening
<1> QED BY <1>1, <1>2, <1>3, <1>4 DEF Move, Finish, ActOn, Leg

\* Every step, with every fault, keeps the shape of the legs.
LEMMA LegsStep ==
  ASSUME Shape, TypeOK', [Next]_vars
  PROVE  LegShape' /\ LegSide' /\ QtyStaysPositive'
<1> DEFINE Goal == LegShape' /\ LegSide' /\ QtyStaysPositive'
<1>0. TypeOK
  BY DEF Shape
<1>a. ASSUME UNCHANGED <<pc, cmd, qty, seen, todo>> PROVE Goal
  <2>1. Toward(seen, seen)' = Toward(seen, seen)
    BY <1>a DEF Toward, Side
  <2> QED BY <1>0, <1>a, <2>1 DEF Shape, LegShape, LegSide, QtyStaysPositive, Closing, Opening
<1>1. ASSUME NEW c \in Commands, Begin(c) PROVE Goal
  <2>1. c.qty \in Int
    BY OrderConstants DEF CommandType
  <2>2. /\ cmd' = c /\ qty' = c.qty
        /\ \/ pc' = "done"
           \/ pc' = "positions" /\ (c.kind = "BUY" => c.qty > 0)
    BY <1>1, <2>1 DEF Begin
  <2> QED BY <1>0, <2>2 DEF Shape, LegShape, LegSide, QtyStaysPositive, Closing, Opening
<1>2. CASE ReadPositions \/ CancelTrades
  BY <1>0, <1>2 DEF ReadPositions, CancelTrades, plan, Shape, LegShape, LegSide,
     QtyStaysPositive, Closing, Opening
<1>3. CASE ReadOrders \/ QueryFails \/ MarginShort \/ PlaceRejected \/ CheckRaises
  <2>1. UNCHANGED cmd /\ pc \notin {"idle", "done"}
    BY <1>3 DEF ReadOrders, QueryFails, MarginShort, PlaceRejected, CheckRaises,
                Placing, Checking
  <2>2. Move(seen')
    <3>1. CASE ReadOrders
      BY <3>1 DEF ReadOrders, ActOn, Move
    <3>2. CASE QueryFails
      BY <3>2 DEF QueryFails, ActOn, Move
    <3>3. CASE MarginShort \/ PlaceRejected \/ CheckRaises
      BY <3>3 DEF MarginShort, PlaceRejected, CheckRaises, Move
    <3> QED BY <1>3, <3>1, <3>2, <3>3
  <2> QED BY <1>0, <2>1, <2>2, MoveShape
<1>4. CASE PlaceAccepted
  <2>1. /\ UNCHANGED <<cmd, qty, seen>> /\ todo' = todo - Batch
        /\ pc \in {"close", "open"}
        /\ pc' = IF todo - Batch > 0 THEN pc
                 ELSE IF pc = "close" THEN "checkclose" ELSE "checkopen"
    BY <1>4 DEF PlaceAccepted, Placing, Advance
  <2>2. todo - Batch \in Nat
    BY <1>0, OrderConstants DEF Batch, Lesser, TypeOK
  <2>3. Toward(seen, seen)' = Toward(seen, seen)
    BY <2>1 DEF Toward, Side
  <2> QED BY <1>0, <2>1, <2>2, <2>3 DEF Shape, LegShape, LegSide, QtyStaysPositive,
             Closing, Opening
<1>5. CASE PlaceRaises \/ PlaceReconnects
  <2>1. UNCHANGED <<cmd, seen>> /\ (UNCHANGED <<pc, qty, todo>> \/ pc' = "done")
    BY <1>5 DEF PlaceRaises, PlaceReconnects, Placing, SendAgain, Finish
  <2>2. CASE pc' = "done"
    BY <1>0, <2>2 DEF Shape, LegShape, LegSide, QtyStaysPositive, Closing, Opening
  <2> QED BY <1>a, <2>1, <2>2
<1>6. CASE CheckPasses
  <2>1. CASE placed > 1
    BY <1>6, <1>a, <2>1 DEF CheckPasses, Checking
  <2>2. CASE ~(placed > 1)
    <3>1. Move(seen') /\ UNCHANGED cmd /\ pc \notin {"idle", "done"}
      BY <1>6, <2>2 DEF CheckPasses, Checking, Move
    <3> QED BY <1>0, <3>1, MoveShape
  <2> QED BY <2>1, <2>2
<1>7. CASE Fill \/ Withdraw \/ UNCHANGED vars
  BY <1>7, <1>a DEF Fill, Withdraw, trader, plan, vars
<1> QED BY <1>1, <1>2, <1>3, <1>4, <1>5, <1>6, <1>7 DEF Next, TraderStep

\* Every step, with every fault, keeps the quantities in order.
LEMMA QtyStep ==
  ASSUME Shape, TypeOK', [Next]_vars
  PROVE  QtyOnlyShrinks' /\ UncappedShape'
<1> DEFINE Goal == QtyOnlyShrinks' /\ UncappedShape'
<1>0. /\ TypeOK /\ qty \in Int /\ cmd.qty \in Int /\ todo \in Nat /\ BatchQty \in Nat
  BY CommandFacts, OrderConstants DEF Shape, TypeOK
<1>a. ASSUME UNCHANGED <<cmd, qty, base, todo>>, pc \notin {"idle", "done"},
             pc' = pc \/ pc' \in {"positions", "orders", "done"}
      PROVE  Goal
  BY <1>a DEF Shape, QtyOnlyShrinks, UncappedShape, Uncapped, Closing, Opening
<1>b. ASSUME pc' = "done" PROVE Goal
  BY <1>b DEF QtyOnlyShrinks, UncappedShape, Closing, Opening
<1>1. ASSUME NEW c \in Commands, Begin(c) PROVE Goal
  <2>1. c.qty \in Int
    BY OrderConstants DEF CommandType
  <2>2. cmd' = c /\ qty' = c.qty /\ pc' \in {"done", "positions"}
    BY <1>1 DEF Begin
  <2> QED BY <2>1, <2>2 DEF QtyOnlyShrinks, UncappedShape, Closing, Opening
<1>2. CASE ReadPositions \/ CancelTrades
  BY <1>2, <1>a DEF ReadPositions, CancelTrades, plan
<1>3. CASE ReadOrders \/ QueryFails
  <2>1. UNCHANGED cmd /\ pc = "orders" /\ Move(seen')
    BY <1>3 DEF ReadOrders, QueryFails, ActOn, Move
  <2>2. \/ ActOn(seen')
        \/ UNCHANGED base /\ (pc' = "done" \/ Leg("cancel", 0))
    BY <1>3 DEF ReadOrders, QueryFails, Finish
  <2> QED BY <2>1, <2>2, MoveQty
<1>4. CASE MarginShort \/ PlaceRejected \/ CheckRaises
  <2>1. /\ UNCHANGED <<cmd, base>> /\ pc \notin {"idle", "done"}
        /\ Closing \/ Opening
    BY <1>4 DEF MarginShort, PlaceRejected, CheckRaises, Placing, Checking,
                Closing, Opening
  <2>2. Move(seen')
    BY <1>4 DEF MarginShort, PlaceRejected, CheckRaises, Move
  <2> QED BY <2>1, <2>2, MoveQty
<1>5. CASE PlaceAccepted
  <2>1. /\ UNCHANGED <<cmd, qty, base>> /\ todo' = todo - Batch
        /\ pc \in {"close", "open"}
        /\ pc' = IF todo - Batch > 0 THEN pc
                 ELSE IF pc = "close" THEN "checkclose" ELSE "checkopen"
    BY <1>5 DEF PlaceAccepted, Placing, Advance
  <2>2. QtyOnlyShrinks'
    BY <2>1 DEF Shape, QtyOnlyShrinks
  <2>3. ~(Uncapped /\ pc' = "open" /\ cmd.qty <= BatchQty)
    <3>1. SUFFICES ASSUME Uncapped, pc' = "open", cmd.qty <= BatchQty PROVE FALSE
      OBVIOUS
    <3>2. pc = "open" /\ todo - Batch > 0
      BY <2>1, <3>1
    <3>3. todo = qty /\ qty <= cmd.qty
      BY <3>1, <3>2 DEF Shape, UncappedShape, QtyOnlyShrinks
    <3> QED BY <1>0, <3>1, <3>2, <3>3 DEF Batch, Lesser
  <2>4. Uncapped => base # -1
    BY <2>1 DEF Shape, UncappedShape, Closing, Opening
  <2>5. Uncapped' = Uncapped
    BY <2>1 DEF Uncapped
  <2> QED BY <2>1, <2>2, <2>3, <2>4, <2>5 DEF UncappedShape
<1>6. CASE PlaceRaises \/ PlaceReconnects
  <2>1. /\ UNCHANGED <<cmd, base>> /\ pc \notin {"idle", "done"}
        /\ UNCHANGED <<pc, qty, todo>> \/ pc' = "done"
    BY <1>6 DEF PlaceRaises, PlaceReconnects, Placing, SendAgain, Finish
  <2> QED BY <1>a, <1>b, <2>1
<1>7. CASE CheckPasses
  <2>1. /\ UNCHANGED <<cmd, base>> /\ pc \notin {"idle", "done"}
        /\ Closing \/ Opening
    BY <1>7 DEF CheckPasses, Checking, Closing, Opening
  <2>2. CASE placed > 1
    BY <1>7, <1>a, <2>1, <2>2 DEF CheckPasses
  <2>3. CASE ~(placed > 1)
    <3>1. Move(seen')
      BY <1>7, <2>3 DEF CheckPasses, Checking, Move
    <3> QED BY <2>1, <3>1, MoveQty
  <2> QED BY <2>2, <2>3
<1>8. CASE Fill \/ Withdraw \/ UNCHANGED vars
  <2>1. UNCHANGED <<pc, cmd, qty, base, todo>>
    BY <1>8 DEF Fill, Withdraw, trader, plan, vars
  <2> QED BY <2>1 DEF Shape, QtyOnlyShrinks, UncappedShape, Uncapped, Closing, Opening
<1> QED BY <1>1, <1>2, <1>3, <1>4, <1>5, <1>6, <1>7, <1>8 DEF Next, TraderStep

\* Every step, with every fault, keeps the shape.
LEMMA ShapeStep == Shape /\ [Next]_vars => Shape'
  BY TypeStep, LegsStep, QtyStep DEF Shape

LEMMA ShapeHolds == Spec => []Shape
<1>1. Init /\ TypeOK => Shape
  BY CommandFacts DEF Init, Shape, LegShape, LegSide, QtyStaysPositive, QtyOnlyShrinks,
     UncappedShape, Closing, Opening
<1> QED BY <1>1, ShapeStep, TypeCorrect, PTL DEF Spec

-----------------------------------------------------------------------------
(* Every command runs down.                                                *)

\* The parts of the budget, before and after a step.
LEMMA BudgetParts ==
  /\ Budget[1] = AtLeast0(qty)
  /\ Budget[2] = CloseOpenRetries + MayDayRetries + 1 - retries
  /\ Budget[3] = Stage /\ Budget[4] = todo /\ Budget[5] = placed
  /\ Budget[6] = 1 - reconnects /\ Budget[7] = PlaceRetries + 1 - sends
  BY DEF Budget

LEMMA BudgetPartsAfter ==
  /\ Budget'[1] = AtLeast0(qty')
  /\ Budget'[2] = CloseOpenRetries + MayDayRetries + 1 - retries'
  /\ Budget'[3] = Stage' /\ Budget'[4] = todo' /\ Budget'[5] = placed'
  /\ Budget'[6] = 1 - reconnects' /\ Budget'[7] = PlaceRetries + 1 - sends'
  BY DEF Budget

\* The parts of a budget are naturals, so that there is no endless sequence of
\* budgets each below the one before.
LEMMA BudgetIsNatural == TypeOK => \A i \in 1..7 : Budget[i] \in Nat
<1> SUFFICES ASSUME TypeOK, NEW i \in 1..7 PROVE Budget[i] \in Nat
  OBVIOUS
<1>1. Stage \in 0..9
  BY DEF Stage
<1>2. AtLeast0(qty) \in Nat
  BY DEF TypeOK, AtLeast0
<1>3. /\ CloseOpenRetries + MayDayRetries + 1 - retries \in Nat
      /\ 1 - reconnects \in Nat /\ PlaceRetries + 1 - sends \in Nat
      /\ todo \in Nat /\ placed \in Nat
  BY OrderConstants DEF TypeOK
<1>4. i = 1 \/ i = 2 \/ i = 3 \/ i = 4 \/ i = 5 \/ i = 6 \/ i = 7
  OBVIOUS
<1> QED BY <1>1, <1>2, <1>3, <1>4, BudgetParts

\* A step to a later stage of the plan.
LEMMA LaterStage ==
  ASSUME UNCHANGED <<qty, retries>>, Stage' < Stage
  PROVE  Below(Budget', Budget)
<1>1. Budget'[3] < Budget[3] /\ Budget'[1] = Budget[1] /\ Budget'[2] = Budget[2]
  BY BudgetParts, BudgetPartsAfter
<1> QED BY <1>1 DEF Below

\* The end of a command, or of a snapshot or a leg with what comes next.
LEMMA MoveOn ==
  ASSUME pc \notin {"idle", "done"}, NEW p,
         \/ Finish("ok") \/ Finish("fail")
         \/ pc = "checkclose" /\ OpenLeg(p)
         \/ pc = "orders" /\ CloseLeg(p)
         \/ pc = "orders" /\ snapshot = "first" /\ Leg("cancel", 0)
  PROVE  Below(Budget', Budget)
<1>1. UNCHANGED <<qty, retries>>
  BY DEF Finish, OpenLeg, CloseLeg, Leg
<1>2. CASE pc' = "done"
  BY <1>1, <1>2, LaterStage DEF Stage
<1>3. CASE pc' # "done"
  <2>1. \/ pc = "checkclose" /\ pc' = "open"
        \/ pc = "orders" /\ pc' \in {"close", "open"}
        \/ pc = "orders" /\ snapshot = "first" /\ pc' = "cancel"
    BY <1>3 DEF Finish, OpenLeg, CloseLeg, Leg
  <2>2. Stage' < Stage
    BY <2>1 DEF Stage
  <2> QED BY <1>1, <2>2, LaterStage
<1> QED BY <1>2, <1>3

\* A command that starts over has one retry less or one lot less.
LEMMA RestartRunsDown ==
  ASSUME Shape, TypeOK', NEW p, pc \notin {"idle", "done"},
         cmd.kind = "BUY" \/ cmd.qty > 0 \/ cmd.kind = "MAYDAY",
         NeedRetry \/ NotEnoughMoney
  PROVE  Below(Budget', Budget)
<1>0. /\ qty \in Int /\ qty' \in Int /\ cmd.qty \in Int
      /\ retries \in Nat /\ retries' \in Nat
  BY OrderConstants, CommandFacts DEF Shape, TypeOK
<1>1. CASE pc' = "done"
  <2>1. Finish("fail")
    BY <1>1 DEF NeedRetry, NotEnoughMoney, StartOver
  <2> QED BY <2>1, MoveOn
<1>2. CASE pc' # "done" /\ NeedRetry
  <2>1. qty' = qty /\ retries' = retries + 1
    BY <1>2 DEF NeedRetry, StartOver, Finish, NextRetry
  <2>2. Budget'[2] < Budget[2] /\ Budget'[1] = Budget[1]
    BY <1>0, <2>1, OrderConstants, BudgetParts, BudgetPartsAfter
  <2> QED BY <2>2 DEF Below
<1>3. CASE pc' # "done" /\ NotEnoughMoney
  <2>1. cmd.kind # "MAYDAY" /\ qty' = IF qty > Floor THEN qty - 1 ELSE qty
    BY <1>3 DEF NotEnoughMoney, StartOver, Finish
  <2>2. qty > 0
    BY <2>1 DEF Shape, QtyStaysPositive
  <2>3. qty' = qty - 1
    BY <1>0, <2>1, <2>2, OrderConstants
  <2>4. Budget'[1] < Budget[1]
    <3>1. AtLeast0(qty') < AtLeast0(qty)
      BY <1>0, <2>2, <2>3 DEF AtLeast0
    <3> QED BY <3>1, BudgetParts, BudgetPartsAfter
  <2> QED BY <2>4 DEF Below
<1> QED BY <1>1, <1>2, <1>3

\* A send that fails is counted; a placed batch leaves fewer lots to place.
LEMMA PlacingRunsDown ==
  ASSUME Shape, TypeOK', PlaceAccepted \/ PlaceRaises \/ PlaceReconnects
  PROVE  Below(Budget', Budget)
<1>0. /\ todo \in Nat /\ todo > 0 /\ BatchQty \in Nat /\ BatchQty > 0
      /\ sends \in Nat /\ PlaceRetries \in Nat /\ pc \in {"close", "open"}
  BY OrderConstants DEF Shape, TypeOK, LegShape, PlaceAccepted, PlaceRaises,
                        PlaceReconnects, Placing
<1>1. CASE Finish("fail")
  BY <1>0, <1>1, MoveOn
<1>2. CASE PlaceAccepted
  <2>1. /\ UNCHANGED <<qty, retries, snapshot>> /\ todo' = todo - Batch
        /\ pc' = IF todo - Batch > 0 THEN pc
                 ELSE IF pc = "close" THEN "checkclose" ELSE "checkopen"
    BY <1>2 DEF PlaceAccepted, Advance
  <2>2. Batch \in Nat /\ Batch > 0
    BY <1>0 DEF Batch, Lesser
  <2>3. CASE pc' = pc
    <3>1. Budget'[4] < Budget[4]
      BY <1>0, <2>1, <2>2, BudgetParts, BudgetPartsAfter
    <3>2. Budget'[1] = Budget[1] /\ Budget'[2] = Budget[2] /\ Budget'[3] = Budget[3]
      BY <2>1, <2>3, BudgetParts, BudgetPartsAfter DEF Stage
    <3> QED BY <3>1, <3>2 DEF Below
  <2>4. CASE pc' # pc
    BY <1>0, <2>1, <2>4, LaterStage DEF Stage
  <2> QED BY <2>3, <2>4
<1>3. CASE ~Finish("fail") /\ ~PlaceAccepted
  <2>1. /\ UNCHANGED <<pc, qty, retries, snapshot, todo, placed>>
        /\ \/ reconnects' = reconnects /\ sends' = sends + 1
           \/ reconnects = 0 /\ reconnects' = 1
    BY <1>3 DEF PlaceRaises, PlaceReconnects, SendAgain
  <2>2. /\ Budget'[1] = Budget[1] /\ Budget'[2] = Budget[2] /\ Budget'[3] = Budget[3]
        /\ Budget'[4] = Budget[4] /\ Budget'[5] = Budget[5]
    BY <2>1, BudgetParts, BudgetPartsAfter DEF Stage
  <2>3. CASE reconnects' = reconnects /\ sends' = sends + 1
    <3>1. Budget'[6] = Budget[6] /\ Budget'[7] < Budget[7]
      BY <1>0, <2>3, BudgetParts, BudgetPartsAfter
    <3> QED BY <2>2, <3>1 DEF Below
  <2>4. CASE reconnects = 0 /\ reconnects' = 1
    <3>1. Budget'[6] < Budget[6]
      BY <2>4, BudgetParts, BudgetPartsAfter
    <3> QED BY <2>2, <3>1 DEF Below
  <2> QED BY <2>1, <2>3, <2>4
<1> QED BY <1>1, <1>2, <1>3

\* Every step of a command for at least one lot lowers its budget.
LEMMA StepRunsDown ==
  ASSUME Shape, TypeOK', TraderStep,
         cmd.kind \in {"MAYDAY", "BUY"} \/ cmd.qty > 0
  PROVE  Below(Budget', Budget)
<1>1. CASE ReadPositions \/ CancelTrades
  <2>1. UNCHANGED <<qty, retries>>
    BY <1>1 DEF ReadPositions, CancelTrades
  <2>2. Stage' < Stage
    BY <1>1 DEF ReadPositions, CancelTrades, Stage, Shape, TypeOK
  <2> QED BY <2>1, <2>2, LaterStage
<1>2. CASE ReadOrders
  <2>1. /\ pc = "orders"
        /\ \/ Finish("ok") \/ CloseLeg(seen)
           \/ snapshot = "first" /\ Leg("cancel", 0)
    BY <1>2 DEF ReadOrders, ActOn
  <2> QED BY <2>1, MoveOn
<1>3. CASE QueryFails
  <2>1. pc = "orders" /\ (Finish("fail") \/ CloseLeg(0))
    BY <1>3 DEF QueryFails, ActOn
  <2> QED BY <2>1, MoveOn
<1>4. CASE PlaceAccepted \/ PlaceRaises \/ PlaceReconnects
  BY <1>4, PlacingRunsDown
<1>5. CASE MarginShort \/ CheckRaises
  <2>1. pc \notin {"idle", "done"} /\ (NeedRetry \/ NotEnoughMoney)
    BY <1>5 DEF MarginShort, CheckRaises, Placing, Checking
  <2> QED BY <2>1, RestartRunsDown
<1>6. CASE PlaceRejected
  <2>1. pc \notin {"idle", "done"} /\ Finish("fail")
    BY <1>6 DEF PlaceRejected, Placing
  <2> QED BY <2>1, MoveOn
<1>7. CASE CheckPasses
  <2>1. CASE placed > 1
    <3>1. /\ UNCHANGED <<pc, qty, retries, snapshot, todo>> /\ placed' = placed - 1
          /\ placed \in Nat
      BY <1>7, <2>1 DEF CheckPasses, Shape, TypeOK
    <3>2. Budget'[5] < Budget[5]
      BY <3>1, BudgetParts, BudgetPartsAfter
    <3>3. /\ Budget'[1] = Budget[1] /\ Budget'[2] = Budget[2] /\ Budget'[3] = Budget[3]
          /\ Budget'[4] = Budget[4]
      BY <3>1, BudgetParts, BudgetPartsAfter DEF Stage
    <3> QED BY <3>2, <3>3 DEF Below
  <2>2. CASE ~(placed > 1)
    <3>1. /\ pc \in {"checkclose", "checkopen"}
          /\ \/ Finish("ok")
             \/ pc = "checkclose" /\ OpenLeg(seen)
      BY <1>7, <2>2 DEF CheckPasses, Checking
    <3> QED BY <3>1, MoveOn
  <2> QED BY <2>1, <2>2
<1> QED BY <1>1, <1>2, <1>3, <1>4, <1>5, <1>6, <1>7 DEF TraderStep

\* No command for at least one lot runs for ever, with every fault and for any
\* quantities, batches and retry limits: its steps (retries, restarts, resends
\* and reconnects of fubon_api.py:1203-1244, 1334-1345, 1497-1533, 1604-1635)
\* lower a budget of seven naturals that no fill and no withdrawal raises.
THEOREM CommandsRunDown == Spec => StepsRunDown /\ [](\A i \in 1..7 : Budget[i] \in Nat)
<1>1. Shape /\ TypeOK' /\ [Next]_vars =>
        [(pc \notin {"idle", "done"} /\ (cmd.kind \in {"MAYDAY", "BUY"} \/ cmd.qty > 0))
           => IF TraderStep THEN Below(Budget', Budget) ELSE UNCHANGED Budget]_vars
  <2> SUFFICES ASSUME Shape, TypeOK', Next,
                      pc \notin {"idle", "done"},
                      cmd.kind \in {"MAYDAY", "BUY"} \/ cmd.qty > 0
               PROVE  IF TraderStep THEN Below(Budget', Budget) ELSE UNCHANGED Budget
    OBVIOUS
  <2>1. CASE TraderStep
    BY <2>1, StepRunsDown
  <2>2. CASE ~TraderStep
    <3>1. Fill \/ Withdraw
      BY <2>2 DEF Next, Begin
    <3>2. UNCHANGED <<pc, qty, retries, snapshot, todo, placed, sends, reconnects>>
      BY <3>1 DEF Fill, Withdraw, trader, plan
    <3> QED BY <2>2, <3>2 DEF Budget, AtLeast0, Stage
  <2> QED BY <2>1, <2>2
<1> QED BY <1>1, BudgetIsNatural, ShapeHolds, TypeCorrect, PTL DEF Spec, StepsRunDown

\* As the library has it, with < as an operator.
LEMMA LessIsWellFounded ==
  IsWellFoundedOn({p \in Nat \X Nat : p[1] < p[2]}, Nat)
BY NatLessThanWellFounded DEF OpToRel

\* A budget cannot be lowered for ever: Below admits no infinite descent, as it
\* is the lexicographic order on seven naturals.  With CommandsRunDown, a run in
\* which a command takes infinitely many steps does not exist.
THEOREM BudgetsRunOut ==
  IsWellFoundedOn({p \in [1..7 -> Nat] \X [1..7 -> Nat] : Below(p[1], p[2])},
                  [1..7 -> Nat])
<1> DEFINE R == {p \in Nat \X Nat : p[1] < p[2]}
           S == [1..7 -> Nat]
           RR == {p \in S \X S : Below(p[1], p[2])}
<1>1. IsWellFoundedOn(LexProductOrdering(R, Nat, 7), S)
  <2>1. IsWellFoundedOn(R, Nat)
    BY LessIsWellFounded
  <2> HIDE DEF R
  <2> QED BY <2>1, WFLexProductOrdering
<1>2. RR \cap (S \X S) \subseteq LexProductOrdering(R, Nat, 7)
  <2> SUFFICES ASSUME NEW a \in S, NEW b \in S, Below(a, b)
               PROVE  <<a, b>> \in LexProductOrdering(R, Nat, 7)
    OBVIOUS
  <2>1. PICK i \in 1..7 : a[i] < b[i] /\ \A j \in 1..7 : j < i => a[j] = b[j]
    BY DEF Below
  <2>2. \A j \in 1..(i - 1) : a[j] = b[j]
    BY <2>1
  <2>3. <<a[i], b[i]>> \in R
    BY <2>1
  <2> HIDE DEF R
  <2> QED BY <2>2, <2>3 DEF LexProductOrdering
<1> HIDE DEF R, RR, S
<1>3. IsWellFoundedOn(RR, S)
  BY <1>1, <1>2, IsWellFoundedOnSubrelation
<1> QED BY <1>3 DEF RR, S

-----------------------------------------------------------------------------
(* No crossing, unless a cancel is lost.                                   *)

\* A leg starts on an empty book; orders are placed on one side of it.
LEMMA CrossStep ==
  ASSUME "cancel_error" \notin Faults, CrossInv, Shape', [Next]_vars
  PROVE  FreshIsClear' /\ NoCrossing'
<1> USE DEF CrossInv, FreshIsClear, NoCrossing
<1>0. /\ buying \in Nat /\ selling \in Nat
      /\ Side(seen) \in {"B", "S"}
  BY SideFacts DEF Shape, TypeOK, Side
<1>a. ASSUME pc' = "done" PROVE FreshIsClear' /\ NoCrossing'
  BY <1>a DEF Closing, Opening
<1>b. ASSUME buying' = 0, selling' = 0 PROVE FreshIsClear' /\ NoCrossing'
  BY <1>b DEF Theirs
<1>c. ASSUME pc' = "positions", snapshot' = "first" PROVE FreshIsClear' /\ NoCrossing'
  BY <1>c DEF Closing, Opening
<1>d. ASSUME UNCHANGED <<cmd, seen>>, pc \in {"close", "checkclose", "open", "checkopen"},
             pc' \in {"close", "checkclose", "open", "checkopen"}, Theirs' = 0
      PROVE  FreshIsClear' /\ NoCrossing'
  BY <1>d DEF Closing, Opening
<1>1. ASSUME NEW c \in Commands, Begin(c) PROVE FreshIsClear' /\ NoCrossing'
  BY <1>1, <1>a, <1>c DEF Begin
<1>2. CASE ReadPositions
  BY <1>2 DEF ReadPositions, Closing, Opening, book
<1>3. CASE ReadOrders \/ QueryFails
  <2>1. CASE pc' = "cancel"
    BY <2>1 DEF Closing, Opening
  <2>2. CASE pc' \notin {"cancel", "done"}
    <3>1. UNCHANGED <<buying, selling>>
      BY <1>3 DEF ReadOrders, QueryFails, ActOn, book
    <3>2. pc = "orders" /\ (snapshot # "fresh" => ReadOrders /\ ~Listed)
      BY <1>3, <2>2 DEF ReadOrders, QueryFails, ActOn, Finish, Leg, Shape, TypeOK
    <3>3. ~Listed => buying = 0 /\ selling = 0
      BY <1>0 DEF Listed
    <3> QED BY <1>b, <3>1, <3>2, <3>3
  <2> QED BY <1>a, <2>1, <2>2
<1>4. CASE CancelTrades
  BY <1>4, <1>b DEF CancelTrades, Kept
<1>5. CASE PlaceAccepted \/ PlaceRaises \/ PlaceReconnects
  <2>1. UNCHANGED <<cmd, seen>> /\ pc \in {"close", "open"} /\ Theirs = 0
    BY <1>5 DEF PlaceAccepted, PlaceRaises, PlaceReconnects, Placing, Closing, Opening
  <2>2. UNCHANGED book \/ Booked
    BY <1>5 DEF PlaceAccepted, PlaceRaises, PlaceReconnects
  <2>3. Theirs' = 0
    BY <2>1, <2>2 DEF Booked, Theirs, Side, book
  <2>4. pc' \in {"close", "checkclose", "open", "checkopen", "done"}
    BY <1>5, <2>1 DEF PlaceAccepted, PlaceRaises, PlaceReconnects, Advance,
                      SendAgain, Finish
  <2> QED BY <1>a, <1>d, <2>1, <2>3, <2>4
<1>6. CASE MarginShort \/ CheckRaises
  BY <1>6, <1>a, <1>c DEF MarginShort, CheckRaises, NotEnoughMoney, NeedRetry,
                          Finish, StartOver
<1>7. CASE PlaceRejected
  BY <1>7, <1>a DEF PlaceRejected, Finish
<1>8. CASE CheckPasses
  <2>1. /\ UNCHANGED <<buying, selling, cmd, seen>> /\ Theirs = 0
        /\ pc \in {"checkclose", "checkopen"}
    BY <1>8 DEF CheckPasses, Checking, book, Closing, Opening
  <2>2. Theirs' = 0
    BY <2>1 DEF Theirs, Side
  <2>3. pc' \in {"checkclose", "checkopen", "open", "done"}
    BY <1>8, <2>1 DEF CheckPasses, OpenLeg, Leg, Finish
  <2> QED BY <1>a, <1>d, <2>1, <2>2, <2>3
<1>9. CASE Fill \/ Withdraw
  <2>0. UNCHANGED <<pc, snapshot, cmd, seen>>
    BY <1>9 DEF Fill, Withdraw, trader
  <2>a. \/ buying > 0 /\ buying' = buying - 1 /\ selling' = selling
        \/ selling > 0 /\ selling' = selling - 1 /\ buying' = buying
    BY <1>9 DEF Fill, Withdraw
  <2>1. /\ buying = 0 => buying' = 0
        /\ selling = 0 => selling' = 0
    BY <1>0, <2>a
  <2>2. Theirs = 0 => Theirs' = 0
    BY <2>0, <2>1 DEF Theirs, Side
  <2> QED BY <2>0, <2>1, <2>2 DEF Closing, Opening
<1>10. CASE UNCHANGED vars
  BY <1>10 DEF vars, Closing, Opening, Theirs, Side
<1> QED BY <1>1, <1>2, <1>3, <1>4, <1>5, <1>6, <1>7, <1>8, <1>9, <1>10
        DEF Next, TraderStep

LEMMA CrossHolds ==
  ASSUME "cancel_error" \notin Faults PROVE Spec => []CrossInv
<1>1. Init => FreshIsClear /\ NoCrossing
  BY DEF Init, FreshIsClear, NoCrossing, Closing, Opening
<1>2. CrossInv /\ Shape' /\ [Next]_vars => FreshIsClear' /\ NoCrossing'
  BY CrossStep
<1> QED BY <1>1, <1>2, ShapeHolds, PTL DEF Spec, CrossInv

\* As long as every cancel of _cancel_ongoing_trades succeeds a command never
\* has orders working on both sides of the book: skewed snapshots, failed
\* refreshes and doubled orders may be among the faults.
THEOREM OrdersNeverCross ==
  ASSUME "cancel_error" \notin Faults PROVE Spec => []NoCrossing
<1>1. CrossInv => NoCrossing
  BY DEF CrossInv
<1> QED BY <1>1, CrossHolds, PTL

-----------------------------------------------------------------------------
(* How far past its target a command can go.                               *)

\* What is working and where it leads is the same while book and command are.
LEMMA SameBook ==
  ASSUME UNCHANGED <<pos, buying, selling, cmd, seen>>
  PROVE  /\ Ours' = Ours /\ Theirs' = Theirs
         /\ Toward(seen, pos)' = Toward(seen, pos)
         /\ Toward(seen, seen)' = Toward(seen, seen)
         /\ Held(seen)' = Held(seen)
  BY DEF Ours, Theirs, Toward, Held, AtLeast0, Side

\* Sums of the first naturals, for the prover.
LEMMA TriangleGrows ==
  /\ \A n \in Int : Triangle(n) \in Int /\ Triangle(n + 1) = Triangle(n) + n
  /\ \A m, n \in Nat : m <= n => Triangle(m) <= Triangle(n)
<1>1. ASSUME NEW n \in Int PROVE Triangle(n) \in Int /\ Triangle(n + 1) = Triangle(n) + n
  <2>1. (n + 1) * n = n * (n - 1) + 2 * n /\ n * (n - 1) \in Int
    OBVIOUS
  <2>2. \A x \in Int : (x + 2 * n) \div 2 = (x \div 2) + n
    OBVIOUS
  <2> QED BY <2>1, <2>2 DEF Triangle
<1>2. ASSUME NEW m \in Nat, NEW n \in Nat, m <= n PROVE Triangle(m) <= Triangle(n)
  <2>1. PICK k \in Nat : n = m + k
    <3>1. n - m \in Nat /\ n = m + (n - m)
      BY <1>2
    <3> QED BY <3>1
  <2>2. n * (n - 1) = m * (m - 1) + 2 * (k * m) + k * (k - 1)
    BY <2>1
  <2>3. /\ k * m \in Nat /\ k * (k - 1) \in Nat
        /\ m * (m - 1) \in Int /\ n * (n - 1) \in Int
    OBVIOUS
  <2>4. m * (m - 1) <= n * (n - 1)
    BY <2>2, <2>3
  <2>5. \A x, y \in Int : x <= y => x \div 2 <= y \div 2
    OBVIOUS
  <2> QED BY <2>3, <2>4, <2>5 DEF Triangle
<1> QED BY <1>1, <1>2

\* What NoOvershoot allows an opening leg.
Allowed == Target + Uncounted

\* The target of a command is a number of lots, fixed once a BUY without a cap
\* has acted; what is allowed past it depends on the lots that were refused.
LEMMA TargetFacts ==
  ASSUME TypeOK
  PROVE  /\ Target \in Int /\ Uncounted \in Int /\ Allowed \in Int
         /\ UNCHANGED <<cmd, qty, base>> => Allowed' = Allowed
         /\ ~Uncapped => Uncounted = 0
<1>1. base \in Int /\ qty \in Int /\ cmd.cap \in Nat /\ cmd.qty \in Int
  BY CommandFacts DEF TypeOK
<1>2. Triangle(cmd.qty - 1) \in Int /\ Triangle(qty - 1) \in Int
  <2>1. cmd.qty - 1 \in Int /\ qty - 1 \in Int
    BY <1>1
  <2> QED BY <2>1, TriangleGrows
<1>3. Target \in Int /\ Uncounted \in Int /\ (~Uncapped => Uncounted = 0)
  BY <1>1, <1>2 DEF Target, Uncounted
<1>4. UNCHANGED <<cmd, qty, base>> => Allowed' = Allowed
  BY DEF Allowed, Target, Uncounted, Uncapped, Triangle
<1> QED BY <1>3, <1>4 DEF Allowed

\* A BUY without a cap that has acted may buy its quantity from flat or from
\* where it started; whatever its retries, it has more room, not less.
LEMMA UncappedRoom ==
  ASSUME Shape, Uncapped, base # -1, pc \notin {"idle", "done"}
  PROVE  /\ 0 < qty /\ qty <= cmd.qty /\ Uncounted \in Nat
         /\ Target = base + cmd.qty /\ base + qty <= Allowed /\ qty <= Allowed
<1>1. /\ base \in Nat /\ qty \in Int /\ cmd.qty \in Int
      /\ 0 < qty /\ qty <= cmd.qty
  BY CommandFacts DEF Shape, TypeOK, Uncapped, QtyStaysPositive, QtyOnlyShrinks
<1>2. /\ Triangle(cmd.qty - 1) \in Int /\ Triangle(qty - 1) \in Int
      /\ Triangle(qty - 1) <= Triangle(cmd.qty - 1)
  <2>1. cmd.qty - 1 \in Nat /\ qty - 1 \in Nat /\ qty - 1 <= cmd.qty - 1
    BY <1>1
  <2> QED BY <2>1, TriangleGrows
<1>3. Uncounted \in Nat
  BY <1>2 DEF Uncounted
<1>4. Target = base + cmd.qty
  BY DEF Target, Uncapped
<1> QED BY <1>1, <1>3, <1>4 DEF Allowed

\* It gives up a lot: what it has bought stays bought, and what it will buy
\* again is one less.
LEMMA OneLotLess ==
  ASSUME Shape, Uncapped, base # -1, pc \notin {"idle", "done"}, qty > 1,
         UNCHANGED <<cmd, base>>, qty' = qty - 1
  PROVE  /\ Allowed \in Int /\ Allowed' \in Int
         /\ cmd.qty > BatchQty => Allowed' = Allowed + qty - 2
         /\ ~(cmd.qty > BatchQty) => Allowed' = Allowed /\ Allowed = base + cmd.qty
<1>1. /\ base \in Nat /\ qty \in Int /\ cmd.qty \in Int /\ BatchQty \in Nat
      /\ Allowed \in Int /\ Target = base + cmd.qty
  BY CommandFacts, OrderConstants, TargetFacts, UncappedRoom DEF Shape, TypeOK
<1>2. Uncapped' = Uncapped /\ Target' = Target
  BY DEF Uncapped, Target
<1>3. /\ Triangle(qty - 1) = Triangle(qty - 2) + qty - 2
      /\ Triangle(qty - 2) \in Int /\ Triangle(cmd.qty - 1) \in Int
  <2>1. /\ qty - 2 \in Int /\ cmd.qty - 1 \in Int /\ (qty - 2) + 1 = qty - 1
    BY <1>1
  <2>2. Triangle((qty - 2) + 1) = Triangle(qty - 2) + (qty - 2)
    BY <2>1, TriangleGrows
  <2>3. Triangle(qty - 2) \in Int /\ Triangle(cmd.qty - 1) \in Int
    BY <2>1, TriangleGrows
  <2> QED BY <1>1, <2>1, <2>2, <2>3
<1>4. CASE cmd.qty > BatchQty
  <2>1. Uncounted = Triangle(cmd.qty - 1) - Triangle(qty - 1)
    BY <1>4 DEF Uncounted
  <2>2. Uncounted' = Triangle(cmd.qty - 1) - Triangle(qty - 2)
    <3>1. Uncounted' = Triangle(cmd.qty - 1) - Triangle(qty' - 1)
      BY <1>2, <1>4 DEF Uncounted, Triangle
    <3>2. qty' - 1 = qty - 2
      BY <1>1
    <3> QED BY <3>1, <3>2
  <2>3. Allowed' = Target + Uncounted'
    BY <1>2 DEF Allowed
  <2> QED BY <1>1, <1>3, <1>4, <2>1, <2>2, <2>3 DEF Allowed
<1>5. CASE ~(cmd.qty > BatchQty)
  <2>1. Uncounted = 0 /\ Uncounted' = 0
    BY <1>5, <1>2 DEF Uncounted
  <2> QED BY <1>1, <1>2, <1>5, <2>1 DEF Allowed
<1> QED BY <1>4, <1>5

\* A leg planned on a book with nothing working, whose position is at most d
\* lots from the one that was read.
LEMMA FirstLegOutlook ==
  ASSUME Shape, UNCHANGED <<pos, buying, selling, cmd, seen>>, buying = 0, selling = 0,
         pc = "orders", ActOn(seen), ~CapReached(seen),
         NEW d \in Nat, pos - seen <= d, seen - pos <= d,
         StartsOver => pos + buying + qty <= Allowed + d
  PROVE  (Closing' => Outlook' <= d) /\ (Opening' => Outlook' <= Allowed' + d)
<1>0. /\ cmd.kind \in Kinds /\ cmd.cap \in Nat /\ cmd.qty \in Int
      /\ seen \in Int /\ pos \in Int /\ qty \in Int /\ qty <= cmd.qty
      /\ Held(seen) \in Nat /\ Against(seen) \in Nat /\ OpenLots(seen) \in Nat
      /\ Allowed \in Int /\ TypeOK
  BY CommandFacts, SideFacts, TargetFacts DEF Shape, TypeOK, QtyOnlyShrinks
<1>1. /\ Toward(seen, pos)' = Toward(seen, pos) /\ Toward(seen, pos) \in Int
      /\ Toward(seen, seen) \in Int
      /\ Toward(seen, pos) <= Toward(seen, seen) + d
  BY <1>0 DEF Toward, Side
<1>2. Outlook' = Toward(seen, pos) + todo'
  <2>1. Ours' = 0
    BY DEF Ours
  <2> QED BY <1>1, <2>1, <1>0 DEF Outlook, ActOn, CloseLeg, OpenLeg, Leg, Finish
<1>3. CASE pc' = "done"
  BY <1>3 DEF Closing, Opening
<1>4. CASE Against(seen) > 0
  <2>1. pc' = "close" /\ todo' = Against(seen)
    BY <1>4 DEF ActOn, CloseLeg, Leg
  <2>2. Against(seen) = 0 - Toward(seen, seen)
    BY <1>1, <1>4 DEF Against, AtLeast0
  <2> QED BY <1>1, <1>2, <2>1, <2>2 DEF Opening
<1>5. CASE ~(Against(seen) > 0) /\ pc' # "done"
  <2>1. pc' = "open" /\ todo' = OpenLots(seen) /\ OpenLots(seen) > 0 /\ qty' = qty
    BY <1>5 DEF ActOn, CloseLeg, OpenLeg, Leg, Finish
  <2>2. Toward(seen, seen) = Held(seen)
    BY <1>1, <1>5 DEF Against, Held, AtLeast0
  <2>3. CASE ~Uncapped
    <3>1. Held(seen) + OpenLots(seen) <= Target
      BY <1>0, <2>1, <2>3 DEF OpenLots, Target, CapReached, AtLeast0, Lesser, Kinds, Uncapped
    <3>2. Allowed' = Allowed
      BY <1>0, <2>1, <2>3, TargetFacts DEF ActOn
    <3>3. Allowed = Target /\ Target \in Int
      BY <1>0, <2>3, TargetFacts DEF Allowed
    <3> QED BY <1>0, <1>1, <1>2, <2>1, <2>2, <3>1, <3>2, <3>3 DEF Closing
  <2>4. CASE Uncapped /\ base = -1
    <3>1. base' = Held(seen) /\ qty = cmd.qty /\ Uncapped'
      BY <2>4 DEF ActOn, Shape, UncappedShape, Uncapped
    <3>2. Target' = Held(seen) + cmd.qty
      BY <3>1 DEF Target, Uncapped
    <3>3. Uncounted' = 0
      <4>1. cmd.qty - 1 \in Int /\ Triangle(cmd.qty - 1) \in Int
        BY <1>0, TriangleGrows
      <4>2. Uncounted' = IF cmd.qty > BatchQty
                         THEN Triangle(cmd.qty - 1) - Triangle(cmd.qty - 1) ELSE 0
        BY <2>1, <3>1 DEF Uncounted, Triangle
      <4> QED BY <4>1, <4>2
    <3>4. OpenLots(seen) = qty
      BY <1>0, <2>1, <2>4 DEF OpenLots, AtLeast0, Uncapped
    <3>5. Allowed' = Held(seen) + qty
      BY <1>0, <3>1, <3>2, <3>3 DEF Allowed
    <3> QED BY <1>0, <1>1, <1>2, <2>1, <2>2, <3>4, <3>5 DEF Closing
  <2>5. CASE Uncapped /\ base # -1
    <3>1. Allowed' = Allowed
      BY <1>0, <2>1, <2>5, TargetFacts DEF ActOn
    <3>2. pos + qty <= Allowed + d
      BY <1>0, <2>5 DEF StartsOver
    <3>3. OpenLots(seen) = qty
      BY <1>0, <2>1, <2>5 DEF OpenLots, AtLeast0, Uncapped
    <3>4. Toward(seen, pos) = pos
      BY <2>5 DEF Toward, Side, Uncapped
    <3> QED BY <1>0, <1>2, <2>1, <3>1, <3>2, <3>3, <3>4 DEF Closing
  <2> QED BY <2>3, <2>4, <2>5
<1> QED BY <1>3, <1>4, <1>5

\* The opening leg after a closing leg seen flat adds to what still works.
LEMMA SecondLegOutlook ==
  ASSUME Shape, UNCHANGED <<pos, buying, selling, cmd, seen, base>>,
         pc = "checkclose", pos = 0, cmd.kind # "MAYDAY", OpenLeg(seen),
         NEW d \in Nat, Outlook <= d
  PROVE  ~Closing' /\ (Opening' => Outlook' <= Allowed' + d)
<1>0. /\ cmd.kind \in Kinds /\ cmd.cap \in Nat /\ cmd.qty \in Int
      /\ seen \in Int /\ qty \in Int /\ qty <= cmd.qty
      /\ buying \in Nat /\ selling \in Nat /\ Ours \in Nat
      /\ todo = 0 /\ Toward(seen, seen) < 0 /\ Toward(seen, seen) \in Int
      /\ OpenLots(seen) \in Nat /\ Allowed \in Int /\ TypeOK
  BY CommandFacts, SideFacts, TargetFacts
  DEF Shape, TypeOK, LegShape, LegSide, QtyOnlyShrinks, Closing, Ours, Toward
<1>1. CASE pc' = "done"
  BY <1>1 DEF Closing, Opening
<1>2. CASE pc' # "done"
  <2>1. pc' = "open" /\ todo' = OpenLots(seen) /\ OpenLots(seen) > 0 /\ qty' = qty
    BY <1>2 DEF OpenLeg, Leg, Finish
  <2>2. Toward(seen, pos) = 0
    BY DEF Toward
  <2>3. Held(seen) = 0
    BY <1>0 DEF Held, AtLeast0
  <2>4. OpenLots(seen) <= Allowed
    <3>1. CASE Uncapped
      <4>1. qty <= Allowed
        BY <3>1, UncappedRoom DEF Shape, UncappedShape, Closing
      <4>2. OpenLots(seen) = qty
        BY <1>0, <2>1, <3>1 DEF OpenLots, AtLeast0, Uncapped
      <4> QED BY <4>1, <4>2
    <3>2. CASE ~Uncapped
      <4>1. OpenLots(seen) <= Target
        BY <1>0, <2>1, <2>3, <3>2 DEF OpenLots, Target, AtLeast0, Lesser, Kinds, Uncapped
      <4>2. Allowed = Target /\ Target \in Int
        BY <1>0, <3>2, TargetFacts DEF Allowed
      <4> QED BY <4>1, <4>2
    <3> QED BY <3>1, <3>2
  <2>5. Outlook' = Ours + OpenLots(seen)
    BY <1>0, <2>1, <2>2, SameBook DEF Outlook
  <2>6. Ours <= d
    BY <1>0, <2>2 DEF Outlook
  <2>7. Allowed' = Allowed
    BY <1>0, <2>1, TargetFacts
  <2> QED BY <1>0, <2>1, <2>4, <2>5, <2>6, <2>7 DEF Closing
<1> QED BY <1>1, <1>2

\* Placing an order moves lots from the plan to the book, or drops them from
\* it in a dry run; an order whose answer is lost stays in the plan as well.
LEMMA PlaceOutlook ==
  ASSUME Shape, PlaceAccepted \/ PlaceRaises \/ PlaceReconnects, pc' # "done"
  PROVE  /\ Closing' = Closing /\ Opening' = Opening /\ Allowed' = Allowed
         /\ Outlook \in Int /\ Outlook' \in Int
         /\ PlaceAccepted \/ UNCHANGED <<buying, selling>> => Outlook' <= Outlook
         /\ Outlook' <= Outlook + BatchQty
<1>0. /\ todo \in Nat /\ todo > 0 /\ BatchQty > 0 /\ BatchQty \in Nat
      /\ buying \in Nat /\ selling \in Nat /\ pos \in Int /\ seen \in Int
      /\ pc \in {"close", "open"}
  BY OrderConstants DEF Shape, TypeOK, LegShape, PlaceAccepted, PlaceRaises,
                        PlaceReconnects, Placing
<1>1. Batch \in Nat /\ todo - Batch \in Nat /\ Batch <= BatchQty
  BY <1>0 DEF Batch, Lesser
<1>2. UNCHANGED <<pos, cmd, seen, qty, base>>
  BY DEF PlaceAccepted, PlaceRaises, PlaceReconnects, Placing, Booked, Advance,
         SendAgain, Finish, book
<1>3. /\ Ours' \in {Ours, Ours + Batch} /\ Ours \in Nat
      /\ UNCHANGED <<buying, selling>> => Ours' = Ours
  <2>1. Booked \/ UNCHANGED book
    BY DEF PlaceAccepted, PlaceRaises, PlaceReconnects
  <2> QED BY <1>0, <1>2, <2>1 DEF Booked, Ours, Side, book
<1>4. Toward(seen, pos)' = Toward(seen, pos) /\ Toward(seen, pos) \in Int
  BY <1>0, <1>2 DEF Toward, Side
<1>5. Allowed' = Allowed
  BY <1>2, TargetFacts DEF Shape
<1>6. CASE PlaceAccepted
  <2>1. /\ todo' = todo - Batch
        /\ pc' = IF todo - Batch > 0 THEN pc
                 ELSE IF pc = "close" THEN "checkclose" ELSE "checkopen"
    BY <1>6 DEF PlaceAccepted, Advance
  <2>2. Closing' = Closing /\ Opening' = Opening
    BY <1>0, <2>1 DEF Closing, Opening
  <2> QED BY <1>0, <1>1, <1>3, <1>4, <1>5, <2>1, <2>2 DEF Outlook
<1>7. CASE ~PlaceAccepted
  <2>1. todo' = todo /\ pc' = pc
    BY <1>7 DEF PlaceRaises, PlaceReconnects, SendAgain, Finish
  <2>2. Closing' = Closing /\ Opening' = Opening
    BY <2>1 DEF Closing, Opening
  <2> QED BY <1>0, <1>1, <1>3, <1>4, <1>5, <1>7, <2>1, <2>2 DEF Outlook
<1> QED BY <1>6, <1>7

\* A lot that trades or is withdrawn takes the position no further than it
\* was headed for when nothing works against the command.
LEMMA BrokerOutlook ==
  ASSUME TypeOK, Fill \/ Withdraw
  PROVE  /\ Closing' = Closing /\ Opening' = Opening /\ Allowed' = Allowed
         /\ Theirs = 0 => Outlook' <= Outlook
         /\ Outlook \in Int /\ Outlook' \in Int
<1>0. /\ buying \in Nat /\ selling \in Nat /\ pos \in Int /\ seen \in Int
      /\ todo \in Nat
  BY DEF TypeOK
<1>1. UNCHANGED <<pc, cmd, qty, seen, base, todo>>
  BY DEF Fill, Withdraw, trader, plan
<1>2. \/ /\ buying > 0 /\ buying' = buying - 1 /\ selling' = selling
         /\ pos' = pos + 1 \/ pos' = pos
      \/ /\ selling > 0 /\ selling' = selling - 1 /\ buying' = buying
         /\ pos' = pos - 1 \/ pos' = pos
  BY DEF Fill, Withdraw
<1>3. Allowed' = Allowed /\ Side(seen)' = Side(seen)
  BY <1>1, TargetFacts DEF Side
<1>4. CASE Side(seen) = "B"
  <2>1. Outlook = pos + buying + todo /\ Outlook' = pos' + buying' + todo'
    BY <1>3, <1>4 DEF Outlook, Ours, Toward
  <2>2. Theirs = selling
    BY <1>4 DEF Theirs
  <2> QED BY <1>0, <1>1, <1>2, <1>3, <2>1, <2>2 DEF Closing, Opening
<1>5. CASE Side(seen) # "B"
  <2>1. /\ Outlook = (0 - pos) + selling + todo
        /\ Outlook' = (0 - pos') + selling' + todo'
    BY <1>3, <1>5 DEF Outlook, Ours, Toward
  <2>2. Theirs = buying
    BY <1>5 DEF Theirs
  <2> QED BY <1>0, <1>1, <1>2, <1>3, <2>1, <2>2 DEF Closing, Opening
<1> QED BY <1>4, <1>5

\* The allowance after a step is a number, too.
LEMMA AllowedAfter ==
  ASSUME TypeOK' PROVE Allowed' \in Int
<1>1. base' \in Int /\ qty' \in Int /\ cmd'.cap \in Nat /\ cmd'.qty \in Int
  BY OrderConstants DEF TypeOK, CommandType
<1>2. /\ cmd'.qty - 1 \in Int /\ qty' - 1 \in Int
  BY <1>1
<1>3. Triangle(cmd'.qty - 1) \in Int /\ Triangle(qty' - 1) \in Int
  BY <1>2, TriangleGrows
<1>4. Uncounted' \in Int
  <2>1. Uncounted' = IF Uncapped' /\ cmd'.qty > BatchQty
                     THEN Triangle(cmd'.qty - 1) - Triangle(qty' - 1) ELSE 0
    BY DEF Uncounted, Triangle
  <2> QED BY <1>3, <2>1
<1>5. Target' \in Int
  BY <1>1 DEF Target, Uncapped
<1> QED BY <1>4, <1>5 DEF Allowed

\* Inequalities, for the prover: h lots held or bought of a allowed, t still to
\* place, q to buy again.
LEMMA RoomKept ==
  ASSUME NEW h \in Int, NEW hh \in Int, NEW q \in Int, NEW a \in Int,
         hh <= h, h + q <= a
  PROVE  hh + q <= a
  OBVIOUS

LEMMA RoomAfterRefusal ==
  ASSUME NEW h \in Int, NEW t \in Int, NEW q \in Int, NEW a \in Int, NEW aa \in Int,
         NEW d \in Nat, t > 0, q > 1, q <= a, h + t <= d \/ h + t <= a + d,
         aa = a + q - 2 \/ (aa = a /\ (h + t <= d \/ t = q))
  PROVE  h + (q - 1) <= aa + d
  OBVIOUS

\* One step further for a BUY that starts over: a refusal in a leg leaves at
\* least one lot of it unplaced, all of them with one batch; no fill takes the
\* book past where it was headed.
LEMMA RestartStep ==
  ASSUME Shape, TypeOK', [Next]_vars, NEW d \in Nat,
         Closing => Outlook <= d, Opening => Outlook <= Allowed + d,
         StartsOver => pos + buying + qty <= Allowed + d
  PROVE  StartsOver' => pos' + buying' + qty' <= Allowed' + d
<1> SUFFICES ASSUME StartsOver' PROVE pos' + buying' + qty' <= Allowed' + d
  OBVIOUS
<1>0. /\ TypeOK /\ qty \in Int /\ pos \in Int /\ buying \in Nat /\ selling \in Nat
      /\ todo \in Int /\ Allowed \in Int /\ Allowed' \in Int /\ cmd.qty \in Int
      /\ pos' \in Int /\ buying \in Int /\ buying' \in Int /\ qty' \in Int
      /\ BatchQty \in Nat /\ Uncapped' /\ cmd'.kind = "BUY" /\ pc' \in {"positions", "orders", "cancel"} /\ base' # -1
  BY TargetFacts, AllowedAfter, CommandFacts, OrderConstants
  DEF Shape, TypeOK, Uncapped, StartsOver
<1>a. ASSUME UNCHANGED <<cmd, qty, base>>, pc \in {"positions", "orders", "cancel"},
             pos' + buying' <= pos + buying
      PROVE  pos' + buying' + qty' <= Allowed' + d
  <2>1. Allowed' = Allowed /\ StartsOver
    BY <1>0, <1>a, TargetFacts DEF Uncapped, StartsOver
  <2>2. (pos + buying) + qty <= Allowed + d
    BY <1>a, <2>1
  <2>3. pos + buying \in Int /\ pos' + buying' \in Int /\ Allowed + d \in Int
    BY <1>0
  <2>4. (pos' + buying') + qty <= Allowed + d
    BY <1>0, <1>a, <2>2, <2>3, RoomKept
  <2> QED BY <1>a, <2>1, <2>4
<1>1. CASE ReadPositions \/ CancelTrades
  <2>1. /\ UNCHANGED <<cmd, qty, base, pos>> /\ pc \in {"positions", "cancel"}
        /\ buying' <= buying
    BY <1>0, <1>1 DEF ReadPositions, CancelTrades, Kept, book
  <2>2. pos' + buying' <= pos + buying
    <3>1. \A p, b, pp, bb \in Int : pp = p /\ bb <= b => pp + bb <= p + b
      OBVIOUS
    <3> QED BY <1>0, <2>1, <3>1
  <2> QED BY <1>a, <2>1, <2>2
<1>2. CASE ReadOrders \/ QueryFails
  <2>1. /\ UNCHANGED <<cmd, qty, base, pos, buying>> /\ pc = "orders"
    BY <1>0, <1>2 DEF ReadOrders, QueryFails, ActOn, CloseLeg, OpenLeg, Leg, Finish, book
  <2>2. pos' + buying' <= pos + buying
    BY <1>0, <2>1
  <2> QED BY <1>a, <2>1, <2>2
<1>3. CASE MarginShort
  <2>1. /\ UNCHANGED <<cmd, seen, base, pos, buying>> /\ pc \in {"close", "open"}
        /\ NotEnoughMoney
    BY <1>3 DEF MarginShort, Placing, book
  <2>2. Uncapped /\ base # -1 /\ cmd.kind = "BUY"
    BY <1>0, <2>1 DEF Uncapped
  <2>3. /\ 0 < qty /\ qty <= cmd.qty /\ qty <= Allowed
    BY <2>1, <2>2, UncappedRoom
  <2>4. qty > 1 /\ qty' = qty - 1
    BY <1>0, <2>1, <2>2, OrderConstants DEF NotEnoughMoney, StartOver, Finish
  <2>5. /\ cmd.qty > BatchQty => Allowed' = Allowed + qty - 2
        /\ ~(cmd.qty > BatchQty) => Allowed' = Allowed
    BY <2>1, <2>2, <2>4, OneLotLess
  <2>6. Outlook = (pos + buying) + todo /\ todo > 0 /\ pos + buying \in Int
    BY <1>0, <2>1, <2>2 DEF Outlook, Toward, Ours, Side, Shape, LegShape
  <2>7. \/ (pos + buying) + todo <= d
        \/ (pos + buying) + todo <= Allowed + d
    BY <2>1, <2>6 DEF Closing, Opening
  <2>8. ~(cmd.qty > BatchQty) => (pos + buying) + todo <= d \/ todo = qty
    <3>1. CASE pc = "close"
      BY <2>6, <3>1 DEF Closing
    <3>2. CASE pc = "open" /\ ~(cmd.qty > BatchQty)
      BY <1>0, <2>2, <3>2 DEF Shape, UncappedShape
    <3> QED BY <2>1, <3>1, <3>2
  <2>9. (pos + buying) + (qty - 1) <= Allowed' + d
    <3>1. \/ Allowed' = Allowed + qty - 2
          \/ Allowed' = Allowed /\ ((pos + buying) + todo <= d \/ todo = qty)
      BY <2>5, <2>8
    <3> QED BY <1>0, <2>3, <2>4, <2>6, <2>7, <3>1, RoomAfterRefusal
  <2> QED BY <2>1, <2>4, <2>9
<1>4. ~(CheckRaises \/ PlaceRejected \/ CheckPasses)
  BY <1>0 DEF CheckRaises, PlaceRejected, CheckPasses, Checking, NeedRetry,
              OpenLeg, Leg, Finish
<1>5. ~(PlaceAccepted \/ PlaceRaises \/ PlaceReconnects)
  BY <1>0 DEF PlaceAccepted, PlaceRaises, PlaceReconnects, Placing, Advance,
              SendAgain, Finish
<1>6. CASE Fill \/ Withdraw
  <2>1. /\ UNCHANGED <<pc, cmd, qty, base>>
        /\ \/ buying' = buying - 1 /\ pos' \in {pos, pos + 1}
           \/ buying' = buying /\ pos' \in {pos, pos - 1}
    BY <1>6 DEF Fill, Withdraw, trader
  <2>2. pos' + buying' <= pos + buying
    <3>1. \A p, b, pp, bb \in Int :
            \/ bb = b - 1 /\ pp \in {p, p + 1}
            \/ bb = b /\ pp \in {p, p - 1}
            => pp + bb <= p + b
      OBVIOUS
    <3> QED BY <1>0, <2>1, <3>1
  <2> QED BY <1>0, <1>a, <2>1, <2>2
<1>7. \A c \in Commands : ~Begin(c)
  BY <1>0 DEF Begin
<1>8. CASE UNCHANGED vars
  <2>1. /\ UNCHANGED <<cmd, qty, base>> /\ pc \in {"positions", "orders", "cancel"}
        /\ pos' + buying' <= pos + buying
    BY <1>0, <1>8 DEF vars
  <2> QED BY <1>a, <2>1
<1> QED BY <1>1, <1>2, <1>3, <1>4, <1>5, <1>6, <1>7, <1>8 DEF Next, TraderStep

\* One step further: with at most d lots of slack before it and e after it, e
\* at least a batch more when an order is doubled.
LEMMA OvershootStep ==
  ASSUME Faults \cap {"cancel_error", "refresh_error"} = {},
         CrossInv, CrossInv', [Next]_vars,
         NEW d \in Nat, NEW e \in Nat, d <= e,
         PlaceRaises \/ PlaceReconnects => UNCHANGED <<buying, selling>> \/ d + BatchQty <= e,
         pc = "orders" => pos - seen <= d /\ seen - pos <= d,
         Closing => Outlook <= d, Opening => Outlook <= Allowed + d,
         StartsOver => pos + buying + qty <= Allowed + d
  PROVE  (Closing' => Outlook' <= e) /\ (Opening' => Outlook' <= Allowed' + e)
<1> DEFINE Goal == (Closing' => Outlook' <= e) /\ (Opening' => Outlook' <= Allowed' + e)
<1>0. /\ Shape /\ Shape' /\ TypeOK /\ TypeOK'
      /\ BatchQty \in Nat /\ Allowed \in Int /\ Allowed' \in Int
      /\ Outlook \in Int /\ Outlook' \in Int
      /\ buying \in Nat /\ selling \in Nat /\ pos \in Int /\ seen \in Int
  <2>1. TypeOK /\ TypeOK' /\ Shape /\ Shape'
    BY DEF CrossInv, Shape
  <2>2. Allowed \in Int
    BY <2>1, TargetFacts
  <2>3. Allowed' \in Int
    BY <2>1, AllowedAfter
  <2>4. Outlook \in Int /\ Outlook' \in Int
    BY <2>1 DEF TypeOK, Outlook, Toward, Ours
  <2> QED BY <2>1, <2>2, <2>3, <2>4, OrderConstants DEF TypeOK
<1>a. ASSUME pc' \in {"idle", "positions", "orders", "cancel", "done"} PROVE Goal
  BY <1>a DEF Closing, Opening
<1>b. ASSUME Closing' = Closing, Opening' = Opening, Allowed' = Allowed, Outlook' <= Outlook
      PROVE  Goal
  BY <1>0, <1>b
<1>c. ASSUME Closing' => Outlook' <= d, Opening' => Outlook' <= Allowed' + d
      PROVE  Goal
  <2>1. ASSUME Closing' PROVE Outlook' <= e
    BY <1>0, <1>c, <2>1
  <2>2. ASSUME Opening' PROVE Outlook' <= Allowed' + e
    <3>1. Outlook' <= Allowed' + d
      BY <1>c, <2>2
    <3>2. \A o, t \in Int : o <= t + d => o <= t + e
      OBVIOUS
    <3> QED BY <1>0, <3>1, <3>2
  <2> QED BY <2>1, <2>2
<1>1. ASSUME NEW c \in Commands, Begin(c) PROVE Goal
  BY <1>1, <1>a DEF Begin
<1>2. CASE ReadPositions \/ CancelTrades
  BY <1>2, <1>a DEF ReadPositions, CancelTrades
<1>3. CASE ReadOrders
  <2>1. CASE pc' \in {"cancel", "done"}
    BY <1>a, <2>1
  <2>2. CASE pc' \notin {"cancel", "done"}
    <3>1. /\ pc = "orders" /\ ActOn(seen) /\ ~CapReached(seen)
          /\ ~(Listed /\ snapshot = "first")
          /\ UNCHANGED <<pos, buying, selling, cmd, seen>>
      BY <1>3, <2>2 DEF ReadOrders, ActOn, Finish, Leg, book
    <3>2. buying = 0 /\ selling = 0
      <4>1. snapshot = "fresh" => buying = 0 /\ selling = 0
        BY <3>1 DEF CrossInv, FreshIsClear
      <4>2. ~Listed => buying = 0 /\ selling = 0
        BY <1>0 DEF Listed
      <4>3. snapshot \in {"first", "fresh"}
        BY <1>0 DEF TypeOK
      <4> QED BY <3>1, <4>1, <4>2, <4>3
    <3>3. (Closing' => Outlook' <= d) /\ (Opening' => Outlook' <= Allowed' + d)
      BY <1>0, <3>1, <3>2, FirstLegOutlook
    <3> QED BY <1>c, <3>3
  <2> QED BY <2>1, <2>2
<1>4. CASE QueryFails
  BY <1>4, <1>a DEF QueryFails, Inject, Finish
<1>5. CASE (PlaceAccepted \/ PlaceRaises \/ PlaceReconnects) /\ pc' # "done"
  <2>1. /\ Closing' = Closing /\ Opening' = Opening /\ Allowed' = Allowed
        /\ PlaceAccepted \/ UNCHANGED <<buying, selling>> => Outlook' <= Outlook
        /\ Outlook' <= Outlook + BatchQty
    BY <1>0, <1>5, PlaceOutlook
  <2>2. CASE Outlook' <= Outlook
    BY <1>b, <2>1, <2>2
  <2>3. CASE ~(Outlook' <= Outlook)
    <3>1. d + BatchQty <= e
      BY <1>5, <2>1, <2>3
    <3> QED BY <1>0, <2>1, <3>1
  <2> QED BY <2>2, <2>3
<1>6. CASE (PlaceAccepted \/ PlaceRaises \/ PlaceReconnects) /\ pc' = "done"
  BY <1>6, <1>a
<1>7. CASE MarginShort \/ CheckRaises \/ PlaceRejected
  BY <1>7, <1>a DEF MarginShort, CheckRaises, PlaceRejected, NotEnoughMoney,
                    NeedRetry, Finish, StartOver
<1>8. CASE CheckPasses
  <2>1. UNCHANGED <<pos, buying, selling, cmd, seen, base>> /\ Expected
    BY <1>8 DEF CheckPasses, Checking, book
  <2>2. CASE placed > 1
    <3>1. UNCHANGED <<pc, qty, todo>>
      BY <1>8, <2>2 DEF CheckPasses
    <3>2. Outlook' = Outlook /\ Allowed' = Allowed
      BY <2>1, <3>1, SameBook, TargetFacts, <1>0 DEF Outlook
    <3> QED BY <1>0, <1>b, <3>1, <3>2 DEF Closing, Opening
  <2>3. CASE ~(placed > 1) /\ pc = "checkclose" /\ cmd.kind # "MAYDAY"
    <3>1. pos = 0 /\ OpenLeg(seen) /\ Outlook <= d
      BY <1>8, <2>1, <2>3 DEF CheckPasses, Expected, Closing
    <3>2. ~Closing' /\ (Opening' => Outlook' <= Allowed' + d)
      BY <1>0, <2>1, <2>3, <3>1, SecondLegOutlook
    <3> QED BY <1>c, <3>2
  <2>4. CASE ~(placed > 1) /\ ~(pc = "checkclose" /\ cmd.kind # "MAYDAY")
    BY <1>8, <1>a, <2>4 DEF CheckPasses, Finish
  <2> QED BY <2>2, <2>3, <2>4
<1>9. CASE Fill \/ Withdraw
  <2>1. /\ Closing' = Closing /\ Opening' = Opening /\ Allowed' = Allowed
        /\ Theirs = 0 => Outlook' <= Outlook
    BY <1>0, <1>9, BrokerOutlook
  <2>2. Closing \/ Opening => Theirs = 0
    BY DEF CrossInv, NoCrossing
  <2> QED BY <1>b, <2>1, <2>2
<1>10. CASE UNCHANGED vars
  <2>1. Outlook' = Outlook /\ Allowed' = Allowed
    BY <1>10, <1>0, SameBook, TargetFacts DEF vars, Outlook
  <2> QED BY <1>0, <1>10, <1>b, <2>1 DEF vars, Closing, Opening
<1> QED BY <1>1, <1>2, <1>3, <1>4, <1>5, <1>6, <1>7, <1>8, <1>9, <1>10
        DEF Next, TraderStep

\* The lots the injected faults may have cost: a batch for each.
Slack == BatchQty * faults

\* How far past what NoOvershoot allows a command can go: a batch for every
\* fault, be it an order sent twice or a lot that fills between the two queries
\* of a snapshot.
OvershootIsPaidFor ==
  /\ Closing => Outlook <= Slack
  /\ Opening => Outlook <= Target + Uncounted + Slack

\* The same for a BUY without a cap that starts over.
RestartIsPaidFor == StartsOver => pos + buying + qty <= Target + Uncounted + Slack

\* The position read is off by at most the lots that moved while it was read.
Drift == pc = "orders" => pos - seen <= faults /\ seen - pos <= faults

\* Multiplication, for the prover.
LEMMA BatchPerFault ==
  ASSUME NEW b \in Nat \ {0}, NEW f \in Nat
  PROVE  b * f \in Nat /\ f <= b * f /\ b * (f + 1) = b * f + b
  OBVIOUS

\* A fault adds a batch of slack and one lot of drift.
LEMMA PaidStep ==
  ASSUME Faults \cap {"cancel_error", "refresh_error"} = {},
         CrossInv, CrossInv', Drift, OvershootIsPaidFor, RestartIsPaidFor, [Next]_vars
  PROVE  Drift' /\ OvershootIsPaidFor' /\ RestartIsPaidFor'
<1> USE DEF Inject
<1>0. /\ faults \in Nat /\ faults' \in Nat /\ BatchQty \in Nat \ {0}
      /\ pos \in Int /\ seen \in Int
  BY OrderConstants DEF CrossInv, Shape, TypeOK
<1>1. faults' = faults \/ faults' = faults + 1
  BY <1>0 DEF Next, Begin, TraderStep, ReadPositions, ReadOrders, QueryFails,
     CancelTrades, PlaceAccepted, MarginShort, PlaceRejected, PlaceRaises,
     PlaceReconnects, CheckPasses, CheckRaises, Fill, Withdraw, Moves, vars
<1>2. PICK d \in Nat : d = Slack /\ faults <= d
  BY <1>0, BatchPerFault DEF Slack
<1>3. PICK e \in Nat : /\ e = Slack' /\ d <= e
                       /\ faults' = faults + 1 => e = d + BatchQty
  <2>1. CASE faults' = faults
    BY <1>0, <1>2, <2>1 DEF Slack
  <2>2. CASE faults' = faults + 1
    <3>1. Slack' = BatchQty * (faults + 1)
      BY <2>2 DEF Slack
    <3>2. Slack' = d + BatchQty
      BY <1>0, <1>2, <3>1, BatchPerFault DEF Slack
    <3> QED BY <1>0, <1>2, <3>2
  <2> QED BY <1>1, <2>1, <2>2
<1>4. Drift'
  <2>1. CASE pc' # "orders"
    BY <2>1 DEF Drift
  <2>2. CASE ReadPositions
    BY <1>0, <2>2 DEF ReadPositions, Drift, book
  <2>3. CASE pc' = "orders" /\ ~ReadPositions
    <3>1. CASE UNCHANGED vars
      BY <3>1 DEF vars, Drift
    <3>2. CASE Fill \/ Withdraw
      <4>1. /\ pc = "orders" /\ seen' = seen /\ faults' = faults + 1
            /\ pos' = pos \/ pos' = pos + 1 \/ pos' = pos - 1
        BY <2>3, <3>2 DEF Fill, Withdraw, Moves, trader
      <4> QED BY <1>0, <4>1 DEF Drift
    <3>3. ~(CancelTrades \/ PlaceAccepted \/ PlaceRaises \/ PlaceReconnects)
      BY <2>3 DEF CancelTrades, PlaceAccepted, PlaceRaises, PlaceReconnects,
                  Placing, Advance, SendAgain, Finish
    <3>4. ~(MarginShort \/ CheckRaises \/ PlaceRejected \/ CheckPasses)
      BY <2>3 DEF MarginShort, CheckRaises, PlaceRejected, CheckPasses, Checking,
                  NotEnoughMoney, NeedRetry, OpenLeg, Leg, Finish, StartOver
    <3>5. ~(ReadOrders \/ QueryFails)
      BY <2>3 DEF ReadOrders, QueryFails, ActOn, CloseLeg, OpenLeg, Leg, Finish
    <3>6. \A c \in Commands : ~Begin(c)
      BY <2>3 DEF Begin
    <3> QED BY <2>3, <3>1, <3>2, <3>3, <3>4, <3>5, <3>6 DEF Next, TraderStep
  <2> QED BY <2>1, <2>2, <2>3
<1>5. /\ pc = "orders" => pos - seen <= d /\ seen - pos <= d
      /\ Closing => Outlook <= d
      /\ Opening => Outlook <= Allowed + d
      /\ StartsOver => pos + buying + qty <= Allowed + d
  <2>1. pc = "orders" => pos - seen <= d /\ seen - pos <= d
    BY <1>0, <1>2 DEF Drift
  <2>2. /\ Closing => Outlook <= d
        /\ Opening => Outlook <= Allowed + d
        /\ StartsOver => pos + buying + qty <= Allowed + d
    BY <1>2 DEF OvershootIsPaidFor, RestartIsPaidFor, Allowed
  <2> QED BY <2>1, <2>2
<1>6. OvershootIsPaidFor'
  <2>1. PlaceRaises \/ PlaceReconnects => d + BatchQty <= e
    BY <1>0, <1>3 DEF PlaceRaises, PlaceReconnects
  <2>2. (Closing' => Outlook' <= e) /\ (Opening' => Outlook' <= Allowed' + e)
    BY <1>3, <1>5, <2>1, OvershootStep
  <2> QED BY <1>3, <2>2 DEF OvershootIsPaidFor, Allowed
<1>7. RestartIsPaidFor'
  <2>1. StartsOver' => pos' + buying' + qty' <= Allowed' + d
    BY <1>5, RestartStep DEF CrossInv, Shape
  <2>2. pos' + buying' + qty' \in Int /\ Allowed' \in Int
    BY AllowedAfter DEF CrossInv, Shape, TypeOK
  <2>3. \A r, a, m, n \in Int : m <= n /\ r <= a + m => r <= a + n
    OBVIOUS
  <2>4. d \in Int /\ e \in Int /\ d <= e
    BY <1>3
  <2>5. StartsOver' => pos' + buying' + qty' <= Allowed' + e
    BY <2>1, <2>2, <2>3, <2>4
  <2> QED BY <1>3, <2>5 DEF RestartIsPaidFor, Allowed
<1> QED BY <1>4, <1>6, <1>7

\* A command goes past what was asked for by what the margin retries of a BUY
\* without a cap leave uncounted (fubon_api.py:1513-1521) and by what faults
\* cost, no more: as long as no cancel is lost and no refresh fails, a doubled
\* order (1212-1244) or a lot filled inside a snapshot (986-1043) costs at most
\* one batch, whatever is retried after it.
THEOREM OvershootNeedsFaults ==
  ASSUME Faults \cap {"cancel_error", "refresh_error"} = {}
  PROVE  Spec => []OvershootIsPaidFor
<1>1. Init => Drift /\ OvershootIsPaidFor /\ RestartIsPaidFor
  BY DEF Init, Drift, OvershootIsPaidFor, RestartIsPaidFor, StartsOver, Closing, Opening
<1>2. CrossInv /\ CrossInv' /\ Drift /\ OvershootIsPaidFor /\ RestartIsPaidFor
        /\ [Next]_vars
        => Drift' /\ OvershootIsPaidFor' /\ RestartIsPaidFor'
  BY PaidStep
<1>3. "cancel_error" \notin Faults
  OBVIOUS
<1>4. Spec => []CrossInv
  BY <1>3, CrossHolds
<1> QED BY <1>1, <1>2, <1>4, PTL DEF Spec

-----------------------------------------------------------------------------
(* The inductive invariant of a calm run.                                  *)

\* It adds to CrossInv that a snapshot is true and that no slack is needed.
LEMMA IInvParts ==
  IInv <=> CrossInv /\ SnapshotIsTrue /\ NoOvershoot /\ RestartIsCounted
  BY DEF IInv, CrossInv, Shape, FreshIsClear, SnapshotIsTrue

\* Nothing moves the book inside a snapshot of a calm run.
LEMMA SnapshotStep ==
  ASSUME Calm, IInv, CrossInv', [Next]_vars
  PROVE  SnapshotIsTrue'
<1>1. FreshIsClear'
  BY DEF CrossInv
<1>2. ASSUME pc' = "orders" PROVE seen' = pos'
  <2> USE DEF Inject
  <2>1. CASE ReadPositions
    BY <2>1 DEF ReadPositions, book
  <2>2. CASE UNCHANGED vars
    BY <1>2, <2>2 DEF vars, IInv, SnapshotIsTrue
  <2>3. ~(Fill \/ Withdraw)
    BY <1>2 DEF Fill, Withdraw, Moves, trader, Calm
  <2>4. ~(CancelTrades \/ PlaceAccepted \/ PlaceRaises \/ PlaceReconnects)
    BY <1>2 DEF CancelTrades, PlaceAccepted, PlaceRaises, PlaceReconnects,
                Placing, Advance, SendAgain, Finish
  <2>5. ~(MarginShort \/ CheckRaises \/ PlaceRejected \/ CheckPasses)
    BY <1>2 DEF MarginShort, CheckRaises, PlaceRejected, CheckPasses, Checking,
                NotEnoughMoney, NeedRetry, OpenLeg, Leg, Finish, StartOver
  <2>6. ~(ReadOrders \/ QueryFails)
    BY <1>2 DEF ReadOrders, QueryFails, ActOn, CloseLeg, OpenLeg, Leg, Finish
  <2>7. \A c \in Commands : ~Begin(c)
    BY <1>2 DEF Begin
  <2> QED BY <2>1, <2>2, <2>3, <2>4, <2>5, <2>6, <2>7 DEF Next, TraderStep
<1> QED BY <1>1, <1>2 DEF SnapshotIsTrue, FreshIsClear

\* Every step of a calm run keeps the invariant.
LEMMA StepIInv == Calm /\ IInv /\ [Next]_vars => IInv'
<1> SUFFICES ASSUME Calm, IInv, [Next]_vars PROVE IInv'
  OBVIOUS
<1>1. /\ Faults \cap {"cancel_error", "refresh_error"} = {}
      /\ "cancel_error" \notin Faults
  BY DEF Calm
<1>2. CrossInv /\ SnapshotIsTrue /\ NoOvershoot /\ RestartIsCounted
  BY IInvParts
<1>3. CrossInv'
  <2>1. Shape'
    BY <1>2, ShapeStep DEF CrossInv
  <2> QED BY <1>1, <1>2, <2>1, CrossStep DEF CrossInv
<1>4. SnapshotIsTrue'
  BY <1>3, SnapshotStep
<1>5. Allowed \in Int /\ Allowed' \in Int /\ TypeOK' /\ Shape
  BY <1>2, <1>3, TargetFacts, AllowedAfter DEF CrossInv, Shape
<1>6. /\ Closing => Outlook <= 0
      /\ Opening => Outlook <= Allowed + 0
      /\ StartsOver => pos + buying + qty <= Allowed + 0
  BY <1>2, <1>5 DEF NoOvershoot, RestartIsCounted, Allowed
<1>7. NoOvershoot'
  <2>1. PlaceRaises \/ PlaceReconnects => UNCHANGED <<buying, selling>>
    BY DEF PlaceRaises, PlaceReconnects, Inject, Calm, book
  <2>2. pc = "orders" => pos - seen <= 0 /\ seen - pos <= 0
    BY <1>2 DEF SnapshotIsTrue, CrossInv, Shape, TypeOK
  <2>3. (Closing' => Outlook' <= 0) /\ (Opening' => Outlook' <= Allowed' + 0)
    BY <1>1, <1>2, <1>3, <1>6, <2>1, <2>2, OvershootStep
  <2> QED BY <1>5, <2>3 DEF NoOvershoot, Allowed
<1>8. RestartIsCounted'
  <2>1. StartsOver' => pos' + buying' + qty' <= Allowed' + 0
    BY <1>5, <1>6, RestartStep
  <2> QED BY <1>5, <2>1 DEF RestartIsCounted, Allowed
<1> QED BY <1>2, <1>3, <1>4, <1>7, <1>8 DEF IInv, CrossInv, Shape

\* In a calm run the invariant holds for every choice of the constants.
THEOREM Invariance ==
  ASSUME Calm PROVE Spec => []IInv
<1>1. Init /\ TypeOK => IInv
  BY CommandFacts
  DEF Init, IInv, SnapshotIsTrue, LegShape, LegSide, QtyStaysPositive, QtyOnlyShrinks,
      UncappedShape, StartsOver, RestartIsCounted, NoOvershoot, NoCrossing, Closing, Opening
<1>2. IInv /\ [Next]_vars => IInv'
  BY StepIInv
<1> QED BY <1>1, <1>2, TypeCorrect, PTL DEF Spec

\* No order of a command takes the position past what was asked for when it
\* first acted: MAYDAY and the closing legs (fubon_api.py:1443-1470, 1553-1580)
\* never flip a position, and nothing opens more, but for a BUY without a cap of
\* several batches, whose margin retries (1513-1521) buy again what they do not
\* count, by at most Uncounted.
THEOREM OrdersNeverOvershoot ==
  ASSUME Calm PROVE Spec => []NoOvershoot
<1>1. IInv => NoOvershoot
  BY DEF IInv
<1> QED BY <1>1, Invariance, PTL

\* The cap of a BUY (max_qty) holds in every calm run, over batches, retries and
\* the orders of earlier commands (_buy_futures).
THEOREM CapHolds ==
  ASSUME Calm PROVE Spec => []CapRespected
<1>1. IInv => CapRespected
  <2> SUFFICES ASSUME IInv, Opening, cmd.kind = "BUY", cmd.cap > 0
               PROVE  pos + buying <= cmd.cap
    BY DEF CapRespected
  <2>1. Side(seen) = "B"
    BY DEF Side
  <2>2. Outlook = pos + buying + todo
    BY <2>1 DEF Outlook, Toward, Ours
  <2>3. Outlook <= cmd.cap
    <3>1. Target = cmd.cap
      BY DEF Target, Uncapped
    <3>2. Uncounted = 0 /\ cmd.cap \in Int
      BY CommandFacts, TargetFacts DEF IInv, Uncapped
    <3> QED BY <3>1, <3>2 DEF IInv, NoOvershoot
  <2>4. pos \in Int /\ buying \in Nat /\ todo \in Nat /\ cmd.cap \in Nat
    BY CommandFacts DEF IInv, TypeOK
  <2> QED BY <2>2, <2>3, <2>4
<1> QED BY <1>1, Invariance, PTL

-----------------------------------------------------------------------------
(* Dry runs.                                                               *)

\* A leg starts on the book of its snapshot, with nothing working.
LEMMA DryStep == Calm /\ IInv /\ DryRunTradesNothing /\ [Next]_vars => DryRunTradesNothing'
<1> SUFFICES ASSUME Calm, IInv, DryRunTradesNothing, [Next]_vars,
                    cmd'.dry, Closing' \/ Opening'
             PROVE  buying' = 0 /\ selling' = 0 /\ pos' = seen'
  BY DEF DryRunTradesNothing
<1> USE DEF DryRunTradesNothing, book
<1>0. pc' \in {"close", "checkclose", "open", "checkopen"}
  BY DEF Closing, Opening
<1>b. buying \in Nat /\ selling \in Nat
  BY DEF IInv, TypeOK
<1>1. CASE ReadOrders
  <2>1. ~(Listed /\ snapshot = "first") /\ pc = "orders"
    BY <1>0, <1>1 DEF ReadOrders, ActOn, Finish, Leg
  <2>2. buying = 0 /\ selling = 0 /\ pos = seen
    BY <1>b, <2>1 DEF Listed, IInv, SnapshotIsTrue, TypeOK
  <2> QED BY <1>1, <2>2 DEF ReadOrders, ActOn
<1>2. CASE PlaceAccepted
  <2>1. cmd' = cmd /\ seen' = seen /\ pc \in {"close", "open"}
    BY <1>2 DEF PlaceAccepted, Placing
  <2>2. UNCHANGED book
    BY <1>2, <2>1 DEF PlaceAccepted, InDry
  <2> QED BY <2>1, <2>2 DEF Closing, Opening
<1>3. CASE PlaceRaises \/ PlaceReconnects
  BY <1>3 DEF PlaceRaises, PlaceReconnects, Placing, InDry
<1>4. CASE CheckPasses \/ CheckRaises
  <2>1. UNCHANGED <<pos, buying, selling, cmd, seen>> /\ (Closing \/ Opening)
    BY <1>4 DEF CheckPasses, CheckRaises, Checking, Closing, Opening
  <2> QED BY <2>1
<1>5. CASE Fill \/ Withdraw
  <2>1. UNCHANGED <<pc, cmd, seen>>
    BY <1>5 DEF Fill, Withdraw, trader
  <2>2. buying = 0 /\ selling = 0
    BY <2>1 DEF Closing, Opening
  <2> QED BY <1>5, <2>2 DEF Fill, Withdraw
<1>6. ~(ReadPositions \/ CancelTrades \/ PlaceRejected \/ MarginShort)
  BY <1>0 DEF ReadPositions, CancelTrades, PlaceRejected, MarginShort,
              NotEnoughMoney, Finish, StartOver
<1>7. ~QueryFails
  BY <1>0 DEF QueryFails, Inject, Calm, Finish
<1>8. \A c \in Commands : ~Begin(c)
  BY <1>0 DEF Begin
<1>9. CASE UNCHANGED vars
  BY <1>9 DEF vars, Closing, Opening
<1> QED BY <1>1, <1>2, <1>3, <1>4, <1>5, <1>6, <1>7, <1>8, <1>9 DEF Next, TraderStep

\* In a calm run a dry command leaves nothing working and moves no lot, for
\* any commands, batches and retries (_place_order, _cancel_ongoing_trades).
THEOREM DryRunsAreDry ==
  ASSUME Calm PROVE Spec => []DryRunTradesNothing
<1>1. Init => DryRunTradesNothing
  BY DEF Init, DryRunTradesNothing, Closing, Opening
<1> QED BY <1>1, DryStep, Invariance, PTL DEF Spec

-----------------------------------------------------------------------------
(* A success is real when it is reported.                                  *)

\* A running command has not answered.
Pending == pc # "done" => result = "none"

LEMMA PendingStep == Pending /\ [Next]_vars => Pending'
<1> SUFFICES ASSUME Pending, [Next]_vars PROVE Pending'
  OBVIOUS
<1> USE DEF Pending
<1>1. ASSUME NEW p, Move(p) PROVE Pending' \/ pc = "done"
  BY <1>1 DEF Move, CloseLeg, OpenLeg, NeedRetry, NotEnoughMoney, Finish, Leg, StartOver
<1>2. CASE TraderStep
  <2>1. pc # "done"
    BY <1>2 DEF TraderStep, ReadPositions, ReadOrders, QueryFails, CancelTrades,
       PlaceAccepted, MarginShort, PlaceRejected, PlaceRaises, PlaceReconnects,
       Placing, CheckPasses, CheckRaises, Checking
  <2>2. CASE ReadPositions \/ CancelTrades \/ PlaceAccepted
    BY <2>1, <2>2 DEF ReadPositions, CancelTrades, PlaceAccepted, Advance
  <2>3. CASE ReadOrders \/ QueryFails \/ MarginShort \/ PlaceRejected \/ CheckRaises
    <3>1. \E p \in {seen, 0} : Move(p)
      BY <2>3 DEF ReadOrders, QueryFails, ActOn, MarginShort, PlaceRejected, CheckRaises, Move
    <3> QED BY <1>1, <2>1, <3>1
  <2>4. CASE PlaceRaises \/ PlaceReconnects
    BY <2>1, <2>4 DEF PlaceRaises, PlaceReconnects, SendAgain, Finish
  <2>5. CASE CheckPasses
    BY <2>1, <2>5 DEF CheckPasses, OpenLeg, Finish, Leg
  <2> QED BY <1>2, <2>2, <2>3, <2>4, <2>5 DEF TraderStep
<1>3. CASE Fill \/ Withdraw \/ UNCHANGED vars
  BY <1>3 DEF Fill, Withdraw, trader, vars
<1>4. ASSUME NEW c \in Commands, Begin(c) PROVE Pending'
  BY <1>4 DEF Begin
<1> QED BY <1>2, <1>3, <1>4 DEF Next

\* Having nothing to open means having reached the target already.
LEMMA NothingToOpen ==
  ASSUME IInv, pc \notin {"idle", "done"}, OpenLots(seen) <= 0,
         ~CapReached(seen), cmd.kind # "MAYDAY"
  PROVE  cmd.kind # "BUY" /\ (cmd.qty > 0 => Held(seen) > 0)
<1>0. /\ cmd.kind \in Kinds /\ cmd.qty \in Int /\ cmd.cap \in Nat
      /\ qty \in Int /\ Held(seen) \in Nat
  BY CommandFacts, SideFacts DEF IInv, TypeOK
<1>1. cmd.kind = "BUY" \/ cmd.qty > 0 => qty > 0
  BY DEF IInv, QtyStaysPositive
<1>2. CASE cmd.kind = "BUY" /\ cmd.cap = 0
  BY <1>0, <1>1, <1>2 DEF OpenLots, AtLeast0, Uncapped
<1>3. CASE cmd.kind = "BUY" /\ cmd.cap > 0
  <2>1. Held(seen) < cmd.cap /\ qty > 0
    BY <1>0, <1>1, <1>3 DEF CapReached
  <2>2. OpenLots(seen) = Lesser(AtLeast0(qty), AtLeast0(cmd.cap - Held(seen)))
    BY <1>3 DEF OpenLots, Uncapped
  <2> QED BY <1>0, <2>1, <2>2 DEF AtLeast0, Lesser
<1>4. CASE cmd.kind # "BUY"
  <2>1. OpenLots(seen) = AtLeast0(qty - Held(seen))
    BY <1>4 DEF OpenLots, Uncapped
  <2> QED BY <1>0, <1>1, <1>4, <2>1 DEF AtLeast0
<1> QED BY <1>0, <1>2, <1>3, <1>4

\* A success read off the snapshot.
LEMMA SuccessAtOnce ==
  ASSUME Calm, IInv, Pending, ReadOrders, result' = "ok"
  PROVE  Achieved'
<1>0. /\ UNCHANGED <<pos, buying, selling, cmd, seen>>
      /\ pc = "orders" /\ pos = seen /\ result = "none"
  BY DEF ReadOrders, book, IInv, SnapshotIsTrue, Pending
<1>1. /\ cmd.kind \in Kinds /\ cmd.cap \in Nat
      /\ seen \in Int /\ pos \in Int /\ buying \in Nat /\ selling \in Nat
      /\ Against(seen) \in Nat /\ OpenLots(seen) \in Nat
  BY CommandFacts, SideFacts DEF IInv, TypeOK
<1>2. CASE CapReached(seen)
  BY <1>0, <1>1, <1>2 DEF CapReached, Held, AtLeast0, Toward, Side, Achieved
<1>3. CASE ~CapReached(seen)
  <2>1. CloseLeg(seen) /\ ~(Listed /\ snapshot = "first")
    BY <1>0, <1>3 DEF ReadOrders, ActOn, Leg
  <2>2. buying = 0 /\ selling = 0
    BY <1>0, <1>1, <2>1 DEF Listed, IInv, SnapshotIsTrue, TypeOK
  <2>3. Against(seen) <= 0
    BY <1>0, <1>1, <2>1 DEF CloseLeg, Leg
  <2>4. CASE cmd.kind = "MAYDAY"
    <3>1. seen = 0
      BY <1>1, <2>3, <2>4 DEF Against, AtLeast0, Toward, Side
    <3> QED BY <1>0, <2>2, <2>4, <3>1 DEF Achieved
  <2>5. CASE cmd.kind # "MAYDAY"
    <3>1. OpenLeg(seen)
      BY <1>1, <2>1, <2>3, <2>5 DEF CloseLeg
    <3>2. OpenLots(seen) <= 0
      BY <1>0, <1>1, <3>1 DEF OpenLeg, Leg
    <3>3. cmd.kind # "BUY" /\ (cmd.qty > 0 => Held(seen) > 0)
      BY <1>0, <1>3, <2>5, <3>2, NothingToOpen
    <3>4. Held(seen) > 0 => Toward(seen, pos) > 0
      BY <1>0, <1>1 DEF Held, AtLeast0, Toward
    <3> QED BY <1>0, <2>5, <3>3, <3>4, SameBook DEF Achieved
  <2> QED BY <2>4, <2>5
<1> QED BY <1>2, <1>3

\* A success read off the checks of the last leg.
LEMMA SuccessAfterChecks ==
  ASSUME Calm, IInv, Pending, CheckPasses, result' = "ok"
  PROVE  Achieved'
<1>0. /\ UNCHANGED <<pos, buying, selling, cmd, seen>> /\ Expected
      /\ pc \in {"checkclose", "checkopen"} /\ result = "none"
  BY DEF CheckPasses, Checking, book, Pending
<1>1. /\ cmd.kind \in Kinds /\ cmd.cap \in Nat /\ todo \in Nat
      /\ seen \in Int /\ pos \in Int /\ buying \in Nat /\ selling \in Nat
      /\ Against(seen) \in Nat /\ OpenLots(seen) \in Nat
  BY CommandFacts, SideFacts DEF IInv, TypeOK
<1>2. CASE pc = "checkclose" /\ cmd.kind = "MAYDAY"
  <2>1. pos = 0 /\ Outlook <= 0 /\ Theirs = 0
    BY <1>0, <1>2 DEF Expected, IInv, NoOvershoot, NoCrossing, Closing
  <2>2. Toward(seen, pos) = 0 /\ Ours \in Nat
    BY <1>1, <2>1 DEF Toward, Ours
  <2>3. Ours = 0
    BY <1>1, <2>1, <2>2 DEF Outlook
  <2>4. buying = 0 /\ selling = 0
    BY <2>1, <2>3 DEF Ours, Theirs
  <2> QED BY <1>0, <1>2, <2>1, <2>4 DEF Achieved
<1>3. CASE pc = "checkclose" /\ cmd.kind # "MAYDAY"
  <2>1. OpenLeg(seen)
    BY <1>0, <1>3 DEF CheckPasses
  <2>2. OpenLots(seen) <= 0
    BY <1>0, <1>1, <2>1 DEF OpenLeg, Leg
  <2>3. Held(seen) = 0
    <3>1. Toward(seen, seen) < 0 /\ Toward(seen, seen) \in Int
      BY <1>1, <1>3 DEF IInv, LegSide, Closing, Toward
    <3> QED BY <3>1 DEF Held, AtLeast0
  <2>4. ~CapReached(seen)
    BY <1>1, <2>3 DEF CapReached
  <2>5. cmd.kind # "BUY" /\ (cmd.qty > 0 => Held(seen) > 0)
    BY <1>0, <1>3, <2>2, <2>4, NothingToOpen
  <2> QED BY <1>0, <1>3, <2>3, <2>5 DEF Achieved
<1>4. CASE pc = "checkopen"
  <2>1. Toward(seen, pos) > 0 /\ cmd.kind # "MAYDAY"
    BY <1>0, <1>4 DEF Expected, IInv, LegSide, Opening
  <2>2. cmd.kind = "BUY" => pos > 0
    BY <2>1 DEF Toward, Side
  <2> QED BY <1>0, <2>1, <2>2, SameBook DEF Achieved
<1> QED BY <1>0, <1>2, <1>3, <1>4

\* No other step of a running command reports success.
LEMMA SuccessStep ==
  ASSUME Calm, IInv, Pending, [Next]_vars, result' = "ok", pc # "done"
  PROVE  Achieved'
<1>0. result = "none"
  BY DEF Pending
<1>1. CASE ReadOrders
  BY <1>1, SuccessAtOnce
<1>2. CASE CheckPasses
  BY <1>2, SuccessAfterChecks
<1>3. ~QueryFails
  BY <1>0 DEF QueryFails, Inject, Calm, Finish
<1>4. ~(ReadPositions \/ CancelTrades \/ PlaceAccepted)
  BY <1>0 DEF ReadPositions, CancelTrades, PlaceAccepted, Advance
<1>5. ~(MarginShort \/ CheckRaises)
  BY <1>0 DEF MarginShort, CheckRaises, NotEnoughMoney, NeedRetry, Finish, StartOver
<1>6. ~(PlaceRejected \/ PlaceRaises \/ PlaceReconnects)
  BY <1>0 DEF PlaceRejected, PlaceRaises, PlaceReconnects, SendAgain, Finish
<1>7. ~(Fill \/ Withdraw \/ UNCHANGED vars)
  BY <1>0 DEF Fill, Withdraw, trader, vars
<1>8. \A c \in Commands : ~Begin(c)
  BY <1>0 DEF Begin
<1> QED BY <1>1, <1>2, <1>3, <1>4, <1>5, <1>6, <1>7, <1>8 DEF Next, TraderStep

\* In a calm run a reported success is true of the account at that moment.
THEOREM SuccessesAreReal ==
  ASSUME Calm PROVE Spec => SuccessIsReal
<1>1. Init => Pending
  BY DEF Init, Pending
<1>2. IInv /\ Pending /\ [Next]_vars
        => [(result' = "ok" /\ pc # "done") => Achieved']_vars
  BY SuccessStep
<1> QED BY <1>1, <1>2, PendingStep, Invariance, PTL DEF Spec, SuccessIsReal
=============================================================================

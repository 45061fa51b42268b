------------------------- MODULE OrderPromise_proofs -------------------------
(***************************************************************************)
(* OrderExecution implements OrderPromise in every calm run.               *)
(***************************************************************************)
EXTENDS OrderExecution_proofs

\* What a step needs besides IInv to be one of OrderPromise: an opening leg
\* faces no position against it.
Room == Opening => Toward(seen, pos) >= 0

\* A command that is done has answered.
Answered == (pc = "done") = (result # "none")

PInv == IInv /\ Pending /\ Answered /\ Room

-----------------------------------------------------------------------------
\* What the prover needs to know of the state.
LEMMA StateFacts ==
  ASSUME IInv
  PROVE  /\ cmd.kind \in Kinds /\ cmd.qty \in Int /\ cmd.cap \in Nat
         /\ pos \in Int /\ seen \in Int /\ qty \in Int /\ todo \in Nat
         /\ buying \in Nat /\ selling \in Nat
         /\ Held(seen) \in Nat /\ Against(seen) \in Nat
  BY CommandFacts, SideFacts DEF IInv, TypeOK

\* Ending a command, or starting it over, needs no room.
LEMMA FinishRoom ==
  ASSUME pc' \in {"done", "positions"} PROVE Room'
  BY DEF Room, Opening

\* Room is about the leg, the book and the command only.
LEMMA IdleRoom ==
  ASSUME PInv, UNCHANGED <<pos, cmd, seen, pc>>
  PROVE  Room'
<1>1. Toward(seen, pos)' = Toward(seen, pos)
  BY DEF Toward, Side
<1> QED BY <1>1 DEF PInv, Room, Opening

\* An opening leg begins with nothing held the other way.
LEMMA OpenRoom ==
  ASSUME UNCHANGED <<pos, cmd, seen>>, Toward(seen, pos) >= 0
  PROVE  Room'
<1>1. Toward(seen, pos)' = Toward(seen, pos)
  BY DEF Toward, Side
<1> QED BY <1>1 DEF Room

\* A closing leg needs no room yet.
LEMMA CloseRoom ==
  ASSUME PInv, CloseLeg(seen), UNCHANGED <<pos, cmd, seen>>, pos = seen
  PROVE  Room'
<1>1. CASE Against(seen) > 0
  <2>1. pc' = "close"
    BY <1>1 DEF CloseLeg, Leg
  <2> QED BY <2>1 DEF Room, Opening
<1>2. CASE ~(Against(seen) > 0) /\ cmd.kind = "MAYDAY"
  BY <1>2, FinishRoom DEF CloseLeg, Finish
<1>3. CASE ~(Against(seen) > 0) /\ cmd.kind # "MAYDAY"
  <2>1. Toward(seen, pos) >= 0
    BY <1>3, StateFacts DEF PInv, Against, AtLeast0, Toward
  <2> QED BY <2>1, OpenRoom
<1> QED BY <1>1, <1>2, <1>3

\* A lot that trades moves the position towards the command.
LEMMA BrokerRoom ==
  ASSUME PInv, Fill \/ Withdraw
  PROVE  Room'
<1>1. UNCHANGED <<pc, cmd, seen>>
  BY DEF Fill, Withdraw, trader
<1>0. \/ buying > 0 /\ pos' \in {pos, pos + 1}
      \/ selling > 0 /\ pos' \in {pos, pos - 1}
  BY DEF Fill, Withdraw
<1>2. Side(seen)' = Side(seen)
  BY <1>1 DEF Side
<1>3. ASSUME Opening PROVE Toward(seen, pos)' >= Toward(seen, pos)
  <2>1. Theirs = 0
    BY <1>3 DEF PInv, IInv, NoCrossing
  <2>2. CASE Side(seen) = "B"
    <3>1. selling = 0 /\ pos' \in {pos, pos + 1}
      BY <1>0, <2>1, <2>2, StateFacts DEF PInv, Theirs
    <3> QED BY <1>2, <2>2, <3>1, StateFacts DEF PInv, Toward
  <2>3. CASE Side(seen) # "B"
    <3>1. buying = 0 /\ pos' \in {pos, pos - 1}
      BY <1>0, <2>1, <2>3, StateFacts DEF PInv, Theirs
    <3> QED BY <1>2, <2>3, <3>1, StateFacts DEF PInv, Toward
  <2> QED BY <2>2, <2>3
<1>4. Toward(seen, pos) \in Int /\ Toward(seen, pos)' \in Int
  BY <1>0, <1>1, StateFacts DEF PInv, Toward
<1> QED BY <1>1, <1>3, <1>4 DEF PInv, Room, Opening

LEMMA RoomStep == Calm /\ PInv /\ [Next]_vars => Room'
<1> SUFFICES ASSUME Calm, PInv, [Next]_vars PROVE Room'
  OBVIOUS
<1>1. ASSUME NEW c \in Commands, Begin(c) PROVE Room'
  BY <1>1 DEF Begin, Room, Opening
<1>2. CASE ReadPositions \/ CancelTrades
  BY <1>2 DEF ReadPositions, CancelTrades, PInv, Room, Opening
<1>3. CASE ReadOrders
  <2>0. UNCHANGED <<pos, cmd, seen>> /\ pc = "orders" /\ pos = seen
    BY <1>3 DEF ReadOrders, book, PInv, IInv, SnapshotIsTrue
  <2>1. CASE Finish("ok")
    BY <2>1, FinishRoom DEF Finish
  <2>2. CASE Leg("cancel", 0)
    BY <2>0, <2>2 DEF Leg, PInv, Room, Opening
  <2>3. CASE CloseLeg(seen)
    BY <2>0, <2>3, CloseRoom
  <2> QED BY <1>3, <2>1, <2>2, <2>3 DEF ReadOrders, ActOn
<1>4. CASE QueryFails
  BY <1>4, FinishRoom DEF QueryFails, Calm, Inject, Finish
<1>5. CASE PlaceAccepted
  <2>1. /\ UNCHANGED <<pos, cmd, seen>> /\ pc \in {"close", "open"}
        /\ \/ pc' = pc
           \/ pc = "close" /\ pc' = "checkclose"
           \/ pc = "open" /\ pc' = "checkopen"
    BY <1>5 DEF PlaceAccepted, Placing, Booked, Advance, book
  <2>2. Toward(seen, pos)' = Toward(seen, pos)
    BY <2>1 DEF Toward, Side
  <2> QED BY <2>1, <2>2 DEF PInv, Room, Opening
<1>6. CASE MarginShort \/ CheckRaises
  BY <1>6, FinishRoom DEF MarginShort, CheckRaises, NeedRetry, NotEnoughMoney,
                          Finish, StartOver
<1>7. CASE PlaceRejected
  BY <1>7, FinishRoom DEF PlaceRejected, Finish
<1>8. CASE PlaceRaises \/ PlaceReconnects
  <2>1. CASE pc' = "done"
    BY <2>1, FinishRoom
  <2>2. CASE pc' # "done"
    <3>1. UNCHANGED <<pos, cmd, seen, pc>>
      BY <1>8, <2>2 DEF PlaceRaises, PlaceReconnects, Placing, Calm, Inject,
         SendAgain, Finish, book
    <3> QED BY <3>1, IdleRoom
  <2> QED BY <2>1, <2>2
<1>9. CASE CheckPasses
  <2>0. UNCHANGED <<pos, cmd, seen>> /\ pc \in {"checkclose", "checkopen"} /\ Expected
    BY <1>9 DEF CheckPasses, Checking, book
  <2>1. CASE placed > 1
    BY <1>9, <2>0, <2>1, IdleRoom DEF CheckPasses
  <2>2. CASE ~(placed > 1) /\ pc = "checkclose" /\ cmd.kind # "MAYDAY"
    <3>1. Toward(seen, pos) >= 0
      BY <2>0, <2>2 DEF Expected, Toward
    <3> QED BY <2>0, <3>1, OpenRoom
  <2>3. CASE ~(placed > 1) /\ ~(pc = "checkclose" /\ cmd.kind # "MAYDAY")
    BY <1>9, <2>3, FinishRoom DEF CheckPasses, Finish
  <2> QED BY <2>1, <2>2, <2>3
<1>10. CASE Fill \/ Withdraw
  BY <1>10, BrokerRoom
<1>11. CASE UNCHANGED vars
  BY <1>11, IdleRoom DEF vars
<1> QED BY <1>1, <1>2, <1>3, <1>4, <1>5, <1>6, <1>7, <1>8, <1>9, <1>10, <1>11
        DEF Next, TraderStep

-----------------------------------------------------------------------------
(* Status.                                                                 *)

\* The moves of a running command either end it with an answer or go on.
LEMMA AnsweredStep == IInv /\ Pending /\ Answered /\ [Next]_vars => Answered'
<1> SUFFICES ASSUME IInv, Pending, Answered, [Next]_vars PROVE Answered'
  OBVIOUS
<1> USE DEF Pending, Answered
<1>1. ASSUME NEW p, Move(p), pc # "done" PROVE Answered'
  BY <1>1 DEF Move, CloseLeg, OpenLeg, NeedRetry, NotEnoughMoney, Finish, Leg, StartOver
<1>2. CASE TraderStep
  <2>1. pc # "done"
    BY <1>2 DEF TraderStep, ReadPositions, ReadOrders, QueryFails, CancelTrades,
       PlaceAccepted, MarginShort, PlaceRejected, PlaceRaises, PlaceReconnects,
       Placing, CheckPasses, CheckRaises, Checking
  <2>2. CASE ReadPositions \/ CancelTrades \/ PlaceAccepted
    BY <2>1, <2>2 DEF ReadPositions, CancelTrades, PlaceAccepted, Advance
  <2>3. CASE ReadOrders \/ QueryFails \/ MarginShort \/ PlaceRejected \/ CheckRaises
    <3>1. \E p \in {seen, 0} : Move(p)
      BY <2>3 DEF ReadOrders, QueryFails, ActOn, MarginShort, PlaceRejected, CheckRaises, Move
    <3> QED BY <1>1, <2>1, <3>1
  <2>4. CASE PlaceRaises \/ PlaceReconnects
    BY <2>1, <2>4 DEF PlaceRaises, PlaceReconnects, SendAgain, Finish
  <2>5. CASE CheckPasses
    BY <2>1, <2>5 DEF CheckPasses, OpenLeg, Finish, Leg
  <2> QED BY <1>2, <2>2, <2>3, <2>4, <2>5 DEF TraderStep
<1>3. CASE Fill \/ Withdraw \/ UNCHANGED vars
  BY <1>3 DEF Fill, Withdraw, trader, vars
<1>4. ASSUME NEW c \in Commands, Begin(c) PROVE Answered'
  BY <1>4 DEF Begin
<1> QED BY <1>2, <1>3, <1>4 DEF Next

\* A running command that stays at it stutters for OrderPromise when the book
\* does not move.
LEMMA Goes ==
  ASSUME UNCHANGED <<pos, buying, selling, cmd>>,
         pc \notin {"idle", "done"}, pc' \notin {"idle", "done"}
  PROVE  UNCHANGED Promise!vars
  BY DEF Promise!vars, Status

\* A running command that is done answers, with a success only if it is one.
LEMMA Ends ==
  ASSUME Calm, PInv, Answered', [Next]_vars, UNCHANGED <<pos, buying, selling, cmd, seen>>,
         pc \notin {"idle", "done"}, pc' = "done", result' \in {"ok", "fail"}
  PROVE  Promise!Answer
<1>1. Status = "running" /\ Status' = result'
  BY DEF Status
<1>2. result' = "ok" => Promise!Achieved
  <2> SUFFICES ASSUME result' = "ok" PROVE Promise!Achieved
    OBVIOUS
  <2>1. Achieved'
    BY SuccessStep DEF PInv
  <2>2. cmd.kind \in Kinds
    BY StateFacts DEF PInv
  <2> QED BY <2>1, <2>2, StateFacts
          DEF PInv, Promise!Achieved, Achieved, Toward, Side, Kinds
<1> QED BY <1>1, <1>2 DEF Promise!Answer

\* The order a leg places is one OrderPromise allows.
LEMMA Places ==
  ASSUME PInv, PlaceAccepted, ~cmd.dry
  PROVE  Promise!Place
<1>0. /\ UNCHANGED <<pos, cmd, seen>> /\ pc \in {"close", "open"} /\ Booked
      /\ pc' \notin {"idle", "done"}
  BY DEF PlaceAccepted, Placing, InDry, Booked, Advance
<1>1. Status = "running" /\ Status' = Status
  BY <1>0 DEF Status
<1>2. Batch \in 1..BatchQty /\ Batch <= todo
  BY <1>0, StateFacts, OrderConstants DEF PInv, IInv, LegShape, Batch, Lesser
<1>3. Side(seen) \in Promise!Sides
  BY StateFacts DEF PInv, Promise!Sides, Side, Kinds
<1>4. /\ Promise!Exposure(Side(seen)) = Toward(seen, pos)
      /\ Promise!Working(Side(seen)) = Ours
      /\ Toward(seen, pos) \in Int /\ Ours \in Nat
  BY StateFacts DEF PInv, Promise!Exposure, Promise!Working, Toward, Ours
<1>5. \/ /\ Side(seen) = "B" /\ selling = 0 /\ buying' = buying + Batch
         /\ UNCHANGED selling
      \/ /\ Side(seen) = "S" /\ buying = 0 /\ selling' = selling + Batch
         /\ UNCHANGED buying
  <2>1. Theirs = 0 /\ Side(seen) \in {"B", "S"}
    BY <1>0, <1>3, StateFacts
    DEF PInv, IInv, NoCrossing, Closing, Opening, Side, Kinds
  <2> QED BY <1>0, <2>1 DEF Booked, Theirs
<1>6. CASE pc = "close"
  <2>1. Toward(seen, pos) + Ours + todo <= 0
    BY <1>6 DEF PInv, IInv, NoOvershoot, Closing, Outlook
  <2>2. Promise!Exposure(Side(seen)) + Promise!Working(Side(seen)) + Batch <= 0
    BY <1>2, <1>4, <2>1, StateFacts, OrderConstants DEF PInv
  <2> QED BY <1>0, <1>1, <1>2, <1>3, <1>5, <2>2 DEF Promise!Place
<1>7. CASE pc = "open"
  <2>1. Toward(seen, pos) >= 0 /\ cmd.kind # "MAYDAY"
    BY <1>7 DEF PInv, Room, Opening, IInv, LegSide
  <2>2. ~Uncapped => Toward(seen, pos) + Ours + todo <= Target
    <3>1. Toward(seen, pos) + Ours + todo <= Target + Uncounted
      BY <1>7 DEF PInv, IInv, NoOvershoot, Opening, Outlook
    <3>2. Target \in Int /\ (~Uncapped => Uncounted = 0)
      BY TargetFacts DEF PInv, IInv
    <3> QED BY <3>1, <3>2
  <2>3. Promise!Within(Toward(seen, pos) + Ours + Batch)
    <3>1. CASE cmd.kind = "BUY" /\ cmd.cap > 0
      <4>1. Target = cmd.cap /\ ~Uncapped
        BY <3>1 DEF Target, Uncapped
      <4>2. Toward(seen, pos) + Ours + Batch <= cmd.cap
        BY <1>2, <1>4, <2>2, <4>1, StateFacts, OrderConstants DEF PInv
      <4> QED BY <3>1, <4>2 DEF Promise!Within
    <3>2. CASE cmd.kind = "BUY" /\ ~(cmd.cap > 0)
      BY <3>2 DEF Promise!Within
    <3>3. CASE cmd.kind # "BUY"
      <4>1. Target = cmd.qty /\ ~Uncapped
        BY <3>3 DEF Target, Uncapped
      <4>2. Toward(seen, pos) + Ours + Batch <= cmd.qty
        BY <1>2, <1>4, <2>2, <4>1, StateFacts, OrderConstants DEF PInv
      <4> QED BY <2>1, <3>3, <4>2 DEF Promise!Within
    <3> QED BY <3>1, <3>2, <3>3
  <2>4. /\ Promise!Exposure(Side(seen)) >= 0
        /\ Promise!Within(Promise!Exposure(Side(seen)) + Promise!Working(Side(seen)) + Batch)
    BY <1>4, <2>1, <2>3
  <2> QED BY <1>0, <1>1, <1>2, <1>3, <1>5, <2>4 DEF Promise!Place
<1> QED BY <1>0, <1>6, <1>7

-----------------------------------------------------------------------------
(* The refinement.                                                         *)

LEMMA PromiseStep ==
  Calm /\ PInv /\ Answered' /\ [Next]_vars => [Promise!Next]_(Promise!vars)
<1> SUFFICES ASSUME Calm, PInv, Answered', [Next]_vars
             PROVE  Promise!Next \/ UNCHANGED Promise!vars
  OBVIOUS
<1> USE DEF book
\* A step of the command that leaves the book alone.
<1>a. ASSUME UNCHANGED <<pos, buying, selling, cmd, seen>>,
             pc \notin {"idle", "done"}, pc' # "idle"
      PROVE  Promise!Next \/ UNCHANGED Promise!vars
  <2>1. CASE pc' = "done"
    <3>1. result' \in {"ok", "fail"}
      <4>1. result' # "none"
        BY <2>1 DEF Answered
      <4>2. result' \in {"none", "ok", "fail"}
        BY TypeStep DEF PInv, IInv, TypeOK
      <4> QED BY <4>1, <4>2
    <3>2. Promise!Answer
      BY <1>a, <2>1, <3>1, Ends
    <3> QED BY <3>2 DEF Promise!Next
  <2>2. CASE pc' # "done"
    BY <1>a, <2>2, Goes
  <2> QED BY <2>1, <2>2
<1>1. ASSUME NEW c \in Commands, Begin(c) PROVE Promise!Next
  <2>1. Status # "running"
    <3>1. result \in {"none", "ok", "fail"}
      BY DEF PInv, IInv, TypeOK
    <3> QED BY <1>1, <3>1 DEF Begin, Status
  <2>2. Status' = IF c.kind = "BUY" /\ c.qty < 1 THEN "fail" ELSE "running"
    BY <1>1 DEF Begin, Status
  <2>3. Promise!Ask(c)
    BY <1>1, <2>1, <2>2 DEF Begin, Promise!Ask
  <2> QED BY <2>3 DEF Promise!Next
<1>2. CASE CancelTrades
  <2>1. Kept(buying) = {0} /\ Kept(selling) = {0}
    BY DEF Calm, Kept
  <2>2. Promise!Clear
    BY <1>2, <2>1 DEF CancelTrades, Promise!Clear, Status
  <2> QED BY <2>2 DEF Promise!Next
<1>3. CASE PlaceAccepted
  <2>1. CASE ~cmd.dry
    <3>1. Promise!Place
      BY <1>3, <2>1, Places
    <3> QED BY <3>1 DEF Promise!Next
  <2>2. CASE cmd.dry
    BY <1>3, <2>2, <1>a DEF PlaceAccepted, Placing, InDry, Advance
  <2> QED BY <2>1, <2>2
<1>4. CASE ReadPositions
  BY <1>4, Goes DEF ReadPositions
<1>5. CASE ReadOrders \/ QueryFails
  <2>1. UNCHANGED <<pos, buying, selling, cmd, seen>> /\ pc = "orders"
    BY <1>5 DEF ReadOrders, QueryFails, Calm, Inject
  <2>2. \E p \in {seen, 0} : Move(p)
    BY <1>5 DEF ReadOrders, QueryFails, ActOn, Move
  <2>3. pc' # "idle"
    BY <2>2, <2>1 DEF Move, CloseLeg, OpenLeg, NeedRetry, NotEnoughMoney, Finish,
       Leg, StartOver
  <2> QED BY <2>1, <2>3, <1>a
<1>6. CASE MarginShort \/ CheckRaises
  BY <1>6, <1>a DEF MarginShort, CheckRaises, Placing, Checking, NeedRetry,
     NotEnoughMoney, Finish, StartOver
<1>7. CASE PlaceRejected
  BY <1>7, <1>a DEF PlaceRejected, Placing, Finish
<1>8. CASE PlaceRaises \/ PlaceReconnects
  <2>1. UNCHANGED <<pos, buying, selling, cmd, seen>> /\ pc \in {"close", "open"}
    BY <1>8 DEF PlaceRaises, PlaceReconnects, Placing, Calm, Inject
  <2>2. pc' # "idle"
    BY <1>8, <2>1 DEF PlaceRaises, PlaceReconnects, SendAgain, Finish
  <2> QED BY <2>1, <2>2, <1>a
<1>9. CASE CheckPasses
  <2>1. UNCHANGED <<pos, buying, selling, cmd, seen>> /\ pc \in {"checkclose", "checkopen"}
    BY <1>9 DEF CheckPasses, Checking
  <2>2. pc' # "idle"
    BY <1>9, <2>1 DEF CheckPasses, OpenLeg, Finish, Leg
  <2> QED BY <2>1, <2>2, <1>a
<1>10. CASE Fill \/ Withdraw
  <2>1. UNCHANGED cmd /\ Status' = Status
    BY <1>10 DEF Fill, Withdraw, trader, Status
  <2>2. \/ /\ buying > 0 /\ buying' = buying - 1 /\ UNCHANGED selling
           /\ pos' \in {pos, pos + 1}
        \/ /\ selling > 0 /\ selling' = selling - 1 /\ UNCHANGED buying
           /\ pos' \in {pos, pos - 1}
    BY <1>10 DEF Fill, Withdraw
  <2>3. Promise!Market
    BY <2>1, <2>2 DEF Promise!Market
  <2> QED BY <2>3 DEF Promise!Next
<1>11. CASE UNCHANGED vars
  BY <1>11 DEF vars, Promise!vars, Status
<1> QED BY <1>1, <1>2, <1>3, <1>4, <1>5, <1>6, <1>7, <1>8, <1>9, <1>10, <1>11
        DEF Next, TraderStep

\* Whatever the commands, batches and retries, MayDay, Buy, CloseAndBuy and
\* CloseAndSell of a calm run keep what OrderPromise states of them.
THEOREM OrdersKeepThePromise ==
  ASSUME Calm PROVE Spec => PromiseKept
<1>1. Init => Promise!Init /\ Pending /\ Answered /\ Room
  BY DEF Init, Promise!Init, Status, Pending, Answered, Room, Opening
<1>2. IInv /\ Pending /\ Answered /\ Room /\ [Next]_vars => Answered' /\ Room' /\ Pending'
  BY RoomStep, AnsweredStep, PendingStep DEF PInv
<1>3. IInv /\ Pending /\ Answered /\ Room /\ Answered' /\ [Next]_vars
        => [Promise!Next]_(Promise!vars)
  BY PromiseStep DEF PInv
<1> QED BY <1>1, <1>2, <1>3, Invariance, PTL DEF Spec, PromiseKept, Promise!Spec
=============================================================================

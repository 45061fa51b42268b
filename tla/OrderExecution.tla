--------------------------- MODULE OrderExecution ---------------------------
(***************************************************************************)
(* The order commands of fubon_api.py - MayDay, Buy, CloseAndBuy and       *)
(* CloseAndSell - against a broker whose book changes on its own.          *)
(*                                                                         *)
(* One product family of one account: a net position and the lots still    *)
(* working on each side.  The commands run one after the other (the order  *)
(* lock of CommandIntake); orders fill, lot by lot, or die at any moment.  *)
(* A snapshot is two queries, positions and then working orders, and the   *)
(* book can move between them.                                             *)
(*                                                                         *)
(* Prices are abstracted (PriceChase has them): that a limit order may or  *)
(* may not fill is the broker's choice.  Lots are counted per side, not    *)
(* per order: no decision of the code depends on which order a lot is in.  *)
(***************************************************************************)
EXTENDS Integers

CONSTANTS
  Commands,        \* the order commands that may arrive
  MaxCommands,     \* bound on the number of commands of a behaviour
  StartPositions,  \* net positions an account may start with
  StartWorking,    \* lots that may be working on a side at the start
  BatchQty,        \* ORDER_BATCH_QTY (20)
  CloseOpenRetries,\* CLOSE_OPEN_MAX_OUTER_RETRY (5)
  MayDayRetries,   \* the 2 of "if retry > 2" in MayDay
  PlaceRetries,    \* the 2 of "if retry > 2" in _retry_place_order
  Floor,           \* bound on how far below zero qty is followed
  Faults,          \* the faults this instance of the model may inject
  MaxFaults        \* bound on the number of injected faults

Kinds == {"MAYDAY", "BUY", "CLOSE_AND_BUY", "CLOSE_AND_SELL"}

\* cap is max_qty, 0 for none; limit tells whether a price was given (the
\* CLOSE_AND commands refuse to start without one); dry is is_dry_run of the
\* process that runs the command, which a new deployment may change.
CommandType ==
  [kind : Kinds, qty : Int, cap : Nat, limit : BOOLEAN, dry : BOOLEAN]

ASSUME OrderConstants ==
  /\ Commands \subseteq CommandType
  /\ MaxCommands \in Nat
  /\ StartPositions \subseteq Int /\ StartWorking \subseteq Nat
  /\ BatchQty \in Nat \ {0}
  /\ CloseOpenRetries \in Nat /\ MayDayRetries \in Nat /\ PlaceRetries \in Nat
  /\ Floor \in Int /\ Floor < 1
  /\ MaxFaults \in Nat

VARIABLES
  pos,          \* broker: net position, long positive
  buying,       \* broker: lots of working buy orders
  selling,      \* broker: lots of working sell orders
  dead,         \* broker: a failed order (status 90) is still listed
  pc,           \* the step the command takes next
  cmd,          \* the command
  qty,          \* its quantity, lowered by NotEnoughMoneyError
  retries,      \* NeedRetryError retries so far
  snapshot,     \* "first", or "fresh" after the cancels
  seen,         \* the net position the last positions query returned
  todo,         \* lots of the current leg not placed yet
  placed,       \* placed orders of the current leg not checked yet
  sends,        \* failed sends of the current order
  reconnects,   \* session_reconnects of the current order
  result,       \* success of the last response of the command
  base,         \* history: lots held in the first snapshot a BUY without a
                \* cap acted on, -1 before and for other commands
  left,         \* commands still to come
  faults        \* injected faults so far

book == <<pos, buying, selling, dead>>
plan == <<todo, placed, sends, reconnects>>
vars == <<pos, buying, selling, dead, pc, cmd, qty, retries, snapshot, seen,
          todo, placed, sends, reconnects, result, base, left, faults>>

Inject(f) == f \in Faults /\ faults < MaxFaults /\ faults' = faults + 1

AtLeast0(n) == IF n > 0 THEN n ELSE 0
Lesser(a, b) == IF a < b THEN a ELSE b

Init ==
  /\ pos \in StartPositions
  /\ buying \in StartWorking /\ selling \in StartWorking
  /\ dead = FALSE
  /\ pc = "idle" /\ cmd \in Commands /\ qty = cmd.qty
  /\ retries = 0 /\ snapshot = "first" /\ seen = 0
  /\ todo = 0 /\ placed = 0 /\ sends = 0 /\ reconnects = 0
  /\ result = "none" /\ base = -1 /\ left = MaxCommands /\ faults = 0

-----------------------------------------------------------------------------
(* Reading a snapshot in terms of the command.                             *)

\* The side the command's orders are on, given the position p it read:
\* MAYDAY closes whatever there is.
Side(p) ==
  CASE cmd.kind \in {"BUY", "CLOSE_AND_BUY"} -> "B"
    [] cmd.kind = "CLOSE_AND_SELL" -> "S"
    [] OTHER -> IF p < 0 THEN "B" ELSE "S"

\* n lots counted in the direction of that side.
Toward(p, n) == IF Side(p) = "B" THEN n ELSE 0 - n

\* exist_buy_qty / exist_sell_qty: lots already held in that direction.
Held(p) == AtLeast0(Toward(p, p))

\* Lots held the other way, to be closed first.
Against(p) == AtLeast0(0 - Toward(p, p))

\* The no-op test of _buy_futures.
CapReached(p) == cmd.kind = "BUY" /\ cmd.cap > 0 /\ Held(p) >= cmd.cap

Uncapped == cmd.kind = "BUY" /\ cmd.cap = 0

\* Mutant of OpenLots: the lots already held are not counted.
OpenAll(p) == AtLeast0(qty)

\* Lots to open once nothing is held the other way.
OpenLots(p) ==
  CASE Uncapped -> AtLeast0(qty)
    [] cmd.kind = "BUY" /\ cmd.cap > 0 -> Lesser(AtLeast0(qty), AtLeast0(cmd.cap - Held(p)))
    [] cmd.kind = "MAYDAY" -> 0
    [] OTHER -> AtLeast0(qty - Held(p))

-----------------------------------------------------------------------------
(* Where the command goes.                                                 *)

Leg(step, lots) ==
  /\ pc' = step /\ todo' = lots
  /\ placed' = 0 /\ sends' = 0 /\ reconnects' = 0
  /\ UNCHANGED <<qty, retries, snapshot, result>>

Finish(r) ==
  /\ pc' = "done" /\ result' = r
  /\ todo' = 0 /\ placed' = 0 /\ sends' = 0 /\ reconnects' = 0
  /\ UNCHANGED <<qty, retries, snapshot>>

\* The command starts over with quantity q and r retries behind it.
StartOver(q, r) ==
  /\ pc' = "positions" /\ qty' = q /\ retries' = r /\ snapshot' = "first"
  /\ todo' = 0 /\ placed' = 0 /\ sends' = 0 /\ reconnects' = 0
  /\ UNCHANGED result

OpenLeg(p) == IF OpenLots(p) > 0 THEN Leg("open", OpenLots(p)) ELSE Finish("ok")

CloseLeg(p) ==
  IF Against(p) > 0 THEN Leg("close", Against(p))
  ELSE IF cmd.kind = "MAYDAY" THEN Finish("ok") ELSE OpenLeg(p)

\* Mutant of NextRetry: the counter is not advanced.
SameRetry(r) == r

NextRetry(r) == r + 1

\* NeedRetryError: Buy reports failure, the others start over a bounded
\* number of times.
NeedRetry ==
  IF \/ cmd.kind = "BUY"
     \/ cmd.kind = "MAYDAY" /\ retries > MayDayRetries
     \/ cmd.kind \in {"CLOSE_AND_BUY", "CLOSE_AND_SELL"}
          /\ retries >= CloseOpenRetries
  THEN Finish("fail")
  ELSE StartOver(qty, NextRetry(retries))

\* Mutant of NotEnoughMoney: Buy tries again with as many lots.
AllLotsAgain ==
  IF cmd.kind = "BUY" THEN StartOver(qty, retries) ELSE Finish("fail")

\* NotEnoughMoneyError: one lot less.  Buy stops below 1; CloseAndBuy and
\* CloseAndSell stop at exactly 1; MayDay does not catch it and run() reports
\* the failure.
NotEnoughMoney ==
  IF \/ cmd.kind = "MAYDAY"
     \/ cmd.kind = "BUY" /\ qty - 1 < 1
     \/ cmd.kind \in {"CLOSE_AND_BUY", "CLOSE_AND_SELL"} /\ qty = 1
  THEN Finish("fail")
  ELSE StartOver(IF qty > Floor THEN qty - 1 ELSE qty, retries)

\* The command acts on a snapshot that shows position p: the orders that
\* worked before it are gone, and what they filled is not the command's.
ActOn(p) ==
  /\ CloseLeg(p)
  /\ base' = IF Uncapped /\ base = -1 THEN Held(p) ELSE base

-----------------------------------------------------------------------------
(* The steps of a command.                                                 *)

\* A command is handed to the agent; Buy refuses a quantity below 1.
Begin(c) ==
  /\ pc \in {"idle", "done"} /\ left > 0
  /\ left' = left - 1
  /\ cmd' = c /\ qty' = c.qty /\ retries' = 0 /\ snapshot' = "first"
  /\ seen' = 0 /\ base' = -1
  /\ IF c.kind = "BUY" /\ c.qty < 1
     THEN pc' = "done" /\ result' = "fail"
     ELSE pc' = "positions" /\ result' = "none"
  /\ UNCHANGED <<book, plan, faults>>

\* First half of _has_open_interest.
ReadPositions ==
  /\ pc = "positions"
  /\ seen' = pos
  /\ pc' = "orders"
  /\ UNCHANGED <<book, plan, cmd, qty, retries, snapshot, result, base, left,
                 faults>>

\* Second half, and what the command makes of the snapshot.
Listed == buying + selling > 0 \/ dead

ReadOrders ==
  /\ pc = "orders"
  /\ IF CapReached(seen) THEN Finish("ok") /\ UNCHANGED base
     ELSE IF Listed /\ snapshot = "first"
     THEN Leg("cancel", 0) /\ UNCHANGED base
     ELSE ActOn(seen)
  /\ UNCHANGED <<book, cmd, seen, left, faults>>

\* _has_open_interest gives up after its retries.  The first query is
\* checked.  The one after the cancels is not: MayDay takes the missing list
\* for a flat account and returns (the query's failure is its last response),
\* CloseAndBuy and CloseAndSell fail iterating it, and Buy goes on as if flat.
QueryFails ==
  /\ pc = "orders"
  /\ IF snapshot = "fresh"
     THEN /\ Inject("refresh_error")
          /\ IF cmd.kind = "BUY" THEN seen' = 0 /\ ActOn(0)
                                 ELSE Finish("fail") /\ UNCHANGED <<seen, base>>
     ELSE Inject("query_error") /\ Finish("fail") /\ UNCHANGED <<seen, base>>
  /\ UNCHANGED <<book, cmd, left>>

\* Mutant of Kept: the cancels are not sent.
KeptAll(lots) == {lots}

\* Lots of a side still working after the cancels: errors are swallowed.
Kept(lots) == IF "cancel_error" \in Faults THEN 0..lots ELSE {0}

\* _cancel_ongoing_trades: every listed order, then a fresh snapshot.
CancelTrades ==
  /\ pc = "cancel"
  /\ buying' \in Kept(buying) /\ selling' \in Kept(selling)
  /\ pc' = "positions" /\ snapshot' = "fresh"
  /\ UNCHANGED <<pos, dead, plan, cmd, qty, retries, seen, result, base, left,
                 faults>>

Batch == Lesser(todo, BatchQty)

\* Mutant of InDry: dry runs end with the queries.
NeverDry == FALSE

\* The order is logged and taken for placed.
InDry == cmd.dry

\* The order reaches the book on the side of the command.
Booked ==
  IF Side(seen) = "B"
  THEN buying' = buying + Batch /\ UNCHANGED <<pos, selling, dead>>
  ELSE selling' = selling + Batch /\ UNCHANGED <<pos, buying, dead>>

\* The next batch, or, after the last one, the check of the leg.
Advance ==
  /\ todo' = todo - Batch /\ placed' = placed + 1
  /\ sends' = 0 /\ reconnects' = 0
  /\ pc' = IF todo - Batch > 0 THEN pc
           ELSE IF pc = "close" THEN "checkclose" ELSE "checkopen"
  /\ UNCHANGED <<qty, retries, snapshot, result>>

Placing == pc \in {"close", "open"} /\ UNCHANGED <<cmd, seen, base, left>>

PlaceAccepted ==
  /\ Placing /\ (IF InDry THEN UNCHANGED book ELSE Booked)
  /\ Advance /\ UNCHANGED faults

\* _check_margin_sufficient says no (limit orders only, before the first send,
\* in a dry run as well).
MarginShort ==
  /\ Placing /\ cmd.limit /\ sends = 0 /\ reconnects = 0
  /\ "margin" \in Faults
  /\ NotEnoughMoney
  /\ UNCHANGED <<book, faults>>

\* The broker answers with status 90.
PlaceRejected ==
  /\ Placing /\ ~InDry /\ Inject("reject")
  /\ dead' = TRUE
  /\ Finish("fail")
  /\ UNCHANGED <<pos, buying, selling>>

\* Mutant of SendAgain: the retries are not counted against their limit.
SendForever(r) ==
  /\ sends' = sends + 1 /\ reconnects' = r
  /\ UNCHANGED <<pc, qty, retries, snapshot, result, todo, placed>>

\* place_order raises.  The order did not reach the broker ("send_error") or
\* did ("lost_ack"); the code cannot tell and sends it again.
SendAgain(r) ==
  IF sends > PlaceRetries THEN Finish("fail")
  ELSE /\ sends' = sends + 1 /\ reconnects' = r
       /\ UNCHANGED <<pc, qty, retries, snapshot, result, todo, placed>>

PlaceRaises ==
  /\ Placing /\ ~InDry
  /\ \/ Inject("send_error") /\ UNCHANGED book
     \/ Inject("lost_ack") /\ Booked
  /\ SendAgain(reconnects)

\* place_order raises a session-dead error: one reconnect, and the count of
\* failed sends starts again unless the reconnect fails too.
PlaceReconnects ==
  /\ Placing /\ ~InDry /\ reconnects = 0
  /\ Inject("session_dead")
  /\ \/ UNCHANGED book
     \/ "lost_ack" \in Faults /\ Booked
  /\ \/ /\ sends' = 0 /\ reconnects' = 1
        /\ UNCHANGED <<pc, qty, retries, snapshot, result, todo, placed>>
     \/ SendAgain(1)

\* Mutant of Expected: it is enough that nothing is held the wrong way.
NotAgainst == Toward(seen, pos) >= 0

\* Mutant of Expected: the opening leg does not wait for the closing one.
OpensAtOnce == pc = "checkclose" \/ Toward(seen, pos) > 0

\* What _check_order_info waits for: no position while closing, a position in
\* the direction of the command while opening.
Expected == IF pc = "checkclose" THEN pos = 0 ELSE Toward(seen, pos) > 0

Checking ==
  pc \in {"checkclose", "checkopen"} /\ UNCHANGED <<book, cmd, seen, base, left>>

\* One check per placed order; the last one ends the leg.
CheckPasses ==
  /\ Checking /\ Expected /\ UNCHANGED faults
  /\ IF placed > 1
     THEN /\ placed' = placed - 1
          /\ UNCHANGED <<pc, qty, retries, snapshot, result, todo, sends,
                         reconnects>>
     ELSE IF pc = "checkclose" /\ cmd.kind # "MAYDAY"
     THEN OpenLeg(seen)
     ELSE Finish("ok")

\* The polls are used up, the order has failed, or the query has.
CheckRaises ==
  /\ Checking
  /\ \/ ~Expected /\ UNCHANGED faults
     \/ Inject("query_error")
  /\ NeedRetry

TraderStep ==
  \/ ReadPositions
  \/ ReadOrders
  \/ QueryFails
  \/ CancelTrades
  \/ PlaceAccepted
  \/ MarginShort
  \/ PlaceRejected
  \/ PlaceRaises
  \/ PlaceReconnects
  \/ CheckPasses
  \/ CheckRaises

-----------------------------------------------------------------------------
(* The broker.                                                             *)

trader == <<pc, cmd, qty, retries, snapshot, seen, plan, result, base, left>>

\* A move of the book between the two queries of a snapshot is counted as a
\* fault, so that runs can do without it.
Moves == IF pc = "orders" THEN Inject("skew") ELSE UNCHANGED faults

\* A lot trades.
Fill ==
  /\ Moves
  /\ \/ buying > 0 /\ buying' = buying - 1 /\ pos' = pos + 1 /\ UNCHANGED selling
     \/ selling > 0 /\ selling' = selling - 1 /\ pos' = pos - 1 /\ UNCHANGED buying
  /\ UNCHANGED <<dead, trader>>

\* A lot is withdrawn: its order fails (and stays listed) or is cancelled.
Withdraw ==
  /\ "withdraw" \in Faults /\ Moves
  /\ \/ buying > 0 /\ buying' = buying - 1 /\ UNCHANGED selling
     \/ selling > 0 /\ selling' = selling - 1 /\ UNCHANGED buying
  /\ dead' \in {dead, TRUE}
  /\ UNCHANGED <<pos, trader>>

Next ==
  \/ \E c \in Commands : Begin(c)
  \/ TraderStep
  \/ Fill
  \/ Withdraw

Spec == Init /\ [][Next]_vars

(* The thread that runs the command is not stopped for ever; nothing is    *)
(* assumed of the broker.                                                  *)
FairSpec == Spec /\ WF_vars(TraderStep)

-----------------------------------------------------------------------------
(* Properties.                                                             *)

TypeOK ==
  /\ pos \in Int /\ buying \in Nat /\ selling \in Nat /\ dead \in BOOLEAN
  /\ pc \in {"idle", "positions", "orders", "cancel", "close", "checkclose",
             "open", "checkopen", "done"}
  /\ cmd \in Commands /\ qty \in Int
  /\ retries \in 0..(CloseOpenRetries + MayDayRetries + 1)
  /\ snapshot \in {"first", "fresh"} /\ seen \in Int
  /\ todo \in Nat /\ placed \in Nat
  /\ sends \in 0..(PlaceRetries + 1) /\ reconnects \in 0..1
  /\ result \in {"none", "ok", "fail"} /\ base \in Nat \cup {-1}
  /\ left \in Nat /\ faults \in Nat

Closing == pc \in {"close", "checkclose"}
Opening == pc \in {"open", "checkopen"}

\* Lots working on the side of the command and on the other side.
Ours == IF Side(seen) = "B" THEN buying ELSE selling
Theirs == IF Side(seen) = "B" THEN selling ELSE buying

\* Where the position ends if everything placed or still to place fills,
\* counted in the direction of the command.
Outlook == Toward(seen, pos) + Ours + todo

\* What was asked for, fixed when the command first acts: the cap of a BUY, its
\* quantity on top of what it held then if it has no cap, or the quantity of a
\* CLOSE_AND command.
Target ==
  CASE cmd.kind = "BUY" /\ cmd.cap > 0 -> cmd.cap
    [] Uncapped -> base + cmd.qty
    [] OTHER -> cmd.qty

\* 0 + 1 + ... + (n - 1)
Triangle(n) == (n * (n - 1)) \div 2

\* The one way past it that needs no fault: a BUY without a cap does not count
\* what it bought when it starts over with one lot less, so that refusing k
\* lots for margin between two batches leaves up to k - 1 of them bought, k - 2
\* too many.  With one batch there is no between.
Uncounted ==
  IF Uncapped /\ cmd.qty > BatchQty THEN Triangle(cmd.qty - 1) - Triangle(qty - 1) ELSE 0

\* The orders of a command never take the position past what was asked for,
\* over batches, partial fills, withdrawn orders and every retry: closing stops
\* at flat (MAYDAY and the closing legs never flip the position), and opening
\* stops at the target, but for a BUY without a cap and of several batches,
\* which goes past it by no more than its margin retries leave uncounted.
NoOvershoot ==
  /\ Closing => Outlook <= 0
  /\ Opening => Outlook <= Target + Uncounted

\* A command that places orders has no order working on the other side, so it
\* never trades with itself.
NoCrossing == Closing \/ Opening => Theirs = 0

\* What a success of the command claims about the account.
Achieved ==
  CASE cmd.kind = "MAYDAY" -> pos = 0 /\ buying = 0 /\ selling = 0
    [] cmd.kind = "BUY" -> pos > 0
    [] OTHER -> cmd.qty > 0 => Toward(seen, pos) > 0

\* A success is one when it is reported: after MAYDAY the account is flat with
\* nothing working, after BUY (its no-op included) and after a CLOSE_AND
\* command for at least one lot it holds a position in the right direction.
SuccessIsReal ==
  [][(result' = "ok" /\ pc # "done") => Achieved']_vars

\* _buy_futures: "When max_qty > 0, final long is capped."
CapRespected ==
  (Opening /\ cmd.kind = "BUY" /\ cmd.cap > 0) => pos + buying <= cmd.cap

\* A dry run sends its cancels all the same: from its first leg on nothing
\* works, whatever worked before, and it trades nothing over its legs, checks
\* and retries, so that the position it read is still that of the account.
DryRunTradesNothing ==
  (cmd.dry /\ (Closing \/ Opening)) => buying = 0 /\ selling = 0 /\ pos = seen

\* The command as OrderPromise sees it.
Status ==
  CASE pc = "idle" -> "none" [] pc = "done" -> result [] OTHER -> "running"

Promise == INSTANCE OrderPromise WITH status <- Status

\* Step by step a command keeps to OrderPromise: it cancels before it places,
\* closes before it opens and waits for the closing to be done, never has
\* orders on both sides or past its limit, places none in a dry run, and
\* answers once, with a success only if it is one.
PromiseKept == Promise!Spec

\* How far a command still is from its end, the more significant part first:
\* lots it may still give up, restarts, stages of its plan, lots of the leg,
\* checks, reconnects and sends.
Stage ==
  CASE pc \in {"idle", "done"} -> 0
    [] pc = "checkopen" -> 1
    [] pc = "open" -> 2
    [] pc = "checkclose" -> 3
    [] pc = "close" -> 4
    [] pc = "orders" /\ snapshot = "fresh" -> 5
    [] pc = "positions" /\ snapshot = "fresh" -> 6
    [] pc = "cancel" -> 7
    [] pc = "orders" /\ snapshot = "first" -> 8
    [] OTHER -> 9

Budget ==
  <<AtLeast0(qty), CloseOpenRetries + MayDayRetries + 1 - retries, Stage,
    todo, placed, 1 - reconnects, PlaceRetries + 1 - sends>>

\* a is below b: the first place they differ in is smaller in a.
Below(a, b) ==
  \E i \in 1..7 : a[i] < b[i] /\ \A j \in 1..7 : j < i => a[j] = b[j]

\* A command for at least one lot cannot run for ever: each of its steps, the
\* retries, restarts and reconnects included, lowers its budget, whatever the
\* broker answers, and nothing the broker does raises it.
StepsRunDown ==
  [][(pc \notin {"idle", "done"} /\ (cmd.kind \in {"MAYDAY", "BUY"} \/ cmd.qty > 0))
       => IF TraderStep THEN Below(Budget', Budget) ELSE UNCHANGED Budget]_vars

\* Every command ends and lets go of the order lock: its retries run out
\* whatever the broker does.
CommandTerminates == (pc \notin {"idle", "done"}) ~> (pc = "done")
=============================================================================

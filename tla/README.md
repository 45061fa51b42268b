# Fubon order agent: TLA+ models

Models of `cloud-trading-agent`, the service that takes trading commands from Pub/Sub and executes them
at Fubon Securities: what happens to a command from its delivery to its feedback, what an order command
does to the order book, how its limit price moves, what becomes of its fills, how the broker session is
kept, and how queries are paced. Paths below are relative to the repository (`src/`). `main.py` is abbreviated M,
`fubon_agent/api/base.py` B and `fubon_agent/api/fubon_api.py` F.

## 1. The system

| Component | State it keeps | Operations | What makes it correct |
|---|---|---|---|
| Intake and claim (M) | claim objects in a shared bucket; order lock; Pub/Sub's backlog | push handler, claim, lock, HTTP answer | at most one execution per command over duplicates, processes and restarts; one command at a time on the session; every command some service can serve is executed; unusable messages leave the subscription |
| Dispatch (B 104-172, 210-257) | `_cmd_history`, `trace_id`, `agent_id` | filter, register, expiry, `run` | an expired command is not executed |
| Feedback POST (B 260-332) | retry counter | POST with retries | bounded number of POSTs |
| Order execution (F 986-1043, 1124-1736) | broker: position and working orders; command: quantity, retries, batches | MayDay, Buy, CloseAndBuy, CloseAndSell | past the target only by a known amount, never against itself, success is true, `max_qty` holds, every command ends |
| Price chase (F 1045-1122) | price of the attempt | chase at every leg, step at every retry | bounded reach, never worse for filling than asked, soft cap |
| Rate limiter (F 172-198) | deque of stamps, lock | `acquire` | at most `max_calls` per period, no needless sleep |
| Broker session (F 141-446, 603-673; M 31-36) | `sdk`, `accounts`, `current_account`, flags; sessions at the broker | startup, login, reconnect, age limit, disconnect events, account selection, shutdown | no pile-up of logins, right account through reconnects, own logout harmless, a dead session replaced |
| Trade callbacks (F 461-592) | none of their own: they read `agent_id` and `trace_id` | filter fills, DEAL_CALLBACK feedback | nothing of the stock market is reported, a report names a command and an agent that belong together, every fill of ours is reported, disconnects are not held up for ever |
| Product matching (F 925-938, 1347-1371) | - | which positions and orders count for a command | orders lead to the right net position over contract months, MAYDAY reports success only when flat |
| Margin arithmetic (F 680-878) | - | one comparison | its verdict is a choice of OrderExecution |
| Configuration, logging, login check, scripts, deployment | - | - | not modelled: pure I/O and tooling |

How they interact. A push handler runs in one of fifty threads; after the claim it takes the order lock
and, with the lock held, gets the session logged in (`get_or_create_agent`), runs the command and posts
its feedback. Order commands call the broker through the session; each query goes through the limiter.
A dead session is noticed by a failing API call, by the age limit or by a disconnect event that the
SDK's own thread delivers; that thread only sets a mark, the next command or call reconnects.

What is hard: several services and processes read one topic and share one bucket; requests time out
while their threads go on; the book moves between any two calls, inside one snapshot too; sends can
succeed without an answer; events of a session arrive after it was replaced; everything is retried, and
each retry starts from what the last attempt left. `PROJECT.json` lists these hazards at their lines.

## 2. Modules

| Module | Models | Checked by | Proved in |
|---|---|---|---|
| `CommandLedger` | abstract: a command is claimed once, executed at most once by a claimant, answered a bounded number of times | refinement in `intake_safe` | `CommandIntake_proofs` |
| `CommandIntake` | M and the dispatch half of B | `MCCommandIntake` | `CommandIntake_proofs` |
| `OrderPromise` | abstract: the orders a command may have working at any moment, and what its success says | refinement in `orders_calm` | `OrderPromise_proofs` |
| `OrderExecution` | the four order commands against a moving book | `MCOrderExecution` | `OrderExecution_proofs` |
| `ContractMonths` | the same commands when several contract months are held | `MCContractMonths` | `ContractMonths_proofs` |
| `PriceChase` | limit prices of CloseAndBuy and CloseAndSell | `MCPriceChase` | `PriceChase_proofs` |
| `RateLimiter` | `RateLimiter.acquire` | `MCRateLimiter` | `RateLimiter_proofs` |
| `Session` | the life of the broker session and of its process | `MCSession` | `Session_proofs` |
| `FillFeedback` | the callbacks and their reports beside the order thread | `MCFillFeedback` | `FillFeedback_proofs` |

`map` in `PROJECT.json` ties each definition to its lines. Definitions whose comment begins with
"Mutant of" are used by no specification: each is a plausible bug, and substituting it for the definition
it names must break the property it is listed with.

### CommandIntake

`pc[w]` is the step of thread `w`: claim (M 99-131), order lock (M 157), `get_or_create_agent` (M 158),
`_register_command`, the head of `run` with its expiry test, the command itself, the feedback POSTs, the
release of the lock and the HTTP answer. `raised` is an exception on its way to the handler, `late` a
request Cloud Run has already answered. The bucket, `_cmd_history` and the lock are as in the code; a
crash loses everything of a process except the bucket. `Kind` says what a payload is missing, which is
all the code distinguishes. External: one outstanding push per message and subscription, acknowledgement by a
2xx status, redelivery of the rest, the 600 s request timeout, the termination of instances.

### OrderExecution

The broker's book is a net position and the lots working on either side; `pc` walks one command through
positions query, orders query, cancels, closing leg, its check, opening leg and its check. The four
commands differ in the side they face (`Side`), what they hold already (`Held`, `Against`), how many lots
to open (`OpenLots`) and what an exception leads to (`NeedRetry`, `NotEnoughMoney`); the steps are shared
since the code repeats them. Lots fill one at a time at any moment, or are withdrawn. Abstracted: prices,
which order a lot belongs to, the number of polls of a check (it passes or is used up), the margin
arithmetic (its verdict is a choice) and the contract month (`ContractMonths` has it). A dry run (`InDry`) takes the whole
path, real queries, cancels and margin checks included, and leaves out the sends only (F 1256). Failing queries are retried inside `_has_open_interest` without any other effect, so only
the give-up is a step. One variable is not the code's: `base` keeps what a BUY without a cap held in the first snapshot it acted on,
so that its target (`Target`, what it held then and the quantity asked for) stays where it is while margin retries lower `qty` and
read the book anew. After a reconnect that fails, the model still allows the next send to succeed.

### OrderPromise

One command as its caller may rely on it: whatever works is cancelled (`Clear`), an order only ever closes what is
held the other way or, with nothing held that way, opens towards the limit (`Place`), and success is reported
only of an account that has what was asked for, at least in part (`Answer`). How often it starts over, what it reads
and in which order is no part of it. `OrderExecution` implements it with `status` as a function of `pc` and
`result`.

### ContractMonths

Positions are matched to a command by the root of the product (TXF), orders go to the month the command names.
`own` is the net position in that month, `others` the lots in the rest of the family, which no order can
change. The steps are those of OrderExecution with a snapshot (cancels included) as one step, since what moves inside
one is that module's subject. `ByHand` is a correction between two commands: without one, a command for the wrong
month adds to the damage at every retry.

### PriceChase

`price` is the command's price in this attempt, `limit` the last limit sent. Every look at the market
gives any quote or none (the quote is that of a position: none while flat). `peak` is a history variable,
the furthest quote so far. Prices are whole points because the code applies `int()`.

### RateLimiter

`granted` lists all stamps ever given; `_calls` is its part from `head` on. Assumed: a monotonic clock, sleeps
that may overrun, and that the clock has advanced between one call's stamp and the next call's first look. A request leaves some time after its stamp, which the limiter
cannot see; the bound is one on stamps.

### Session

`open` is what the broker counts against the connection limit, `pending` the events not delivered yet.
The order thread goes entry (`get_or_create_agent`) - run - init (`InitAgent`) - account - trading, and from
any of these through login, and restore when inside `reconnect`. Only one thread does so, by the order
lock of CommandIntake, hence `_reconnect_lock` is never contended and is left out. `SafeReset` logs out,
`Leak` is a logout that raised; `leaked` is a history variable, the sessions it left at the broker. Events of earlier
sessions reach the same handler. `After` says where `ensure_logged_in` returns to: from the startup login (M 33), from
`get_or_create_agent` and from `InitAgent`. `Shutdown` happens with the thread idle only, since the server waits for its
requests before it calls `shutdown()` (M 35); a grace period that runs out first is `Killed`. Both, and a startup that gives up,
end the process; what it leaves logged in is in `orphans`, whose events nobody hears.
The agents of the model are those of `agent_account_mapping`; the filter drops others beforehand.

### FillFeedback

The order thread sets `trace_id`, then `agent_id` (`RunStarts`, `RunNamed`), and leaves them set after the command. Every session
has a callback thread (`cb`) that takes its events in order: it reads the agent, then the command, without a
lock, and POSTs with retries before it turns to the next event. A fill is what the filter can tell of it: its market,
whether the payload shows stock or futures signs, and whose account it names. A fill goes to every open session of the
person, so one session left behind means two reports, which nothing in the code prevents. What a disconnect does is in Session.

## 3. Runs

`TypeOK` of each module holds the counters to their limits besides the types.

| Run | Properties | What it shows |
|---|---|---|
| `intake_safe` | TypeOK, AtMostOnce, OneAtATime, FeedbackBounded, LedgerSpec, ExpiredIsRefused | two threads of one process and one of a second process of the service (a rollout), a trade and an unnamed query, all eight faults, two at a time |
| `intake_live` | AcknowledgedIsHandled, EveryCommandRuns, LockIsGranted, BacklogDrains | two services, a trade, a command that raises under the lock and an unreadable message, with a duplicate or a timed-out request: what a subscription has dropped was executed or will be, no filter takes a command from the service it is for, the lock is passed on, nothing is redelivered for ever |
| `orders_calm` | TypeOK, NoOvershoot, NoCrossing, CapRespected, DryRunTradesNothing, SuccessIsReal, PromiseKept | any three of eleven commands in a row, dry runs among them, any position in -2..2, leftover orders, six kinds of faults; no position goes past the target of its command but for what the margin retries of a BUY without a cap leave uncounted (`Uncounted`); `PromiseKept` is the refinement of OrderPromise |
| `orders_ends` | StepsRunDown, CommandTerminates | every command for at least one lot ends, all faults included, since each of its steps lowers a budget that nothing raises |
| `chase_reach` | TypeOK, NeverShyOfInitial, WithinReach, CapWithoutMarket, SellMirrorsBuy | every sequence of quotes over six attempts |
| `limiter` | TypeOK, RateHolds, NoNeedlessWait | every timing over four windows |
| `session_safe` | TypeOK, OneSession, AccountFollowsAgent, OwnLogoutIsHarmless, DeadSessionIsReplaced | start, commands of two agents, shutdown and loss of the process, failing logins and logouts, dying and ageing sessions, late events, unrecognised errors, logins that return one account or both |
| `fills` | TypeOK, NamesBelongTogether, StockStaysOut, FillsAreReported, DisconnectGetsThrough | three commands of two agents, two fills of any of four kinds at any moment, fills of other hands, disconnects, failing reports |
| `months` | TypeOK, NetOnTarget, MayDaySuccessIsFlat | any sequence of six commands, lots in the month of the command and in others on either side or both, partial fills, refused orders, corrections by hand |

Runs that refute what the repository says of itself (quoted in `findings`):

| Run | Property | Why it fails |
|---|---|---|
| `intake_claim_error` | ClaimErrorIsRetried | `return "", 500` is a 200 response for FastAPI (M 184): the message is acknowledged, the command lost |
| `orders_close_only` | CommandTerminates | quantity 0 and a lasting margin shortage: `qty == 1` is never met (F 1620) |
| `session_foreign` | NeverAnotherAccount | an account missing from the login leaves the previous one current (F 661) |

More disagreements were met while modelling that have no run of their own.

- *Orders.* A working lot that fills between the two queries of a snapshot is in neither (F 1001, fault `skew`); an accepted
  order whose answer is lost is sent again (F 1217, `lost_ack`); the snapshot after the cancels, when it fails, is taken for a
  flat account (F 1429, `refresh_error`), against the docstring at `tests/test_order_agent_fubon_api_futures.py:366`. Each breaks
  `CapRespected` and `NoOvershoot`; adding the fault to `orders_calm` shows it.
- *A BUY without a cap buys more than asked.* Refused for margin between two batches, it starts over with one lot less and does not
  count what the first batches bought (F 1469, F 1513-1521). `Outlook <= Target` in place of `Outlook <= Target + Uncounted` fails in `orders_calm`
  with margin shortages alone: 3 lots asked for in batches of one, two bought, the third refused, two more bought. `Uncounted` is
  how far it can go, the sum of what each refused attempt may have bought; it is exact for batches of one and an upper bound for larger ones.
  With the code's batches of 20 it takes more than 20 lots: 25 asked for can end as 120. The tests know a BUY
  without a cap in one batch only (`test_buy_without_max_qty_places_full_qty`, `tests/test_order_agent_fubon_api_futures.py:275`).
- *Contract months.* `max_qty` bounds the lots a BUY opens, over all months together (theorem `CapCoversAllMonths`), but not its closing
  orders: with lots short in another month these alone are a long in the month of the command, past the cap if the cap is smaller, and the
  check after them never passes. A MAYDAY or a close whose lots are all in another month opens the
  opposite position instead, never passes its check, and does so again at every retry (`MayDayDamageIsBounded` says how far). CloseAndBuy and CloseAndSell skip the check of the
  closing leg when the snapshot has rows of both directions.
- *Price chase.* Any quote lifts the soft cap, also one far below it, against the comment at F 1102; and a retry without
  a quote falls back to the soft cap when a quote had gone past it, so that not every retry bumps the price as the docstring at F 1095 says.
- *Session.* A login that succeeds on a retry outside `reconnect` leaves `_session_transition` set (F 306): disconnects are ignored until
  a call fails or the session is too old, against the comment at F 259 and `README.md:50`. Each startup that gives up
  may leave a session behind at the broker.

### Bounds

- Faults are counted (`MaxFaults`, one or two per run) and listed per run (`Faults`); a run without a fault
  in its list says nothing about it. Margin verdicts, withdrawn lots, lost cancels, expiry, failing POSTs
  and unrecognised errors are not counted.
- Intake: three threads in two processes and up to three commands. A race for a claim needs two claimants,
  one for the lock two threads of a process with a command each; the third thread stands for the other process
  or the other service. The two threads of a process are symmetric, which the safety run uses.
  `FeedbackRetries` is the code's 3. The runs use four of the seven kinds of payload (trade, query,
  unsupported, garbled); the theorems hold for all.
- Orders: positions of at most two lots at the start, no or two leftover lots per side, three faults, batches of one lot so that a leg of two
  lots is two batches and a BUY of three can be refused between them. `CloseOpenRetries` is 2 (5 in the code), `MayDayRetries` 1 (2), `PlaceRetries` 0 (2):
  each loop still runs more than once. Three commands in a row let one meet the leftovers of
  another, with a dry run before, between or after.
  `Floor` keeps the falling quantity of the close-only run finite; it lies below one (`OrderConstants`), so it cuts off no command for
  at least one lot.
- Price chase: a tenth of the code's 30, 50 and 200, and the code's 5 retries; quotes lie below, near and
  above what the chase reaches on its own.
- Limiter: two calls per three ticks over twelve ticks; the theorems have no bound.
- Session: two agents with an account each, three reusable session identities: one for the live session
  and one for each fault that can leave one behind; one login retry (2 in the code), two faults, so that a second one hits
  what the first has left (a retried login followed by a disconnect that is ignored, a killed process after a failed logout).
- Fills: one session, three commands (a read of the agent, a command and a read of its id can each fall into another), two fills, so that one
  waits behind the report of the other, and `FeedbackRetries` 1 (3 in the code). The theorems hold for any number of sessions.
- Months: two lots in the month of the command and two in others at the start, quantities up to three; `MaxOwn` is the position up to which a
  further command starts, and `ByHand` brings the account back below it.

### Fairness

- Intake: weak fairness of each thread's step (a thread of a live process goes on) and of each redelivery
  (Pub/Sub retries until acknowledged). None on faults, expiry or crashes.
- Orders: weak fairness of the command's next step only; nothing is assumed of the broker, whose fills may
  never come.
- Session: weak fairness of the thread, of event delivery, of the age limit (time goes by) and of `Begin`
  (commands keep coming: the code replaces a session only for a command). Strong fairness of `CommandEnds`:
  a command makes a bounded number of API calls, which is CommandTerminates of OrderExecution. There is always a process
  (`min-instances` 1), which makes steps of the thread again after a shutdown or a kill.
- Fills: weak fairness of each session's callback thread. Commands, fills and disconnects need not come. `DisconnectGetsThrough` is what
  justifies Session's fairness of event delivery.

Deadlock is checked in `session_safe`, `session_foreign`, `fills` and `months`, where something can always happen: a command, a session's end,
a correction by hand. The others stop legitimately: all messages handled, commands or retries used up, the clock at its bound.

## 4. Proofs

All theorems hold for every value of the constants under the module's named assumption, which TLC evaluates in
the runs. Most of the `_proofs` modules define `IInv`, prove `Init => IInv` and `IInv /\ [Next]_vars => IInv'`, and
derive the theorems; further invariants are added to it where a theorem needs more. A theorem about faults that
do not happen says so in its hypothesis (`"gcs_error" \notin Faults`), and holds for all the others.

- **CommandIntake_proofs**
  - `TypeCorrect`, `ExecutedAtMostOnce`, `SessionIsExclusive`, `PostsAreBounded`,
    `ExpiredStaysRefused`, `ImplementsLedger`. At-most-once is not inductive: it needs that the claim object names the service of
    the one thread past the claim (`OwnsClaim`, `OneOwner`), that an unclaimed command has no runs and
    posts (`UnclaimedUntouched`), and that a thread that has yet to execute is the first
    (`OwnerIsFirst`). The POST bound ties the retry counter to the posts so far (`RetryCountsPosts`). The
    refinement follows from the same invariant, step by step.
  - `NoAcknowledgedCommandIsLost` is the other half of exactly-once, without a crash, a lost reply, a storage or a login error
    (`Dependable`; each of the four does lose a command). Its invariant (`CarryInv`): an answer is about to be given only
    to a command somebody claimed (`RespondsToClaimed`), a claim is of a service that accepts the command (`ClaimsAreOwn`), a command in a history is past its
    registration (`HistoryIsPast`: a duplicate refused by `_register_command` is not the one that matters), and a claimed command is handled (`ClaimedIsHandled`).
    `OnlyClaimErrorsLose` drops all of these hypotheses but one for the smaller statement that no unclaimed command is dropped.
  - `LockIsNeverAbandoned` and `RequestsTakeBoundedSteps`: the lock is held by a live thread inside its block or by nobody
    (`LockHasHolder`), and the steps a request has left (`StepsLeft`, at most FeedbackRetries + 10) fall with each step of its thread.
- **OrderExecution_proofs**
  - `TypeCorrect` without any assumption on faults, and `CommandsRunDown`, likewise: `Budget` lists what a command can still
    use up, the more significant first - lots it may give up, restarts, stages, lots of the leg, checks, reconnects, sends -
    and each of its steps lowers it lexicographically, while fills and withdrawals leave it alone. `BudgetsRunOut` says that
    this cannot go on for ever: the order is well-founded. Commands for at least one lot therefore end; the module assumes `Floor < 1` for it.
  - `OrdersNeverCross` if no cancel is lost. Its invariant (`CrossInv`) does not need the snapshot to be right: it is the shape of a leg (`Shape`: which side, which step),
    that nothing works after the cancels (`FreshIsClear`), and that nothing works on the other side while a leg is under way.
  - `OvershootNeedsFaults` if no cancel is lost and no refresh fails: what a command leads to (`Outlook`) is past its target and `Uncounted` by at most
    `BatchQty` for each fault so far (`OvershootIsPaidFor`), since the position read is off by at most one lot for each lot that filled
    meanwhile (`Drift`), and what a leg has placed and still has to place is conserved while lots fill (`OvershootStep`, which the next theorems use with no slack).
    Between two attempts, `RestartIsPaidFor` says what a BUY without a cap that is about to start over leaves room for.
  - `OrdersNeverOvershoot`, `CapHolds`, `SuccessesAreReal` and `DryRunsAreDry` under `Calm`: no skewed snapshot, no lost cancel, no failed refresh, no
    lost acknowledgement. Each of these faults breaks one of the theorems: three let a capped BUY go past its cap,
    a lost cancel breaks `NoCrossing` at once. Rejections, failed queries and sends, reconnects, margin shortages, withdrawals and fills at
    any other time are all allowed. The invariant says that a snapshot equals the book it is about to
    be used on (`SnapshotIsTrue`: nothing works after the cancels, so nothing can move);
    `QtyStaysPositive` carries positive quantities through the retries and `QtyOnlyShrinks` keeps them below what was asked for.
    For a BUY without a cap, whose target is fixed while its retries move on, that is not enough: `UncappedShape` says that its first snapshot
    is behind it when it acts and that with one batch nothing is left behind, and `RestartIsCounted` that the book, what still works on it and the
    lots it will ask for next stay within target and `Uncounted`. A refusal adds the lots of one more attempt, the next term of a
    sum (`Triangle`, `RoomAfterRefusal`).
- **OrderPromise_proofs**: `OrdersKeepThePromise`, the refinement, under `Calm` again. To the invariant above it adds that
  a started command has not answered (`Pending`), what the answer was true of (`Answered`) and that an opening leg
  has nothing held against it (`Room`); that its lots fit under the limit follows from `NoOvershoot` and `QtyOnlyShrinks`. OrderPromise itself sets no limit on
  a BUY without a cap. Each step of a command is then `Ask`, `Clear`, `Place`, `Answer`, or a
  stutter, and each of the broker's `Market`.
- **ContractMonths_proofs**, for any months and quantities
  - `TypeCorrect`, `OrdersLeadToTheTarget`, `MayDayIsHonest`. The invariant
    says that between the cancels and the first order the snapshot is the book (`SnapshotIsExact`), and that what a leg has placed leads where it should
    while lots fill (`ClosesLead`, `OpensLead`); a MAYDAY whose rows were one-sided has orders on one side only (`MayDayOneSided`).
  - `CapCoversAllMonths`: a BUY never sells and gets to its opening orders only when no month is short (`BuyIsOneSided`); with the net target above, the
    long lots of all months stay within the cap.
  - `MayDayDamageIsBounded`: the position with its orders, and for every attempt to come the lots of the other months, is a limit that no step of the command
    raises (`WorstShort`, `WorstLong`). Since the orders of an attempt are those lots and what the month itself holds, a MAYDAY for the wrong month opens at most
    MayDayRetries + 2 times the lots it was to close, and TLC shows that it can.
- **PriceChase_proofs**: `TypeCorrect`, `OrdersNeverShy`, `ChaseIsBounded`, `CapHoldsWithoutMarket`,
  `BranchesMirror`. The invariant bounds the attempt's price as well as the limit sent, for all integers.
- **RateLimiter_proofs**: `TypeCorrect`, `RateIsBounded`, `SleepsAreNeeded`. The invariant orders the stamps,
  says that those dropped from the deque are older than a period, and what the holder of the lock knows
  about the window before it stamps. `EveryWindowIsBounded` turns the spacing of calls into the limit as the broker states it, a number of calls in
  any window: the first call of a window (`LeastOf`) and the one `MaxCalls` later do not both fit.
- **Session_proofs**, for all faults
  - `TypeCorrect`, `SessionsNeverPileUp`, `CommandsKeepTheirAccount`, `LogoutIsHarmless`. A login starts from a clean client; but for leaked sessions the broker knows at most the
    client's own, which is not a leaked one, over shutdowns, kills and restarts too; `agent_id` is that of the command from `InitAgent` on; and an
    undelivered logout event implies the grace.
  - `ConnectionsAreBounded` bounds the leaked ones as well: each has a fault of its own (`LeaksArePaidFor`), hence the broker's ten connections take nine of them.
  - `LoginsAreBounded`: the steps left to the thread until its API call has ended (`StepsLeft`, with the login attempts among them) fall with each of its steps
    and nothing else adds to them, unless the process starts anew.
- **FillFeedback_proofs**
  - `TypeCorrect`, `ReportsNameRightly`, `StockIsKeptOut`, for any number of sessions. The invariant relates the two names
    the order thread has set to its progress (`Names`), bounds the owners of the fills under way (`OwnersNamed`), keeps for a
    callback between its two reads that the agent it has belongs to a command not later than the one it will name (`ReadsFit`), and
    says that only what passed the filter is in a callback (`OnlyHandled`).
  - `EventsAreServed`: each step of a callback thread takes something off the wait of every event behind it (`Wait`), one of our fills
    is read and posted in its turn, and whatever others do leaves an event in its place.

What each theorem says was model-checked before it was proved. Those with a property of a run are in the table of section 3; the invariants and
action properties that only a proofs module states (OvershootIsPaidFor, EveryWindowFits, ConnectionsAreCounted, LoginsRunDown, CapCountsEveryMonth,
MayDayStaysWithin, LockHasHolder, RequestsRunDown, EventsHaveTheirTurn) were checked on the instances of the runs of their modules.

Only model-checked: all liveness (EveryCommandRuns, LockIsGranted, BacklogDrains, CommandTerminates, DeadSessionIsReplaced,
FillsAreReported, DisconnectGetsThrough), which needs fairness and ENABLED; the provers here take neither. What they rest on besides fairness is proved where it is a
matter of safety: `CommandsRunDown` and `BudgetsRunOut` for CommandTerminates, `LockIsNeverAbandoned` and `RequestsTakeBoundedSteps` for LockIsGranted and BacklogDrains,
`NoAcknowledgedCommandIsLost` for EveryCommandRuns, `EventsAreServed` for FillsAreReported and DisconnectGetsThrough. For DeadSessionIsReplaced there is no such
measure: how long a dead session stays depends on when commands come and how long the age limit is. Each safety property of a passing run is a theorem.

## 5. Not modelled

- Configuration, logging and serialisation (`fubon_agent/__init__.py`, `agent_logging.py`): a file read once, text.
- `login_check.py` and the scripts: command-line tools to activate an account by hand, outside the service.
- Deployment scripts: the instance count, concurrency and timeout they set are constants and faults of CommandIntake.
- The mapping of symbols, products and SDK results, but for what the matching by product root means: string handling without
  state, on field names that only the broker's documentation fixes.
- The margin arithmetic: a comparison of numbers the broker reports; the models allow either verdict at any time, hence whatever it computes.
- Prices inside OrderExecution and ContractMonths: PriceChase has them, and no decision about lots depends on one.
- The stock paths, Sell and ListProfitLoss: they answer with a fixed failure. HasOpenInterest is a pure query.

## 6. Plan

What is left, in order of worth:

1. `TradingDay`, composing `Session` with `OrderExecution`: API calls that fail with the session, the account a resent order goes to
   after a reconnect, and a failed login in the middle of a leg.
2. Price chase: the two disagreements above as properties of runs, if a step to the furthest quote is what the code means to promise.
3. Proof of the composition, in `Session_proofs` or a module beside it.

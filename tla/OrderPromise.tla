---------------------------- MODULE OrderPromise -----------------------------
(***************************************************************************)
(* What an order command of fubon_api.py promises, however it goes about   *)
(* it: which orders it may have working at any moment, and what its        *)
(* success says of the account.  OrderExecution implements it as long as   *)
(* no fault lets it misread the book.                                      *)
(***************************************************************************)
EXTENDS Integers

CONSTANTS
  Commands,        \* the order commands that may arrive
  StartPositions,  \* net positions an account may start with
  StartWorking,    \* lots that may be working on a side at the start
  BatchQty         \* the largest order

VARIABLES
  pos,      \* net position, long positive
  buying,   \* lots of working buy orders
  selling,  \* lots of working sell orders
  cmd,      \* the command
  status    \* "none" before the first command, "running", "ok" or "fail"

vars == <<pos, buying, selling, cmd, status>>

Init ==
  /\ pos \in StartPositions
  /\ buying \in StartWorking /\ selling \in StartWorking
  /\ cmd \in Commands /\ status = "none"

\* The sides the orders of a command may be on.
Sides ==
  CASE cmd.kind = "MAYDAY" -> {"B", "S"}
    [] cmd.kind \in {"BUY", "CLOSE_AND_BUY"} -> {"B"}
    [] OTHER -> {"S"}

\* The position counted in the direction of side d, and the lots working there.
Exposure(d) == IF d = "B" THEN pos ELSE 0 - pos
Working(d) == IF d = "B" THEN buying ELSE selling

\* Lots the command may lead to; a BUY without a cap has no such limit.
Within(n) ==
  CASE cmd.kind = "MAYDAY" -> FALSE
    [] cmd.kind = "BUY" -> cmd.cap > 0 => n <= cmd.cap
    [] OTHER -> n <= cmd.qty

\* A command is taken, unless there is nothing to buy.
Ask(c) ==
  /\ status # "running"
  /\ cmd' = c
  /\ status' = IF c.kind = "BUY" /\ c.qty < 1 THEN "fail" ELSE "running"
  /\ UNCHANGED <<pos, buying, selling>>

\* Whatever works is cancelled, on both sides.
Clear ==
  /\ status = "running"
  /\ buying' = 0 /\ selling' = 0
  /\ UNCHANGED <<pos, cmd, status>>

\* An order: it closes what is held the other way and no more, or, with
\* nothing held the other way, it opens towards the limit.  Nothing works on
\* the other side, and a dry run places none.
Place ==
  /\ status = "running" /\ ~cmd.dry
  /\ \E d \in Sides, n \in 1..BatchQty :
       /\ \/ d = "B" /\ selling = 0 /\ buying' = buying + n /\ UNCHANGED selling
          \/ d = "S" /\ buying = 0 /\ selling' = selling + n /\ UNCHANGED buying
       /\ \/ Exposure(d) + Working(d) + n <= 0
          \/ Exposure(d) >= 0 /\ Within(Exposure(d) + Working(d) + n)
  /\ UNCHANGED <<pos, cmd, status>>

\* MAYDAY leaves the account flat with nothing working; the others hold what
\* they were to hold at least in part.
Achieved ==
  CASE cmd.kind = "MAYDAY" -> pos = 0 /\ buying = 0 /\ selling = 0
    [] cmd.kind = "BUY" -> pos > 0
    [] cmd.kind = "CLOSE_AND_BUY" -> cmd.qty > 0 => pos > 0
    [] OTHER -> cmd.qty > 0 => pos < 0

Answer ==
  /\ status = "running"
  /\ status' \in {"ok", "fail"} /\ (status' = "ok" => Achieved)
  /\ UNCHANGED <<pos, buying, selling, cmd>>

\* A working lot trades or is withdrawn, at any time.
Market ==
  /\ \/ /\ buying > 0 /\ buying' = buying - 1 /\ UNCHANGED selling
        /\ pos' \in {pos, pos + 1}
     \/ /\ selling > 0 /\ selling' = selling - 1 /\ UNCHANGED buying
        /\ pos' \in {pos, pos - 1}
  /\ UNCHANGED <<cmd, status>>

Next ==
  \/ \E c \in Commands : Ask(c)
  \/ Clear
  \/ Place
  \/ Answer
  \/ Market

Spec == Init /\ [][Next]_vars
=============================================================================

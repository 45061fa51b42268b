--------------------------- MODULE ContractMonths ----------------------------
(***************************************************************************)
(* The order commands of fubon_api.py when the account holds several       *)
(* contract months of one product family.                                  *)
(*                                                                         *)
(* Positions are matched to the product of a command by its root (TXF for  *)
(* TXFH6), so the rows of every month count as held, and are closed; but   *)
(* every order of the command, closing ones included, is for the month the *)
(* command names.  The rows of the other months therefore never change     *)
(* here, and only their lots per direction matter.                         *)
(*                                                                         *)
(* The snapshot is taken as one step, with the cancels in it: what moves   *)
(* between its parts is the subject of OrderExecution, as are batches,     *)
(* margin and failing queries.                                             *)
(***************************************************************************)
EXTENDS Integers

CONSTANTS
  Commands,         \* the order commands that may arrive
  StartOwn,         \* net positions in the month of the command at the start
  Others,           \* lots held in other months, [long : Nat, short : Nat]
  CloseOpenRetries, \* CLOSE_OPEN_MAX_OUTER_RETRY (5)
  MayDayRetries,    \* the 2 of "if retry > 2" in MayDay
  MaxOwn            \* bound on the position and its orders when a further
                    \* command starts

CommandType ==
  [kind : {"MAYDAY", "BUY", "CLOSE_AND_BUY", "CLOSE_AND_SELL"}, qty : Int, cap : Nat]

ASSUME MonthConstants ==
  /\ Commands \subseteq CommandType
  /\ \A c \in Commands : c.kind = "BUY" => c.qty > 0
  /\ StartOwn \subseteq Int /\ Others \subseteq [long : Nat, short : Nat]
  /\ CloseOpenRetries \in Nat /\ MayDayRetries \in Nat /\ MaxOwn \in Nat

VARIABLES
  own,      \* broker: net position in the month of the command
  others,   \* broker: lots in the other months of the family
  buying,   \* broker: lots of working buy orders, all in the command's month
  selling,  \* broker: lots of working sell orders
  pc,       \* the step the command takes next
  cmd,      \* the command
  seen,     \* long and short lots of the family in the last snapshot
  retries,  \* NeedRetryError retries so far
  result    \* success of the last response of the command

book == <<own, others, buying, selling>>
vars == <<own, others, buying, selling, pc, cmd, seen, retries, result>>

AtLeast0(n) == IF n > 0 THEN n ELSE 0
Lesser(a, b) == IF a < b THEN a ELSE b

Init ==
  /\ own \in StartOwn /\ others \in Others /\ buying = 0 /\ selling = 0
  /\ pc = "snapshot" /\ cmd \in Commands
  /\ seen = [long |-> 0, short |-> 0] /\ retries = 0 /\ result = "none"

-----------------------------------------------------------------------------
(* Reading the rows.                                                       *)

\* Mutant of Longs: rows are matched by their exact symbol when counted.
LongsOfMonth == AtLeast0(own)

\* Long and short lots of the rows that match the product.
Longs == others.long + AtLeast0(own)
Shorts == others.short + AtLeast0(0 - own)

\* Mutant of NoRows: the check looks at the month of the command only.
NoRowOfMonth == own = 0

\* _has_open_interest returns no position.
NoRows == Longs = 0 /\ Shorts = 0

\* 1 if the command ends up long, -1 if short.
Way == IF cmd.kind = "CLOSE_AND_SELL" THEN -1 ELSE 1

\* Lots already held that way, those to close on the buy side and on the sell
\* side, and those to open.
Held == IF Way = 1 THEN seen.long ELSE seen.short
Cover == IF cmd.kind = "CLOSE_AND_SELL" THEN 0 ELSE seen.short
Dump == IF cmd.kind \in {"MAYDAY", "CLOSE_AND_SELL"} THEN seen.long ELSE 0

OpenLots ==
  CASE cmd.kind = "MAYDAY" -> 0
    [] cmd.kind = "BUY" /\ cmd.cap = 0 -> cmd.qty
    [] cmd.kind = "BUY" /\ cmd.cap > 0 -> Lesser(cmd.qty, AtLeast0(cmd.cap - Held))
    [] OTHER -> AtLeast0(cmd.qty - Held)

-----------------------------------------------------------------------------
(* The steps of a command.                                                 *)

Finish(r) == pc' = "done" /\ result' = r /\ UNCHANGED retries

Goto(step) == pc' = step /\ UNCHANGED <<retries, result>>

\* Mutant of NeedRetry: the limit is dropped.
RetryForever ==
  IF cmd.kind = "BUY" THEN Finish("fail")
  ELSE pc' = "snapshot" /\ retries' = retries + 1 /\ UNCHANGED result

\* Buy reports failure; the others start over a bounded number of times.
NeedRetry ==
  IF \/ cmd.kind = "BUY"
     \/ cmd.kind = "MAYDAY" /\ retries > MayDayRetries
     \/ cmd.kind \in {"CLOSE_AND_BUY", "CLOSE_AND_SELL"}
          /\ retries >= CloseOpenRetries
  THEN Finish("fail")
  ELSE pc' = "snapshot" /\ retries' = retries + 1 /\ UNCHANGED result

\* Positions are read and working orders cancelled, in that order: a capped
\* Buy with nothing to do leaves the orders alone.
Snapshot ==
  /\ pc = "snapshot"
  /\ seen' = [long |-> Longs, short |-> Shorts]
  /\ IF cmd.kind = "BUY" /\ cmd.cap > 0 /\ Longs >= cmd.cap
     THEN Finish("ok") /\ UNCHANGED <<buying, selling>>
     ELSE Goto("close") /\ buying' = 0 /\ selling' = 0
  /\ UNCHANGED <<own, others, cmd>>

\* One closing order per row, then the check, which CloseAndBuy and
\* CloseAndSell leave out when the snapshot had rows of both directions.
PlaceCloses ==
  /\ pc = "close"
  /\ buying' = Cover /\ selling' = Dump
  /\ IF Cover + Dump = 0 THEN IF cmd.kind = "MAYDAY" THEN Finish("ok") ELSE Goto("open")
     ELSE IF cmd.kind \in {"MAYDAY", "BUY"} \/ Held = 0 THEN Goto("checkclose")
     ELSE Goto("open")
  /\ UNCHANGED <<own, others, cmd, seen>>

\* What _check_order_info waits for after the closing orders.
CheckClose ==
  /\ pc = "checkclose"
  /\ \/ NoRows /\ (IF cmd.kind = "MAYDAY" THEN Finish("ok") ELSE Goto("open"))
     \/ ~NoRows /\ NeedRetry
  /\ UNCHANGED <<book, cmd, seen>>

PlaceOpens ==
  /\ pc = "open"
  /\ IF Way = 1 THEN buying' = buying + OpenLots /\ UNCHANGED selling
                ELSE selling' = selling + OpenLots /\ UNCHANGED buying
  /\ IF OpenLots = 0 THEN Finish("ok") ELSE Goto("checkopen")
  /\ UNCHANGED <<own, others, cmd, seen>>

\* Any row of the right direction will do.
RowOurWay == IF Way = 1 THEN Longs > 0 ELSE Shorts > 0

CheckOpen ==
  /\ pc = "checkopen"
  /\ \/ RowOurWay /\ Finish("ok")
     \/ ~RowOurWay /\ NeedRetry
  /\ UNCHANGED <<book, cmd, seen>>

\* An order is refused: those before it stay in the book.
PlaceRejected ==
  /\ \/ /\ pc = "close"
        /\ buying' \in 0..Cover /\ selling' \in 0..Dump
     \/ /\ pc = "open" /\ OpenLots > 0
        /\ \E n \in 0..OpenLots :
             IF Way = 1 THEN buying' = buying + n /\ UNCHANGED selling
                        ELSE selling' = selling + n /\ UNCHANGED buying
  /\ Finish("fail")
  /\ UNCHANGED <<own, others, cmd, seen>>

\* A lot trades, in the month of the command.
Fill ==
  /\ \/ buying > 0 /\ buying' = buying - 1 /\ own' = own + 1 /\ UNCHANGED selling
     \/ selling > 0 /\ selling' = selling - 1 /\ own' = own - 1 /\ UNCHANGED buying
  /\ UNCHANGED <<others, pc, cmd, seen, retries, result>>

\* The next command for the same contract.
Begin ==
  /\ pc = "done" /\ own + buying <= MaxOwn /\ own - selling >= 0 - MaxOwn
  /\ cmd' \in Commands
  /\ pc' = "snapshot" /\ seen' = [long |-> 0, short |-> 0]
  /\ retries' = 0 /\ result' = "none"
  /\ UNCHANGED book

\* Somebody puts the position right by hand, between two commands.
ByHand ==
  /\ pc = "done" /\ own' \in StartOwn
  /\ UNCHANGED <<others, buying, selling, pc, cmd, seen, retries, result>>

Next ==
  \/ Begin
  \/ ByHand
  \/ Snapshot
  \/ PlaceCloses
  \/ CheckClose
  \/ PlaceOpens
  \/ CheckOpen
  \/ PlaceRejected
  \/ Fill

Spec == Init /\ [][Next]_vars

-----------------------------------------------------------------------------
(* Properties.                                                             *)

TypeOK ==
  /\ own \in Int /\ others \in [long : Nat, short : Nat]
  /\ buying \in Nat /\ selling \in Nat
  /\ pc \in {"snapshot", "close", "checkclose", "open", "checkopen", "done"}
  /\ cmd \in Commands /\ seen \in [long : Nat, short : Nat]
  /\ retries \in 0..(CloseOpenRetries + MayDayRetries + 1)
  /\ result \in {"none", "ok", "fail"}

\* The net position over all months once everything placed has filled.
Outlook == own + others.long - others.short + buying - selling

\* What it is to be: what the command leaves open, and what it opens.
Target ==
  CASE cmd.kind = "MAYDAY" -> 0
    [] pc = "checkopen" /\ cmd.kind = "BUY" /\ cmd.cap > 0 -> Lesser(Held + cmd.qty, cmd.cap)
    [] pc = "checkopen" /\ cmd.kind = "BUY" /\ cmd.cap = 0 -> Held + cmd.qty
    [] pc = "checkopen" /\ cmd.kind \notin {"MAYDAY", "BUY"} -> Way * cmd.qty
    [] OTHER -> Way * Held

\* Whatever months the lots are in and however often the command starts over
\* on half-filled orders, its orders lead to the net position it is meant to
\* reach: months are hedged against each other, and exposure never passes the
\* target, although no single month may be flat or within the cap.
NetOnTarget == pc \in {"checkclose", "checkopen"} => Outlook = Target

\* MAYDAY reports success only with every month flat and nothing working, also
\* when its closing orders went to another month than the lots: then they open
\* a second position instead, and the check never passes.
MayDaySuccessIsFlat ==
  [][(cmd.kind = "MAYDAY" /\ pc # "done" /\ result' = "ok")
       => own' = 0 /\ others'.long = 0 /\ others'.short = 0
          /\ buying' = 0 /\ selling' = 0]_vars
=============================================================================

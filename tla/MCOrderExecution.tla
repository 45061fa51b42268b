-------------------------- MODULE MCOrderExecution --------------------------
(***************************************************************************)
(* Small instances of OrderExecution: positions of at most two lots, at    *)
(* most two leftover lots working on a side, batches of one lot.           *)
(***************************************************************************)
EXTENDS OrderExecution

Command(k, q, c, l) == [kind |-> k, qty |-> q, cap |-> c, limit |-> l, dry |-> FALSE]
Dry(c) == [c EXCEPT !.dry = TRUE]

MayDay == Command("MAYDAY", 0, 0, FALSE)
MayDayLimit == Command("MAYDAY", 0, 0, TRUE)

AllCommands ==
  {MayDay, MayDayLimit, Command("BUY", 3, 0, TRUE), Command("BUY", 3, 2, TRUE),
   Command("BUY", 0, 0, TRUE), Command("CLOSE_AND_BUY", 2, 0, TRUE),
   Command("CLOSE_AND_SELL", 2, 0, TRUE), Command("CLOSE_AND_SELL", 0, 0, TRUE),
   Dry(MayDay), Dry(Command("BUY", 3, 2, TRUE)), Dry(Command("CLOSE_AND_SELL", 2, 0, TRUE))}

\* Commands with at least one lot to trade.
PositiveCommands ==
  {MayDayLimit, Command("BUY", 2, 0, TRUE), Command("BUY", 3, 2, TRUE),
   Command("CLOSE_AND_BUY", 2, 0, TRUE), Command("CLOSE_AND_SELL", 1, 0, TRUE),
   Dry(Command("CLOSE_AND_BUY", 2, 0, TRUE))}

\* A close-only command: run() passes qty 0 when the payload has none.
CloseOnly == {Command("CLOSE_AND_BUY", 0, 0, TRUE)}

Positions == -2..2
EndPositions == {-1, 2}
Short == {-1}
=============================================================================

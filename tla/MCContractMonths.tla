-------------------------- MODULE MCContractMonths ---------------------------
(***************************************************************************)
(* A small instance of ContractMonths: at most two lots in the month of    *)
(* the command and two in others, on either side or both.                  *)
(***************************************************************************)
EXTENDS ContractMonths

Command(k, q, c) == [kind |-> k, qty |-> q, cap |-> c]

AllCommands ==
  {Command("MAYDAY", 0, 0), Command("BUY", 2, 0), Command("BUY", 3, 2),
   Command("CLOSE_AND_BUY", 2, 0), Command("CLOSE_AND_BUY", 0, 0),
   Command("CLOSE_AND_SELL", 1, 0)}

OwnPositions == -2..2
OtherMonths == {o \in [long : 0..2, short : 0..1] : o.long + o.short < 3}
=============================================================================

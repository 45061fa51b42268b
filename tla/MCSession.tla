----------------------------- MODULE MCSession ------------------------------
(***************************************************************************)
(* Small instances of Session: two agents with an account each.            *)
(***************************************************************************)
EXTENDS Session

TwoAgents == {"day", "swing"}
TwoAccounts == {"a1", "a2"}
OneEach == [a \in TwoAgents |-> IF a = "day" THEN "a1" ELSE "a2"]
EveryLogin == {{"a1"}, {"a1", "a2"}}
FullLogin == {{"a1", "a2"}}
=============================================================================

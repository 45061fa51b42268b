--------------------------- MODULE MCFillFeedback ----------------------------
(***************************************************************************)
(* A small instance of FillFeedback: two agents, one session.              *)
(***************************************************************************)
EXTENDS FillFeedback

TwoAgents == {"day", "swing"}

Fill(m, s, f, a) == [market |-> m, stock |-> s, futures |-> f, account |-> a]

\* A futures fill with its account and one that does not name it, a stock fill
\* that shows next to nothing and one that names the stock account only.
FillKinds ==
  {Fill("futures", FALSE, TRUE, "ours"), Fill("futures", FALSE, FALSE, "none"),
   Fill("stock", FALSE, FALSE, "none"), Fill("stock", FALSE, FALSE, "other")}
=============================================================================

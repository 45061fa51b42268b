----------------------- MODULE ContractMonths_proofs -------------------------
(***************************************************************************)
(* Proofs about ContractMonths, for any commands, positions and limits.    *)
(***************************************************************************)
EXTENDS ContractMonths, TLAPS

-----------------------------------------------------------------------------
(* The inductive invariant: what the orders of the book lead to, at every  *)
(* step of a command.                                                      *)

\* Up to the closing orders nothing is working, and the snapshot is exact.
SnapshotIsExact ==
  pc = "close" =>
    /\ buying = 0 /\ selling = 0
    /\ seen.long = Longs /\ seen.short = Shorts

\* The closing orders lead to the lots held the right way, or to none.
ClosesLead ==
  /\ pc = "checkclose" => Outlook = IF cmd.kind = "MAYDAY" THEN 0 ELSE Way * Held
  /\ pc = "open" => cmd.kind # "MAYDAY" /\ Outlook = Way * Held

\* The opening orders lead to the target.
OpensLead == pc = "checkopen" => cmd.kind # "MAYDAY" /\ Outlook = Target

\* Unless other months are held, MAYDAY closes on one side.
MayDayOneSided ==
  (pc = "checkclose" /\ cmd.kind = "MAYDAY" /\ others.long = 0 /\ others.short = 0)
    => buying = 0 \/ selling = 0

\* A command has no result before it is done.
Running == pc # "done" => result = "none"

IInv ==
  TypeOK /\ SnapshotIsExact /\ ClosesLead /\ OpensLead /\ MayDayOneSided /\ Running

\* The lots of a product are a number of lots, and their difference is the net
\* position.
LEMMA RowsAreNet ==
  ASSUME TypeOK
  PROVE  /\ Longs \in Nat /\ Shorts \in Nat
         /\ Longs - Shorts = own + others.long - others.short
BY DEF TypeOK, Longs, Shorts, AtLeast0

\* The lots of a command are numbers of lots.
LEMMA LotsAreNumbers ==
  ASSUME TypeOK
  PROVE  /\ cmd \in CommandType /\ cmd.qty \in Int /\ cmd.cap \in Nat
         /\ cmd.kind \in {"MAYDAY", "BUY", "CLOSE_AND_BUY", "CLOSE_AND_SELL"}
         /\ Held \in Nat /\ Cover \in Nat /\ Dump \in Nat
         /\ OpenLots \in Nat /\ Way \in {-1, 1}
<1>1. cmd \in CommandType
  BY MonthConstants DEF TypeOK
<1>2. /\ cmd.qty \in Int /\ cmd.cap \in Nat
      /\ cmd.kind \in {"MAYDAY", "BUY", "CLOSE_AND_BUY", "CLOSE_AND_SELL"}
  BY <1>1 DEF CommandType
<1>3. Held \in Nat /\ Cover \in Nat /\ Dump \in Nat /\ Way \in {-1, 1}
  BY DEF TypeOK, Held, Cover, Dump, Way
<1>4. cmd.kind = "BUY" => cmd.qty > 0
  BY MonthConstants DEF TypeOK
<1>5. OpenLots \in Nat
  BY <1>2, <1>3, <1>4 DEF OpenLots, Lesser, AtLeast0
<1>. QED BY <1>1, <1>2, <1>3, <1>5

-----------------------------------------------------------------------------
(* Type correctness.                                                       *)

\* A command that starts over is within its number of retries.
LEMMA NeedRetryType ==
  ASSUME TypeOK, NeedRetry
  PROVE  /\ pc' \in {"snapshot", "done"}
         /\ retries' \in 0..(CloseOpenRetries + MayDayRetries + 1)
         /\ result' \in {"none", "ok", "fail"}
<1>1. cmd.kind \in {"MAYDAY", "BUY", "CLOSE_AND_BUY", "CLOSE_AND_SELL"}
  BY LotsAreNumbers
<1>. QED BY <1>1, MonthConstants DEF TypeOK, NeedRetry, Finish

LEMMA TypeStep == TypeOK /\ [Next]_vars => TypeOK'
<1>. SUFFICES ASSUME TypeOK, [Next]_vars PROVE TypeOK'
  OBVIOUS
<1>. USE DEF TypeOK
<1>r. Longs \in Nat /\ Shorts \in Nat
  BY RowsAreNet
<1>n. Held \in Nat /\ Cover \in Nat /\ Dump \in Nat /\ OpenLots \in Nat
  BY LotsAreNumbers
<1>1. CASE Begin
  BY <1>1, MonthConstants DEF Begin, book
<1>2. CASE ByHand
  BY <1>2, MonthConstants DEF ByHand
<1>3. CASE Snapshot
  BY <1>3, <1>r DEF Snapshot, Finish, Goto
<1>4. CASE PlaceCloses
  BY <1>4, <1>n DEF PlaceCloses, Finish, Goto
<1>5. CASE CheckClose
  BY <1>5, NeedRetryType DEF CheckClose, Finish, Goto, book
<1>6. CASE PlaceOpens
  BY <1>6, <1>n DEF PlaceOpens, Finish, Goto
<1>7. CASE CheckOpen
  BY <1>7, NeedRetryType DEF CheckOpen, Finish, book
<1>8. CASE PlaceRejected
  BY <1>8, <1>n DEF PlaceRejected, Finish
<1>9. CASE Fill
  BY <1>9 DEF Fill
<1>10. CASE UNCHANGED vars
  BY <1>10 DEF vars
<1>. QED BY <1>1, <1>2, <1>3, <1>4, <1>5, <1>6, <1>7, <1>8, <1>9, <1>10 DEF Next

\* Lots, orders and retries are what they should be, whatever the commands and
\* positions: order steps never count below zero or retry without end.
THEOREM TypeCorrect == Spec => []TypeOK
<1>1. Init => TypeOK
  BY MonthConstants DEF Init, TypeOK
<1>. QED BY <1>1, TypeStep, PTL DEF Spec

-----------------------------------------------------------------------------
(* The steps of a command.                                                 *)

\* What the closing orders add up to.
LEMMA ClosingLots ==
  ASSUME TypeOK
  PROVE  seen.long - seen.short + Cover - Dump
           = IF cmd.kind = "MAYDAY" THEN 0 ELSE Way * Held
<1>. USE DEF Cover, Dump, Held, Way
<1>1. seen.long \in Nat /\ seen.short \in Nat
  BY DEF TypeOK
<1>2. CASE cmd.kind = "MAYDAY"
  BY <1>1, <1>2
<1>3. CASE cmd.kind = "CLOSE_AND_SELL"
  BY <1>1, <1>3
<1>4. CASE cmd.kind \notin {"MAYDAY", "CLOSE_AND_SELL"}
  BY <1>1, <1>4
<1>. QED BY <1>2, <1>3, <1>4

\* What the opening orders lead to, when there are any.
LEMMA OpeningLots ==
  ASSUME TypeOK, cmd.kind # "MAYDAY", OpenLots # 0, pc' = "checkopen",
         UNCHANGED <<cmd, seen>>
  PROVE  Way * Held + Way * OpenLots = Target'
<1>1. /\ cmd.qty \in Int /\ cmd.cap \in Nat /\ Held \in Nat
      /\ cmd.kind \in {"BUY", "CLOSE_AND_BUY", "CLOSE_AND_SELL"}
  BY LotsAreNumbers
<1>2. Way' = Way /\ Held' = Held /\ cmd' = cmd
  BY DEF Way, Held
<1>3. CASE cmd.kind = "BUY"
  <2>1. Way = 1
    BY <1>3 DEF Way
  <2>2. CASE cmd.cap = 0
    BY <1>1, <1>2, <1>3, <2>1, <2>2 DEF OpenLots, Target
  <2>3. CASE cmd.cap > 0
    <3>1. OpenLots = Lesser(cmd.qty, AtLeast0(cmd.cap - Held))
      BY <1>1, <1>3, <2>3 DEF OpenLots
    <3>2. Target' = Lesser(Held + cmd.qty, cmd.cap)
      BY <1>1, <1>2, <1>3, <2>3 DEF Target
    <3>3. cmd.qty > 0
      BY <1>3, MonthConstants DEF TypeOK
    <3>. QED BY <1>1, <2>1, <3>1, <3>2, <3>3 DEF Lesser, AtLeast0
  <2>. QED BY <1>1, <2>2, <2>3
<1>4. CASE cmd.kind = "CLOSE_AND_BUY"
  BY <1>1, <1>2, <1>4 DEF OpenLots, Target, AtLeast0, Way
<1>5. CASE cmd.kind = "CLOSE_AND_SELL"
  BY <1>1, <1>2, <1>5 DEF OpenLots, Target, AtLeast0, Way
<1>. QED BY <1>1, <1>3, <1>4, <1>5

\* Snapshot, closing orders, opening orders and fills lead where the command
\* wants to go.
LEMMA LeadStep ==
  ASSUME IInv, [Next]_vars
  PROVE  (SnapshotIsExact /\ ClosesLead /\ OpensLead /\ MayDayOneSided)'
<1>. USE DEF IInv
<1>t. TypeOK /\ TypeOK'
  BY TypeStep
<1>n. /\ Held \in Nat /\ Cover \in Nat /\ Dump \in Nat /\ OpenLots \in Nat
      /\ Way \in {-1, 1}
  BY LotsAreNumbers
<1>b. /\ own \in Int /\ others.long \in Nat /\ others.short \in Nat
      /\ buying \in Nat /\ selling \in Nat
  BY DEF TypeOK
<1>1. CASE Begin \/ ByHand
  BY <1>1 DEF Begin, ByHand, SnapshotIsExact, ClosesLead, OpensLead, MayDayOneSided
<1>2. CASE Snapshot
  <2>1. pc' = "close" => /\ buying' = 0 /\ selling' = 0
                         /\ seen'.long = Longs' /\ seen'.short = Shorts'
    BY <1>2 DEF Snapshot, Finish, Longs, Shorts
  <2>2. pc' \in {"close", "done"}
    BY <1>2 DEF Snapshot, Finish, Goto
  <2>. QED BY <2>1, <2>2 DEF SnapshotIsExact, ClosesLead, OpensLead, MayDayOneSided
<1>3. CASE PlaceCloses
  <2>1. /\ pc = "close" /\ buying' = Cover /\ selling' = Dump
        /\ UNCHANGED <<own, others, cmd, seen>>
    BY <1>3 DEF PlaceCloses
  <2>2. /\ pc' \in {"checkclose", "open", "done"}
        /\ pc' = "open" => cmd.kind # "MAYDAY"
    BY <1>3 DEF PlaceCloses, Finish, Goto
  <2>3. own + others.long - others.short = seen.long - seen.short
    BY <2>1, RowsAreNet DEF SnapshotIsExact
  <2>4. Outlook' = IF cmd.kind = "MAYDAY" THEN 0 ELSE Way * Held
    <3>1. Outlook' = own + others.long - others.short + Cover - Dump
      BY <2>1 DEF Outlook
    <3>2. seen.long \in Nat /\ seen.short \in Nat
      BY DEF TypeOK
    <3>3. Outlook' = seen.long - seen.short + Cover - Dump
      BY <3>1, <3>2, <2>3, <1>n, <1>b
    <3>. QED BY <3>3, ClosingLots
  <2>5. Way' = Way /\ Held' = Held
    BY <2>1 DEF Way, Held
  <2>6. MayDayOneSided'
    <3>. SUFFICES ASSUME cmd.kind = "MAYDAY", others.long = 0, others.short = 0
                  PROVE  buying' = 0 \/ selling' = 0
      BY <2>1 DEF MayDayOneSided
    <3>1. Cover = 0 \/ Dump = 0
      BY <2>1, <1>b DEF SnapshotIsExact, Cover, Dump, Longs, Shorts, AtLeast0
    <3>. QED BY <3>1, <2>1
  <2>. QED BY <2>1, <2>2, <2>4, <2>5, <2>6
         DEF SnapshotIsExact, ClosesLead, OpensLead
<1>4. CASE CheckClose
  <2>1. /\ pc = "checkclose" /\ UNCHANGED <<book, cmd, seen>>
        /\ pc' \in {"open", "done", "snapshot"}
        /\ pc' = "open" => cmd.kind # "MAYDAY"
    BY <1>4 DEF CheckClose, Finish, Goto, NeedRetry
  <2>2. Way' = Way /\ Held' = Held /\ Outlook' = Outlook
    BY <2>1 DEF Way, Held, Outlook, book
  <2>. QED BY <2>1, <2>2 DEF SnapshotIsExact, ClosesLead, OpensLead, MayDayOneSided
<1>5. CASE PlaceOpens
  <2>1. /\ pc = "open" /\ UNCHANGED <<own, others, cmd, seen>>
        /\ pc' \in {"checkopen", "done"}
        /\ pc' = "checkopen" => OpenLots # 0
    BY <1>5 DEF PlaceOpens, Finish, Goto
  <2>2. cmd.kind # "MAYDAY" /\ Outlook = Way * Held
    BY <2>1 DEF ClosesLead
  <2>3. Outlook' = Way * Held + Way * OpenLots
    <3>1. CASE Way = 1
      <4>1. buying' = buying + OpenLots /\ selling' = selling
        BY <1>5, <3>1 DEF PlaceOpens
      <4>. QED BY <4>1, <2>1, <2>2, <3>1, <1>n, <1>b DEF Outlook
    <3>2. CASE Way = -1
      <4>1. selling' = selling + OpenLots /\ buying' = buying
        BY <1>5, <3>2 DEF PlaceOpens
      <4>. QED BY <4>1, <2>1, <2>2, <3>2, <1>n, <1>b DEF Outlook
    <3>. QED BY <3>1, <3>2, <1>n
  <2>4. OpensLead'
    BY <2>1, <2>2, <2>3, OpeningLots DEF OpensLead
  <2>. QED BY <2>1, <2>4 DEF SnapshotIsExact, ClosesLead, MayDayOneSided
<1>6. CASE CheckOpen
  BY <1>6 DEF CheckOpen, Finish, NeedRetry, SnapshotIsExact, ClosesLead,
              OpensLead, MayDayOneSided
<1>7. CASE PlaceRejected
  BY <1>7 DEF PlaceRejected, Finish, SnapshotIsExact, ClosesLead, OpensLead,
              MayDayOneSided
<1>8. CASE Fill
  <2>1. UNCHANGED <<others, pc, cmd, seen>>
    BY <1>8 DEF Fill
  <2>2. pc # "close"
    BY <1>8, <1>b DEF Fill, SnapshotIsExact
  <2>3. Outlook' = Outlook
    BY <1>8, <1>b DEF Fill, Outlook
  <2>4. Way' = Way /\ Held' = Held /\ Target' = Target
    BY <2>1 DEF Way, Held, Target
  <2>5. MayDayOneSided'
    BY <1>8, <1>b, <2>1 DEF Fill, MayDayOneSided
  <2>. QED BY <2>1, <2>2, <2>3, <2>4, <2>5 DEF SnapshotIsExact, ClosesLead, OpensLead
<1>9. CASE UNCHANGED vars
  BY <1>9 DEF vars, SnapshotIsExact, ClosesLead, OpensLead, MayDayOneSided,
              Longs, Shorts, Outlook, Way, Held, Target
<1>. QED BY <1>1, <1>2, <1>3, <1>4, <1>5, <1>6, <1>7, <1>8, <1>9 DEF Next

LEMMA RunningStep == TypeOK /\ Running /\ [Next]_vars => Running'
<1>. SUFFICES ASSUME TypeOK, Running, [Next]_vars PROVE Running'
  OBVIOUS
<1>. USE DEF Running
<1>1. CASE Begin \/ ByHand \/ Snapshot \/ Fill
  BY <1>1 DEF Begin, ByHand, Snapshot, Fill, Finish, Goto
<1>2. CASE PlaceCloses \/ PlaceOpens \/ PlaceRejected
  BY <1>2 DEF PlaceCloses, PlaceOpens, PlaceRejected, Finish, Goto
<1>3. CASE CheckClose \/ CheckOpen
  BY <1>3 DEF CheckClose, CheckOpen, NeedRetry, Finish, Goto
<1>4. CASE UNCHANGED vars
  BY <1>4 DEF vars
<1>. QED BY <1>1, <1>2, <1>3, <1>4 DEF Next

LEMMA Inductive == Spec => []IInv
<1>1. Init => IInv
  BY MonthConstants DEF Init, IInv, TypeOK, SnapshotIsExact, ClosesLead, OpensLead,
                        MayDayOneSided, Running
<1>2. IInv /\ [Next]_vars => IInv'
  BY TypeStep, LeadStep, RunningStep DEF IInv
<1>. QED BY <1>1, <1>2, PTL DEF Spec

\* Whatever months the lots are in, the orders of a command lead to the net
\* position it is meant to reach: for any quantities, caps, positions and
\* numbers of retries.
THEOREM OrdersLeadToTheTarget == Spec => []NetOnTarget
<1>1. IInv => NetOnTarget
  <2>. SUFFICES ASSUME IInv, pc = "checkclose" PROVE Outlook = Target
    BY DEF IInv, OpensLead, NetOnTarget
  <2>. QED BY DEF IInv, ClosesLead, Target
<1>. QED BY <1>1, Inductive, PTL

-----------------------------------------------------------------------------
(* The cap of Buy over all months.                                         *)

\* A Buy only buys, and it opens lots only once no month is short: the check
\* after its closing orders does not pass while another month is.
BuyIsOneSided ==
  cmd.kind = "BUY" =>
    /\ pc \in {"checkclose", "open", "checkopen"} => selling = 0
    /\ pc \in {"open", "checkopen"} => own >= 0 /\ others.short = 0

\* While the opening orders of a capped Buy are in the book, the long lots of
\* all months and the lots still to be bought are within the cap.
CapCountsEveryMonth ==
  (pc = "checkopen" /\ cmd.kind = "BUY" /\ cmd.cap > 0)
    => Shorts = 0 /\ Longs + buying <= cmd.cap

LEMMA BuyStep == IInv /\ BuyIsOneSided /\ [Next]_vars => BuyIsOneSided'
<1>. SUFFICES ASSUME IInv, BuyIsOneSided, [Next]_vars PROVE BuyIsOneSided'
  OBVIOUS
<1>. USE DEF IInv, BuyIsOneSided
<1>b. /\ own \in Int /\ others.long \in Nat /\ others.short \in Nat
      /\ buying \in Nat /\ selling \in Nat
      /\ seen.long \in Nat /\ seen.short \in Nat
  BY DEF TypeOK
<1>1. CASE Begin \/ ByHand \/ Snapshot \/ PlaceRejected
  BY <1>1 DEF Begin, ByHand, Snapshot, PlaceRejected, Finish, Goto
<1>2. CASE PlaceCloses
  <2>. SUFFICES ASSUME cmd.kind = "BUY"
                PROVE  selling' = 0 /\ (pc' = "open" => own' >= 0 /\ others'.short = 0)
    BY <1>2 DEF PlaceCloses, Finish, Goto
  <2>1. selling' = 0
    BY <1>2 DEF PlaceCloses, Dump
  <2>2. ASSUME pc' = "open" PROVE own >= 0 /\ others.short = 0
    <3>1. Cover + Dump = 0 /\ pc = "close"
      BY <1>2, <2>2 DEF PlaceCloses, Goto
    <3>2. seen.short = 0
      BY <3>1, <1>b DEF Cover, Dump
    <3>3. Shorts = 0
      BY <3>1, <3>2 DEF SnapshotIsExact
    <3>. QED BY <3>3, <1>b DEF Shorts, AtLeast0
  <2>. QED BY <1>2, <2>1, <2>2 DEF PlaceCloses
<1>3. CASE CheckClose
  <2>1. pc = "checkclose" /\ UNCHANGED <<own, others, buying, selling, cmd, seen>>
    BY <1>3 DEF CheckClose, book
  <2>2. pc' \in {"open", "done", "snapshot"} /\ (pc' = "open" => NoRows)
    BY <1>3 DEF CheckClose, NeedRetry, Finish, Goto
  <2>3. NoRows => own = 0 /\ others.short = 0
    BY <1>b DEF NoRows, Longs, Shorts, AtLeast0
  <2>. QED BY <2>1, <2>2, <2>3
<1>4. CASE PlaceOpens
  BY <1>4 DEF PlaceOpens, Finish, Goto, Way
<1>5. CASE CheckOpen
  BY <1>5 DEF CheckOpen, NeedRetry, Finish, book
<1>6. CASE Fill
  BY <1>6, <1>b DEF Fill, SnapshotIsExact
<1>7. CASE UNCHANGED vars
  BY <1>7 DEF vars
<1>. QED BY <1>1, <1>2, <1>3, <1>4, <1>5, <1>6, <1>7 DEF Next

\* With the orders a capped Buy opens, the lots of all months together stay
\* within the cap: it counts the long lots of every month and opens nothing
\* while any month is short.  Its closing orders are not covered: with lots
\* short in another month they are longs in this one (fubon_api.py:1443-1465).
THEOREM CapCoversAllMonths == Spec => []CapCountsEveryMonth
<1>1. Init => BuyIsOneSided
  BY DEF Init, BuyIsOneSided
<1>2. IInv /\ BuyIsOneSided => CapCountsEveryMonth
  <2>. SUFFICES ASSUME IInv, BuyIsOneSided, pc = "checkopen", cmd.kind = "BUY", cmd.cap > 0
                PROVE  Shorts = 0 /\ Longs + buying <= cmd.cap
    BY DEF CapCountsEveryMonth
  <2>1. /\ own \in Int /\ others.long \in Nat /\ others.short = 0
        /\ buying \in Nat /\ selling = 0 /\ own >= 0
    BY DEF IInv, TypeOK, BuyIsOneSided
  <2>2. Outlook = Lesser(Held + cmd.qty, cmd.cap)
    BY DEF IInv, OpensLead, Target
  <2>3. Outlook <= cmd.cap
    BY <2>2, LotsAreNumbers DEF IInv, Lesser
  <2>4. cmd.cap \in Nat
    BY LotsAreNumbers DEF IInv
  <2>. QED BY <2>1, <2>3, <2>4 DEF Outlook, Longs, Shorts, AtLeast0
<1>3. BuyIsOneSided /\ IInv /\ [Next]_vars => BuyIsOneSided'
  BY BuyStep
<1>. QED BY <1>1, <1>2, <1>3, Inductive, PTL DEF Spec

-----------------------------------------------------------------------------
(* Reports.                                                                *)

\* MAYDAY never reports success over a position, for any positions and limits.
THEOREM MayDayIsHonest == Spec => MayDaySuccessIsFlat
<1>1. IInv /\ [Next]_vars =>
        [(cmd.kind = "MAYDAY" /\ pc # "done" /\ result' = "ok")
           => own' = 0 /\ others'.long = 0 /\ others'.short = 0
              /\ buying' = 0 /\ selling' = 0]_vars
  <2>. SUFFICES ASSUME IInv, Next, cmd.kind = "MAYDAY", pc # "done", result' = "ok"
                PROVE  /\ own' = 0 /\ others'.long = 0 /\ others'.short = 0
                       /\ buying' = 0 /\ selling' = 0
    BY DEF vars
  <2>. USE DEF IInv
  <2>b. /\ own \in Int /\ others.long \in Nat /\ others.short \in Nat
        /\ buying \in Nat /\ selling \in Nat
    BY DEF TypeOK
  <2>n. Cover \in Nat /\ Dump \in Nat
    BY LotsAreNumbers
  <2>1. CASE Begin \/ ByHand \/ PlaceRejected
    BY <2>1 DEF Begin, ByHand, PlaceRejected, Finish
  <2>2. CASE Snapshot \/ Fill
    BY <2>2 DEF Snapshot, Fill, Finish, Goto, Running
  <2>3. CASE PlaceOpens \/ CheckOpen
    BY <2>3 DEF PlaceOpens, CheckOpen, ClosesLead, OpensLead, Finish, Goto,
                Running, NeedRetry, TypeOK
  <2>4. CASE PlaceCloses
    <3>1. Cover + Dump = 0 /\ pc = "close"
      BY <2>4 DEF PlaceCloses, Finish, Goto, Running
    <3>2. Cover = 0 /\ Dump = 0
      BY <3>1, <2>n
    <3>3. seen.long = 0 /\ seen.short = 0
      BY <3>2 DEF Cover, Dump
    <3>4. Longs = 0 /\ Shorts = 0
      BY <3>1, <3>3 DEF SnapshotIsExact
    <3>5. own = 0 /\ others.long = 0 /\ others.short = 0
      BY <3>4, <2>b DEF Longs, Shorts, AtLeast0
    <3>6. own' = own /\ others' = others /\ buying' = Cover /\ selling' = Dump
      BY <2>4 DEF PlaceCloses
    <3>. QED BY <3>2, <3>5, <3>6
  <2>5. CASE CheckClose
    <3>1. pc = "checkclose" /\ NoRows /\ UNCHANGED book
      BY <2>5 DEF CheckClose, NeedRetry, Finish, Goto, Running
    <3>2. own = 0 /\ others.long = 0 /\ others.short = 0
      BY <3>1, <2>b DEF NoRows, Longs, Shorts, AtLeast0
    <3>3. Outlook = 0 /\ (buying = 0 \/ selling = 0)
      BY <3>1, <3>2 DEF ClosesLead, MayDayOneSided
    <3>4. buying = 0 /\ selling = 0
      BY <3>2, <3>3, <2>b DEF Outlook
    <3>. QED BY <3>1, <3>2, <3>4 DEF book
  <2>. QED BY <2>1, <2>2, <2>3, <2>4, <2>5 DEF Next
<1>. QED BY <1>1, Inductive, PTL DEF Spec, MayDaySuccessIsFlat

-----------------------------------------------------------------------------
(* What a MAYDAY for the wrong month can do.                               *)

\* The attempts a MAYDAY has left whose orders are yet to be placed.
AttemptsLeft ==
  CASE pc \in {"snapshot", "close"} -> MayDayRetries + 2 - retries
    [] pc = "checkclose" -> MayDayRetries + 1 - retries
    [] OTHER -> 0

\* How far the position in the month of the command may come to be short and
\* long: what it is with its working orders filled, and for each attempt to
\* come the lots of the other months, closed in this one.
WorstShort == AtLeast0(selling - own) + others.long * AttemptsLeft
WorstLong == AtLeast0(own + buying) + others.short * AttemptsLeft

\* A MAYDAY is limited from the moment it starts.
MayDayStaysWithin ==
  [][(cmd.kind = "MAYDAY" /\ pc # "done")
       => WorstShort' <= WorstShort /\ WorstLong' <= WorstLong]_vars

\* The limits bound the position, orders included.
WithinTheWorst ==
  cmd.kind = "MAYDAY" => selling - own <= WorstShort /\ own + buying <= WorstLong

\* A MAYDAY does not run out of attempts before the last.
MayDayCounts ==
  cmd.kind = "MAYDAY" =>
    /\ pc \notin {"open", "checkopen"}
    /\ retries <= MayDayRetries + 1

LEMMA MayDayCountsStep == TypeOK /\ MayDayCounts /\ [Next]_vars => MayDayCounts'
<1>. SUFFICES ASSUME TypeOK, MayDayCounts, [Next]_vars PROVE MayDayCounts'
  OBVIOUS
<1>. USE DEF MayDayCounts
<1>0. retries \in Nat /\ MayDayRetries \in Nat
  BY MonthConstants DEF TypeOK
<1>1. CASE Begin \/ ByHand \/ Snapshot \/ Fill \/ PlaceRejected
  BY <1>0, <1>1 DEF Begin, ByHand, Snapshot, Fill, PlaceRejected, Finish, Goto
<1>2. CASE PlaceCloses \/ PlaceOpens
  BY <1>2 DEF PlaceCloses, PlaceOpens, Finish, Goto
<1>3. CASE CheckClose \/ CheckOpen
  BY <1>0, <1>3 DEF CheckClose, CheckOpen, NeedRetry, Finish, Goto
<1>4. CASE UNCHANGED vars
  BY <1>4 DEF vars
<1>. QED BY <1>1, <1>2, <1>3, <1>4 DEF Next

\* Attempts are a number, and lots times attempts are counted down by lots.
LEMMA LotsPerAttempt ==
  ASSUME NEW l \in Nat, NEW n \in Nat
  PROVE  l * n \in Nat /\ l * (n + 1) = l * n + l /\ l * 0 = 0
  OBVIOUS

LEMMA AttemptsAreNat ==
  ASSUME TypeOK, MayDayCounts, cmd.kind = "MAYDAY"
  PROVE  /\ AttemptsLeft \in Nat
         /\ retries \in 0..(MayDayRetries + 1) /\ MayDayRetries \in Nat
<1>1. retries \in 0..(MayDayRetries + 1) /\ MayDayRetries \in Nat
  BY MonthConstants DEF TypeOK, MayDayCounts
<1>. QED BY <1>1 DEF AttemptsLeft

\* Closing what is held and no more leaves only the lots of the other months.
LEMMA OvershootOfAClose ==
  ASSUME NEW o \in Int, NEW l \in Nat, NEW a \in Int, a <= l + AtLeast0(o)
  PROVE  /\ AtLeast0(a - o) \in Int /\ AtLeast0(0 - o) \in Int
         /\ AtLeast0(a - o) <= AtLeast0(0 - o) + l
<1>1. CASE o > 0
  <2>1. AtLeast0(o) = o /\ AtLeast0(0 - o) = 0
    BY <1>1 DEF AtLeast0
  <2>2. a - o <= l /\ a - o \in Int
    BY <2>1
  <2>3. AtLeast0(a - o) \in Int /\ AtLeast0(a - o) <= l
    BY <2>2 DEF AtLeast0
  <2>. QED BY <2>1, <2>3
<1>2. CASE o <= 0
  <2>1. AtLeast0(o) = 0 /\ AtLeast0(0 - o) = 0 - o
    BY <1>2 DEF AtLeast0
  <2>2. a - o <= l + (0 - o) /\ a - o \in Int
    BY <2>1
  <2>3. AtLeast0(a - o) \in Int /\ AtLeast0(a - o) <= l + (0 - o)
    BY <1>2, <2>2 DEF AtLeast0
  <2>. QED BY <2>1, <2>3
<1>. QED BY <1>1, <1>2

\* One attempt fewer to come, and the lots of the other months placed, or none.
LEMMA DamageStep ==
  ASSUME IInv, MayDayCounts, Next, cmd.kind = "MAYDAY", pc # "done"
  PROVE  WorstShort' <= WorstShort /\ WorstLong' <= WorstLong
<1>. DEFINE n == AttemptsLeft
            L == others.long
            S == others.short
<1>t. TypeOK
  BY DEF IInv
<1>0. /\ own \in Int /\ L \in Nat /\ S \in Nat /\ buying \in Nat /\ selling \in Nat
      /\ n \in Nat /\ retries \in 0..(MayDayRetries + 1) /\ MayDayRetries \in Nat
  BY <1>t, AttemptsAreNat DEF TypeOK
<1>p. pc \in {"snapshot", "close", "checkclose"}
  BY <1>t DEF TypeOK, MayDayCounts
<1>l. /\ L * n \in Nat /\ S * n \in Nat
      /\ L * 0 = 0 /\ S * 0 = 0
  BY <1>0, LotsPerAttempt
<1>w. ASSUME others' = others, UNCHANGED MayDayRetries
      PROVE  /\ WorstShort' = AtLeast0(selling' - own') + L * AttemptsLeft'
             /\ WorstLong' = AtLeast0(own' + buying') + S * AttemptsLeft'
  BY <1>w DEF WorstShort, WorstLong, AtLeast0
<1>v. /\ WorstShort = AtLeast0(selling - own) + L * n
      /\ WorstLong = AtLeast0(own + buying) + S * n
  BY DEF WorstShort, WorstLong
<1>c. ASSUME others' = others,
             AtLeast0(selling' - own') <= AtLeast0(selling - own),
             AtLeast0(own' + buying') <= AtLeast0(own + buying),
             selling' - own' \in Int, own' + buying' \in Int,
             AttemptsLeft' = n \/ AttemptsLeft' = 0
      PROVE  WorstShort' <= WorstShort /\ WorstLong' <= WorstLong
  <2>1. /\ AtLeast0(selling' - own') \in Int /\ AtLeast0(own' + buying') \in Int
        /\ AtLeast0(selling - own) \in Int /\ AtLeast0(own + buying) \in Int
    BY <1>0, <1>c DEF AtLeast0
  <2>2. CASE AttemptsLeft' = n
    <3>1. L * AttemptsLeft' = L * n /\ S * AttemptsLeft' = S * n
      BY <2>2
    <3>. HIDE DEF n, L, S
    <3>. QED BY <1>c, <1>w, <1>v, <1>l, <2>1, <3>1
  <2>3. CASE AttemptsLeft' = 0
    <3>1. L * AttemptsLeft' = 0 /\ S * AttemptsLeft' = 0
      BY <1>l, <2>3
    <3>. HIDE DEF n, L, S
    <3>. QED BY <1>c, <1>w, <1>v, <1>l, <2>1, <3>1
  <2>. QED BY <1>c, <2>2, <2>3
<1>1. CASE Begin \/ ByHand \/ PlaceOpens \/ CheckOpen
  BY <1>1, <1>p DEF Begin, ByHand, PlaceOpens, CheckOpen
<1>2. CASE Snapshot
  <2>1. /\ pc = "snapshot" /\ pc' = "close" /\ retries' = retries
        /\ buying' = 0 /\ selling' = 0 /\ own' = own /\ others' = others
    BY <1>2 DEF Snapshot, Goto
  <2>2. AttemptsLeft' = n
    BY <2>1 DEF AttemptsLeft
  <2>3. /\ AtLeast0(selling' - own') <= AtLeast0(selling - own)
        /\ AtLeast0(own' + buying') <= AtLeast0(own + buying)
        /\ selling' - own' \in Int /\ own' + buying' \in Int
    BY <1>0, <2>1 DEF AtLeast0
  <2>. QED BY <1>c, <2>1, <2>2, <2>3
<1>3. CASE PlaceCloses \/ (PlaceRejected /\ pc = "close")
  <2>1. /\ pc = "close" /\ own' = own /\ others' = others /\ retries' = retries
        /\ pc' \in {"checkclose", "done"}
        /\ buying' \in 0..Cover /\ selling' \in 0..Dump
        /\ Cover \in Nat /\ Dump \in Nat
    BY <1>3, <1>t, LotsAreNumbers DEF PlaceCloses, PlaceRejected, Finish, Goto
  <2>2. Cover = S + AtLeast0(0 - own) /\ Dump = L + AtLeast0(own)
    BY <2>1 DEF IInv, SnapshotIsExact, Cover, Dump, Longs, Shorts
  <2>3. n = MayDayRetries + 2 - retries
    BY <2>1 DEF AttemptsLeft
  <2>4. n - 1 \in Nat /\ AttemptsLeft' \in {0, n - 1}
    BY <1>0, <2>1, <2>3 DEF AttemptsLeft
  <2>5. /\ L * (n - 1) \in Nat /\ L * n = L * (n - 1) + L
        /\ S * (n - 1) \in Nat /\ S * n = S * (n - 1) + S
    <3>1. n - 1 + 1 = n
      BY <1>0
    <3>. HIDE DEF n, L, S
    <3>. QED BY <1>0, <2>4, <3>1, LotsPerAttempt
  <2>6. /\ L * AttemptsLeft' \in Int /\ L * AttemptsLeft' <= L * n - L
        /\ S * AttemptsLeft' \in Int /\ S * AttemptsLeft' <= S * n - S
    <3>. HIDE DEF n, L, S
    <3>1. CASE AttemptsLeft' = 0
      BY <1>0, <1>l, <2>5, <3>1
    <3>2. CASE AttemptsLeft' = n - 1
      BY <1>0, <2>5, <3>2
    <3>. QED BY <2>4, <3>1, <3>2
  <2>7. selling = 0 /\ buying = 0
    BY <2>1 DEF IInv, SnapshotIsExact
  <2>8. /\ AtLeast0(selling' - own') <= AtLeast0(selling - own) + L
        /\ AtLeast0(own' + buying') <= AtLeast0(own + buying) + S
        /\ AtLeast0(selling' - own') \in Int /\ AtLeast0(own' + buying') \in Int
        /\ AtLeast0(selling - own) \in Int /\ AtLeast0(own + buying) \in Int
    <3>. HIDE DEF n, L, S
    <3>1. /\ selling' \in Int /\ selling' <= L + AtLeast0(own)
          /\ buying' \in Int /\ buying' <= S + AtLeast0(0 - own)
          /\ own \in Int /\ L \in Nat /\ S \in Nat
      BY <1>0, <2>1, <2>2
    <3>2. /\ AtLeast0(selling' - own) \in Int /\ AtLeast0(0 - own) \in Int
          /\ AtLeast0(selling' - own) <= AtLeast0(0 - own) + L
      BY <3>1, OvershootOfAClose
    <3>3. 0 - own \in Int /\ 0 - (0 - own) = own + 0 /\ buying' - (0 - own) = own + buying'
      BY <3>1
    <3>4. /\ AtLeast0(buying' - (0 - own)) \in Int /\ AtLeast0(0 - (0 - own)) \in Int
          /\ AtLeast0(buying' - (0 - own)) <= AtLeast0(0 - (0 - own)) + S
      BY <3>1, <3>3, OvershootOfAClose
    <3>. QED BY <2>1, <2>7, <3>2, <3>3, <3>4
  <2>. HIDE DEF n, L, S
  <2>. QED BY <1>0, <1>l, <1>w, <1>v, <2>1, <2>6, <2>8
<1>4. CASE CheckClose
  <2>1. /\ pc = "checkclose" /\ UNCHANGED book
        /\ \/ pc' = "done"
           \/ pc' = "snapshot" /\ retries' = retries + 1
    BY <1>4 DEF CheckClose, NeedRetry, Finish
  <2>2. AttemptsLeft' = n \/ AttemptsLeft' = 0
    BY <1>0, <2>1 DEF AttemptsLeft
  <2>3. UNCHANGED <<own, others, buying, selling>>
    BY <2>1 DEF book
  <2>4. /\ AtLeast0(selling' - own') <= AtLeast0(selling - own)
        /\ AtLeast0(own' + buying') <= AtLeast0(own + buying)
        /\ selling' - own' \in Int /\ own' + buying' \in Int
    BY <1>0, <2>3 DEF AtLeast0
  <2>. QED BY <1>c, <2>2, <2>3, <2>4
<1>5. CASE Fill
  <2>1. /\ others' = others /\ pc' = pc /\ retries' = retries
        /\ \/ buying' = buying - 1 /\ own' = own + 1 /\ selling' = selling
           \/ selling' = selling - 1 /\ own' = own - 1 /\ buying' = buying
    BY <1>5 DEF Fill
  <2>2. AttemptsLeft' = n
    BY <2>1 DEF AttemptsLeft
  <2>3. /\ AtLeast0(selling' - own') <= AtLeast0(selling - own)
        /\ AtLeast0(own' + buying') <= AtLeast0(own + buying)
        /\ selling' - own' \in Int /\ own' + buying' \in Int
    BY <1>0, <2>1 DEF AtLeast0
  <2>. QED BY <1>c, <2>1, <2>2, <2>3
<1>. QED BY <1>1, <1>2, <1>3, <1>4, <1>5, <1>p DEF Next, PlaceRejected

\* A MAYDAY for a month that is not the one held opens, in the month it names,
\* no more than the lots of the other months once per attempt, and there are
\* MayDayRetries + 2 attempts: a bound the code reaches.
THEOREM MayDayDamageIsBounded == Spec => MayDayStaysWithin /\ []WithinTheWorst
<1>1. Init => MayDayCounts
  BY MonthConstants DEF Init, MayDayCounts
<1>2. IInv /\ MayDayCounts /\ [Next]_vars => MayDayCounts'
  BY MayDayCountsStep DEF IInv
<1>3. IInv /\ MayDayCounts /\ [Next]_vars =>
        [(cmd.kind = "MAYDAY" /\ pc # "done")
           => WorstShort' <= WorstShort /\ WorstLong' <= WorstLong]_vars
  BY DamageStep
<1>4. IInv /\ MayDayCounts => WithinTheWorst
  <2>. SUFFICES ASSUME IInv, MayDayCounts, cmd.kind = "MAYDAY"
                PROVE  selling - own <= WorstShort /\ own + buying <= WorstLong
    BY DEF WithinTheWorst
  <2>1. /\ own \in Int /\ others.long \in Nat /\ others.short \in Nat
        /\ buying \in Nat /\ selling \in Nat /\ AttemptsLeft \in Nat
    BY AttemptsAreNat DEF IInv, TypeOK
  <2>2. others.long * AttemptsLeft \in Nat /\ others.short * AttemptsLeft \in Nat
    BY <2>1, LotsPerAttempt
  <2>. QED BY <2>1, <2>2 DEF WorstShort, WorstLong, AtLeast0
<1>. QED BY <1>1, <1>2, <1>3, <1>4, Inductive, PTL DEF Spec, MayDayStaysWithin
=============================================================================

---------------------------- MODULE FillFeedback -----------------------------
(***************************************************************************)
(* What becomes of a fill: the callbacks of fubon_api.py (_on_filled and   *)
(* its filter, _on_event) beside the order thread that changes the command *)
(* the agent stands for.                                                   *)
(*                                                                         *)
(* Every session that was logged in calls back into the one agent, the     *)
(* ones a failed logout left behind included, each from a thread of its    *)
(* SDK, one event after the other.  A callback takes no lock: it reads the *)
(* names the order thread writes (agent_id, then trace_id) and POSTs,      *)
(* with retries, before it turns to the next event of its session.         *)
(*                                                                         *)
(* Commands are numbered in the order run() takes them; 0 is none of them. *)
(* Session has what the order thread does with a disconnect.               *)
(***************************************************************************)
EXTENDS Naturals, Sequences

CONSTANTS
  Agents,          \* agent ids of agent_account_mapping
  None,            \* self.agent_id before the first command
  Sessions,        \* identities of broker sessions, reused once forgotten
  Fills,           \* the kinds of fills the person's accounts may see
  Disconnect,      \* an event 300, 301, 302 or 304
  FeedbackRetries, \* the 3 of "if retry > 3" in _send_agent_feedback
  MaxCommands,     \* bound on the number of commands of a behaviour
  MaxFills         \* bound on the number of fills of a behaviour

\* What a fill is (its market) and what its payload shows of it: signs of the
\* stock market, signs of futures, and one of our accounts, another, or none.
FillType ==
  [market : {"futures", "stock"}, stock : BOOLEAN, futures : BOOLEAN,
   account : {"ours", "other", "none"}]

\* The person's stock account is none of ours, and its fills carry no futures
\* symbol; everything else may be missing from a payload.
ASSUME FillConstants ==
  /\ Fills \subseteq FillType /\ Disconnect \notin Fills
  /\ \A f \in Fills : f.market = "stock" => ~f.futures /\ f.account # "ours"
  /\ None \notin Agents
  /\ FeedbackRetries \in Nat /\ MaxCommands \in Nat /\ MaxFills \in Nat

VARIABLES
  pc,        \* the order thread: "idle", "naming" or "run"
  whose,     \* the agents of the commands so far
  trace,     \* self.trace_id, as the number of the command
  agent,     \* self.agent_id, or None
  placed,    \* the commands that have placed orders
  open,      \* the sessions that call back
  queue,     \* per session, the events its SDK has not delivered yet
  cb,        \* per session, the callback in progress
  fills      \* fills so far

orders == <<pc, whose, trace, agent, placed>>
vars == <<pc, whose, trace, agent, placed, open, queue, cb, fills>>

Event == [kind : Fills \union {Disconnect}, owner : Nat, id : Nat]

\* No callback is in progress.
Waiting ==
  [step |-> "wait", event |-> [kind |-> Disconnect, owner |-> 0, id |-> 0],
   agent |-> None, trace |-> 0, tries |-> 0]

Init ==
  /\ pc = "idle" /\ whose = <<>> /\ trace = 0 /\ agent = None /\ placed = {}
  /\ open \in SUBSET Sessions
  /\ queue = [s \in Sessions |-> <<>>] /\ cb = [s \in Sessions |-> Waiting]
  /\ fills = 0

-----------------------------------------------------------------------------
(* The order thread.                                                       *)

\* Mutant of NamesCommand: run() sets the agent first.
NamesAgent(a) == agent' = a /\ UNCHANGED trace

\* The first line of run().
NamesCommand(a) == trace' = Len(whose) + 1 /\ UNCHANGED agent

RunStarts(a) ==
  /\ pc = "idle" /\ Len(whose) < MaxCommands
  /\ whose' = Append(whose, a) /\ NamesCommand(a)
  /\ pc' = "naming"
  /\ UNCHANGED <<placed, open, queue, cb, fills>>

\* The second: now both names are those of the command.
RunNamed ==
  /\ pc = "naming"
  /\ trace' = Len(whose) /\ agent' = whose[Len(whose)]
  /\ pc' = "run"
  /\ UNCHANGED <<whose, placed, open, queue, cb, fills>>

PlaceOrder ==
  /\ pc = "run"
  /\ placed' = placed \union {Len(whose)}
  /\ UNCHANGED <<pc, whose, trace, agent, open, queue, cb, fills>>

\* run() returns and leaves the names as they are.
RunReturns ==
  /\ pc = "run" /\ pc' = "idle"
  /\ UNCHANGED <<whose, trace, agent, placed, open, queue, cb, fills>>

\* A login registers the callbacks of its session.
Login ==
  /\ \E s \in Sessions \ open :
       /\ queue[s] = <<>> /\ cb[s] = Waiting
       /\ open' = open \union {s}
  /\ UNCHANGED <<orders, queue, cb, fills>>

-----------------------------------------------------------------------------
(* The broker.                                                             *)

\* A fill goes to every session of the person.
Filled(f, n) ==
  /\ fills < MaxFills /\ fills' = fills + 1
  /\ queue' = [s \in Sessions |->
                 IF s \in open
                 THEN Append(queue[s], [kind |-> f, owner |-> n, id |-> fills'])
                 ELSE queue[s]]
  /\ UNCHANGED <<orders, open, cb>>

\* An order of a command trades, whenever the market likes.
OrderFills ==
  \E n \in placed, f \in Fills :
    f.market = "futures" /\ f.account # "other" /\ Filled(f, n)

\* Somebody trades by hand, or in another account of the person.
OtherFills == \E f \in Fills : Filled(f, 0)

\* A session is logged out or lost.
SessionEnds ==
  /\ \E s \in open :
       /\ open' = open \ {s}
       /\ queue' = [queue EXCEPT ![s] =
                      Append(@, [kind |-> Disconnect, owner |-> 0, id |-> 0])]
  /\ UNCHANGED <<orders, cb, fills>>

-----------------------------------------------------------------------------
(* The callback thread of session s.                                       *)

\* Mutant of Handled: what does not name its account is taken for ours.
HandledUnnamed(f) == ~(f.stock /\ ~f.futures) /\ f.account # "other"

\* _should_handle_trade_callback
Handled(f) ==
  /\ ~(f.stock /\ ~f.futures)
  /\ f.account # "other"
  /\ f.account = "none" => f.futures

\* The next event of the session.  A disconnect is only noted.  A fill that
\* passes the filter is to be reported under the agent_id of this moment ...
TakeEvent(s) ==
  /\ cb[s].step = "wait" /\ queue[s] # <<>>
  /\ LET e == Head(queue[s]) IN
       IF e.kind # Disconnect /\ Handled(e.kind)
       THEN cb' = [cb EXCEPT ![s] = [step |-> "read", event |-> e,
                                     agent |-> agent, trace |-> 0, tries |-> 0]]
       ELSE UNCHANGED cb
  /\ queue' = [queue EXCEPT ![s] = Tail(@)]
  /\ UNCHANGED <<orders, open, fills>>

\* ... and the trace_id of a later one.
ReadTrace(s) ==
  /\ cb[s].step = "read"
  /\ cb' = [cb EXCEPT ![s].step = "post", ![s].trace = trace]
  /\ UNCHANGED <<orders, open, queue, fills>>

\* A POST is answered with 204 or 4xx.
PostEnds(s) ==
  /\ cb[s].step = "post"
  /\ cb' = [cb EXCEPT ![s] = Waiting]
  /\ UNCHANGED <<orders, open, queue, fills>>

\* Mutant of AfterFailure: the retries start over instead of running out.
PostForever(c) ==
  [c EXCEPT !.tries = IF @ > FeedbackRetries THEN 0 ELSE @ + 1]

\* Mutant of AfterFailure: the limit is dropped.
PostUncounted(c) == [c EXCEPT !.tries = @ + 1]

\* A POST fails or times out: the next one, or none.
AfterFailure(c) ==
  IF c.tries > FeedbackRetries THEN Waiting ELSE [c EXCEPT !.tries = @ + 1]

PostFails(s) ==
  /\ cb[s].step = "post"
  /\ cb' = [cb EXCEPT ![s] = AfterFailure(@)]
  /\ UNCHANGED <<orders, open, queue, fills>>

Callback(s) == TakeEvent(s) \/ ReadTrace(s) \/ PostEnds(s) \/ PostFails(s)

Next ==
  \/ \E a \in Agents : RunStarts(a)
  \/ RunNamed
  \/ PlaceOrder
  \/ RunReturns
  \/ Login
  \/ OrderFills
  \/ OtherFills
  \/ SessionEnds
  \/ \E s \in Sessions : Callback(s)

Spec == Init /\ [][Next]_vars

\* The SDK's threads go on; neither commands nor fills have to come.
FairSpec == Spec /\ \A s \in Sessions : WF_vars(Callback(s))

-----------------------------------------------------------------------------
(* Properties.                                                             *)

TypeOK ==
  /\ pc \in {"idle", "naming", "run"}
  /\ whose \in Seq(Agents) /\ trace \in Nat /\ agent \in Agents \union {None}
  /\ placed \in SUBSET Nat /\ open \in SUBSET Sessions
  /\ queue \in [Sessions -> Seq(Event)]
  /\ cb \in [Sessions -> [step : {"wait", "read", "post"}, event : Event,
                          agent : Agents \union {None}, trace : Nat,
                          tries : 0..(FeedbackRetries + 1)]]
  /\ fills \in Nat

AgentOf(n) == IF n = 0 THEN None ELSE whose[n]

\* A report may name a later command than the one whose order was filled, and
\* the agent of one command with the id of the next, since _on_filled reads
\* both without a lock.  It never names an earlier command, and never an agent
\* before its time: a fill reported under its own command is reported under
\* the agent of that command.
NamesBelongTogether ==
  \A s \in Sessions : cb[s].step = "post" =>
    \E n \in cb[s].event.owner..cb[s].trace : cb[s].agent = AgentOf(n)

\* "stock account events ... must not trigger DEAL_CALLBACK feedback",
\* whatever is missing from their payload.
StockStaysOut ==
  \A s \in Sessions : cb[s].step = "post" =>
    /\ cb[s].event.kind # Disconnect
    /\ cb[s].event.kind.market = "futures"

\* A futures fill that names one of our accounts.
Ours(f) == f # Disconnect /\ f.market = "futures" /\ f.futures /\ f.account = "ours"

\* Such a fill, once an SDK has it, is reported from its session, also when
\* the endpoint fails for good and every report before it runs its retries out.
FillsAreReported ==
  \A s \in Sessions, i \in 1..MaxFills :
    (\E k \in DOMAIN queue[s] : queue[s][k].id = i /\ Ours(queue[s][k].kind))
      ~> (cb[s].step = "post" /\ cb[s].event.id = i)

\* A disconnect waits behind the reports of the fills before it, but not for
\* ever: the fairness Session assumes of OnEvent.
DisconnectGetsThrough ==
  \A s \in Sessions :
    (\E k \in DOMAIN queue[s] : queue[s][k].kind = Disconnect)
      ~> (\A k \in DOMAIN queue[s] : queue[s][k].kind # Disconnect)
=============================================================================

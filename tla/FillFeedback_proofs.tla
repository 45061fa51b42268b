------------------------ MODULE FillFeedback_proofs -------------------------
(***************************************************************************)
(* Proofs about FillFeedback, for any number of agents, sessions, commands *)
(* and fills.                                                              *)
(***************************************************************************)
EXTENDS FillFeedback, Integers, TLAPS

USE FillConstants DEF FillType

(* What the order thread has written: the command id is that of the last   *)
(* command, the agent that of the last or, between the two lines of run(), *)
(* of the one before.                                                      *)
Names ==
  /\ trace = Len(whose)
  /\ pc # "naming" => agent = AgentOf(trace)
  /\ pc = "naming" => trace > 0 /\ agent = AgentOf(trace - 1)

\* A command whose order may fill has left its names behind.
Named(n) == n \in 0..trace /\ (pc = "naming" => n < trace)

OwnersNamed ==
  /\ \A n \in placed : Named(n)
  /\ \A s \in Sessions : \A k \in DOMAIN queue[s] : Named(queue[s][k].owner)
  /\ \A s \in Sessions : Named(cb[s].event.owner)

\* What a callback has read so far fits together.
ReadsFit ==
  \A s \in Sessions :
    /\ cb[s].step = "read" =>
         \E n \in cb[s].event.owner..trace : cb[s].agent = AgentOf(n)
    /\ cb[s].step = "post" => cb[s].trace <= trace

OnlyHandled ==
  \A s \in Sessions : cb[s].step # "wait" =>
    cb[s].event.kind # Disconnect /\ Handled(cb[s].event.kind)

IInv ==
  /\ TypeOK
  /\ Names
  /\ OwnersNamed
  /\ ReadsFit
  /\ OnlyHandled
  /\ NamesBelongTogether

-----------------------------------------------------------------------------
\* The agents of earlier commands stay what they are when one is added.
LEMMA AgentsStay ==
  ASSUME NEW w \in Seq(Agents), NEW a \in Agents, NEW n \in 1..Len(w)
  PROVE  Append(w, a)[n] = w[n]
  OBVIOUS

\* The agent of a command served so far is an agent.
LEMMA AgentTyped ==
  ASSUME TypeOK, NEW n \in 0..Len(whose)
  PROVE  AgentOf(n) \in Agents \union {None}
  BY DEF TypeOK, AgentOf

\* What is taken from a queue was in it, and so is what remains.
LEMMA TailMembers ==
  ASSUME NEW S, NEW q \in Seq(S), q # <<>>
  PROVE  /\ Head(q) = q[1] /\ 1 \in DOMAIN q
         /\ \A k \in DOMAIN Tail(q) : k + 1 \in DOMAIN q /\ Tail(q)[k] = q[k + 1]
         /\ Tail(q) \in Seq(S)
  OBVIOUS

\* What is added to a queue is its last element, the rest stays.
LEMMA AppendMembers ==
  ASSUME NEW S, NEW q \in Seq(S), NEW e \in S
  PROVE  /\ Append(q, e) \in Seq(S)
         /\ \A k \in DOMAIN Append(q, e) :
              \/ k \in DOMAIN q /\ Append(q, e)[k] = q[k]
              \/ Append(q, e)[k] = e
  OBVIOUS

-----------------------------------------------------------------------------
LEMMA InitInvariant == Init => IInv
  BY DEF Init, IInv, TypeOK, Names, OwnersNamed, Named, ReadsFit, OnlyHandled,
         NamesBelongTogether, Waiting, Event, AgentOf

\* The names of commands before the last do not depend on it.
LEMMA RunStartsKeeps ==
  ASSUME IInv, NEW a \in Agents, RunStarts(a)
  PROVE  IInv'
<1> USE DEF IInv
<1>1. TypeOK'
  BY DEF TypeOK, RunStarts, NamesCommand
<1>2. /\ whose' = Append(whose, a) /\ trace' = trace + 1 /\ agent' = agent
      /\ trace' = Len(whose') /\ trace = Len(whose) /\ trace \in Nat
      /\ pc = "idle" /\ pc' = "naming"
  BY DEF RunStarts, NamesCommand, Names, TypeOK
<1>3. \A n \in 0..trace : AgentOf(n)' = AgentOf(n)
  BY <1>2, AgentsStay DEF AgentOf, TypeOK
<1>4. Names'
  BY <1>2, <1>3 DEF Names
<1>5. \A n : Named(n) => Named(n)'
  BY <1>2 DEF Named
<1>6. OwnersNamed'
  BY <1>5 DEF OwnersNamed, RunStarts
<1>7. ReadsFit'
  <2> SUFFICES ASSUME NEW s \in Sessions
               PROVE  /\ cb[s].step = "read" =>
                           \E n \in cb[s].event.owner..trace' :
                             cb[s].agent = AgentOf(n)'
                      /\ cb[s].step = "post" => cb[s].trace <= trace'
    BY DEF ReadsFit, RunStarts
  <2>1. cb[s].event.owner \in Nat /\ cb[s].trace \in Nat
    BY DEF TypeOK, Event
  <2>2. CASE cb[s].step = "read"
    <3>1. PICK n \in cb[s].event.owner..trace : cb[s].agent = AgentOf(n)
      BY <2>2 DEF ReadsFit
    <3>2. n \in cb[s].event.owner..trace' /\ AgentOf(n)' = AgentOf(n)
      BY <2>1, <3>1, <1>2, <1>3
    <3> QED BY <2>2, <3>1, <3>2
  <2>3. CASE cb[s].step = "post"
    BY <2>1, <2>3, <1>2 DEF ReadsFit
  <2>4. CASE cb[s].step \notin {"read", "post"}
    BY <2>4
  <2> QED BY <2>2, <2>3, <2>4
<1>8. OnlyHandled'
  BY DEF OnlyHandled, RunStarts
<1>9. NamesBelongTogether'
  <2> SUFFICES ASSUME NEW s \in Sessions, cb[s].step = "post"
               PROVE  \E n \in cb[s].event.owner..cb[s].trace :
                        cb[s].agent = AgentOf(n)'
    BY DEF NamesBelongTogether, RunStarts
  <2>1. PICK n \in cb[s].event.owner..cb[s].trace : cb[s].agent = AgentOf(n)
    BY DEF NamesBelongTogether
  <2>2. n \in 0..trace
    BY <1>2, <2>1 DEF ReadsFit, TypeOK, Event
  <2> QED BY <1>3, <2>1, <2>2
<1> QED BY <1>1, <1>4, <1>6, <1>7, <1>8, <1>9

LEMMA RunNamedKeeps ==
  ASSUME IInv, RunNamed
  PROVE  IInv'
<1> USE DEF IInv
<1>1. /\ whose' = whose /\ trace = Len(whose) /\ trace' = trace /\ trace > 0
      /\ agent' = whose[trace] /\ pc = "naming" /\ pc' = "run"
  BY DEF RunNamed, Names
<1>2. \A n : AgentOf(n)' = AgentOf(n) /\ (Named(n) => Named(n)')
  BY <1>1 DEF AgentOf, Named
<1>3. TypeOK'
  BY <1>1 DEF TypeOK, RunNamed
<1>4. Names'
  BY <1>1 DEF Names, AgentOf
<1>5. OwnersNamed'
  BY <1>2 DEF OwnersNamed, RunNamed
<1>6. ReadsFit' /\ NamesBelongTogether'
  BY <1>1, <1>2 DEF ReadsFit, NamesBelongTogether, RunNamed
<1>7. OnlyHandled'
  BY DEF OnlyHandled, RunNamed
<1> QED BY <1>3, <1>4, <1>5, <1>6, <1>7

\* Steps that leave the names, the callbacks and the queues alone.
LEMMA QuietKeeps ==
  ASSUME IInv, PlaceOrder \/ RunReturns \/ Login
  PROVE  IInv'
<1> USE DEF IInv
<1>1. /\ UNCHANGED <<whose, trace, agent, queue, cb, fills>>
      /\ (pc' = pc \/ (pc = "run" /\ pc' = "idle"))
  BY DEF PlaceOrder, RunReturns, Login, orders
<1>2. \A n : AgentOf(n)' = AgentOf(n) /\ (Named(n) => Named(n)')
  BY <1>1 DEF AgentOf, Named
<1>3. TypeOK'
  <2>1. placed' \in SUBSET Nat /\ open' \in SUBSET Sessions
    <3>0. Len(whose) \in Nat
      BY DEF Names, TypeOK
    <3>1. CASE PlaceOrder
      BY <3>0, <3>1 DEF PlaceOrder, TypeOK
    <3>2. CASE RunReturns
      BY <3>2 DEF RunReturns, TypeOK
    <3>3. CASE Login
      BY <3>3 DEF Login, orders, TypeOK
    <3> QED BY <3>1, <3>2, <3>3
  <2>2. pc' \in {"idle", "naming", "run"}
    BY <1>1 DEF TypeOK
  <2> QED BY <1>1, <2>1, <2>2 DEF TypeOK
<1>4. Names'
  BY <1>1, <1>2 DEF Names
<1>5. \A n \in placed' : Named(n)'
  <2>1. CASE PlaceOrder
    <3>1. Named(Len(whose))
      BY <2>1 DEF PlaceOrder, Named, Names, TypeOK
    <3> QED BY <2>1, <3>1, <1>2 DEF PlaceOrder, OwnersNamed
  <2>2. CASE ~PlaceOrder
    BY <2>2, <1>2 DEF OwnersNamed, RunReturns, Login, orders
  <2> QED BY <2>1, <2>2
<1>6. OwnersNamed'
  BY <1>1, <1>2, <1>5 DEF OwnersNamed
<1>7. ReadsFit' /\ NamesBelongTogether' /\ OnlyHandled'
  BY <1>1, <1>2 DEF ReadsFit, NamesBelongTogether, OnlyHandled
<1> QED BY <1>3, <1>4, <1>6, <1>7

-----------------------------------------------------------------------------
\* The broker adds events of commands whose names are written.
LEMMA DeliveryKeeps ==
  ASSUME IInv, UNCHANGED <<pc, whose, trace, agent, placed, cb>>,
         fills' \in Nat, open' \in SUBSET Sessions,
         queue' \in [Sessions -> Seq(Event)],
         \A s \in Sessions : \A k \in DOMAIN queue'[s] :
           \/ k \in DOMAIN queue[s] /\ queue'[s][k] = queue[s][k]
           \/ Named(queue'[s][k].owner)
  PROVE  IInv'
<1> USE DEF IInv
<1>1. \A n : AgentOf(n)' = AgentOf(n) /\ Named(n)' = Named(n)
  BY DEF AgentOf, Named
<1>2. TypeOK'
  BY DEF TypeOK
<1>3. OwnersNamed'
  BY <1>1 DEF OwnersNamed
<1>4. Names' /\ ReadsFit' /\ NamesBelongTogether' /\ OnlyHandled'
  BY <1>1 DEF Names, ReadsFit, NamesBelongTogether, OnlyHandled
<1> QED BY <1>2, <1>3, <1>4

LEMMA FilledKeeps ==
  ASSUME IInv, NEW f \in Fills, NEW n, Named(n), Filled(f, n)
  PROVE  IInv'
<1> USE DEF IInv
<1> DEFINE e == [kind |-> f, owner |-> n, id |-> fills']
<1>1. fills' \in Nat /\ n \in Nat
  BY DEF Filled, TypeOK, Named
<1>2. e \in Event
  BY <1>1 DEF Event
<1>3. /\ queue' = [s \in Sessions |->
                    IF s \in open THEN Append(queue[s], e) ELSE queue[s]]
      /\ UNCHANGED <<pc, whose, trace, agent, placed, open, cb>>
  BY DEF Filled, orders
<1>4. ASSUME NEW s \in Sessions
      PROVE  /\ queue'[s] \in Seq(Event)
             /\ \A k \in DOMAIN queue'[s] :
                  \/ k \in DOMAIN queue[s] /\ queue'[s][k] = queue[s][k]
                  \/ queue'[s][k] = e
  <2> HIDE DEF e
  <2>1. queue[s] \in Seq(Event)
    BY DEF TypeOK
  <2>2. CASE s \in open
    <3>1. queue'[s] = Append(queue[s], e)
      BY <1>3, <2>2
    <3> QED BY <1>2, <2>1, <3>1, AppendMembers
  <2>3. CASE s \notin open
    BY <1>3, <2>1, <2>3
  <2> QED BY <2>2, <2>3
<1>5. queue' \in [Sessions -> Seq(Event)]
  <2>1. queue' = [s \in Sessions |-> queue'[s]]
    BY <1>3
  <2> QED BY <1>4, <2>1
<1>6. open' \in SUBSET Sessions
  BY <1>3 DEF TypeOK
<1> QED BY <1>1, <1>3, <1>4, <1>5, <1>6, DeliveryKeeps

LEMMA BrokerKeeps ==
  ASSUME IInv, OrderFills \/ OtherFills \/ SessionEnds
  PROVE  IInv'
<1> USE DEF IInv
<1>1. CASE OrderFills
  BY <1>1, FilledKeeps DEF OrderFills, OwnersNamed
<1>2. CASE OtherFills
  <2>1. Named(0)
    BY DEF Named, Names, TypeOK
  <2> QED BY <1>2, <2>1, FilledKeeps DEF OtherFills
<1>3. CASE SessionEnds
  <2> DEFINE e == [kind |-> Disconnect, owner |-> 0, id |-> 0]
  <2>1. PICK t \in open :
          /\ open' = open \ {t}
          /\ queue' = [queue EXCEPT ![t] = Append(@, e)]
    BY <1>3 DEF SessionEnds
  <2>2. e \in Event /\ Named(e.owner)
    BY DEF Event, Named, Names, TypeOK
  <2>3. t \in Sessions /\ queue[t] \in Seq(Event)
    BY DEF TypeOK
  <2> HIDE DEF e
  <2>4. /\ Append(queue[t], e) \in Seq(Event)
        /\ \A k \in DOMAIN Append(queue[t], e) :
             \/ k \in DOMAIN queue[t] /\ Append(queue[t], e)[k] = queue[t][k]
             \/ Append(queue[t], e)[k] = e
    BY <2>2, <2>3, AppendMembers
  <2>5. queue' \in [Sessions -> Seq(Event)]
    BY <2>1, <2>3, <2>4 DEF TypeOK
  <2>6. \A s \in Sessions : \A k \in DOMAIN queue'[s] :
          \/ k \in DOMAIN queue[s] /\ queue'[s][k] = queue[s][k]
          \/ Named(queue'[s][k].owner)
    BY <2>1, <2>2, <2>3, <2>4 DEF TypeOK
  <2>7. /\ UNCHANGED <<pc, whose, trace, agent, placed, cb>>
        /\ fills' \in Nat /\ open' \in SUBSET Sessions
    BY <1>3, <2>1 DEF SessionEnds, orders, TypeOK
  <2> QED BY <2>5, <2>6, <2>7, DeliveryKeeps
<1> QED BY <1>1, <1>2, <1>3

-----------------------------------------------------------------------------
\* The callback of one session changes nothing but its own record and queue.
LEMMA CallbackKeeps ==
  ASSUME IInv, NEW s \in Sessions, Callback(s)
  PROVE  IInv'
<1> USE DEF IInv
<1>1. UNCHANGED <<pc, whose, trace, agent, placed, open, fills>>
  BY DEF Callback, TakeEvent, ReadTrace, PostEnds, PostFails, orders
<1>2. \A n : AgentOf(n)' = AgentOf(n) /\ Named(n)' = Named(n)
  BY <1>1 DEF AgentOf, Named
<1>3. Names'
  BY <1>1, <1>2 DEF Names
<1>4. queue[s] \in Seq(Event) /\ cb[s].event \in Event
  BY DEF TypeOK
<1>5. CASE TakeEvent(s)
  <2> DEFINE e == Head(queue[s])
             c == [step |-> "read", event |-> e, agent |-> agent,
                   trace |-> 0, tries |-> 0]
  <2>1. /\ e = queue[s][1] /\ 1 \in DOMAIN queue[s] /\ e \in Event
        /\ Tail(queue[s]) \in Seq(Event)
        /\ \A k \in DOMAIN Tail(queue[s]) :
             k + 1 \in DOMAIN queue[s] /\ Tail(queue[s])[k] = queue[s][k + 1]
    BY <1>4, <1>5, TailMembers DEF TakeEvent
  <2>2. Named(e.owner)
    BY <2>1 DEF OwnersNamed
  <2>3. queue' = [queue EXCEPT ![s] = Tail(queue[s])]
    BY <1>5 DEF TakeEvent
  <2>4. queue' \in [Sessions -> Seq(Event)]
    BY <2>1, <2>3 DEF TypeOK
  <2>5. \A t \in Sessions : \A k \in DOMAIN queue'[t] : Named(queue'[t][k].owner)
    BY <2>1, <2>3 DEF OwnersNamed, TypeOK
  <2>6. CASE UNCHANGED cb
    <3>1. TypeOK'
      BY <1>1, <2>4, <2>6 DEF TypeOK
    <3>2. OwnersNamed'
      BY <1>1, <1>2, <2>5, <2>6 DEF OwnersNamed
    <3>3. ReadsFit' /\ OnlyHandled' /\ NamesBelongTogether'
      BY <1>1, <1>2, <2>6 DEF ReadsFit, OnlyHandled, NamesBelongTogether
    <3> QED BY <1>3, <3>1, <3>2, <3>3
  <2>7. CASE /\ e.kind # Disconnect /\ Handled(e.kind)
             /\ cb' = [cb EXCEPT ![s] = c]
    <3> HIDE DEF e
    <3>1. /\ c.step = "read" /\ c.event = e /\ c.agent = agent
          /\ \A t \in Sessions : cb'[t] = IF t = s THEN c ELSE cb[t]
      BY <2>7 DEF TypeOK
    <3>2. cb' \in [Sessions -> [step : {"wait", "read", "post"}, event : Event,
                               agent : Agents \union {None}, trace : Nat,
                               tries : 0..(FeedbackRetries + 1)]]
      BY <2>1, <2>7 DEF TypeOK
    <3>3. TypeOK'
      BY <1>1, <2>4, <3>2 DEF TypeOK
    <3>4. OwnersNamed'
      BY <1>1, <1>2, <2>2, <2>5, <3>1 DEF OwnersNamed
    <3>5. \E n \in e.owner..trace : agent = AgentOf(n)
      <4>1. trace \in Nat /\ e.owner \in 0..trace
        BY <2>2 DEF Named, TypeOK
      <4>2. CASE pc = "naming"
        <5>1. trace - 1 \in e.owner..trace
          BY <2>2, <4>1, <4>2 DEF Named
        <5> QED BY <4>2, <5>1 DEF Names
      <4>3. CASE pc # "naming"
        <5>1. trace \in e.owner..trace
          BY <4>1
        <5> QED BY <4>3, <5>1 DEF Names
      <4> QED BY <4>2, <4>3
    <3>6. ReadsFit'
      BY <1>1, <1>2, <3>1, <3>5 DEF ReadsFit
    <3>8. NamesBelongTogether'
      BY <1>2, <3>1 DEF NamesBelongTogether
    <3>7. OnlyHandled'
      BY <2>7, <3>1 DEF OnlyHandled
    <3> QED BY <1>3, <3>3, <3>4, <3>6, <3>7, <3>8
  <2> QED BY <1>5, <2>6, <2>7 DEF TakeEvent
<1>6. CASE ReadTrace(s)
  <2>1. /\ cb[s].step = "read" /\ queue' = queue
        /\ cb' = [cb EXCEPT ![s].step = "post", ![s].trace = trace]
    BY <1>6 DEF ReadTrace
  <2>2. TypeOK'
    BY <1>1, <2>1 DEF TypeOK
  <2>3. /\ cb'[s].step = "post" /\ cb'[s].trace = trace
        /\ cb'[s].event = cb[s].event /\ cb'[s].agent = cb[s].agent
        /\ \A t \in Sessions \ {s} : cb'[t] = cb[t]
    BY <2>1 DEF TypeOK
  <2>4. OwnersNamed'
    BY <1>1, <1>2, <2>1, <2>3 DEF OwnersNamed
  <2>5. ReadsFit'
    <3>1. trace <= trace
      BY DEF TypeOK
    <3> QED BY <1>1, <1>2, <2>3, <3>1 DEF ReadsFit
  <2>6. NamesBelongTogether'
    <3> SUFFICES ASSUME NEW t \in Sessions, cb'[t].step = "post"
                 PROVE  \E n \in cb'[t].event.owner..cb'[t].trace : cb'[t].agent = AgentOf(n)
      BY <1>2 DEF NamesBelongTogether
    <3>1. CASE t = s
      <4>1. \E n \in cb[s].event.owner..trace : cb[s].agent = AgentOf(n)
        BY <2>1 DEF ReadsFit
      <4> QED BY <2>3, <3>1, <4>1
    <3>2. CASE t # s
      <4>1. cb'[t] = cb[t]
        BY <2>3, <3>2
      <4> QED BY <4>1 DEF NamesBelongTogether
    <3> QED BY <3>1, <3>2
  <2>7. OnlyHandled'
    BY <2>1, <2>3 DEF OnlyHandled
  <2> QED BY <1>3, <2>2, <2>4, <2>5, <2>6, <2>7
<1>7. CASE PostEnds(s) \/ PostFails(s)
  <2>1. /\ cb[s].step = "post" /\ queue' = queue
        /\ \/ cb' = [cb EXCEPT ![s] = Waiting]
           \/ cb[s].tries <= FeedbackRetries /\ cb' = [cb EXCEPT ![s].tries = @ + 1]
    BY <1>7 DEF PostEnds, PostFails, AfterFailure, TypeOK
  <2>2. TypeOK'
    <3>1. Waiting \in [step : {"wait", "read", "post"}, event : Event,
                      agent : Agents \union {None}, trace : Nat,
                      tries : 0..(FeedbackRetries + 1)]
      BY DEF Waiting, Event
    <3>2. cb[s].tries \in 0..(FeedbackRetries + 1)
      BY DEF TypeOK
    <3>3. cb[s].tries <= FeedbackRetries
            => cb[s].tries + 1 \in 0..(FeedbackRetries + 1)
      BY <3>2
    <3>4. cb' \in [Sessions -> [step : {"wait", "read", "post"}, event : Event,
                               agent : Agents \union {None}, trace : Nat,
                               tries : 0..(FeedbackRetries + 1)]]
      <4>1. CASE cb' = [cb EXCEPT ![s] = Waiting]
        <5> HIDE DEF Waiting
        <5> QED BY <3>1, <4>1 DEF TypeOK
      <4>2. CASE /\ cb[s].tries <= FeedbackRetries
                 /\ cb' = [cb EXCEPT ![s].tries = @ + 1]
        <5> DEFINE n == cb[s].tries + 1
        <5>1. n \in 0..(FeedbackRetries + 1)
          BY <3>3, <4>2
        <5>2. cb' = [cb EXCEPT ![s].tries = n]
          BY <4>2
        <5> HIDE DEF n
        <5> QED BY <5>1, <5>2 DEF TypeOK
      <4> QED BY <2>1, <4>1, <4>2
    <3> QED BY <1>1, <2>1, <3>4 DEF TypeOK
  <2>3. /\ \/ cb'[s].step = "wait" /\ cb'[s].event.owner = 0
           \/ /\ cb'[s].step = cb[s].step /\ cb'[s].trace = cb[s].trace
              /\ cb'[s].event = cb[s].event /\ cb'[s].agent = cb[s].agent
        /\ \A t \in Sessions \ {s} : cb'[t] = cb[t]
    BY <2>1 DEF TypeOK, Waiting
  <2>4. Named(0)
    BY DEF Named, Names, TypeOK
  <2>5. OwnersNamed'
    BY <1>1, <1>2, <2>1, <2>3, <2>4 DEF OwnersNamed
  <2>6. ReadsFit'
    BY <1>1, <1>2, <2>3 DEF ReadsFit
  <2>7. NamesBelongTogether'
    BY <1>1, <1>2, <2>3 DEF NamesBelongTogether
  <2>8. OnlyHandled'
    BY <2>3 DEF OnlyHandled
  <2> QED BY <1>3, <2>2, <2>5, <2>6, <2>7, <2>8
<1> QED BY <1>5, <1>6, <1>7 DEF Callback

LEMMA StepInvariant ==
  ASSUME IInv, [Next]_vars
  PROVE  IInv'
<1>1. CASE \E a \in Agents : RunStarts(a)
  BY <1>1, RunStartsKeeps
<1>2. CASE RunNamed
  BY <1>2, RunNamedKeeps
<1>3. CASE PlaceOrder \/ RunReturns \/ Login
  BY <1>3, QuietKeeps
<1>4. CASE OrderFills \/ OtherFills \/ SessionEnds
  BY <1>4, BrokerKeeps
<1>5. CASE \E s \in Sessions : Callback(s)
  BY <1>5, CallbackKeeps
<1>6. CASE UNCHANGED vars
  BY <1>6 DEF vars, IInv, TypeOK, Names, OwnersNamed, Named, ReadsFit,
              OnlyHandled, NamesBelongTogether, AgentOf
<1> QED BY <1>1, <1>2, <1>3, <1>4, <1>5, <1>6 DEF Next

LEMMA Invariance == Spec => []IInv
<1>1. Init => IInv
  BY InitInvariant
<1>2. IInv /\ [Next]_vars => IInv'
  BY StepInvariant
<1> QED BY <1>1, <1>2, PTL DEF Spec

-----------------------------------------------------------------------------
\* Types, and the retries of a report within their limit: at most
\* FeedbackRetries + 2 POSTs hold up the events behind it.
THEOREM TypeCorrect == Spec => []TypeOK
<1>1. IInv => TypeOK
  BY DEF IInv
<1> QED BY <1>1, Invariance, PTL

\* _on_filled reads agent_id before trace_id and run() writes them in the
\* other order: no report carries an agent before its time, and a fill
\* reported under its own command is reported under that command's agent.
THEOREM ReportsNameRightly == Spec => []NamesBelongTogether
<1>1. IInv => NamesBelongTogether
  BY DEF IInv
<1> QED BY <1>1, Invariance, PTL

\* The filter keeps fills of the stock account out of the feedback, however
\* little their payload shows.
THEOREM StockIsKeptOut == Spec => []StockStaysOut
<1>1. ASSUME IInv PROVE StockStaysOut
  <2> SUFFICES ASSUME NEW s \in Sessions, cb[s].step = "post"
               PROVE  /\ cb[s].event.kind # Disconnect
                      /\ cb[s].event.kind.market = "futures"
    BY DEF StockStaysOut
  <2>1. cb[s].event.kind # Disconnect /\ Handled(cb[s].event.kind)
    BY <1>1 DEF IInv, OnlyHandled
  <2>2. cb[s].event.kind \in Fills
    BY <1>1, <2>1 DEF IInv, TypeOK, Event
  <2> QED BY <2>1, <2>2 DEF Handled
<1> QED BY <1>1, Invariance, PTL

-----------------------------------------------------------------------------
(* Every event has its turn.                                               *)

\* The steps a report in progress takes at most.
Reporting(c) ==
  CASE c.step = "wait" -> 0
    [] c.step = "read" -> FeedbackRetries + 3
    [] c.step = "post" -> FeedbackRetries + 2 - c.tries

\* The steps of the callback thread, at most, until event k of its queue has
\* been dealt with.
Wait(s, k) == (FeedbackRetries + 4) * k + Reporting(cb[s])

\* A step of the thread goes on with a report, one of our fills being
\* posted after it was read, or takes the first event, one of our fills to be
\* reported; the others move up.  Either takes something off every wait.
ThreadServes(s, k) ==
  \/ /\ queue' = queue /\ Wait(s, k)' < Wait(s, k)
     /\ cb[s].step = "read" => cb'[s].step = "post" /\ cb'[s].event = cb[s].event
  \/ /\ queue'[s] = Tail(queue[s])
     /\ Wait(s, k - 1)' < Wait(s, k)
     /\ Ours(Head(queue[s]).kind)
          => cb'[s].step = "read" /\ cb'[s].event = Head(queue[s])

\* Whatever else happens leaves the event in its place and the wait as it is.
KeepsItsPlace(s, k) ==
  /\ k \in DOMAIN queue'[s] /\ queue'[s][k] = queue[s][k]
  /\ Wait(s, k)' = Wait(s, k) /\ cb'[s] = cb[s]

EventsHaveTheirTurn ==
  [][\A s \in Sessions : \A k \in DOMAIN queue[s] :
       IF Callback(s) THEN ThreadServes(s, k) ELSE KeepsItsPlace(s, k)]_vars

\* A wait is a number of steps.
LEMMA WaitIsNat ==
  ASSUME TypeOK, NEW s \in Sessions, NEW k \in Nat
  PROVE  /\ Wait(s, k) \in Nat /\ Reporting(cb[s]) \in 0..(FeedbackRetries + 3)
         /\ (FeedbackRetries + 4) * k \in Nat
<1>1. /\ cb[s].step \in {"wait", "read", "post"}
      /\ cb[s].tries \in 0..(FeedbackRetries + 1)
  BY DEF TypeOK
<1>2. Reporting(cb[s]) \in 0..(FeedbackRetries + 3)
  BY <1>1 DEF Reporting
<1>3. (FeedbackRetries + 4) * k \in Nat
  OBVIOUS
<1> HIDE DEF Reporting
<1> QED BY <1>2, <1>3 DEF Wait

\* One of our fills passes the filter.
LEMMA OursAreHandled == ASSUME NEW f, Ours(f) PROVE Handled(f)
  BY DEF Ours, Handled

\* The thread of the session.
LEMMA CallbackServes ==
  ASSUME TypeOK, NEW s \in Sessions, Callback(s), NEW k \in DOMAIN queue[s]
  PROVE  ThreadServes(s, k)
<1>0. /\ queue[s] \in Seq(Event) /\ k \in Nat /\ k > 0
      /\ cb[s].step \in {"wait", "read", "post"}
      /\ cb[s].tries \in 0..(FeedbackRetries + 1)
      /\ queue \in [Sessions -> Seq(Event)] /\ s \in DOMAIN cb
  BY DEF TypeOK
<1>1. Reporting(cb[s]) \in Int /\ (FeedbackRetries + 4) * k \in Int
  BY <1>0, WaitIsNat
<1>2. CASE TakeEvent(s)
  <2>1. /\ cb[s].step = "wait" /\ queue'[s] = Tail(queue[s])
        /\ \/ UNCHANGED cb /\ ~(Head(queue[s]).kind # Disconnect /\ Handled(Head(queue[s]).kind))
           \/ cb'[s] = [step |-> "read", event |-> Head(queue[s]), agent |-> agent,
                        trace |-> 0, tries |-> 0]
    BY <1>0, <1>2 DEF TakeEvent
  <2>2. Reporting(cb[s]) = 0 /\ Reporting(cb'[s]) \in {0, FeedbackRetries + 3}
    BY <2>1 DEF Reporting
  <2>3. (FeedbackRetries + 4) * (k - 1) = (FeedbackRetries + 4) * k - (FeedbackRetries + 4)
    BY <1>0
  <2>4. Wait(s, k - 1)' = (FeedbackRetries + 4) * (k - 1) + Reporting(cb'[s])
    BY DEF Wait, Reporting
  <2>5. Wait(s, k) = (FeedbackRetries + 4) * k + Reporting(cb[s])
    BY DEF Wait
  <2>6. Wait(s, k - 1)' < Wait(s, k)
    <3> HIDE DEF Reporting
    <3> QED BY <1>1, <2>2, <2>3, <2>4, <2>5
  <2>7. Ours(Head(queue[s]).kind) => cb'[s].step = "read" /\ cb'[s].event = Head(queue[s])
    BY <2>1, OursAreHandled DEF Ours
  <2> QED BY <2>1, <2>6, <2>7 DEF ThreadServes
<1>3. CASE ReadTrace(s) \/ PostEnds(s) \/ PostFails(s)
  <2>1. queue' = queue
    BY <1>3 DEF ReadTrace, PostEnds, PostFails
  <2>2. \/ /\ cb[s].step = "read" /\ cb'[s].step = "post"
           /\ cb'[s].tries = cb[s].tries /\ cb'[s].event = cb[s].event
        \/ /\ cb[s].step = "post"
           /\ \/ cb'[s].step = "wait"
              \/ /\ cb'[s].step = "post" /\ cb'[s].tries = cb[s].tries + 1
                 /\ cb[s].tries <= FeedbackRetries
    BY <1>0, <1>3 DEF ReadTrace, PostEnds, PostFails, AfterFailure, Waiting, TypeOK
  <2>3. Reporting(cb'[s]) \in Int /\ Reporting(cb'[s]) < Reporting(cb[s])
    <3>1. FeedbackRetries \in Nat
      OBVIOUS
    <3>2. CASE cb[s].step = "read" /\ cb'[s].step = "post" /\ cb'[s].tries = cb[s].tries
      <4>1. /\ Reporting(cb[s]) = FeedbackRetries + 3
            /\ Reporting(cb'[s]) = FeedbackRetries + 2 - cb[s].tries
        BY <3>2 DEF Reporting
      <4> QED BY <1>0, <3>1, <4>1
    <3>3. CASE cb[s].step = "post" /\ cb'[s].step = "wait"
      <4>1. /\ Reporting(cb[s]) = FeedbackRetries + 2 - cb[s].tries
            /\ Reporting(cb'[s]) = 0
        BY <3>3 DEF Reporting
      <4> QED BY <1>0, <3>1, <4>1
    <3>4. CASE /\ cb[s].step = "post" /\ cb'[s].step = "post"
               /\ cb'[s].tries = cb[s].tries + 1
      <4>1. /\ Reporting(cb[s]) = FeedbackRetries + 2 - cb[s].tries
            /\ Reporting(cb'[s]) = FeedbackRetries + 2 - (cb[s].tries + 1)
        BY <3>4 DEF Reporting
      <4> QED BY <1>0, <3>1, <4>1
    <3> QED BY <2>2, <3>2, <3>3, <3>4
  <2>4. Wait(s, k)' = (FeedbackRetries + 4) * k + Reporting(cb'[s])
    BY DEF Wait, Reporting
  <2>5. Wait(s, k) = (FeedbackRetries + 4) * k + Reporting(cb[s])
    BY DEF Wait
  <2>6. Wait(s, k)' < Wait(s, k)
    <3> HIDE DEF Reporting
    <3> QED BY <1>1, <2>3, <2>4, <2>5
  <2>7. cb[s].step = "read" => cb'[s].step = "post" /\ cb'[s].event = cb[s].event
    BY <2>2
  <2> QED BY <2>1, <2>6, <2>7 DEF ThreadServes
<1> QED BY <1>2, <1>3 DEF Callback

\* Everybody else.
LEMMA OthersKeepPlaces ==
  ASSUME TypeOK, [Next]_vars, NEW s \in Sessions, ~Callback(s), NEW k \in DOMAIN queue[s]
  PROVE  KeepsItsPlace(s, k)
<1>0. queue \in [Sessions -> Seq(Event)] /\ queue[s] \in Seq(Event)
  BY DEF TypeOK
<1>1. \/ queue'[s] = queue[s]
      \/ \E e : queue'[s] = Append(queue[s], e)
  <2>1. CASE OrderFills \/ OtherFills
    BY <1>0, <2>1 DEF OrderFills, OtherFills, Filled
  <2>2. CASE SessionEnds
    BY <1>0, <2>2 DEF SessionEnds
  <2>3. ASSUME NEW t \in Sessions, Callback(t) PROVE queue'[s] = queue[s]
    BY <1>0, <2>3 DEF Callback, TakeEvent, ReadTrace, PostEnds, PostFails
  <2>4. CASE (\E a \in Agents : RunStarts(a)) \/ RunNamed \/ PlaceOrder \/ RunReturns \/ Login
             \/ UNCHANGED vars
    BY <2>4 DEF RunStarts, RunNamed, PlaceOrder, RunReturns, Login, vars
  <2> QED BY <2>1, <2>2, <2>3, <2>4 DEF Next
<1>2. cb'[s] = cb[s]
  <2>1. ASSUME NEW t \in Sessions, Callback(t) PROVE cb'[s] = cb[s]
    BY <2>1 DEF Callback, TakeEvent, ReadTrace, PostEnds, PostFails, TypeOK
  <2>2. CASE UNCHANGED cb
    BY <2>2
  <2> QED BY <2>1, <2>2 DEF Next, RunStarts, RunNamed, PlaceOrder, RunReturns, Login,
             OrderFills, OtherFills, Filled, SessionEnds, vars
<1>3. k \in DOMAIN queue'[s] /\ queue'[s][k] = queue[s][k]
  BY <1>0, <1>1
<1>4. Wait(s, k)' = Wait(s, k)
  BY <1>2 DEF Wait, Reporting
<1> QED BY <1>2, <1>3, <1>4 DEF KeepsItsPlace

\* The events of a session are dealt with in order, each after a bounded
\* number of steps of its callback thread, however reports fail, and one of
\* our fills never without a report: with the fairness of that thread, what
\* FillsAreReported and DisconnectGetsThrough claim (_on_filled, _on_event).
THEOREM EventsAreServed ==
  Spec => /\ EventsHaveTheirTurn
          /\ [](\A s \in Sessions : \A k \in DOMAIN queue[s] : Wait(s, k) \in Nat)
<1> DEFINE P == \A s \in Sessions : \A k \in DOMAIN queue[s] :
                  IF Callback(s) THEN ThreadServes(s, k) ELSE KeepsItsPlace(s, k)
<1>1. TypeOK /\ [Next]_vars => [P]_vars
  BY CallbackServes, OthersKeepPlaces
<1>2. TypeOK => \A s \in Sessions : \A k \in DOMAIN queue[s] : Wait(s, k) \in Nat
  <2> SUFFICES ASSUME TypeOK, NEW s \in Sessions, NEW k \in DOMAIN queue[s]
               PROVE  Wait(s, k) \in Nat
    OBVIOUS
  <2>1. k \in Nat
    BY DEF TypeOK
  <2> QED BY <2>1, WaitIsNat
<1> QED BY <1>1, <1>2, TypeCorrect, PTL DEF Spec, EventsHaveTheirTurn
=============================================================================

------------------------- MODULE RateLimiter_proofs -------------------------
(***************************************************************************)
(* The rate limit, for every number of calls, period and length of run.    *)
(***************************************************************************)
EXTENDS RateLimiter, FiniteSets, FiniteSetTheorems, TLAPS

\* Stamps are in order, and what left the deque left the window.
StampsInOrder ==
  /\ \A i, j \in 1..Len(granted) : i < j => granted[i] < granted[j]
  /\ \A i \in 1..Len(granted) : granted[i] <= now
  /\ \A i \in 1..Len(granted) : i < head => now - granted[i] > Period

\* What a call knows when it sleeps and when it is stamped.
HolderKnows ==
  /\ lock = "asleep" => /\ Len(granted) + 1 - head = MaxCalls
                        /\ wake = granted[head] + Period
  /\ lock = "append" =>
       /\ granted # <<>> => now > granted[Len(granted)]
       /\ \/ Len(granted) + 1 - head < MaxCalls
          \/ /\ Len(granted) + 1 - head = MaxCalls
             /\ now >= granted[head] + Period
  /\ lock = "asleep" => now > granted[Len(granted)]

IInv ==
  /\ TypeOK
  /\ StampsInOrder
  /\ HolderKnows
  /\ RateHolds

\* What the invariant says, in the form the provers use it.
LEMMA Facts ==
  ASSUME IInv
  PROVE  /\ now \in Nat /\ wake \in Nat
         /\ Len(granted) \in Nat /\ head \in 1..(Len(granted) + 1)
         /\ \A i \in 1..Len(granted) : granted[i] \in Nat
         /\ granted \in Seq(Nat)
         /\ granted # <<>> <=> Len(granted) > 0
         /\ MaxCalls \in Nat /\ MaxCalls > 0 /\ Period \in Nat
  BY LimiterConstants DEF IInv, TypeOK

\* A call that enters finds at most max_calls stamps in the window.
LEMMA EnterIInv == IInv /\ Enter => IInv'
<1> SUFFICES ASSUME IInv, Enter PROVE IInv'
  OBVIOUS
<1>0. /\ now \in Nat /\ wake \in Nat
      /\ Len(granted) \in Nat /\ head \in 1..(Len(granted) + 1)
      /\ \A i \in 1..Len(granted) : granted[i] \in Nat
      /\ granted \in Seq(Nat)
      /\ granted # <<>> <=> Len(granted) > 0
      /\ MaxCalls \in Nat /\ MaxCalls > 0 /\ Period \in Nat
  BY Facts
<1>1. PICK h \in head..(Len(granted) + 1) :
        /\ Popped(h) /\ head' = h
        /\ IF Full(h)
           THEN lock' = "asleep" /\ wake' = granted[Blocking(h)] + Period
           ELSE lock' = "append" /\ wake' = wake
  BY DEF Enter
<1>2. UNCHANGED <<now, granted>> /\ (granted # <<>> => now > granted[Len(granted)])
  BY DEF Enter
<1>3. Len(granted) + 1 - h <= MaxCalls
  <2>1. CASE Len(granted) + 1 - head <= MaxCalls
    BY <1>0, <2>1
  <2>2. CASE Len(granted) + 1 - head = MaxCalls + 1
    <3>1. head \in 1..Len(granted) /\ head + MaxCalls = Len(granted)
      BY <1>0, <2>2
    <3>2. granted[Len(granted)] - granted[head] >= Period
      BY <3>1 DEF IInv, RateHolds
    <3>3. Expired(head)
      BY <1>0, <1>2, <3>1, <3>2 DEF Expired
    <3>4. h # head
      BY <1>1, <3>1, <3>3 DEF Popped
    <3> QED BY <1>0, <2>2, <3>4
  <2> QED BY <1>0, <2>1, <2>2 DEF IInv, TypeOK
<1>4. h \in 1..(Len(granted) + 1)
  BY <1>0
<1>5. StampsInOrder'
  <2>1. \A i \in 1..Len(granted) : i < h => now - granted[i] > Period
    BY <1>0, <1>1 DEF Popped, Expired, IInv, StampsInOrder
  <2> QED BY <1>1, <1>2, <2>1 DEF IInv, StampsInOrder
<1>6. CASE Full(h)
  <2>1. Len(granted) + 1 - h = MaxCalls /\ h \in 1..Len(granted)
    BY <1>0, <1>3, <1>4, <1>6 DEF Full
  <2>2. wake' = granted[h] + Period /\ wake' \in Nat /\ lock' = "asleep"
    BY <1>0, <1>1, <1>6, <2>1 DEF Blocking
  <2> QED BY <1>0, <1>1, <1>2, <1>5, <2>1, <2>2
          DEF IInv, TypeOK, HolderKnows, RateHolds
<1>7. CASE ~Full(h)
  <2>1. Len(granted) + 1 - h < MaxCalls
    BY <1>0, <1>7 DEF Full
  <2> QED BY <1>0, <1>1, <1>2, <1>4, <1>5, <1>7, <2>1
          DEF IInv, TypeOK, HolderKnows, RateHolds
<1> QED BY <1>6, <1>7

\* A call that wakes finds the stamp it waited for a period old or gone.
LEMMA WakeIInv == IInv /\ Wake => IInv'
<1> SUFFICES ASSUME IInv, Wake PROVE IInv'
  OBVIOUS
<1>0. /\ now \in Nat /\ wake \in Nat
      /\ Len(granted) \in Nat /\ head \in 1..(Len(granted) + 1)
      /\ \A i \in 1..Len(granted) : granted[i] \in Nat
      /\ granted \in Seq(Nat)
      /\ granted # <<>> <=> Len(granted) > 0
      /\ MaxCalls \in Nat /\ MaxCalls > 0 /\ Period \in Nat
  BY Facts
<1>1. PICK h \in head..(Len(granted) + 1) : Popped(h) /\ head' = h
  BY DEF Wake
<1>2. /\ UNCHANGED <<now, granted, wake>> /\ lock' = "append"
      /\ now >= granted[head] + Period /\ Len(granted) + 1 - head = MaxCalls
      /\ now > granted[Len(granted)]
  BY DEF Wake, IInv, HolderKnows
<1>3. StampsInOrder'
  <2>1. \A i \in 1..Len(granted) : i < h => now - granted[i] > Period
    BY <1>0, <1>1 DEF Popped, Expired, IInv, StampsInOrder
  <2> QED BY <1>1, <1>2, <2>1 DEF IInv, StampsInOrder
<1>4. \/ Len(granted) + 1 - h < MaxCalls
      \/ Len(granted) + 1 - h = MaxCalls /\ now >= granted[h] + Period
  <2>1. CASE h = head
    BY <1>2, <2>1
  <2>2. CASE h # head
    BY <1>0, <1>2, <2>2
  <2> QED BY <2>1, <2>2
<1> QED BY <1>0, <1>1, <1>2, <1>3, <1>4 DEF IInv, TypeOK, HolderKnows, RateHolds

\* The new stamp is a period after the one max_calls before it.
LEMMA StampIInv == IInv /\ Stamp => IInv'
<1> SUFFICES ASSUME IInv, Stamp PROVE IInv'
  OBVIOUS
<1>0. /\ now \in Nat /\ wake \in Nat
      /\ Len(granted) \in Nat /\ head \in 1..(Len(granted) + 1)
      /\ \A i \in 1..Len(granted) : granted[i] \in Nat
      /\ granted \in Seq(Nat)
      /\ granted # <<>> <=> Len(granted) > 0
      /\ MaxCalls \in Nat /\ MaxCalls > 0 /\ Period \in Nat
  BY Facts
<1> DEFINE n == Len(granted) + 1
<1>1. /\ UNCHANGED <<now, head, wake>> /\ lock' = "free" /\ lock = "append"
      /\ granted' = Append(granted, now)
  BY DEF Stamp
<1>2. /\ Len(granted') = n /\ granted' \in Seq(Nat)
      /\ granted'[n] = now
      /\ \A i \in 1..Len(granted) : granted'[i] = granted[i]
  BY <1>0, <1>1
<1>9. /\ n \in Nat /\ n = Len(granted) + 1
      /\ \A i \in 1..n : i # n => i \in 1..Len(granted)
  BY <1>0
<1> HIDE DEF n
<1>3. granted # <<>> => now > granted[Len(granted)]
  BY <1>1 DEF IInv, HolderKnows
<1>4. n - head <= MaxCalls
  BY <1>0, <1>1, <1>9 DEF IInv, HolderKnows
<1>5. TypeOK'
  BY <1>0, <1>1, <1>2, <1>4, <1>9 DEF TypeOK
<1>6. StampsInOrder'
  <2>1. \A i \in 1..Len(granted) : granted[i] < now
    BY <1>0, <1>3 DEF IInv, StampsInOrder
  <2>2. ASSUME NEW i \in 1..n, NEW j \in 1..n, i < j
        PROVE  granted'[i] < granted'[j]
    <3>1. i \in 1..Len(granted)
      BY <1>9, <2>2
    <3>2. CASE j = n
      BY <1>2, <2>1, <3>1, <3>2
    <3>3. CASE j # n
      BY <1>2, <1>9, <2>2, <3>1, <3>3 DEF IInv, StampsInOrder
    <3> QED BY <3>2, <3>3
  <2>3. ASSUME NEW i \in 1..n PROVE granted'[i] <= now
    <3>1. CASE i = n
      BY <1>0, <1>2, <3>1
    <3>2. CASE i # n
      <4>1. i \in 1..Len(granted)
        BY <1>9, <3>2
      <4>2. granted'[i] = granted[i] /\ granted[i] < now /\ granted[i] \in Nat
        BY <1>0, <1>2, <2>1, <4>1
      <4> QED BY <1>0, <4>2
    <3> QED BY <3>1, <3>2
  <2>4. ASSUME NEW i \in 1..n, i < head PROVE now - granted'[i] > Period
    <3>1. i \in 1..Len(granted)
      BY <1>0, <1>9, <2>4
    <3> QED BY <1>2, <2>4, <3>1 DEF IInv, StampsInOrder
  <2> QED BY <1>1, <1>2, <2>2, <2>3, <2>4 DEF StampsInOrder
<1>7. RateHolds'
  <2>1. ASSUME NEW i \in 1..n, i + MaxCalls <= n
        PROVE  granted'[i + MaxCalls] - granted'[i] >= Period
    <3>1. CASE i + MaxCalls < n
      <4>1. /\ i \in 1..Len(granted) /\ i + MaxCalls \in 1..Len(granted)
            /\ i + MaxCalls <= Len(granted)
        BY <1>0, <1>9, <3>1
      <4> QED BY <1>2, <4>1 DEF IInv, RateHolds
    <3>2. CASE i + MaxCalls = n
      <4>1. i \in 1..Len(granted)
        BY <1>0, <1>9, <3>2
      <4>2. now - granted[i] >= Period
        <5>1. CASE i < head
          BY <1>0, <4>1, <5>1 DEF IInv, StampsInOrder
        <5>2. CASE i >= head
          <6>1. n - head = MaxCalls /\ i = head
            BY <1>0, <1>4, <1>9, <3>2, <5>2
          <6> QED BY <1>0, <1>1, <1>9, <6>1 DEF IInv, HolderKnows
        <5> QED BY <1>0, <5>1, <5>2
      <4> QED BY <1>2, <3>2, <4>1, <4>2
    <3> QED BY <1>0, <1>9, <2>1, <3>1, <3>2
  <2> QED BY <1>2, <2>1 DEF RateHolds
<1>8. HolderKnows'
  BY <1>1 DEF HolderKnows
<1> QED BY <1>5, <1>6, <1>7, <1>8 DEF IInv

\* Time passes.
LEMMA TickIInv == IInv /\ Tick => IInv'
<1> SUFFICES ASSUME IInv, Tick PROVE IInv'
  OBVIOUS
<1>0. /\ now \in Nat /\ wake \in Nat
      /\ Len(granted) \in Nat /\ head \in 1..(Len(granted) + 1)
      /\ \A i \in 1..Len(granted) : granted[i] \in Nat
      /\ granted # <<>> <=> Len(granted) > 0
      /\ MaxCalls \in Nat /\ MaxCalls > 0 /\ Period \in Nat
  BY Facts
<1>1. now' = now + 1 /\ UNCHANGED <<granted, head, lock, wake>>
  BY DEF Tick
<1>2. StampsInOrder'
  BY <1>0, <1>1 DEF IInv, StampsInOrder
<1>3. HolderKnows'
  <2>1. /\ lock = "asleep" => Len(granted) \in 1..Len(granted)
        /\ Len(granted) + 1 - head = MaxCalls => head \in 1..Len(granted)
    BY <1>0 DEF IInv, HolderKnows
  <2> QED BY <1>0, <1>1, <2>1 DEF IInv, HolderKnows
<1>4. TypeOK' /\ RateHolds'
  BY <1>0, <1>1 DEF IInv, TypeOK, RateHolds
<1> QED BY <1>2, <1>3, <1>4 DEF IInv

\* Every step keeps the invariant.
LEMMA Invariance == Spec => []IInv
<1>1. Init => IInv
  BY LimiterConstants DEF Init, IInv, TypeOK, StampsInOrder, HolderKnows, RateHolds
<1>2. IInv /\ [Next]_vars => IInv'
  <2> SUFFICES ASSUME IInv, [Next]_vars PROVE IInv'
    OBVIOUS
  <2>1. CASE UNCHANGED vars
    BY <2>1 DEF vars, IInv, TypeOK, StampsInOrder, HolderKnows, RateHolds
  <2> QED BY <2>1, EnterIInv, WakeIInv, StampIInv, TickIInv DEF Next
<1> QED BY <1>1, <1>2, PTL DEF Spec

\* Every variable stays in its domain, and the deque is bounded.
THEOREM TypeCorrect == Spec => []TypeOK
<1>1. IInv => TypeOK
  BY DEF IInv
<1> QED BY <1>1, Invariance, PTL

\* RateLimiter.acquire keeps every window of one period to max_calls stamps.
THEOREM RateIsBounded == Spec => []RateHolds
<1>1. IInv => RateHolds
  BY DEF IInv
<1> QED BY <1>1, Invariance, PTL

\* RateLimiter.acquire sleeps only while it must.
THEOREM SleepsAreNeeded == Spec => []NoNeedlessWait
<1>1. IInv => NoNeedlessWait
  <2> SUFFICES ASSUME IInv, lock = "asleep"
               PROVE  /\ Len(granted) >= MaxCalls
                      /\ wake = granted[Len(granted) + 1 - MaxCalls] + Period
    BY DEF NoNeedlessWait
  <2>1. head = Len(granted) + 1 - MaxCalls /\ head >= 1
    BY Facts DEF IInv, HolderKnows
  <2> QED BY <2>1, Facts DEF IInv, HolderKnows
<1> QED BY <1>1, Invariance, PTL

-----------------------------------------------------------------------------
(* The limit as the broker states it: what falls into one window.          *)

\* The calls let through in the period that starts at t.
Calls(t) == {i \in 1..Len(granted) : t <= granted[i] /\ granted[i] < t + Period}

\* No window of one period, wherever it starts, holds more than max_calls.
EveryWindowFits ==
  \A t \in Int : IsFiniteSet(Calls(t)) /\ Cardinality(Calls(t)) <= MaxCalls

\* A set of positive numbers has a least one: the initial segments 1..i that
\* end in it are finite, and strict inclusion is well-founded on finite sets.
LEMMA LeastOf ==
  ASSUME NEW S \in SUBSET (Nat \ {0}), S # {}
  PROVE  \E m \in S : \A i \in S : m <= i
<1> DEFINE T == {1..i : i \in S}
<1>1. T \subseteq FiniteSubsetsOf(Nat) /\ T # {}
  <2>1. ASSUME NEW i \in S PROVE 1..i \subseteq Nat /\ IsFiniteSet(1..i)
    BY FS_Interval
  <2> QED BY <2>1 DEF FiniteSubsetsOf
<1>2. IsWellFoundedOn(StrictSubsetOrdering(Nat), FiniteSubsetsOf(Nat))
  BY FS_StrictSubsetOrderingWellFounded
<1>3. \E x \in T : \A y \in T : <<y, x>> \notin StrictSubsetOrdering(Nat)
  <2> HIDE DEF T
  <2> QED BY <1>1, <1>2, WFMin
<1>4. PICK m \in S : \A y \in T : <<y, 1..m>> \notin StrictSubsetOrdering(Nat)
  BY <1>3
<1>5. ASSUME NEW i \in S, i < m PROVE FALSE
  <2>1. 1..i \subseteq 1..m /\ 1..i # 1..m
    <3>1. m \in 1..m /\ m \notin 1..i
      BY <1>5
    <3> QED BY <1>5, <3>1
  <2>2. 1..i \in SUBSET Nat /\ 1..m \in SUBSET Nat
    OBVIOUS
  <2>3. <<1..i, 1..m>> \in StrictSubsetOrdering(Nat)
    BY <2>1, <2>2 DEF StrictSubsetOrdering
  <2> QED BY <1>4, <2>3
<1>6. \A i \in S : m <= i
  BY <1>5
<1> QED BY <1>6

\* RateLimiter keeps the broker's limit in the form the broker states it: at
\* most max_calls calls in every period, not only in those that start with a
\* call.  The first call of the window and the one max_calls later are a
\* period apart, so the window ends before the later one.
THEOREM EveryWindowIsBounded == Spec => []EveryWindowFits
<1>1. IInv => EveryWindowFits
  <2> SUFFICES ASSUME IInv, NEW t \in Int
               PROVE  IsFiniteSet(Calls(t)) /\ Cardinality(Calls(t)) <= MaxCalls
    BY DEF EveryWindowFits
  <2> DEFINE W == Calls(t)
  <2>0. /\ Len(granted) \in Nat /\ MaxCalls \in Nat /\ MaxCalls > 0 /\ Period \in Nat
        /\ \A i \in 1..Len(granted) : granted[i] \in Nat
    BY Facts
  <2>1. CASE W = {}
    BY <2>0, <2>1, FS_EmptySet
  <2>2. CASE W # {}
    <3>1. W \in SUBSET (Nat \ {0})
      BY DEF Calls
    <3>2. PICK m \in W : \A i \in W : m <= i
      <4> HIDE DEF W
      <4> QED BY <2>2, <3>1, LeastOf
    <3>3. ASSUME NEW i \in W PROVE i < m + MaxCalls
      <4> SUFFICES ASSUME i >= m + MaxCalls PROVE FALSE
        BY <2>0 DEF Calls
      <4>1. /\ m \in 1..Len(granted) /\ i \in 1..Len(granted)
            /\ t <= granted[m] /\ granted[i] < t + Period
        BY DEF Calls
      <4>2. m + MaxCalls \in 1..Len(granted) /\ m + MaxCalls <= Len(granted)
        BY <2>0, <4>1
      <4>3. granted[m + MaxCalls] - granted[m] >= Period
        BY <4>1, <4>2 DEF IInv, RateHolds
      <4>4. granted[m + MaxCalls] <= granted[i]
        <5>1. CASE i = m + MaxCalls
          BY <2>0, <4>1, <5>1
        <5>2. CASE m + MaxCalls < i
          BY <2>0, <4>1, <4>2, <5>2 DEF IInv, StampsInOrder
        <5> QED BY <2>0, <4>1, <5>1, <5>2
      <4> QED BY <2>0, <4>1, <4>2, <4>3, <4>4
    <3>4. W \in SUBSET (m..(m + MaxCalls - 1)) /\ m \in Int /\ m + MaxCalls - 1 \in Int
      BY <2>0, <3>2, <3>3 DEF Calls
    <3>5. /\ IsFiniteSet(m..(m + MaxCalls - 1))
          /\ Cardinality(m..(m + MaxCalls - 1)) = MaxCalls
      BY <2>0, <3>4, FS_Interval
    <3>6. IsFiniteSet(W) /\ Cardinality(W) <= Cardinality(m..(m + MaxCalls - 1))
      <4> HIDE DEF W
      <4> QED BY <3>4, <3>5, FS_Subset
    <3> QED BY <3>5, <3>6
  <2> QED BY <2>1, <2>2
<1> QED BY <1>1, Invariance, PTL
=============================================================================

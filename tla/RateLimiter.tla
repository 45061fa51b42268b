---------------------------- MODULE RateLimiter -----------------------------
(***************************************************************************)
(* The sliding-window limiter of fubon_api.py that every accounting query  *)
(* goes through.  Time is counted in ticks of the monotonic clock; a sleep *)
(* may last longer than asked for, never shorter; and the clock has moved  *)
(* on from the stamp of one call when the next call looks at it.           *)
(*                                                                         *)
(* _calls, the deque of stamps, is the part of granted from head on.       *)
(***************************************************************************)
EXTENDS Integers, Sequences

CONSTANTS
  MaxCalls,  \* max_calls (5)
  Period,    \* period, in ticks
  MaxTime    \* bound on the clock

ASSUME LimiterConstants ==
  MaxCalls \in Nat \ {0} /\ Period \in Nat /\ MaxTime \in Nat

VARIABLES
  now,      \* time.monotonic()
  granted,  \* the stamps of all calls let through
  head,     \* the oldest stamp still in _calls
  lock,     \* what the holder of _lock does: "free", "asleep" or "append"
  wake      \* when its sleep ends

vars == <<now, granted, head, lock, wake>>

Init ==
  /\ now = 0 /\ granted = <<>> /\ head = 1
  /\ lock = "free" /\ wake = 0

\* Mutant of Expired: a stamp is kept for one tick too long.
ExpiredLate(i) == now - granted[i] > Period + 1

\* The stamp has left the window.
Expired(i) == now - granted[i] > Period

\* The popleft loops: h is the oldest stamp they leave.
Popped(h) ==
  /\ \A i \in head..(h - 1) : Expired(i)
  /\ h <= Len(granted) => ~Expired(h)

\* Mutant of Full: one call too many fits.
FullLater(h) == Len(granted) + 1 - h > MaxCalls

\* len(self._calls) >= self.max_calls
Full(h) == Len(granted) + 1 - h >= MaxCalls

\* Mutant of Blocking: the sleep waits for the newest stamp to leave.
BlockingLast(h) == Len(granted)

\* The stamp the sleep waits for: _calls[0].
Blocking(h) == h

\* acquire takes the lock, drops the stamps that left the window, and sleeps
\* until the oldest one leaves if the window is full.
Enter ==
  /\ lock = "free"
  /\ granted # <<>> => now > granted[Len(granted)]
  /\ \E h \in head..(Len(granted) + 1) :
       /\ Popped(h)
       /\ head' = h
       /\ IF Full(h)
          THEN lock' = "asleep" /\ wake' = granted[Blocking(h)] + Period
          ELSE lock' = "append" /\ UNCHANGED wake
  /\ UNCHANGED <<now, granted>>

Wake ==
  /\ lock = "asleep" /\ now >= wake
  /\ \E h \in head..(Len(granted) + 1) : Popped(h) /\ head' = h
  /\ lock' = "append"
  /\ UNCHANGED <<now, granted, wake>>

\* The call is stamped and the lock released.
Stamp ==
  /\ lock = "append"
  /\ granted' = Append(granted, now)
  /\ lock' = "free"
  /\ UNCHANGED <<now, head, wake>>

Tick ==
  /\ now < MaxTime
  /\ now' = now + 1
  /\ UNCHANGED <<granted, head, lock, wake>>

Next == Enter \/ Wake \/ Stamp \/ Tick

Spec == Init /\ [][Next]_vars

-----------------------------------------------------------------------------
(* Properties.                                                             *)

\* The deque never holds more than one stamp beyond max_calls (the stamp that
\* is exactly one period old survives the strict comparison).
TypeOK ==
  /\ now \in Nat /\ granted \in Seq(Nat)
  /\ head \in 1..(Len(granted) + 1)
  /\ Len(granted) + 1 - head <= MaxCalls + 1
  /\ lock \in {"free", "asleep", "append"} /\ wake \in Nat

\* "at 5 req/s": any max_calls + 1 successive calls span at least one period,
\* across sleeps that overrun and stamps that are dropped late.
RateHolds ==
  \A i \in 1..Len(granted) :
    i + MaxCalls <= Len(granted) => granted[i + MaxCalls] - granted[i] >= Period

\* A call sleeps only while max_calls stamps are in the window, and exactly
\* until the first of them leaves it: nobody is held up by an older or a newer
\* stamp.
NoNeedlessWait ==
  lock = "asleep" =>
    /\ Len(granted) >= MaxCalls
    /\ wake = granted[Len(granted) + 1 - MaxCalls] + Period
=============================================================================

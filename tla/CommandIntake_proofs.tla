------------------------ MODULE CommandIntake_proofs ------------------------
(***************************************************************************)
(* The safety properties of CommandIntake for any number of services,      *)
(* instances, threads and commands, any bound on the faults and any        *)
(* feedback retry limit, and the proof that it implements CommandLedger.   *)
(***************************************************************************)
EXTENDS CommandIntake, TLAPS

\* The steps of the worker whose claim of its command succeeded.
Owning == {"lock"} \cup Locked

\* The steps before the command has been executed or answered.
Unanswered == {"lock", "agent", "register", "start", "execute"}

\* A worker tries to claim only a command its service may serve.
ClaimsItsOwn ==
  \A w \in Workers : pc[w] = "claim" => FirstStep(Home(w), cmd[w]) = "claim"

\* Past the claim the object is in the bucket.
OwnsClaim == \A w \in Workers : pc[w] \in Owning => bucket[cmd[w]] # Absent

\* No two workers are past the claim with the same command.
OneOwner ==
  \A v, w \in Workers :
    pc[v] \in Owning /\ pc[w] \in Owning /\ cmd[v] = cmd[w] => v = w

\* Nothing has been done for an unclaimed command.
UnclaimedUntouched ==
  \A c \in Commands : bucket[c] = Absent => runs[c] = 0 /\ posts[c] = 0

\* The owner of a command finds it unexecuted and unanswered.
OwnerIsFirst ==
  \A w \in Workers : pc[w] \in Unanswered => /\ runs[cmd[w]] = 0
                                             /\ posts[cmd[w]] = 0
                                             /\ retry[w] = 0

\* While the owner posts, its retry counter counts the POSTs of the command.
RetryCountsPosts ==
  \A w \in Workers : pc[w] = "report" => posts[cmd[w]] = retry[w]

\* A worker has sent nothing before its claim.
NoRetryBefore == \A w \in Workers : pc[w] = "claim" => retry[w] = 0

\* The worker inside the with block is the one the lock names.
HoldsLock == \A w \in Workers : pc[w] \in Locked => lock[InstanceOf[w]] = w

IInv ==
  /\ TypeOK
  /\ ClaimsItsOwn
  /\ OwnsClaim
  /\ OneOwner
  /\ UnclaimedUntouched
  /\ OwnerIsFirst
  /\ RetryCountsPosts
  /\ NoRetryBefore
  /\ HoldsLock
  /\ AtMostOnce
  /\ FeedbackBounded

-----------------------------------------------------------------------------
\* The initial state satisfies the invariant.
LEMMA InitIInv == Init => IInv
  BY IntakeConstants
  DEF Init, IInv, TypeOK, ClaimsItsOwn, OwnsClaim, OneOwner,
      UnclaimedUntouched, OwnerIsFirst, RetryCountsPosts, NoRetryBefore,
      HoldsLock, AtMostOnce, FeedbackBounded, Steps, Owning, Unanswered, Locked


-----------------------------------------------------------------------------
(* Type correctness.                                                       *)

\* Every step of the worker or of the world keeps the variables in their
\* domains; PostFeedback needs the guard of the retry counter.
LEMMA TypeStep == TypeOK /\ [Next]_vars => TypeOK'
<1> SUFFICES ASSUME TypeOK, [Next]_vars PROVE TypeOK'
  OBVIOUS
<1> USE IntakeConstants DEF TypeOK, GoTo, Raise, Smooth, Inject, Steps, effects, worker
<1>1. ASSUME NEW w \in Workers, NEW c \in Commands, Deliver(w, c) PROVE TypeOK'
  BY <1>1 DEF Deliver, FirstStep
<1>2. ASSUME NEW w \in Workers, Claim(w) PROVE TypeOK'
  <2>1. CASE ClaimWon(w)
    BY <2>1 DEF ClaimWon, Home
  <2>2. CASE ClaimLost(w)
    BY <2>2 DEF ClaimLost
  <2>3. CASE ClaimReplyLost(w)
    BY <2>3 DEF ClaimReplyLost, Home
  <2>4. CASE ClaimFailed(w)
    BY <2>4 DEF ClaimFailed
  <2> QED BY <1>2, <2>1, <2>2, <2>3, <2>4 DEF Claim
<1>3. ASSUME NEW w \in Workers, AcquireLock(w) PROVE TypeOK'
  BY <1>3 DEF AcquireLock
<1>4. ASSUME NEW w \in Workers, GetAgent(w) PROVE TypeOK'
  <2>1. CASE GoTo(w, "register") /\ UNCHANGED <<raised, faults>>
    BY <1>4, <2>1 DEF GetAgent
  <2>2. CASE Inject("login_error") /\ Raise(w) /\ GoTo(w, "release")
    BY <1>4, <2>2 DEF GetAgent
  <2> QED BY <1>4, <2>1, <2>2 DEF GetAgent
<1>5. ASSUME NEW w \in Workers, Register(w) PROVE TypeOK'
  <2>1. CASE Raise(w) /\ GoTo(w, "release") /\ UNCHANGED history
    BY <1>5, <2>1 DEF Register
  <2>2. CASE GoTo(w, "release") /\ UNCHANGED <<raised, history>>
    BY <1>5, <2>2 DEF Register
  <2>3. CASE /\ history' = [history EXCEPT ![InstanceOf[w]] = @ \cup {cmd[w]}]
             /\ GoTo(w, "start") /\ UNCHANGED raised
    BY <1>5, <2>3 DEF Register
  <2> QED BY <1>5, <2>1, <2>2, <2>3 DEF Register
<1>6. ASSUME NEW w \in Workers, StartRun(w) PROVE TypeOK'
  BY <1>6 DEF StartRun
<1>7. ASSUME NEW w \in Workers, Execute(w) PROVE TypeOK'
  <2>1. PICK step \in {"report", "release"} : GoTo(w, step)
    BY <1>7 DEF Execute
  <2>2. runs' \in [Commands -> Nat]
    BY <1>7 DEF Execute
  <2>3. raised' \in [Workers -> BOOLEAN]
    BY <1>7 DEF Execute
  <2>4. faults' \in Nat
    BY <1>7 DEF Execute
  <2> QED BY <1>7, <2>1, <2>2, <2>3, <2>4 DEF Execute
<1>8. ASSUME NEW w \in Workers, PostFeedback(w) PROVE TypeOK'
  <2>1. /\ pc' \in [Workers -> Steps]
        /\ \A v \in Workers : pc'[v] = "idle" <=> pc[v] = "idle"
    BY <1>8 DEF PostFeedback
  <2>2. retry' \in [Workers -> 0..(FeedbackRetries + 1)]
    BY <1>8 DEF PostFeedback, GivesUp
  <2>3. posts' \in [Commands -> Nat]
    BY <1>8 DEF PostFeedback
  <2> QED BY <1>8, <2>1, <2>2, <2>3 DEF PostFeedback
<1>9. ASSUME NEW w \in Workers, Release(w) PROVE TypeOK'
  BY <1>9 DEF Release, FreedLock
<1>10. ASSUME NEW w \in Workers, Respond(w) PROVE TypeOK'
  <2>1. backlog' \in [Services -> SUBSET Commands]
    BY <1>10 DEF Respond, Home
  <2> QED BY <1>10, <2>1 DEF Respond
<1>11. ASSUME NEW w \in Workers, Timeout(w) PROVE TypeOK'
  BY <1>11 DEF Timeout
<1>12. ASSUME NEW c \in Commands, Expire(c) PROVE TypeOK'
  BY <1>12 DEF Expire
<1>13. ASSUME NEW i \in Instances, Crash(i) PROVE TypeOK'
  <2>1. /\ pc' \in [Workers -> Steps]
        /\ cmd' \in [Workers -> Commands \cup {Absent}]
        /\ \A w \in Workers : (cmd'[w] = Absent) <=> (pc'[w] = "idle")
    BY <1>13 DEF Crash
  <2>2. retry' \in [Workers -> 0..(FeedbackRetries + 1)]
    BY <1>13 DEF Crash
  <2>3. raised' \in [Workers -> BOOLEAN]
    BY <1>13, Zenon DEF Crash
  <2>4. late' \in [Workers -> BOOLEAN]
    BY <1>13, Zenon DEF Crash
  <2>5. /\ history' \in [Instances -> SUBSET Commands]
        /\ lock' \in [Instances -> Workers \cup {Nobody}]
        /\ faults' \in Nat
    BY <1>13 DEF Crash
  <2> QED BY <1>13, <2>1, <2>2, <2>3, <2>4, <2>5 DEF Crash
<1>14. CASE UNCHANGED vars
  BY <1>14 DEF vars
<1> QED
  BY <1>1, <1>2, <1>3, <1>4, <1>5, <1>6, <1>7, <1>8, <1>9, <1>10, <1>11,
     <1>12, <1>13, <1>14 DEF Next, WorkerStep

\* Every reachable state is well typed; in particular the counter of
\* _send_agent_feedback stops at its limit and a worker holds a command
\* exactly while it is busy.
THEOREM TypeCorrect == Spec => []TypeOK
<1>1. Init => TypeOK
  BY IntakeConstants DEF Init, TypeOK, Steps
<1> QED BY <1>1, TypeStep, PTL DEF Spec

-----------------------------------------------------------------------------
(* The inductive invariant.                                                *)

\* Every step preserves the invariant.  The claim makes a worker the owner of
\* an untouched command; Execute and PostFeedback are steps of the one owner.
LEMMA StepIInv == IInv /\ TypeOK' /\ [Next]_vars => IInv'
<1> SUFFICES ASSUME IInv, TypeOK', [Next]_vars PROVE IInv'
  OBVIOUS
<1> USE IntakeConstants
    DEF IInv, TypeOK, GoTo, Raise, Smooth, Inject, effects, worker, Locked,
        Owning, Unanswered, ClaimsItsOwn, OwnsClaim, OneOwner,
        UnclaimedUntouched, OwnerIsFirst, RetryCountsPosts, NoRetryBefore,
        HoldsLock, AtMostOnce, FeedbackBounded
<1>1. ASSUME NEW w \in Workers, NEW c \in Commands, Deliver(w, c) PROVE IInv'
  <2>1. /\ pc' = [pc EXCEPT ![w] = FirstStep(Home(w), c)]
        /\ cmd' = [cmd EXCEPT ![w] = c]
        /\ retry' = [retry EXCEPT ![w] = 0]
        /\ pc[w] = "idle"
        /\ UNCHANGED <<bucket, lock, runs, posts>>
    BY <1>1 DEF Deliver
  <2>2. FirstStep(Home(w), c) \in {"claim", "respond"}
    BY DEF FirstStep
  <2>3. ClaimsItsOwn'
    BY <2>1 DEF FirstStep, SkippedBeforeClaim, ForOtherAgent, Home
  <2> HIDE DEF TypeOK, ClaimsItsOwn
  <2> QED BY <2>1, <2>2, <2>3 DEF TypeOK
<1>2. ASSUME NEW w \in Workers, Claim(w) PROVE IInv'
  <2>1. CASE ClaimWon(w)
    BY <2>1 DEF ClaimWon, Home, Precondition
  <2>2. CASE ClaimLost(w)
    BY <2>2 DEF ClaimLost
  <2>3. CASE ClaimReplyLost(w)
    BY <2>3 DEF ClaimReplyLost, Home, Precondition
  <2>4. CASE ClaimFailed(w)
    BY <2>4 DEF ClaimFailed
  <2> QED BY <1>2, <2>1, <2>2, <2>3, <2>4 DEF Claim
<1>3. ASSUME NEW w \in Workers, AcquireLock(w) PROVE IInv'
  BY <1>3 DEF AcquireLock, CanLock
<1>4. ASSUME NEW w \in Workers, GetAgent(w) PROVE IInv'
  BY <1>4 DEF GetAgent
<1>5. ASSUME NEW w \in Workers, Register(w) PROVE IInv'
  BY <1>5 DEF Register
<1>6. ASSUME NEW w \in Workers, StartRun(w) PROVE IInv'
  BY <1>6 DEF StartRun
<1>7. ASSUME NEW w \in Workers, Execute(w) PROVE IInv'
  <2>1. PICK step \in {"report", "release"} : GoTo(w, step)
    BY <1>7 DEF Execute
  <2>2. /\ pc[w] = "execute"
        /\ UNCHANGED <<bucket, lock, cmd, retry, posts>>
    BY <1>7 DEF Execute
  <2>3. CASE runs' = [runs EXCEPT ![cmd[w]] = @ + 1]
    BY <2>1, <2>2, <2>3
  <2>4. CASE UNCHANGED runs
    BY <2>1, <2>2, <2>4
  <2> QED BY <1>7, <2>3, <2>4 DEF Execute
<1>8. ASSUME NEW w \in Workers, PostFeedback(w) PROVE IInv'
  BY <1>8 DEF PostFeedback, GivesUp
<1>9. ASSUME NEW w \in Workers, Release(w) PROVE IInv'
  BY <1>9 DEF Release, FreedLock
<1>10. ASSUME NEW w \in Workers, Respond(w) PROVE IInv'
  BY <1>10 DEF Respond
<1>11. ASSUME NEW w \in Workers, Timeout(w) PROVE IInv'
  BY <1>11 DEF Timeout
<1>12. ASSUME NEW c \in Commands, Expire(c) PROVE IInv'
  BY <1>12 DEF Expire
<1>13. ASSUME NEW i \in Instances, Crash(i) PROVE IInv'
  <2>1. UNCHANGED <<bucket, runs, posts>>
    BY <1>13 DEF Crash
  <2>2. \A w \in Workers : pc'[w] # "idle" =>
          /\ pc'[w] = pc[w] /\ cmd'[w] = cmd[w] /\ retry'[w] = retry[w]
          /\ InstanceOf[w] # i
    BY <1>13 DEF Crash
  <2>3. \A w \in Workers : pc'[w] # "idle" =>
          lock'[InstanceOf[w]] = lock[InstanceOf[w]]
    BY <1>13, <2>2 DEF Crash
  <2>4. ClaimsItsOwn'
    <3> SUFFICES ASSUME NEW w \in Workers, pc'[w] = "claim"
                 PROVE  FirstStep(Home(w), cmd[w])' = "claim"
      BY DEF ClaimsItsOwn
    <3>1. FirstStep(Home(w), cmd[w]) = "claim"
      BY <2>2
    <3> QED BY <2>2, <3>1 DEF FirstStep, SkippedBeforeClaim, ForOtherAgent, Home
  <2> HIDE DEF TypeOK, Inject
  <2>5. OwnsClaim' /\ OneOwner'
    <3>1. OwnsClaim /\ OneOwner /\ \A w \in Workers : pc'[w] \in Owning => pc'[w] # "idle"
      OBVIOUS
    <3>2. OwnsClaim'
      BY <2>1, <2>2, <3>1
    <3>3. OneOwner'
      BY <2>2, <3>1
    <3> QED BY <3>2, <3>3
  <2>6. OwnerIsFirst' /\ RetryCountsPosts' /\ NoRetryBefore'
    <3>1. OwnerIsFirst'
      BY <2>1, <2>2
    <3>2. RetryCountsPosts' /\ NoRetryBefore'
      BY <2>1, <2>2
    <3> QED BY <3>1, <3>2
  <2>7. HoldsLock'
    BY <2>2, <2>3
  <2>8. UnclaimedUntouched' /\ AtMostOnce' /\ FeedbackBounded'
    BY <2>1
  <2> QED BY <2>4, <2>5, <2>6, <2>7, <2>8
<1>14. CASE UNCHANGED vars
  BY <1>14 DEF vars
<1> QED
  BY <1>1, <1>2, <1>3, <1>4, <1>5, <1>6, <1>7, <1>8, <1>9, <1>10, <1>11,
     <1>12, <1>13, <1>14 DEF Next, WorkerStep

\* The invariant holds in every reachable state.
THEOREM Invariance == Spec => []IInv
<1>1. Init => IInv
  BY InitIInv
<1>2. IInv /\ [Next]_vars => IInv'
  BY StepIInv, TypeStep DEF IInv
<1> QED BY <1>1, <1>2, PTL DEF Spec

-----------------------------------------------------------------------------
(* The properties.                                                         *)

\* A command is executed at most once, whatever is redelivered, restarted or
\* run side by side: executions need the claim, and a claim has one owner.
THEOREM ExecutedAtMostOnce == Spec => []AtMostOnce
<1>1. IInv => AtMostOnce
  BY DEF IInv
<1> QED BY <1>1, Invariance, PTL

\* Two threads of a process are never both inside the order lock.
THEOREM SessionIsExclusive == Spec => []OneAtATime
<1>1. IInv => OneAtATime
  BY DEF IInv, HoldsLock, OneAtATime
<1> QED BY <1>1, Invariance, PTL

\* The feedback function is sent at most FeedbackRetries + 2 POSTs of one
\* command over all deliveries, instances and restarts.
THEOREM PostsAreBounded == Spec => []FeedbackBounded
<1>1. IInv => FeedbackBounded
  BY DEF IInv
<1> QED BY <1>1, Invariance, PTL

-----------------------------------------------------------------------------
(* Refinement.                                                             *)

\* A step of the intake is a step of the ledger or leaves the ledger alone:
\* the claims take, Execute executes, PostFeedback answers.
LEMMA StepRefines ==
  IInv /\ IInv' /\ [Next]_vars => [Ledger!LedgerNext]_(Ledger!ledger)
<1> SUFFICES ASSUME IInv, IInv', [Next]_vars
             PROVE  [Ledger!LedgerNext]_(Ledger!ledger)
  OBVIOUS
<1> DEFINE Still == UNCHANGED <<bucket, runs, posts>>
<1>1. ASSUME NEW w \in Workers, Claim(w) PROVE [Ledger!LedgerNext]_(Ledger!ledger)
  <2>1. CASE ClaimWon(w) \/ ClaimReplyLost(w)
    <3>1. /\ pc[w] = "claim" /\ bucket[cmd[w]] = Absent
          /\ bucket' = [bucket EXCEPT ![cmd[w]] = Home(w)]
          /\ UNCHANGED <<runs, posts>>
      BY <2>1 DEF ClaimWon, ClaimReplyLost, Precondition, effects
    <3>2. /\ cmd[w] \in Commands /\ Home(w) \in Services
          /\ FirstStep(Home(w), cmd[w]) = "claim"
      BY <3>1, IntakeConstants DEF IInv, TypeOK, ClaimsItsOwn, Home
    <3>3. Ledger!TakeClaim(Home(w), cmd[w])
      BY <3>1, <3>2 DEF Ledger!TakeClaim
    <3> QED BY <3>2, <3>3 DEF Ledger!LedgerNext
  <2>2. CASE ClaimLost(w) \/ ClaimFailed(w)
    BY <2>2 DEF ClaimLost, ClaimFailed, effects, Ledger!ledger
  <2> QED BY <1>1, <2>1, <2>2 DEF Claim
<1>2. ASSUME NEW w \in Workers, Execute(w) PROVE [Ledger!LedgerNext]_(Ledger!ledger)
  <2>1. /\ pc[w] = "execute" /\ cmd[w] \in Commands /\ runs \in [Commands -> Nat]
        /\ runs[cmd[w]] = 0 /\ bucket[cmd[w]] # Absent
        /\ UNCHANGED <<bucket, posts>>
    BY <1>2 DEF Execute, IInv, TypeOK, OwnsClaim, OwnerIsFirst, Unanswered,
                Owning, Locked
  <2>2. CASE runs' = [runs EXCEPT ![cmd[w]] = @ + 1]
    <3>1. runs' = [runs EXCEPT ![cmd[w]] = 1]
      BY <2>1, <2>2
    <3>2. Ledger!ExecuteOnce(cmd[w])
      BY <2>1, <3>1 DEF Ledger!ExecuteOnce
    <3> QED BY <2>1, <3>2 DEF Ledger!LedgerNext
  <2>3. CASE UNCHANGED runs
    BY <2>1, <2>3 DEF Ledger!ledger
  <2> QED BY <1>2, <2>2, <2>3 DEF Execute
<1>3. ASSUME NEW w \in Workers, PostFeedback(w) PROVE [Ledger!LedgerNext]_(Ledger!ledger)
  <2>1. /\ pc[w] = "report" /\ cmd[w] \in Commands /\ retry[w] \in 0..(FeedbackRetries + 1)
        /\ posts[cmd[w]] = retry[w] /\ bucket[cmd[w]] # Absent
        /\ posts' = [posts EXCEPT ![cmd[w]] = @ + 1]
        /\ UNCHANGED <<bucket, runs>>
    BY <1>3 DEF PostFeedback, IInv, TypeOK, OwnsClaim, RetryCountsPosts,
                Owning, Locked
  <2>2. posts[cmd[w]] < FeedbackRetries + 2
    BY <2>1, IntakeConstants
  <2>3. Ledger!AnswerOnce(cmd[w])
    BY <2>1, <2>2 DEF Ledger!AnswerOnce
  <2> QED BY <2>1, <2>3 DEF Ledger!LedgerNext
<1>4. ASSUME NEW w \in Workers,
             \/ \E c \in Commands : Deliver(w, c)
             \/ Timeout(w) \/ AcquireLock(w) \/ GetAgent(w) \/ Register(w)
             \/ StartRun(w) \/ Release(w) \/ Respond(w)
      PROVE  Still
  BY <1>4 DEF Deliver, Timeout, AcquireLock, GetAgent, Register, StartRun,
              Release, Respond, effects
<1>5. ASSUME NEW c \in Commands, Expire(c) PROVE Still
  BY <1>5 DEF Expire, effects
<1>6. ASSUME NEW i \in Instances, Crash(i) PROVE Still
  BY <1>6 DEF Crash, effects
<1>7. CASE UNCHANGED vars
  BY <1>7 DEF vars, Ledger!ledger
<1>8. Still => [Ledger!LedgerNext]_(Ledger!ledger)
  BY DEF Ledger!ledger
<1> QED
  BY <1>1, <1>2, <1>3, <1>4, <1>5, <1>6, <1>7, <1>8 DEF Next, WorkerStep

\* The intake, with all its threads, retries and faults, implements the
\* ledger: at most one owner, one execution and a bounded number of answers.
THEOREM ImplementsLedger == Spec => LedgerSpec
<1>1. Init => Ledger!LedgerInit
  BY DEF Init, Ledger!LedgerInit
<1> QED BY <1>1, Invariance, StepRefines, PTL
        DEF Spec, LedgerSpec, Ledger!LedgerSpec

-----------------------------------------------------------------------------
(* Expiry.                                                                 *)

\* A step neither executes an expired command no worker was executing nor
\* brings a worker to execute it: StartRun is the only way there.
LEMMA StepExpired ==
  ASSUME TypeOK, [Next]_vars,
         NEW c \in expired, Kind[c] # "query", ~Executing(c)
  PROVE  runs'[c] = runs[c] /\ ~Executing(c)'
<1> USE IntakeConstants
    DEF TypeOK, Executing, GoTo, Smooth, Inject, Steps, effects, worker
<1>1. ASSUME NEW w \in Workers, NEW d \in Commands, Deliver(w, d)
      PROVE  runs'[c] = runs[c] /\ ~Executing(c)'
  BY <1>1 DEF Deliver, FirstStep
<1>2. ASSUME NEW w \in Workers, Claim(w)
      PROVE  runs'[c] = runs[c] /\ ~Executing(c)'
  BY <1>2 DEF Claim, ClaimWon, ClaimLost, ClaimReplyLost, ClaimFailed
<1>3. ASSUME NEW w \in Workers, AcquireLock(w) \/ GetAgent(w) \/ Register(w)
      PROVE  runs'[c] = runs[c] /\ ~Executing(c)'
  BY <1>3 DEF AcquireLock, GetAgent, Register
<1>4. ASSUME NEW w \in Workers, StartRun(w)
      PROVE  runs'[c] = runs[c] /\ ~Executing(c)'
  BY <1>4 DEF StartRun, TooLate
<1>5. ASSUME NEW w \in Workers, Execute(w)
      PROVE  runs'[c] = runs[c] /\ ~Executing(c)'
  <2>1. cmd[w] # c
    BY <1>5 DEF Execute
  <2>2. PICK step \in {"report", "release"} : GoTo(w, step)
    BY <1>5 DEF Execute
  <2>3. runs'[c] = runs[c] /\ cmd' = cmd
    BY <1>5, <2>1 DEF Execute
  <2> QED BY <2>2, <2>3
<1>6. ASSUME NEW w \in Workers, PostFeedback(w)
      PROVE  runs'[c] = runs[c] /\ ~Executing(c)'
  BY <1>6 DEF PostFeedback
<1>7. ASSUME NEW w \in Workers, Release(w) \/ Respond(w)
      PROVE  runs'[c] = runs[c] /\ ~Executing(c)'
  BY <1>7 DEF Release, Respond
<1>8. ASSUME NEW w \in Workers, Timeout(w)
      PROVE  runs'[c] = runs[c] /\ ~Executing(c)'
  BY <1>8 DEF Timeout
<1>9. ASSUME NEW d \in Commands, Expire(d)
      PROVE  runs'[c] = runs[c] /\ ~Executing(c)'
  BY <1>9 DEF Expire
<1>10. ASSUME NEW i \in Instances, Crash(i)
       PROVE  runs'[c] = runs[c] /\ ~Executing(c)'
  BY <1>10 DEF Crash
<1>11. CASE UNCHANGED vars
  BY <1>11 DEF vars
<1> QED BY <1>1, <1>2, <1>3, <1>4, <1>5, <1>6, <1>7, <1>8, <1>9, <1>10, <1>11
        DEF Next, WorkerStep

\* An expired command that is not being executed never is (run()'s check of
\* expire_at, base.py).
THEOREM ExpiredStaysRefused == Spec => ExpiredIsRefused
<1>1. TypeOK /\ [Next]_vars =>
        [\A c \in expired : Kind[c] # "query" /\ ~Executing(c)
            => runs'[c] = runs[c] /\ ~Executing(c)']_vars
  BY StepExpired
<1> QED BY TypeCorrect, <1>1, PTL DEF Spec, ExpiredIsRefused
-----------------------------------------------------------------------------
(* No claimed command is lost: the other half of AtMostOnce.               *)

\* Only a storage error lets a worker answer for a command of its service
\* that nobody has claimed.
RespondsToClaimed ==
  \A w \in Workers :
    pc[w] = "respond" /\ FirstStep(Home(w), cmd[w]) = "claim" => bucket[cmd[w]] # Absent

\* The faults that lose a claimed command are absent: no process dies, no
\* claim succeeds unnoticed, no storage or login error.  Duplicates, slow
\* requests, failing feedback and expiry remain.
Dependable == Faults \cap {"crash", "lost_reply", "gcs_error", "login_error"} = {}

\* A service claims only what it may serve, and past the claim the object is
\* that of the worker's own service.
ClaimsAreOwn ==
  /\ \A w \in Workers : pc[w] \in Owning => bucket[cmd[w]] = Home(w)
  /\ \A c \in Commands : bucket[c] # Absent => FirstStep(bucket[c], c) = "claim"

\* A command in a _cmd_history is past _register_command in every thread, so
\* that its owner is never sent away as a duplicate of itself.
HistoryIsPast ==
  \A i \in Instances : \A c \in history[i] :
    /\ bucket[c] # Absent
    /\ \A w \in Workers : cmd[w] = c => pc[w] \notin {"lock", "agent", "register"}

\* The claimed command of an agent every claimant has an account for.
Serveable(c) == Kind[c] \in {"trade", "query"} /\ ServedWhereAccepted(c)

ClaimedIsHandled ==
  \A c \in Commands : bucket[c] # Absent /\ Serveable(c) => Handled(c)

CarryInv == ClaimsAreOwn /\ HistoryIsPast /\ ClaimedIsHandled

\* Acknowledging happens in Respond alone, which a worker reaches with its
\* command claimed, by itself or by the owner of the object it met.
LEMMA AckStep ==
  ASSUME "gcs_error" \notin Faults, IInv, ClaimErrorIsRetried, RespondsToClaimed,
         [Next]_vars
  PROVE  ClaimErrorIsRetried' /\ RespondsToClaimed'
<1> USE IntakeConstants DEF GoTo, Raise, Smooth, Inject, effects, worker
<1>0. /\ TypeOK
      /\ \A s, c : FirstStep(s, c)' = FirstStep(s, c)
  BY DEF IInv, FirstStep, SkippedBeforeClaim, ForOtherAgent
<1>1. ASSUME UNCHANGED <<backlog, bucket>>,
             \A w \in Workers : pc'[w] = "respond" =>
               \/ pc[w] = "respond" /\ cmd'[w] = cmd[w]
               \/ bucket[cmd'[w]] # Absent
               \/ FirstStep(Home(w), cmd'[w]) # "claim"
      PROVE  ClaimErrorIsRetried' /\ RespondsToClaimed'
  BY <1>0, <1>1 DEF ClaimErrorIsRetried, RespondsToClaimed, Home
<1>2. ASSUME NEW w \in Workers, NEW c \in Commands, Deliver(w, c)
      PROVE  ClaimErrorIsRetried' /\ RespondsToClaimed'
  BY <1>0, <1>1, <1>2 DEF Deliver, TypeOK
<1>3. ASSUME NEW w \in Workers, Claim(w)
      PROVE  ClaimErrorIsRetried' /\ RespondsToClaimed'
  <2>1. CASE ClaimLost(w)
    BY <1>0, <1>1, <2>1 DEF ClaimLost, Precondition, TypeOK
  <2>2. CASE ClaimWon(w) \/ ClaimReplyLost(w)
    <3>1. /\ backlog' = backlog /\ cmd' = cmd
          /\ bucket' = [bucket EXCEPT ![cmd[w]] = Home(w)]
          /\ \A v \in Workers : pc'[v] = "respond" => pc[v] = "respond" \/ v = w
      BY <1>0, <2>2 DEF ClaimWon, ClaimReplyLost, TypeOK
    <3>2. pc[w] = "claim" /\ cmd[w] \in Commands /\ Home(w) # Absent
      BY <1>0, <2>2 DEF ClaimWon, ClaimReplyLost, TypeOK, Home
    <3>3. \A d : bucket[d] # Absent => bucket'[d] # Absent
      BY <1>0, <3>1, <3>2 DEF TypeOK
    <3>4. bucket'[cmd[w]] # Absent
      BY <1>0, <3>1, <3>2 DEF TypeOK
    <3> QED BY <1>0, <3>1, <3>3, <3>4 DEF ClaimErrorIsRetried, RespondsToClaimed, Home
  <2>3. ~ClaimFailed(w)
    BY DEF ClaimFailed
  <2> QED BY <1>3, <2>1, <2>2, <2>3 DEF Claim
<1>4. ASSUME NEW w \in Workers,
             AcquireLock(w) \/ GetAgent(w) \/ Register(w) \/ StartRun(w) \/ Execute(w)
               \/ PostFeedback(w) \/ Timeout(w)
      PROVE  ClaimErrorIsRetried' /\ RespondsToClaimed'
  <2>1. /\ UNCHANGED <<backlog, bucket, cmd>>
        /\ \A v \in Workers : pc'[v] = "respond" => pc[v] = "respond"
    BY <1>0, <1>4 DEF AcquireLock, GetAgent, Register, StartRun, Execute,
                      PostFeedback, Timeout, TypeOK
  <2> QED BY <1>1, <2>1
<1>5. ASSUME NEW w \in Workers, Release(w)
      PROVE  ClaimErrorIsRetried' /\ RespondsToClaimed'
  <2>1. bucket[cmd[w]] # Absent
    BY <1>5 DEF Release, IInv, OwnsClaim, Owning, Locked
  <2> QED BY <1>0, <1>1, <1>5, <2>1 DEF Release, TypeOK
<1>6. ASSUME NEW w \in Workers, Respond(w)
      PROVE  ClaimErrorIsRetried' /\ RespondsToClaimed'
  <2>1. /\ bucket' = bucket
        /\ \A v \in Workers : pc'[v] = "respond" => pc[v] = "respond" /\ cmd'[v] = cmd[v]
    BY <1>0, <1>6 DEF Respond, TypeOK
  <2>2. \A s \in Services :
          \/ backlog'[s] = backlog[s]
          \/ s = Home(w) /\ backlog'[s] = backlog[s] \ {cmd[w]}
    BY <1>0, <1>6 DEF Respond, TypeOK
  <2>3. FirstStep(Home(w), cmd[w]) = "claim" => bucket[cmd[w]] # Absent
    BY <1>6 DEF Respond, RespondsToClaimed
  <2> QED BY <1>0, <2>1, <2>2, <2>3 DEF ClaimErrorIsRetried, RespondsToClaimed, Home
<1>7. ASSUME NEW c \in Commands, Expire(c)
      PROVE  ClaimErrorIsRetried' /\ RespondsToClaimed'
  BY <1>1, <1>7 DEF Expire
<1>8. ASSUME NEW i \in Instances, Crash(i)
      PROVE  ClaimErrorIsRetried' /\ RespondsToClaimed'
  <2>1. \A w \in Workers : pc'[w] = "respond" => pc[w] = "respond" /\ cmd'[w] = cmd[w]
    BY <1>0, <1>8 DEF Crash, TypeOK
  <2> QED BY <1>1, <1>8, <2>1 DEF Crash
<1>9. CASE UNCHANGED vars
  BY <1>1, <1>9 DEF vars
<1> QED BY <1>2, <1>3, <1>4, <1>5, <1>6, <1>7, <1>8, <1>9 DEF Next, WorkerStep

\* A storage error is the only way a service drops a command unclaimed: with
\* crashes, lost replies, failed logins and timeouts, but without it, what
\* try_claim_command's docstring says (main.py:99-105) is true.
THEOREM OnlyClaimErrorsLose ==
  ASSUME "gcs_error" \notin Faults PROVE Spec => []ClaimErrorIsRetried
<1>1. Init => ClaimErrorIsRetried /\ RespondsToClaimed
  BY DEF Init, ClaimErrorIsRetried, RespondsToClaimed
<1>2. IInv /\ ClaimErrorIsRetried /\ RespondsToClaimed /\ [Next]_vars
        => ClaimErrorIsRetried' /\ RespondsToClaimed'
  BY AckStep
<1> QED BY <1>1, <1>2, Invariance, PTL DEF Spec

\* While the claims, the executions and the expiries stand, a command stays
\* handled as long as the workers that carry it do.
LEMMA StaysHandled ==
  ASSUME UNCHANGED runs, expired \subseteq expired',
         \A w \in Workers : pc[w] \in Unanswered =>
           pc'[w] \in Unanswered /\ cmd'[w] = cmd[w],
         NEW c \in Commands, Handled(c)
  PROVE  Handled(c)'
  BY DEF Handled, Unanswered

\* A step that leaves the claims and histories alone and moves no worker
\* before or out of its claimed command keeps the carried commands carried.
LEMMA StillCarried ==
  ASSUME IInv, CarryInv, UNCHANGED <<bucket, history, runs>>, expired \subseteq expired',
         \A w \in Workers : pc[w] \in Unanswered =>
           pc'[w] \in Unanswered /\ cmd'[w] = cmd[w],
         \A w \in Workers : pc'[w] \in Owning =>
           pc[w] \in Owning /\ cmd'[w] = cmd[w],
         \A w \in Workers : pc'[w] \in {"lock", "agent", "register"} =>
           pc[w] \in {"lock", "agent", "register"} /\ cmd'[w] = cmd[w]
  PROVE  CarryInv'
<1>1. ClaimsAreOwn'
  <2>1. \A s, c : FirstStep(s, c)' = FirstStep(s, c)
    BY DEF FirstStep, SkippedBeforeClaim, ForOtherAgent
  <2> QED BY <2>1 DEF CarryInv, ClaimsAreOwn, Home
<1>2. HistoryIsPast'
  BY DEF CarryInv, HistoryIsPast
<1>3. ClaimedIsHandled'
  <2>1. \A c : Serveable(c)' = Serveable(c)
    BY DEF Serveable, ServedWhereAccepted, ForOtherAgent
  <2> QED BY <2>1, StaysHandled DEF CarryInv, ClaimedIsHandled
<1> QED BY <1>1, <1>2, <1>3 DEF CarryInv

\* The claim makes a worker carry a command no history holds.
LEMMA ClaimCarries ==
  ASSUME IInv, CarryInv, NEW w \in Workers, ClaimWon(w)
  PROVE  CarryInv'
<1> USE IntakeConstants DEF Smooth, effects, worker
<1>0. /\ TypeOK /\ OneOwner
      /\ \A s, c : FirstStep(s, c)' = FirstStep(s, c)
      /\ \A c : Serveable(c)' = Serveable(c)
  BY DEF IInv, FirstStep, SkippedBeforeClaim, ForOtherAgent, Serveable, ServedWhereAccepted
<1>1. /\ UNCHANGED <<history, cmd, runs, expired>>
      /\ pc' = [pc EXCEPT ![w] = "lock"]
      /\ bucket' = [bucket EXCEPT ![cmd[w]] = Home(w)]
      /\ pc[w] = "claim" /\ bucket[cmd[w]] = Absent
  BY DEF ClaimWon, GoTo, Precondition
<1>2. cmd[w] \in Commands /\ Home(w) \in Services /\ FirstStep(Home(w), cmd[w]) = "claim"
  BY <1>0, <1>1 DEF TypeOK, Home, IInv, ClaimsItsOwn
<1>3. \A c \in Commands : c # cmd[w] => bucket'[c] = bucket[c]
  BY <1>0, <1>1 DEF TypeOK
<1>4. bucket'[cmd[w]] = Home(w) /\ Home(w) # Absent
  BY <1>0, <1>1, <1>2 DEF TypeOK
<1>5. \A v \in Workers : v # w => pc'[v] = pc[v]
  BY <1>0, <1>1 DEF TypeOK
<1>6. pc'[w] = "lock"
  BY <1>0, <1>1 DEF TypeOK
<1>7. ClaimsAreOwn'
  <2>1. \A v \in Workers : pc'[v] \in Owning => bucket'[cmd[v]] = Home(v)
    <3> SUFFICES ASSUME NEW v \in Workers, v # w, pc[v] \in Owning
                 PROVE  bucket'[cmd[v]] = Home(v)
      BY <1>4, <1>5
    <3>1. bucket[cmd[v]] = Home(v) /\ bucket[cmd[v]] # Absent
      BY DEF CarryInv, ClaimsAreOwn, IInv, OwnsClaim
    <3>2. cmd[v] \in Commands
      BY <1>0 DEF TypeOK, Owning, Locked
    <3> QED BY <1>1, <1>3, <3>1, <3>2
  <2>2. \A c \in Commands : bucket'[c] # Absent => FirstStep(bucket'[c], c) = "claim"
    BY <1>2, <1>3, <1>4 DEF CarryInv, ClaimsAreOwn
  <2> QED BY <1>0, <1>1, <2>1, <2>2 DEF ClaimsAreOwn, Home
<1>8. HistoryIsPast'
  <2> SUFFICES ASSUME NEW i \in Instances, NEW c \in history[i]
               PROVE  /\ bucket'[c] # Absent
                      /\ \A v \in Workers : cmd[v] = c => pc'[v] \notin {"lock", "agent", "register"}
    BY <1>1 DEF HistoryIsPast
  <2>1. /\ bucket[c] # Absent /\ c \in Commands
        /\ \A v \in Workers : cmd[v] = c => pc[v] \notin {"lock", "agent", "register"}
    BY <1>0 DEF CarryInv, HistoryIsPast, TypeOK
  <2> QED BY <1>1, <1>3, <1>5, <2>1
<1>9. ClaimedIsHandled'
  <2> SUFFICES ASSUME NEW c \in Commands, bucket'[c] # Absent, Serveable(c)
               PROVE  Handled(c)'
    BY <1>0 DEF ClaimedIsHandled
  <2>1. CASE c = cmd[w]
    BY <1>1, <1>6, <2>1 DEF Handled
  <2>2. CASE c # cmd[w]
    <3>1. Handled(c)
      BY <1>3, <2>2 DEF CarryInv, ClaimedIsHandled
    <3>2. \A v \in Workers : pc[v] \in Unanswered => pc'[v] \in Unanswered /\ cmd'[v] = cmd[v]
      BY <1>1, <1>5, <1>6 DEF Unanswered
    <3> QED BY <1>1, <3>1, <3>2, StaysHandled
  <2> QED BY <2>1, <2>2
<1> QED BY <1>7, <1>8, <1>9 DEF CarryInv

\* _register_command lets the owner of a served command pass: no history can
\* hold it yet, and its service does not take it for another's.
LEMMA RegisterCarries ==
  ASSUME IInv, CarryInv, NEW w \in Workers, Register(w)
  PROVE  CarryInv'
<1> USE IntakeConstants DEF Smooth, effects
<1>0. /\ TypeOK /\ OneOwner
      /\ \A s, c : FirstStep(s, c)' = FirstStep(s, c)
      /\ \A c : Serveable(c)' = Serveable(c)
  BY DEF IInv, FirstStep, SkippedBeforeClaim, ForOtherAgent, Serveable, ServedWhereAccepted
<1>1. /\ UNCHANGED <<bucket, cmd, runs, expired>> /\ pc[w] = "register"
      /\ cmd[w] \in Commands /\ InstanceOf[w] \in Instances
      /\ FirstStep(Home(w), cmd[w]) = "claim"
      /\ bucket[cmd[w]] # Absent
  <2>1. bucket[cmd[w]] = Home(w) /\ bucket[cmd[w]] # Absent
    BY DEF Register, CarryInv, ClaimsAreOwn, IInv, OwnsClaim, Owning, Locked
  <2> QED BY <1>0, <2>1 DEF Register, CarryInv, ClaimsAreOwn, TypeOK
<1>2. \A v \in Workers : v # w => pc'[v] = pc[v] /\ ~(pc[v] \in Owning /\ cmd[v] = cmd[w])
  BY <1>0, <1>1 DEF Register, GoTo, TypeOK, OneOwner, Owning, Locked
<1>3. /\ pc'[w] \in {"release", "start"}
      /\ Kind[cmd[w]] \in {"trade", "query"} => pc'[w] = "start"
  <2>1. ~ForOtherAgent(Home(w), cmd[w])
    BY <1>1 DEF FirstStep, SkippedBeforeClaim
  <2>2. cmd[w] \notin history[InstanceOf[w]]
    BY <1>1 DEF CarryInv, HistoryIsPast
  <2> QED BY <1>0, <1>1, <2>1, <2>2 DEF Register, GoTo, TypeOK
<1>4. /\ \A i \in Instances : history'[i] \subseteq history[i] \cup {cmd[w]}
  BY <1>0, <1>1 DEF Register, TypeOK
<1>5. ClaimsAreOwn'
  BY <1>0, <1>1, <1>2, <1>3 DEF CarryInv, ClaimsAreOwn, Home, Owning, Locked
<1>6. HistoryIsPast'
  <2> SUFFICES ASSUME NEW i \in Instances, NEW c \in history'[i]
               PROVE  /\ bucket[c] # Absent
                      /\ \A v \in Workers : cmd[v] = c => pc'[v] \notin {"lock", "agent", "register"}
    BY <1>1 DEF HistoryIsPast
  <2>1. CASE c \in history[i]
    BY <1>1, <1>2, <1>3, <2>1 DEF CarryInv, HistoryIsPast
  <2>2. CASE c = cmd[w]
    BY <1>1, <1>2, <1>3, <2>2 DEF Owning, Locked
  <2> QED BY <1>4, <2>1, <2>2
<1>7. ClaimedIsHandled'
  <2> SUFFICES ASSUME NEW c \in Commands, bucket[c] # Absent, Serveable(c)
               PROVE  Handled(c)'
    BY <1>0, <1>1 DEF ClaimedIsHandled
  <2>1. Handled(c)
    BY DEF CarryInv, ClaimedIsHandled
  <2>2. CASE c = cmd[w]
    BY <1>1, <1>3, <2>2 DEF Handled, Serveable
  <2>3. CASE c # cmd[w]
    BY <1>1, <1>2, <2>1, <2>3 DEF Handled
  <2> QED BY <2>2, <2>3
<1> QED BY <1>5, <1>6, <1>7 DEF CarryInv

\* Execute reaches the broker with a served command: its service has the
\* account, and no login fails.
LEMMA ExecuteCarries ==
  ASSUME Dependable, IInv, CarryInv, NEW w \in Workers, Execute(w)
  PROVE  CarryInv'
<1> USE IntakeConstants DEF effects
<1>0. /\ TypeOK
      /\ \A s, c : FirstStep(s, c)' = FirstStep(s, c)
      /\ \A c : Serveable(c)' = Serveable(c)
  BY DEF IInv, FirstStep, SkippedBeforeClaim, ForOtherAgent, Serveable, ServedWhereAccepted
<1>1. /\ UNCHANGED <<bucket, history, cmd, expired>> /\ pc[w] = "execute"
      /\ cmd[w] \in Commands
  BY <1>0 DEF Execute, TypeOK
<1>2. /\ pc'[w] \in {"report", "release"}
      /\ \A v \in Workers : v # w => pc'[v] = pc[v]
  BY <1>0 DEF Execute, GoTo, TypeOK
<1>3. \A c \in Commands : c # cmd[w] => runs'[c] = runs[c]
  BY <1>0 DEF Execute, TypeOK
<1>4. Serveable(cmd[w]) => runs'[cmd[w]] = 1
  <2> SUFFICES ASSUME Serveable(cmd[w]) PROVE runs'[cmd[w]] = 1
    OBVIOUS
  <2>1. bucket[cmd[w]] = Home(w) /\ bucket[cmd[w]] # Absent
    BY <1>1 DEF CarryInv, ClaimsAreOwn, IInv, OwnsClaim, Owning, Locked
  <2>2. FirstStep(Home(w), cmd[w]) = "claim" /\ Home(w) \in Services
    BY <1>1, <2>1 DEF CarryInv, ClaimsAreOwn, Home
  <2>3. HasAccount(w)
    BY <2>2 DEF FirstStep, SkippedBeforeClaim, Serveable, ServedWhereAccepted, HasAccount
  <2>4. runs' = [runs EXCEPT ![cmd[w]] = @ + 1]
    BY <2>3 DEF Execute, Dependable, Inject, Serveable
  <2>5. runs[cmd[w]] = 0
    BY <1>1 DEF IInv, OwnerIsFirst, Unanswered
  <2> QED BY <1>0, <1>1, <2>4, <2>5 DEF TypeOK
<1>5. ClaimsAreOwn'
  BY <1>0, <1>1, <1>2 DEF CarryInv, ClaimsAreOwn, Home, Owning, Locked
<1>6. HistoryIsPast'
  BY <1>0, <1>1, <1>2 DEF CarryInv, HistoryIsPast
<1>7. ClaimedIsHandled'
  <2> SUFFICES ASSUME NEW c \in Commands, bucket[c] # Absent, Serveable(c)
               PROVE  Handled(c)'
    BY <1>0, <1>1 DEF ClaimedIsHandled
  <2>1. Handled(c)
    BY DEF CarryInv, ClaimedIsHandled
  <2>2. CASE c = cmd[w]
    BY <1>4, <2>2 DEF Handled
  <2>3. CASE c # cmd[w]
    BY <1>1, <1>2, <1>3, <2>1, <2>3 DEF Handled
  <2> QED BY <2>2, <2>3
<1> QED BY <1>5, <1>6, <1>7 DEF CarryInv

\* run() answers without executing only an expired command or a CHECK_AGENT.
LEMMA StartCarries ==
  ASSUME IInv, CarryInv, NEW w \in Workers, StartRun(w)
  PROVE  CarryInv'
<1> USE IntakeConstants DEF Smooth, effects, worker
<1>0. /\ TypeOK
      /\ \A s, c : FirstStep(s, c)' = FirstStep(s, c)
      /\ \A c : Serveable(c)' = Serveable(c)
  BY DEF IInv, FirstStep, SkippedBeforeClaim, ForOtherAgent, Serveable, ServedWhereAccepted
<1>1. /\ UNCHANGED <<bucket, history, cmd, runs, expired>> /\ pc[w] = "start"
      /\ cmd[w] \in Commands
      /\ pc'[w] \in {"report", "execute"}
      /\ \A v \in Workers : v # w => pc'[v] = pc[v]
      /\ pc'[w] = "report" => TooLate(cmd[w]) \/ Kind[cmd[w]] = "chat"
  BY <1>0 DEF StartRun, GoTo, TypeOK
<1>2. ClaimsAreOwn' /\ HistoryIsPast'
  BY <1>0, <1>1 DEF CarryInv, ClaimsAreOwn, HistoryIsPast, Home, Owning, Locked
<1>3. ClaimedIsHandled'
  <2> SUFFICES ASSUME NEW c \in Commands, bucket[c] # Absent, Serveable(c)
               PROVE  Handled(c)'
    BY <1>0, <1>1 DEF ClaimedIsHandled
  <2>1. Handled(c)
    BY DEF CarryInv, ClaimedIsHandled
  <2>2. CASE c = cmd[w]
    BY <1>1, <2>2 DEF Handled, Serveable, TooLate
  <2>3. CASE c # cmd[w]
    BY <1>1, <2>1, <2>3 DEF Handled
  <2> QED BY <2>2, <2>3
<1> QED BY <1>2, <1>3 DEF CarryInv

\* Every step of a dependable run keeps each claimed command handled.
LEMMA CarryStep ==
  ASSUME Dependable, IInv, CarryInv, [Next]_vars
  PROVE  CarryInv'
<1> USE IntakeConstants DEF GoTo, Smooth, Inject, effects, worker
<1>0. TypeOK
  BY DEF IInv
<1>1. ASSUME NEW w \in Workers, NEW c \in Commands, Deliver(w, c) PROVE CarryInv'
  BY <1>0, <1>1, StillCarried DEF Deliver, FirstStep, TypeOK, Owning, Unanswered, Locked
<1>2. ASSUME NEW w \in Workers, Claim(w) PROVE CarryInv'
  <2>1. ~ClaimReplyLost(w) /\ ~ClaimFailed(w)
    BY DEF ClaimReplyLost, ClaimFailed, Dependable
  <2>2. CASE ClaimWon(w)
    BY <2>2, ClaimCarries
  <2>3. CASE ClaimLost(w)
    BY <1>0, <2>3, StillCarried DEF ClaimLost, TypeOK, Owning, Unanswered, Locked
  <2> QED BY <1>2, <2>1, <2>2, <2>3 DEF Claim
<1>3. ASSUME NEW w \in Workers, AcquireLock(w) PROVE CarryInv'
  BY <1>0, <1>3, StillCarried DEF AcquireLock, TypeOK, Owning, Unanswered, Locked
<1>4. ASSUME NEW w \in Workers, GetAgent(w) PROVE CarryInv'
  BY <1>0, <1>4, StillCarried DEF GetAgent, Dependable, TypeOK, Owning, Unanswered, Locked
<1>5. ASSUME NEW w \in Workers, Register(w) PROVE CarryInv'
  BY <1>5, RegisterCarries
<1>6. ASSUME NEW w \in Workers, StartRun(w) PROVE CarryInv'
  BY <1>6, StartCarries
<1>7. ASSUME NEW w \in Workers, Execute(w) PROVE CarryInv'
  BY <1>7, ExecuteCarries
<1>8. ASSUME NEW w \in Workers, PostFeedback(w) \/ Release(w) \/ Respond(w) PROVE CarryInv'
  BY <1>0, <1>8, StillCarried
  DEF PostFeedback, Release, Respond, TypeOK, Owning, Unanswered, Locked
<1>9. ASSUME NEW w \in Workers, Timeout(w) PROVE CarryInv'
  BY <1>9, StillCarried DEF Timeout
<1>10. ASSUME NEW c \in Commands, Expire(c) PROVE CarryInv'
  BY <1>10, StillCarried DEF Expire
<1>11. ASSUME NEW i \in Instances PROVE ~Crash(i)
  BY DEF Crash, Dependable
<1>12. CASE UNCHANGED vars
  BY <1>12, StillCarried DEF vars
<1> QED BY <1>1, <1>2, <1>3, <1>4, <1>5, <1>6, <1>7, <1>8, <1>9, <1>10, <1>11,
           <1>12 DEF Next, WorkerStep

\* Without a crash, a lost reply, a storage or a login error a command that a
\* subscription has dropped was executed, has expired or is on its way to the
\* broker: with ExecutedAtMostOnce, main.py's claim gives exactly once.
THEOREM NoAcknowledgedCommandIsLost ==
  ASSUME Dependable PROVE Spec => []AcknowledgedIsHandled
<1>1. Init => CarryInv
  BY DEF Init, CarryInv, ClaimsAreOwn, HistoryIsPast, ClaimedIsHandled, Owning, Locked
<1>2. IInv /\ CarryInv /\ [Next]_vars => CarryInv'
  BY CarryStep
<1>3. TypeOK /\ ClaimErrorIsRetried /\ CarryInv => AcknowledgedIsHandled
  <2> SUFFICES ASSUME TypeOK, ClaimErrorIsRetried, CarryInv,
                      NEW s \in Services, NEW c \in Commands,
                      Kind[c] \in {"trade", "query"}, ServedWhereAccepted(c),
                      Addressee[c] \in Roster[s], c \notin backlog[s]
               PROVE  Handled(c)
    BY DEF AcknowledgedIsHandled
  <2>1. FirstStep(s, c) = "claim"
    BY DEF FirstStep, SkippedBeforeClaim, ForOtherAgent
  <2>2. bucket[c] # Absent
    BY <2>1 DEF ClaimErrorIsRetried
  <2> QED BY <2>2 DEF CarryInv, ClaimedIsHandled, Serveable
<1>4. "gcs_error" \notin Faults
  BY DEF Dependable
<1>5. Spec => []ClaimErrorIsRetried
  BY <1>4, OnlyClaimErrorsLose
<1> QED BY <1>1, <1>2, <1>3, <1>5, Invariance, TypeCorrect, PTL DEF Spec

-----------------------------------------------------------------------------
(* Nothing is stuck: the lock has a holder, and requests run down.         *)

\* A lock that is not free is held by a thread of its process that is inside
\* the with block.
LockHasHolder ==
  \A i \in Instances : lock[i] # Nobody =>
    /\ lock[i] \in Workers /\ InstanceOf[lock[i]] = i
    /\ pc[lock[i]] \in Locked

\* Threads inside the with block stay there, and the lock stays as it is.
LEMMA HolderStays ==
  ASSUME LockHasHolder, UNCHANGED lock,
         \A w \in Workers : pc[w] \in Locked => pc'[w] \in Locked
  PROVE  LockHasHolder'
  BY DEF LockHasHolder

LEMMA HolderStep == TypeOK /\ HoldsLock /\ LockHasHolder /\ [Next]_vars => LockHasHolder'
<1> SUFFICES ASSUME TypeOK, HoldsLock, LockHasHolder, [Next]_vars PROVE LockHasHolder'
  OBVIOUS
<1> USE IntakeConstants DEF GoTo, Locked
<1>1. ASSUME NEW w \in Workers, NEW c \in Commands, Deliver(w, c) PROVE LockHasHolder'
  BY <1>1, HolderStays DEF Deliver, TypeOK
<1>2. ASSUME NEW w \in Workers, Claim(w) PROVE LockHasHolder'
  BY <1>2, HolderStays DEF Claim, ClaimWon, ClaimLost, ClaimReplyLost, ClaimFailed, TypeOK
<1>3. ASSUME NEW w \in Workers, AcquireLock(w) PROVE LockHasHolder'
  <2>1. /\ lock' = [lock EXCEPT ![InstanceOf[w]] = w] /\ pc' = [pc EXCEPT ![w] = "agent"]
        /\ pc[w] = "lock"
    BY <1>3 DEF AcquireLock
  <2>2. pc \in [Workers -> Steps] /\ lock \in [Instances -> Workers \cup {Nobody}]
    BY DEF TypeOK
  <2> QED BY <2>1, <2>2 DEF LockHasHolder
<1>4. ASSUME NEW w \in Workers,
             GetAgent(w) \/ Register(w) \/ StartRun(w) \/ Execute(w) \/ PostFeedback(w)
      PROVE  LockHasHolder'
  <2>1. UNCHANGED lock
    BY <1>4 DEF GetAgent, Register, StartRun, Execute, PostFeedback
  <2>2. pc' = pc \/ \E step \in Locked : pc' = [pc EXCEPT ![w] = step]
    BY <1>4 DEF GetAgent, Register, StartRun, Execute, PostFeedback
  <2> QED BY <2>1, <2>2, HolderStays DEF TypeOK
<1>5. ASSUME NEW w \in Workers, Release(w) PROVE LockHasHolder'
  <2>1. /\ lock' = [lock EXCEPT ![InstanceOf[w]] = Nobody]
        /\ pc' = [pc EXCEPT ![w] = "respond"]
    BY <1>5 DEF Release, FreedLock
  <2>2. pc \in [Workers -> Steps] /\ lock \in [Instances -> Workers \cup {Nobody}]
    BY DEF TypeOK
  <2>3. ASSUME NEW i \in Instances, lock'[i] # Nobody
        PROVE  lock'[i] = lock[i] /\ lock[i] # w
    BY <2>1, <2>2, <2>3 DEF LockHasHolder
  <2> QED BY <2>1, <2>2, <2>3 DEF LockHasHolder
<1>6. ASSUME NEW w \in Workers, Respond(w) PROVE LockHasHolder'
  BY <1>6, HolderStays DEF Respond, TypeOK
<1>7. ASSUME NEW w \in Workers, Timeout(w) PROVE LockHasHolder'
  BY <1>7, HolderStays DEF Timeout
<1>8. ASSUME NEW c \in Commands, Expire(c) PROVE LockHasHolder'
  BY <1>8, HolderStays DEF Expire
<1>9. ASSUME NEW i \in Instances, Crash(i) PROVE LockHasHolder'
  <2>1. /\ lock' = [lock EXCEPT ![i] = Nobody]
        /\ pc' = [w \in Workers |-> IF InstanceOf[w] = i THEN "idle" ELSE pc[w]]
    BY <1>9 DEF Crash
  <2>2. lock \in [Instances -> Workers \cup {Nobody}]
    BY DEF TypeOK
  <2> QED BY <2>1, <2>2 DEF LockHasHolder
<1>10. CASE UNCHANGED vars
  BY <1>10, HolderStays DEF vars
<1> QED BY <1>1, <1>2, <1>3, <1>4, <1>5, <1>6, <1>7, <1>8, <1>9, <1>10
        DEF Next, WorkerStep

\* Whoever waits for _order_agent_lock waits for a living thread inside the
\* with block: no exception, failed login or crash leaves the lock behind.
THEOREM LockIsNeverAbandoned == Spec => []LockHasHolder
<1>1. Init => LockHasHolder
  BY DEF Init, LockHasHolder
<1>2. IInv /\ LockHasHolder /\ [Next]_vars => LockHasHolder'
  BY HolderStep DEF IInv
<1> QED BY <1>1, <1>2, Invariance, PTL DEF Spec

\* The steps thread w takes at most until it has answered its request.
StepsLeft(w) ==
  CASE pc[w] = "idle" -> 0
    [] pc[w] = "respond" -> 1
    [] pc[w] = "release" -> 2
    [] pc[w] = "report" -> FeedbackRetries + 4 - retry[w]
    [] pc[w] = "execute" -> FeedbackRetries + 5
    [] pc[w] = "start" -> FeedbackRetries + 6
    [] pc[w] = "register" -> FeedbackRetries + 7
    [] pc[w] = "agent" -> FeedbackRetries + 8
    [] pc[w] = "lock" -> FeedbackRetries + 9
    [] pc[w] = "claim" -> FeedbackRetries + 10

\* No step of another thread, of Pub/Sub or of the world adds to what a
\* request still takes, and each of its own takes something off.
RequestsRunDown ==
  [][\A w \in Workers : /\ pc[w] # "idle" => StepsLeft(w)' <= StepsLeft(w)
                        /\ WorkerStep(w) => StepsLeft(w)' < StepsLeft(w)]_vars

\* The number is one.
LEMMA StepsLeftIsNat ==
  ASSUME TypeOK, NEW w \in Workers PROVE StepsLeft(w) \in Nat
<1>1. FeedbackRetries \in Nat /\ retry[w] \in 0..(FeedbackRetries + 1) /\ pc[w] \in Steps
  BY IntakeConstants DEF TypeOK
<1> QED BY <1>1 DEF StepsLeft, Steps

\* The worker's own steps.
LEMMA OwnStepRunsDown ==
  ASSUME TypeOK, NEW w \in Workers, WorkerStep(w)
  PROVE  /\ StepsLeft(w)' < StepsLeft(w)
         /\ \A v \in Workers \ {w} : pc'[v] = pc[v] /\ retry'[v] = retry[v]
<1> USE DEF GoTo, worker
<1>0. /\ FeedbackRetries \in Nat /\ retry[w] \in 0..(FeedbackRetries + 1)
      /\ pc \in [Workers -> Steps]
      /\ retry \in [Workers -> 0..(FeedbackRetries + 1)]
  BY IntakeConstants DEF TypeOK
<1>1. CASE Claim(w) \/ AcquireLock(w) \/ GetAgent(w) \/ StartRun(w) \/ Release(w)
  <2>1. /\ pc[w] \in {"claim", "lock", "agent", "start", "release"} /\ retry' = retry
        /\ \E step \in Steps :
             /\ pc' = [pc EXCEPT ![w] = step]
             /\ pc[w] = "claim" => step \in {"lock", "respond"}
             /\ pc[w] = "lock" => step = "agent"
             /\ pc[w] = "agent" => step \in {"register", "release"}
             /\ pc[w] = "start" => step \in {"report", "execute"}
             /\ pc[w] = "release" => step = "respond"
    BY <1>1 DEF Claim, ClaimWon, ClaimLost, ClaimReplyLost, ClaimFailed, AcquireLock,
                GetAgent, StartRun, Release, Steps
  <2> QED BY <1>0, <2>1 DEF StepsLeft
<1>2. CASE Register(w) \/ Execute(w)
  <2>1. /\ pc[w] \in {"register", "execute"} /\ retry' = retry
        /\ \E step \in Steps :
             /\ pc' = [pc EXCEPT ![w] = step]
             /\ pc[w] = "register" => step \in {"release", "start"}
             /\ pc[w] = "execute" => step \in {"report", "release"}
    BY <1>2 DEF Register, Execute, Steps
  <2> QED BY <1>0, <2>1 DEF StepsLeft
<1>3. CASE PostFeedback(w)
  <2>1. pc[w] = "report"
    BY <1>3 DEF PostFeedback
  <2>2. CASE pc' = [pc EXCEPT ![w] = "release"] /\ retry' = retry
    BY <1>0, <2>1, <2>2 DEF StepsLeft
  <2>3. CASE /\ pc' = pc /\ retry' = [retry EXCEPT ![w] = @ + 1]
    BY <1>0, <2>1, <2>3 DEF StepsLeft
  <2> QED BY <1>3, <2>2, <2>3 DEF PostFeedback
<1>4. CASE Respond(w)
  <2>1. /\ pc[w] = "respond" /\ pc' = [pc EXCEPT ![w] = "idle"]
        /\ retry' = [retry EXCEPT ![w] = 0]
    BY <1>4 DEF Respond
  <2> QED BY <1>0, <2>1 DEF StepsLeft
<1> QED BY <1>1, <1>2, <1>3, <1>4 DEF WorkerStep

\* A request takes at most FeedbackRetries + 10 steps of its thread, whatever
\* happens around it; with LockIsNeverAbandoned, what LockIsGranted and
\* BacklogDrains rest on besides fairness.
THEOREM RequestsTakeBoundedSteps ==
  Spec => RequestsRunDown /\ [](\A w \in Workers : StepsLeft(w) \in Nat)
<1> DEFINE P == \A w \in Workers : /\ pc[w] # "idle" => StepsLeft(w)' <= StepsLeft(w)
                                   /\ WorkerStep(w) => StepsLeft(w)' < StepsLeft(w)
<1>1. TypeOK /\ TypeOK' /\ [Next]_vars => [P]_vars
  <2> SUFFICES ASSUME TypeOK, TypeOK', Next PROVE P
    BY DEF vars
  <2>0. \A w \in Workers : StepsLeft(w) \in Nat /\ StepsLeft(w)' \in Nat
    <3>1. ASSUME NEW w \in Workers PROVE StepsLeft(w)' \in Nat
      <4>1. /\ FeedbackRetries \in Nat /\ retry'[w] \in 0..(FeedbackRetries + 1)
            /\ pc'[w] \in Steps
        BY IntakeConstants DEF TypeOK
      <4> QED BY <4>1 DEF StepsLeft, Steps
    <3> QED BY <3>1, StepsLeftIsNat
  <2>1. ASSUME NEW w \in Workers PROVE WorkerStep(w) => StepsLeft(w)' < StepsLeft(w)
    BY OwnStepRunsDown
  <2>2. ASSUME NEW w \in Workers, pc[w] # "idle"
        PROVE  StepsLeft(w)' <= StepsLeft(w)
    <3>1. ASSUME pc'[w] = pc[w], retry'[w] = retry[w] PROVE StepsLeft(w)' <= StepsLeft(w)
      <4>1. StepsLeft(w)' = StepsLeft(w)
        BY <3>1 DEF StepsLeft
      <4> QED BY <2>0, <4>1
    <3>2. ASSUME pc'[w] = "idle" PROVE StepsLeft(w)' <= StepsLeft(w)
      <4>1. StepsLeft(w)' = 0
        BY <3>2 DEF StepsLeft
      <4> QED BY <2>0, <4>1
    <3>3. ASSUME NEW v \in Workers, NEW c \in Commands, Deliver(v, c)
          PROVE  pc'[w] = pc[w] /\ retry'[w] = retry[w]
      BY <2>2, <3>3 DEF Deliver, GoTo, TypeOK
    <3>4. ASSUME NEW v \in Workers, WorkerStep(v) PROVE StepsLeft(w)' <= StepsLeft(w)
      BY <2>0, <3>1, <3>4, OwnStepRunsDown
    <3>5. ASSUME (\E v \in Workers : Timeout(v)) \/ (\E c \in Commands : Expire(c))
          PROVE  pc'[w] = pc[w] /\ retry'[w] = retry[w]
      BY <3>5 DEF Timeout, Expire, worker
    <3>6. ASSUME NEW i \in Instances, Crash(i)
          PROVE  pc'[w] = "idle" \/ (pc'[w] = pc[w] /\ retry'[w] = retry[w])
      BY <3>6 DEF Crash
    <3> QED BY <3>1, <3>2, <3>3, <3>4, <3>5, <3>6 DEF Next
  <2> QED BY <2>1, <2>2
<1>2. TypeOK => \A w \in Workers : StepsLeft(w) \in Nat
  BY StepsLeftIsNat
<1> QED BY <1>1, <1>2, TypeCorrect, PTL DEF Spec, RequestsRunDown
=============================================================================

--------------------------- MODULE Session_proofs ---------------------------
(***************************************************************************)
(* The session, for every number of agents, accounts, broker sessions,     *)
(* login retries and faults.                                               *)
(***************************************************************************)
EXTENDS Session, FiniteSets, FiniteSetTheorems, TLAPS

\* A process and a login start from a client without a session.
LoginStartsClean ==
  pc \in {"startup", "login"} => sdk = None /\ accounts = {} /\ connected = "no"

\* Accounts come from a login.
AccountsAreOfSession == accounts # {} => sdk # None

\* But for the sessions failed logouts left, of which the client's is none,
\* the broker knows the client's or none.
OnlyOwnSession == open \ leaked \subseteq {sdk} /\ sdk \notin leaked

\* From InitAgent on, the agent id is that of the command.
AgentTaken ==
  \/ pc \in {"init", "account", "trading"}
  \/ pc \in {"login", "restore"} /\ back \in {"account", "trading"}
  => agent = want

\* Only a reconnect happens in the middle of a command.
TradingReconnects == pc = "login" /\ back = "trading" => inside = "yes"

\* A logout's event is delivered within the grace.
LogoutEventsInGrace == (\E e \in pending : e[2] = "302") => grace = "yes"

IInv ==
  /\ TypeOK
  /\ LoginStartsClean
  /\ AccountsAreOfSession
  /\ OnlyOwnSession
  /\ AgentTaken
  /\ TradingReconnects
  /\ LogoutEventsInGrace
  /\ AccountFollowsAgent

\* A reset leaves a clean client, and at most one logout event more.
LEMMA ResetIsClean ==
  ASSUME IInv, NEW s \in Sessions \union {None}, NEW heard \in BOOLEAN,
         heard => s \in Sessions, SafeReset(s, heard),
         s = sdk \/ (pc = "login" /\ s \notin open)
  PROVE  /\ open' \subseteq Sessions /\ leaked' = open' /\ orphans' \subseteq leaked'
         /\ pending' \subseteq Sessions \X {"300", "302"}
         /\ sdk' = None /\ accounts' = {} /\ current' = None
         /\ connected' = "no" /\ old' = "no"
         /\ transition' = "yes" /\ grace' = "yes"
  BY SessionConstants DEF IInv, TypeOK, SafeReset, OnlyOwnSession, LoginStartsClean

\* reconnect() keeps every part of the invariant that does not name the step.
LEMMA ReconnectIsClean ==
  ASSUME IInv, NEW ret \in {"idle", "run", "account", "trading"}, Reconnect(ret)
  PROVE  /\ open' \subseteq Sessions /\ leaked' = open' /\ orphans' \subseteq leaked'
         /\ pending' \subseteq Sessions \X {"300", "302"}
         /\ sdk' = None /\ accounts' = {} /\ current' = None
         /\ connected' = "no" /\ old' = "no"
         /\ transition' = "yes" /\ grace' = "yes"
         /\ pc' = "login" /\ back' = ret /\ inside' = "yes" /\ tries' = 0
         /\ faults' \in Nat
<1>1. pc' = "login" /\ back' = ret /\ inside' = "yes" /\ tries' = 0
  BY DEF Reconnect, StartLogin
<1>2. CASE SafeReset(sdk, accounts # {}) /\ UNCHANGED faults
  <2>1. sdk \in Sessions \union {None} /\ (accounts # {} => sdk \in Sessions)
    BY DEF IInv, TypeOK, AccountsAreOfSession
  <2> QED BY <1>1, <1>2, <2>1, ResetIsClean DEF IInv, TypeOK
<1>3. CASE sdk \in open /\ Leak(sdk) /\ Inject("logout_fails")
  BY <1>1, <1>3 DEF Leak, Inject, IInv, TypeOK, OnlyOwnSession
<1> QED BY <1>2, <1>3 DEF Reconnect

LEMMA InitIInv == Init => IInv
  BY SessionConstants DEF Init, IInv, TypeOK, YesNo, LoginStartsClean,
     AccountsAreOfSession, OnlyOwnSession, AgentTaken, TradingReconnects,
     LogoutEventsInGrace, AccountFollowsAgent

\* Every step of the order thread keeps the invariant.
LEMMA ThreadIInv == IInv /\ ThreadStep => IInv'
<1> SUFFICES ASSUME IInv, ThreadStep PROVE IInv'
  OBVIOUS
<1> USE SessionConstants DEF IInv, TypeOK, YesNo, LoginStartsClean,
      AccountsAreOfSession, OnlyOwnSession, AgentTaken, TradingReconnects,
      LogoutEventsInGrace, AccountFollowsAgent
<1>1. CASE EnsureLoggedIn
  <2>1. CASE Alive /\ UNCHANGED <<broker, link, transition, grace, back, inside, tries, faults>>
    BY <1>1, <2>1 DEF EnsureLoggedIn, After, broker, link
  <2>2. CASE ~Alive /\ Reconnect(After[pc])
    BY <1>1, <2>2, ReconnectIsClean DEF EnsureLoggedIn, After
  <2>3. CASE ~Alive /\ connected = "no" /\ sdk = None /\ StartLogin(After[pc], "no")
             /\ UNCHANGED <<broker, link, transition, grace, faults>>
    BY <1>1, <2>3 DEF EnsureLoggedIn, After, broker, link, StartLogin
  <2> QED BY <1>1, <2>1, <2>2, <2>3 DEF EnsureLoggedIn
<1>2. CASE RunStarts
  BY <1>2 DEF RunStarts, broker, link
<1>3. CASE LoginSucceeds
  <2>1. PICK s \in Fresh, a \in LoginResults :
          open' = open \union {s} /\ sdk' = s /\ accounts' = a
    BY <1>3 DEF LoginSucceeds
  <2> QED BY <1>3, <2>1 DEF LoginSucceeds, Fresh
<1>4. CASE LoginRetried
  <2>1. PICK s \in Fresh : SafeReset(s, FALSE) \/ Leak(s)
    BY <1>4 DEF LoginRetried, ResetFailed
  <2>2. /\ pc = "login" /\ tries' \in 0..LoginMaxRetry /\ faults' \in Nat
        /\ s \in Sessions /\ s \notin open
    BY <1>4 DEF LoginRetried, MayRetryLogin, Inject, Fresh
  <2>3. /\ open' \subseteq Sessions /\ leaked' = open' /\ orphans' \subseteq leaked'
        /\ pending' \subseteq Sessions \X {"300", "302"}
        /\ sdk' = None /\ accounts' = {} /\ current' = None
        /\ connected' = "no" /\ old' = "no"
        /\ transition' = "yes" /\ grace' = "yes"
    <3>1. CASE Leak(s)
      BY <2>2, <3>1 DEF Leak
    <3>2. CASE SafeReset(s, FALSE)
      <4> HIDE DEF IInv, TypeOK
      <4> QED BY <2>2, <3>2, ResetIsClean
    <3> QED BY <2>1, <3>1, <3>2
  <2> QED BY <1>4, <2>2, <2>3 DEF LoginRetried
<1>5. CASE LoginGivesUp
  <2>1. PICK s \in Fresh : sdk' = s /\ open' \in {open, open \union {s}}
    BY <1>5 DEF LoginGivesUp
  <2> QED BY <1>5, <2>1 DEF LoginGivesUp, Inject, Fresh
<1>6. CASE Restore
  BY <1>6 DEF Restore, Restored, AccountFor, broker
<1>7. CASE SetAccount
  BY <1>7 DEF SetAccount, AccountFor, broker
<1>8. CASE CallFails
  <2>1. CASE MayReconnect /\ Reconnect("trading") /\ redone' = redone + 1
    BY <1>8, <2>1, ReconnectIsClean DEF CallFails, MayReconnect
  <2>2. CASE pc' \in {"idle", "trading"} /\ redone' = 0
             /\ UNCHANGED <<broker, link, transition, grace, back, inside, tries, faults>>
    BY <1>8, <2>2 DEF CallFails, broker, link
  <2> QED BY <1>8, <2>1, <2>2 DEF CallFails
<1>9. CASE CallReturns
  BY <1>9 DEF CallReturns, broker, link
<1> QED BY <1>1, <1>2, <1>3, <1>4, <1>5, <1>6, <1>7, <1>8, <1>9 DEF ThreadStep

\* A process that ends leaves no session behind but the lost ones.
LEMMA ProcessEndsIInv ==
  ASSUME IInv, NEW left \in SUBSET Sessions, NEW lost \in SUBSET left,
         left = lost \/ (left = open \ {sdk} /\ lost = leaked),
         ProcessEnds(left, lost), faults' \in Nat
  PROVE  IInv'
<1>1. left \ lost = {}
  BY DEF IInv, OnlyOwnSession
<1> QED BY <1>1, SessionConstants DEF ProcessEnds, IInv, TypeOK, YesNo, LoginStartsClean,
       AccountsAreOfSession, OnlyOwnSession, AgentTaken, TradingReconnects,
       LogoutEventsInGrace, AccountFollowsAgent

\* So does every other step.
LEMMA StepIInv == IInv /\ [Next]_vars => IInv'
<1> SUFFICES ASSUME IInv, [Next]_vars PROVE IInv'
  OBVIOUS
<1>1. ASSUME NEW a \in Agents, Begin(a) PROVE IInv'
  BY <1>1 DEF Begin, IInv, TypeOK, YesNo, LoginStartsClean, AccountsAreOfSession,
     OnlyOwnSession, AgentTaken, TradingReconnects, LogoutEventsInGrace,
     AccountFollowsAgent, broker, link
<1>2. CASE ThreadStep
  BY <1>2, ThreadIInv
<1>3. CASE OnEvent
  BY <1>3 DEF OnEvent, Ignored, IInv, TypeOK, YesNo, LoginStartsClean,
     AccountsAreOfSession, OnlyOwnSession, AgentTaken, TradingReconnects,
     LogoutEventsInGrace, AccountFollowsAgent, thread
<1>4. CASE SessionDies
  <2>1. PICK s \in open : /\ open' = open \ {s} /\ leaked' = leaked \ {s}
                          /\ orphans' = orphans \ {s}
                          /\ pending' \in {pending, pending \union {<<s, "300">>}}
    BY <1>4 DEF SessionDies
  <2>2. pending' \subseteq Sessions \X {"300", "302"} /\ LogoutEventsInGrace'
    BY <1>4, <2>1 DEF SessionDies, IInv, TypeOK, LogoutEventsInGrace
  <2> QED BY <1>4, <2>1, <2>2 DEF SessionDies, Inject, IInv, TypeOK, YesNo,
     LoginStartsClean, AccountsAreOfSession, OnlyOwnSession, AgentTaken,
     TradingReconnects, AccountFollowsAgent, link, thread
<1>5. CASE SessionAges
  BY <1>5 DEF SessionAges, IInv, TypeOK, YesNo, LoginStartsClean,
     AccountsAreOfSession, OnlyOwnSession, AgentTaken, TradingReconnects,
     LogoutEventsInGrace, AccountFollowsAgent, broker, thread
<1>6. CASE GraceEnds
  BY <1>6 DEF GraceEnds, IInv, TypeOK, YesNo, LoginStartsClean,
     AccountsAreOfSession, OnlyOwnSession, AgentTaken, TradingReconnects,
     LogoutEventsInGrace, AccountFollowsAgent, broker, link, thread
<1>7. CASE Shutdown
  <2>1. open \ {sdk} \in SUBSET Sessions /\ leaked \in SUBSET (open \ {sdk})
        /\ open \in SUBSET Sessions /\ faults \in Nat
    BY DEF IInv, TypeOK, OnlyOwnSession
  <2>2. CASE ProcessEnds(LoggedOut, leaked) /\ UNCHANGED faults
    BY <2>1, <2>2, ProcessEndsIInv DEF LoggedOut
  <2>3. CASE ProcessEnds(open, open) /\ Inject("logout_fails")
    BY <2>1, <2>3, ProcessEndsIInv DEF Inject
  <2> QED BY <1>7, <2>2, <2>3 DEF Shutdown
<1>8. CASE StartupFails
  <2>1. PICK s \in Fresh : \E left \in {open, open \union {s}} : ProcessEnds(left, left)
    BY <1>8 DEF StartupFails
  <2>2. PICK left \in {open, open \union {s}} : ProcessEnds(left, left)
    BY <2>1
  <2>3. left \in SUBSET Sessions /\ faults' \in Nat
    BY <1>8, <2>1, <2>2 DEF StartupFails, Inject, Fresh, IInv, TypeOK
  <2> QED BY <2>2, <2>3, ProcessEndsIInv
<1>9. CASE Killed
  <2>1. open \in SUBSET Sessions /\ faults' \in Nat
    BY <1>9 DEF Killed, Inject, IInv, TypeOK
  <2> QED BY <1>9, <2>1, ProcessEndsIInv DEF Killed
<1>10. CASE UNCHANGED vars
  BY <1>10 DEF vars, IInv, TypeOK, YesNo, LoginStartsClean, AccountsAreOfSession,
     OnlyOwnSession, AgentTaken, TradingReconnects, LogoutEventsInGrace,
     AccountFollowsAgent
<1> QED BY <1>1, <1>2, <1>3, <1>4, <1>5, <1>6, <1>7, <1>8, <1>9, <1>10 DEF Next

LEMMA Invariance == Spec => []IInv
  BY InitIInv, StepIInv, PTL DEF Spec

-----------------------------------------------------------------------------

\* Every variable of the session stays in its domain; login attempts and the
\* reconnects of a call stay within their limits (_do_login).
THEOREM TypeCorrect == Spec => []TypeOK
<1>1. IInv => TypeOK
  BY DEF IInv
<1> QED BY <1>1, Invariance, PTL

\* But for sessions a failed logout left behind, the broker never counts more
\* than one session of this process (_safe_reset_sdk before every further
\* login).
THEOREM SessionsNeverPileUp == Spec => []OneSession
<1>1. IInv => OneSession
  BY DEF IInv, OnlyOwnSession, OneSession
<1> QED BY <1>1, Invariance, PTL

\* While a command trades, the account is its agent's whenever the login has
\* it, through every reconnect in the middle of the command (_set_account).
THEOREM CommandsKeepTheirAccount == Spec => []AccountFollowsAgent
<1>1. IInv => AccountFollowsAgent
  BY DEF IInv
<1> QED BY <1>1, Invariance, PTL

\* The 302 of the agent's own logout never marks a session dead, given that it
\* arrives within the grace (_should_ignore_disconnect_event).
THEOREM LogoutIsHarmless == Spec => OwnLogoutIsHarmless
<1> DEFINE P == (connected = "yes" /\ connected' = "no" /\ pc' = pc)
                  => \E e \in pending \ pending' : e[2] = "300"
<1>1. IInv /\ [Next]_vars => [P]_vars
  <2> SUFFICES ASSUME IInv, Next, connected = "yes", connected' = "no", pc' = pc
               PROVE  \E e \in pending \ pending' : e[2] = "300"
    BY DEF vars
  <2>1. pc # "login" /\ connected' # connected
    BY DEF IInv, LoginStartsClean
  <2>2. ~Shutdown /\ ~StartupFails
    BY <2>1 DEF Shutdown, StartupFails, ProcessEnds
  <2>3. ~Killed
    BY DEF Killed, ProcessEnds, IInv, LoginStartsClean
  <2>4. CASE OnEvent
    <3>1. PICK e \in pending : /\ pending' = pending \ {e}
                               /\ connected' = IF Ignored(e[2]) THEN connected ELSE "no"
      BY <2>4 DEF OnEvent
    <3>2. e[2] # "302"
      BY <2>1, <3>1 DEF Ignored, IInv, LogoutEventsInGrace
    <3>3. e[2] = "300" /\ e \in pending \ pending'
      BY <3>1, <3>2 DEF IInv, TypeOK
    <3> QED BY <3>3
  <2>5. ~ThreadStep
    BY <2>1 DEF ThreadStep, EnsureLoggedIn, RunStarts, LoginSucceeds, LoginRetried,
       LoginGivesUp, Restore, SetAccount, CallFails, CallReturns, Reconnect,
       StartLogin, link
  <2> QED BY <2>1, <2>2, <2>3, <2>4, <2>5 DEF Next, Begin, SessionDies, SessionAges, GraceEnds, link
<1> QED BY <1>1, Invariance, PTL DEF Spec, OwnLogoutIsHarmless

-----------------------------------------------------------------------------
(* The connection limit of the broker.                                     *)

\* Every session left behind at the broker is paid for with a fault of its
\* own: a failed logout, a failed login or a lost process.
LeaksArePaidFor == IsFiniteSet(leaked) /\ Cardinality(leaked) <= faults

\* The broker counts one session more than there were faults, at most.
ConnectionsAreCounted == IsFiniteSet(open) /\ Cardinality(open) <= faults + 1

\* A fault pays for one session.
LEMMA OneFaultOneLeak ==
  ASSUME TypeOK, LeaksArePaidFor, NEW s, leaked' \subseteq leaked \union {s},
         faults' = faults + 1
  PROVE  LeaksArePaidFor'
<1>1. faults \in Nat /\ IsFiniteSet(leaked) /\ Cardinality(leaked) <= faults
  BY DEF TypeOK, LeaksArePaidFor
<1>2. Cardinality(leaked) \in Nat
  BY <1>1, FS_CardinalityType
<1>3. /\ IsFiniteSet(leaked \union {s})
      /\ Cardinality(leaked \union {s}) \in {Cardinality(leaked), Cardinality(leaked) + 1}
  BY <1>1, FS_AddElement
<1>4. IsFiniteSet(leaked') /\ Cardinality(leaked') <= Cardinality(leaked \union {s})
  BY <1>3, FS_Subset
<1>5. Cardinality(leaked') \in Nat
  BY <1>4, FS_CardinalityType
<1> QED BY <1>1, <1>2, <1>3, <1>4, <1>5 DEF LeaksArePaidFor

\* Steps that leave nothing behind.
LEMMA NoLeak ==
  ASSUME TypeOK, LeaksArePaidFor, leaked' \subseteq leaked, faults' \in {faults, faults + 1}
  PROVE  LeaksArePaidFor'
<1>1. /\ faults \in Nat /\ Cardinality(leaked) \in Nat
      /\ IsFiniteSet(leaked') /\ Cardinality(leaked') <= Cardinality(leaked)
      /\ Cardinality(leaked') \in Nat
  BY FS_Subset, FS_CardinalityType DEF TypeOK, LeaksArePaidFor
<1> QED BY <1>1 DEF LeaksArePaidFor

\* reconnect() leaves a session behind only if its logout fails.
LEMMA ReconnectLeaks ==
  ASSUME TypeOK, LeaksArePaidFor, NEW ret, Reconnect(ret)
  PROVE  LeaksArePaidFor'
<1>1. CASE SafeReset(sdk, accounts # {}) /\ UNCHANGED faults
  BY <1>1, NoLeak DEF SafeReset
<1>2. CASE Leak(sdk) /\ Inject("logout_fails")
  BY <1>2, OneFaultOneLeak DEF Leak, Inject
<1> QED BY <1>1, <1>2 DEF Reconnect

\* A login that fails and a process that is lost leave at most one behind,
\* because none was left before that nobody paid for (OnlyOwnSession).
LEMMA LeakStep == IInv /\ LeaksArePaidFor /\ [Next]_vars => LeaksArePaidFor'
<1> SUFFICES ASSUME IInv, LeaksArePaidFor, [Next]_vars PROVE LeaksArePaidFor'
  OBVIOUS
<1>0. TypeOK /\ open \subseteq leaked \union {sdk}
  BY DEF IInv, OnlyOwnSession
<1>1. CASE EnsureLoggedIn
  BY <1>0, <1>1, NoLeak, ReconnectLeaks DEF EnsureLoggedIn, broker
<1>2. CASE CallFails
  BY <1>0, <1>2, NoLeak, ReconnectLeaks DEF CallFails, broker
<1>3. CASE LoginRetried
  <2>1. PICK s \in Fresh : SafeReset(s, FALSE) \/ Leak(s)
    BY <1>3 DEF LoginRetried, ResetFailed
  <2>2. leaked' \subseteq leaked \union {s} /\ faults' = faults + 1
    BY <1>3, <2>1 DEF SafeReset, Leak, LoginRetried, Inject
  <2> QED BY <1>0, <2>2, OneFaultOneLeak
<1>4. CASE RunStarts \/ LoginSucceeds \/ LoginGivesUp \/ Restore \/ SetAccount \/ CallReturns
  <2>1. leaked' = leaked /\ faults' \in {faults, faults + 1}
    BY <1>4 DEF RunStarts, LoginSucceeds, LoginGivesUp, Restore, SetAccount,
                CallReturns, broker, Inject
  <2> QED BY <1>0, <2>1, NoLeak
<1>5. CASE Shutdown
  <2>1. CASE ProcessEnds(LoggedOut, leaked) /\ UNCHANGED faults
    BY <1>0, <2>1, NoLeak DEF ProcessEnds
  <2>2. CASE ProcessEnds(open, open) /\ Inject("logout_fails")
    BY <1>0, <2>2, OneFaultOneLeak DEF ProcessEnds, Inject
  <2> QED BY <1>5, <2>1, <2>2 DEF Shutdown
<1>6. CASE StartupFails
  <2>1. PICK s \in Fresh : \E left \in {open, open \union {s}} : ProcessEnds(left, left)
    BY <1>6 DEF StartupFails
  <2>2. open \subseteq leaked
    BY <1>0, <1>6, SessionConstants DEF StartupFails, IInv, LoginStartsClean, TypeOK
  <2>3. leaked' \subseteq leaked \union {s} /\ faults' = faults + 1
    BY <1>6, <2>1, <2>2 DEF StartupFails, ProcessEnds, Inject
  <2> QED BY <1>0, <2>3, OneFaultOneLeak
<1>7. CASE Killed
  <2>1. leaked' \subseteq leaked \union {sdk} /\ faults' = faults + 1
    BY <1>0, <1>7 DEF Killed, ProcessEnds, Inject
  <2> QED BY <1>0, <2>1, OneFaultOneLeak
<1>8. CASE SessionDies
  <2>1. leaked' \subseteq leaked /\ faults' = faults + 1
    BY <1>8 DEF SessionDies, Inject
  <2> QED BY <1>0, <2>1, NoLeak
<1>9. CASE (\E a \in Agents : Begin(a)) \/ OnEvent \/ SessionAges \/ GraceEnds \/ UNCHANGED vars
  <2>1. leaked' = leaked /\ faults' = faults
    BY <1>9 DEF Begin, OnEvent, SessionAges, GraceEnds, broker, vars
  <2> QED BY <1>0, <2>1, NoLeak
<1> QED BY <1>1, <1>2, <1>3, <1>4, <1>5, <1>6, <1>7, <1>8, <1>9 DEF Next, ThreadStep

\* "Connection limit": over any run of logins, reconnects, shutdowns and
\* restarts the broker counts at most one session more than there were faults,
\* so that ten connections take nine failed logouts, failed logins and lost
\* processes together (_safe_reset_sdk, shutdown).
THEOREM ConnectionsAreBounded == Spec => []ConnectionsAreCounted
<1>1. Init => LeaksArePaidFor
  BY FS_EmptySet DEF Init, LeaksArePaidFor
<1>2. IInv /\ LeaksArePaidFor => ConnectionsAreCounted
  <2> SUFFICES ASSUME IInv, LeaksArePaidFor PROVE ConnectionsAreCounted
    OBVIOUS
  <2>1. open \subseteq leaked \union {sdk} /\ faults \in Nat
    BY DEF IInv, OnlyOwnSession, TypeOK
  <2>2. /\ IsFiniteSet(leaked \union {sdk})
        /\ Cardinality(leaked \union {sdk}) <= Cardinality(leaked) + 1
        /\ Cardinality(leaked \union {sdk}) \in Nat /\ Cardinality(leaked) \in Nat
    BY FS_AddElement, FS_CardinalityType DEF LeaksArePaidFor
  <2>3. /\ IsFiniteSet(open) /\ Cardinality(open) \in Nat
        /\ Cardinality(open) <= Cardinality(leaked \union {sdk})
    BY <2>1, <2>2, FS_Subset, FS_CardinalityType
  <2> QED BY <2>1, <2>2, <2>3 DEF LeaksArePaidFor, ConnectionsAreCounted
<1>3. IInv /\ LeaksArePaidFor /\ [Next]_vars => LeaksArePaidFor'
  BY LeakStep
<1> QED BY <1>1, <1>2, <1>3, Invariance, PTL DEF Spec

-----------------------------------------------------------------------------
(* "Avoid death spiral": logins run down.                                  *)

\* The steps a login takes at most: its attempts, and what follows on them.
LoginLeft == LoginMaxRetry + 4

\* The steps left, at most, from step p until the thread is idle or its API
\* call has returned: a reconnect is open to a call once, a login to
\* get_or_create_agent and to InitAgent.
LeftFrom(p) ==
  LET trading == IF redone = 0 THEN LoginLeft + 1 ELSE 1
  IN  CASE p = "idle" -> 0
        [] p = "trading" -> trading
        [] p = "account" -> trading + 1
        [] p = "init" -> trading + 1 + LoginLeft
        [] p = "run" -> trading + 2 + LoginLeft
        [] p = "entry" -> trading + 2 + LoginLeft + LoginLeft
        [] p = "startup" -> LoginLeft

StepsLeft ==
  IF pc = "login" THEN LeftFrom(back) + 2 + LoginMaxRetry - tries
  ELSE IF pc = "restore" THEN LeftFrom(back) + 1
  ELSE LeftFrom(pc)

\* An API call returns or gives up.
CallEnds == pc = "trading" /\ redone' = 0

\* Every step of the order thread takes something off, but for the end of an
\* API call, after which the command makes the next one or ends; nothing else
\* adds anything, unless the process starts anew.
LoginsRunDown ==
  [][/\ ThreadStep /\ ~CallEnds => StepsLeft' < StepsLeft
     /\ ~ThreadStep /\ pc # "idle" /\ pc' # "startup" => StepsLeft' = StepsLeft]_vars

LEMMA StepsLeftIsNat == TypeOK => StepsLeft \in Nat
<1> SUFFICES ASSUME TypeOK PROVE StepsLeft \in Nat
  OBVIOUS
<1>1. LoginMaxRetry \in Nat /\ tries \in 0..LoginMaxRetry /\ LoginLeft \in Nat
  BY SessionConstants DEF TypeOK, LoginLeft
<1>2. \A p \in {"startup", "idle", "entry", "run", "init", "account", "trading"} :
        LeftFrom(p) \in Nat
  BY <1>1 DEF LeftFrom
<1>3. /\ back \in {"idle", "run", "account", "trading"}
      /\ pc \in {"startup", "idle", "entry", "run", "login", "restore", "init",
                 "account", "trading"}
  BY DEF TypeOK
<1> QED BY <1>1, <1>2, <1>3 DEF StepsLeft

\* Where ensure_logged_in returns to is at least a login away.
LEMMA AfterIsALoginAway ==
  ASSUME TypeOK, pc \in {"startup", "entry", "init"}
  PROVE  /\ LeftFrom(pc) = LeftFrom(After[pc]) + LoginLeft
         /\ LeftFrom(After[pc]) \in Nat
<1>1. LoginLeft \in Nat
  BY SessionConstants DEF LoginLeft
<1> QED BY <1>1 DEF LeftFrom, After

\* The steps of a thread, one by one.
LEMMA ThreadRunsDown == TypeOK /\ ThreadStep /\ ~CallEnds => StepsLeft' < StepsLeft
<1> SUFFICES ASSUME TypeOK, ThreadStep, ~CallEnds PROVE StepsLeft' < StepsLeft
  OBVIOUS
<1>0. /\ LoginMaxRetry \in Nat /\ tries \in 0..LoginMaxRetry /\ LoginLeft = LoginMaxRetry + 4
      /\ redone \in 0..1
      /\ back \in {"idle", "run", "account", "trading"}
  BY SessionConstants DEF TypeOK, LoginLeft
<1>k. redone' = redone => \A p : LeftFrom(p)' = LeftFrom(p)
  BY DEF LeftFrom
<1>b. LeftFrom(back) \in Nat
  BY <1>0 DEF LeftFrom
<1>1. CASE EnsureLoggedIn
  <2>1. /\ pc \in {"startup", "entry", "init"} /\ redone' = redone
        /\ \/ pc' = After[pc]
           \/ pc' = "login" /\ back' = After[pc] /\ tries' = 0
    BY <1>1 DEF EnsureLoggedIn, Reconnect, StartLogin
  <2>2. StepsLeft = LeftFrom(After[pc]) + LoginLeft /\ LeftFrom(After[pc]) \in Nat
    BY <2>1, AfterIsALoginAway DEF StepsLeft
  <2>3. StepsLeft' \in {LeftFrom(After[pc]), LeftFrom(After[pc]) + 2 + LoginMaxRetry}
    <3>1. CASE pc' = After[pc]
      <4>1. pc' \notin {"login", "restore"}
        BY <2>1, <3>1 DEF After
      <4>2. StepsLeft' = LeftFrom(pc)'
        BY <4>1 DEF StepsLeft
      <4>3. LeftFrom(pc)' = LeftFrom(After[pc])
        BY <2>1, <3>1 DEF LeftFrom
      <4> QED BY <4>2, <4>3
    <3>2. CASE pc' = "login" /\ back' = After[pc] /\ tries' = 0
      <4>1. StepsLeft' = LeftFrom(back)' + 2 + LoginMaxRetry - 0
        BY <3>2 DEF StepsLeft
      <4>2. LeftFrom(back)' = LeftFrom(After[pc])
        BY <2>1, <3>2 DEF LeftFrom
      <4> QED BY <1>0, <2>2, <4>1, <4>2
    <3> QED BY <2>1, <3>1, <3>2
  <2> QED BY <1>0, <2>2, <2>3
<1>2. CASE RunStarts
  BY <1>0, <1>2 DEF RunStarts, StepsLeft, LeftFrom
<1>3. CASE LoginSucceeds \/ LoginGivesUp
  <2>1. /\ pc = "login" /\ redone' = redone /\ back' = back
        /\ pc' \in {"restore", back, "trading", "idle"}
        /\ pc' = "trading" => back = "trading"
    BY <1>3 DEF LoginSucceeds, LoginGivesUp
  <2>2. StepsLeft = LeftFrom(back) + 2 + LoginMaxRetry - tries
    BY <2>1 DEF StepsLeft
  <2>3. StepsLeft' \in {LeftFrom(back) + 1, LeftFrom(back), 0}
    <3>1. CASE pc' = "restore"
      BY <2>1, <3>1 DEF StepsLeft, LeftFrom
    <3>2. CASE pc' = "idle"
      BY <3>2 DEF StepsLeft, LeftFrom
    <3>3. CASE pc' = back
      BY <1>0, <2>1, <3>3 DEF StepsLeft, LeftFrom
    <3> QED BY <2>1, <3>1, <3>2, <3>3
  <2> QED BY <1>0, <1>b, <2>2, <2>3
<1>4. CASE LoginRetried
  <2>1. /\ pc = "login" /\ pc' = "login" /\ redone' = redone /\ back' = back
        /\ tries' = tries + 1
    BY <1>4 DEF LoginRetried
  <2> QED BY <1>0, <1>b, <2>1 DEF StepsLeft, LeftFrom
<1>5. CASE Restore
  <2>1. pc = "restore" /\ pc' = back /\ redone' = redone
    BY <1>5 DEF Restore
  <2> QED BY <1>0, <1>b, <2>1 DEF StepsLeft, LeftFrom
<1>6. CASE SetAccount
  <2>1. pc = "account" /\ pc' \in {"idle", "trading"} /\ redone' = redone
    BY <1>6 DEF SetAccount
  <2> QED BY <1>0, <2>1 DEF StepsLeft, LeftFrom
<1>7. CASE CallFails
  <2>1. /\ pc = "trading" /\ redone < 1 /\ redone' = redone + 1
        /\ pc' = "login" /\ back' = "trading" /\ tries' = 0
    BY <1>7 DEF CallFails, CallEnds, MayReconnect, Reconnect, StartLogin
  <2>2. StepsLeft = LoginLeft + 1
    BY <1>0, <2>1 DEF StepsLeft, LeftFrom
  <2>3. StepsLeft' = 1 + 2 + LoginMaxRetry - 0
    BY <1>0, <2>1 DEF StepsLeft, LeftFrom
  <2> QED BY <1>0, <2>2, <2>3
<1>8. CASE CallReturns
  BY <1>8 DEF CallReturns, CallEnds
<1> QED BY <1>1, <1>2, <1>3, <1>4, <1>5, <1>6, <1>7, <1>8 DEF ThreadStep

\* "Login: avoid death spiral on Fubon connection limit": from the start of a
\* process or a command, and in every API call, only a bounded number of
\* attempts to log in can follow one another, whatever fails and however the
\* session dies meanwhile (_do_login, ensure_logged_in, SESSION_RECONNECT_ONCE).
THEOREM LoginsAreBounded == Spec => LoginsRunDown /\ [](StepsLeft \in Nat)
<1> DEFINE P == /\ ThreadStep /\ ~CallEnds => StepsLeft' < StepsLeft
                /\ ~ThreadStep /\ pc # "idle" /\ pc' # "startup" => StepsLeft' = StepsLeft
<1>1. TypeOK /\ [Next]_vars => [P]_vars
  <2> SUFFICES ASSUME TypeOK, Next PROVE P
    BY DEF vars
  <2>1. ASSUME ~ThreadStep, pc # "idle", pc' # "startup" PROVE UNCHANGED thread
    BY <2>1 DEF Next, Begin, Shutdown, StartupFails, Killed, ProcessEnds, OnEvent,
                SessionDies, SessionAges, GraceEnds
  <2>2. UNCHANGED thread => StepsLeft' = StepsLeft
    BY DEF thread, StepsLeft, LeftFrom
  <2> QED BY <2>1, <2>2, ThreadRunsDown
<1>2. TypeOK => StepsLeft \in Nat
  BY StepsLeftIsNat
<1> QED BY <1>1, <1>2, TypeCorrect, PTL DEF Spec, LoginsRunDown
=============================================================================

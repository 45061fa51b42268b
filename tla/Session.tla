------------------------------ MODULE Session -------------------------------
(***************************************************************************)
(* The life of the one Fubon session a process keeps (OrderAgent in        *)
(* fubon_api.py): login with retries, the age limit, reconnects, the       *)
(* disconnect events of the SDK, the account a command works on, and the   *)
(* start, shutdown and loss of the process itself.                         *)
(*                                                                         *)
(* One thread at a time runs commands (the order lock of CommandIntake);   *)
(* the SDK's callback thread delivers events whenever it likes, those of   *)
(* earlier sessions included, because every SDK object calls back into     *)
(* the same agent.                                                         *)
(***************************************************************************)
EXTENDS Naturals

CONSTANTS
  Agents,         \* agent ids of agent_account_mapping
  Accounts,       \* account numbers
  Mapping,        \* agent_account_mapping
  LoginResults,   \* the sets of accounts a login may return
  Sessions,       \* identities of broker sessions, reused once forgotten
  None,
  LoginMaxRetry,  \* LOGIN_MAX_RETRY (2)
  Faults,         \* the faults this instance of the model may inject
  MaxFaults       \* bound on the number of injected faults

ASSUME SessionConstants ==
  /\ Mapping \in [Agents -> Accounts]
  /\ LoginResults \subseteq (SUBSET Accounts) \ {{}}
  /\ None \notin Sessions \union Agents \union Accounts
  /\ LoginMaxRetry \in Nat /\ MaxFaults \in Nat

VARIABLES
  open,        \* broker: the sessions it counts against the connection limit
  leaked,      \* those of them a failed logout or a lost process left behind
  orphans,     \* those of them an earlier process left behind
  pending,     \* disconnect events not delivered yet, <<session, code>>
  sdk,         \* the session of self.sdk, or None
  accounts,    \* self.accounts
  current,     \* self.current_account, or None
  connected,   \* self._connected, "yes" or "no"
  old,         \* the session is SESSION_MAX_AGE_SEC old: "yes" or "no"
  transition,  \* self._session_transition, "yes" or "no"
  grace,       \* the last logout is less than 15 s ago: "yes" or "no"
  pc,          \* the step of the order thread
  want,        \* the agent of the command being handled
  agent,       \* self.agent_id, or None
  back,        \* where the login in progress returns to
  inside,      \* the login runs inside reconnect(): "yes" or "no"
  tries,       \* failed attempts of this login
  redone,      \* reconnects of this API call (at most SESSION_RECONNECT_ONCE = 1)
  faults       \* injected faults so far

broker == <<open, leaked, orphans, pending>>
link == <<sdk, accounts, current, connected, old>>
thread == <<pc, want, agent, back, inside, tries, redone>>
vars == <<open, leaked, orphans, pending, sdk, accounts, current, connected, old, transition,
          grace, pc, want, agent, back, inside, tries, redone, faults>>

YesNo == {"yes", "no"}

Inject(f) == f \in Faults /\ faults < MaxFaults /\ faults' = faults + 1

Init ==
  /\ open = {} /\ leaked = {} /\ orphans = {} /\ pending = {}
  /\ sdk = None /\ accounts = {} /\ current = None
  /\ connected = "no" /\ old = "no" /\ transition = "no" /\ grace = "no"
  /\ pc = "startup" /\ want \in Agents /\ agent = None
  /\ back = "idle" /\ inside = "no" /\ tries = 0 /\ redone = 0 /\ faults = 0

-----------------------------------------------------------------------------
(* Pieces of the session handling.                                         *)

\* Mutant of Alive: the age is not looked at.
AliveAtAnyAge == connected = "yes" /\ sdk # None /\ accounts # {}

\* is_session_alive: what the agent believes, not what the broker knows.
Alive == connected = "yes" /\ sdk # None /\ old = "no" /\ accounts # {}

\* _safe_reset_sdk of session s: the logout answers with a 302 event later if
\* the session's callbacks were registered.  Its errors are Leak's.
SafeReset(s, heard) ==
  /\ open' = open \ {s} /\ UNCHANGED <<leaked, orphans>>
  /\ pending' = IF heard THEN pending \union {<<s, "302">>} ELSE pending
  /\ transition' = "yes" /\ grace' = "yes"
  /\ sdk' = None /\ accounts' = {} /\ current' = None
  /\ connected' = "no" /\ old' = "no"

\* Login from step ret, inside reconnect() or not.
StartLogin(ret, in) ==
  pc' = "login" /\ back' = ret /\ inside' = in /\ tries' = 0

\* The logout of s raises and _safe_reset_sdk goes on: the broker keeps s.
Leak(s) ==
  /\ open' = open \union {s} /\ leaked' = leaked \union {s}
  /\ UNCHANGED <<orphans, pending>>
  /\ transition' = "yes" /\ grace' = "yes"
  /\ sdk' = None /\ accounts' = {} /\ current' = None
  /\ connected' = "no" /\ old' = "no"

\* reconnect(): reset, then login.
Reconnect(ret) ==
  /\ \/ SafeReset(sdk, accounts # {}) /\ UNCHANGED faults
     \/ sdk \in open /\ Leak(sdk) /\ Inject("logout_fails")
  /\ StartLogin(ret, "yes")

\* Mutant of MayRetryLogin: one attempt too many.
MayRetryOnceMore == tries <= LoginMaxRetry

MayRetryLogin == tries < LoginMaxRetry

\* An API call may still reconnect.
MayReconnect == redone < 1

\* _set_account: the account of agent a if this login has it.  An account set
\* before is kept when it has not.
AccountFor(a) == IF Mapping[a] \in accounts THEN Mapping[a] ELSE current

\* Mutant of Restored: a reconnect leaves the account to InitAgent.
NotRestored == current

\* The account after a reconnect: that of the agent id the session knows.
Restored == IF agent # None THEN AccountFor(agent) ELSE current

-----------------------------------------------------------------------------
(* The order thread.                                                       *)

\* A command is handed to the thread: get_or_create_agent comes first.
Begin(a) ==
  /\ pc = "idle"
  /\ want' = a /\ pc' = "entry" /\ redone' = 0
  /\ UNCHANGED <<broker, link, transition, grace, agent, back, inside, tries, faults>>

\* What follows on ensure_logged_in, called at the start of the process, by
\* get_or_create_agent for a command and again by InitAgent.
After == [startup |-> "idle", entry |-> "run", init |-> "account"]

\* ensure_logged_in: the session is not looked at again after a login.
EnsureLoggedIn ==
  /\ pc \in {"startup", "entry", "init"}
  /\ \/ /\ Alive
        /\ pc' = After[pc]
        /\ UNCHANGED <<broker, link, transition, grace, back, inside, tries, faults>>
     \/ /\ ~Alive /\ (connected = "yes" \/ sdk # None)
        /\ Reconnect(After[pc])
     \/ /\ ~Alive /\ connected = "no" /\ sdk = None
        /\ StartLogin(After[pc], "no")
        /\ UNCHANGED <<broker, link, transition, grace, faults>>
  /\ UNCHANGED <<want, agent, redone>>

\* run() takes over the agent id of the command and calls InitAgent, unless
\* the command has expired or is CHECK_AGENT; a duplicate never gets to run().
RunStarts ==
  /\ pc = "run"
  /\ \/ agent' = want /\ pc' \in {"init", "idle"}
     \/ agent' = agent /\ pc' = "idle"
  /\ UNCHANGED <<broker, link, transition, grace, want, back, inside, tries, redone, faults>>

\* Identities the broker may give to a new session.
Fresh == {s \in Sessions \ open : \A e \in pending : e[1] # s}

\* An attempt of _do_login succeeds; the callbacks are registered.
LoginSucceeds ==
  /\ pc = "login"
  /\ \E s \in Fresh, a \in LoginResults :
       /\ open' = open \union {s} /\ sdk' = s /\ accounts' = a
  /\ connected' = "yes" /\ old' = "no"
  /\ pc' = IF inside = "yes" THEN "restore" ELSE back
  /\ UNCHANGED <<leaked, orphans, pending, current, transition, grace, want, agent,
                 back, inside, tries, redone, faults>>

\* Mutant of ResetFailed: a failed session is reused by the next attempt.
KeepFailed(s) ==
  /\ open' = open \union {s} /\ sdk' = None
  /\ transition' = "yes" /\ grace' = "yes"
  /\ UNCHANGED <<leaked, orphans, pending, accounts, current, connected, old>>

\* "Reset client before retry".
ResetFailed(s) == SafeReset(s, FALSE)

\* It fails: the client is reset, as well as that goes, and the login tried
\* again.
LoginRetried ==
  /\ pc = "login" /\ MayRetryLogin
  /\ Inject("login_fails")
  /\ \E s \in Fresh : \/ ResetFailed(s)
                      \/ "logout_fails" \in Faults /\ Leak(s)
  /\ tries' = tries + 1
  /\ UNCHANGED <<pc, want, agent, back, inside, redone>>

\* The last attempt fails: the broker may have opened the session all the
\* same (no accounts in the answer), and the client stays in place.  The
\* exception ends the command, unless an API call catches it.
LoginGivesUp ==
  /\ pc = "login" /\ ~MayRetryLogin /\ back # "idle"
  /\ Inject("login_fails")
  /\ \E s \in Fresh :
       /\ sdk' = s
       /\ open' \in {open, open \union {s}}
  /\ transition' = "no"
  /\ pc' = IF back = "trading" THEN "trading" ELSE "idle"
  /\ UNCHANGED <<leaked, orphans, pending, accounts, current, connected, old, grace,
                 want, agent, back, inside, tries, redone>>

\* The end of reconnect(): the account of the agent id it knows is restored,
\* errors are swallowed, and the transition is over.
Restore ==
  /\ pc = "restore"
  /\ current' = Restored
  /\ transition' = "no"
  /\ pc' = back
  /\ UNCHANGED <<broker, sdk, accounts, connected, old, grace, want, agent,
                 back, inside, tries, redone, faults>>

\* InitAgent's _set_account: no account at all ends the command.
SetAccount ==
  /\ pc = "account"
  /\ current' = AccountFor(agent)
  /\ pc' = IF current' = None THEN "idle" ELSE "trading"
  /\ UNCHANGED <<broker, sdk, accounts, connected, old, transition, grace,
                 want, agent, back, inside, tries, redone, faults>>

\* An API call fails because the session is dead.  A recognised error
\* reconnects once per call; otherwise, and after that, the call gives up, and
\* with it the command or just this step of it.
CallFails ==
  /\ pc = "trading" /\ sdk \notin open
  /\ \/ /\ MayReconnect
        /\ Reconnect("trading") /\ redone' = redone + 1
     \/ /\ ~MayReconnect \/ "opaque_error" \in Faults
        /\ pc' \in {"idle", "trading"} /\ redone' = 0
        /\ UNCHANGED <<broker, link, transition, grace, back, inside, tries, faults>>
  /\ UNCHANGED <<want, agent>>

\* An API call returns: the command makes the next one, or is done.
CallReturns ==
  /\ pc = "trading" /\ sdk \in open
  /\ pc' \in {"idle", "trading"} /\ redone' = 0
  /\ UNCHANGED <<broker, link, transition, grace, want, agent, back, inside,
                 tries, faults>>

ThreadStep ==
  \/ EnsureLoggedIn
  \/ RunStarts
  \/ LoginSucceeds
  \/ LoginRetried
  \/ LoginGivesUp
  \/ Restore
  \/ SetAccount
  \/ CallFails
  \/ CallReturns

-----------------------------------------------------------------------------
(* The process.                                                            *)

\* The process is gone, with the sessions left open and, of these, those lost
\* to everybody; Cloud Run starts the next one.
ProcessEnds(left, lost) ==
  /\ open' = left /\ leaked' = lost /\ orphans' = lost /\ pending' = {}
  /\ sdk' = None /\ accounts' = {} /\ current' = None
  /\ connected' = "no" /\ old' = "no" /\ transition' = "no" /\ grace' = "no"
  /\ pc' = "startup" /\ agent' = None /\ UNCHANGED want
  /\ back' = "idle" /\ inside' = "no" /\ tries' = 0 /\ redone' = 0

\* Mutant of LoggedOut: only a session believed alive is logged out.
LoggedOutIfAlive == IF Alive THEN open \ {sdk} ELSE open

\* shutdown(): whatever the client holds is logged out, dead or not.
LoggedOut == open \ {sdk}

\* The server stops once its requests are answered.  Errors of the logout are
\* ignored.
Shutdown ==
  /\ pc = "idle"
  /\ \/ ProcessEnds(LoggedOut, leaked) /\ UNCHANGED faults
     \/ sdk \in open /\ ProcessEnds(open, open) /\ Inject("logout_fails")

\* The login of the startup gives up: the server does not start, and never
\* comes to shutdown().
StartupFails ==
  /\ pc = "login" /\ ~MayRetryLogin /\ back = "idle"
  /\ Inject("login_fails")
  /\ \E s \in Fresh : \E left \in {open, open \union {s}} : ProcessEnds(left, left)

\* The process is killed, for instance when its grace period ends before its
\* requests: nothing is logged out.
Killed ==
  /\ Inject("killed")
  /\ ProcessEnds(open, open)

-----------------------------------------------------------------------------
(* The callback thread, the broker and the clock.                          *)

\* Mutant of Ignored: no grace for a late 302.
IgnoredInFlight(code) == transition = "yes"

\* _should_ignore_disconnect_event
Ignored(code) == transition = "yes" \/ (grace = "yes" /\ code = "302")

\* _on_event: nothing but a mark, the order thread reconnects.
OnEvent ==
  /\ \E e \in pending :
       /\ pending' = pending \ {e}
       /\ connected' = IF Ignored(e[2]) THEN connected ELSE "no"
  /\ UNCHANGED <<open, leaked, orphans, sdk, accounts, current, old, transition, grace, thread, faults>>

\* The broker drops a session; one that was logged in and leaked since calls
\* back as well, one whose login failed does not.
SessionDies ==
  /\ Inject("session_dies")
  /\ \E s \in open :
       /\ open' = open \ {s} /\ leaked' = leaked \ {s} /\ orphans' = orphans \ {s}
       /\ \/ /\ s \notin orphans /\ (accounts # {} \/ s # sdk)
             /\ pending' = pending \union {<<s, "300">>}
          \/ (accounts = {} \/ s # sdk) /\ UNCHANGED pending
  /\ UNCHANGED <<link, transition, grace, thread>>

\* SESSION_MAX_AGE_SEC have passed.
SessionAges ==
  /\ connected = "yes" /\ old = "no"
  /\ old' = "yes"
  /\ UNCHANGED <<broker, sdk, accounts, current, connected, transition, grace,
                 thread, faults>>

\* 15 s have passed since the logout; its event has been delivered by then.
GraceEnds ==
  /\ grace = "yes"
  /\ \A e \in pending : e[2] # "302"
  /\ grace' = "no"
  /\ UNCHANGED <<broker, link, transition, thread, faults>>

Next ==
  \/ \E a \in Agents : Begin(a)
  \/ ThreadStep
  \/ Shutdown
  \/ StartupFails
  \/ Killed
  \/ OnEvent
  \/ SessionDies
  \/ SessionAges
  \/ GraceEnds

Spec == Init /\ [][Next]_vars

\* The last API call of a command.
CommandEnds == (CallFails \/ CallReturns) /\ pc' = "idle"

(* Commands keep coming, there is always a process (min-instances 1) and   *)
(* its thread is not stopped for ever, a command makes a bounded number of *)
(* API calls (CommandTerminates of OrderExecution), events are delivered   *)
(* in the end (DisconnectGetsThrough of FillFeedback) and time goes by.    *)
FairSpec ==
  /\ Spec
  /\ WF_vars(\E a \in Agents : Begin(a))
  /\ WF_vars(ThreadStep)
  /\ SF_vars(CommandEnds)
  /\ WF_vars(OnEvent)
  /\ WF_vars(SessionAges)

-----------------------------------------------------------------------------
(* Properties.                                                             *)

TypeOK ==
  /\ open \subseteq Sessions /\ leaked \subseteq open /\ orphans \subseteq leaked
  /\ pending \subseteq Sessions \X {"300", "302"}
  /\ sdk \in Sessions \union {None} /\ accounts \in SUBSET Accounts
  /\ current \in Accounts \union {None}
  /\ connected \in YesNo /\ old \in YesNo /\ transition \in YesNo /\ grace \in YesNo
  /\ pc \in {"startup", "idle", "entry", "run", "login", "restore", "init", "account", "trading"}
  /\ want \in Agents /\ agent \in Agents \union {None}
  /\ back \in {"idle", "run", "account", "trading"} /\ inside \in YesNo
  /\ tries \in 0..LoginMaxRetry /\ redone \in 0..1
  /\ faults \in Nat

\* Logins never pile up at the broker, over retries, reconnects, expired and
\* dying sessions, shutdowns and restarts: but for what a failed logout or a
\* killed process leaves behind there is one session, and the connection limit
\* of ten cannot be reached from here.
OneSession == \A s, t \in open \ leaked : s = t

\* While a command works at the broker the account is that of its agent, even
\* after a reconnect in the middle of it, if this login has that account.
AccountFollowsAgent ==
  pc = "trading" =>
    /\ agent = want
    /\ Mapping[agent] \in accounts => current = Mapping[agent]

\* The 302 of the agent's own logout never marks a session dead, however late
\* (within its grace) and however often the session was replaced: only a
\* disconnect the agent did not ask for does.
OwnLogoutIsHarmless ==
  [][(connected = "yes" /\ connected' = "no" /\ pc' = pc)
       => \E e \in pending \ pending' : e[2] = "300"]_vars

\* As long as commands keep coming, a session that died is replaced, even if
\* its disconnect went unheard and no error of a call gives it away.
DeadSessionIsReplaced ==
  (connected = "yes" /\ sdk \notin open) ~> (sdk \in open)

\* "No account for account_id": a command never works on another account.
NeverAnotherAccount ==
  pc = "trading" => current \in {None, Mapping[agent]}
=============================================================================

--------------------------- MODULE CommandIntake ---------------------------
(***************************************************************************)
(* From a Pub/Sub push to the feedback POST: main.py and the dispatch half *)
(* of fubon_agent/api/base.py.                                             *)
(*                                                                         *)
(* One topic carries the commands of every agent.  Each deployed service   *)
(* has its own push subscription, so every service is offered every        *)
(* command and keeps those its configuration names.  A service runs one    *)
(* or more instances (processes) and each instance a pool of threads.  A   *)
(* thread claims a command by creating an object in a shared bucket, takes *)
(* the process-wide order lock, executes the command and posts its result. *)
(*                                                                         *)
(* Around the program: Pub/Sub delivers at least once and redelivers what  *)
(* was not acknowledged; Cloud Run answers 504 for a request that is too   *)
(* slow while its thread goes on; an instance can die at any step.         *)
(***************************************************************************)
EXTENDS Naturals, FiniteSets

CONSTANTS
  Commands,         \* command_ids published on the topic
  Services,         \* deployed agents, each with its configuration
  Instances,        \* processes
  Workers,          \* threads of the request executors
  ServiceOf,        \* instance -> the service it belongs to
  InstanceOf,       \* worker -> the instance it belongs to
  Kind,             \* command -> what its payload holds, one of Kinds
  Addressee,        \* command -> the "agent" of its payload
  NoAgent,          \* the empty agent name
  Roster,           \* service -> keys of its agent_account_mapping
  OwnAgent,         \* service -> its order_agent.agent_id
  Absent,           \* no object in the bucket, no command in a thread
  Nobody,           \* the order lock is free
  FeedbackRetries,  \* the 3 of "if retry > 3" in _send_agent_feedback
  Faults,           \* the faults this instance of the model may inject
  MaxFaults         \* bound on the number of injected faults

(* "invalid": no command_id or no agent.  "garbled": not JSON.             *)
(* "incomplete": no command.  "chat": CHECK_AGENT.  "query":               *)
(* CHECK_OPEN_INTEREST.  "trade": the order commands.  "unsupported": a    *)
(* name run() has no branch for.                                           *)
Kinds == {"invalid", "garbled", "incomplete", "chat", "query", "trade",
          "unsupported"}

ASSUME IntakeConstants ==
  /\ ServiceOf \in [Instances -> Services]
  /\ InstanceOf \in [Workers -> Instances]
  /\ Kind \in [Commands -> Kinds]
  /\ FeedbackRetries \in Nat
  /\ MaxFaults \in Nat
  /\ Absent \notin Services \cup Commands
  /\ Nobody \notin Workers

VARIABLES
  backlog,   \* backlog[s]: commands Pub/Sub still owes service s
  bucket,    \* bucket[c]: the service whose claim object c is, or Absent
  history,   \* history[i]: _cmd_history of instance i
  lock,      \* lock[i]: the worker that holds _order_agent_lock, or Nobody
  pc,        \* pc[w]: the step worker w takes next
  cmd,       \* cmd[w]: the command of the message worker w handles
  retry,     \* retry[w]: the counter of _send_agent_feedback
  raised,    \* raised[w]: an exception is on its way to the HTTP handler
  late,      \* late[w]: Cloud Run has given up on the request of worker w
  expired,   \* commands whose expire_at has passed
  runs,      \* runs[c]: executions of c against the broker
  posts,     \* posts[c]: feedback POSTs of c sent
  faults     \* injected faults so far

worker == <<cmd, retry, raised, late>>
effects == <<runs, posts>>
vars == <<backlog, bucket, history, lock, pc, cmd, retry, raised, late,
          expired, runs, posts, faults>>

Steps == {"idle", "claim", "lock", "agent", "register", "start", "execute",
          "report", "release", "respond"}

\* The steps a worker takes with _order_agent_lock held.
Locked == {"agent", "register", "start", "execute", "report", "release"}

Home(w) == ServiceOf[InstanceOf[w]]

Inject(f) == f \in Faults /\ faults < MaxFaults /\ faults' = faults + 1

\* A step of a worker that injects no fault.
Smooth == UNCHANGED <<expired, faults>>

GoTo(w, step) == pc' = [pc EXCEPT ![w] = step]

Raise(w) == raised' = [raised EXCEPT ![w] = TRUE]

Init ==
  /\ backlog = [s \in Services |-> Commands]
  /\ bucket = [c \in Commands |-> Absent]
  /\ history = [i \in Instances |-> {}]
  /\ lock = [i \in Instances |-> Nobody]
  /\ pc = [w \in Workers |-> "idle"]
  /\ cmd = [w \in Workers |-> Absent]
  /\ retry = [w \in Workers |-> 0]
  /\ raised = [w \in Workers |-> FALSE]
  /\ late = [w \in Workers |-> FALSE]
  /\ expired = {}
  /\ runs = [c \in Commands |-> 0]
  /\ posts = [c \in Commands |-> 0]
  /\ faults = 0

-----------------------------------------------------------------------------
(* Receiving a push request.                                               *)

\* is_command_for_other_agent: with a mapping an unnamed agent is accepted.
ForOtherAgent(s, c) ==
  IF Roster[s] # {}
  THEN Addressee[c] # NoAgent /\ Addressee[c] \notin Roster[s]
  ELSE Addressee[c] # OwnAgent[s]

\* Mutant of SkippedBeforeClaim: the filter is left to process_order.
FilteredAfterClaim(s, c) == FALSE

\* The filter _handle_pubsub_payload applies before the claim.
SkippedBeforeClaim(s, c) == ForOtherAgent(s, c)

\* Where the handler is once the payload is parsed and filtered.
FirstStep(s, c) ==
  IF Kind[c] \in {"garbled", "invalid"} \/ SkippedBeforeClaim(s, c)
  THEN "respond" ELSE "claim"

\* A live request of service s is already carrying command c.
InFlight(s, c) ==
  \E w \in Workers : pc[w] # "idle" /\ cmd[w] = c /\ ~late[w] /\ Home(w) = s

\* Pub/Sub pushes what it is owed, or, as a fault, pushes a message again.
Deliver(w, c) ==
  /\ pc[w] = "idle"
  /\ \/ c \in backlog[Home(w)] /\ ~InFlight(Home(w), c) /\ UNCHANGED faults
     \/ Inject("duplicate")
  /\ cmd' = [cmd EXCEPT ![w] = c]
  /\ retry' = [retry EXCEPT ![w] = 0]
  /\ raised' = [raised EXCEPT ![w] = Kind[c] = "garbled"]
  /\ late' = [late EXCEPT ![w] = FALSE]
  /\ GoTo(w, FirstStep(Home(w), c))
  /\ UNCHANGED <<backlog, bucket, history, lock, expired, effects>>

-----------------------------------------------------------------------------
(* The claim: create the object only if there is none.                     *)

\* Mutant of Precondition: an unconditional upload (upload_blob).
Unconditional(c) == TRUE

\* if_generation_match=0
Precondition(c) == bucket[c] = Absent

ClaimWon(w) ==
  /\ pc[w] = "claim" /\ Precondition(cmd[w])
  /\ bucket' = [bucket EXCEPT ![cmd[w]] = Home(w)]
  /\ GoTo(w, "lock")
  /\ UNCHANGED <<backlog, history, lock, worker, effects>> /\ Smooth

\* PreconditionFailed: somebody else's.
ClaimLost(w) ==
  /\ pc[w] = "claim" /\ ~Precondition(cmd[w])
  /\ GoTo(w, "respond")
  /\ UNCHANGED <<backlog, bucket, history, lock, worker, effects>> /\ Smooth

\* The object is created but the reply is lost: the client library resends
\* and meets its own object (a 412, "already claimed"), or gives up and raises.
ClaimReplyLost(w) ==
  /\ pc[w] = "claim" /\ Precondition(cmd[w])
  /\ Inject("lost_reply")
  /\ bucket' = [bucket EXCEPT ![cmd[w]] = Home(w)]
  /\ \E r \in BOOLEAN : raised' = [raised EXCEPT ![w] = r]
  /\ GoTo(w, "respond")
  /\ UNCHANGED <<backlog, history, lock, cmd, retry, late, expired, effects>>

\* Any other storage error is raised.
ClaimFailed(w) ==
  /\ pc[w] = "claim"
  /\ Inject("gcs_error")
  /\ Raise(w)
  /\ GoTo(w, "respond")
  /\ UNCHANGED <<backlog, bucket, history, lock, cmd, retry, late, expired,
                 effects>>

Claim(w) == ClaimWon(w) \/ ClaimLost(w) \/ ClaimReplyLost(w) \/ ClaimFailed(w)

-----------------------------------------------------------------------------
(* The order lock and what is done under it.                               *)

\* Mutant of CanLock: a lock per thread.
AlwaysFree(w) == TRUE

CanLock(w) == lock[InstanceOf[w]] = Nobody

AcquireLock(w) ==
  /\ pc[w] = "lock" /\ CanLock(w)
  /\ lock' = [lock EXCEPT ![InstanceOf[w]] = w]
  /\ GoTo(w, "agent")
  /\ UNCHANGED <<backlog, bucket, history, worker, effects>> /\ Smooth

\* get_or_create_agent: the singleton is logged in, or the login raises.
GetAgent(w) ==
  /\ pc[w] = "agent"
  /\ \/ GoTo(w, "register") /\ UNCHANGED <<raised, faults>>
     \/ Inject("login_error") /\ Raise(w) /\ GoTo(w, "release")
  /\ UNCHANGED <<backlog, bucket, history, lock, cmd, retry, late, expired,
                 effects>>

\* process_order up to the call of run(): a payload without a command
\* raises, a command of another agent or one already handled is skipped.
Register(w) ==
  LET i == InstanceOf[w]  c == cmd[w] IN
  /\ pc[w] = "register"
  /\ IF Kind[c] = "incomplete"
     THEN Raise(w) /\ GoTo(w, "release") /\ UNCHANGED history
     ELSE IF ForOtherAgent(Home(w), c) \/ c \in history[i]
     THEN GoTo(w, "release") /\ UNCHANGED <<raised, history>>
     ELSE /\ history' = [history EXCEPT ![i] = @ \cup {c}]
          /\ GoTo(w, "start") /\ UNCHANGED raised
  /\ UNCHANGED <<backlog, bucket, lock, cmd, retry, late, effects>> /\ Smooth

\* Mutant of TooLate: nothing ever expires.
NeverTooLate(c) == FALSE

\* run() refuses an expired command, except the open-interest query.
TooLate(c) == c \in expired /\ Kind[c] # "query"

StartRun(w) ==
  /\ pc[w] = "start"
  /\ GoTo(w, IF TooLate(cmd[w]) \/ Kind[cmd[w]] = "chat" THEN "report"
                                                         ELSE "execute")
  /\ UNCHANGED <<backlog, bucket, history, lock, worker, effects>> /\ Smooth

\* The account of the command's agent is known to this service.
HasAccount(w) == Addressee[cmd[w]] \in Roster[Home(w)]

\* InitAgent and the branch of the command.  A name without a branch makes
\* run() return None and process_order raise; a failing InitAgent (no
\* account, no session) is an answer with success=False.
Execute(w) ==
  LET c == cmd[w] IN
  /\ pc[w] = "execute"
  /\ \/ /\ HasAccount(w) /\ Kind[c] \in {"trade", "query"}
        /\ runs' = [runs EXCEPT ![c] = @ + 1]
        /\ GoTo(w, "report") /\ UNCHANGED <<raised, faults>>
     \/ /\ HasAccount(w) /\ Kind[c] = "unsupported"
        /\ Raise(w) /\ GoTo(w, "release") /\ UNCHANGED <<runs, faults>>
     \/ /\ ~HasAccount(w)
        /\ GoTo(w, "report") /\ UNCHANGED <<raised, runs, faults>>
     \/ /\ HasAccount(w) /\ Inject("login_error")
        /\ GoTo(w, "report") /\ UNCHANGED <<raised, runs>>
  /\ UNCHANGED <<backlog, bucket, history, lock, cmd, retry, late, expired,
                 posts>>

\* Mutant of GivesUp: one attempt too many.
GivesUpLater(n) == n > FeedbackRetries + 1

\* "if retry > 3"
GivesUp(n) == n > FeedbackRetries

\* One POST of _send_agent_feedback: 204 and 4xx end it, any other status
\* and an exception are retried.
PostFeedback(w) ==
  /\ pc[w] = "report"
  /\ posts' = [posts EXCEPT ![cmd[w]] = @ + 1]
  /\ \/ GoTo(w, "release") /\ UNCHANGED retry
     \/ /\ "feedback_error" \in Faults
        /\ IF GivesUp(retry[w])
           THEN GoTo(w, "release") /\ UNCHANGED retry
           ELSE retry' = [retry EXCEPT ![w] = @ + 1] /\ UNCHANGED pc
  /\ UNCHANGED <<backlog, bucket, history, lock, cmd, raised, late, runs>>
  /\ Smooth

\* Mutant of FreedLock: the lock is released on the normal path only.
KeptOnException(w) == IF raised[w] THEN w ELSE Nobody

\* Leaving the with block frees the lock, by an exception too.
FreedLock(w) == Nobody

\* CloseAgent (a no-op here) and the end of the with block.
Release(w) ==
  /\ pc[w] = "release"
  /\ lock' = [lock EXCEPT ![InstanceOf[w]] = FreedLock(w)]
  /\ GoTo(w, "respond")
  /\ UNCHANGED <<backlog, bucket, history, worker, effects>> /\ Smooth

-----------------------------------------------------------------------------
(* The HTTP answer and Pub/Sub's reading of it.                            *)

\* Mutant of HttpStatus: the marker of the tuple is the status.
TupleStatus(failed) == IF failed THEN 500 ELSE 204

\* The handler returns the tuples ("", 204) and ("", 500).  FastAPI encodes a
\* returned tuple as a JSON body: the status of the response is 200 for both.
HttpStatus(failed) == IF failed THEN 200 ELSE 200

\* Pub/Sub counts a success status that arrives in time as an acknowledgement.
Acked(w) == HttpStatus(raised[w]) < 300 /\ ~late[w]

Respond(w) ==
  /\ pc[w] = "respond"
  /\ backlog' = IF Acked(w)
                THEN [backlog EXCEPT ![Home(w)] = @ \ {cmd[w]}] ELSE backlog
  /\ cmd' = [cmd EXCEPT ![w] = Absent]
  /\ retry' = [retry EXCEPT ![w] = 0]
  /\ raised' = [raised EXCEPT ![w] = FALSE]
  /\ late' = [late EXCEPT ![w] = FALSE]
  /\ GoTo(w, "idle")
  /\ UNCHANGED <<bucket, history, lock, effects>> /\ Smooth

-----------------------------------------------------------------------------
(* The world around the program.                                           *)

\* The expire_at of a command passes.
Expire(c) ==
  /\ "expiry" \in Faults /\ c \notin expired
  /\ expired' = expired \cup {c}
  /\ UNCHANGED <<backlog, bucket, history, lock, pc, worker, effects, faults>>

\* Cloud Run ends the request of a busy worker; its thread goes on.
Timeout(w) ==
  /\ pc[w] # "idle" /\ ~late[w]
  /\ Inject("timeout")
  /\ late' = [late EXCEPT ![w] = TRUE]
  /\ UNCHANGED <<backlog, bucket, history, lock, pc, cmd, retry, raised,
                 expired, effects>>

\* The process dies; its memory is gone, the bucket and Pub/Sub remain.
Crash(i) ==
  LET Here(w) == InstanceOf[w] = i IN
  /\ Inject("crash")
  /\ history' = [history EXCEPT ![i] = {}]
  /\ lock' = [lock EXCEPT ![i] = Nobody]
  /\ pc' = [w \in Workers |-> IF Here(w) THEN "idle" ELSE pc[w]]
  /\ cmd' = [w \in Workers |-> IF Here(w) THEN Absent ELSE cmd[w]]
  /\ retry' = [w \in Workers |-> IF Here(w) THEN 0 ELSE retry[w]]
  /\ raised' = [w \in Workers |-> IF Here(w) THEN FALSE ELSE raised[w]]
  /\ late' = [w \in Workers |-> IF Here(w) THEN FALSE ELSE late[w]]
  /\ UNCHANGED <<backlog, bucket, expired, effects>>

-----------------------------------------------------------------------------
WorkerStep(w) ==
  \/ Claim(w)
  \/ AcquireLock(w)
  \/ GetAgent(w)
  \/ Register(w)
  \/ StartRun(w)
  \/ Execute(w)
  \/ PostFeedback(w)
  \/ Release(w)
  \/ Respond(w)

Next ==
  \/ \E w \in Workers : \/ \E c \in Commands : Deliver(w, c)
                        \/ WorkerStep(w)
                        \/ Timeout(w)
  \/ \E c \in Commands : Expire(c)
  \/ \E i \in Instances : Crash(i)

Spec == Init /\ [][Next]_vars

(* A thread that can run does run, and Pub/Sub keeps pushing to a service  *)
(* what it is still owed.                                                  *)
Redelivery(s, c) == \E w \in Workers : Home(w) = s /\ Deliver(w, c)

FairSpec ==
  /\ Spec
  /\ \A w \in Workers : WF_vars(WorkerStep(w))
  /\ \A s \in Services, c \in Commands : WF_vars(Redelivery(s, c))

-----------------------------------------------------------------------------
(* Properties.                                                             *)

\* Every variable stays in its domain; the retry counter of the feedback
\* stops one above its limit.
TypeOK ==
  /\ backlog \in [Services -> SUBSET Commands]
  /\ bucket \in [Commands -> Services \cup {Absent}]
  /\ history \in [Instances -> SUBSET Commands]
  /\ lock \in [Instances -> Workers \cup {Nobody}]
  /\ pc \in [Workers -> Steps]
  /\ cmd \in [Workers -> Commands \cup {Absent}]
  /\ \A w \in Workers : (cmd[w] = Absent) <=> (pc[w] = "idle")
  /\ retry \in [Workers -> 0..(FeedbackRetries + 1)]
  /\ raised \in [Workers -> BOOLEAN]
  /\ late \in [Workers -> BOOLEAN]
  /\ expired \in SUBSET Commands
  /\ runs \in [Commands -> Nat]
  /\ posts \in [Commands -> Nat]
  /\ faults \in Nat

\* A command reaches the broker at most once, over all services, instances,
\* threads, redeliveries and restarts (try_claim_command: "so only one
\* instance processes it").
AtMostOnce == \A c \in Commands : runs[c] <= 1

\* The SDK session of a process is used by one thread at a time: two workers
\* of one instance are never both inside the with _order_agent_lock block.
OneAtATime ==
  \A v, w \in Workers :
    InstanceOf[v] = InstanceOf[w] /\ pc[v] \in Locked /\ pc[w] \in Locked => v = w

\* The feedback function hears of one command at most five times, however
\* often the command is redelivered and the instances restarted.
FeedbackBounded == \A c \in Commands : posts[c] <= FeedbackRetries + 2

\* A worker is executing c, or about to.
Executing(c) == \E w \in Workers : cmd[w] = c /\ pc[w] = "execute"

\* Once a command has expired and no worker is past the expiry check with it,
\* it is not executed and no worker gets past the check with it again, in any
\* later delivery (the open-interest query is exempt from expiry).
ExpiredIsRefused ==
  [][\A c \in expired :
       Kind[c] # "query" /\ ~Executing(c)
         => runs'[c] = runs[c] /\ ~Executing(c)']_vars

\* A thread waiting for the order lock gets it or dies: the lock is freed
\* on every path, by exceptions, failed logins and crashes too.
LockIsGranted ==
  \A w \in Workers : pc[w] = "lock" ~> pc[w] # "lock"

\* A service that has the account of the command's agent may execute it.
CanServe(c) ==
  /\ Kind[c] \in {"trade", "query"}
  /\ \E i \in Instances : Addressee[c] \in Roster[ServiceOf[i]]

\* Without storage and login errors every command some service can serve is
\* executed, unless it expired first: no other service claims it away, no
\* duplicate, slow request or failing neighbour keeps it from its turn.
EveryCommandRuns ==
  \A c \in Commands : CanServe(c) => <>(runs[c] = 1 \/ c \in expired)

\* Whatever fails, no subscription keeps a message for ever: a payload that
\* always raises is acknowledged like the others.
BacklogDrains == <>[](\A s \in Services : backlog[s] = {})

\* try_claim_command: "Raises on unexpected GCS errors so Pub/Sub can retry."
\* A command its service dropped from the subscription has been claimed.
ClaimErrorIsRetried ==
  \A s \in Services, c \in Commands :
    (c \notin backlog[s] /\ FirstStep(s, c) = "claim") => bucket[c] # Absent

\* Every service that accepts c has the account of its agent.
ServedWhereAccepted(c) ==
  \A s \in Services : ~ForOtherAgent(s, c) => Addressee[c] \in Roster[s]

\* c was executed, it expired first (the open-interest query is exempt), or a
\* worker that owns it is still on its way to the broker with it.
Handled(c) ==
  \/ runs[c] = 1
  \/ c \in expired /\ Kind[c] # "query"
  \/ \E w \in Workers :
       cmd[w] = c /\ pc[w] \in {"lock", "agent", "register", "start", "execute"}

\* An acknowledgement loses no command: what a subscription has dropped
\* without a crash, a lost reply, a storage or a login error was executed or
\* will be, whichever of its deliveries was acknowledged, and whatever
\* duplicate met a claim already made or a history already written.
AcknowledgedIsHandled ==
  \A s \in Services, c \in Commands :
    /\ Kind[c] \in {"trade", "query"} /\ ServedWhereAccepted(c)
    /\ Addressee[c] \in Roster[s] /\ c \notin backlog[s]
    => Handled(c)

\* The intake implements the ledger of CommandLedger.
Ledger == INSTANCE CommandLedger WITH
            claim <- bucket, executions <- runs, answers <- posts,
            MaxPosts <- FeedbackRetries + 2,
            MayServe <- {p \in Services \X Commands : FirstStep(p[1], p[2]) = "claim"}

LedgerSpec == Ledger!LedgerSpec
=============================================================================

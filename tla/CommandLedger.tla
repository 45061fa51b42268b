--------------------------- MODULE CommandLedger ---------------------------
(***************************************************************************)
(* What the intake promises of a command, whatever the number of services, *)
(* instances, threads, redeliveries and restarts: it is claimed by at most *)
(* one service, for good, and only by one that may serve it; only a        *)
(* claimed command reaches the broker, at most once; and its result is     *)
(* posted to the feedback function at most MaxPosts times.                 *)
(***************************************************************************)
EXTENDS Naturals

CONSTANTS
  Commands,   \* the command_ids published on the topic
  Services,   \* the deployed agents
  Absent,     \* no claim object in the bucket
  MaxPosts,   \* bound on the feedback POSTs of one command
  MayServe    \* <<service, command>> pairs a service does not skip

VARIABLES
  claim,      \* claim[c]: the service that owns command c, or Absent
  executions, \* executions[c]: how often c was handed to the broker
  answers     \* answers[c]: how many POSTs of c the feedback function saw

ledger == <<claim, executions, answers>>

LedgerInit ==
  /\ claim = [c \in Commands |-> Absent]
  /\ executions = [c \in Commands |-> 0]
  /\ answers = [c \in Commands |-> 0]

\* A service takes a command nobody owns.
TakeClaim(s, c) ==
  /\ claim[c] = Absent
  /\ <<s, c>> \in MayServe
  /\ claim' = [claim EXCEPT ![c] = s]
  /\ UNCHANGED <<executions, answers>>

\* The owner's one execution of the command.
ExecuteOnce(c) ==
  /\ claim[c] # Absent
  /\ executions[c] = 0
  /\ executions' = [executions EXCEPT ![c] = 1]
  /\ UNCHANGED <<claim, answers>>

\* The feedback function receives (another copy of) the result.
AnswerOnce(c) ==
  /\ claim[c] # Absent
  /\ answers[c] < MaxPosts
  /\ answers' = [answers EXCEPT ![c] = @ + 1]
  /\ UNCHANGED <<claim, executions>>

LedgerNext ==
  \E c \in Commands : \/ \E s \in Services : TakeClaim(s, c)
                      \/ ExecuteOnce(c)
                      \/ AnswerOnce(c)

LedgerSpec == LedgerInit /\ [][LedgerNext]_ledger
=============================================================================

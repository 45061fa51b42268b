-------------------------- MODULE MCCommandIntake --------------------------
(***************************************************************************)
(* Small instances of CommandIntake: three threads, two of one process and *)
(* one of a second process of the same service or of another service.      *)
(***************************************************************************)
EXTENDS CommandIntake, TLC

CONSTANTS sA, sB,          \* services
          iA, iA2, iB,     \* instances of sA, of sA and of sB
          w1, w2, w3,      \* threads
          c1, c2, c3,      \* commands
          alice, bob       \* agents served by sA and by sB

MCServiceOf == [i \in Instances |-> IF i = iB THEN sB ELSE sA]

\* Two threads of one process and one of the other service.
OneProcess == [w \in Workers |-> IF w = w3 THEN iB ELSE iA]

\* Two threads of one process and one of a second process of its service.
TwoProcesses == [w \in Workers |-> IF w = w3 THEN iA2 ELSE iA]

TradeAndQuery == [c \in Commands |-> IF c = c1 THEN "trade" ELSE "query"]

\* One command to execute and two whose handling raises, under the order lock
\* and before it.
TradeAndUnusable == [c \in Commands |-> CASE c = c1 -> "trade"
                                          [] c = c2 -> "unsupported"
                                          [] OTHER -> "garbled"]

ForAlice == [c \in Commands |-> alice]
Unnamed == [c \in Commands |-> IF c = c1 THEN alice ELSE NoAgent]

Rosters == [s \in Services |-> IF s = sA THEN {alice} ELSE {bob}]
Owners == [s \in Services |-> IF s = sA THEN alice ELSE bob]

\* The two threads of iA are interchangeable.
Threads == Permutations({w1, w2})
=============================================================================

----------------------- MODULE MC_OperationRecovery -----------------------
(* OperationRecovery on three small instances, one in a behaviour; they     *)
(* share the constants, and use a part of the processes and keys each:      *)
(* "overlap": processes that may overlap, a disk that may fail, deliveries  *)
(*            of one operation with either command;                         *)
(* "restart": one process after the other, room for one receipt, a disk     *)
(*            that may fail, and two operations, two commands or a query;   *)
(* "query":   one process after the other, a healthy disk, one operation,   *)
(*            a query at any moment, either exit code.                      *)
EXTENDS OperationRecovery, TLC

CONSTANTS p1, p2, h1, h2

Overlap == INSTANCE OperationRecovery WITH Proc <- {h1, h2}, Query <- {}
Restart == INSTANCE OperationRecovery WITH Proc <- {p1, p2}, Capacity <- 1

VARIABLE focus

Started  == {p \in Proc : life[p] # "unborn"}
Keys     == ({key[c] : c \in Call} \cup {qkey[q] : q \in Query}) \ {Nobody}
OneKey   == Cardinality(Keys) <= 1
OneInput == Cardinality({cmd[c] : c \in Call} \ {Nobody}) <= 1
InOrder  == (p2 \in Started => p1 \in Started) /\ (h2 \in Started => h1 \in Started)
NoQuery  == \A q \in Query : qpc[q] = "idle"
Success  == /\ \A p \in Proc, k \in Key : pane[p][k].code \in {0, Failed, Refused}
            /\ \A c \in Call : outcome[c].code \in {0, Failed, Refused}

\* Of another key, another command and a query, one at most.
OneMore == (OneKey /\ OneInput) \/ (OneKey /\ NoQuery) \/ (OneInput /\ NoQuery)

MCInit == Init /\ focus \in {"overlap", "restart", "query"}

MCNext ==
    \/ /\ focus = "overlap" /\ Overlap!Next /\ UNCHANGED focus
       /\ (Keys \subseteq Faulty /\ OneKey /\ Success /\ InOrder)'
    \/ /\ focus = "restart" /\ Restart!Next /\ UNCHANGED focus
       /\ (Keys \subseteq Faulty /\ OneMore /\ Success /\ InOrder)'
    \/ /\ focus = "query" /\ Restart!Next /\ UNCHANGED focus
       /\ (Keys \subseteq Key \ Faulty /\ OneKey /\ OneInput /\ InOrder)'

MCSpec == MCInit /\ [][MCNext]_<<vars, focus>>

Symmetric == Permutations(Call) \cup Permutations(Input) \cup Permutations(Faulty)
=============================================================================

----------------------- MODULE MC_InvocationReceipts -----------------------
(* ReceiptPromises on three small instances, one in a behaviour; they share  *)
(* the constants, and use a part of the processes, ids and inputs each:      *)
(* "restart": three deliveries of one desktop action, a crash or a restart,  *)
(*            a disk that may fail;                                          *)
(* "handoff": two deliveries of one id, of a plugin call or of a desktop     *)
(*            action, and a hand-over that may fail at every stage;          *)
(* "limits":  one process that may fail to restart, two ids and room for     *)
(*            one receipt, keys and a command, a failing disk.               *)
EXTENDS ReceiptPromises, Sequences, TLC

CONSTANTS i1, p1, p2, f1, f2

Restart == INSTANCE InvocationReceipts WITH Plugin <- {}, Command <- {}, Keys <- {}
Handoff == INSTANCE InvocationReceipts WITH Command <- {}, Keys <- {}, StorageFaults <- FALSE
Limits  == INSTANCE InvocationReceipts WITH Plugin <- {}, Desktop <- {}

VARIABLE focus

Started == {p \in Proc : life[p] # "unborn"}
Arrived == {c \in Call : pc[c] # "new"}

\* The processes in their order, the ids and the number of deliveries of a
\* behaviour.
Within(procs, ids, deliveries) ==
    /\ \E n \in 0..Len(procs) : Started = {procs[k] : k \in 1..n}
    /\ Cardinality(Arrived) <= deliveries /\ \A c \in Arrived : id[c] \in ids

\* Of three deliveries one is at the other process; the process that comes
\* last does not hand over once more.
AllInOne == Cardinality(Arrived) = 3 /\ \E p \in Proc : \A c \in Arrived : proc[c] = p
Again == Cardinality(Started) = 2 /\ \E p \in Proc : restart[p] = "none" /\ restart'[p] = "begun"

MCInit == Init /\ focus \in {"restart", "handoff", "limits"}

MCNext ==
    \/ /\ focus = "restart" /\ Restart!Next /\ (Within(<<p1, p2>>, {i1}, 3) /\ ~AllInOne)' /\ ~Again
       /\ UNCHANGED focus
    \/ focus = "handoff" /\ Handoff!Next /\ Within(<<f1, f2>>, {i1}, 2)' /\ ~Again /\ UNCHANGED focus
    \/ focus = "limits" /\ Limits!Next /\ Within(<<f1>>, Id, 2)' /\ UNCHANGED focus

MCSpec == MCInit /\ [][MCNext]_<<vars, focus>>

Interchangeable == Permutations(Call)
=============================================================================

------------------------------ MODULE MC_Rooms ------------------------------
(* Instances of RoomTasks, RoomRelay and RoomConsole, checked side by side: a *)
(* behaviour is one of one of them, and the others stay in their initial      *)
(* state.                                                                     *)
EXTENDS RoomConsole, TLC

CONSTANTS Task, NoTask, Parent, Assignee, Capacity, MaxEvents, MaxRequests, MaxRev, MaxLate, MaxControl
CONSTANTS LeaderSock, ClientSock, Call, User, From, NoSock, MaxPending, MaxConnections
CONSTANTS say, ask, tp, tc, tw, k1, k2, l1, l2, a1

VARIABLES room, task, rev, requests, x, conn, callable, late, control
VARIABLES cl, srv, fresh, connections, valid, rs, rc, via, was, ls, cs, stored, effects, cur, timer, closed
VARIABLE focus

MCParent == tp :> NoTask @@ tc :> tp
MCAssignee == tp :> tw @@ tc :> tw
MCFrom == [k \in Call |-> IF k = k1 THEN "client" ELSE User]
Symmetry == Permutations(LeaderSock)

T == INSTANCE RoomTasks
R == INSTANCE RoomRelay

\* A Room has finitely many tasks, each with a parent or without one; the
\* history of a task has room for its creation and its end.
ASSUME TasksAssumption ==
    /\ IsFiniteSet(Task) /\ NoTask \notin Task /\ Parent \in [Task -> Task \cup {NoTask}]
    /\ MaxEvents \in Nat /\ MaxEvents > 1 /\ MaxRequests \in Nat

\* A relay has finitely many calls and a limit of those that wait; a socket is
\* a runtime's or a client's.
ASSUME RelayAssumption ==
    /\ IsFiniteSet(Call) /\ MaxPending \in Nat
    /\ LeaderSock \cap ClientSock = {} /\ NoSock \notin LeaderSock \cup ClientSock

taskVars == <<room, task, rev, requests, x, conn, callable, late, control>>
relayVars == <<cl, srv, fresh, connections, valid, rs, rc, via, was, ls, cs, stored, effects, cur, timer,
               closed>>
allVars == <<focus, taskVars, relayVars, vars>>

MCInit ==
    /\ focus \in {"tasks", "relay", "console"}
    /\ T!Init /\ R!Init /\ Init /\ (focus # "console" => revision = 0)

MCNext ==
    \/ focus = "tasks" /\ T!Next /\ UNCHANGED <<focus, relayVars, vars>>
    \/ focus = "relay" /\ R!Next /\ UNCHANGED <<focus, taskVars, vars>>
    \/ focus = "console" /\ Next /\ UNCHANGED <<focus, taskVars, relayVars>>

MCSpec == MCInit /\ [][MCNext]_allVars

(* One execution of a task at a time, its end accepted whatever the limits, and   *)
(* no task that waits for children it does not have (room-tasks.mjs, runner.mjs). *)
TasksAreSound == T!OneExecution /\ T!EndIsNeverRefused /\ T!WaitingHasChildren

(* A task that was stopped or has ended stays so, and has no effect any more.     *)
StopsAreFinal == T!StoppedIsStopped /\ T!NoEffectAfterEnd

(* One leader at a time; its waiting calls are those of its own connection and    *)
(* within the limit, and a request that is sent twice has one effect; the client  *)
(* that lost its socket always has an attempt or a timer left (relay.mjs).        *)
RelayIsSound == R!OneLeader /\ R!PendingIsOwned /\ R!PendingBound /\ R!OneEffect /\ R!NeverGivesUp
=============================================================================

------------------------------ MODULE RoomTasks ------------------------------
(* Tasks of a Room: the leader's ledger and the runners that execute them,   *)
(* src/packages/fleet-worker/src/room-tasks.mjs, room-control.mjs and        *)
(* src/packages/fleet-room/runner.mjs, acp.mjs.                              *)
(*                                                                           *)
(* Every ledger operation is one transaction of the leader.  The runner's    *)
(* requests to it may be lost, with or without their effect, or take effect  *)
(* after the runner has given up (relay, client timeouts, disconnection).    *)
(* One Room, one session of each agent; a task is delegated once, by the     *)
(* user as a message or by a tool call of its parent's execution.            *)
EXTENDS Integers, FiniteSets

CONSTANTS
    Task, NoTask,
    Parent,           \* Task -> Task \cup {NoTask}
    Assignee,         \* Task -> agents
    Capacity,
    MaxEvents,        \* MAX_EVENTS
    MaxRequests,      \* MAX_REQUESTS
    MaxRev, MaxLate, MaxControl    \* bounds of the model

VARIABLES
    room,         \* paused, members
    task,         \* rows of tasks
    rev,          \* contextRev of the discussion
    requests,     \* usage.requestCount
    x,            \* executions of the runners: Map active
    conn,         \* runners with a connection to the relay
    callable,     \* agents with a heartbeat of the last minute
    late,         \* requests that the runner has given up
    control       \* pauses and removals, counted

ledger == <<room, task, rev, requests>>
runner == <<x, conn, callable, late, control>>
vars == <<room, task, rev, requests, x, conn, callable, late, control>>

Agent == {Assignee[t] : t \in Task}
Active == {"running", "cancel_requested", "unknown"}
Terminal == {"completed", "cancelled", "failed"}

NoTaskRow == [st |-> "none", epoch |-> 0, lease |-> FALSE, events |-> 0]
NoRun == [pc |-> "idle", epoch |-> 0, proc |-> FALSE, cap |-> FALSE, tool |-> "none",
          abort |-> FALSE, kids |-> FALSE, rev |-> 0, tries |-> 0, why |-> "none"]

-----------------------------------------------------------------------------
(* The ledger.                                                               *)

Children(tf, t) == {c \in Task : Parent[c] = t /\ tf[c].st # "none"}
AllEnded(tf, t) == \A c \in Children(tf, t) : tf[c].st \in Terminal

\* taskView: an execution whose lease ran out is unknown.
View(t) == IF task[t].st = "running" /\ ~task[t].lease THEN "unknown" ELSE task[t].st

ClaimLimit == MaxEvents - 2

\* resumeParent: the last child that ends queues the waiting parent again.
Resumed(tf, t) ==
    LET p == Parent[t] IN
    IF tf[t].st \in Terminal /\ p # NoTask /\ tf[p].st = "waiting" /\ AllEnded(tf, p)
    THEN [tf EXCEPT ![p].st = "queued", ![p].events = @ + 1]
    ELSE tf

\* saveTask: one event of every change.
Saved(t, row) == Resumed([task EXCEPT ![t] = [row EXCEPT !.events = @ + 1]], t)

Fits(t, limit) == task[t].events < limit

\* Requests beyond the limit: what ends a task still has room, two receipts of
\* every task.
Reserve == MaxRequests + 2 * Cardinality(Task)

Admitted(critical) == requests < IF critical THEN Reserve ELSE MaxRequests
Counted == requests' = requests + 1

Member(t) == Assignee[t] \in room.members

SessionIdle(t) == \A u \in Task : Assignee[u] = Assignee[t] => View(u) # "running"

\* claim: one execution of a session; the ledger has one session of an agent.
SessionFree(t) == \A u \in Task : Assignee[u] = Assignee[t] => View(u) \notin Active

CanClaim(t) ==
    /\ Member(t) /\ ~room.paused /\ task[t].st = "queued"
    /\ callable[Assignee[t]] /\ SessionFree(t)
    /\ Fits(t, ClaimLimit) /\ Admitted(FALSE)

Claimed(t) == Saved(t, [task[t] EXCEPT !.st = "running", !.epoch = @ + 1, !.lease = TRUE])

Holds(t, epoch) == Member(t) /\ task[t].epoch = epoch /\ View(t) = "running"

\* renewTask: the lease, which runs out at some time, begins anew.
CanRenew(t, epoch) == Holds(t, epoch) /\ ~room.paused

\* delegate, by a tool of the parent's execution.
CanDelegate(c) ==
    /\ task[c].st = "none" /\ ~room.paused /\ Member(c) /\ Member(Parent[c]) /\ callable[Assignee[c]]
    /\ View(Parent[c]) \notin Terminal \cup {"cancel_requested", "unknown"}
    /\ Admitted(FALSE)

Delegated(c) == Saved(c, [NoTaskRow EXCEPT !.st = "queued"])

WaitLimit == MaxEvents - 5

\* tasks.wait: waits for children, or goes on at once.
CanWait(t, epoch) == Holds(t, epoch) /\ Fits(t, WaitLimit) /\ Children(task, t) # {} /\ Admitted(FALSE)

Waiting(t) ==
    Saved(t, [task[t] EXCEPT !.st = IF AllEnded(task, t) THEN "queued" ELSE "waiting", !.lease = FALSE])

\* tasks.complete; the reply to a message is appended to what was read.
IsMessage(t) == Parent[t] = NoTask
CanComplete(t, epoch) == Holds(t, epoch) /\ Fits(t, MaxEvents) /\ Admitted(TRUE)
Conflict(t, r) == IsMessage(t) /\ r # rev

Ended(t, s) == Saved(t, [task[t] EXCEPT !.st = s, !.lease = FALSE])

\* tasks.stopped: also from a member that was removed, also of what is unknown.
CanStop(t, epoch) == task[t].epoch = epoch /\ View(t) \in Active /\ Fits(t, MaxEvents) /\ Admitted(TRUE)

-----------------------------------------------------------------------------
(* The effect of a runner's request on the ledger.                           *)

Refuses(op) ==
    LET t == op.t IN
    CASE op.do = "claim"    -> ~CanClaim(t)
      [] op.do = "renew"    -> ~CanRenew(t, op.epoch)
      [] op.do = "delegate" -> ~CanDelegate(t)
      [] op.do = "wait"     -> ~CanWait(t, op.epoch)
      [] op.do = "complete" -> ~CanComplete(t, op.epoch) \/ Conflict(t, op.rev)
      [] op.do = "fail"     -> ~CanComplete(t, op.epoch)
      [] op.do = "stopped"  -> ~CanStop(t, op.epoch)

Effect(op) ==
    LET t == op.t IN
    /\ task' = CASE op.do = "claim"    -> Claimed(t)
                 [] op.do = "renew"    -> task
                 [] op.do = "delegate" -> Delegated(t)
                 [] op.do = "wait"     -> Waiting(t)
                 [] op.do = "complete" -> Ended(t, "completed")
                 [] op.do = "fail"     -> Ended(t, "failed")
                 [] op.do = "stopped"  -> Ended(t, "cancelled")
    /\ rev' = IF op.do = "complete" /\ IsMessage(t) THEN rev + 1 ELSE rev
    /\ IF op.do = "renew" THEN UNCHANGED requests ELSE Counted
    /\ UNCHANGED room

Op(what, t) == [do |-> what, t |-> t, epoch |-> x[t].epoch, rev |-> x[t].rev]

\* A request that is answered, with its effect or a refusal.
Served(op)  == conn[Assignee[op.t]] /\ ~Refuses(op) /\ Effect(op)
Refused(op) == conn[Assignee[op.t]] /\ Refuses(op) /\ UNCHANGED ledger

\* A request without an answer: it may still take effect, or not.
Lost(op) ==
    /\ late' \in {late} \cup (IF Cardinality(late) < MaxLate THEN {late \cup {op}} ELSE {})
    /\ UNCHANGED ledger

LateArrives == \E op \in late :
    /\ late' = late \ {op}
    /\ IF Refuses(op) THEN UNCHANGED ledger ELSE Effect(op)
    /\ UNCHANGED <<x, conn, callable, control>>

LateIsDropped == late # {} /\ late' = {} /\ UNCHANGED <<ledger, x, conn, callable, control>>

-----------------------------------------------------------------------------
(* The runner.                                                               *)

Move(t, r) == x' = [x EXCEPT ![t] = r]
At(t, pc) == x[t].pc = pc
Failing(t, why) == [x[t] EXCEPT !.pc = "fail", !.why = why]

\* poll: a queued task is claimed; a runner whose connection broke meanwhile
\* aborts it.
MayTake(t) ==
    /\ At(t, "idle") /\ conn[Assignee[t]]
    /\ Cardinality({u \in Task : Assignee[u] = Assignee[t] /\ ~At(u, "idle")}) < Capacity

Claim(t) ==
    /\ MayTake(t) /\ task[t].st = "queued"
    /\ \/ Served(Op("claim", t)) /\ Move(t, [NoRun EXCEPT !.pc = "permit", !.epoch = task'[t].epoch])
          /\ UNCHANGED late
       \/ Lost(Op("claim", t)) /\ late' # late /\ UNCHANGED x
    /\ UNCHANGED <<conn, callable, control>>

\* executionPermit: the task and the Room as they are now.
Permit(t) ==
    /\ ~x[t].abort /\ ~room.paused /\ View(t) = "running" /\ task[t].epoch = x[t].epoch

Permitted(t, from, next) ==
    /\ At(t, from)
    /\ \/ conn[Assignee[t]] /\ Permit(t) /\ Member(t) /\ Move(t, next)
       \/ conn[Assignee[t]] /\ Member(t) /\ ~Permit(t) /\ Move(t, Failing(t, "revoked"))
       \/ conn[Assignee[t]] /\ ~Member(t) /\ ~x[t].abort /\ Move(t, Failing(t, "error"))
       \/ x[t].abort /\ Move(t, Failing(t, "revoked"))
       \/ ~x[t].abort /\ Move(t, Failing(t, "lost"))
    /\ UNCHANGED <<ledger, conn, callable, late, control>>

Permit1(t) == Permitted(t, "permit", [x[t] EXCEPT !.pc = "open", !.cap = TRUE, !.proc = TRUE])

\* AcpSession.open.
Open(t) ==
    /\ At(t, "open")
    /\ \/ ~x[t].abort /\ Move(t, [x[t] EXCEPT !.pc = "permit2"])
       \/ Move(t, [Failing(t, "error") EXCEPT !.proc = FALSE])
    /\ UNCHANGED <<ledger, conn, callable, late, control>>

\* The second permit, and the discussion read with its revision.
Permit2(t) == Permitted(t, "permit2", [x[t] EXCEPT !.pc = "prompt", !.rev = rev])

\* AcpSession.prompt: the turn ends, is cancelled, or its end is not known.
PromptEnds(t) ==
    /\ At(t, "prompt")
    /\ \/ Move(t, [x[t] EXCEPT !.pc = "revoke"])
       \/ Move(t, [Failing(t, "unknown") EXCEPT !.proc = FALSE])
    /\ UNCHANGED <<ledger, conn, callable, late, control>>

Settled(t) == x[t].tool = "none"
\* revokeTools: no new call, and the calls that run are waited for, 5 seconds.
RevokeTools(t) ==
    /\ At(t, "revoke") \/ (At(t, "fail") /\ x[t].cap)
    /\ \/ x[t].cap /\ Move(t, [x[t] EXCEPT !.cap = FALSE])
       \/ ~x[t].cap /\ Settled(t) /\ Move(t, [x[t] EXCEPT !.pc = "settle"])
       \/ ~x[t].cap /\ x[t].tool # "none" /\ Move(t, Failing(t, "unknown"))
    /\ UNCHANGED <<ledger, conn, callable, late, control>>

\* After the turn: a stop is acknowledged when the process is gone; children
\* are waited for; the result is stored.
Cancelled(t) ==
    /\ At(t, "settle") /\ x[t].abort
    /\ Move(t, [x[t] EXCEPT !.pc = "stop", !.proc = FALSE])
    /\ UNCHANGED <<ledger, conn, callable, late, control>>

Permit3(t) == ~x[t].abort /\ Permitted(t, "settle", [x[t] EXCEPT !.pc = IF x[t].kids THEN "wait" ELSE "complete"])

Gone(t) == [x[t] EXCEPT !.pc = "close"]

Asks(t, what, pc, refused) ==
    /\ At(t, pc)
    /\ \/ Served(Op(what, t)) /\ Move(t, Gone(t)) /\ UNCHANGED late
       \/ Refused(Op(what, t)) /\ Move(t, refused) /\ UNCHANGED late
       \/ Lost(Op(what, t)) /\ Move(t, Failing(t, "lost"))
    /\ UNCHANGED <<conn, callable, control>>

Wait(t) == Asks(t, "wait", "wait", Failing(t, "error"))

\* A reply to an older discussion is made again, twice.
Complete(t) ==
    Asks(t, "complete", "complete",
         IF CanComplete(t, x[t].epoch) /\ x[t].tries < 2
         THEN [x[t] EXCEPT !.pc = "prompt", !.rev = rev, !.tries = @ + 1]
         ELSE Failing(t, "error"))

Stop(t) == Asks(t, "stopped", "stop", Failing(t, "error"))

\* The catch block: tools revoked, the process closed, and the end reported
\* unless it is not known.
Acknowledges(t) == x[t].why \notin {"unknown", "lost"}

FailClosed(t) ==
    /\ At(t, "fail") /\ ~x[t].cap
    /\ \/ Settled(t) /\ Move(t, [x[t] EXCEPT !.proc = FALSE,
                                   !.pc = IF Acknowledges(t) THEN "report" ELSE "close"])
       \/ x[t].tool # "none" /\ Move(t, [x[t] EXCEPT !.proc = FALSE, !.pc = "close"])
    /\ UNCHANGED <<ledger, conn, callable, late, control>>

Report(t) ==
    LET op == Op(IF x[t].abort \/ x[t].why = "revoked" THEN "stopped" ELSE "fail", t) IN
    /\ At(t, "report")
    /\ \/ (Served(op) \/ Refused(op)) /\ UNCHANGED late
       \/ Lost(op)
    /\ Move(t, Gone(t))
    /\ UNCHANGED <<conn, callable, control>>

\* finally: the session closed, the execution forgotten; a call that has not
\* settled may still be under way.
Close(t) ==
    /\ At(t, "close") /\ x' = [x EXCEPT ![t] = [NoRun EXCEPT !.tool = x[t].tool]]
    /\ UNCHANGED <<ledger, conn, callable, late, control>>

\* The renewal interval.
Renew(t) ==
    /\ x[t].pc \notin {"idle", "permit", "close"} /\ ~x[t].abort
    /\ \/ Refused(Op("renew", t)) /\ Move(t, [x[t] EXCEPT !.abort = TRUE]) /\ UNCHANGED late
       \/ Lost(Op("renew", t)) /\ Move(t, [x[t] EXCEPT !.abort = TRUE])
    /\ UNCHANGED <<conn, callable, control>>

-----------------------------------------------------------------------------
(* Tool calls of an execution (handleTool), one at a time.                   *)

Tool(t, s) == Move(t, [x[t] EXCEPT !.tool = s])

ToolStarts(t) ==
    /\ x[t].cap /\ x[t].proc /\ x[t].tool = "none" /\ Tool(t, "started")
    /\ UNCHANGED <<ledger, conn, callable, late, control>>

MayAct(t) == conn[Assignee[t]] /\ Member(t) /\ Permit(t) /\ x[t].cap

\* The task and the Room are read again before the tool does anything.
ToolChecked(t) ==
    /\ x[t].tool = "started" /\ Tool(t, IF MayAct(t) THEN "checked" ELSE "none")
    /\ UNCHANGED <<ledger, conn, callable, late, control>>

\* fleet_run: authorized, and the permit read once more.
ToolPermitted(t) ==
    /\ x[t].tool = "checked" /\ Tool(t, IF MayAct(t) THEN "permitted" ELSE "none")
    /\ UNCHANGED <<ledger, conn, callable, late, control>>

UnlessAborted(t) == ~x[t].abort

\* What revokeTools and an abort take away, also from a call under way.
StillAllowed(t) == x[t].cap /\ ~x[t].abort

\* The command goes to the device.
ToolSends(t) ==
    /\ x[t].tool = "permitted" /\ Tool(t, IF StillAllowed(t) THEN "sent" ELSE "none")
    /\ UNCHANGED <<ledger, conn, callable, late, control>>

\* room_delegate: a child, waited for if its delegation was answered.
ToolDelegates(c) ==
    LET t == Parent[c] IN
    /\ t # NoTask /\ x[t].tool = "checked"
    /\ \/ Served(Op("delegate", c)) /\ UNCHANGED late
          /\ Move(t, [x[t] EXCEPT !.tool = "none", !.kids = TRUE])
       \/ Refused(Op("delegate", c)) /\ Tool(t, "none") /\ UNCHANGED late
       \/ Lost(Op("delegate", c)) /\ Tool(t, "none")
    /\ UNCHANGED <<conn, callable, control>>

\* The device answers, or the call is aborted.
ToolEnds(t) ==
    /\ x[t].tool = "sent" /\ Tool(t, "none")
    /\ UNCHANGED <<ledger, conn, callable, late, control>>

-----------------------------------------------------------------------------
(* Connections, the owner and other clients.                                 *)

\* RoomConnection.finish: onClose aborts every execution.
Disconnect(a) ==
    /\ conn[a] /\ conn' = [conn EXCEPT ![a] = FALSE]
    /\ x' = [t \in Task |-> IF Assignee[t] = a /\ ~At(t, "idle") THEN [x[t] EXCEPT !.abort = TRUE] ELSE x[t]]
    /\ UNCHANGED <<ledger, callable, late, control>>

\* The next poll connects again; its requests register the agent and are its
\* heartbeat.
Connect(a) ==
    /\ ~conn[a] /\ conn' = [conn EXCEPT ![a] = TRUE]
    /\ callable' = [callable EXCEPT ![a] = TRUE]
    /\ UNCHANGED <<ledger, x, late, control>>

HeartbeatEnds(a) ==
    /\ ~conn[a] /\ callable[a] /\ callable' = [callable EXCEPT ![a] = FALSE]
    /\ UNCHANGED <<ledger, x, conn, late, control>>

\* RoomRunner.stop.
StopRunner(a) ==
    /\ x' = [t \in Task |-> IF Assignee[t] = a /\ ~At(t, "idle") THEN [x[t] EXCEPT !.abort = TRUE] ELSE x[t]]
    /\ UNCHANGED <<ledger, conn, callable, late, control>>

Unchanged == UNCHANGED <<x, conn, callable, late, control>>

\* messages.send, with a task for a member or without one.
Send(t) ==
    /\ IsMessage(t) /\ task[t].st = "none" /\ rev < MaxRev
    /\ ~room.paused /\ Member(t) /\ callable[Assignee[t]] /\ Admitted(FALSE)
    /\ task' = Delegated(t) /\ rev' = rev + 1 /\ Counted
    /\ UNCHANGED room /\ Unchanged

Say ==
    /\ rev < MaxRev /\ Admitted(FALSE)
    /\ rev' = rev + 1 /\ Counted /\ UNCHANGED <<room, task>> /\ Unchanged

\* cancel: a task and its children; what runs is asked to stop.
Cancel(t) ==
    LET open == {u \in Task : u = t \/ Parent[u] = t}
                \ {u \in Task : task[u].st \in Terminal \cup {"none", "cancel_requested"}}
        cut == [u \in Task |-> IF u \notin open THEN task[u]
                    ELSE [task[u] EXCEPT !.events = @ + 1,
                            !.st = IF @ \in {"queued", "waiting"} THEN "cancelled" ELSE "cancel_requested"]]
    IN
    /\ task[t].st \notin Terminal \cup {"none", "cancel_requested"}
    /\ \A u \in open : Fits(u, MaxEvents)
    /\ Admitted(TRUE)
    /\ task' = Resumed(cut, t) /\ Counted
    /\ UNCHANGED <<room, rev>> /\ Unchanged

\* The lease runs out.
Expire(t) ==
    /\ task[t].st = "running" /\ task[t].lease
    /\ task' = [task EXCEPT ![t].lease = FALSE]
    /\ UNCHANGED <<room, rev, requests>> /\ Unchanged

\* rooms.pause, rooms.resume, rooms.remove.
Control ==
    /\ control < MaxControl /\ control' = control + 1
    /\ \/ room' = [room EXCEPT !.paused = ~@]
       \/ \E a \in room.members : room' = [room EXCEPT !.members = @ \ {a}]
    /\ UNCHANGED <<task, rev, requests, x, conn, callable, late>>

\* tasks.stopped by hand: who sends it has seen that the execution is over.
StoppedByHand(t) ==
    /\ View(t) = "unknown" /\ CanStop(t, task[t].epoch) /\ At(t, "idle") /\ x[t].tool # "sent"
    /\ \E s \in {"cancelled", "queued"} : task' = Ended(t, s)
    /\ Counted /\ UNCHANGED <<room, rev>> /\ Unchanged

-----------------------------------------------------------------------------
Init ==
    /\ room = [paused |-> FALSE, members |-> Agent]
    /\ task = [t \in Task |-> NoTaskRow] /\ rev = 0 /\ requests = 0
    /\ x = [t \in Task |-> NoRun]
    /\ conn = [a \in Agent |-> TRUE] /\ callable = [a \in Agent |-> TRUE]
    /\ late = {} /\ control = 0

Execution(t) ==
    \/ Claim(t) \/ Permit1(t) \/ Open(t) \/ Permit2(t) \/ PromptEnds(t) \/ RevokeTools(t)
    \/ Cancelled(t) \/ Permit3(t) \/ Wait(t) \/ Complete(t) \/ Stop(t)
    \/ FailClosed(t) \/ Report(t) \/ Close(t) \/ Renew(t)

Tools(t) == ToolStarts(t) \/ ToolChecked(t) \/ ToolPermitted(t) \/ ToolSends(t) \/ ToolDelegates(t) \/ ToolEnds(t)

Next ==
    \/ \E t \in Task : Execution(t) \/ Tools(t) \/ Send(t) \/ Cancel(t) \/ Expire(t) \/ StoppedByHand(t)
    \/ \E a \in Agent : Disconnect(a) \/ Connect(a) \/ HeartbeatEnds(a) \/ StopRunner(a)
    \/ LateArrives \/ LateIsDropped \/ Say \/ Control

Spec == Init /\ [][Next]_vars

-----------------------------------------------------------------------------
(* Properties.                                                               *)

\* README: "One active task per assignee/session".  Two executions of a
\* session never have tools at the same time.
OneExecution ==
    \A t, u \in Task : t # u /\ Assignee[t] = Assignee[u] => ~(x[t].cap /\ x[u].cap)

\* README: "Only an actual stopped process produces a stopped receipt."
StoppedIsStopped ==
    [][\A t \in Task : View(t) \in Active /\ task'[t].st = "cancelled"
            => ~x[t].proc /\ x[t].tool # "sent"]_vars

\* handleTool, revokeTools: no command goes to a device once the ledger has
\* the end of the execution that wants it.
NoEffectAfterEnd ==
    [][\A t \in Task : x[t].tool # "sent" /\ x'[t].tool = "sent"
            => task[t].st \in Active /\ task[t].epoch = x[t].epoch]_vars

\* saveTask and the request ledger keep room for the end: what runs can be
\* stopped, and what is not over can be cancelled, at every limit.
EndIsNeverRefused ==
    \A t \in Task : task[t].st \notin Terminal \cup {"none"}
        => Fits(t, MaxEvents) /\ requests < Reserve

\* resumeParent: a task that waits has something to wait for.
WaitingHasChildren == \A t \in Task : task[t].st = "waiting" => ~AllEnded(task, t)
=============================================================================

----------------------------- MODULE HubResults ------------------------------
(* Requests for a job and their results, from the Worker's dispatch to the   *)
(* DeviceDO that keeps owners, results and waiting callers,                  *)
(* src/packages/fleet-worker/src/index.ts and result-waiters.mjs.            *)
(*                                                                           *)
(* One device, one account.  A request is authenticated, its body is read,   *)
(* then DeviceDO handles it in one step: it awaits only storage.  The agent  *)
(* and the operators are outside; a WebSocket keeps the order of frames and  *)
(* loses what is under way when it closes.  Rows expire only after a result, *)
(* and an owner row outlives the job (24 hours).                             *)
EXTENDS Integers, Sequences, FiniteSets

CONSTANTS
    Op,           \* operators: X-Fleet-Operator of their processes
    Anon,         \* the fingerprint of callers without the header
    Corr,         \* correlations
    Call,         \* HTTP requests
    Reuse,        \* whether a request_id comes with another command
    MaxRuns, MaxFrames, MaxReads, MaxResets    \* bounds

VARIABLES
    opOf,         \* whose request_id makes a correlation, or Anon: it is random
    kid,          \* the account's token
    up,           \* the device's WebSocket
    job,          \* at the agent: "none", "running", "done"
    wire,         \* frames from the agent
    asked,        \* frames to the agent
    own,          \* own:<corr>
    res,          \* res:<corr>: status and owner
    call,         \* requests under way
    entry,        \* ResultWaiters.entries
    claimed,      \* the operator whose request made the correlation
    runs, reads   \* run frames sent, re-reads of the store

vars == <<opOf, kid, up, job, wire, asked, own, res, call, entry, claimed, runs, reads>>

Caller == Op \cup {Anon}
NoOwner == "nobody"
NoRow   == [st |-> "none", owner |-> NoOwner]
NoEntry == [on |-> FALSE, reading |-> FALSE, heard |-> FALSE, timer |-> FALSE,
            snap |-> "none", row |-> "none"]
Free    == [pc |-> "free", op |-> Anon, kind |-> "none", corr |-> "none", kid |-> 0,
            fresh |-> FALSE, blind |-> FALSE, reply |-> "none"]

\* isHubResultDone: a conflict is an answer, not an outcome.
IsDone(s) == s \in {"done", "unknown"}

-----------------------------------------------------------------------------
(* Who a correlation belongs to.                                             *)

\* resolveSession: the owner row, and after the end the owner in the result.
CorrOwner(c) == IF own[c] # NoOwner THEN own[c] ELSE res[c].owner

\* resolveTicket: a ticket without an owner is an anonymous one.
Mine(o, c) == o = (IF CorrOwner(c) = NoOwner THEN Anon ELSE CorrOwner(c))

\* claimSession.
Claims(o, c) == own' = [own EXCEPT ![c] = o]

FinishedUnowned(c, s) == [st |-> s, owner |-> own[c]]

\* A result keeps the owner the row before it named; finishSession moves the
\* owner into the row.
Finished(c, s) ==
    [st |-> s, owner |-> IF own[c] # NoOwner THEN own[c] ELSE res[c].owner]

-----------------------------------------------------------------------------
(* The callers that wait for a result.                                       *)

Waiting(c) == {k \in Call : call[k].pc = "waiting" /\ call[k].corr = c}

\* A request is over with its answer.
Said(r, s) == [Free EXCEPT !.op = r.op, !.corr = r.corr, !.blind = r.blind, !.reply = s]
Answer(k, s) == [call EXCEPT ![k] = Said(@, s)]

Leaves(k, c) ==
    entry' = [entry EXCEPT ![c] = IF Waiting(c) = {k} THEN NoEntry ELSE @]

\* The first caller starts a read of the store.
Group(c) == [NoEntry EXCEPT !.on = TRUE, !.reading = TRUE, !.snap = res[c].st]

\* Nobody's, and no outcome.
Unknown(c) == own'[c] = NoOwner /\ res[c].owner = NoOwner /\ res[c].st \in {"none", "unknown"}

\* ResultWaiters.wait.  A caller that waits where there is nothing yet is
\* blind: whose the job will be is decided while it waits.
Waits(k, c) ==
    /\ call' = [call EXCEPT ![k].pc = "waiting", ![k].blind = Unknown(c)]
    /\ entry' = [entry EXCEPT ![c] = IF @.on THEN @
                     ELSE Group(c)]

\* ResultWaiters.notify: a row that is done sends everybody home.
NotifiedCalls(c, s) ==
    [k \in Call |-> IF IsDone(s) /\ k \in Waiting(c)
                    THEN Said(call[k], s) ELSE call[k]]

NotifiedEntry(c, s) ==
    IF ~entry[c].on THEN entry
    ELSE [entry EXCEPT ![c] = IF IsDone(s) THEN NoEntry ELSE [@ EXCEPT !.heard = TRUE, !.row = s]]

\* ResultWaiters.check: what it read counts only if nobody told otherwise
\* meanwhile; who still waits is looked after again in a second.
Heard(c) == entry[c].heard
CheckEnds(c) ==
    /\ entry[c].on /\ entry[c].reading
    /\ LET s == entry[c].snap IN
       IF Heard(c)
       THEN /\ entry' = [entry EXCEPT ![c].reading = FALSE, ![c].timer = TRUE]
            /\ UNCHANGED call
       ELSE /\ call' = NotifiedCalls(c, s)
            /\ entry' = [entry EXCEPT ![c] = IF IsDone(s) THEN NoEntry
                             ELSE [@ EXCEPT !.reading = FALSE, !.timer = TRUE, !.row = s]]
    /\ UNCHANGED <<opOf, kid, up, job, wire, asked, own, res, claimed, runs, reads>>

CheckAgain(c) ==
    /\ entry[c].timer /\ reads < MaxReads
    /\ reads' = reads + 1
    /\ entry' = [entry EXCEPT ![c].timer = FALSE, ![c].reading = TRUE, ![c].heard = FALSE,
                              ![c].snap = res[c].st]
    /\ UNCHANGED <<opOf, kid, up, job, wire, asked, own, res, call, claimed, runs>>

\* wait_ms is over, or the caller hung up.
WaitOver(k) ==
    /\ call[k].pc = "waiting"
    /\ call' = Answer(k, entry[call[k].corr].row)
    /\ Leaves(k, call[k].corr)
    /\ UNCHANGED <<opOf, kid, up, job, wire, asked, own, res, claimed, runs, reads>>

-----------------------------------------------------------------------------
(* Requests.                                                                 *)

\* resolveActor: the request is admitted before its body is read.  Callers ask
\* about every correlation that has been given out.
Authenticate(k, o, kind, c) ==
    /\ call[k].pc = "free"
    /\ kind \in {"run", "plugin"} =>
          /\ runs < MaxRuns
          /\ IF opOf[c] = Anon THEN claimed[c] = NoOwner ELSE opOf[c] = o /\ kind = "run"
    /\ kind \in {"look", "result"} => claimed[c] # NoOwner \/ (opOf[c] = o /\ o # Anon)
    /\ call' = [call EXCEPT ![k] = [Free EXCEPT !.pc = "body", !.op = o, !.kind = kind,
                                                !.corr = c, !.kid = kid]]
    /\ UNCHANGED <<opOf, kid, up, job, wire, asked, own, res, entry, claimed, runs, reads>>

\* handleAuthorizedOperatorRequest: the whole body first, then /validate-mcp
\* once more.
Revalidated(k) == call[k].kid = kid
BodyRead(k) ==
    /\ call[k].pc = "body"
    /\ call' = IF Revalidated(k) THEN [call EXCEPT ![k].pc = "ready", ![k].fresh = (call[k].kid = kid)]
               ELSE Answer(k, "denied")
    /\ UNCHANGED <<opOf, kid, up, job, wire, asked, own, res, entry, claimed, runs, reads>>

Ready(k, kind) == call[k].pc = "ready" /\ call[k].kind = kind

Offline(k, kind) ==
    /\ Ready(k, kind) /\ ~up
    /\ call' = Answer(k, "offline")
    /\ UNCHANGED <<opOf, kid, up, job, wire, asked, own, res, entry, claimed, runs, reads>>

\* POST /run: claimed, sent, and perhaps waited for.
Run(k) ==
    /\ Ready(k, "run") /\ up
    /\ LET c == call[k].corr IN
       /\ opOf[c] = Anon => claimed[c] = NoOwner
       /\ Claims(call[k].op, c)
       /\ claimed' = [claimed EXCEPT ![c] = call[k].op]
       /\ \E f \in {"run"} \cup (IF Reuse /\ job[c] # "none" THEN {"other run"} ELSE {}) :
             asked' = Append(asked, <<f, c, call[k].op>>)
       /\ Waits(k, c) \/ (call' = Answer(k, "running") /\ UNCHANGED entry)
    /\ runs' = runs + 1
    /\ UNCHANGED <<opOf, kid, up, job, wire, res, reads>>

\* POST /plugin: a job whose row is there from the start.
Plugin(k) ==
    /\ Ready(k, "plugin") /\ up
    /\ LET c == call[k].corr IN
       /\ claimed[c] = NoOwner
       /\ Claims(call[k].op, c)
       /\ claimed' = [claimed EXCEPT ![c] = call[k].op]
       /\ res' = [res EXCEPT ![c] = [st |-> "pending", owner |-> NoOwner]]
       /\ asked' = Append(asked, <<"run", c, call[k].op>>)
       /\ call' = Answer(k, "pending")
    /\ runs' = runs + 1
    /\ UNCHANGED <<opOf, kid, up, job, wire, entry, reads>>

\* GET /plugin-result, /screen, POST /type: only for the owner; others hear
\* what they would hear if there were nothing.
Look(k) ==
    /\ Ready(k, "look")
    /\ LET c == call[k].corr IN
       call' = Answer(k, IF Mine(call[k].op, c) THEN res[c].st ELSE "none")
    /\ UNCHANGED <<opOf, kid, up, job, wire, asked, own, res, entry, claimed, runs, reads>>

\* GET /result with request_id: only the routing of an expired operation is
\* made again, the command is not.
Reclaims(k) ==
    LET c == call[k].corr IN
    opOf[c] = call[k].op /\ opOf[c] # Anon /\ CorrOwner(c) = NoOwner /\ res[c] = NoRow

\* GET /result: a result that is not there yet is asked for.
Result(k) ==
    /\ Ready(k, "result")
    /\ LET c == call[k].corr IN
       /\ IF Reclaims(k)
          THEN Claims(call[k].op, c) /\ claimed' = [claimed EXCEPT ![c] = call[k].op]
          ELSE UNCHANGED <<own, claimed>>
       /\ IF ~(Reclaims(k) \/ Mine(call[k].op, c))
          THEN call' = Answer(k, "none") /\ UNCHANGED <<asked, entry>>
          ELSE /\ asked' = IF IsDone(res[c].st) \/ ~up THEN asked ELSE Append(asked, <<"get_result", c, call[k].op>>)
               /\ Waits(k, c) \/ (call' = Answer(k, res[c].st) /\ UNCHANGED entry)
    /\ UNCHANGED <<opOf, kid, up, job, wire, res, runs, reads>>

-----------------------------------------------------------------------------
(* The agent's frames.                                                       *)

Frame == Head(wire)

Received(f) == up /\ wire # <<>> /\ Frame[1] = f /\ wire' = Tail(wire)

NeverLate(c) == FALSE

\* accepted, plugin_accepted: never over a result.
LateForResult(c) == IsDone(res[c].st)
Accepted ==
    /\ Received("accepted")
    /\ LET c == Frame[2] IN
       res' = IF LateForResult(c) THEN res ELSE [res EXCEPT ![c] = [st |-> "running", owner |-> NoOwner]]
    /\ UNCHANGED <<opOf, kid, up, job, asked, own, call, entry, claimed, runs, reads>>

\* result, plugin_result: stored, the session finished, the callers told.
Concludes(f) ==
    /\ Received(f)
    /\ LET c == Frame[2] IN
       /\ res' = [res EXCEPT ![c] = Finished(c, f)]
       /\ own' = [own EXCEPT ![c] = NoOwner]
       /\ call' = NotifiedCalls(c, f)
       /\ entry' = NotifiedEntry(c, f)
    /\ UNCHANGED <<opOf, kid, up, job, asked, claimed, runs, reads>>

-----------------------------------------------------------------------------
(* Outside.                                                                  *)

AgentSays(f, c) == wire' = Append(wire, <<f, c>>)

\* The agent takes a frame.  A job it knows is not started again; with another
\* command its request_id is refused; of a job of another operator it knows
\* nothing.
AgentTakes ==
    /\ up /\ asked # <<>> /\ asked' = Tail(asked)
    /\ LET f == Head(asked)[1]
           c == Head(asked)[2]
           known == job[c] # "none" /\ Head(asked)[3] = claimed[c]
       IN  /\ job' = [job EXCEPT ![c] = IF f = "run" /\ @ = "none" THEN "running" ELSE @]
           /\ AgentSays(IF f = "other run" THEN "conflict"
                        ELSE IF f = "get_result" /\ ~known THEN "unknown"
                        ELSE IF job[c] = "done" THEN "done" ELSE "accepted", c)
    /\ UNCHANGED <<opOf, kid, up, own, res, call, entry, claimed, runs, reads>>

AgentFinishes(c) ==
    /\ job[c] = "running" /\ job' = [job EXCEPT ![c] = "done"]
    /\ IF up THEN AgentSays("done", c) ELSE UNCHANGED wire
    /\ UNCHANGED <<opOf, kid, up, asked, own, res, call, entry, claimed, runs, reads>>

Disconnect == up /\ up' = FALSE /\ wire' = <<>> /\ asked' = <<>>
              /\ UNCHANGED <<opOf, kid, job, own, res, call, entry, claimed, runs, reads>>

Connect == ~up /\ up' = TRUE
           /\ UNCHANGED <<opOf, kid, job, wire, asked, own, res, call, entry, claimed, runs, reads>>

\* The stored result, with the owner in it, expires (15 minutes).  No frame
\* is under way that long, and no job that was answered as unknown runs on.
Expire(c) ==
    /\ IsDone(res[c].st) /\ own[c] = NoOwner /\ Waiting(c) = {} /\ job[c] # "running"
    /\ \A i \in DOMAIN wire : wire[i][2] # c
    /\ \A i \in DOMAIN asked : asked[i][2] # c
    /\ res' = [res EXCEPT ![c] = NoRow]
    /\ UNCHANGED <<opOf, kid, up, job, wire, asked, own, call, entry, claimed, runs, reads>>

\* The token is reset.
TokenReset == kid < MaxResets /\ kid' = kid + 1
         /\ UNCHANGED <<opOf, up, job, wire, asked, own, res, call, entry, claimed, runs, reads>>

-----------------------------------------------------------------------------
Init ==
    /\ opOf \in [Corr -> Caller]
    /\ kid = 0 /\ up = TRUE
    /\ job = [c \in Corr |-> "none"] /\ wire = <<>> /\ asked = <<>>
    /\ own = [c \in Corr |-> NoOwner] /\ res = [c \in Corr |-> NoRow]
    /\ call = [k \in Call |-> Free] /\ entry = [c \in Corr |-> NoEntry]
    /\ claimed = [c \in Corr |-> NoOwner]
    /\ runs = 0 /\ reads = 0

Request(k) ==
    \/ \E o \in Caller, kind \in {"run", "plugin", "look", "result"}, c \in Corr : Authenticate(k, o, kind, c)
    \/ BodyRead(k)
    \/ Offline(k, "run") \/ Offline(k, "plugin")
    \/ Run(k) \/ Plugin(k) \/ Look(k) \/ Result(k)
    \/ WaitOver(k)

Frames ==
    \/ Accepted \/ Concludes("done") \/ Concludes("unknown") \/ Concludes("conflict")
    \/ AgentTakes \/ \E c \in Corr : AgentFinishes(c)

Next ==
    \/ \E k \in Call : Request(k)
    \/ \E c \in Corr : CheckEnds(c) \/ CheckAgain(c) \/ Expire(c)
    \/ Frames \/ Disconnect \/ Connect \/ TokenReset

Bounded == Len(wire) <= MaxFrames /\ Len(asked) <= MaxFrames

Spec == Init /\ [][Next /\ Bounded']_vars

-----------------------------------------------------------------------------
(* Properties.                                                               *)

\* resolveTicket: "owner === undefined means the ticket was never claimed".
\* A job that an operator's request made is that operator's while there is a
\* row of it, through claims, results, queries and reconnects.
UnownedIsUnclaimed ==
    \A c \in Corr : claimed[c] # NoOwner /\ res[c].st \notin {"none", "unknown"}
                        => Mine(claimed[c], c)

\* /result, /screen, /plugin-result: what a caller is told of a job comes
\* from a job of its own, also when the answer was a long time coming, unless
\* it began to wait when nothing was known of the job.
AnswersAreOwn ==
    \A k \in Call : call[k].reply \in {"running", "conflict", "done"} /\ ~call[k].blind =>
                        claimed[call[k].corr] = call[k].op

\* webSocketMessage: a frame that comes late does not take a result back.
DoneIsKept ==
    [][\A c \in Corr : IsDone(res[c].st) => \/ res'[c].st \in {"done", "unknown", "conflict"}
                                            \/ res'[c] = NoRow]_vars

\* handleAuthorizedOperatorRequest: a command whose token was reset before
\* its body was there is not sent to the device, which may have a new token.
NoOldToken ==
    [][\A k \in Call : call[k].pc = "ready" /\ runs' # runs /\ call'[k] # call[k] => call[k].fresh]_vars

\* ResultWaiters: nobody waits for a result that is stored without somebody
\* being about to look.
NoMissedResult ==
    \A k \in Call : call[k].pc = "waiting" =>
        LET c == call[k].corr IN
        /\ entry[c].on
        /\ IsDone(res[c].st) => entry[c].reading \/ entry[c].timer
=============================================================================

------------------------------- MODULE HubMcp --------------------------------
(* Remote MCP at the hub: McpDO, one Durable Object per session, with the    *)
(* dispatcher in front of it (src/packages/fleet-worker/src/index.ts), the   *)
(* SSE session (mcp-sse.mjs; src/lib/fleet/mcp-sse.server.ts is the          *)
(* development server's) and McpRpcSession of the tool (mcp-protocol.mjs).   *)
(*                                                                           *)
(* An object serves one session, of either transport: a row in storage and  *)
(* what is in the memory of an instance that may be gone at any time.  A     *)
(* handler is one step up to an await of another object; the object's own    *)
(* storage lets nothing in between.                                          *)
(* What a session remembers of its tool calls (McpOperatorState: device,     *)
(* directory, tickets) is the number of the call that changed it last.       *)
EXTENDS Integers, FiniteSets, FiniteSetsExt

CONSTANTS
    Msg,             \* messages of a Streamable HTTP session
    KindOf,          \* Msg -> "run", "wait", "ping" or "close"
    Sse,             \* messages of an SSE session
    IdleMs, TouchMs, MaxAge,   \* MCP_SESSION_IDLE_MS, MCP_HTTP_TOUCH_MS, MCP_SESSION_MAX_AGE_MS
    QueueLimit,      \* MCP_SSE_QUEUE_BYTES, in frames
    MaxNow, MaxLost  \* bounds: time, lost instances

VARIABLES
    now,
    row,          \* http:session in storage
    alarm,        \* its alarm
    stored,       \* httpStored
    operator,     \* the state of httpSession, the object in memory
    persisted,    \* httpPersistedActivityAt
    valid,        \* the account's key generation is this session's
    at,           \* a message: where it is
    before,       \* the state when its dispatch began
    runs,         \* how many commands were dispatched
    told,         \* the newest command whose reply was sent
    lastUse,      \* the last time a meaningful message was accepted
    opened,       \* whether /http-open was handled
    stream,       \* the SSE session: "none", "open" or "dev", "closed"
    streamUse, streamBorn,   \* lastActivityAt, and when it was opened
    queue,        \* frames that the client has not read
    lost

http == <<row, alarm, stored, operator, persisted>>
sse  == <<stream, streamUse, streamBorn, queue>>
vars == <<now, http, valid, at, before, runs, told, lastUse, opened, sse, lost>>

None  == [born |-> -1, seen |-> -1, state |-> -1]
Never == -1
Streams == {"open", "dev"}
Earlier(s, t) == IF s < t THEN s ELSE t

DurableIdle == IdleMs + TouchMs

Meaningful(c) == KindOf[c] # "ping"
InFlight == {c \in Msg : at[c] \in {"authorizing", "running"} /\ Meaningful(c) /\ KindOf[c] # "close"}

Goes(c, s) == at' = [at EXCEPT ![c] = s]

-----------------------------------------------------------------------------
(* The row.                                                                  *)

AlarmAt(r) == Earlier(r.born + MaxAge, r.seen + DurableIdle)

Expired(r) == now >= r.born + MaxAge \/ now - r.seen >= DurableIdle

RowAlone(r) == row' = r /\ alarm' = IF row = None THEN Never ELSE AlarmAt(r)

\* storeHttpSession, one transaction.
Store(r) == row' = r /\ alarm' = AlarmAt(r)

\* Only the first row gets an alarm.
\* clearHttpSession, and the expiry in restoreHttpSession.
Clear ==
    /\ row' = None /\ alarm' = Never
    /\ stored' = None /\ operator' = -1 /\ persisted' = -1

Known == IF stored # None THEN stored ELSE row

-----------------------------------------------------------------------------
(* Streamable HTTP.                                                          *)

\* /http-open: the row is there before the answer.
Open ==
    /\ ~opened /\ stream = "none" /\ valid /\ now + MaxAge <= MaxNow
    /\ opened' = TRUE
    /\ stored' = [born |-> now, seen |-> now, state |-> 0]
    /\ Store(stored') /\ operator' = 0 /\ persisted' = now
    /\ lastUse' = now
    /\ UNCHANGED <<now, valid, at, before, runs, told, sse, lost>>

\* dispatchMcpHttp: the bearer is resolved before the session is looked at.
Bearer(c) ==
    /\ opened /\ at[c] = "new" /\ valid
    /\ Goes(c, "sent")
    /\ UNCHANGED <<now, http, valid, before, runs, told, lastUse, opened, sse, lost>>

\* restoreHttpSession, with the row that is in memory or in storage.
Restored(c) ==
    /\ Known # None /\ ~Expired(Known)
    /\ operator' = IF operator = -1 THEN Known.state ELSE operator
    /\ before' = [before EXCEPT ![c] = operator']

NotFound(c) ==
    /\ at[c] = "sent"
    /\ Known = None \/ Expired(Known)
    /\ IF Known = None THEN UNCHANGED http ELSE Clear
    /\ Goes(c, "refused")
    /\ UNCHANGED <<now, valid, before, runs, told, lastUse, opened, sse, lost>>

\* touchHttpSessionBeforeDispatch: a use is written down once per TouchMs.
Touched(c) ==
    LET last == IF persisted = -1 THEN Known.seen ELSE persisted
        used == [Known EXCEPT !.seen = now]
    IN  IF ~Meaningful(c) \/ KindOf[c] = "close"
        THEN /\ stored' = Known /\ persisted' = last
             /\ UNCHANGED <<row, alarm, lastUse>>
        ELSE /\ lastUse' = now
             /\ IF now - last < TouchMs
                THEN /\ stored' = used /\ persisted' = last
                     /\ UNCHANGED <<row, alarm>>
                ELSE /\ stored' = [used EXCEPT !.state = operator']
                     /\ Store(stored') /\ persisted' = now

Arrive(c) ==
    /\ at[c] = "sent"
    /\ Restored(c) /\ Touched(c)
    /\ Goes(c, "authorizing")
    /\ UNCHANGED <<now, valid, runs, told, opened, sse, lost>>

PersistedLate(c) ==
    IF stored = None \/ now - persisted < TouchMs THEN UNCHANGED http
    ELSE /\ stored' = [stored EXCEPT !.state = operator]
         /\ Store(stored') /\ persisted' = stored.seen
         /\ UNCHANGED operator

\* persistHttpStateChange: what changed is in storage before the reply.
Persisted(c) ==
    IF stored = None THEN UNCHANGED http
    ELSE IF before[c] = operator THEN UNCHANGED http
    ELSE /\ stored' = [stored EXCEPT !.state = operator]
         /\ Store(stored') /\ persisted' = stored.seen
         /\ UNCHANGED operator

\* A change is written only when a touch is due.
\* The row that was read when the dispatch began is put back.
\* authorize: the fleet's /validate-mcp, for every message.
Authorize(c) ==
    /\ at[c] = "authorizing"
    /\ IF valid /\ stored # None
       THEN IF KindOf[c] = "close"
            THEN Clear /\ Goes(c, "answered")
            ELSE Goes(c, "running") /\ UNCHANGED http
       ELSE /\ Goes(c, "refused")
            /\ IF KindOf[c] = "close" THEN UNCHANGED http ELSE Persisted(c)
    /\ UNCHANGED <<now, valid, before, runs, told, lastUse, opened, sse, lost>>

\* callTool: a run changes the state as soon as the hub has its ticket, and may
\* go on to wait; without the actor its calls fail.
Dispatch(c) ==
    /\ at[c] = "running" /\ KindOf[c] = "run" /\ before[c] # -2
    /\ stored # None
    /\ runs' = runs + 1
    /\ operator' = runs' /\ before' = [before EXCEPT ![c] = -2]
    /\ UNCHANGED <<now, row, alarm, stored, persisted, valid, at, told, lastUse, opened, sse, lost>>

Replies(c) ==
    /\ at[c] = "running"
    /\ KindOf[c] = "run" /\ stored # None => before[c] = -2
    /\ Persisted(c)
    /\ told' = IF before[c] = -2 THEN Max({told, operator}) ELSE told
    /\ Goes(c, "answered")
    /\ UNCHANGED <<now, valid, before, runs, lastUse, opened, sse, lost>>

\* alarm: max age cuts hard, a call in flight postpones, an idle session ends.
Alarm ==
    /\ alarm # Never /\ now >= alarm
    /\ IF row = None THEN alarm' = Never /\ UNCHANGED <<row, stored, operator, persisted>>
       ELSE IF now >= Known.born + MaxAge THEN Clear
       ELSE IF InFlight # {}
       THEN /\ alarm' = Earlier(Known.born + MaxAge, now + TouchMs)
            /\ UNCHANGED <<row, stored, operator, persisted>>
       ELSE IF Expired(Known) THEN Clear
       ELSE /\ stored' = Known /\ persisted' = row.seen
            /\ alarm' = AlarmAt(Known)
            /\ UNCHANGED <<row, operator>>
    /\ UNCHANGED <<now, valid, at, before, runs, told, lastUse, opened, sse, lost>>

\* The instance goes, with the requests it was serving.
Lose ==
    /\ lost < MaxLost
    /\ lost' = lost + 1
    /\ stored' = None /\ operator' = -1 /\ persisted' = -1
    /\ at' = [c \in Msg \cup Sse |->
                 IF at[c] \in {"authorizing", "running"} THEN "lost" ELSE at[c]]
    /\ stream' = IF stream \in Streams THEN "closed" ELSE stream
    /\ queue' = 0
    /\ UNCHANGED <<now, row, alarm, valid, before, runs, told, lastUse, opened,
                   streamUse, streamBorn>>

\* The owner resets the token.
Reset ==
    /\ valid /\ valid' = FALSE
    /\ UNCHANGED <<now, http, at, before, runs, told, lastUse, opened, sse, lost>>

-----------------------------------------------------------------------------
(* Server-sent events: a session in memory, and its stream.                  *)

Begins(s) ==
    /\ Sse # {} /\ stream = "none" /\ ~opened /\ valid /\ now + MaxAge <= MaxNow
    /\ stream' = s /\ streamUse' = now /\ streamBorn' = now
    /\ queue' = 1

StreamOpen ==
    /\ Begins("open")
    /\ UNCHANGED <<now, http, valid, at, before, runs, told, lastUse, opened, lost>>

\* enqueue: a frame that does not fit ends the stream, and nothing else.
Writes ==
    IF stream \notin Streams THEN UNCHANGED <<stream, queue>>
    ELSE IF queue = QueueLimit THEN stream' = "closed" /\ queue' = 0
    ELSE queue' = queue + 1 /\ UNCHANGED stream

\* /message: accepted at once, dispatched on its own.
StreamMessage(c) ==
    /\ at[c] = "new" /\ stream = "open" /\ valid
    /\ streamUse' = now
    /\ Goes(c, "authorizing")
    /\ UNCHANGED <<now, http, valid, before, runs, told, lastUse, opened, stream, streamBorn,
                   queue, lost>>

StreamAuthorize(c) ==
    /\ at[c] = "authorizing"
    /\ IF valid THEN Goes(c, "running") /\ UNCHANGED <<stream, queue>>
                ELSE Goes(c, "refused") /\ Writes
    /\ UNCHANGED <<now, http, valid, before, runs, told, lastUse, opened, streamUse, streamBorn, lost>>

StreamReply(c) ==
    /\ at[c] = "running"
    /\ Writes /\ Goes(c, "answered")
    /\ UNCHANGED <<now, http, valid, before, runs, told, lastUse, opened, streamUse, streamBorn, lost>>

\* The client reads, or goes away.
StreamRead ==
    /\ queue > 0
    /\ queue' = queue - 1
    /\ UNCHANGED <<now, http, valid, at, before, runs, told, lastUse, opened, stream,
                   streamUse, streamBorn, lost>>

StreamCancel ==
    /\ stream \in Streams
    /\ stream' = "closed" /\ queue' = 0
    /\ UNCHANGED <<now, http, valid, at, before, runs, told, lastUse, opened,
                   streamUse, streamBorn, lost>>

\* The timer of the stream: it ends, or a comment keeps it alive.
Keepalive ==
    /\ stream = "open"
    /\ IF now >= streamBorn + MaxAge \/ now - streamUse >= IdleMs
       THEN stream' = "closed" /\ queue' = 0
       ELSE Writes
    /\ UNCHANGED <<now, http, valid, at, before, runs, told, lastUse, opened,
                   streamUse, streamBorn, lost>>

\* The development server's sessions are in the memory of the process and have
\* no idle time: a request of any client sweeps those that are too old, and the
\* bearer is looked at when a session opens and at each call of the hub.
DevOpen ==
    /\ Begins("dev")
    /\ UNCHANGED <<now, http, valid, at, before, runs, told, lastUse, opened, lost>>

TooOld == now >= streamBorn + MaxAge

CleanupExpired ==
    /\ stream = "dev" /\ TooOld
    /\ stream' = "closed" /\ queue' = 0
    /\ UNCHANGED <<now, http, valid, at, before, runs, told, lastUse, opened,
                   streamUse, streamBorn, lost>>

DevMessage(c) ==
    /\ at[c] = "new" /\ stream = "dev" /\ ~TooOld
    /\ Goes(c, "running")
    /\ UNCHANGED <<now, http, valid, before, runs, told, lastUse, opened, sse, lost>>

DevKeepalive ==
    /\ stream = "dev"
    /\ IF TooOld THEN stream' = "closed" /\ queue' = 0 ELSE Writes
    /\ UNCHANGED <<now, http, valid, at, before, runs, told, lastUse, opened,
                   streamUse, streamBorn, lost>>

Tick ==
    /\ now < MaxNow
    /\ now' = now + 1
    /\ UNCHANGED <<http, valid, at, before, runs, told, lastUse, opened, sse, lost>>

-----------------------------------------------------------------------------

Init ==
    /\ now = 0 /\ row = None /\ alarm = Never
    /\ stored = None /\ operator = -1 /\ persisted = -1
    /\ valid = TRUE /\ at = [c \in Msg \cup Sse |-> "new"] /\ before = [c \in Msg |-> -1]
    /\ runs = 0 /\ told = 0 /\ lastUse = 0 /\ opened = FALSE
    /\ stream = "none" /\ streamUse = 0 /\ streamBorn = 0 /\ queue = 0
    /\ lost = 0

HttpStep(c) ==
    Bearer(c) \/ NotFound(c) \/ Arrive(c) \/ Authorize(c) \/ Dispatch(c) \/ Replies(c)

StreamStep(c) == StreamMessage(c) \/ StreamAuthorize(c) \/ StreamReply(c) \/ DevMessage(c)

Next ==
    \/ Open \/ Alarm \/ Lose \/ Reset \/ Tick
    \/ StreamOpen \/ StreamRead \/ StreamCancel \/ Keepalive
    \/ DevOpen \/ CleanupExpired \/ DevKeepalive
    \/ \E c \in Msg : HttpStep(c)
    \/ \E c \in Sse : StreamStep(c)

Spec == Init /\ [][Next]_vars

\* Time passes, an alarm that is due is run, and so is the timer of a stream.
FairSpec ==
    /\ Spec
    /\ WF_vars(Tick) /\ WF_vars(Alarm)
    /\ WF_vars(Keepalive /\ stream' = "closed") /\ WF_vars(DevKeepalive /\ TooOld)

-----------------------------------------------------------------------------

\* What a client was told about a command is not forgotten with the instance:
\* the ticket of the newest command that was answered, or a newer one, is in
\* storage, so that the client's next wait asks for it (persistHttpStateChange,
\* restoreHttpSession).
ToldIsKept == row # None => row.state >= told

\* A session that has ended stays so, whatever was in flight when it was
\* closed, cut or swept (clearHttpSession).
EndedForGood == [][opened /\ row = None => row' = None]_vars

\* Use keeps a session: it is not swept within the idle time of its last
\* meaningful message, although that use may be in memory only, and the memory
\* be gone (MCP_HTTP_DURABLE_IDLE_MS).
UseKeepsIt ==
    [][row # None /\ row' = None =>
         \/ now - lastUse >= IdleMs \/ now >= row.born + MaxAge
         \/ \E c \in Msg : KindOf[c] = "close" /\ at'[c] # at[c]]_vars

\* A session whose client has gone ends, and so does a stream (alarm, the
\* keepalive timer).
SessionsEnd == (opened ~> row = None) /\ (stream \in Streams ~> stream = "closed")

\* The frames that a stream holds for a client that does not read are bounded.
QueueBound == queue <= QueueLimit
=============================================================================

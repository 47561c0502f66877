------------------------------- MODULE NodeHub -------------------------------
(* The hub as one Node process: src/packages/fleet-hub/index.mjs with its    *)
(* payload caches (payload-cache.mjs) and the book of sessions               *)
(* (src/packages/fleet-worker/src/session.mjs).  All of its state is in      *)
(* memory.  One device; each job is of one operator.                         *)
EXTENDS Integers, Sequences, FiniteSets, SequencesExt

CONSTANTS
    Operator, Anon,     \* fingerprints; Anon is the missing header
    Job, OpOf,          \* Job -> Operator, who asked for it
    Recoverable,        \* jobs with a request_id: their ticket is derived from it
    NoJob, NoSock,
    Sock,               \* the device's sockets, one after the other
    MaxEntries, MaxBytes, MaxSummaries,   \* limits of the caches
    Size,               \* Job -> size of its result
    MaxRestarts, MaxCalls                 \* bounds of the model

VARIABLES
    ws,         \* readyState of a socket at the hub
    current,    \* sockets.get(id)
    latest,     \* the socket that was accepted last
    owner, live, alive,     \* the book
    results, completed,     \* caches: sequences of rows, oldest first
    bytes,                  \* of the results cache
    down, up,   \* frames to and from the device
    job,        \* jobs at the device
    call,       \* what an operator waits for
    reply,      \* the last answer of an operator's call
    known,      \* jobs whose end the hub was told since they were last claimed
    calls, restarts

book == <<owner, live, alive>>
caches == <<results, completed, bytes>>
vars == <<ws, current, latest, owner, live, alive, results, completed, bytes, down, up, job,
          call, reply, known, calls, restarts>>

NoCall == [kind |-> "none", job |-> NoJob]
NoReply == [row |-> "none", job |-> NoJob]
Fingerprint == Operator \cup {Anon}

-----------------------------------------------------------------------------
(* PayloadCache: first in, first out, by write; at most so many bytes.       *)

Has(rows, j) == \E i \in DOMAIN rows : rows[i].job = j
Place(rows, j) == CHOOSE i \in DOMAIN rows : rows[i].job = j
Value(rows, j) == rows[Place(rows, j)].v

\* What the rows weigh: a key has one row, which has its size.
Weight(rows) == Cardinality(UNION {{rows[i].job} \X (1 .. rows[i].size) : i \in DOMAIN rows})

Cache(rows, n) == [rows |-> rows, bytes |-> n]

\* delete: the row of a key, with its bytes.
Delete(rows, n, j) ==
    IF Has(rows, j) THEN Cache(RemoveAt(rows, Place(rows, j)), n - rows[Place(rows, j)].size)
    ELSE Cache(rows, n)

\* The oldest rows go until the new one has its place.
Later(rows, n, k) == Cache(SubSeq(rows, k + 1, Len(rows)), n - Weight(SubSeq(rows, 1, k)))
HasPlace(c, size, entries) == c.rows = <<>> \/ (Len(c.rows) < entries /\ c.bytes + size <= MaxBytes)
Evict(c, size, entries) ==
    Later(c.rows, c.bytes,
          CHOOSE k \in 0 .. Len(c.rows) :
              /\ HasPlace(Later(c.rows, c.bytes, k), size, entries)
              /\ \A m \in 0 .. (k - 1) : ~HasPlace(Later(c.rows, c.bytes, m), size, entries))

Stored(rows, n, j, v, size, entries) ==
    LET old  == Delete(rows, n, j)
        room == Evict(old, size, entries)
    IN  IF size > MaxBytes \/ entries = 0 THEN old
        ELSE Cache(Append(room.rows, [job |-> j, v |-> v, size |-> size]), room.bytes + size)

IsDone(v) == v \in {"done", "unknown"}
SizeOf(j, v) == IF v = "done" THEN Size[j] ELSE 1

\* putResult: of what has ended only the end is kept, a summary for longer.
Put(j, v) ==
    IF ~IsDone(v) /\ Has(completed, j) THEN UNCHANGED caches
    ELSE LET r == Stored(results, bytes, j, v, SizeOf(j, v), MaxEntries) IN
         /\ results' = r.rows /\ bytes' = r.bytes
         /\ completed' = IF IsDone(v) THEN Stored(completed, 0, j, "unknown", 0, MaxSummaries).rows ELSE completed

IsFinished(j) == owner[j] # NoJob /\ j \notin alive

ReadForgets(j) ==
    IF Has(results, j) THEN Value(results, j) ELSE IF Has(completed, j) THEN "unknown" ELSE "nothing"

\* deviceResults.get: the row, its summary, or what the book says.
Read(j) ==
    IF Has(results, j) THEN Value(results, j)
    ELSE IF Has(completed, j) \/ IsFinished(j) THEN "unknown"
    ELSE "nothing"

\* The time to live of the oldest row.
ResultExpires ==
    /\ results # <<>>
    /\ LET c == Delete(results, bytes, Head(results).job) IN results' = c.rows /\ bytes' = c.bytes
    /\ UNCHANGED <<completed, ws, current, latest, book, down, up, job, call, reply, known, calls, restarts>>

SummaryExpires ==
    /\ completed # <<>> /\ completed' = Tail(completed)
    /\ UNCHANGED <<results, bytes, ws, current, latest, book, down, up, job, call, reply, known, calls, restarts>>

-----------------------------------------------------------------------------
(* The book of sessions.  owner[j] = NoJob: never claimed.                   *)

Claim(f, j) ==
    /\ owner' = [owner EXCEPT ![j] = f] /\ live' = [live EXCEPT ![f] = j] /\ alive' = alive \cup {j}
    /\ known' = known \ {j}

Finish(j) ==
    /\ alive' = IF owner[j] # NoJob THEN alive \ {j} ELSE alive
    /\ UNCHANGED <<owner, live>>

\* resolveTicket: a ticket of nobody is a ticket of Anon.
Owner(j) == IF owner[j] = NoJob THEN Anon ELSE owner[j]
Resolve(f, j) == IF j = NoJob THEN live[f] ELSE IF Owner(j) = f THEN j ELSE NoJob

-----------------------------------------------------------------------------
(* The device's sockets.                                                     *)

\* acceptDevice: the newest socket is the device's.
Accept(s) ==
    /\ ws[s] = "none" /\ \A t \in Sock : ws[t] # "open" \/ t = current
    /\ ws' = [t \in Sock |-> IF t = s THEN "open" ELSE IF t = current THEN "closing" ELSE ws[t]]
    /\ current' = s /\ latest' = s
    /\ UNCHANGED <<book, caches, down, up, job, call, reply, known, calls, restarts>>

\* The close of a socket that was replaced changes nothing.
IsCurrent(s) == current = s

Close(s) ==
    /\ ws[s] \in {"open", "closing"}
    /\ ws' = [ws EXCEPT ![s] = "closed"]
    /\ current' = IF IsCurrent(s) THEN NoSock ELSE current
    /\ down' = IF s = latest THEN {} ELSE down
    /\ UNCHANGED <<latest, book, caches, up, job, call, reply, known, calls, restarts>>

\* computerOf, sendTo.
Online == current # NoSock /\ ws[current] = "open"
Send(f) == down' = down \cup {f}

Frame(t, j) == [type |-> t, job |-> j]

-----------------------------------------------------------------------------
(* onDeviceMessage.                                                          *)

Arrives(f) == f \in up /\ up' = up \ {f}

Accepted(j) ==
    /\ Arrives(Frame("accepted", j))
    /\ IF IsDone(Read(j)) THEN UNCHANGED caches ELSE Put(j, "running")
    /\ UNCHANGED <<ws, current, latest, book, down, job, call, reply, known, calls, restarts>>

Result(j) ==
    /\ Arrives(Frame("result", j))
    /\ Put(j, "done") /\ Finish(j) /\ known' = known \cup {j}
    /\ UNCHANGED <<ws, current, latest, down, job, call, reply, calls, restarts>>

\* noteBeat, noteDesktop: who waits is answered.
Beat ==
    /\ Arrives(Frame("ping", NoJob))
    /\ call' = [o \in Fingerprint |-> IF call[o].kind = "beat" THEN NoCall ELSE call[o]]
    /\ reply' = [o \in Fingerprint |-> IF call[o].kind = "beat" THEN [row |-> "beat", job |-> NoJob] ELSE reply[o]]
    /\ UNCHANGED <<ws, current, latest, book, caches, down, job, known, calls, restarts>>

Desktop(o) ==
    /\ Arrives(Frame("desktop", o))
    /\ IF call[o].kind = "desktop"
       THEN call' = [call EXCEPT ![o] = NoCall] /\ reply' = [reply EXCEPT ![o] = [row |-> "desktop", job |-> NoJob]]
       ELSE UNCHANGED <<call, reply>>
    /\ UNCHANGED <<ws, current, latest, book, caches, down, job, known, calls, restarts>>

-----------------------------------------------------------------------------
(* The routes.                                                               *)

Begins(o) == calls < MaxCalls /\ calls' = calls + 1 /\ call[o] = NoCall
Answer(o, row, j) == reply' = [reply EXCEPT ![o] = [row |-> row, job |-> j]]

Wait(o, kind, j) == call' = [call EXCEPT ![o] = [kind |-> kind, job |-> j]]

\* /v1/run and /v1/plugin: claimed before it is known to be sent.
Run(o, j) ==
    /\ Begins(o) /\ OpOf[j] = o
    /\ j \in Recoverable \/ (owner[j] = NoJob /\ job[j] = "none")
    /\ Claim(o, j)
    /\ \/ j \in Recoverable /\ UNCHANGED caches
       \/ j \notin Recoverable /\ Put(j, "pending")
    /\ IF Online
       THEN Send(Frame("run", j)) /\ Answer(o, "running", j)
       ELSE UNCHANGED down /\ Answer(o, "offline", NoJob)
    /\ UNCHANGED <<ws, current, latest, up, job, call, restarts>>

\* operationCorr: a request id is of the operator that asks with it.
Belongs(o, j) == OpOf[j] = o

\* /v1/get_result and /v1/plugin_result, with a request_id: unknown tickets are claimed.
GetRecovered(o, j) ==
    /\ Begins(o) /\ j \in Recoverable
    /\ IF ~Belongs(o, j) THEN Answer(o, "refused", NoJob) /\ UNCHANGED <<book, known, down, call>>
       ELSE /\ IF owner[j] = NoJob THEN Claim(o, j) ELSE UNCHANGED <<book, known>>
            /\ IF ~IsDone(Read(j)) /\ Online THEN Send(Frame("get_result", j)) ELSE UNCHANGED down
            /\ Wait(o, "get", j) /\ UNCHANGED reply
    /\ UNCHANGED <<ws, current, latest, caches, up, job, restarts>>

\* The same with a ticket, or for what the operator did last.
Get(o, j) ==
    /\ Begins(o)
    /\ LET t == Resolve(o, j) IN
       IF t = NoJob THEN Answer(o, "pending", NoJob) /\ UNCHANGED <<down, call>>
       ELSE /\ IF Read(t) \in {"unknown", "nothing", "running", "pending"} /\ Online
               THEN Send(Frame("get_result", t)) ELSE UNCHANGED down
            /\ Wait(o, "get", t) /\ UNCHANGED reply
    /\ UNCHANGED <<ws, current, latest, book, known, caches, up, job, restarts>>

\* waitHubResult: the row at the time, when it is there or when the time is over.
GetEnds(o) ==
    /\ call[o].kind = "get"
    /\ Answer(o, Read(call[o].job), call[o].job) /\ call' = [call EXCEPT ![o] = NoCall]
    /\ UNCHANGED <<ws, current, latest, book, caches, down, up, job, known, calls, restarts>>

\* /v1/type, /v1/read_screen: on a job of the operator, or silently nothing.
Drive(o, j) ==
    /\ Begins(o) /\ Online
    /\ LET t == Resolve(o, j) IN
       IF t = NoJob THEN UNCHANGED down ELSE Send([type |-> "drive", job |-> t, by |-> o])
    /\ UNCHANGED <<ws, current, latest, book, caches, up, job, call, reply, known, restarts>>

\* /v1/heartbeat, /v1/desktop_*: asked of the device, and waited for.
Ask(o, kind) ==
    /\ Begins(o) /\ Online /\ Wait(o, kind, NoJob)
    /\ Send(Frame(kind, IF kind = "desktop" THEN o ELSE NoJob))
    /\ UNCHANGED <<ws, current, latest, book, caches, up, job, reply, known, restarts>>

AskEnds(o) ==
    /\ call[o].kind \in {"beat", "desktop"}
    /\ call' = [call EXCEPT ![o] = NoCall] /\ Answer(o, "timeout", NoJob)
    /\ UNCHANGED <<ws, current, latest, book, caches, down, up, job, known, calls, restarts>>

-----------------------------------------------------------------------------
(* The device, as far as the hub sees it: it runs a job once, and says how   *)
(* it ended when it is asked and when it has connected again.                *)

Gone(f) == down' = down \ {f}

DeviceRuns(j) ==
    /\ Frame("run", j) \in down /\ Gone(Frame("run", j))
    /\ \/ job[j] = "none" /\ job' = [job EXCEPT ![j] = "running"] /\ up' = up \cup {Frame("accepted", j)}
       \/ job[j] = "running" /\ UNCHANGED job /\ up' = up \cup {Frame("accepted", j)}
       \/ job[j] = "done" /\ UNCHANGED job /\ up' = up \cup {Frame("result", j)}
    /\ UNCHANGED <<ws, current, latest, book, caches, call, reply, known, calls, restarts>>

DeviceEnds(j) ==
    /\ job[j] = "running" /\ job' = [job EXCEPT ![j] = "done"]
    /\ up' = up \cup {Frame("result", j)}
    /\ UNCHANGED <<ws, current, latest, book, caches, down, call, reply, known, calls, restarts>>

DeviceTells(j) ==
    /\ Frame("get_result", j) \in down /\ Gone(Frame("get_result", j))
    /\ up' = IF job[j] = "done" THEN up \cup {Frame("result", j)} ELSE up
    /\ UNCHANGED <<ws, current, latest, book, caches, job, call, reply, known, calls, restarts>>

DeviceAnswers(f) ==
    /\ f \in down /\ f.type \in {"beat", "desktop", "drive"} /\ Gone(f)
    /\ up' = CASE f.type = "beat" -> up \cup {Frame("ping", NoJob)}
               [] f.type = "desktop" -> up \cup {f}
               [] OTHER -> up
    /\ UNCHANGED <<ws, current, latest, book, caches, job, call, reply, known, calls, restarts>>

-----------------------------------------------------------------------------
Unclaimed == [j \in Job |-> NoJob]
NothingLive == [f \in Fingerprint |-> NoJob]
NoCalls == [f \in Fingerprint |-> NoCall]

Init ==
    /\ ws = [s \in Sock |-> "none"] /\ current = NoSock /\ latest = NoSock
    /\ owner = Unclaimed /\ live = NothingLive /\ alive = {}
    /\ results = <<>> /\ completed = <<>> /\ bytes = 0
    /\ call = NoCalls /\ known = {} /\ down = {} /\ up = {}
    /\ job = [j \in Job |-> "none"] /\ reply = [f \in Fingerprint |-> NoReply]
    /\ calls = 0 /\ restarts = 0

\* The process ends and starts again; what was under way is cut.
Restart ==
    /\ restarts < MaxRestarts /\ restarts' = restarts + 1
    /\ owner' = Unclaimed /\ live' = NothingLive /\ alive' = {}
    /\ results' = <<>> /\ completed' = <<>> /\ bytes' = 0
    /\ call' = NoCalls /\ known' = {} /\ down' = {} /\ up' = {}
    /\ ws' = [s \in Sock |-> IF ws[s] = "none" THEN "none" ELSE "closed"]
    /\ current' = NoSock /\ latest' = NoSock
    /\ UNCHANGED <<job, reply, calls>>

Next ==
    \/ \E s \in Sock : Accept(s) \/ Close(s)
    \/ \E j \in Job : Accepted(j) \/ Result(j) \/ DeviceRuns(j) \/ DeviceEnds(j) \/ DeviceTells(j)
    \/ \E o \in Fingerprint :
          \/ \E j \in Job : Run(o, j) \/ GetRecovered(o, j)
          \/ \E j \in Job \cup {NoJob} : Get(o, j) \/ Drive(o, j)
          \/ GetEnds(o) \/ Desktop(o) \/ AskEnds(o) \/ Ask(o, "beat") \/ Ask(o, "desktop")
    \/ \E f \in down : DeviceAnswers(f)
    \/ Beat \/ ResultExpires \/ SummaryExpires \/ Restart

Spec == Init /\ [][Next]_vars

-----------------------------------------------------------------------------
(* Properties.                                                               *)

\* payload-cache: "Payloads only. Never stores/evicts session ownership": a job
\* whose end the hub was told does not become one that runs or never was.
FinishedIsKnown == \A j \in known : owner[j] # NoJob => IsDone(Read(j))

\* session.mjs: an operator is told of its own jobs and drives its own, also
\* when the hub has forgotten whose they are.
OwnJobsOnly ==
    /\ \A o \in Operator : reply[o].job # NoJob => OpOf[reply[o].job] = o
    /\ \A f \in down : f.type = "drive" /\ f.by \in Operator => OpOf[f.job] = f.by

\* PayloadCache: what is counted is what is there, and no more than allowed.
CacheIsBounded ==
    /\ bytes = Weight(results) /\ bytes <= MaxBytes
    /\ Len(results) <= MaxEntries /\ Len(completed) <= MaxSummaries

\* acceptDevice: a device whose newest socket is open is online, whenever the
\* close of an older one is noticed.
NewestSocketCounts == latest # NoSock /\ ws[latest] = "open" => current = latest
=============================================================================

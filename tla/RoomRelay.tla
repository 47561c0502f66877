------------------------------ MODULE RoomRelay ------------------------------
(* The relay of Rooms and the connections to it:                             *)
(* src/packages/fleet-room/relay.mjs and client.mjs, the Durable Object      *)
(* around it (room-relay.ts) and the tools that call through it              *)
(* (src/packages/fleet-tool/room-client.mjs).                                *)
(*                                                                           *)
(* The relay keeps nothing but its sockets and the requests that wait for a  *)
(* leader.  Between two awaits its code is one step.  An end of a socket     *)
(* that closes is noticed at the other end later, or never.  All calls here  *)
(* carry one request id: they are the first try and the retries of a client, *)
(* or of a client and the owner's console.                                   *)
EXTENDS Integers, FiniteSets

CONSTANTS
    LeaderSock,     \* sockets of runtimes with the leader's id
    ClientSock,     \* sockets of the client, one after the other
    Call,           \* calls
    User,           \* the console, which calls by HTTP
    From,           \* Call -> {"client", User}
    NoSock,
    MaxPending,     \* limit of the requests that wait
    MaxConnections  \* limit of the connections

VARIABLES
    cl,            \* the far end of a socket: RoomConnection.attempt
    srv,           \* the relay's end: readyState
    fresh,         \* sockets that were heard of in the last 45 seconds
    connections,   \* of the relay
    valid,         \* the account's key
    rs,            \* a call in the relay: where it is, or its outcome
    rc,            \* the leader's connection that a call was bound to
    via,           \* the client's connection that a call came by
    was,           \* the key was valid when the authorization was asked for
    ls,            \* a call at the leader
    cs,            \* a call at the client
    stored,        \* the receipt of the request in the ledger
    effects,       \* how often the ledger did what was asked
    cur, timer, closed    \* the client: connection, retryTimer, closed

relay  == <<srv, fresh, connections, rs, rc, via, was>>
leader == <<ls, stored, effects>>
client == <<cs, cur, timer, closed>>
vars == <<cl, srv, fresh, connections, valid, rs, rc, via, was, ls, cs, stored, effects,
          cur, timer, closed>>

Sock == LeaderSock \cup ClientSock
Outcome == {"ok", "refused", "capacity", "offline", "timeout"}

-----------------------------------------------------------------------------
(* Connections of the relay.                                                 *)

Pending == {c \in Call : rs[c] = "pending"}

\* detach: requests bound to a connection that is gone are rejected.
Offline(r, gone) == [c \in Call |-> IF r[c] = "pending" /\ rc[c] \in gone THEN "offline" ELSE r[c]]

\* prune: closed sockets and those that were not heard of, ownership first.
Stale == {s \in connections : srv[s] # "open" \/ s \notin fresh}

\* What is left after `gone` is detached and closed.
Cut(gone) ==
    /\ connections' = connections \ gone
    /\ srv' = [s \in Sock |-> IF s \in gone THEN "closed" ELSE srv[s]]

Live == connections \ Stale

\* attach: one runtime of an id.
MayAttach(s) ==
    /\ Cardinality(Live) < MaxConnections
    /\ s \in LeaderSock => Live \cap LeaderSock = {}

Attach(s) ==
    /\ cl[s] = "dial" /\ srv[s] = "none"
    /\ rs' = Offline(rs, Stale)
    /\ IF MayAttach(s)
       THEN /\ connections' = Live \cup {s} /\ fresh' = fresh \cup {s}
            /\ srv' = [t \in Sock |-> IF t = s THEN "open" ELSE IF t \in Stale THEN "closed" ELSE srv[t]]
       ELSE /\ connections' = Live /\ UNCHANGED fresh
            /\ srv' = [t \in Sock |-> IF t \in Stale \cup {s} THEN "closed" ELSE srv[t]]
    /\ UNCHANGED <<cl, valid, rc, via, was, leader, client>>

\* The close of the far end arrives, which it need not.
CloseArrives(s) ==
    /\ cl[s] = "done" /\ srv[s] = "open"
    /\ rs' = Offline(rs, {s}) /\ Cut({s})
    /\ UNCHANGED <<cl, fresh, valid, rc, via, was, leader, client>>

\* 45 seconds without a frame: the far end is gone, for it pings every 10
\* seconds and ends when a pong is 10 seconds late.
Silent(s) ==
    /\ cl[s] = "done" /\ s \in fresh /\ srv[s] = "open" /\ fresh' = fresh \ {s}
    /\ UNCHANGED <<cl, srv, connections, valid, rs, rc, via, was, leader, client>>

\* The awaited answer to a question about the key that was asked earlier.
Answer(c) == {valid, was[c]}

\* receive, ping: a frame is authorized before it counts.
Ping(s) ==
    /\ cl[s] = "open" /\ srv[s] = "open" /\ s \notin Stale
    /\ ~valid \/ Stale # {}
    /\ LET gone == IF valid THEN Stale ELSE Stale \cup {s} IN
       /\ rs' = Offline(rs, gone) /\ Cut(gone)
    /\ UNCHANGED <<cl, fresh, valid, rc, via, was, leader, client>>

-----------------------------------------------------------------------------
(* A call in the relay.                                                      *)

Set(c, v) == [rs EXCEPT ![c] = v]
Bound(c, s) == rc' = [rc EXCEPT ![c] = s]
Asked(c) == was' = [was EXCEPT ![c] = valid]

\* receive: prune, and ask for the sender's authorization.
Receive(c) ==
    /\ rs[c] = "sent"
    /\ Cut(Stale)
    /\ rs' = Offline(Set(c, IF via[c] \in Live THEN "sender" ELSE "gone"), Stale)
    /\ Asked(c)
    /\ UNCHANGED <<cl, fresh, valid, rc, via, leader, client>>

\* call, up to its first await.
Leaders == {s \in Live \cap LeaderSock : srv[s] = "open"}

Begins(c, r) ==
    IF Cardinality({d \in Call : r[d] = "pending"}) >= MaxPending
    THEN rs' = [r EXCEPT ![c] = "capacity"] /\ UNCHANGED <<rc, was>>
    ELSE \/ Leaders = {} /\ rs' = [r EXCEPT ![c] = "offline"] /\ UNCHANGED <<rc, was>>
         \/ \E s \in Leaders : rs' = [r EXCEPT ![c] = "leader"] /\ Bound(c, s) /\ Asked(c)

\* The sender's authorization is answered.
Handle(c) ==
    /\ rs[c] = "sender"
    /\ \/ /\ FALSE \in Answer(c)
          /\ rs' = Offline(Set(c, "gone"), {via[c]}) /\ Cut({via[c]})
          /\ UNCHANGED <<rc, was>>
       \/ /\ TRUE \in Answer(c) /\ (via[c] \notin connections \/ srv[via[c]] # "open")
          /\ rs' = Set(c, "gone") /\ UNCHANGED <<rc, was, srv, connections>>
       \/ /\ TRUE \in Answer(c) /\ via[c] \in connections /\ srv[via[c]] = "open"
          /\ Cut(Stale) /\ Begins(c, Offline(rs, Stale))
    /\ UNCHANGED <<cl, fresh, valid, via, leader, client>>

\* The console's call by HTTP.
HttpCall(c) ==
    /\ From[c] = User /\ cs[c] = "idle" /\ cs' = [cs EXCEPT ![c] = "waiting"]
    /\ Cut(Stale) /\ Begins(c, Offline(rs, Stale))
    /\ UNCHANGED <<cl, fresh, valid, via, leader, cur, timer, closed>>

\* The leader's authorization is answered; its devices are asked for.
AuthorizeLeader(c) ==
    /\ rs[c] = "leader" /\ was' = [was EXCEPT ![c] = TRUE]
    /\ \/ FALSE \in Answer(c) /\ rs' = Offline(Set(c, "offline"), {rc[c]}) /\ Cut({rc[c]})
       \/ TRUE \in Answer(c) /\ rs' = Set(c, "devices") /\ UNCHANGED <<srv, connections>>
    /\ UNCHANGED <<cl, fresh, valid, rc, via, leader, client>>

\* Both awaits yield: capacity and ownership are checked again.
SpaceLeft(r) == Cardinality({d \in Call : r[d] = "pending"}) < MaxPending
StillOwned(c) == rc[c] \in Live /\ srv[rc[c]] = "open"

Dispatch(c) ==
    /\ rs[c] = "devices" /\ Cut(Stale)
    /\ LET r == Offline(rs, Stale) IN
       IF ~StillOwned(c) THEN rs' = [r EXCEPT ![c] = "offline"] /\ UNCHANGED ls
       ELSE IF ~SpaceLeft(r) THEN rs' = [r EXCEPT ![c] = "capacity"] /\ UNCHANGED ls
       ELSE rs' = [r EXCEPT ![c] = "pending"] /\ ls' = [ls EXCEPT ![c] = "sent"]
    /\ UNCHANGED <<cl, fresh, valid, rc, via, was, stored, effects, client>>

\* The timer of a request.
LeaderTimeout(c) ==
    /\ rs[c] = "pending" /\ rs' = Set(c, "timeout")
    /\ UNCHANGED <<cl, srv, fresh, connections, valid, rc, via, was, leader, client>>

\* A result counts while its request waits for it.
ResultArrives(c) ==
    /\ ls[c] \in {"ok", "refused"} /\ cl[rc[c]] = "open"
    /\ ls' = [ls EXCEPT ![c] = "answered"]
    /\ LET live == rc[c] \in Live
           gone == IF live /\ ~valid THEN Stale \cup {rc[c]} ELSE Stale
           r == Offline(rs, gone)
       IN
       /\ Cut(gone)
       /\ rs' = IF live /\ r[c] = "pending" THEN [r EXCEPT ![c] = ls[c]] ELSE r
    /\ UNCHANGED <<cl, fresh, valid, rc, via, was, stored, effects, client>>

-----------------------------------------------------------------------------
(* The leader.                                                               *)

LeaderTakes(c) ==
    /\ ls[c] = "sent" /\ cl[rc[c]] = "open"
    /\ ls' = [ls EXCEPT ![c] = "taken"]
    /\ UNCHANGED <<cl, relay, valid, stored, effects, client>>

NeverStored == FALSE
\* A request that has a receipt is answered with it.
Known == stored

\* handleControl, in one transaction.
LeaderRuns(c) ==
    /\ ls[c] = "taken"
    /\ \/ Known /\ ls' = [ls EXCEPT ![c] = "ok"] /\ UNCHANGED <<stored, effects>>
       \/ ~Known /\ ls' = [ls EXCEPT ![c] = "ok"] /\ stored' = TRUE /\ effects' = effects + 1
       \/ ~Known /\ ls' = [ls EXCEPT ![c] = "refused"] /\ UNCHANGED <<stored, effects>>
    /\ UNCHANGED <<cl, relay, valid, client>>

-----------------------------------------------------------------------------
(* The far ends.                                                             *)

\* finish: timers, errors, a pong that is late, the other end's close.
Finish(s) ==
    /\ cl' = [cl EXCEPT ![s] = "done"]
    /\ cs' = [c \in Call |-> IF cs[c] = "waiting" /\ via[c] = s THEN "disconnected" ELSE cs[c]]

DialLeader(s) ==
    /\ s \in LeaderSock /\ cl[s] = "idle" /\ valid
    /\ cl' = [cl EXCEPT ![s] = "dial"]
    /\ UNCHANGED <<relay, valid, leader, client>>

\* The relay's ready frame.
Ready(s) ==
    /\ cl[s] = "dial" /\ srv[s] = "open"
    /\ cl' = [cl EXCEPT ![s] = "open"]
    /\ timer' = IF s \in ClientSock THEN FALSE ELSE timer
    /\ UNCHANGED <<relay, valid, leader, cs, cur, closed>>

EndsLeader(s) ==
    /\ s \in LeaderSock /\ cl[s] \in {"dial", "open"} /\ Finish(s)
    /\ UNCHANGED <<relay, valid, leader, cur, timer, closed>>

\* onClose: unless the client was shut down, it tries again.
Retry == timer \/ ~closed

EndsClient(s) ==
    /\ s \in ClientSock /\ cl[s] \in {"dial", "open"} /\ Finish(s)
    /\ cur' = IF cur = s THEN NoSock ELSE cur
    /\ timer' = Retry
    /\ UNCHANGED <<relay, valid, leader, closed>>

\* connect: at most one at a time; a call of a tool or the timer asks for it.
ConnectClient ==
    /\ cur = NoSock /\ ~closed
    /\ \/ /\ \E s \in ClientSock : cl[s] = "idle" /\ cur' = s /\ cl' = [cl EXCEPT ![s] = "dial"]
          /\ timer' \in {timer, FALSE}        \* a tool, or the timer
       \* authorization is refused: the attempt ends as it began
       \/ ~valid /\ timer' = Retry /\ UNCHANGED <<cur, cl>>
    /\ UNCHANGED <<relay, valid, leader, cs, closed>>

\* callTool.
Ask(c) ==
    /\ From[c] # User /\ cs[c] = "idle" /\ cur # NoSock /\ cl[cur] = "open"
    /\ cs' = [cs EXCEPT ![c] = "waiting"] /\ rs' = Set(c, "sent")
    /\ via' = [via EXCEPT ![c] = cur]
    /\ UNCHANGED <<cl, srv, fresh, connections, valid, rc, was, leader, cur, timer, closed>>

\* A reply that finds its connection open and its caller waiting.
Reply(c) ==
    /\ rs[c] \in Outcome /\ cs[c] = "waiting"
    /\ From[c] # User => srv[via[c]] = "open" /\ cl[via[c]] = "open"
    /\ cs' = [cs EXCEPT ![c] = rs[c]]
    /\ UNCHANGED <<cl, relay, valid, leader, cur, timer, closed>>

RequestTimeout(c) ==
    /\ From[c] # User /\ cs[c] = "waiting" /\ cs' = [cs EXCEPT ![c] = "timeout"]
    /\ UNCHANGED <<cl, relay, valid, leader, cur, timer, closed>>

Shutdown ==
    /\ ~closed /\ closed' = TRUE /\ timer' = FALSE
    /\ IF cur # NoSock THEN Finish(cur) ELSE UNCHANGED <<cl, cs>>
    /\ cur' = NoSock
    /\ UNCHANGED <<relay, valid, leader>>

Revoke ==
    /\ valid /\ valid' = FALSE
    /\ UNCHANGED <<cl, relay, leader, client>>

-----------------------------------------------------------------------------
Init ==
    /\ cl = [s \in Sock |-> "idle"] /\ srv = [s \in Sock |-> "none"]
    /\ fresh = {} /\ connections = {} /\ valid = TRUE
    /\ rs = [c \in Call |-> "none"] /\ rc = [c \in Call |-> NoSock]
    /\ via = [c \in Call |-> NoSock] /\ was = [c \in Call |-> TRUE]
    /\ ls = [c \in Call |-> "none"] /\ cs = [c \in Call |-> "idle"]
    /\ stored = FALSE /\ effects = 0
    /\ cur = NoSock /\ timer = TRUE /\ closed = FALSE

Next ==
    \/ \E s \in Sock : \/ Attach(s) \/ CloseArrives(s) \/ Silent(s) \/ Ping(s)
                       \/ DialLeader(s) \/ Ready(s) \/ EndsLeader(s) \/ EndsClient(s)
    \/ \E c \in Call : \/ Receive(c) \/ Handle(c) \/ HttpCall(c) \/ AuthorizeLeader(c) \/ Dispatch(c)
                       \/ LeaderTimeout(c) \/ ResultArrives(c) \/ LeaderTakes(c) \/ LeaderRuns(c)
                       \/ Ask(c) \/ Reply(c) \/ RequestTimeout(c)
    \/ ConnectClient \/ Shutdown \/ Revoke

Spec == Init /\ [][Next]_vars

-----------------------------------------------------------------------------
(* Properties.                                                               *)

\* attach: "an accidental second start cannot steal a live leader", and a
\* half-open socket does not keep its identity.
OneLeader ==
    Cardinality({s \in connections \cap LeaderSock : srv[s] = "open"}) <= 1

\* detach, call: a request waits only for a leader that is connected, so that
\* every loss of the leader is reported to the callers at once.
PendingIsOwned == \A c \in Pending : rc[c] \in connections

\* call: the limit of waiting requests holds although it is checked before
\* two awaits.
PendingBound == Cardinality(Pending) <= MaxPending

\* README: "retain requestId for retry".  The retries of a request have its
\* effect once, and an answer means that it was had.
OneEffect == effects <= 1 /\ \A c \in Call : cs[c] = "ok" => effects = 1

\* room-client: a client that was not shut down is connected, connecting, or
\* will try again.
NeverGivesUp == closed \/ cur # NoSock \/ timer
=============================================================================

------------------------------ MODULE RtcSignals -----------------------------
(* How a direct connection is arranged through the hub, and what reaches an  *)
(* operator outside it: the RTC rows, the ticket and the desktop and         *)
(* heartbeat waiters of DeviceDO (src/packages/fleet-worker/src/index.ts),   *)
(* with the Agent's side of them (src/packages/fleet-agent/rtc.go).          *)
(*                                                                           *)
(* A handler of the hub is one step up to its await of FleetDO.  A preparing *)
(* session of the Agent is out of its tables between two locks ("made").     *)
(* The frames of a socket arrive in order or are lost with it.  The offer of *)
(* a session is its sid, and its first direct call has the sid as its corr.  *)
EXTENDS Integers, FiniteSets, Sequences

CONSTANTS
    Sid,        \* sessions, one for each attempt of an operator
    Operators,
    Callers,    \* the attempts that go on to a direct call
    OwnerOf,    \* Sid -> Operators: x-fleet-operator of the attempt
    Limit,      \* rtcSessionLimit
    MaxSocket   \* bound: sockets of the Agent

VARIABLES
    valid,      \* the account's key generation is the one they all use
    sock, socks,     \* the Agent's socket (0: none), and how many there were
    revoked,    \* authRevoked
    toAgent, toHub,  \* frames on the socket
    row,        \* rtc:<sid>: "none", "offered", "ready"
    signing,    \* sids whose answer is with FleetDO
    signed,     \* sids whose ticket is signed and not stored yet
    ag,         \* the Agent's session: "none", "pending", "made", "open"
    on,         \* the socket of its offer
    auth,       \* authorized
    seen,       \* sids whose rtc_cancel the Agent has handled
    client,     \* an attempt at its operator
    call,       \* its first direct call, at the Agent
    owner,      \* own:<corr> at the hub
    result,     \* rtcDesktopResults
    took,       \* who took the result of a call from the hub
    ask         \* the waiter of a desktop action or heartbeat ("off": nobody asks)

socket  == <<sock, socks, toAgent, toHub>>
hub     == <<row, signing, signed, owner, result>>
agent   == <<ag, on, auth, seen, call, revoked>>
vars    == <<valid, socket, hub, agent, client, took, ask>>

Frame(t, s) == [type |-> t, sid |-> s]
NoSid == "-"

ToAgent(f) == toAgent' = IF sock = 0 THEN toAgent ELSE Append(toAgent, f)
ToHub(f)   == toHub' = IF sock = 0 THEN toHub ELSE Append(toHub, f)

FromHub(t, s) ==
    /\ toAgent # <<>> /\ Head(toAgent) = Frame(t, s)
    /\ toAgent' = Tail(toAgent)
FromAgent(t, s) ==
    /\ toHub # <<>> /\ Head(toHub) = Frame(t, s)
    /\ toHub' = Tail(toHub)

-----------------------------------------------------------------------------
(* Signalling at the hub.                                                    *)

\* /rtc-offer of the device: the row, and then the frame.
Offered(s) ==
    /\ row' = [row EXCEPT ![s] = "offered"]
    /\ ToAgent(Frame("rtc_offer", s))

\* /v1/rtc/config and /v1/rtc/offer.
Offer(s) ==
    /\ client[s] = "new" /\ valid
    /\ IF sock = 0
       THEN client' = [client EXCEPT ![s] = "gone"] /\ UNCHANGED <<row, toAgent>>
       ELSE /\ client' = [client EXCEPT ![s] = "offered"]
            /\ Offered(s)
    /\ UNCHANGED <<valid, sock, socks, toHub, signing, signed, owner, result, agent, took, ask>>

\* /rtc-session: waiting, ready with the answer and its ticket, or not found.
Found(s) == CASE row[s] = "offered" -> "offered" [] row[s] = "ready" -> "ready" [] OTHER -> "gone"

\* /v1/rtc/session.
Poll(s) ==
    /\ client[s] = "offered" /\ valid
    /\ Found(s) # "offered"
    /\ client' = [client EXCEPT ![s] = Found(s)]
    /\ UNCHANGED <<valid, socket, hub, agent, took, ask>>

\* /rtc-cancel: the Agent hears of it only if there is a row.
Cancelled(s) ==
    /\ row' = [row EXCEPT ![s] = "none"]
    /\ IF row[s] = "none" THEN UNCHANGED toAgent ELSE ToAgent(Frame("rtc_cancel", s))

\* /v1/rtc/cancel.
Cancel(s) ==
    /\ client[s] \in {"offered", "ready"} /\ valid
    /\ client' = [client EXCEPT ![s] = "gone"]
    /\ Cancelled(s)
    /\ UNCHANGED <<valid, sock, socks, toHub, signing, signed, owner, result, agent, took, ask>>

KnownOrNot(s) == TRUE

Known(s) == row[s] # "none"

\* rtc_answer, up to the ticket: the row that is read now is what is put back.
Answered(s) ==
    /\ FromAgent("rtc_answer", s)
    /\ signing' = IF Known(s) THEN signing \cup {s} ELSE signing
    /\ UNCHANGED <<valid, sock, socks, toAgent, row, signed, owner, result, agent, client, took, ask>>

\* rtcTicket: FleetDO signs for a key generation that is still the account's.
Sign(s) ==
    /\ s \in signing
    /\ signing' = signing \ {s}
    /\ signed' = IF valid THEN signed \cup {s} ELSE signed
    /\ UNCHANGED <<valid, socket, row, owner, result, agent, client, took, ask>>

\* The rest of rtc_answer: the row is back even if it was cancelled meanwhile.
Store(s) ==
    /\ s \in signed
    /\ signed' = signed \ {s}
    /\ row' = [row EXCEPT ![s] = "ready"]
    /\ ToAgent(Frame("rtc_ticket", s))
    /\ UNCHANGED <<valid, sock, socks, toHub, signing, owner, result, agent, client, took, ask>>

Closed(s) ==
    /\ FromAgent("rtc_closed", s)
    /\ row' = [row EXCEPT ![s] = "none"]
    /\ UNCHANGED <<valid, sock, socks, toAgent, signing, signed, owner, result, agent, client, took, ask>>

\* The rows live for RTC_SIGNAL_TTL_MS.
Expire(s) ==
    /\ row[s] # "none"
    /\ row' = [row EXCEPT ![s] = "none"]
    /\ UNCHANGED <<valid, socket, signing, signed, owner, result, agent, client, took, ask>>

-----------------------------------------------------------------------------
(* The Agent.                                                                *)

InTables == {s \in Sid : ag[s] \in {"pending", "open"}}

\* handleRTCOffer, up to its goroutine.
TakeOffer(s) ==
    /\ FromHub("rtc_offer", s)
    /\ IF ag[s] # "pending" /\ Cardinality(InTables) < Limit
       THEN /\ ag' = [ag EXCEPT ![s] = "pending"] /\ on' = [on EXCEPT ![s] = socks]
            /\ UNCHANGED toHub
       ELSE ToHub(Frame("rtc_closed", s)) /\ UNCHANGED <<ag, on>>
    /\ UNCHANGED <<valid, sock, socks, hub, auth, seen, call, revoked, client, took, ask>>

\* newRTCSession has returned and the reservation was still there.
Prepare(s) ==
    /\ ag[s] = "pending"
    /\ \E next \in {"made", "none"} : ag' = [ag EXCEPT ![s] = next]
    /\ UNCHANGED <<valid, socket, hub, on, auth, seen, call, revoked, client, took, ask>>

SameSocket(s) == ~revoked /\ sock # 0 /\ on[s] = socks

Install(s) ==
    /\ ag[s] = "made"
    /\ IF SameSocket(s)
       THEN ag' = [ag EXCEPT ![s] = "open"] /\ ToHub(Frame("rtc_answer", s))
       ELSE ag' = [ag EXCEPT ![s] = "none"] /\ UNCHANGED toHub
    /\ UNCHANGED <<valid, sock, socks, toAgent, hub, on, auth, seen, call, revoked, client, took, ask>>

\* handleRTCTicket.
TakeTicket(s) ==
    /\ FromHub("rtc_ticket", s)
    /\ auth' = [auth EXCEPT ![s] = ag[s] = "open"]
    /\ UNCHANGED <<valid, sock, socks, toHub, hub, ag, on, seen, call, revoked, client, took, ask>>

\* cancelRTCSession: what is between the two locks is not found.
TakeCancel(s) ==
    /\ FromHub("rtc_cancel", s)
    /\ seen' = seen \cup {s}
    /\ ag' = [ag EXCEPT ![s] = IF @ = "made" THEN @ ELSE "none"]
    /\ auth' = [auth EXCEPT ![s] = FALSE]
    /\ UNCHANGED <<valid, sock, socks, toHub, hub, on, call, revoked, client, took, ask>>

\* The peer connection fails or is closed by the operator.
Drop(s) ==
    /\ ag[s] = "open"
    /\ ag' = [ag EXCEPT ![s] = "none"] /\ auth' = [auth EXCEPT ![s] = FALSE]
    /\ UNCHANGED <<valid, socket, hub, on, seen, call, revoked, client, took, ask>>

\* takeRTCSessionsLocked.
TakeAll ==
    /\ ag' = [s \in Sid |-> IF ag[s] = "made" THEN "made" ELSE "none"]
    /\ auth' = [s \in Sid |-> FALSE]

Disconnect ==
    /\ sock # 0
    /\ sock' = 0 /\ toAgent' = <<>> /\ toHub' = <<>>
    /\ TakeAll
    /\ UNCHANGED <<valid, socks, hub, on, seen, call, revoked, client, took, ask>>

Connect ==
    /\ sock = 0 /\ ~revoked /\ valid /\ socks < MaxSocket
    /\ socks' = socks + 1 /\ sock' = socks'
    /\ UNCHANGED <<valid, toAgent, toHub, hub, agent, client, took, ask>>

TokenReset ==
    /\ valid /\ valid' = FALSE
    /\ UNCHANGED <<socket, hub, agent, client, took, ask>>

\* auth_revoked, or the refusal of the next hello.
Revoke ==
    /\ ~valid /\ ~revoked
    /\ revoked' = TRUE
    /\ sock' = 0 /\ toAgent' = <<>> /\ toHub' = <<>>
    /\ TakeAll
    /\ UNCHANGED <<valid, socks, hub, on, seen, call, client, took, ask>>

-----------------------------------------------------------------------------
(* Results outside the connection.                                           *)

\* A direct desktop call: claimRTCEnvelope before it is dispatched.
Exchange(s) ==
    /\ s \in Callers /\ client[s] = "ready" /\ auth[s] /\ call[s] = "none" /\ sock # 0
    /\ call' = [call EXCEPT ![s] = "running"]
    /\ ToHub(Frame("rtc_claim", s))
    /\ UNCHANGED <<valid, sock, socks, toAgent, hub, ag, on, auth, seen, revoked, client, took, ask>>

\* rtcSink: the answer goes over the connection, or over the socket of the
\* same identity once the connection is closed.
Return(s) ==
    /\ call[s] = "running"
    /\ \/ /\ auth[s]
          /\ call' = [call EXCEPT ![s] = "answered"]
          /\ UNCHANGED <<ag, auth, toHub>>
       \/ /\ sock # 0 /\ ~revoked
          /\ call' = [call EXCEPT ![s] = "relayed"]
          /\ ag' = [ag EXCEPT ![s] = "none"] /\ auth' = [auth EXCEPT ![s] = FALSE]
          /\ ToHub(Frame("desktop", s))
       \/ /\ sock = 0
          /\ call' = [call EXCEPT ![s] = "lost"]
          /\ ag' = [ag EXCEPT ![s] = "none"] /\ auth' = [auth EXCEPT ![s] = FALSE]
          /\ UNCHANGED toHub
    /\ UNCHANGED <<valid, sock, socks, toAgent, hub, on, seen, revoked, client, took, ask>>

Claim(s) ==
    /\ FromAgent("rtc_claim", s)
    /\ owner' = [owner EXCEPT ![s] = OwnerOf[s]]
    /\ UNCHANGED <<valid, sock, socks, toAgent, row, signing, signed, result, agent, client, took, ask>>

\* noteDesktop finds no waiter: rememberRtcDesktopResult.
Remember(s) ==
    /\ FromAgent("desktop", s)
    /\ result' = result \cup {s}
    /\ UNCHANGED <<valid, sock, socks, toAgent, row, signing, signed, owner, agent, client, took, ask>>

\* resolveSession: an unclaimed ticket is for callers without a fingerprint.
Sees(o, s) == owner[s] = o

\* /v1/rtc/result, and takeRtcDesktopResult.
Take(o, s) ==
    /\ valid /\ s \in result /\ Sees(o, s)
    /\ took' = [took EXCEPT ![s] = o]
    /\ result' = result \ {s}
    /\ UNCHANGED <<valid, socket, row, signing, signed, owner, agent, client, ask>>

\* /v1/desktop_*: the waiter is there before the frame is sent.
AskDesktop ==
    /\ ask = "none" /\ valid /\ sock # 0
    /\ ask' = "desktop" /\ ToAgent(Frame("desktop_action", NoSid))
    /\ UNCHANGED <<valid, sock, socks, toHub, hub, agent, client, took>>

\* /v1/heartbeat.
AskBeat ==
    /\ ask = "none" /\ valid /\ sock # 0
    /\ ask' = "beat" /\ ToAgent(Frame("ask_heartbeat", NoSid))
    /\ UNCHANGED <<valid, sock, socks, toHub, hub, agent, client, took>>

AgentAnswers ==
    /\ \/ FromHub("desktop_action", NoSid) /\ ToHub(Frame("desktop", NoSid))
       \/ FromHub("ask_heartbeat", NoSid) /\ ToHub(Frame("heartbeat", NoSid))
    /\ UNCHANGED <<valid, sock, socks, hub, agent, client, took, ask>>

\* noteDesktop: an answer without its waiter is remembered, and never asked for.
NoteDesktop ==
    /\ FromAgent("desktop", NoSid)
    /\ IF ask = "desktop" THEN ask' = "answered" /\ UNCHANGED result
       ELSE result' = result \cup {NoSid} /\ UNCHANGED ask
    /\ UNCHANGED <<valid, sock, socks, toAgent, row, signing, signed, owner, agent, client, took>>

\* noteBeat answers all that wait for one.
NoteBeat ==
    /\ FromAgent("heartbeat", NoSid)
    /\ ask' = IF ask = "beat" THEN "answered" ELSE ask
    /\ UNCHANGED <<valid, sock, socks, toAgent, hub, agent, client, took>>

AskTimeout ==
    /\ ask \in {"desktop", "beat"}
    /\ ask' = "timeout"
    /\ UNCHANGED <<valid, socket, hub, agent, client, took>>

\* The remembered answers live for fifteen seconds, in memory.
Forget ==
    /\ result # {} /\ result' = {}
    /\ UNCHANGED <<valid, socket, row, signing, signed, owner, agent, client, took, ask>>

-----------------------------------------------------------------------------

Init ==
    /\ valid = TRUE /\ sock = 1 /\ socks = 1 /\ revoked = FALSE
    /\ toAgent = <<>> /\ toHub = <<>>
    /\ row = [s \in Sid |-> "none"] /\ signing = {} /\ signed = {}
    /\ ag = [s \in Sid |-> "none"] /\ on = [s \in Sid |-> 0] /\ auth = [s \in Sid |-> FALSE]
    /\ seen = {} /\ client \in [Sid -> {"new", "gone"}] /\ call = [s \in Sid |-> "none"]
    /\ owner = [s \in Sid |-> NoSid] /\ result = {} /\ took = [s \in Sid |-> NoSid]
    /\ ask \in {"none", "off"}

HubStep(s) ==
    Offer(s) \/ Poll(s) \/ Cancel(s) \/ Answered(s) \/ Sign(s) \/ Store(s) \/ Closed(s)
        \/ Expire(s) \/ Claim(s) \/ Remember(s)

AgentStep(s) ==
    TakeOffer(s) \/ Prepare(s) \/ Install(s) \/ TakeTicket(s) \/ TakeCancel(s) \/ Drop(s)
        \/ Exchange(s) \/ Return(s)

Next ==
    \/ \E s \in Sid : HubStep(s) \/ AgentStep(s) \/ \E o \in Operators : Take(o, s)
    \/ Disconnect \/ Connect \/ TokenReset \/ Revoke \/ Forget
    \/ AskDesktop \/ AskBeat \/ AgentAnswers \/ NoteDesktop \/ NoteBeat \/ AskTimeout

Spec == Init /\ [][Next]_vars

-----------------------------------------------------------------------------

\* A connection that the Agent has cancelled is never authorized, although an
\* answer that is being signed brings the cancelled row back, and a session
\* that is between the Agent's two locks survives the cancel (rtc_answer,
\* cancelRTCSession, handleRTCOffer).
CancelHolds == \A s \in seen : ~auth[s]

\* A session lives on the socket that its offer came by: what was prepared for
\* a socket that is gone, or before the identity was revoked, is not installed
\* (handleRTCOffer, takeRTCSessionsLocked).
LivesOnItsSocket ==
    \A s \in Sid : ag[s] \in {"pending", "open"} => ~revoked /\ sock # 0 /\ on[s] = socks

\* What an Agent could not answer over the connection is taken from the hub by
\* the operator whose call it was, and by no other (claimRTCEnvelope, rtc_claim,
\* takeRtcDesktopResult).
OwnAnswers == \A s \in Sid : took[s] \in {NoSid, OwnerOf[s]}
=============================================================================

---------------------------- MODULE PeerDelivery ----------------------------
(* How an item of a peer session's outbox comes to the device that is one of *)
(* its ends, and how its acknowledgement comes back: the drains of the       *)
(* session's object, the reservation of the account, the device's object     *)
(* with its list of deliveries, the socket, and the agent with its session,  *)
(* its plugin and what it owes to a plugin that it aborted.                  *)
(* What a session is and how its rounds go is PeerSession's.                 *)
EXTENDS Naturals, Sequences, FiniteSets

CONSTANTS
    MaxWire,      \* bound: frames under way to the agent
    MaxLate,      \* bound: requests of drains that come late
    MaxBreaks     \* bound: sockets lost, and times the user switches the device off

VARIABLES
    record,      \* the session's phase, as far as deliveries depend on it
    outbox,      \* items not acknowledged
    mid,         \* items of drains whose request to the device's object is late
    aged,        \* the time of the account's reservation is over
    acked,       \* acknowledged in the peer-delivery-ids of the device's object
    sock,        \* the socket
    down,        \* the frames on it, in order
    sess,        \* the agent's session: waiting (for consent), open, closing
    plug,        \* its plugin: opening, or up
    graceful,    \* closing by FLPP Cancel and not by abort
    later,       \* a cancellation found it closing by abort
    busy,        \* the handler of a cancellation waits for the cleanup
    over,        \* terminal: the agent was told another end than a cancellation
    must, paid,  \* cancelRequired, cancelApplied
    recovery,    \* of a session that is gone: idle, or running
    receipt,     \* peerCancelReceipts
    applied,     \* peerDeliveries
    permit,      \* the device is switched on
    checkpoint,  \* the plugin has resumable state on disk
    stale,       \* a session began after the receipt of the same id
    breaks

hub   == <<record, outbox, mid, aged, acked>>
held  == <<mid, aged>>
debt  == <<must, paid, recovery, receipt>>
owner == <<sess, plug, graceful, later, busy, over>>
agent == <<owner, debt, applied, permit, checkpoint, stale>>
wire  == <<sock, down>>
count == breaks
vars  == <<hub, wire, agent, count>>

Item == {"prepare", "cancelled", "failed", "expired"}
Live == sess \in {"waiting", "open"}

-----------------------------------------------------------------------------
(* The session's object.                                                   *)

\* handlePeerSessionOperatorRequest, create: both ends are known and online.
Create ==
    /\ record = "none" /\ sock
    /\ record' = "open" /\ outbox' = {"prepare"}
    /\ UNCHANGED <<mid, aged, acked, wire, agent, count>>

\* The same with an event that ends the session: nothing else stays queued.
Cancel ==
    /\ record = "open" /\ record' = "cancelled" /\ outbox' = {"cancelled"}
    /\ UNCHANGED <<mid, aged, acked, wire, agent, count>>

\* The session's alarm ends it when its time, too, is over.
Age    == record # "none" /\ ~aged /\ aged' = TRUE /\ UNCHANGED <<record, outbox, mid, acked, wire, agent, count>>
Expire == /\ aged /\ record # "expired"
          /\ record' = "expired" /\ outbox' = {"expired"}
          /\ UNCHANGED <<mid, aged, acked, wire, agent, count>>

\* drain reads an item and sends it, without a lease: the request may be late,
\* and the item is sent again meanwhile, or is not in the outbox any more.
Delay(i) == /\ i \in outbox \ mid /\ Cardinality(mid) < MaxLate /\ mid' = mid \cup {i}
            /\ UNCHANGED <<record, outbox, aged, acked, wire, agent, count>>

\* /plugin-peer-session-push: what is not acknowledged is sent, also again.
\* Without a socket, or with a full list of deliveries, the drain retries.
Sends(i) == i \notin acked

Push(i) ==
    /\ i \in outbox \cup mid
    /\ sock /\ Sends(i) /\ Len(down) < MaxWire
    /\ down' = Append(down, i)
    /\ mid' = mid \ {i}
    /\ UNCHANGED <<record, outbox, aged, acked, sock, agent, count>>

PushFails(i) ==
    /\ i \in mid /\ mid' = mid \ {i}
    /\ UNCHANGED <<record, outbox, aged, acked, wire, agent, count>>

\* handlePeerSessionAck, at the session and then in the list of deliveries, and
\* handlePeerSessionMessage: a failure ends the session.  What comes late, and
\* what the account refuses (reservePeerSession), is as if it were lost.
Acked(i) == outbox' = outbox \ {i} /\ acked' = acked \cup {i} /\ UNCHANGED record
Failed   == record = "open" /\ record' = "failed" /\ outbox' = {"failed"} /\ UNCHANGED acked
Silent   == UNCHANGED <<record, outbox, acked>>

-----------------------------------------------------------------------------
(* The agent: its plugin.                                                  *)

Say(i)  == Silent \/ (sock /\ Acked(i))
SayFail == Silent \/ (sock /\ Failed)

StopPluginOwingNothing(g) ==
    \/ plug # "up" /\ UNCHANGED <<plug, must, paid, checkpoint>>
    \/ /\ plug = "up" /\ plug' = "none" /\ must' = g /\ UNCHANGED paid
       /\ checkpoint' = ~g

\* stopPluginPeerEpoch: an opened plugin is cancelled, or aborted with its
\* state left behind.
StopPlugin(g) ==
    \/ plug # "up" /\ UNCHANGED <<plug, must, paid, checkpoint>>
    \/ /\ plug = "up" /\ g /\ plug' = "none" /\ must' = TRUE
       /\ \E ok \in BOOLEAN : paid' = (paid \/ ok) /\ checkpoint' = ~ok
    \/ /\ plug = "up" /\ ~g /\ plug' = "none"
       /\ IF over THEN UNCHANGED <<must, paid>> ELSE must' = TRUE /\ paid' = FALSE
       /\ UNCHANGED checkpoint

\* closeClaimed, by whoever claims it first.
Close(g) == /\ sess' = "closing" /\ graceful' = g /\ later' = FALSE
            /\ StopPlugin(g)

\* pluginOps.Wait, retryPluginPeerCancel, the receipt or the recovery, and
\* dropPluginPeer; a handler that waits acknowledges what was applied.
Settled(m, p) == ~m \/ p

Closed ==
    /\ sess = "closing" /\ plug = "none"
    /\ \E p \in BOOLEAN :
         /\ p # paid => graceful /\ must /\ p
         /\ paid' = p /\ checkpoint' = (checkpoint /\ p = paid)
         /\ receipt' = (receipt \/ (graceful /\ Settled(must, p)))
         /\ recovery' = IF graceful /\ Settled(must, p) THEN "none"
                        ELSE IF later THEN "running"
                        ELSE IF ~over /\ must /\ ~p THEN "idle" ELSE recovery
         /\ IF busy /\ Settled(must, p)
            THEN Say("cancelled") /\ applied' = {"cancelled"}
            ELSE Silent /\ applied' = {}
    /\ sess' = "none" /\ graceful' = FALSE /\ later' = FALSE /\ busy' = FALSE
    /\ UNCHANGED <<held, wire, plug, over, must, permit, stale, count>>

\* pluginPeerCleanupWait: the item stays, and the cleanup goes on.
WaitEnds ==
    /\ busy /\ busy' = FALSE
    /\ UNCHANGED <<hub, wire, sess, plug, graceful, later, over, debt, applied, permit, checkpoint,
                   stale, count>>

\* approve: startEpoch opens the plugin.
Approve ==
    /\ sess = "waiting" /\ sess' = "open" /\ plug' = "opening"
    /\ UNCHANGED <<hub, wire, graceful, later, busy, over, debt, applied, permit, checkpoint, stale,
                   count>>

\* The plugin took Open: it may have state from now on.  Where a close came
\* first the plugin is not committed (stopUncommittedPlugin).
Opened ==
    /\ plug = "opening" /\ sess = "open"
    /\ plug' = "up" /\ checkpoint' = TRUE
    /\ UNCHANGED <<hub, wire, sess, graceful, later, busy, over, debt, applied, permit, stale, count>>

OpenedLate ==
    /\ plug = "opening" /\ sess = "closing" /\ plug' = "none"
    /\ \/ UNCHANGED <<must, paid, checkpoint>>
       \/ /\ must' = (must \/ ~over)
          /\ \E ok \in BOOLEAN : /\ ok => graceful
                               /\ paid' = (paid \/ ok) /\ checkpoint' = ~ok
    /\ UNCHANGED <<hub, wire, sess, graceful, later, busy, over, recovery, receipt, applied, permit,
                   stale, count>>

\* failEpoch: the plugin is not there, or fails.
Fails ==
    /\ sess = "open"
    /\ IF plug = "opening" THEN /\ sess' = "closing" /\ graceful' = FALSE /\ later' = FALSE
                                /\ plug' = "none" /\ UNCHANGED <<must, paid, checkpoint>>
                           ELSE Close(FALSE)
    /\ SayFail
    /\ UNCHANGED <<held, wire, busy, over, recovery, receipt, applied, permit, stale, count>>

\* startPluginPeerCancelRecovery: a plugin process of its own takes Cancel.
Recovered(ok) ==
    /\ recovery = "running"
    /\ IF ok \/ ~must
       THEN recovery' = "none" /\ receipt' = TRUE /\ paid' = TRUE /\ checkpoint' = (checkpoint /\ ~must)
       ELSE recovery' = "idle" /\ UNCHANGED <<receipt, paid, checkpoint>>
    /\ UNCHANGED <<hub, wire, owner, must, applied, permit, stale, count>>

-----------------------------------------------------------------------------
(* The agent: deliveries, one after the other.                             *)

Ack(i) == Say(i) /\ applied' = applied \cup {i}
Drop   == Silent /\ UNCHANGED applied

\* pluginPeerDeliveryReplaySafe: what was handled before is acknowledged again
\* without handling it, while what it did is still there.
ReplaySafe(i) == Live \/ i \in {"failed", "expired"} \/ (i = "cancelled" /\ receipt)

Replayed(i) ==
    /\ i \in applied /\ (ReplaySafe(i) \/ sess # "none")
    /\ IF ReplaySafe(i) THEN Ack(i) ELSE Drop
    /\ UNCHANGED <<owner, debt, permit, checkpoint, stale>>

\* releasePluginPeerDeliveryForReplay: otherwise it is handled once more.
Fresh(i) == i \notin applied \/ (~ReplaySafe(i) /\ sess = "none")

\* handlePluginPeerPrepare: refused on a device that is off; the same as the
\* one that is there; or a new session, which takes over what is owed
\* (transferPluginPeerCancelRecoveryLocked), and asks or starts.
Prepare ==
    \/ /\ ~permit /\ SayFail
       /\ UNCHANGED <<owner, debt, applied, permit, checkpoint, stale>>
    \/ /\ permit /\ sess # "none"
       /\ IF Live THEN Ack("prepare") ELSE Drop
       /\ UNCHANGED <<owner, debt, permit, checkpoint, stale>>
    \/ /\ permit /\ sess = "none" /\ recovery = "running" /\ Drop
       /\ UNCHANGED <<owner, debt, permit, checkpoint, stale>>
    \/ /\ permit /\ sess = "none" /\ recovery # "running"
       /\ must' = (recovery = "idle" /\ must) /\ paid' = FALSE /\ recovery' = "none"
       /\ \/ sess' = "waiting" /\ UNCHANGED plug
          \/ sess' = "open" /\ plug' = "opening"
       /\ over' = FALSE /\ stale' = receipt
       /\ Ack("prepare")
       /\ UNCHANGED <<graceful, later, busy, receipt, permit, checkpoint>>

AcknowledgesAnyway == receipt \/ recovery = "none"

\* handlePluginPeerUpdate, cancelled: with a session it waits for FLPP Cancel,
\* unless the session is being aborted; without one only the receipt counts,
\* and what is owed is tried again.
Acknowledges == receipt

Cancelled ==
    \/ /\ Live /\ Close(TRUE) /\ busy' = TRUE /\ Drop
       /\ UNCHANGED <<over, recovery, receipt, permit, stale>>
    \/ /\ sess = "closing" /\ Drop
       /\ busy' = graceful /\ later' = ~graceful
       /\ UNCHANGED <<sess, plug, graceful, over, debt, permit, checkpoint, stale>>
    \/ /\ sess = "none"
       /\ IF Acknowledges THEN Ack("cancelled") ELSE Drop
       /\ recovery' = IF ~Acknowledges /\ recovery = "idle" THEN "running" ELSE recovery
       /\ UNCHANGED <<owner, must, paid, receipt, permit, checkpoint, stale>>

\* The same, failed or expired: the plugin is aborted, and nothing is owed.
Ended(i) ==
    /\ over' = (sess # "none")
    /\ IF Live THEN Close(FALSE) ELSE UNCHANGED <<sess, graceful, later, plug, must, paid, checkpoint>>
    /\ recovery' = IF recovery = "idle" THEN "none" ELSE recovery
    /\ Ack(i)
    /\ UNCHANGED <<busy, receipt, permit, stale>>

Handle(i) ==
    /\ ~busy /\ down # <<>> /\ Head(down) = i /\ down' = Tail(down)
    /\ \/ Replayed(i)
       \/ Fresh(i) /\ i = "prepare" /\ Prepare
       \/ Fresh(i) /\ i = "cancelled" /\ Cancelled
       \/ Fresh(i) /\ i \in {"failed", "expired"} /\ Ended(i)
    /\ UNCHANGED <<held, sock, count>>

-----------------------------------------------------------------------------
(* The socket, the user and the process.                                   *)

SocketGone == sock' = FALSE /\ down' = <<>>

\* takePluginPeersLocked: every session is closed by g, and what is owed for
\* one that is gone is tried again where the plugin is to be cancelled.
TakeSessions(g) ==
    /\ IF Live THEN Close(g) ELSE UNCHANGED <<sess, graceful, later, plug, must, paid, checkpoint>>
    /\ recovery' = IF g /\ recovery = "idle" THEN "running" ELSE recovery

\* readLoop: a socket that is lost aborts the sessions.
Lost ==
    /\ sock /\ breaks < MaxBreaks /\ breaks' = breaks + 1
    /\ SocketGone /\ TakeSessions(FALSE)
    /\ UNCHANGED <<hub, busy, over, receipt, applied, permit, stale>>

Connect ==
    /\ ~sock /\ permit /\ sock' = TRUE
    /\ UNCHANGED <<hub, down, agent, count>>

\* disconnectLocked: the user switches the device off, which cancels them.
Disconnect ==
    /\ permit /\ breaks < MaxBreaks /\ breaks' = breaks + 1
    /\ permit' = FALSE /\ SocketGone /\ TakeSessions(TRUE)
    /\ UNCHANGED <<hub, busy, over, receipt, applied, stale>>

\* setPermit(off): rejectPluginPeers cancels them and tells the hub.
Forbid ==
    /\ permit /\ breaks < MaxBreaks /\ breaks' = breaks + 1
    /\ permit' = FALSE /\ TakeSessions(TRUE)
    /\ IF Live THEN SayFail ELSE Silent
    /\ UNCHANGED <<held, wire, busy, over, receipt, applied, stale>>

Allow ==
    /\ ~permit /\ permit' = TRUE
    /\ UNCHANGED <<hub, wire, owner, debt, applied, checkpoint, stale, count>>

-----------------------------------------------------------------------------
Init ==
    /\ record = "none" /\ outbox = {} /\ mid = {} /\ aged = FALSE /\ acked = {}
    /\ sock = TRUE /\ down = <<>>
    /\ sess = "none" /\ plug = "none" /\ graceful = FALSE /\ later = FALSE /\ busy = FALSE
    /\ over = FALSE /\ must = FALSE /\ paid = FALSE /\ recovery = "none" /\ receipt = FALSE
    /\ applied = {} /\ permit = TRUE /\ checkpoint = FALSE /\ stale = FALSE
    /\ breaks = 0

Carries == \E i \in Item : Delay(i) \/ Push(i) \/ PushFails(i)

Next ==
    \/ Create \/ Cancel \/ Age \/ Expire
    \/ Carries
    \/ Closed \/ WaitEnds \/ Approve \/ Opened \/ OpenedLate \/ Fails
    \/ \E ok \in BOOLEAN : Recovered(ok)
    \/ \E i \in Item : Handle(i)
    \/ Lost \/ Connect \/ Disconnect \/ Forbid \/ Allow

Spec == Init /\ [][Next]_vars

-----------------------------------------------------------------------------
(* Properties.                                                             *)

\* The hub forgets a cancellation only when no state of the plugin is left ("Do not ACK the durable delivery until the local FLPP process has
\* seen cancel", handlePluginPeerUpdate).
Delivered == "cancelled" \in acked' \ acked

CancelIsApplied == [][Delivered /\ record = "cancelled" => ~checkpoint' \/ stale]_vars

\* What a plugin that was aborted has left is owed by somebody: the session,
\* its cleanup, or the recovery, until the session has ended otherwise
\* (stopPluginPeerEpoch, transferPluginPeerCancelRecoveryLocked).
DebtIsOwed ==
    checkpoint =>
        \/ plug = "up" \/ over
        \/ must /\ ~paid /\ (sess # "none" \/ recovery # "none")
        \/ record \in {"failed", "expired"}
=============================================================================

----------------------------- MODULE HubDevices -----------------------------
(* The hub's account of its devices: one user's Hub token, its reset, and   *)
(* the WebSockets of the user's devices.  FleetDO keeps the token, the      *)
(* revocation markers and the catalog; each device has a DeviceDO with its  *)
(* sockets; RevocationDO fans a reset out to the DeviceDOs.  A request from *)
(* one object to another is a step of its own, so that whatever the code    *)
(* awaits, the others may move: src/packages/fleet-worker/src/index.ts.     *)
(*                                                                          *)
(* A key is a number, a connection stands for its connectionId and for the  *)
(* nonce of its challenge.  Requests between the objects are not lost,      *)
(* except those of a kick, whose failure the code handles.                  *)
EXTENDS Integers, FiniteSets, Sequences, SequencesExt

CONSTANTS
    Device,       \* device ids of the user
    Conn,         \* attempts of an agent to connect
    Reset,        \* POST /v1/hub_token
    MaxChal,      \* CHALLENGE_MAX_LIVE
    Evictions,    \* bound: how often a DeviceDO loses its memory
    InOrder,      \* requests of one DeviceDO reach FleetDO in the order they were sent
    Nobody        \* no connection, no reset

ASSUME Bounds ==
    /\ MaxChal \in Nat \ {0} /\ Evictions \in Nat /\ InOrder \in BOOLEAN
    /\ Device # {} /\ Nobody \notin Conn \cup Reset

VARIABLES
    user,         \* the UserRow in storage: key, 0 for none, and banned
    minted,       \* the newest key
    revoked,      \* the revoked: markers
    chals,        \* the challenges of the key, oldest first
    row,          \* the catalog: the connection that claimed a device, and online
    lock,         \* who has the user's mutation lock
    rpc,          \* what a reset has come to
    copy,         \* the UserRow a reset has read
    kick,         \* the state of each leaf of a reset's kick tree
    at,           \* what a connection has come to
    dev, key, nonce,   \* its device, its key and the nonce it presents
    beat,         \* its touch: "none", "sent", "ok", "bad"
    revokedKids,  \* in memory of each DeviceDO
    lost,         \* how often a DeviceDO was evicted
    ordered,      \* the last ban that was answered
    dead          \* the keys whose reset has been answered with a new token

fleet == <<user, minted, revoked, chals, row, lock>>
resets == <<rpc, copy, kick>>
conns == <<at, dev, key, nonce, beat>>
vars == <<fleet, resets, conns, revokedKids, lost, ordered, dead>>

NoRow == [conn |-> Nobody, online |-> FALSE]

Sockets(d) == {c \in Conn : at[c] = "open" /\ dev[c] = d}

\* rejectIfBanned and the checks of claimDevice, touchDevice, challenge,
\* resolveWrap: the key is the user's, and no reset of it has begun.
Current(k) == ~user.banned /\ k # 0 /\ user.key = k /\ k \notin revoked

Goes(c, p) == at' = [at EXCEPT ![c] = p]

-----------------------------------------------------------------------------
(* The handshake of a connection.                                           *)

\* GET /v1/challenge: a fresh nonce; past the limit the oldest are dropped.
\* It is refused when a reset begins before it is signed, which comes to the
\* same as a refusal by resolveWrap.
NextChallengeList(c) ==
    LET list == Append(chals, c)
    IN  IF Len(list) > MaxChal THEN Tail(list) ELSE list

Challenge(c) ==
    /\ at[c] = "new" /\ nonce[c] = Nobody /\ Current(user.key)
    /\ chals' = NextChallengeList(c)
    /\ nonce' = [nonce EXCEPT ![c] = c]
    /\ key' = [key EXCEPT ![c] = user.key]
    /\ Goes(c, "asked")
    /\ UNCHANGED <<user, minted, revoked, row, lock, resets, dev, beat, revokedKids, lost,
                   ordered, dead>>

\* The agent wraps its token and the nonce; a request that was delivered twice
\* presents the nonce of the first.
Present(c) ==
    /\ at[c] = "new"
    /\ \E d \in Conn \ {c} :
          /\ at[d] \notin {"new", "asked"}
          /\ nonce' = [nonce EXCEPT ![c] = nonce[d]]
          /\ key' = [key EXCEPT ![c] = key[d]]
    /\ Goes(c, "asked")
    /\ UNCHANGED <<fleet, resets, dev, beat, revokedKids, lost, ordered, dead>>

\* resolveWrap reads the user and opens the wrap with its private key...
Unwrap(c) ==
    /\ at[c] = "asked"
    /\ Goes(c, IF Current(key[c]) THEN "unwrapped" ELSE "refused")
    /\ UNCHANGED <<fleet, resets, dev, key, nonce, beat, revokedKids, lost, ordered, dead>>

\* ... takes the nonce out of the book, if it is there...
TakeNonce(c) ==
    /\ at[c] = "unwrapped"
    /\ \/ \E i \in DOMAIN chals :
             chals[i] = nonce[c] /\ chals' = RemoveAt(chals, i) /\ Goes(c, "taken")
       \/ /\ \A i \in DOMAIN chals : chals[i] # nonce[c]
          /\ Goes(c, "refused") /\ UNCHANGED chals
    /\ UNCHANGED <<user, minted, revoked, row, lock, resets, dev, key, nonce, beat,
                   revokedKids, lost, ordered, dead>>

\* ... and looks for a reset once more.  It compares the hash of the token
\* with the user it has read, which a reset in between has not changed.
Authenticated(c) ==
    /\ at[c] = "taken"
    /\ Goes(c, IF key[c] \in revoked THEN "refused" ELSE "authed")
    /\ UNCHANGED <<fleet, resets, dev, key, nonce, beat, revokedKids, lost, ordered, dead>>

-----------------------------------------------------------------------------
(* A device's socket.                                                       *)

\* The upgrade reaches the DeviceDO, which asks FleetDO to claim the row.
SendClaim(c) ==
    /\ at[c] = "authed" /\ Goes(c, "claiming")
    /\ dev' \in {[dev EXCEPT ![c] = d] : d \in Device}
    /\ UNCHANGED <<fleet, resets, key, nonce, beat, revokedKids, lost, ordered, dead>>

\* claimDevice, one transaction: the key is looked at again.
ClaimDevice(c) ==
    /\ at[c] = "claiming"
    /\ IF Current(key[c])
       THEN /\ row' = [row EXCEPT ![dev[c]] = [conn |-> c, online |-> TRUE]]
            /\ Goes(c, "claimed")
       ELSE Goes(c, "refused") /\ UNCHANGED row
    /\ UNCHANGED <<user, minted, revoked, chals, lock, resets, dev, key, nonce, beat,
                   revokedKids, lost, ordered, dead>>

AcceptBlind(c) ==
    /\ at[c] = "claimed"
    /\ at' = [x \in Conn |-> IF x = c THEN "open"
                              ELSE IF x \in Sockets(dev[c]) THEN "closing" ELSE at[x]]
    /\ UNCHANGED <<fleet, resets, dev, key, nonce, beat, revokedKids, lost, ordered, dead>>

\* The claim is back: a kick may have come before it.  Otherwise the socket is
\* accepted and every other socket of the device is closed.
Accept(c) ==
    /\ at[c] = "claimed"
    /\ IF key[c] \in revokedKids[dev[c]]
       THEN Goes(c, "closed")
       ELSE at' = [x \in Conn |-> IF x = c THEN "open"
                                  ELSE IF x \in Sockets(dev[c]) THEN "closing" ELSE at[x]]
    /\ UNCHANGED <<fleet, resets, dev, key, nonce, beat, revokedKids, lost, ordered, dead>>

\* hello and heartbeat: the DeviceDO touches the row...
Heartbeat(c) ==
    /\ at[c] = "open" /\ beat[c] = "none"
    /\ beat' = [beat EXCEPT ![c] = "sent"]
    /\ UNCHANGED <<fleet, resets, at, dev, key, nonce, revokedKids, lost, ordered, dead>>

\* ... which FleetDO does for the newest connection of a live key only.
TouchDevice(c) ==
    /\ beat[c] = "sent"
    /\ IF Current(key[c]) /\ row[dev[c]].conn \in {c, Nobody}
       THEN /\ row' = [row EXCEPT ![dev[c]] = [conn |-> c, online |-> TRUE]]
            /\ beat' = [beat EXCEPT ![c] = "ok"]
       ELSE beat' = [beat EXCEPT ![c] = "bad"] /\ UNCHANGED row
    /\ UNCHANGED <<user, minted, revoked, chals, lock, resets, at, dev, key, nonce,
                   revokedKids, lost, ordered, dead>>

\* A touch that was refused closes the socket, a good one is answered.
Touched(c) ==
    /\ beat[c] \in {"ok", "bad"}
    /\ beat' = [beat EXCEPT ![c] = "none"]
    /\ IF beat[c] = "bad" /\ at[c] = "open" THEN Goes(c, "closing") ELSE UNCHANGED at
    /\ UNCHANGED <<fleet, resets, dev, key, nonce, revokedKids, lost, ordered, dead>>

\* The agent or the network closes the socket.
SocketGone(c) ==
    /\ at[c] = "open" /\ Goes(c, "closing")
    /\ UNCHANGED <<fleet, resets, dev, key, nonce, beat, revokedKids, lost, ordered, dead>>

\* webSocketClose: every socket releases its own generation.
WebSocketClose(c) ==
    /\ at[c] = "closing" /\ Goes(c, "closed")
    /\ UNCHANGED <<fleet, resets, dev, key, nonce, beat, revokedKids, lost, ordered, dead>>

MarksGoneAlways(c) == TRUE

\* releaseDevice: only the connection that claimed the row last may say that
\* the device is gone.  No key is asked for.
MarksGone(c) == row[dev[c]].conn = c

ReleaseDevice(c) ==
    /\ at[c] = "closed" /\ (InOrder => beat[c] # "sent")
    /\ Goes(c, "gone")
    /\ row' = IF MarksGone(c) THEN [row EXCEPT ![dev[c]].online = FALSE] ELSE row
    /\ UNCHANGED <<user, minted, revoked, chals, lock, resets, dev, key, nonce, beat,
                   revokedKids, lost, ordered, dead>>

\* A DeviceDO without a request in hand may be evicted: its sockets hibernate,
\* its memory is lost.
Evict(d) ==
    /\ lost < Evictions
    /\ \A c \in Conn : dev[c] = d => at[c] \notin {"claiming", "claimed", "closed"} /\ beat[c] = "none"
    /\ lost' = lost + 1
    /\ revokedKids' = [revokedKids EXCEPT ![d] = {}]
    /\ UNCHANGED <<fleet, resets, conns, ordered, dead>>

-----------------------------------------------------------------------------
(* POST /v1/hub_token: the old key is revoked everywhere, then replaced.    *)

\* withUserMutationLock, then the user is read; the marker comes first.
BeginTokenRevocation(r) ==
    /\ rpc[r] = "waiting" /\ lock = Nobody
    /\ IF user.banned
       THEN rpc' = [rpc EXCEPT ![r] = "refused"] /\ UNCHANGED <<revoked, lock, copy>>
       ELSE /\ lock' = r
            /\ copy' = [copy EXCEPT ![r] = user]
            /\ revoked' = revoked \cup ({user.key} \ {0})
            /\ rpc' = [rpc EXCEPT ![r] = "signing"]
    /\ UNCHANGED <<user, minted, chals, row, kick, conns, revokedKids, lost, ordered, dead>>

\* kickUserDevices: every device of the catalog, through the kick tree.
KickUserDevices(r) ==
    /\ rpc[r] = "signing"
    /\ rpc' = [rpc EXCEPT ![r] = "kicking"]
    /\ kick' = [kick EXCEPT ![r] = [d \in Device |-> IF row[d] = NoRow THEN "done" ELSE "todo"]]
    /\ UNCHANGED <<fleet, copy, conns, revokedKids, lost, ordered, dead>>

\* A leaf: the DeviceDO remembers the key and closes all of its sockets.  It
\* fails when one cannot be closed, or when its answer does not come back.
Kick(r, d) ==
    /\ rpc[r] = "kicking" /\ kick[r][d] = "todo"
    /\ revokedKids' = [revokedKids EXCEPT ![d] = @ \cup {copy[r].key}]
    /\ \E S \in SUBSET Sockets(d), end \in {"done", "failed"} :
          /\ at' = [c \in Conn |-> IF c \in S THEN "closing" ELSE at[c]]
          /\ end = "done" => S = Sockets(d)
          /\ kick' = [kick EXCEPT ![r][d] = end]
    /\ UNCHANGED <<fleet, rpc, copy, dev, key, nonce, beat, lost, ordered, dead>>

\* A leaf, or the subtree above it, that cannot be reached.  The siblings are
\* attempted all the same.
KickUnreached(r, d) ==
    /\ rpc[r] = "kicking" /\ kick[r][d] = "todo"
    /\ kick' = [kick EXCEPT ![r][d] = "failed"]
    /\ UNCHANGED <<fleet, rpc, copy, conns, revokedKids, lost, ordered, dead>>

KickFailedLocked(r) ==
    /\ rpc[r] = "kicking"
    /\ \A d \in Device : kick[r][d] # "todo"
    /\ \E d \in Device : kick[r][d] = "failed"
    /\ rpc' = [rpc EXCEPT ![r] = "failed"]
    /\ UNCHANGED <<fleet, copy, kick, conns, revokedKids, lost, ordered, dead>>

\* A failed leaf fails the reset: the old key is kept for another attempt, the
\* marker stays.
KickFailed(r) ==
    /\ rpc[r] = "kicking"
    /\ \A d \in Device : kick[r][d] # "todo"
    /\ \E d \in Device : kick[r][d] = "failed"
    /\ rpc' = [rpc EXCEPT ![r] = "failed"] /\ lock' = Nobody
    /\ UNCHANGED <<user, minted, revoked, chals, row, copy, kick, conns, revokedKids, lost,
                   ordered, dead>>

\* revokeToken: the user has no key while the new one is generated.
RevokeToken(r) ==
    /\ rpc[r] = "kicking" /\ \A d \in Device : kick[r][d] = "done"
    /\ rpc' = [rpc EXCEPT ![r] = "minting"]
    /\ copy' = [copy EXCEPT ![r].key = 0]
    /\ user' = copy'[r]
    /\ chals' = <<>>
    /\ UNCHANGED <<minted, revoked, row, lock, kick, conns, revokedKids, lost, ordered, dead>>

\* mintTokenV1: the row that was read under the lock is stored with the new key.
Mint(r) ==
    /\ rpc[r] = "minting"
    /\ minted' = minted + 1
    /\ user' = [copy[r] EXCEPT !.key = minted + 1]
    /\ rpc' = [rpc EXCEPT ![r] = "done"] /\ lock' = Nobody
    /\ dead' = dead \cup (1 .. minted)
    /\ UNCHANGED <<revoked, chals, row, copy, kick, conns, revokedKids, lost, ordered>>

\* The user asks for a new token.
Ask(r) ==
    /\ rpc[r] = "idle" /\ rpc' = [rpc EXCEPT ![r] = "waiting"]
    /\ UNCHANGED <<fleet, copy, kick, conns, revokedKids, lost, ordered, dead>>

\* setUserBanned, under the lock of the resets.
Unlocked == lock = Nobody

SetUserBanned(b) ==
    /\ Unlocked /\ user.banned # b
    /\ user' = [user EXCEPT !.banned = b]
    /\ ordered' = b
    /\ UNCHANGED <<minted, revoked, chals, row, lock, resets, conns, revokedKids, lost, dead>>

-----------------------------------------------------------------------------
Init ==
    /\ user = [key |-> 1, banned |-> FALSE] /\ minted = 1 /\ revoked = {} /\ chals = <<>>
    /\ row = [d \in Device |-> NoRow] /\ lock = Nobody
    /\ rpc = [r \in Reset |-> "idle"]
    /\ copy = [r \in Reset |-> user]
    /\ kick = [r \in Reset |-> [d \in Device |-> "done"]]
    /\ at = [c \in Conn |-> "new"]
    /\ dev \in [Conn -> {CHOOSE d \in Device : TRUE}]
    /\ key = [c \in Conn |-> 0]
    /\ nonce = [c \in Conn |-> Nobody]
    /\ beat = [c \in Conn |-> "none"]
    /\ revokedKids = [d \in Device |-> {}] /\ lost = 0
    /\ ordered = FALSE /\ dead = {}

ResetStep(r) ==
    \/ BeginTokenRevocation(r) \/ KickUserDevices(r) \/ KickFailed(r)
    \/ RevokeToken(r) \/ Mint(r)
    \/ \E d \in Device : Kick(r, d) \/ KickUnreached(r, d)

ConnStep(c) ==
    \/ Challenge(c) \/ Present(c) \/ Unwrap(c) \/ TakeNonce(c) \/ Authenticated(c)
    \/ SendClaim(c) \/ ClaimDevice(c) \/ Accept(c)
    \/ Heartbeat(c) \/ TouchDevice(c) \/ Touched(c)
    \/ SocketGone(c) \/ WebSocketClose(c) \/ ReleaseDevice(c)

Next ==
    \/ \E c \in Conn : ConnStep(c)
    \/ \E r \in Reset : Ask(r) \/ ResetStep(r)
    \/ \E d \in Device : Evict(d)
    \/ \E b \in BOOLEAN : SetUserBanned(b)

Spec == Init /\ [][Next]_vars

\* A request between two objects is answered.
LiveSpec == Spec /\ \A r \in Reset : WF_vars(ResetStep(r))

-----------------------------------------------------------------------------
(* Properties.                                                              *)

\* "Revocation is not complete until every device DO has closed its control
\* socket" (token-issue): once a reset has been answered with a new token, no
\* device is connected with an older one, nor will be, however its claim, the
\* kicks, failed attempts and evictions were interleaved.
RevocationIsComplete == \A c \in Conn : at[c] = "open" => key[c] \notin dead

\* releaseDevice, touchDevice: whatever the order in which the closes of old
\* and new sockets arrive, a socket that is open and claimed last is shown
\* online, and a device is not shown online for a socket that is gone.
PresenceIsTrue ==
    \A d \in Device : LET c == row[d].conn IN
        c # Nobody => /\ at[c] = "open" => row[d].online
                      /\ at[c] = "gone" => ~row[d].online

\* "One-use" challenges (resolveWrap): two deliveries of one handshake do not
\* both authenticate, wherever they overlap.
Passed == {"authed", "claiming", "claimed", "open", "closing", "closed", "gone"}

NonceIsUsedOnce ==
    \A c, d \in Conn : c # d /\ at[c] \in Passed /\ at[d] \in Passed => nonce[c] # nonce[d]

\* A ban, or its end, that was answered is not undone by a reset that writes
\* back the user it has read (withUserMutationLock).
BanHolds == user.banned = ordered

\* A reset is answered: the lock is given back on every path, and the ones
\* that wait for it get it.
ResetEnds == \A r \in Reset : rpc[r] = "waiting" ~> rpc[r] \in {"done", "failed", "refused"}

\* Who was locked out, by a reset or by a ban, stays so, whatever they are interleaved with.
LockedOut == RevocationIsComplete /\ BanHolds

\* The directory and the challenges tell the truth about the connections.
ConnectionsAreTrue == PresenceIsTrue /\ NonceIsUsedOnce
=============================================================================

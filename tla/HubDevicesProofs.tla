-------------------------- MODULE HubDevicesProofs --------------------------
(* Proofs about HubDevices: a token that was reset opens no socket any more,  *)
(* whatever the kicks, failed attempts and evictions between; a ban holds; a  *)
(* challenge lets one connection in; and the catalog tells the truth where    *)
(* the requests of a DeviceDO arrive in order.                                *)
EXTENDS MC_Results, TLAPS, FiniteSetTheorems, SequenceTheorems, WellFoundedInduction

(***************************************************************************)
(* The inductive invariant.                                                *)
(***************************************************************************)

Users    == [key : Nat, banned : BOOLEAN]
Stages   == {"idle", "waiting", "signing", "kicking", "minting", "done", "failed", "refused"}
Claimed  == {"claimed", "open"}
Attached == {"claimed", "open", "closing", "closed", "gone"}
Taken    == {"taken"} \cup Passed
Places   == {"new", "asked", "unwrapped", "refused"} \cup Taken

Row      == [conn : Conn \cup {Nobody}, online : BOOLEAN]

FleetTypes ==
    /\ user \in Users /\ minted \in Nat \ {0} /\ revoked \in SUBSET Nat
    /\ lock \in Reset \cup {Nobody}
    /\ rpc \in [Reset -> Stages] /\ copy \in [Reset -> Users]
    /\ kick \in [Reset -> [Device -> {"todo", "done", "failed"}]]
    /\ ordered \in BOOLEAN /\ dead \in SUBSET Nat

DeviceTypes ==
    /\ chals \in Seq(Conn)
    /\ row \in [Device -> Row]
    /\ at \in [Conn -> Places] /\ dev \in [Conn -> Device]
    /\ key \in [Conn -> Nat] /\ nonce \in [Conn -> Conn \cup {Nobody}]
    /\ beat \in [Conn -> {"none", "sent", "ok", "bad"}]
    /\ revokedKids \in [Device -> SUBSET Nat] /\ lost \in Nat

\* Who has the lock has read what is stored, and its marker precedes whatever
\* it does; every key before the newest one is dead, and has its marker.
Locking ==
    /\ lock = Nobody => user.key = minted
    /\ \A r \in Reset : rpc[r] \in {"signing", "kicking", "minting"} =>
          lock = r /\ copy[r] = user /\ minted \in revoked
    /\ \A r \in Reset : rpc[r] \in {"signing", "kicking"} => user.key = minted
    /\ dead = 1 .. (minted - 1) /\ dead \subseteq revoked
    /\ BanHolds

\* A key is locked out of a device: it has no socket, and a claim that is still
\* on its way back will find the key in the DeviceDO's memory.
LockedOutOf(k, d) ==
    \A c \in Conn : key[c] = k /\ dev[c] = d =>
        at[c] # "open" /\ (at[c] = "claimed" => k \in revokedKids[d])

Barred(k, d) ==
    \/ k \in dead
    \/ k = minted /\ \E r \in Reset : rpc[r] \in {"kicking", "minting"} /\ kick[r][d] = "done"

\* A dead key is locked out of every device, and the key that is being reset of
\* the devices that were kicked.
Kicked ==
    /\ \A k \in Nat, d \in Device : Barred(k, d) => LockedOutOf(k, d)
    /\ \A r \in Reset : rpc[r] = "minting" => \A d \in Device : kick[r][d] = "done"

\* The row of a device is of a connection to it, which has not gone before the
\* row says so; a connection that has a socket, or will have one, has a row.
Catalog ==
    /\ \A c \in Conn : at[c] \in Claimed => row[dev[c]].conn # Nobody
    /\ \A d \in Device : row[d].conn # Nobody =>
          /\ dev[row[d].conn] = d /\ at[row[d].conn] \in Attached
          /\ ~row[d].online => at[row[d].conn] = "gone"
          /\ InOrder /\ row[d].online => at[row[d].conn] # "gone"
    /\ \A c \in Conn : beat[c] = "sent" =>
          at[c] \in {"open", "closing", "closed", "gone"} /\ (InOrder => at[c] # "gone")

\* A nonce is in the book once, or was taken out of it by one connection.
Nonces ==
    /\ \A c \in Conn : at[c] = "new" <=> nonce[c] = Nobody
    /\ \A c \in Conn : nonce[c] # Nobody => at[nonce[c]] # "new"
    /\ \A i \in DOMAIN chals : at[chals[i]] # "new"
    /\ \A i, j \in DOMAIN chals : chals[i] = chals[j] => i = j
    /\ \A c \in Conn : at[c] \in Taken => \A i \in DOMAIN chals : chals[i] # nonce[c]
    /\ \A c, d \in Conn : at[c] \in Taken /\ at[d] \in Taken /\ nonce[c] = nonce[d] => c = d

IInv == FleetTypes /\ DeviceTypes /\ Locking /\ Kicked /\ Catalog /\ Nonces

(***************************************************************************)
(* Who changes what.                                                       *)
(***************************************************************************)

account == <<user, minted, revoked, lock, rpc, copy, kick, ordered, dead>>

\* A connection changes nothing of the account.
LEMMA ConnsLeaveTheAccount ==
  ASSUME NEW c \in Conn, ConnStep(c)
  PROVE  UNCHANGED account
  <1> USE DEF account, fleet, resets
  <1>1. CASE Challenge(c) BY <1>1 DEF Challenge
  <1>2. CASE Present(c) BY <1>2 DEF Present
  <1>3. CASE Unwrap(c) BY <1>3 DEF Unwrap
  <1>4. CASE TakeNonce(c) BY <1>4 DEF TakeNonce
  <1>5. CASE Authenticated(c) BY <1>5 DEF Authenticated
  <1>6. CASE SendClaim(c) BY <1>6 DEF SendClaim
  <1>7. CASE ClaimDevice(c) BY <1>7 DEF ClaimDevice
  <1>8. CASE Accept(c) BY <1>8 DEF Accept
  <1>9. CASE Heartbeat(c) BY <1>9 DEF Heartbeat
  <1>10. CASE TouchDevice(c) BY <1>10 DEF TouchDevice
  <1>11. CASE Touched(c) BY <1>11 DEF Touched
  <1>12. CASE SocketGone(c) BY <1>12 DEF SocketGone
  <1>13. CASE WebSocketClose(c) BY <1>13 DEF WebSocketClose
  <1>14. CASE ReleaseDevice(c) BY <1>14 DEF ReleaseDevice
  <1> QED BY <1>1, <1>2, <1>3, <1>4, <1>5, <1>6, <1>7, <1>8, <1>9, <1>10, <1>11, <1>12, <1>13,
             <1>14 DEF ConnStep

\* A reset, a ban and an eviction close sockets at most.
Closing(p, q) == p = q \/ (p = "open" /\ q = "closing")

LEMMA ResetsLeaveConns ==
  ASSUME DeviceTypes,
         \/ \E r \in Reset : Ask(r) \/ ResetStep(r)
         \/ \E d \in Device : Evict(d)
         \/ \E b \in BOOLEAN : SetUserBanned(b)
  PROVE  /\ UNCHANGED <<row, dev, key, nonce, beat>> /\ chals' \in {chals, <<>>}
         /\ at' \in [Conn -> Places] /\ \A c \in Conn : Closing(at[c], at'[c])
  <1> USE DEF fleet, resets, conns, Closing
  <1>0. at \in [Conn -> Places] /\ "closing" \in Places
    BY DEF DeviceTypes, Places, Taken, Passed
  <1>1. ASSUME NEW r \in Reset, Ask(r) \/ BeginTokenRevocation(r) \/ KickUserDevices(r)
               \/ KickFailed(r) \/ RevokeToken(r) \/ Mint(r)
        PROVE  UNCHANGED <<row, dev, key, nonce, beat, at>> /\ chals' \in {chals, <<>>}
    BY <1>1 DEF Ask, BeginTokenRevocation, KickUserDevices, KickFailed, RevokeToken, Mint
  <1>2. ASSUME NEW r \in Reset, NEW d \in Device, Kick(r, d)
        PROVE  /\ UNCHANGED <<row, dev, key, nonce, beat>> /\ chals' \in {chals, <<>>}
               /\ at' \in [Conn -> Places] /\ \A c \in Conn : Closing(at[c], at'[c])
    <2>1. PICK S \in SUBSET Sockets(d) : at' = [c \in Conn |-> IF c \in S THEN "closing" ELSE at[c]]
      BY <1>2 DEF Kick
    <2>2. \A c \in S : at[c] = "open"
      BY DEF Sockets
    <2>3. UNCHANGED <<row, dev, key, nonce, beat, chals>>
      BY <1>2 DEF Kick
    <2> QED BY <1>0, <2>1, <2>2, <2>3
  <1>3. ASSUME NEW r \in Reset, NEW d \in Device, KickUnreached(r, d)
        PROVE  UNCHANGED <<row, dev, key, nonce, beat, at, chals>>
    BY <1>3 DEF KickUnreached
  <1>4. ASSUME NEW d \in Device, Evict(d) PROVE UNCHANGED <<row, dev, key, nonce, beat, at, chals>>
    BY <1>4 DEF Evict
  <1>5. ASSUME NEW b \in BOOLEAN, SetUserBanned(b)
        PROVE  UNCHANGED <<row, dev, key, nonce, beat, at, chals>>
    BY <1>5 DEF SetUserBanned
  <1> QED BY <1>0, <1>1, <1>2, <1>3, <1>4, <1>5 DEF ResetStep

(***************************************************************************)
(* The account: its lock, its key, its bans.                               *)
(***************************************************************************)

LEMMA FleetTypesStep ==
  ASSUME FleetTypes, [Next]_vars
  PROVE  FleetTypes'
  <1> USE DEF FleetTypes
  <1>0. ASSUME UNCHANGED account PROVE FleetTypes'
    BY <1>0 DEF account
  <1>1. ASSUME NEW r \in Reset, Ask(r) PROVE FleetTypes'
    BY <1>1 DEF Ask, fleet, Stages
  <1>2. ASSUME NEW r \in Reset, BeginTokenRevocation(r) PROVE FleetTypes'
    <2>1. user.key \in Nat
      BY DEF Users
    <2>2. revoked' \in SUBSET Nat
      BY <1>2, <2>1 DEF BeginTokenRevocation
    <2>3. lock' \in Reset \cup {Nobody} /\ rpc' \in [Reset -> Stages] /\ copy' \in [Reset -> Users]
      BY <1>2 DEF BeginTokenRevocation, Stages
    <2> QED BY <1>2, <2>2, <2>3 DEF BeginTokenRevocation
  <1>3. ASSUME NEW r \in Reset, KickUserDevices(r) PROVE FleetTypes'
    <2>1. rpc' \in [Reset -> Stages]
      BY <1>3 DEF KickUserDevices, Stages
    <2>2. kick' \in [Reset -> [Device -> {"todo", "done", "failed"}]]
      BY <1>3 DEF KickUserDevices
    <2> QED BY <1>3, <2>1, <2>2 DEF KickUserDevices, fleet
  <1>4. ASSUME NEW r \in Reset, KickFailed(r) PROVE FleetTypes'
    BY <1>4 DEF KickFailed, Stages
  <1>5. ASSUME NEW r \in Reset, RevokeToken(r) PROVE FleetTypes'
    <2>1. copy' \in [Reset -> Users]
      BY <1>5 DEF RevokeToken, Users
    <2>2. user' \in Users /\ rpc' \in [Reset -> Stages]
      BY <1>5, <2>1 DEF RevokeToken, Stages
    <2> QED BY <1>5, <2>1, <2>2 DEF RevokeToken
  <1>6. ASSUME NEW r \in Reset, Mint(r) PROVE FleetTypes'
    <2>1. minted' \in Nat \ {0} /\ user' \in Users /\ rpc' \in [Reset -> Stages]
      BY <1>6 DEF Mint, Stages, Users
    <2>2. lock' \in Reset \cup {Nobody} /\ dead' \in SUBSET Nat
      BY <1>6 DEF Mint
    <2> QED BY <1>6, <2>1, <2>2 DEF Mint
  <1>7. ASSUME NEW r \in Reset, NEW d \in Device, Kick(r, d) PROVE FleetTypes'
    <2>1. PICK end \in {"done", "failed"} : kick' = [kick EXCEPT ![r][d] = end]
      BY <1>7 DEF Kick
    <2>2. kick' \in [Reset -> [Device -> {"todo", "done", "failed"}]]
      BY <2>1
    <2> QED BY <1>7, <2>2 DEF Kick, fleet
  <1>8. ASSUME NEW r \in Reset, NEW d \in Device, KickUnreached(r, d) PROVE FleetTypes'
    BY <1>8 DEF KickUnreached, fleet
  <1>9. ASSUME NEW d \in Device, Evict(d) PROVE FleetTypes'
    BY <1>9 DEF Evict, fleet, resets
  <1>10. ASSUME NEW b \in BOOLEAN, SetUserBanned(b) PROVE FleetTypes'
    BY <1>10 DEF SetUserBanned, resets, Users
  <1>11. ASSUME UNCHANGED vars PROVE UNCHANGED account
    BY <1>11 DEF vars, account, fleet, resets
  <1> QED BY <1>0, <1>1, <1>2, <1>3, <1>4, <1>5, <1>6, <1>7, <1>8, <1>9, <1>10, <1>11,
             ConnsLeaveTheAccount DEF Next, ResetStep

Holding == {"signing", "kicking", "minting"}

LEMMA LockingStep ==
  ASSUME FleetTypes, Locking, [Next]_vars
  PROVE  Locking'
  <1> USE DEF BanHolds
  <1>0. ASSUME UNCHANGED <<user, minted, revoked, lock, rpc, copy, ordered, dead>> PROVE Locking'
    BY <1>0 DEF Locking
  <1>1. ASSUME NEW r \in Reset, Ask(r) PROVE Locking'
    BY <1>1 DEF Ask, fleet, Locking, FleetTypes
  <1>2. ASSUME NEW r \in Reset, BeginTokenRevocation(r) PROVE Locking'
    <2>1. lock = Nobody /\ user.key = minted /\ minted \in Nat \ {0} /\ Nobody \notin Reset
      BY <1>2, Bounds DEF BeginTokenRevocation, Locking, FleetTypes
    <2>2. \A q \in Reset : rpc[q] \notin Holding
      BY <2>1 DEF Locking, Holding
    <2>3. UNCHANGED <<user, minted, dead, ordered>>
      BY <1>2 DEF BeginTokenRevocation
    <2>4. CASE user.banned
      BY <1>2, <2>1, <2>2, <2>3, <2>4 DEF BeginTokenRevocation, Locking, Holding, FleetTypes
    <2>5. CASE ~user.banned
      <3>1. /\ lock' = r /\ copy' = [copy EXCEPT ![r] = user] /\ revoked' = revoked \cup {minted}
            /\ rpc' = [rpc EXCEPT ![r] = "signing"]
        BY <1>2, <2>1, <2>5 DEF BeginTokenRevocation
      <3>2. \A q \in Reset : q # r => rpc'[q] \notin Holding
        BY <2>2, <3>1 DEF FleetTypes
      <3>3. copy'[r] = user /\ rpc'[r] = "signing"
        BY <3>1 DEF FleetTypes
      <3> QED BY <2>1, <2>3, <3>1, <3>2, <3>3 DEF Locking, Holding
    <2> QED BY <2>4, <2>5
  <1>3. ASSUME NEW r \in Reset, KickUserDevices(r) PROVE Locking'
    BY <1>3 DEF KickUserDevices, fleet, Locking, FleetTypes
  <1>4. ASSUME NEW r \in Reset, KickFailed(r) PROVE Locking'
    <2>1. rpc[r] = "kicking" /\ rpc' = [rpc EXCEPT ![r] = "failed"] /\ lock' = Nobody
          /\ UNCHANGED <<user, minted, revoked, copy, ordered, dead>>
      BY <1>4 DEF KickFailed
    <2>2. \A q \in Reset : rpc'[q] \notin Holding
      BY <2>1 DEF Locking, Holding, FleetTypes
    <2>3. user.key = minted
      BY <2>1 DEF Locking
    <2> QED BY <2>1, <2>2, <2>3 DEF Locking, Holding
  <1>5. ASSUME NEW r \in Reset, RevokeToken(r) PROVE Locking'
    <2>1. /\ rpc[r] = "kicking" /\ rpc' = [rpc EXCEPT ![r] = "minting"]
          /\ copy' = [copy EXCEPT ![r].key = 0] /\ user' = copy'[r]
          /\ UNCHANGED <<minted, revoked, lock, ordered, dead>>
      BY <1>5 DEF RevokeToken
    <2>2. lock = r /\ copy[r] = user /\ minted \in revoked
      BY <2>1 DEF Locking
    <2>3. \A q \in Reset : q # r => rpc'[q] \notin Holding
      BY <2>1, <2>2 DEF Locking, Holding, FleetTypes
    <2>4. rpc'[r] = "minting" /\ copy'[r].banned = user.banned
      BY <2>1, <2>2 DEF FleetTypes, Users
    <2>5. r # Nobody
      BY Bounds
    <2> QED BY <2>1, <2>2, <2>3, <2>4, <2>5 DEF Locking, Holding
  <1>6. ASSUME NEW r \in Reset, Mint(r) PROVE Locking'
    <2>1. /\ rpc[r] = "minting" /\ rpc' = [rpc EXCEPT ![r] = "done"] /\ lock' = Nobody
          /\ minted' = minted + 1 /\ user' = [copy[r] EXCEPT !.key = minted + 1]
          /\ dead' = dead \cup (1 .. minted) /\ UNCHANGED <<revoked, ordered>>
      BY <1>6 DEF Mint
    <2>2. lock = r /\ copy[r] = user /\ minted \in revoked /\ minted \in Nat \ {0}
      BY <2>1 DEF Locking, FleetTypes
    <2>3. \A q \in Reset : rpc'[q] \notin Holding
      BY <2>1, <2>2 DEF Locking, Holding, FleetTypes
    <2>4. user'.key = minted' /\ user'.banned = user.banned
      BY <2>1, <2>2 DEF FleetTypes, Users
    <2>5. dead = 1 .. (minted - 1) /\ dead \subseteq revoked /\ user.banned = ordered
      BY DEF Locking
    <2>6. dead' = 1 .. (minted' - 1) /\ dead' \subseteq revoked'
      <3>1. dead' = 1 .. minted
        BY <2>1, <2>2, <2>5
      <3>2. \A k \in 1 .. minted : k \in dead \/ k = minted
        BY <2>2, <2>5
      <3> QED BY <2>1, <2>2, <2>5, <3>1, <3>2
    <2> QED BY <2>1, <2>3, <2>4, <2>5, <2>6 DEF Locking, Holding
  <1>7. ASSUME NEW r \in Reset, NEW d \in Device, Kick(r, d) \/ KickUnreached(r, d) PROVE Locking'
    <2>1. UNCHANGED <<user, minted, revoked, lock, rpc, copy, ordered, dead>>
      BY <1>7 DEF Kick, KickUnreached, fleet
    <2> QED BY <2>1, <1>0
  <1>8. ASSUME NEW d \in Device, Evict(d) PROVE Locking'
    BY <1>0, <1>8 DEF Evict, fleet, resets
  <1>9. ASSUME NEW b \in BOOLEAN, SetUserBanned(b) PROVE Locking'
    <2>1. /\ lock = Nobody /\ user' = [user EXCEPT !.banned = b] /\ ordered' = b
          /\ UNCHANGED <<minted, revoked, lock, rpc, copy, dead>>
      BY <1>9 DEF SetUserBanned, Unlocked, resets
    <2>2. \A q \in Reset : rpc[q] \notin Holding
      BY <2>1, Bounds DEF Locking, Holding
    <2>3. user'.key = user.key /\ user'.banned = b
      BY <2>1 DEF FleetTypes, Users
    <2> QED BY <2>1, <2>2, <2>3 DEF Locking, Holding
  <1>10. ASSUME UNCHANGED vars PROVE Locking'
    BY <1>0, <1>10 DEF vars, fleet, resets
  <1>11. ASSUME NEW c \in Conn, ConnStep(c) PROVE Locking'
    BY <1>0, <1>11, ConnsLeaveTheAccount DEF account
  <1> QED BY <1>1, <1>2, <1>3, <1>4, <1>5, <1>6, <1>7, <1>8, <1>9, <1>10, <1>11 DEF Next, ResetStep

(***************************************************************************)
(* The book of challenges.                                                 *)
(***************************************************************************)

\* A new nonce is the last one; the first one may be dropped.
LEMMA BookGrows ==
  ASSUME chals \in Seq(Conn), NEW c \in Conn, \A i \in DOMAIN chals : chals[i] # c,
         \A i, j \in DOMAIN chals : chals[i] = chals[j] => i = j
  PROVE  /\ NextChallengeList(c) \in Seq(Conn)
         /\ \A i \in DOMAIN NextChallengeList(c) :
               NextChallengeList(c)[i] = c \/ \E k \in DOMAIN chals : NextChallengeList(c)[i] = chals[k]
         /\ \A i, j \in DOMAIN NextChallengeList(c) :
               NextChallengeList(c)[i] = NextChallengeList(c)[j] => i = j
  <1> DEFINE list == Append(chals, c)
             book == IF Len(list) > MaxChal THEN Tail(list) ELSE list
  <1>1. /\ list \in Seq(Conn) /\ Len(list) = Len(chals) + 1 /\ Len(chals) \in Nat
        /\ \A i \in 1 .. Len(list) : list[i] = IF i = Len(list) THEN c ELSE chals[i]
    OBVIOUS
  <1>2. \A i, j \in 1 .. Len(list) : list[i] = list[j] => i = j
    BY <1>1
  <1> HIDE DEF list
  <1>3. CASE ~(Len(list) > MaxChal)
    <2>1. NextChallengeList(c) = list
      BY <1>3 DEF NextChallengeList, list
    <2> QED BY <1>1, <1>2, <2>1
  <1>4. CASE Len(list) > MaxChal
    <2>1. NextChallengeList(c) = Tail(list)
      BY <1>4 DEF NextChallengeList, list
    <2>2. /\ Tail(list) \in Seq(Conn) /\ Len(Tail(list)) = Len(chals)
          /\ \A i \in 1 .. Len(Tail(list)) : Tail(list)[i] = list[i + 1]
      BY <1>1
    <2> QED BY <1>1, <1>2, <2>1, <2>2
  <1> QED BY <1>3, <1>4

LEMMA SecondPart ==
  ASSUME NEW S, NEW s \in Seq(S), NEW t \in Seq(S), NEW j \in (Len(s) + 1) .. (Len(s) + Len(t))
  PROVE  (s \o t)[j] = t[j - Len(s)]
  OBVIOUS

\* The nonce at i is taken out.
LEMMA BookShrinks ==
  ASSUME chals \in Seq(Conn), NEW i \in DOMAIN chals,
         \A j, k \in DOMAIN chals : chals[j] = chals[k] => j = k
  PROVE  /\ RemoveAt(chals, i) \in Seq(Conn)
         /\ \A j \in DOMAIN RemoveAt(chals, i) :
               /\ RemoveAt(chals, i)[j] # chals[i]
               /\ \E k \in DOMAIN chals : RemoveAt(chals, i)[j] = chals[k]
         /\ \A j, k \in DOMAIN RemoveAt(chals, i) :
               RemoveAt(chals, i)[j] = RemoveAt(chals, i)[k] => j = k
  <1> DEFINE head == SubSeq(chals, 1, i - 1)
             rest == SubSeq(chals, i + 1, Len(chals))
             At(j) == IF j < i THEN j ELSE j + 1
  <1>1. i \in 1 .. Len(chals) /\ Len(chals) \in Nat
    OBVIOUS
  <1>2. /\ head \in Seq(Conn) /\ Len(head) = i - 1
        /\ \A j \in 1 .. (i - 1) : head[j] = chals[j]
    BY <1>1
  <1>3. /\ rest \in Seq(Conn) /\ Len(rest) = Len(chals) - i
        /\ \A j \in 1 .. (Len(chals) - i) : rest[j] = chals[i + j]
    BY <1>1
  <1>4. RemoveAt(chals, i) = head \o rest
    BY DEF RemoveAt
  <1> HIDE DEF head, rest
  <1>5. RemoveAt(chals, i) \in Seq(Conn) /\ Len(RemoveAt(chals, i)) = Len(chals) - 1
    BY <1>1, <1>2, <1>3, <1>4
  <1>6. \A j \in 1 .. (Len(chals) - 1) : RemoveAt(chals, i)[j] = chals[At(j)]
    <2> SUFFICES ASSUME NEW j \in 1 .. (Len(chals) - 1) PROVE RemoveAt(chals, i)[j] = chals[At(j)]
      OBVIOUS
    <2>1. CASE j < i
      BY <1>1, <1>2, <1>3, <1>4, <2>1
    <2>2. CASE ~(j < i)
      <3>1. (head \o rest)[j] = rest[j - (i - 1)]
        <4>1. head \in Seq(Conn) /\ rest \in Seq(Conn)
          BY <1>2, <1>3
        <4>2. Len(head) = i - 1 /\ j \in (Len(head) + 1) .. (Len(head) + Len(rest))
          BY <1>1, <1>2, <1>3, <2>2
        <4> QED BY <4>1, <4>2, SecondPart
      <3>2. j - (i - 1) \in 1 .. (Len(chals) - i) /\ i + (j - (i - 1)) = j + 1
        BY <1>1, <2>2
      <3> QED BY <1>3, <1>4, <2>2, <3>1, <3>2
    <2> QED BY <2>1, <2>2
  <1>7. \A j \in 1 .. (Len(chals) - 1) : At(j) \in 1 .. Len(chals) /\ At(j) # i
    BY <1>1
  <1>8. \A j, k \in 1 .. (Len(chals) - 1) : At(j) = At(k) => j = k
    BY <1>1
  <1>9. DOMAIN RemoveAt(chals, i) = 1 .. (Len(chals) - 1) /\ DOMAIN chals = 1 .. Len(chals)
    BY <1>1, <1>5
  <1> HIDE DEF At
  <1> QED BY <1>5, <1>6, <1>7, <1>8, <1>9

(***************************************************************************)
(* Connections and sockets.                                                *)
(***************************************************************************)

LEMMA PlacesAre ==
  /\ {"new", "asked", "unwrapped", "refused", "taken", "authed", "claiming", "claimed", "open",
      "closing", "closed", "gone"} = Places
  /\ NoRow.conn = Nobody
  BY DEF Places, Taken, Passed, NoRow

LEMMA ConnTypesStep ==
  ASSUME DeviceTypes, FleetTypes, Nonces, NEW c \in Conn, ConnStep(c)
  PROVE  DeviceTypes'
  <1> USE DEF fleet, resets, conns, Goes
  <1>0. ASSUME UNCHANGED <<chals, row, dev, key, nonce, beat, revokedKids, lost>>, at' \in [Conn -> Places]
        PROVE  DeviceTypes'
    BY <1>0 DEF DeviceTypes
  <1>1. CASE Challenge(c)
    <2>1. /\ at[c] = "new" /\ nonce[c] = Nobody /\ chals' = NextChallengeList(c)
          /\ nonce' = [nonce EXCEPT ![c] = c] /\ key' = [key EXCEPT ![c] = user.key]
          /\ at' = [at EXCEPT ![c] = "asked"] /\ UNCHANGED <<row, dev, beat, revokedKids, lost>>
      BY <1>1 DEF Challenge
    <2>2. \A i \in DOMAIN chals : chals[i] # c
      BY <2>1 DEF Nonces
    <2>3. chals' \in Seq(Conn)
      BY <2>1, <2>2, BookGrows DEF Nonces, DeviceTypes
    <2>4. user.key \in Nat
      BY DEF FleetTypes, Users
    <2> QED BY <2>1, <2>3, <2>4, PlacesAre DEF DeviceTypes
  <1>2. CASE Present(c)
    BY <1>2, PlacesAre DEF Present, DeviceTypes
  <1>3. CASE Unwrap(c) BY <1>0, <1>3, PlacesAre DEF Unwrap, DeviceTypes
  <1>4. CASE TakeNonce(c)
    <2>1. CASE \E i \in DOMAIN chals : chals' = RemoveAt(chals, i)
      <3>1. chals' \in Seq(Conn)
        BY <2>1, BookShrinks DEF DeviceTypes, Nonces
      <3> QED BY <1>4, <3>1, PlacesAre DEF TakeNonce, DeviceTypes
    <2>2. CASE UNCHANGED chals
      BY <1>4, <2>2, PlacesAre DEF TakeNonce, DeviceTypes
    <2> QED BY <1>4, <2>1, <2>2 DEF TakeNonce
  <1>5. CASE Authenticated(c) BY <1>0, <1>5, PlacesAre DEF Authenticated, DeviceTypes
  <1>6. CASE SendClaim(c) BY <1>6, PlacesAre DEF SendClaim, DeviceTypes
  <1>7. CASE ClaimDevice(c)
    <2>0. [conn |-> c, online |-> TRUE] \in Row
      BY DEF Row
    <2>1. row' \in [Device -> Row]
      BY <1>7, <2>0 DEF ClaimDevice, DeviceTypes
    <2>2. at' \in [Conn -> Places]
      BY <1>7, PlacesAre DEF ClaimDevice, DeviceTypes
    <2> QED BY <1>7, <2>1, <2>2 DEF ClaimDevice, DeviceTypes
  <1>8. CASE Accept(c)
    <2>1. at' \in [Conn -> Places]
      BY <1>8, PlacesAre DEF Accept, DeviceTypes
    <2> QED BY <1>0, <1>8, <2>1 DEF Accept
  <1>9. CASE Heartbeat(c) BY <1>9 DEF Heartbeat, DeviceTypes
  <1>10. CASE TouchDevice(c)
    <2>0. [conn |-> c, online |-> TRUE] \in Row
      BY DEF Row
    <2>1. row' \in [Device -> Row]
      BY <1>10, <2>0 DEF TouchDevice, DeviceTypes
    <2>2. beat' \in [Conn -> {"none", "sent", "ok", "bad"}]
      BY <1>10 DEF TouchDevice, DeviceTypes
    <2> QED BY <1>10, <2>1, <2>2 DEF TouchDevice, DeviceTypes
  <1>11. CASE Touched(c)
    <2>1. at' \in [Conn -> Places] /\ beat' \in [Conn -> {"none", "sent", "ok", "bad"}]
      BY <1>11, PlacesAre DEF Touched, DeviceTypes
    <2> QED BY <1>11, <2>1 DEF Touched, DeviceTypes
  <1>12. CASE SocketGone(c) BY <1>0, <1>12, PlacesAre DEF SocketGone, DeviceTypes
  <1>13. CASE WebSocketClose(c) BY <1>0, <1>13, PlacesAre DEF WebSocketClose, DeviceTypes
  <1>14. CASE ReleaseDevice(c)
    <2>1. row' \in [Device -> Row]
      BY <1>14 DEF ReleaseDevice, DeviceTypes, Row
    <2> QED BY <1>14, <2>1, PlacesAre DEF ReleaseDevice, DeviceTypes
  <1> QED BY <1>1, <1>2, <1>3, <1>4, <1>5, <1>6, <1>7, <1>8, <1>9, <1>10, <1>11, <1>12, <1>13,
             <1>14 DEF ConnStep

LEMMA DeviceTypesStep ==
  ASSUME DeviceTypes, FleetTypes, Nonces, [Next]_vars
  PROVE  DeviceTypes'
  <1>1. ASSUME NEW c \in Conn, ConnStep(c) PROVE DeviceTypes'
    BY <1>1, ConnTypesStep
  <1>2. ASSUME \/ \E r \in Reset : Ask(r) \/ ResetStep(r)
               \/ \E d \in Device : Evict(d)
               \/ \E b \in BOOLEAN : SetUserBanned(b)
        PROVE  DeviceTypes'
    <2>1. /\ UNCHANGED <<row, dev, key, nonce, beat>> /\ chals' \in {chals, <<>>}
          /\ at' \in [Conn -> Places]
      BY <1>2, ResetsLeaveConns
    <2>2. chals' \in Seq(Conn)
      <3>1. <<>> \in Seq(Conn)
        OBVIOUS
      <3> QED BY <2>1, <3>1 DEF DeviceTypes
    <2>3. revokedKids' \in [Device -> SUBSET Nat] /\ lost' \in Nat
      <3>1. ASSUME NEW r \in Reset, NEW d \in Device, Kick(r, d)
            PROVE  revokedKids' \in [Device -> SUBSET Nat] /\ lost' = lost
        <4>1. copy[r].key \in Nat
          BY DEF FleetTypes, Users
        <4> QED BY <3>1, <4>1 DEF Kick, DeviceTypes
      <3>2. ASSUME NEW d \in Device, Evict(d)
            PROVE  revokedKids' \in [Device -> SUBSET Nat] /\ lost' \in Nat
        BY <3>2 DEF Evict, DeviceTypes
      <3>3. ASSUME NEW r \in Reset,
                   \/ Ask(r) \/ BeginTokenRevocation(r) \/ KickUserDevices(r) \/ KickFailed(r)
                   \/ RevokeToken(r) \/ Mint(r) \/ (\E d \in Device : KickUnreached(r, d))
            PROVE  UNCHANGED <<revokedKids, lost>>
        BY <3>3 DEF Ask, BeginTokenRevocation, KickUserDevices, KickFailed, RevokeToken, Mint,
                    KickUnreached
      <3>4. ASSUME NEW b \in BOOLEAN, SetUserBanned(b) PROVE UNCHANGED <<revokedKids, lost>>
        BY <3>4 DEF SetUserBanned
      <3> QED BY <1>2, <3>1, <3>2, <3>3, <3>4 DEF ResetStep, DeviceTypes
    <2> QED BY <2>1, <2>2, <2>3 DEF DeviceTypes
  <1>3. CASE UNCHANGED vars
    BY <1>3 DEF vars, fleet, conns, DeviceTypes
  <1> QED BY <1>1, <1>2, <1>3 DEF Next

(***************************************************************************)
(* Keys that are locked out.                                               *)
(***************************************************************************)

LEMMA BarredHasMarker ==
  ASSUME FleetTypes, Locking, NEW k \in Nat, NEW d \in Device, Barred(k, d)
  PROVE  k \in revoked /\ ~Current(k)
  BY DEF Barred, Locking, Current

\* What keeps a key out: no connection of it gets a claim, or its socket.
LEMMA StaysOut ==
  ASSUME NEW k \in Nat, NEW d \in Device, LockedOutOf(k, d),
         \A c \in Conn : key'[c] = k /\ dev'[c] = d /\ at'[c] \in Claimed =>
            /\ key[c] = k /\ dev[c] = d /\ at[c] \in Claimed
            /\ at'[c] = "open" => at[c] = "open" \/ k \notin revokedKids[d]
            /\ at'[c] = "claimed" => at[c] = "claimed" /\ revokedKids[d] \subseteq revokedKids'[d]
  PROVE  LockedOutOf(k, d)'
  BY DEF LockedOutOf, Claimed

LEMMA ConnsStayOut ==
  ASSUME FleetTypes, DeviceTypes, Locking, NEW c \in Conn, ConnStep(c),
         NEW k \in Nat, NEW d \in Device, Barred(k, d), LockedOutOf(k, d)
  PROVE  LockedOutOf(k, d)'
  <1> USE DEF Goes, fleet, resets, conns
  <1>0. ~Current(k)
    BY BarredHasMarker
  <1>1. ASSUME UNCHANGED <<key, revokedKids>>, NEW p \in Places \ Claimed,
               at' = [at EXCEPT ![c] = p], \A x \in Conn \ {c} : dev'[x] = dev[x]
        PROVE  LockedOutOf(k, d)'
    BY <1>1, StaysOut DEF DeviceTypes, Claimed
  <1>2. CASE Challenge(c) \/ Present(c)
    <2>1. /\ UNCHANGED <<dev, revokedKids>> /\ at' = [at EXCEPT ![c] = "asked"]
          /\ \A x \in Conn \ {c} : key'[x] = key[x]
      BY <1>2 DEF Challenge, Present, DeviceTypes
    <2> QED BY <2>1, StaysOut DEF DeviceTypes, Claimed
  <1>3. CASE Unwrap(c) \/ TakeNonce(c) \/ Authenticated(c)
    <2>1. UNCHANGED <<key, dev, revokedKids>>
      BY <1>3 DEF Unwrap, TakeNonce, Authenticated
    <2>2. \E p \in Places \ Claimed : at' = [at EXCEPT ![c] = p]
      BY <1>3, PlacesAre DEF Unwrap, TakeNonce, Authenticated, Claimed
    <2> QED BY <1>1, <2>1, <2>2
  <1>4. CASE SendClaim(c)
    <2>1. UNCHANGED <<key, revokedKids>> /\ at' = [at EXCEPT ![c] = "claiming"]
          /\ \A x \in Conn \ {c} : dev'[x] = dev[x]
      BY <1>4 DEF SendClaim, DeviceTypes
    <2> QED BY <1>1, <2>1, PlacesAre DEF Claimed
  <1>5. CASE ClaimDevice(c)
    <2>1. UNCHANGED <<key, dev, revokedKids>>
      BY <1>5 DEF ClaimDevice
    <2>2. CASE Current(key[c])
      <3>1. key[c] # k /\ at' = [at EXCEPT ![c] = "claimed"]
        BY <1>0, <1>5, <2>2 DEF ClaimDevice
      <3> QED BY <2>1, <3>1, StaysOut DEF DeviceTypes
    <2>3. CASE ~Current(key[c])
      <3>1. at' = [at EXCEPT ![c] = "refused"]
        BY <1>5, <2>3 DEF ClaimDevice
      <3> QED BY <1>1, <2>1, <3>1, PlacesAre DEF Claimed
    <2> QED BY <2>2, <2>3
  <1>6. CASE Accept(c)
    <2>1. at[c] = "claimed" /\ UNCHANGED <<key, dev, revokedKids>>
      BY <1>6 DEF Accept
    <2>2. CASE key[c] \in revokedKids[dev[c]]
      <3>1. at' = [at EXCEPT ![c] = "closed"]
        BY <1>6, <2>2 DEF Accept
      <3> QED BY <1>1, <2>1, <3>1, PlacesAre DEF Claimed
    <2>3. CASE key[c] \notin revokedKids[dev[c]]
      <3>1. at' = [x \in Conn |-> IF x = c THEN "open"
                                  ELSE IF x \in Sockets(dev[c]) THEN "closing" ELSE at[x]]
        BY <1>6, <2>3 DEF Accept
      <3> QED BY <2>1, <2>3, <3>1, StaysOut DEF Claimed
    <2> QED BY <2>2, <2>3
  <1>7. CASE Heartbeat(c) \/ TouchDevice(c)
    <2>1. UNCHANGED <<key, dev, revokedKids, at>>
      BY <1>7 DEF Heartbeat, TouchDevice
    <2> QED BY <2>1, StaysOut
  <1>8. CASE Touched(c) \/ SocketGone(c) \/ WebSocketClose(c) \/ ReleaseDevice(c)
    <2>1. UNCHANGED <<key, dev, revokedKids>>
      BY <1>8 DEF Touched, SocketGone, WebSocketClose, ReleaseDevice
    <2>2. UNCHANGED at \/ \E p \in Places \ Claimed : at' = [at EXCEPT ![c] = p]
      BY <1>8, PlacesAre DEF Touched, SocketGone, WebSocketClose, ReleaseDevice, Claimed
    <2>3. CASE UNCHANGED at
      BY <2>1, <2>3, StaysOut
    <2> QED BY <1>1, <2>1, <2>2, <2>3
  <1> QED BY <1>2, <1>3, <1>4, <1>5, <1>6, <1>7, <1>8 DEF ConnStep

LEMMA KickedStep ==
  ASSUME FleetTypes, DeviceTypes, Locking, Kicked, Catalog, [Next]_vars
  PROVE  Kicked'
  <1> USE DEF fleet, resets, conns
  \* Nobody is barred who was not, and nobody comes in.
  <1>0. ASSUME \A k \in Nat, d \in Device : Barred(k, d)' => Barred(k, d),
               \A k \in Nat, d \in Device : Barred(k, d) /\ LockedOutOf(k, d) => LockedOutOf(k, d)',
               \A r \in Reset : rpc'[r] = "minting" => \A d \in Device : kick'[r][d] = "done"
        PROVE  Kicked'
    BY <1>0 DEF Kicked
  <1>1. ASSUME UNCHANGED <<at, dev, key, revokedKids>>, NEW k \in Nat, NEW d \in Device, LockedOutOf(k, d)
        PROVE  LockedOutOf(k, d)'
    BY <1>1 DEF LockedOutOf
  <1>2. ASSUME NEW c \in Conn, ConnStep(c) PROVE Kicked'
    <2>1. UNCHANGED account
      BY <1>2, ConnsLeaveTheAccount
    <2>2. \A k \in Nat, d \in Device : Barred(k, d)' <=> Barred(k, d)
      BY <2>1 DEF account, Barred
    <2>3. \A k \in Nat, d \in Device : Barred(k, d) /\ LockedOutOf(k, d) => LockedOutOf(k, d)'
      BY <1>2, ConnsStayOut
    <2> QED BY <2>1, <2>2, <2>3 DEF account, Kicked
  <1>3. ASSUME NEW r \in Reset, Ask(r) \/ BeginTokenRevocation(r) PROVE Kicked'
    <2>1. UNCHANGED <<minted, dead, kick, at, dev, key, revokedKids>>
      BY <1>3 DEF Ask, BeginTokenRevocation
    <2>2. \A q \in Reset : rpc'[q] \in {"kicking", "minting"} => rpc[q] = rpc'[q]
      BY <1>3 DEF Ask, BeginTokenRevocation, FleetTypes
    <2>3. \A k \in Nat, d \in Device : Barred(k, d)' => Barred(k, d)
      BY <2>1, <2>2 DEF Barred
    <2> QED BY <1>0, <1>1, <2>1, <2>2, <2>3 DEF Kicked
  <1>4. ASSUME NEW r \in Reset, KickUserDevices(r) PROVE Kicked'
    <2>1. /\ rpc[r] = "signing" /\ rpc' = [rpc EXCEPT ![r] = "kicking"]
          /\ kick' = [kick EXCEPT ![r] = [d \in Device |-> IF row[d] = NoRow THEN "done" ELSE "todo"]]
          /\ UNCHANGED <<minted, dead, at, dev, key, revokedKids>>
      BY <1>4 DEF KickUserDevices
    <2>2. \A q \in Reset \ {r} : rpc[q] \notin {"signing", "kicking", "minting"} /\ rpc'[q] = rpc[q]
      BY <2>1 DEF Locking, FleetTypes
    <2>3. rpc'[r] = "kicking" /\ \A d \in Device : kick'[r][d] = "done" => row[d] = NoRow
      BY <2>1 DEF FleetTypes
    <2>4. ASSUME NEW k \in Nat, NEW d \in Device, Barred(k, d)' PROVE LockedOutOf(k, d)'
      <3>1. CASE k \in dead
        BY <1>1, <2>1, <3>1 DEF Kicked, Barred
      <3>2. CASE k \notin dead
        <4>1. row[d] = NoRow
          BY <2>1, <2>2, <2>3, <2>4, <3>2 DEF Barred
        <4>2. \A c \in Conn : dev[c] = d => at[c] \notin Claimed
          BY <4>1, PlacesAre DEF Catalog
        <4> QED BY <2>1, <4>2 DEF LockedOutOf, Claimed
      <3> QED BY <3>1, <3>2
    <2>5. \A q \in Reset : rpc'[q] # "minting"
      BY <2>2, <2>3
    <2> QED BY <2>4, <2>5 DEF Kicked
  <1>5. ASSUME NEW r \in Reset, KickFailed(r) PROVE Kicked'
    <2>1. rpc' = [rpc EXCEPT ![r] = "failed"] /\ UNCHANGED <<minted, dead, kick, at, dev, key, revokedKids>>
      BY <1>5 DEF KickFailed
    <2>2. \A q \in Reset : rpc'[q] \in {"kicking", "minting"} => rpc[q] = rpc'[q]
      BY <2>1 DEF FleetTypes
    <2>3. \A k \in Nat, d \in Device : Barred(k, d)' => Barred(k, d)
      BY <2>1, <2>2 DEF Barred
    <2> QED BY <1>0, <1>1, <2>1, <2>2, <2>3 DEF Kicked
  <1>6. ASSUME NEW r \in Reset, RevokeToken(r) PROVE Kicked'
    <2>1. /\ rpc[r] = "kicking" /\ rpc' = [rpc EXCEPT ![r] = "minting"]
          /\ \A d \in Device : kick[r][d] = "done"
          /\ UNCHANGED <<minted, dead, kick, at, dev, key, revokedKids>>
      BY <1>6 DEF RevokeToken
    <2>2. \A q \in Reset : rpc'[q] \in {"kicking", "minting"} => rpc[q] \in {"kicking", "minting"}
      BY <2>1 DEF FleetTypes
    <2>3. \A k \in Nat, d \in Device : Barred(k, d)' => Barred(k, d)
      BY <2>1, <2>2 DEF Barred
    <2>4. \A q \in Reset : rpc'[q] = "minting" => \A d \in Device : kick'[q][d] = "done"
      BY <2>1 DEF FleetTypes, Kicked
    <2> QED BY <1>0, <1>1, <2>1, <2>3, <2>4
  <1>7. ASSUME NEW r \in Reset, Mint(r) PROVE Kicked'
    <2>1. /\ rpc[r] = "minting" /\ rpc' = [rpc EXCEPT ![r] = "done"] /\ minted' = minted + 1
          /\ dead' = dead \cup (1 .. minted) /\ UNCHANGED <<kick, at, dev, key, revokedKids>>
      BY <1>7 DEF Mint
    <2>2. \A q \in Reset : rpc'[q] \notin {"kicking", "minting"}
      BY <2>1 DEF Locking, FleetTypes
    <2>3. \A d \in Device : kick[r][d] = "done"
      BY <2>1 DEF Kicked
    <2>4. dead = 1 .. (minted - 1) /\ minted \in Nat \ {0}
      BY DEF Locking, FleetTypes
    <2>5. ASSUME NEW k \in Nat, NEW d \in Device, Barred(k, d)' PROVE LockedOutOf(k, d)'
      <3>1. k \in dead'
        BY <2>2, <2>5 DEF Barred
      <3>2. k \in dead \/ k = minted
        BY <2>1, <2>4, <3>1
      <3>3. Barred(k, d)
        BY <2>1, <2>3, <3>2 DEF Barred
      <3> QED BY <1>1, <2>1, <3>3 DEF Kicked
    <2> QED BY <2>2, <2>5 DEF Kicked
  <1>8. ASSUME NEW r \in Reset, NEW e \in Device, Kick(r, e) PROVE Kicked'
    <2>1. PICK S \in SUBSET Sockets(e), end \in {"done", "failed"} :
             /\ at' = [c \in Conn |-> IF c \in S THEN "closing" ELSE at[c]]
             /\ end = "done" => S = Sockets(e)
             /\ kick' = [kick EXCEPT ![r][e] = end]
      BY <1>8 DEF Kick
    <2>2. /\ rpc[r] = "kicking" /\ revokedKids' = [revokedKids EXCEPT ![e] = @ \cup {copy[r].key}]
          /\ kick[r][e] = "todo" /\ UNCHANGED <<rpc, minted, dead, dev, key>>
      BY <1>8 DEF Kick
    <2>3. copy[r].key = minted
      BY <2>2 DEF Locking
    <2>4. \A d \in Device : revokedKids[d] \subseteq revokedKids'[d]
      BY <2>2 DEF DeviceTypes
    <2>5. ASSUME NEW k \in Nat, NEW d \in Device, LockedOutOf(k, d) PROVE LockedOutOf(k, d)'
      BY <2>1, <2>2, <2>4, <2>5, StaysOut DEF Claimed
    <2>6. ASSUME NEW k \in Nat, NEW d \in Device, Barred(k, d)' PROVE LockedOutOf(k, d)'
      <3>1. CASE Barred(k, d)
        BY <2>5, <3>1 DEF Kicked
      <3>2. CASE ~Barred(k, d)
        <4>1. \A q \in Reset : kick'[q][d] = "done" => kick[q][d] = "done" \/ (d = e /\ end = "done")
          BY <2>1 DEF FleetTypes
        <4>2. k = minted /\ d = e /\ end = "done"
          BY <2>2, <2>6, <3>2, <4>1 DEF Barred
        <4>3. \A c \in Conn : dev[c] = d => at'[c] # "open"
          BY <2>1, <4>2 DEF Sockets
        <4>4. k \in revokedKids'[d]
          BY <2>2, <2>3, <4>2 DEF DeviceTypes
        <4> QED BY <2>2, <4>3, <4>4 DEF LockedOutOf
      <3> QED BY <3>1, <3>2
    <2>7. \A q \in Reset : rpc'[q] # "minting"
      BY <2>2 DEF Locking
    <2> QED BY <2>6, <2>7 DEF Kicked
  <1>9. ASSUME NEW r \in Reset, NEW e \in Device, KickUnreached(r, e) PROVE Kicked'
    <2>1. /\ rpc[r] = "kicking" /\ kick' = [kick EXCEPT ![r][e] = "failed"]
          /\ UNCHANGED <<rpc, minted, dead, at, dev, key, revokedKids>>
      BY <1>9 DEF KickUnreached
    <2>2. \A q \in Reset, d \in Device : kick'[q][d] = "done" => kick[q][d] = "done"
      BY <2>1 DEF FleetTypes
    <2>3. \A k \in Nat, d \in Device : Barred(k, d)' => Barred(k, d)
      BY <2>1, <2>2 DEF Barred
    <2>4. \A q \in Reset : rpc'[q] # "minting"
      BY <2>1 DEF Locking
    <2> QED BY <1>0, <1>1, <2>1, <2>3, <2>4
  <1>10. ASSUME NEW e \in Device, Evict(e) PROVE Kicked'
    <2>1. /\ \A c \in Conn : dev[c] = e => at[c] # "claimed"
          /\ revokedKids' = [revokedKids EXCEPT ![e] = {}]
          /\ UNCHANGED <<minted, dead, rpc, kick, at, dev, key>>
      BY <1>10 DEF Evict
    <2>2. ASSUME NEW k \in Nat, NEW d \in Device, LockedOutOf(k, d) PROVE LockedOutOf(k, d)'
      <3>1. CASE d = e
        BY <2>1, <2>2, <3>1 DEF LockedOutOf
      <3>2. CASE d # e
        <4>1. revokedKids'[d] = revokedKids[d]
          BY <2>1, <3>2 DEF DeviceTypes
        <4> QED BY <2>1, <2>2, <4>1 DEF LockedOutOf
      <3> QED BY <3>1, <3>2
    <2>3. \A k \in Nat, d \in Device : Barred(k, d)' => Barred(k, d)
      BY <2>1 DEF Barred
    <2> QED BY <1>0, <2>1, <2>2, <2>3 DEF Kicked
  <1>11. ASSUME (\E b \in BOOLEAN : SetUserBanned(b)) \/ UNCHANGED vars PROVE Kicked'
    <2>1. UNCHANGED <<minted, dead, rpc, kick, at, dev, key, revokedKids>>
      BY <1>11 DEF SetUserBanned, vars
    <2>2. \A k \in Nat, d \in Device : Barred(k, d)' => Barred(k, d)
      BY <2>1 DEF Barred
    <2> QED BY <1>0, <1>1, <2>1, <2>2 DEF Kicked
  <1> QED BY <1>2, <1>3, <1>4, <1>5, <1>6, <1>7, <1>8, <1>9, <1>10, <1>11 DEF Next, ResetStep

(***************************************************************************)
(* The catalog.                                                            *)
(***************************************************************************)

\* Sockets close and go on closing; rows and touches stay.
LEMMA CatalogStays ==
  ASSUME DeviceTypes, Catalog, UNCHANGED <<row, dev, beat>>,
         \A c \in Conn : /\ at'[c] \in Claimed => at[c] \in Claimed
                         /\ at[c] \in Attached => at'[c] \in Attached
                         /\ at[c] = "gone" <=> at'[c] = "gone"
                         /\ at[c] \in {"open", "closing", "closed"} =>
                               at'[c] \in {"open", "closing", "closed"}
  PROVE  Catalog'
  BY DEF Catalog, DeviceTypes, Row

LEMMA ConnsKeepCatalog ==
  ASSUME FleetTypes, DeviceTypes, Catalog, NEW c \in Conn, ConnStep(c)
  PROVE  Catalog'
  <1> USE DEF Goes, fleet, resets, conns
  <1>0. Nobody \notin Conn /\ \A d \in Device : row[d].conn \in Conn \cup {Nobody}
    BY Bounds DEF DeviceTypes, Row
  <1>1. CASE Challenge(c) \/ Present(c) \/ Unwrap(c) \/ TakeNonce(c) \/ Authenticated(c)
    <2>1. UNCHANGED <<row, dev, beat>> /\ at[c] \notin Claimed \cup Attached
      BY <1>1 DEF Challenge, Present, Unwrap, TakeNonce, Authenticated, Claimed, Attached
    <2>2. \E p \in Places \ (Claimed \cup Attached) : at' = [at EXCEPT ![c] = p]
      BY <1>1, PlacesAre DEF Challenge, Present, Unwrap, TakeNonce, Authenticated, Claimed, Attached
    <2> QED BY <2>1, <2>2, CatalogStays DEF DeviceTypes, Claimed, Attached
  <1>2. CASE SendClaim(c)
    <2>1. /\ at[c] = "authed" /\ at' = [at EXCEPT ![c] = "claiming"] /\ UNCHANGED <<row, beat>>
          /\ \A x \in Conn \ {c} : dev'[x] = dev[x]
      BY <1>2 DEF SendClaim, DeviceTypes
    <2>2. \A d \in Device : row[d].conn # c
      BY <1>0, <2>1 DEF Catalog, Attached
    <2>3. /\ \A x \in Conn : x # c => at'[x] = at[x]
          /\ at'[c] = "claiming"
      BY <2>1 DEF DeviceTypes
    <2> QED BY <1>0, <2>1, <2>2, <2>3 DEF Catalog, Claimed
  <1>3. CASE ClaimDevice(c)
    <2>1. at[c] = "claiming" /\ UNCHANGED <<dev, beat>>
      BY <1>3 DEF ClaimDevice
    <2>2. CASE ~Current(key[c])
      <3>1. at' = [at EXCEPT ![c] = "refused"] /\ UNCHANGED row
        BY <1>3, <2>2 DEF ClaimDevice
      <3> QED BY <2>1, <3>1, CatalogStays DEF DeviceTypes, Claimed, Attached
    <2>3. CASE Current(key[c])
      <3>1. /\ at' = [at EXCEPT ![c] = "claimed"]
            /\ row' = [row EXCEPT ![dev[c]] = [conn |-> c, online |-> TRUE]]
        BY <1>3, <2>3 DEF ClaimDevice
      <3>2. dev[c] \in Device /\ row'[dev[c]].conn = c /\ row'[dev[c]].online
            /\ \A d \in Device \ {dev[c]} : row'[d] = row[d]
        BY <3>1 DEF DeviceTypes
      <3>3. at'[c] = "claimed" /\ \A x \in Conn \ {c} : at'[x] = at[x]
        BY <3>1 DEF DeviceTypes
      <3>4. \A d \in Device : row[d].conn # c
        BY <1>0, <2>1 DEF Catalog, Attached
      <3>5. \A x \in Conn : at'[x] \in Claimed => row'[dev[x]].conn # Nobody
        <4> SUFFICES ASSUME NEW x \in Conn, at'[x] \in Claimed PROVE row'[dev[x]].conn # Nobody
          OBVIOUS
        <4>1. CASE dev[x] = dev[c]
          BY <1>0, <3>2, <4>1
        <4>2. CASE dev[x] # dev[c]
          <5>1. dev[x] \in Device /\ row'[dev[x]] = row[dev[x]]
            BY <3>2, <4>2 DEF DeviceTypes
          <5>2. at[x] \in Claimed
            BY <3>3, <4>2
          <5> QED BY <5>1, <5>2 DEF Catalog
        <4> QED BY <4>1, <4>2
      <3>6. ASSUME NEW d \in Device, row'[d].conn # Nobody
            PROVE  /\ dev[row'[d].conn] = d /\ at'[row'[d].conn] \in Attached
                   /\ ~row'[d].online => at'[row'[d].conn] = "gone"
                   /\ InOrder /\ row'[d].online => at'[row'[d].conn] # "gone"
        <4>1. CASE d = dev[c]
          BY <3>2, <3>3, <4>1 DEF Attached
        <4>2. CASE d # dev[c]
          <5>1. row'[d] = row[d] /\ row[d].conn \in Conn \ {c}
            BY <1>0, <3>2, <3>4, <3>6, <4>2
          <5> QED BY <3>3, <3>6, <5>1 DEF Catalog
        <4> QED BY <4>1, <4>2
      <3>7. \A x \in Conn : beat[x] = "sent" => at'[x] = at[x]
        BY <2>1, <3>3 DEF Catalog
      <3> QED BY <2>1, <3>5, <3>6, <3>7 DEF Catalog
    <2> QED BY <2>2, <2>3
  <1>4. CASE Accept(c)
    <2>1. at[c] = "claimed" /\ UNCHANGED <<row, dev, beat>>
      BY <1>4 DEF Accept
    <2>2. \A x \in Conn : \/ at'[x] = at[x] \/ (x = c /\ at'[x] \in {"open", "closed"})
                          \/ (at[x] = "open" /\ at'[x] = "closing")
      BY <1>4 DEF Accept, Sockets, DeviceTypes
    <2> QED BY <2>1, <2>2, CatalogStays DEF Claimed, Attached
  <1>5. CASE Heartbeat(c)
    <2>1. at[c] = "open" /\ beat' = [beat EXCEPT ![c] = "sent"] /\ UNCHANGED <<at, row, dev>>
      BY <1>5 DEF Heartbeat
    <2> QED BY <2>1 DEF Catalog, DeviceTypes
  <1>6. CASE TouchDevice(c)
    <2>1. /\ beat[c] = "sent" /\ UNCHANGED <<at, dev>>
          /\ \A x \in Conn : beat'[x] = "sent" => beat[x] = "sent"
      BY <1>6 DEF TouchDevice, DeviceTypes
    <2>2. at[c] \in Attached /\ (InOrder => at[c] # "gone")
      BY <2>1 DEF Catalog, Attached
    <2>3. CASE UNCHANGED row
      BY <2>1, <2>3 DEF Catalog
    <2>4. CASE row' = [row EXCEPT ![dev[c]] = [conn |-> c, online |-> TRUE]]
      <3>1. dev[c] \in Device /\ row'[dev[c]].conn = c /\ row'[dev[c]].online
            /\ \A d \in Device \ {dev[c]} : row'[d] = row[d]
        BY <2>4 DEF DeviceTypes
      <3>2. \A x \in Conn : at[x] \in Claimed => row'[dev[x]].conn # Nobody
        <4> SUFFICES ASSUME NEW x \in Conn, at[x] \in Claimed PROVE row'[dev[x]].conn # Nobody
          OBVIOUS
        <4>1. CASE dev[x] = dev[c]
          BY <1>0, <3>1, <4>1
        <4>2. CASE dev[x] # dev[c]
          <5>1. dev[x] \in Device /\ row'[dev[x]] = row[dev[x]]
            BY <3>1, <4>2 DEF DeviceTypes
          <5>2. at[x] \in Claimed
            BY <4>2
          <5> QED BY <5>1, <5>2 DEF Catalog
        <4> QED BY <4>1, <4>2
      <3>3. ASSUME NEW d \in Device, row'[d].conn # Nobody
            PROVE  /\ dev[row'[d].conn] = d /\ at[row'[d].conn] \in Attached
                   /\ ~row'[d].online => at[row'[d].conn] = "gone"
                   /\ InOrder /\ row'[d].online => at[row'[d].conn] # "gone"
        <4>1. CASE d = dev[c]
          BY <2>2, <3>1, <4>1
        <4>2. CASE d # dev[c]
          <5>1. row'[d] = row[d] /\ row[d].conn # Nobody
            BY <3>1, <3>3, <4>2
          <5>2. /\ dev[row[d].conn] = d /\ at[row[d].conn] \in Attached
                /\ ~row[d].online => at[row[d].conn] = "gone"
                /\ InOrder /\ row[d].online => at[row[d].conn] # "gone"
            BY <5>1 DEF Catalog
          <5> QED BY <5>1, <5>2
        <4> QED BY <4>1, <4>2
      <3> QED BY <2>1, <3>2, <3>3 DEF Catalog
    <2> QED BY <1>6, <2>3, <2>4 DEF TouchDevice
  <1>7. CASE Touched(c)
    <2>1. /\ UNCHANGED <<row, dev>> /\ \A x \in Conn : beat'[x] = "sent" => beat[x] = "sent"
          /\ \A x \in Conn : at'[x] = at[x] \/ (at[x] = "open" /\ at'[x] = "closing")
      BY <1>7 DEF Touched, DeviceTypes
    <2> QED BY <1>0, <2>1 DEF Catalog, Claimed, Attached
  <1>8. CASE SocketGone(c) \/ WebSocketClose(c)
    <2>1. /\ UNCHANGED <<row, dev, beat>>
          /\ \A x \in Conn : \/ at'[x] = at[x] \/ (at[x] = "open" /\ at'[x] = "closing")
                             \/ (at[x] = "closing" /\ at'[x] = "closed")
      BY <1>8 DEF SocketGone, WebSocketClose, DeviceTypes
    <2> QED BY <2>1, CatalogStays DEF Claimed, Attached
  <1>9. CASE ReleaseDevice(c)
    <2>1. /\ at[c] = "closed" /\ (InOrder => beat[c] # "sent") /\ at' = [at EXCEPT ![c] = "gone"]
          /\ row' = IF row[dev[c]].conn = c THEN [row EXCEPT ![dev[c]].online = FALSE] ELSE row
          /\ UNCHANGED <<dev, beat>>
      BY <1>9 DEF ReleaseDevice, MarksGone
    <2>2. at'[c] = "gone" /\ \A x \in Conn \ {c} : at'[x] = at[x]
      BY <2>1 DEF DeviceTypes
    <2>3. \A d \in Device : /\ row'[d].conn = row[d].conn
                            /\ row[d].conn # c => row'[d].online = row[d].online
                            /\ row[d].conn = c => row'[d].online = FALSE
      <3>1. \A d \in Device : row[d].conn = c => d = dev[c]
        BY <1>0 DEF Catalog
      <3>2. CASE row[dev[c]].conn = c
        BY <2>1, <3>1, <3>2 DEF DeviceTypes, Row
      <3>3. CASE row[dev[c]].conn # c
        BY <2>1, <3>1, <3>3 DEF DeviceTypes, Row
      <3> QED BY <3>2, <3>3
    <2>4. \A x \in Conn : at'[x] \in Claimed => row'[dev'[x]].conn # Nobody
      BY <2>1, <2>2, <2>3 DEF Catalog, Claimed, DeviceTypes
    <2>5. ASSUME NEW d \in Device, row'[d].conn # Nobody
          PROVE  /\ dev'[row'[d].conn] = d /\ at'[row'[d].conn] \in Attached
                 /\ ~row'[d].online => at'[row'[d].conn] = "gone"
                 /\ InOrder /\ row'[d].online => at'[row'[d].conn] # "gone"
      <3>1. CASE row[d].conn = c
        BY <2>1, <2>2, <2>3, <3>1, <2>5 DEF Catalog, Attached
      <3>2. CASE row[d].conn # c
        <4>1. /\ row[d].conn # Nobody /\ row[d].conn \in Conn \ {c}
              /\ row'[d].conn = row[d].conn /\ row'[d].online = row[d].online
          BY <1>0, <2>3, <2>5, <3>2
        <4>2. /\ dev[row[d].conn] = d /\ at[row[d].conn] \in Attached
              /\ ~row[d].online => at[row[d].conn] = "gone"
              /\ InOrder /\ row[d].online => at[row[d].conn] # "gone"
          BY <4>1 DEF Catalog
        <4>3. dev' = dev /\ at'[row[d].conn] = at[row[d].conn]
          BY <2>1, <2>2, <4>1
        <4> QED BY <4>1, <4>2, <4>3
      <3> QED BY <3>1, <3>2
    <2>6. \A x \in Conn : beat'[x] = "sent" =>
             at'[x] \in {"open", "closing", "closed", "gone"} /\ (InOrder => at'[x] # "gone")
      BY <2>1, <2>2 DEF Catalog
    <2> QED BY <2>4, <2>5, <2>6 DEF Catalog
  <1> QED BY <1>1, <1>2, <1>3, <1>4, <1>5, <1>6, <1>7, <1>8, <1>9 DEF ConnStep

LEMMA CatalogStep ==
  ASSUME FleetTypes, DeviceTypes, Catalog, [Next]_vars
  PROVE  Catalog'
  <1>1. ASSUME NEW c \in Conn, ConnStep(c) PROVE Catalog'
    BY <1>1, ConnsKeepCatalog
  <1>2. ASSUME \/ \E r \in Reset : Ask(r) \/ ResetStep(r)
               \/ \E d \in Device : Evict(d)
               \/ \E b \in BOOLEAN : SetUserBanned(b)
        PROVE  Catalog'
    BY <1>2, ResetsLeaveConns, CatalogStays DEF Closing, Claimed, Attached
  <1>3. CASE UNCHANGED vars
    BY <1>3, CatalogStays DEF vars, fleet, conns
  <1> QED BY <1>1, <1>2, <1>3 DEF Next

(***************************************************************************)
(* The nonces.                                                             *)
(***************************************************************************)

\* The book stays or is emptied, and nobody takes a nonce.
LEMMA NoncesStay ==
  ASSUME DeviceTypes, Nonces, UNCHANGED nonce, chals' \in {chals, <<>>},
         \A c \in Conn : /\ at[c] = "new" <=> at'[c] = "new"
                         /\ at'[c] \in Taken => at[c] \in Taken
  PROVE  Nonces'
  <1>1. DOMAIN chals' \subseteq DOMAIN chals /\ \A i \in DOMAIN chals' : chals'[i] = chals[i]
    <2>1. DOMAIN <<>> = {}
      OBVIOUS
    <2> QED BY <2>1
  <1>2. \A i \in DOMAIN chals : chals[i] \in Conn
    BY DEF DeviceTypes
  <1>3. \A c \in Conn : nonce[c] # Nobody => nonce[c] \in Conn
    BY DEF DeviceTypes
  <1> QED BY <1>1, <1>2, <1>3 DEF Nonces

LEMMA ConnsKeepNonces ==
  ASSUME DeviceTypes, Nonces, NEW c \in Conn, ConnStep(c)
  PROVE  Nonces'
  <1> USE DEF Goes, fleet, resets, conns
  <1>0. Nobody \notin Conn /\ "asked" \notin Taken /\ "unwrapped" \notin Taken /\ "taken" \in Taken
    BY Bounds DEF Taken, Passed
  <1>1. CASE Challenge(c)
    <2>1. /\ at[c] = "new" /\ chals' = NextChallengeList(c)
          /\ at'[c] = "asked" /\ nonce'[c] = c
          /\ \A x \in Conn \ {c} : at'[x] = at[x] /\ nonce'[x] = nonce[x]
      BY <1>1 DEF Challenge, DeviceTypes
    <2>2. /\ \A i \in DOMAIN chals' : chals'[i] = c \/ \E k \in DOMAIN chals : chals'[i] = chals[k]
          /\ \A i, j \in DOMAIN chals' : chals'[i] = chals'[j] => i = j
      <3>1. \A i \in DOMAIN chals : chals[i] # c
        BY <2>1 DEF Nonces
      <3> QED BY <2>1, <3>1, BookGrows DEF Nonces, DeviceTypes
    <2>3. \A i \in DOMAIN chals : chals[i] \in Conn
      BY DEF DeviceTypes
    <2>4. \A x \in Conn : nonce[x] # Nobody => nonce[x] \in Conn \ {c}
      BY <2>1 DEF DeviceTypes, Nonces
    <2>5. \A x \in Conn : at'[x] \in Taken => x # c /\ at[x] \in Taken /\ nonce[x] \in Conn \ {c}
      BY <1>0, <2>1, <2>4 DEF Nonces, Taken, Passed
    <2>6. \A x \in Conn : at'[x] = "new" <=> nonce'[x] = Nobody
      BY <1>0, <2>1 DEF Nonces
    <2>7. \A x \in Conn : nonce'[x] # Nobody => at'[nonce'[x]] # "new"
      BY <2>1, <2>4 DEF Nonces
    <2>8. \A i \in DOMAIN chals' : at'[chals'[i]] # "new"
      BY <2>1, <2>2, <2>3 DEF Nonces
    <2>9. \A x \in Conn : at'[x] \in Taken => \A i \in DOMAIN chals' : chals'[i] # nonce'[x]
      BY <2>1, <2>2, <2>5 DEF Nonces
    <2>10. \A x, y \in Conn : at'[x] \in Taken /\ at'[y] \in Taken /\ nonce'[x] = nonce'[y] => x = y
      BY <2>1, <2>5 DEF Nonces
    <2> QED BY <2>2, <2>6, <2>7, <2>8, <2>9, <2>10 DEF Nonces
  <1>2. CASE Present(c)
    <2>1. PICK d \in Conn \ {c} :
             /\ at[d] \notin {"new", "asked"} /\ nonce' = [nonce EXCEPT ![c] = nonce[d]]
      BY <1>2 DEF Present
    <2>2. /\ at[c] = "new" /\ at'[c] = "asked" /\ nonce'[c] = nonce[d] /\ chals' = chals
          /\ \A x \in Conn \ {c} : at'[x] = at[x] /\ nonce'[x] = nonce[x]
      BY <1>2, <2>1 DEF Present, DeviceTypes
    <2>3. nonce[d] # Nobody
      BY <2>1 DEF Nonces
    <2>4. \A x \in Conn : at'[x] \in Taken => x # c /\ at[x] \in Taken
      BY <1>0, <2>2
    <2>5. \A x \in Conn : at'[x] = "new" <=> nonce'[x] = Nobody
      BY <2>2, <2>3 DEF Nonces
    <2>6. \A x \in Conn : nonce'[x] # Nobody => nonce'[x] \in Conn /\ at'[nonce'[x]] # "new"
      BY <2>1, <2>2 DEF Nonces, DeviceTypes
    <2>7. \A i \in DOMAIN chals : chals[i] \in Conn /\ at'[chals[i]] # "new"
      BY <2>2 DEF Nonces, DeviceTypes
    <2> QED BY <2>2, <2>4, <2>5, <2>6, <2>7 DEF Nonces
  <1>3. CASE TakeNonce(c)
    <2>1. at[c] = "unwrapped" /\ nonce' = nonce
      BY <1>3 DEF TakeNonce
    <2>2. CASE at' = [at EXCEPT ![c] = "refused"] /\ UNCHANGED chals
      BY <2>1, <2>2, NoncesStay DEF DeviceTypes, Taken, Passed
    <2>3. ASSUME NEW i \in DOMAIN chals, chals[i] = nonce[c], chals' = RemoveAt(chals, i),
                 at' = [at EXCEPT ![c] = "taken"]
          PROVE  Nonces'
      <3>1. /\ \A j \in DOMAIN chals' : /\ chals'[j] # nonce[c]
                                        /\ \E k \in DOMAIN chals : chals'[j] = chals[k]
            /\ \A j, k \in DOMAIN chals' : chals'[j] = chals'[k] => j = k
        <4>1. chals \in Seq(Conn) /\ \A j, k \in DOMAIN chals : chals[j] = chals[k] => j = k
          BY DEF Nonces, DeviceTypes
        <4>2. /\ \A j \in DOMAIN RemoveAt(chals, i) :
                    /\ RemoveAt(chals, i)[j] # chals[i]
                    /\ \E k \in DOMAIN chals : RemoveAt(chals, i)[j] = chals[k]
              /\ \A j, k \in DOMAIN RemoveAt(chals, i) :
                    RemoveAt(chals, i)[j] = RemoveAt(chals, i)[k] => j = k
          BY <4>1, BookShrinks
        <4> QED BY <2>3, <4>2
      <3>2. at'[c] = "taken" /\ \A x \in Conn \ {c} : at'[x] = at[x]
        BY <2>3 DEF DeviceTypes
      <3>3. \A x \in Conn : at'[x] \in Taken /\ x # c =>
               at[x] \in Taken /\ nonce[x] # nonce[c] /\ \A k \in DOMAIN chals : chals[k] # nonce[x]
        BY <2>3, <3>2 DEF Nonces
      <3>4. \A x \in Conn : at'[x] = "new" <=> nonce[x] = Nobody
        BY <2>1, <3>2 DEF Nonces
      <3>5. \A x \in Conn : nonce[x] # Nobody => at'[nonce[x]] # "new"
        BY <3>2 DEF Nonces, DeviceTypes
      <3>6. \A j \in DOMAIN chals' : at'[chals'[j]] # "new"
        <4>1. \A k \in DOMAIN chals : chals[k] \in Conn /\ at'[chals[k]] # "new"
          BY <3>2 DEF Nonces, DeviceTypes
        <4> QED BY <3>1, <4>1
      <3>7. \A x \in Conn : at'[x] \in Taken => \A j \in DOMAIN chals' : chals'[j] # nonce[x]
        BY <3>1, <3>3
      <3>8. \A x, y \in Conn : at'[x] \in Taken /\ at'[y] \in Taken /\ nonce[x] = nonce[y] => x = y
        BY <3>2, <3>3 DEF Nonces
      <3> QED BY <2>1, <3>1, <3>4, <3>5, <3>6, <3>7, <3>8 DEF Nonces
    <2> QED BY <1>3, <2>2, <2>3 DEF TakeNonce
  <1>4. CASE \/ Unwrap(c) \/ Authenticated(c) \/ ClaimDevice(c) \/ Accept(c)
             \/ Heartbeat(c) \/ TouchDevice(c)
    <2>1. UNCHANGED <<nonce, chals>>
      BY <1>4 DEF Unwrap, Authenticated, ClaimDevice, Accept, Heartbeat, TouchDevice
    <2>2. \A x \in Conn : at'[x] = at[x] \/ (at[x] # "new" /\ at'[x] # "new"
                                            /\ (at'[x] \in Taken => at[x] \in Taken))
      BY <1>4 DEF Unwrap, Authenticated, ClaimDevice, Accept, Heartbeat, TouchDevice, Sockets,
                  DeviceTypes, Taken, Passed
    <2> QED BY <2>1, <2>2, NoncesStay
  <1>5. CASE \/ SendClaim(c) \/ Touched(c) \/ SocketGone(c) \/ WebSocketClose(c) \/ ReleaseDevice(c)
    <2>1. UNCHANGED <<nonce, chals>>
      BY <1>5 DEF SendClaim, Touched, SocketGone, WebSocketClose, ReleaseDevice
    <2>2. \A x \in Conn : at'[x] = at[x] \/ (at[x] \in Taken /\ at'[x] # "new")
      BY <1>5 DEF SendClaim, Touched, SocketGone, WebSocketClose, ReleaseDevice, DeviceTypes,
                  Taken, Passed
    <2>3. "new" \notin Taken
      BY DEF Taken, Passed
    <2> QED BY <2>1, <2>2, <2>3, NoncesStay
  <1> QED BY <1>1, <1>2, <1>3, <1>4, <1>5 DEF ConnStep

LEMMA NoncesStep ==
  ASSUME DeviceTypes, Nonces, [Next]_vars
  PROVE  Nonces'
  <1>1. ASSUME NEW c \in Conn, ConnStep(c) PROVE Nonces'
    BY <1>1, ConnsKeepNonces
  <1>2. ASSUME \/ \E r \in Reset : Ask(r) \/ ResetStep(r)
               \/ \E d \in Device : Evict(d)
               \/ \E b \in BOOLEAN : SetUserBanned(b)
        PROVE  Nonces'
    <2>1. /\ UNCHANGED nonce /\ chals' \in {chals, <<>>}
          /\ \A c \in Conn : Closing(at[c], at'[c])
      BY <1>2, ResetsLeaveConns
    <2> QED BY <2>1, NoncesStay DEF Closing, Taken, Passed
  <1>3. CASE UNCHANGED vars
    BY <1>3, NoncesStay DEF vars, fleet, conns
  <1> QED BY <1>1, <1>2, <1>3 DEF Next

(***************************************************************************)
(* The theorems.                                                           *)
(***************************************************************************)

LEMMA InitInv ==
  ASSUME Init
  PROVE  IInv
  <1>1. (CHOOSE d \in Device : TRUE) \in Device
    BY Bounds
  <1>2. FleetTypes
    <2>1. [key |-> 1, banned |-> FALSE] \in Users
      BY DEF Users
    <2>2. user \in Users /\ copy \in [Reset -> Users]
      BY <2>1 DEF Init
    <2>3. kick \in [Reset -> [Device -> {"todo", "done", "failed"}]]
      BY DEF Init
    <2>4. rpc \in [Reset -> Stages]
      BY DEF Init, Stages
    <2>5. minted \in Nat \ {0} /\ revoked \in SUBSET Nat /\ lock \in Reset \cup {Nobody}
          /\ dead \in SUBSET Nat
      BY DEF Init
    <2>6. ordered \in BOOLEAN
      BY DEF Init
    <2> QED BY <2>2, <2>3, <2>4, <2>5, <2>6 DEF FleetTypes
  <1>3. DeviceTypes
    <2>1. NoRow \in Row
      BY DEF NoRow, Row
    <2>2. row \in [Device -> Row]
      BY <2>1 DEF Init
    <2>3. at \in [Conn -> Places] /\ dev \in [Conn -> Device]
      BY <1>1, PlacesAre DEF Init
    <2>4. chals \in Seq(Conn)
      BY DEF Init
    <2> QED BY <2>2, <2>3, <2>4 DEF Init, DeviceTypes
  <1>4. Locking
    <2>1. user.key = 1 /\ user.banned = FALSE /\ minted = 1
      BY DEF Init
    <2>2. dead = 1 .. (minted - 1) /\ dead \subseteq revoked
      BY <2>1 DEF Init
    <2>3. \A r \in Reset : rpc[r] = "idle"
      BY DEF Init
    <2> QED BY <2>1, <2>2, <2>3 DEF Init, Locking, BanHolds
  <1>5. Kicked
    BY DEF Init, Kicked, Barred
  <1>6. Catalog
    BY DEF Init, Catalog, Claimed, NoRow
  <1>7. Nonces
    BY DEF Init, Nonces, Taken, Passed
  <1> QED BY <1>2, <1>3, <1>4, <1>5, <1>6, <1>7 DEF IInv

LEMMA InvStep ==
  ASSUME IInv, [Next]_vars
  PROVE  IInv'
  <1> USE DEF IInv
  <1>1. FleetTypes' BY FleetTypesStep
  <1>2. DeviceTypes' BY DeviceTypesStep
  <1>3. Locking' BY LockingStep
  <1>4. Kicked' BY KickedStep
  <1>5. Catalog' BY CatalogStep
  <1>6. Nonces' BY NoncesStep
  <1> QED BY <1>1, <1>2, <1>3, <1>4, <1>5, <1>6

\* The inductive invariant: in every state, whoever has the user's lock has
\* read the user that is stored, a dead key is locked out of every device, the
\* rows are of connections to their devices, and a nonce is in the book once
\* or was taken by one connection.
THEOREM DevicesInvHolds == Spec => []IInv
  <1>1. Init => IInv
    BY InitInv
  <1>2. IInv /\ [Next]_vars => IInv'
    BY InvStep
  <1> QED BY <1>1, <1>2, PTL DEF Spec

\* POST /v1/hub_token, setUserBanned: once a reset is answered with a new
\* token no device is connected with an older one, and a ban that was answered
\* is in force, however the claims of the devices, the kicks, failed attempts,
\* evictions and the other resets were interleaved.
THEOREM LockedOutHolds == Spec => []LockedOut
  <1>1. IInv => RevocationIsComplete
    <2> SUFFICES ASSUME IInv, NEW c \in Conn, at[c] = "open", key[c] \in dead PROVE FALSE
      BY DEF RevocationIsComplete
    <2>1. key[c] \in Nat /\ dev[c] \in Device
      BY DEF IInv, DeviceTypes
    <2>2. LockedOutOf(key[c], dev[c])
      BY <2>1 DEF IInv, Kicked, Barred
    <2> QED BY <2>2 DEF LockedOutOf
  <1>2. IInv => BanHolds
    BY DEF IInv, Locking
  <1> QED BY <1>1, <1>2, DevicesInvHolds, PTL DEF LockedOut

\* resolveWrap: of all deliveries of one handshake, one authenticates.
THEOREM NonceIsUsedOnceHolds == Spec => []NonceIsUsedOnce
  <1>1. IInv => NonceIsUsedOnce
    BY DEF IInv, Nonces, NonceIsUsedOnce, Taken
  <1> QED BY <1>1, DevicesInvHolds, PTL

\* releaseDevice, touchDevice: where the requests of a DeviceDO reach FleetDO in
\* the order in which they were sent, the row of a device is of a socket whose
\* state it tells, and a nonce lets one connection in.
THEOREM ConnectionsAreTrueHolds ==
  ASSUME InOrder
  PROVE  Spec => []ConnectionsAreTrue
  <1>1. IInv => PresenceIsTrue
    <2> SUFFICES ASSUME IInv, NEW d \in Device, row[d].conn # Nobody
                 PROVE  /\ at[row[d].conn] = "open" => row[d].online
                        /\ at[row[d].conn] = "gone" => ~row[d].online
      BY DEF PresenceIsTrue
    <2> QED BY DEF IInv, Catalog
  <1>2. IInv => NonceIsUsedOnce
    BY DEF IInv, Nonces, NonceIsUsedOnce, Taken
  <1> QED BY <1>1, <1>2, DevicesInvHolds, PTL DEF ConnectionsAreTrue

(***************************************************************************)
(* Signalling of a direct connection (RtcSignals).  The offer of a session *)
(* is made once, so that until the Agent has answered it there is no       *)
(* answer, no signature and no ticket of it; and the frame that cancels it *)
(* follows it on the socket.                                               *)
(***************************************************************************)
RtcFrames == [type : {"rtc_offer", "rtc_cancel", "rtc_ticket", "rtc_answer", "rtc_closed", "rtc_claim",
                      "desktop_action", "ask_heartbeat", "desktop", "heartbeat"},
              sid : Sid \cup {R!NoSid}]

RtcTypes ==
    /\ toAgent \in Seq(RtcFrames) /\ toHub \in Seq(RtcFrames)
    /\ rtcRow \in [Sid -> {"none", "offered", "ready"}]
    /\ client \in [Sid -> {"new", "offered", "ready", "gone"}]
    /\ ag \in [Sid -> {"none", "pending", "made", "open"}]
    /\ auth \in [Sid -> BOOLEAN] /\ on \in [Sid -> Nat] /\ socks \in Nat
    /\ rtcOwner \in [Sid -> Operators \cup {R!NoSid}] /\ took \in [Sid -> Operators \cup {R!NoSid}]

\* The Agent's sessions and its socket.
RtcSocket ==
    /\ sock = 0 => toAgent = <<>> /\ toHub = <<>>
    /\ rtcRevoked => sock = 0
    /\ R!LivesOnItsSocket

\* Whose call a result is.
RtcOwners == R!OwnAnswers /\ \A s \in Sid : rtcOwner[s] \in {R!NoSid, OwnerOf[s]}

Queued(q, t, s) == \E i \in DOMAIN q : q[i] = R!Frame(t, s)
Signing(s) == s \in signing \cup signed \/ Queued(toAgent, "rtc_ticket", s)
Ordered(s) ==
    \A i, j \in DOMAIN toAgent :
        toAgent[i] \in {R!Frame("rtc_offer", s), R!Frame("rtc_cancel", s)}
            /\ toAgent[j] = R!Frame("rtc_offer", s) => j <= i

\* How far a session has come.
Fresh(s) == client[s] = "new" =>
    /\ rtcRow[s] = "none" /\ ag[s] = "none" /\ s \notin seen /\ ~Signing(s) /\ ~Queued(toHub, "rtc_answer", s)
    /\ ~Queued(toAgent, "rtc_offer", s) /\ ~Queued(toAgent, "rtc_cancel", s)
Unanswered(s) == Queued(toAgent, "rtc_offer", s) \/ ag[s] \in {"pending", "made"} =>
    /\ ~Signing(s) /\ ~Queued(toHub, "rtc_answer", s)
    /\ s \in seen \/ Queued(toAgent, "rtc_cancel", s) => rtcRow[s] = "none"
TakenOnce(s) == Queued(toAgent, "rtc_offer", s) => ag[s] = "none" /\ s \notin seen
Over(s) == s \in seen =>
    ~auth[s] /\ (ag[s] # "none" => rtcRow[s] = "none" /\ ~Signing(s))
RtcSession(s) == Ordered(s) /\ Fresh(s) /\ Unanswered(s) /\ TakenOnce(s) /\ Over(s)

RtcInv == RtcTypes /\ RtcSocket /\ RtcOwners /\ \A s \in Sid : RtcSession(s)

LEMMA FrameType ==
  \A t \in {"rtc_offer", "rtc_cancel", "rtc_ticket", "rtc_answer", "rtc_closed", "rtc_claim",
            "desktop_action", "ask_heartbeat", "desktop", "heartbeat"}, s \in Sid \cup {R!NoSid} :
      R!Frame(t, s) \in RtcFrames
  BY DEF RtcFrames, R!Frame

LEMMA FrameTaken ==
  ASSUME NEW q \in Seq(RtcFrames), q # <<>>, NEW p, p = Tail(q)
  PROVE  /\ p \in Seq(RtcFrames)
         /\ \A t, s : Queued(p, t, s) => Queued(q, t, s)
         /\ \A t, s : Head(q) = R!Frame(t, s) => Queued(q, t, s)
<1>1. /\ p \in Seq(RtcFrames) /\ 1 \in DOMAIN q /\ q[1] = Head(q)
      /\ \A i \in DOMAIN p : i + 1 \in DOMAIN q /\ p[i] = q[i + 1]
  OBVIOUS
<1> QED BY <1>1 DEF Queued

LEMMA FrameAdded ==
  ASSUME NEW q \in Seq(RtcFrames), NEW f \in RtcFrames, NEW p, p = q \/ p = Append(q, f)
  PROVE  /\ p \in Seq(RtcFrames)
         /\ \A t, s : Queued(p, t, s) => Queued(q, t, s) \/ f = R!Frame(t, s)
<1>1. /\ p \in Seq(RtcFrames)
      /\ \A i \in DOMAIN p : (i \in DOMAIN q /\ p[i] = q[i]) \/ p[i] = f
  OBVIOUS
<1> QED BY <1>1 DEF Queued

LEMMA NoFrames == \A t, s : ~Queued(<<>>, t, s)
  BY DEF Queued

LEMMA OrderTaken ==
  ASSUME NEW u, toAgent \in Seq(RtcFrames), toAgent # <<>>, toAgent' = Tail(toAgent), Ordered(u)
  PROVE  /\ Ordered(u)'
         /\ Head(toAgent) \in {R!Frame("rtc_offer", u), R!Frame("rtc_cancel", u)}
                => ~Queued(toAgent', "rtc_offer", u)
<1>1. /\ 1 \in DOMAIN toAgent /\ toAgent[1] = Head(toAgent)
      /\ \A i \in DOMAIN toAgent' : i \in Nat \ {0} /\ i + 1 \in DOMAIN toAgent /\ toAgent'[i] = toAgent[i + 1]
  OBVIOUS
<1>2. ASSUME NEW i \in DOMAIN toAgent', NEW j \in DOMAIN toAgent',
             toAgent'[i] \in {R!Frame("rtc_offer", u), R!Frame("rtc_cancel", u)},
             toAgent'[j] = R!Frame("rtc_offer", u)
      PROVE  j <= i
  <2>1. i + 1 \in DOMAIN toAgent /\ j + 1 \in DOMAIN toAgent
        /\ toAgent[i + 1] = toAgent'[i] /\ toAgent[j + 1] = toAgent'[j]
    BY <1>1
  <2>2. j + 1 <= i + 1
    BY <1>2, <2>1 DEF Ordered
  <2> QED BY <1>1, <2>2
<1>3. ASSUME Head(toAgent) \in {R!Frame("rtc_offer", u), R!Frame("rtc_cancel", u)},
             NEW j \in DOMAIN toAgent', toAgent'[j] = R!Frame("rtc_offer", u)
      PROVE  FALSE
  <2>1. j + 1 <= 1
    BY <1>1, <1>3 DEF Ordered
  <2> QED BY <1>1, <2>1
<1> QED BY <1>2, <1>3 DEF Ordered, Queued

LEMMA OrderAdded ==
  ASSUME NEW u, toAgent \in Seq(RtcFrames), NEW f \in RtcFrames, R!ToAgent(f), Ordered(u),
         f # R!Frame("rtc_offer", u)
            \/ (~Queued(toAgent, "rtc_offer", u) /\ ~Queued(toAgent, "rtc_cancel", u))
  PROVE  Ordered(u)'
<1>1. CASE toAgent' = toAgent
  BY <1>1 DEF Ordered
<1>2. CASE toAgent' = Append(toAgent, f)
  <2>1. \A i \in DOMAIN toAgent' : i \in Nat /\ i <= Len(toAgent) + 1
           /\ (i = Len(toAgent) + 1 => toAgent'[i] = f)
           /\ (i # Len(toAgent) + 1 => i \in DOMAIN toAgent /\ toAgent'[i] = toAgent[i])
    BY <1>2
  <2>2. ASSUME NEW i \in DOMAIN toAgent', NEW j \in DOMAIN toAgent',
               toAgent'[i] \in {R!Frame("rtc_offer", u), R!Frame("rtc_cancel", u)},
               toAgent'[j] = R!Frame("rtc_offer", u)
        PROVE  j <= i
    <3>1. CASE i = Len(toAgent) + 1
      BY <2>1, <3>1
    <3>2. CASE i # Len(toAgent) + 1 /\ j = Len(toAgent) + 1
      <4>1. f = R!Frame("rtc_offer", u)
        BY <2>1, <2>2, <3>2
      <4>2. i \in DOMAIN toAgent /\ toAgent[i] \in {R!Frame("rtc_offer", u), R!Frame("rtc_cancel", u)}
        BY <2>1, <2>2, <3>2
      <4> QED BY <4>1, <4>2 DEF Queued
    <3>3. CASE i # Len(toAgent) + 1 /\ j # Len(toAgent) + 1
      <4>1. /\ i \in DOMAIN toAgent /\ toAgent[i] = toAgent'[i]
            /\ j \in DOMAIN toAgent /\ toAgent[j] = toAgent'[j]
        BY <2>1, <3>3
      <4> QED BY <2>2, <4>1 DEF Ordered
    <3> QED BY <3>1, <3>2, <3>3
  <2> QED BY <2>2 DEF Ordered
<1> QED BY <1>1, <1>2 DEF R!ToAgent

\* A step that brings a session no further.
Quiet(u) ==
    /\ Ordered(u)'
    /\ Queued(toAgent', "rtc_offer", u) => Queued(toAgent, "rtc_offer", u)
    /\ Queued(toAgent', "rtc_cancel", u) => Queued(toAgent, "rtc_cancel", u)
    /\ Queued(toHub', "rtc_answer", u) => Queued(toHub, "rtc_answer", u)
    /\ Signing(u)' => Signing(u)
    /\ client'[u] = "new" => client[u] = "new"
    /\ rtcRow'[u] \in {rtcRow[u], "none"}
    /\ ag'[u] \in {"pending", "made"} => ag[u] \in {"pending", "made"}
    /\ ag'[u] # "none" => ag[u] # "none"
    /\ auth'[u] => auth[u]
    /\ u \in seen' <=> u \in seen

LEMMA QuietKeeps ==
  ASSUME NEW u, RtcSession(u), Quiet(u)
  PROVE  RtcSession(u)'
<1>1. Fresh(u)'
  BY DEF RtcSession, Fresh, Quiet
<1>2. Unanswered(u)'
  BY DEF RtcSession, Unanswered, Quiet
<1>3. TakenOnce(u)'
  BY DEF RtcSession, TakenOnce, Quiet
<1>4. Over(u)'
  BY DEF RtcSession, Over, Quiet
<1> QED BY <1>1, <1>2, <1>3, <1>4 DEF RtcSession, Quiet

\* Nothing of the session is touched, and its frames are as they were.
LEMMA AsideQuiet ==
  ASSUME RtcTypes, NEW u \in Sid, RtcSession(u),
         client'[u] = "new" => client[u] = "new", rtcRow'[u] \in {rtcRow[u], "none"},
         ag'[u] \in {ag[u], "none"}, auth'[u] => auth[u], u \in seen' <=> u \in seen,
         u \in signing' \cup signed' => u \in signing \cup signed,
         Ordered(u)',
         \A t \in {"rtc_offer", "rtc_cancel", "rtc_ticket"} : Queued(toAgent', t, u) => Queued(toAgent, t, u),
         Queued(toHub', "rtc_answer", u) => Queued(toHub, "rtc_answer", u)
  PROVE  RtcSession(u)'
  BY QuietKeeps DEF Quiet, Signing

\* What a step does to the frames on the socket.
Fewer(p, q) == p \in Seq(RtcFrames) /\ \A t, s : Queued(p, t, s) => Queued(q, t, s)

LEMMA SameFrames == ASSUME NEW q \in Seq(RtcFrames) PROVE Fewer(q, q)
  BY DEF Fewer

LEMMA FromHubTakes ==
  ASSUME RtcTypes, RtcSocket, NEW t, NEW s, R!FromHub(t, s)
  PROVE  /\ Fewer(toAgent', toAgent) /\ Queued(toAgent, t, s) /\ sock # 0 /\ ~rtcRevoked
         /\ \A u : Ordered(u) => Ordered(u)'
         /\ \A u : Ordered(u) /\ u = s /\ t \in {"rtc_offer", "rtc_cancel"} => ~Queued(toAgent', "rtc_offer", u)
  BY FrameTaken, OrderTaken DEF R!FromHub, RtcTypes, RtcSocket, Fewer

LEMMA FromAgentTakes ==
  ASSUME RtcTypes, RtcSocket, NEW t, NEW s, R!FromAgent(t, s)
  PROVE  Fewer(toHub', toHub) /\ Queued(toHub, t, s) /\ sock # 0
  BY FrameTaken DEF R!FromAgent, RtcTypes, RtcSocket, Fewer

LEMMA ToHubAdds ==
  ASSUME RtcTypes, NEW f \in RtcFrames, R!ToHub(f)
  PROVE  /\ toHub' \in Seq(RtcFrames) /\ (sock = 0 => toHub' = toHub)
         /\ \A t, s : Queued(toHub', t, s) => Queued(toHub, t, s) \/ f = R!Frame(t, s)
  BY FrameAdded DEF R!ToHub, RtcTypes

LEMMA ToAgentAdds ==
  ASSUME RtcTypes, NEW f \in RtcFrames, R!ToAgent(f)
  PROVE  /\ toAgent' \in Seq(RtcFrames) /\ (sock = 0 => toAgent' = toAgent)
         /\ \A t, s : Queued(toAgent', t, s) => Queued(toAgent, t, s) \/ f = R!Frame(t, s)
  BY FrameAdded DEF R!ToAgent, RtcTypes

LEMMA FramesDiffer ==
  ASSUME NEW t, NEW s, NEW t2, NEW s2, R!Frame(t, s) = R!Frame(t2, s2)
  PROVE  t = t2 /\ s = s2
<1>1. R!Frame(t, s).type = R!Frame(t2, s2).type /\ R!Frame(t, s).sid = R!Frame(t2, s2).sid
  OBVIOUS
<1> QED BY <1>1 DEF R!Frame

LEMMA OrderSame == ASSUME NEW u, Ordered(u), toAgent' = toAgent PROVE Ordered(u)'
  BY DEF Ordered

\* The frames of a step, and that the socket they are on is there.
RtcFrameStep ==
    /\ toAgent' \in Seq(RtcFrames) /\ toHub' \in Seq(RtcFrames)
    /\ sock' = 0 => toAgent' = <<>> /\ toHub' = <<>>

\* Where the Agent's side is unchanged, or gives up sessions.
LEMMA SocketKept ==
  ASSUME RtcSocket, RtcFrameStep, UNCHANGED <<sock, socks, rtcRevoked, on>>,
         \A s \in Sid : ag'[s] \in {"pending", "open"} => ag[s] \in {"pending", "open"}
  PROVE  RtcSocket'
  BY DEF RtcSocket, RtcFrameStep, R!LivesOnItsSocket

\* The hub's side of a session, but for its offer, its cancellation and its ticket.
LEMMA RtcHubKeeps ==
  ASSUME RtcInv, NEW s \in Sid,
         \/ R!Poll(s) \/ R!Answered(s) \/ R!Sign(s) \/ R!Closed(s) \/ R!Expire(s) \/ R!Claim(s) \/ R!Remember(s)
  PROVE  RtcInv'
<1>1. RtcTypes /\ RtcSocket /\ RtcOwners /\ \A u \in Sid : RtcSession(u)
  BY DEF RtcInv
<1>2. /\ UNCHANGED <<sock, socks, ag, on, auth, seen, rtcRevoked, toAgent, took>>
  BY DEF R!Poll, R!Answered, R!Sign, R!Closed, R!Expire, R!Claim, R!Remember, R!socket, R!hub, R!agent
<1>3. /\ Fewer(toHub', toHub) /\ (sock = 0 => toHub' = toHub)
      /\ rtcRow' = rtcRow \/ rtcRow' = [rtcRow EXCEPT ![s] = "none"]
  <2>1. CASE R!Poll(s) \/ R!Sign(s) \/ R!Expire(s)
    BY <1>1, <2>1, SameFrames DEF R!Poll, R!Sign, R!Expire, R!socket, R!hub, RtcTypes
  <2>2. CASE R!Answered(s) \/ R!Closed(s) \/ R!Claim(s) \/ R!Remember(s)
    BY <1>1, <2>2, FromAgentTakes DEF R!Answered, R!Closed, R!Claim, R!Remember, R!hub
  <2> QED BY <2>1, <2>2
<1>4. client' = client \/ (client[s] = "offered" /\ client' = [client EXCEPT ![s] = R!Found(s)])
  BY DEF R!Poll, R!Answered, R!Sign, R!Closed, R!Expire, R!Claim, R!Remember
<1>5. R!Found(s) \in {"offered", "ready", "gone"}
  BY DEF R!Found
<1>6. rtcOwner' = rtcOwner \/ rtcOwner' = [rtcOwner EXCEPT ![s] = OwnerOf[s]]
  BY DEF R!Poll, R!Answered, R!Sign, R!Closed, R!Expire, R!Claim, R!Remember, R!hub
<1>7. RtcTypes' /\ RtcOwners'
  <2>1. RtcOwners' /\ rtcOwner' \in [Sid -> Operators \cup {R!NoSid}]
    <3>1. OwnerOf[s] \in Operators
      BY RtcAssumption
    <3>2. rtcOwner' \in [Sid -> Operators \cup {R!NoSid}]
          /\ \A u \in Sid : rtcOwner'[u] \in {rtcOwner[u], OwnerOf[u]}
      BY <1>1, <1>6, <3>1 DEF RtcTypes
    <3> QED BY <1>1, <1>2, <3>2 DEF RtcOwners, R!OwnAnswers
  <2>2. client' \in [Sid -> {"new", "offered", "ready", "gone"}]
        /\ rtcRow' \in [Sid -> {"none", "offered", "ready"}]
    BY <1>1, <1>3, <1>4, <1>5 DEF RtcTypes
  <2> QED BY <1>1, <1>2, <1>3, <2>1, <2>2 DEF RtcTypes, Fewer
<1>8. RtcSocket'
  BY <1>1, <1>2, <1>3, SocketKept DEF RtcTypes, RtcSocket, RtcFrameStep, Fewer
<1>9. ASSUME NEW u \in Sid PROVE RtcSession(u)'
  <2>1. Ordered(u)'
    BY <1>1, <1>2, OrderSame DEF RtcSession
  <2>2. (client'[u] = "new" => client[u] = "new") /\ rtcRow'[u] \in {rtcRow[u], "none"}
    BY <1>1, <1>3, <1>4, <1>5 DEF RtcTypes
  <2>3. CASE u = s /\ R!Answered(s)
    <3>1. /\ Queued(toHub, "rtc_answer", u) /\ UNCHANGED <<rtcRow, signed, client>>
          /\ (u \in signing' => u \in signing \/ rtcRow[u] # "none")
      BY <1>1, <2>3, FromAgentTakes DEF R!Answered, R!Known
    <3>2. /\ ~Queued(toAgent, "rtc_offer", u) /\ ag[u] \notin {"pending", "made"} /\ client[u] # "new"
      BY <1>1, <3>1 DEF RtcSession, Fresh, Unanswered
    <3>3. Over(u)'
      BY <1>1, <1>2, <3>1 DEF RtcSession, Over, Signing
    <3> QED BY <1>2, <2>1, <3>1, <3>2, <3>3 DEF RtcSession, Fresh, Unanswered, TakenOnce
  <2>4. CASE ~(u = s /\ R!Answered(s))
    <3>1. u \in signing' \cup signed' => u \in signing \cup signed
      BY <2>4 DEF R!Poll, R!Answered, R!Sign, R!Closed, R!Expire, R!Claim, R!Remember, R!hub
    <3> QED BY <1>1, <1>2, <1>3, <2>1, <2>2, <3>1, AsideQuiet DEF Fewer
  <2> QED BY <2>3, <2>4
<1> QED BY <1>7, <1>8, <1>9 DEF RtcInv

\* The offer, the cancellation and the ticket: the row is written, and the Agent is told.
LEMMA RtcTellKeeps ==
  ASSUME RtcInv, NEW s \in Sid, R!Offer(s) \/ R!Cancel(s) \/ R!Store(s)
  PROVE  RtcInv'
<1>1. RtcTypes /\ RtcSocket /\ RtcOwners /\ \A u \in Sid : RtcSession(u)
  BY DEF RtcInv
<1>2. UNCHANGED <<sock, socks, toHub, ag, on, auth, seen, rtcRevoked, took, rtcOwner, signing>>
  BY DEF R!Offer, R!Cancel, R!Store, R!socket, R!hub, R!agent
<1>3. PICK t \in {"rtc_offer", "rtc_cancel", "rtc_ticket"} :
        /\ t = "rtc_offer" => R!Offer(s) /\ client[s] = "new"
        /\ t = "rtc_cancel" => R!Cancel(s) /\ client[s] \in {"offered", "ready"}
        /\ t = "rtc_ticket" => R!Store(s) /\ s \in signed
  BY DEF R!Offer, R!Cancel, R!Store
<1>4. toAgent' = toAgent \/ R!ToAgent(R!Frame(t, s))
  BY <1>3 DEF R!Offer, R!Offered, R!Cancel, R!Cancelled, R!Store
<1>5. R!Frame(t, s) \in RtcFrames
  BY FrameType
<1>6. /\ toAgent' \in Seq(RtcFrames) /\ (sock = 0 => toAgent' = toAgent)
      /\ \A t2, s2 : Queued(toAgent', t2, s2) => Queued(toAgent, t2, s2) \/ (t2 = t /\ s2 = s)
  <2>1. CASE toAgent' = toAgent
    BY <1>1, <2>1 DEF RtcTypes
  <2>2. CASE R!ToAgent(R!Frame(t, s))
    BY <1>1, <1>5, <2>2, ToAgentAdds, FramesDiffer
  <2> QED BY <1>4, <2>1, <2>2
<1>7. /\ \E x \in {"none", "offered", "ready"} : rtcRow' = [rtcRow EXCEPT ![s] = x] \/ rtcRow' = rtcRow
      /\ \E x \in {"offered", "gone"} : client' = [client EXCEPT ![s] = x] \/ client' = client
  BY <1>3 DEF R!Offer, R!Offered, R!Cancel, R!Cancelled, R!Store
<1>8. RtcTypes' /\ RtcOwners'
  <2>1. client' \in [Sid -> {"new", "offered", "ready", "gone"}]
        /\ rtcRow' \in [Sid -> {"none", "offered", "ready"}]
    BY <1>1, <1>7 DEF RtcTypes
  <2> QED BY <1>1, <1>2, <1>6, <2>1 DEF RtcTypes, RtcOwners, R!OwnAnswers
<1>9. RtcSocket'
  BY <1>1, <1>2, <1>6, SocketKept DEF RtcTypes, RtcSocket, RtcFrameStep
<1>10. ASSUME NEW u \in Sid PROVE Ordered(u)'
  <2>1. Ordered(u) /\ Fresh(u)
    BY <1>1 DEF RtcSession
  <2>2. CASE toAgent' = toAgent
    BY <2>1, <2>2, OrderSame
  <2>3. CASE R!ToAgent(R!Frame(t, s)) /\ (t # "rtc_offer" \/ u # s)
    <3>1. R!Frame(t, s) # R!Frame("rtc_offer", u)
      BY <2>3, FramesDiffer
    <3>2. ASSUME NEW f \in RtcFrames, R!ToAgent(f), f # R!Frame("rtc_offer", u) PROVE Ordered(u)'
      BY <1>1, <2>1, <3>2, OrderAdded DEF RtcTypes
    <3> QED BY <1>5, <2>3, <3>1, <3>2
  <2>4. CASE R!ToAgent(R!Frame(t, s)) /\ t = "rtc_offer" /\ u = s
    BY <1>1, <1>3, <1>5, <2>1, <2>4, OrderAdded DEF RtcTypes, Fresh
  <2> QED BY <1>4, <2>2, <2>3, <2>4
<1>11. ASSUME NEW u \in Sid, u # s PROVE RtcSession(u)'
  <2>1. client'[u] = client[u] /\ rtcRow'[u] = rtcRow[u]
    BY <1>1, <1>7, <1>11 DEF RtcTypes
  <2>2. u \in signed' => u \in signed
    BY <1>3 DEF R!Offer, R!Cancel, R!Store, R!hub
  <2> QED BY <1>1, <1>2, <1>6, <1>10, <1>11, <2>1, <2>2, AsideQuiet
<1>12. ASSUME R!Offer(s), client[s] = "new" PROVE RtcSession(s)'
  <2>1. /\ ~Signing(s) /\ ~Queued(toHub, "rtc_answer", s) /\ s \notin seen /\ ag[s] = "none"
        /\ ~Queued(toAgent, "rtc_cancel", s)
    BY <1>1, <1>12 DEF RtcSession, Fresh
  <2>2. /\ client'[s] # "new" /\ signed' = signed
        /\ ~Queued(toAgent', "rtc_cancel", s) /\ ~Queued(toAgent', "rtc_ticket", s)
    <3>1. signed' = signed /\ client'[s] # "new"
      BY <1>1, <1>12 DEF R!Offer, RtcTypes
    <3>2. toAgent' = toAgent \/ R!ToAgent(R!Frame("rtc_offer", s))
      BY <1>12 DEF R!Offer, R!Offered
    <3>3. \A t2 : Queued(toAgent', t2, s) => Queued(toAgent, t2, s) \/ t2 = "rtc_offer"
      BY <1>1, <3>2, FrameType, ToAgentAdds, FramesDiffer
    <3> QED BY <2>1, <3>1, <3>3 DEF Signing
  <2>3. Fresh(s)' /\ Unanswered(s)' /\ TakenOnce(s)' /\ Over(s)'
    BY <1>2, <2>1, <2>2 DEF Fresh, Unanswered, TakenOnce, Over, Signing
  <2> QED BY <1>10, <2>3 DEF RtcSession
<1>13. ASSUME R!Cancel(s), client[s] \in {"offered", "ready"} PROVE RtcSession(s)'
  <2>1. rtcRow'[s] = "none" /\ client'[s] = "gone" /\ signed' = signed
    BY <1>1, <1>13 DEF R!Cancel, R!Cancelled, RtcTypes
  <2>2. \A t2 : Queued(toAgent', t2, s) => Queued(toAgent, t2, s) \/ t2 = "rtc_cancel"
    <3>1. toAgent' = toAgent \/ R!ToAgent(R!Frame("rtc_cancel", s))
      BY <1>13 DEF R!Cancel, R!Cancelled
    <3> QED BY <1>1, <3>1, FrameType, ToAgentAdds, FramesDiffer
  <2>3. Fresh(s)' /\ Unanswered(s)' /\ TakenOnce(s)' /\ Over(s)'
    BY <1>1, <1>2, <2>1, <2>2 DEF RtcSession, Fresh, Unanswered, TakenOnce, Over, Signing
  <2> QED BY <1>10, <2>3 DEF RtcSession
<1>14. ASSUME R!Store(s), s \in signed PROVE RtcSession(s)'
  <2>1. client' = client /\ signed' \subseteq signed
    BY <1>14 DEF R!Store
  <2>2. \A t2 : Queued(toAgent', t2, s) => Queued(toAgent, t2, s) \/ t2 = "rtc_ticket"
    BY <1>1, <1>14, FrameType, ToAgentAdds, FramesDiffer DEF R!Store
  <2>3. ~Queued(toAgent, "rtc_offer", s) /\ ag[s] \notin {"pending", "made"} /\ client[s] # "new"
        /\ (s \in seen => ag[s] = "none" /\ ~auth[s])
    BY <1>1, <1>14 DEF RtcSession, Fresh, Unanswered, Over, Signing
  <2>4. Fresh(s)' /\ Unanswered(s)' /\ TakenOnce(s)' /\ Over(s)'
    BY <1>2, <2>1, <2>2, <2>3 DEF Fresh, Unanswered, TakenOnce, Over
  <2> QED BY <1>10, <2>4 DEF RtcSession
<1>15. RtcSession(s)'
  BY <1>3, <1>12, <1>13, <1>14
<1> QED BY <1>8, <1>9, <1>11, <1>15 DEF RtcInv

\* What is taken from the hub, and who waits there.
LEMMA RtcTakeKeeps ==
  ASSUME RtcInv, NEW s \in Sid, NEW o \in Operators, R!Take(o, s)
  PROVE  RtcInv'
<1>1. took' \in [Sid -> Operators \cup {R!NoSid}]
      /\ \A u \in Sid : took'[u] \in {took[u], rtcOwner[u]}
  BY DEF RtcInv, RtcTypes, R!Take, R!Sees
<1>2. UNCHANGED <<sock, socks, toHub, toAgent, ag, on, auth, seen, rtcRevoked, rtcOwner, signing, signed, rtcRow, client>>
  BY DEF R!Take, R!socket, R!agent
<1>3. RtcTypes' /\ RtcOwners' /\ RtcSocket'
  BY <1>1, <1>2 DEF RtcInv, RtcTypes, RtcOwners, RtcSocket, R!OwnAnswers, R!LivesOnItsSocket
<1>4. ASSUME NEW u \in Sid PROVE RtcSession(u)'
  BY <1>2 DEF RtcInv, RtcSession, Ordered, Fresh, Unanswered, TakenOnce, Over, Signing, Queued
<1> QED BY <1>3, <1>4 DEF RtcInv

\* The Agent's side of a session.  A step of it leaves the rows of the hub alone.
LEMMA RtcAgentFrame ==
  ASSUME RtcInv, NEW s \in Sid, R!AgentStep(s)
  PROVE  /\ RtcTypes /\ RtcSocket /\ RtcOwners /\ \A u \in Sid : RtcSession(u)
         /\ UNCHANGED <<sock, socks, client, rtcRow, rtcOwner, took, signing, signed, rtcRevoked>>
  BY DEF RtcInv, R!AgentStep, R!TakeOffer, R!Prepare, R!Install, R!TakeTicket, R!TakeCancel, R!Drop,
         R!Exchange, R!Return, R!socket, R!hub

\* Rows, frames and sessions of another.
LEMMA RtcAgentOthers ==
  ASSUME RtcInv, NEW s \in Sid, R!AgentStep(s), NEW u \in Sid, u # s, Ordered(u)',
         ag'[u] = ag[u], auth'[u] = auth[u], u \in seen' <=> u \in seen,
         \A t \in {"rtc_offer", "rtc_cancel", "rtc_ticket"} : Queued(toAgent', t, u) => Queued(toAgent, t, u),
         Queued(toHub', "rtc_answer", u) => Queued(toHub, "rtc_answer", u)
  PROVE  RtcSession(u)'
  BY RtcAgentFrame, AsideQuiet

\* The frame of the session that is read.
LEMMA RtcReads ==
  ASSUME RtcInv, NEW s \in Sid, R!TakeOffer(s) \/ R!TakeTicket(s) \/ R!TakeCancel(s)
  PROVE  RtcInv'
<1>1. R!AgentStep(s) /\ RtcTypes /\ RtcSocket /\ RtcOwners /\ \A u \in Sid : RtcSession(u)
  BY RtcAgentFrame DEF RtcInv, R!AgentStep
<1>2. UNCHANGED <<sock, socks, client, rtcRow, rtcOwner, took, signing, signed, rtcRevoked>>
  BY <1>1, RtcAgentFrame
<1>3. PICK t \in {"rtc_offer", "rtc_ticket", "rtc_cancel"} :
        /\ R!FromHub(t, s)
        /\ t = "rtc_offer" => R!TakeOffer(s)
        /\ t = "rtc_ticket" => R!TakeTicket(s)
        /\ t = "rtc_cancel" => R!TakeCancel(s)
  BY DEF R!TakeOffer, R!TakeTicket, R!TakeCancel
<1>4. /\ Fewer(toAgent', toAgent) /\ Queued(toAgent, t, s) /\ sock # 0 /\ ~rtcRevoked
      /\ \A u \in Sid : Ordered(u)'
      /\ t \in {"rtc_offer", "rtc_cancel"} => ~Queued(toAgent', "rtc_offer", s)
  BY <1>1, <1>3, FromHubTakes DEF RtcSession
<1>5. /\ toHub' \in Seq(RtcFrames)
      /\ \A u \in Sid : Queued(toHub', "rtc_answer", u) => Queued(toHub, "rtc_answer", u)
  <2>1. CASE toHub' = toHub
    BY <1>1, <2>1 DEF RtcTypes
  <2>2. CASE R!ToHub(R!Frame("rtc_closed", s))
    BY <1>1, <2>2, FrameType, ToHubAdds, FramesDiffer
  <2> QED BY <1>3, <2>1, <2>2 DEF R!TakeOffer, R!TakeTicket, R!TakeCancel
<1>6. /\ \E x \in {"none", "pending", "made"} : ag' = [ag EXCEPT ![s] = x] \/ ag' = ag
      /\ \E x \in BOOLEAN : auth' = [auth EXCEPT ![s] = x] \/ auth' = auth
      /\ on' = [on EXCEPT ![s] = socks] \/ on' = on
      /\ seen' = seen \/ seen' = seen \cup {s}
  BY <1>3 DEF R!TakeOffer, R!TakeTicket, R!TakeCancel
<1>7. RtcTypes' /\ RtcOwners'
  <2>1. /\ ag' \in [Sid -> {"none", "pending", "made", "open"}] /\ auth' \in [Sid -> BOOLEAN]
        /\ on' \in [Sid -> Nat]
    BY <1>1, <1>6 DEF RtcTypes
  <2> QED BY <1>1, <1>2, <1>4, <1>5, <2>1 DEF RtcTypes, RtcOwners, R!OwnAnswers, Fewer
<1>8. \A u \in Sid : ag'[u] \in {"pending", "open"} => (ag'[u] = ag[u] /\ on'[u] = on[u]) \/ on'[u] = socks
  BY <1>1, <1>3, <1>6 DEF RtcTypes, R!TakeOffer, R!TakeTicket, R!TakeCancel
<1>9. RtcSocket'
  BY <1>1, <1>2, <1>4, <1>8 DEF RtcSocket, R!LivesOnItsSocket
<1>10. ASSUME NEW u \in Sid, u # s PROVE RtcSession(u)'
  <2>1. ag'[u] = ag[u] /\ auth'[u] = auth[u] /\ (u \in seen' <=> u \in seen)
    BY <1>1, <1>6, <1>10 DEF RtcTypes
  <2> QED BY <1>1, <1>4, <1>5, <1>10, <2>1, RtcAgentOthers DEF Fewer
<1>11. /\ \A t2 : Queued(toAgent', t2, s) => Queued(toAgent, t2, s)
       /\ Ordered(s)' /\ RtcSession(s) /\ (Signing(s)' => Signing(s))
       /\ Queued(toHub', "rtc_answer", s) => Queued(toHub, "rtc_answer", s)
  BY <1>1, <1>2, <1>4, <1>5 DEF Fewer, Signing
<1>12. ASSUME t = "rtc_offer" PROVE RtcSession(s)'
  <2>1. /\ Queued(toAgent, "rtc_offer", s) /\ s \notin seen /\ client[s] # "new"
        /\ ~Queued(toAgent', "rtc_offer", s) /\ ~Signing(s) /\ ~Queued(toHub, "rtc_answer", s)
        /\ Queued(toAgent, "rtc_cancel", s) => rtcRow[s] = "none"
    BY <1>4, <1>11, <1>12 DEF RtcSession, Fresh, TakenOnce, Unanswered
  <2>2. seen' = seen
    BY <1>3, <1>12 DEF R!TakeOffer
  <2>3. Fresh(s)' /\ Unanswered(s)' /\ TakenOnce(s)' /\ Over(s)'
    BY <1>2, <1>11, <2>1, <2>2 DEF Fresh, Unanswered, TakenOnce, Over
  <2> QED BY <1>11, <2>3 DEF RtcSession
<1>13. ASSUME t = "rtc_ticket" PROVE RtcSession(s)'
  <2>1. Signing(s) /\ client[s] # "new"
    BY <1>4, <1>11, <1>13 DEF RtcSession, Fresh, Signing
  <2>2. ag' = ag /\ seen' = seen /\ auth'[s] = (ag[s] = "open")
    BY <1>1, <1>3, <1>13 DEF R!TakeTicket, RtcTypes
  <2>3. Fresh(s)' /\ Unanswered(s)' /\ TakenOnce(s)' /\ Over(s)'
    BY <1>2, <1>11, <2>1, <2>2 DEF RtcSession, Fresh, Unanswered, TakenOnce, Over
  <2> QED BY <1>11, <2>3 DEF RtcSession
<1>14. ASSUME t = "rtc_cancel" PROVE RtcSession(s)'
  <2>1. Queued(toAgent, "rtc_cancel", s) /\ client[s] # "new" /\ ~Queued(toAgent', "rtc_offer", s)
    BY <1>4, <1>11, <1>14 DEF RtcSession, Fresh
  <2>2. ag'[s] = (IF ag[s] = "made" THEN "made" ELSE "none") /\ ~auth'[s]
    BY <1>1, <1>3, <1>14 DEF R!TakeCancel, RtcTypes
  <2>3. Fresh(s)' /\ Unanswered(s)' /\ TakenOnce(s)' /\ Over(s)'
    BY <1>2, <1>11, <2>1, <2>2 DEF RtcSession, Fresh, Unanswered, TakenOnce, Over
  <2> QED BY <1>11, <2>3 DEF RtcSession
<1> QED BY <1>3, <1>7, <1>9, <1>10, <1>12, <1>13, <1>14 DEF RtcInv

\* What the Agent does by itself.
LEMMA RtcActs ==
  ASSUME RtcInv, NEW s \in Sid, R!Prepare(s) \/ R!Install(s) \/ R!Drop(s) \/ R!Exchange(s) \/ R!Return(s)
  PROVE  RtcInv'
<1>1. R!AgentStep(s) /\ RtcTypes /\ RtcSocket /\ RtcOwners /\ \A u \in Sid : RtcSession(u)
  BY RtcAgentFrame DEF RtcInv, R!AgentStep
<1>2. UNCHANGED <<sock, socks, client, rtcRow, rtcOwner, took, signing, signed, rtcRevoked, toAgent, on, seen>>
  BY <1>1, RtcAgentFrame DEF R!Prepare, R!Install, R!Drop, R!Exchange, R!Return, R!socket
<1>3. PICK t \in {"rtc_answer", "rtc_claim", "desktop"} :
        /\ toHub' = toHub \/ R!ToHub(R!Frame(t, s))
        /\ t = "rtc_answer" => R!Install(s) /\ ag[s] = "made"
  <2>1. CASE R!Install(s)
    BY <2>1 DEF R!Install
  <2>2. CASE R!Prepare(s) \/ R!Drop(s) \/ R!Exchange(s)
    BY <2>2 DEF R!Prepare, R!Drop, R!Exchange, R!socket
  <2>3. CASE R!Return(s)
    BY <2>3 DEF R!Return
  <2> QED BY <2>1, <2>2, <2>3
<1>4. /\ toHub' \in Seq(RtcFrames) /\ (sock = 0 => toHub' = toHub)
      /\ \A u \in Sid : Queued(toHub', "rtc_answer", u) =>
            Queued(toHub, "rtc_answer", u) \/ (u = s /\ t = "rtc_answer")
  <2>1. CASE toHub' = toHub
    BY <1>1, <2>1 DEF RtcTypes
  <2>2. CASE R!ToHub(R!Frame(t, s))
    BY <1>1, <2>2, FrameType, ToHubAdds, FramesDiffer
  <2> QED BY <1>3, <2>1, <2>2
<1>5. /\ \E x \in {"none", "made", "open"} : ag' = [ag EXCEPT ![s] = x] \/ ag' = ag
      /\ auth' = [auth EXCEPT ![s] = FALSE] \/ auth' = auth
      /\ ag'[s] = "made" => ag[s] \in {"pending", "made"}
      /\ ag'[s] = "pending" => ag[s] = "pending"
      /\ ag'[s] # "none" => ag[s] # "none"
      /\ ag'[s] = "open" => ag[s] = "open" \/ (ag[s] = "made" /\ R!SameSocket(s))
  BY <1>1 DEF R!Prepare, R!Install, R!Drop, R!Exchange, R!Return, RtcTypes
<1>6. RtcTypes' /\ RtcOwners'
  <2>1. ag' \in [Sid -> {"none", "pending", "made", "open"}] /\ auth' \in [Sid -> BOOLEAN]
    BY <1>1, <1>5 DEF RtcTypes
  <2> QED BY <1>1, <1>2, <1>4, <2>1 DEF RtcTypes, RtcOwners, R!OwnAnswers
<1>7. RtcSocket'
  <2>1. \A u \in Sid : ag'[u] \in {"pending", "open"} =>
           ag[u] \in {"pending", "open"} \/ (u = s /\ R!SameSocket(s))
    BY <1>1, <1>5 DEF RtcTypes
  <2> QED BY <1>1, <1>2, <1>4, <2>1 DEF RtcSocket, R!LivesOnItsSocket, R!SameSocket
<1>8. \A u \in Sid : Ordered(u)'
  BY <1>1, <1>2, OrderSame DEF RtcSession
<1>9. ASSUME NEW u \in Sid, u # s PROVE RtcSession(u)'
  <2>1. ag'[u] = ag[u] /\ auth'[u] = auth[u]
    BY <1>1, <1>5, <1>9 DEF RtcTypes
  <2> QED BY <1>1, <1>2, <1>4, <1>8, <1>9, <2>1, RtcAgentOthers
<1>10. CASE Queued(toHub', "rtc_answer", s) => Queued(toHub, "rtc_answer", s)
  <2>1. auth'[s] => auth[s]
    BY <1>1, <1>5 DEF RtcTypes
  <2>2. Quiet(s)
    BY <1>2, <1>5, <1>8, <1>10, <2>1 DEF Quiet, Signing
  <2> QED BY <1>1, <1>6, <1>7, <1>9, <2>2, QuietKeeps DEF RtcInv
<1>11. CASE ~(Queued(toHub', "rtc_answer", s) => Queued(toHub, "rtc_answer", s))
  <2>1. ag[s] = "made" /\ ag'[s] \notin {"pending", "made"} /\ ~Queued(toAgent, "rtc_offer", s) /\ client[s] # "new"
    <3>1. R!Install(s) /\ ag[s] = "made"
      BY <1>3, <1>4, <1>11
    <3>2. ag'[s] \in {"open", "none"}
      BY <1>1, <3>1 DEF R!Install, RtcTypes
    <3> QED BY <1>1, <3>1, <3>2 DEF RtcSession, TakenOnce, Fresh
  <2>2. auth'[s] => auth[s]
    BY <1>1, <1>5 DEF RtcTypes
  <2>3. Fresh(s)' /\ Unanswered(s)' /\ TakenOnce(s)' /\ Over(s)'
    BY <1>1, <1>2, <2>1, <2>2 DEF RtcSession, Fresh, Unanswered, TakenOnce, Over, Signing
  <2> QED BY <1>6, <1>7, <1>8, <1>9, <2>3 DEF RtcInv, RtcSession
<1> QED BY <1>10, <1>11

\* The socket comes and goes, the identity is revoked, and somebody asks for a desktop or a beat.
LEMMA RtcAllKeep ==
  ASSUME RtcInv,
         \/ R!Disconnect \/ R!Connect \/ R!TokenReset \/ R!Revoke \/ R!Forget
         \/ R!AskDesktop \/ R!AskBeat \/ R!AgentAnswers \/ R!NoteDesktop \/ R!NoteBeat \/ R!AskTimeout
  PROVE  RtcInv'
<1>1. RtcTypes /\ RtcSocket /\ RtcOwners /\ \A u \in Sid : RtcSession(u)
  BY DEF RtcInv
<1>2. UNCHANGED <<client, rtcRow, rtcOwner, took, signing, signed, on, seen>>
  BY DEF R!Disconnect, R!Connect, R!TokenReset, R!Revoke, R!Forget, R!AskDesktop, R!AskBeat, R!AgentAnswers,
         R!NoteDesktop, R!NoteBeat, R!AskTimeout, R!socket, R!hub, R!agent
<1>3. CASE R!Disconnect \/ R!Revoke
  <2>1. toAgent' = <<>> /\ toHub' = <<>> /\ sock' = 0 /\ socks' = socks
        /\ ag' = [s \in Sid |-> IF ag[s] = "made" THEN "made" ELSE "none"]
        /\ auth' = [s \in Sid |-> FALSE]
    BY <1>3 DEF R!Disconnect, R!Revoke, R!TakeAll
  <2>2. RtcTypes' /\ RtcOwners' /\ RtcSocket'
    BY <1>1, <1>2, <2>1 DEF RtcTypes, RtcOwners, RtcSocket, R!OwnAnswers, R!LivesOnItsSocket
  <2>3. ASSUME NEW u \in Sid PROVE RtcSession(u)'
    <3>1. Ordered(u)'
      BY <2>1 DEF Ordered
    <3> QED BY <1>1, <1>2, <2>1, <3>1, NoFrames, AsideQuiet
  <2> QED BY <2>2, <2>3 DEF RtcInv
<1>4. CASE ~(R!Disconnect \/ R!Revoke)
  <2>1. UNCHANGED <<ag, auth, rtcRevoked>>
    BY <1>4 DEF R!Connect, R!TokenReset, R!Forget, R!AskDesktop, R!AskBeat, R!AgentAnswers,
                R!NoteDesktop, R!NoteBeat, R!AskTimeout, R!agent
  <2>2. \/ UNCHANGED <<sock, socks>>
        \/ sock = 0 /\ ~rtcRevoked /\ socks' = socks + 1 /\ sock' = socks' /\ UNCHANGED <<toAgent, toHub>>
    BY <1>4 DEF R!Connect, R!TokenReset, R!Forget, R!AskDesktop, R!AskBeat, R!AgentAnswers,
                R!NoteDesktop, R!NoteBeat, R!AskTimeout, R!socket
  <2>3. /\ toAgent' \in Seq(RtcFrames) /\ (sock = 0 => toAgent' = toAgent)
        /\ \A u \in Sid : Ordered(u)'
        /\ \A u \in Sid, t \in {"rtc_offer", "rtc_cancel", "rtc_ticket"} : Queued(toAgent', t, u) => Queued(toAgent, t, u)
    <3>1. CASE toAgent' = toAgent
      BY <1>1, <3>1, OrderSame DEF RtcTypes, RtcSession
    <3>2. CASE R!FromHub("desktop_action", R!NoSid) \/ R!FromHub("ask_heartbeat", R!NoSid)
      BY <1>1, <3>2, FromHubTakes DEF Fewer, RtcSession
    <3>3. ASSUME NEW t \in {"desktop_action", "ask_heartbeat"}, R!ToAgent(R!Frame(t, R!NoSid))
          PROVE  /\ toAgent' \in Seq(RtcFrames) /\ (sock = 0 => toAgent' = toAgent)
                 /\ \A u \in Sid : Ordered(u)'
                 /\ \A u \in Sid, t2 \in {"rtc_offer", "rtc_cancel", "rtc_ticket"} :
                        Queued(toAgent', t2, u) => Queued(toAgent, t2, u)
      <4>1. R!Frame(t, R!NoSid) \in RtcFrames
        BY FrameType
      <4>2. /\ toAgent' \in Seq(RtcFrames) /\ (sock = 0 => toAgent' = toAgent)
            /\ \A t2, u : Queued(toAgent', t2, u) => Queued(toAgent, t2, u) \/ R!Frame(t, R!NoSid) = R!Frame(t2, u)
        BY <1>1, <3>3, <4>1, ToAgentAdds
      <4>3. ASSUME NEW u \in Sid PROVE Ordered(u)'
        <5>1. R!Frame(t, R!NoSid) # R!Frame("rtc_offer", u)
          BY FramesDiffer
        <5>2. toAgent \in Seq(RtcFrames) /\ Ordered(u)
          BY <1>1 DEF RtcTypes, RtcSession
        <5> QED BY <3>3, <4>1, <5>1, <5>2, OrderAdded
      <4>4. ASSUME NEW u \in Sid, NEW t2 \in {"rtc_offer", "rtc_cancel", "rtc_ticket"}, Queued(toAgent', t2, u)
            PROVE  Queued(toAgent, t2, u)
        BY <4>2, <4>4, FramesDiffer
      <4> QED BY <4>2, <4>3, <4>4
    <3> QED BY <1>4, <3>1, <3>2, <3>3
            DEF R!Connect, R!TokenReset, R!Forget, R!AskDesktop, R!AskBeat, R!AgentAnswers,
                R!NoteDesktop, R!NoteBeat, R!AskTimeout, R!socket
  <2>4. /\ toHub' \in Seq(RtcFrames) /\ (sock = 0 => toHub' = toHub)
        /\ \A u \in Sid : Queued(toHub', "rtc_answer", u) => Queued(toHub, "rtc_answer", u)
    <3>1. CASE toHub' = toHub
      BY <1>1, <3>1 DEF RtcTypes
    <3>2. CASE R!FromAgent("desktop", R!NoSid) \/ R!FromAgent("heartbeat", R!NoSid)
      BY <1>1, <3>2, FromAgentTakes DEF Fewer
    <3>3. CASE R!ToHub(R!Frame("desktop", R!NoSid)) \/ R!ToHub(R!Frame("heartbeat", R!NoSid))
      BY <1>1, <3>3, FrameType, ToHubAdds, FramesDiffer
    <3> QED BY <1>4, <3>1, <3>2, <3>3
            DEF R!Connect, R!TokenReset, R!Forget, R!AskDesktop, R!AskBeat, R!AgentAnswers,
                R!NoteDesktop, R!NoteBeat, R!AskTimeout, R!socket
  <2>5. RtcTypes' /\ RtcOwners'
    <3>1. socks' \in Nat
      BY <1>1, <2>2 DEF RtcTypes
    <3> QED BY <1>1, <1>2, <2>1, <2>3, <2>4, <3>1 DEF RtcTypes, RtcOwners, R!OwnAnswers
  <2>6. RtcSocket'
    <3>1. CASE UNCHANGED <<sock, socks>>
      BY <1>1, <1>2, <2>1, <2>3, <2>4, <3>1 DEF RtcSocket, R!LivesOnItsSocket
    <3>2. CASE sock = 0 /\ ~rtcRevoked /\ socks' = socks + 1 /\ sock' = socks' /\ UNCHANGED <<toAgent, toHub>>
      BY <1>1, <1>2, <2>1, <3>2 DEF RtcTypes, RtcSocket, R!LivesOnItsSocket
    <3> QED BY <2>2, <3>1, <3>2
  <2>7. \A u \in Sid : RtcSession(u)'
    BY <1>1, <1>2, <2>1, <2>3, <2>4, AsideQuiet
  <2> QED BY <2>5, <2>6, <2>7 DEF RtcInv
<1> QED BY <1>3, <1>4

LEMMA RtcStarts == R!Init => RtcInv
<1> SUFFICES ASSUME R!Init PROVE RtcInv
  OBVIOUS
<1>1. RtcTypes /\ RtcSocket /\ RtcOwners
  BY DEF R!Init, RtcTypes, RtcSocket, RtcOwners, R!OwnAnswers, R!LivesOnItsSocket
<1>2. ASSUME NEW u \in Sid PROVE RtcSession(u)
  BY NoFrames DEF R!Init, RtcSession, Ordered, Fresh, Unanswered, TakenOnce, Over, Signing
<1> QED BY <1>1, <1>2 DEF RtcInv

LEMMA RtcStep == RtcInv /\ [R!Next]_rtcVars => RtcInv'
<1> SUFFICES ASSUME RtcInv, [R!Next]_rtcVars PROVE RtcInv'
  OBVIOUS
<1>1. CASE UNCHANGED rtcVars
  BY <1>1 DEF rtcVars, RtcInv, RtcTypes, RtcSocket, RtcOwners, RtcSession, R!OwnAnswers, R!LivesOnItsSocket,
              Ordered, Fresh, Unanswered, TakenOnce, Over, Signing, Queued
<1>2. CASE R!Next
  BY <1>2, RtcHubKeeps, RtcTellKeeps, RtcTakeKeeps, RtcReads, RtcActs, RtcAllKeep
     DEF R!Next, R!HubStep, R!AgentStep
<1> QED BY <1>1, <1>2

\* A cancel is for a session.
LEMMA SeenSids == seen \in SUBSET Sid /\ [R!Next]_rtcVars => (seen \in SUBSET Sid)'
<1> SUFFICES ASSUME seen \in SUBSET Sid, [R!Next]_rtcVars PROVE seen' \in SUBSET Sid
  OBVIOUS
<1>1. ASSUME NEW s \in Sid, R!HubStep(s) PROVE seen' = seen
  BY <1>1 DEF R!HubStep, R!Offer, R!Poll, R!Cancel, R!Answered, R!Sign, R!Store, R!Closed, R!Expire,
              R!Claim, R!Remember, R!agent
<1>2. ASSUME NEW s \in Sid, R!AgentStep(s) PROVE seen' \in {seen, seen \cup {s}}
  BY <1>2 DEF R!AgentStep, R!TakeOffer, R!Prepare, R!Install, R!TakeTicket, R!TakeCancel, R!Drop,
              R!Exchange, R!Return
<1>3. ASSUME NEW s \in Sid, NEW o \in Operators, R!Take(o, s) PROVE seen' = seen
  BY <1>3 DEF R!Take, R!agent
<1>4. ASSUME \/ R!Disconnect \/ R!Connect \/ R!TokenReset \/ R!Revoke \/ R!Forget
             \/ R!AskDesktop \/ R!AskBeat \/ R!AgentAnswers \/ R!NoteDesktop \/ R!NoteBeat \/ R!AskTimeout
      PROVE seen' = seen
  BY <1>4 DEF R!Disconnect, R!Connect, R!TokenReset, R!Revoke, R!Forget, R!AskDesktop, R!AskBeat,
              R!AgentAnswers, R!NoteDesktop, R!NoteBeat, R!AskTimeout, R!agent
<1>5. CASE UNCHANGED rtcVars
  BY <1>5 DEF rtcVars
<1> QED BY <1>1, <1>2, <1>3, <1>4, <1>5 DEF R!Next

LEMMA RtcSound == RtcInv /\ seen \in SUBSET Sid => RtcIsSound
  BY DEF RtcInv, RtcSocket, RtcOwners, RtcSession, Over, RtcIsSound, R!CancelHolds, RtcTypes

\* For every number of attempts, operators and sockets: no cancelled connection is authorized, a
\* session lives on the socket of its offer, and an answer goes to the operator whose call it was.
THEOREM RtcHolds == R!Spec => [](RtcInv /\ seen \in SUBSET Sid)
<1>1. R!Init => RtcInv /\ seen \in SUBSET Sid
  BY RtcStarts DEF R!Init
<1>2. RtcInv /\ seen \in SUBSET Sid /\ [R!Next]_R!vars => (RtcInv /\ seen \in SUBSET Sid)'
  BY RtcStep, SeenSids DEF R!vars, R!socket, R!hub, R!agent, rtcVars
<1> QED BY <1>1, <1>2, PTL DEF R!Spec

\* The same where the other ways to a result run beside it.
THEOREM RtcIsSoundHolds == ResultsSpec => []RtcIsSound
<1>1. ResultsInit => RtcInv /\ seen \in SUBSET Sid
  BY RtcStarts DEF ResultsInit, R!Init
<1>2. RtcInv /\ seen \in SUBSET Sid /\ [ResultsNext]_<<vars, resultVars>>
        => (RtcInv /\ seen \in SUBSET Sid)'
  BY RtcStep, SeenSids DEF ResultsNext, OneOf, resultVars
<1> QED BY <1>1, <1>2, RtcSound, PTL DEF ResultsSpec

-----------------------------------------------------------------------------
(* The results of HubResults.  No request_id comes with another command: a     *)
(* conflict leaves a row that a late frame may take the owner from.            *)

HubOwners == H!Caller \cup {H!NoOwner}
RowStates == {"none", "pending", "running", "done", "unknown"}
HubRows == [st : RowStates, owner : HubOwners]
HubEntries == [on : BOOLEAN, reading : BOOLEAN, heard : BOOLEAN, timer : BOOLEAN, snap : RowStates, row : RowStates]
HubCalls == [pc : {"free", "body", "ready", "waiting"}, op : H!Caller,
             kind : {"none", "run", "plugin", "look", "result"}, corr : Corr \cup {"none"}, kid : Nat,
             fresh : BOOLEAN, blind : BOOLEAN, reply : RowStates \cup {"denied", "offline"}]
AgentFrames == {"accepted", "done", "unknown"} \X Corr
AskedFrames == {"run", "get_result"} \X Corr \X H!Caller

HubTypes ==
    /\ opOf \in [Corr -> H!Caller] /\ kid \in Nat /\ runs \in Nat
    /\ own \in [Corr -> HubOwners] /\ claimed \in [Corr -> HubOwners] /\ res \in [Corr -> HubRows]
    /\ job \in [Corr -> {"none", "running", "done"}]
    /\ wire \in Seq(AgentFrames) /\ asked \in Seq(AskedFrames)
    /\ call \in [Call -> HubCalls] /\ entry \in [Corr -> HubEntries]

\* A caller that waits is in an entry, and an entry is being read or has its timer.
HubWaiters ==
    /\ \A k \in Call : call[k].pc # "free" \/ call[k].reply # "none" => call[k].corr \in Corr
    /\ \A k \in Call : call[k].pc = "waiting" => entry[call[k].corr].on
    /\ \A c \in Corr : entry[c].on => entry[c].reading \/ entry[c].timer

\* What is on its way to and from the device of a correlation.
NoSaid(c)  == \A i \in DOMAIN wire : wire[i][2] # c
NoAsked(c) == \A i \in DOMAIN asked : asked[i][2] # c
OnlyUnknown(c) == \A i \in DOMAIN wire : wire[i][2] = c => wire[i][1] = "unknown"
OnlyOthers(c)  == \A i \in DOMAIN asked : asked[i][2] = c => asked[i][1] = "get_result" /\ asked[i][3] # claimed[c]

\* A correlation is its operator's, or was never given out.
HubOwner(c) ==
    /\ opOf[c] # Anon => claimed[c] \in {H!NoOwner, opOf[c]}
    /\ own[c] \in {H!NoOwner, claimed[c]} /\ res[c].owner \in {H!NoOwner, claimed[c]}
    /\ res[c].owner # H!NoOwner => H!IsDone(res[c].st)
    /\ claimed[c] = H!NoOwner => res[c] = H!NoRow /\ job[c] = "none" /\ NoSaid(c) /\ NoAsked(c)

\* When all that named the operator has expired, nothing is on its way that makes a row again.
Forgotten(c) == claimed[c] \notin {H!NoOwner, Anon} /\ H!CorrOwner(c) = H!NoOwner
HubForgotten(c) ==
    Forgotten(c) => res[c].st \in {"none", "unknown"} /\ job[c] # "running" /\ OnlyUnknown(c) /\ OnlyOthers(c)

\* What a request that is not answered yet may do.
HubAsks(k) ==
    call[k].pc \in {"body", "ready"} =>
        LET c == call[k].corr IN
        /\ call[k].kind \in {"run", "plugin"} /\ opOf[c] # Anon => opOf[c] = call[k].op /\ call[k].kind = "run"
        /\ call[k].kind \in {"look", "result"} =>
               claimed[c] # H!NoOwner \/ (opOf[c] = call[k].op /\ call[k].op # Anon)
        /\ call[k].pc = "ready" => call[k].fresh

\* Whose job the answers are of.
HubHears(k) ==
    /\ call[k].pc = "waiting" /\ ~call[k].blind => claimed[call[k].corr] = call[k].op
    /\ call[k].reply \in {"running", "conflict", "done"} /\ ~call[k].blind => claimed[call[k].corr] = call[k].op

HubInv ==
    /\ HubTypes /\ HubWaiters
    /\ \A c \in Corr : HubOwner(c) /\ HubForgotten(c)
    /\ \A k \in Call : HubAsks(k) /\ HubHears(k)

\* What is on its way of a correlation is no more than it was.
LessOnItsWay(c) ==
    /\ NoSaid(c) => NoSaid(c)'
    /\ OnlyUnknown(c) => OnlyUnknown(c)'
    /\ NoAsked(c) => NoAsked(c)'
    /\ OnlyOthers(c) => OnlyOthers(c)'
ClaimedStays == \A c \in Corr : claimed'[c] = claimed[c] \/ claimed[c] = H!NoOwner

LEMMA SayLess ==
  ASSUME wire \in Seq(AgentFrames), NEW c, wire' \in {wire, <<>>} \/ (wire # <<>> /\ wire' = Tail(wire))
  PROVE  (NoSaid(c) => NoSaid(c)') /\ (OnlyUnknown(c) => OnlyUnknown(c)') /\ wire' \in Seq(AgentFrames)
<1>1. CASE wire' \in {wire, <<>>}
  <2>1. CASE wire' = wire
    BY <2>1 DEF NoSaid, OnlyUnknown
  <2>2. CASE wire' = <<>>
    <3>1. wire' \in Seq(AgentFrames) /\ Len(wire') = 0
      BY <2>2
    <3> QED BY <3>1 DEF NoSaid, OnlyUnknown
  <2> QED BY <1>1, <2>1, <2>2
<1>2. CASE wire # <<>> /\ wire' = Tail(wire)
  <2>1. wire' \in Seq(AgentFrames) /\ \A i \in DOMAIN wire' : i + 1 \in DOMAIN wire /\ wire'[i] = wire[i + 1]
    BY <1>2
  <2> QED BY <2>1 DEF NoSaid, OnlyUnknown
<1> QED BY <1>1, <1>2

LEMMA AskLess ==
  ASSUME asked \in Seq(AskedFrames), NEW c, asked' \in {asked, <<>>} \/ (asked # <<>> /\ asked' = Tail(asked)),
         claimed'[c] = claimed[c]
  PROVE  (NoAsked(c) => NoAsked(c)') /\ (OnlyOthers(c) => OnlyOthers(c)') /\ asked' \in Seq(AskedFrames)
<1>1. CASE asked' \in {asked, <<>>}
  <2>1. CASE asked' = asked
    BY <2>1 DEF NoAsked, OnlyOthers
  <2>2. CASE asked' = <<>>
    <3>1. asked' \in Seq(AskedFrames) /\ Len(asked') = 0
      BY <2>2
    <3> QED BY <3>1 DEF NoAsked, OnlyOthers
  <2> QED BY <1>1, <2>1, <2>2
<1>2. CASE asked # <<>> /\ asked' = Tail(asked)
  <2>1. asked' \in Seq(AskedFrames) /\ \A i \in DOMAIN asked' : i + 1 \in DOMAIN asked /\ asked'[i] = asked[i + 1]
    BY <1>2
  <2> QED BY <2>1 DEF NoAsked, OnlyOthers
<1> QED BY <1>1, <1>2

LEMMA SayMore ==
  ASSUME wire \in Seq(AgentFrames), NEW x \in {"accepted", "done", "unknown"}, NEW u \in Corr,
         wire' = Append(wire, <<x, u>>), NEW c
  PROVE  /\ wire' \in Seq(AgentFrames)
         /\ c # u => (NoSaid(c) => NoSaid(c)')
         /\ c # u \/ x = "unknown" => (OnlyUnknown(c) => OnlyUnknown(c)')
<1> DEFINE w == <<x, u>>
<1>1. w \in AgentFrames /\ w[1] = x /\ w[2] = u
  BY DEF AgentFrames
<1>2. wire' \in Seq(AgentFrames) /\ Len(wire') = Len(wire) + 1 /\ wire'[Len(wire) + 1] = w
      /\ \A i \in 1 .. Len(wire) : wire'[i] = wire[i]
  BY <1>1
<1>3. DOMAIN wire = 1 .. Len(wire) /\ DOMAIN wire' = 1 .. (Len(wire) + 1)
  BY <1>2
<1> HIDE DEF w
<1> QED BY <1>1, <1>2, <1>3 DEF NoSaid, OnlyUnknown

LEMMA AskMore ==
  ASSUME asked \in Seq(AskedFrames), NEW x \in {"run", "get_result"}, NEW u \in Corr, NEW o \in H!Caller,
         asked' = Append(asked, <<x, u, o>>), NEW c, claimed'[c] = claimed[c]
  PROVE  /\ asked' \in Seq(AskedFrames)
         /\ c # u => (NoAsked(c) => NoAsked(c)')
         /\ c # u \/ (x = "get_result" /\ o # claimed[c]) => (OnlyOthers(c) => OnlyOthers(c)')
<1> DEFINE w == <<x, u, o>>
<1>1. w \in AskedFrames /\ w[1] = x /\ w[2] = u /\ w[3] = o
  BY DEF AskedFrames
<1>2. asked' \in Seq(AskedFrames) /\ Len(asked') = Len(asked) + 1 /\ asked'[Len(asked) + 1] = w
      /\ \A i \in 1 .. Len(asked) : asked'[i] = asked[i]
  BY <1>1
<1>3. DOMAIN asked = 1 .. Len(asked) /\ DOMAIN asked' = 1 .. (Len(asked) + 1)
  BY <1>2
<1> HIDE DEF w
<1> QED BY <1>1, <1>2, <1>3 DEF NoAsked, OnlyOthers

\* A correlation that a step leaves alone.
LEMMA HubRowKept ==
  ASSUME NEW c \in Corr, HubOwner(c), HubForgotten(c), LessOnItsWay(c),
         opOf' = opOf, own'[c] = own[c], res'[c] = res[c], claimed'[c] = claimed[c], job'[c] = job[c]
  PROVE  HubOwner(c)' /\ HubForgotten(c)'
  BY DEF HubOwner, HubForgotten, Forgotten, H!CorrOwner, LessOnItsWay

\* A request that a step leaves alone.
LEMMA HubCallKept ==
  ASSUME HubTypes, HubWaiters, NEW k \in Call, HubAsks(k), HubHears(k), call'[k] = call[k], opOf' = opOf, ClaimedStays
  PROVE  HubAsks(k)' /\ HubHears(k)'
<1>1. call[k] \in HubCalls /\ call[k].op # H!NoOwner
  BY HubAssumption DEF HubTypes, HubCalls, H!Caller
<1>2. HubAsks(k)'
  BY <1>1 DEF HubAsks, HubWaiters, ClaimedStays
<1>3. call[k].reply \in {"running", "conflict", "done"} \/ call[k].pc = "waiting" => call[k].corr \in Corr
  BY DEF HubWaiters
<1>4. HubHears(k)'
  BY <1>1, <1>3 DEF HubHears, ClaimedStays
<1> QED BY <1>2, <1>4

\* A request that is over with its answer.
LEMMA HubSaid ==
  ASSUME HubTypes, NEW k \in Call, NEW x, call'[k] = H!Said(call[k], x),
         x \in {"running", "conflict", "done"} /\ ~call[k].blind => claimed'[call[k].corr] = call[k].op
  PROVE  HubAsks(k)' /\ HubHears(k)'
<1>1. /\ call'[k].pc = "free" /\ call'[k].reply = x /\ call'[k].blind = call[k].blind
      /\ call'[k].op = call[k].op /\ call'[k].corr = call[k].corr
  BY DEF H!Said, H!Free
<1> QED BY <1>1 DEF HubAsks, HubHears

LEMMA SaidTyped ==
  ASSUME NEW r \in HubCalls, NEW x \in RowStates \cup {"denied", "offline"}
  PROVE  H!Said(r, x) \in HubCalls
  BY DEF H!Said, H!Free, HubCalls, H!Caller

\* A step that leaves the rows and the owners as they are.
LEMMA HubStill ==
  ASSUME HubInv, UNCHANGED <<opOf, job, own, res, claimed>>, wire' \in {wire, <<>>}, asked' \in {asked, <<>>}
  PROVE  /\ wire' \in Seq(AgentFrames) /\ asked' \in Seq(AskedFrames) /\ ClaimedStays
         /\ \A c \in Corr : HubOwner(c)' /\ HubForgotten(c)'
<1>1. ASSUME NEW c \in Corr PROVE LessOnItsWay(c) /\ wire' \in Seq(AgentFrames) /\ asked' \in Seq(AskedFrames)
  BY SayLess, AskLess DEF HubInv, HubTypes, LessOnItsWay
<1>2. ASSUME NEW c \in Corr PROVE HubOwner(c)' /\ HubForgotten(c)'
  BY <1>1, HubRowKept DEF HubInv
<1>3. wire' \in Seq(AgentFrames) /\ asked' \in Seq(AskedFrames)
  <2>1. <<>> \in Seq(AgentFrames) /\ <<>> \in Seq(AskedFrames)
    OBVIOUS
  <2>2. wire \in Seq(AgentFrames) /\ asked \in Seq(AskedFrames)
    BY DEF HubInv, HubTypes
  <2> QED BY <2>1, <2>2
<1> QED BY <1>2, <1>3 DEF ClaimedStays

\* A step of one request, which is k.
LEMMA HubOneCall ==
  ASSUME HubInv, opOf' = opOf, ClaimedStays, NEW k \in Call, NEW r \in HubCalls, call' = [call EXCEPT ![k] = r],
         HubAsks(k)', HubHears(k)'
  PROVE  /\ \A j \in Call : HubAsks(j)' /\ HubHears(j)'
         /\ call' \in [Call -> HubCalls] /\ call'[k] = r /\ \A j \in Call \ {k} : call'[j] = call[j]
<1>1. call' \in [Call -> HubCalls] /\ call'[k] = r /\ \A j \in Call \ {k} : call'[j] = call[j]
  BY DEF HubInv, HubTypes
<1>2. ASSUME NEW j \in Call \ {k} PROVE HubAsks(j)' /\ HubHears(j)'
  BY <1>1, <1>2, HubCallKept DEF HubInv
<1> QED BY <1>1, <1>2

\* resolveActor.
LEMMA HubAuthenticates ==
  ASSUME HubInv, NEW k \in Call, NEW o \in H!Caller, NEW x \in {"run", "plugin", "look", "result"}, NEW c \in Corr,
         H!Authenticate(k, o, x, c)
  PROVE  HubInv'
<1> DEFINE r == [H!Free EXCEPT !.pc = "body", !.op = o, !.kind = x, !.corr = c, !.kid = kid]
<1>1. /\ r \in HubCalls /\ r.pc = "body" /\ r.op = o /\ r.kind = x /\ r.corr = c /\ r.reply = "none" /\ ~r.blind
      /\ call' = [call EXCEPT ![k] = r]
      /\ UNCHANGED <<opOf, kid, up, job, wire, asked, own, res, entry, claimed, runs, reads>>
      /\ x \in {"run", "plugin"} => IF opOf[c] = Anon THEN claimed[c] = H!NoOwner ELSE opOf[c] = o /\ x = "run"
      /\ x \in {"look", "result"} => claimed[c] # H!NoOwner \/ (opOf[c] = o /\ o # Anon)
  BY DEF H!Authenticate, H!Free, HubCalls, HubInv, HubTypes, H!Caller, RowStates
<1> HIDE DEF r
<1>2. call'[k] = r
  BY <1>1 DEF HubInv, HubTypes
<1>3. HubAsks(k)' /\ HubHears(k)'
  BY <1>1, <1>2 DEF HubAsks, HubHears
<1>4. ClaimedStays /\ \A u \in Corr : HubOwner(u)' /\ HubForgotten(u)'
  BY <1>1, HubStill
<1>5. (\A j \in Call : HubAsks(j)' /\ HubHears(j)') /\ call' \in [Call -> HubCalls]
      /\ \A j \in Call \ {k} : call'[j] = call[j]
  BY <1>1, <1>3, <1>4, HubOneCall
<1>6. HubTypes' /\ HubWaiters'
  BY <1>1, <1>2, <1>5 DEF HubInv, HubTypes, HubWaiters
<1> QED BY <1>4, <1>5, <1>6 DEF HubInv

\* The body is there, and the token is asked about once more.
LEMMA HubBodyRead ==
  ASSUME HubInv, NEW k \in Call, H!BodyRead(k), H!Revalidated(k)
  PROVE  HubInv'
<1> DEFINE r == [call[k] EXCEPT !.pc = "ready", !.fresh = (call[k].kid = kid)]
<1>1. call[k] \in HubCalls /\ call[k].pc = "body" /\ call[k].kid = kid /\ call[k].corr \in Corr
  BY DEF H!BodyRead, H!Revalidated, HubInv, HubTypes, HubWaiters
<1>2. /\ r \in HubCalls /\ r.pc = "ready" /\ r.op = call[k].op /\ r.kind = call[k].kind /\ r.corr = call[k].corr
      /\ r.reply = call[k].reply /\ r.blind = call[k].blind /\ r.fresh
      /\ UNCHANGED <<opOf, kid, up, job, wire, asked, own, res, entry, claimed, runs, reads>>
  BY <1>1 DEF H!BodyRead, HubCalls
<1>3. call' = [call EXCEPT ![k] = r]
  <2>1. call' = [call EXCEPT ![k].pc = "ready", ![k].fresh = (call[k].kid = kid)]
    BY DEF H!BodyRead
  <2>2. call \in [Call -> HubCalls]
    BY DEF HubInv, HubTypes
  <2> QED BY <2>1, <2>2
<1> HIDE DEF r
<1>4. call'[k] = r
  BY <1>3 DEF HubInv, HubTypes
<1>5. HubAsks(k) /\ HubHears(k)
  BY DEF HubInv
<1>6. HubAsks(k)' /\ HubHears(k)'
  BY <1>1, <1>2, <1>4, <1>5 DEF HubAsks, HubHears
<1>7. ClaimedStays /\ \A u \in Corr : HubOwner(u)' /\ HubForgotten(u)'
  BY <1>2, HubStill
<1>8. (\A j \in Call : HubAsks(j)' /\ HubHears(j)') /\ call' \in [Call -> HubCalls]
      /\ \A j \in Call \ {k} : call'[j] = call[j]
  BY <1>2, <1>3, <1>6, <1>7, HubOneCall
<1>9. HubTypes' /\ HubWaiters'
  BY <1>1, <1>2, <1>4, <1>8 DEF HubInv, HubTypes, HubWaiters
<1> QED BY <1>7, <1>8, <1>9 DEF HubInv

\* A request whose answer changes no row.
LEMMA HubAnswersOnly ==
  ASSUME HubInv, NEW k \in Call, NEW x \in RowStates \cup {"denied", "offline"}, call' = H!Answer(k, x),
         call[k].pc # "free",
         UNCHANGED <<opOf, kid, up, job, wire, asked, own, res, claimed, runs>>,
         entry' \in [Corr -> HubEntries],
         \A c \in Corr : entry'[c] = entry[c] \/ entry'[c] = H!NoEntry,
         \A j \in Call \ {k} : call[j].pc = "waiting" => entry'[call[j].corr] = entry[call[j].corr],
         x \in {"running", "done"} /\ ~call[k].blind => claimed[call[k].corr] = call[k].op
  PROVE  HubInv'
<1> DEFINE r == H!Said(call[k], x)
<1>1. r \in HubCalls /\ r.pc = "free" /\ r.corr = call[k].corr /\ call[k].corr \in Corr
  BY SaidTyped DEF HubInv, HubTypes, HubWaiters, H!Said, H!Free
<1>2. call' = [call EXCEPT ![k] = r]
  BY DEF H!Answer
<1> HIDE DEF r
<1>3. call'[k] = r
  BY <1>2 DEF HubInv, HubTypes
<1>4. HubAsks(k)' /\ HubHears(k)'
  BY <1>3, HubSaid DEF r, HubInv, RowStates
<1>5. ClaimedStays /\ \A u \in Corr : HubOwner(u)' /\ HubForgotten(u)'
  BY HubStill
<1>6. (\A j \in Call : HubAsks(j)' /\ HubHears(j)') /\ call' \in [Call -> HubCalls]
      /\ \A j \in Call \ {k} : call'[j] = call[j]
  BY <1>1, <1>2, <1>4, <1>5, HubOneCall
<1>7. HubTypes'
  BY <1>6 DEF HubInv, HubTypes
<1>8. HubWaiters'
  BY <1>1, <1>3, <1>6 DEF HubInv, HubWaiters, H!NoEntry
<1> QED BY <1>5, <1>6, <1>7, <1>8 DEF HubInv

\* Whose a correlation is that has a row.
LEMMA MineIsClaimed ==
  ASSUME HubTypes, NEW c \in Corr, HubOwner(c), HubForgotten(c), NEW o \in H!Caller, H!Mine(o, c),
         res[c].st \notin {"none", "unknown"} \/ H!CorrOwner(c) # H!NoOwner
  PROVE  claimed[c] = o
  BY HubAssumption DEF HubTypes, HubOwner, HubForgotten, Forgotten, H!Mine, H!CorrOwner, H!NoRow, HubOwners, H!Caller

LEMMA HubAnswers ==
  ASSUME HubInv, NEW k \in Call,
         \/ H!BodyRead(k) /\ ~H!Revalidated(k)
         \/ H!Offline(k, "run") \/ H!Offline(k, "plugin")
         \/ H!Look(k)
         \/ H!WaitOver(k)
  PROVE  HubInv'
<1>1. call[k] \in HubCalls /\ HubAsks(k) /\ HubHears(k)
  BY DEF HubInv, HubTypes
<1>2. CASE H!BodyRead(k) /\ ~H!Revalidated(k)
  <2>1. call' = H!Answer(k, "denied") /\ call[k].pc = "body"
        /\ UNCHANGED <<opOf, kid, up, job, wire, asked, own, res, entry, claimed, runs, reads>>
    BY <1>2 DEF H!BodyRead
  <2> QED BY <2>1, HubAnswersOnly DEF HubInv, HubTypes
<1>3. CASE H!Offline(k, "run") \/ H!Offline(k, "plugin")
  <2>1. call' = H!Answer(k, "offline") /\ call[k].pc = "ready"
        /\ UNCHANGED <<opOf, kid, up, job, wire, asked, own, res, entry, claimed, runs, reads>>
    BY <1>3 DEF H!Offline, H!Ready
  <2> QED BY <2>1, HubAnswersOnly DEF HubInv, HubTypes
<1>4. CASE H!Look(k)
  <2> DEFINE x == IF H!Mine(call[k].op, call[k].corr) THEN res[call[k].corr].st ELSE "none"
  <2>1. call' = H!Answer(k, x) /\ call[k].pc = "ready" /\ call[k].corr \in Corr
        /\ UNCHANGED <<opOf, kid, up, job, wire, asked, own, res, entry, claimed, runs, reads>>
    BY <1>4 DEF H!Look, H!Ready, HubInv, HubWaiters
  <2>2. x \in RowStates
    BY <2>1 DEF HubInv, HubTypes, HubRows, RowStates
  <2>3. x \in {"running", "done"} => claimed[call[k].corr] = call[k].op
    BY <1>1, <2>1, MineIsClaimed DEF HubInv, HubCalls
  <2> HIDE DEF x
  <2> QED BY <2>1, <2>2, <2>3, HubAnswersOnly DEF HubInv, HubTypes
<1>5. CASE H!WaitOver(k)
  <2> DEFINE c == call[k].corr
  <2> DEFINE x == entry[c].row
  <2>1. call' = H!Answer(k, x) /\ call[k].pc = "waiting" /\ c \in Corr /\ H!Leaves(k, c)
        /\ UNCHANGED <<opOf, kid, up, job, wire, asked, own, res, claimed, runs, reads>>
    BY <1>5 DEF H!WaitOver, HubInv, HubWaiters
  <2>2. x \in RowStates
    BY <2>1 DEF HubInv, HubTypes, HubEntries
  <2>3. ~call[k].blind => claimed[c] = call[k].op
    BY <1>1, <2>1 DEF HubHears
  <2>4. H!NoEntry \in HubEntries
    BY DEF H!NoEntry, HubEntries, RowStates
  <2>5. entry' = [entry EXCEPT ![c] = IF H!Waiting(c) = {k} THEN H!NoEntry ELSE @]
    BY <2>1 DEF H!Leaves
  <2>6. entry' \in [Corr -> HubEntries] /\ \A u \in Corr : entry'[u] = entry[u] \/ entry'[u] = H!NoEntry
    BY <2>1, <2>4, <2>5 DEF HubInv, HubTypes
  <2>7. ASSUME NEW j \in Call \ {k}, call[j].pc = "waiting" PROVE entry'[call[j].corr] = entry[call[j].corr]
    BY <2>1, <2>5, <2>7 DEF HubInv, HubTypes, HubWaiters, H!Waiting
  <2> HIDE DEF x, c
  <2>8. x \in {"running", "done"} /\ ~call[k].blind => claimed[call[k].corr] = call[k].op
    BY <2>3 DEF c
  <2> QED BY <2>1, <2>2, <2>6, <2>7, <2>8, HubAnswersOnly
<1> QED BY <1>2, <1>3, <1>4, <1>5

\* ResultWaiters.notify, and the end of a check.
LEMMA HubNotified ==
  ASSUME HubInv, UNCHANGED <<opOf, claimed>>, NEW c \in Corr, NEW x \in RowStates, call' = H!NotifiedCalls(c, x)
  PROVE  /\ call' \in [Call -> HubCalls]
         /\ \A k \in Call : HubAsks(k)' /\ HubHears(k)'
         /\ \A k \in Call : call'[k] = call[k] \/ (call'[k].pc = "free" /\ call'[k].corr = c)
         /\ H!IsDone(x) => \A k \in Call : call'[k].pc = "waiting" => call'[k].corr # c
<1>1. ASSUME NEW k \in Call
      PROVE  /\ call[k] \in HubCalls /\ HubHears(k) /\ HubAsks(k)
             /\ call'[k] = IF H!IsDone(x) /\ k \in H!Waiting(c) THEN H!Said(call[k], x) ELSE call[k]
  BY DEF H!NotifiedCalls, HubInv, HubTypes
<1>2. call' \in [Call -> HubCalls]
  BY <1>1, SaidTyped DEF H!NotifiedCalls
<1>3. ASSUME NEW k \in Call
      PROVE  /\ HubAsks(k)' /\ HubHears(k)'
             /\ call'[k] = call[k] \/ (call'[k].pc = "free" /\ call'[k].corr = c)
             /\ H!IsDone(x) => (call'[k].pc = "waiting" => call'[k].corr # c)
  <2>1. CASE H!IsDone(x) /\ k \in H!Waiting(c)
    <3>1. call'[k] = H!Said(call[k], x) /\ call[k].pc = "waiting" /\ call[k].corr = c
      BY <1>1, <2>1 DEF H!Waiting
    <3>2. ~call[k].blind => claimed'[call[k].corr] = call[k].op
      BY <1>1, <3>1 DEF HubHears
    <3>3. HubAsks(k)' /\ HubHears(k)'
      BY <3>1, <3>2, HubSaid DEF HubInv
    <3> QED BY <3>1, <3>3 DEF H!Said, H!Free
  <2>2. CASE ~(H!IsDone(x) /\ k \in H!Waiting(c))
    <3>1. call'[k] = call[k] /\ ClaimedStays
      BY <1>1, <2>2 DEF ClaimedStays
    <3>2. HubAsks(k)' /\ HubHears(k)'
      BY <1>1, <3>1, HubCallKept DEF HubInv
    <3> QED BY <2>2, <3>1, <3>2 DEF H!Waiting
  <2> QED BY <2>1, <2>2
<1> QED BY <1>2, <1>3

\* ResultWaiters.check.
LEMMA HubChecks ==
  ASSUME HubInv, NEW c \in Corr, H!CheckEnds(c) \/ H!CheckAgain(c)
  PROVE  HubInv'
<1>1. CASE H!CheckEnds(c)
  <2>1. /\ entry[c].on /\ entry[c].reading /\ entry[c] \in HubEntries /\ entry[c].snap \in RowStates
        /\ UNCHANGED <<opOf, kid, up, job, wire, asked, own, res, claimed, runs, reads>>
    BY <1>1 DEF H!CheckEnds, HubInv, HubTypes, HubEntries
  <2>2. \A u \in Corr : HubOwner(u)' /\ HubForgotten(u)'
    BY <2>1, HubStill
  <2>3. CASE H!Heard(c)
    <3>1. call' = call /\ ClaimedStays
      BY <1>1, <2>1, <2>3 DEF H!CheckEnds, ClaimedStays
    <3>2. \A k \in Call : HubAsks(k)' /\ HubHears(k)'
      BY <2>1, <3>1, HubCallKept DEF HubInv
    <3>3. /\ entry' = [entry EXCEPT ![c] = [entry[c] EXCEPT !.reading = FALSE, !.timer = TRUE]]
          /\ [entry[c] EXCEPT !.reading = FALSE, !.timer = TRUE] \in HubEntries
      BY <1>1, <2>1, <2>3 DEF H!CheckEnds, HubInv, HubTypes, HubEntries
    <3>4. HubTypes' /\ HubWaiters'
      BY <2>1, <3>1, <3>3 DEF HubInv, HubTypes, HubWaiters
    <3> QED BY <2>2, <3>2, <3>4 DEF HubInv
  <2>4. CASE ~H!Heard(c)
    <3> DEFINE x == entry[c].snap
    <3> DEFINE e == IF H!IsDone(x) THEN H!NoEntry
                    ELSE [entry[c] EXCEPT !.reading = FALSE, !.timer = TRUE, !.row = x]
    <3>1. call' = H!NotifiedCalls(c, x) /\ entry' = [entry EXCEPT ![c] = e]
      BY <1>1, <2>4 DEF H!CheckEnds
    <3>2. e \in HubEntries /\ (e.on => e.timer) /\ (~H!IsDone(x) => e.on)
      BY <2>1 DEF H!NoEntry, HubEntries, RowStates
    <3> HIDE DEF e
    <3>3. /\ call' \in [Call -> HubCalls]
          /\ \A k \in Call : HubAsks(k)' /\ HubHears(k)'
          /\ \A k \in Call : call'[k] = call[k] \/ (call'[k].pc = "free" /\ call'[k].corr = c)
          /\ H!IsDone(x) => \A k \in Call : call'[k].pc = "waiting" => call'[k].corr # c
      BY <2>1, <3>1, HubNotified
    <3>4. HubTypes'
      BY <2>1, <3>1, <3>2, <3>3 DEF HubInv, HubTypes
    <3>5. HubWaiters'
      BY <2>1, <3>1, <3>2, <3>3 DEF HubInv, HubTypes, HubWaiters
    <3> QED BY <2>2, <3>3, <3>4, <3>5 DEF HubInv
  <2> QED BY <2>3, <2>4
<1>2. CASE H!CheckAgain(c)
  <2> DEFINE e == [entry[c] EXCEPT !.timer = FALSE, !.reading = TRUE, !.heard = FALSE, !.snap = res[c].st]
  <2>1. entry[c] \in HubEntries /\ res[c].st \in RowStates /\ entry \in [Corr -> HubEntries]
    BY DEF HubInv, HubTypes, HubRows
  <2>2. /\ entry' = [entry EXCEPT ![c].timer = FALSE, ![c].reading = TRUE, ![c].heard = FALSE, ![c].snap = res[c].st]
        /\ UNCHANGED <<opOf, kid, up, job, wire, asked, own, res, call, claimed, runs>>
    BY <1>2 DEF H!CheckAgain
  <2>3. e \in HubEntries /\ e.on = entry[c].on /\ e.reading
    BY <2>1 DEF HubEntries
  <2>4. entry' = [entry EXCEPT ![c] = e]
    BY <2>1, <2>2
  <2> HIDE DEF e
  <2>5. ClaimedStays /\ \A u \in Corr : HubOwner(u)' /\ HubForgotten(u)'
    BY <2>2, HubStill
  <2>6. \A k \in Call : HubAsks(k)' /\ HubHears(k)'
    BY <2>2, <2>5, HubCallKept DEF HubInv
  <2>7. entry' \in [Corr -> HubEntries] /\ entry'[c] = e /\ \A u \in Corr \ {c} : entry'[u] = entry[u]
    BY <2>1, <2>3, <2>4
  <2>8. HubTypes'
    BY <2>2, <2>7 DEF HubInv, HubTypes
  <2>9. HubWaiters'
    BY <2>2, <2>3, <2>7 DEF HubInv, HubWaiters
  <2> QED BY <2>5, <2>6, <2>8, <2>9 DEF HubInv
<1> QED BY <1>1, <1>2

\* The device's connection, and the account's token.
LEMMA HubConnection ==
  ASSUME HubInv, H!Disconnect \/ H!Connect \/ H!TokenReset
  PROVE  HubInv'
<1>1. /\ UNCHANGED <<opOf, job, own, res, call, entry, claimed, runs, reads>>
      /\ wire' \in {wire, <<>>} /\ asked' \in {asked, <<>>} /\ kid' \in {kid, kid + 1}
  BY DEF H!Disconnect, H!Connect, H!TokenReset
<1>2. /\ wire' \in Seq(AgentFrames) /\ asked' \in Seq(AskedFrames) /\ ClaimedStays
      /\ \A u \in Corr : HubOwner(u)' /\ HubForgotten(u)'
  BY <1>1, HubStill
<1>3. \A k \in Call : HubAsks(k)' /\ HubHears(k)'
  BY <1>1, <1>2, HubCallKept DEF HubInv
<1>4. kid' \in Nat
  BY <1>1 DEF HubInv, HubTypes
<1>5. HubTypes' /\ HubWaiters'
  BY <1>1, <1>2, <1>4 DEF HubInv, HubTypes, HubWaiters
<1> QED BY <1>2, <1>3, <1>5 DEF HubInv

\* A request that waits for its result, or is answered at once.
LEMMA HubWaitsOrSays ==
  ASSUME HubInv, NEW k \in Call, call[k].pc = "ready", NEW c \in Corr, c = call[k].corr, NEW x \in RowStates,
         H!Waits(k, c) \/ (call' = H!Answer(k, x) /\ entry' = entry),
         claimed'[c] = call[k].op \/ (H!Unknown(c) /\ x \notin {"running", "done"}),
         opOf' = opOf, ClaimedStays
  PROVE  /\ call' \in [Call -> HubCalls] /\ entry' \in [Corr -> HubEntries] /\ HubWaiters'
         /\ \A j \in Call : HubAsks(j)' /\ HubHears(j)'
<1>1. call[k] \in HubCalls /\ entry[c] \in HubEntries /\ res[c].st \in RowStates /\ call \in [Call -> HubCalls]
      /\ entry \in [Corr -> HubEntries]
  BY DEF HubInv, HubTypes, HubRows
<1>2. CASE call' = H!Answer(k, x) /\ entry' = entry
  <2> DEFINE r == H!Said(call[k], x)
  <2>1. r \in HubCalls /\ r.pc = "free" /\ r.corr = c
    BY <1>1, SaidTyped DEF H!Said, H!Free
  <2>2. call' = [call EXCEPT ![k] = r]
    BY <1>2 DEF H!Answer
  <2> HIDE DEF r
  <2>3. call'[k] = r
    BY <1>1, <2>2
  <2>4. HubAsks(k)' /\ HubHears(k)'
    BY <2>3, HubSaid DEF r, HubInv, RowStates
  <2>5. (\A j \in Call : HubAsks(j)' /\ HubHears(j)') /\ call' \in [Call -> HubCalls]
        /\ \A j \in Call \ {k} : call'[j] = call[j]
    BY <2>1, <2>2, <2>4, HubOneCall
  <2>6. HubWaiters'
    BY <1>2, <2>1, <2>3, <2>5 DEF HubInv, HubWaiters
  <2> QED BY <1>1, <1>2, <2>5, <2>6
<1>3. CASE H!Waits(k, c)
  <2> DEFINE b == H!Unknown(c)
  <2> DEFINE r == [call[k] EXCEPT !.pc = "waiting", !.blind = b]
  <2> DEFINE e == IF entry[c].on THEN entry[c] ELSE H!Group(c)
  <2>1. b \in BOOLEAN
    BY DEF H!Unknown
  <2>2. call' = [call EXCEPT ![k].pc = "waiting", ![k].blind = b] /\ entry' = [entry EXCEPT ![c] = e]
    BY <1>3 DEF H!Waits
  <2>3. e \in HubEntries /\ e.on /\ (e.reading \/ e = entry[c])
    BY <1>1 DEF H!Group, H!NoEntry, HubEntries, RowStates
  <2>4. claimed'[c] = call[k].op \/ b
    OBVIOUS
  <2> HIDE DEF b, e
  <2>5. r \in HubCalls /\ r.pc = "waiting" /\ r.corr = c /\ r.op = call[k].op /\ r.blind = b
    BY <1>1, <2>1 DEF HubCalls
  <2>6. call' = [call EXCEPT ![k] = r]
    BY <1>1, <2>2
  <2> HIDE DEF r
  <2>7. call'[k] = r
    BY <1>1, <2>6
  <2>8. HubAsks(k)' /\ HubHears(k)'
    BY <2>4, <2>5, <2>7 DEF HubAsks, HubHears
  <2>9. (\A j \in Call : HubAsks(j)' /\ HubHears(j)') /\ call' \in [Call -> HubCalls]
        /\ \A j \in Call \ {k} : call'[j] = call[j]
    BY <2>5, <2>6, <2>8, HubOneCall
  <2>10. entry' \in [Corr -> HubEntries] /\ entry'[c] = e /\ \A u \in Corr \ {c} : entry'[u] = entry[u]
    BY <1>1, <2>2, <2>3
  <2>11. HubWaiters'
    BY <2>3, <2>5, <2>7, <2>9, <2>10 DEF HubInv, HubWaiters
  <2> QED BY <2>9, <2>10, <2>11
<1> QED BY <1>2, <1>3

\* POST /run and /plugin.
LEMMA HubRuns ==
  ASSUME ~Reuse, HubInv, NEW k \in Call, H!Run(k) \/ H!Plugin(k)
  PROVE  HubInv'
<1> DEFINE c == call[k].corr
<1> DEFINE o == call[k].op
<1>1. /\ call[k].pc = "ready" /\ c \in Corr /\ o \in H!Caller /\ call[k] \in HubCalls /\ HubAsks(k)
      /\ HubOwner(c) /\ HubForgotten(c)
  BY DEF H!Run, H!Plugin, H!Ready, HubInv, HubTypes, HubWaiters, HubCalls
<1>2. /\ own' = [own EXCEPT ![c] = o] /\ claimed' = [claimed EXCEPT ![c] = o]
      /\ asked' = Append(asked, <<"run", c, o>>) /\ runs' = runs + 1
      /\ UNCHANGED <<opOf, kid, up, job, wire, reads>>
      /\ claimed[c] \in {H!NoOwner, o}
  <2>1. CASE H!Run(k)
    <3>1. call[k].kind = "run" /\ (opOf[c] = Anon => claimed[c] = H!NoOwner)
      BY <2>1 DEF H!Run, H!Ready
    <3>2. claimed[c] \in {H!NoOwner, o}
      BY <1>1, <3>1 DEF HubAsks, HubOwner
    <3> QED BY <2>1, <3>2 DEF H!Run, H!Claims
  <2>2. CASE H!Plugin(k)
    BY <2>2 DEF H!Plugin, H!Claims
  <2> QED BY <2>1, <2>2
<1>3. /\ res[c].owner \in {H!NoOwner, o} /\ o # H!NoOwner
      /\ opOf[c] # Anon => opOf[c] = o
  <2>1. call[k].kind \in {"run", "plugin"}
    BY DEF H!Run, H!Plugin, H!Ready
  <2>2. o # H!NoOwner
    BY <1>1, HubAssumption DEF H!Caller
  <2> QED BY <1>1, <1>2, <2>1, <2>2 DEF HubAsks, HubOwner
<1>4. /\ own' \in [Corr -> HubOwners] /\ claimed' \in [Corr -> HubOwners] /\ own'[c] = o /\ claimed'[c] = o
      /\ \A u \in Corr \ {c} : own'[u] = own[u] /\ claimed'[u] = claimed[u]
  BY <1>1, <1>2 DEF HubInv, HubTypes, HubOwners
<1>5. ClaimedStays
  BY <1>2, <1>4 DEF ClaimedStays
<1>6. asked' \in Seq(AskedFrames)
  <2>1. DOMAIN claimed' = Corr /\ \A u \in Corr \ {c} : claimed'[u] = claimed[u]
    BY <1>4
  <2> QED BY <1>1, <1>2 DEF HubInv, HubTypes, AskedFrames
<1>7. /\ res' \in [Corr -> HubRows] /\ res'[c].owner \in {H!NoOwner, o}
      /\ res'[c].owner # H!NoOwner => H!IsDone(res'[c].st)
      /\ \A u \in Corr \ {c} : res'[u] = res[u]
  <2>1. CASE H!Run(k)
    BY <1>1, <1>3, <2>1 DEF H!Run, HubInv, HubTypes, HubOwner
  <2>2. CASE H!Plugin(k)
    <3> DEFINE r == [st |-> "pending", owner |-> H!NoOwner]
    <3>1. res' = [res EXCEPT ![c] = r] /\ res \in [Corr -> HubRows]
      BY <2>2 DEF H!Plugin, HubInv, HubTypes
    <3>2. r \in HubRows /\ r.owner = H!NoOwner
      BY DEF HubRows, RowStates, HubOwners
    <3> HIDE DEF r
    <3> QED BY <1>1, <3>1, <3>2
  <2> QED BY <2>1, <2>2
<1>8. ASSUME NEW u \in Corr PROVE HubOwner(u)' /\ HubForgotten(u)'
  <2>1. CASE u = c
    BY <1>2, <1>3, <1>4, <1>7, <2>1 DEF HubOwner, HubForgotten, Forgotten, H!CorrOwner
  <2>2. CASE u # c
    <3>1. (NoAsked(u) => NoAsked(u)') /\ (OnlyOthers(u) => OnlyOthers(u)')
      BY <1>1, <1>2, <1>4, <2>2, AskMore DEF HubInv, HubTypes
    <3>2. LessOnItsWay(u)
      BY <1>2, <3>1 DEF LessOnItsWay, NoSaid, OnlyUnknown
    <3> QED BY <1>2, <1>4, <1>7, <2>2, <3>2, HubRowKept DEF HubInv
  <2> QED BY <2>1, <2>2
<1>9. /\ call' \in [Call -> HubCalls] /\ entry' \in [Corr -> HubEntries] /\ HubWaiters'
      /\ \A j \in Call : HubAsks(j)' /\ HubHears(j)'
  <2>1. CASE H!Run(k)
    <3>1. H!Waits(k, c) \/ (call' = H!Answer(k, "running") /\ entry' = entry)
      BY <2>1 DEF H!Run
    <3> HIDE DEF o
    <3>2. claimed'[c] = call[k].op /\ "running" \in RowStates
      BY <1>4 DEF o, RowStates
    <3> HIDE DEF c
    <3>3. c = call[k].corr
      BY DEF c
    <3> QED BY <1>1, <1>2, <1>5, <3>1, <3>2, <3>3, HubWaitsOrSays
  <2>2. CASE H!Plugin(k)
    <3>1. H!Waits(k, c) \/ (call' = H!Answer(k, "pending") /\ entry' = entry)
      BY <2>2 DEF H!Plugin
    <3> HIDE DEF o
    <3>2. claimed'[c] = call[k].op /\ "pending" \in RowStates
      BY <1>4 DEF o, RowStates
    <3> HIDE DEF c
    <3>3. c = call[k].corr
      BY DEF c
    <3> QED BY <1>1, <1>2, <1>5, <3>1, <3>2, <3>3, HubWaitsOrSays
  <2> QED BY <2>1, <2>2
<1>10. HubTypes'
  <2>1. runs' \in Nat
    BY <1>2 DEF HubInv, HubTypes
  <2> QED BY <1>2, <1>4, <1>6, <1>7, <1>9, <2>1 DEF HubInv, HubTypes
<1> QED BY <1>8, <1>9, <1>10 DEF HubInv

\* GET /result.
LEMMA HubResult ==
  ASSUME HubInv, NEW k \in Call, H!Result(k)
  PROVE  HubInv'
<1> DEFINE c == call[k].corr
<1> DEFINE o == call[k].op
<1>1. /\ call[k].pc = "ready" /\ call[k].kind = "result" /\ c \in Corr /\ o \in H!Caller /\ o # H!NoOwner
      /\ call[k] \in HubCalls /\ HubAsks(k) /\ HubOwner(c) /\ HubForgotten(c) /\ res[c] \in HubRows
      /\ res[c].st \in RowStates
  BY HubAssumption DEF H!Result, H!Ready, HubInv, HubTypes, HubWaiters, HubCalls, HubRows, H!Caller
<1>2. UNCHANGED <<opOf, kid, up, job, wire, res, runs, reads>>
  BY DEF H!Result
<1>3. claimed[c] = H!NoOwner => H!Reclaims(k)
  BY <1>1, HubAssumption DEF HubAsks, HubOwner, H!Reclaims, H!CorrOwner, H!NoRow
<1>4. CASE H!Reclaims(k)
  <2>1. /\ opOf[c] = o /\ o # Anon /\ H!CorrOwner(c) = H!NoOwner /\ res[c] = H!NoRow
        /\ own' = [own EXCEPT ![c] = o] /\ claimed' = [claimed EXCEPT ![c] = o]
    BY <1>4 DEF H!Result, H!Reclaims, H!Claims
  <2>2. claimed[c] \in {H!NoOwner, o} /\ res[c].owner = H!NoOwner
    BY <1>1, <2>1 DEF HubOwner, H!NoRow
  <2>3. /\ own' \in [Corr -> HubOwners] /\ claimed' \in [Corr -> HubOwners] /\ own'[c] = o /\ claimed'[c] = o
        /\ \A u \in Corr \ {c} : own'[u] = own[u] /\ claimed'[u] = claimed[u]
    BY <1>1, <2>1 DEF HubInv, HubTypes, HubOwners
  <2>4. ClaimedStays
    BY <2>2, <2>3 DEF ClaimedStays
  <2>5. /\ asked' = asked \/ asked' = Append(asked, <<"get_result", c, o>>)
        /\ H!Waits(k, c) \/ (call' = H!Answer(k, res[c].st) /\ entry' = entry)
    BY <1>4 DEF H!Result
  <2>6. asked' \in Seq(AskedFrames)
    <3>1. <<"get_result", c, o>> \in AskedFrames /\ asked \in Seq(AskedFrames)
      BY <1>1 DEF HubInv, HubTypes, AskedFrames
    <3> QED BY <2>5, <3>1
  <2>7. ASSUME NEW u \in Corr PROVE HubOwner(u)' /\ HubForgotten(u)'
    <3>1. CASE u = c
      BY <1>1, <1>2, <2>1, <2>2, <2>3, <3>1 DEF HubOwner, HubForgotten, Forgotten, H!CorrOwner
    <3>2. CASE u # c
      <4>1. (NoAsked(u) => NoAsked(u)') /\ (OnlyOthers(u) => OnlyOthers(u)')
        <5>1. claimed'[u] = claimed[u]
          BY <2>3, <3>2
        <5>2. CASE asked' = asked
          BY <5>1, <5>2 DEF NoAsked, OnlyOthers
        <5>3. CASE asked' = Append(asked, <<"get_result", c, o>>)
          BY <1>1, <3>2, <5>1, <5>3, AskMore DEF HubInv, HubTypes
        <5> QED BY <2>5, <5>2, <5>3
      <4>2. LessOnItsWay(u)
        BY <1>2, <4>1 DEF LessOnItsWay, NoSaid, OnlyUnknown
      <4> QED BY <1>2, <2>3, <3>2, <4>2, HubRowKept DEF HubInv
    <3> QED BY <3>1, <3>2
  <2>8. /\ call' \in [Call -> HubCalls] /\ entry' \in [Corr -> HubEntries] /\ HubWaiters'
        /\ \A j \in Call : HubAsks(j)' /\ HubHears(j)'
    <3> DEFINE x == res[c].st
    <3>1. H!Waits(k, c) \/ (call' = H!Answer(k, x) /\ entry' = entry)
      BY <2>5
    <3> HIDE DEF x
    <3>2. x \in RowStates
      BY <1>1 DEF x
    <3> HIDE DEF o
    <3>3. claimed'[c] = call[k].op
      BY <2>3 DEF o
    <3> HIDE DEF c
    <3>4. c = call[k].corr
      BY DEF c
    <3> QED BY <1>1, <1>2, <2>4, <3>1, <3>2, <3>3, <3>4, HubWaitsOrSays
  <2>9. HubTypes'
    BY <1>2, <2>3, <2>6, <2>8 DEF HubInv, HubTypes
  <2> QED BY <2>7, <2>8, <2>9 DEF HubInv
<1>5. CASE ~H!Reclaims(k) /\ ~H!Mine(o, c)
  <2>1. call' = H!Answer(k, "none") /\ UNCHANGED <<own, claimed, asked, entry>>
    BY <1>5 DEF H!Result
  <2>2. "none" \in RowStates /\ entry' \in [Corr -> HubEntries]
    BY <2>1 DEF RowStates, HubInv, HubTypes
  <2> HIDE DEF o, c
  <2> QED BY <1>1, <1>2, <2>1, <2>2, HubAnswersOnly
<1>6. CASE ~H!Reclaims(k) /\ H!Mine(o, c)
  <2>1. /\ UNCHANGED <<own, claimed>>
        /\ asked' = asked \/ asked' = Append(asked, <<"get_result", c, o>>)
        /\ H!Waits(k, c) \/ (call' = H!Answer(k, res[c].st) /\ entry' = entry)
    BY <1>6 DEF H!Result
  <2>2. claimed[c] # H!NoOwner /\ ClaimedStays
    BY <1>3, <1>6, <2>1 DEF ClaimedStays
  <2>3. asked' \in Seq(AskedFrames)
    <3>1. <<"get_result", c, o>> \in AskedFrames /\ asked \in Seq(AskedFrames)
      BY <1>1 DEF HubInv, HubTypes, AskedFrames
    <3> QED BY <2>1, <3>1
  <2>4. ASSUME NEW u \in Corr PROVE HubOwner(u)' /\ HubForgotten(u)'
    <3>1. (u # c \/ o # claimed[c] => (OnlyOthers(u) => OnlyOthers(u)')) /\ (u # c => (NoAsked(u) => NoAsked(u)'))
      <4>1. CASE asked' = asked
        BY <2>1, <4>1 DEF NoAsked, OnlyOthers
      <4>2. CASE asked' = Append(asked, <<"get_result", c, o>>)
        BY <1>1, <2>1, <4>2, AskMore DEF HubInv, HubTypes
      <4> QED BY <2>1, <4>1, <4>2
    <3>2. (NoSaid(u) => NoSaid(u)') /\ (OnlyUnknown(u) => OnlyUnknown(u)')
      BY <1>2 DEF NoSaid, OnlyUnknown
    <3>3. CASE u # c
      BY <1>2, <2>1, <3>1, <3>2, <3>3, HubRowKept DEF HubInv, LessOnItsWay
    <3>4. CASE u = c
      <4>1. Forgotten(c) => o # claimed[c]
        BY <1>6 DEF Forgotten, H!Mine
      <4> QED BY <1>1, <1>2, <2>1, <2>2, <3>1, <3>2, <3>4, <4>1
              DEF HubOwner, HubForgotten, Forgotten, H!CorrOwner
    <3> QED BY <3>3, <3>4
  <2>5. claimed'[c] = o \/ (H!Unknown(c) /\ res[c].st \notin {"running", "done"})
    BY <1>1, <1>6, <2>1, MineIsClaimed DEF HubInv, H!Unknown, H!CorrOwner
  <2>6. /\ call' \in [Call -> HubCalls] /\ entry' \in [Corr -> HubEntries] /\ HubWaiters'
        /\ \A j \in Call : HubAsks(j)' /\ HubHears(j)'
    <3> DEFINE x == res[c].st
    <3>1. H!Waits(k, c) \/ (call' = H!Answer(k, x) /\ entry' = entry)
      BY <2>1
    <3>2. claimed'[c] = o \/ (H!Unknown(c) /\ x \notin {"running", "done"})
      BY <2>5
    <3> HIDE DEF x
    <3>3. x \in RowStates
      BY <1>1 DEF x
    <3>4. claimed'[c] = call[k].op \/ (H!Unknown(c) /\ x \notin {"running", "done"})
      BY <3>2
    <3> HIDE DEF o
    <3> HIDE DEF c
    <3>5. c = call[k].corr
      BY DEF c
    <3> QED BY <1>1, <1>2, <2>2, <3>1, <3>3, <3>4, <3>5, HubWaitsOrSays
  <2>7. HubTypes'
    BY <1>2, <2>1, <2>3, <2>6 DEF HubInv, HubTypes
  <2> QED BY <2>4, <2>6, <2>7 DEF HubInv
<1> QED BY <1>4, <1>5, <1>6

\* The frame that is received is of a correlation that has been given out.
LEMMA HubReceives ==
  ASSUME HubInv, NEW x, H!Received(x), NEW c, c = H!Frame[2]
  PROVE  /\ c \in Corr /\ x \in {"accepted", "done", "unknown"} /\ claimed[c] # H!NoOwner
         /\ x # "unknown" => ~OnlyUnknown(c)
         /\ wire' \in Seq(AgentFrames)
         /\ \A u \in Corr : (NoSaid(u) => NoSaid(u)') /\ (OnlyUnknown(u) => OnlyUnknown(u)')
<1>1. wire \in Seq(AgentFrames) /\ wire # <<>> /\ wire' = Tail(wire) /\ wire[1] = H!Frame /\ wire[1][1] = x
  BY DEF H!Received, H!Frame, HubInv, HubTypes
<1>2. 1 \in DOMAIN wire /\ wire[1] \in AgentFrames
  BY <1>1
<1>3. c \in Corr /\ x \in {"accepted", "done", "unknown"} /\ wire[1][2] = c
  BY <1>1, <1>2 DEF AgentFrames
<1>4. ~NoSaid(c) /\ (x # "unknown" => ~OnlyUnknown(c))
  BY <1>1, <1>2, <1>3 DEF NoSaid, OnlyUnknown
<1>5. claimed[c] # H!NoOwner
  BY <1>3, <1>4 DEF HubInv, HubOwner
<1>6. wire' \in Seq(AgentFrames)
  BY <1>1
<1>7. \A u \in Corr : (NoSaid(u) => NoSaid(u)') /\ (OnlyUnknown(u) => OnlyUnknown(u)')
  BY <1>1, SayLess
<1> QED BY <1>3, <1>4, <1>5, <1>6, <1>7

LEMMA HubAccepted ==
  ASSUME HubInv, H!Accepted
  PROVE  HubInv'
<1> DEFINE c == H!Frame[2]
<1> DEFINE r == IF H!LateForResult(c) THEN res[c] ELSE [st |-> "running", owner |-> H!NoOwner]
<1>1. H!Received("accepted") /\ UNCHANGED <<opOf, kid, up, job, asked, own, call, entry, claimed, runs, reads>>
      /\ res' = IF H!LateForResult(c) THEN res ELSE [res EXCEPT ![c] = [st |-> "running", owner |-> H!NoOwner]]
  BY DEF H!Accepted
<1>2. /\ c \in Corr /\ claimed[c] # H!NoOwner /\ ~OnlyUnknown(c) /\ wire' \in Seq(AgentFrames)
      /\ \A u \in Corr : (NoSaid(u) => NoSaid(u)') /\ (OnlyUnknown(u) => OnlyUnknown(u)')
  BY <1>1, HubReceives
<1>3. HubOwner(c) /\ HubForgotten(c) /\ ~Forgotten(c) /\ res \in [Corr -> HubRows]
  BY <1>2 DEF HubInv, HubForgotten, HubTypes
<1>4. r \in HubRows
  BY <1>2, <1>3 DEF HubRows, RowStates, HubOwners
<1>5. res' \in [Corr -> HubRows] /\ res'[c] = r /\ \A u \in Corr \ {c} : res'[u] = res[u]
  BY <1>1, <1>2, <1>3, <1>4
<1>6. ASSUME NEW u \in Corr PROVE HubOwner(u)' /\ HubForgotten(u)'
  <2>1. LessOnItsWay(u)
    BY <1>1, <1>2 DEF LessOnItsWay, NoAsked, OnlyOthers
  <2>2. CASE u = c
    BY <1>1, <1>2, <1>3, <1>5, <2>2
       DEF HubOwner, HubForgotten, Forgotten, H!CorrOwner, H!LateForResult
  <2>3. CASE u # c
    BY <1>1, <1>5, <2>1, <2>3, HubRowKept DEF HubInv
  <2> QED BY <2>2, <2>3
<1>7. ASSUME NEW j \in Call PROVE HubAsks(j)' /\ HubHears(j)'
  BY <1>1, HubCallKept DEF HubInv, ClaimedStays
<1>8. HubTypes' /\ HubWaiters'
  BY <1>1, <1>2, <1>5 DEF HubInv, HubTypes, HubWaiters
<1> QED BY <1>6, <1>7, <1>8 DEF HubInv

LEMMA HubConcludes ==
  ASSUME HubInv, NEW x \in {"done", "unknown"}, H!Concludes(x)
  PROVE  HubInv'
<1>0. PICK c : c = H!Frame[2]
  OBVIOUS
<1> DEFINE r == H!Finished(c, x)
<1> DEFINE e == IF ~entry[c].on THEN entry[c]
                ELSE IF H!IsDone(x) THEN H!NoEntry ELSE [entry[c] EXCEPT !.heard = TRUE, !.row = x]
<1>1. /\ H!Received(x) /\ UNCHANGED <<opOf, kid, up, job, asked, claimed, runs, reads>>
      /\ res' = [res EXCEPT ![c] = r] /\ own' = [own EXCEPT ![c] = H!NoOwner]
      /\ call' = H!NotifiedCalls(c, x) /\ entry' = H!NotifiedEntry(c, x)
  BY <1>0 DEF H!Concludes
<1>2. /\ c \in Corr /\ claimed[c] # H!NoOwner /\ (x # "unknown" => ~OnlyUnknown(c)) /\ wire' \in Seq(AgentFrames)
      /\ \A u \in Corr : (NoSaid(u) => NoSaid(u)') /\ (OnlyUnknown(u) => OnlyUnknown(u)')
  BY <1>0, <1>1, HubReceives
<1>3. /\ HubOwner(c) /\ HubForgotten(c) /\ res \in [Corr -> HubRows] /\ own \in [Corr -> HubOwners]
      /\ entry \in [Corr -> HubEntries]
  BY <1>2 DEF HubInv, HubTypes
<1>4. r.st = x /\ r.owner = H!CorrOwner(c) /\ r \in HubRows
  BY <1>2, <1>3 DEF H!Finished, H!CorrOwner, HubRows, RowStates
<1> HIDE DEF r
<1>5. res' \in [Corr -> HubRows] /\ res'[c] = r /\ \A u \in Corr \ {c} : res'[u] = res[u]
  BY <1>1, <1>2, <1>3, <1>4
<1>6. own' \in [Corr -> HubOwners] /\ own'[c] = H!NoOwner /\ \A u \in Corr \ {c} : own'[u] = own[u]
  BY <1>1, <1>2, <1>3 DEF HubOwners
<1>7. ASSUME NEW u \in Corr PROVE HubOwner(u)' /\ HubForgotten(u)'
  <2>1. LessOnItsWay(u)
    BY <1>1, <1>2 DEF LessOnItsWay, NoAsked, OnlyOthers
  <2>2. CASE u = c
    <3>1. H!CorrOwner(c)' = H!CorrOwner(c) /\ H!CorrOwner(c) \in {H!NoOwner, claimed[c]}
      BY <1>3, <1>4, <1>5, <1>6 DEF H!CorrOwner, HubOwner
    <3>2. HubOwner(c)'
      BY <1>1, <1>2, <1>3, <1>4, <1>5, <1>6, <3>1 DEF HubOwner, H!IsDone
    <3>3. HubForgotten(c)'
      <4>1. SUFFICES ASSUME Forgotten(c)' PROVE HubForgotten(c)'
        BY DEF HubForgotten
      <4>2. Forgotten(c)
        BY <1>1, <3>1, <4>1 DEF Forgotten
      <4>3. res[c].st \in {"none", "unknown"} /\ job[c] # "running" /\ OnlyUnknown(c) /\ OnlyOthers(c) /\ x = "unknown"
        BY <1>2, <1>3, <4>2 DEF HubForgotten
      <4> QED BY <1>1, <1>4, <1>5, <2>1, <2>2, <4>3 DEF HubForgotten, LessOnItsWay
    <3> QED BY <2>2, <3>2, <3>3
  <2>3. CASE u # c
    BY <1>1, <1>5, <1>6, <2>1, <2>3, HubRowKept DEF HubInv
  <2> QED BY <2>2, <2>3
<1>8. /\ call' \in [Call -> HubCalls]
      /\ \A k \in Call : HubAsks(k)' /\ HubHears(k)'
      /\ \A k \in Call : call'[k] = call[k] \/ (call'[k].pc = "free" /\ call'[k].corr = c)
      /\ \A k \in Call : call'[k].pc = "waiting" => call'[k].corr # c
  <2>1. x \in RowStates /\ H!IsDone(x)
    BY DEF RowStates, H!IsDone
  <2> QED BY <1>1, <1>2, <2>1, HubNotified
<1>9. e \in HubEntries /\ (e.on => e.reading \/ e.timer)
  BY <1>2, <1>3 DEF H!NoEntry, HubEntries, RowStates, H!IsDone
<1>10. entry' = [entry EXCEPT ![c] = e]
  BY <1>1, <1>2, <1>3 DEF H!NotifiedEntry
<1> HIDE DEF e
<1>11. entry' \in [Corr -> HubEntries] /\ entry'[c] = e /\ \A u \in Corr \ {c} : entry'[u] = entry[u]
  BY <1>2, <1>3, <1>9, <1>10
<1>12. HubWaiters'
  BY <1>2, <1>8, <1>9, <1>11 DEF HubInv, HubWaiters
<1>13. HubTypes'
  BY <1>1, <1>2, <1>5, <1>6, <1>8, <1>11 DEF HubInv, HubTypes
<1> QED BY <1>7, <1>8, <1>12, <1>13 DEF HubInv

\* No request_id comes with another command.
LEMMA NoConflict == HubInv => ~H!Concludes("conflict")
  BY HubReceives DEF H!Concludes

\* The device takes a frame.
LEMMA HubAgentTakes ==
  ASSUME HubInv, H!AgentTakes
  PROVE  HubInv'
<1>1. /\ asked # <<>> /\ asked' = Tail(asked) /\ asked \in Seq(AskedFrames) /\ job \in [Corr -> {"none", "running", "done"}]
      /\ UNCHANGED <<opOf, kid, up, own, res, call, entry, claimed, runs, reads>>
  BY DEF H!AgentTakes, HubInv, HubTypes
<1>2. PICK x \in {"run", "get_result"}, c \in Corr, o \in H!Caller : Head(asked) = <<x, c, o>>
  BY <1>1 DEF AskedFrames
<1> DEFINE knows == job[c] # "none" /\ o = claimed[c]
<1> DEFINE y == IF x = "get_result" /\ ~knows THEN "unknown" ELSE IF job[c] = "done" THEN "done" ELSE "accepted"
<1> DEFINE j == IF x = "run" /\ job[c] = "none" THEN "running" ELSE job[c]
<1>3. wire' = Append(wire, <<y, c>>) /\ job' = [job EXCEPT ![c] = j]
  <2>1. Head(asked)[1] = x /\ Head(asked)[2] = c /\ Head(asked)[3] = o
    BY <1>2
  <2>2. job' = [job EXCEPT ![c] = IF x = "run" /\ @ = "none" THEN "running" ELSE @]
    BY <2>1 DEF H!AgentTakes
  <2>3. wire' = Append(wire, <<IF x = "other run" THEN "conflict"
                               ELSE IF x = "get_result" /\ ~(job[c] # "none" /\ o = claimed[c]) THEN "unknown"
                               ELSE IF job[c] = "done" THEN "done" ELSE "accepted", c>>)
    BY <2>1 DEF H!AgentTakes, H!AgentSays
  <2>4. x # "other run"
    OBVIOUS
  <2> QED BY <1>1, <2>2, <2>3, <2>4
<1>4. y \in {"accepted", "done", "unknown"} /\ j \in {"none", "running", "done"}
  BY <1>1
<1>5. job' \in [Corr -> {"none", "running", "done"}] /\ job'[c] = j /\ \A u \in Corr \ {c} : job'[u] = job[u]
  BY <1>1, <1>3, <1>4
<1>6. 1 \in DOMAIN asked /\ asked[1][1] = x /\ asked[1][2] = c /\ asked[1][3] = o
  BY <1>1, <1>2
<1>7. claimed[c] # H!NoOwner /\ HubOwner(c) /\ HubForgotten(c)
  BY <1>6 DEF NoAsked, HubInv, HubOwner
<1>8. Forgotten(c) => y = "unknown" /\ j # "running"
  BY <1>6, <1>7 DEF HubForgotten, OnlyOthers
<1> HIDE DEF y, j, knows
<1>9. ASSUME NEW u \in Corr
      PROVE  /\ wire' \in Seq(AgentFrames) /\ asked' \in Seq(AskedFrames)
             /\ (NoAsked(u) => NoAsked(u)') /\ (OnlyOthers(u) => OnlyOthers(u)')
             /\ u # c => (NoSaid(u) => NoSaid(u)')
             /\ u # c \/ y = "unknown" => (OnlyUnknown(u) => OnlyUnknown(u)')
  BY <1>1, <1>3, <1>4, SayMore, AskLess DEF HubInv, HubTypes
<1>10. ASSUME NEW u \in Corr PROVE HubOwner(u)' /\ HubForgotten(u)'
  <2>1. CASE u = c
    <3>1. HubOwner(c)'
      BY <1>1, <1>7 DEF HubOwner
    <3>2. HubForgotten(c)'
      BY <1>1, <1>5, <1>7, <1>8, <1>9 DEF HubForgotten, Forgotten, H!CorrOwner
    <3> QED BY <2>1, <3>1, <3>2
  <2>2. CASE u # c
    BY <1>1, <1>5, <1>9, <2>2, HubRowKept DEF HubInv, LessOnItsWay
  <2> QED BY <2>1, <2>2
<1>11. ASSUME NEW k \in Call PROVE HubAsks(k)' /\ HubHears(k)'
  BY <1>1, HubCallKept DEF HubInv, ClaimedStays
<1>12. HubTypes' /\ HubWaiters'
  BY <1>1, <1>2, <1>5, <1>9 DEF HubInv, HubTypes, HubWaiters
<1> QED BY <1>10, <1>11, <1>12 DEF HubInv

\* A job ends.
LEMMA HubAgentFinishes ==
  ASSUME HubInv, NEW c \in Corr, H!AgentFinishes(c)
  PROVE  HubInv'
<1>1. /\ job[c] = "running" /\ job' = [job EXCEPT ![c] = "done"] /\ job \in [Corr -> {"none", "running", "done"}]
      /\ wire' = wire \/ wire' = Append(wire, <<"done", c>>)
      /\ UNCHANGED <<opOf, kid, up, asked, own, res, call, entry, claimed, runs, reads>>
  BY DEF H!AgentFinishes, H!AgentSays, HubInv, HubTypes
<1>2. claimed[c] # H!NoOwner /\ HubOwner(c) /\ HubForgotten(c) /\ ~Forgotten(c)
  BY <1>1 DEF HubInv, HubOwner, HubForgotten
<1>3. job' \in [Corr -> {"none", "running", "done"}] /\ job'[c] = "done" /\ \A u \in Corr \ {c} : job'[u] = job[u]
  BY <1>1
<1>4. ASSUME NEW u \in Corr
      PROVE  /\ wire' \in Seq(AgentFrames)
             /\ u # c => (NoSaid(u) => NoSaid(u)') /\ (OnlyUnknown(u) => OnlyUnknown(u)')
  <2>1. CASE wire' = wire
    BY <2>1 DEF HubInv, HubTypes, NoSaid, OnlyUnknown
  <2>2. CASE wire' = Append(wire, <<"done", c>>)
    BY <2>2, SayMore DEF HubInv, HubTypes
  <2> QED BY <1>1, <2>1, <2>2
<1>5. ASSUME NEW u \in Corr PROVE HubOwner(u)' /\ HubForgotten(u)'
  <2>1. CASE u = c
    BY <1>1, <1>2, <2>1 DEF HubOwner, HubForgotten, Forgotten, H!CorrOwner
  <2>2. CASE u # c
    BY <1>1, <1>3, <1>4, <2>2, HubRowKept DEF HubInv, LessOnItsWay, NoAsked, OnlyOthers
  <2> QED BY <2>1, <2>2
<1>6. ASSUME NEW k \in Call PROVE HubAsks(k)' /\ HubHears(k)'
  BY <1>1, HubCallKept DEF HubInv, ClaimedStays
<1>7. wire' \in Seq(AgentFrames)
  BY <1>4
<1>8. HubTypes' /\ HubWaiters'
  BY <1>1, <1>3, <1>7 DEF HubInv, HubTypes, HubWaiters
<1> QED BY <1>5, <1>6, <1>8 DEF HubInv

\* A stored result expires.
LEMMA HubExpires ==
  ASSUME HubInv, NEW c \in Corr, H!Expire(c)
  PROVE  HubInv'
<1>1. /\ own[c] = H!NoOwner /\ job[c] # "running" /\ NoSaid(c) /\ NoAsked(c) /\ H!IsDone(res[c].st)
      /\ res' = [res EXCEPT ![c] = H!NoRow] /\ res \in [Corr -> HubRows]
      /\ UNCHANGED <<opOf, kid, up, job, wire, asked, own, call, entry, claimed, runs, reads>>
  BY DEF H!Expire, NoSaid, NoAsked, HubInv, HubTypes
<1>2. H!NoRow \in HubRows /\ H!NoRow.st = "none" /\ H!NoRow.owner = H!NoOwner
  BY DEF H!NoRow, HubRows, RowStates, HubOwners
<1>3. res' \in [Corr -> HubRows] /\ res'[c] = H!NoRow /\ \A u \in Corr \ {c} : res'[u] = res[u]
  BY <1>1, <1>2
<1>4. ASSUME NEW u \in Corr PROVE HubOwner(u)' /\ HubForgotten(u)'
  <2>1. CASE u = c
    <3>1. claimed[c] # H!NoOwner /\ HubOwner(c)
      BY <1>1 DEF HubInv, HubOwner, H!NoRow, H!IsDone
    <3> QED BY <1>1, <1>2, <1>3, <2>1, <3>1
            DEF HubOwner, HubForgotten, NoSaid, NoAsked, OnlyUnknown, OnlyOthers
  <2>2. CASE u # c
    BY <1>1, <1>3, <2>2, HubRowKept DEF HubInv, LessOnItsWay, NoAsked, OnlyOthers, NoSaid, OnlyUnknown
  <2> QED BY <2>1, <2>2
<1>5. ASSUME NEW k \in Call PROVE HubAsks(k)' /\ HubHears(k)'
  BY <1>1, HubCallKept DEF HubInv, ClaimedStays
<1>6. HubTypes' /\ HubWaiters'
  BY <1>1, <1>3 DEF HubInv, HubTypes, HubWaiters
<1> QED BY <1>4, <1>5, <1>6 DEF HubInv

LEMMA HubStarts == H!Init => HubInv
<1> SUFFICES ASSUME H!Init PROVE HubInv
  OBVIOUS
<1>1. H!NoRow \in HubRows /\ H!NoEntry \in HubEntries /\ H!Free \in HubCalls /\ H!NoOwner \in HubOwners
  BY DEF H!NoRow, H!NoEntry, H!Free, HubRows, HubEntries, HubCalls, HubOwners, RowStates, H!Caller
<1>2. HubTypes
  BY <1>1 DEF H!Init, HubTypes
<1>3. HubWaiters
  BY DEF H!Init, HubWaiters, H!Free, H!NoEntry
<1>4. ASSUME NEW c \in Corr PROVE HubOwner(c) /\ HubForgotten(c)
  BY DEF H!Init, HubOwner, HubForgotten, Forgotten, H!NoRow, NoSaid, NoAsked
<1>5. ASSUME NEW k \in Call PROVE HubAsks(k) /\ HubHears(k)
  BY DEF H!Init, HubAsks, HubHears, H!Free
<1> QED BY <1>2, <1>3, <1>4, <1>5 DEF HubInv

LEMMA HubStep ==
  ASSUME ~Reuse, HubInv, [H!Next]_hubVars
  PROVE  HubInv'
<1>1. CASE UNCHANGED hubVars
  <2>1. UNCHANGED <<opOf, kid, up, job, wire, asked, own, res, call, entry, claimed, runs, reads>>
    BY <1>1 DEF hubVars
  <2>2. ClaimedStays /\ \A u \in Corr : HubOwner(u)' /\ HubForgotten(u)'
    BY <2>1, HubStill
  <2>3. \A k \in Call : HubAsks(k)' /\ HubHears(k)'
    BY <2>1, <2>2, HubCallKept DEF HubInv
  <2>4. HubTypes' /\ HubWaiters'
    BY <2>1 DEF HubInv, HubTypes, HubWaiters
  <2> QED BY <2>2, <2>3, <2>4 DEF HubInv
<1>2. ASSUME NEW k \in Call, H!Request(k) PROVE HubInv'
  <2>1. CASE \E o \in H!Caller, x \in {"run", "plugin", "look", "result"}, c \in Corr : H!Authenticate(k, o, x, c)
    BY <2>1, HubAuthenticates
  <2>2. CASE H!BodyRead(k)
    BY <2>2, HubBodyRead, HubAnswers
  <2>3. CASE H!Run(k) \/ H!Plugin(k)
    BY <2>3, HubRuns
  <2>4. CASE H!Result(k)
    BY <2>4, HubResult
  <2>5. CASE H!Offline(k, "run") \/ H!Offline(k, "plugin") \/ H!Look(k) \/ H!WaitOver(k)
    BY <2>5, HubAnswers
  <2> QED BY <1>2, <2>1, <2>2, <2>3, <2>4, <2>5 DEF H!Request
<1>3. ASSUME NEW c \in Corr, H!CheckEnds(c) \/ H!CheckAgain(c) \/ H!Expire(c) PROVE HubInv'
  BY <1>3, HubChecks, HubExpires
<1>4. CASE H!Frames
  BY <1>4, HubAccepted, HubConcludes, NoConflict, HubAgentTakes, HubAgentFinishes DEF H!Frames
<1>5. CASE H!Disconnect \/ H!Connect \/ H!TokenReset
  BY <1>5, HubConnection
<1> QED BY <1>1, <1>2, <1>3, <1>4, <1>5 DEF H!Next

LEMMA HubOwned ==
  ASSUME HubInv
  PROVE  ResultsAreOwned
<1>1. ASSUME NEW c \in Corr, claimed[c] # H!NoOwner, res[c].st \notin {"none", "unknown"}
      PROVE  H!Mine(claimed[c], c)
  BY <1>1, HubAssumption DEF HubInv, HubOwner, HubForgotten, Forgotten, H!Mine, H!CorrOwner
<1>2. H!AnswersAreOwn
  BY DEF H!AnswersAreOwn, HubInv, HubHears
<1>3. H!NoMissedResult
  BY DEF H!NoMissedResult, HubInv, HubWaiters
<1> QED BY <1>1, <1>2, <1>3 DEF ResultsAreOwned, H!UnownedIsUnclaimed

\* A row that names an end names one afterwards, or has expired; what is sent is sent with the
\* token that was asked about.
LEMMA HubKept ==
  ASSUME HubInv, [H!Next]_hubVars
  PROVE  /\ \A c \in Corr : H!IsDone(res[c].st) => \/ res'[c].st \in {"done", "unknown", "conflict"}
                                                   \/ res'[c] = H!NoRow
         /\ \A k \in Call : call[k].pc = "ready" /\ runs' # runs /\ call'[k] # call[k] => call[k].fresh
<1>1. \A k \in Call : call[k].pc = "ready" => call[k].fresh
  BY DEF HubInv, HubAsks
<1>2. ASSUME NEW c \in Corr, H!IsDone(res[c].st)
      PROVE  res'[c].st \in {"done", "unknown", "conflict"} \/ res'[c] = H!NoRow
  <2>1. CASE res'[c] = res[c]
    BY <1>2, <2>1 DEF H!IsDone
  <2>2. ASSUME NEW k \in Call, H!Plugin(k) PROVE res'[c] = res[c]
    <3>1. claimed[call[k].corr] = H!NoOwner /\ call[k].corr \in Corr /\ res \in [Corr -> HubRows]
          /\ res' = [res EXCEPT ![call[k].corr] = [st |-> "pending", owner |-> H!NoOwner]]
      BY <2>2 DEF H!Plugin, H!Ready, HubInv, HubWaiters, HubTypes
    <3>2. res[call[k].corr] = H!NoRow
      BY <3>1 DEF HubInv, HubOwner
    <3> QED BY <1>2, <3>1, <3>2 DEF H!IsDone, H!NoRow
  <2>3. CASE H!Accepted
    <3>1. res \in [Corr -> HubRows]
      BY DEF HubInv, HubTypes
    <3> QED BY <1>2, <2>1, <2>3, <3>1 DEF H!Accepted, H!LateForResult
  <2>4. ASSUME NEW x \in {"done", "unknown", "conflict"}, H!Concludes(x)
        PROVE  res'[c].st \in {"done", "unknown", "conflict"}
    <3>1. res \in [Corr -> HubRows]
      BY DEF HubInv, HubTypes
    <3> QED BY <1>2, <2>4, <3>1 DEF H!Concludes, H!Finished, H!IsDone
  <2>5. ASSUME NEW u \in Corr, H!Expire(u) PROVE res'[c] \in {res[c], H!NoRow}
    <3>1. res \in [Corr -> HubRows]
      BY DEF HubInv, HubTypes
    <3> QED BY <2>5, <3>1 DEF H!Expire
  <2>6. CASE UNCHANGED hubVars
    BY <2>1, <2>6 DEF hubVars
  <2>7. ASSUME NEW k \in Call, H!Request(k), ~H!Plugin(k) PROVE res' = res
    BY <2>7 DEF H!Request, H!Authenticate, H!BodyRead, H!Offline, H!Run, H!Look, H!Result, H!WaitOver
  <2>8. ASSUME \/ \E u \in Corr : H!CheckEnds(u) \/ H!CheckAgain(u) \/ H!AgentFinishes(u)
               \/ H!AgentTakes \/ H!Disconnect \/ H!Connect \/ H!TokenReset
        PROVE  res' = res
    BY <2>8 DEF H!CheckEnds, H!CheckAgain, H!AgentFinishes, H!AgentTakes, H!Disconnect, H!Connect, H!TokenReset
  <2>9. CASE H!Frames
    BY <2>1, <2>3, <2>4, <2>8, <2>9 DEF H!Frames
  <2>10. CASE H!Next
    BY <2>1, <2>2, <2>5, <2>7, <2>8, <2>9, <2>10 DEF H!Next
  <2> QED BY <2>6, <2>10
<1> QED BY <1>1, <1>2

\* For every number of correlations, operators and requests: a job that an operator's request made is
\* that operator's, answers are of jobs of their own, and nobody misses a stored result.
THEOREM HubHolds == ~Reuse /\ H!Spec => []HubInv
<1> SUFFICES ASSUME ~Reuse PROVE H!Spec => []HubInv
  OBVIOUS
<1>1. HubInv /\ [H!Next /\ H!Bounded']_H!vars => HubInv'
  BY HubStep DEF H!vars, hubVars
<1> QED BY <1>1, HubStarts, PTL DEF H!Spec

\* The same where the other ways to a result run beside it.
LEMMA ResultsHubHolds == ASSUME ~Reuse PROVE ResultsSpec => []HubInv
<1>1. ResultsInit => HubInv
  BY HubStarts DEF ResultsInit
<1>2. HubInv /\ [ResultsNext]_<<vars, resultVars>> => HubInv'
  BY HubStep DEF ResultsNext, OneOf, resultVars
<1> QED BY <1>1, <1>2, PTL DEF ResultsSpec

THEOREM ResultsAreOwnedHolds == ~Reuse => (ResultsSpec => []ResultsAreOwned)
<1> SUFFICES ASSUME ~Reuse PROVE ResultsSpec => []ResultsAreOwned
  OBVIOUS
<1> QED BY ResultsHubHolds, HubOwned, PTL

\* webSocketMessage and handleAuthorizedOperatorRequest, step by step: a stored end stays, and no
\* command is sent with a token that was not asked about again.
THEOREM ResultsAreKeptHolds == ~Reuse => (ResultsSpec => ResultsAreKept)
<1> SUFFICES ASSUME ~Reuse PROVE ResultsSpec => ResultsAreKept
  OBVIOUS
<1>1. HubInv /\ [ResultsNext]_<<vars, resultVars>>
        => [\A c \in Corr : H!IsDone(res[c].st) => \/ res'[c].st \in {"done", "unknown", "conflict"}
                                                   \/ res'[c] = H!NoRow]_H!vars
  BY HubKept DEF ResultsNext, OneOf, resultVars, hubVars, H!vars
<1>2. HubInv /\ [ResultsNext]_<<vars, resultVars>>
        => [\A k \in Call : call[k].pc = "ready" /\ runs' # runs /\ call'[k] # call[k] => call[k].fresh]_H!vars
  BY HubKept DEF ResultsNext, OneOf, resultVars, hubVars, H!vars
<1> QED BY <1>1, <1>2, ResultsHubHolds, PTL DEF ResultsSpec, ResultsAreKept, H!DoneIsKept, H!NoOldToken

-----------------------------------------------------------------------------
(* The caches and the book of the Node hub.                                    *)

NodeRow == [job : Job, v : {"pending", "running", "done", "unknown"}, size : Nat]
JobOrNone == Job \cup {NoJob}
NodeCalls == [kind : {"none", "get", "beat", "desktop"}, job : JobOrNone]
NodeAnswers == [row : {"none", "running", "offline", "refused", "pending", "unknown", "nothing", "done", "beat",
                       "desktop", "timeout"}, job : JobOrNone]

\* A key has one row.
OneRowEach(q) == \A i, k \in DOMAIN q : q[i].job = q[k].job => i = k

\* PayloadCache: its rows, its bytes, its limit of entries.
CacheOk(q, n, m) ==
    /\ q \in Seq(NodeRow) /\ OneRowEach(q)
    /\ n = N!Weight(q) /\ n \in Nat /\ n <= MaxBytes /\ Len(q) <= m

NodeCaches == CacheOk(results, bytes, MaxEntries) /\ CacheOk(completed, 0, MaxSummaries)

NodeBook ==
    /\ owner \in [Job -> N!Fingerprint \cup {NoJob}] /\ live \in [N!Fingerprint -> JobOrNone]
    /\ alive \in SUBSET Job /\ known \in SUBSET Job
    /\ \A j \in Job : owner[j] # NoJob => OpOf[j] = owner[j]
    /\ \A o \in N!Fingerprint : live[o] # NoJob => OpOf[live[o]] = o

\* What the hub was told has ended is no session any more, and has no other row.
NodeEnds ==
    \A j \in known : owner[j] # NoJob =>
        j \notin alive /\ \A i \in DOMAIN results : results[i].job = j => N!IsDone(results[i].v)

\* Whose the answers and the frames are.
NodeOwn ==
    /\ nodeCall \in [N!Fingerprint -> NodeCalls] /\ reply \in [N!Fingerprint -> NodeAnswers]
    /\ \A o \in Operator : nodeCall[o].kind = "get" /\ nodeCall[o].job # NoJob => OpOf[nodeCall[o].job] = o
    /\ \A o \in Operator : reply[o].job # NoJob => OpOf[reply[o].job] = o
    /\ \A f \in down : f.type = "drive" /\ f.by \in Operator => OpOf[f.job] = f.by

NodeSockets ==
    /\ ws \in [Sock -> {"none", "open", "closing", "closed"}]
    /\ latest \in Sock \cup {NoSock} /\ N!NewestSocketCounts

NodeInv == NodeCaches /\ NodeBook /\ NodeEnds /\ NodeOwn /\ NodeSockets

(* What rows weigh.                                                            *)

Units(q) == UNION {{q[i].job} \X (1 .. q[i].size) : i \in DOMAIN q}
Within(p, q) == \A i \in DOMAIN p : \E k \in DOMAIN q : p[i] = q[k]

LEMMA SameCardinality == \A S : N!Cardinality(S) = Cardinality(S)
  BY DEF N!Cardinality, Cardinality

LEMMA WeighsUnits == \A q : N!Weight(q) = Cardinality(Units(q))
  BY SameCardinality DEF N!Weight, Units

LEMMA UnitsOfRow ==
  ASSUME NEW r \in NodeRow
  PROVE  IsFiniteSet({r.job} \X (1 .. r.size)) /\ Cardinality({r.job} \X (1 .. r.size)) = r.size
<1> DEFINE S == {r.job}
<1> DEFINE T == 1 .. r.size
<1>1. r.size \in Nat
  BY DEF NodeRow
<1>2. IsFiniteSet(S) /\ Cardinality(S) = 1
  BY FS_Singleton
<1>3. IsFiniteSet(T) /\ Cardinality(T) = r.size
  BY <1>1, FS_Interval
<1> HIDE DEF S, T
<1>4. IsFiniteSet(S \X T) /\ Cardinality(S \X T) = 1 * r.size
  BY <1>2, <1>3, FS_Product
<1> QED BY <1>1, <1>4 DEF S, T

LEMMA UnitsFinite ==
  ASSUME NEW q \in Seq(NodeRow)
  PROVE  IsFiniteSet(Units(q))
<1> DEFINE U(i) == {q[i].job} \X (1 .. q[i].size)
<1> DEFINE S == {U(i) : i \in DOMAIN q}
<1>1. DOMAIN q = 1 .. Len(q) /\ Len(q) \in Nat /\ \A i \in DOMAIN q : q[i] \in NodeRow
  OBVIOUS
<1>2. IsFiniteSet(DOMAIN q)
  BY <1>1, FS_Interval
<1>3. \A i \in DOMAIN q : IsFiniteSet(U(i))
  BY <1>1, UnitsOfRow
<1> HIDE DEF U
<1>4. [i \in DOMAIN q |-> U(i)] \in Surjection(DOMAIN q, S)
  BY DEF Surjection
<1>5. IsFiniteSet(S)
  BY <1>2, <1>4, FS_Surjection
<1>6. IsFiniteSet(UNION S)
  BY <1>3, <1>5, FS_UNION
<1> QED BY <1>6 DEF Units, U

LEMMA WeightType == \A q \in Seq(NodeRow) : N!Weight(q) \in Nat
  BY UnitsFinite, WeighsUnits, FS_CardinalityType

\* Two parts with other keys weigh what the whole does.
LEMMA WeightSplits ==
  ASSUME NEW q \in Seq(NodeRow), NEW p1 \in Seq(NodeRow), NEW p2 \in Seq(NodeRow),
         Within(p1, q), Within(p2, q),
         \A i \in DOMAIN q : (\E k \in DOMAIN p1 : p1[k] = q[i]) \/ (\E k \in DOMAIN p2 : p2[k] = q[i]),
         \A i \in DOMAIN p1, k \in DOMAIN p2 : p1[i].job # p2[k].job
  PROVE  N!Weight(q) = N!Weight(p1) + N!Weight(p2)
<1>1. \A p, u : u \in Units(p) <=> \E i \in DOMAIN p : u \in {p[i].job} \X (1 .. p[i].size)
  BY DEF Units
<1>2. Units(q) = Units(p1) \cup Units(p2)
  <2>1. ASSUME NEW u \in Units(q) PROVE u \in Units(p1) \cup Units(p2)
    <3>1. PICK i \in DOMAIN q : u \in {q[i].job} \X (1 .. q[i].size)
      BY <1>1, <2>1
    <3> QED BY <1>1, <3>1
  <2>2. ASSUME NEW u \in Units(p1) PROVE u \in Units(q)
    <3>1. PICK i \in DOMAIN p1 : u \in {p1[i].job} \X (1 .. p1[i].size)
      BY <1>1, <2>2
    <3>2. PICK k \in DOMAIN q : p1[i] = q[k]
      BY DEF Within
    <3> QED BY <1>1, <3>1, <3>2
  <2>3. ASSUME NEW u \in Units(p2) PROVE u \in Units(q)
    <3>1. PICK i \in DOMAIN p2 : u \in {p2[i].job} \X (1 .. p2[i].size)
      BY <1>1, <2>3
    <3>2. PICK k \in DOMAIN q : p2[i] = q[k]
      BY DEF Within
    <3> QED BY <1>1, <3>1, <3>2
  <2> QED BY <2>1, <2>2, <2>3
<1>3. Units(p1) \cap Units(p2) = {}
  <2> SUFFICES ASSUME NEW u \in Units(p1), u \in Units(p2) PROVE FALSE
    OBVIOUS
  <2>1. PICK i \in DOMAIN p1 : u \in {p1[i].job} \X (1 .. p1[i].size)
    BY <1>1
  <2>2. PICK k \in DOMAIN p2 : u \in {p2[k].job} \X (1 .. p2[k].size)
    BY <1>1
  <2>3. u[1] = p1[i].job /\ u[1] = p2[k].job
    BY <2>1, <2>2
  <2> QED BY <2>3
<1>4. IsFiniteSet(Units(p1)) /\ IsFiniteSet(Units(p2))
  BY UnitsFinite
<1>5. Cardinality(Units(p1) \cup Units(p2)) = Cardinality(Units(p1)) + Cardinality(Units(p2)) - Cardinality({})
  BY <1>3, <1>4, FS_Union
<1>6. Cardinality({}) = 0 /\ Cardinality(Units(p1)) \in Nat /\ Cardinality(Units(p2)) \in Nat
  BY <1>4, FS_EmptySet, FS_CardinalityType
<1>7. N!Weight(q) = Cardinality(Units(q)) /\ N!Weight(p1) = Cardinality(Units(p1))
      /\ N!Weight(p2) = Cardinality(Units(p2))
  BY WeighsUnits
<1> DEFINE a == Cardinality(Units(p1))
<1> DEFINE b == Cardinality(Units(p2))
<1>8. a \in Nat /\ b \in Nat /\ N!Weight(p1) = a /\ N!Weight(p2) = b /\ N!Weight(q) = a + b - 0
  BY <1>2, <1>5, <1>6, <1>7
<1> HIDE DEF a, b
<1> QED BY <1>8

LEMMA WeightOfOne ==
  ASSUME NEW r \in NodeRow
  PROVE  <<r>> \in Seq(NodeRow) /\ N!Weight(<<r>>) = r.size
<1> DEFINE q == <<r>>
<1>1. q \in Seq(NodeRow) /\ DOMAIN q = {1} /\ q[1] = r
  OBVIOUS
<1> HIDE DEF q
<1>2. Units(q) = {r.job} \X (1 .. r.size)
  BY <1>1 DEF Units
<1>3. N!Weight(q) = r.size
  BY <1>2, UnitsOfRow, WeighsUnits
<1> QED BY <1>1, <1>3 DEF q

LEMMA WeightOfNone == <<>> \in Seq(NodeRow) /\ N!Weight(<<>>) = 0
<1>1. Units(<<>>) = {}
  BY DEF Units
<1> QED BY <1>1, WeighsUnits, FS_EmptySet

(* PayloadCache.                                                               *)

Splits(q, p1, p2) == N!Weight(q) = N!Weight(p1) + N!Weight(p2)

\* How many rows are left.
LEMMA RestLength ==
  ASSUME NEW n \in Nat, NEW k \in 0 .. n
  PROVE  (IF k + 1 <= n THEN n - (k + 1) + 1 ELSE 0) = n - k
OBVIOUS

\* The first rows and the others.
LEMMA RowsCut ==
  ASSUME NEW q \in Seq(NodeRow), OneRowEach(q), NEW k \in 0 .. Len(q), NEW p1, p1 = SubSeq(q, 1, k),
         NEW p2, p2 = SubSeq(q, k + 1, Len(q))
  PROVE  /\ p1 \in Seq(NodeRow) /\ p2 \in Seq(NodeRow)
         /\ Len(p1) = k /\ Len(p2) = Len(q) - k
         /\ \A i \in DOMAIN p1 : i \in DOMAIN q /\ p1[i] = q[i]
         /\ \A i \in DOMAIN p2 : k + i \in DOMAIN q /\ p2[i] = q[k + i]
         /\ OneRowEach(p2) /\ Within(p2, q)
         /\ Splits(q, p1, p2)
<1>1. k \in Nat /\ Len(q) \in Nat /\ DOMAIN q = 1 .. Len(q) /\ \A i \in DOMAIN q : q[i] \in NodeRow
  OBVIOUS
<1>2. /\ p1 \in Seq(NodeRow) /\ Len(p1) = k /\ \A i \in 1 .. k : p1[i] = q[i]
  <2>1. \A i \in 1 .. k : q[i] \in NodeRow
    BY <1>1
  <2>2. /\ SubSeq(q, 1, k) \in Seq(NodeRow) /\ Len(SubSeq(q, 1, k)) = IF 1 <= k THEN k - 1 + 1 ELSE 0
        /\ \A i \in 1 .. (k - 1 + 1) : SubSeq(q, 1, k)[i] = q[1 + i - 1]
    BY <1>1, <2>1, SubSeqProperties
  <2> QED BY <1>1, <2>2
<1>3. /\ p2 \in Seq(NodeRow) /\ Len(p2) = Len(q) - k /\ \A i \in 1 .. (Len(q) - k) : p2[i] = q[k + i]
  <2>1. \A i \in (k + 1) .. Len(q) : q[i] \in NodeRow
    BY <1>1
  <2>2. /\ SubSeq(q, k + 1, Len(q)) \in Seq(NodeRow)
        /\ Len(SubSeq(q, k + 1, Len(q))) = IF k + 1 <= Len(q) THEN Len(q) - (k + 1) + 1 ELSE 0
        /\ \A i \in 1 .. (Len(q) - (k + 1) + 1) : SubSeq(q, k + 1, Len(q))[i] = q[k + 1 + i - 1]
    BY <1>1, <2>1, SubSeqProperties
  <2>3. Len(q) - (k + 1) + 1 = Len(q) - k /\ k <= Len(q)
    BY <1>1
  <2>4. p2 \in Seq(NodeRow)
    BY <2>2
  <2>5. Len(p2) = Len(q) - k
    <3>1. Len(p2) = IF k + 1 <= Len(q) THEN Len(q) - (k + 1) + 1 ELSE 0
      BY <2>2
    <3> QED BY <1>1, <3>1, RestLength, Zenon
  <2>6. ASSUME NEW i \in 1 .. (Len(q) - k) PROVE p2[i] = q[k + i]
    <3>1. p2[i] = q[k + 1 + i - 1]
      BY <2>2, <2>3
    <3>2. k + 1 + i - 1 = k + i
      BY <1>1
    <3> QED BY <3>1, <3>2
  <2> QED BY <2>4, <2>5, <2>6
<1>4. DOMAIN p1 = 1 .. k /\ DOMAIN p2 = 1 .. (Len(q) - k)
  BY <1>2, <1>3
<1>5. \A i \in DOMAIN p1 : i \in DOMAIN q /\ p1[i] = q[i]
  BY <1>1, <1>2, <1>4
<1>6. \A i \in DOMAIN p2 : k + i \in DOMAIN q /\ p2[i] = q[k + i]
  <2> TAKE i \in DOMAIN p2
  <2>1. i \in 1 .. (Len(q) - k)
    BY <1>4
  <2>2. k + i \in 1 .. Len(q)
    BY <1>1, <2>1
  <2> QED BY <1>1, <1>3, <2>1, <2>2
<1>7. OneRowEach(p2)
  <2> SUFFICES ASSUME NEW i \in DOMAIN p2, NEW m \in DOMAIN p2, p2[i].job = p2[m].job PROVE i = m
    BY DEF OneRowEach
  <2>1. k + i = k + m
    BY <1>6 DEF OneRowEach
  <2> QED BY <1>1, <1>4, <2>1
<1>8. Within(p1, q) /\ Within(p2, q)
  BY <1>5, <1>6 DEF Within
<1>9. \A i \in DOMAIN q : (\E m \in DOMAIN p1 : p1[m] = q[i]) \/ (\E m \in DOMAIN p2 : p2[m] = q[i])
  <2> TAKE i \in DOMAIN q
  <2>1. CASE i <= k
    BY <1>1, <1>2, <1>4, <2>1
  <2>2. CASE i > k
    <3>1. i - k \in DOMAIN p2 /\ k + (i - k) = i
      BY <1>1, <1>4, <2>2
    <3> QED BY <1>6, <3>1
  <2> QED BY <1>1, <2>1, <2>2
<1>10. \A i \in DOMAIN p1, m \in DOMAIN p2 : p1[i].job # p2[m].job
  <2> SUFFICES ASSUME NEW i \in DOMAIN p1, NEW m \in DOMAIN p2, p1[i].job = p2[m].job PROVE FALSE
    OBVIOUS
  <2>1. i = k + m
    BY <1>5, <1>6 DEF OneRowEach
  <2> QED BY <1>1, <1>4, <2>1
<1>11. N!Weight(q) = N!Weight(p1) + N!Weight(p2)
  BY <1>2, <1>3, <1>8, <1>9, <1>10, WeightSplits
<1> QED BY <1>2, <1>3, <1>5, <1>6, <1>7, <1>8, <1>11 DEF Splits

\* A row less.
LEMMA RowLess ==
  ASSUME NEW q \in Seq(NodeRow), OneRowEach(q), NEW k \in DOMAIN q, NEW p, p = N!RemoveAt(q, k)
  PROVE  /\ p \in Seq(NodeRow) /\ OneRowEach(p) /\ Within(p, q) /\ Len(p) <= Len(q)
         /\ \A i \in DOMAIN p : p[i].job # q[k].job
         /\ N!Weight(q) = N!Weight(p) + q[k].size
<1> DEFINE p1 == SubSeq(q, 1, k - 1)
<1> DEFINE p2 == SubSeq(q, k + 1, Len(q))
<1>1. k \in Nat /\ k >= 1 /\ k <= Len(q) /\ Len(q) \in Nat /\ DOMAIN q = 1 .. Len(q) /\ q[k] \in NodeRow
  OBVIOUS
<1>2. p1 \in Seq(NodeRow) /\ Len(p1) = k - 1 /\ \A i \in DOMAIN p1 : i \in DOMAIN q /\ p1[i] = q[i]
  <2>1. k - 1 \in 0 .. Len(q)
    BY <1>1
  <2> QED BY <2>1, RowsCut
<1>3. p2 \in Seq(NodeRow) /\ Len(p2) = Len(q) - k /\ \A i \in DOMAIN p2 : k + i \in DOMAIN q /\ p2[i] = q[k + i]
  <2>1. k \in 0 .. Len(q)
    BY <1>1
  <2> QED BY <2>1, RowsCut
<1>4. p = p1 \o p2
  BY DEF N!RemoveAt
<1> HIDE DEF p1, p2
<1>5. /\ p \in Seq(NodeRow) /\ Len(p) = Len(p1) + Len(p2)
      /\ \A i \in 1 .. Len(p1) + Len(p2) : p[i] = IF i <= Len(p1) THEN p1[i] ELSE p2[i - Len(p1)]
  <2>1. p1 \in Seq(NodeRow) /\ p2 \in Seq(NodeRow)
    BY <1>2, <1>3
  <2>2. /\ p1 \o p2 \in Seq(NodeRow) /\ Len(p1 \o p2) = Len(p1) + Len(p2)
        /\ \A i \in 1 .. Len(p1) + Len(p2) : (p1 \o p2)[i] = IF i <= Len(p1) THEN p1[i] ELSE p2[i - Len(p1)]
    BY <2>1, ConcatProperties
  <2> QED BY <1>4, <2>2
<1>6. Len(p) = Len(q) - 1 /\ DOMAIN p = 1 .. (Len(q) - 1)
  BY <1>1, <1>2, <1>3, <1>5
<1>7. \A i \in DOMAIN p : LET m == IF i < k THEN i ELSE i + 1 IN m \in DOMAIN q /\ m # k /\ p[i] = q[m]
  <2> TAKE i \in DOMAIN p
  <2>1. i \in Nat /\ i >= 1 /\ i <= Len(q) - 1 /\ i \in 1 .. Len(p1) + Len(p2)
    BY <1>1, <1>2, <1>3, <1>6
  <2>2. CASE i < k
    <3>1. i <= Len(p1) /\ i \in DOMAIN p1
      BY <1>1, <1>2, <2>1, <2>2
    <3> QED BY <1>1, <1>2, <1>5, <2>1, <2>2, <3>1
  <2>3. CASE i >= k
    <3>1. ~(i <= Len(p1)) /\ i - Len(p1) \in DOMAIN p2 /\ k + (i - Len(p1)) = i + 1
      BY <1>1, <1>2, <1>3, <2>1, <2>3
    <3>2. p[i] = p2[i - Len(p1)]
      BY <1>5, <2>1, <3>1
    <3> QED BY <1>1, <1>3, <2>1, <2>3, <3>1, <3>2
  <2> QED BY <1>1, <2>1, <2>2, <2>3
<1>8. Within(p, q)
  BY <1>7 DEF Within
<1>9. \A i \in DOMAIN p : p[i].job # q[k].job
  BY <1>7 DEF OneRowEach
<1>10. OneRowEach(p)
  <2> SUFFICES ASSUME NEW i \in DOMAIN p, NEW m \in DOMAIN p, p[i].job = p[m].job PROVE i = m
    BY DEF OneRowEach
  <2>1. (IF i < k THEN i ELSE i + 1) = (IF m < k THEN m ELSE m + 1)
    BY <1>7 DEF OneRowEach
  <2> QED BY <1>1, <1>6, <2>1
<1>11. N!Weight(q) = N!Weight(p) + q[k].size
  <2> DEFINE r == q[k]
  <2> DEFINE o == <<r>>
  <2>1. o \in Seq(NodeRow) /\ N!Weight(o) = r.size /\ DOMAIN o = {1} /\ o[1] = r
    BY <1>1, WeightOfOne
  <2> HIDE DEF o
  <2>2. Within(o, q)
    BY <2>1 DEF Within
  <2>3. \A i \in DOMAIN q : (\E m \in DOMAIN p : p[m] = q[i]) \/ (\E m \in DOMAIN o : o[m] = q[i])
    <3> TAKE i \in DOMAIN q
    <3>1. CASE i < k
      <4>1. i \in DOMAIN p
        BY <1>1, <1>6, <3>1
      <4> QED BY <1>7, <3>1, <4>1
    <3>2. CASE i > k
      <4>1. i - 1 \in DOMAIN p /\ ~(i - 1 < k) /\ (i - 1) + 1 = i
        BY <1>1, <1>6, <3>2
      <4> QED BY <1>7, <4>1
    <3>3. CASE i = k
      BY <2>1, <3>3
    <3> QED BY <1>1, <3>1, <3>2, <3>3
  <2>4. \A i \in DOMAIN p, m \in DOMAIN o : p[i].job # o[m].job
    BY <1>9, <2>1
  <2>5. N!Weight(q) = N!Weight(p) + N!Weight(o)
    BY <1>5, <1>8, <2>1, <2>2, <2>3, <2>4, WeightSplits
  <2> QED BY <2>1, <2>5
<1> QED BY <1>1, <1>5, <1>6, <1>8, <1>9, <1>10, <1>11

\* A row more.
LEMMA RowMore ==
  ASSUME NEW q \in Seq(NodeRow), OneRowEach(q), NEW r \in NodeRow, \A i \in DOMAIN q : q[i].job # r.job,
         NEW p, p = Append(q, r)
  PROVE  /\ p \in Seq(NodeRow) /\ OneRowEach(p) /\ Len(p) = Len(q) + 1
         /\ \A i \in DOMAIN p : p[i] = r \/ \E k \in DOMAIN q : p[i] = q[k]
         /\ N!Weight(p) = N!Weight(q) + r.size
<1>1. /\ p \in Seq(NodeRow) /\ Len(p) = Len(q) + 1 /\ p[Len(q) + 1] = r /\ \A i \in 1 .. Len(q) : p[i] = q[i]
      /\ DOMAIN q = 1 .. Len(q) /\ DOMAIN p = 1 .. (Len(q) + 1) /\ Len(q) \in Nat
  OBVIOUS
<1>2. \A i \in DOMAIN p : i = Len(q) + 1 \/ i \in DOMAIN q
  BY <1>1
<1>3. OneRowEach(p)
  BY <1>1, <1>2 DEF OneRowEach
<1>4. \A i \in DOMAIN p : p[i] = r \/ \E k \in DOMAIN q : p[i] = q[k]
  BY <1>1, <1>2
<1>5. N!Weight(p) = N!Weight(q) + r.size
  <2> DEFINE o == <<r>>
  <2>1. o \in Seq(NodeRow) /\ N!Weight(o) = r.size /\ DOMAIN o = {1} /\ o[1] = r
    BY WeightOfOne
  <2> HIDE DEF o
  <2>2. Within(o, p) /\ Within(q, p)
    BY <1>1, <2>1 DEF Within
  <2>3. \A i \in DOMAIN p : (\E m \in DOMAIN q : q[m] = p[i]) \/ (\E m \in DOMAIN o : o[m] = p[i])
    BY <1>1, <1>2, <2>1
  <2>4. \A i \in DOMAIN q, m \in DOMAIN o : q[i].job # o[m].job
    BY <2>1
  <2>5. N!Weight(p) = N!Weight(q) + N!Weight(o)
    BY <1>1, <2>1, <2>2, <2>3, <2>4, WeightSplits
  <2> QED BY <2>1, <2>5
<1> QED BY <1>1, <1>3, <1>4, <1>5

\* A cache after an operation that adds nothing.
CacheLess(c, q, n, m) == CacheOk(c.rows, c.bytes, m) /\ Within(c.rows, q) /\ c.bytes <= n

LEMMA PlaceOf ==
  ASSUME NEW q \in Seq(NodeRow), OneRowEach(q), NEW i \in DOMAIN q
  PROVE  N!Has(q, q[i].job) /\ N!Place(q, q[i].job) = i /\ N!Value(q, q[i].job) = q[i].v
<1>1. N!Place(q, q[i].job) \in DOMAIN q /\ q[N!Place(q, q[i].job)].job = q[i].job
  BY DEF N!Place
<1>2. N!Place(q, q[i].job) = i
  BY <1>1 DEF OneRowEach
<1> QED BY <1>2 DEF N!Has, N!Value

LEMMA DeleteIsLess ==
  ASSUME NEW q, NEW n, NEW m \in Nat, CacheOk(q, n, m), NEW j, NEW c, c = N!Delete(q, n, j)
  PROVE  CacheLess(c, q, n, m) /\ \A i \in DOMAIN c.rows : c.rows[i].job # j
<1>1. q \in Seq(NodeRow) /\ OneRowEach(q) /\ n = N!Weight(q) /\ n \in Nat /\ n <= MaxBytes /\ Len(q) <= m
      /\ MaxBytes \in Nat /\ Len(q) \in Nat
  BY NodeAssumption DEF CacheOk
<1>2. CASE N!Has(q, j)
  <2> DEFINE k == N!Place(q, j)
  <2> DEFINE p == N!RemoveAt(q, k)
  <2>1. k \in DOMAIN q /\ q[k].job = j
    BY <1>2 DEF N!Has, N!Place
  <2>2. c.rows = p /\ c.bytes = n - q[k].size
    BY <1>2 DEF N!Delete, N!Cache
  <2> HIDE DEF k
  <2>3. /\ p \in Seq(NodeRow) /\ OneRowEach(p) /\ Within(p, q) /\ Len(p) <= Len(q)
        /\ \A i \in DOMAIN p : p[i].job # q[k].job
        /\ N!Weight(q) = N!Weight(p) + q[k].size
    BY <1>1, <2>1, RowLess
  <2> HIDE DEF p
  <2>4. N!Weight(p) \in Nat /\ q[k].size \in Nat /\ Len(p) \in Nat
    <3>1. q[k] \in NodeRow
      BY <1>1, <2>1
    <3>2. q[k].size \in Nat
      BY <3>1 DEF NodeRow
    <3>3. N!Weight(p) \in Nat /\ Len(p) \in Nat
      BY <2>3, WeightType
    <3> QED BY <3>2, <3>3
  <2>5. c.bytes = N!Weight(p) /\ c.bytes \in Nat /\ c.bytes <= n /\ c.bytes <= MaxBytes /\ Len(p) <= m
    BY <1>1, <2>2, <2>3, <2>4
  <2> QED BY <2>1, <2>2, <2>3, <2>5 DEF CacheLess, CacheOk
<1>3. CASE ~N!Has(q, j)
  <2>1. c.rows = q /\ c.bytes = n
    BY <1>3 DEF N!Delete, N!Cache
  <2>2. Within(q, q)
    BY DEF Within
  <2>3. \A i \in DOMAIN q : q[i].job # j
    BY <1>3 DEF N!Has
  <2> QED BY <1>1, <2>1, <2>2, <2>3 DEF CacheLess, CacheOk
<1> QED BY <1>2, <1>3

LEMMA LaterIsLess ==
  ASSUME NEW q, NEW n, NEW m \in Nat, CacheOk(q, n, m), NEW k \in 0 .. Len(q), NEW c, c = N!Later(q, n, k)
  PROVE  CacheLess(c, q, n, m) /\ Len(c.rows) = Len(q) - k
<1> DEFINE p1 == SubSeq(q, 1, k)
<1> DEFINE p2 == SubSeq(q, k + 1, Len(q))
<1>1. q \in Seq(NodeRow) /\ OneRowEach(q) /\ n = N!Weight(q) /\ n \in Nat /\ n <= MaxBytes /\ Len(q) <= m
      /\ MaxBytes \in Nat /\ Len(q) \in Nat /\ k \in Nat
  BY NodeAssumption DEF CacheOk
<1>2. /\ p1 \in Seq(NodeRow) /\ p2 \in Seq(NodeRow) /\ Len(p2) = Len(q) - k
      /\ OneRowEach(p2) /\ Within(p2, q) /\ N!Weight(q) = N!Weight(p1) + N!Weight(p2)
  <2>1. k \in 0 .. Len(q) /\ q \in Seq(NodeRow) /\ OneRowEach(q)
    BY <1>1
  <2>2. p1 \in Seq(NodeRow) /\ p2 \in Seq(NodeRow) /\ Len(p2) = Len(q) - k
    BY <2>1, RowsCut
  <2>3. OneRowEach(p2) /\ Within(p2, q)
    BY <2>1, RowsCut
  <2>4. N!Weight(q) = N!Weight(p1) + N!Weight(p2)
    <3>1. Splits(q, p1, p2)
      BY <2>1, RowsCut
    <3> QED BY <3>1 DEF Splits
  <2> QED BY <2>2, <2>3, <2>4
<1>3. c.rows = p2 /\ c.bytes = n - N!Weight(p1)
  BY DEF N!Later, N!Cache
<1> HIDE DEF p1, p2
<1>4. N!Weight(p1) \in Nat /\ N!Weight(p2) \in Nat
  BY <1>2, WeightType
<1>5. c.bytes = N!Weight(p2) /\ c.bytes \in Nat /\ c.bytes <= n /\ c.bytes <= MaxBytes /\ Len(p2) <= m
  BY <1>1, <1>2, <1>3, <1>4
<1> QED BY <1>2, <1>3, <1>5 DEF CacheLess, CacheOk

\* The rows go one by one until there is place, and when none is left there is.
LEMMA EvictIsLess ==
  ASSUME NEW d, NEW m \in Nat, CacheOk(d.rows, d.bytes, m), NEW x, NEW c, c = N!Evict(d, x, m)
  PROVE  CacheLess(c, d.rows, d.bytes, m) /\ N!HasPlace(c, x, m)
<1> DEFINE q == d.rows
<1> DEFINE n == d.bytes
<1> DEFINE T == {k \in 0 .. Len(q) : N!HasPlace(N!Later(q, n, k), x, m)}
<1> DEFINE Less == {ss \in Nat \X Nat : ss[1] < ss[2]}
<1>1. q \in Seq(NodeRow) /\ Len(q) \in Nat
  BY DEF CacheOk
<1>2. Len(q) \in T
  <2>1. Len(q) \in 0 .. Len(q)
    BY <1>1
  <2>2. N!Later(q, n, Len(q)).rows \in Seq(NodeRow) /\ Len(N!Later(q, n, Len(q)).rows) = Len(q) - Len(q)
    BY <2>1, LaterIsLess DEF CacheLess, CacheOk
  <2>3. N!Later(q, n, Len(q)).rows = <<>>
    BY <1>1, <2>2
  <2> QED BY <2>1, <2>3 DEF N!HasPlace
<1>3. IsWellFoundedOn(Less, Nat)
  BY Zenon, NatLessThanWellFounded DEF OpToRel
<1>4. T \subseteq Nat /\ T # {}
  BY <1>1, <1>2
<1> HIDE DEF T
<1>5. PICK k \in T : \A i \in T : ~(<<i, k>> \in Less)
  <2> HIDE DEF Less
  <2> QED BY <1>3, <1>4, WFMin
<1>6. \A i \in T : ~(i < k)
  <2> SUFFICES ASSUME NEW i \in T, i < k PROVE FALSE
    OBVIOUS
  <2>1. <<i, k>> \in Nat \X Nat /\ <<i, k>>[1] < <<i, k>>[2]
    BY <1>4
  <2>2. <<i, k>> \in Less
    BY <2>1
  <2> QED BY <1>5, <2>2
<1> DEFINE P(i) == /\ N!HasPlace(N!Later(q, n, i), x, m)
                   /\ \A u \in 0 .. (i - 1) : ~N!HasPlace(N!Later(q, n, u), x, m)
<1>7. k \in 0 .. Len(q) /\ P(k)
  <2>1. k \in 0 .. Len(q) /\ N!HasPlace(N!Later(q, n, k), x, m)
    BY DEF T
  <2>2. ASSUME NEW u \in 0 .. (k - 1), N!HasPlace(N!Later(q, n, u), x, m) PROVE FALSE
    <3>1. u \in 0 .. Len(q) /\ u < k
      BY <1>1, <2>1
    <3>2. u \in T
      BY <2>2, <3>1 DEF T
    <3> QED BY <1>6, <3>1, <3>2
  <2> QED BY <2>1, <2>2
<1> DEFINE l == CHOOSE i \in 0 .. Len(q) : P(i)
<1>8. l \in 0 .. Len(q) /\ P(l)
  <2> HIDE DEF P
  <2> QED BY <1>7
<1>9. c = N!Later(q, n, l)
  BY DEF N!Evict
<1> HIDE DEF l
<1> QED BY <1>8, <1>9, LaterIsLess

\* What a cache is after something was stored in it.
StoredOk(c, q, n, m, j, y, x) ==
    /\ CacheOk(c.rows, c.bytes, m) /\ c.bytes <= n + x
    /\ \A i \in DOMAIN c.rows : \/ c.rows[i].job = j /\ c.rows[i].v = y
                                \/ c.rows[i].job # j /\ \E k \in DOMAIN q : c.rows[i] = q[k]

\* set: the row of its key, and rows that were there.
LEMMA StoredIsOk ==
  ASSUME NEW q, NEW n, NEW m \in Nat, CacheOk(q, n, m), NEW j \in Job,
         NEW y \in {"pending", "running", "done", "unknown"}, NEW x \in Nat,
         NEW c, c = N!Stored(q, n, j, y, x, m)
  PROVE  StoredOk(c, q, n, m, j, y, x)
<1> DEFINE d == N!Delete(q, n, j)
<1> DEFINE e == N!Evict(d, x, m)
<1> DEFINE r == [job |-> j, v |-> y, size |-> x]
<1> DEFINE p == Append(e.rows, r)
<1>1. n \in Nat /\ MaxBytes \in Nat
  BY NodeAssumption DEF CacheOk
<1>2. CacheLess(d, q, n, m) /\ \A i \in DOMAIN d.rows : d.rows[i].job # j
  BY DeleteIsLess
<1>3. CASE x > MaxBytes \/ m = 0
  <2>1. c = d
    BY <1>3 DEF N!Stored
  <2>2. CacheOk(c.rows, c.bytes, m) /\ Within(c.rows, q) /\ c.bytes <= n /\ c.bytes \in Nat
    BY <1>2, <2>1 DEF CacheLess, CacheOk
  <2>3. c.bytes <= n + x
    BY <1>1, <2>2
  <2> QED BY <1>2, <2>1, <2>2, <2>3 DEF Within, StoredOk
<1>4. CASE ~(x > MaxBytes \/ m = 0)
  <2>1. c = N!Cache(p, e.bytes + x)
    BY <1>4 DEF N!Stored
  <2>2. c.rows = p /\ c.bytes = e.bytes + x
    BY <2>1 DEF N!Cache
  <2>3. CacheLess(e, d.rows, d.bytes, m) /\ N!HasPlace(e, x, m)
    BY <1>2, EvictIsLess DEF CacheLess
  <2> HIDE DEF e, d
  <2>4. /\ e.rows \in Seq(NodeRow) /\ OneRowEach(e.rows) /\ e.bytes = N!Weight(e.rows) /\ e.bytes \in Nat
        /\ e.bytes <= d.bytes /\ d.bytes \in Nat /\ d.bytes <= n
    BY <1>2, <2>3 DEF CacheLess, CacheOk
  <2>5. r \in NodeRow /\ r.job = j /\ r.v = y /\ r.size = x
    BY DEF NodeRow
  <2> HIDE DEF r
  <2>6. \A i \in DOMAIN e.rows : e.rows[i].job # j /\ \E k \in DOMAIN q : e.rows[i] = q[k]
    BY <1>2, <2>3 DEF CacheLess, Within
  <2>7. /\ p \in Seq(NodeRow) /\ OneRowEach(p) /\ Len(p) = Len(e.rows) + 1
        /\ \A i \in DOMAIN p : p[i] = r \/ \E k \in DOMAIN e.rows : p[i] = e.rows[k]
        /\ N!Weight(p) = N!Weight(e.rows) + r.size
    BY <2>4, <2>5, <2>6, RowMore
  <2>8. Len(p) <= m /\ e.bytes + x <= MaxBytes
    <3>1. CASE e.rows = <<>>
      <4>1. e.bytes = 0 /\ Len(e.rows) = 0
        BY <2>4, <3>1, WeightOfNone
      <4> QED BY <1>1, <1>4, <2>7, <4>1
    <3>2. CASE e.rows # <<>>
      <4>1. Len(e.rows) < m /\ e.bytes + x <= MaxBytes /\ Len(e.rows) \in Nat
        BY <2>3, <2>4, <3>2 DEF N!HasPlace
      <4> QED BY <2>7, <4>1
    <3> QED BY <3>1, <3>2
  <2> HIDE DEF p
  <2>9. CacheOk(c.rows, c.bytes, m)
    BY <2>2, <2>4, <2>5, <2>7, <2>8 DEF CacheOk
  <2>10. c.bytes <= n + x
    BY <1>1, <2>2, <2>4
  <2> QED BY <2>2, <2>5, <2>6, <2>7, <2>9, <2>10 DEF StoredOk
<1> QED BY <1>3, <1>4

(* The steps of the Node hub.                                                  *)

NodeRows == {"pending", "running", "done", "unknown"}

LEMMA PutIsOk ==
  ASSUME NodeCaches, NEW j \in Job, NEW y \in NodeRows, N!Put(j, y)
  PROVE  /\ NodeCaches'
         /\ \A i \in DOMAIN results' : \/ results'[i].job = j /\ results'[i].v = y
                                       \/ \E k \in DOMAIN results : results'[i] = results[k]
         /\ N!IsDone(y) => \A i \in DOMAIN results' : results'[i].job = j => results'[i].v = y
<1>1. CASE ~N!IsDone(y) /\ N!Has(completed, j)
  <2>1. results' = results /\ completed' = completed /\ bytes' = bytes
    BY <1>1 DEF N!Put, N!caches
  <2> QED BY <1>1, <2>1 DEF NodeCaches, CacheOk, N!Weight
<1>2. CASE ~(~N!IsDone(y) /\ N!Has(completed, j))
  <2> DEFINE x == N!SizeOf(j, y)
  <2> DEFINE r == N!Stored(results, bytes, j, y, x, MaxEntries)
  <2> DEFINE s == N!Stored(completed, 0, j, "unknown", 0, MaxSummaries)
  <2>1. results' = r.rows /\ bytes' = r.bytes /\ completed' = IF N!IsDone(y) THEN s.rows ELSE completed
    BY <1>2 DEF N!Put
  <2>2. x \in Nat
    BY NodeAssumption DEF N!SizeOf
  <2>3. y \in {"pending", "running", "done", "unknown"} /\ MaxEntries \in Nat /\ MaxSummaries \in Nat
    BY NodeAssumption DEF NodeRows
  <2> HIDE DEF x
  <2>4. /\ CacheOk(r.rows, r.bytes, MaxEntries)
        /\ \A i \in DOMAIN r.rows : \/ r.rows[i].job = j /\ r.rows[i].v = y
                                    \/ r.rows[i].job # j /\ \E k \in DOMAIN results : r.rows[i] = results[k]
    <3>1. CacheOk(results, bytes, MaxEntries)
      BY DEF NodeCaches
    <3>2. StoredOk(r, results, bytes, MaxEntries, j, y, x)
      BY <2>2, <2>3, <3>1, StoredIsOk
    <3> QED BY <3>2 DEF StoredOk
  <2>5. CacheOk(s.rows, s.bytes, MaxSummaries) /\ s.bytes <= 0 + 0
    <3>1. CacheOk(completed, 0, MaxSummaries) /\ "unknown" \in {"pending", "running", "done", "unknown"} /\ 0 \in Nat
      BY DEF NodeCaches
    <3>2. StoredOk(s, completed, 0, MaxSummaries, j, "unknown", 0)
      BY <2>3, <3>1, StoredIsOk
    <3> QED BY <3>2 DEF StoredOk
  <2> HIDE DEF r, s
  <2>6. s.bytes = 0
    BY <2>5 DEF CacheOk
  <2>7. CacheOk(s.rows, 0, MaxSummaries)
    BY <2>5, <2>6
  <2>8. CacheOk(completed', 0, MaxSummaries)
    BY <2>1, <2>7 DEF NodeCaches
  <2>9. CacheOk(results', bytes', MaxEntries)
    BY <2>1, <2>4
  <2>10. NodeCaches'
    BY <2>8, <2>9 DEF NodeCaches, CacheOk, N!Weight, OneRowEach
  <2> QED BY <2>1, <2>4, <2>10
<1> QED BY <1>1, <1>2

\* The time to live of a row.
LEMMA RowsExpire ==
  ASSUME NodeCaches, N!ResultExpires \/ N!SummaryExpires
  PROVE  NodeCaches' /\ \A i \in DOMAIN results' : \E k \in DOMAIN results : results'[i] = results[k]
<1>1. CASE N!ResultExpires
  <2> DEFINE c == N!Delete(results, bytes, Head(results).job)
  <2>1. results' = c.rows /\ bytes' = c.bytes /\ completed' = completed
    BY <1>1 DEF N!ResultExpires
  <2>2. CacheLess(c, results, bytes, MaxEntries)
    BY NodeAssumption, DeleteIsLess DEF NodeCaches
  <2> HIDE DEF c
  <2>3. CacheOk(results', bytes', MaxEntries) /\ CacheOk(completed', 0, MaxSummaries)
    BY <2>1, <2>2 DEF CacheLess, NodeCaches
  <2>4. NodeCaches'
    BY <2>3 DEF NodeCaches, CacheOk, N!Weight, OneRowEach
  <2> QED BY <2>1, <2>2, <2>4 DEF CacheLess, Within
<1>2. CASE N!SummaryExpires
  <2> DEFINE c == N!Later(completed, 0, 1)
  <2>1. completed # <<>> /\ completed' = Tail(completed) /\ results' = results /\ bytes' = bytes
        /\ completed \in Seq(NodeRow)
    BY <1>2 DEF N!SummaryExpires, NodeCaches, CacheOk
  <2>2. Tail(completed) = SubSeq(completed, 2, Len(completed)) /\ 1 \in 0 .. Len(completed)
    BY <2>1, TailIsSubSeq
  <2>3. c.rows = completed'
    BY <2>1, <2>2 DEF N!Later, N!Cache
  <2>4. CacheLess(c, completed, 0, MaxSummaries)
    BY <2>2, NodeAssumption, LaterIsLess DEF NodeCaches
  <2> HIDE DEF c
  <2>5. c.bytes = 0 /\ CacheOk(c.rows, c.bytes, MaxSummaries)
    BY <2>4 DEF CacheLess, CacheOk
  <2>6. CacheOk(completed', 0, MaxSummaries) /\ CacheOk(results', bytes', MaxEntries)
    BY <2>1, <2>3, <2>5 DEF NodeCaches
  <2>7. NodeCaches'
    BY <2>6 DEF NodeCaches, CacheOk, N!Weight, OneRowEach
  <2> QED BY <2>1, <2>7
<1> QED BY <1>1, <1>2

LEMMA CachesSame == NodeCaches /\ UNCHANGED <<results, completed, bytes>> => NodeCaches'
  BY DEF NodeCaches, CacheOk, N!Weight, OneRowEach

LEMMA CachesEmpty ==
  ASSUME results' = <<>>, completed' = <<>>, bytes' = 0
  PROVE  NodeCaches'
<1>1. ASSUME NEW m \in Nat PROVE CacheOk(<<>>, 0, m)
  BY WeightOfNone, NodeAssumption DEF CacheOk, OneRowEach
<1>2. CacheOk(results', bytes', MaxEntries) /\ CacheOk(completed', 0, MaxSummaries)
  BY <1>1, NodeAssumption
<1> QED BY <1>2 DEF NodeCaches, CacheOk, N!Weight, OneRowEach

\* What was told to have ended stays so where it is not claimed again.
LEMMA EndsKept ==
  ASSUME NodeEnds,
         \A j \in known' : owner'[j] # NoJob =>
             /\ j \in known /\ owner[j] # NoJob /\ (j \in alive' => j \in alive)
             /\ \A i \in DOMAIN results' : results'[i].job = j => \E k \in DOMAIN results : results'[i] = results[k]
  PROVE  NodeEnds'
  BY DEF NodeEnds

LEMMA NodeSocketsKeep ==
  ASSUME NodeSockets,
         \/ UNCHANGED <<ws, current, latest>>
         \/ \E s \in Sock : N!Accept(s) \/ N!Close(s)
         \/ N!Restart
  PROVE  NodeSockets'
<1>1. CASE UNCHANGED <<ws, current, latest>>
  BY <1>1 DEF NodeSockets, N!NewestSocketCounts
<1>2. ASSUME NEW s \in Sock, N!Accept(s) PROVE NodeSockets'
  BY <1>2 DEF NodeSockets, N!NewestSocketCounts, N!Accept
<1>3. ASSUME NEW s \in Sock, N!Close(s) PROVE NodeSockets'
  BY <1>3 DEF NodeSockets, N!NewestSocketCounts, N!Close, N!IsCurrent
<1>4. CASE N!Restart
  BY <1>4 DEF NodeSockets, N!NewestSocketCounts, N!Restart
<1> QED BY <1>1, <1>2, <1>3, <1>4

\* claim.
LEMMA ClaimKeeps ==
  ASSUME NodeBook, NodeEnds, NEW o \in N!Fingerprint, NEW j \in Job, OpOf[j] = o, N!Claim(o, j),
         \A i \in DOMAIN results' : results'[i].job = j \/ \E k \in DOMAIN results : results'[i] = results[k]
  PROVE  NodeBook' /\ NodeEnds'
<1>1. /\ owner' = [owner EXCEPT ![j] = o] /\ live' = [live EXCEPT ![o] = j] /\ alive' = alive \cup {j}
      /\ known' = known \ {j}
  BY DEF N!Claim
<1>2. NodeBook'
  BY <1>1 DEF NodeBook, JobOrNone
<1>3. NodeEnds'
  BY <1>1, EndsKept DEF NodeBook
<1> QED BY <1>2, <1>3

LEMMA BookSame ==
  ASSUME NodeBook, NodeEnds, UNCHANGED <<owner, live, alive, known>>,
         \A i \in DOMAIN results' : \E k \in DOMAIN results : results'[i] = results[k]
  PROVE  NodeBook' /\ NodeEnds'
<1>1. NodeBook'
  BY DEF NodeBook
<1>2. NodeEnds'
  BY EndsKept
<1> QED BY <1>1, <1>2

\* onDeviceMessage: result.
LEMMA NodeResult ==
  ASSUME NodeInv, NEW j \in Job, N!Result(j)
  PROVE  NodeInv'
<1>1. /\ N!Put(j, "done") /\ known' = known \cup {j} /\ alive' = IF owner[j] # NoJob THEN alive \ {j} ELSE alive
      /\ UNCHANGED <<owner, live, ws, current, latest, down, nodeCall, reply>>
  BY DEF N!Result, N!Finish
<1>2. /\ NodeCaches'
      /\ \A i \in DOMAIN results' : \/ results'[i].job = j /\ results'[i].v = "done"
                                    \/ \E k \in DOMAIN results : results'[i] = results[k]
      /\ \A i \in DOMAIN results' : results'[i].job = j => results'[i].v = "done"
  BY <1>1, PutIsOk DEF NodeInv, NodeRows, N!IsDone
<1>3. NodeBook'
  BY <1>1 DEF NodeInv, NodeBook
<1>4. NodeEnds'
  <2> SUFFICES ASSUME NEW u \in known', owner'[u] # NoJob
               PROVE  u \notin alive' /\ \A i \in DOMAIN results' : results'[i].job = u => N!IsDone(results'[i].v)
    BY DEF NodeEnds
  <2>1. CASE u = j
    BY <1>1, <1>2, <2>1 DEF N!IsDone
  <2>2. CASE u # j
    <3>1. u \in known /\ owner[u] # NoJob
      BY <1>1, <2>2
    <3>2. u \notin alive /\ \A i \in DOMAIN results : results[i].job = u => N!IsDone(results[i].v)
      BY <3>1 DEF NodeInv, NodeEnds
    <3> QED BY <1>1, <1>2, <2>2, <3>2
  <2> QED BY <2>1, <2>2
<1>5. NodeOwn' /\ NodeSockets'
  BY <1>1, NodeSocketsKeep DEF NodeInv, NodeOwn
<1> QED BY <1>2, <1>3, <1>4, <1>5 DEF NodeInv

\* What has ended is read as ended.
LEMMA EndIsRead ==
  ASSUME NodeCaches, NodeEnds, NEW j \in known, owner[j] # NoJob
  PROVE  N!IsDone(N!Read(j))
<1>1. j \notin alive /\ \A i \in DOMAIN results : results[i].job = j => N!IsDone(results[i].v)
  BY DEF NodeEnds
<1>2. CASE N!Has(results, j)
  <2>1. PICK i \in DOMAIN results : results[i].job = j
    BY <1>2 DEF N!Has
  <2>2. N!Value(results, j) = results[i].v
    BY <2>1, PlaceOf DEF NodeCaches, CacheOk
  <2> QED BY <1>1, <1>2, <2>1, <2>2 DEF N!Read
<1>3. CASE ~N!Has(results, j)
  <2>1. N!Read(j) = "unknown"
    BY <1>1, <1>3 DEF N!Read, N!IsFinished
  <2> QED BY <2>1 DEF N!IsDone
<1> QED BY <1>2, <1>3

\* onDeviceMessage: accepted.
LEMMA NodeAccepted ==
  ASSUME NodeInv, NEW j \in Job, N!Accepted(j)
  PROVE  NodeInv'
<1>1. UNCHANGED <<ws, current, latest, owner, live, alive, down, nodeCall, reply, known>>
  BY DEF N!Accepted, N!book
<1>2. NodeOwn' /\ NodeSockets'
  BY <1>1, NodeSocketsKeep DEF NodeInv, NodeOwn
<1>3. CASE N!IsDone(N!Read(j))
  <2>1. UNCHANGED <<results, completed, bytes>>
    BY <1>3 DEF N!Accepted, N!caches
  <2>2. NodeBook' /\ NodeEnds'
    BY <1>1, <2>1, BookSame DEF NodeInv
  <2> QED BY <1>2, <2>1, <2>2, CachesSame DEF NodeInv
<1>4. CASE ~N!IsDone(N!Read(j))
  <2>1. N!Put(j, "running")
    BY <1>4 DEF N!Accepted
  <2>2. /\ NodeCaches'
        /\ \A i \in DOMAIN results' : \/ results'[i].job = j /\ results'[i].v = "running"
                                      \/ \E k \in DOMAIN results : results'[i] = results[k]
    BY <2>1, PutIsOk DEF NodeInv, NodeRows
  <2>3. NodeBook'
    BY <1>1 DEF NodeInv, NodeBook
  <2>4. \A u \in known : owner[u] # NoJob => u # j
    BY <1>4, EndIsRead DEF NodeInv
  <2>5. NodeEnds'
    BY <1>1, <2>2, <2>4, EndsKept DEF NodeInv
  <2> QED BY <1>2, <2>2, <2>3, <2>5 DEF NodeInv
<1> QED BY <1>3, <1>4

\* sendTo: a frame that drives nobody's job is no news to its operators.
LEMMA OwnSent ==
  ASSUME NodeOwn, UNCHANGED <<nodeCall, reply>>,
         \A f \in down' : f \in down \/ (f.type = "drive" /\ f.by \in Operator => OpOf[f.job] = f.by)
  PROVE  NodeOwn'
  BY DEF NodeOwn

\* An answer to an operator, or the wait for one.
LEMMA OwnAnswered ==
  ASSUME NodeOwn, NEW o \in N!Fingerprint, NEW a \in NodeAnswers, NEW w \in NodeCalls,
         \/ reply' = reply
         \/ reply' = [reply EXCEPT ![o] = a] /\ (o \in Operator /\ a.job # NoJob => OpOf[a.job] = o),
         \/ nodeCall' = nodeCall
         \/ nodeCall' = [nodeCall EXCEPT ![o] = w]
            /\ (o \in Operator /\ w.kind = "get" /\ w.job # NoJob => OpOf[w.job] = o),
         \A f \in down' : f \in down \/ (f.type = "drive" /\ f.by \in Operator => OpOf[f.job] = f.by)
  PROVE  NodeOwn'
<1>1. reply' \in [N!Fingerprint -> NodeAnswers] /\ nodeCall' \in [N!Fingerprint -> NodeCalls]
  BY DEF NodeOwn
<1>2. \A u \in Operator : reply'[u].job # NoJob => OpOf[reply'[u].job] = u
  BY DEF NodeOwn, N!Fingerprint
<1>3. \A u \in Operator : nodeCall'[u].kind = "get" /\ nodeCall'[u].job # NoJob => OpOf[nodeCall'[u].job] = u
  BY DEF NodeOwn, N!Fingerprint
<1>4. \A f \in down' : f.type = "drive" /\ f.by \in Operator => OpOf[f.job] = f.by
  BY DEF NodeOwn
<1> QED BY <1>1, <1>2, <1>3, <1>4 DEF NodeOwn

\* A step that leaves the caches, the book and the sockets as they are.
LEMMA OnlyOwn ==
  ASSUME NodeInv, NodeOwn',
         UNCHANGED <<results, completed, bytes, owner, live, alive, known, ws, current, latest>>
  PROVE  NodeInv'
<1>1. NodeBook' /\ NodeEnds'
  BY BookSame DEF NodeInv
<1>2. NodeCaches' /\ NodeSockets'
  BY CachesSame, NodeSocketsKeep DEF NodeInv
<1> QED BY <1>1, <1>2 DEF NodeInv

\* What a ticket of an operator stands for is its own.
LEMMA ResolvedIsOwn ==
  ASSUME NodeBook, NEW o \in N!Fingerprint, NEW j \in JobOrNone, NEW t, t = N!Resolve(o, j)
  PROVE  t \in JobOrNone /\ (o \in Operator /\ t # NoJob => OpOf[t] = o)
<1>1. CASE j = NoJob
  BY <1>1 DEF N!Resolve, NodeBook
<1>2. CASE j # NoJob
  <2>1. j \in Job
    BY <1>2 DEF JobOrNone
  <2>2. t = IF N!Owner(j) = o THEN j ELSE NoJob
    BY <1>2 DEF N!Resolve
  <2>3. o \in Operator /\ N!Owner(j) = o => OpOf[j] = o
    BY <2>1, NodeAssumption DEF N!Owner, NodeBook
  <2> QED BY <2>1, <2>2, <2>3 DEF JobOrNone
<1> QED BY <1>1, <1>2

\* deviceResults.get answers with a row, its summary, or nothing.
LEMMA ReadIsAnswer == NodeCaches => \A j : N!Read(j) \in NodeRows \cup {"nothing"}
<1> SUFFICES ASSUME NodeCaches, NEW j PROVE N!Read(j) \in NodeRows \cup {"nothing"}
  OBVIOUS
<1>1. CASE N!Has(results, j)
  <2>1. N!Place(results, j) \in DOMAIN results
    BY <1>1 DEF N!Has, N!Place
  <2>2. results[N!Place(results, j)] \in NodeRow
    BY <2>1 DEF NodeCaches, CacheOk
  <2> QED BY <1>1, <2>2 DEF N!Read, N!Value, NodeRow, NodeRows
<1>2. CASE ~N!Has(results, j)
  BY <1>2 DEF N!Read, NodeRows
<1> QED BY <1>1, <1>2

\* /v1/run and /v1/plugin.
LEMMA NodeRun ==
  ASSUME NodeInv, NEW o \in N!Fingerprint, NEW j \in Job, N!Run(o, j)
  PROVE  NodeInv'
<1>1. /\ OpOf[j] = o /\ N!Claim(o, j) /\ UNCHANGED <<ws, current, latest, nodeCall>>
  BY DEF N!Run
<1>2. /\ NodeCaches'
      /\ \A i \in DOMAIN results' : results'[i].job = j \/ \E k \in DOMAIN results : results'[i] = results[k]
  <2>1. CASE UNCHANGED <<results, completed, bytes>>
    BY <2>1, CachesSame DEF NodeInv
  <2>2. CASE N!Put(j, "pending")
    BY <2>2, PutIsOk DEF NodeInv, NodeRows
  <2> QED BY <2>1, <2>2 DEF N!Run, N!caches
<1>3. NodeBook' /\ NodeEnds'
  BY <1>1, <1>2, ClaimKeeps DEF NodeInv
<1>4. NodeSockets'
  BY <1>1, NodeSocketsKeep DEF NodeInv
<1>5. NodeOwn'
  <2> DEFINE w == N!NoCall
  <2>1. w \in NodeCalls
    BY DEF N!NoCall, NodeCalls, JobOrNone
  <2>2. CASE N!Online
    <3>1. down' = down \cup {N!Frame("run", j)} /\ N!Answer(o, "running", j)
      BY <2>2 DEF N!Run, N!Send
    <3>2. [row |-> "running", job |-> j] \in NodeAnswers
      BY DEF NodeAnswers, JobOrNone
    <3>3. reply' = [reply EXCEPT ![o] = [row |-> "running", job |-> j]]
      BY <3>1 DEF N!Answer
    <3>4. N!Frame("run", j).type # "drive"
      BY DEF N!Frame
    <3> QED BY <1>1, <2>1, <3>1, <3>2, <3>3, <3>4, OwnAnswered DEF NodeInv
  <2>3. CASE ~N!Online
    <3>1. down' = down /\ N!Answer(o, "offline", NoJob)
      BY <2>3 DEF N!Run
    <3>2. [row |-> "offline", job |-> NoJob] \in NodeAnswers
      BY DEF NodeAnswers, JobOrNone
    <3>3. reply' = [reply EXCEPT ![o] = [row |-> "offline", job |-> NoJob]]
      BY <3>1 DEF N!Answer
    <3> QED BY <1>1, <2>1, <3>1, <3>2, <3>3, OwnAnswered DEF NodeInv
  <2> QED BY <2>2, <2>3
<1> QED BY <1>2, <1>3, <1>4, <1>5 DEF NodeInv

\* /v1/get_result with a request id.
LEMMA NodeGetRecovered ==
  ASSUME NodeInv, NEW o \in N!Fingerprint, NEW j \in Job, N!GetRecovered(o, j)
  PROVE  NodeInv'
<1>1. UNCHANGED <<ws, current, latest, results, completed, bytes>>
  BY DEF N!GetRecovered, N!caches
<1>2. NodeCaches' /\ NodeSockets'
  BY <1>1, CachesSame, NodeSocketsKeep DEF NodeInv
<1>3. CASE ~N!Belongs(o, j)
  <2>1. N!Answer(o, "refused", NoJob) /\ UNCHANGED <<owner, live, alive, known, down, nodeCall>>
    BY <1>3 DEF N!GetRecovered, N!book
  <2>2. [row |-> "refused", job |-> NoJob] \in NodeAnswers /\ N!NoCall \in NodeCalls
    BY DEF NodeAnswers, JobOrNone, N!NoCall, NodeCalls
  <2>3. reply' = [reply EXCEPT ![o] = [row |-> "refused", job |-> NoJob]]
    BY <2>1 DEF N!Answer
  <2>4. NodeOwn'
    BY <2>1, <2>2, <2>3, OwnAnswered DEF NodeInv
  <2> QED BY <1>1, <2>1, <2>4, OnlyOwn
<1>4. CASE N!Belongs(o, j)
  <2>1. /\ OpOf[j] = o
        /\ IF owner[j] = NoJob THEN N!Claim(o, j) ELSE UNCHANGED <<owner, live, alive, known>>
        /\ IF ~N!IsDone(N!Read(j)) /\ N!Online THEN N!Send(N!Frame("get_result", j)) ELSE UNCHANGED down
        /\ N!Wait(o, "get", j) /\ UNCHANGED reply
    BY <1>4 DEF N!GetRecovered, N!Belongs, N!book
  <2>2. NodeBook' /\ NodeEnds'
    BY <1>1, <2>1, ClaimKeeps, BookSame DEF NodeInv
  <2>3. \A f \in down' : f \in down \/ f.type # "drive"
    BY <2>1 DEF N!Send, N!Frame
  <2>4. [kind |-> "get", job |-> j] \in NodeCalls /\ [row |-> "none", job |-> NoJob] \in NodeAnswers
    BY DEF NodeCalls, NodeAnswers, JobOrNone
  <2>5. nodeCall' = [nodeCall EXCEPT ![o] = [kind |-> "get", job |-> j]]
    BY <2>1 DEF N!Wait
  <2>6. NodeOwn'
    BY <2>1, <2>3, <2>4, <2>5, OwnAnswered DEF NodeInv
  <2> QED BY <1>2, <2>2, <2>6 DEF NodeInv
<1> QED BY <1>3, <1>4

\* /v1/get_result with a ticket.
LEMMA NodeGet ==
  ASSUME NodeInv, NEW o \in N!Fingerprint, NEW j \in JobOrNone, N!Get(o, j)
  PROVE  NodeInv'
<1> DEFINE t == N!Resolve(o, j)
<1>1. t \in JobOrNone /\ (o \in Operator /\ t # NoJob => OpOf[t] = o)
  BY ResolvedIsOwn DEF NodeInv
<1>2. UNCHANGED <<results, completed, bytes, owner, live, alive, known, ws, current, latest>>
  BY DEF N!Get, N!caches, N!book
<1>3. CASE t = NoJob
  <2>1. N!Answer(o, "pending", NoJob) /\ UNCHANGED <<down, nodeCall>>
    BY <1>3 DEF N!Get
  <2>2. [row |-> "pending", job |-> NoJob] \in NodeAnswers /\ N!NoCall \in NodeCalls
    BY DEF NodeAnswers, JobOrNone, N!NoCall, NodeCalls
  <2>3. reply' = [reply EXCEPT ![o] = [row |-> "pending", job |-> NoJob]]
    BY <2>1 DEF N!Answer
  <2>4. NodeOwn'
    BY <2>1, <2>2, <2>3, OwnAnswered DEF NodeInv
  <2> QED BY <1>2, <2>4, OnlyOwn
<1>4. CASE t # NoJob
  <2>1. /\ down' = down \cup {N!Frame("get_result", t)} \/ down' = down
        /\ N!Wait(o, "get", t) /\ UNCHANGED reply
    BY <1>4 DEF N!Get, N!Send
  <2> HIDE DEF t
  <2>2. \A f \in down' : f \in down \/ f.type # "drive"
    BY <2>1 DEF N!Frame
  <2>3. [kind |-> "get", job |-> t] \in NodeCalls /\ [row |-> "none", job |-> NoJob] \in NodeAnswers
    BY <1>1 DEF NodeCalls, NodeAnswers, JobOrNone
  <2>4. nodeCall' = [nodeCall EXCEPT ![o] = [kind |-> "get", job |-> t]]
    BY <2>1 DEF N!Wait
  <2>5. NodeOwn'
    BY <1>1, <2>1, <2>2, <2>3, <2>4, OwnAnswered DEF NodeInv
  <2> QED BY <1>2, <2>5, OnlyOwn
<1> QED BY <1>3, <1>4

\* waitHubResult: the row at the time.
LEMMA NodeGetEnds ==
  ASSUME NodeInv, NEW o \in N!Fingerprint, N!GetEnds(o)
  PROVE  NodeInv'
<1> DEFINE a == [row |-> N!Read(nodeCall[o].job), job |-> nodeCall[o].job]
<1>1. /\ nodeCall[o].kind = "get" /\ reply' = [reply EXCEPT ![o] = a]
      /\ nodeCall' = [nodeCall EXCEPT ![o] = N!NoCall]
      /\ UNCHANGED <<results, completed, bytes, owner, live, alive, known, ws, current, latest, down>>
  BY DEF N!GetEnds, N!Answer, N!caches, N!book
<1>2. nodeCall[o] \in NodeCalls /\ N!Read(nodeCall[o].job) \in NodeRows \cup {"nothing"}
  BY ReadIsAnswer DEF NodeInv, NodeOwn
<1>3. a \in NodeAnswers /\ a.job = nodeCall[o].job
  BY <1>2 DEF NodeAnswers, NodeCalls, NodeRows
<1>4. N!NoCall \in NodeCalls /\ N!NoCall.kind # "get"
  BY DEF N!NoCall, NodeCalls, JobOrNone
<1>5. o \in Operator /\ nodeCall[o].job # NoJob => OpOf[nodeCall[o].job] = o
  BY <1>1 DEF NodeInv, NodeOwn
<1> HIDE DEF a
<1>6. NodeOwn'
  BY <1>1, <1>3, <1>4, <1>5, OwnAnswered DEF NodeInv
<1> QED BY <1>1, <1>6, OnlyOwn

\* /v1/type and /v1/read_screen: on an own job only.
LEMMA NodeDrive ==
  ASSUME NodeInv, NEW o \in N!Fingerprint, NEW j \in JobOrNone, N!Drive(o, j)
  PROVE  NodeInv'
<1> DEFINE t == N!Resolve(o, j)
<1>1. t \in JobOrNone /\ (o \in Operator /\ t # NoJob => OpOf[t] = o)
  BY ResolvedIsOwn DEF NodeInv
<1>2. UNCHANGED <<results, completed, bytes, owner, live, alive, known, ws, current, latest, nodeCall, reply>>
  BY DEF N!Drive, N!caches, N!book
<1>3. down' = IF t = NoJob THEN down ELSE down \cup {[type |-> "drive", job |-> t, by |-> o]}
  BY DEF N!Drive, N!Send
<1> HIDE DEF t
<1>4. \A f \in down' : f \in down \/ (f.type = "drive" /\ f.by \in Operator => OpOf[f.job] = f.by)
  BY <1>1, <1>3
<1>5. NodeOwn'
  BY <1>2, <1>4, OwnSent DEF NodeInv
<1> QED BY <1>2, <1>5, OnlyOwn

\* /v1/heartbeat and /v1/desktop_*, asked and given up.
LEMMA NodeAsk ==
  ASSUME NodeInv, NEW o \in N!Fingerprint, NEW kind \in {"beat", "desktop"}, N!Ask(o, kind)
  PROVE  NodeInv'
<1>1. /\ nodeCall' = [nodeCall EXCEPT ![o] = [kind |-> kind, job |-> NoJob]] /\ reply' = reply
      /\ down' = down \cup {N!Frame(kind, IF kind = "desktop" THEN o ELSE NoJob)}
      /\ UNCHANGED <<results, completed, bytes, owner, live, alive, known, ws, current, latest>>
  BY DEF N!Ask, N!Wait, N!Send, N!caches, N!book
<1>2. [kind |-> kind, job |-> NoJob] \in NodeCalls /\ [row |-> "none", job |-> NoJob] \in NodeAnswers
  BY DEF NodeCalls, NodeAnswers, JobOrNone
<1>3. \A f \in down' : f \in down \/ f.type # "drive"
  BY <1>1 DEF N!Frame
<1>4. NodeOwn'
  BY <1>1, <1>2, <1>3, OwnAnswered DEF NodeInv
<1> QED BY <1>1, <1>4, OnlyOwn

LEMMA NodeAskEnds ==
  ASSUME NodeInv, NEW o \in N!Fingerprint, N!AskEnds(o)
  PROVE  NodeInv'
<1>1. /\ nodeCall' = [nodeCall EXCEPT ![o] = N!NoCall]
      /\ reply' = [reply EXCEPT ![o] = [row |-> "timeout", job |-> NoJob]]
      /\ UNCHANGED <<results, completed, bytes, owner, live, alive, known, ws, current, latest, down>>
  BY DEF N!AskEnds, N!Answer, N!caches, N!book
<1>2. N!NoCall \in NodeCalls /\ N!NoCall.kind # "get" /\ [row |-> "timeout", job |-> NoJob] \in NodeAnswers
  BY DEF N!NoCall, NodeCalls, NodeAnswers, JobOrNone
<1>3. NodeOwn'
  BY <1>1, <1>2, OwnAnswered DEF NodeInv
<1> QED BY <1>1, <1>3, OnlyOwn

\* noteBeat and noteDesktop: who waits is answered.
LEMMA NodeBeat ==
  ASSUME NodeInv, N!Beat
  PROVE  NodeInv'
<1>1. /\ nodeCall' = [o \in N!Fingerprint |-> IF nodeCall[o].kind = "beat" THEN N!NoCall ELSE nodeCall[o]]
      /\ reply' = [o \in N!Fingerprint |-> IF nodeCall[o].kind = "beat" THEN [row |-> "beat", job |-> NoJob]
                                                                        ELSE reply[o]]
      /\ UNCHANGED <<results, completed, bytes, owner, live, alive, known, ws, current, latest, down>>
  BY DEF N!Beat, N!caches, N!book
<1>2. N!NoCall \in NodeCalls /\ N!NoCall.kind # "get" /\ [row |-> "beat", job |-> NoJob] \in NodeAnswers
  BY DEF N!NoCall, NodeCalls, NodeAnswers, JobOrNone
<1>3. reply' \in [N!Fingerprint -> NodeAnswers] /\ nodeCall' \in [N!Fingerprint -> NodeCalls]
  BY <1>1, <1>2 DEF NodeInv, NodeOwn
<1>4. \A u \in Operator : reply'[u].job # NoJob => OpOf[reply'[u].job] = u
  BY <1>1 DEF NodeInv, NodeOwn, N!Fingerprint
<1>5. \A u \in Operator : nodeCall'[u].kind = "get" /\ nodeCall'[u].job # NoJob => OpOf[nodeCall'[u].job] = u
  BY <1>1, <1>2 DEF NodeInv, NodeOwn, N!Fingerprint
<1>6. NodeOwn'
  BY <1>1, <1>3, <1>4, <1>5 DEF NodeInv, NodeOwn
<1> QED BY <1>1, <1>6, OnlyOwn

LEMMA NodeDesktop ==
  ASSUME NodeInv, NEW o \in N!Fingerprint, N!Desktop(o)
  PROVE  NodeInv'
<1>1. UNCHANGED <<results, completed, bytes, owner, live, alive, known, ws, current, latest, down>>
  BY DEF N!Desktop, N!caches, N!book
<1>2. N!NoCall \in NodeCalls /\ N!NoCall.kind # "get" /\ [row |-> "desktop", job |-> NoJob] \in NodeAnswers
  BY DEF N!NoCall, NodeCalls, NodeAnswers, JobOrNone
<1>3. \/ /\ nodeCall' = [nodeCall EXCEPT ![o] = N!NoCall]
         /\ reply' = [reply EXCEPT ![o] = [row |-> "desktop", job |-> NoJob]]
      \/ UNCHANGED <<nodeCall, reply>>
  BY DEF N!Desktop
<1>4. NodeOwn'
  BY <1>1, <1>2, <1>3, OwnAnswered DEF NodeInv
<1> QED BY <1>1, <1>4, OnlyOwn

\* The device takes frames and sends its own.
LEMMA NodeDevice ==
  ASSUME NodeInv,
         \/ \E j \in Job : N!DeviceRuns(j) \/ N!DeviceEnds(j) \/ N!DeviceTells(j)
         \/ \E f \in down : N!DeviceAnswers(f)
  PROVE  NodeInv'
<1>1. /\ down' \subseteq down /\ UNCHANGED <<nodeCall, reply>>
      /\ UNCHANGED <<results, completed, bytes, owner, live, alive, known, ws, current, latest>>
  BY DEF N!DeviceRuns, N!DeviceEnds, N!DeviceTells, N!DeviceAnswers, N!Gone, N!caches, N!book
<1>2. NodeOwn'
  BY <1>1, OwnSent DEF NodeInv
<1> QED BY <1>1, <1>2, OnlyOwn

\* The sockets, and the time to live of what is kept.
LEMMA NodeSocket ==
  ASSUME NodeInv, NEW s \in Sock, N!Accept(s) \/ N!Close(s)
  PROVE  NodeInv'
<1>1. /\ down' \subseteq down /\ UNCHANGED <<nodeCall, reply>>
      /\ UNCHANGED <<results, completed, bytes, owner, live, alive, known>>
  BY DEF N!Accept, N!Close, N!caches, N!book
<1>2. NodeOwn'
  BY <1>1, OwnSent DEF NodeInv
<1>3. NodeSockets'
  BY NodeSocketsKeep DEF NodeInv
<1>4. NodeBook' /\ NodeEnds' /\ NodeCaches'
  BY <1>1, BookSame, CachesSame DEF NodeInv
<1> QED BY <1>2, <1>3, <1>4 DEF NodeInv

LEMMA NodeExpires ==
  ASSUME NodeInv, N!ResultExpires \/ N!SummaryExpires
  PROVE  NodeInv'
<1>1. UNCHANGED <<nodeCall, reply, owner, live, alive, known, ws, current, latest, down>>
  BY DEF N!ResultExpires, N!SummaryExpires, N!book
<1>2. NodeCaches' /\ \A i \in DOMAIN results' : \E k \in DOMAIN results : results'[i] = results[k]
  BY RowsExpire DEF NodeInv
<1>3. NodeBook' /\ NodeEnds'
  BY <1>1, <1>2, BookSame DEF NodeInv
<1>4. NodeOwn' /\ NodeSockets'
  BY <1>1, OwnSent, NodeSocketsKeep DEF NodeInv
<1> QED BY <1>2, <1>3, <1>4 DEF NodeInv

\* The process starts with nothing, and starts again with nothing.
NodeEmpty ==
    /\ owner = N!Unclaimed /\ live = N!NothingLive /\ alive = {} /\ known = {}
    /\ results = <<>> /\ completed = <<>> /\ bytes = 0
    /\ nodeCall = N!NoCalls /\ down = {}

LEMMA EmptyBook == NodeEmpty => NodeBook /\ NodeEnds
  BY DEF NodeEmpty, NodeBook, NodeEnds, N!Unclaimed, N!NothingLive, JobOrNone

LEMMA NoCallsTyped ==
  /\ N!NoCalls \in [N!Fingerprint -> NodeCalls]
  /\ \A o \in N!Fingerprint : N!NoCalls[o].kind # "get"
  BY DEF N!NoCalls, N!NoCall, NodeCalls, JobOrNone

LEMMA NodeRestart ==
  ASSUME NodeInv, N!Restart
  PROVE  NodeInv'
<1>1. NodeEmpty' /\ UNCHANGED reply
  BY DEF N!Restart, NodeEmpty, N!Unclaimed, N!NothingLive, N!NoCalls
<1>2. NodeBook' /\ NodeEnds'
  BY <1>1, EmptyBook, PTL
<1>3. NodeCaches'
  BY <1>1, CachesEmpty DEF NodeEmpty
<1>4. NodeOwn'
  <2>1. nodeCall' = N!NoCalls /\ down' = {}
    BY DEF N!Restart
  <2> QED BY <1>1, <2>1, NoCallsTyped DEF NodeInv, NodeOwn, N!Fingerprint
<1>5. NodeSockets'
  BY NodeSocketsKeep DEF NodeInv
<1> QED BY <1>2, <1>3, <1>4, <1>5 DEF NodeInv

LEMMA NodeStarts == N!Init => NodeInv
<1> SUFFICES ASSUME N!Init PROVE NodeInv
  OBVIOUS
<1>1. NodeEmpty
  BY DEF N!Init, NodeEmpty
<1>2. NodeBook /\ NodeEnds
  BY <1>1, EmptyBook
<1>3. NodeCaches
  <2>1. ASSUME NEW m \in Nat PROVE CacheOk(<<>>, 0, m)
    BY WeightOfNone, NodeAssumption DEF CacheOk, OneRowEach
  <2> QED BY <1>1, <2>1, NodeAssumption DEF NodeCaches, NodeEmpty
<1>4. NodeOwn
  <2>1. nodeCall = N!NoCalls /\ down = {} /\ reply = [f \in N!Fingerprint |-> N!NoReply]
    BY DEF N!Init
  <2>2. N!NoReply \in NodeAnswers /\ N!NoReply.job = NoJob
    BY DEF N!NoReply, NodeAnswers, JobOrNone
  <2> QED BY <2>1, <2>2, NoCallsTyped DEF NodeOwn, N!Fingerprint
<1>5. NodeSockets
  BY DEF N!Init, NodeSockets, N!NewestSocketCounts
<1> QED BY <1>2, <1>3, <1>4, <1>5 DEF NodeInv

LEMMA NodeStep == NodeInv /\ [N!Next]_nodeVars => NodeInv'
<1> SUFFICES ASSUME NodeInv, [N!Next]_nodeVars PROVE NodeInv'
  OBVIOUS
<1>1. ASSUME NEW s \in Sock, N!Accept(s) \/ N!Close(s) PROVE NodeInv'
  BY <1>1, NodeSocket
<1>2. ASSUME NEW j \in Job, N!Accepted(j) \/ N!Result(j) \/ N!DeviceRuns(j) \/ N!DeviceEnds(j) \/ N!DeviceTells(j)
      PROVE  NodeInv'
  BY <1>2, NodeAccepted, NodeResult, NodeDevice
<1>3. ASSUME NEW o \in N!Fingerprint, NEW j \in Job, N!Run(o, j) \/ N!GetRecovered(o, j)
      PROVE  NodeInv'
  BY <1>3, NodeRun, NodeGetRecovered
<1>4. ASSUME NEW o \in N!Fingerprint, NEW j \in Job \cup {NoJob}, N!Get(o, j) \/ N!Drive(o, j)
      PROVE  NodeInv'
  BY <1>4, NodeGet, NodeDrive DEF JobOrNone
<1>5. ASSUME NEW o \in N!Fingerprint,
             N!GetEnds(o) \/ N!Desktop(o) \/ N!AskEnds(o) \/ N!Ask(o, "beat") \/ N!Ask(o, "desktop")
      PROVE  NodeInv'
  BY <1>5, NodeGetEnds, NodeDesktop, NodeAskEnds, NodeAsk
<1>6. CASE \E f \in down : N!DeviceAnswers(f)
  BY <1>6, NodeDevice
<1>7. CASE N!Beat \/ N!ResultExpires \/ N!SummaryExpires \/ N!Restart
  BY <1>7, NodeBeat, NodeExpires, NodeRestart
<1>8. CASE UNCHANGED nodeVars
  <2>1. /\ UNCHANGED <<nodeCall, reply, down>>
        /\ UNCHANGED <<results, completed, bytes, owner, live, alive, known, ws, current, latest>>
    BY <1>8 DEF nodeVars
  <2> QED BY <2>1, OwnSent, OnlyOwn DEF NodeInv
<1> QED BY <1>1, <1>2, <1>3, <1>4, <1>5, <1>6, <1>7, <1>8 DEF N!Next

LEMMA NodeSound == NodeInv => NodeIsSound
<1> SUFFICES ASSUME NodeInv PROVE NodeIsSound
  OBVIOUS
<1>1. N!FinishedIsKnown
  BY EndIsRead DEF NodeInv, N!FinishedIsKnown
<1>2. N!OwnJobsOnly
  BY DEF NodeInv, NodeOwn, N!OwnJobsOnly
<1>3. N!CacheIsBounded
  BY DEF NodeInv, NodeCaches, CacheOk, N!CacheIsBounded
<1>4. N!NewestSocketCounts
  BY DEF NodeInv, NodeSockets
<1> QED BY <1>1, <1>2, <1>3, <1>4 DEF NodeIsSound

\* The invariant of the Node hub (src/packages/fleet-hub/index.mjs) on its own:
\* one row of a key in a cache, whose bytes are the weight of its rows; what was
\* told to have ended is no session and has no other row; what an operator waits
\* for, is told and drives is its own.
THEOREM NodeHolds == N!Spec => []NodeInv
<1>1. N!Init => NodeInv
  BY NodeStarts
<1>2. NodeInv /\ [N!Next]_N!vars => NodeInv'
  BY NodeStep DEF N!vars, nodeVars
<1> QED BY <1>1, <1>2, PTL DEF N!Spec

\* The Node hub keeps what it was told has ended, tells an operator of its own
\* jobs only, stays within the limits of its caches, and takes the newest socket
\* for the device, whenever rows expire, sockets close and the process restarts.
THEOREM NodeIsSoundHolds == ResultsSpec => []NodeIsSound
<1>1. ResultsInit => NodeInv
  BY NodeStarts DEF ResultsInit
<1>2. NodeInv /\ [ResultsNext]_<<vars, resultVars>> => NodeInv'
  BY NodeStep DEF ResultsNext, OneOf, resultVars
<1> QED BY <1>1, <1>2, NodeSound, PTL DEF ResultsSpec
=============================================================================

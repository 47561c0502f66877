----------------------------- MODULE HubExpiry ------------------------------
(* The rows of FleetDO that expire: browser sessions and pending OAuth      *)
(* logins, the expiry index over them and the alarm that sweeps it,         *)
(* src/packages/fleet-worker/src/index.ts.                                  *)
(*                                                                          *)
(* A handler that awaits only its storage is one step: a Durable Object     *)
(* takes no other event meanwhile.  The alarm is not one transaction: it    *)
(* may die between two writes and is then started again.  Time is counted   *)
(* in units of the shortest interval; it ends at MaxNow.                    *)
EXTENDS Integers, FiniteSets, Sequences, FiniteSetsExt

CONSTANTS
    Sess,         \* sessions
    Pend,         \* OAuth states, all of one source
    Order,        \* the keys in the order of storage.list
    Idle, MaxAge, Touch,   \* FLEET_SESSION_*_MS
    PendTtl,      \* OAUTH_PENDING_TTL_MS
    SourceLimit,  \* OAUTH_PENDING_SOURCE_LIMIT
    Reconcile,    \* LEGACY_RECONCILE_MS
    Batch,        \* EXPIRY_SWEEP_BATCH and LEGACY_ADOPTION_BATCH
    MaxNow, MaxCrash, MaxLegacy   \* bounds: time, deaths of the alarm, rows of an older Worker

Key == Sess \cup Pend

ASSUME Times ==
    /\ {Idle, MaxAge, Touch, PendTtl, Reconcile, SourceLimit, Batch} \subseteq Nat \ {0}
    /\ Touch < Idle /\ Idle <= MaxAge /\ {MaxNow, MaxCrash, MaxLegacy} \subseteq Nat

\* A session is no login; storage.list gives every key.
ASSUME Keys ==
    /\ Sess \cap Pend = {} /\ IsFiniteSet(Key) /\ Key # {}
    /\ Order \in Seq(Key) /\ {Order[i] : i \in DOMAIN Order} = Key

VARIABLES
    clock,
    data,         \* the row of a key
    meta,         \* its entry in the index, if it has one
    index,        \* the entries: what to delete, and when
    alarm,        \* when the alarm is set for, or Never
    cursor,       \* adoption: the place in Order, or when to begin again
    scheduled,    \* in memory: lifecycleScheduled
    crashed, legacy,       \* how often the alarm died, an older Worker wrote
    lastUse       \* the last time a session was issued or accepted

vars == <<clock, data, meta, index, alarm, cursor, scheduled, crashed, legacy, lastUse>>

Never  == MaxNow + MaxAge + Reconcile + Idle + PendTtl
Absent == [born |-> -1, seen |-> -1]
NoMeta == [at |-> Never, key |-> Order[1], gen |-> -1]
Old    == [born |-> -2, seen |-> -2]      \* a session of an older Worker: no times

Earlier(s, t) == IF s < t THEN s ELSE t
Later(s, t)   == IF s > t THEN s ELSE t
Soonest(S)    == IF S = {} THEN Never ELSE Min({e.at : e \in S})

\* legacyReconcileDeadline and nextExpiryDeadline.
NextWork == Earlier(Later(clock + 1, cursor.at),
                    IF index = {} THEN Never ELSE Later(clock + 1, Soonest(index)))

Unensured == alarm

\* ensureFleetLifecycle: the first request of an instance sets the alarm.
Ensured == IF scheduled THEN alarm ELSE Earlier(alarm, NextWork)

-----------------------------------------------------------------------------
(* The index.                                                               *)

Without(k) == index \ {meta[k]}

\* putExpiring, one transaction: the entry of the key is replaced, and the
\* alarm comes no later than it.
PutExpiring(k, v, exp) ==
    LET at == Later(clock + 1, exp)
        gen == CHOOSE g \in 0 .. 3 : [at |-> at, key |-> k, gen |-> g] \notin index
        e == [at |-> at, key |-> k, gen |-> gen]
    IN  /\ data' = [data EXCEPT ![k] = v]
        /\ meta' = [meta EXCEPT ![k] = e]
        /\ index' = Without(k) \cup {e}
        /\ alarm' = Earlier(Ensured, at)

\* deleteExpiring, one transaction.
DeleteExpiring(k) ==
    /\ data' = [data EXCEPT ![k] = Absent]
    /\ meta' = [meta EXCEPT ![k] = NoMeta]
    /\ index' = Without(k)
    /\ alarm' = Ensured

Unwritten == UNCHANGED <<data, meta, index>> /\ alarm' = Ensured

Handled == scheduled' = TRUE /\ UNCHANGED <<clock, cursor, crashed>>

-----------------------------------------------------------------------------
(* Sessions.                                                                *)

\* oauthUser, login, issueSession.  The key of a session that is gone, with
\* its entry, stands for that of a new one.
IssueSession(k) ==
    /\ data[k] = Absent /\ meta[k] = NoMeta
    /\ PutExpiring(k, [born |-> clock, seen |-> clock], clock + Idle)
    /\ lastUse' = [lastUse EXCEPT ![k] = clock]
    /\ Handled /\ UNCHANGED legacy

\* resolve: the row as it reads now, and when it ends.
RowOf(k) == IF data[k] = Old THEN [born |-> clock, seen |-> clock] ELSE data[k]
EndOf(r) == Earlier(r.born + MaxAge, r.seen + Idle)

\* A use is written down at most once per Touch.
Stale(k) == data[k] = Old \/ clock - data[k].seen >= Touch

\* A use that is written down without its entry.
AcceptedInPlace(k) ==
    IF Stale(k) /\ meta[k] # NoMeta
    THEN /\ data' = [data EXCEPT ![k].seen = clock]
         /\ UNCHANGED <<meta, index>> /\ alarm' = Ensured
    ELSE PutExpiring(k, RowOf(k), EndOf(RowOf(k)))

Accepted(k) ==
    LET r == RowOf(k) IN
    IF Stale(k)
    THEN PutExpiring(k, [r EXCEPT !.seen = clock], Earlier(r.born + MaxAge, clock + Idle))
    ELSE IF meta[k] = NoMeta THEN PutExpiring(k, r, EndOf(r)) ELSE Unwritten

Resolve(k) ==
    /\ data[k] # Absent
    /\ IF EndOf(RowOf(k)) <= clock
       THEN DeleteExpiring(k) /\ UNCHANGED lastUse
       ELSE Accepted(k) /\ lastUse' = [lastUse EXCEPT ![k] = clock]
    /\ Handled /\ UNCHANGED legacy

\* POST /v1/logout.
Logout(k) ==
    /\ data[k] # Absent
    /\ DeleteExpiring(k)
    /\ Handled /\ UNCHANGED <<legacy, lastUse>>

\* An older Worker, before an upgrade or after a rollback, writes a session
\* without times and without an entry in the index.
LegacySession(k) ==
    /\ data[k] = Absent /\ meta[k] = NoMeta /\ legacy < MaxLegacy
    /\ data' = [data EXCEPT ![k] = Old]
    /\ lastUse' = [lastUse EXCEPT ![k] = clock]
    /\ legacy' = legacy + 1
    /\ UNCHANGED <<clock, meta, index, alarm, cursor, scheduled, crashed>>

-----------------------------------------------------------------------------
(* Pending OAuth logins: a row's time is when it expires.                   *)

LivePend == {p \in Pend : data[p] # Absent /\ data[p].seen > clock}
Spent    == {p \in Pend : data[p] # Absent /\ data[p].seen <= clock}

\* POST oauth-pending, one transaction: expired rows are dropped on the way,
\* and a source has a limited number of live ones.
PutPending(p) ==
    LET k == {q \in Spent : q # p}
        e == [at |-> clock + PendTtl, key |-> p, gen |-> CHOOSE g \in 0 .. 3 :
                 [at |-> clock + PendTtl, key |-> p, gen |-> g] \notin index]
        admitted == Cardinality(LivePend \ {p}) < SourceLimit
        kept == index \ {meta[q] : q \in k}
    IN  /\ data' = [q \in Key |-> IF q \in k THEN Absent
                       ELSE IF q = p /\ admitted THEN [born |-> clock, seen |-> clock + PendTtl]
                       ELSE IF q = p /\ q \in Spent THEN Absent ELSE data[q]]
        /\ meta' = [q \in Key |-> IF q \in k \/ (q = p /\ q \in Spent /\ ~admitted) THEN NoMeta
                       ELSE IF q = p /\ admitted THEN e ELSE meta[q]]
        /\ index' = IF admitted THEN (kept \ {meta[p]}) \cup {e}
                    ELSE IF p \in Spent THEN kept \ {meta[p]} ELSE kept
        /\ alarm' = IF admitted THEN Earlier(Ensured, clock + PendTtl) ELSE Ensured
        /\ Handled /\ UNCHANGED <<legacy, lastUse>>

\* GET oauth-pending: the callback of the browser that began takes the row;
\* one that has expired is deleted, a foreign browser changes nothing.
TakePending(p) ==
    /\ data[p] # Absent
    /\ DeleteExpiring(p)
    /\ Handled /\ UNCHANGED <<legacy, lastUse>>

-----------------------------------------------------------------------------
(* The alarm.                                                               *)

\* adoptLegacyExpiryRows: from the cursor on, the first Batch rows; those
\* without an entry get one.  A pass that is through begins again a day later.
Ahead == {i \in DOMAIN Order : i >= cursor.from /\ data[Order[i]] # Absent}
Page  == {i \in Ahead : Cardinality({j \in Ahead : j < i}) < Batch}
Whole == Cardinality(Page) < Batch

AdoptedAt(k) ==
    IF data[k] = Old THEN clock + MaxAge
    ELSE IF k \in Sess THEN EndOf(data[k])
    ELSE Earlier(data[k].seen, clock + PendTtl)

Orphans == IF cursor.at > clock THEN {} ELSE {Order[i] : i \in {j \in Page : meta[Order[j]] = NoMeta}}

Adoption(k) == [at |-> Later(clock + 1, AdoptedAt(k)), key |-> k, gen |-> 4]

AfterAdoption ==
    IF cursor.at > clock THEN cursor
    ELSE IF Whole THEN [from |-> 1, at |-> clock + Reconcile]
    ELSE [from |-> Max(Page) + 1, at |-> clock]

AdoptedMeta  == [k \in Key |-> IF k \in Orphans THEN Adoption(k) ELSE meta[k]]
AdoptedIndex == index \cup {Adoption(k) : k \in Orphans}

\* sweepExpiryIndex: the first Batch entries that are due.  An entry that is
\* no longer the key's deletes nothing but itself.
IsDue(e) == e.at <= clock

Sweeps(D) ==
    LET due == {e \in index : IsDue(e)} IN
    /\ D \subseteq due
    /\ Cardinality(D) = Earlier(Batch, Cardinality(due))
    /\ \A e \in D, f \in due \ D : e.at <= f.at

DeletesRow(e) == AdoptedMeta[e.key] = e

Gone(D) == {e.key : e \in {x \in D : DeletesRow(x)}}

Swept(D, rows, metas) ==
    /\ data' = [k \in Key |-> IF k \in rows THEN Absent ELSE data[k]]
    /\ meta' = [k \in Key |-> IF k \in metas THEN NoMeta ELSE AdoptedMeta[k]]
    /\ index' = AdoptedIndex \ D

NextAlarm(D) ==
    LET rest == AdoptedIndex \ D
        expiry == IF Cardinality(D) = Batch THEN clock + 1
                  ELSE IF rest = {} THEN Never ELSE Later(clock + 1, Soonest(rest))
    IN  Earlier(Later(clock + 1, AfterAdoption.at), expiry)

Alarm ==
    /\ alarm <= clock
    /\ \E D \in SUBSET index :
          /\ Sweeps(D)
          /\ Swept(D, Gone(D), Gone(D))
          /\ alarm' = NextAlarm(D)
    /\ cursor' = AfterAdoption
    /\ UNCHANGED <<clock, scheduled, crashed, legacy, lastUse>>

\* It dies on the way: rows it has swept are gone, of the last one perhaps
\* only the data, or the data and the meta row.  It is started again.
AlarmDies ==
    /\ alarm <= clock /\ crashed < MaxCrash
    /\ crashed' = crashed + 1
    /\ \E D \in SUBSET index, E \in SUBSET index :
          /\ Sweeps(D) /\ E \subseteq D /\ Cardinality(D \ E) <= 1
          /\ \E rows \in {Gone(D), Gone(E)}, metas \in {Gone(D), Gone(E)} :
                metas \subseteq rows /\ Swept(E, rows, metas)
    /\ cursor' = AfterAdoption
    /\ alarm' = clock /\ scheduled' = FALSE
    /\ UNCHANGED <<clock, legacy, lastUse>>

\* The Durable Object is evicted between two requests.
Evicted == scheduled /\ scheduled' = FALSE
           /\ UNCHANGED <<clock, data, meta, index, alarm, cursor, crashed, legacy, lastUse>>

\* The alarm comes within the unit of time it is set for, before or after the
\* requests of that unit.
Tick == clock < MaxNow /\ alarm > clock /\ clock' = clock + 1
        /\ UNCHANGED <<data, meta, index, alarm, cursor, scheduled, crashed, legacy, lastUse>>

-----------------------------------------------------------------------------
Init ==
    /\ clock = 0
    /\ data = [k \in Key |-> Absent] /\ meta = [k \in Key |-> NoMeta] /\ index = {}
    /\ alarm = Never /\ cursor = [from |-> 1, at |-> 0] /\ scheduled = FALSE
    /\ crashed = 0 /\ legacy = 0
    /\ lastUse = [s \in Sess |-> 0]

SessionStep(k) == IssueSession(k) \/ Resolve(k) \/ Logout(k) \/ LegacySession(k)

Next ==
    \/ \E k \in Sess : SessionStep(k)
    \/ \E p \in Pend : PutPending(p) \/ TakePending(p)
    \/ Alarm \/ AlarmDies \/ Evicted \/ Tick

Spec == Init /\ [][Next]_vars

-----------------------------------------------------------------------------
(* Properties.                                                              *)

\* resolve, putExpiring, sweepExpiryIndex: a session is taken from its user
\* only by a logout, by age, or after it has not been used for the idle time,
\* short of the interval in which uses are not written down - although the
\* sweep works from an index that is older than the row.
SessionLasts ==
    [][\A s \in Sess : data[s] # Absent /\ data'[s] = Absent =>
          \/ Logout(s)
          \/ data[s] # Old /\ clock >= data[s].born + MaxAge
          \/ clock - lastUse[s] > Idle - Touch]_vars

\* Every row with a deadline is in the index, and the alarm comes no later
\* than the first deadline that lies ahead: whatever a sweep that died has
\* left, nothing waits for a request to be deleted.
NothingIsForgotten ==
    /\ \A k \in Key : meta[k] # NoMeta => meta[k] \in index
    /\ \A e \in index : alarm <= Later(e.at, clock + 1)
    /\ \A k \in Key : data[k] # Absent /\ meta[k] = NoMeta /\ scheduled
                         => alarm <= Later(cursor.at, clock + 1)

\* A row whose time is over is deleted, whatever else is due: a round of the
\* alarm takes those with the earliest deadlines first, and comes back for the
\* rest in the next unit of time, a batch each; what a death has left of an
\* entry may be in the way once (sweepExpiryIndex, alarm).
RowsEnd ==
    \A k \in Key : data[k] # Absent /\ meta[k] # NoMeta
                       => Batch * (clock - meta[k].at) < Cardinality(Key) + crashed
=============================================================================

------------------------- MODULE InvocationReceipts -------------------------
(***************************************************************************)
(* Invocation receipts: how the agent performs a plugin call, keystrokes,  *)
(* a desktop action or a command without a request_id at most once per     *)
(* correlation id (packages/fleet-agent/plugin_invocations.go,             *)
(* input_invocations.go, plugin.go, storage.go, internal/receipts).        *)
(*                                                                         *)
(* A Call is one delivery, in a goroutine of its own.  In a process, the   *)
(* first delivery of an id is its leader: it makes a receipt object, which *)
(* later deliveries wait for.  Under it lies the ledger, an index file     *)
(* with an entry per id and a reply file per finished id; a process holds  *)
(* a copy of the index while it owns the journal lock.  A restart closes   *)
(* the ledger before the successor starts, and opens it again if the       *)
(* successor does not come up.  A receipt lapses an hour after its claim;  *)
(* here at any moment after its call has ended (LongCalls: at any moment). *)
(***************************************************************************)
EXTENDS Integers, FiniteSets

CONSTANTS
    Proc,           \* processes of the agent, each one started at most once
    Id,             \* correlation ids
    Call,           \* deliveries, one goroutine each
    Plugin, Desktop, Command, Keys, \* inputs with their callers, by kind: what a digest tells apart
    Nobody,         \* where there is no process, call or digest
    Capacity,       \* 512 in the code, in memory and in the index
    StorageFaults,  \* whether a write may fail
    Frail,          \* processes whose successor may fail to come up, or come too late
    LongCalls       \* whether a call may run for longer than its receipt is kept

Digest == Plugin \cup Desktop \cup Command \cup Keys

ASSUME NobodyAssumption   == Nobody \notin Proc \cup Call \cup Digest
ASSUME SomeAssumption     == Proc # {} /\ Id # {} /\ Digest # {}
ASSUME CapacityAssumption == Capacity \in Nat
ASSUME FrailAssumption    == Frail \subseteq Proc
ASSUME FlagsAssumption    == {StorageFaults, LongCalls} \subseteq BOOLEAN

\* What a finished invocation is answered with: its outcome; that nothing was
\* done; that the user has to be asked first; that the outcome is unknown;
\* that the outcome could not be saved.
Final   == {"result", "denied", "consent", "interrupted", "unsaved"}
Replies == Final \cup {"locked", "conflict", "full", "error"}

Entry   == [digest : Digest, complete : BOOLEAN, retryable : BOOLEAN, lapsed : BOOLEAN]
NoEntry == [digest |-> Nobody, complete |-> FALSE, retryable |-> FALSE, lapsed |-> FALSE]
Intent(d) == [NoEntry EXCEPT !.digest = d]

VARIABLES
    life,       \* [Proc -> {"unborn", "up", "down"}]
    lock,       \* the process that holds journal.lock
    locked,     \* [Proc -> BOOLEAN]: storageLocked
    restart,    \* [Proc -> {"none", "begun", "locking", "released"}]: handoffRestart
    ledger,     \* [Proc -> BOOLEAN]: a.invocationReceipts is there
    index,      \* [Proc -> [Id -> entry]]: its copy of the index
    disk,       \* [Id -> entry]: the index file
    reply,      \* [Id -> a final reply or "none"]: the reply files
    receipt,    \* [Proc -> [Id -> Call or Nobody]]: a.pluginInvocations
    object,     \* [Call -> receipt]: the receipt object the call made
    pc, proc, id, digest,   \* of a Call: what it does next, and its envelope
    follows,    \* [Call -> Call]: whose receipt it waits for
    outcome,    \* [Call -> a final reply]: how the execution it leads came out
    told,       \* [Call -> a reply or "none"]
    effects     \* [Id -> Nat]: executions since the last receipt lapsed

processes == <<life, lock, locked, restart>>
storage   == <<ledger, index, disk, reply>>
receipts  == <<receipt, object>>
calls     == <<pc, proc, id, digest, follows, outcome, told>>
vars      == <<processes, storage, receipts, calls, effects>>

Object  == [digest : Digest, done : BOOLEAN, reply : Final \cup {"none"}, retryable : BOOLEAN, lapsed : BOOLEAN]
NoObject == [digest |-> Nobody, done |-> FALSE, reply |-> "none", retryable |-> FALSE, lapsed |-> FALSE]

Opened(d)    == [NoObject EXCEPT !.digest = d]

\* Fault: the stored reply is not read.
ClosedUnread(d, r) == [Opened(d) EXCEPT !.done = TRUE, !.reply = "interrupted"]

Closed(d, r) == [Opened(d) EXCEPT !.done = TRUE, !.reply = r]

\* A reply is lost once the connection was closed for a restart.
Tell(c, r) ==
    /\ pc' = [pc EXCEPT ![c] = "end"]
    /\ told' = IF restart[proc[c]] = "none" THEN [told EXCEPT ![c] = r] ELSE told

Goto(c, step) == pc' = [pc EXCEPT ![c] = step] /\ UNCHANGED told

-----------------------------------------------------------------------------
(* The ledger: internal/receipts.                                          *)

Live(e) == e # NoEntry /\ ~(e.complete /\ e.lapsed)

\* Claim: what it says, and the index it would save.
\* "execute" saves next; every other answer saves nothing.
Pruned(ix) == [i \in Id |-> IF Live(ix[i]) THEN ix[i] ELSE NoEntry]

Entries(ix) == {i \in Id : ix[i] # NoEntry}

Claim(ix, i, d) ==
    IF ~Live(ix[i])
    THEN IF Cardinality(Entries(Pruned(ix))) >= Capacity
         THEN [says |-> "full", next |-> ix]
         ELSE [says |-> "execute", next |-> [Pruned(ix) EXCEPT ![i] = Intent(d)]]
    ELSE IF ix[i].digest # d THEN [says |-> "conflict", next |-> ix]
    ELSE IF ix[i].retryable
    THEN [says |-> "execute", next |-> [ix EXCEPT ![i].retryable = FALSE, ![i].complete = FALSE]]
    ELSE [says |-> IF ix[i].complete THEN "replay" ELSE "interrupted", next |-> ix]

\* save, and the copy that follows it.
Save(p, next) ==
    /\ disk' = next
    /\ index' = [index EXCEPT ![p] = next]

\* The replies of the pruned entries are removed.
Swept(next) == [i \in Id |-> IF next[i] = NoEntry THEN "none" ELSE reply[i]]

\* Fault: the index is saved before the reply.
FinishIndexFirst(p, i, r) ==
    /\ Save(p, [index[p] EXCEPT ![i].complete = TRUE, ![i].retryable = r = "consent"])
    /\ reply' \in {reply, [reply EXCEPT ![i] = r]}

\* finish (Complete, Defer): the reply file first, then the index.
Finish(p, i, r) ==
    /\ reply' = [reply EXCEPT ![i] = r]
    /\ Save(p, [index[p] EXCEPT ![i].complete = TRUE, ![i].retryable = r = "consent"])

\* The same with a write that fails: of the reply, or of the index.
FinishFails(i, r) ==
    /\ StorageFaults
    /\ reply' \in {reply, [reply EXCEPT ![i] = r]}
    /\ UNCHANGED <<index, disk>>

-----------------------------------------------------------------------------
(* A delivery arrives: dispatchInput, or executePlugin after handlePlugin. *)

Arrive(c, p, i, d) ==
    /\ pc[c] = "new"
    /\ life[p] = "up" /\ restart[p] = "none"
    /\ proc' = [proc EXCEPT ![c] = p] /\ id' = [id EXCEPT ![c] = i]
    /\ digest' = [digest EXCEPT ![c] = d]
    /\ Goto(c, "check")
    /\ UNCHANGED <<processes, storage, receipts, follows, outcome, effects>>

\* The first look at storageLocked, before the claim.
CheckLocked(c) ==
    /\ pc[c] = "check"
    /\ IF locked[proc[c]] THEN Tell(c, "locked") ELSE Goto(c, "claim")
    /\ UNCHANGED <<processes, storage, receipts, proc, id, digest, follows, outcome, effects>>

\* The receipt object of id[c] in its process, or NoObject.
Known(c) ==
    LET l == receipt[proc[c]][id[c]] IN IF l = Nobody THEN NoObject ELSE object[l]

\* The rows claimInvocation keeps: those without a lapsed object.
Kept(p) == [i \in Id |-> IF receipt[p][i] # Nobody /\ object[receipt[p][i]].done
                            /\ object[receipt[p][i]].lapsed
                         THEN Nobody ELSE receipt[p][i]]

Valid(o) == o # NoObject /\ ~(o.done /\ o.lapsed)

\* claimInvocation finds a receipt: it is another's, or this call waits for it.
Attach(c) ==
    /\ pc[c] = "claim"
    /\ Valid(Known(c))
    /\ IF Known(c).digest # digest[c]
       THEN Tell(c, "conflict") /\ UNCHANGED follows
       ELSE /\ ~Known(c).retryable
            /\ Goto(c, "wait")
            /\ follows' = [follows EXCEPT ![c] = receipt[proc[c]][id[c]]]
    /\ UNCHANGED <<processes, storage, receipts, proc, id, digest, outcome, effects>>

\* A receipt that may be retried is dropped, lapsed ones are.
Rows(c) ==
    IF Valid(Known(c)) THEN [Kept(proc[c]) EXCEPT ![id[c]] = Nobody] ELSE Kept(proc[c])

MayClaim(c) ==
    /\ pc[c] = "claim"
    /\ Valid(Known(c)) => Known(c).retryable /\ Known(c).digest = digest[c]

\* A receipt object of its own, done or not, in the row.
MakeReceipt(c, o) ==
    /\ receipt' = [receipt EXCEPT ![proc[c]] = [Rows(c) EXCEPT ![id[c]] = c]]
    /\ object' = [object EXCEPT ![c] = o]

RejectClaim(c, r) ==
    /\ receipt' = [receipt EXCEPT ![proc[c]] = Rows(c)]
    /\ Tell(c, r)
    /\ UNCHANGED <<storage, object>>

Full(c) == Cardinality({i \in Id : Rows(c)[i] # Nobody}) >= Capacity

\* claimInvocation beyond the row: the ledger decides, if there is one.
ClaimInvocation(c) ==
    LET p == proc[c]
        claim == Claim(index[p], id[c], digest[c])
    IN
    /\ MayClaim(c)
    /\ \/ Full(c) /\ RejectClaim(c, "full")
       \/ /\ ~Full(c) /\ ~ledger[p]
          /\ MakeReceipt(c, Opened(digest[c])) /\ Goto(c, "verdict")
          /\ UNCHANGED storage
       \/ /\ ~Full(c) /\ ledger[p] /\ claim.says \in {"conflict", "full"}
          /\ RejectClaim(c, claim.says)
       \/ /\ ~Full(c) /\ ledger[p] /\ claim.says \in {"execute", "replay"} /\ StorageFaults
          /\ RejectClaim(c, "error")
       \/ /\ ~Full(c) /\ ledger[p] /\ claim.says = "execute"
          /\ Save(p, claim.next) /\ reply' = Swept(claim.next)
          /\ MakeReceipt(c, Opened(digest[c])) /\ Goto(c, "verdict")
          /\ UNCHANGED ledger
       \/ /\ ~Full(c) /\ ledger[p] /\ claim.says \in {"replay", "interrupted"}
          /\ MakeReceipt(c, Closed(digest[c], IF claim.says = "replay" THEN reply[id[c]] ELSE "interrupted"))
          /\ Goto(c, "wait")
          /\ UNCHANGED storage
    /\ follows' = [follows EXCEPT ![c] = IF pc'[c] = "wait" THEN c ELSE @]
    /\ UNCHANGED <<processes, proc, id, digest, outcome, effects>>

\* A follower answers with the receipt, or gives up with its socket.
Follow(c) ==
    /\ pc[c] = "wait"
    /\ object[follows[c]].done
    /\ Tell(c, object[follows[c]].reply)
    /\ UNCHANGED <<processes, storage, receipts, proc, id, digest, follows, outcome, effects>>

GiveUp(c) ==
    /\ pc[c] = "wait"
    /\ Goto(c, "end")
    /\ UNCHANGED <<processes, storage, receipts, proc, id, digest, follows, outcome, effects>>

-----------------------------------------------------------------------------
(* The leader executes.                                                    *)

Outcome(c, r) == outcome' = [outcome EXCEPT ![c] = r]

\* The verdict refuses; executePlugin also while the process restarts.
Refuse(c) ==
    /\ pc[c] = "verdict"
    /\ Outcome(c, "denied") /\ Goto(c, "finish")
    /\ UNCHANGED <<processes, storage, receipts, proc, id, digest, follows, effects>>

MayLaunch(c) ==
    ~locked[proc[c]] /\ (digest[c] \in Plugin => restart[proc[c]] = "none")

Launch(c) ==
    /\ effects' = [effects EXCEPT ![id[c]] = @ + 1]
    /\ Goto(c, "running")

Proceed(c) ==
    /\ pc[c] = "verdict" /\ MayLaunch(c)
    /\ Launch(c)
    /\ UNCHANGED <<processes, storage, receipts, proc, id, digest, follows, outcome>>

\* A desktop action asks for consent and answers so.
AskByPolling(c) ==
    /\ pc[c] = "verdict" /\ digest[c] \in Desktop /\ ~locked[proc[c]]
    /\ Outcome(c, "consent") /\ Goto(c, "finish")
    /\ UNCHANGED <<processes, storage, receipts, proc, id, digest, follows, effects>>

\* A command or keys are parked until the user decides.
Park(c) ==
    /\ pc[c] = "verdict" /\ digest[c] \in Command \cup Keys /\ ~locked[proc[c]]
    /\ Goto(c, "parked")
    /\ UNCHANGED <<processes, storage, receipts, proc, id, digest, follows, outcome, effects>>

Approve(c) ==
    /\ pc[c] = "parked" /\ restart[proc[c]] = "none"
    /\ Launch(c)
    /\ UNCHANGED <<processes, storage, receipts, proc, id, digest, follows, outcome>>

RejectPending(c) ==
    /\ pc[c] = "parked"
    /\ Outcome(c, "denied") /\ Goto(c, "finish")
    /\ UNCHANGED <<processes, storage, receipts, proc, id, digest, follows, effects>>

\* The read loop ends and forgets pending keys: nobody answers for them.
DropKeys(c) ==
    /\ pc[c] = "parked" /\ digest[c] \in Keys
    /\ Goto(c, "dropped")
    /\ UNCHANGED <<processes, storage, receipts, proc, id, digest, follows, outcome, effects>>

End(c) ==
    /\ pc[c] = "running"
    /\ Outcome(c, "result") /\ Goto(c, "finish")
    /\ UNCHANGED <<processes, storage, receipts, proc, id, digest, follows, effects>>

\* finishInvocation, then the reply.
FinishInvocation(c) ==
    LET p == proc[c]
        Settle(r) ==
            /\ object' = [object EXCEPT ![c].done = TRUE, ![c].reply = r, ![c].retryable = r = "consent"]
            /\ Tell(c, r)
    IN
    /\ pc[c] = "finish"
    /\ \/ /\ ~ledger[p]
          /\ Settle(outcome[c])
          /\ UNCHANGED storage
       \/ /\ ledger[p] /\ index[p][id[c]] = NoEntry
          /\ Settle("unsaved")
          /\ UNCHANGED storage
       \/ /\ ledger[p] /\ index[p][id[c]] # NoEntry /\ index[p][id[c]].complete
          /\ Settle(outcome[c])
          /\ UNCHANGED storage
       \/ /\ ledger[p] /\ index[p][id[c]] # NoEntry /\ ~index[p][id[c]].complete
          /\ \/ Finish(p, id[c], outcome[c]) /\ Settle(outcome[c])
             \/ FinishFails(id[c], outcome[c]) /\ Settle("unsaved")
          /\ UNCHANGED ledger
    /\ UNCHANGED <<processes, receipt, proc, id, digest, follows, outcome, effects>>

-----------------------------------------------------------------------------
(* Processes, restarts and time.                                           *)

\* openStorage: the journal with its lock, then the index.
OpenStorage(p) ==
    /\ lock \in {Nobody, p}
    /\ lock' = p
    /\ ledger' = [ledger EXCEPT ![p] = TRUE]
    /\ index' = [index EXCEPT ![p] = disk]

\* A process starts when none is up, or as the successor of one that has
\* released its storage, for which it may come too late; without the lock it
\* ends at once.
Start(p) ==
    /\ life[p] = "unborn"
    /\ \A q \in Proc : life[q] = "up" => restart[q] = "released" \/ q \in Frail
    /\ \/ OpenStorage(p) /\ life' = [life EXCEPT ![p] = "up"]
       \/ /\ lock # Nobody /\ life' = [life EXCEPT ![p] = "down"]
          /\ UNCHANGED <<lock, ledger, index>>
    /\ UNCHANGED <<locked, restart, disk, reply, receipts, calls, effects>>

\* The ledger and the lock of p are gone: it has closed them, or has ended.
Dispossess(p) ==
    /\ ledger' = [ledger EXCEPT ![p] = FALSE]
    /\ lock' = IF lock = p THEN Nobody ELSE lock

Die(p) ==
    /\ life[p] = "up"
    /\ life' = [life EXCEPT ![p] = "down"]
    /\ Dispossess(p)
    /\ UNCHANGED <<locked, restart, index, disk, reply, receipts, calls, effects>>

BeginRestart(p) ==
    /\ life[p] = "up" /\ restart[p] = "none"
    /\ restart' = [restart EXCEPT ![p] = "begun"]
    /\ UNCHANGED <<life, lock, locked, storage, receipts, calls, effects>>

LockStorage(p) ==
    /\ life[p] = "up" /\ restart[p] = "begun"
    /\ restart' = [restart EXCEPT ![p] = "locking"]
    /\ locked' = [locked EXCEPT ![p] = TRUE]
    /\ UNCHANGED <<life, lock, storage, receipts, calls, effects>>

PluginTasks(p) ==
    {c \in Call : proc[c] = p /\ digest[c] \in Plugin /\ (pc[c] = "running" \/ (pc[c] = "finish" /\ outcome[c] = "result"))}

\* releaseStorageForHandoff: the ledger is closed when no plugin runs.
Release(p) ==
    /\ life[p] = "up" /\ restart[p] = "locking" /\ PluginTasks(p) = {}
    /\ restart' = [restart EXCEPT ![p] = "released"]
    /\ Dispossess(p)
    /\ UNCHANGED <<life, locked, index, disk, reply, receipts, calls, effects>>

\* recoverAfterFailedHandoff: the storage is unlocked if it was not released
\* or can be opened again; else it stays locked, at times with the journal.
Recover(p) ==
    /\ p \in Frail
    /\ life[p] = "up" /\ restart[p] # "none"
    /\ restart' = [restart EXCEPT ![p] = "none"]
    /\ \/ /\ ledger[p] /\ locked' = [locked EXCEPT ![p] = FALSE]
          /\ UNCHANGED <<lock, ledger, index>>
       \/ /\ ~ledger[p] /\ OpenStorage(p)
          /\ locked' = [locked EXCEPT ![p] = FALSE]
       \/ /\ ~ledger[p]
          /\ \/ lock # Nobody /\ UNCHANGED lock
             \/ lock = Nobody /\ StorageFaults /\ lock' \in {Nobody, p}
          /\ UNCHANGED <<locked, ledger, index>>
    /\ UNCHANGED <<life, disk, reply, receipts, calls, effects>>

UnderWay == {"claim", "wait", "verdict", "parked", "running", "finish"}

Alive(c) == pc[c] # "new" /\ life[proc[c]] = "up"

MayLapse(i) == LongCalls \/ \A c \in Call : Alive(c) /\ id[c] = i => pc[c] \notin UnderWay

\* An hour after its claim an entry lapses, in the index and in the copies;
\* what was executed before it was complete is then forgotten.
Lapse(i) ==
    /\ disk[i] # NoEntry /\ ~disk[i].lapsed
    /\ MayLapse(i)
    /\ disk' = [disk EXCEPT ![i].lapsed = TRUE]
    /\ index' = [p \in Proc |-> IF index[p][i] = NoEntry THEN index[p]
                                ELSE [index[p] EXCEPT ![i].lapsed = TRUE]]
    /\ effects' = IF disk[i].complete THEN [effects EXCEPT ![i] = 0] ELSE effects
    /\ UNCHANGED <<processes, ledger, reply, receipts, calls>>

\* The receipt in memory is not kept for less long than its entry.
LapseObject(c) ==
    LET i == id[c] IN
    /\ object[c] # NoObject /\ ~object[c].lapsed
    /\ disk[i] = NoEntry \/ disk[i].lapsed
    /\ MayLapse(i)
    /\ object' = [object EXCEPT ![c].lapsed = TRUE]
    /\ effects' = IF object[c].done /\ disk[i] = NoEntry THEN [effects EXCEPT ![i] = 0] ELSE effects
    /\ UNCHANGED <<processes, storage, receipt, calls>>

-----------------------------------------------------------------------------
Init ==
    /\ life = [p \in Proc |-> "unborn"]
    /\ lock = Nobody
    /\ locked = [p \in Proc |-> FALSE]
    /\ restart = [p \in Proc |-> "none"]
    /\ ledger = [p \in Proc |-> FALSE]
    /\ index = [p \in Proc |-> [i \in Id |-> NoEntry]]
    /\ disk = [i \in Id |-> NoEntry]
    /\ reply = [i \in Id |-> "none"]
    /\ receipt = [p \in Proc |-> [i \in Id |-> Nobody]]
    /\ object = [c \in Call |-> NoObject]
    /\ pc = [c \in Call |-> "new"]
    /\ proc \in [Call -> {CHOOSE p \in Proc : TRUE}]
    /\ id \in [Call -> {CHOOSE i \in Id : TRUE}]
    /\ digest \in [Call -> {CHOOSE d \in Digest : TRUE}]
    /\ follows = [c \in Call |-> c]
    /\ outcome = [c \in Call |-> "none"]
    /\ told = [c \in Call |-> "none"]
    /\ effects = [i \in Id |-> 0]

Settles(c) ==
    \/ CheckLocked(c) \/ Attach(c) \/ ClaimInvocation(c) \/ Follow(c)
    \/ Refuse(c) \/ Proceed(c) \/ AskByPolling(c) \/ Park(c)
    \/ End(c) \/ FinishInvocation(c)

CallStep(c) ==
    /\ Alive(c)
    /\ Settles(c) \/ GiveUp(c) \/ Approve(c) \/ RejectPending(c) \/ DropKeys(c)

ProcessStep(p) ==
    Start(p) \/ Die(p) \/ BeginRestart(p) \/ LockStorage(p) \/ Release(p) \/ Recover(p)

Next ==
    \/ \E c \in Call, p \in Proc, i \in Id, d \in Digest : Arrive(c, p, i, d)
    \/ \E c \in Call : CallStep(c) \/ LapseObject(c)
    \/ \E p \in Proc : ProcessStep(p)
    \/ \E i \in Id : Lapse(i)

Spec == Init /\ [][Next]_vars

-----------------------------------------------------------------------------
(* Properties.                                                             *)

\* Every variable keeps its range, and neither the index nor the map grows
\* beyond its capacity.
TypeOK ==
    /\ life \in [Proc -> {"unborn", "up", "down"}] /\ lock \in Proc \cup {Nobody}
    /\ locked \in [Proc -> BOOLEAN] /\ ledger \in [Proc -> BOOLEAN]
    /\ restart \in [Proc -> {"none", "begun", "locking", "released"}]
    /\ index \in [Proc -> [Id -> Entry \cup {NoEntry}]]
    /\ disk \in [Id -> Entry \cup {NoEntry}]
    /\ reply \in [Id -> Final \cup {"none"}]
    /\ receipt \in [Proc -> [Id -> Call \cup {Nobody}]]
    /\ object \in [Call -> Object \cup {NoObject}]
    /\ pc \in [Call -> UnderWay \cup {"new", "check", "dropped", "end"}]
    /\ proc \in [Call -> Proc] /\ id \in [Call -> Id] /\ digest \in [Call -> Digest]
    /\ follows \in [Call -> Call]
    /\ outcome \in [Call -> Final \cup {"none"}] /\ told \in [Call -> Replies \cup {"none"}]
    /\ effects \in [Id -> Nat]
    /\ Cardinality(Entries(disk)) <= Capacity
    /\ \A p \in Proc : Cardinality({i \in Id : receipt[p][i] # Nobody}) <= Capacity

\* An invocation has its effect at most once for as long as its receipt is
\* kept, over retries, crashes and restarts (plugin_invocations.go:11).
AtMostOnce == \A i \in Id : effects[i] <= 1

\* What runs has an entry of its input in the index on disk
\* (internal/receipts/store.go:108).
IntentIsDurable == \A c \in Call : Alive(c) /\ pc[c] = "running" => disk[id[c]].digest = digest[c]

\* The process that has the ledger owns the lock, and its copy of the index is
\* the index: what it saves never undoes what another process has saved.
LedgerIsCurrent == \A p \in Proc : ledger[p] => lock = p /\ index[p] = disk

\* A complete entry has its reply, and only a request for consent may be
\* retried: Claim never reads a reply that is not there.
CompleteHasReply ==
    \A i \in Id : disk[i].complete =>
        reply[i] # "none" /\ (disk[i].retryable <=> reply[i] = "consent")

\* As long as its receipt counts, an id stays bound to its input.
InputKept == \A i \in Id : Live(disk[i]) => disk'[i].digest = disk[i].digest

\* Who is told that nothing was done is told the truth.
DeniedTruly == \A c \in Call : told[c] = "none" /\ told'[c] = "denied" => effects[id[c]] = 0

\* Who asks for a completed invocation gets its stored reply, whichever
\* process and whichever receipt answers.
Counts(i, d) ==
    disk[i].complete /\ ~disk[i].retryable /\ ~disk[i].lapsed /\ disk[i].digest = d

ToldAsStored ==
    \A c \in Call :
        told[c] = "none" /\ told'[c] \in Final \ {"consent"} /\ Counts(id[c], digest[c])'
            => told'[c] = reply'[id[c]]

\* A retry that waits for a receipt waits for an answer: the receipt is done,
\* or its first delivery is still on its way there in the same process, waits
\* for the user, or was dropped with its socket (finishInvocation on every path).
WaitsForAnAnswer ==
    \A c \in Call : Alive(c) /\ pc[c] = "wait" =>
        LET l == follows[c] IN
        \/ object[l].done
        \/ proc[l] = proc[c] /\ pc[l] \in {"verdict", "parked", "running", "finish", "dropped"}
=============================================================================

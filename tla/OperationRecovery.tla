------------------------- MODULE OperationRecovery -------------------------
(***************************************************************************)
(* Recoverable commands on one machine: packages/fleet-agent/operation.go  *)
(* and the parts of main.go, update_guard.go and restart.go it runs        *)
(* between.                                                                *)
(*                                                                         *)
(* A "run" envelope that carries a request_id names an operation by its    *)
(* key (token namespace, operator fingerprint, corr).  Every delivery of   *)
(* it - the first one, a retry after a lost answer, a duplicate over the   *)
(* other transport - runs in a goroutine of its own, a Call here.  The     *)
(* handlers of one process share the map a.operations under operationMu;   *)
(* the processes of one machine (the one that crashed and the one started  *)
(* after it, or the two that overlap while a restart hands over) share     *)
(* only the directory operations/.                                         *)
(*                                                                         *)
(* The verdict of the permission check is a free choice here; the module   *)
(* WorkAdmission models how it is made.                                    *)
(***************************************************************************)
EXTENDS Integers, FiniteSets

CONSTANTS
    Proc,           \* processes of the agent, each one started at most once
    Key,            \* operation keys
    Input,          \* commands, told apart by their digest
    Call,           \* deliveries of a run envelope, one goroutine each
    Query,          \* deliveries of a get_result envelope
    Exit,           \* exit codes of a command
    Nobody,         \* stands where there is no process, call, key or command
    Capacity,       \* receipts the directory takes: 4096 in the code
    Faulty,         \* operations a read or a write of whose receipt may fail
    Hasty           \* processes whose successor may start before they end

Refused   == 126    \* the exit code of a refusal
Failed    == 1      \* the exit code of a denial or of a failed launch
Code      == Exit \cup {0, Failed, Refused}

ASSUME CapacityAssumption == Capacity \in Nat
ASSUME FaultyAssumption   == Faulty \subseteq Key
ASSUME HastyAssumption    == Hasty \subseteq Proc
ASSUME ApartAssumption    == Call \cap Query = {}
ASSUME ExitAssumption     == Exit \subseteq Int
ASSUME NobodyAssumption   == Nobody \notin Input \cup Proc \cup Key \cup Call \cup Query

Receipt(i, s, c) == [input |-> i, status |-> s, code |-> c]

Rows      == [input : Input \cup {Nobody}, status : {"running", "done", "unknown"}, code : Code]
NoRow     == Receipt(Nobody, "none", 0)
Absent    == Receipt(Nobody, "absent", 0)   \* no file
Corrupt   == Receipt(Nobody, "corrupt", 0)  \* a file that does not parse: not yet written
Receipts  == [input : Input, status : {"running", "done"}, code : Code]

Panes     == [state : {"none", "live", "exited"}, code : Code]
NoPane    == [state |-> "none", code |-> 0]

Unsettled == [settled |-> FALSE, code |-> 0]
Settled(c) == [settled |-> TRUE, code |-> c]

VARIABLES
    life,       \* [Proc -> {"unborn", "up", "down"}]
    closed,     \* [Proc -> BOOLEAN]: updateCommitting or restarting
    opLock,     \* [Proc -> Call or Nobody]: operationMu across a file write
    ops,        \* [Proc -> [Key -> row]]: a.operations
    admitted,   \* [Proc -> [Key -> Int]]: a.runAdmissions
    pane,       \* [Proc -> [Key -> pane]]: a.panes
    disk,       \* [Key -> receipt file]
    pc, proc, key, cmd,   \* of a Call: what its goroutine does next, and its envelope
    held,       \* [Call -> BOOLEAN]: it has not released its admission yet
    async,      \* [Call -> BOOLEAN]: the handler left the answer to another goroutine
    copy,       \* [Call -> row]: the copy taken under the lock
    outcome,    \* [Call -> Unsettled or Settled(code)]: how the operation it owns came out
    starts,     \* [Key -> Nat]: processes launched for the operation
    ran,        \* [Key -> SUBSET Input]: the commands launched for it
    qpc, qproc, qkey, qadm, qrow,   \* of a Query: the same, and its snapshots
    qknown,     \* [Query -> BOOLEAN]: the process knew the operation when it arrived
    before,     \* [Call \cup Query -> file]: the receipt when the envelope arrived
    said        \* the last reply handed to a sink

procVars  == <<life, closed, opLock, ops, admitted, pane>>
callVars  == <<pc, proc, key, cmd, held, async, copy, outcome>>
ghostVars == <<starts, ran>>
queryVars == <<qpc, qproc, qkey, qadm, qrow, qknown>>
vars      == <<procVars, disk, callVars, ghostVars, queryVars, before, said>>

Reply(who, k, kind, c, fault) ==
    [by |-> who, key |-> k, kind |-> kind, code |-> c, fault |-> fault]
Silence == Reply(Nobody, Nobody, "nothing", 0, FALSE)

-----------------------------------------------------------------------------
(* The receipt files.                                                      *)

IsReceipt(f) == f.status \in {"running", "done"}

\* readOperation: a receipt that is not done reads back as unknown.
ReadBack(f) ==
    IF ~IsReceipt(f) THEN NoRow
    ELSE IF f.status = "done" THEN f ELSE [f EXCEPT !.status = "unknown"]

\* Whether readOperation may return an error for the file of k.
ReadMayFail(k) == disk[k] = Corrupt \/ k \in Faulty
ReadMaySucceed(k) == disk[k] # Corrupt

Files == {k \in Key : disk[k] # Absent}

\* Fault: the intent is created without O_EXCL.
MayCreateOver(k) == Cardinality(Files) < Capacity

\* writeOperation(create): room for another receipt, and O_EXCL.
MayCreate(k) == Cardinality(Files) < Capacity /\ disk[k] = Absent

\* Fault: the receipt is rewritten in place.
RewriteInPlace(k, row) ==
    \/ disk' = [disk EXCEPT ![k] = row]
    \/ k \in Faulty /\ disk' = [disk EXCEPT ![k] = Corrupt]

\* writeOperation over an existing receipt: a temporary file, then a rename.
Rewrite(k, row) ==
    \/ disk' = [disk EXCEPT ![k] = row]
    \/ k \in Faulty /\ UNCHANGED disk

-----------------------------------------------------------------------------
(* What a reply says.                                                      *)

\* operationEnv.
Envelope(who, k, row) ==
    IF row = NoRow \/ row.status = "unknown" THEN Reply(who, k, "unknown", 0, FALSE)
    ELSE IF row.status = "done" THEN Reply(who, k, "done", row.code, FALSE)
    ELSE Reply(who, k, "accepted", 0, FALSE)

\* replyOperation: a finished pane answers for a row that is not unknown.
Answer(who, p, k, row) ==
    IF row # NoRow /\ pane[p][k].state = "exited" /\ row.status # "unknown"
    THEN Reply(who, k, "done", pane[p][k].code, FALSE)
    ELSE Envelope(who, k, row)

\* replyStoredRun: the same key with another command is a conflict.
StoredReply(c, p, row) ==
    IF row.input # cmd[c] THEN Reply(c, key[c], "conflict", Refused, FALSE)
    ELSE Answer(c, p, key[c], row)

Unreadable(who, k)  == Reply(who, k, "unknown", 0, TRUE)
NotStarted(who, k)  == Reply(who, k, "notStarted", Refused, FALSE)

\* Fault: an agent that is closing refuses a duplicate like a new request.
BusyReplyBlind(c, p, row) == NotStarted(c, key[c])

\* What an agent that is closing replies: a duplicate is a query.
BusyReply(c, p, row) == IF row = NoRow THEN NotStarted(c, key[c]) ELSE StoredReply(c, p, row)

-----------------------------------------------------------------------------
Init ==
    /\ life = [p \in Proc |-> "unborn"]
    /\ closed = [p \in Proc |-> FALSE]
    /\ opLock = [p \in Proc |-> Nobody]
    /\ ops = [p \in Proc |-> [k \in Key |-> NoRow]]
    /\ admitted = [p \in Proc |-> [k \in Key |-> 0]]
    /\ pane = [p \in Proc |-> [k \in Key |-> NoPane]]
    /\ disk = [k \in Key |-> Absent]
    /\ pc = [c \in Call |-> "idle"]
    /\ proc = [c \in Call |-> Nobody]
    /\ key = [c \in Call |-> Nobody]
    /\ cmd = [c \in Call |-> Nobody]
    /\ held = [c \in Call |-> FALSE]
    /\ copy = [c \in Call |-> NoRow]
    /\ async = [c \in Call |-> FALSE]
    /\ outcome = [c \in Call |-> Unsettled]
    /\ starts = [k \in Key |-> 0]
    /\ ran = [k \in Key |-> {}]
    /\ qpc = [q \in Query |-> "idle"]
    /\ qproc = [q \in Query |-> Nobody]
    /\ qkey = [q \in Query |-> Nobody]
    /\ qadm = [q \in Query |-> FALSE]
    /\ qrow = [q \in Query |-> NoRow]
    /\ qknown = [q \in Query |-> FALSE]
    /\ before = [x \in Call \cup Query |-> Absent]
    /\ said = Silence

\* The goroutine of c is about to do the step s, in a process that is alive.
Alive(p) == p \in Proc /\ life[p] = "up"
At(c, s) == pc[c] = s /\ Alive(proc[c])
Goto(c, s) == pc' = [pc EXCEPT ![c] = s]
LockFree(p) == opLock[p] = Nobody

-----------------------------------------------------------------------------
(* Processes: boot, hand over, crash.                                      *)

\* main, or spawnSuccessor while the predecessor is still serving out.
Start(p) ==
    /\ life[p] = "unborn"
    /\ \A q \in Proc : life[q] = "up" => q \in Hasty /\ closed[q]
    /\ life' = [life EXCEPT ![p] = "up"]
    /\ UNCHANGED <<closed, opLock, ops, admitted, pane, disk, callVars, ghostVars,
                   queryVars, before, said>>

\* beginAutoUpdateCommit or beginRestartLocked, and their ends.
SetClosed(p) ==
    /\ life[p] = "up"
    /\ closed' = [closed EXCEPT ![p] = ~@]
    /\ UNCHANGED <<life, opLock, ops, admitted, pane, disk, callVars, ghostVars,
                   queryVars, before, said>>

\* A crash, or the exit at the end of a hand-over: the memory is gone, the
\* files and the half-written file stay.
Die(p) ==
    /\ life[p] = "up"
    /\ life' = [life EXCEPT ![p] = "down"]
    /\ closed' = [closed EXCEPT ![p] = FALSE]
    /\ opLock' = [opLock EXCEPT ![p] = Nobody]
    /\ ops' = [ops EXCEPT ![p] = [k \in Key |-> NoRow]]
    /\ admitted' = [admitted EXCEPT ![p] = [k \in Key |-> 0]]
    /\ pane' = [pane EXCEPT ![p] = [k \in Key |-> NoPane]]
    /\ UNCHANGED <<disk, callVars, ghostVars, queryVars, before, said>>

-----------------------------------------------------------------------------
(* A run envelope.                                                         *)

\* dispatchEnvelope: the admission is reserved before the goroutine starts;
\* an agent that is closing answers from a goroutine without one.
Dispatch(c, p, k, i) ==
    /\ pc[c] = "idle" /\ life[p] = "up"
    /\ proc' = [proc EXCEPT ![c] = p]
    /\ key' = [key EXCEPT ![c] = k]
    /\ cmd' = [cmd EXCEPT ![c] = i]
    /\ IF closed[p]
       THEN Goto(c, "busy") /\ UNCHANGED <<admitted, held>>
       ELSE /\ Goto(c, "lookup")
            /\ admitted' = [admitted EXCEPT ![p][k] = @ + 1]
            /\ held' = [held EXCEPT ![c] = TRUE]
    /\ before' = [before EXCEPT ![c] = disk[k]]
    /\ UNCHANGED <<life, closed, opLock, ops, pane, disk, async, copy, outcome, ghostVars,
                   queryVars, said>>

\* replyUpdateBusy: a duplicate is a query; a new request is refused unstarted.
ReplyUpdateBusy(c) ==
    LET p == proc[c]
        k == key[c]
        row == IF ops[p][k] # NoRow THEN ops[p][k] ELSE ReadBack(disk[k])
    IN /\ At(c, "busy") /\ LockFree(p)
       /\ Goto(c, "done")
       /\ \/ /\ ops[p][k] = NoRow /\ ReadMayFail(k)
             /\ said' = Unreadable(c, k)
          \/ /\ ops[p][k] # NoRow \/ ReadMaySucceed(k)
             /\ said' = BusyReply(c, p, row)
       /\ UNCHANGED <<procVars, disk, proc, key, cmd, held, async, copy, outcome, ghostVars,
                      queryVars, before>>

\* handleRecoverableRun up to the row it finds, in memory or on disk.
FindRow(c) ==
    LET p == proc[c]
        k == key[c]
        row == IF ops[p][k] # NoRow THEN ops[p][k] ELSE ReadBack(disk[k])
    IN /\ At(c, "lookup") /\ LockFree(p)
       /\ \/ /\ ops[p][k] = NoRow /\ ReadMayFail(k)
             /\ Goto(c, "done")
             /\ said' = Unreadable(c, k)
             /\ UNCHANGED <<ops, copy, opLock>>
          \/ /\ ops[p][k] # NoRow \/ ReadMaySucceed(k)
             /\ row # NoRow
             /\ ops' = [ops EXCEPT ![p][k] = row]
             /\ copy' = [copy EXCEPT ![c] = row]
             /\ Goto(c, "stored")
             /\ UNCHANGED <<said, opLock>>
          \/ /\ ops[p][k] = NoRow /\ ReadMaySucceed(k)
             /\ row = NoRow
             /\ opLock' = [opLock EXCEPT ![p] = c]
             /\ Goto(c, "create")
             /\ UNCHANGED <<said, ops, copy>>
       /\ UNCHANGED <<life, closed, admitted, pane, disk, proc, key, cmd, held, async,
                      outcome, ghostVars, queryVars, before>>

\* replyStoredRun, after the lock is released.
ReplyStoredRun(c) ==
    /\ At(c, "stored")
    /\ Goto(c, "done")
    /\ said' = StoredReply(c, proc[c], copy[c])
    /\ copy' = [copy EXCEPT ![c] = NoRow]
    /\ UNCHANGED <<procVars, disk, proc, key, cmd, held, async, outcome, ghostVars, queryVars,
                   before>>

\* writeOperation(create): the capacity, then O_CREATE|O_EXCL.
CreateIntent(c) ==
    LET p == proc[c]
        k == key[c]
    IN /\ At(c, "create")
       /\ \/ /\ MayCreate(k)
             /\ disk' = [disk EXCEPT ![k] = Corrupt]
             /\ Goto(c, "seal")
             /\ UNCHANGED <<opLock, said>>
          \/ /\ ~MayCreate(k) \/ k \in Faulty
             /\ opLock' = [opLock EXCEPT ![p] = Nobody]
             /\ said' = NotStarted(c, k)
             /\ Goto(c, "done")
             /\ UNCHANGED disk
       /\ UNCHANGED <<life, closed, ops, admitted, pane, proc, key, cmd, held, async, copy, outcome,
                      ghostVars, queryVars, before>>

\* The content is written and synced; a failure leaves the file behind.
SealIntent(c) ==
    LET p == proc[c]
        k == key[c]
        row == Receipt(cmd[c], "running", 0)
    IN /\ At(c, "seal")
       /\ opLock' = [opLock EXCEPT ![p] = Nobody]
       /\ \/ /\ disk' = [disk EXCEPT ![k] = row]
             /\ ops' = [ops EXCEPT ![p][k] = row]
             /\ Goto(c, "verdict")
             /\ UNCHANGED said
          \/ /\ k \in Faulty
             /\ disk' \in {disk, [disk EXCEPT ![k] = row]}
             /\ said' = NotStarted(c, k)
             /\ Goto(c, "done")
             /\ UNCHANGED ops
       /\ UNCHANGED <<life, closed, admitted, pane, proc, key, cmd, held, async, copy, outcome,
                      ghostVars, queryVars, before>>

\* handleRun: refuse, ask at the machine, or go on.
HandleRun(c) ==
    /\ At(c, "verdict")
    /\ \/ Goto(c, "spawn") /\ UNCHANGED <<async, outcome>>
       \/ /\ Goto(c, "consent")
          /\ async' = [async EXCEPT ![c] = TRUE]
          /\ UNCHANGED outcome
       \/ /\ Goto(c, "finish")
          /\ \E x \in {Refused, Failed} : outcome' = [outcome EXCEPT ![c] = Settled(x)]
          /\ UNCHANGED async
    /\ UNCHANGED <<procVars, disk, proc, key, cmd, held, copy, ghostVars, queryVars, before,
                   said>>

\* approve.
Approve(c) ==
    /\ At(c, "consent") /\ ~closed[proc[c]]
    /\ Goto(c, "spawn")
    /\ UNCHANGED <<procVars, disk, proc, key, cmd, held, async, copy, outcome, ghostVars,
                   queryVars, before, said>>

\* rejectPending, for a denial, a permit turned off or a lost connection.
RejectPending(c) ==
    /\ At(c, "consent")
    /\ Goto(c, "finish")
    /\ outcome' = [outcome EXCEPT ![c] = Settled(Failed)]
    /\ UNCHANGED <<procVars, disk, proc, key, cmd, held, async, copy, ghostVars, queryVars,
                   before, said>>

\* spawnPane: the command is launched and accepted, or it cannot be launched.
SpawnPane(c) ==
    LET p == proc[c]
        k == key[c]
    IN /\ At(c, "spawn")
       /\ \/ /\ Goto(c, "running")
             /\ pane' = [pane EXCEPT ![p][k] = [state |-> "live", code |-> 0]]
             /\ starts' = [starts EXCEPT ![k] = @ + 1]
             /\ ran' = [ran EXCEPT ![k] = @ \cup {cmd[c]}]
             /\ async' = [async EXCEPT ![c] = TRUE]
             /\ said' = Reply(c, k, "accepted", 0, FALSE)
             /\ UNCHANGED outcome
          \/ /\ Goto(c, "finish")
             /\ outcome' = [outcome EXCEPT ![c] = Settled(Failed)]
             /\ UNCHANGED <<pane, ghostVars, async, said>>
       /\ UNCHANGED <<life, closed, opLock, ops, admitted, disk, proc, key, cmd, held, copy,
                      queryVars, before>>

\* The command exits by itself; its pane keeps the code.
PaneExit(c) ==
    /\ At(c, "running")
    /\ Goto(c, "exited")
    /\ \E x \in Exit :
          /\ pane' = [pane EXCEPT ![proc[c]][key[c]] = [state |-> "exited", code |-> x]]
          /\ outcome' = [outcome EXCEPT ![c] = Settled(x)]
    /\ UNCHANGED <<life, closed, opLock, ops, admitted, disk, proc, key, cmd, held, async,
                   copy, ghostVars, queryVars, before, said>>

\* retainCompletion: the supervisor lets go of an old finished pane, which the
\* polling goroutine still holds.
RetirePane(p, k) ==
    /\ life[p] = "up" /\ pane[p][k].state = "exited"
    /\ pane' = [pane EXCEPT ![p][k] = NoPane]
    /\ UNCHANGED <<life, closed, opLock, ops, admitted, disk, callVars, ghostVars, queryVars,
                   before, said>>

\* The polling goroutine of spawnPane sees the exit.
PollFinished(c) ==
    /\ At(c, "exited")
    /\ Goto(c, "finish")
    /\ UNCHANGED <<procVars, disk, proc, key, cmd, held, async, copy, outcome, ghostVars,
                   queryVars, before, said>>

\* The tracked sink: the row is done in memory, then on disk, under the lock.
RecordDone(c) ==
    LET p == proc[c]
        k == key[c]
        row == Receipt(cmd[c], "done", outcome[c].code)
    IN /\ At(c, "finish") /\ LockFree(p)
       /\ Goto(c, "send")
       /\ ops' = [ops EXCEPT ![p][k] = row]
       /\ Rewrite(k, row)
       /\ UNCHANGED <<life, closed, opLock, admitted, pane, proc, key, cmd, held, async, copy, outcome,
                      ghostVars, queryVars, before, said>>

SendResult(c) ==
    /\ At(c, "send")
    /\ Goto(c, "done")
    /\ said' = Reply(c, key[c], "done", outcome[c].code, FALSE)
    /\ UNCHANGED <<procVars, disk, proc, key, cmd, held, async, copy, outcome, ghostVars, queryVars, before>>

\* Fault: only a handler that has replied gives its admission back.
ReleaseOnReply(c) ==
    /\ held[c] /\ Alive(proc[c]) /\ pc[c] = "done"
    /\ held' = [held EXCEPT ![c] = FALSE]
    /\ admitted' = [admitted EXCEPT ![proc[c]][key[c]] = @ - 1]
    /\ UNCHANGED <<life, closed, opLock, ops, pane, disk, pc, proc, key, cmd, async, copy,
                   outcome, ghostVars, queryVars, before, said>>

\* The handler returns once it has replied, parked its consent or started the
\* command, and gives its admission back.
Release(c) ==
    LET p == proc[c]
        k == key[c]
    IN /\ held[c] /\ Alive(p)
       /\ async[c] \/ pc[c] = "done"
       /\ held' = [held EXCEPT ![c] = FALSE]
       /\ admitted' = [admitted EXCEPT ![p][k] = @ - 1]
       /\ UNCHANGED <<life, closed, opLock, ops, pane, disk, pc, proc, key, cmd, async, copy,
                      outcome, ghostVars, queryVars, before, said>>

-----------------------------------------------------------------------------
(* A get_result envelope: handleResultQuery.                               *)

\* The admission is read first ...
SnapshotAdmission(q, p, k) ==
    /\ qpc[q] = "idle" /\ life[p] = "up"
    /\ qpc' = [qpc EXCEPT ![q] = "row"]
    /\ qproc' = [qproc EXCEPT ![q] = p]
    /\ qkey' = [qkey EXCEPT ![q] = k]
    /\ qadm' = [qadm EXCEPT ![q] = admitted[p][k] > 0]
    /\ before' = [before EXCEPT ![q] = disk[k]]
    /\ qknown' = [qknown EXCEPT ![q] =
                     \/ \E c \in Call : /\ proc[c] = p /\ key[c] = k /\ held[c]
                                       /\ before[c] = Absent
                     \/ ops[p][k] # NoRow /\ ops[p][k].status # "unknown"]
    /\ UNCHANGED <<procVars, disk, callVars, ghostVars, qrow, said>>

\* Fault: an admission does not stand in for a row that is missing.
StandInForPane(q) ==
    IF pane[qproc[q]][qkey[q]] # NoPane THEN Receipt(Nobody, "running", 0) ELSE NoRow

\* What answers for a row that is missing.
StandIn(q) ==
    IF qadm[q] \/ pane[qproc[q]][qkey[q]] # NoPane
    THEN Receipt(Nobody, "running", 0) ELSE NoRow

\* ... then the row, and an admission stands in for a row that is missing.
ReadRow(q) ==
    LET p == qproc[q]
        k == qkey[q]
        row == IF ops[p][k] # NoRow THEN ops[p][k] ELSE ReadBack(disk[k])
    IN /\ qpc[q] = "row" /\ Alive(p) /\ LockFree(p)
       /\ \/ /\ ops[p][k] = NoRow /\ ReadMayFail(k)
             /\ qpc' = [qpc EXCEPT ![q] = "unreadable"]
             /\ UNCHANGED qrow
          \/ /\ ops[p][k] # NoRow \/ ReadMaySucceed(k)
             /\ qpc' = [qpc EXCEPT ![q] = "reply"]
             /\ qrow' = [qrow EXCEPT ![q] = IF row = NoRow THEN StandIn(q) ELSE row]
       /\ UNCHANGED <<procVars, disk, callVars, ghostVars, qproc, qkey, qadm, qknown,
                      before, said>>

ReplyQuery(q) ==
    LET p == qproc[q]
        k == qkey[q]
    IN /\ qpc[q] \in {"reply", "unreadable"} /\ Alive(p)
       /\ qpc' = [qpc EXCEPT ![q] = "done"]
       /\ said' = IF qpc[q] = "unreadable" THEN Unreadable(q, k) ELSE Answer(q, p, k, qrow[q])
       /\ qrow' = [qrow EXCEPT ![q] = NoRow]
       /\ UNCHANGED <<procVars, disk, callVars, ghostVars, qproc, qkey, qadm, qknown, before>>

HandleResultQuery(q) ==
    \/ \E p \in Proc, k \in Key : SnapshotAdmission(q, p, k)
    \/ ReadRow(q)
    \/ ReplyQuery(q)

-----------------------------------------------------------------------------
\* What the goroutines of c do by themselves once they are scheduled.
CallStep(c) ==
    \/ ReplyUpdateBusy(c) \/ FindRow(c) \/ ReplyStoredRun(c)
    \/ CreateIntent(c) \/ SealIntent(c) \/ HandleRun(c) \/ SpawnPane(c)
    \/ PollFinished(c) \/ RecordDone(c) \/ SendResult(c)

Next ==
    \/ \E p \in Proc : Start(p) \/ SetClosed(p) \/ Die(p)
    \/ \E p \in Proc, k \in Key : RetirePane(p, k)
    \/ \E c \in Call : \E p \in Proc, k \in Key, i \in Input : Dispatch(c, p, k, i)
    \/ \E c \in Call : CallStep(c) \/ Release(c)
    \/ \E c \in Call : Approve(c) \/ RejectPending(c) \/ PaneExit(c)
    \/ \E q \in Query : HandleResultQuery(q)

Spec == Init /\ [][Next]_vars

\* The Go scheduler runs every runnable goroutine, and operationMu is not
\* withheld for ever from one that waits for it.  The user need never answer,
\* a command need never exit, a connection need never deliver.
Fairness ==
    /\ \A c \in Call : SF_vars(CallStep(c)) /\ WF_vars(Release(c))
    /\ \A q \in Query : SF_vars(ReadRow(q)) /\ WF_vars(ReplyQuery(q))

FairSpec == Spec /\ Fairness

-----------------------------------------------------------------------------
(* Properties.                                                             *)

CallSteps  == {"idle", "busy", "lookup", "stored", "create", "seal", "verdict", "consent",
               "spawn", "running", "exited", "finish", "send", "done"}
QuerySteps == {"idle", "row", "reply", "unreadable", "done"}
Kinds      == {"nothing", "accepted", "done", "unknown", "conflict", "notStarted"}

Replies    == [by : Call \cup Query \cup {Nobody}, key : Key \cup {Nobody}, kind : Kinds,
               code : Code, fault : BOOLEAN]

TypeOK ==
    /\ life \in [Proc -> {"unborn", "up", "down"}]
    /\ closed \in [Proc -> BOOLEAN]
    /\ opLock \in [Proc -> Call \cup {Nobody}]
    /\ ops \in [Proc -> [Key -> Rows \cup {NoRow}]]
    /\ admitted \in [Proc -> [Key -> Int]]
    /\ pane \in [Proc -> [Key -> Panes]]
    /\ disk \in [Key -> Receipts \cup {Absent, Corrupt}]
    /\ pc \in [Call -> CallSteps]
    /\ proc \in [Call -> Proc \cup {Nobody}]
    /\ key \in [Call -> Key \cup {Nobody}]
    /\ cmd \in [Call -> Input \cup {Nobody}]
    /\ held \in [Call -> BOOLEAN]
    /\ async \in [Call -> BOOLEAN]
    /\ copy \in [Call -> Rows \cup {NoRow}]
    /\ outcome \in [Call -> [settled : BOOLEAN, code : Code]]
    /\ starts \in [Key -> Nat]
    /\ ran \in [Key -> SUBSET Input]
    /\ qpc \in [Query -> QuerySteps]
    /\ qproc \in [Query -> Proc \cup {Nobody}]
    /\ qkey \in [Query -> Key \cup {Nobody}]
    /\ qadm \in [Query -> BOOLEAN]
    /\ qrow \in [Query -> Rows \cup {NoRow}]
    /\ qknown \in [Query -> BOOLEAN]
    /\ before \in [Call \cup Query -> Receipts \cup {Absent, Corrupt}]
    /\ said \in Replies

\* "Never executes an existing receipt again": however often an operation is
\* delivered, over crashes, restarts and processes that overlap, the command
\* is launched at most once (handleRecoverableRun, writeOperation).
AtMostOnce == \A k \in Key : starts[k] <= 1

\* "Persists intent before execution": a launched operation has a readable
\* receipt of exactly the command that was launched, also after a crash.
IntentPrecedesStart ==
    \A k \in Key : starts[k] > 0 => IsReceipt(disk[k]) /\ ran[k] = {disk[k].input}

\* A completed receipt is never replaced, by a retry, a conflict, a second
\* process or a late completion.
ReceiptIsFinal == [][\A k \in Key : disk[k].status = "done" => disk'[k] = disk[k]]_vars

\* Whatever path a completed answer took - live pane, row in memory, receipt -
\* it carries the outcome of the one call that owned the operation.
DoneIsTheOutcome ==
    said.kind = "done" =>
        \E c \in Call : /\ key[c] = said.key /\ outcome[c] = Settled(said.code)
                       /\ \A d \in Call \ {c} :
                             key[d] = said.key => ~outcome[d].settled

\* "A following query must see pending admission, not a missing receipt": a
\* query that arrives while the first delivery of an operation is admitted, or
\* when the process knows of it, is never told that its outcome is unknown,
\* if its receipt can be read and written.
NoFalseUnknown ==
    \A q \in Query : said.by = q /\ said.kind = "unknown" /\ ~said.fault /\ qkey[q] \notin Faulty => ~qknown[q]

\* "A completed receipt can report its exit code": a retry with the same
\* command, or a query, that arrives when the receipt is complete is answered
\* with the outcome in it, unless the receipt cannot be read.
CompletedReceiptAnswers ==
    \A x \in Call \cup Query :
        /\ said.by = x /\ before[x].status = "done"
        /\ said.kind # "conflict" /\ ~said.fault
        => said.kind = "done" /\ said.code = before[x].code

\* One process after the other so far: none has run whose successor starts early.
OneByOne == \A p \in Hasty : life[p] = "unborn"

\* Who is told that a command was not started is told the truth: nothing of the
\* operation had been launched (writeOperation, replyUpdateBusy).
NotStartedIsTrue ==
    [][said' # said /\ said'.kind = "notStarted" /\ OneByOne => starts[said'.key] = 0]_vars

\* A receipt that is done stays, and "not started" is true where no process
\* overlaps another.
ReceiptsAreTrue == ReceiptIsFinal /\ NotStartedIsTrue

\* What a query or a retry is told is what happened (handleResultQuery), where
\* no process overlaps another.
AnswersAreTrue == DoneIsTheOutcome /\ (OneByOne => CompletedReceiptAnswers /\ NoFalseUnknown)

\* A delivered run is answered, parked for consent or started, unless its
\* process dies: no path drops it and operationMu is never left locked.
Resting == {"done", "consent", "running"}
CallSettles ==
    \A c \in Call : pc[c] \in {"busy", "lookup", "exited", "finish"}
                    ~> pc[c] \in Resting \/ ~Alive(proc[c])

\* An admission is always given back while its process lives (a leaked one
\* would make every later query answer "running" and stop automatic updates).
AdmissionDrains == \A c \in Call : held[c] ~> ~held[c] \/ ~Alive(proc[c])

-----------------------------------------------------------------------------
(* Why it holds: the invariant the proofs use.  A call that created the    *)
(* receipt owns the operation until it has answered, in whatever process,  *)
(* and after its process died.                                             *)

Owning == {"seal", "verdict", "consent", "spawn", "running", "exited", "finish", "send"}

\* Nobody shares an operation, and the receipt keeps pace with its owner: empty
\* while it is sealed, then running, and of the owner's command.
Ownership ==
    \A c \in Call : pc[c] \in Owning =>
        /\ \A d \in Call \ {c} : pc[d] \in Owning => key[d] # key[c]
        /\ pc[c] = "seal" => disk[key[c]] = Corrupt
        /\ pc[c] # "seal" => IsReceipt(disk[key[c]]) /\ disk[key[c]].input = cmd[c]
        /\ pc[c] \notin {"seal", "send"} => disk[key[c]].status = "running"
        /\ pc[c] \in {"seal", "verdict", "consent", "spawn"} => starts[key[c]] = 0

\* What has run is in the receipt.
Accounted ==
    \A k \in Key :
        /\ starts[k] = 0 => ran[k] = {}
        /\ starts[k] # 0 => starts[k] = 1 /\ IsReceipt(disk[k]) /\ ran[k] = {disk[k].input}

OwnershipInv == Ownership /\ Accounted

\* What holds of the handlers (handleRecoverableRun, writeOperation) whatever
\* processes overlap, crash or fail to write: an operation is launched once, by
\* the call that owns it, and on the strength of its receipt.
OperationIsSafe == TypeOK /\ AtMostOnce /\ IntentPrecedesStart /\ OwnershipInv

-----------------------------------------------------------------------------
(* The promise of OperationOnce, read off the receipts and the launches.   *)

BoundOf(k)   == disk[k].input
VerdictOf(k) == IF disk[k].status = "done" THEN <<disk[k].code>> ELSE <<>>

Once == INSTANCE OperationOnce WITH
    Code <- {<<x>> : x \in Code}, Unbound <- Nobody, Undecided <- <<>>,
    bound <- [k \in Key |-> BoundOf(k)],
    launches <- starts,
    verdict <- [k \in Key |-> VerdictOf(k)]

\* The handlers, the processes and their crashes implement the promise.
ImplementsOnce == Once!Spec

\* Both: every delivery settles, and gives its admission back.
DeliveriesSettle == CallSettles /\ AdmissionDrains
=============================================================================

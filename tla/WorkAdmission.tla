--------------------------- MODULE WorkAdmission ---------------------------
(***************************************************************************)
(* Who may work on a device, and when an update may take the device away:  *)
(* the admission of requests, the consent of the user and the hand-over to *)
(* a successor, as packages/fleet-agent does them under a.mu               *)
(* (update_guard.go, main.go, autoupdate.go, update.go, restart.go).       *)
(*                                                                         *)
(* One process.  A Job is one request: a command (Run), keys for a pane    *)
(* (Type), a plugin call (Plugin), or a plugin call of a page the device   *)
(* serves to its own user (Page).  Every goroutine that works on a job is  *)
(* a role; goroutine[j][r] is "on" for the one that takes the next step    *)
(* of the job, and phase[j] says what that step is.  Receipts are the      *)
(* subject of OperationRecovery and InvocationReceipts: here a reply is    *)
(* one step, in which its receipt is made durable.  Desktop grants and     *)
(* peer sessions are left out; they take part in the idle test as pending  *)
(* and activeWork do.                                                      *)
(***************************************************************************)
EXTENDS Integers, FiniteSets

CONSTANTS
    Run, Type, Plugin, Page,    \* the requests, by kind
    Nobody                      \* where there is no request

Job   == Run \cup Type \cup Plugin \cup Page
Tasks == Plugin \cup Page       \* run by executePlugin

ASSUME KindAssumption ==
    /\ Nobody \notin Job
    /\ Run \cap (Type \cup Tasks) = {} /\ Type \cap Tasks = {} /\ Plugin \cap Page = {}

Role == {"loop",    \* dispatchEnvelope, or the settings server for a Page
         "task",    \* the goroutine dispatch starts
         "exec",    \* the goroutine a verdict or an approval starts
         "poll",    \* the goroutine that waits for a pane
         "consent"} \* approve()

Step == {"none", "on", "release", "return"}

Unadmitted == {"new", "reject", "end"}
Admitted   == {"loop", "verdict", "refuse", "parked", "taken", "start", "running", "record"}

Denied == {"busy", "refused", "rejected", "dropped"}

VARIABLES
    permit, enabled, revoked, online, locked,   \* locked: storageLocked
    committing, restarting,                     \* what closes admission
    update,     \* applyUpdate, from its commit on: "none", "staging", "handoff" or "ending"
    stage,      \* handoffRestart: "none", "port", "storage", "spawn", "wait", "quitting"
    owner,      \* on whose behalf it runs: "none", "auto" or "manual"
    alive,      \* the process runs
    activeWork, admissions,                     \* a.activeWork and len(a.runAdmissions)
    pending,    \* the job of a.pending
    goroutine,  \* [Job -> [Role -> Step]]
    phase,      \* [Job -> Unadmitted \cup Admitted]
    answer,     \* [Job -> how it was answered]
    launched    \* the jobs that had an effect

device   == <<permit, enabled, revoked, online>>
handover == <<update, stage, owner, alive>>
jobs     == <<goroutine, phase, answer, launched>>
counters == <<activeWork, admissions>>
vars     == <<device, locked, committing, restarting, handover, counters, pending, jobs>>

-----------------------------------------------------------------------------
(* The reservations.                                                       *)

\* A page's request is not dispatched: its loop holds no reservation.
Counted(j, r) == ~(j \in Page /\ r = "loop")

Holders == {x \in Job \X Role : Counted(x[1], x[2]) /\ goroutine[x[1]][x[2]] # "none"}

Unreleased == {j \in Run : goroutine[j]["task"] \in {"on", "release"}}

\* Fault: idleness is judged by what the user can see.
IdleByPanes ==
    /\ pending = Nobody /\ ~restarting /\ ~committing
    /\ \A j \in Run : phase[j] # "running"

Idle ==
    /\ pending = Nobody /\ ~restarting /\ ~committing
    /\ activeWork = 0 /\ admissions = 0
    /\ \A j \in Run : phase[j] # "running"

Closed == committing \/ restarting

\* What goroutine r of j does when it has no more to do with the job.
Leave(j, r) == IF j \in Run /\ r = "task" THEN "release" ELSE "return"

\* Goroutine r hands the job over to goroutine s, which goWork reserves for.
HandOver(j, r, s) ==
    /\ activeWork' = activeWork + 1
    /\ goroutine' = [goroutine EXCEPT ![j] = [@ EXCEPT ![r] = Leave(j, r), ![s] = "on"]]

\* Goroutine r is done with the job.
Quits(j, r) == goroutine' = [goroutine EXCEPT ![j][r] = Leave(j, r)]

\* finishWork, the last step of every reserved goroutine.
Return(j, r) ==
    /\ goroutine[j][r] = "return"
    /\ goroutine' = [goroutine EXCEPT ![j][r] = "none"]
    /\ activeWork' = IF Counted(j, r) THEN activeWork - 1 ELSE activeWork
    /\ UNCHANGED <<device, locked, committing, restarting, handover, admissions, pending,
                   phase, answer, launched>>

\* Fault: the admission is not released.
ReleaseNothing(j) ==
    /\ goroutine[j]["task"] = "release"
    /\ goroutine' = [goroutine EXCEPT ![j]["task"] = "return"]
    /\ UNCHANGED <<device, locked, committing, restarting, handover, counters, pending,
                   phase, answer, launched>>

\* The release that admitRun returns, before finishWork.
Release(j) ==
    /\ goroutine[j]["task"] = "release"
    /\ goroutine' = [goroutine EXCEPT ![j]["task"] = "return"]
    /\ admissions' = admissions - 1
    /\ UNCHANGED <<device, locked, committing, restarting, handover, activeWork, pending,
                   phase, answer, launched>>

-----------------------------------------------------------------------------
(* A request arrives.                                                      *)

\* beginWork refuses: replyUpdateBusy.
Busy(j) ==
    /\ phase[j] = "new" /\ j \notin Page /\ online /\ Closed
    /\ phase' = [phase EXCEPT ![j] = "end"]
    /\ answer' = [answer EXCEPT ![j] = "busy"]
    /\ UNCHANGED <<device, locked, committing, restarting, handover, counters, pending,
                   goroutine, launched>>

\* beginWork.  A page calls handlePlugin itself, through the settings
\* server, which is closed while a hand-over runs.
Begin(j) ==
    /\ phase[j] = "new"
    /\ IF j \in Page THEN stage = "none" ELSE online /\ ~Closed
    /\ phase' = [phase EXCEPT ![j] = IF j \in Tasks THEN "verdict" ELSE "loop"]
    /\ goroutine' = [goroutine EXCEPT ![j]["loop"] = "on"]
    /\ activeWork' = IF Counted(j, "loop") THEN activeWork + 1 ELSE activeWork
    /\ UNCHANGED <<device, locked, committing, restarting, handover, admissions, pending,
                   answer, launched>>

\* admitRun and goWork for a run, goWork for keys.
GoWork(j) ==
    /\ phase[j] = "loop"
    /\ HandOver(j, "loop", "task")
    /\ admissions' = IF j \in Run THEN admissions + 1 ELSE admissions
    /\ phase' = [phase EXCEPT ![j] = "verdict"]
    /\ UNCHANGED <<device, locked, committing, restarting, handover, pending, answer, launched>>

-----------------------------------------------------------------------------
(* inputVerdict, and what handleRun, handleType and handlePlugin make of it. *)

Refuses  == locked \/ ~enabled \/ permit = "off" \/ (permit = "ask" /\ pending # Nobody)
Proceeds == ~Refuses /\ permit = "allow"

Asks     == ~Refuses /\ permit = "ask"

\* The command or the plugin call may also be refused for what it is.
Refuse(j) ==
    /\ phase[j] = "verdict"
    /\ Refuses \/ j \notin Type
    /\ phase' = [phase EXCEPT ![j] = "refuse"]
    /\ UNCHANGED <<device, locked, committing, restarting, handover, counters, pending,
                   goroutine, answer, launched>>

Proceed(j, r) ==
    /\ phase[j] = "verdict" /\ Proceeds
    /\ phase' = [phase EXCEPT ![j] = "start"]
    /\ IF j \in Tasks THEN HandOver(j, r, "exec") ELSE UNCHANGED <<activeWork, goroutine>>
    /\ UNCHANGED <<device, locked, committing, restarting, handover, admissions, pending,
                   answer, launched>>

Park(j, r) ==
    /\ phase[j] = "verdict" /\ Asks
    /\ pending' = j
    /\ phase' = [phase EXCEPT ![j] = "parked"]
    /\ Quits(j, r)
    /\ UNCHANGED <<device, locked, committing, restarting, handover, counters, answer, launched>>

\* Goroutine r sends the reply, with its receipt, and is done.
Reply(j, r, how) ==
    /\ phase' = [phase EXCEPT ![j] = "end"]
    /\ answer' = [answer EXCEPT ![j] = how]
    /\ Quits(j, r)

SayRefused(j, r) ==
    /\ phase[j] = "refuse"
    /\ Reply(j, r, "refused")
    /\ UNCHANGED <<device, locked, committing, restarting, handover, counters, pending, launched>>

-----------------------------------------------------------------------------
(* Execution.                                                              *)

\* executePlugin looks again; a command or keys are not judged twice.
Disabled(j) == j \in Tasks /\ (restarting \/ ~enabled \/ permit = "off" \/ revoked \/ locked)

DisabledBeforeStart(j, r) ==
    /\ phase[j] = "start" /\ Disabled(j)
    /\ Reply(j, r, "refused")
    /\ UNCHANGED <<device, locked, committing, restarting, handover, counters, pending, launched>>

\* spawnPane for a run; deliverType and executePlugin work in their own goroutine.
Start(j, r) ==
    /\ phase[j] = "start" /\ ~Disabled(j)
    /\ phase' = [phase EXCEPT ![j] = "running"]
    /\ launched' = launched \cup {j}
    /\ IF j \in Run THEN HandOver(j, r, "poll") ELSE UNCHANGED <<activeWork, goroutine>>
    /\ UNCHANGED <<device, locked, committing, restarting, handover, admissions, pending, answer>>

\* The pane could not be made, or there is no pane to type into.
CannotStart(j) ==
    /\ phase[j] = "start" /\ j \notin Tasks
    /\ phase' = [phase EXCEPT ![j] = "record"]
    /\ UNCHANGED <<device, locked, committing, restarting, handover, counters, pending,
                   goroutine, answer, launched>>

\* The command, the keystrokes or the plugin ends.
End(j) ==
    /\ phase[j] = "running"
    /\ phase' = [phase EXCEPT ![j] = "record"]
    /\ UNCHANGED <<device, locked, committing, restarting, handover, counters, pending,
                   goroutine, answer, launched>>

Record(j, r) ==
    /\ phase[j] = "record"
    /\ Reply(j, r, "result")
    /\ UNCHANGED <<device, locked, committing, restarting, handover, counters, pending, launched>>

-----------------------------------------------------------------------------
(* The user decides.                                                       *)

Approve(j) ==
    /\ pending = j /\ ~Closed
    /\ pending' = Nobody
    /\ activeWork' = activeWork + 1
    /\ phase' = [phase EXCEPT ![j] = "taken"]
    /\ goroutine' = [goroutine EXCEPT ![j]["consent"] = "on"]
    /\ UNCHANGED <<device, locked, committing, restarting, handover, admissions, answer, launched>>

\* approve() hands the job to a goroutine of its own and returns.
Transfer(j) ==
    /\ phase[j] = "taken"
    /\ phase' = [phase EXCEPT ![j] = "start"]
    /\ HandOver(j, "consent", "exec")
    /\ UNCHANGED <<device, locked, committing, restarting, handover, admissions, pending,
                   answer, launched>>

\* Fault: what happens to a pending job leaves it pending.
SettleWithoutClearing(fate) ==
    /\ UNCHANGED pending
    /\ phase' = IF pending = Nobody THEN phase ELSE [phase EXCEPT ![pending] = fate[pending]]
    /\ answer' = IF pending = Nobody \/ fate[pending] = "reject" THEN answer
                 ELSE [answer EXCEPT ![pending] = "dropped"]

\* a.pending is taken from under a.mu; what becomes of the job is its fate.
Settle(fate) ==
    /\ pending' = Nobody
    /\ phase' = IF pending = Nobody THEN phase ELSE [phase EXCEPT ![pending] = fate[pending]]
    /\ answer' = IF pending = Nobody \/ fate[pending] = "reject" THEN answer
                 ELSE [answer EXCEPT ![pending] = "dropped"]

ToBeRejected == [j \in Job |-> "reject"]

\* deny(), and cancelLocalPluginTask for the pending job.
DenyPending ==
    /\ pending # Nobody
    /\ Settle(ToBeRejected)
    /\ UNCHANGED <<device, locked, committing, restarting, handover, counters, goroutine, launched>>

\* rejectPending: the reply and its receipt, after a.mu is released and
\* without a reservation.
Reject(j) ==
    /\ phase[j] = "reject"
    /\ phase' = [phase EXCEPT ![j] = "end"]
    /\ answer' = [answer EXCEPT ![j] = "rejected"]
    /\ UNCHANGED <<device, locked, committing, restarting, handover, counters, pending,
                   goroutine, launched>>

-----------------------------------------------------------------------------
(* The device's switches and its connection.                               *)

SetPermit(p) ==
    /\ p # permit
    /\ permit' = p
    /\ IF p = "off" THEN Settle(ToBeRejected) ELSE UNCHANGED <<pending, phase, answer>>
    /\ UNCHANGED <<enabled, revoked, online, locked, committing, restarting, handover, counters,
                   goroutine, launched>>

\* setEnabled(false), with disconnectLocked.
Disable ==
    /\ enabled /\ enabled' = FALSE
    /\ online' = FALSE
    /\ Settle(ToBeRejected)
    /\ UNCHANGED <<permit, revoked, locked, committing, restarting, handover, counters,
                   goroutine, launched>>

Enable ==
    /\ ~enabled /\ enabled' = TRUE
    /\ UNCHANGED <<permit, revoked, online, locked, committing, restarting, handover, counters,
                   pending, jobs>>

\* connect, by setEnabled or by maintain.
Connect ==
    /\ enabled /\ ~revoked /\ ~restarting /\ ~online
    /\ online' = TRUE
    /\ UNCHANGED <<permit, enabled, revoked, locked, committing, restarting, handover, counters,
                   pending, jobs>>

\* The read loop ends: a pending run is rejected, any other kind is dropped.
SocketClosed ==
    /\ online /\ online' = FALSE
    /\ Settle([j \in Job |-> IF j \in Run THEN "reject" ELSE "end"])
    /\ UNCHANGED <<permit, enabled, revoked, locked, committing, restarting, handover, counters,
                   goroutine, launched>>

\* handleAuthRevoked with a statement that verifies.
AuthRevoked ==
    /\ online /\ ~revoked
    /\ revoked' = TRUE /\ online' = FALSE
    /\ Settle(ToBeRejected)
    /\ UNCHANGED <<permit, enabled, locked, committing, restarting, handover, counters,
                   goroutine, launched>>

-----------------------------------------------------------------------------
(* The automatic update and the hand-over.                                 *)

\* beginAutoUpdateCommit.
BeginCommit ==
    /\ update = "none" /\ enabled /\ ~revoked /\ Idle
    /\ committing' = TRUE
    /\ update' = "staging"
    /\ UNCHANGED <<device, locked, restarting, stage, owner, alive, counters, pending, jobs>>

\* endAutoUpdateCommit, deferred by applyUpdate: staging has failed, another
\* hand-over was running, or this one has returned.
EndCommit ==
    /\ update \in {"staging", "ending"}
    /\ committing' = FALSE
    /\ update' = "none"
    /\ UNCHANGED <<device, locked, restarting, stage, owner, alive, counters, pending, jobs>>

\* beginHandoff, beginRestartLocked and disconnectLocked.
BeginHandoff(who) ==
    /\ stage = "none"
    /\ who = "auto" => update = "staging"
    /\ update' = IF who = "auto" THEN "handoff" ELSE update
    /\ stage' = "port" /\ owner' = who
    /\ restarting' = TRUE
    /\ online' = FALSE
    /\ Settle(ToBeRejected)
    /\ UNCHANGED <<permit, enabled, revoked, locked, committing, alive, counters,
                   goroutine, launched>>

Proceeding(from, to) == stage = from /\ stage' = to

PortFree ==
    /\ Proceeding("port", "storage")
    /\ locked' = TRUE
    /\ UNCHANGED <<device, committing, restarting, update, owner, alive, counters, pending, jobs>>

\* releaseStorageForHandoff waits for the plugin tasks.
StorageReleased ==
    /\ Proceeding("storage", "spawn")
    /\ \A j \in Tasks : phase[j] # "running"
    /\ UNCHANGED <<device, locked, committing, restarting, update, owner, alive, counters, pending, jobs>>

Spawned ==
    /\ Proceeding("spawn", "wait")
    /\ UNCHANGED <<device, locked, committing, restarting, update, owner, alive, counters, pending, jobs>>

\* The successor serves: handoffRestart returns and the process will quit.
Served ==
    /\ Proceeding("wait", "quitting")
    /\ update' = IF owner = "auto" THEN "ending" ELSE update
    /\ UNCHANGED <<device, locked, committing, restarting, owner, alive, counters, pending, jobs>>

\* Fault: a failed hand-over leaves the device restarting.
StayRestarting ==
    /\ stage \in {"port", "storage", "spawn", "wait"}
    /\ stage' = "none" /\ owner' = "none"
    /\ update' = IF owner = "auto" THEN "ending" ELSE update
    /\ locked' \in {FALSE, locked}
    /\ UNCHANGED <<device, committing, restarting, alive, counters, pending, jobs>>

\* recoverAfterFailedHandoff, at any stage; the storage may stay locked.
Recover ==
    /\ stage \in {"port", "storage", "spawn", "wait"}
    /\ stage' = "none" /\ owner' = "none"
    /\ update' = IF owner = "auto" THEN "ending" ELSE update
    /\ locked' \in {FALSE, locked}
    /\ restarting' = FALSE
    /\ UNCHANGED <<device, committing, alive, counters, pending, jobs>>

Quit ==
    /\ stage = "quitting" /\ alive
    /\ alive' = FALSE
    /\ UNCHANGED <<device, locked, committing, restarting, update, stage, owner, counters, pending, jobs>>

-----------------------------------------------------------------------------
Init ==
    /\ permit \in {"off", "ask", "allow"} /\ enabled = TRUE /\ revoked = FALSE /\ online = FALSE
    /\ locked = FALSE
    /\ committing = FALSE /\ restarting = FALSE
    /\ update = "none" /\ stage = "none" /\ owner = "none" /\ alive = TRUE
    /\ activeWork = 0 /\ admissions = 0
    /\ pending = Nobody
    /\ goroutine = [j \in Job |-> [r \in Role |-> "none"]]
    /\ phase = [j \in Job |-> "new"]
    /\ answer = [j \in Job |-> "none"]
    /\ launched = {}

JobStep(j) ==
    \/ GoWork(j) \/ Refuse(j) \/ CannotStart(j) \/ End(j) \/ Transfer(j) \/ Reject(j) \/ Release(j)
    \/ \E r \in Role :
           \/ Return(j, r)
           \/ /\ goroutine[j][r] = "on"
              /\ \/ Proceed(j, r) \/ Park(j, r) \/ SayRefused(j, r)
                 \/ DisabledBeforeStart(j, r) \/ Start(j, r) \/ Record(j, r)

HandoverStep == PortFree \/ StorageReleased \/ Spawned \/ Served \/ Recover \/ Quit

UserStep ==
    \/ \E j \in Job : Approve(j)
    \/ DenyPending
    \/ \E p \in {"off", "ask", "allow"} : SetPermit(p)
    \/ Disable \/ Enable

HubStep == Connect \/ SocketClosed \/ AuthRevoked \/ \E j \in Job : Busy(j) \/ Begin(j)

UpdateStep == BeginCommit \/ \E who \in {"auto", "manual"} : BeginHandoff(who)

Next ==
    /\ alive
    /\ \/ \E j \in Job : JobStep(j)
       \/ HandoverStep \/ EndCommit \/ UserStep \/ HubStep \/ UpdateStep

Spec == Init /\ [][Next]_vars

\* The scheduler runs every goroutine, a command and a plugin end, and every
\* stage of a hand-over ends one way or the other (its waits have time-outs).
Fairness ==
    /\ \A j \in Job : WF_vars(alive /\ JobStep(j))
    /\ WF_vars(alive /\ HandoverStep)
    /\ WF_vars(alive /\ EndCommit)

LiveSpec == Spec /\ Fairness
-----------------------------------------------------------------------------
(* Properties.                                                             *)

\* Every variable keeps its range; the counters count.
TypeOK ==
    /\ permit \in {"off", "ask", "allow"}
    /\ {enabled, revoked, online, locked, committing, restarting, alive} \subseteq BOOLEAN
    /\ update \in {"none", "staging", "handoff", "ending"}
    /\ stage \in {"none", "port", "storage", "spawn", "wait", "quitting"}
    /\ owner \in {"none", "auto", "manual"}
    /\ activeWork \in Nat /\ admissions \in Nat
    /\ pending \in Job \cup {Nobody}
    /\ goroutine \in [Job -> [Role -> Step]]
    /\ phase \in [Job -> Unadmitted \cup Admitted]
    /\ answer \in [Job -> Denied \cup {"none", "result"}]
    /\ launched \subseteq Job

\* activeWork counts the goroutines that have work, and runAdmissions the
\* commands whose handler has not returned: nothing is reserved twice,
\* returned twice or leaked by any path through dispatch, verdict, consent,
\* launch and failure (update_guard.go, operation.go:231).
WorkAccounted ==
    /\ activeWork = Cardinality(Holders)
    /\ admissions = Cardinality(Unreleased)

\* A job that is under way is in the hands of exactly one goroutine, which
\* holds a reservation; a job that waits for the user, or is over, in none.
Working(j) == {r \in Role : goroutine[j][r] = "on"}

InHand ==
    \A j \in Job : Cardinality(Working(j)) = IF phase[j] \in Admitted \ {"parked"} THEN 1 ELSE 0

\* Whatever happens to a request, its reservation is returned once and the
\* work stays in one hand (beginWork, endWork, admitRun, releaseRun).
WorkIsSafe == TypeOK /\ WorkAccounted /\ InHand

\* From the commit of an automatic update to the end of the process, no
\* request that came through dispatchEnvelope is admitted or under way: an
\* automatic update interrupts no admitted work (agent-update-safety.md).
\* It says nothing of a local page's call, which passes no gate, nor of the
\* rejection that deny() writes, which holds no reservation.
Updating == committing \/ owner = "auto"

UpdateInterruptsNothing == Updating => \A j \in Job \ Page : phase[j] \in Unadmitted

\* The user is asked about one request at a time, and a request that waits
\* is the one the user is asked about: none is forgotten or overwritten.
OneConsent == \A j \in Job : phase[j] = "parked" <=> pending = j

\* On a device that is switched off, or whose permit is off, nothing is left
\* that the user could still approve: approve() does not look at either.
OffClearsConsent == ~enabled \/ permit = "off" => pending = Nobody

\* Who was told that a request was refused, rejected or not started was told
\* the truth, whatever happens afterwards.
DenialIsFinal == \A j \in Job : answer[j] \in Denied => j \notin launched /\ phase[j] = "end"

\* All that consent promises: asked once, void when the device is closed, and a refusal is final.
ConsentIsSafe == OneConsent /\ OffClearsConsent /\ DenialIsFinal

\* A hand-over that does not succeed gives the device back: admission
\* reopens, or the process ends (agent-update-safety.md, "Reopen admission").
Reopens == Closed ~> (~alive \/ ~Closed)

\* Every reservation is given back, so that the device gets idle again and
\* an update is not postponed for ever.
Drains == []<>(~alive \/ (activeWork = 0 /\ admissions = 0))
=============================================================================

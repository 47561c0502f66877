---------------------------- MODULE PeerRuntime ----------------------------
(***************************************************************************)
(* The tool's side of a plugin peer session: one row of the manager of     *)
(* fleet-tool/plugin-peer-runtime.mjs, and the plugin processes it runs    *)
(* (plugin-peer-plugin.mjs).                                               *)
(*                                                                         *)
(* Three threads share the row: run ("main"), the watcher of the hub       *)
(* ("watch", also where run itself takes an update out of the mailbox),    *)
(* and cancel ("user").  A plugin process is known by its attempt.  What a *)
(* plugin keeps for the session on disk is checkpoint: it is written once  *)
(* a process has been opened, survives an abort, and is deleted by a       *)
(* cancellation that the plugin confirms, or once it has finished.  The    *)
(* hub is a PeerLife; only the update that ends the session is kept of the *)
(* mailbox.                                                                *)
(***************************************************************************)
EXTENDS Integers

CONSTANT MaxRounds      \* maxRounds, and PEER_SESSION_MAX_ROUNDS of the hub

Attempt == 1 .. MaxRounds
Thread  == {"main", "watch", "user"}

InRound == {"launch", "connect", "reportActive", "bridge", "reportComplete"}

VARIABLES
    life,           \* the hub's session, as PeerLife has it
    told,           \* the end in the mailbox: "no", "mailed", "acked"
    at, err,        \* main: where run is, and the code of the error it carries
    phase,          \* row.phase
    round, try,     \* row.roundNo and the attempt
    active, given,  \* round.active, and: runRound was given its plugin
    tr,             \* the transition: "none", "retire", "resolve", "spawned", "opened", "ended", "failed", "rejected"
    known,          \* row.pluginTransition is set
    retained,       \* row.pluginTransitionRetained, 0 when there is none
    run,            \* [Attempt -> "none", "up", "exited"], the process
    stop,           \* row.pluginStops: "none", "abort", or "cancelling", "applied", "unapplied"
    current, kept,  \* row.pluginProcess and row.interruptedPluginProcess, 0 when null
    checkpoint,     \* the plugin has resumable state of this session
    flags,          \* the sticky flags of the row that are set
    job,            \* [Thread -> where its cancelRowPlugins or abortRowPlugins is]
    target,         \* [Thread -> the processes it asked to stop]
    watch,          \* the watcher: "idle", "cancel", "abort"
    user            \* cancel(): "no", "cleanup", "done"

vars == <<life, told, at, err, phase, round, try, active, given, tr, known, retained, run, stop,
          current, kept, checkpoint, flags, job, target, watch, user>>
hub     == <<life, told>>
row     == <<phase, round, try, active, given>>
plugins == <<tr, known, retained, run, stop, current, kept, checkpoint>>
threads == <<job, target, watch, user>>

\* cancelRequested, cancelFailure, aborted, timedOut, ioAborted, remoteCancelled, cancelSent
Is(f) == f \in flags
\* row.io.signal
Stopped == flags \cap {"aborted", "timedOut", "ioAborted"} # {}

Hub == INSTANCE PeerLife WITH End <- {"me", "peer"}, Rounds <- MaxRounds

-----------------------------------------------------------------------------
(* Plugin processes.                                                       *)

\* stopPluginOnce: the first mode wins; a process that is gone takes no cancellation.
AskCancel(S) ==
    /\ stop' = [n \in Attempt |-> IF n \in S /\ stop[n] = "none"
                                  THEN IF run[n] = "up" THEN "cancelling" ELSE "unapplied"
                                  ELSE stop[n]]
    /\ UNCHANGED run

\* The processes of S are aborted for the row, those of T die of the signal they were launched with;
\* a process that is being cancelled is left alone.
Die(S, T) ==
    /\ stop' = [n \in Attempt |-> IF n \in S /\ stop[n] = "none" THEN "abort" ELSE stop[n]]
    /\ run' = [n \in Attempt |-> IF n \in S \cup T /\ stop[n] = "none" /\ run[n] = "up" THEN "exited" ELSE run[n]]

RowPlugins == {current, kept} \ {0}
Settled(S) == \A n \in S : stop[n] \in {"abort", "applied", "unapplied"}
Applied(S) == \A n \in S : stop[n] = "applied"

\* The plugin confirms the cancellation and exits, or does not in time and is killed.
CancelSettles(n) ==
    /\ stop[n] = "cancelling"
    /\ \/ stop' = [stop EXCEPT ![n] = "applied"] /\ checkpoint' = FALSE
       \/ stop' = [stop EXCEPT ![n] = "unapplied"] /\ UNCHANGED checkpoint
    /\ run' = [run EXCEPT ![n] = "exited"]
    /\ UNCHANGED <<hub, at, err, row, tr, known, retained, current, kept, flags, threads>>

TransitionOver == tr \in {"none", "ended", "failed", "rejected"}

\* A process ends by itself, well or not.
Exit(n) ==
    /\ run[n] = "up" /\ stop[n] = "none" /\ (n = try => TransitionOver)
    /\ run' = [run EXCEPT ![n] = "exited"]
    /\ UNCHANGED <<hub, at, err, row, tr, known, retained, stop, current, kept, checkpoint, flags, threads>>

\* An aborted signal of the row.
Abort(f) == flags' = flags \cup {f} /\ Die({}, Attempt)

-----------------------------------------------------------------------------
(* The transition of runRound: the retained process is aborted, the next   *)
(* one is resolved, spawned and opened.                                    *)

StartRound ==
    /\ known' = TRUE /\ retained' = kept /\ given' = FALSE
    /\ tr' = IF kept # 0 THEN "retire" ELSE "resolve"
    /\ Die({kept}, {})

Retire ==
    /\ tr = "retire" /\ stop[try - 1] # "cancelling"
    /\ IF stop[try - 1] = "unapplied" THEN tr' = "failed" /\ UNCHANGED kept ELSE tr' = "resolve" /\ kept' = 0
    /\ UNCHANGED <<hub, at, err, row, known, retained, run, stop, current, checkpoint, flags, threads>>

ResolveAnyway ==
    /\ tr = "resolve" /\ tr' = "spawned" /\ run' = [run EXCEPT ![try] = "up"]
    /\ UNCHANGED <<hub, at, err, row, known, retained, stop, current, kept, checkpoint, flags, threads>>

\* resolve may fail; an aborted signal makes it fail.
Resolve ==
    /\ tr = "resolve"
    /\ \/ ~Stopped /\ tr' = "spawned" /\ run' = [run EXCEPT ![try] = "up"]
       \/ tr' = "failed" /\ UNCHANGED run
    /\ UNCHANGED <<hub, at, err, row, known, retained, stop, current, kept, checkpoint, flags, threads>>

\* open is written and the row owns the process (onProcess); or the launcher aborts it.
Open ==
    /\ tr = "spawned"
    /\ \/ /\ run[try] = "up"
          /\ tr' = "opened" /\ current' = try /\ checkpoint' = TRUE
          /\ IF Is("cancelRequested") THEN AskCancel({try}) ELSE UNCHANGED <<stop, run>>
       \/ tr' = "failed" /\ Die({}, {try}) /\ UNCHANGED <<current, checkpoint>>
    /\ UNCHANGED <<hub, at, err, row, known, retained, kept, flags, threads>>

\* The plugin is ready, or reports an error, or has been stopped.
Ready ==
    /\ tr = "opened" /\ stop[try] # "cancelling"
    /\ tr' \in (IF stop[try] = "none" /\ run[try] = "up" THEN {"ended", "rejected"} ELSE {"rejected"})
    /\ UNCHANGED <<hub, at, err, row, known, retained, run, stop, current, kept, checkpoint, flags, threads>>

Transition == Retire \/ Resolve \/ Open \/ Ready

-----------------------------------------------------------------------------
(* cancelRowPlugins, on behalf of a thread t.                              *)

\* A failure is remembered; with a transition that retires a process, its successor is waited for.
CancelRow(t, set) ==
    /\ job[t] = "idle"
    /\ flags' = flags \cup set \cup {"cancelRequested"}
    /\ IF Is("cancelFailure")
       THEN job' = [job EXCEPT ![t] = "bad"] /\ UNCHANGED <<stop, run, target>>
       ELSE /\ job' = [job EXCEPT ![t] = IF known /\ retained # 0 THEN "stopRetiring" ELSE "stopFirst"]
            /\ target' = [target EXCEPT ![t] = RowPlugins]
            /\ AskCancel(RowPlugins)

\* Nothing retiring: the launch is aborted, then whatever it left is cancelled too.
StopFirst(t) ==
    /\ job[t] = "stopFirst" /\ Settled(target[t])
    /\ Abort("aborted")
    /\ job' = [job EXCEPT ![t] = "waitLaunch"]
    /\ UNCHANGED <<hub, at, err, row, tr, known, retained, current, kept, checkpoint, target, watch, user>>

WaitLaunch(t) ==
    /\ job[t] = "waitLaunch" /\ (known => TransitionOver)
    /\ target' = [target EXCEPT ![t] = @ \cup RowPlugins]
    /\ AskCancel(target[t] \cup RowPlugins)
    /\ job' = [job EXCEPT ![t] = "stopLast"]
    /\ UNCHANGED <<hub, at, err, row, tr, known, retained, current, kept, checkpoint, flags, watch, user>>

ReplacementUnsettled(t) ==
    /\ job[t] = "stopRetiring" /\ Settled(target[t]) /\ tr \in {"opened", "ended", "rejected"}
    /\ target' = [target EXCEPT ![t] = {try}] /\ AskCancel({try})
    /\ job' = [job EXCEPT ![t] = "stopReplacement"]
    /\ UNCHANGED <<hub, at, err, row, tr, known, retained, current, kept, checkpoint, flags, watch, user>>

\* A retiring process was aborted: the replacement's cancellation is the receipt.
Replacement(t) ==
    /\ job[t] = "stopRetiring" /\ Settled(target[t])
    /\ \/ /\ tr \in {"opened", "ended", "rejected"}
          /\ target' = [target EXCEPT ![t] = {try}] /\ AskCancel({try})
          /\ job' = [job EXCEPT ![t] = "stopReplacement"]
          /\ UNCHANGED flags
       \/ /\ tr = "failed"
          /\ job' = [job EXCEPT ![t] = "bad"] /\ UNCHANGED target
          /\ flags' = flags \cup {"cancelFailure", "aborted"} /\ Die({}, Attempt)
    /\ UNCHANGED <<hub, at, err, row, tr, known, retained, current, kept, checkpoint, watch, user>>

Clear(S) ==
    /\ current' = IF current \in S THEN 0 ELSE current
    /\ kept' = IF kept \in S THEN 0 ELSE kept

\* The end of it: applied to every process, or remembered as a failure.  The continuations of the
\* launch, which all cleanups wait for, run before that of anything that settles after it.
LaunchSeen == \A u \in Thread :
    ~(job[u] = "waitLaunch" /\ (known => TransitionOver)) /\ ~(job[u] = "stopFirst" /\ Settled(target[u]))

CancelEnds(t) ==
    /\ LaunchSeen
    /\ job[t] \in {"stopLast", "stopReplacement"} /\ Settled(target[t])
    /\ (job[t] = "stopReplacement" => TransitionOver)
    /\ flags' = flags \cup {"aborted"} \cup (IF Applied(target[t]) THEN {} ELSE {"cancelFailure"})
    /\ job' = [job EXCEPT ![t] = IF Applied(target[t]) THEN "ok" ELSE "bad"]
    /\ Clear(target[t] \cup RowPlugins)
    /\ Die({}, Attempt)
    /\ UNCHANGED <<hub, at, err, row, tr, known, retained, checkpoint, target, watch, user>>

\* abortRowPlugins: all is killed, the launch is aborted and waited for, what it left is killed.
AbortRow(t, set) ==
    /\ job[t] = "idle" /\ job' = [job EXCEPT ![t] = "abortLaunch"]
    /\ flags' = flags \cup set \cup {"ioAborted"} /\ Die(RowPlugins, Attempt)
    /\ UNCHANGED target

AbortEnds(t) ==
    /\ job[t] = "abortLaunch" /\ (known => TransitionOver)
    /\ Die(RowPlugins, {}) /\ Clear(RowPlugins)
    /\ job' = [job EXCEPT ![t] = "ok"]
    /\ UNCHANGED <<hub, at, err, row, tr, known, retained, checkpoint, flags, target, watch, user>>

Cleanup(t) == StopFirst(t) \/ WaitLaunch(t) \/ Replacement(t) \/ CancelEnds(t) \/ AbortEnds(t)

-----------------------------------------------------------------------------
(* The hub and the peer.                                                   *)

\* What the peer and the coordinator do is a step of the life; so is what a request of this end does
\* (negotiate, reportEvent), whether its answer comes back or not.
HubMoves ==
    /\ \/ at = "connect" /\ Hub!Connect
       \/ Hub!Finish("peer") \/ Hub!Advance \/ Hub!Lapse
       \/ \E p \in {"cancelled", "failed"} : Hub!Cease(p)
    /\ UNCHANGED <<told, at, err, row, plugins, flags, threads>>

\* The update that ends the session reaches the mailbox; an expiry is told to devices only.
TellEnd ==
    /\ told = "no" /\ life.phase \in {"completed", "cancelled", "failed"}
    /\ told' = "mailed"
    /\ UNCHANGED <<life, at, err, row, plugins, flags, threads>>

-----------------------------------------------------------------------------
(* run.                                                                    *)

Throw(code) ==
    /\ err' = code
    /\ at' = IF at \in InRound THEN "stopPlugin" ELSE "catch"

\* A wait of run ends with an error: the row's signals, the channel, the plugin, or a status that
\* says that the session has ended or has moved on.  While the watcher takes the end, raceHub waits.
Fails ==
    /\ at \in InRound \cup {"prepare", "waitCompleted", "interrupt", "waitRound"} /\ job["main"] = "idle"
    /\ (at # "bridge" => watch = "idle")
    /\ \/ Stopped /\ Throw("cancelled") /\ UNCHANGED flags
       \/ life.phase = "cancelled" /\ Throw("cancelled") /\ flags' = flags \cup {"remoteCancelled"}
       \/ life.phase \in Hub!Over \ {"cancelled"} /\ at # "waitCompleted" /\ Throw("ended") /\ UNCHANGED flags
       \/ life.no > round /\ at \in InRound /\ Throw("interrupted") /\ UNCHANGED flags
       \/ at \in {"connect", "reportActive", "bridge"} /\ Throw("direct_unavailable") /\ UNCHANGED flags
       \/ at = "bridge" /\ Throw("cancelled") /\ UNCHANGED flags     \* peer_cancel, or the plugin
       \/ Throw("other") /\ UNCHANGED flags
    /\ UNCHANGED <<hub, row, plugins, threads>>

Begin ==
    /\ at = "prepare" /\ watch = "idle" /\ at' = "launch" /\ phase' = "preparing"
    /\ StartRound
    /\ UNCHANGED <<hub, err, round, try, active, current, kept, checkpoint, flags, threads>>

\* raceHub lets the transition go, whoever won; a process that could not be launched is an error.
Launched ==
    /\ at = "launch" /\ tr \in {"ended", "failed", "rejected"} /\ watch = "idle" /\ job["main"] = "idle"
    /\ IF tr = "ended" THEN at' = "connect" /\ UNCHANGED err ELSE Throw("other")
    /\ known' = FALSE /\ retained' = 0 /\ given' = (tr = "ended")
    /\ UNCHANGED <<hub, phase, round, try, active, tr, run, stop, current, kept, checkpoint, flags, threads>>

\* The direct channel is open and both ends have shown their bindings.
Connected ==
    /\ at = "connect" /\ life.phase = "live" /\ life.no = round /\ watch = "idle"
    /\ at' = "reportActive"
    /\ UNCHANGED <<hub, err, row, plugins, flags, threads>>

ReportActive ==
    /\ at = "reportActive" /\ life.phase = "live" /\ life.no = round
    /\ at' = "bridge" /\ active' = TRUE /\ phase' = "active"
    /\ UNCHANGED <<hub, err, round, try, given, plugins, flags, threads>>

\* Both plugins are done, with nothing left to resume, and the channel is closed in order.
Bridged ==
    /\ at = "bridge" /\ stop[try] = "none" /\ at' = "reportComplete" /\ checkpoint' = FALSE
    /\ UNCHANGED <<hub, err, row, tr, known, retained, run, stop, current, kept, flags, threads>>

ReportComplete ==
    /\ at = "reportComplete" /\ life.no = round /\ Hub!Finish("me")
    /\ UNCHANGED <<told, at, err, row, plugins, flags, threads>>

CompleteConfirmed ==
    /\ at = "reportComplete" /\ life.no = round /\ "me" \in life.done
    /\ at' = "endRound"
    /\ UNCHANGED <<hub, err, row, plugins, flags, threads>>

Completed ==
    /\ at = "waitCompleted" /\ life.phase = "completed"
    /\ at' = "done" /\ phase' = "completed"
    /\ UNCHANGED <<hub, err, round, try, active, given, plugins, flags, threads>>

\* runRound's catch: a cancelled round cancels its plugin, if the round was given one.
StopPlugin ==
    /\ at = "stopPlugin" /\ at' = "endRound"
    /\ known' = FALSE /\ retained' = 0
    /\ IF err = "cancelled" /\ ~Is("timedOut")
       THEN /\ flags' = flags \cup {"cancelRequested"}
            /\ AskCancel(IF given THEN {try} ELSE {})
       ELSE UNCHANGED <<flags, stop, run>>
    /\ UNCHANGED <<hub, err, row, tr, current, kept, checkpoint, threads>>

\* runRound's finally: an interrupted plugin is kept for the next round, one that failed is left for
\* the cleanup of run, any other is aborted, which throws if a cancellation of it has failed.
Interrupted == active /\ err \in {"interrupted", "direct_unavailable"}
Keeps       == given /\ Interrupted /\ stop[try] = "none"
               /\ flags \cap {"cancelRequested", "aborted", "timedOut"} = {}
Defers      == given /\ err # "none" /\ ~Interrupted /\ ~Is("timedOut") /\ stop[try] = "none"
Drops       == given /\ ~Keeps /\ ~Defers
Unapplied   == \/ err = "cancelled" /\ given /\ ~Is("timedOut") /\ stop[try] \in {"abort", "unapplied"}
               \/ Drops /\ stop[try] = "unapplied"

EndRound ==
    /\ at = "endRound" /\ stop[try] # "cancelling"
    /\ IF Keeps THEN kept' = try /\ current' = 0 /\ UNCHANGED <<stop, run>>
       ELSE IF Drops /\ stop[try] # "unapplied" THEN Die({try}, {}) /\ Clear({try})
       ELSE UNCHANGED <<kept, current, stop, run>>
    /\ err' = IF Unapplied THEN "cancel_unapplied" ELSE err
    /\ IF ~Unapplied /\ Interrupted /\ try < MaxRounds
       THEN at' = "interrupt" /\ phase' = "interrupted"
       ELSE at' = (IF err' = "none" THEN "waitCompleted" ELSE "catch") /\ UNCHANGED phase
    /\ active' = FALSE
    /\ UNCHANGED <<hub, round, try, given, tr, known, retained, checkpoint, flags, threads>>

Interrupt ==
    /\ at = "interrupt" /\ life.no = round /\ Hub!Advance
    /\ UNCHANGED <<told, at, err, row, plugins, flags, threads>>

InterruptConfirmed ==
    /\ at = "interrupt" /\ life.no > round /\ life.phase \in Hub!Open /\ ~Stopped
    /\ at' = "waitRound"
    /\ UNCHANGED <<hub, err, row, plugins, flags, threads>>

\* The round's preparation is taken, and the next attempt begins.
RoundPrepared ==
    /\ at = "waitRound" /\ life.no = round + 1 /\ watch = "idle" /\ ~Stopped
    /\ round' = life.no /\ try' = try + 1 /\ phase' = "preparing" /\ at' = "launch" /\ err' = "none"
    /\ StartRound
    /\ UNCHANGED <<hub, active, current, kept, checkpoint, flags, threads>>

-----------------------------------------------------------------------------
(* run's catch: who won the end of the session, then the cleanup.          *)

Cancelled == ~Is("timedOut") /\ (flags \cap {"cancelRequested", "aborted", "remoteCancelled"} # {}
                                 \/ err = "cancelled")

Catch ==
    /\ at = "catch" /\ watch = "idle"
    /\ at' = IF Cancelled \/ Is("timedOut") THEN "cleanup" ELSE "fail"
    /\ UNCHANGED <<hub, err, row, plugins, flags, threads>>

\* The failure is reported while the plugin is still there, in case a cancellation has won.
ReportFail ==
    /\ at = "fail" /\ Hub!Cease("failed")
    /\ UNCHANGED <<told, at, err, row, plugins, flags, threads>>

\* The answer, or none.
FailReported ==
    /\ at = "fail" /\ at' = "cleanup"
    /\ \/ life.phase = "cancelled" /\ err' = "cancelled" /\ flags' = flags \cup {"remoteCancelled", "cancelSent"}
       \/ UNCHANGED <<err, flags>>
    /\ UNCHANGED <<hub, row, plugins, threads>>

RunCleanup ==
    /\ at = "cleanup" /\ job["main"] = "idle"
    /\ phase' = IF Cancelled THEN "cancelled" ELSE "failed"
    /\ IF Cancelled THEN CancelRow("main", {}) ELSE AbortRow("main", {})
    /\ UNCHANGED <<hub, at, err, round, try, active, given, tr, known, retained, current, kept, checkpoint, watch, user>>

\* A cancellation that was not applied leaves run: the end in the mailbox stays unacknowledged.
RunCleaned ==
    /\ at = "cleanup" /\ job["main"] \in {"ok", "bad"}
    /\ at' = IF job["main"] = "bad" THEN "done" ELSE IF Is("timedOut") THEN "lastReport" ELSE "drain"
    /\ job' = [job EXCEPT !["main"] = "idle"] /\ target' = [target EXCEPT !["main"] = {}]
    /\ UNCHANGED <<hub, err, row, plugins, flags, watch, user>>

\* drainTerminalDeliveries, as far as the hub answers.
DrainEnd ==
    /\ at = "drain" /\ at' = "lastReport"
    /\ told' \in {told} \cup (IF told = "mailed" /\ (life.phase # "cancelled" \/ phase = "cancelled")
                              THEN {"acked"} ELSE {})
    /\ UNCHANGED <<life, err, row, plugins, flags, threads>>

LastReport ==
    /\ at = "lastReport" /\ at' = "done"
    /\ \/ UNCHANGED life
       \/ phase = "cancelled" /\ ~Is("cancelSent") /\ Hub!Cease("cancelled")
       \/ phase = "failed" /\ Hub!Cease("failed")
    /\ UNCHANGED <<told, err, row, plugins, flags, threads>>

-----------------------------------------------------------------------------
(* consumeSessionUpdate: the end is taken out of the mailbox, the plugin   *)
(* stopped, and only then the end acknowledged.                            *)

Watching == at \in {"prepare", "launch", "connect", "bridge", "waitRound"}

TakeEndAckedFirst ==
    /\ Watching /\ watch = "idle" /\ told = "mailed" /\ ~Stopped /\ told' = "acked"
    /\ IF life.phase = "cancelled"
       THEN phase' = "cancelled" /\ watch' = "cancel" /\ CancelRow("watch", {"remoteCancelled", "cancelSent"})
       ELSE watch' = "abort" /\ AbortRow("watch", {}) /\ UNCHANGED phase
    /\ UNCHANGED <<life, at, err, round, try, active, given, tr, known, retained, current, kept, checkpoint, user>>

TakeEnd ==
    /\ Watching /\ watch = "idle" /\ told = "mailed" /\ ~Stopped
    /\ IF life.phase = "cancelled"
       THEN phase' = "cancelled" /\ watch' = "cancel" /\ CancelRow("watch", {"remoteCancelled", "cancelSent"})
       ELSE watch' = "abort" /\ AbortRow("watch", {}) /\ UNCHANGED phase
    /\ UNCHANGED <<hub, at, err, round, try, active, given, tr, known, retained, current, kept, checkpoint, user>>

\* The acknowledgement, which may fail; what is thrown in any case is where run goes on.
EndTaken ==
    /\ watch \in {"cancel", "abort"} /\ job["watch"] \in {"ok", "bad"}
    /\ told' \in {told} \cup (IF job["watch"] = "ok" THEN {"acked"} ELSE {})
    /\ watch' = "idle" /\ job' = [job EXCEPT !["watch"] = "idle"]
    /\ target' = [target EXCEPT !["watch"] = {}]
    /\ IF watch = "cancel" /\ told' = "acked" THEN Abort("aborted") ELSE UNCHANGED <<flags, stop, run>>
    /\ IF at \in InRound \cup {"prepare", "waitRound"}
       THEN Throw(CASE job["watch"] = "bad" -> "cancel_unapplied"
                    [] watch = "cancel" /\ job["watch"] = "ok" -> "cancelled"
                    [] OTHER -> "ended")
       ELSE UNCHANGED <<at, err>>
    /\ UNCHANGED <<life, row, tr, known, retained, current, kept, checkpoint, user>>

-----------------------------------------------------------------------------
(* cancel() of the operator, and the clock.                                *)

Cancel ==
    /\ user = "no" /\ at # "done" /\ phase \notin Hub!Over
    /\ user' = "cleanup" /\ phase' = "cancelled"
    /\ CancelRow("user", {})
    /\ UNCHANGED <<hub, at, err, round, try, active, given, tr, known, retained, current, kept, checkpoint, watch>>

\* The hub is told at the same time.
CancelReport ==
    /\ user = "cleanup" /\ Hub!Cease("cancelled")
    /\ UNCHANGED <<told, at, err, row, plugins, flags, threads>>

CancelReturns ==
    /\ user = "cleanup" /\ job["user"] \in {"ok", "bad"}
    /\ user' = "done" /\ job' = [job EXCEPT !["user"] = "idle"]
    /\ target' = [target EXCEPT !["user"] = {}]
    /\ flags' = flags \cup {"aborted"} \cup (IF life.phase = "cancelled" THEN {"cancelSent"} ELSE {})
    /\ Die({}, Attempt)
    /\ UNCHANGED <<hub, at, err, row, tr, known, retained, current, kept, checkpoint, watch>>

\* totalMs, or the shutdown of the tool.
Timeout ==
    /\ at # "done" /\ ~Is("timedOut")
    /\ Abort("timedOut")
    /\ UNCHANGED <<hub, at, err, row, tr, known, retained, current, kept, checkpoint, threads>>

-----------------------------------------------------------------------------
\* start: the session has been created, and run is under way.
Init ==
    /\ life = [phase |-> "open", no |-> 1, done |-> {}] /\ told = "no"
    /\ at = "prepare" /\ err = "none" /\ phase = "waiting_approval"
    /\ round = 1 /\ try = 1 /\ active = FALSE /\ given = FALSE
    /\ tr = "none" /\ known = FALSE /\ retained = 0
    /\ run = [n \in Attempt |-> "none"] /\ stop = [n \in Attempt |-> "none"]
    /\ current = 0 /\ kept = 0 /\ checkpoint = FALSE /\ flags = {}
    /\ job = [t \in Thread |-> "idle"] /\ target = [t \in Thread |-> {}]
    /\ watch = "idle" /\ user = "no"

RunRound == Launched \/ Connected \/ ReportActive \/ Bridged \/ ReportComplete \/ CompleteConfirmed
            \/ Fails \/ StopPlugin \/ EndRound
RunRow   == Begin \/ RunRound \/ Completed \/ Interrupt \/ InterruptConfirmed \/ RoundPrepared
            \/ Catch \/ ReportFail \/ FailReported \/ RunCleanup \/ RunCleaned \/ DrainEnd \/ LastReport

Next ==
    \/ RunRow \/ Transition \/ HubMoves \/ TellEnd \/ TakeEnd \/ EndTaken
    \/ Cancel \/ CancelReport \/ CancelReturns \/ Timeout
    \/ \E n \in Attempt : CancelSettles(n) \/ Exit(n)
    \/ \E t \in Thread : Cleanup(t)

Spec == Init /\ [][Next]_vars

\* totalMs is a timer, every wait of the row has a bound of its own (bounded, delay, reportEvent), and
\* a plugin that does not answer is killed.
Fairness ==
    /\ WF_vars(RunRow) /\ WF_vars(Transition) /\ WF_vars(EndTaken)
    /\ WF_vars(CancelReturns) /\ WF_vars(Timeout)
    /\ WF_vars(\E n \in Attempt : CancelSettles(n))
    /\ \A t \in Thread : WF_vars(Cleanup(t))
FairSpec == Spec /\ Fairness

-----------------------------------------------------------------------------
(* Properties.                                                             *)

Alive(n) == run[n] = "up" /\ stop[n] = "none"

\* Two rounds never run a plugin at once: the retained process is stopped before its successor is
\* launched, whatever cancels, times out or replaces the round in between (runRound).
OneProcess == \A m, n \in Attempt : Alive(m) /\ Alive(n) => m = n

\* When run is over no plugin process is left, and none can still be started by a launch that lost
\* its race with the hub and is no longer waited for (raceHub, abortRowPlugins).
NoOrphan == at = "done" => (\A n \in Attempt : ~Alive(n)) /\ (~TransitionOver => Stopped)

\* The end of the session is acknowledged only after the plugin has been stopped, by cancellation or
\* by force (consumeSessionUpdate, drainTerminalDeliveries).
EndAcked == [][told' = "acked" /\ told # "acked" => \A n \in Attempt : ~Alive(n)']_vars

\* The row of every session ends, at the latest after totalMs, and cancel() returns, although they
\* wait for plugins, for launches and for each other (run, cancel, cancelRowPlugins).
RowEnds       == <>(at = "done")
CancelSettled == user = "cleanup" ~> user = "done"
=============================================================================

------------------------------ MODULE Operator -------------------------------
(* The operator's Fleet Tool and its two ways to a device:                   *)
(* src/packages/fleet-tool/operator.mjs, rtc.mjs, recovery.mjs, index.mjs    *)
(* and the call manager of mcp-protocol.mjs.                                 *)
(*                                                                           *)
(* A tool call is sent over the direct channel when there is one, or one can *)
(* be opened, and through the hub otherwise.  The tool remembers one ticket  *)
(* (corr) per device, with the request id that proves it; both are saved in  *)
(* the session file before a recoverable command is dispatched.  The ticket  *)
(* of a recoverable command is a hash of its request id, so that one name    *)
(* stands for both here.  The hub and the Agent are modelled as far as the   *)
(* tool can tell: the modules HubResults and OperationRecovery have the rest.*)
EXTENDS Integers, FiniteSets

CONSTANTS
    Op,            \* operations
    KindsOf,       \* Op -> what it may be
    Call,          \* tool calls at a time
    None,
    Serial,        \* the client waits for a call before it makes the next one
    MaxTries,      \* how often a recoverable command is run by its request_id
    MaxLinks,      \* direct sessions opened
    MaxCrashes,    \* ends of the tool's process
    MaxLosses      \* the hub forgets its rows

VARIABLES
    kind,          \* what an operation is
    up, lock,      \* the tool's process; the lock file
    mem, disk,     \* [corr, req]: corrByDevice and requestByDevice; the session file
    call,          \* Call -> [at, op]
    session,       \* the direct session in `sessions`: "none", "opening", "ready", "dead"
    rows,          \* results in that session
    backoff,       \* retryAt is in the future
    far,           \* the Agent's end of that session
    onChan,        \* operations whose sink at the Agent is that session
    out, inn,      \* frames on the channel; results in `inn` are not acknowledged yet
    post,          \* frames from the hub to the device
    own, res,      \* the hub's claims and stored results
    begun,         \* how often an operation was asked for by a tool call
    last,          \* the command that was taken to its dispatch last
    acts, done,    \* the device: how often it acted, what has ended
    shown,         \* results that a tool call returned
    links, crashes, losses

tool  == <<up, lock, mem, disk, call>>
direct == <<session, rows, backoff, links>>
wire  == <<far, onChan, out, inn>>
hub   == <<post, own, res, losses>>
agent == <<acts, done>>
asked == <<kind, begun, last>>
vars  == <<kind, up, lock, mem, disk, call, session, rows, backoff, links, far, onChan, out, inn,
           post, own, res, losses, acts, done, begun, last, shown, crashes>>

Kinds == {"recoverable",   \* run with request_id on a device with operation_recovery_v1
          "plain",         \* run on an older device
          "plugin",        \* a plugin task
          "input"}         \* desktop_screenshot, desktop_action

Recoverable == {o \in Op : kind[o] = "recoverable"}
Plain  == {o \in Op : kind[o] = "plain"}
Plugin == {o \in Op : kind[o] = "plugin"}
Input  == {o \in Op : kind[o] = "input"}
Run == Recoverable \cup Plain
Nothing == [corr |-> None, req |-> None]

At(c, s)   == call[c].at = s
Goes(c, s) == call' = [call EXCEPT ![c].at = s]
Rests(c)   == call' = [call EXCEPT ![c] = [at |-> "idle", op |-> None]]

-----------------------------------------------------------------------------
(* The session file.                                                         *)

\* save: a private temporary file is written, synchronized and renamed.
Saves(state) == disk' = state

\* openRecovery: the lock is created or the process does not start; the file
\* is read once.
Open ==
    /\ ~up /\ ~lock
    /\ up' = TRUE /\ lock' = TRUE /\ mem' = disk
    /\ UNCHANGED <<disk, call, direct, wire, hub, agent, asked, shown, crashes>>

\* A hard crash leaves the lock, which somebody removes who has verified that
\* the process is gone.
Unlock ==
    /\ ~up /\ lock
    /\ lock' = FALSE
    /\ UNCHANGED <<up, mem, disk, call, direct, wire, hub, agent, asked, shown, crashes>>

\* The process ends: the calls and the direct session with it.
Stop(locked) ==
    /\ up /\ crashes < MaxCrashes
    /\ up' = FALSE /\ lock' = locked /\ crashes' = crashes + 1
    /\ mem' = Nothing
    /\ call' = [c \in Call |-> [at |-> "idle", op |-> None]]
    /\ session' = "none" /\ rows' = {} /\ backoff' = FALSE
    /\ UNCHANGED <<disk, links, wire, hub, agent, asked, shown>>

Crash == Stop(TRUE)

\* McpStdioCallManager.close with the shutdown of mcp(): stdin has ended.
Close == Stop(FALSE)

-----------------------------------------------------------------------------
(* Tool calls.                                                               *)

MayBegin(c) == up /\ At(c, "idle") /\ (Serial => \A d \in Call : At(d, "idle"))

\* run on a device with recovery: the request id is noted in memory ...
BeginRun(c, o) ==
    /\ MayBegin(c)
    /\ o \in Recoverable /\ begun[o] < MaxTries
    /\ mem' = [mem EXCEPT !.req = o]
    /\ call' = [call EXCEPT ![c] = [at |-> "naming", op |-> o]]
    /\ begun' = [begun EXCEPT ![o] = @ + 1]
    /\ UNCHANGED <<up, lock, disk, direct, wire, hub, agent, kind, last, shown, crashes>>

\* ... its hash is the ticket, and both are saved before the dispatch.
SaveHandle(c) ==
    /\ At(c, "naming")
    /\ mem' = [mem EXCEPT !.corr = call[c].op] /\ Saves(mem')
    /\ Goes(c, "routing") /\ last' = call[c].op
    /\ UNCHANGED <<up, lock, direct, wire, hub, agent, kind, begun, shown, crashes>>

\* run on an older device, a plugin task, a desktop action (type is one without
\* an answer, and read_screen has no effect that could count): the ticket is made
\* where the frame is sent.
BeginOther(c, o) ==
    /\ MayBegin(c)
    /\ o \in Op \ Recoverable /\ begun[o] = 0
    /\ mem' = IF o \in Plain THEN [mem EXCEPT !.req = None] ELSE mem
    /\ call' = [call EXCEPT ![c] = [at |-> "routing", op |-> o]]
    /\ begun' = [begun EXCEPT ![o] = 1]
    /\ last' = IF o \in Plain THEN o ELSE last
    /\ UNCHANGED <<kind, up, lock, disk, direct, wire, hub, agent, shown, crashes>>

\* rememberCorr of the reply to a run.
Remembers(o) ==
    IF o \in Run
    THEN mem' = [mem EXCEPT !.corr = o] /\ Saves(mem')
    ELSE UNCHANGED <<mem, disk>>

\* notifications/cancelled: the signal of the call is aborted, and what it
\* waited for is not looked at any more.
Cancel(c) ==
    /\ call[c].at \notin {"idle", "naming"}
    /\ Rests(c)
    /\ UNCHANGED <<up, lock, mem, disk, direct, wire, hub, agent, asked, shown, crashes>>

-----------------------------------------------------------------------------
(* The direct channel, createRtcManager.                                     *)

\* tryRpc, sendDirect: the frame is on the channel, or the session is dropped
\* and the call goes through the hub.  A channel whose far end is gone takes
\* the frame and loses it.
SendDirect(c) ==
    LET o == call[c].op IN
    IF session = "ready"
    THEN /\ out' = IF far THEN out \cup {[kind |-> "do", op |-> o]} ELSE out
         /\ Remembers(o)
         /\ IF o \in Input THEN Goes(c, "awaiting") ELSE Rests(c)
         /\ UNCHANGED <<session, rows>>
    ELSE /\ session' = "none" /\ rows' = {}
         /\ Goes(c, "relay")
         /\ UNCHANGED <<out, mem, disk>>

Route(c) ==
    /\ At(c, "routing")
    /\ \/ session = "ready" /\ SendDirect(c)
       \/ /\ session # "ready"
          /\ backoff \/ (session # "opening" /\ links = MaxLinks)
          /\ Goes(c, "relay")
          /\ UNCHANGED <<session, rows, out, mem, disk>>
    /\ UNCHANGED <<up, lock, backoff, links, far, onChan, inn, hub, agent, asked, shown, crashes>>

\* doEstablish replaces the session, and what the old one held is gone; calls
\* that come meanwhile wait for the same attempt.
Link(c) ==
    /\ At(c, "routing") /\ ~backoff
    /\ \/ /\ session \in {"none", "dead"} /\ links < MaxLinks
          /\ session' = "opening" /\ rows' = {} /\ links' = links + 1
       \/ session = "opening" /\ UNCHANGED <<session, rows, links>>
    /\ Goes(c, "linking")
    /\ UNCHANGED <<up, lock, mem, disk, backoff, wire, hub, agent, asked, shown, crashes>>

Joined == [c \in Call |-> IF At(c, "linking") THEN [call[c] EXCEPT !.at = "linked"] ELSE call[c]]
Waiting == call

Missed == [c \in Call |-> IF At(c, "linking") THEN [call[c] EXCEPT !.at = "relay"] ELSE call[c]]

LinkUp ==
    /\ session = "opening"
    /\ session' = "ready" /\ far' = TRUE
    /\ out' = {} /\ inn' = {} /\ onChan' = {} /\ res' = res \cup inn
    /\ call' = Joined
    /\ UNCHANGED <<up, lock, mem, disk, rows, backoff, links, post, own, losses, agent, asked, shown, crashes>>

\* No offer, no answer or no ticket in time: a minute's retreat to the hub.
LinkFails ==
    /\ session = "opening"
    /\ session' = "none" /\ backoff' = TRUE
    /\ call' = Missed
    /\ UNCHANGED <<up, lock, mem, disk, rows, links, wire, hub, agent, asked, shown, crashes>>

Linked(c) ==
    /\ At(c, "linked")
    /\ SendDirect(c)
    /\ UNCHANGED <<up, lock, backoff, links, far, onChan, inn, hub, agent, asked, shown, crashes>>

BackoffEnds ==
    /\ backoff
    /\ backoff' = FALSE
    /\ UNCHANGED <<tool, session, rows, links, wire, hub, agent, asked, shown, crashes>>

\* The Agent's end fails: results without an acknowledgement go by the hub.
Break ==
    /\ far
    /\ far' = FALSE /\ out' = {} /\ inn' = {} /\ onChan' = {}
    /\ res' = res \cup inn
    /\ UNCHANGED <<tool, direct, post, own, losses, agent, asked, shown, crashes>>

\* The channel of the tool closes; the session stays where it is.
Notice ==
    /\ session = "ready" /\ ~far
    /\ session' = "dead"
    /\ UNCHANGED <<tool, rows, backoff, links, wire, hub, agent, asked, shown, crashes>>

\* DirectSession.onMessage: the result is kept and acknowledged.
Receive(o) ==
    /\ session = "ready" /\ o \in inn
    /\ inn' = inn \ {o}
    /\ rows' = rows \cup {o}
    /\ UNCHANGED <<tool, session, backoff, links, far, onChan, out, hub, agent, asked, shown, crashes>>

-----------------------------------------------------------------------------
(* Through the hub.                                                          *)

\* rawHubRpc: the hub claims the ticket and sends the frame; the reply is on
\* its way, or lost.
Relay(c) ==
    /\ At(c, "relay")
    /\ own' = own \cup {call[c].op}
    /\ post' = post \cup {[kind |-> "do", op |-> call[c].op]}
    /\ Goes(c, IF call[c].op \in Input THEN "asking" ELSE "replying")
    /\ UNCHANGED <<up, lock, mem, disk, direct, wire, res, losses, agent, asked, shown, crashes>>

\* The request fails before the hub acts on it, or its reply is lost: the call
\* ends with an error.
RelayFails(c) ==
    /\ call[c].at \in {"relay", "replying", "asking"}
    /\ Rests(c)
    /\ UNCHANGED <<up, lock, mem, disk, direct, wire, hub, agent, asked, shown, crashes>>

Reply(c) ==
    /\ At(c, "replying")
    /\ Remembers(call[c].op) /\ Rests(c)
    /\ UNCHANGED <<up, lock, direct, wire, hub, agent, asked, shown, crashes>>

\* A desktop call is answered by the device, on the channel or at the hub.
Answered(c) ==
    /\ \/ At(c, "awaiting") /\ call[c].op \in rows
       \/ call[c].at \in {"asking", "fallback"} /\ call[c].op \in res
    /\ shown' = shown \cup {call[c].op} /\ Rests(c)
    /\ UNCHANGED <<up, lock, mem, disk, direct, wire, hub, agent, asked, crashes>>

SendAgain(c) ==
    /\ At(c, "awaiting") /\ call[c].op \notin rows
    /\ Goes(c, "relay")
    /\ UNCHANGED <<up, lock, mem, disk, direct, wire, hub, agent, asked, shown, crashes>>

\* The channel closed, or there was no reply in time: the hub is asked for the
\* result of what was sent, and nothing is sent again.
FallBack(c) ==
    /\ At(c, "awaiting") /\ call[c].op \notin rows
    /\ Goes(c, "fallback")
    /\ UNCHANGED <<up, lock, mem, disk, direct, wire, hub, agent, asked, shown, crashes>>

GiveUp(c) ==
    /\ call[c].at \in {"asking", "fallback"}
    /\ Rests(c)
    /\ UNCHANGED <<up, lock, mem, disk, direct, wire, hub, agent, asked, shown, crashes>>

\* The hub starts again, or its rows expire.
HubLoses ==
    /\ losses < MaxLosses
    /\ losses' = losses + 1 /\ own' = {} /\ res' = {}
    /\ UNCHANGED <<tool, direct, wire, post, agent, asked, shown, crashes>>

-----------------------------------------------------------------------------
(* get_result, wait, recover_session and get_plugin_task.                    *)

NoProof(o) == FALSE

\* peekResult: the saved request id goes along with the ticket it belongs to.
Proof(o) == mem.corr = o /\ mem.req # None

Claims(o) == IF Proof(o) /\ mem.req = o THEN own \cup {o} ELSE own

\* From the rows of the session; by a question on an open channel, which
\* answers later; or from the hub, that asks the device.
Peek(o) ==
    /\ up /\ o = mem.corr
    /\ \/ /\ session # "none" /\ o \in rows
          /\ shown' = shown \cup {o}
          /\ UNCHANGED <<out, own, post>>
       \/ /\ session = "ready" /\ o \notin rows
          /\ out' = IF far THEN out \cup {[kind |-> "ask", op |-> o]} ELSE out
          /\ UNCHANGED <<own, post, shown>>
       \/ /\ session # "ready" /\ o \notin rows
          /\ Proof(o) => mem.req = o
          /\ o \in Claims(o)
          /\ own' = Claims(o)
          /\ IF o \in res
             THEN shown' = shown \cup {o} /\ UNCHANGED post
             ELSE post' = post \cup {[kind |-> "ask", op |-> o]} /\ UNCHANGED shown
          /\ UNCHANGED out
    /\ UNCHANGED <<tool, direct, far, onChan, inn, res, losses, agent, asked, crashes>>

\* A plugin task is looked up in the session as long as its channel is open,
\* and at the hub only when there is none.
PeekPlugin(o) ==
    /\ up /\ o \in Plugin /\ begun[o] > 0 /\ \A c \in Call : call[c].op # o
    /\ IF session # "none" /\ o \in rows THEN TRUE
       ELSE session # "ready" /\ o \in own /\ o \in res
    /\ shown' = shown \cup {o}
    /\ UNCHANGED <<tool, direct, wire, hub, agent, asked, crashes>>

-----------------------------------------------------------------------------
(* The device.                                                               *)

\* A frame is handled; a ticket that came on the channel is claimed at the hub
\* first.  A recoverable command whose receipt is there is not run again.
Acts(m) == m.kind = "do" /\ (m.op \in Recoverable => acts[m.op] = 0)

Handles(m) ==
    IF Acts(m)
    THEN acts' = [acts EXCEPT ![m.op] = @ + 1]
    ELSE UNCHANGED acts

\* What has ended is told where it was asked for.
Tells(m) == m.op \in done /\ (m.kind = "do" => m.op \in Recoverable) /\ m.op \in Run

DeviceDirect(m) ==
    /\ m \in out /\ far
    /\ out' = out \ {m}
    /\ Handles(m)
    /\ onChan' = IF Acts(m) THEN onChan \cup {m.op} ELSE onChan
    /\ own' = own \cup {m.op}
    /\ inn' = IF Tells(m) THEN inn \cup {m.op} ELSE inn
    /\ UNCHANGED <<tool, direct, far, post, res, losses, done, asked, shown, crashes>>

DevicePosted(m) ==
    /\ m \in post
    /\ post' = post \ {m}
    /\ Handles(m)
    /\ res' = IF Tells(m) THEN res \cup {m.op} ELSE res
    /\ UNCHANGED <<tool, direct, wire, own, losses, done, asked, shown, crashes>>

\* An operation ends and is told on the channel that it came by, while that is
\* open, or to the hub.
Finish(o) ==
    /\ acts[o] > 0 /\ o \notin done
    /\ done' = done \cup {o}
    /\ IF o \in onChan THEN inn' = inn \cup {o} /\ UNCHANGED res
                       ELSE res' = res \cup {o} /\ UNCHANGED inn
    /\ UNCHANGED <<tool, direct, far, onChan, out, post, own, losses, acts, asked, shown, crashes>>

-----------------------------------------------------------------------------

Init ==
    /\ kind \in {f \in [Op -> Kinds] : \A o \in Op : f[o] \in KindsOf[o]}
    /\ up = FALSE /\ lock = FALSE
    /\ mem = Nothing /\ disk = Nothing
    /\ call = [c \in Call |-> [at |-> "idle", op |-> None]]
    /\ session = "none" /\ rows = {} /\ backoff = FALSE /\ links = 0
    /\ far = FALSE /\ onChan = {} /\ out = {} /\ inn = {}
    /\ post = {} /\ own = {} /\ res = {} /\ losses = 0
    /\ acts = [o \in Op |-> 0] /\ done = {}
    /\ begun = [o \in Op |-> 0] /\ last = None
    /\ shown = {} /\ crashes = 0

CallStep(c) ==
    \/ SaveHandle(c) \/ Route(c) \/ Link(c) \/ Linked(c) \/ Relay(c) \/ Reply(c)
    \/ Answered(c) \/ FallBack(c) \/ GiveUp(c)

LinkEnds == LinkUp \/ LinkFails

Carries(o) ==
    \/ Receive(o)
    \/ \E m \in [kind : {"do", "ask"}, op : {o}] : DeviceDirect(m) \/ DevicePosted(m)

Next ==
    \/ Open \/ Unlock \/ Crash \/ Close
    \/ \E c \in Call : \/ CallStep(c) \/ Cancel(c) \/ RelayFails(c)
                       \/ \E o \in Op : BeginRun(c, o) \/ BeginOther(c, o)
    \/ LinkEnds \/ Notice \/ BackoffEnds \/ Break \/ HubLoses
    \/ \E o \in Op : Carries(o) \/ Finish(o) \/ Peek(o) \/ PeekPlugin(o)

Spec == Init /\ [][Next]_vars

\* Timeouts end what is awaited, frames that are not lost arrive, commands end,
\* and the client goes on to ask for results; nothing makes a channel break.
FairSpec ==
    /\ Spec
    /\ WF_vars(LinkEnds) /\ WF_vars(Notice) /\ WF_vars(Open) /\ WF_vars(Unlock)
    /\ \A c \in Call : WF_vars(CallStep(c))
    /\ \A o \in Op : /\ WF_vars(Receive(o)) /\ WF_vars(Finish(o))
                     /\ WF_vars(Peek(o)) /\ WF_vars(PeekPlugin(o))
                     /\ \A k \in {"do", "ask"} : /\ WF_vars(DeviceDirect([kind |-> k, op |-> o]))
                                              /\ WF_vars(DevicePosted([kind |-> k, op |-> o]))

-----------------------------------------------------------------------------

\* No operation has its effect twice, whatever a client repeats by its request
\* id, whichever way a frame takes, and whatever is lost: the direct channel is
\* not followed by the hub once it has taken a frame, and both name an
\* operation alike (tryRpc, execOnDevice).
EffectOnce == \A o \in Op : acts[o] <= 1

Dispatched(o) == acts[o] > 0 \/ [kind |-> "do", op |-> o] \in out \cup post

\* What a recoverable command may have done can be looked up after the tool's
\* process is gone: when its frame leaves the tool, the session file names it
\* and its proof, and goes on to until the next run (execOnDevice; clients that
\* make one call after the other).
HandleIsSaved ==
    last \in Recoverable /\ Dispatched(last) => disk = [corr |-> last, req |-> last]

\* The result of the recoverable command that was asked for last is returned
\* to a client that goes on to ask, although the direct session that it was
\* sent on is lost or replaced, the hub forgets it, or the tool starts again.
AnswerReachable ==
    \A o \in Op : (o \in Recoverable /\ o \in done /\ last = o) ~> (o \in shown \/ last # o)

\* Every tool call ends: none is left behind by an attempt at a direct session
\* that another call began (establish, waitFor, McpStdioCallManager).
CallReturns == \A c \in Call : ~At(c, "idle") ~> At(c, "idle")

\* A plugin task that has ended is found by a client that polls for it.
PluginPolled == \A o \in Op : (o \in Plugin /\ o \in done) ~> (o \in shown)

\* Nothing is done twice and nothing that was done is lost track of, whichever way a frame takes.
EffectsAreKept == EffectOnce /\ HandleIsSaved
=============================================================================

----------------------------- MODULE MC_HubRows -----------------------------
(* Instances of HubExpiry and HubMcp, the rows the hub keeps for a time, and  *)
(* of AppHub, the hub of the website, side by side: a behaviour is one of     *)
(* either, and the others stay in their initial state.                        *)
EXTENDS HubExpiry, TLC

CONSTANTS s1, p1, p2
InOrderOfKeys == <<p1, p2, s1>>

CONSTANTS Msg, KindOf, Sse, IdleMs, TouchMs, McpMaxAge, QueueLimit, McpMaxNow, MaxLost, m1, m2, m3, f1, f2
Kinds == m1 :> "run" @@ m2 :> "run" @@ m3 :> "close"

VARIABLES now, row, mcpAlarm, stored, operator, persisted, valid, at, before, runs, told, mcpUse,
          opened, stream, streamUse, streamBorn, queue, lost
VARIABLE focus

\* AppHub: the devices of two accounts, one of which claims the other's id; or
\* requests of a run, with one correlation, of two devices of one account.
CONSTANTS Dev, Sock, Req, UserOf, DevOf, Names, Nil, MaxTokens, MaxFrames, d1, d2, w1, w2, w3, q1, q2, u1, u2
Users   == w1 :> u1 @@ w2 :> u2 @@ w3 :> u1 @@ q1 :> u1 @@ q2 :> u1
Devices == w1 :> d1 @@ w2 :> d1 @@ w3 :> d2

VARIABLES appRow, token, history, slot, appIndex, sock, task, result, completed, kind, appTold,
          late, frames

W == INSTANCE AppHub WITH row <- appRow, index <- appIndex, told <- appTold

M == INSTANCE HubMcp WITH
        alarm <- mcpAlarm, lastUse <- mcpUse, MaxAge <- McpMaxAge, MaxNow <- McpMaxNow

\* Every socket of the website's hub names a device; no socket and no request
\* is the value that stands for none.
ASSUME AppAssumption ==
    /\ DevOf \in [Sock -> Dev] /\ Nil \notin Sock \cup Dev

\* Messages of the two transports are apart; a queue holds a frame.
ASSUME McpAssumption ==
    /\ Msg \cap Sse = {} /\ {IdleMs, TouchMs, McpMaxAge, McpMaxNow} \subseteq Nat
    /\ QueueLimit \in Nat \ {0}

expiryVars == <<clock, data, meta, index, alarm, cursor, scheduled, crashed, legacy, lastUse>>
mcpVars == <<now, row, mcpAlarm, stored, operator, persisted, valid, at, before, runs, told, mcpUse,
             opened, stream, streamUse, streamBorn, queue, lost>>
appVars == <<appRow, token, history, slot, appIndex, sock, task, result, completed, kind, appTold,
             late, frames>>
allVars == <<focus, expiryVars, mcpVars, appVars>>

OnlyExpiry == focus = "expiry" /\ UNCHANGED <<focus, mcpVars, appVars>>
OnlyMcp    == focus = "mcp" /\ UNCHANGED <<focus, expiryVars, appVars>>
OnlyApp    == UNCHANGED <<focus, expiryVars, mcpVars>>

Uses(r, ops) == task'[r].op \in ops \cup {"none"}
OnlyRows ==
    /\ focus = "app rows" /\ W!Next /\ OnlyApp
    /\ Uses(q1, {"alias", "remove", "reset"}) /\ Uses(q2, {"alias"})
    /\ sock'[w3] = sock[w3] /\ UNCHANGED <<result, completed, kind, appTold, late, frames>>
OnlyRuns ==
    /\ focus = "app runs" /\ W!Next /\ OnlyApp
    /\ Uses(q1, {"run", "plugin"}) /\ Uses(q2, {}) /\ UNCHANGED token
    /\ sock'[w2] = sock[w2] /\ appTold'[d2] \in {"none", "sent"} /\ kind'[d2] # "plugin"

MCInit == focus \in {"expiry", "mcp", "app rows", "app runs"} /\ Init /\ M!Init /\ W!Init
          /\ appRow[d1] = (IF focus = "app runs" THEN [user |-> u1, alias |-> Nil] ELSE Nil)
          /\ appRow[d2] = [user |-> u1, alias |-> Nil]
MCNext == (OnlyExpiry /\ Next) \/ (OnlyMcp /\ M!Next) \/ OnlyRows \/ OnlyRuns

(* The fairness of HubMcp, where it is in focus.                              *)
MCSpec ==
    /\ MCInit /\ [][MCNext]_allVars
    /\ WF_allVars(OnlyMcp /\ M!Alarm) /\ WF_allVars(OnlyMcp /\ M!Tick)
    /\ WF_allVars(OnlyMcp /\ M!Keepalive /\ stream' = "closed")
    /\ WF_allVars(OnlyMcp /\ M!DevKeepalive /\ M!TooOld)

(* HubMcp: what a client was told outlives the instance, within the limits of *)
(* a stream's queue; a session that has ended stays so, and use keeps one;    *)
(* and a session that nobody uses ends.                                       *)
McpIsSound == M!ToldIsKept /\ M!QueueBound
McpEnds    == M!SessionsEnd

(* No row is forgotten that an alarm has to end, and each ends in its time.   *)
ExpiryIsSound == NothingIsForgotten /\ RowsEnd

(* AppHub: sockets that are open can be reached and kicked, the history and   *)
(* the aliases are those of their devices; a device keeps its owner, and what *)
(* has ended does not run again.                                              *)
AppIsSound == W!OpenIsReachable /\ W!HistoryIsTrue /\ W!AliasIsOne
AppKeeps   == W!OwnerIsKept /\ W!EndIsKept

(* A login, or an MCP session, that is in use lasts, and one that is over     *)
(* does not come back.                                                        *)
SessionsLast == SessionLasts /\ M!EndedForGood /\ M!UseKeepsIt
=============================================================================

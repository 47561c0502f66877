----------------------------- MODULE MC_Results -----------------------------
(* Instances of HubResults, NodeHub and RtcSignals, the three ways in which an *)
(* operator comes to the result of its command, side by side: a behaviour is   *)
(* one of one of them, and the others stay in an initial state, as the         *)
(* account of the hub's devices (HubDevices) does.                             *)
EXTENDS HubDevices, TLC

CONSTANTS Op, Anon, Corr, Call, Reuse, MaxRuns, MaxFrames, MaxReads, MaxResets
CONSTANTS Operator, Job, OpOf, Recoverable, NoJob, NoSock, Sock, MaxEntries, MaxBytes, MaxSummaries, Size,
          MaxRestarts, MaxCalls
CONSTANTS Sid, Operators, Callers, OwnerOf, Limit, MaxSocket
CONSTANTS op1, corr1, call1, call2, oper1, oper2, job1, job2, sock1, sock2, sid1, sid2, own1, own2, dev1

MCOpOf     == [j \in Job |-> IF j = job1 THEN oper1 ELSE oper2]
MCSize     == [j \in Job |-> IF j = job1 THEN 2 ELSE 1]
Owners     == sid1 :> own1 @@ sid2 :> own2
Symmetry   == Permutations(Call)

VARIABLES opOf, kid, up, job, wire, asked, own, res, call, entry, claimed, runs, reads
VARIABLES ws, current, latest, owner, live, alive, results, completed, bytes, down, nodeUp, nodeJob, nodeCall,
          reply, known, calls, restarts
VARIABLES valid, sock, socks, rtcRevoked, toAgent, toHub, rtcRow, signing, signed, ag, on, auth, seen, client,
          rtcCall, rtcOwner, result, took, ask
VARIABLE focus

H == INSTANCE HubResults
N == INSTANCE NodeHub WITH up <- nodeUp, job <- nodeJob, call <- nodeCall
R == INSTANCE RtcSignals WITH
        call <- rtcCall, owner <- rtcOwner, row <- rtcRow, revoked <- rtcRevoked

\* The caches of the Node hub have limits and results have sizes; no job is the
\* value that stands for none, and no operator the missing header.
ASSUME NodeAssumption ==
    /\ {MaxEntries, MaxBytes, MaxSummaries} \subseteq Nat /\ Size \in [Job -> Nat]
    /\ NoJob \notin Job /\ Anon \notin Operator

\* The values that stand for no owner and no fingerprint are no operators.
ASSUME HubAssumption == Anon \notin Op /\ H!NoOwner \notin Op \cup {Anon}

\* An attempt to connect has its operator, and is not the value that stands for none.
ASSUME RtcAssumption ==
    /\ OwnerOf \in [Sid -> Operators] /\ R!NoSid \notin Sid

hubVars  == <<opOf, kid, up, job, wire, asked, own, res, call, entry, claimed, runs, reads>>
nodeVars == <<ws, current, latest, owner, live, alive, results, completed, bytes, down, nodeUp, nodeJob,
              nodeCall, reply, known, calls, restarts>>
rtcVars  == <<valid, sock, socks, rtcRevoked, toAgent, toHub, rtcRow, signing, signed, ag, on, auth, seen, client,
              rtcCall, rtcOwner, result, took, ask>>
resultVars == <<focus, hubVars, nodeVars, rtcVars>>

(* Of NodeHub: a restart stands for one of the calls.                         *)
(* Of RtcSignals: two attempts to connect, or one beside another request.     *)
ResultsInit ==
    /\ Init
    /\ focus \in {"hub", "node", "rtc"}
    /\ H!Init /\ N!Init /\ R!Init
    /\ ask = "off" \/ client[sid2] = "gone"
    /\ focus # "rtc" => ask = "off" /\ \A s \in Sid : client[s] = "gone"
    /\ focus # "hub" => \A c \in Corr : opOf[c] = Anon

OneOf ==
    \/ focus = "hub" /\ H!Next /\ H!Bounded' /\ UNCHANGED <<focus, nodeVars, rtcVars>>
    \/ focus = "node" /\ N!Next /\ calls' + restarts' <= MaxCalls /\ UNCHANGED <<focus, hubVars, rtcVars>>
    \/ focus = "rtc" /\ R!Next /\ UNCHANGED <<focus, hubVars, nodeVars>>
ResultsNext == OneOf /\ UNCHANGED vars

ResultsSpec == ResultsInit /\ [][ResultsNext]_<<vars, resultVars>>

(* HubResults: a result belongs to the operator whose claim came before it,    *)
(* and no waiter misses one; an end that was stored stays, and no result of an *)
(* older token is shown.                                                       *)
ResultsAreOwned == H!UnownedIsUnclaimed /\ H!AnswersAreOwn /\ H!NoMissedResult
ResultsAreKept  == H!DoneIsKept /\ H!NoOldToken

(* NodeHub: what the hub was told has ended is known as ended, to its operator *)
(* alone, within the limits of its caches; the newest socket is the device.    *)
NodeIsSound == N!FinishedIsKnown /\ N!OwnJobsOnly /\ N!CacheIsBounded /\ N!NewestSocketCounts

(* RtcSignals: what is cancelled is never authorized, a session lives on the  *)
(* socket it was asked for by, and an answer is its own operator's.           *)
RtcIsSound == R!CancelHolds /\ R!LivesOnItsSocket /\ R!OwnAnswers
=============================================================================

---------------------------- MODULE MC_PeerRows -----------------------------
(* An instance of PeerRuntime, one row of the tool, beside a PeerSession that *)
(* stays in its initial state: of the hub a row knows the life of its session *)
(* alone.                                                                     *)
EXTENDS PeerSession, TLC

VARIABLES life, told, at, err, rowPhase, roundNo, try, active, given, tr, known, retained, run, stop,
          current, kept, checkpoint, flags, job, target, watch, user

ToolToDevice == [s \in Side |-> IF s = "source" THEN "tool" ELSE "device"]

R == INSTANCE PeerRuntime WITH phase <- rowPhase, round <- roundNo

rowVars == <<life, told, at, err, rowPhase, roundNo, try, active, given, tr, known, retained, run, stop,
             current, kept, checkpoint, flags, job, target, watch, user>>

RowInit == Init /\ R!Init
RowNext == R!Next /\ UNCHANGED vars
RowSpec == RowInit /\ [][RowNext]_<<vars, rowVars>> /\ R!Fairness

\* A row runs one plugin process at most, and leaves none behind (runRound,
\* raceHub, abortRowPlugins).
ProcessesAreSound == R!OneProcess /\ R!NoOrphan

\* The end of the session is acknowledged after the plugin has been stopped
\* (consumeSessionUpdate, drainTerminalDeliveries).
EndAckedAfterCleanup == R!EndAcked

\* Nothing of a row waits for ever: neither run nor cancel().
RowSettles == R!RowEnds /\ R!CancelSettled
=============================================================================

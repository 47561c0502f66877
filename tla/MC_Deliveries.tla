---------------------------- MODULE MC_Deliveries ----------------------------
(* What the hub delivers to an agent until it is settled: a command            *)
(* (OperationRecovery) or an item of a peer session (PeerDelivery).  A         *)
(* behaviour is one of either, and the other stays in its initial state.       *)
EXTENDS OperationRecovery, TLC

CONSTANTS MaxWire, MaxLate, MaxBreaks

VARIABLES record, outbox, mid, aged, acked, sock, down, sess, plug, graceful, later, busy, over,
          must, paid, recovery, receipt, applied, permit, checkpoint, stale, breaks
VARIABLE focus

D == INSTANCE PeerDelivery

peerVars == <<record, outbox, mid, aged, acked, sock, down, sess, plug, graceful, later, busy,
              over, must, paid, recovery, receipt, applied, permit, checkpoint, stale, breaks>>
allVars  == <<focus, vars, peerVars>>

OnlyCommand == focus = "command" /\ UNCHANGED <<focus, peerVars>>
OnlyPeer    == focus = "peer" /\ UNCHANGED <<focus, procVars, disk, callVars, ghostVars, queryVars,
                                            before, said>>

MCInit == focus \in {"command", "peer"} /\ Init /\ D!Init
MCNext == (OnlyCommand /\ Next) \/ (OnlyPeer /\ D!Next)

(* The fairness of OperationRecovery, where it is in focus.                    *)
MCSpec ==
    /\ MCInit /\ [][MCNext]_allVars
    /\ \A c \in Call : SF_allVars(OnlyCommand /\ CallStep(c)) /\ WF_allVars(OnlyCommand /\ Release(c))
    /\ \A q \in Query : SF_allVars(OnlyCommand /\ ReadRow(q)) /\ WF_allVars(OnlyCommand /\ ReplyQuery(q))

(* What a plugin that was aborted has left behind is owed until it is paid.    *)
DebtIsOwed == D!DebtIsOwed

(* The hub hears that a session is cancelled when the plugin has heard it.     *)
CancelIsApplied == D!CancelIsApplied
=============================================================================

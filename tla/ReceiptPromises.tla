-------------------------- MODULE ReceiptPromises --------------------------
(***************************************************************************)
(* What InvocationReceipts promises, and to whom: on any device, and, for  *)
(* as long as no frail process has run (the successor of a process comes   *)
(* up) and where a call ends before its receipt lapses, the callers too.   *)
(***************************************************************************)
EXTENDS InvocationReceipts

Orderly == ~LongCalls /\ \A p \in Frail : life[p] = "unborn"

\* The ledger, the reply files and the receipts in memory agree on any disk,
\* whoever has the ledger has the current one, also after a hand-over that
\* failed, and nobody waits for a receipt that nobody will finish; where
\* restarts are orderly, an invocation has its effect once, after its intent
\* (plugin_invocations.go:11, internal/receipts/store.go:108).
ReceiptsAreSound ==
    /\ TypeOK /\ LedgerIsCurrent /\ CompleteHasReply /\ WaitsForAnAnswer
    /\ Orderly => AtMostOnce /\ IntentIsDurable

\* An id stays bound to its input; where restarts are orderly, what a caller is
\* told is true, and the same for all of them (finishInvocation, Claim).
Truthful == InputKept /\ (Orderly => DeniedTruly /\ ToldAsStored)

RepliesAreTrue == [][Truthful]_vars
=============================================================================

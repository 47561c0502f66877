--------------------------- MODULE MC_PeerSession ---------------------------
(* Instances of PeerSession, and what its code would be with a step left out. *)
EXTENDS PeerSession, TLC

ToolToDevice == [s \in Side |-> IF s = "source" THEN "tool" ELSE "device"]

Symmetric == Permutations(Fingerprint) \cup Permutations(Worker) \cup Permutations(Nonce)
=============================================================================

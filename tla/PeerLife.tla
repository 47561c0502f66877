------------------------------ MODULE PeerLife ------------------------------
(***************************************************************************)
(* What a plugin peer session promises to everyone who looks at it: it     *)
(* goes through numbered rounds, is completed by both ends in one round,   *)
(* and whatever end it comes to first is the one it keeps, until it        *)
(* expires and is forgotten (fleet-worker/src/peer-session.ts).            *)
(* PeerSession implements it; PeerRuntime and its plugins rely on it.      *)
(***************************************************************************)
EXTENDS Integers

CONSTANTS
    End,        \* the two ends
    Rounds      \* PEER_SESSION_MAX_ROUNDS

VARIABLE life   \* phase, number of the round, ends that have completed it

Open == {"open", "live"}
Over == {"completed", "cancelled", "failed", "expired"}

To(phase) == life' = [life EXCEPT !.phase = phase]

LifeInit == life = [phase |-> "none", no |-> 0, done |-> {}]

Begin == life.phase = "none" /\ life' = [phase |-> "open", no |-> 1, done |-> {}]

\* The answer of a round that both ends approved.
Connect == life.phase = "open" /\ To("live")

Finish(e) ==
    /\ life.phase = "live" /\ e \notin life.done
    /\ life' = [life EXCEPT !.done = @ \cup {e},
                            !.phase = IF life.done \cup {e} = End THEN "completed" ELSE @]

\* An interruption: the next round, if there is one.
Advance ==
    /\ life.phase = "live"
    /\ IF life.no < Rounds
       THEN life' = [phase |-> "open", no |-> life.no + 1, done |-> {}]
       ELSE To("failed")

Cease(phase) == phase \in {"cancelled", "failed"} /\ life.phase \in Open /\ To(phase)
Lapse        == life.phase \in (Open \cup Over) \ {"expired"} /\ To("expired")
Forget       == life.phase = "expired" /\ life' = [phase |-> "gone", no |-> 0, done |-> {}]

LifeNext ==
    \/ Begin \/ Connect \/ Advance \/ Lapse \/ Forget
    \/ \E e \in End : Finish(e)
    \/ \E phase \in {"cancelled", "failed"} : Cease(phase)

LifeSpec == LifeInit /\ [][LifeNext]_life
=============================================================================

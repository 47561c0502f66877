-------------------------- MODULE MC_WorkAdmission --------------------------
(* WorkAdmission with the requests of `asked`: two at a time, of kinds that *)
(* share a gate or the consent, or one alone.                               *)
EXTENDS WorkAdmission

CONSTANTS r1, k1, p1, g1

VARIABLE asked

allVars == <<vars, asked>>

Alone   == Cardinality(asked) = 1
OneStep == Alone /\ alive /\ UNCHANGED asked

MCInit == Init /\ asked \in {{r1, p1}, {k1, g1}, {r1}, {p1}, {k1}, {g1}}

MCNext == Next /\ (\A j \in Job \ asked : phase'[j] = "new") /\ UNCHANGED asked

MCSpec == /\ MCInit /\ [][MCNext]_allVars
          /\ WF_allVars(OneStep /\ \E j \in asked : JobStep(j))
          /\ WF_allVars(OneStep /\ HandoverStep)
          /\ WF_allVars(OneStep /\ EndCommit)

(* With one request at a time: a closed gate reopens or the process ends, and *)
(* every reservation is given back (beginAutoUpdateCommit, handoffRestart).   *)
GateReopens == Alone => Reopens /\ Drains
=============================================================================

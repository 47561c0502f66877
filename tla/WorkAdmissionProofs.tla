------------------------ MODULE WorkAdmissionProofs ------------------------
(***************************************************************************)
(* What the consent of the user is worth, for any set of requests of any   *)
(* kind: one request is asked about at a time and none is lost, a device   *)
(* that is off has nothing left to approve, and a denial is the truth.     *)
(***************************************************************************)
EXTENDS WorkAdmission, FiniteSetTheorems, TLAPS

Phases  == Unadmitted \cup Admitted
Answers == Denied \cup {"none", "result"}

\* The phases in which a request has had no effect yet.
Unstarted == {"new", "reject", "loop", "verdict", "refuse", "parked", "taken", "start"}

Shape ==
    /\ pending \in Job \cup {Nobody}
    /\ phase \in [Job -> Phases]
    /\ answer \in [Job -> Answers]
    /\ launched \subseteq Job

\* A request is answered when it ends, and launched when it runs.
Unanswered == \A j \in Job : phase[j] # "end" => answer[j] = "none"
Unlaunched == \A j \in Job : phase[j] \in Unstarted => j \notin launched

ConsentInv ==
    /\ Shape /\ Unanswered /\ Unlaunched
    /\ OneConsent /\ OffClearsConsent /\ DenialIsFinal

\* The invariant holds when the process starts.
LEMMA ConsentInit == Init => ConsentInv
  BY KindAssumption
  DEF Init, ConsentInv, Shape, Phases, Answers, Unanswered, Unlaunched, OneConsent,
      OffClearsConsent, DenialIsFinal, Unadmitted, Admitted, Denied, Unstarted

\* A step of one job that neither parks it nor takes it from the user.
LEMMA MoveStep ==
  ASSUME ConsentInv, NEW j \in Job, NEW to \in Phases \ {"parked"}, NEW how \in Answers,
         phase[j] # "parked",
         phase' = [phase EXCEPT ![j] = to],
         answer' = [answer EXCEPT ![j] = how],
         launched' \in {launched, launched \cup {j}},
         to # "end" => how = "none",
         to \in Unstarted \/ how \in Denied => phase[j] \in Unstarted /\ launched' = launched,
         UNCHANGED <<pending, permit, enabled>>
  PROVE  ConsentInv'
  <1>1. Shape'
    BY DEF ConsentInv, Shape
  <1>2. Unanswered'
    BY DEF ConsentInv, Shape, Unanswered
  <1>3. Unlaunched'
    BY DEF ConsentInv, Shape, Unlaunched
  <1>4. OneConsent'
    BY KindAssumption DEF ConsentInv, Shape, OneConsent
  <1>5. OffClearsConsent'
    BY DEF ConsentInv, OffClearsConsent
  <1>6. DenialIsFinal'
    BY DEF ConsentInv, Shape, Unlaunched, DenialIsFinal, Denied, Answers
  <1> QED BY <1>1, <1>2, <1>3, <1>4, <1>5, <1>6 DEF ConsentInv

\* The same for a step that gives no answer.
LEMMA SilentMove ==
  ASSUME ConsentInv, NEW j \in Job, NEW to \in Phases \ {"parked", "end"},
         phase[j] \notin {"parked", "end"},
         phase' = [phase EXCEPT ![j] = to],
         launched' \in {launched, launched \cup {j}},
         to \in Unstarted => phase[j] \in Unstarted /\ launched' = launched,
         UNCHANGED <<answer, pending, permit, enabled>>
  PROVE  ConsentInv'
  <1>1. answer[j] = "none"
    BY DEF ConsentInv, Unanswered
  <1>2. answer' = [answer EXCEPT ![j] = "none"]
    BY <1>1 DEF ConsentInv, Shape
  <1>3. "none" \in Answers /\ "none" \notin Denied
    BY DEF Answers, Denied
  <1> QED BY <1>2, <1>3, MoveStep

\* A step that changes no job and no switch.
LEMMA QuietStep ==
  ASSUME ConsentInv, UNCHANGED <<phase, answer, launched, pending, permit>>,
         enabled => enabled'
  PROVE  ConsentInv'
  BY DEF ConsentInv, Shape, Unanswered, Unlaunched, OneConsent, OffClearsConsent, DenialIsFinal

\* The pending job is taken from the user, whatever becomes of it.
LEMMA SettleStep ==
  ASSUME ConsentInv, NEW fate \in [Job -> {"reject", "end"}], Settle(fate),
         UNCHANGED launched
  PROVE  ConsentInv'
  <1>1. CASE pending = Nobody
    BY <1>1 DEF ConsentInv, Shape, Unanswered, Unlaunched, OneConsent, OffClearsConsent,
                DenialIsFinal, Settle
  <1>2. CASE pending # Nobody
    <2>1. pending \in Job /\ phase[pending] = "parked"
      BY <1>2 DEF ConsentInv, Shape, OneConsent
    <2>2. /\ pending' = Nobody
          /\ phase' = [phase EXCEPT ![pending] = fate[pending]]
          /\ answer' = IF fate[pending] = "reject" THEN answer
                       ELSE [answer EXCEPT ![pending] = "dropped"]
      BY <1>2 DEF Settle
    <2>3. pending \notin launched /\ answer[pending] = "none"
      BY <2>1 DEF ConsentInv, Unlaunched, Unanswered, Unstarted
    <2>4. fate[pending] \in {"reject", "end"}
      BY <2>1
    <2>5. Shape'
      BY <2>1, <2>2, <2>4 DEF ConsentInv, Shape, Phases, Unadmitted, Answers, Denied
    <2>6. Unanswered' /\ Unlaunched'
      BY <2>1, <2>2, <2>3, <2>4 DEF ConsentInv, Shape, Unanswered, Unlaunched
    <2>7. OneConsent' /\ OffClearsConsent'
      BY <2>1, <2>2, <2>4, KindAssumption DEF ConsentInv, Shape, OneConsent, OffClearsConsent
    <2>8. DenialIsFinal'
      BY <2>1, <2>2, <2>3, <2>4 DEF ConsentInv, Shape, DenialIsFinal, Denied
    <2> QED BY <2>5, <2>6, <2>7, <2>8 DEF ConsentInv
  <1> QED BY <1>1, <1>2

LEMMA RejectFate == ToBeRejected \in [Job -> {"reject", "end"}]
  BY DEF ToBeRejected

\* The user is asked: only on a device that is on, and if nothing waits yet.
LEMMA ParkStep ==
  ASSUME ConsentInv, NEW j \in Job, NEW r \in Role, Park(j, r)
  PROVE  ConsentInv'
  <1>1. /\ phase[j] = "verdict" /\ pending = Nobody /\ enabled /\ permit = "ask"
        /\ pending' = j /\ phase' = [phase EXCEPT ![j] = "parked"]
        /\ UNCHANGED <<answer, launched, permit, enabled>>
    BY DEF Park, Asks, Refuses, device
  <1>2. Shape'
    BY <1>1 DEF ConsentInv, Shape, Phases, Admitted
  <1>3. Unanswered' /\ Unlaunched'
    BY <1>1 DEF ConsentInv, Shape, Unanswered, Unlaunched, Unstarted
  <1>4. OneConsent'
    BY <1>1, KindAssumption DEF ConsentInv, Shape, OneConsent
  <1>5. OffClearsConsent'
    BY <1>1 DEF ConsentInv, OffClearsConsent
  <1>6. DenialIsFinal'
    BY <1>1 DEF ConsentInv, Shape, Unanswered, DenialIsFinal, Denied
  <1> QED BY <1>2, <1>3, <1>4, <1>5, <1>6 DEF ConsentInv

\* The user approves: the request is in the hands of approve().
LEMMA ApproveStep ==
  ASSUME ConsentInv, NEW j \in Job, Approve(j)
  PROVE  ConsentInv'
  <1>1. /\ pending = j /\ pending' = Nobody /\ phase' = [phase EXCEPT ![j] = "taken"]
        /\ UNCHANGED <<answer, launched, permit, enabled>>
    BY DEF Approve, device
  <1>2. phase[j] = "parked"
    BY <1>1 DEF ConsentInv, OneConsent
  <1>3. Shape'
    BY <1>1 DEF ConsentInv, Shape, Phases, Admitted
  <1>4. Unanswered' /\ Unlaunched'
    BY <1>1, <1>2 DEF ConsentInv, Shape, Unanswered, Unlaunched, Unstarted
  <1>5. OneConsent' /\ OffClearsConsent'
    BY <1>1, KindAssumption DEF ConsentInv, Shape, OneConsent, OffClearsConsent
  <1>6. DenialIsFinal'
    BY <1>1, <1>2 DEF ConsentInv, Shape, Unanswered, DenialIsFinal, Denied
  <1> QED BY <1>3, <1>4, <1>5, <1>6 DEF ConsentInv

\* The steps of a job's own goroutines.
LEMMA JobStepConsent ==
  ASSUME ConsentInv, NEW j \in Job, JobStep(j)
  PROVE  ConsentInv'
  <1>1. CASE GoWork(j)
    <2>1. /\ phase[j] = "loop" /\ phase' = [phase EXCEPT ![j] = "verdict"]
          /\ UNCHANGED <<answer, launched, pending, permit, enabled>>
      BY <1>1 DEF GoWork, device
    <2> QED BY <2>1, SilentMove DEF Phases, Admitted, Unstarted
  <1>2. CASE Refuse(j)
    <2>1. /\ phase[j] = "verdict" /\ phase' = [phase EXCEPT ![j] = "refuse"]
          /\ UNCHANGED <<answer, launched, pending, permit, enabled>>
      BY <1>2 DEF Refuse, device
    <2> QED BY <2>1, SilentMove DEF Phases, Admitted, Unstarted
  <1>3. CASE CannotStart(j)
    <2>1. /\ phase[j] = "start" /\ phase' = [phase EXCEPT ![j] = "record"]
          /\ UNCHANGED <<answer, launched, pending, permit, enabled>>
      BY <1>3 DEF CannotStart, device
    <2> QED BY <2>1, SilentMove DEF Phases, Admitted, Unstarted
  <1>4. CASE End(j)
    <2>1. /\ phase[j] = "running" /\ phase' = [phase EXCEPT ![j] = "record"]
          /\ UNCHANGED <<answer, launched, pending, permit, enabled>>
      BY <1>4 DEF End, device
    <2> QED BY <2>1, SilentMove DEF Phases, Admitted, Unstarted
  <1>5. CASE Transfer(j)
    <2>1. /\ phase[j] = "taken" /\ phase' = [phase EXCEPT ![j] = "start"]
          /\ UNCHANGED <<answer, launched, pending, permit, enabled>>
      BY <1>5 DEF Transfer, device
    <2> QED BY <2>1, SilentMove DEF Phases, Admitted, Unstarted
  <1>6. CASE Reject(j)
    <2>1. /\ phase[j] = "reject" /\ phase' = [phase EXCEPT ![j] = "end"]
          /\ answer' = [answer EXCEPT ![j] = "rejected"]
          /\ UNCHANGED <<launched, pending, permit, enabled>>
      BY <1>6 DEF Reject, device
    <2> QED BY <2>1, MoveStep DEF Phases, Unadmitted, Unstarted, Answers, Denied
  <1>7. CASE Release(j) \/ \E r \in Role : Return(j, r)
    BY <1>7, QuietStep DEF Release, Return, device
  <1>8. ASSUME NEW r \in Role, Proceed(j, r)
        PROVE  ConsentInv'
    <2>1. /\ phase[j] = "verdict" /\ phase' = [phase EXCEPT ![j] = "start"]
          /\ UNCHANGED <<answer, launched, pending, permit, enabled>>
      BY <1>8 DEF Proceed, device
    <2> QED BY <2>1, SilentMove DEF Phases, Admitted, Unstarted
  <1>9. ASSUME NEW r \in Role, SayRefused(j, r) \/ DisabledBeforeStart(j, r)
        PROVE  ConsentInv'
    <2>1. /\ phase[j] \in {"refuse", "start"} /\ phase' = [phase EXCEPT ![j] = "end"]
          /\ answer' = [answer EXCEPT ![j] = "refused"]
          /\ UNCHANGED <<launched, pending, permit, enabled>>
      BY <1>9 DEF SayRefused, DisabledBeforeStart, Reply, device
    <2> QED BY <2>1, MoveStep DEF Phases, Unadmitted, Unstarted, Answers, Denied
  <1>10. ASSUME NEW r \in Role, Start(j, r)
         PROVE  ConsentInv'
    <2>1. /\ phase[j] = "start" /\ phase' = [phase EXCEPT ![j] = "running"]
          /\ launched' = launched \cup {j}
          /\ UNCHANGED <<answer, pending, permit, enabled>>
      BY <1>10 DEF Start, device
    <2> QED BY <2>1, SilentMove DEF Phases, Admitted, Unstarted
  <1>11. ASSUME NEW r \in Role, Record(j, r)
         PROVE  ConsentInv'
    <2>1. /\ phase[j] = "record" /\ phase' = [phase EXCEPT ![j] = "end"]
          /\ answer' = [answer EXCEPT ![j] = "result"]
          /\ UNCHANGED <<launched, pending, permit, enabled>>
      BY <1>11 DEF Record, Reply, device
    <2> QED BY <2>1, MoveStep DEF Phases, Unadmitted, Unstarted, Answers, Denied
  <1> QED BY <1>1, <1>2, <1>3, <1>4, <1>5, <1>6, <1>7, <1>8, <1>9, <1>10, <1>11, ParkStep
          DEF JobStep

\* The steps of the user, of the hub and of a restart.
LEMMA OtherStepConsent ==
  ASSUME ConsentInv, HandoverStep \/ EndCommit \/ UserStep \/ HubStep \/ UpdateStep
  PROVE  ConsentInv'
  <1>1. CASE HandoverStep \/ EndCommit \/ BeginCommit \/ Enable \/ Connect
    <2>1. CASE Enable
      BY <2>1, QuietStep DEF Enable, jobs
    <2>2. CASE Connect
      BY <2>2, QuietStep DEF Connect, jobs
    <2>3. CASE EndCommit \/ BeginCommit
      BY <2>3, QuietStep DEF EndCommit, BeginCommit, device, jobs
    <2>4. CASE HandoverStep
      <3>1. UNCHANGED <<device, pending, jobs>>
        BY <2>4, Zenon
        DEF HandoverStep, PortFree, StorageReleased, Spawned, Served, Recover, Quit
      <3> QED BY <3>1, QuietStep DEF device, jobs
    <2> QED BY <1>1, <2>1, <2>2, <2>3, <2>4
  <1>2. ASSUME NEW j \in Job, Approve(j)
        PROVE  ConsentInv'
    BY <1>2, ApproveStep
  <1>3. CASE DenyPending \/ Disable \/ AuthRevoked \/ \E who \in {"auto", "manual"} : BeginHandoff(who)
    <2>1. Settle(ToBeRejected) /\ UNCHANGED launched
      BY <1>3 DEF DenyPending, Disable, AuthRevoked, BeginHandoff
    <2> QED BY <2>1, RejectFate, SettleStep
  <1>4. ASSUME NEW p \in {"off", "ask", "allow"}, SetPermit(p)
        PROVE  ConsentInv'
    <2>1. CASE p = "off"
      <3>1. Settle(ToBeRejected) /\ UNCHANGED launched
        BY <1>4, <2>1 DEF SetPermit
      <3> QED BY <3>1, RejectFate, SettleStep
    <2>2. CASE p # "off"
      <3>1. UNCHANGED <<phase, answer, launched, pending, enabled>> /\ permit' # "off"
        BY <1>4, <2>2 DEF SetPermit
      <3> QED
        BY <3>1 DEF ConsentInv, Shape, Unanswered, Unlaunched, OneConsent, OffClearsConsent,
                    DenialIsFinal
    <2> QED BY <2>1, <2>2
  <1>5. CASE SocketClosed
    <2> DEFINE fate == [j \in Job |-> IF j \in Run THEN "reject" ELSE "end"]
    <2>1. fate \in [Job -> {"reject", "end"}]
      OBVIOUS
    <2>2. Settle(fate) /\ UNCHANGED launched
      BY <1>5 DEF SocketClosed
    <2> QED BY <2>1, <2>2, SettleStep
  <1>6. ASSUME NEW j \in Job, Busy(j)
        PROVE  ConsentInv'
    <2>1. /\ phase[j] = "new" /\ phase' = [phase EXCEPT ![j] = "end"]
          /\ answer' = [answer EXCEPT ![j] = "busy"]
          /\ UNCHANGED <<launched, pending, permit, enabled>>
      BY <1>6 DEF Busy, device
    <2> QED BY <2>1, MoveStep DEF Phases, Unadmitted, Unstarted, Answers, Denied
  <1>7. ASSUME NEW j \in Job, Begin(j)
        PROVE  ConsentInv'
    <2>1. PICK to \in {"verdict", "loop"} :
             /\ phase[j] = "new" /\ phase' = [phase EXCEPT ![j] = to]
             /\ UNCHANGED <<answer, launched, pending, permit, enabled>>
      BY <1>7 DEF Begin, device
    <2> QED BY <2>1, SilentMove DEF Phases, Admitted, Unstarted
  <1> QED BY <1>1, <1>2, <1>3, <1>4, <1>5, <1>6, <1>7 DEF UserStep, HubStep, UpdateStep

\* Every step preserves the invariant.
LEMMA ConsentStep == ConsentInv /\ [Next]_vars => ConsentInv'
  <1> SUFFICES ASSUME ConsentInv, [Next]_vars PROVE ConsentInv'
    OBVIOUS
  <1>1. CASE UNCHANGED vars
    BY <1>1, QuietStep DEF vars, device, jobs
  <1>2. CASE Next
    BY <1>2, JobStepConsent, OtherStepConsent DEF Next
  <1> QED BY <1>1, <1>2

\* Consent is neither forgotten nor overwritten, a device that is off has
\* nothing to approve, and denials are true: inputVerdict, approve, deny,
\* setPermit, setEnabled, disconnectLocked, readLoop and handleAuthRevoked
\* together, in any order and for any requests.
THEOREM ConsentHolds == Spec => []ConsentInv
  BY ConsentInit, ConsentStep, PTL DEF Spec

\* Every request that waits is the one the user is asked about.
THEOREM OneConsentHolds == Spec => []OneConsent
  <1>1. ConsentInv => OneConsent
    BY DEF ConsentInv
  <1> QED BY <1>1, ConsentHolds, PTL

\* A device that is off, or whose permit is off, has nothing left to approve.
THEOREM OffClearsConsentHolds == Spec => []OffClearsConsent
  <1>1. ConsentInv => OffClearsConsent
    BY DEF ConsentInv
  <1> QED BY <1>1, ConsentHolds, PTL

\* Who was told that a request was refused, rejected, dropped or not started
\* was told the truth, for ever.
THEOREM DenialIsFinalHolds == Spec => []DenialIsFinal
  <1>1. ConsentInv => DenialIsFinal
    BY DEF ConsentInv
  <1> QED BY <1>1, ConsentHolds, PTL

\* All three together, which the runs check: inputVerdict, approve, deny,
\* setPermit, setEnabled and disconnectLocked in any order.
THEOREM ConsentIsSafeHolds == Spec => []ConsentIsSafe
  BY OneConsentHolds, OffClearsConsentHolds, DenialIsFinalHolds, PTL DEF ConsentIsSafe

-----------------------------------------------------------------------------
(* The reservations: every goroutine that has work is counted once.          *)

\* A request in one of these phases is in nobody's hands.
AtRest == Unadmitted \cup {"parked"}

\* Which goroutines a request in phase ph may have: one that works, those that
\* have yet to return, and none of those it will be handed over to later.
Hand(j, ph, g) ==
    /\ ph \in AtRest => \A r \in Role : g[r] # "on"
    /\ ph \notin AtRest => \E r \in Role : g[r] = "on" /\ \A s \in Role \ {r} : g[s] # "on"
    /\ ph = "loop"  => g["loop"] = "on"
    /\ ph = "taken" => g["consent"] = "on"
    /\ ph = "new"   => g["loop"] = "none"
    /\ ph \in {"new", "loop"} => g["task"] = "none"
    /\ ph \in {"new", "loop", "verdict", "refuse", "parked"} => g["consent"] = "none"
    /\ ph \in {"new", "loop", "verdict", "refuse", "parked", "taken"} => g["exec"] = "none"
    /\ ph \in {"new", "loop", "verdict", "refuse", "parked", "taken", "start"} => g["poll"] = "none"
    /\ \A r \in Role : g[r] = "release" => r = "task" /\ j \in Run

Hands == \A j \in Job : Hand(j, phase[j], goroutine[j])

Accounted == WorkAccounted /\ IsFiniteSet(Holders) /\ IsFiniteSet(Unreleased)

WorkInv == goroutine \in [Job -> [Role -> Step]] /\ Hands /\ Accounted

LEMMA PhasesAre == Phases = {"new", "reject", "end", "loop", "verdict", "refuse", "parked", "taken",
                             "start", "running", "record"}
  BY DEF Phases, Unadmitted, Admitted

\* The invariant holds when the process starts.
LEMMA WorkInit == Init => WorkInv
  <1> SUFFICES ASSUME Init PROVE WorkInv
    OBVIOUS
  <1>1. goroutine \in [Job -> [Role -> Step]]
    BY DEF Init, Step
  <1>2. Hands
    BY DEF Init, Hands, Hand, Role, AtRest, Unadmitted
  <1>3. Holders = {} /\ Unreleased = {}
    BY DEF Init, Holders, Unreleased, Job, Role
  <1>4. Accounted
    BY <1>3, FS_EmptySet DEF Init, Accounted, WorkAccounted
  <1> QED BY <1>1, <1>2, <1>4 DEF WorkInv

\* One request moves to another phase, with other goroutines.
LEMMA HandsStep ==
  ASSUME WorkInv, phase \in [Job -> Phases], NEW j \in Job, NEW to, NEW g \in [Role -> Step],
         Hand(j, to, g),
         phase' = [phase EXCEPT ![j] = to], goroutine' = [goroutine EXCEPT ![j] = g]
  PROVE  goroutine' \in [Job -> [Role -> Step]] /\ Hands'
  <1>1. goroutine' \in [Job -> [Role -> Step]]
    BY DEF WorkInv
  <1>2. ASSUME NEW k \in Job
        PROVE  Hand(k, phase'[k], goroutine'[k])
    <2>1. CASE k = j
      <3>1. phase'[k] = to /\ goroutine'[k] = g
        BY <2>1 DEF WorkInv
      <3> QED BY <2>1, <3>1
    <2>2. CASE k # j
      <3>1. phase'[k] = phase[k] /\ goroutine'[k] = goroutine[k]
        BY <2>2 DEF WorkInv
      <3> QED BY <3>1 DEF WorkInv, Hands
    <2> QED BY <2>1, <2>2
  <1> QED BY <1>1, <1>2 DEF Hands, Hand

\* No goroutine is reserved for, and none returns.
LEMMA HoldersStay ==
  ASSUME WorkInv, NEW j \in Job, NEW g \in [Role -> Step],
         \A r \in Role : Counted(j, r) => (g[r] = "none" <=> goroutine[j][r] = "none"),
         goroutine' = [goroutine EXCEPT ![j] = g]
  PROVE  Holders' = Holders
  <1>1. \A k \in Job, r \in Role :
           Counted(k, r) => (goroutine'[k][r] = "none" <=> goroutine[k][r] = "none")
    BY DEF WorkInv
  <1> QED BY <1>1 DEF Holders, Counted

\* One goroutine is reserved for.
LEMMA HoldersGain ==
  ASSUME WorkInv, NEW j \in Job, NEW g \in [Role -> Step], NEW s \in Role, Counted(j, s),
         goroutine[j][s] = "none", g[s] # "none",
         \A r \in Role \ {s} : g[r] = "none" <=> goroutine[j][r] = "none",
         goroutine' = [goroutine EXCEPT ![j] = g]
  PROVE  Cardinality(Holders') = activeWork + 1 /\ IsFiniteSet(Holders')
  <1>1. \A k \in Job, r \in Role :
           goroutine'[k][r] # "none" <=> goroutine[k][r] # "none" \/ (k = j /\ r = s)
    BY DEF WorkInv
  <1>2. Holders' = Holders \cup {<<j, s>>} /\ <<j, s>> \notin Holders
    BY <1>1 DEF Holders, Counted
  <1> QED BY <1>2, FS_AddElement DEF WorkInv, Accounted, WorkAccounted

\* One goroutine returns.
LEMMA HoldersLose ==
  ASSUME WorkInv, NEW j \in Job, NEW g \in [Role -> Step], NEW s \in Role, Counted(j, s),
         goroutine[j][s] # "none", g[s] = "none",
         \A r \in Role \ {s} : g[r] = "none" <=> goroutine[j][r] = "none",
         goroutine' = [goroutine EXCEPT ![j] = g]
  PROVE  Cardinality(Holders') = activeWork - 1 /\ IsFiniteSet(Holders')
  <1>1. \A k \in Job, r \in Role :
           goroutine'[k][r] # "none" <=> goroutine[k][r] # "none" /\ ~(k = j /\ r = s)
    BY DEF WorkInv
  <1>2. Holders' = Holders \ {<<j, s>>} /\ <<j, s>> \in Holders
    BY <1>1 DEF Holders, Counted
  <1> QED BY <1>2, FS_RemoveElement DEF WorkInv, Accounted, WorkAccounted

\* The admissions of a step that neither admits nor releases.
LEMMA UnreleasedStay ==
  ASSUME WorkInv, NEW j \in Job, NEW g \in [Role -> Step],
         j \in Run => (g["task"] \in {"on", "release"} <=> goroutine[j]["task"] \in {"on", "release"}),
         goroutine' = [goroutine EXCEPT ![j] = g]
  PROVE  Unreleased' = Unreleased
  <1>1. \A k \in Run :
           goroutine'[k]["task"] \in {"on", "release"} <=> goroutine[k]["task"] \in {"on", "release"}
    BY DEF WorkInv, Job
  <1> QED BY <1>1 DEF Unreleased

\* A step that changes nobody's goroutines: a request goes from one phase to the next.
LEMMA PhaseStep ==
  ASSUME WorkInv, phase \in [Job -> Phases], NEW j \in Job, NEW to, Hand(j, to, goroutine[j]),
         phase' = [phase EXCEPT ![j] = to], UNCHANGED <<goroutine, counters>>
  PROVE  WorkInv'
  <1>1. goroutine[j] \in [Role -> Step] /\ goroutine' = [goroutine EXCEPT ![j] = goroutine[j]]
    BY DEF WorkInv
  <1>2. goroutine' \in [Job -> [Role -> Step]] /\ Hands'
    BY <1>1, HandsStep
  <1>3. Holders' = Holders /\ Unreleased' = Unreleased
    BY DEF Holders, Unreleased, Counted
  <1> QED BY <1>2, <1>3 DEF WorkInv, Accounted, WorkAccounted, counters

\* A goroutine is done with the request, which rests.
LEMMA QuitsStep ==
  ASSUME WorkInv, phase \in [Job -> Phases], NEW j \in Job, NEW r \in Role, goroutine[j][r] = "on",
         NEW to \in {"end", "parked"}, to = "parked" => phase[j] = "verdict",
         phase' = [phase EXCEPT ![j] = to], Quits(j, r), UNCHANGED counters
  PROVE  WorkInv'
  <1> DEFINE g == [goroutine[j] EXCEPT ![r] = Leave(j, r)]
  <1>0. goroutine[j] \in [Role -> Step] /\ Hand(j, phase[j], goroutine[j]) /\ phase[j] \in Phases
    BY DEF WorkInv, Hands
  <1>1. Leave(j, r) \in {"return", "release"} /\ (Leave(j, r) = "release" <=> j \in Run /\ r = "task")
    BY DEF Leave
  <1>2. g \in [Role -> Step] /\ goroutine' = [goroutine EXCEPT ![j] = g]
    BY <1>0, <1>1 DEF Quits, Step, WorkInv
  <1>3. Hand(j, to, g)
    <2>1. \A s \in Role : g[s] # "on"
      BY <1>0, <1>1 DEF Hand
    <2>2. \A s \in Role : goroutine[j][s] = "none" => g[s] = "none"
      BY <1>0
    <2>3. to \in AtRest /\ {"loop", "task", "exec", "poll", "consent"} \subseteq Role
      BY DEF AtRest, Unadmitted, Role
    <2>4. \A s \in Role : g[s] = "release" => s = "task" /\ j \in Run
      BY <1>0, <1>1 DEF Hand
    <2> QED BY <1>0, <2>1, <2>2, <2>3, <2>4 DEF Hand
  <1>4. goroutine' \in [Job -> [Role -> Step]] /\ Hands'
    BY <1>2, <1>3, HandsStep
  <1>5. Holders' = Holders
    <2>1. \A s \in Role : g[s] = "none" <=> goroutine[j][s] = "none"
      BY <1>0, <1>1
    <2> QED BY <1>2, <2>1, HoldersStay
  <1>6. Unreleased' = Unreleased
    <2>1. j \in Run => (g["task"] \in {"on", "release"} <=> goroutine[j]["task"] \in {"on", "release"})
      BY <1>0, <1>1 DEF Role
    <2> QED BY <1>2, <2>1, UnreleasedStay
  <1> QED BY <1>4, <1>5, <1>6 DEF WorkInv, Accounted, WorkAccounted, counters

\* A goroutine hands the request over to one that has no work yet.
LEMMA HandOverStep ==
  ASSUME WorkInv, phase \in [Job -> Phases], NEW j \in Job, NEW r \in Role, NEW s \in Role \ {"loop"},
         goroutine[j][r] = "on", goroutine[j][s] = "none",
         NEW to \in {"verdict", "start", "running"},
         to = "verdict" => phase[j] = "loop" /\ s = "task",
         to = "start" => s = "exec" /\ phase[j] \in {"verdict", "taken"},
         to = "running" => s = "poll",
         phase' = [phase EXCEPT ![j] = to], HandOver(j, r, s),
         IF j \in Run /\ s = "task" THEN admissions' = admissions + 1 ELSE UNCHANGED admissions
  PROVE  WorkInv'
  <1> DEFINE g == [[goroutine[j] EXCEPT ![r] = Leave(j, r)] EXCEPT ![s] = "on"]
  <1>0. /\ goroutine[j] \in [Role -> Step] /\ Hand(j, phase[j], goroutine[j]) /\ phase[j] \in Phases
        /\ r # s
    BY DEF WorkInv, Hands
  <1>1. Leave(j, r) \in {"return", "release"} /\ (Leave(j, r) = "release" <=> j \in Run /\ r = "task")
    BY DEF Leave
  <1>2. g \in [Role -> Step] /\ goroutine' = [goroutine EXCEPT ![j] = g]
    BY <1>0, <1>1 DEF HandOver, Step, WorkInv
  <1>3. g[s] = "on" /\ g[r] = Leave(j, r) /\ \A t \in Role \ {r, s} : g[t] = goroutine[j][t]
    BY <1>0
  <1> HIDE DEF g
  <1>4. Hand(j, to, g)
    <2>1. \A t \in Role \ {r} : goroutine[j][t] # "on"
      BY <1>0 DEF Hand
    <2>2. to \notin AtRest /\ {"loop", "task", "exec", "poll", "consent"} \subseteq Role
      BY DEF AtRest, Unadmitted, Role
    <2>3. \E t \in Role : g[t] = "on" /\ \A u \in Role \ {t} : g[u] # "on"
      BY <1>1, <1>3, <2>1
    <2>4. \A t \in Role : g[t] = "release" => t = "task" /\ j \in Run
      BY <1>0, <1>1, <1>3 DEF Hand
    <2>5. to = "verdict" => g["consent"] = "none" /\ g["exec"] = "none" /\ g["poll"] = "none"
      BY <1>0, <1>3, <2>2 DEF Hand
    <2>6. to = "start" => g["poll"] = "none"
      BY <1>0, <1>3, <2>2 DEF Hand
    <2> QED BY <2>2, <2>3, <2>4, <2>5, <2>6 DEF Hand
  <1>5. goroutine' \in [Job -> [Role -> Step]] /\ Hands'
    BY <1>2, <1>4, HandsStep
  <1>6. Cardinality(Holders') = activeWork + 1 /\ IsFiniteSet(Holders')
    <2>1. Counted(j, s) /\ g[s] # "none"
      BY <1>3 DEF Counted
    <2>2. \A t \in Role \ {s} : g[t] = "none" <=> goroutine[j][t] = "none"
      BY <1>0, <1>1, <1>3
    <2> QED BY <1>2, <2>1, <2>2, HoldersGain
  <1>7. CASE j \in Run /\ s = "task"
    <2>1. \A k \in Run : goroutine'[k]["task"] \in {"on", "release"}
                           <=> goroutine[k]["task"] \in {"on", "release"} \/ k = j
      BY <1>2, <1>3, <1>7 DEF WorkInv, Job
    <2>2. Unreleased' = Unreleased \cup {j} /\ j \notin Unreleased
      BY <1>7, <2>1 DEF Unreleased
    <2>3. Cardinality(Unreleased') = admissions + 1 /\ IsFiniteSet(Unreleased')
      BY <2>2, FS_AddElement DEF WorkInv, Accounted, WorkAccounted
    <2> QED BY <1>5, <1>6, <1>7, <2>3 DEF WorkInv, Accounted, WorkAccounted, HandOver
  <1>8. CASE ~(j \in Run /\ s = "task")
    <2>1. j \in Run => (g["task"] \in {"on", "release"} <=> goroutine[j]["task"] \in {"on", "release"})
      BY <1>0, <1>1, <1>3, <1>8 DEF Role
    <2>2. Unreleased' = Unreleased
      BY <1>2, <2>1, UnreleasedStay
    <2> QED BY <1>5, <1>6, <1>8, <2>2 DEF WorkInv, Accounted, WorkAccounted, HandOver
  <1> QED BY <1>7, <1>8

\* A goroutine takes up a request that rests: its loop, or approve().
LEMMA ReserveStep ==
  ASSUME WorkInv, phase \in [Job -> Phases], NEW j \in Job, NEW s \in {"loop", "consent"}, NEW to,
         IF s = "loop" THEN phase[j] = "new" /\ to \in {"loop", "verdict"}
                       ELSE phase[j] = "parked" /\ to = "taken",
         phase' = [phase EXCEPT ![j] = to], goroutine' = [goroutine EXCEPT ![j][s] = "on"],
         activeWork' = IF Counted(j, s) THEN activeWork + 1 ELSE activeWork, UNCHANGED admissions
  PROVE  WorkInv'
  <1> DEFINE g == [goroutine[j] EXCEPT ![s] = "on"]
  <1>0. goroutine[j] \in [Role -> Step] /\ Hand(j, phase[j], goroutine[j]) /\ s \in Role
    BY DEF WorkInv, Hands, Role
  <1>1. g \in [Role -> Step] /\ goroutine' = [goroutine EXCEPT ![j] = g]
    BY <1>0 DEF WorkInv, Step
  <1>2. g[s] = "on" /\ \A t \in Role \ {s} : g[t] = goroutine[j][t]
    BY <1>0
  <1> HIDE DEF g
  <1>3. /\ goroutine[j][s] = "none" /\ \A t \in Role : goroutine[j][t] # "on"
        /\ {"loop", "task", "exec", "poll", "consent"} \subseteq Role
    BY <1>0 DEF Hand, AtRest, Unadmitted, Role
  <1>4. Hand(j, to, g)
    <2>1. to \notin AtRest
      BY DEF AtRest, Unadmitted
    <2>2. \E t \in Role : g[t] = "on" /\ \A u \in Role \ {t} : g[u] # "on"
      BY <1>0, <1>2, <1>3
    <2>3. \A t \in Role : g[t] = "release" => t = "task" /\ j \in Run
      BY <1>0, <1>2 DEF Hand
    <2>4. CASE s = "loop"
      BY <1>0, <1>2, <1>3, <2>1, <2>2, <2>3, <2>4 DEF Hand
    <2>5. CASE s = "consent"
      BY <1>0, <1>2, <1>3, <2>1, <2>2, <2>3, <2>5 DEF Hand
    <2> QED BY <2>4, <2>5
  <1>5. goroutine' \in [Job -> [Role -> Step]] /\ Hands'
    BY <1>1, <1>4, HandsStep
  <1>6. Unreleased' = Unreleased
    <2>1. g["task"] = goroutine[j]["task"]
      BY <1>2, <1>3
    <2>2. j \in Run => (g["task"] \in {"on", "release"} <=> goroutine[j]["task"] \in {"on", "release"})
      BY <2>1
    <2> QED BY <1>1, <2>2, UnreleasedStay
  <1>7. activeWork' = Cardinality(Holders') /\ IsFiniteSet(Holders')
    <2>1. \A t \in Role \ {s} : g[t] = "none" <=> goroutine[j][t] = "none"
      BY <1>2
    <2>2. CASE Counted(j, s)
      BY <1>0, <1>1, <1>2, <1>3, <2>1, <2>2, HoldersGain
    <2>3. CASE ~Counted(j, s)
      <3>1. \A t \in Role : Counted(j, t) => (g[t] = "none" <=> goroutine[j][t] = "none")
        BY <2>1, <2>3
      <3>2. Holders' = Holders
        BY <1>1, <3>1, HoldersStay
      <3> QED BY <2>3, <3>2 DEF WorkInv, Accounted, WorkAccounted
    <2> QED BY <2>2, <2>3
  <1> QED BY <1>5, <1>6, <1>7 DEF WorkInv, Accounted, WorkAccounted

\* finishWork, and the release of an admission before it.
LEMMA ReturnStep ==
  ASSUME WorkInv, NEW j \in Job, NEW r \in Role, Return(j, r)
  PROVE  WorkInv'
  <1> DEFINE g == [goroutine[j] EXCEPT ![r] = "none"]
  <1>0. goroutine[j] \in [Role -> Step] /\ Hand(j, phase[j], goroutine[j]) /\ goroutine[j][r] = "return"
    BY DEF WorkInv, Hands, Return
  <1>1. g \in [Role -> Step] /\ goroutine' = [goroutine EXCEPT ![j] = g] /\ UNCHANGED <<phase, admissions>>
    BY <1>0 DEF WorkInv, Step, Return
  <1>2. g[r] = "none" /\ \A t \in Role \ {r} : g[t] = goroutine[j][t]
    BY <1>0
  <1> HIDE DEF g
  <1>3. Hand(j, phase[j], g)
    <2>1. \A t \in Role : goroutine[j][t] = "on" <=> g[t] = "on"
      BY <1>0, <1>2
    <2>2. \A t \in Role : goroutine[j][t] = "none" => g[t] = "none"
      BY <1>2
    <2>3. \A t \in Role : g[t] = "release" => t = "task" /\ j \in Run
      BY <1>0, <1>2 DEF Hand
    <2>4. {"loop", "task", "exec", "poll", "consent"} \subseteq Role
      BY DEF Role
    <2> QED BY <1>0, <2>1, <2>2, <2>3, <2>4 DEF Hand
  <1>4. goroutine' \in [Job -> [Role -> Step]] /\ Hands'
    <2>1. ASSUME NEW k \in Job
          PROVE  Hand(k, phase[k], goroutine'[k])
      BY <1>1, <1>3 DEF WorkInv, Hands
    <2> QED BY <1>1, <2>1 DEF WorkInv, Hands, Hand
  <1>5. Unreleased' = Unreleased
    BY <1>0, <1>1, <1>2, UnreleasedStay DEF Role
  <1>6. activeWork' = Cardinality(Holders') /\ IsFiniteSet(Holders')
    <2>1. \A t \in Role \ {r} : g[t] = "none" <=> goroutine[j][t] = "none"
      BY <1>2
    <2>2. activeWork' = IF Counted(j, r) THEN activeWork - 1 ELSE activeWork
      BY DEF Return
    <2>3. CASE Counted(j, r)
      BY <1>0, <1>1, <1>2, <2>1, <2>2, <2>3, HoldersLose
    <2>4. CASE ~Counted(j, r)
      <3>1. Holders' = Holders
        BY <1>1, <2>1, <2>4, HoldersStay
      <3> QED BY <2>2, <2>4, <3>1 DEF WorkInv, Accounted, WorkAccounted
    <2> QED BY <2>3, <2>4
  <1> QED BY <1>1, <1>4, <1>5, <1>6 DEF WorkInv, Accounted, WorkAccounted

LEMMA ReleaseStep ==
  ASSUME WorkInv, NEW j \in Job, Release(j)
  PROVE  WorkInv'
  <1> DEFINE g == [goroutine[j] EXCEPT !["task"] = "return"]
  <1>0. /\ goroutine[j] \in [Role -> Step] /\ Hand(j, phase[j], goroutine[j])
        /\ goroutine[j]["task"] = "release" /\ "task" \in Role
    BY DEF WorkInv, Hands, Release, Role
  <1>1. /\ g \in [Role -> Step] /\ goroutine' = [goroutine EXCEPT ![j] = g]
        /\ UNCHANGED <<phase, activeWork>> /\ admissions' = admissions - 1
    BY <1>0 DEF WorkInv, Step, Release
  <1>2. g["task"] = "return" /\ \A t \in Role \ {"task"} : g[t] = goroutine[j][t]
    BY <1>0
  <1> HIDE DEF g
  <1>3. j \in Run
    BY <1>0 DEF Hand
  <1>4. Hand(j, phase[j], g)
    <2>1. \A t \in Role : goroutine[j][t] = "on" <=> g[t] = "on"
      BY <1>0, <1>2
    <2>2. \A t \in Role : goroutine[j][t] = "none" => g[t] = "none"
      BY <1>0, <1>2
    <2>3. \A t \in Role : g[t] = "release" => t = "task" /\ j \in Run
      BY <1>3, <1>2, <1>0 DEF Hand
    <2>4. {"loop", "task", "exec", "poll", "consent"} \subseteq Role
      BY DEF Role
    <2> QED BY <1>0, <2>1, <2>2, <2>3, <2>4 DEF Hand
  <1>5. goroutine' \in [Job -> [Role -> Step]] /\ Hands'
    <2>1. ASSUME NEW k \in Job
          PROVE  Hand(k, phase[k], goroutine'[k])
      BY <1>1, <1>4 DEF WorkInv, Hands
    <2> QED BY <1>1, <2>1 DEF WorkInv, Hands, Hand
  <1>6. Holders' = Holders
    BY <1>0, <1>1, <1>2, HoldersStay
  <1>7. Cardinality(Unreleased') = admissions - 1 /\ IsFiniteSet(Unreleased')
    <2>1. \A k \in Run : goroutine'[k]["task"] \in {"on", "release"}
                           <=> goroutine[k]["task"] \in {"on", "release"} /\ k # j
      BY <1>1, <1>2 DEF WorkInv, Job
    <2>2. Unreleased' = Unreleased \ {j} /\ j \in Unreleased
      BY <1>0, <1>3, <2>1 DEF Unreleased
    <2> QED BY <2>2, FS_RemoveElement DEF WorkInv, Accounted, WorkAccounted
  <1> QED BY <1>1, <1>5, <1>6, <1>7 DEF WorkInv, Accounted, WorkAccounted

\* The hand of a request in a given phase.
LEMMA HandOf ==
  ASSUME WorkInv, NEW j \in Job
  PROVE  Hand(j, phase[j], goroutine[j])
  BY DEF WorkInv, Hands

\* The steps of a request's own goroutines.
LEMMA JobStepWork ==
  ASSUME WorkInv, phase \in [Job -> Phases], NEW j \in Job, JobStep(j)
  PROVE  WorkInv'
  <1>0. Hand(j, phase[j], goroutine[j]) /\ {"loop", "task", "exec", "poll", "consent"} \subseteq Role
    BY HandOf DEF Role
  <1>1. CASE GoWork(j)
    <2>1. /\ phase[j] = "loop" /\ HandOver(j, "loop", "task")
          /\ phase' = [phase EXCEPT ![j] = "verdict"]
          /\ admissions' = IF j \in Run THEN admissions + 1 ELSE admissions
      BY <1>1 DEF GoWork
    <2>2. goroutine[j]["loop"] = "on" /\ goroutine[j]["task"] = "none"
      BY <1>0, <2>1 DEF Hand
    <2> QED BY <1>0, <2>1, <2>2, HandOverStep
  <1>2. CASE Refuse(j)
    <2>1. /\ phase[j] = "verdict" /\ phase' = [phase EXCEPT ![j] = "refuse"]
          /\ UNCHANGED <<goroutine, counters>>
      BY <1>2 DEF Refuse
    <2>2. Hand(j, "refuse", goroutine[j])
      BY <1>0, <2>1 DEF Hand, AtRest, Unadmitted
    <2> QED BY <2>1, <2>2, PhaseStep
  <1>3. CASE CannotStart(j)
    <2>1. /\ phase[j] = "start" /\ phase' = [phase EXCEPT ![j] = "record"]
          /\ UNCHANGED <<goroutine, counters>>
      BY <1>3 DEF CannotStart
    <2>2. Hand(j, "record", goroutine[j])
      BY <1>0, <2>1 DEF Hand, AtRest, Unadmitted
    <2> QED BY <2>1, <2>2, PhaseStep
  <1>4. CASE End(j)
    <2>1. /\ phase[j] = "running" /\ phase' = [phase EXCEPT ![j] = "record"]
          /\ UNCHANGED <<goroutine, counters>>
      BY <1>4 DEF End
    <2>2. Hand(j, "record", goroutine[j])
      BY <1>0, <2>1 DEF Hand, AtRest, Unadmitted
    <2> QED BY <2>1, <2>2, PhaseStep
  <1>5. CASE Transfer(j)
    <2>1. /\ phase[j] = "taken" /\ HandOver(j, "consent", "exec")
          /\ phase' = [phase EXCEPT ![j] = "start"] /\ UNCHANGED admissions
      BY <1>5 DEF Transfer
    <2>2. goroutine[j]["consent"] = "on" /\ goroutine[j]["exec"] = "none"
      BY <1>0, <2>1 DEF Hand
    <2> QED BY <1>0, <2>1, <2>2, HandOverStep
  <1>6. CASE Reject(j)
    <2>1. /\ phase[j] = "reject" /\ phase' = [phase EXCEPT ![j] = "end"]
          /\ UNCHANGED <<goroutine, counters>>
      BY <1>6 DEF Reject
    <2>2. Hand(j, "end", goroutine[j])
      BY <1>0, <2>1 DEF Hand, AtRest, Unadmitted
    <2> QED BY <2>1, <2>2, PhaseStep
  <1>7. ASSUME NEW r \in Role, goroutine[j][r] = "on", Proceed(j, r)
        PROVE  WorkInv'
    <2>1. /\ phase[j] = "verdict" /\ phase' = [phase EXCEPT ![j] = "start"] /\ UNCHANGED admissions
          /\ IF j \in Tasks THEN HandOver(j, r, "exec") ELSE UNCHANGED <<activeWork, goroutine>>
      BY <1>7 DEF Proceed
    <2>2. goroutine[j]["exec"] = "none"
      BY <1>0, <2>1 DEF Hand
    <2>3. CASE j \in Tasks
      BY <1>0, <1>7, <2>1, <2>2, <2>3, HandOverStep
    <2>4. CASE j \notin Tasks
      <3>1. Hand(j, "start", goroutine[j])
        BY <1>0, <2>1 DEF Hand, AtRest, Unadmitted
      <3> QED BY <2>1, <2>4, <3>1, PhaseStep DEF counters
    <2> QED BY <2>3, <2>4
  <1>8. ASSUME NEW r \in Role, goroutine[j][r] = "on", Park(j, r)
        PROVE  WorkInv'
    <2>1. /\ phase[j] = "verdict" /\ phase' = [phase EXCEPT ![j] = "parked"]
          /\ Quits(j, r) /\ UNCHANGED counters
      BY <1>8 DEF Park
    <2> QED BY <1>8, <2>1, QuitsStep
  <1>9. ASSUME NEW r \in Role, goroutine[j][r] = "on",
               SayRefused(j, r) \/ DisabledBeforeStart(j, r) \/ Record(j, r)
        PROVE  WorkInv'
    <2>1. phase' = [phase EXCEPT ![j] = "end"] /\ Quits(j, r) /\ UNCHANGED counters
      BY <1>9 DEF SayRefused, DisabledBeforeStart, Record, Reply
    <2> QED BY <1>9, <2>1, QuitsStep
  <1>10. ASSUME NEW r \in Role, goroutine[j][r] = "on", Start(j, r)
         PROVE  WorkInv'
    <2>1. /\ phase[j] = "start" /\ phase' = [phase EXCEPT ![j] = "running"] /\ UNCHANGED admissions
          /\ IF j \in Run THEN HandOver(j, r, "poll") ELSE UNCHANGED <<activeWork, goroutine>>
      BY <1>10 DEF Start
    <2>2. goroutine[j]["poll"] = "none"
      BY <1>0, <2>1 DEF Hand
    <2>3. CASE j \in Run
      BY <1>0, <1>10, <2>1, <2>2, <2>3, HandOverStep
    <2>4. CASE j \notin Run
      <3>1. Hand(j, "running", goroutine[j])
        BY <1>0, <2>1 DEF Hand, AtRest, Unadmitted
      <3> QED BY <2>1, <2>4, <3>1, PhaseStep DEF counters
    <2> QED BY <2>3, <2>4
  <1> QED BY <1>1, <1>2, <1>3, <1>4, <1>5, <1>6, <1>7, <1>8, <1>9, <1>10, ReturnStep, ReleaseStep
          DEF JobStep

\* The request that the user was asked about goes on, or is given up.
LEMMA SettleWork ==
  ASSUME ConsentInv, WorkInv, NEW fate \in [Job -> {"reject", "end"}], Settle(fate),
         UNCHANGED <<goroutine, counters>>
  PROVE  WorkInv'
  <1>0. phase \in [Job -> Phases]
    BY DEF ConsentInv, Shape
  <1>1. CASE pending = Nobody
    <2>1. UNCHANGED <<phase, goroutine, counters>>
      BY <1>1 DEF Settle
    <2> QED BY <2>1 DEF WorkInv, Hands, Hand, Accounted, WorkAccounted, Holders, Unreleased, Counted,
                        counters
  <1>2. CASE pending # Nobody
    <2>1. /\ pending \in Job /\ phase[pending] = "parked" /\ fate[pending] \in {"reject", "end"}
          /\ phase' = [phase EXCEPT ![pending] = fate[pending]]
      BY <1>2 DEF ConsentInv, Shape, OneConsent, Settle
    <2>2. Hand(pending, fate[pending], goroutine[pending])
      BY <2>1, HandOf DEF Hand, AtRest, Unadmitted
    <2> QED BY <1>0, <2>1, <2>2, PhaseStep
  <1> QED BY <1>1, <1>2

LEMMA QuietWork ==
  ASSUME WorkInv, UNCHANGED <<phase, goroutine, counters>>
  PROVE  WorkInv'
  BY DEF WorkInv, Hands, Hand, Accounted, WorkAccounted, Holders, Unreleased, Counted, counters

\* The steps of the user, of the hub and of a restart.
LEMMA OtherStepWork ==
  ASSUME ConsentInv, WorkInv, HandoverStep \/ EndCommit \/ UserStep \/ HubStep \/ UpdateStep
  PROVE  WorkInv'
  <1>0. phase \in [Job -> Phases]
    BY DEF ConsentInv, Shape
  <1>1. CASE Enable \/ Connect \/ EndCommit \/ BeginCommit
    <2>1. UNCHANGED <<counters, jobs>>
      BY <1>1, Zenon DEF Enable, Connect, EndCommit, BeginCommit
    <2> QED BY <2>1, QuietWork DEF jobs
  <1>2. CASE HandoverStep
    <2>1. UNCHANGED <<counters, jobs>>
      BY <1>2, Zenon DEF HandoverStep, PortFree, StorageReleased, Spawned, Served, Recover, Quit
    <2> QED BY <2>1, QuietWork DEF jobs
  <1>3. ASSUME NEW j \in Job, Approve(j)
        PROVE  WorkInv'
    <2>1. /\ phase[j] = "parked" /\ phase' = [phase EXCEPT ![j] = "taken"]
          /\ goroutine' = [goroutine EXCEPT ![j]["consent"] = "on"]
          /\ activeWork' = activeWork + 1 /\ UNCHANGED admissions
      BY <1>3 DEF Approve, ConsentInv, OneConsent
    <2>2. Counted(j, "consent")
      BY DEF Counted
    <2> QED BY <1>0, <2>1, <2>2, ReserveStep
  <1>4. CASE DenyPending \/ Disable \/ AuthRevoked \/ \E who \in {"auto", "manual"} : BeginHandoff(who)
    <2>1. Settle(ToBeRejected) /\ UNCHANGED <<goroutine, counters>>
      BY <1>4 DEF DenyPending, Disable, AuthRevoked, BeginHandoff
    <2> QED BY <2>1, RejectFate, SettleWork
  <1>5. ASSUME NEW p \in {"off", "ask", "allow"}, SetPermit(p)
        PROVE  WorkInv'
    <2>1. CASE p = "off"
      <3>1. Settle(ToBeRejected) /\ UNCHANGED <<goroutine, counters>>
        BY <1>5, <2>1 DEF SetPermit
      <3> QED BY <3>1, RejectFate, SettleWork
    <2>2. CASE p # "off"
      <3>1. UNCHANGED <<phase, goroutine, counters>>
        BY <1>5, <2>2 DEF SetPermit
      <3> QED BY <3>1, QuietWork
    <2> QED BY <2>1, <2>2
  <1>6. CASE SocketClosed
    <2> DEFINE fate == [j \in Job |-> IF j \in Run THEN "reject" ELSE "end"]
    <2>1. fate \in [Job -> {"reject", "end"}]
      OBVIOUS
    <2>2. Settle(fate) /\ UNCHANGED <<goroutine, counters>>
      BY <1>6 DEF SocketClosed
    <2> QED BY <2>1, <2>2, SettleWork
  <1>7. ASSUME NEW j \in Job, Busy(j)
        PROVE  WorkInv'
    <2>1. /\ phase[j] = "new" /\ phase' = [phase EXCEPT ![j] = "end"]
          /\ UNCHANGED <<goroutine, counters>>
      BY <1>7 DEF Busy
    <2>2. Hand(j, "end", goroutine[j])
      BY <2>1, HandOf DEF Hand, AtRest, Unadmitted
    <2> QED BY <1>0, <2>1, <2>2, PhaseStep
  <1>8. ASSUME NEW j \in Job, Begin(j)
        PROVE  WorkInv'
    <2>1. PICK to \in {"loop", "verdict"} :
             /\ phase[j] = "new" /\ phase' = [phase EXCEPT ![j] = to]
             /\ goroutine' = [goroutine EXCEPT ![j]["loop"] = "on"]
             /\ activeWork' = IF Counted(j, "loop") THEN activeWork + 1 ELSE activeWork
             /\ UNCHANGED admissions
      BY <1>8 DEF Begin
    <2> QED BY <1>0, <2>1, ReserveStep
  <1> QED BY <1>1, <1>2, <1>3, <1>4, <1>5, <1>6, <1>7, <1>8 DEF UserStep, HubStep, UpdateStep

\* Every step accounts for what it reserves and returns.
LEMMA WorkStep == ConsentInv /\ WorkInv /\ [Next]_vars => WorkInv'
  <1> SUFFICES ASSUME ConsentInv, WorkInv, [Next]_vars PROVE WorkInv'
    OBVIOUS
  <1>0. phase \in [Job -> Phases]
    BY DEF ConsentInv, Shape
  <1>1. CASE UNCHANGED vars
    BY <1>1, QuietWork DEF vars, jobs
  <1>2. CASE Next
    BY <1>0, <1>2, JobStepWork, OtherStepWork DEF Next
  <1> QED BY <1>1, <1>2

-----------------------------------------------------------------------------
(* The gate: an update commits on an idle device, and nothing is admitted    *)
(* from then on until the device is given back.                              *)

Flags ==
    /\ permit \in {"off", "ask", "allow"}
    /\ enabled \in BOOLEAN /\ revoked \in BOOLEAN /\ online \in BOOLEAN /\ locked \in BOOLEAN
    /\ committing \in BOOLEAN /\ restarting \in BOOLEAN /\ alive \in BOOLEAN
    /\ update \in {"none", "staging", "handoff", "ending"}
    /\ stage \in {"none", "port", "storage", "spawn", "wait", "quitting"}
    /\ owner \in {"none", "auto", "manual"}

\* Admission is closed from the commit to the end of applyUpdate, and from the
\* start of a hand-over to its failure; a hand-over has an owner.
Gate ==
    /\ committing <=> update # "none"
    /\ owner = "none" <=> stage = "none"
    /\ stage # "none" => restarting
    /\ owner = "auto" /\ stage # "quitting" => update = "handoff"

GateInv == Flags /\ Gate /\ UpdateInterruptsNothing

LEMMA GateInit == Init => GateInv
  BY DEF Init, GateInv, Flags, Gate, UpdateInterruptsNothing, Updating, Unadmitted

\* While an update runs, admission is closed.
LEMMA UpdatingCloses == Gate /\ Updating => Closed
  BY DEF Gate, Updating, Closed

\* A job's own step moves only what was admitted, or ends it.
LEMMA JobStepMoves ==
  ASSUME NEW j \in Job, JobStep(j), phase \in [Job -> Phases], phase[j] \in Unadmitted
  PROVE  phase'[j] \in Unadmitted
  <1>1. phase[j] \notin {"loop", "verdict", "refuse", "taken", "start", "running", "record"}
    BY DEF Unadmitted
  <1>2. CASE Reject(j)
    BY <1>2 DEF Reject, Unadmitted
  <1>3. CASE Release(j) \/ \E r \in Role : Return(j, r)
    BY <1>3 DEF Release, Return
  <1>4. ~(GoWork(j) \/ Refuse(j) \/ CannotStart(j) \/ End(j) \/ Transfer(j))
    BY <1>1 DEF GoWork, Refuse, CannotStart, End, Transfer
  <1>5. ASSUME NEW r \in Role
        PROVE  ~(Proceed(j, r) \/ Park(j, r) \/ SayRefused(j, r) \/ DisabledBeforeStart(j, r)
                 \/ Start(j, r) \/ Record(j, r))
    BY <1>1 DEF Proceed, Park, SayRefused, DisabledBeforeStart, Start, Record
  <1> QED BY <1>2, <1>3, <1>4, <1>5 DEF JobStep

LEMMA JobStepKeeps ==
  ASSUME NEW j \in Job, JobStep(j), phase \in [Job -> Phases]
  PROVE  /\ UNCHANGED <<device, locked, committing, restarting, handover>>
         /\ \A k \in Job \ {j} : phase'[k] = phase[k]
  <1>1. CASE GoWork(j) \/ Refuse(j) \/ CannotStart(j) \/ End(j) \/ Transfer(j) \/ Reject(j) \/ Release(j)
    BY <1>1 DEF GoWork, Refuse, CannotStart, End, Transfer, Reject, Release
  <1>2. ASSUME NEW r \in Role, Return(j, r)
        PROVE  /\ UNCHANGED <<device, locked, committing, restarting, handover>>
               /\ \A k \in Job \ {j} : phase'[k] = phase[k]
    BY <1>2 DEF Return
  <1>3. ASSUME NEW r \in Role, Proceed(j, r) \/ Park(j, r) \/ Start(j, r)
        PROVE  /\ UNCHANGED <<device, locked, committing, restarting, handover>>
               /\ \A k \in Job \ {j} : phase'[k] = phase[k]
    BY <1>3 DEF Proceed, Park, Start
  <1>4. ASSUME NEW r \in Role, SayRefused(j, r) \/ DisabledBeforeStart(j, r) \/ Record(j, r)
        PROVE  /\ UNCHANGED <<device, locked, committing, restarting, handover>>
               /\ \A k \in Job \ {j} : phase'[k] = phase[k]
    BY <1>4 DEF SayRefused, DisabledBeforeStart, Record, Reply
  <1> QED BY <1>1, <1>2, <1>3, <1>4 DEF JobStep

\* An idle device has no request under way but those of its own pages.
LEMMA IdleIsIdle ==
  ASSUME ConsentInv, WorkInv, Idle
  PROVE  \A j \in Job \ Page : phase[j] \in Unadmitted
  <1>1. Holders = {} /\ pending = Nobody
    BY FS_EmptySet DEF Idle, WorkInv, Accounted, WorkAccounted
  <1> SUFFICES ASSUME NEW j \in Job \ Page, phase[j] \notin Unadmitted PROVE FALSE
    OBVIOUS
  <1>2. phase[j] # "parked"
    BY <1>1, KindAssumption DEF ConsentInv, OneConsent
  <1>3. PICK r \in Role : goroutine[j][r] = "on"
    BY <1>2, HandOf DEF Hand, AtRest
  <1>4. <<j, r>> \in Holders
    BY <1>3 DEF Holders, Counted
  <1> QED BY <1>1, <1>4

\* A step that moves nothing into the admitted phases keeps the promise.
LEMMA UpdateKeeps ==
  ASSUME UpdateInterruptsNothing, Updating' => Updating,
         \A j \in Job \ Page : phase[j] \in Unadmitted => phase'[j] \in Unadmitted
  PROVE  UpdateInterruptsNothing'
  BY DEF UpdateInterruptsNothing

LEMMA SettleMoves ==
  ASSUME phase \in [Job -> Phases], pending \in Job \cup {Nobody},
         NEW fate \in [Job -> {"reject", "end"}], Settle(fate)
  PROVE  \A j \in Job : phase[j] \in Unadmitted => phase'[j] \in Unadmitted
  <1>1. CASE pending = Nobody
    BY <1>1 DEF Settle
  <1>2. CASE pending # Nobody
    <2>1. fate[pending] \in Unadmitted
      BY <1>2 DEF Unadmitted
    <2> QED BY <1>2, <2>1 DEF Settle
  <1> QED BY <1>1, <1>2

LEMMA GateJob ==
  ASSUME ConsentInv, GateInv, NEW j \in Job, JobStep(j)
  PROVE  GateInv'
  <1>1. phase \in [Job -> Phases]
    BY DEF ConsentInv, Shape
  <1>2. UNCHANGED <<device, locked, committing, restarting, handover>>
    BY <1>1, JobStepKeeps
  <1>3. Flags' /\ Gate' /\ Updating' = Updating
    BY <1>2 DEF GateInv, Flags, Gate, Updating, device, handover
  <1>4. \A k \in Job \ Page : phase[k] \in Unadmitted => phase'[k] \in Unadmitted
    BY <1>1, JobStepKeeps, JobStepMoves
  <1> QED BY <1>3, <1>4, UpdateKeeps DEF GateInv

\* The stages of a hand-over, and the ends of an update.
LEMMA GateHandover ==
  ASSUME GateInv, HandoverStep \/ EndCommit
  PROVE  GateInv'
  <1>0. Flags /\ Gate /\ UpdateInterruptsNothing
    BY DEF GateInv
  <1>1. UNCHANGED <<permit, enabled, revoked, online, phase>>
    <2>1. UNCHANGED <<device, jobs>>
      BY Zenon DEF HandoverStep, EndCommit, PortFree, StorageReleased, Spawned, Served, Recover, Quit
    <2> QED BY <2>1 DEF device, jobs
  <1>2. CASE PortFree \/ StorageReleased \/ Spawned \/ Quit
    <2>1. /\ UNCHANGED <<committing, restarting, update, owner>>
          /\ stage' \in {stage, "storage", "spawn", "wait"}
          /\ stage' # stage => stage \in {"port", "storage", "spawn"}
          /\ locked' \in {TRUE, locked} /\ alive' \in {FALSE, alive}
      BY <1>2 DEF PortFree, StorageReleased, Spawned, Quit, Proceeding
    <2>2. Flags'
      <3>1. locked' \in BOOLEAN /\ alive' \in BOOLEAN
        BY <1>0, <2>1 DEF Flags
      <3>2. stage' \in {"none", "port", "storage", "spawn", "wait", "quitting"}
        BY <1>0, <2>1 DEF Flags
      <3> QED BY <1>0, <1>1, <2>1, <3>1, <3>2, Zenon DEF Flags
    <2>3. Gate'
      <3>1. (stage' = "none" <=> stage = "none") /\ (stage = "quitting" => stage' = "quitting")
        BY <2>1
      <3> QED BY <1>0, <2>1, <3>1 DEF Gate
    <2>4. Updating' = Updating
      BY <2>1 DEF Updating
    <2> QED BY <1>0, <1>1, <2>2, <2>3, <2>4, UpdateKeeps DEF GateInv
  <1>3. CASE Served
    <2>1. /\ UNCHANGED <<committing, restarting, owner, locked, alive>>
          /\ stage = "wait" /\ stage' = "quitting"
          /\ update' = IF owner = "auto" THEN "ending" ELSE update
      BY <1>3 DEF Served, Proceeding
    <2>2. Flags' /\ Updating' = Updating
      BY <1>0, <1>1, <2>1 DEF Flags, Updating
    <2>3. owner # "none" /\ (owner = "auto" => committing)
      BY <1>0, <2>1 DEF Gate
    <2>4. Gate'
      BY <1>0, <2>1, <2>3 DEF Gate
    <2> QED BY <1>0, <1>1, <2>2, <2>4, UpdateKeeps DEF GateInv
  <1>4. CASE Recover
    <2>1. /\ UNCHANGED <<committing, alive>> /\ locked' \in {FALSE, locked}
          /\ stage' = "none" /\ owner' = "none" /\ restarting' = FALSE
          /\ update' = IF owner = "auto" THEN "ending" ELSE update
      BY <1>4 DEF Recover
    <2>2. Flags'
      <3>1. locked' \in BOOLEAN /\ restarting' \in BOOLEAN
        BY <1>0, <2>1 DEF Flags
      <3>2. update' \in {"none", "staging", "handoff", "ending"} /\ owner' \in {"none", "auto", "manual"}
            /\ stage' \in {"none", "port", "storage", "spawn", "wait", "quitting"}
        BY <1>0, <2>1 DEF Flags
      <3> QED BY <1>0, <1>1, <2>1, <3>1, <3>2, Zenon DEF Flags
    <2>5. Updating' => Updating
      BY <2>1 DEF Updating
    <2>3. owner = "auto" => committing
      <3>1. stage # "quitting"
        BY <1>4 DEF Recover
      <3> QED BY <1>0, <3>1 DEF Gate
    <2>4. Gate'
      BY <1>0, <2>1, <2>3 DEF Gate
    <2> QED BY <1>0, <1>1, <2>2, <2>4, <2>5, UpdateKeeps DEF GateInv
  <1>5. CASE EndCommit
    <2>1. /\ UNCHANGED <<locked, restarting, stage, owner, alive>>
          /\ committing' = FALSE /\ update' = "none"
      BY <1>5 DEF EndCommit
    <2>2. Flags'
      <3>1. committing' \in BOOLEAN /\ update' \in {"none", "staging", "handoff", "ending"}
        BY <2>1
      <3> QED BY <1>0, <1>1, <2>1, <3>1, Zenon DEF Flags
    <2>3. update # "handoff"
      BY <1>5 DEF EndCommit
    <2>4. Gate' /\ (Updating' => Updating)
      BY <1>0, <2>1, <2>3 DEF Gate, Updating
    <2> QED BY <1>0, <1>1, <2>2, <2>4, UpdateKeeps DEF GateInv
  <1> QED BY <1>2, <1>3, <1>4, <1>5 DEF HandoverStep

\* What the user and the hub do.
LEMMA GateUser ==
  ASSUME ConsentInv, GateInv, UserStep \/ HubStep
  PROVE  GateInv'
  <1>0. /\ Flags /\ Gate /\ UpdateInterruptsNothing
        /\ phase \in [Job -> Phases] /\ pending \in Job \cup {Nobody} /\ OneConsent
    BY DEF GateInv, ConsentInv, Shape
  <1>1. UNCHANGED <<committing, restarting, update, stage, owner, alive, locked>>
    <2>1. UNCHANGED <<committing, restarting, handover, locked>>
      <3>1. CASE UserStep
        BY <3>1, Zenon DEF UserStep, Approve, DenyPending, SetPermit, Disable, Enable
      <3>2. CASE HubStep
        BY <3>2, Zenon DEF HubStep, Connect, SocketClosed, AuthRevoked, Busy, Begin
      <3> QED BY <3>1, <3>2
    <2> QED BY <2>1 DEF handover
  <1>2. Gate' /\ Updating' = Updating
    BY <1>0, <1>1 DEF Gate, Updating
  <1>3. /\ permit' \in {"off", "ask", "allow"} /\ enabled' \in BOOLEAN
        /\ revoked' \in BOOLEAN /\ online' \in BOOLEAN
    <2>1. CASE UNCHANGED device
      BY <1>0, <2>1 DEF Flags, device
    <2>2. CASE Disable \/ Enable \/ Connect \/ SocketClosed \/ AuthRevoked
      BY <1>0, <2>2 DEF Flags, Disable, Enable, Connect, SocketClosed, AuthRevoked
    <2>3. ASSUME NEW p \in {"off", "ask", "allow"}, SetPermit(p)
          PROVE  /\ permit' \in {"off", "ask", "allow"} /\ enabled' \in BOOLEAN
                 /\ revoked' \in BOOLEAN /\ online' \in BOOLEAN
      BY <1>0, <2>3 DEF Flags, SetPermit
    <2>4. ASSUME NEW j \in Job, Approve(j) \/ Busy(j) \/ Begin(j)
          PROVE  UNCHANGED device
      BY <2>4 DEF Approve, Busy, Begin
    <2>5. CASE DenyPending
      BY <1>0, <2>5 DEF Flags, DenyPending, device
    <2> QED BY <2>1, <2>2, <2>3, <2>4, <2>5 DEF UserStep, HubStep
  <1>4. Flags'
    BY <1>0, <1>1, <1>3 DEF Flags
  <1>5. Updating => \A k \in Job \ Page : phase[k] \in Unadmitted => phase'[k] \in Unadmitted
    <2> SUFFICES ASSUME Updating
                 PROVE  \A k \in Job \ Page : phase[k] \in Unadmitted => phase'[k] \in Unadmitted
      OBVIOUS
    <2>0. Closed
      BY <1>0, UpdatingCloses
    <2>1. CASE DenyPending \/ Disable \/ AuthRevoked
      <3>1. Settle(ToBeRejected)
        BY <2>1 DEF DenyPending, Disable, AuthRevoked
      <3> QED BY <1>0, <3>1, RejectFate, SettleMoves
    <2>2. CASE Enable \/ Connect
      BY <2>2 DEF Enable, Connect, jobs
    <2>3. ASSUME NEW p \in {"off", "ask", "allow"}, SetPermit(p)
          PROVE  \A k \in Job \ Page : phase[k] \in Unadmitted => phase'[k] \in Unadmitted
      <3>1. CASE p = "off"
        <4>1. Settle(ToBeRejected)
          BY <2>3, <3>1 DEF SetPermit
        <4> QED BY <1>0, <4>1, RejectFate, SettleMoves
      <3>2. CASE p # "off"
        BY <2>3, <3>2 DEF SetPermit
      <3> QED BY <3>1, <3>2
    <2>4. CASE SocketClosed
      <3> DEFINE fate == [j \in Job |-> IF j \in Run THEN "reject" ELSE "end"]
      <3>1. fate \in [Job -> {"reject", "end"}]
        OBVIOUS
      <3>2. Settle(fate)
        BY <2>4 DEF SocketClosed
      <3> QED BY <1>0, <3>1, <3>2, SettleMoves
    <2>5. ASSUME NEW j \in Job, Approve(j)
          PROVE  FALSE
      BY <2>0, <2>5 DEF Approve
    <2>6. ASSUME NEW j \in Job, Busy(j)
          PROVE  \A k \in Job \ Page : phase[k] \in Unadmitted => phase'[k] \in Unadmitted
      BY <1>0, <2>6 DEF Busy, Unadmitted
    <2>7. ASSUME NEW j \in Job, Begin(j)
          PROVE  \A k \in Job \ Page : phase[k] \in Unadmitted => phase'[k] \in Unadmitted
      <3>1. j \in Page /\ \A k \in Job \ {j} : phase'[k] = phase[k]
        BY <1>0, <2>0, <2>7 DEF Begin
      <3> QED BY <3>1
    <2> QED BY <2>1, <2>2, <2>3, <2>4, <2>5, <2>6, <2>7 DEF UserStep, HubStep
  <1> QED BY <1>0, <1>2, <1>4, <1>5 DEF GateInv, UpdateInterruptsNothing

\* An update commits on an idle device; a hand-over begins.
LEMMA GateUpdate ==
  ASSUME ConsentInv, WorkInv, GateInv, UpdateStep
  PROVE  GateInv'
  <1>0. /\ Flags /\ Gate /\ UpdateInterruptsNothing
        /\ phase \in [Job -> Phases] /\ pending \in Job \cup {Nobody}
    BY DEF GateInv, ConsentInv, Shape
  <1>1. CASE BeginCommit
    <2>1. /\ UNCHANGED <<permit, enabled, revoked, online, locked, restarting, stage, owner, alive, phase>>
          /\ committing' = TRUE /\ update' = "staging" /\ Idle
      BY <1>1 DEF BeginCommit, device, jobs
    <2>2. UpdateInterruptsNothing'
      BY <2>1, IdleIsIdle DEF UpdateInterruptsNothing
    <2>3. Flags'
      <3>1. committing' \in BOOLEAN /\ update' \in {"none", "staging", "handoff", "ending"}
        BY <2>1
      <3> QED BY <1>0, <2>1, <3>1, Zenon DEF Flags
    <2>4. update = "none" /\ ~restarting
      BY <1>1 DEF BeginCommit, Idle
    <2>5. Gate'
      BY <1>0, <2>1, <2>4 DEF Gate
    <2> QED BY <2>2, <2>3, <2>5 DEF GateInv
  <1>2. ASSUME NEW who \in {"auto", "manual"}, BeginHandoff(who)
        PROVE  GateInv'
    <2>1. /\ UNCHANGED <<permit, enabled, revoked, locked, committing, alive>>
          /\ who = "auto" => update = "staging"
          /\ update' = IF who = "auto" THEN "handoff" ELSE update
          /\ stage' = "port" /\ owner' = who /\ restarting' = TRUE /\ online' = FALSE
          /\ Settle(ToBeRejected)
      BY <1>2 DEF BeginHandoff
    <2>2. Flags' /\ Gate' /\ (Updating' => Updating)
      BY <1>0, <2>1 DEF Flags, Gate, Updating
    <2>3. \A k \in Job \ Page : phase[k] \in Unadmitted => phase'[k] \in Unadmitted
      BY <1>0, <2>1, RejectFate, SettleMoves
    <2> QED BY <1>0, <2>2, <2>3, UpdateKeeps DEF GateInv
  <1> QED BY <1>1, <1>2 DEF UpdateStep

\* The three invariants together are inductive: none is without the others.
AdmissionInv == ConsentInv /\ WorkInv /\ GateInv

LEMMA AdmissionStep == AdmissionInv /\ [Next]_vars => AdmissionInv'
  <1> SUFFICES ASSUME AdmissionInv, [Next]_vars PROVE AdmissionInv'
    OBVIOUS
  <1>1. ConsentInv' /\ WorkInv'
    BY ConsentStep, WorkStep DEF AdmissionInv
  <1>2. CASE UNCHANGED vars
    <2>1. UNCHANGED <<device, locked, committing, restarting, handover, phase>>
      BY <1>2 DEF vars, jobs
    <2>2. Flags' /\ Gate' /\ Updating' = Updating
      BY <2>1 DEF AdmissionInv, GateInv, Flags, Gate, Updating, device, handover
    <2>3. UpdateInterruptsNothing'
      BY <2>1, <2>2, UpdateKeeps DEF AdmissionInv, GateInv
    <2> QED BY <1>1, <2>2, <2>3 DEF AdmissionInv, GateInv
  <1>3. CASE Next
    <2>1. GateInv'
      BY <1>3, GateJob, GateHandover, GateUser, GateUpdate DEF AdmissionInv, Next
    <2> QED BY <1>1, <2>1 DEF AdmissionInv
  <1> QED BY <1>1, <1>2, <1>3 DEF AdmissionInv

LEMMA AdmissionHolds == Spec => []AdmissionInv
  <1>1. Init => AdmissionInv
    BY ConsentInit, WorkInit, GateInit DEF AdmissionInv
  <1> QED BY <1>1, AdmissionStep, PTL DEF Spec

\* Nothing is reserved twice, returned twice or leaked, and a request that is
\* under way is in one goroutine's hands: beginWork, goWork, finishWork,
\* admitRun and approve, by any path and for any requests.
THEOREM WorkIsSafeHolds == Spec => []WorkIsSafe
  <1>1. ASSUME AdmissionInv
        PROVE  WorkIsSafe
    <2>1. InHand
      <3> SUFFICES ASSUME NEW j \in Job
                   PROVE  Cardinality(Working(j)) = IF phase[j] \in Admitted \ {"parked"} THEN 1 ELSE 0
        BY DEF InHand
      <3>1. Hand(j, phase[j], goroutine[j]) /\ phase[j] \in Phases
        BY <1>1, HandOf DEF AdmissionInv, ConsentInv, Shape
      <3>2. CASE phase[j] \in AtRest
        <4>1. Working(j) = {} /\ phase[j] \notin Admitted \ {"parked"}
          BY <3>1, <3>2 DEF Working, Hand, AtRest, Unadmitted, Admitted
        <4> QED BY <4>1, FS_EmptySet
      <3>3. CASE phase[j] \notin AtRest
        <4>1. PICK r \in Role : goroutine[j][r] = "on" /\ \A s \in Role \ {r} : goroutine[j][s] # "on"
          BY <3>1, <3>3 DEF Hand
        <4>2. Working(j) = {r} /\ phase[j] \in Admitted \ {"parked"}
          BY <3>1, <3>3, <4>1 DEF Working, AtRest, Phases
        <4> QED BY <4>2, FS_Singleton
      <3> QED BY <3>2, <3>3
    <2>2. activeWork \in Nat /\ admissions \in Nat
      BY <1>1, FS_CardinalityType DEF AdmissionInv, WorkInv, Accounted, WorkAccounted
    <2>3. {enabled, revoked, online, locked, committing, restarting, alive} \subseteq BOOLEAN
      BY <1>1, Zenon DEF AdmissionInv, GateInv, Flags
    <2>4. TypeOK
      BY <1>1, <2>2, <2>3, Zenon
      DEF AdmissionInv, ConsentInv, Shape, WorkInv, GateInv, Flags, TypeOK, Phases, Answers
    <2> QED BY <1>1, <2>1, <2>4 DEF WorkIsSafe, AdmissionInv, WorkInv, Accounted
  <1> QED BY <1>1, AdmissionHolds, PTL

\* From the commit of an automatic update to the end of the process no request
\* that came through dispatchEnvelope is admitted or under way, whatever the
\* user, the hub and the requests did before: beginAutoUpdateCommit, beginWork,
\* beginRestartLocked and the recovery of a failed hand-over.
THEOREM UpdateInterruptsNothingHolds == Spec => []UpdateInterruptsNothing
  <1>1. AdmissionInv => UpdateInterruptsNothing
    BY DEF AdmissionInv, GateInv
  <1> QED BY <1>1, AdmissionHolds, PTL
=============================================================================

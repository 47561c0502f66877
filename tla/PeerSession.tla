---------------------------- MODULE PeerSession ----------------------------
(***************************************************************************)
(* The hub's side of a plugin peer session: PeerSessionDO                  *)
(* (fleet-worker/src/peer-session.ts), the part of DeviceDO that pushes    *)
(* its control frames to a device and takes the acknowledgements, and the  *)
(* part of FleetDO that signs the ticket (fleet-worker/src/index.ts).      *)
(*                                                                         *)
(* One session id, used once.  Every storage transaction is one action; a  *)
(* drain that awaits the signer is a Worker that holds what it read before *)
(* the await.  Which item a drain takes, and when, is open: nextAttemptAt  *)
(* and the order of the outbox are retry timing, and the alarm always      *)
(* brings the next drain.  The outbox and the mail are sets; the      *)
(* updates of a round that do not end the session are one element, which   *)
(* may stay when one of them leaves.  A round id is a fresh UUID, here its *)
(* number; a refused request, or one that finds the outbox full (OUTBOX_-  *)
(* MAX), changes nothing and is no action.                                 *)
(***************************************************************************)
EXTENDS Integers, FiniteSets

CONSTANTS
    Kind,           \* [Side -> {"tool", "device"}]
    Initiator,      \* the side that offers
    MaxRounds,      \* PEER_SESSION_MAX_ROUNDS
    MailboxMax,     \* MAILBOX_MAX
    MaxSeq,         \* bound: the signals of one role in one round
    Nonce,          \* bindings of an endpoint
    Fingerprint,    \* fingerprints
    Worker,         \* drains that may await the signer at the same time
    None

Side     == {"source", "target"}
Other(s) == CHOOSE t \in Side : t # s
Terminal == {"completed", "cancelled", "failed", "expired"}
Phase    == Terminal \cup {"waiting_approval", "signaling", "connecting", "active"}

Round    == 1 .. MaxRounds
Binding  == [Side -> Nonce \cup {None}]
Prints    == Fingerprint \cup {None}
Signals  == {"offer", "answer", "candidate"}

\* What the signer signs, the stored session, and what is delivered of it.
Statements ==
    [round : Round, offer : Prints, answer : Prints, sessionBinding : Binding,
     roundBinding : Binding, by : Worker]
Records ==
    [phase : Phase, no : Round, state : {"awaiting_offer", "offered", "answered"},
     offer : Prints, answer : Prints, lastSeq : [Side -> -1 .. MaxSeq],
     receipts : SUBSET (Side \X Signals \X (0 .. MaxSeq) \X Prints),
     approvals : [Side -> {0} \cup Round], sessionBinding : Binding, roundBinding : Binding,
     active : SUBSET Side, completed : SUBSET Side, ticket : Statements \cup {None}]
Items ==
    [no : Round, type : Signals \cup {"prepare", "round", "job", "ticket", "update"},
     to : Side, seq : 0 .. MaxSeq, print : Prints, phase : {""} \cup Terminal,
     ticket : Statements \cup {None}]

ASSUME PeerAssumption ==
    /\ Kind \in [Side -> {"tool", "device"}] /\ \E s \in Side : Kind[s] = "device"
    /\ Initiator \in Side /\ MaxRounds \in Nat \ {0} /\ MaxSeq \in Nat
    /\ MailboxMax \in Nat \ {0}
    /\ None \notin Nonce \cup Fingerprint \cup Worker \cup Statements \cup Records

VARIABLES
    session,    \* the record, or None
    outbox,     \* the deliveries and the ticket job
    mail,       \* [Side -> deliveries], the mailbox of a tool
    clock,      \* "live", then "due" (expiresAt passed), then "gc" (gcAt passed)
    worker      \* [Worker -> the record the signer was sent, or None]

vars == <<session, outbox, mail, clock, worker>>

-----------------------------------------------------------------------------
(* Deliveries.                                                             *)

Blank == [no |-> 0, type |-> "", to |-> "source", seq |-> 0, print |-> None,
          phase |-> "", ticket |-> None]

Item(s, type, to) == [Blank EXCEPT !.no = s.no, !.type = type, !.to = to]

StableDeliveryId(i) == <<i.no, i.type, i.to, i.seq, i.phase>>

Prepare(s)      == {Item(s, "prepare", side) : side \in Side}
RoundPrepare(s) == {Item(s, "round", side) : side \in Side}
TicketJob(s)    == Item(s, "job", "source")

SignalDelivery(s, side, kind, seq, print) ==
    [Item(s, kind, Other(side)) EXCEPT !.seq = seq, !.print = print]

TicketDelivery(s, t) == {[Item(s, "ticket", side) EXCEPT !.ticket = t] : side \in Side}

EnqueueUpdates(s, sides) ==
    {[Item(s, "update", side) EXCEPT !.phase = IF s.phase \in Terminal THEN s.phase ELSE ""]
       : side \in sides}

\* add: an id that is already there is left as it is.
Add(box, items) == box \cup {i \in items : \A j \in box : StableDeliveryId(i) # StableDeliveryId(j)}

IsJob(i)   == i.type = "job"
Ends(i)    == i.type = "update" /\ i.phase \in Terminal
Merged(i)  == i.type = "update" /\ ~Ends(i)     \* stands for several deliveries

-----------------------------------------------------------------------------
(* The record.                                                             *)

NewRecord == [phase |-> "waiting_approval", no |-> 1, state |-> "awaiting_offer",
              offer |-> None, answer |-> None, lastSeq |-> [s \in Side |-> -1],
              receipts |-> {}, approvals |-> [s \in Side |-> 0],
              sessionBinding |-> [s \in Side |-> None],
              roundBinding |-> [s \in Side |-> None],
              active |-> {}, completed |-> {}, ticket |-> None]

BeginRound(s) ==
    [s EXCEPT !.no = @ + 1, !.state = "awaiting_offer", !.offer = None, !.answer = None,
              !.lastSeq = NewRecord.lastSeq, !.receipts = {}, !.ticket = None,
              !.approvals = NewRecord.approvals, !.active = {}, !.completed = {},
              !.roundBinding = NewRecord.roundBinding, !.phase = "waiting_approval"]

TicketReadyAnyRound(s, round) ==
    s # None /\ clock = "live" /\ s.phase = "connecting" /\ s.state = "answered" /\ s.ticket = None

TicketReady(s, round) ==
    /\ s # None /\ clock = "live"
    /\ s.phase = "connecting" /\ s.no = round /\ s.state = "answered" /\ s.ticket = None

\* What the signer binds; by tells the tickets of two drains apart.
TicketStatement(s, w) ==
    [round |-> s.no, offer |-> s.offer, answer |-> s.answer,
     sessionBinding |-> s.sessionBinding, roundBinding |-> s.roundBinding, by |-> w]

Live == session # None /\ clock = "live"

\* mutate: what apply made of the record and of the outbox.
Mutate(s, box) ==
    /\ session' = s /\ outbox' = box
    /\ UNCHANGED <<mail, worker, clock>>

-----------------------------------------------------------------------------
Init ==
    /\ session = None /\ outbox = {} /\ clock = "live"
    /\ mail = [s \in Side |-> {}]
    /\ worker = [w \in Worker |-> None]

(* POST /create: a repetition finds the record and changes nothing.        *)
Create ==
    /\ session = None /\ clock = "live"
    /\ Mutate(NewRecord, Prepare(NewRecord))

\* One more approval; with both the session may signal.
Approved(s, side, round, sb, rb) ==
    LET ok == [s.approvals EXCEPT ![side] = round]
    IN  [s EXCEPT !.approvals = ok,
                  !.sessionBinding[side] = sb, !.roundBinding[side] = rb,
                  !.phase = IF \A t \in Side : ok[t] # 0 THEN "signaling" ELSE @]

Authorize(side, round, sb, rb) ==
    /\ Live /\ session.no = round
    /\ session.sessionBinding[side] \in {None, sb}
    /\ session.approvals[side] # round
    /\ session.phase = "waiting_approval"
    /\ LET s == Approved(session, side, round, sb, rb)
       IN  Mutate(s, Add(outbox, EnqueueUpdates(s, Side)))

(* POST /signal.  A repeated signal finds its receipt and changes nothing. *)
Admissible(side, kind) ==
    \/ kind = "offer" /\ side = Initiator /\ session.phase = "signaling"
       /\ session.state = "awaiting_offer"
    \/ kind = "answer" /\ side = Other(Initiator) /\ session.phase = "signaling"
       /\ session.state = "offered"
    \/ kind = "candidate" /\ session.state # "awaiting_offer"

Signalled(s, side, kind, seq, print) ==
    LET r == [s EXCEPT !.lastSeq[side] = seq, !.receipts = @ \cup {<<side, kind, seq, print>>}]
    IN  CASE kind = "offer"     -> [r EXCEPT !.offer = print, !.state = "offered"]
          [] kind = "answer"    -> [r EXCEPT !.answer = print, !.state = "answered",
                                             !.phase = "connecting"]
          [] kind = "candidate" -> r

Signal(side, round, kind, seq, print) ==
    /\ Live /\ session.no = round /\ session.phase \in {"signaling", "connecting"}
    /\ \A p \in Fingerprint \cup {None} : <<side, kind, seq, p>> \notin session.receipts
    /\ seq > session.lastSeq[side]
    /\ Admissible(side, kind)
    /\ LET s == Signalled(session, side, kind, seq, print)
       IN  Mutate(s, Add(outbox, {SignalDelivery(s, side, kind, seq, print)} \cup
                                 (IF kind = "answer" THEN {TicketJob(s)} ELSE {})))

-----------------------------------------------------------------------------
(* POST /event.                                                            *)

EventBehindQueue(s, box) == Mutate(s, Add(box, EnqueueUpdates(s, Side)))

\* A terminal phase drops what is queued; both sides are told in any case.
Event(s, box) ==
    Mutate(s, Add(IF s.phase \in Terminal THEN {} ELSE box, EnqueueUpdates(s, Side)))

Cancel(round) ==
    /\ Live /\ session.no = round /\ session.phase \notin Terminal
    /\ Event([session EXCEPT !.phase = "cancelled"], outbox)

Active(side, round) ==
    /\ Live /\ session.no = round /\ side \notin session.active
    /\ session.phase \in {"connecting", "active"} /\ session.ticket # None
    /\ LET on == session.active \cup {side}
       IN  Event([session EXCEPT !.active = on, !.phase = IF on = Side THEN "active" ELSE @],
                 outbox)

Complete(side, round) ==
    /\ Live /\ session.no = round /\ side \notin session.completed
    /\ session.phase \in {"connecting", "active"}
    /\ LET on   == session.active \cup {side}
           done == session.completed \cup {side}
       IN  Event([session EXCEPT !.active = on, !.completed = done,
                                 !.phase = CASE done = Side -> "completed"
                                             [] done # Side /\ on = Side -> "active"
                                             [] OTHER -> @],
                 outbox)

Interrupt(side, round) ==
    /\ Live /\ session.no = round /\ session.phase \in {"connecting", "active"}
    /\ IF session.no >= MaxRounds
       THEN Event([session EXCEPT !.phase = "failed"], {})
       ELSE LET s == BeginRound(session) IN Event(s, RoundPrepare(s))

FailAnyPhase(side) == Live /\ Event([session EXCEPT !.phase = "failed"], outbox)

\* The round is not looked at.
Fail(side) ==
    /\ Live /\ session.phase \notin Terminal
    /\ Event([session EXCEPT !.phase = "failed"], outbox)

-----------------------------------------------------------------------------
(* Time: a session expires, and is collected after its grace period.       *)

Pass ==
    /\ session # None
    /\ \/ clock = "live" /\ clock' = "due"
       \/ clock = "due" /\ session.phase = "expired" /\ clock' = "gc"
    /\ UNCHANGED <<session, outbox, mail, worker>>

Expire ==
    /\ session # None /\ clock = "due" /\ session.phase # "expired"
    /\ LET s == [session EXCEPT !.phase = "expired", !.ticket = None]
       IN  Mutate(s, EnqueueUpdates(s, {t \in Side : Kind[t] = "device"}))

Collect ==
    /\ session # None /\ clock = "gc"
    /\ session' = None /\ outbox' = {} /\ mail' = [s \in Side |-> {}]
    /\ UNCHANGED <<clock, worker>>

-----------------------------------------------------------------------------
(* drain: an item of the outbox.                                           *)

Remaining(i) == {outbox \ {i}} \cup (IF Merged(i) THEN {outbox} ELSE {})

\* mail: a tool's item goes to its mailbox in one transaction.
Mail(i) ==
    /\ ~IsJob(i) /\ Kind[i.to] = "tool"
    /\ LET there == \E m \in mail[i.to] : StableDeliveryId(m) = StableDeliveryId(i)
       IN  /\ there \/ Cardinality(mail[i.to]) < MailboxMax
           /\ mail' = [mail EXCEPT ![i.to] = IF there THEN @ ELSE @ \cup {i}]
    /\ outbox' \in Remaining(i)
    /\ UNCHANGED <<session, clock, worker>>

\* POST /inbox/poll: an acknowledged item goes, the rest is handed out again.
Poll(side, i) ==
    /\ session # None /\ mail' = [mail EXCEPT ![side] = @ \ {i}]
    /\ UNCHANGED <<session, outbox, clock, worker>>

\* push and /delivery/ack: a device's item stays until the device acknowledges a frame of it.
DeliveryAck(i) ==
    /\ session # None /\ ~IsJob(i) /\ Kind[i.to] = "device"
    /\ outbox' \in Remaining(i)
    /\ UNCHANGED <<session, clock, mail, worker>>

\* issueTicket sends the signer the record as it is now ...
AskSigner(w, i) ==
    /\ worker[w] = None /\ IsJob(i) /\ TicketReady(session, i.no)
    /\ worker' = [worker EXCEPT ![w] = session]
    /\ UNCHANGED <<session, outbox, mail, clock>>

\* ... or drops a job that is no longer wanted.
DropJob(i) ==
    /\ IsJob(i) /\ ~TicketReady(session, i.no)
    /\ outbox' = outbox \ {i}
    /\ UNCHANGED <<session, clock, mail, worker>>

IssueTicketDroppingJobs(w) ==
    /\ worker[w] # None
    /\ LET t   == TicketStatement(worker[w], w)
           box == {i \in outbox : ~IsJob(i)}
       IN  IF TicketReady(session, worker[w].no)
           THEN /\ session' = [session EXCEPT !.ticket = t]
                /\ outbox' = Add(box, TicketDelivery(session, t))
           ELSE outbox' = box /\ UNCHANGED session
    /\ worker' = [worker EXCEPT ![w] = None]
    /\ UNCHANGED <<clock, mail>>

\* The signer's answer, for the record that was sent to it.
IssueTicket(w) ==
    /\ worker[w] # None
    /\ LET t   == TicketStatement(worker[w], w)
           box == {i \in outbox : ~(IsJob(i) /\ i.no = worker[w].no)}
       IN  IF TicketReady(session, worker[w].no)
           THEN /\ session' = [session EXCEPT !.ticket = t]
                /\ outbox' = Add(box, TicketDelivery(session, t))
           ELSE outbox' = box /\ UNCHANGED session
    /\ worker' = [worker EXCEPT ![w] = None]
    /\ UNCHANGED <<clock, mail>>

\* The signer refuses or is out of reach: the job stays for a retry.
SignerFails(w) ==
    /\ worker[w] # None
    /\ worker' = [worker EXCEPT ![w] = None]
    /\ UNCHANGED <<session, outbox, mail, clock>>

-----------------------------------------------------------------------------
Drain(i) == Mail(i) \/ DeliveryAck(i) \/ DropJob(i) \/ \E w \in Worker : AskSigner(w, i)

Endpoint(side, round) ==
    \/ \E sb, rb \in Nonce : Authorize(side, round, sb, rb)
    \/ \E seq \in 0 .. MaxSeq :
         \/ \E kind \in {"offer", "answer"}, p \in Fingerprint : Signal(side, round, kind, seq, p)
         \/ Signal(side, round, "candidate", seq, None)
    \/ Active(side, round) \/ Complete(side, round) \/ Interrupt(side, round) \/ Fail(side)

Next ==
    \/ Create \/ Pass \/ Expire \/ Collect
    \/ \E round \in 1 .. MaxRounds : Cancel(round) \/ \E side \in Side : Endpoint(side, round)
    \/ \E i \in outbox : Drain(i)
    \/ \E w \in Worker : IssueTicket(w) \/ SignerFails(w)
    \/ \E side \in Side : \E i \in mail[side] : Poll(side, i)

Spec == Init /\ [][Next]_vars

\* The alarm always fires: schedule sets it in every transaction that writes.
FairSpec == Spec /\ WF_vars(Pass) /\ WF_vars(Expire) /\ WF_vars(Collect)

-----------------------------------------------------------------------------
(* Properties.                                                             *)

\* The record, the queues and the held records have the shapes the code gives them.
TypeOK ==
    /\ session \in Records \cup {None}
    /\ clock \in {"live", "due", "gc"}
    /\ outbox \subseteq Items
    /\ mail \in [Side -> SUBSET Items] /\ \A s \in Side : Kind[s] = "device" => mail[s] = {}
    /\ worker \in [Worker -> Records \cup {None}]

Sent    == outbox \cup UNION {mail[s] : s \in Side}
Tickets == {i.ticket : i \in {j \in Sent : j.type = "ticket"}}

\* issueTicket signs a record it read before an await: what is handed out as the ticket of a round
\* binds exactly the bindings, the offer and the answer of that round, those the peers were sent.
TicketBindsRound ==
    /\ \A t \in Tickets, i \in Sent : i.no = t.round =>
          /\ i.type = "offer" => t.offer = i.print
          /\ i.type = "answer" => t.answer = i.print
    /\ session # None /\ session.ticket # None =>
          session.ticket = TicketStatement(session, session.ticket.by)

\* Two drains may both ask the signer: one ticket of a round is recorded and sent, to both sides.
OneTicket == \A t, u \in Tickets : t.round = u.round => t = u

\* A session signals, connects or runs only while both sides have approved this very round.
LiveImpliesConsent ==
    session # None /\ session.phase \in {"signaling", "connecting", "active"} =>
        \A s \in Side : /\ session.approvals[s] = session.no
                        /\ None \notin {session.sessionBinding[s], session.roundBinding[s]}

\* An interruption empties the outbox: nothing queued belongs to another round, whatever a drain holds.
QueueIsOfRound == \A i \in outbox : session # None /\ i.no = session.no

\* A connecting session has its ticket or the job that gets it: no drain of an earlier round takes it away.
JobIsKept ==
    Live /\ session.phase = "connecting" /\ session.ticket = None =>
        TicketJob(session) \in outbox

\* A round's ticket is never replaced, and it goes only with its round, its session or its time.
TicketStays ==
    [][session # None /\ session.ticket # None /\ session' # None /\ session'.no = session.no
         => session'.ticket = session.ticket \/ session'.phase = "expired"]_vars

\* What everyone sees of the session is a PeerLife: an end that was reached is final, a round is
\* completed by both sides or not at all, and its number only grows.
LifePhase ==
    CASE session = None -> IF clock = "gc" THEN "gone" ELSE "none"
      [] session # None /\ session.phase \in {"waiting_approval", "signaling"} -> "open"
      [] session # None /\ session.phase \in {"connecting", "active"} -> "live"
      [] OTHER -> session.phase
LifeRecord ==
    [phase |-> LifePhase,
     no |-> IF session = None THEN 0 ELSE session.no,
     done |-> IF session = None THEN {} ELSE session.completed]
Life == INSTANCE PeerLife WITH End <- Side, Rounds <- MaxRounds, life <- LifeRecord
ImplementsLife == Life!LifeSpec

\* Once a tool's mailbox was given the end, nothing more is put into it, acknowledged or not.
NothingAfterEnd ==
    [][\A s \in Side :
         /\ session # None /\ session.phase \in Terminal
         /\ \A i \in outbox : ~(i.to = s /\ Ends(i))
         => mail'[s] \subseteq mail[s]]_vars

\* All of what the two ends rely on in a round: its ticket, its consent, its queue (transition).
RoundsAreBound == TypeOK /\ TicketBindsRound /\ OneTicket /\ LiveImpliesConsent /\ QueueIsOfRound

\* What was handed out stays as it was: the ticket of a round, and the end of a session.
EndsAreFinal == TicketStays /\ NothingAfterEnd
=============================================================================

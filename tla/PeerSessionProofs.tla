------------------------- MODULE PeerSessionProofs -------------------------
(***************************************************************************)
(* What the two ends of a peer session may rely on, for any two endpoints, *)
(* any number of rounds and of drains, and any signals: the ticket of a    *)
(* round binds that round, its job is never lost, an end is final, and the *)
(* session is a PeerLife.                                                  *)
(***************************************************************************)
EXTENDS MC_PeerRows, TLAPS, FiniteSetTheorems

Before == {"waiting_approval", "signaling"}
During == {"connecting", "active"}

\* A stored session: what its phase says of its approvals, its answer and its ticket.
Coherent(s) ==
    /\ s.phase \in Before => s.state # "answered"
    /\ s.phase \in During => s.state = "answered"
    /\ \A side \in Side :
         /\ s.approvals[side] \in {0, s.no}
         /\ s.approvals[side] # 0 =>
              None \notin {s.sessionBinding[side], s.roundBinding[side]}
    /\ s.phase \in {"signaling"} \cup During => \A side \in Side : s.approvals[side] = s.no
    /\ s.ticket # None => s.state = "answered" /\ s.ticket = TicketStatement(s, s.ticket.by)

\* A delivery of the current round says what the session says.
Agrees(s, i) ==
    i.no = s.no =>
        /\ i.type = "offer" => s.state # "awaiting_offer" /\ i.print = s.offer
        /\ i.type = "answer" => s.state = "answered" /\ i.print = s.answer
        /\ i.type = "ticket" =>
             /\ s.state = "answered"
             /\ i.ticket.offer = s.offer /\ i.ticket.answer = s.answer
             /\ s.phase = "expired" \/ i.ticket = s.ticket

\* Two deliveries of a round agree with each other, whatever became of the session.
Consistent(i, j) ==
    i.type = "ticket" =>
        /\ i.ticket \in Statements /\ i.ticket.round = i.no
        /\ i.no = j.no =>
             /\ j.type = "offer" => i.ticket.offer = j.print
             /\ j.type = "answer" => i.ticket.answer = j.print
             /\ j.type = "ticket" => i.ticket = j.ticket

\* What a drain has sent to the signer is of an earlier round, or says what the session says.
Held(s, r) ==
    /\ r.state = "answered" /\ r.no <= s.no
    /\ r.no = s.no =>
         /\ s.state = "answered" /\ r.offer = s.offer /\ r.answer = s.answer
         /\ r.sessionBinding = s.sessionBinding /\ r.roundBinding = s.roundBinding

\* The queue of a session: jobs of its round only, and nothing but its end once it has ended.
Queue(s, box) ==
    /\ \A i \in box : i.no = s.no /\ (IsJob(i) => i = TicketJob(s))
    /\ s.phase \in Terminal => \A i \in box : Ends(i)

IInv ==
    /\ TypeOK
    /\ \A i, j \in Sent : Consistent(i, j)
    /\ session = None =>
         Sent = {} /\ (clock = "live" => \A w \in Worker : worker[w] = None)
    /\ session # None =>
         /\ Coherent(session) /\ Queue(session, outbox)
         /\ \A i \in Sent : i.no <= session.no /\ Agrees(session, i)
         /\ \A w \in Worker : worker[w] # None => Held(session, worker[w])
         /\ clock = "gc" => session.phase = "expired"
    /\ JobIsKept

(***************************************************************************)
(* Records and deliveries are well-formed.                                 *)
(***************************************************************************)
LEMMA Constants ==
  /\ MaxRounds \in Nat \ {0} /\ MaxSeq \in Nat /\ Initiator \in Side
  /\ None \notin Nonce /\ None \notin Statements /\ None \notin Records
  /\ {0, 1} \subseteq Nat /\ 1 \in Round /\ 0 \in 0 .. MaxSeq
  BY PeerAssumption DEF Round

LEMMA RoundNumbers ==
  /\ Round \subseteq Int
  /\ \A s \in Records : s.no \in Round /\ s.no \in Int
  /\ \A i \in Items : i.no \in Round /\ i.no \in Int
<1>1. Round \subseteq Int
  BY Constants DEF Round
<1>2. \A s \in Records : s.no \in Round
  BY DEF Records
<1>3. \A i \in Items : i.no \in Round
  BY DEF Items
<1> QED BY <1>1, <1>2, <1>3

LEMMA OtherSide == \A s \in Side : Other(s) \in Side
  BY DEF Other, Side

LEMMA NewRecordType == NewRecord \in Records /\ Coherent(NewRecord)
  BY Constants DEF NewRecord, Records, Coherent, Phase, Prints, Binding, Before, During, Side

LEMMA BeginRoundType ==
  ASSUME NEW s \in Records, s.no < MaxRounds
  PROVE  BeginRound(s) \in Records /\ Coherent(BeginRound(s))
<1>1. s.no + 1 \in Round
  BY Constants DEF Records, Round
<1>2. BeginRound(s) \in Records
  <2>1. /\ NewRecord.lastSeq \in [Side -> -1 .. MaxSeq]
        /\ NewRecord.approvals \in [Side -> {0} \cup Round]
        /\ NewRecord.roundBinding \in Binding
    BY NewRecordType DEF Records
  <2>2. "waiting_approval" \in Phase /\ None \in Prints
    BY DEF Phase, Prints
  <2> HIDE DEF NewRecord
  <2> QED BY <1>1, <2>1, <2>2 DEF BeginRound, Records
<1>3. Coherent(BeginRound(s))
  BY <1>1, Constants DEF BeginRound, NewRecord, Records, Coherent, Before, During
<1> QED BY <1>2, <1>3

\* Deliveries that carry no signal and no ticket, of the round of s.
Plain(s, new) ==
    /\ new \subseteq Items
    /\ \A i \in new : i.no = s.no /\ i.type \in {"prepare", "round", "candidate", "update"}

LEMMA UpdatesArePlain ==
  ASSUME NEW s \in Records, NEW sides \in SUBSET Side
  PROVE  /\ Plain(s, EnqueueUpdates(s, sides))
         /\ s.phase \in Terminal => \A i \in EnqueueUpdates(s, sides) : Ends(i)
<1> DEFINE phase == IF s.phase \in Terminal THEN s.phase ELSE ""
<1>1. ASSUME NEW i \in EnqueueUpdates(s, sides)
      PROVE  i \in Items /\ i.no = s.no /\ i.type = "update" /\ i.phase = phase
  <2>1. PICK side \in sides : i = [Item(s, "update", side) EXCEPT !.phase = phase]
    BY <1>1 DEF EnqueueUpdates
  <2>2. phase \in {""} \cup Terminal /\ side \in Side
    OBVIOUS
  <2> HIDE DEF phase
  <2> QED BY <2>1, <2>2, Constants DEF Item, Blank, Items, Records, Prints
<1> QED BY <1>1 DEF Plain, Ends

LEMMA PreparesArePlain ==
  ASSUME NEW s \in Records
  PROVE  Plain(s, Prepare(s)) /\ Plain(s, RoundPrepare(s))
<1>1. ASSUME NEW side \in Side, NEW type \in {"prepare", "round"}
      PROVE  /\ Item(s, type, side) \in Items
             /\ Item(s, type, side).no = s.no /\ Item(s, type, side).type = type
  BY Constants DEF Item, Blank, Items, Records, Prints
<1> QED BY <1>1 DEF Plain, Prepare, RoundPrepare

LEMMA JobType ==
  ASSUME NEW s \in Records
  PROVE  TicketJob(s) \in Items /\ TicketJob(s).no = s.no /\ IsJob(TicketJob(s))
  BY Constants DEF TicketJob, Item, Blank, Items, Records, Prints, IsJob, Side

LEMMA SignalType ==
  ASSUME NEW s \in Records, NEW side \in Side, NEW kind \in Signals, NEW seq \in 0 .. MaxSeq,
         NEW print \in Prints
  PROVE  LET i == SignalDelivery(s, side, kind, seq, print)
         IN  i \in Items /\ i.no = s.no /\ i.type = kind /\ i.print = print
  BY Constants, OtherSide DEF SignalDelivery, Item, Blank, Items, Records, Prints, Signals

LEMMA TicketType ==
  ASSUME NEW s \in Records, NEW t \in Statements
  PROVE  /\ TicketDelivery(s, t) \subseteq Items
         /\ \A i \in TicketDelivery(s, t) : i.no = s.no /\ i.type = "ticket" /\ i.ticket = t
<1>1. ASSUME NEW i \in TicketDelivery(s, t)
      PROVE  i \in Items /\ i.no = s.no /\ i.type = "ticket" /\ i.ticket = t
  <2>1. PICK side \in Side : i = [Item(s, "ticket", side) EXCEPT !.ticket = t]
    BY <1>1 DEF TicketDelivery
  <2> QED BY <2>1, Constants DEF Item, Blank, Items, Records, Prints
<1> QED BY <1>1

LEMMA StatementType ==
  ASSUME NEW s \in Records, NEW w \in Worker
  PROVE  TicketStatement(s, w) \in Statements /\ TicketStatement(s, w).round = s.no
  BY DEF TicketStatement, Statements, Records

LEMMA AddWithin == \A box, items : Add(box, items) \subseteq box \cup items /\ box \subseteq Add(box, items)
  BY DEF Add

(***************************************************************************)
(* One step of the record: what it keeps of the round, or the next round.  *)
(***************************************************************************)
Keeps(s, t) ==
    /\ t.no = s.no
    /\ s.state # "awaiting_offer" => t.state # "awaiting_offer" /\ t.offer = s.offer
    /\ s.state = "answered" =>
         /\ t.state = "answered" /\ t.answer = s.answer
         /\ t.sessionBinding = s.sessionBinding /\ t.roundBinding = s.roundBinding
    /\ s.ticket # None => t.ticket = s.ticket \/ t.phase = "expired"
    /\ s.phase = "expired" => t.phase = "expired"

Successor(s, t) == Keeps(s, t) \/ t.no = s.no + 1

\* What is delivered in the step belongs to the record that it leaves.
Fresh(t, new) ==
    \A i \in new :
        /\ i.no = t.no /\ Agrees(t, i)
        /\ i.type = "ticket" =>
             i.ticket \in Statements /\ i.ticket.round = i.no /\ t.phase # "expired"

LEMMA AgreementStep ==
  ASSUME IInv, session \in Records, NEW t \in Records, Successor(session, t),
         NEW new \in SUBSET Items, Fresh(t, new)
  PROVE  /\ \A i \in Sent \cup new : i.no <= t.no /\ Agrees(t, i)
         /\ \A i, j \in Sent \cup new : Consistent(i, j)
<1>0. session # None /\ t.no \in Int /\ session.no \in Int /\ Sent \subseteq Items
  BY Constants DEF IInv, TypeOK, Sent, Records, Round
<1>1. ASSUME NEW i \in Sent PROVE i.no <= t.no /\ Agrees(t, i)
  <2>0. i.no \in Int
    BY <1>0, <1>1, RoundNumbers
  <2>1. i.no <= session.no /\ Agrees(session, i) /\ Consistent(i, i)
    BY <1>0, <1>1 DEF IInv
  <2>2. CASE Keeps(session, t)
    BY <1>0, <2>0, <2>1, <2>2, Constants DEF Keeps, Agrees, Consistent
  <2>3. CASE t.no = session.no + 1
    BY <1>0, <2>0, <2>1, <2>3 DEF Agrees
  <2> QED BY <2>2, <2>3 DEF Successor
<1>2. ASSUME NEW i \in new PROVE i.no <= t.no /\ Agrees(t, i)
  BY <1>0, <1>2 DEF Fresh
<1>3. ASSUME NEW i \in Sent \cup new, NEW j \in new PROVE Consistent(i, j) /\ Consistent(j, i)
  <2>1. j.no = t.no /\ Agrees(t, i) /\ Agrees(t, j)
    BY <1>1, <1>2, <1>3 DEF Fresh
  <2>2. i.type = "ticket" => i.ticket \in Statements /\ i.ticket.round = i.no
    BY <1>0, <1>3 DEF IInv, Consistent, Fresh
  <2>3. j.type = "ticket" => j.ticket \in Statements /\ j.ticket.round = j.no /\ t.phase # "expired"
    BY <1>3 DEF Fresh
  <2> QED BY <2>1, <2>2, <2>3 DEF Agrees, Consistent
<1>4. ASSUME NEW i \in Sent, NEW j \in Sent PROVE Consistent(i, j)
  BY DEF IInv
<1> QED BY <1>1, <1>2, <1>3, <1>4

\* A step in which drains only give up what they hold.
LEMMA RecordStep ==
  ASSUME IInv, session \in Records, NEW t \in Records, session' = t,
         Successor(session, t), Coherent(t),
         NEW new \in SUBSET Items, Fresh(t, new),
         outbox' \subseteq outbox \cup new, Sent' \subseteq Sent \cup new, Queue(t, outbox'),
         mail' \in [Side -> SUBSET Items], \A s \in Side : Kind[s] = "device" => mail'[s] = {},
         worker' \in [Worker -> Records \cup {None}],
         \A w \in Worker : worker'[w] \in {worker[w], None},
         clock' \in {"live", "due", "gc"}, clock' = "gc" => t.phase = "expired",
         JobIsKept'
  PROVE  IInv'
<1>0. session # None /\ t # None /\ t.no \in Int /\ session.no \in Int
  BY Constants DEF Records, Round
<1>1. /\ \A i \in Sent' : i.no <= t.no /\ Agrees(t, i)
      /\ \A i, j \in Sent' : Consistent(i, j)
  BY AgreementStep
<1>2. TypeOK'
  <2>1. outbox' \subseteq Items
    BY DEF IInv, TypeOK
  <2> QED BY <2>1 DEF TypeOK
<1>3. ASSUME NEW w \in Worker, worker'[w] # None PROVE Held(t, worker'[w])
  <2>1. worker'[w] = worker[w] /\ Held(session, worker[w]) /\ worker[w].no \in Int
    BY <1>0, <1>3 DEF IInv, TypeOK, Records, Round
  <2>2. CASE Keeps(session, t)
    BY <2>1, <2>2 DEF Keeps, Held
  <2>3. CASE t.no = session.no + 1
    BY <1>0, <2>1, <2>3 DEF Held
  <2> QED BY <2>2, <2>3 DEF Successor
<1> QED BY <1>0, <1>1, <1>2, <1>3 DEF IInv

\* The record and the outbox in one transaction, as mutate writes them.
LEMMA MutateStep ==
  ASSUME IInv, session \in Records, NEW t \in Records, NEW box, Mutate(t, box),
         Successor(session, t), Coherent(t),
         NEW new \in SUBSET Items, Fresh(t, new), box \subseteq outbox \cup new, Queue(t, box),
         clock = "gc" => t.phase = "expired",
         clock = "live" /\ t.phase = "connecting" /\ t.ticket = None => TicketJob(t) \in box
  PROVE  IInv'
<1>1. Sent' \subseteq Sent \cup new
  BY DEF Mutate, Sent
<1>2. JobIsKept'
  BY DEF Mutate, JobIsKept, Live
<1>3. TypeOK
  BY DEF IInv
<1> QED BY <1>1, <1>2, <1>3, RecordStep DEF Mutate, TypeOK

\* A step that leaves the record as it is, and moves or drops deliveries.
LEMMA MoveStep ==
  ASSUME IInv, session \in Records, UNCHANGED <<session, clock>>,
         outbox' \subseteq outbox, Sent' \subseteq Sent,
         mail' \in [Side -> SUBSET Items], \A s \in Side : Kind[s] = "device" => mail'[s] = {},
         worker' \in [Worker -> Records \cup {None}],
         \A w \in Worker : worker'[w] \in {worker[w], None},
         JobIsKept'
  PROVE  IInv'
<1>1. Successor(session, session) /\ Fresh(session, {})
  BY DEF Successor, Keeps, Fresh
<1>2. Coherent(session) /\ Queue(session, outbox') /\ (clock = "gc" => session.phase = "expired")
  BY Constants DEF IInv, Queue
<1>3. clock \in {"live", "due", "gc"}
  BY DEF IInv, TypeOK
<1> QED BY <1>1, <1>2, <1>3, RecordStep

(***************************************************************************)
(* The actions, one by one.                                                *)
(***************************************************************************)
LEMMA InitInv == Init => IInv
  BY DEF Init, IInv, TypeOK, Sent, JobIsKept, Live

LEMMA LiveRecord == IInv /\ Live => session \in Records
  BY DEF IInv, TypeOK, Live

LEMMA PlainIsFresh ==
  ASSUME NEW t, NEW new, Plain(t, new)
  PROVE  Fresh(t, new) /\ new \in SUBSET Items /\ \A i \in new : i.no = t.no /\ ~IsJob(i)
  BY DEF Plain, Fresh, Agrees, IsJob

\* The queue of a session that goes on keeps its job, whatever plain deliveries join it.
LEMMA QueueGrows ==
  ASSUME IInv, session \in Records, NEW t \in Records, t.no = session.no,
         t.phase \notin Terminal, NEW new, Plain(t, new)
  PROVE  Queue(t, Add(outbox, new))
<1>1. \A i \in new : i.no = t.no /\ ~IsJob(i)
  BY PlainIsFresh
<1>2. \A i \in outbox : i.no = t.no /\ (IsJob(i) => i = TicketJob(session))
  BY Constants DEF IInv, Queue
<1>3. TicketJob(t) = TicketJob(session)
  BY DEF TicketJob, Item
<1> QED BY <1>1, <1>2, <1>3, AddWithin DEF Queue

\* A round that goes on, with plain deliveries.
LEMMA PlainStep ==
  ASSUME IInv, Live, NEW t \in Records, NEW new, Plain(t, new), Keeps(session, t), Coherent(t),
         t.phase \notin Terminal,
         t.phase = "connecting" /\ t.ticket = None =>
             session.phase = "connecting" /\ session.ticket = None,
         Mutate(t, Add(outbox, new))
  PROVE  IInv'
<1>1. session \in Records /\ t.no = session.no
  BY LiveRecord DEF Keeps
<1>2. Fresh(t, new) /\ new \in SUBSET Items
  BY PlainIsFresh
<1>3. Queue(t, Add(outbox, new))
  BY <1>1, QueueGrows
<1>4. clock = "live" /\ t.phase = "connecting" /\ t.ticket = None
         => TicketJob(t) \in Add(outbox, new)
  <2>1. TicketJob(t) = TicketJob(session)
    BY <1>1 DEF TicketJob, Item
  <2> QED BY <2>1, AddWithin DEF IInv, JobIsKept
<1>5. clock # "gc"
  BY DEF Live
<1> QED BY <1>1, <1>2, <1>3, <1>4, <1>5, AddWithin, MutateStep DEF Successor

\* The end of a session, or its next round, replaces what is queued.
LEMMA FreshQueueStep ==
  ASSUME IInv, session \in Records, NEW t \in Records, NEW box, Plain(t, box),
         Successor(session, t), Coherent(t), t.phase # "connecting",
         t.phase \in Terminal => \A i \in box : Ends(i),
         clock = "gc" => t.phase = "expired",
         Mutate(t, box)
  PROVE  IInv'
<1>1. Fresh(t, box) /\ box \in SUBSET Items /\ \A i \in box : i.no = t.no /\ ~IsJob(i)
  BY PlainIsFresh
<1>2. Queue(t, box)
  BY <1>1 DEF Queue
<1> QED BY <1>1, <1>2, MutateStep

LEMMA CreateStep == IInv /\ Create => IInv'
<1> SUFFICES ASSUME IInv, Create PROVE IInv'
  OBVIOUS
<1> DEFINE box == Prepare(NewRecord)
<1>1. /\ NewRecord \in Records /\ NewRecord # None /\ Coherent(NewRecord)
      /\ NewRecord.phase = "waiting_approval"
  BY NewRecordType, Constants DEF NewRecord
<1>2. Plain(NewRecord, box)
  BY <1>1, PreparesArePlain
<1> HIDE DEF box
<1>3. /\ session' = NewRecord /\ outbox' = box /\ UNCHANGED <<mail, clock, worker>>
      /\ \A s \in Side : mail[s] = {}
      /\ \A w \in Worker : worker[w] = None
      /\ clock = "live"
  BY DEF Create, Mutate, IInv, Sent, box
<1>4. Sent' = box
  BY <1>3 DEF Sent
<1>5. TypeOK'
  BY <1>1, <1>2, <1>3 DEF IInv, TypeOK, Plain
<1>6. \A i, j \in Sent' : Consistent(i, j)
  BY <1>2, <1>4 DEF Plain, Consistent
<1>7. Coherent(NewRecord) /\ Queue(NewRecord, box)
  BY <1>1, <1>2, PlainIsFresh DEF Queue, Terminal
<1>8. \A i \in Sent' : i.no <= NewRecord.no /\ Agrees(NewRecord, i)
  BY <1>1, <1>2, <1>4, RoundNumbers DEF Plain, Agrees
<1>9. JobIsKept'
  BY <1>1, <1>3 DEF JobIsKept
<1>10. session' # None /\ clock' = "live" /\ \A w \in Worker : worker'[w] = None
  BY <1>1, <1>3
<1>11. /\ Coherent(session') /\ Queue(session', outbox')
       /\ \A i \in Sent' : i.no <= session'.no /\ Agrees(session', i)
  BY <1>3, <1>7, <1>8
<1> QED BY <1>5, <1>6, <1>9, <1>10, <1>11 DEF IInv

LEMMA AuthorizeStep ==
  ASSUME IInv, NEW side \in Side, NEW round \in Round, NEW sb \in Nonce, NEW rb \in Nonce,
         Authorize(side, round, sb, rb)
  PROVE  IInv'
<1> DEFINE t   == Approved(session, side, round, sb, rb)
           new == EnqueueUpdates(t, Side)
<1>1. /\ Live /\ session.no = round /\ session.phase = "waiting_approval"
      /\ Mutate(t, Add(outbox, new))
  BY DEF Authorize
<1>2. session \in Records /\ Coherent(session)
  BY <1>1, LiveRecord, Constants DEF IInv
<1>3. t \in Records
  BY <1>2, Constants DEF Approved, Records, Binding, Phase
<1>4. Keeps(session, t) /\ t.phase \in Before /\ t.state # "answered"
  BY <1>1, <1>2 DEF Approved, Records, Keeps, Coherent, Before
<1>5. Coherent(t)
  <2>1. \A s \in Side :
          /\ t.approvals[s] \in {0, t.no}
          /\ t.approvals[s] # 0 => None \notin {t.sessionBinding[s], t.roundBinding[s]}
    BY <1>1, <1>2, Constants DEF Approved, Records, Binding, Coherent
  <2>2. t.phase = "signaling" => \A s \in Side : t.approvals[s] # 0
    BY <1>1, <1>2, Constants DEF Approved, Records
  <2>3. t.ticket = None
    BY <1>1, <1>2 DEF Approved, Records, Coherent, Before
  <2> QED BY <1>4, <2>1, <2>2, <2>3 DEF Coherent, Before, During
<1>6. Plain(t, new)
  BY <1>3, UpdatesArePlain
<1> HIDE DEF t, new
<1>7. t.phase \notin Terminal /\ t.phase # "connecting"
  BY <1>4 DEF Before, Terminal
<1> QED BY <1>1, <1>3, <1>4, <1>5, <1>6, <1>7, PlainStep

LEMMA SignalledType ==
  ASSUME NEW s \in Records, NEW side \in Side, NEW seq \in 0 .. MaxSeq, NEW kind \in Signals,
         NEW print \in Prints
  PROVE  Signalled(s, side, kind, seq, print) \in Records
<1> DEFINE r == [s EXCEPT !.lastSeq[side] = seq, !.receipts = @ \cup {<<side, kind, seq, print>>}]
<1>1. r \in Records
  <2>1. [s.lastSeq EXCEPT ![side] = seq] \in [Side -> -1 .. MaxSeq]
    BY Constants DEF Records
  <2>2. s.receipts \cup {<<side, kind, seq, print>>}
          \in SUBSET (Side \X Signals \X (0 .. MaxSeq) \X Prints)
    BY DEF Records
  <2> QED BY <2>1, <2>2 DEF Records
<1> HIDE DEF r
<1>2. /\ [r EXCEPT !.offer = print, !.state = "offered"] \in Records
      /\ [r EXCEPT !.answer = print, !.state = "answered", !.phase = "connecting"] \in Records
  BY <1>1 DEF Records, Phase
<1> QED BY <1>1, <1>2 DEF Signalled, Signals, r

LEMMA SignalStep ==
  ASSUME IInv, NEW side \in Side, NEW round \in Round, NEW kind \in Signals,
         NEW seq \in 0 .. MaxSeq, NEW print \in Prints, Signal(side, round, kind, seq, print)
  PROVE  IInv'
<1> DEFINE t   == Signalled(session, side, kind, seq, print)
           i   == SignalDelivery(t, side, kind, seq, print)
           new == {i} \cup (IF kind = "answer" THEN {TicketJob(t)} ELSE {})
           r   == [session EXCEPT !.lastSeq[side] = seq,
                                  !.receipts = @ \cup {<<side, kind, seq, print>>}]
<1>1. /\ Live /\ session.phase \in {"signaling", "connecting"} /\ Admissible(side, kind)
      /\ Mutate(t, Add(outbox, new)) /\ clock = "live"
  BY DEF Signal, Live
<1>2. session \in Records /\ Coherent(session) /\ t \in Records
  BY <1>1, LiveRecord, SignalledType, Constants DEF IInv
<1>3. i \in Items /\ i.no = t.no /\ i.type = kind /\ i.print = print
  BY <1>2, SignalType
<1>4. TicketJob(t) \in Items /\ TicketJob(t).no = t.no /\ IsJob(TicketJob(t))
  BY <1>2, JobType
<1>5. /\ t.no = session.no /\ t.ticket = session.ticket /\ t.approvals = session.approvals
      /\ t.sessionBinding = session.sessionBinding /\ t.roundBinding = session.roundBinding
  BY <1>2 DEF Signalled, Records, Signals
<1>6. TicketJob(t) = TicketJob(session)
  BY <1>5 DEF TicketJob, Item
<1>7. \A j \in outbox : j.no = t.no /\ (IsJob(j) => j = TicketJob(t))
  BY <1>2, <1>5, <1>6, Constants DEF IInv, Queue
<1>8. /\ kind = "offer" => t.offer = print /\ t.state = "offered" /\ t.phase = session.phase
      /\ kind = "answer" => /\ t.answer = print /\ t.state = "answered"
                             /\ t.phase = "connecting" /\ t.offer = session.offer
      /\ kind = "candidate" => /\ t.answer = session.answer /\ t.state = session.state
                                /\ t.phase = session.phase /\ t.offer = session.offer
  BY <1>2 DEF Signalled, Records, Signals
<1> HIDE DEF t, i
<1>9. t.phase \notin Terminal /\ t.phase \in {"signaling", "connecting"}
  BY <1>1, <1>8 DEF Terminal, Signals
<1>10. Queue(t, Add(outbox, new))
  <2>1. IsJob(i) => FALSE
    BY <1>3 DEF IsJob, Signals
  <2> QED BY <1>3, <1>4, <1>7, <1>9, <2>1, AddWithin DEF Queue
<1>11. Keeps(session, t) /\ Coherent(t)
  <2>1. session.ticket # None => session.state = "answered"
    BY <1>2 DEF Coherent
  <2>2. /\ kind = "offer" => session.state = "awaiting_offer" /\ session.phase = "signaling"
        /\ kind = "answer" => session.state = "offered" /\ session.phase = "signaling"
    BY <1>1 DEF Admissible
  <2>3. Keeps(session, t)
    BY <1>1, <1>5, <1>8, <2>1, <2>2 DEF Keeps, Signals
  <2>4. Coherent(t)
    BY <1>1, <1>2, <1>5, <1>8, <2>1, <2>2 DEF Coherent, Signals, Before, During, TicketStatement
  <2> QED BY <2>3, <2>4
<1>12. Fresh(t, new) /\ new \in SUBSET Items
  <2>1. Agrees(t, i) /\ i.type # "ticket"
    BY <1>3, <1>8 DEF Agrees, Signals
  <2>2. Agrees(t, TicketJob(t)) /\ TicketJob(t).type # "ticket"
    BY <1>4 DEF Agrees, IsJob
  <2> QED BY <1>3, <1>4, <2>1, <2>2 DEF Fresh
<1>13. t.phase = "connecting" /\ t.ticket = None => TicketJob(t) \in Add(outbox, new)
  <2>1. CASE kind = "answer"
    <3>1. ASSUME NEW j \in outbox, StableDeliveryId(j) = StableDeliveryId(TicketJob(t))
          PROVE  TicketJob(t) \in outbox
      <4>1. IsJob(j)
        BY <1>4, <3>1 DEF StableDeliveryId, IsJob
      <4> QED BY <1>7, <4>1
    <3>2. TicketJob(t) \in new
      BY <2>1
    <3> QED BY <3>1, <3>2 DEF Add
  <2>2. CASE kind = "offer"
    BY <1>1, <1>8, <2>2 DEF Admissible
  <2>3. CASE kind = "candidate"
    <3>1. t.phase = session.phase /\ t.ticket = session.ticket
      BY <1>5, <1>8, <2>3
    <3> QED BY <1>1, <1>6, <3>1, AddWithin DEF IInv, JobIsKept
  <2> QED BY <2>1, <2>2, <2>3 DEF Signals
<1> HIDE DEF new
<1> QED BY <1>1, <1>2, <1>10, <1>11, <1>12, <1>13, AddWithin, MutateStep DEF Successor

\* The phases an event may find, and what they say of the session.
LEMMA OngoingPhase ==
  ASSUME IInv, Live
  PROVE  /\ session \in Records /\ Coherent(session) /\ clock = "live"
         /\ session.phase \in During => session.state = "answered"
  BY LiveRecord, Constants DEF IInv, Coherent, Live

\* A session that comes to its end, and tells both sides so.
LEMMA EndStep ==
  ASSUME IInv, session \in Records, clock # "gc", NEW phase \in {"cancelled", "failed"}, NEW box,
         session.phase \notin Terminal,
         Event([session EXCEPT !.phase = phase], box)
  PROVE  IInv'
<1> DEFINE t == [session EXCEPT !.phase = phase]
<1>1. t \in Records /\ t.phase \in Terminal /\ t.phase # "connecting" /\ t.phase \notin Before \cup During
  BY DEF Records, Phase, Terminal, Before, During
<1>2. Coherent(session) /\ session.phase # "expired"
  BY Constants DEF IInv, Terminal
<1>3. Keeps(session, t) /\ Coherent(t)
  BY <1>1, <1>2 DEF Keeps, Coherent, Records, TicketStatement, During
<1> HIDE DEF t
<1>4. Plain(t, EnqueueUpdates(t, Side)) /\ \A i \in EnqueueUpdates(t, Side) : Ends(i)
  BY <1>1, UpdatesArePlain
<1>5. Mutate(t, Add({}, EnqueueUpdates(t, Side)))
  BY <1>1 DEF Event, t
<1>6. Add({}, EnqueueUpdates(t, Side)) \subseteq EnqueueUpdates(t, Side)
  BY AddWithin
<1>7. Plain(t, Add({}, EnqueueUpdates(t, Side)))
      /\ \A i \in Add({}, EnqueueUpdates(t, Side)) : Ends(i)
  BY <1>4, <1>6 DEF Plain
<1> QED BY <1>1, <1>3, <1>5, <1>7, FreshQueueStep DEF Successor

\* A session that goes on, and tells both sides so.
LEMMA GoOnStep ==
  ASSUME IInv, Live, NEW t \in Records, Keeps(session, t), Coherent(t), t.phase \notin Terminal,
         t.phase = "connecting" => session.phase = "connecting", t.ticket = session.ticket,
         Event(t, outbox)
  PROVE  IInv'
<1>1. Plain(t, EnqueueUpdates(t, Side))
  BY UpdatesArePlain
<1>2. Mutate(t, Add(outbox, EnqueueUpdates(t, Side)))
  BY DEF Event
<1> QED BY <1>1, <1>2, PlainStep

LEMMA CancelStep ==
  ASSUME IInv, NEW round \in Round, Cancel(round) PROVE IInv'
  BY OngoingPhase, EndStep DEF Cancel

LEMMA FailStep ==
  ASSUME IInv, NEW side \in Side, Fail(side) PROVE IInv'
  BY OngoingPhase, EndStep DEF Fail

LEMMA ActiveStep ==
  ASSUME IInv, NEW side \in Side, NEW round \in Round, Active(side, round) PROVE IInv'
<1> DEFINE on == session.active \cup {side}
           t  == [session EXCEPT !.active = on, !.phase = IF on = Side THEN "active" ELSE @]
<1>1. Live /\ session.phase \in During /\ Event(t, outbox)
  BY DEF Active, During
<1>2. session \in Records /\ Coherent(session) /\ session.state = "answered"
  BY <1>1, OngoingPhase
<1>3. t \in Records /\ t.phase \in During /\ t.phase \notin Terminal
  BY <1>1, <1>2 DEF Records, Phase, During, Terminal
<1>4. Keeps(session, t)
  BY <1>1, <1>2 DEF Keeps, Records, During
<1>5. Coherent(t)
  BY <1>1, <1>2, <1>3 DEF Coherent, Records, TicketStatement, Before, During
<1>6. (t.phase = "connecting" => session.phase = "connecting") /\ t.ticket = session.ticket
  BY <1>2 DEF Records
<1> HIDE DEF t
<1> QED BY <1>1, <1>3, <1>4, <1>5, <1>6, GoOnStep

LEMMA CompleteStep ==
  ASSUME IInv, NEW side \in Side, NEW round \in Round, Complete(side, round) PROVE IInv'
<1> DEFINE on    == session.active \cup {side}
           done  == session.completed \cup {side}
           phase == CASE done = Side -> "completed"
                      [] done # Side /\ on = Side -> "active"
                      [] OTHER -> session.phase
           t     == [session EXCEPT !.active = on, !.completed = done, !.phase = phase]
<1>1. Live /\ session.phase \in During /\ Event(t, outbox)
  BY DEF Complete, During
<1>2. session \in Records /\ Coherent(session) /\ session.state = "answered" /\ clock = "live"
  BY <1>1, OngoingPhase
<1>3. phase \in During \cup {"completed"} /\ (phase = "connecting" => session.phase = "connecting")
  BY <1>1 DEF During
<1> HIDE DEF phase
<1>4. t \in Records /\ t.phase = phase /\ t.ticket = session.ticket
  BY <1>2, <1>3 DEF Records, Phase, During, Terminal
<1>5. Keeps(session, t)
  BY <1>1, <1>2 DEF Keeps, Records, During
<1>6. Coherent(t)
  BY <1>1, <1>2, <1>3 DEF Coherent, Records, TicketStatement, Before, During
<1> HIDE DEF t
<1>7. CASE phase \in During
  BY <1>1, <1>3, <1>4, <1>5, <1>6, <1>7, GoOnStep DEF During, Terminal
<1>8. CASE phase = "completed"
  <2> DEFINE box == Add({}, EnqueueUpdates(t, Side))
  <2>1. Plain(t, EnqueueUpdates(t, Side)) /\ \A i \in EnqueueUpdates(t, Side) : Ends(i)
    BY <1>4, <1>8, UpdatesArePlain DEF Terminal
  <2>2. Plain(t, box) /\ \A i \in box : Ends(i)
    BY <2>1, AddWithin DEF Plain
  <2>3. Mutate(t, box)
    BY <1>1, <1>4, <1>8 DEF Event, Terminal
  <2> HIDE DEF box
  <2> QED BY <1>2, <1>4, <1>5, <1>6, <1>8, <2>2, <2>3, FreshQueueStep DEF Successor
<1> QED BY <1>3, <1>7, <1>8

LEMMA InterruptStep ==
  ASSUME IInv, NEW side \in Side, NEW round \in Round, Interrupt(side, round) PROVE IInv'
<1>1. Live /\ session.phase \in During
  BY DEF Interrupt, During
<1>2. session \in Records /\ clock = "live" /\ session.phase \notin Terminal
  BY <1>1, OngoingPhase DEF During, Terminal
<1>3. CASE session.no >= MaxRounds
  <2>1. Event([session EXCEPT !.phase = "failed"], {})
    BY <1>3 DEF Interrupt
  <2> QED BY <1>2, <2>1, EndStep
<1>4. CASE ~(session.no >= MaxRounds)
  <2> DEFINE t   == BeginRound(session)
             box == Add(RoundPrepare(t), EnqueueUpdates(t, Side))
  <2>1. session.no < MaxRounds
    BY <1>2, <1>4, Constants, RoundNumbers
  <2>2. t \in Records /\ Coherent(t)
    BY <1>2, <2>1, BeginRoundType
  <2>3. t.no = session.no + 1 /\ t.phase = "waiting_approval"
    BY <1>2 DEF BeginRound, Records
  <2>4. Event(t, RoundPrepare(t))
    BY <1>4 DEF Interrupt
  <2> HIDE DEF t
  <2>5. Plain(t, RoundPrepare(t)) /\ Plain(t, EnqueueUpdates(t, Side))
    BY <2>2, PreparesArePlain, UpdatesArePlain
  <2>6. Plain(t, box)
    BY <2>5, AddWithin DEF Plain
  <2>7. Mutate(t, box) /\ t.phase \notin Terminal
    BY <2>3, <2>4 DEF Event, Terminal
  <2> HIDE DEF box
  <2> QED BY <1>2, <2>2, <2>3, <2>6, <2>7, FreshQueueStep DEF Successor
<1> QED BY <1>3, <1>4

LEMMA PassStep == IInv /\ Pass => IInv'
<1> SUFFICES ASSUME IInv, Pass PROVE IInv'
  OBVIOUS
<1>1. session \in Records /\ session # None /\ UNCHANGED <<session, outbox, mail, worker>>
  BY DEF Pass, IInv, TypeOK
<1>2. clock' \in {"due", "gc"} /\ (clock' = "gc" => session.phase = "expired")
  BY DEF Pass
<1>3. Successor(session, session) /\ Fresh(session, {}) /\ Coherent(session) /\ Queue(session, outbox)
  BY <1>1 DEF IInv, Successor, Keeps, Fresh
<1>4. JobIsKept' /\ Sent' = Sent
  BY <1>1, <1>2 DEF JobIsKept, Live, Sent
<1>5. TypeOK
  BY DEF IInv
<1> QED BY <1>1, <1>2, <1>3, <1>4, <1>5, RecordStep DEF TypeOK

LEMMA ExpireStep == IInv /\ Expire => IInv'
<1> SUFFICES ASSUME IInv, Expire PROVE IInv'
  OBVIOUS
<1> DEFINE t   == [session EXCEPT !.phase = "expired", !.ticket = None]
           box == EnqueueUpdates(t, {s \in Side : Kind[s] = "device"})
<1>1. session # None /\ session \in Records /\ Coherent(session) /\ Mutate(t, box)
  BY DEF Expire, IInv, TypeOK
<1>2. t \in Records /\ t.phase = "expired"
  BY <1>1 DEF Records, Phase, Terminal
<1>3. Keeps(session, t)
  BY <1>1 DEF Keeps, Records
<1>4. Coherent(t)
  BY <1>1 DEF Coherent, Records, Before, During
<1> HIDE DEF t
<1>5. Plain(t, box) /\ \A i \in box : Ends(i)
  BY <1>2, UpdatesArePlain DEF Terminal
<1> HIDE DEF box
<1> QED BY <1>1, <1>2, <1>3, <1>4, <1>5, FreshQueueStep DEF Successor

LEMMA CollectStep == IInv /\ Collect => IInv'
<1> SUFFICES ASSUME IInv, Collect PROVE IInv'
  OBVIOUS
<1>1. session' = None /\ Sent' = {} /\ clock' = "gc" /\ TypeOK'
  BY DEF Collect, IInv, TypeOK, Sent
<1>2. JobIsKept'
  BY <1>1 DEF JobIsKept, Live
<1> QED BY <1>1, <1>2 DEF IInv

\* Without a session there is nothing to deliver.
LEMMA SessionOfItem ==
  ASSUME IInv, NEW i \in outbox
  PROVE  /\ session # None /\ session \in Records /\ i.no = session.no
         /\ IsJob(i) => i = TicketJob(session)
  BY DEF IInv, TypeOK, Sent, Queue

\* The job is kept when what leaves the outbox is not a job.
LEMMA JobStays ==
  ASSUME IInv, NEW i \in outbox, ~IsJob(i), outbox' \in Remaining(i), UNCHANGED <<session, clock>>
  PROVE  outbox' \subseteq outbox /\ JobIsKept'
<1>1. IsJob(TicketJob(session))
  BY SessionOfItem, JobType
<1>2. outbox' \subseteq outbox /\ outbox \ {i} \subseteq outbox'
  BY DEF Remaining
<1> QED BY <1>1, <1>2 DEF IInv, JobIsKept, Live

LEMMA MailStep ==
  ASSUME IInv, NEW i \in outbox, Mail(i) PROVE IInv'
<1>1. /\ session \in Records /\ ~IsJob(i) /\ Kind[i.to] = "tool" /\ outbox' \in Remaining(i)
      /\ UNCHANGED <<session, clock, worker>>
  BY SessionOfItem DEF Mail
<1>2. outbox' \subseteq outbox /\ JobIsKept'
  BY <1>1, JobStays
<1>3. i \in Items /\ i.to \in Side
  BY DEF IInv, TypeOK, Items
<1>4. mail \in [Side -> SUBSET Items] /\ TypeOK
  BY DEF IInv, TypeOK
<1>5. \A s \in Side : mail'[s] = mail[s] \/ (s = i.to /\ mail'[s] = mail[s] \cup {i})
  BY <1>3, <1>4 DEF Mail
<1>6. mail' \in [Side -> SUBSET Items] /\ \A s \in Side : Kind[s] = "device" => mail'[s] = {}
  <2>1. mail' \in [Side -> SUBSET Items]
    BY <1>3, <1>4 DEF Mail
  <2> QED BY <1>1, <1>4, <1>5, <2>1 DEF TypeOK
<1>7. Sent' \subseteq Sent
  BY <1>2, <1>5 DEF Sent
<1> QED BY <1>1, <1>2, <1>4, <1>6, <1>7, MoveStep DEF TypeOK

LEMMA PollStep ==
  ASSUME IInv, NEW side \in Side, NEW i \in mail[side], Poll(side, i) PROVE IInv'
<1>1. TypeOK /\ session \in Records /\ UNCHANGED <<session, outbox, clock, worker>>
  BY DEF Poll, IInv, TypeOK
<1>2. mail' \in [Side -> SUBSET Items] /\ \A s \in Side : mail'[s] \subseteq mail[s]
  BY <1>1 DEF Poll, TypeOK
<1>3. Sent' \subseteq Sent /\ JobIsKept'
  BY <1>1, <1>2 DEF Sent, IInv, JobIsKept, Live
<1>4. \A s \in Side : Kind[s] = "device" => mail'[s] = {}
  BY <1>1, <1>2 DEF TypeOK
<1> QED BY <1>1, <1>2, <1>3, <1>4, MoveStep DEF TypeOK

\* Steps that leave the mailboxes alone.
LEMMA QuietMove ==
  ASSUME IInv, session \in Records, UNCHANGED <<session, clock, mail>>, outbox' \subseteq outbox,
         worker' \in [Worker -> Records \cup {None}],
         \A w \in Worker : worker'[w] \in {worker[w], None}, JobIsKept'
  PROVE  IInv'
<1>1. Sent' \subseteq Sent /\ TypeOK
  BY DEF Sent, IInv
<1> QED BY <1>1, MoveStep DEF TypeOK

LEMMA DeliveryAckStep ==
  ASSUME IInv, NEW i \in outbox, DeliveryAck(i) PROVE IInv'
<1>1. TypeOK /\ session \in Records
  BY SessionOfItem DEF IInv
<1>2. outbox' \subseteq outbox /\ JobIsKept'
  BY JobStays DEF DeliveryAck
<1> QED BY <1>1, <1>2, QuietMove DEF DeliveryAck, TypeOK

LEMMA DropJobStep ==
  ASSUME IInv, NEW i \in outbox, DropJob(i) PROVE IInv'
<1>1. TypeOK /\ session \in Records /\ i.no = session.no /\ session # None
  BY SessionOfItem DEF IInv
<1>2. Live => ~(session.phase = "connecting" /\ session.ticket = None)
  <2>1. session.phase = "connecting" => session.state = "answered"
    BY <1>1 DEF IInv, Coherent, During
  <2> QED BY <1>1, <2>1 DEF DropJob, TicketReady, Live
<1>3. JobIsKept' /\ outbox' \subseteq outbox
  BY <1>2 DEF DropJob, JobIsKept, Live
<1> QED BY <1>1, <1>3, QuietMove DEF DropJob, TypeOK

LEMMA AskSignerStep ==
  ASSUME IInv, NEW w \in Worker, NEW i \in outbox, AskSigner(w, i) PROVE IInv'
<1>1. /\ TypeOK /\ session \in Records /\ session # None /\ clock = "live"
      /\ session.state = "answered"
      /\ worker' = [worker EXCEPT ![w] = session] /\ UNCHANGED <<session, outbox, mail, clock>>
  BY SessionOfItem DEF IInv, AskSigner, TicketReady
<1>2. TypeOK' /\ Sent' = Sent /\ JobIsKept'
  BY <1>1 DEF TypeOK, Sent, IInv, JobIsKept, Live
<1>3. Held(session, session)
  BY <1>1, RoundNumbers DEF Held
<1>4. \A v \in Worker : worker'[v] # None => Held(session, worker'[v])
  BY <1>1, <1>3 DEF IInv, TypeOK
<1> QED BY <1>1, <1>2, <1>4 DEF IInv

LEMMA SignerFailsStep ==
  ASSUME IInv, NEW w \in Worker, SignerFails(w) PROVE IInv'
<1>1. TypeOK' /\ \A v \in Worker : worker'[v] \in {worker[v], None}
  BY DEF SignerFails, IInv, TypeOK
<1>2. Sent' = Sent /\ JobIsKept'
  BY DEF SignerFails, Sent, IInv, JobIsKept, Live
<1>3. UNCHANGED <<session, outbox, mail, clock>>
  BY DEF SignerFails
<1> QED BY <1>1, <1>2, <1>3 DEF IInv

\* The signer's answer, when it is still wanted.
LEMMA TicketStep ==
  ASSUME IInv, NEW w \in Worker, IssueTicket(w), TicketReady(session, worker[w].no)
  PROVE  IInv'
<1> DEFINE r   == worker[w]
           t   == TicketStatement(r, w)
           s   == [session EXCEPT !.ticket = t]
           box == {i \in outbox : ~(IsJob(i) /\ i.no = r.no)}
           new == TicketDelivery(session, t)
<1>1. /\ session # None /\ session \in Records /\ Coherent(session) /\ TypeOK
      /\ r # None /\ r \in Records /\ Held(session, r) /\ Queue(session, outbox)
      /\ \A i \in Sent : i.no <= session.no
  BY DEF IInv, TypeOK, IssueTicket, TicketReady
<1>2. /\ session.no = r.no /\ session.state = "answered" /\ session.ticket = None
      /\ session.phase = "connecting" /\ clock = "live"
  BY DEF TicketReady
<1>3. t = TicketStatement(session, w) /\ t \in Statements /\ t.round = session.no /\ t # None
  BY <1>1, <1>2, StatementType, Constants DEF Held, TicketStatement
<1>4. t.offer = session.offer /\ t.answer = session.answer /\ t.by = w
  BY <1>3 DEF TicketStatement
<1>5. /\ session' = s /\ outbox' = Add(box, new) /\ worker' = [worker EXCEPT ![w] = None]
      /\ UNCHANGED <<clock, mail>>
  BY DEF IssueTicket
<1>6. new \in SUBSET Items
      /\ \A i \in new : i.no = session.no /\ i.type = "ticket" /\ i.ticket = t
  BY <1>1, <1>3, TicketType
<1> HIDE DEF new, t, r
<1>7. /\ s \in Records /\ s.no = session.no /\ s.ticket = t /\ s.phase = "connecting"
      /\ s.state = "answered" /\ s.offer = session.offer /\ s.answer = session.answer
      /\ s.approvals = session.approvals
      /\ s.sessionBinding = session.sessionBinding /\ s.roundBinding = session.roundBinding
  BY <1>1, <1>2, <1>3 DEF Records
<1> HIDE DEF s
<1>8. Keeps(session, s) /\ Coherent(s)
  <2>1. Keeps(session, s)
    BY <1>2, <1>7 DEF Keeps
  <2>2. TicketStatement(s, w) = TicketStatement(session, w)
    BY <1>7 DEF TicketStatement
  <2> QED BY <1>1, <1>2, <1>3, <1>4, <1>7, <2>1, <2>2 DEF Coherent, Before, During
<1>9. Fresh(s, new)
  BY <1>3, <1>4, <1>6, <1>7 DEF Fresh, Agrees
<1>10. outbox' \subseteq outbox \cup new /\ Sent' \subseteq Sent \cup new
  BY <1>5, AddWithin DEF Sent
<1>11. Queue(s, outbox')
  <2>1. \A i \in new : i.no = s.no /\ ~IsJob(i)
    BY <1>6, <1>7 DEF IsJob
  <2>2. \A i \in box : i.no = s.no /\ ~IsJob(i)
    BY <1>1, <1>2, <1>7 DEF Queue
  <2> QED BY <1>5, <1>7, <2>1, <2>2, AddWithin DEF Queue, Terminal
<1>12. JobIsKept'
  BY <1>3, <1>5, <1>7 DEF JobIsKept
<1>13. worker' \in [Worker -> Records \cup {None}]
       /\ \A v \in Worker : worker'[v] \in {worker[v], None}
  BY <1>1, <1>5 DEF TypeOK
<1> QED BY <1>1, <1>2, <1>5, <1>6, <1>7, <1>8, <1>9, <1>10, <1>11, <1>12, <1>13, RecordStep
        DEF TypeOK, Successor

\* The signer's answer, for a round that is over or has its ticket.
LEMMA LateTicketStep ==
  ASSUME IInv, NEW w \in Worker, IssueTicket(w), ~TicketReady(session, worker[w].no)
  PROVE  IInv'
<1> DEFINE box == {i \in outbox : ~(IsJob(i) /\ i.no = worker[w].no)}
<1>1. /\ TypeOK /\ outbox' = box /\ worker' = [worker EXCEPT ![w] = None]
      /\ UNCHANGED <<session, clock, mail>>
  BY DEF IInv, IssueTicket
<1>2. worker' \in [Worker -> Records \cup {None}]
      /\ \A v \in Worker : worker'[v] \in {worker[v], None}
  BY <1>1 DEF TypeOK
<1>3. CASE session = None
  <2>1. Sent' = {} /\ TypeOK'
    BY <1>1, <1>2, <1>3 DEF IInv, Sent, TypeOK
  <2>2. JobIsKept'
    BY <1>1, <1>3 DEF JobIsKept, Live
  <2> QED BY <1>1, <1>2, <1>3, <2>1, <2>2 DEF IInv
<1>4. CASE session # None
  <2>1. session \in Records /\ Coherent(session)
    BY <1>1, <1>4 DEF IInv, TypeOK
  <2>2. JobIsKept'
    <3>1. SUFFICES ASSUME Live, session.phase = "connecting", session.ticket = None
                   PROVE  TicketJob(session) \in box
      BY <1>1 DEF JobIsKept, Live
    <3>2. TicketJob(session) \in outbox /\ session.state = "answered"
      BY <2>1, <3>1 DEF IInv, JobIsKept, Coherent, During
    <3>3. worker[w].no # session.no
      BY <1>4, <3>1, <3>2 DEF TicketReady, Live
    <3> QED BY <2>1, <3>2, <3>3, JobType
  <2> QED BY <1>1, <1>2, <2>1, <2>2, QuietMove
<1> QED BY <1>3, <1>4

(***************************************************************************)
(* The invariant, and what follows from it.                                *)
(***************************************************************************)
LEMMA EndpointStep ==
  ASSUME IInv, NEW side \in Side, NEW round \in Round, Endpoint(side, round) PROVE IInv'
<1>1. ASSUME NEW sb \in Nonce, NEW rb \in Nonce, Authorize(side, round, sb, rb) PROVE IInv'
  BY <1>1, AuthorizeStep
<1>2. ASSUME NEW seq \in 0 .. MaxSeq, NEW kind \in {"offer", "answer"}, NEW p \in Fingerprint,
             Signal(side, round, kind, seq, p)
      PROVE  IInv'
  BY <1>2, SignalStep DEF Signals, Prints
<1>3. ASSUME NEW seq \in 0 .. MaxSeq, Signal(side, round, "candidate", seq, None) PROVE IInv'
  BY <1>3, SignalStep DEF Signals, Prints
<1> QED BY <1>1, <1>2, <1>3, ActiveStep, CompleteStep, InterruptStep, FailStep DEF Endpoint

LEMMA InvStep == IInv /\ [Next]_vars => IInv'
<1> SUFFICES ASSUME IInv, [Next]_vars PROVE IInv'
  OBVIOUS
<1>1. ASSUME NEW round \in 1 .. MaxRounds, NEW side \in Side, Endpoint(side, round) PROVE IInv'
  BY <1>1, EndpointStep DEF Round
<1>2. ASSUME NEW round \in 1 .. MaxRounds, Cancel(round) PROVE IInv'
  BY <1>2, CancelStep DEF Round
<1>3. ASSUME NEW i \in outbox, Drain(i) PROVE IInv'
  BY <1>3, MailStep, DeliveryAckStep, DropJobStep, AskSignerStep DEF Drain
<1>4. ASSUME NEW w \in Worker, IssueTicket(w) \/ SignerFails(w) PROVE IInv'
  BY <1>4, TicketStep, LateTicketStep, SignerFailsStep
<1>5. ASSUME NEW side \in Side, NEW i \in mail[side], Poll(side, i) PROVE IInv'
  BY <1>5, PollStep
<1>6. CASE UNCHANGED vars
  <2>1. UNCHANGED <<session, outbox, mail, clock, worker>>
    BY <1>6 DEF vars
  <2> QED BY <2>1 DEF IInv, TypeOK, Sent, JobIsKept, Live
<1> QED BY <1>1, <1>2, <1>3, <1>4, <1>5, <1>6, CreateStep, PassStep, ExpireStep, CollectStep DEF Next

\* The inductive invariant holds: what is stored, queued, delivered and held by a drain agrees
\* (PeerSessionDO, from create to the alarm that collects the session).
THEOREM InvHolds == Spec => []IInv
<1>1. Init => IInv
  BY InitInv
<1>2. IInv /\ [Next]_vars => IInv'
  BY InvStep
<1> QED BY <1>1, <1>2, PTL DEF Spec

LEMMA InvImpliesBound == IInv => RoundsAreBound
<1> SUFFICES ASSUME IInv PROVE RoundsAreBound
  OBVIOUS
<1>1. ASSUME NEW t \in Tickets PROVE \E i \in Sent : i.type = "ticket" /\ i.ticket = t /\ t.round = i.no
  BY DEF IInv, Tickets, Consistent
<1>2. TicketBindsRound
  <2>1. ASSUME NEW t \in Tickets, NEW i \in Sent, i.no = t.round
        PROVE  /\ i.type = "offer" => t.offer = i.print
               /\ i.type = "answer" => t.answer = i.print
    BY <1>1, <2>1 DEF IInv, Consistent
  <2>2. session # None /\ session.ticket # None =>
          session.ticket = TicketStatement(session, session.ticket.by)
    BY DEF IInv, Coherent
  <2> QED BY <2>1, <2>2 DEF TicketBindsRound
<1>3. OneTicket
  BY <1>1 DEF IInv, Consistent, OneTicket
<1>4. LiveImpliesConsent
  <2> SUFFICES ASSUME session # None, session.phase \in {"signaling", "connecting", "active"},
                      NEW s \in Side
               PROVE  /\ session.approvals[s] = session.no
                      /\ None \notin {session.sessionBinding[s], session.roundBinding[s]}
    BY DEF LiveImpliesConsent
  <2>1. session.no # 0
    BY Constants DEF IInv, TypeOK, Records, Round
  <2> QED BY <2>1 DEF IInv, Coherent, During
<1>5. QueueIsOfRound
  BY SessionOfItem DEF QueueIsOfRound
<1> QED BY <1>2, <1>3, <1>4, <1>5 DEF RoundsAreBound, IInv

\* The ticket of a round binds the bindings and the signals of that round, one ticket is handed out
\* of it, both sides have approved a round that runs, and the queue holds nothing of another one.
THEOREM RoundsAreBoundHolds == Spec => []RoundsAreBound
  BY InvHolds, InvImpliesBound, PTL

\* A connecting session has its ticket, or the job that will get it (issueTicket).
THEOREM JobIsKeptHolds == Spec => []JobIsKept
<1>1. IInv => JobIsKept
  BY DEF IInv
<1> QED BY <1>1, InvHolds, PTL

(***************************************************************************)
(* What was handed out stays: tickets and ends.                            *)
(***************************************************************************)

\* How a step may change the stored session.
Ticketless(t) == session # None /\ session.ticket # None /\ t # None /\ t.no = session.no =>
                     t.ticket = session.ticket \/ t.phase = "expired"

LEMMA TicketStaysStep == IInv /\ [Next]_vars => Ticketless(session')
<1> SUFFICES ASSUME IInv, [Next]_vars, session # None PROVE Ticketless(session')
  BY DEF Ticketless
<1>0. session \in Records
  BY DEF IInv, TypeOK
<1>1. ASSUME NEW side \in Side, NEW round \in Round, NEW sb \in Nonce, NEW rb \in Nonce,
             Authorize(side, round, sb, rb)
      PROVE  Ticketless(session')
  BY <1>0, <1>1 DEF Authorize, Mutate, Approved, Records, Ticketless
<1>2. ASSUME NEW side \in Side, NEW round \in Round, NEW kind \in Signals,
             NEW seq \in 0 .. MaxSeq, NEW p \in Prints, Signal(side, round, kind, seq, p)
      PROVE  Ticketless(session')
  BY <1>0, <1>2 DEF Signal, Mutate, Signalled, Signals, Records, Ticketless
<1>3. ASSUME NEW side \in Side, NEW round \in Round, Active(side, round) \/ Complete(side, round)
      PROVE  Ticketless(session')
  BY <1>0, <1>3 DEF Active, Complete, Event, Mutate, Records, Ticketless
<1>4. ASSUME NEW side \in Side, NEW round \in Round,
             Cancel(round) \/ Fail(side) \/ Interrupt(side, round)
      PROVE  Ticketless(session')
  <2>1. BeginRound(session).no = session.no + 1 /\ session.no \in Int
    BY <1>0, RoundNumbers DEF BeginRound, Records
  <2> QED BY <1>0, <1>4, <2>1 DEF Cancel, Fail, Interrupt, Event, Mutate, Records, Ticketless
<1>5. ASSUME NEW w \in Worker, IssueTicket(w) PROVE Ticketless(session')
  BY <1>0, <1>5 DEF IssueTicket, TicketReady, Records, Ticketless
<1>6. CASE Expire
  BY <1>0, <1>6 DEF Expire, Mutate, Records, Ticketless
<1>7. CASE session' = session \/ session' = None
  BY <1>7 DEF Ticketless
<1>8. ASSUME NEW i, Drain(i) PROVE session' = session
  BY <1>8 DEF Drain, Mail, DeliveryAck, DropJob, AskSigner
<1>9. ASSUME NEW side \in Side, NEW round \in Round, Endpoint(side, round)
      PROVE  Ticketless(session')
  BY <1>1, <1>2, <1>3, <1>4, <1>9 DEF Endpoint, Signals, Prints
<1>10. ASSUME NEW round \in Round, Cancel(round) PROVE Ticketless(session')
  <2>1. "source" \in Side
    BY DEF Side
  <2> QED BY <1>4, <1>10, <2>1
<1> QED BY <1>5, <1>6, <1>7, <1>8, <1>9, <1>10
        DEF Next, Create, Pass, Collect, SignerFails, Poll, vars, Round

\* A mailbox grows only by an item of the outbox, and after the end that is the end.
LEMMA NothingAfterEndStep ==
  ASSUME IInv, [Next]_vars, NEW s \in Side,
         session # None, session.phase \in Terminal,
         \A i \in outbox : ~(i.to = s /\ Ends(i))
  PROVE  mail'[s] \subseteq mail[s]
<1>1. \A i \in outbox : i.to # s
  BY DEF IInv, Queue
<1>2. mail \in [Side -> SUBSET Items]
  BY DEF IInv, TypeOK
<1>3. ASSUME NEW i \in outbox, Mail(i) PROVE mail'[s] \subseteq mail[s]
  BY <1>1, <1>2, <1>3 DEF Mail
<1>4. ASSUME NEW side \in Side, NEW i \in mail[side], Poll(side, i) PROVE mail'[s] \subseteq mail[s]
  BY <1>2, <1>4 DEF Poll
<1>5. CASE Collect
  BY <1>5 DEF Collect
<1>6. CASE UNCHANGED mail
  BY <1>6
<1>7. ASSUME NEW side, NEW round, Endpoint(side, round) \/ Cancel(round) PROVE UNCHANGED mail
  BY <1>7 DEF Endpoint, Cancel, Authorize, Signal, Active, Complete, Interrupt, Fail, Event, Mutate
<1>8. ASSUME NEW i \in outbox, Drain(i) PROVE mail'[s] \subseteq mail[s]
  BY <1>3, <1>8 DEF Drain, DeliveryAck, DropJob, AskSigner
<1> QED BY <1>3, <1>4, <1>5, <1>6, <1>7, <1>8
        DEF Next, Create, Mutate, Pass, Expire, IssueTicket, SignerFails, vars

\* The ticket of a round is never replaced, and nothing follows the end of a session into a mailbox.
THEOREM EndsAreFinalHolds == Spec => EndsAreFinal
<1>1. IInv /\ [Next]_vars =>
        [session # None /\ session.ticket # None /\ session' # None /\ session'.no = session.no
           => session'.ticket = session.ticket \/ session'.phase = "expired"]_vars
  BY TicketStaysStep DEF Ticketless
<1>2. IInv /\ [Next]_vars =>
        [\A s \in Side :
           /\ session # None /\ session.phase \in Terminal
           /\ \A i \in outbox : ~(i.to = s /\ Ends(i))
           => mail'[s] \subseteq mail[s]]_vars
  BY NothingAfterEndStep
<1> QED BY <1>1, <1>2, InvHolds, PTL DEF Spec, EndsAreFinal, TicketStays, NothingAfterEnd

(***************************************************************************)
(* The promise of PeerLife.                                                *)
(***************************************************************************)
Seen(phase) == CASE phase \in Before -> "open" [] phase \in During -> "live" [] OTHER -> phase

LifeOf(s) == [phase |-> Seen(s.phase), no |-> s.no, done |-> s.completed]

LEMMA LifeOfSession ==
  /\ session # None => LifeRecord = LifeOf(session)
  /\ session' # None => LifeRecord' = LifeOf(session')
  BY DEF LifeRecord, LifePhase, LifeOf, Seen, Before, During

\* A step that shows nothing of itself.
LEMMA HiddenStep ==
  ASSUME session # None, session' # None, Seen(session'.phase) = Seen(session.phase),
         session'.no = session.no, session'.completed = session.completed
  PROVE  UNCHANGED LifeRecord
  BY LifeOfSession DEF LifeOf

\* A step that shows a new phase, and nothing else.
LEMMA PhaseStep ==
  ASSUME session # None, session' # None,
         session'.no = session.no, session'.completed = session.completed
  PROVE  Life!To(Seen(session'.phase))
  BY LifeOfSession DEF LifeOf, Life!To

LEMMA LifeCreate == IInv /\ Create => Life!Begin
<1> SUFFICES ASSUME Create PROVE Life!Begin
  OBVIOUS
<1>1. session = None /\ clock = "live" /\ session' = NewRecord /\ NewRecord # None
  BY NewRecordType, Constants DEF Create, Mutate
<1>2. NewRecord.phase = "waiting_approval" /\ NewRecord.no = 1 /\ NewRecord.completed = {}
  BY DEF NewRecord
<1>3. Seen("waiting_approval") = "open"
  BY DEF Seen, Before, During
<1>4. LifeRecord' = [phase |-> "open", no |-> 1, done |-> {}]
  BY <1>1, <1>2, <1>3, LifeOfSession DEF LifeOf
<1>5. LifeRecord.phase = "none"
  BY <1>1 DEF LifeRecord, LifePhase
<1> QED BY <1>4, <1>5 DEF Life!Begin

LEMMA LifeSignal ==
  ASSUME IInv, NEW side \in Side, NEW round \in Round, NEW kind \in Signals,
         NEW seq \in 0 .. MaxSeq, NEW p \in Prints, Signal(side, round, kind, seq, p)
  PROVE  UNCHANGED LifeRecord \/ Life!Connect
<1> DEFINE t == Signalled(session, side, kind, seq, p)
<1>1. session \in Records /\ session # None /\ t \in Records /\ session' = t
  BY LiveRecord, SignalledType DEF Signal, Live, Mutate
<1>2. session' # None
  BY <1>1, Constants
<1>3. /\ t.no = session.no /\ t.completed = session.completed
      /\ t.phase = session.phase \/ (t.phase = "connecting" /\ kind = "answer")
  BY <1>1 DEF Signalled, Records, Signals
<1>4. kind = "answer" => session.phase = "signaling"
  BY DEF Signal, Admissible
<1> HIDE DEF t
<1>5. CASE t.phase = session.phase
  BY <1>1, <1>2, <1>3, <1>5, HiddenStep
<1>6. CASE t.phase = "connecting" /\ session.phase = "signaling"
  BY <1>1, <1>2, <1>3, <1>6, PhaseStep, LifeOfSession DEF Life!Connect, Seen, Before, During, LifeOf
<1> QED BY <1>3, <1>4, <1>5, <1>6

LEMMA LifeComplete ==
  ASSUME IInv, NEW side \in Side, NEW round \in Round, Complete(side, round)
  PROVE  Life!Finish(side)
<1> DEFINE done  == session.completed \cup {side}
           on    == session.active \cup {side}
           phase == CASE done = Side -> "completed"
                      [] done # Side /\ on = Side -> "active"
                      [] OTHER -> session.phase
           t     == [session EXCEPT !.active = on, !.completed = done, !.phase = phase]
<1>1. /\ session \in Records /\ session # None /\ session.phase \in During
      /\ side \notin session.completed /\ session' = t
  BY LiveRecord DEF Complete, Live, Event, Mutate, During
<1>2. phase \in During \/ phase = "completed"
  BY <1>1 DEF During
<1>3. phase = "completed" <=> done = Side
  BY <1>1 DEF During
<1> HIDE DEF phase, done
<1>4. t \in Records /\ t.no = session.no /\ t.completed = done /\ t.phase = phase
  BY <1>1, <1>2 DEF Records, Phase, During, Terminal, done
<1>5. session' # None
  BY <1>1, <1>4, Constants
<1> HIDE DEF t
<1>6. LifeRecord = [phase |-> "live", no |-> session.no, done |-> session.completed]
  BY <1>1, LifeOfSession DEF LifeOf, Seen, During, Before
<1> DEFINE seen == IF done = Side THEN "completed" ELSE "live"
<1>7. LifeRecord' = [phase |-> seen, no |-> session.no, done |-> done]
  BY <1>1, <1>2, <1>3, <1>4, <1>5, LifeOfSession DEF LifeOf, Seen, During, Before
<1> HIDE DEF seen
<1>8. LifeRecord' = [LifeRecord EXCEPT !.done = done, !.phase = seen]
  <2>1. PICK m : m = [LifeRecord EXCEPT !.done = done]
    OBVIOUS
  <2>2. m = [phase |-> "live", no |-> session.no, done |-> done]
    BY <1>6, <2>1
  <2>3. LifeRecord' = [m EXCEPT !.phase = seen]
    BY <1>7, <2>2
  <2> QED BY <2>1, <2>3
<1>9. LifeRecord.phase = "live" /\ LifeRecord.done = session.completed
  BY <1>6
<1> QED BY <1>1, <1>8, <1>9 DEF Life!Finish, done, seen

\* Cancel, fail, and an interruption with no round left.
LEMMA LifeCease ==
  ASSUME IInv, Live, session.phase \notin Terminal, NEW phase \in {"cancelled", "failed"}, NEW box,
         Event([session EXCEPT !.phase = phase], box)
  PROVE  Life!Cease(phase)
<1> DEFINE t == [session EXCEPT !.phase = phase]
<1>1. session \in Records /\ session # None /\ session' = t
  BY LiveRecord DEF Live, Event, Mutate
<1>2. /\ t \in Records /\ t.no = session.no /\ t.completed = session.completed
      /\ t.phase = phase /\ session.phase \in Before \cup During
  BY <1>1 DEF Records, Phase, Terminal, Before, During
<1>3. session' # None
  BY <1>1, <1>2, Constants
<1> HIDE DEF t
<1>4. Life!To(Seen(phase)) /\ Seen(phase) = phase
  BY <1>1, <1>2, <1>3, PhaseStep DEF Seen, Before, During
<1>5. LifeRecord.phase \in Life!Open
  BY <1>1, <1>2, LifeOfSession DEF LifeOf, Seen, Life!Open
<1> QED BY <1>4, <1>5 DEF Life!Cease

LEMMA LifeInterrupt ==
  ASSUME IInv, NEW side \in Side, NEW round \in Round, Interrupt(side, round)
  PROVE  Life!Advance \/ Life!Cease("failed")
<1>1. Live /\ session \in Records /\ session # None /\ session.phase \in During
  BY LiveRecord DEF Interrupt, Live, During
<1>2. CASE session.no >= MaxRounds
  BY <1>1, <1>2, LifeCease DEF Interrupt, During, Terminal
<1>3. CASE ~(session.no >= MaxRounds)
  <2>1. session.no < MaxRounds
    BY <1>1, <1>3, Constants, RoundNumbers
  <2>2. session' = BeginRound(session) /\ session' # None
    BY <1>1, <1>3, <2>1, BeginRoundType, Constants DEF Interrupt, Event, Mutate
  <2>3. LifeRecord = [phase |-> "live", no |-> session.no, done |-> session.completed]
    BY <1>1, LifeOfSession DEF LifeOf, Seen, During, Before
  <2>4. LifeRecord' = [phase |-> "open", no |-> session.no + 1, done |-> {}]
    <3>1. /\ session'.phase = "waiting_approval" /\ session'.no = session.no + 1
          /\ session'.completed = {}
      BY <1>1, <2>2 DEF BeginRound, Records
    <3>2. Seen("waiting_approval") = "open"
      BY DEF Seen, Before, During
    <3> QED BY <2>2, <3>1, <3>2, LifeOfSession DEF LifeOf
  <2> QED BY <2>1, <2>3, <2>4 DEF Life!Advance
<1> QED BY <1>2, <1>3

LEMMA LifeExpire == IInv /\ Expire => Life!Lapse
<1> SUFFICES ASSUME IInv, Expire PROVE Life!Lapse
  OBVIOUS
<1> DEFINE t == [session EXCEPT !.phase = "expired", !.ticket = None]
<1>1. session \in Records /\ session # None /\ session.phase # "expired" /\ session' = t
  BY DEF Expire, Mutate, IInv, TypeOK
<1>2. /\ t \in Records /\ t.no = session.no /\ t.completed = session.completed
      /\ t.phase = "expired"
  BY <1>1 DEF Records, Phase, Terminal
<1>3. session' # None
  BY <1>1, <1>2, Constants
<1> HIDE DEF t
<1>4. Life!To("expired")
  BY <1>1, <1>2, <1>3, PhaseStep DEF Seen, Before, During
<1>5. LifeRecord.phase \in (Life!Open \cup Life!Over) \ {"expired"}
  BY <1>1, LifeOfSession
  DEF LifeOf, Seen, Life!Open, Life!Over, Records, Phase, Terminal, Before, During
<1> QED BY <1>4, <1>5 DEF Life!Lapse

LEMMA LifeCollect == IInv /\ Collect => Life!Forget
<1> SUFFICES ASSUME IInv, Collect PROVE Life!Forget
  OBVIOUS
<1>1. session # None /\ session.phase = "expired" /\ session' = None /\ clock' = "gc"
  BY DEF Collect, IInv
<1>2. LifeRecord.phase = "expired"
  BY <1>1, LifeOfSession DEF LifeOf, Seen, Before, During
<1> QED BY <1>1, <1>2 DEF Life!Forget, LifeRecord, LifePhase

\* The other endpoint requests show nothing: approvals, candidates and "active".
LEMMA LifeEndpoint ==
  ASSUME IInv, NEW side \in Side, NEW round \in Round, Endpoint(side, round)
  PROVE  [Life!LifeNext]_LifeRecord
<1>1. ASSUME NEW sb \in Nonce, NEW rb \in Nonce, Authorize(side, round, sb, rb)
      PROVE  UNCHANGED LifeRecord
  <2> DEFINE t == Approved(session, side, round, sb, rb)
  <2>1. session \in Records /\ session # None /\ session.phase = "waiting_approval" /\ session' = t
    BY <1>1, LiveRecord DEF Authorize, Live, Mutate
  <2>2. t \in Records /\ t.no = session.no /\ t.completed = session.completed /\ t.phase \in Before
    BY <1>1, <2>1, Constants DEF Approved, Records, Binding, Phase, Before
  <2> HIDE DEF t
  <2>3. Seen(t.phase) = "open" /\ Seen(session.phase) = "open"
    BY <2>1, <2>2 DEF Seen, Before, During
  <2>4. t # None
    BY <2>2, Constants
  <2> QED BY <2>1, <2>2, <2>3, <2>4, HiddenStep
<1>2. ASSUME Active(side, round) PROVE UNCHANGED LifeRecord
  <2> DEFINE t == [session EXCEPT !.active = session.active \cup {side},
                                  !.phase = IF session.active \cup {side} = Side THEN "active" ELSE @]
  <2>1. session \in Records /\ session # None /\ session.phase \in During /\ session' = t
    BY <1>2, LiveRecord DEF Active, Live, Event, Mutate, During
  <2>2. t \in Records /\ t.no = session.no /\ t.completed = session.completed /\ t.phase \in During
    BY <2>1 DEF Records, Phase, During
  <2> HIDE DEF t
  <2> QED BY <2>1, <2>2, HiddenStep, Constants DEF Seen, Before, During
<1>3. ASSUME NEW seq \in 0 .. MaxSeq, NEW kind \in {"offer", "answer"}, NEW p \in Fingerprint,
             Signal(side, round, kind, seq, p)
      PROVE  UNCHANGED LifeRecord \/ Life!Connect
  BY <1>3, LifeSignal DEF Signals, Prints
<1>4. ASSUME NEW seq \in 0 .. MaxSeq, Signal(side, round, "candidate", seq, None)
      PROVE  UNCHANGED LifeRecord \/ Life!Connect
  BY <1>4, LifeSignal DEF Signals, Prints
<1>5. ASSUME Fail(side) PROVE Life!Cease("failed")
  BY <1>5, LifeCease DEF Fail
<1> QED BY <1>1, <1>2, <1>3, <1>4, <1>5, LifeComplete, LifeInterrupt DEF Endpoint, Life!LifeNext

\* Drains, the signer and the mailboxes show nothing.
LEMMA LifeDrain ==
  ASSUME IInv, \/ \E i \in outbox : Drain(i)
               \/ \E w \in Worker : IssueTicket(w) \/ SignerFails(w)
               \/ \E side \in Side : \E i \in mail[side] : Poll(side, i)
               \/ Pass
               \/ UNCHANGED vars
  PROVE  UNCHANGED LifeRecord
<1>1. ASSUME NEW w \in Worker, IssueTicket(w), session' # session PROVE UNCHANGED LifeRecord
  <2> DEFINE t == TicketStatement(worker[w], w)
  <2>1. TicketReady(session, worker[w].no) /\ session' = [session EXCEPT !.ticket = t]
    BY <1>1 DEF IssueTicket
  <2>2. session \in Records /\ session # None /\ worker[w] \in Records /\ t \in Statements
    BY <1>1, <2>1, StatementType DEF IInv, TypeOK, TicketReady, IssueTicket
  <2> HIDE DEF t
  <2>3. session' \in Records /\ session'.phase = session.phase /\ session'.no = session.no
        /\ session'.completed = session.completed
    BY <2>1, <2>2 DEF Records
  <2> QED BY <2>2, <2>3, HiddenStep, Constants
<1>2. CASE session' = session /\ (session = None => clock' = clock)
  BY <1>2 DEF LifeRecord, LifePhase
<1>3. ASSUME NEW w \in Worker, IssueTicket(w), session' = session PROVE UNCHANGED LifeRecord
  BY <1>2, <1>3 DEF IssueTicket
<1> QED BY <1>1, <1>2, <1>3
        DEF Drain, Mail, DeliveryAck, DropJob, AskSigner, SignerFails, Poll, Pass, vars

\* The session, whatever its endpoints, its alarm and its drains do, is a PeerLife: every step is a
\* step of it or shows nothing.
THEOREM ImplementsLifeHolds == Spec => ImplementsLife
<1>1. Init => Life!LifeInit
  BY DEF Init, Life!LifeInit, LifeRecord, LifePhase
<1>2. IInv /\ [Next]_vars => [Life!LifeNext]_LifeRecord
  <2> SUFFICES ASSUME IInv, [Next]_vars PROVE [Life!LifeNext]_LifeRecord
    OBVIOUS
  <2>1. ASSUME NEW round \in 1 .. MaxRounds, Cancel(round) PROVE Life!LifeNext
    BY <2>1, LifeCease DEF Cancel, Life!LifeNext
  <2>2. ASSUME NEW round \in 1 .. MaxRounds, NEW side \in Side, Endpoint(side, round)
        PROVE  [Life!LifeNext]_LifeRecord
    BY <2>2, LifeEndpoint DEF Round
  <2> QED BY <2>1, <2>2, LifeCreate, LifeExpire, LifeCollect, LifeDrain DEF Next, Life!LifeNext
<1> QED BY <1>1, <1>2, InvHolds, PTL DEF Spec, ImplementsLife, Life!LifeSpec

(***************************************************************************)
(* The row of a tool (PeerRuntime), for any number of rounds: a plugin     *)
(* process lives only as the one of the current attempt, none lives once   *)
(* the row's signals have fired, and run comes to its end only when they   *)
(* have, or when its plugin is stopped.                                    *)
(***************************************************************************)
JobAt == {"idle", "stopFirst", "waitLaunch", "stopRetiring", "stopReplacement", "stopLast",
          "abortLaunch", "ok", "bad"}

\* The processes, the row's signals and the clean-ups.
Stopping(t) == job[t] \in {"ok", "bad", "abortLaunch"}
ProcInv ==
    /\ try \in R!Attempt
    /\ run \in [R!Attempt -> {"none", "up", "exited"}]
    /\ stop \in [R!Attempt -> {"none", "abort", "cancelling", "applied", "unapplied"}]
    /\ job \in [R!Thread -> JobAt]
    /\ \A n \in R!Attempt : n > try => run[n] = "none"
    /\ \A n \in R!Attempt : stop[n] = "cancelling" => run[n] = "up"
    /\ \A n \in R!Attempt : R!Alive(n) => n = try /\ ~R!Stopped
    /\ "cancelFailure" \in flags => R!Stopped
    /\ \A t \in R!Thread : Stopping(t) => R!Stopped

\* Where run is, and what the round has of its plugin.
InBridge == {"connect", "reportActive", "bridge", "reportComplete"}
NoneLeft == R!TransitionOver /\ \A n \in R!Attempt : ~R!Alive(n)
CtlInv ==
    /\ given => tr = "ended"
    /\ at \in InBridge => given
    /\ at = "endRound" /\ err = "none" => given
    /\ active => given /\ at \in {"bridge", "reportComplete", "stopPlugin", "endRound"}
    /\ at = "stopPlugin" => err # "none"
    /\ at \in {"interrupt", "waitRound"} => given /\ try < MaxRounds /\ (R!Alive(try) => kept = try)
    /\ at = "waitCompleted" => NoneLeft
    /\ at \in {"drain", "lastReport"} => R!Stopped
    /\ at = "done" => R!Stopped \/ NoneLeft

RowInv == ProcInv /\ CtlInv

\* A step that brings no process to life, and ends those of D.
Calms(D) ==
    /\ run' \in [R!Attempt -> {"none", "up", "exited"}]
    /\ stop' \in [R!Attempt -> {"none", "abort", "cancelling", "applied", "unapplied"}]
    /\ \A n \in R!Attempt : R!Alive(n)' => R!Alive(n) /\ n \notin D
    /\ \A n \in R!Attempt : run[n] = "none" => run'[n] = "none"
    /\ \A n \in R!Attempt : stop'[n] = "cancelling" => run'[n] = "up"

LEMMA DieCalms ==
  ASSUME ProcInv, NEW S, NEW D, R!Die(S, D)
  PROVE  Calms(S \cup D)
<1>1. /\ stop' = [n \in R!Attempt |-> IF n \in S /\ stop[n] = "none" THEN "abort" ELSE stop[n]]
      /\ run' = [n \in R!Attempt |-> IF n \in S \cup D /\ stop[n] = "none" /\ run[n] = "up" THEN "exited" ELSE run[n]]
  BY DEF R!Die
<1>2. /\ run' \in [R!Attempt -> {"none", "up", "exited"}]
      /\ stop' \in [R!Attempt -> {"none", "abort", "cancelling", "applied", "unapplied"}]
  BY <1>1 DEF ProcInv
<1>3. \A n \in R!Attempt : R!Alive(n)' => R!Alive(n) /\ n \notin S \cup D
  BY <1>1 DEF R!Alive
<1>4. \A n \in R!Attempt : run[n] = "none" => run'[n] = "none"
  BY <1>1
<1>5. \A n \in R!Attempt : stop'[n] = "cancelling" => run'[n] = "up"
  BY <1>1 DEF ProcInv
<1> QED BY <1>2, <1>3, <1>4, <1>5 DEF Calms

LEMMA AskCalms ==
  ASSUME ProcInv, NEW S, R!AskCancel(S)
  PROVE  Calms({})
<1>1. /\ stop' = [n \in R!Attempt |-> IF n \in S /\ stop[n] = "none"
                                     THEN IF run[n] = "up" THEN "cancelling" ELSE "unapplied"
                                     ELSE stop[n]]
      /\ run' = run
  BY DEF R!AskCancel
<1>2. stop' \in [R!Attempt -> {"none", "abort", "cancelling", "applied", "unapplied"}]
  BY <1>1 DEF ProcInv
<1>3. \A n \in R!Attempt : R!Alive(n)' => R!Alive(n)
  BY <1>1 DEF R!Alive
<1> QED BY <1>1, <1>2, <1>3 DEF Calms, ProcInv

LEMMA SameCalms == ASSUME ProcInv, UNCHANGED <<run, stop>> PROVE Calms({})
  BY DEF ProcInv, Calms, R!Alive

\* One process is done with: it has exited, or is marked so.
LEMMA ExitCalms ==
  ASSUME ProcInv, NEW n \in R!Attempt,
         NEW x \in {"none", "abort", "applied", "unapplied"},
         run' = [run EXCEPT ![n] = "exited"] /\ run[n] # "none", stop' = [stop EXCEPT ![n] = x],
         x # "none" \/ stop[n] = "none"
  PROVE  Calms({})
  BY DEF ProcInv, Calms, R!Alive

\* The signals of a row stay set; none is set while a process lives.
LEMMA ProcKept ==
  ASSUME ProcInv, NEW D, Calms(D), try' = try, flags \subseteq flags', job' \in [R!Thread -> JobAt],
         R!Stopped' => R!Stopped \/ R!Attempt \subseteq D,
         "cancelFailure" \in flags' => "cancelFailure" \in flags \/ R!Stopped',
         \A t \in R!Thread : Stopping(t)' => Stopping(t) \/ R!Stopped'
  PROVE  ProcInv'
<1>1. R!Stopped => R!Stopped'
  BY DEF R!Stopped
<1> QED BY <1>1 DEF ProcInv, Calms

\* run stays where it is.
LEMMA CtlKept ==
  ASSUME CtlInv, NEW D, Calms(D), try' = try, try \in R!Attempt, flags \subseteq flags', UNCHANGED <<at, err, given, active>>,
         tr' = tr \/ (~R!TransitionOver /\ tr # "ended"),
         given /\ R!Alive(try)' => kept' = kept
  PROVE  CtlInv'
<1>1. R!Stopped => R!Stopped'
  BY DEF R!Stopped
<1>2. NoneLeft => NoneLeft'
  BY DEF NoneLeft, Calms, R!TransitionOver
<1>3. R!Alive(try)' => R!Alive(try)
  BY DEF Calms, R!Alive
<1> QED BY <1>1, <1>2, <1>3 DEF CtlInv, InBridge, R!TransitionOver, R!Alive

LEMMA ProcFacts ==
  ASSUME ProcInv
  PROVE  /\ try \in Nat /\ R!Attempt \subseteq Nat
         /\ \A t \in R!Thread : job[t] \in JobAt
  BY PeerAssumption DEF ProcInv, R!Attempt

\* The plugin processes by themselves, and the launch of a round.
LEMMA PluginKeeps ==
  ASSUME RowInv, R!Transition \/ \E n \in R!Attempt : R!CancelSettles(n) \/ R!Exit(n)
  PROVE  RowInv'
<1> USE DEF RowInv
<1>1. ASSUME NEW n \in R!Attempt, R!CancelSettles(n) \/ R!Exit(n) PROVE RowInv'
  <2>1. PICK x \in {"none", "abort", "applied", "unapplied"} :
          /\ run' = [run EXCEPT ![n] = "exited"] /\ stop' = [stop EXCEPT ![n] = x]
          /\ x # "none" \/ stop[n] = "none"
    <3>1. CASE R!Exit(n)
      <4>1. stop' = [stop EXCEPT ![n] = "none"]
        BY <3>1 DEF R!Exit, ProcInv
      <4> QED BY <3>1, <4>1 DEF R!Exit
    <3>2. CASE R!CancelSettles(n)
      BY <3>2 DEF R!CancelSettles
    <3> QED BY <1>1, <3>1, <3>2
  <2>2. run[n] # "none"
    BY <1>1 DEF R!CancelSettles, R!Exit, ProcInv
  <2>3. Calms({})
    BY <2>1, <2>2, ExitCalms
  <2>4. UNCHANGED <<at, err, given, active, try, tr, kept, flags, job>>
    BY <1>1 DEF R!CancelSettles, R!Exit, R!row, R!threads
  <2> HIDE DEF RowInv
  <2>5. ProcInv' /\ CtlInv'
    BY <2>3, <2>4, ProcKept, CtlKept DEF RowInv, ProcInv, R!Stopped, Stopping
  <2> QED BY <2>5 DEF RowInv
<1>2. ASSUME NEW D, Calms(D), UNCHANGED <<at, err, given, active, try, flags, job>>, ~R!TransitionOver, tr # "ended"
      PROVE  RowInv'
  <2>1. ~given
    BY <1>2 DEF CtlInv
  <2>2. ProcInv'
    BY <1>2, ProcKept DEF ProcInv, R!Stopped, Stopping
  <2>3. CtlInv'
    BY <1>2, <2>1, CtlKept DEF ProcInv
  <2> QED BY <2>2, <2>3
<1>3. CASE R!Retire \/ R!Ready
  BY <1>2, <1>3, SameCalms DEF R!Retire, R!Ready, R!row, R!threads, R!TransitionOver
<1>4. CASE R!Open
  <2>1. Calms({}) \/ Calms({} \cup {try})
    BY <1>4, SameCalms, AskCalms, DieCalms DEF R!Open
  <2> QED BY <1>2, <1>4, <2>1 DEF R!Open, R!row, R!threads, R!TransitionOver
<1>5. CASE R!Resolve
  <2>1. UNCHANGED <<at, err, given, active, try, flags, job, stop, kept>> /\ ~R!TransitionOver /\ tr # "ended"
    BY <1>5 DEF R!Resolve, R!row, R!threads, R!TransitionOver
  <2>2. CASE run' = run
    BY <1>2, <2>1, <2>2, SameCalms
  <2>3. CASE ~R!Stopped /\ tr' = "spawned" /\ run' = [run EXCEPT ![try] = "up"]
    <3>1. ~given /\ at \notin InBridge \cup {"interrupt", "waitRound", "waitCompleted", "drain", "lastReport", "done"}
      BY <2>1, <2>3 DEF CtlInv, NoneLeft
    <3>2. run' \in [R!Attempt -> {"none", "up", "exited"}] /\ ~R!Stopped'
          /\ \A n \in R!Attempt : run'[n] = IF n = try THEN "up" ELSE run[n]
      BY <2>1, <2>3 DEF ProcInv, R!Stopped
    <3>3. ProcInv'
      <4>1. \A n \in R!Attempt : R!Alive(n)' => n = try
        BY <2>1, <3>2 DEF ProcInv, R!Alive
      <4>2. \A n \in R!Attempt : n > try => run'[n] = "none"
        BY <2>1, <3>2, ProcFacts DEF ProcInv
      <4>3. \A n \in R!Attempt : stop'[n] = "cancelling" => run'[n] = "up"
        BY <2>1, <3>2 DEF ProcInv
      <4>4. "cancelFailure" \notin flags' /\ \A u \in R!Thread : ~Stopping(u)'
        BY <2>1, <2>3 DEF ProcInv, Stopping
      <4> QED BY <2>1, <3>2, <4>1, <4>2, <4>3, <4>4 DEF ProcInv
    <3>4. CtlInv'
      BY <2>1, <3>1 DEF CtlInv, InBridge
    <3> QED BY <3>3, <3>4
  <2> QED BY <1>5, <2>2, <2>3 DEF R!Resolve
<1> QED BY <1>1, <1>3, <1>4, <1>5 DEF R!Transition

\* A step of the clean-ups, of the user or of the clock: run stays where it is.
LEMMA CalmKeeps ==
  ASSUME RowInv, NEW D, Calms(D), UNCHANGED <<at, err, given, active, try, tr>>,
         flags \subseteq flags', job' \in [R!Thread -> JobAt],
         kept' = kept \/ R!Stopped \/ R!Stopped',
         R!Stopped' => R!Stopped \/ R!Attempt \subseteq D,
         "cancelFailure" \in flags' => "cancelFailure" \in flags \/ R!Stopped',
         \A t \in R!Thread : Stopping(t)' => Stopping(t) \/ R!Stopped'
  PROVE  RowInv'
<1>1. ProcInv' /\ try \in R!Attempt
  BY ProcKept DEF RowInv, ProcInv
<1>2. R!Stopped => R!Stopped'
  BY DEF R!Stopped
<1>3. R!Alive(try)' => ~R!Stopped'
  BY <1>1 DEF ProcInv
<1>4. CtlInv'
  BY <1>1, <1>2, <1>3, CtlKept DEF RowInv
<1> QED BY <1>1, <1>4 DEF RowInv

LEMMA JobSet ==
  ASSUME ProcInv, NEW t \in R!Thread, NEW x \in JobAt, job' = [job EXCEPT ![t] = x]
  PROVE  /\ job' \in [R!Thread -> JobAt]
         /\ \A u \in R!Thread : Stopping(u)' => Stopping(u) \/ (u = t /\ x \in {"ok", "bad", "abortLaunch"})
  BY DEF ProcInv, Stopping

\* Setting one of the row's signals.
LEMMA SignalSet ==
  ASSUME NEW f \in {"aborted", "timedOut", "ioAborted"}, f \in flags'
  PROVE  R!Stopped'
  BY DEF R!Stopped

LEMMA CleanupKeeps ==
  ASSUME RowInv, NEW t \in R!Thread, R!Cleanup(t)
  PROVE  RowInv'
<1>1. ProcInv
  BY DEF RowInv
<1>2. CASE R!StopFirst(t)
  <2>1. /\ Calms({} \cup R!Attempt) /\ flags \subseteq flags' /\ R!Stopped'
        /\ job' = [job EXCEPT ![t] = "waitLaunch"]
        /\ UNCHANGED <<at, err, given, active, try, tr, kept>>
    BY <1>1, <1>2, DieCalms, SignalSet DEF R!StopFirst, R!Abort, R!row
  <2>2. "waitLaunch" \in JobAt
    BY DEF JobAt
  <2> QED BY <1>1, <2>1, <2>2, JobSet, CalmKeeps
<1>3. CASE R!WaitLaunch(t)
  <2>1. /\ Calms({}) /\ flags' = flags
        /\ job' = [job EXCEPT ![t] = "stopLast"]
        /\ UNCHANGED <<at, err, given, active, try, tr, kept>>
    BY <1>1, <1>3, AskCalms DEF R!WaitLaunch, R!row
  <2>2. "stopLast" \in JobAt /\ (R!Stopped' => R!Stopped)
    BY <2>1 DEF JobAt, R!Stopped
  <2>3. \A u \in R!Thread : Stopping(u)' => Stopping(u)
    BY <1>1, <2>1, <2>2, JobSet
  <2> QED BY <1>1, <2>1, <2>2, <2>3, JobSet, CalmKeeps
<1>4. CASE R!Replacement(t)
  <2>1. UNCHANGED <<at, err, given, active, try, tr, kept>>
    BY <1>4 DEF R!Replacement, R!row
  <2>2. CASE /\ R!AskCancel({try}) /\ UNCHANGED flags
             /\ job' = [job EXCEPT ![t] = "stopReplacement"]
    <3>1. Calms({}) /\ "stopReplacement" \in JobAt /\ (R!Stopped' => R!Stopped)
      BY <1>1, <2>2, AskCalms DEF JobAt, R!Stopped
    <3>2. \A u \in R!Thread : Stopping(u)' => Stopping(u)
      BY <1>1, <2>2, <3>1, JobSet
    <3> QED BY <1>1, <2>1, <2>2, <3>1, <3>2, JobSet, CalmKeeps
  <2>3. CASE /\ job' = [job EXCEPT ![t] = "bad"]
             /\ flags' = flags \cup {"cancelFailure", "aborted"} /\ R!Die({}, R!Attempt)
    <3>1. Calms({} \cup R!Attempt) /\ "bad" \in JobAt /\ flags \subseteq flags' /\ R!Stopped'
      BY <1>1, <2>3, DieCalms, SignalSet DEF JobAt
    <3> QED BY <1>1, <2>1, <2>3, <3>1, JobSet, CalmKeeps
  <2> QED BY <1>4, <2>2, <2>3 DEF R!Replacement
<1>5. CASE R!CancelEnds(t)
  <2>1. /\ Calms({} \cup R!Attempt) /\ flags \subseteq flags' /\ R!Stopped'
        /\ UNCHANGED <<at, err, given, active, try, tr>>
    BY <1>1, <1>5, DieCalms, SignalSet DEF R!CancelEnds, R!row
  <2>2. PICK x \in JobAt : job' = [job EXCEPT ![t] = x]
    BY <1>5 DEF R!CancelEnds, JobAt
  <2> QED BY <1>1, <2>1, <2>2, JobSet, CalmKeeps
<1>6. CASE R!AbortEnds(t)
  <2>1. /\ Calms(R!RowPlugins \cup {}) /\ flags' = flags
        /\ job' = [job EXCEPT ![t] = "ok"]
        /\ UNCHANGED <<at, err, given, active, try, tr>>
    BY <1>1, <1>6, DieCalms DEF R!AbortEnds, R!row
  <2>2. R!Stopped /\ R!Stopped' /\ "ok" \in JobAt
    BY <1>1, <1>6, <2>1 DEF R!AbortEnds, ProcInv, Stopping, R!Stopped, JobAt
  <2> QED BY <1>1, <2>1, <2>2, JobSet, CalmKeeps
<1> QED BY <1>2, <1>3, <1>4, <1>5, <1>6 DEF R!Cleanup

\* A clean-up begins: cancelRowPlugins sets no signal, abortRowPlugins sets one.
LEMMA CancelBegins ==
  ASSUME ProcInv, NEW t \in R!Thread, NEW set \in SUBSET {"remoteCancelled", "cancelSent"}, R!CancelRow(t, set)
  PROVE  /\ Calms({}) /\ flags \subseteq flags' /\ job' \in [R!Thread -> JobAt]
         /\ R!Stopped' => R!Stopped
         /\ "cancelFailure" \in flags' => "cancelFailure" \in flags
         /\ \A u \in R!Thread : Stopping(u)' => Stopping(u) \/ R!Stopped'
<1>1. flags' = flags \cup set \cup {"cancelRequested"}
  BY DEF R!CancelRow
<1>2. /\ flags \subseteq flags' /\ (R!Stopped' <=> R!Stopped)
      /\ "cancelFailure" \in flags' => "cancelFailure" \in flags
  BY <1>1 DEF R!Stopped
<1>3. CASE R!Is("cancelFailure")
  <2>1. R!Stopped /\ Calms({}) /\ job' = [job EXCEPT ![t] = "bad"] /\ "bad" \in JobAt
    BY <1>3, SameCalms DEF R!CancelRow, R!Is, ProcInv, JobAt
  <2> QED BY <1>2, <2>1, JobSet
<1>4. CASE ~R!Is("cancelFailure")
  <2>1. PICK x \in {"stopRetiring", "stopFirst"} : job' = [job EXCEPT ![t] = x]
    BY <1>4 DEF R!CancelRow
  <2>2. x \in JobAt /\ x \notin {"ok", "bad", "abortLaunch"} /\ Calms({})
    BY <1>4, AskCalms DEF R!CancelRow, JobAt
  <2> QED BY <1>2, <2>1, <2>2, JobSet
<1> QED BY <1>3, <1>4

LEMMA AbortBegins ==
  ASSUME ProcInv, NEW t \in R!Thread, R!AbortRow(t, {})
  PROVE  /\ Calms(R!RowPlugins \cup R!Attempt) /\ flags \subseteq flags' /\ job' \in [R!Thread -> JobAt]
         /\ R!Stopped'
<1>1. R!Die(R!RowPlugins, R!Attempt) /\ flags' = flags \cup {} \cup {"ioAborted"}
      /\ job' = [job EXCEPT ![t] = "abortLaunch"] /\ "abortLaunch" \in JobAt
  BY DEF R!AbortRow, JobAt
<1> QED BY <1>1, DieCalms, JobSet, SignalSet

\* The hub, the operator and the clock.
LEMMA OutsideKeeps ==
  ASSUME RowInv,
         \/ R!HubMoves \/ R!TellEnd \/ R!CancelReport \/ R!ReportComplete \/ R!Interrupt \/ R!ReportFail
         \/ R!Cancel \/ R!CancelReturns \/ R!Timeout \/ R!TakeEnd \/ R!RunCleanup
  PROVE  RowInv'
<1>1. ProcInv /\ R!Thread = {"main", "watch", "user"}
  BY DEF RowInv, R!Thread
<1>2. CASE R!HubMoves \/ R!TellEnd \/ R!CancelReport \/ R!ReportComplete \/ R!Interrupt \/ R!ReportFail
  <2>1. UNCHANGED <<at, err, given, active, try, tr, kept, run, stop, flags, job>>
    BY <1>2 DEF R!HubMoves, R!TellEnd, R!CancelReport, R!ReportComplete, R!Interrupt, R!ReportFail,
                R!row, R!plugins, R!threads
  <2> QED BY <2>1 DEF RowInv, ProcInv, CtlInv, R!Stopped, Stopping, R!Alive, NoneLeft, R!TransitionOver
<1>3. CASE R!Cancel
  <2>1. R!CancelRow("user", {}) /\ UNCHANGED <<at, err, given, active, try, tr, kept>>
    BY <1>3 DEF R!Cancel
  <2> QED BY <1>1, <2>1, CancelBegins, CalmKeeps
<1>4. CASE R!CancelReturns
  <2>1. /\ Calms({} \cup R!Attempt) /\ flags \subseteq flags' /\ R!Stopped'
        /\ job' = [job EXCEPT !["user"] = "idle"] /\ "idle" \in JobAt
        /\ UNCHANGED <<at, err, given, active, try, tr, kept>>
    BY <1>1, <1>4, DieCalms, SignalSet DEF R!CancelReturns, R!row, JobAt
  <2> QED BY <1>1, <2>1, JobSet, CalmKeeps
<1>5. CASE R!Timeout
  <2>1. /\ Calms({} \cup R!Attempt) /\ flags \subseteq flags' /\ R!Stopped' /\ job' = job
        /\ UNCHANGED <<at, err, given, active, try, tr, kept>>
    BY <1>1, <1>5, DieCalms, SignalSet DEF R!Timeout, R!Abort, R!row, R!threads
  <2> QED BY <1>1, <2>1, CalmKeeps DEF ProcInv
<1>6. CASE R!TakeEnd \/ R!RunCleanup
  <2>1. PICK t \in R!Thread, set \in SUBSET {"remoteCancelled", "cancelSent"} :
          R!CancelRow(t, set) \/ R!AbortRow(t, {})
    BY <1>1, <1>6 DEF R!TakeEnd, R!RunCleanup
  <2>2. UNCHANGED <<at, err, given, active, try, tr, kept>>
    BY <1>6 DEF R!TakeEnd, R!RunCleanup
  <2>3. CASE R!CancelRow(t, set)
    BY <1>1, <2>2, <2>3, CancelBegins, CalmKeeps
  <2>4. CASE R!AbortRow(t, {})
    BY <1>1, <2>2, <2>4, AbortBegins, CalmKeeps
  <2> QED BY <2>1, <2>3, <2>4
<1> QED BY <1>2, <1>3, <1>4, <1>5, <1>6

\* What is thrown leaves the round, or run.
LEMMA ThrowKeeps ==
  ASSUME RowInv, ProcInv', NEW c, c # "none", R!Throw(c),
         UNCHANGED <<given, active, tr>>, at \in R!InRound \cup {"prepare", "waitCompleted", "interrupt", "waitRound"}
  PROVE  RowInv'
<1>1. CASE at \in R!InRound
  BY <1>1 DEF R!Throw, RowInv, CtlInv, InBridge
<1>2. CASE at \notin R!InRound
  BY <1>2 DEF R!Throw, RowInv, CtlInv, InBridge, R!InRound
<1> QED BY <1>1, <1>2

LEMMA WatchKeeps == ASSUME RowInv, R!EndTaken PROVE RowInv'
<1>1. /\ ProcInv /\ "watch" \in R!Thread /\ "idle" \in JobAt
      /\ job' = [job EXCEPT !["watch"] = "idle"]
      /\ UNCHANGED <<given, active, try, tr, kept>> /\ R!Stopped
  BY DEF RowInv, R!Thread, JobAt, R!EndTaken, R!row, ProcInv, Stopping
<1>2. /\ Calms({}) \/ Calms({} \cup R!Attempt)
      /\ flags \subseteq flags' /\ ("cancelFailure" \in flags' => "cancelFailure" \in flags)
  BY <1>1, SameCalms, DieCalms DEF R!EndTaken, R!Abort
<1>3. job' \in [R!Thread -> JobAt] /\ \A u \in R!Thread : Stopping(u)' => Stopping(u)
  BY <1>1, JobSet
<1>4. CASE at \in R!InRound \cup {"prepare", "waitRound"}
  <2>1. PICK c \in {"cancel_unapplied", "cancelled", "ended"} : R!Throw(c)
    BY <1>4 DEF R!EndTaken
  <2>2. ProcInv'
    BY <1>1, <1>2, <1>3, ProcKept
  <2> QED BY <1>1, <1>4, <2>1, <2>2, ThrowKeeps
<1>5. CASE at \notin R!InRound \cup {"prepare", "waitRound"}
  BY <1>1, <1>2, <1>3, <1>5, CalmKeeps DEF R!EndTaken
<1> QED BY <1>4, <1>5

\* The steps of run that touch no process.
LEMMA RunKeeps ==
  ASSUME RowInv,
         \/ R!Launched \/ R!Connected \/ R!ReportActive \/ R!Bridged \/ R!CompleteConfirmed \/ R!Fails
         \/ R!Completed \/ R!InterruptConfirmed \/ R!Catch \/ R!FailReported \/ R!RunCleaned
         \/ R!DrainEnd \/ R!LastReport
  PROVE  RowInv'
<1>1. ProcInv
  BY DEF RowInv
<1>2. /\ UNCHANGED <<try, run, stop>> /\ flags \subseteq flags'
      /\ flags' \subseteq flags \cup {"remoteCancelled", "cancelSent"}
  BY DEF R!Launched, R!Connected, R!ReportActive, R!Bridged, R!CompleteConfirmed, R!Fails, R!Throw,
         R!Completed, R!InterruptConfirmed, R!Catch, R!FailReported, R!RunCleaned, R!DrainEnd, R!LastReport,
         R!row, R!plugins, R!threads
<1>3. (R!Stopped' <=> R!Stopped) /\ ("cancelFailure" \in flags' => "cancelFailure" \in flags)
  BY <1>2 DEF R!Stopped
<1>4. job' \in [R!Thread -> JobAt] /\ \A u \in R!Thread : Stopping(u)' => Stopping(u)
  <2>1. CASE R!RunCleaned
    <3>1. job' = [job EXCEPT !["main"] = "idle"] /\ "main" \in R!Thread /\ "idle" \in JobAt
      BY <2>1 DEF R!RunCleaned, R!Thread, JobAt
    <3> QED BY <1>1, <3>1, JobSet
  <2>2. CASE job' = job
    BY <1>1, <2>2 DEF ProcInv, Stopping
  <2> QED BY <2>1, <2>2
          DEF R!Launched, R!Connected, R!ReportActive, R!Bridged, R!CompleteConfirmed, R!Fails,
              R!Completed, R!InterruptConfirmed, R!Catch, R!FailReported, R!DrainEnd, R!LastReport, R!threads
<1>5. ProcInv'
  BY <1>1, <1>2, <1>3, <1>4, SameCalms, ProcKept
<1>6. CASE R!Fails
  <2>1. PICK c \in {"cancelled", "ended", "interrupted", "direct_unavailable", "other"} : R!Throw(c)
    BY <1>6 DEF R!Fails
  <2>2. at \in R!InRound \cup {"prepare", "waitCompleted", "interrupt", "waitRound"}
        /\ UNCHANGED <<given, active, tr>>
    BY <1>6 DEF R!Fails, R!row, R!plugins
  <2> QED BY <1>5, <2>1, <2>2, ThrowKeeps
<1>7. CASE R!Launched
  <2>1. UNCHANGED <<tr, active>> /\ given' = (tr = "ended") /\ at = "launch"
    BY <1>7 DEF R!Launched
  <2>2. (at' = "connect" /\ tr = "ended") \/ (at' = "stopPlugin" /\ err' = "other")
    BY <1>7 DEF R!Launched, R!Throw, R!InRound
  <2>3. ~active'
    BY <2>1 DEF RowInv, CtlInv
  <2>4. CtlInv'
    BY <2>1, <2>2, <2>3 DEF CtlInv, InBridge
  <2> QED BY <1>5, <2>4 DEF RowInv
<1>8. CASE R!Connected \/ R!ReportActive \/ R!Bridged \/ R!CompleteConfirmed \/ R!InterruptConfirmed
  <2>1. UNCHANGED <<tr, given, err, kept>>
    BY <1>8 DEF R!Connected, R!ReportActive, R!Bridged, R!CompleteConfirmed, R!InterruptConfirmed,
                R!row, R!plugins
  <2>2. \/ at = "connect" /\ at' = "reportActive" /\ active' = active
        \/ at = "reportActive" /\ at' = "bridge"
        \/ at = "bridge" /\ at' = "reportComplete" /\ active' = active
        \/ at = "reportComplete" /\ at' = "endRound" /\ active' = active
        \/ at = "interrupt" /\ at' = "waitRound" /\ active' = active
    BY <1>8 DEF R!Connected, R!ReportActive, R!Bridged, R!CompleteConfirmed, R!InterruptConfirmed, R!row
  <2>3. CtlInv'
    BY <1>2, <2>1, <2>2 DEF RowInv, CtlInv, InBridge, R!Alive
  <2> QED BY <1>5, <2>3 DEF RowInv
<1>9. CASE R!Completed \/ R!Catch \/ R!FailReported \/ R!RunCleaned \/ R!DrainEnd \/ R!LastReport
  <2>1. UNCHANGED <<tr, given, active>>
    BY <1>9 DEF R!Completed, R!Catch, R!FailReported, R!RunCleaned, R!DrainEnd, R!LastReport,
                R!row, R!plugins
  <2>2. \/ at = "waitCompleted" /\ at' = "done"
        \/ at \in {"catch", "fail"} /\ at' \in {"cleanup", "fail"}
        \/ at = "cleanup" /\ Stopping("main") /\ at' \in {"done", "drain", "lastReport"}
        \/ at = "drain" /\ at' = "lastReport"
        \/ at = "lastReport" /\ at' = "done"
    BY <1>9 DEF R!Completed, R!Catch, R!FailReported, R!RunCleaned, R!DrainEnd, R!LastReport, Stopping
  <2>3. NoneLeft => NoneLeft'
    BY <1>2, <2>1 DEF NoneLeft, R!TransitionOver, R!Alive
  <2>4. Stopping("main") => R!Stopped
    BY <1>1 DEF ProcInv, R!Thread
  <2>5. CtlInv'
    BY <1>3, <2>1, <2>2, <2>3, <2>4 DEF RowInv, CtlInv, InBridge
  <2> QED BY <1>5, <2>5 DEF RowInv
<1> QED BY <1>6, <1>7, <1>8, <1>9

\* The first round and the next one: what was kept is aborted before anything is launched.
LEMMA BeginKeeps == ASSUME RowInv, R!Begin PROVE RowInv'
<1>1. /\ Calms({kept} \cup {}) /\ ProcInv
      /\ UNCHANGED <<try, flags, job, active>> /\ given' = FALSE /\ at = "prepare" /\ at' = "launch"
  BY DieCalms DEF RowInv, R!Begin, R!StartRound, R!threads
<1>2. ProcInv'
  BY <1>1, ProcKept DEF ProcInv, R!Stopped, Stopping
<1>3. CtlInv'
  BY <1>1 DEF RowInv, CtlInv, InBridge
<1> QED BY <1>2, <1>3 DEF RowInv

LEMMA NextRoundKeeps == ASSUME RowInv, R!RoundPrepared PROVE RowInv'
<1>1. /\ Calms({kept} \cup {}) /\ ProcInv
      /\ UNCHANGED <<flags, job, active>> /\ given' = FALSE /\ at = "waitRound" /\ at' = "launch"
      /\ try' = try + 1
  BY DieCalms DEF RowInv, R!RoundPrepared, R!StartRound, R!threads
<1>2. try < MaxRounds /\ try' \in R!Attempt /\ R!Attempt \subseteq Nat
  BY <1>1, PeerAssumption DEF RowInv, CtlInv, ProcInv, R!Attempt
<1>3. \A n \in R!Attempt : ~R!Alive(n)'
  BY <1>1 DEF RowInv, CtlInv, ProcInv, Calms
<1>4. \A n \in R!Attempt : n > try' => run'[n] = "none"
  BY <1>1, <1>2 DEF ProcInv, Calms
<1>5. (R!Stopped' <=> R!Stopped) /\ \A t \in R!Thread : Stopping(t)' <=> Stopping(t)
  BY <1>1 DEF R!Stopped, Stopping
<1>6. ProcInv'
  BY <1>1, <1>2, <1>3, <1>4, <1>5 DEF ProcInv, Calms
<1>7. CtlInv'
  BY <1>1 DEF RowInv, CtlInv, InBridge
<1> QED BY <1>6, <1>7 DEF RowInv

\* The end of a round: its plugin is cancelled, kept for the next round, left, or aborted.
LEMMA StopPluginKeeps == ASSUME RowInv, R!StopPlugin PROVE RowInv'
<1>1. /\ ProcInv /\ Calms({})
      /\ flags \subseteq flags' /\ flags' \subseteq flags \cup {"cancelRequested"}
      /\ UNCHANGED <<try, job, given, active, err, tr>> /\ at = "stopPlugin" /\ at' = "endRound"
  BY AskCalms, SameCalms DEF RowInv, R!StopPlugin, R!row, R!threads
<1>2. ProcInv'
  BY <1>1, ProcKept DEF ProcInv, R!Stopped, Stopping
<1>3. CtlInv'
  BY <1>1 DEF RowInv, CtlInv, InBridge
<1> QED BY <1>2, <1>3 DEF RowInv

LEMMA EndRoundKeeps == ASSUME RowInv, R!EndRound PROVE RowInv'
<1>1. /\ ProcInv /\ UNCHANGED <<try, job, given, flags, tr>> /\ active' = FALSE /\ at = "endRound"
  BY DEF RowInv, R!EndRound, R!threads
<1>2. Calms({}) \/ Calms({try} \cup {})
  BY <1>1, SameCalms, DieCalms DEF R!EndRound
<1>3. ProcInv'
  BY <1>1, <1>2, ProcKept DEF ProcInv, R!Stopped, Stopping
<1>4. \A n \in R!Attempt : R!Alive(n)' => n = try
  BY <1>1, <1>3 DEF ProcInv
<1>5. try \in R!Attempt /\ (R!Alive(try)' => R!Alive(try))
  BY <1>1, <1>2 DEF ProcInv, Calms
<1>6. R!Drops => ~R!Alive(try)'
  <2>1. CASE stop[try] = "unapplied"
    BY <1>5, <2>1 DEF R!Alive
  <2>2. CASE R!Drops /\ stop[try] # "unapplied"
    <3>1. R!Die({try}, {})
      BY <2>2 DEF R!EndRound, R!Drops
    <3> QED BY <1>1, <1>5, <3>1, DieCalms DEF Calms
  <2> QED BY <2>1, <2>2
<1>7. CASE ~R!Unapplied /\ R!Interrupted /\ try < MaxRounds
  <2>1. at' = "interrupt" /\ given
    BY <1>1, <1>7 DEF R!EndRound, R!Interrupted, RowInv, CtlInv
  <2>2. R!Alive(try)' => kept' = try
    BY <1>5, <1>6, <1>7, <2>1 DEF R!EndRound, R!Keeps, R!Defers, R!Drops, R!Alive
  <2>3. CtlInv'
    BY <1>1, <1>7, <2>1, <2>2 DEF RowInv, CtlInv, InBridge
  <2> QED BY <1>3, <2>3 DEF RowInv
<1>8. CASE ~(~R!Unapplied /\ R!Interrupted /\ try < MaxRounds)
  <2>1. at' = IF err' = "none" THEN "waitCompleted" ELSE "catch"
    BY <1>8 DEF R!EndRound
  <2>2. err' = IF R!Unapplied THEN "cancel_unapplied" ELSE err
    BY DEF R!EndRound
  <2>3. err' = "none" => NoneLeft'
    <3> SUFFICES ASSUME err' = "none" PROVE NoneLeft'
      OBVIOUS
    <3>1. err = "none" /\ given /\ tr = "ended"
      BY <1>1, <2>2 DEF RowInv, CtlInv
    <3>2. R!Drops
      BY <3>1 DEF R!Drops, R!Keeps, R!Defers, R!Interrupted
    <3> QED BY <1>1, <1>4, <1>6, <3>1, <3>2 DEF NoneLeft, R!TransitionOver
  <2>4. CtlInv'
    BY <1>1, <2>1, <2>3 DEF RowInv, CtlInv, InBridge
  <2> QED BY <1>3, <2>4 DEF RowInv
<1> QED BY <1>7, <1>8

LEMMA RowStarts == R!Init => RowInv
<1> SUFFICES ASSUME R!Init PROVE RowInv
  OBVIOUS
<1>1. try \in R!Attempt
  BY PeerAssumption DEF R!Init, R!Attempt
<1>2. ProcInv
  BY <1>1 DEF R!Init, ProcInv, R!Alive, R!Stopped, Stopping, JobAt
<1>3. CtlInv
  BY DEF R!Init, CtlInv, InBridge
<1> QED BY <1>2, <1>3 DEF RowInv

LEMMA RowStep == RowInv /\ [R!Next]_rowVars => RowInv'
<1> SUFFICES ASSUME RowInv, [R!Next]_rowVars PROVE RowInv'
  OBVIOUS
<1>1. CASE UNCHANGED rowVars
  BY <1>1 DEF rowVars, RowInv, ProcInv, CtlInv, R!Stopped, Stopping, R!Alive, NoneLeft, R!TransitionOver
<1>2. CASE R!Next
  BY <1>2, PluginKeeps, CleanupKeeps, OutsideKeeps, WatchKeeps, RunKeeps, BeginKeeps, NextRoundKeeps,
     StopPluginKeeps, EndRoundKeeps
     DEF R!Next, R!RunRow, R!RunRound
<1> QED BY <1>1, <1>2

\* No more than one process lives, none does when run is over, and a launch that is still in flight
\* then meets a signal that has fired.
LEMMA RowSound == RowInv => ProcessesAreSound
<1> SUFFICES ASSUME RowInv PROVE ProcessesAreSound
  OBVIOUS
<1>1. R!OneProcess
  BY DEF RowInv, ProcInv, R!OneProcess
<1>2. R!NoOrphan
  BY DEF RowInv, ProcInv, CtlInv, NoneLeft, R!NoOrphan
<1> QED BY <1>1, <1>2 DEF ProcessesAreSound

\* Who acknowledges the end has cleaned up before: a signal of the row has fired.
LEMMA RowAcks ==
  ASSUME RowInv, RowInv', [R!Next]_rowVars, told' = "acked", told # "acked"
  PROVE  \A n \in R!Attempt : ~R!Alive(n)'
<1>1. R!DrainEnd \/ R!EndTaken
  BY DEF rowVars, R!Next, R!RunRow, R!RunRound, R!Begin, R!Launched, R!Connected, R!ReportActive, R!Bridged,
         R!ReportComplete, R!CompleteConfirmed, R!Fails, R!StopPlugin, R!EndRound, R!Completed, R!Interrupt,
         R!InterruptConfirmed, R!RoundPrepared, R!Catch, R!ReportFail, R!FailReported, R!RunCleanup,
         R!RunCleaned, R!LastReport, R!Transition, R!Retire, R!Resolve, R!Open, R!Ready, R!HubMoves,
         R!TellEnd, R!TakeEnd, R!Cancel, R!CancelReport, R!CancelReturns, R!Timeout, R!CancelSettles, R!Exit,
         R!Cleanup, R!StopFirst, R!WaitLaunch, R!Replacement, R!CancelEnds, R!AbortEnds, R!hub
<1>2. R!Stopped
  BY <1>1 DEF R!DrainEnd, R!EndTaken, RowInv, ProcInv, CtlInv, Stopping, R!Thread
<1>3. flags \subseteq flags'
  BY <1>1 DEF R!DrainEnd, R!EndTaken, R!Abort
<1> QED BY <1>2, <1>3 DEF R!Stopped, RowInv, ProcInv

\* For every number of rounds, whatever the hub, the peer, the operator and the clock do: the
\* processes of a row are the one of its attempt at most, and run leaves none behind.
THEOREM ProcessesAreSoundHolds == RowSpec => []ProcessesAreSound
<1>1. RowInit => RowInv
  BY RowStarts DEF RowInit
<1>2. RowInv /\ [RowNext]_<<vars, rowVars>> => RowInv'
  BY RowStep DEF RowNext
<1> QED BY <1>1, <1>2, RowSound, PTL DEF RowSpec

\* The end of the session is acknowledged by an end whose plugin no longer lives.
THEOREM EndAckedAfterCleanupHolds == RowSpec => EndAckedAfterCleanup
<1>1. RowInit => RowInv
  BY RowStarts DEF RowInit
<1>2. RowInv /\ [RowNext]_<<vars, rowVars>> => RowInv'
  BY RowStep DEF RowNext
<1>3. RowInv /\ RowInv' /\ [RowNext]_<<vars, rowVars>>
        => [told' = "acked" /\ told # "acked" => \A n \in R!Attempt : ~R!Alive(n)']_R!vars
  BY RowAcks DEF RowNext, R!vars, rowVars
<1> QED BY <1>1, <1>2, <1>3, PTL DEF RowSpec, EndAckedAfterCleanup, R!EndAcked
=============================================================================

----------------------------- MODULE RoomsProofs -----------------------------
(***************************************************************************)
(* Proofs about the parts of a Room, for any values of their constants:    *)
(* RoomConsole (the console of a user), RoomTasks (T, the leader's ledger  *)
(* and the runners) and RoomRelay (R, the relay).                          *)
(***************************************************************************)
EXTENDS MC_Rooms, TLAPS, FiniteSetTheorems

(*****************************************************************************)
(* RoomConsole: for any texts, pages of any length, and any requests lost,   *)
(* delayed or made again.                                                    *)
(*****************************************************************************)

\* The ids drawn for a text: one belongs to what the user wants done now, and is the envelope kept.
IdsAreCurrent ==
    /\ \A k \in Text :
         /\ kept[k] = NoCall => since[k] = ids[k] + 1
         /\ kept[k] # NoCall => since[k] = ids[k] /\ kept[k].id = ids[k]
    /\ \A a \in made : a[2] <= ids[a[1]]
    /\ \A c \in stray : c.e.id <= ids[c.text]
    /\ op.at = "done" => op.text \in Text

\* A discussion that is shown to its end was read to the revision it names.
ShownIsRead == ReadToTheEnd => pages.rev <= read

IInv == TypeOK /\ IdsAreCurrent /\ ShownIsRead /\ NothingUnread

LEMMA Bounds ==
  /\ Messages \subseteq Text /\ Limit \in Nat \ {0} /\ MaxRevision \in Nat /\ NoCall \in Envelopes
  /\ NoPages \in PageSets
  BY ConsoleAssumption DEF NoCall, Envelopes, NoPages, PageSets

LEMMA InitInv == Init => IInv
  BY Bounds DEF Init, IInv, TypeOK, IdsAreCurrent, ShownIsRead, NothingUnread, ReadToTheEnd, NoOp,
                NoPages, NoCall, Reread, PageSets, Envelopes

\* A page ends at the revision that it names, or says that there is more.
LEMMA PageIsSound ==
  ASSUME TypeOK, NEW p \in PageSets
  PROVE  /\ PageAfter(p) \in PageSets
         /\ PageAfter(p).ok /\ (~PageAfter(p).more => PageAfter(p).upto = PageAfter(p).rev)
<1> DEFINE upto == IF p.upto + Limit < revision THEN p.upto + Limit ELSE revision
<1>1. revision \in Nat /\ Limit \in Nat /\ p.upto \in Nat /\ p.n \in Nat
  BY Bounds DEF TypeOK, PageSets
<1>2. upto \in Nat /\ (~(upto < revision) => upto = revision)
  BY <1>1
<1>3. PageAfter(p) = [n |-> p.n + 1, upto |-> upto, rev |-> revision, more |-> upto < revision,
                      ok |-> TRUE]
  BY DEF PageAfter
<1> HIDE DEF upto
<1>4. CASE upto < revision
  <2>0. (upto < revision) = TRUE
    BY <1>4
  <2>1. PageAfter(p) = [n |-> p.n + 1, upto |-> upto, rev |-> revision, more |-> TRUE, ok |-> TRUE]
    BY <1>3, <2>0, Zenon
  <2> QED BY <1>1, <1>2, <2>1 DEF PageSets
<1>5. CASE ~(upto < revision)
  <2>0. (upto < revision) = FALSE
    BY <1>5
  <2>1. PageAfter(p) = [n |-> p.n + 1, upto |-> upto, rev |-> revision, more |-> FALSE, ok |-> TRUE]
    BY <1>3, <2>0, Zenon
  <2> QED BY <1>1, <1>2, <1>5, <2>1 DEF PageSets
<1> QED BY <1>4, <1>5

LEMMA RereadType == \A p \in PageSets : Reread(p) \in [goal : Nat, got : PageSets]
  BY Bounds DEF Reread, PageSets

\* Reading changes what is shown, and no request.
LEMMA ReadStep ==
  ASSUME IInv, UNCHANGED <<leader, asking>>, fetch' \in [goal : Nat, got : PageSets],
         pages' \in PageSets, read' \in Nat, read <= read',
         pages'.ok /\ ~pages'.more => pages'.rev <= read'
  PROVE  IInv'
<1>1. UNCHANGED <<revision, made, ids, kept, op, stray, since>>
  BY DEF leader, asking
<1>2. TypeOK' /\ IdsAreCurrent' /\ ShownIsRead'
  BY <1>1 DEF IInv, TypeOK, IdsAreCurrent, ShownIsRead, ReadToTheEnd
<1>3. NothingUnread'
  <2>1. read \in Nat /\ \A k \in Messages : kept[k].rev \in Nat
    BY Bounds DEF IInv, TypeOK, Envelopes
  <2>2. \A c \in stray : c.e.rev \in Nat
    BY DEF IInv, TypeOK, Envelopes
  <2> QED BY <1>1, <2>1, <2>2 DEF IInv, NothingUnread
<1> QED BY <1>2, <1>3 DEF IInv

LEMMA RefreshStep == IInv /\ (Refresh \/ FetchNextPage) => IInv'
<1> SUFFICES ASSUME IInv, Refresh \/ FetchNextPage PROVE IInv'
  OBVIOUS
<1>1. pages \in PageSets /\ read \in Nat /\ (pages.ok /\ ~pages.more => pages.rev <= read)
  BY DEF IInv, TypeOK, ShownIsRead, ReadToTheEnd
<1>2. UNCHANGED <<leader, asking, pages, read>>
  BY DEF Refresh, FetchNextPage
<1>3. fetch' \in [goal : Nat, got : PageSets]
  BY <1>1, RereadType DEF Refresh, FetchNextPage, PageSets
<1> QED BY <1>1, <1>2, <1>3, ReadStep

LEMMA PageArrivesStep == IInv /\ PageArrives => IInv'
<1> SUFFICES ASSUME IInv, PageArrives PROVE IInv'
  OBVIOUS
<1> DEFINE got == PageAfter(fetch.got)
<1>1. TypeOK /\ fetch.got \in PageSets /\ fetch.goal \in Nat /\ pages \in PageSets /\ read \in Nat
      /\ (pages.ok /\ ~pages.more => pages.rev <= read)
  BY DEF IInv, TypeOK, ShownIsRead, ReadToTheEnd
<1>2. got \in PageSets /\ (~got.more => got.upto = got.rev) /\ got.upto \in Nat /\ got.rev \in Nat
  BY <1>1, PageIsSound DEF PageSets
<1>3. UNCHANGED <<leader, asking>>
  BY DEF PageArrives
<1>4. CASE got.n = fetch.goal \/ ~got.more
  <2>1. pages' = got /\ fetch' = NoFetch /\ read' = IF got.upto > read THEN got.upto ELSE read
    BY <1>4 DEF PageArrives
  <2> HIDE DEF got
  <2>2. fetch' \in [goal : Nat, got : PageSets]
    BY <2>1, Bounds DEF NoFetch
  <2>3. read' \in Nat /\ read <= read' /\ got.upto <= read'
    BY <1>1, <1>2, <2>1
  <2> QED BY <1>2, <1>3, <2>1, <2>2, <2>3, ReadStep
<1>5. CASE ~(got.n = fetch.goal \/ ~got.more)
  <2>1. fetch' = [fetch EXCEPT !.got = got] /\ UNCHANGED <<pages, read>>
    BY <1>5 DEF PageArrives
  <2> HIDE DEF got
  <2>2. fetch \in [goal : Nat, got : PageSets]
    BY DEF IInv, TypeOK
  <2>3. fetch' \in [goal : Nat, got : PageSets]
    BY <1>2, <2>1, <2>2
  <2> QED BY <1>1, <1>3, <2>1, <2>3, ReadStep
<1> QED BY <1>4, <1>5

LEMMA FetchFailsStep == IInv /\ FetchFails => IInv'
<1> SUFFICES ASSUME IInv, FetchFails PROVE IInv'
  OBVIOUS
<1>1. pages \in PageSets /\ read \in Nat
  BY DEF IInv, TypeOK
<1>2. UNCHANGED <<leader, asking, read>> /\ fetch' = NoFetch /\ pages' = [pages EXCEPT !.ok = FALSE]
  BY DEF FetchFails
<1>3. pages' \in PageSets /\ ~pages'.ok
  BY <1>1, <1>2 DEF PageSets
<1>4. fetch' \in [goal : Nat, got : PageSets]
  BY <1>2, Bounds DEF NoFetch
<1> QED BY <1>1, <1>2, <1>3, <1>4, ReadStep

\* The envelope of a text is the one of its last id, or the first of what is wanted now.
LEMMA EnvelopeIsCurrent ==
  ASSUME IInv, NEW k \in Text
  PROVE  LET e == Envelope(k) IN
         /\ e \in Envelopes /\ e # NoCall /\ since[k] = e.id /\ ids[k] <= e.id /\ ids[k] \in Nat
         /\ (IF e.id > ids[k] THEN e.id ELSE ids[k]) = e.id
         /\ k \in Messages /\ ReadToTheEnd => e.rev <= read
<1> DEFINE new == [id |-> ids[k] + 1, rev |-> pages.rev]
<1>1. /\ kept[k] \in Envelopes /\ ids[k] \in Nat /\ pages.rev \in Nat
      /\ kept[k] = NoCall => since[k] = ids[k] + 1
      /\ kept[k] # NoCall => since[k] = ids[k] /\ kept[k].id = ids[k]
      /\ k \in Messages => kept[k].rev <= read
      /\ ReadToTheEnd => pages.rev <= read
  BY DEF IInv, TypeOK, IdsAreCurrent, ShownIsRead, NothingUnread, PageSets
<1>2. CASE kept[k] # NoCall
  BY <1>1, <1>2 DEF Envelope
<1>3. CASE kept[k] = NoCall
  <2>1. Envelope(k) = new
    BY <1>3 DEF Envelope
  <2>2. new \in Envelopes /\ new.id = ids[k] + 1 /\ new.rev = pages.rev
    BY <1>1 DEF Envelopes
  <2>3. NoCall.id = 0
    BY DEF NoCall
  <2> HIDE DEF new
  <2> QED BY <1>1, <1>3, <2>1, <2>2, <2>3
<1> QED BY <1>2, <1>3

LEMMA SendStep ==
  ASSUME IInv, NEW k \in Text, Send(k) PROVE IInv'
<1> DEFINE e == Envelope(k)
<1>1. /\ e \in Envelopes /\ e # NoCall /\ since[k] = e.id /\ ids[k] <= e.id /\ ids[k] \in Nat
      /\ (IF e.id > ids[k] THEN e.id ELSE ids[k]) = e.id
      /\ k \in Messages => e.rev <= read
  BY EnvelopeIsCurrent DEF Send
<1>2. /\ kept' = [kept EXCEPT ![k] = e]
      /\ ids' = [ids EXCEPT ![k] = IF e.id > @ THEN e.id ELSE @]
      /\ UNCHANGED <<since, display>>
      /\ \/ Carry(k, e) /\ UNCHANGED stray /\ op' = [text |-> k, at |-> "done"]
         \/ UNCHANGED <<leader, stray>> /\ op' = [text |-> k, at |-> "done"]
         \/ /\ stray' \in {stray, stray \cup {[text |-> k, e |-> e]}}
            /\ op' = [text |-> k, at |-> "failed"] /\ UNCHANGED leader
  BY DEF Send
<1> HIDE DEF e
<1>3. TypeOK /\ IdsAreCurrent /\ ShownIsRead /\ NothingUnread
  BY DEF IInv
<1>4. e.id \in Nat /\ e.rev \in Nat /\ [text |-> k, e |-> e] \in [text : Text, e : Envelopes]
  BY <1>1 DEF Envelopes
<1>5. ids' = [ids EXCEPT ![k] = e.id]
  BY <1>1, <1>2, <1>3 DEF TypeOK
<1>6. made' \in {made, made \cup {<<k, e.id>>}} /\ revision' \in {revision, revision + 1}
  BY <1>2 DEF Carry, leader
<1>7. stray' \in {stray, stray \cup {[text |-> k, e |-> e]}}
  BY <1>2
<1>8. op' \in [text : Text, at : {"done", "failed"}]
  BY <1>2
<1>9. TypeOK'
  <2>1. revision' \in Nat /\ made' \subseteq Text \X Nat
    BY <1>3, <1>4, <1>6 DEF TypeOK
  <2>2. ids' \in [Text -> Nat] /\ kept' \in [Text -> Envelopes]
    BY <1>1, <1>2, <1>3, <1>4, <1>5 DEF TypeOK
  <2>3. stray' \subseteq [text : Text, e : Envelopes]
    BY <1>3, <1>4, <1>7 DEF TypeOK
  <2> QED BY <1>2, <1>3, <1>8, <2>1, <2>2, <2>3 DEF TypeOK, display
<1>10. \A j \in Text : /\ ids'[j] = IF j = k THEN e.id ELSE ids[j]
                       /\ kept'[j] = IF j = k THEN e ELSE kept[j]
                       /\ since'[j] = since[j] /\ ids[j] \in Nat /\ ids[j] <= ids'[j]
  BY <1>1, <1>2, <1>3, <1>5 DEF TypeOK
<1>11. IdsAreCurrent'
  <2>1. \A j \in Text : /\ kept'[j] = NoCall => since'[j] = ids'[j] + 1
                        /\ kept'[j] # NoCall => since'[j] = ids'[j] /\ kept'[j].id = ids'[j]
    BY <1>1, <1>3, <1>10 DEF IdsAreCurrent
  <2>2. ASSUME NEW a \in made' PROVE a[2] <= ids'[a[1]]
    <3>1. CASE a \in made
      <4>1. a[1] \in Text /\ a[2] \in Nat /\ a[2] <= ids[a[1]]
        BY <1>3, <3>1 DEF TypeOK, IdsAreCurrent
      <4> QED BY <1>4, <1>10, <4>1
    <3>2. CASE a = <<k, e.id>>
      BY <1>4, <1>10, <3>2
    <3> QED BY <1>6, <3>1, <3>2
  <2>3. ASSUME NEW c \in stray' PROVE c.e.id <= ids'[c.text]
    <3>1. CASE c \in stray
      <4>1. c.text \in Text /\ c.e.id \in Nat /\ c.e.id <= ids[c.text]
        BY <1>3, <3>1 DEF TypeOK, IdsAreCurrent, Envelopes
      <4> QED BY <1>4, <1>10, <4>1
    <3>2. CASE c = [text |-> k, e |-> e]
      BY <1>4, <1>10, <3>2
    <3> QED BY <1>7, <3>1, <3>2
  <2> QED BY <1>8, <2>1, <2>2, <2>3 DEF IdsAreCurrent
<1>12. ShownIsRead'
  BY <1>2, <1>3 DEF display, ShownIsRead, ReadToTheEnd
<1>13. NothingUnread'
  <2>1. read' = read
    BY <1>2 DEF display
  <2>2. \A j \in Messages : kept'[j].rev <= read
    BY <1>1, <1>3, <1>10, Bounds DEF NothingUnread
  <2>3. \A c \in stray' : c.text \in Messages => c.e.rev <= read
    BY <1>1, <1>3, <1>7 DEF NothingUnread
  <2> QED BY <2>1, <2>2, <2>3 DEF NothingUnread
<1> QED BY <1>9, <1>11, <1>12, <1>13 DEF IInv

LEMMA FailsStep == IInv /\ Fails => IInv'
  BY DEF Fails, IInv, TypeOK, IdsAreCurrent, ShownIsRead, ReadToTheEnd, NothingUnread, NoOp, leader, display

LEMMA SucceedsStep == IInv /\ Succeeds => IInv'
<1> SUFFICES ASSUME IInv, Succeeds PROVE IInv'
  OBVIOUS
<1> DEFINE k == op.text
<1>1. TypeOK /\ k \in Text /\ pages \in PageSets
  BY DEF IInv, TypeOK, IdsAreCurrent, Succeeds
<1>2. /\ kept' = [kept EXCEPT ![k] = NoCall] /\ since' = [since EXCEPT ![k] = ids[k] + 1]
      /\ op' = NoOp /\ fetch' = Reread(pages) /\ UNCHANGED <<revision, made, ids, stray, pages, read>>
  BY DEF Succeeds, leader
<1> HIDE DEF k
<1>3. TypeOK'
  BY <1>1, <1>2, Bounds, RereadType DEF TypeOK, NoOp
<1>4. \A j \in Text : /\ kept'[j] = IF j = k THEN NoCall ELSE kept[j]
                      /\ since'[j] = IF j = k THEN ids[k] + 1 ELSE since[j]
  BY <1>1, <1>2 DEF TypeOK
<1>5. IdsAreCurrent'
  BY <1>2, <1>4 DEF IInv, IdsAreCurrent, NoOp
<1>6. ShownIsRead'
  BY <1>2 DEF IInv, ShownIsRead, ReadToTheEnd
<1>7. NothingUnread'
  <2>1. NoCall.rev = 0 /\ read \in Nat
    BY <1>1 DEF NoCall, TypeOK
  <2> QED BY <1>2, <1>4, <2>1, Bounds DEF IInv, NothingUnread
<1> QED BY <1>3, <1>5, <1>6, <1>7 DEF IInv

LEMMA StrayArrivesStep == IInv /\ StrayArrives => IInv'
<1> SUFFICES ASSUME IInv, NEW c \in stray, Carry(c.text, c.e) \/ UNCHANGED leader,
                    stray' = stray \ {c}, UNCHANGED <<ids, kept, op, since, display>>
             PROVE  IInv'
  BY DEF StrayArrives
<1>1. c.text \in Text /\ c.e.id \in Nat /\ c.e.id <= ids[c.text]
  BY DEF IInv, TypeOK, IdsAreCurrent, Envelopes
<1>2. made' \subseteq made \cup {<<c.text, c.e.id>>} /\ revision' \in {revision, revision + 1}
  BY DEF Carry, leader
<1>3. TypeOK'
  BY <1>1, <1>2 DEF IInv, TypeOK, display
<1>4. IdsAreCurrent'
  BY <1>1, <1>2 DEF IInv, IdsAreCurrent
<1> QED BY <1>3, <1>4 DEF IInv, ShownIsRead, ReadToTheEnd, NothingUnread, display

LEMMA RemountStep == IInv /\ Remount => IInv'
<1> SUFFICES ASSUME IInv, Remount PROVE IInv'
  OBVIOUS
<1>1. /\ pages' = NoPages /\ fetch' = Reread(NoPages) /\ kept' = [k \in Text |-> NoCall] /\ op' = NoOp
      /\ since' = [k \in Text |-> ids[k] + 1]
      /\ UNCHANGED <<revision, made, ids, stray, read>>
  BY DEF Remount, leader
<1>2. TypeOK'
  BY <1>1, Bounds, RereadType DEF IInv, TypeOK, NoOp
<1>3. IdsAreCurrent' /\ ShownIsRead'
  BY <1>1 DEF IInv, IdsAreCurrent, ShownIsRead, ReadToTheEnd, NoPages, NoOp
<1>4. NothingUnread'
  BY <1>1, Bounds DEF IInv, TypeOK, NothingUnread, NoCall
<1> QED BY <1>2, <1>3, <1>4 DEF IInv

LEMMA InvStep == IInv /\ [Next]_vars => IInv'
<1> SUFFICES ASSUME IInv, [Next]_vars PROVE IInv'
  OBVIOUS
<1>1. CASE OthersWrite
  BY <1>1 DEF OthersWrite, asking, display, IInv, TypeOK, IdsAreCurrent, ShownIsRead, ReadToTheEnd,
              NothingUnread
<1>2. CASE UNCHANGED vars
  BY <1>2 DEF vars, leader, asking, display, IInv, TypeOK, IdsAreCurrent, ShownIsRead, ReadToTheEnd,
              NothingUnread
<1> QED BY <1>1, <1>2, RefreshStep, PageArrivesStep, FetchFailsStep, SendStep, FailsStep,
           SucceedsStep, StrayArrivesStep, RemountStep DEF Next

\* Of the ids drawn for what the user wants done now there is one.
LEMMA InvImpliesSound == IInv => ConsoleIsSound
<1> SUFFICES ASSUME IInv, NEW a \in made, NEW b \in made, a[1] = b[1],
                    since[a[1]] <= a[2], since[b[1]] <= b[2]
             PROVE  a = b
  BY DEF IInv, ConsoleIsSound, OneEffectOfEach
<1>1. a \in Text \X Nat /\ b \in Text \X Nat
  BY DEF IInv, TypeOK
<1>2. /\ ids[a[1]] \in Nat /\ since[a[1]] \in {ids[a[1]], ids[a[1]] + 1}
      /\ a[2] <= ids[a[1]] /\ b[2] <= ids[b[1]]
  BY <1>1 DEF IInv, TypeOK, IdsAreCurrent
<1>3. a[2] = ids[a[1]] /\ b[2] = ids[a[1]]
  BY <1>1, <1>2
<1> QED BY <1>1, <1>3

\* What the user of the console wants done is done at most once, whatever was lost, delayed or made
\* again, and no message is on its way that does not follow what the user has read.
THEOREM ConsoleIsSoundHolds == Spec => []ConsoleIsSound
<1>1. IInv /\ [Next]_vars => IInv'
  BY InvStep
<1> QED BY InitInv, <1>1, InvImpliesSound, PTL DEF Spec

(***************************************************************************)
(* RoomTasks: for any tasks, agents and limits, and any requests of the    *)
(* runners lost, late or refused.                                          *)
(***************************************************************************)
TaskRows == [st : {"none", "queued", "waiting", "running", "cancel_requested"} \cup T!Terminal,
             epoch : Nat, lease : BOOLEAN, events : Nat]
RunSteps == {"idle", "permit", "open", "permit2", "prompt", "revoke", "settle", "wait", "complete",
             "stop", "fail", "report", "close"}
RunRows == [pc : RunSteps, epoch : Nat, proc : BOOLEAN, cap : BOOLEAN,
            tool : {"none", "started", "checked", "permitted", "sent"}, abort : BOOLEAN,
            kids : BOOLEAN, rev : Nat, tries : Nat,
            why : {"none", "revoked", "error", "lost", "unknown"}]
Ending   == {"wait", "complete", "fail", "stopped"}
Requests == [do : {"claim", "renew", "delegate"} \cup Ending, t : Task, epoch : Nat, rev : Nat]

TasksTypeOK ==
    /\ room \in [paused : BOOLEAN, members : SUBSET T!Agent]
    /\ task \in [Task -> TaskRows] /\ rev \in Nat /\ requests \in Nat
    /\ x \in [Task -> RunRows] /\ late \subseteq Requests

\* The ledger has the task at work.
Going(t) == task[t].st \in {"running", "cancel_requested"}

OneGoing == \A t, u \in Task : t # u /\ Assignee[t] = Assignee[u] => ~(Going(t) /\ Going(u))

\* What may still happen to a task fits into its history.
FitsIn(st, n) ==
    /\ st \in {"none", "queued", "cancel_requested"} => n < MaxEvents
    /\ st \in {"waiting", "running"} => n + 1 < MaxEvents

Over  == {t \in Task : task[t].st \in T!Terminal}
Still == {t \in Task : task[t].st # "running"}

\* Each receipt beyond the limit ended a task, or took one from its runner.
Receipted == requests <= MaxRequests + Cardinality(Over) + Cardinality(Still)

LedgerInv ==
    /\ OneGoing /\ T!WaitingHasChildren /\ Receipted
    /\ \A t \in Task : FitsIn(task[t].st, task[t].events)
    /\ \A t \in Task : task[t].st = "none" => task[t] = T!NoTaskRow

\* An execution that may still start its process or call a tool.
AtWork(t) == x[t].pc = "permit" \/ x[t].cap
Quiet(t) == ~x[t].proc /\ x[t].tool = "none"

\* It is the one that the ledger tf has, and no request of an execution that was given up ends it.
Agree(tf) ==
    /\ \A t \in Task :
         /\ x[t].epoch <= tf[t].epoch
         /\ AtWork(t) => tf[t].st \in {"running", "cancel_requested"} /\ x[t].epoch = tf[t].epoch
    /\ \A r \in late : r.do \in Ending =>
         /\ r.epoch <= tf[r.t].epoch
         /\ r.epoch = tf[r.t].epoch => ~AtWork(r.t) /\ (r.do = "stopped" => Quiet(r.t))

\* What an execution has at each of its steps.
ShapeOf(y) ==
    /\ y.cap => y.pc \in {"open", "permit2", "prompt", "revoke", "fail"}
    /\ y.pc \in {"idle", "permit"} => ~y.proc
    /\ y.pc \in {"stop", "report"} => ~y.proc /\ y.tool = "none"
    /\ y.pc \in {"settle", "wait", "complete"} => y.tool = "none"
Shapes == \A t \in Task : ShapeOf(x[t])

TasksInv == TasksTypeOK /\ LedgerInv /\ Agree(task) /\ Shapes

LEMMA TaskDomain ==
  ASSUME NEW t \in Task, Parent[t] # NoTask
  PROVE  Parent[t] \in Task
  BY TasksAssumption

LEMMA RequeuedRow ==
  ASSUME NEW r \in TaskRows
  PROVE  /\ r.events \in Nat
         /\ [r EXCEPT !.st = "queued", !.events = @ + 1] \in TaskRows
         /\ [r EXCEPT !.st = "queued", !.events = @ + 1].st = "queued"
         /\ [r EXCEPT !.st = "queued", !.events = @ + 1].events = r.events + 1
         /\ [r EXCEPT !.st = "queued", !.events = @ + 1].epoch = r.epoch
         /\ [r EXCEPT !.events = @ + 1] \in TaskRows
         /\ [r EXCEPT !.events = @ + 1].st = r.st
         /\ [r EXCEPT !.events = @ + 1].events = r.events + 1
         /\ [r EXCEPT !.events = @ + 1].epoch = r.epoch
<1>1. r.events + 1 \in Nat
  BY DEF TaskRows
<1> QED BY <1>1 DEF TaskRows

\* saveTask and resumeParent, seen from every row.
LEMMA SavedRows ==
  ASSUME TasksTypeOK, NEW t \in Task, NEW row \in TaskRows
  PROVE  /\ T!Saved(t, row) \in [Task -> TaskRows]
         /\ T!Saved(t, row)[t].st = row.st
         /\ T!Saved(t, row)[t].events = row.events + 1
         /\ T!Saved(t, row)[t].epoch = row.epoch
         /\ \A u \in Task : u # t =>
              \/ T!Saved(t, row)[u] = task[u]
              \/ /\ task[u].st = "waiting" /\ T!Saved(t, row)[u].st = "queued"
                 /\ T!Saved(t, row)[u].events = task[u].events + 1
                 /\ T!Saved(t, row)[u].epoch = task[u].epoch
<1> DEFINE s == T!Saved(t, row)
<1> DEFINE tf == [task EXCEPT ![t] = [row EXCEPT !.events = @ + 1]]
<1> DEFINE p == Parent[t]
<1> DEFINE resumed == [tf EXCEPT ![p].st = "queued", ![p].events = @ + 1]
<1>1. /\ tf \in [Task -> TaskRows] /\ tf[t].st = row.st /\ tf[t].events = row.events + 1
      /\ tf[t].epoch = row.epoch
      /\ \A u \in Task : u # t => tf[u] = task[u]
  BY RequeuedRow DEF TasksTypeOK
<1>2. s = T!Resumed(tf, t)
  BY DEF T!Saved
<1> HIDE DEF tf, s
<1>3. CASE tf[t].st \in T!Terminal /\ p # NoTask /\ tf[p].st = "waiting" /\ T!AllEnded(tf, p)
  <2>1. s = resumed
    BY <1>2, <1>3 DEF T!Resumed
  <2>2. p \in Task /\ p # t
    BY <1>3, TaskDomain DEF T!Terminal
  <2> DEFINE y == [tf[p] EXCEPT !.st = "queued", !.events = @ + 1]
  <2>a. tf[p] \in TaskRows
    BY <1>1, <2>2
  <2>b. y \in TaskRows
    BY <2>a, RequeuedRow
  <2>c. resumed = [tf EXCEPT ![p] = y]
    BY <1>1, <2>2
  <2> HIDE DEF y, resumed
  <2>3. /\ resumed \in [Task -> TaskRows] /\ resumed[p] = y
        /\ \A u \in Task : u # p => resumed[u] = tf[u]
    BY <1>1, <2>2, <2>b, <2>c
  <2>4. y.st = "queued" /\ y.events = tf[p].events + 1 /\ y.epoch = tf[p].epoch
    BY <2>a, RequeuedRow DEF y
  <2> QED BY <1>1, <1>3, <2>1, <2>2, <2>3, <2>4 DEF s
<1>4. CASE ~(tf[t].st \in T!Terminal /\ p # NoTask /\ tf[p].st = "waiting" /\ T!AllEnded(tf, p))
  BY <1>1, <1>2, <1>4 DEF T!Resumed, s
<1> QED BY <1>3, <1>4 DEF s

LEMMA SavedOther ==
  ASSUME TasksTypeOK, NEW t \in Task, NEW row \in TaskRows, NEW u \in Task, u # t
  PROVE  \/ T!Saved(t, row)[u] = task[u]
         \/ /\ task[u].st = "waiting" /\ T!Saved(t, row)[u].st = "queued"
            /\ T!Saved(t, row)[u].events = task[u].events + 1
            /\ T!Saved(t, row)[u].epoch = task[u].epoch
  BY SavedRows

\* The parent of the last child that ends is queued with it.
LEMMA SavedWaits ==
  ASSUME TasksTypeOK, T!WaitingHasChildren, NEW t \in Task, NEW row \in TaskRows, row.st # "none",
         row.st = "waiting" => ~T!AllEnded(task, t),
         NEW w \in Task, T!Saved(t, row)[w].st = "waiting"
  PROVE  ~T!AllEnded(T!Saved(t, row), w)
<1> DEFINE s == T!Saved(t, row)
<1> DEFINE tf == [task EXCEPT ![t] = [row EXCEPT !.events = @ + 1]]
<1>1. /\ s \in [Task -> TaskRows] /\ s[t].st = row.st
      /\ \A u \in Task : u # t => s[u] = task[u] \/ (task[u].st = "waiting" /\ s[u].st = "queued")
  <2>1. s \in [Task -> TaskRows] /\ s[t].st = row.st
    BY SavedRows
  <2>2. ASSUME NEW u \in Task, u # t
        PROVE  s[u] = task[u] \/ (task[u].st = "waiting" /\ s[u].st = "queued")
    BY <2>2, SavedOther
  <2> QED BY <2>1, <2>2
<1>2. ~T!AllEnded(task, w)
  BY <1>1 DEF T!WaitingHasChildren, TasksTypeOK, TaskRows
<1>3. PICK c \in Task : Parent[c] = w /\ task[c].st # "none" /\ task[c].st \notin T!Terminal
  BY <1>2 DEF T!AllEnded, T!Children
<1>4. CASE s[c].st # "none" /\ s[c].st \notin T!Terminal
  BY <1>3, <1>4 DEF T!AllEnded, T!Children
<1>5. CASE ~(s[c].st # "none" /\ s[c].st \notin T!Terminal)
  <2>1. c = t /\ row.st \in T!Terminal
    BY <1>1, <1>3, <1>5 DEF T!Terminal, TasksTypeOK, TaskRows
  <2>2. w # t
    BY <1>1, <2>1 DEF T!Terminal
  <2>3. tf[t].st = row.st /\ tf[w] = task[w] /\ s = T!Resumed(tf, t)
    BY <2>2 DEF TasksTypeOK, TaskRows, T!Saved
  <2>4. task[w].st = "waiting"
    BY <1>1, <2>2 DEF TasksTypeOK, TaskRows
  <2>5. w # NoTask
    BY TasksAssumption
  <2>6. CASE T!AllEnded(tf, w)
    <3> HIDE DEF tf
    <3>1. s = [tf EXCEPT ![w].st = "queued", ![w].events = @ + 1]
      BY <1>3, <2>1, <2>3, <2>4, <2>5, <2>6 DEF T!Resumed
    <3>2. tf \in [Task -> TaskRows]
      BY DEF tf, TasksTypeOK, TaskRows
    <3> QED BY <3>1, <3>2 DEF TaskRows
  <2>7. CASE ~T!AllEnded(tf, w)
    <3> HIDE DEF tf
    <3>1. s = tf
      BY <1>3, <2>1, <2>3, <2>7 DEF T!Resumed
    <3> QED BY <2>7, <3>1
  <2> QED BY <2>6, <2>7
<1> QED BY <1>4, <1>5

LEMMA TwoCounts ==
  ASSUME NEW A \in SUBSET Task, NEW A2 \in SUBSET Task, NEW B \in SUBSET Task, NEW B2 \in SUBSET Task,
         A \subseteq A2, B \subseteq B2
  PROVE  /\ Cardinality(A) \in Nat /\ Cardinality(B) \in Nat
         /\ Cardinality(A2) \in Nat /\ Cardinality(B2) \in Nat
         /\ Cardinality(A) <= Cardinality(A2) /\ Cardinality(B) <= Cardinality(B2)
         /\ A # A2 => Cardinality(A) < Cardinality(A2)
         /\ B # B2 => Cardinality(B) < Cardinality(B2)
<1>1. IsFiniteSet(A2) /\ IsFiniteSet(B2)
  BY TasksAssumption, FS_Subset
<1> QED BY <1>1, FS_Subset, FS_CardinalityType

\* saveTask as a step.
Saves(t, row) == task' = T!Saved(t, row)

LEMMA SavedFields ==
  ASSUME TasksTypeOK, NEW t \in Task, NEW row \in TaskRows, Saves(t, row)
  PROVE  /\ task' \in [Task -> TaskRows]
         /\ task'[t].st = row.st /\ task'[t].events = row.events + 1 /\ task'[t].epoch = row.epoch
         /\ \A u \in Task : u # t =>
              \/ task'[u] = task[u]
              \/ /\ task[u].st = "waiting" /\ task'[u].st = "queued"
                 /\ task'[u].events = task[u].events + 1 /\ task'[u].epoch = task[u].epoch
<1>1. /\ task' \in [Task -> TaskRows]
      /\ task'[t].st = row.st /\ task'[t].events = row.events + 1 /\ task'[t].epoch = row.epoch
  BY SavedRows DEF Saves
<1>2. ASSUME NEW u \in Task, u # t
      PROVE  \/ task'[u] = task[u]
             \/ /\ task[u].st = "waiting" /\ task'[u].st = "queued"
                /\ task'[u].events = task[u].events + 1 /\ task'[u].epoch = task[u].epoch
  BY <1>2, SavedOther DEF Saves
<1> QED BY <1>1, <1>2

\* One row is saved: the ledger stays in order if the change of this row is.
LEMMA SavedLedger ==
  ASSUME TasksTypeOK, LedgerInv, NEW t \in Task, NEW row \in TaskRows,
         Saves(t, row), requests' = requests + 1,
         row.st # "none", FitsIn(row.st, row.events + 1),
         row.st = "waiting" => ~T!AllEnded(task, t),
         row.st \in {"running", "cancel_requested"} =>
             Going(t) \/ \A u \in Task : u # t /\ Assignee[u] = Assignee[t] => ~Going(u),
         \/ requests < MaxRequests
         \/ /\ task[t].st \notin T!Terminal
            /\ row.st \in T!Terminal \/ (task[t].st = "running" /\ row.st # "running")
            /\ task[t].st # "running" => row.st # "running"
  PROVE  LedgerInv'
<1>1. task' \in [Task -> TaskRows]
  BY SavedFields
<1>2. /\ \A u \in Task : task[u] \in TaskRows /\ task[u].events \in Nat
      /\ row.events \in Nat
  BY RequeuedRow DEF TasksTypeOK
<1>3. /\ task'[t].st = row.st /\ task'[t].events = row.events + 1
      /\ \A u \in Task : u # t =>
           \/ task'[u] = task[u]
           \/ task[u].st = "waiting" /\ task'[u].st = "queued" /\ task'[u].events = task[u].events + 1
  BY SavedFields
<1>4. OneGoing'
  <2> SUFFICES ASSUME NEW u \in Task, NEW v \in Task, u # v, Assignee[u] = Assignee[v], Going(u)', Going(v)'
               PROVE  FALSE
    BY DEF OneGoing
  <2>1. \A w \in Task : w # t /\ Going(w)' => Going(w)
    BY <1>3 DEF Going
  <2>2. CASE u # t /\ v # t
    BY <2>1, <2>2 DEF LedgerInv, OneGoing
  <2>3. CASE u = t
    BY <1>3, <2>1, <2>3 DEF LedgerInv, OneGoing, Going
  <2>4. CASE v = t
    BY <1>3, <2>1, <2>4 DEF LedgerInv, OneGoing, Going
  <2> QED BY <2>2, <2>3, <2>4
<1>5. T!WaitingHasChildren'
  <2> SUFFICES ASSUME NEW w \in Task, task'[w].st = "waiting"
               PROVE  ~T!AllEnded(task', w)
    BY DEF T!WaitingHasChildren
  <2> QED
    <3>1. T!WaitingHasChildren
      BY DEF LedgerInv
    <3>2. task' = T!Saved(t, row)
      BY DEF Saves
    <3>3. T!Saved(t, row)[w].st = "waiting"
      BY <3>2
    <3>4. ~T!AllEnded(T!Saved(t, row), w)
      BY <3>1, <3>3, SavedWaits
    <3> QED BY <3>2, <3>4
<1>6. Receipted'
  <2>1. /\ Over \in SUBSET Task /\ Over' \in SUBSET Task /\ Still \in SUBSET Task /\ Still' \in SUBSET Task
        /\ requests \in Nat /\ MaxRequests \in Nat
    BY TasksAssumption DEF Over, Still, TasksTypeOK
  <2>2. CASE requests < MaxRequests
    <3>1. Cardinality(Over') \in Nat /\ Cardinality(Still') \in Nat
      BY <2>1, TwoCounts
    <3> QED BY <2>1, <2>2, <3>1 DEF Receipted
  <2>3. CASE ~(requests < MaxRequests)
    <3>1. Over \subseteq Over' /\ Still \subseteq Still'
      BY <1>3, <2>3 DEF Over, Still, T!Terminal
    <3>2. Over # Over' \/ Still # Still'
      BY <1>3, <2>3 DEF Over, Still, T!Terminal
    <3> HIDE DEF Over, Still
    <3>3. /\ Cardinality(Over) \in Nat /\ Cardinality(Still) \in Nat
          /\ Cardinality(Over') \in Nat /\ Cardinality(Still') \in Nat
          /\ Cardinality(Over) <= Cardinality(Over') /\ Cardinality(Still) <= Cardinality(Still')
          /\ Over # Over' => Cardinality(Over) < Cardinality(Over')
          /\ Still # Still' => Cardinality(Still) < Cardinality(Still')
      BY <2>1, <3>1, TwoCounts
    <3> QED BY <2>1, <3>2, <3>3 DEF Receipted, LedgerInv
  <2> QED BY <2>2, <2>3
<1>7. \A u \in Task : FitsIn(task'[u].st, task'[u].events)
  <2> SUFFICES ASSUME NEW u \in Task PROVE FitsIn(task'[u].st, task'[u].events)
    OBVIOUS
  <2>1. FitsIn(task[u].st, task[u].events) /\ MaxEvents \in Nat
    BY TasksAssumption DEF LedgerInv
  <2> QED BY <1>2, <1>3, <2>1 DEF FitsIn
<1>8. \A u \in Task : task'[u].st = "none" => task'[u] = T!NoTaskRow
  BY <1>3 DEF LedgerInv
<1> QED BY <1>4, <1>5, <1>6, <1>7, <1>8 DEF LedgerInv

LEMMA MovedRow ==
  ASSUME NEW r \in TaskRows, NEW st \in {"queued", "waiting"} \cup T!Terminal
  PROVE  LET m == [r EXCEPT !.st = st, !.lease = FALSE] IN
         m \in TaskRows /\ m.st = st /\ m.events = r.events /\ m.epoch = r.epoch
  BY DEF TaskRows

LEMMA ClaimedRow ==
  ASSUME NEW r \in TaskRows
  PROVE  LET m == [r EXCEPT !.st = "running", !.epoch = @ + 1, !.lease = TRUE] IN
         m \in TaskRows /\ m.st = "running" /\ m.events = r.events /\ m.epoch = r.epoch + 1
<1>1. r.epoch + 1 \in Nat
  BY DEF TaskRows
<1> QED BY <1>1 DEF TaskRows

\* What a saved row leaves of the agreement between ledger and runners.
LEMMA SavedAgree ==
  ASSUME TasksInv, NEW t \in Task, NEW row \in TaskRows, Saves(t, row), row.epoch >= task[t].epoch,
         AtWork(t) => row.st \in {"running", "cancel_requested"} /\ row.epoch = task[t].epoch
  PROVE  Agree(task')
<1>1. /\ \A u \in Task : task[u].epoch \in Nat /\ x[u].epoch \in Nat
      /\ \A r \in late : r.t \in Task /\ r.epoch \in Nat
      /\ row.epoch \in Nat
  BY DEF TasksInv, TasksTypeOK, TaskRows, RunRows, Requests
<1>2. /\ task'[t].st = row.st /\ task'[t].epoch = row.epoch
      /\ \A u \in Task : u # t =>
           \/ task'[u] = task[u]
           \/ task[u].st = "waiting" /\ task'[u].epoch = task[u].epoch
  BY SavedFields DEF TasksInv
<1>3. Agree(task)
  BY DEF TasksInv
<1>4. ASSUME NEW u \in Task
      PROVE  /\ x[u].epoch <= task'[u].epoch
             /\ AtWork(u) => task'[u].st \in {"running", "cancel_requested"} /\ x[u].epoch = task'[u].epoch
  BY <1>1, <1>2, <1>3 DEF Agree
<1>5. ASSUME NEW r \in late, r.do \in Ending
      PROVE  /\ r.epoch <= task'[r.t].epoch
             /\ r.epoch = task'[r.t].epoch => ~AtWork(r.t) /\ (r.do = "stopped" => Quiet(r.t))
  <2>1. CASE r.t = t
    BY <1>1, <1>2, <1>3, <1>5, <2>1 DEF Agree
  <2>2. CASE r.t # t
    BY <1>1, <1>2, <1>3, <1>5, <2>2 DEF Agree
  <2> QED BY <2>1, <2>2
<1> QED BY <1>4, <1>5 DEF Agree

\* A request that the ledger serves.
Serves(r) == ~T!Refuses(r) /\ T!Effect(r)

Reaches(r) ==
    /\ task' \in [Task -> TaskRows] /\ rev' \in Nat /\ requests' \in Nat /\ room' = room
    /\ LedgerInv' /\ Agree(task')
    /\ \A u \in Task : Going(u) /\ task'[u].st = "cancelled" =>
          u = r.t /\ r.do = "stopped" /\ r.epoch = task[u].epoch
    /\ r.do = "claim" => task'[r.t].epoch = task[r.t].epoch + 1 /\ task'[r.t].st = "running"

\* A row that is saved reaches the ledger in order.
LEMMA SavedReaches ==
  ASSUME TasksInv, NEW r \in Requests, NEW row \in TaskRows, Saves(r.t, row), requests' = requests + 1,
         rev' \in Nat, room' = room, LedgerInv', row.epoch >= task[r.t].epoch,
         AtWork(r.t) => row.st \in {"running", "cancel_requested"} /\ row.epoch = task[r.t].epoch,
         row.st = "cancelled" => r.do = "stopped" /\ r.epoch = task[r.t].epoch,
         r.do = "claim" => row.epoch = task[r.t].epoch + 1 /\ row.st = "running"
  PROVE  Reaches(r)
<1>1. r.t \in Task
  BY DEF Requests
<1>2. /\ task' \in [Task -> TaskRows]
      /\ task'[r.t].st = row.st /\ task'[r.t].epoch = row.epoch
      /\ \A u \in Task : u # r.t => task'[u] = task[u] \/ (task[u].st = "waiting" /\ task'[u].st = "queued")
  BY <1>1, SavedFields DEF TasksInv
<1>3. Agree(task')
  BY <1>1, SavedAgree
<1>4. requests' \in Nat
  BY DEF TasksInv, TasksTypeOK
<1> QED BY <1>1, <1>2, <1>3, <1>4 DEF Reaches, Going

LEMMA ViewActive ==
  ASSUME TasksTypeOK, NEW t \in Task
  PROVE  T!View(t) \in T!Active <=> Going(t)
  BY DEF T!View, T!Active, T!Terminal, Going, TasksTypeOK, TaskRows

LEMMA ClaimReaches ==
  ASSUME TasksInv, NEW r \in Requests, r.do = "claim", Serves(r)
  PROVE  Reaches(r)
<1> DEFINE t == r.t
<1> DEFINE row == [task[t] EXCEPT !.st = "running", !.epoch = @ + 1, !.lease = TRUE]
<1>1. /\ t \in Task /\ task[t] \in TaskRows /\ requests \in Nat /\ rev \in Nat
      /\ task[t].events \in Nat /\ task[t].epoch \in Nat
  BY DEF Requests, TasksInv, TasksTypeOK, TaskRows
<1>2. row \in TaskRows /\ row.st = "running" /\ row.events = task[t].events /\ row.epoch = task[t].epoch + 1
  BY <1>1, ClaimedRow
<1>3. /\ T!CanClaim(t) /\ task' = T!Claimed(t) /\ requests' = requests + 1 /\ rev' = rev /\ room' = room
  BY DEF Serves, T!Refuses, T!Effect, T!Counted
<1>4. Saves(t, row)
  BY <1>3 DEF Saves, T!Claimed
<1>5. /\ task[t].st = "queued" /\ requests < MaxRequests /\ task[t].events < MaxEvents - 2
      /\ \A u \in Task : Assignee[u] = Assignee[t] => ~Going(u)
  <2>1. ASSUME NEW u \in Task, Assignee[u] = Assignee[t] PROVE ~Going(u)
    BY <1>3, <2>1, ViewActive DEF T!CanClaim, T!SessionFree, TasksInv
  <2> QED BY <1>3, <2>1 DEF T!CanClaim, T!Fits, T!ClaimLimit, T!Admitted
<1>6. ~AtWork(t)
  BY <1>1, <1>5 DEF TasksInv, Agree
<1> HIDE DEF row, t
<1>7. LedgerInv'
  <2>1. FitsIn(row.st, row.events + 1)
    BY <1>1, <1>2, <1>5, TasksAssumption DEF FitsIn
  <2> QED BY <1>1, <1>2, <1>3, <1>4, <1>5, <2>1, SavedLedger DEF TasksInv
<1> QED BY <1>1, <1>2, <1>3, <1>4, <1>5, <1>6, <1>7, SavedReaches DEF t

LEMMA RenewReaches ==
  ASSUME TasksInv, NEW r \in Requests, r.do = "renew", Serves(r)
  PROVE  Reaches(r)
<1>1. UNCHANGED <<task, rev, requests, room>>
  BY DEF Serves, T!Effect
<1>2. LedgerInv'
  BY <1>1 DEF TasksInv, LedgerInv, OneGoing, Going, T!WaitingHasChildren, T!AllEnded, T!Children,
              Receipted, Over, Still
<1> QED BY <1>1, <1>2 DEF Reaches, TasksInv, TasksTypeOK, Going

LEMMA DelegateReaches ==
  ASSUME TasksInv, NEW r \in Requests, r.do = "delegate", Serves(r)
  PROVE  Reaches(r)
<1> DEFINE t == r.t
<1> DEFINE row == [T!NoTaskRow EXCEPT !.st = "queued"]
<1>1. t \in Task /\ requests \in Nat /\ rev \in Nat
  BY DEF Requests, TasksInv, TasksTypeOK
<1>2. row \in TaskRows /\ row.st = "queued" /\ row.events = 0 /\ row.epoch = 0
  BY DEF T!NoTaskRow, TaskRows
<1>3. T!CanDelegate(t) /\ task' = T!Delegated(t) /\ requests' = requests + 1 /\ rev' = rev /\ room' = room
  BY DEF Serves, T!Refuses, T!Effect, T!Counted
<1>4. Saves(t, row)
  BY <1>3 DEF Saves, T!Delegated
<1>5. task[t].st = "none" /\ requests < MaxRequests
  BY <1>3 DEF T!CanDelegate, T!Admitted
<1>6. task[t].epoch = 0 /\ ~AtWork(t)
  BY <1>1, <1>5 DEF TasksInv, LedgerInv, Agree, T!NoTaskRow
<1> HIDE DEF row, t
<1>7. LedgerInv'
  <2>1. FitsIn(row.st, row.events + 1)
    BY <1>2, TasksAssumption DEF FitsIn
  <2> QED BY <1>1, <1>2, <1>3, <1>4, <1>5, <2>1, SavedLedger DEF TasksInv
<1> QED BY <1>1, <1>2, <1>3, <1>4, <1>6, <1>7, SavedReaches DEF t

LEMMA WaitReaches ==
  ASSUME TasksInv, NEW r \in Requests, r.do = "wait", Serves(r), r.epoch = task[r.t].epoch => ~AtWork(r.t)
  PROVE  Reaches(r)
<1> DEFINE t == r.t
<1> DEFINE st == IF T!AllEnded(task, t) THEN "queued" ELSE "waiting"
<1> DEFINE row == [task[t] EXCEPT !.st = st, !.lease = FALSE]
<1>1. /\ t \in Task /\ task[t] \in TaskRows /\ requests \in Nat /\ rev \in Nat
      /\ task[t].events \in Nat /\ task[t].epoch \in Nat
  BY DEF Requests, TasksInv, TasksTypeOK, TaskRows
<1>6. st \in {"queued", "waiting"} /\ (st = "waiting" => ~T!AllEnded(task, t))
  OBVIOUS
<1>2. row \in TaskRows /\ row.st = st /\ row.events = task[t].events /\ row.epoch = task[t].epoch
  <2> HIDE DEF st
  <2> QED BY <1>1, <1>6, MovedRow
<1>3. T!CanWait(t, r.epoch) /\ task' = T!Waiting(t) /\ requests' = requests + 1 /\ rev' = rev /\ room' = room
  BY DEF Serves, T!Refuses, T!Effect, T!Counted
<1>4. Saves(t, row)
  BY <1>3 DEF Saves, T!Waiting
<1>5. task[t].epoch = r.epoch /\ requests < MaxRequests /\ task[t].events < MaxEvents - 5
  BY <1>3 DEF T!CanWait, T!Holds, T!Admitted, T!Fits, T!WaitLimit
<1> HIDE DEF row, t, st
<1>7. LedgerInv'
  <2>1. FitsIn(row.st, row.events + 1)
    BY <1>1, <1>2, <1>5, <1>6, TasksAssumption DEF FitsIn
  <2> QED BY <1>1, <1>2, <1>3, <1>4, <1>5, <1>6, <2>1, SavedLedger DEF TasksInv
<1> QED BY <1>1, <1>2, <1>3, <1>4, <1>5, <1>6, <1>7, SavedReaches DEF t

\* complete, fail and stopped end a task that the ledger has at work.
LEMMA EndReaches ==
  ASSUME TasksInv, NEW r \in Requests, r.epoch = task[r.t].epoch, ~AtWork(r.t), Going(r.t),
         NEW st \in T!Terminal, st = "cancelled" => r.do = "stopped", r.do # "claim",
         FitsIn("queued", task[r.t].events), task' = T!Ended(r.t, st), requests' = requests + 1,
         rev' \in Nat, room' = room
  PROVE  Reaches(r)
<1> DEFINE t == r.t
<1> DEFINE row == [task[t] EXCEPT !.st = st, !.lease = FALSE]
<1>1. /\ t \in Task /\ task[t] \in TaskRows /\ requests \in Nat
      /\ task[t].events \in Nat /\ task[t].epoch \in Nat
  BY DEF Requests, TasksInv, TasksTypeOK, TaskRows
<1>2. row \in TaskRows /\ row.st = st /\ row.events = task[t].events /\ row.epoch = task[t].epoch
  BY <1>1, MovedRow
<1>3. Saves(t, row)
  BY DEF Saves, T!Ended
<1>4. task[t].st \notin T!Terminal /\ st # "none" /\ st \notin {"running", "cancel_requested", "waiting"}
  BY DEF Going, T!Terminal
<1>5. FitsIn(row.st, row.events + 1)
  BY <1>2, <1>4, TasksAssumption DEF FitsIn, T!Terminal
<1> HIDE DEF row, t
<1>6. LedgerInv'
  BY <1>1, <1>2, <1>3, <1>4, <1>5, SavedLedger DEF TasksInv
<1> QED BY <1>1, <1>2, <1>3, <1>6, SavedReaches DEF t

LEMMA CompleteReaches ==
  ASSUME TasksInv, NEW r \in Requests, r.do \in {"complete", "fail"}, Serves(r),
         r.epoch = task[r.t].epoch => ~AtWork(r.t)
  PROVE  Reaches(r)
<1> DEFINE st == IF r.do = "complete" THEN "completed" ELSE "failed"
<1>1. r.t \in Task /\ rev \in Nat
  BY DEF Requests, TasksInv, TasksTypeOK
<1>2. /\ T!CanComplete(r.t, r.epoch) /\ task' = T!Ended(r.t, st) /\ requests' = requests + 1 /\ room' = room
      /\ rev' \in {rev, rev + 1}
  BY DEF Serves, T!Refuses, T!Effect, T!Counted
<1>3. st \in T!Terminal /\ st # "cancelled" /\ r.do # "claim"
  BY DEF T!Terminal
<1>4. r.epoch = task[r.t].epoch /\ Going(r.t) /\ FitsIn("queued", task[r.t].events)
  BY <1>2 DEF T!CanComplete, T!Holds, T!View, T!Fits, Going, FitsIn
<1>5. rev' \in Nat
  BY <1>1, <1>2
<1> HIDE DEF st
<1> QED BY <1>2, <1>3, <1>4, <1>5, EndReaches

LEMMA StoppedReaches ==
  ASSUME TasksInv, NEW r \in Requests, r.do = "stopped", Serves(r), r.epoch = task[r.t].epoch => ~AtWork(r.t)
  PROVE  Reaches(r)
<1>1. r.t \in Task /\ rev \in Nat
  BY DEF Requests, TasksInv, TasksTypeOK
<1>2. /\ T!CanStop(r.t, r.epoch) /\ task' = T!Ended(r.t, "cancelled") /\ requests' = requests + 1
      /\ room' = room /\ rev' = rev
  BY DEF Serves, T!Refuses, T!Effect, T!Counted
<1>3. r.epoch = task[r.t].epoch /\ Going(r.t) /\ FitsIn("queued", task[r.t].events)
  BY <1>1, <1>2, ViewActive DEF T!CanStop, T!Fits, FitsIn, TasksInv
<1> QED BY <1>1, <1>2, <1>3, EndReaches DEF T!Terminal

\* What a request does to the ledger when it is served.
LEMMA EffectReaches ==
  ASSUME TasksInv, NEW r \in Requests, Serves(r),
         r.do \in Ending /\ r.epoch = task[r.t].epoch => ~AtWork(r.t)
  PROVE  Reaches(r)
<1>1. r.do \in {"claim", "renew", "delegate", "wait", "complete", "fail", "stopped"}
  BY DEF Requests, Ending
<1> QED BY <1>1, ClaimReaches, RenewReaches, DelegateReaches, WaitReaches, CompleteReaches, StoppedReaches
        DEF Ending

\* A step of an execution that is at work, or of one that is not: x[t] becomes y.
Works(y)  == y.pc = "permit" \/ y.cap
Silent(y) == ~y.proc /\ y.tool = "none"

Moves(t, y) ==
    /\ x' = [x EXCEPT ![t] = y] /\ y \in RunRows /\ ShapeOf(y)
    /\ y.epoch \in {0, x[t].epoch}
    /\ Works(y) => AtWork(t) /\ y.epoch = x[t].epoch
    /\ Quiet(t) /\ ~AtWork(t) => Silent(y)
    /\ y.tool = "sent" => x[t].tool = "sent" \/ x[t].cap

\* It gives up requests of its own, none that ends the task while it is at work.
GivesUp(t, y) == \A r \in late' : r \notin late =>
    /\ r \in Requests
    /\ r.do \in Ending => r.t = t /\ r.epoch = x[t].epoch /\ ~Works(y) /\ (r.do = "stopped" => Silent(y))

EndsQuietly == \A u \in Task : Going(u) /\ task'[u].st = "cancelled" => ~x[u].proc /\ x[u].tool # "sent"
SendsAtWork == \A u \in Task : x[u].tool # "sent" /\ x'[u].tool = "sent" =>
                  Going(u) /\ task[u].epoch = x[u].epoch

\* What every step does to the ledger, and what it does to everything.
LedgerMoves ==
    /\ task' \in [Task -> TaskRows] /\ rev' \in Nat /\ requests' \in Nat
    /\ room' \in [paused : BOOLEAN, members : SUBSET T!Agent]
    /\ LedgerInv' /\ Agree(task') /\ EndsQuietly
Keeps == TasksInv' /\ EndsQuietly /\ SendsAtWork

LEMMA LedgerStays ==
  ASSUME TasksInv, UNCHANGED <<task, requests, rev>>, room' \in [paused : BOOLEAN, members : SUBSET T!Agent]
  PROVE  LedgerMoves
<1>1. LedgerInv'
  BY DEF TasksInv, LedgerInv, OneGoing, Going, T!WaitingHasChildren, T!AllEnded, T!Children,
         Receipted, Over, Still
<1> QED BY <1>1 DEF LedgerMoves, EndsQuietly, TasksInv, TasksTypeOK, Going

LEMMA RunnerStep ==
  ASSUME TasksInv, LedgerMoves, NEW t \in Task, NEW y, Moves(t, y), GivesUp(t, y)
  PROVE  Keeps
<1>1. /\ x \in [Task -> RunRows] /\ late \subseteq Requests /\ task' \in [Task -> TaskRows]
      /\ task \in [Task -> TaskRows]
      /\ Agree(task) /\ Agree(task') /\ Shapes
  BY DEF TasksInv, TasksTypeOK, LedgerMoves
<1>2. /\ x' \in [Task -> RunRows] /\ x'[t] = y /\ \A u \in Task : u # t => x'[u] = x[u]
  BY <1>1 DEF Moves
<1>3. /\ y.epoch \in {0, x[t].epoch} /\ ShapeOf(y)
      /\ Works(y) => AtWork(t) /\ y.epoch = x[t].epoch
      /\ Quiet(t) /\ ~AtWork(t) => Silent(y)
      /\ y.tool = "sent" => x[t].tool = "sent" \/ x[t].cap
  BY DEF Moves
<1>4. \A u \in Task : x[u].epoch \in Nat /\ task'[u].epoch \in Nat /\ task[u].epoch \in Nat
  BY <1>1 DEF RunRows, TaskRows
<1>5. late' \subseteq Requests
  BY <1>1 DEF GivesUp
<1>6. Shapes'
  BY <1>1, <1>2, <1>3 DEF Shapes
<1>7. ASSUME NEW u \in Task
      PROVE  /\ x'[u].epoch <= task'[u].epoch
             /\ AtWork(u)' => task'[u].st \in {"running", "cancel_requested"} /\ x'[u].epoch = task'[u].epoch
  <2>1. /\ x[u].epoch <= task'[u].epoch
        /\ AtWork(u) => task'[u].st \in {"running", "cancel_requested"} /\ x[u].epoch = task'[u].epoch
    BY <1>1 DEF Agree
  <2>2. CASE u = t
    BY <1>2, <1>3, <1>4, <2>1, <2>2 DEF AtWork, Works
  <2>3. CASE u # t
    BY <1>2, <2>1, <2>3 DEF AtWork
  <2> QED BY <2>2, <2>3
<1>8. ASSUME NEW r \in late', r.do \in Ending
      PROVE  /\ r.epoch <= task'[r.t].epoch
             /\ r.epoch = task'[r.t].epoch => ~AtWork(r.t)' /\ (r.do = "stopped" => Quiet(r.t)')
  <2>0. r.t \in Task
    BY <1>5 DEF Requests
  <2>1. CASE r \in late
    <3>1. /\ r.epoch <= task'[r.t].epoch
          /\ r.epoch = task'[r.t].epoch => ~AtWork(r.t) /\ (r.do = "stopped" => Quiet(r.t))
      BY <1>1, <1>8, <2>1 DEF Agree
    <3>2. CASE r.t = t
      BY <1>2, <1>3, <3>1, <3>2 DEF AtWork, Works, Quiet, Silent
    <3>3. CASE r.t # t
      BY <1>2, <2>0, <3>1, <3>3 DEF AtWork, Quiet
    <3> QED BY <3>2, <3>3
  <2>2. CASE r \notin late
    <3>1. r.t = t /\ r.epoch = x[t].epoch /\ ~Works(y) /\ (r.do = "stopped" => Silent(y))
      BY <1>8, <2>2 DEF GivesUp
    <3>2. x[t].epoch <= task'[t].epoch
      BY <1>1 DEF Agree
    <3> QED BY <1>2, <3>1, <3>2 DEF AtWork, Works, Quiet, Silent
  <2> QED BY <2>1, <2>2
<1>9. Agree(task)'
  BY <1>7, <1>8 DEF Agree
<1>10. SendsAtWork
  <2> SUFFICES ASSUME NEW u \in Task, x[u].tool # "sent", x'[u].tool = "sent"
               PROVE  Going(u) /\ task[u].epoch = x[u].epoch
    BY DEF SendsAtWork
  <2>1. AtWork(u)
    BY <1>2, <1>3 DEF AtWork
  <2> QED BY <1>1, <2>1 DEF Agree, Going
<1> QED BY <1>2, <1>5, <1>6, <1>9, <1>10 DEF Keeps, LedgerMoves, TasksInv, TasksTypeOK

\* A step that says nothing to the ledger.
LEMMA LocalStep ==
  ASSUME TasksInv, UNCHANGED <<room, task, rev, requests, late>>, NEW t \in Task, NEW y, Moves(t, y)
  PROVE  Keeps
<1>1. room' \in [paused : BOOLEAN, members : SUBSET T!Agent]
  BY DEF TasksInv, TasksTypeOK
<1>2. LedgerMoves
  BY <1>1, LedgerStays
<1>3. GivesUp(t, y)
  BY DEF GivesUp
<1> QED BY <1>2, <1>3, RunnerStep

LEMMA RunTypes ==
  ASSUME TasksInv, NEW t \in Task
  PROVE  x[t] \in RunRows /\ ShapeOf(x[t]) /\ T!NoRun \in RunRows
  BY DEF TasksInv, TasksTypeOK, Shapes, T!NoRun, RunRows, RunSteps

\* An execution that fails keeps its tools until they are revoked.
LEMMA FailMoves ==
  ASSUME TasksInv, NEW t \in Task, NEW why \in {"revoked", "error", "lost", "unknown"},
         T!Move(t, T!Failing(t, why)), ~T!At(t, "permit")
  PROVE  Moves(t, T!Failing(t, why))
  BY RunTypes DEF Moves, T!Move, T!Failing, RunRows, RunSteps, ShapeOf, Works, Silent, AtWork, Quiet, T!At

LEMMA FailMovesAtFirst ==
  ASSUME TasksInv, NEW t \in Task, NEW why \in {"revoked", "error", "lost", "unknown"},
         T!Move(t, T!Failing(t, why)), T!At(t, "permit")
  PROVE  Moves(t, T!Failing(t, why))
  BY RunTypes DEF Moves, T!Move, T!Failing, RunRows, RunSteps, ShapeOf, Works, Silent, AtWork, Quiet, T!At

LEMMA PermittedMoves ==
  ASSUME TasksInv, NEW t \in Task, NEW from, NEW next, T!Permitted(t, from, next),
         T!Move(t, next) => Moves(t, next)
  PROVE  Keeps
<1>1. UNCHANGED <<room, task, rev, requests, late>>
  BY DEF T!Permitted, T!ledger
<1>2. CASE T!Move(t, next)
  BY <1>1, <1>2, LocalStep
<1>3. CASE \E why \in {"revoked", "error", "lost", "unknown"} : T!Move(t, T!Failing(t, why))
  <2>1. PICK why \in {"revoked", "error", "lost", "unknown"} : T!Move(t, T!Failing(t, why))
    BY <1>3
  <2>2. Moves(t, T!Failing(t, why))
    BY <2>1, FailMoves, FailMovesAtFirst
  <2> QED BY <1>1, <2>2, LocalStep
<1> QED BY <1>2, <1>3 DEF T!Permitted

LEMMA Permit1Step == ASSUME TasksInv, NEW t \in Task, T!Permit1(t) PROVE Keeps
<1> DEFINE y == [x[t] EXCEPT !.pc = "open", !.cap = TRUE, !.proc = TRUE]
<1>1. T!Permitted(t, "permit", y) /\ T!At(t, "permit")
  BY DEF T!Permit1, T!Permitted
<1>2. T!Move(t, y) => Moves(t, y)
  BY <1>1, RunTypes DEF Moves, T!Move, RunRows, RunSteps, ShapeOf, Works, Silent, AtWork, Quiet, T!At
<1> QED BY <1>1, <1>2, PermittedMoves

LEMMA Permit2Step == ASSUME TasksInv, NEW t \in Task, T!Permit2(t) PROVE Keeps
<1> DEFINE y == [x[t] EXCEPT !.pc = "prompt", !.rev = rev]
<1>1. T!Permitted(t, "permit2", y) /\ T!At(t, "permit2") /\ rev \in Nat
  BY DEF T!Permit2, T!Permitted, TasksInv, TasksTypeOK
<1>2. T!Move(t, y) => Moves(t, y)
  BY <1>1, RunTypes DEF Moves, T!Move, RunRows, RunSteps, ShapeOf, Works, Silent, AtWork, Quiet, T!At
<1> QED BY <1>1, <1>2, PermittedMoves

LEMMA Permit3Step == ASSUME TasksInv, NEW t \in Task, T!Permit3(t) PROVE Keeps
<1> DEFINE y == [x[t] EXCEPT !.pc = IF x[t].kids THEN "wait" ELSE "complete"]
<1>1. T!Permitted(t, "settle", y) /\ T!At(t, "settle")
  BY DEF T!Permit3, T!Permitted
<1>2. T!Move(t, y) => Moves(t, y)
  BY <1>1, RunTypes DEF Moves, T!Move, RunRows, RunSteps, ShapeOf, Works, Silent, AtWork, Quiet, T!At
<1> QED BY <1>1, <1>2, PermittedMoves

\* The other steps that say nothing to the ledger.
LEMMA OpenStep == ASSUME TasksInv, NEW t \in Task, T!Open(t) \/ T!PromptEnds(t) PROVE Keeps
<1>1. UNCHANGED <<room, task, rev, requests, late>>
  BY DEF T!Open, T!PromptEnds, T!ledger
<1>2. PICK y \in {[x[t] EXCEPT !.pc = "permit2"], [x[t] EXCEPT !.pc = "revoke"]} \cup
               {[T!Failing(t, why) EXCEPT !.proc = FALSE] : why \in {"error", "unknown"}} :
        T!Move(t, y)
  BY DEF T!Open, T!PromptEnds
<1>3. x[t].pc \in {"open", "prompt"}
  BY DEF T!Open, T!PromptEnds, T!At
<1>4. CASE y \in {[x[t] EXCEPT !.pc = "permit2"], [x[t] EXCEPT !.pc = "revoke"]}
  <2>1. Moves(t, y)
    BY <1>2, <1>3, <1>4, RunTypes
       DEF Moves, T!Move, RunRows, RunSteps, ShapeOf, Works, Silent, AtWork, Quiet
  <2> QED BY <1>1, <2>1, LocalStep
<1>5. CASE \E why \in {"error", "unknown"} : y = [T!Failing(t, why) EXCEPT !.proc = FALSE]
  <2>1. Moves(t, y)
    BY <1>2, <1>3, <1>5, RunTypes
       DEF Moves, T!Move, T!Failing, RunRows, RunSteps, ShapeOf, Works, Silent, AtWork, Quiet
  <2> QED BY <1>1, <2>1, LocalStep
<1> QED BY <1>2, <1>4, <1>5

LEMMA RevokeToolsStep == ASSUME TasksInv, NEW t \in Task, T!RevokeTools(t) PROVE Keeps
<1>1. UNCHANGED <<room, task, rev, requests, late>> /\ x[t].pc \in {"revoke", "fail"}
  BY DEF T!RevokeTools, T!ledger, T!At
<1>2. CASE T!Move(t, [x[t] EXCEPT !.cap = FALSE])
  <2>1. Moves(t, [x[t] EXCEPT !.cap = FALSE])
    BY <1>1, <1>2, RunTypes DEF Moves, T!Move, RunRows, RunSteps, ShapeOf, Works, Silent, AtWork, Quiet
  <2> QED BY <1>1, <2>1, LocalStep
<1>3. CASE ~x[t].cap /\ T!Settled(t) /\ T!Move(t, [x[t] EXCEPT !.pc = "settle"])
  <2>1. Moves(t, [x[t] EXCEPT !.pc = "settle"])
    BY <1>1, <1>3, RunTypes
       DEF Moves, T!Move, T!Settled, RunRows, RunSteps, ShapeOf, Works, Silent, AtWork, Quiet
  <2> QED BY <1>1, <2>1, LocalStep
<1>4. CASE T!Move(t, T!Failing(t, "unknown"))
  <2>1. Moves(t, T!Failing(t, "unknown"))
    BY <1>1, <1>4, FailMoves DEF T!At
  <2> QED BY <1>1, <2>1, LocalStep
<1> QED BY <1>2, <1>3, <1>4 DEF T!RevokeTools

LEMMA CancelledStep == ASSUME TasksInv, NEW t \in Task, T!Cancelled(t) PROVE Keeps
<1> DEFINE y == [x[t] EXCEPT !.pc = "stop", !.proc = FALSE]
<1>1. UNCHANGED <<room, task, rev, requests, late>> /\ T!Move(t, y) /\ T!At(t, "settle")
  BY DEF T!Cancelled, T!ledger
<1>2. Moves(t, y)
  BY <1>1, RunTypes DEF Moves, T!Move, RunRows, RunSteps, ShapeOf, Works, Silent, AtWork, Quiet, T!At
<1> QED BY <1>1, <1>2, LocalStep

LEMMA FailClosedStep == ASSUME TasksInv, NEW t \in Task, T!FailClosed(t) PROVE Keeps
<1>1. UNCHANGED <<room, task, rev, requests, late>> /\ x[t].pc = "fail" /\ ~x[t].cap
  BY DEF T!FailClosed, T!ledger, T!At
<1>2. PICK pc \in {"report", "close"} : T!Move(t, [x[t] EXCEPT !.proc = FALSE, !.pc = pc])
                                        /\ (pc = "report" => T!Settled(t))
  BY DEF T!FailClosed
<1>3. Moves(t, [x[t] EXCEPT !.proc = FALSE, !.pc = pc])
  BY <1>1, <1>2, RunTypes
     DEF Moves, T!Move, T!Settled, RunRows, RunSteps, ShapeOf, Works, Silent, AtWork, Quiet
<1> QED BY <1>1, <1>3, LocalStep

LEMMA CloseStep == ASSUME TasksInv, NEW t \in Task, T!Close(t) PROVE Keeps
<1> DEFINE y == [T!NoRun EXCEPT !.tool = x[t].tool]
<1>1. UNCHANGED <<room, task, rev, requests, late>> /\ x' = [x EXCEPT ![t] = y] /\ x[t].pc = "close"
  BY DEF T!Close, T!ledger, T!At
<1>2. Moves(t, y)
  BY <1>1, RunTypes DEF Moves, T!NoRun, RunRows, RunSteps, ShapeOf, Works, Silent, AtWork, Quiet
<1> QED BY <1>1, <1>2, LocalStep

\* The steps of a tool call that ask the ledger nothing.
LEMMA ToolStep ==
  ASSUME TasksInv, NEW t \in Task,
         T!ToolStarts(t) \/ T!ToolChecked(t) \/ T!ToolPermitted(t) \/ T!ToolSends(t) \/ T!ToolEnds(t)
  PROVE  Keeps
<1>1. UNCHANGED <<room, task, rev, requests, late>>
  BY DEF T!ToolStarts, T!ToolChecked, T!ToolPermitted, T!ToolSends, T!ToolEnds, T!ledger
<1>2. PICK s \in {"none", "started", "checked", "permitted", "sent"} :
        /\ T!Tool(t, s)
        /\ s # "none" => x[t].cap \/ x[t].tool # "none"
        /\ s = "started" => x[t].cap
        /\ s = "sent" => x[t].cap
  BY DEF T!ToolStarts, T!ToolChecked, T!ToolPermitted, T!ToolSends, T!ToolEnds, T!StillAllowed
<1>3. s # "none" => x[t].pc \notin {"stop", "report", "settle", "wait", "complete"}
  BY <1>2, RunTypes DEF ShapeOf
<1>4. Moves(t, [x[t] EXCEPT !.tool = s])
  BY <1>2, <1>3, RunTypes
     DEF Moves, T!Move, T!Tool, RunRows, RunSteps, ShapeOf, Works, Silent, AtWork, Quiet
<1> QED BY <1>1, <1>4, LocalStep

\* A request of the runner that is not behind its process: served, refused or given up.
Asked(r) == T!Served(r) \/ T!Refused(r) \/ T!Lost(r)
Due(r)   == r.do \in Ending => r.epoch = x[r.t].epoch /\ ~AtWork(r.t) /\ (r.do = "stopped" => Quiet(r.t))

LEMMA OpType ==
  ASSUME TasksInv, NEW t \in Task, NEW what \in {"claim", "renew", "delegate"} \cup Ending
  PROVE  /\ T!Op(what, t) \in Requests
         /\ T!Op(what, t).do = what /\ T!Op(what, t).t = t /\ T!Op(what, t).epoch = x[t].epoch
<1>1. x[t].epoch \in Nat /\ x[t].rev \in Nat
  BY RunTypes DEF RunRows
<1> QED BY <1>1 DEF T!Op, Requests

LEMMA ServedMoves ==
  ASSUME TasksInv, NEW r \in Requests, Serves(r),
         r.do \in Ending /\ r.epoch = task[r.t].epoch => ~AtWork(r.t) /\ (r.do = "stopped" => Quiet(r.t))
  PROVE  LedgerMoves
<1>1. Reaches(r)
  BY EffectReaches
<1>2. ASSUME NEW u \in Task, Going(u), task'[u].st = "cancelled"
      PROVE  ~x[u].proc /\ x[u].tool # "sent"
  <2>1. u = r.t /\ r.do = "stopped" /\ r.epoch = task[u].epoch
    BY <1>1, <1>2 DEF Reaches
  <2> QED BY <2>1 DEF Quiet, Ending
<1> QED BY <1>1, <1>2 DEF Reaches, LedgerMoves, EndsQuietly, TasksInv, TasksTypeOK

LEMMA AskedMoves ==
  ASSUME TasksInv, NEW r \in Requests, Asked(r), Due(r)
  PROVE  LedgerMoves
<1>1. CASE T!Served(r)
  <2>1. Serves(r)
    BY <1>1 DEF T!Served, Serves
  <2> QED BY <2>1, ServedMoves DEF Due
<1>2. CASE T!Refused(r) \/ T!Lost(r)
  <2>1. UNCHANGED <<room, task, rev, requests>>
    BY <1>2 DEF T!Refused, T!Lost, T!ledger
  <2> QED BY <2>1, LedgerStays DEF TasksInv, TasksTypeOK
<1> QED BY <1>1, <1>2 DEF Asked

LEMMA LostRequest ==
  ASSUME NEW r, T!Lost(r)
  PROVE  \A q \in late' : q \in late \/ q = r
  BY DEF T!Lost

\* The step of a runner with its request.
LEMMA RequestStep ==
  ASSUME TasksInv, NEW t \in Task, NEW r \in Requests, Due(r), NEW y, Moves(t, y),
         \/ (T!Served(r) \/ T!Refused(r)) /\ UNCHANGED late
         \/ T!Lost(r) /\ (r.do \in Ending => r.t = t /\ ~Works(y) /\ (r.do = "stopped" => Silent(y)))
  PROVE  Keeps
<1>1. LedgerMoves
  BY AskedMoves DEF Asked
<1>2. GivesUp(t, y)
  BY LostRequest DEF GivesUp, Due
<1> QED BY <1>1, <1>2, RunnerStep

LEMMA AsksStep ==
  ASSUME TasksInv, NEW t \in Task, NEW what \in Ending, NEW pc \in {"wait", "complete", "stop"},
         NEW refused, T!Asks(t, what, pc, refused), what = "stopped" => pc = "stop",
         T!Move(t, refused) => Moves(t, refused)
  PROVE  Keeps
<1> DEFINE r == T!Op(what, t)
<1>1. r \in Requests /\ r.do = what /\ r.t = t /\ r.epoch = x[t].epoch
  BY OpType
<1>2. x[t].pc = pc /\ ~x[t].cap /\ (what = "stopped" => Quiet(t))
  BY RunTypes DEF T!Asks, T!At, ShapeOf, Quiet
<1>3. Due(r)
  BY <1>1, <1>2 DEF Due, AtWork
<1>4. CASE T!Served(r) /\ T!Move(t, T!Gone(t)) /\ UNCHANGED late
  <2>1. Moves(t, T!Gone(t))
    BY <1>2, <1>4, RunTypes
       DEF Moves, T!Move, T!Gone, RunRows, RunSteps, ShapeOf, Works, Silent, AtWork, Quiet
  <2> QED BY <1>1, <1>3, <1>4, <2>1, RequestStep
<1>5. CASE T!Refused(r) /\ T!Move(t, refused) /\ UNCHANGED late
  BY <1>1, <1>3, <1>5, RequestStep
<1>6. CASE T!Lost(r) /\ T!Move(t, T!Failing(t, "lost"))
  <2>1. Moves(t, T!Failing(t, "lost"))
    BY <1>2, <1>6, FailMoves DEF T!At
  <2>2. ~Works(T!Failing(t, "lost")) /\ (what = "stopped" => Silent(T!Failing(t, "lost")))
    BY <1>2, RunTypes DEF Works, Silent, T!Failing, RunRows, Quiet
  <2> HIDE DEF r
  <2> QED BY <1>1, <1>3, <1>6, <2>1, <2>2, RequestStep
<1> QED BY <1>4, <1>5, <1>6 DEF T!Asks

LEMMA WaitStep == ASSUME TasksInv, NEW t \in Task, T!Wait(t) PROVE Keeps
<1>1. T!Asks(t, "wait", "wait", T!Failing(t, "error")) /\ x[t].pc = "wait"
  BY DEF T!Wait, T!Asks, T!At
<1>2. T!Move(t, T!Failing(t, "error")) => Moves(t, T!Failing(t, "error"))
  BY <1>1, FailMoves DEF T!At
<1> QED BY <1>1, <1>2, AsksStep DEF Ending

LEMMA StopStep == ASSUME TasksInv, NEW t \in Task, T!Stop(t) PROVE Keeps
<1>1. T!Asks(t, "stopped", "stop", T!Failing(t, "error")) /\ x[t].pc = "stop"
  BY DEF T!Stop, T!Asks, T!At
<1>2. T!Move(t, T!Failing(t, "error")) => Moves(t, T!Failing(t, "error"))
  BY <1>1, FailMoves DEF T!At
<1> QED BY <1>1, <1>2, AsksStep DEF Ending

LEMMA CompleteStep == ASSUME TasksInv, NEW t \in Task, T!Complete(t) PROVE Keeps
<1> DEFINE again == [x[t] EXCEPT !.pc = "prompt", !.rev = rev, !.tries = @ + 1]
<1> DEFINE refused == IF T!CanComplete(t, x[t].epoch) /\ x[t].tries < 2 THEN again ELSE T!Failing(t, "error")
<1>1. T!Asks(t, "complete", "complete", refused) /\ x[t].pc = "complete"
  BY DEF T!Complete, T!Asks, T!At
<1>2. T!Move(t, again) => Moves(t, again)
  <2>1. rev \in Nat /\ x[t].tries + 1 \in Nat
    BY RunTypes DEF TasksInv, TasksTypeOK, RunRows
  <2> QED BY <1>1, <2>1, RunTypes
             DEF Moves, T!Move, RunRows, RunSteps, ShapeOf, Works, Silent, AtWork, Quiet
<1>3. T!Move(t, T!Failing(t, "error")) => Moves(t, T!Failing(t, "error"))
  BY <1>1, FailMoves DEF T!At
<1> QED BY <1>1, <1>2, <1>3, AsksStep DEF Ending

LEMMA ReportStep == ASSUME TasksInv, NEW t \in Task, T!Report(t) PROVE Keeps
<1>1. PICK what \in {"stopped", "fail"} :
        \/ (T!Served(T!Op(what, t)) \/ T!Refused(T!Op(what, t))) /\ UNCHANGED late
        \/ T!Lost(T!Op(what, t))
  BY DEF T!Report
<1> DEFINE r == T!Op(what, t)
<1>2. r \in Requests /\ r.do = what /\ r.t = t /\ r.epoch = x[t].epoch
  BY OpType DEF Ending
<1>3. x[t].pc = "report" /\ ~x[t].cap /\ Quiet(t) /\ T!Move(t, T!Gone(t))
  BY RunTypes DEF T!Report, T!At, ShapeOf, Quiet
<1>4. Due(r)
  BY <1>2, <1>3 DEF Due, AtWork
<1>5. Moves(t, T!Gone(t)) /\ ~Works(T!Gone(t)) /\ Silent(T!Gone(t))
  BY <1>3, RunTypes
     DEF Moves, T!Move, T!Gone, RunRows, RunSteps, ShapeOf, Works, Silent, AtWork, Quiet
<1> HIDE DEF r
<1> QED BY <1>1, <1>2, <1>4, <1>5, RequestStep DEF r

LEMMA RenewStep == ASSUME TasksInv, NEW t \in Task, T!Renew(t) PROVE Keeps
<1> DEFINE r == T!Op("renew", t)
<1>1. r \in Requests /\ r.do = "renew" /\ r.t = t
  BY OpType
<1>2. /\ T!Move(t, [x[t] EXCEPT !.abort = TRUE])
      /\ (T!Refused(r) /\ UNCHANGED late) \/ T!Lost(r)
  BY DEF T!Renew
<1>3. Moves(t, [x[t] EXCEPT !.abort = TRUE])
  BY <1>2, RunTypes DEF Moves, T!Move, RunRows, RunSteps, ShapeOf, Works, Silent, AtWork, Quiet
<1>4. Due(r) /\ r.do \notin Ending
  BY <1>1 DEF Due, Ending
<1> HIDE DEF r
<1> QED BY <1>1, <1>2, <1>3, <1>4, RequestStep

LEMMA ToolDelegatesStep == ASSUME TasksInv, NEW c \in Task, T!ToolDelegates(c) PROVE Keeps
<1> DEFINE t == Parent[c]
<1> DEFINE r == T!Op("delegate", c)
<1>1. r \in Requests /\ r.do = "delegate" /\ t \in Task
  BY OpType, TaskDomain DEF T!ToolDelegates
<1>2. Due(r) /\ r.do \notin Ending
  BY <1>1 DEF Due, Ending
<1>3. ((T!Served(r) \/ T!Refused(r)) /\ UNCHANGED late) \/ T!Lost(r)
  BY DEF T!ToolDelegates
<1>4. PICK y \in {[x[t] EXCEPT !.tool = "none", !.kids = TRUE], [x[t] EXCEPT !.tool = "none"]} : T!Move(t, y)
  BY DEF T!ToolDelegates, T!Tool
<1>5. Moves(t, y)
  <2> HIDE DEF t
  <2>1. x[t] \in RunRows /\ ShapeOf(x[t])
    BY <1>1, RunTypes
  <2>2. CASE y = [x[t] EXCEPT !.tool = "none", !.kids = TRUE]
    BY <1>4, <2>1, <2>2 DEF Moves, T!Move, RunRows, RunSteps, ShapeOf, Works, Silent, AtWork, Quiet
  <2>3. CASE y = [x[t] EXCEPT !.tool = "none"]
    BY <1>4, <2>1, <2>3 DEF Moves, T!Move, RunRows, RunSteps, ShapeOf, Works, Silent, AtWork, Quiet
  <2> QED BY <1>4, <2>2, <2>3
<1> HIDE DEF r, t
<1> QED BY <1>1, <1>2, <1>3, <1>5, RequestStep

\* poll: the execution begins with what the ledger has just written.
LEMMA ClaimStep == ASSUME TasksInv, NEW t \in Task, T!Claim(t) PROVE Keeps
<1> DEFINE r == T!Op("claim", t)
<1> DEFINE y == [T!NoRun EXCEPT !.pc = "permit", !.epoch = task'[t].epoch]
<1>1. r \in Requests /\ r.do = "claim" /\ r.t = t /\ Due(r)
  BY OpType DEF Due, Ending
<1>2. /\ x \in [Task -> RunRows] /\ late \subseteq Requests /\ task \in [Task -> TaskRows]
      /\ Agree(task) /\ Shapes
  BY DEF TasksInv, TasksTypeOK
<1> HIDE DEF r
<1>3. CASE T!Lost(r) /\ UNCHANGED x
  <2>1. Moves(t, x[t])
    BY <1>2, <1>3, RunTypes DEF Moves, Works, Silent, AtWork, Quiet
  <2> QED BY <1>1, <1>3, <2>1, RequestStep DEF Ending
<1>4. CASE T!Served(r) /\ T!Move(t, y) /\ UNCHANGED late
  <2>1. LedgerMoves
    BY <1>1, <1>4, AskedMoves DEF Asked
  <2>2. task'[t].epoch = task[t].epoch + 1 /\ task'[t].st = "running" /\ task' \in [Task -> TaskRows]
        /\ Agree(task')
    <3>1. Serves(r)
      BY <1>4 DEF T!Served, Serves
    <3> QED BY <1>1, <3>1, EffectReaches DEF Ending, Reaches
  <2>3. task'[t].epoch \in Nat /\ task[t].epoch \in Nat
    BY <1>2, <2>2 DEF TaskRows
  <2>4. /\ y \in RunRows /\ ShapeOf(y) /\ Silent(y) /\ y.epoch = task'[t].epoch
    BY <2>3 DEF T!NoRun, RunRows, RunSteps, ShapeOf, Silent
  <2> HIDE DEF y
  <2>5. /\ x' \in [Task -> RunRows] /\ x'[t] = y /\ \A u \in Task : u # t => x'[u] = x[u]
    BY <1>2, <1>4, <2>4 DEF T!Move
  <2>6. ASSUME NEW u \in Task
        PROVE  /\ x'[u].epoch <= task'[u].epoch
               /\ AtWork(u)' => task'[u].st \in {"running", "cancel_requested"} /\ x'[u].epoch = task'[u].epoch
    <3>1. CASE u = t
      BY <2>2, <2>3, <2>4, <2>5, <3>1
    <3>2. CASE u # t
      BY <2>2, <2>5, <3>2 DEF Agree, AtWork
    <3> QED BY <3>1, <3>2
  <2>7. ASSUME NEW q \in late, q.do \in Ending
        PROVE  /\ q.epoch <= task'[q.t].epoch
               /\ q.epoch = task'[q.t].epoch => ~AtWork(q.t)' /\ (q.do = "stopped" => Quiet(q.t)')
    <3>1. q.t \in Task /\ q.epoch \in Nat /\ q.epoch <= task[q.t].epoch
      BY <1>2, <2>7 DEF Agree, Requests
    <3>2. CASE q.t = t
      BY <2>2, <2>3, <3>1, <3>2
    <3>3. CASE q.t # t
      BY <2>2, <2>5, <2>7, <3>1, <3>3 DEF Agree, AtWork, Quiet
    <3> QED BY <3>2, <3>3
  <2>8. Agree(task)'
    BY <1>4, <2>6, <2>7 DEF Agree
  <2>9. Shapes'
    BY <1>2, <2>4, <2>5 DEF Shapes
  <2>10. SendsAtWork
    BY <2>4, <2>5 DEF SendsAtWork, Silent
  <2> QED BY <1>2, <1>4, <2>1, <2>5, <2>8, <2>9, <2>10 DEF Keeps, LedgerMoves, TasksInv, TasksTypeOK
<1> QED BY <1>3, <1>4 DEF T!Claim, r

\* onClose and stop abort the executions of a runner.
LEMMA AbortStep ==
  ASSUME TasksInv, NEW a \in T!Agent, T!Disconnect(a) \/ T!StopRunner(a)
  PROVE  Keeps
<1>1. /\ x \in [Task -> RunRows] /\ late \subseteq Requests
      /\ UNCHANGED <<room, task, rev, requests, late>>
      /\ x' = [t \in Task |-> IF Assignee[t] = a /\ ~T!At(t, "idle") THEN [x[t] EXCEPT !.abort = TRUE] ELSE x[t]]
  BY DEF TasksInv, TasksTypeOK, T!Disconnect, T!StopRunner, T!ledger
<1>2. LedgerMoves
  BY <1>1, LedgerStays DEF TasksInv, TasksTypeOK
<1>3. ASSUME NEW u \in Task
      PROVE  /\ x'[u] \in RunRows /\ x'[u].pc = x[u].pc /\ x'[u].cap = x[u].cap /\ x'[u].proc = x[u].proc
             /\ x'[u].tool = x[u].tool /\ x'[u].epoch = x[u].epoch
  BY <1>1 DEF RunRows
<1>4. x' \in [Task -> RunRows]
  BY <1>1, <1>3
<1> HIDE DEF TasksInv
<1>5. Agree(task)' /\ Shapes' /\ SendsAtWork
  <2>1. Agree(task) /\ Shapes
    BY DEF TasksInv
  <2>2. \A r \in late : r.t \in Task
    BY <1>1 DEF Requests
  <2>3. task' = task /\ late' = late
    BY <1>1
  <2>4. \A u \in Task : (AtWork(u)' <=> AtWork(u)) /\ (Quiet(u)' <=> Quiet(u)) /\ x'[u].epoch = x[u].epoch
    BY <1>3 DEF AtWork, Quiet
  <2>5. Agree(task)'
    BY <2>1, <2>2, <2>3, <2>4 DEF Agree
  <2>6. Shapes' /\ SendsAtWork
    BY <1>3, <2>1 DEF Shapes, ShapeOf, SendsAtWork
  <2> QED BY <2>5, <2>6
<1> QED BY <1>1, <1>2, <1>4, <1>5 DEF Keeps, LedgerMoves, TasksInv, TasksTypeOK

\* Steps of the ledger alone.
LEMMA LedgerStep ==
  ASSUME TasksInv, LedgerMoves, UNCHANGED x, late' \subseteq late
  PROVE  Keeps
<1>1. /\ x \in [Task -> RunRows] /\ late \subseteq Requests /\ Agree(task') /\ Shapes
  BY DEF TasksInv, TasksTypeOK, LedgerMoves
<1>2. Agree(task)'
  BY <1>1 DEF Agree, AtWork, Quiet
<1>3. Shapes' /\ SendsAtWork
  BY <1>1 DEF Shapes, SendsAtWork
<1> QED BY <1>1, <1>2, <1>3 DEF Keeps, LedgerMoves, TasksInv, TasksTypeOK

LEMMA LateArrivesStep == ASSUME TasksInv, T!LateArrives PROVE Keeps
<1>1. PICK r \in late : /\ late' = late \ {r}
                        /\ IF T!Refuses(r) THEN UNCHANGED T!ledger ELSE T!Effect(r)
                        /\ UNCHANGED x
  BY DEF T!LateArrives
<1>2. r \in Requests /\ late' \subseteq late
  BY <1>1 DEF TasksInv, TasksTypeOK
<1>3. CASE T!Refuses(r)
  <2>1. LedgerMoves
    BY <1>1, <1>3, LedgerStays DEF T!ledger, TasksInv, TasksTypeOK
  <2> QED BY <1>1, <1>2, <2>1, LedgerStep
<1>4. CASE ~T!Refuses(r)
  <2>1. Serves(r)
    BY <1>1, <1>4 DEF Serves
  <2>2. r.do \in Ending /\ r.epoch = task[r.t].epoch => ~AtWork(r.t) /\ (r.do = "stopped" => Quiet(r.t))
    BY <1>1 DEF TasksInv, Agree
  <2>3. LedgerMoves
    BY <1>2, <2>1, <2>2, ServedMoves
  <2> QED BY <1>1, <1>2, <2>3, LedgerStep
<1> QED BY <1>3, <1>4

LEMMA RestStep ==
  ASSUME TasksInv, \/ T!LateIsDropped \/ T!Control
                   \/ (\E a \in T!Agent : T!Connect(a) \/ T!HeartbeatEnds(a)) \/ UNCHANGED T!vars
  PROVE  Keeps
<1>1. UNCHANGED <<task, rev, requests, x>> /\ late' \subseteq late
  BY DEF T!LateIsDropped, T!Control, T!Connect, T!HeartbeatEnds, T!vars, T!ledger
<1>2. room' = room \/ T!Control
  BY DEF T!LateIsDropped, T!Control, T!Connect, T!HeartbeatEnds, T!vars, T!ledger
<1>3. room' \in [paused : BOOLEAN, members : SUBSET T!Agent]
  BY <1>2 DEF T!Control, TasksInv, TasksTypeOK
<1> QED BY <1>1, <1>3, LedgerStays, LedgerStep

LEMMA SendTaskStep == ASSUME TasksInv, NEW t \in Task, T!Send(t) PROVE Keeps
<1> DEFINE row == [T!NoTaskRow EXCEPT !.st = "queued"]
<1>1. row \in TaskRows /\ row.st = "queued" /\ row.events = 0 /\ row.epoch = 0
  BY DEF T!NoTaskRow, TaskRows
<1>2. /\ task[t].st = "none" /\ requests < MaxRequests /\ requests' = requests + 1 /\ rev' = rev + 1
      /\ UNCHANGED <<room, x, late>> /\ task' = T!Delegated(t)
  BY DEF T!Send, T!Admitted, T!Counted, T!Unchanged
<1>3. Saves(t, row)
  BY <1>2 DEF Saves, T!Delegated
<1>4. task[t].epoch = 0 /\ ~AtWork(t)
  BY <1>2 DEF TasksInv, LedgerInv, Agree, T!NoTaskRow
<1> HIDE DEF row
<1>5. FitsIn(row.st, row.events + 1)
  BY <1>1, TasksAssumption DEF FitsIn
<1>6. LedgerInv'
  BY <1>1, <1>2, <1>3, <1>5, SavedLedger DEF TasksInv
<1>7. Agree(task')
  BY <1>1, <1>3, <1>4, SavedAgree
<1>8. task' \in [Task -> TaskRows] /\ EndsQuietly
  BY <1>1, <1>2, <1>3, SavedFields DEF EndsQuietly, Going, TasksInv
<1>9. LedgerMoves
  BY <1>2, <1>6, <1>7, <1>8 DEF LedgerMoves, TasksInv, TasksTypeOK
<1> QED BY <1>2, <1>9, LedgerStep

LEMMA SayStep == ASSUME TasksInv, T!Say PROVE Keeps
<1>1. /\ UNCHANGED <<room, task, x, late>> /\ requests < MaxRequests /\ requests' = requests + 1 /\ rev' = rev + 1
      /\ requests \in Nat /\ rev \in Nat
  BY DEF T!Say, T!Admitted, T!Counted, T!Unchanged, TasksInv, TasksTypeOK
<1>2. Receipted'
  <2>1. Over \in SUBSET Task /\ Still \in SUBSET Task /\ Over' = Over /\ Still' = Still
    BY <1>1 DEF Over, Still
  <2>2. Cardinality(Over) \in Nat /\ Cardinality(Still) \in Nat
    BY <2>1, TwoCounts
  <2> QED BY <1>1, <2>1, <2>2, TasksAssumption DEF Receipted
<1>3. LedgerInv'
  BY <1>1, <1>2 DEF TasksInv, LedgerInv, OneGoing, Going, T!WaitingHasChildren, T!AllEnded, T!Children
<1>4. LedgerMoves
  BY <1>1, <1>3 DEF LedgerMoves, EndsQuietly, TasksInv, TasksTypeOK, Going
<1> QED BY <1>1, <1>4, LedgerStep

LEMMA ExpireStep == ASSUME TasksInv, NEW t \in Task, T!Expire(t) PROVE Keeps
<1>1. /\ UNCHANGED <<room, rev, requests, x, late>> /\ task' = [task EXCEPT ![t].lease = FALSE]
      /\ task[t].st = "running" /\ task \in [Task -> TaskRows]
  BY DEF T!Expire, T!Unchanged, TasksInv, TasksTypeOK
<1>2. ASSUME NEW u \in Task
      PROVE  /\ task'[u] \in TaskRows /\ task'[u].st = task[u].st /\ task'[u].epoch = task[u].epoch
             /\ task'[u].events = task[u].events /\ (u # t => task'[u] = task[u])
  BY <1>1 DEF TaskRows
<1>3. task' \in [Task -> TaskRows]
  BY <1>1, <1>2
<1> HIDE DEF TasksInv
<1>4. LedgerInv /\ Agree(task) /\ late \subseteq Requests
  BY DEF TasksInv, TasksTypeOK
<1>5. Over' = Over /\ Still' = Still
  BY <1>2 DEF Over, Still
<1>6. Receipted'
  BY <1>1, <1>4, <1>5 DEF LedgerInv, Receipted
<1>7. T!WaitingHasChildren'
  BY <1>2, <1>4 DEF LedgerInv, T!WaitingHasChildren, T!AllEnded, T!Children
<1>8. LedgerInv'
  BY <1>1, <1>2, <1>4, <1>6, <1>7 DEF LedgerInv, OneGoing, Going
<1>9. Agree(task')
  BY <1>2, <1>4 DEF Agree, Requests
<1>10. LedgerMoves
  BY <1>1, <1>2, <1>3, <1>8, <1>9 DEF LedgerMoves, EndsQuietly, TasksInv, TasksTypeOK, Going
<1> QED BY <1>1, <1>10, LedgerStep

LEMMA StoppedByHandStep == ASSUME TasksInv, NEW t \in Task, T!StoppedByHand(t) PROVE Keeps
<1>1. PICK st \in {"cancelled", "queued"} : task' = T!Ended(t, st)
  BY DEF T!StoppedByHand
<1> DEFINE row == [task[t] EXCEPT !.st = st, !.lease = FALSE]
<1>2. /\ task[t] \in TaskRows /\ task[t].events \in Nat /\ task[t].epoch \in Nat
      /\ requests' = requests + 1 /\ requests \in Nat /\ UNCHANGED <<room, rev, x, late>>
  BY DEF T!StoppedByHand, T!Counted, T!Unchanged, TasksInv, TasksTypeOK, TaskRows
<1>3. row \in TaskRows /\ row.st = st /\ row.events = task[t].events /\ row.epoch = task[t].epoch
  BY <1>2, MovedRow DEF T!Terminal
<1>4. Saves(t, row)
  BY <1>1 DEF Saves, T!Ended
<1>5. task[t].st = "running" /\ task[t].events < MaxEvents
  BY <1>2 DEF T!StoppedByHand, T!View, T!CanStop, T!Fits, TaskRows, T!Terminal
<1>6. ~AtWork(t) /\ ~x[t].proc /\ x[t].tool # "sent"
  BY RunTypes DEF T!StoppedByHand, T!At, AtWork, ShapeOf
<1> HIDE DEF row
<1>7. FitsIn(row.st, row.events + 1)
  <2>1. FitsIn(task[t].st, task[t].events) /\ MaxEvents \in Nat
    BY TasksAssumption DEF TasksInv, LedgerInv
  <2> QED BY <1>1, <1>2, <1>3, <1>5, <2>1 DEF FitsIn
<1>8. LedgerInv'
  BY <1>1, <1>2, <1>3, <1>4, <1>5, <1>7, SavedLedger DEF TasksInv, T!Terminal
<1>9. Agree(task')
  BY <1>2, <1>3, <1>4, <1>6, SavedAgree
<1>10. /\ task' \in [Task -> TaskRows]
       /\ \A u \in Task : u # t => task'[u] = task[u] \/ task'[u].st = "queued"
  BY <1>3, <1>4, SavedFields DEF TasksInv
<1>11. EndsQuietly
  BY <1>6, <1>10 DEF EndsQuietly, Going
<1>12. LedgerMoves
  BY <1>2, <1>8, <1>9, <1>10, <1>11 DEF LedgerMoves, TasksInv, TasksTypeOK
<1> QED BY <1>2, <1>12, LedgerStep

\* cancel: a task and its children that are not over.
Cut(t) == {u \in Task : u = t \/ Parent[u] = t}
          \ {u \in Task : task[u].st \in T!Terminal \cup {"none", "cancel_requested"}}
CutRow(u) == [task[u] EXCEPT !.events = @ + 1,
                !.st = IF @ \in {"queued", "waiting"} THEN "cancelled" ELSE "cancel_requested"]
CutRows(t) == [u \in Task |-> IF u \notin Cut(t) THEN task[u] ELSE CutRow(u)]

LEMMA MarkedRow ==
  ASSUME NEW r \in TaskRows, NEW st \in {"cancelled", "cancel_requested"}
  PROVE  LET m == [r EXCEPT !.events = @ + 1, !.st = st] IN
         m \in TaskRows /\ m.st = st /\ m.events = r.events + 1 /\ m.epoch = r.epoch
<1>1. r.events + 1 \in Nat
  BY DEF TaskRows
<1> QED BY <1>1 DEF TaskRows, T!Terminal

LEMMA CutOf ==
  ASSUME TasksInv, NEW t \in Task, NEW u \in Task
  PROVE  /\ CutRows(t)[u] \in TaskRows /\ CutRows(t)[u].epoch = task[u].epoch
         /\ u \notin Cut(t) => CutRows(t)[u] = task[u]
         /\ u \in Cut(t) =>
              /\ CutRows(t)[u].events = task[u].events + 1
              /\ \/ task[u].st \in {"queued", "waiting"} /\ CutRows(t)[u].st = "cancelled"
                 \/ task[u].st = "running" /\ CutRows(t)[u].st = "cancel_requested"
<1>1. task[u] \in TaskRows /\ task[u].events + 1 \in Nat
  BY DEF TasksInv, TasksTypeOK, TaskRows
<1>2. CASE u \notin Cut(t)
  BY <1>1, <1>2 DEF CutRows
<1>3. CASE u \in Cut(t)
  <2>1. task[u].st \in {"queued", "waiting", "running"}
    BY <1>1, <1>3 DEF Cut, TaskRows
  <2>2. CutRows(t)[u] = CutRow(u)
    BY <1>3 DEF CutRows
  <2>3. CASE task[u].st = "running"
    <3> DEFINE m == [task[u] EXCEPT !.events = @ + 1, !.st = "cancel_requested"]
    <3>1. CutRow(u) = m
      BY <1>1, <2>3 DEF CutRow, TaskRows
    <3>2. m \in TaskRows /\ m.st = "cancel_requested" /\ m.events = task[u].events + 1 /\ m.epoch = task[u].epoch
      BY <1>1, MarkedRow
    <3> HIDE DEF m
    <3> QED BY <1>3, <2>2, <2>3, <3>1, <3>2
  <2>4. CASE task[u].st \in {"queued", "waiting"}
    <3> DEFINE m == [task[u] EXCEPT !.events = @ + 1, !.st = "cancelled"]
    <3>1. CutRow(u) = m
      BY <1>1, <2>4 DEF CutRow, TaskRows
    <3>2. m \in TaskRows /\ m.st = "cancelled" /\ m.events = task[u].events + 1 /\ m.epoch = task[u].epoch
      BY <1>1, MarkedRow
    <3> HIDE DEF m
    <3> QED BY <1>3, <2>2, <2>4, <3>1, <3>2
  <2> QED BY <2>1, <2>3, <2>4
<1> QED BY <1>2, <1>3

\* What a cancellation does to each row.
LEMMA CancelRows ==
  ASSUME TasksInv, NEW t \in Task, T!Cancel(t), NEW u \in Task
  PROVE  /\ task'[u] \in TaskRows /\ task'[u].epoch = task[u].epoch
         /\ \/ u \notin Cut(t) /\ task'[u] = task[u]
            \/ /\ u \notin Cut(t) /\ task[u].st = "waiting" /\ task'[u].st = "queued"
               /\ task'[u].events = task[u].events + 1
            \/ u \in Cut(t) /\ task[u].st \in {"queued", "waiting"} /\ task'[u].st = "cancelled"
            \/ /\ u \in Cut(t) /\ task[u].st = "running" /\ task'[u].st = "cancel_requested"
               /\ task'[u].events = task[u].events + 1
<1> DEFINE p == Parent[t]
<1> DEFINE tf == CutRows(t)
<1>1. task' = T!Resumed(tf, t)
  BY DEF T!Cancel, CutRows, Cut, CutRow
<1>2. tf \in [Task -> TaskRows]
  <2>1. \A w \in Task : tf[w] \in TaskRows
    BY CutOf
  <2> QED BY <2>1 DEF CutRows
<1>3. tf[u] \in TaskRows /\ tf[u].epoch = task[u].epoch
  BY CutOf
<1>4. CASE tf[t].st \in T!Terminal /\ p # NoTask /\ tf[p].st = "waiting" /\ T!AllEnded(tf, p)
  <2>1. p \in Task
    BY <1>4, TaskDomain
  <2>2. p \notin Cut(t) /\ tf[p] = task[p]
    BY <1>4, <2>1, CutOf
  <2> DEFINE y == [tf[p] EXCEPT !.st = "queued", !.events = @ + 1]
  <2> HIDE DEF tf
  <2>3. y \in TaskRows /\ y.st = "queued" /\ y.events = tf[p].events + 1 /\ y.epoch = tf[p].epoch
    BY <1>2, <2>1, RequeuedRow
  <2>4. task' = [tf EXCEPT ![p].st = "queued", ![p].events = @ + 1]
    BY <1>1, <1>4 DEF T!Resumed
  <2>5. task' = [tf EXCEPT ![p] = y]
    BY <1>2, <2>1, <2>4
  <2> HIDE DEF y
  <2>6. task'[p] = y /\ \A w \in Task : w # p => task'[w] = tf[w]
    BY <1>2, <2>1, <2>5
  <2>7. CASE u = p
    BY <1>4, <2>1, <2>2, <2>3, <2>6, <2>7
  <2>8. CASE u # p
    <3>1. task'[u] = tf[u]
      BY <2>6, <2>8
    <3> QED BY <1>3, <3>1, CutOf DEF tf
  <2> QED BY <2>7, <2>8
<1>5. CASE ~(tf[t].st \in T!Terminal /\ p # NoTask /\ tf[p].st = "waiting" /\ T!AllEnded(tf, p))
  <2>1. task'[u] = tf[u]
    BY <1>1, <1>5 DEF T!Resumed
  <2> QED BY <1>3, <2>1, CutOf
<1> QED BY <1>4, <1>5

\* The parent of a task whose cancellation ends it waits no longer, or for another child.
LEMMA CancelWaits ==
  ASSUME TasksInv, NEW t \in Task, T!Cancel(t), NEW w \in Task, task'[w].st = "waiting"
  PROVE  ~T!AllEnded(task', w)
<1> DEFINE tf == CutRows(t)
<1>1. task' = T!Resumed(tf, t)
  BY DEF T!Cancel, CutRows, Cut, CutRow
<1>2. w \notin Cut(t) /\ task[w].st = "waiting" /\ task'[w] = task[w]
  BY CancelRows
<1>3. w # t /\ Parent[w] # t
  BY <1>2 DEF Cut, T!Terminal
<1>4. PICK c \in Task : Parent[c] = w /\ task[c].st # "none" /\ task[c].st \notin T!Terminal
  BY <1>2 DEF TasksInv, LedgerInv, T!WaitingHasChildren, T!AllEnded, T!Children
<1>5. CASE task'[c].st # "none" /\ task'[c].st \notin T!Terminal
  BY <1>4, <1>5 DEF T!AllEnded, T!Children
<1>6. CASE ~(task'[c].st # "none" /\ task'[c].st \notin T!Terminal)
  <2>1. c \in Cut(t) /\ task'[c].st = "cancelled"
    BY <1>4, <1>6, CancelRows DEF T!Terminal
  <2>2. c = t
    BY <1>3, <1>4, <2>1 DEF Cut
  <2>3. tf[t].st \in T!Terminal
    BY <2>1, <2>2, CancelRows, CutOf DEF T!Terminal
  <2>4. tf[w] = task[w] /\ w # NoTask
    BY <1>2, CutOf, TasksAssumption
  <2> HIDE DEF tf
  <2>5. CASE T!AllEnded(tf, w)
    <3>1. task' = [tf EXCEPT ![w].st = "queued", ![w].events = @ + 1]
      BY <1>1, <1>2, <1>4, <2>2, <2>3, <2>4, <2>5 DEF T!Resumed
    <3>2. tf \in [Task -> TaskRows]
      <4>1. \A v \in Task : tf[v] \in TaskRows
        BY CutOf DEF tf
      <4> QED BY <4>1 DEF tf, CutRows
    <3> QED BY <1>2, <3>1, <3>2 DEF TaskRows
  <2>6. CASE ~T!AllEnded(tf, w)
    <3>1. task' = tf
      BY <1>1, <1>4, <2>2, <2>6 DEF T!Resumed
    <3> QED BY <2>6, <3>1
  <2> QED BY <2>5, <2>6
<1> QED BY <1>5, <1>6

LEMMA CancelStep == ASSUME TasksInv, NEW t \in Task, T!Cancel(t) PROVE Keeps
<1>1. /\ UNCHANGED <<room, rev, x, late>> /\ requests' = requests + 1 /\ requests \in Nat
      /\ t \in Cut(t)
  <2>1. UNCHANGED <<room, rev, x, late>> /\ requests' = requests + 1
    BY DEF T!Cancel, T!Counted, T!Unchanged
  <2>2. task[t].st \notin T!Terminal \cup {"none", "cancel_requested"}
    BY DEF T!Cancel
  <2> QED BY <2>1, <2>2 DEF Cut, TasksInv, TasksTypeOK
<1>2. task' \in [Task -> TaskRows]
  <2>1. task' = T!Resumed(CutRows(t), t)
    BY DEF T!Cancel, CutRows, Cut, CutRow
  <2>2. task' = [u \in Task |-> task'[u]]
    BY <2>1 DEF T!Resumed, CutRows
  <2> QED BY <2>2, CancelRows
<1>3. \A u \in Task :
        /\ task'[u].epoch = task[u].epoch
        /\ \/ u \notin Cut(t) /\ task'[u] = task[u]
           \/ /\ u \notin Cut(t) /\ task[u].st = "waiting" /\ task'[u].st = "queued"
              /\ task'[u].events = task[u].events + 1
           \/ u \in Cut(t) /\ task[u].st \in {"queued", "waiting"} /\ task'[u].st = "cancelled"
           \/ /\ u \in Cut(t) /\ task[u].st = "running" /\ task'[u].st = "cancel_requested"
              /\ task'[u].events = task[u].events + 1
  BY CancelRows
<1>4. LedgerInv /\ Agree(task) /\ task \in [Task -> TaskRows] /\ late \subseteq Requests
  BY DEF TasksInv, TasksTypeOK
<1> HIDE DEF TasksInv, Cut
<1>5. \A u \in Task : Going(u)' => Going(u)
  BY <1>3 DEF Going
<1>6. OneGoing'
  BY <1>4, <1>5 DEF OneGoing, LedgerInv
<1>7. T!WaitingHasChildren'
  BY CancelWaits DEF T!WaitingHasChildren
<1>8. Receipted'
  <2>1. /\ Over \in SUBSET Task /\ Over' \in SUBSET Task /\ Still \in SUBSET Task /\ Still' \in SUBSET Task
        /\ requests \in Nat /\ MaxRequests \in Nat
    BY <1>1, TasksAssumption DEF Over, Still
  <2>2. Over \subseteq Over' /\ Still \subseteq Still'
    BY <1>3 DEF Over, Still, T!Terminal
  <2>3. Over # Over' \/ Still # Still'
    BY <1>1, <1>3 DEF Over, Still, T!Terminal
  <2> HIDE DEF Over, Still
  <2>4. /\ Cardinality(Over) \in Nat /\ Cardinality(Still) \in Nat
        /\ Cardinality(Over') \in Nat /\ Cardinality(Still') \in Nat
        /\ Cardinality(Over) <= Cardinality(Over') /\ Cardinality(Still) <= Cardinality(Still')
        /\ Over # Over' => Cardinality(Over) < Cardinality(Over')
        /\ Still # Still' => Cardinality(Still) < Cardinality(Still')
    BY <2>1, <2>2, TwoCounts
  <2> QED BY <1>1, <1>4, <2>1, <2>3, <2>4 DEF Receipted, LedgerInv
<1>9. \A u \in Task : FitsIn(task'[u].st, task'[u].events)
  <2> SUFFICES ASSUME NEW u \in Task PROVE FitsIn(task'[u].st, task'[u].events)
    OBVIOUS
  <2>1. FitsIn(task[u].st, task[u].events) /\ MaxEvents \in Nat /\ task[u].events \in Nat
    BY <1>4, TasksAssumption DEF LedgerInv, TaskRows
  <2> QED BY <1>3, <2>1 DEF FitsIn
<1>10. \A u \in Task : task'[u].st = "none" => task'[u] = T!NoTaskRow
  BY <1>3, <1>4 DEF LedgerInv
<1>11. LedgerInv'
  BY <1>6, <1>7, <1>8, <1>9, <1>10 DEF LedgerInv
<1>12. Agree(task')
  BY <1>3, <1>4 DEF Agree, Requests
<1>13. EndsQuietly
  BY <1>3 DEF EndsQuietly, Going
<1>14. LedgerMoves
  BY <1>1, <1>2, <1>11, <1>12, <1>13 DEF LedgerMoves, TasksInv, TasksTypeOK
<1> QED BY <1>1, <1>14, LedgerStep

LEMMA TasksInit == T!Init => TasksInv
<1> SUFFICES ASSUME T!Init PROVE TasksInv
  OBVIOUS
<1>1. TasksTypeOK
  BY DEF T!Init, TasksTypeOK, TaskRows, RunRows, RunSteps, T!NoTaskRow, T!NoRun
<1>2. \A t \in Task : task[t] = T!NoTaskRow /\ x[t] = T!NoRun
  BY DEF T!Init
<1>3. Receipted
  <2>1. Over \in SUBSET Task /\ Still \in SUBSET Task
    BY DEF Over, Still
  <2>2. Cardinality(Over) \in Nat /\ Cardinality(Still) \in Nat
    BY <2>1, TwoCounts
  <2> QED BY <2>2, TasksAssumption DEF T!Init, Receipted
<1>4. LedgerInv
  BY <1>2, <1>3, TasksAssumption
     DEF LedgerInv, OneGoing, Going, T!WaitingHasChildren, FitsIn, T!NoTaskRow
<1>5. Agree(task) /\ Shapes
  BY <1>2 DEF T!Init, Agree, Shapes, ShapeOf, AtWork, T!NoTaskRow, T!NoRun
<1> QED BY <1>1, <1>4, <1>5 DEF TasksInv

LEMMA TasksStep == TasksInv /\ [T!Next]_T!vars => Keeps
<1> SUFFICES ASSUME TasksInv, [T!Next]_T!vars PROVE Keeps
  OBVIOUS
<1>1. ASSUME NEW t \in Task, T!Execution(t) PROVE Keeps
  BY <1>1, ClaimStep, Permit1Step, OpenStep, Permit2Step, RevokeToolsStep, CancelledStep, Permit3Step,
     WaitStep, CompleteStep, StopStep, FailClosedStep, ReportStep, CloseStep, RenewStep DEF T!Execution
<1>2. ASSUME NEW t \in Task, T!Tools(t) PROVE Keeps
  BY <1>2, ToolStep, ToolDelegatesStep DEF T!Tools
<1>3. ASSUME NEW t \in Task, T!Send(t) \/ T!Cancel(t) \/ T!Expire(t) \/ T!StoppedByHand(t) PROVE Keeps
  BY <1>3, SendTaskStep, CancelStep, ExpireStep, StoppedByHandStep
<1>4. ASSUME NEW a \in T!Agent, T!Disconnect(a) \/ T!Connect(a) \/ T!HeartbeatEnds(a) \/ T!StopRunner(a)
      PROVE  Keeps
  BY <1>4, AbortStep, RestStep
<1>5. CASE T!LateArrives \/ T!LateIsDropped \/ T!Say \/ T!Control \/ UNCHANGED T!vars
  BY <1>5, LateArrivesStep, RestStep, SayStep
<1> QED BY <1>1, <1>2, <1>3, <1>4, <1>5 DEF T!Next

\* What the runners do is what the ledger has: types, the ledger's own order, an execution at work is
\* the one of its task, and no request that was given up ends what is at work.
THEOREM TasksInvHolds == T!Spec => []TasksInv
<1>1. TasksInv /\ [T!Next]_T!vars => TasksInv'
  BY TasksStep DEF Keeps
<1> QED BY TasksInit, <1>1, PTL DEF T!Spec

LEMMA RoomForTheEnd ==
  ASSUME TasksInv, NEW t \in Task, task[t].st \notin T!Terminal \cup {"none"}
  PROVE  T!Fits(t, MaxEvents) /\ requests < T!Reserve
<1>1. task[t] \in TaskRows /\ task[t].events \in Nat /\ requests \in Nat /\ MaxRequests \in Nat
  BY TasksAssumption DEF TasksInv, TasksTypeOK, TaskRows
<1>2. T!Fits(t, MaxEvents)
  <2>1. FitsIn(task[t].st, task[t].events) /\ MaxEvents \in Nat
    BY TasksAssumption DEF TasksInv, LedgerInv
  <2> QED BY <1>1, <2>1 DEF FitsIn, T!Fits, TaskRows
<1>3. requests < T!Reserve
  <2>1. /\ Over \in SUBSET Task /\ Still \in SUBSET Task /\ t \notin Over
    BY DEF Over, Still
  <2>2. /\ Cardinality(Over) < Cardinality(Task) /\ Cardinality(Still) <= Cardinality(Task)
        /\ Cardinality(Over) \in Nat /\ Cardinality(Still) \in Nat /\ Cardinality(Task) \in Nat
    BY <2>1, TwoCounts
  <2>3. Receipted
    BY DEF TasksInv, LedgerInv
  <2>4. requests <= MaxRequests + Cardinality(Over) + Cardinality(Still)
    BY <2>3 DEF Receipted
  <2> DEFINE a == Cardinality(Over)  b == Cardinality(Still)  n == Cardinality(Task)
  <2>5. T!Reserve = MaxRequests + 2 * n
    BY DEF T!Reserve, T!Cardinality, Cardinality
  <2> HIDE DEF a, b, n
  <2> QED BY <1>1, <2>2, <2>4, <2>5 DEF a, b, n
<1> QED BY <1>2, <1>3

\* README: "One active task per assignee/session"; saveTask and the ledger keep room for the end of
\* every task; resumeParent leaves no task waiting for nothing.
THEOREM TasksAreSoundHolds == T!Spec => []TasksAreSound
<1>1. TasksInv => TasksAreSound
  <2> SUFFICES ASSUME TasksInv PROVE TasksAreSound
    OBVIOUS
  <2>1. T!OneExecution
    BY DEF TasksInv, LedgerInv, OneGoing, Going, Agree, AtWork, T!OneExecution
  <2>2. T!EndIsNeverRefused
    BY RoomForTheEnd DEF T!EndIsNeverRefused
  <2>3. T!WaitingHasChildren
    BY DEF TasksInv, LedgerInv
  <2> QED BY <2>1, <2>2, <2>3 DEF TasksAreSound
<1> QED BY TasksInvHolds, <1>1, PTL

\* README: "Only an actual stopped process produces a stopped receipt"; handleTool, revokeTools: no
\* command goes to a device once the ledger has the end of the execution that wants it.
THEOREM StopsAreFinalHolds == T!Spec => StopsAreFinal
<1>1. TasksInv /\ [T!Next]_T!vars =>
        /\ [\A t \in Task : T!View(t) \in T!Active /\ task'[t].st = "cancelled"
               => ~x[t].proc /\ x[t].tool # "sent"]_T!vars
        /\ [\A t \in Task : x[t].tool # "sent" /\ x'[t].tool = "sent"
               => task[t].st \in T!Active /\ task[t].epoch = x[t].epoch]_T!vars
  <2> SUFFICES ASSUME TasksInv, [T!Next]_T!vars
               PROVE  /\ \A t \in Task : T!View(t) \in T!Active /\ task'[t].st = "cancelled"
                            => ~x[t].proc /\ x[t].tool # "sent"
                      /\ \A t \in Task : x[t].tool # "sent" /\ x'[t].tool = "sent"
                            => task[t].st \in T!Active /\ task[t].epoch = x[t].epoch
    OBVIOUS
  <2>1. EndsQuietly /\ SendsAtWork
    BY TasksStep DEF Keeps
  <2>2. \A t \in Task : T!View(t) \in T!Active => Going(t)
    BY ViewActive DEF TasksInv
  <2>3. \A t \in Task : Going(t) => task[t].st \in T!Active
    BY DEF Going, T!Active
  <2> QED BY <2>1, <2>2, <2>3 DEF EndsQuietly, SendsAtWork
<1> QED BY TasksInvHolds, <1>1, PTL DEF T!Spec, StopsAreFinal, T!StoppedIsStopped, T!NoEffectAfterEnd

(***************************************************************************)
(* RoomRelay: for any sockets and calls, and any limits.                   *)
(***************************************************************************)
FarEnds   == {"idle", "dial", "open", "done"}
NearEnds  == {"none", "open", "closed"}
CallSteps == {"none", "sent", "sender", "gone", "leader", "devices", "pending"} \cup R!Outcome
RunStates == {"none", "sent", "taken", "ok", "refused", "answered"}
AskStates == {"idle", "waiting", "disconnected"} \cup R!Outcome

RelayTypeOK ==
    /\ cl \in [R!Sock -> FarEnds] /\ srv \in [R!Sock -> NearEnds] /\ valid \in BOOLEAN
    /\ rs \in [Call -> CallSteps] /\ rc \in [Call -> R!Sock \cup {NoSock}] /\ was \in [Call -> BOOLEAN]
    /\ ls \in [Call -> RunStates] /\ cs \in [Call -> AskStates]
    /\ via \in [Call -> R!Sock \cup {NoSock}]
    /\ stored \in BOOLEAN /\ effects \in {0, 1} /\ timer \in BOOLEAN /\ closed \in BOOLEAN
    /\ cur \in ClientSock \cup {NoSock}

\* Sockets of a runtime that the relay has, also those that are closed but not yet detached.
OneRuntime == \A s, u \in connections \cap LeaderSock : s = u

\* Every answer "ok" on its way comes from a receipt.
Answered ==
    /\ stored <=> effects = 1
    /\ \A c \in Call : ls[c] = "ok" \/ rs[c] = "ok" \/ cs[c] = "ok" => stored

\* The only socket of the client that lives is its current one.
Retries ==
    /\ \A s \in ClientSock : cl[s] \in {"dial", "open"} => cur = s
    /\ R!NeverGivesUp

RelayInv == RelayTypeOK /\ OneRuntime /\ R!PendingIsOwned /\ R!PendingBound /\ Answered /\ Retries

LEMMA RelayCardinality == \A S : R!Cardinality(S) = Cardinality(S)
  BY DEF R!Cardinality, Cardinality

LEMMA FewerPending ==
  ASSUME NEW A \in SUBSET Call, NEW B \in SUBSET Call, A \subseteq B, R!Cardinality(B) <= MaxPending
  PROVE  R!Cardinality(A) <= MaxPending
<1>1. IsFiniteSet(B)
  BY RelayAssumption, FS_Subset
<1>2. Cardinality(A) <= Cardinality(B) /\ Cardinality(A) \in Nat /\ Cardinality(B) \in Nat
  BY <1>1, FS_Subset, FS_CardinalityType
<1>3. MaxPending \in Nat
  BY RelayAssumption
<1> QED BY <1>2, <1>3, RelayCardinality

\* A step that gives the relay no connection and makes no request wait.
LEMMA RelayShrinks ==
  ASSUME RelayInv, RelayTypeOK', connections' \subseteq connections, UNCHANGED <<stored, effects>>, Retries',
         \A c \in Call : rs'[c] = "pending" => rs[c] = "pending" /\ rc'[c] \in connections',
         \A c \in Call : ls'[c] = "ok" => ls[c] = "ok",
         \A c \in Call : rs'[c] = "ok" => rs[c] = "ok" \/ ls[c] = "ok",
         \A c \in Call : cs'[c] = "ok" => cs[c] = "ok" \/ rs[c] = "ok"
  PROVE  RelayInv'
<1>1. OneRuntime' /\ Answered'
  BY DEF RelayInv, OneRuntime, Answered
<1>2. R!Pending' \subseteq R!Pending /\ R!Pending \in SUBSET Call /\ R!Pending' \in SUBSET Call
  BY DEF R!Pending
<1>3. R!PendingIsOwned'
  BY DEF R!PendingIsOwned, R!Pending
<1>4. R!PendingBound'
  BY <1>2, FewerPending DEF RelayInv, R!PendingBound
<1> QED BY <1>1, <1>3, <1>4 DEF RelayInv

LEMMA RetriesStay ==
  ASSUME Retries, UNCHANGED <<cl, cur, timer, closed>>
  PROVE  Retries'
  BY DEF Retries, R!NeverGivesUp

\* detach and prune.
LEMMA OfflineOf ==
  ASSUME NEW r \in [Call -> CallSteps], NEW gone
  PROVE  /\ R!Offline(r, gone) \in [Call -> CallSteps]
         /\ \A c \in Call :
              /\ R!Offline(r, gone)[c] = "pending" => r[c] = "pending" /\ rc[c] \notin gone
              /\ R!Offline(r, gone)[c] = "ok" => r[c] = "ok"
  BY DEF R!Offline, CallSteps, R!Outcome

LEMMA CutOff ==
  ASSUME RelayTypeOK, NEW gone, R!Cut(gone)
  PROVE  connections' = connections \ gone /\ srv' \in [R!Sock -> NearEnds]
  BY DEF R!Cut, RelayTypeOK, NearEnds

LEMMA RelayRest ==
  ASSUME RelayInv, UNCHANGED <<connections, stored, effects, rs, rc, ls>>, RelayTypeOK', Retries',
         \A c \in Call : cs'[c] = "ok" => cs[c] = "ok" \/ rs[c] = "ok"
  PROVE  RelayInv'
<1>1. \A c \in Call : rs[c] = "pending" => rc[c] \in connections
  BY DEF RelayInv, R!PendingIsOwned, R!Pending
<1> QED BY <1>1, RelayShrinks

LEMMA AttachStep == ASSUME RelayInv, NEW s \in R!Sock, R!Attach(s) PROVE RelayInv'
<1>1. /\ UNCHANGED <<cl, valid, rc, via, was, ls, stored, effects, cs, cur, timer, closed>>
      /\ rs' = R!Offline(rs, R!Stale) /\ RelayTypeOK
      /\ R!Live = connections \ R!Stale
  BY DEF R!Attach, R!leader, R!client, RelayInv, R!Live
<1>2. CASE R!MayAttach(s)
  <2>1. /\ connections' = R!Live \cup {s}
        /\ srv' = [t \in R!Sock |-> IF t = s THEN "open" ELSE IF t \in R!Stale THEN "closed" ELSE srv[t]]
    BY <1>2 DEF R!Attach
  <2>2. RelayTypeOK'
    BY <1>1, <2>1, OfflineOf DEF RelayTypeOK, NearEnds
  <2>3. OneRuntime'
    BY <1>1, <1>2, <2>1 DEF RelayInv, OneRuntime, R!MayAttach
  <2>4. R!Pending' \subseteq R!Pending /\ R!Pending \in SUBSET Call /\ R!Pending' \in SUBSET Call
    BY <1>1, OfflineOf DEF R!Pending, RelayTypeOK
  <2>5. R!PendingBound'
    BY <2>4, FewerPending DEF RelayInv, R!PendingBound
  <2>6. R!PendingIsOwned'
    BY <1>1, <2>1, OfflineOf DEF R!Pending, R!PendingIsOwned, RelayInv, RelayTypeOK
  <2>7. Answered'
    BY <1>1, OfflineOf DEF Answered, RelayInv, RelayTypeOK
  <2> QED BY <1>1, <2>2, <2>3, <2>5, <2>6, <2>7, RetriesStay DEF RelayInv
<1>3. CASE ~R!MayAttach(s)
  <2>1. /\ connections' = R!Live
        /\ srv' = [t \in R!Sock |-> IF t \in R!Stale \cup {s} THEN "closed" ELSE srv[t]]
    BY <1>3 DEF R!Attach
  <2>2. RelayTypeOK'
    BY <1>1, <2>1, OfflineOf DEF RelayTypeOK, NearEnds
  <2>3. \A c \in Call : /\ rs'[c] = "pending" => rs[c] = "pending" /\ rc'[c] \in connections'
                        /\ rs'[c] = "ok" => rs[c] = "ok"
    BY <1>1, <2>1, OfflineOf DEF R!Pending, R!PendingIsOwned, RelayInv, RelayTypeOK
  <2> QED BY <1>1, <2>1, <2>2, <2>3, RetriesStay, RelayShrinks DEF RelayInv
<1> QED BY <1>2, <1>3

\* The relay detaches what is gone and settles a request of its own.
LEMMA DetachStep ==
  ASSUME RelayInv, NEW gone, R!Cut(gone), UNCHANGED <<cl, valid, ls, stored, effects, cur, timer, closed, via>>,
         rs' \in [Call -> CallSteps], rc' \in [Call -> R!Sock \cup {NoSock}], was' \in [Call -> BOOLEAN],
         cs' \in [Call -> AskStates],
         \A c \in Call : rs'[c] = "pending" => rs[c] = "pending" /\ rc'[c] = rc[c] /\ rc[c] \notin gone,
         \A c \in Call : rs'[c] = "ok" => rs[c] = "ok" \/ ls[c] = "ok",
         \A c \in Call : cs'[c] = "ok" => cs[c] = "ok" \/ rs[c] = "ok"
  PROVE  RelayInv'
<1>1. RelayTypeOK /\ Retries /\ R!PendingIsOwned
  BY DEF RelayInv
<1>2. connections' = connections \ gone /\ srv' \in [R!Sock -> NearEnds]
  BY <1>1, CutOff
<1>3. RelayTypeOK'
  BY <1>1, <1>2 DEF RelayTypeOK
<1>4. \A c \in Call : rs'[c] = "pending" => rs[c] = "pending" /\ rc'[c] \in connections'
  BY <1>1, <1>2 DEF R!PendingIsOwned, R!Pending
<1>5. Retries'
  BY <1>1, RetriesStay
<1> QED BY <1>2, <1>3, <1>4, <1>5, RelayShrinks

LEMMA DetachesStep ==
  ASSUME RelayInv, NEW s \in R!Sock, R!CloseArrives(s) \/ R!Silent(s) \/ R!Ping(s)
  PROVE  RelayInv'
<1>1. RelayTypeOK /\ UNCHANGED <<cl, valid, rc, via, was, ls, stored, effects, cs, cur, timer, closed>>
  BY DEF R!CloseArrives, R!Silent, R!Ping, R!leader, R!client, RelayInv
<1>2. CASE R!Silent(s)
  <2>1. UNCHANGED <<rs, srv, connections>>
    BY <1>2 DEF R!Silent
  <2>2. RelayTypeOK'
    BY <1>1, <2>1 DEF RelayTypeOK
  <2> QED BY <1>1, <2>1, <2>2, RetriesStay, RelayRest DEF RelayInv
<1>3. CASE R!CloseArrives(s) \/ R!Ping(s)
  <2>1. PICK gone : rs' = R!Offline(rs, gone) /\ R!Cut(gone)
    BY <1>3 DEF R!CloseArrives, R!Ping
  <2>2. /\ rs' \in [Call -> CallSteps]
        /\ \A c \in Call : rs'[c] = "pending" => rs[c] = "pending" /\ rc[c] \notin gone
        /\ \A c \in Call : rs'[c] = "ok" => rs[c] = "ok"
    BY <1>1, <2>1, OfflineOf DEF RelayTypeOK
  <2> QED BY <1>1, <2>1, <2>2, DetachStep DEF RelayTypeOK
<1> QED BY <1>2, <1>3

LEMMA ReceiveStep == ASSUME RelayInv, NEW k \in Call, R!Receive(k) PROVE RelayInv'
<1> DEFINE r == R!Set(k, IF via[k] \in R!Live THEN "sender" ELSE "gone")
<1>1. /\ RelayTypeOK /\ UNCHANGED <<cl, valid, rc, via, ls, stored, effects, cs, cur, timer, closed>>
      /\ R!Cut(R!Stale) /\ rs' = R!Offline(r, R!Stale) /\ was' = [was EXCEPT ![k] = valid]
  BY DEF R!Receive, R!Asked, R!leader, R!client, RelayInv
<1>2. /\ r \in [Call -> CallSteps] /\ \A c \in Call : r[c] \in {"pending", "ok"} => r[c] = rs[c]
  BY <1>1 DEF R!Set, RelayTypeOK, CallSteps
<1> HIDE DEF r
<1>3. /\ rs' \in [Call -> CallSteps]
      /\ \A c \in Call : rs'[c] = "pending" => rs[c] = "pending" /\ rc[c] \notin R!Stale
      /\ \A c \in Call : rs'[c] = "ok" => rs[c] = "ok"
  BY <1>1, <1>2, OfflineOf
<1> QED BY <1>1, <1>3, DetachStep DEF RelayTypeOK

\* A call up to its first await.
LEMMA BeginsOf ==
  ASSUME RelayTypeOK, NEW k \in Call, NEW r \in [Call -> CallSteps], R!Begins(k, r)
  PROVE  /\ rs' \in [Call -> CallSteps] /\ rc' \in [Call -> R!Sock \cup {NoSock}] /\ was' \in [Call -> BOOLEAN]
         /\ \A c \in Call : rs'[c] = "pending" => r[c] = "pending" /\ rc'[c] = rc[c]
         /\ \A c \in Call : rs'[c] = "ok" => r[c] = "ok"
<1>1. CASE (rs' = [r EXCEPT ![k] = "capacity"] \/ rs' = [r EXCEPT ![k] = "offline"]) /\ UNCHANGED <<rc, was>>
  BY <1>1 DEF RelayTypeOK, CallSteps, R!Outcome
<1>2. CASE \E s \in R!Leaders : rs' = [r EXCEPT ![k] = "leader"] /\ R!Bound(k, s) /\ R!Asked(k)
  <2>1. PICK s \in R!Leaders : rs' = [r EXCEPT ![k] = "leader"] /\ R!Bound(k, s) /\ R!Asked(k)
    BY <1>2
  <2>2. s \in R!Sock
    BY DEF R!Leaders, R!Sock
  <2> QED BY <2>1, <2>2 DEF R!Bound, R!Asked, RelayTypeOK, CallSteps
<1> QED BY <1>1, <1>2 DEF R!Begins

LEMMA HandleStep == ASSUME RelayInv, NEW k \in Call, R!Handle(k) PROVE RelayInv'
<1>1. RelayTypeOK /\ UNCHANGED <<cl, valid, via, ls, stored, effects, cs, cur, timer, closed>>
  BY DEF R!Handle, R!leader, R!client, RelayInv
<1> DEFINE r == R!Set(k, "gone")
<1>2. /\ r \in [Call -> CallSteps] /\ \A c \in Call : r[c] \in {"pending", "ok"} => r[c] = rs[c]
  BY <1>1 DEF R!Set, RelayTypeOK, CallSteps
<1> HIDE DEF r
<1>3. CASE rs' = R!Offline(r, {via[k]}) /\ R!Cut({via[k]}) /\ UNCHANGED <<rc, was>>
  <2>1. /\ rs' \in [Call -> CallSteps]
        /\ \A c \in Call : rs'[c] = "pending" => rs[c] = "pending" /\ rc[c] \notin {via[k]}
        /\ \A c \in Call : rs'[c] = "ok" => rs[c] = "ok"
    BY <1>2, <1>3, OfflineOf
  <2> QED BY <1>1, <1>3, <2>1, DetachStep DEF RelayTypeOK
<1>4. CASE rs' = r /\ UNCHANGED <<rc, was, srv, connections>>
  <2>1. RelayTypeOK'
    BY <1>1, <1>2, <1>4 DEF RelayTypeOK
  <2>2. \A c \in Call : rs'[c] = "pending" => rs[c] = "pending" /\ rc'[c] \in connections'
    BY <1>2, <1>4 DEF RelayInv, R!PendingIsOwned, R!Pending
  <2> QED BY <1>1, <1>2, <1>4, <2>1, <2>2, RetriesStay, RelayShrinks DEF RelayInv
<1>5. CASE R!Cut(R!Stale) /\ R!Begins(k, R!Offline(rs, R!Stale))
  <2> DEFINE r2 == R!Offline(rs, R!Stale)
  <2>1. /\ r2 \in [Call -> CallSteps]
        /\ \A c \in Call : r2[c] = "pending" => rs[c] = "pending" /\ rc[c] \notin R!Stale
        /\ \A c \in Call : r2[c] = "ok" => rs[c] = "ok"
    BY <1>1, OfflineOf DEF RelayTypeOK
  <2> HIDE DEF r2
  <2>2. /\ rs' \in [Call -> CallSteps] /\ rc' \in [Call -> R!Sock \cup {NoSock}] /\ was' \in [Call -> BOOLEAN]
        /\ \A c \in Call : rs'[c] = "pending" => r2[c] = "pending" /\ rc'[c] = rc[c]
        /\ \A c \in Call : rs'[c] = "ok" => r2[c] = "ok"
    BY <1>1, <1>5, <2>1, BeginsOf DEF r2
  <2> QED BY <1>1, <1>5, <2>1, <2>2, DetachStep DEF RelayTypeOK
<1> QED BY <1>3, <1>4, <1>5 DEF R!Handle, r

LEMMA HttpCallStep == ASSUME RelayInv, NEW k \in Call, R!HttpCall(k) PROVE RelayInv'
<1>1. /\ RelayTypeOK /\ UNCHANGED <<cl, valid, via, ls, stored, effects, cur, timer, closed>>
      /\ cs' = [cs EXCEPT ![k] = "waiting"]
      /\ R!Cut(R!Stale) /\ R!Begins(k, R!Offline(rs, R!Stale))
  BY DEF R!HttpCall, R!leader, RelayInv
<1> DEFINE r == R!Offline(rs, R!Stale)
<1>2. /\ r \in [Call -> CallSteps]
      /\ \A c \in Call : r[c] = "pending" => rs[c] = "pending" /\ rc[c] \notin R!Stale
      /\ \A c \in Call : r[c] = "ok" => rs[c] = "ok"
  BY <1>1, OfflineOf DEF RelayTypeOK
<1> HIDE DEF r
<1>3. /\ rs' \in [Call -> CallSteps] /\ rc' \in [Call -> R!Sock \cup {NoSock}] /\ was' \in [Call -> BOOLEAN]
      /\ \A c \in Call : rs'[c] = "pending" => r[c] = "pending" /\ rc'[c] = rc[c]
      /\ \A c \in Call : rs'[c] = "ok" => r[c] = "ok"
  BY <1>1, <1>2, BeginsOf DEF r
<1>4. cs' \in [Call -> AskStates] /\ \A c \in Call : cs'[c] = "ok" => cs[c] = "ok"
  BY <1>1 DEF RelayTypeOK, AskStates
<1> QED BY <1>1, <1>2, <1>3, <1>4, DetachStep

LEMMA AuthorizeLeaderStep == ASSUME RelayInv, NEW k \in Call, R!AuthorizeLeader(k) PROVE RelayInv'
<1>1. /\ RelayTypeOK /\ UNCHANGED <<cl, valid, rc, via, ls, stored, effects, cs, cur, timer, closed>>
      /\ was' = [was EXCEPT ![k] = TRUE] /\ rs[k] = "leader"
  BY DEF R!AuthorizeLeader, R!leader, R!client, RelayInv
<1>2. was' \in [Call -> BOOLEAN]
  BY <1>1 DEF RelayTypeOK
<1>3. CASE rs' = R!Offline(R!Set(k, "offline"), {rc[k]}) /\ R!Cut({rc[k]})
  <2> DEFINE r == R!Set(k, "offline")
  <2>1. /\ r \in [Call -> CallSteps] /\ \A c \in Call : r[c] \in {"pending", "ok"} => r[c] = rs[c]
    BY <1>1 DEF R!Set, RelayTypeOK, CallSteps, R!Outcome
  <2> HIDE DEF r
  <2>2. /\ rs' \in [Call -> CallSteps]
        /\ \A c \in Call : rs'[c] = "pending" => rs[c] = "pending" /\ rc[c] \notin {rc[k]}
        /\ \A c \in Call : rs'[c] = "ok" => rs[c] = "ok"
    BY <1>3, <2>1, OfflineOf DEF r
  <2> QED BY <1>1, <1>2, <1>3, <2>2, DetachStep DEF RelayTypeOK
<1>4. CASE rs' = R!Set(k, "devices") /\ UNCHANGED <<srv, connections>>
  <2>1. rs' \in [Call -> CallSteps] /\ \A c \in Call : rs'[c] \in {"pending", "ok"} => rs'[c] = rs[c]
    BY <1>1, <1>4 DEF R!Set, RelayTypeOK, CallSteps
  <2>2. RelayTypeOK'
    BY <1>1, <1>2, <1>4, <2>1 DEF RelayTypeOK
  <2>3. \A c \in Call : rs'[c] = "pending" => rs[c] = "pending" /\ rc'[c] \in connections'
    BY <1>1, <1>4, <2>1 DEF RelayInv, R!PendingIsOwned, R!Pending
  <2> QED BY <1>1, <1>4, <2>1, <2>2, <2>3, RetriesStay, RelayShrinks DEF RelayInv
<1> QED BY <1>3, <1>4 DEF R!AuthorizeLeader

\* The request goes to the leader if it still is, and if there still is room.
LEMMA DispatchStep == ASSUME RelayInv, NEW k \in Call, R!Dispatch(k) PROVE RelayInv'
<1> DEFINE r == R!Offline(rs, R!Stale)
<1>1. /\ RelayTypeOK
      /\ UNCHANGED <<cl, fresh, valid, rc, via, was, stored, effects, cs, cur, timer, closed>>
      /\ R!Cut(R!Stale)
      /\ IF ~R!StillOwned(k) THEN rs' = [r EXCEPT ![k] = "offline"] /\ UNCHANGED ls
         ELSE IF ~R!SpaceLeft(r) THEN rs' = [r EXCEPT ![k] = "capacity"] /\ UNCHANGED ls
         ELSE rs' = [r EXCEPT ![k] = "pending"] /\ ls' = [ls EXCEPT ![k] = "sent"]
  BY DEF R!Dispatch, R!client, RelayInv
<1>2. /\ r \in [Call -> CallSteps]
      /\ \A c \in Call : r[c] = "pending" => rs[c] = "pending" /\ rc[c] \notin R!Stale
      /\ \A c \in Call : r[c] = "ok" => rs[c] = "ok"
  BY <1>1, OfflineOf DEF RelayTypeOK
<1>3. connections' = connections \ R!Stale /\ srv' \in [R!Sock -> NearEnds]
  BY <1>1, CutOff
<1> HIDE DEF r
<1>4. CASE (rs' = [r EXCEPT ![k] = "offline"] \/ rs' = [r EXCEPT ![k] = "capacity"]) /\ UNCHANGED ls
  <2>1. /\ rs' \in [Call -> CallSteps]
        /\ \A c \in Call : rs'[c] = "pending" => rs[c] = "pending" /\ rc[c] \notin R!Stale
        /\ \A c \in Call : rs'[c] = "ok" => rs[c] = "ok"
    BY <1>2, <1>4 DEF CallSteps, R!Outcome
  <2> QED BY <1>1, <1>4, <2>1, DetachStep DEF RelayTypeOK
<1>5. CASE R!StillOwned(k) /\ R!SpaceLeft(r) /\ rs' = [r EXCEPT ![k] = "pending"] /\ ls' = [ls EXCEPT ![k] = "sent"]
  <2>1. RelayTypeOK'
    BY <1>1, <1>2, <1>3, <1>5 DEF RelayTypeOK, CallSteps, RunStates
  <2>2. OneRuntime' /\ Answered'
    BY <1>1, <1>2, <1>3, <1>5 DEF RelayInv, OneRuntime, Answered, RelayTypeOK
  <2>3. R!PendingIsOwned'
    BY <1>1, <1>2, <1>3, <1>5 DEF RelayInv, R!PendingIsOwned, R!Pending, R!StillOwned, R!Live
  <2>4. R!PendingBound'
    <3> DEFINE P == {d \in Call : r[d] = "pending"}
    <3>1. R!Cardinality(P) < MaxPending
      BY <1>5 DEF R!SpaceLeft
    <3>2. R!Pending' = P \cup {k}
      BY <1>2, <1>5 DEF R!Pending
    <3>3. IsFiniteSet(P)
      BY RelayAssumption, FS_Subset
    <3> HIDE DEF P
    <3>4. Cardinality(P \cup {k}) <= Cardinality(P) + 1 /\ Cardinality(P) \in Nat
          /\ Cardinality(P \cup {k}) \in Nat
      <4>1. CASE k \in P
        <5>1. P \cup {k} = P
          BY <4>1
        <5>2. Cardinality(P \cup {k}) = Cardinality(P)
          BY <5>1
        <5>3. Cardinality(P) \in Nat
          BY <3>3, FS_CardinalityType
        <5> QED BY <5>2, <5>3
      <4>2. CASE k \notin P
        <5>1. Cardinality(P) \in Nat /\ Cardinality(P \cup {k}) = Cardinality(P) + 1
          BY <3>3, <4>2, FS_AddElement, FS_CardinalityType
        <5> QED BY <5>1
      <4> QED BY <4>1, <4>2
    <3>5. MaxPending \in Nat
      BY RelayAssumption
    <3> QED BY <3>1, <3>2, <3>4, <3>5, RelayCardinality DEF R!PendingBound
  <2> QED BY <1>1, <2>1, <2>2, <2>3, <2>4, RetriesStay DEF RelayInv
<1> QED BY <1>1, <1>4, <1>5 DEF r

LEMMA ResultArrivesStep == ASSUME RelayInv, NEW k \in Call, R!ResultArrives(k) PROVE RelayInv'
<1> DEFINE gone == IF rc[k] \in R!Live /\ ~valid THEN R!Stale \cup {rc[k]} ELSE R!Stale
<1> DEFINE r == R!Offline(rs, gone)
<1>1. /\ RelayTypeOK
      /\ UNCHANGED <<cl, fresh, valid, rc, via, was, stored, effects, cs, cur, timer, closed>>
      /\ R!Cut(gone) /\ ls[k] \in {"ok", "refused"} /\ ls' = [ls EXCEPT ![k] = "answered"]
      /\ rs' = [r EXCEPT ![k] = ls[k]] \/ rs' = r
  BY DEF R!ResultArrives, R!client, RelayInv
<1>2. /\ r \in [Call -> CallSteps]
      /\ \A c \in Call : r[c] = "pending" => rs[c] = "pending" /\ rc[c] \notin gone
      /\ \A c \in Call : r[c] = "ok" => rs[c] = "ok"
  BY <1>1, OfflineOf DEF RelayTypeOK
<1>3. connections' = connections \ gone /\ srv' \in [R!Sock -> NearEnds]
  BY <1>1, CutOff
<1> HIDE DEF r, gone
<1>4. /\ rs' \in [Call -> CallSteps]
      /\ \A c \in Call : rs'[c] = "pending" => rs[c] = "pending" /\ rc[c] \notin gone
      /\ \A c \in Call : rs'[c] = "ok" => rs[c] = "ok" \/ ls[c] = "ok"
  <2>1. CASE rs' = r
    BY <1>2, <2>1
  <2>2. CASE rs' = [r EXCEPT ![k] = ls[k]]
    BY <1>1, <1>2, <2>2 DEF CallSteps, R!Outcome
  <2> QED BY <1>1, <2>1, <2>2
<1>5. ls' \in [Call -> RunStates] /\ \A c \in Call : ls'[c] = "ok" => ls[c] = "ok"
  BY <1>1 DEF RelayTypeOK, RunStates
<1>6. RelayTypeOK'
  BY <1>1, <1>3, <1>4, <1>5 DEF RelayTypeOK
<1>7. \A c \in Call : rs'[c] = "pending" => rs[c] = "pending" /\ rc'[c] \in connections'
  BY <1>1, <1>3, <1>4 DEF RelayInv, R!PendingIsOwned, R!Pending
<1> QED BY <1>1, <1>3, <1>4, <1>5, <1>6, <1>7, RetriesStay, RelayShrinks DEF RelayInv

\* Steps of the leader.
LEMMA LeaderStep ==
  ASSUME RelayInv, NEW k \in Call, R!LeaderTimeout(k) \/ R!LeaderTakes(k) \/ R!LeaderRuns(k)
  PROVE  RelayInv'
<1>1. /\ RelayTypeOK /\ UNCHANGED <<cl, srv, connections, valid, rc, via, was, cs, cur, timer, closed>>
  BY DEF R!LeaderTimeout, R!LeaderTakes, R!LeaderRuns, R!relay, R!leader, R!client, RelayInv
<1>2. Retries'
  BY <1>1, RetriesStay DEF RelayInv
<1>3. R!PendingIsOwned
  BY DEF RelayInv
<1>4. CASE R!LeaderTimeout(k) \/ R!LeaderTakes(k)
  <2>1. /\ UNCHANGED <<stored, effects>>
        /\ (rs' = [rs EXCEPT ![k] = "timeout"] /\ ls' = ls) \/ (ls' = [ls EXCEPT ![k] = "taken"] /\ rs' = rs)
    BY <1>4 DEF R!LeaderTimeout, R!LeaderTakes, R!relay, R!leader, R!Set
  <2>2. /\ rs' \in [Call -> CallSteps] /\ ls' \in [Call -> RunStates]
        /\ \A c \in Call : rs'[c] \in {"pending", "ok"} => rs'[c] = rs[c]
        /\ \A c \in Call : ls'[c] = "ok" => ls[c] = "ok"
    BY <1>1, <2>1 DEF RelayTypeOK, CallSteps, R!Outcome, RunStates
  <2>3. RelayTypeOK'
    BY <1>1, <2>1, <2>2 DEF RelayTypeOK
  <2>4. \A c \in Call : rs'[c] = "pending" => rs[c] = "pending" /\ rc'[c] \in connections'
    BY <1>1, <1>3, <2>2 DEF R!PendingIsOwned, R!Pending
  <2> QED BY <1>1, <1>2, <2>1, <2>2, <2>3, <2>4, RelayShrinks
<1>5. CASE R!LeaderRuns(k)
  <2>1. /\ rs' = rs
        /\ \/ stored /\ ls' = [ls EXCEPT ![k] = "ok"] /\ UNCHANGED <<stored, effects>>
           \/ ~stored /\ ls' = [ls EXCEPT ![k] = "ok"] /\ stored' = TRUE /\ effects' = effects + 1
           \/ ls' = [ls EXCEPT ![k] = "refused"] /\ UNCHANGED <<stored, effects>>
    BY <1>5 DEF R!LeaderRuns, R!Known, R!relay
  <2>2. stored <=> effects = 1
    BY DEF RelayInv, Answered
  <2>3. ls' \in [Call -> RunStates] /\ stored' \in BOOLEAN /\ effects' \in {0, 1}
        /\ (stored' <=> effects' = 1) /\ (stored => stored')
    <3>1. ls' \in [Call -> RunStates]
      BY <1>1, <2>1 DEF RelayTypeOK, RunStates
    <3>2. CASE UNCHANGED <<stored, effects>>
      BY <1>1, <2>2, <3>1, <3>2 DEF RelayTypeOK
    <3>3. CASE ~stored /\ stored' = TRUE /\ effects' = effects + 1
      <4>1. effects = 0
        BY <1>1, <2>2, <3>3 DEF RelayTypeOK
      <4>2. effects' = 1
        BY <3>3, <4>1
      <4> QED BY <3>1, <3>3, <4>2
    <3> QED BY <2>1, <3>2, <3>3
  <2>4. RelayTypeOK'
    BY <1>1, <2>1, <2>3 DEF RelayTypeOK
  <2>5. \A c \in Call : ls'[c] = "ok" => ls[c] = "ok" \/ stored'
    BY <1>1, <2>1 DEF RelayTypeOK
  <2>6. Answered'
    BY <1>1, <2>1, <2>3, <2>5 DEF RelayInv, Answered
  <2>7. R!Pending' = R!Pending
    BY <2>1 DEF R!Pending
  <2> QED BY <1>1, <1>2, <1>3, <2>1, <2>4, <2>6, <2>7
          DEF RelayInv, OneRuntime, R!PendingIsOwned, R!PendingBound
<1> QED BY <1>4, <1>5

\* Steps of the far ends.
LEMMA FarStep ==
  ASSUME RelayInv, NEW s \in R!Sock, R!DialLeader(s) \/ R!Ready(s) \/ R!EndsLeader(s) \/ R!EndsClient(s)
  PROVE  RelayInv'
<1>1. /\ RelayTypeOK /\ Retries
      /\ UNCHANGED <<srv, fresh, connections, rs, rc, via, was, valid, ls, stored, effects, closed>>
  BY DEF R!DialLeader, R!Ready, R!EndsLeader, R!EndsClient, R!relay, R!leader, R!client, RelayInv
<1>2. /\ cl' = [cl EXCEPT ![s] = cl'[s]] /\ cl'[s] \in FarEnds
      /\ cl'[s] \in {"dial", "open"} => s \in LeaderSock \/ cl[s] = "dial"
      /\ cs' \in [Call -> AskStates] /\ \A c \in Call : cs'[c] = "ok" => cs[c] = "ok"
  BY <1>1 DEF R!DialLeader, R!Ready, R!EndsLeader, R!EndsClient, R!Finish, R!leader, R!client,
              RelayTypeOK, FarEnds, AskStates
<1>3. LeaderSock \cap ClientSock = {} /\ NoSock \notin R!Sock
  BY RelayAssumption DEF R!Sock
<1>4. /\ timer' \in BOOLEAN /\ cur' \in ClientSock \cup {NoSock}
      /\ closed \/ cur' # NoSock \/ timer'
      /\ cur' # cur => cur = s /\ cl'[s] = "done"
  <2>1. CASE R!DialLeader(s) \/ R!EndsLeader(s)
    BY <1>1, <2>1 DEF R!DialLeader, R!EndsLeader, R!client, RelayTypeOK, Retries, R!NeverGivesUp
  <2>2. CASE R!Ready(s)
    BY <1>1, <1>3, <2>2 DEF R!Ready, RelayTypeOK, Retries, R!NeverGivesUp, R!Sock
  <2>3. CASE R!EndsClient(s)
    BY <1>1, <2>3 DEF R!EndsClient, R!Retry, R!Finish, RelayTypeOK, Retries, R!NeverGivesUp
  <2> QED BY <2>1, <2>2, <2>3
<1>5. RelayTypeOK'
  BY <1>1, <1>2, <1>4 DEF RelayTypeOK
<1>6. Retries'
  BY <1>1, <1>2, <1>3, <1>4 DEF Retries, R!NeverGivesUp, RelayTypeOK, R!Sock
<1> QED BY <1>1, <1>2, <1>5, <1>6, RelayRest

LEMMA ClientStep ==
  ASSUME RelayInv, R!ConnectClient \/ R!Shutdown \/ R!Revoke
  PROVE  RelayInv'
<1>1. /\ RelayTypeOK /\ Retries
      /\ UNCHANGED <<srv, fresh, connections, rs, rc, via, was, ls, stored, effects>>
  BY DEF R!ConnectClient, R!Shutdown, R!Revoke, R!relay, R!leader, RelayInv
<1>2. LeaderSock \cap ClientSock = {} /\ NoSock \notin R!Sock
  BY RelayAssumption DEF R!Sock
<1>3. CASE R!ConnectClient
  <2>1. UNCHANGED <<valid, cs, closed>> /\ cur = NoSock /\ ~closed
    BY <1>3 DEF R!ConnectClient
  <2>2. CASE \E s \in ClientSock : cl[s] = "idle" /\ cur' = s /\ cl' = [cl EXCEPT ![s] = "dial"] /\ timer' \in {timer, FALSE}
    <3>1. PICK s \in ClientSock : cl[s] = "idle" /\ cur' = s /\ cl' = [cl EXCEPT ![s] = "dial"]
      BY <2>2
    <3>2. RelayTypeOK'
      BY <1>1, <2>1, <2>2, <3>1 DEF RelayTypeOK, FarEnds
    <3>3. Retries'
      BY <1>1, <1>2, <2>1, <3>1 DEF RelayTypeOK, Retries, R!NeverGivesUp, R!Sock
    <3> QED BY <1>1, <2>1, <3>2, <3>3, RelayRest
  <2>3. CASE timer' = R!Retry /\ UNCHANGED <<cur, cl>>
    <3>1. timer' = TRUE
      BY <2>1, <2>3 DEF R!Retry
    <3>2. RelayTypeOK' /\ Retries'
      BY <1>1, <2>1, <2>3, <3>1 DEF RelayTypeOK, Retries, R!NeverGivesUp
    <3> QED BY <1>1, <2>1, <3>2, RelayRest
  <2> QED BY <1>3, <2>2, <2>3 DEF R!ConnectClient
<1>4. CASE R!Shutdown
  <2>1. /\ valid' = valid /\ closed' = TRUE /\ timer' = FALSE /\ cur' = NoSock
        /\ IF cur # NoSock THEN R!Finish(cur) ELSE UNCHANGED <<cl, cs>>
    BY <1>4 DEF R!Shutdown
  <2>2. /\ cl' \in [R!Sock -> FarEnds] /\ cs' \in [Call -> AskStates]
        /\ \A c \in Call : cs'[c] = "ok" => cs[c] = "ok"
        /\ \A s \in ClientSock : cl'[s] \notin {"dial", "open"}
    <3>1. CASE cur = NoSock
      BY <1>1, <1>2, <2>1, <3>1 DEF RelayTypeOK, FarEnds, Retries, R!Sock
    <3>2. CASE cur # NoSock
      <4>1. cur \in R!Sock /\ \A s \in ClientSock : s \in R!Sock
        BY <1>1, <3>2 DEF RelayTypeOK, R!Sock
      <4>2. /\ cl' = [cl EXCEPT ![cur] = "done"]
            /\ cs' = [c \in Call |-> IF cs[c] = "waiting" /\ via[c] = cur THEN "disconnected" ELSE cs[c]]
        BY <2>1, <3>2 DEF R!Finish
      <4>3. cl' \in [R!Sock -> FarEnds] /\ \A s \in ClientSock : cl'[s] \notin {"dial", "open"}
        BY <1>1, <4>1, <4>2 DEF RelayTypeOK, FarEnds, Retries
      <4>4. cs' \in [Call -> AskStates] /\ \A c \in Call : cs'[c] = "ok" => cs[c] = "ok"
        BY <1>1, <4>2 DEF RelayTypeOK, AskStates
      <4> QED BY <4>3, <4>4
    <3> QED BY <3>1, <3>2
  <2>3. RelayTypeOK' /\ Retries'
    BY <1>1, <2>1, <2>2 DEF RelayTypeOK, Retries, R!NeverGivesUp
  <2> QED BY <1>1, <2>1, <2>2, <2>3, RelayRest
<1>5. CASE R!Revoke
  <2>1. UNCHANGED <<cl, cs, cur, timer, closed>> /\ valid' = FALSE
    BY <1>5 DEF R!Revoke, R!client
  <2>2. RelayTypeOK' /\ Retries'
    BY <1>1, <2>1, RetriesStay DEF RelayTypeOK
  <2> QED BY <1>1, <2>1, <2>2, RelayRest
<1> QED BY <1>3, <1>4, <1>5

\* Calls of the client.
LEMMA AskStep ==
  ASSUME RelayInv, NEW k \in Call, R!Ask(k) \/ R!Reply(k) \/ R!RequestTimeout(k)
  PROVE  RelayInv'
<1>1. /\ RelayTypeOK /\ Retries
      /\ UNCHANGED <<cl, srv, fresh, connections, rc, was, valid, ls, stored, effects, cur, timer, closed>>
  BY DEF R!Ask, R!Reply, R!RequestTimeout, R!relay, R!leader, RelayInv
<1>2. Retries'
  BY <1>1, RetriesStay
<1>3. CASE R!Ask(k)
  <2>1. /\ cs' = [cs EXCEPT ![k] = "waiting"] /\ rs' = [rs EXCEPT ![k] = "sent"] /\ via' = [via EXCEPT ![k] = cur]
    BY <1>3 DEF R!Ask, R!Set
  <2>2. /\ rs' \in [Call -> CallSteps] /\ cs' \in [Call -> AskStates]
        /\ \A c \in Call : rs'[c] \in {"pending", "ok"} => rs'[c] = rs[c]
        /\ \A c \in Call : cs'[c] = "ok" => cs[c] = "ok"
    BY <1>1, <2>1 DEF RelayTypeOK, CallSteps, AskStates
  <2>3. RelayTypeOK'
    BY <1>1, <2>1, <2>2 DEF RelayTypeOK, R!Sock
  <2>4. \A c \in Call : rs'[c] = "pending" => rs[c] = "pending" /\ rc'[c] \in connections'
    BY <1>1, <2>2 DEF RelayInv, R!PendingIsOwned, R!Pending
  <2> QED BY <1>1, <1>2, <2>2, <2>3, <2>4, RelayShrinks
<1>4. CASE R!Reply(k) \/ R!RequestTimeout(k)
  <2>1. /\ UNCHANGED <<rs, via>>
        /\ \/ rs[k] \in R!Outcome /\ cs' = [cs EXCEPT ![k] = rs[k]]
           \/ cs' = [cs EXCEPT ![k] = "timeout"]
    BY <1>4 DEF R!Reply, R!RequestTimeout, R!relay
  <2>2. cs' \in [Call -> AskStates] /\ \A c \in Call : cs'[c] = "ok" => cs[c] = "ok" \/ rs[c] = "ok"
    BY <1>1, <2>1 DEF RelayTypeOK, AskStates, R!Outcome
  <2>3. RelayTypeOK'
    BY <1>1, <2>1, <2>2 DEF RelayTypeOK
  <2> QED BY <1>1, <1>2, <2>1, <2>2, <2>3, RelayRest
<1> QED BY <1>3, <1>4

LEMMA RelayInit == R!Init => RelayInv
<1> SUFFICES ASSUME R!Init PROVE RelayInv
  OBVIOUS
<1>1. RelayTypeOK
  BY DEF R!Init, RelayTypeOK, FarEnds, NearEnds, CallSteps, RunStates, AskStates
<1>2. R!Pending = {}
  BY DEF R!Init, R!Pending
<1>3. R!PendingBound
  BY <1>2, RelayCardinality, FS_EmptySet, RelayAssumption DEF R!PendingBound
<1> QED BY <1>1, <1>2, <1>3
        DEF R!Init, RelayInv, OneRuntime, R!PendingIsOwned, Answered, Retries, R!NeverGivesUp, R!Sock

\* The relay has one runtime, what waits is its own and within the limit, the receipt stands for the
\* effect, and the client's socket that lives is its current one.
THEOREM RelayInvHolds == R!Spec => []RelayInv
<1>1. RelayInv /\ [R!Next]_R!vars => RelayInv'
  <2> SUFFICES ASSUME RelayInv, [R!Next]_R!vars PROVE RelayInv'
    OBVIOUS
  <2>1. ASSUME NEW s \in R!Sock,
               \/ R!Attach(s) \/ R!CloseArrives(s) \/ R!Silent(s) \/ R!Ping(s)
               \/ R!DialLeader(s) \/ R!Ready(s) \/ R!EndsLeader(s) \/ R!EndsClient(s)
        PROVE  RelayInv'
    BY <2>1, AttachStep, DetachesStep, FarStep
  <2>2. ASSUME NEW c \in Call,
               \/ R!Receive(c) \/ R!Handle(c) \/ R!HttpCall(c) \/ R!AuthorizeLeader(c) \/ R!Dispatch(c)
               \/ R!LeaderTimeout(c) \/ R!ResultArrives(c) \/ R!LeaderTakes(c) \/ R!LeaderRuns(c)
               \/ R!Ask(c) \/ R!Reply(c) \/ R!RequestTimeout(c)
        PROVE  RelayInv'
    BY <2>2, ReceiveStep, HandleStep, HttpCallStep, AuthorizeLeaderStep, DispatchStep, LeaderStep,
       ResultArrivesStep, AskStep
  <2>3. CASE R!ConnectClient \/ R!Shutdown \/ R!Revoke
    BY <2>3, ClientStep
  <2>4. CASE UNCHANGED R!vars
    <3>1. RelayTypeOK' /\ Retries'
      BY <2>4, RetriesStay DEF RelayInv, RelayTypeOK, R!vars
    <3> QED BY <2>4, <3>1, RelayRest DEF R!vars
  <2> QED BY <2>1, <2>2, <2>3, <2>4 DEF R!Next
<1> QED BY RelayInit, <1>1, PTL DEF R!Spec

\* attach: "an accidental second start cannot steal a live leader"; detach: a request waits only for a
\* leader that is connected; call: the limit holds over its two awaits; README: "retain requestId for
\* retry"; room-client: a client that was not shut down is connected, connecting or will try again.
THEOREM RelayIsSoundHolds == R!Spec => []RelayIsSound
<1>1. RelayInv => RelayIsSound
  <2> SUFFICES ASSUME RelayInv PROVE RelayIsSound
    OBVIOUS
  <2>1. R!OneLeader
    <3> DEFINE L == {s \in connections \cap LeaderSock : srv[s] = "open"}
    <3>1. \A s, u \in L : s = u
      BY DEF RelayInv, OneRuntime
    <3>2. L = {} \/ \E s : L = {s}
      BY <3>1
    <3>3. Cardinality(L) <= 1
      <4> HIDE DEF L
      <4>1. CASE L = {}
        BY <4>1, FS_EmptySet
      <4>2. CASE \E s : L = {s}
        <5>1. PICK s : L = {s}
          BY <4>2
        <5>2. Cardinality({s}) = 1
          BY FS_Singleton
        <5> QED BY <5>1, <5>2
      <4> QED BY <3>2, <4>1, <4>2
    <3> QED BY <3>3, RelayCardinality DEF R!OneLeader
  <2>2. R!OneEffect
    BY DEF RelayInv, RelayTypeOK, Answered, R!OneEffect
  <2> QED BY <2>1, <2>2 DEF RelayInv, Retries, RelayIsSound
<1> QED BY RelayInvHolds, <1>1, PTL
=============================================================================

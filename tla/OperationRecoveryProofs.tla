---------------------- MODULE OperationRecoveryProofs ----------------------
(***************************************************************************)
(* Proofs about OperationRecovery for any processes, operations, commands  *)
(* and deliveries, with and without failing disks and overlapping          *)
(* processes.                                                              *)
(***************************************************************************)
EXTENDS MC_Deliveries, TLAPS, FiniteSetTheorems, Sequences

LEMMA InitTypeOK == Init => TypeOK
  BY DEF Init, TypeOK, Code, Rows, NoRow, Absent, Receipt, Receipts, Panes, NoPane, Unsettled,
         Silence, Reply, Replies, CallSteps, QuerySteps, Kinds

\* The rows, replies and outcomes the handlers compute are well-formed.
LEMMA ReadBackType ==
  ASSUME NEW f \in Receipts \cup {Absent, Corrupt}
  PROVE  ReadBack(f) \in Rows \cup {NoRow}
  BY DEF ReadBack, IsReceipt, Receipts, Absent, Corrupt, Rows, NoRow, Receipt

(***************************************************************************)
(* A goroutine that has started knows its envelope.                        *)
(***************************************************************************)
Addressed ==
  /\ \A c \in Call : pc[c] # "idle" => proc[c] \in Proc /\ key[c] \in Key /\ cmd[c] \in Input
  /\ \A c \in Call : held[c] => pc[c] # "idle"
  /\ \A q \in Query : qpc[q] # "idle" => qproc[q] \in Proc /\ qkey[q] \in Key

\* A step of a started call moves only its own pc, and away from "idle".
LEMMA CallAddressed ==
  ASSUME TypeOK, Addressed, NEW c \in Call, NEW s \in CallSteps \ {"idle"},
         pc[c] # "idle",
         pc' = [pc EXCEPT ![c] = s], UNCHANGED <<proc, key, cmd, held, qpc, qproc, qkey>>
  PROVE  Addressed'
  BY DEF TypeOK, Addressed

LEMMA AddressedStep ==
  ASSUME TypeOK, Addressed, [Next]_vars PROVE Addressed'
<1> USE DEF At, Goto, procVars, callVars, queryVars, CallSteps
<1>1. ASSUME NEW p \in Proc, Start(p) \/ SetClosed(p) \/ Die(p) PROVE Addressed'
  BY <1>1 DEF Start, SetClosed, Die, Addressed
<1>2. ASSUME NEW p \in Proc, NEW k \in Key, RetirePane(p, k) PROVE Addressed'
  BY <1>2 DEF RetirePane, Addressed
<1>3. ASSUME NEW c \in Call, NEW p \in Proc, NEW k \in Key, NEW i \in Input,
             Dispatch(c, p, k, i)
      PROVE  Addressed'
  BY <1>3 DEF Dispatch, Addressed, TypeOK
<1>4. ASSUME NEW c \in Call, CallStep(c) PROVE Addressed'
  <2>1. CASE ReplyUpdateBusy(c)  BY <2>1, CallAddressed DEF ReplyUpdateBusy
  <2>2. CASE FindRow(c)          BY <2>2, CallAddressed DEF FindRow
  <2>3. CASE ReplyStoredRun(c)   BY <2>3, CallAddressed DEF ReplyStoredRun
  <2>4. CASE CreateIntent(c)     BY <2>4, CallAddressed DEF CreateIntent
  <2>5. CASE SealIntent(c)       BY <2>5, CallAddressed DEF SealIntent
  <2>6. CASE HandleRun(c)        BY <2>6, CallAddressed DEF HandleRun
  <2>7. CASE SpawnPane(c)        BY <2>7, CallAddressed DEF SpawnPane
  <2>8. CASE PollFinished(c)     BY <2>8, CallAddressed DEF PollFinished
  <2>9. CASE RecordDone(c)       BY <2>9, CallAddressed DEF RecordDone
  <2>10. CASE SendResult(c)      BY <2>10, CallAddressed DEF SendResult
  <2> QED BY <1>4, <2>1, <2>2, <2>3, <2>4, <2>5, <2>6, <2>7, <2>8, <2>9, <2>10 DEF CallStep
<1>5. ASSUME NEW c \in Call, Release(c) PROVE Addressed'
  BY <1>5 DEF Release, Addressed, TypeOK
<1>6. ASSUME NEW c \in Call, Approve(c) \/ RejectPending(c) \/ PaneExit(c) PROVE Addressed'
  BY <1>6, CallAddressed DEF Approve, RejectPending, PaneExit
<1>7. ASSUME NEW q \in Query, HandleResultQuery(q) PROVE Addressed'
  <2>1. ASSUME NEW p \in Proc, NEW k \in Key, SnapshotAdmission(q, p, k) PROVE Addressed'
    BY <2>1 DEF SnapshotAdmission, Addressed, TypeOK
  <2>2. CASE ReadRow(q)     BY <2>2 DEF ReadRow, Addressed, TypeOK
  <2>3. CASE ReplyQuery(q)  BY <2>3 DEF ReplyQuery, Addressed, TypeOK
  <2> QED BY <1>7, <2>1, <2>2, <2>3 DEF HandleResultQuery
<1>8. CASE UNCHANGED vars
  BY <1>8 DEF vars, Addressed
<1> QED BY <1>1, <1>2, <1>3, <1>4, <1>5, <1>6, <1>7, <1>8 DEF Next

(***************************************************************************)
(* Types.                                                                  *)
(***************************************************************************)

\* What a handler computes from a row, an envelope and a code is well-formed.
LEMMA ReplyType ==
  ASSUME NEW who \in Call \cup Query, NEW k \in Key \cup {Nobody}, NEW kind \in Kinds,
         NEW x \in Code, NEW f \in BOOLEAN
  PROVE  Reply(who, k, kind, x, f) \in Replies
  BY DEF Reply, Replies

LEMMA Codes == {0, Failed, Refused} \subseteq Code
  BY DEF Code

LEMMA KindNames == {"accepted", "done", "unknown", "conflict", "notStarted"} \subseteq Kinds
  BY DEF Kinds

LEMMA FixedReplyType ==
  ASSUME NEW who \in Call \cup Query, NEW k \in Key \cup {Nobody}
  PROVE  Unreadable(who, k) \in Replies /\ NotStarted(who, k) \in Replies
  BY ReplyType, Codes, KindNames DEF Unreadable, NotStarted

LEMMA EnvelopeType ==
  ASSUME NEW who \in Call \cup Query, NEW k \in Key, NEW row \in Rows \cup {NoRow}
  PROVE  Envelope(who, k, row) \in Replies
<1>1. CASE row = NoRow
  BY <1>1, ReplyType, Codes, KindNames DEF Envelope
<1>2. CASE row # NoRow
  <2>1. row.code \in Code
    BY <1>2 DEF Rows
  <2> QED BY <1>2, <2>1, ReplyType, Codes, KindNames DEF Envelope
<1> QED BY <1>1, <1>2

LEMMA AnswerType ==
  ASSUME TypeOK, NEW who \in Call \cup Query, NEW p \in Proc, NEW k \in Key,
         NEW row \in Rows \cup {NoRow}
  PROVE  Answer(who, p, k, row) \in Replies
<1>1. pane[p][k].code \in Code
  BY DEF TypeOK, Panes
<1> QED BY <1>1, EnvelopeType, ReplyType, KindNames DEF Answer

LEMMA Update2 ==
  ASSUME NEW A, NEW B, NEW C, NEW f \in [A -> [B -> C]], NEW a \in A, NEW b \in B, NEW v \in C
  PROVE  [f EXCEPT ![a][b] = v] \in [A -> [B -> C]]
  OBVIOUS

LEMMA StoredReplyType ==
  ASSUME TypeOK, NEW c \in Call, proc[c] \in Proc, key[c] \in Key, NEW row \in Rows \cup {NoRow}
  PROVE  StoredReply(c, proc[c], row) \in Replies
<1>1. Answer(c, proc[c], key[c], row) \in Replies
  BY AnswerType
<1> QED BY <1>1, ReplyType, Codes, KindNames DEF StoredReply

LEMMA ProcessType ==
  ASSUME TypeOK, NEW p \in Proc, Start(p) \/ SetClosed(p) \/ Die(p)
  PROVE  TypeOK'
<1>1. CASE Start(p)
  BY <1>1 DEF TypeOK, Start, callVars, ghostVars, queryVars
<1>2. CASE SetClosed(p)
  BY <1>2 DEF TypeOK, SetClosed, callVars, ghostVars, queryVars
<1>3. CASE Die(p)
  BY <1>3 DEF TypeOK, Die, callVars, ghostVars, queryVars, NoRow, Receipt, Panes, NoPane, Code
<1> QED BY <1>1, <1>2, <1>3

LEMMA DispatchType ==
  ASSUME TypeOK, NEW c \in Call, NEW p \in Proc, NEW k \in Key, NEW i \in Input,
         Dispatch(c, p, k, i)
  PROVE  TypeOK'
<1>1. /\ pc' \in [Call -> CallSteps]
      /\ proc' \in [Call -> Proc \cup {Nobody}]
      /\ key' \in [Call -> Key \cup {Nobody}]
      /\ cmd' \in [Call -> Input \cup {Nobody}]
  BY DEF Dispatch, Goto, TypeOK, CallSteps
<1>2. held' \in [Call -> BOOLEAN]
  BY DEF Dispatch, TypeOK
<1>5. admitted' \in [Proc -> [Key -> Int]]
  <2>1. admitted \in [Proc -> [Key -> Int]] /\ admitted[p][k] + 1 \in Int
    BY DEF TypeOK
  <2>2. [admitted EXCEPT ![p][k] = admitted[p][k] + 1] \in [Proc -> [Key -> Int]]
    BY <2>1, Update2
  <2> QED BY <2>1, <2>2 DEF Dispatch
<1>3. before' \in [Call \cup Query -> Receipts \cup {Absent, Corrupt}]
  BY DEF Dispatch, TypeOK
<1>4. UNCHANGED <<life, closed, opLock, ops, pane, disk, async, copy, outcome, ghostVars,
                  queryVars, said>>
  BY DEF Dispatch
<1> QED BY <1>1, <1>2, <1>3, <1>4, <1>5 DEF TypeOK, ghostVars, queryVars

\* The row a handler finds: in memory, else read back from the file.
LEMMA RowType ==
  ASSUME TypeOK, NEW p \in Proc, NEW k \in Key
  PROVE  (IF ops[p][k] # NoRow THEN ops[p][k] ELSE ReadBack(disk[k])) \in Rows \cup {NoRow}
<1>1. ops[p][k] \in Rows \cup {NoRow} /\ disk[k] \in Receipts \cup {Absent, Corrupt}
  BY DEF TypeOK
<1> QED BY <1>1, ReadBackType

LEMMA ReplyUpdateBusyType ==
  ASSUME TypeOK, Addressed, NEW c \in Call, ReplyUpdateBusy(c) PROVE TypeOK'
<1> DEFINE p == proc[c]
           k == key[c]
           row == IF ops[p][k] # NoRow THEN ops[p][k] ELSE ReadBack(disk[k])
<1>1. p \in Proc /\ k \in Key
  BY DEF ReplyUpdateBusy, At, Addressed
<1>2. row \in Rows \cup {NoRow}
  BY <1>1, RowType
<1>3. said' \in Replies
  <2>1. StoredReply(c, p, row) \in Replies
    BY <1>1, <1>2, StoredReplyType
  <2>2. said' \in {Unreadable(c, k), NotStarted(c, k), StoredReply(c, p, row)}
    BY DEF ReplyUpdateBusy, BusyReply
  <2> QED BY <1>1, <2>1, <2>2, FixedReplyType
<1>4. pc' \in [Call -> CallSteps]
  BY DEF ReplyUpdateBusy, Goto, TypeOK, CallSteps
<1> QED BY <1>3, <1>4 DEF ReplyUpdateBusy, TypeOK, procVars, ghostVars, queryVars

LEMMA FindRowType ==
  ASSUME TypeOK, Addressed, NEW c \in Call, FindRow(c) PROVE TypeOK'
<1> DEFINE p == proc[c]
           k == key[c]
           row == IF ops[p][k] # NoRow THEN ops[p][k] ELSE ReadBack(disk[k])
<1>1. p \in Proc /\ k \in Key
  BY DEF FindRow, At, Addressed
<1>2. row \in Rows \cup {NoRow}
  BY <1>1, RowType
<1>3. pc' \in [Call -> CallSteps]
  BY DEF FindRow, Goto, TypeOK, CallSteps
<1>4. said' \in Replies
  <2>1. said' \in {Unreadable(c, k), said}
    BY DEF FindRow
  <2> QED BY <1>1, <2>1, FixedReplyType DEF TypeOK
<1>5. ops' \in [Proc -> [Key -> Rows \cup {NoRow}]]
  <2>1. ops' = [ops EXCEPT ![p][k] = row] \/ ops' = ops
    BY DEF FindRow
  <2>2. ops \in [Proc -> [Key -> Rows \cup {NoRow}]]
    BY DEF TypeOK
  <2> HIDE DEF p, k, row
  <2>3. [ops EXCEPT ![p][k] = row] \in [Proc -> [Key -> Rows \cup {NoRow}]]
    BY <1>1, <1>2, <2>2, Update2
  <2> QED BY <2>1, <2>2, <2>3
<1>6. copy' \in [Call -> Rows \cup {NoRow}]
  <2>1. copy' = [copy EXCEPT ![c] = row] \/ copy' = copy
    BY DEF FindRow
  <2> QED BY <1>2, <2>1 DEF TypeOK
<1>7. opLock' \in [Proc -> Call \cup {Nobody}]
  BY DEF FindRow, TypeOK
<1> QED BY <1>3, <1>4, <1>5, <1>6, <1>7 DEF FindRow, TypeOK, ghostVars, queryVars

LEMMA ReplyStoredRunType ==
  ASSUME TypeOK, Addressed, NEW c \in Call, ReplyStoredRun(c) PROVE TypeOK'
<1>1. proc[c] \in Proc /\ key[c] \in Key /\ copy[c] \in Rows \cup {NoRow}
  BY DEF ReplyStoredRun, At, Addressed, TypeOK
<1>2. said' \in Replies
  BY <1>1, StoredReplyType DEF ReplyStoredRun
<1>3. pc' \in [Call -> CallSteps] /\ copy' \in [Call -> Rows \cup {NoRow}]
  BY DEF ReplyStoredRun, Goto, TypeOK, CallSteps
<1> QED BY <1>2, <1>3 DEF ReplyStoredRun, TypeOK, procVars, ghostVars, queryVars

LEMMA CreateIntentType ==
  ASSUME TypeOK, Addressed, NEW c \in Call, CreateIntent(c) PROVE TypeOK'
<1>1. key[c] \in Key
  BY DEF CreateIntent, At, Addressed
<1>2. said' \in Replies
  BY <1>1, FixedReplyType DEF CreateIntent, TypeOK
<1>3. pc' \in [Call -> CallSteps] /\ opLock' \in [Proc -> Call \cup {Nobody}]
  BY DEF CreateIntent, Goto, TypeOK, CallSteps
<1>4. disk' \in [Key -> Receipts \cup {Absent, Corrupt}]
  BY DEF CreateIntent, TypeOK
<1> QED BY <1>2, <1>3, <1>4 DEF CreateIntent, TypeOK, ghostVars, queryVars

\* What is put on disk for a started call is a receipt, and a row in memory.
LEMMA ReceiptType ==
  ASSUME NEW i \in Input, NEW s \in {"running", "done"}, NEW x \in Code
  PROVE  Receipt(i, s, x) \in Receipts /\ Receipt(i, s, x) \in Rows \cup {NoRow}
  BY DEF Receipt, Receipts, Rows

LEMMA SettledType ==
  ASSUME NEW x \in Code PROVE Settled(x) \in [settled : BOOLEAN, code : Code]
  BY DEF Settled

LEMMA SealIntentType ==
  ASSUME TypeOK, Addressed, NEW c \in Call, SealIntent(c) PROVE TypeOK'
<1> DEFINE p == proc[c]
           k == key[c]
           row == Receipt(cmd[c], "running", 0)
<1>1. p \in Proc /\ k \in Key /\ cmd[c] \in Input
  BY DEF SealIntent, At, Addressed
<1>2. row \in Receipts /\ row \in Rows \cup {NoRow}
  BY <1>1, ReceiptType, Codes
<1>3. said' \in Replies
  BY <1>1, FixedReplyType DEF SealIntent, TypeOK
<1>4. pc' \in [Call -> CallSteps] /\ opLock' \in [Proc -> Call \cup {Nobody}]
  BY DEF SealIntent, Goto, TypeOK, CallSteps
<1>5. disk' \in [Key -> Receipts \cup {Absent, Corrupt}]
  <2>1. disk' = [disk EXCEPT ![k] = row] \/ disk' = disk
    BY DEF SealIntent
  <2> QED BY <1>2, <2>1 DEF TypeOK
<1>6. ops' \in [Proc -> [Key -> Rows \cup {NoRow}]]
  <2>1. ops' = [ops EXCEPT ![p][k] = row] \/ ops' = ops
    BY DEF SealIntent
  <2>2. ops \in [Proc -> [Key -> Rows \cup {NoRow}]]
    BY DEF TypeOK
  <2> HIDE DEF p, k, row
  <2>3. [ops EXCEPT ![p][k] = row] \in [Proc -> [Key -> Rows \cup {NoRow}]]
    BY <1>1, <1>2, <2>2, Update2
  <2> QED BY <2>1, <2>2, <2>3
<1> QED BY <1>3, <1>4, <1>5, <1>6 DEF SealIntent, TypeOK, ghostVars, queryVars

LEMMA ConsentType ==
  ASSUME TypeOK, NEW c \in Call,
         HandleRun(c) \/ Approve(c) \/ RejectPending(c) \/ PollFinished(c)
  PROVE  TypeOK'
<1>1. CASE HandleRun(c)
  <2>1. pc' \in [Call -> CallSteps] /\ async' \in [Call -> BOOLEAN]
    BY <1>1 DEF HandleRun, Goto, TypeOK, CallSteps
  <2>2. outcome' = outcome \/ \E x \in Code : outcome' = [outcome EXCEPT ![c] = Settled(x)]
    BY <1>1, Codes DEF HandleRun
  <2>3. outcome' \in [Call -> [settled : BOOLEAN, code : Code]]
    BY <2>2, SettledType DEF TypeOK
  <2> QED BY <1>1, <2>1, <2>3 DEF HandleRun, TypeOK, procVars, ghostVars, queryVars
<1>2. CASE Approve(c)
  BY <1>2 DEF Approve, Goto, TypeOK, CallSteps, procVars, ghostVars, queryVars
<1>3. CASE RejectPending(c)
  BY <1>3, Codes DEF RejectPending, Goto, Settled, TypeOK, CallSteps, procVars, ghostVars,
                     queryVars
<1>4. CASE PollFinished(c)
  BY <1>4 DEF PollFinished, Goto, TypeOK, CallSteps, procVars, ghostVars, queryVars
<1> QED BY <1>1, <1>2, <1>3, <1>4

LEMMA SpawnPaneType ==
  ASSUME TypeOK, Addressed, NEW c \in Call, SpawnPane(c) PROVE TypeOK'
<1> DEFINE p == proc[c]
           k == key[c]
           live == [state |-> "live", code |-> 0]
<1>1. p \in Proc /\ k \in Key /\ cmd[c] \in Input
  BY DEF SpawnPane, At, Addressed
<1>2. said' \in Replies
  <2>1. said' = said \/ said' = Reply(c, k, "accepted", 0, FALSE)
    BY DEF SpawnPane
  <2>2. Reply(c, k, "accepted", 0, FALSE) \in Replies
    BY <1>1, ReplyType, Codes, KindNames
  <2> QED BY <2>1, <2>2 DEF TypeOK
<1>3. /\ pc' \in [Call -> CallSteps]
      /\ async' \in [Call -> BOOLEAN]
      /\ outcome' \in [Call -> [settled : BOOLEAN, code : Code]]
  <2>1. /\ pc' = [pc EXCEPT ![c] = "running"] \/ pc' = [pc EXCEPT ![c] = "finish"]
        /\ async' = async \/ async' = [async EXCEPT ![c] = TRUE]
        /\ outcome' = outcome \/ outcome' = [outcome EXCEPT ![c] = Settled(Failed)]
    BY DEF SpawnPane, Goto
  <2>2. Settled(Failed) \in [settled : BOOLEAN, code : Code]
    BY SettledType, Codes
  <2>3. pc' \in [Call -> CallSteps]
    BY <2>1 DEF TypeOK, CallSteps
  <2>4. async' \in [Call -> BOOLEAN]
    BY <2>1 DEF TypeOK
  <2>5. outcome' \in [Call -> [settled : BOOLEAN, code : Code]]
    BY <2>1, <2>2 DEF TypeOK
  <2> QED BY <2>3, <2>4, <2>5
<1>4. starts' \in [Key -> Nat] /\ ran' \in [Key -> SUBSET Input]
  <2>1. /\ starts' = starts \/ starts' = [starts EXCEPT ![k] = starts[k] + 1]
        /\ ran' = ran \/ ran' = [ran EXCEPT ![k] = ran[k] \cup {cmd[c]}]
    BY DEF SpawnPane, ghostVars
  <2>2. starts \in [Key -> Nat] /\ ran \in [Key -> SUBSET Input] /\ starts[k] + 1 \in Nat
        /\ ran[k] \cup {cmd[c]} \in SUBSET Input
    BY <1>1 DEF TypeOK
  <2> HIDE DEF k
  <2> QED BY <1>1, <2>1, <2>2
<1>5. pane' \in [Proc -> [Key -> Panes]]
  <2>1. pane' = [pane EXCEPT ![p][k] = live] \/ pane' = pane
    BY DEF SpawnPane
  <2>2. pane \in [Proc -> [Key -> Panes]] /\ live \in Panes
    BY Codes DEF TypeOK, Panes
  <2> HIDE DEF p, k, live
  <2>3. [pane EXCEPT ![p][k] = live] \in [Proc -> [Key -> Panes]]
    BY <1>1, <2>2, Update2
  <2> QED BY <2>1, <2>2, <2>3
<1> QED BY <1>2, <1>3, <1>4, <1>5 DEF SpawnPane, TypeOK, queryVars

LEMMA PaneExitType ==
  ASSUME TypeOK, Addressed, NEW c \in Call, PaneExit(c) PROVE TypeOK'
<1> DEFINE p == proc[c]
           k == key[c]
<1>1. p \in Proc /\ k \in Key
  BY DEF PaneExit, At, Addressed
<1>2. PICK x \in Exit : /\ pane' = [pane EXCEPT ![p][k] = [state |-> "exited", code |-> x]]
                        /\ outcome' = [outcome EXCEPT ![c] = Settled(x)]
  BY DEF PaneExit
<1>3. x \in Code
  BY DEF Code
<1>4. outcome' \in [Call -> [settled : BOOLEAN, code : Code]]
  BY <1>2, <1>3 DEF Settled, TypeOK
<1>5. pc' \in [Call -> CallSteps]
  BY DEF PaneExit, Goto, TypeOK, CallSteps
<1>6. pane' \in [Proc -> [Key -> Panes]]
  <2> DEFINE gone == [state |-> "exited", code |-> x]
  <2>1. pane \in [Proc -> [Key -> Panes]] /\ gone \in Panes
    BY <1>3 DEF TypeOK, Panes
  <2>2. pane' = [pane EXCEPT ![p][k] = gone]
    BY <1>2
  <2> HIDE DEF p, k, gone
  <2> QED BY <1>1, <2>1, <2>2, Update2
<1> QED BY <1>4, <1>5, <1>6 DEF PaneExit, TypeOK, ghostVars, queryVars

LEMMA RetirePaneType ==
  ASSUME TypeOK, NEW p \in Proc, NEW k \in Key, RetirePane(p, k) PROVE TypeOK'
<1>1. pane \in [Proc -> [Key -> Panes]] /\ NoPane \in Panes
  BY Codes DEF TypeOK, Panes, NoPane
<1>2. pane' \in [Proc -> [Key -> Panes]]
  BY <1>1, Update2 DEF RetirePane
<1> QED BY <1>2 DEF RetirePane, TypeOK, callVars, ghostVars, queryVars

LEMMA RecordDoneType ==
  ASSUME TypeOK, Addressed, NEW c \in Call, RecordDone(c) PROVE TypeOK'
<1> DEFINE p == proc[c]
           k == key[c]
           row == Receipt(cmd[c], "done", outcome[c].code)
<1>1. p \in Proc /\ k \in Key /\ cmd[c] \in Input
  BY DEF RecordDone, At, Addressed
<1>2. row \in Receipts /\ row \in Rows \cup {NoRow}
  <2>1. outcome[c].code \in Code
    BY DEF TypeOK
  <2> QED BY <1>1, <2>1, ReceiptType
<1>3. pc' \in [Call -> CallSteps]
  BY DEF RecordDone, Goto, TypeOK, CallSteps
<1>4. disk' \in [Key -> Receipts \cup {Absent, Corrupt}]
  <2>1. disk' = [disk EXCEPT ![k] = row] \/ disk' = disk
    BY DEF RecordDone, Rewrite
  <2> QED BY <1>2, <2>1 DEF TypeOK
<1>5. ops' \in [Proc -> [Key -> Rows \cup {NoRow}]]
  <2>1. ops' = [ops EXCEPT ![p][k] = row]
    BY DEF RecordDone
  <2>2. ops \in [Proc -> [Key -> Rows \cup {NoRow}]]
    BY DEF TypeOK
  <2> HIDE DEF p, k, row
  <2> QED BY <1>1, <1>2, <2>1, <2>2, Update2
<1> QED BY <1>3, <1>4, <1>5 DEF RecordDone, TypeOK, ghostVars, queryVars

LEMMA SendResultType ==
  ASSUME TypeOK, Addressed, NEW c \in Call, SendResult(c) PROVE TypeOK'
<1>1. key[c] \in Key /\ outcome[c].code \in Code
  BY DEF SendResult, At, Addressed, TypeOK
<1>2. said' \in Replies
  BY <1>1, ReplyType, KindNames DEF SendResult
<1>3. pc' \in [Call -> CallSteps]
  BY DEF SendResult, Goto, TypeOK, CallSteps
<1> QED BY <1>2, <1>3 DEF SendResult, TypeOK, procVars, ghostVars, queryVars

LEMMA ReleaseType ==
  ASSUME TypeOK, Addressed, NEW c \in Call, Release(c) PROVE TypeOK'
<1>1. proc[c] \in Proc /\ key[c] \in Key
  BY DEF Release, Addressed
<1>2. admitted' \in [Proc -> [Key -> Int]]
  <2>1. admitted \in [Proc -> [Key -> Int]] /\ admitted[proc[c]][key[c]] - 1 \in Int
    BY <1>1 DEF TypeOK
  <2>2. [admitted EXCEPT ![proc[c]][key[c]] = admitted[proc[c]][key[c]] - 1]
          \in [Proc -> [Key -> Int]]
    BY <1>1, <2>1, Update2
  <2> QED BY <2>2 DEF Release
<1>3. held' \in [Call -> BOOLEAN]
  BY DEF Release, TypeOK
<1> QED BY <1>2, <1>3 DEF Release, TypeOK, ghostVars, queryVars

LEMMA QueryType ==
  ASSUME TypeOK, Addressed, NEW q \in Query, HandleResultQuery(q) PROVE TypeOK'
<1>1. ASSUME NEW p \in Proc, NEW k \in Key, SnapshotAdmission(q, p, k) PROVE TypeOK'
  <2>1. /\ qpc' \in [Query -> QuerySteps]
        /\ qproc' \in [Query -> Proc \cup {Nobody}]
        /\ qkey' \in [Query -> Key \cup {Nobody}]
        /\ qadm' \in [Query -> BOOLEAN]
        /\ qknown' \in [Query -> BOOLEAN]
        /\ before' \in [Call \cup Query -> Receipts \cup {Absent, Corrupt}]
    BY <1>1 DEF SnapshotAdmission, TypeOK, QuerySteps
  <2> QED BY <1>1, <2>1 DEF SnapshotAdmission, TypeOK, procVars, callVars, ghostVars
<1>2. CASE ReadRow(q)
  <2> DEFINE p == qproc[q]
             k == qkey[q]
             row == IF ops[p][k] # NoRow THEN ops[p][k] ELSE ReadBack(disk[k])
  <2>1. p \in Proc /\ k \in Key
    BY <1>2 DEF ReadRow, Addressed
  <2>2. row \in Rows \cup {NoRow}
    BY <2>1, RowType
  <2>3. StandIn(q) \in Rows \cup {NoRow}
    BY Codes DEF StandIn, Receipt, Rows
  <2>4. qrow' = [qrow EXCEPT ![q] = IF row = NoRow THEN StandIn(q) ELSE row] \/ qrow' = qrow
    BY <1>2 DEF ReadRow
  <2>5. qrow' \in [Query -> Rows \cup {NoRow}]
    <3> HIDE DEF row
    <3> QED BY <2>2, <2>3, <2>4 DEF TypeOK
  <2>6. qpc' \in [Query -> QuerySteps]
    <3>1. qpc' = [qpc EXCEPT ![q] = "unreadable"] \/ qpc' = [qpc EXCEPT ![q] = "reply"]
      BY <1>2 DEF ReadRow
    <3> QED BY <3>1 DEF TypeOK, QuerySteps
  <2> QED BY <1>2, <2>5, <2>6 DEF ReadRow, TypeOK, procVars, callVars, ghostVars
<1>3. CASE ReplyQuery(q)
  <2>1. qproc[q] \in Proc /\ qkey[q] \in Key /\ qrow[q] \in Rows \cup {NoRow}
    BY <1>3 DEF ReplyQuery, Addressed, TypeOK
  <2>2. said' \in Replies
    BY <1>3, <2>1, FixedReplyType, AnswerType DEF ReplyQuery
  <2>3. qpc' \in [Query -> QuerySteps] /\ qrow' \in [Query -> Rows \cup {NoRow}]
    BY <1>3 DEF ReplyQuery, TypeOK, QuerySteps
  <2> QED BY <1>3, <2>2, <2>3 DEF ReplyQuery, TypeOK, procVars, callVars, ghostVars
<1> QED BY <1>1, <1>2, <1>3 DEF HandleResultQuery

LEMMA NextTypeOK == TypeOK /\ Addressed /\ [Next]_vars => TypeOK'
<1> SUFFICES ASSUME TypeOK, Addressed, [Next]_vars PROVE TypeOK'
  OBVIOUS
<1>1. ASSUME NEW p \in Proc, Start(p) \/ SetClosed(p) \/ Die(p) PROVE TypeOK'
  BY <1>1, ProcessType
<1>2. ASSUME NEW p \in Proc, NEW k \in Key, RetirePane(p, k) PROVE TypeOK'
  BY <1>2, RetirePaneType
<1>3. ASSUME NEW c \in Call, NEW p \in Proc, NEW k \in Key, NEW i \in Input,
             Dispatch(c, p, k, i)
      PROVE  TypeOK'
  BY <1>3, DispatchType
<1>4. ASSUME NEW c \in Call, CallStep(c) PROVE TypeOK'
  BY <1>4, ReplyUpdateBusyType, FindRowType, ReplyStoredRunType, CreateIntentType,
     SealIntentType, ConsentType, SpawnPaneType, RecordDoneType, SendResultType DEF CallStep
<1>5. ASSUME NEW c \in Call, Release(c) \/ Approve(c) \/ RejectPending(c) \/ PaneExit(c)
      PROVE  TypeOK'
  BY <1>5, ReleaseType, ConsentType, PaneExitType
<1>6. ASSUME NEW q \in Query, HandleResultQuery(q) PROVE TypeOK'
  BY <1>6, QueryType
<1>7. CASE UNCHANGED vars
  BY <1>7 DEF vars, procVars, callVars, ghostVars, queryVars, TypeOK
<1> QED BY <1>1, <1>2, <1>3, <1>4, <1>5, <1>6, <1>7 DEF Next

\* Every reachable state is well-formed.
THEOREM TypeCorrect == Spec => [](TypeOK /\ Addressed)
<1>1. Init => TypeOK /\ Addressed
  BY InitTypeOK DEF Init, Addressed
<1>2. TypeOK /\ Addressed /\ [Next]_vars => (TypeOK /\ Addressed)'
  BY NextTypeOK, AddressedStep
<1> QED BY <1>1, <1>2, PTL DEF Spec


(***************************************************************************)
(* A command is launched at most once, after its receipt, and a completed  *)
(* receipt stands: OperationRecovery keeps the promise of OperationOnce    *)
(* for any deliveries, processes, crashes and disk faults.                 *)
(***************************************************************************)

Early == {"verdict", "consent", "spawn"}

\* An owner moves on without touching the receipt.
Advances(s, t) == /\ {s, t} \subseteq Owning \ {"seal", "send"}
                  /\ t \in Early => s \in Early

(***************************************************************************)
(* Most steps neither write a receipt nor launch anything.                 *)
(***************************************************************************)
LEMMA QuietStep ==
  ASSUME OwnershipInv, UNCHANGED <<disk, starts, ran>>,
         \A c \in Call : pc'[c] \in Owning =>
            /\ key'[c] = key[c] /\ cmd'[c] = cmd[c]
            /\ pc'[c] = pc[c] \/ Advances(pc[c], pc'[c])
  PROVE  OwnershipInv'
<1>1. Accounted'
  BY DEF OwnershipInv, Accounted
<1>2. ASSUME NEW c \in Call, pc'[c] \in Owning PROVE pc[c] \in Owning
  BY <1>2 DEF Advances
<1>3. Ownership'
  BY <1>2 DEF OwnershipInv, Ownership, Advances, Early, IsReceipt, Owning
<1> QED BY <1>1, <1>3 DEF OwnershipInv

\* The same, for a step that moves one call.
LEMMA QuietMove ==
  ASSUME TypeOK, OwnershipInv, NEW c \in Call, NEW t \in CallSteps,
         pc' = [pc EXCEPT ![c] = t], t \in Owning => Advances(pc[c], t),
         UNCHANGED <<disk, starts, ran, key, cmd>>
  PROVE  OwnershipInv'
<1>1. ASSUME NEW d \in Call, pc'[d] \in Owning
      PROVE  pc'[d] = pc[d] \/ Advances(pc[d], pc'[d])
  BY <1>1 DEF TypeOK
<1> QED BY <1>1, QuietStep

LEMMA CreateIntentOwns ==
  ASSUME TypeOK, Addressed, OwnershipInv, NEW c \in Call, CreateIntent(c)
  PROVE  OwnershipInv'
<1>1. CASE disk' = disk /\ pc' = [pc EXCEPT ![c] = "done"]
  BY <1>1, QuietMove DEF CreateIntent, CallSteps, Owning, ghostVars
<1>2. CASE /\ disk[key[c]] = Absent
           /\ disk' = [disk EXCEPT ![key[c]] = Corrupt]
           /\ pc' = [pc EXCEPT ![c] = "seal"]
  <2>1. /\ disk[key[c]] = Absent
        /\ disk' = [disk EXCEPT ![key[c]] = Corrupt]
        /\ pc' = [pc EXCEPT ![c] = "seal"]
        /\ key[c] \in Key
        /\ UNCHANGED <<starts, ran, key, cmd>>
    BY <1>2 DEF CreateIntent, Goto, At, Addressed, ghostVars
  <2>2. starts[key[c]] = 0
    BY <2>1 DEF OwnershipInv, Accounted, IsReceipt, Absent, Receipt
  <2>3. ASSUME NEW d \in Call, pc[d] \in Owning PROVE key[d] # key[c]
    BY <2>1, <2>3 DEF OwnershipInv, Ownership, IsReceipt, Absent, Corrupt, Receipt
  <2>4. ASSUME NEW d \in Call, pc[d] \in Owning PROVE disk'[key[d]] = disk[key[d]]
    <3>1. key[d] \in Key
      BY <2>4 DEF Addressed, Owning
    <3> QED BY <2>1, <2>3, <2>4, <3>1 DEF TypeOK
  <2>5. Accounted'
    BY <2>1, <2>2 DEF OwnershipInv, Accounted, TypeOK
  <2>6. ASSUME NEW d \in Call, d # c, pc'[d] \in Owning
        PROVE  pc[d] = pc'[d] /\ disk'[key[d]] = disk[key[d]]
    BY <2>1, <2>4, <2>6 DEF TypeOK
  <2>7. pc'[c] = "seal" /\ disk'[key[c]] = Corrupt
    BY <2>1 DEF TypeOK
  <2>8. Ownership'
    BY <2>1, <2>2, <2>3, <2>6, <2>7 DEF OwnershipInv, Ownership, IsReceipt, Owning
  <2> QED BY <2>5, <2>8 DEF OwnershipInv
<1> QED BY <1>1, <1>2 DEF CreateIntent, MayCreate, Goto

LEMMA SealIntentOwns ==
  ASSUME TypeOK, Addressed, OwnershipInv, NEW c \in Call, SealIntent(c)
  PROVE  OwnershipInv'
<1> DEFINE row == Receipt(cmd[c], "running", 0)
<1>1. /\ pc[c] = "seal" /\ key[c] \in Key
      /\ UNCHANGED <<starts, ran, key, cmd>>
  BY DEF SealIntent, At, Addressed, ghostVars
<1>2. /\ disk' = disk \/ disk' = [disk EXCEPT ![key[c]] = row]
      /\ \/ pc' = [pc EXCEPT ![c] = "done"]
         \/ pc' = [pc EXCEPT ![c] = "verdict"] /\ disk' = [disk EXCEPT ![key[c]] = row]
  BY DEF SealIntent, Goto
<1>3. starts[key[c]] = 0
  BY <1>1 DEF OwnershipInv, Ownership, Owning
<1>4. IsReceipt(row) /\ row.input = cmd[c] /\ row.status = "running"
  BY DEF IsReceipt, Receipt
<1> HIDE DEF row
<1>5. ASSUME NEW k \in Key, k # key[c] PROVE disk'[k] = disk[k]
  BY <1>2, <1>5 DEF TypeOK
<1>6. Accounted'
  BY <1>1, <1>3, <1>5 DEF OwnershipInv, Accounted
<1>7. ASSUME NEW d \in Call, d # c, pc'[d] \in Owning
      PROVE  pc[d] = pc'[d] /\ key[d] # key[c] /\ disk'[key[d]] = disk[key[d]]
  <2>1. pc[d] = pc'[d] /\ pc[d] \in Owning
    BY <1>2, <1>7 DEF TypeOK
  <2>2. key[d] # key[c] /\ key[d] \in Key
    BY <1>1, <1>7, <2>1 DEF OwnershipInv, Ownership, Addressed, Owning
  <2> QED BY <1>5, <2>1, <2>2
<1>8. \/ pc'[c] = "done"
      \/ pc'[c] = "verdict" /\ disk'[key[c]] = row
  BY <1>1, <1>2 DEF TypeOK
<1>9. Ownership'
  BY <1>1, <1>3, <1>4, <1>7, <1>8 DEF OwnershipInv, Ownership, IsReceipt, Owning
<1> QED BY <1>6, <1>9 DEF OwnershipInv

LEMMA SpawnPaneOwns ==
  ASSUME TypeOK, Addressed, OwnershipInv, NEW c \in Call, SpawnPane(c)
  PROVE  OwnershipInv'
<1>1. pc[c] = "spawn" /\ key[c] \in Key /\ UNCHANGED <<disk, key, cmd>>
  BY DEF SpawnPane, At, Addressed
<1>2. CASE UNCHANGED <<starts, ran>> /\ pc' = [pc EXCEPT ![c] = "finish"]
  BY <1>1, <1>2, QuietMove DEF Advances, Early, Owning, CallSteps
<1>3. CASE /\ pc' = [pc EXCEPT ![c] = "running"]
           /\ starts' = [starts EXCEPT ![key[c]] = starts[key[c]] + 1]
           /\ ran' = [ran EXCEPT ![key[c]] = ran[key[c]] \cup {cmd[c]}]
  <2>1. /\ starts[key[c]] = 0 /\ IsReceipt(disk[key[c]]) /\ disk[key[c]].input = cmd[c]
        /\ disk[key[c]].status = "running"
    BY <1>1 DEF OwnershipInv, Ownership, Owning
  <2>2. ran[key[c]] = {}
    BY <1>1, <2>1 DEF OwnershipInv, Accounted
  <2>3. starts'[key[c]] = 1 /\ ran'[key[c]] = {disk[key[c]].input}
    BY <1>1, <1>3, <2>1, <2>2 DEF TypeOK
  <2>4. ASSUME NEW k \in Key, k # key[c] PROVE starts'[k] = starts[k] /\ ran'[k] = ran[k]
    BY <1>3, <2>4 DEF TypeOK
  <2>5. Accounted'
    BY <1>1, <2>1, <2>3, <2>4 DEF OwnershipInv, Accounted
  <2>6. pc'[c] = "running"
    BY <1>3 DEF TypeOK
  <2>7. ASSUME NEW d \in Call, d # c, pc'[d] \in Owning
        PROVE  pc[d] = pc'[d] /\ key[d] # key[c] /\ starts'[key[d]] = starts[key[d]]
    <3>1. pc[d] = pc'[d] /\ pc[d] \in Owning
      BY <1>3, <2>7 DEF TypeOK
    <3>2. key[d] # key[c] /\ key[d] \in Key
      BY <1>1, <2>7, <3>1 DEF OwnershipInv, Ownership, Addressed, Owning
    <3> QED BY <2>4, <3>1, <3>2
  <2>8. Ownership'
    BY <1>1, <2>1, <2>6, <2>7 DEF OwnershipInv, Ownership, IsReceipt, Owning
  <2> QED BY <2>5, <2>8 DEF OwnershipInv
<1> QED BY <1>2, <1>3 DEF SpawnPane, Goto, ghostVars

LEMMA RecordDoneOwns ==
  ASSUME TypeOK, Addressed, OwnershipInv, NEW c \in Call, RecordDone(c)
  PROVE  OwnershipInv'
<1> DEFINE row == Receipt(cmd[c], "done", outcome[c].code)
<1>1. /\ pc[c] = "finish" /\ key[c] \in Key
      /\ UNCHANGED <<starts, ran, key, cmd>>
      /\ pc' = [pc EXCEPT ![c] = "send"]
      /\ disk' = disk \/ disk' = [disk EXCEPT ![key[c]] = row]
  BY DEF RecordDone, Rewrite, At, Goto, Addressed, ghostVars
<1>2. IsReceipt(disk[key[c]]) /\ disk[key[c]].input = cmd[c]
  BY <1>1 DEF OwnershipInv, Ownership, Owning
<1>3. IsReceipt(row) /\ row.input = cmd[c]
  BY DEF IsReceipt, Receipt
<1> HIDE DEF row
<1>4. IsReceipt(disk'[key[c]]) /\ disk'[key[c]].input = cmd[c]
  BY <1>1, <1>2, <1>3 DEF TypeOK
<1>5. ASSUME NEW k \in Key, k # key[c] PROVE disk'[k] = disk[k]
  BY <1>1, <1>5 DEF TypeOK
<1>6. Accounted'
  BY <1>1, <1>2, <1>4, <1>5 DEF OwnershipInv, Accounted, IsReceipt
<1>7. ASSUME NEW d \in Call, d # c, pc'[d] \in Owning
      PROVE  pc[d] = pc'[d] /\ key[d] # key[c] /\ disk'[key[d]] = disk[key[d]]
  <2>1. pc[d] = pc'[d] /\ pc[d] \in Owning
    BY <1>1, <1>7 DEF TypeOK
  <2>2. key[d] # key[c] /\ key[d] \in Key
    BY <1>1, <1>7, <2>1 DEF OwnershipInv, Ownership, Addressed, Owning
  <2> QED BY <1>5, <2>1, <2>2
<1>8. pc'[c] = "send"
  BY <1>1 DEF TypeOK
<1>9. Ownership'
  BY <1>1, <1>4, <1>7, <1>8 DEF OwnershipInv, Ownership, IsReceipt, Owning
<1> QED BY <1>6, <1>9 DEF OwnershipInv

LEMMA OwnershipStep ==
  TypeOK /\ Addressed /\ OwnershipInv /\ [Next]_vars => OwnershipInv'
<1> SUFFICES ASSUME TypeOK, Addressed, OwnershipInv, [Next]_vars PROVE OwnershipInv'
  OBVIOUS
<1> USE DEF Goto, At, callVars, ghostVars
<1>1. ASSUME NEW p \in Proc, Start(p) \/ SetClosed(p) \/ Die(p) PROVE OwnershipInv'
  BY <1>1, QuietStep DEF Start, SetClosed, Die
<1>2. ASSUME NEW p \in Proc, NEW k \in Key, RetirePane(p, k) PROVE OwnershipInv'
  BY <1>2, QuietStep DEF RetirePane
<1>3. ASSUME NEW c \in Call, NEW p \in Proc, NEW k \in Key, NEW i \in Input,
             Dispatch(c, p, k, i)
      PROVE  OwnershipInv'
  <2>1. ASSUME NEW d \in Call, pc'[d] \in Owning
        PROVE  key'[d] = key[d] /\ cmd'[d] = cmd[d] /\ pc'[d] = pc[d]
    BY <1>3, <2>1 DEF Dispatch, TypeOK, Owning
  <2> QED BY <1>3, <2>1, QuietStep DEF Dispatch
<1>4. ASSUME NEW c \in Call, CallStep(c) PROVE OwnershipInv'
  <2> USE DEF Advances, Early, Owning, CallSteps
  <2>1. CASE ReplyUpdateBusy(c) \/ FindRow(c) \/ ReplyStoredRun(c) \/ SendResult(c)
    BY <2>1, QuietMove DEF ReplyUpdateBusy, FindRow, ReplyStoredRun, SendResult
  <2>2. CASE HandleRun(c)
    BY <2>2, QuietMove DEF HandleRun
  <2>3. CASE PollFinished(c)
    BY <2>3, QuietMove DEF PollFinished
  <2> QED BY <1>4, <2>1, <2>2, <2>3, CreateIntentOwns, SealIntentOwns, SpawnPaneOwns,
             RecordDoneOwns DEF CallStep
<1>5. ASSUME NEW c \in Call, Release(c) PROVE OwnershipInv'
  BY <1>5, QuietStep DEF Release
<1>6. ASSUME NEW c \in Call, Approve(c) \/ RejectPending(c) \/ PaneExit(c)
      PROVE  OwnershipInv'
  BY <1>6, QuietMove DEF Approve, RejectPending, PaneExit, Advances, Early, Owning, CallSteps
<1>7. ASSUME NEW q \in Query, HandleResultQuery(q) PROVE OwnershipInv'
  BY <1>7, QuietStep DEF HandleResultQuery, SnapshotAdmission, ReadRow, ReplyQuery
<1>8. CASE UNCHANGED vars
  BY <1>8, QuietStep DEF vars
<1> QED BY <1>1, <1>2, <1>3, <1>4, <1>5, <1>6, <1>7, <1>8 DEF Next

\* No two calls own an operation, its receipt keeps pace with its owner, and
\* every launch is accounted for in a receipt.
THEOREM OwnershipHolds == Spec => []OwnershipInv
<1>1. Init => OwnershipInv
  BY DEF Init, OwnershipInv, Ownership, Accounted, Owning
<1> QED BY <1>1, OwnershipStep, TypeCorrect, PTL DEF Spec

(***************************************************************************)
(* The properties.                                                         *)
(***************************************************************************)

\* handleRecoverableRun "never executes an existing receipt again": over any
\* number of deliveries, crashes and overlapping processes.
THEOREM AtMostOnceHolds == Spec => []AtMostOnce
<1>1. TypeOK /\ OwnershipInv => AtMostOnce
  <2>1. ASSUME OwnershipInv, NEW k \in Key PROVE starts[k] \in {0, 1}
    BY <2>1 DEF OwnershipInv, Accounted
  <2> QED BY <2>1 DEF AtMostOnce
<1> QED BY <1>1, OwnershipHolds, TypeCorrect, PTL

\* "Persists intent before execution": whatever was launched has a receipt of
\* exactly that command.
THEOREM IntentPrecedesStartHolds == Spec => []IntentPrecedesStart
<1>1. OwnershipInv => IntentPrecedesStart
  BY DEF OwnershipInv, Accounted, IntentPrecedesStart
<1> QED BY <1>1, OwnershipHolds, PTL

\* What the run checks as one invariant: an operation is launched once, by its
\* owner and on the strength of its receipt, in every reachable state.
THEOREM OperationIsSafeHolds == Spec => []OperationIsSafe
BY TypeCorrect, OwnershipHolds, AtMostOnceHolds, IntentPrecedesStartHolds, PTL DEF OperationIsSafe

\* Receipts and launches change in four places only.
LEMMA Effects ==
  ASSUME [Next]_vars
  PROVE  \/ UNCHANGED <<disk, starts>>
         \/ \E c \in Call : CreateIntent(c) \/ SealIntent(c) \/ SpawnPane(c) \/ RecordDone(c)
<1> USE DEF ghostVars
<1>1. ASSUME NEW c \in Call,
             \/ ReplyUpdateBusy(c) \/ FindRow(c) \/ ReplyStoredRun(c) \/ HandleRun(c)
             \/ PollFinished(c) \/ SendResult(c)
             \/ Release(c) \/ Approve(c) \/ RejectPending(c) \/ PaneExit(c)
      PROVE  UNCHANGED <<disk, starts>>
  BY <1>1 DEF ReplyUpdateBusy, FindRow, ReplyStoredRun, HandleRun, PollFinished, SendResult,
              Release, Approve, RejectPending, PaneExit
<1>2. ASSUME \/ \E p \in Proc : Start(p) \/ SetClosed(p) \/ Die(p)
             \/ \E p \in Proc, k \in Key : RetirePane(p, k)
             \/ \E c \in Call, p \in Proc, k \in Key, i \in Input : Dispatch(c, p, k, i)
      PROVE  UNCHANGED <<disk, starts>>
  BY <1>2 DEF Start, SetClosed, Die, RetirePane, Dispatch
<1>3. ASSUME NEW q \in Query, HandleResultQuery(q) PROVE UNCHANGED <<disk, starts>>
  BY <1>3 DEF HandleResultQuery, SnapshotAdmission, ReadRow, ReplyQuery
<1>4. ASSUME UNCHANGED vars PROVE UNCHANGED <<disk, starts>>
  BY <1>4 DEF vars
<1> QED BY <1>1, <1>2, <1>3, <1>4 DEF Next, CallStep

LEMMA WriteAt ==
  ASSUME TypeOK, NEW j, NEW f, disk' = [disk EXCEPT ![j] = f], NEW k \in Key
  PROVE  disk'[k] = IF k = j THEN f ELSE disk[k]
<1>1. k \in DOMAIN disk
  BY DEF TypeOK
<1> QED BY <1>1

\* A completed receipt is never replaced.
THEOREM ReceiptIsFinalHolds == Spec => ReceiptIsFinal
<1>1. ASSUME TypeOK, Addressed, OwnershipInv, [Next]_vars
      PROVE  [\A k \in Key : disk[k].status = "done" => disk'[k] = disk[k]]_vars
  <2>1. ASSUME NEW k \in Key, disk[k].status = "done" PROVE disk'[k] = disk[k]
    <3>1. CASE UNCHANGED disk
      BY <3>1
    <3>2. ASSUME NEW c \in Call, CreateIntent(c) PROVE disk'[k] = disk[k]
      <4>1. \/ disk' = disk
            \/ disk[key[c]] = Absent /\ disk' = [disk EXCEPT ![key[c]] = Corrupt]
        BY <3>2 DEF CreateIntent, MayCreate
      <4>2. disk[k] # Absent
        BY <2>1 DEF Absent, Receipt
      <4> QED BY <1>1, <4>1, <4>2, WriteAt
    <3>3. ASSUME NEW c \in Call, SealIntent(c) \/ RecordDone(c) PROVE disk'[k] = disk[k]
      <4>1. pc[c] \in {"seal", "finish"}
        BY <3>3 DEF SealIntent, RecordDone, At
      <4>2. disk[key[c]].status \in {"corrupt", "running"}
        BY <1>1, <4>1 DEF OwnershipInv, Ownership, Owning, Corrupt, Receipt
      <4>3. key[c] # k
        BY <2>1, <4>2
      <4>4. \/ disk' = disk
            \/ disk' = [disk EXCEPT ![key[c]] = Receipt(cmd[c], "running", 0)]
            \/ disk' = [disk EXCEPT ![key[c]] = Receipt(cmd[c], "done", outcome[c].code)]
        BY <3>3 DEF SealIntent, RecordDone, Rewrite
      <4> QED BY <1>1, <4>3, <4>4, WriteAt
    <3>4. ASSUME NEW c \in Call, SpawnPane(c) PROVE disk'[k] = disk[k]
      BY <3>4 DEF SpawnPane
    <3> QED BY <1>1, <3>1, <3>2, <3>3, <3>4, Effects
  <2> QED BY <2>1
<1> QED BY <1>1, OwnershipHolds, TypeCorrect, PTL DEF Spec, ReceiptIsFinal

(***************************************************************************)
(* The promise of OperationOnce.                                           *)
(***************************************************************************)
LEMMA OnceInit == Init => Once!Init
  BY DEF Init, Once!Init, BoundOf, VerdictOf, Absent, Receipt

Bound   == [k \in Key |-> BoundOf(k)]
Verdict == [k \in Key |-> VerdictOf(k)]

LEMMA CreateIntentStutters ==
  ASSUME TypeOK, NEW c \in Call, CreateIntent(c)
  PROVE  UNCHANGED <<Bound, starts, Verdict>>
<1>1. ASSUME NEW k \in Key
      PROVE  disk'[k].input = disk[k].input /\ (disk'[k].status = "done" <=> disk[k].status = "done")
             /\ (disk[k].status = "done" => disk'[k] = disk[k])
  <2>1. \/ disk' = disk
        \/ disk[key[c]] = Absent /\ disk' = [disk EXCEPT ![key[c]] = Corrupt]
    BY DEF CreateIntent, MayCreate
  <2>2. disk'[k] = disk[k] \/ (disk[k] = Absent /\ disk'[k] = Corrupt)
    BY <2>1, WriteAt
  <2> QED BY <2>2 DEF Absent, Corrupt, Receipt
<1> QED BY <1>1 DEF CreateIntent, ghostVars, Bound, Verdict, BoundOf, VerdictOf

LEMMA SealIntentBinds ==
  ASSUME TypeOK, Addressed, OwnershipInv, NEW c \in Call, SealIntent(c)
  PROVE  [Once!Next]_<<Bound, starts, Verdict>>
<1>1. /\ key[c] \in Key /\ cmd[c] \in Input /\ pc[c] = "seal" /\ UNCHANGED starts
      /\ disk' = disk \/ disk' = [disk EXCEPT ![key[c]] = Receipt(cmd[c], "running", 0)]
  BY DEF SealIntent, At, Addressed, ghostVars
<1>2. disk[key[c]] = Corrupt
  BY <1>1 DEF OwnershipInv, Ownership, Owning
<1>3. CASE disk' = disk
  BY <1>1, <1>3 DEF Bound, Verdict, BoundOf, VerdictOf
<1>4. CASE disk' = [disk EXCEPT ![key[c]] = Receipt(cmd[c], "running", 0)]
  <2>1. Bound[key[c]] = Nobody
    BY <1>1, <1>2 DEF Bound, BoundOf, Corrupt, Receipt
  <2>2. Bound' = [Bound EXCEPT ![key[c]] = cmd[c]]
    BY <1>1, <1>4 DEF Bound, BoundOf, Receipt, TypeOK
  <2>3. Verdict' = Verdict
    BY <1>1, <1>2, <1>4 DEF Verdict, VerdictOf, Corrupt, Receipt, TypeOK
  <2>4. Once!Bind(key[c], cmd[c])
    BY <1>1, <2>1, <2>2, <2>3 DEF Once!Bind, Bound, Verdict
  <2> QED BY <1>1, <2>4 DEF Once!Next
<1> QED BY <1>1, <1>3, <1>4

LEMMA SpawnPaneLaunches ==
  ASSUME TypeOK, Addressed, OwnershipInv, NEW c \in Call, SpawnPane(c)
  PROVE  [Once!Next]_<<Bound, starts, Verdict>>
<1>1. /\ key[c] \in Key /\ cmd[c] \in Input /\ pc[c] = "spawn" /\ UNCHANGED disk
      /\ starts' = starts \/ starts' = [starts EXCEPT ![key[c]] = starts[key[c]] + 1]
  BY DEF SpawnPane, At, Addressed, ghostVars
<1>2. /\ starts[key[c]] = 0 /\ disk[key[c]].status = "running"
      /\ disk[key[c]].input = cmd[c]
  BY <1>1 DEF OwnershipInv, Ownership, Owning
<1>3. UNCHANGED <<Bound, Verdict>>
  BY <1>1 DEF Bound, Verdict, BoundOf, VerdictOf
<1>4. CASE starts' = [starts EXCEPT ![key[c]] = starts[key[c]] + 1]
  <2>1. starts' = [starts EXCEPT ![key[c]] = 1]
    BY <1>2, <1>4
  <2>2. Bound[key[c]] # Nobody /\ Verdict[key[c]] = <<>>
    BY <1>1, <1>2, NobodyAssumption DEF Bound, Verdict, BoundOf, VerdictOf
  <2>3. Once!Launch(key[c])
    BY <1>2, <1>3, <2>1, <2>2 DEF Once!Launch, Bound, Verdict
  <2> QED BY <1>1, <2>3 DEF Once!Next
<1> QED BY <1>1, <1>3, <1>4

LEMMA RecordDoneDecides ==
  ASSUME TypeOK, Addressed, OwnershipInv, NEW c \in Call, RecordDone(c)
  PROVE  [Once!Next]_<<Bound, starts, Verdict>>
<1> DEFINE x == outcome[c].code
           row == Receipt(cmd[c], "done", x)
<1>1. /\ key[c] \in Key /\ cmd[c] \in Input /\ pc[c] = "finish" /\ UNCHANGED starts
      /\ disk' = disk \/ disk' = [disk EXCEPT ![key[c]] = row]
  BY DEF RecordDone, Rewrite, At, Addressed, ghostVars
<1>2. disk[key[c]].input = cmd[c] /\ disk[key[c]].status = "running"
  BY <1>1 DEF OwnershipInv, Ownership, Owning
<1>3. x \in Code
  BY DEF TypeOK
<1>4. CASE disk' = disk
  BY <1>1, <1>4 DEF Bound, Verdict, BoundOf, VerdictOf
<1>5. CASE disk' = [disk EXCEPT ![key[c]] = row]
  <2>1. Bound[key[c]] # Nobody /\ Verdict[key[c]] = <<>>
    BY <1>1, <1>2, NobodyAssumption DEF Bound, Verdict, BoundOf, VerdictOf
  <2>2. row.input = cmd[c] /\ row.status = "done" /\ row.code = x
    BY DEF Receipt
  <2> HIDE DEF row, x
  <2>3. Bound' = Bound
    BY <1>1, <1>2, <1>5, <2>2 DEF Bound, BoundOf, TypeOK
  <2>4. Verdict' = [Verdict EXCEPT ![key[c]] = <<x>>]
    BY <1>1, <1>5, <2>2 DEF Verdict, VerdictOf, TypeOK
  <2>5. Once!Decide(key[c], <<x>>)
    BY <1>1, <2>1, <2>3, <2>4 DEF Once!Decide, Bound, Verdict
  <2> QED BY <1>1, <1>3, <2>5 DEF Once!Next
<1> QED BY <1>1, <1>4, <1>5

\* The deliveries, processes and crashes of an agent implement the promise:
\* every step of the model is a step of OperationOnce or changes nothing in it.
THEOREM ImplementsOnceHolds == Spec => ImplementsOnce
<1>1. ASSUME TypeOK, Addressed, OwnershipInv, [Next]_vars
      PROVE  [Once!Next]_<<Bound, starts, Verdict>>
  <2>1. CASE UNCHANGED <<disk, starts>>
    BY <2>1 DEF Bound, Verdict, BoundOf, VerdictOf
  <2> QED BY <1>1, <2>1, Effects, CreateIntentStutters, SealIntentBinds, SpawnPaneLaunches,
             RecordDoneDecides
<1>2. ASSUME TypeOK, Addressed, OwnershipInv, [Next]_vars PROVE [Once!Next]_Once!promise
  BY <1>1, <1>2 DEF Once!promise, Bound, Verdict
<1> QED BY <1>2, OnceInit, OwnershipHolds, TypeCorrect, PTL DEF Spec, ImplementsOnce, Once!Spec

(***************************************************************************)
(* What a query or a retry is told is what happened.  A step is taken      *)
(* apart, variable by variable; the invariants then follow from what it    *)
(* does to each.                                                           *)
(***************************************************************************)

(***************************************************************************)
(* What has come of an operation, on any disk and for any processes.       *)
(***************************************************************************)

\* The outcome of the operation k is x.
Came(k, x) == \E c \in Call : key[c] = k /\ outcome[c] = Settled(x)

Ended == {"exited", "finish", "send"}

\* Only the owner of an operation settles it, and nobody owns it afterwards.
OutcomeInv ==
    /\ \A c \in Call : pc[c] \in Ended => outcome[c].settled
    /\ \A c \in Call : outcome[c].settled => pc[c] \in Ended \cup {"done"} /\ IsReceipt(disk[key[c]])
    /\ \A c, d \in Call : /\ outcome[c].settled /\ key[c] = key[d]
                          /\ outcome[d].settled \/ pc[d] \in Owning
                          => c = d

\* What says that it is done has its code: in memory, on disk, in a copy, in a
\* pane, in the last reply.
RowsInv ==
    /\ \A p \in Proc, k \in Key : ops[p][k].status = "done" => Came(k, ops[p][k].code)
    /\ \A k \in Key : disk[k].status = "done" => Came(k, disk[k].code)
    /\ \A c \in Call : copy[c].status = "done" => Came(key[c], copy[c].code)
    /\ \A q \in Query : qrow[q].status = "done" => Came(qkey[q], qrow[q].code)
    /\ \A p \in Proc, k \in Key : pane[p][k].state = "exited" => Came(k, pane[p][k].code)
    /\ said.kind = "done" => Came(said.key, said.code)

\* A process has rows while it is up, an envelope is for a process that has
\* been up, and what an idle goroutine has is empty.
BornInv ==
    /\ \A p \in Proc : life[p] # "up" => \A k \in Key : ops[p][k] = NoRow
    /\ \A p \in Proc, k \in Key : disk[k] = Absent => ops[p][k] = NoRow
    /\ \A c \in Call : pc[c] # "idle" => life[proc[c]] # "unborn"
    /\ \A q \in Query : qpc[q] # "idle" => life[qproc[q]] # "unborn"
    /\ \A c \in Call : pc[c] = "idle" => before[c] = Absent /\ copy[c] = NoRow
    /\ \A q \in Query : qpc[q] = "idle" => before[q] = Absent /\ qrow[q] = NoRow
    /\ said.by \in Call => pc[said.by] # "idle"
    /\ said.by \in Query => qpc[said.by] = "done"
    /\ \A c \in Call : pc[c] \in {"create", "seal"} /\ life[proc[c]] = "up" => opLock[proc[c]] = c

(***************************************************************************)
(* One process after the other: a completed receipt answers.               *)
(***************************************************************************)

\* The rows of a process do not contradict the disk.
Agreed ==
    /\ \A p, q \in Proc : life[p] = "up" /\ life[q] = "up" => p = q
    /\ \A p \in Proc, k \in Key : disk[k].status = "done" => ops[p][k] \in {NoRow, disk[k]}

\* A delivery or a query that comes after the end of an operation finds it.
LateCall(c) ==
    /\ disk[key[c]] = before[c]
    /\ pc[c] \in {"busy", "lookup", "stored", "done"}
    /\ pc[c] = "stored" => copy[c] = before[c]

LateQuery(q) == disk[qkey[q]] = before[q] /\ (qpc[q] = "reply" => qrow[q] = before[q])

LateInv ==
    /\ \A c \in Call : before[c].status = "done" => LateCall(c)
    /\ \A q \in Query : before[q].status = "done" => LateQuery(q)
    /\ CompletedReceiptAnswers

(***************************************************************************)
(* One process after the other, a receipt that can be written: a process   *)
(* that has been asked for an operation knows of it.                       *)
(***************************************************************************)

Holders(p, k) == {c \in Call : proc[c] = p /\ key[c] = k /\ held[c]}

\* The admissions are counted.
Counted ==
    \A p \in Proc, k \in Key : life[p] # "down" =>
        IsFiniteSet(Holders(p, k)) /\ admitted[p][k] = Cardinality(Holders(p, k))

Knows(p, k) == ops[p][k].status \in {"running", "done"}

\* The first delivery of k has come to p, and p is up.
Fresh(p, k) ==
    life[p] = "up" /\ \E c \in Call : proc[c] = p /\ key[c] = k /\ pc[c] # "idle" /\ before[c] = Absent

\* The receipt of k is being written.
Sealing(p, k) == \E d \in Call : opLock[p] = d /\ pc[d] = "seal" /\ key[d] = k /\ proc[d] = p

Begun == \A p \in Proc, k \in Key \ Faulty :
             Fresh(p, k) => Knows(p, k) \/ disk[k] = Absent \/ Sealing(p, k)

\* A query that came to a process that knows of its operation, or has admitted
\* it, will see a row.
WillSee(q) ==
    /\ qpc[q] = "row"   => Knows(qproc[q], qkey[q]) \/ (qadm[q] /\ Fresh(qproc[q], qkey[q]))
    /\ qpc[q] = "reply" => qrow[q].status \in {"running", "done"}

SeenInv ==
    /\ \A q \in Query :
          qpc[q] # "idle" /\ qknown[q] /\ life[qproc[q]] = "up" /\ qkey[q] \notin Faulty => WillSee(q)
    /\ NoFalseUnknown

\* What is true of the answers, and why: the first four whatever overlaps, the
\* others as long as one process runs after the other.
AnswerInv == OutcomeInv /\ RowsInv /\ BornInv /\ Counted /\ (OneByOne => Agreed /\ LateInv /\ Begun /\ SeenInv)

(***************************************************************************)
(* What a step does to a delivery.                                         *)
(***************************************************************************)

\* What its goroutines do next.
Leads(s, t) ==
    \/ s \in {"busy", "stored", "send"} /\ t = "done"
    \/ s = "lookup" /\ t \in {"stored", "create", "done"}
    \/ s = "create" /\ t \in {"seal", "done"}
    \/ s = "seal" /\ t \in {"verdict", "done"}
    \/ s = "verdict" /\ t \in {"spawn", "consent", "finish"}
    \/ s = "consent" /\ t \in {"spawn", "finish"}
    \/ s = "spawn" /\ t \in {"running", "finish"}
    \/ s = "running" /\ t = "exited"
    \/ s = "exited" /\ t = "finish"
    \/ s = "finish" /\ t = "send"

CallActs(c) == CallStep(c) \/ Approve(c) \/ RejectPending(c) \/ PaneExit(c)

\* The call c does t next, in a process that is up; no other call does anything.
Steps(c, t) ==
    /\ proc[c] \in Proc /\ life[proc[c]] = "up" /\ Leads(pc[c], t)
    /\ pc' = [pc EXCEPT ![c] = t]
    /\ UNCHANGED <<life, proc, key, before, held, admitted, qpc, qproc, qkey, qadm, qrow, qknown>>

LEMMA ActSteps ==
    ASSUME NEW c \in Call, CallActs(c)
    PROVE  \E t : Steps(c, t)
<1> USE DEF Steps, Leads, Goto, At, Alive, queryVars, procVars
<1>1. CASE ReplyUpdateBusy(c) \/ FindRow(c) \/ ReplyStoredRun(c)
  BY <1>1 DEF ReplyUpdateBusy, FindRow, ReplyStoredRun
<1>2. CASE CreateIntent(c) \/ SealIntent(c)
  BY <1>2 DEF CreateIntent, SealIntent
<1>3. CASE HandleRun(c) \/ Approve(c) \/ RejectPending(c)
  BY <1>3 DEF HandleRun, Approve, RejectPending
<1>4. CASE SpawnPane(c) \/ PaneExit(c) \/ PollFinished(c) \/ RecordDone(c) \/ SendResult(c)
  BY <1>4 DEF SpawnPane, PaneExit, PollFinished, RecordDone, SendResult
<1> QED BY <1>1, <1>2, <1>3, <1>4 DEF CallActs, CallStep

\* An outcome is settled when a command exits, or when it is not launched.
SettlesAt(c) ==
    /\ pc[c] \in {"verdict", "consent", "spawn", "running"} /\ pc'[c] \in {"exited", "finish"}
    /\ \E x \in Code : outcome' = [outcome EXCEPT ![c] = Settled(x)]

LEMMA ActOutcome ==
    ASSUME TypeOK, NEW c \in Call, CallActs(c)
    PROVE  \/ SettlesAt(c)
           \/ outcome' = outcome /\ (pc'[c] \in Ended => pc[c] \in Ended)
<1> USE DEF SettlesAt, Ended, Goto, At
<1>0. pc \in [Call -> CallSteps]
  BY DEF TypeOK
<1>1. CASE ReplyUpdateBusy(c) \/ FindRow(c) \/ ReplyStoredRun(c)
  BY <1>0, <1>1 DEF ReplyUpdateBusy, FindRow, ReplyStoredRun
<1>2. CASE CreateIntent(c) \/ SealIntent(c)
  BY <1>0, <1>2 DEF CreateIntent, SealIntent
<1>3. CASE HandleRun(c)
  BY <1>0, <1>3, Codes DEF HandleRun
<1>4. CASE Approve(c) \/ RejectPending(c)
  BY <1>0, <1>4, Codes DEF Approve, RejectPending
<1>5. CASE SpawnPane(c)
  BY <1>0, <1>5, Codes DEF SpawnPane
<1>6. CASE PaneExit(c)
  BY <1>0, <1>6 DEF PaneExit, Code
<1>7. CASE PollFinished(c) \/ RecordDone(c) \/ SendResult(c)
  BY <1>0, <1>7 DEF PollFinished, RecordDone, SendResult
<1> QED BY <1>1, <1>2, <1>3, <1>4, <1>5, <1>6, <1>7 DEF CallActs, CallStep

\* A receipt stays one, and a completed one stays as it is.
LEMMA ReceiptsStay ==
    ASSUME TypeOK, Addressed, OwnershipInv, [Next]_vars, NEW k \in Key, IsReceipt(disk[k])
    PROVE  IsReceipt(disk'[k]) /\ (disk[k].status = "done" => disk'[k] = disk[k])
<1>1. CASE UNCHANGED disk
  BY <1>1
<1>2. ASSUME NEW c \in Call, CreateIntent(c)
      PROVE  disk'[k] = disk[k]
  <2>1. disk' = disk \/ (disk[key[c]] = Absent /\ disk' = [disk EXCEPT ![key[c]] = Corrupt])
    BY <1>2 DEF CreateIntent, MayCreate
  <2>2. ~IsReceipt(Absent)
    BY DEF IsReceipt, Absent, Receipt
  <2> QED BY <2>1, <2>2, WriteAt
<1>3. ASSUME NEW c \in Call, SealIntent(c)
      PROVE  disk'[k] = disk[k]
  <2>1. /\ pc[c] = "seal"
        /\ disk' = disk \/ disk' = [disk EXCEPT ![key[c]] = Receipt(cmd[c], "running", 0)]
    BY <1>3 DEF SealIntent, At
  <2>2. disk[key[c]] = Corrupt /\ ~IsReceipt(Corrupt)
    BY <2>1 DEF OwnershipInv, Ownership, Owning, IsReceipt, Corrupt, Receipt
  <2> QED BY <2>1, <2>2, WriteAt
<1>4. ASSUME NEW c \in Call, RecordDone(c)
      PROVE  disk'[k] = disk[k] \/ (disk[k].status = "running" /\ disk'[k].status = "done")
  <2> DEFINE row == Receipt(cmd[c], "done", outcome[c].code)
  <2>1. pc[c] = "finish" /\ (disk' = disk \/ disk' = [disk EXCEPT ![key[c]] = row])
    BY <1>4 DEF RecordDone, Rewrite, At
  <2>2. disk[key[c]].status = "running" /\ row.status = "done"
    BY <2>1 DEF OwnershipInv, Ownership, Owning, Receipt
  <2> HIDE DEF row
  <2>3. disk'[k] = disk[k] \/ (k = key[c] /\ disk'[k] = row)
    BY <2>1, WriteAt
  <2> QED BY <2>2, <2>3
<1>5. ASSUME NEW c \in Call, SpawnPane(c)
      PROVE  disk'[k] = disk[k]
  BY <1>5 DEF SpawnPane
<1> QED BY <1>1, <1>2, <1>3, <1>4, <1>5, Effects DEF IsReceipt

\* The steps that leave deliveries, outcomes and receipts alone.
LEMMA QuietOutcome ==
    ASSUME OutcomeInv, UNCHANGED <<pc, key, outcome, disk>>
    PROVE  OutcomeInv'
  BY DEF OutcomeInv

LEMMA DispatchOutcome ==
    ASSUME TypeOK, OutcomeInv, NEW c \in Call, NEW p \in Proc, NEW k \in Key, NEW i \in Input,
           Dispatch(c, p, k, i)
    PROVE  OutcomeInv'
<1>1. /\ pc[c] = "idle" /\ pc'[c] \in {"busy", "lookup"} /\ UNCHANGED <<outcome, disk>>
      /\ \A d \in Call \ {c} : pc'[d] = pc[d] /\ key'[d] = key[d]
  BY DEF Dispatch, Goto, TypeOK
<1>2. ~outcome[c].settled
  BY <1>1 DEF OutcomeInv, Ended
<1> QED BY <1>1, <1>2 DEF OutcomeInv, Ended, Owning

LEMMA ActOutcomeInv ==
    ASSUME TypeOK, Addressed, OwnershipInv, OutcomeInv, [Next]_vars, NEW c \in Call, CallActs(c)
    PROVE  OutcomeInv'
<1>1. PICK t : Steps(c, t)
  BY ActSteps
<1>2. /\ pc'[c] = t /\ Leads(pc[c], t) /\ key' = key
      /\ \A d \in Call \ {c} : pc'[d] = pc[d]
  BY <1>1 DEF Steps, TypeOK
<1>3. \A d \in Call : pc[d] # "idle" /\ IsReceipt(disk[key[d]]) => IsReceipt(disk'[key[d]])
  BY ReceiptsStay DEF Addressed
<1>4. pc[c] \notin Owning /\ t \in Owning => ~IsReceipt(disk[key[c]])
  <2>1. SUFFICES ASSUME pc[c] = "create", t = "seal" PROVE ~IsReceipt(disk[key[c]])
    BY <1>2 DEF Leads, Owning
  <2>2. CreateIntent(c)
    BY <2>1, <1>2 DEF CallActs, CallStep, ReplyUpdateBusy, FindRow, ReplyStoredRun, SealIntent, HandleRun, SpawnPane,
       PollFinished, RecordDone, SendResult, Approve, RejectPending, PaneExit, At
  <2>3. MayCreate(key[c])
    BY <1>2, <2>1, <2>2 DEF CreateIntent, Goto, TypeOK
  <2> QED BY <2>3 DEF MayCreate, IsReceipt, Absent, Receipt
<1>5. \A d \in Call : outcome[d].settled => pc[d] # "idle"
  BY DEF OutcomeInv, Ended
<1>6. CASE outcome' = outcome /\ (pc'[c] \in Ended => pc[c] \in Ended)
  <2>1. \A d \in Call : pc'[d] \in Ended => outcome'[d].settled
    BY <1>2, <1>6 DEF OutcomeInv
  <2>2. \A d \in Call : outcome'[d].settled => pc'[d] \in Ended \cup {"done"} /\ IsReceipt(disk'[key'[d]])
    BY <1>2, <1>3, <1>5, <1>6 DEF OutcomeInv, Leads, Ended
  <2>3. \A d, e \in Call : /\ outcome'[d].settled /\ key'[d] = key'[e]
                           /\ outcome'[e].settled \/ pc'[e] \in Owning
                           => d = e
    BY <1>2, <1>4, <1>6 DEF OutcomeInv
  <2> QED BY <2>1, <2>2, <2>3 DEF OutcomeInv
<1>7. CASE SettlesAt(c)
  <2>1. /\ pc[c] \in Owning /\ pc'[c] \in Ended /\ pc[c] # "seal"
        /\ outcome'[c].settled /\ \A d \in Call \ {c} : outcome'[d] = outcome[d]
    BY <1>7 DEF SettlesAt, Settled, Owning, Ended, TypeOK
  <2>2. IsReceipt(disk'[key[c]])
    BY <1>3, <2>1 DEF OwnershipInv, Ownership, Owning
  <2>3. \A d \in Call : pc'[d] \in Ended => outcome'[d].settled
    BY <1>2, <2>1 DEF OutcomeInv
  <2>4. \A d \in Call : outcome'[d].settled => pc'[d] \in Ended \cup {"done"} /\ IsReceipt(disk'[key'[d]])
    BY <1>2, <1>3, <1>5, <2>1, <2>2 DEF OutcomeInv
  <2>5. \A d \in Call \ {c} : key[d] = key[c] => ~outcome[d].settled /\ pc[d] \notin Owning
    BY <2>1 DEF OutcomeInv, OwnershipInv, Ownership
  <2>6. \A d, e \in Call : /\ outcome'[d].settled /\ key'[d] = key'[e]
                           /\ outcome'[e].settled \/ pc'[e] \in Owning
                           => d = e
    BY <1>2, <2>1, <2>5 DEF OutcomeInv
  <2> QED BY <2>3, <2>4, <2>6 DEF OutcomeInv
<1> QED BY <1>6, <1>7, ActOutcome

\* A settled outcome, and its operation, never change.
LEMMA SettledStays ==
    ASSUME TypeOK, Addressed, OutcomeInv, [Next]_vars, NEW c \in Call, outcome[c].settled
    PROVE  outcome'[c] = outcome[c] /\ key'[c] = key[c]
<1>1. pc[c] \in Ended \cup {"done"}
  BY DEF OutcomeInv
<1>2. ASSUME NEW d \in Call, CallActs(d)
      PROVE  outcome'[c] = outcome[c] /\ key'[c] = key[c]
  <2>1. key' = key
    BY <1>2, ActSteps DEF Steps
  <2>2. CASE SettlesAt(d)
    <3>1. d # c
      BY <1>1, <2>2 DEF SettlesAt, Ended
    <3> QED BY <2>1, <2>2, <3>1 DEF SettlesAt, TypeOK
  <2> QED BY <1>2, <2>1, <2>2, ActOutcome
<1>3. ASSUME NEW d \in Call, NEW p \in Proc, NEW k \in Key, NEW i \in Input, Dispatch(d, p, k, i)
      PROVE  outcome'[c] = outcome[c] /\ key'[c] = key[c]
  BY <1>1, <1>3 DEF Dispatch, Ended, TypeOK
<1>4. ASSUME NEW p \in Proc, Start(p) \/ SetClosed(p) \/ Die(p)
      PROVE  UNCHANGED <<outcome, key>>
  BY <1>4 DEF Start, SetClosed, Die, callVars
<1>5. ASSUME NEW p \in Proc, NEW k \in Key, RetirePane(p, k)
      PROVE  UNCHANGED <<outcome, key>>
  BY <1>5 DEF RetirePane, callVars
<1>6. ASSUME NEW q \in Query, HandleResultQuery(q)
      PROVE  UNCHANGED <<outcome, key>>
  BY <1>6 DEF HandleResultQuery, SnapshotAdmission, ReadRow, ReplyQuery, callVars
<1>7. ASSUME NEW d \in Call, Release(d)
      PROVE  UNCHANGED <<outcome, key>>
  BY <1>7 DEF Release
<1>8. CASE UNCHANGED vars
  BY <1>8 DEF vars, callVars
<1> QED BY <1>2, <1>3, <1>4, <1>5, <1>6, <1>7, <1>8 DEF Next, CallActs

LEMMA CameStays ==
    ASSUME TypeOK, Addressed, OutcomeInv, [Next]_vars, NEW k, NEW x, Came(k, x)
    PROVE  Came(k, x)'
<1>1. PICK c \in Call : key[c] = k /\ outcome[c] = Settled(x)
  BY DEF Came
<1> QED BY <1>1, SettledStays DEF Came, Settled

(***************************************************************************)
(* What a step does to the rows, the files and the replies.                *)
(***************************************************************************)

LEMMA UpdatedAt ==
    ASSUME NEW A, NEW B, NEW C, NEW f \in [A -> [B -> C]], NEW a \in A, NEW b \in B, NEW v,
           NEW x \in A, NEW y \in B
    PROVE  [f EXCEPT ![a][b] = v][x][y] = IF x = a /\ y = b THEN v ELSE f[x][y]
  OBVIOUS

\* The steps that are not a call's own.
LEMMA OtherSteps ==
    ASSUME [Next]_vars, ~\E c \in Call : CallActs(c)
    PROVE  /\ UNCHANGED <<disk, copy, outcome, starts>>
           /\ \/ UNCHANGED ops \/ \E p \in Proc : Die(p)
           /\ \/ UNCHANGED pane \/ \E p \in Proc : Die(p)
              \/ \E p \in Proc, k \in Key : RetirePane(p, k)
           /\ \/ UNCHANGED said \/ \E q \in Query : ReplyQuery(q)
           /\ \/ UNCHANGED pc
              \/ \E c \in Call, p \in Proc, k \in Key, i \in Input : Dispatch(c, p, k, i)
<1> USE DEF procVars, callVars, ghostVars
<1>1. ASSUME NEW p \in Proc, Start(p) \/ SetClosed(p) \/ Die(p)
      PROVE  UNCHANGED <<disk, copy, outcome, starts, said, pc>> /\ (UNCHANGED <<ops, pane>> \/ Die(p))
  BY <1>1 DEF Start, SetClosed, Die
<1>2. ASSUME NEW p \in Proc, NEW k \in Key, RetirePane(p, k)
      PROVE  UNCHANGED <<disk, copy, outcome, starts, ops, said, pc>>
  BY <1>2 DEF RetirePane
<1>3. ASSUME NEW c \in Call, NEW p \in Proc, NEW k \in Key, NEW i \in Input, Dispatch(c, p, k, i)
      PROVE  UNCHANGED <<disk, copy, outcome, starts, ops, pane, said>>
  BY <1>3 DEF Dispatch
<1>4. ASSUME NEW c \in Call, Release(c)
      PROVE  UNCHANGED <<disk, copy, outcome, starts, ops, pane, said, pc>>
  BY <1>4 DEF Release
<1>5. ASSUME NEW q \in Query, HandleResultQuery(q)
      PROVE  /\ UNCHANGED <<disk, copy, outcome, starts, ops, pane, pc>>
             /\ UNCHANGED said \/ ReplyQuery(q)
  BY <1>5 DEF HandleResultQuery, SnapshotAdmission, ReadRow, ReplyQuery
<1>6. CASE UNCHANGED vars
  BY <1>6 DEF vars
<1> QED BY <1>1, <1>2, <1>3, <1>4, <1>5, <1>6 DEF Next, CallActs

FindsAt(c, p, k) ==
    /\ FindRow(c) /\ proc[c] = p /\ key[c] = k /\ UNCHANGED <<disk, life>>
    /\ ops[p][k] = NoRow /\ IsReceipt(disk[k]) /\ ops'[p][k] = ReadBack(disk[k])

SealsAt(c, p, k) ==
    /\ SealIntent(c) /\ proc[c] = p /\ key[c] = k /\ life' = life
    /\ ops'[p][k] = Receipt(cmd[c], "running", 0) /\ disk'[k] = ops'[p][k]

RecordsAt(c, p, k) ==
    /\ RecordDone(c) /\ proc[c] = p /\ key[c] = k /\ life' = life /\ pc[c] = "finish"
    /\ ops'[p][k] = Receipt(cmd[c], "done", outcome[c].code) /\ disk'[k] \in {disk[k], ops'[p][k]}

LEMMA ActRows ==
    ASSUME TypeOK, Addressed, NEW c \in Call, CallActs(c), NEW p \in Proc, NEW k \in Key
    PROVE  \/ ops'[p][k] = ops[p][k]
           \/ FindsAt(c, p, k) \/ SealsAt(c, p, k) \/ RecordsAt(c, p, k)
<1>1. ops \in [Proc -> [Key -> Rows \cup {NoRow}]] /\ disk \in [Key -> Receipts \cup {Absent, Corrupt}]
  BY DEF TypeOK
<1>2. CASE FindRow(c)
  <2> DEFINE row == IF ops[proc[c]][key[c]] # NoRow THEN ops[proc[c]][key[c]] ELSE ReadBack(disk[key[c]])
  <2>1. proc[c] \in Proc /\ key[c] \in Key /\ UNCHANGED <<disk, life>>
        /\ (ops' = ops \/ (row # NoRow /\ ops' = [ops EXCEPT ![proc[c]][key[c]] = row]))
    BY <1>2 DEF FindRow, At, Addressed
  <2>2. ops'[p][k] = ops[p][k] \/ (p = proc[c] /\ k = key[c] /\ ops'[p][k] = row /\ row # NoRow)
    <3> HIDE DEF row
    <3> QED BY <1>1, <2>1, UpdatedAt
  <2>3. ReadBack(disk[key[c]]) # NoRow => IsReceipt(disk[key[c]])
    BY DEF ReadBack
  <2> QED BY <1>2, <2>1, <2>2, <2>3 DEF FindsAt
<1>3. CASE SealIntent(c)
  <2> DEFINE row == Receipt(cmd[c], "running", 0)
  <2>1. proc[c] \in Proc /\ key[c] \in Key /\ life' = life
        /\ (ops' = ops \/ (ops' = [ops EXCEPT ![proc[c]][key[c]] = row] /\ disk' = [disk EXCEPT ![key[c]] = row]))
    BY <1>3 DEF SealIntent, At, Addressed
  <2>2. \/ ops'[p][k] = ops[p][k]
        \/ p = proc[c] /\ k = key[c] /\ ops'[p][k] = row /\ disk'[k] = row
    <3> HIDE DEF row
    <3> QED BY <1>1, <2>1, UpdatedAt
  <2> QED BY <1>3, <2>1, <2>2 DEF SealsAt
<1>4. CASE RecordDone(c)
  <2> DEFINE row == Receipt(cmd[c], "done", outcome[c].code)
  <2>1. proc[c] \in Proc /\ key[c] \in Key /\ life' = life /\ pc[c] = "finish"
        /\ ops' = [ops EXCEPT ![proc[c]][key[c]] = row]
        /\ (disk' = disk \/ disk' = [disk EXCEPT ![key[c]] = row])
    BY <1>4 DEF RecordDone, Rewrite, At, Addressed
  <2>2. \/ ops'[p][k] = ops[p][k]
        \/ p = proc[c] /\ k = key[c] /\ ops'[p][k] = row /\ disk'[k] \in {disk[k], row}
    <3> HIDE DEF row
    <3> QED BY <1>1, <2>1, UpdatedAt
  <2> QED BY <1>4, <2>1, <2>2 DEF RecordsAt
<1>5. CASE ~FindRow(c) /\ ~SealIntent(c) /\ ~RecordDone(c)
  BY <1>5 DEF CallActs, CallStep, ReplyUpdateBusy, ReplyStoredRun, CreateIntent, HandleRun, SpawnPane, PollFinished,
     SendResult, Approve, RejectPending, PaneExit, procVars
<1> QED BY <1>2, <1>3, <1>4, <1>5

LEMMA ActDisk ==
    ASSUME TypeOK, NEW c \in Call, CallActs(c), NEW k \in Key
    PROVE  \/ disk'[k] = disk[k]
           \/ CreateIntent(c) /\ key[c] = k /\ disk[k] = Absent /\ disk'[k] = Corrupt /\ pc'[c] = "seal"
           \/ SealIntent(c) /\ key[c] = k /\ disk'[k] = Receipt(cmd[c], "running", 0)
           \/ RecordDone(c) /\ key[c] = k /\ disk'[k] = Receipt(cmd[c], "done", outcome[c].code)
<1>1. CASE CreateIntent(c)
  <2>1. \/ disk' = disk
        \/ disk[key[c]] = Absent /\ disk' = [disk EXCEPT ![key[c]] = Corrupt] /\ pc' = [pc EXCEPT ![c] = "seal"]
    BY <1>1 DEF CreateIntent, MayCreate, Goto
  <2> QED BY <1>1, <2>1, WriteAt DEF TypeOK
<1>2. CASE SealIntent(c)
  <2> DEFINE row == Receipt(cmd[c], "running", 0)
  <2>1. disk' = disk \/ disk' = [disk EXCEPT ![key[c]] = row]
    BY <1>2 DEF SealIntent
  <2> HIDE DEF row
  <2>2. disk'[k] = disk[k] \/ (k = key[c] /\ disk'[k] = row)
    <3>1. CASE disk' = [disk EXCEPT ![key[c]] = row]
      <4>1. disk'[k] = IF k = key[c] THEN row ELSE disk[k]
        BY <3>1, WriteAt
      <4> QED BY <4>1
    <3> QED BY <2>1, <3>1
  <2> QED BY <1>2, <2>2 DEF row
<1>3. CASE RecordDone(c)
  <2> DEFINE row == Receipt(cmd[c], "done", outcome[c].code)
  <2>1. disk' = disk \/ disk' = [disk EXCEPT ![key[c]] = row]
    BY <1>3 DEF RecordDone, Rewrite
  <2> HIDE DEF row
  <2>2. disk'[k] = disk[k] \/ (k = key[c] /\ disk'[k] = row)
    <3>1. CASE disk' = [disk EXCEPT ![key[c]] = row]
      <4>1. disk'[k] = IF k = key[c] THEN row ELSE disk[k]
        BY <3>1, WriteAt
      <4> QED BY <4>1
    <3> QED BY <2>1, <3>1
  <2> QED BY <1>3, <2>2 DEF row
<1>4. CASE ~CreateIntent(c) /\ ~SealIntent(c) /\ ~RecordDone(c)
  BY <1>4 DEF CallActs, CallStep, ReplyUpdateBusy, FindRow, ReplyStoredRun, HandleRun, SpawnPane, PollFinished,
     SendResult, Approve, RejectPending, PaneExit
<1> QED BY <1>1, <1>2, <1>3, <1>4

LEMMA ActCopy ==
    ASSUME TypeOK, Addressed, NEW c \in Call, CallActs(c), NEW d \in Call
    PROVE  \/ copy'[d] = copy[d] /\ (d = c => pc'[c] # "stored")
           \/ d = c /\ pc[c] = "stored" /\ copy'[c] = NoRow
           \/ /\ d = c /\ pc[c] = "lookup" /\ pc'[c] = "stored"
              /\ copy'[c] = ops'[proc[c]][key[c]] /\ copy'[c] # NoRow
<1>1. copy \in [Call -> Rows \cup {NoRow}] /\ pc \in [Call -> CallSteps]
      /\ ops \in [Proc -> [Key -> Rows \cup {NoRow}]]
  BY DEF TypeOK
<1>2. CASE FindRow(c)
  <2> DEFINE row == IF ops[proc[c]][key[c]] # NoRow THEN ops[proc[c]][key[c]] ELSE ReadBack(disk[key[c]])
  <2>1. /\ proc[c] \in Proc /\ key[c] \in Key /\ pc[c] = "lookup"
        /\ \/ copy' = copy /\ \E t \in {"create", "done"} : pc' = [pc EXCEPT ![c] = t]
           \/ /\ pc' = [pc EXCEPT ![c] = "stored"] /\ copy' = [copy EXCEPT ![c] = row] /\ row # NoRow
              /\ ops' = [ops EXCEPT ![proc[c]][key[c]] = row]
    BY <1>2 DEF FindRow, At, Addressed, Goto
  <2> HIDE DEF row
  <2>2. ops' = [ops EXCEPT ![proc[c]][key[c]] = row] => ops'[proc[c]][key[c]] = row
    BY <1>1, <2>1, UpdatedAt
  <2> QED BY <1>1, <2>1, <2>2
<1>3. CASE ReplyStoredRun(c)
  <2>1. pc[c] = "stored" /\ copy' = [copy EXCEPT ![c] = NoRow]
    BY <1>3 DEF ReplyStoredRun, At
  <2> QED BY <1>1, <2>1
<1>4. CASE ~FindRow(c) /\ ~ReplyStoredRun(c)
  <2>1. copy' = copy /\ \E t \in CallSteps \ {"stored"} : pc' = [pc EXCEPT ![c] = t]
    BY <1>4 DEF CallActs, CallStep, ReplyUpdateBusy, CreateIntent, SealIntent, HandleRun, SpawnPane, PollFinished,
       RecordDone, SendResult, Approve, RejectPending, PaneExit, Goto, CallSteps
  <2> QED BY <1>1, <2>1
<1> QED BY <1>2, <1>3, <1>4

LEMMA ActPane ==
    ASSUME TypeOK, Addressed, NEW c \in Call, CallActs(c), NEW p \in Proc, NEW k \in Key
    PROVE  \/ pane'[p][k] = pane[p][k]
           \/ pane'[p][k].state # "exited"
           \/ key[c] = k /\ outcome'[c] = Settled(pane'[p][k].code)
<1>1. pane \in [Proc -> [Key -> Panes]]
  BY DEF TypeOK
<1>2. CASE SpawnPane(c)
  <2> DEFINE live == [state |-> "live", code |-> 0]
  <2>1. proc[c] \in Proc /\ key[c] \in Key /\ (pane' = pane \/ pane' = [pane EXCEPT ![proc[c]][key[c]] = live])
    BY <1>2 DEF SpawnPane, At, Addressed
  <2>2. live.state # "exited"
    OBVIOUS
  <2> HIDE DEF live
  <2>3. pane'[p][k] = pane[p][k] \/ pane'[p][k] = live
    BY <1>1, <2>1, UpdatedAt
  <2> QED BY <2>2, <2>3
<1>3. CASE PaneExit(c)
  <2>1. PICK x \in Exit : /\ pane' = [pane EXCEPT ![proc[c]][key[c]] = [state |-> "exited", code |-> x]]
                          /\ outcome' = [outcome EXCEPT ![c] = Settled(x)]
    BY <1>3 DEF PaneExit
  <2> DEFINE gone == [state |-> "exited", code |-> x]
  <2>2. gone.code = x /\ outcome'[c] = Settled(x) /\ proc[c] \in Proc /\ key[c] \in Key
    BY <1>3, <2>1 DEF PaneExit, At, Addressed, TypeOK
  <2>3. pane' = [pane EXCEPT ![proc[c]][key[c]] = gone]
    BY <2>1
  <2> HIDE DEF gone
  <2>4. pane'[p][k] = pane[p][k] \/ (k = key[c] /\ pane'[p][k] = gone)
    BY <1>1, <2>2, <2>3, UpdatedAt
  <2> QED BY <2>2, <2>4
<1>4. CASE ~SpawnPane(c) /\ ~PaneExit(c)
  BY <1>4 DEF CallActs, CallStep, ReplyUpdateBusy, FindRow, ReplyStoredRun, CreateIntent, SealIntent, HandleRun,
     PollFinished, RecordDone, SendResult, Approve, RejectPending, procVars
<1> QED BY <1>2, <1>3, <1>4

\* The row that answers the delivery c, in the last reply.
Answers(c, row) ==
    \/ pc[c] = "busy" /\ ops[proc[c]][key[c]] # NoRow /\ row = ops[proc[c]][key[c]]
    \/ pc[c] = "busy" /\ ops[proc[c]][key[c]] = NoRow /\ row = ReadBack(disk[key[c]]) /\ row # NoRow
    \/ pc[c] = "stored" /\ row = copy[c]

LEMMA ActSaid ==
    ASSUME NEW c \in Call, CallActs(c)
    PROVE  \/ said' = said
           \/ /\ said'.by = c /\ said'.kind # "done"
              /\ \/ said'.fault
                 \/ pc[c] \in {"create", "seal", "spawn"}
                 \/ /\ pc[c] = "busy" /\ ops[proc[c]][key[c]] = NoRow
                    /\ ReadBack(disk[key[c]]) = NoRow
           \/ pc[c] = "send" /\ said' = Reply(c, key[c], "done", outcome[c].code, FALSE)
           \/ \E row : Answers(c, row) /\ said' = StoredReply(c, proc[c], row)
<1> USE DEF At, Unreadable, NotStarted, Reply
<1>1. CASE ReplyUpdateBusy(c)
  <2> DEFINE row == IF ops[proc[c]][key[c]] # NoRow THEN ops[proc[c]][key[c]] ELSE ReadBack(disk[key[c]])
  <2>1. pc[c] = "busy" /\ (said' = Unreadable(c, key[c]) \/ said' = BusyReply(c, proc[c], row))
    BY <1>1 DEF ReplyUpdateBusy
  <2>2. CASE said' = Unreadable(c, key[c])
    BY <2>2
  <2>3. CASE said' = BusyReply(c, proc[c], row) /\ row = NoRow
    BY <2>1, <2>3 DEF BusyReply
  <2>4. CASE said' = BusyReply(c, proc[c], row) /\ row # NoRow
    <3>1. Answers(c, row) /\ said' = StoredReply(c, proc[c], row)
      BY <2>1, <2>4 DEF BusyReply, Answers
    <3> QED BY <3>1
  <2> QED BY <2>1, <2>2, <2>3, <2>4
<1>2. CASE ReplyStoredRun(c)
  <2>1. Answers(c, copy[c]) /\ said' = StoredReply(c, proc[c], copy[c])
    BY <1>2 DEF ReplyStoredRun, Answers
  <2> QED BY <2>1
<1>3. CASE FindRow(c) \/ CreateIntent(c) \/ SealIntent(c)
  BY <1>3 DEF FindRow, CreateIntent, SealIntent
<1>4. CASE SpawnPane(c)
  BY <1>4 DEF SpawnPane
<1>5. CASE SendResult(c)
  BY <1>5 DEF SendResult
<1>6. CASE HandleRun(c) \/ PollFinished(c) \/ RecordDone(c) \/ Approve(c) \/ RejectPending(c) \/ PaneExit(c)
  BY <1>6 DEF HandleRun, PollFinished, RecordDone, Approve, RejectPending, PaneExit
<1> QED BY <1>1, <1>2, <1>3, <1>4, <1>5, <1>6 DEF CallActs, CallStep

LEMMA OutcomeStep ==
    ASSUME TypeOK, Addressed, OwnershipInv, OutcomeInv, [Next]_vars
    PROVE  OutcomeInv'
<1>1. CASE \E c \in Call : CallActs(c)
  BY <1>1, ActOutcomeInv
<1>2. CASE \E c \in Call, p \in Proc, k \in Key, i \in Input : Dispatch(c, p, k, i)
  BY <1>2, DispatchOutcome
<1>3. CASE /\ ~\E c \in Call : CallActs(c)
           /\ ~\E c \in Call, p \in Proc, k \in Key, i \in Input : Dispatch(c, p, k, i)
  <2>1. UNCHANGED <<pc, outcome, disk>>
    BY <1>3, OtherSteps
  <2>2. UNCHANGED key
    BY <1>3 DEF Next, CallActs, vars, callVars, Start, SetClosed, Die, RetirePane, Release, HandleResultQuery,
       SnapshotAdmission, ReadRow, ReplyQuery
  <2> QED BY <2>1, <2>2, QuietOutcome
<1> QED BY <1>1, <1>2, <1>3

(***************************************************************************)
(* What says that it is done is the outcome.                               *)
(***************************************************************************)

\* A row that is done was done in memory or on disk.
LEMMA DoneRow ==
    ASSUME TypeOK, RowsInv, NEW p \in Proc, NEW k \in Key, NEW row,
           row = ops[p][k] \/ row = ReadBack(disk[k]), row.status = "done"
    PROVE  Came(k, row.code)
<1>1. CASE row = ops[p][k]
  BY <1>1 DEF RowsInv
<1>2. CASE row = ReadBack(disk[k])
  <2>1. disk[k] \in Receipts \cup {Absent, Corrupt}
    BY DEF TypeOK
  <2>2. row = disk[k]
    BY <1>2, <2>1 DEF ReadBack, NoRow, Receipt, Receipts, Absent, Corrupt
  <2> QED BY <2>2 DEF RowsInv
<1> QED BY <1>1, <1>2

\* A reply made from a row that is right is right.
LEMMA DoneAnswer ==
    ASSUME RowsInv, NEW p \in Proc, NEW k \in Key, NEW who, NEW row, row.status = "done" => Came(k, row.code)
    PROVE  Answer(who, p, k, row).kind = "done" =>
              Answer(who, p, k, row).key = k /\ Came(k, Answer(who, p, k, row).code)
<1>1. CASE row # NoRow /\ pane[p][k].state = "exited" /\ row.status # "unknown"
  <2>1. Answer(who, p, k, row) = Reply(who, k, "done", pane[p][k].code, FALSE)
    BY <1>1 DEF Answer
  <2> QED BY <1>1, <2>1 DEF RowsInv, Reply
<1>2. CASE ~(row # NoRow /\ pane[p][k].state = "exited" /\ row.status # "unknown")
  <2>1. Answer(who, p, k, row) = Envelope(who, k, row)
    BY <1>2 DEF Answer
  <2>2. CASE row # NoRow /\ row.status = "done"
    BY <2>1, <2>2 DEF Envelope, Reply
  <2>3. CASE ~(row # NoRow /\ row.status = "done")
    BY <2>1, <2>3 DEF Envelope, Reply
  <2> QED BY <2>2, <2>3
<1> QED BY <1>1, <1>2

LEMMA DoneStored ==
    ASSUME RowsInv, NEW c \in Call, proc[c] \in Proc, key[c] \in Key, NEW row,
           row.status = "done" => Came(key[c], row.code)
    PROVE  LET r == StoredReply(c, proc[c], row) IN r.kind = "done" => Came(r.key, r.code)
<1>1. CASE row.input # cmd[c]
  BY <1>1 DEF StoredReply, Reply
<1>2. CASE row.input = cmd[c]
  BY <1>2, DoneAnswer DEF StoredReply
<1> QED BY <1>1, <1>2

\* The same, after the step.
StillCame(k, x) == \E c \in Call : key'[c] = k /\ outcome'[c] = Settled(x)

LEMMA StaysCame ==
    ASSUME TypeOK, Addressed, OutcomeInv, [Next]_vars, NEW k, NEW x, Came(k, x)
    PROVE  StillCame(k, x)
  BY CameStays DEF Came, StillCame

\* An owner that has ended knows the outcome.
LEMMA EndedCame ==
    ASSUME TypeOK, OutcomeInv, NEW c \in Call, pc[c] \in Ended
    PROVE  Came(key[c], outcome[c].code)
<1>1. outcome[c].settled /\ outcome[c] \in [settled : BOOLEAN, code : Code]
  BY DEF OutcomeInv, TypeOK
<1>2. outcome[c] = Settled(outcome[c].code)
  BY <1>1 DEF Settled
<1> QED BY <1>2 DEF Came

\* Rows in memory.
LEMMA RowsStep ==
    ASSUME TypeOK, Addressed, OutcomeInv, RowsInv, [Next]_vars,
           NEW p \in Proc, NEW k \in Key, ops'[p][k].status = "done"
    PROVE  StillCame(k, ops'[p][k].code)
<1>0. ops \in [Proc -> [Key -> Rows \cup {NoRow}]] /\ disk \in [Key -> Receipts \cup {Absent, Corrupt}]
  BY DEF TypeOK
<1>1. CASE ops'[p][k] = ops[p][k]
  BY <1>1, StaysCame DEF RowsInv
<1>2. ASSUME NEW c \in Call, CallActs(c), ops'[p][k] # ops[p][k]
      PROVE  StillCame(k, ops'[p][k].code)
  <2>1. CASE FindsAt(c, p, k)
    <3>1. ops'[p][k] = ReadBack(disk[k])
      BY <2>1 DEF FindsAt
    <3>2. Came(k, ops'[p][k].code)
      BY <3>1, DoneRow
    <3> QED BY <3>2, StaysCame
  <2>2. CASE SealsAt(c, p, k)
    BY <2>2 DEF SealsAt, Receipt
  <2>3. CASE RecordsAt(c, p, k)
    <3>1. key[c] = k /\ pc[c] \in Ended /\ ops'[p][k].code = outcome[c].code
      BY <2>3 DEF RecordsAt, Receipt, Ended
    <3> QED BY <3>1, EndedCame, StaysCame
  <2> QED BY <1>2, <2>1, <2>2, <2>3, ActRows
<1>3. ASSUME NEW q \in Proc, Die(q)
      PROVE  ops'[p][k] = ops[p][k] \/ ops'[p][k] = NoRow
  BY <1>0, <1>3 DEF Die
<1>4. NoRow.status # "done"
  BY DEF NoRow, Receipt
<1> QED BY <1>1, <1>2, <1>3, <1>4, OtherSteps

\* Receipts.
LEMMA FilesStep ==
    ASSUME TypeOK, Addressed, OutcomeInv, RowsInv, [Next]_vars, NEW k \in Key, disk'[k].status = "done"
    PROVE  StillCame(k, disk'[k].code)
<1>1. CASE disk'[k] = disk[k]
  BY <1>1, StaysCame DEF RowsInv
<1>2. ASSUME NEW c \in Call, CallActs(c), disk'[k] # disk[k]
      PROVE  StillCame(k, disk'[k].code)
  <2>1. RecordDone(c) /\ key[c] = k /\ disk'[k] = Receipt(cmd[c], "done", outcome[c].code)
    <3>1. Corrupt.status # "done" /\ Receipt(cmd[c], "running", 0).status # "done"
      BY DEF Corrupt, Receipt
    <3> QED BY <1>2, <3>1, ActDisk
  <2>2. pc[c] \in Ended /\ disk'[k].code = outcome[c].code
    BY <2>1 DEF RecordDone, At, Ended, Receipt
  <2> QED BY <2>1, <2>2, EndedCame, StaysCame
<1> QED BY <1>1, <1>2, OtherSteps

\* A goroutine whose envelope is another one after the step was idle.
LEMMA KeysStay ==
    ASSUME TypeOK, [Next]_vars
    PROVE  /\ \A c \in Call : (key'[c] = key[c] /\ proc'[c] = proc[c]) \/ (pc[c] = "idle" /\ pc'[c] # "idle")
           /\ \A q \in Query : (qkey'[q] = qkey[q] /\ qproc'[q] = qproc[q]) \/ (qpc[q] = "idle" /\ qpc'[q] # "idle")
<1>1. ASSUME NEW c \in Call, CallActs(c)
      PROVE  UNCHANGED <<key, proc, qkey, qproc>>
  BY <1>1, ActSteps DEF Steps
<1> USE DEF callVars, queryVars
<1>2. ASSUME NEW c \in Call, NEW p \in Proc, NEW k \in Key, NEW i \in Input, Dispatch(c, p, k, i)
      PROVE  /\ UNCHANGED <<qkey, qproc>> /\ pc[c] = "idle" /\ pc'[c] # "idle"
             /\ \A d \in Call \ {c} : key'[d] = key[d] /\ proc'[d] = proc[d]
  BY <1>2 DEF Dispatch, TypeOK, Goto
<1>3. ASSUME NEW q \in Query, NEW p \in Proc, NEW k \in Key, SnapshotAdmission(q, p, k)
      PROVE  /\ UNCHANGED <<key, proc>> /\ qpc[q] = "idle" /\ qpc'[q] # "idle"
             /\ \A r \in Query \ {q} : qkey'[r] = qkey[r] /\ qproc'[r] = qproc[r]
  BY <1>3 DEF SnapshotAdmission, TypeOK, callVars
<1>4. ASSUME NEW q \in Query, ReadRow(q) \/ ReplyQuery(q)
      PROVE  UNCHANGED <<key, proc, qkey, qproc>>
  BY <1>4 DEF ReadRow, ReplyQuery
<1>5. ASSUME NEW p \in Proc, Start(p) \/ SetClosed(p) \/ Die(p)
      PROVE  UNCHANGED <<key, proc, qkey, qproc>>
  BY <1>5 DEF Start, SetClosed, Die
<1>6. ASSUME NEW p \in Proc, NEW k \in Key, RetirePane(p, k)
      PROVE  UNCHANGED <<key, proc, qkey, qproc>>
  BY <1>6 DEF RetirePane
<1>7. ASSUME NEW c \in Call, Release(c)
      PROVE  UNCHANGED <<key, proc, qkey, qproc>>
  BY <1>7 DEF Release
<1>8. CASE UNCHANGED vars
  BY <1>8 DEF vars
<1> QED BY <1>1, <1>2, <1>3, <1>4, <1>5, <1>6, <1>7, <1>8 DEF Next, CallActs, HandleResultQuery

\* Copies.
LEMMA CopiesStep ==
    ASSUME TypeOK, Addressed, OutcomeInv, RowsInv, BornInv, [Next]_vars, NEW c \in Call, copy'[c].status = "done"
    PROVE  StillCame(key'[c], copy'[c].code)
<1>1. NoRow.status # "done"
  BY DEF NoRow, Receipt
<1>2. CASE copy'[c] = copy[c]
  <2>1. pc[c] # "idle"
    BY <1>1, <1>2 DEF BornInv
  <2>2. key'[c] = key[c]
    BY <2>1, KeysStay
  <2> QED BY <1>2, <2>2, StaysCame DEF RowsInv
<1>3. ASSUME NEW d \in Call, CallActs(d), copy'[c] # copy[c]
      PROVE  StillCame(key'[c], copy'[c].code)
  <2>1. d = c /\ pc[c] = "lookup" /\ copy'[c] = ops'[proc[c]][key[c]]
    BY <1>1, <1>3, ActCopy
  <2>2. proc[c] \in Proc /\ key[c] \in Key /\ key'[c] = key[c]
    BY <2>1, KeysStay DEF Addressed
  <2> QED BY <2>1, <2>2, RowsStep
<1> QED BY <1>2, <1>3, OtherSteps

\* Snapshots of a query.
LEMMA QueryRows ==
    ASSUME [Next]_vars
    PROVE  \/ UNCHANGED <<qpc, qproc, qkey, qadm, qrow, qknown>>
           \/ \E q \in Query : HandleResultQuery(q)
<1> USE DEF queryVars
<1>1. ASSUME NEW c \in Call, CallActs(c)
      PROVE  UNCHANGED <<qpc, qproc, qkey, qadm, qrow, qknown>>
  BY <1>1, ActSteps DEF Steps
<1>2. ASSUME NEW c \in Call, NEW p \in Proc, NEW k \in Key, NEW i \in Input, Dispatch(c, p, k, i) \/ Release(c)
      PROVE  UNCHANGED <<qpc, qproc, qkey, qadm, qrow, qknown>>
  BY <1>2 DEF Dispatch, Release
<1>3. ASSUME NEW p \in Proc, NEW k \in Key, Start(p) \/ SetClosed(p) \/ Die(p) \/ RetirePane(p, k)
      PROVE  UNCHANGED <<qpc, qproc, qkey, qadm, qrow, qknown>>
  BY <1>3 DEF Start, SetClosed, Die, RetirePane
<1>4. ASSUME NEW p \in Proc, Start(p) \/ SetClosed(p) \/ Die(p)
      PROVE  UNCHANGED <<qpc, qproc, qkey, qadm, qrow, qknown>>
  BY <1>4 DEF Start, SetClosed, Die
<1>5. ASSUME NEW c \in Call, Release(c)
      PROVE  UNCHANGED <<qpc, qproc, qkey, qadm, qrow, qknown>>
  BY <1>5 DEF Release
<1>6. CASE UNCHANGED vars
  BY <1>6 DEF vars
<1> QED BY <1>1, <1>2, <1>3, <1>4, <1>5, <1>6 DEF Next, CallActs

LEMMA SnapshotsStep ==
    ASSUME TypeOK, Addressed, OutcomeInv, RowsInv, BornInv, [Next]_vars, NEW q \in Query, qrow'[q].status = "done"
    PROVE  StillCame(qkey'[q], qrow'[q].code)
<1>0. qrow \in [Query -> Rows \cup {NoRow}]
  BY DEF TypeOK
<1>1. NoRow.status # "done" /\ Receipt(Nobody, "running", 0).status # "done"
  BY DEF NoRow, Receipt
<1>2. CASE qrow'[q] = qrow[q]
  <2>1. qpc[q] # "idle"
    BY <1>1, <1>2 DEF BornInv
  <2>2. qkey'[q] = qkey[q]
    BY <2>1, KeysStay
  <2> QED BY <1>2, <2>2, StaysCame DEF RowsInv
<1>3. ASSUME NEW r \in Query, HandleResultQuery(r), qrow'[q] # qrow[q]
      PROVE  StillCame(qkey'[q], qrow'[q].code)
  <2>1. CASE ReadRow(r)
    <3> DEFINE p == qproc[r]
               k == qkey[r]
               row == IF ops[p][k] # NoRow THEN ops[p][k] ELSE ReadBack(disk[k])
               seen == IF row = NoRow THEN StandIn(r) ELSE row
    <3>1. r = q /\ qrow'[q] = seen /\ p \in Proc /\ k \in Key /\ qkey' = qkey
      BY <1>0, <1>3, <2>1 DEF ReadRow, Addressed
    <3>2. seen = row
      BY <1>1, <3>1 DEF StandIn
    <3>3. Came(k, row.code)
      BY <3>1, <3>2, DoneRow
    <3> QED BY <3>1, <3>2, <3>3, StaysCame
  <2>2. CASE ReplyQuery(r)
    BY <1>0, <1>1, <1>3, <2>2 DEF ReplyQuery
  <2>3. ASSUME NEW p \in Proc, NEW k \in Key, SnapshotAdmission(r, p, k)
        PROVE  FALSE
    BY <1>3, <2>3 DEF SnapshotAdmission
  <2> QED BY <1>3, <2>1, <2>2, <2>3 DEF HandleResultQuery
<1> QED BY <1>2, <1>3, QueryRows

\* Panes.
LEMMA PanesStep ==
    ASSUME TypeOK, Addressed, OutcomeInv, RowsInv, [Next]_vars,
           NEW p \in Proc, NEW k \in Key, pane'[p][k].state = "exited"
    PROVE  StillCame(k, pane'[p][k].code)
<1>0. pane \in [Proc -> [Key -> Panes]]
  BY DEF TypeOK
<1>1. CASE pane'[p][k] = pane[p][k]
  BY <1>1, StaysCame DEF RowsInv
<1>2. ASSUME NEW c \in Call, CallActs(c), pane'[p][k] # pane[p][k]
      PROVE  StillCame(k, pane'[p][k].code)
  <2>1. key[c] = k /\ outcome'[c] = Settled(pane'[p][k].code)
    BY <1>2, ActPane
  <2>2. key' = key
    BY <1>2, ActSteps DEF Steps
  <2> QED BY <2>1, <2>2 DEF StillCame
<1>3. ASSUME NEW q \in Proc, Die(q)
      PROVE  pane'[p][k] = pane[p][k] \/ pane'[p][k] = NoPane
  BY <1>0, <1>3 DEF Die
<1>4. ASSUME NEW q \in Proc, NEW j \in Key, RetirePane(q, j)
      PROVE  pane'[p][k] = pane[p][k] \/ pane'[p][k] = NoPane
  BY <1>0, <1>4, UpdatedAt DEF RetirePane
<1>5. NoPane.state # "exited"
  BY DEF NoPane
<1> QED BY <1>1, <1>2, <1>3, <1>4, <1>5, OtherSteps

\* The last reply.
LEMMA SaidStep ==
    ASSUME TypeOK, Addressed, OutcomeInv, RowsInv, [Next]_vars, said'.kind = "done"
    PROVE  StillCame(said'.key, said'.code)
<1>1. CASE said' = said
  BY <1>1, StaysCame DEF RowsInv
<1>2. ASSUME NEW c \in Call, CallActs(c), said' # said
      PROVE  StillCame(said'.key, said'.code)
  <2>0. proc[c] \in Proc /\ key[c] \in Key
    <3>1. pc[c] # "idle"
      BY <1>2, ActSteps DEF Steps, Leads
    <3> QED BY <3>1 DEF Addressed
  <2>1. CASE pc[c] = "send" /\ said' = Reply(c, key[c], "done", outcome[c].code, FALSE)
    BY <2>1, EndedCame, StaysCame DEF Reply, Ended
  <2>2. ASSUME NEW row, Answers(c, row), said' = StoredReply(c, proc[c], row)
        PROVE  StillCame(said'.key, said'.code)
    <3>1. row.status = "done" => Came(key[c], row.code)
      <4>1. CASE row = ops[proc[c]][key[c]] \/ row = ReadBack(disk[key[c]])
        BY <2>0, <4>1, DoneRow
      <4>2. CASE row = copy[c]
        BY <4>2 DEF RowsInv
      <4> QED BY <2>2, <4>1, <4>2 DEF Answers
    <3>2. Came(said'.key, said'.code)
      BY <2>0, <2>2, <3>1, DoneStored
    <3> QED BY <3>2, StaysCame
  <2> QED BY <1>2, <2>1, <2>2, ActSaid
<1>3. ASSUME NEW q \in Query, ReplyQuery(q)
      PROVE  StillCame(said'.key, said'.code)
  <2>1. qproc[q] \in Proc /\ qkey[q] \in Key
    BY <1>3 DEF ReplyQuery, Addressed
  <2>2. CASE said' = Unreadable(q, qkey[q])
    BY <2>2 DEF Unreadable, Reply
  <2>3. CASE said' = Answer(q, qproc[q], qkey[q], qrow[q])
    <3>1. said'.key = qkey[q] /\ Came(qkey[q], said'.code)
      BY <2>1, <2>3, DoneAnswer DEF RowsInv
    <3> QED BY <3>1, StaysCame
  <2> QED BY <1>3, <2>2, <2>3 DEF ReplyQuery
<1> QED BY <1>1, <1>2, <1>3, OtherSteps

LEMMA RowsInvStep ==
    ASSUME TypeOK, Addressed, OutcomeInv, RowsInv, BornInv, [Next]_vars
    PROVE  RowsInv'
<1>1. \A p \in Proc, k \in Key : ops'[p][k].status = "done" => StillCame(k, ops'[p][k].code)
  BY RowsStep
<1>2. \A k \in Key : disk'[k].status = "done" => StillCame(k, disk'[k].code)
  BY FilesStep
<1>3. \A c \in Call : copy'[c].status = "done" => StillCame(key'[c], copy'[c].code)
  BY CopiesStep
<1>4. \A q \in Query : qrow'[q].status = "done" => StillCame(qkey'[q], qrow'[q].code)
  BY SnapshotsStep
<1>5. \A p \in Proc, k \in Key : pane'[p][k].state = "exited" => StillCame(k, pane'[p][k].code)
  BY PanesStep
<1>6. said'.kind = "done" => StillCame(said'.key, said'.code)
  BY SaidStep
<1> QED BY <1>1, <1>2, <1>3, <1>4, <1>5, <1>6 DEF RowsInv, StillCame, Came

(***************************************************************************)
(* Processes that are up, and what a goroutine has.                        *)
(***************************************************************************)

LEMMA LifeSteps ==
    ASSUME TypeOK, [Next]_vars
    PROVE  \/ life' = life
           \/ \E p \in Proc : Start(p) /\ life[p] = "unborn" /\ life' = [life EXCEPT ![p] = "up"]
           \/ \E p \in Proc : Die(p) /\ life[p] = "up" /\ life' = [life EXCEPT ![p] = "down"]
<1>1. ASSUME NEW c \in Call, CallActs(c)
      PROVE  life' = life
  BY <1>1, ActSteps DEF Steps
<1>2. CASE ~\E c \in Call : CallActs(c)
  BY <1>2 DEF Next, CallActs, vars, procVars, Start, SetClosed, Die, RetirePane, Dispatch, Release, HandleResultQuery,
     SnapshotAdmission, ReadRow, ReplyQuery
<1> QED BY <1>1, <1>2

\* A process that is up was up, or has been started just now; an unborn one was unborn.
LEMMA LifeOnce ==
    ASSUME TypeOK, [Next]_vars, NEW p \in Proc
    PROVE  /\ life[p] # "unborn" => life'[p] # "unborn"
           /\ life'[p] = "up" => life[p] = "up" \/ (Start(p) /\ life[p] = "unborn")
           /\ life'[p] # "up" => life[p] # "up" \/ Die(p)
  BY LifeSteps DEF TypeOK

LEMMA BeforeSteps ==
    ASSUME TypeOK, [Next]_vars
    PROVE  /\ \A c \in Call : \/ before'[c] = before[c] /\ (pc'[c] = "idle" <=> pc[c] = "idle")
                              \/ pc[c] = "idle" /\ pc'[c] # "idle" /\ copy'[c] = copy[c]
                                 /\ \E p \in Proc, k \in Key, i \in Input : Dispatch(c, p, k, i)
           /\ \A q \in Query : \/ before'[q] = before[q] /\ (qpc'[q] = "idle" <=> qpc[q] = "idle")
                               \/ qpc[q] = "idle" /\ \E p \in Proc, k \in Key : SnapshotAdmission(q, p, k)
<1> USE ApartAssumption
<1>1. ASSUME NEW c \in Call, CallActs(c)
      PROVE  /\ UNCHANGED <<before, qpc>> /\ pc[c] # "idle" /\ pc'[c] # "idle"
             /\ \A d \in Call \ {c} : pc'[d] = pc[d]
  <2>1. PICK t : Steps(c, t)
    BY <1>1, ActSteps
  <2>2. pc \in [Call -> CallSteps] /\ pc' = [pc EXCEPT ![c] = t]
    BY <2>1 DEF Steps, TypeOK
  <2>3. Leads(pc[c], t) /\ UNCHANGED <<before, qpc>>
    BY <2>1 DEF Steps
  <2> QED BY <2>2, <2>3 DEF Leads
<1> USE DEF queryVars, callVars
<1>2. ASSUME NEW c \in Call, NEW p \in Proc, NEW k \in Key, NEW i \in Input, Dispatch(c, p, k, i)
      PROVE  /\ UNCHANGED <<qpc, copy>> /\ pc[c] = "idle" /\ pc'[c] # "idle"
             /\ \A d \in Call \ {c} : pc'[d] = pc[d]
             /\ \A x \in (Call \cup Query) \ {c} : before'[x] = before[x]
  BY <1>2 DEF Dispatch, TypeOK, Goto
<1>3. ASSUME NEW q \in Query, NEW p \in Proc, NEW k \in Key, SnapshotAdmission(q, p, k)
      PROVE  /\ UNCHANGED pc /\ qpc[q] = "idle"
             /\ \A r \in Query \ {q} : qpc'[r] = qpc[r]
             /\ \A x \in (Call \cup Query) \ {q} : before'[x] = before[x]
  BY <1>3 DEF SnapshotAdmission, TypeOK
<1>4. ASSUME NEW q \in Query, ReadRow(q) \/ ReplyQuery(q)
      PROVE  /\ UNCHANGED <<pc, before>> /\ qpc[q] # "idle" /\ qpc'[q] # "idle"
             /\ \A r \in Query \ {q} : qpc'[r] = qpc[r]
  BY <1>4 DEF ReadRow, ReplyQuery, TypeOK
<1>5. ASSUME NEW p \in Proc, Start(p) \/ SetClosed(p) \/ Die(p)
      PROVE  UNCHANGED <<pc, qpc, before>>
  BY <1>5 DEF Start, SetClosed, Die
<1>6. ASSUME NEW p \in Proc, NEW k \in Key, RetirePane(p, k)
      PROVE  UNCHANGED <<pc, qpc, before>>
  BY <1>6 DEF RetirePane
<1>7. ASSUME NEW c \in Call, Release(c)
      PROVE  UNCHANGED <<pc, qpc, before>>
  BY <1>7 DEF Release
<1>8. CASE UNCHANGED vars
  BY <1>8 DEF vars
<1>9. CASE \E c \in Call : CallActs(c)
  BY <1>1, <1>9
<1>10. CASE \E c \in Call, p \in Proc, k \in Key, i \in Input : Dispatch(c, p, k, i)
  <2>1. PICK c \in Call, p \in Proc, k \in Key, i \in Input : Dispatch(c, p, k, i)
    BY <1>10
  <2>2. /\ UNCHANGED <<qpc, copy>> /\ pc[c] = "idle" /\ pc'[c] # "idle"
        /\ \A d \in Call \ {c} : pc'[d] = pc[d]
        /\ \A x \in (Call \cup Query) \ {c} : before'[x] = before[x]
    BY <1>2, <2>1
  <2>3. \A q \in Query : before'[q] = before[q]
    BY <2>2
  <2>4. \A d \in Call \ {c} : before'[d] = before[d]
    BY <2>2
  <2> QED BY <2>1, <2>2, <2>3, <2>4
<1>11. CASE \E q \in Query : HandleResultQuery(q)
  BY <1>3, <1>4, <1>11 DEF HandleResultQuery
<1> QED BY <1>5, <1>6, <1>7, <1>8, <1>9, <1>10, <1>11 DEF Next, CallActs

\* The lock is taken by a delivery that found no row, and given back by it.
LEMMA ActLock ==
    ASSUME TypeOK, NEW c \in Call, CallActs(c)
    PROVE  \/ opLock' = opLock /\ (pc'[c] \in {"create", "seal"} => pc[c] = "create")
           \/ pc[c] = "lookup" /\ opLock[proc[c]] = Nobody /\ opLock' = [opLock EXCEPT ![proc[c]] = c]
           \/ /\ pc[c] \in {"create", "seal"} /\ pc'[c] \notin {"create", "seal"}
              /\ opLock' = [opLock EXCEPT ![proc[c]] = Nobody]
<1>0. pc \in [Call -> CallSteps]
  BY DEF TypeOK
<1> USE DEF Goto, At, procVars
<1>1. CASE FindRow(c)
  BY <1>0, <1>1 DEF FindRow, LockFree
<1>2. CASE CreateIntent(c) \/ SealIntent(c)
  BY <1>0, <1>2 DEF CreateIntent, SealIntent
<1>3. CASE ReplyUpdateBusy(c) \/ ReplyStoredRun(c) \/ HandleRun(c)
  BY <1>0, <1>3 DEF ReplyUpdateBusy, ReplyStoredRun, HandleRun
<1>4. CASE SpawnPane(c) \/ PollFinished(c) \/ RecordDone(c) \/ SendResult(c)
  BY <1>0, <1>4 DEF SpawnPane, PollFinished, RecordDone, SendResult
<1>5. CASE Approve(c) \/ RejectPending(c) \/ PaneExit(c)
  BY <1>0, <1>5 DEF Approve, RejectPending, PaneExit
<1> QED BY <1>1, <1>2, <1>3, <1>4, <1>5 DEF CallActs, CallStep

\* A process that loses its memory, or has just started, has none.
LEMMA RowsAreOfUp ==
    ASSUME TypeOK, Addressed, OwnershipInv, BornInv, [Next]_vars, NEW p \in Proc, NEW k \in Key
    PROVE  /\ life'[p] # "up" => ops'[p][k] = NoRow
           /\ disk'[k] = Absent => ops'[p][k] = NoRow
<1>0. ops \in [Proc -> [Key -> Rows \cup {NoRow}]] /\ disk \in [Key -> Receipts \cup {Absent, Corrupt}]
  BY DEF TypeOK
<1>1. ASSUME NEW q \in Proc, Die(q)
      PROVE  (q = p => ops'[p][k] = NoRow) /\ (q # p => ops'[p][k] = ops[p][k] /\ life'[p] = life[p]) /\ disk' = disk
  BY <1>0, <1>1 DEF Die, TypeOK
<1>2. CASE \E q \in Proc : Die(q)
  BY <1>1, <1>2 DEF BornInv
<1>3. ASSUME NEW c \in Call, CallActs(c)
      PROVE  /\ life'[p] # "up" => ops'[p][k] = NoRow
             /\ disk'[k] = Absent => ops'[p][k] = NoRow
  <2>1. life' = life /\ life[proc[c]] = "up"
    BY <1>3, ActSteps DEF Steps
  <2>2. ~IsReceipt(Absent) /\ Absent # Corrupt /\ \A i, s, x : s \in {"running", "done"} => Receipt(i, s, x) # Absent
    BY DEF IsReceipt, Absent, Corrupt, Receipt
  <2>3. disk'[k] = Absent => disk[k] = Absent
    BY <1>3, <2>2, ActDisk
  <2>4. CASE ops'[p][k] = ops[p][k]
    BY <2>1, <2>3, <2>4 DEF BornInv
  <2>5. CASE FindsAt(c, p, k)
    BY <2>1, <2>2, <2>5 DEF FindsAt
  <2>6. CASE SealsAt(c, p, k)
    BY <2>1, <2>2, <2>6 DEF SealsAt
  <2>7. CASE RecordsAt(c, p, k)
    <3>1. IsReceipt(disk[k])
      BY <2>7 DEF RecordsAt, OwnershipInv, Ownership, Owning
    <3> QED BY <2>1, <2>2, <2>7, <3>1 DEF RecordsAt
  <2> QED BY <1>3, <2>4, <2>5, <2>6, <2>7, ActRows
<1>4. CASE UNCHANGED <<ops, disk>> /\ ~\E q \in Proc : Die(q)
  <2>1. life'[p] # "up" => life[p] # "up"
    BY <1>4, LifeOnce
  <2> QED BY <1>4, <2>1 DEF BornInv
<1> QED BY <1>2, <1>3, <1>4, OtherSteps

LEMMA CopiesAreOfStarted ==
    ASSUME TypeOK, Addressed, BornInv, [Next]_vars, NEW c \in Call, pc'[c] = "idle"
    PROVE  before'[c] = Absent /\ copy'[c] = NoRow
<1>1. before'[c] = before[c] /\ pc[c] = "idle"
  BY BeforeSteps
<1>2. before[c] = Absent /\ copy[c] = NoRow
  BY <1>1 DEF BornInv
<1>3. ASSUME NEW d \in Call, CallActs(d)
      PROVE  copy'[c] = NoRow
  BY <1>1, <1>2, <1>3, ActCopy
<1> QED BY <1>1, <1>2, <1>3, OtherSteps

LEMMA SnapshotsAreOfStarted ==
    ASSUME TypeOK, BornInv, [Next]_vars, NEW q \in Query, qpc'[q] = "idle"
    PROVE  before'[q] = Absent /\ qrow'[q] = NoRow
<1>1. ASSUME NEW r \in Query, NEW p \in Proc, NEW k \in Key, SnapshotAdmission(r, p, k)
      PROVE  qpc'[r] # "idle" /\ qrow' = qrow
  BY <1>1 DEF SnapshotAdmission, TypeOK
<1>2. before'[q] = before[q] /\ qpc[q] = "idle"
  BY <1>1, BeforeSteps
<1>3. before[q] = Absent /\ qrow[q] = NoRow
  BY <1>2 DEF BornInv
<1>4. ASSUME NEW r \in Query, ReadRow(r) \/ ReplyQuery(r)
      PROVE  qrow'[q] = NoRow
  BY <1>2, <1>3, <1>4 DEF ReadRow, ReplyQuery, TypeOK
<1> QED BY <1>1, <1>2, <1>3, <1>4, QueryRows DEF HandleResultQuery

\* Who has spoken has been asked.
LEMMA SpeakersStep ==
    ASSUME TypeOK, BornInv, [Next]_vars
    PROVE  /\ said'.by \in Call => pc'[said'.by] # "idle"
           /\ said'.by \in Query => qpc'[said'.by] = "done"
<1>1. CASE said' = said
  <2>1. ASSUME said.by \in Query
        PROVE  qpc'[said.by] = "done"
    <3>1. qpc[said.by] = "done"
      BY <2>1 DEF BornInv
    <3> QED BY <2>1, <3>1, QueryRows DEF HandleResultQuery, SnapshotAdmission, ReadRow, ReplyQuery, TypeOK
  <2> QED BY <1>1, <2>1, BeforeSteps DEF BornInv
<1>2. ASSUME NEW c \in Call, CallActs(c), said' # said
      PROVE  said'.by = c /\ pc'[c] # "idle"
  <2>1. said'.by = c
    <3>1. ASSUME NEW row PROVE StoredReply(c, proc[c], row).by = c
      BY DEF StoredReply, Answer, Envelope, Reply
    <3> QED BY <1>2, <3>1, ActSaid DEF Reply
  <2>2. PICK t : Steps(c, t)
    BY <1>2, ActSteps
  <2> QED BY <2>1, <2>2 DEF Steps, Leads, TypeOK
<1>3. ASSUME NEW q \in Query, ReplyQuery(q)
      PROVE  said'.by = q /\ qpc'[q] = "done"
  <2>1. Answer(q, qproc[q], qkey[q], qrow[q]).by = q /\ Unreadable(q, qkey[q]).by = q
    BY DEF Answer, Envelope, Reply, Unreadable
  <2> QED BY <1>3, <2>1 DEF ReplyQuery, TypeOK
<1> QED BY <1>1, <1>2, <1>3, OtherSteps, ApartAssumption

\* The lock of a process that is up is held by who writes an intent.
LEMMA LocksStep ==
    ASSUME TypeOK, Addressed, BornInv, [Next]_vars,
           NEW c \in Call, pc'[c] \in {"create", "seal"}, life'[proc'[c]] = "up"
    PROVE  opLock'[proc'[c]] = c
<1>0. opLock \in [Proc -> Call \cup {Nobody}] /\ pc \in [Call -> CallSteps]
  BY DEF TypeOK
<1>1. ASSUME NEW d \in Call, CallActs(d)
      PROVE  opLock'[proc'[c]] = c
  <2>1. /\ UNCHANGED <<life, proc>> /\ proc[d] \in Proc /\ life[proc[d]] = "up"
        /\ (c # d => pc'[c] = pc[c])
    BY <1>0, <1>1, ActSteps DEF Steps
  <2>2. CASE opLock' = opLock /\ (pc'[d] \in {"create", "seal"} => pc[d] = "create")
    BY <2>1, <2>2 DEF BornInv
  <2>3. CASE pc[d] = "lookup" /\ opLock[proc[d]] = Nobody /\ opLock' = [opLock EXCEPT ![proc[d]] = d]
    BY <1>0, <2>1, <2>3, NobodyAssumption DEF BornInv
  <2>4. CASE /\ pc[d] \in {"create", "seal"} /\ pc'[d] \notin {"create", "seal"}
             /\ opLock' = [opLock EXCEPT ![proc[d]] = Nobody]
    BY <1>0, <2>1, <2>4 DEF BornInv
  <2> QED BY <1>1, <2>2, <2>3, <2>4, ActLock
<1>2. CASE ~\E d \in Call : CallActs(d)
  <2>1. pc[c] = pc'[c]
    <3>1. ASSUME NEW d \in Call, NEW p \in Proc, NEW k \in Key, NEW i \in Input, Dispatch(d, p, k, i)
          PROVE  pc[c] = pc'[c]
      BY <1>0, <3>1 DEF Dispatch, Goto
    <3> QED BY <1>2, <3>1, OtherSteps
  <2>2. proc'[c] = proc[c] /\ proc[c] \in Proc
    BY <2>1, KeysStay DEF Addressed
  <2>3. life[proc[c]] = "up" /\ ~Die(proc[c])
    <3>1. life[proc[c]] # "unborn"
      BY <2>1 DEF BornInv
    <3>2. life[proc[c]] = "up"
      BY <2>2, <3>1, LifeOnce
    <3> QED BY <2>2, <3>2 DEF Die, TypeOK
  <2>4. opLock'[proc[c]] = opLock[proc[c]]
    <3>1. ASSUME NEW p \in Proc, Die(p)
          PROVE  opLock'[proc[c]] = opLock[proc[c]]
      BY <1>0, <2>2, <2>3, <3>1 DEF Die
    <3>2. CASE ~\E p \in Proc : Die(p)
      BY <1>2, <3>2 DEF Next, CallActs, vars, procVars, Start, SetClosed, RetirePane, Dispatch, Release,
         HandleResultQuery, SnapshotAdmission, ReadRow, ReplyQuery
    <3> QED BY <3>1, <3>2
  <2> QED BY <2>1, <2>2, <2>3, <2>4 DEF BornInv
<1> QED BY <1>1, <1>2

LEMMA BornInvStep ==
    ASSUME TypeOK, Addressed, OwnershipInv, BornInv, [Next]_vars
    PROVE  BornInv'
<1>1. \A p \in Proc : life'[p] # "up" => \A k \in Key : ops'[p][k] = NoRow
  BY RowsAreOfUp
<1>2. \A p \in Proc, k \in Key : disk'[k] = Absent => ops'[p][k] = NoRow
  BY RowsAreOfUp
<1>3. ASSUME NEW c \in Call, pc'[c] # "idle" PROVE life'[proc'[c]] # "unborn"
  <2>1. CASE pc[c] # "idle"
    BY <2>1, KeysStay, LifeOnce DEF BornInv, Addressed
  <2>2. CASE pc[c] = "idle"
    <3>1. PICK p \in Proc, k \in Key, i \in Input : Dispatch(c, p, k, i)
      BY <1>3, <2>2, BeforeSteps
    <3> QED BY <3>1 DEF Dispatch, TypeOK
  <2> QED BY <2>1, <2>2
<1>4. ASSUME NEW q \in Query, qpc'[q] # "idle" PROVE life'[qproc'[q]] # "unborn"
  <2>1. CASE qpc[q] # "idle"
    BY <2>1, KeysStay, LifeOnce DEF BornInv, Addressed
  <2>2. CASE qpc[q] = "idle"
    <3>1. PICK p \in Proc, k \in Key : SnapshotAdmission(q, p, k)
      BY <1>4, <2>2, BeforeSteps
    <3> QED BY <3>1 DEF SnapshotAdmission, procVars, TypeOK
  <2> QED BY <2>1, <2>2
<1>5. \A c \in Call : pc'[c] = "idle" => before'[c] = Absent /\ copy'[c] = NoRow
  BY CopiesAreOfStarted
<1>6. \A q \in Query : qpc'[q] = "idle" => before'[q] = Absent /\ qrow'[q] = NoRow
  BY SnapshotsAreOfStarted
<1>7. /\ said'.by \in Call => pc'[said'.by] # "idle"
      /\ said'.by \in Query => qpc'[said'.by] = "done"
  BY SpeakersStep
<1>8. \A c \in Call : pc'[c] \in {"create", "seal"} /\ life'[proc'[c]] = "up" => opLock'[proc'[c]] = c
  BY LocksStep
<1> QED BY <1>1, <1>2, <1>3, <1>4, <1>5, <1>6, <1>7, <1>8 DEF BornInv

(***************************************************************************)
(* Admissions.                                                             *)
(***************************************************************************)

LEMMA OneMore ==
    ASSUME NEW S, IsFiniteSet(S), NEW x, x \notin S
    PROVE  IsFiniteSet(S \cup {x}) /\ Cardinality(S \cup {x}) = Cardinality(S) + 1
  BY FS_AddElement

LEMMA OneLess ==
    ASSUME NEW S, IsFiniteSet(S), NEW x \in S
    PROVE  IsFiniteSet(S \ {x}) /\ Cardinality(S \ {x}) = Cardinality(S) - 1
  BY FS_RemoveElement

\* Nobody's admission at p for k comes or goes.
LEMMA SameHolders ==
    ASSUME Counted, NEW p \in Proc, NEW k \in Key, life[p] # "down", admitted'[p][k] = admitted[p][k],
           \A c \in Call : (proc'[c] = p /\ key'[c] = k /\ held'[c]) <=> (proc[c] = p /\ key[c] = k /\ held[c])
    PROVE  IsFiniteSet(Holders(p, k)') /\ admitted'[p][k] = Cardinality(Holders(p, k)')
<1>1. Holders(p, k)' = Holders(p, k)
  BY DEF Holders
<1> QED BY <1>1 DEF Counted

LEMMA DispatchCounted ==
    ASSUME TypeOK, Addressed, Counted, NEW c \in Call, NEW p0 \in Proc, NEW k0 \in Key, NEW i \in Input,
           Dispatch(c, p0, k0, i), NEW p \in Proc, NEW k \in Key, life[p] # "down"
    PROVE  IsFiniteSet(Holders(p, k)') /\ admitted'[p][k] = Cardinality(Holders(p, k)')
<1>1. /\ proc'[c] = p0 /\ key'[c] = k0 /\ ~held[c]
      /\ \A d \in Call \ {c} : proc'[d] = proc[d] /\ key'[d] = key[d]
  BY DEF Dispatch, TypeOK, Addressed
<1>2. CASE closed[p0]
  <2>1. admitted' = admitted /\ held' = held
    BY <1>2 DEF Dispatch
  <2> QED BY <1>1, <2>1, SameHolders
<1>3. CASE ~closed[p0]
  <2>1. /\ admitted' = [admitted EXCEPT ![p0][k0] = admitted[p0][k0] + 1]
        /\ held'[c] /\ \A d \in Call \ {c} : held'[d] = held[d]
    BY <1>3 DEF Dispatch, TypeOK
  <2>2. admitted \in [Proc -> [Key -> Int]]
    BY DEF TypeOK
  <2>3. admitted'[p][k] = IF p = p0 /\ k = k0 THEN admitted[p0][k0] + 1 ELSE admitted[p][k]
    BY <2>1, <2>2, UpdatedAt
  <2>4. CASE p = p0 /\ k = k0
    <3>1. Holders(p, k)' = Holders(p, k) \cup {c} /\ c \notin Holders(p, k)
      BY <1>1, <2>1, <2>4 DEF Holders
    <3>2. IsFiniteSet(Holders(p, k)) /\ admitted[p][k] = Cardinality(Holders(p, k))
      BY DEF Counted
    <3>3. IsFiniteSet(Holders(p, k) \cup {c}) /\ Cardinality(Holders(p, k) \cup {c}) = Cardinality(Holders(p, k)) + 1
      BY <3>1, <3>2, OneMore
    <3> QED BY <2>3, <2>4, <3>1, <3>2, <3>3
  <2>5. CASE ~(p = p0 /\ k = k0)
    <3>1. admitted'[p][k] = admitted[p][k]
      BY <2>3, <2>5
    <3> QED BY <1>1, <2>1, <2>5, <3>1, SameHolders
  <2> QED BY <2>4, <2>5
<1> QED BY <1>2, <1>3

LEMMA ReleaseCounted ==
    ASSUME TypeOK, Addressed, Counted, NEW c \in Call, Release(c), NEW p \in Proc, NEW k \in Key, life[p] # "down"
    PROVE  IsFiniteSet(Holders(p, k)') /\ admitted'[p][k] = Cardinality(Holders(p, k)')
<1>1. /\ UNCHANGED <<proc, key>> /\ held[c] /\ ~held'[c]
      /\ \A d \in Call \ {c} : held'[d] = held[d]
      /\ proc[c] \in Proc /\ key[c] \in Key
      /\ admitted' = [admitted EXCEPT ![proc[c]][key[c]] = admitted[proc[c]][key[c]] - 1]
      /\ admitted \in [Proc -> [Key -> Int]]
  BY DEF Release, TypeOK, Addressed
<1>2. admitted'[p][k] = IF p = proc[c] /\ k = key[c] THEN admitted[proc[c]][key[c]] - 1 ELSE admitted[p][k]
  BY <1>1, UpdatedAt
<1>3. CASE p = proc[c] /\ k = key[c]
  <2>1. Holders(p, k)' = Holders(p, k) \ {c} /\ c \in Holders(p, k)
    BY <1>1, <1>3 DEF Holders
  <2>2. IsFiniteSet(Holders(p, k)) /\ admitted[p][k] = Cardinality(Holders(p, k))
    BY DEF Counted
  <2>3. IsFiniteSet(Holders(p, k) \ {c}) /\ Cardinality(Holders(p, k) \ {c}) = Cardinality(Holders(p, k)) - 1
    BY <2>1, <2>2, OneLess
  <2> QED BY <1>2, <1>3, <2>1, <2>2, <2>3
<1>4. CASE ~(p = proc[c] /\ k = key[c])
  <2>1. admitted'[p][k] = admitted[p][k]
    BY <1>2, <1>4
  <2> QED BY <1>1, <1>4, <2>1, SameHolders
<1> QED BY <1>3, <1>4

LEMMA CountedStep ==
    ASSUME TypeOK, Addressed, Counted, [Next]_vars
    PROVE  Counted'
<1>1. SUFFICES ASSUME NEW p \in Proc, NEW k \in Key, life'[p] # "down"
               PROVE  IsFiniteSet(Holders(p, k)') /\ admitted'[p][k] = Cardinality(Holders(p, k)')
  BY DEF Counted
<1>2. life[p] # "down" /\ ~Die(p)
  <2>1. Die(p) => life'[p] = "down"
    BY DEF Die, TypeOK
  <2> QED BY <1>1, <2>1, LifeSteps DEF TypeOK
<1>3. ASSUME NEW c \in Call, NEW p0 \in Proc, NEW k0 \in Key, NEW i \in Input, Dispatch(c, p0, k0, i)
      PROVE  IsFiniteSet(Holders(p, k)') /\ admitted'[p][k] = Cardinality(Holders(p, k)')
  BY <1>2, <1>3, DispatchCounted
<1>4. ASSUME NEW c \in Call, Release(c)
      PROVE  IsFiniteSet(Holders(p, k)') /\ admitted'[p][k] = Cardinality(Holders(p, k)')
  BY <1>2, <1>4, ReleaseCounted
<1>5. CASE UNCHANGED <<proc, key, held>> /\ admitted'[p][k] = admitted[p][k]
  BY <1>2, <1>5, SameHolders
<1>6. ASSUME NEW c \in Call, CallActs(c)
      PROVE  UNCHANGED <<proc, key, held>> /\ admitted'[p][k] = admitted[p][k]
  BY <1>6, ActSteps DEF Steps
<1>7. ASSUME NEW q \in Proc, Start(q) \/ SetClosed(q) \/ Die(q)
      PROVE  UNCHANGED <<proc, key, held>> /\ admitted'[p][k] = admitted[p][k]
  BY <1>2, <1>7 DEF Start, SetClosed, Die, callVars, TypeOK
<1>8. ASSUME NEW q \in Proc, NEW j \in Key, RetirePane(q, j)
      PROVE  UNCHANGED <<proc, key, held>> /\ admitted'[p][k] = admitted[p][k]
  BY <1>8 DEF RetirePane, callVars
<1>9. ASSUME NEW q \in Query, HandleResultQuery(q)
      PROVE  UNCHANGED <<proc, key, held>> /\ admitted'[p][k] = admitted[p][k]
  BY <1>9 DEF HandleResultQuery, SnapshotAdmission, ReadRow, ReplyQuery, callVars, procVars
<1>10. CASE UNCHANGED vars
  BY <1>5, <1>10 DEF vars, callVars, procVars
<1> QED BY <1>3, <1>4, <1>5, <1>6, <1>7, <1>8, <1>9, <1>10 DEF Next, CallActs

(***************************************************************************)
(* One process after the other: what is in memory agrees with the disk.    *)
(***************************************************************************)

LEMMA OnceOneByOne ==
    ASSUME TypeOK, [Next]_vars, OneByOne'
    PROVE  OneByOne
  BY LifeOnce, HastyAssumption DEF OneByOne

LEMMA AloneStep ==
    ASSUME TypeOK, OneByOne, Agreed, [Next]_vars, NEW p \in Proc, NEW q \in Proc, life'[p] = "up", life'[q] = "up"
    PROVE  p = q
<1>1. ASSUME NEW r \in Proc, Start(r), life' = [life EXCEPT ![r] = "up"]
      PROVE  p = q
  <2>1. \A s \in Proc : life[s] # "up"
    BY <1>1 DEF Start, OneByOne
  <2> QED BY <1>1, <2>1 DEF TypeOK
<1>2. CASE life' = life
  BY <1>2 DEF Agreed
<1>3. ASSUME NEW r \in Proc, life' = [life EXCEPT ![r] = "down"]
      PROVE  p = q
  BY <1>3 DEF Agreed, TypeOK
<1> QED BY <1>1, <1>2, <1>3, LifeSteps

LEMMA AgreedStep ==
    ASSUME TypeOK, Addressed, OwnershipInv, BornInv, OneByOne, Agreed, [Next]_vars
    PROVE  Agreed'
<1>0. ops \in [Proc -> [Key -> Rows \cup {NoRow}]] /\ disk \in [Key -> Receipts \cup {Absent, Corrupt}]
  BY DEF TypeOK
<1>1. ASSUME NEW p \in Proc, NEW k \in Key, disk'[k].status = "done"
      PROVE  ops'[p][k] \in {NoRow, disk'[k]}
  <2>1. ASSUME NEW c \in Call, CallActs(c), disk'[k] = disk[k]
        PROVE  ops'[p][k] \in {NoRow, disk'[k]}
    <3>1. CASE FindsAt(c, p, k)
      BY <1>1, <2>1, <3>1 DEF FindsAt, ReadBack
    <3>2. CASE SealsAt(c, p, k)
      BY <3>2 DEF SealsAt
    <3>3. CASE RecordsAt(c, p, k)
      <4>1. disk[k].status = "running"
        BY <3>3 DEF RecordsAt, OwnershipInv, Ownership, Owning
      <4> QED BY <1>1, <2>1, <4>1
    <3> QED BY <1>1, <2>1, <3>1, <3>2, <3>3, ActRows DEF Agreed
  <2>2. ASSUME NEW c \in Call, CallActs(c), disk'[k] # disk[k]
        PROVE  ops'[p][k] \in {NoRow, disk'[k]}
    <3>1. Corrupt.status # "done" /\ Receipt(cmd[c], "running", 0).status # "done"
      BY DEF Corrupt, Receipt
    <3> DEFINE row == Receipt(cmd[c], "done", outcome[c].code)
    <3>2. RecordDone(c) /\ key[c] = k /\ disk'[k] = row
      BY <1>1, <2>2, <3>1, ActDisk
    <3>3. /\ proc[c] \in Proc /\ life[proc[c]] = "up" /\ life' = life
          /\ ops' = [ops EXCEPT ![proc[c]][k] = row]
      BY <3>2 DEF RecordDone, At, Alive
    <3> HIDE DEF row
    <3>4. CASE p = proc[c]
      BY <1>0, <3>2, <3>3, <3>4, UpdatedAt
    <3>5. CASE p # proc[c]
      <4>1. life'[p] # "up"
        BY <3>3, <3>5 DEF Agreed
      <4> QED BY <4>1, RowsAreOfUp
    <3> QED BY <3>4, <3>5
  <2>3. ASSUME NEW q \in Proc, Die(q)
        PROVE  ops'[p][k] = ops[p][k] \/ ops'[p][k] = NoRow
    BY <1>0, <2>3 DEF Die
  <2> QED BY <1>1, <2>1, <2>2, <2>3, OtherSteps DEF Agreed
<1> QED BY <1>1, AloneStep DEF Agreed

(***************************************************************************)
(* A completed receipt answers.                                            *)
(***************************************************************************)

LEMMA CameOnce ==
    ASSUME OutcomeInv, NEW k, NEW x, NEW y, Came(k, x), Came(k, y)
    PROVE  x = y
<1>1. PICK c \in Call : key[c] = k /\ outcome[c] = Settled(x)
  BY DEF Came
<1>2. PICK d \in Call : key[d] = k /\ outcome[d] = Settled(y)
  BY DEF Came
<1>3. outcome[c].settled /\ outcome[d].settled
  BY <1>1, <1>2 DEF Settled
<1>4. c = d
  BY <1>1, <1>2, <1>3 DEF OutcomeInv
<1> QED BY <1>1, <1>2, <1>4 DEF Settled

\* What a completed receipt has to say, whoever says it.
LEMMA LateAnswer ==
    ASSUME TypeOK, OutcomeInv, RowsInv, NEW p \in Proc, NEW k \in Key, NEW who, disk[k].status = "done"
    PROVE  Answer(who, p, k, disk[k]) = Reply(who, k, "done", disk[k].code, FALSE)
<1>1. disk[k] # NoRow
  BY DEF NoRow, Receipt
<1>2. CASE pane[p][k].state = "exited"
  <2>1. Came(k, pane[p][k].code) /\ Came(k, disk[k].code)
    BY <1>2 DEF RowsInv
  <2>2. pane[p][k].code = disk[k].code
    BY <2>1, CameOnce
  <2> QED BY <1>1, <1>2, <2>2 DEF Answer
<1>3. CASE pane[p][k].state # "exited"
  BY <1>1, <1>3 DEF Answer, Envelope
<1> QED BY <1>2, <1>3

\* The row that is found for a completed receipt.
LEMMA LateRow ==
    ASSUME Agreed, NEW p \in Proc, NEW k \in Key, disk[k].status = "done"
    PROVE  /\ ReadBack(disk[k]) = disk[k] /\ disk[k] # NoRow
           /\ ops[p][k] # NoRow => ops[p][k] = disk[k]
  BY DEF Agreed, ReadBack, IsReceipt, NoRow, Receipt

LEMMA LateCalls ==
    ASSUME TypeOK, Addressed, OwnershipInv, BornInv, OneByOne, Agreed, LateInv, [Next]_vars,
           NEW c \in Call, before'[c].status = "done"
    PROVE  LateCall(c)'
<1>0. pc \in [Call -> CallSteps]
  BY DEF TypeOK
<1>1. ASSUME NEW p \in Proc, NEW k \in Key, NEW i \in Input, Dispatch(c, p, k, i)
      PROVE  LateCall(c)'
  BY <1>1 DEF Dispatch, Goto, LateCall, TypeOK
<1>2. CASE ~\E p \in Proc, k \in Key, i \in Input : Dispatch(c, p, k, i)
  <2>1. before'[c] = before[c]
    BY <1>2, BeforeSteps
  <2>2. LateCall(c) /\ pc[c] # "idle"
    BY <1>1, <2>1 DEF LateInv, BornInv, LateCall
  <2>3. proc[c] \in Proc /\ key[c] \in Key /\ key'[c] = key[c] /\ disk[key[c]].status = "done"
    BY <1>1, <2>1, <2>2, KeysStay DEF Addressed, LateCall
  <2>4. disk'[key[c]] = disk[key[c]]
    BY <2>3, ReceiptsStay DEF IsReceipt
  <2>5. CASE pc'[c] = pc[c] /\ copy'[c] = copy[c]
    BY <2>1, <2>2, <2>3, <2>4, <2>5 DEF LateCall
  <2>6. CASE CallActs(c)
    <3>1. PICK t : Steps(c, t)
      BY <2>6, ActSteps
    <3>2. pc'[c] = t /\ Leads(pc[c], t)
      BY <1>0, <3>1 DEF Steps
    <3>3. t # "create"
      <4>1. ASSUME t = "create" PROVE FALSE
        <5>1. pc[c] = "lookup" /\ FindRow(c)
          BY <1>0, <2>6, <3>2, <4>1 DEF Leads, CallActs, CallStep, ReplyUpdateBusy, ReplyStoredRun, CreateIntent,
             SealIntent, HandleRun, SpawnPane, PollFinished, RecordDone, SendResult, Approve, RejectPending,
             PaneExit, At
        <5>2. ReadBack(disk[key[c]]) = NoRow
          BY <1>0, <3>2, <4>1, <5>1 DEF FindRow, Goto
        <5> QED BY <2>3, <5>2, LateRow
      <4> QED BY <4>1
    <3>4. pc'[c] \in {"busy", "lookup", "stored", "done"}
      BY <2>2, <3>2, <3>3 DEF LateCall, Leads
    <3>5. ASSUME pc'[c] = "stored" PROVE copy'[c] = before'[c]
      <4>1. copy'[c] = ops'[proc[c]][key[c]] /\ copy'[c] # NoRow
        BY <2>6, <3>5, <3>2, ActCopy DEF Leads
      <4>2. Agreed'
        BY AgreedStep
      <4>3. ops'[proc[c]][key[c]] \in {NoRow, disk'[key[c]]}
        BY <2>3, <2>4, <4>2 DEF Agreed
      <4> QED BY <2>1, <2>2, <2>4, <4>1, <4>3 DEF LateCall
    <3> QED BY <2>1, <2>2, <2>3, <2>4, <3>4, <3>5 DEF LateCall
  <2>7. CASE ~CallActs(c)
    <3>1. ASSUME NEW d \in Call, CallActs(d)
          PROVE  pc'[c] = pc[c] /\ copy'[c] = copy[c]
      <4>1. c # d
        BY <2>7, <3>1
      <4> QED BY <1>0, <3>1, <4>1, ActSteps, ActCopy DEF Steps
    <3>2. ASSUME NEW d \in Call, NEW p \in Proc, NEW k \in Key, NEW i \in Input, Dispatch(d, p, k, i)
          PROVE  pc'[c] = pc[c] /\ copy'[c] = copy[c]
      BY <1>0, <1>2, <3>2 DEF Dispatch, Goto
    <3> QED BY <2>5, <3>1, <3>2, OtherSteps
  <2> QED BY <2>6, <2>7
<1> QED BY <1>1, <1>2

LEMMA LateQueries ==
    ASSUME TypeOK, Addressed, OwnershipInv, BornInv, Agreed, LateInv, [Next]_vars,
           NEW q \in Query, before'[q].status = "done"
    PROVE  LateQuery(q)'
<1>0. qpc \in [Query -> QuerySteps] /\ qrow \in [Query -> Rows \cup {NoRow}]
  BY DEF TypeOK
<1>1. ASSUME NEW p \in Proc, NEW k \in Key, SnapshotAdmission(q, p, k)
      PROVE  LateQuery(q)'
  BY <1>1 DEF SnapshotAdmission, LateQuery, TypeOK
<1>2. CASE ~\E p \in Proc, k \in Key : SnapshotAdmission(q, p, k)
  <2>1. before'[q] = before[q]
    BY <1>2, BeforeSteps
  <2>2. Absent.status # "done"
    BY DEF Absent, Receipt
  <2>3. LateQuery(q) /\ qpc[q] # "idle"
    BY <2>1, <2>2 DEF LateInv, BornInv
  <2>4. qproc[q] \in Proc /\ qkey[q] \in Key /\ qkey'[q] = qkey[q] /\ disk[qkey[q]].status = "done"
    BY <2>1, <2>3, KeysStay DEF Addressed, LateQuery
  <2>5. disk'[qkey[q]] = disk[qkey[q]]
    BY <2>4, ReceiptsStay DEF IsReceipt
  <2>6. CASE ReadRow(q)
    <3> DEFINE row == IF ops[qproc[q]][qkey[q]] # NoRow THEN ops[qproc[q]][qkey[q]] ELSE ReadBack(disk[qkey[q]])
    <3>1. qpc'[q] = "unreadable" \/ qrow'[q] = IF row = NoRow THEN StandIn(q) ELSE row
      BY <1>0, <2>6 DEF ReadRow
    <3>2. row = disk[qkey[q]] /\ row # NoRow
      BY <2>4, LateRow
    <3> QED BY <2>1, <2>3, <2>4, <2>5, <3>1, <3>2 DEF LateQuery
  <2>7. CASE ReplyQuery(q)
    BY <1>0, <2>1, <2>3, <2>4, <2>5, <2>7 DEF ReplyQuery, LateQuery
  <2>8. CASE ~ReadRow(q) /\ ~ReplyQuery(q)
    <3>1. ASSUME NEW r \in Query, HandleResultQuery(r)
          PROVE  qpc'[q] = qpc[q] /\ qrow'[q] = qrow[q]
      BY <1>0, <1>2, <2>8, <3>1 DEF HandleResultQuery, SnapshotAdmission, ReadRow, ReplyQuery
    <3>2. qpc'[q] = qpc[q] /\ qrow'[q] = qrow[q]
      BY <3>1, QueryRows
    <3> QED BY <2>1, <2>3, <2>4, <2>5, <3>2 DEF LateQuery
  <2> QED BY <2>6, <2>7, <2>8
<1> QED BY <1>1, <1>2

\* What is said to a delivery or a query that came after the end.
LEMMA LateReplies ==
    ASSUME TypeOK, Addressed, OutcomeInv, RowsInv, BornInv, Agreed, LateInv, [Next]_vars,
           NEW x \in Call \cup Query, said'.by = x, before'[x].status = "done", said'.kind # "conflict", ~said'.fault
    PROVE  said'.kind = "done" /\ said'.code = before'[x].code
<1>1. CASE said' = said
  <2>1. before'[x] = before[x]
    BY <1>1, BeforeSteps DEF BornInv
  <2> QED BY <1>1, <2>1 DEF LateInv, CompletedReceiptAnswers
<1>2. ASSUME NEW c \in Call, CallActs(c), said' # said
      PROVE  said'.kind = "done" /\ said'.code = before'[x].code
  <2>0. ASSUME NEW row PROVE StoredReply(c, proc[c], row).by = c
    BY DEF StoredReply, Answer, Envelope, Reply
  <2>1. said'.by = c
    BY <1>2, <2>0, ActSaid DEF Reply
  <2>2. x = c /\ before' = before
    BY <1>2, <2>1, ActSteps DEF Steps
  <2>3. LateCall(c) /\ pc[c] # "idle"
    BY <2>2 DEF LateInv, LateCall
  <2>4. proc[c] \in Proc /\ key[c] \in Key /\ disk[key[c]] = before[c] /\ disk[key[c]].status = "done"
    BY <2>2, <2>3 DEF Addressed, LateCall
  <2>5. /\ ReadBack(disk[key[c]]) = disk[key[c]] /\ disk[key[c]] # NoRow
        /\ ops[proc[c]][key[c]] # NoRow => ops[proc[c]][key[c]] = disk[key[c]]
    BY <2>4, LateRow
  <2>6. PICK row : Answers(c, row) /\ said' = StoredReply(c, proc[c], row)
    BY <1>2, <2>3, <2>5, ActSaid DEF LateCall
  <2>7. row = disk[key[c]]
    BY <2>3, <2>4, <2>5, <2>6 DEF Answers, LateCall
  <2>8. said' = Answer(c, proc[c], key[c], disk[key[c]])
    BY <2>6, <2>7 DEF StoredReply, Reply
  <2>9. Answer(c, proc[c], key[c], disk[key[c]]) = Reply(c, key[c], "done", disk[key[c]].code, FALSE)
    BY <2>4, LateAnswer
  <2> QED BY <2>2, <2>4, <2>8, <2>9 DEF Reply
<1>3. ASSUME NEW q \in Query, ReplyQuery(q)
      PROVE  said'.kind = "done" /\ said'.code = before'[x].code
  <2>1. /\ qproc[q] \in Proc /\ qkey[q] \in Key /\ before' = before
        /\ qpc[q] \in {"reply", "unreadable"}
        /\ said' = IF qpc[q] = "unreadable" THEN Unreadable(q, qkey[q]) ELSE Answer(q, qproc[q], qkey[q], qrow[q])
    BY <1>3 DEF ReplyQuery, Addressed
  <2>2. Unreadable(q, qkey[q]).fault /\ Answer(q, qproc[q], qkey[q], qrow[q]).by = q /\ Unreadable(q, qkey[q]).by = q
    BY DEF Unreadable, Answer, Envelope, Reply
  <2>3. x = q /\ qpc[q] = "reply" /\ said' = Answer(q, qproc[q], qkey[q], qrow[q])
    BY <2>1, <2>2
  <2>4. qrow[q] = disk[qkey[q]] /\ disk[qkey[q]] = before[q]
    BY <2>1, <2>3 DEF LateInv, LateQuery
  <2>5. disk[qkey[q]].status = "done"
    BY <2>1, <2>3, <2>4
  <2>6. Answer(q, qproc[q], qkey[q], disk[qkey[q]]) = Reply(q, qkey[q], "done", disk[qkey[q]].code, FALSE)
    BY <2>1, <2>5, LateAnswer
  <2>7. said' = Reply(q, qkey[q], "done", disk[qkey[q]].code, FALSE)
    BY <2>3, <2>4, <2>6
  <2> QED BY <2>1, <2>3, <2>4, <2>7 DEF Reply
<1> QED BY <1>1, <1>2, <1>3, OtherSteps

LEMMA LateInvStep ==
    ASSUME TypeOK, Addressed, OwnershipInv, OutcomeInv, RowsInv, BornInv, OneByOne, Agreed, LateInv, [Next]_vars
    PROVE  LateInv'
<1>1. \A c \in Call : before'[c].status = "done" => LateCall(c)'
  BY LateCalls
<1>2. \A q \in Query : before'[q].status = "done" => LateQuery(q)'
  BY LateQueries
<1>3. CompletedReceiptAnswers'
  BY LateReplies DEF CompletedReceiptAnswers
<1> QED BY <1>1, <1>2, <1>3 DEF LateInv

(***************************************************************************)
(* A process that has been asked for an operation knows of it.             *)
(***************************************************************************)

\* A process knows of an operation as long as it is up.
LEMMA KnowsStays ==
    ASSUME TypeOK, Addressed, [Next]_vars, NEW p \in Proc, NEW k \in Key, Knows(p, k), life'[p] = "up"
    PROVE  Knows(p, k)'
<1>0. ops \in [Proc -> [Key -> Rows \cup {NoRow}]]
  BY DEF TypeOK
<1>1. ASSUME NEW c \in Call, CallActs(c)
      PROVE  ops'[p][k].status \in {"running", "done"}
  <2>1. ~FindsAt(c, p, k)
    BY DEF Knows, FindsAt, NoRow, Receipt
  <2>2. CASE SealsAt(c, p, k) \/ RecordsAt(c, p, k)
    BY <2>2 DEF SealsAt, RecordsAt, Receipt
  <2> QED BY <1>1, <2>1, <2>2, ActRows DEF Knows
<1>2. ASSUME NEW q \in Proc, Die(q)
      PROVE  ops'[p][k] = ops[p][k]
  <2>1. q # p
    BY <1>2 DEF Die, TypeOK
  <2> QED BY <1>0, <1>2, <2>1 DEF Die
<1>3. ops'[p][k].status \in {"running", "done"}
  BY <1>1, <1>2, OtherSteps DEF Knows
<1> QED BY <1>3 DEF Knows

\* A delivery that has come first stays the first.
LEMMA FreshStays ==
    ASSUME TypeOK, Addressed, [Next]_vars, NEW p \in Proc, NEW k \in Key, Fresh(p, k), life'[p] = "up"
    PROVE  Fresh(p, k)'
<1>1. PICK c \in Call : proc[c] = p /\ key[c] = k /\ pc[c] # "idle" /\ before[c] = Absent
  BY DEF Fresh
<1>2. proc'[c] = p /\ key'[c] = k
  BY <1>1, KeysStay
<1>3. pc'[c] # "idle" /\ before'[c] = Absent
  BY <1>1, BeforeSteps
<1> QED BY <1>2, <1>3 DEF Fresh

LEMMA BegunStep ==
    ASSUME TypeOK, Addressed, OwnershipInv, BornInv, BornInv', Agreed, Begun, [Next]_vars,
           NEW p \in Proc, NEW k \in Key \ Faulty, Fresh(p, k)'
    PROVE  Knows(p, k)' \/ disk'[k] = Absent \/ Sealing(p, k)'
<1>0. pc \in [Call -> CallSteps] /\ life'[p] = "up" /\ k \in Key
  BY DEF TypeOK, Fresh
<1>1. PICK b \in Call : proc'[b] = p /\ key'[b] = k /\ pc'[b] # "idle" /\ before'[b] = Absent
  BY DEF Fresh
<1>2. CASE \E q \in Proc, j \in Key, i \in Input : Dispatch(b, q, j, i)
  <2>1. disk' = disk /\ disk[k] = Absent
    BY <1>1, <1>2 DEF Dispatch, TypeOK
  <2> QED BY <2>1
<1>3. CASE ~\E q \in Proc, j \in Key, i \in Input : Dispatch(b, q, j, i)
  <2>1. pc[b] # "idle" /\ before[b] = Absent
    BY <1>1, <1>3, BeforeSteps
  <2>2. proc[b] = p /\ key[b] = k
    BY <1>1, <2>1, KeysStay
  <2>3. life[p] = "up"
    BY <1>0, <2>1, <2>2, LifeOnce DEF BornInv
  <2>4. Fresh(p, k)
    BY <2>1, <2>2, <2>3 DEF Fresh
  <2>5. CASE Knows(p, k)
    BY <1>0, <2>5, KnowsStays
  <2>6. CASE disk[k] = Absent
    <3>1. ASSUME NEW c \in Call, CreateIntent(c), key[c] = k, pc'[c] = "seal"
          PROVE  Sealing(p, k)'
      <4>1. /\ proc[c] \in Proc /\ life[proc[c]] = "up"
            /\ UNCHANGED <<life, proc, key>>
        BY <3>1 DEF CreateIntent, At, Alive
      <4>2. proc[c] = p
        BY <2>3, <4>1 DEF Agreed
      <4>3. opLock'[p] = c
        BY <3>1, <4>1, <4>2 DEF BornInv
      <4> QED BY <3>1, <4>1, <4>2, <4>3 DEF Sealing
    <3>2. ASSUME NEW c \in Call, CallActs(c), disk'[k] # Absent
          PROVE  Sealing(p, k)'
      <4>1. (~SealIntent(c) /\ ~RecordDone(c)) \/ key[c] # k
        <5>1. pc[c] \in {"seal", "finish"} /\ key[c] = k => disk[k] # Absent
          BY DEF OwnershipInv, Ownership, Owning, IsReceipt, Absent, Corrupt, Receipt
        <5> QED BY <2>6, <5>1 DEF SealIntent, RecordDone, At
      <4> QED BY <1>0, <2>6, <3>1, <3>2, <4>1, ActDisk
    <3> QED BY <2>6, <3>2, OtherSteps
  <2>7. CASE Sealing(p, k)
    <3>1. PICK d \in Call : pc[d] = "seal" /\ key[d] = k /\ proc[d] = p
      BY <2>7, NobodyAssumption DEF Sealing, TypeOK
    <3>2. key'[d] = k /\ proc'[d] = p
      BY <3>1, KeysStay
    <3>3. CASE pc'[d] = "seal"
      <4>1. opLock'[p] = d
        BY <1>0, <3>2, <3>3 DEF BornInv
      <4> QED BY <3>2, <3>3, <4>1 DEF Sealing
    <3>4. CASE pc'[d] # "seal"
      <4>1. SealIntent(d)
        <5>1. ASSUME NEW e \in Call, CallActs(e)
              PROVE  e = d
          BY <1>0, <3>1, <3>4, <5>1, ActSteps DEF Steps
        <5>2. ASSUME NEW e \in Call, NEW q \in Proc, NEW j \in Key, NEW i \in Input, Dispatch(e, q, j, i)
              PROVE  pc'[d] = pc[d]
          BY <1>0, <3>1, <5>2 DEF Dispatch, Goto
        <5>3. CallActs(d)
          BY <3>1, <3>4, <5>1, <5>2, OtherSteps
        <5> QED BY <3>1, <5>3 DEF CallActs, CallStep, ReplyUpdateBusy, FindRow, ReplyStoredRun, CreateIntent,
                   HandleRun, SpawnPane, PollFinished, RecordDone, SendResult, Approve, RejectPending, PaneExit, At
      <4>2. ops' = [ops EXCEPT ![p][k] = Receipt(cmd[d], "running", 0)]
        BY <3>1, <4>1 DEF SealIntent
      <4>3. ops'[p][k] = Receipt(cmd[d], "running", 0)
        BY <4>2, UpdatedAt DEF TypeOK
      <4> QED BY <4>3 DEF Knows, Receipt
    <3> QED BY <3>3, <3>4
  <2> QED BY <2>4, <2>5, <2>6, <2>7 DEF Begun
<1> QED BY <1>2, <1>3

\* What a query knew when it arrived stays, and so does its snapshot.
LEMMA QueryStays ==
    ASSUME TypeOK, [Next]_vars, NEW q \in Query, ~\E p \in Proc, k \in Key : SnapshotAdmission(q, p, k)
    PROVE  /\ qknown'[q] = qknown[q] /\ qadm'[q] = qadm[q] /\ qkey'[q] = qkey[q]
           /\ ~ReadRow(q) /\ ~ReplyQuery(q) => qpc'[q] = qpc[q] /\ qrow'[q] = qrow[q]
<1>1. ASSUME NEW r \in Query, NEW p \in Proc, NEW k \in Key, SnapshotAdmission(r, p, k)
      PROVE  /\ qknown'[q] = qknown[q] /\ qadm'[q] = qadm[q] /\ qkey'[q] = qkey[q]
             /\ qpc'[q] = qpc[q] /\ qrow'[q] = qrow[q]
  <2>1. r # q
    BY <1>1
  <2> QED BY <1>1, <2>1 DEF SnapshotAdmission, TypeOK
<1>2. ASSUME NEW r \in Query, ReadRow(r) \/ ReplyQuery(r)
      PROVE  /\ UNCHANGED <<qknown, qadm, qkey>>
             /\ r # q => qpc'[q] = qpc[q] /\ qrow'[q] = qrow[q]
  BY <1>2 DEF ReadRow, ReplyQuery, TypeOK
<1> QED BY <1>1, <1>2, QueryRows DEF HandleResultQuery

\* A query takes its snapshots.
LEMMA SnapshotSees ==
    ASSUME TypeOK, Addressed, Counted, NEW q \in Query, NEW p \in Proc, NEW k \in Key,
           SnapshotAdmission(q, p, k), qknown'[q]
    PROVE  WillSee(q)'
<1>1. /\ qpc'[q] = "row" /\ qproc'[q] = p /\ qkey'[q] = k /\ qadm'[q] = (admitted[p][k] > 0)
      /\ UNCHANGED <<life, ops, pc, proc, key>> /\ life[p] = "up"
      /\ \A c \in Call : before'[c] = before[c]
  BY ApartAssumption DEF SnapshotAdmission, procVars, callVars, TypeOK
<1>2. CASE \E c \in Call : proc[c] = p /\ key[c] = k /\ held[c] /\ before[c] = Absent
  <2>1. PICK c \in Call : proc[c] = p /\ key[c] = k /\ held[c] /\ before[c] = Absent
    BY <1>2
  <2>2. Fresh(p, k)'
    BY <1>1, <2>1 DEF Fresh, Addressed
  <2>3. c \in Holders(p, k) /\ IsFiniteSet(Holders(p, k)) /\ admitted[p][k] = Cardinality(Holders(p, k))
    BY <1>1, <2>1 DEF Holders, Counted
  <2>4. admitted[p][k] # 0 /\ admitted[p][k] \in Nat
    BY <2>3, FS_EmptySet, FS_CardinalityType
  <2>5. (admitted[p][k] > 0) = TRUE
    BY <2>4
  <2>6. qadm'[q] = TRUE
    BY <1>1, <2>5, Zenon
  <2> QED BY <1>1, <2>2, <2>6 DEF WillSee
<1>3. CASE ops[p][k] # NoRow /\ ops[p][k].status # "unknown"
  <2>1. ops[p][k].status \in {"running", "done"}
    BY <1>3 DEF TypeOK, Rows
  <2>2. Knows(p, k)'
    BY <1>1, <2>1 DEF Knows
  <2> QED BY <1>1, <2>2 DEF WillSee
<1>4. qknown'[q] = (\/ \E c \in Call : /\ proc[c] = p /\ key[c] = k /\ held[c]
                                       /\ before[c] = Absent
                    \/ ops[p][k] # NoRow /\ ops[p][k].status # "unknown")
  BY DEF SnapshotAdmission, TypeOK
<1> QED BY <1>2, <1>3, <1>4

\* ... and finds a row.
LEMMA ReadRowSees ==
    ASSUME TypeOK, Addressed, BornInv, Begun, NEW q \in Query, ReadRow(q), qkey[q] \notin Faulty, WillSee(q)
    PROVE  WillSee(q)'
<1> DEFINE p == qproc[q]
           k == qkey[q]
           row == IF ops[p][k] # NoRow THEN ops[p][k] ELSE ReadBack(disk[k])
           seen == IF row = NoRow THEN StandIn(q) ELSE row
<1>1. /\ p \in Proc /\ k \in Key \ Faulty /\ qpc[q] = "row" /\ LockFree(p)
      /\ qpc'[q] = "unreadable" \/ (qpc'[q] = "reply" /\ qrow'[q] = seen)
  BY DEF ReadRow, Addressed, TypeOK
<1>2. seen.status \in {"running", "done"}
  <2>1. CASE Knows(p, k)
    BY <2>1 DEF Knows, NoRow, Receipt
  <2>2. CASE qadm[q] /\ disk[k] = Absent
    <3>1. row = NoRow
      BY <1>1, <2>2 DEF BornInv, ReadBack, IsReceipt, Absent, Receipt
    <3> QED BY <2>2, <3>1 DEF StandIn, Receipt
  <2>3. ~Sealing(p, k)
    BY <1>1, NobodyAssumption DEF Sealing, LockFree
  <2> QED BY <1>1, <2>1, <2>2, <2>3 DEF WillSee, Begun
<1> HIDE DEF seen
<1> QED BY <1>1, <1>2 DEF WillSee

LEMMA SeesStep ==
    ASSUME TypeOK, Addressed, BornInv, Counted, Begun, SeenInv, [Next]_vars,
           NEW q \in Query, qpc'[q] # "idle", qknown'[q], life'[qproc'[q]] = "up", qkey'[q] \notin Faulty
    PROVE  WillSee(q)'
<1>1. ASSUME NEW p \in Proc, NEW k \in Key, SnapshotAdmission(q, p, k)
      PROVE  WillSee(q)'
  BY <1>1, SnapshotSees
<1>2. CASE ~\E p \in Proc, k \in Key : SnapshotAdmission(q, p, k)
  <2>1. qpc[q] # "idle" /\ qproc'[q] = qproc[q] /\ qkey'[q] = qkey[q] /\ qproc[q] \in Proc /\ qkey[q] \in Key
    BY <1>2, BeforeSteps, KeysStay DEF Addressed
  <2>2. life[qproc[q]] = "up"
    BY <2>1, LifeOnce DEF BornInv
  <2>3. qknown'[q] = qknown[q] /\ qadm'[q] = qadm[q]
    BY <1>2, QueryStays
  <2>4. WillSee(q)
    BY <2>1, <2>2, <2>3 DEF SeenInv
  <2>5. CASE ReadRow(q)
    BY <2>1, <2>4, <2>5, ReadRowSees
  <2>6. CASE ReplyQuery(q)
    BY <2>6 DEF ReplyQuery, WillSee, TypeOK
  <2>7. CASE ~ReadRow(q) /\ ~ReplyQuery(q)
    <3>1. qpc'[q] = qpc[q] /\ qrow'[q] = qrow[q]
      BY <1>2, <2>7, QueryStays
    <3>2. Knows(qproc[q], qkey[q]) => Knows(qproc[q], qkey[q])'
      BY <2>1, KnowsStays
    <3>3. Fresh(qproc[q], qkey[q]) => Fresh(qproc[q], qkey[q])'
      BY <2>1, FreshStays
    <3> QED BY <2>1, <2>3, <2>4, <3>1, <3>2, <3>3 DEF WillSee, Knows, Fresh
  <2> QED BY <2>5, <2>6, <2>7
<1> QED BY <1>1, <1>2

\* A query that will see a row is not told that its outcome is unknown.
LEMMA SeenReplies ==
    ASSUME TypeOK, Addressed, BornInv, SeenInv, [Next]_vars,
           NEW q \in Query, said'.by = q, said'.kind = "unknown", ~said'.fault, qkey'[q] \notin Faulty
    PROVE  ~qknown'[q]
<1>1. CASE said' = said
  <2>1. qpc[q] = "done"
    BY <1>1 DEF BornInv
  <2>2. qkey'[q] = qkey[q] /\ qknown'[q] = qknown[q]
    BY <2>1, QueryStays DEF SnapshotAdmission
  <2> QED BY <1>1, <2>2 DEF SeenInv, NoFalseUnknown
<1>2. ASSUME NEW c \in Call, CallActs(c), said' # said
      PROVE  FALSE
  <2>1. ASSUME NEW row PROVE StoredReply(c, proc[c], row).by = c
    BY DEF StoredReply, Answer, Envelope, Reply
  <2>2. said'.by = c
    BY <1>2, <2>1, ActSaid DEF Reply
  <2> QED BY <2>2, ApartAssumption
<1>3. ASSUME NEW r \in Query, ReplyQuery(r)
      PROVE  ~qknown'[q]
  <2>1. /\ qpc[r] \in {"reply", "unreadable"} /\ life[qproc[r]] = "up" /\ UNCHANGED <<qkey, qknown>>
        /\ said' = IF qpc[r] = "unreadable" THEN Unreadable(r, qkey[r]) ELSE Answer(r, qproc[r], qkey[r], qrow[r])
    BY <1>3 DEF ReplyQuery, Alive
  <2>2. Unreadable(r, qkey[r]).fault /\ Answer(r, qproc[r], qkey[r], qrow[r]).by = r /\ Unreadable(r, qkey[r]).by = r
    BY DEF Unreadable, Answer, Envelope, Reply
  <2>3. r = q /\ qpc[q] = "reply" /\ said' = Answer(q, qproc[q], qkey[q], qrow[q])
    BY <2>1, <2>2
  <2>4. SUFFICES ASSUME qknown[q] PROVE FALSE
    BY <2>1
  <2>5. qrow[q].status \in {"running", "done"}
    BY <2>1, <2>3, <2>4 DEF SeenInv, WillSee
  <2>6. Answer(q, qproc[q], qkey[q], qrow[q]).kind # "unknown"
    BY <2>5 DEF Answer, Envelope, Reply, NoRow, Receipt
  <2> QED BY <2>3, <2>6
<1> QED BY <1>1, <1>2, <1>3, OtherSteps

LEMMA BegunHolds ==
    ASSUME TypeOK, Addressed, OwnershipInv, BornInv, BornInv', Agreed, Begun, [Next]_vars
    PROVE  Begun'
<1>1. \A p \in Proc, k \in Key \ Faulty : Fresh(p, k)' => Knows(p, k)' \/ disk'[k] = Absent \/ Sealing(p, k)'
  BY BegunStep
<1> QED BY <1>1 DEF Begun, Fresh, Knows, Sealing

LEMMA SeenInvStep ==
    ASSUME TypeOK, Addressed, BornInv, Counted, Begun, SeenInv, [Next]_vars
    PROVE  SeenInv'
<1>1. \A q \in Query : qpc'[q] # "idle" /\ qknown'[q] /\ life'[qproc'[q]] = "up" /\ qkey'[q] \notin Faulty => WillSee(q)'
  BY SeesStep
<1>2. NoFalseUnknown'
  BY SeenReplies DEF NoFalseUnknown
<1> QED BY <1>1, <1>2 DEF SeenInv

(***************************************************************************)
(* All of it.                                                              *)
(***************************************************************************)

LEMMA InitAnswers == Init => AnswerInv
<1>1. SUFFICES ASSUME Init PROVE AnswerInv
  OBVIOUS
<1>2. \A c \in Call : pc[c] = "idle" /\ outcome[c].settled = FALSE /\ before[c] = Absent /\ copy[c] = NoRow /\ held[c] = FALSE
  BY <1>1 DEF Init, Unsettled
<1>3. \A q \in Query : qpc[q] = "idle" /\ before[q] = Absent /\ qrow[q] = NoRow
  BY <1>1 DEF Init
<1>4. \A p \in Proc : /\ life[p] = "unborn"
                      /\ \A k \in Key : ops[p][k] = NoRow /\ pane[p][k] = NoPane /\ admitted[p][k] = 0
  BY <1>1 DEF Init
<1>5. (\A k \in Key : disk[k] = Absent) /\ said = Silence
  BY <1>1 DEF Init
<1>6. Absent.status # "done" /\ NoRow.status # "done" /\ NoPane.state # "exited"
  BY DEF Absent, NoRow, NoPane, Receipt
<1>7. Silence.by \notin Call \cup Query /\ Silence.kind # "done"
  BY NobodyAssumption DEF Silence, Reply
<1>8. OutcomeInv
  BY <1>2 DEF OutcomeInv, Ended
<1>9. RowsInv
  BY <1>2, <1>3, <1>4, <1>5, <1>6, <1>7 DEF RowsInv
<1>10. BornInv
  BY <1>2, <1>3, <1>4, <1>5, <1>7 DEF BornInv
<1>11. Counted
  <2>1. \A p \in Proc, k \in Key : Holders(p, k) = {}
    BY <1>2 DEF Holders
  <2> QED BY <1>4, <2>1, FS_EmptySet DEF Counted
<1>12. Agreed /\ LateInv /\ Begun /\ SeenInv
  <2>1. Agreed
    BY <1>4, <1>5, <1>6 DEF Agreed
  <2>2. LateInv
    BY <1>2, <1>3, <1>5, <1>6, <1>7 DEF LateInv, CompletedReceiptAnswers
  <2>3. Begun
    BY <1>5 DEF Begun
  <2>4. SeenInv
    BY <1>3, <1>5, <1>7 DEF SeenInv, NoFalseUnknown
  <2> QED BY <2>1, <2>2, <2>3, <2>4
<1> QED BY <1>8, <1>9, <1>10, <1>11, <1>12 DEF AnswerInv

LEMMA AnswerStep == TypeOK /\ Addressed /\ OwnershipInv /\ AnswerInv /\ [Next]_vars => AnswerInv'
<1>1. SUFFICES ASSUME TypeOK, Addressed, OwnershipInv, AnswerInv, [Next]_vars PROVE AnswerInv'
  OBVIOUS
<1>2. OutcomeInv /\ RowsInv /\ BornInv /\ Counted
  BY <1>1 DEF AnswerInv
<1>3. OutcomeInv'
  BY <1>1, <1>2, OutcomeStep
<1>4. RowsInv'
  BY <1>1, <1>2, RowsInvStep
<1>5. BornInv'
  BY <1>1, <1>2, BornInvStep
<1>6. Counted'
  BY <1>1, <1>2, CountedStep
<1>7. ASSUME OneByOne' PROVE (Agreed /\ LateInv /\ Begun /\ SeenInv)'
  <2>1. OneByOne /\ Agreed /\ LateInv /\ Begun /\ SeenInv
    BY <1>1, <1>7, OnceOneByOne DEF AnswerInv
  <2>2. Agreed'
    BY <1>1, <1>2, <2>1, AgreedStep
  <2>3. LateInv'
    BY <1>1, <1>2, <2>1, LateInvStep
  <2>4. Begun'
    BY <1>1, <1>2, <1>5, <2>1, BegunHolds
  <2>5. SeenInv'
    BY <1>1, <1>2, <2>1, SeenInvStep
  <2> QED BY <2>2, <2>3, <2>4, <2>5
<1> QED BY <1>3, <1>4, <1>5, <1>6, <1>7 DEF AnswerInv

\* What the proofs rest on holds in every reachable state: outcomes are settled
\* once, by the owner of the operation, and rows, receipts, panes and replies
\* repeat them (operationEnv, replyStoredRun, handleResultQuery).
THEOREM AnswersHold == Spec => []AnswerInv
BY InitAnswers, AnswerStep, TypeCorrect, OwnershipHolds, PTL DEF Spec

\* A reply that says done has the outcome of the one delivery that owned the
\* operation, whichever way it went, whatever overlapped, crashed or failed.
LEMMA DoneIsTrue ==
    ASSUME OutcomeInv, RowsInv
    PROVE  DoneIsTheOutcome
<1>1. SUFFICES ASSUME said.kind = "done"
               PROVE  \E c \in Call : /\ key[c] = said.key /\ outcome[c] = Settled(said.code)
                                      /\ \A d \in Call \ {c} : key[d] = said.key => ~outcome[d].settled
  BY DEF DoneIsTheOutcome
<1>2. PICK c \in Call : key[c] = said.key /\ outcome[c] = Settled(said.code)
  BY <1>1 DEF RowsInv, Came
<1>3. outcome[c].settled
  BY <1>2 DEF Settled
<1>4. \A d \in Call \ {c} : key[d] = said.key => ~outcome[d].settled
  BY <1>2, <1>3 DEF OutcomeInv
<1> QED BY <1>2, <1>4

\* What a query or a retry is told is what happened: "a completed receipt can
\* report its exit code", and "a following query must see pending admission, not
\* a missing receipt", as long as no process has started before its predecessor
\* ended; that a done reply has the outcome needs no such condition.
THEOREM AnswersAreTrueHolds == Spec => []AnswersAreTrue
<1>1. AnswerInv => AnswersAreTrue
  <2>1. SUFFICES ASSUME AnswerInv PROVE AnswersAreTrue
    OBVIOUS
  <2>2. DoneIsTheOutcome
    BY <2>1, DoneIsTrue DEF AnswerInv
  <2> QED BY <2>1, <2>2 DEF AnswersAreTrue, AnswerInv, LateInv, SeenInv
<1> QED BY <1>1, AnswersHold, PTL

(***************************************************************************)
(* One process after the other: "not started" is true.                     *)
(***************************************************************************)

\* Between its look for a row and its intent a delivery has the lock, and the
\* receipt is not there.
Vacant == \A c \in Call : pc[c] = "create" /\ life[proc[c]] = "up" => disk[key[c]] = Absent

VacantInv == OneByOne => Vacant

\* A delivery comes to write an intent when it has found nothing.
LEMMA VacantFound ==
    ASSUME TypeOK, [Next]_vars, NEW c \in Call, pc'[c] = "create", pc[c] # "create"
    PROVE  UNCHANGED <<disk, key>> /\ (key[c] \in Key => disk[key[c]] = Absent)
<1>0. pc \in [Call -> CallSteps] /\ disk \in [Key -> Receipts \cup {Absent, Corrupt}]
  BY DEF TypeOK
<1>1. PICK d \in Call : CallActs(d)
  <2>1. ASSUME NEW d \in Call, NEW p \in Proc, NEW k \in Key, NEW i \in Input, Dispatch(d, p, k, i)
        PROVE  pc'[c] = pc[c] \/ pc'[c] \in {"busy", "lookup"}
    BY <1>0, <2>1 DEF Dispatch, Goto
  <2> QED BY <2>1, OtherSteps
<1>2. d = c
  BY <1>0, <1>1, ActSteps DEF Steps
<1>3. pc[c] = "lookup"
  BY <1>0, <1>1, <1>2, ActSteps DEF Steps, Leads
<1>4. FindRow(c)
  BY <1>1, <1>2, <1>3 DEF CallActs, CallStep, ReplyUpdateBusy, ReplyStoredRun, CreateIntent, SealIntent, HandleRun,
     SpawnPane, PollFinished, RecordDone, SendResult, Approve, RejectPending, PaneExit, At
<1>5. UNCHANGED <<disk, key>> /\ disk[key[c]] # Corrupt /\ ReadBack(disk[key[c]]) = NoRow
  BY <1>0, <1>4 DEF FindRow, Goto, ReadMaySucceed
<1>6. key[c] \in Key => disk[key[c]] = Absent
  BY <1>0, <1>5 DEF ReadBack, IsReceipt, NoRow, Receipt, Receipts
<1> QED BY <1>5, <1>6

LEMMA VacantStep ==
    ASSUME TypeOK, Addressed, OwnershipInv, BornInv, OneByOne, Agreed, Vacant, [Next]_vars
    PROVE  Vacant'
<1> SUFFICES ASSUME NEW c \in Call, pc'[c] = "create", life'[proc'[c]] = "up"
             PROVE  disk'[key'[c]] = Absent
  BY DEF Vacant
<1>1. CASE pc[c] # "create"
  <2>1. key'[c] \in Key
    BY AddressedStep DEF Addressed
  <2> QED BY <1>1, <2>1, VacantFound
<1>2. CASE pc[c] = "create"
  <2>1. key'[c] = key[c] /\ proc'[c] = proc[c] /\ proc[c] \in Proc /\ key[c] \in Key
    BY <1>2, KeysStay DEF Addressed
  <2>2. life[proc[c]] = "up"
    BY <1>2, <2>1, LifeOnce DEF BornInv
  <2>3. disk[key[c]] = Absent
    BY <1>2, <2>2 DEF Vacant
  <2>4. ASSUME NEW d \in Call, CallActs(d) PROVE disk'[key[c]] = disk[key[c]]
    <3>1. proc[d] \in Proc /\ life[proc[d]] = "up"
      BY <2>4, ActSteps DEF Steps
    <3>2. proc[d] = proc[c]
      BY <2>1, <2>2, <3>1 DEF Agreed
    <3>3. ~(CreateIntent(d) /\ pc'[d] = "seal")
      <4>1. SUFFICES ASSUME CreateIntent(d), pc'[d] = "seal" PROVE FALSE
        OBVIOUS
      <4>2. pc[d] = "create" /\ d # c
        BY <4>1 DEF CreateIntent, At
      <4> QED BY <1>2, <2>2, <3>1, <3>2, <4>2 DEF BornInv
    <3>4. ~(SealIntent(d) /\ key[d] = key[c])
      <4>1. SUFFICES ASSUME SealIntent(d), key[d] = key[c] PROVE FALSE
        OBVIOUS
      <4>2. pc[d] = "seal"
        BY <4>1 DEF SealIntent, At
      <4>3. disk[key[d]] = Corrupt
        BY <4>2 DEF OwnershipInv, Ownership, Owning
      <4> QED BY <2>3, <4>1, <4>3 DEF Corrupt, Absent, Receipt
    <3>5. ~(RecordDone(d) /\ key[d] = key[c])
      <4>1. SUFFICES ASSUME RecordDone(d), key[d] = key[c] PROVE FALSE
        OBVIOUS
      <4>2. pc[d] = "finish"
        BY <4>1 DEF RecordDone, At
      <4>3. disk[key[d]].status = "running"
        BY <4>2 DEF OwnershipInv, Ownership, Owning
      <4> QED BY <2>3, <4>1, <4>3 DEF Absent, Receipt
    <3> QED BY <2>1, <2>4, <3>3, <3>4, <3>5, ActDisk
  <2> QED BY <2>1, <2>3, <2>4, OtherSteps
<1> QED BY <1>1, <1>2

\* A reply that says that nothing was started is sent where no receipt is, or
\* none that was ever complete.
LEMMA NotStartedSaid ==
    ASSUME TypeOK, Addressed, OwnershipInv, VacantInv, [Next]_vars,
           OneByOne, said' # said, said'.kind = "notStarted"
    PROVE  starts[said'.key] = 0
<1>0. disk \in [Key -> Receipts \cup {Absent, Corrupt}] /\ starts \in [Key -> Nat]
  BY DEF TypeOK
<1>1. \A k \in Key : disk[k] = Absent => starts[k] = 0
  BY <1>0 DEF OwnershipInv, Accounted, IsReceipt, Absent, Receipt
<1>2. ASSUME NEW c \in Call, CallActs(c) PROVE starts[said'.key] = 0
  <2>0. key[c] \in Key /\ proc[c] \in Proc /\ life[proc[c]] = "up"
    BY <1>2, ActSteps DEF Steps, Leads, Addressed
  <2>1. CASE ReplyUpdateBusy(c)
    <3>1. said' = NotStarted(c, key[c]) /\ disk[key[c]] # Corrupt /\ ReadBack(disk[key[c]]) = NoRow
      BY <2>1 DEF ReplyUpdateBusy, Unreadable, BusyReply, StoredReply, Answer, Envelope, Reply, NotStarted, ReadMaySucceed
    <3>2. disk[key[c]] = Absent
      BY <1>0, <2>0, <3>1 DEF ReadBack, IsReceipt, NoRow, Receipt, Receipts
    <3> QED BY <1>1, <2>0, <3>1, <3>2 DEF NotStarted, Reply
  <2>2. CASE CreateIntent(c)
    <3>1. said' = NotStarted(c, key[c]) /\ pc[c] = "create"
      BY <2>2 DEF CreateIntent, At
    <3>2. disk[key[c]] = Absent
      BY <2>0, <3>1 DEF VacantInv, Vacant
    <3> QED BY <1>1, <2>0, <3>1, <3>2 DEF NotStarted, Reply
  <2>3. CASE SealIntent(c)
    <3>1. said' = NotStarted(c, key[c]) /\ pc[c] = "seal"
      BY <2>3 DEF SealIntent, At
    <3> QED BY <3>1 DEF NotStarted, Reply, OwnershipInv, Ownership, Owning
  <2>4. CASE FindRow(c)
    BY <2>4 DEF FindRow, Unreadable, Reply
  <2>5. CASE ReplyStoredRun(c)
    BY <2>5 DEF ReplyStoredRun, StoredReply, Answer, Envelope, Reply
  <2>6. CASE SpawnPane(c) \/ SendResult(c)
    BY <2>6 DEF SpawnPane, SendResult, Reply
  <2>7. CASE ~\/ ReplyUpdateBusy(c) \/ CreateIntent(c) \/ SealIntent(c) \/ FindRow(c) \/ ReplyStoredRun(c)
              \/ SpawnPane(c) \/ SendResult(c)
    BY <1>2, <2>7 DEF CallActs, CallStep, HandleRun, PollFinished, RecordDone, Approve, RejectPending, PaneExit
  <2> QED BY <2>1, <2>2, <2>3, <2>4, <2>5, <2>6, <2>7
<1>3. CASE ~\E c \in Call : CallActs(c)
  <2>1. PICK q \in Query : ReplyQuery(q)
    BY <1>3, OtherSteps
  <2> QED BY <2>1 DEF ReplyQuery, Unreadable, Answer, Envelope, Reply
<1> QED BY <1>2, <1>3

\* A completed receipt is never replaced, and whoever is told that a command was
\* not started is told the truth (writeOperation, replyUpdateBusy), as long as
\* no process has started before its predecessor ended: the loser of the race
\* for an intent (O_EXCL) says the same of a command that the winner started.
THEOREM ReceiptsAreTrueHolds == Spec => ReceiptsAreTrue
<1>1. Init => VacantInv
  BY DEF Init, VacantInv, Vacant
<1>2. TypeOK /\ Addressed /\ OwnershipInv /\ AnswerInv /\ VacantInv /\ [Next]_vars => VacantInv'
  <2> SUFFICES ASSUME TypeOK, Addressed, OwnershipInv, AnswerInv, VacantInv, [Next]_vars, OneByOne' PROVE Vacant'
    BY DEF VacantInv
  <2>1. OneByOne /\ BornInv /\ Agreed /\ Vacant
    BY OnceOneByOne DEF AnswerInv, VacantInv
  <2> QED BY <2>1, VacantStep
<1>3. TypeOK /\ Addressed /\ OwnershipInv /\ VacantInv /\ [Next]_vars
      => [OneByOne /\ said' # said /\ said'.kind = "notStarted" => starts[said'.key] = 0]_vars
  BY NotStartedSaid
<1>4. Spec => []VacantInv
  BY <1>1, <1>2, TypeCorrect, OwnershipHolds, AnswersHold, PTL DEF Spec
<1>5. Spec => NotStartedIsTrue
  BY <1>3, <1>4, TypeCorrect, OwnershipHolds, PTL DEF Spec, NotStartedIsTrue
<1> QED BY <1>5, ReceiptIsFinalHolds DEF ReceiptsAreTrue

(***************************************************************************)
(* PeerDelivery: what is owed to a plugin that was aborted, and what the   *)
(* hub hears of a cancellation.                                            *)
(***************************************************************************)
HubTypeOK ==
  /\ record \in {"none", "open", "cancelled", "failed", "expired"}
  /\ outbox \in SUBSET D!Item /\ mid \in SUBSET D!Item /\ acked \in SUBSET D!Item

AgentTypeOK ==
  /\ down \in Seq(D!Item) /\ applied \in SUBSET D!Item
  /\ sess \in {"none", "waiting", "open", "closing"} /\ plug \in {"none", "opening", "up"}
  /\ recovery \in {"none", "idle", "running"}
  /\ graceful \in BOOLEAN /\ later \in BOOLEAN /\ busy \in BOOLEAN /\ over \in BOOLEAN
  /\ must \in BOOLEAN /\ paid \in BOOLEAN /\ receipt \in BOOLEAN /\ permit \in BOOLEAN
  /\ checkpoint \in BOOLEAN /\ stale \in BOOLEAN

PeerTypeOK == HubTypeOK /\ AgentTypeOK

\* The session has ended otherwise than by a cancellation.
Lapsed == record \in {"failed", "expired"}

\* Only then is the agent told so, and only then does it say that it was.
InDown(i) == \E j \in 1 .. Len(down) : down[j] = i
OnWire(i) == i \in outbox \cup mid \/ InDown(i)
ToldOfEnd ==
  /\ OnWire("failed") => Lapsed
  /\ OnWire("expired") => Lapsed
  /\ over => Lapsed

\* A plugin runs in a session, a recovery only without one, and nothing is
\* paid before the plugin is stopped.
PluginInSession ==
  /\ plug = "up" => sess = "open"
  /\ plug = "opening" => sess \in {"open", "closing"}
  /\ sess # "none" => recovery = "none"
  /\ D!Live \/ plug # "none" => ~paid
  /\ busy => sess = "closing" /\ graceful

\* A receipt is there when the plugin has nothing left, until a session of the
\* same id begins; what was handled as cancelled has one.
ReceiptMeansClean ==
  /\ receipt /\ ~stale => sess = "none" /\ (checkpoint => Lapsed)
  /\ "cancelled" \in applied => receipt /\ (sess # "none" => stale)

PeerInv == PeerTypeOK /\ ToldOfEnd /\ PluginInSession /\ ReceiptMeansClean /\ D!DebtIsOwed

\* Nothing is told of the end that was not on the way, or is true by now.
LEMMA ToldOfNothingNew ==
  ASSUME ToldOfEnd, Lapsed => Lapsed',
         over' => over \/ Lapsed',
         OnWire("failed")' => OnWire("failed") \/ Lapsed',
         OnWire("expired")' => OnWire("expired") \/ Lapsed'
  PROVE  ToldOfEnd'
  BY DEF ToldOfEnd

LEMMA InDownSame ==
  ASSUME UNCHANGED down, NEW i PROVE InDown(i)' <=> InDown(i)
  BY DEF InDown

LEMMA InDownNone ==
  ASSUME down' = <<>>, NEW i PROVE ~InDown(i)'
  BY DEF InDown

LEMMA InDownHead ==
  ASSUME PeerTypeOK, down # <<>>, down' = Tail(down), NEW i
  PROVE  /\ InDown(i)' => InDown(i)
         /\ Head(down) = i => InDown(i)
<1>1. Len(down) \in Nat /\ Len(down) >= 1 /\ down \in Seq(D!Item)
  BY DEF PeerTypeOK, HubTypeOK, AgentTypeOK
<1>2. Head(down) = i => InDown(i)
  BY <1>1 DEF InDown
<1>3. ASSUME NEW j \in 1 .. Len(down'), down'[j] = i PROVE InDown(i)
  <2>1. j + 1 \in 1 .. Len(down) /\ down[j + 1] = i
    BY <1>1, <1>3
  <2> QED BY <2>1 DEF InDown
<1> QED BY <1>2, <1>3 DEF InDown

LEMMA InDownAppend ==
  ASSUME PeerTypeOK, NEW x \in D!Item, down' = Append(down, x), NEW i
  PROVE  /\ InDown(i)' => InDown(i) \/ i = x
         /\ down' \in Seq(D!Item)
<1>1. Len(down) \in Nat /\ down \in Seq(D!Item)
  BY DEF PeerTypeOK, HubTypeOK, AgentTypeOK
<1>2. ASSUME NEW j \in 1 .. Len(down'), down'[j] = i PROVE InDown(i) \/ i = x
  BY <1>1, <1>2 DEF InDown
<1> QED BY <1>1, <1>2 DEF InDown

LEMMA PeerInvInit == D!Init => PeerInv
<1> SUFFICES ASSUME D!Init PROVE PeerInv
  OBVIOUS
<1> USE DEF D!Init
<1>1. PeerTypeOK
  <2>1. down \in Seq(D!Item)
    <3>1. <<>> \in Seq(D!Item)
      OBVIOUS
    <3> QED BY <3>1
  <2>2. HubTypeOK
    BY DEF HubTypeOK
  <2> QED BY <2>1, <2>2 DEF AgentTypeOK, PeerTypeOK
<1>2. ToldOfEnd
  BY DEF ToldOfEnd, OnWire, InDown
<1>3. PluginInSession /\ ReceiptMeansClean /\ D!DebtIsOwed
  BY DEF PluginInSession, ReceiptMeansClean, D!DebtIsOwed, D!Live
<1> QED BY <1>1, <1>2, <1>3 DEF PeerInv

(***************************************************************************)
(* The hub, and what it sends.                                             *)
(***************************************************************************)
LEMMA PeerHub ==
  ASSUME PeerInv, D!Create \/ D!Cancel \/ D!Age \/ D!Expire
  PROVE  PeerInv'
<1> USE DEF D!Create, D!Cancel, D!Age, D!Expire, D!agent, D!owner, D!debt, D!wire, D!count
<1>0. PeerTypeOK
  BY DEF PeerInv
<1>1. PeerTypeOK'
  <2>1. CASE D!Create
    BY <1>0, <2>1 DEF PeerTypeOK, HubTypeOK, AgentTypeOK, D!Item
  <2>2. CASE D!Cancel
    BY <1>0, <2>2 DEF PeerTypeOK, HubTypeOK, AgentTypeOK, D!Item
  <2>3. CASE D!Age
    BY <1>0, <2>3 DEF PeerTypeOK, HubTypeOK, AgentTypeOK
  <2>4. CASE D!Expire
    BY <1>0, <2>4 DEF PeerTypeOK, HubTypeOK, AgentTypeOK, D!Item
  <2> QED BY <2>1, <2>2, <2>3, <2>4
<1>2. Lapsed => Lapsed'
  BY DEF Lapsed
<1>3. ToldOfEnd'
  BY <1>2, InDownSame, ToldOfNothingNew DEF PeerInv, ToldOfEnd, OnWire, Lapsed
<1>4. PluginInSession' /\ ReceiptMeansClean'
  BY <1>2 DEF PeerInv, PluginInSession, ReceiptMeansClean, D!Live
<1>5. D!DebtIsOwed'
  BY DEF PeerInv, D!DebtIsOwed
<1> QED BY <1>1, <1>3, <1>4, <1>5 DEF PeerInv

LEMMA PeerCarries ==
  ASSUME PeerInv, NEW i \in D!Item, D!Delay(i) \/ D!Push(i) \/ D!PushFails(i)
  PROVE  PeerInv'
<1> USE DEF D!Delay, D!Push, D!PushFails, D!agent, D!owner, D!debt, D!wire, D!count
<1>1. PeerTypeOK'
  BY InDownAppend DEF PeerInv, PeerTypeOK, HubTypeOK, AgentTypeOK
<1>2. UNCHANGED record
  OBVIOUS
<1>3. \A x : OnWire(x)' => OnWire(x)
  BY InDownSame, InDownAppend DEF PeerInv, OnWire
<1>4. ToldOfEnd'
  BY <1>2, <1>3, ToldOfNothingNew DEF PeerInv, Lapsed
<1>5. PluginInSession' /\ ReceiptMeansClean' /\ D!DebtIsOwed'
  BY <1>2 DEF PeerInv, PluginInSession, ReceiptMeansClean, D!Live, D!DebtIsOwed, Lapsed
<1> QED BY <1>1, <1>4, <1>5 DEF PeerInv

(***************************************************************************)
(* The agent.  What it says changes the session's record only to a failure. *)
(***************************************************************************)
LEMMA Said ==
  ASSUME PeerTypeOK, NEW i \in D!Item, D!Say(i) \/ D!SayFail \/ D!Silent, UNCHANGED mid
  PROVE  /\ record' \in {"none", "open", "cancelled", "failed", "expired"}
         /\ outbox' \in SUBSET D!Item /\ acked' \in SUBSET D!Item
         /\ Lapsed => Lapsed'
         /\ UNCHANGED record \/ Lapsed'
         /\ \A x : x \in outbox' \cup mid' => x \in outbox \cup mid \/ Lapsed'
  BY DEF PeerTypeOK, HubTypeOK, AgentTypeOK, D!Say, D!SayFail, D!Silent, D!Acked, D!Failed, D!Item, Lapsed

\* A step of the agent: its own variables are related by Settles below.
AgentSays == UNCHANGED mid /\ (D!SayFail \/ D!Silent \/ \E i \in D!Item : D!Say(i))

LEMMA AgentTold ==
  ASSUME PeerInv, AgentSays, over' => over \/ Lapsed', \A x : InDown(x)' => InDown(x)
  PROVE  ToldOfEnd' /\ (Lapsed => Lapsed') /\ (UNCHANGED record \/ Lapsed') /\ HubTypeOK'
<1>1. PICK i \in D!Item : UNCHANGED mid /\ (D!Say(i) \/ D!SayFail \/ D!Silent)
  BY DEF AgentSays, D!Item
<1>2. PeerTypeOK
  BY DEF PeerInv
<1>3. /\ record' \in {"none", "open", "cancelled", "failed", "expired"}
      /\ outbox' \in SUBSET D!Item /\ acked' \in SUBSET D!Item
      /\ Lapsed => Lapsed'
      /\ UNCHANGED record \/ Lapsed'
      /\ \A x : x \in outbox' \cup mid' => x \in outbox \cup mid \/ Lapsed'
  BY <1>1, <1>2, Said
<1>4. ToldOfEnd'
  BY <1>3, ToldOfNothingNew DEF PeerInv, OnWire
<1> QED BY <1>1, <1>2, <1>3, <1>4 DEF PeerTypeOK, HubTypeOK, AgentTypeOK

\* closeClaimed: what the plugin leaves behind is owed from now on.
LEMMA Closes ==
  ASSUME PeerInv, NEW g \in BOOLEAN, D!Live, D!Close(g)
  PROVE  /\ sess' = "closing" /\ graceful' = g /\ later' = FALSE
         /\ plug' \in {"none", "opening"} /\ (plug' = "opening" => ~paid')
         /\ must' \in BOOLEAN /\ paid' \in BOOLEAN /\ checkpoint' \in BOOLEAN
         /\ checkpoint' /\ ~Lapsed => must' /\ ~paid'
         /\ receipt => stale
<1>1. AgentTypeOK /\ PluginInSession /\ D!DebtIsOwed /\ ReceiptMeansClean /\ (over => Lapsed)
  BY DEF PeerInv, PeerTypeOK, ToldOfEnd
<1>2. sess' = "closing" /\ graceful' = g /\ later' = FALSE /\ (receipt => stale)
  BY <1>1 DEF D!Close, ReceiptMeansClean, D!Live
<1>3. CASE plug # "up"
  BY <1>1, <1>2, <1>3 DEF D!Close, D!StopPlugin, AgentTypeOK, PluginInSession, D!DebtIsOwed, Lapsed, D!Live
<1>4. CASE plug = "up"
  <2>1. ~paid
    BY <1>1, <1>4 DEF PluginInSession
  <2> QED BY <2>1, <1>1, <1>2, <1>4
          DEF D!Close, D!StopPlugin, AgentTypeOK, PluginInSession, D!DebtIsOwed, Lapsed
<1> QED BY <1>3, <1>4

\* Who owes what the plugin has left behind, if anybody does.
Owed == plug = "up" \/ (must /\ ~paid /\ (sess # "none" \/ recovery # "none"))

\* What is left to show of a step of the agent that has closed, or goes on.
LEMMA AgentStep ==
  ASSUME PeerInv, AgentSays, over' => over \/ Lapsed', \A x : InDown(x)' => InDown(x),
         AgentTypeOK', PluginInSession', ReceiptMeansClean',
         checkpoint' => Owed' \/ Lapsed'
  PROVE  PeerInv'
<1>1. ToldOfEnd' /\ HubTypeOK'
  BY AgentTold
<1>2. D!DebtIsOwed'
  BY DEF D!DebtIsOwed, Lapsed, Owed
<1> QED BY <1>1, <1>2 DEF PeerInv, PeerTypeOK

\* A step of the agent that leaves the session and its plugin alone.
Kept == UNCHANGED <<sess, plug, graceful, later, over, must, paid, receipt, checkpoint, stale>>

LEMMA PeerKeeps ==
  ASSUME PeerInv, AgentSays, \A x : InDown(x)' => InDown(x), Kept,
         down' \in Seq(D!Item), applied' \in SUBSET D!Item, permit' \in BOOLEAN,
         recovery' \in {"none", "idle", "running"}, busy' \in BOOLEAN,
         recovery # "none" => recovery' # "none",
         sess # "none" => recovery' = "none",
         busy' => sess = "closing" /\ graceful,
         "cancelled" \in applied' => receipt /\ (sess # "none" => stale)
  PROVE  PeerInv'
<1>1. AgentTypeOK /\ PluginInSession /\ D!DebtIsOwed /\ ReceiptMeansClean /\ ToldOfEnd
  BY DEF PeerInv, PeerTypeOK
<1>2. Lapsed => Lapsed'
  BY AgentTold DEF Kept
<1>3. AgentTypeOK'
  BY <1>1 DEF AgentTypeOK, Kept
<1>4. PluginInSession' /\ ReceiptMeansClean'
  BY <1>1, <1>2 DEF PluginInSession, ReceiptMeansClean, Kept, D!Live
<1>5. checkpoint' => Owed' \/ Lapsed'
  BY <1>1, <1>2 DEF D!DebtIsOwed, ToldOfEnd, Owed, Kept, Lapsed
<1> QED BY <1>3, <1>4, <1>5, AgentStep DEF Kept

LEMMA PeerClosed ==
  ASSUME PeerInv, D!Closed
  PROVE  PeerInv'
<1>1. AgentTypeOK /\ PluginInSession /\ D!DebtIsOwed /\ ReceiptMeansClean /\ ToldOfEnd
  BY DEF PeerInv, PeerTypeOK
<1>2. AgentSays
  BY DEF D!Closed, AgentSays, D!held, D!Item
<1>3. UNCHANGED over /\ UNCHANGED down
  BY DEF D!Closed, D!wire
<1>4. (Lapsed => Lapsed') /\ \A x : InDown(x)' => InDown(x)
  BY <1>2, <1>3, InDownSame, AgentTold
<1>5. AgentTypeOK'
  BY <1>1, <1>3 DEF AgentTypeOK, D!Closed, D!Settled, D!Item
<1>6. PluginInSession'
  BY <1>1 DEF D!Closed, PluginInSession, D!Live
<1>7. checkpoint' => Owed' \/ Lapsed'
  BY <1>1, <1>4 DEF Owed, D!Closed, D!Settled, D!DebtIsOwed, ToldOfEnd, Lapsed, AgentTypeOK
<1>8. ReceiptMeansClean'
  BY <1>1, <1>4 DEF D!Closed, D!Settled, D!DebtIsOwed, ReceiptMeansClean, PluginInSession, ToldOfEnd, Lapsed
<1> QED BY <1>2, <1>3, <1>4, <1>5, <1>6, <1>7, <1>8, AgentStep

\* Steps of the session and its plugin of which the hub hears nothing.
LEMMA PeerPlugin ==
  ASSUME PeerInv, D!WaitEnds \/ D!Approve \/ D!Opened \/ D!OpenedLate
  PROVE  PeerInv'
<1>1. AgentTypeOK /\ PluginInSession /\ D!DebtIsOwed /\ ReceiptMeansClean /\ ToldOfEnd
  BY DEF PeerInv, PeerTypeOK
<1>2. AgentSays /\ UNCHANGED over /\ UNCHANGED down /\ UNCHANGED record
  BY DEF D!WaitEnds, D!Approve, D!Opened, D!OpenedLate, AgentSays, D!hub, D!wire, D!Silent
<1>3. \A x : InDown(x)' => InDown(x)
  BY <1>2, InDownSame
<1>4. CASE D!WaitEnds
  <2>1. busy' = FALSE /\ Kept /\ UNCHANGED <<recovery, applied, permit, down>>
    BY <1>2, <1>4 DEF D!WaitEnds, D!debt, Kept
  <2> QED BY <1>1, <1>2, <1>3, <2>1, PeerKeeps DEF AgentTypeOK, PluginInSession, ReceiptMeansClean
<1>5. CASE D!Approve \/ D!Opened
  <2>1. /\ sess' = "open" /\ sess \in {"waiting", "open"} /\ plug # "up" /\ plug' \in {"opening", "up"}
        /\ checkpoint' \in BOOLEAN /\ (plug' # "up" => checkpoint' = checkpoint)
        /\ UNCHANGED <<graceful, later, busy, over, must, paid, recovery, receipt, applied, permit, stale, down>>
    BY <1>1, <1>2, <1>5 DEF D!Approve, D!Opened, D!debt, AgentTypeOK, PluginInSession
  <2>2. AgentTypeOK'
    BY <1>1, <2>1 DEF AgentTypeOK
  <2>3. PluginInSession' /\ ReceiptMeansClean'
    BY <1>1, <2>1 DEF PluginInSession, ReceiptMeansClean, D!Live
  <2>4. checkpoint' => Owed' \/ Lapsed'
    BY <1>1, <1>2, <2>1 DEF D!DebtIsOwed, ToldOfEnd, Owed, Lapsed, PluginInSession
  <2> QED BY <1>2, <1>3, <2>2, <2>3, <2>4, AgentStep
<1>6. CASE D!OpenedLate
  <2>1. AgentTypeOK'
    <3>1. must' \in BOOLEAN /\ paid' \in BOOLEAN /\ checkpoint' \in BOOLEAN
      BY <1>1, <1>6 DEF D!OpenedLate, AgentTypeOK
    <3>2. plug' = "none" /\ UNCHANGED <<down, applied, sess, recovery, graceful, later, busy, over, receipt,
                                      permit, stale>>
      BY <1>2, <1>6 DEF D!OpenedLate
    <3> QED BY <1>1, <3>1, <3>2 DEF AgentTypeOK
  <2>2. PluginInSession' /\ ReceiptMeansClean'
    BY <1>1, <1>2, <1>6 DEF D!OpenedLate, PluginInSession, ReceiptMeansClean, D!Live, Lapsed
  <2>3. checkpoint' => Owed' \/ Lapsed'
    BY <1>1, <1>2, <1>6 DEF Owed, D!OpenedLate, PluginInSession, D!DebtIsOwed, ToldOfEnd, Lapsed
  <2> QED BY <2>1, <2>2, <2>3, <1>2, <1>3, AgentStep
<1> QED BY <1>4, <1>5, <1>6

LEMMA PeerFails ==
  ASSUME PeerInv, D!Fails
  PROVE  PeerInv'
<1>1. AgentTypeOK /\ PluginInSession /\ D!DebtIsOwed /\ ReceiptMeansClean /\ ToldOfEnd
  BY DEF PeerInv, PeerTypeOK
<1>2. AgentSays /\ UNCHANGED over /\ UNCHANGED down
  BY DEF D!Fails, AgentSays, D!held, D!wire
<1>3. (Lapsed => Lapsed') /\ \A x : InDown(x)' => InDown(x)
  BY <1>2, InDownSame, AgentTold
<1>4. D!Live /\ FALSE \in BOOLEAN
  BY DEF D!Fails, D!Live
<1>0. UNCHANGED <<recovery, receipt, stale, applied, busy, permit>> /\ (busy => sess = "closing") /\ sess = "open"
  BY <1>1 DEF D!Fails, PluginInSession
<1>5. CASE plug = "opening"
  <2>1. /\ sess' = "closing" /\ graceful' = FALSE /\ later' = FALSE /\ plug' = "none"
        /\ UNCHANGED <<must, paid, checkpoint>>
    BY <1>5 DEF D!Fails
  <2>2. AgentTypeOK'
    BY <1>0, <1>1, <1>2, <2>1 DEF AgentTypeOK
  <2>3. PluginInSession' /\ ReceiptMeansClean'
    BY <1>0, <1>1, <1>3, <2>1 DEF PluginInSession, ReceiptMeansClean, D!Live
  <2>4. checkpoint' => Owed' \/ Lapsed'
    BY <1>0, <1>1, <1>3, <1>5, <2>1 DEF Owed, D!DebtIsOwed, ToldOfEnd, Lapsed
  <2> QED BY <1>2, <1>3, <2>2, <2>3, <2>4, AgentStep
<1>6. CASE plug # "opening"
  <2>0. D!Close(FALSE)
    BY <1>6 DEF D!Fails
  <2>1. /\ sess' = "closing" /\ graceful' = FALSE /\ later' = FALSE
        /\ plug' \in {"none", "opening"} /\ (plug' = "opening" => ~paid')
        /\ must' \in BOOLEAN /\ paid' \in BOOLEAN /\ checkpoint' \in BOOLEAN
        /\ checkpoint' /\ ~Lapsed => must' /\ ~paid'
        /\ receipt => stale
    BY <1>4, <2>0, Closes
  <2>2. AgentTypeOK'
    BY <1>0, <1>1, <1>2, <2>1 DEF AgentTypeOK
  <2>3. PluginInSession' /\ ReceiptMeansClean'
    BY <1>0, <1>1, <1>3, <2>1 DEF PluginInSession, ReceiptMeansClean, D!Live
  <2>4. checkpoint' => Owed' \/ Lapsed'
    BY <1>3, <2>1 DEF Owed
  <2> QED BY <1>2, <1>3, <2>2, <2>3, <2>4, AgentStep
<1> QED BY <1>5, <1>6

LEMMA PeerRecovered ==
  ASSUME PeerInv, NEW ok \in BOOLEAN, D!Recovered(ok)
  PROVE  PeerInv'
<1>1. AgentTypeOK /\ PluginInSession /\ D!DebtIsOwed /\ ReceiptMeansClean /\ ToldOfEnd
  BY DEF PeerInv, PeerTypeOK
<1>2. AgentSays /\ UNCHANGED over /\ UNCHANGED down /\ UNCHANGED record
  BY DEF D!Recovered, AgentSays, D!hub, D!wire, D!Silent, D!owner
<1>3. \A x : InDown(x)' => InDown(x)
  BY <1>2, InDownSame
<1>4. sess = "none" /\ plug = "none"
  BY <1>1 DEF D!Recovered, PluginInSession, AgentTypeOK
<1>5. AgentTypeOK'
  <2>1. UNCHANGED <<down, sess, plug, graceful, later, busy, over, must, applied, permit, stale>>
    BY <1>2 DEF D!Recovered, D!owner
  <2>2. /\ recovery' \in {"none", "idle", "running"} /\ receipt' \in BOOLEAN
        /\ paid' \in BOOLEAN /\ checkpoint' \in BOOLEAN
    BY <1>1 DEF D!Recovered, AgentTypeOK
  <2> QED BY <1>1, <2>1, <2>2 DEF AgentTypeOK
<1>6. PluginInSession' /\ ReceiptMeansClean'
  BY <1>1, <1>2, <1>4 DEF D!Recovered, PluginInSession, ReceiptMeansClean, D!DebtIsOwed, D!owner, D!Live, Lapsed, ToldOfEnd
<1>7. checkpoint' => Owed' \/ Lapsed'
  BY <1>1, <1>2, <1>4 DEF Owed, D!Recovered, D!DebtIsOwed, D!owner, Lapsed, ToldOfEnd, AgentTypeOK
<1> QED BY <1>2, <1>3, <1>5, <1>6, <1>7, AgentStep

(***************************************************************************)
(* Deliveries, and steps that take all sessions.                           *)
(***************************************************************************)
\* The agent takes the next delivery.
Takes(i) == i \in D!Item /\ down # <<>> /\ Head(down) = i /\ down' = Tail(down) /\ ~busy /\ UNCHANGED D!held

LEMMA PeerTakes ==
  ASSUME PeerInv, NEW i, Takes(i)
  PROVE  /\ \A x : InDown(x)' => InDown(x)
         /\ InDown(i) /\ (i \in {"failed", "expired"} => Lapsed)
         /\ down' \in Seq(D!Item)
         /\ UNCHANGED mid
<1>1. InDown(i) /\ \A x : InDown(x)' => InDown(x)
  BY InDownHead DEF PeerInv, Takes
<1>2. down' \in Seq(D!Item)
  BY DEF Takes, PeerInv, PeerTypeOK, AgentTypeOK
<1>3. i \in {"failed", "expired"} => Lapsed
  BY <1>1 DEF PeerInv, ToldOfEnd, OnWire
<1> QED BY <1>1, <1>2, <1>3 DEF Takes, D!held

LEMMA PeerReplayed ==
  ASSUME PeerInv, NEW i, Takes(i), D!Replayed(i)
  PROVE  PeerInv'
<1>1. AgentTypeOK /\ PluginInSession /\ ReceiptMeansClean
  BY DEF PeerInv, PeerTypeOK
<1>2. Kept /\ UNCHANGED <<recovery, busy, permit>> /\ i \in applied
  BY DEF D!Replayed, Kept, D!owner, D!debt
<1>3. AgentSays /\ applied' = applied
  BY <1>1, <1>2, PeerTakes DEF D!Replayed, D!Ack, D!Drop, AgentSays, AgentTypeOK
<1> QED BY <1>1, <1>2, <1>3, PeerTakes, PeerKeeps DEF AgentTypeOK, PluginInSession, ReceiptMeansClean

LEMMA PeerPrepare ==
  ASSUME PeerInv, Takes("prepare"), D!Prepare
  PROVE  PeerInv'
<1>1. AgentTypeOK /\ PluginInSession /\ D!DebtIsOwed /\ ReceiptMeansClean /\ ToldOfEnd /\ ~busy
  BY DEF PeerInv, PeerTypeOK, Takes
<1>2. AgentSays /\ "prepare" \in D!Item
  BY PeerTakes DEF D!Prepare, D!Ack, D!Drop, AgentSays, D!Item
<1>3. applied' \in SUBSET D!Item /\ ("cancelled" \in applied' => "cancelled" \in applied)
  BY <1>1, <1>2 DEF D!Prepare, D!Ack, D!Drop, AgentTypeOK
<1>4. CASE UNCHANGED <<D!owner, D!debt, permit, checkpoint, stale>>
  <2>1. Kept /\ UNCHANGED <<recovery, busy, permit>>
    BY <1>4 DEF Kept, D!owner, D!debt
  <2> QED BY <1>1, <1>2, <1>3, <2>1, PeerTakes, PeerKeeps DEF AgentTypeOK, PluginInSession, ReceiptMeansClean
<1>5. CASE ~UNCHANGED <<D!owner, D!debt, permit, checkpoint, stale>>
  <2>1. /\ sess = "none" /\ recovery # "running"
        /\ must' = (recovery = "idle" /\ must) /\ paid' = FALSE /\ recovery' = "none"
        /\ (sess' = "waiting" /\ UNCHANGED plug) \/ (sess' = "open" /\ plug' = "opening")
        /\ over' = FALSE /\ stale' = receipt
        /\ UNCHANGED <<graceful, later, busy, receipt, permit, checkpoint>>
    BY <1>5 DEF D!Prepare
  <2>2. plug = "none"
    BY <1>1, <2>1 DEF PluginInSession, AgentTypeOK
  <2>3. must' \in BOOLEAN
    BY <1>1, <2>1 DEF AgentTypeOK
  <2>4. AgentTypeOK'
    BY <1>1, <1>3, <2>1, <2>2, <2>3, PeerTakes DEF AgentTypeOK
  <2>5. Lapsed => Lapsed'
    BY <1>2, <2>1, PeerTakes, AgentTold
  <2>6. PluginInSession' /\ ReceiptMeansClean'
    BY <1>1, <1>3, <2>1, <2>2 DEF PluginInSession, ReceiptMeansClean, D!Live
  <2>7. checkpoint' => Owed' \/ Lapsed'
    BY <1>1, <2>1, <2>2, <2>5 DEF D!DebtIsOwed, ToldOfEnd, Owed, Lapsed, AgentTypeOK
  <2> QED BY <1>2, <2>1, <2>4, <2>6, <2>7, PeerTakes, AgentStep
<1> QED BY <1>4, <1>5

LEMMA PeerCancelled ==
  ASSUME PeerInv, Takes("cancelled"), D!Cancelled
  PROVE  PeerInv'
<1>1. AgentTypeOK /\ PluginInSession /\ D!DebtIsOwed /\ ReceiptMeansClean /\ ToldOfEnd /\ ~busy
  BY DEF PeerInv, PeerTypeOK, Takes
<1>2. AgentSays /\ "cancelled" \in D!Item
  BY PeerTakes DEF D!Cancelled, D!Ack, D!Drop, AgentSays, D!Item
<1>3. applied' \in SUBSET D!Item /\ ("cancelled" \in applied' => "cancelled" \in applied \/ (sess = "none" /\ receipt))
  BY <1>1, <1>2 DEF D!Cancelled, D!Ack, D!Drop, AgentTypeOK, D!Acknowledges, D!Live
<1>4. CASE D!Live
  <2>1. D!Close(TRUE) /\ busy' = TRUE /\ UNCHANGED <<applied, over, recovery, receipt, permit, stale>>
    BY <1>4 DEF D!Cancelled, D!Live, D!Drop
  <2>2. /\ sess' = "closing" /\ graceful' = TRUE /\ later' = FALSE
        /\ plug' \in {"none", "opening"} /\ (plug' = "opening" => ~paid')
        /\ must' \in BOOLEAN /\ paid' \in BOOLEAN /\ checkpoint' \in BOOLEAN
        /\ checkpoint' /\ ~Lapsed => must' /\ ~paid'
        /\ receipt => stale
    BY <1>4, <2>1, Closes
  <2>3. Lapsed => Lapsed'
    BY <1>2, <2>1, PeerTakes, AgentTold
  <2>4. AgentTypeOK'
    BY <1>1, <2>1, <2>2, PeerTakes DEF AgentTypeOK
  <2>5. PluginInSession' /\ ReceiptMeansClean'
    BY <1>1, <1>4, <2>1, <2>2, <2>3 DEF PluginInSession, ReceiptMeansClean, D!Live
  <2>6. checkpoint' => Owed' \/ Lapsed'
    BY <2>2, <2>3 DEF Owed
  <2> QED BY <1>2, <2>1, <2>4, <2>5, <2>6, PeerTakes, AgentStep
<1>5. CASE sess = "closing"
  <2>1. /\ UNCHANGED <<sess, plug, graceful, over, must, paid, recovery, receipt, permit, checkpoint, stale, applied>>
        /\ busy' = graceful /\ later' = ~graceful
    BY <1>5 DEF D!Cancelled, D!Live, D!Drop, D!debt
  <2>2. Lapsed => Lapsed'
    BY <1>2, <2>1, PeerTakes, AgentTold
  <2>3. AgentTypeOK'
    <3>1. busy' \in BOOLEAN /\ later' \in BOOLEAN
      BY <1>1, <2>1 DEF AgentTypeOK
    <3> QED BY <1>1, <2>1, <3>1, PeerTakes DEF AgentTypeOK
  <2>4. PluginInSession' /\ ReceiptMeansClean'
    BY <1>1, <1>5, <2>1, <2>2 DEF PluginInSession, ReceiptMeansClean, D!Live
  <2>5. checkpoint' => Owed' \/ Lapsed'
    BY <1>1, <2>1, <2>2 DEF D!DebtIsOwed, ToldOfEnd, Owed, Lapsed
  <2> QED BY <1>2, <2>1, <2>3, <2>4, <2>5, PeerTakes, AgentStep
<1>6. CASE sess = "none"
  <2>1. Kept /\ UNCHANGED <<busy, permit>>
    BY <1>6 DEF D!Cancelled, D!Live, Kept, D!owner
  <2>2. /\ recovery' \in {"none", "idle", "running"} /\ (recovery # "none" => recovery' # "none")
    BY <1>1, <1>6 DEF D!Cancelled, D!Live, AgentTypeOK
  <2> QED BY <1>1, <1>2, <1>3, <1>6, <2>1, <2>2, PeerTakes, PeerKeeps DEF AgentTypeOK, ReceiptMeansClean
<1> QED BY <1>1, <1>4, <1>5, <1>6 DEF AgentTypeOK, D!Live

LEMMA PeerEnded ==
  ASSUME PeerInv, NEW i \in {"failed", "expired"}, Takes(i), D!Ended(i)
  PROVE  PeerInv'
<1>1. AgentTypeOK /\ PluginInSession /\ ReceiptMeansClean /\ ToldOfEnd /\ ~busy
  BY DEF PeerInv, PeerTypeOK, Takes
<1>2. AgentSays /\ i \in D!Item
  BY PeerTakes DEF D!Ended, D!Ack, AgentSays, D!Item
<1>3. /\ applied' \in SUBSET D!Item /\ ("cancelled" \in applied' => "cancelled" \in applied)
      /\ UNCHANGED <<busy, receipt, permit, stale>> /\ over' = (sess # "none")
      /\ recovery' = IF recovery = "idle" THEN "none" ELSE recovery
  BY <1>1, <1>2 DEF D!Ended, D!Ack, AgentTypeOK
<1>4. Lapsed' /\ \A x : InDown(x)' => InDown(x)
  <2>1. Lapsed
    BY PeerTakes
  <2>2. PICK j \in D!Item : UNCHANGED mid /\ (D!Say(j) \/ D!SayFail \/ D!Silent)
    BY <1>2 DEF AgentSays, D!Item
  <2>3. PeerTypeOK
    BY DEF PeerInv
  <2> QED BY <2>1, <2>2, <2>3, Said, PeerTakes
<1>5. CASE D!Live
  <2>1. D!Close(FALSE) /\ FALSE \in BOOLEAN
    BY <1>5 DEF D!Ended
  <2>2. /\ sess' = "closing" /\ graceful' = FALSE /\ later' = FALSE
        /\ plug' \in {"none", "opening"} /\ (plug' = "opening" => ~paid')
        /\ must' \in BOOLEAN /\ paid' \in BOOLEAN /\ checkpoint' \in BOOLEAN
        /\ receipt => stale
    BY <1>5, <2>1, Closes
  <2>3. AgentTypeOK'
    BY <1>1, <1>3, <2>2, PeerTakes DEF AgentTypeOK
  <2>4. PluginInSession' /\ ReceiptMeansClean'
    BY <1>1, <1>3, <1>5, <2>2 DEF PluginInSession, ReceiptMeansClean, D!Live
  <2> QED BY <1>2, <1>4, <2>3, <2>4, AgentStep
<1>6. CASE ~D!Live
  <2>1. UNCHANGED <<sess, graceful, later, plug, must, paid, checkpoint>>
    BY <1>6 DEF D!Ended
  <2>2. AgentTypeOK'
    BY <1>1, <1>3, <2>1, PeerTakes DEF AgentTypeOK
  <2>3. PluginInSession' /\ ReceiptMeansClean'
    BY <1>1, <1>3, <1>4, <1>6, <2>1 DEF PluginInSession, ReceiptMeansClean, D!Live
  <2> QED BY <1>2, <1>4, <2>2, <2>3, AgentStep
<1> QED BY <1>5, <1>6

LEMMA PeerHandle ==
  ASSUME PeerInv, NEW i \in D!Item, D!Handle(i)
  PROVE  PeerInv'
<1>1. Takes(i)
  BY DEF D!Handle, Takes
<1>2. CASE D!Replayed(i)
  BY <1>1, <1>2, PeerReplayed
<1>3. CASE i = "prepare" /\ D!Prepare
  BY <1>1, <1>3, PeerPrepare
<1>4. CASE i = "cancelled" /\ D!Cancelled
  BY <1>1, <1>4, PeerCancelled
<1>5. CASE i \in {"failed", "expired"} /\ D!Ended(i)
  BY <1>1, <1>5, PeerEnded
<1> QED BY <1>2, <1>3, <1>4, <1>5 DEF D!Handle

\* The socket is lost, or the user switches the device off.
LEMMA PeerTakesAll ==
  ASSUME PeerInv, NEW g \in BOOLEAN, D!TakeSessions(g), AgentSays,
         \A x : InDown(x)' => InDown(x), down' \in Seq(D!Item), permit' \in BOOLEAN,
         UNCHANGED <<busy, over, receipt, applied, stale>>
  PROVE  PeerInv'
<1>1. AgentTypeOK /\ PluginInSession /\ ReceiptMeansClean
  BY DEF PeerInv, PeerTypeOK
<1>2. recovery' = IF g /\ recovery = "idle" THEN "running" ELSE recovery
  BY DEF D!TakeSessions
<1>3. Lapsed => Lapsed'
  BY AgentTold
<1>4. CASE D!Live
  <2>1. D!Close(g) /\ recovery = "none"
    BY <1>1, <1>4 DEF D!TakeSessions, PluginInSession, D!Live
  <2>2. /\ sess' = "closing" /\ graceful' = g /\ later' = FALSE
        /\ plug' \in {"none", "opening"} /\ (plug' = "opening" => ~paid')
        /\ must' \in BOOLEAN /\ paid' \in BOOLEAN /\ checkpoint' \in BOOLEAN
        /\ checkpoint' /\ ~Lapsed => must' /\ ~paid'
        /\ receipt => stale
    BY <1>4, <2>1, Closes
  <2>3. AgentTypeOK'
    BY <1>1, <1>2, <2>1, <2>2 DEF AgentTypeOK
  <2>4. PluginInSession' /\ ReceiptMeansClean'
    BY <1>1, <1>2, <1>3, <1>4, <2>1, <2>2 DEF PluginInSession, ReceiptMeansClean, D!Live
  <2>5. checkpoint' => Owed' \/ Lapsed'
    BY <2>2, <1>3 DEF Owed
  <2> QED BY <1>3, <2>3, <2>4, <2>5, AgentStep
<1>5. CASE ~D!Live
  <2>1. Kept
    BY <1>5 DEF D!TakeSessions, Kept
  <2>2. /\ recovery' \in {"none", "idle", "running"} /\ (recovery # "none" => recovery' # "none")
        /\ (recovery = "none" => recovery' = "none")
    BY <1>1, <1>2 DEF AgentTypeOK
  <2>3. sess # "none" => recovery' = "none"
    BY <1>1, <2>2 DEF PluginInSession
  <2> QED BY <1>1, <2>1, <2>2, <2>3, PeerKeeps DEF AgentTypeOK, ReceiptMeansClean, PluginInSession
<1> QED BY <1>4, <1>5

LEMMA PeerBreaks ==
  ASSUME PeerInv, D!Lost \/ D!Connect \/ D!Disconnect \/ D!Forbid \/ D!Allow
  PROVE  PeerInv'
<1>0. AgentTypeOK /\ PluginInSession /\ ReceiptMeansClean /\ TRUE \in BOOLEAN /\ FALSE \in BOOLEAN
  BY DEF PeerInv, PeerTypeOK
<1>1. <<>> \in Seq(D!Item)
  OBVIOUS
<1>2. AgentSays
  BY DEF D!Lost, D!Connect, D!Disconnect, D!Forbid, D!Allow, AgentSays, D!hub, D!held, D!Silent
<1>3. CASE D!Lost \/ D!Disconnect
  <2>1. down' = <<>> /\ permit' \in BOOLEAN /\ UNCHANGED <<busy, over, receipt, applied, stale>>
    BY <1>0, <1>3 DEF D!Lost, D!Disconnect, D!SocketGone, AgentTypeOK
  <2>2. \A x : InDown(x)' => InDown(x)
    BY <2>1, InDownNone
  <2>3. D!TakeSessions(TRUE) \/ D!TakeSessions(FALSE)
    BY <1>3 DEF D!Lost, D!Disconnect
  <2> QED BY <1>0, <1>1, <1>2, <2>1, <2>2, <2>3, PeerTakesAll
<1>4. CASE D!Forbid
  <2>1. UNCHANGED down /\ permit' \in BOOLEAN /\ UNCHANGED <<busy, over, receipt, applied, stale>>
    BY <1>4 DEF D!Forbid, D!wire
  <2>2. \A x : InDown(x)' => InDown(x)
    BY <2>1, InDownSame
  <2> QED BY <1>0, <1>2, <1>4, <2>1, <2>2, PeerTakesAll DEF D!Forbid, AgentTypeOK
<1>5. CASE D!Connect \/ D!Allow
  <2>1. Kept /\ UNCHANGED <<down, recovery, busy, applied>> /\ permit' \in BOOLEAN
    BY <1>0, <1>5 DEF D!Connect, D!Allow, Kept, D!agent, D!owner, D!debt, D!wire, AgentTypeOK
  <2>2. \A x : InDown(x)' => InDown(x)
    BY <2>1, InDownSame
  <2> QED BY <1>0, <1>2, <2>1, <2>2, PeerKeeps DEF AgentTypeOK, PluginInSession, ReceiptMeansClean
<1> QED BY <1>3, <1>4, <1>5

LEMMA PeerInvStep ==
  ASSUME PeerInv, [D!Next]_(D!vars)
  PROVE  PeerInv'
<1>1. CASE UNCHANGED D!vars
  <2>1. Kept /\ D!Silent /\ UNCHANGED <<mid, down, busy, recovery, applied, permit>>
    BY <1>1 DEF D!vars, D!hub, D!wire, D!agent, D!owner, D!debt, Kept, D!Silent
  <2>2. \A x : InDown(x)' => InDown(x)
    BY <2>1, InDownSame
  <2> QED BY <2>1, <2>2, PeerKeeps
      DEF AgentSays, PeerInv, PeerTypeOK, AgentTypeOK, PluginInSession, ReceiptMeansClean
<1>2. CASE D!Next
  BY <1>2, PeerHub, PeerCarries, PeerClosed, PeerPlugin, PeerFails, PeerRecovered, PeerHandle, PeerBreaks
  DEF D!Next, D!Carries
<1> QED BY <1>1, <1>2

\* An end of the hub's that is settled is a cancellation that the plugin has
\* heard of, or a session of the same id that began after it.
LEMMA DeliveredIsClean ==
  ASSUME PeerInv, [D!Next]_(D!vars), D!Delivered, record = "cancelled"
  PROVE  ~checkpoint' \/ stale
<1>1. AgentTypeOK /\ PluginInSession /\ D!DebtIsOwed /\ ReceiptMeansClean /\ ToldOfEnd /\ ~Lapsed
  BY DEF PeerInv, PeerTypeOK, Lapsed
<1>2. ~UNCHANGED acked
  BY DEF D!Delivered
<1>3. D!Next
  BY <1>2 DEF D!vars, D!hub
<1>4. CASE D!Closed
  <2>1. busy /\ D!Settled(must, paid') /\ checkpoint' = (checkpoint /\ paid' = paid) /\ plug = "none"
    BY <1>4, <1>2 DEF D!Closed, D!Silent
  <2> QED BY <1>1, <2>1 DEF D!DebtIsOwed, D!Settled, ToldOfEnd, AgentTypeOK, Lapsed
<1>5. ASSUME NEW i \in D!Item, D!Handle(i) PROVE ~checkpoint' \/ stale
  <2>1. CASE D!Replayed(i)
    <3>1. i = "cancelled" /\ i \in applied /\ UNCHANGED checkpoint
      BY <1>2, <2>1 DEF D!Delivered, D!Replayed, D!Ack, D!Drop, D!Say, D!Acked, D!Silent
    <3>2. receipt /\ (checkpoint => stale)
      BY <1>1, <3>1 DEF ReceiptMeansClean
    <3> QED BY <3>1, <3>2
  <2>2. CASE i = "cancelled" /\ D!Cancelled
    <3>1. sess = "none" /\ receipt /\ UNCHANGED checkpoint
      BY <1>2, <2>2 DEF D!Cancelled, D!Drop, D!Silent, D!Live, D!Acknowledges
    <3> QED BY <1>1, <3>1 DEF ReceiptMeansClean
  <2>3. CASE i = "prepare" /\ D!Prepare
    BY <2>3, <1>2 DEF D!Delivered, D!Prepare, D!SayFail, D!Failed, D!Silent, D!Ack, D!Drop, D!Say, D!Acked
  <2>4. CASE i \in {"failed", "expired"} /\ D!Ended(i)
    BY <2>4, <1>2 DEF D!Delivered, D!Ended, D!Silent, D!Ack, D!Say, D!Acked
  <2> QED BY <1>5, <2>1, <2>2, <2>3, <2>4 DEF D!Handle
<1>6. ASSUME NEW i \in D!Item, D!Delay(i) \/ D!Push(i) \/ D!PushFails(i) PROVE FALSE
  BY <1>2, <1>6 DEF D!Delay, D!Push, D!PushFails
<1>7. CASE D!Create \/ D!Cancel \/ D!Age \/ D!Expire
  BY <1>2, <1>7 DEF D!Create, D!Cancel, D!Age, D!Expire
<1>8. CASE D!WaitEnds \/ D!Approve \/ D!Opened \/ D!OpenedLate \/ \E ok \in BOOLEAN : D!Recovered(ok)
  BY <1>2, <1>8 DEF D!WaitEnds, D!Approve, D!Opened, D!OpenedLate, D!Recovered, D!hub
<1>9. CASE D!Fails
  BY <1>2, <1>9 DEF D!Fails, D!SayFail, D!Silent, D!Failed
<1>10. CASE D!Lost \/ D!Connect \/ D!Disconnect \/ D!Forbid \/ D!Allow
  BY <1>2, <1>10 DEF D!Lost, D!Connect, D!Disconnect, D!Forbid, D!Allow, D!hub, D!SayFail, D!Silent, D!Failed
<1> QED BY <1>3, <1>4, <1>5, <1>6, <1>7, <1>8, <1>9, <1>10 DEF D!Next, D!Carries

(***************************************************************************)
(* For any number of frames under way, of late drains and of breaks.       *)
(***************************************************************************)
\* What a plugin that was aborted has left behind is owed by the session, its
\* cleanup or the recovery, until the session has ended otherwise
\* (stopPluginPeerEpoch, transferPluginPeerCancelRecoveryLocked).
THEOREM DebtHolds == D!Spec => []D!DebtIsOwed
<1>1. PeerInv => D!DebtIsOwed
  BY DEF PeerInv
<1> QED BY <1>1, PeerInvInit, PeerInvStep, PTL DEF D!Spec

\* The hub forgets a cancellation only when nothing of the plugin is left
\* (handlePluginPeerUpdate).
THEOREM CancelHolds == D!Spec => D!CancelIsApplied
<1>1. PeerInv /\ [D!Next]_(D!vars) => [D!Delivered /\ record = "cancelled" => ~checkpoint' \/ stale]_(D!vars)
  BY DeliveredIsClean
<1> QED BY <1>1, PeerInvInit, PeerInvStep, PTL DEF D!Spec, D!CancelIsApplied

\* Both for the runs, where a behaviour is one of the command or of the peer.
LEMMA PeerMC == MCSpec => D!Spec
<1>1. MCInit => D!Init
  BY DEF MCInit
<1>2. [MCNext]_allVars => [D!Next]_(D!vars)
  BY DEF MCNext, OnlyCommand, OnlyPeer, allVars, peerVars, D!vars, D!hub, D!wire, D!agent, D!owner, D!debt,
         D!count
<1> QED BY <1>1, <1>2, PTL DEF MCSpec, D!Spec

\* What was left behind is owed, in the runs' specification.
THEOREM DebtIsOwedHolds == MCSpec => []DebtIsOwed
  BY PeerMC, DebtHolds, PTL DEF DebtIsOwed

\* A settled cancellation was applied, in the runs' specification.
THEOREM CancelIsAppliedHolds == MCSpec => CancelIsApplied
  BY PeerMC, CancelHolds DEF CancelIsApplied
=============================================================================

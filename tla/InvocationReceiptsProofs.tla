---------------------- MODULE InvocationReceiptsProofs ----------------------
(***************************************************************************)
(* Proofs about InvocationReceipts, for any number of processes, ids and   *)
(* deliveries: what ReceiptPromises promises holds in every state and every *)
(* step.  The inductive invariant comes in layers: the types with the       *)
(* capacities (TypeInv), the ledger with its replies (LedgerInv), the      *)
(* receipts in memory (Receipted), and, where restarts are orderly, the     *)
(* hand-over (Handover) and what an execution still owns (Held, Counted).   *)
(***************************************************************************)
EXTENDS ReceiptPromises, FiniteSetTheorems, TLAPS

-----------------------------------------------------------------------------
(* Entries, and what Claim says of them.                                   *)

Rowed == Entry \cup {NoEntry}

\* A row has the fields of an entry, and only the empty one is nobody's.
LEMMA RowFields ==
    ASSUME NEW e \in Rowed
    PROVE  /\ e.digest \in Digest \cup {Nobody}
           /\ e.complete \in BOOLEAN /\ e.retryable \in BOOLEAN /\ e.lapsed \in BOOLEAN
           /\ e.digest = Nobody <=> e = NoEntry
           /\ e = NoEntry => ~e.complete /\ ~e.retryable /\ ~e.lapsed
<1>1. CASE e \in Entry
  BY <1>1, NobodyAssumption DEF Entry, NoEntry
<1>2. CASE e = NoEntry
  BY <1>2, NobodyAssumption DEF NoEntry
<1>3. QED
  BY <1>1, <1>2 DEF Rowed

LEMMA IntentFields ==
    ASSUME NEW d \in Digest
    PROVE  /\ Intent(d) \in Rowed /\ Intent(d) # NoEntry /\ Intent(d).digest = d
           /\ ~Intent(d).complete /\ ~Intent(d).retryable /\ ~Intent(d).lapsed
  BY NobodyAssumption DEF Rowed, Entry, NoEntry, Intent

\* Claim opens a row again that may be retried.
Reopen(ix, i) == [ix EXCEPT ![i].retryable = FALSE, ![i].complete = FALSE]

LEMMA Reopened ==
    ASSUME NEW ix \in [Id -> Rowed], NEW i \in Id, ix[i] # NoEntry
    PROVE  LET n == Reopen(ix, i) IN
           /\ n \in [Id -> Rowed]
           /\ n[i].digest = ix[i].digest /\ n[i].lapsed = ix[i].lapsed
           /\ ~n[i].retryable /\ ~n[i].complete /\ n[i] # NoEntry
           /\ \A j \in Id \ {i} : n[j] = ix[j]
<1> DEFINE e == [[ix[i] EXCEPT !.retryable = FALSE] EXCEPT !.complete = FALSE]
           n == [ix EXCEPT ![i] = e]
<1>1. Reopen(ix, i) = n
  BY DEF Reopen
<1>2. ix[i] \in Entry
  BY DEF Rowed
<1>3. e \in Entry /\ e.digest = ix[i].digest /\ e.lapsed = ix[i].lapsed /\ e.retryable = FALSE /\ e.complete = FALSE
  BY <1>2 DEF Entry
<1>4. e # NoEntry
  BY <1>3, NobodyAssumption DEF Entry, NoEntry
<1> HIDE DEF e
<1>5. QED
  BY <1>1, <1>3, <1>4 DEF Rowed

\* finish completes a row.
Complete(ix, i, b) == [ix EXCEPT ![i].complete = TRUE, ![i].retryable = b]

LEMMA Completed ==
    ASSUME NEW ix \in [Id -> Rowed], NEW i \in Id, ix[i] # NoEntry, NEW b \in BOOLEAN
    PROVE  LET n == Complete(ix, i, b) IN
           /\ n \in [Id -> Rowed]
           /\ n[i].digest = ix[i].digest /\ n[i].lapsed = ix[i].lapsed
           /\ n[i].retryable = b /\ n[i].complete /\ n[i] # NoEntry
           /\ \A j \in Id \ {i} : n[j] = ix[j]
<1> DEFINE e == [[ix[i] EXCEPT !.complete = TRUE] EXCEPT !.retryable = b]
           n == [ix EXCEPT ![i] = e]
<1>1. Complete(ix, i, b) = n
  BY DEF Complete
<1>2. ix[i] \in Entry
  BY DEF Rowed
<1>3. e \in Entry /\ e.digest = ix[i].digest /\ e.lapsed = ix[i].lapsed /\ e.retryable = b /\ e.complete = TRUE
  BY <1>2 DEF Entry
<1>4. e # NoEntry
  BY <1>3, NobodyAssumption DEF Entry, NoEntry
<1> HIDE DEF e
<1>5. QED
  BY <1>1, <1>3, <1>4 DEF Rowed

LEMMA Lapsed ==
    ASSUME NEW ix \in [Id -> Rowed], NEW i \in Id, ix[i] # NoEntry
    PROVE  LET n == [ix EXCEPT ![i].lapsed = TRUE] IN
           /\ n \in [Id -> Rowed]
           /\ n[i].digest = ix[i].digest /\ n[i].complete = ix[i].complete
           /\ n[i].retryable = ix[i].retryable /\ n[i].lapsed /\ n[i] # NoEntry
           /\ \A j \in Id \ {i} : n[j] = ix[j]
<1> DEFINE e == [ix[i] EXCEPT !.lapsed = TRUE]
<1>1. ix[i] \in Entry
  BY DEF Rowed
<1>2. e \in Entry /\ e.digest = ix[i].digest /\ e.complete = ix[i].complete /\ e.retryable = ix[i].retryable /\ e.lapsed = TRUE
  BY <1>1 DEF Entry
<1>3. e # NoEntry
  BY <1>2, NobodyAssumption DEF Entry, NoEntry
<1> HIDE DEF e
<1>4. QED
  BY <1>2, <1>3 DEF Rowed, e

\* The entries of an index are finitely many, at most the capacity.
Bounded(ix) == IsFiniteSet(Entries(ix)) /\ Cardinality(Entries(ix)) <= Capacity

LEMMA SameEntries ==
    ASSUME NEW ix, NEW next, \A i \in Id : next[i] = NoEntry <=> ix[i] = NoEntry, Bounded(ix)
    PROVE  Bounded(next)
<1>1. Entries(next) = Entries(ix)
  BY DEF Entries
<1>2. QED
  BY <1>1 DEF Bounded

LEMMA OneMore ==
    ASSUME NEW S, IsFiniteSet(S), NEW x
    PROVE  /\ IsFiniteSet(S \cup {x})
           /\ Cardinality(S) \in Nat /\ Cardinality(S \cup {x}) \in Nat
           /\ Cardinality(S \cup {x}) <= Cardinality(S) + 1
  BY FS_AddElement, FS_CardinalityType

\* What Claim answers, by the row it finds.
LEMMA ClaimAnswers ==
    ASSUME NEW ix \in [Id -> Rowed], NEW i \in Id, NEW d \in Digest
    PROVE  LET k == Claim(ix, i, d) IN
           /\ k.says \in {"full", "execute", "conflict", "replay", "interrupted"}
           /\ k.says = "execute" => ~Live(ix[i]) \/ (Live(ix[i]) /\ ix[i].digest = d /\ ix[i].retryable)
           /\ k.says \in {"replay", "interrupted"} => Live(ix[i]) /\ ix[i].digest = d /\ ~ix[i].retryable
           /\ k.says = "replay" => ix[i].complete
           /\ k.says = "interrupted" => ~ix[i].complete
<1> DEFINE k == Claim(ix, i, d)
<1>0. ix[i].complete \in BOOLEAN /\ ix[i].retryable \in BOOLEAN
  BY RowFields
<1>1. CASE ~Live(ix[i])
  BY <1>1 DEF Claim
<1>2. CASE Live(ix[i]) /\ ix[i].digest # d
  BY <1>2 DEF Claim
<1>3. CASE Live(ix[i]) /\ ix[i].digest = d /\ ix[i].retryable
  BY <1>3 DEF Claim
<1>4. CASE Live(ix[i]) /\ ix[i].digest = d /\ ~ix[i].retryable
  BY <1>4, <1>0 DEF Claim
<1>5. QED
  BY <1>1, <1>2, <1>3, <1>4, <1>0

\* The index of an intent: the row is an entry of its input, not complete; the
\* others are as they were, or were of no use any more.
LEMMA ClaimSaves ==
    ASSUME NEW ix \in [Id -> Rowed], NEW i \in Id, NEW d \in Digest, Claim(ix, i, d).says = "execute",
           ix[i].retryable => ix[i].complete, Bounded(ix), Capacity \in Nat
    PROVE  LET next == Claim(ix, i, d).next IN
           /\ next \in [Id -> Rowed]
           /\ next[i].digest = d /\ ~next[i].complete /\ ~next[i].retryable /\ ~next[i].lapsed
           /\ \A j \in Id \ {i} : next[j] = ix[j] \/ (next[j] = NoEntry /\ ~Live(ix[j]))
           /\ Bounded(next)
<1> DEFINE next == Claim(ix, i, d).next
<1>1. CASE ~Live(ix[i])
  <2>1. ~(Cardinality(Entries(Pruned(ix))) >= Capacity) /\ next = [Pruned(ix) EXCEPT ![i] = Intent(d)]
    BY <1>1 DEF Claim
  <2>2. Pruned(ix) \in [Id -> Rowed]
    BY DEF Pruned, Rowed
  <2>3. next[i] = Intent(d) /\ \A j \in Id \ {i} : next[j] = Pruned(ix)[j]
    BY <2>1, <2>2
  <2>4. \A j \in Id : Pruned(ix)[j] = ix[j] \/ (Pruned(ix)[j] = NoEntry /\ ~Live(ix[j]))
    BY DEF Pruned
  <2>5. next \in [Id -> Rowed]
    BY <2>1, <2>2, IntentFields
  <2>6. Entries(next) = Entries(Pruned(ix)) \cup {i}
    BY <2>3, <2>5, IntentFields DEF Entries
  <2>7. Entries(Pruned(ix)) \subseteq Entries(ix)
    BY <2>4 DEF Entries
  <2>8. IsFiniteSet(Entries(Pruned(ix)))
    BY <2>7, FS_Subset DEF Bounded
  <2>9. Cardinality(Entries(Pruned(ix))) \in Nat
    BY <2>8, FS_CardinalityType
  <2>10. Bounded(next)
    <3>1. IsFiniteSet(Entries(next)) /\ Cardinality(Entries(next)) <= Cardinality(Entries(Pruned(ix))) + 1
      BY <2>6, <2>8, OneMore
    <3>2. Cardinality(Entries(next)) \in Nat
      BY <3>1, FS_CardinalityType
    <3>3. QED
      BY <3>1, <3>2, <2>1, <2>9 DEF Bounded
  <2>11. QED
    BY <2>3, <2>4, <2>5, <2>10, IntentFields
<1>2. CASE Live(ix[i])
  <2>1. ix[i].digest = d /\ ix[i].retryable
    BY <1>2, ClaimAnswers
  <2>0. Claim(ix, i, d) = [says |-> "execute", next |-> Reopen(ix, i)]
    BY <1>2, <2>1, Zenon DEF Claim, Reopen
  <2>2. next = Reopen(ix, i)
    BY <2>0
  <2>3. ix[i] # NoEntry /\ ~ix[i].lapsed
    BY <1>2, <2>1 DEF Live
  <2>4. /\ next \in [Id -> Rowed]
        /\ next[i].digest = ix[i].digest /\ next[i].lapsed = ix[i].lapsed
        /\ ~next[i].retryable /\ ~next[i].complete /\ next[i] # NoEntry
        /\ \A j \in Id \ {i} : next[j] = ix[j]
    BY <2>2, <2>3, Reopened
  <2>5. Bounded(next)
    BY <2>4, <2>3, SameEntries
  <2>6. QED
    BY <2>1, <2>3, <2>4, <2>5
<1>3. QED
  BY <1>1, <1>2

-----------------------------------------------------------------------------
(* What the steps of a call have in common.                                *)

\* The rows in memory that are taken are finitely many, at most the capacity.
Taken(row) == {i \in Id : row[i] # Nobody}

BoundedRow(row) == IsFiniteSet(Taken(row)) /\ Cardinality(Taken(row)) <= Capacity

TypeInv ==
    /\ TypeOK
    /\ Bounded(disk)
    /\ \A p \in Proc : BoundedRow(receipt[p])

\* The path of a call outside of its launch, its claim and its finish.
Ways(from, to) ==
    \/ from = "check" /\ to \in {"claim", "end"}
    \/ from = "claim" /\ to \in {"wait", "end"}
    \/ from = "wait" /\ to = "end"
    \/ from = "verdict" /\ to \in {"finish", "parked"}
    \/ from = "parked" /\ to \in {"finish", "dropped"}
    \/ from = "running" /\ to = "finish"

Walk(c, to) ==
    /\ Ways(pc[c], to)
    /\ pc' = [pc EXCEPT ![c] = to]
    /\ UNCHANGED <<processes, storage, receipts, proc, id, digest, effects>>
    /\ \/ to = "finish" /\ \E r \in Final : (r = "result" <=> pc[c] = "running") /\ Outcome(c, r)
       \/ to # "finish" /\ UNCHANGED outcome
    /\ \/ /\ to = "wait" /\ Valid(Known(c)) /\ Known(c).digest = digest[c]
          /\ receipt[proc[c]][id[c]] \in Call
          /\ follows' = [follows EXCEPT ![c] = receipt[proc[c]][id[c]]]
       \/ to # "wait" /\ UNCHANGED follows
    /\ UNCHANGED told \/ \E r \in Replies \cup {"none"} : told' = [told EXCEPT ![c] = r]

WalkStep(c) ==
    \/ CheckLocked(c) \/ Attach(c) \/ Follow(c) \/ GiveUp(c) \/ Refuse(c)
    \/ AskByPolling(c) \/ Park(c) \/ RejectPending(c) \/ DropKeys(c) \/ End(c)

LaunchStep(c) == Proceed(c) \/ Approve(c)

LEMMA CallSteps ==
    ASSUME NEW c \in Call, CallStep(c)
    PROVE  Alive(c) /\ (WalkStep(c) \/ LaunchStep(c) \/ ClaimInvocation(c) \/ FinishInvocation(c))
  BY Zenon DEF CallStep, Settles, WalkStep, LaunchStep

LEMMA ObjectFields ==
    ASSUME NEW o \in Object \cup {NoObject}
    PROVE  /\ o.digest \in Digest \cup {Nobody} /\ o.reply \in Final \cup {"none"}
           /\ o.done \in BOOLEAN /\ o.retryable \in BOOLEAN /\ o.lapsed \in BOOLEAN
           /\ o.digest = Nobody <=> o = NoObject
           /\ o = NoObject => ~o.done
<1>1. CASE o \in Object
  BY <1>1, NobodyAssumption DEF Object, NoObject
<1>2. CASE o = NoObject
  BY <1>2, NobodyAssumption DEF NoObject
<1>3. QED
  BY <1>1, <1>2

LEMMA FinalReplies == Final \subseteq Replies
  BY DEF Final, Replies

\* A valid receipt is somebody's.
LEMMA KnownCall ==
    ASSUME TypeOK, NEW c \in Call, Valid(Known(c))
    PROVE  /\ receipt[proc[c]][id[c]] \in Call
           /\ Known(c) = object[receipt[proc[c]][id[c]]]
           /\ Known(c) \in Object
           /\ ~(Known(c).done /\ Known(c).lapsed)
<1>1. receipt[proc[c]][id[c]] \in Call \cup {Nobody}
  BY DEF TypeOK
<1>2. receipt[proc[c]][id[c]] # Nobody
  BY DEF Valid, Known
<1>3. QED
  BY <1>1, <1>2 DEF TypeOK, Valid, Known

LEMMA Walks ==
    ASSUME TypeOK, NEW c \in Call, WalkStep(c)
    PROVE  \E to : Walk(c, to)
<1> USE DEF Ways, Goto, Tell
<1>1. CASE CheckLocked(c)
  <2>1. CASE locked[proc[c]]
    <3>1. Walk(c, "end")
      BY <1>1, <2>1 DEF CheckLocked, Walk, receipts, Replies
    <3>2. QED
      BY <3>1
  <2>2. CASE ~locked[proc[c]]
    <3>1. Walk(c, "claim")
      BY <1>1, <2>2 DEF CheckLocked, Walk, receipts
    <3>2. QED
      BY <3>1
  <2>3. QED
    BY <2>1, <2>2
<1>2. CASE Attach(c)
  <2>1. CASE Known(c).digest # digest[c]
    <3>1. Walk(c, "end")
      BY <1>2, <2>1 DEF Attach, Walk, receipts, Replies
    <3>2. QED
      BY <3>1
  <2>2. CASE Known(c).digest = digest[c]
    <3>1. Walk(c, "wait")
      BY <1>2, <2>2, KnownCall DEF Attach, Walk, receipts
    <3>2. QED
      BY <3>1
  <2>3. QED
    BY <2>1, <2>2
<1>3. CASE Follow(c)
  <2>1. object[follows[c]].reply \in Replies \cup {"none"}
    BY ObjectFields, FinalReplies DEF TypeOK
  <2>2. Walk(c, "end")
    BY <1>3, <2>1 DEF Follow, Walk, receipts
  <2>3. QED
    BY <2>2
<1>4. CASE GiveUp(c)
  <2>1. Walk(c, "end")
    BY <1>4 DEF GiveUp, Walk
  <2>2. QED
    BY <2>1
<1>5. CASE Refuse(c) \/ AskByPolling(c) \/ RejectPending(c) \/ End(c)
  <2>1. Walk(c, "finish")
    BY <1>5 DEF Refuse, AskByPolling, RejectPending, End, Walk, Outcome, Final
  <2>2. QED
    BY <2>1
<1>6. CASE Park(c)
  <2>1. Walk(c, "parked")
    BY <1>6 DEF Park, Walk
  <2>2. QED
    BY <2>1
<1>7. CASE DropKeys(c)
  <2>1. Walk(c, "dropped")
    BY <1>7 DEF DropKeys, Walk
  <2>2. QED
    BY <2>1
<1>8. QED
  BY <1>1, <1>2, <1>3, <1>4, <1>5, <1>6, <1>7 DEF WalkStep

\* The rows that are left for a claim are rows of before.
LEMMA RowsKept ==
    ASSUME TypeInv, NEW c \in Call
    PROVE  /\ Rows(c) \in [Id -> Call \cup {Nobody}]
           /\ \A i \in Id : Rows(c)[i] \in {receipt[proc[c]][i], Nobody}
           /\ BoundedRow(Rows(c))
<1> DEFINE old == receipt[proc[c]]
<1>1. proc[c] \in Proc /\ old \in [Id -> Call \cup {Nobody}]
  BY DEF TypeInv, TypeOK
<1>2. Kept(proc[c]) \in [Id -> Call \cup {Nobody}] /\ \A i \in Id : Kept(proc[c])[i] \in {old[i], Nobody}
  BY <1>1 DEF Kept
<1>3. Rows(c) \in [Id -> Call \cup {Nobody}] /\ \A i \in Id : Rows(c)[i] \in {old[i], Nobody}
  BY <1>2 DEF Rows
<1>4. Taken(Rows(c)) \subseteq Taken(old)
  BY <1>3 DEF Taken
<1>5. BoundedRow(old)
  BY <1>1 DEF TypeInv
<1>6. IsFiniteSet(Taken(Rows(c))) /\ Cardinality(Taken(Rows(c))) <= Cardinality(Taken(old))
  BY <1>4, <1>5, FS_Subset DEF BoundedRow
<1>7. Cardinality(Taken(Rows(c))) \in Nat /\ Cardinality(Taken(old)) \in Nat
  BY <1>5, <1>6, FS_CardinalityType DEF BoundedRow
<1>8. BoundedRow(Rows(c))
  BY <1>5, <1>6, <1>7, CapacityAssumption DEF BoundedRow
<1>9. QED
  BY <1>3, <1>8

\* The row with the receipt of a claim in it stays within the capacity.
LEMMA RowMade ==
    ASSUME TypeInv, NEW c \in Call, ~Full(c)
    PROVE  LET row == [Rows(c) EXCEPT ![id[c]] = c] IN
           row \in [Id -> Call \cup {Nobody}] /\ BoundedRow(row)
<1> DEFINE row == [Rows(c) EXCEPT ![id[c]] = c]
<1>1. row \in [Id -> Call \cup {Nobody}] /\ id[c] \in Id
  BY RowsKept DEF TypeInv, TypeOK
<1>2. Taken(row) = Taken(Rows(c)) \cup {id[c]}
  BY <1>1, RowsKept, NobodyAssumption DEF Taken
<1>3. IsFiniteSet(Taken(Rows(c)))
  BY RowsKept DEF BoundedRow
<1>4. Cardinality(Taken(Rows(c))) \in Nat
  BY <1>3, FS_CardinalityType
<1>5. IsFiniteSet(Taken(row)) /\ Cardinality(Taken(row)) <= Cardinality(Taken(Rows(c))) + 1
  BY <1>2, <1>3, OneMore
<1>6. Cardinality(Taken(row)) \in Nat
  BY <1>2, <1>3, OneMore
<1>7. ~(Cardinality(Taken(Rows(c))) >= Capacity)
  BY DEF Full, Taken
<1>8. BoundedRow(row)
  BY <1>4, <1>5, <1>6, <1>7, CapacityAssumption DEF BoundedRow
<1>9. QED
  BY <1>1, <1>8

\* The four ways a claim ends: refused, without a ledger, with an intent, or
\* with the receipt of an entry that is there already.
Refused(c) ==
    /\ receipt' = [receipt EXCEPT ![proc[c]] = Rows(c)]
    /\ \E r \in Replies \ Final : Tell(c, r)
    /\ UNCHANGED <<storage, object, follows>>

Made(c, o) ==
    /\ ~Full(c)
    /\ receipt' = [receipt EXCEPT ![proc[c]] = [Rows(c) EXCEPT ![id[c]] = c]]
    /\ object' = [object EXCEPT ![c] = o]
    /\ UNCHANGED told

ClaimOf(c) == Claim(index[proc[c]], id[c], digest[c])

Unrecorded(c) ==
    /\ ~ledger[proc[c]]
    /\ Made(c, Opened(digest[c])) /\ pc' = [pc EXCEPT ![c] = "verdict"]
    /\ UNCHANGED <<storage, follows>>

Recorded(c) ==
    /\ ledger[proc[c]] /\ ClaimOf(c).says = "execute"
    /\ Save(proc[c], ClaimOf(c).next) /\ reply' = Swept(ClaimOf(c).next)
    /\ Made(c, Opened(digest[c])) /\ pc' = [pc EXCEPT ![c] = "verdict"]
    /\ UNCHANGED <<ledger, follows>>

Joined(c) ==
    /\ ledger[proc[c]] /\ ClaimOf(c).says \in {"replay", "interrupted"}
    /\ Made(c, Closed(digest[c], IF ClaimOf(c).says = "replay" THEN reply[id[c]] ELSE "interrupted"))
    /\ pc' = [pc EXCEPT ![c] = "wait"]
    /\ follows' = [follows EXCEPT ![c] = c]
    /\ UNCHANGED storage

LEMMA Claims ==
    ASSUME TypeOK, NEW c \in Call, ClaimInvocation(c)
    PROVE  /\ MayClaim(c)
           /\ UNCHANGED <<processes, proc, id, digest, outcome, effects>>
           /\ Refused(c) \/ Unrecorded(c) \/ Recorded(c) \/ Joined(c)
<1>0. MayClaim(c) /\ UNCHANGED <<processes, proc, id, digest, outcome, effects>>
  BY DEF ClaimInvocation
<1>1. follows \in [Call -> Call] /\ pc \in [Call -> UnderWay \cup {"new", "check", "dropped", "end"}]
  BY DEF TypeOK
<1>2. follows' = [follows EXCEPT ![c] = IF pc'[c] = "wait" THEN c ELSE follows[c]]
  BY DEF ClaimInvocation
<1>3. pc'[c] # "wait" => UNCHANGED follows
  BY <1>1, <1>2
<1>4. ASSUME NEW r \in Replies \ Final, RejectClaim(c, r)
      PROVE  Refused(c)
  BY <1>1, <1>3, <1>4 DEF RejectClaim, Refused, Tell
<1>5. {"full", "conflict", "error"} \subseteq Replies \ Final
  BY DEF Replies, Final
<1>6. ASSUME ~Full(c), ~ledger[proc[c]], MakeReceipt(c, Opened(digest[c])), Goto(c, "verdict"), UNCHANGED storage
      PROVE  Unrecorded(c)
  BY <1>6, <1>1, <1>3 DEF Unrecorded, Made, MakeReceipt, Goto
<1>7. ASSUME ~Full(c), ledger[proc[c]], ClaimOf(c).says = "execute",
             Save(proc[c], ClaimOf(c).next), reply' = Swept(ClaimOf(c).next),
             MakeReceipt(c, Opened(digest[c])), Goto(c, "verdict"), UNCHANGED ledger
      PROVE  Recorded(c)
  BY <1>7, <1>1, <1>3 DEF Recorded, Made, MakeReceipt, Goto
<1>8. ASSUME ~Full(c), ledger[proc[c]], ClaimOf(c).says \in {"replay", "interrupted"},
             MakeReceipt(c, Closed(digest[c], IF ClaimOf(c).says = "replay" THEN reply[id[c]] ELSE "interrupted")),
             Goto(c, "wait"), UNCHANGED storage
      PROVE  Joined(c)
  BY <1>8, <1>1, <1>2 DEF Joined, Made, MakeReceipt, Goto
<1>9. \/ \E r \in {"full", "conflict", "error"} : RejectClaim(c, r)
      \/ /\ ~Full(c) /\ ~ledger[proc[c]]
         /\ MakeReceipt(c, Opened(digest[c])) /\ Goto(c, "verdict") /\ UNCHANGED storage
      \/ /\ ~Full(c) /\ ledger[proc[c]] /\ ClaimOf(c).says = "execute"
         /\ Save(proc[c], ClaimOf(c).next) /\ reply' = Swept(ClaimOf(c).next)
         /\ MakeReceipt(c, Opened(digest[c])) /\ Goto(c, "verdict") /\ UNCHANGED ledger
      \/ /\ ~Full(c) /\ ledger[proc[c]] /\ ClaimOf(c).says \in {"replay", "interrupted"}
         /\ MakeReceipt(c, Closed(digest[c], IF ClaimOf(c).says = "replay" THEN reply[id[c]] ELSE "interrupted"))
         /\ Goto(c, "wait") /\ UNCHANGED storage
  BY DEF ClaimInvocation, ClaimOf
<1>10. QED
  BY <1>0, <1>4, <1>5, <1>6, <1>7, <1>8, <1>9

\* The two ways an execution is finished: the ledger has it now, or not.
Settled(c, r) ==
    /\ object' = [object EXCEPT ![c].done = TRUE, ![c].reply = r, ![c].retryable = r = "consent"]
    /\ Tell(c, r)

Stored(c) ==
    /\ ledger[proc[c]] /\ index[proc[c]][id[c]] # NoEntry /\ ~index[proc[c]][id[c]].complete
    /\ Finish(proc[c], id[c], outcome[c]) /\ Settled(c, outcome[c])
    /\ UNCHANGED ledger

Unstored(c) ==
    /\ \/ UNCHANGED reply
       \/ /\ ledger[proc[c]] /\ index[proc[c]][id[c]] # NoEntry /\ ~index[proc[c]][id[c]].complete
          /\ reply' = [reply EXCEPT ![id[c]] = outcome[c]]
    /\ \/ Settled(c, outcome[c])
            /\ (ledger[proc[c]] => index[proc[c]][id[c]] # NoEntry /\ index[proc[c]][id[c]].complete)
       \/ Settled(c, "unsaved")
    /\ UNCHANGED <<ledger, index, disk>>

LEMMA Finishes ==
    ASSUME NEW c \in Call, FinishInvocation(c)
    PROVE  /\ pc[c] = "finish"
           /\ UNCHANGED <<processes, receipt, proc, id, digest, follows, outcome, effects>>
           /\ Stored(c) \/ Unstored(c)
<1>1. pc[c] = "finish" /\ UNCHANGED <<processes, receipt, proc, id, digest, follows, outcome, effects>>
  BY DEF FinishInvocation
<1>2. \/ ~ledger[proc[c]] /\ Settled(c, outcome[c]) /\ UNCHANGED storage
      \/ ledger[proc[c]] /\ index[proc[c]][id[c]] = NoEntry /\ Settled(c, "unsaved") /\ UNCHANGED storage
      \/ /\ ledger[proc[c]] /\ index[proc[c]][id[c]] # NoEntry /\ index[proc[c]][id[c]].complete
         /\ Settled(c, outcome[c]) /\ UNCHANGED storage
      \/ /\ ledger[proc[c]] /\ index[proc[c]][id[c]] # NoEntry /\ ~index[proc[c]][id[c]].complete
         /\ \/ Finish(proc[c], id[c], outcome[c]) /\ Settled(c, outcome[c])
            \/ FinishFails(id[c], outcome[c]) /\ Settled(c, "unsaved")
         /\ UNCHANGED ledger
  BY Zenon DEF FinishInvocation, Settled
<1>3. Stored(c) \/ Unstored(c)
  BY <1>2 DEF Stored, Unstored, FinishFails, storage
<1>4. QED
  BY <1>1, <1>3

-----------------------------------------------------------------------------
(* The inductive invariant, whatever the flags.                            *)

\* The ledger: only a request for consent is complete and may be retried.
LedgerInv ==
    /\ \A i \in Id : disk[i].retryable => disk[i].complete
    /\ LedgerIsCurrent
    /\ CompleteHasReply

\* A process has a ledger while it is up, and no call before.
ProcessInv ==
    /\ \A p \in Proc : life[p] # "up" => ~ledger[p]
    /\ \A p \in Proc : life[p] = "unborn" => ~locked[p] /\ restart[p] = "none"
    /\ \A c \in Call : pc[c] # "new" => life[proc[c]] # "unborn"

Early == {"new", "check", "claim"}

Executing == {"verdict", "parked", "running", "finish"}

\* A call has a receipt object from its claim on, and an outcome at its end.
ObjectInv ==
    /\ \A c \in Call : pc[c] \in Early => object[c] = NoObject
    /\ \A c \in Call : pc[c] \in Executing => object[c] # NoObject
    /\ \A c \in Call : pc[c] = "finish" => outcome[c] \in Final
    /\ \A c \in Call : object[c].done => object[c].reply \in Final

Answering(l) == object[l].done \/ pc[l] \in Executing \cup {"dropped"}

\* A row in memory, and a call that waits, have a receipt of their process
\* that is answered or still on its way.
Receipted ==
    /\ \A p \in Proc, i \in Id : receipt[p][i] # Nobody =>
          /\ proc[receipt[p][i]] = p /\ id[receipt[p][i]] = i
          /\ Answering(receipt[p][i]) /\ pc[receipt[p][i]] \notin Early
    /\ \A c \in Call : pc[c] = "wait" =>
          /\ proc[follows[c]] = proc[c]
          /\ Answering(follows[c]) /\ pc[follows[c]] \notin Early

ReceiptInv == TypeInv /\ LedgerInv /\ ProcessInv /\ ObjectInv /\ Receipted

(* How the index on disk changes.                                          *)

LEMMA RecordedDisk ==
    ASSUME TypeInv, LedgerInv, NEW c \in Call, Recorded(c)
    PROVE  /\ disk' \in [Id -> Rowed] /\ index' = [index EXCEPT ![proc[c]] = disk'] /\ Bounded(disk')
           /\ disk'[id[c]].digest = digest[c] /\ ~disk'[id[c]].complete
           /\ ~disk'[id[c]].retryable /\ ~disk'[id[c]].lapsed
           /\ \A j \in Id \ {id[c]} : disk'[j] = disk[j] \/ (disk'[j] = NoEntry /\ ~Live(disk[j]))
           /\ ~Live(disk[id[c]]) \/ (Live(disk[id[c]]) /\ disk[id[c]].digest = digest[c] /\ disk[id[c]].retryable)
           /\ reply' = Swept(disk')
<1>1. proc[c] \in Proc /\ id[c] \in Id /\ digest[c] \in Digest /\ disk \in [Id -> Rowed]
  BY DEF TypeInv, TypeOK, Rowed
<1>2. index[proc[c]] = disk
  BY <1>1 DEF Recorded, LedgerInv, LedgerIsCurrent
<1>3. Claim(disk, id[c], digest[c]).says = "execute" /\ disk' = Claim(disk, id[c], digest[c]).next
      /\ index' = [index EXCEPT ![proc[c]] = disk'] /\ reply' = Swept(disk')
  BY <1>2 DEF Recorded, ClaimOf, Save
<1>4. disk[id[c]].retryable => disk[id[c]].complete
  BY <1>1 DEF LedgerInv
<1>5. Bounded(disk)
  BY DEF TypeInv
<1>6. /\ disk' \in [Id -> Rowed] /\ Bounded(disk')
      /\ disk'[id[c]].digest = digest[c] /\ ~disk'[id[c]].complete
      /\ ~disk'[id[c]].retryable /\ ~disk'[id[c]].lapsed
      /\ \A j \in Id \ {id[c]} : disk'[j] = disk[j] \/ (disk'[j] = NoEntry /\ ~Live(disk[j]))
  BY <1>1, <1>3, <1>4, <1>5, CapacityAssumption, ClaimSaves
<1>7. ~Live(disk[id[c]]) \/ (Live(disk[id[c]]) /\ disk[id[c]].digest = digest[c] /\ disk[id[c]].retryable)
  BY <1>1, <1>3, ClaimAnswers
<1>8. QED
  BY <1>3, <1>6, <1>7

LEMMA StoredDisk ==
    ASSUME TypeInv, LedgerInv, NEW c \in Call, Stored(c)
    PROVE  /\ disk' \in [Id -> Rowed] /\ index' = [index EXCEPT ![proc[c]] = disk'] /\ Bounded(disk')
           /\ disk[id[c]] # NoEntry /\ ~disk[id[c]].complete
           /\ disk'[id[c]].digest = disk[id[c]].digest /\ disk'[id[c]].lapsed = disk[id[c]].lapsed
           /\ disk'[id[c]].complete /\ disk'[id[c]] # NoEntry
           /\ disk'[id[c]].retryable <=> outcome[c] = "consent"
           /\ \A j \in Id \ {id[c]} : disk'[j] = disk[j]
           /\ reply' = [reply EXCEPT ![id[c]] = outcome[c]]
<1>1. proc[c] \in Proc /\ id[c] \in Id /\ disk \in [Id -> Rowed]
  BY DEF TypeInv, TypeOK, Rowed
<1>2. index[proc[c]] = disk
  BY <1>1 DEF Stored, LedgerInv, LedgerIsCurrent
<1>3. /\ disk' = [disk EXCEPT ![id[c]].complete = TRUE, ![id[c]].retryable = outcome[c] = "consent"]
      /\ index' = [index EXCEPT ![proc[c]] = disk'] /\ reply' = [reply EXCEPT ![id[c]] = outcome[c]]
  BY <1>2 DEF Stored, Finish, Save
<1>4. disk[id[c]] # NoEntry /\ ~disk[id[c]].complete
  BY <1>2 DEF Stored
<1> DEFINE b == (outcome[c] = "consent")
<1>5. b \in BOOLEAN
  OBVIOUS
<1> HIDE DEF b
<1>6. disk' = Complete(disk, id[c], b)
  BY <1>3 DEF b, Complete
<1>7. /\ disk' \in [Id -> Rowed]
      /\ disk'[id[c]].digest = disk[id[c]].digest /\ disk'[id[c]].lapsed = disk[id[c]].lapsed
      /\ disk'[id[c]].retryable = b /\ disk'[id[c]].complete /\ disk'[id[c]] # NoEntry
      /\ \A j \in Id \ {id[c]} : disk'[j] = disk[j]
  BY <1>1, <1>4, <1>5, <1>6, Completed
<1>8. Bounded(disk')
  <2>1. \A i \in Id : disk'[i] = NoEntry <=> disk[i] = NoEntry
    BY <1>4, <1>7
  <2>2. QED
    BY <2>1, SameEntries DEF TypeInv
<1>9. QED
  BY <1>3, <1>4, <1>7, <1>8 DEF b

LEMMA LapsedDisk ==
    ASSUME TypeInv, NEW i \in Id, Lapse(i)
    PROVE  /\ disk' \in [Id -> Rowed] /\ index' \in [Proc -> [Id -> Rowed]] /\ Bounded(disk')
           /\ \A p \in Proc : index[p] = disk => index'[p] = disk'
           /\ disk[i] # NoEntry /\ disk'[i] # NoEntry
           /\ disk'[i].digest = disk[i].digest /\ disk'[i].complete = disk[i].complete
           /\ disk'[i].retryable = disk[i].retryable /\ disk'[i].lapsed
           /\ \A j \in Id \ {i} : disk'[j] = disk[j]
<1>1. disk \in [Id -> Rowed] /\ index \in [Proc -> [Id -> Rowed]]
  BY DEF TypeInv, TypeOK, Rowed
<1>2. disk[i] # NoEntry /\ disk' = [disk EXCEPT ![i].lapsed = TRUE]
  BY DEF Lapse
<1>3. /\ disk' \in [Id -> Rowed] /\ disk'[i].digest = disk[i].digest
      /\ disk'[i].complete = disk[i].complete /\ disk'[i].retryable = disk[i].retryable
      /\ disk'[i].lapsed /\ disk'[i] # NoEntry
      /\ \A j \in Id \ {i} : disk'[j] = disk[j]
  BY <1>1, <1>2, Lapsed
<1>4. index' = [p \in Proc |-> IF index[p][i] = NoEntry THEN index[p] ELSE [index[p] EXCEPT ![i].lapsed = TRUE]]
  BY DEF Lapse
<1>5. \A p \in Proc : index'[p] \in [Id -> Rowed]
  <2>1. TAKE p \in Proc
  <2>2. index[p] \in [Id -> Rowed]
    BY <1>1
  <2>3. index[p][i] # NoEntry => [index[p] EXCEPT ![i].lapsed = TRUE] \in [Id -> Rowed]
    BY <2>2, Lapsed
  <2>4. QED
    BY <1>4, <2>2, <2>3
<1>6. index' \in [Proc -> [Id -> Rowed]]
  BY <1>4, <1>5
<1>7. \A p \in Proc : index[p] = disk => index'[p] = disk'
  BY <1>2, <1>4
<1>8. Bounded(disk')
  <2>1. \A j \in Id : disk'[j] = NoEntry <=> disk[j] = NoEntry
    BY <1>2, <1>3
  <2>2. QED
    BY <2>1, SameEntries DEF TypeInv
<1>9. QED
  BY <1>2, <1>3, <1>6, <1>7, <1>8

-----------------------------------------------------------------------------
(* Types and capacities.                                                   *)

\* The receipt objects of a claim and of a finish.
LEMMA OpenedObject ==
    ASSUME NEW d \in Digest
    PROVE  /\ Opened(d) \in Object /\ Opened(d).digest = d /\ Opened(d).reply = "none"
           /\ ~Opened(d).done /\ ~Opened(d).retryable /\ ~Opened(d).lapsed
  BY DEF Opened, NoObject, Object

LEMMA ClosedObject ==
    ASSUME NEW d \in Digest, NEW r \in Final \cup {"none"}
    PROVE  /\ Closed(d, r) \in Object /\ Closed(d, r).digest = d /\ Closed(d, r).reply = r
           /\ Closed(d, r).done /\ ~Closed(d, r).retryable /\ ~Closed(d, r).lapsed
<1> DEFINE o == [[Opened(d) EXCEPT !.done = TRUE] EXCEPT !.reply = r]
<1>1. Closed(d, r) = o
  BY DEF Closed
<1>2. /\ o \in Object /\ o.digest = d /\ o.reply = r
      /\ o.done /\ ~o.retryable /\ ~o.lapsed
  BY DEF Opened, NoObject, Object
<1> HIDE DEF o
<1>3. QED
  BY <1>1, <1>2

LEMMA SettledObject ==
    ASSUME TypeOK, NEW c \in Call, NEW r \in Final \cup {"none"}, Settled(c, r), object[c] # NoObject
    PROVE  /\ object' \in [Call -> Object \cup {NoObject}]
           /\ object'[c].digest = object[c].digest /\ object'[c].lapsed = object[c].lapsed
           /\ object'[c].done /\ object'[c].reply = r
           /\ object'[c].retryable <=> r = "consent"
           /\ \A l \in Call \ {c} : object'[l] = object[l]
<1> DEFINE b == (r = "consent")
<1>1. b \in BOOLEAN
  OBVIOUS
<1>2. object' = [object EXCEPT ![c].done = TRUE, ![c].reply = r, ![c].retryable = b]
  BY DEF Settled
<1> HIDE DEF b
<1> DEFINE o == [[[object[c] EXCEPT !.done = TRUE] EXCEPT !.reply = r] EXCEPT !.retryable = b]
<1>3. object' = [object EXCEPT ![c] = o]
  BY <1>2
<1>4. object[c] \in Object
  BY DEF TypeOK
<1>5. /\ o \in Object /\ o.digest = object[c].digest /\ o.lapsed = object[c].lapsed
      /\ o.done = TRUE /\ o.reply = r /\ o.retryable = b
  BY <1>1, <1>4 DEF Object
<1>6. object \in [Call -> Object \cup {NoObject}]
  BY DEF TypeOK
<1> HIDE DEF o
<1>7. /\ object' \in [Call -> Object \cup {NoObject}] /\ object'[c] = o
      /\ \A l \in Call \ {c} : object'[l] = object[l]
  BY <1>3, <1>5, <1>6
<1>8. QED
  BY <1>5, <1>7 DEF b

LEMMA WalkType ==
    ASSUME TypeInv, NEW c \in Call, NEW to, Walk(c, to)
    PROVE  TypeInv'
<1>1. /\ pc \in [Call -> UnderWay \cup {"new", "check", "dropped", "end"}] /\ follows \in [Call -> Call]
      /\ outcome \in [Call -> Final \cup {"none"}] /\ told \in [Call -> Replies \cup {"none"}]
  BY DEF TypeInv, TypeOK
<1>2. to \in UnderWay \cup {"new", "check", "dropped", "end"}
  BY DEF Walk, Ways, UnderWay
<1>3. pc' \in [Call -> UnderWay \cup {"new", "check", "dropped", "end"}]
  BY <1>1, <1>2 DEF Walk
<1>4. outcome' \in [Call -> Final \cup {"none"}]
  BY <1>1 DEF Walk, Outcome
<1>5. follows' \in [Call -> Call]
  BY <1>1 DEF Walk
<1>6. told' \in [Call -> Replies \cup {"none"}]
  BY <1>1 DEF Walk
<1>7. UNCHANGED <<processes, storage, receipts, proc, id, digest, effects>>
  BY DEF Walk
<1>8. TypeOK'
  BY <1>3, <1>4, <1>5, <1>6, <1>7 DEF TypeInv, TypeOK, processes, storage, receipts
<1>9. QED
  BY <1>7, <1>8 DEF TypeInv, storage, receipts, Bounded, BoundedRow, Entries, Taken

LEMMA LaunchType ==
    ASSUME TypeInv, NEW c \in Call, LaunchStep(c)
    PROVE  TypeInv'
<1>1. /\ pc' = [pc EXCEPT ![c] = "running"] /\ effects' = [effects EXCEPT ![id[c]] = @ + 1]
      /\ UNCHANGED <<processes, storage, receipts, proc, id, digest, follows, outcome, told>>
  BY DEF LaunchStep, Proceed, Approve, Launch, Goto
<1>2. effects \in [Id -> Nat] /\ id[c] \in Id /\ pc \in [Call -> UnderWay \cup {"new", "check", "dropped", "end"}]
  BY DEF TypeInv, TypeOK
<1>3. effects' \in [Id -> Nat]
  BY <1>1, <1>2
<1>4. pc' \in [Call -> UnderWay \cup {"new", "check", "dropped", "end"}]
  BY <1>1, <1>2 DEF UnderWay
<1>5. TypeOK'
  BY <1>1, <1>3, <1>4 DEF TypeInv, TypeOK, processes, storage, receipts
<1>6. QED
  BY <1>1, <1>5 DEF TypeInv, storage, receipts, Bounded, BoundedRow, Entries, Taken

\* The parts of TypeOK that neither a claim nor a finish touches.
LEMMA StillTyped ==
    ASSUME TypeOK, UNCHANGED <<processes, proc, id, digest, outcome, effects, ledger>>,
           index' \in [Proc -> [Id -> Rowed]], disk' \in [Id -> Rowed], reply' \in [Id -> Final \cup {"none"}],
           receipt' \in [Proc -> [Id -> Call \cup {Nobody}]], object' \in [Call -> Object \cup {NoObject}],
           pc' \in [Call -> UnderWay \cup {"new", "check", "dropped", "end"}], follows' \in [Call -> Call],
           told' \in [Call -> Replies \cup {"none"}],
           Bounded(disk'), \A p \in Proc : BoundedRow(receipt'[p])
    PROVE  TypeInv'
<1>1. /\ Cardinality(Entries(disk')) <= Capacity
      /\ \A p \in Proc : Cardinality({i \in Id : receipt'[p][i] # Nobody}) <= Capacity
  BY DEF Bounded, BoundedRow, Taken
<1>2. TypeOK'
  BY <1>1 DEF TypeOK, processes, Rowed
<1>3. QED
  BY <1>2 DEF TypeInv

\* The index when one of its copies is saved.
LEMMA SavedIndex ==
    ASSUME TypeOK, NEW p \in Proc, disk' \in [Id -> Rowed], index' = [index EXCEPT ![p] = disk']
    PROVE  index' \in [Proc -> [Id -> Rowed]]
  BY DEF TypeOK, Rowed

LEMMA ClaimType ==
    ASSUME TypeInv, LedgerInv, NEW c \in Call, ClaimInvocation(c)
    PROVE  TypeInv'
<1>1. /\ TypeOK /\ proc[c] \in Proc /\ id[c] \in Id /\ digest[c] \in Digest
      /\ Bounded(disk) /\ \A p \in Proc : BoundedRow(receipt[p])
      /\ index \in [Proc -> [Id -> Rowed]] /\ disk \in [Id -> Rowed] /\ reply \in [Id -> Final \cup {"none"}]
      /\ receipt \in [Proc -> [Id -> Call \cup {Nobody}]] /\ object \in [Call -> Object \cup {NoObject}]
      /\ pc \in [Call -> UnderWay \cup {"new", "check", "dropped", "end"}] /\ follows \in [Call -> Call]
      /\ told \in [Call -> Replies \cup {"none"}]
  BY DEF TypeInv, TypeOK, Rowed
<1>2. /\ UNCHANGED <<processes, proc, id, digest, outcome, effects>>
      /\ Refused(c) \/ Unrecorded(c) \/ Recorded(c) \/ Joined(c)
  BY <1>1, Claims
<1>3. ASSUME NEW o \in Object, Made(c, o)
      PROVE  /\ receipt' \in [Proc -> [Id -> Call \cup {Nobody}]] /\ \A p \in Proc : BoundedRow(receipt'[p])
             /\ object' \in [Call -> Object \cup {NoObject}] /\ told' = told
  <2> DEFINE row == [Rows(c) EXCEPT ![id[c]] = c]
  <2>1. receipt' = [receipt EXCEPT ![proc[c]] = row]
    BY <1>3 DEF Made
  <2>2. row \in [Id -> Call \cup {Nobody}] /\ BoundedRow(row)
    BY <1>3, RowMade DEF Made
  <2> HIDE DEF row
  <2>3. receipt' \in [Proc -> [Id -> Call \cup {Nobody}]]
    BY <1>1, <2>1, <2>2
  <2>4. \A p \in Proc : BoundedRow(receipt'[p])
    BY <1>1, <2>1, <2>2
  <2>5. object' \in [Call -> Object \cup {NoObject}] /\ told' = told
    BY <1>1, <1>3 DEF Made
  <2>6. QED
    BY <2>3, <2>4, <2>5
<1>4. CASE Refused(c)
  <2>1. /\ receipt' = [receipt EXCEPT ![proc[c]] = Rows(c)] /\ UNCHANGED <<storage, object, follows>>
        /\ \E r \in Replies \ Final : Tell(c, r)
    BY <1>4 DEF Refused
  <2>2. Rows(c) \in [Id -> Call \cup {Nobody}] /\ BoundedRow(Rows(c))
    BY RowsKept
  <2>3. receipt' \in [Proc -> [Id -> Call \cup {Nobody}]]
    BY <1>1, <2>1, <2>2
  <2>4. \A p \in Proc : BoundedRow(receipt'[p])
    BY <1>1, <2>1, <2>2
  <2>5. pc' \in [Call -> UnderWay \cup {"new", "check", "dropped", "end"}] /\ told' \in [Call -> Replies \cup {"none"}]
    BY <1>1, <2>1 DEF Tell
  <2>6. QED
    BY <1>1, <1>2, <2>1, <2>3, <2>4, <2>5, StillTyped DEF storage
<1>5. CASE Unrecorded(c)
  <2>1. Made(c, Opened(digest[c])) /\ pc' = [pc EXCEPT ![c] = "verdict"] /\ UNCHANGED <<storage, follows>>
    BY <1>5 DEF Unrecorded
  <2>2. pc' \in [Call -> UnderWay \cup {"new", "check", "dropped", "end"}]
    BY <1>1, <2>1 DEF UnderWay
  <2>3. QED
    BY <1>1, <1>2, <1>3, <2>1, <2>2, OpenedObject, StillTyped DEF storage
<1>6. CASE Recorded(c)
  <2>1. Made(c, Opened(digest[c])) /\ pc' = [pc EXCEPT ![c] = "verdict"] /\ UNCHANGED <<ledger, follows>>
    BY <1>6 DEF Recorded
  <2>2. pc' \in [Call -> UnderWay \cup {"new", "check", "dropped", "end"}]
    BY <1>1, <2>1 DEF UnderWay
  <2>3. /\ disk' \in [Id -> Rowed] /\ Bounded(disk') /\ reply' = Swept(disk')
        /\ index' = [index EXCEPT ![proc[c]] = disk']
    BY <1>6, RecordedDisk
  <2>4. reply' \in [Id -> Final \cup {"none"}]
    BY <1>1, <2>3 DEF Swept
  <2>5. index' \in [Proc -> [Id -> Rowed]]
    BY <1>1, <2>3, SavedIndex
  <2>6. QED
    BY <1>1, <1>2, <1>3, <2>1, <2>2, <2>3, <2>4, <2>5, OpenedObject, StillTyped
<1>7. CASE Joined(c)
  <2> DEFINE r == IF ClaimOf(c).says = "replay" THEN reply[id[c]] ELSE "interrupted"
  <2>1. /\ Made(c, Closed(digest[c], r)) /\ pc' = [pc EXCEPT ![c] = "wait"]
        /\ follows' = [follows EXCEPT ![c] = c] /\ UNCHANGED storage
    BY <1>7 DEF Joined
  <2>2. r \in Final \cup {"none"}
    BY <1>1 DEF Final
  <2> HIDE DEF r
  <2>3. Closed(digest[c], r) \in Object
    BY <1>1, <2>2, ClosedObject
  <2>4. pc' \in [Call -> UnderWay \cup {"new", "check", "dropped", "end"}] /\ follows' \in [Call -> Call]
    BY <1>1, <2>1 DEF UnderWay
  <2>5. QED
    BY <1>1, <1>2, <1>3, <2>1, <2>3, <2>4, StillTyped DEF storage
<1>8. QED
  BY <1>2, <1>4, <1>5, <1>6, <1>7

LEMMA FinishType ==
    ASSUME TypeInv, LedgerInv, ObjectInv, NEW c \in Call, FinishInvocation(c)
    PROVE  TypeInv'
<1>1. /\ TypeOK /\ proc[c] \in Proc /\ id[c] \in Id
      /\ Bounded(disk) /\ \A p \in Proc : BoundedRow(receipt[p])
      /\ index \in [Proc -> [Id -> Rowed]] /\ disk \in [Id -> Rowed] /\ reply \in [Id -> Final \cup {"none"}]
      /\ receipt \in [Proc -> [Id -> Call \cup {Nobody}]]
      /\ pc \in [Call -> UnderWay \cup {"new", "check", "dropped", "end"}] /\ follows \in [Call -> Call]
      /\ told \in [Call -> Replies \cup {"none"}]
  BY DEF TypeInv, TypeOK, Rowed
<1>2. /\ pc[c] = "finish" /\ UNCHANGED <<processes, receipt, proc, id, digest, follows, outcome, effects>>
      /\ Stored(c) \/ Unstored(c)
  BY Finishes
<1>3. outcome[c] \in Final /\ "unsaved" \in Final /\ object[c] # NoObject
  BY <1>2 DEF ObjectInv, Final, Executing
<1>4. ASSUME NEW r \in Final, Settled(c, r)
      PROVE  /\ object' \in [Call -> Object \cup {NoObject}]
             /\ pc' \in [Call -> UnderWay \cup {"new", "check", "dropped", "end"}]
             /\ told' \in [Call -> Replies \cup {"none"}]
  <2>1. object' \in [Call -> Object \cup {NoObject}]
    BY <1>1, <1>3, <1>4, SettledObject
  <2>2. Tell(c, r)
    BY <1>4 DEF Settled
  <2>3. QED
    BY <1>1, <2>1, <2>2, FinalReplies DEF Tell
<1>5. CASE Stored(c)
  <2>1. /\ disk' \in [Id -> Rowed] /\ index' = [index EXCEPT ![proc[c]] = disk'] /\ Bounded(disk')
        /\ reply' = [reply EXCEPT ![id[c]] = outcome[c]]
    BY <1>5, StoredDisk
  <2>2. reply' \in [Id -> Final \cup {"none"}]
    BY <1>1, <1>3, <2>1
  <2>3. index' \in [Proc -> [Id -> Rowed]]
    BY <1>1, <2>1, SavedIndex
  <2>4. Settled(c, outcome[c]) /\ UNCHANGED ledger
    BY <1>5 DEF Stored
  <2>5. QED
    BY <1>1, <1>2, <1>3, <1>4, <2>1, <2>2, <2>3, <2>4, StillTyped
<1>6. CASE Unstored(c)
  <2>1. reply' \in [Id -> Final \cup {"none"}]
    BY <1>1, <1>3, <1>6 DEF Unstored
  <2>2. (Settled(c, outcome[c]) \/ Settled(c, "unsaved")) /\ UNCHANGED <<ledger, index, disk>>
    BY <1>6 DEF Unstored
  <2>3. QED
    BY <1>1, <1>2, <1>3, <1>4, <2>1, <2>2, StillTyped
<1>7. QED
  BY <1>2, <1>5, <1>6

\* A step that leaves the receipts and the index on disk alone.
LEMMA SameBounds ==
    ASSUME TypeInv, TypeOK', UNCHANGED <<disk, receipt>>
    PROVE  TypeInv'
  BY DEF TypeInv, Bounded, BoundedRow, Entries, Taken

LEMMA ArriveType ==
    ASSUME TypeInv, NEW c \in Call, NEW p \in Proc, NEW i \in Id, NEW d \in Digest, Arrive(c, p, i, d)
    PROVE  TypeInv'
<1>1. TypeOK'
  BY DEF TypeInv, TypeOK, Arrive, Goto, processes, storage, receipts
<1>2. QED
  BY <1>1, SameBounds DEF Arrive, storage, receipts

LEMMA ProcessType ==
    ASSUME TypeInv, NEW p \in Proc, ProcessStep(p)
    PROVE  TypeInv'
<1>1. UNCHANGED <<disk, receipt>>
  BY DEF ProcessStep, Start, Die, BeginRestart, LockStorage, Release, Recover, storage, receipts
<1>2. CASE Start(p)
  <2>1. UNCHANGED <<locked, restart, disk, reply, receipts, calls, effects>>
    BY <1>2 DEF Start
  <2>2. /\ life' \in [Proc -> {"unborn", "up", "down"}] /\ lock' \in Proc \cup {Nobody}
        /\ ledger' \in [Proc -> BOOLEAN]
    BY <1>2 DEF TypeInv, TypeOK, Start, OpenStorage
  <2>3. index' \in [Proc -> [Id -> Entry \cup {NoEntry}]]
    BY <1>2 DEF TypeInv, TypeOK, Start, OpenStorage
  <2>4. TypeOK'
    BY <2>1, <2>2, <2>3 DEF TypeInv, TypeOK, receipts, calls
  <2>5. QED
    BY <1>1, <2>4, SameBounds
<1>3. CASE Die(p) \/ Release(p)
  BY <1>1, <1>3 DEF TypeInv, TypeOK, Die, Release, Dispossess, receipts, calls
<1>4. CASE BeginRestart(p) \/ LockStorage(p)
  BY <1>1, <1>4 DEF TypeInv, TypeOK, BeginRestart, LockStorage, storage, receipts, calls
<1>5. CASE Recover(p)
  <2>1. UNCHANGED <<life, disk, reply, receipts, calls, effects>>
    BY <1>5 DEF Recover
  <2>2. /\ locked' \in [Proc -> BOOLEAN] /\ restart' \in [Proc -> {"none", "begun", "locking", "released"}]
        /\ ledger' \in [Proc -> BOOLEAN] /\ lock' \in Proc \cup {Nobody}
    BY <1>5 DEF TypeInv, TypeOK, Recover, OpenStorage
  <2>3. index' \in [Proc -> [Id -> Entry \cup {NoEntry}]]
    BY <1>5 DEF TypeInv, TypeOK, Recover, OpenStorage
  <2>4. TypeOK'
    BY <2>1, <2>2, <2>3 DEF TypeInv, TypeOK, receipts, calls
  <2>5. QED
    BY <1>1, <2>4, SameBounds
<1>6. QED
  BY <1>1, <1>2, <1>3, <1>4, <1>5, SameBounds DEF ProcessStep

LEMMA LapseType ==
    ASSUME TypeInv, NEW i \in Id, Lapse(i)
    PROVE  TypeInv'
<1>1. /\ disk' \in [Id -> Rowed] /\ index' \in [Proc -> [Id -> Rowed]] /\ Bounded(disk')
  BY LapsedDisk
<1>2. effects' \in [Id -> Nat] /\ UNCHANGED <<processes, ledger, reply, receipts, calls>>
  BY DEF Lapse, TypeInv, TypeOK
<1>3. Cardinality(Entries(disk')) <= Capacity
  BY <1>1 DEF Bounded
<1>4. TypeOK'
  BY <1>1, <1>2, <1>3 DEF TypeInv, TypeOK, Rowed, processes, receipts, calls
<1>5. QED
  BY <1>1, <1>2, <1>4 DEF TypeInv, receipts, BoundedRow, Taken

LEMMA LapseObjectFacts ==
    ASSUME TypeOK, NEW c \in Call, LapseObject(c)
    PROVE  /\ object' \in [Call -> Object \cup {NoObject}] /\ object[c] # NoObject
           /\ object'[c].done = object[c].done /\ object'[c].reply = object[c].reply
           /\ object'[c].digest = object[c].digest /\ object'[c].retryable = object[c].retryable
           /\ object'[c].lapsed /\ ~object[c].lapsed
           /\ \A l \in Call \ {c} : object'[l] = object[l]
<1> DEFINE o == [object[c] EXCEPT !.lapsed = TRUE]
<1>1. object[c] \in Object /\ object \in [Call -> Object \cup {NoObject}]
  BY DEF TypeOK, LapseObject
<1>2. object' = [object EXCEPT ![c] = o]
  BY DEF LapseObject
<1>3. /\ o \in Object /\ o.done = object[c].done /\ o.reply = object[c].reply
      /\ o.digest = object[c].digest /\ o.retryable = object[c].retryable /\ o.lapsed = TRUE
  BY <1>1 DEF Object
<1> HIDE DEF o
<1>4. QED
  BY <1>1, <1>2, <1>3 DEF LapseObject

LEMMA LapseObjectType ==
    ASSUME TypeInv, NEW c \in Call, LapseObject(c)
    PROVE  TypeInv'
<1>1. object' \in [Call -> Object \cup {NoObject}]
  BY LapseObjectFacts DEF TypeInv
<1>2. effects' \in [Id -> Nat] /\ UNCHANGED <<processes, storage, receipt, calls>>
  BY DEF LapseObject, TypeInv, TypeOK
<1>3. TypeOK'
  BY <1>1, <1>2 DEF TypeInv, TypeOK, processes, storage, calls
<1>4. QED
  BY <1>2, <1>3, SameBounds DEF storage

LEMMA StutterType ==
    ASSUME TypeInv, UNCHANGED vars
    PROVE  TypeInv'
  BY DEF TypeInv, TypeOK, vars, processes, storage, receipts, calls, Bounded, BoundedRow, Entries, Taken

-----------------------------------------------------------------------------
(* The ledger.                                                             *)

LEMMA SameLedger ==
    ASSUME LedgerInv, UNCHANGED <<lock, ledger, index, disk, reply>>
    PROVE  LedgerInv'
  BY DEF LedgerInv, LedgerIsCurrent, CompleteHasReply

\* Only the process with the lock has a ledger; the others' copies do not count.
LEMMA SavedLedger ==
    ASSUME TypeOK, LedgerIsCurrent, NEW p \in Proc, ledger[p], UNCHANGED <<lock, ledger>>,
           index' = [index EXCEPT ![p] = disk']
    PROVE  LedgerIsCurrent'
  BY DEF TypeOK, LedgerIsCurrent

LEMMA CallLedger ==
    ASSUME TypeInv, LedgerInv, ObjectInv, NEW c \in Call, CallStep(c)
    PROVE  LedgerInv'
<1>0. proc[c] \in Proc /\ id[c] \in Id /\ TypeOK /\ LedgerIsCurrent /\ reply \in [Id -> Final \cup {"none"}]
  BY DEF TypeInv, TypeOK, LedgerInv
<1>1. CASE WalkStep(c)
  BY <1>0, <1>1, Walks, SameLedger DEF Walk, processes, storage
<1>2. CASE LaunchStep(c)
  BY <1>2, SameLedger DEF LaunchStep, Proceed, Approve, processes, storage
<1>3. CASE ClaimInvocation(c)
  <2>1. UNCHANGED lock /\ (Refused(c) \/ Unrecorded(c) \/ Recorded(c) \/ Joined(c))
    BY <1>0, <1>3, Claims DEF processes
  <2>2. CASE Refused(c) \/ Unrecorded(c) \/ Joined(c)
    BY <2>1, <2>2, SameLedger DEF Refused, Unrecorded, Joined, storage
  <2>3. CASE Recorded(c)
    <3>1. /\ disk' \in [Id -> Rowed] /\ index' = [index EXCEPT ![proc[c]] = disk'] /\ reply' = Swept(disk')
          /\ ~disk'[id[c]].complete /\ ~disk'[id[c]].retryable
          /\ \A j \in Id \ {id[c]} : disk'[j] = disk[j] \/ (disk'[j] = NoEntry /\ ~Live(disk[j]))
      BY <2>3, RecordedDisk
    <3>2. LedgerIsCurrent'
      BY <1>0, <2>1, <2>3, <3>1, SavedLedger DEF Recorded
    <3>3. ASSUME NEW i \in Id, disk'[i].complete \/ disk'[i].retryable
          PROVE  i # id[c] /\ disk'[i] = disk[i] /\ disk'[i] # NoEntry
      <4>1. i # id[c]
        BY <3>1, <3>3
      <4>2. disk'[i] # NoEntry
        BY <3>3 DEF NoEntry
      <4>3. QED
        BY <4>1, <4>2, <3>1
    <3>4. \A i \in Id : disk'[i].retryable => disk'[i].complete
      BY <3>3 DEF LedgerInv
    <3>5. CompleteHasReply'
      <4>1. \A i \in Id : disk'[i] # NoEntry => reply'[i] = reply[i]
        BY <3>1 DEF Swept
      <4>2. QED
        BY <3>3, <4>1 DEF LedgerInv, CompleteHasReply
    <3>6. QED
      BY <3>2, <3>4, <3>5 DEF LedgerInv
  <2>4. QED
    BY <2>1, <2>2, <2>3
<1>4. CASE FinishInvocation(c)
  <2>1. /\ pc[c] = "finish" /\ UNCHANGED lock /\ (Stored(c) \/ Unstored(c))
    BY <1>4, Finishes DEF processes
  <2>2. outcome[c] \in Final
    BY <2>1 DEF ObjectInv
  <2>3. CASE Stored(c)
    <3>1. /\ disk' \in [Id -> Rowed] /\ index' = [index EXCEPT ![proc[c]] = disk']
          /\ reply' = [reply EXCEPT ![id[c]] = outcome[c]]
          /\ disk'[id[c]].complete /\ (disk'[id[c]].retryable <=> outcome[c] = "consent")
          /\ \A j \in Id \ {id[c]} : disk'[j] = disk[j]
      BY <2>3, StoredDisk
    <3>2. LedgerIsCurrent'
      BY <1>0, <2>1, <2>3, <3>1, SavedLedger DEF Stored
    <3>3. reply'[id[c]] = outcome[c] /\ \A j \in Id \ {id[c]} : reply'[j] = reply[j]
      BY <1>0, <3>1
    <3>4. \A i \in Id : disk'[i].retryable => disk'[i].complete
      BY <3>1 DEF LedgerInv
    <3>5. CompleteHasReply'
      <4>1. SUFFICES ASSUME NEW i \in Id, disk'[i].complete
                     PROVE  reply'[i] # "none" /\ (disk'[i].retryable <=> reply'[i] = "consent")
        BY DEF CompleteHasReply
      <4>2. CASE i = id[c]
        BY <4>2, <2>2, <3>1, <3>3 DEF Final
      <4>3. CASE i # id[c]
        BY <4>1, <4>3, <3>1, <3>3 DEF LedgerInv, CompleteHasReply
      <4>4. QED
        BY <4>2, <4>3
    <3>6. QED
      BY <3>2, <3>4, <3>5 DEF LedgerInv
  <2>4. CASE Unstored(c)
    <3>1. UNCHANGED <<ledger, index, disk>>
      BY <2>4 DEF Unstored
    <3>2. LedgerIsCurrent'
      BY <2>1, <3>1 DEF LedgerInv, LedgerIsCurrent
    <3>3. \A i \in Id : disk[i].complete => reply'[i] = reply[i]
      <4>1. ledger[proc[c]] => index[proc[c]] = disk
        BY <1>0 DEF LedgerIsCurrent
      <4>2. QED
        BY <1>0, <2>4, <4>1 DEF Unstored
    <3>4. CompleteHasReply'
      BY <3>1, <3>3 DEF LedgerInv, CompleteHasReply
    <3>5. QED
      BY <3>1, <3>2, <3>4 DEF LedgerInv
  <2>5. QED
    BY <2>1, <2>3, <2>4
<1>5. QED
  BY <1>1, <1>2, <1>3, <1>4, CallSteps

LEMMA ProcessLedger ==
    ASSUME TypeInv, LedgerInv, NEW p \in Proc, ProcessStep(p)
    PROVE  LedgerInv'
<1>1. /\ lock \in Proc \cup {Nobody} /\ ledger \in [Proc -> BOOLEAN] /\ index \in [Proc -> [Id -> Entry \cup {NoEntry}]]
      /\ \A q \in Proc : ledger[q] => lock = q /\ index[q] = disk
  BY DEF TypeInv, TypeOK, LedgerInv, LedgerIsCurrent
<1>2. UNCHANGED <<disk, reply>>
  BY DEF ProcessStep, Start, Die, BeginRestart, LockStorage, Release, Recover, storage
<1>3. \/ UNCHANGED <<lock, ledger, index>>
      \/ OpenStorage(p)
      \/ Dispossess(p) /\ UNCHANGED index
      \/ lock = Nobody /\ UNCHANGED <<ledger, index>>
  BY DEF ProcessStep, Start, Die, BeginRestart, LockStorage, Release, Recover, storage
<1>4. LedgerIsCurrent'
  <2>1. CASE UNCHANGED <<lock, ledger, index>>
    BY <2>1, <1>1, <1>2 DEF LedgerIsCurrent
  <2>2. CASE OpenStorage(p)
    BY <2>2, <1>1, <1>2, NobodyAssumption DEF LedgerIsCurrent, OpenStorage
  <2>3. CASE Dispossess(p) /\ UNCHANGED index
    BY <2>3, <1>1, <1>2 DEF LedgerIsCurrent, Dispossess
  <2>4. CASE lock = Nobody /\ UNCHANGED <<ledger, index>>
    BY <2>4, <1>1, <1>2, NobodyAssumption DEF LedgerIsCurrent
  <2>5. QED
    BY <1>3, <2>1, <2>2, <2>3, <2>4
<1>5. QED
  BY <1>2, <1>4 DEF LedgerInv, CompleteHasReply

LEMMA LapseLedger ==
    ASSUME TypeInv, LedgerInv, NEW i \in Id, Lapse(i)
    PROVE  LedgerInv'
<1>1. /\ \A p \in Proc : index[p] = disk => index'[p] = disk'
      /\ disk'[i].complete = disk[i].complete /\ disk'[i].retryable = disk[i].retryable
      /\ \A j \in Id \ {i} : disk'[j] = disk[j]
  BY LapsedDisk
<1>2. UNCHANGED <<lock, ledger, reply>>
  BY DEF Lapse, processes
<1>3. LedgerIsCurrent'
  BY <1>1, <1>2 DEF LedgerInv, LedgerIsCurrent
<1>4. \A j \in Id : disk'[j].complete = disk[j].complete /\ disk'[j].retryable = disk[j].retryable
  BY <1>1
<1>5. \A j \in Id : disk'[j].retryable => disk'[j].complete
  BY <1>4 DEF LedgerInv
<1>6. CompleteHasReply'
  BY <1>2, <1>4 DEF LedgerInv, CompleteHasReply
<1>7. QED
  BY <1>3, <1>5, <1>6 DEF LedgerInv

-----------------------------------------------------------------------------
(* Processes, receipt objects and rows.                                    *)

\* What a call in a process never changes.
LEMMA CallFrame ==
    ASSUME TypeOK, NEW c \in Call, CallStep(c)
    PROVE  UNCHANGED <<life, lock, locked, restart, ledger, proc, id, digest>>
<1>1. CASE WalkStep(c)
  BY <1>1, Walks DEF Walk, processes, storage
<1>2. CASE LaunchStep(c)
  BY <1>2 DEF LaunchStep, Proceed, Approve, processes, storage
<1>3. CASE ClaimInvocation(c)
  BY <1>3, Claims DEF Refused, Unrecorded, Recorded, Joined, processes, storage
<1>4. CASE FinishInvocation(c)
  BY <1>4, Finishes DEF Stored, Unstored, processes
<1>5. QED
  BY <1>1, <1>2, <1>3, <1>4, CallSteps

\* A call moves itself only, never back.
LEMMA CallMoves ==
    ASSUME TypeOK, NEW c \in Call, CallStep(c)
    PROVE  \E to : /\ pc' = [pc EXCEPT ![c] = to] /\ pc[c] # "new" /\ to # "new"
                   /\ to \in Executing \cup {"dropped"} \/ pc[c] \notin Executing \cup {"dropped"} \/ FinishInvocation(c)
<1>0. pc[c] # "new"
  BY CallSteps DEF Alive
<1>1. CASE WalkStep(c)
  BY <1>0, <1>1, Walks DEF Walk, Ways, Executing
<1>2. CASE LaunchStep(c)
  BY <1>0, <1>2 DEF LaunchStep, Proceed, Approve, Launch, Goto, Executing
<1>3. CASE ClaimInvocation(c)
  <2>1. pc[c] = "claim"
    BY <1>3, Claims DEF MayClaim
  <2>2. QED
    BY <1>3, <2>1, Claims DEF Refused, Unrecorded, Recorded, Joined, Tell, Executing
<1>4. CASE FinishInvocation(c)
  BY <1>0, <1>4, Finishes DEF Stored, Unstored, Settled, Tell
<1>5. QED
  BY <1>1, <1>2, <1>3, <1>4, CallSteps

LEMMA CallProcess ==
    ASSUME TypeOK, ProcessInv, NEW c \in Call, CallStep(c)
    PROVE  ProcessInv'
<1>1. \A l \in Call : pc'[l] # "new" => pc[l] # "new"
  BY CallMoves DEF TypeOK
<1>2. QED
  BY <1>1, CallFrame DEF ProcessInv

LEMMA ProcessProcess ==
    ASSUME TypeOK, ProcessInv, NEW p \in Proc, ProcessStep(p)
    PROVE  ProcessInv'
<1>1. CASE Start(p)
  <2>1. /\ UNCHANGED <<locked, restart, pc, proc>>
        /\ \/ life' = [life EXCEPT ![p] = "up"] /\ ledger' = [ledger EXCEPT ![p] = TRUE]
           \/ life' = [life EXCEPT ![p] = "down"] /\ ledger' = ledger
    BY <1>1 DEF Start, OpenStorage, calls
  <2>2. \A q \in Proc \ {p} : life'[q] = life[q] /\ ledger'[q] = ledger[q]
    BY <2>1 DEF TypeOK
  <2>3. life'[p] = "up" \/ (life'[p] = "down" /\ ~ledger'[p])
    BY <1>1, <2>1 DEF TypeOK, ProcessInv, Start
  <2>4. QED
    BY <2>1, <2>2, <2>3 DEF TypeOK, ProcessInv
<1>2. CASE Die(p)
  BY <1>2 DEF TypeOK, ProcessInv, Die, Dispossess, calls
<1>3. CASE BeginRestart(p) \/ LockStorage(p)
  BY <1>3 DEF TypeOK, ProcessInv, BeginRestart, LockStorage, storage, calls
<1>4. CASE Release(p)
  BY <1>4 DEF TypeOK, ProcessInv, Release, Dispossess, calls
<1>5. CASE Recover(p)
  BY <1>5 DEF TypeOK, ProcessInv, Recover, OpenStorage, calls
<1>6. QED
  BY <1>1, <1>2, <1>3, <1>4, <1>5 DEF ProcessStep

\* After a step, l is answered or on its way.
WillAnswer(l) == (object'[l].done \/ pc'[l] \in Executing \cup {"dropped"}) /\ pc'[l] \notin Early

LEMMA ReceiptedNext ==
    ASSUME \A p \in Proc, i \in Id : receipt'[p][i] # Nobody =>
               proc'[receipt'[p][i]] = p /\ id'[receipt'[p][i]] = i /\ WillAnswer(receipt'[p][i]),
           \A c \in Call : pc'[c] = "wait" => proc'[follows'[c]] = proc'[c] /\ WillAnswer(follows'[c])
    PROVE  Receipted'
  BY DEF Receipted, Answering, WillAnswer

LEMMA SameObjects ==
    ASSUME ObjectInv, Receipted, UNCHANGED <<receipt, object, pc, proc, id, follows, outcome>>
    PROVE  ObjectInv' /\ Receipted'
  BY DEF ObjectInv, Receipted, Answering

\* Who has a receipt object: calls beyond their claim.
LEMMA WalkObjects ==
    ASSUME TypeInv, ObjectInv, Receipted, NEW c \in Call, NEW to, Walk(c, to)
    PROVE  ObjectInv' /\ Receipted'
<1>1. /\ pc' = [pc EXCEPT ![c] = to] /\ Ways(pc[c], to)
      /\ UNCHANGED <<receipt, object, proc, id>>
      /\ pc \in [Call -> UnderWay \cup {"new", "check", "dropped", "end"}]
      /\ outcome \in [Call -> Final \cup {"none"}] /\ follows \in [Call -> Call]
  BY DEF Walk, TypeInv, TypeOK, receipts
<1>2. /\ \A l \in Call \ {c} : pc'[l] = pc[l]
      /\ pc'[c] = to
  BY <1>1
<1>3. \A l \in Call : (pc[l] \notin Early => pc'[l] \notin Early) /\ (Answering(l) /\ pc[l] \notin Early => WillAnswer(l))
  BY <1>1, <1>2 DEF Early, Ways, Answering, Executing, WillAnswer
<1>4. ObjectInv'
  <2>1. \A l \in Call : pc'[l] \in Early => pc[l] \in Early
    BY <1>3
  <2>2. \A l \in Call : pc'[l] \in Executing => pc[l] \in Executing
    BY <1>1, <1>2 DEF Ways, Executing
  <2>3. \A l \in Call : pc'[l] = "finish" => outcome'[l] \in Final
    BY <1>1, <1>2 DEF Walk, Outcome, ObjectInv
  <2>4. QED
    BY <1>1, <2>1, <2>2, <2>3 DEF ObjectInv
<1>5. \A p \in Proc, i \in Id : receipt[p][i] # Nobody => receipt[p][i] \in Call
  BY DEF TypeInv, TypeOK
<1>6. \A p \in Proc, i \in Id : receipt[p][i] # Nobody =>
          proc[receipt[p][i]] = p /\ id[receipt[p][i]] = i /\ WillAnswer(receipt[p][i])
  BY <1>3, <1>5 DEF Receipted
<1>7. ASSUME NEW l \in Call, pc'[l] = "wait"
      PROVE  proc[follows'[l]] = proc[l] /\ WillAnswer(follows'[l])
  <2>1. CASE l = c
    <3>1. /\ Valid(Known(c)) /\ receipt[proc[c]][id[c]] \in Call
          /\ follows' = [follows EXCEPT ![c] = receipt[proc[c]][id[c]]]
      BY <1>2, <1>7, <2>1 DEF Walk
    <3>2. follows'[c] = receipt[proc[c]][id[c]] /\ proc[c] \in Proc /\ id[c] \in Id
      BY <1>1, <3>1 DEF TypeInv, TypeOK
    <3>3. QED
      BY <1>6, <2>1, <3>1, <3>2, NobodyAssumption
  <2>2. CASE l # c
    <3>1. pc[l] = "wait" /\ follows'[l] = follows[l] /\ follows[l] \in Call
      BY <1>1, <1>2, <1>7, <2>2 DEF Walk
    <3>2. QED
      BY <1>3, <3>1 DEF Receipted
  <2>3. QED
    BY <2>1, <2>2
<1>8. Receipted'
  BY <1>1, <1>6, <1>7, ReceiptedNext
<1>9. QED
  BY <1>4, <1>8

\* What a launch does, whoever decided it.
LEMMA LaunchFacts ==
    ASSUME NEW c \in Call, LaunchStep(c)
    PROVE  /\ pc[c] \in {"verdict", "parked"}
           /\ pc' = [pc EXCEPT ![c] = "running"] /\ effects' = [effects EXCEPT ![id[c]] = @ + 1]
           /\ UNCHANGED <<processes, storage, receipts, proc, id, digest, follows, outcome, told>>
           /\ pc[c] = "verdict" => MayLaunch(c)
           /\ pc[c] = "parked" => restart[proc[c]] = "none"
  BY DEF LaunchStep, Proceed, Approve, Launch, Goto

\* A step after which every receipt that will be answered still will.
LEMMA KeptRows ==
    ASSUME TypeOK, Receipted, UNCHANGED <<receipt, follows>>,
           \A l \in Call : Answering(l) /\ pc[l] \notin Early => WillAnswer(l) /\ proc'[l] = proc[l] /\ id'[l] = id[l],
           \A l \in Call : pc'[l] = "wait" => pc[l] = "wait" /\ proc'[l] = proc[l]
    PROVE  Receipted'
<1>1. /\ \A p \in Proc, i \in Id : receipt[p][i] # Nobody => receipt[p][i] \in Call
      /\ \A l \in Call : follows[l] \in Call
  BY DEF TypeOK
<1>2. \A p \in Proc, i \in Id : receipt'[p][i] # Nobody =>
          proc'[receipt'[p][i]] = p /\ id'[receipt'[p][i]] = i /\ WillAnswer(receipt'[p][i])
  BY <1>1 DEF Receipted
<1>3. \A l \in Call : pc'[l] = "wait" => proc'[follows'[l]] = proc'[l] /\ WillAnswer(follows'[l])
  <2>1. SUFFICES ASSUME NEW l \in Call, pc'[l] = "wait"
                 PROVE  proc'[follows[l]] = proc'[l] /\ WillAnswer(follows[l])
    OBVIOUS
  <2>2. pc[l] = "wait" /\ follows[l] \in Call
    BY <1>1, <2>1
  <2>3. proc[follows[l]] = proc[l] /\ Answering(follows[l]) /\ pc[follows[l]] \notin Early
    BY <2>2 DEF Receipted
  <2>4. QED
    BY <2>1, <2>2, <2>3
<1>4. QED
  BY <1>2, <1>3, ReceiptedNext

LEMMA LaunchObjects ==
    ASSUME TypeInv, ObjectInv, Receipted, NEW c \in Call, LaunchStep(c)
    PROVE  ObjectInv' /\ Receipted'
<1>1. /\ pc[c] \in {"verdict", "parked"} /\ pc' = [pc EXCEPT ![c] = "running"] /\ TypeOK
      /\ UNCHANGED <<receipt, object, proc, id, follows, outcome>>
      /\ pc \in [Call -> UnderWay \cup {"new", "check", "dropped", "end"}]
  BY LaunchFacts DEF TypeInv, TypeOK, receipts
<1>2. ObjectInv'
  BY <1>1 DEF ObjectInv, Early, Executing
<1>3. \A l \in Call : Answering(l) /\ pc[l] \notin Early => WillAnswer(l)
  BY <1>1 DEF Answering, WillAnswer, Early, Executing
<1>4. Receipted'
  BY <1>1, <1>3, KeptRows
<1>5. QED
  BY <1>2, <1>4

LEMMA ArriveObjects ==
    ASSUME TypeInv, ObjectInv, Receipted, NEW c \in Call, NEW p \in Proc, NEW i \in Id, NEW d \in Digest,
           Arrive(c, p, i, d)
    PROVE  ObjectInv' /\ Receipted'
<1>1. /\ pc[c] = "new" /\ pc' = [pc EXCEPT ![c] = "check"] /\ TypeOK
      /\ proc' = [proc EXCEPT ![c] = p] /\ id' = [id EXCEPT ![c] = i]
      /\ UNCHANGED <<receipt, object, follows, outcome>>
      /\ pc \in [Call -> UnderWay \cup {"new", "check", "dropped", "end"}]
      /\ proc \in [Call -> Proc] /\ id \in [Call -> Id]
  BY DEF TypeInv, TypeOK, Arrive, Goto, receipts
<1>2. ObjectInv'
  BY <1>1 DEF ObjectInv, Early, Executing
<1>3. \A l \in Call : Answering(l) /\ pc[l] \notin Early => WillAnswer(l) /\ proc'[l] = proc[l] /\ id'[l] = id[l]
  BY <1>1 DEF Answering, WillAnswer, Early, Executing
<1>4. \A l \in Call : pc'[l] = "wait" => pc[l] = "wait" /\ proc'[l] = proc[l]
  BY <1>1
<1>5. Receipted'
  BY <1>1, <1>3, <1>4, KeptRows
<1>6. QED
  BY <1>2, <1>5

LEMMA LapseObjectObjects ==
    ASSUME TypeInv, ObjectInv, Receipted, NEW c \in Call, LapseObject(c)
    PROVE  ObjectInv' /\ Receipted'
<1>1. UNCHANGED <<receipt, pc, proc, id, follows, outcome>> /\ TypeOK
  BY DEF LapseObject, calls, TypeInv
<1>2. /\ object' \in [Call -> Object \cup {NoObject}] /\ object[c] # NoObject
      /\ object'[c].done = object[c].done /\ object'[c].reply = object[c].reply
      /\ object'[c].lapsed
      /\ \A l \in Call \ {c} : object'[l] = object[l]
  BY <1>1, LapseObjectFacts
<1>3. object'[c] # NoObject
  BY <1>2 DEF NoObject
<1>4. \A l \in Call : object'[l].done = object[l].done /\ object'[l].reply = object[l].reply
      /\ (object'[l] = NoObject <=> object[l] = NoObject)
  BY <1>2, <1>3
<1>5. ObjectInv'
  BY <1>1, <1>4 DEF ObjectInv
<1>6. \A l \in Call : Answering(l) /\ pc[l] \notin Early => WillAnswer(l)
  BY <1>1, <1>4 DEF Answering, WillAnswer
<1>7. Receipted'
  BY <1>1, <1>6, KeptRows
<1>8. QED
  BY <1>5, <1>7

LEMMA FinishObjects ==
    ASSUME TypeInv, ObjectInv, Receipted, NEW c \in Call, FinishInvocation(c)
    PROVE  ObjectInv' /\ Receipted'
<1>1. /\ pc[c] = "finish" /\ UNCHANGED <<receipt, proc, id, follows, outcome>> /\ TypeOK
      /\ pc \in [Call -> UnderWay \cup {"new", "check", "dropped", "end"}]
  BY Finishes DEF TypeInv, TypeOK
<1>2. outcome[c] \in Final /\ "unsaved" \in Final /\ object[c] # NoObject
  BY <1>1 DEF ObjectInv, Executing, Final
<1>3. PICK r \in Final : Settled(c, r)
  BY <1>2, Finishes DEF Stored, Unstored
<1>4. /\ object' \in [Call -> Object \cup {NoObject}] /\ object'[c].done /\ object'[c].reply = r
      /\ \A l \in Call \ {c} : object'[l] = object[l]
  BY <1>1, <1>2, <1>3, SettledObject
<1>5. pc' = [pc EXCEPT ![c] = "end"]
  BY <1>3 DEF Settled, Tell
<1>6. ObjectInv'
  <2>1. \A l \in Call : pc'[l] \in Early \cup Executing => l # c /\ pc'[l] = pc[l] /\ object'[l] = object[l]
    BY <1>1, <1>4, <1>5 DEF Early, Executing
  <2>2. \A l \in Call : object'[l].done => object'[l].reply \in Final
    BY <1>3, <1>4 DEF ObjectInv
  <2>3. QED
    BY <1>1, <2>1, <2>2 DEF ObjectInv, Executing
<1>7. \A l \in Call : Answering(l) /\ pc[l] \notin Early => WillAnswer(l)
  BY <1>1, <1>4, <1>5 DEF Answering, WillAnswer, Early, Executing
<1>8. \A l \in Call : pc'[l] = "wait" => pc[l] = "wait"
  BY <1>1, <1>5
<1>9. Receipted'
  BY <1>1, <1>7, <1>8, KeptRows
<1>10. QED
  BY <1>6, <1>9

\* A claim: the receipts of others are as they were, its own is on its way.
LEMMA ClaimObjects ==
    ASSUME TypeInv, LedgerInv, ObjectInv, Receipted, NEW c \in Call, ClaimInvocation(c)
    PROVE  ObjectInv' /\ Receipted'
<1>1. /\ pc[c] = "claim" /\ TypeOK
      /\ UNCHANGED <<proc, id, outcome>>
      /\ pc \in [Call -> UnderWay \cup {"new", "check", "dropped", "end"}]
      /\ object \in [Call -> Object \cup {NoObject}] /\ follows \in [Call -> Call]
      /\ receipt \in [Proc -> [Id -> Call \cup {Nobody}]]
      /\ proc[c] \in Proc /\ id[c] \in Id /\ digest[c] \in Digest
      /\ Refused(c) \/ Unrecorded(c) \/ Recorded(c) \/ Joined(c)
  BY Claims DEF MayClaim, TypeInv, TypeOK
<1>2. \A p \in Proc, i \in Id : receipt[p][i] # Nobody =>
          /\ receipt[p][i] \in Call \ {c} /\ proc[receipt[p][i]] = p /\ id[receipt[p][i]] = i
          /\ Answering(receipt[p][i]) /\ pc[receipt[p][i]] \notin Early
  BY <1>1 DEF Receipted, Early
<1>3. \A l \in Call : pc[l] = "wait" => l # c
          /\ follows[l] \in Call \ {c} /\ proc[follows[l]] = proc[l]
          /\ Answering(follows[l]) /\ pc[follows[l]] \notin Early
  BY <1>1 DEF Receipted, Early
<1>4. /\ Rows(c) \in [Id -> Call \cup {Nobody}]
      /\ \A i \in Id : Rows(c)[i] \in {receipt[proc[c]][i], Nobody}
  BY RowsKept
<1>5. CASE Refused(c)
  <2>1. /\ receipt' = [receipt EXCEPT ![proc[c]] = Rows(c)] /\ UNCHANGED <<object, follows>>
        /\ pc' = [pc EXCEPT ![c] = "end"]
    BY <1>5 DEF Refused, Tell
  <2>2. ObjectInv'
    BY <1>1, <2>1 DEF ObjectInv, Early, Executing
  <2>3. \A l \in Call \ {c} : Answering(l) /\ pc[l] \notin Early => WillAnswer(l)
    BY <1>1, <2>1 DEF Answering, WillAnswer
  <2>4. \A p \in Proc, i \in Id : receipt'[p][i] # Nobody => receipt'[p][i] = receipt[p][i]
    BY <1>1, <1>4, <2>1
  <2>5. \A p \in Proc, i \in Id : receipt'[p][i] # Nobody =>
            proc'[receipt'[p][i]] = p /\ id'[receipt'[p][i]] = i /\ WillAnswer(receipt'[p][i])
    BY <1>1, <1>2, <2>3, <2>4
  <2>6. \A l \in Call : pc'[l] = "wait" => pc[l] = "wait"
    BY <1>1, <2>1
  <2>7. \A l \in Call : pc'[l] = "wait" => proc'[follows'[l]] = proc'[l] /\ WillAnswer(follows'[l])
    BY <1>1, <1>3, <2>1, <2>3, <2>6
  <2>8. QED
    BY <2>2, <2>5, <2>7, ReceiptedNext
<1>6. ASSUME NEW o \in Object, NEW to \in {"verdict", "wait"}, Made(c, o), pc' = [pc EXCEPT ![c] = to],
             o.done => o.reply \in Final, to = "wait" => o.done,
             follows' = [follows EXCEPT ![c] = IF to = "wait" THEN c ELSE @]
      PROVE  ObjectInv' /\ Receipted'
  <2>1. /\ object' = [object EXCEPT ![c] = o]
        /\ receipt' = [receipt EXCEPT ![proc[c]] = [Rows(c) EXCEPT ![id[c]] = c]]
    BY <1>6 DEF Made
  <2>2. /\ object'[c] = o /\ pc'[c] = to
        /\ \A l \in Call \ {c} : object'[l] = object[l] /\ pc'[l] = pc[l] /\ follows'[l] = follows[l]
        /\ to = "wait" => follows'[c] = c
    BY <1>1, <1>6, <2>1
  <2>3. o # NoObject
    BY NobodyAssumption DEF Object, NoObject
  <2>4. ObjectInv'
    <3>1. \A l \in Call : pc'[l] \in Early \cup {"finish"} => l # c
      BY <1>6, <2>2 DEF Early
    <3>2. \A l \in Call : object'[l].done => object'[l].reply \in Final
      BY <1>6, <2>2 DEF ObjectInv
    <3>3. \A l \in Call : pc'[l] \in Executing => object'[l] # NoObject
      BY <2>2, <2>3 DEF ObjectInv
    <3>4. QED
      BY <1>1, <2>2, <3>1, <3>2, <3>3 DEF ObjectInv
  <2>5. WillAnswer(c) /\ \A l \in Call \ {c} : Answering(l) /\ pc[l] \notin Early => WillAnswer(l)
    BY <1>6, <2>2 DEF Answering, WillAnswer, Executing, Early
  <2>6. \A p \in Proc, i \in Id : receipt'[p][i] # Nobody =>
            receipt'[p][i] = receipt[p][i] \/ (p = proc[c] /\ i = id[c] /\ receipt'[p][i] = c)
    BY <1>1, <1>4, <2>1
  <2>7. \A p \in Proc, i \in Id : receipt'[p][i] # Nobody =>
            proc'[receipt'[p][i]] = p /\ id'[receipt'[p][i]] = i /\ WillAnswer(receipt'[p][i])
    BY <1>1, <1>2, <2>5, <2>6
  <2>8. \A l \in Call : pc'[l] = "wait" => proc'[follows'[l]] = proc'[l] /\ WillAnswer(follows'[l])
    BY <1>1, <1>3, <1>6, <2>2, <2>5
  <2>9. QED
    BY <2>4, <2>7, <2>8, ReceiptedNext
<1>7. CASE Unrecorded(c) \/ Recorded(c)
  <2>1. Made(c, Opened(digest[c])) /\ pc' = [pc EXCEPT ![c] = "verdict"] /\ UNCHANGED follows
    BY <1>7 DEF Unrecorded, Recorded
  <2>2. Opened(digest[c]) \in Object /\ ~Opened(digest[c]).done
    BY <1>1, OpenedObject
  <2>3. follows' = [follows EXCEPT ![c] = IF "verdict" = "wait" THEN c ELSE @]
    BY <1>1, <2>1
  <2>4. QED
    BY <1>6, <2>1, <2>2, <2>3
<1>8. CASE Joined(c)
  <2> DEFINE r == IF ClaimOf(c).says = "replay" THEN reply[id[c]] ELSE "interrupted"
  <2>1. /\ Made(c, Closed(digest[c], r)) /\ pc' = [pc EXCEPT ![c] = "wait"]
        /\ follows' = [follows EXCEPT ![c] = c]
    BY <1>8 DEF Joined
  <2>2. r \in Final
    <3>1. ledger[proc[c]] /\ index[proc[c]] = disk /\ disk \in [Id -> Rowed] /\ reply[id[c]] \in Final \cup {"none"}
      BY <1>1, <1>8 DEF Joined, LedgerInv, LedgerIsCurrent, TypeOK, Rowed
    <3>2. ClaimOf(c).says = "replay" => disk[id[c]].complete
      BY <1>1, <3>1, ClaimAnswers DEF ClaimOf
    <3>3. ClaimOf(c).says = "replay" => reply[id[c]] # "none"
      BY <1>1, <3>2 DEF LedgerInv, CompleteHasReply
    <3>4. QED
      BY <3>1, <3>3 DEF Final
  <2> HIDE DEF r
  <2>3. /\ Closed(digest[c], r) \in Object /\ Closed(digest[c], r).done /\ Closed(digest[c], r).reply = r
    BY <1>1, <2>2, ClosedObject
  <2>4. QED
    BY <1>6, <2>1, <2>2, <2>3
<1>9. QED
  BY <1>1, <1>5, <1>7, <1>8

-----------------------------------------------------------------------------
(* The invariant is inductive: what is promised on any device.             *)

LEMMA ReceiptInit == Init => ReceiptInv
<1>1. SUFFICES ASSUME Init PROVE ReceiptInv
  OBVIOUS
<1>2. /\ (CHOOSE p \in Proc : TRUE) \in Proc /\ (CHOOSE i \in Id : TRUE) \in Id
      /\ (CHOOSE d \in Digest : TRUE) \in Digest
  BY SomeAssumption
<1>3. Entries(disk) = {} /\ \A p \in Proc : Taken(receipt[p]) = {}
  BY <1>1 DEF Init, Entries, Taken
<1>4. Bounded(disk) /\ \A p \in Proc : BoundedRow(receipt[p])
  BY <1>3, FS_EmptySet, CapacityAssumption DEF Bounded, BoundedRow
<1>5. TypeOK
  <2>1. proc \in [Call -> Proc] /\ id \in [Call -> Id] /\ digest \in [Call -> Digest]
    BY <1>1, <1>2 DEF Init
  <2>2. Cardinality(Entries(disk)) <= Capacity /\ \A p \in Proc : Cardinality({i \in Id : receipt[p][i] # Nobody}) <= Capacity
    BY <1>4 DEF Bounded, BoundedRow, Taken
  <2>3. QED
    BY <1>1, <2>1, <2>2 DEF Init, TypeOK
<1>6. LedgerInv /\ ProcessInv
  BY <1>1 DEF Init, LedgerInv, LedgerIsCurrent, CompleteHasReply, ProcessInv, NoEntry
<1>7. ObjectInv /\ Receipted
  BY <1>1 DEF Init, ObjectInv, Receipted, NoObject, Executing
<1>8. QED
  BY <1>4, <1>5, <1>6, <1>7 DEF ReceiptInv, TypeInv

LEMMA ReceiptStep == ReceiptInv /\ [Next]_vars => ReceiptInv'
<1>1. SUFFICES ASSUME ReceiptInv, [Next]_vars PROVE ReceiptInv'
  OBVIOUS
<1> USE <1>1 DEF ReceiptInv
<1>2. TypeOK
  BY DEF TypeInv
<1>3. ASSUME NEW c \in Call, NEW p \in Proc, NEW i \in Id, NEW d \in Digest, Arrive(c, p, i, d)
      PROVE  ReceiptInv'
  <2>1. LedgerInv'
    BY <1>3, SameLedger DEF Arrive, processes, storage
  <2>2. ProcessInv'
    BY <1>2, <1>3 DEF Arrive, Goto, ProcessInv, processes, storage, TypeOK
  <2>3. QED
    BY <1>3, <2>1, <2>2, ArriveType, ArriveObjects
<1>4. ASSUME NEW c \in Call, CallStep(c)
      PROVE  ReceiptInv'
  <2>1. LedgerInv' /\ ProcessInv'
    BY <1>2, <1>4, CallLedger, CallProcess
  <2>2. CASE WalkStep(c)
    BY <1>2, <2>1, <2>2, Walks, WalkType, WalkObjects
  <2>3. CASE LaunchStep(c)
    BY <2>1, <2>3, LaunchType, LaunchObjects
  <2>4. CASE ClaimInvocation(c)
    BY <2>1, <2>4, ClaimType, ClaimObjects
  <2>5. CASE FinishInvocation(c)
    BY <2>1, <2>5, FinishType, FinishObjects
  <2>6. QED
    BY <1>4, <2>2, <2>3, <2>4, <2>5, CallSteps
<1>5. ASSUME NEW c \in Call, LapseObject(c)
      PROVE  ReceiptInv'
  <2>1. LedgerInv'
    BY <1>5, SameLedger DEF LapseObject, processes, storage
  <2>2. ProcessInv'
    BY <1>5 DEF LapseObject, ProcessInv, processes, storage, calls
  <2>3. QED
    BY <1>5, <2>1, <2>2, LapseObjectType, LapseObjectObjects
<1>6. ASSUME NEW p \in Proc, ProcessStep(p)
      PROVE  ReceiptInv'
  <2>1. UNCHANGED <<receipts, calls>>
    BY <1>6 DEF ProcessStep, Start, Die, BeginRestart, LockStorage, Release, Recover
  <2>2. ObjectInv' /\ Receipted'
    BY <2>1, SameObjects DEF receipts, calls
  <2>3. QED
    BY <1>2, <1>6, <2>2, ProcessType, ProcessLedger, ProcessProcess
<1>7. ASSUME NEW i \in Id, Lapse(i)
      PROVE  ReceiptInv'
  <2>1. ProcessInv'
    BY <1>7 DEF Lapse, ProcessInv, processes, calls
  <2>2. ObjectInv' /\ Receipted'
    BY <1>7, SameObjects DEF Lapse, receipts, calls
  <2>3. QED
    BY <1>7, <2>1, <2>2, LapseType, LapseLedger
<1>8. CASE UNCHANGED vars
  <2>1. LedgerInv' /\ ProcessInv'
    BY <1>8, SameLedger DEF vars, processes, storage, calls, ProcessInv
  <2>2. ObjectInv' /\ Receipted'
    BY <1>8, SameObjects DEF vars, receipts, calls
  <2>3. QED
    BY <1>8, <2>1, <2>2, StutterType
<1>9. QED
  BY <1>1, <1>3, <1>4, <1>5, <1>6, <1>7, <1>8 DEF Next

LEMMA ReceiptHolds == Spec => []ReceiptInv
  BY ReceiptInit, ReceiptStep, PTL DEF Spec

-----------------------------------------------------------------------------
(* Orderly restarts: an execution owns its entry until it has an answer.   *)

\* A process that is up has locked its storage, and closed its ledger, as far
\* as its restart has come.
Handover ==
    \A p \in Proc : life[p] = "up" =>
        /\ locked[p] <=> restart[p] \in {"locking", "released"}
        /\ ledger[p] <=> restart[p] # "released"

\* A call that executes, for as long as it may save its outcome or runs.
Holder(c) == Alive(c) /\ pc[c] \in Executing /\ (ledger[proc[c]] \/ pc[c] = "running")

\* It holds the entry of its id, which nothing was done for before its launch.
HoldsEntry(c) ==
    /\ disk[id[c]].digest = digest[c]
    /\ ~disk[id[c]].complete /\ ~disk[id[c]].retryable /\ ~disk[id[c]].lapsed
    /\ pc[c] \in {"verdict", "parked"} \/ (pc[c] = "finish" /\ outcome[c] # "result") => effects[id[c]] = 0

Held ==
    /\ \A c \in Call : Holder(c) => HoldsEntry(c)
    /\ \A c, d \in Call : Holder(c) /\ Holder(d) /\ id[c] = id[d] => c = d

\* What was done is in the index, and will not be done again.
Counted == \A i \in Id : effects[i] # 0 => effects[i] = 1 /\ Live(disk[i]) /\ ~disk[i].retryable

OrderInv == Handover /\ Held /\ Counted

LEMMA CallHandover ==
    ASSUME TypeOK, Handover, NEW c \in Call, CallStep(c)
    PROVE  Handover'
  BY CallFrame DEF Handover

LEMMA ProcessHandover ==
    ASSUME TypeOK, ProcessInv, Handover, Orderly, NEW p \in Proc, ProcessStep(p)
    PROVE  Handover'
<1>1. CASE Start(p)
  BY <1>1 DEF TypeOK, ProcessInv, Handover, Orderly, Start, OpenStorage
<1>2. CASE Die(p)
  BY <1>2 DEF TypeOK, Handover, Die, Dispossess
<1>3. CASE BeginRestart(p) \/ LockStorage(p)
  BY <1>3 DEF TypeOK, Handover, BeginRestart, LockStorage, storage
<1>4. CASE Release(p)
  BY <1>4 DEF TypeOK, Handover, Release, Dispossess
<1>5. CASE Recover(p)
  BY <1>5 DEF Recover, Orderly
<1>6. QED
  BY <1>1, <1>2, <1>3, <1>4, <1>5 DEF ProcessStep

\* A call that holds an entry is not joined by another step's newcomer.
LEMMA FewerHolders ==
    ASSUME Held, \A c \in Call : Holder(c)' => Holder(c) /\ id'[c] = id[c] /\ HoldsEntry(c)'
    PROVE  Held'
  BY DEF Held

LEMMA WalkHeld ==
    ASSUME TypeOK, Held, Counted, NEW c \in Call, NEW to, Walk(c, to)
    PROVE  Held' /\ Counted'
<1>1. /\ pc' = [pc EXCEPT ![c] = to] /\ Ways(pc[c], to)
      /\ UNCHANGED <<life, ledger, disk, proc, id, digest, effects>>
      /\ pc \in [Call -> UnderWay \cup {"new", "check", "dropped", "end"}]
      /\ outcome \in [Call -> Final \cup {"none"}]
  BY DEF Walk, TypeOK, receipts, storage, processes
<1>2. ASSUME NEW l \in Call, Holder(l)'
      PROVE  Holder(l) /\ id'[l] = id[l] /\ HoldsEntry(l)'
  <2>1. CASE l # c
    <3>1. pc'[l] = pc[l] /\ outcome'[l] = outcome[l]
      BY <1>1, <2>1 DEF Walk, Outcome
    <3>2. Holder(l)
      BY <1>1, <1>2, <3>1 DEF Holder, Alive
    <3>3. QED
      BY <1>1, <3>1, <3>2 DEF Held, HoldsEntry
  <2>2. CASE l = c
    <3>1. pc'[c] = to /\ to \in {"finish", "parked"} /\ pc[c] \in {"verdict", "parked", "running"}
      BY <1>1, <1>2, <2>2 DEF Holder, Ways, Executing
    <3>2. Holder(c)
      BY <1>1, <1>2, <2>2, <3>1 DEF Holder, Alive, Executing
    <3>3. HoldsEntry(c)
      BY <3>2 DEF Held
    <3>4. to = "finish" /\ outcome'[c] # "result" => pc[c] \in {"verdict", "parked"}
      BY <1>1, <3>1 DEF Walk, Outcome
    <3>5. pc[c] = "running" => to = "finish"
      BY <1>1 DEF Ways
    <3>6. pc'[c] \in {"verdict", "parked"} \/ (pc'[c] = "finish" /\ outcome'[c] # "result") => effects[id[c]] = 0
      BY <3>1, <3>3, <3>4, <3>5 DEF HoldsEntry
    <3>7. HoldsEntry(c)'
      BY <1>1, <3>3, <3>6 DEF HoldsEntry
    <3>8. QED
      BY <1>1, <2>2, <3>2, <3>7
  <2>3. QED
    BY <2>1, <2>2
<1>3. Held'
  BY <1>2, FewerHolders
<1>4. Counted'
  BY <1>1 DEF Counted
<1>5. QED
  BY <1>3, <1>4

LEMMA LaunchHeld ==
    ASSUME TypeOK, Handover, Held, Counted, NEW c \in Call, LaunchStep(c), Alive(c)
    PROVE  Held' /\ Counted'
<1>1. /\ pc[c] \in {"verdict", "parked"}
      /\ pc' = [pc EXCEPT ![c] = "running"] /\ effects' = [effects EXCEPT ![id[c]] = @ + 1]
      /\ UNCHANGED <<life, ledger, disk, proc, id, digest, outcome>>
      /\ pc \in [Call -> UnderWay \cup {"new", "check", "dropped", "end"}]
      /\ effects \in [Id -> Nat] /\ id[c] \in Id /\ proc[c] \in Proc /\ digest[c] \in Digest
      /\ ~locked[proc[c]] \/ restart[proc[c]] = "none"
  BY LaunchFacts DEF MayLaunch, TypeOK, processes, storage
<1>2. ledger[proc[c]]
  BY <1>1 DEF Handover, Alive
<1>3. Holder(c)
  BY <1>1, <1>2 DEF Holder, Executing
<1>4. HoldsEntry(c) /\ effects[id[c]] = 0
  BY <1>1, <1>3 DEF Held, HoldsEntry
<1>5. effects'[id[c]] = 1 /\ \A i \in Id \ {id[c]} : effects'[i] = effects[i]
  BY <1>1, <1>4
<1>6. Live(disk[id[c]]) /\ ~disk[id[c]].retryable
  BY <1>1, <1>4, NobodyAssumption DEF HoldsEntry, Live, NoEntry
<1>7. Counted'
  BY <1>1, <1>5, <1>6 DEF Counted
<1>8. ASSUME NEW l \in Call, Holder(l)'
      PROVE  Holder(l) /\ id'[l] = id[l] /\ HoldsEntry(l)'
  <2>1. CASE l = c
    BY <1>1, <1>3, <1>4, <2>1 DEF HoldsEntry
  <2>2. CASE l # c
    <3>1. pc'[l] = pc[l]
      BY <1>1, <2>2
    <3>2. Holder(l)
      BY <1>1, <1>8, <3>1 DEF Holder, Alive
    <3>3. HoldsEntry(l) /\ id[l] # id[c] /\ id[l] \in Id
      BY <1>3, <2>2, <3>2 DEF Held, TypeOK
    <3>4. QED
      BY <1>1, <1>5, <3>1, <3>2, <3>3 DEF HoldsEntry
  <2>3. QED
    BY <2>1, <2>2
<1>9. QED
  BY <1>7, <1>8, FewerHolders

LEMMA ClaimHeld ==
    ASSUME TypeInv, LedgerInv, Handover, Held, Counted, NEW c \in Call, ClaimInvocation(c), Alive(c)
    PROVE  Held' /\ Counted'
<1>1. /\ pc[c] = "claim" /\ TypeOK
      /\ UNCHANGED <<life, proc, id, digest, outcome, effects>>
      /\ pc \in [Call -> UnderWay \cup {"new", "check", "dropped", "end"}]
      /\ proc[c] \in Proc /\ id[c] \in Id /\ digest[c] \in Digest /\ effects \in [Id -> Nat]
      /\ Refused(c) \/ Unrecorded(c) \/ Recorded(c) \/ Joined(c)
  BY Claims DEF MayClaim, TypeInv, TypeOK, processes
<1>2. \A l \in Call \ {c} : pc'[l] = pc[l]
  BY <1>1 DEF Refused, Unrecorded, Recorded, Joined, Tell
<1>3. CASE ~Recorded(c)
  <2>1. UNCHANGED <<ledger, disk>> /\ (pc'[c] \notin Executing \/ (pc'[c] = "verdict" /\ ~ledger[proc[c]]))
    BY <1>1, <1>3 DEF Refused, Unrecorded, Joined, Tell, storage, Executing
  <2>2. Counted'
    BY <1>1, <2>1 DEF Counted
  <2>3. ASSUME NEW l \in Call, Holder(l)'
        PROVE  Holder(l) /\ id'[l] = id[l] /\ HoldsEntry(l)'
    <3>1. l # c
      BY <1>1, <2>1, <2>3 DEF Holder
    <3>2. Holder(l)
      BY <1>1, <1>2, <2>1, <2>3, <3>1 DEF Holder, Alive
    <3>3. QED
      BY <1>1, <1>2, <2>1, <3>1, <3>2 DEF Held, HoldsEntry
  <2>4. QED
    BY <2>2, <2>3, FewerHolders
<1>4. CASE Recorded(c)
  <2>1. /\ disk'[id[c]].digest = digest[c] /\ ~disk'[id[c]].complete
        /\ ~disk'[id[c]].retryable /\ ~disk'[id[c]].lapsed
        /\ \A j \in Id \ {id[c]} : disk'[j] = disk[j] \/ (disk'[j] = NoEntry /\ ~Live(disk[j]))
        /\ ~Live(disk[id[c]]) \/ disk[id[c]].retryable
    BY <1>4, RecordedDisk DEF TypeInv
  <2>2. effects[id[c]] = 0
    BY <1>1, <2>1 DEF Counted
  <2>3. Counted'
    <3>1. \A i \in Id : effects[i] # 0 => i # id[c] /\ disk'[i] = disk[i]
      BY <2>1, <2>2 DEF Counted
    <3>2. QED
      BY <1>1, <3>1 DEF Counted
  <2>4. pc'[c] = "verdict" /\ UNCHANGED ledger
    BY <1>1, <1>4 DEF Recorded
  <2>5. HoldsEntry(c)'
    BY <1>1, <2>1, <2>2 DEF HoldsEntry
  <2>6. ASSUME NEW l \in Call \ {c}, Holder(l)'
        PROVE  Holder(l) /\ id[l] # id[c] /\ HoldsEntry(l)'
    <3>1. Holder(l)
      BY <1>1, <1>2, <2>4, <2>6 DEF Holder, Alive
    <3>2. HoldsEntry(l) /\ digest[l] \in Digest /\ id[l] \in Id
      BY <1>1, <3>1 DEF Held, TypeOK
    <3>3. Live(disk[id[l]]) /\ ~disk[id[l]].retryable
      BY <3>2, NobodyAssumption DEF HoldsEntry, Live, NoEntry
    <3>4. id[l] # id[c] /\ disk'[id[l]] = disk[id[l]]
      BY <2>1, <3>2, <3>3
    <3>5. QED
      BY <1>1, <1>2, <3>1, <3>2, <3>4 DEF HoldsEntry
  <2>7. Held'
    <3>1. \A l \in Call : Holder(l)' => HoldsEntry(l)'
      BY <2>5, <2>6
    <3>2. ASSUME NEW k \in Call, NEW l \in Call, Holder(k)', Holder(l)', id'[k] = id'[l]
          PROVE  k = l
      BY <1>1, <2>6, <3>2 DEF Held
    <3>3. QED
      BY <3>1, <3>2 DEF Held
  <2>8. QED
    BY <2>3, <2>7
<1>5. QED
  BY <1>3, <1>4

LEMMA FinishHeld ==
    ASSUME TypeInv, LedgerInv, Handover, Held, Counted, NEW c \in Call, FinishInvocation(c), Alive(c)
    PROVE  Held' /\ Counted'
<1>1. /\ pc[c] = "finish" /\ TypeOK
      /\ UNCHANGED <<life, ledger, proc, id, digest, outcome, effects>>
      /\ pc \in [Call -> UnderWay \cup {"new", "check", "dropped", "end"}]
      /\ id[c] \in Id
      /\ Stored(c) \/ Unstored(c)
  BY Finishes DEF Stored, Unstored, TypeInv, TypeOK, processes
<1>2. pc' = [pc EXCEPT ![c] = "end"]
  BY <1>1 DEF Stored, Unstored, Settled, Tell
<1>3. ASSUME NEW l \in Call, Holder(l)'
      PROVE  l # c /\ Holder(l) /\ pc'[l] = pc[l]
  BY <1>1, <1>2, <1>3 DEF Holder, Alive, Executing
<1>4. CASE Unstored(c)
  <2>1. UNCHANGED disk
    BY <1>4 DEF Unstored
  <2>2. \A l \in Call : Holder(l)' => Holder(l) /\ id'[l] = id[l] /\ HoldsEntry(l)'
    BY <1>1, <1>3, <2>1 DEF Held, HoldsEntry
  <2>3. Counted'
    BY <1>1, <2>1 DEF Counted
  <2>4. QED
    BY <2>2, <2>3, FewerHolders
<1>5. CASE Stored(c)
  <2>1. /\ disk'[id[c]].complete /\ disk'[id[c]].lapsed = disk[id[c]].lapsed /\ disk'[id[c]] # NoEntry
        /\ disk'[id[c]].retryable <=> outcome[c] = "consent"
        /\ \A j \in Id \ {id[c]} : disk'[j] = disk[j]
    BY <1>5, StoredDisk
  <2>2. Holder(c) /\ HoldsEntry(c)
    BY <1>1, <1>5 DEF Stored, Holder, Held, Executing
  <2>3. Live(disk'[id[c]])
    BY <2>1, <2>2 DEF HoldsEntry, Live
  <2>4. Counted'
    <3>1. effects[id[c]] # 0 => ~disk'[id[c]].retryable
      BY <1>1, <2>1, <2>2 DEF HoldsEntry
    <3>2. QED
      BY <1>1, <2>1, <2>3, <3>1 DEF Counted
  <2>5. ASSUME NEW l \in Call, Holder(l)'
        PROVE  Holder(l) /\ id'[l] = id[l] /\ HoldsEntry(l)'
    <3>1. l # c /\ Holder(l) /\ pc'[l] = pc[l]
      BY <1>3, <2>5
    <3>2. id[l] # id[c] /\ id[l] \in Id
      BY <1>1, <2>2, <3>1 DEF Held, TypeOK
    <3>3. QED
      BY <1>1, <2>1, <3>1, <3>2 DEF Held, HoldsEntry
  <2>6. QED
    BY <2>4, <2>5, FewerHolders
<1>6. QED
  BY <1>1, <1>4, <1>5

LEMMA ProcessHeld ==
    ASSUME TypeOK, ProcessInv, Held, Counted, NEW p \in Proc, ProcessStep(p), Orderly
    PROVE  Held' /\ Counted'
<1>1. UNCHANGED <<disk, calls, effects>>
  BY DEF ProcessStep, Start, Die, BeginRestart, LockStorage, Release, Recover, storage
<1>2. UNCHANGED <<pc, proc, id, digest, outcome>>
  BY <1>1 DEF calls
<1>3. \A q \in Proc : \/ life'[q] # "up"
                      \/ life[q] = "up" /\ (ledger'[q] => ledger[q])
                      \/ life[q] = "unborn"
  BY DEF ProcessStep, Start, Die, BeginRestart, LockStorage, Release, Recover, OpenStorage, Dispossess, storage, TypeOK,
     Orderly
<1>4. ASSUME NEW l \in Call, Holder(l)'
      PROVE  Holder(l) /\ id'[l] = id[l] /\ HoldsEntry(l)'
  <2>1. proc[l] \in Proc /\ pc[l] # "new" /\ life[proc[l]] # "unborn"
    BY <1>2, <1>4 DEF Holder, Alive, TypeOK, ProcessInv
  <2>2. Holder(l)
    BY <1>2, <1>3, <1>4, <2>1 DEF Holder, Alive
  <2>3. QED
    BY <1>1, <1>2, <2>2 DEF Held, HoldsEntry
<1>5. QED
  BY <1>1, <1>4, FewerHolders DEF Counted

\* Nothing lapses that a call still holds.
LEMMA LapseHeld ==
    ASSUME TypeInv, Held, Counted, NEW i \in Id, Lapse(i), ~LongCalls
    PROVE  Held' /\ Counted'
<1>1. /\ TypeOK /\ UNCHANGED <<life, ledger, pc, proc, id, digest, outcome>>
      /\ effects' = IF disk[i].complete THEN [effects EXCEPT ![i] = 0] ELSE effects
      /\ effects \in [Id -> Nat]
      /\ \A c \in Call : Alive(c) /\ id[c] = i => pc[c] \notin UnderWay
  BY DEF Lapse, MayLapse, TypeInv, TypeOK, processes, calls
<1>2. /\ disk'[i] # NoEntry /\ disk'[i].complete = disk[i].complete /\ disk'[i].retryable = disk[i].retryable
      /\ \A j \in Id \ {i} : disk'[j] = disk[j]
  BY LapsedDisk
<1>3. \A j \in Id \ {i} : effects'[j] = effects[j]
  BY <1>1
<1>4. Counted'
  <2>1. SUFFICES ASSUME NEW j \in Id, effects'[j] # 0
                 PROVE  effects'[j] = 1 /\ Live(disk'[j]) /\ ~disk'[j].retryable
    BY DEF Counted
  <2>2. CASE j = i
    <3>1. ~disk[i].complete /\ effects'[i] = effects[i]
      BY <1>1, <2>1, <2>2
    <3>2. QED
      BY <1>2, <2>1, <2>2, <3>1 DEF Counted, Live
  <2>3. CASE j # i
    BY <1>2, <1>3, <2>1, <2>3 DEF Counted
  <2>4. QED
    BY <2>2, <2>3
<1>5. ASSUME NEW l \in Call, Holder(l)'
      PROVE  Holder(l) /\ id'[l] = id[l] /\ HoldsEntry(l)'
  <2>1. Holder(l)
    BY <1>1, <1>5 DEF Holder, Alive
  <2>2. id[l] # i /\ id[l] \in Id
    BY <1>1, <2>1 DEF Holder, Executing, UnderWay, TypeOK
  <2>3. QED
    BY <1>1, <1>2, <1>3, <2>1, <2>2 DEF Held, HoldsEntry
<1>6. QED
  BY <1>4, <1>5, FewerHolders

LEMMA LapseObjectHeld ==
    ASSUME TypeInv, Held, Counted, NEW c \in Call, LapseObject(c)
    PROVE  Held' /\ Counted'
<1>1. /\ TypeOK /\ UNCHANGED <<life, ledger, disk, pc, proc, id, digest, outcome>>
      /\ effects' = IF object[c].done /\ disk[id[c]] = NoEntry THEN [effects EXCEPT ![id[c]] = 0] ELSE effects
      /\ effects \in [Id -> Nat] /\ id[c] \in Id
  BY DEF LapseObject, TypeInv, TypeOK, processes, storage, calls
<1>2. disk[id[c]] = NoEntry => effects[id[c]] = 0
  BY <1>1 DEF Counted, Live
<1>3. effects' = effects
  BY <1>1, <1>2
<1>4. Counted'
  BY <1>1, <1>3 DEF Counted
<1>5. \A l \in Call : Holder(l)' => Holder(l) /\ id'[l] = id[l] /\ HoldsEntry(l)'
  BY <1>1, <1>3 DEF Holder, Alive, Held, HoldsEntry
<1>6. QED
  BY <1>4, <1>5, FewerHolders

LEMMA ArriveHeld ==
    ASSUME TypeInv, Held, Counted, NEW c \in Call, NEW p \in Proc, NEW i \in Id, NEW d \in Digest, Arrive(c, p, i, d)
    PROVE  Held' /\ Counted'
<1>1. /\ TypeOK /\ UNCHANGED <<life, ledger, disk, effects, outcome>>
      /\ pc' = [pc EXCEPT ![c] = "check"] /\ proc' = [proc EXCEPT ![c] = p]
      /\ id' = [id EXCEPT ![c] = i] /\ digest' = [digest EXCEPT ![c] = d]
      /\ pc \in [Call -> UnderWay \cup {"new", "check", "dropped", "end"}]
      /\ proc \in [Call -> Proc] /\ id \in [Call -> Id] /\ digest \in [Call -> Digest]
  BY DEF Arrive, Goto, TypeInv, TypeOK, processes, storage
<1>2. ASSUME NEW l \in Call, Holder(l)'
      PROVE  Holder(l) /\ id'[l] = id[l] /\ HoldsEntry(l)'
  <2>1. l # c
    BY <1>1, <1>2 DEF Holder, Executing
  <2>2. pc'[l] = pc[l] /\ proc'[l] = proc[l] /\ id'[l] = id[l] /\ digest'[l] = digest[l]
    BY <1>1, <2>1
  <2>3. QED
    BY <1>1, <1>2, <2>2 DEF Holder, Alive, Held, HoldsEntry
<1>3. QED
  BY <1>1, <1>2, FewerHolders DEF Counted

LEMMA OrderInit == Init => OrderInv
  BY DEF Init, OrderInv, Handover, Held, Counted, Holder, Executing

LEMMA OrderStep == ReceiptInv /\ Orderly /\ OrderInv /\ [Next]_vars => OrderInv'
<1>1. SUFFICES ASSUME ReceiptInv, Orderly, OrderInv, [Next]_vars PROVE OrderInv'
  OBVIOUS
<1>2. /\ TypeInv /\ TypeOK /\ LedgerInv /\ ProcessInv /\ Orderly /\ ~LongCalls
      /\ Handover /\ Held /\ Counted
  BY <1>1 DEF ReceiptInv, TypeInv, Orderly, OrderInv
<1>3. ASSUME NEW c \in Call, NEW p \in Proc, NEW i \in Id, NEW d \in Digest, Arrive(c, p, i, d)
      PROVE  OrderInv'
  <2>1. Handover'
    BY <1>2, <1>3 DEF Arrive, Handover, processes, storage
  <2>2. QED
    BY <1>2, <1>3, <2>1, ArriveHeld DEF OrderInv
<1>4. ASSUME NEW c \in Call, CallStep(c)
      PROVE  OrderInv'
  <2>1. Handover'
    BY <1>2, <1>4, CallHandover
  <2>2. Held' /\ Counted'
    BY <1>2, <1>4, CallSteps, Walks, WalkHeld, LaunchHeld, ClaimHeld, FinishHeld
  <2>3. QED
    BY <2>1, <2>2 DEF OrderInv
<1>5. ASSUME NEW c \in Call, LapseObject(c)
      PROVE  OrderInv'
  <2>1. Handover'
    BY <1>2, <1>5 DEF LapseObject, Handover, processes, storage
  <2>2. QED
    BY <1>2, <1>5, <2>1, LapseObjectHeld DEF OrderInv
<1>6. ASSUME NEW p \in Proc, ProcessStep(p)
      PROVE  OrderInv'
  BY <1>2, <1>6, ProcessHandover, ProcessHeld DEF OrderInv
<1>7. ASSUME NEW i \in Id, Lapse(i)
      PROVE  OrderInv'
  <2>1. Handover'
    BY <1>2, <1>7 DEF Lapse, Handover, processes
  <2>2. QED
    BY <1>2, <1>7, <2>1, LapseHeld DEF OrderInv
<1>8. CASE UNCHANGED vars
  <2>1. Handover' /\ Counted'
    BY <1>2, <1>8 DEF vars, processes, storage, Handover, Counted
  <2>2. Held'
    BY <1>2, <1>8 DEF vars, processes, storage, calls, Held, Holder, HoldsEntry, Alive
  <2>3. QED
    BY <2>1, <2>2 DEF OrderInv
<1>9. QED
  BY <1>1, <1>3, <1>4, <1>5, <1>6, <1>7, <1>8 DEF Next

\* A frail process that has run is not unborn again.
LEMMA OrderlyBefore == TypeInv /\ [Next]_vars /\ Orderly' => Orderly
<1>1. SUFFICES ASSUME TypeInv, [Next]_vars, NEW p \in Proc, life'[p] = "unborn" PROVE life[p] = "unborn"
  BY FrailAssumption DEF Orderly
<1>2. life \in [Proc -> {"unborn", "up", "down"}]
  BY <1>1 DEF TypeInv, TypeOK
<1>3. life' = life \/ \E q \in Proc, w \in {"up", "down"} : life' = [life EXCEPT ![q] = w]
  <2>1. ASSUME NEW q \in Proc, ProcessStep(q)
        PROVE  life' = life \/ \E w \in {"up", "down"} : life' = [life EXCEPT ![q] = w]
    BY <2>1 DEF ProcessStep, Start, Die, BeginRestart, LockStorage, Release, Recover
  <2>2. ASSUME NEW c \in Call, CallStep(c)
        PROVE  life' = life
    BY <1>1, <2>2, CallFrame DEF TypeInv
  <2>3. QED
    BY <1>1, <2>1, <2>2 DEF Next, Arrive, LapseObject, Lapse, processes, vars
<1>4. QED
  BY <1>1, <1>2, <1>3

LEMMA OrderHolds == Spec => [](Orderly => OrderInv)
<1>1. Init => (Orderly => OrderInv)
  BY OrderInit
<1>2. ReceiptInv /\ (Orderly => OrderInv) /\ [Next]_vars => (Orderly => OrderInv)'
  BY OrderStep, OrderlyBefore DEF ReceiptInv
<1>3. QED
  BY <1>1, <1>2, ReceiptHolds, PTL DEF Spec

\* The ledger, the reply files and the receipts in memory agree on any disk,
\* and a retry waits for an answer; where restarts are orderly, an invocation
\* has its effect once, after its intent (plugin_invocations.go:11,
\* internal/receipts/store.go:108).
THEOREM ReceiptsAreSoundHolds == Spec => []ReceiptsAreSound
<1>1. ReceiptInv => TypeOK /\ LedgerIsCurrent /\ CompleteHasReply
  BY DEF ReceiptInv, TypeInv, LedgerInv
<1>2. ReceiptInv => WaitsForAnAnswer
  BY DEF ReceiptInv, TypeInv, TypeOK, Receipted, Answering, Executing, WaitsForAnAnswer
<1>3. ReceiptInv /\ OrderInv => AtMostOnce /\ IntentIsDurable
  <2>1. SUFFICES ASSUME ReceiptInv, OrderInv PROVE AtMostOnce /\ IntentIsDurable
    OBVIOUS
  <2>2. effects \in [Id -> Nat]
    BY <2>1 DEF ReceiptInv, TypeInv, TypeOK
  <2>3. AtMostOnce
    BY <2>1, <2>2 DEF OrderInv, Counted, AtMostOnce
  <2>4. IntentIsDurable
    BY <2>1 DEF OrderInv, Held, Holder, HoldsEntry, Executing, IntentIsDurable
  <2>5. QED
    BY <2>3, <2>4
<1>4. ReceiptInv /\ (Orderly => OrderInv) => ReceiptsAreSound
  BY <1>1, <1>2, <1>3 DEF ReceiptsAreSound
<1>5. QED
  BY <1>4, ReceiptHolds, OrderHolds, PTL

-----------------------------------------------------------------------------
(* Orderly restarts: what is told agrees with what is stored.              *)

\* A receipt object has the input of its call, and only a request for consent
\* may be retried.
TruthInv ==
    /\ \A l \in Call : object[l] # NoObject => object[l].digest = digest[l]
    /\ \A l \in Call : object[l].retryable => object[l].done /\ object[l].reply = "consent"
    /\ \A l \in Call : pc[l] = "dropped" => object[l] # NoObject

\* Who executes has its receipt in its row, not done.
Owned ==
    \A d \in Call : Alive(d) /\ pc[d] \in Executing =>
        receipt[proc[d]][id[d]] = d /\ ~object[d].done /\ ~object[d].lapsed

\* A receipt another delivery may be answered with.
Current(l) ==
    /\ object[l].done /\ ~object[l].lapsed /\ ~object[l].retryable
    /\ ledger[proc[l]] /\ receipt[proc[l]][id[l]] = l

AgreesOn(l) ==
    /\ Counts(id[l], digest[l]) => reply[id[l]] = object[l].reply
    /\ object[l].reply = "denied" => effects[id[l]] = 0

Agreed == \A l \in Call : Current(l) => AgreesOn(l)

\* An entry that says so was not executed.
DeniedStored == \A i \in Id : disk[i].complete /\ Live(disk[i]) /\ reply[i] = "denied" => effects[i] = 0

\* A call waits for the receipt in its row, or for one that asks for consent.
WaitsWell(c) ==
    /\ id[follows[c]] = id[c] /\ digest[follows[c]] = digest[c]
    /\ \/ receipt[proc[c]][id[c]] = follows[c] /\ ~(object[follows[c]].done /\ object[follows[c]].lapsed)
       \/ object[follows[c]].done /\ object[follows[c]].reply = "consent"

Waiter(c) == Alive(c) /\ pc[c] = "wait" /\ ledger[proc[c]]

Waits == \A c \in Call : Waiter(c) => WaitsWell(c)

ReplyInv == Owned /\ Agreed /\ DeniedStored /\ Waits

\* A step after which every call that executes or waits did so before.
LEMMA SameAnswers ==
    ASSUME ReplyInv, UNCHANGED <<disk, reply, receipt, object, proc, id, digest, effects>>,
           \A l \in Call : object[l].done /\ ledger'[proc[l]] => ledger[proc[l]],
           \A l \in Call : Alive(l)' /\ pc'[l] \in Executing => Alive(l) /\ pc[l] \in Executing,
           \A l \in Call : Waiter(l)' => Waiter(l) /\ follows'[l] = follows[l]
    PROVE  ReplyInv'
<1>1. Owned'
  BY DEF ReplyInv, Owned
<1>2. Agreed'
  BY DEF ReplyInv, Agreed, Current, AgreesOn, Counts
<1>3. DeniedStored'
  BY DEF ReplyInv, DeniedStored
<1>4. Waits'
  BY DEF ReplyInv, Waits, WaitsWell
<1>5. QED
  BY <1>1, <1>2, <1>3, <1>4 DEF ReplyInv

LEMMA WalkTruth ==
    ASSUME TypeOK, ObjectInv, TruthInv, NEW c \in Call, NEW to, Walk(c, to)
    PROVE  TruthInv'
<1>1. \A l \in Call : pc'[l] = "dropped" => pc[l] \in Executing \cup {"dropped"}
  BY DEF Walk, Ways, Executing, TypeOK
<1>2. UNCHANGED <<object, digest>>
  BY DEF Walk, receipts
<1>3. QED
  BY <1>1, <1>2 DEF TruthInv, ObjectInv

LEMMA WalkReply ==
    ASSUME TypeInv, ObjectInv, Receipted, TruthInv, ReplyInv, NEW c \in Call, NEW to, Walk(c, to), Alive(c)
    PROVE  ReplyInv'
<1>1. /\ TypeOK /\ pc' = [pc EXCEPT ![c] = to] /\ Ways(pc[c], to)
      /\ UNCHANGED <<life, ledger, disk, reply, receipt, object, proc, id, digest, effects>>
      /\ pc \in [Call -> UnderWay \cup {"new", "check", "dropped", "end"}]
  BY DEF Walk, TypeInv, TypeOK, receipts, storage, processes
<1>2. \A l \in Call : Alive(l)' /\ pc'[l] \in Executing => Alive(l) /\ pc[l] \in Executing
  BY <1>1 DEF Ways, Executing, Alive
<1>3. CASE to # "wait"
  <2>1. UNCHANGED follows
    BY <1>3 DEF Walk
  <2>2. \A l \in Call : Waiter(l)' => Waiter(l) /\ follows'[l] = follows[l]
    BY <1>1, <1>3, <2>1 DEF Waiter, Alive
  <2>3. QED
    BY <1>1, <1>2, <2>2, SameAnswers
<1>4. CASE to = "wait"
  <2>1. /\ Valid(Known(c)) /\ Known(c).digest = digest[c] /\ receipt[proc[c]][id[c]] \in Call
        /\ follows' = [follows EXCEPT ![c] = receipt[proc[c]][id[c]]]
    BY <1>4 DEF Walk
  <2> DEFINE l == receipt[proc[c]][id[c]]
  <2>2. /\ Known(c) = object[l] /\ ~(object[l].done /\ object[l].lapsed) /\ object[l] # NoObject
        /\ proc[c] \in Proc /\ id[c] \in Id
    BY <1>1, <2>1, KnownCall DEF Valid, TypeOK
  <2>3. id[l] = id[c] /\ digest[l] = digest[c]
    BY <2>1, <2>2, NobodyAssumption DEF Receipted, TruthInv
  <2>4. follows'[c] = l
    BY <1>1, <2>1 DEF TypeOK
  <2>5. WaitsWell(c)'
    BY <1>1, <2>2, <2>3, <2>4 DEF WaitsWell
  <2>6. \A k \in Call \ {c} : Waiter(k)' => Waiter(k) /\ follows'[k] = follows[k]
    BY <1>1, <2>1 DEF Waiter, Alive, TypeOK
  <2>7. Waits'
    BY <1>1, <2>5, <2>6 DEF ReplyInv, Waits, WaitsWell
  <2>8. Owned'
    BY <1>1, <1>2 DEF ReplyInv, Owned
  <2>9. Agreed' /\ DeniedStored'
    BY <1>1 DEF ReplyInv, Agreed, Current, AgreesOn, Counts, DeniedStored
  <2>10. QED
    BY <2>7, <2>8, <2>9 DEF ReplyInv
<1>5. QED
  BY <1>3, <1>4

LEMMA LaunchReply ==
    ASSUME TypeInv, LedgerInv, Handover, Held, TruthInv, ReplyInv, NEW c \in Call, LaunchStep(c), Alive(c)
    PROVE  TruthInv' /\ ReplyInv'
<1>1. /\ pc[c] \in {"verdict", "parked"} /\ TypeOK
      /\ pc' = [pc EXCEPT ![c] = "running"] /\ effects' = [effects EXCEPT ![id[c]] = @ + 1]
      /\ UNCHANGED <<life, ledger, disk, reply, receipt, object, proc, id, digest, follows>>
      /\ pc \in [Call -> UnderWay \cup {"new", "check", "dropped", "end"}]
      /\ effects \in [Id -> Nat] /\ id[c] \in Id /\ proc[c] \in Proc
      /\ ~locked[proc[c]] \/ restart[proc[c]] = "none"
  BY LaunchFacts DEF MayLaunch, TypeInv, TypeOK, processes, storage, receipts
<1>2. ledger[proc[c]]
  BY <1>1 DEF Handover, Alive
<1>3. receipt[proc[c]][id[c]] = c /\ ~object[c].done
  BY <1>1 DEF ReplyInv, Owned, Executing
<1>4. Holder(c) /\ HoldsEntry(c)
  BY <1>1, <1>2 DEF Holder, Held, Executing
<1>5. \A i \in Id \ {id[c]} : effects'[i] = effects[i]
  BY <1>1
<1>6. TruthInv'
  BY <1>1 DEF TruthInv
<1>7. Owned'
  BY <1>1 DEF ReplyInv, Owned, Alive, Executing
<1>8. Waits'
  BY <1>1 DEF ReplyInv, Waits, Waiter, WaitsWell, Alive
<1>9. DeniedStored'
  BY <1>4, <1>1, <1>5 DEF ReplyInv, DeniedStored, HoldsEntry
<1>10. Agreed'
  <2>1. SUFFICES ASSUME NEW l \in Call, Current(l) PROVE AgreesOn(l)'
    BY <1>1 DEF Agreed, Current
  <2>2. AgreesOn(l) /\ id[l] \in Id /\ proc[l] \in Proc
    BY <1>1, <2>1 DEF ReplyInv, Agreed, TypeOK
  <2>3. proc[l] = proc[c]
    BY <1>1, <1>2, <2>1, <2>2 DEF Current, LedgerInv, LedgerIsCurrent
  <2>4. id[l] # id[c]
    BY <1>3, <2>1, <2>3 DEF Current
  <2>5. QED
    BY <1>1, <1>5, <2>2, <2>4 DEF AgreesOn, Counts
<1>11. QED
  BY <1>6, <1>7, <1>8, <1>9, <1>10 DEF ReplyInv

LEMMA ArriveReply ==
    ASSUME TypeInv, ObjectInv, Receipted, TruthInv, ReplyInv, NEW c \in Call, NEW p \in Proc, NEW i \in Id, NEW d \in Digest,
           Arrive(c, p, i, d)
    PROVE  TruthInv' /\ ReplyInv'
<1>1. /\ TypeOK /\ UNCHANGED <<life, ledger, disk, reply, receipt, object, effects, follows>> /\ pc[c] = "new"
      /\ pc' = [pc EXCEPT ![c] = "check"] /\ proc' = [proc EXCEPT ![c] = p]
      /\ id' = [id EXCEPT ![c] = i] /\ digest' = [digest EXCEPT ![c] = d]
      /\ pc \in [Call -> UnderWay \cup {"new", "check", "dropped", "end"}]
      /\ proc \in [Call -> Proc] /\ id \in [Call -> Id] /\ digest \in [Call -> Digest]
      /\ follows \in [Call -> Call]
  BY DEF Arrive, Goto, TypeInv, TypeOK, processes, storage, receipts
<1>2. object[c] = NoObject /\ ~object[c].done
  <2>1. object[c] = NoObject
    BY <1>1 DEF ObjectInv, Early
  <2>2. QED
    BY <2>1, ObjectFields
<1>3. \A l \in Call \ {c} : pc'[l] = pc[l] /\ proc'[l] = proc[l] /\ id'[l] = id[l] /\ digest'[l] = digest[l]
  BY <1>1
<1>4. pc'[c] = "check"
  BY <1>1
<1>5. TruthInv'
  BY <1>1, <1>2, <1>3, <1>4 DEF TruthInv
<1>6. Owned'
  BY <1>1, <1>3, <1>4 DEF ReplyInv, Owned, Alive, Executing
<1>7. Agreed'
  <2>1. SUFFICES ASSUME NEW l \in Call, Current(l)' PROVE AgreesOn(l)'
    BY DEF Agreed
  <2>2. l # c
    BY <1>1, <1>2, <2>1 DEF Current
  <2>3. QED
    BY <1>1, <1>3, <2>1, <2>2 DEF ReplyInv, Agreed, Current, AgreesOn, Counts
<1>8. DeniedStored'
  BY <1>1 DEF ReplyInv, DeniedStored
<1>9. Waits'
  <2>1. SUFFICES ASSUME NEW l \in Call, Waiter(l)' PROVE WaitsWell(l)'
    BY DEF Waits
  <2>2. l # c /\ pc[l] = "wait"
    BY <1>3, <1>4, <2>1 DEF Waiter
  <2>3. Waiter(l)
    BY <1>1, <1>3, <2>1, <2>2 DEF Waiter, Alive
  <2>4. follows[l] \in Call \ {c}
    BY <1>1, <2>2 DEF Receipted, Early
  <2>5. QED
    BY <1>1, <1>3, <2>2, <2>3, <2>4 DEF ReplyInv, Waits, WaitsWell
<1>10. QED
  BY <1>5, <1>6, <1>7, <1>8, <1>9 DEF ReplyInv

LEMMA LapseReply ==
    ASSUME TypeInv, ReplyInv, NEW i \in Id, Lapse(i)
    PROVE  ReplyInv'
<1>1. /\ TypeOK /\ UNCHANGED <<life, ledger, reply, receipt, object, pc, proc, id, digest, follows>>
      /\ effects' = IF disk[i].complete THEN [effects EXCEPT ![i] = 0] ELSE effects
      /\ effects \in [Id -> Nat]
  BY DEF Lapse, TypeInv, TypeOK, processes, receipts, calls
<1>2. /\ disk'[i].lapsed /\ disk'[i].complete = disk[i].complete
      /\ \A j \in Id \ {i} : disk'[j] = disk[j]
  BY LapsedDisk
<1>3. \A j \in Id : effects'[j] = effects[j] \/ effects'[j] = 0
  BY <1>1
<1>4. Owned' /\ Waits'
  BY <1>1 DEF ReplyInv, Owned, Waits, Waiter, WaitsWell, Alive
<1>5. DeniedStored'
  <2>1. SUFFICES ASSUME NEW j \in Id, disk'[j].complete, Live(disk'[j]), reply[j] = "denied" PROVE effects'[j] = 0
    BY <1>1 DEF DeniedStored
  <2>2. j # i
    BY <1>2, <2>1 DEF Live
  <2>3. QED
    BY <1>2, <1>3, <2>1, <2>2 DEF ReplyInv, DeniedStored
<1>6. Agreed'
  <2>1. SUFFICES ASSUME NEW l \in Call, Current(l) PROVE AgreesOn(l)'
    BY <1>1 DEF Agreed, Current
  <2>2. AgreesOn(l) /\ id[l] \in Id
    BY <1>1, <2>1 DEF ReplyInv, Agreed, TypeOK
  <2>3. disk'[id[l]] = disk[id[l]] \/ disk'[id[l]].lapsed
    BY <1>2, <2>2
  <2>4. QED
    BY <1>1, <1>3, <2>2, <2>3 DEF AgreesOn, Counts
<1>7. QED
  BY <1>4, <1>5, <1>6 DEF ReplyInv

\* A receipt does not lapse while its call, or one that waits for it, is under way.
LEMMA LapseObjectReply ==
    ASSUME TypeInv, Counted, Receipted, TruthInv, ReplyInv, NEW c \in Call, LapseObject(c), ~LongCalls
    PROVE  TruthInv' /\ ReplyInv'
<1>1. /\ TypeOK /\ UNCHANGED <<life, ledger, disk, reply, receipt, pc, proc, id, digest, follows>>
      /\ effects' = IF object[c].done /\ disk[id[c]] = NoEntry THEN [effects EXCEPT ![id[c]] = 0] ELSE effects
      /\ effects \in [Id -> Nat] /\ id[c] \in Id
      /\ \A l \in Call : Alive(l) /\ id[l] = id[c] => pc[l] \notin UnderWay
  BY DEF LapseObject, MayLapse, TypeInv, TypeOK, processes, storage, calls
<1>2. /\ object[c] # NoObject
      /\ object'[c].done = object[c].done /\ object'[c].reply = object[c].reply
      /\ object'[c].digest = object[c].digest /\ object'[c].retryable = object[c].retryable
      /\ object'[c].lapsed
      /\ \A l \in Call \ {c} : object'[l] = object[l]
  BY <1>1, LapseObjectFacts
<1>3. object'[c] # NoObject
  BY <1>2 DEF NoObject
<1>4. effects' = effects
  <2>1. disk[id[c]] = NoEntry => effects[id[c]] = 0
    BY <1>1 DEF Counted, Live
  <2>2. QED
    BY <1>1, <2>1
<1>5. TruthInv'
  BY <1>1, <1>2, <1>3 DEF TruthInv
<1>6. Owned'
  <2>1. SUFFICES ASSUME NEW d \in Call, Alive(d), pc[d] \in Executing
                 PROVE  receipt[proc[d]][id[d]] = d /\ ~object'[d].done /\ ~object'[d].lapsed
    BY <1>1 DEF Owned, Alive
  <2>2. d # c
    BY <1>1, <2>1 DEF Executing, UnderWay
  <2>3. QED
    BY <1>2, <2>1, <2>2 DEF ReplyInv, Owned
<1>7. Agreed'
  <2>1. \A l \in Call : Current(l)' => l # c /\ Current(l)
    BY <1>1, <1>2 DEF Current
  <2>2. QED
    BY <1>1, <1>2, <1>4, <2>1 DEF ReplyInv, Agreed, AgreesOn, Counts
<1>8. DeniedStored'
  BY <1>1, <1>4 DEF ReplyInv, DeniedStored
<1>9. Waits'
  <2>1. SUFFICES ASSUME NEW l \in Call, Waiter(l) PROVE WaitsWell(l)'
    BY <1>1 DEF Waits, Waiter, Alive
  <2>2. WaitsWell(l) /\ Alive(l) /\ pc[l] = "wait" /\ follows[l] \in Call
    BY <1>1, <2>1 DEF ReplyInv, Waits, Waiter, TypeOK
  <2>3. follows[l] # c
    BY <1>1, <2>2 DEF WaitsWell, UnderWay
  <2>4. QED
    BY <1>1, <1>2, <2>2, <2>3 DEF WaitsWell
<1>10. QED
  BY <1>5, <1>6, <1>7, <1>8, <1>9 DEF ReplyInv

LEMMA ProcessReply ==
    ASSUME TypeInv, ProcessInv, ObjectInv, ReplyInv, NEW p \in Proc, ProcessStep(p), Orderly
    PROVE  ReplyInv'
<1>1. UNCHANGED <<disk, reply, receipt, object, pc, proc, id, digest, follows, effects>> /\ TypeOK
  BY DEF ProcessStep, Start, Die, BeginRestart, LockStorage, Release, Recover, storage, receipts, calls, TypeInv
<1>2. \A q \in Proc : \/ /\ life'[q] = "up" => life[q] = "up"
                         /\ ledger'[q] => ledger[q]
                      \/ life[q] = "unborn"
  <2>1. ~Recover(p)
    BY DEF Recover, Orderly
  <2>2. CASE Start(p)
    BY <1>1, <2>2 DEF Start, OpenStorage, TypeOK
  <2>3. CASE ~Start(p)
    BY <1>1, <2>1, <2>3 DEF ProcessStep, Die, BeginRestart, LockStorage, Release, Dispossess, storage, TypeOK
  <2>4. QED
    BY <2>2, <2>3
<1>3. \A l \in Call : pc[l] # "new" => /\ life'[proc[l]] = "up" => life[proc[l]] = "up"
                                       /\ ledger'[proc[l]] => ledger[proc[l]]
  BY <1>1, <1>2 DEF ProcessInv, TypeOK
<1>4. \A l \in Call : object[l].done => pc[l] # "new"
  <2>1. SUFFICES ASSUME NEW l \in Call, pc[l] = "new" PROVE ~object[l].done
    OBVIOUS
  <2>2. object[l] = NoObject
    BY <2>1 DEF ObjectInv, Early
  <2>3. QED
    BY <2>2, ObjectFields
<1>5. \A l \in Call : object[l].done /\ ledger'[proc[l]] => ledger[proc[l]]
  BY <1>3, <1>4
<1>6. \A l \in Call : Alive(l)' => Alive(l)
  BY <1>1, <1>3 DEF Alive
<1>7. \A l \in Call : Waiter(l)' => Waiter(l) /\ follows'[l] = follows[l]
  BY <1>1, <1>3, <1>6 DEF Waiter
<1>8. QED
  BY <1>1, <1>5, <1>6, <1>7, SameAnswers

\* What a finish tells: with the ledger, the outcome that is stored now, or
\* that it could not be saved.
FinishTells(c, r) ==
    /\ Settled(c, r)
    /\ \A j \in Id \ {id[c]} : disk'[j] = disk[j] /\ reply'[j] = reply[j]
    /\ ~ledger[proc[c]] => UNCHANGED <<disk, reply>>
    /\ ledger[proc[c]] => \/ ~disk'[id[c]].complete /\ r = "unsaved"
                          \/ reply'[id[c]] = r /\ r = outcome[c]
    /\ ledger[proc[c]] /\ r = "denied" => effects[id[c]] = 0

LEMMA FinishAnswers ==
    ASSUME TypeInv, LedgerInv, ObjectInv, Held, NEW c \in Call, FinishInvocation(c), Alive(c)
    PROVE  \E r \in Final : FinishTells(c, r)
<1>1. /\ pc[c] = "finish" /\ TypeOK
      /\ UNCHANGED <<ledger, proc, id, effects>>
      /\ id[c] \in Id /\ proc[c] \in Proc /\ reply \in [Id -> Final \cup {"none"}]
      /\ Stored(c) \/ Unstored(c)
  BY Finishes DEF Stored, Unstored, TypeInv, TypeOK, processes
<1>2. outcome[c] \in Final /\ "unsaved" \in Final
  BY <1>1 DEF ObjectInv, Final
<1>3. PICK r \in Final : /\ Settled(c, r)
                         /\ \/ Stored(c) /\ r = outcome[c]
                            \/ Unstored(c) /\ (r = "unsaved" \/ (ledger[proc[c]] => index[proc[c]][id[c]].complete))
  BY <1>1, <1>2 DEF Stored, Unstored
\* With the ledger, the entry is held: not complete before.
<1>4. ledger[proc[c]] => HoldsEntry(c) /\ index[proc[c]] = disk
  BY <1>1 DEF Holder, Held, Executing, LedgerInv, LedgerIsCurrent
\* Of the entries, only that of the call may have changed.
<1>5. \A j \in Id \ {id[c]} : disk'[j] = disk[j] /\ reply'[j] = reply[j]
  <2>1. CASE Stored(c)
    <3>1. /\ \A j \in Id \ {id[c]} : disk'[j] = disk[j]
          /\ reply' = [reply EXCEPT ![id[c]] = outcome[c]]
      BY <2>1, StoredDisk
    <3>2. QED
      BY <1>1, <3>1
  <2>2. CASE Unstored(c)
    BY <1>1, <2>2 DEF Unstored
  <2>3. QED
    BY <1>1, <2>1, <2>2
<1>6. ~ledger[proc[c]] => UNCHANGED <<disk, reply>>
  BY <1>1 DEF Stored, Unstored
\* The entry of the call is not complete, or has its outcome.
<1>7. ledger[proc[c]] =>
          \/ ~disk'[id[c]].complete /\ r = "unsaved"
          \/ reply'[id[c]] = r /\ r = outcome[c]
  <2>1. CASE Stored(c) /\ r = outcome[c]
    <3>1. reply' = [reply EXCEPT ![id[c]] = outcome[c]]
      BY <2>1, StoredDisk
    <3>2. QED
      BY <1>1, <2>1, <3>1
  <2>2. CASE Unstored(c) /\ (r = "unsaved" \/ (ledger[proc[c]] => index[proc[c]][id[c]].complete))
    BY <1>4, <2>2 DEF Unstored, HoldsEntry
  <2>3. QED
    BY <1>3, <2>1, <2>2
<1>8. ledger[proc[c]] /\ r = "denied" => effects[id[c]] = 0
  BY <1>1, <1>4, <1>7 DEF HoldsEntry
<1>9. FinishTells(c, r)
  <2>1. Settled(c, r)
    BY <1>3
  <2>2. QED
    BY <2>1, <1>5, <1>6, <1>7, <1>8 DEF FinishTells
<1>10. QED
  BY <1>9

LEMMA FinishReply ==
    ASSUME TypeInv, LedgerInv, ObjectInv, Held, Receipted, TruthInv, ReplyInv,
           NEW c \in Call, FinishInvocation(c), Alive(c)
    PROVE  TruthInv' /\ ReplyInv'
<1>1. /\ pc[c] = "finish" /\ TypeOK
      /\ UNCHANGED <<life, ledger, receipt, proc, id, digest, follows, outcome, effects>>
      /\ pc \in [Call -> UnderWay \cup {"new", "check", "dropped", "end"}]
      /\ id[c] \in Id /\ proc[c] \in Proc
  BY Finishes DEF Stored, Unstored, TypeInv, TypeOK, processes
<1>2. /\ receipt[proc[c]][id[c]] = c /\ ~object[c].done /\ ~object[c].lapsed /\ object[c] # NoObject
      /\ object[c].digest = digest[c]
  BY <1>1 DEF ReplyInv, Owned, ObjectInv, TruthInv, Executing
<1>3. PICK r \in Final : FinishTells(c, r)
  BY FinishAnswers
<1>4. /\ object'[c].digest = object[c].digest /\ object'[c].lapsed = object[c].lapsed
      /\ object'[c].done /\ object'[c].reply = r /\ (object'[c].retryable <=> r = "consent")
      /\ \A l \in Call \ {c} : object'[l] = object[l]
  <2>1. Settled(c, r)
    BY <1>3 DEF FinishTells
  <2>2. QED
    BY <1>1, <1>2, <2>1, SettledObject
<1>5. pc' = [pc EXCEPT ![c] = "end"]
  BY <1>3 DEF FinishTells, Settled, Tell
<1>6. object'[c] # NoObject
  BY <1>4, ObjectFields DEF NoObject
<1>7. TruthInv'
  <2>1. \A l \in Call : object'[l] # NoObject => object'[l].digest = digest'[l]
    BY <1>1, <1>2, <1>4 DEF TruthInv
  <2>2. \A l \in Call : object'[l].retryable => object'[l].done /\ object'[l].reply = "consent"
    BY <1>4 DEF TruthInv
  <2>3. \A l \in Call : pc'[l] = "dropped" => object'[l] # NoObject
    BY <1>1, <1>4, <1>5 DEF TruthInv
  <2>4. QED
    BY <2>1, <2>2, <2>3 DEF TruthInv
<1>8. Owned'
  BY <1>1, <1>4, <1>5 DEF ReplyInv, Owned, Alive, Executing
<1>9. Waits'
  <2>1. SUFFICES ASSUME NEW l \in Call, Waiter(l)' PROVE WaitsWell(l)'
    BY DEF Waits
  <2>2. Waiter(l) /\ l # c /\ follows[l] \in Call
    BY <1>1, <1>5, <2>1 DEF Waiter, Alive, TypeOK
  <2>3. WaitsWell(l)
    BY <2>2 DEF ReplyInv, Waits
  <2>4. CASE follows[l] = c
    BY <1>1, <1>2, <1>4, <2>3, <2>4 DEF WaitsWell
  <2>5. CASE follows[l] # c
    BY <1>1, <1>4, <2>2, <2>3, <2>5 DEF WaitsWell
  <2>6. QED
    BY <2>4, <2>5
<1>10. DeniedStored'
  <2>1. SUFFICES ASSUME NEW j \in Id, disk'[j].complete, Live(disk'[j]), reply'[j] = "denied" PROVE effects[j] = 0
    BY <1>1 DEF DeniedStored
  <2>2. CASE j = id[c] /\ ledger[proc[c]]
    BY <1>3, <2>1, <2>2 DEF FinishTells
  <2>3. CASE j # id[c] \/ ~ledger[proc[c]]
    BY <1>3, <2>1, <2>3 DEF FinishTells, ReplyInv, DeniedStored
  <2>4. QED
    BY <2>2, <2>3
<1>11. Agreed'
  <2>1. SUFFICES ASSUME NEW l \in Call, Current(l)' PROVE AgreesOn(l)'
    BY DEF Agreed
  <2>2. id[l] \in Id /\ proc[l] \in Proc /\ ledger[proc[l]] /\ receipt[proc[l]][id[l]] = l
    BY <1>1, <2>1 DEF Current, TypeOK
  <2>3. CASE l = c
    BY <1>1, <1>3, <1>4, <2>2, <2>3 DEF FinishTells, AgreesOn, Counts
  <2>4. CASE l # c
    <3>1. Current(l) /\ AgreesOn(l)
      BY <1>1, <1>4, <2>1, <2>4 DEF Current, ReplyInv, Agreed
    <3>2. id[l] # id[c] \/ ~ledger[proc[c]]
      BY <1>1, <1>2, <2>2, <2>4 DEF LedgerInv, LedgerIsCurrent
    <3>3. disk'[id[l]] = disk[id[l]] /\ reply'[id[l]] = reply[id[l]]
      BY <1>3, <2>2, <3>2 DEF FinishTells
    <3>4. QED
      BY <1>1, <1>4, <2>4, <3>1, <3>3 DEF AgreesOn, Counts
  <2>5. QED
    BY <2>3, <2>4
<1>12. QED
  BY <1>7, <1>8, <1>9, <1>10, <1>11 DEF ReplyInv

\* A claim leaves the rows alone that another call needs.
LEMMA RowStays ==
    ASSUME TypeOK, NEW c \in Call, MayClaim(c), NEW i \in Id, NEW l \in Call,
           receipt[proc[c]][i] = l, object[l] # NoObject, ~(object[l].done /\ object[l].lapsed), ~object[l].retryable
    PROVE  i # id[c] /\ Rows(c)[i] = l
<1>1. proc[c] \in Proc /\ l # Nobody /\ receipt \in [Proc -> [Id -> Call \cup {Nobody}]]
  BY NobodyAssumption DEF TypeOK
<1>2. i # id[c]
  <2>1. SUFFICES ASSUME i = id[c] PROVE FALSE
    OBVIOUS
  <2>2. Known(c) = object[l]
    BY <1>1, <2>1 DEF Known
  <2>3. Valid(Known(c))
    BY <2>2 DEF Valid
  <2>4. QED
    BY <2>2, <2>3 DEF MayClaim
<1>3. Kept(proc[c]) \in [Id -> Call \cup {Nobody}] /\ Kept(proc[c])[i] = l
  BY <1>1 DEF Kept
<1>4. QED
  BY <1>2, <1>3 DEF Rows

\* What a claim leaves behind: a refusal, a receipt to execute, or a receipt
\* that has its answer already.
Leaves(c, to) ==
    /\ pc' = [pc EXCEPT ![c] = to]
    /\ \A l \in Call \ {c} : object'[l] = object[l] /\ follows'[l] = follows[l]
    /\ to = "end" => object'[c] = object[c]
    /\ to = "verdict" => object'[c] = Opened(digest[c])
    /\ to = "wait" => Joined(c) /\ follows'[c] = c
    /\ to # "end" => receipt'[proc[c]][id[c]] = c

LEMMA ClaimLeaves ==
    ASSUME TypeInv, NEW c \in Call, Refused(c) \/ Unrecorded(c) \/ Recorded(c) \/ Joined(c)
    PROVE  \E to \in {"end", "verdict", "wait"} : Leaves(c, to)
<1>1. /\ object \in [Call -> Object \cup {NoObject}] /\ follows \in [Call -> Call]
      /\ receipt \in [Proc -> [Id -> Call \cup {Nobody}]] /\ proc[c] \in Proc /\ id[c] \in Id
  BY DEF TypeInv, TypeOK
<1>2. ASSUME NEW o, Made(c, o)
      PROVE  /\ receipt'[proc[c]][id[c]] = c /\ object'[c] = o
             /\ \A l \in Call \ {c} : object'[l] = object[l]
  <2>1. Rows(c) \in [Id -> Call \cup {Nobody}]
    BY RowsKept
  <2>2. [Rows(c) EXCEPT ![id[c]] = c][id[c]] = c
    BY <1>1, <2>1
  <2>3. QED
    BY <1>1, <1>2, <2>2 DEF Made
<1>3. CASE Refused(c)
  <2>1. Leaves(c, "end")
    BY <1>3 DEF Leaves, Refused, Tell
  <2>2. QED
    BY <2>1
<1>4. CASE Unrecorded(c) \/ Recorded(c)
  <2>1. Made(c, Opened(digest[c])) /\ pc' = [pc EXCEPT ![c] = "verdict"] /\ UNCHANGED follows
    BY <1>4 DEF Unrecorded, Recorded
  <2>2. Leaves(c, "verdict")
    BY <1>2, <2>1 DEF Leaves
  <2>3. QED
    BY <2>2
<1>5. CASE Joined(c)
  <2> DEFINE o == Closed(digest[c], IF ClaimOf(c).says = "replay" THEN reply[id[c]] ELSE "interrupted")
  <2>1. Made(c, o) /\ pc' = [pc EXCEPT ![c] = "wait"] /\ follows' = [follows EXCEPT ![c] = c]
    BY <1>5 DEF Joined
  <2> HIDE DEF o
  <2>2. Leaves(c, "wait")
    BY <1>1, <1>2, <1>5, <2>1 DEF Leaves
  <2>3. QED
    BY <2>2
<1>6. QED
  BY <1>3, <1>4, <1>5

\* The rows after a claim: those of its process are kept, or its own.
LEMMA ClaimRows ==
    ASSUME TypeInv, NEW c \in Call, Refused(c) \/ Unrecorded(c) \/ Recorded(c) \/ Joined(c)
    PROVE  /\ \A p \in Proc \ {proc[c]} : receipt'[p] = receipt[p]
           /\ \A i \in Id \ {id[c]} : receipt'[proc[c]][i] = Rows(c)[i]
           /\ receipt'[proc[c]][id[c]] \in {c, Rows(c)[id[c]]}
<1> DEFINE made == [Rows(c) EXCEPT ![id[c]] = c]
<1>1. receipt \in [Proc -> [Id -> Call \cup {Nobody}]] /\ proc[c] \in Proc /\ id[c] \in Id
  BY DEF TypeInv, TypeOK
<1>2. Rows(c) \in [Id -> Call \cup {Nobody}]
  BY RowsKept
<1>3. made[id[c]] = c /\ \A i \in Id \ {id[c]} : made[i] = Rows(c)[i]
  BY <1>1, <1>2
<1>4. receipt' = [receipt EXCEPT ![proc[c]] = Rows(c)] \/ receipt' = [receipt EXCEPT ![proc[c]] = made]
  BY DEF Refused, Unrecorded, Recorded, Joined, Made
<1> HIDE DEF made
<1>5. CASE receipt' = [receipt EXCEPT ![proc[c]] = Rows(c)]
  BY <1>1, <1>5
<1>6. CASE receipt' = [receipt EXCEPT ![proc[c]] = made]
  BY <1>1, <1>3, <1>6
<1>7. QED
  BY <1>4, <1>5, <1>6

\* An entry that is complete after a claim was so before, with its reply.
LEMMA ClaimDisk ==
    ASSUME TypeInv, LedgerInv, NEW c \in Call, Refused(c) \/ Unrecorded(c) \/ Recorded(c) \/ Joined(c)
    PROVE  \A j \in Id : disk'[j].complete => disk'[j] = disk[j] /\ reply'[j] = reply[j]
<1>1. CASE ~Recorded(c)
  BY <1>1 DEF Refused, Unrecorded, Joined, storage
<1>2. CASE Recorded(c)
  <2>1. /\ ~disk'[id[c]].complete /\ reply' = Swept(disk')
        /\ \A j \in Id \ {id[c]} : disk'[j] = disk[j] \/ disk'[j] = NoEntry
    BY <1>2, RecordedDisk
  <2>2. SUFFICES ASSUME NEW j \in Id, disk'[j].complete PROVE disk'[j] = disk[j] /\ reply'[j] = reply[j]
    OBVIOUS
  <2>3. disk'[j] # NoEntry
    BY <2>2 DEF NoEntry
  <2>4. QED
    BY <2>1, <2>2, <2>3 DEF Swept
<1>3. QED
  BY <1>1, <1>2

\* The receipt of an entry that is there has the answer of that entry.
LEMMA JoinedAnswer ==
    ASSUME TypeInv, LedgerInv, NEW c \in Call, Joined(c)
    PROVE  /\ object'[c].digest = digest[c] /\ object'[c].done
           /\ ~object'[c].retryable /\ ~object'[c].lapsed /\ UNCHANGED <<ledger, disk, reply>>
           /\ \/ ~disk[id[c]].complete /\ object'[c].reply = "interrupted"
              \/ disk[id[c]].complete /\ Live(disk[id[c]]) /\ object'[c].reply = reply[id[c]]
<1> DEFINE r == IF ClaimOf(c).says = "replay" THEN reply[id[c]] ELSE "interrupted"
<1>1. /\ object \in [Call -> Object \cup {NoObject}] /\ proc[c] \in Proc /\ id[c] \in Id /\ digest[c] \in Digest
      /\ reply[id[c]] \in Final \cup {"none"} /\ disk \in [Id -> Rowed]
  BY DEF TypeInv, TypeOK, Rowed
<1>2. index[proc[c]] = disk
  BY <1>1 DEF Joined, LedgerInv, LedgerIsCurrent
<1>3. /\ ClaimOf(c).says \in {"replay", "interrupted"}
      /\ object' = [object EXCEPT ![c] = Closed(digest[c], r)] /\ UNCHANGED <<ledger, disk, reply>>
  BY DEF Joined, Made, storage
<1>4. /\ Live(disk[id[c]])
      /\ ClaimOf(c).says = "replay" => disk[id[c]].complete
      /\ ClaimOf(c).says = "interrupted" => ~disk[id[c]].complete
  BY <1>1, <1>2, <1>3, ClaimAnswers DEF ClaimOf
<1>5. /\ r \in Final \cup {"none"}
      /\ \/ ~disk[id[c]].complete /\ r = "interrupted"
         \/ disk[id[c]].complete /\ Live(disk[id[c]]) /\ r = reply[id[c]]
  BY <1>1, <1>3, <1>4 DEF Final
<1> HIDE DEF r
<1>6. /\ Closed(digest[c], r).digest = digest[c] /\ Closed(digest[c], r).reply = r
      /\ Closed(digest[c], r).done /\ ~Closed(digest[c], r).retryable /\ ~Closed(digest[c], r).lapsed
  BY <1>1, <1>5, ClosedObject
<1>7. object'[c] = Closed(digest[c], r)
  BY <1>1, <1>3
<1>8. QED
  BY <1>3, <1>5, <1>6, <1>7

\* Who is answered has a receipt object.
LEMMA AnsweringObject ==
    ASSUME TypeOK, ObjectInv, TruthInv, NEW l \in Call, Answering(l)
    PROVE  object[l] # NoObject
<1>1. object[l] \in Object \cup {NoObject}
  BY DEF TypeOK
<1>2. object[l].done => object[l] # NoObject
  BY <1>1, ObjectFields
<1>3. QED
  BY <1>2 DEF Answering, ObjectInv, TruthInv

LEMMA ClaimReply ==
    ASSUME TypeInv, LedgerInv, ObjectInv, Receipted, TruthInv, ReplyInv,
           NEW c \in Call, ClaimInvocation(c), Alive(c)
    PROVE  TruthInv' /\ ReplyInv'
<1>1. /\ pc[c] = "claim" /\ TypeOK /\ MayClaim(c)
      /\ UNCHANGED <<life, proc, id, digest, effects>>
      /\ Refused(c) \/ Unrecorded(c) \/ Recorded(c) \/ Joined(c)
  BY Claims DEF MayClaim, TypeInv, processes
<1>2. /\ pc \in [Call -> UnderWay \cup {"new", "check", "dropped", "end"}]
      /\ receipt \in [Proc -> [Id -> Call \cup {Nobody}]] /\ follows \in [Call -> Call]
      /\ object \in [Call -> Object \cup {NoObject}]
      /\ \A l \in Call : proc[l] \in Proc /\ id[l] \in Id /\ digest[l] \in Digest
  BY <1>1 DEF TypeOK
<1>3. UNCHANGED ledger
  BY <1>1 DEF Refused, Unrecorded, Recorded, Joined, storage
<1>4. PICK to \in {"end", "verdict", "wait"} : Leaves(c, to)
  BY <1>1, ClaimLeaves
<1>5. pc'[c] = to /\ \A l \in Call \ {c} : pc'[l] = pc[l] /\ object'[l] = object[l] /\ follows'[l] = follows[l]
  BY <1>2, <1>4 DEF Leaves
<1>6. /\ to # "end" => receipt'[proc[c]][id[c]] = c
      /\ to = "wait" => Joined(c) /\ follows'[c] = c
      /\ to = "verdict" => object'[c] = Opened(digest[c])
      /\ to = "end" => object'[c] = NoObject
  BY <1>1, <1>4 DEF Leaves, ObjectInv, Early
\* The receipt of the call, if it has one, is of its input and fresh.
<1>7. /\ object'[c] # NoObject => object'[c].digest = digest[c]
      /\ ~object'[c].retryable /\ ~object'[c].lapsed
      /\ object'[c].done => to = "wait"
  <2>1. CASE to = "end"
    BY <1>6, <2>1 DEF NoObject
  <2>2. CASE to = "verdict"
    BY <1>2, <1>6, <2>2, OpenedObject
  <2>3. CASE to = "wait"
    BY <1>6, <2>3, JoinedAnswer
  <2>4. QED
    BY <1>4, <2>1, <2>2, <2>3
\* Who needs its row keeps it.
<1>8. ASSUME NEW p \in Proc, NEW i \in Id, NEW l \in Call \ {c}, receipt[p][i] = l, object[l] # NoObject,
             ~(object[l].done /\ object[l].lapsed), ~object[l].retryable
      PROVE  receipt'[p][i] = l
  <2>1. CASE p = proc[c]
    <3>1. i # id[c] /\ Rows(c)[i] = l
      BY <1>1, <1>8, <2>1, RowStays
    <3>2. QED
      BY <1>1, <2>1, <3>1, ClaimRows
  <2>2. CASE p # proc[c]
    BY <1>1, <1>8, <2>2, ClaimRows
  <2>3. QED
    BY <2>1, <2>2
<1>9. ASSUME NEW l \in Call \ {c}, receipt'[proc[l]][id[l]] = l
      PROVE  receipt[proc[l]][id[l]] = l
  <2>1. l # Nobody /\ proc[l] \in Proc /\ id[l] \in Id
    BY <1>2, NobodyAssumption
  <2>2. CASE proc[l] = proc[c]
    <3>1. receipt'[proc[c]][id[l]] \in {c, Rows(c)[id[l]]}
      BY <1>1, <2>1, ClaimRows
    <3>2. Rows(c)[id[l]] \in {receipt[proc[c]][id[l]], Nobody}
      BY <2>1, RowsKept
    <3>3. QED
      BY <1>9, <2>1, <2>2, <3>1, <3>2
  <2>3. CASE proc[l] # proc[c]
    BY <1>1, <1>9, <2>1, <2>3, ClaimRows
  <2>4. QED
    BY <2>2, <2>3
<1>10. TruthInv'
  <2>1. \A l \in Call : object'[l] # NoObject => object'[l].digest = digest'[l]
    BY <1>1, <1>5, <1>7 DEF TruthInv
  <2>2. \A l \in Call : object'[l].retryable => object'[l].done /\ object'[l].reply = "consent"
    BY <1>5, <1>7 DEF TruthInv
  <2>3. \A l \in Call : pc'[l] = "dropped" => object'[l] # NoObject
    BY <1>5 DEF TruthInv
  <2>4. QED
    BY <2>1, <2>2, <2>3 DEF TruthInv
<1>11. Owned'
  <2>1. SUFFICES ASSUME NEW d \in Call, Alive(d)', pc'[d] \in Executing
                 PROVE  receipt'[proc[d]][id[d]] = d /\ ~object'[d].done /\ ~object'[d].lapsed
    BY <1>1 DEF Owned
  <2>2. CASE d = c
    BY <1>5, <1>6, <1>7, <2>1, <2>2 DEF Executing
  <2>3. CASE d # c
    <3>1. Alive(d) /\ pc[d] \in Executing
      BY <1>1, <1>5, <2>1, <2>3 DEF Alive
    <3>2. receipt[proc[d]][id[d]] = d /\ ~object[d].done /\ ~object[d].lapsed
      BY <3>1 DEF ReplyInv, Owned
    <3>3. object[d] # NoObject /\ ~object[d].retryable
      BY <3>1, <3>2 DEF ObjectInv, TruthInv
    <3>4. d \in Call \ {c} /\ proc[d] \in Proc /\ id[d] \in Id
      BY <1>2, <2>1, <2>3
    <3>5. receipt'[proc[d]][id[d]] = d
      BY <1>8, <3>2, <3>3, <3>4, Zenon
    <3>6. object'[d] = object[d]
      BY <1>5, <3>4
    <3>7. QED
      BY <3>2, <3>5, <3>6
  <2>4. QED
    BY <2>2, <2>3
<1>12. DeniedStored'
  BY <1>1, ClaimDisk DEF ReplyInv, DeniedStored
<1>13. Agreed'
  <2>1. SUFFICES ASSUME NEW l \in Call, Current(l)' PROVE AgreesOn(l)'
    BY DEF Agreed
  <2>2. CASE l = c
    <3>1. Joined(c)
      BY <1>5, <1>6, <1>7, <2>1, <2>2 DEF Current
    <3>2. /\ UNCHANGED <<ledger, disk, reply>>
          /\ \/ ~disk[id[c]].complete /\ object'[c].reply = "interrupted"
             \/ disk[id[c]].complete /\ Live(disk[id[c]]) /\ object'[c].reply = reply[id[c]]
      BY <3>1, JoinedAnswer
    <3>3. QED
      BY <1>1, <1>2, <2>2, <3>2 DEF AgreesOn, Counts, ReplyInv, DeniedStored
  <2>3. CASE l # c
    <3>1. Current(l)
      BY <1>1, <1>3, <1>5, <1>9, <2>1, <2>3 DEF Current
    <3>2. AgreesOn(l)
      BY <3>1 DEF ReplyInv, Agreed
    <3>3. disk'[id[l]].complete => disk'[id[l]] = disk[id[l]] /\ reply'[id[l]] = reply[id[l]]
      BY <1>1, <1>2, ClaimDisk
    <3>4. QED
      BY <1>1, <1>5, <2>3, <3>2, <3>3 DEF AgreesOn, Counts
  <2>4. QED
    BY <2>2, <2>3
<1>14. Waits'
  <2>1. SUFFICES ASSUME NEW l \in Call, Waiter(l)' PROVE WaitsWell(l)'
    BY DEF Waits
  <2>2. CASE l = c
    <3>1. follows'[c] = c /\ receipt'[proc[c]][id[c]] = c
      BY <1>5, <1>6, <2>1, <2>2 DEF Waiter
    <3>2. QED
      BY <1>1, <1>7, <2>2, <3>1 DEF WaitsWell
  <2>3. CASE l # c
    <3>1. Waiter(l)
      BY <1>1, <1>3, <1>5, <2>1, <2>3 DEF Waiter, Alive
    <3>2. /\ WaitsWell(l) /\ follows[l] \in Call \ {c} /\ Answering(follows[l])
      BY <1>1, <1>2, <3>1 DEF ReplyInv, Waits, Waiter, Receipted, Early
    <3>3. object[follows[l]] # NoObject
      BY <1>1, <3>2, AnsweringObject
    <3>4. object'[follows[l]] = object[follows[l]] /\ follows'[l] = follows[l]
      BY <1>5, <2>3, <3>2
    <3>5. CASE object[follows[l]].retryable
      BY <1>1, <3>2, <3>4, <3>5 DEF WaitsWell, TruthInv
    <3>6. CASE ~object[follows[l]].retryable
      <4>1. receipt[proc[l]][id[l]] = follows[l] /\ ~(object[follows[l]].done /\ object[follows[l]].lapsed)
               => receipt'[proc[l]][id[l]] = follows[l]
        BY <1>2, <1>8, <3>2, <3>3, <3>6
      <4>2. QED
        BY <1>1, <3>2, <3>4, <4>1 DEF WaitsWell
    <3>7. QED
      BY <3>5, <3>6
  <2>4. QED
    BY <2>2, <2>3
<1>15. QED
  BY <1>10, <1>11, <1>12, <1>13, <1>14 DEF ReplyInv

LEMMA ReplyInit == Init => TruthInv /\ ReplyInv
<1>1. SUFFICES ASSUME Init PROVE TruthInv /\ ReplyInv
  OBVIOUS
<1>2. \A l \in Call : object[l] = NoObject /\ pc[l] = "new"
  BY <1>1 DEF Init
<1>3. \A i \in Id : ~disk[i].complete
  BY <1>1 DEF Init, NoEntry
<1>4. \A l \in Call : ~object[l].done /\ ~object[l].retryable
  BY <1>2 DEF NoObject
<1>5. TruthInv
  BY <1>2, <1>4 DEF TruthInv
<1>6. ReplyInv
  BY <1>2, <1>3, <1>4 DEF ReplyInv, Owned, Agreed, Current, DeniedStored, Waits, Waiter, Executing
<1>7. QED
  BY <1>5, <1>6

AnswerInv == TruthInv /\ OrderInv /\ ReplyInv

LEMMA AnswerStep == ReceiptInv /\ Orderly /\ AnswerInv /\ [Next]_vars => AnswerInv'
<1>1. SUFFICES ASSUME ReceiptInv, Orderly, AnswerInv, [Next]_vars PROVE TruthInv' /\ ReplyInv'
  BY OrderStep DEF AnswerInv
<1>2. /\ TypeInv /\ TypeOK /\ LedgerInv /\ ProcessInv /\ ObjectInv /\ Receipted /\ Orderly /\ ~LongCalls
      /\ TruthInv /\ Handover /\ Held /\ Counted /\ ReplyInv
  BY <1>1 DEF ReceiptInv, TypeInv, Orderly, OrderInv, AnswerInv
<1>3. ASSUME NEW c \in Call, NEW p \in Proc, NEW i \in Id, NEW d \in Digest, Arrive(c, p, i, d)
      PROVE  TruthInv' /\ ReplyInv'
  BY <1>2, <1>3, ArriveReply
<1>4. ASSUME NEW c \in Call, CallStep(c)
      PROVE  TruthInv' /\ ReplyInv'
  <2>1. Alive(c) /\ (WalkStep(c) \/ LaunchStep(c) \/ ClaimInvocation(c) \/ FinishInvocation(c))
    BY <1>4, CallSteps
  <2>2. CASE WalkStep(c)
    <3>1. PICK to : Walk(c, to)
      BY <1>2, <2>2, Walks
    <3>2. QED
      BY <1>2, <2>1, <3>1, WalkTruth, WalkReply
  <2>3. CASE LaunchStep(c)
    BY <1>2, <2>1, <2>3, LaunchReply
  <2>4. CASE ClaimInvocation(c)
    BY <1>2, <2>1, <2>4, ClaimReply
  <2>5. CASE FinishInvocation(c)
    BY <1>2, <2>1, <2>5, FinishReply
  <2>6. QED
    BY <2>1, <2>2, <2>3, <2>4, <2>5
<1>5. ASSUME NEW c \in Call, LapseObject(c)
      PROVE  TruthInv' /\ ReplyInv'
  BY <1>2, <1>5, LapseObjectReply
<1>6. ASSUME NEW p \in Proc, ProcessStep(p)
      PROVE  TruthInv' /\ ReplyInv'
  <2>1. UNCHANGED <<receipts, calls>>
    BY <1>6 DEF ProcessStep, Start, Die, BeginRestart, LockStorage, Release, Recover
  <2>2. TruthInv'
    BY <1>2, <2>1 DEF TruthInv, receipts, calls
  <2>3. QED
    BY <1>2, <1>6, <2>2, ProcessReply
<1>7. ASSUME NEW i \in Id, Lapse(i)
      PROVE  TruthInv' /\ ReplyInv'
  <2>1. TruthInv'
    BY <1>2, <1>7 DEF Lapse, TruthInv, receipts, calls
  <2>2. QED
    BY <1>2, <1>7, <2>1, LapseReply
<1>8. CASE UNCHANGED vars
  <2>1. TruthInv'
    BY <1>2, <1>8 DEF TruthInv, vars, receipts, calls
  <2>2. ReplyInv'
    BY <1>2, <1>8, SameAnswers DEF vars, processes, storage, receipts, calls, Waiter, Alive
  <2>3. QED
    BY <2>1, <2>2
<1>9. QED
  BY <1>1, <1>3, <1>4, <1>5, <1>6, <1>7, <1>8 DEF Next

LEMMA AnswerHolds == Spec => [](Orderly => AnswerInv)
<1>1. Init => (Orderly => AnswerInv)
  BY OrderInit, ReplyInit DEF AnswerInv
<1>2. ReceiptInv /\ (Orderly => AnswerInv) /\ [Next]_vars => (Orderly => AnswerInv)'
  BY AnswerStep, OrderlyBefore DEF ReceiptInv
<1>3. QED
  BY <1>1, <1>2, ReceiptHolds, PTL DEF Spec

\* An entry that counts keeps its input.
LEMMA InputStep == ReceiptInv /\ [Next]_vars => InputKept
<1>1. SUFFICES ASSUME ReceiptInv, [Next]_vars PROVE InputKept
  OBVIOUS
<1>2. TypeInv /\ LedgerInv /\ TypeOK
  BY <1>1 DEF ReceiptInv, TypeInv
<1>3. CASE UNCHANGED disk
  BY <1>3 DEF InputKept
<1>4. ASSUME NEW c \in Call, ClaimInvocation(c)
      PROVE  InputKept
  <2>1. CASE Recorded(c)
    BY <1>2, <2>1, RecordedDisk DEF InputKept
  <2>2. CASE Refused(c) \/ Unrecorded(c) \/ Joined(c)
    BY <1>3, <2>2 DEF Refused, Unrecorded, Joined, storage
  <2>3. QED
    BY <1>2, <1>4, <2>1, <2>2, Claims
<1>5. ASSUME NEW c \in Call, FinishInvocation(c)
      PROVE  InputKept
  <2>1. CASE Stored(c)
    BY <1>2, <2>1, StoredDisk DEF InputKept
  <2>2. CASE Unstored(c)
    BY <1>3, <2>2 DEF Unstored
  <2>3. QED
    BY <1>5, <2>1, <2>2, Finishes
<1>6. ASSUME NEW i \in Id, Lapse(i)
      PROVE  InputKept
  BY <1>2, <1>6, LapsedDisk DEF InputKept
<1>7. ASSUME NEW c \in Call, CallStep(c)
      PROVE  InputKept
  <2>1. CASE WalkStep(c)
    BY <1>2, <1>3, <2>1, Walks DEF Walk, storage
  <2>2. CASE LaunchStep(c)
    BY <1>3, <2>2 DEF LaunchStep, Proceed, Approve, storage
  <2>3. QED
    BY <1>4, <1>5, <1>7, <2>1, <2>2, CallSteps
<1>8. ASSUME NEW p \in Proc, ProcessStep(p)
      PROVE  InputKept
  BY <1>3, <1>8 DEF ProcessStep, Start, Die, BeginRestart, LockStorage, Release, Recover, storage
<1>9. QED
  BY <1>1, <1>3, <1>6, <1>7, <1>8 DEF Next, Arrive, LapseObject, vars, storage

\* A final reply is told by a call that waited, or that has executed, while no
\* restart has begun.
LEMMA Tellers ==
    ASSUME TypeOK, NEW c \in Call, CallStep(c), NEW l \in Call, told[l] = "none", told'[l] \in Final
    PROVE  /\ l = c /\ Alive(c) /\ restart[proc[c]] = "none"
           /\ \/ Follow(c) /\ told'[c] = object[follows[c]].reply
              \/ FinishInvocation(c)
<1>1. told \in [Call -> Replies \cup {"none"}]
  BY DEF TypeOK
<1>2. ASSUME NEW r, Tell(c, r)
      PROVE  l = c /\ restart[proc[c]] = "none" /\ r = told'[c]
  BY <1>1, <1>2 DEF Tell, Final
<1>3. ~UNCHANGED told
  BY DEF Final
<1>4. CASE Follow(c)
  BY <1>2, <1>4 DEF Follow, CallStep
<1>5. CASE FinishInvocation(c)
  <2>1. \E r : Tell(c, r)
    BY <1>5 DEF FinishInvocation
  <2>2. QED
    BY <1>2, <1>5, <2>1 DEF CallStep
<1>6. CASE ClaimInvocation(c)
  <2>1. CASE Refused(c)
    <3>1. PICK r \in Replies \ Final : Tell(c, r)
      BY <2>1 DEF Refused
    <3>2. QED
      BY <1>2, <3>1
  <2>2. CASE Unrecorded(c) \/ Recorded(c) \/ Joined(c)
    BY <1>3, <2>2 DEF Unrecorded, Recorded, Joined, Made
  <2>3. QED
    BY <1>6, <2>1, <2>2, Claims
<1>7. CASE CheckLocked(c) \/ Attach(c)
  <2>1. Tell(c, "locked") \/ Tell(c, "conflict") \/ UNCHANGED told
    BY <1>7 DEF CheckLocked, Attach, Goto
  <2>2. QED
    BY <1>2, <1>3, <2>1 DEF Final
<1>8. CASE ~Follow(c) /\ ~FinishInvocation(c) /\ ~ClaimInvocation(c) /\ ~CheckLocked(c) /\ ~Attach(c)
  BY <1>3, <1>8 DEF CallStep, Settles, GiveUp, Refuse, Proceed, AskByPolling, Park, Approve, RejectPending,
     DropKeys, End, Launch, Goto
<1>9. QED
  BY <1>4, <1>5, <1>6, <1>7, <1>8

\* A call that waits in a process with the ledger is told what the receipt says,
\* and that receipt is current, or asks for consent.
LEMMA FollowerAnswer ==
    ASSUME TypeOK, Receipted, AnswerInv, NEW c \in Call, Follow(c), Alive(c), ledger[proc[c]]
    PROVE  LET f == follows[c] IN
           /\ id[f] = id[c] /\ digest[f] = digest[c]
           /\ object[f].reply = "consent" \/ AgreesOn(f)
<1> DEFINE f == follows[c]
<1>1. pc[c] = "wait" /\ object[f].done /\ f \in Call
  BY DEF Follow, TypeOK
<1>2. WaitsWell(c) /\ proc[f] = proc[c]
  BY <1>1 DEF AnswerInv, ReplyInv, Waits, Waiter, Receipted
<1>3. id[f] = id[c] /\ digest[f] = digest[c]
  BY <1>2 DEF WaitsWell
<1>4. CASE object[f].reply = "consent"
  BY <1>3, <1>4
<1>5. CASE object[f].reply # "consent"
  <2>1. ~object[f].retryable
    BY <1>1, <1>5 DEF AnswerInv, TruthInv
  <2>2. Current(f)
    BY <1>1, <1>2, <1>3, <1>5, <2>1 DEF WaitsWell, Current
  <2>3. QED
    BY <1>1, <1>3, <2>2 DEF AnswerInv, ReplyInv, Agreed
<1>6. QED
  BY <1>4, <1>5

LEMMA TellStep == ReceiptInv /\ AnswerInv /\ [Next]_vars => DeniedTruly /\ ToldAsStored
<1>1. SUFFICES ASSUME ReceiptInv, AnswerInv, [Next]_vars,
                      NEW l \in Call, told[l] = "none", told'[l] \in Final \ {"consent"}
               PROVE  /\ told'[l] = "denied" => effects[id[l]] = 0
                      /\ Counts(id[l], digest[l])' => told'[l] = reply'[id[l]]
  BY DEF DeniedTruly, ToldAsStored, Final
<1>2. TypeInv /\ TypeOK /\ LedgerInv /\ ObjectInv /\ Receipted /\ Handover /\ Held
  BY <1>1 DEF ReceiptInv, TypeInv, AnswerInv, OrderInv
<1>3. PICK c \in Call : CallStep(c)
  BY <1>1 DEF Next, Arrive, LapseObject, ProcessStep, Start, Die, BeginRestart, LockStorage, Release, Recover,
     Lapse, Goto, calls, vars, Final
<1>4. /\ l = c /\ Alive(c) /\ restart[proc[c]] = "none"
      /\ \/ Follow(c) /\ told'[c] = object[follows[c]].reply
         \/ FinishInvocation(c)
  BY <1>1, <1>2, <1>3, Tellers
<1>5. ledger[proc[c]] /\ id[c] \in Id /\ digest[c] \in Digest
  BY <1>2, <1>4 DEF Handover, Alive, TypeOK
<1>6. CASE Follow(c) /\ told'[c] = object[follows[c]].reply
  <2>1. id[follows[c]] = id[c] /\ digest[follows[c]] = digest[c] /\ AgreesOn(follows[c])
    BY <1>1, <1>2, <1>4, <1>5, <1>6, FollowerAnswer
  <2>2. UNCHANGED <<disk, reply, id, digest>>
    BY <1>6 DEF Follow, storage
  <2>3. QED
    BY <1>4, <1>6, <2>1, <2>2 DEF AgreesOn, Counts
<1>7. CASE FinishInvocation(c)
  <2>1. PICK r \in Final : FinishTells(c, r)
    BY <1>2, <1>4, <1>7, FinishAnswers
  <2>2. told'[c] = r
    BY <1>2, <1>4, <2>1 DEF FinishTells, Settled, Tell, TypeOK
  <2>3. UNCHANGED <<id, digest>>
    BY <1>7 DEF FinishInvocation
  <2>4. QED
    BY <1>4, <1>5, <2>1, <2>2, <2>3 DEF FinishTells, Counts
<1>8. QED
  BY <1>4, <1>6, <1>7

\* As long as its receipt counts, an id stays bound to its input; where restarts
\* are orderly, who is told that nothing was done is told the truth, and who asks
\* for a completed invocation gets its stored reply, whichever process and
\* whichever receipt answers (Claim, finishInvocation).
THEOREM RepliesAreTrueHolds == Spec => RepliesAreTrue
<1>1. ReceiptInv /\ (Orderly => AnswerInv) /\ [Next]_vars => Truthful
  BY InputStep, TellStep DEF Truthful
<1>2. ReceiptInv /\ (Orderly => AnswerInv) /\ [Next]_vars => [Truthful]_vars
  BY <1>1
<1>3. QED
  BY <1>2, ReceiptHolds, AnswerHolds, PTL DEF Spec, RepliesAreTrue
=============================================================================

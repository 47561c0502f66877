----------------------------- MODULE RoomConsole -----------------------------
(* The console of a Room in the browser, src/src/components/room-console.tsx: *)
(* the pages of the discussion that it shows, and the requests it makes of    *)
(* the leader, any of which may be lost, or take effect after the console has *)
(* given it up.                                                               *)
(*                                                                            *)
(* The leader is room-tasks.mjs, one transaction of each request.  Agents and *)
(* other consoles write to the same discussion.  What a user asks for is a    *)
(* member of Text; a request keeps its id until a reply says that it was      *)
(* carried out.  Whether the console is blocked (the leader seems offline, a  *)
(* setting is being changed, the room is paused) decides only when the user   *)
(* may act, and the user may act at any time; the settings are left out.      *)
EXTENDS Integers, FiniteSets

CONSTANTS
    Text,         \* messages and other requests that the user may make
    Messages,     \* those that are messages, and name the discussion's revision
    Limit,        \* messages of a page
    MaxRevision, MaxIds, MaxStray    \* bounds of the model

ASSUME ConsoleAssumption ==
    /\ Messages \subseteq Text /\ Limit \in Nat \ {0}
    /\ {MaxRevision, MaxIds, MaxStray} \subseteq Nat

VARIABLES
    revision,     \* contextRev of the discussion, at the leader
    made,         \* requests the leader has a receipt of, <<text, id>>
    ids,          \* ids drawn for a text
    kept,         \* the request map: the envelope of a text, id 0 when none
    op,           \* the operation in progress: its text and outcome
    stray,        \* requests given up that may still reach the leader
    pages,        \* the pages of the discussion shown
    fetch,        \* the reading of pages in progress
    read,         \* messages the user has been shown
    since         \* the first id of what the user wants done now

leader   == <<revision, made>>
asking   == <<ids, kept, op, stray, since>>
display  == <<pages, fetch, read>>
vars     == <<leader, asking, display>>

NoPages == [n |-> 0, upto |-> 0, rev |-> 0, more |-> FALSE, ok |-> FALSE]
NoFetch == [goal |-> 0, got |-> NoPages]
NoOp    == [text |-> "none", at |-> "none"]
NoCall  == [id |-> 0, rev |-> 0]

-----------------------------------------------------------------------------
(* The leader.                                                               *)

Receipt(k, e) == <<k, e.id>> \in made

\* A message must follow all others; the leader may refuse anything else.
Current(k, e) == k \in Messages => e.rev = revision
MayAccept(k, e) == ~Receipt(k, e) /\ Current(k, e) /\ (k \in Messages => revision < MaxRevision)

Carry(k, e) ==
    /\ MayAccept(k, e)
    /\ made' = made \cup {<<k, e.id>>}
    /\ revision' = IF k \in Messages THEN revision + 1 ELSE revision

\* messages.read: a page of what follows the last one.
PageAfter(p) ==
    LET upto == IF p.upto + Limit < revision THEN p.upto + Limit ELSE revision
    IN  [n |-> p.n + 1, upto |-> upto, rev |-> revision, more |-> upto < revision, ok |-> TRUE]

-----------------------------------------------------------------------------
(* The discussion, page by page.                                             *)

Fetching == fetch # NoFetch

\* Every page shown is read anew, in place of a reading in progress.
Reread(p) == [goal |-> IF p.n = 0 THEN 1 ELSE p.n, got |-> NoPages]

Refresh ==
    /\ op = NoOp /\ ~Fetching
    /\ fetch' = Reread(pages)
    /\ UNCHANGED <<leader, asking, pages, read>>

FetchNextPage ==
    /\ pages.more /\ ~Fetching
    /\ fetch' = [goal |-> pages.n + 1, got |-> pages]
    /\ UNCHANGED <<leader, asking, pages, read>>

\* The answer to the last page that is asked for shows them all.
PageArrives ==
    /\ Fetching
    /\ LET got == PageAfter(fetch.got) IN
        IF got.n = fetch.goal \/ ~got.more
        THEN /\ pages' = got /\ fetch' = NoFetch
             /\ read' = IF got.upto > read THEN got.upto ELSE read
        ELSE fetch' = [fetch EXCEPT !.got = got] /\ UNCHANGED <<pages, read>>
    /\ UNCHANGED <<leader, asking>>

\* A page that cannot be read: the pages shown before stay, with the error.
FetchFails ==
    /\ Fetching /\ fetch' = NoFetch /\ pages' = [pages EXCEPT !.ok = FALSE]
    /\ UNCHANGED <<leader, asking, read>>

-----------------------------------------------------------------------------
(* Requests of the user.                                                     *)

\* The composer: only a discussion that was read to its end can be answered.
ReadToTheEnd == pages.ok /\ ~pages.more

\* send: the envelope that was kept, of the revision it was made for, or a new one.
NewEnvelope(k) == [id |-> ids[k] + 1, rev |-> pages.rev]    \* Fault: a new id for a retry
Envelope(k) == IF kept[k] # NoCall THEN kept[k] ELSE [id |-> ids[k] + 1, rev |-> pages.rev]

\* The request is carried out, refused or lost; a lost one may travel on.  What
\* others do before it arrives is as if it had been done before it was made.
Send(k) ==
    /\ op = NoOp
    /\ k \in Messages => ReadToTheEnd
    /\ LET e == Envelope(k) IN
        /\ e.id <= MaxIds
        /\ kept' = [kept EXCEPT ![k] = e]
        /\ ids' = [ids EXCEPT ![k] = IF e.id > @ THEN e.id ELSE @]
        /\ \/ /\ Carry(k, e) /\ UNCHANGED stray
              /\ op' = [text |-> k, at |-> "done"]
           \/ /\ Receipt(k, e) /\ UNCHANGED <<leader, stray>>
              /\ op' = [text |-> k, at |-> "done"]
           \/ /\ stray' \in {stray, stray \cup {[text |-> k, e |-> e]}}
              /\ Cardinality(stray') <= MaxStray
              /\ op' = [text |-> k, at |-> "failed"] /\ UNCHANGED leader
    /\ UNCHANGED <<since, display>>

\* The request is refused, or its outcome is not known: its envelope is kept.
Fails ==
    /\ op # NoOp /\ op' = NoOp
    /\ UNCHANGED <<leader, ids, kept, stray, since, display>>

\* onSuccess: the envelope is forgotten, and what is shown is read again.
Succeeds ==
    /\ op.at = "done" /\ op' = NoOp
    /\ kept' = [kept EXCEPT ![op.text] = NoCall]
    /\ since' = [since EXCEPT ![op.text] = ids[op.text] + 1]
    /\ fetch' = Reread(pages)
    /\ UNCHANGED <<leader, ids, stray, pages, read>>

\* A request that was given up reaches the leader after all.
StrayArrives == \E c \in stray :
    /\ Carry(c.text, c.e) \/ UNCHANGED leader
    /\ stray' = stray \ {c}
    /\ UNCHANGED <<ids, kept, op, since, display>>

\* Another room is shown, or the page is loaded anew: nothing is remembered, and
\* what the user asks for from now on is asked for anew.
Remount ==
    /\ pages' = NoPages /\ fetch' = Reread(NoPages)
    /\ kept' = [k \in Text |-> NoCall] /\ op' = NoOp
    /\ since' = [k \in Text |-> ids[k] + 1]
    /\ UNCHANGED <<leader, ids, stray, read>>

\* Agents and other consoles append to the discussion.
OthersWrite ==
    /\ revision < MaxRevision /\ revision' = revision + 1
    /\ UNCHANGED <<made, asking, display>>

-----------------------------------------------------------------------------
Init ==
    /\ revision \in 0 .. MaxRevision /\ made = {}
    /\ ids = [k \in Text |-> 0] /\ kept = [k \in Text |-> NoCall] /\ op = NoOp /\ stray = {}
    /\ since = [k \in Text |-> 1]
    /\ pages = NoPages /\ fetch = Reread(NoPages) /\ read = 0

Next ==
    \/ Refresh \/ FetchNextPage \/ PageArrives \/ FetchFails
    \/ \E k \in Text : Send(k)
    \/ Fails \/ Succeeds \/ StrayArrives \/ Remount
    \/ OthersWrite

Spec == Init /\ [][Next]_vars

-----------------------------------------------------------------------------
(* Well-formedness.                                                          *)
Envelopes == [id : Nat, rev : Nat]
PageSets  == [n : Nat, upto : Nat, rev : Nat, more : BOOLEAN, ok : BOOLEAN]
TypeOK ==
    /\ revision \in Nat /\ made \subseteq Text \X Nat
    /\ ids \in [Text -> Nat] /\ kept \in [Text -> Envelopes] /\ since \in [Text -> Nat]
    /\ op \in [text : Text \cup {"none"}, at : {"none", "done", "failed"}]
    /\ stray \subseteq [text : Text, e : Envelopes]
    /\ pages \in PageSets /\ fetch \in [goal : Nat, got : PageSets] /\ read \in Nat

(* What the user wants done once is done at most once, whatever replies were *)
(* lost and however often it was submitted again (send, room-console.tsx).   *)
OneEffectOfEach ==
    \A a, b \in made : a[1] = b[1] /\ since[a[1]] <= a[2] /\ since[b[1]] <= b[2] => a = b

(* No message is on its way that was written without one it follows: the     *)
(* revision that it names is one that the user has read up to (the composer).*)
NothingUnread ==
    /\ \A k \in Messages : kept[k].rev <= read
    /\ \A c \in stray : c.text \in Messages => c.e.rev <= read

(* A request of the console has one effect however often it is made again,   *)
(* and no message is sent that does not follow what was read.                *)
ConsoleIsSound == TypeOK /\ OneEffectOfEach /\ NothingUnread
=============================================================================

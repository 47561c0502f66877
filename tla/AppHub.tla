------------------------------- MODULE AppHub -------------------------------
(* The hub on the website's origin: src/src/lib/fleet.  The sockets and the  *)
(* results live in the process (live.ts), the devices, aliases, tokens and   *)
(* the history of commands in a database that every handler (v1.server.ts,   *)
(* actions.ts, token-actions.ts) awaits.  A statement of SQL is a step; what *)
(* runs between two awaits is one with the step before it.                   *)
EXTENDS Naturals, FiniteSets

CONSTANTS
    Dev, Sock, Req,
    UserOf, DevOf,      \* Sock \cup Req -> its account; Sock -> the id in its header
    Names,              \* aliases: some may read as the id of a device
    Nil,
    MaxTokens, MaxFrames   \* bounds: resets, frames of devices that come late or twice

VARIABLES
    row,        \* devices: [Dev -> [user, alias]] or Nil
    token,      \* hub_tokens: [User -> number of the token]
    history,    \* commands: the rows of one run, by primary key
    slot,       \* byDevice: [Dev -> Sock] or Nil
    index,      \* byUser: [User -> SUBSET Dev]
    sock,       \* [Sock -> [at, saw]]
    task,       \* [Req -> [op, dev, arg, at]]: a request that awaits its next statement
    result, completed,  \* [Dev -> row of the request] and the summaries
    kind,       \* [Dev -> "run" or "plugin"], once a request was made of it
    told,       \* [Dev -> what the device has said of the request last]
    late,       \* statements of results to come: <<dev, status>>
    frames

User    == {UserOf[x] : x \in Sock \cup Req}
rows    == <<row, token, history>>
sockets == <<slot, index, sock>>
results == <<result, completed, kind, told, late, frames>>
vars    == <<rows, sockets, task, results>>

Owns(u, d) == row[d] # Nil /\ row[d].user = u

-----------------------------------------------------------------------------
(* live.ts: the sockets.                                                   *)

IsOnline(d) == slot[d] # Nil /\ sock[slot[d]].at = "open"

\* attachDevice: a socket that was there is replaced, also another account's.
Attached(s) ==
    LET d == DevOf[s]
        prev == slot[d]
    IN  /\ slot' = [slot EXCEPT ![d] = s]
        /\ index' = [u \in User |->
               (index[u] \ (IF prev # Nil /\ prev # s /\ u = UserOf[prev] THEN {d} ELSE {}))
               \cup (IF u = UserOf[s] THEN {d} ELSE {})]
        /\ sock' = [t \in Sock |-> IF t = s THEN [sock[s] EXCEPT !.at = "open"]
                                   ELSE IF t = prev /\ sock[t].at = "open"
                                        THEN [sock[t] EXCEPT !.at = "closing"] ELSE sock[t]]

\* detachDevice: only the socket that is current.
Detached(d, s) ==
    IF slot[d] # s THEN UNCHANGED <<slot, index>>
    ELSE /\ slot' = [slot EXCEPT ![d] = Nil]
         /\ index' = [index EXCEPT ![UserOf[s]] = @ \ {d}]

\* kickUser: every socket that the account's set knows.
Kicked(u) ==
    LET gone == {d \in index[u] : slot[d] # Nil}
        hit  == {slot[d] : d \in gone}
    IN  /\ sock' = [t \in Sock |-> IF t \in hit /\ sock[t].at = "open"
                                   THEN [sock[t] EXCEPT !.at = "closing"] ELSE sock[t]]
        /\ slot' = [d \in Dev |-> IF d \in gone THEN Nil ELSE slot[d]]
        /\ index' = [v \in User |-> index[v] \ {d \in gone : UserOf[slot[d]] = v}]

-----------------------------------------------------------------------------
(* handleHubUpgrade and acceptDevice.                                      *)

Goes(s, at) == sock' = [sock EXCEPT ![s] = [at |-> at, saw |-> "nothing"]]
Saw(s, at, what) == sock' = [sock EXCEPT ![s].at = at, ![s].saw = what]

\* lookupHubActor.
Authenticate(s) ==
    /\ sock[s].at = "new"
    /\ Goes(s, "known")
    /\ UNCHANGED <<rows, slot, index, task, results>>

\* deviceIdConflictsWithAlias: an id that is new may not read as an alias.
IsAlias(u, d) == \E e \in Dev : e # d /\ Owns(u, e) /\ row[e].alias = d

\* stolenDevice: 409, or the upgrade.
Stolen(s) ==
    /\ sock[s].at = "known"
    /\ Goes(s, IF (row[DevOf[s]] # Nil /\ ~Owns(UserOf[s], DevOf[s]))
                  \/ (row[DevOf[s]] = Nil /\ IsAlias(UserOf[s], DevOf[s]))
               THEN "new" ELSE "upgraded")
    /\ UNCHANGED <<rows, slot, index, task, results>>

\* upsertDevice reads the row: at the upgrade, at hello, and after the close.
Seen(s, at, then) ==
    /\ sock[s].at = at
    /\ Saw(s, IF row[DevOf[s]] # Nil /\ ~Owns(UserOf[s], DevOf[s]) THEN "new" ELSE then,
           IF row[DevOf[s]] = Nil THEN "nothing" ELSE "row")
    /\ UNCHANGED <<rows, slot, index, task, results>>

\* Its write: an update of the account's row, or the row of a new device,
\* which another connection may have made first (the primary key).
Write(u, d, saw) ==
    IF saw = "row" THEN UNCHANGED row
    ELSE row' = [row EXCEPT ![d] = [user |-> u, alias |-> Nil]]
WritesOver(d, saw) == FALSE
WriteFails(d, saw) == saw = "nothing" /\ row[d] # Nil

Upserts(s, at, then) ==
    /\ sock[s].at = at
    /\ \/ WriteFails(DevOf[s], sock[s].saw) /\ Goes(s, "new") /\ UNCHANGED row
       \/ ~WriteFails(DevOf[s], sock[s].saw) /\ Write(UserOf[s], DevOf[s], sock[s].saw) /\ Goes(s, then)
    /\ UNCHANGED <<token, history, slot, index, task, results>>

Attach(s) == sock[s].at = "written" /\ Attached(s) /\ UNCHANGED <<rows, task, results>>

\* The socket's close event, for itself or for having been closed.
Close(s) ==
    /\ sock[s].at \in {"open", "closing"}
    /\ Goes(s, "gone") /\ Detached(DevOf[s], s)
    /\ UNCHANGED <<rows, task, results>>

Connection(s) ==
    \/ Authenticate(s) \/ Stolen(s)
    \/ Seen(s, "upgraded", "seen") \/ Upserts(s, "seen", "written") \/ Attach(s)
    \/ Close(s) \/ Seen(s, "gone", "ending") \/ Upserts(s, "ending", "new")

-----------------------------------------------------------------------------
(* Requests of an account.                                                 *)

NoWork == [op |-> "none", dev |-> Nil, arg |-> Nil, at |-> "begin"]

At(r, op, at)   == task[r].op = op /\ task[r].at = at
Then(r, at)     == task' = [task EXCEPT ![r] = IF at = "done" THEN NoWork ELSE [@ EXCEPT !.at = at]]
Begin(r, op, d, a) ==
    /\ task[r] = NoWork
    /\ task' = [task EXCEPT ![r] = [op |-> op, dev |-> d, arg |-> a, at |-> "begin"]]
    /\ UNCHANGED <<rows, sockets, results>>

\* writeDeviceAlias: the row, a conflict, and the update, whose unique index
\* is the last word on two aliases that are the same.
Taken(u, d, a) == \E e \in Dev : e # d /\ Owns(u, e) /\ row[e].alias = a
AliasChecked(r) ==
    /\ At(r, "alias", "begin")
    /\ LET u == UserOf[r]  d == task[r].dev  a == task[r].arg
       IN  Then(r, IF Owns(u, d) /\ ~Taken(u, d, a) /\ ~(a \in Dev \ {d} /\ Owns(u, a))
                   THEN "clear" ELSE "done")
    /\ UNCHANGED <<rows, sockets, results>>
NoIndex(u, d, a) == TRUE
\* The index of the database (migration 0006), and isUniqueViolation.
UniqueIndex(u, d, a) == ~Taken(u, d, a)
AliasWritten(r) ==
    /\ At(r, "alias", "clear") /\ Then(r, "done")
    /\ LET u == UserOf[r]  d == task[r].dev  a == task[r].arg
       IN  row' = IF Owns(u, d) /\ UniqueIndex(u, d, a) THEN [row EXCEPT ![d].alias = a] ELSE row
    /\ UNCHANGED <<token, history, sockets, results>>

\* removeDevice: the socket is left alone.
RemoveFinds(r) ==
    /\ At(r, "remove", "begin") /\ Then(r, IF Owns(UserOf[r], task[r].dev) THEN "found" ELSE "done")
    /\ UNCHANGED <<rows, sockets, results>>
Removes(r) ==
    /\ At(r, "remove", "found") /\ Then(r, "done")
    /\ row' = IF Owns(UserOf[r], task[r].dev) THEN [row EXCEPT ![task[r].dev] = Nil] ELSE row
    /\ UNCHANGED <<token, history, sockets, results>>
\* issueHubToken: the row is replaced, and the account's devices are kicked.
NewToken(r) ==
    /\ At(r, "reset", "begin") /\ Then(r, "kick")
    /\ token[UserOf[r]] < MaxTokens /\ token' = [token EXCEPT ![UserOf[r]] = @ + 1]
    /\ UNCHANGED <<row, history, sockets, results>>
Kicks(r) ==
    /\ At(r, "reset", "kick") /\ Then(r, "done") /\ Kicked(UserOf[r])
    /\ UNCHANGED <<rows, results>>

\* /v1/run with a request_id: sendToDevice, and the row of the history after it.
\* The wire's correlation is the same at every device; the key is not.
CommandHistoryId(d) == d

SendToDevice(r) == LET d == task[r].dev IN IsOnline(d) /\ UserOf[slot[d]] = UserOf[r]
Asked(d, op) == /\ kind' = [kind EXCEPT ![d] = op]
                /\ told' = IF told[d] = "none" THEN [told EXCEPT ![d] = "sent"] ELSE told

Sends(r) ==
    /\ At(r, "run", "begin")
    /\ LET d == task[r].dev
           ok == Owns(UserOf[r], d) /\ SendToDevice(r)
       IN  /\ kind[d] # "plugin" /\ Then(r, IF ok THEN "sent" ELSE "done")
           /\ IF ok THEN Asked(d, "run") ELSE UNCHANGED <<kind, told>>
    /\ UNCHANGED <<rows, sockets, result, completed, late, frames>>
Inserts(r) ==
    /\ At(r, "run", "sent") /\ Then(r, "done")
    /\ LET k == CommandHistoryId(task[r].dev)
       IN  history' = IF history[k] # Nil THEN history
                      ELSE [history EXCEPT ![k] = [dev |-> task[r].dev, user |-> UserOf[r],
                                                   status |-> "running"]]
    /\ UNCHANGED <<row, token, sockets, results>>

\* /v1/plugin: the row of the result is there before the frame is sent, and
\* stays when it is not.
PluginSends(r) ==
    /\ At(r, "plugin", "begin") /\ Then(r, "done")
    /\ LET d == task[r].dev
       IN  IF kind[d] # "none" \/ ~Owns(UserOf[r], d) \/ ~IsOnline(d) THEN UNCHANGED results
           ELSE /\ result' = [result EXCEPT ![d] = "pending"]
                /\ IF SendToDevice(r) THEN Asked(d, "plugin") ELSE UNCHANGED <<kind, told>>
                /\ UNCHANGED <<completed, late, frames>>
    /\ UNCHANGED <<rows, sockets>>

Step(r) ==
    \/ AliasChecked(r) \/ AliasWritten(r) \/ RemoveFinds(r) \/ Removes(r) \/ NewToken(r) \/ Kicks(r) \/ Sends(r) \/ Inserts(r) \/ PluginSends(r)

Request(r) ==
    \/ \E d \in Dev : \/ \E a \in Names : Begin(r, "alias", d, a)
                      \/ \E op \in {"remove", "run", "plugin"} : Begin(r, op, d, Nil)
    \/ Begin(r, "reset", Nil, Nil)

-----------------------------------------------------------------------------
(* onDeviceMessage: what the device says of the run.                       *)

Terminal == {"ok", "error", "unknown"}

\* putResult: what is completed does not run again.
PutResult(d, status) ==
    IF status \notin Terminal /\ d \in completed THEN UNCHANGED <<result, completed>>
    ELSE /\ result' = [result EXCEPT ![d] = status]
         /\ completed' = IF status \in Terminal THEN completed \cup {d} ELSE completed

\* getResult.
Answer(d) == IF result[d] = "none" /\ d \in completed THEN "unknown" ELSE result[d]

\* accepted and plugin_accepted, which does not look at the row itself.
Accepted(d) ==
    IF kind[d] = "run" /\ Answer(d) \in Terminal THEN UNCHANGED <<result, completed>>
    ELSE PutResult(d, "running")

\* Once the run has ended both may come again: the Agent answers every
\* get_result, and an older frame may be behind.
Says(s, status) ==
    LET d == DevOf[s]
        over == status \in {"ok", "error"}
    IN  /\ sock[s].at = "open" /\ told[d] # "none" /\ frames < MaxFrames /\ frames' = frames + 1
        /\ over => told[d] \in {"sent", "running", status}
        /\ status = "unknown" => kind[d] = "run"
        /\ IF status = "running" THEN Accepted(d) ELSE PutResult(d, status)
        /\ told' = [told EXCEPT ![d] = IF status = "unknown" \/ @ \in {"ok", "error"} THEN @ ELSE status]
        /\ late' = IF over /\ kind[d] = "run" THEN late \cup {<<d, UserOf[s], status>>} ELSE late
        /\ UNCHANGED <<rows, sockets, task, kind>>

\* The result's statement, behind the await of getSql.
Settles(d, u, status) ==
    /\ <<d, u, status>> \in late /\ late' = late \ {<<d, u, status>>}
    /\ history' = [k \in DOMAIN history |->
           IF k = CommandHistoryId(d) /\ history[k] # Nil /\ history[k].dev = d /\ history[k].user = u
           THEN [history[k] EXCEPT !.status = status] ELSE history[k]]
    /\ UNCHANGED <<row, token, sockets, task, result, completed, kind, told, frames>>

\* PayloadCache.sweep: the payload goes, the summary stays.
Expires(d) ==
    /\ result[d] # "none" /\ result' = [result EXCEPT ![d] = "none"]
    /\ UNCHANGED <<rows, sockets, task, completed, kind, told, late, frames>>

-----------------------------------------------------------------------------
\* The process starts: the database may hold devices from before.
Init ==
    /\ row \in [Dev -> {Nil} \cup [user : User, alias : {Nil}]]
    /\ token = [u \in User |-> 0] /\ history = [k \in Dev |-> Nil]
    /\ slot = [d \in Dev |-> Nil] /\ index = [u \in User |-> {}]
    /\ sock = [s \in Sock |-> [at |-> "new", saw |-> "nothing"]]
    /\ task = [r \in Req |-> NoWork]
    /\ result = [d \in Dev |-> "none"] /\ completed = {}
    /\ kind = [d \in Dev |-> "none"] /\ told = [d \in Dev |-> "none"]
    /\ late = {} /\ frames = 0

Next ==
    \/ \E s \in Sock : Connection(s)
    \/ \E r \in Req : Step(r) \/ Request(r)
    \/ \E s \in Sock, status \in Terminal \cup {"running"} : Says(s, status)
    \/ \E x \in late : Settles(x[1], x[2], x[3])
    \/ \E d \in Dev : Expires(d)

Spec == Init /\ [][Next]_vars

-----------------------------------------------------------------------------
(* Properties.                                                             *)

\* A socket that is open can be reached: by its device's requests, and by the
\* kick of its account's next reset (attachDevice, detachDevice, kickUser).
OpenIsReachable ==
    \A s \in Sock : sock[s].at = "open" =>
        slot[DevOf[s]] = s /\ DevOf[s] \in index[UserOf[s]]

\* A row of the history tells what its own device has said, and no other
\* device's run is recorded in its place (commandHistoryId).
HistoryIsTrue ==
    \A d \in Dev : LET h == history[CommandHistoryId(d)]
                   IN  h # Nil => /\ h.dev = d
                                   /\ h.status \in {"ok", "error"} => told[d] = h.status

\* Two devices of an account never share an alias, whoever checks first
\* (writeDeviceAlias).
AliasIsOne ==
    \A d, e \in Dev : d # e /\ row[d] # Nil /\ row[e] # Nil /\ row[d].user = row[e].user
        => row[d].alias = Nil \/ row[d].alias # row[e].alias

\* A device changes hands only by being removed (upsertDevice).
OwnerIsKept ==
    [][\A d \in Dev : row[d] # Nil /\ row'[d] # Nil => row'[d].user = row[d].user]_vars

\* Whoever was told that a run has ended is never told that it runs.
EndIsKept == [][\A d \in Dev : Answer(d) \in Terminal => Answer(d)' \in Terminal]_vars
=============================================================================

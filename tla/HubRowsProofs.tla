--------------------------- MODULE HubRowsProofs ----------------------------
(***************************************************************************)
(* Proofs about the rows of the hub, for any devices, sockets, requests,   *)
(* sessions and times: the website's hub (AppHub), whose sockets, devices  *)
(* and runs each have an invariant of their own, which their steps keep    *)
(* and the others leave alone; the MCP sessions (HubMcp); and the rows     *)
(* that expire (HubExpiry).                                                *)
(***************************************************************************)
EXTENDS MC_HubRows, TLAPS, FiniteSetTheorems, NaturalsInduction, WellFoundedInduction

\* A socket on its way, and one that is done with.
SockAt     == {"new", "known", "upgraded", "seen", "written", "open", "closing", "gone", "ending"}
Connecting == [at : SockAt, saw : {"nothing", "row"}]

\* live.ts: whoever is open is the one that the device's slot names, and its
\* account's set knows the device.
SocketsInv ==
  /\ slot \in [Dev -> Sock \cup {Nil}]
  /\ appIndex \in [W!User -> SUBSET Dev]
  /\ sock \in [Sock -> Connecting]
  /\ W!OpenIsReachable

\* What a request awaits.
Alias == Names \cup {Nil}
TasksInv ==
  /\ task \in [Req -> [op : {"none", "alias", "remove", "reset", "run", "plugin"},
                       dev : Dev \cup {Nil}, arg : Alias,
                       at : {"begin", "clear", "found", "kick", "sent"}]]
  /\ \A r \in Req : task[r].op \in {"alias", "remove", "run", "plugin"} => task[r].dev \in Dev

\* v1.server.ts, actions.ts: the devices and their aliases.
DevicesInv ==
  /\ appRow \in [Dev -> {Nil} \cup [user : W!User, alias : Alias]]
  /\ W!AliasIsOne

\* The runs: what is to be written of one is what its device has said, and a
\* run that has ended is completed.
RunsInv ==
  /\ history \in [Dev -> {Nil} \cup [dev : Dev, user : W!User,
                                     status : {"running", "ok", "error"}]]
  /\ result \in [Dev -> {"none", "pending", "running", "ok", "error", "unknown"}]
  /\ completed \in SUBSET Dev
  /\ kind \in [Dev -> {"none", "run", "plugin"}]
  /\ appTold \in [Dev -> {"none", "sent", "running", "ok", "error"}]
  /\ \A x \in late : x[1] \in Dev /\ x[3] \in {"ok", "error"} /\ appTold[x[1]] = x[3]
  /\ \A d \in Dev : result[d] \in W!Terminal => d \in completed
  /\ \A d \in Dev : kind[d] = "none" => appTold[d] = "none" /\ d \notin completed
  /\ W!HistoryIsTrue

AppInv == SocketsInv /\ TasksInv /\ DevicesInv /\ RunsInv

LEMMA UserOfAll ==
  /\ \A s \in Sock : UserOf[s] \in W!User /\ DevOf[s] \in Dev /\ s # Nil
  /\ \A r \in Req : UserOf[r] \in W!User
  BY AppAssumption DEF W!User

(***************************************************************************)
(* The sockets (live.ts, acceptDevice).                                    *)
(***************************************************************************)
\* A socket that is not open takes another step of its connection.
LEMMA SocketMoves ==
  ASSUME SocketsInv, NEW s \in Sock, UNCHANGED <<slot, appIndex>>,
         NEW v \in [at : {"new", "known", "upgraded", "seen", "written", "closing", "gone", "ending"},
                    saw : {"nothing", "row"}],
         sock' = [sock EXCEPT ![s] = v]
  PROVE  SocketsInv'
<1>1. v.at # "open" /\ sock' \in [Sock -> Connecting]
  BY DEF SocketsInv, Connecting, SockAt
<1>2. W!OpenIsReachable'
  BY <1>1 DEF SocketsInv, W!OpenIsReachable
<1> QED BY <1>1, <1>2 DEF SocketsInv

LEMMA SockRow ==
  ASSUME NEW r \in Connecting, NEW a, NEW w
  PROVE  [[r EXCEPT !.at = a] EXCEPT !.saw = w] = [at |-> a, saw |-> w]
<1>1. [r EXCEPT !.at = a] = [at |-> a, saw |-> r.saw]
  BY DEF Connecting
<1>2. [[at |-> a, saw |-> r.saw] EXCEPT !.saw = w] = [at |-> a, saw |-> w]
  OBVIOUS
<1> QED BY <1>1, <1>2

LEMMA SocketsAttach ==
  ASSUME SocketsInv, NEW s \in Sock, W!Attach(s)
  PROVE  SocketsInv'
<1> DEFINE d == DevOf[s]  prev == slot[DevOf[s]]
<1>0. /\ slot \in [Dev -> Sock \cup {Nil}] /\ appIndex \in [W!User -> SUBSET Dev] /\ d \in Dev
      /\ sock \in [Sock -> Connecting]
  BY UserOfAll DEF SocketsInv
<1>1. /\ slot' = [slot EXCEPT ![d] = s]
      /\ appIndex' = [u \in W!User |->
               (appIndex[u] \ (IF prev # Nil /\ prev # s /\ u = UserOf[prev] THEN {d} ELSE {}))
               \cup (IF u = UserOf[s] THEN {d} ELSE {})]
      /\ sock' = [t \in Sock |-> IF t = s THEN [sock[s] EXCEPT !.at = "open"]
                                   ELSE IF t = prev /\ sock[t].at = "open"
                                        THEN [sock[t] EXCEPT !.at = "closing"] ELSE sock[t]]
  BY DEF W!Attach, W!Attached
<1>2. slot' \in [Dev -> Sock \cup {Nil}] /\ appIndex' \in [W!User -> SUBSET Dev]
  BY <1>0, <1>1
<1>3. sock' \in [Sock -> Connecting]
  BY <1>0, <1>1 DEF Connecting, SockAt
<1>4. ASSUME NEW t \in Sock, sock'[t].at = "open"
      PROVE  slot'[DevOf[t]] = t /\ DevOf[t] \in appIndex'[UserOf[t]]
  <2>1. CASE t = s
    BY <1>0, <1>1, <2>1, UserOfAll
  <2>2. CASE t # s
    <3>1. sock[t].at = "open" /\ t # prev
      BY <1>0, <1>1, <1>4, <2>2
    <3>2. slot[DevOf[t]] = t /\ DevOf[t] \in appIndex[UserOf[t]]
      BY <3>1 DEF SocketsInv, W!OpenIsReachable
    <3>3. DevOf[t] # d
      BY <3>1, <3>2
    <3>4. slot'[DevOf[t]] = t
      BY <1>0, <1>1, <3>2, <3>3, UserOfAll
    <3>5. DevOf[t] \in appIndex'[UserOf[t]]
      BY <1>1, <3>2, <3>3, UserOfAll
    <3> QED BY <3>4, <3>5
  <2> QED BY <2>1, <2>2
<1> QED BY <1>2, <1>3, <1>4 DEF SocketsInv, W!OpenIsReachable

LEMMA SocketsClose ==
  ASSUME SocketsInv, NEW s \in Sock, W!Close(s)
  PROVE  SocketsInv'
<1>0. /\ slot \in [Dev -> Sock \cup {Nil}] /\ appIndex \in [W!User -> SUBSET Dev]
      /\ sock \in [Sock -> Connecting]
  BY DEF SocketsInv
<1>1. sock' = [sock EXCEPT ![s] = [at |-> "gone", saw |-> "nothing"]]
  BY DEF W!Close, W!Goes
<1>2. CASE slot[DevOf[s]] # s
  BY <1>1, <1>2, SocketMoves DEF W!Close, W!Detached
<1>3. CASE slot[DevOf[s]] = s
  <2>1. slot' = [slot EXCEPT ![DevOf[s]] = Nil] /\ appIndex' = [appIndex EXCEPT ![UserOf[s]] = @ \ {DevOf[s]}]
    BY <1>3 DEF W!Close, W!Detached
  <2>2. slot' \in [Dev -> Sock \cup {Nil}] /\ appIndex' \in [W!User -> SUBSET Dev]
    BY <1>0, <2>1, UserOfAll
  <2>3. sock' \in [Sock -> Connecting]
    BY <1>0, <1>1 DEF Connecting, SockAt
  <2>4. ASSUME NEW t \in Sock, sock'[t].at = "open"
        PROVE  slot'[DevOf[t]] = t /\ DevOf[t] \in appIndex'[UserOf[t]]
    <3>1. t # s /\ sock[t].at = "open"
      BY <1>0, <1>1, <2>4
    <3>2. slot[DevOf[t]] = t /\ DevOf[t] \in appIndex[UserOf[t]]
      BY <3>1 DEF SocketsInv, W!OpenIsReachable
    <3>3. DevOf[t] # DevOf[s]
      BY <1>3, <3>1, <3>2
    <3> QED BY <1>0, <2>1, <3>2, <3>3, UserOfAll
  <2> QED BY <2>2, <2>3, <2>4 DEF SocketsInv, W!OpenIsReachable
<1> QED BY <1>2, <1>3

LEMMA SocketsKick ==
  ASSUME SocketsInv, NEW u \in W!User, W!Kicked(u)
  PROVE  SocketsInv'
<1> DEFINE gone == {d \in appIndex[u] : slot[d] # Nil}
           hit  == {slot[d] : d \in gone}
<1>0. /\ slot \in [Dev -> Sock \cup {Nil}] /\ appIndex \in [W!User -> SUBSET Dev]
      /\ sock \in [Sock -> Connecting]
  BY DEF SocketsInv
<1>1. /\ sock' = [t \in Sock |-> IF t \in hit /\ sock[t].at = "open"
                                   THEN [sock[t] EXCEPT !.at = "closing"] ELSE sock[t]]
      /\ slot' = [d \in Dev |-> IF d \in gone THEN Nil ELSE slot[d]]
      /\ appIndex' = [v \in W!User |-> appIndex[v] \ {d \in gone : UserOf[slot[d]] = v}]
  BY DEF W!Kicked
<1>2. \A d \in gone : slot[d] \in hit
  OBVIOUS
<1>3. gone \subseteq Dev
  BY <1>0
<1> HIDE DEF gone, hit
<1>4. slot' \in [Dev -> Sock \cup {Nil}] /\ appIndex' \in [W!User -> SUBSET Dev]
  BY <1>0, <1>1
<1>5. sock' \in [Sock -> Connecting]
  BY <1>0, <1>1 DEF Connecting, SockAt
<1>6. ASSUME NEW t \in Sock, sock'[t].at = "open"
      PROVE  slot'[DevOf[t]] = t /\ DevOf[t] \in appIndex'[UserOf[t]]
  <2>1. sock[t].at = "open" /\ t \notin hit
    BY <1>0, <1>1, <1>6
  <2>2. slot[DevOf[t]] = t /\ DevOf[t] \in appIndex[UserOf[t]]
    BY <2>1 DEF SocketsInv, W!OpenIsReachable
  <2>3. DevOf[t] \notin gone
    BY <1>2, <2>1, <2>2
  <2> QED BY <1>0, <1>1, <2>2, <2>3, UserOfAll
<1> QED BY <1>4, <1>5, <1>6 DEF SocketsInv, W!OpenIsReachable

LEMMA SocketsStep ==
  ASSUME SocketsInv, [W!Next]_(W!vars)
  PROVE  SocketsInv'
<1>1. CASE UNCHANGED <<slot, appIndex, sock>>
  BY <1>1 DEF SocketsInv, W!OpenIsReachable
<1>2. ASSUME NEW s \in Sock, W!Connection(s) PROVE SocketsInv'
  <2>1. CASE W!Attach(s)
    BY <2>1, SocketsAttach
  <2>2. CASE W!Close(s)
    BY <2>2, SocketsClose
  <2>3. CASE W!Authenticate(s) \/ W!Stolen(s)
    BY <2>3, SocketMoves DEF W!Authenticate, W!Stolen, W!Goes
  <2>4. ASSUME NEW at0, NEW then \in {"seen", "ending"}, W!Seen(s, at0, then) PROVE SocketsInv'
    <3>1. PICK a \in {"new", "seen", "ending"}, w \in {"nothing", "row"} :
             sock' = [sock EXCEPT ![s].at = a, ![s].saw = w]
      BY <2>4 DEF W!Seen, W!Saw
    <3>2. PICK q \in Connecting : sock[s] = q
      BY DEF SocketsInv
    <3>3. [[q EXCEPT !.at = a] EXCEPT !.saw = w] = [at |-> a, saw |-> w]
      BY <3>2, SockRow, Zenon
    <3>4. sock' = [sock EXCEPT ![s] = [at |-> a, saw |-> w]]
      BY <3>1, <3>2, <3>3 DEF SocketsInv
    <3>5. UNCHANGED <<slot, appIndex>>
      BY <2>4 DEF W!Seen
    <3> QED BY <3>4, <3>5, SocketMoves
  <2>5. ASSUME NEW at0, NEW then \in {"written", "new"}, W!Upserts(s, at0, then) PROVE SocketsInv'
    BY <2>5, SocketMoves DEF W!Upserts, W!Goes
  <2> QED BY <1>2, <2>1, <2>2, <2>3, <2>4, <2>5 DEF W!Connection
<1>3. ASSUME NEW r \in Req, W!Step(r) \/ W!Request(r) PROVE SocketsInv'
  <2>1. CASE W!Kicks(r)
    BY <2>1, UserOfAll, SocketsKick DEF W!Kicks
  <2>2. CASE ~W!Kicks(r)
    BY <1>1, <1>3, <2>2 DEF W!Step, W!Request, W!Begin, W!AliasChecked, W!AliasWritten, W!RemoveFinds, W!Removes,
       W!NewToken, W!Sends, W!Inserts, W!PluginSends, W!sockets
  <2> QED BY <2>1, <2>2
<1>4. ASSUME NEW s \in Sock, NEW st, W!Says(s, st) PROVE SocketsInv'
  BY <1>1, <1>4 DEF W!Says, W!sockets
<1>5. ASSUME NEW d, NEW u, NEW st, W!Settles(d, u, st) PROVE SocketsInv'
  BY <1>1, <1>5 DEF W!Settles, W!sockets
<1>6. ASSUME NEW d \in Dev, W!Expires(d) PROVE SocketsInv'
  BY <1>1, <1>6 DEF W!Expires, W!sockets
<1>7. CASE UNCHANGED W!vars
  BY <1>1, <1>7 DEF W!vars, W!sockets
<1> QED BY <1>2, <1>3, <1>4, <1>5, <1>6, <1>7 DEF W!Next

(***************************************************************************)
(* The requests of accounts, and the devices (v1.server.ts).               *)
(***************************************************************************)
LEMMA TaskThen ==
  ASSUME TasksInv, NEW r \in Req, NEW a \in {"begin", "clear", "found", "kick", "sent", "done"}, W!Then(r, a)
  PROVE  TasksInv'
<1> DEFINE T == [op : {"none", "alias", "remove", "reset", "run", "plugin"},
                 dev : Dev \cup {Nil}, arg : Alias, at : {"begin", "clear", "found", "kick", "sent"}]
<1>1. task \in [Req -> T] /\ task' = [task EXCEPT ![r] = IF a = "done" THEN W!NoWork ELSE [@ EXCEPT !.at = a]]
  BY DEF TasksInv, W!Then
<1>2. W!NoWork \in T /\ W!NoWork.op = "none"
  BY DEF W!NoWork, Alias
<1>3. ASSUME NEW q \in T, a # "done"
      PROVE  [q EXCEPT !.at = a] \in T /\ [q EXCEPT !.at = a].op = q.op /\ [q EXCEPT !.at = a].dev = q.dev
  BY <1>3
<1>4. task' \in [Req -> T]
  BY <1>1, <1>2, <1>3
<1>5. ASSUME NEW q \in Req, task'[q].op \in {"alias", "remove", "run", "plugin"}
      PROVE  task'[q].dev \in Dev
  <2>1. task'[q].op = task[q].op /\ task'[q].dev = task[q].dev
    BY <1>1, <1>2, <1>3, <1>5
  <2> QED BY <2>1, <1>5 DEF TasksInv
<1> QED BY <1>4, <1>5 DEF TasksInv

LEMMA TasksStep ==
  ASSUME TasksInv, [W!Next]_(W!vars)
  PROVE  TasksInv'
<1>1. CASE UNCHANGED task
  BY <1>1 DEF TasksInv
<1>2. ASSUME NEW s \in Sock, W!Connection(s) PROVE TasksInv'
  BY <1>1, <1>2 DEF W!Connection, W!Authenticate, W!Stolen, W!Seen, W!Upserts, W!Attach, W!Close
<1>3. ASSUME NEW r \in Req, W!Step(r) PROVE TasksInv'
  <2>1. \E a \in {"clear", "found", "kick", "sent", "done"} : W!Then(r, a)
    BY <1>3 DEF W!Step, W!AliasChecked, W!AliasWritten, W!RemoveFinds, W!Removes, W!NewToken, W!Kicks, W!Sends,
       W!Inserts, W!PluginSends
  <2> QED BY <2>1, TaskThen
<1>4. ASSUME NEW r \in Req, W!Request(r) PROVE TasksInv'
  <2>1. \E d \in Dev \cup {Nil}, a \in Alias, op \in {"alias", "remove", "reset", "run", "plugin"} :
           /\ op = "reset" \/ d \in Dev
           /\ task' = [task EXCEPT ![r] = [op |-> op, dev |-> d, arg |-> a, at |-> "begin"]]
    BY <1>4 DEF W!Request, W!Begin, Alias
  <2> QED BY <2>1 DEF TasksInv
<1>5. ASSUME NEW s \in Sock, NEW st, W!Says(s, st) PROVE TasksInv'
  BY <1>1, <1>5 DEF W!Says
<1>6. ASSUME NEW d, NEW u, NEW st, W!Settles(d, u, st) PROVE TasksInv'
  BY <1>1, <1>6 DEF W!Settles
<1>7. ASSUME NEW d \in Dev, W!Expires(d) PROVE TasksInv'
  BY <1>1, <1>7 DEF W!Expires
<1>8. CASE UNCHANGED W!vars
  BY <1>1, <1>8 DEF W!vars
<1> QED BY <1>2, <1>3, <1>4, <1>5, <1>6, <1>7, <1>8 DEF W!Next

\* A step of the devices' rows: one gets its first row, an alias that no other
\* of its account has, or loses its row; every device keeps its owner.
RowAdded(u, d)   == appRow[d] = Nil /\ appRow' = [appRow EXCEPT ![d] = [user |-> u, alias |-> Nil]]
RowNamed(u, d, a) == /\ W!Owns(u, d) /\ ~W!Taken(u, d, a)
                     /\ appRow' = [appRow EXCEPT ![d].alias = a]
RowRemoved(d)    == appRow' = [appRow EXCEPT ![d] = Nil]

DeviceStep ==
  \/ UNCHANGED appRow
  \/ \E u \in W!User, d \in Dev : RowAdded(u, d) \/ \E a \in Alias : RowNamed(u, d, a)
  \/ \E d \in Dev : RowRemoved(d)

LEMMA DeviceSteps ==
  ASSUME TasksInv, SocketsInv, [W!Next]_(W!vars)
  PROVE  DeviceStep
<1>1. ASSUME NEW s \in Sock, W!Connection(s) PROVE DeviceStep
  <2>1. ASSUME NEW at0, NEW then, W!Upserts(s, at0, then) PROVE DeviceStep
    <3>1. sock[s].saw \in {"nothing", "row"}
      BY DEF SocketsInv, Connecting
    <3> QED BY <2>1, <3>1, UserOfAll DEF W!Upserts, W!WriteFails, W!Write, DeviceStep, RowAdded
  <2>2. CASE W!Authenticate(s) \/ W!Stolen(s) \/ W!Attach(s) \/ W!Close(s) \/ W!Seen(s, "upgraded", "seen")
             \/ W!Seen(s, "gone", "ending")
    BY <2>2 DEF W!Authenticate, W!Stolen, W!Seen, W!Attach, W!Close, W!rows, DeviceStep
  <2> QED BY <1>1, <2>1, <2>2 DEF W!Connection
<1>2. ASSUME NEW r \in Req, W!Step(r) \/ W!Request(r) PROVE DeviceStep
  <2>1. CASE W!AliasWritten(r)
    <3>1. task[r].dev \in Dev /\ task[r].arg \in Alias
      BY <2>1 DEF W!AliasWritten, W!At, TasksInv
    <3>2. CASE W!Owns(UserOf[r], task[r].dev) /\ ~W!Taken(UserOf[r], task[r].dev, task[r].arg)
      BY <2>1, <3>1, <3>2, UserOfAll DEF W!AliasWritten, W!UniqueIndex, DeviceStep, RowNamed
    <3>3. CASE ~(W!Owns(UserOf[r], task[r].dev) /\ ~W!Taken(UserOf[r], task[r].dev, task[r].arg))
      BY <2>1, <3>3 DEF W!AliasWritten, W!UniqueIndex, DeviceStep
    <3> QED BY <3>2, <3>3
  <2>2. CASE W!Removes(r)
    <3>1. task[r].dev \in Dev
      BY <2>2 DEF W!Removes, W!At, TasksInv
    <3> QED BY <2>2, <3>1 DEF W!Removes, DeviceStep, RowRemoved
  <2>3. CASE ~W!AliasWritten(r) /\ ~W!Removes(r)
    BY <1>2, <2>3 DEF W!Step, W!Request, W!Begin, W!AliasChecked, W!RemoveFinds, W!NewToken, W!Kicks, W!Sends,
       W!Inserts, W!PluginSends, W!rows, DeviceStep
  <2> QED BY <2>1, <2>2, <2>3
<1>3. ASSUME NEW s \in Sock, NEW st, W!Says(s, st) PROVE DeviceStep
  BY <1>3 DEF W!Says, W!rows, DeviceStep
<1>4. ASSUME NEW d, NEW u, NEW st, W!Settles(d, u, st) PROVE DeviceStep
  BY <1>4 DEF W!Settles, DeviceStep
<1>5. ASSUME NEW d \in Dev, W!Expires(d) PROVE DeviceStep
  BY <1>5 DEF W!Expires, W!rows, DeviceStep
<1>6. CASE UNCHANGED W!vars
  BY <1>6 DEF W!vars, W!rows, DeviceStep
<1> QED BY <1>1, <1>2, <1>3, <1>4, <1>5, <1>6 DEF W!Next

LEMMA DevicesStep ==
  ASSUME DevicesInv, DeviceStep
  PROVE  /\ DevicesInv'
         /\ \A d \in Dev : appRow[d] # Nil /\ appRow'[d] # Nil => appRow'[d].user = appRow[d].user
<1> DEFINE Row == [user : W!User, alias : Alias]
<1>0. appRow \in [Dev -> {Nil} \cup Row]
  BY DEF DevicesInv
<1>1. CASE UNCHANGED appRow
  BY <1>1 DEF DevicesInv, W!AliasIsOne
<1>2. ASSUME NEW u \in W!User, NEW d \in Dev, RowAdded(u, d)
      PROVE  /\ DevicesInv'
             /\ \A e \in Dev : appRow[e] # Nil /\ appRow'[e] # Nil => appRow'[e].user = appRow[e].user
  <2>1. [user |-> u, alias |-> Nil] \in Row
    BY DEF Alias
  <2>2. appRow' \in [Dev -> {Nil} \cup Row] /\ appRow'[d] = [user |-> u, alias |-> Nil]
        /\ appRow[d] = Nil /\ \A e \in Dev \ {d} : appRow'[e] = appRow[e]
    BY <1>0, <1>2, <2>1 DEF RowAdded
  <2>3. W!AliasIsOne'
    BY <2>2 DEF DevicesInv, W!AliasIsOne
  <2> QED BY <2>2, <2>3 DEF DevicesInv
<1>3. ASSUME NEW u \in W!User, NEW d \in Dev, NEW a \in Alias, RowNamed(u, d, a)
      PROVE  /\ DevicesInv'
             /\ \A e \in Dev : appRow[e] # Nil /\ appRow'[e] # Nil => appRow'[e].user = appRow[e].user
  <2>1. PICK q \in Row : appRow[d] = q /\ q.user = u /\ appRow[d] # Nil
    BY <1>0, <1>3 DEF RowNamed, W!Owns
  <2>2. [q EXCEPT !.alias = a] = [user |-> u, alias |-> a]
    BY <2>1
  <2>3. appRow' = [appRow EXCEPT ![d] = [user |-> u, alias |-> a]]
    BY <1>3, <2>1, <2>2 DEF RowNamed
  <2>4. appRow' \in [Dev -> {Nil} \cup Row] /\ appRow'[d] = [user |-> u, alias |-> a]
        /\ \A e \in Dev \ {d} : appRow'[e] = appRow[e]
    BY <1>0, <2>3
  <2>5. \A e \in Dev \ {d} : appRow[e] # Nil /\ appRow[e].user = u => appRow[e].alias # a
    BY <1>3 DEF RowNamed, W!Taken, W!Owns
  <2>6. W!AliasIsOne'
    BY <2>4, <2>5 DEF DevicesInv, W!AliasIsOne
  <2> QED BY <2>1, <2>4, <2>6 DEF DevicesInv
<1>4. ASSUME NEW d \in Dev, RowRemoved(d)
      PROVE  /\ DevicesInv'
             /\ \A e \in Dev : appRow[e] # Nil /\ appRow'[e] # Nil => appRow'[e].user = appRow[e].user
  <2>1. appRow' \in [Dev -> {Nil} \cup Row] /\ appRow'[d] = Nil /\ \A e \in Dev \ {d} : appRow'[e] = appRow[e]
    BY <1>0, <1>4 DEF RowRemoved
  <2>2. W!AliasIsOne'
    BY <2>1 DEF DevicesInv, W!AliasIsOne
  <2> QED BY <2>1, <2>2 DEF DevicesInv
<1> QED BY <1>1, <1>2, <1>3, <1>4 DEF DeviceStep

(***************************************************************************)
(* The runs (live.ts, onDeviceMessage).                                    *)
(***************************************************************************)
RunsType ==
  /\ history \in [Dev -> {Nil} \cup [dev : Dev, user : W!User, status : {"running", "ok", "error"}]]
  /\ result \in [Dev -> {"none", "pending", "running", "ok", "error", "unknown"}]
  /\ completed \in SUBSET Dev
  /\ kind \in [Dev -> {"none", "run", "plugin"}]
  /\ appTold \in [Dev -> {"none", "sent", "running", "ok", "error"}]

\* What is kept at every step: whoever was told of the end is not told else.
EndKept == \A d \in Dev : W!Answer(d) \in W!Terminal => W!Answer(d)' \in W!Terminal

\* A device is asked for the first time, or once more.
LEMMA RunsAsked ==
  ASSUME RunsInv, NEW d \in Dev, NEW op \in {"run", "plugin"}, W!Asked(d, op),
         UNCHANGED <<history, completed, late>>,
         \/ UNCHANGED result
         \/ kind[d] = "none" /\ result' = [result EXCEPT ![d] = "pending"]
  PROVE  RunsInv' /\ EndKept
<1>1. RunsType
  BY DEF RunsInv, RunsType
<1>2. /\ kind' = [kind EXCEPT ![d] = op]
      /\ appTold' = IF appTold[d] = "none" THEN [appTold EXCEPT ![d] = "sent"] ELSE appTold
  BY DEF W!Asked
<1>3. RunsType'
  BY <1>1, <1>2 DEF RunsType
<1>4. \A e \in Dev : appTold[e] # "none" => appTold'[e] = appTold[e]
  BY <1>1, <1>2 DEF RunsType
<1>5. \A x \in late' : x[1] \in Dev /\ x[3] \in {"ok", "error"} /\ appTold'[x[1]] = x[3]
  BY <1>4 DEF RunsInv
<1>6. \A e \in Dev : result'[e] \in W!Terminal => e \in completed'
  BY <1>1 DEF RunsInv, RunsType, W!Terminal
<1>7. \A e \in Dev : kind'[e] = "none" => appTold'[e] = "none" /\ e \notin completed'
  BY <1>1, <1>2 DEF RunsInv, RunsType
<1>8. W!HistoryIsTrue'
  BY <1>4 DEF RunsInv, W!HistoryIsTrue, W!CommandHistoryId
<1>9. EndKept
  BY <1>1 DEF EndKept, W!Answer, RunsInv, RunsType, W!Terminal
<1> QED BY <1>3, <1>5, <1>6, <1>7, <1>8, <1>9 DEF RunsInv, RunsType

LEMMA RunsSends ==
  ASSUME RunsInv, TasksInv, NEW r \in Req, W!Sends(r)
  PROVE  RunsInv' /\ EndKept
<1>1. task[r].dev \in Dev
  BY DEF TasksInv, W!Sends, W!At
<1>2. CASE UNCHANGED <<kind, appTold>>
  <2>1. UNCHANGED <<history, result, completed, late>>
    BY DEF W!Sends, W!rows
  <2> QED BY <1>2, <2>1 DEF RunsInv, EndKept, W!Answer, W!HistoryIsTrue, W!Terminal, W!CommandHistoryId
<1>3. CASE ~UNCHANGED <<kind, appTold>>
  <2>1. W!Asked(task[r].dev, "run") /\ UNCHANGED <<history, result, completed, late>>
    BY <1>3 DEF W!Sends, W!rows
  <2> QED BY <1>1, <2>1, RunsAsked
<1> QED BY <1>2, <1>3

LEMMA RunsPluginSends ==
  ASSUME RunsInv, TasksInv, NEW r \in Req, W!PluginSends(r)
  PROVE  RunsInv' /\ EndKept
<1> DEFINE d == task[r].dev
<1>0. RunsType
  BY DEF RunsInv, RunsType
<1>1. d \in Dev /\ UNCHANGED history
  BY DEF TasksInv, W!PluginSends, W!At, W!rows
<1>2. CASE UNCHANGED W!results
  BY <1>1, <1>2 DEF W!results, RunsInv, EndKept, W!Answer, W!HistoryIsTrue, W!Terminal, W!CommandHistoryId
<1>3. CASE ~UNCHANGED W!results
  <2>1. /\ kind[d] = "none" /\ result' = [result EXCEPT ![d] = "pending"] /\ UNCHANGED <<completed, late>>
        /\ W!Asked(d, "plugin") \/ UNCHANGED <<kind, appTold>>
    BY <1>3 DEF W!PluginSends
  <2>2. CASE W!Asked(d, "plugin")
    BY <1>1, <2>1, <2>2, RunsAsked
  <2>3. CASE UNCHANGED <<kind, appTold>>
    <3>1. RunsType'
      BY <1>0, <1>1, <2>1, <2>3 DEF RunsType
    <3>2. \A e \in Dev : result'[e] \in W!Terminal => e \in completed'
      BY <1>0, <2>1 DEF RunsInv, RunsType, W!Terminal
    <3>3. EndKept
      BY <1>0, <1>1, <2>1 DEF EndKept, W!Answer, RunsInv, RunsType, W!Terminal
    <3> QED BY <1>1, <2>1, <2>3, <3>1, <3>2, <3>3 DEF RunsInv, RunsType, W!HistoryIsTrue, W!CommandHistoryId
  <2> QED BY <2>1, <2>2, <2>3
<1> QED BY <1>2, <1>3

LEMMA RunsInserts ==
  ASSUME RunsInv, TasksInv, NEW r \in Req, W!Inserts(r)
  PROVE  RunsInv' /\ EndKept
<1> DEFINE d == task[r].dev
           h == [dev |-> d, user |-> UserOf[r], status |-> "running"]
<1>0. RunsType
  BY DEF RunsInv, RunsType
<1>1. d \in Dev /\ UNCHANGED <<result, completed, kind, appTold, late>>
  BY DEF TasksInv, W!Inserts, W!At, W!results
<1>2. h \in [dev : Dev, user : W!User, status : {"running", "ok", "error"}] /\ h.dev = d /\ h.status = "running"
  BY <1>1, UserOfAll
<1>3. history' = IF history[d] # Nil THEN history ELSE [history EXCEPT ![d] = h]
  BY DEF W!Inserts, W!CommandHistoryId
<1> HIDE DEF h
<1>4. RunsType'
  BY <1>0, <1>1, <1>2, <1>3 DEF RunsType
<1>5. W!HistoryIsTrue'
  BY <1>0, <1>1, <1>2, <1>3 DEF RunsInv, RunsType, W!HistoryIsTrue, W!CommandHistoryId
<1> QED BY <1>1, <1>4, <1>5 DEF RunsInv, RunsType, EndKept, W!Answer, W!Terminal

\* putResult, and what is said with it.
LEMMA PutsResult ==
  ASSUME RunsType, NEW d \in Dev, NEW st \in {"running", "ok", "error", "unknown"}, W!PutResult(d, st),
         \A e \in Dev : result[e] \in W!Terminal => e \in completed
  PROVE  /\ result' \in [Dev -> {"none", "pending", "running", "ok", "error", "unknown"}]
         /\ completed' \in SUBSET Dev /\ completed' \subseteq completed \cup {d}
         /\ \A e \in Dev : result'[e] \in W!Terminal => e \in completed'
<1>1. CASE st \notin W!Terminal /\ d \in completed
  BY <1>1 DEF RunsType, W!PutResult
<1>2. CASE ~(st \notin W!Terminal /\ d \in completed)
  <2>1. /\ result' = [result EXCEPT ![d] = st]
        /\ completed' = IF st \in W!Terminal THEN completed \cup {d} ELSE completed
    BY <1>2 DEF W!PutResult
  <2> QED BY <2>1 DEF RunsType
<1> QED BY <1>1, <1>2

LEMMA EndStays ==
  ASSUME RunsType, NEW d \in Dev, NEW st \in {"running", "ok", "error", "unknown"},
         \A e \in Dev : result[e] \in W!Terminal => e \in completed,
         W!PutResult(d, st)
  PROVE  EndKept
<1>1. CASE st \notin W!Terminal /\ d \in completed
  BY <1>1 DEF RunsType, W!PutResult, EndKept, W!Answer, W!Terminal
<1>2. CASE ~(st \notin W!Terminal /\ d \in completed)
  <2>1. /\ result' = [result EXCEPT ![d] = st]
        /\ completed' = IF st \in W!Terminal THEN completed \cup {d} ELSE completed
    BY <1>2 DEF W!PutResult
  <2>2. ASSUME NEW e \in Dev, W!Answer(e) \in W!Terminal PROVE W!Answer(e)' \in W!Terminal
    <3>1. e \in completed
      BY <2>2 DEF W!Answer
    <3>2. e \in completed'
      BY <2>1, <3>1
    <3>3. CASE e = d
      BY <1>2, <2>1, <3>1, <3>3 DEF W!Answer, W!Terminal, RunsType
    <3>4. CASE e # d
      BY <2>1, <2>2, <3>2, <3>4 DEF W!Answer, W!Terminal, RunsType
    <3> QED BY <3>3, <3>4
  <2> QED BY <2>2 DEF EndKept
<1> QED BY <1>1, <1>2

LEMMA RunsSays ==
  ASSUME RunsInv, NEW s \in Sock, NEW st \in {"running", "ok", "error", "unknown"}, W!Says(s, st)
  PROVE  RunsInv' /\ EndKept
<1> DEFINE d == DevOf[s]
<1>0. RunsType /\ d \in Dev /\ \A e \in Dev : result[e] \in W!Terminal => e \in completed
  BY UserOfAll DEF RunsInv, RunsType
<1>1. /\ appTold[d] # "none" /\ UNCHANGED <<history, kind>>
      /\ (st \in {"ok", "error"} => appTold[d] \in {"sent", "running", st})
      /\ appTold' = [appTold EXCEPT ![d] = IF st = "unknown" \/ @ \in {"ok", "error"} THEN @ ELSE st]
      /\ late' = IF st \in {"ok", "error"} /\ kind[d] = "run" THEN late \cup {<<d, UserOf[s], st>>} ELSE late
      /\ UNCHANGED <<result, completed>> \/ W!PutResult(d, st)
  BY DEF W!Says, W!Accepted, W!rows
<1>2. kind[d] # "none"
  BY <1>0, <1>1 DEF RunsInv
<1>3. \A e \in Dev : appTold[e] \in {"ok", "error"} => appTold'[e] = appTold[e]
  BY <1>0, <1>1 DEF RunsType
<1>4. st \in {"ok", "error"} => appTold'[d] = st
  BY <1>0, <1>1 DEF RunsType
<1>5. /\ result' \in [Dev -> {"none", "pending", "running", "ok", "error", "unknown"}]
      /\ completed' \in SUBSET Dev /\ completed' \subseteq completed \cup {d}
      /\ \A e \in Dev : result'[e] \in W!Terminal => e \in completed'
      /\ EndKept
  <2>1. CASE UNCHANGED <<result, completed>>
    BY <1>0, <2>1 DEF RunsType, EndKept, W!Answer, W!Terminal
  <2>2. CASE W!PutResult(d, st)
    BY <1>0, <2>2, PutsResult, EndStays
  <2> QED BY <1>1, <2>1, <2>2
<1>6. appTold' \in [Dev -> {"none", "sent", "running", "ok", "error"}]
  BY <1>0, <1>1 DEF RunsType
<1>7. RunsType'
  BY <1>0, <1>1, <1>5, <1>6 DEF RunsType
<1>8. \A x \in late' : x[1] \in Dev /\ x[3] \in {"ok", "error"} /\ appTold'[x[1]] = x[3]
  BY <1>0, <1>1, <1>3, <1>4 DEF RunsInv
<1>9. \A e \in Dev : kind'[e] = "none" => appTold'[e] = "none" /\ e \notin completed'
  BY <1>0, <1>1, <1>2, <1>5 DEF RunsInv, RunsType
<1>10. W!HistoryIsTrue'
  BY <1>1, <1>3 DEF RunsInv, W!HistoryIsTrue, W!CommandHistoryId
<1> QED BY <1>5, <1>7, <1>8, <1>9, <1>10 DEF RunsInv, RunsType

LEMMA RunsSettles ==
  ASSUME RunsInv, NEW d, NEW u, NEW st, W!Settles(d, u, st)
  PROVE  RunsInv' /\ EndKept
<1>0. RunsType
  BY DEF RunsInv, RunsType
<1>1. <<d, u, st>> \in late /\ late' \subseteq late /\ UNCHANGED <<result, completed, kind, appTold>>
  BY DEF W!Settles
<1>2. d \in Dev /\ st \in {"ok", "error"} /\ appTold[d] = st
  BY <1>1 DEF RunsInv
<1>3. ASSUME NEW k \in Dev
      PROVE  /\ history'[k] \in {Nil} \cup [dev : Dev, user : W!User, status : {"running", "ok", "error"}]
             /\ \/ history'[k] = history[k]
                \/ k = d /\ history'[k].dev = history[k].dev /\ history'[k].status = st /\ history[k] # Nil
  <2>1. DOMAIN history = Dev
    BY <1>0 DEF RunsType
  <2>2. history'[k] = IF k = d /\ history[k] # Nil /\ history[k].dev = d /\ history[k].user = u
                      THEN [history[k] EXCEPT !.status = st] ELSE history[k]
    BY <2>1 DEF W!Settles, W!CommandHistoryId
  <2>3. CASE k = d /\ history[k] # Nil /\ history[k].dev = d /\ history[k].user = u
    <3>1. PICK h \in [dev : Dev, user : W!User, status : {"running", "ok", "error"}] : history[k] = h
      BY <1>0, <2>3 DEF RunsType
    <3>2. /\ [h EXCEPT !.status = st] \in [dev : Dev, user : W!User, status : {"running", "ok", "error"}]
          /\ [h EXCEPT !.status = st].dev = h.dev /\ [h EXCEPT !.status = st].status = st
      BY <1>2
    <3>3. history'[k] = [h EXCEPT !.status = st]
      BY <2>2, <2>3, <3>1
    <3> QED BY <2>3, <3>1, <3>2, <3>3
  <2>4. CASE ~(k = d /\ history[k] # Nil /\ history[k].dev = d /\ history[k].user = u)
    BY <1>0, <2>2, <2>4 DEF RunsType
  <2> QED BY <2>3, <2>4
<1>4. \E f : history' = [k \in Dev |-> f[k]]
  <2>1. DOMAIN history = Dev
    BY <1>0 DEF RunsType
  <2>2. history' = [k \in Dev |->
           IF k = d /\ history[k] # Nil /\ history[k].dev = d /\ history[k].user = u
           THEN [history[k] EXCEPT !.status = st] ELSE history[k]]
    BY <2>1 DEF W!Settles, W!CommandHistoryId
  <2> QED BY <2>2
<1>5. RunsType'
  BY <1>0, <1>1, <1>3, <1>4 DEF RunsType
<1>6. W!HistoryIsTrue'
  BY <1>1, <1>2, <1>3 DEF RunsInv, W!HistoryIsTrue, W!CommandHistoryId
<1> QED BY <1>1, <1>5, <1>6 DEF RunsInv, RunsType, EndKept, W!Answer, W!Terminal

LEMMA RunsExpires ==
  ASSUME RunsInv, NEW d \in Dev, W!Expires(d)
  PROVE  RunsInv' /\ EndKept
<1>0. RunsType
  BY DEF RunsInv, RunsType
<1>1. UNCHANGED <<history, completed, kind, appTold, late>> /\ result' = [result EXCEPT ![d] = "none"]
  BY DEF W!Expires, W!rows
<1>2. RunsType'
  BY <1>0, <1>1 DEF RunsType
<1>3. \A e \in Dev : result'[e] \in W!Terminal => e \in completed'
  BY <1>0, <1>1 DEF RunsInv, RunsType, W!Terminal
<1>4. EndKept
  BY <1>0, <1>1 DEF EndKept, W!Answer, RunsInv, RunsType, W!Terminal
<1> QED BY <1>1, <1>2, <1>3, <1>4 DEF RunsInv, RunsType, W!HistoryIsTrue, W!CommandHistoryId

LEMMA RunsStep ==
  ASSUME RunsInv, TasksInv, [W!Next]_(W!vars)
  PROVE  RunsInv' /\ EndKept
<1>1. CASE UNCHANGED <<history, result, completed, kind, appTold, late>>
  BY <1>1 DEF RunsInv, EndKept, W!Answer, W!Terminal, W!HistoryIsTrue, W!CommandHistoryId
<1>2. ASSUME NEW s \in Sock, W!Connection(s) PROVE RunsInv' /\ EndKept
  BY <1>1, <1>2 DEF W!Connection, W!Authenticate, W!Stolen, W!Seen, W!Upserts, W!Attach, W!Close, W!rows, W!results
<1>3. ASSUME NEW r \in Req, W!Step(r) \/ W!Request(r) PROVE RunsInv' /\ EndKept
  <2>1. CASE W!Sends(r) \/ W!Inserts(r) \/ W!PluginSends(r)
    BY <2>1, RunsSends, RunsInserts, RunsPluginSends
  <2>2. CASE ~(W!Sends(r) \/ W!Inserts(r) \/ W!PluginSends(r))
    BY <1>1, <1>3, <2>2 DEF W!Step, W!Request, W!Begin, W!AliasChecked, W!AliasWritten, W!RemoveFinds, W!Removes,
       W!NewToken, W!Kicks, W!rows, W!results
  <2> QED BY <2>1, <2>2
<1>4. ASSUME NEW s \in Sock, NEW st \in W!Terminal \cup {"running"}, W!Says(s, st) PROVE RunsInv' /\ EndKept
  BY <1>4, RunsSays DEF W!Terminal
<1>5. ASSUME NEW d, NEW u, NEW st, W!Settles(d, u, st) PROVE RunsInv' /\ EndKept
  BY <1>5, RunsSettles
<1>6. ASSUME NEW d \in Dev, W!Expires(d) PROVE RunsInv' /\ EndKept
  BY <1>6, RunsExpires
<1>7. CASE UNCHANGED W!vars
  BY <1>1, <1>7 DEF W!vars, W!rows, W!results
<1> QED BY <1>2, <1>3, <1>4, <1>5, <1>6, <1>7 DEF W!Next

-----------------------------------------------------------------------------
LEMMA AppInvInit == W!Init => AppInv
<1> SUFFICES ASSUME W!Init PROVE AppInv
  OBVIOUS
<1> USE DEF W!Init
<1>1. SocketsInv
  BY DEF SocketsInv, W!OpenIsReachable, Connecting, SockAt
<1>2. TasksInv
  BY DEF TasksInv, W!NoWork, Alias
<1>3. DevicesInv
  <2>1. appRow \in [Dev -> {Nil} \cup [user : W!User, alias : Alias]]
    BY DEF Alias
  <2>2. \A d \in Dev : appRow[d] # Nil => appRow[d].alias = Nil
    OBVIOUS
  <2> QED BY <2>1, <2>2 DEF DevicesInv, W!AliasIsOne
<1>4. RunsInv
  BY DEF RunsInv, W!HistoryIsTrue, W!CommandHistoryId, W!Terminal
<1> QED BY <1>1, <1>2, <1>3, <1>4 DEF AppInv

LEMMA AppInvStep ==
  ASSUME AppInv, [W!Next]_(W!vars)
  PROVE  /\ AppInv' /\ EndKept
         /\ \A d \in Dev : appRow[d] # Nil /\ appRow'[d] # Nil => appRow'[d].user = appRow[d].user
  BY SocketsStep, TasksStep, DeviceSteps, DevicesStep, RunsStep DEF AppInv

\* Sockets that are open can be reached and kicked, the history tells what the
\* device has said, and no two devices of an account share an alias (live.ts,
\* commandHistoryId, writeDeviceAlias).
THEOREM AppHolds == W!Spec => [](W!OpenIsReachable /\ W!HistoryIsTrue /\ W!AliasIsOne)
<1>1. AppInv => W!OpenIsReachable /\ W!HistoryIsTrue /\ W!AliasIsOne
  BY DEF AppInv, SocketsInv, RunsInv, DevicesInv
<1>2. AppInv /\ [W!Next]_(W!vars) => AppInv'
  BY AppInvStep
<1> QED BY <1>1, <1>2, AppInvInit, PTL DEF W!Spec

\* A device keeps its owner until it is removed, and whoever was told that a
\* run has ended is never told that it runs (upsertDevice, putResult).
THEOREM AppStepsHold == W!Spec => W!OwnerIsKept /\ W!EndIsKept
<1>1. AppInv /\ [W!Next]_(W!vars)
         => [\A d \in Dev : appRow[d] # Nil /\ appRow'[d] # Nil => appRow'[d].user = appRow[d].user]_(W!vars)
  BY AppInvStep
<1>2. AppInv /\ [W!Next]_(W!vars)
         => [\A d \in Dev : W!Answer(d) \in W!Terminal => W!Answer(d)' \in W!Terminal]_(W!vars)
  BY AppInvStep DEF EndKept
<1>3. AppInv /\ [W!Next]_(W!vars) => AppInv'
  BY AppInvStep
<1> QED BY <1>1, <1>2, <1>3, AppInvInit, PTL DEF W!Spec, W!OwnerIsKept, W!EndIsKept

\* In the runs a behaviour is one of the website's hub or leaves it alone.
LEMMA AppMC == MCSpec => W!Spec
<1>1. MCInit => W!Init
  BY DEF MCInit
<1>2. [MCNext]_allVars => [W!Next]_(W!vars)
  BY DEF MCNext, OnlyExpiry, OnlyMcp, OnlyRows, OnlyRuns, allVars, appVars, W!vars, W!rows, W!sockets, W!results
<1> QED BY <1>1, <1>2, PTL DEF MCSpec, W!Spec

\* The same for the runs' specification.
THEOREM AppIsSoundHolds == MCSpec => []AppIsSound
  BY AppMC, AppHolds, PTL DEF AppIsSound

\* And the properties of its steps.
THEOREM AppKeepsHolds == MCSpec => AppKeeps
  BY AppMC, AppStepsHold DEF AppKeeps

(***************************************************************************)
(* HubMcp: what a client was told outlives the instance that told it.      *)
(***************************************************************************)
McpRow == [born : Int, seen : Int, state : Int]

McpTypeOK ==
  /\ row \in McpRow /\ stored \in McpRow
  /\ now \in Nat /\ operator \in Int /\ persisted \in Int /\ runs \in Int /\ told \in Int /\ mcpUse \in Int
  /\ at \in [Msg \cup Sse -> {"new", "sent", "authorizing", "running", "answered", "refused", "lost"}]
  /\ before \in [Msg -> Int] /\ opened \in BOOLEAN

Serving(c) == at[c] \in {"authorizing", "running"}

\* restoreHttpSession and the row in memory: it is the row of storage, with
\* the same state and no older use; while a message is served, it is there.
MemoryIsRow ==
  /\ row # M!None => row.state >= 0 /\ row.seen >= 0
  /\ stored # M!None => /\ row # M!None
                        /\ stored.state = row.state /\ stored.born = row.born
                        /\ stored.seen >= row.seen /\ persisted = row.seen
  /\ stored = M!None => persisted = -1
  /\ row # M!None => /\ operator = -1 \/ operator >= row.state
                     /\ \A c \in Msg : Serving(c) => stored # M!None /\ operator # -1

\* The newest command that was answered is no newer than what was dispatched,
\* or than what storage has.
Numbers ==
  /\ operator \in -1 .. runs /\ told \in 0 .. runs
  /\ row # M!None => row.state \in told .. runs
  /\ ~opened => runs = 0 /\ row = M!None /\ \A c \in Msg : at[c] = "new"

\* A use that is in memory only is at most a touch newer than the row's.
UsesKept ==
  row # M!None => /\ mcpUse <= row.seen + TouchMs /\ row.seen <= now
                  /\ stored # M!None => mcpUse <= stored.seen + TouchMs /\ stored.seen <= now

McpInv == McpTypeOK /\ MemoryIsRow /\ Numbers /\ UsesKept

\* What a step of the session must not do.
McpKept ==
  /\ opened /\ row = M!None => row' = M!None
  /\ row # M!None /\ row' = M!None =>
        \/ now - mcpUse >= IdleMs \/ now >= row.born + McpMaxAge
        \/ \E c \in Msg : KindOf[c] = "close" /\ at'[c] # at[c]

LEMMA McpNumbers == IdleMs \in Nat /\ TouchMs \in Nat /\ McpMaxAge \in Nat /\ McpMaxNow \in Nat
  BY McpAssumption

LEMMA NewerOfTwo == ASSUME NEW i \in Int, NEW j \in Int, j >= i PROVE M!Max({i, j}) = j
  BY DEF M!Max

\* A step that leaves the session alone, and serves no message that was not
\* served before.
LEMMA McpQuiet ==
  ASSUME McpInv, UNCHANGED <<row, stored, operator, persisted, before, runs, told, mcpUse, opened>>,
         now' \in Nat, now' >= now,
         at' \in [Msg \cup Sse -> {"new", "sent", "authorizing", "running", "answered", "refused", "lost"}],
         \A c \in Msg : Serving(c)' => Serving(c),
         opened \/ \A c \in Msg : at'[c] = at[c]
  PROVE  McpInv' /\ McpKept
<1>1. McpTypeOK'
  BY DEF McpInv, McpTypeOK
<1>2. MemoryIsRow' /\ Numbers' /\ UsesKept'
  BY DEF McpInv, MemoryIsRow, Numbers, UsesKept, Serving, McpTypeOK, McpRow
<1> QED BY <1>1, <1>2 DEF McpInv, McpKept

\* clearHttpSession, and an instance that goes: nothing is left in memory.
LEMMA McpClears ==
  ASSUME McpInv, M!Clear, UNCHANGED <<now, before, runs, told, mcpUse, opened>>,
         at' \in [Msg \cup Sse -> {"new", "sent", "authorizing", "running", "answered", "refused", "lost"}],
         opened \/ \A c \in Msg : at'[c] = at[c]
  PROVE  McpInv'
<1>1. row' = M!None /\ stored' = M!None /\ operator' = -1 /\ persisted' = -1
  BY DEF M!Clear
<1>2. M!None \in McpRow
  BY DEF M!None, McpRow
<1>3. McpTypeOK'
  BY <1>1, <1>2 DEF McpInv, McpTypeOK
<1>4. MemoryIsRow' /\ Numbers' /\ UsesKept'
  BY <1>1 DEF McpInv, MemoryIsRow, Numbers, UsesKept, McpTypeOK
<1> QED BY <1>3, <1>4 DEF McpInv

LEMMA McpExpired ==
  ASSUME McpInv, M!Known # M!None, M!Expired(M!Known)
  PROVE  row # M!None /\ (now - mcpUse >= IdleMs \/ now >= row.born + McpMaxAge)
<1>1. row # M!None /\ M!Known \in {stored, row}
  BY DEF M!Known, McpInv, MemoryIsRow
<1>2. M!Known.born = row.born /\ mcpUse <= M!Known.seen + TouchMs
  BY <1>1 DEF M!Known, McpInv, MemoryIsRow, UsesKept
<1>3. M!Known.seen \in Int /\ row.born \in Int /\ mcpUse \in Int /\ now \in Int
  BY <1>1 DEF McpInv, McpTypeOK, McpRow
<1> QED BY <1>1, <1>2, <1>3, McpNumbers DEF M!Expired, M!DurableIdle

LEMMA McpOpen ==
  ASSUME McpInv, M!Open
  PROVE  McpInv' /\ McpKept
<1> DEFINE r == [born |-> now, seen |-> now, state |-> 0]
<1>1. /\ ~opened /\ opened' = TRUE /\ stored' = r /\ row' = r /\ operator' = 0 /\ persisted' = now /\ mcpUse' = now
      /\ UNCHANGED <<now, at, before, runs, told>>
  BY DEF M!Open, M!Store
<1>2. r \in McpRow /\ r # M!None /\ r.born = now /\ r.seen = now /\ r.state = 0
  BY DEF McpInv, McpTypeOK, McpRow, M!None
<1> HIDE DEF r
<1>3. McpTypeOK'
  BY <1>1, <1>2 DEF McpInv, McpTypeOK
<1>4. runs = 0 /\ told = 0 /\ row = M!None /\ \A c \in Msg : at[c] = "new"
  BY <1>1 DEF McpInv, Numbers, McpTypeOK
<1>5. MemoryIsRow' /\ Numbers' /\ UsesKept'
  BY <1>1, <1>2, <1>4, McpNumbers DEF McpInv, McpTypeOK, MemoryIsRow, Numbers, UsesKept, Serving
<1> QED BY <1>1, <1>2, <1>3, <1>4, <1>5 DEF McpInv, McpKept

LEMMA McpNotFound ==
  ASSUME McpInv, NEW c \in Msg, M!NotFound(c)
  PROVE  McpInv' /\ McpKept
<1>1. /\ at' = [at EXCEPT ![c] = "refused"] /\ at[c] = "sent"
      /\ UNCHANGED <<now, before, runs, told, mcpUse, opened>>
  BY DEF M!NotFound, M!Goes
<1>2. /\ at' \in [Msg \cup Sse -> {"new", "sent", "authorizing", "running", "answered", "refused", "lost"}]
      /\ \A x \in Msg : Serving(x)' => Serving(x)
      /\ opened
  BY <1>1 DEF McpInv, McpTypeOK, Serving, Numbers
<1>3. CASE M!Known = M!None
  <2>1. UNCHANGED <<row, stored, operator, persisted>>
    BY <1>3 DEF M!NotFound, M!http
  <2> QED BY <1>1, <1>2, <2>1, McpQuiet DEF McpInv, McpTypeOK
<1>4. CASE M!Known # M!None
  <2>1. M!Clear /\ M!Expired(M!Known)
    BY <1>4 DEF M!NotFound
  <2>2. row' = M!None
    BY <2>1 DEF M!Clear
  <2> QED BY <1>1, <1>2, <1>4, <2>1, <2>2, McpClears, McpExpired DEF McpKept
<1> QED BY <1>3, <1>4

\* A row that is in storage before, and in memory afterwards: what a message
\* brings in, or what the alarm reads.
LEMMA McpInMemory ==
  ASSUME McpInv, row # M!None, UNCHANGED <<runs, told, opened, now>>, before' \in [Msg -> Int],
         NEW k \in McpRow, stored' = k, k.born = row.born, k.state = row.state, k.seen >= row.seen, k.seen <= now,
         UNCHANGED row, persisted' = row.seen,
         operator' \in Int, operator' <= runs, operator' = -1 \/ operator' >= row.state,
         mcpUse' \in Int, mcpUse' <= row.seen + TouchMs, mcpUse' <= k.seen + TouchMs,
         at' \in [Msg \cup Sse -> {"new", "sent", "authorizing", "running", "answered", "refused", "lost"}],
         operator' = -1 => \A c \in Msg : ~Serving(c)'
  PROVE  McpInv' /\ McpKept
<1>1. k # M!None /\ row.seen \in Int /\ row.state \in Int /\ row.state >= 0
  BY DEF McpInv, McpTypeOK, MemoryIsRow, McpRow, M!None
<1>2. McpTypeOK'
  BY <1>1 DEF McpInv, McpTypeOK
<1>3. MemoryIsRow'
  BY <1>1 DEF McpInv, MemoryIsRow, Serving
<1>4. Numbers' /\ UsesKept'
  BY <1>1 DEF McpInv, Numbers, UsesKept, McpTypeOK
<1> QED BY <1>2, <1>3, <1>4 DEF McpInv, McpKept

\* storeHttpSession: memory and storage hold the state of the session object.
LEMMA McpWrites ==
  ASSUME McpInv, row # M!None, UNCHANGED <<runs, opened, now>>, before' \in [Msg -> Int],
         NEW k \in McpRow, stored' = k, row' = k, persisted' = k.seen, k.seen \in 0 .. now,
         operator' = k.state, k.state \in 0 .. runs, told' \in 0 .. k.state,
         mcpUse' \in Int, mcpUse' <= k.seen + TouchMs,
         at' \in [Msg \cup Sse -> {"new", "sent", "authorizing", "running", "answered", "refused", "lost"}]
  PROVE  McpInv' /\ McpKept
<1>1. k # M!None /\ k.seen \in Int /\ k.state \in Int /\ opened
  BY DEF McpInv, McpTypeOK, McpRow, M!None, Numbers
<1>2. McpTypeOK'
  BY <1>1 DEF McpInv, McpTypeOK
<1>3. MemoryIsRow'
  BY <1>1 DEF McpInv, MemoryIsRow, Serving, McpTypeOK
<1>4. Numbers' /\ UsesKept'
  BY <1>1 DEF McpInv, Numbers, UsesKept, McpTypeOK
<1> QED BY <1>1, <1>2, <1>3, <1>4 DEF McpInv, McpKept

\* The row a message is served with.
LEMMA McpKnown ==
  ASSUME McpInv, M!Known # M!None
  PROVE  /\ row # M!None /\ M!Known \in McpRow /\ M!Known.born = row.born /\ M!Known.state = row.state
         /\ M!Known.seen >= row.seen /\ M!Known.seen <= now /\ mcpUse <= M!Known.seen + TouchMs
         /\ mcpUse <= row.seen + TouchMs /\ row.seen <= now
         /\ row.state \in told .. runs /\ row.seen \in Nat /\ mcpUse \in Int /\ M!Known.seen \in Nat
         /\ (IF persisted = -1 THEN M!Known.seen ELSE persisted) = row.seen
<1>1. McpTypeOK /\ MemoryIsRow /\ UsesKept /\ Numbers
  BY DEF McpInv
<1>2. CASE stored = M!None
  <2>1. M!Known = row /\ persisted = -1
    BY <1>1, <1>2 DEF M!Known, MemoryIsRow
  <2> QED BY <1>1, <2>1 DEF McpTypeOK, McpRow, MemoryIsRow, UsesKept, Numbers
<1>3. CASE stored # M!None
  <2>1. M!Known = stored /\ row # M!None
    BY <1>1, <1>3 DEF M!Known, MemoryIsRow
  <2>2. persisted = row.seen /\ stored.state = row.state /\ stored.born = row.born /\ stored.seen >= row.seen
    BY <1>1, <1>3 DEF MemoryIsRow
  <2>3. persisted # -1 /\ row.seen >= 0 /\ row.seen \in Int
    BY <1>1, <2>1, <2>2 DEF MemoryIsRow, McpTypeOK, McpRow
  <2> QED BY <1>1, <1>3, <2>1, <2>2, <2>3 DEF McpTypeOK, McpRow, UsesKept, Numbers
<1> QED BY <1>2, <1>3

LEMMA McpArrive ==
  ASSUME McpInv, NEW c \in Msg, M!Arrive(c)
  PROVE  McpInv' /\ McpKept
<1> DEFINE K == M!Known
           used == [K EXCEPT !.seen = now]
           last == IF persisted = -1 THEN K.seen ELSE persisted
<1>1. /\ K # M!None /\ at[c] = "sent" /\ at' = [at EXCEPT ![c] = "authorizing"]
      /\ operator' = IF operator = -1 THEN K.state ELSE operator
      /\ before' = [before EXCEPT ![c] = operator']
      /\ UNCHANGED <<now, runs, told, opened>>
  BY DEF M!Arrive, M!Restored, M!Goes
<1>2. /\ row # M!None /\ K \in McpRow /\ K.born = row.born /\ K.state = row.state
      /\ K.seen >= row.seen /\ K.seen <= now /\ mcpUse <= K.seen + TouchMs
      /\ mcpUse <= row.seen + TouchMs /\ row.seen <= now
      /\ row.state \in told .. runs /\ row.seen \in Nat /\ mcpUse \in Int /\ K.seen \in Nat
      /\ last = row.seen
  BY <1>1, McpKnown
<1>3. /\ at' \in [Msg \cup Sse -> {"new", "sent", "authorizing", "running", "answered", "refused", "lost"}]
      /\ now \in Nat /\ runs \in Int /\ told \in Nat /\ operator \in -1 .. runs
      /\ operator = -1 \/ operator >= row.state
  BY <1>1, <1>2 DEF McpInv, McpTypeOK, Numbers, MemoryIsRow
<1>4. operator' \in 0 .. runs /\ operator' >= row.state /\ before' \in [Msg -> Int]
  BY <1>1, <1>2, <1>3 DEF McpInv, McpTypeOK
<1>5. PICK q \in McpRow : K = q
  BY <1>2
<1>6. /\ [q EXCEPT !.seen = now] = [born |-> q.born, seen |-> now, state |-> q.state]
      /\ [[born |-> q.born, seen |-> now, state |-> q.state] EXCEPT !.state = operator']
            = [born |-> q.born, seen |-> now, state |-> operator']
  BY DEF McpRow
<1>7. used = [born |-> q.born, seen |-> now, state |-> q.state]
      /\ [used EXCEPT !.state = operator'] = [born |-> q.born, seen |-> now, state |-> operator']
  BY <1>5, <1>6
<1>8. [born |-> q.born, seen |-> now, state |-> q.state] \in McpRow
      /\ [born |-> q.born, seen |-> now, state |-> operator'] \in McpRow
  BY <1>3, <1>4 DEF McpRow
<1>9. CASE ~M!Meaningful(c) \/ KindOf[c] = "close"
  <2>1. stored' = K /\ persisted' = last /\ UNCHANGED <<row, mcpUse>>
    BY <1>9 DEF M!Arrive, M!Touched
  <2> QED BY <1>1, <1>2, <1>3, <1>4, <2>1, McpInMemory
<1>10. CASE ~(~M!Meaningful(c) \/ KindOf[c] = "close") /\ now - last < TouchMs
  <2>1. stored' = used /\ persisted' = last /\ UNCHANGED row /\ mcpUse' = now
    BY <1>10 DEF M!Arrive, M!Touched
  <2> DEFINE k == [born |-> q.born, seen |-> now, state |-> q.state]
  <2>2. k \in McpRow /\ k.born = row.born /\ k.state = row.state /\ k.seen = now /\ stored' = k
    BY <1>2, <1>5, <1>7, <1>8, <2>1
  <2> HIDE DEF k
  <2> QED BY <1>1, <1>2, <1>3, <1>4, <1>10, <2>1, <2>2, McpInMemory, McpNumbers
<1>11. CASE ~(~M!Meaningful(c) \/ KindOf[c] = "close") /\ ~(now - last < TouchMs)
  <2> DEFINE k == [born |-> q.born, seen |-> now, state |-> operator']
  <2>1. stored' = [used EXCEPT !.state = operator'] /\ persisted' = now /\ row' = stored' /\ mcpUse' = now
    BY <1>11 DEF M!Arrive, M!Touched, M!Store
  <2>2. k \in McpRow /\ k.state = operator' /\ k.seen = now /\ stored' = k
    BY <1>7, <1>8, <2>1
  <2> HIDE DEF k
  <2>3. told' \in 0 .. k.state /\ k.state \in 0 .. runs
    BY <1>1, <1>2, <1>3, <1>4, <2>2
  <2>4. k.seen \in 0 .. now /\ mcpUse' \in Int /\ mcpUse' <= k.seen + TouchMs
    BY <1>3, <2>1, <2>2, McpNumbers
  <2> QED BY <1>1, <1>2, <1>3, <1>4, <2>1, <2>2, <2>3, <2>4, McpWrites
<1> QED BY <1>9, <1>10, <1>11

\* persistHttpStateChange: nothing changes, or the state is in storage.
LEMMA McpPersisted ==
  ASSUME McpInv, NEW c \in Msg, M!Persisted(c)
  PROVE  \/ /\ UNCHANGED <<row, stored, operator, persisted>>
            /\ stored = M!None \/ before[c] = operator
         \/ /\ stored # M!None /\ row' = stored' /\ persisted' = stored.seen /\ UNCHANGED operator
            /\ stored' = [born |-> stored.born, seen |-> stored.seen, state |-> operator]
<1>1. CASE stored = M!None \/ before[c] = operator
  BY <1>1 DEF M!Persisted, M!http
<1>2. CASE ~(stored = M!None \/ before[c] = operator)
  <2>1. /\ stored' = [stored EXCEPT !.state = operator] /\ row' = stored' /\ persisted' = stored.seen
        /\ UNCHANGED operator
    BY <1>2 DEF M!Persisted, M!Store
  <2>2. PICK q \in McpRow : stored = q
    BY DEF McpInv, McpTypeOK
  <2>3. [q EXCEPT !.state = operator] = [born |-> q.born, seen |-> q.seen, state |-> operator]
    BY DEF McpRow
  <2> QED BY <1>2, <2>1, <2>2, <2>3
<1> QED BY <1>1, <1>2

\* What was not written: the session object is gone, or nothing changed.
LEMMA McpAnswers ==
  ASSUME McpInv, NEW c \in Msg, Serving(c), M!Persisted(c), UNCHANGED <<now, before, runs, mcpUse, opened>>,
         at' \in [Msg \cup Sse -> {"new", "sent", "authorizing", "running", "answered", "refused", "lost"}],
         \A x \in Msg : Serving(x)' => Serving(x),
         told' = told \/ (before[c] = -2 /\ told' = M!Max({told, operator}))
  PROVE  McpInv' /\ McpKept
<1>0. McpTypeOK /\ MemoryIsRow /\ Numbers /\ UsesKept /\ opened
  BY DEF McpInv, Numbers, Serving
<1>1. CASE row = M!None
  <2>1. stored = M!None
    BY <1>0, <1>1 DEF MemoryIsRow
  <2>2. UNCHANGED <<row, stored, operator, persisted>>
    BY <2>1, McpPersisted
  <2>3. told' \in 0 .. runs
    <3>1. told \in Int /\ operator \in Int /\ told \in 0 .. runs /\ operator <= runs /\ runs \in Int
      BY <1>0 DEF McpTypeOK, Numbers
    <3>2. M!Max({told, operator}) \in {told, operator} /\ M!Max({told, operator}) >= told
      <4>1. CASE operator >= told
        BY <3>1, <4>1, NewerOfTwo
      <4>2. CASE ~(operator >= told)
        <5>1. {told, operator} = {operator, told}
          OBVIOUS
        <5>2. M!Max({operator, told}) = told
          BY <3>1, <4>2, NewerOfTwo
        <5> QED BY <3>1, <5>1, <5>2
      <4> QED BY <4>1, <4>2
    <3> QED BY <3>1, <3>2
  <2>4. McpTypeOK' /\ MemoryIsRow' /\ Numbers' /\ UsesKept'
    BY <1>0, <1>1, <2>2, <2>3 DEF McpTypeOK, MemoryIsRow, Numbers, UsesKept
  <2> QED BY <1>1, <2>2, <2>4 DEF McpInv, McpKept
<1>2. CASE row # M!None
  <2>1. /\ stored # M!None /\ operator \in 0 .. runs /\ operator >= row.state /\ told \in 0 .. row.state
        /\ row.state \in 0 .. runs /\ stored \in McpRow /\ runs \in Int
    BY <1>0, <1>2 DEF McpTypeOK, MemoryIsRow, Numbers, McpRow
  <2>2. M!Max({told, operator}) = operator
    BY <2>1, NewerOfTwo
  <2>3. CASE UNCHANGED <<row, stored, operator, persisted>> /\ before[c] = operator
    <3>1. UNCHANGED told
      BY <2>1, <2>3
    <3> QED BY <1>0, <2>3, <3>1, McpQuiet DEF McpTypeOK
  <2>4. CASE /\ row' = stored' /\ persisted' = stored.seen /\ UNCHANGED operator
             /\ stored' = [born |-> stored.born, seen |-> stored.seen, state |-> operator]
    <3> DEFINE k == [born |-> stored.born, seen |-> stored.seen, state |-> operator]
    <3>1. k \in McpRow /\ k.seen = stored.seen /\ k.state = operator /\ stored' = k
      BY <2>1, <2>4 DEF McpRow
    <3> HIDE DEF k
    <3>2. told' \in 0 .. operator
      BY <2>1, <2>2
    <3>3. mcpUse \in Int /\ mcpUse <= stored.seen + TouchMs /\ stored.seen \in 0 .. now
      BY <1>0, <1>2, <2>1, McpNumbers DEF McpTypeOK, McpRow, UsesKept, MemoryIsRow
    <3> QED BY <1>0, <1>2, <2>1, <2>4, <3>1, <3>2, <3>3, McpWrites DEF McpTypeOK
  <2> QED BY <2>1, <2>3, <2>4, McpPersisted
<1> QED BY <1>1, <1>2

LEMMA McpAuthorize ==
  ASSUME McpInv, NEW c \in Msg, M!Authorize(c)
  PROVE  McpInv' /\ McpKept
<1>1. /\ Serving(c) /\ UNCHANGED <<now, before, runs, told, mcpUse, opened>> /\ opened
      /\ \E s \in {"answered", "running", "refused"} : at' = [at EXCEPT ![c] = s]
  BY DEF M!Authorize, M!Goes, Serving, McpInv, Numbers
<1>2. /\ at' \in [Msg \cup Sse -> {"new", "sent", "authorizing", "running", "answered", "refused", "lost"}]
      /\ \A x \in Msg : Serving(x)' => Serving(x)
  BY <1>1 DEF McpInv, McpTypeOK, Serving
<1>3. CASE M!Clear /\ KindOf[c] = "close" /\ at' = [at EXCEPT ![c] = "answered"]
  <2>1. at'[c] # at[c]
    BY <1>1, <1>3 DEF McpInv, McpTypeOK, Serving
  <2>2. row' = M!None
    BY <1>3 DEF M!Clear
  <2> QED BY <1>1, <1>2, <1>3, <2>1, <2>2, McpClears DEF McpKept
<1>4. CASE UNCHANGED <<row, stored, operator, persisted>>
  BY <1>1, <1>2, <1>4, McpQuiet DEF McpInv, McpTypeOK
<1>5. CASE M!Persisted(c)
  BY <1>1, <1>2, <1>5, McpAnswers
<1> QED BY <1>3, <1>4, <1>5 DEF M!Authorize, M!Goes, M!http

LEMMA McpDispatch ==
  ASSUME McpInv, NEW c \in Msg, M!Dispatch(c)
  PROVE  McpInv' /\ McpKept
<1>1. /\ Serving(c) /\ runs' = runs + 1 /\ operator' = runs + 1 /\ before' = [before EXCEPT ![c] = -2]
      /\ UNCHANGED <<now, row, stored, persisted, at, told, mcpUse, opened>>
  BY DEF M!Dispatch, Serving
<1>2. McpTypeOK /\ MemoryIsRow /\ Numbers /\ UsesKept /\ opened
  BY <1>1 DEF McpInv, Numbers, Serving
<1>3. McpTypeOK'
  BY <1>1, <1>2 DEF McpTypeOK
<1>4. Numbers' /\ UsesKept'
  BY <1>1, <1>2 DEF Numbers, UsesKept, McpTypeOK, McpRow
<1>5. MemoryIsRow'
  BY <1>1, <1>2 DEF MemoryIsRow, Serving, McpTypeOK, Numbers, McpRow
<1> QED BY <1>1, <1>3, <1>4, <1>5 DEF McpInv, McpKept

LEMMA McpReplies ==
  ASSUME McpInv, NEW c \in Msg, M!Replies(c)
  PROVE  McpInv' /\ McpKept
<1>1. /\ Serving(c) /\ M!Persisted(c) /\ UNCHANGED <<now, before, runs, mcpUse, opened>>
      /\ at' = [at EXCEPT ![c] = "answered"]
      /\ told' = told \/ (before[c] = -2 /\ told' = M!Max({told, operator}))
  BY DEF M!Replies, M!Goes, Serving
<1>2. /\ at' \in [Msg \cup Sse -> {"new", "sent", "authorizing", "running", "answered", "refused", "lost"}]
      /\ \A x \in Msg : Serving(x)' => Serving(x)
  BY <1>1 DEF McpInv, McpTypeOK, Serving
<1> QED BY <1>1, <1>2, McpAnswers

LEMMA McpAlarm ==
  ASSUME McpInv, M!Alarm
  PROVE  McpInv' /\ McpKept
<1>0. /\ UNCHANGED <<now, at, before, runs, told, mcpUse, opened>>
      /\ at \in [Msg \cup Sse -> {"new", "sent", "authorizing", "running", "answered", "refused", "lost"}]
      /\ McpTypeOK /\ MemoryIsRow /\ Numbers /\ UsesKept
  BY DEF M!Alarm, McpInv, McpTypeOK
<1>1. CASE UNCHANGED <<row, stored, operator, persisted>>
  BY <1>0, <1>1, McpQuiet DEF McpTypeOK, Serving
<1>2. CASE row # M!None /\ M!Clear /\ (M!Expired(M!Known) \/ now >= M!Known.born + McpMaxAge)
  <2>1. M!Known # M!None /\ M!Known.born = row.born
    BY <1>0, <1>2 DEF M!Known, MemoryIsRow
  <2>2. M!Expired(M!Known)
    BY <1>2 DEF M!Expired
  <2>3. row' = M!None /\ (now - mcpUse >= IdleMs \/ now >= row.born + McpMaxAge)
    BY <1>2, <2>1, <2>2, McpExpired DEF M!Clear
  <2> QED BY <1>0, <1>2, <2>3, McpClears DEF McpKept
<1>3. CASE row # M!None /\ stored' = M!Known /\ persisted' = row.seen /\ UNCHANGED <<row, operator>>
  <2>1. M!Known # M!None
    BY <1>3 DEF M!Known
  <2>2. operator \in Int /\ operator <= runs /\ (operator = -1 \/ operator >= row.state)
    BY <1>0, <1>3 DEF McpTypeOK, Numbers, MemoryIsRow
  <2>3. operator = -1 => \A c \in Msg : ~Serving(c)'
    BY <1>0, <1>3 DEF MemoryIsRow, Serving
  <2>4. before \in [Msg -> Int]
    BY <1>0 DEF McpTypeOK
  <2> QED BY <1>0, <1>3, <2>1, <2>2, <2>3, <2>4, McpKnown, McpInMemory
<1> QED BY <1>1, <1>2, <1>3 DEF M!Alarm

LEMMA McpLose ==
  ASSUME McpInv, M!Lose
  PROVE  McpInv' /\ McpKept
<1>1. /\ stored' = M!None /\ operator' = -1 /\ persisted' = -1
      /\ at' = [c \in Msg \cup Sse |-> IF at[c] \in {"authorizing", "running"} THEN "lost" ELSE at[c]]
      /\ UNCHANGED <<now, row, before, runs, told, mcpUse, opened>>
  BY DEF M!Lose
<1>2. McpTypeOK'
  BY <1>1 DEF McpInv, McpTypeOK, M!None, McpRow
<1>3. \A c \in Msg : ~Serving(c)' /\ (at[c] = "new" => at'[c] = "new")
  BY <1>1 DEF Serving
<1>4. MemoryIsRow' /\ Numbers' /\ UsesKept'
  BY <1>1, <1>3 DEF McpInv, MemoryIsRow, Numbers, UsesKept, McpTypeOK
<1> QED BY <1>1, <1>2, <1>4 DEF McpInv, McpKept

LEMMA McpStep ==
  ASSUME McpInv, [M!Next]_(M!vars)
  PROVE  McpInv' /\ McpKept
<1>0. McpTypeOK /\ (\A c \in Msg : at[c] # "new" => opened) /\ (\A c \in Sse : c \notin Msg)
  BY McpAssumption DEF McpInv, Numbers
<1>1. ASSUME UNCHANGED <<row, stored, operator, persisted, before, runs, told, mcpUse, opened>>,
             UNCHANGED at \/ \E c \in Sse, s \in {"authorizing", "running", "answered", "refused"} : at' = [at EXCEPT ![c] = s],
             now' \in {now, now + 1}
      PROVE  McpInv' /\ McpKept
  <2>1. /\ at' \in [Msg \cup Sse -> {"new", "sent", "authorizing", "running", "answered", "refused", "lost"}]
        /\ \A c \in Msg : at'[c] = at[c]
    BY <1>0, <1>1 DEF McpTypeOK
  <2>2. now' \in Nat /\ now' >= now
    BY <1>0, <1>1 DEF McpTypeOK
  <2> QED BY <1>1, <2>1, <2>2, McpQuiet DEF Serving
<1>2. CASE M!StreamOpen \/ M!StreamRead \/ M!StreamCancel \/ M!Keepalive \/ M!DevOpen \/ M!CleanupExpired
           \/ M!DevKeepalive \/ M!Reset \/ M!Tick \/ UNCHANGED M!vars
  BY <1>1, <1>2 DEF M!StreamOpen, M!StreamRead, M!StreamCancel, M!Keepalive, M!DevOpen, M!CleanupExpired,
     M!DevKeepalive, M!Reset, M!Tick, M!vars, M!http
<1>3. ASSUME NEW c \in Sse, M!StreamStep(c) PROVE McpInv' /\ McpKept
  BY <1>1, <1>3 DEF M!StreamStep, M!StreamMessage, M!StreamAuthorize, M!StreamReply, M!DevMessage, M!http, M!Goes
<1>4. ASSUME NEW c \in Msg, M!HttpStep(c) PROVE McpInv' /\ McpKept
  <2>1. CASE M!Bearer(c)
    <3>1. /\ UNCHANGED <<row, stored, operator, persisted, before, runs, told, mcpUse, opened, now>>
          /\ at' = [at EXCEPT ![c] = "sent"] /\ opened
      BY <2>1 DEF M!Bearer, M!Goes, M!http
    <3>2. /\ at' \in [Msg \cup Sse -> {"new", "sent", "authorizing", "running", "answered", "refused", "lost"}]
          /\ \A x \in Msg : Serving(x)' => Serving(x)
      BY <1>0, <3>1 DEF McpTypeOK, Serving
    <3> QED BY <1>0, <3>1, <3>2, McpQuiet DEF McpTypeOK
  <2> QED BY <1>4, <2>1, McpNotFound, McpArrive, McpAuthorize, McpDispatch, McpReplies DEF M!HttpStep
<1> QED BY <1>2, <1>3, <1>4, McpOpen, McpAlarm, McpLose DEF M!Next

LEMMA McpInit == M!Init => McpInv /\ queue \in 0 .. QueueLimit
<1> SUFFICES ASSUME M!Init PROVE McpInv /\ queue \in 0 .. QueueLimit
  OBVIOUS
<1> USE DEF M!Init
<1>1. McpTypeOK
  <2>1. M!None \in McpRow
    BY DEF M!None, McpRow
  <2>2. at \in [Msg \cup Sse -> {"new", "sent", "authorizing", "running", "answered", "refused", "lost"}]
    OBVIOUS
  <2>3. before \in [Msg -> Int] /\ now \in Nat /\ operator \in Int /\ persisted \in Int
    OBVIOUS
  <2>4. row \in McpRow /\ stored \in McpRow
    BY <2>1
  <2>5. runs \in Int /\ told \in Int /\ mcpUse \in Int
    OBVIOUS
  <2>6. opened \in BOOLEAN
    OBVIOUS
  <2> HIDE DEF M!Init
  <2> QED BY <2>2, <2>3, <2>4, <2>5, <2>6 DEF McpTypeOK
<1>2. MemoryIsRow /\ Numbers /\ UsesKept
  BY DEF MemoryIsRow, Numbers, UsesKept
<1>3. queue \in 0 .. QueueLimit
  BY McpAssumption
<1> QED BY <1>1, <1>2, <1>3 DEF McpInv

LEMMA QueueStep ==
  ASSUME queue \in 0 .. QueueLimit, [M!Next]_(M!vars)
  PROVE  queue' \in 0 .. QueueLimit
<1>0. QueueLimit \in Nat \ {0} /\ queue \in Int
  BY McpAssumption
<1>1. UNCHANGED queue \/ queue' = 0 \/ queue' = 1 \/ (queue # QueueLimit /\ queue' = queue + 1)
      \/ (queue > 0 /\ queue' = queue - 1)
  BY DEF M!Next, M!vars, M!sse, M!Open, M!Alarm, M!Lose, M!Reset, M!Tick, M!StreamOpen, M!StreamRead,
     M!StreamCancel, M!Keepalive, M!DevOpen, M!CleanupExpired, M!DevKeepalive, M!Begins, M!Writes,
     M!HttpStep, M!Bearer, M!NotFound, M!Arrive, M!Authorize, M!Dispatch, M!Replies,
     M!StreamStep, M!StreamMessage, M!StreamAuthorize, M!StreamReply, M!DevMessage
<1> QED BY <1>0, <1>1

\* The newest command that was answered, or a newer one, is in storage; the
\* frames held for a client that does not read are bounded
\* (persistHttpStateChange, restoreHttpSession, enqueue).
THEOREM McpHolds == M!Spec => [](M!ToldIsKept /\ M!QueueBound)
<1> DEFINE Inv == McpInv /\ queue \in 0 .. QueueLimit
<1>1. Inv => M!ToldIsKept /\ M!QueueBound
  BY McpAssumption DEF McpInv, McpTypeOK, McpRow, Numbers, M!ToldIsKept, M!QueueBound
<1>2. Inv /\ [M!Next]_(M!vars) => Inv'
  BY McpStep, QueueStep
<1> QED BY <1>1, <1>2, McpInit, PTL DEF M!Spec

\* A session that has ended stays so, and use keeps one (clearHttpSession,
\* MCP_HTTP_DURABLE_IDLE_MS).
THEOREM McpStepsHold == M!Spec => M!EndedForGood /\ M!UseKeepsIt
<1>1. McpInv /\ [M!Next]_(M!vars) => McpInv'
  BY McpStep
<1>2. McpInv /\ [M!Next]_(M!vars) => [opened /\ row = M!None => row' = M!None]_(M!vars)
  BY McpStep DEF McpKept
<1>3. McpInv /\ [M!Next]_(M!vars) =>
        [row # M!None /\ row' = M!None =>
           \/ now - mcpUse >= IdleMs \/ now >= row.born + McpMaxAge
           \/ \E c \in Msg : KindOf[c] = "close" /\ at'[c] # at[c]]_(M!vars)
  BY McpStep DEF McpKept
<1>4. M!Init => McpInv
  BY McpInit
<1> QED BY <1>1, <1>2, <1>3, <1>4, PTL DEF M!Spec, M!EndedForGood, M!UseKeepsIt

LEMMA McpMC == MCSpec => M!Spec
<1>1. MCInit => M!Init
  BY DEF MCInit
<1>2. [MCNext]_allVars => [M!Next]_(M!vars)
  BY DEF MCNext, OnlyExpiry, OnlyMcp, OnlyApp, OnlyRows, OnlyRuns, allVars, mcpVars, M!vars, M!http, M!sse
<1> QED BY <1>1, <1>2, PTL DEF MCSpec, M!Spec

\* The same for the runs' specification.
THEOREM McpIsSoundHolds == MCSpec => []McpIsSound
  BY McpMC, McpHolds, PTL DEF McpIsSound

(***************************************************************************)
(* Rows that expire (HubExpiry), for any keys and any times.  Two          *)
(* invariants say what a login's row and its entry in the index know of    *)
(* each other, and that the alarm comes in time; a third counts what the   *)
(* alarm may have before it.                                               *)
(***************************************************************************)
LEMMA Quantities ==
  /\ Idle \in Nat \ {0} /\ MaxAge \in Nat \ {0} /\ Touch \in Nat \ {0} /\ PendTtl \in Nat \ {0}
  /\ Reconcile \in Nat \ {0} /\ Batch \in Nat \ {0} /\ MaxNow \in Nat
  /\ Touch < Idle /\ Idle <= MaxAge
  BY Times

LEMMA NeverIsFar == Never \in Nat /\ Never >= MaxNow + Idle + MaxAge + PendTtl + 1
  BY Quantities DEF Never

LEMMA EarlierOf ==
  ASSUME NEW i \in Int, NEW j \in Int
  PROVE  /\ Earlier(i, j) \in {i, j} /\ Earlier(i, j) <= i /\ Earlier(i, j) <= j
         /\ Later(i, j) \in {i, j} /\ Later(i, j) >= i /\ Later(i, j) >= j
  BY DEF Earlier, Later

\* The first deadline of a set of entries.
LEMMA SoonestIsLeast ==
  ASSUME NEW S, \A x \in S : x.at \in Nat, NEW f \in S
  PROVE  Soonest(S) \in Nat /\ Soonest(S) <= f.at
<1> DEFINE T == {x.at : x \in S}
<1>1. T \subseteq Nat /\ f.at \in T /\ T # {}
  OBVIOUS
<1> DEFINE Less == {ss \in Nat \X Nat : ss[1] < ss[2]}
<1>2. IsWellFoundedOn(Less, Nat)
  BY Zenon, NatLessThanWellFounded DEF OpToRel
<1> HIDE DEF T
<1>3. PICK x \in T : \A y \in T : ~(<<y, x>> \in Less)
  <2> HIDE DEF Less
  <2> QED BY <1>1, <1>2, WFMin
<1>6. \A y \in T : x <= y
  <2> SUFFICES ASSUME NEW y \in T, y < x PROVE FALSE
    BY <1>1
  <2>1. <<y, x>> \in Nat \X Nat /\ <<y, x>>[1] < <<y, x>>[2]
    BY <1>1
  <2>2. <<y, x>> \in Less
    BY <2>1
  <2> QED BY <2>2, <1>3
<1>4. Min(T) \in T /\ \A y \in T : Min(T) <= y
  BY <1>6 DEF Min
<1>5. Soonest(S) = Min(T)
  BY DEF Soonest, T
<1> QED BY <1>1, <1>4, <1>5

LEMMA SoonestOfAll ==
  ASSUME NEW S, \A x \in S : x.at \in Nat
  PROVE  Soonest(S) \in Nat
  BY SoonestIsLeast, NeverIsFar DEF Soonest

\* The keys in Order; an entry that none has.
LEMMA FirstKey == Order[1] \in Key /\ NoMeta.at = Never /\ NoMeta.key = Order[1]
<1>1. Key # {}
  BY Keys
<1>2. 1 \in DOMAIN Order
  BY <1>1, Keys
<1> QED BY <1>2, Keys DEF NoMeta

\* What the rows and their entries are.
LoginRow == [born : Int, seen : Int]
ExpTyped ==
  /\ clock \in 0 .. MaxNow /\ alarm \in Int /\ crashed \in Nat /\ cursor.at \in Int
  /\ data \in [Key -> LoginRow] /\ DOMAIN meta = Key /\ DOMAIN lastUse = Sess
  /\ \A k \in Key : meta[k].at \in Nat

\* A session whose uses are written down lasts from the last that was; its
\* entry, where it has one, is as late as the row says, or later.
Written(s) ==
  /\ data[s].born \in 0 .. clock /\ data[s].seen \in 0 .. clock
  /\ lastUse[s] < data[s].seen + Touch
  /\ meta[s].at >= data[s].born + MaxAge \/ meta[s].at >= data[s].seen + Idle
LoginAt(s) ==
  /\ lastUse[s] \in 0 .. clock
  /\ \/ data[s] = Absent
     \/ data[s] = Old /\ meta[s].at >= lastUse[s] + MaxAge
     \/ Written(s)
LoginsInv == \A s \in Sess : LoginAt(s)

\* An entry is that of its key, or of none; the alarm comes no later than
\* the first of them, and than the next adoption.
IndexInv ==
  /\ \A e \in index : e.key \in Key /\ e.at \in Nat /\ e.at < Never
  /\ \A k \in Key : meta[k] # NoMeta => meta[k] \in index /\ meta[k].key = k
  /\ \A e \in index : alarm <= Later(e.at, clock + 1)
  /\ scheduled => alarm <= Later(cursor.at, clock + 1)

\* The entries that a death has left behind, and the rounds that the alarm
\* still has to make before it has come to an entry.
Left     == {e \in index : meta[e.key] # e}
UpTo(e)  == {f \in index : f.at <= e.at}
Rounds(e) == clock - e.at + (IF alarm > clock THEN 1 ELSE 0)
RoundsInv ==
  /\ IsFiniteSet(Left) /\ Cardinality(Left) <= crashed
  /\ \A e \in index : e.at <= clock =>
       Cardinality(UpTo(e)) + Batch * Rounds(e) <= Cardinality(Key) + crashed

ExpInv == ExpTyped /\ LoginsInv /\ IndexInv /\ RoundsInv

\* There are no more entries than keys and deaths.
LEMMA EntriesOfKeys ==
  ASSUME IndexInv, RoundsInv, crashed \in Nat
  PROVE  IsFiniteSet(index) /\ Cardinality(index) <= Cardinality(Key) + crashed
<1> DEFINE S == index \ Left
           h == [e \in S |-> e.key]
<1>1. \A e \in S : meta[e.key] = e /\ e.key \in Key
  BY DEF IndexInv, Left
<1>2. h \in Injection(S, Key)
  BY <1>1 DEF Injection, IsInjective
<1>3. IsFiniteSet(S) /\ Cardinality(S) <= Cardinality(Key)
  BY <1>2, Keys, FS_Injection
<1>4. IsFiniteSet(Left) /\ Cardinality(Left) <= crashed
  BY DEF RoundsInv
<1>5. index = S \cup Left
  BY DEF Left
<1> HIDE DEF S
<1>6. IsFiniteSet(index) /\ Cardinality(index) = Cardinality(S) + Cardinality(Left) - Cardinality(S \cap Left)
  BY <1>3, <1>4, <1>5, FS_Union
<1>7. Cardinality(S \cap Left) \in Nat /\ Cardinality(S) \in Nat /\ Cardinality(Left) \in Nat /\ Cardinality(Key) \in Nat
  BY <1>3, <1>4, Keys, FS_Intersection, FS_CardinalityType
<1> QED BY <1>3, <1>4, <1>6, <1>7

\* What a handler does to the entries of the keys K, and to no other.
Replaces(K) ==
  /\ UNCHANGED <<clock, cursor, crashed>> /\ DOMAIN meta' = Key
  /\ \A q \in Key \ K : meta'[q] = meta[q]
  /\ \A q \in K : \/ meta'[q] = NoMeta
                  \/ /\ meta'[q] \in index' /\ meta'[q].key = q /\ meta'[q].at \in Nat
                     /\ clock < meta'[q].at /\ meta'[q].at < Never /\ alarm' <= meta'[q].at
  /\ \A f \in index \ index' : \E q \in K : f = meta[q]
  /\ \A f \in index' \ index : \E q \in K : f = meta'[q] /\ f # NoMeta
  /\ \A q \in K : meta[q] \in index' => meta[q] = meta'[q]
  /\ alarm' \in Int /\ alarm' <= alarm
  /\ scheduled' => alarm' <= Later(cursor.at, clock + 1)

\* Such a handler leaves nothing behind, and brings nothing before an entry
\* that is due.
LEMMA HandlerStep ==
  ASSUME ExpTyped, IndexInv, RoundsInv, NEW K \in SUBSET Key, Replaces(K)
  PROVE  IndexInv' /\ RoundsInv' /\ \A k \in Key : meta'[k].at \in Nat
<1> USE DEF Replaces
<1>1. clock \in Int /\ alarm \in Int /\ alarm' \in Int /\ cursor.at \in Int /\ crashed \in Nat
      /\ clock' = clock /\ crashed' = crashed /\ cursor' = cursor /\ Never \in Nat
  BY NeverIsFar DEF ExpTyped
<1>2. \A f \in index' : f \in index \/ (f.key \in K /\ f = meta'[f.key] /\ f # NoMeta)
  <2> SUFFICES ASSUME NEW f \in index' \ index PROVE f.key \in K /\ f = meta'[f.key] /\ f # NoMeta
    OBVIOUS
  <2>1. PICK q \in K : f = meta'[q] /\ f # NoMeta
    OBVIOUS
  <2> QED BY <2>1
<1>3. \A f \in index' : f \in index \/ (f.at > clock /\ f.at \in Nat /\ f.at < Never /\ f.key \in Key /\ alarm' <= f.at)
  BY <1>2
<1>4. \A f \in index' : f.key \in Key /\ f.at \in Nat /\ f.at < Never
  BY <1>3 DEF IndexInv
<1>5. \A k \in Key : meta'[k] # NoMeta => meta'[k] \in index' /\ meta'[k].key = k
  <2> SUFFICES ASSUME NEW k \in Key, meta'[k] # NoMeta PROVE meta'[k] \in index' /\ meta'[k].key = k
    OBVIOUS
  <2>1. CASE k \in K
    BY <2>1
  <2>2. CASE k \notin K
    <3>1. meta'[k] = meta[k] /\ meta[k] \in index /\ meta[k].key = k
      BY <2>2 DEF IndexInv
    <3>2. \A q \in K : meta[k] # meta[q]
      BY <3>1, <2>2 DEF IndexInv
    <3> QED BY <3>1, <3>2
  <2> QED BY <2>1, <2>2
<1>6. \A f \in index' : alarm' <= Later(f.at, clock' + 1)
  <2> SUFFICES ASSUME NEW f \in index' PROVE alarm' <= Later(f.at, clock + 1)
    BY <1>1
  <2>1. f.at \in Int
    BY <1>4
  <2>2. f \in index => alarm <= Later(f.at, clock + 1)
    BY DEF IndexInv
  <2> QED BY <1>1, <1>3, <2>1, <2>2, EarlierOf
<1>7. IndexInv'
  BY <1>1, <1>4, <1>5, <1>6 DEF IndexInv
<1>8. \A f \in index' : f \notin index => f \notin Left'
  BY <1>2 DEF Left
<1>9. \A f \in index' : f \in index /\ f \notin Left => f \notin Left'
  <2> SUFFICES ASSUME NEW f \in index', f \in index, meta[f.key] = f PROVE meta'[f.key] = f
    BY DEF Left
  <2>1. f.key \in Key
    BY <1>4
  <2> QED BY <2>1
<1>10. Left' \in SUBSET Left
  BY <1>8, <1>9 DEF Left
<1>11. IsFiniteSet(Left') /\ Cardinality(Left') <= crashed'
  BY <1>1, <1>10, FS_Subset, FS_CardinalityType DEF RoundsInv
<1>12. ASSUME NEW f \in index', f.at <= clock'
       PROVE  Cardinality(UpTo(f)') + Batch * Rounds(f)' <= Cardinality(Key) + crashed'
  <2>1. f \in index /\ f.at \in Nat
    BY <1>1, <1>3, <1>4, <1>12
  <2>2. UpTo(f)' \in SUBSET UpTo(f)
    BY <1>1, <1>3, <1>4, <1>12, <2>1 DEF UpTo
  <2>3. IsFiniteSet(UpTo(f))
    BY <1>1, EntriesOfKeys, FS_Subset, UpTo(f) \in SUBSET index DEF UpTo
  <2>4. Cardinality(UpTo(f)') <= Cardinality(UpTo(f)) /\ Cardinality(UpTo(f)') \in Nat /\ Cardinality(UpTo(f)) \in Nat
    BY <2>2, <2>3, FS_Subset, FS_CardinalityType
  <2>5. Rounds(f)' \in Int /\ Rounds(f) \in Int /\ (Rounds(f)' = Rounds(f) \/ Rounds(f)' = Rounds(f) - 1)
    BY <1>1, <2>1 DEF Rounds
  <2>6. Batch * (Rounds(f) - 1) = Batch * Rounds(f) - Batch /\ Batch * Rounds(f) \in Int /\ Batch \in Nat
    BY <2>5, Quantities
  <2>7. Cardinality(UpTo(f)) + Batch * Rounds(f) <= Cardinality(Key) + crashed
    BY <2>1, <1>1, <1>12 DEF RoundsInv
  <2>8. Batch * Rounds(f)' <= Batch * Rounds(f) /\ Batch * Rounds(f)' \in Int
    BY <2>5, <2>6
  <2>9. Cardinality(Key) \in Nat
    BY Keys, FS_CardinalityType
  <2> QED BY <1>1, <2>4, <2>6, <2>7, <2>8, <2>9
<1>13. \A k \in Key : meta'[k].at \in Nat
  BY FirstKey, NeverIsFar DEF ExpTyped
<1> QED BY <1>7, <1>11, <1>12, <1>13 DEF RoundsInv

LEMMA EnsuredIs ==
  ASSUME ExpTyped, IndexInv
  PROVE  Ensured \in Int /\ Ensured <= alarm /\ Ensured <= Later(cursor.at, clock + 1)
<1>1. clock \in Int /\ alarm \in Int /\ cursor.at \in Int /\ Never \in Int
  BY NeverIsFar DEF ExpTyped
<1>2. Soonest(index) \in Int
  BY SoonestOfAll DEF IndexInv
<1>3. NextWork \in Int /\ NextWork <= Later(cursor.at, clock + 1)
  BY <1>1, <1>2 DEF NextWork, Earlier, Later
<1>4. CASE scheduled
  BY <1>1, <1>4 DEF Ensured, IndexInv
<1>5. CASE ~scheduled
  BY <1>1, <1>3, <1>5, EarlierOf DEF Ensured, Earlier, Later
<1> QED BY <1>4, <1>5

\* A row is written with its entry; a row is deleted with it; a request that
\* writes none.
LEMMA PutStep ==
  ASSUME ExpTyped, IndexInv, NEW k \in Key, NEW v, NEW exp \in Int, exp < Never, PutExpiring(k, v, exp), Handled
  PROVE  /\ Replaces({k}) /\ meta'[k].at >= exp
         /\ \A q \in Key : q # k => meta'[q] = meta[q]
         /\ data' = [data EXCEPT ![k] = v]
<1> DEFINE t == Later(clock + 1, exp)
           g == CHOOSE g \in 0 .. 3 : [at |-> t, key |-> k, gen |-> g] \notin index
           f == [at |-> t, key |-> k, gen |-> g]
<1>1. /\ meta' = [meta EXCEPT ![k] = f]
      /\ index' = (index \ {meta[k]}) \cup {f}
      /\ alarm' = Earlier(Ensured, t)
      /\ data' = [data EXCEPT ![k] = v]
      /\ UNCHANGED <<clock, cursor, crashed>>
  BY DEF PutExpiring, Without, Handled
<1>2. clock \in 0 .. MaxNow /\ DOMAIN meta = Key /\ clock + 1 < Never /\ MaxNow \in Nat /\ alarm \in Int
  BY NeverIsFar, Quantities DEF ExpTyped
<1>3. t \in Nat /\ clock < t /\ t < Never /\ t >= exp
  BY <1>2 DEF Later
<1>4. f.at = t /\ f.key = k /\ f # NoMeta
  BY <1>3, FirstKey
<1>5. alarm' \in Int /\ alarm' <= alarm /\ alarm' <= t /\ alarm' <= Later(cursor.at, clock + 1)
  <2>1. Later(cursor.at, clock + 1) \in Int
    BY <1>2, EarlierOf DEF ExpTyped
  <2> HIDE DEF t, f, g
  <2> QED BY <1>1, <1>2, <1>3, <2>1, EnsuredIs, EarlierOf DEF Earlier
<1> HIDE DEF t, f, g
<1>6. meta'[k] = f /\ DOMAIN meta' = Key /\ \A q \in Key : q # k => meta'[q] = meta[q]
  BY <1>1, <1>2
<1> QED BY <1>1, <1>3, <1>4, <1>5, <1>6 DEF Replaces

LEMMA DeleteStep ==
  ASSUME ExpTyped, IndexInv, NEW k \in Key, DeleteExpiring(k), Handled
  PROVE  /\ Replaces({k}) /\ data' = [data EXCEPT ![k] = Absent]
         /\ \A q \in Key : q # k => meta'[q] = meta[q]
<1>1. /\ meta' = [meta EXCEPT ![k] = NoMeta] /\ index' = index \ {meta[k]} /\ alarm' = Ensured
      /\ data' = [data EXCEPT ![k] = Absent] /\ UNCHANGED <<clock, cursor, crashed>>
  BY DEF DeleteExpiring, Without, Handled
<1>2. meta'[k] = NoMeta /\ DOMAIN meta' = Key /\ \A q \in Key : q # k => meta'[q] = meta[q]
  BY <1>1 DEF ExpTyped
<1> QED BY <1>1, <1>2, EnsuredIs DEF Replaces

LEMMA UnwrittenStep ==
  ASSUME ExpTyped, IndexInv, UNCHANGED <<meta, index, clock, cursor, crashed>>,
         alarm' = Ensured \/ (alarm' = alarm /\ (scheduled' => scheduled))
  PROVE  Replaces({})
<1>1. DOMAIN meta' = Key /\ \A q \in Key : meta'[q] = meta[q]
  BY DEF ExpTyped
<1>2. alarm' \in Int /\ alarm' <= alarm /\ (scheduled' => alarm' <= Later(cursor.at, clock + 1))
  BY EnsuredIs DEF ExpTyped, IndexInv
<1> QED BY <1>1, <1>2 DEF Replaces

\* A pending login: the expired ones go, and the new one where there is room.
LEMMA PendingStep ==
  ASSUME ExpTyped, IndexInv, NEW p \in Pend, PutPending(p)
  PROVE  /\ \E K \in SUBSET Pend : Replaces(K) /\ \A q \in Key \ K : data'[q] = data[q] /\ meta'[q] = meta[q]
         /\ data' \in [Key -> LoginRow]
         /\ UNCHANGED <<lastUse, clock>>
<1> DEFINE t == clock + PendTtl
           g == CHOOSE g \in 0 .. 3 : [at |-> t, key |-> p, gen |-> g] \notin index
           f == [at |-> t, key |-> p, gen |-> g]
           room == Cardinality(LivePend \ {p}) < SourceLimit
           others == {q \in Spent : q # p}
           K == others \cup (IF room \/ p \in Spent THEN {p} ELSE {})
           kept == index \ {meta[q] : q \in others}
<1>0. p \in Key /\ K \in SUBSET Pend /\ K \in SUBSET Key /\ p \notin others /\ others \subseteq K
  BY DEF Spent, Key
<1>1. /\ data' = [q \in Key |-> IF q \in others THEN Absent
                       ELSE IF q = p /\ room THEN [born |-> clock, seen |-> clock + PendTtl]
                       ELSE IF q = p /\ q \in Spent THEN Absent ELSE data[q]]
      /\ meta' = [q \in Key |-> IF q \in others \/ (q = p /\ q \in Spent /\ ~room) THEN NoMeta
                       ELSE IF q = p /\ room THEN f ELSE meta[q]]
      /\ index' = IF room THEN (kept \ {meta[p]}) \cup {f}
                  ELSE IF p \in Spent THEN kept \ {meta[p]} ELSE kept
      /\ alarm' = IF room THEN Earlier(Ensured, clock + PendTtl) ELSE Ensured
      /\ UNCHANGED <<clock, cursor, crashed, lastUse>>
  BY DEF PutPending, Handled
<1>2. clock \in 0 .. MaxNow /\ MaxNow \in Nat /\ alarm \in Int /\ PendTtl \in Nat \ {0}
  BY Quantities DEF ExpTyped
<1>3. t \in Nat /\ clock < t /\ t < Never
  BY <1>2, NeverIsFar, Quantities
<1>4. f.at = t /\ f.key = p /\ f # NoMeta
  BY <1>3, FirstKey
<1>5. alarm' \in Int /\ alarm' <= alarm /\ (room => alarm' <= t) /\ alarm' <= Later(cursor.at, clock + 1)
  <2>1. Later(cursor.at, clock + 1) \in Int
    BY <1>2, EarlierOf DEF ExpTyped
  <2> HIDE DEF f, g, room, others, K, kept
  <2> QED BY <1>1, <1>2, <1>3, <2>1, EnsuredIs DEF Earlier
<1>6. data' \in [Key -> LoginRow]
  <2>1. Absent \in LoginRow /\ [born |-> clock, seen |-> clock + PendTtl] \in LoginRow /\ data \in [Key -> LoginRow]
    BY <1>2 DEF ExpTyped, LoginRow, Absent
  <2> HIDE DEF f, g, room, others, K, kept
  <2> QED BY <1>1, <2>1
<1>7. \A q \in Key \ K : data'[q] = data[q] /\ meta'[q] = meta[q]
  <2> HIDE DEF f, g, room, others, kept
  <2> QED BY <1>1
<1>8. /\ room => meta'[p] = f
      /\ \A q \in K : meta'[q] = NoMeta \/ (q = p /\ room)
      /\ DOMAIN meta' = Key
  <2> HIDE DEF f, g, room, others, kept
  <2> QED BY <1>0, <1>1
<1>9. /\ room => f \in index'
      /\ \A x \in index \ index' : \E q \in K : x = meta[q]
      /\ \A x \in index' \ index : room /\ x = f
      /\ \A q \in K : meta[q] \in index' => room /\ meta[q] = f
  <2> HIDE DEF f, g, room
  <2> QED BY <1>0, <1>1
<1>10. ASSUME NEW q \in K, meta[q] \in index' PROVE meta[q] = meta'[q]
  <2>1. meta[q] = f /\ room /\ meta[q] # NoMeta
    BY <1>9, <1>10, <1>4
  <2>2. meta[q] \in index /\ meta[q].key = q
    BY <2>1, <1>0 DEF IndexInv
  <2>3. q = p
    BY <2>1, <2>2, <1>4
  <2> QED BY <2>1, <2>3, <1>8
<1>11. Replaces(K)
  <2> HIDE DEF f, g, room, others, K, kept
  <2>1. UNCHANGED <<clock, cursor, crashed>>
    BY <1>1
  <2>2. \A q \in K : meta'[q] = NoMeta \/ (meta'[q] = f /\ q = p /\ room)
    BY <1>8
  <2>3. \A q \in K : \/ meta'[q] = NoMeta
                  \/ /\ meta'[q] \in index' /\ meta'[q].key = q /\ meta'[q].at \in Nat
                     /\ clock < meta'[q].at /\ meta'[q].at < Never /\ alarm' <= meta'[q].at
    BY <2>2, <1>3, <1>4, <1>5, <1>9
  <2>4. \A x \in index' \ index : \E q \in K : x = meta'[q] /\ x # NoMeta
    <3>1. room => p \in K
      BY DEF K
    <3> QED BY <3>1, <1>4, <1>8, <1>9
  <2> QED BY <2>1, <2>3, <2>4, <1>5, <1>7, <1>8, <1>9, <1>10 DEF Replaces
<1> QED BY <1>0, <1>1, <1>6, <1>7, <1>11

\* The entry that a row without one is given.
LEMMA AdoptionIs ==
  ASSUME ExpTyped, LoginsInv, NEW k \in Orphans
  PROVE  /\ k \in Key /\ meta[k] = NoMeta
         /\ Adoption(k).at \in Nat /\ clock < Adoption(k).at /\ Adoption(k).at < Never /\ Adoption(k).key = k
         /\ k \in Sess => IF data[k] = Old THEN Adoption(k).at >= clock + MaxAge
                          ELSE Adoption(k).at >= EndOf(data[k])
<1>1. PICK i \in Page : k = Order[i] /\ meta[k] = NoMeta
  BY DEF Orphans
<1>2. i \in DOMAIN Order /\ data[k] # Absent
  BY <1>1 DEF Page, Ahead
<1>3. k \in Key
  BY <1>1, <1>2, Keys
<1>4. clock \in 0 .. MaxNow /\ MaxNow \in Nat /\ data[k].born \in Int /\ data[k].seen \in Int
  BY <1>3, Quantities DEF ExpTyped, LoginRow
<1>5. k \in Sess /\ data[k] # Old => data[k].seen <= clock
  BY <1>2, <1>4 DEF LoginsInv, LoginAt, Written
<1>6. AdoptedAt(k) \in Int /\ AdoptedAt(k) < Never
  BY <1>4, <1>5, Quantities, NeverIsFar DEF AdoptedAt, EndOf, Earlier
<1>7. Adoption(k).at = Later(clock + 1, AdoptedAt(k)) /\ Adoption(k).key = k
  BY DEF Adoption
<1>8. clock + 1 < Never
  BY <1>4, Quantities, NeverIsFar
<1>9. Adoption(k).at \in Nat /\ clock < Adoption(k).at /\ Adoption(k).at < Never /\ Adoption(k).at >= AdoptedAt(k)
  BY <1>4, <1>6, <1>7, <1>8 DEF Later
<1>10. k \in Sess => AdoptedAt(k) = IF data[k] = Old THEN clock + MaxAge ELSE EndOf(data[k])
  BY DEF AdoptedAt
<1> QED BY <1>1, <1>3, <1>7, <1>9, <1>10

\* A round of the alarm, of which only E may have come to be swept: the rows
\* that are deleted are those whose own entry is due; an entry that stays
\* behind is one of those that were not reached.
LEMMA SweepStep ==
  ASSUME ExpTyped, LoginsInv, IndexInv, NEW D \in SUBSET index, NEW E \in SUBSET D, Sweeps(D),
         NEW dead \in {Gone(D), Gone(E)}, NEW bare \in {Gone(D), Gone(E)}, Swept(E, dead, bare)
  PROVE  /\ DOMAIN meta' = Key /\ \A k \in Key : meta'[k].at \in Nat
         /\ \A x \in index' : x.key \in Key /\ x.at \in Nat /\ x.at < Never
         /\ \A k \in Key : meta'[k] # NoMeta => meta'[k] \in index' /\ meta'[k].key = k
         /\ Left' \subseteq Left \cup (D \ E)
         /\ index \cap index' = index \ E /\ \A x \in index' \ index : clock < x.at
         /\ \A k \in dead : k \in Key /\ meta[k] \in index /\ meta[k].at <= clock
         /\ \A k \in Key : meta'[k] \in {meta[k], NoMeta} \/ (k \in Orphans /\ meta'[k] = Adoption(k))
<1>1. /\ data' = [k \in Key |-> IF k \in dead THEN Absent ELSE data[k]]
      /\ meta' = [k \in Key |-> IF k \in bare THEN NoMeta ELSE AdoptedMeta[k]]
      /\ index' = (index \cup {Adoption(k) : k \in Orphans}) \ E
  BY DEF Swept, AdoptedIndex
<1>2. \A x \in D : x \in index /\ x.at <= clock
  BY DEF Sweeps, IsDue
<1>3. \A k \in Key : AdoptedMeta[k] = IF k \in Orphans THEN Adoption(k) ELSE meta[k]
  BY DEF AdoptedMeta
<1>4. \A x \in index : x.key \in Key /\ x.at \in Nat /\ x.at < Never
  BY DEF IndexInv
<1>5. clock \in Int
  BY DEF ExpTyped
<1>6. \A k \in Orphans : Adoption(k) \notin D /\ k \in Key /\ meta[k] = NoMeta /\ Adoption(k) # NoMeta
  BY <1>2, <1>4, <1>5, AdoptionIs, FirstKey, NeverIsFar
<1>7. NoMeta \notin index
  BY <1>4, FirstKey, NeverIsFar
<1>8. \A k \in Gone(D) : k \in Key /\ k \notin Orphans /\ meta[k] \in D
  <2> SUFFICES ASSUME NEW x \in D, AdoptedMeta[x.key] = x
               PROVE  x.key \in Key /\ x.key \notin Orphans /\ meta[x.key] \in D
    BY DEF Gone, DeletesRow
  <2> QED BY <1>2, <1>3, <1>4, <1>6
<1>9. Gone(E) \subseteq Gone(D)
  BY DEF Gone
<1>10. dead \subseteq Gone(D) /\ bare \subseteq Gone(D) /\ Gone(E) \subseteq bare
  BY <1>9
<1>11. \A k \in Key : k \notin Orphans /\ meta[k] \in E => k \in Gone(E)
  <2> SUFFICES ASSUME NEW k \in Key, k \notin Orphans, meta[k] \in E PROVE k \in Gone(E)
    OBVIOUS
  <2>1. meta[k].key = k
    BY <1>7 DEF IndexInv
  <2>2. AdoptedMeta[meta[k].key] = meta[k]
    BY <2>1, <1>3
  <2> QED BY <2>1, <2>2 DEF Gone, DeletesRow
<1>12. \A k \in Key : \/ meta'[k] = NoMeta
                      \/ k \notin Orphans /\ meta'[k] = meta[k] /\ meta[k] \notin E
                      \/ k \in Orphans /\ meta'[k] = Adoption(k) /\ Adoption(k) \in index'
  BY <1>1, <1>3, <1>6, <1>10, <1>11
<1>13. \A k \in Key : meta'[k] # NoMeta => meta'[k] \in index' /\ meta'[k].key = k
  <2> SUFFICES ASSUME NEW k \in Key, meta'[k] # NoMeta PROVE meta'[k] \in index' /\ meta'[k].key = k
    OBVIOUS
  <2>1. CASE k \in Orphans /\ meta'[k] = Adoption(k) /\ Adoption(k) \in index'
    BY <2>1, AdoptionIs
  <2>2. CASE k \notin Orphans /\ meta'[k] = meta[k] /\ meta[k] \notin E
    BY <2>2, <1>1 DEF IndexInv
  <2> QED BY <1>12, <2>1, <2>2
<1>14. \A x \in index' : x \in index \/ (x.key \in Orphans /\ x = Adoption(x.key))
  BY <1>1, AdoptionIs
<1>15. \A x \in index' : x.key \in Key /\ x.at \in Nat /\ x.at < Never
  BY <1>4, <1>14, AdoptionIs
<1>16. ASSUME NEW x \in index', x \notin Left, x \notin D \ E PROVE meta'[x.key] = x
  <2>1. CASE x.key \in Orphans /\ x = Adoption(x.key)
    <3>1. x.key \notin Gone(D) /\ x.key \in Key
      BY <2>1, <1>8, <1>6
    <3> QED BY <3>1, <2>1, <1>1, <1>3, <1>10
  <2>2. CASE x \in index
    <3>1. meta[x.key] = x /\ x.key \in Key /\ x \notin E /\ x \notin D
      BY <2>2, <1>1, <1>4, <1>16 DEF Left
    <3>2. x.key \notin Orphans
      BY <3>1, <2>2, <1>6, <1>7
    <3>3. x.key \notin Gone(D)
      BY <3>1, <1>8
    <3> QED BY <3>1, <3>2, <3>3, <1>1, <1>3, <1>10
  <2> QED BY <1>14, <2>1, <2>2
<1>17. Left' \subseteq Left \cup (D \ E)
  BY <1>16 DEF Left
<1>18. \A k \in Key : meta'[k].at \in Nat
  BY <1>12, AdoptionIs, FirstKey, NeverIsFar DEF ExpTyped
<1>19. index \cap index' = index \ E /\ \A x \in index' \ index : clock < x.at
  BY <1>1, <1>14, AdoptionIs
<1>20. \A k \in dead : k \in Key /\ meta[k] \in index /\ meta[k].at <= clock
  BY <1>2, <1>8, <1>10
<1> QED BY <1>1, <1>12, <1>13, <1>15, <1>17, <1>18, <1>19, <1>20

LEMMA UpToIs ==
  ASSUME ExpTyped, IndexInv, RoundsInv, NEW f
  PROVE  IsFiniteSet(UpTo(f)) /\ Cardinality(UpTo(f)) \in Nat
         /\ Cardinality(UpTo(f)) <= Cardinality(Key) + crashed
         /\ Cardinality(Key) \in Nat /\ crashed \in Nat /\ Batch \in Nat
<1>1. UpTo(f) \in SUBSET index /\ crashed \in Nat
  BY DEF UpTo, ExpTyped
<1>2. IsFiniteSet(index) /\ Cardinality(index) <= Cardinality(Key) + crashed
  BY <1>1, EntriesOfKeys
<1> QED BY <1>1, <1>2, FS_Subset, FS_CardinalityType, Keys, Quantities

LEMMA AnotherRound ==
  ASSUME NEW b \in Nat, NEW m \in Int
  PROVE  b * (m + 1) = b * m + b /\ b * m \in Int
  OBVIOUS

\* A round of the alarm: it is set again in time, and what is left of the
\* due entries has a batch less before it.
LEMMA AlarmStep ==
  ASSUME ExpTyped, LoginsInv, IndexInv, RoundsInv, Alarm
  PROVE  IndexInv' /\ RoundsInv' /\ alarm' \in Int /\ cursor'.at \in Int
<1>1. PICK D \in SUBSET index : Sweeps(D) /\ Swept(D, Gone(D), Gone(D)) /\ alarm' = NextAlarm(D)
  BY DEF Alarm
<1>2. /\ \A x \in index' : x.key \in Key /\ x.at \in Nat /\ x.at < Never
      /\ \A k \in Key : meta'[k] # NoMeta => meta'[k] \in index' /\ meta'[k].key = k
      /\ Left' \subseteq Left
      /\ index \cap index' = index \ D /\ \A x \in index' \ index : clock < x.at
  BY <1>1, SweepStep
<1>3. /\ alarm <= clock /\ cursor' = AfterAdoption /\ clock' = clock /\ crashed' = crashed
      /\ clock \in Nat /\ alarm \in Int /\ crashed \in Nat /\ cursor.at \in Int
  BY Quantities DEF Alarm, ExpTyped
<1>4. AfterAdoption.at \in Int
  BY <1>3, Quantities DEF AfterAdoption
<1>5. index' = AdoptedIndex \ D
  BY <1>1 DEF Swept
<1> DEFINE expiry == IF Cardinality(D) = Batch THEN clock + 1
                     ELSE IF index' = {} THEN Never ELSE Later(clock + 1, Soonest(index'))
<1>6. alarm' = Earlier(Later(clock + 1, AfterAdoption.at), expiry)
  BY <1>1, <1>5 DEF NextAlarm
<1>7. Soonest(index') \in Nat /\ \A x \in index' : Soonest(index') <= x.at
  BY <1>2, SoonestIsLeast, SoonestOfAll
<1>8. expiry \in Int /\ expiry > clock /\ \A x \in index' : expiry <= Later(x.at, clock + 1)
  <2>1. Never > clock + 1 /\ Never \in Int
    BY NeverIsFar, Quantities DEF ExpTyped
  <2>2. \A x \in index' : x.at \in Int /\ index' # {}
    BY <1>2
  <2> QED BY <1>3, <1>7, <2>1, <2>2 DEF Later
<1> HIDE DEF expiry
<1>9. alarm' \in Int /\ alarm' > clock /\ alarm' <= expiry /\ alarm' <= Later(cursor'.at, clock + 1)
  BY <1>3, <1>4, <1>6, <1>8 DEF Earlier, Later
<1>10. \A x \in index' : alarm' <= Later(x.at, clock' + 1)
  <2> SUFFICES ASSUME NEW x \in index' PROVE alarm' <= Later(x.at, clock + 1)
    BY <1>3
  <2>1. Later(x.at, clock + 1) \in Int
    BY <1>2, <1>3, EarlierOf
  <2> QED BY <1>8, <1>9, <2>1
<1>11. IndexInv'
  BY <1>2, <1>3, <1>9, <1>10 DEF IndexInv
<1>12. IsFiniteSet(Left') /\ Cardinality(Left') <= crashed'
  BY <1>2, <1>3, FS_Subset, FS_CardinalityType DEF RoundsInv
<1>13. ASSUME NEW f \in index', f.at <= clock'
       PROVE  Cardinality(UpTo(f)') + Batch * Rounds(f)' <= Cardinality(Key) + crashed'
  <2>1. f \in index /\ f \notin D /\ f.at \in Nat /\ f.at <= clock
    BY <1>2, <1>3, <1>13
  <2> DEFINE due == {x \in index : x.at <= clock}
  <2>2. D \subseteq due /\ Cardinality(D) = Earlier(Batch, Cardinality(due)) /\ \A x \in D, y \in due \ D : x.at <= y.at
    BY <1>1 DEF Sweeps, IsDue
  <2>3. IsFiniteSet(due) /\ IsFiniteSet(D) /\ Cardinality(due) \in Nat /\ Cardinality(D) \in Nat
        /\ (Cardinality(D) = Cardinality(due) => D = due)
    BY <1>3, <2>2, EntriesOfKeys, FS_Subset, FS_CardinalityType
  <2>4. f \in due /\ due # D
    BY <2>1
  <2>5. Cardinality(D) = Batch
    BY <2>2, <2>3, <2>4 DEF Earlier
  <2>6. D \subseteq UpTo(f)
    BY <2>2, <2>4, <2>1 DEF UpTo
  <2>7. UpTo(f)' \in SUBSET (UpTo(f) \ D)
    <3> SUFFICES ASSUME NEW x \in index', x.at <= f.at PROVE x \in index /\ x \notin D
      BY DEF UpTo
    <3>1. ~(clock < x.at)
      BY <1>2, <1>3, <2>1
    <3> QED BY <1>2, <3>1
  <2>8. IsFiniteSet(UpTo(f)) /\ Cardinality(UpTo(f)) \in Nat /\ Cardinality(Key) \in Nat /\ Batch \in Nat
    BY UpToIs
  <2>9. UpTo(f) \cap D = D
    BY <2>6
  <2>10. IsFiniteSet(UpTo(f) \ D) /\ Cardinality(UpTo(f) \ D) = Cardinality(UpTo(f)) - Batch
    BY <2>5, <2>8, <2>9, FS_Difference
  <2>11. Cardinality(UpTo(f)') <= Cardinality(UpTo(f)) - Batch /\ Cardinality(UpTo(f)') \in Nat
    BY <2>7, <2>10, FS_Subset, FS_CardinalityType
  <2>12. Rounds(f) \in Int /\ Rounds(f)' = Rounds(f) + 1
    BY <1>3, <1>9, <2>1 DEF Rounds
  <2>13. Batch * (Rounds(f) + 1) = Batch * Rounds(f) + Batch /\ Batch * Rounds(f) \in Int
    BY <2>8, <2>12, AnotherRound
  <2>14. Cardinality(UpTo(f)) + Batch * Rounds(f) <= Cardinality(Key) + crashed
    BY <2>1, <1>3 DEF RoundsInv
  <2>15. Batch * Rounds(f)' = Batch * Rounds(f) + Batch
    BY <2>12, <2>13
  <2> QED BY <1>3, <2>8, <2>11, <2>13, <2>14, <2>15
<1> QED BY <1>3, <1>4, <1>9, <1>11, <1>12, <1>13 DEF RoundsInv

\* A round that dies: an entry more may be left behind.
LEMMA DeathStep ==
  ASSUME ExpTyped, LoginsInv, IndexInv, RoundsInv, AlarmDies
  PROVE  IndexInv' /\ RoundsInv' /\ alarm' \in Int /\ cursor'.at \in Int
<1>1. PICK D \in SUBSET index, E \in SUBSET index :
          /\ Sweeps(D) /\ E \subseteq D /\ Cardinality(D \ E) <= 1
          /\ \E dead \in {Gone(D), Gone(E)}, bare \in {Gone(D), Gone(E)} : Swept(E, dead, bare)
  BY DEF AlarmDies
<1>2. /\ \A x \in index' : x.key \in Key /\ x.at \in Nat /\ x.at < Never
      /\ \A k \in Key : meta'[k] # NoMeta => meta'[k] \in index' /\ meta'[k].key = k
      /\ Left' \subseteq Left \cup (D \ E)
      /\ index \cap index' = index \ E /\ \A x \in index' \ index : clock < x.at
  BY <1>1, SweepStep
<1>3. /\ alarm <= clock /\ cursor' = AfterAdoption /\ clock' = clock /\ crashed' = crashed + 1
      /\ clock \in Nat /\ alarm \in Int /\ crashed \in Nat /\ cursor.at \in Int /\ alarm' = clock /\ scheduled' = FALSE
  BY Quantities DEF AlarmDies, ExpTyped
<1>4. AfterAdoption.at \in Int
  BY <1>3, Quantities DEF AfterAdoption
<1>5. IndexInv'
  BY <1>2, <1>3, EarlierOf DEF IndexInv, Later
<1>6. IsFiniteSet(Left) /\ Cardinality(Left) <= crashed /\ Cardinality(Left) \in Nat
  BY FS_CardinalityType DEF RoundsInv
<1>7. IsFiniteSet(D \ E) /\ Cardinality(D \ E) <= 1 /\ Cardinality(D \ E) \in Nat
  BY <1>1, <1>3, EntriesOfKeys, FS_Subset, FS_CardinalityType
<1>8. IsFiniteSet(Left \cup (D \ E)) /\ Cardinality(Left \cup (D \ E)) <= crashed + 1
      /\ Cardinality(Left \cup (D \ E)) \in Nat
  <2>1. Cardinality(Left \cap (D \ E)) \in Nat
    BY <1>6, FS_Intersection, FS_CardinalityType
  <2>2. IsFiniteSet(Left \cup (D \ E))
        /\ Cardinality(Left \cup (D \ E)) = Cardinality(Left) + Cardinality(D \ E) - Cardinality(Left \cap (D \ E))
    BY <1>6, <1>7, FS_Union
  <2> QED BY <1>3, <1>6, <1>7, <2>1, <2>2, FS_CardinalityType
<1>9. IsFiniteSet(Left') /\ Cardinality(Left') <= crashed'
  <2>1. IsFiniteSet(Left') /\ Cardinality(Left') <= Cardinality(Left \cup (D \ E)) /\ Cardinality(Left') \in Nat
    BY <1>2, <1>8, FS_Subset, FS_CardinalityType
  <2> QED BY <1>3, <1>8, <2>1
<1>10. ASSUME NEW f \in index', f.at <= clock'
       PROVE  Cardinality(UpTo(f)') + Batch * Rounds(f)' <= Cardinality(Key) + crashed'
  <2>1. f \in index /\ f.at \in Nat /\ f.at <= clock
    BY <1>2, <1>3, <1>10
  <2>2. UpTo(f)' \in SUBSET UpTo(f)
    BY <1>2, <1>3, <2>1 DEF UpTo
  <2>3. IsFiniteSet(UpTo(f)) /\ Cardinality(UpTo(f)) \in Nat /\ Cardinality(Key) \in Nat /\ Batch \in Nat
    BY UpToIs
  <2>4. Cardinality(UpTo(f)') <= Cardinality(UpTo(f)) /\ Cardinality(UpTo(f)') \in Nat
    BY <2>2, <2>3, FS_Subset, FS_CardinalityType
  <2>5. Rounds(f) \in Int /\ Rounds(f)' = Rounds(f)
    BY <1>3, <2>1 DEF Rounds
  <2>6. Batch * Rounds(f) \in Int
    BY <2>3, <2>5
  <2>7. Cardinality(UpTo(f)) + Batch * Rounds(f) <= Cardinality(Key) + crashed
    BY <2>1, <1>3 DEF RoundsInv
  <2> QED BY <1>3, <2>3, <2>4, <2>5, <2>6, <2>7
<1> QED BY <1>3, <1>4, <1>5, <1>9, <1>10 DEF RoundsInv

\* Time goes on: the alarm has been, or comes now.
LEMMA TickStep ==
  ASSUME ExpTyped, IndexInv, RoundsInv, Tick
  PROVE  IndexInv' /\ RoundsInv'
<1>1. /\ alarm > clock /\ clock' = clock + 1 /\ clock \in Nat /\ alarm \in Int /\ cursor.at \in Int /\ crashed \in Nat
      /\ UNCHANGED <<meta, index, alarm, cursor, scheduled, crashed>>
  BY Quantities DEF Tick, ExpTyped
<1>2. \A x \in index : x.at \in Nat /\ alarm <= Later(x.at, clock + 1)
  BY DEF IndexInv
<1>3. IndexInv'
  BY <1>1, <1>2 DEF IndexInv, Later
<1>4. Left' = Left
  BY <1>1 DEF Left
<1>5. ASSUME NEW f \in index, f.at <= clock + 1
      PROVE  Cardinality(UpTo(f)) + Batch * Rounds(f)' <= Cardinality(Key) + crashed
  <2>1. Cardinality(UpTo(f)) <= Cardinality(Key) + crashed /\ Cardinality(UpTo(f)) \in Nat
        /\ Cardinality(Key) \in Nat /\ Batch \in Nat
    BY UpToIs
  <2>2. CASE f.at = clock + 1
    <3>1. Rounds(f)' = 0
      BY <1>1, <1>2, <2>2 DEF Rounds, Later
    <3> QED BY <1>1, <2>1, <3>1
  <2>3. CASE f.at <= clock
    <3>1. Rounds(f)' = Rounds(f)
      BY <1>1, <1>2, <2>3 DEF Rounds, Later
    <3>2. Cardinality(UpTo(f)) + Batch * Rounds(f) <= Cardinality(Key) + crashed
      BY <2>3 DEF RoundsInv
    <3> QED BY <3>1, <3>2
  <2> QED BY <1>1, <1>2, <1>5, <2>2, <2>3
<1>6. \A f \in index : UpTo(f)' = UpTo(f)
  BY <1>1 DEF UpTo
<1> QED BY <1>1, <1>3, <1>4, <1>5, <1>6 DEF RoundsInv

LEMMA OldIs == Old # Absent /\ Old \in LoginRow /\ Absent \in LoginRow
<1>1. Old.born # Absent.born
  BY DEF Old, Absent
<1> QED BY <1>1 DEF Old, Absent, LoginRow

\* A session that a step leaves alone.
LEMMA LoginKept ==
  ASSUME NEW s \in Sess, LoginAt(s), clock \in Nat, meta[s].at \in Nat, clock' = clock \/ clock' = clock + 1,
         data'[s] = data[s], meta'[s] = meta[s], lastUse'[s] = lastUse[s]
  PROVE  LoginAt(s)'
  BY Quantities DEF LoginAt, Written

\* A session is over: what that says of its last use.
LEMMA LoginEnds ==
  ASSUME ExpTyped, LoginsInv, NEW s \in Sess, data[s] # Absent,
         meta[s].at <= clock \/ (data[s] # Old /\ EndOf(data[s]) <= clock)
  PROVE  (data[s] # Old /\ clock >= data[s].born + MaxAge) \/ clock - lastUse[s] > Idle - Touch
<1>1. clock \in 0 .. MaxNow /\ MaxNow \in Nat /\ s \in Key /\ meta[s].at \in Nat /\ LoginAt(s)
  BY Quantities DEF ExpTyped, LoginsInv, Key
<1>2. CASE data[s] = Old
  <2>1. meta[s].at >= lastUse[s] + MaxAge /\ lastUse[s] \in 0 .. clock
    BY <1>1, <1>2, OldIs DEF LoginAt, Written, Old
  <2> QED BY <1>1, <1>2, <2>1, Quantities
<1>3. CASE data[s] # Old
  <2>1. Written(s) /\ lastUse[s] \in 0 .. clock
    BY <1>1, <1>3 DEF LoginAt
  <2>2. EndOf(data[s]) \in {data[s].born + MaxAge, data[s].seen + Idle}
    BY DEF EndOf, Earlier
  <2> QED BY <1>1, <1>3, <2>1, <2>2, Quantities DEF Written
<1> QED BY <1>2, <1>3

\* What a handler of the session k does, short of its entry.
LoginMoves(k) ==
  /\ data' \in [Key -> LoginRow] /\ DOMAIN lastUse' = Sess
  /\ LoginAt(k)'
  /\ \A s \in Sess : s # k => UNCHANGED <<data[s], meta[s], lastUse[s]>>
  /\ \E K \in SUBSET {k} : Replaces(K)
  /\ data[k] # Absent /\ data'[k] = Absent =>
        \/ Logout(k)
        \/ data[k] # Old /\ clock >= data[k].born + MaxAge
        \/ clock - lastUse[k] > Idle - Touch

LEMMA IssueMoves ==
  ASSUME ExpTyped, LoginsInv, IndexInv, NEW k \in Sess, IssueSession(k)
  PROVE  LoginMoves(k)
<1>1. clock \in 0 .. MaxNow /\ MaxNow \in Nat /\ k \in Key
  BY Quantities DEF ExpTyped, Key
<1> DEFINE v == [born |-> clock, seen |-> clock]
<1>2. clock + Idle \in Int /\ clock + Idle < Never
  BY <1>1, Quantities, NeverIsFar
<1>3. PutExpiring(k, v, clock + Idle) /\ Handled /\ data[k] = Absent
      /\ lastUse' = [lastUse EXCEPT ![k] = clock] /\ clock' = clock
  BY DEF IssueSession, Handled
<1>4. /\ Replaces({k}) /\ meta'[k].at >= clock + Idle /\ data' = [data EXCEPT ![k] = v]
      /\ \A q \in Key : q # k => meta'[q] = meta[q]
  BY <1>1, <1>2, <1>3, PutStep
<1>5. v \in LoginRow /\ v.born = clock /\ v.seen = clock
  BY <1>1 DEF LoginRow
<1> HIDE DEF v
<1>6. data'[k] = v /\ data' \in [Key -> LoginRow] /\ \A s \in Sess : s # k => data'[s] = data[s]
  BY <1>1, <1>4, <1>5 DEF ExpTyped
<1>7. lastUse'[k] = clock /\ DOMAIN lastUse' = Sess /\ \A s \in Sess : s # k => lastUse'[s] = lastUse[s]
  BY <1>3 DEF ExpTyped
<1>8. LoginAt(k)'
  BY <1>1, <1>3, <1>4, <1>5, <1>6, <1>7, Quantities DEF LoginAt, Written
<1> QED BY <1>3, <1>4, <1>6, <1>7, <1>8 DEF LoginMoves, Key

LEMMA DeleteMoves ==
  ASSUME ExpTyped, LoginsInv, IndexInv, NEW k \in Sess, data[k] # Absent, DeleteExpiring(k), Handled, UNCHANGED lastUse,
         Logout(k) \/ (data[k] # Old /\ EndOf(data[k]) <= clock)
  PROVE  LoginMoves(k)
<1>1. k \in Key /\ clock' = clock
  BY DEF Key, Handled
<1>2. /\ Replaces({k}) /\ data' = [data EXCEPT ![k] = Absent]
      /\ \A q \in Key : q # k => meta'[q] = meta[q]
  BY <1>1, DeleteStep
<1>3. data'[k] = Absent /\ data' \in [Key -> LoginRow] /\ \A s \in Sess : s # k => data'[s] = data[s]
  BY <1>1, <1>2, OldIs DEF ExpTyped
<1>4. LoginAt(k)'
  BY <1>1, <1>3 DEF LoginsInv, LoginAt
<1>5. Logout(k) \/ (data[k] # Old /\ clock >= data[k].born + MaxAge) \/ clock - lastUse[k] > Idle - Touch
  BY LoginEnds
<1> QED BY <1>2, <1>3, <1>4, <1>5 DEF LoginMoves, Key, ExpTyped

\* A use: the row as it reads now, with the use written down or not.
LEMMA AcceptMoves ==
  ASSUME ExpTyped, LoginsInv, IndexInv, NEW k \in Sess, data[k] # Absent, ~(EndOf(RowOf(k)) <= clock),
         Accepted(k), lastUse' = [lastUse EXCEPT ![k] = clock], Handled
  PROVE  LoginMoves(k)
<1>1. clock \in 0 .. MaxNow /\ MaxNow \in Nat /\ k \in Key /\ clock' = clock /\ LoginAt(k)
  BY Quantities DEF ExpTyped, Key, Handled, LoginsInv
<1> DEFINE r == RowOf(k)
<1>2. r \in LoginRow /\ r.born \in 0 .. clock /\ r.seen \in 0 .. clock
  <2>1. data[k] \in LoginRow /\ clock \in 0 .. clock
    BY <1>1, Quantities DEF ExpTyped
  <2>2. CASE data[k] = Old
    BY <2>1, <2>2 DEF RowOf, LoginRow
  <2>3. CASE data[k] # Old
    BY <1>1, <2>1, <2>3 DEF RowOf, LoginAt, Written
  <2> QED BY <2>2, <2>3
<1>3. lastUse'[k] = clock /\ DOMAIN lastUse' = Sess /\ \A s \in Sess : s # k => lastUse'[s] = lastUse[s]
  BY DEF ExpTyped
<1> HIDE DEF r
<1>4. ASSUME NEW v \in LoginRow, v.born \in 0 .. clock, v.seen \in 0 .. clock, clock < v.seen + Touch,
             PutExpiring(k, v, Earlier(v.born + MaxAge, v.seen + Idle))
      PROVE  LoginMoves(k)
  <2>1. /\ Earlier(v.born + MaxAge, v.seen + Idle) \in Int /\ Earlier(v.born + MaxAge, v.seen + Idle) < Never
        /\ Earlier(v.born + MaxAge, v.seen + Idle) \in {v.born + MaxAge, v.seen + Idle}
    BY <1>1, <1>4, Quantities, NeverIsFar DEF Earlier
  <2>2. /\ Replaces({k}) /\ meta'[k].at >= Earlier(v.born + MaxAge, v.seen + Idle) /\ data' = [data EXCEPT ![k] = v]
        /\ \A q \in Key : q # k => meta'[q] = meta[q]
    BY <1>1, <1>4, <2>1, PutStep
  <2>3. data'[k] = v /\ data' \in [Key -> LoginRow] /\ \A s \in Sess : s # k => data'[s] = data[s]
    BY <1>1, <2>2 DEF ExpTyped
  <2>4. LoginAt(k)'
    BY <1>1, <1>3, <1>4, <2>1, <2>2, <2>3, Quantities DEF LoginAt, Written
  <2>5. v # Absent
    BY <1>1, <1>4 DEF Absent
  <2> QED BY <1>3, <2>2, <2>3, <2>4, <2>5 DEF LoginMoves, Key
<1>5. CASE Stale(k)
  <2> DEFINE v == [r EXCEPT !.seen = clock]
  <2>1. v \in LoginRow /\ v.born = r.born /\ v.seen = clock
    BY <1>1, <1>2 DEF LoginRow
  <2>2. PutExpiring(k, v, Earlier(v.born + MaxAge, v.seen + Idle))
    BY <1>5, <2>1 DEF Accepted, r
  <2> HIDE DEF v
  <2> QED BY <1>1, <1>2, <1>4, <2>1, <2>2, Quantities
<1>6. CASE ~Stale(k)
  <2>1. data[k] # Old /\ clock - data[k].seen < Touch /\ r = data[k]
    BY <1>1, <1>6, Quantities DEF Stale, ExpTyped, LoginRow, r, RowOf
  <2>2. CASE meta[k] = NoMeta
    <3>1. PutExpiring(k, r, Earlier(r.born + MaxAge, r.seen + Idle))
      BY <1>6, <2>2 DEF Accepted, r, EndOf
    <3> QED BY <1>1, <1>2, <1>4, <2>1, <3>1, Quantities
  <2>3. CASE meta[k] # NoMeta
    <3>1. UNCHANGED <<data, meta, index>> /\ alarm' = Ensured
      BY <1>6, <2>3 DEF Accepted, Unwritten
    <3>2. Replaces({})
      BY <3>1, UnwrittenStep DEF Handled
    <3>3. LoginAt(k)'
      BY <1>1, <1>2, <1>3, <2>1, <3>1, Quantities DEF LoginAt, Written
    <3> QED BY <1>3, <3>1, <3>2, <3>3 DEF LoginMoves, ExpTyped
  <2> QED BY <2>2, <2>3
<1> QED BY <1>5, <1>6

LEMMA SessionMoves ==
  ASSUME ExpTyped, LoginsInv, IndexInv, NEW k \in Sess, SessionStep(k)
  PROVE  LoginMoves(k)
<1>1. CASE Resolve(k) /\ EndOf(RowOf(k)) <= clock
  <2>1. data[k] # Old
    <3>1. clock \in Nat
      BY Quantities DEF ExpTyped
    <3> QED BY <1>1, <3>1, Quantities DEF RowOf, EndOf, Earlier
  <2> QED BY <1>1, <2>1, DeleteMoves DEF Resolve, RowOf
<1>2. CASE Resolve(k) /\ ~(EndOf(RowOf(k)) <= clock)
  BY <1>2, AcceptMoves DEF Resolve
<1>3. CASE Logout(k)
  BY <1>3, DeleteMoves DEF Logout
<1>4. CASE LegacySession(k)
  <2>1. /\ data[k] = Absent /\ meta[k] = NoMeta /\ data' = [data EXCEPT ![k] = Old]
        /\ lastUse' = [lastUse EXCEPT ![k] = clock]
        /\ UNCHANGED <<clock, meta, index, alarm, cursor, scheduled, crashed>>
    BY <1>4 DEF LegacySession
  <2>2. Replaces({})
    BY <2>1, UnwrittenStep
  <2>3. data'[k] = Old /\ data' \in [Key -> LoginRow] /\ \A s \in Sess : s # k => data'[s] = data[s]
    BY <2>1, OldIs DEF ExpTyped, Key
  <2>4. lastUse'[k] = clock /\ DOMAIN lastUse' = Sess /\ \A s \in Sess : s # k => lastUse'[s] = lastUse[s]
    BY <2>1 DEF ExpTyped
  <2>5. clock \in 0 .. MaxNow /\ MaxNow \in Nat /\ meta'[k].at = Never
    BY <2>1, FirstKey, Quantities DEF ExpTyped
  <2>6. LoginAt(k)'
    BY <2>1, <2>3, <2>4, <2>5, NeverIsFar, Quantities DEF LoginAt
  <2> QED BY <2>1, <2>2, <2>3, <2>4, <2>6, OldIs DEF LoginMoves
<1> QED BY <1>1, <1>2, <1>3, <1>4, IssueMoves DEF SessionStep

\* The rounds of the alarm, for the sessions.
LEMMA SweptLogins ==
  ASSUME ExpTyped, LoginsInv, IndexInv, NEW D \in SUBSET index, NEW E \in SUBSET D, Sweeps(D),
         NEW dead \in {Gone(D), Gone(E)}, NEW bare \in {Gone(D), Gone(E)}, Swept(E, dead, bare),
         UNCHANGED <<clock, lastUse>>
  PROVE  /\ LoginsInv' /\ data' \in [Key -> LoginRow]
         /\ DOMAIN meta' = Key /\ \A k \in Key : meta'[k].at \in Nat
         /\ \A s \in Sess : data[s] # Absent /\ data'[s] = Absent =>
              (data[s] # Old /\ clock >= data[s].born + MaxAge) \/ clock - lastUse[s] > Idle - Touch
<1>1. /\ \A k \in dead : k \in Key /\ meta[k] \in index /\ meta[k].at <= clock
      /\ \A k \in Key : meta'[k] \in {meta[k], NoMeta} \/ (k \in Orphans /\ meta'[k] = Adoption(k))
      /\ DOMAIN meta' = Key /\ \A k \in Key : meta'[k].at \in Nat
  BY SweepStep
<1>2. data' = [k \in Key |-> IF k \in dead THEN Absent ELSE data[k]]
  BY DEF Swept
<1>3. data' \in [Key -> LoginRow]
  BY <1>2, OldIs DEF ExpTyped
<1>4. ASSUME NEW s \in Sess PROVE LoginAt(s)'
  <2>1. s \in Key /\ LoginAt(s) /\ clock \in 0 .. MaxNow /\ MaxNow \in Nat /\ meta[s].at \in Nat /\ meta'[s].at \in Nat
    BY <1>1, Quantities DEF Key, ExpTyped, LoginsInv
  <2>2. CASE data'[s] = Absent
    BY <2>1, <2>2 DEF LoginAt
  <2>3. CASE data'[s] # Absent
    <3>1. data'[s] = data[s] /\ lastUse'[s] = lastUse[s] /\ data[s] # Absent
      BY <1>2, <2>1, <2>3
    <3>2. CASE data[s] = Old
      <4>1. lastUse[s] \in 0 .. clock /\ meta[s].at >= lastUse[s] + MaxAge
        BY <2>1, <3>1, <3>2, OldIs DEF LoginAt, Written, Old
      <4>2. meta'[s].at >= lastUse[s] + MaxAge
        BY <1>1, <2>1, <3>2, <4>1, AdoptionIs, FirstKey, NeverIsFar, Quantities
      <4> QED BY <3>1, <3>2, <4>1, <4>2 DEF LoginAt
    <3>3. CASE data[s] # Old
      <4>1. Written(s) /\ lastUse[s] \in 0 .. clock
        BY <2>1, <3>1, <3>3 DEF LoginAt
      <4>2. EndOf(data[s]) \in {data[s].born + MaxAge, data[s].seen + Idle}
        BY DEF EndOf, Earlier
      <4>3. \/ meta'[s] = meta[s]
            \/ meta'[s].at = Never
            \/ meta'[s].at >= EndOf(data[s])
        BY <1>1, <2>1, <3>3, AdoptionIs, FirstKey
      <4>4. meta'[s].at >= data[s].born + MaxAge \/ meta'[s].at >= data[s].seen + Idle
        BY <2>1, <4>1, <4>2, <4>3, NeverIsFar, Quantities DEF Written
      <4>5. Written(s)'
        BY <3>1, <4>1, <4>4 DEF Written
      <4> QED BY <3>1, <4>1, <4>5 DEF LoginAt
    <3> QED BY <3>2, <3>3
  <2> QED BY <2>2, <2>3
<1>5. ASSUME NEW s \in Sess, data[s] # Absent, data'[s] = Absent
      PROVE  (data[s] # Old /\ clock >= data[s].born + MaxAge) \/ clock - lastUse[s] > Idle - Touch
  <2>1. s \in dead
    BY <1>2, <1>5 DEF Key
  <2> QED BY <1>1, <1>5, <2>1, LoginEnds
<1> QED BY <1>1, <1>3, <1>4, <1>5 DEF LoginsInv

\* Every step keeps the invariants, and takes no session from its user.
LoginsLast ==
  \A s \in Sess : data[s] # Absent /\ data'[s] = Absent =>
    \/ Logout(s)
    \/ data[s] # Old /\ clock >= data[s].born + MaxAge
    \/ clock - lastUse[s] > Idle - Touch

LEMMA LoginsKept ==
  ASSUME ExpTyped, LoginsInv, clock' = clock \/ clock' = clock + 1,
         \A s \in Sess : UNCHANGED <<data[s], meta[s], lastUse[s]>>
  PROVE  LoginsInv' /\ LoginsLast
<1>1. clock \in Nat /\ \A s \in Sess : meta[s].at \in Nat
  BY Quantities DEF ExpTyped, Key
<1> QED BY <1>1, LoginKept DEF LoginsInv, LoginsLast

LEMMA ExpStep ==
  ASSUME ExpInv, [Next]_vars
  PROVE  ExpInv' /\ LoginsLast
<1> USE DEF ExpInv
<1>1. clock \in 0 .. MaxNow /\ MaxNow \in Nat /\ crashed \in Nat
  BY Quantities DEF ExpTyped
<1>2. ASSUME NEW K \in SUBSET Key, Replaces(K), data' \in [Key -> LoginRow], DOMAIN lastUse' = Sess
      PROVE  ExpTyped' /\ IndexInv' /\ RoundsInv'
  <2>1. IndexInv' /\ RoundsInv' /\ \A k \in Key : meta'[k].at \in Nat
    BY <1>2, HandlerStep
  <2> QED BY <1>1, <1>2, <2>1 DEF Replaces, ExpTyped
<1>3. ASSUME NEW k \in Sess, SessionStep(k) PROVE ExpInv' /\ LoginsLast
  <2>1. LoginMoves(k)
    BY <1>3, SessionMoves
  <2>2. PICK K \in SUBSET {k} : Replaces(K)
    BY <2>1 DEF LoginMoves
  <2>3. K \in SUBSET Key /\ clock' = clock /\ \A s \in Sess : meta[s].at \in Nat
    BY <2>2 DEF Key, Replaces, ExpTyped
  <2>4. ExpTyped' /\ IndexInv' /\ RoundsInv'
    BY <1>2, <2>1, <2>2, <2>3 DEF LoginMoves
  <2>5. LoginsInv'
    BY <1>1, <2>1, <2>3, LoginKept DEF LoginMoves, LoginsInv
  <2>6. LoginsLast
    BY <2>1 DEF LoginMoves, LoginsLast
  <2> QED BY <2>4, <2>5, <2>6
<1>4. ASSUME NEW p \in Pend, PutPending(p) PROVE ExpInv' /\ LoginsLast
  <2>1. PICK K \in SUBSET Pend : Replaces(K) /\ \A q \in Key \ K : data'[q] = data[q] /\ meta'[q] = meta[q]
    BY <1>4, PendingStep
  <2>2. data' \in [Key -> LoginRow] /\ UNCHANGED <<lastUse, clock>> /\ K \in SUBSET Key
    BY <1>4, PendingStep DEF Key
  <2>3. ExpTyped' /\ IndexInv' /\ RoundsInv'
    BY <1>2, <2>1, <2>2 DEF ExpTyped
  <2>4. \A s \in Sess : UNCHANGED <<data[s], meta[s], lastUse[s]>>
    BY <2>1, <2>2, Keys DEF Key
  <2> QED BY <2>2, <2>3, <2>4, LoginsKept
<1>5. ASSUME NEW p \in Pend, TakePending(p) PROVE ExpInv' /\ LoginsLast
  <2>1. /\ p \in Key /\ DeleteExpiring(p) /\ Handled /\ UNCHANGED lastUse /\ clock' = clock
    BY <1>5 DEF TakePending, Key, Handled
  <2>2. /\ Replaces({p}) /\ data' = [data EXCEPT ![p] = Absent]
        /\ \A q \in Key : q # p => meta'[q] = meta[q]
    BY <2>1, DeleteStep
  <2>3. data' \in [Key -> LoginRow] /\ DOMAIN lastUse' = Sess
    BY <2>1, <2>2, OldIs DEF ExpTyped
  <2>4. ExpTyped' /\ IndexInv' /\ RoundsInv'
    BY <1>2, <2>1, <2>2, <2>3
  <2>5. \A s \in Sess : UNCHANGED <<data[s], meta[s], lastUse[s]>>
    BY <2>1, <2>2, Keys DEF Key, ExpTyped
  <2> QED BY <2>1, <2>4, <2>5, LoginsKept
<1>6. CASE Alarm
  <2>1. PICK D \in SUBSET index : Sweeps(D) /\ Swept(D, Gone(D), Gone(D)) /\ UNCHANGED <<clock, lastUse, crashed>>
    BY <1>6 DEF Alarm
  <2>2. /\ LoginsInv' /\ data' \in [Key -> LoginRow] /\ DOMAIN meta' = Key /\ \A k \in Key : meta'[k].at \in Nat
        /\ LoginsLast
    BY <2>1, SweptLogins DEF LoginsLast
  <2>3. IndexInv' /\ RoundsInv' /\ alarm' \in Int /\ cursor'.at \in Int
    BY <1>6, AlarmStep
  <2> QED BY <2>1, <2>2, <2>3 DEF ExpTyped
<1>7. CASE AlarmDies
  <2>1. PICK D \in SUBSET index, E \in SUBSET index :
          /\ Sweeps(D) /\ E \subseteq D
          /\ \E dead \in {Gone(D), Gone(E)}, bare \in {Gone(D), Gone(E)} : Swept(E, dead, bare)
    BY <1>7 DEF AlarmDies
  <2>2. UNCHANGED <<clock, lastUse>> /\ crashed' \in Nat
    BY <1>1, <1>7 DEF AlarmDies
  <2>3. /\ LoginsInv' /\ data' \in [Key -> LoginRow] /\ DOMAIN meta' = Key /\ \A k \in Key : meta'[k].at \in Nat
        /\ LoginsLast
    BY <2>1, <2>2, SweptLogins DEF LoginsLast
  <2>4. IndexInv' /\ RoundsInv' /\ alarm' \in Int /\ cursor'.at \in Int
    BY <1>7, DeathStep
  <2> QED BY <2>2, <2>3, <2>4 DEF ExpTyped
<1>8. CASE Evicted \/ UNCHANGED vars
  <2>1. UNCHANGED <<clock, data, meta, index, alarm, cursor, crashed, lastUse>> /\ (scheduled' => scheduled)
    BY <1>8 DEF Evicted, vars
  <2>2. Replaces({})
    BY <2>1, UnwrittenStep
  <2>3. ExpTyped' /\ IndexInv' /\ RoundsInv'
    BY <1>2, <2>1, <2>2 DEF ExpTyped
  <2> QED BY <2>1, <2>3, LoginsKept
<1>9. CASE Tick
  <2>1. UNCHANGED <<data, meta, index, alarm, cursor, scheduled, crashed, lastUse>> /\ clock' = clock + 1 /\ clock < MaxNow
    BY <1>9 DEF Tick
  <2>2. IndexInv' /\ RoundsInv'
    BY <1>9, TickStep
  <2>3. ExpTyped'
    BY <1>1, <2>1 DEF ExpTyped
  <2> QED BY <2>1, <2>2, <2>3, LoginsKept
<1> QED BY <1>3, <1>4, <1>5, <1>6, <1>7, <1>8, <1>9 DEF Next

LEMMA ExpInit == Init => ExpInv
<1> SUFFICES ASSUME Init PROVE ExpInv
  OBVIOUS
<1>1. MaxNow \in Nat /\ Never \in Nat
  BY Quantities, NeverIsFar
<1>2. ExpTyped
  BY <1>1, OldIs, FirstKey DEF Init, ExpTyped
<1>3. \A s \in Sess : data[s] = Absent /\ lastUse[s] = 0 /\ clock = 0
  BY DEF Init, Key
<1>4. LoginsInv
  BY <1>3 DEF LoginsInv, LoginAt
<1>5. IndexInv
  BY DEF Init, IndexInv
<1>6. Left = {} /\ crashed = 0 /\ index = {}
  BY DEF Init, Left
<1>7. RoundsInv
  BY <1>6, FS_EmptySet DEF RoundsInv
<1> QED BY <1>2, <1>4, <1>5, <1>7 DEF ExpInv

\* What is not due yet has taken no round.
LEMMA NotYet ==
  ASSUME NEW b \in Nat, NEW d \in Int, d < 0
  PROVE  b * d <= 0
OBVIOUS

LEMMA ExpSafe == ExpInv => NothingIsForgotten /\ RowsEnd
<1> SUFFICES ASSUME ExpInv PROVE NothingIsForgotten /\ RowsEnd
  OBVIOUS
<1> USE DEF ExpInv
<1>1. NothingIsForgotten
  BY DEF NothingIsForgotten, IndexInv
<1>2. ASSUME NEW k \in Key, meta[k] # NoMeta
      PROVE  Batch * (clock - meta[k].at) < Cardinality(Key) + crashed
  <2> DEFINE f == meta[k]
  <2>1. f \in index /\ f.at \in Nat /\ clock \in Nat
    BY <1>2, Quantities DEF IndexInv, ExpTyped
  <2> HIDE DEF f
  <2>2. IsFiniteSet(UpTo(f)) /\ Cardinality(UpTo(f)) \in Nat /\ Cardinality(Key) \in Nat /\ crashed \in Nat
        /\ Batch \in Nat \ {0} /\ Cardinality(Key) >= 1
    BY UpToIs, Keys, Quantities, FS_EmptySet
  <2>3. CASE f.at > clock
    <3>1. Batch * (clock - f.at) <= 0 /\ Batch * (clock - f.at) \in Int
      BY <2>1, <2>2, <2>3, NotYet
    <3> QED BY <2>2, <3>1 DEF f
  <2>4. CASE f.at <= clock
    <3>1. f \in UpTo(f)
      BY <2>1 DEF UpTo
    <3>2. Cardinality(UpTo(f)) >= 1
      BY <2>2, <3>1, FS_EmptySet
    <3>3. Cardinality(UpTo(f)) + Batch * Rounds(f) <= Cardinality(Key) + crashed
      BY <2>1, <2>4 DEF RoundsInv
    <3> DEFINE m == clock - f.at
    <3>4. m \in Nat /\ Rounds(f) \in {m, m + 1}
      BY <2>1, <2>4 DEF Rounds
    <3> HIDE DEF m
    <3>5. Batch * (m + 1) = Batch * m + Batch /\ Batch * m \in Int
      BY <2>2, <3>4, AnotherRound
    <3>6. Batch * m <= Batch * Rounds(f) /\ Batch * Rounds(f) \in Int
      BY <2>2, <3>4, <3>5
    <3>7. 1 + Batch * m <= Cardinality(Key) + crashed
      BY <2>2, <3>2, <3>3, <3>5, <3>6
    <3>8. clock - f.at = m
      BY <2>1, <2>4 DEF m
    <3>9. Batch * m < Cardinality(Key) + crashed
      BY <2>2, <3>5, <3>7
    <3> QED BY <3>8, <3>9 DEF f
  <2> QED BY <2>1, <2>3, <2>4
<1> QED BY <1>1, <1>2 DEF RowsEnd

\* Every row with a deadline is in the index and the alarm comes for it; it
\* comes within the rounds that the rows and the deaths before it can take
\* (putExpiring, ensureFleetLifecycle, sweepExpiryIndex, alarm).
THEOREM ExpiryHolds == Spec => [](NothingIsForgotten /\ RowsEnd)
<1>1. ExpInv /\ [Next]_vars => ExpInv'
  BY ExpStep
<1> QED BY <1>1, ExpInit, ExpSafe, PTL DEF Spec

\* A session is taken from its user by a logout, by its age, or for want of
\* use alone (resolve, putExpiring, sweepExpiryIndex).
THEOREM LoginsLastHolds == Spec => SessionLasts
<1>1. ExpInv /\ [Next]_vars => ExpInv'
  BY ExpStep
<1>2. ExpInv /\ [Next]_vars =>
        [\A s \in Sess : data[s] # Absent /\ data'[s] = Absent =>
          \/ Logout(s)
          \/ data[s] # Old /\ clock >= data[s].born + MaxAge
          \/ clock - lastUse[s] > Idle - Touch]_vars
  BY ExpStep DEF LoginsLast
<1> QED BY <1>1, <1>2, ExpInit, PTL DEF Spec, SessionLasts

LEMMA ExpMC == MCSpec => Spec
<1>1. MCInit => Init
  BY DEF MCInit
<1>2. [MCNext]_allVars => [Next]_vars
  BY DEF MCNext, OnlyExpiry, OnlyMcp, OnlyApp, OnlyRows, OnlyRuns, allVars, expiryVars, vars
<1> QED BY <1>1, <1>2, PTL DEF MCSpec, Spec

\* The same for the runs' specification.
THEOREM ExpiryIsSoundHolds == MCSpec => []ExpiryIsSound
  BY ExpMC, ExpiryHolds, PTL DEF ExpiryIsSound

\* A login, or an MCP session, that is in use lasts, and one that is over does
\* not come back.
THEOREM SessionsLastHolds == MCSpec => SessionsLast
  BY ExpMC, McpMC, LoginsLastHolds, McpStepsHold DEF SessionsLast
=============================================================================

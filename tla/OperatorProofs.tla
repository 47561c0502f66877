--------------------------- MODULE OperatorProofs ---------------------------
(* Proofs about Operator: an operation has its effect once, whichever way   *)
(* its frame takes, and the session file names a command before its frame   *)
(* leaves the tool, for any operations and calls, links, losses and ends of *)
(* the tool's process.                                                      *)
EXTENDS Operator, TLAPS

(***************************************************************************)
(* The inductive invariant.                                                *)
(***************************************************************************)

Places  == {"idle", "naming", "routing", "linking", "linked", "relay", "awaiting", "replying",
            "asking", "fallback"}
\* The frame of a call in one of these places has not left the tool.
Unsent  == {"routing", "linking", "linked", "relay"}
Handle  == [corr : Op \cup {None}, req : Op \cup {None}]
Frame   == [kind : {"do", "ask"}, op : Op]
Do(o)   == [kind |-> "do", op |-> o]
Named(o) == [corr |-> o, req |-> o]

Types ==
    /\ kind \in [Op -> Kinds]
    /\ mem \in Handle /\ disk \in Handle
    /\ call \in [Call -> [at : Places, op : Op \cup {None}]]
    /\ \A c \in Call : call[c].at # "idle" => call[c].op \in Op
    /\ begun \in [Op -> Nat] /\ acts \in [Op -> Nat]
    /\ out \in SUBSET Frame /\ post \in SUBSET Frame

\* Where an operation that is not recoverable is: with a call that has not sent
\* it, on the channel, at the hub, or it was done; and in one of these at most.
Holder(c, o) == call[c].op = o /\ call[c].at \in Unsent

Once(o) ==
    /\ \A c \in Call : Holder(c, o) => begun[o] > 0 /\ Do(o) \notin out \cup post /\ acts[o] = 0
    /\ \A c, d \in Call : Holder(c, o) /\ Holder(d, o) => c = d
    /\ Do(o) \in out \cup post => begun[o] > 0 /\ acts[o] = 0
    /\ ~(Do(o) \in out /\ Do(o) \in post)
    /\ acts[o] > 0 => begun[o] > 0
    /\ acts[o] <= 1

Effects ==
    /\ \A o \in Op \ Recoverable : Once(o)
    /\ \A o \in Recoverable : acts[o] <= 1
    /\ \A c \in Call : call[c].at = "naming" => call[c].op \in Recoverable

\* No call outlives the process.
Awake == \A c \in Call : call[c].at # "idle" => up

IInv == Types /\ Effects /\ Awake

\* One call at a time: what it has noted is what memory and the file say.
Handled ==
    /\ \A c, d \in Call : call[c].at # "idle" /\ call[d].at # "idle" => c = d
    /\ \A c \in Call : call[c].at = "naming" => mem.req = call[c].op
    /\ \A c \in Call : call[c].at \notin {"idle", "naming"} /\ call[c].op \in Run => last = call[c].op
    /\ \A c \in Call : call[c].at \notin {"idle", "naming"} /\ call[c].op \in Recoverable =>
          mem = Named(call[c].op)
    /\ last \in Recoverable => disk = Named(last)

(***************************************************************************)
(* Types.                                                                  *)
(***************************************************************************)

LEMMA KindStays ==
  ASSUME [Next]_vars
  PROVE  kind' = kind /\ Recoverable' = Recoverable /\ Run' = Run
  <1> USE DEF tool, direct, wire, hub, agent, asked
  <1>1. kind' = kind
    <2>1. ASSUME NEW c \in Call, CallStep(c) \/ Cancel(c) \/ RelayFails(c) PROVE kind' = kind
      BY <2>1 DEF CallStep, SaveHandle, Route, Link, Linked, Relay, Reply, Answered, FallBack, GiveUp,
                  Cancel, RelayFails
    <2>2. ASSUME NEW c \in Call, NEW o \in Op, BeginRun(c, o) \/ BeginOther(c, o) PROVE kind' = kind
      BY <2>2 DEF BeginRun, BeginOther
    <2>3. ASSUME NEW o \in Op, Carries(o) \/ Finish(o) \/ Peek(o) \/ PeekPlugin(o) PROVE kind' = kind
      BY <2>3 DEF Carries, Receive, DeviceDirect, DevicePosted, Finish, Peek, PeekPlugin
    <2>4. ASSUME \/ Open \/ Unlock \/ Crash \/ Close
                 \/ LinkEnds \/ Notice \/ BackoffEnds \/ Break \/ HubLoses \/ UNCHANGED vars
          PROVE  kind' = kind
      BY <2>4 DEF Open, Unlock, Crash, Close, Stop, LinkEnds, LinkUp, LinkFails, Notice, BackoffEnds,
                  Break, HubLoses, vars
    <2> QED BY <2>1, <2>2, <2>3, <2>4 DEF Next
  <1> QED BY <1>1 DEF Recoverable, Run, Plain

\* A call moves on: only its place changes.
LEMMA MoveTypes ==
  ASSUME Types, UNCHANGED <<kind, begun, acts>>, NEW c \in Call, NEW s \in Places, Goes(c, s),
         call[c].at # "idle", mem' \in Handle, disk' \in Handle,
         out' \in SUBSET Frame, post' \in SUBSET Frame
  PROVE  Types'
  BY DEF Types, Goes

LEMMA RestTypes ==
  ASSUME Types, UNCHANGED <<kind, begun, acts, mem, disk, out, post>>, NEW c \in Call, Rests(c)
  PROVE  Types'
  <1>1. [at |-> "idle", op |-> None] \in [at : Places, op : Op \cup {None}]
    BY DEF Places
  <1>2. call' \in [Call -> [at : Places, op : Op \cup {None}]]
    BY <1>1 DEF Types, Rests
  <1>3. \A d \in Call : call'[d].at # "idle" => call'[d].op \in Op
    BY DEF Types, Rests
  <1> QED BY <1>2, <1>3 DEF Types

\* What a reply notes.
LEMMA RemembersTypes ==
  ASSUME Types, NEW o \in Op, Remembers(o)
  PROVE  mem' \in Handle /\ disk' \in Handle
  <1>1. [mem EXCEPT !.corr = o] \in Handle
    BY DEF Types, Handle
  <1> QED BY <1>1 DEF Remembers, Saves, Types

\* The two ways on of a call that has a session, or not.
LEMMA SendCases ==
  ASSUME Types, NEW c \in Call, call[c].at # "idle", SendDirect(c)
  PROVE  \/ /\ Remembers(call[c].op) /\ out' \in {out, out \cup {Do(call[c].op)}}
            /\ (call[c].op \in Input /\ Goes(c, "awaiting")) \/ Rests(c)
         \/ Goes(c, "relay") /\ UNCHANGED <<mem, disk, out>>
  BY DEF SendDirect, Do

LEMMA SendTypes ==
  ASSUME Types, UNCHANGED <<kind, begun, acts, post>>, NEW c \in Call, call[c].at # "idle",
         SendDirect(c)
  PROVE  Types'
  <1>0. call[c].op \in Op
    BY DEF Types
  <1>1. CASE Goes(c, "relay") /\ UNCHANGED <<mem, disk, out>>
    BY <1>1, MoveTypes DEF Types, Places
  <1>2. CASE /\ Remembers(call[c].op) /\ out' \in {out, out \cup {Do(call[c].op)}}
             /\ Goes(c, "awaiting") \/ Rests(c)
    <2>1. out' \in SUBSET Frame
      BY <1>0, <1>2 DEF Types, Frame, Do
    <2>2. mem' \in Handle /\ disk' \in Handle
      BY <1>0, <1>2, RemembersTypes
    <2>3. CASE Goes(c, "awaiting")
      <3>1. post' \in SUBSET Frame
        BY DEF Types
      <3> QED BY <2>1, <2>2, <2>3, <3>1, MoveTypes DEF Places
    <2>4. CASE Rests(c)
      <3>1. [at |-> "idle", op |-> None] \in [at : Places, op : Op \cup {None}]
        BY DEF Places
      <3>2. call' \in [Call -> [at : Places, op : Op \cup {None}]]
        BY <2>4, <3>1 DEF Types, Rests
      <3>3. \A d \in Call : call'[d].at # "idle" => call'[d].op \in Op
        BY <2>4 DEF Types, Rests
      <3> QED BY <2>1, <2>2, <3>2, <3>3 DEF Types
    <2> QED BY <1>2, <2>3, <2>4
  <1> QED BY <1>1, <1>2, SendCases

LEMMA TypesStep ==
  ASSUME Types, [Next]_vars
  PROVE  Types'
  <1> USE DEF tool, direct, wire, hub, agent, asked
  <1>0. /\ mem \in Handle /\ disk \in Handle /\ Nothing \in Handle
        /\ out \in SUBSET Frame /\ post \in SUBSET Frame
    BY DEF Types, Handle, Nothing
  <1>1. ASSUME NEW c \in Call, CallStep(c) \/ Cancel(c) \/ RelayFails(c) PROVE Types'
    <2>1. CASE SaveHandle(c)
      <3>1. call[c].op \in Op /\ call[c].at # "idle"
        BY <2>1 DEF SaveHandle, At, Types
      <3>2. [mem EXCEPT !.corr = call[c].op] \in Handle
        BY <1>0, <3>1 DEF Handle
      <3>3. mem' \in Handle /\ disk' \in Handle
        BY <2>1, <3>2 DEF SaveHandle, Saves
      <3> QED BY <1>0, <2>1, <3>1, <3>3, MoveTypes DEF SaveHandle, Places
    <2>2. CASE Route(c) \/ Linked(c)
      <3>0. call[c].at # "idle" /\ UNCHANGED <<kind, begun, acts, post>>
        BY <2>2 DEF Route, Linked, At
      <3>1. CASE SendDirect(c)
        BY <3>0, <3>1, SendTypes
      <3>2. CASE Goes(c, "relay") /\ UNCHANGED <<mem, disk, out>>
        BY <1>0, <3>0, <3>2, MoveTypes DEF Places
      <3> QED BY <2>2, <3>1, <3>2 DEF Route, Linked
    <2>3. CASE Link(c) \/ FallBack(c)
      <3>1. /\ call[c].at # "idle" /\ UNCHANGED <<kind, begun, acts, mem, disk, out, post>>
            /\ Goes(c, "linking") \/ Goes(c, "fallback")
        BY <2>3 DEF Link, FallBack, At
      <3> QED BY <1>0, <3>1, MoveTypes DEF Places
    <2>4. CASE Relay(c)
      <3>1. /\ call[c].at # "idle" /\ UNCHANGED <<kind, begun, acts, mem, disk, out>>
            /\ Goes(c, "asking") \/ Goes(c, "replying")
            /\ post' = post \cup {[kind |-> "do", op |-> call[c].op]}
        BY <2>4 DEF Relay, At
      <3>2. post' \in SUBSET Frame
        BY <1>0, <3>1 DEF Types, Frame
      <3> QED BY <1>0, <3>1, <3>2, MoveTypes DEF Places
    <2>5. CASE Reply(c)
      <3>1. /\ UNCHANGED <<kind, begun, acts, out, post>> /\ Rests(c)
            /\ call[c].at # "idle" /\ Remembers(call[c].op)
        BY <2>5 DEF Reply, At
      <3>2. mem' \in Handle /\ disk' \in Handle
        BY <3>1, RemembersTypes DEF Types
      <3>3. [at |-> "idle", op |-> None] \in [at : Places, op : Op \cup {None}]
        BY DEF Places
      <3>4. call' \in [Call -> [at : Places, op : Op \cup {None}]]
        BY <3>1, <3>3 DEF Types, Rests
      <3>5. \A d \in Call : call'[d].at # "idle" => call'[d].op \in Op
        BY <3>1 DEF Types, Rests
      <3> QED BY <3>1, <3>2, <3>4, <3>5 DEF Types
    <2>6. CASE Answered(c) \/ GiveUp(c) \/ Cancel(c) \/ RelayFails(c)
      <3>1. UNCHANGED <<kind, begun, acts, mem, disk, out, post>> /\ Rests(c)
        BY <2>6 DEF Answered, GiveUp, Cancel, RelayFails
      <3> QED BY <3>1, RestTypes
    <2> QED BY <1>1, <2>1, <2>2, <2>3, <2>4, <2>5, <2>6 DEF CallStep
  <1>2. ASSUME NEW c \in Call, NEW o \in Op, BeginRun(c, o) \/ BeginOther(c, o) PROVE Types'
    <2>1. mem' \in Handle
      <3>1. [mem EXCEPT !.req = o] \in Handle /\ [mem EXCEPT !.req = None] \in Handle
        BY <1>0 DEF Handle
      <3> QED BY <1>0, <1>2, <3>1 DEF BeginRun, BeginOther
    <2>2. \E s \in {"naming", "routing"} : call' = [call EXCEPT ![c] = [at |-> s, op |-> o]]
      BY <1>2 DEF BeginRun, BeginOther
    <2>3. \A s \in {"naming", "routing"} :
             [at |-> s, op |-> o] \in [at : Places, op : Op \cup {None}] /\ s # "idle"
      BY DEF Places
    <2>4. call' \in [Call -> [at : Places, op : Op \cup {None}]]
      BY <2>2, <2>3 DEF Types
    <2>5. \A d \in Call : call'[d].at # "idle" => call'[d].op \in Op
      BY <2>2, <2>3 DEF Types
    <2>6. begun' \in [Op -> Nat]
      BY <1>2 DEF BeginRun, BeginOther, Types
    <2>7. UNCHANGED <<kind, disk, acts, out, post>>
      BY <1>2 DEF BeginRun, BeginOther
    <2> QED BY <2>1, <2>4, <2>5, <2>6, <2>7 DEF Types
  <1>3. ASSUME NEW o \in Op, Carries(o) PROVE Types'
    <2>1. CASE Receive(o)
      BY <2>1 DEF Receive, Types
    <2>2. ASSUME NEW m \in [kind : {"do", "ask"}, op : {o}], DeviceDirect(m) \/ DevicePosted(m)
          PROVE  Types'
      <3>1. acts' \in [Op -> Nat]
        BY <2>2 DEF DeviceDirect, DevicePosted, Handles, Types
      <3>2. UNCHANGED <<kind, mem, disk, call, begun>> /\ out' \subseteq out /\ post' \subseteq post
        BY <2>2 DEF DeviceDirect, DevicePosted
      <3> QED BY <1>0, <3>1, <3>2 DEF Types
    <2> QED BY <1>3, <2>1, <2>2 DEF Carries
  <1>4. ASSUME NEW o \in Op, Finish(o) \/ PeekPlugin(o) PROVE Types'
    BY <1>4 DEF Finish, PeekPlugin, Types
  <1>5. ASSUME NEW o \in Op, Peek(o) PROVE Types'
    <2>1. UNCHANGED <<kind, mem, disk, call, begun, acts>>
      BY <1>5 DEF Peek
    <2>2. [kind |-> "ask", op |-> o] \in Frame
      BY DEF Frame
    <2>3. out' \in SUBSET Frame /\ post' \in SUBSET Frame
      BY <1>0, <1>5, <2>2 DEF Peek
    <2> QED BY <2>1, <2>3 DEF Types
  <1>6. CASE Crash \/ Close
    <2>1. /\ mem' = Nothing /\ call' = [c \in Call |-> [at |-> "idle", op |-> None]]
          /\ UNCHANGED <<kind, disk, begun, acts, out, post>>
      BY <1>6 DEF Crash, Close, Stop
    <2>2. [at |-> "idle", op |-> None] \in [at : Places, op : Op \cup {None}]
      BY DEF Places
    <2>3. call' \in [Call -> [at : Places, op : Op \cup {None}]]
          /\ \A c \in Call : call'[c].at = "idle"
      BY <2>1, <2>2
    <2> QED BY <1>0, <2>1, <2>3 DEF Types
  <1>7. CASE LinkEnds
    <2>1. /\ UNCHANGED <<kind, mem, disk, begun, acts, post>> /\ out' \in {out, {}}
          /\ call' \in {Joined, Missed}
      BY <1>7 DEF LinkEnds, LinkUp, LinkFails
    <2>2. \A c \in Call, s \in Places : [call[c] EXCEPT !.at = s] \in [at : Places, op : Op \cup {None}]
      BY DEF Types
    <2>3. call' \in [Call -> [at : Places, op : Op \cup {None}]]
      <3>1. {"linked", "relay"} \subseteq Places
        BY DEF Places
      <3>2. \A c \in Call : call[c] \in [at : Places, op : Op \cup {None}]
        BY DEF Types
      <3>3. Joined \in [Call -> [at : Places, op : Op \cup {None}]]
        BY <2>2, <3>1, <3>2 DEF Joined
      <3>4. Missed \in [Call -> [at : Places, op : Op \cup {None}]]
        BY <2>2, <3>1, <3>2 DEF Missed
      <3> QED BY <2>1, <3>3, <3>4
    <2>4. \A c \in Call : call'[c].op = call[c].op /\ (call'[c].at # "idle" => call[c].at # "idle")
      BY <2>1 DEF Joined, Missed, Types, At
    <2> QED BY <1>0, <2>1, <2>3, <2>4 DEF Types
  <1>8. CASE \/ Open \/ Unlock \/ Notice \/ BackoffEnds \/ Break \/ HubLoses \/ UNCHANGED vars
    <2>1. /\ UNCHANGED <<kind, disk, call, begun, acts, post>> /\ mem' \in {mem, disk}
          /\ out' \in {out, {}}
      BY <1>8 DEF Open, Unlock, Notice, BackoffEnds, Break, HubLoses, vars
    <2> QED BY <1>0, <2>1 DEF Types
  <1> QED BY <1>1, <1>2, <1>3, <1>4, <1>5, <1>6, <1>7, <1>8 DEF Next

(***************************************************************************)
(* One effect of every operation.                                          *)
(***************************************************************************)

\* Nothing is sent and nothing is done; no call takes up an operation.
LEMMA EffectsStay ==
  ASSUME Effects, Recoverable' = Recoverable, UNCHANGED <<begun, acts>>,
         \A c \in Call, o \in Op \ Recoverable : Holder(c, o)' => Holder(c, o),
         \A c \in Call : call'[c].at = "naming" => call[c].at = "naming" /\ call'[c].op = call[c].op,
         \A o \in Op : (Do(o) \in out' => Do(o) \in out) /\ (Do(o) \in post' => Do(o) \in post)
  PROVE  Effects'
  <1>1. ASSUME NEW o \in Op \ Recoverable PROVE Once(o)'
    <2>1. Once(o)
      BY DEF Effects
    <2> QED BY <2>1 DEF Once, Do
  <1> QED BY <1>1 DEF Effects

\* The same of one call that goes to another place.
LEMMA MoveEffects ==
  ASSUME Types, Effects, Recoverable' = Recoverable, UNCHANGED <<begun, acts, out, post>>,
         NEW c \in Call, NEW s \in Places \ {"naming"}, Goes(c, s),
         s \in Unsent => call[c].at \in Unsent \/ call[c].op \in Recoverable
  PROVE  Effects'
  <1>1. call'[c].at = s /\ call'[c].op = call[c].op /\ \A d \in Call \ {c} : call'[d] = call[d]
    BY DEF Goes, Types
  <1> QED BY <1>1, EffectsStay DEF Holder

LEMMA RestEffects ==
  ASSUME Types, Effects, Recoverable' = Recoverable, UNCHANGED <<begun, acts, out, post>>,
         NEW c \in Call, Rests(c)
  PROVE  Effects'
  <1>1. call'[c].at = "idle" /\ \A d \in Call \ {c} : call'[d] = call[d]
    BY DEF Rests, Types
  <1> QED BY <1>1, EffectsStay DEF Holder, Unsent

\* The frame of an unsent call leaves the tool, on the channel or to the hub, or
\* is lost at once.
LEMMA SentEffects ==
  ASSUME Types, Effects, Recoverable' = Recoverable, UNCHANGED <<begun, acts>>,
         NEW c \in Call, call[c].at \in Unsent,
         call'[c].at \notin Unsent \cup {"naming"}, \A d \in Call \ {c} : call'[d] = call[d],
         \/ out' \in {out, out \cup {Do(call[c].op)}} /\ UNCHANGED post
         \/ post' = post \cup {Do(call[c].op)} /\ UNCHANGED out
  PROVE  Effects'
  <1>1. ASSUME NEW o \in Op \ Recoverable, o # call[c].op PROVE Once(o)'
    <2>1. Once(o)
      BY DEF Effects
    <2>2. Do(o) # Do(call[c].op)
      BY <1>1 DEF Do
    <2>3. /\ Do(o) \in out' => Do(o) \in out
          /\ Do(o) \in post' => Do(o) \in post
      BY <2>2
    <2>4. \A d \in Call : Holder(d, o)' => Holder(d, o)
      BY DEF Holder
    <2> QED BY <2>1, <2>3, <2>4 DEF Once, Do
  <1>2. ASSUME NEW o \in Op \ Recoverable, o = call[c].op PROVE Once(o)'
    <2>1. Once(o) /\ Holder(c, o)
      BY <1>2 DEF Effects, Holder
    <2>2. begun[o] > 0 /\ Do(o) \notin out \cup post /\ acts[o] = 0
      BY <2>1 DEF Once
    <2>3. \A d \in Call : ~Holder(d, o)'
      <3>1. \A d \in Call \ {c} : ~Holder(d, o)
        BY <2>1 DEF Once
      <3> QED BY <3>1 DEF Holder
    <2>4. ~(Do(o) \in out' /\ Do(o) \in post')
      BY <1>2, <2>2
    <2>5. begun' = begun /\ acts' = acts
      OBVIOUS
    <2> QED BY <2>2, <2>3, <2>4, <2>5 DEF Once, Do
  <1>3. \A d \in Call : call'[d].at = "naming" => call'[d].op \in Recoverable
    BY DEF Effects
  <1>4. \A o \in Recoverable : acts'[o] <= 1
    BY DEF Effects
  <1> QED BY <1>1, <1>2, <1>3, <1>4 DEF Effects

\* A frame is taken off its way and handled.
LEMMA HandledEffects ==
  ASSUME Types, Effects, Recoverable' = Recoverable, UNCHANGED <<begun, call>>,
         NEW m \in Frame, Handles(m),
         \/ m \in out /\ out' = out \ {m} /\ UNCHANGED post
         \/ m \in post /\ post' = post \ {m} /\ UNCHANGED out
  PROVE  Effects'
  <1>1. CASE UNCHANGED acts
    BY <1>1, EffectsStay DEF Holder
  <1>2. CASE Acts(m)
    <2>1. m.op \in Op /\ m.kind = "do" /\ m = Do(m.op)
      BY <1>2 DEF Acts, Frame, Do
    <2>2. acts'[m.op] = acts[m.op] + 1 /\ \A o \in Op \ {m.op} : acts'[o] = acts[o]
      BY <1>2, <2>1 DEF Handles, Types
    <2>3. ASSUME NEW o \in Op \ Recoverable, o # m.op PROVE Once(o)'
      <3>1. Once(o)
        BY DEF Effects
      <3>2. Do(o) # m
        BY <2>1, <2>3 DEF Do
      <3>3. \A c \in Call : Holder(c, o)' <=> Holder(c, o)
        BY DEF Holder
      <3>4. acts'[o] = acts[o] /\ begun'[o] = begun[o]
        BY <2>2, <2>3
      <3>5. /\ Do(o) \in out' => Do(o) \in out
            /\ Do(o) \in post' => Do(o) \in post
        BY <3>2
      <3> QED BY <3>1, <3>3, <3>4, <3>5 DEF Once, Do
    <2>4. ASSUME NEW o \in Op \ Recoverable, o = m.op PROVE Once(o)'
      <3>1. Once(o) /\ Do(o) \in out \cup post
        BY <2>1, <2>4 DEF Effects
      <3>2. begun[o] > 0 /\ acts[o] = 0 /\ Do(o) \notin out' \cup post'
        BY <2>1, <2>4, <3>1 DEF Once
      <3>3. acts'[o] = 1 /\ begun'[o] > 0
        BY <2>2, <2>4, <3>2
      <3>4. \A c \in Call : ~Holder(c, o)'
        <4>1. \A c \in Call : ~Holder(c, o)
          BY <3>1 DEF Once
        <4> QED BY <4>1 DEF Holder
      <3> QED BY <3>2, <3>3, <3>4 DEF Once, Do
    <2>5. \A o \in Recoverable : acts'[o] <= 1
      BY <1>2, <2>2 DEF Acts, Effects, Recoverable, Types
    <2> QED BY <2>3, <2>4, <2>5 DEF Effects
  <1> QED BY <1>1, <1>2 DEF Handles

LEMMA EffectsStep ==
  ASSUME Types, Effects, [Next]_vars
  PROVE  Effects'
  <1> USE DEF tool, direct, wire, hub, agent, asked
  <1>0. Recoverable' = Recoverable
    BY KindStays
  <1>1. ASSUME NEW c \in Call, CallStep(c) \/ Cancel(c) \/ RelayFails(c) PROVE Effects'
    <2>1. CASE SaveHandle(c)
      <3>1. /\ call[c].at = "naming" /\ Goes(c, "routing") /\ UNCHANGED <<begun, acts, out, post>>
        BY <2>1 DEF SaveHandle, At
      <3>2. call[c].op \in Recoverable
        BY <3>1 DEF Effects
      <3>3. "routing" \in Places \ {"naming"}
        BY DEF Places
      <3> QED BY <1>0, <3>1, <3>2, <3>3, MoveEffects
    <2>2. CASE Route(c) \/ Linked(c)
      <3>1. /\ call[c].at \in {"routing", "linked"} /\ UNCHANGED <<begun, acts, post>>
            /\ SendDirect(c) \/ (Goes(c, "relay") /\ UNCHANGED out)
        BY <2>2 DEF Route, Linked, At
      <3>2. CASE Goes(c, "relay") /\ UNCHANGED out
        <4>1. "relay" \in Places \ {"naming"} /\ call[c].at \in Unsent
          BY <3>1 DEF Places, Unsent
        <4> QED BY <1>0, <3>1, <3>2, <4>1, MoveEffects
      <3>3. CASE /\ out' \in {out, out \cup {Do(call[c].op)}}
                 /\ Goes(c, "awaiting") \/ Rests(c)
        <4>1. call'[c].at \in {"awaiting", "idle"} /\ \A d \in Call \ {c} : call'[d] = call[d]
          BY <3>3 DEF Goes, Rests, Types
        <4>2. call[c].at \in Unsent /\ call'[c].at \notin Unsent \cup {"naming"}
          BY <3>1, <4>1 DEF Unsent
        <4> QED BY <1>0, <3>1, <3>3, <4>1, <4>2, SentEffects
      <3>4. call[c].at # "idle"
        BY <3>1
      <3> QED BY <3>1, <3>2, <3>3, <3>4, SendCases
    <2>3. CASE Link(c) \/ FallBack(c)
      <3>1. /\ UNCHANGED <<begun, acts, out, post>>
            /\ \/ Goes(c, "linking") /\ call[c].at = "routing"
               \/ Goes(c, "fallback")
        BY <2>3 DEF Link, FallBack, At
      <3>2. {"linking", "fallback"} \subseteq Places \ {"naming"} /\ "fallback" \notin Unsent
            /\ "routing" \in Unsent
        BY DEF Places, Unsent
      <3> QED BY <1>0, <3>1, <3>2, MoveEffects
    <2>4. CASE Relay(c)
      <3>1. /\ call[c].at = "relay" /\ UNCHANGED <<begun, acts, out>>
            /\ Goes(c, "asking") \/ Goes(c, "replying")
            /\ post' = post \cup {Do(call[c].op)}
        BY <2>4 DEF Relay, At, Do
      <3>2. call'[c].at \in {"asking", "replying"} /\ \A d \in Call \ {c} : call'[d] = call[d]
        BY <3>1 DEF Goes, Types
      <3>3. call[c].at \in Unsent /\ call'[c].at \notin Unsent \cup {"naming"}
        BY <3>1, <3>2 DEF Unsent
      <3> QED BY <1>0, <3>1, <3>2, <3>3, SentEffects
    <2>5. CASE Reply(c) \/ Answered(c) \/ GiveUp(c) \/ Cancel(c) \/ RelayFails(c)
      <3>1. UNCHANGED <<begun, acts, out, post>> /\ Rests(c)
        BY <2>5 DEF Reply, Answered, GiveUp, Cancel, RelayFails
      <3> QED BY <1>0, <3>1, RestEffects
    <2> QED BY <1>1, <2>1, <2>2, <2>3, <2>4, <2>5 DEF CallStep
  <1>2. ASSUME NEW c \in Call, NEW o \in Op, BeginRun(c, o) PROVE Effects'
    <2>1. /\ o \in Recoverable /\ UNCHANGED <<acts, out, post>>
          /\ begun' = [begun EXCEPT ![o] = @ + 1]
          /\ call' = [call EXCEPT ![c] = [at |-> "naming", op |-> o]]
      BY <1>2 DEF BeginRun
    <2>2. call'[c].at = "naming" /\ call'[c].op = o /\ \A d \in Call \ {c} : call'[d] = call[d]
      BY <2>1 DEF Types
    <2>3. ASSUME NEW p \in Op \ Recoverable PROVE Once(p)'
      <3>1. Once(p) /\ begun'[p] = begun[p]
        BY <2>1 DEF Effects, Types
      <3>2. \A d \in Call : Holder(d, p)' => Holder(d, p)
        BY <2>2 DEF Holder, Unsent
      <3> QED BY <2>1, <3>1, <3>2 DEF Once, Do
    <2> QED BY <1>0, <2>1, <2>2, <2>3 DEF Effects
  <1>3. ASSUME NEW c \in Call, NEW o \in Op, BeginOther(c, o) PROVE Effects'
    <2>1. /\ o \notin Recoverable /\ begun[o] = 0 /\ UNCHANGED <<acts, out, post>>
          /\ begun' = [begun EXCEPT ![o] = 1]
          /\ call' = [call EXCEPT ![c] = [at |-> "routing", op |-> o]]
      BY <1>3 DEF BeginOther
    <2>2. call'[c].at = "routing" /\ call'[c].op = o /\ \A d \in Call \ {c} : call'[d] = call[d]
      BY <2>1 DEF Types
    <2>3. ASSUME NEW p \in Op \ Recoverable, p # o PROVE Once(p)'
      <3>1. Once(p) /\ begun'[p] = begun[p]
        BY <2>1, <2>3 DEF Effects, Types
      <3>2. \A d \in Call : Holder(d, p)' => Holder(d, p)
        BY <2>2, <2>3 DEF Holder
      <3> QED BY <2>1, <3>1, <3>2 DEF Once, Do
    <2>4. Once(o)'
      <3>1. Once(o) /\ begun'[o] = 1
        BY <2>1 DEF Effects, Types
      <3>2. /\ \A d \in Call : ~Holder(d, o)
            /\ Do(o) \notin out \cup post /\ acts[o] = 0
        BY <2>1, <3>1 DEF Once, Types
      <3>3. \A d \in Call : Holder(d, o)' => d = c
        BY <2>2, <3>2 DEF Holder
      <3> QED BY <2>1, <3>1, <3>2, <3>3 DEF Once, Do
    <2>5. /\ \A p \in Recoverable : acts'[p] <= 1
          /\ \A d \in Call : call'[d].at = "naming" => call'[d].op \in Recoverable
      BY <2>1, <2>2 DEF Effects
    <2> QED BY <1>0, <2>3, <2>4, <2>5 DEF Effects
  <1>4. ASSUME NEW o \in Op, Carries(o) PROVE Effects'
    <2>1. CASE Receive(o)
      BY <1>0, <2>1, EffectsStay DEF Receive, Holder
    <2>2. ASSUME NEW m \in [kind : {"do", "ask"}, op : {o}], DeviceDirect(m) \/ DevicePosted(m)
          PROVE  Effects'
      <3>1. m \in Frame
        BY DEF Frame
      <3>2. /\ UNCHANGED <<begun, call>> /\ Handles(m)
            /\ \/ m \in out /\ out' = out \ {m} /\ UNCHANGED post
               \/ m \in post /\ post' = post \ {m} /\ UNCHANGED out
        BY <2>2 DEF DeviceDirect, DevicePosted
      <3> QED BY <1>0, <3>1, <3>2, HandledEffects
    <2> QED BY <1>4, <2>1, <2>2 DEF Carries
  <1>5. ASSUME NEW o \in Op, Finish(o) \/ Peek(o) \/ PeekPlugin(o) PROVE Effects'
    <2>1. /\ UNCHANGED <<begun, acts, call>>
          /\ out' \in {out, out \cup {[kind |-> "ask", op |-> o]}}
          /\ post' \in {post, post \cup {[kind |-> "ask", op |-> o]}}
      BY <1>5 DEF Finish, Peek, PeekPlugin
    <2>2. \A p \in Op : (Do(p) \in out' => Do(p) \in out) /\ (Do(p) \in post' => Do(p) \in post)
      BY <2>1 DEF Do
    <2> QED BY <1>0, <2>1, <2>2, EffectsStay DEF Holder
  <1>6. CASE Crash \/ Close
    <2>1. /\ call' = [c \in Call |-> [at |-> "idle", op |-> None]]
          /\ UNCHANGED <<begun, acts, out, post>>
      BY <1>6 DEF Crash, Close, Stop
    <2> QED BY <1>0, <2>1, EffectsStay DEF Holder, Unsent
  <1>7. CASE LinkEnds
    <2>1. /\ UNCHANGED <<begun, acts, post>> /\ out' \in {out, {}} /\ call' \in {Joined, Missed}
      BY <1>7 DEF LinkEnds, LinkUp, LinkFails
    <2>2. \A c \in Call : /\ call'[c].op = call[c].op
                          /\ \/ call'[c].at = call[c].at
                             \/ call[c].at = "linking" /\ call'[c].at \in {"linked", "relay"}
      BY <2>1 DEF Joined, Missed, Types, At
    <2> QED BY <1>0, <2>1, <2>2, EffectsStay DEF Holder, Unsent
  <1>8. CASE \/ Open \/ Unlock \/ Notice \/ BackoffEnds \/ Break \/ HubLoses \/ UNCHANGED vars
    <2>1. UNCHANGED <<begun, acts, post, call>> /\ out' \in {out, {}}
      BY <1>8 DEF Open, Unlock, Notice, BackoffEnds, Break, HubLoses, vars
    <2> QED BY <1>0, <2>1, EffectsStay DEF Holder
  <1> QED BY <1>1, <1>2, <1>3, <1>4, <1>5, <1>6, <1>7, <1>8 DEF Next

(***************************************************************************)
(* The session file, where the client makes one call after the other.      *)
(***************************************************************************)

LEMMA AwakeStep ==
  ASSUME Types, Awake, [Next]_vars
  PROVE  Awake'
  <1> USE DEF tool, direct, wire, hub, agent, asked
  <1>1. ASSUME NEW c \in Call, CallStep(c) \/ Cancel(c) \/ RelayFails(c) PROVE Awake'
    <2>1. call[c].at # "idle" /\ UNCHANGED up
      BY <1>1 DEF CallStep, SaveHandle, Route, Link, Linked, Relay, Reply, Answered, FallBack, GiveUp,
                  Cancel, RelayFails, At
    <2> QED BY <2>1 DEF Awake
  <1>2. ASSUME NEW c \in Call, NEW o \in Op, BeginRun(c, o) \/ BeginOther(c, o) PROVE Awake'
    BY <1>2 DEF BeginRun, BeginOther, MayBegin, Awake
  <1>3. ASSUME NEW o \in Op, Carries(o) \/ Finish(o) \/ Peek(o) \/ PeekPlugin(o) PROVE Awake'
    <2>1. UNCHANGED <<up, call>>
      BY <1>3 DEF Carries, Receive, DeviceDirect, DevicePosted, Finish, Peek, PeekPlugin
    <2> QED BY <2>1 DEF Awake
  <1>4. CASE Crash \/ Close
    <2>1. call' = [c \in Call |-> [at |-> "idle", op |-> None]]
      BY <1>4 DEF Crash, Close, Stop
    <2> QED BY <2>1 DEF Awake
  <1>5. CASE LinkEnds
    <2>1. UNCHANGED up /\ call' \in {Joined, Missed}
      BY <1>5 DEF LinkEnds, LinkUp, LinkFails
    <2>2. \A c \in Call : call'[c].at # "idle" => call[c].at # "idle"
      BY <2>1 DEF Joined, Missed, Types, At
    <2> QED BY <2>1, <2>2 DEF Awake
  <1>6. CASE \/ Open \/ Unlock \/ Notice \/ BackoffEnds \/ Break \/ HubLoses \/ UNCHANGED vars
    <2>1. UNCHANGED call /\ (up => up')
      BY <1>6 DEF Open, Unlock, Notice, BackoffEnds, Break, HubLoses, vars
    <2> QED BY <2>1 DEF Awake
  <1> QED BY <1>1, <1>2, <1>3, <1>4, <1>5, <1>6 DEF Next

LEMMA HandledStep ==
  ASSUME Serial, Types, Effects, Awake, Handled, [Next]_vars
  PROVE  Handled'
  <1> USE DEF tool, direct, wire, hub, agent, asked
  <1>0. Recoverable' = Recoverable /\ Run' = Run /\ Recoverable \subseteq Run
    BY KindStays DEF Run
  \* A call moves on, and what is noted stays.
  <1>a. ASSUME UNCHANGED <<mem, disk, last>>,
               \A c \in Call : /\ call'[c].at # "idle" => call[c].at # "idle" /\ call'[c].op = call[c].op
                               /\ call'[c].at = "naming" <=> call[c].at = "naming"
        PROVE  Handled'
    BY <1>0, <1>a DEF Handled
  \* The only call that is not idle.
  <1>b. ASSUME NEW c \in Call, call[c].at # "idle" PROVE \A d \in Call \ {c} : call[d].at = "idle"
    BY <1>b DEF Handled
  <1>1. ASSUME NEW c \in Call, CallStep(c) \/ Cancel(c) \/ RelayFails(c) PROVE Handled'
    <2>1. CASE SaveHandle(c)
      <3>1. /\ call[c].at = "naming" /\ Goes(c, "routing") /\ last' = call[c].op
            /\ mem' = [mem EXCEPT !.corr = call[c].op] /\ disk' = mem'
        BY <2>1 DEF SaveHandle, At, Saves
      <3>2. mem.req = call[c].op
        BY <3>1 DEF Handled
      <3>3. mem' = Named(call[c].op)
        BY <3>1, <3>2 DEF Types, Handle, Named
      <3>4. call'[c].at = "routing" /\ call'[c].op = call[c].op /\ \A d \in Call \ {c} : call'[d] = call[d]
        BY <3>1 DEF Goes, Types
      <3>5. \A d \in Call \ {c} : call'[d].at = "idle"
        BY <1>b, <3>1, <3>4
      <3> QED BY <1>0, <3>1, <3>3, <3>4, <3>5 DEF Handled, Named
    <2>2. ASSUME call[c].at \notin {"idle", "naming"}, Remembers(call[c].op), UNCHANGED last,
                 call'[c].at # "naming", call'[c].at # "idle" => call'[c].op = call[c].op,
                 \A d \in Call \ {c} : call'[d] = call[d]
          PROVE  Handled'
      <3>1. \A d \in Call \ {c} : call'[d].at = "idle"
        BY <1>b, <2>2
      <3>2. CASE call[c].op \in Recoverable
        <4>1. mem = Named(call[c].op) /\ last = call[c].op
          BY <1>0, <2>2, <3>2 DEF Handled
        <4>2. disk = mem /\ mem' = [mem EXCEPT !.corr = call[c].op] /\ disk' = mem'
          BY <1>0, <2>2, <3>2, <4>1 DEF Handled, Remembers, Saves
        <4>3. mem' = mem
          BY <4>1, <4>2 DEF Named
        <4> QED BY <1>0, <2>2, <3>1, <4>1, <4>2, <4>3 DEF Handled
      <3>3. CASE call[c].op \in Run \ Recoverable
        <4>1. last = call[c].op
          BY <2>2, <3>3 DEF Handled
        <4> QED BY <1>0, <2>2, <3>1, <3>3, <4>1 DEF Handled
      <3>4. CASE call[c].op \notin Run
        <4>1. UNCHANGED <<mem, disk>>
          BY <2>2, <3>4 DEF Remembers
        <4> QED BY <1>0, <2>2, <3>1, <3>4, <4>1 DEF Handled
      <3> QED BY <3>2, <3>3, <3>4
    <2>3. ASSUME NEW s \in Places \ {"idle", "naming"}, Goes(c, s), call[c].at \notin {"idle", "naming"},
                 UNCHANGED <<mem, disk, last>>
          PROVE  Handled'
      BY <1>a, <2>3 DEF Goes, Types
    <2>4. ASSUME Rests(c), call[c].at # "naming", UNCHANGED <<mem, disk, last>>
          PROVE  Handled'
      BY <1>a, <2>4 DEF Rests, Types
    <2>5. CASE Route(c) \/ Linked(c)
      <3>1. /\ call[c].at \notin {"idle", "naming"} /\ UNCHANGED last
            /\ SendDirect(c) \/ (Goes(c, "relay") /\ UNCHANGED <<mem, disk>>)
        BY <2>5 DEF Route, Linked, At
      <3>2. CASE Goes(c, "relay") /\ UNCHANGED <<mem, disk>>
        BY <2>3, <3>1, <3>2 DEF Places
      <3>3. CASE Remembers(call[c].op) /\ (Goes(c, "awaiting") \/ Rests(c))
        <4>1. /\ call'[c].at \in {"awaiting", "idle"} /\ (call'[c].at # "idle" => call'[c].op = call[c].op)
              /\ \A d \in Call \ {c} : call'[d] = call[d]
          BY <3>3 DEF Goes, Rests, Types
        <4> QED BY <2>2, <3>1, <3>3, <4>1
      <3> QED BY <3>1, <3>2, <3>3, SendCases
    <2>6. CASE Link(c) \/ FallBack(c) \/ Relay(c)
      <3>1. /\ call[c].at \notin {"idle", "naming"} /\ UNCHANGED <<mem, disk, last>>
            /\ \E s \in {"linking", "fallback", "asking", "replying"} : Goes(c, s)
        BY <2>6 DEF Link, FallBack, Relay, At
      <3> QED BY <2>3, <3>1 DEF Places
    <2>7. CASE Reply(c)
      <3>1. call[c].at = "replying" /\ Remembers(call[c].op) /\ UNCHANGED last /\ Rests(c)
        BY <2>7 DEF Reply, At
      <3>2. call'[c].at = "idle" /\ \A d \in Call \ {c} : call'[d] = call[d]
        BY <3>1 DEF Rests, Types
      <3> QED BY <2>2, <3>1, <3>2
    <2>8. CASE Answered(c) \/ GiveUp(c) \/ Cancel(c) \/ RelayFails(c)
      <3>1. Rests(c) /\ call[c].at # "naming" /\ UNCHANGED <<mem, disk, last>>
        BY <2>8 DEF Answered, GiveUp, Cancel, RelayFails, At
      <3> QED BY <2>4, <3>1
    <2> QED BY <1>1, <2>1, <2>5, <2>6, <2>7, <2>8 DEF CallStep
  <1>2. ASSUME NEW c \in Call, NEW o \in Op, BeginRun(c, o) PROVE Handled'
    <2>1. /\ \A d \in Call : call[d].at = "idle"
          /\ o \in Recoverable /\ mem' = [mem EXCEPT !.req = o] /\ UNCHANGED <<disk, last>>
          /\ call' = [call EXCEPT ![c] = [at |-> "naming", op |-> o]]
      BY <1>2 DEF BeginRun, MayBegin, At
    <2>2. call'[c].at = "naming" /\ call'[c].op = o /\ \A d \in Call \ {c} : call'[d].at = "idle"
      BY <2>1 DEF Types
    <2>3. mem'.req = o
      BY <2>1 DEF Types, Handle
    <2> QED BY <1>0, <2>1, <2>2, <2>3 DEF Handled
  <1>3. ASSUME NEW c \in Call, NEW o \in Op, BeginOther(c, o) PROVE Handled'
    <2>1. /\ \A d \in Call : call[d].at = "idle"
          /\ o \notin Recoverable /\ UNCHANGED disk /\ last' = IF o \in Plain THEN o ELSE last
          /\ call' = [call EXCEPT ![c] = [at |-> "routing", op |-> o]]
      BY <1>3 DEF BeginOther, MayBegin, At
    <2>2. call'[c].at = "routing" /\ call'[c].op = o /\ \A d \in Call \ {c} : call'[d].at = "idle"
      BY <2>1 DEF Types
    <2>3. o \in Run => last' = o
      BY <2>1 DEF Run
    <2>4. last' \in Recoverable => last' = last
      BY <2>1
    <2> QED BY <1>0, <2>1, <2>2, <2>3, <2>4 DEF Handled
  <1>4. ASSUME NEW o \in Op, Carries(o) \/ Finish(o) \/ Peek(o) \/ PeekPlugin(o) PROVE Handled'
    <2>1. UNCHANGED <<mem, disk, last, call>>
      BY <1>4 DEF Carries, Receive, DeviceDirect, DevicePosted, Finish, Peek, PeekPlugin
    <2> QED BY <1>a, <2>1
  <1>5. CASE Crash \/ Close
    <2>1. /\ call' = [c \in Call |-> [at |-> "idle", op |-> None]] /\ UNCHANGED <<disk, last>>
      BY <1>5 DEF Crash, Close, Stop
    <2> QED BY <1>0, <2>1 DEF Handled
  <1>6. CASE LinkEnds
    <2>1. UNCHANGED <<mem, disk, last>> /\ call' \in {Joined, Missed}
      BY <1>6 DEF LinkEnds, LinkUp, LinkFails
    <2>2. \A c \in Call : /\ call'[c].op = call[c].op
                          /\ \/ call'[c].at = call[c].at
                             \/ call[c].at = "linking" /\ call'[c].at \in {"linked", "relay"}
      BY <2>1 DEF Joined, Missed, Types, At
    <2> QED BY <1>a, <2>1, <2>2
  <1>7. CASE Unlock \/ Notice \/ BackoffEnds \/ Break \/ HubLoses \/ UNCHANGED vars
    <2>1. UNCHANGED <<mem, disk, last, call>>
      BY <1>7 DEF Unlock, Notice, BackoffEnds, Break, HubLoses, vars
    <2> QED BY <1>a, <2>1
  <1>8. CASE Open
    <2>1. ~up /\ UNCHANGED <<disk, last, call>>
      BY <1>8 DEF Open
    <2> QED BY <1>0, <2>1 DEF Awake, Handled
  <1> QED BY <1>1, <1>2, <1>3, <1>4, <1>5, <1>6, <1>7, <1>8 DEF Next

(***************************************************************************)
(* The theorems.                                                           *)
(***************************************************************************)

LEMMA InitInv ==
  ASSUME Init
  PROVE  IInv /\ Handled
  <1>1. \A c \in Call : call[c].at = "idle"
    BY DEF Init
  <1>2. Types
    <2>1. [at |-> "idle", op |-> None] \in [at : Places, op : Op \cup {None}]
      BY DEF Places
    <2>2. Nothing \in Handle
      BY DEF Nothing, Handle
    <2> QED BY <2>1, <2>2 DEF Init, Types
  <1>3. Effects
    BY <1>1 DEF Init, Effects, Once, Holder, Unsent, Recoverable
  <1>4. Awake /\ Handled
    <2>1. disk = Nothing /\ last = None
      BY DEF Init
    <2> QED BY <1>1, <2>1 DEF Awake, Handled, Nothing, Named
  <1> QED BY <1>2, <1>3, <1>4 DEF IInv

\* The inductive invariant: an operation that is not recoverable is with one
\* call that has not sent it, in one frame, or was done.
THEOREM OperatorInvHolds == Spec => []IInv
  <1>1. Init => IInv
    BY InitInv
  <1>2. IInv /\ [Next]_vars => IInv'
    BY TypesStep, EffectsStep, AwakeStep DEF IInv
  <1> QED BY <1>1, <1>2, PTL DEF Spec

\* tryRpc, execOnDevice: no operation has its effect twice, however many calls
\* overlap, whatever the client repeats by its request id, whichever way the
\* frames take and whatever is lost.
THEOREM EffectOnceHolds == Spec => []EffectOnce
  <1>1. IInv => EffectOnce
    BY DEF IInv, Effects, Once, EffectOnce
  <1> QED BY <1>1, OperatorInvHolds, PTL

\* execOnDevice, openRecovery.save: where the client makes one call after the
\* other, the session file names the command that was dispatched last and its
\* proof, across crashes, cancelled calls and retries; and nothing is done twice.
THEOREM EffectsAreKeptHolds ==
  ASSUME Serial
  PROVE  Spec => []EffectsAreKept
  <1>1. Init => Handled
    BY InitInv
  <1>2. IInv /\ Handled /\ [Next]_vars => Handled'
    BY HandledStep DEF IInv
  <1>3. Handled => HandleIsSaved
    BY DEF Handled, HandleIsSaved, Named
  <1>4. Spec => []Handled
    BY <1>1, <1>2, OperatorInvHolds, PTL DEF Spec
  <1> QED BY <1>3, <1>4, EffectOnceHolds, PTL DEF EffectsAreKept
=============================================================================

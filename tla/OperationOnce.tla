--------------------------- MODULE OperationOnce ---------------------------
(***************************************************************************)
(* What the machine promises for a recoverable operation, whatever the     *)
(* number of deliveries, processes and crashes behind it: the request is   *)
(* bound to one command before anything runs, that command is launched at  *)
(* most once, and a recorded outcome stands - an operation that has one is *)
(* never launched afterwards.                                              *)
(***************************************************************************)
EXTENDS Naturals

CONSTANTS
    Key,        \* operations
    Input,      \* commands
    Code,       \* exit codes
    Unbound,    \* the command of an operation that has none yet
    Undecided   \* the outcome of an operation that has none yet

VARIABLES
    bound,      \* [Key -> Input or Unbound]
    launches,   \* [Key -> Nat]
    verdict     \* [Key -> Code or Undecided]

promise == <<bound, launches, verdict>>

Init ==
    /\ bound = [k \in Key |-> Unbound]
    /\ launches = [k \in Key |-> 0]
    /\ verdict = [k \in Key |-> Undecided]

Bind(k, i) ==
    /\ bound[k] = Unbound
    /\ bound' = [bound EXCEPT ![k] = i]
    /\ UNCHANGED <<launches, verdict>>

Launch(k) ==
    /\ bound[k] # Unbound /\ launches[k] = 0 /\ verdict[k] = Undecided
    /\ launches' = [launches EXCEPT ![k] = 1]
    /\ UNCHANGED <<bound, verdict>>

\* The exit code of the command, or of a refusal to launch it.
Decide(k, c) ==
    /\ bound[k] # Unbound /\ verdict[k] = Undecided
    /\ verdict' = [verdict EXCEPT ![k] = c]
    /\ UNCHANGED <<bound, launches>>

Next == \E k \in Key :
    \/ \E i \in Input : Bind(k, i)
    \/ Launch(k)
    \/ \E c \in Code : Decide(k, c)

Spec == Init /\ [][Next]_promise
=============================================================================

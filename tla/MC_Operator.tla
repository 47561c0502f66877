----------------------------- MODULE MC_Operator -----------------------------
(* An instance of Operator: a recoverable command or a plugin task, and one  *)
(* other operation.                                                         *)
EXTENDS Operator, TLC

CONSTANTS r1, o1, c1, c2

Other == {"plugin", "input"}
RunAndOther == r1 :> {"recoverable", "plugin"} @@ o1 :> {"input"}
RunAndPlugin == r1 :> {"recoverable"} @@ o1 :> {"plugin"}
=============================================================================

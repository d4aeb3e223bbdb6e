----------------------------- MODULE SolveCalls -----------------------------
(***************************************************************************)
(* What a solver wrapper promises its caller: calls of solve come one at a *)
(* time, and each one ends once, with the answer to that very call or with *)
(* an error.                                                               *)
(***************************************************************************)
CONSTANTS
  Calls,    \* names of calls
  NoCall    \* between two calls

VARIABLES
  call,     \* the call under way, or NoCall
  outcome   \* how the last call ended: whose answer it returned, or "error"

Init ==
  /\ call = NoCall
  /\ outcome = NoCall

Begin(c) ==
  /\ call = NoCall
  /\ call' = c
  /\ UNCHANGED outcome

End ==
  /\ call # NoCall
  /\ outcome' \in {call, "error"}
  /\ call' = NoCall

Next == (\E c \in Calls : Begin(c)) \/ End

vars == <<call, outcome>>

Spec == Init /\ [][Next]_vars
=============================================================================

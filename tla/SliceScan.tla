----------------------------- MODULE SliceScan -----------------------------
(***************************************************************************)
(* What a slice promises the mining loop: it moves a cursor through the    *)
(* nonces First..First+Length-1 and hands every share it passes to         *)
(* _submit_pool_share.  PoolMiner's Scan takes exactly this for granted;   *)
(* SolverSlice shows when the solver stack keeps it.                       *)
(***************************************************************************)
EXTENDS Naturals

CONSTANTS
  First,        \* nonce_start
  Length        \* nonces_per_slice

VARIABLES
  shares,       \* the nonces whose digest meets the share target
  cursor,       \* next nonce of the slice
  handed,       \* shares handed to _submit_pool_share
  running       \* the slice has not returned

vars == <<shares, cursor, handed, running>>

Init ==
  /\ shares \in SUBSET Nat
  /\ cursor = First /\ handed = {} /\ running = TRUE

\* The slice may return with its last scan.
Scan(last) ==
  /\ running
  /\ cursor' = last + 1
  /\ handed' = handed \cup (shares \cap cursor..last)
  /\ running' \in BOOLEAN
  /\ UNCHANGED shares

Return == running /\ running' = FALSE /\ UNCHANGED <<shares, cursor, handed>>

Next == Return \/ \E last \in cursor..(First + Length - 1) : Scan(last)

Spec == Init /\ [][Next]_vars

\* No share behind the cursor is missing.
Lossless == handed = shares \cap First..(cursor - 1)
=============================================================================

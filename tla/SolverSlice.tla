---------------------------- MODULE SolverSlice ----------------------------
(***************************************************************************)
(* The solver stack under one slice: _solve_slice_continuous calls         *)
(* MultiGPUSolver.solve, which sends each GBTSolveWrapper its part of the  *)
(* nonces; every wrapper's daemon scans batches on the GPU, falls back to  *)
(* the CPU when a launch fails, and answers with one line; the answers are *)
(* merged into one result, from which the slice takes the shares to submit *)
(* and its next nonce.                                                     *)
(*                                                                         *)
(* Submitting itself is PoolMiner's; here a share is "handed" to it.  No   *)
(* share cap is set (pool_max_shares_per_slice is 0).                      *)
(***************************************************************************)
EXTENDS Integers, FiniteSets

CONSTANTS
  NumGpus,      \* solver.num_gpus
  Backend,      \* config.backend of the daemons: "hip" or "cpu"
  Nonces,       \* the nonces that may turn out to be shares
  BlockNonces,  \* those of them that are blocks if they are shares
  First,        \* nonce_start of the slice
  Length,       \* nonces_per_slice
  BatchSize,    \* launch_batch
  MaxResults,   \* max_results, 64 unless the request names another
  Faults,       \* what can go wrong: a subset of the kinds below
  MaxFaults,    \* bound: how many times something goes wrong
  None          \* a value the answer does not carry

ASSUME SolverAssumption ==
  /\ NumGpus \in Nat \ {0}
  /\ Backend \in {"hip", "cpu"}
  /\ Nonces \subseteq Nat /\ BlockNonces \subseteq Nonces
  /\ First \in Nat /\ Length \in Nat \ {0}
  /\ BatchSize \in Nat \ {0} /\ MaxResults \in Nat \ {0}
  /\ Faults \subseteq {"init",     \* InitGPU fails
                       "launch",   \* LaunchMatMulTranscriptCompact fails
                       "error",    \* a C++ exception, answered by an error
                       "crash"}    \* the process ends, or cannot be restarted
  /\ MaxFaults \in Nat
  /\ None \notin Nat

VARIABLES
  shares,       \* the nonces whose digest meets the share target
  cursor,       \* next nonce of the slice
  budget,       \* nonces the slice may still ask for
  handed,       \* shares handed to _submit_pool_share
  running,      \* the slice has not returned
  calls,        \* what each daemon does with the round's request
  alive,        \* the daemons that run
  faults,       \* how many of the MaxFaults have happened
  returned,     \* history: shares named in the answers of this slice
  lossy         \* history: what LossExplained blames has happened

sliceVars == <<cursor, budget, handed, running, returned>>
vars == <<shares, sliceVars, calls, alive, faults, lossy>>

Gpus == 0..(NumGpus - 1)

Lesser(a, b) == IF a < b THEN a ELSE b

\* One request inside a daemon.  In mode "answered" at, left and hits no
\* longer change and the answer is the one of Answer below.
Call == [ mode  : {"idle", "gpu", "cpu", "answered"},
          start : Nat,              \* nonce_start of the request
          at    : Nat,              \* current_nonce, state.nonce on the CPU
          left  : Nat,              \* max_tries
          used  : Nat,              \* tries_used
          hits  : SUBSET Nat,       \* solutions
          own   : Nat \cup {None},  \* the nonce of the answer, if found
          end   : Nat \cup {None} ] \* nonce64_end, if the answer has one

Idle == [ mode |-> "idle", start |-> 0, at |-> 0, left |-> 0, used |-> 0,
          hits |-> {}, own |-> None, end |-> None ]

Init ==
  /\ shares \in SUBSET Nonces
  /\ cursor = First /\ budget = Length
  /\ handed = {} /\ returned = {}
  /\ running = TRUE
  /\ calls = [g \in Gpus |-> Idle]
  /\ alive = Gpus
  /\ faults = 0
  /\ lossy = FALSE

Fault(kind) == kind \in Faults /\ faults < MaxFaults /\ faults' = faults + 1

-----------------------------------------------------------------------------
(* A round: one request to every wrapper. *)

Request(g) ==
  [ Idle EXCEPT !.mode  = IF Backend = "hip" THEN "gpu" ELSE "cpu",
                !.start = cursor + g * budget,
                !.at    = cursor + g * budget,
                !.left  = budget ]

\* "solver not running": found is false and there is no nonce64_end.
Refused == [Idle EXCEPT !.mode = "answered"]

\* _ensure_running starts the daemons that are gone; a restart can fail.
StartRound ==
  /\ running /\ budget > 0
  /\ \A g \in Gpus : calls[g].mode = "idle"
  /\ \E up \in {s \in SUBSET Gpus : alive \subseteq s} :
       /\ alive' = up
       /\ calls' = [g \in Gpus |-> IF g \in up THEN Request(g) ELSE Refused]
  /\ UNCHANGED <<shares, sliceVars, faults, lossy>>

\* Budget spent or deadline passed: _solve_slice_continuous returns.
Return ==
  /\ running
  /\ \A g \in Gpus : calls[g].mode = "idle"
  /\ running' = FALSE
  /\ UNCHANGED <<shares, cursor, budget, handed, returned, calls, alive, faults, lossy>>

-----------------------------------------------------------------------------
(* SolveGPU. *)

Becomes(g, call) ==
  /\ calls' = [calls EXCEPT ![g] = call]
  /\ UNCHANGED <<shares, sliceVars, alive>>

\* The answer of a daemon that ran on the GPU to the end.
GpuAnswer(call) ==
  [call EXCEPT !.mode = "answered",
               !.end  = IF call.at > 0 THEN call.at - 1 ELSE 0]

\* The call after one more batch; the first hit of the call becomes its own.
AfterBatch(call, batch, hits, own) ==
  [call EXCEPT !.at   = @ + batch,
               !.left = @ - batch,
               !.used = @ + batch,
               !.hits = @ \cup hits,
               !.own  = own]

\* A launch succeeds; enough solutions, or no nonces left, end the call.
Batch(g) ==
  LET call  == calls[g]
      batch == Lesser(call.left, BatchSize)
      hits  == shares \cap call.at..(call.at + batch - 1)
  IN  /\ call.mode = "gpu" /\ call.left > 0
      /\ \E own \in IF call.own = None /\ hits # {} THEN hits ELSE {call.own} :
           LET after == AfterBatch(call, batch, hits, own) IN
             Becomes(g, IF Cardinality(after.hits) >= MaxResults \/ after.left = 0
                        THEN GpuAnswer(after) ELSE after)
      /\ UNCHANGED <<faults, lossy>>

\* Mutant: only a call that used up its nonces reports what it found.
DeadlineForgets(g) ==
  /\ calls[g].mode = "gpu"
  /\ Becomes(g, [GpuAnswer(calls[g]) EXCEPT !.own = None])
  /\ UNCHANGED <<faults, lossy>>

\* max_seconds have passed.
GpuDeadline(g) ==
  /\ calls[g].mode = "gpu"
  /\ Becomes(g, GpuAnswer(calls[g]))
  /\ UNCHANGED <<faults, lossy>>

\* Mutant: the fallback may use the nonces the GPU has already used up.
FallbackRefilled(call) ==
  [call EXCEPT !.mode = "cpu", !.left = @ + call.used, !.used = 0]

\* SolveCPU goes on where the GPU stopped and counts its tries from zero; the
\* solutions found so far stay in the vector that is printed.
Fallback(call) == [call EXCEPT !.mode = "cpu", !.used = 0, !.own = None]

InitFails(g) ==
  /\ calls[g].mode = "gpu" /\ calls[g].used = 0
  /\ Fault("init")
  /\ Becomes(g, Fallback(calls[g]))
  /\ UNCHANGED lossy

LaunchFails(g) ==
  /\ calls[g].mode = "gpu" /\ calls[g].left > 0
  /\ Fault("launch")
  /\ Becomes(g, Fallback(calls[g]))
  /\ lossy' = (lossy \/ calls[g].hits # {})

-----------------------------------------------------------------------------
(* SolveCPU. *)

\* found: the answer names the share and ends at it.
CpuFinds(g) ==
  LET call == calls[g] IN
  /\ call.mode = "cpu" /\ call.left > 0 /\ call.at \in shares
  /\ Becomes(g, [call EXCEPT !.mode = "answered", !.used = @ + 1,
                             !.own = call.at, !.end = call.at])
  /\ UNCHANGED <<faults, lossy>>

CpuMisses(g) ==
  LET call == calls[g] IN
  /\ call.mode = "cpu" /\ call.left > 0 /\ call.at \notin shares
  /\ Becomes(g, [call EXCEPT !.at = @ + 1, !.left = @ - 1, !.used = @ + 1])
  /\ UNCHANGED <<faults, lossy>>

\* Out of nonces or of time, nothing found.
CpuStops(g) ==
  LET call == calls[g] IN
  /\ call.mode = "cpu"
  /\ Becomes(g, [call EXCEPT !.mode = "answered",
                             !.end  = IF call.at > call.start THEN call.at - 1
                                                              ELSE call.start])
  /\ UNCHANGED <<faults, lossy>>

-----------------------------------------------------------------------------
(* Failures of the daemon. *)

\* An exception in the daemon is answered; everything found is forgotten.
DaemonThrows(g) ==
  /\ calls[g].mode \in {"gpu", "cpu"}
  /\ Fault("error")
  /\ Becomes(g, Refused)
  /\ UNCHANGED lossy

\* The pipe ends: "solver returned no result", restarted by the next round.
Crash(g) ==
  /\ calls[g].mode \in {"gpu", "cpu"}
  /\ Fault("crash")
  /\ calls' = [calls EXCEPT ![g] = Refused]
  /\ alive' = alive \ {g}
  /\ UNCHANGED <<shares, sliceVars, lossy>>

-----------------------------------------------------------------------------
(* The result of the round. *)

Found(call) == call.own # None

\* is_block of the line is that of the answer's own share, the first one; a
\* block among the solutions behind it does not count.
IsBlock(call) == Found(call) /\ call.own \in BlockNonces

\* What the line of the answer names: "solutions", and "nonce64" if found.
Named(call) == call.hits \cup (IF Found(call) THEN {call.own} ELSE {})

\* Mutant: only the first share of an answer is submitted.
OnlyOwn(call) == {call.own}

\* result.get("solutions") or [result]
ShareResults(call) == IF call.hits # {} THEN call.hits ELSE {call.own}

\* Mutant: any answer with a nonce64_end can win.
AnyFinished(found) == {g \in Gpus : calls[g].end # None}

\* _merge_results takes a block's answer if there is one; which of several
\* depends on the order in which the solvers finish.
Candidates(found) ==
  LET blocks == {g \in found : IsBlock(calls[g])}
  IN  IF blocks # {} THEN blocks ELSE found

\* max(0, budget - (used if used > 0 else 1))
Charged(used) ==
  LET cost == IF used > 0 THEN used ELSE 1
  IN  IF cost < budget THEN budget - cost ELSE 0

TakeShares(g) ==
  /\ handed' = handed \cup ShareResults(calls[g])
  /\ cursor' = calls[g].end + 1
  /\ budget' = Charged(calls[g].used)
  /\ UNCHANGED running

\* Without a share the slice returns; the answer of a single solver may move
\* the cursor, a merged one carries no nonce64_end.
NoShares ==
  /\ running' = FALSE
  /\ IF NumGpus = 1 /\ calls[0].end # None /\ calls[0].end >= cursor
     THEN cursor' = calls[0].end + 1 ELSE UNCHANGED cursor
  /\ UNCHANGED <<handed, budget>>

\* Every future is done: merge the answers and go on.
Merge ==
  LET found == {g \in Gpus : Found(calls[g])} IN
  /\ \A g \in Gpus : calls[g].mode = "answered"
  /\ IF found # {} THEN \E g \in Candidates(found) : TakeShares(g) ELSE NoShares
  /\ returned' = returned \cup UNION {Named(calls[g]) : g \in Gpus}
  /\ calls' = [g \in Gpus |-> Idle]
  /\ lossy' = (lossy \/ \E g, h \in found : g # h)
  /\ UNCHANGED <<shares, alive, faults>>

Daemon(g) ==
  \/ Batch(g) \/ GpuDeadline(g) \/ InitFails(g) \/ LaunchFails(g)
  \/ CpuFinds(g) \/ CpuMisses(g) \/ CpuStops(g)
  \/ DaemonThrows(g) \/ Crash(g)

Next == StartRound \/ Return \/ Merge \/ \E g \in Gpus : Daemon(g)

Spec == Init /\ [][Next]_vars

-----------------------------------------------------------------------------
(* Properties. *)

TypeOK ==
  /\ shares \in SUBSET Nonces
  /\ cursor \in Nat /\ budget \in 0..Length
  /\ handed \in SUBSET shares /\ returned \in SUBSET shares
  /\ running \in BOOLEAN
  /\ calls \in [Gpus -> Call]
  /\ alive \in SUBSET Gpus
  /\ faults \in 0..MaxFaults
  /\ lossy \in BOOLEAN

BetweenRounds == \A g \in Gpus : calls[g].mode = "idle"

\* Every share an answer names is submitted: config.py:55, "0 means submit
\* every valid share returned by the solver."
EveryShareHanded == BetweenRounds => returned \subseteq handed

\* "nonce ranges are partitioned each round" (gbt_solve_wrapper.py:355): no
\* two daemons scan a nonce in common, the ones that fell back to the CPU
\* in the middle of their part included.
Scanned(call) == call.start..(call.at - 1)

Partitioned ==
  \A g, h \in Gpus : g # h => Scanned(calls[g]) \cap Scanned(calls[h]) = {}

\* A share an answer names, block or not, gets lost in two ways only: two daemons
\* found shares in one round, of which the merge submits one answer, or a launch
\* failed behind earlier hits.  No deadline, result limit or failed initialisation
\* loses one, however many GPUs there are, nor does the exception or the crash of
\* one daemon lose what another one answers.  (A daemon that throws or crashes
\* names nothing: what it had found is found again only if it is scanned again.)
LossExplained == BetweenRounds /\ ~lossy => returned \subseteq handed

\* One GPU whose launches succeed gives the loop the lossless scan it counts
\* on: nothing skipped, nothing dropped, nothing beyond the slice.
Promise == INSTANCE SliceScan
             WITH shares <- shares, cursor <- cursor, handed <- handed, running <- running

Lossless == Promise!Spec

=============================================================================

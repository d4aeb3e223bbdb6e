------------------------- MODULE SolverSliceProofs -------------------------
(***************************************************************************)
(* Theorems of SolverSlice: type correctness for any number of GPUs and    *)
(* any failures, the ways in which a share can get lost, and the parts of  *)
(* the nonces; for one GPU, that the slice implements the lossless scan of *)
(* SliceScan when it stays on the GPU.                                     *)
(***************************************************************************)
EXTENDS SolverSlice, TLAPS

-----------------------------------------------------------------------------
(* Type correctness. *)

\* What the answer of a call can name: its hits and its own share are shares,
\* a fallback starts without a share, and a found share comes with an end.
CallOK(call, all) ==
  /\ call \in Call
  /\ call.hits \subseteq all
  /\ call.own \in all \cup {None}
  /\ call.mode = "cpu" => call.own = None
  /\ call.mode \in {"idle", "answered"} /\ call.own # None => call.end \in Nat

CallsOK == \A g \in Gpus : CallOK(calls[g], shares)

LEMMA SharesAreNat == TypeOK => shares \subseteq Nat /\ None \notin shares
BY SolverAssumption DEF TypeOK

LEMMA IdleOK == ASSUME NEW all PROVE CallOK(Idle, all) /\ CallOK(Refused, all)
BY SolverAssumption DEF CallOK, Call, Idle, Refused

LEMMA RequestOK ==
  ASSUME TypeOK, NEW g \in Gpus, NEW all
  PROVE  CallOK(Request(g), all)
<1>1. cursor \in Nat /\ budget \in Nat /\ g \in Nat
  BY SolverAssumption DEF TypeOK, Gpus
<1>2. cursor + g * budget \in Nat
  BY <1>1
<1>. QED BY <1>1, <1>2, SolverAssumption DEF CallOK, Call, Idle, Request

LEMMA LesserType ==
  ASSUME NEW left \in Nat \ {0}
  PROVE  Lesser(left, BatchSize) \in 1..left
BY SolverAssumption DEF Lesser

LEMMA CallFields ==
  ASSUME NEW call \in Call
  PROVE  /\ call.mode \in {"idle", "gpu", "cpu", "answered"}
         /\ call.start \in Nat /\ call.at \in Nat /\ call.left \in Nat
         /\ call.used \in Nat /\ call.hits \in SUBSET Nat
         /\ call.own \in Nat \cup {None} /\ call.end \in Nat \cup {None}
BY DEF Call

\* The answer of a call that ends names its last nonce.
LEMMA AnswerOK ==
  ASSUME NEW all, NEW call, CallOK(call, all), call.mode = "gpu"
  PROVE  CallOK(GpuAnswer(call), all)
<1>. DEFINE end == IF call.at > 0 THEN call.at - 1 ELSE 0
<1>1. call \in Call /\ end \in Nat
  BY CallFields DEF CallOK
<1>. HIDE DEF end
<1>2. GpuAnswer(call) = [call EXCEPT !.mode = "answered", !.end = end]
  BY DEF GpuAnswer, end
<1>3. GpuAnswer(call) \in Call
  BY <1>1, <1>2 DEF Call
<1>. QED BY <1>1, <1>2, <1>3 DEF CallOK, Call

\* A batch keeps a call well formed, ended or not.
LEMMA BatchOK ==
  ASSUME TypeOK, NEW call, CallOK(call, shares), call.mode = "gpu", call.left > 0,
         NEW batch \in 1..call.left, NEW hits \in SUBSET shares,
         NEW own \in shares \cup {None}
  PROVE  LET after == AfterBatch(call, batch, hits, own)
         IN  CallOK(after, shares) /\ CallOK(GpuAnswer(after), shares)
<1>1. call \in Call /\ call.own \in shares \cup {None} /\ call.hits \subseteq shares
  BY DEF CallOK
<1>2. /\ call.at + batch \in Nat /\ call.left - batch \in Nat
      /\ call.used + batch \in Nat /\ call.hits \cup hits \in SUBSET Nat
      /\ own \in Nat \cup {None}
  BY <1>1, CallFields, SharesAreNat
<1>3. AfterBatch(call, batch, hits, own) \in Call
  BY <1>1, <1>2 DEF Call, AfterBatch
<1>4. /\ AfterBatch(call, batch, hits, own).mode = "gpu"
      /\ AfterBatch(call, batch, hits, own).hits = call.hits \cup hits
      /\ AfterBatch(call, batch, hits, own).own = own
  BY <1>1 DEF AfterBatch, Call
<1>5. CallOK(AfterBatch(call, batch, hits, own), shares)
  BY <1>1, <1>3, <1>4 DEF CallOK
<1>. QED BY <1>4, <1>5, AnswerOK

\* A step of one daemon that leaves it with a well-formed call.
LEMMA BecomesOK ==
  ASSUME TypeOK, CallsOK, NEW g \in Gpus, NEW call, CallOK(call, shares),
         calls' = [calls EXCEPT ![g] = call],
         UNCHANGED <<shares, sliceVars>>,
         alive' \in SUBSET Gpus, faults' \in 0..MaxFaults, lossy' \in BOOLEAN
  PROVE  TypeOK' /\ CallsOK'
<1>1. calls' \in [Gpus -> Call]
  BY DEF TypeOK, CallOK
<1>2. TypeOK'
  BY <1>1 DEF TypeOK, sliceVars
<1>3. CallsOK'
  BY DEF CallsOK, TypeOK, sliceVars
<1>. QED BY <1>2, <1>3

LEMMA FaultType ==
  ASSUME TypeOK, NEW kind, Fault(kind)
  PROVE  faults' \in 0..MaxFaults
BY SolverAssumption DEF TypeOK, Fault

LEMMA DaemonOK ==
  ASSUME TypeOK, CallsOK, NEW g \in Gpus, Daemon(g)
  PROVE  TypeOK' /\ CallsOK'
<1>0. CallOK(calls[g], shares) /\ calls[g] \in Call
  BY DEF CallsOK, CallOK
<1>1. shares \subseteq Nat /\ None \notin shares
  BY SharesAreNat
<1>2. alive \in SUBSET Gpus /\ faults \in 0..MaxFaults /\ lossy \in BOOLEAN
  BY DEF TypeOK
<1>3. CASE Batch(g)
  <2>. DEFINE call == calls[g]
              batch == Lesser(call.left, BatchSize)
              hits  == shares \cap call.at..(call.at + batch - 1)
  <2>1. call.mode = "gpu" /\ call.left > 0 /\ batch \in 1..call.left
    BY <1>0, <1>3, LesserType DEF Batch, Call
  <2>2. PICK own \in IF call.own = None /\ hits # {} THEN hits ELSE {call.own} :
          LET after == AfterBatch(call, batch, hits, own) IN
            Becomes(g, IF Cardinality(after.hits) >= MaxResults \/ after.left = 0
                       THEN GpuAnswer(after) ELSE after)
    BY <1>3 DEF Batch
  <2>3. hits \in SUBSET shares /\ own \in shares \cup {None}
    BY <1>0 DEF CallOK
  <2>. DEFINE after == AfterBatch(call, batch, hits, own)
              next  == IF Cardinality(after.hits) >= MaxResults \/ after.left = 0
                       THEN GpuAnswer(after) ELSE after
  <2>4. CallOK(after, shares) /\ CallOK(GpuAnswer(after), shares)
    BY <1>0, <2>1, <2>3, BatchOK
  <2>. HIDE DEF call, batch, hits, after
  <2>5. CallOK(next, shares)
    BY <2>4
  <2>6. Becomes(g, next) /\ UNCHANGED <<faults, lossy>>
    BY <1>3, <2>2 DEF Batch, call, batch, hits, after
  <2>. HIDE DEF next
  <2>. QED BY <1>2, <2>5, <2>6, BecomesOK DEF Becomes
<1>4. CASE GpuDeadline(g)
  <2>1. CallOK(GpuAnswer(calls[g]), shares)
    BY <1>0, <1>4, AnswerOK DEF GpuDeadline
  <2>. QED BY <1>2, <1>4, <2>1, BecomesOK DEF GpuDeadline, Becomes
<1>5. CASE InitFails(g) \/ LaunchFails(g)
  <2>1. CallOK(Fallback(calls[g]), shares)
    BY <1>0, <1>1, SolverAssumption DEF Fallback, CallOK, Call
  <2>. QED BY <1>2, <1>5, <2>1, BecomesOK, FaultType DEF InitFails, LaunchFails, Becomes
<1>6. CASE CpuFinds(g)
  <2>. DEFINE next == [calls[g] EXCEPT !.mode = "answered", !.used = @ + 1,
                                       !.own = calls[g].at, !.end = calls[g].at]
  <2>0. calls[g].at \in Nat /\ calls[g].at \in shares /\ calls[g].used + 1 \in Nat
    BY <1>0, <1>6, CallFields DEF CpuFinds
  <2>1. CallOK(next, shares)
    BY <1>0, <2>0 DEF CallOK, Call
  <2>. QED BY <1>2, <1>6, <2>1, BecomesOK DEF CpuFinds, Becomes
<1>7. CASE CpuMisses(g)
  <2>. DEFINE next == [calls[g] EXCEPT !.at = @ + 1, !.left = @ - 1, !.used = @ + 1]
  <2>0. /\ calls[g].at + 1 \in Nat /\ calls[g].left - 1 \in Nat
        /\ calls[g].used + 1 \in Nat /\ calls[g].mode = "cpu"
    BY <1>0, <1>7, CallFields DEF CpuMisses
  <2>1. CallOK(next, shares)
    BY <1>0, <2>0 DEF CallOK, Call
  <2>. QED BY <1>2, <1>7, <2>1, BecomesOK DEF CpuMisses, Becomes
<1>8. CASE CpuStops(g)
  <2>. DEFINE end  == IF calls[g].at > calls[g].start THEN calls[g].at - 1
                                                      ELSE calls[g].start
              next == [calls[g] EXCEPT !.mode = "answered", !.end = end]
  <2>0. end \in Nat /\ calls[g].mode = "cpu"
    BY <1>0, <1>8, CallFields DEF CpuStops
  <2>2. Becomes(g, next) /\ UNCHANGED <<faults, lossy>>
    BY <1>8 DEF CpuStops
  <2>. HIDE DEF end
  <2>1. CallOK(next, shares)
    BY <1>0, <2>0 DEF CallOK, Call
  <2>. QED BY <1>2, <2>1, <2>2, BecomesOK DEF Becomes
<1>9. CASE DaemonThrows(g)
  BY <1>2, <1>9, IdleOK, BecomesOK, FaultType DEF DaemonThrows, Becomes
<1>10. CASE Crash(g)
  BY <1>2, <1>10, IdleOK, BecomesOK, FaultType DEF Crash
<1>. QED BY <1>3, <1>4, <1>5, <1>6, <1>7, <1>8, <1>9, <1>10 DEF Daemon

LEMMA MergeOK ==
  ASSUME TypeOK, CallsOK, Merge
  PROVE  TypeOK' /\ CallsOK'
<1>1. calls' = [g \in Gpus |-> Idle] /\ UNCHANGED <<shares, alive, faults>>
  BY DEF Merge
<1>2. CallsOK' /\ calls' \in [Gpus -> Call]
  BY <1>1, IdleOK DEF CallsOK, CallOK
<1>3. returned' \in SUBSET shares
  BY DEF Merge, CallsOK, CallOK, Named, Found, TypeOK
<1>4. shares \subseteq Nat /\ None \notin shares
  BY SharesAreNat
<1>5. cursor' \in Nat /\ budget' \in 0..Length /\ handed' \in SUBSET shares
      /\ running' \in BOOLEAN
  <2>. DEFINE found == {g \in Gpus : Found(calls[g])}
  <2>1. CASE found # {}
    <3>1. PICK g \in Candidates(found) : TakeShares(g)
      BY <2>1 DEF Merge
    <3>2. g \in Gpus /\ Found(calls[g]) /\ calls[g].mode = "answered"
      BY DEF Candidates, Merge
    <3>3. CallOK(calls[g], shares) /\ calls[g].end \in Nat /\ calls[g].used \in Nat
      BY <3>2 DEF CallsOK, CallOK, Found, Call
    <3>4. ShareResults(calls[g]) \subseteq shares
      BY <3>2, <3>3 DEF ShareResults, CallOK, Found
    <3>5. Charged(calls[g].used) \in 0..Length
      BY <3>3, SolverAssumption DEF Charged, TypeOK
    <3>. QED BY <3>1, <3>3, <3>4, <3>5 DEF TakeShares, TypeOK
  <2>2. CASE found = {}
    <3>1. NoShares
      BY <2>2 DEF Merge
    <3>2. NumGpus = 1 /\ calls[0].end # None => calls[0].end + 1 \in Nat
      <4>1. NumGpus = 1 => calls[0] \in Call
        BY DEF TypeOK, Gpus
      <4>. QED BY <4>1, CallFields
    <3>3. cursor' \in Nat /\ running' \in BOOLEAN /\ UNCHANGED <<handed, budget>>
      BY <3>1, <3>2 DEF NoShares, TypeOK
    <3>. QED BY <3>3 DEF TypeOK
  <2>. QED BY <2>1, <2>2
<1>6. lossy' \in BOOLEAN
  BY DEF Merge, TypeOK
<1>. QED BY <1>1, <1>2, <1>3, <1>5, <1>6 DEF TypeOK

LEMMA StepOK == TypeOK /\ CallsOK /\ [Next]_vars => TypeOK' /\ CallsOK'
<1> SUFFICES ASSUME TypeOK, CallsOK, [Next]_vars PROVE TypeOK' /\ CallsOK'
  OBVIOUS
<1>1. CASE StartRound
  <2>1. \A g \in Gpus : CallOK(calls'[g], shares)
    BY <1>1, RequestOK, IdleOK DEF StartRound
  <2>2. calls' \in [Gpus -> Call] /\ alive' \in SUBSET Gpus
    BY <1>1, <2>1 DEF StartRound, CallOK
  <2>. QED BY <1>1, <2>1, <2>2 DEF StartRound, TypeOK, CallsOK, sliceVars
<1>2. CASE Return
  BY <1>2 DEF Return, TypeOK, CallsOK
<1>3. CASE Merge
  BY <1>3, MergeOK
<1>4. CASE \E g \in Gpus : Daemon(g)
  BY <1>4, DaemonOK
<1>5. CASE UNCHANGED vars
  BY <1>5 DEF vars, sliceVars, TypeOK, CallsOK
<1>. QED BY <1>1, <1>2, <1>3, <1>4, <1>5 DEF Next

LEMMA InitOK == Init => TypeOK /\ CallsOK
<1>. SUFFICES ASSUME Init PROVE TypeOK /\ CallsOK
  OBVIOUS
<1>1. CallsOK
  BY IdleOK DEF Init, CallsOK, CallOK
<1>2. calls \in [Gpus -> Call]
  BY IdleOK DEF Init, CallOK
<1>3. /\ shares \in SUBSET Nonces /\ handed \in SUBSET shares
      /\ returned \in SUBSET shares /\ alive \in SUBSET Gpus
  BY DEF Init
<1>4. cursor \in Nat /\ budget \in 0..Length /\ faults \in 0..MaxFaults
  BY SolverAssumption DEF Init
<1>5. running \in BOOLEAN /\ lossy \in BOOLEAN
  BY Zenon DEF Init
<1>. QED BY <1>1, <1>2, <1>3, <1>4, <1>5 DEF TypeOK

LEMMA AlwaysOK == Spec => [](TypeOK /\ CallsOK)
BY InitOK, StepOK, PTL DEF Spec

\* The variables of the slice and of every daemon keep their types, for any
\* number of GPUs and any failures; what is handed on or answered is a share.
THEOREM SliceTypeCorrect == Spec => []TypeOK
BY AlwaysOK, PTL

-----------------------------------------------------------------------------
(* What gets lost. *)

\* What makes ShareResults complete: a call has hits only with a share of its
\* own among them, and SolveCPU never runs after hits.  Both end when a launch
\* fails behind hits.
Coherent(call) ==
  /\ call.own = None => call.hits = {}
  /\ call.own # None /\ call.hits # {} => call.own \in call.hits
  /\ call.mode = "cpu" => call.hits = {}
  /\ call.mode = "gpu" /\ call.used = 0 => call.hits = {}
  /\ call.mode = "gpu" /\ call.own # None => call.own \in call.hits

HandedInv ==
  ~lossy => returned \subseteq handed /\ \A g \in Gpus : Coherent(calls[g])

LEMMA FreshCoherent ==
  ASSUME NEW g PROVE Coherent(Idle) /\ Coherent(Refused) /\ Coherent(Request(g))
BY SolverAssumption DEF Coherent, Idle, Refused, Request

LEMMA BecomesCoherent ==
  ASSUME TypeOK, HandedInv, NEW g \in Gpus, NEW call, Coherent(call),
         calls' = [calls EXCEPT ![g] = call], UNCHANGED sliceVars, lossy => lossy'
  PROVE  HandedInv'
BY DEF TypeOK, HandedInv, sliceVars

LEMMA DaemonCoherent ==
  ASSUME TypeOK, CallsOK, HandedInv, NEW g \in Gpus, Daemon(g)
  PROVE  HandedInv'
<1>a. lossy => lossy'
  BY DEF Daemon, Batch, GpuDeadline, InitFails, LaunchFails, CpuFinds, CpuMisses,
         CpuStops, DaemonThrows, Crash
<1>. SUFFICES ASSUME ~lossy' PROVE HandedInv'
  BY DEF HandedInv
<1>b. ~lossy
  BY <1>a
<1>0. CallOK(calls[g], shares) /\ calls[g] \in Call /\ Coherent(calls[g])
  BY <1>b DEF CallsOK, CallOK, HandedInv
<1>1. CASE Batch(g)
  <2>. DEFINE call == calls[g]
              batch == Lesser(call.left, BatchSize)
              hits  == shares \cap call.at..(call.at + batch - 1)
  <2>1. call.mode = "gpu" /\ call.left \in Nat \ {0} /\ batch \in 1..call.left
    BY <1>0, <1>1, LesserType DEF Batch, Call
  <2>2. PICK own \in IF call.own = None /\ hits # {} THEN hits ELSE {call.own} :
          LET after == AfterBatch(call, batch, hits, own) IN
            Becomes(g, IF Cardinality(after.hits) >= MaxResults \/ after.left = 0
                       THEN GpuAnswer(after) ELSE after)
    BY <1>1 DEF Batch
  <2>. DEFINE after == AfterBatch(call, batch, hits, own)
              next  == IF Cardinality(after.hits) >= MaxResults \/ after.left = 0
                       THEN GpuAnswer(after) ELSE after
  <2>3. call \in Call /\ Coherent(call) /\ call.used + batch \in Nat \ {0}
        /\ None \notin hits
    BY <1>0, <2>1, CallFields, SharesAreNat
  <2>5. Becomes(g, next)
    BY <2>2
  <2>6. own = IF call.own = None /\ hits # {} THEN own ELSE call.own
    BY <2>2
  <2>7. call.own = None /\ hits # {} => own \in hits
    BY <2>2
  <2>14. call.mode = "gpu"
    BY <2>1
  <2>. HIDE DEF call, batch, hits
  <2>8. after \in [mode : {"gpu"}, start : {call.start}, at : {call.at + batch},
                   left : {call.left - batch}, used : {call.used + batch},
                   hits : {call.hits \cup hits}, own : {own}, end : {call.end}]
    BY <2>1, <2>3 DEF AfterBatch, Call, call
  <2>. HIDE DEF after
  <2>9. own = None => call.hits \cup hits = {}
    BY <2>3, <2>6, <2>7 DEF Coherent
  <2>10. own # None => own \in call.hits \cup hits
    BY <2>14, <2>3, <2>6, <2>7 DEF Coherent
  <2>11. Coherent(after)
    BY <2>3, <2>8, <2>9, <2>10 DEF Coherent
  <2>12. Coherent(GpuAnswer(after))
    BY <2>8, <2>9, <2>10 DEF Coherent, GpuAnswer
  <2>13. Coherent(next)
    BY <2>11, <2>12
  <2>. HIDE DEF next
  <2>. QED BY <2>5, <2>13, <1>a, BecomesCoherent DEF Becomes
<1>2. CASE GpuDeadline(g)
  <2>1. Coherent(GpuAnswer(calls[g]))
    BY <1>0, <1>2 DEF GpuDeadline, GpuAnswer, Coherent, Call
  <2>. QED BY <1>2, <2>1, <1>a, BecomesCoherent DEF GpuDeadline, Becomes
<1>3. CASE InitFails(g)
  <2>1. Coherent(Fallback(calls[g]))
    BY <1>0, <1>3 DEF InitFails, Fallback, Coherent, Call
  <2>. QED BY <1>3, <2>1, <1>a, BecomesCoherent DEF InitFails, Becomes
<1>4. CASE LaunchFails(g)
  <2>1. calls[g].hits = {}
    BY <1>4 DEF LaunchFails
  <2>2. Coherent(Fallback(calls[g]))
    BY <1>0, <2>1 DEF Fallback, Coherent, Call
  <2>. QED BY <1>4, <2>2, <1>a, BecomesCoherent DEF LaunchFails, Becomes
<1>5. CASE calls[g].mode = "cpu" /\ (CpuFinds(g) \/ CpuMisses(g) \/ CpuStops(g))
  <2>1. calls[g].own = None /\ calls[g].hits = {}
    BY <1>0, <1>5 DEF CallOK, Coherent
  <2>. DEFINE call == calls[g]
              finds  == [call EXCEPT !.mode = "answered", !.used = @ + 1,
                                     !.own = call.at, !.end = call.at]
              misses == [call EXCEPT !.at = @ + 1, !.left = @ - 1, !.used = @ + 1]
              stops(end) == [call EXCEPT !.mode = "answered", !.end = end]
  <2>2. Coherent(finds) /\ Coherent(misses) /\ \A end : Coherent(stops(end))
    BY <1>0, <1>5, <2>1 DEF Coherent, Call
  <2>3. PICK next \in {finds, misses} \cup
                     {stops(IF call.at > call.start THEN call.at - 1 ELSE call.start)} :
          Becomes(g, next)
    BY <1>5 DEF CpuFinds, CpuMisses, CpuStops
  <2>. QED BY <2>2, <2>3, <1>a, BecomesCoherent DEF Becomes
<1>6. CASE DaemonThrows(g) \/ Crash(g)
  BY <1>6, FreshCoherent, <1>a, BecomesCoherent DEF DaemonThrows, Crash, Becomes
<1>. QED BY <1>1, <1>2, <1>3, <1>4, <1>5, <1>6
         DEF Daemon, CpuFinds, CpuMisses, CpuStops

LEMMA HandedStep ==
  ASSUME TypeOK, CallsOK, HandedInv, [Next]_vars
  PROVE  HandedInv'
<1>1. CASE StartRound
  <2>1. \A g \in Gpus : Coherent(calls'[g])
    BY <1>1, FreshCoherent DEF StartRound
  <2>. QED BY <1>1, <2>1 DEF StartRound, HandedInv, sliceVars
<1>2. CASE Return
  BY <1>2 DEF Return, HandedInv
<1>3. CASE Merge
  <2>. SUFFICES ASSUME ~lossy' PROVE HandedInv'
    BY DEF HandedInv
  <2>. DEFINE found == {g \in Gpus : Found(calls[g])}
  <2>1. ~lossy /\ \A g, h \in found : g = h
    BY <1>3 DEF Merge
  <2>2. returned' = returned \cup UNION {Named(calls[g]) : g \in Gpus}
    BY <1>3 DEF Merge
  <2>3. \A g \in Gpus : Coherent(calls'[g])
    BY <1>3, FreshCoherent DEF Merge
  <2>4. returned \subseteq handed /\ \A g \in Gpus : Coherent(calls[g])
    BY <2>1 DEF HandedInv
  <2>5. \A g \in Gpus : ~Found(calls[g]) => Named(calls[g]) = {}
    BY <2>4 DEF Named, Found, Coherent
  <2>6. CASE found # {}
    <3>1. PICK g \in Candidates(found) : TakeShares(g)
      BY <1>3, <2>6 DEF Merge
    <3>2. g \in found
      BY DEF Candidates
    <3>3. Named(calls[g]) \subseteq ShareResults(calls[g])
      BY <2>4, <3>2 DEF Named, ShareResults, Found, Coherent
    <3>4. returned' \subseteq returned \cup Named(calls[g])
      BY <2>1, <2>2, <2>5, <3>2
    <3>. QED BY <2>3, <2>4, <3>1, <3>3, <3>4 DEF TakeShares, HandedInv
  <2>7. CASE found = {}
    <3>1. NoShares
      BY <1>3, <2>7 DEF Merge
    <3>2. returned' = returned
      BY <2>2, <2>5, <2>7
    <3>. QED BY <2>3, <2>4, <3>1, <3>2 DEF NoShares, HandedInv
  <2>. QED BY <2>6, <2>7
<1>4. CASE \E g \in Gpus : Daemon(g)
  BY <1>4, DaemonCoherent
<1>5. CASE UNCHANGED vars
  BY <1>5 DEF vars, sliceVars, HandedInv
<1>. QED BY <1>1, <1>2, <1>3, <1>4, <1>5 DEF Next

LEMMA HandedInvariant == Spec => []HandedInv
<1>1. Init => HandedInv
  BY FreshCoherent DEF Init, HandedInv
<1>2. TypeOK /\ CallsOK /\ HandedInv /\ [Next]_vars => HandedInv'
  BY HandedStep
<1>. QED BY <1>1, <1>2, AlwaysOK, PTL DEF Spec

\* However many GPUs there are and whatever fails, a share that is named and not
\* submitted was in one of two answers with shares in one round, or in the answer
\* of a daemon whose launch failed behind earlier hits.
THEOREM LossCorrect == Spec => []LossExplained
<1>1. HandedInv => LossExplained
  BY DEF HandedInv, LossExplained
<1>. QED BY <1>1, HandedInvariant, PTL

\* With one GPU whose launches succeed, every share an answer of the solver
\* names is submitted (config.py:55), whatever deadlines, exceptions, crashes
\* and a failed initialisation do to the slice.
THEOREM SharesCorrect ==
  ASSUME NumGpus = 1, "launch" \notin Faults
  PROVE  Spec => []EveryShareHanded
<1>1. Init => ~lossy
  BY DEF Init
<1>2. ~lossy /\ [Next]_vars => ~lossy'
  <2>. SUFFICES ASSUME ~lossy, [Next]_vars PROVE ~lossy'
    OBVIOUS
  <2>1. Gpus = {0}
    BY DEF Gpus
  <2>2. CASE Merge
    BY <2>1, <2>2 DEF Merge
  <2>3. CASE StartRound \/ Return \/ UNCHANGED vars
    BY <2>3 DEF StartRound, Return, vars
  <2>4. ASSUME NEW g \in Gpus, Daemon(g) PROVE ~lossy'
    BY <2>4 DEF Daemon, Batch, GpuDeadline, InitFails, LaunchFails, Fault, CpuFinds,
                CpuMisses, CpuStops, DaemonThrows, Crash
  <2>. QED BY <2>2, <2>3, <2>4 DEF Next
<1>3. HandedInv /\ ~lossy => EveryShareHanded
  BY DEF HandedInv, EveryShareHanded
<1>. QED BY <1>1, <1>2, <1>3, HandedInvariant, PTL DEF Spec

-----------------------------------------------------------------------------
(* One GPU that never falls back: the slice implements SliceScan. *)

\* The call has scanned cursor..at-1 of the slice and found all its shares.
Scanning(call) ==
  /\ call.at >= cursor
  /\ call.used = call.at - cursor
  /\ call.left = budget - call.used
  /\ call.hits = shares \cap cursor..(call.at - 1)
  /\ call.own = None <=> call.hits = {}

ScanOK(call) ==
  \/ call.mode = "idle"
  \/ running /\ call.mode = "gpu" /\ Scanning(call)
  \/ running /\ call.mode = "answered" /\ Scanning(call) /\ call.end = call.at - 1
  \/ running /\ call = Refused

ScanInv ==
  /\ cursor > 0
  /\ running => cursor + budget <= First + Length
  /\ ScanOK(calls[0])

OneGpu == /\ NumGpus = 1 /\ Backend = "hip" /\ First > 0
          /\ Faults \subseteq {"error", "crash"}

LEMMA DaemonScans ==
  ASSUME OneGpu, TypeOK, CallsOK, ScanInv, Daemon(0)
  PROVE  ScanInv' /\ UNCHANGED <<shares, cursor, handed, running>>
<1>0. /\ calls[0] \in Call /\ CallOK(calls[0], shares) /\ ScanOK(calls[0])
      /\ DOMAIN calls = {0} /\ cursor \in Nat /\ budget \in Nat /\ First \in Nat
  BY SolverAssumption DEF TypeOK, CallsOK, ScanInv, OneGpu, Gpus
<1>1. CASE Batch(0)
  <2>. DEFINE call == calls[0]
              batch == Lesser(call.left, BatchSize)
              hits  == shares \cap call.at..(call.at + batch - 1)
  <2>1. /\ call.mode = "gpu" /\ call.left \in Nat \ {0} /\ batch \in 1..call.left
        /\ call.at \in Nat /\ call.used \in Nat /\ batch \in Nat
    BY <1>0, <1>1, LesserType, CallFields DEF Batch
  <2>2. PICK own \in IF call.own = None /\ hits # {} THEN hits ELSE {call.own} :
          LET after == AfterBatch(call, batch, hits, own) IN
            Becomes(0, IF Cardinality(after.hits) >= MaxResults \/ after.left = 0
                       THEN GpuAnswer(after) ELSE after)
    BY <1>1 DEF Batch
  <2>. DEFINE after == AfterBatch(call, batch, hits, own)
              next  == IF Cardinality(after.hits) >= MaxResults \/ after.left = 0
                       THEN GpuAnswer(after) ELSE after
  <2>3. Becomes(0, next)
    BY <2>2
  <2>4. running /\ Scanning(call)
    BY <1>0, <2>1 DEF ScanOK, Refused, Idle
  <2>5. call.hits \cup hits = shares \cap cursor..(call.at + batch - 1)
    <3>1. call.hits = shares \cap cursor..(call.at - 1) /\ call.at >= cursor
      BY <2>4 DEF Scanning
    <3>2. cursor..(call.at + batch - 1)
            = (cursor..(call.at - 1)) \cup (call.at..(call.at + batch - 1))
      BY <1>0, <2>1, <3>1
    <3>. HIDE DEF batch, call
    <3>. QED BY <3>1, <3>2
  <2>6. own = None <=> call.hits \cup hits = {}
    <3>1. None \notin hits /\ (call.own = None <=> call.hits = {})
      BY <2>4, SharesAreNat DEF Scanning
    <3>2. CASE call.own = None /\ hits # {}
      BY <2>2, <3>1, <3>2
    <3>3. CASE ~(call.own = None /\ hits # {})
      BY <2>2, <3>1, <3>3
    <3>. QED BY <3>2, <3>3
  <2>7. call \in Call
    BY <1>0
  <2>. HIDE DEF call, batch, hits
  <2>8. after \in [mode : {"gpu"}, start : {call.start}, at : {call.at + batch},
                   left : {call.left - batch}, used : {call.used + batch},
                   hits : {call.hits \cup hits}, own : {own}, end : {call.end}]
    BY <2>1, <2>7 DEF AfterBatch, Call
  <2>. HIDE DEF after
  <2>9. after.at \in Nat /\ after.at > 0 /\ after.mode = "gpu" /\ Scanning(after)
    BY <1>0, <2>1, <2>4, <2>5, <2>6, <2>8 DEF Scanning
  <2>10. Scanning(GpuAnswer(after)) /\ GpuAnswer(after).mode = "answered"
         /\ GpuAnswer(after).end = GpuAnswer(after).at - 1
    BY <2>8, <2>9 DEF Scanning, GpuAnswer
  <2>11. ScanOK(next)
    BY <2>4, <2>9, <2>10 DEF ScanOK
  <2>. HIDE DEF next
  <2>12. calls'[0] = next /\ UNCHANGED <<shares, sliceVars>>
    BY <1>0, <2>3 DEF Becomes
  <2>. QED BY <2>11, <2>12 DEF ScanInv, ScanOK, Scanning, sliceVars
<1>2. CASE GpuDeadline(0)
  <2>1. calls[0].mode = "gpu" /\ running /\ Scanning(calls[0]) /\ calls[0].at \in Nat
    BY <1>0, <1>2, CallFields DEF GpuDeadline, ScanOK, Refused, Idle
  <2>2. calls[0].at > 0
    BY <1>0, <2>1 DEF Scanning, ScanInv
  <2>. DEFINE next == GpuAnswer(calls[0])
  <2>3. /\ Scanning(next) /\ next.mode = "answered" /\ next.end = next.at - 1
    BY <1>0, <2>1, <2>2 DEF GpuAnswer, Scanning, Call
  <2>. HIDE DEF next
  <2>4. calls'[0] = next /\ UNCHANGED <<shares, sliceVars>>
    BY <1>0, <1>2 DEF GpuDeadline, Becomes, next
  <2>. QED BY <2>1, <2>3, <2>4 DEF ScanInv, ScanOK, Scanning, sliceVars
<1>3. CASE InitFails(0) \/ LaunchFails(0)
  BY <1>3 DEF InitFails, LaunchFails, Fault, OneGpu
<1>4. CASE CpuFinds(0) \/ CpuMisses(0) \/ CpuStops(0)
  BY <1>0, <1>4 DEF CpuFinds, CpuMisses, CpuStops, ScanOK, Refused, Idle
<1>5. CASE DaemonThrows(0) \/ Crash(0)
  <2>1. calls'[0] = Refused /\ running /\ UNCHANGED <<shares, sliceVars>>
    BY <1>0, <1>5 DEF DaemonThrows, Crash, Becomes, ScanOK
  <2>. QED BY <2>1 DEF ScanInv, ScanOK, sliceVars
<1>. QED BY <1>1, <1>2, <1>3, <1>4, <1>5 DEF Daemon

\* The answer of the round is one Scan of the whole range it covers.
LEMMA MergeScans ==
  ASSUME OneGpu, TypeOK, CallsOK, ScanInv, Merge
  PROVE  ScanInv' /\ [Promise!Next]_(Promise!vars)
<1>. DEFINE call == calls[0]
<1>0. /\ call \in Call /\ ScanOK(call) /\ call.mode = "answered" /\ running
      /\ cursor \in Nat /\ budget \in Nat /\ First \in Nat /\ Length \in Nat
      /\ Gpus = {0} /\ UNCHANGED shares
  <2>1. Gpus = {0}
    BY DEF OneGpu, Gpus
  <2>. QED BY <2>1, SolverAssumption
       DEF TypeOK, ScanInv, Merge, ScanOK
<1>1. calls' = [g \in Gpus |-> Idle]
  BY DEF Merge
<1>2. ScanOK(calls[0])' <=> TRUE
  BY <1>0, <1>1 DEF ScanOK, Idle
<1>3. call.at \in Nat /\ call.used \in Nat /\ call.left \in Nat
  BY <1>0, CallFields
<1>4. CASE call = Refused
  <2>1. NoShares
    BY <1>0, <1>4 DEF Merge, Found, Refused, Idle
  <2>2. running' = FALSE /\ UNCHANGED <<cursor, budget, handed>>
    BY <1>4, <2>1, SolverAssumption DEF NoShares, Refused, Idle
  <2>. QED BY <1>0, <1>2, <2>2 DEF ScanInv, Promise!Next, Promise!Return
<1>5. CASE Scanning(call) /\ call.end = call.at - 1 /\ call.own = None
  <2>1. NoShares
    BY <1>0, <1>5 DEF Merge, Found
  <2>2. running' = FALSE /\ UNCHANGED <<budget, handed>>
    BY <2>1 DEF NoShares
  <2>3. shares \cap cursor..(call.at - 1) = {}
    BY <1>5 DEF Scanning
  <2>4. call.at <= First + Length /\ call.at >= cursor
    BY <1>0, <1>3, <1>5 DEF Scanning, ScanInv
  <2>5. CASE call.at > cursor
    <3>1. cursor' = call.at
      BY <1>0, <1>3, <1>5, <2>1, <2>5, SolverAssumption DEF NoShares, OneGpu
    <3>5. handed' = handed \cup (shares \cap cursor..(call.at - 1))
      BY <2>2, <2>3, Zenon
    <3>6. call.at - 1 + 1 = call.at
      BY <1>3
    <3>2. Promise!Scan(call.at - 1)
      BY <1>0, <2>2, <3>1, <3>5, <3>6 DEF Promise!Scan
    <3>3. call.at - 1 \in cursor..(First + Length - 1)
      BY <1>0, <1>3, <2>4, <2>5
    <3>4. ScanInv'
      BY <1>0, <1>2, <1>3, <2>2, <2>5, <3>1 DEF ScanInv
    <3>. QED BY <3>2, <3>3, <3>4 DEF Promise!Next
  <2>6. CASE call.at = cursor
    <3>1. UNCHANGED cursor
      BY <1>0, <1>3, <1>5, <2>1, <2>6 DEF NoShares
    <3>2. ScanInv'
      BY <1>2, <2>2, <3>1 DEF ScanInv
    <3>. QED BY <1>0, <2>2, <3>1, <3>2 DEF Promise!Next, Promise!Return
  <2>. QED BY <1>0, <1>3, <2>4, <2>5, <2>6
<1>6. CASE Scanning(call) /\ call.end = call.at - 1 /\ call.own # None
  <2>1. TakeShares(0)
    BY <1>0, <1>6 DEF Merge, Found, Candidates
  <2>2. call.hits # {} /\ call.hits = shares \cap cursor..(call.at - 1)
    BY <1>6 DEF Scanning
  <2>3. call.at > cursor
    BY <1>0, <1>3, <2>2
  <2>4. /\ cursor' = call.at /\ handed' = handed \cup (shares \cap cursor..(call.at - 1))
        /\ running' = running /\ budget' = Charged(call.used)
    BY <1>3, <1>6, <2>1, <2>2 DEF TakeShares, ShareResults
  <2>5. call.used = call.at - cursor /\ call.used <= budget
    BY <1>0, <1>3, <1>6 DEF Scanning
  <2>6. budget' = budget - call.used
    BY <1>0, <1>3, <2>3, <2>4, <2>5 DEF Charged
  <2>7. cursor + budget <= First + Length
    BY <1>0 DEF ScanInv
  <2>8. Promise!Scan(call.at - 1)
    BY <1>0, <1>3, <2>4 DEF Promise!Scan
  <2>9. call.at - 1 \in cursor..(First + Length - 1)
    BY <1>0, <1>3, <2>3, <2>5, <2>7
  <2>10. ScanInv'
    BY <1>0, <1>2, <1>3, <2>3, <2>4, <2>5, <2>6, <2>7 DEF ScanInv
  <2>. QED BY <2>8, <2>9, <2>10 DEF Promise!Next
<1>. QED BY <1>0, <1>4, <1>5, <1>6 DEF ScanOK

LEMMA StepScans ==
  ASSUME OneGpu, TypeOK, CallsOK, ScanInv, [Next]_vars
  PROVE  ScanInv' /\ [Promise!Next]_(Promise!vars)
<1>0. Gpus = {0} /\ cursor \in Nat /\ budget \in Nat
  BY SolverAssumption DEF OneGpu, Gpus, TypeOK
<1>1. CASE StartRound
  <2>1. calls'[0] = Request(0) \/ calls'[0] = Refused
    BY <1>0, <1>1 DEF StartRound
  <2>2. running /\ UNCHANGED <<shares, sliceVars>>
    BY <1>1 DEF StartRound
  <2>3. Scanning(Request(0)) /\ Request(0).mode = "gpu"
    BY <1>0, SolverAssumption DEF Request, Idle, Scanning, OneGpu
  <2>4. ScanOK(calls'[0])
    BY <2>1, <2>2, <2>3 DEF ScanOK
  <2>. QED BY <2>2, <2>4 DEF ScanInv, ScanOK, Scanning, sliceVars, Promise!vars
<1>2. CASE Return
  <2>1. calls[0].mode = "idle" /\ UNCHANGED <<shares, cursor, budget, handed, calls>>
        /\ running /\ running' = FALSE
    BY <1>0, <1>2 DEF Return
  <2>. QED BY <2>1 DEF ScanInv, ScanOK, Promise!Next, Promise!Return
<1>3. CASE Merge
  BY <1>3, MergeScans
<1>4. CASE \E g \in Gpus : Daemon(g)
  BY <1>0, <1>4, DaemonScans DEF Promise!vars
<1>5. CASE UNCHANGED vars
  BY <1>5 DEF vars, sliceVars, ScanInv, ScanOK, Scanning, Promise!vars
<1>. QED BY <1>1, <1>2, <1>3, <1>4, <1>5 DEF Next

\* One GPU that stays one gives the mining loop a lossless scan, for every
\* set of shares, batch size and solution limit, through deadlines, daemon
\* exceptions and crashes; the slice must not start at nonce 0.
THEOREM LosslessCorrect == ASSUME OneGpu PROVE Spec => Lossless
<1>1. Init => ScanInv /\ Promise!Init
  BY SolverAssumption DEF OneGpu, Init, ScanInv, ScanOK, Idle, Gpus, Promise!Init
<1>2. TypeOK /\ CallsOK /\ ScanInv /\ [Next]_vars
        => ScanInv' /\ [Promise!Next]_(Promise!vars)
  BY StepScans
<1>. QED BY <1>1, <1>2, AlwaysOK, PTL DEF Spec, Lossless, Promise!Spec


-----------------------------------------------------------------------------
(* The parts of a round. *)

\* A call that runs or has run scans from the start of its own part and has not
\* left it; the nonces it still has end where the part ends, also after a fallback.
InPart(g, call) ==
  \/ call.mode \notin {"gpu", "cpu"} /\ call.at = call.start
  \/ call.start = cursor + g * budget /\ call.at + call.left <= call.start + budget

PartInv == \A g \in Gpus : InPart(g, calls[g])

\* The part of one GPU ends before that of a later one begins.
LEMMA PartsApart ==
  ASSUME NEW g \in Gpus, NEW h \in Gpus, g < h, NEW c \in Nat, NEW b \in Nat
  PROVE  (c + g * b) + b <= c + h * b
<1>1. g \in Nat /\ h \in Nat /\ h - g - 1 \in Nat
  BY SolverAssumption DEF Gpus
<1>2. PICK d \in Nat : h = g + 1 + d
  BY <1>1
<1>3. (g + 1 + d) * b = g * b + b + d * b
  BY <1>1
<1>4. d * b \in Nat /\ g * b \in Nat
  BY <1>1
<1>. QED BY <1>2, <1>3, <1>4

LEMMA PartNext ==
  ASSUME TypeOK, CallsOK, PartInv, [Next]_vars
  PROVE  PartInv'
<1>1. cursor \in Nat /\ budget \in Nat /\ \A g \in Gpus : g \in Nat /\ g * budget \in Nat
  BY SolverAssumption DEF TypeOK, Gpus
<1>2. \A g \in Gpus : calls[g] \in Call
  BY DEF TypeOK
<1>3. CASE StartRound
  <2>1. UNCHANGED <<cursor, budget>>
    BY <1>3 DEF StartRound, sliceVars
  <2>2. ASSUME NEW g \in Gpus PROVE InPart(g, calls[g])'
    <3>1. calls'[g] \in {Request(g), Refused}
      BY <1>3 DEF StartRound
    <3>2. CASE calls'[g] = Request(g)
      <4>1. Request(g).start = cursor + g * budget /\ Request(g).at = cursor + g * budget
            /\ Request(g).left = budget
        BY DEF Request, Idle
      <4>. QED BY <1>1, <2>1, <3>2, <4>1 DEF InPart
    <3>3. CASE calls'[g] = Refused
      <4>1. Refused.mode = "answered" /\ Refused.at = 0 /\ Refused.start = 0
        BY DEF Refused, Idle
      <4>. QED BY <3>3, <4>1 DEF InPart
    <3>. QED BY <3>1, <3>2, <3>3
  <2>. QED BY <2>2 DEF PartInv
<1>4. CASE Merge
  <2>1. Idle.mode = "idle" /\ Idle.at = 0 /\ Idle.start = 0
    BY DEF Idle
  <2>2. \A g \in Gpus : calls'[g] = Idle
    BY <1>4 DEF Merge
  <2>. QED BY <2>1, <2>2 DEF PartInv, InPart
<1>5. CASE Return \/ UNCHANGED vars
  <2>1. UNCHANGED <<cursor, budget, calls>>
    BY <1>5 DEF Return, vars, sliceVars
  <2>. QED BY <2>1 DEF PartInv, InPart
<1>6. ASSUME NEW g \in Gpus, Daemon(g) PROVE PartInv'
  <2>. DEFINE call == calls[g]
  <2>1. call \in Call /\ InPart(g, call) /\ call.start \in Nat /\ call.at \in Nat /\ call.left \in Nat
    BY <1>2, CallFields DEF PartInv
  <2>2. UNCHANGED <<cursor, budget>>
    BY <1>6 DEF Daemon, Batch, GpuDeadline, InitFails, LaunchFails, CpuFinds, CpuMisses, CpuStops,
                DaemonThrows, Crash, Becomes, sliceVars
  <2>3. \E new : /\ calls' = [calls EXCEPT ![g] = new]
                 /\ \/ new.mode = "answered" /\ new.at = 0 /\ new.start = 0
                    \/ /\ call.mode \in {"gpu", "cpu"} /\ new.start = call.start
                       /\ \E n \in 0..call.left : new.at = call.at + n /\ new.left = call.left - n
    <3>0. 0 \in 0..call.left /\ call.at + 0 = call.at /\ call.left - 0 = call.left
      BY <2>1
    <3>1. CASE Batch(g)
      <4>. DEFINE batch == Lesser(call.left, BatchSize)
                  hits  == shares \cap call.at..(call.at + batch - 1)
      <4>1. call.mode = "gpu" /\ batch \in 1..call.left
        BY <2>1, <3>1, LesserType DEF Batch
      <4>2. PICK own : LET after == AfterBatch(call, batch, hits, own) IN
              Becomes(g, IF Cardinality(after.hits) >= MaxResults \/ after.left = 0
                         THEN GpuAnswer(after) ELSE after)
        BY <3>1 DEF Batch
      <4>. DEFINE after == AfterBatch(call, batch, hits, own)
                  next  == IF Cardinality(after.hits) >= MaxResults \/ after.left = 0
                           THEN GpuAnswer(after) ELSE after
      <4>3. /\ after.start = call.start /\ after.at = call.at + batch
            /\ after.left = call.left - batch
        BY <2>1 DEF AfterBatch, Call
      <4>4. /\ GpuAnswer(after).start = call.start /\ GpuAnswer(after).at = call.at + batch
            /\ GpuAnswer(after).left = call.left - batch
        BY <2>1 DEF AfterBatch, GpuAnswer, Call
      <4>5. calls' = [calls EXCEPT ![g] = next]
        BY <4>2 DEF Becomes
      <4>. HIDE DEF call, batch, after
      <4>6. /\ next.start = call.start /\ next.at = call.at + batch
            /\ next.left = call.left - batch
        BY <4>3, <4>4
      <4>. HIDE DEF next
      <4>7. batch \in 0..call.left
        BY <2>1, <4>1
      <4>. QED BY <4>1, <4>5, <4>6, <4>7
    <3>2. CASE GpuDeadline(g)
      <4>1. /\ calls' = [calls EXCEPT ![g] = GpuAnswer(call)] /\ call.mode = "gpu"
            /\ GpuAnswer(call).start = call.start /\ GpuAnswer(call).at = call.at
            /\ GpuAnswer(call).left = call.left
        BY <2>1, <3>2 DEF GpuDeadline, Becomes, GpuAnswer, Call
      <4>. QED BY <3>0, <4>1
    <3>3. CASE InitFails(g) \/ LaunchFails(g)
      <4>1. /\ calls' = [calls EXCEPT ![g] = Fallback(call)] /\ call.mode = "gpu"
            /\ Fallback(call).start = call.start /\ Fallback(call).at = call.at
            /\ Fallback(call).left = call.left
        BY <2>1, <3>3 DEF InitFails, LaunchFails, Becomes, Fallback, Call
      <4>. QED BY <3>0, <4>1
    <3>4. CASE CpuFinds(g)
      <4>. DEFINE new == [call EXCEPT !.mode = "answered", !.used = @ + 1,
                                      !.own = call.at, !.end = call.at]
      <4>1. /\ calls' = [calls EXCEPT ![g] = new] /\ call.mode = "cpu"
            /\ new.start = call.start /\ new.at = call.at /\ new.left = call.left
        BY <2>1, <3>4 DEF CpuFinds, Becomes, Call
      <4>. HIDE DEF new
      <4>. QED BY <3>0, <4>1
    <3>5. CASE CpuMisses(g)
      <4>. DEFINE new == [call EXCEPT !.at = @ + 1, !.left = @ - 1, !.used = @ + 1]
      <4>1. /\ calls' = [calls EXCEPT ![g] = new] /\ call.mode = "cpu" /\ call.left > 0
            /\ new.start = call.start /\ new.at = call.at + 1 /\ new.left = call.left - 1
        BY <2>1, <3>5 DEF CpuMisses, Becomes, Call
      <4>. HIDE DEF new
      <4>2. 1 \in 0..call.left
        BY <2>1, <4>1
      <4>. QED BY <4>1, <4>2
    <3>6. CASE CpuStops(g)
      <4>. DEFINE new == [call EXCEPT !.mode = "answered",
                                      !.end  = IF call.at > call.start THEN call.at - 1
                                                                       ELSE call.start]
      <4>1. /\ calls' = [calls EXCEPT ![g] = new] /\ call.mode = "cpu"
            /\ new.start = call.start /\ new.at = call.at /\ new.left = call.left
        BY <2>1, <3>6 DEF CpuStops, Becomes, Call
      <4>. HIDE DEF new
      <4>. QED BY <3>0, <4>1
    <3>7. CASE DaemonThrows(g) \/ Crash(g)
      <4>1. calls' = [calls EXCEPT ![g] = Refused]
        BY <3>7 DEF DaemonThrows, Crash, Becomes
      <4>2. Refused.mode = "answered" /\ Refused.at = 0 /\ Refused.start = 0
        BY DEF Refused, Idle
      <4>. QED BY <4>1, <4>2
    <3>. QED BY <1>6, <3>1, <3>2, <3>3, <3>4, <3>5, <3>6, <3>7 DEF Daemon
  <2>4. PICK new : /\ calls' = [calls EXCEPT ![g] = new]
                   /\ \/ new.mode = "answered" /\ new.at = 0 /\ new.start = 0
                      \/ /\ call.mode \in {"gpu", "cpu"} /\ new.start = call.start
                         /\ \E n \in 0..call.left : new.at = call.at + n /\ new.left = call.left - n
    BY <2>3
  <2>5. InPart(g, new)
    <3>1. CASE new.mode = "answered" /\ new.at = 0 /\ new.start = 0
      BY <3>1 DEF InPart
    <3>2. CASE /\ call.mode \in {"gpu", "cpu"} /\ new.start = call.start
               /\ \E n \in 0..call.left : new.at = call.at + n /\ new.left = call.left - n
      <4>1. PICK n \in 0..call.left : new.at = call.at + n /\ new.left = call.left - n
        BY <3>2
      <4>2. call.start = cursor + g * budget /\ call.at + call.left <= call.start + budget
        BY <2>1, <3>2 DEF InPart
      <4>3. new.at + new.left = call.at + call.left
        BY <2>1, <4>1
      <4>. QED BY <3>2, <4>2, <4>3 DEF InPart
    <3>. QED BY <2>4, <3>1, <3>2
  <2>6. calls'[g] = new /\ \A h \in Gpus : h # g => calls'[h] = calls[h]
    BY <2>4 DEF TypeOK
  <2>7. ASSUME NEW h \in Gpus PROVE InPart(h, calls[h])'
    <3>1. CASE h = g
      BY <2>2, <2>5, <2>6, <3>1 DEF InPart
    <3>2. CASE h # g
      BY <2>2, <2>6, <3>2 DEF InPart, PartInv
    <3>. QED BY <3>1, <3>2
  <2>. QED BY <2>7 DEF PartInv
<1>. QED BY <1>3, <1>4, <1>5, <1>6 DEF Next

LEMMA PartInvariant == Spec => []PartInv
<1>1. Init => PartInv
  BY DEF Init, PartInv, InPart, Idle
<1>2. TypeOK /\ CallsOK /\ PartInv /\ [Next]_vars => PartInv'
  BY PartNext
<1>. QED BY <1>1, <1>2, AlwaysOK, PTL DEF Spec

\* What a GPU has scanned and what a later one has scanned are disjoint.
LEMMA ScansApart ==
  ASSUME TypeOK, CallsOK, PartInv, NEW g \in Gpus, NEW h \in Gpus, g < h
  PROVE  Scanned(calls[g]) \cap Scanned(calls[h]) = {}
<1>1. cursor \in Nat /\ budget \in Nat /\ g * budget \in Nat /\ h * budget \in Nat
  BY SolverAssumption DEF TypeOK, Gpus
<1>2. /\ calls[g] \in Call /\ calls[g].start \in Nat /\ calls[g].at \in Nat /\ calls[g].left \in Nat
      /\ calls[h] \in Call /\ calls[h].start \in Nat /\ calls[h].at \in Nat
  BY CallFields DEF TypeOK
<1>3. CASE calls[g].at = calls[g].start \/ calls[h].at = calls[h].start
  BY <1>2, <1>3 DEF Scanned
<1>4. CASE calls[g].at # calls[g].start /\ calls[h].at # calls[h].start
  <2>1. /\ calls[g].start = cursor + g * budget
        /\ calls[g].at + calls[g].left <= calls[g].start + budget
        /\ calls[h].start = cursor + h * budget
    BY <1>4 DEF PartInv, InPart
  <2>2. (cursor + g * budget) + budget <= cursor + h * budget
    BY <1>1, PartsApart
  <2>3. calls[g].at <= calls[h].start
    BY <1>1, <1>2, <2>1, <2>2
  <2>. QED BY <1>2, <2>3 DEF Scanned
<1>. QED BY <1>3, <1>4

\* No two daemons of a round scan a nonce in common, however many GPUs there
\* are, whatever fails, and also when one goes on on the CPU.
THEOREM PartitionedCorrect == Spec => []Partitioned
<1>1. ASSUME TypeOK, CallsOK, PartInv PROVE Partitioned
  <2>1. ASSUME NEW g \in Gpus, NEW h \in Gpus, g # h
        PROVE  Scanned(calls[g]) \cap Scanned(calls[h]) = {}
    <3>1. g < h \/ h < g
      BY <2>1, SolverAssumption DEF Gpus
    <3>2. CASE g < h
      BY <1>1, <3>2, ScansApart
    <3>3. CASE h < g
      <4>1. Scanned(calls[h]) \cap Scanned(calls[g]) = {}
        BY <1>1, <3>3, ScansApart
      <4>. QED BY <4>1
    <3>. QED BY <3>1, <3>2, <3>3
  <2>. QED BY <2>1 DEF Partitioned
<1>. QED BY <1>1, AlwaysOK, PartInvariant, PTL

=============================================================================

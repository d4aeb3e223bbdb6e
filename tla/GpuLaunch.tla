----------------------------- MODULE GpuLaunch -----------------------------
(***************************************************************************)
(* One launch on a GPU, LaunchMatMulTranscriptCompact: the sigma gate      *)
(* compacts the nonces that pass it, and ProcessPassedNoncesBatched runs a *)
(* chain of kernels on them in device buffers that outlive the launch and  *)
(* are written again and again, two of them with something else than their *)
(* name says.  Which kernels run depends on the shape of the matrices, on  *)
(* BTX_MATMUL_* variables and on the device.                               *)
(*                                                                         *)
(* The arithmetic is abstracted to data flow.  A buffer holds a Content:   *)
(* what was computed, and of which candidates.  A kernel that finds each   *)
(* of its inputs to be what it takes it for, all of the same candidates,   *)
(* writes its product of them; else it writes Garbage.                     *)
(*                                                                         *)
(* Heights are those after the fork at 125000: the matrices come from the  *)
(* seeds of the nonce, and EnsureMatricesOnDevice returns at once.         *)
(***************************************************************************)
EXTENDS Integers, Sequences, FiniteSets

CONSTANTS
  Jobs,         \* the jobs launches are made for
  Nonces,       \* the nonces a launch may cover
  Device,       \* gcnArchName: "gfx11", "gfx12" or another
  Shapes,       \* records [n, b, r]: matmul_n, matmul_b, matmul_r of a job
  Mixed,        \* whether jobs of one daemon may differ in shape
  MaxFaults,    \* bound: how many calls of the device fail
  Garbage       \* what no kernel of this launch or an earlier one wrote

ASSUME LaunchAssumption ==
  /\ Nonces \subseteq Nat
  /\ Shapes \subseteq [n : Nat \ {0}, b : Nat \ {0}, r : Nat \ {0}]
  /\ Mixed \in BOOLEAN /\ MaxFaults \in Nat

VARIABLES
  gated,        \* the nonces whose sigma passes the gate
  shapeOf,      \* the shape of each job
  env,          \* the switches that are set, see Switches
  pc,           \* the next block of the launch
  job, first, count,    \* its arguments
  scan,         \* g_launch_pool: the buffers of the gate
  threads,      \* passing nonces whose gate thread has not ended
  passed,       \* passed_nonces, copied to the host
  pool,         \* g_batched_pool: the buffers of the chain
  judged,       \* for each of passed, whose digest decided if it is in out_hits
  outcome,      \* what the last launch returned
  table,        \* d_K, the round constants of SHA-256: "unset", "loaded" or "lost"
  faults

request == <<job, first, count>>
fixed == <<gated, shapeOf, env>>
vars == <<fixed, pc, request, scan, threads, passed, pool, judged, outcome, table, faults>>

\* The variables without the prefix BTX_MATMUL_.  Those left out choose between
\* kernels that read and write the same buffers, or only measure.  The last
\* one is looked at on gfx12 only.
Switches == {"NO_FUSED_A", "NO_FUSED_B", "NO_PRECOMP_A_MIDSTATE", "NO_WMMA"}
              \cup (IF Device = "gfx12" THEN {"EXPERIMENTAL_GFX12_WMMA"} ELSE {})

Buffers == { "seed_a", "seed_b", "seed_a_midstate", "seed_b_midstate", "sigma",
             "noise_seeds", "compress_seeds", "base_a", "base_b", "matrix_a",
             "matrix_b", "noise_el", "noise_er", "noise_fl", "noise_fr",
             "compress", "words", "digests", "results" }

\* What the kernels compute: A and B, the noise, W, the words and the digest.
Products == { "seed a", "seed b", "sigma", "midstate a", "midstate b", "noise seeds",
              "compress seed", "A", "B", "E_L", "E_R", "F_L", "F_R", "W", "F_R W",
              "noisy A", "noisy B", "noisy B W", "partials", "words", "digest",
              "verdict" }

Candidate == [job : Jobs, nonce : Nonces]
Content == [what : Products, of : Seq(Candidate)]

ASSUME GarbageAssumption == Garbage \notin Content

shape == shapeOf[job]

\* use_512x16x8: the shape with kernels of its own.  The switches act on it only.
IsFast(s) == s.n = 512 /\ s.b = 16 /\ s.r = 8

-----------------------------------------------------------------------------
(* The buffers. *)

\* Elements of a buffer for one candidate of a job of shape s.
Elements(b, s) ==
  CASE b \in {"base_a", "base_b", "matrix_a", "matrix_b"} -> s.n * s.n
    [] b \in {"noise_el", "noise_er", "noise_fl", "noise_fr"} -> s.n * s.r
    [] b = "compress" -> s.b * s.b
    [] b = "words" -> (s.n \div s.b) * (s.n \div s.b)
    [] OTHER -> 1

\* pool.d_workspace, which no kernel of the compact launch reads: it counts
\* only because its allocation can fail.
Workspace(s) ==
  LET noise == 4 * s.n * s.r
      scratch == s.b * s.b
      factored == s.n % 32 = 0 /\ (s.n \div s.b) % 2 = 0
  IN 3 * s.n * s.n + noise + scratch
       + (IF factored THEN s.b * s.n * (s.n \div s.b) ELSE 5 * scratch)

\* DeviceLaunchPool.  cap is digest_cap; slots are d_passed_nonces, d_passed_sigma
\* and the two d_passed_seed arrays, written together by one gate thread.
NoScan == [cap |-> 0, ws |-> 0, counter |-> Garbage, midstate |-> Garbage,
           slots |-> <<>>]

\* BatchedMatMulPool.  cap is its capacity; batch and shape are what it was
\* allocated for, which the code does not keep; targets is the job whose
\* block and share target the pool holds.
NoPool == [cap |-> 0, batch |-> 0, shape |-> Garbage, targets |-> Garbage,
           mem |-> [b \in Buffers |-> Garbage]]

Init ==
  /\ gated \in SUBSET Nonces
  /\ shapeOf \in IF Mixed THEN [Jobs -> Shapes]
                 ELSE { [j \in Jobs |-> s] : s \in Shapes }
  /\ env \in IF \E j \in Jobs : IsFast(shapeOf[j]) THEN SUBSET Switches ELSE {{}}
  /\ pc = "idle"
  /\ job \in Jobs /\ first = 0 /\ count = 0
  /\ scan = NoScan /\ threads = {} /\ passed = <<>>
  /\ pool = NoPool
  /\ judged = <<>> /\ outcome = "none" /\ table = "unset" /\ faults = 0

-----------------------------------------------------------------------------
(* Kernels.  Write(m, out, what, ins) is the memory m after one: ins gives  *)
(* for each buffer it reads what it takes the buffer to hold.               *)

Write(m, out, what, ins) ==
  LET sound(of) == \A b \in DOMAIN ins : m[b] = [what |-> ins[b], of |-> of]
      sources == { m[b].of : b \in { c \in DOMAIN ins : m[c] # Garbage } }
  IN [m EXCEPT ![out] = IF \E of \in sources : sound(of)
                        THEN [what |-> what, of |-> CHOOSE of \in sources : sound(of)]
                        ELSE Garbage]

\* A kernel that hashes with the table d_K when the table is k.
Sha(k, m, out, what, ins) ==
  IF k = "loaded" THEN Write(m, out, what, ins) ELSE [m EXCEPT ![out] = Garbage]

\* EnsureKInitialized copies the table once.  It does not look at the result, so
\* a copy that fails is never made again.
EnsureK ==
  \/ table # "unset" /\ UNCHANGED <<table, faults>>
  \/ table = "unset" /\ table' = "loaded" /\ UNCHANGED faults
  \/ table = "unset" /\ table' = "lost" /\ faults < MaxFaults /\ faults' = faults + 1

Fast == IsFast(shape)
FusedB == Fast /\ "NO_FUSED_B" \notin env
FusedA == Fast /\ "NO_FUSED_A" \notin env
Midstates == Fast /\ (FusedA \/ "NO_PRECOMP_A_MIDSTATE" \notin env)
SupportsWmma == Device = "gfx11" \/ "EXPERIMENTAL_GFX12_WMMA" \in env
Wmma == Fast /\ SupportsWmma /\ "NO_WMMA" \notin env

ComputeSeedMidstatesA(m) ==
  Write(m, "seed_a_midstate", "midstate a", [seed_a |-> "seed a"])
ComputeSeedMidstatesB(m) ==
  Write(m, "seed_b_midstate", "midstate b", [seed_b |-> "seed b"])

\* GenerateMatrixMidstate512, which like the gate and the midstates has constants
\* of its own (kSha256K); GenerateMatrixKernel, for other n, uses the table.
OwnTable == shape.n = 512
MatrixTable(k) == IF OwnTable THEN "loaded" ELSE k
GenerateMatrixA(k, m) == Sha(MatrixTable(k), m, "base_a", "A", [seed_a |-> "seed a"])
GenerateMatrixB(k, m) == Sha(MatrixTable(k), m, "base_b", "B", [seed_b |-> "seed b"])

GenerateMatrixFromMidstate(m) ==
  Write(m, "base_a", "A", [seed_a |-> "seed a", seed_a_midstate |-> "midstate a"])

DeriveNoiseSeeds(k, m) ==
  Sha(k, Sha(k, m, "noise_seeds", "noise seeds", [sigma |-> "sigma"]),
      "compress_seeds", "compress seed", [sigma |-> "sigma"])

GenerateNoise(m, out, what) == Sha(table, m, out, what, [noise_seeds |-> "noise seeds"])

GenerateCompress(m) == Sha(table, m, "compress", "W", [compress_seeds |-> "compress seed"])

\* A' = A + E_L E_R
PerturbA(m) ==
  Write(m, "matrix_a", "noisy A", [base_a |-> "A", noise_el |-> "E_L", noise_er |-> "E_R"])

\* The same, with A made on the way; four variants, one data flow.
GeneratePerturbA(m) ==
  Write(m, "matrix_a", "noisy A",
        [seed_a |-> "seed a", seed_a_midstate |-> "midstate a", noise_el |-> "E_L",
         noise_er |-> "E_R"])

\* B' = B + F_L F_R
PerturbB(m) ==
  Write(m, "matrix_b", "noisy B", [base_b |-> "B", noise_fl |-> "F_L", noise_fr |-> "F_R"])

\* W F_R, put where E_R was.
RightNoiseRhs(m) ==
  Write(m, "noise_er", "F_R W", [noise_fr |-> "F_R", compress |-> "W"])

\* W B', put where B' would be.
FactoredRhsDirect(m) ==
  Write(m, "matrix_b", "noisy B W", [base_b |-> "B", noise_fl |-> "F_L",
                                     noise_er |-> "F_R W", compress |-> "W"])
FactoredRhsFusedB(m) ==
  Write(m, "matrix_b", "noisy B W",
        [seed_b |-> "seed b", seed_b_midstate |-> "midstate b", noise_fl |-> "F_L",
         noise_er |-> "F_R W", compress |-> "W"])

FactoredWords(m) ==
  Write(m, "words", "words", [matrix_a |-> "noisy A", matrix_b |-> "noisy B W"])

\* The partial sums go where A was.  BTX_HIP_WMMA_TARGET is defined for gfx11
\* alone: on any other device the kernel is compiled with an empty body.
WmmaPartials(m) ==
  IF Device # "gfx11" THEN m
  ELSE Write(m, "base_a", "partials", [matrix_a |-> "noisy A", matrix_b |-> "noisy B W"])
ReduceWmmaPartials(m) == Write(m, "words", "words", [base_a |-> "partials"])
PartialElements == 4 * 64 * 256

\* One thread for each of the b * b products, at most 256, and 16 terms each.
CompressedWords(m) ==
  IF shape.b > 16 THEN [m EXCEPT !["words"] = Garbage]
  ELSE Write(m, "words", "words",
             [matrix_a |-> "noisy A", matrix_b |-> "noisy B", compress |-> "W"])

\* batch_perturb_matrix_kernel adds 8 terms of the product of the noise.
Truncated(m) == IF shape.r > 8 THEN [m EXCEPT !["matrix_a"] = Garbage,
                                              !["matrix_b"] = Garbage] ELSE m

HashTranscript(m) ==
  Sha(table, m, "digests", "digest", [words |-> "words", sigma |-> "sigma"])

CompareDigests(m) ==
  LET d == m["digests"]
  IN [m EXCEPT !["results"] =
        IF d # Garbage /\ \A i \in DOMAIN d.of : d.of[i].job = pool.targets
        THEN [what |-> "verdict", of |-> d.of] ELSE Garbage]

-----------------------------------------------------------------------------
(* LaunchMatMulTranscriptCompact, up to the candidates. *)

\* SolveGPU launches the next nonces of a request.
Launch ==
  /\ pc = "idle"
  /\ \E j \in Jobs, f, l \in Nonces :
       /\ f <= l
       /\ job' = j /\ first' = f /\ count' = l - f + 1
  /\ pc' = "scan" /\ judged' = <<>> /\ passed' = <<>>
  /\ UNCHANGED <<fixed, scan, threads, pool, outcome, table, faults>>

ScanFits == scan.cap >= count /\ scan.ws >= Workspace(shape)

\* EnsureLaunchPool: new buffers hold nothing, and the old ones are kept if
\* they are large enough.
GrownScan ==
  [ cap      |-> IF scan.cap < count THEN count ELSE scan.cap,
    ws       |-> IF scan.ws < Workspace(shape) THEN Workspace(shape) ELSE scan.ws,
    counter  |-> IF scan.cap < count THEN Garbage ELSE scan.counter,
    midstate |-> IF scan.cap < count THEN Garbage ELSE scan.midstate,
    slots    |-> IF scan.cap < count THEN [i \in 1..count |-> Garbage] ELSE scan.slots ]

EnsureLaunchPool ==
  /\ pc = "scan" /\ pc' = "gate"
  /\ scan' = GrownScan
  /\ UNCHANGED <<fixed, request, threads, passed, pool, judged, outcome, table, faults>>

\* Mutant: init_scan_midstates_kernel is left out.
StartGateUnseeded ==
  /\ pc = "gate" /\ pc' = "threads"
  /\ scan' = [scan EXCEPT !.counter = 0]
  /\ threads' = gated \cap (first..(first + count - 1))
  /\ UNCHANGED <<fixed, request, passed, pool, judged, outcome, table, faults>>

\* The counter is cleared, init_scan_midstates_kernel runs, and a thread
\* starts for each nonce; those whose nonce fails the gate write nothing.
StartGate ==
  /\ pc = "gate" /\ pc' = "threads"
  /\ scan' = [scan EXCEPT !.counter = 0, !.midstate = job]
  /\ threads' = gated \cap (first..(first + count - 1))
  /\ UNCHANGED <<fixed, request, passed, pool, judged, outcome, table, faults>>

\* A thread of sigma_gate_kernel takes the next index (atomicAdd) and fills
\* that slot.  The seeds are those of the midstates it finds.
GateThread(nonce) ==
  /\ pc = "threads" /\ nonce \in threads
  /\ threads' = threads \ {nonce}
  /\ LET index == scan.counter + 1
     IN scan' = [scan EXCEPT !.counter = index,
                             !.slots = IF index \in DOMAIN scan.slots
                                       THEN [scan.slots EXCEPT ![index] =
                                              [job |-> scan.midstate, nonce |-> nonce]]
                                       ELSE scan.slots]
  /\ UNCHANGED <<fixed, pc, request, passed, pool, judged, outcome, table, faults>>

Written == SubSeq(scan.slots, 1, scan.counter)

\* The host reads the counter, and the nonces if there are any.
GateEmpty ==
  /\ pc = "threads" /\ threads = {} /\ scan.counter = 0
  /\ pc' = "idle" /\ outcome' = "ok"
  /\ UNCHANGED <<fixed, request, scan, threads, passed, pool, judged, table, faults>>

GatePassed ==
  /\ pc = "threads" /\ threads = {} /\ scan.counter > 0
  /\ pc' = "pool" /\ passed' = Written
  /\ UNCHANGED <<fixed, request, scan, threads, pool, judged, outcome, table, faults>>

-----------------------------------------------------------------------------
(* ProcessPassedNoncesBatched.  One action per timed block of the code.     *)

batch == Len(passed)

PoolFits == pool.cap >= batch

EnsureBatchedPool ==
  /\ pc = "pool" /\ pc' = "copy"
  /\ pool' = IF PoolFits THEN pool
             ELSE [NoPool EXCEPT !.cap = batch, !.batch = batch, !.shape = shape]
  /\ UNCHANGED <<fixed, request, scan, threads, passed, judged, outcome, table, faults>>

\* Seeds and sigma from the slots of the gate, targets from the job.
CopyIn ==
  /\ pc = "copy" /\ pc' = "matrix"
  /\ pool' = [pool EXCEPT
       !.targets = job,
       !.mem = [@ EXCEPT !["seed_a"] = [what |-> "seed a", of |-> Written],
                         !["seed_b"] = [what |-> "seed b", of |-> Written],
                         !["sigma"]  = [what |-> "sigma",  of |-> Written]]]
  /\ UNCHANGED <<fixed, request, scan, threads, passed, judged, outcome, table, faults>>

\* A block of kernels: it changes the memory of the pool and no other buffer.
Kernels(here, next, m) ==
  /\ pc = here /\ pc' = next
  /\ pool' = [pool EXCEPT !.mem = m]
  /\ UNCHANGED <<fixed, request, scan, threads, passed, judged, outcome>>

Block(here, next, m) == Kernels(here, next, m) /\ UNCHANGED <<table, faults>>

PrepareA(k, m) == IF Midstates THEN ComputeSeedMidstatesA(m) ELSE GenerateMatrixA(k, m)

PrepareB(k, m) ==
  IF ~FusedB THEN GenerateMatrixB(k, m)
  ELSE IF Midstates THEN ComputeSeedMidstatesB(m) ELSE m

\* The launch of a kernel that uses the table sees to it that it is there; the
\* blocks after these two rely on that.
MatrixBlock ==
  /\ IF OwnTable THEN UNCHANGED <<table, faults>> ELSE EnsureK
  /\ Kernels("matrix", "seeds", PrepareB(table', PrepareA(table', pool.mem)))

NoiseSeedBlock ==
  EnsureK /\ Kernels("seeds", "noise", DeriveNoiseSeeds(table', pool.mem))

NoiseBlock ==
  Block("noise", "compress",
        GenerateNoise(GenerateNoise(GenerateNoise(GenerateNoise(pool.mem,
          "noise_el", "E_L"), "noise_er", "E_R"), "noise_fl", "F_L"), "noise_fr", "F_R"))

CompressBlock == Block("compress", "rhs", GenerateCompress(pool.mem))

LeftSide(m) ==
  IF FusedA THEN GeneratePerturbA(m)
  ELSE PerturbA(IF Midstates THEN GenerateMatrixFromMidstate(m) ELSE m)

RightSide(m) ==
  IF FusedB THEN FactoredRhsFusedB(RightNoiseRhs(m))
  ELSE FactoredRhsDirect(RightNoiseRhs(m))

\* Mutant: the right noise is projected, over E_R, before A is perturbed.
RhsBlockSwapped ==
  Block("rhs", "words", IF Fast THEN LeftSide(RightSide(pool.mem))
                        ELSE Truncated(PerturbB(PerturbA(pool.mem))))

RhsBlock ==
  Block("rhs", "words", IF Fast THEN RightSide(LeftSide(pool.mem))
                        ELSE Truncated(PerturbB(PerturbA(pool.mem))))

WordsBlock ==
  Block("words", "hash", IF Wmma THEN ReduceWmmaPartials(WmmaPartials(pool.mem))
                         ELSE IF Fast THEN FactoredWords(pool.mem)
                         ELSE CompressedWords(pool.mem))

HashBlock == Block("hash", "collect", CompareDigests(HashTranscript(pool.mem)))

\* Whose digest the verdict is that the host reads for candidate i.
Verdict(i) ==
  LET v == pool.mem["results"]
  IN IF v # Garbage /\ i \in DOMAIN v.of THEN v.of[i] ELSE Garbage

\* Back on the host: passed_nonces[i] is a hit by verdict i.
Collect ==
  /\ pc = "collect" /\ pc' = "idle"
  /\ judged' = [i \in 1..batch |-> Verdict(i)]
  /\ outcome' = "ok"
  /\ UNCHANGED <<fixed, request, scan, threads, passed, pool, table, faults>>

-----------------------------------------------------------------------------
(* Failures that make the launch return false. *)

Fails ==
  /\ faults < MaxFaults /\ faults' = faults + 1
  /\ pc' = "idle" /\ outcome' = "failed" /\ threads' = {}
  /\ UNCHANGED <<fixed, request, passed, judged, table>>

\* hipMalloc fails in EnsureLaunchPool or EnsureBatchedPool, and what had been
\* allocated is given back.
ScanAllocFails == pc = "scan" /\ ~ScanFits /\ scan' = NoScan /\ pool' = pool /\ Fails

\* Mutant: FreeBatchedPool forgets to clear the pool, so its capacity stays.
PoolAllocFailsKeepsCap ==
  pc = "pool" /\ ~PoolFits /\ pool' = [NoPool EXCEPT !.cap = batch] /\ scan' = scan /\ Fails

PoolAllocFails == pc = "pool" /\ ~PoolFits /\ pool' = NoPool /\ scan' = scan /\ Fails

\* A copy, a kernel launch or a synchronisation fails and is reported, at once or,
\* by hipGetLastError, some blocks later.  The buffers hold what they held before
\* the block, or nothing that can be known; the table stays as it is.
Spoilt == [pool EXCEPT !.targets = Garbage, !.mem = [b \in Buffers |-> Garbage]]

DeviceFails ==
  /\ pc \notin {"idle", "scan", "pool"}
  /\ scan' = scan /\ pool' \in {pool, Spoilt}
  /\ Fails

Next ==
  \/ Launch \/ EnsureLaunchPool \/ StartGate
  \/ \E nonce \in Nonces : GateThread(nonce)
  \/ GateEmpty \/ GatePassed
  \/ EnsureBatchedPool \/ CopyIn \/ MatrixBlock \/ NoiseSeedBlock \/ NoiseBlock
  \/ CompressBlock \/ RhsBlock \/ WordsBlock \/ HashBlock \/ Collect
  \/ ScanAllocFails \/ PoolAllocFails \/ DeviceFails

Spec == Init /\ [][Next]_vars

-----------------------------------------------------------------------------
(* Properties. *)

\* The type invariant: what each buffer, counter and local may hold.  Every slot
\* a thread has filled names a job.
TypeOK ==
  /\ gated \subseteq Nonces
  /\ shapeOf \in [Jobs -> Shapes] /\ env \subseteq Switches
  /\ pc \in {"idle", "scan", "gate", "threads", "pool", "copy", "matrix", "seeds",
             "noise", "compress", "rhs", "words", "hash", "collect"}
  /\ job \in Jobs /\ first \in Nat /\ count \in Nat
  /\ scan.cap \in Nat /\ scan.ws \in Nat
  /\ scan.counter \in Nat \cup {Garbage} /\ scan.midstate \in Jobs \cup {Garbage}
  /\ scan.slots \in Seq(Candidate \cup {Garbage})
  /\ threads \subseteq Nonces
  /\ passed \in Seq(Candidate)
  /\ pool.cap \in Nat /\ pool.batch \in Nat
  /\ pool.shape \in Shapes \cup {Garbage} /\ pool.targets \in Jobs \cup {Garbage}
  /\ pool.mem \in [Buffers -> Content \cup {Garbage}]
  /\ judged \in Seq(Candidate \cup {Garbage})
  /\ outcome \in {"none", "ok", "failed"}
  /\ table \in {"unset", "loaded", "lost"} /\ faults \in 0..MaxFaults

\* What the chain of kernels is made for.  BTX_MATMUL_NO_FUSED_A with
\* BTX_MATMUL_NO_PRECOMP_A_MIDSTATE alone leaves the midstates of seed_b to
\* nobody; the generic kernels stop at r = 8 and b = 16; and the WMMA kernels
\* that the experimental switch selects on gfx12 are empty there.
Covered == /\ FusedB => Midstates
           /\ shape.r <= 8 /\ shape.b <= 16
           /\ Wmma => Device = "gfx11"

\* A launch that returns true has looked at exactly those of its own nonces that
\* pass the gate, and each is a hit or not by its own digest under its own job's
\* target, whatever an earlier launch of this or another job, complete or
\* failed, has left in the buffers, whichever switches are set, and in whatever
\* order the gate's threads took their slots.  This holds of the digests as long
\* as the one copy of the table d_K has not failed: from then on launches go on
\* to return true with digests of another function, as EnsureKInitialized does
\* not look at the copy's result.
HitsTrue ==
  pc = "idle" /\ outcome = "ok" /\ Covered
  => /\ { passed[i] : i \in 1..batch }
           = { [job |-> job, nonce |-> n] : n \in gated \cap (first..(first + count - 1)) }
     /\ table # "lost" => judged = passed

\* No kernel reads or writes beyond its buffers: the gate's slots suffice for
\* all that pass, and each buffer of the chain was allocated for as many
\* candidates of this shape, the partial sums that borrow base_a included.
\* This needs capacity and allocation to agree after a failure.
InBounds ==
  /\ pc = "threads" => scan.counter + Cardinality(threads) <= Len(scan.slots)
  /\ pc \in {"copy", "matrix", "seeds", "noise", "compress", "rhs", "words", "hash",
             "collect"}
     => /\ pool.batch > 0
        /\ \A b \in Buffers :
             batch * Elements(b, shape) <= pool.batch * Elements(b, pool.shape)
        /\ Wmma => batch * PartialElements <= pool.batch * Elements("base_a", pool.shape)
=============================================================================

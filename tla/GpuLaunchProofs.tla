-------------------------- MODULE GpuLaunchProofs --------------------------
(***************************************************************************)
(* Theorems of GpuLaunch, for any jobs, nonces, shapes and devices and any *)
(* number of failed launches: type correctness, that every buffer is large *)
(* enough, and that a hit is decided by its own digest.  The first two     *)
(* rest on what the pools keep from one launch to the next, the third on   *)
(* what each buffer holds before each block of kernels.                    *)
(***************************************************************************)
EXTENDS GpuLaunch, FiniteSetTheorems, SequenceTheorems, TLAPS

-----------------------------------------------------------------------------
(* The gate and the pools. *)

\* What a launch has to look at, and the candidates that are to come of it.
Todo == gated \cap (first..(first + count - 1))
Found(nonces) == { [job |-> job, nonce |-> n] : n \in nonces }

Slot == Candidate \cup {Garbage}
Mem == [Buffers -> Content \cup {Garbage}]
Scan == [cap : Nat, ws : Nat, counter : Nat \cup {Garbage},
         midstate : Jobs \cup {Garbage}, slots : Seq(Slot)]
Pool == [cap : Nat, batch : Nat, shape : Shapes \cup {Garbage},
         targets : Jobs \cup {Garbage}, mem : Mem]

ChainPCs == {"copy", "matrix", "seeds", "noise", "compress", "rhs", "words", "hash",
             "collect"}
PassedPCs == ChainPCs \cup {"pool"}
PCs == PassedPCs \cup {"idle", "scan", "gate", "threads"}

Tables == {"unset", "loaded", "lost"}

FixedInv ==
  /\ gated \subseteq Nonces
  /\ shapeOf \in [Jobs -> Shapes] /\ env \subseteq Switches
  /\ ~Mixed => \A i, j \in Jobs : shapeOf[i] = shapeOf[j]

RequestInv ==
  /\ pc \in PCs
  /\ job \in Jobs /\ first \in Nat /\ count \in Nat
  /\ outcome \in {"none", "ok", "failed"} /\ faults \in 0..MaxFaults
  /\ table \in Tables /\ judged \in Seq(Slot)
  /\ pc \in {"scan", "gate", "threads"} => passed = <<>> /\ judged = <<>>

\* The first so many slots hold the candidates of the given nonces.
Filled(n, nonces) ==
  /\ \A i \in 1..n : scan.slots[i] \in Found(nonces)
  /\ \A nonce \in nonces : \E i \in 1..n : scan.slots[i] = [job |-> job, nonce |-> nonce]

ScanInv ==
  /\ scan \in Scan /\ Len(scan.slots) = scan.cap
  /\ pc \notin {"idle", "scan"} => count <= scan.cap
  /\ pc # "threads" => threads = {}
  /\ pc = "threads" =>
       /\ scan.counter \in Nat /\ scan.midstate = job
       /\ threads \subseteq Todo /\ IsFiniteSet(threads)
       /\ scan.counter + Cardinality(threads) <= scan.cap
       /\ Filled(scan.counter, Todo \ threads)

PassedInv ==
  /\ passed \in Seq(Candidate)
  /\ pc \in PassedPCs =>
       /\ scan.counter \in Nat \ {0} /\ scan.counter <= scan.cap
       /\ passed = Written
       /\ { passed[i] : i \in 1..batch } = Found(Todo)

\* The pool of the chain is large enough for as many candidates as it was
\* allocated for, and keeps both numbers and the shape together.
PoolInv ==
  /\ pool \in Pool
  /\ pool.batch = pool.cap
  /\ pool.cap > 0 => \E j \in Jobs : pool.shape = shapeOf[j]
  /\ pc \in ChainPCs => pool.cap >= batch /\ batch > 0

GateInv == FixedInv /\ RequestInv /\ ScanInv /\ PassedInv /\ PoolInv

-----------------------------------------------------------------------------
(* What the buffers hold.  Before a block of kernels those it reads, and    *)
(* those a later one reads, hold what they are read for, of the candidates  *)
(* of this launch.                                                          *)

Is(m, b, what, of) == m[b] = [what |-> what, of |-> of]

SeedsIn(m, of) == Is(m, "seed_a", "seed a", of) /\ Is(m, "seed_b", "seed b", of)

PreparedIn(m, of) ==
  /\ IF Midstates THEN Is(m, "seed_a_midstate", "midstate a", of)
                  ELSE Is(m, "base_a", "A", of)
  /\ IF FusedB THEN Midstates => Is(m, "seed_b_midstate", "midstate b", of)
               ELSE Is(m, "base_b", "B", of)

NoiseSeedsIn(m, of) ==
  Is(m, "noise_seeds", "noise seeds", of) /\ Is(m, "compress_seeds", "compress seed", of)

NoiseIn(m, of) ==
  /\ Is(m, "noise_el", "E_L", of) /\ Is(m, "noise_er", "E_R", of)
  /\ Is(m, "noise_fl", "F_L", of) /\ Is(m, "noise_fr", "F_R", of)

FactorsIn(m, of) ==
  /\ Is(m, "matrix_a", "noisy A", of)
  /\ IF Fast THEN Is(m, "matrix_b", "noisy B W", of)
             ELSE Is(m, "matrix_b", "noisy B", of) /\ Is(m, "compress", "W", of)

BufferInv ==
  /\ pc \in ChainPCs \ {"copy"} =>
       pool.targets = job /\ Is(pool.mem, "sigma", "sigma", passed)
  /\ pc \in {"matrix", "seeds", "noise", "compress", "rhs"} => SeedsIn(pool.mem, passed)
  /\ pc \in ChainPCs \ {"copy", "matrix", "seeds"} => table # "unset"
  /\ table # "lost" =>
       /\ pc \in {"seeds", "noise", "compress", "rhs"} => PreparedIn(pool.mem, passed)
       /\ pc \in {"noise", "compress", "rhs"} => NoiseSeedsIn(pool.mem, passed)
       /\ pc \in {"compress", "rhs"} => NoiseIn(pool.mem, passed)
       /\ pc = "rhs" => Is(pool.mem, "compress", "W", passed)
       /\ pc = "words" /\ Covered => FactorsIn(pool.mem, passed)
       /\ pc = "hash" /\ Covered => Is(pool.mem, "words", "words", passed)
       /\ pc = "collect" /\ Covered => Is(pool.mem, "results", "verdict", passed)

DoneInv ==
  pc = "idle" /\ outcome = "ok" =>
    /\ { passed[i] : i \in 1..batch } = Found(Todo)
    /\ Covered /\ table # "lost" => judged = passed

HitsInv == BufferInv /\ DoneInv

-----------------------------------------------------------------------------
(* Kernels. *)

\* A kernel touches no buffer but those it writes.
Only(outs, m1, m2) == m2 \in Mem /\ \A b \in Buffers \ outs : m2[b] = m1[b]

LEMMA WriteOnly ==
  ASSUME NEW m \in Mem, NEW out \in Buffers, NEW what \in Products,
         NEW ins, DOMAIN ins \subseteq Buffers
  PROVE  Only({out}, m, Write(m, out, what, ins))
<1> DEFINE sound(of) == \A b \in DOMAIN ins : m[b] = [what |-> ins[b], of |-> of]
           sources == { m[b].of : b \in { c \in DOMAIN ins : m[c] # Garbage } }
           result == IF \E of \in sources : sound(of)
                     THEN [what |-> what, of |-> CHOOSE of \in sources : sound(of)]
                     ELSE Garbage
<1>1. Write(m, out, what, ins) = [m EXCEPT ![out] = result]
  BY DEF Write
<1>2. sources \subseteq Seq(Candidate)
  BY DEF Mem, Content
<1>3. result \in Content \cup {Garbage}
  <2>1. CASE \E of \in sources : sound(of)
    <3> HIDE DEF sources, sound
    <3>1. (CHOOSE of \in sources : sound(of)) \in sources
      BY <2>1
    <3> QED BY <2>1, <3>1, <1>2 DEF Content
  <2> QED BY <2>1
<1> HIDE DEF result
<1> QED BY <1>1, <1>3 DEF Only, Mem

\* A kernel whose inputs are what it takes them for, of the same candidates,
\* writes its product of them.
LEMMA WriteSound ==
  ASSUME NEW m \in Mem, NEW out \in Buffers, NEW what \in Products,
         NEW ins, DOMAIN ins \subseteq Buffers, NEW some \in DOMAIN ins,
         \A b \in DOMAIN ins : ins[b] \in Products,
         NEW of \in Seq(Candidate),
         \A b \in DOMAIN ins : Is(m, b, ins[b], of)
  PROVE  Is(Write(m, out, what, ins), out, what, of)
<1> DEFINE sound(o) == \A b \in DOMAIN ins : m[b] = [what |-> ins[b], of |-> o]
           sources == { m[b].of : b \in { c \in DOMAIN ins : m[c] # Garbage } }
<1>1. ASSUME NEW b \in DOMAIN ins
      PROVE  /\ m[b] = [what |-> ins[b], of |-> of] /\ m[b].of = of
             /\ m[b] # Garbage
  <2>1. m[b] = [what |-> ins[b], of |-> of]
    BY DEF Is
  <2>2. [what |-> ins[b], of |-> of].of = of
    OBVIOUS
  <2>3. [what |-> ins[b], of |-> of] \in Content
    BY DEF Content
  <2> QED BY <2>1, <2>2, <2>3, GarbageAssumption
<1>3. of \in sources
  BY <1>1
<1>4. sound(of)
  BY <1>1
<1>5. ASSUME NEW o, sound(o) PROVE o = of
  <2>1. m[some] = [what |-> ins[some], of |-> o]
    BY <1>5
  <2>2. [what |-> ins[some], of |-> o].of = o
    OBVIOUS
  <2> QED BY <1>1, <2>1, <2>2
<1> HIDE DEF sound, sources
<1>6. (CHOOSE o \in sources : sound(o)) = of
  BY <1>3, <1>4, <1>5
<1>7. Write(m, out, what, ins) = [m EXCEPT ![out] = [what |-> what, of |-> of]]
  <2> USE DEF sound, sources
  <2>1. Write(m, out, what, ins)
          = [m EXCEPT ![out] = IF \E o \in sources : sound(o)
                               THEN [what |-> what, of |-> CHOOSE o \in sources : sound(o)]
                               ELSE Garbage]
    BY DEF Write
  <2> HIDE DEF sound, sources
  <2> QED BY <2>1, <1>3, <1>4, <1>6
<1> QED BY <1>7 DEF Is, Mem

\* Both facts, for the kernels below.
LEMMA WriteMakes ==
  ASSUME NEW m \in Mem, NEW out \in Buffers, NEW what \in Products,
         NEW ins, DOMAIN ins \subseteq Buffers, DOMAIN ins # {},
         \A b \in DOMAIN ins : ins[b] \in Products
  PROVE  /\ Only({out}, m, Write(m, out, what, ins))
         /\ \A of \in Seq(Candidate) :
              (\A b \in DOMAIN ins : Is(m, b, ins[b], of))
                => Is(Write(m, out, what, ins), out, what, of)
<1>1. Only({out}, m, Write(m, out, what, ins))
  BY WriteOnly
<1>2. ASSUME NEW of \in Seq(Candidate), \A b \in DOMAIN ins : Is(m, b, ins[b], of)
      PROVE  Is(Write(m, out, what, ins), out, what, of)
  BY <1>2, WriteSound
<1> QED BY <1>1, <1>2

\* The same for a kernel that uses the table, when the table is there.
LEMMA ShaMakes ==
  ASSUME NEW k, NEW m \in Mem, NEW out \in Buffers, NEW what \in Products,
         NEW ins, DOMAIN ins \subseteq Buffers, DOMAIN ins # {},
         \A b \in DOMAIN ins : ins[b] \in Products
  PROVE  /\ Only({out}, m, Sha(k, m, out, what, ins))
         /\ k = "loaded" => \A of \in Seq(Candidate) :
              (\A b \in DOMAIN ins : Is(m, b, ins[b], of))
                => Is(Sha(k, m, out, what, ins), out, what, of)
<1>1. CASE k = "loaded"
  <2>1. Sha(k, m, out, what, ins) = Write(m, out, what, ins)
    BY <1>1 DEF Sha
  <2> QED BY <2>1, WriteMakes
<1>2. CASE k # "loaded"
  <2>1. Sha(k, m, out, what, ins) = [m EXCEPT ![out] = Garbage]
    BY <1>2 DEF Sha
  <2> QED BY <1>2, <2>1 DEF Only, Mem
<1> QED BY <1>1, <1>2

LEMMA ComputeSeedMidstatesAMakes ==
  ASSUME NEW m \in Mem
  PROVE  /\ Only({"seed_a_midstate"}, m, ComputeSeedMidstatesA(m))
         /\ \A of \in Seq(Candidate) :
              Is(m, "seed_a", "seed a", of)
            => Is(ComputeSeedMidstatesA(m), "seed_a_midstate", "midstate a", of)
<1> DEFINE ins == [seed_a |-> "seed a"]
<1>1. /\ DOMAIN ins = {"seed_a"}
      /\ ins["seed_a"] = "seed a"
  OBVIOUS
<1> HIDE DEF ins
<1>2. /\ Only({"seed_a_midstate"}, m, Write(m, "seed_a_midstate", "midstate a", ins))
      /\ \A of \in Seq(Candidate) :
           (\A b \in DOMAIN ins : Is(m, b, ins[b], of))
             => Is(Write(m, "seed_a_midstate", "midstate a", ins), "seed_a_midstate", "midstate a", of)
  <2>1. "seed_a_midstate" \in Buffers /\ "midstate a" \in Products
    BY DEF Buffers, Products
  <2>2. /\ DOMAIN ins \subseteq Buffers /\ DOMAIN ins # {}
        /\ \A b \in DOMAIN ins : ins[b] \in Products
    BY <1>1 DEF Buffers, Products
  <2> QED BY <2>1, <2>2, WriteMakes, Zenon
<1>3. ASSUME NEW of \in Seq(Candidate),
             Is(m, "seed_a", "seed a", of)
      PROVE  Is(Write(m, "seed_a_midstate", "midstate a", ins), "seed_a_midstate", "midstate a", of)
  <2>1. \A b \in DOMAIN ins : Is(m, b, ins[b], of)
    BY <1>1, <1>3
  <2> QED BY <1>2, <2>1
<1> QED BY <1>2, <1>3 DEF ComputeSeedMidstatesA, ins

LEMMA ComputeSeedMidstatesBMakes ==
  ASSUME NEW m \in Mem
  PROVE  /\ Only({"seed_b_midstate"}, m, ComputeSeedMidstatesB(m))
         /\ \A of \in Seq(Candidate) :
              Is(m, "seed_b", "seed b", of)
            => Is(ComputeSeedMidstatesB(m), "seed_b_midstate", "midstate b", of)
<1> DEFINE ins == [seed_b |-> "seed b"]
<1>1. /\ DOMAIN ins = {"seed_b"}
      /\ ins["seed_b"] = "seed b"
  OBVIOUS
<1> HIDE DEF ins
<1>2. /\ Only({"seed_b_midstate"}, m, Write(m, "seed_b_midstate", "midstate b", ins))
      /\ \A of \in Seq(Candidate) :
           (\A b \in DOMAIN ins : Is(m, b, ins[b], of))
             => Is(Write(m, "seed_b_midstate", "midstate b", ins), "seed_b_midstate", "midstate b", of)
  <2>1. "seed_b_midstate" \in Buffers /\ "midstate b" \in Products
    BY DEF Buffers, Products
  <2>2. /\ DOMAIN ins \subseteq Buffers /\ DOMAIN ins # {}
        /\ \A b \in DOMAIN ins : ins[b] \in Products
    BY <1>1 DEF Buffers, Products
  <2> QED BY <2>1, <2>2, WriteMakes, Zenon
<1>3. ASSUME NEW of \in Seq(Candidate),
             Is(m, "seed_b", "seed b", of)
      PROVE  Is(Write(m, "seed_b_midstate", "midstate b", ins), "seed_b_midstate", "midstate b", of)
  <2>1. \A b \in DOMAIN ins : Is(m, b, ins[b], of)
    BY <1>1, <1>3
  <2> QED BY <1>2, <2>1
<1> QED BY <1>2, <1>3 DEF ComputeSeedMidstatesB, ins

LEMMA GenerateMatrixAMakes ==
  ASSUME NEW k, NEW m \in Mem
  PROVE  /\ Only({"base_a"}, m, GenerateMatrixA(k, m))
         /\ MatrixTable(k) = "loaded" => \A of \in Seq(Candidate) :
              Is(m, "seed_a", "seed a", of)
            => Is(GenerateMatrixA(k, m), "base_a", "A", of)
<1> DEFINE ins == [seed_a |-> "seed a"]
<1>1. /\ DOMAIN ins = {"seed_a"}
      /\ ins["seed_a"] = "seed a"
  OBVIOUS
<1> HIDE DEF ins
<1>2. /\ Only({"base_a"}, m, Sha(MatrixTable(k), m, "base_a", "A", ins))
      /\ MatrixTable(k) = "loaded" => \A of \in Seq(Candidate) :
           (\A b \in DOMAIN ins : Is(m, b, ins[b], of))
             => Is(Sha(MatrixTable(k), m, "base_a", "A", ins), "base_a", "A", of)
  <2>1. "base_a" \in Buffers /\ "A" \in Products
    BY DEF Buffers, Products
  <2>2. /\ DOMAIN ins \subseteq Buffers /\ DOMAIN ins # {}
        /\ \A b \in DOMAIN ins : ins[b] \in Products
    BY <1>1 DEF Buffers, Products
  <2> QED BY <2>1, <2>2, ShaMakes, Zenon
<1>3. ASSUME NEW of \in Seq(Candidate), MatrixTable(k) = "loaded",
             Is(m, "seed_a", "seed a", of)
      PROVE  Is(Sha(MatrixTable(k), m, "base_a", "A", ins), "base_a", "A", of)
  <2>1. \A b \in DOMAIN ins : Is(m, b, ins[b], of)
    BY <1>1, <1>3
  <2> QED BY <1>2, <1>3, <2>1
<1> QED BY <1>2, <1>3 DEF GenerateMatrixA, ins

LEMMA GenerateMatrixBMakes ==
  ASSUME NEW k, NEW m \in Mem
  PROVE  /\ Only({"base_b"}, m, GenerateMatrixB(k, m))
         /\ MatrixTable(k) = "loaded" => \A of \in Seq(Candidate) :
              Is(m, "seed_b", "seed b", of)
            => Is(GenerateMatrixB(k, m), "base_b", "B", of)
<1> DEFINE ins == [seed_b |-> "seed b"]
<1>1. /\ DOMAIN ins = {"seed_b"}
      /\ ins["seed_b"] = "seed b"
  OBVIOUS
<1> HIDE DEF ins
<1>2. /\ Only({"base_b"}, m, Sha(MatrixTable(k), m, "base_b", "B", ins))
      /\ MatrixTable(k) = "loaded" => \A of \in Seq(Candidate) :
           (\A b \in DOMAIN ins : Is(m, b, ins[b], of))
             => Is(Sha(MatrixTable(k), m, "base_b", "B", ins), "base_b", "B", of)
  <2>1. "base_b" \in Buffers /\ "B" \in Products
    BY DEF Buffers, Products
  <2>2. /\ DOMAIN ins \subseteq Buffers /\ DOMAIN ins # {}
        /\ \A b \in DOMAIN ins : ins[b] \in Products
    BY <1>1 DEF Buffers, Products
  <2> QED BY <2>1, <2>2, ShaMakes, Zenon
<1>3. ASSUME NEW of \in Seq(Candidate), MatrixTable(k) = "loaded",
             Is(m, "seed_b", "seed b", of)
      PROVE  Is(Sha(MatrixTable(k), m, "base_b", "B", ins), "base_b", "B", of)
  <2>1. \A b \in DOMAIN ins : Is(m, b, ins[b], of)
    BY <1>1, <1>3
  <2> QED BY <1>2, <1>3, <2>1
<1> QED BY <1>2, <1>3 DEF GenerateMatrixB, ins

LEMMA GenerateMatrixFromMidstateMakes ==
  ASSUME NEW m \in Mem
  PROVE  /\ Only({"base_a"}, m, GenerateMatrixFromMidstate(m))
         /\ \A of \in Seq(Candidate) :
              /\ Is(m, "seed_a", "seed a", of)
              /\ Is(m, "seed_a_midstate", "midstate a", of)
            => Is(GenerateMatrixFromMidstate(m), "base_a", "A", of)
<1> DEFINE ins == [seed_a |-> "seed a", seed_a_midstate |-> "midstate a"]
<1>1. /\ DOMAIN ins = {"seed_a", "seed_a_midstate"}
      /\ ins["seed_a"] = "seed a"
      /\ ins["seed_a_midstate"] = "midstate a"
  OBVIOUS
<1> HIDE DEF ins
<1>2. /\ Only({"base_a"}, m, Write(m, "base_a", "A", ins))
      /\ \A of \in Seq(Candidate) :
           (\A b \in DOMAIN ins : Is(m, b, ins[b], of))
             => Is(Write(m, "base_a", "A", ins), "base_a", "A", of)
  <2>1. "base_a" \in Buffers /\ "A" \in Products
    BY DEF Buffers, Products
  <2>2. /\ DOMAIN ins \subseteq Buffers /\ DOMAIN ins # {}
        /\ \A b \in DOMAIN ins : ins[b] \in Products
    BY <1>1 DEF Buffers, Products
  <2> QED BY <2>1, <2>2, WriteMakes, Zenon
<1>3. ASSUME NEW of \in Seq(Candidate),
             /\ Is(m, "seed_a", "seed a", of)
             /\ Is(m, "seed_a_midstate", "midstate a", of)
      PROVE  Is(Write(m, "base_a", "A", ins), "base_a", "A", of)
  <2>1. \A b \in DOMAIN ins : Is(m, b, ins[b], of)
    BY <1>1, <1>3
  <2> QED BY <1>2, <2>1
<1> QED BY <1>2, <1>3 DEF GenerateMatrixFromMidstate, ins

LEMMA GenerateCompressMakes ==
  ASSUME NEW m \in Mem
  PROVE  /\ Only({"compress"}, m, GenerateCompress(m))
         /\ table = "loaded" => \A of \in Seq(Candidate) :
              Is(m, "compress_seeds", "compress seed", of)
            => Is(GenerateCompress(m), "compress", "W", of)
<1> DEFINE ins == [compress_seeds |-> "compress seed"]
<1>1. /\ DOMAIN ins = {"compress_seeds"}
      /\ ins["compress_seeds"] = "compress seed"
  OBVIOUS
<1> HIDE DEF ins
<1>2. /\ Only({"compress"}, m, Sha(table, m, "compress", "W", ins))
      /\ table = "loaded" => \A of \in Seq(Candidate) :
           (\A b \in DOMAIN ins : Is(m, b, ins[b], of))
             => Is(Sha(table, m, "compress", "W", ins), "compress", "W", of)
  <2>1. "compress" \in Buffers /\ "W" \in Products
    BY DEF Buffers, Products
  <2>2. /\ DOMAIN ins \subseteq Buffers /\ DOMAIN ins # {}
        /\ \A b \in DOMAIN ins : ins[b] \in Products
    BY <1>1 DEF Buffers, Products
  <2> QED BY <2>1, <2>2, ShaMakes, Zenon
<1>3. ASSUME NEW of \in Seq(Candidate), table = "loaded",
             Is(m, "compress_seeds", "compress seed", of)
      PROVE  Is(Sha(table, m, "compress", "W", ins), "compress", "W", of)
  <2>1. \A b \in DOMAIN ins : Is(m, b, ins[b], of)
    BY <1>1, <1>3
  <2> QED BY <1>2, <1>3, <2>1
<1> QED BY <1>2, <1>3 DEF GenerateCompress, ins

LEMMA PerturbAMakes ==
  ASSUME NEW m \in Mem
  PROVE  /\ Only({"matrix_a"}, m, PerturbA(m))
         /\ \A of \in Seq(Candidate) :
              /\ Is(m, "base_a", "A", of)
              /\ Is(m, "noise_el", "E_L", of)
              /\ Is(m, "noise_er", "E_R", of)
            => Is(PerturbA(m), "matrix_a", "noisy A", of)
<1> DEFINE ins == [base_a |-> "A", noise_el |-> "E_L", noise_er |-> "E_R"]
<1>1. /\ DOMAIN ins = {"base_a", "noise_el", "noise_er"}
      /\ ins["base_a"] = "A"
      /\ ins["noise_el"] = "E_L"
      /\ ins["noise_er"] = "E_R"
  OBVIOUS
<1> HIDE DEF ins
<1>2. /\ Only({"matrix_a"}, m, Write(m, "matrix_a", "noisy A", ins))
      /\ \A of \in Seq(Candidate) :
           (\A b \in DOMAIN ins : Is(m, b, ins[b], of))
             => Is(Write(m, "matrix_a", "noisy A", ins), "matrix_a", "noisy A", of)
  <2>1. "matrix_a" \in Buffers /\ "noisy A" \in Products
    BY DEF Buffers, Products
  <2>2. /\ DOMAIN ins \subseteq Buffers /\ DOMAIN ins # {}
        /\ \A b \in DOMAIN ins : ins[b] \in Products
    BY <1>1 DEF Buffers, Products
  <2> QED BY <2>1, <2>2, WriteMakes, Zenon
<1>3. ASSUME NEW of \in Seq(Candidate),
             /\ Is(m, "base_a", "A", of)
             /\ Is(m, "noise_el", "E_L", of)
             /\ Is(m, "noise_er", "E_R", of)
      PROVE  Is(Write(m, "matrix_a", "noisy A", ins), "matrix_a", "noisy A", of)
  <2>1. \A b \in DOMAIN ins : Is(m, b, ins[b], of)
    BY <1>1, <1>3
  <2> QED BY <1>2, <2>1
<1> QED BY <1>2, <1>3 DEF PerturbA, ins

LEMMA GeneratePerturbAMakes ==
  ASSUME NEW m \in Mem
  PROVE  /\ Only({"matrix_a"}, m, GeneratePerturbA(m))
         /\ \A of \in Seq(Candidate) :
              /\ Is(m, "seed_a", "seed a", of)
              /\ Is(m, "seed_a_midstate", "midstate a", of)
              /\ Is(m, "noise_el", "E_L", of)
              /\ Is(m, "noise_er", "E_R", of)
            => Is(GeneratePerturbA(m), "matrix_a", "noisy A", of)
<1> DEFINE ins == [seed_a |-> "seed a", seed_a_midstate |-> "midstate a",
                   noise_el |-> "E_L", noise_er |-> "E_R"]
<1>1. /\ DOMAIN ins = {"seed_a", "seed_a_midstate", "noise_el", "noise_er"}
      /\ ins["seed_a"] = "seed a"
      /\ ins["seed_a_midstate"] = "midstate a"
      /\ ins["noise_el"] = "E_L"
      /\ ins["noise_er"] = "E_R"
  OBVIOUS
<1> HIDE DEF ins
<1>2. /\ Only({"matrix_a"}, m, Write(m, "matrix_a", "noisy A", ins))
      /\ \A of \in Seq(Candidate) :
           (\A b \in DOMAIN ins : Is(m, b, ins[b], of))
             => Is(Write(m, "matrix_a", "noisy A", ins), "matrix_a", "noisy A", of)
  <2>1. "matrix_a" \in Buffers /\ "noisy A" \in Products
    BY DEF Buffers, Products
  <2>2. /\ DOMAIN ins \subseteq Buffers /\ DOMAIN ins # {}
        /\ \A b \in DOMAIN ins : ins[b] \in Products
    BY <1>1 DEF Buffers, Products
  <2> QED BY <2>1, <2>2, WriteMakes, Zenon
<1>3. ASSUME NEW of \in Seq(Candidate),
             /\ Is(m, "seed_a", "seed a", of)
             /\ Is(m, "seed_a_midstate", "midstate a", of)
             /\ Is(m, "noise_el", "E_L", of)
             /\ Is(m, "noise_er", "E_R", of)
      PROVE  Is(Write(m, "matrix_a", "noisy A", ins), "matrix_a", "noisy A", of)
  <2>1. \A b \in DOMAIN ins : Is(m, b, ins[b], of)
    BY <1>1, <1>3
  <2> QED BY <1>2, <2>1
<1> QED BY <1>2, <1>3 DEF GeneratePerturbA, ins

LEMMA PerturbBMakes ==
  ASSUME NEW m \in Mem
  PROVE  /\ Only({"matrix_b"}, m, PerturbB(m))
         /\ \A of \in Seq(Candidate) :
              /\ Is(m, "base_b", "B", of)
              /\ Is(m, "noise_fl", "F_L", of)
              /\ Is(m, "noise_fr", "F_R", of)
            => Is(PerturbB(m), "matrix_b", "noisy B", of)
<1> DEFINE ins == [base_b |-> "B", noise_fl |-> "F_L", noise_fr |-> "F_R"]
<1>1. /\ DOMAIN ins = {"base_b", "noise_fl", "noise_fr"}
      /\ ins["base_b"] = "B"
      /\ ins["noise_fl"] = "F_L"
      /\ ins["noise_fr"] = "F_R"
  OBVIOUS
<1> HIDE DEF ins
<1>2. /\ Only({"matrix_b"}, m, Write(m, "matrix_b", "noisy B", ins))
      /\ \A of \in Seq(Candidate) :
           (\A b \in DOMAIN ins : Is(m, b, ins[b], of))
             => Is(Write(m, "matrix_b", "noisy B", ins), "matrix_b", "noisy B", of)
  <2>1. "matrix_b" \in Buffers /\ "noisy B" \in Products
    BY DEF Buffers, Products
  <2>2. /\ DOMAIN ins \subseteq Buffers /\ DOMAIN ins # {}
        /\ \A b \in DOMAIN ins : ins[b] \in Products
    BY <1>1 DEF Buffers, Products
  <2> QED BY <2>1, <2>2, WriteMakes, Zenon
<1>3. ASSUME NEW of \in Seq(Candidate),
             /\ Is(m, "base_b", "B", of)
             /\ Is(m, "noise_fl", "F_L", of)
             /\ Is(m, "noise_fr", "F_R", of)
      PROVE  Is(Write(m, "matrix_b", "noisy B", ins), "matrix_b", "noisy B", of)
  <2>1. \A b \in DOMAIN ins : Is(m, b, ins[b], of)
    BY <1>1, <1>3
  <2> QED BY <1>2, <2>1
<1> QED BY <1>2, <1>3 DEF PerturbB, ins

LEMMA RightNoiseRhsMakes ==
  ASSUME NEW m \in Mem
  PROVE  /\ Only({"noise_er"}, m, RightNoiseRhs(m))
         /\ \A of \in Seq(Candidate) :
              /\ Is(m, "noise_fr", "F_R", of)
              /\ Is(m, "compress", "W", of)
            => Is(RightNoiseRhs(m), "noise_er", "F_R W", of)
<1> DEFINE ins == [noise_fr |-> "F_R", compress |-> "W"]
<1>1. /\ DOMAIN ins = {"noise_fr", "compress"}
      /\ ins["noise_fr"] = "F_R"
      /\ ins["compress"] = "W"
  OBVIOUS
<1> HIDE DEF ins
<1>2. /\ Only({"noise_er"}, m, Write(m, "noise_er", "F_R W", ins))
      /\ \A of \in Seq(Candidate) :
           (\A b \in DOMAIN ins : Is(m, b, ins[b], of))
             => Is(Write(m, "noise_er", "F_R W", ins), "noise_er", "F_R W", of)
  <2>1. "noise_er" \in Buffers /\ "F_R W" \in Products
    BY DEF Buffers, Products
  <2>2. /\ DOMAIN ins \subseteq Buffers /\ DOMAIN ins # {}
        /\ \A b \in DOMAIN ins : ins[b] \in Products
    BY <1>1 DEF Buffers, Products
  <2> QED BY <2>1, <2>2, WriteMakes, Zenon
<1>3. ASSUME NEW of \in Seq(Candidate),
             /\ Is(m, "noise_fr", "F_R", of)
             /\ Is(m, "compress", "W", of)
      PROVE  Is(Write(m, "noise_er", "F_R W", ins), "noise_er", "F_R W", of)
  <2>1. \A b \in DOMAIN ins : Is(m, b, ins[b], of)
    BY <1>1, <1>3
  <2> QED BY <1>2, <2>1
<1> QED BY <1>2, <1>3 DEF RightNoiseRhs, ins

LEMMA FactoredRhsDirectMakes ==
  ASSUME NEW m \in Mem
  PROVE  /\ Only({"matrix_b"}, m, FactoredRhsDirect(m))
         /\ \A of \in Seq(Candidate) :
              /\ Is(m, "base_b", "B", of)
              /\ Is(m, "noise_fl", "F_L", of)
              /\ Is(m, "noise_er", "F_R W", of)
              /\ Is(m, "compress", "W", of)
            => Is(FactoredRhsDirect(m), "matrix_b", "noisy B W", of)
<1> DEFINE ins == [base_b |-> "B", noise_fl |-> "F_L",
                   noise_er |-> "F_R W", compress |-> "W"]
<1>1. /\ DOMAIN ins = {"base_b", "noise_fl", "noise_er", "compress"}
      /\ ins["base_b"] = "B"
      /\ ins["noise_fl"] = "F_L"
      /\ ins["noise_er"] = "F_R W"
      /\ ins["compress"] = "W"
  OBVIOUS
<1> HIDE DEF ins
<1>2. /\ Only({"matrix_b"}, m, Write(m, "matrix_b", "noisy B W", ins))
      /\ \A of \in Seq(Candidate) :
           (\A b \in DOMAIN ins : Is(m, b, ins[b], of))
             => Is(Write(m, "matrix_b", "noisy B W", ins), "matrix_b", "noisy B W", of)
  <2>1. "matrix_b" \in Buffers /\ "noisy B W" \in Products
    BY DEF Buffers, Products
  <2>2. /\ DOMAIN ins \subseteq Buffers /\ DOMAIN ins # {}
        /\ \A b \in DOMAIN ins : ins[b] \in Products
    BY <1>1 DEF Buffers, Products
  <2> QED BY <2>1, <2>2, WriteMakes, Zenon
<1>3. ASSUME NEW of \in Seq(Candidate),
             /\ Is(m, "base_b", "B", of)
             /\ Is(m, "noise_fl", "F_L", of)
             /\ Is(m, "noise_er", "F_R W", of)
             /\ Is(m, "compress", "W", of)
      PROVE  Is(Write(m, "matrix_b", "noisy B W", ins), "matrix_b", "noisy B W", of)
  <2>1. \A b \in DOMAIN ins : Is(m, b, ins[b], of)
    BY <1>1, <1>3
  <2> QED BY <1>2, <2>1
<1> QED BY <1>2, <1>3 DEF FactoredRhsDirect, ins

LEMMA FactoredRhsFusedBMakes ==
  ASSUME NEW m \in Mem
  PROVE  /\ Only({"matrix_b"}, m, FactoredRhsFusedB(m))
         /\ \A of \in Seq(Candidate) :
              /\ Is(m, "seed_b", "seed b", of)
              /\ Is(m, "seed_b_midstate", "midstate b", of)
              /\ Is(m, "noise_fl", "F_L", of)
              /\ Is(m, "noise_er", "F_R W", of)
              /\ Is(m, "compress", "W", of)
            => Is(FactoredRhsFusedB(m), "matrix_b", "noisy B W", of)
<1> DEFINE ins == [seed_b |-> "seed b", seed_b_midstate |-> "midstate b", noise_fl |-> "F_L",
                   noise_er |-> "F_R W", compress |-> "W"]
<1>1. /\ DOMAIN ins = {"seed_b", "seed_b_midstate", "noise_fl", "noise_er", "compress"}
      /\ ins["seed_b"] = "seed b"
      /\ ins["seed_b_midstate"] = "midstate b"
      /\ ins["noise_fl"] = "F_L"
      /\ ins["noise_er"] = "F_R W"
      /\ ins["compress"] = "W"
  OBVIOUS
<1> HIDE DEF ins
<1>2. /\ Only({"matrix_b"}, m, Write(m, "matrix_b", "noisy B W", ins))
      /\ \A of \in Seq(Candidate) :
           (\A b \in DOMAIN ins : Is(m, b, ins[b], of))
             => Is(Write(m, "matrix_b", "noisy B W", ins), "matrix_b", "noisy B W", of)
  <2>1. "matrix_b" \in Buffers /\ "noisy B W" \in Products
    BY DEF Buffers, Products
  <2>2. /\ DOMAIN ins \subseteq Buffers /\ DOMAIN ins # {}
        /\ \A b \in DOMAIN ins : ins[b] \in Products
    BY <1>1 DEF Buffers, Products
  <2> QED BY <2>1, <2>2, WriteMakes, Zenon
<1>3. ASSUME NEW of \in Seq(Candidate),
             /\ Is(m, "seed_b", "seed b", of)
             /\ Is(m, "seed_b_midstate", "midstate b", of)
             /\ Is(m, "noise_fl", "F_L", of)
             /\ Is(m, "noise_er", "F_R W", of)
             /\ Is(m, "compress", "W", of)
      PROVE  Is(Write(m, "matrix_b", "noisy B W", ins), "matrix_b", "noisy B W", of)
  <2>1. \A b \in DOMAIN ins : Is(m, b, ins[b], of)
    BY <1>1, <1>3
  <2> QED BY <1>2, <2>1
<1> QED BY <1>2, <1>3 DEF FactoredRhsFusedB, ins

LEMMA FactoredWordsMakes ==
  ASSUME NEW m \in Mem
  PROVE  /\ Only({"words"}, m, FactoredWords(m))
         /\ \A of \in Seq(Candidate) :
              /\ Is(m, "matrix_a", "noisy A", of)
              /\ Is(m, "matrix_b", "noisy B W", of)
            => Is(FactoredWords(m), "words", "words", of)
<1> DEFINE ins == [matrix_a |-> "noisy A", matrix_b |-> "noisy B W"]
<1>1. /\ DOMAIN ins = {"matrix_a", "matrix_b"}
      /\ ins["matrix_a"] = "noisy A"
      /\ ins["matrix_b"] = "noisy B W"
  OBVIOUS
<1> HIDE DEF ins
<1>2. /\ Only({"words"}, m, Write(m, "words", "words", ins))
      /\ \A of \in Seq(Candidate) :
           (\A b \in DOMAIN ins : Is(m, b, ins[b], of))
             => Is(Write(m, "words", "words", ins), "words", "words", of)
  <2>1. "words" \in Buffers /\ "words" \in Products
    BY DEF Buffers, Products
  <2>2. /\ DOMAIN ins \subseteq Buffers /\ DOMAIN ins # {}
        /\ \A b \in DOMAIN ins : ins[b] \in Products
    BY <1>1 DEF Buffers, Products
  <2> QED BY <2>1, <2>2, WriteMakes, Zenon
<1>3. ASSUME NEW of \in Seq(Candidate),
             /\ Is(m, "matrix_a", "noisy A", of)
             /\ Is(m, "matrix_b", "noisy B W", of)
      PROVE  Is(Write(m, "words", "words", ins), "words", "words", of)
  <2>1. \A b \in DOMAIN ins : Is(m, b, ins[b], of)
    BY <1>1, <1>3
  <2> QED BY <1>2, <2>1
<1> QED BY <1>2, <1>3 DEF FactoredWords, ins

LEMMA ReduceWmmaPartialsMakes ==
  ASSUME NEW m \in Mem
  PROVE  /\ Only({"words"}, m, ReduceWmmaPartials(m))
         /\ \A of \in Seq(Candidate) :
              Is(m, "base_a", "partials", of)
            => Is(ReduceWmmaPartials(m), "words", "words", of)
<1> DEFINE ins == [base_a |-> "partials"]
<1>1. /\ DOMAIN ins = {"base_a"}
      /\ ins["base_a"] = "partials"
  OBVIOUS
<1> HIDE DEF ins
<1>2. /\ Only({"words"}, m, Write(m, "words", "words", ins))
      /\ \A of \in Seq(Candidate) :
           (\A b \in DOMAIN ins : Is(m, b, ins[b], of))
             => Is(Write(m, "words", "words", ins), "words", "words", of)
  <2>1. "words" \in Buffers /\ "words" \in Products
    BY DEF Buffers, Products
  <2>2. /\ DOMAIN ins \subseteq Buffers /\ DOMAIN ins # {}
        /\ \A b \in DOMAIN ins : ins[b] \in Products
    BY <1>1 DEF Buffers, Products
  <2> QED BY <2>1, <2>2, WriteMakes, Zenon
<1>3. ASSUME NEW of \in Seq(Candidate),
             Is(m, "base_a", "partials", of)
      PROVE  Is(Write(m, "words", "words", ins), "words", "words", of)
  <2>1. \A b \in DOMAIN ins : Is(m, b, ins[b], of)
    BY <1>1, <1>3
  <2> QED BY <1>2, <2>1
<1> QED BY <1>2, <1>3 DEF ReduceWmmaPartials, ins

LEMMA HashTranscriptMakes ==
  ASSUME NEW m \in Mem
  PROVE  /\ Only({"digests"}, m, HashTranscript(m))
         /\ table = "loaded" => \A of \in Seq(Candidate) :
              /\ Is(m, "words", "words", of)
              /\ Is(m, "sigma", "sigma", of)
            => Is(HashTranscript(m), "digests", "digest", of)
<1> DEFINE ins == [words |-> "words", sigma |-> "sigma"]
<1>1. /\ DOMAIN ins = {"words", "sigma"}
      /\ ins["words"] = "words"
      /\ ins["sigma"] = "sigma"
  OBVIOUS
<1> HIDE DEF ins
<1>2. /\ Only({"digests"}, m, Sha(table, m, "digests", "digest", ins))
      /\ table = "loaded" => \A of \in Seq(Candidate) :
           (\A b \in DOMAIN ins : Is(m, b, ins[b], of))
             => Is(Sha(table, m, "digests", "digest", ins), "digests", "digest", of)
  <2>1. "digests" \in Buffers /\ "digest" \in Products
    BY DEF Buffers, Products
  <2>2. /\ DOMAIN ins \subseteq Buffers /\ DOMAIN ins # {}
        /\ \A b \in DOMAIN ins : ins[b] \in Products
    BY <1>1 DEF Buffers, Products
  <2> QED BY <2>1, <2>2, ShaMakes, Zenon
<1>3. ASSUME NEW of \in Seq(Candidate), table = "loaded",
             /\ Is(m, "words", "words", of)
             /\ Is(m, "sigma", "sigma", of)
      PROVE  Is(Sha(table, m, "digests", "digest", ins), "digests", "digest", of)
  <2>1. \A b \in DOMAIN ins : Is(m, b, ins[b], of)
    BY <1>1, <1>3
  <2> QED BY <1>2, <1>3, <2>1
<1> QED BY <1>2, <1>3 DEF HashTranscript, ins

-----------------------------------------------------------------------------
(* Blocks of kernels. *)

LEMMA NoiseKernelMakes ==
  ASSUME NEW m \in Mem, NEW out \in Buffers, NEW what \in Products
  PROVE  /\ Only({out}, m, GenerateNoise(m, out, what))
         /\ table = "loaded" => \A of \in Seq(Candidate) :
              Is(m, "noise_seeds", "noise seeds", of)
            => Is(GenerateNoise(m, out, what), out, what, of)
<1> DEFINE ins == [noise_seeds |-> "noise seeds"]
<1>1. DOMAIN ins = {"noise_seeds"} /\ ins["noise_seeds"] = "noise seeds"
  OBVIOUS
<1> HIDE DEF ins
<1>2. /\ Only({out}, m, Sha(table, m, out, what, ins))
      /\ table = "loaded" => \A of \in Seq(Candidate) :
           (\A b \in DOMAIN ins : Is(m, b, ins[b], of)) => Is(Sha(table, m, out, what, ins), out, what, of)
  <2>1. /\ DOMAIN ins \subseteq Buffers /\ DOMAIN ins # {}
        /\ \A b \in DOMAIN ins : ins[b] \in Products
    BY <1>1 DEF Buffers, Products
  <2> QED BY <2>1, ShaMakes, Zenon
<1>3. ASSUME NEW of \in Seq(Candidate), table = "loaded", Is(m, "noise_seeds", "noise seeds", of)
      PROVE  Is(Sha(table, m, out, what, ins), out, what, of)
  <2>1. \A b \in DOMAIN ins : Is(m, b, ins[b], of)
    BY <1>1, <1>3
  <2> QED BY <1>2, <1>3, <2>1
<1> QED BY <1>2, <1>3 DEF GenerateNoise, ins

LEMMA PrepareAMakes ==
  ASSUME NEW k, NEW m \in Mem
  PROVE  /\ Only({"seed_a_midstate", "base_a"}, m, PrepareA(k, m))
         /\ MatrixTable(k) = "loaded" => \A of \in Seq(Candidate) : Is(m, "seed_a", "seed a", of) =>
              IF Midstates THEN Is(PrepareA(k, m), "seed_a_midstate", "midstate a", of)
                           ELSE Is(PrepareA(k, m), "base_a", "A", of)
<1>1. CASE Midstates
  BY <1>1, ComputeSeedMidstatesAMakes DEF PrepareA, Only
<1>2. CASE ~Midstates
  BY <1>2, GenerateMatrixAMakes DEF PrepareA, Only
<1> QED BY <1>1, <1>2

LEMMA PrepareBMakes ==
  ASSUME NEW k, NEW m \in Mem
  PROVE  /\ Only({"seed_b_midstate", "base_b"}, m, PrepareB(k, m))
         /\ MatrixTable(k) = "loaded" => \A of \in Seq(Candidate) : Is(m, "seed_b", "seed b", of) =>
              IF FusedB THEN Midstates => Is(PrepareB(k, m), "seed_b_midstate", "midstate b", of)
                        ELSE Is(PrepareB(k, m), "base_b", "B", of)
<1>1. CASE FusedB /\ Midstates
  BY <1>1, ComputeSeedMidstatesBMakes DEF PrepareB, Only
<1>2. CASE FusedB /\ ~Midstates
  BY <1>2 DEF PrepareB, Only
<1>3. CASE ~FusedB
  BY <1>3, GenerateMatrixBMakes DEF PrepareB, Only
<1> QED BY <1>1, <1>2, <1>3

\* The buffers of the first blocks.
MatrixOuts == {"seed_a_midstate", "seed_b_midstate", "base_a", "base_b"}

LEMMA MatrixBlockMakes ==
  ASSUME NEW k, NEW m \in Mem
  PROVE  /\ Only(MatrixOuts, m, PrepareB(k, PrepareA(k, m)))
         /\ MatrixTable(k) = "loaded" => \A of \in Seq(Candidate) :
              SeedsIn(m, of) => PreparedIn(PrepareB(k, PrepareA(k, m)), of)
<1> DEFINE m1 == PrepareA(k, m)
           m2 == PrepareB(k, m1)
<1>1. /\ Only({"seed_a_midstate", "base_a"}, m, m1)
      /\ MatrixTable(k) = "loaded" => \A of \in Seq(Candidate) : Is(m, "seed_a", "seed a", of) =>
           IF Midstates THEN Is(m1, "seed_a_midstate", "midstate a", of)
                        ELSE Is(m1, "base_a", "A", of)
  BY PrepareAMakes
<1>2. m1 \in Mem
  BY <1>1 DEF Only
<1> HIDE DEF m1
<1>3. /\ Only({"seed_b_midstate", "base_b"}, m1, m2)
      /\ MatrixTable(k) = "loaded" => \A of \in Seq(Candidate) : Is(m1, "seed_b", "seed b", of) =>
           IF FusedB THEN Midstates => Is(m2, "seed_b_midstate", "midstate b", of)
                     ELSE Is(m2, "base_b", "B", of)
  BY <1>2, PrepareBMakes
<1> HIDE DEF m2
<1>4. Only(MatrixOuts, m, m2)
  BY <1>1, <1>3 DEF Only, MatrixOuts
<1>5. ASSUME NEW of \in Seq(Candidate), MatrixTable(k) = "loaded", SeedsIn(m, of)
      PROVE  PreparedIn(m2, of)
  <2>1. Is(m1, "seed_b", "seed b", of)
    BY <1>1, <1>5 DEF SeedsIn, Only, Is, Buffers
  <2>2. m2["seed_a_midstate"] = m1["seed_a_midstate"] /\ m2["base_a"] = m1["base_a"]
    BY <1>3 DEF Only, Buffers
  <2> QED BY <1>1, <1>3, <1>5, <2>1, <2>2 DEF PreparedIn, SeedsIn, Is
<1> QED BY <1>4, <1>5 DEF m1, m2

LEMMA SeedBlockMakes ==
  ASSUME NEW k, NEW m \in Mem
  PROVE  /\ Only({"noise_seeds", "compress_seeds"}, m, DeriveNoiseSeeds(k, m))
         /\ k = "loaded" => \A of \in Seq(Candidate) :
              Is(m, "sigma", "sigma", of) => NoiseSeedsIn(DeriveNoiseSeeds(k, m), of)
<1> DEFINE ins == [sigma |-> "sigma"]
           m1 == Sha(k, m, "noise_seeds", "noise seeds", ins)
           m2 == Sha(k, m1, "compress_seeds", "compress seed", ins)
<1>1. DOMAIN ins = {"sigma"} /\ ins["sigma"] = "sigma"
  OBVIOUS
<1> HIDE DEF ins
<1>2. /\ Only({"noise_seeds"}, m, m1)
      /\ k = "loaded" => \A of \in Seq(Candidate) :
           (\A b \in DOMAIN ins : Is(m, b, ins[b], of)) => Is(m1, "noise_seeds", "noise seeds", of)
  <2>1. "noise_seeds" \in Buffers /\ "noise seeds" \in Products
    BY DEF Buffers, Products
  <2>2. /\ DOMAIN ins \subseteq Buffers /\ DOMAIN ins # {}
        /\ \A b \in DOMAIN ins : ins[b] \in Products
    BY <1>1 DEF Buffers, Products
  <2> QED BY <2>1, <2>2, ShaMakes, Zenon
<1>3. m1 \in Mem
  BY <1>2 DEF Only
<1> HIDE DEF m1
<1>4. /\ Only({"compress_seeds"}, m1, m2)
      /\ k = "loaded" => \A of \in Seq(Candidate) :
           (\A b \in DOMAIN ins : Is(m1, b, ins[b], of)) => Is(m2, "compress_seeds", "compress seed", of)
  <2>1. "compress_seeds" \in Buffers /\ "compress seed" \in Products
    BY DEF Buffers, Products
  <2>2. /\ DOMAIN ins \subseteq Buffers /\ DOMAIN ins # {}
        /\ \A b \in DOMAIN ins : ins[b] \in Products
    BY <1>1 DEF Buffers, Products
  <2> QED BY <1>3, <2>1, <2>2, ShaMakes, Zenon
<1> HIDE DEF m2
<1>5. Only({"noise_seeds", "compress_seeds"}, m, m2)
  BY <1>2, <1>4 DEF Only
<1>6. ASSUME NEW of \in Seq(Candidate), k = "loaded", Is(m, "sigma", "sigma", of)
      PROVE  NoiseSeedsIn(m2, of)
  <2>1. \A b \in DOMAIN ins : Is(m, b, ins[b], of)
    BY <1>1, <1>6
  <2>2. \A b \in DOMAIN ins : Is(m1, b, ins[b], of)
    BY <1>1, <1>2, <1>6 DEF Only, Is, Buffers
  <2>3. m2["noise_seeds"] = m1["noise_seeds"]
    BY <1>4 DEF Only, Buffers
  <2> QED BY <1>2, <1>4, <1>6, <2>1, <2>2, <2>3 DEF NoiseSeedsIn, Is
<1>7. m2 = DeriveNoiseSeeds(k, m)
  BY DEF m1, m2, ins, DeriveNoiseSeeds
<1> QED BY <1>5, <1>6, <1>7

NoiseOuts == {"noise_el", "noise_er", "noise_fl", "noise_fr"}
AllNoise(m) ==
  GenerateNoise(GenerateNoise(GenerateNoise(GenerateNoise(m,
    "noise_el", "E_L"), "noise_er", "E_R"), "noise_fl", "F_L"), "noise_fr", "F_R")

LEMMA NoiseBlockMakes ==
  ASSUME NEW m \in Mem
  PROVE  /\ Only(NoiseOuts, m, AllNoise(m))
         /\ table = "loaded" => \A of \in Seq(Candidate) : NoiseSeedsIn(m, of) => NoiseIn(AllNoise(m), of)
<1> DEFINE m1 == GenerateNoise(m, "noise_el", "E_L")
           m2 == GenerateNoise(m1, "noise_er", "E_R")
           m3 == GenerateNoise(m2, "noise_fl", "F_L")
           m4 == GenerateNoise(m3, "noise_fr", "F_R")
<1> DEFINE Noise(b, what, a, z) ==
             /\ Only({b}, a, z)
             /\ table = "loaded" => \A of \in Seq(Candidate) :
                  Is(a, "noise_seeds", "noise seeds", of) => Is(z, b, what, of)
<1>1. Noise("noise_el", "E_L", m, m1)
  BY NoiseKernelMakes DEF Buffers, Products
<1>2. m1 \in Mem
  BY <1>1 DEF Only
<1> HIDE DEF m1
<1>3. Noise("noise_er", "E_R", m1, m2)
  BY <1>2, NoiseKernelMakes DEF Buffers, Products
<1>4. m2 \in Mem
  BY <1>3 DEF Only
<1> HIDE DEF m2
<1>5. Noise("noise_fl", "F_L", m2, m3)
  BY <1>4, NoiseKernelMakes DEF Buffers, Products
<1>6. m3 \in Mem
  BY <1>5 DEF Only
<1> HIDE DEF m3
<1>7. Noise("noise_fr", "F_R", m3, m4)
  BY <1>6, NoiseKernelMakes DEF Buffers, Products
<1> HIDE DEF m4
<1>8. Only(NoiseOuts, m, m4)
  BY <1>1, <1>3, <1>5, <1>7 DEF Only, NoiseOuts
<1>9. ASSUME NEW of \in Seq(Candidate), table = "loaded", NoiseSeedsIn(m, of)
      PROVE  NoiseIn(m4, of)
  <2>1. /\ m1["noise_seeds"] = m["noise_seeds"]
        /\ m2["noise_seeds"] = m["noise_seeds"]
        /\ m3["noise_seeds"] = m["noise_seeds"]
    BY <1>1, <1>3, <1>5 DEF Only, Buffers
  <2>2. /\ Is(m, "noise_seeds", "noise seeds", of) /\ Is(m1, "noise_seeds", "noise seeds", of)
        /\ Is(m2, "noise_seeds", "noise seeds", of) /\ Is(m3, "noise_seeds", "noise seeds", of)
    BY <1>9, <2>1 DEF NoiseSeedsIn, Is
  <2>3. /\ Is(m1, "noise_el", "E_L", of) /\ Is(m2, "noise_er", "E_R", of)
        /\ Is(m3, "noise_fl", "F_L", of) /\ Is(m4, "noise_fr", "F_R", of)
    BY <1>9, <2>2, <1>1, <1>3, <1>5, <1>7
  <2>4. /\ m4["noise_el"] = m1["noise_el"] /\ m4["noise_er"] = m2["noise_er"]
        /\ m4["noise_fl"] = m3["noise_fl"]
    BY <1>3, <1>5, <1>7 DEF Only, Buffers
  <2> QED BY <2>3, <2>4 DEF NoiseIn, Is
<1>10. m4 = AllNoise(m)
  BY DEF m1, m2, m3, m4, AllNoise
<1> QED BY <1>8, <1>9, <1>10

\* The inputs of the blocks before the words.
FactorsFrom(m, of) ==
  SeedsIn(m, of) /\ PreparedIn(m, of) /\ NoiseIn(m, of) /\ Is(m, "compress", "W", of)

LEMMA LeftMakes ==
  ASSUME NEW m \in Mem
  PROVE  /\ Only({"base_a", "matrix_a"}, m, LeftSide(m))
         /\ \A of \in Seq(Candidate) :
              FactorsFrom(m, of) => Is(LeftSide(m), "matrix_a", "noisy A", of)
<1>1. CASE FusedA
  <2>1. Midstates
    BY <1>1 DEF Midstates, FusedA
  <2> QED BY <1>1, <2>1, GeneratePerturbAMakes
          DEF LeftSide, Only, FactorsFrom, SeedsIn, PreparedIn, NoiseIn
<1>2. CASE ~FusedA /\ Midstates
  <2> DEFINE m1 == GenerateMatrixFromMidstate(m)
  <2>1. /\ Only({"base_a"}, m, m1)
        /\ \A of \in Seq(Candidate) : FactorsFrom(m, of) => Is(m1, "base_a", "A", of)
    BY <1>2, GenerateMatrixFromMidstateMakes DEF FactorsFrom, SeedsIn, PreparedIn
  <2>2. m1 \in Mem /\ m1["noise_el"] = m["noise_el"] /\ m1["noise_er"] = m["noise_er"]
    BY <2>1 DEF Only, Buffers
  <2>3. LeftSide(m) = PerturbA(m1)
    BY <1>2 DEF LeftSide
  <2> HIDE DEF m1
  <2>4. Only({"base_a", "matrix_a"}, m, PerturbA(m1))
    BY <2>1, <2>2, PerturbAMakes DEF Only
  <2>5. ASSUME NEW of \in Seq(Candidate), FactorsFrom(m, of)
        PROVE  Is(PerturbA(m1), "matrix_a", "noisy A", of)
    <3>1. /\ Is(m1, "base_a", "A", of) /\ Is(m1, "noise_el", "E_L", of)
          /\ Is(m1, "noise_er", "E_R", of)
      BY <2>1, <2>2, <2>5 DEF FactorsFrom, NoiseIn, Is
    <3> QED BY <3>1, <2>2, PerturbAMakes
  <2> QED BY <2>3, <2>4, <2>5
<1>3. CASE ~FusedA /\ ~Midstates
  BY <1>3, PerturbAMakes DEF LeftSide, Only, FactorsFrom, PreparedIn, NoiseIn
<1> QED BY <1>1, <1>2, <1>3

LEMMA RightMakes ==
  ASSUME NEW m \in Mem
  PROVE  /\ Only({"noise_er", "matrix_b"}, m, RightSide(m))
         /\ \A of \in Seq(Candidate) :
              /\ FusedB => Midstates
              /\ SeedsIn(m, of) /\ NoiseIn(m, of) /\ Is(m, "compress", "W", of)
              /\ IF FusedB THEN Is(m, "seed_b_midstate", "midstate b", of)
                           ELSE Is(m, "base_b", "B", of)
            => Is(RightSide(m), "matrix_b", "noisy B W", of)
<1> DEFINE m1 == RightNoiseRhs(m)
<1>1. /\ Only({"noise_er"}, m, m1)
      /\ \A of \in Seq(Candidate) :
           NoiseIn(m, of) /\ Is(m, "compress", "W", of) => Is(m1, "noise_er", "F_R W", of)
  BY RightNoiseRhsMakes DEF NoiseIn
<1>2. /\ m1 \in Mem
      /\ \A b \in {"seed_b", "seed_b_midstate", "noise_fl", "compress", "base_b"} : m1[b] = m[b]
  BY <1>1 DEF Only, Buffers
<1>3. RightSide(m) = IF FusedB THEN FactoredRhsFusedB(m1) ELSE FactoredRhsDirect(m1)
  BY DEF RightSide
<1> HIDE DEF m1
<1>4. Only({"noise_er", "matrix_b"}, m, RightSide(m))
  <2>1. Only({"matrix_b"}, m1, RightSide(m))
    <3>1. CASE FusedB BY <3>1, <1>2, <1>3, FactoredRhsFusedBMakes
    <3>2. CASE ~FusedB BY <3>2, <1>2, <1>3, FactoredRhsDirectMakes
    <3> QED BY <3>1, <3>2
  <2> QED BY <1>1, <2>1 DEF Only
<1>5. ASSUME NEW of \in Seq(Candidate),
             SeedsIn(m, of), NoiseIn(m, of), Is(m, "compress", "W", of),
             IF FusedB THEN Is(m, "seed_b_midstate", "midstate b", of)
                       ELSE Is(m, "base_b", "B", of)
      PROVE  Is(RightSide(m), "matrix_b", "noisy B W", of)
  <2>1. /\ Is(m1, "noise_er", "F_R W", of) /\ Is(m1, "noise_fl", "F_L", of)
        /\ Is(m1, "compress", "W", of) /\ Is(m1, "seed_b", "seed b", of)
    BY <1>1, <1>2, <1>5 DEF SeedsIn, NoiseIn, Is
  <2>2. CASE FusedB
    <3>1. Is(m1, "seed_b_midstate", "midstate b", of)
      BY <1>2, <1>5, <2>2 DEF Is
    <3> QED BY <1>2, <1>3, <2>1, <2>2, <3>1, FactoredRhsFusedBMakes
  <2>3. CASE ~FusedB
    <3>1. Is(m1, "base_b", "B", of)
      BY <1>2, <1>5, <2>3 DEF Is
    <3> QED BY <1>2, <1>3, <2>1, <2>3, <3>1, FactoredRhsDirectMakes
  <2> QED BY <2>2, <2>3
<1> QED BY <1>4, <1>5

RhsOuts == {"base_a", "matrix_a", "noise_er", "matrix_b"}
RhsMem(m) == IF Fast THEN RightSide(LeftSide(m)) ELSE Truncated(PerturbB(PerturbA(m)))

LEMMA TruncatedMakes ==
  ASSUME NEW m \in Mem
  PROVE  /\ Only({"matrix_a", "matrix_b"}, m, Truncated(m))
         /\ ~(shape.r > 8) => Truncated(m) = m
BY DEF Truncated, Only, Mem, Buffers

LEMMA FastRhsMakes ==
  ASSUME NEW m \in Mem, Fast
  PROVE  /\ Only(RhsOuts, m, RhsMem(m))
         /\ \A of \in Seq(Candidate) :
              Covered /\ FactorsFrom(m, of) => FactorsIn(RhsMem(m), of)
<1> DEFINE m1 == LeftSide(m)
<1>1. /\ Only({"base_a", "matrix_a"}, m, m1)
      /\ \A of \in Seq(Candidate) : FactorsFrom(m, of) => Is(m1, "matrix_a", "noisy A", of)
  BY LeftMakes
<1>2. /\ m1 \in Mem
      /\ \A b \in {"seed_a", "seed_b", "seed_b_midstate", "noise_el", "noise_er", "noise_fl",
                   "noise_fr", "compress", "base_b"} : m1[b] = m[b]
  BY <1>1 DEF Only, Buffers
<1>3. RhsMem(m) = RightSide(m1)
  BY DEF RhsMem
<1> HIDE DEF m1
<1>4. Only({"noise_er", "matrix_b"}, m1, RightSide(m1))
  BY <1>2, RightMakes
<1>5. Only(RhsOuts, m, RightSide(m1))
  BY <1>1, <1>4 DEF Only, RhsOuts
<1>6. ASSUME NEW of \in Seq(Candidate), Covered, FactorsFrom(m, of)
      PROVE  FactorsIn(RightSide(m1), of)
  <2>1. FusedB => Midstates
    BY <1>6 DEF Covered
  <2>2. /\ SeedsIn(m1, of) /\ NoiseIn(m1, of) /\ Is(m1, "compress", "W", of)
        /\ IF FusedB THEN Is(m1, "seed_b_midstate", "midstate b", of)
                     ELSE Is(m1, "base_b", "B", of)
    BY <1>2, <1>6, <2>1 DEF FactorsFrom, SeedsIn, NoiseIn, PreparedIn, Is
  <2>3. Is(RightSide(m1), "matrix_b", "noisy B W", of)
    BY <1>2, <2>1, <2>2, RightMakes
  <2>4. Is(RightSide(m1), "matrix_a", "noisy A", of)
    BY <1>1, <1>4, <1>6 DEF Only, Is, Buffers
  <2> QED BY <2>3, <2>4 DEF FactorsIn
<1> QED BY <1>3, <1>5, <1>6

LEMMA GenericRhsMakes ==
  ASSUME NEW m \in Mem, ~Fast, shape \in Shapes
  PROVE  /\ Only(RhsOuts, m, RhsMem(m))
         /\ \A of \in Seq(Candidate) :
              Covered /\ FactorsFrom(m, of) => FactorsIn(RhsMem(m), of)
<1> DEFINE m1 == PerturbA(m)
           m2 == PerturbB(m1)
<1>1. /\ Only({"matrix_a"}, m, m1)
      /\ \A of \in Seq(Candidate) :
           /\ Is(m, "base_a", "A", of) /\ Is(m, "noise_el", "E_L", of)
           /\ Is(m, "noise_er", "E_R", of)
         => Is(m1, "matrix_a", "noisy A", of)
  BY PerturbAMakes
<1>2. /\ m1 \in Mem
      /\ \A b \in {"noise_fl", "noise_fr", "compress", "base_b"} : m1[b] = m[b]
  BY <1>1 DEF Only, Buffers
<1> HIDE DEF m1
<1>3. /\ Only({"matrix_b"}, m1, m2)
      /\ \A of \in Seq(Candidate) :
           /\ Is(m1, "base_b", "B", of) /\ Is(m1, "noise_fl", "F_L", of)
           /\ Is(m1, "noise_fr", "F_R", of)
         => Is(m2, "matrix_b", "noisy B", of)
  BY <1>2, PerturbBMakes
<1>4. /\ m2 \in Mem
      /\ m2["matrix_a"] = m1["matrix_a"] /\ m2["compress"] = m1["compress"]
  BY <1>3 DEF Only, Buffers
<1> HIDE DEF m2
<1>5. /\ Only({"matrix_a", "matrix_b"}, m2, Truncated(m2))
      /\ ~(shape.r > 8) => Truncated(m2) = m2
  BY <1>4, TruncatedMakes
<1>6. Only(RhsOuts, m, Truncated(m2))
  BY <1>1, <1>3, <1>5 DEF Only, RhsOuts
<1>7. ASSUME NEW of \in Seq(Candidate), Covered, FactorsFrom(m, of),
             Truncated(m2) = m2
      PROVE  FactorsIn(Truncated(m2), of)
  <2>1. ~Midstates /\ ~FusedB
    BY DEF Midstates, FusedB, FusedA
  <2>2. Is(m1, "matrix_a", "noisy A", of)
    BY <1>1, <1>7, <2>1 DEF FactorsFrom, PreparedIn, NoiseIn
  <2>3. Is(m2, "matrix_b", "noisy B", of)
    BY <1>2, <1>3, <1>7, <2>1 DEF FactorsFrom, PreparedIn, NoiseIn, Is
  <2>4. Is(m2, "compress", "W", of)
    BY <1>2, <1>4, <1>7 DEF FactorsFrom, Is
  <2> QED BY <1>4, <1>7, <2>2, <2>3, <2>4 DEF FactorsIn, Is
<1>8. Covered => ~(shape.r > 8)
  <2>1. shape.r \in Nat
    BY LaunchAssumption
  <2> QED BY <2>1 DEF Covered
<1>9. RhsMem(m) = Truncated(m2)
  BY DEF RhsMem, m1, m2
<1> QED BY <1>5, <1>6, <1>7, <1>8, <1>9

WordsMem(m) == IF Wmma THEN ReduceWmmaPartials(WmmaPartials(m))
               ELSE IF Fast THEN FactoredWords(m) ELSE CompressedWords(m)

LEMMA WmmaMakes ==
  ASSUME NEW m \in Mem, Wmma
  PROVE  /\ Only({"base_a", "words"}, m, WordsMem(m))
         /\ \A of \in Seq(Candidate) :
              Covered /\ FactorsIn(m, of) => Is(WordsMem(m), "words", "words", of)
<1> DEFINE ins == [matrix_a |-> "noisy A", matrix_b |-> "noisy B W"]
           m1 == WmmaPartials(m)
<1>1. /\ DOMAIN ins = {"matrix_a", "matrix_b"}
      /\ ins["matrix_a"] = "noisy A" /\ ins["matrix_b"] = "noisy B W"
  OBVIOUS
<1> HIDE DEF ins
<1>2. /\ Only({"base_a"}, m, Write(m, "base_a", "partials", ins))
      /\ \A of \in Seq(Candidate) :
           (\A b \in DOMAIN ins : Is(m, b, ins[b], of))
             => Is(Write(m, "base_a", "partials", ins), "base_a", "partials", of)
  <2>1. "base_a" \in Buffers /\ "partials" \in Products
    BY DEF Buffers, Products
  <2>2. /\ DOMAIN ins \subseteq Buffers /\ DOMAIN ins # {}
        /\ \A b \in DOMAIN ins : ins[b] \in Products
    BY <1>1 DEF Buffers, Products
  <2> QED BY <2>1, <2>2, WriteMakes, Zenon
<1>3. m1 = IF Device # "gfx11" THEN m ELSE Write(m, "base_a", "partials", ins)
  BY DEF m1, WmmaPartials, ins
<1> HIDE DEF m1
<1>4. Only({"base_a"}, m, m1)
  BY <1>2, <1>3 DEF Only
<1>5. WordsMem(m) = ReduceWmmaPartials(m1)
  BY DEF WordsMem, m1
<1>6. Only({"base_a", "words"}, m, WordsMem(m))
  BY <1>4, <1>5, ReduceWmmaPartialsMakes DEF Only
<1>7. ASSUME NEW of \in Seq(Candidate), Covered, FactorsIn(m, of)
      PROVE  Is(WordsMem(m), "words", "words", of)
  <2>1. Device = "gfx11" /\ Fast
    BY <1>7 DEF Covered, Wmma
  <2>2. \A b \in DOMAIN ins : Is(m, b, ins[b], of)
    BY <1>1, <1>7, <2>1 DEF FactorsIn
  <2>3. Is(m1, "base_a", "partials", of) /\ m1 \in Mem
    BY <1>2, <1>3, <2>1, <2>2 DEF Only
  <2> QED BY <2>3, <1>5, ReduceWmmaPartialsMakes
<1> QED BY <1>6, <1>7

LEMMA CompressedMakes ==
  ASSUME NEW m \in Mem
  PROVE  /\ Only({"words"}, m, CompressedWords(m))
         /\ \A of \in Seq(Candidate) :
              /\ ~(shape.b > 16)
              /\ Is(m, "matrix_a", "noisy A", of) /\ Is(m, "matrix_b", "noisy B", of)
              /\ Is(m, "compress", "W", of)
            => Is(CompressedWords(m), "words", "words", of)
<1> DEFINE ins == [matrix_a |-> "noisy A", matrix_b |-> "noisy B", compress |-> "W"]
<1>1. /\ DOMAIN ins = {"matrix_a", "matrix_b", "compress"}
      /\ ins["matrix_a"] = "noisy A" /\ ins["matrix_b"] = "noisy B" /\ ins["compress"] = "W"
  OBVIOUS
<1> HIDE DEF ins
<1>2. /\ Only({"words"}, m, Write(m, "words", "words", ins))
      /\ \A of \in Seq(Candidate) :
           (\A b \in DOMAIN ins : Is(m, b, ins[b], of))
             => Is(Write(m, "words", "words", ins), "words", "words", of)
  <2>1. "words" \in Buffers /\ "words" \in Products
    BY DEF Buffers, Products
  <2>2. /\ DOMAIN ins \subseteq Buffers /\ DOMAIN ins # {}
        /\ \A b \in DOMAIN ins : ins[b] \in Products
    BY <1>1 DEF Buffers, Products
  <2> QED BY <2>1, <2>2, WriteMakes, Zenon
<1>3. CompressedWords(m) = IF shape.b > 16 THEN [m EXCEPT !["words"] = Garbage]
                           ELSE Write(m, "words", "words", ins)
  BY DEF CompressedWords, ins
<1>4. Only({"words"}, m, [m EXCEPT !["words"] = Garbage])
  BY DEF Only, Mem, Buffers
<1>5. Only({"words"}, m, CompressedWords(m))
  BY <1>2, <1>3, <1>4
<1>6. ASSUME NEW of \in Seq(Candidate), ~(shape.b > 16),
             Is(m, "matrix_a", "noisy A", of), Is(m, "matrix_b", "noisy B", of),
             Is(m, "compress", "W", of)
      PROVE  Is(CompressedWords(m), "words", "words", of)
  <2>1. \A b \in DOMAIN ins : Is(m, b, ins[b], of)
    BY <1>1, <1>6
  <2> QED BY <1>2, <1>3, <1>6, <2>1
<1> QED BY <1>5, <1>6

LEMMA RhsBlockMakes ==
  ASSUME NEW m \in Mem, shape \in Shapes
  PROVE  /\ Only(RhsOuts, m, RhsMem(m))
         /\ \A of \in Seq(Candidate) :
              Covered /\ FactorsFrom(m, of) => FactorsIn(RhsMem(m), of)
<1>1. CASE Fast BY <1>1, FastRhsMakes
<1>2. CASE ~Fast BY <1>2, GenericRhsMakes
<1> QED BY <1>1, <1>2

LEMMA WordsBlockMakes ==
  ASSUME NEW m \in Mem, shape \in Shapes
  PROVE  /\ Only({"base_a", "words"}, m, WordsMem(m))
         /\ \A of \in Seq(Candidate) :
              Covered /\ FactorsIn(m, of) => Is(WordsMem(m), "words", "words", of)
<1>1. CASE Wmma BY <1>1, WmmaMakes
<1>2. CASE ~Wmma /\ Fast
  BY <1>2, FactoredWordsMakes DEF WordsMem, FactorsIn, Only
<1>3. CASE ~Wmma /\ ~Fast
  <2>1. Covered => ~(shape.b > 16)
    <3>1. shape.b \in Nat
      BY LaunchAssumption
    <3> QED BY <3>1 DEF Covered
  <2>2. WordsMem(m) = CompressedWords(m)
    BY <1>3 DEF WordsMem
  <2>3. Only({"base_a", "words"}, m, CompressedWords(m))
    BY CompressedMakes DEF Only
  <2>4. ASSUME NEW of \in Seq(Candidate), Covered, FactorsIn(m, of)
        PROVE  Is(CompressedWords(m), "words", "words", of)
    <3>1. /\ Is(m, "matrix_a", "noisy A", of) /\ Is(m, "matrix_b", "noisy B", of)
          /\ Is(m, "compress", "W", of)
      BY <1>3, <2>4 DEF FactorsIn
    <3> QED BY <2>1, <2>4, <3>1, CompressedMakes
  <2> QED BY <2>2, <2>3, <2>4
<1> QED BY <1>1, <1>2, <1>3

\* The verdicts are those of candidates of the job whose targets the pool has.
LEMMA HashBlockMakes ==
  ASSUME NEW m \in Mem
  PROVE  /\ Only({"digests", "results"}, m, CompareDigests(HashTranscript(m)))
         /\ table = "loaded" => \A of \in Seq(Candidate) :
              /\ Is(m, "words", "words", of) /\ Is(m, "sigma", "sigma", of)
              /\ \A i \in DOMAIN of : of[i].job = pool.targets
            => Is(CompareDigests(HashTranscript(m)), "results", "verdict", of)
<1> DEFINE m1 == HashTranscript(m)
           d == m1["digests"]
           result == IF d # Garbage /\ \A i \in DOMAIN d.of : d.of[i].job = pool.targets
                     THEN [what |-> "verdict", of |-> d.of] ELSE Garbage
           m2 == [m1 EXCEPT !["results"] = result]
<1>1. /\ Only({"digests"}, m, m1)
      /\ table = "loaded" => \A of \in Seq(Candidate) :
           Is(m, "words", "words", of) /\ Is(m, "sigma", "sigma", of)
             => Is(m1, "digests", "digest", of)
  BY HashTranscriptMakes
<1>2. m1 \in Mem
  BY <1>1 DEF Only
<1>3. CompareDigests(HashTranscript(m)) = m2
  BY DEF CompareDigests
<1> HIDE DEF m1
<1>4. d \in Content \cup {Garbage}
  BY <1>2 DEF Mem, Buffers
<1>5. result \in Content \cup {Garbage}
  BY <1>4 DEF Content, Products
<1>6. Only({"results"}, m1, m2)
  <2> HIDE DEF result
  <2> QED BY <1>2, <1>5 DEF Only, Mem
<1>7. Only({"digests", "results"}, m, m2)
  <2> HIDE DEF m2
  <2> QED BY <1>1, <1>6 DEF Only
<1>8. ASSUME NEW of \in Seq(Candidate), table = "loaded", Is(m, "words", "words", of), Is(m, "sigma", "sigma", of),
             \A i \in DOMAIN of : of[i].job = pool.targets
      PROVE  Is(m2, "results", "verdict", of)
  <2>1. d = [what |-> "digest", of |-> of]
    BY <1>1, <1>8 DEF Is
  <2>2. [what |-> "digest", of |-> of] \in Content /\ [what |-> "digest", of |-> of].of = of
    BY DEF Content, Products
  <2>3. d # Garbage /\ d.of = of
    BY <2>1, <2>2, GarbageAssumption
  <2> HIDE DEF d
  <2>4. result = [what |-> "verdict", of |-> of]
    BY <2>3, <1>8
  <2> HIDE DEF result
  <2> QED BY <2>4, <1>2 DEF Is, Mem, Buffers
<1> QED BY <1>3, <1>7, <1>8

-----------------------------------------------------------------------------
(* The gate and the pools are kept in order. *)

LEMMA ProductNat ==
  ASSUME NEW a \in Nat, NEW b \in Nat
  PROVE  a * b \in Nat
OBVIOUS

LEMMA QuotientNat ==
  ASSUME NEW a \in Nat, NEW b \in Nat \ {0}
  PROVE  a \div b \in Nat
OBVIOUS

LEMMA WorkspaceType ==
  ASSUME NEW s \in Shapes
  PROVE  Workspace(s) \in Nat
<1> DEFINE q == s.n \div s.b
           nn == s.n * s.n
           nr == s.n * s.r
           bb == s.b * s.b
           bn == s.b * s.n
           big == bn * q
<1>1. s.n \in Nat /\ s.b \in Nat \ {0} /\ s.r \in Nat
  BY LaunchAssumption
<1>2. q \in Nat
  BY <1>1, QuotientNat
<1>3. nn \in Nat /\ nr \in Nat /\ bb \in Nat /\ bn \in Nat
  BY <1>1, ProductNat
<1>4. big \in Nat
  <2> HIDE DEF bn, q
  <2> QED BY <1>2, <1>3, ProductNat
<1>5. \E factored \in BOOLEAN :
        Workspace(s) = 3 * s.n * s.n + 4 * s.n * s.r + bb + (IF factored THEN big ELSE 5 * bb)
  BY DEF Workspace
<1>6. 3 * s.n * s.n = 3 * nn /\ 4 * s.n * s.r = 4 * nr
  BY <1>1
<1> HIDE DEF q, nn, nr, bb, bn, big
<1> QED BY <1>3, <1>4, <1>5, <1>6

LEMMA TodoSmall ==
  ASSUME first \in Nat, count \in Nat
  PROVE  /\ IsFiniteSet(Todo) /\ Cardinality(Todo) \in Nat
         /\ Cardinality(Todo) <= count
<1> DEFINE range == first..(first + count - 1)
<1>1. IsFiniteSet(range) /\ Cardinality(range) = count
  BY FS_Interval
<1>2. Todo \in SUBSET range
  BY DEF Todo
<1> HIDE DEF range
<1> QED BY <1>1, <1>2, FS_Subset, FS_CardinalityType

LEMMA GateInit == Init => GateInv
<1> SUFFICES ASSUME Init PROVE GateInv
  OBVIOUS
<1>1. FixedInv
  <2>1. shapeOf \in [Jobs -> Shapes] /\ (~Mixed => \A i, j \in Jobs : shapeOf[i] = shapeOf[j])
    <3>1. CASE Mixed BY <3>1 DEF Init
    <3>2. CASE ~Mixed BY <3>2 DEF Init
    <3> QED BY <3>1, <3>2
  <2>2. env \subseteq Switches
    BY Zenon DEF Init
  <2> QED BY <2>1, <2>2 DEF Init, FixedInv
<1>2. RequestInv
  BY LaunchAssumption, EmptySeq DEF Init, RequestInv, PCs, Tables
<1>3. ScanInv
  <2>1. <<>> \in Seq(Slot) /\ Len(<<>>) = 0
    BY EmptySeq
  <2> QED BY <2>1 DEF Init, ScanInv, NoScan, Scan
<1>4. PassedInv
  BY EmptySeq DEF Init, PassedInv, PassedPCs, ChainPCs
<1>5. PoolInv
  BY DEF Init, PoolInv, NoPool, Pool, Mem, ChainPCs
<1> QED BY <1>1, <1>2, <1>3, <1>4, <1>5 DEF GateInv

LEMMA ShapeType ==
  ASSUME FixedInv, RequestInv
  PROVE  shape \in Shapes
BY DEF FixedInv, RequestInv, shape

LEMMA FixedStep ==
  ASSUME FixedInv, UNCHANGED fixed
  PROVE  FixedInv'
BY DEF FixedInv, fixed

LEMMA LaunchKeeps ==
  ASSUME GateInv, Launch
  PROVE  GateInv'
<1>1. /\ pc = "idle" /\ pc' = "scan" /\ judged' = <<>> /\ passed' = <<>>
      /\ UNCHANGED <<fixed, scan, threads, pool, outcome, table, faults>>
  BY DEF Launch
<1>2. job' \in Jobs /\ first' \in Nat /\ count' \in Nat
  <2>1. PICK j \in Jobs, f \in Nonces, l \in Nonces :
          f <= l /\ job' = j /\ first' = f /\ count' = l - f + 1
    BY DEF Launch
  <2>2. f \in Nat /\ l \in Nat
    BY LaunchAssumption
  <2> QED BY <2>1, <2>2
<1>3. RequestInv'
  BY <1>1, <1>2, EmptySeq DEF GateInv, RequestInv, PCs
<1>4. ScanInv'
  BY <1>1 DEF GateInv, ScanInv
<1>5. PassedInv'
  BY <1>1, EmptySeq DEF PassedInv, PassedPCs, ChainPCs
<1>6. PoolInv'
  BY <1>1 DEF GateInv, FixedInv, PoolInv, ChainPCs, fixed
<1> QED BY <1>1, <1>3, <1>4, <1>5, <1>6, FixedStep DEF GateInv

LEMMA EnsureScanKeeps ==
  ASSUME GateInv, EnsureLaunchPool
  PROVE  GateInv'
<1>1. /\ pc = "scan" /\ pc' = "gate" /\ scan' = GrownScan
      /\ UNCHANGED <<fixed, request, threads, passed, pool, judged, outcome, table, faults>>
  BY DEF EnsureLaunchPool
<1>2. RequestInv'
  BY <1>1 DEF GateInv, RequestInv, PCs, request
<1>3. ScanInv'
  <2>1. count \in Nat /\ Workspace(shape) \in Nat /\ scan \in Scan /\ Len(scan.slots) = scan.cap
    BY ShapeType, WorkspaceType DEF GateInv, RequestInv, ScanInv
  <2>2. [i \in 1..count |-> Garbage] \in Seq(Slot) /\ Len([i \in 1..count |-> Garbage]) = count
    <3>1. Garbage \in Slot
      BY DEF Slot
    <3> QED BY <2>1, <3>1
  <2>3. GrownScan \in Scan /\ Len(GrownScan.slots) = GrownScan.cap /\ count <= GrownScan.cap
    BY <2>1, <2>2 DEF GrownScan, Scan
  <2> QED BY <1>1, <2>3 DEF GateInv, ScanInv, request
<1>4. PassedInv'
  BY <1>1 DEF GateInv, PassedInv, PassedPCs, ChainPCs
<1>5. PoolInv'
  BY <1>1 DEF GateInv, FixedInv, PoolInv, ChainPCs, fixed
<1> QED BY <1>1, <1>2, <1>3, <1>4, <1>5, FixedStep DEF GateInv

LEMMA StartGateKeeps ==
  ASSUME GateInv, StartGate
  PROVE  GateInv'
<1>1. /\ pc = "gate" /\ pc' = "threads"
      /\ scan' = [scan EXCEPT !.counter = 0, !.midstate = job]
      /\ threads' = Todo
      /\ UNCHANGED <<fixed, request, passed, pool, judged, outcome, table, faults>>
  BY DEF StartGate, Todo
<1>2. RequestInv'
  BY <1>1 DEF GateInv, RequestInv, PCs, request
<1>3. ScanInv'
  <2>1. scan \in Scan /\ Len(scan.slots) = scan.cap /\ count <= scan.cap /\ job \in Jobs
    BY <1>1 DEF GateInv, ScanInv, RequestInv
  <2>2. /\ scan' \in Scan /\ scan'.slots = scan.slots /\ scan'.cap = scan.cap
        /\ scan'.counter = 0 /\ scan'.midstate = job
    BY <1>1, <2>1 DEF Scan
  <2>3. /\ first \in Nat /\ count \in Nat /\ scan.cap \in Nat
        /\ Todo' = Todo /\ job' = job /\ count' = count
    BY <1>1, <2>1 DEF GateInv, RequestInv, request, Scan, Todo, fixed
  <2>4. /\ IsFiniteSet(threads') /\ Cardinality(threads') <= scan.cap
        /\ Cardinality(threads') \in Nat
    BY <1>1, <2>1, <2>3, TodoSmall
  <2>5. Filled(scan.counter, Todo \ threads)'
    BY <1>1, <2>2, <2>3 DEF Filled
  <2> QED BY <1>1, <2>1, <2>2, <2>3, <2>4, <2>5 DEF ScanInv
<1>4. PassedInv'
  BY <1>1 DEF GateInv, PassedInv, PassedPCs, ChainPCs
<1>5. PoolInv'
  BY <1>1 DEF GateInv, FixedInv, PoolInv, ChainPCs, fixed
<1> QED BY <1>1, <1>2, <1>3, <1>4, <1>5, FixedStep DEF GateInv

\* The next free slot takes the candidate, and the others keep theirs.
LEMMA GateThreadKeeps ==
  ASSUME GateInv, NEW nonce \in Nonces, GateThread(nonce)
  PROVE  GateInv'
<1> DEFINE index == scan.counter + 1
           found == [job |-> job, nonce |-> nonce]
<1>1. /\ pc = "threads" /\ nonce \in threads /\ threads' = threads \ {nonce}
      /\ scan' = [scan EXCEPT !.counter = index,
                              !.slots = IF index \in DOMAIN scan.slots
                                        THEN [scan.slots EXCEPT ![index] =
                                               [job |-> scan.midstate, nonce |-> nonce]]
                                        ELSE scan.slots]
      /\ UNCHANGED <<fixed, pc, request, passed, pool, judged, outcome, table, faults>>
  BY DEF GateThread
<1>2. /\ scan \in Scan /\ Len(scan.slots) = scan.cap /\ count <= scan.cap
      /\ scan.counter \in Nat /\ scan.midstate = job
      /\ threads \subseteq Todo /\ IsFiniteSet(threads)
      /\ scan.counter + Cardinality(threads) <= scan.cap
      /\ Filled(scan.counter, Todo \ threads)
  BY <1>1 DEF GateInv, ScanInv
<1>3. RequestInv'
  BY <1>1 DEF GateInv, RequestInv, PCs, request
<1>4. /\ IsFiniteSet(threads') /\ Cardinality(threads') = Cardinality(threads) - 1
      /\ Cardinality(threads) \in Nat /\ Cardinality(threads') \in Nat
  BY <1>1, <1>2, FS_RemoveElement, FS_CardinalityType
<1>5. /\ scan.slots \in Seq(Slot) /\ index \in 1..Len(scan.slots)
      /\ index \in DOMAIN scan.slots /\ index \in Nat
  BY <1>2, <1>4 DEF Scan
<1>6. found \in Slot
  BY DEF GateInv, RequestInv, Slot, Candidate
<1>7. /\ scan' \in Scan /\ scan'.cap = scan.cap /\ scan'.counter = index
      /\ scan'.midstate = job /\ Len(scan'.slots) = scan.cap
      /\ scan'.slots = [scan.slots EXCEPT ![index] = found]
  <2>1. /\ [scan.slots EXCEPT ![index] = found] \in Seq(Slot)
        /\ Len([scan.slots EXCEPT ![index] = found]) = Len(scan.slots)
    BY <1>5, <1>6, ExceptSeq
  <2> QED BY <1>1, <1>2, <1>5, <2>1 DEF Scan
<1>8. /\ scan'.slots[index] = found
      /\ \A i \in 1..scan.counter : scan'.slots[i] = scan.slots[i]
  <2>1. DOMAIN scan.slots = 1..Len(scan.slots)
    BY <1>5
  <2> HIDE DEF found
  <2> QED BY <1>2, <1>5, <1>7, <2>1
<1>9. /\ Todo' = Todo /\ job' = job /\ count' = count
  BY <1>1 DEF request, fixed, Todo
<1>10. Todo \ threads' = (Todo \ threads) \cup {nonce}
  BY <1>1, <1>2
<1>11. \A i \in 1..index : i = index \/ i \in 1..scan.counter
  BY <1>2
<1>12. Filled(scan.counter, Todo \ threads)'
  <2>1. \A i \in 1..index : scan'.slots[i] \in Found(Todo \ threads')
    <3>1. found \in Found(Todo \ threads')
      BY <1>10 DEF Found
    <3>2. \A i \in 1..scan.counter : scan'.slots[i] \in Found(Todo \ threads')
      BY <1>2, <1>8, <1>10 DEF Filled, Found
    <3> QED BY <1>8, <1>11, <3>1, <3>2
  <2>2. \A n \in Todo \ threads' : \E i \in 1..index : scan'.slots[i] = [job |-> job, nonce |-> n]
    <3>1. ASSUME NEW n \in Todo \ threads, n # nonce
          PROVE  \E i \in 1..index : scan'.slots[i] = [job |-> job, nonce |-> n]
      <4>1. PICK i \in 1..scan.counter : scan.slots[i] = [job |-> job, nonce |-> n]
        BY <1>2 DEF Filled
      <4>2. i \in 1..index
        BY <1>2
      <4> QED BY <4>1, <4>2, <1>8
    <3>2. index \in 1..index
      BY <1>5
    <3> QED BY <1>8, <1>10, <3>1, <3>2
  <2>3. /\ Found(Todo \ threads)' = Found(Todo \ threads')
        /\ (Todo \ threads)' = Todo \ threads'
    BY <1>9 DEF Found
  <2> HIDE DEF index
  <2> QED BY <1>7, <1>9, <2>1, <2>2, <2>3 DEF Filled
<1>13. ScanInv'
  <2>1. scan'.counter \in Nat /\ scan'.counter + Cardinality(threads') <= scan'.cap
    BY <1>2, <1>4, <1>7 DEF Scan
  <2>2. threads' \subseteq Todo'
    BY <1>1, <1>2, <1>9
  <2> QED BY <1>1, <1>2, <1>4, <1>7, <1>9, <1>12, <2>1, <2>2 DEF ScanInv
<1>14. PassedInv'
  BY <1>1 DEF GateInv, PassedInv, PassedPCs, ChainPCs
<1>15. PoolInv'
  BY <1>1 DEF GateInv, FixedInv, PoolInv, ChainPCs, fixed
<1> QED BY <1>1, <1>3, <1>13, <1>14, <1>15, FixedStep DEF GateInv

LEMMA GateEmptyKeeps ==
  ASSUME GateInv, GateEmpty
  PROVE  GateInv'
<1>1. /\ pc = "threads" /\ pc' = "idle" /\ outcome' = "ok" /\ threads = {}
      /\ UNCHANGED <<fixed, request, scan, threads, passed, pool, judged, table, faults>>
  BY DEF GateEmpty
<1>2. RequestInv'
  BY <1>1 DEF GateInv, RequestInv, PCs, request
<1>3. ScanInv'
  BY <1>1 DEF GateInv, ScanInv
<1>4. PassedInv'
  BY <1>1 DEF GateInv, PassedInv, PassedPCs, ChainPCs
<1>5. PoolInv'
  BY <1>1 DEF GateInv, FixedInv, PoolInv, ChainPCs, fixed
<1> QED BY <1>1, <1>2, <1>3, <1>4, <1>5, FixedStep DEF GateInv

LEMMA LenWritten ==
  ASSUME scan.counter \in Nat
  PROVE  Len(Written) = scan.counter
BY DEF Written

\* When no thread is left, the slots up to the counter are all and only the
\* candidates that pass.
LEMMA WrittenAll ==
  ASSUME GateInv, pc = "threads", threads = {}
  PROVE  /\ Written \in Seq(Candidate) /\ Len(Written) = scan.counter
         /\ scan.counter <= scan.cap
         /\ { Written[i] : i \in 1..Len(Written) } = Found(Todo)
<1>1. /\ scan \in Scan /\ scan.counter \in Nat /\ scan.counter <= scan.cap
      /\ Filled(scan.counter, Todo)
  <2>1. scan.counter + Cardinality({}) <= scan.cap /\ Todo \ {} = Todo
    BY DEF GateInv, ScanInv
  <2> QED BY <2>1, FS_EmptySet DEF GateInv, ScanInv
<1>2. Found(Todo) \subseteq Candidate
  BY DEF GateInv, FixedInv, RequestInv, Found, Todo, Candidate
<1>3. \A i \in 1..scan.counter : scan.slots[i] \in Candidate
  BY <1>1, <1>2 DEF Filled
<1>4. /\ Written \in Seq(Candidate) /\ Len(Written) = scan.counter
      /\ \A i \in 1..scan.counter : Written[i] = scan.slots[i]
  <2>1. /\ SubSeq(scan.slots, 1, scan.counter) \in Seq(Candidate)
        /\ Len(SubSeq(scan.slots, 1, scan.counter))
             = IF 1 <= scan.counter THEN scan.counter - 1 + 1 ELSE 0
        /\ \A i \in 1..(scan.counter - 1 + 1) :
             SubSeq(scan.slots, 1, scan.counter)[i] = scan.slots[1 + i - 1]
    BY <1>1, <1>3, SubSeqProperties
  <2>2. scan.counter - 1 + 1 = scan.counter /\ \A i \in Int : 1 + i - 1 = i
    BY <1>1
  <2> QED BY <1>1, <2>1, <2>2 DEF Written
<1>5. { Written[i] : i \in 1..Len(Written) } = Found(Todo)
  <2>1. \A x \in Found(Todo) : \E i \in 1..scan.counter : Written[i] = x
    BY <1>1, <1>4 DEF Filled, Found
  <2>2. \A i \in 1..scan.counter : Written[i] \in Found(Todo)
    BY <1>1, <1>4 DEF Filled
  <2> QED BY <1>4, <2>1, <2>2
<1> QED BY <1>1, <1>4, <1>5

LEMMA GatePassedKeeps ==
  ASSUME GateInv, GatePassed
  PROVE  GateInv'
<1>1. /\ pc = "threads" /\ pc' = "pool" /\ passed' = Written /\ threads = {}
      /\ scan.counter > 0
      /\ UNCHANGED <<fixed, request, scan, threads, pool, judged, outcome, table, faults>>
  BY DEF GatePassed
<1>2. RequestInv'
  BY <1>1 DEF GateInv, RequestInv, PCs, PassedPCs, request
<1>3. ScanInv'
  BY <1>1 DEF GateInv, ScanInv, request
<1>4. PassedInv'
  <2>1. Written' = Written /\ Todo' = Todo /\ Found(Todo)' = Found(Todo)
    BY <1>1 DEF Written, Todo, Found, fixed, request
  <2>2. scan.counter \in Nat
    BY <1>1 DEF GateInv, ScanInv
  <2> HIDE DEF Written
  <2>3. { passed'[i] : i \in 1..batch' } = Found(Todo)
    BY <1>1, WrittenAll DEF batch
  <2> QED BY <1>1, <2>1, <2>2, <2>3, WrittenAll DEF PassedInv
<1>5. PoolInv'
  BY <1>1 DEF GateInv, FixedInv, PoolInv, ChainPCs, fixed
<1> QED BY <1>1, <1>2, <1>3, <1>4, <1>5, FixedStep DEF GateInv

\* The steps after the gate leave its part of the state alone.
LEMMA GateUntouched ==
  ASSUME GateInv, pc \in PassedPCs, pc' \in PassedPCs \cup {"idle"},
         UNCHANGED <<fixed, request, scan, threads, passed>>
  PROVE  ScanInv' /\ PassedInv'
<1>1. ScanInv'
  BY DEF GateInv, ScanInv, PassedPCs, ChainPCs, request
<1>2. Written' = Written /\ Todo' = Todo /\ Found(Todo)' = Found(Todo) /\ batch' = batch
  BY DEF Written, Todo, Found, fixed, request, batch
<1>3. PassedInv'
  BY <1>2 DEF GateInv, PassedInv
<1> QED BY <1>1, <1>3

LEMMA EnsurePoolKeeps ==
  ASSUME GateInv, EnsureBatchedPool
  PROVE  GateInv'
<1>1. /\ pc = "pool" /\ pc' = "copy"
      /\ pool' = IF PoolFits THEN pool
                 ELSE [NoPool EXCEPT !.cap = batch, !.batch = batch, !.shape = shape]
      /\ UNCHANGED <<fixed, request, scan, threads, passed, judged, outcome, table, faults>>
  BY DEF EnsureBatchedPool
<1>2. RequestInv'
  BY <1>1 DEF GateInv, RequestInv, PCs, PassedPCs, ChainPCs, request
<1>3. ScanInv' /\ PassedInv'
  BY <1>1, GateUntouched DEF PassedPCs, ChainPCs
<1>4. batch \in Nat \ {0} /\ batch' = batch
  <2>1. passed = Written /\ scan.counter \in Nat \ {0}
    BY <1>1 DEF GateInv, PassedInv, PassedPCs
  <2>2. { passed[i] : i \in 1..batch } = Found(Todo) /\ passed \in Seq(Candidate)
    BY <1>1 DEF GateInv, PassedInv, PassedPCs
  <2>3. Len(Written) = scan.counter
    BY <2>1, LenWritten
  <2> QED BY <1>1, <2>1, <2>3 DEF batch
<1>5. PoolInv'
  <2>1. CASE PoolFits
    BY <1>1, <1>4, <2>1 DEF GateInv, FixedInv, PoolInv, PoolFits, fixed
  <2>2. CASE ~PoolFits
    <3>1. /\ pool' \in Pool /\ pool'.batch = batch /\ pool'.cap = batch
          /\ pool'.shape = shapeOf[job]
      BY <1>1, <1>4, <2>2, ShapeType DEF GateInv, NoPool, Pool, Mem, shape
    <3>2. job \in Jobs /\ shapeOf' = shapeOf
      BY <1>1 DEF GateInv, RequestInv, fixed
    <3> QED BY <1>4, <3>1, <3>2 DEF PoolInv
  <2> QED BY <2>1, <2>2
<1> QED BY <1>1, <1>2, <1>3, <1>5, FixedStep DEF GateInv

\* A step of the chain that leaves the size of the pool alone.
LEMMA ChainKeeps ==
  ASSUME GateInv, pc \in ChainPCs, pc' \in ChainPCs \cup {"idle"},
         UNCHANGED <<fixed, request, scan, threads, passed>>,
         pool' \in Pool, pool'.cap = pool.cap, pool'.batch = pool.batch,
         pool'.shape = pool.shape,
         judged' \in Seq(Slot), outcome' \in {"none", "ok", "failed"}, table' \in Tables,
         faults' \in 0..MaxFaults
  PROVE  GateInv'
<1>1. RequestInv'
  BY DEF GateInv, RequestInv, PCs, PassedPCs, ChainPCs, request
<1>2. ScanInv' /\ PassedInv'
  BY GateUntouched DEF PassedPCs
<1>3. PoolInv'
  BY DEF GateInv, PoolInv, fixed, batch
<1> QED BY <1>1, <1>2, <1>3, FixedStep DEF GateInv

LEMMA CopyInKeeps ==
  ASSUME GateInv, CopyIn
  PROVE  /\ GateInv'
         /\ pc' = "matrix" /\ UNCHANGED <<fixed, request, passed>>
         /\ pool'.targets = job
         /\ Is(pool'.mem, "seed_a", "seed a", passed) /\ Is(pool'.mem, "seed_b", "seed b", passed)
         /\ Is(pool'.mem, "sigma", "sigma", passed)
<1>1. /\ pc = "copy" /\ pc' = "matrix"
      /\ UNCHANGED <<fixed, request, scan, threads, passed, judged, outcome, table, faults>>
  BY DEF CopyIn
<1>2. Written = passed /\ passed \in Seq(Candidate)
  BY <1>1 DEF GateInv, PassedInv, PassedPCs, ChainPCs
<1> DEFINE mem == [pool.mem EXCEPT !["seed_a"] = [what |-> "seed a", of |-> passed],
                                   !["seed_b"] = [what |-> "seed b", of |-> passed],
                                   !["sigma"]  = [what |-> "sigma",  of |-> passed]]
<1>3. pool' = [pool EXCEPT !.targets = job, !.mem = mem]
  BY <1>2 DEF CopyIn
<1>4. pool \in Pool /\ pool.mem \in Mem /\ job \in Jobs
  BY DEF GateInv, PoolInv, Pool, RequestInv
<1>5. /\ [what |-> "seed a", of |-> passed] \in Content
      /\ [what |-> "seed b", of |-> passed] \in Content
      /\ [what |-> "sigma", of |-> passed] \in Content
  BY <1>2 DEF Content, Products
<1>6. /\ mem \in Mem
      /\ Is(mem, "seed_a", "seed a", passed) /\ Is(mem, "seed_b", "seed b", passed)
      /\ Is(mem, "sigma", "sigma", passed)
  BY <1>4, <1>5 DEF Mem, Buffers, Is
<1> HIDE DEF mem
<1>7. /\ pool' \in Pool /\ pool'.cap = pool.cap /\ pool'.batch = pool.batch
      /\ pool'.shape = pool.shape /\ pool'.targets = job /\ pool'.mem = mem
  BY <1>3, <1>4, <1>6 DEF Pool
<1>8. /\ judged' \in Seq(Slot) /\ outcome' \in {"none", "ok", "failed"}
      /\ table' \in Tables /\ faults' \in 0..MaxFaults
  BY <1>1 DEF GateInv, RequestInv
<1>9. GateInv'
  BY <1>1, <1>7, <1>8, ChainKeeps DEF ChainPCs
<1> QED BY <1>1, <1>6, <1>7, <1>9

\* A block of kernels that yields a memory.
LEMMA BlockKeeps ==
  ASSUME GateInv, NEW here \in ChainPCs, NEW next \in ChainPCs, NEW m \in Mem,
         pc = here, pc' = next, pool' = [pool EXCEPT !.mem = m],
         UNCHANGED <<fixed, request, scan, threads, passed, judged, outcome>>,
         table' \in Tables, faults' \in 0..MaxFaults
  PROVE  /\ GateInv' /\ pool'.targets = pool.targets /\ pool'.mem = m
<1>1. pool \in Pool
  BY DEF GateInv, PoolInv
<1>2. /\ pool' \in Pool /\ pool'.cap = pool.cap /\ pool'.batch = pool.batch
      /\ pool'.shape = pool.shape /\ pool'.targets = pool.targets /\ pool'.mem = m
  BY <1>1 DEF Pool
<1>3. /\ judged' \in Seq(Slot) /\ outcome' \in {"none", "ok", "failed"}
  BY DEF GateInv, RequestInv
<1> QED BY <1>2, <1>3, ChainKeeps

\* Which kernels run is decided by the request.
LEMMA SameChoices ==
  ASSUME UNCHANGED <<fixed, request>>
  PROVE  /\ Covered' = Covered /\ Fast' = Fast /\ Midstates' = Midstates /\ FusedB' = FusedB
         /\ Todo' = Todo /\ Found(Todo)' = Found(Todo)
<1>1. shape' = shape /\ env' = env /\ Todo' = Todo /\ job' = job
  BY DEF shape, Todo, fixed, request
<1>2. Fast' = Fast
  BY <1>1 DEF Fast
<1>3. FusedB' = FusedB /\ FusedA' = FusedA
  BY <1>1, <1>2 DEF FusedB, FusedA
<1>4. Midstates' = Midstates
  BY <1>1, <1>2, <1>3 DEF Midstates
<1>5. Wmma' = Wmma
  BY <1>1, <1>2 DEF Wmma, SupportsWmma
<1>6. Covered' = Covered
  BY <1>1, <1>3, <1>4, <1>5 DEF Covered
<1> QED BY <1>1, <1>2, <1>3, <1>4, <1>6 DEF Found

LEMMA SamePrepared ==
  ASSUME UNCHANGED <<fixed, request>>, UNCHANGED passed, PreparedIn(pool'.mem, passed)
  PROVE  PreparedIn(pool.mem, passed)'
<1>1. (Midstates' <=> Midstates) /\ (FusedB' <=> FusedB)
  BY SameChoices
<1>2. CASE Midstates
  <2>1. CASE FusedB BY <1>1, <1>2, <2>1 DEF PreparedIn, Is
  <2>2. CASE ~FusedB BY <1>1, <1>2, <2>2 DEF PreparedIn, Is
  <2> QED BY <2>1, <2>2
<1>3. CASE ~Midstates
  <2>1. CASE FusedB BY <1>1, <1>3, <2>1 DEF PreparedIn, Is
  <2>2. CASE ~FusedB BY <1>1, <1>3, <2>2 DEF PreparedIn, Is
  <2> QED BY <2>1, <2>2
<1> QED BY <1>2, <1>3

\* Whether the copy is made, has been made or fails: after it the table is not
\* unset, and one that was lost stays so.
LEMMA EnsureKStep ==
  ASSUME GateInv, EnsureK
  PROVE  /\ table' \in {"loaded", "lost"} /\ faults' \in 0..MaxFaults
         /\ table = "lost" => table' = "lost"
BY LaunchAssumption DEF GateInv, RequestInv, Tables, EnsureK

LEMMA MatrixBlockKeeps ==
  ASSUME GateInv, MatrixBlock
  PROVE  GateInv' /\ (BufferInv => BufferInv')
<1>0. PICK k : k = table'
  OBVIOUS
<1>1. PICK m : m = PrepareB(k, PrepareA(k, pool.mem))
  OBVIOUS
<1>2. /\ pc = "matrix" /\ pc' = "seeds" /\ pool' = [pool EXCEPT !.mem = m]
      /\ UNCHANGED <<fixed, request, scan, threads, passed, judged, outcome>>
      /\ IF OwnTable THEN UNCHANGED <<table, faults>> ELSE EnsureK
  BY <1>0, <1>1 DEF MatrixBlock, Kernels
<1>3. /\ table' \in Tables /\ faults' \in 0..MaxFaults
      /\ table = "lost" => table' = "lost"
      /\ table' # "lost" => MatrixTable(k) = "loaded"
  <2>1. CASE OwnTable
    BY <1>2, <2>1 DEF MatrixTable, GateInv, RequestInv
  <2>2. CASE ~OwnTable
    BY <1>0, <1>2, <2>2, EnsureKStep DEF MatrixTable, Tables
  <2> QED BY <2>1, <2>2
<1>4. pool.mem \in Mem /\ passed \in Seq(Candidate)
  BY DEF GateInv, PoolInv, Pool, PassedInv
<1>5. /\ Only(MatrixOuts, pool.mem, m)
      /\ table' # "lost" /\ SeedsIn(pool.mem, passed) => PreparedIn(m, passed)
  BY <1>1, <1>3, <1>4, MatrixBlockMakes
<1>6. GateInv' /\ pool'.targets = pool.targets /\ pool'.mem = m
  <2>1. m \in Mem
    BY <1>5 DEF Only
  <2> QED BY <1>2, <1>3, <2>1, BlockKeeps DEF ChainPCs
<1>7. ASSUME BufferInv PROVE BufferInv'
  <2>1. /\ SeedsIn(pool.mem, passed) /\ Is(pool.mem, "sigma", "sigma", passed)
        /\ pool.targets = job
    BY <1>2, <1>7 DEF BufferInv, ChainPCs
  <2>2. SeedsIn(m, passed) /\ Is(m, "sigma", "sigma", passed)
    BY <1>5, <2>1 DEF Only, SeedsIn, Is, MatrixOuts, Buffers
  <2>3. table' # "lost" => PreparedIn(pool.mem, passed)'
    BY <1>2, <1>5, <1>6, <2>1, SamePrepared
  <2> QED BY <1>2, <1>6, <2>1, <2>2, <2>3 DEF BufferInv, ChainPCs, request, SeedsIn, Is
<1> QED BY <1>6, <1>7

LEMMA SeedBlockKeeps ==
  ASSUME GateInv, NoiseSeedBlock
  PROVE  GateInv' /\ (BufferInv => BufferInv')
<1>0. PICK k : k = table'
  OBVIOUS
<1>1. PICK m : m = DeriveNoiseSeeds(k, pool.mem)
  OBVIOUS
<1>2. /\ pc = "seeds" /\ pc' = "noise" /\ pool' = [pool EXCEPT !.mem = m]
      /\ UNCHANGED <<fixed, request, scan, threads, passed, judged, outcome>>
      /\ EnsureK
  BY <1>0, <1>1 DEF NoiseSeedBlock, Kernels
<1>3. /\ table' \in {"loaded", "lost"} /\ faults' \in 0..MaxFaults
      /\ table = "lost" => table' = "lost"
  BY <1>2, EnsureKStep
<1>4. pool.mem \in Mem /\ passed \in Seq(Candidate)
  BY DEF GateInv, PoolInv, Pool, PassedInv
<1>5. /\ Only({"noise_seeds", "compress_seeds"}, pool.mem, m)
      /\ table' # "lost" /\ Is(pool.mem, "sigma", "sigma", passed) => NoiseSeedsIn(m, passed)
  BY <1>0, <1>1, <1>3, <1>4, SeedBlockMakes
<1>6. GateInv' /\ pool'.targets = pool.targets /\ pool'.mem = m
  <2>1. m \in Mem
    BY <1>5 DEF Only
  <2> QED BY <1>2, <1>3, <2>1, BlockKeeps DEF ChainPCs, Tables
<1>7. ASSUME BufferInv PROVE BufferInv'
  <2>1. /\ SeedsIn(pool.mem, passed) /\ Is(pool.mem, "sigma", "sigma", passed)
        /\ pool.targets = job
        /\ table' # "lost" => PreparedIn(pool.mem, passed)
    BY <1>2, <1>3, <1>7 DEF BufferInv, ChainPCs
  <2>2. /\ SeedsIn(m, passed) /\ Is(m, "sigma", "sigma", passed)
        /\ PreparedIn(pool.mem, passed) => PreparedIn(m, passed)
    BY <1>5, <2>1 DEF Only, SeedsIn, PreparedIn, Is, Buffers
  <2>3. table' # "lost" => PreparedIn(pool.mem, passed)'
    BY <1>2, <1>6, <2>1, <2>2, SamePrepared
  <2>4. table' # "lost" => NoiseSeedsIn(m, passed)
    BY <1>5, <2>1
  <2> QED BY <1>2, <1>3, <1>6, <2>1, <2>2, <2>3, <2>4
          DEF BufferInv, request, SeedsIn, NoiseSeedsIn, Is
<1> QED BY <1>6, <1>7

LEMMA NoiseBlockKeeps ==
  ASSUME GateInv, NoiseBlock
  PROVE  GateInv' /\ (BufferInv => BufferInv')
<1>1. PICK m : m = AllNoise(pool.mem)
  OBVIOUS
<1>2. /\ pc = "noise" /\ pc' = "compress" /\ pool' = [pool EXCEPT !.mem = m]
      /\ UNCHANGED <<fixed, request, scan, threads, passed, judged, outcome, table, faults>>
  BY <1>1 DEF NoiseBlock, Block, Kernels, AllNoise
<1>3. pool.mem \in Mem /\ passed \in Seq(Candidate)
  BY DEF GateInv, PoolInv, Pool, PassedInv
<1>4. /\ Only(NoiseOuts, pool.mem, m)
      /\ table = "loaded" /\ NoiseSeedsIn(pool.mem, passed) => NoiseIn(m, passed)
  BY <1>1, <1>3, NoiseBlockMakes
<1>5. m \in Mem /\ table \in Tables /\ faults \in 0..MaxFaults
  BY <1>4 DEF Only, GateInv, RequestInv
<1>6. GateInv' /\ pool'.targets = pool.targets /\ pool'.mem = m
  BY <1>2, <1>5, BlockKeeps DEF ChainPCs
<1>7. ASSUME BufferInv PROVE BufferInv'
  <2>1. /\ SeedsIn(pool.mem, passed) /\ Is(pool.mem, "sigma", "sigma", passed)
        /\ pool.targets = job /\ table \in {"loaded", "lost"}
        /\ table # "lost" => PreparedIn(pool.mem, passed) /\ NoiseSeedsIn(pool.mem, passed)
    BY <1>2, <1>5, <1>7 DEF BufferInv, ChainPCs, Tables
  <2>2. SeedsIn(m, passed) /\ Is(m, "sigma", "sigma", passed)
    BY <1>4, <2>1 DEF Only, SeedsIn, NoiseOuts, Is, Buffers
  <2>3. table # "lost" => PreparedIn(m, passed) /\ NoiseSeedsIn(m, passed) /\ NoiseIn(m, passed)
    BY <1>4, <2>1 DEF Only, PreparedIn, NoiseSeedsIn, NoiseOuts, Is, Buffers
  <2>4. table # "lost" => PreparedIn(pool.mem, passed)'
    BY <1>2, <1>6, <2>3, SamePrepared
  <2> QED BY <1>2, <1>6, <2>1, <2>2, <2>3, <2>4
          DEF BufferInv, request, SeedsIn, NoiseSeedsIn, NoiseIn, Is
<1> QED BY <1>6, <1>7

LEMMA CompressBlockKeeps ==
  ASSUME GateInv, CompressBlock
  PROVE  GateInv' /\ (BufferInv => BufferInv')
<1>1. PICK m : m = GenerateCompress(pool.mem)
  OBVIOUS
<1>2. /\ pc = "compress" /\ pc' = "rhs" /\ pool' = [pool EXCEPT !.mem = m]
      /\ UNCHANGED <<fixed, request, scan, threads, passed, judged, outcome, table, faults>>
  BY <1>1 DEF CompressBlock, Block, Kernels
<1>3. pool.mem \in Mem /\ passed \in Seq(Candidate)
  BY DEF GateInv, PoolInv, Pool, PassedInv
<1>4. /\ Only({"compress"}, pool.mem, m)
      /\ table = "loaded" /\ NoiseSeedsIn(pool.mem, passed) => Is(m, "compress", "W", passed)
  BY <1>1, <1>3, GenerateCompressMakes DEF NoiseSeedsIn
<1>5. m \in Mem /\ table \in Tables /\ faults \in 0..MaxFaults
  BY <1>4 DEF Only, GateInv, RequestInv
<1>6. GateInv' /\ pool'.targets = pool.targets /\ pool'.mem = m
  BY <1>2, <1>5, BlockKeeps DEF ChainPCs
<1>7. ASSUME BufferInv PROVE BufferInv'
  <2>1. /\ SeedsIn(pool.mem, passed) /\ Is(pool.mem, "sigma", "sigma", passed)
        /\ pool.targets = job /\ table \in {"loaded", "lost"}
        /\ table # "lost" => /\ PreparedIn(pool.mem, passed) /\ NoiseSeedsIn(pool.mem, passed)
                             /\ NoiseIn(pool.mem, passed)
    BY <1>2, <1>5, <1>7 DEF BufferInv, ChainPCs, Tables
  <2>2. SeedsIn(m, passed) /\ Is(m, "sigma", "sigma", passed)
    BY <1>4, <2>1 DEF Only, SeedsIn, Is, Buffers
  <2>3. table # "lost" => /\ PreparedIn(m, passed) /\ NoiseSeedsIn(m, passed)
                          /\ NoiseIn(m, passed) /\ Is(m, "compress", "W", passed)
    BY <1>4, <2>1 DEF Only, PreparedIn, NoiseSeedsIn, NoiseIn, Is, Buffers
  <2>4. table # "lost" => PreparedIn(pool.mem, passed)'
    BY <1>2, <1>6, <2>3, SamePrepared
  <2> QED BY <1>2, <1>6, <2>1, <2>2, <2>3, <2>4
          DEF BufferInv, request, SeedsIn, NoiseSeedsIn, NoiseIn, Is
<1> QED BY <1>6, <1>7

LEMMA RhsBlockKeeps ==
  ASSUME GateInv, RhsBlock
  PROVE  GateInv' /\ (BufferInv => BufferInv')
<1>1. PICK m : m = RhsMem(pool.mem)
  OBVIOUS
<1>2. /\ pc = "rhs" /\ pc' = "words" /\ pool' = [pool EXCEPT !.mem = m]
      /\ UNCHANGED <<fixed, request, scan, threads, passed, judged, outcome, table, faults>>
  BY <1>1 DEF RhsBlock, Block, Kernels, RhsMem
<1>3. pool.mem \in Mem /\ passed \in Seq(Candidate) /\ shape \in Shapes
  BY ShapeType DEF GateInv, PoolInv, Pool, PassedInv
<1>4. /\ Only(RhsOuts, pool.mem, m)
      /\ Covered /\ FactorsFrom(pool.mem, passed) => FactorsIn(m, passed)
  BY <1>1, <1>3, RhsBlockMakes
<1>5. m \in Mem /\ table \in Tables /\ faults \in 0..MaxFaults
  BY <1>4 DEF Only, GateInv, RequestInv
<1>6. GateInv' /\ pool'.targets = pool.targets /\ pool'.mem = m
  BY <1>2, <1>5, BlockKeeps DEF ChainPCs
<1>7. ASSUME BufferInv PROVE BufferInv'
  <2>1. /\ Is(pool.mem, "sigma", "sigma", passed)
        /\ pool.targets = job /\ table \in {"loaded", "lost"}
        /\ table # "lost" => FactorsFrom(pool.mem, passed)
    BY <1>2, <1>5, <1>7 DEF BufferInv, ChainPCs, Tables, FactorsFrom
  <2>2. /\ Is(m, "sigma", "sigma", passed)
        /\ table # "lost" /\ Covered => FactorsIn(m, passed)
    BY <1>4, <2>1 DEF Only, RhsOuts, Is, Buffers
  <2>3. table # "lost" /\ Covered' => FactorsIn(pool.mem, passed)'
    <3>1. (Covered' <=> Covered) /\ (Fast' <=> Fast)
      BY <1>2, SameChoices
    <3>2. CASE Fast BY <1>2, <1>6, <2>2, <3>1, <3>2 DEF FactorsIn, Is
    <3>3. CASE ~Fast BY <1>2, <1>6, <2>2, <3>1, <3>3 DEF FactorsIn, Is
    <3> QED BY <3>2, <3>3
  <2> QED BY <1>2, <1>6, <2>1, <2>2, <2>3 DEF BufferInv, request, Is
<1> QED BY <1>6, <1>7

LEMMA WordsBlockKeeps ==
  ASSUME GateInv, WordsBlock
  PROVE  GateInv' /\ (BufferInv => BufferInv')
<1>1. PICK m : m = WordsMem(pool.mem)
  OBVIOUS
<1>2. /\ pc = "words" /\ pc' = "hash" /\ pool' = [pool EXCEPT !.mem = m]
      /\ UNCHANGED <<fixed, request, scan, threads, passed, judged, outcome, table, faults>>
  BY <1>1 DEF WordsBlock, Block, Kernels, WordsMem
<1>3. pool.mem \in Mem /\ passed \in Seq(Candidate) /\ shape \in Shapes
  BY ShapeType DEF GateInv, PoolInv, Pool, PassedInv
<1>4. /\ Only({"base_a", "words"}, pool.mem, m)
      /\ Covered /\ FactorsIn(pool.mem, passed) => Is(m, "words", "words", passed)
  BY <1>1, <1>3, WordsBlockMakes
<1>5. m \in Mem /\ table \in Tables /\ faults \in 0..MaxFaults
  BY <1>4 DEF Only, GateInv, RequestInv
<1>6. GateInv' /\ pool'.targets = pool.targets /\ pool'.mem = m
  BY <1>2, <1>5, BlockKeeps DEF ChainPCs
<1>7. ASSUME BufferInv PROVE BufferInv'
  <2>1. /\ Is(pool.mem, "sigma", "sigma", passed)
        /\ pool.targets = job /\ table \in {"loaded", "lost"}
        /\ table # "lost" /\ Covered => FactorsIn(pool.mem, passed)
    BY <1>2, <1>5, <1>7 DEF BufferInv, ChainPCs, Tables
  <2>2. /\ Is(m, "sigma", "sigma", passed)
        /\ table # "lost" /\ Covered => Is(m, "words", "words", passed)
    BY <1>4, <2>1 DEF Only, Is, Buffers
  <2>3. Covered' <=> Covered
    BY <1>2, SameChoices
  <2> QED BY <1>2, <1>6, <2>1, <2>2, <2>3 DEF BufferInv, request, Is
<1> QED BY <1>6, <1>7

LEMMA HashBlockKeeps ==
  ASSUME GateInv, HashBlock
  PROVE  GateInv' /\ (BufferInv => BufferInv')
<1>1. PICK m : m = CompareDigests(HashTranscript(pool.mem))
  OBVIOUS
<1>2. /\ pc = "hash" /\ pc' = "collect" /\ pool' = [pool EXCEPT !.mem = m]
      /\ UNCHANGED <<fixed, request, scan, threads, passed, judged, outcome, table, faults>>
  BY <1>1 DEF HashBlock, Block, Kernels
<1>3. pool.mem \in Mem /\ passed \in Seq(Candidate)
  BY DEF GateInv, PoolInv, Pool, PassedInv
<1>4. /\ Only({"digests", "results"}, pool.mem, m)
      /\ /\ table = "loaded"
         /\ Is(pool.mem, "words", "words", passed) /\ Is(pool.mem, "sigma", "sigma", passed)
         /\ \A i \in DOMAIN passed : passed[i].job = pool.targets
         => Is(m, "results", "verdict", passed)
  BY <1>1, <1>3, HashBlockMakes
<1>5. m \in Mem /\ table \in Tables /\ faults \in 0..MaxFaults
  BY <1>4 DEF Only, GateInv, RequestInv
<1>6. GateInv' /\ pool'.targets = pool.targets /\ pool'.mem = m
  BY <1>2, <1>5, BlockKeeps DEF ChainPCs
<1>7. ASSUME BufferInv PROVE BufferInv'
  <2>1. /\ Is(pool.mem, "sigma", "sigma", passed)
        /\ pool.targets = job /\ table \in {"loaded", "lost"}
        /\ table # "lost" /\ Covered => Is(pool.mem, "words", "words", passed)
    BY <1>2, <1>5, <1>7 DEF BufferInv, ChainPCs, Tables
  <2>2. \A i \in DOMAIN passed : passed[i].job = job
    <3>1. { passed[i] : i \in 1..batch } = Found(Todo)
      BY <1>2 DEF GateInv, PassedInv, PassedPCs, ChainPCs
    <3>2. DOMAIN passed = 1..batch
      BY <1>3 DEF batch
    <3>3. \A x \in Found(Todo) : x.job = job
      BY DEF Found
    <3> QED BY <3>1, <3>2, <3>3
  <2>3. /\ Is(m, "sigma", "sigma", passed)
        /\ table # "lost" /\ Covered => Is(m, "results", "verdict", passed)
    BY <1>4, <2>1, <2>2 DEF Only, Is, Buffers
  <2>4. Covered' <=> Covered
    BY <1>2, SameChoices
  <2> QED BY <1>2, <1>6, <2>1, <2>3, <2>4 DEF BufferInv, request, Is
<1> QED BY <1>6, <1>7

LEMMA CollectKeeps ==
  ASSUME GateInv, Collect
  PROVE  GateInv' /\ (BufferInv => DoneInv')
<1>1. /\ pc = "collect" /\ pc' = "idle" /\ outcome' = "ok"
      /\ judged' = [i \in 1..batch |-> Verdict(i)]
      /\ UNCHANGED <<fixed, request, scan, threads, passed, pool, table, faults>>
  BY DEF Collect
<1>2. pool \in Pool /\ pool.mem \in Mem /\ passed \in Seq(Candidate) /\ batch \in Nat
  BY DEF GateInv, PoolInv, Pool, PassedInv, batch
<1>3. \A i \in 1..batch : Verdict(i) \in Slot
  <2> DEFINE v == pool.mem["results"]
  <2>1. v \in Content \cup {Garbage}
    BY <1>2 DEF Mem, Buffers
  <2> SUFFICES ASSUME NEW i \in 1..batch PROVE Verdict(i) \in Slot
    OBVIOUS
  <2>2. CASE v # Garbage /\ i \in DOMAIN v.of
    <3>1. v.of \in Seq(Candidate)
      BY <2>1, <2>2 DEF Content
    <3>2. v.of[i] \in Candidate
      BY <2>2, <3>1
    <3> QED BY <2>2, <3>2 DEF Verdict, Slot
  <2>3. CASE ~(v # Garbage /\ i \in DOMAIN v.of)
    BY <2>3 DEF Verdict, Slot
  <2> QED BY <2>2, <2>3
<1>4. judged' \in Seq(Slot)
  BY <1>1, <1>2, <1>3
<1>5. GateInv'
  <2>1. table' \in Tables /\ faults' \in 0..MaxFaults
    BY <1>1 DEF GateInv, RequestInv
  <2> QED BY <1>1, <1>2, <1>4, <2>1, ChainKeeps DEF ChainPCs
<1>6. ASSUME BufferInv PROVE DoneInv'
  <2>1. batch' = batch /\ (Covered' <=> Covered) /\ Found(Todo)' = Found(Todo)
    BY <1>1, SameChoices DEF batch
  <2>2. { passed[i] : i \in 1..batch } = Found(Todo)
    BY <1>1 DEF GateInv, PassedInv, PassedPCs, ChainPCs
  <2>3. ASSUME Covered, table # "lost" PROVE judged' = passed
    <3>1. pool.mem["results"] = [what |-> "verdict", of |-> passed]
      BY <1>1, <1>6, <2>3 DEF BufferInv, Is
    <3>2. /\ [what |-> "verdict", of |-> passed] \in Content
          /\ [what |-> "verdict", of |-> passed].of = passed
      BY <1>2 DEF Content, Products
    <3>3. \A i \in 1..batch : i \in DOMAIN passed
      BY <1>2 DEF batch
    <3>4. \A i \in 1..batch : Verdict(i) = passed[i]
      BY <3>1, <3>2, <3>3, GarbageAssumption DEF Verdict
    <3>5. judged' = [i \in 1..batch |-> passed[i]]
      BY <1>1, <3>4
    <3> QED BY <1>2, <3>5 DEF batch
  <2> QED BY <1>1, <2>1, <2>2, <2>3 DEF DoneInv
<1> QED BY <1>5, <1>6

\* A failed launch leaves pools that can be used again.
LEMMA FailKeeps ==
  ASSUME GateInv, ScanAllocFails \/ PoolAllocFails \/ DeviceFails
  PROVE  GateInv' /\ HitsInv'
<1>1. /\ pc' = "idle" /\ outcome' = "failed" /\ threads' = {}
      /\ faults' \in 0..MaxFaults
      /\ UNCHANGED <<fixed, request, passed, judged, table>>
  BY LaunchAssumption DEF GateInv, RequestInv, ScanAllocFails, PoolAllocFails, DeviceFails, Fails
<1>2. HitsInv'
  BY <1>1 DEF HitsInv, BufferInv, DoneInv, ChainPCs
<1>3. RequestInv'
  BY <1>1 DEF GateInv, RequestInv, PCs, request
<1>4. scan' = scan \/ scan' = NoScan
  BY DEF ScanAllocFails, PoolAllocFails, DeviceFails
<1>5. ScanInv'
  <2>1. <<>> \in Seq(Slot) /\ Len(<<>>) = 0
    BY EmptySeq
  <2>2. NoScan \in Scan /\ Len(NoScan.slots) = NoScan.cap
    BY <2>1 DEF NoScan, Scan
  <2> QED BY <1>1, <1>4, <2>2 DEF GateInv, ScanInv
<1>6. PassedInv'
  BY <1>1 DEF GateInv, PassedInv, PassedPCs, ChainPCs
<1>7. PoolInv'
  <2>1. pool' = pool \/ pool' = NoPool \/ pool' = Spoilt
    BY DEF ScanAllocFails, PoolAllocFails, DeviceFails
  <2>2. pool \in Pool
    BY DEF GateInv, PoolInv
  <2>3. NoPool \in Pool /\ NoPool.batch = NoPool.cap /\ NoPool.cap = 0
    BY DEF NoPool, Pool, Mem
  <2>4. /\ Spoilt \in Pool /\ Spoilt.batch = pool.batch /\ Spoilt.cap = pool.cap
        /\ Spoilt.shape = pool.shape
    BY <2>2 DEF Spoilt, Pool, Mem
  <2> QED BY <1>1, <2>1, <2>2, <2>3, <2>4 DEF GateInv, PoolInv, ChainPCs, fixed
<1> QED BY <1>1, <1>2, <1>3, <1>5, <1>6, <1>7, FixedStep DEF GateInv

LEMMA StutterKeeps ==
  ASSUME GateInv, HitsInv, UNCHANGED vars
  PROVE  GateInv' /\ HitsInv'
<1>1. UNCHANGED <<gated, shapeOf, env, pc, job, first, count, scan, threads, passed, pool,
                  judged, outcome, table, faults>>
  BY DEF vars, fixed, request
<1>2. UNCHANGED <<fixed, request>> /\ batch' = batch /\ Written' = Written
  BY <1>1 DEF fixed, request, batch, Written
<1>3. FixedInv' /\ RequestInv'
  BY <1>1 DEF GateInv, FixedInv, RequestInv
<1>4. Todo' = Todo /\ Found(Todo)' = Found(Todo)
  BY <1>2, SameChoices
<1>5. ScanInv'
  BY <1>1, <1>4 DEF GateInv, ScanInv, Filled, Found
<1>6. PassedInv'
  BY <1>1, <1>2, <1>4 DEF GateInv, PassedInv
<1>7. PoolInv'
  BY <1>1, <1>2 DEF GateInv, PoolInv
<1>8. (Covered' <=> Covered) /\ (Fast' <=> Fast)
  BY <1>2, SameChoices
<1>9. DoneInv'
  BY <1>1, <1>2, <1>4, <1>8 DEF HitsInv, DoneInv
<1>10. BufferInv'
  <2>1. PreparedIn(pool.mem, passed) => PreparedIn(pool.mem, passed)'
    BY <1>1, <1>2, SamePrepared
  <2>2. FactorsIn(pool.mem, passed) => FactorsIn(pool.mem, passed)'
    <3>1. CASE Fast BY <1>1, <1>8, <3>1 DEF FactorsIn, Is
    <3>2. CASE ~Fast BY <1>1, <1>8, <3>2 DEF FactorsIn, Is
    <3> QED BY <3>1, <3>2
  <2> QED BY <1>1, <1>8, <2>1, <2>2
          DEF HitsInv, BufferInv, SeedsIn, NoiseSeedsIn, NoiseIn, Is
<1> QED BY <1>3, <1>5, <1>6, <1>7, <1>9, <1>10 DEF GateInv, HitsInv

\* Before the copy of the seeds no buffer has to hold anything.
LEMMA EarlyStep ==
  ASSUME GateInv, HitsInv,
         \/ Launch \/ EnsureLaunchPool \/ StartGate
         \/ \E nonce \in Nonces : GateThread(nonce)
         \/ GatePassed \/ EnsureBatchedPool
  PROVE  HitsInv'
<1>1. pc' \in {"scan", "gate", "threads", "pool", "copy"}
  BY DEF Launch, EnsureLaunchPool, StartGate, GateThread, GatePassed, EnsureBatchedPool
<1> QED BY <1>1 DEF HitsInv, BufferInv, DoneInv, ChainPCs

LEMMA GateEmptyHits ==
  ASSUME GateInv, GateEmpty
  PROVE  HitsInv'
<1>1. /\ pc = "threads" /\ pc' = "idle" /\ threads = {} /\ scan.counter = 0
      /\ UNCHANGED <<fixed, request, passed, judged>>
  BY DEF GateEmpty
<1>2. passed = <<>> /\ judged = <<>> /\ batch = 0
  BY <1>1, EmptySeq DEF GateInv, RequestInv, batch
<1>3. Found(Todo) = {}
  <2>1. Len(Written) = 0 /\ { Written[i] : i \in 1..Len(Written) } = Found(Todo)
    BY <1>1, WrittenAll
  <2>2. 1..0 = {}
    OBVIOUS
  <2> HIDE DEF Written
  <2> QED BY <2>1, <2>2
<1>4. Found(Todo)' = {} /\ batch' = 0
  BY <1>1, <1>2, <1>3, SameChoices DEF batch
<1>5. { passed'[i] : i \in 1..batch' } = {}
  BY <1>4
<1> QED BY <1>1, <1>2, <1>4, <1>5 DEF HitsInv, BufferInv, DoneInv, ChainPCs

LEMMA CopyInHits ==
  ASSUME GateInv, CopyIn
  PROVE  HitsInv'
<1>1. /\ pc' = "matrix" /\ UNCHANGED <<fixed, request, passed>> /\ pool'.targets = job
      /\ Is(pool'.mem, "seed_a", "seed a", passed) /\ Is(pool'.mem, "seed_b", "seed b", passed)
      /\ Is(pool'.mem, "sigma", "sigma", passed)
  BY CopyInKeeps
<1> QED BY <1>1 DEF HitsInv, BufferInv, DoneInv, SeedsIn, Is, request

LEMMA ChainHits ==
  ASSUME HitsInv, BufferInv => BufferInv', pc' # "idle"
  PROVE  HitsInv'
BY DEF HitsInv, DoneInv

LEMMA HitsInit == Init => HitsInv
BY DEF Init, HitsInv, BufferInv, DoneInv, ChainPCs

LEMMA LaunchStep == GateInv /\ HitsInv /\ [Next]_vars => GateInv' /\ HitsInv'
<1> SUFFICES ASSUME GateInv, HitsInv, [Next]_vars PROVE GateInv' /\ HitsInv'
  OBVIOUS
<1>1. CASE Launch BY <1>1, LaunchKeeps, EarlyStep
<1>2. CASE EnsureLaunchPool BY <1>2, EnsureScanKeeps, EarlyStep
<1>3. CASE StartGate BY <1>3, StartGateKeeps, EarlyStep
<1>4. CASE \E nonce \in Nonces : GateThread(nonce) BY <1>4, GateThreadKeeps, EarlyStep
<1>5. CASE GateEmpty BY <1>5, GateEmptyKeeps, GateEmptyHits
<1>6. CASE GatePassed BY <1>6, GatePassedKeeps, EarlyStep
<1>7. CASE EnsureBatchedPool BY <1>7, EnsurePoolKeeps, EarlyStep
<1>8. CASE CopyIn BY <1>8, CopyInKeeps, CopyInHits
<1>9. CASE MatrixBlock
  BY <1>9, MatrixBlockKeeps, ChainHits DEF MatrixBlock, Kernels
<1>10. CASE NoiseSeedBlock
  BY <1>10, SeedBlockKeeps, ChainHits DEF NoiseSeedBlock, Kernels
<1>11. CASE NoiseBlock
  BY <1>11, NoiseBlockKeeps, ChainHits DEF NoiseBlock, Block, Kernels
<1>12. CASE CompressBlock
  BY <1>12, CompressBlockKeeps, ChainHits DEF CompressBlock, Block, Kernels
<1>13. CASE RhsBlock
  BY <1>13, RhsBlockKeeps, ChainHits DEF RhsBlock, Block, Kernels
<1>14. CASE WordsBlock
  BY <1>14, WordsBlockKeeps, ChainHits DEF WordsBlock, Block, Kernels
<1>15. CASE HashBlock
  BY <1>15, HashBlockKeeps, ChainHits DEF HashBlock, Block, Kernels
<1>16. CASE Collect
  <2>1. BufferInv'
    BY <1>16 DEF Collect, BufferInv, ChainPCs
  <2> QED BY <1>16, <2>1, CollectKeeps DEF HitsInv
<1>17. CASE ScanAllocFails \/ PoolAllocFails \/ DeviceFails BY <1>17, FailKeeps
<1>18. CASE UNCHANGED vars BY <1>18, StutterKeeps
<1> QED BY <1>1, <1>2, <1>3, <1>4, <1>5, <1>6, <1>7, <1>8, <1>9, <1>10, <1>11, <1>12,
           <1>13, <1>14, <1>15, <1>16, <1>17, <1>18 DEF Next

LEMMA LaunchInvariant == Spec => [](GateInv /\ HitsInv)
<1>1. Init => GateInv /\ HitsInv
  BY GateInit, HitsInit
<1> QED BY <1>1, LaunchStep, PTL DEF Spec

-----------------------------------------------------------------------------
(* Theorems. *)

LEMMA GateTypes == GateInv => TypeOK
<1> SUFFICES ASSUME GateInv PROVE TypeOK
  OBVIOUS
<1>1. threads \subseteq Nonces
  <2>1. CASE pc = "threads"
    BY <2>1 DEF GateInv, ScanInv, FixedInv, Todo
  <2>2. CASE pc # "threads"
    BY <2>2 DEF GateInv, ScanInv
  <2> QED BY <2>1, <2>2
<1>2. pc \in {"idle", "scan", "gate", "threads", "pool", "copy", "matrix", "seeds",
              "noise", "compress", "rhs", "words", "hash", "collect"}
  BY DEF GateInv, RequestInv, PCs, PassedPCs, ChainPCs
<1>3. /\ scan.cap \in Nat /\ scan.ws \in Nat
      /\ scan.counter \in Nat \cup {Garbage} /\ scan.midstate \in Jobs \cup {Garbage}
      /\ scan.slots \in Seq(Candidate \cup {Garbage})
  BY DEF GateInv, ScanInv, Scan, Slot
<1>4. /\ pool.cap \in Nat /\ pool.batch \in Nat
      /\ pool.shape \in Shapes \cup {Garbage} /\ pool.targets \in Jobs \cup {Garbage}
      /\ pool.mem \in [Buffers -> Content \cup {Garbage}]
  BY DEF GateInv, PoolInv, Pool, Mem
<1> QED BY <1>1, <1>2, <1>3, <1>4
        DEF TypeOK, GateInv, FixedInv, RequestInv, PassedInv, Slot, Tables

\* Every counter, slot, buffer and result of a launch keeps its type: the gate's
\* threads only leave candidates of the launch, and kernels only contents.
THEOREM LaunchTypeCorrect == Spec => []TypeOK
BY LaunchInvariant, GateTypes, PTL

\* A launch looks at all its nonces that pass the gate and, unless the one copy of
\* the round constants has failed, decides each by the digest of that nonce under
\* its own job's target: for any jobs, nonces, shapes and device, and after any
\* failed launches.
THEOREM HitsCorrect == Spec => []HitsTrue
<1>1. GateInv /\ HitsInv => HitsTrue
  BY DEF HitsInv, DoneInv, HitsTrue, Found, Todo
<1> QED BY <1>1, LaunchInvariant, PTL

\* A candidate takes a whole number of elements of every buffer.
LEMMA ElementsType ==
  ASSUME NEW s \in Shapes, NEW b \in Buffers
  PROVE  Elements(b, s) \in Nat
<1> DEFINE Full == b \in {"base_a", "base_b", "matrix_a", "matrix_b"}
           Thin == b \in {"noise_el", "noise_er", "noise_fl", "noise_fr"}
           blocks == s.n \div s.b
<1>1. s.n \in Nat /\ s.b \in Nat \ {0} /\ s.r \in Nat /\ blocks \in Nat
  BY LaunchAssumption, QuotientNat
<1>2. /\ s.n * s.n \in Nat /\ s.n * s.r \in Nat /\ s.b * s.b \in Nat
      /\ blocks * blocks \in Nat
  <2> HIDE DEF blocks
  <2> QED BY <1>1, ProductNat
<1>3. CASE Full
  <2>1. ~Thin /\ b # "compress" /\ b # "words"
    BY <1>3
  <2>2. Elements(b, s) = s.n * s.n
    BY <1>3, <2>1, Zenon DEF Elements
  <2> QED BY <1>2, <2>2
<1>4. CASE Thin
  <2>1. ~Full /\ b # "compress" /\ b # "words"
    BY <1>4
  <2>2. Elements(b, s) = s.n * s.r
    BY <1>4, <2>1, Zenon DEF Elements
  <2> QED BY <1>2, <2>2
<1>5. CASE b = "compress"
  <2>1. ~Full /\ ~Thin /\ b # "words"
    BY <1>5
  <2>2. Elements(b, s) = s.b * s.b
    BY <1>5, <2>1, Zenon DEF Elements
  <2> QED BY <1>2, <2>2
<1>6. CASE b = "words"
  <2>1. ~Full /\ ~Thin /\ b # "compress"
    BY <1>6
  <2>2. Elements(b, s) = blocks * blocks
    BY <1>6, <2>1, Zenon DEF Elements
  <2> QED BY <1>2, <2>2
<1>7. CASE ~Full /\ ~Thin /\ b # "compress" /\ b # "words"
  <2>1. Elements(b, s) = 1
    BY <1>7, Zenon DEF Elements
  <2> QED BY <2>1
<1> QED BY <1>3, <1>4, <1>5, <1>6, <1>7

LEMMA BaseElements ==
  ASSUME NEW s \in Shapes
  PROVE  Elements("base_a", s) = s.n * s.n
<1>1. /\ "base_a" \in {"base_a", "base_b", "matrix_a", "matrix_b"}
      /\ "base_a" \notin {"noise_el", "noise_er", "noise_fl", "noise_fr"}
      /\ "base_a" # "compress" /\ "base_a" # "words"
  OBVIOUS
<1> QED BY <1>1, Zenon DEF Elements

LEMMA ProductMonotone ==
  ASSUME NEW a \in Nat, NEW b \in Nat, NEW e \in Nat, a <= b
  PROVE  a * e <= b * e
<1>1. PICK c \in Nat : b = a + c
  <2>1. b - a \in Nat /\ b = a + (b - a)
    OBVIOUS
  <2> QED BY <2>1
<1>2. b * e = a * e + c * e /\ c * e \in Nat /\ a * e \in Nat
  BY <1>1
<1> QED BY <1>2

\* As long as all jobs of a daemon have one shape, the chain's buffers are large
\* enough for every launch that uses them.
LEMMA PoolLargeEnough ==
  ASSUME GateInv, ~Mixed, pc \in ChainPCs
  PROVE  /\ pool.batch \in Nat /\ pool.batch > 0 /\ batch \in Nat /\ batch <= pool.batch
         /\ pool.shape = shape /\ shape \in Shapes
<1>1. pool.batch \in Nat /\ pool.batch = pool.cap /\ pool.cap >= batch /\ batch > 0
  BY DEF GateInv, PoolInv, Pool
<1>2. batch \in Nat
  BY DEF GateInv, PassedInv, batch
<1>3. pool.cap > 0
  BY <1>1, <1>2
<1>4. PICK j \in Jobs : pool.shape = shapeOf[j]
  BY <1>3 DEF GateInv, PoolInv
<1>5. shapeOf[j] = shape /\ shape \in Shapes
  BY ShapeType DEF GateInv, FixedInv, RequestInv, shape
<1> QED BY <1>1, <1>2, <1>3, <1>4, <1>5

\* No kernel reads or writes beyond its buffers when all jobs of a daemon have
\* one shape, also after launches that failed half-way.
THEOREM BoundsCorrect ==
  ASSUME ~Mixed
  PROVE  Spec => []InBounds
<1>1. ASSUME GateInv PROVE InBounds
  <2>1. pc = "threads" => scan.counter + Cardinality(threads) <= Len(scan.slots)
    BY <1>1 DEF GateInv, ScanInv
  <2>2. ASSUME pc \in ChainPCs
        PROVE  /\ pool.batch > 0
               /\ \A b \in Buffers :
                    batch * Elements(b, shape) <= pool.batch * Elements(b, pool.shape)
               /\ Wmma => batch * PartialElements
                            <= pool.batch * Elements("base_a", pool.shape)
    <3>1. /\ pool.batch \in Nat /\ pool.batch > 0 /\ batch \in Nat /\ batch <= pool.batch
          /\ pool.shape = shape /\ shape \in Shapes
      BY <1>1, <2>2, PoolLargeEnough
    <3>2. \A b \in Buffers :
            batch * Elements(b, shape) <= pool.batch * Elements(b, pool.shape)
      BY <3>1, ElementsType, ProductMonotone
    <3>3. ASSUME Wmma
          PROVE  batch * PartialElements <= pool.batch * Elements("base_a", pool.shape)
      <4>1. shape.n = 512
        BY <3>3 DEF Wmma, Fast, IsFast
      <4>2. Elements("base_a", pool.shape) = 262144 /\ PartialElements = 65536
        BY <3>1, <4>1, BaseElements DEF PartialElements
      <4>3. batch * 65536 <= pool.batch * 262144
        BY <3>1
      <4> QED BY <4>2, <4>3
    <3> QED BY <3>1, <3>2, <3>3
  <2> QED BY <2>1, <2>2 DEF InBounds, ChainPCs
<1> QED BY <1>1, LaunchInvariant, PTL
=============================================================================

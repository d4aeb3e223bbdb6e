-------------------------- MODULE SoloMinerProofs --------------------------
(***************************************************************************)
(* Theorems of SoloMiner, for any contents of the templates, any fee, any  *)
(* fork heights and any moves of the node: type correctness, that a block  *)
(* found assembles to what was mined, and that its fee split pays out all. *)
(***************************************************************************)
EXTENDS SoloMiner, TLAPS

-----------------------------------------------------------------------------
(* Templates, jobs and the cache. *)

LEMMA TemplateFields ==
  ASSUME NEW gbt \in Template
  PROVE  gbt.height \in Nat /\ gbt.prev \in Nat /\ gbt.body \in Bodies
BY DEF Template

LEMMA JobFields ==
  ASSUME NEW job \in Job
  PROVE  /\ job.height \in Nat /\ job.prev \in Nat /\ job.body \in Bodies
         /\ job.bps \in DevFee /\ job.mtp \in Nat \cup {NoMtp} /\ job.seeds \in Nat
BY DEF Job

\* What _job_from_template makes: seeds of the parent, and its median time where
\* the fork needs it.
JobOK(job) ==
  /\ job \in Job
  /\ job.seeds = job.prev
  /\ job.height >= V3Height =>
       /\ job.mtp # NoMtp
       /\ offers # {"template"} => job.mtp = job.prev

LEMMA ParentMtpType ==
  ASSUME NEW gbt \in Template, NEW challenge \in Template
  PROVE  /\ ParentMtp(gbt, challenge) \in Nat \cup {NoMtp}
         /\ gbt.height >= V3Height =>
              /\ ParentMtp(gbt, challenge) \in Nat
              /\ offers # {"template"} => ParentMtp(gbt, challenge) = challenge.prev
<1>1. CASE "challenge" \in offers BY <1>1, TemplateFields DEF ParentMtp
<1>2. CASE "challenge" \notin offers /\ offers = {"template"}
  BY <1>2, TemplateFields DEF ParentMtp
<1>3. CASE "challenge" \notin offers /\ offers # {"template"}
  BY <1>3, TemplateFields DEF ParentMtp
<1>. QED BY <1>1, <1>2, <1>3

LEMMA JobFromOK ==
  ASSUME NEW gbt \in Template, NEW challenge \in Template, feeBps \in DevFee
  PROVE  /\ JobOK(JobFrom(gbt, challenge))
         /\ JobFrom(gbt, challenge).height = gbt.height
         /\ JobFrom(gbt, challenge).body = gbt.body
         /\ JobFrom(gbt, challenge).bps = feeBps
<1>. DEFINE job == JobFrom(gbt, challenge)
            mtp == ParentMtp(gbt, challenge)
<1>1. /\ mtp \in Nat \cup {NoMtp}
      /\ gbt.height >= V3Height =>
           mtp \in Nat /\ (offers # {"template"} => mtp = challenge.prev)
  BY ParentMtpType
<1>2. job = [ height |-> gbt.height, prev |-> challenge.prev, body |-> gbt.body,
              bps |-> feeBps, mtp |-> mtp, seeds |-> challenge.prev ]
  BY DEF JobFrom
<1>. HIDE DEF job, mtp
<1>3. job \in Job BY <1>1, <1>2, TemplateFields DEF Job
<1>4. NoMtp \notin Nat BY SoloAssumption
<1>5. JobOK(job) BY <1>1, <1>2, <1>3, <1>4 DEF JobOK
<1>. QED BY <1>2, <1>5 DEF job

Under(job) == {entry \in gbtByJob : entry.id = JobId(job)}

\* Under the id of a job lies the template it is made of, once.
CachedOK(job) ==
  /\ \E gbt \in Template :
       /\ Under(job) = {[id |-> JobId(job), gbt |-> gbt]}
       /\ gbt.height = job.height /\ gbt.body = job.body
  /\ job.bps = feeBps

LEMMA CachedIsOK ==
  ASSUME NEW gbt \in Template, NEW challenge \in Template, feeBps \in DevFee,
         NEW job, job = JobFrom(gbt, challenge),
         gbtByJob' = Cached(job, gbt), feeBps' = feeBps
  PROVE  CachedOK(job)'
<1>1. Under(job)' = {[id |-> JobId(job), gbt |-> gbt]}
  BY DEF Under, Cached, JobId
<1>2. gbt.height = job.height /\ gbt.body = job.body /\ job.bps = feeBps
  BY JobFromOK
<1>. QED BY <1>1, <1>2 DEF CachedOK, JobId

-----------------------------------------------------------------------------
(* Types. *)

LEMMA SoloTypeInit == Init => TypeOK
<1>. SUFFICES ASSUME Init PROVE TypeOK OBVIOUS
<1>1. node \in Template BY DEF Init, Template
<1>2. struck \in BOOLEAN BY Zenon DEF Init
<1>3. moves \in 0..MaxMoves /\ errors \in 0..MaxErrors BY SoloAssumption DEF Init
<1>. QED BY <1>1, <1>2, <1>3 DEF Init, TypeOK, PCs

LEMMA CachedType ==
  ASSUME TypeOK, NEW job \in Job, NEW gbt \in Template
  PROVE  \A entry \in Cached(job, gbt) :
           entry.id \in Nat \X Nat /\ entry.gbt \in Template
<1>1. JobId(job) \in Nat \X Nat BY JobFields DEF JobId
<1>. QED BY <1>1 DEF Cached, TypeOK

LEMMA SoloTypeStep == ASSUME TypeOK, [Next]_vars PROVE TypeOK'
<1>1. CASE NodeMoves
  <2>1. PICK h \in {node.height, node.height + 1}, p \in {node.prev, moves + 1},
             b \in Bodies : node' = [height |-> h, prev |-> p, body |-> b]
    BY <1>1 DEF NodeMoves
  <2>2. node' \in Template BY <2>1, TemplateFields DEF TypeOK, Template
  <2>3. moves' \in 0..MaxMoves BY <1>1, SoloAssumption DEF NodeMoves, TypeOK
  <2>. QED BY <1>1, <2>2, <2>3 DEF NodeMoves, TypeOK, client
<1>2. CASE GetTemplate \/ PollTemplate
  <2>1. node # NoTemplate BY NoTemplateAssumption DEF TypeOK
  <2>. QED
    BY <1>2, <2>1
    DEF GetTemplate, PollTemplate, Fetch, TypeOK, PCs, nodeVars, client
<1>3. CASE GetChallenge \/ PollChallenge
  <2>1. fetched \in Template /\ node \in Template /\ feeBps \in DevFee
    BY <1>3 DEF GetChallenge, PollChallenge, TypeOK
  <2>. DEFINE job == JobFrom(fetched, node)
  <2>2. job \in Job BY <2>1, JobFromOK DEF JobOK
  <2>3. \A entry \in gbtByJob' : entry.id \in Nat \X Nat /\ entry.gbt \in Template
    BY <1>3, <2>1, <2>2, CachedType DEF GetChallenge, PollChallenge
  <2>. HIDE DEF job
  <2>4. CASE GetChallenge
    <3>1. currentJob' = job /\ solveJob' = job BY <2>4 DEF GetChallenge, job
    <3>2. job # NoTemplate BY <2>2, NoTemplateAssumption
    <3>. QED BY <2>2, <2>3, <2>4, <3>1, <3>2 DEF GetChallenge, TypeOK, PCs, nodeVars
  <2>5. CASE PollChallenge
    <3>1. clientJob' = job BY <2>5 DEF PollChallenge, job
    <3>. QED BY <2>2, <2>3, <2>5, <3>1 DEF PollChallenge, TypeOK, PCs, nodeVars
  <2>. QED BY <1>3, <2>4, <2>5
<1>4. CASE GetJobFails \/ PollFails \/ ReconnectFails
  <2>1. errors' \in 0..MaxErrors
    BY <1>4, SoloAssumption DEF GetJobFails, PollFails, ReconnectFails, CallFails, TypeOK
  <2>2. \/ pc' \in {"top", "offline"}
        \/ pc' = "check" /\ pc \in {"poll", "pollmore"}
    BY <1>4 DEF GetJobFails, PollFails, ReconnectFails
  <2>3. UNCHANGED <<nodeVars, struck, client, currentJob, solveJob, attempts>>
        /\ fetched' \in {fetched, NoTemplate}
    BY <1>4 DEF GetJobFails, PollFails, ReconnectFails
  <2>. QED BY <2>1, <2>2, <2>3 DEF TypeOK, PCs, nodeVars, client
<1>5. CASE StartSlice \/ NoBlock \/ SubmitBlock \/ CheckJob \/ Reconnect
  BY <1>5 DEF StartSlice, NoBlock, SubmitBlock, CheckJob, Reconnect, Polled, TypeOK,
              PCs, nodeVars, client
<1>6. CASE FindBlock
  BY <1>6 DEF FindBlock, TypeOK, PCs, nodeVars, client
<1>8. CASE ScanFails
  <2>1. errors' \in 0..MaxErrors
    BY <1>8, SoloAssumption DEF ScanFails, CallFails, TypeOK
  <2>2. struck' \in BOOLEAN BY <1>8, Zenon DEF ScanFails
  <2>. QED BY <1>8, <2>1, <2>2 DEF ScanFails, TypeOK, PCs, nodeVars, client
<1>7. CASE UNCHANGED vars
  BY <1>7 DEF vars, TypeOK, nodeVars, client
<1>. QED BY <1>1, <1>2, <1>3, <1>4, <1>5, <1>6, <1>7, <1>8 DEF Next, Loop

\* Every variable keeps its type, and no slice runs without a job.
THEOREM SoloTypeCorrect == Spec => []TypeOK
BY SoloTypeInit, SoloTypeStep, PTL DEF Spec

-----------------------------------------------------------------------------
(* The cache and the job being mined. *)

\* The job the loop will mine next, or goes on mining, is the one whose template is
\* cached.  A job that has been polled replaces both; it waits for one look only.
SoloInv ==
  /\ pc # "check" => clientJob = NoTemplate
  /\ pc \in {"solve", "submit"} => solveJob = currentJob
  /\ Polled # NoTemplate => JobOK(Polled) /\ CachedOK(Polled)

LEMMA SoloInit == Init => SoloInv
BY DEF Init, SoloInv, Polled

\* Steps that leave the client and the current job alone.
LEMMA SameJobs ==
  ASSUME TypeOK, SoloInv, UNCHANGED <<offers, client, currentJob>>,
         pc # "check", pc' \in {"solve", "submit"} => solveJob' = currentJob
  PROVE  SoloInv'
BY DEF SoloInv, Polled, JobOK, CachedOK, Under, JobId, client

LEMMA SoloStep == ASSUME TypeOK, SoloInv, [Next]_vars PROVE SoloInv'
<1>1. CASE NodeMoves \/ UNCHANGED vars
  <2>1. UNCHANGED <<offers, client, currentJob, solveJob, pc>>
    BY <1>1 DEF NodeMoves, vars, nodeVars
  <2>. QED BY <2>1 DEF SoloInv, Polled, JobOK, CachedOK, Under, JobId, client
<1>2. CASE GetTemplate \/ PollTemplate
  <2>1. UNCHANGED <<offers, client, currentJob>> /\ pc # "check"
        /\ pc' \notin {"solve", "submit"}
    BY <1>2 DEF GetTemplate, PollTemplate, Fetch, nodeVars
  <2>. QED BY <2>1, SameJobs
<1>3. CASE GetChallenge \/ PollChallenge
  <2>1. fetched \in Template /\ node \in Template /\ feeBps \in DevFee
    BY <1>3 DEF GetChallenge, PollChallenge, TypeOK
  <2>. PICK job : job = JobFrom(fetched, node) OBVIOUS
  <2>2. JobOK(job) /\ job # NoTemplate
    BY <2>1, JobFromOK, NoTemplateAssumption DEF JobOK
  <2>3. gbtByJob' = Cached(job, fetched) /\ feeBps' = feeBps /\ offers' = offers
    BY <1>3 DEF GetChallenge, PollChallenge, nodeVars
  <2>4. CachedOK(job)'
    <3>1. PICK gbt \in Template, challenge \in Template :
            gbt = fetched /\ challenge = node
      BY <2>1
    <3>2. job = JobFrom(gbt, challenge) /\ gbtByJob' = Cached(job, gbt)
      BY <2>3, <3>1
    <3>. QED BY <2>1, <2>3, <3>2, CachedIsOK
  <2>5. JobOK(job)' BY <2>2, <2>3 DEF JobOK
  <2>6. CASE GetChallenge
    <3>1. /\ currentJob' = job /\ solveJob' = job /\ clientJob' = NoTemplate
          /\ pc' = "solve"
      BY <2>6 DEF GetChallenge, SoloInv
    <3>2. Polled' = job BY <3>1 DEF Polled
    <3>3. JobOK(Polled)' /\ CachedOK(Polled)'
      BY <2>4, <2>5, <3>2 DEF JobOK, CachedOK, Under, JobId
    <3>. QED BY <3>1, <3>3 DEF SoloInv
  <2>7. CASE PollChallenge
    <3>1. clientJob' = job /\ pc' = "check" BY <2>7 DEF PollChallenge
    <3>2. Polled' = job BY <2>2, <3>1 DEF Polled
    <3>3. JobOK(Polled)' /\ CachedOK(Polled)'
      BY <2>4, <2>5, <3>2 DEF JobOK, CachedOK, Under, JobId
    <3>. QED BY <3>1, <3>3 DEF SoloInv
  <2>. QED BY <1>3, <2>6, <2>7
<1>4. CASE GetJobFails \/ PollFails \/ ReconnectFails
  <2>1. UNCHANGED <<offers, client, currentJob>> /\ pc # "check"
        /\ pc' \notin {"solve", "submit"}
    BY <1>4 DEF GetJobFails, PollFails, ReconnectFails, nodeVars
  <2>. QED BY <2>1, SameJobs
<1>5. CASE StartSlice \/ NoBlock \/ ScanFails \/ FindBlock \/ SubmitBlock
  <2>1. UNCHANGED <<offers, client, currentJob>> /\ pc # "check"
        /\ (pc' \in {"solve", "submit"} => solveJob' = currentJob)
    BY <1>5 DEF StartSlice, NoBlock, ScanFails, FindBlock, SubmitBlock, nodeVars, SoloInv
  <2>. QED BY <2>1, SameJobs
<1>6. CASE CheckJob
  <2>1. /\ currentJob' = Polled /\ clientJob' = NoTemplate /\ pc' = "top"
        /\ UNCHANGED <<offers, feeBps, gbtByJob>>
    BY <1>6 DEF CheckJob, nodeVars
  <2>2. Polled' = Polled BY <2>1 DEF Polled
  <2>. QED BY <2>1, <2>2 DEF SoloInv, JobOK, CachedOK, Under, JobId
<1>7. CASE Reconnect
  BY <1>7 DEF Reconnect, SoloInv, Polled
<1>. QED BY <1>1, <1>2, <1>3, <1>4, <1>5, <1>6, <1>7 DEF Next, Loop

\* On both sides of each fork the block builder and the daemon make the same seeds.
LEMMA SeedsAgree ==
  ASSUME NEW job \in Job, NEW nonce
  PROVE  resolve_header_seeds(Header(job), nonce) = PrepareNonceSeeds(Header(job), nonce)
<1>. DEFINE h == Header(job)
<1>1. h.height \in Nat BY JobFields DEF Header
<1>2. V2Height \in Nat /\ V3Height \in Nat BY HeightAssumption
<1>3. /\ [i \in 1..2 |-> derive_v2_seed(h, nonce, i - 1)]
           = [i \in 1..2 |-> DeterministicMatMulSeedV2(h, nonce, i - 1)]
      /\ [i \in 1..2 |-> derive_v3_seed(h, nonce, i - 1)]
           = [i \in 1..2 |-> DeterministicMatMulSeedV3(h, nonce, i - 1)]
  BY DEF derive_v2_seed, derive_v3_seed, DeterministicMatMulSeedV2,
         DeterministicMatMulSeedV3
<1>. HIDE DEF h
<1>4. CASE h.height >= V3Height
  <2>1. resolve_header_seeds(h, nonce) = [i \in 1..2 |-> derive_v3_seed(h, nonce, i - 1)]
    <3>1. h.height \notin V2Height..V3Height - 1 BY <1>1, <1>2, <1>4
    <3>. QED BY <1>4, <3>1, Zenon DEF resolve_header_seeds
  <2>2. PrepareNonceSeeds(h, nonce)
          = [i \in 1..2 |-> DeterministicMatMulSeedV3(h, nonce, i - 1)]
    BY <1>4, Zenon DEF PrepareNonceSeeds
  <2>. QED BY <1>3, <2>1, <2>2, Zenon DEF h
<1>5. CASE ~(h.height >= V3Height) /\ h.height >= V2Height
  <2>1. h.height \in V2Height..V3Height - 1 BY <1>1, <1>2, <1>5
  <2>2. resolve_header_seeds(h, nonce) = [i \in 1..2 |-> derive_v2_seed(h, nonce, i - 1)]
    BY <1>5, <2>1, Zenon DEF resolve_header_seeds
  <2>3. PrepareNonceSeeds(h, nonce)
          = [i \in 1..2 |-> DeterministicMatMulSeedV2(h, nonce, i - 1)]
    BY <1>5, Zenon DEF PrepareNonceSeeds
  <2>. QED BY <1>3, <2>2, <2>3, Zenon DEF h
<1>6. CASE ~(h.height >= V3Height) /\ ~(h.height >= V2Height)
  <2>1. h.height \notin V2Height..V3Height - 1 BY <1>1, <1>2, <1>6
  <2>2. resolve_header_seeds(h, nonce) = h.seeds
    BY <1>6, <2>1, Zenon DEF resolve_header_seeds
  <2>3. PrepareNonceSeeds(h, nonce) = h.seeds
    BY <1>6, Zenon DEF PrepareNonceSeeds
  <2>. QED BY <2>2, <2>3 DEF h
<1>. QED BY <1>4, <1>5, <1>6 DEF h

LEMMA InvAssembles == ASSUME TypeOK, SoloInv PROVE BlockAssembles
<1>. SUFFICES ASSUME pc \in {"solve", "submit"}
              PROVE  \E gbt \in CachedGbt :
      /\ CachedGbt = {gbt}
      /\ Assembles(gbt.height, gbt.body, feeBps, merkle_root(solveJob))
      /\ gbt.body = solveJob.body
      /\ DaemonTakes(solveJob) /\ SeedsResolve(solveJob)
      /\ resolve_header_seeds(Header(solveJob), "nonce")
           = PrepareNonceSeeds(Header(solveJob), "nonce")
      /\ solveJob.height >= V3Height /\ offers # {"template"} =>
           solveJob.mtp = solveJob.prev
  BY DEF BlockAssembles
<1>1. solveJob # NoTemplate /\ Polled = solveJob
  BY DEF TypeOK, SoloInv, Polled
<1>2. JobOK(solveJob) /\ CachedOK(solveJob) BY <1>1 DEF SoloInv
<1>3. PICK gbt \in Template :
        /\ Under(solveJob) = {[id |-> JobId(solveJob), gbt |-> gbt]}
        /\ gbt.height = solveJob.height /\ gbt.body = solveJob.body
  BY <1>2 DEF CachedOK
<1>4. CachedGbt = {gbt}
  <2>1. CachedGbt = {entry.gbt : entry \in Under(solveJob)} BY DEF CachedGbt, Under
  <2>. QED BY <1>3, <2>1
<1>5. Assembles(gbt.height, gbt.body, feeBps, merkle_root(solveJob))
  BY <1>2, <1>3 DEF Assembles, merkle_root, CachedOK
<1>6. solveJob \in Job /\ solveJob.height \in Nat BY <1>2, JobFields DEF JobOK
<1>7. DaemonTakes(solveJob) /\ SeedsResolve(solveJob)
  BY <1>2, <1>6, HeightAssumption DEF JobOK, DaemonTakes, SeedsResolve
<1>8. solveJob.height >= V3Height /\ offers # {"template"} => solveJob.mtp = solveJob.prev
  BY <1>2 DEF JobOK
<1>9. resolve_header_seeds(Header(solveJob), "nonce")
        = PrepareNonceSeeds(Header(solveJob), "nonce")
  BY <1>6, SeedsAgree
<1>. QED BY <1>3, <1>4, <1>5, <1>7, <1>8, <1>9

\* A block found is put together from the template its job was made of, with the
\* fee of its merkle root and the seeds of the daemon, for all moves of the node.
THEOREM BlockCorrect == Spec => []BlockAssembles
BY SoloTypeInit, SoloTypeStep, SoloInit, SoloStep, InvAssembles, PTL DEF Spec

-----------------------------------------------------------------------------
(* The fee split of a coinbase. *)

\* Division rounds down and loses less than its divisor.
LEMMA DivisionBounds ==
  ASSUME NEW p \in Nat
  PROVE  /\ p \div 10000 \in Nat
         /\ 10000 * (p \div 10000) <= p
         /\ p < 10000 * (p \div 10000) + 10000
OBVIOUS

\* A product grows with its factor.
LEMMA ProductGrows ==
  ASSUME NEW v \in Nat, NEW a \in Nat, NEW b \in Nat, a <= b
  PROVE  v * a \in Nat /\ v * b \in Nat /\ v * a <= v * b
<1>1. v * a \in Nat /\ v * b \in Nat
  OBVIOUS
<1>2. PICK c \in Nat : b = a + c
  <2>1. b - a \in Nat /\ b = a + (b - a)
    OBVIOUS
  <2> QED BY <2>1
<1>3. v * b = v * a + v * c /\ v * c \in Nat
  BY <1>2
<1> QED BY <1>1, <1>3

\* The split hands out the value, and to the developer what is due in 1/10000.
SplitPays(split, value, due) ==
  /\ split.user \in Nat /\ split.dev \in Nat
  /\ split.user + split.dev = value
  /\ 10000 * split.dev <= due
  /\ due < 10000 * split.dev + 10000

\* Whatever the node says the block is worth and whatever fee is configured,
\* the user and the developer together get all of it, neither gets less than
\* nothing, and the developer gets his basis points rounded down, also when the
\* code takes one of its early returns (split_coinbase_value).
THEOREM SplitPaysAll ==
  ASSUME NEW value \in Nat, NEW bps \in Nat, bps <= 10000
  PROVE  SplitPays(SplitCoinbaseValue(value, bps), value, value * bps)
<1> DEFINE product == value * bps
           dev == product \div 10000
           split == SplitCoinbaseValue(value, bps)
<1>1. product \in Nat /\ product <= value * 10000
  BY ProductGrows
<1>2. dev \in Nat /\ 10000 * dev <= product /\ product < 10000 * dev + 10000
  <2> HIDE DEF product
  <2> QED BY <1>1, DivisionBounds
<1>3. dev <= value
  <2> HIDE DEF product, dev
  <2> QED BY <1>1, <1>2
<1>4. value = 0 \/ bps = 0 => product = 0
  <2>1. value * 0 = 0 /\ 0 * bps = 0
    OBVIOUS
  <2> QED BY <2>1
<1>5. split = IF bps <= 0 \/ value <= 0 \/ dev <= 0 THEN [user |-> value, dev |-> 0]
              ELSE IF dev >= value THEN [user |-> 0, dev |-> value]
              ELSE [user |-> value - dev, dev |-> dev]
  <2>1. (IF bps > 10000 THEN 10000 ELSE bps) = bps
    OBVIOUS
  <2> QED BY <2>1 DEF SplitCoinbaseValue
<1> HIDE DEF product, dev, split
<1>6. ASSUME bps <= 0 \/ value <= 0 \/ dev <= 0 PROVE SplitPays(split, value, product)
  <2>1. split = [user |-> value, dev |-> 0]
    BY <1>5, <1>6
  <2>2. split.user = value /\ split.dev = 0
    BY <2>1
  <2>3. dev = 0
    <3>1. CASE dev <= 0
      BY <1>2, <3>1
    <3>2. CASE bps <= 0 \/ value <= 0
      <4>1. value = 0 \/ bps = 0
        BY <3>2
      <4>2. product = 0
        BY <1>4, <4>1
      <4> QED BY <1>2, <4>2
    <3> QED BY <1>6, <3>1, <3>2
  <2>4. product < 10000
    BY <1>2, <2>3
  <2> QED BY <1>1, <2>2, <2>4 DEF SplitPays
<1>7. ASSUME ~(bps <= 0 \/ value <= 0 \/ dev <= 0) PROVE SplitPays(split, value, product)
  <2>1. split.user = value - dev /\ split.dev = dev
    <3>1. CASE dev >= value
      <4>1. split = [user |-> 0, dev |-> value] /\ dev = value
        BY <1>2, <1>3, <1>5, <1>7, <3>1
      <4>2. split.user = 0 /\ split.dev = value
        BY <4>1
      <4> QED BY <4>1, <4>2
    <3>2. CASE ~(dev >= value)
      <4>1. split = [user |-> value - dev, dev |-> dev]
        BY <1>5, <1>7, <3>2
      <4> QED BY <4>1
    <3> QED BY <3>1, <3>2
  <2>2. value - dev \in Nat /\ value - dev + dev = value
    BY <1>2, <1>3
  <2> QED BY <1>2, <2>1, <2>2 DEF SplitPays
<1>8. SplitPays(split, value, product)
  BY <1>6, <1>7
<1> QED BY <1>8 DEF product, split

\* What an output adds to what the scripts are paid.
Share(output, scripts) == IF output.script \in scripts THEN output.value ELSE 0

\* The recursion of Paid.
Sums(sum, outputs, scripts) ==
  sum = [n \in 0..Len(outputs) |->
           IF n = 0 THEN 0 ELSE sum[n - 1] + Share(outputs[n], scripts)]

LEMMA PaidSums ==
  ASSUME NEW outputs, NEW scripts, NEW f, Sums(f, outputs, scripts)
  PROVE  \E sum : Sums(sum, outputs, scripts) /\ Paid(outputs, scripts) = sum[Len(outputs)]
BY DEF Paid, Sums, Share

\* A coinbase has one, two or three outputs.
LEMMA PaidOne ==
  ASSUME NEW outputs, NEW scripts, Len(outputs) = 1,
         NEW x \in Nat, x = Share(outputs[1], scripts)
  PROVE  Paid(outputs, scripts) = x
<1>. PICK f : f = [n \in 0..1 |-> IF n = 0 THEN 0 ELSE x] OBVIOUS
<1>1. Sums(f, outputs, scripts) BY DEF Sums
<1>2. PICK sum : Sums(sum, outputs, scripts) /\ Paid(outputs, scripts) = sum[1]
  BY <1>1, PaidSums
<1>3. sum[0] = 0 /\ sum[1] = sum[0] + x BY <1>2 DEF Sums
<1>. QED BY <1>2, <1>3

LEMMA PaidTwo ==
  ASSUME NEW outputs, NEW scripts, Len(outputs) = 2,
         NEW x \in Nat, x = Share(outputs[1], scripts),
         NEW y \in Nat, y = Share(outputs[2], scripts)
  PROVE  Paid(outputs, scripts) = x + y
<1>. PICK f : f = [n \in 0..2 |-> IF n = 0 THEN 0 ELSE IF n = 1 THEN x ELSE x + y]
  OBVIOUS
<1>1. Sums(f, outputs, scripts) BY DEF Sums
<1>2. PICK sum : Sums(sum, outputs, scripts) /\ Paid(outputs, scripts) = sum[2]
  BY <1>1, PaidSums
<1>3. sum[0] = 0 /\ sum[1] = sum[0] + x /\ sum[2] = sum[1] + y BY <1>2 DEF Sums
<1>. QED BY <1>2, <1>3

LEMMA PaidThree ==
  ASSUME NEW outputs, NEW scripts, Len(outputs) = 3,
         NEW x \in Nat, x = Share(outputs[1], scripts),
         NEW y \in Nat, y = Share(outputs[2], scripts),
         NEW z \in Nat, z = Share(outputs[3], scripts)
  PROVE  Paid(outputs, scripts) = x + y + z
<1>. PICK f : f = [n \in 0..3 |-> IF n = 0 THEN 0 ELSE IF n = 1 THEN x
                                  ELSE IF n = 2 THEN x + y ELSE x + y + z]
  OBVIOUS
<1>1. Sums(f, outputs, scripts) BY DEF Sums
<1>2. PICK sum : Sums(sum, outputs, scripts) /\ Paid(outputs, scripts) = sum[3]
  BY <1>1, PaidSums
<1>3. /\ sum[0] = 0 /\ sum[1] = sum[0] + x /\ sum[2] = sum[1] + y /\ sum[3] = sum[2] + z
  BY <1>2 DEF Sums
<1>. QED BY <1>2, <1>3

\* The outputs, of which the last two may be missing.
User(n) == [value |-> n, script |-> <<"user">>]
Dev(n) == [value |-> n, script |-> <<"dev">>]
Commitment == [value |-> 0, script |-> <<"commitment", <<"of the node">>>>]

\* They pay what the split says: all to the user and the developer, and to the
\* developer's script what is his.
OutputsPay(outputs, split) ==
  /\ Paid(outputs, {outputs[i].script : i \in DOMAIN outputs}) = split.user + split.dev
  /\ Paid(outputs, {<<"dev">>}) = split.dev
  /\ \A i \in DOMAIN outputs : outputs[i].value >= 0

LEMMA OutputFields ==
  ASSUME NEW n
  PROVE  /\ User(n).value = n /\ User(n).script = <<"user">>
         /\ Dev(n).value = n /\ Dev(n).script = <<"dev">>
         /\ Commitment.value = 0
         /\ User(n).script # <<"dev">> /\ Commitment.script # <<"dev">>
<1>1. User(n).value = n /\ User(n).script = <<"user">> BY DEF User
<1>2. Dev(n).value = n /\ Dev(n).script = <<"dev">> BY DEF Dev
<1>3. /\ Commitment.value = 0
      /\ Commitment.script = <<"commitment", <<"of the node">>>>
  BY Zenon DEF Commitment
<1>4. <<"user">> # <<"dev">> OBVIOUS
<1>5. <<"commitment", <<"of the node">>>> # <<"dev">> OBVIOUS
<1>. QED BY <1>1, <1>2, <1>3, <1>4, <1>5, Zenon

LEMMA ShareIf ==
  ASSUME NEW output, NEW scripts
  PROVE  /\ output.script \in scripts => Share(output, scripts) = output.value
         /\ output.script \notin scripts => Share(output, scripts) = 0
BY Zenon DEF Share

\* What each output pays to the developer's script, and to any set that holds its own.
LEMMA DevShares ==
  ASSUME NEW n
  PROVE  /\ Share(User(n), {<<"dev">>}) = 0
         /\ Share(Dev(n), {<<"dev">>}) = n
         /\ Share(Commitment, {<<"dev">>}) = 0
<1>1. User(n).script \notin {<<"dev">>} BY OutputFields, Zenon
<1>2. Dev(n).script \in {<<"dev">>} BY OutputFields, Zenon
<1>3. Commitment.script \notin {<<"dev">>} BY OutputFields, Zenon
<1>4. Share(User(n), {<<"dev">>}) = 0 BY <1>1, ShareIf, Zenon
<1>5. Share(Dev(n), {<<"dev">>}) = Dev(n).value BY <1>2, ShareIf, Zenon
<1>6. Share(Commitment, {<<"dev">>}) = 0 BY <1>3, ShareIf, Zenon
<1>7. Dev(n).value = n BY OutputFields, Zenon
<1>. QED BY <1>4, <1>5, <1>6, <1>7, Zenon

LEMMA OwnShares ==
  ASSUME NEW n, NEW scripts
  PROVE  /\ User(n).script \in scripts => Share(User(n), scripts) = n
         /\ Dev(n).script \in scripts => Share(Dev(n), scripts) = n
         /\ Share(Commitment, scripts) = 0
<1>1. User(n).value = n /\ Dev(n).value = n /\ Commitment.value = 0
  BY OutputFields, Zenon
<1>2. User(n).script \in scripts => Share(User(n), scripts) = n
  BY <1>1, ShareIf, Zenon
<1>3. Dev(n).script \in scripts => Share(Dev(n), scripts) = n
  BY <1>1, ShareIf, Zenon
<1>4. Commitment.script \in scripts => Share(Commitment, scripts) = Commitment.value
  BY ShareIf, Zenon
<1>5. Commitment.script \notin scripts => Share(Commitment, scripts) = 0
  BY ShareIf, Zenon
<1>6. Share(Commitment, scripts) = 0 BY <1>1, <1>4, <1>5
<1>. QED BY <1>2, <1>3, <1>6, Zenon

LEMMA Joined ==
  ASSUME NEW a, NEW b, NEW c
  PROVE  /\ LET q == <<a>> \o <<b>> \o <<c>>
            IN Len(q) = 3 /\ DOMAIN q = 1..3 /\ q[1] = a /\ q[2] = b /\ q[3] = c
         /\ LET q == <<a>> \o <<b>> \o <<>>
            IN Len(q) = 2 /\ DOMAIN q = 1..2 /\ q[1] = a /\ q[2] = b
         /\ LET q == <<a>> \o <<>> \o <<c>>
            IN Len(q) = 2 /\ DOMAIN q = 1..2 /\ q[1] = a /\ q[2] = c
         /\ LET q == <<a>> \o <<>> \o <<>>
            IN Len(q) = 1 /\ DOMAIN q = 1..1 /\ q[1] = a
<1>. PICK S : S = {a, b, c} OBVIOUS
<1>1. <<a>> \in Seq(S) /\ <<b>> \in Seq(S) /\ <<c>> \in Seq(S) /\ <<>> \in Seq(S) OBVIOUS
<1>. PICK ab : ab = <<a>> \o <<b>> OBVIOUS
<1>2. ab \in Seq(S) /\ Len(ab) = 2 /\ ab[1] = a /\ ab[2] = b
  BY <1>1
<1>. PICK ae : ae = <<a>> \o <<>> OBVIOUS
<1>3. ae \in Seq(S) /\ Len(ae) = 1 /\ ae[1] = a
  BY <1>1
<1>4. LET q == ab \o <<c>>
      IN Len(q) = 3 /\ DOMAIN q = 1..3 /\ q[1] = a /\ q[2] = b /\ q[3] = c
  BY <1>1, <1>2
<1>5. LET q == ab \o <<>> IN Len(q) = 2 /\ DOMAIN q = 1..2 /\ q[1] = a /\ q[2] = b
  BY <1>1, <1>2
<1>6. LET q == ae \o <<c>> IN Len(q) = 2 /\ DOMAIN q = 1..2 /\ q[1] = a /\ q[2] = c
  BY <1>1, <1>3
<1>7. LET q == ae \o <<>> IN Len(q) = 1 /\ DOMAIN q = 1..1 /\ q[1] = a
  BY <1>1, <1>3
<1>. QED BY <1>4, <1>5, <1>6, <1>7

LEMMA OutputsPaySplit ==
  ASSUME NEW contents, NEW bps,
         SplitCoinbaseValue(contents.value, bps).user \in Nat,
         SplitCoinbaseValue(contents.value, bps).dev \in Nat
  PROVE  OutputsPay(Outputs(contents, bps), SplitCoinbaseValue(contents.value, bps))
<1>. PICK split : split = SplitCoinbaseValue(contents.value, bps) OBVIOUS
<1>. PICK outputs : outputs = Outputs(contents, bps) OBVIOUS
<1>. PICK u \in Nat, d \in Nat : u = split.user /\ d = split.dev OBVIOUS
<1>. PICK all : all = {outputs[i].script : i \in DOMAIN outputs} OBVIOUS
<1>0. \A i \in DOMAIN outputs : outputs[i].script \in all BY Zenon
<1>1. outputs = <<User(u)>> \o (IF d > 0 THEN <<Dev(d)>> ELSE <<>>)
                  \o (IF contents.segwit THEN <<Commitment>> ELSE <<>>)
  BY DEF Outputs, User, Dev, Commitment
<1>2. CASE d > 0 /\ contents.segwit
  <2>1. /\ Len(outputs) = 3 /\ DOMAIN outputs = 1..3
        /\ outputs[1] = User(u) /\ outputs[2] = Dev(d) /\ outputs[3] = Commitment
    BY <1>1, <1>2, Joined
  <2>2. /\ Share(outputs[1], all) = u /\ Share(outputs[2], all) = d
        /\ Share(outputs[3], all) = 0
    <3>1. User(u).script \in all /\ Dev(d).script \in all
      <4>. 1 \in 1..3 /\ 2 \in 1..3 OBVIOUS
      <4>. QED BY <2>1, <1>0
    <3>2. Share(User(u), all) = u BY <3>1, OwnShares, Zenon
    <3>3. Share(Dev(d), all) = d BY <3>1, OwnShares, Zenon
    <3>4. Share(Commitment, all) = 0 BY OwnShares, Zenon
    <3>. QED BY <2>1, <3>2, <3>3, <3>4, Zenon
  <2>3. /\ Share(outputs[1], {<<"dev">>}) = 0 /\ Share(outputs[2], {<<"dev">>}) = d
        /\ Share(outputs[3], {<<"dev">>}) = 0
    BY <2>1, DevShares, Zenon
  <2>4. Paid(outputs, all) = u + d + 0 BY <2>1, <2>2, PaidThree
  <2>5. Paid(outputs, {<<"dev">>}) = 0 + d + 0 BY <2>1, <2>3, PaidThree
  <2>6. \A i \in DOMAIN outputs : outputs[i].value >= 0
    BY <2>1, OutputFields
  <2>. QED BY <2>4, <2>5, <2>6 DEF OutputsPay
<1>3. CASE d > 0 /\ ~contents.segwit
  <2>1. /\ Len(outputs) = 2 /\ DOMAIN outputs = 1..2
        /\ outputs[1] = User(u) /\ outputs[2] = Dev(d)
    BY <1>1, <1>3, Joined
  <2>2. Share(outputs[1], all) = u /\ Share(outputs[2], all) = d
    <3>1. User(u).script \in all /\ Dev(d).script \in all
      <4>. 1 \in 1..2 /\ 2 \in 1..2 OBVIOUS
      <4>. QED BY <2>1, <1>0
    <3>2. Share(User(u), all) = u BY <3>1, OwnShares, Zenon
    <3>3. Share(Dev(d), all) = d BY <3>1, OwnShares, Zenon
    <3>. QED BY <2>1, <3>2, <3>3, Zenon
  <2>3. Share(outputs[1], {<<"dev">>}) = 0 /\ Share(outputs[2], {<<"dev">>}) = d
    BY <2>1, DevShares, Zenon
  <2>4. Paid(outputs, all) = u + d BY <2>1, <2>2, PaidTwo
  <2>5. Paid(outputs, {<<"dev">>}) = 0 + d BY <2>1, <2>3, PaidTwo
  <2>6. \A i \in DOMAIN outputs : outputs[i].value >= 0 BY <2>1, OutputFields
  <2>. QED BY <2>4, <2>5, <2>6 DEF OutputsPay
<1>4. CASE ~(d > 0) /\ contents.segwit
  <2>1. /\ Len(outputs) = 2 /\ DOMAIN outputs = 1..2
        /\ outputs[1] = User(u) /\ outputs[2] = Commitment
    BY <1>1, <1>4, Joined
  <2>2. Share(outputs[1], all) = u /\ Share(outputs[2], all) = 0
    <3>1. User(u).script \in all
      <4>. 1 \in 1..2 OBVIOUS
      <4>. QED BY <2>1, <1>0
    <3>2. Share(User(u), all) = u BY <3>1, OwnShares, Zenon
    <3>4. Share(Commitment, all) = 0 BY OwnShares, Zenon
    <3>. QED BY <2>1, <3>2, <3>4, Zenon
  <2>3. Share(outputs[1], {<<"dev">>}) = 0 /\ Share(outputs[2], {<<"dev">>}) = 0
    BY <2>1, DevShares, Zenon
  <2>4. Paid(outputs, all) = u + 0 BY <2>1, <2>2, PaidTwo
  <2>5. Paid(outputs, {<<"dev">>}) = 0 + 0 BY <2>1, <2>3, PaidTwo
  <2>6. \A i \in DOMAIN outputs : outputs[i].value >= 0 BY <2>1, OutputFields
  <2>. QED BY <1>4, <2>4, <2>5, <2>6 DEF OutputsPay
<1>5. CASE ~(d > 0) /\ ~contents.segwit
  <2>1. Len(outputs) = 1 /\ DOMAIN outputs = 1..1 /\ outputs[1] = User(u)
    BY <1>1, <1>5, Joined
  <2>2. Share(outputs[1], all) = u
    <3>1. User(u).script \in all
      <4>. 1 \in 1..1 OBVIOUS
      <4>. QED BY <2>1, <1>0
    <3>2. Share(User(u), all) = u BY <3>1, OwnShares, Zenon
    <3>. QED BY <2>1, <3>2, Zenon
  <2>3. Share(outputs[1], {<<"dev">>}) = 0 BY <2>1, DevShares, Zenon
  <2>4. Paid(outputs, all) = u BY <2>1, <2>2, PaidOne
  <2>5. Paid(outputs, {<<"dev">>}) = 0 BY <2>1, <2>3, PaidOne
  <2>6. \A i \in DOMAIN outputs : outputs[i].value >= 0 BY <2>1, OutputFields
  <2>. QED BY <1>5, <2>4, <2>5, <2>6 DEF OutputsPay
<1>. QED BY <1>2, <1>3, <1>4, <1>5

\* What PaysInFull says of a template and a fee.
PaysFor(contents, bps) ==
  LET outputs == Outputs(contents, bps)
      all == {outputs[i].script : i \in DOMAIN outputs}
      dev == Paid(outputs, {<<"dev">>})
      due == contents.value * bps
  IN /\ Paid(outputs, all) = contents.value
     /\ \A i \in DOMAIN outputs : outputs[i].value >= 0
     /\ 10000 * dev <= due /\ due < 10000 * dev + 10000

LEMMA PaysForAll ==
  ASSUME NEW contents, NEW value \in Nat, value = contents.value,
         NEW bps \in Nat, bps <= 10000
  PROVE  PaysFor(contents, bps)
<1>. DEFINE split == SplitCoinbaseValue(value, bps)
            outputs == Outputs(contents, bps)
            due == value * bps
<1>1. SplitPays(split, value, due)
  BY SplitPaysAll
<1>2. SplitCoinbaseValue(contents.value, bps) = split OBVIOUS
<1>. HIDE DEF split
<1>3. OutputsPay(outputs, split) BY <1>1, <1>2, OutputsPaySplit DEF SplitPays
<1>4. contents.value * bps = due OBVIOUS
<1>. HIDE DEF outputs, due
<1>5. /\ Paid(outputs, {outputs[i].script : i \in DOMAIN outputs}) = contents.value
      /\ Paid(outputs, {<<"dev">>}) = split.dev
      /\ \A i \in DOMAIN outputs : outputs[i].value >= 0
  BY <1>1, <1>3 DEF OutputsPay, SplitPays
<1>. QED BY <1>1, <1>4, <1>5 DEF PaysFor, SplitPays, outputs

\* For every template, fee and segwit commitment, the coinbase of the block a slice
\* mines on pays out its value, and the developer his basis points.
THEOREM PaysCorrect == Spec => []PaysInFull
<1>1. TypeOK => PaysInFull
  <2>. SUFFICES ASSUME TypeOK, pc \in {"solve", "submit"}
                PROVE  PaysFor(solveJob.body, solveJob.bps)
    BY DEF PaysInFull, PaysFor
  <2>1. solveJob \in Job BY DEF TypeOK
  <2>2. solveJob.body \in Contents /\ solveJob.bps \in DevFee
    BY <2>1, JobFields, SoloAssumption
  <2>3. solveJob.body.value \in Nat BY <2>2 DEF Contents
  <2>4. solveJob.bps \in Nat /\ solveJob.bps <= 10000
    <3>1. FeeBps \in Nat /\ FeeBps <= 10000 BY SoloAssumption
    <3>. QED BY <2>2, <3>1 DEF DevFee
  <2>. QED BY <2>3, <2>4, PaysForAll
<1>. QED BY <1>1, SoloTypeCorrect, PTL
=============================================================================

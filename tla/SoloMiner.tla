----------------------------- MODULE SoloMiner -----------------------------
(***************************************************************************)
(* run_mining_loop against a btxd node (SoloClient): a template is fetched *)
(* by two calls, getblocktemplate and getmatmulchallenge, between which    *)
(* the node may move; it is polled again after every slice; the block that *)
(* a slice finds is submitted with the template cached under its job id,   *)
(* from which BlockBuilder makes the merkle root and the block again.      *)
(*                                                                         *)
(* The node is external.  The nonce counter is left out: the scan is       *)
(* PoolMiner's, and here a slice finds a block or does not; one that did   *)
(* does again, as long as job and nonce stay what they are.                *)
(***************************************************************************)
EXTENDS BlockBuilder

CONSTANTS
  MaxMoves,     \* bound: how often the node changes its template
  MaxErrors,    \* bound: calls of the node, and scans, that fail
  Bodies,       \* what templates may contain
  FeeBps,       \* solo_dev_fee_bps
  Offers,       \* which answers of a node may name parent_mtp
  NoTemplate    \* Python's None, where a template or job may be missing

\* What the node mines on: the height, the parent block, the block's contents.
Template == [height : Nat, prev : Nat, body : Bodies]

\* _init_dev_fee: no fee if the developer's script cannot be looked up.
DevFee == {FeeBps, 0}

\* A job.  body and bps are what its merkle root is made of, mtp and seeds are
\* named after the block whose median time, or whose successor's seeds, they are.
Job == [ height : Nat, prev : Nat, body : Bodies, bps : DevFee,
         mtp : Nat \cup {NoMtp}, seeds : Nat ]
merkle_root(job) == TemplateMerkleRoot(job.height, job.body, job.bps)

ASSUME SoloAssumption ==
  /\ {MaxMoves, MaxErrors} \subseteq Nat
  /\ Bodies \subseteq Contents /\ Bodies # {} /\ FeeBps \in 0..10000
  /\ Offers \subseteq SUBSET {"challenge", "template"} /\ NoMtp \notin Nat

ASSUME NoTemplateAssumption == NoTemplate \notin Template \cup Job

VARIABLES
  node,         \* the node's template
  offers,       \* which of its answers name parent_mtp
  moves, errors,   \* how much of the bounds is used
  struck,       \* the slice at the current job and nonce is known to hold a block
  pc,           \* where the loop is
  fetched,      \* gbt: the answer of getblocktemplate
  clientJob,    \* client._current_job
  feeBps,       \* client.dev_fee_bps
  gbtByJob,     \* client._gbt_by_job, as a set of [id, gbt]
  currentJob,   \* current_job
  solveJob,     \* solve_job
  attempts      \* history: jobs a block was handed to submitblock for

nodeVars == <<node, moves, offers>>
client == <<clientJob, feeBps, gbtByJob>>
vars == <<nodeVars, errors, struck, pc, fetched, client, currentJob, solveJob,
          attempts>>

PCs == { "top",         \* get_job, or straight on with the current job
         "challenge",   \* get_job between its two calls
         "solve",       \* _solve_slice_continuous
         "submit",      \* a block was found: _submit_pool_share
         "poll",        \* poll_template
         "pollmore",    \* poll_template between its two calls
         "check",       \* second look at client._current_job
         "offline" }    \* ConnectionError: sleep, build a new client

JobId(job) == <<job.height, job.prev>>    \* f"solo-{height}-{prev_hash[:16]}"

Init ==
  /\ node \in [height : {1}, prev : {0}, body : Bodies]
  /\ offers \in Offers
  /\ moves = 0 /\ errors = 0 /\ struck = FALSE
  /\ pc = "top"
  /\ fetched = NoTemplate /\ clientJob = NoTemplate /\ gbtByJob = {}
  /\ feeBps \in DevFee
  /\ currentJob = NoTemplate /\ solveJob = NoTemplate
  /\ attempts = {}

-----------------------------------------------------------------------------
(* The node. *)

\* A block arrives, another parent of the same height wins, or the template
\* gets new transactions.
NodeMoves ==
  /\ moves < MaxMoves /\ moves' = moves + 1
  /\ \E h \in {node.height, node.height + 1}, p \in {node.prev, moves + 1}, b \in Bodies :
       /\ h > node.height => p # node.prev
       /\ node' = [height |-> h, prev |-> p, body |-> b]
  /\ node' # node
  /\ UNCHANGED <<offers, errors, struck, pc, fetched, client,
                 currentJob, solveJob, attempts>>

CallFails == errors < MaxErrors /\ errors' = errors + 1

-----------------------------------------------------------------------------
(* Templates. *)

\* parent_mtp of the challenge or else of the template; where it is needed and
\* neither names it, getblockheader is asked for that of the parent.
ParentMtp(gbt, challenge) ==
  CASE "challenge" \in offers -> challenge.prev
    [] offers = {"template"} -> gbt.prev
    [] OTHER -> IF gbt.height >= V3Height THEN challenge.prev ELSE NoMtp

\* _job_from_template and _apply_template_merkle: the height and the contents
\* are those of the template, parent and seeds are those of the challenge.
JobFrom(gbt, challenge) ==
  [ height |-> gbt.height, prev |-> challenge.prev, body |-> gbt.body, bps |-> feeBps,
    mtp |-> ParentMtp(gbt, challenge), seeds |-> challenge.prev ]

\* The dictionary holds one template per job id: the last one.
Cached(job, gbt) ==
  {entry \in gbtByJob : entry.id # JobId(job)} \cup {[id |-> JobId(job), gbt |-> gbt]}

\* The first call, getblocktemplate, of get_job or poll_template.
Fetch(from, to) ==
  /\ pc = from /\ pc' = to
  /\ fetched' = node
  /\ UNCHANGED <<nodeVars, errors, struck, client, currentJob,
                 solveJob, attempts>>

GetTemplate == currentJob = NoTemplate /\ Fetch("top", "challenge")

PollTemplate == Fetch("poll", "pollmore")

\* The second call of get_job, and the job it returns.
GetChallenge ==
  /\ pc = "challenge"
  /\ LET job == JobFrom(fetched, node) IN
       /\ gbtByJob' = Cached(job, fetched)
       /\ currentJob' = job /\ solveJob' = job
  /\ fetched' = NoTemplate
  /\ pc' = "solve"
  /\ UNCHANGED <<nodeVars, errors, struck, clientJob, feeBps, attempts>>

\* The second call of poll_template.
\* Mutant: the template is cached before the call that can fail.
PollCachesFirst ==
  /\ pc = "pollmore"
  /\ LET job == JobFrom(fetched, node) IN
       /\ gbtByJob' = Cached(job, fetched)
       /\ clientJob' \in {job, clientJob}
  /\ fetched' = NoTemplate
  /\ pc' = "check"
  /\ UNCHANGED <<nodeVars, errors, struck, feeBps, currentJob, solveJob, attempts>>

PollChallenge ==
  /\ pc = "pollmore"
  /\ LET job == JobFrom(fetched, node) IN
       /\ gbtByJob' = Cached(job, fetched)
       /\ clientJob' = job
  /\ fetched' = NoTemplate
  /\ pc' = "check"
  /\ UNCHANGED <<nodeVars, errors, struck, feeBps, currentJob, solveJob, attempts>>

\* A call of get_job, getblockheader included, fails: an unreachable node is a ConnectionError, any
\* other error is logged and get_job is called again.
GetJobFails ==
  /\ pc = "challenge" \/ (pc = "top" /\ currentJob = NoTemplate)
  /\ CallFails
  /\ pc' \in {"top", "offline"}
  /\ fetched' = NoTemplate
  /\ UNCHANGED <<nodeVars, struck, client, currentJob, solveJob,
                 attempts>>

\* poll_template logs every exception and returns.
PollFails ==
  /\ pc \in {"poll", "pollmore"}
  /\ CallFails
  /\ pc' = "check"
  /\ fetched' = NoTemplate
  /\ UNCHANGED <<nodeVars, struck, client, currentJob, solveJob,
                 attempts>>

-----------------------------------------------------------------------------
(* The loop. *)

\* Mutant: the slice does not ask whether there is a job.
StartWithoutJob ==
  /\ pc = "top"
  /\ solveJob' = currentJob
  /\ pc' = "solve"
  /\ UNCHANGED <<nodeVars, errors, struck, fetched, client,
                 currentJob, attempts>>

StartSlice ==
  /\ pc = "top" /\ currentJob # NoTemplate
  /\ solveJob' = currentJob
  /\ pc' = "solve"
  /\ UNCHANGED <<nodeVars, errors, struck, fetched, client,
                 currentJob, attempts>>

\* The job as the request of the wrapper has it, and as assemble_block_hex reads it.
Header(job) ==
  [ height |-> job.height, prev |-> job.prev, merkle |-> merkle_root(job),
    mtp |-> job.mtp, seeds |-> job.seeds ]

\* The daemon and SolveGPU answer with an error without parent_mtp past the fork.
DaemonTakes(job) == job.height < V3Height \/ job.mtp # NoMtp

DeterministicMatMulSeedV2(state, nonce, which) ==
  <<"sha256", "BTX_MATMUL_SEED_V2", state.prev, state.height, state.merkle, nonce,
    which>>

DeterministicMatMulSeedV3(state, nonce, which) ==
  <<"sha256", "BTX_MATMUL_SEED_V3", state.prev, state.mtp, state.height, state.merkle,
    nonce, which>>

\* The seeds the daemon solves with; a copy in the kernels agrees.
PrepareNonceSeeds(state, nonce) ==
  IF state.height >= V3Height
  THEN [i \in 1..2 |-> DeterministicMatMulSeedV3(state, nonce, i - 1)]
  ELSE IF state.height >= V2Height
  THEN [i \in 1..2 |-> DeterministicMatMulSeedV2(state, nonce, i - 1)]
  ELSE state.seeds

\* The slice ends without a block; shares that are none are skipped.  A slice
\* with the job and the nonce of one that found a block holds that block.
NoBlock ==
  /\ pc = "solve" /\ ~struck
  /\ pc' = "poll"
  /\ UNCHANGED <<nodeVars, errors, struck, fetched, client,
                 currentJob, solveJob, attempts>>

\* The scan does not get as far as the block: the daemon fails, or is slower than
\* the last time.  The nonce goes on from where it ended.
ScanFails ==
  /\ pc = "solve" /\ struck /\ struck' = FALSE
  /\ CallFails
  /\ pc' = "poll"
  /\ UNCHANGED <<nodeVars, fetched, client, currentJob, solveJob, attempts>>

FindBlock ==
  /\ pc = "solve"
  /\ DaemonTakes(solveJob)
  /\ struck' = TRUE
  /\ pc' = "submit"
  /\ UNCHANGED <<nodeVars, errors, fetched, client, currentJob,
                 solveJob, attempts>>

\* client.submit_share(solve_job, result, wait=...): SoloClient.submit_share
\* takes no such argument, so Python raises TypeError before its body runs,
\* and the loop starts again with the same job and the same nonce, as it has not
\* come to the end of its body.
SubmitBlock ==
  /\ pc = "submit"
  /\ pc' = "top"
  /\ solveJob' = NoTemplate
  /\ UNCHANGED <<nodeVars, errors, struck, fetched, client,
                 currentJob, attempts>>

\* Mutant: the polled job is consumed and ignored.
PolledIgnored == currentJob

\* A job of another height replaces the current one; merge_from takes every
\* field but the nonce counter of one of the same height.
Polled == IF clientJob = NoTemplate THEN currentJob ELSE clientJob

CheckJob ==
  /\ pc = "check"
  /\ currentJob' = Polled
  /\ clientJob' = NoTemplate /\ solveJob' = NoTemplate
  /\ pc' = "top"
  /\ UNCHANGED <<nodeVars, errors, struck, fetched, feeBps, gbtByJob, attempts>>

\* SoloClient(cfg): a new cache, and the developer's script is looked up anew.
Reconnect ==
  /\ pc = "offline"
  /\ pc' = "top"
  /\ clientJob' = NoTemplate /\ gbtByJob' = {} /\ currentJob' = NoTemplate
  /\ feeBps' \in DevFee
  /\ UNCHANGED <<nodeVars, errors, struck, fetched, solveJob, attempts>>

\* The node does not answer getmininginfo: the old client stays.
ReconnectFails ==
  /\ pc = "offline" /\ CallFails
  /\ pc' = "top"
  /\ UNCHANGED <<nodeVars, struck, fetched, client, currentJob,
                 solveJob, attempts>>

Loop ==
  \/ GetTemplate \/ GetChallenge \/ GetJobFails
  \/ StartSlice \/ NoBlock \/ ScanFails \/ FindBlock \/ SubmitBlock
  \/ PollTemplate \/ PollChallenge \/ PollFails \/ CheckJob
  \/ Reconnect \/ ReconnectFails

Next == NodeMoves \/ Loop

Spec == Init /\ [][Next]_vars

\* The loop goes on for ever; a slice ends at its deadline.
FairSpec == Spec /\ WF_vars(Loop)

-----------------------------------------------------------------------------
(* Properties. *)

TypeOK ==
  /\ node \in Template /\ offers \in Offers
  /\ moves \in 0..MaxMoves /\ errors \in 0..MaxErrors /\ struck \in BOOLEAN
  /\ pc \in PCs
  /\ fetched \in Template \cup {NoTemplate} /\ feeBps \in DevFee
  /\ \A entry \in gbtByJob : entry.id \in Nat \X Nat /\ entry.gbt \in Template
  /\ {clientJob, currentJob, solveJob} \subseteq Job \cup {NoTemplate}
  /\ attempts \subseteq Job
  /\ pc \in {"challenge", "pollmore"} => fetched # NoTemplate
  /\ pc \in {"solve", "submit", "poll", "pollmore", "check"} => currentJob # NoTemplate
  /\ pc \in {"solve", "submit"} => solveJob # NoTemplate
  /\ pc = "submit" => struck

\* What a block found now would be made of.
CachedGbt == { entry.gbt : entry \in { e \in gbtByJob : e.id = JobId(solveJob) } }

\* There is one template under the id of the job being mined, and the merkle root
\* made of it and of the present fee is the one the slice mines on, so that
\* assemble_block_hex meets no "merkle mismatch" (block_builder.py:387):
\* although templates of one parent share an id, the fee is that of the client and
\* not of the job, and a client may be replaced.  The block then holds the
\* contents the job was made of, and its header the seeds the daemon solves with,
\* on both sides of each fork and in jobs put together across it; past the second
\* fork they are made of the median time of the parent in the header, unless the
\* node names that time in the template only.
BlockAssembles ==
  pc \in {"solve", "submit"} =>
    \E gbt \in CachedGbt :
      /\ CachedGbt = {gbt}
      /\ Assembles(gbt.height, gbt.body, feeBps, merkle_root(solveJob))
      /\ gbt.body = solveJob.body
      /\ DaemonTakes(solveJob) /\ SeedsResolve(solveJob)
      /\ resolve_header_seeds(Header(solveJob), "nonce")
           = PrepareNonceSeeds(Header(solveJob), "nonce")
      /\ solveJob.height >= V3Height /\ offers # {"template"} =>
           solveJob.mtp = solveJob.prev

\* What the outputs to these scripts pay together.
Paid(outputs, scripts) ==
  LET sum[n \in 0..Len(outputs)] ==
        IF n = 0 THEN 0
        ELSE sum[n - 1] + (IF outputs[n].script \in scripts THEN outputs[n].value ELSE 0)
  IN sum[Len(outputs)]

\* The coinbase a slice mines on pays out the whole value, nothing negative, and
\* to the developer what the fee says, less than one satoshi short.
PaysInFull ==
  pc \in {"solve", "submit"} =>
    LET outputs == Outputs(solveJob.body, solveJob.bps)
        all == {outputs[i].script : i \in DOMAIN outputs}
        dev == Paid(outputs, {<<"dev">>})
        due == solveJob.body.value * solveJob.bps
    IN /\ Paid(outputs, all) = solveJob.body.value
       /\ \A i \in DOMAIN outputs : outputs[i].value >= 0
       /\ 10000 * dev <= due /\ due < 10000 * dev + 10000

\* Once the node rests, the miner ends up on its template, with the height,
\* parent and contents of one and the same template, although a job can be put
\* together from two.  The exception is a miner that has found a block: as its
\* submit raises, the loop scans the same slice again, finds the same block, and
\* never comes to poll_template; it is on the job it was on, whatever the node does.
Converges == <>[](currentJob = JobFrom(node, node)) \/ <>[]struck

\* "Solo ... submits full blocks when network difficulty is met"
\* (README.md:147): the loop does not leave a block it found unsubmitted.
BlockSubmitted ==
  [][ pc = "submit" /\ pc' # "submit" => solveJob \in attempts' ]_vars

=============================================================================

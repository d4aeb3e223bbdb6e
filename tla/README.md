# Verification of amdbtx-miner

TLA+ models, TLC runs and TLAPS proofs about the BTX MatMul miner in this
repository: the start of the program with its search for a batch size and its
choice of GPUs, the mining loop and the pool connection from the handshake on,
the life of the solver daemons, the solver stack under one slice of nonces, one
launch on a GPU, and solo mining with its blocks.  Paths below are relative to
`src/amdbtx_miner/` (Python) and `solver/src/` (C++/HIP).

    tlc -workers 2 -config PoolStratum.cfg MCPoolMiner      # any row of "Runs"
    tlapm PoolMinerProofs.tla                               # any module of "Proofs"

## The system

One Python process mines; it talks to a pool (or a node) and to one child
process per GPU.

| part | state it keeps | operations | talks to |
|---|---|---|---|
| Pool mining loop, `__main__.py` | current job, job of the slice, nonce cursor, submitted keys, dev-fee clock | take a job, switch the payout identity, mine a slice, submit, look for a new job, advance the nonce, reconnect | the client object by calls and by reading `client._current_job`; the solver by calls |
| Pool connection, `stratum_client.py` | socket, unread job, pending submits, message counter, counters, worker name | handshake, read a line, dispatch, submit (with or without waiting), authorise, metrics thread | the pool by JSON lines; two protocols, Stratum and LuckyPool |
| Solver wrapper and multi-GPU split, `gbt_solve_wrapper.py` | one daemon process per GPU, ready event | start, restart, send a request, read one answer line, merge the answers | the daemon by its pipes; a thread per GPU and per request |
| Solver daemon, `main.cpp`, `solve_gpu.hip`, `solve.cpp` | none between requests | scan nonces in batches on the GPU, fall back to the CPU | the wrapper by stdin and stdout |
| Solo client, `solo_client.py`, `rpc_client.py` | unread job, cached templates by job id | get a template, poll, submit a block | the node by JSON-RPC |
| Block assembly, `block_builder.py` | none | merkle root, coinbase with fee split, witness commitment, block hex | |
| Consensus arithmetic, `solve.cpp`, `uint256.h`, `field.*`, `matrix.*`, `noise.*`, `transcript.*` | none | targets, seeds, digests | |
| GPU kernels, `matmul_kernel.hip`, `gpu_sha256.hip` | device buffers | launches of one batch | |
| GPU detection and choice, `hardware.py` | none | list the cards by three tools, name them, probe, choose devices | driver tools, sysfs; the solver for a probe |
| Benchmark, auto-tune, start-up, `__main__.py` | configuration in memory, results of a search | measure, choose a batch size, write it to the file, start the daemons | the solver, the configuration file |
| Configuration, `config.py` | one JSON file | load, save | |
| Installers, scripts | files | | |

### What is hard

* **Ordering.**  A line of the pool is read by whichever of five readers is
  active: the handshake, `get_job`, `_call`, the drains and the wait of a
  LuckyPool submit.  Each must hand on what is meant for another.
* **Staleness.**  The slice works on a copy of the job while the client already
  holds a newer one; the loop looks at it in two places.  Shares of a slice may
  belong to a parent the pool has left.
* **Aborts and retries.**  Any exception in the loop body abandons the slice with
  some of its shares submitted and scans the same nonces again.  A failed payout
  switch has changed the worker name already.  A reconnect makes a new client
  with new counters and the loop keeps its own fee state.
* **Timeouts racing answers.**  A LuckyPool submit waits 30 s; its answer may come
  later, or the answer of another submit may end the wait.
* **Partial failure in the solver.**  A launch fails after earlier batches found
  shares; a daemon dies in the middle of a request; several daemons answer in any
  order and one answer wins.
* **Reused device buffers.**  The buffers of a launch outlive it and are too big or
  just big enough for the next; two of them hold something else than their name
  says, and which kernels write them depends on switches and on the device.
* **Two calls for one template** in solo mode, and a cache keyed by an id that two
  templates share; fork heights that three places of the code must agree on.
* **Daemons that do not answer.**  A set-up of the GPU hangs, a killed process does
  not end, the reader of an old daemon's stderr sets the event of the new one.
* **One socket, two threads.**  The metrics thread writes to the socket that the
  loop writes to and switches to non-blocking, without a lock, and is never stopped.
* **Handshake fallbacks.**  Variants of subscribe on new sockets, LuckyPool's login
  after "method not found", jobs that arrive before the handshake is over.
* **A file written in place**, by a search that may fail, be refused or be killed.
* **Lists that are counted differently**: devices of HIP, rows of the tools, PCI
  addresses without some cards, probes that count up from 0.

The complete list, each hazard at its line, is `hazards` in `PROJECT.json`.

## The modules

| module | models | extends |
|---|---|---|
| `Jobs` | the `Job` record and the three ways two jobs are combined (`AfterNotify`, `InheritSparse`, `MergeFrom`) | |
| `StratumClient` | `StratumClient` after its handshake, the TCP stream, and the pool as environment | `Jobs` |
| `PoolMiner` | `run_mining_loop`, `_solve_slice_continuous`, `_submit_pool_share`, `_drain_pool_messages` in pool mode, composed with the connection | `StratumClient` |
| `MCPoolMiner` | values for TLC | `PoolMiner` |
| `Session` | the handshake of `StratumClient`, reconnects, and the metrics threads on the shared byte stream | |
| `SliceScan` | the abstract promise of a slice: a cursor moves, every share behind it is handed over | |
| `SolverSlice` | one slice through `_solve_slice_continuous`, `MultiGPUSolver`, `GBTSolveWrapper`, the daemon, `SolveGPU`, `SolveCPU` | |
| `SolveCalls` | the abstract promise of a wrapper: one call at a time, each ends with its own answer or an error | |
| `SolverHost` | the daemons of a `GBTSolveWrapper`: start, fallback, restart, ready event, stderr readers | |
| `Gpus` | operators of `hardware.py`: the list of cards, their identities, the choice of devices, the alive probe | |
| `MinerStart`, `MCMinerStart` | `run_miner` up to the mining loop: auto-tune, the file, detection, probe, daemons, reports; values for TLC | `Gpus` |
| `BlockBuilder` | operators of `block_builder.py`: header seeds, fee split, coinbase, transaction ids, witness commitment, merkle root | |
| `SoloMiner`, `MCSoloMiner` | `run_mining_loop` with a `SoloClient`; values for TLC | `BlockBuilder` |
| `GpuLaunch`, `MCGpuLaunch` | `LaunchMatMulTranscriptCompact` and `ProcessPassedNoncesBatched`: one launch after another, as data flow between device buffers; values for TLC | |
| `PoolMinerProofs`, `PoolMinerOrder`, `SolverSliceProofs`, `SolverHostProofs`, `MinerStartProofs`, `SoloMinerProofs`, `GpuLaunchProofs`, `SessionProofs` | theorems | the module of their name |

### PoolMiner and StratumClient

`pc` is the place in the loop at which the next read of the stream, or the next
decision, happens; the list at its declaration names the code behind each value.
`clientJob` is `client._current_job`, `pending` the keys of
`client._pending_submits`, `keys` the set `_submitted_share_keys`, `feeActive` the
local `fee_active`; `feeDue` says that `last_fee_switch` lies a full interval back,
so time itself is left out.  `wire` is what the pool has written and the miner has
not read; `atPool` what the miner has written and the pool has not answered.
`sent`, `expired` and `newest` are history variables no action reads.

* Every read of a line is one step (`Read`, `CallRead`, `CallReply`, `WaitRead`),
  so the pool interleaves with all of them.  Between two reads the miner does not
  look at the stream; a pool step there has the effect it has just before the next
  read.  `PoolStep` is therefore enabled only at a read.  Nothing is lost but
  states that differ in when the pool moved.
* The pool is the environment: it announces a job of the same or the next height,
  with one of two parents, sends its newest job again, answers what it has
  received in any order and with any verdict, sends a line that is not JSON, or
  closes the stream.  Each of the last, a failed reconnect, a timeout and a
  refused login uses up one of `MaxUpsets`.
* A slice takes its scan from the promise of `SliceScan`: `Scan(last)` stops at any
  `last`, reports all shares up to it, and goes on or ends as
  `_solve_slice_continuous` does.
* `BadLine`, `CallRead`, `LoseConnection`, `SubmitRaises` and `ReconnectFails` are
  the `except` branches of the loop: an ordinary exception drops the locals and
  keeps client, job and keys; a `ConnectionError` builds a new client, and if that
  fails the old one stays.

Abstractions: a job carries the fields the control flow compares; `ntime` is
determined by the job id (the daemon echoes the time of its request), so the check
"ntime differs from job ntime" never fires and is left out; a digest is a share or
not, by `ShareNonces`.

### SolverSlice

One `calls[g]` per daemon: mode, `current_nonce`, tries left and used, the
`solutions` vector and the `nonce64`/`nonce64_end` of the answer.  `Merge` is
`_merge_results` and what the slice does with the result; which of several answers
wins depends on the order in which the futures finish, a nondeterministic choice
among the candidates.  Faults: `init` (`InitGPU`), `launch` (a batch), `error` (an
exception the daemon answers), `crash` (the pipe ends; the restart may fail too).

A GPU's hits are taken as true shares.  `pool_max_shares_per_slice` is 0.
`BlockNonces` are the shares that are blocks.  The merge knows a block only by an answer's
own solution (`IsBlock`), which is the first hit; one that stands behind an ordinary share
in `solutions` does not make its answer win (`main.cpp:242`, `gbt_solve_wrapper.py:439`), so
a block is lost like any other share.  `lossy` is a history variable: it records the two
things `LossExplained` blames.
Which nonce of a batch becomes `nonce64` is a choice: the kernel orders its hits
by an atomic counter.

`Lossless` relates it to `SliceScan` by the identity on the four shared variables.
It holds for one GPU that never falls back to the CPU, from a nonce above 0, and
this is what `PoolMiner` assumes.  The two exclusions are real: a GPU call that
meets its deadline before the first batch answers `nonce64_end = max(start-1, 0)`,
which at `start = 0` claims nonce 0 as scanned; `SolveCPU` in the same situation
answers `start`, which claims one nonce at any start (`main.cpp`, `solve.cpp`).

### Session

`PoolMiner` starts from a connection whose handshake is done; `Session` is what comes
before and beside it.  `pc` follows the constructor (`subscribe`, `minimal` for the
second variant, `login`, `authorize`, `drain`) and then the loop as far as it uses
the socket.  Sockets are numbered in the order they are opened, and everything on
them is indexed by that number: what is sent and unread (`out`), what the pool has
read of an unfinished line (`part`), what it knows of the session (`known`).

A line is two parts, the second of which ends it.  That is enough to tear a line and
to weld the torn half to the next one, whichever of the two writers that is from.
`Write` is `sendall` of the main thread in blocking mode; `Report`, `FinishReport` and
`FailReport` are `sendall` of a metrics thread, which fails in the middle when the
buffer is full while the loop has switched the socket to non-blocking
(`pc = "poll"`).  Threads of earlier clients are never stopped (`reporter` keeps
them).  `short` and `spoiled` are history variables.

The loop writes shares and, when the dev fee says so, the call of a payout switch
(`StartSwitch`, then `Switched` or `CallReads` for every line it reads).  `Switches` names
these calls by their ids, `calls` are those begun: an id is used once, whatever client
makes the call.  A call is given up after 30 s, but only with a line, and its answer may
come while the next one is waited for or the loop reads jobs; `Dispatched` drops it.  What a switch means for
who is paid is `PoolMiner`'s.

Abstractions: in a handshake, answers are to the request before them; a job is the stream it came on;
LuckyPool is a pool that answers "unknown method".  An empty read of the drain is the
end of its three seconds.

### SolverHost and SolveCalls

`procs` is every daemon ever started, `proc` the index of `self.proc`.  `life` is the
process, `stderr` whether its `daemon_ready` line is written and read, `request` and
`answer` are its pipes.  The owner of the wrapper, the reader thread of every daemon
and the daemons interleave.  `ready` is the event `self._ready_event` points to by
then: a reader sets that one, also when its own daemon has been replaced (`late`
records it).  `StopProc` is terminate, wait, kill, wait, with the outcome that the
process is "stuck": it survives both waits, is forgotten, and ends later or never.  Such
a process is `Alive` like any other, `poll()` is `None` for it, and it may hold the GPU.
`daemon_ready` comes after the devices are counted (`SayReady`); `InitGPU`, the
allocations and the kernels run with a request in hand, where the daemon can hang too
(`Wedge`), and the wrapper reads the answer without a time-out (`Blocked`).
`GiveUpDaemon` holds the one fallback to the CPU that only the
constructor allows.

Faults: a daemon exits, hangs before `daemon_ready` or with a request, is slow (or its
reader is), is stuck after a kill, and the binary is missing.  The stderr thread's 64 KB pipe and the
contents of answers are left out; a broken answer is `error` in `SolverSlice`.

`OwnAnswers` is the refinement of `SolveCalls` by `call` and `outcome`: the caller
`SolverSlice` models needs no more of a wrapper.

### Gpus and MinerStart

A machine is a list of cards (in domain 0000 or not, gfx9 or not, memory, with a
unique id or not, working, dead or hanging) and whether `rocm-smi` and `rocminfo`
answer.  `EnumerateGpus` is the list `detect_gpu_info` and the handshake work with,
`RuntimeIdents` the identities of a metrics report; names of cards are abstract tags
`<<"id", row>>`, `<<"pci", i>>`, `<<tool, row>>`, equal exactly when the strings of the
code are.  `_amd_pci_bdfs` leaves out the cards of domain 0000 and not those of bus 0,
as the code does.

`MinerStart` runs `run_miner` again and again over one file: `Launch` reads it, `Measure`
is one batch size of the search, `TakeBest` opens the file for writing (which empties
it) or cannot, `Save` writes it, or cannot (`SaveFails`: the disk is full).  `Kill` may
come anywhere, also between those two.  A write that fails is caught and logged
(`__main__.py:384`): the program mines on with what it has in memory and leaves an empty
file (`Torn`), whose next start has no address and exits.
A configuration is three facts: an address, a size, whether it was tuned.  Rates are
chosen freely; `WorthIt` is the comparison of the code with 3 % in integers.

### SoloMiner and BlockBuilder

The node's template is a height, a parent and the block's contents: serialised
transactions, value, and whether it has a witness commitment.  `Fetch` and
`GetChallenge`/`PollChallenge` are the two RPC calls of `_fetch_template`; `NodeMoves`
may come between them.  A third call, `getblockheader`, answers the same for the same
parent and fails like the second.  Which answers of a node name `parent_mtp` is
chosen once (`offers`); `mtp` and `seeds` of a job are named after the block whose
median time, or whose successor's seeds, they are.  The daemon's choice of seeds
(`PrepareNonceSeeds`) is compared with that of the block builder
(`resolve_header_seeds`); the fork heights 125000 and 130500 are constants, and 2 and 3
in the run, so that a job can be put together from answers of either side.  The nonce counter is left out (it is `PoolMiner`'s);
a slice finds a block or not, and the same slice finds it every time: `struck` says
that the one at the present job and nonce is known to hold one, and then only `FindBlock`
is left, or a scan that does not get that far (`ScanFails`: the daemon
fails, or is slower than the last time, and the nonce goes on from there).  `gbt_longpoll` never matters: `get_job` fetches only
when there is no job, which after the first job happens only after a reconnect.
`feeBps` is the fee of a client, which is lost when the developer's address cannot be
looked up.  `attempts` records the jobs for which `submitblock` is called: no action
does, because `SubmitBlock` raises before it gets there (see Findings).

`BlockBuilder` keeps hashes symbolic: `sha256d` is a constructor, so two roots are equal
only if they are made of the same things.  A job carries the arguments of its merkle
root, and `BlockAssembles` compares the root with the one `assemble_block_hex` computes from
the cached template: the "merkle mismatch" of the code.  A transaction is cut where
`txid_from_raw` cuts it.

### GpuLaunch

`SolverSlice` takes a GPU's hits as true shares; `GpuLaunch` asks whether they are.
One action stands for each timed block of the launch, in the order of the code:
`EnsureLaunchPool`, `StartGate`, a `GateThread` per passing nonce (their order is
that of an atomic counter, so it is free), `EnsureBatchedPool`, `CopyIn`, the blocks
of kernels, `Collect`.  `scan` is the pool of the gate and `pool` that of the chain;
both are static in the code and survive a launch, a job and a failure.

A buffer holds a `Content`, what was computed and of which candidates in which
order, or `Garbage`.  `Write` is a kernel: if every buffer it reads holds what it takes
it for, of the same candidates, the result is the product; otherwise it is
`Garbage`.  This keeps every hazard of order, reuse and size, and none of the
arithmetic.  `noise_er` is reused for `F_R W`, `matrix_b` for `B' W` and `base_a` for the
partial sums, as in the code.  `env` holds the `BTX_MATMUL_*` switches that choose
between data flows; they are looked at for the one shape with kernels of its own,
and elsewhere `env` is empty.  A failed allocation empties the pool it was for; any
other failure that is reported leaves the buffers as they were or unknown.

One failure is not reported.  `table` is the state of `d_K`, the round constants of the
hash kernels: `EnsureKInitialized` copies them before the first kernel that needs
them, does not look at the result, and marks them as there (`EnsureK`).  A table that
is "lost" stays so for the life of the daemon; whether the error shows up in the
`hipGetLastError` at the end of that launch is left open (`DeviceFails`), and every
later launch returns true with digests of another function.  `HitsTrue` names this
state as its exception.

## Runs

| run | question | bounds, and why they are enough |
|---|---|---|
| `pool_stratum` | Are shares of a Stratum session submitted at most once, and does a rotation alone never repeat a nonce? | 3 jobs (a rotation and a new height in both orders), 2 unread lines (a job and an answer in either order), 1 upset of any kind, shares at nonces 0 and 2 with slices of 2, so a share lies in the first slice and one after an advance. One parent per height: `OnceWhenCalm` with competing parents is `CalmCorrect`. 1.3M states. |
| `pool_lucky` | The same for LuckyPool, and is each share counted once: waits, timeouts, late answers, competing parents, sparse updates; is a stale share never sent, and is no answer lost to the wait of another share? | 2 jobs, 2 parents, 1 upset, one lane of 4 nonces that does not contain 0. The pool does not repeat a job (see Findings). |
| `pool_live` | Who is paid across failed switches? Does the miner end on the newest job, is every share settled, is a due switch made, and does the call of a switch leave the answers to shares alone? | 2 jobs, 2 switches (to the developer and back), 2 upsets, so a switch can fail and be retried, a reconnect can fall into a dev-fee slice. |
| `slice_hip` | Is a slice on one GPU the lossless scan the loop counts on? | Every subset of 7 nonces as the shares, batches of 2 and a solution limit of 2, so limits fall inside, at the end of and beyond a batch; 2 exceptions or crashes. |
| `slice_split` | Do two daemons ever scan a nonce in common, and is a share or a block lost in no other way than the two known ones? | 2 GPUs, parts of 4 nonces; shares and blocks in both parts, a block behind an ordinary share in one batch and in two; every fault, twice. |
| `solo` | Does a found block assemble to what was mined, with the daemon's seeds, pay out its whole value, and does the miner follow the node until it finds a block? | 2 moves of the node, between any two steps, over both forks: a job can be put together from two templates and then share its id with a third. 2 failing calls, clients with and without fee, nodes that name `parent_mtp` in the challenge, the template or nowhere, blocks of 1, 2 and 3 transactions, fees that round to nothing and that do not. 0.5M states. |
| `gpu_launch` | Is every nonce a launch reports a share of the job it was made for, and is every access inside its buffer? | 2 jobs, so buffers are filled for another one; launches of 1 and 2 nonces, so pools grow; the 3 shapes that differ in their kernels; every set of switches; 1 failure anywhere. Jobs are interchangeable, hence the symmetry. 0.7M states. |
| `host` | Is every daemon that is forgotten over or killed, does a request only go to a ready one, does each call end with its own answer, and does the wrapper recover? | 3 faults of 6 kinds, so up to 4 daemons, and a fault can hit the restart after a fault; 2 calls, so an answer could be another call's. |
| `start` | Is a tuned size kept over kills and searches, is every working card mined on once, are reported cards known, does a start end? | Writes of the file that cannot be opened, fail or are killed. 1 and 2 cards of 8 kinds, with and without tools, so rows, ids and addresses differ; a card or a tool fails at any moment; 3 batch sizes and rates on both sides of 3 %. 0.3M states. |
| `session` | Does a handshake arrive whole beside the metrics threads, does the loop mine on an admitted session and a job of it, do only reports of the present client get through, and does the loop come back after a loss? | 2 upsets, so 3 sockets and threads of 2 earlier clients; a buffer of 2 parts, so a line fits, fits half or not; 1 report and 1 switch, so a report can take a share or the switch along. The theorems have any number of each. 0.7M states. |
| `slice_multi`, `solo_block` | the findings below | the configuration of the passing run next to it |

Beyond two jobs and one upset the state of the loop repeats: jobs are compared
only pairwise (unread with current, current with solving), and an upset leaves
`PoolMiner` in `top` or `offline` with nothing but the job, the keys and the fee
state.  The theorems below need no bound.

`CHECK_DEADLOCK FALSE` stands where the code may really stop: in the slice runs
(`_solve_slice_continuous` returns), in `host` (`stop`, or a daemon that hangs behind a
stale ready event) and in `session` (a failed first handshake ends the program, a silent
pool holds it up).  The loops never stop, and deadlock is checked there and in
`start`, where a start may always be killed.

**Fairness.**  `WF_vars(Loop)` in `PoolMiner` and `SoloMiner`: the mining thread
runs whenever it is not blocked on the peer, a slice ends at its deadline, and
`time.sleep` returns.  Fairness is for the disjunction only: nothing forces the
loop to prefer one branch.  `SF_vars(PoolReplies)`: the pool answers what it has
received.  It is strong because `PoolStep` is enabled only at a read and with room on
`wire`, which is an artefact of the model, not of the pool.  A pool that stays
silent with the connection up blocks `_recv` without a limit (the deadlines of
`_call` and of the submit wait are looked at only after a line), and none of the
three liveness properties holds of it.

`SolverHost`: `WF_vars(Owner)`, because every wait of the owner has a time-out but the
read of an answer, which is enabled only when there is one or the daemon has ended; weak
fairness of each daemon's reading, because a process and a thread of their own run.  A
daemon that hangs is "hung" and under no fairness, before `daemon_ready` and with a
request; the call that waits for it is the exception of `CallsEnd` and `Recovers`.

`MinerStart`: `WF_vars(Run)` only; launches, kills and failures are free.  `Session`: `WF_vars(Main)` for the main thread, `WF_vars(Drained)` for the
three seconds of the drain, `WF` of the pool reading and sending on each stream unless
it is silent, and `SF_vars(EndPoll)`: the pool does not send so fast that
`process_available_messages` always finds another line.

Every property has a mutant: a change of one mapped definition, as a plausible bug
would make it, under which TLC finds the property violated in the same run.

## Findings

Behaviours of the code, found while modelling, that contradict a text of the
repository; each has a run with the counterexample.

* `slice_multi`: of the shares several GPUs return in one round only the winner's
  are submitted.  A block among the others is lost with them if it stands behind an
  ordinary share of its answer.
* `solo_block`: `_submit_pool_share` passes `wait=` to `SoloClient.submit_share`,
  which does not take it: `TypeError`, and the block is never submitted.  Job and nonce
  stay as they were, so the same slice finds the same block again and the loop never
  comes to `poll_template`: the miner is off the chain from then on (`Converges`).

Seen on the way and not given a run.

In the loop and the pool connection: `submit_share` dedupes on `(prev_hash, ntime,
nonce)` only if the attribute `_submitted_share_keys` exists on the client, which only
`tests/test_consensus_v3.py:144` creates; the loop's own key holds the job id, so a rotation
followed by an aborted iteration submits a nonce again under the new id.  The counter of
a parent is gone with it, so nonces come again if a pool returns to a parent (`NoReturn`).  A LuckyPool
update is completed only from an *unread* job and never with its nonce: an update
read while mining lacks `parent_mtp`, and one without `noncePrefix` sends the miner to
nonce 0 (`stratum_client.py:221`, `635`).  With `Repeats = TRUE` in `PoolLucky.cfg` a
LuckyPool job sent again under its own id is mined again from its start
(`AtMostOnce` fails); the lane check follows the advanced `nonce64_start`, so past the
end of a lane it no longer stops a share; with `Faults = {"launch"}` in
`SliceHip.cfg` a launch that fails after hits were found loses shares
(`EveryShareHanded` fails).

In the session: a report torn by a full buffer garbles the loop's next submit or the
call of a payout switch, although the log calls it "non-fatal" (`stratum_client.py:445`); the 30 s of `_call` are looked at
only after a line; `send_authorize` passes over a `false` result; every reconnect leaves
one more metrics thread; a job read on a connection that is lost during the handshake is
mined on the next connection of that handshake.

In the solver host: a killed daemon that does not end within the two waits is forgotten and
the next one is started beside it (`OnePerGpu` fails in `SolverHost.cfg`), against "One HIP
solver subprocess per GPU" (`gbt_solve_wrapper.py:355`); a late reader sets the event of a daemon that hangs, a request is
written to it and `solve` does not return (`late` in `Vouched` and `CallsEnd`); nor does it
return from a daemon that hangs in `InitGPU` or a kernel, after `daemon_ready`;
`gpu_devices` `"0,0"` makes two daemons on one GPU; a binary that is there and cannot be
executed raises an error that is not caught.

At the start: the alive probe probes devices 0 to *n* - 1 and not the *n* chosen ones, so
`gpu_devices` `"1,2"` skips a working card 2, and it ends at 16, so with `"all"` the cards
past 16 are dropped when any probe succeeds; a probe reads a line without a time-out;
a search that keeps its size within 3 % does not mark it as tuned and runs again at
every start; a search overrides a `--solver-batch-size` that is not among its candidates;
it measures the default HIP device; `run_benchmark` cannot sort equal rates (`TypeError`);
the best card may be an integrated one with more memory; all cards of `rocm-smi` get one
gfx target; the names of a report differ from those of the handshake when `rocm-smi`
fails in between.  With the file written in place, a kill or a full disk in the
middle loses it, and with the full disk the program logs a warning and goes on.

In solo mode: a node that names `parent_mtp` in the template only gives a job put together
over a change of parent the median time of the other parent, which `BlockAssembles`
leaves out.

On the GPU: one failed copy of the round constants leaves a daemon with wrong digests for
the rest of its life (`gpu_sha256.hip:26`, the exception of `HitsTrue`).

On gfx12, `BTX_MATMUL_EXPERIMENTAL_GFX12_WMMA` makes the host launch kernels that are
compiled with an empty body there (`matmul_kernel.hip:23`, `3608`).

`txid_from_raw` hashes a segwit transaction with the first four bytes of its witness
where the locktime belongs, and `_serialize_segwit_tx` writes marker and flag behind the
outputs.  Template and block are made alike, so the comparison of the code does not
see it; a node would.

In `GpuLaunch.cfg`, `Mixed = TRUE` breaks `InBounds`: the capacity of the pool counts
candidates and not elements, so a job with larger matrices than the one the pool
was allocated for writes past its end.  One daemon serves one network, and its shape is
constant, so this is a limit and not a fault.  `HitsTrue` holds under `Covered`,
which excludes what no shape or documented switch of the network reaches: `r > 8` or
`b > 16`, where the generic kernels drop terms, and the pair `NO_FUSED_A` and
`NO_PRECOMP_A_MIDSTATE` without `NO_FUSED_B`, which leaves the midstates of seed B
uncomputed although a kernel reads them.

## Proofs

The theorems hold for every value of the constants that satisfies the named
assumptions (`LaneSizeAssumption`, `NoJobAssumption`, `PoolAssumption`, `LoopAssumption`,
`SolverAssumption`, `HostAssumption`, `ProbeAssumption`, `StartAssumption`, `HeightAssumption`,
`SoloAssumption`, `NoTemplateAssumption`, the assumptions of `GpuLaunch` and `Session`), with
no bound on jobs, lines, upsets, nonces, GPUs, daemons, cards, transactions, launches,
buffers, connections or faults.  A hypothesis beyond these is named in the row.

| theorem | says | along |
|---|---|---|
| `TypeCorrect` | `TypeOK`: types, and a job wherever one is used | inductive by itself; the lemmas on `MergeFrom`, `AfterNotify` and `AfterLuckyJob` keep a job a job |
| `FeeCorrect` | `DevOnlyInFeeSlice` | `FeeInv`: the client names the developer only in a dev-fee slice or while a switch is still due, and while one is due no slice runs; a reconnect makes the worker the user, which is the harmless side |
| `CountCorrect` | `Accounting` | `CountInv`: `sent` and `pending` are finite and hold no id beyond `lastId`, so a new submit adds one to both counts; in `wait` the id that may be given up is still pending |
| `AnswerCorrect` | `NoAnswerLost` | `AnswerInv`: no pending id lies beyond `lastId`, and the id `_call` waits for is not a pending one, so the answer `_call` takes away belongs to no share |
| `OrderCorrect` | the jobs on the wire, unread, current and being solved are in the order of announcement | `OrderInv` |
| `FreshCorrect` | `NeverSubmitsStale` | `OrderInv`: the newest job read is the unread one, or else the current one |
| `OnceCorrect` | `AtMostOnce`, if LuckyPool does not repeat jobs | `KeyInv`: a share sent has its key in `keys`, or a job id smaller than that of the current job; clearing `keys` comes with a larger id, which `OrderInv` gives |
| `CalmCorrect` | `OnceWhenCalm` at a Stratum pool, over both parents of a height | `CalmInv`, relative to `OrderInv` and `KeyInv`: without an upset nothing is garbage or lost, everything submitted under the parent of the job being solved lies before the cursor and is not waiting to be submitted again (`SliceInv`), and between slices before the nonce the next one starts from (`TopInv`); a rotation under the parent takes the counter over, and a parent that has been left does not come back (`NoReturn`), so the jobs under one parent are an interval |
| `OneParentCorrect` | the same without `NoReturn`, at a Stratum pool with one parent per height | heights only grow, so `NoReturn` holds |
| `SliceTypeCorrect` | `TypeOK` of `SolverSlice` | with `CallsOK`: an answer names only shares, and a found share comes with an end |
| `SharesCorrect` | `EveryShareHanded` for one GPU whose launches succeed | neither cause of `lossy` can come about; then `LossCorrect` |
| `PartitionedCorrect` | `Partitioned`, for any number of GPUs | `PartInv`: a call of GPU *g* starts at `cursor + g * budget` and what it has scanned and still may scan ends `budget` later, also after a fallback; two such parts are apart (`PartsApart`) |
| `LossCorrect` | `LossExplained`, for any number of GPUs, faults and fallbacks | `HandedInv`: what an answer names is handed on by `Merge`, and unless `lossy` was set in it or at a launch the hits of a call on the CPU are none and `own` is among those of a call on the GPU |
| `SplitPaysAll` | the coinbase split pays out the whole value, nothing negative, the fee rounded down, for every value and fee | bounds of the integer division |
| `PaysCorrect` | `PaysInFull` | `SplitPaysAll` and the types; a coinbase has one, two or three outputs, so the recursive sum `Paid` is unfolded for each, with a witness for its existence |
| `LosslessCorrect` | `Spec => Promise!Spec` for one GPU, no fallback, from a nonce above 0 | `ScanInv`: the hits of a call are the shares from its start to its position, and the position is the slice's cursor plus what was used |
| `HostTypeCorrect` | `TypeOK` of `SolverHost` | with `HostInv` |
| `OneDaemonCorrect`, `VouchedCorrect` | `OneDaemon`, `Vouched` | `HostInv`: `self.proc` is the daemon started last; when one is about to start, all before it have ended or were killed, because between two starts the event stays set, so a restart follows only the end of a daemon; the event is set by the reader of the current daemon or by a late one |
| `OnePerGpuCorrect` | `OnePerGpu`, if every killed daemon ends in time (`"stuck" \notin Faults`) | no daemon is ever stuck; then `OneDaemonCorrect` |
| `OwnAnswersCorrect` | `Spec => Service!Spec` | `OwnRequest` of `HostInv`: the current daemon holds the request or the answer of the call under way, never both, and nothing while no answer is awaited |
| `SavedCorrect` | `SavedIsUsed` | `ConfigInv`: a search works on what the file holds, and either no tuned size was there or the program exits after it; past a failed write the configuration in memory has an address and a tuned size |
| `ReportsCorrect` of `MinerStartProofs` | `ReportsKnown` | the machine keeps its type; `RuntimeKnown` compares the two ways to name a card row by row |
| `StartTypeCorrect` | `TypeOK` of `MinerStart` | `StartInv`: results are of measured sizes, a start has an option to choose by, a list to probe, and no daemon before it has a list of devices; `BestSize`: a search that measured something has a first fastest result; `ResolvedList`: every choice names a device |
| `AllMineCorrect` | `AllMine`, if no machine has more cards than the probe takes (`ProbeLimit`, 16 in the code) | `CardsInv`: what is probed, and later what is mined on, covers the cards that work and names none twice; cards only stop working; `KeptProperties` says what filtering a list keeps |
| `PickCorrect` | `PickBest` is a card of the list, not gfx9 if any is not, and of its kind the one with most memory | the best of the first *n* cards, by induction |
| `LaunchTypeCorrect` | `TypeOK` of `GpuLaunch` | `GateInv`: what the pools keep from one launch to the next: sizes and capacities agree, and the counter of the gate and its running threads are together no more than the slots |
| `HitsCorrect` | `HitsTrue` | `GateInv` with `HitsInv`: before each block of kernels the buffers it or a later one reads hold what they are read for, of this launch's candidates, unless the table was lost (`BufferInv`); the table is never read unset; one lemma per block follows the data through its kernels, for either way the switches choose |
| `BoundsCorrect` | `InBounds`, if the jobs of a daemon have one shape (`~Mixed`) | `PoolInv`: the pool has the shape of every job and the sizes of its capacity |
| `SessionTypeCorrect`, `HandshakeCorrect`, `AgreedCorrect` | `TypeOK`, `HandshakeWhole`, `SessionAgreed` of `Session` | `SessionInv`: the line of a handshake is somewhere between the main thread, the socket and the pool, alone, because a metrics thread starts only after it (`HandshakeInv`); the lines of a switch, with the answers to calls given up long ago, are the loop's and never a handshake's; an answer on its way says what the pool knows; lines on a stream that never ran full follow each other whole (`LoopInv`); only the newest socket is open (`UpInv`), and jobs read since the client's first socket are its own (`ClientInv`) |
| `ReportsCorrect` of `SessionProofs` | `ReportsCurrent` | the same: a stream the pool still reads is the newest, which is the loop's, since the handshake writes no report |
| `SoloTypeCorrect` | `TypeOK` of `SoloMiner` | inductive by itself |
| `BlockCorrect` | `BlockAssembles` | `SoloInv`: the template under the id of the job mined next, which is the polled one or else the current one, is the one it was made of, and a polled job waits for one look only; `SeedsAgree` by cases of the height |

None of these properties but `TypeOK` of `PoolMiner` and `SoloMiner` is inductive alone; each file states the
strengthening, proves that the initial states satisfy it and that each action
keeps it, one step per action.

Every safety invariant and every action property of the passing runs is a theorem.
Where a hypothesis is named, it is needed: a LuckyPool job sent again is mined again from
its start (`AtMostOnce`); a seventeenth card is not probed and is taken for dead, although it
works; jobs of two shapes overrun a pool (`GpuLaunch.cfg` with `Mixed = TRUE`); at nonce 0,
or with a fallback, a slice is not lossless.

The induction theorems of the library take an operator as parameter, which the
provers cannot instantiate.  What needs induction over a number, as the list
`KeepAlive` filters, the first fastest result and the best card, uses the lemma
`Induction` of `MinerStartProofs`, with a set in the place of the predicate; it follows
from the well-foundedness of the natural numbers.  `Kept` and `Paid` are recursive
functions, and not operators of the community modules, so that they can be unfolded.

Only model-checked: the liveness properties (`Converges` of both miners, `SharesSettle`,
`SwitchesSettle`, `CallsEnd`, `Recovers`, `StartEnds`, `BackInLoop`), because fairness and
`ENABLED` are out of the prover's reach.

## Not modelled

* **Arithmetic of the digest** (`field`, `matrix`, `noise`, `transcript`, SHA-256, the inside
  of the kernels) and of **targets** (`uint256.h`): numeric code over large words, where a
  model of two or three bits says nothing about the code.
* **Kernels no host code launches**, and the device matrix cache of heights before
  125000, which no launched kernel reads.
* **Wording and parsing of the driver tools**: `Gpus` starts from the cards a tool lists.
* **The clock of the dev fee**: `feeDue` in `PoolMiner` becomes true at any time.
* **Installers, development scripts, `cpu_solver`, `bench_solver.py`**: no state at run
  time, or not reached from the miner.
* **The rest of the configuration**: its other keys are read once and only chosen
  between by the constants of the modules.

## Plan

In this order; each row names what it would add to the rest.

| module | of | composition, abstraction | runs and properties | theorems |
|---|---|---|---|---|
| `BlockBuilder` | | | | a merkle root commits to the transactions: roots of as many transactions are equal only if the transactions are |
| `SolverSlice` | | | | what several GPUs, or a fallback, still promise of `Lossless`: nothing is handed on twice |
| `DevFee` | `fee_active`, the clock, the counters (`__main__.py`) | the timed refinement of `feeDue` in `PoolMiner` | the developer's share of the time stays within its bound over reconnects | refinement of the fee part of `PoolMiner` |
| `Targets` | compact targets, pre-hash target (`solve.cpp`, `uint256.h`) | operators on words of width *w* | a target never overflows | monotonicity of the target |

The project keeps to a dozen runs, so that all of it can be repeated at every change.

----------------------------- MODULE MinerStart -----------------------------
(***************************************************************************)
(* run_miner from its start to the mining loop, over starts and kills of   *)
(* the program: the search for a batch size (auto_tune, run_benchmark) and *)
(* the configuration file it writes, the detection and choice of devices,  *)
(* the alive probe, one daemon per device, and the identities of the cards *)
(* the pool is told.  The machine and its tools may change under way.      *)
(***************************************************************************)
EXTENDS Gpus

CONSTANTS
  Machines,     \* machines a start may find
  Configs,      \* values of gpu_devices and gpu_device
  Sizes,        \* benchmark_batch_sizes, ascending
  DefaultSize,  \* the batch size of a configuration without one
  Rates         \* nonces per second a batch size may reach

ASSUME StartAssumption ==
  /\ Machines \subseteq Machine
  /\ Configs \subseteq Config
  /\ Sizes \in Seq(Nat \ {0})
  /\ DefaultSize \in Nat \ {0}
  /\ Rates \subseteq Nat \ {0}

VARIABLES
  pc,        \* where run_miner is, see PCs
  mode,      \* the command line: see Modes
  file,      \* the configuration file
  cfg,       \* the configuration in memory
  results,   \* results of the search, in order
  tried,     \* batch sizes tried by the search
  machine,   \* the cards and tools of this start
  config,    \* the device options of this start
  gpus,      \* gpu_info["gpus"]
  wanted,    \* what resolve_gpu_devices returned
  devices,   \* gpu_devices of run_miner
  probes,    \* devices the alive probe has been through
  backends,  \* the backend each daemon runs on, in the order of devices
  named,     \* identities in the hardware handshake
  reported   \* identities in the last worker.report_metrics

searchVars == <<results, tried>>
deviceVars == <<machine, config, gpus, wanted, devices, probes, backends>>
poolVars   == <<named, reported>>
vars == <<pc, mode, file, cfg, searchVars, deviceVars, poolVars>>

PCs == {"off", "search", "save", "detect", "choose", "probe", "make", "connect",
        "mine", "exit"}

Modes == { "mine",       \* no option: tune unless tuned
           "untuned",    \* --no-auto-tune
           "tune",       \* --auto-tune: tune and exit
           "benchmark" } \* --benchmark: search and exit

\* What matters of a configuration: the user's address, and the batch size, 0
\* if absent.  A file opened for writing is empty until it is written.
Configuration == [payout : BOOLEAN, size : Nat, tuned : BOOLEAN]
EmptyFile == [payout |-> FALSE, size |-> 0, tuned |-> FALSE]

NoMachine == [cards |-> <<>>, smi |-> FALSE, rocminfo |-> FALSE]
NoConfig  == [devices |-> "none", list |-> <<>>, forced |-> -1]

Init ==
  /\ pc = "off"
  /\ mode = "mine"
  /\ \E size \in {0, DefaultSize} \cup {Sizes[i] : i \in Positions(Sizes)} :
       file = [payout |-> TRUE, size |-> size, tuned |-> FALSE]
  /\ cfg = EmptyFile
  /\ results = <<>>
  /\ tried = 0
  /\ machine = NoMachine
  /\ config = NoConfig
  /\ gpus = <<>>
  /\ wanted = <<>>
  /\ devices = <<>>
  /\ probes = 0
  /\ backends = <<>>
  /\ named = {}
  /\ reported = {}

-----------------------------------------------------------------------------
(* The configuration and the search for a batch size. *)

Offered(size) == \E i \in Positions(Sizes) : Sizes[i] = size

\* Mutant: the default size counts as not tuned.
TunedElsewhere(c) == c.tuned /\ Offered(c.size) /\ c.size # DefaultSize

AlreadyTuned(c) == c.tuned /\ Offered(c.size)

\* auto_tune is skipped if it has run before; --benchmark and --auto-tune force.
Launch ==
  /\ pc = "off"
  /\ mode' \in Modes
  /\ cfg' = file
  /\ pc' = IF mode' = "untuned" \/ (mode' = "mine" /\ AlreadyTuned(file))
           THEN "detect" ELSE "search"
  /\ UNCHANGED <<file, searchVars, deviceVars, poolVars>>

\* One batch size: a rate, or none if the daemon ran on the CPU or not at all.
Measure ==
  /\ pc = "search"
  /\ tried < Len(Sizes)
  /\ tried' = tried + 1
  /\ \/ UNCHANGED results
     \/ \E rate \in Rates :
          results' = Append(results, [rate |-> rate, size |-> Sizes[tried + 1]])
  /\ UNCHANGED <<pc, mode, file, cfg, deviceVars, poolVars>>

\* The fastest size, the first of equals.
Best ==
  results[CHOOSE i \in Positions(results) :
            /\ \A j \in Positions(results) : results[i].rate >= results[j].rate
            /\ \A j \in 1..(i - 1) : results[j].rate < results[i].rate]

Configured == IF cfg.size = 0 THEN DefaultSize ELSE cfg.size

\* The configured size stays if the best is less than 3 % faster.
WorthIt ==
  \A i \in Positions(results) :
    results[i].size = Configured =>
      (Best.rate - results[i].rate) * 100 >= 3 * results[i].rate

Afterwards == IF mode \in {"tune", "benchmark"} THEN "exit" ELSE "detect"

\* run_benchmark sorts pairs of a rate and a dict: equal rates cannot be sorted.
Sortable ==
  \A i, j \in Positions(results) : results[i].rate = results[j].rate => i = j

\* Nothing measured, nothing gained, or an exception: the file stays.
Keep ==
  results # <<>> =>
    IF mode = "benchmark" THEN ~Sortable ELSE Best.size # Configured /\ ~WorthIt

KeepSize ==
  /\ pc = "search"
  /\ tried = Len(Sizes)
  /\ Keep
  /\ cfg' = [cfg EXCEPT !.size = Configured]
  /\ pc' = Afterwards
  /\ UNCHANGED <<mode, file, searchVars, deviceVars, poolVars>>

\* The file is read again, and emptied before it is written; or it cannot be
\* opened for writing and stays as it is, while the size is used.
TakeBest ==
  /\ pc = "search"
  /\ tried = Len(Sizes)
  /\ ~Keep
  /\ cfg' = [file EXCEPT !.size = Best.size, !.tuned = (mode # "benchmark" \/ @)]
  /\ \/ file' = EmptyFile /\ pc' = "save"
     \/ file' = file /\ pc' = Afterwards
  /\ UNCHANGED <<mode, searchVars, deviceVars, poolVars>>

\* The rest of the write, one block of the disk; a kill before it leaves the file
\* empty.
Save ==
  /\ pc = "save"
  /\ file' = cfg
  /\ pc' = Afterwards
  /\ UNCHANGED <<mode, cfg, searchVars, deviceVars, poolVars>>

\* The disk is full: the file stays empty.  auto_tune logs that and goes on with the
\* configuration in memory; run_benchmark raises, and the program ends as it would.
SaveFails ==
  /\ pc = "save"
  /\ pc' = Afterwards
  /\ UNCHANGED <<mode, file, cfg, searchVars, deviceVars, poolVars>>

-----------------------------------------------------------------------------
(* Devices and daemons. *)

\* Without a payout address run_miner exits.
NoPayout ==
  /\ pc = "detect"
  /\ ~cfg.payout
  /\ pc' = "exit"
  /\ UNCHANGED <<mode, file, cfg, searchVars, deviceVars, poolVars>>

Detect ==
  /\ pc = "detect"
  /\ cfg.payout
  /\ machine' \in Machines
  /\ config' \in Configs
  /\ results' = <<>>
  /\ tried' = 0
  /\ mode' = "mine"   \* no longer of interest
  /\ pc' = "choose"
  /\ UNCHANGED <<file, cfg, gpus, wanted, devices, probes, backends, poolVars>>

\* Without tools the solver is asked: a read of its stderr without a time-out.
SolverSilent ==
  /\ EnumerateGpus(machine) = <<>>
  /\ \E card \in 0..Len(machine.cards) - 1 : Hangs(machine, card)

Choose ==
  /\ pc = "choose"
  /\ ~SolverSilent
  /\ gpus' = StaticGpus(machine)
  /\ wanted' = ResolveGpuDevices(config, gpus')
  /\ devices' = wanted'
  /\ pc' = IF Len(wanted') > 1 THEN "probe" ELSE "make"
  /\ UNCHANGED <<mode, file, cfg, searchVars, machine, config, probes, backends,
                 poolVars>>

\* Mutant: the probes end one too early, and nothing follows them.
ProbeShort ==
  /\ pc = "probe"
  /\ probes < Cardinality(Probed(wanted)) - 1
  /\ ~Hangs(machine, probes)
  /\ probes' = probes + 1
  /\ UNCHANGED <<pc, mode, file, cfg, searchVars, machine, config, gpus, wanted,
                 devices, backends, poolVars>>

\* One daemon started and stopped per probe; a hanging one says nothing.
Probe ==
  /\ pc = "probe"
  /\ probes < Cardinality(Probed(wanted))
  /\ ~Hangs(machine, probes)
  /\ probes' = probes + 1
  /\ UNCHANGED <<pc, mode, file, cfg, searchVars, machine, config, gpus, wanted,
                 devices, backends, poolVars>>

SkipDead ==
  /\ pc = "probe"
  /\ probes = Cardinality(Probed(wanted))
  /\ devices' = KeepAlive(machine, wanted)
  /\ pc' = "make"
  /\ UNCHANGED <<mode, file, cfg, searchVars, machine, config, gpus, wanted,
                 probes, backends, poolVars>>

\* MultiGPUSolver: one daemon after the other.  One that cannot use its card
\* runs on the CPU, by its own choice or by the fallback of the wrapper.
MakeDaemon ==
  /\ pc = "make"
  /\ Len(backends) < Len(devices)
  /\ LET device == devices[Len(backends) + 1] IN
       backends' = Append(backends, IF Works(machine, device) THEN "hip" ELSE "cpu")
  /\ UNCHANGED <<pc, mode, file, cfg, searchVars, machine, config, gpus, wanted,
                 devices, probes, poolVars>>

DaemonsMade ==
  /\ pc = "make"
  /\ Len(backends) = Len(devices)
  /\ pc' = "connect"
  /\ UNCHANGED <<mode, file, cfg, searchVars, deviceVars, poolVars>>

\* The handshake names the cards, with the solver's word if the tools fail.
Connect ==
  /\ pc = "connect"
  /\ ~SolverSilent
  /\ named' = Idents(StaticGpus(machine))
  /\ pc' = "mine"
  /\ UNCHANGED <<mode, file, cfg, searchVars, deviceVars, reported>>

\* The metrics thread.
Report ==
  /\ pc = "mine"
  /\ reported' = RuntimeIdents(machine)
  /\ UNCHANGED <<pc, mode, file, cfg, searchVars, deviceVars, named>>

-----------------------------------------------------------------------------
(* The machine and the user. *)

\* A card stops working.
Break(device) ==
  /\ pc \in {"choose", "probe", "make"}
  /\ Works(machine, device)
  /\ machine' = [machine EXCEPT !.cards[device + 1].state = "dead"]
  /\ UNCHANGED <<pc, mode, file, cfg, searchVars, config, gpus, wanted, devices,
                 probes, backends, poolVars>>

\* rocm-smi stops answering in time.
ToolFails ==
  /\ pc \in {"choose", "probe", "make", "connect", "mine"}
  /\ machine.smi
  /\ machine' = [machine EXCEPT !.smi = FALSE]
  /\ UNCHANGED <<pc, mode, file, cfg, searchVars, config, gpus, wanted, devices,
                 probes, backends, poolVars>>

\* The program ends in any state, or is ended; it is started again later.
Kill ==
  /\ pc # "off"
  /\ pc' = "off"
  /\ cfg' = EmptyFile
  /\ results' = <<>> /\ tried' = 0
  /\ machine' = NoMachine /\ config' = NoConfig
  /\ gpus' = <<>> /\ wanted' = <<>> /\ devices' = <<>>
  /\ probes' = 0 /\ backends' = <<>>
  /\ named' = {} /\ reported' = {}
  /\ mode' = "mine"
  /\ UNCHANGED file

Run ==
  \/ Measure \/ KeepSize \/ TakeBest \/ Save \/ SaveFails
  \/ NoPayout \/ Detect \/ Choose \/ Probe \/ SkipDead \/ MakeDaemon \/ DaemonsMade
  \/ Connect

Next ==
  \/ Launch \/ Run \/ Report \/ ToolFails \/ Kill
  \/ \E device \in 0..Len(machine.cards) - 1 : Break(device)

Spec == Init /\ [][Next]_vars

\* Measurements, probes and starts have time-outs, but for the reads named above.
FairSpec == Spec /\ WF_vars(Run)

-----------------------------------------------------------------------------
(* Properties. *)

TypeOK ==
  /\ pc \in PCs
  /\ mode \in Modes
  /\ file \in Configuration
  /\ cfg \in Configuration
  /\ Len(results) <= tried /\ tried <= Len(Sizes)
  /\ machine \in Machine
  /\ config = NoConfig \/ config \in Configs
  /\ Len(devices) <= Len(wanted) /\ Len(backends) <= Len(devices)
  /\ pc \in {"make", "connect", "mine"} => devices # <<>>

\* A write that has failed after it emptied the file: what this start has found is in
\* memory alone.
Torn == file = EmptyFile /\ cfg.tuned /\ Offered(cfg.size)

\* A start mines to an address and with the size its file holds as tuned, across kills,
\* searches that cannot be saved, benchmarks in between and starts without tuning.  The
\* start whose own write has failed mines on with the address it began with and the
\* size it has found; no later start mines from the empty file that it, or a kill in
\* the middle of a write, leaves behind: the address is lost.
SavedIsUsed ==
  pc = "mine" =>
    /\ cfg.payout
    /\ \/ Torn
       \/ file.payout /\ (file.tuned /\ Offered(file.size) => cfg.size = file.size)

\* With gpu_devices "all" every card that works is mined on by one daemon,
\* whatever other cards are dead, break or hang later; and no card by two.
AllMine ==
  pc = "mine" /\ config.devices = "all" /\ Len(gpus) = Len(machine.cards) =>
    \A card \in 0..Len(machine.cards) - 1 :
      LET daemons == Cardinality({k \in Positions(devices) : devices[k] = card})
      IN daemons <= 1 /\ (Works(machine, card) => daemons = 1)

\* As long as the tools give the list of the handshake, the pool knows every card
\* of a report, also when some have an id and some are named after an address.
ReportsKnown ==
  [][Report /\ named = Idents(StaticGpus(machine)) => reported' \subseteq named]_vars

\* A start ends in the mining loop or in an exit, whatever card is dead; only a
\* card that hangs while it is probed holds it up.
Blocked ==
  \/ pc = "probe" /\ Hangs(machine, probes)
  \/ pc \in {"choose", "connect"} /\ SolverSilent

StartEnds ==
  (pc # "off") ~> (pc \in {"off", "mine", "exit"} \/ Blocked)
=============================================================================

-------------------------------- MODULE Gpus --------------------------------
(***************************************************************************)
(* What hardware.py makes of the graphics cards of a machine: the list the *)
(* driver tools give, the identity each card is reported under, and the    *)
(* choice of the devices to mine on.  Devices are numbered from 0 as in    *)
(* HIP_VISIBLE_DEVICES, lists from 1; tools and HIP list the cards in the  *)
(* same order.                                                             *)
(***************************************************************************)
EXTENDS Integers, Sequences, FiniteSets

CONSTANT ProbeLimit   \* probes of _probe_alive_gpu_indices, 16 in the code

ASSUME ProbeAssumption == ProbeLimit \in Nat \ {0}

\* domain0: its PCI domain is 0000.  hasId: rocm-smi shows a unique id.  works:
\* HIP initialises on it; hangs: a daemon started on it never says a word.
Card == [ domain0 : BOOLEAN, gfx9 : BOOLEAN, vram : Nat, hasId : BOOLEAN,
          state : {"works", "dead", "hangs"} ]

\* The cards, and whether rocm-smi and rocminfo answer (both within seconds).
Machine == [ cards : Seq(Card), smi : BOOLEAN, rocminfo : BOOLEAN ]

Positions(seq) == 1..Len(seq)

\* _amd_pci_bdfs means to leave out bus 0, where integrated cards are, but the
\* first field of an address is its domain: the cards of domain 0000 are left out.
Bdfs(machine) ==
  SelectSeq([i \in Positions(machine.cards) |-> i],
            LAMBDA i : ~machine.cards[i].domain0)

\* A card without a unique id is named after an address, if there are enough, or
\* after its row: rows and addresses are counted alike but list different cards.
RowIdent(machine, tool, row) ==
  IF row <= Len(Bdfs(machine)) THEN <<"pci", Bdfs(machine)[row]>> ELSE <<tool, row>>

\* One gfx target stands for all cards of rocm-smi: the first one rocminfo names.
SmiGpus(machine) ==
  [ row \in Positions(machine.cards) |->
      [ gfx9  |-> machine.cards[1].gfx9,
        vram  |-> machine.cards[row].vram,
        ident |-> IF machine.cards[row].hasId THEN <<"id", row>>
                  ELSE RowIdent(machine, "rocm-smi", row) ] ]

RocminfoGpus(machine) ==
  [ row \in Positions(machine.cards) |->
      [ gfx9  |-> machine.cards[row].gfx9,
        vram  |-> machine.cards[row].vram,
        ident |-> RowIdent(machine, "rocminfo", row) ] ]

EnumerateGpus(machine) ==
  IF machine.smi THEN SmiGpus(machine)
  ELSE IF machine.rocminfo THEN RocminfoGpus(machine)
  ELSE <<>>

Works(machine, device) ==
  device + 1 \in Positions(machine.cards) /\ machine.cards[device + 1].state = "works"

Hangs(machine, device) ==
  device + 1 \in Positions(machine.cards) /\ machine.cards[device + 1].state = "hangs"

\* _probe_solver_gpu: the daemon names the first card HIP gives it.
ProbedGpus(machine) ==
  LET working == SelectSeq(machine.cards, LAMBDA card : card.state = "works") IN
    IF working = <<>> THEN <<>>
    ELSE << [ gfx9  |-> working[1].gfx9, vram |-> working[1].vram,
              ident |-> RowIdent(machine, "host", 1) ] >>

\* detect_gpu_info and the handshake; without tools the solver itself is asked.
StaticGpus(machine) ==
  IF EnumerateGpus(machine) # <<>> THEN EnumerateGpus(machine) ELSE ProbedGpus(machine)

Idents(gpus) == {gpus[row].ident : row \in Positions(gpus)}

\* Mutant: a report names a card without an id after its row.
RuntimeIdentsByRow(machine) ==
  IF ~machine.smi THEN Idents(EnumerateGpus(machine))
  ELSE { IF machine.cards[row].hasId THEN <<"id", row>> ELSE <<"rocm-smi", row>> :
           row \in Positions(machine.cards) }

\* _gpu_runtime: the rows of rocm-smi, those without an id named as in the list
\* of the handshake; or that list when rocm-smi does not answer.
RuntimeIdents(machine) ==
  LET static == EnumerateGpus(machine) IN
    IF ~machine.smi THEN Idents(static)
    ELSE { IF machine.cards[row].hasId THEN <<"id", row>> ELSE static[row].ident :
             row \in Positions(machine.cards) }

-----------------------------------------------------------------------------
(* The choice of devices. *)

\* Smaller is better: gfx9 last, then more memory, then the first in the list.
Better(gpus, i, j) ==
  \/ ~gpus[i].gfx9 /\ gpus[j].gfx9
  \/ /\ gpus[i].gfx9 = gpus[j].gfx9
     /\ \/ gpus[i].vram > gpus[j].vram
        \/ gpus[i].vram = gpus[j].vram /\ i < j

PickBest(gpus) ==
  CHOOSE i \in Positions(gpus) : \A j \in Positions(gpus) \ {i} : Better(gpus, i, j)

\* Mutant: devices are numbered like the list.
AllDevicesFromOne(gpus) == [i \in Positions(gpus) |-> i]

AllDevices(gpus) == IF gpus = <<>> THEN <<0>> ELSE [i \in Positions(gpus) |-> i - 1]

\* gpu_devices is "all", a list or absent, as an empty list is; gpu_device may
\* force one device.
Config == { c \in [devices : {"all", "list", "none"}, list : Seq(Int), forced : Int] :
              c.devices = "list" => c.list # <<>> }

ResolveGpuDevices(config, gpus) ==
  CASE config.devices = "all" -> AllDevices(gpus)
    [] config.devices = "list" -> config.list
    [] config.devices = "none" /\ config.forced >= 0 -> <<config.forced>>
    [] OTHER -> IF Len(gpus) > 1 THEN <<PickBest(gpus) - 1>> ELSE <<0>>

\* The alive probe of run_miner counts up from 0, as many as there are devices.
Probed(devices) ==
  0..(IF Len(devices) < ProbeLimit THEN Len(devices) ELSE ProbeLimit) - 1

Alive(machine, devices) == {i \in Probed(devices) : Works(machine, i)}

\* The members of a list that are in keep, in order: SelectSeq, as a recursive
\* function.
Kept(list, keep) ==
  LET kept[n \in 0..Len(list)] ==
        IF n = 0 THEN <<>>
        ELSE IF list[n] \in keep THEN Append(kept[n - 1], list[n]) ELSE kept[n - 1]
  IN kept[Len(list)]

\* Mutant: no device is left if no probe succeeds.
KeepOnlyAlive(machine, devices) == Kept(devices, Alive(machine, devices))

KeepAlive(machine, devices) ==
  LET filtered == Kept(devices, Alive(machine, devices))
  IN IF filtered = <<>> THEN devices ELSE filtered
=============================================================================

-------------------------- MODULE MinerStartProofs --------------------------
(***************************************************************************)
(* Theorems of MinerStart, for all machines, configurations and batch      *)
(* sizes: the saved batch size is the one in use, and the pool knows the   *)
(* cards of every report.                                                  *)
(***************************************************************************)
EXTENDS MinerStart, FiniteSetTheorems, SequenceTheorems, WellFoundedInduction, TLAPS

-----------------------------------------------------------------------------
(* The identities of the cards. *)

MachineInv == machine \in Machine

LEMMA CardsSeq ==
  ASSUME NEW m \in Machine
  PROVE  m.cards \in Seq(Card) /\ Len(m.cards) \in Nat /\ m.smi \in BOOLEAN
<1>1. m.cards \in Seq(Card) /\ m.smi \in BOOLEAN BY DEF Machine
<1>. QED BY <1>1, LenProperties

\* A report names a card with an id by it, and any other card as the list does.
LEMMA RuntimeKnown ==
  ASSUME NEW m \in Machine
  PROVE  RuntimeIdents(m) \subseteq Idents(StaticGpus(m))
<1>1. Len(m.cards) \in Nat BY CardsSeq
<1>2. CASE ~m.smi
  <2>1. CASE EnumerateGpus(m) # <<>> BY <1>2, <2>1 DEF RuntimeIdents, StaticGpus
  <2>2. CASE EnumerateGpus(m) = <<>>
    <3>1. Idents(<<>>) = {} BY DEF Idents, Positions
    <3>. QED BY <1>2, <2>2, <3>1 DEF RuntimeIdents
  <2>. QED BY <2>1, <2>2
<1>3. CASE m.smi
  <2>. DEFINE n == Len(m.cards)
              list == SmiGpus(m)
  <2>1. EnumerateGpus(m) = list BY <1>3 DEF EnumerateGpus
  <2>2. /\ \A row \in 1..n : list[row].ident =
                IF m.cards[row].hasId THEN <<"id", row>>
                ELSE RowIdent(m, "rocm-smi", row)
        /\ Len(list) = n
    BY <1>1 DEF SmiGpus, Positions
  <2>. HIDE DEF list
  <2>3. RuntimeIdents(m) = { IF m.cards[row].hasId THEN <<"id", row>>
                             ELSE list[row].ident : row \in 1..n }
    BY <1>3, <2>1 DEF RuntimeIdents, Positions
  <2>4. RuntimeIdents(m) \subseteq Idents(list)
    BY <2>2, <2>3 DEF Idents, Positions
  <2>5. CASE list # <<>> BY <2>1, <2>4, <2>5 DEF StaticGpus
  <2>6. CASE list = <<>>
    <3>1. n = 0 BY <2>2, <2>6
    <3>2. RuntimeIdents(m) = {} BY <2>3, <3>1
    <3>. QED BY <3>2
  <2>. QED BY <2>5, <2>6
<1>4. m.smi \in BOOLEAN BY CardsSeq
<1>. QED BY <1>2, <1>3, <1>4

LEMMA MachineStep == ASSUME MachineInv, [Next]_vars PROVE MachineInv'
<1>. USE DEF MachineInv
<1>1. CASE Detect BY <1>1, StartAssumption DEF Detect
<1>2. CASE Kill
  <2>1. NoMachine \in Machine BY EmptySeq DEF NoMachine, Machine
  <2>. QED BY <1>2, <2>1 DEF Kill
<1>3. CASE ToolFails BY <1>3 DEF ToolFails, Machine
<1>4. ASSUME NEW device \in 0..Len(machine.cards) - 1, Break(device)
      PROVE  MachineInv'
  <2>1. device + 1 \in 1..Len(machine.cards) /\ machine.cards \in Seq(Card)
    BY CardsSeq
  <2>2. machine.cards[device + 1] \in Card BY <2>1, ElementOfSeq
  <2>. DEFINE card == [machine.cards[device + 1] EXCEPT !.state = "dead"]
              cards == [machine.cards EXCEPT ![device + 1] = card]
  <2>3. card \in Card BY <2>2 DEF Card
  <2>4. cards \in Seq(Card) BY <2>1, <2>3, ExceptSeq
  <2>5. machine' = [machine EXCEPT !.cards = cards] BY <1>4 DEF Break
  <2>. HIDE DEF cards
  <2>. QED BY <2>4, <2>5 DEF Machine
<1>5. CASE Launch \/ Measure \/ KeepSize \/ TakeBest \/ Save \/ SaveFails \/ NoPayout \/ Choose
           \/ Probe \/ SkipDead \/ MakeDaemon \/ DaemonsMade \/ Connect \/ Report
  BY <1>5 DEF Launch, Measure, KeepSize, TakeBest, Save, SaveFails, NoPayout, Choose, Probe,
              SkipDead, MakeDaemon, DaemonsMade, Connect, Report, deviceVars
<1>6. CASE UNCHANGED vars BY <1>6 DEF vars, deviceVars
<1>. QED BY <1>1, <1>2, <1>3, <1>4, <1>5, <1>6 DEF Next, Run

\* For every list of cards and any rows without an id: as long as the tools give the
\* list of the handshake, a report names no card the pool has not been told of.
THEOREM ReportsCorrect == Spec => ReportsKnown
<1>1. Init => MachineInv
  BY EmptySeq DEF Init, MachineInv, NoMachine, Machine
<1>2. MachineInv /\ [Next]_vars
      => [Report /\ named = Idents(StaticGpus(machine)) => reported' \subseteq named]_vars
  BY RuntimeKnown DEF MachineInv, Report
<1>. QED BY <1>1, <1>2, MachineStep, PTL DEF Spec, ReportsKnown

-----------------------------------------------------------------------------
(* Induction, with a set in the place of a predicate. *)

LEMMA LeastElement ==
  ASSUME NEW T \in SUBSET Nat, T # {}
  PROVE  \E x \in T : \A y \in T : x <= y
<1>. DEFINE R == OpToRel(<, Nat)
<1>1. \A x, y \in Nat : y < x => <<y, x>> \in R BY DEF OpToRel
<1>2. IsWellFoundedOn(R, Nat) BY NatLessThanWellFounded, Zenon
<1>. HIDE DEF R
<1>3. PICK x \in T : \A y \in T : ~ (<<y, x>> \in R)
  BY <1>2, WFMin
<1>4. ASSUME NEW y \in T PROVE x <= y
  <2>1. ~ (<<y, x>> \in R) BY <1>3, Zenon
  <2>2. x \in Nat /\ y \in Nat OBVIOUS
  <2>3. ~ (y < x) BY <1>1, <2>1, <2>2, Zenon
  <2>. QED BY <2>2, <2>3
<1>. QED BY <1>4

\* What holds of 0 and of every successor of a number it holds of, holds of all.
LEMMA Induction ==
  ASSUME NEW n \in Nat, NEW Holds, 0 \in Holds,
         \A k \in Nat : k < n /\ k \in Holds => k + 1 \in Holds
  PROVE  n \in Holds
<1>. DEFINE T == {k \in Nat : k <= n /\ k \notin Holds}
<1>. SUFFICES ASSUME n \notin Holds PROVE FALSE OBVIOUS
<1>1. n \in T OBVIOUS
<1>2. PICK x \in T : \A y \in T : x <= y BY <1>1, LeastElement
<1>3. x # 0 /\ x - 1 \in Nat /\ x - 1 < n BY <1>2
<1>4. x - 1 \in Holds BY <1>2, <1>3
<1>5. (x - 1) + 1 \in Holds BY <1>3, <1>4
<1>. QED BY <1>2, <1>3, <1>5

-----------------------------------------------------------------------------
(* Kept. *)

\* The recursion of Kept, over the first n of the list.
IsKept(kept, n, list, keep) ==
  kept = [k \in 0..n |->
            IF k = 0 THEN <<>>
            ELSE IF list[k] \in keep THEN Append(kept[k - 1], list[k]) ELSE kept[k - 1]]

LEMMA KeptExists ==
  ASSUME NEW n \in Nat, NEW list, NEW keep
  PROVE  \E kept : IsKept(kept, n, list, keep)
<1>. DEFINE Holds == {k \in Nat : \E kept : IsKept(kept, k, list, keep)}
<1>1. 0 \in Holds
  <2>. PICK kept : kept = [k \in 0..0 |-> <<>>] OBVIOUS
  <2>1. IsKept(kept, 0, list, keep) BY DEF IsKept
  <2>. QED BY <2>1
<1>2. ASSUME NEW k \in Nat, k < n, k \in Holds PROVE k + 1 \in Holds
  <2>1. PICK kept : IsKept(kept, k, list, keep) BY <1>2
  <2>2. PICK longer : longer =
          [j \in 0..k + 1 |->
             IF j <= k THEN kept[j]
             ELSE IF list[k + 1] \in keep THEN Append(kept[k], list[k + 1]) ELSE kept[k]]
    OBVIOUS
  <2>3. \A j \in 0..k : longer[j] = kept[j] BY <2>2
  <2>4. \A j \in 0..k : kept[j] =
          IF j = 0 THEN <<>>
          ELSE IF list[j] \in keep THEN Append(kept[j - 1], list[j]) ELSE kept[j - 1]
    BY <2>1 DEF IsKept
  <2>5. \A j \in 0..k + 1 : longer[j] =
          IF j = 0 THEN <<>>
          ELSE IF list[j] \in keep THEN Append(longer[j - 1], list[j]) ELSE longer[j - 1]
    <3>. TAKE j \in 0..k + 1
    <3>1. CASE j = 0 BY <2>3, <2>4, <3>1
    <3>2. CASE j \in 1..k
      <4>1. j \in 0..k /\ j - 1 \in 0..k BY <3>2
      <4>. QED BY <2>3, <2>4, <3>2, <4>1
    <3>3. CASE j = k + 1
      <4>1. j - 1 = k /\ k \in 0..k /\ j # 0 BY <3>3
      <4>. QED BY <2>2, <2>3, <3>3, <4>1
    <3>. QED BY <3>1, <3>2, <3>3
  <2>6. IsKept(longer, k + 1, list, keep) BY <2>2, <2>5 DEF IsKept
  <2>. QED BY <2>6
<1>. HIDE DEF Holds
<1>3. n \in Holds BY <1>1, <1>2, Induction
<1>. QED BY <1>3 DEF Holds

LEMMA KeptIs ==
  ASSUME NEW S, NEW list \in Seq(S), NEW keep
  PROVE  \E kept : IsKept(kept, Len(list), list, keep) /\ Kept(list, keep) = kept[Len(list)]
<1>1. Len(list) \in Nat OBVIOUS
<1>2. \E kept : IsKept(kept, Len(list), list, keep) BY <1>1, KeptExists
<1>. QED BY <1>2 DEF Kept, IsKept

Injective(list, n) == \A i, j \in 1..n : list[i] = list[j] => i = j

\* part is what is kept of the first n of the list.
KeptPart(part, n, list, keep, S) ==
  /\ part \in Seq(S) /\ Len(part) <= n
  /\ \A i \in 1..Len(part) : \E j \in 1..n : part[i] = list[j] /\ list[j] \in keep
  /\ \A j \in 1..n : list[j] \in keep => \E i \in 1..Len(part) : part[i] = list[j]
  /\ Injective(list, n) => Injective(part, Len(part))

LEMMA OneMore ==
  ASSUME NEW n \in Nat, NEW k \in 1..(n + 1)
  PROVE  (k <= n => k \in 1..n) /\ (k > n => k = n + 1)
OBVIOUS

LEMMA KeptPartStep ==
  ASSUME NEW S, NEW list \in Seq(S), NEW keep, NEW n \in Nat, n < Len(list),
         NEW part, KeptPart(part, n, list, keep, S),
         NEW more, more = IF list[n + 1] \in keep THEN Append(part, list[n + 1]) ELSE part
  PROVE  KeptPart(more, n + 1, list, keep, S)
<1>. USE DEF KeptPart
<1>1. part \in Seq(S) /\ Len(part) \in Nat /\ list[n + 1] \in S
  BY LenProperties, ElementOfSeq
<1>2. CASE list[n + 1] \notin keep
  BY <1>2 DEF Injective
<1>3. CASE list[n + 1] \in keep
  <2>1. /\ more \in Seq(S) /\ Len(more) = Len(part) + 1
        /\ \A i \in 1..Len(part) : more[i] = part[i]
        /\ more[Len(part) + 1] = list[n + 1]
    BY <1>1, <1>3, AppendProperties
  <2>2. ASSUME NEW i \in 1..Len(more)
        PROVE  \E j \in 1..n + 1 : more[i] = list[j] /\ list[j] \in keep
    <3>1. CASE i <= Len(part)
      <4>1. i \in 1..Len(part) BY <1>1, <2>1, <3>1
      <4>2. PICK j \in 1..n : part[i] = list[j] /\ list[j] \in keep BY <4>1
      <4>. QED BY <2>1, <4>1, <4>2
    <3>2. CASE i > Len(part)
      <4>1. i = Len(part) + 1 BY <1>1, <2>1, <3>2
      <4>2. n + 1 \in 1..n + 1 OBVIOUS
      <4>. QED BY <1>3, <2>1, <4>1, <4>2
    <3>. QED BY <1>1, <2>1, <3>1, <3>2
  <2>3. ASSUME NEW j \in 1..n + 1, list[j] \in keep
        PROVE  \E i \in 1..Len(more) : more[i] = list[j]
    <3>1. CASE j <= n
      <4>1. PICK i \in 1..Len(part) : part[i] = list[j] BY <2>3, <3>1
      <4>2. i \in 1..Len(more) BY <1>1, <2>1
      <4>. QED BY <2>1, <4>1, <4>2
    <3>2. CASE j > n
      <4>1. j = n + 1 /\ Len(part) + 1 \in 1..Len(more) BY <1>1, <2>1, <3>2
      <4>. QED BY <2>1, <4>1
    <3>. QED BY <3>1, <3>2
  <2>4. ASSUME Injective(list, n + 1) PROVE Injective(more, Len(more))
    <3>1. Injective(part, Len(part)) BY <2>4 DEF Injective
    <3>2. \A i \in 1..Len(part) : part[i] # list[n + 1]
      <4>. TAKE i \in 1..Len(part)
      <4>1. PICK j \in 1..n : part[i] = list[j] OBVIOUS
      <4>2. list[j] # list[n + 1] BY <2>4 DEF Injective
      <4>. QED BY <4>1, <4>2
    <3>3. ASSUME NEW i \in 1..Len(more), NEW j \in 1..Len(more), more[i] = more[j]
          PROVE  i = j
      <4>0. \A k \in 1..Len(more) : /\ k <= Len(part) => k \in 1..Len(part)
                                    /\ k > Len(part) => k = Len(part) + 1
        <5>. HIDE DEF KeptPart
        <5>. PICK n1 \in Nat : n1 = Len(part) BY <1>1
        <5>1. Len(more) = n1 + 1 BY <2>1
        <5>. QED BY <5>1, OneMore
      <4>1. CASE i <= Len(part) /\ j <= Len(part)
        <5>1. i \in 1..Len(part) /\ j \in 1..Len(part) BY <4>0, <4>1, Zenon
        <5>. QED BY <2>1, <3>1, <3>3, <5>1 DEF Injective
      <4>2. CASE i <= Len(part) /\ j > Len(part)
        <5>1. i \in 1..Len(part) /\ j = Len(part) + 1 BY <4>0, <4>2, Zenon
        <5>2. more[i] # more[j] BY <2>1, <3>2, <5>1, Zenon
        <5>. QED BY <3>3, <5>2
      <4>3. CASE i > Len(part) /\ j <= Len(part)
        <5>1. j \in 1..Len(part) /\ i = Len(part) + 1 BY <4>0, <4>3, Zenon
        <5>2. more[i] # more[j] BY <2>1, <3>2, <5>1, Zenon
        <5>. QED BY <3>3, <5>2
      <4>4. CASE i > Len(part) /\ j > Len(part) BY <4>0, <4>4, Zenon
      <4>5. i <= Len(part) \/ i > Len(part) BY <1>1
      <4>6. j <= Len(part) \/ j > Len(part) BY <1>1
      <4>. QED BY <4>1, <4>2, <4>3, <4>4, <4>5, <4>6, Zenon
    <3>. QED BY <3>3 DEF Injective
  <2>5. Len(more) <= n + 1 BY <1>1, <2>1
  <2>. QED BY <2>1, <2>2, <2>3, <2>4, <2>5
<1>. QED BY <1>2, <1>3

LEMMA KeptProperties ==
  ASSUME NEW S, NEW list \in Seq(S), NEW keep
  PROVE  KeptPart(Kept(list, keep), Len(list), list, keep, S)
<1>. PICK n \in Nat : n = Len(list) BY LenProperties
<1>1. PICK kept : IsKept(kept, n, list, keep) /\ Kept(list, keep) = kept[n]
  BY KeptIs
<1>. DEFINE Holds == {k \in Nat : k <= n => KeptPart(kept[k], k, list, keep, S)}
<1>2. 0 \in Holds
  <2>1. kept[0] = <<>> BY <1>1 DEF IsKept
  <2>2. KeptPart(<<>>, 0, list, keep, S) BY EmptySeq DEF KeptPart, Injective
  <2>. QED BY <2>1, <2>2
<1>3. ASSUME NEW k \in Nat, k < n, k \in Holds PROVE k + 1 \in Holds
  <2>1. KeptPart(kept[k], k, list, keep, S) BY <1>3
  <2>2. kept[k + 1] =
          IF list[k + 1] \in keep THEN Append(kept[k], list[k + 1]) ELSE kept[k]
    <3>1. k + 1 \in 0..n /\ k + 1 # 0 /\ (k + 1) - 1 = k BY <1>3
    <3>. QED BY <1>1, <3>1 DEF IsKept
  <2>3. KeptPart(kept[k + 1], k + 1, list, keep, S) BY <1>3, <2>1, <2>2, KeptPartStep
  <2>. QED BY <2>3
<1>. HIDE DEF Holds
<1>4. n \in Holds BY <1>2, <1>3, Induction
<1>5. KeptPart(kept[n], n, list, keep, S) BY <1>4 DEF Holds
<1>. QED BY <1>1, <1>5

-----------------------------------------------------------------------------
(* Every card that works is mined on. *)

\* A list on which every card that works is, and none twice.
Covers(list) ==
  /\ list \in Seq(Int)
  /\ Injective(list, Len(list))
  /\ \A card \in 0..Len(machine.cards) - 1 :
       Works(machine, card) => \E k \in 1..Len(list) : list[k] = card

\* The miner has been told to mine on all cards, and knows how many there are.
AllListed == config.devices = "all" /\ Len(gpus) = Len(machine.cards)

\* What is probed covers the cards that work, and what is left of it.
CardsInv ==
  /\ Len(machine.cards) <= ProbeLimit
  /\ pc = "probe" /\ AllListed => Covers(wanted) /\ Len(machine.cards) <= Len(wanted)
  /\ pc \in {"make", "connect", "mine"} /\ AllListed => Covers(devices)

LEMMA AllDevicesFull ==
  ASSUME NEW list, Len(list) \in Nat, list = <<>> => Len(list) = 0
  PROVE  /\ AllDevices(list) \in Seq(Int)
         /\ Injective(AllDevices(list), Len(AllDevices(list)))
         /\ Len(list) <= Len(AllDevices(list))
         /\ \A card \in 0..Len(list) - 1 :
              \E k \in 1..Len(AllDevices(list)) : AllDevices(list)[k] = card
<1>. PICK n \in Nat : n = Len(list) OBVIOUS
<1>1. CASE list = <<>>
  <2>. PICK all : all = <<0>> OBVIOUS
  <2>1. AllDevices(list) = all BY <1>1 DEF AllDevices
  <2>2. all \in Seq(Int) /\ Len(all) = 1 OBVIOUS
  <2>3. Len(list) = 0 BY <1>1
  <2>4. Injective(all, 1) BY DEF Injective
  <2>. QED BY <2>1, <2>2, <2>3, <2>4
<1>2. CASE list # <<>>
  <2>. PICK all : all = [i \in 1..n |-> i - 1] OBVIOUS
  <2>1. AllDevices(list) = all BY <1>2 DEF AllDevices, Positions
  <2>2. all \in Seq(Int) /\ Len(all) = n /\ \A i \in 1..n : all[i] = i - 1 OBVIOUS
  <2>3. Injective(all, n) BY <2>2 DEF Injective
  <2>4. \A card \in 0..n - 1 : \E k \in 1..n : all[k] = card
    <3>. TAKE card \in 0..n - 1
    <3>1. card + 1 \in 1..n /\ all[card + 1] = card BY <2>2
    <3>. QED BY <3>1
  <2>. QED BY <2>1, <2>2, <2>3, <2>4
<1>. QED BY <1>1, <1>2

LEMMA StaticGpusLen ==
  ASSUME NEW m \in Machine
  PROVE  /\ Len(StaticGpus(m)) \in Nat
         /\ StaticGpus(m) = <<>> => Len(StaticGpus(m)) = 0
<1>1. Len(m.cards) \in Nat BY CardsSeq
<1>2. Len(SmiGpus(m)) \in Nat BY <1>1 DEF SmiGpus, Positions
<1>3. Len(RocminfoGpus(m)) \in Nat BY <1>1 DEF RocminfoGpus, Positions
<1>4. Len(<<>>) = 0 OBVIOUS
<1>5. Len(ProbedGpus(m)) \in Nat
  <2>1. \A gpu : Len(<<gpu>>) = 1 OBVIOUS
  <2>. QED BY <1>4, <2>1 DEF ProbedGpus
<1>6. StaticGpus(m) \in {SmiGpus(m), RocminfoGpus(m), <<>>, ProbedGpus(m)}
  BY DEF StaticGpus, EnumerateGpus
<1>. QED BY <1>2, <1>3, <1>4, <1>5, <1>6, Zenon

LEMMA ChooseCovers ==
  ASSUME MachineInv, CardsInv, Choose
  PROVE  CardsInv'
<1>1. machine \in Machine BY DEF MachineInv
<1>2. Len(machine.cards) \in Nat BY <1>1, CardsSeq
<1>3. /\ machine' = machine /\ config' = config /\ gpus' = StaticGpus(machine)
      /\ wanted' = ResolveGpuDevices(config, gpus') /\ devices' = wanted'
      /\ pc' \in {"probe", "make"}
  BY DEF Choose
<1>4. ASSUME AllListed'
      PROVE  Covers(wanted)' /\ Len(machine.cards) <= Len(wanted')
  <2>1. wanted' = AllDevices(gpus') BY <1>3, <1>4 DEF ResolveGpuDevices, AllListed
  <2>2. Len(gpus') = Len(machine.cards) BY <1>3, <1>4 DEF AllListed
  <2>3. /\ wanted' \in Seq(Int)
        /\ Injective(wanted', Len(wanted'))
        /\ Len(machine.cards) <= Len(wanted')
        /\ \A card \in 0..Len(machine.cards) - 1 : \E k \in 1..Len(wanted') : wanted'[k] = card
    BY <1>1, <1>3, <2>1, <2>2, AllDevicesFull, StaticGpusLen
  <2>. QED BY <1>3, <2>3 DEF Covers
<1>5. Covers(devices)' <=> Covers(wanted)' BY <1>3 DEF Covers
<1>. QED BY <1>3, <1>4, <1>5 DEF CardsInv

\* What the alive probe leaves of the list: a card that works has been probed.
LEMMA SkipDeadCovers ==
  ASSUME MachineInv, CardsInv, SkipDead
  PROVE  CardsInv'
<1>1. Len(machine.cards) \in Nat BY CardsSeq DEF MachineInv
<1>2. /\ pc = "probe" /\ devices' = KeepAlive(machine, wanted) /\ pc' = "make"
      /\ UNCHANGED <<machine, config, gpus, wanted>>
  BY DEF SkipDead
<1>3. ASSUME AllListed
      PROVE  Covers(devices)'
  <2>1. Covers(wanted) /\ Len(machine.cards) <= Len(wanted)
    BY <1>2, <1>3 DEF CardsInv
  <2>. PICK alive : alive = Alive(machine, wanted) OBVIOUS
  <2>. PICK left : left = Kept(wanted, alive) OBVIOUS
  <2>2. wanted \in Seq(Int) /\ Len(wanted) \in Nat BY <2>1, LenProperties DEF Covers
  <2>3. KeptPart(left, Len(wanted), wanted, alive, Int) BY <2>2, KeptProperties
  <2>4. ASSUME NEW card \in 0..Len(machine.cards) - 1, Works(machine, card)
        PROVE  card \in alive
    <3>1. Len(machine.cards) <= ProbeLimit /\ ProbeLimit \in Nat
      BY ProbeAssumption DEF CardsInv
    <3>2. card \in Probed(wanted) BY <1>1, <2>1, <2>2, <3>1 DEF Probed
    <3>. QED BY <2>4, <3>2 DEF Alive
  <2>5. Covers(left)
    <3>1. left \in Seq(Int) BY <2>3 DEF KeptPart
    <3>2. Injective(left, Len(left)) BY <2>1, <2>3 DEF KeptPart, Covers
    <3>3. ASSUME NEW card \in 0..Len(machine.cards) - 1, Works(machine, card)
          PROVE  \E k \in 1..Len(left) : left[k] = card
      <4>1. PICK j \in 1..Len(wanted) : wanted[j] = card BY <2>1, <3>3 DEF Covers
      <4>2. wanted[j] \in alive BY <2>4, <3>3, <4>1
      <4>. QED BY <2>3, <4>1, <4>2 DEF KeptPart
    <3>. QED BY <3>1, <3>2, <3>3 DEF Covers
  <2>6. devices' \in {left, wanted} BY <1>2 DEF KeepAlive
  <2>7. machine' = machine BY <1>2
  <2>8. CASE devices' = left BY <2>5, <2>7, <2>8 DEF Covers
  <2>9. CASE devices' = wanted BY <2>1, <2>7, <2>9 DEF Covers
  <2>. QED BY <2>6, <2>8, <2>9
<1>4. AllListed' <=> AllListed BY <1>2 DEF AllListed
<1>. QED BY <1>2, <1>3, <1>4 DEF CardsInv

\* A card breaks, or rocm-smi: no card begins to work.
LEMMA BreakCovers ==
  ASSUME MachineInv, CardsInv, UNCHANGED <<pc, config, gpus, wanted, devices>>,
         Len(machine'.cards) = Len(machine.cards),
         \A card \in 0..Len(machine.cards) - 1 :
           Works(machine', card) => Works(machine, card)
  PROVE  CardsInv'
<1>1. AllListed' <=> AllListed BY DEF AllListed
<1>2. Covers(wanted) => Covers(wanted)' BY DEF Covers
<1>3. Covers(devices) => Covers(devices)' BY DEF Covers
<1>. QED BY <1>1, <1>2, <1>3 DEF CardsInv

LEMMA CardsStep ==
  ASSUME \A m \in Machines : Len(m.cards) <= ProbeLimit,
         MachineInv, CardsInv, [Next]_vars
  PROVE  CardsInv'
<1>1. CASE Choose BY <1>1, ChooseCovers
<1>2. CASE SkipDead BY <1>2, SkipDeadCovers
<1>3. ASSUME NEW device \in 0..Len(machine.cards) - 1, Break(device)
      PROVE  CardsInv'
  <2>1. device + 1 \in 1..Len(machine.cards) /\ machine.cards \in Seq(Card)
    BY CardsSeq DEF MachineInv
  <2>2. machine.cards[device + 1] \in Card BY <2>1, ElementOfSeq
  <2>. PICK card : card = [machine.cards[device + 1] EXCEPT !.state = "dead"] OBVIOUS
  <2>3. card \in Card /\ card.state = "dead" BY <2>2 DEF Card
  <2>4. machine'.cards = [machine.cards EXCEPT ![device + 1] = card]
    BY <1>3 DEF Break, MachineInv, Machine
  <2>5. /\ Len(machine'.cards) = Len(machine.cards)
        /\ \A j \in 1..Len(machine.cards) :
             machine'.cards[j] = IF j = device + 1 THEN card ELSE machine.cards[j]
    BY <2>1, <2>3, <2>4, ExceptSeq
  <2>6. \A c \in 0..Len(machine.cards) - 1 : Works(machine', c) => Works(machine, c)
    BY <2>3, <2>5 DEF Works, Positions
  <2>7. UNCHANGED <<pc, config, gpus, wanted, devices>> BY <1>3 DEF Break
  <2>. QED BY <2>5, <2>6, <2>7, BreakCovers
<1>4. CASE ToolFails
  <2>1. machine'.cards = machine.cards BY <1>4 DEF ToolFails, MachineInv, Machine
  <2>2. UNCHANGED <<pc, config, gpus, wanted, devices>> BY <1>4 DEF ToolFails
  <2>3. \A c \in 0..Len(machine.cards) - 1 : Works(machine', c) => Works(machine, c)
    BY <2>1 DEF Works
  <2>. QED BY <2>1, <2>2, <2>3, BreakCovers
<1>5. CASE Detect BY <1>5 DEF Detect, CardsInv
<1>6. CASE Kill
  <2>1. pc' = "off" /\ Len(machine'.cards) = 0 BY <1>6 DEF Kill, NoMachine
  <2>. QED BY <2>1, ProbeAssumption DEF CardsInv
<1>7. CASE \/ Launch \/ Measure \/ KeepSize \/ TakeBest \/ Save \/ SaveFails \/ NoPayout \/ Probe
           \/ MakeDaemon \/ DaemonsMade \/ Connect \/ Report \/ UNCHANGED vars
  <2>1. /\ UNCHANGED <<machine, config, gpus, wanted, devices>>
        /\ pc' = "probe" => pc = "probe"
        /\ pc' \in {"make", "connect", "mine"} => pc \in {"make", "connect", "mine"}
    BY <1>7 DEF Launch, Measure, KeepSize, TakeBest, Save, SaveFails,
                Afterwards, NoPayout, Probe, MakeDaemon, DaemonsMade, Connect, Report, vars, deviceVars
  <2>2. AllListed' <=> AllListed BY <2>1 DEF AllListed
  <2>3. (Covers(wanted)' <=> Covers(wanted)) /\ (Covers(devices)' <=> Covers(devices))
    BY <2>1 DEF Covers
  <2>. QED BY <2>1, <2>2, <2>3 DEF CardsInv
<1>. QED BY <1>1, <1>2, <1>3, <1>4, <1>5, <1>6, <1>7 DEF Next, Run

LEMMA CardsMined == ASSUME MachineInv, CardsInv PROVE AllMine
<1>. SUFFICES ASSUME pc = "mine", AllListed, NEW card \in 0..Len(machine.cards) - 1
              PROVE  LET daemons == Cardinality({k \in Positions(devices) : devices[k] = card})
                     IN daemons <= 1 /\ (Works(machine, card) => daemons = 1)
  BY DEF AllMine, AllListed
<1>1. Covers(devices) BY DEF CardsInv
<1>. PICK on : on = {k \in Positions(devices) : devices[k] = card} OBVIOUS
<1>2. CASE on = {}
  <2>1. ~Works(machine, card) BY <1>1, <1>2 DEF Covers, Positions
  <2>2. Cardinality(on) = 0 BY <1>2, FS_EmptySet
  <2>. QED BY <2>1, <2>2
<1>3. CASE on # {}
  <2>1. PICK k \in on : TRUE BY <1>3
  <2>2. on = {k} BY <1>1, <2>1 DEF Covers, Positions, Injective
  <2>3. Cardinality(on) = 1 BY <2>2, FS_Singleton
  <2>. QED BY <2>3
<1>. QED BY <1>2, <1>3

\* On machines with no more cards than are probed, 16 in the code: whatever cards are
\* dead, break or hang, gpu_devices "all" has every card that works mined on, and none
\* twice.  (A seventeenth card is taken for dead.)
THEOREM AllMineCorrect ==
  ASSUME \A m \in Machines : Len(m.cards) <= ProbeLimit
  PROVE  Spec => []AllMine
<1>1. Init => MachineInv
  BY EmptySeq DEF Init, MachineInv, NoMachine, Machine
<1>2. Init => CardsInv
  BY ProbeAssumption DEF Init, CardsInv, NoMachine
<1>3. MachineInv /\ CardsInv /\ [Next]_vars => CardsInv' BY CardsStep
<1>. QED BY <1>1, <1>2, <1>3, MachineStep, CardsMined, PTL DEF Spec

-----------------------------------------------------------------------------
(* Types. *)

OfferedSizes == {Sizes[i] : i \in 1..Len(Sizes)}

Result == [rate : Nat, size : OfferedSizes]

\* What TypeOK says of each part, and what the steps need to keep it so.
SearchTypes ==
  /\ file \in Configuration /\ cfg \in Configuration
  /\ results \in Seq(Result) /\ tried \in Nat
  /\ Len(results) <= tried /\ tried <= Len(Sizes)

IsSeq(list) == \E S : list \in Seq(S)

\* A start has an option to choose by, a list to probe, and no daemon before it has
\* a list of devices.
DeviceTypes ==
  /\ config = NoConfig \/ config \in Configs
  /\ pc \in {"choose", "probe", "make", "connect", "mine"} => config \in Configs
  /\ IsSeq(wanted) /\ IsSeq(devices) /\ IsSeq(backends)
  /\ pc = "probe" => wanted # <<>>
  /\ pc \in {"make", "connect", "mine"} => devices # <<>>
  /\ pc \notin {"make", "connect", "mine"} => backends = <<>>
  /\ Len(devices) <= Len(wanted) /\ Len(backends) <= Len(devices)

StartInv ==
  /\ pc \in PCs /\ mode \in Modes
  /\ MachineInv /\ SearchTypes /\ DeviceTypes

LEMMA ConfigurationFields ==
  ASSUME NEW c \in Configuration
  PROVE  /\ c.payout \in BOOLEAN /\ c.size \in Nat /\ c.tuned \in BOOLEAN
         /\ \A size \in Nat : [c EXCEPT !.size = size] \in Configuration
         /\ \A size \in Nat, tuned \in BOOLEAN :
              [c EXCEPT !.size = size, !.tuned = tuned] \in Configuration
BY DEF Configuration

LEMMA EmptyIsConfiguration == EmptyFile \in Configuration
BY DEF EmptyFile, Configuration

LEMMA SizesAre ==
  /\ Len(Sizes) \in Nat
  /\ OfferedSizes \subseteq Nat \ {0}
BY StartAssumption, LenProperties, ElementOfSeq DEF OfferedSizes

\* Of the first n results, the i-th is the first of the fastest.
Fastest(list, n, i) ==
  /\ \A j \in 1..n : list[i].rate >= list[j].rate
  /\ \A j \in 1..(i - 1) : list[j].rate < list[i].rate

LEMMA SomeFastest ==
  ASSUME NEW n \in Nat, n # 0, NEW list, \A i \in 1..n : list[i].rate \in Nat
  PROVE  \E i \in 1..n : Fastest(list, n, i)
<1>. DEFINE Holds == {k \in Nat : k # 0 /\ k <= n => \E i \in 1..k : Fastest(list, k, i)}
<1>1. 0 \in Holds OBVIOUS
<1>2. ASSUME NEW k \in Nat, k < n, k \in Holds PROVE k + 1 \in Holds
  <2>1. CASE k = 0
    <3>1. 1 \in 1..1 /\ list[1].rate \in Nat BY <1>2
    <3>2. Fastest(list, 1, 1) BY <3>1 DEF Fastest
    <3>. QED BY <2>1, <3>1, <3>2
  <2>2. CASE k # 0
    <3>1. PICK i \in 1..k : Fastest(list, k, i) BY <1>2, <2>2
    <3>2. /\ \A j \in 1..k + 1 : list[j].rate \in Nat
          /\ \A j \in 1..k + 1 : j \in 1..k \/ j = k + 1
          /\ i \in 1..k + 1 /\ k + 1 \in 1..k + 1
      BY <1>2
    <3>3. CASE list[k + 1].rate > list[i].rate
      <4>1. \A j \in 1..k : list[j].rate < list[k + 1].rate
        BY <3>1, <3>2, <3>3 DEF Fastest
      <4>2. list[k + 1].rate >= list[k + 1].rate /\ (k + 1) - 1 = k BY <3>2
      <4>3. \A j \in 1..k + 1 : list[k + 1].rate >= list[j].rate
        BY <3>2, <4>1, <4>2
      <4>4. Fastest(list, k + 1, k + 1) BY <4>1, <4>2, <4>3 DEF Fastest
      <4>. QED BY <3>2, <4>4
    <3>4. CASE ~(list[k + 1].rate > list[i].rate)
      <4>1. Fastest(list, k + 1, i) BY <3>1, <3>2, <3>4 DEF Fastest
      <4>. QED BY <3>2, <4>1
    <3>. QED BY <3>3, <3>4
  <2>. QED BY <2>1, <2>2
<1>. HIDE DEF Holds
<1>3. n \in Holds BY <1>1, <1>2, Induction
<1>. QED BY <1>3 DEF Holds

\* The fastest size is one that has been measured.
LEMMA BestSize ==
  ASSUME results \in Seq(Result), results # <<>>
  PROVE  Best.size \in OfferedSizes
<1>. PICK n \in Nat : n = Len(results) BY LenProperties
<1>1. n # 0 BY EmptySeq
<1>2. \A i \in 1..n : results[i] \in Result BY ElementOfSeq
<1>3. \A i \in 1..n : results[i].rate \in Nat /\ results[i].size \in OfferedSizes
  BY <1>2 DEF Result
<1>4. \E i \in 1..n : Fastest(results, n, i) BY <1>1, <1>3, SomeFastest
<1>5. Best = results[CHOOSE i \in 1..n : Fastest(results, n, i)]
  BY DEF Best, Positions, Fastest
<1>. QED BY <1>3, <1>4, <1>5

LEMMA SearchStep ==
  ASSUME SearchTypes, [Next]_vars PROVE SearchTypes'
<1>. USE DEF SearchTypes
<1>1. CASE Measure
  <2>1. Sizes[tried + 1] \in OfferedSizes BY <1>1, SizesAre DEF Measure, OfferedSizes
  <2>2. tried' \in Nat /\ tried' <= Len(Sizes) /\ tried' = tried + 1
    BY <1>1, SizesAre DEF Measure
  <2>3. results' = results \/ \E r \in Result : results' = Append(results, r)
    <3>1. \A rate \in Rates : [rate |-> rate, size |-> Sizes[tried + 1]] \in Result
      BY <2>1, StartAssumption DEF Result
    <3>. QED BY <1>1, <3>1 DEF Measure
  <2>4. results' \in Seq(Result) /\ Len(results') <= Len(results) + 1 /\ Len(results) \in Nat
    BY <2>3, AppendProperties, LenProperties
  <2>. QED BY <1>1, <2>2, <2>4 DEF Measure
<1>2. CASE Launch BY <1>2 DEF Launch, searchVars
<1>3. CASE KeepSize
  <2>1. Configured \in Nat BY ConfigurationFields, StartAssumption DEF Configured
  <2>2. cfg' \in Configuration BY <1>3, <2>1, ConfigurationFields DEF KeepSize
  <2>. QED BY <1>3, <2>2 DEF KeepSize, searchVars
<1>4. CASE TakeBest
  <2>1. Best.size \in Nat BY <1>4, BestSize, SizesAre DEF TakeBest, Keep
  <2>. PICK tuned : tuned = (mode # "benchmark" \/ file.tuned) OBVIOUS
  <2>2. tuned \in BOOLEAN BY ConfigurationFields
  <2>3. cfg' = [file EXCEPT !.size = Best.size, !.tuned = tuned] BY <1>4 DEF TakeBest
  <2>4. cfg' \in Configuration BY <2>1, <2>2, <2>3, ConfigurationFields
  <2>5. file' \in Configuration BY <1>4, EmptyIsConfiguration DEF TakeBest
  <2>. QED BY <1>4, <2>4, <2>5 DEF TakeBest, searchVars
<1>5. CASE Save \/ SaveFails BY <1>5 DEF Save, SaveFails, searchVars
<1>6. CASE Detect \/ Kill
  <2>1. results' = <<>> /\ tried' = 0 /\ file' = file /\ cfg' \in {cfg, EmptyFile}
    BY <1>6 DEF Detect, Kill
  <2>2. results' \in Seq(Result) /\ Len(results') = 0 BY <2>1, EmptySeq
  <2>. QED BY <2>1, <2>2, SizesAre, EmptyIsConfiguration
<1>7. CASE \/ NoPayout \/ Choose \/ Probe \/ SkipDead \/ MakeDaemon \/ DaemonsMade \/ Connect
           \/ Report \/ ToolFails \/ UNCHANGED vars
           \/ \E device \in 0..Len(machine.cards) - 1 : Break(device)
  <2>1. UNCHANGED <<file, cfg, results, tried>>
    BY <1>7 DEF NoPayout, Choose, Probe, SkipDead, MakeDaemon, DaemonsMade, Connect,
                Report, ToolFails, Break, vars, searchVars
  <2>. QED BY <2>1
<1>. QED BY <1>1, <1>2, <1>3, <1>4, <1>5, <1>6, <1>7 DEF Next, Run

\* Every choice names a device.
LEMMA ResolvedList ==
  ASSUME NEW options \in Configs, NEW list, Len(list) \in Nat, list = <<>> => Len(list) = 0
  PROVE  IsSeq(ResolveGpuDevices(options, list)) /\ ResolveGpuDevices(options, list) # <<>>
<1>. PICK chosen : chosen = ResolveGpuDevices(options, list) OBVIOUS
<1>1. options \in Config BY StartAssumption
<1>2. /\ options.devices \in {"all", "list", "none"} /\ options.list \in Seq(Int)
      /\ options.devices = "list" => options.list # <<>>
  BY <1>1 DEF Config
<1>3. \A x : IsSeq(<<x>>) /\ <<x>> # <<>>
  <2>. TAKE x
  <2>1. <<x>> \in Seq({x}) OBVIOUS
  <2>2. <<x>> # <<>> OBVIOUS
  <2>. QED BY <2>1, <2>2 DEF IsSeq
<1>4. CASE options.devices = "all"
  <2>1. chosen = AllDevices(list) BY <1>4 DEF ResolveGpuDevices
  <2>2. IsSeq(AllDevices(list)) BY AllDevicesFull DEF IsSeq
  <2>3. AllDevices(list) # <<>>
    <3>1. CASE list = <<>> BY <1>3, <3>1 DEF AllDevices
    <3>2. CASE list # <<>>
      <4>1. Len(AllDevices(list)) = Len(list) BY <3>2 DEF AllDevices, Positions
      <4>2. Len(list) # 0 BY <3>2
      <4>. QED BY <4>1, <4>2
    <3>. QED BY <3>1, <3>2
  <2>. QED BY <2>1, <2>2, <2>3
<1>5. CASE options.devices = "list"
  <2>1. chosen = options.list BY <1>5 DEF ResolveGpuDevices
  <2>. QED BY <1>2, <1>5, <2>1 DEF IsSeq
<1>6. CASE options.devices = "none"
  <2>1. chosen \in {<<options.forced>>, <<PickBest(list) - 1>>, <<0>>}
    BY <1>6 DEF ResolveGpuDevices
  <2>. QED BY <1>3, <2>1
<1>. QED BY <1>2, <1>4, <1>5, <1>6

LEMMA DeviceStep ==
  ASSUME MachineInv, DeviceTypes, [Next]_vars PROVE DeviceTypes'
<1>0. Len(wanted) \in Nat /\ Len(devices) \in Nat /\ Len(backends) \in Nat
  BY LenProperties DEF DeviceTypes, IsSeq
<1>1. CASE Choose
  <2>1. /\ pc = "choose" /\ gpus' = StaticGpus(machine)
        /\ wanted' = ResolveGpuDevices(config, gpus') /\ devices' = wanted'
        /\ pc' \in {"probe", "make"} /\ config' = config /\ backends' = backends
    BY <1>1 DEF Choose
  <2>2. IsSeq(wanted') /\ wanted' # <<>>
    BY <2>1, StaticGpusLen, ResolvedList DEF MachineInv, DeviceTypes
  <2>3. backends = <<>> BY <2>1 DEF DeviceTypes
  <2>4. Len(wanted') \in Nat /\ Len(backends) = 0
    BY <2>2, <2>3, LenProperties DEF IsSeq
  <2>5. IsSeq(wanted)' /\ IsSeq(devices)' /\ IsSeq(backends)'
    BY <2>1, <2>2 DEF DeviceTypes, IsSeq
  <2>. QED BY <2>1, <2>2, <2>3, <2>4, <2>5 DEF DeviceTypes
<1>2. CASE SkipDead
  <2>1. /\ pc = "probe" /\ pc' = "make" /\ devices' = KeepAlive(machine, wanted)
        /\ UNCHANGED <<config, wanted, backends>>
    BY <1>2 DEF SkipDead
  <2>. PICK alive : alive = Alive(machine, wanted) OBVIOUS
  <2>. PICK left : left = Kept(wanted, alive) OBVIOUS
  <2>2. IsSeq(wanted) /\ wanted # <<>> /\ backends = <<>> BY <2>1 DEF DeviceTypes
  <2>3. IsSeq(left) /\ Len(left) <= Len(wanted)
    BY <2>2, KeptProperties DEF IsSeq, KeptPart
  <2>4. devices' = IF left = <<>> THEN wanted ELSE left BY <2>1 DEF KeepAlive
  <2>5. IsSeq(devices') /\ devices' # <<>> /\ Len(devices') <= Len(wanted)
    BY <1>0, <2>2, <2>3, <2>4
  <2>6. Len(devices') \in Nat /\ Len(backends) = 0
    BY <2>2, <2>5, LenProperties DEF IsSeq
  <2>7. IsSeq(wanted)' /\ IsSeq(devices)' /\ IsSeq(backends)'
    BY <2>1, <2>5 DEF DeviceTypes, IsSeq
  <2>. QED BY <2>1, <2>5, <2>6, <2>7 DEF DeviceTypes
<1>3. CASE MakeDaemon
  <2>1. /\ pc = "make" /\ Len(backends) < Len(devices)
        /\ UNCHANGED <<pc, config, wanted, devices>>
        /\ backends' = Append(backends,
             IF Works(machine, devices[Len(backends) + 1]) THEN "hip" ELSE "cpu")
    BY <1>3 DEF MakeDaemon
  <2>2. PICK S, backend : backends \in Seq(S) /\ backends' = Append(backends, backend)
    BY <2>1 DEF DeviceTypes, IsSeq
  <2>3. backends \in Seq(S \cup {backend}) BY <2>2, SeqMonotonic
  <2>4. backends' \in Seq(S \cup {backend}) /\ Len(backends') = Len(backends) + 1
    BY <2>2, <2>3, AppendProperties
  <2>5. IsSeq(wanted)' /\ IsSeq(devices)' /\ IsSeq(backends)'
    BY <2>1, <2>4 DEF DeviceTypes, IsSeq
  <2>. QED BY <1>0, <2>1, <2>4, <2>5 DEF DeviceTypes
<1>4. CASE Detect
  <2>1. /\ pc = "detect" /\ pc' = "choose" /\ config' \in Configs
        /\ UNCHANGED <<wanted, devices, backends>>
    BY <1>4 DEF Detect
  <2>. QED BY <2>1 DEF DeviceTypes, IsSeq
<1>5. CASE Kill
  <2>1. pc' = "off" /\ config' = NoConfig /\ wanted' = <<>> /\ devices' = <<>>
        /\ backends' = <<>>
    BY <1>5 DEF Kill
  <2>2. Len(<<>>) = 0 /\ <<>> \in Seq({}) OBVIOUS
  <2>. QED BY <2>1, <2>2 DEF DeviceTypes, IsSeq
<1>6. CASE \/ Launch \/ Measure \/ KeepSize \/ TakeBest \/ Save \/ SaveFails \/ NoPayout \/ Probe
           \/ DaemonsMade \/ Connect \/ Report \/ ToolFails \/ UNCHANGED vars
           \/ \E device \in 0..Len(machine.cards) - 1 : Break(device)
  <2>1. UNCHANGED <<config, wanted, devices, backends>>
    BY <1>6 DEF Launch, Measure, KeepSize, TakeBest, Save, SaveFails, NoPayout, Probe,
                DaemonsMade, Connect, Report, ToolFails, Break, vars, deviceVars
  <2>2. \/ pc' = pc
        \/ pc \in {"make", "connect", "mine"} /\ pc' \in {"make", "connect", "mine"}
        \/ /\ pc \notin {"make", "connect", "mine"}
           /\ pc' \notin {"choose", "probe", "make", "connect", "mine"}
    BY <1>6 DEF Launch, Measure, KeepSize, TakeBest, Save, SaveFails, Afterwards, NoPayout,
                Probe, DaemonsMade, Connect, Report, ToolFails, Break, vars
  <2>. QED BY <2>1, <2>2 DEF DeviceTypes, IsSeq
<1>. QED BY <1>1, <1>2, <1>3, <1>4, <1>5, <1>6 DEF Next, Run

LEMMA StartInit == Init => StartInv
<1>. SUFFICES ASSUME Init PROVE StartInv OBVIOUS
<1>1. MachineInv BY EmptySeq DEF Init, MachineInv, NoMachine, Machine
<1>2. SearchTypes
  <2>1. PICK size \in {0, DefaultSize} \cup {Sizes[i] : i \in Positions(Sizes)} :
          file = [payout |-> TRUE, size |-> size, tuned |-> FALSE]
    BY DEF Init
  <2>2. size \in Nat BY SizesAre, StartAssumption DEF Positions, OfferedSizes
  <2>3. file \in Configuration BY <2>1, <2>2 DEF Configuration
  <2>4. <<>> \in Seq(Result) /\ Len(<<>>) = 0 BY EmptySeq
  <2>. QED BY <2>3, <2>4, SizesAre, EmptyIsConfiguration DEF Init, SearchTypes
<1>3. DeviceTypes
  <2>1. Len(<<>>) = 0 /\ <<>> \in Seq({}) OBVIOUS
  <2>. QED BY <2>1 DEF Init, DeviceTypes, IsSeq
<1>. QED BY <1>1, <1>2, <1>3 DEF Init, StartInv, PCs, Modes

LEMMA StartStep == ASSUME StartInv, [Next]_vars PROVE StartInv'
<1>1. pc' \in PCs /\ mode' \in Modes
  BY DEF StartInv, PCs, Modes, Next, Run, Launch, Measure, KeepSize, TakeBest, Save,
         SaveFails, Afterwards, NoPayout, Detect, Choose, Probe, SkipDead, MakeDaemon,
         DaemonsMade, Connect, Report, ToolFails, Break, Kill, vars
<1>2. MachineInv' BY MachineStep DEF StartInv
<1>3. SearchTypes' BY SearchStep DEF StartInv
<1>4. DeviceTypes' BY DeviceStep DEF StartInv
<1>. QED BY <1>1, <1>2, <1>3, <1>4 DEF StartInv

\* Every variable keeps its type: the configuration can be read back, the best size
\* of a search is one that was measured, and the loop is reached with a device.
THEOREM StartTypeCorrect == Spec => []TypeOK
<1>1. StartInv => TypeOK
  BY DEF StartInv, SearchTypes, DeviceTypes, MachineInv, TypeOK
<1>. QED BY <1>1, StartInit, StartStep, PTL DEF Spec

-----------------------------------------------------------------------------
(* The configuration file and the configuration in memory. *)

\* A record of the three fields.
IsConfiguration(c) == c = [payout |-> c.payout, size |-> c.size, tuned |-> c.tuned]

\* A search works on what the file holds.  It has been asked for, or there was no
\* tuned size to be found in the file.
Searched ==
  /\ pc = "search" => /\ cfg = file
                      /\ mode # "untuned"
                      /\ mode = "mine" => ~AlreadyTuned(file)
  /\ pc = "save" => /\ file = EmptyFile
                    /\ mode # "untuned"
                    /\ mode = "mine" => AlreadyTuned(cfg)

\* What goes on to mine has the address of the file, and its size if that is tuned; or
\* its write has failed and it has a tuned size of its own.
AsSaved ==
  /\ cfg.payout => file.payout
  /\ AlreadyTuned(file) => cfg.size = file.size

Prepared ==
  pc \in {"detect", "choose", "probe", "make", "connect", "mine"} => Torn \/ AsSaved

HasPayout ==
  pc \in {"choose", "probe", "make", "connect", "mine"} => cfg.payout

ConfigInv ==
  /\ IsConfiguration(file)
  /\ IsConfiguration(cfg)
  /\ mode \in Modes
  /\ Searched
  /\ Prepared
  /\ HasPayout

LEMMA ConfigInit == Init => ConfigInv
<1>. SUFFICES ASSUME Init PROVE ConfigInv OBVIOUS
<1>1. IsConfiguration(file) BY DEF Init, IsConfiguration
<1>2. IsConfiguration(cfg) BY DEF Init, IsConfiguration, EmptyFile
<1>. QED BY <1>1, <1>2 DEF Init, ConfigInv, Searched, Prepared, HasPayout, Modes

\* Neither configuration changes, and the loop does not come closer than detect.
LEMMA OtherSteps ==
  ASSUME ConfigInv, UNCHANGED <<file, cfg>>, mode' \in Modes,
         \/ pc' = pc /\ mode' = mode
         \/ /\ pc \in {"detect", "choose", "probe", "make", "connect"}
            /\ pc' \in {"choose", "probe", "make", "connect", "mine", "exit"}
            /\ pc = "detect" /\ pc' # "exit" => cfg.payout
  PROVE  ConfigInv'
<1>1. AlreadyTuned(cfg)' = AlreadyTuned(cfg) BY DEF AlreadyTuned, Offered
<1>2. AlreadyTuned(file)' = AlreadyTuned(file) BY DEF AlreadyTuned, Offered
<1>3. IsConfiguration(file)' /\ IsConfiguration(cfg)' BY DEF ConfigInv, IsConfiguration
<1>4. Searched' BY <1>1, <1>2, Zenon DEF ConfigInv, Searched
<1>5. Prepared'
  <2>1. Torn' = Torn /\ AsSaved' = AsSaved BY <1>2 DEF Torn, Offered, AsSaved
  <2>. QED BY <2>1, Zenon DEF ConfigInv, Prepared
<1>6. HasPayout' BY Zenon DEF ConfigInv, HasPayout
<1>. QED BY <1>3, <1>4, <1>5, <1>6 DEF ConfigInv

LEMMA LaunchStep == ASSUME ConfigInv, Launch PROVE ConfigInv'
<1>1. /\ mode' \in Modes /\ file' = file /\ cfg' = file
      /\ \/ pc' = "detect"
         \/ pc' = "search" /\ mode' # "untuned"
            /\ (mode' = "mine" => ~AlreadyTuned(file))
  BY DEF Launch
<1>2. AlreadyTuned(file)' = AlreadyTuned(file) BY <1>1 DEF AlreadyTuned, Offered
<1>3. IsConfiguration(file)' /\ IsConfiguration(cfg)'
  BY <1>1 DEF ConfigInv, IsConfiguration
<1>4. Searched'
  <2>1. CASE pc' = "detect" BY <2>1 DEF Searched
  <2>2. CASE pc' # "detect" BY <1>1, <1>2, <2>2 DEF Searched
  <2>. QED BY <2>1, <2>2
<1>5. Prepared' BY <1>1 DEF Prepared, AsSaved
<1>6. HasPayout' BY <1>1 DEF HasPayout
<1>. QED BY <1>1, <1>3, <1>4, <1>5, <1>6 DEF ConfigInv

\* A size that is searched for either replaces one that was not tuned, or the
\* program exits afterwards.
LEMMA SearchEnds ==
  ASSUME ConfigInv, SearchTypes, KeepSize \/ TakeBest PROVE ConfigInv'
<1>1. pc = "search" /\ cfg = file /\ mode \in Modes /\ mode # "untuned" /\ mode' = mode
  BY DEF ConfigInv, Searched, KeepSize, TakeBest
<1>2. \/ mode = "mine" /\ ~AlreadyTuned(file) /\ Afterwards = "detect"
      \/ Afterwards = "exit"
  BY <1>1 DEF ConfigInv, Searched, Modes, Afterwards
<1>3. PICK size, tuned : cfg' = [file EXCEPT !.size = size, !.tuned = tuned]
  <2>1. CASE KeepSize
    <3>1. cfg' = [cfg EXCEPT !.size = Configured] BY <2>1 DEF KeepSize
    <3>2. cfg' = [file EXCEPT !.size = Configured, !.tuned = file.tuned]
      BY <1>1, <3>1 DEF ConfigInv, IsConfiguration
    <3>. QED BY <3>2
  <2>2. CASE TakeBest
    <3>. DEFINE tuned == mode # "benchmark" \/ file.tuned
    <3>1. cfg' = [file EXCEPT !.size = Best.size, !.tuned = tuned]
      BY <2>2 DEF TakeBest
    <3>. QED BY <3>1
  <2>. QED BY <2>1, <2>2
<1>4. IsConfiguration(cfg)' /\ cfg'.payout = file.payout
  BY <1>3 DEF ConfigInv, IsConfiguration
<1>5. \/ file' = EmptyFile /\ pc' = "save"
      \/ file' = file /\ pc' = Afterwards
  BY DEF KeepSize, TakeBest
<1>6. IsConfiguration(file)' BY <1>5 DEF ConfigInv, IsConfiguration, EmptyFile
<1>7. CASE pc' = "save"
  <2>1. TakeBest BY <1>7 DEF KeepSize, Afterwards
  <2>2. file' = EmptyFile BY <2>1, <1>7 DEF TakeBest, Afterwards
  <2>3. ASSUME mode = "mine" PROVE AlreadyTuned(cfg)'
    <3>1. cfg' = [file EXCEPT !.size = Best.size, !.tuned = TRUE]
      BY <2>1, <2>3 DEF TakeBest
    <3>2. cfg'.tuned /\ cfg'.size = Best.size
      BY <3>1 DEF ConfigInv, IsConfiguration
    <3>3. Best.size \in OfferedSizes BY <2>1, BestSize DEF TakeBest, Keep, SearchTypes
    <3>4. Offered(cfg.size)' BY <3>2, <3>3 DEF Offered, Positions, OfferedSizes
    <3>. QED BY <3>2, <3>4 DEF AlreadyTuned
  <2>4. Searched' BY <1>1, <1>7, <2>2, <2>3 DEF Searched
  <2>. QED BY <1>1, <1>4, <1>6, <1>7, <2>4 DEF ConfigInv, Prepared, HasPayout
<1>8. CASE file' = file /\ pc' = "exit"
  BY <1>1, <1>4, <1>6, <1>8 DEF ConfigInv, Searched, Prepared, HasPayout
<1>9. CASE file' = file /\ pc' = "detect" /\ ~AlreadyTuned(file)
  <2>1. ~AlreadyTuned(file)' BY <1>9 DEF AlreadyTuned, Offered
  <2>2. Prepared' BY <1>4, <1>9, <2>1 DEF Prepared, AsSaved
  <2>. QED BY <1>1, <1>4, <1>6, <1>9, <2>2 DEF ConfigInv, Searched, HasPayout
<1>. QED BY <1>2, <1>5, <1>7, <1>8, <1>9

LEMMA SaveStep == ASSUME ConfigInv, Save PROVE ConfigInv'
<1>1. /\ pc = "save" /\ file' = cfg /\ cfg' = cfg /\ mode' = mode
      /\ pc' \in {"exit", "detect"}
  BY DEF Save, Afterwards
<1>2. IsConfiguration(file)' /\ IsConfiguration(cfg)'
  BY <1>1 DEF ConfigInv, IsConfiguration
<1>3. Searched' /\ Prepared' /\ HasPayout'
  BY <1>1 DEF Searched, Prepared, AsSaved, HasPayout
<1>. QED BY <1>1, <1>2, <1>3 DEF ConfigInv

\* A start that tunes for itself goes on with what it has found.
LEMMA SaveFailsStep == ASSUME ConfigInv, SaveFails PROVE ConfigInv'
<1>1. /\ pc = "save" /\ UNCHANGED <<file, cfg, mode>>
      /\ pc' \in {"exit", "detect"}
      /\ pc' = "detect" => mode = "mine" \/ mode = "untuned"
  BY DEF SaveFails, Afterwards, ConfigInv, Modes
<1>2. IsConfiguration(file)' /\ IsConfiguration(cfg)'
  BY <1>1 DEF ConfigInv, IsConfiguration
<1>3. ASSUME pc' = "detect" PROVE Torn'
  <2>1. file = EmptyFile /\ AlreadyTuned(cfg) BY <1>1, <1>3 DEF ConfigInv, Searched
  <2>. QED BY <1>1, <2>1 DEF Torn, AlreadyTuned, Offered
<1>4. Searched' /\ Prepared' /\ HasPayout'
  BY <1>1, <1>3 DEF Searched, Prepared, HasPayout
<1>. QED BY <1>1, <1>2, <1>4 DEF ConfigInv

LEMMA ConfigStep ==
  ASSUME ConfigInv, SearchTypes, [Next]_vars PROVE ConfigInv'
<1>1. CASE Launch BY <1>1, LaunchStep
<1>2. CASE KeepSize \/ TakeBest BY <1>2, SearchEnds
<1>3. CASE Save \/ SaveFails BY <1>3, SaveStep, SaveFailsStep
<1>4. CASE Kill
  <2>1. /\ pc' = "off" /\ cfg' = EmptyFile /\ file' = file /\ mode' = "mine"
    BY <1>4 DEF Kill
  <2>2. IsConfiguration(file)' /\ IsConfiguration(cfg)'
    BY <2>1 DEF ConfigInv, IsConfiguration, EmptyFile
  <2>. QED BY <2>1, <2>2 DEF ConfigInv, Searched, Prepared, HasPayout, Modes
<1>5. CASE Measure \/ Probe \/ MakeDaemon \/ Report \/ ToolFails
           \/ \E device \in 0..Len(machine.cards) - 1 : Break(device)
  <2>1. UNCHANGED <<file, cfg, pc, mode>>
    BY <1>5 DEF Measure, Probe, MakeDaemon, Report, ToolFails, Break
  <2>2. mode' \in Modes BY <2>1 DEF ConfigInv
  <2>. QED BY <2>1, <2>2, OtherSteps
<1>6. CASE NoPayout \/ Detect \/ Choose \/ SkipDead \/ DaemonsMade \/ Connect
  <2>1. UNCHANGED <<file, cfg>> /\ mode' \in {mode, "mine"}
    BY <1>6 DEF NoPayout, Detect, Choose, SkipDead, DaemonsMade, Connect
  <2>2. mode' \in Modes BY <2>1 DEF ConfigInv, Modes
  <2>3. /\ pc \in {"detect", "choose", "probe", "make", "connect"}
        /\ pc' \in {"choose", "probe", "make", "connect", "mine", "exit"}
        /\ pc = "detect" /\ pc' # "exit" => cfg.payout
    BY <1>6 DEF NoPayout, Detect, Choose, SkipDead, DaemonsMade, Connect
  <2>. QED BY <2>1, <2>2, <2>3, OtherSteps
<1>7. CASE UNCHANGED vars
  <2>1. UNCHANGED <<file, cfg, pc, mode>> BY <1>7 DEF vars
  <2>2. mode' \in Modes BY <2>1 DEF ConfigInv
  <2>. QED BY <2>1, <2>2, OtherSteps
<1>. QED BY <1>1, <1>2, <1>3, <1>4, <1>5, <1>6, <1>7 DEF Next, Run

LEMMA ConfigSaved == ConfigInv => SavedIsUsed
<1>. SUFFICES ASSUME ConfigInv, pc = "mine"
              PROVE  /\ cfg.payout
                     /\ \/ Torn
                        \/ file.payout /\ (AlreadyTuned(file) => cfg.size = file.size)
  BY DEF SavedIsUsed, AlreadyTuned
<1>. QED BY DEF ConfigInv, Prepared, AsSaved, HasPayout

\* Whatever searches, benchmarks, kills and failed writes came before, a start mines to
\* an address, and with the tuned size of its file; unless its own write has failed
\* after it emptied the file, when the size is the tuned one in memory.
THEOREM SavedCorrect == Spec => []SavedIsUsed
<1>1. Init => SearchTypes BY StartInit DEF StartInv
<1>. QED BY <1>1, ConfigInit, ConfigStep, SearchStep, ConfigSaved, PTL DEF Spec

-----------------------------------------------------------------------------
(* The choice of one device among several. *)

\* Among the first n cards the i-th is better than any other.
BestOf(list, n, i) == \A j \in 1..n \ {i} : Better(list, i, j)

LEMMA SomeBest ==
  ASSUME NEW n \in Nat, n # 0, NEW list,
         \A i \in 1..n : list[i].gfx9 \in BOOLEAN /\ list[i].vram \in Nat
  PROVE  \E i \in 1..n : BestOf(list, n, i)
<1>. DEFINE Holds == {k \in Nat : k # 0 /\ k <= n => \E i \in 1..k : BestOf(list, k, i)}
<1>1. 0 \in Holds OBVIOUS
<1>2. ASSUME NEW k \in Nat, k < n, k \in Holds PROVE k + 1 \in Holds
  <2>1. CASE k = 0
    <3>1. BestOf(list, 1, 1) /\ 1 \in 1..1 BY DEF BestOf
    <3>. QED BY <2>1, <3>1
  <2>2. CASE k # 0
    <3>1. PICK i \in 1..k : BestOf(list, k, i) BY <1>2, <2>2
    <3>2. /\ \A j \in 1..k + 1 : list[j].gfx9 \in BOOLEAN /\ list[j].vram \in Nat
          /\ i \in 1..k + 1 /\ k + 1 \in 1..k + 1 /\ i # k + 1
      BY <1>2
    <3>3. Better(list, i, k + 1) \/ Better(list, k + 1, i) BY <3>2 DEF Better
    <3>4. CASE Better(list, i, k + 1)
      <4>1. BestOf(list, k + 1, i) BY <3>1, <3>4 DEF BestOf
      <4>. QED BY <3>2, <4>1
    <3>5. CASE Better(list, k + 1, i)
      <4>1. \A j \in 1..k + 1 : Better(list, i, j) => Better(list, k + 1, j)
        BY <3>2, <3>5 DEF Better
      <4>2. ASSUME NEW j \in 1..k + 1, j # k + 1 PROVE Better(list, k + 1, j)
        <5>1. CASE j = i BY <3>5, <5>1
        <5>2. CASE j # i
          <6>1. j \in 1..k \ {i} BY <4>2, <5>2
          <6>. QED BY <3>1, <4>1, <6>1 DEF BestOf
        <5>. QED BY <5>1, <5>2
      <4>3. BestOf(list, k + 1, k + 1) BY <4>2 DEF BestOf
      <4>. QED BY <3>2, <4>3
    <3>. QED BY <3>3, <3>4, <3>5
  <2>. QED BY <2>1, <2>2
<1>. HIDE DEF Holds
<1>3. n \in Holds BY <1>1, <1>2, Induction
<1>. QED BY <1>3 DEF Holds

\* With no option, several cards and rocm-smi or rocminfo to list them, the miner takes
\* one of the cards listed; it is no gfx9 one if any is not, and none of its kind has
\* more memory (pick_best_gpu_index).
THEOREM PickCorrect ==
  ASSUME NEW n \in Nat, n # 0, NEW list, Len(list) = n,
         \A i \in 1..n : list[i].gfx9 \in BOOLEAN /\ list[i].vram \in Nat
  PROVE  /\ PickBest(list) \in 1..n
         /\ \A j \in 1..n : list[PickBest(list)].gfx9 => list[j].gfx9
         /\ \A j \in 1..n : list[j].gfx9 = list[PickBest(list)].gfx9 =>
                              list[j].vram <= list[PickBest(list)].vram
<1>. PICK best : best = PickBest(list) OBVIOUS
<1>1. best = CHOOSE i \in 1..n : BestOf(list, n, i)
  BY DEF PickBest, BestOf, Positions
<1>2. best \in 1..n /\ BestOf(list, n, best) BY <1>1, SomeBest
<1>3. \A j \in 1..n : j = best \/ Better(list, best, j) BY <1>2 DEF BestOf
<1>4. \A j \in 1..n : list[best].gfx9 => list[j].gfx9 BY <1>3 DEF Better
<1>5. \A j \in 1..n : list[j].gfx9 = list[best].gfx9 => list[j].vram <= list[best].vram
  BY <1>2, <1>3 DEF Better
<1>. QED BY <1>2, <1>4, <1>5
=============================================================================

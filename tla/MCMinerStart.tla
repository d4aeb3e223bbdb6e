---------------------------- MODULE MCMinerStart ----------------------------
(* Values for TLC: machines of one and of two cards. *)
EXTENDS MinerStart

States == {"works", "dead", "hangs"}

Plain(state) ==
  [domain0 |-> TRUE, gfx9 |-> FALSE, vram |-> 1, hasId |-> TRUE, state |-> state]

MCCards ==
  {[Plain(state) EXCEPT !.hasId = hasId] : hasId \in BOOLEAN, state \in States}
    \cup {[Plain("works") EXCEPT !.gfx9 = TRUE, !.vram = 2],
          [Plain("works") EXCEPT !.domain0 = FALSE, !.hasId = FALSE]}

\* rocm-smi alone may fail later.
MCTools == {[smi |-> TRUE, rocminfo |-> TRUE], [smi |-> FALSE, rocminfo |-> FALSE]}

WithTools(cards, tools) ==
  [cards |-> cards, smi |-> tools.smi, rocminfo |-> tools.rocminfo]

TwoCards ==
  {WithTools(cards, tools) :
     cards \in {<<c>> : c \in MCCards} \cup {<<c, d>> : c, d \in MCCards},
     tools \in MCTools}

Auto == NoConfig
All  == [NoConfig EXCEPT !.devices = "all"]
Only(device) == [NoConfig EXCEPT !.forced = device]
These(list) == [NoConfig EXCEPT !.devices = "list", !.list = list]

MCConfigs == {Auto, All, Only(1), These(<<1>>)}
MCSizes == <<2, 4, 8>>
=============================================================================

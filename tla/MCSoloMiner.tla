---------------------------- MODULE MCSoloMiner ----------------------------
(***************************************************************************)
(* Values for the TLC runs of SoloMiner.                                   *)
(***************************************************************************)
EXTENDS SoloMiner

Legacy == [marker |-> FALSE, body |-> <<"tx 1">>, rest |-> <<"locktime">>]
Segwit == [marker |-> TRUE, body |-> <<"tx 2">>, rest |-> <<"witness", "more", "locktime">>]

\* A block with the coinbase alone, whose fee rounds to nothing; an even and an
\* odd number of transactions, with the commitment, whose fees are rounded.
MCBodies ==
  { [txs |-> <<>>, value |-> 49, segwit |-> FALSE],
    [txs |-> <<Legacy>>, value |-> 1049, segwit |-> TRUE],
    [txs |-> <<Legacy, Segwit>>, value |-> 1050, segwit |-> TRUE] }

MCOffers == {{}, {"challenge"}, {"template"}}
=============================================================================

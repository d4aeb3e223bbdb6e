--------------------------- MODULE BlockBuilder ---------------------------
(***************************************************************************)
(* block_builder.py: the seeds of a header, the coinbase with its fee      *)
(* split and its witness commitment, transaction ids, the merkle root of a *)
(* template and the block put together for a nonce.  Pure operators.       *)
(*                                                                         *)
(* sha256d is a constructor: equal hashes are hashes of equal things.  A   *)
(* serialised transaction is cut where the code looks: whether bytes 4 and *)
(* 5 are the segwit marker, the body up to the last output, and the pieces *)
(* behind it.  Header fields the node and the code copy are left out.      *)
(***************************************************************************)
EXTENDS Integers, Sequences

CONSTANTS
  V2Height,   \* from this height on seeds are made of the nonce, 125000
  V3Height,   \* and from this one of parent_mtp too, 130500
  NoMtp       \* parent_mtp is None

ASSUME HeightAssumption ==
  /\ {V2Height, V3Height} \subseteq Nat
  /\ V2Height <= V3Height

\* What getblocktemplate says about the block's contents: the transactions,
\* serialised; coinbasevalue; whether it has a default_witness_commitment.
RawTx == [marker : BOOLEAN, body : Seq(STRING), rest : Seq(STRING)]
Contents == [txs : Seq(RawTx), value : Nat, segwit : BOOLEAN]

sha256d(x) == <<"sha256d", x>>
Zeros == <<"32 zero bytes">>

-----------------------------------------------------------------------------
(* Seeds, the first for which = 0, the second for which = 1. *)

derive_v2_seed(job, nonce, which) ==
  <<"sha256", "BTX_MATMUL_SEED_V2", job.prev, job.height, job.merkle, nonce, which>>

derive_v3_seed(job, nonce, which) ==
  <<"sha256", "BTX_MATMUL_SEED_V3", job.prev, job.mtp, job.height, job.merkle, nonce,
    which>>

\* assemble_block_hex raises ValueError without parent_mtp past the fork.
SeedsResolve(job) == job.height >= V3Height => job.mtp # NoMtp

resolve_header_seeds(job, nonce) ==
  CASE job.height >= V3Height -> [i \in 1..2 |-> derive_v3_seed(job, nonce, i - 1)]
    [] job.height \in V2Height..V3Height - 1 ->
         [i \in 1..2 |-> derive_v2_seed(job, nonce, i - 1)]
    [] OTHER -> job.seeds

-----------------------------------------------------------------------------
(* Merkle root. *)

\* node[k, i] is the i-th hash of layer k above the given ones.  A layer has
\* half the hashes of the one below, and the last hash of an odd layer is paired
\* with itself.
MerkleRoot(hashes) ==
  LET width[k \in Nat] == IF k = 0 THEN Len(hashes) ELSE (width[k - 1] + 1) \div 2
      node[k \in Nat, i \in Nat] ==
        IF k = 0 THEN hashes[i]
        ELSE sha256d(<<node[k - 1, 2 * i - 1],
                       node[k - 1, IF 2 * i <= width[k - 1] THEN 2 * i ELSE 2 * i - 1]>>)
      top == CHOOSE k \in 0..Len(hashes) :
               width[k] = 1 /\ \A j \in 0..(k - 1) : width[j] > 1
  IN IF hashes = <<>> THEN Zeros ELSE node[top, 1]

-----------------------------------------------------------------------------
(* Transaction ids. *)

\* The marker is cut out, and the id is of the body and the four bytes behind
\* it: in a segwit transaction those are the witness's, not the locktime.
txid(raw) ==
  IF raw.marker THEN sha256d(<<raw.body, SubSeq(raw.rest, 1, 1)>>)
  ELSE sha256d(<<raw.body, raw.rest>>)

wtxid(raw) == sha256d(<<raw.marker, raw.body, raw.rest>>)

-----------------------------------------------------------------------------
(* The coinbase. *)

\* Mutant: both parts are rounded down.
SplitBothRounded(value, bps) ==
  [user |-> (value * (10000 - bps)) \div 10000,
   dev |-> (value * bps) \div 10000]

\* Who gets what of the coinbase value, bps basis points for the developer.
SplitCoinbaseValue(value, bps) ==
  LET rate == IF bps > 10000 THEN 10000 ELSE bps
      dev == (value * rate) \div 10000
  IN IF bps <= 0 \/ value <= 0 \/ dev <= 0 THEN [user |-> value, dev |-> 0]
     ELSE IF dev >= value THEN [user |-> 0, dev |-> value]
     ELSE [user |-> value - dev, dev |-> dev]

\* The outputs: to the user, to the developer unless that is nothing, and the
\* commitment of the node, for a block without dev fee.
Outputs(contents, bps) ==
  LET split == SplitCoinbaseValue(contents.value, bps)
  IN <<[value |-> split.user, script |-> <<"user">>]>>
       \o (IF split.dev > 0 THEN <<[value |-> split.dev, script |-> <<"dev">>]>> ELSE <<>>)
       \o (IF contents.segwit
           THEN <<[value |-> 0, script |-> <<"commitment", <<"of the node">>>>]>> ELSE <<>>)

\* The commitment, if there is one, is replaced by one to these transactions,
\* with zeros as the coinbase's own wtxid.
RegenerateWitnessCommitment(outputs, txs) ==
  LET spans == { i \in DOMAIN outputs : outputs[i].script[1] = "commitment" }
      root == MerkleRoot(<<Zeros>> \o [i \in DOMAIN txs |-> wtxid(txs[i])])
  IN IF spans = {} THEN outputs
     ELSE [outputs EXCEPT ![CHOOSE i \in spans : TRUE].script =
                            <<"commitment", sha256d(<<root, Zeros>>)>>]

\* _serialize_segwit_tx writes the marker behind the outputs, so the coinbase
\* is never taken for a segwit transaction.
CoinbaseTx(height, contents, bps) ==
  [ marker |-> FALSE,
    body   |-> <<"coinbase", height,
                 RegenerateWitnessCommitment(Outputs(contents, bps), contents.txs)>>,
    rest   |-> IF contents.segwit THEN <<"marker", "witness", "locktime">>
               ELSE <<"locktime">> ]

-----------------------------------------------------------------------------
(* The block. *)

BlockTxs(height, contents, bps) == <<CoinbaseTx(height, contents, bps)>> \o contents.txs

\* compute_template_merkle_root
TemplateMerkleRoot(height, contents, bps) ==
  LET txs == BlockTxs(height, contents, bps)
  IN MerkleRoot([i \in DOMAIN txs |-> txid(txs[i])])

\* assemble_block_hex raises ValueError, "merkle mismatch", if this is false.
Assembles(height, contents, bps, merkle) ==
  TemplateMerkleRoot(height, contents, bps) = merkle
=============================================================================

---------------------------- MODULE MCPoolMiner ----------------------------
(***************************************************************************)
(* Values for the TLC runs of PoolMiner.  Height 1 is the first height of  *)
(* a behaviour; heights stand for heights past 130500, where parent_mtp is *)
(* required.                                                               *)
(***************************************************************************)
EXTENDS PoolMiner

\* LuckyPool updates as tests/test_pool_share_submission.py sends them: the
\* prefix alone left out (line 343), or parent_mtp with it (line 487).
SparseUpdates == { {"prefix"}, {"prefix", "parentMtp"} }

\* One lane of four nonces, the second one, so that nonce 0 is outside it.
LaneStarts == {4}
=============================================================================

-------------------------------- MODULE Jobs --------------------------------
(***************************************************************************)
(* The Job record of the pool client and the three ways the miner combines *)
(* two jobs: a Stratum rotation that keeps the nonce of an unread job, a   *)
(* sparse LuckyPool update that inherits what the pool left out, and the   *)
(* merge of a same-height update into the job being mined.                 *)
(*                                                                         *)
(* A job keeps the fields the control flow reads.  Everything that is      *)
(* hashed but never compared (merkle root, bits, seeds, version, target)   *)
(* is determined by the job id, and so is ntime: the solver echoes the     *)
(* time of the job it was given.                                           *)
(***************************************************************************)
EXTENDS Naturals

CONSTANTS
  LaneSize,     \* 2^nonceBits: the nonces of one LuckyPool lane
  NoJob         \* Python's None, where a Job may be missing

ASSUME LaneSizeAssumption == LaneSize \in Nat \ {0}

Job == [ id     : Nat,              \* job_id, numbered in order of creation
         height : Nat,              \* block_height
         prev   : Nat,              \* prev_hash, one number per parent block
         nonce  : Nat,              \* nonce64_start
         lane   : {0, LaneSize},    \* 2^luckypool_nonce_bits, 0 when unknown
         mtp    : BOOLEAN ]         \* parent_mtp is present

ASSUME NoJobAssumption == NoJob \notin Job

JobOrNone == Job \cup {NoJob}

\* The lane a nonce belongs to: nonce & lane_mask.
Lane(nonce) == nonce \div LaneSize

SameParent(a, b) == a.prev = b.prev /\ a.height = b.height

\* mining.notify replaces the unread job; a rotation under the same parent
\* keeps the nonce that job carried.
AfterNotify(unread, job) ==
  IF unread # NoJob /\ SameParent(unread, job)
  THEN [job EXCEPT !.nonce = unread.nonce]
  ELSE job

\* inherit_sparse_luckypool_fields, applied by the LuckyPool "job" handler
\* when the unread job has the height of the new one.
InheritSparse(job, other) ==
  [job EXCEPT !.mtp  = @ \/ other.mtp,
              !.lane = IF @ > 0 THEN @ ELSE other.lane]

AfterLuckyJob(unread, job) ==
  IF unread # NoJob /\ unread.height = job.height
  THEN InheritSparse(job, unread)
  ELSE job

\* Job.merge_from: everything but the nonce counter, and the lane width only
\* when the update carries one.
MergeFrom(job, other) ==
  [other EXCEPT !.nonce = job.nonce,
                !.lane  = IF @ > 0 THEN @ ELSE job.lane]

=============================================================================

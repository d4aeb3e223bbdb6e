----------------------------- MODULE PoolMiner -----------------------------
(***************************************************************************)
(* run_mining_loop in pool mode with one solver, on top of a pool          *)
(* connection: take a job, switch the payout identity when the dev-fee     *)
(* timer says so, scan a slice of nonces, submit what it finds, look at    *)
(* the jobs read meanwhile, advance the nonce.  Every read of the stream   *)
(* inside the loop is a step of its own, so the pool interleaves with all  *)
(* of them.                                                                *)
(***************************************************************************)
EXTENDS StratumClient

CONSTANTS
  ShareNonces,  \* the nonces whose digest meets the share target
  SliceLen,     \* nonces_per_slice
  MaxShares,    \* pool_max_shares_per_slice, 0 for no cap
  NonceCap,     \* bound: the last nonce the solver scans
  MaxSwitches   \* bound: payout switches the dev-fee timer asks for

ASSUME LoopAssumption ==
  /\ ShareNonces \subseteq Nat
  /\ SliceLen \in Nat \ {0}
  /\ MaxShares \in Nat /\ NonceCap \in Nat /\ MaxSwitches \in Nat

VARIABLES
  pc,           \* where the loop is
  currentJob,   \* current_job
  solveJob,     \* solve_job: the copy the slice works on
  cursor,       \* next nonce of the slice
  budget,       \* nonces the slice may still scan
  found,        \* nonces of the last solver result not yet submitted
  counted,      \* shares_in_slice
  keys,         \* _submitted_share_keys
  feeActive,    \* fee_active
  feeDue,       \* the fee timer has run out and no switch succeeded since
  switches,     \* how many of the MaxSwitches have come due
  callId        \* the id _call waits for

sliceVars == <<solveJob, cursor, budget, found, counted>>
feeVars   == <<feeActive, feeDue, switches, callId>>
loopVars  == <<pc, currentJob, sliceVars, keys, feeVars>>
vars      == <<connVars, loopVars>>

PCs == { "handshake",  \* StratumClient(...) is reading its first lines
         "top",        \* start of the while loop; get_job
         "call",       \* fee_check -> send_authorize -> _call
         "slice",      \* the drain that opens _solve_slice_continuous
         "solve",      \* its while condition
         "submit",     \* share_results loop; each share drains first
         "wait",       \* _submit_luckypool_share waits for an answer
         "check1",     \* first look at client._current_job
         "poll",       \* drain between the two looks
         "check2",     \* second look, then the nonce advance
         "offline" }   \* ConnectionError: sleep, build a new client

Key(job, nonce) == <<job.id, nonce>>       \* _share_submit_key

Goto(to) == pc' = to

\* The locals of _solve_slice_continuous go out of scope...
LeaveSlice == budget' = 0 /\ found' = {} /\ counted' = 0

\* ...and so do those of the loop body, at its end or by an exception.
LeaveBody == solveJob' = NoJob /\ cursor' = 0 /\ LeaveSlice

Init ==
  /\ ClientInit
  /\ pc = "handshake"
  /\ currentJob = NoJob /\ solveJob = NoJob
  /\ cursor = 0 /\ budget = 0 /\ found = {} /\ counted = 0
  /\ keys = {}
  /\ feeActive = FALSE /\ feeDue = FALSE /\ switches = 0 /\ callId = 0

-----------------------------------------------------------------------------
(* Reading the stream. *)

Capped == MaxShares > 0 /\ counted >= MaxShares

\* The share_results loop has a share left, and no cap stops it.
MoreShares == pc = "submit" /\ found # {} /\ ~Capped

WantsJob == pc = "top" /\ currentJob = NoJob /\ clientJob = NoJob

Draining == pc \in {"slice", "poll"} \/ MoreShares

\* BlockingIOError: the stream is up and holds nothing to read.
Drained == wire = <<>> /\ open

Reading == WantsJob \/ Draining \/ pc \in {"call", "wait"}

\* process_available_messages, the handshake reads and get_job's loop: route
\* a line and read on.
Read ==
  /\ Draining \/ WantsJob \/ pc = "handshake"
  /\ ReadLine
  /\ UNCHANGED <<upsets, loopVars>>

HandshakeDone ==
  /\ pc = "handshake" /\ Goto("top")
  /\ UNCHANGED <<connVars, currentJob, sliceVars, keys, feeVars>>

\* An exception no handler below run_mining_loop catches: log, sleep 5 s,
\* start the loop again with the same client, job and keys.
Abort ==
  /\ Goto("top") /\ LeaveBody
  /\ UNCHANGED <<currentJob, keys, feeVars>>

BadLine == Reading /\ ReadGarbage /\ Abort

LoseConnection ==
  /\ Reading /\ EndOfStream
  /\ Goto("offline") /\ LeaveBody
  /\ UNCHANGED <<connVars, currentJob, keys, feeVars>>

-----------------------------------------------------------------------------
(* Top of the loop. *)

\* get_job hands over the unread job and forgets it.
GetJob ==
  /\ pc = "top" /\ currentJob = NoJob /\ clientJob # NoJob
  /\ currentJob' = clientJob
  /\ clientJob' = NoJob
  /\ UNCHANGED <<poolVars, pending, lastId, accepted, rejected, worker,
                 ghostVars, pc, sliceVars, keys, feeVars>>

\* Mutant: last_fee_switch is set before send_authorize, not after.
FeeSwitchStampsFirst ==
  /\ pc = "top" /\ currentJob # NoJob
  /\ switches < MaxSwitches /\ switches' = switches + 1
  /\ feeDue' = FALSE
  /\ SendAuthorize(IF feeActive THEN "user" ELSE "dev")
  /\ callId' = lastId + 1
  /\ Goto("call")
  /\ UNCHANGED <<currentJob, sliceVars, keys, feeActive>>

\* fee_check decides to switch: the timer ran out, or an earlier attempt of
\* this switch failed and left last_fee_switch where it was.
FeeSwitch ==
  /\ pc = "top" /\ currentJob # NoJob
  /\ \/ feeDue /\ UNCHANGED switches
     \/ ~feeDue /\ switches < MaxSwitches /\ switches' = switches + 1
  /\ feeDue' = TRUE
  /\ SendAuthorize(IF feeActive THEN "user" ELSE "dev")
  /\ callId' = lastId + 1
  /\ \/ Goto("call")
     \/ ~open /\ Goto("offline")           \* sendall raises
  /\ UNCHANGED <<currentJob, sliceVars, keys, feeActive>>

\* Mutant: the call takes the first answer that comes.
FirstAnswer(line) == line.kind = "answer"

IsReply(line) == line.kind = "answer" /\ line.id = callId

\* A line that is not the reply is dispatched, and only then is the 30 s
\* deadline looked at: recv itself blocks.
CallRead ==
  /\ pc = "call"
  /\ wire # <<>> /\ ~IsReply(Head(wire))
  /\ ReadLine
  /\ \/ UNCHANGED <<upsets, loopVars>>
     \/ Upset /\ Abort

\* Only LuckyPool's login looks at the result; an error reply raises in both.
SwitchGranted(verdict) == verdict = "ok" \/ (verdict = "refused" /\ ~Lucky)

StartSlice ==
  /\ solveJob' = currentJob
  /\ cursor' = currentJob.nonce
  /\ budget' = SliceLen
  /\ found' = {} /\ counted' = 0
  /\ Goto("slice")

CallReply ==
  /\ pc = "call"
  /\ wire # <<>> /\ IsReply(Head(wire))
  /\ wire' = Tail(wire)
  /\ IF SwitchGranted(Head(wire).verdict)
     THEN /\ feeActive' = ~feeActive
          /\ feeDue' = FALSE
          /\ StartSlice
     ELSE /\ Goto("top")
          /\ UNCHANGED <<feeActive, feeDue, sliceVars>>
  /\ UNCHANGED <<announced, open, atPool, upsets, clientVars, ghostVars,
                 currentJob, keys, switches, callId>>

\* Mutant: a due switch does not come before the slice.
BeginSliceAnyway ==
  /\ pc = "top" /\ currentJob # NoJob
  /\ StartSlice
  /\ UNCHANGED <<connVars, currentJob, keys, feeVars>>

\* fee_check has nothing to do: straight to the slice.
BeginSlice ==
  /\ pc = "top" /\ currentJob # NoJob /\ ~feeDue
  /\ StartSlice
  /\ UNCHANGED <<connVars, currentJob, keys, feeVars>>

-----------------------------------------------------------------------------
(* _solve_slice_continuous. *)

SliceDrained ==
  /\ pc = "slice" /\ Drained
  /\ Goto("solve")
  /\ UNCHANGED <<connVars, currentJob, sliceVars, keys, feeVars>>

\* The solver scanned cursor..last and reports every share among them; with
\* none the slice ends, otherwise it goes on after last.
Scan(last) ==
  /\ pc = "solve" /\ budget > 0
  /\ cursor' = last + 1
  /\ LET shares == ShareNonces \cap cursor..last IN
       IF shares = {}
       THEN Goto("check1") /\ LeaveSlice
       ELSE /\ Goto("submit")
            /\ found' = shares
            /\ budget' = budget - (last - cursor + 1)
            /\ UNCHANGED counted
  /\ UNCHANGED <<connVars, currentJob, solveJob, keys, feeVars>>

\* Budget spent, deadline passed, or the solver failed without a result.
EndSlice ==
  /\ pc = "solve"
  /\ Goto("check1") /\ LeaveSlice
  /\ UNCHANGED <<connVars, currentJob, solveJob, cursor, keys, feeVars>>

EndShares ==
  /\ pc = "submit" /\ ~MoreShares
  /\ IF Capped
     THEN Goto("check1") /\ LeaveSlice
     ELSE Goto("solve") /\ UNCHANGED <<budget, found, counted>>
  /\ UNCHANGED <<connVars, currentJob, solveJob, cursor, keys, feeVars>>

ShareReady(nonce) == MoreShares /\ nonce \in found /\ Drained

\* Mutant: the session's keys are not consulted.
NeverDuplicate(nonce) == FALSE

Duplicate(nonce) == Key(solveJob, nonce) \in keys

\* LuckyPool compares the share with the lane of the slice's own start.
OutOfLane(nonce) ==
  /\ Lucky /\ solveJob.lane > 0
  /\ Lane(nonce) # Lane(solveJob.nonce)

\* Mutant: only the height is compared, not prev_hash.
StaleByHeight ==
  /\ Lucky /\ clientJob # NoJob
  /\ clientJob.height # solveJob.height

\* LuckyPool drops a share when an unread job has another parent.
Stale ==
  /\ Lucky /\ clientJob # NoJob
  /\ clientJob.id # solveJob.id
  /\ ~SameParent(clientJob, solveJob)

\* _submit_pool_share returns False before the key is remembered.
SkipShare(nonce) ==
  /\ ShareReady(nonce)
  /\ Duplicate(nonce) \/ OutOfLane(nonce)
  /\ found' = found \ {nonce}
  /\ UNCHANGED <<connVars, pc, currentJob, solveJob, cursor, budget, counted,
                 keys, feeVars>>

Submittable(nonce) ==
  ShareReady(nonce) /\ ~Duplicate(nonce) /\ ~OutOfLane(nonce)

\* The key is remembered first, then the stale share is dropped.
DropStale(nonce) ==
  /\ Submittable(nonce) /\ Stale
  /\ keys' = keys \cup {Key(solveJob, nonce)}
  /\ found' = found \ {nonce}
  /\ UNCHANGED <<connVars, pc, currentJob, solveJob, cursor, budget, counted,
                 feeVars>>

\* client.submit_share; LuckyPool waits for an answer, Stratum does not.
Submit(nonce) ==
  /\ Submittable(nonce) /\ ~Stale
  /\ keys' = keys \cup {Key(solveJob, nonce)}
  /\ SendSubmit(solveJob, nonce, feeActive)
  /\ UNCHANGED <<open, upsets>>
  /\ found' = found \ {nonce}
  /\ IF Lucky
     THEN Goto("wait") /\ UNCHANGED counted
     ELSE counted' = counted + 1 /\ UNCHANGED pc
  /\ UNCHANGED <<currentJob, solveJob, cursor, budget, feeVars>>

\* The peer closes between the drain and the write, and _send raises: the share
\* is remembered and pending, and the client is lost.
SubmitRaises(nonce) ==
  /\ Submittable(nonce) /\ ~Stale
  /\ Upset /\ open' = FALSE
  /\ keys' = keys \cup {Key(solveJob, nonce)}
  /\ SendSubmit(solveJob, nonce, feeActive)
  /\ Goto("offline") /\ LeaveBody
  /\ UNCHANGED <<currentJob, feeVars>>

\* Mutant: the wait is for the answer to its own submit, and passes over others.
WaitForOwn ==
  /\ pc = "wait"
  /\ Readable /\ wire' = Tail(wire)
  /\ IF Head(wire).kind = "answer" /\ Head(wire).id # lastId
     THEN UNCHANGED <<clientJob, newest, pending, accepted, rejected>>
     ELSE Dispatch(Head(wire))
  /\ IF Head(wire).kind = "answer" /\ Head(wire).id = lastId
     THEN Goto("submit") /\ counted' = counted + 1
     ELSE UNCHANGED <<pc, counted>>
  /\ UNCHANGED <<announced, open, atPool, lastId, worker, sent, expired, upsets,
                 currentJob, solveJob, cursor, budget, found, keys, feeVars>>

\* The wait ends with the first answer to any pending submit.
WaitRead ==
  /\ pc = "wait"
  /\ ReadLine /\ UNCHANGED upsets
  /\ IF AnswersPending(Head(wire))
     THEN Goto("submit") /\ counted' = counted + 1
     ELSE UNCHANGED <<pc, counted>>
  /\ UNCHANGED <<currentJob, solveJob, cursor, budget, found, keys, feeVars>>

WaitTimesOut ==
  /\ pc = "wait"
  /\ ExpireSubmit(lastId)
  /\ Goto("submit") /\ counted' = counted + 1
  /\ UNCHANGED <<currentJob, solveJob, cursor, budget, found, keys, feeVars>>

-----------------------------------------------------------------------------
(* After the slice. *)

\* A LuckyPool job, and a Stratum job of another height, replace the current
\* job; a Stratum job of the same height is merged into it.
Replaced ==
  clientJob # NoJob /\ (Lucky \/ clientJob.height # currentJob.height)

TakeReplacement ==
  /\ pc \in {"check1", "check2"} /\ Replaced
  /\ currentJob' = clientJob
  /\ clientJob' = NoJob
  /\ keys' = {}
  /\ Goto("top") /\ LeaveBody
  /\ UNCHANGED <<poolVars, pending, lastId, accepted, rejected, worker,
                 ghostVars, feeVars>>

\* Mutant: the update replaces the job without asking whether there is one.
MergedBlindly == clientJob

\* Mutant: a same-height update is consumed and ignored.
MergedIgnored == currentJob

Merged ==
  IF clientJob = NoJob THEN currentJob ELSE MergeFrom(currentJob, clientJob)

CheckJob ==
  /\ pc = "check1" /\ ~Replaced
  /\ currentJob' = Merged
  /\ clientJob' = NoJob
  /\ Goto("poll")
  /\ UNCHANGED <<poolVars, pending, lastId, accepted, rejected, worker,
                 ghostVars, sliceVars, keys, feeVars>>

Polled ==
  /\ pc = "poll" /\ Drained
  /\ Goto("check2")
  /\ UNCHANGED <<connVars, currentJob, sliceVars, keys, feeVars>>

\* nonce64_end is the last nonce scanned, or the start when the slice scanned
\* none; unless it lies beyond the start a whole slice is skipped.
NextStart ==
  LET next == IF cursor - 1 > solveJob.nonce THEN cursor
                                             ELSE solveJob.nonce + SliceLen
  IN  IF next > NonceCap THEN NonceCap + 1 ELSE next

\* Mutant: the nonce advances only under the job id the slice worked on.
AdvancedSameId(job) ==
  IF job.id = solveJob.id THEN [job EXCEPT !.nonce = NextStart] ELSE job

Advanced(job) ==
  IF job.prev = solveJob.prev THEN [job EXCEPT !.nonce = NextStart] ELSE job

Advance ==
  /\ pc = "check2" /\ ~Replaced
  /\ currentJob' = Advanced(Merged)
  /\ clientJob' = NoJob
  /\ Goto("top") /\ LeaveBody
  /\ UNCHANGED <<poolVars, pending, lastId, accepted, rejected, worker,
                 ghostVars, keys, feeVars>>

-----------------------------------------------------------------------------
(* Reconnection. *)

Reconnect ==
  /\ pc = "offline"
  /\ Connect
  /\ keys' = {}
  /\ currentJob' = NoJob
  /\ Goto("handshake")
  /\ UNCHANGED <<sliceVars, feeVars>>

\* StratumClient(...) raised: the old client and job stay.
ReconnectFails ==
  /\ pc = "offline"
  /\ Upset
  /\ Goto("top")
  /\ UNCHANGED <<announced, open, wire, atPool, clientVars, ghostVars,
                 currentJob, sliceVars, keys, feeVars>>

-----------------------------------------------------------------------------

\* The miner looks at the stream only while it reads, so a pool step between
\* two reads is the same as one at the second.  A handshake that fails is
\* ReconnectFails, so the stream stays up in one.
PoolStep ==
  /\ Reading \/ pc = "handshake"
  /\ \/ Pool
     \/ pc # "handshake" /\ (Close \/ SendGarbage)
  /\ UNCHANGED loopVars

ShareStep ==
  \E nonce \in found : \/ SkipShare(nonce) \/ DropStale(nonce)
                       \/ Submit(nonce) \/ SubmitRaises(nonce)

Slice ==
  \/ SliceDrained \/ EndSlice \/ EndShares \/ ShareStep
  \/ \E last \in cursor..(cursor + budget - 1) : last <= NonceCap /\ Scan(last)
  \/ WaitRead \/ WaitTimesOut

Loop ==
  \/ HandshakeDone \/ Read \/ BadLine \/ LoseConnection
  \/ GetJob \/ FeeSwitch \/ CallRead \/ CallReply \/ BeginSlice
  \/ Slice
  \/ TakeReplacement \/ CheckJob \/ Polled \/ Advance
  \/ Reconnect \/ ReconnectFails

Next == PoolStep \/ Loop

Spec == Init /\ [][Next]_vars

\* The loop runs as long as it can, and the pool answers what it has received.
\* The replies need strong fairness only because PoolStep waits for a read and
\* for room on the wire.
PoolReplies ==
  /\ Reading
  /\ \E r \in atPool, v \in Verdicts : Reply(r, v)
  /\ UNCHANGED loopVars

FairSpec ==
  /\ Spec
  /\ WF_vars(Loop)
  /\ SF_vars(PoolReplies)

-----------------------------------------------------------------------------
(* Types. *)

Share == [ id : Nat, job : Nat, prev : Nat, nonce : Nat,
           worker : {"user", "dev"}, fee : BOOLEAN ]

ConnTypeOK ==
  /\ announced \in Seq(Job) /\ announced # <<>>
  /\ open \in BOOLEAN
  /\ wire \in Seq(Line)
  /\ atPool \in SUBSET Request
  /\ upsets \in Nat
  /\ clientJob \in JobOrNone
  /\ pending \in SUBSET Nat
  /\ lastId \in Nat /\ accepted \in Nat /\ rejected \in Nat
  /\ worker \in {"user", "dev"}
  /\ sent \in SUBSET Share
  /\ expired \in Nat /\ newest \in Nat

LoopTypeOK ==
  /\ pc \in PCs
  /\ currentJob \in JobOrNone /\ solveJob \in JobOrNone
  /\ cursor \in Nat /\ budget \in Nat
  /\ found \in SUBSET Nat
  /\ counted \in Nat
  /\ keys \in SUBSET (Nat \X Nat)
  /\ feeActive \in BOOLEAN /\ feeDue \in BOOLEAN
  /\ switches \in Nat /\ callId \in Nat

\* Every variable keeps its type; in particular the loop never works on a
\* slice, a poll or a check without a current job.
TypeOK ==
  /\ ConnTypeOK /\ LoopTypeOK
  /\ pc \in {"call", "slice", "solve", "submit", "wait", "check1", "poll", "check2"}
       => currentJob # NoJob
  /\ pc \in {"slice", "solve", "submit", "wait", "check1", "poll", "check2"}
       => solveJob # NoJob

-----------------------------------------------------------------------------
(* Safety. *)

\* No connection submits the same (job_id, ntime, nonce) twice, whatever
\* rescans an aborted slice, a failed switch or a stale drop causes.
AtMostOnce ==
  \A s, t \in sent : s.job = t.job /\ s.nonce = t.nonce => s = t

\* Every submit of the connection is counted exactly once: as accepted,
\* rejected, given up, or still pending.  Late and unknown answers count
\* nothing.
Accounting ==
  accepted + rejected + expired + Cardinality(pending) = Cardinality(sent)

\* While the stream is up, each pending submit is still at the pool or its
\* answer is on the wire: no reader (the drains, _call, the wait of a LuckyPool
\* submit) takes an answer away from the share it belongs to.
NoAnswerLost ==
  open => \A id \in pending :
            \/ [id |-> id, kind |-> "submit"] \in atPool
            \/ \E i \in 1..Len(wire) :
                 wire[i].kind = "answer" /\ wire[i].id = id

\* The pool does not go back to a parent it has left.
NoReturn ==
  \A i, j, k \in 1..Len(announced) :
    i <= j /\ j <= k /\ announced[i].prev = announced[k].prev
      => announced[j].prev = announced[i].prev

\* As long as nothing aborts an iteration, a nonce is submitted once under a
\* parent, across rotations, merged jobs and new parents: the nonce advance
\* alone sees to it, the keys hold the job id and do not.  The counter of a parent
\* is gone with it, so nonces come again if the pool returns to that parent.
OnceWhenCalm ==
  upsets = 0 /\ NoReturn =>
    \A s, t \in sent : s.prev = t.prev /\ s.nonce = t.nonce => s = t

\* A share is submitted under the dev address only inside a dev-fee slice,
\* across failed, refused and timed-out switches and reconnects.
DevOnlyInFeeSlice == \A s \in sent : s.worker = "dev" => s.fee

\* LuckyPool never gets a share for another parent than that of the last job
\* it sent on this connection and the miner has read.
NeverSubmitsStale ==
  [][ Lucky => \A s \in sent' \ sent : s.prev = announced[newest].prev ]_vars

-----------------------------------------------------------------------------
(* Liveness, under FairSpec. *)

\* Once the pool announces no more jobs, the miner ends up working on its
\* newest one, whatever was lost or aborted on the way.
Converges == <>[](currentJob # NoJob /\ currentJob.id = Len(announced))

\* No share stays unanswered for ever: each is answered, given up, or gone
\* with its connection.
SharesSettle == []<>(pending = {})

\* A payout switch that has come due is made in the end: a refused, failed or
\* timed-out attempt is repeated before any further slice.
SwitchesSettle == feeDue ~> ~feeDue

=============================================================================

--------------------------- MODULE StratumClient ---------------------------
(***************************************************************************)
(* The pool connection: the StratumClient object, the TCP stream it reads, *)
(* and the pool at the other end.  The pool is external: it announces jobs,*)
(* answers requests in any order, and may send a line that is not JSON or  *)
(* close the stream.  The mining loop (PoolMiner) composes the operators   *)
(* of this module into its own steps.                                      *)
(***************************************************************************)
EXTENDS Jobs, Sequences, FiniteSets

CONSTANTS
  Protocol,     \* "stratum" or "luckypool": client._protocol
  Branches,     \* competing parents at one height: a subset of {0, 1}
  Starts,       \* the nonce64_start values the pool hands out
  Sparse,       \* the sets of fields a LuckyPool update may leave out
  Repeats,      \* whether the pool may send its newest job again
  MaxJobs,      \* bound: jobs announced in a behaviour
  MaxWire,      \* bound: unread lines on the stream
  MaxUpsets     \* bound: closes, failed reconnects, bad lines, repeated jobs,
                \* refused logins and timeouts

ASSUME PoolAssumption ==
  /\ Protocol \in {"stratum", "luckypool"}
  /\ Branches \subseteq {0, 1}
  /\ Starts \subseteq Nat
  /\ Sparse \subseteq SUBSET {"prefix", "parentMtp"}
  /\ Repeats \in BOOLEAN

VARIABLES
  announced,    \* every job the pool has made, in full; its index is its id
  open,         \* the TCP connection is up
  wire,         \* lines on their way to the client
  atPool,       \* requests the pool has received and not answered
  upsets,       \* how many of the MaxUpsets have happened
  clientJob,    \* client._current_job
  pending,      \* the ids in client._pending_submits
  lastId,       \* client._msg_id
  accepted,     \* client.shares_accepted
  rejected,     \* client.shares_rejected
  worker,       \* whose address client._submit_worker names
  sent,         \* history: the shares this connection has submitted
  expired,      \* history: submits given up after 30 s on this connection
  newest        \* history: id of the last job this connection has read

poolVars   == <<announced, open, wire, atPool, upsets>>
clientVars == <<clientJob, pending, lastId, accepted, rejected, worker>>
ghostVars  == <<sent, expired, newest>>
connVars   == <<poolVars, clientVars, ghostVars>>

Lucky == Protocol = "luckypool"

-----------------------------------------------------------------------------
(* Lines of the stream, and requests. *)

Verdicts == {"ok", "refused", "error"}   \* result true / result false / error

Line == [kind : {"job"}, job : Job]
          \cup [kind : {"answer"}, id : Nat, verdict : Verdicts]
          \cup [kind : {"garbage"}]

JobLine(job)    == [kind |-> "job", job |-> job]
Answer(id, v)   == [kind |-> "answer", id |-> id, verdict |-> v]
Garbage         == [kind |-> "garbage"]

Request == [id : Nat, kind : {"submit", "login"}]

Newest == announced[Len(announced)]

-----------------------------------------------------------------------------
(* The pool. *)

FullJob(height, branch, start) ==
  [ id     |-> Len(announced) + 1,
    height |-> height,
    prev   |-> 2 * height + branch,
    nonce  |-> start,
    lane   |-> IF Lucky THEN LaneSize ELSE 0,
    mtp    |-> TRUE ]

\* What LuckyPool leaves out of a same-height update: without noncePrefix
\* (and nonceBits) the parser starts at nonce 0 with an unknown lane.
Omit(job, fields) ==
  [job EXCEPT !.nonce = IF "prefix" \in fields THEN 0 ELSE @,
              !.lane  = IF "prefix" \in fields THEN 0 ELSE @,
              !.mtp   = "parentMtp" \notin fields]

Deliver(line) ==
  /\ Len(wire) < MaxWire
  /\ wire' = Append(wire, line)

\* A new block, a competing parent, or a rotation of the job id.
Announce(height, branch, start) ==
  /\ open
  /\ Len(announced) < MaxJobs
  /\ LET job == FullJob(height, branch, start) IN
       /\ announced' = Append(announced, job)
       /\ Deliver(JobLine(job))
  /\ UNCHANGED <<open, atPool, upsets, clientVars, ghostVars>>

\* A LuckyPool update that repeats the parent and lane of the newest job.
AnnounceSparse(fields) ==
  /\ open /\ Lucky
  /\ Len(announced) < MaxJobs
  /\ LET job == [Newest EXCEPT !.id = Len(announced) + 1] IN
       /\ announced' = Append(announced, job)
       /\ Deliver(JobLine(Omit(job, fields)))
  /\ UNCHANGED <<open, atPool, upsets, clientVars, ghostVars>>

Upset == upsets < MaxUpsets /\ upsets' = upsets + 1

\* The pool sends the newest job once more, under the same id.
Repeat ==
  /\ open /\ Repeats /\ Upset
  /\ Deliver(JobLine(Newest))
  /\ UNCHANGED <<announced, open, atPool, clientVars, ghostVars>>

\* A line json.loads cannot decode.
SendGarbage ==
  /\ open /\ Upset
  /\ Deliver(Garbage)
  /\ UNCHANGED <<announced, open, atPool, clientVars, ghostVars>>

\* Only a login tells a false result from an error.
Reply(request, verdict) ==
  /\ open
  /\ request.kind = "submit" => verdict # "error"
  /\ atPool' = atPool \ {request}
  /\ Deliver(Answer(request.id, verdict))
  /\ IF request.kind = "login" /\ verdict # "ok" THEN Upset ELSE UNCHANGED upsets
  /\ UNCHANGED <<announced, open, clientVars, ghostVars>>

\* End of stream: what is on the wire can still be read, nothing is added.
Close ==
  /\ open /\ Upset
  /\ open' = FALSE
  /\ UNCHANGED <<announced, wire, atPool, clientVars, ghostVars>>

Pool ==
  \/ \E h \in {Newest.height, Newest.height + 1}, b \in Branches, s \in Starts :
       Announce(h, b, s)
  \/ \E fields \in Sparse : AnnounceSparse(fields)
  \/ Repeat
  \/ \E r \in atPool, v \in Verdicts : Reply(r, v)

-----------------------------------------------------------------------------
(* Reading: _recv takes one line, _dispatch_message routes it. *)

Readable == wire # <<>> /\ Head(wire).kind # "garbage"

\* The peer closed and everything it sent was read: ConnectionError.
EndOfStream == wire = <<>> /\ ~open

\* json.loads fails in _recv: the line is gone, an exception propagates.
ReadGarbage ==
  /\ wire # <<>> /\ Head(wire).kind = "garbage"
  /\ wire' = Tail(wire)
  /\ UNCHANGED <<announced, open, atPool, upsets, clientVars, ghostVars>>

\* _complete_pending_submit, for the answer to a submit still pending.
AnswersPending(line) == line.kind = "answer" /\ line.id \in pending

\* Mutant: the answered submit stays pending.
CompleteWithoutPop(line) ==
  /\ IF line.verdict = "ok"
     THEN accepted' = accepted + 1 /\ UNCHANGED rejected
     ELSE rejected' = rejected + 1 /\ UNCHANGED accepted
  /\ UNCHANGED <<clientJob, newest, pending>>

CompleteSubmit(line) ==
  /\ pending' = pending \ {line.id}
  /\ IF line.verdict = "ok"
     THEN accepted' = accepted + 1 /\ UNCHANGED rejected
     ELSE rejected' = rejected + 1 /\ UNCHANGED accepted
  /\ UNCHANGED <<clientJob, newest>>

\* _handle_server_message for mining.notify and LuckyPool's job.
Routed(job) == IF Lucky THEN AfterLuckyJob(clientJob, job)
                        ELSE AfterNotify(clientJob, job)

HandleJob(line) ==
  /\ clientJob' = Routed(line.job)
  /\ newest' = line.job.id
  /\ UNCHANGED <<pending, accepted, rejected>>

\* _dispatch_message; an answer nobody waits for is logged and dropped.
Dispatch(line) ==
  \/ AnswersPending(line) /\ CompleteSubmit(line)
  \/ line.kind = "job" /\ HandleJob(line)
  \/ /\ line.kind = "answer" /\ ~AnswersPending(line)
     /\ UNCHANGED <<clientJob, newest, pending, accepted, rejected>>

ReadLine ==
  /\ Readable
  /\ wire' = Tail(wire)
  /\ Dispatch(Head(wire))
  /\ UNCHANGED <<announced, open, atPool, lastId, worker, sent, expired>>

-----------------------------------------------------------------------------
(* Sending. *)

\* A request on a stream the peer has closed is lost without an error, or
\* raises ConnectionError; the caller chooses the second as a step of its own.
Transmit(kind) ==
  /\ lastId' = lastId + 1
  /\ atPool' = IF open THEN atPool \cup {[id |-> lastId + 1, kind |-> kind]}
                       ELSE atPool

\* submit_share up to its _send: the submit is pending before it is written.
SendSubmit(job, nonce, feeSlice) ==
  /\ Transmit("submit")
  /\ pending' = pending \cup {lastId + 1}
  /\ sent' = sent \cup {[ id |-> lastId + 1, job |-> job.id, prev |-> job.prev,
                          nonce |-> nonce, worker |-> worker, fee |-> feeSlice ]}
  /\ UNCHANGED <<announced, wire, clientJob, accepted, rejected, worker,
                 expired, newest>>

\* Mutant: the submit given up stays pending, and its late answer counts.
ExpireWithoutPop(id) ==
  /\ Upset
  /\ expired' = expired + 1
  /\ UNCHANGED <<announced, open, wire, atPool, clientJob, pending, lastId,
                 accepted, rejected, worker, sent, newest>>

\* The 30 s wait of a LuckyPool submit ends without an answer.
ExpireSubmit(id) ==
  /\ Upset
  /\ pending' = pending \ {id}
  /\ expired' = expired + 1
  /\ UNCHANGED <<announced, open, wire, atPool, clientJob, lastId, accepted,
                 rejected, worker, sent, newest>>

\* send_authorize up to its _call: _submit_worker changes before the request.
SendAuthorize(who) ==
  /\ worker' = who
  /\ Transmit("login")
  /\ UNCHANGED <<announced, open, wire, upsets, clientJob, pending, accepted,
                 rejected, sent, expired, newest>>

\* A new StratumClient that got through its handshake; the pool greets it
\* with the newest job.
Connect ==
  /\ open' = TRUE
  /\ wire' = <<JobLine(Newest)>>
  /\ atPool' = {} /\ clientJob' = NoJob /\ pending' = {} /\ lastId' = 0
  /\ accepted' = 0 /\ rejected' = 0 /\ worker' = "user"
  /\ sent' = {} /\ expired' = 0 /\ newest' = 0
  /\ UNCHANGED <<announced, upsets>>

ClientInit ==
  /\ \E s \in Starts, b \in Branches :
       announced = << [ id |-> 1, height |-> 1, prev |-> 2 + b, nonce |-> s,
                        lane |-> IF Lucky THEN LaneSize ELSE 0, mtp |-> TRUE ] >>
  /\ open = TRUE /\ wire = <<JobLine(announced[1])>> /\ atPool = {} /\ upsets = 0
  /\ clientJob = NoJob /\ pending = {} /\ lastId = 0
  /\ accepted = 0 /\ rejected = 0 /\ worker = "user"
  /\ sent = {} /\ expired = 0 /\ newest = 0

=============================================================================

-------------------------- MODULE PoolMinerProofs --------------------------
(***************************************************************************)
(* Machine-checked proofs about PoolMiner, for every value of its          *)
(* constants: type correctness, the payout identity of a share, the share  *)
(* accounting, and that no reader takes an answer away.  Each property is  *)
(* proved from an inductive invariant stated next to it.  PoolMinerOrder   *)
(* builds on the lemmas of this module.                                    *)
(***************************************************************************)
EXTENDS PoolMiner, FiniteSetTheorems, TLAPS

\* Where _solve_slice_continuous runs.
SlicePCs == {"slice", "solve", "submit", "wait"}

-----------------------------------------------------------------------------
(* Operators on jobs and lines. *)

\* Every way of combining two jobs yields a job.
LEMMA MergeType ==
  ASSUME NEW a \in Job, NEW b \in Job
  PROVE  MergeFrom(a, b) \in Job
BY DEF MergeFrom, Job

LEMMA RoutedType ==
  ASSUME clientJob \in JobOrNone, NEW job \in Job
  PROVE  Routed(job) \in Job
BY DEF Routed, AfterLuckyJob, AfterNotify, InheritSparse, JobOrNone, Job

LEMMA OmitType ==
  ASSUME NEW job \in Job, NEW fields
  PROVE  /\ Omit(job, fields) \in Job
         /\ Omit(job, fields).id = job.id
         /\ Omit(job, fields).height = job.height
         /\ Omit(job, fields).prev = job.prev
BY DEF Omit, Job

\* A line of each kind carries what that kind carries.
LEMMA LineType ==
  ASSUME NEW line \in Line
  PROVE  /\ line.kind \in {"job", "answer", "garbage"}
         /\ line.kind = "job" => line.job \in Job
         /\ line.kind = "answer" => line.id \in Nat /\ line.verdict \in Verdicts
BY DEF Line

LEMMA NewestType ==
  ASSUME ConnTypeOK
  PROVE  Newest \in Job /\ Len(announced) \in Nat \ {0}
BY DEF ConnTypeOK, Newest

LEMMA FullJobType ==
  ASSUME ConnTypeOK, NEW h \in Nat, NEW b \in Branches, NEW s \in Starts
  PROVE  /\ FullJob(h, b, s) \in Job
         /\ FullJob(h, b, s).id = Len(announced) + 1
<1>1. h \in Nat /\ b \in Nat /\ s \in Nat
  BY PoolAssumption
<1>2. Len(announced) + 1 \in Nat /\ 2 * h + b \in Nat
  BY <1>1, NewestType
<1>. QED BY <1>1, <1>2 DEF FullJob, Job

-----------------------------------------------------------------------------
(* Type correctness. *)

LEMMA InitType == Init => TypeOK
<1> SUFFICES ASSUME Init PROVE TypeOK
  OBVIOUS
<1> USE PoolAssumption, LaneSizeAssumption
<1>1. PICK s \in Starts, b \in Branches :
        announced = << [ id |-> 1, height |-> 1, prev |-> 2 + b, nonce |-> s,
                         lane |-> IF Lucky THEN LaneSize ELSE 0, mtp |-> TRUE ] >>
  BY DEF Init, ClientInit
<1>2. s \in Nat /\ 2 + b \in Nat
  OBVIOUS
<1>3. announced[1] \in Job /\ announced \in Seq(Job) /\ announced # <<>>
  BY <1>1, <1>2 DEF Job
<1>4. JobLine(announced[1]) \in Line
  BY <1>3 DEF JobLine, Line
<1>5. ConnTypeOK
  BY <1>3, <1>4 DEF Init, ClientInit, ConnTypeOK, JobOrNone
<1>. QED BY <1>5 DEF Init, TypeOK, LoopTypeOK, PCs, JobOrNone

\* Reading a line keeps the types of the connection.
LEMMA ReadLineType ==
  ASSUME ConnTypeOK, ReadLine, upsets' \in Nat
  PROVE  ConnTypeOK'
<1>1. Head(wire) \in Line /\ wire' \in Seq(Line)
  BY DEF ReadLine, Readable, ConnTypeOK
<1>2. CASE AnswersPending(Head(wire)) /\ CompleteSubmit(Head(wire))
  <2>1. accepted' \in Nat /\ rejected' \in Nat
    BY <1>2 DEF CompleteSubmit, ConnTypeOK
  <2>2. pending' \in SUBSET Nat /\ clientJob' = clientJob /\ newest' = newest
    BY <1>2 DEF CompleteSubmit, ConnTypeOK
  <2>. QED BY <1>1, <2>1, <2>2 DEF ReadLine, ConnTypeOK
<1>3. CASE Head(wire).kind = "job" /\ HandleJob(Head(wire))
  <2>1. Head(wire).job \in Job
    BY <1>1, <1>3, LineType
  <2>2. Routed(Head(wire).job) \in Job /\ Head(wire).job.id \in Nat
    BY <2>1, RoutedType DEF ConnTypeOK, Job
  <2>. QED BY <1>1, <1>3, <2>2 DEF ReadLine, HandleJob, ConnTypeOK, JobOrNone
<1>4. CASE UNCHANGED <<clientJob, newest, pending, accepted, rejected>>
  BY <1>1, <1>4 DEF ReadLine, ConnTypeOK
<1>. QED BY <1>2, <1>3, <1>4 DEF ReadLine, Dispatch

\* The pool's steps keep the types of the connection.
LEMMA PoolType ==
  ASSUME ConnTypeOK, Pool \/ Close \/ SendGarbage
  PROVE  ConnTypeOK'
<1>n. Newest \in Job /\ Len(announced) \in Nat \ {0}
  BY NewestType
<1>w. ASSUME NEW line \in Line, Deliver(line) PROVE wire' \in Seq(Line)
  BY <1>w DEF Deliver, ConnTypeOK
<1>1. ASSUME NEW h \in {Newest.height, Newest.height + 1}, NEW b \in Branches,
             NEW s \in Starts, Announce(h, b, s)
      PROVE  ConnTypeOK'
  <2>1. h \in Nat
    BY <1>n DEF Job
  <2>2. FullJob(h, b, s) \in Job
    BY <2>1, FullJobType
  <2>3. JobLine(FullJob(h, b, s)) \in Line
    BY <2>2 DEF JobLine, Line
  <2>4. wire' \in Seq(Line) /\ announced' \in Seq(Job) /\ announced' # <<>>
    BY <1>1, <1>w, <2>2, <2>3 DEF Announce, ConnTypeOK
  <2>. QED BY <1>1, <2>4 DEF Announce, ConnTypeOK, clientVars, ghostVars
<1>2. ASSUME NEW fields \in Sparse, AnnounceSparse(fields)
      PROVE  ConnTypeOK'
  <2> DEFINE job == [Newest EXCEPT !.id = Len(announced) + 1]
  <2>1. job \in Job
    BY <1>n DEF Job
  <2>2. JobLine(Omit(job, fields)) \in Line
    BY <2>1, OmitType DEF JobLine, Line
  <2>3. wire' \in Seq(Line) /\ announced' \in Seq(Job) /\ announced' # <<>>
    BY <1>2, <1>w, <2>1, <2>2 DEF AnnounceSparse, ConnTypeOK
  <2>. QED BY <1>2, <2>3 DEF AnnounceSparse, ConnTypeOK, clientVars, ghostVars
<1>3. CASE Repeat
  <2>1. JobLine(Newest) \in Line
    BY <1>n DEF JobLine, Line
  <2>2. wire' \in Seq(Line)
    BY <1>3, <1>w, <2>1 DEF Repeat
  <2>. QED BY <1>3, <2>2 DEF Repeat, Upset, ConnTypeOK, clientVars, ghostVars
<1>4. CASE SendGarbage
  <2>1. Garbage \in Line
    BY DEF Garbage, Line
  <2>2. wire' \in Seq(Line)
    BY <1>4, <1>w, <2>1 DEF SendGarbage
  <2>. QED BY <1>4, <2>2 DEF SendGarbage, Upset, ConnTypeOK, clientVars, ghostVars
<1>5. ASSUME NEW r \in atPool, NEW v \in Verdicts, Reply(r, v)
      PROVE  ConnTypeOK'
  <2>1. r.id \in Nat
    BY DEF ConnTypeOK, Request
  <2>2. Answer(r.id, v) \in Line
    BY <2>1 DEF Answer, Line
  <2>3. wire' \in Seq(Line)
    BY <1>5, <1>w, <2>2 DEF Reply
  <2>4. upsets' \in Nat
    BY <1>5 DEF Reply, Upset, ConnTypeOK
  <2>. QED BY <1>5, <2>3, <2>4 DEF Reply, ConnTypeOK, clientVars, ghostVars
<1>6. CASE Close
  <2>a. upsets' = upsets + 1 /\ open' = FALSE
    BY <1>6, Zenon DEF Close, Upset
  <2>1. upsets' \in Nat
    BY <2>a DEF ConnTypeOK
  <2>2. open' \in BOOLEAN
    BY <2>a, Zenon
  <2>. QED BY <1>6, <2>1, <2>2 DEF Close, ConnTypeOK, clientVars, ghostVars
<1>. QED BY <1>1, <1>2, <1>3, <1>4, <1>5, <1>6 DEF Pool

\* So do the client's sends and a new connection.
LEMMA SendType ==
  ASSUME ConnTypeOK, NEW kind \in {"submit", "login"}, Transmit(kind)
  PROVE  lastId' \in Nat /\ lastId + 1 \in Nat /\ atPool' \in SUBSET Request
BY DEF ConnTypeOK, Transmit, Request

LEMMA SendSubmitType ==
  ASSUME ConnTypeOK, NEW job \in Job, NEW nonce \in Nat, NEW fee \in BOOLEAN,
         SendSubmit(job, nonce, fee), open' \in BOOLEAN, upsets' \in Nat
  PROVE  ConnTypeOK'
<1>1. lastId' \in Nat /\ lastId + 1 \in Nat /\ atPool' \in SUBSET Request
  BY SendType DEF SendSubmit
<1>2. [ id |-> lastId + 1, job |-> job.id, prev |-> job.prev, nonce |-> nonce,
        worker |-> worker, fee |-> fee ] \in Share
  BY <1>1 DEF Share, Job, ConnTypeOK
<1>3. sent' \in SUBSET Share /\ pending' \in SUBSET Nat
  BY <1>1, <1>2 DEF SendSubmit, ConnTypeOK
<1>. QED BY <1>1, <1>3 DEF SendSubmit, ConnTypeOK

LEMMA SendAuthorizeType ==
  ASSUME ConnTypeOK, NEW who \in {"user", "dev"}, SendAuthorize(who)
  PROVE  ConnTypeOK'
<1>1. lastId' \in Nat /\ atPool' \in SUBSET Request
  BY SendType DEF SendAuthorize
<1>. QED BY <1>1 DEF SendAuthorize, ConnTypeOK

LEMMA ConnectType ==
  ASSUME ConnTypeOK, Connect
  PROVE  ConnTypeOK'
<1>1. JobLine(Newest) \in Line
  BY NewestType DEF JobLine, Line
<1>2. wire' \in Seq(Line)
  BY <1>1 DEF Connect
<1>. QED BY <1>2 DEF Connect, ConnTypeOK, JobOrNone

-----------------------------------------------------------------------------
\* What every step of the loop may rely on.
TypeGuards ==
  /\ pc \in {"call", "slice", "solve", "submit", "wait", "check1", "poll", "check2"}
       => currentJob # NoJob
  /\ pc \in {"slice", "solve", "submit", "wait", "check1", "poll", "check2"}
       => solveJob # NoJob

LEMMA UpsetType ==
  ASSUME ConnTypeOK, Upset
  PROVE  upsets' \in Nat
BY DEF ConnTypeOK, Upset

\* Steps that leave the connection alone keep its types.
LEMMA ConnStutter ==
  ASSUME ConnTypeOK, UNCHANGED connVars
  PROVE  ConnTypeOK'
BY DEF ConnTypeOK, connVars, poolVars, clientVars, ghostVars

\* The unread job is taken, the rest of the connection stays.
LEMMA TakeType ==
  ASSUME ConnTypeOK, clientJob' = NoJob,
         UNCHANGED <<poolVars, pending, lastId, accepted, rejected, worker, ghostVars>>
  PROVE  ConnTypeOK'
BY DEF ConnTypeOK, poolVars, ghostVars, JobOrNone

LEMMA MergedType ==
  ASSUME TypeOK, currentJob # NoJob
  PROVE  Merged \in Job
BY MergeType DEF Merged, TypeOK, ConnTypeOK, LoopTypeOK, JobOrNone

LEMMA NextStartType ==
  ASSUME TypeOK, solveJob # NoJob
  PROVE  NextStart \in Nat
<1>1. solveJob.nonce \in Nat /\ cursor \in Nat
  BY DEF TypeOK, LoopTypeOK, JobOrNone, Job
<1>2. CASE cursor - 1 > solveJob.nonce
  BY <1>1, <1>2, LoopAssumption DEF NextStart
<1>3. CASE ~(cursor - 1 > solveJob.nonce)
  BY <1>1, <1>3, LoopAssumption DEF NextStart
<1>. QED BY <1>2, <1>3

LEMMA ReadSteps ==
  ASSUME TypeOK, HandshakeDone \/ Read \/ BadLine \/ LoseConnection \/ GetJob
  PROVE  TypeOK'
<1>1. CASE HandshakeDone
  <2>1. ConnTypeOK'
    BY <1>1, ConnStutter DEF TypeOK, HandshakeDone
  <2>. QED BY <1>1, <2>1 DEF TypeOK, LoopTypeOK, PCs, HandshakeDone, Goto, sliceVars, feeVars
<1>2. CASE Read
  <2>1. ConnTypeOK'
    BY <1>2, ReadLineType DEF TypeOK, ConnTypeOK, Read
  <2>. QED BY <1>2, <2>1 DEF TypeOK, LoopTypeOK, Read, loopVars, sliceVars, feeVars
<1>3. CASE BadLine
  <2>1. wire' \in Seq(Line)
    BY <1>3 DEF BadLine, ReadGarbage, TypeOK, ConnTypeOK
  <2>2. ConnTypeOK'
    BY <1>3, <2>1 DEF BadLine, ReadGarbage, TypeOK, ConnTypeOK, clientVars, ghostVars
  <2>. QED BY <1>3, <2>2 DEF TypeOK, LoopTypeOK, PCs, BadLine, Abort, Goto, LeaveBody,
              LeaveSlice, JobOrNone, feeVars
<1>4. CASE LoseConnection
  <2>1. ConnTypeOK'
    BY <1>4, ConnStutter DEF TypeOK, LoseConnection
  <2>. QED BY <1>4, <2>1 DEF TypeOK, LoopTypeOK, PCs, LoseConnection, Goto, LeaveBody,
              LeaveSlice, JobOrNone, feeVars
<1>5. CASE GetJob
  <2>1. ConnTypeOK'
    BY <1>5, TakeType DEF TypeOK, GetJob
  <2>. QED BY <1>5, <2>1 DEF TypeOK, ConnTypeOK, LoopTypeOK, GetJob, sliceVars, feeVars
<1>. QED BY <1>1, <1>2, <1>3, <1>4, <1>5

LEMMA TopSteps ==
  ASSUME TypeOK, FeeSwitch \/ CallRead \/ CallReply \/ BeginSlice
  PROVE  TypeOK'
<1>1. CASE FeeSwitch
  <2>1. ConnTypeOK'
    BY <1>1, SendAuthorizeType DEF TypeOK, FeeSwitch
  <2>2. callId' \in Nat /\ switches' \in Nat /\ feeDue' \in BOOLEAN
    BY <1>1 DEF FeeSwitch, TypeOK, ConnTypeOK, LoopTypeOK
  <2>3. pc' \in {"call", "offline"}
    BY <1>1 DEF FeeSwitch, Goto
  <2>. QED BY <1>1, <2>1, <2>2, <2>3 DEF TypeOK, LoopTypeOK, PCs, FeeSwitch, sliceVars
<1>2. CASE CallRead
  <2>1. upsets' \in Nat
    BY <1>2, UpsetType DEF CallRead, TypeOK, ConnTypeOK
  <2>2. ConnTypeOK'
    BY <1>2, <2>1, ReadLineType DEF TypeOK, CallRead
  <2>3. CASE UNCHANGED loopVars
    BY <2>2, <2>3 DEF TypeOK, LoopTypeOK, loopVars, sliceVars, feeVars
  <2>4. CASE Abort
    BY <2>2, <2>4 DEF TypeOK, LoopTypeOK, PCs, Abort, Goto, LeaveBody, LeaveSlice,
                      JobOrNone, feeVars
  <2>. QED BY <1>2, <2>3, <2>4 DEF CallRead
<1>3. CASE CallReply
  <2>1. ConnTypeOK'
    BY <1>3 DEF CallReply, TypeOK, ConnTypeOK, clientVars, ghostVars
  <2>2. CASE SwitchGranted(Head(wire).verdict)
    <3>a. feeActive' = ~feeActive
      BY <1>3, <2>2, Zenon DEF CallReply
    <3>b. feeActive' \in BOOLEAN
      BY <3>a, Zenon
    <3>c. currentJob \in Job
      BY <1>3 DEF CallReply, TypeOK, LoopTypeOK, JobOrNone
    <3>1. currentJob \in Job /\ feeActive' \in BOOLEAN
      BY <3>b, <3>c
    <3>2. solveJob' \in Job /\ cursor' \in Nat
      BY <1>3, <2>2, <3>1 DEF CallReply, StartSlice, Job
    <3>3. feeDue' \in BOOLEAN
      BY <1>3, <2>2, Zenon DEF CallReply
    <3>4. pc' = "slice" /\ budget' = SliceLen /\ found' = {} /\ counted' = 0
      BY <1>3, <2>2 DEF CallReply, StartSlice, Goto
    <3>5. UNCHANGED <<currentJob, keys, switches, callId>>
      BY <1>3 DEF CallReply
    <3>. QED BY <2>1, <3>1, <3>2, <3>3, <3>4, <3>5, LoopAssumption, NoJobAssumption
             DEF TypeOK, LoopTypeOK, PCs, JobOrNone
  <2>3. CASE ~SwitchGranted(Head(wire).verdict)
    BY <1>3, <2>1, <2>3 DEF CallReply, TypeOK, LoopTypeOK, PCs, Goto, sliceVars
  <2>. QED BY <2>2, <2>3
<1>4. CASE BeginSlice
  <2>1. ConnTypeOK'
    BY <1>4, ConnStutter DEF TypeOK, BeginSlice
  <2>2. currentJob \in Job
    BY <1>4 DEF BeginSlice, TypeOK, LoopTypeOK, JobOrNone
  <2>3. solveJob' \in Job /\ cursor' \in Nat
    BY <1>4, <2>2 DEF BeginSlice, StartSlice, Job
  <2>. QED BY <1>4, <2>1, <2>2, <2>3, LoopAssumption, NoJobAssumption
           DEF BeginSlice, StartSlice, TypeOK, LoopTypeOK, PCs, Goto, JobOrNone, feeVars
<1>. QED BY <1>1, <1>2, <1>3, <1>4

LEMMA ScanSteps ==
  ASSUME TypeOK,
         \/ SliceDrained \/ EndSlice \/ EndShares
         \/ \E last \in cursor..(cursor + budget - 1) : last <= NonceCap /\ Scan(last)
  PROVE  TypeOK'
<1>1. CASE SliceDrained
  <2>1. ConnTypeOK'
    BY <1>1, ConnStutter DEF TypeOK, SliceDrained
  <2>. QED BY <1>1, <2>1 DEF SliceDrained, TypeOK, LoopTypeOK, PCs, Goto, sliceVars, feeVars
<1>2. CASE EndSlice
  <2>1. ConnTypeOK'
    BY <1>2, ConnStutter DEF TypeOK, EndSlice
  <2>. QED BY <1>2, <2>1 DEF EndSlice, TypeOK, LoopTypeOK, PCs, Goto, LeaveSlice, feeVars
<1>3. CASE EndShares
  <2>1. ConnTypeOK'
    BY <1>3, ConnStutter DEF TypeOK, EndShares
  <2>2. budget' \in Nat /\ found' \in SUBSET Nat /\ counted' \in Nat
    <3>1. CASE Capped
      BY <1>3, <3>1 DEF EndShares, TypeOK, LoopTypeOK, LeaveSlice
    <3>2. CASE ~Capped
      BY <1>3, <3>2 DEF EndShares, TypeOK, LoopTypeOK
    <3>. QED BY <3>1, <3>2
  <2>3. pc' \in {"check1", "solve"}
    BY <1>3 DEF EndShares, Goto
  <2>. QED BY <1>3, <2>1, <2>2, <2>3 DEF EndShares, MoreShares, TypeOK, LoopTypeOK, PCs, feeVars
<1>4. ASSUME NEW last \in cursor..(cursor + budget - 1), last <= NonceCap, Scan(last)
      PROVE  TypeOK'
  <2>1. ConnTypeOK'
    BY <1>4, ConnStutter DEF TypeOK, Scan
  <2>2. cursor \in Nat /\ budget \in Nat
    BY DEF TypeOK, LoopTypeOK
  <2>3. last \in Nat /\ budget - (last - cursor + 1) \in Nat
    BY <2>2
  <2>4. ShareNonces \cap cursor..last \in SUBSET Nat
    BY LoopAssumption
  <2>5. CASE ShareNonces \cap cursor..last = {}
    BY <1>4, <2>1, <2>3, <2>5
       DEF Scan, LeaveSlice, TypeOK, LoopTypeOK, PCs, Goto, feeVars
  <2>6. CASE ShareNonces \cap cursor..last # {}
    BY <1>4, <2>1, <2>3, <2>4, <2>6
       DEF Scan, TypeOK, LoopTypeOK, PCs, Goto, feeVars
  <2>. QED BY <2>5, <2>6
<1>. QED BY <1>1, <1>2, <1>3, <1>4

LEMMA ShareSteps ==
  ASSUME TypeOK, NEW nonce \in found,
         \/ SkipShare(nonce) \/ DropStale(nonce) \/ Submit(nonce) \/ SubmitRaises(nonce)
  PROVE  TypeOK'
<1>n. nonce \in Nat /\ found \ {nonce} \in SUBSET Nat
  BY DEF TypeOK, LoopTypeOK
<1>1. CASE SkipShare(nonce)
  <2>1. ConnTypeOK'
    BY <1>1, ConnStutter DEF TypeOK, SkipShare
  <2>. QED BY <1>1, <1>n, <2>1 DEF SkipShare, TypeOK, LoopTypeOK, feeVars
<1>k. ASSUME Submittable(nonce)
      PROVE  /\ pc = "submit" /\ solveJob \in Job /\ currentJob # NoJob
             /\ keys \cup {Key(solveJob, nonce)} \in SUBSET (Nat \X Nat)
  BY <1>k, <1>n DEF Submittable, ShareReady, MoreShares, Key, TypeOK, LoopTypeOK, JobOrNone, Job
<1>2. CASE DropStale(nonce)
  <2>1. ConnTypeOK'
    BY <1>2, ConnStutter DEF TypeOK, DropStale
  <2>. QED BY <1>2, <1>k, <1>n, <2>1 DEF DropStale, TypeOK, LoopTypeOK, feeVars
<1>3. CASE Submit(nonce)
  <2>1. ConnTypeOK'
    BY <1>3, <1>k, <1>n, SendSubmitType DEF Submit, TypeOK, ConnTypeOK, LoopTypeOK
  <2>2. pc' \in {"wait", "submit"} /\ counted' \in Nat
    BY <1>3, <1>k DEF Submit, Goto, TypeOK, LoopTypeOK
  <2>. QED BY <1>3, <1>k, <1>n, <2>1, <2>2 DEF Submit, TypeOK, LoopTypeOK, PCs, feeVars
<1>4. CASE SubmitRaises(nonce)
  <2>1. upsets' \in Nat
    BY <1>4, UpsetType DEF SubmitRaises, TypeOK
  <2>2. open' = FALSE /\ SendSubmit(solveJob, nonce, feeActive)
    BY <1>4, Zenon DEF SubmitRaises
  <2>3. open' \in BOOLEAN /\ feeActive \in BOOLEAN
    BY <2>2, Zenon DEF TypeOK, LoopTypeOK
  <2>4. ConnTypeOK'
    BY <1>4, <1>k, <1>n, <2>1, <2>2, <2>3, SendSubmitType DEF SubmitRaises, TypeOK
  <2>. QED BY <1>4, <1>k, <2>4 DEF SubmitRaises, TypeOK, LoopTypeOK, PCs, Goto, LeaveBody,
              LeaveSlice, JobOrNone, feeVars
<1>. QED BY <1>1, <1>2, <1>3, <1>4

LEMMA WaitSteps ==
  ASSUME TypeOK, WaitRead \/ WaitTimesOut
  PROVE  TypeOK'
<1>1. CASE WaitRead
  <2>1. ConnTypeOK'
    BY <1>1, ReadLineType DEF WaitRead, TypeOK, ConnTypeOK
  <2>2. pc' \in {"submit", "wait"} /\ counted' \in Nat
    BY <1>1 DEF WaitRead, Goto, TypeOK, LoopTypeOK
  <2>. QED BY <1>1, <2>1, <2>2 DEF WaitRead, TypeOK, LoopTypeOK, PCs, feeVars
<1>2. CASE WaitTimesOut
  <2>1. upsets' \in Nat
    BY <1>2, UpsetType DEF WaitTimesOut, ExpireSubmit, TypeOK
  <2>2. ConnTypeOK'
    BY <1>2, <2>1 DEF WaitTimesOut, ExpireSubmit, TypeOK, ConnTypeOK
  <2>. QED BY <1>2, <2>2 DEF WaitTimesOut, TypeOK, LoopTypeOK, PCs, Goto, feeVars
<1>. QED BY <1>1, <1>2

LEMMA CheckSteps ==
  ASSUME TypeOK, TakeReplacement \/ CheckJob \/ Polled \/ Advance
  PROVE  TypeOK'
<1>c. clientJob # NoJob => clientJob \in Job
  BY DEF TypeOK, ConnTypeOK, JobOrNone
<1>1. CASE TakeReplacement
  <2>1. ConnTypeOK'
    BY <1>1, TakeType DEF TypeOK, TakeReplacement
  <2>2. currentJob' \in Job
    BY <1>1, <1>c DEF TakeReplacement, Replaced
  <2>. QED BY <1>1, <2>1, <2>2 DEF TakeReplacement, TypeOK, LoopTypeOK, PCs, Goto, LeaveBody,
              LeaveSlice, JobOrNone, feeVars
<1>2. CASE CheckJob
  <2>1. ConnTypeOK'
    BY <1>2, TakeType DEF TypeOK, CheckJob
  <2>2. currentJob' \in Job
    BY <1>2, MergedType DEF CheckJob, TypeOK
  <2>. QED BY <1>2, <2>1, <2>2, NoJobAssumption DEF CheckJob, TypeOK, LoopTypeOK, PCs, Goto,
              JobOrNone, sliceVars, feeVars
<1>3. CASE Polled
  <2>1. ConnTypeOK'
    BY <1>3, ConnStutter DEF TypeOK, Polled
  <2>. QED BY <1>3, <2>1 DEF Polled, TypeOK, LoopTypeOK, PCs, Goto, sliceVars, feeVars
<1>4. CASE Advance
  <2>1. ConnTypeOK'
    BY <1>4, TakeType DEF TypeOK, Advance
  <2>2. Merged \in Job /\ NextStart \in Nat
    BY <1>4, MergedType, NextStartType DEF Advance, TypeOK
  <2>3. currentJob' \in Job
    BY <1>4, <2>2 DEF Advance, Advanced, Job
  <2>. QED BY <1>4, <2>1, <2>3 DEF Advance, TypeOK, LoopTypeOK, PCs, Goto, LeaveBody,
              LeaveSlice, JobOrNone, feeVars
<1>. QED BY <1>1, <1>2, <1>3, <1>4

LEMMA ReconnectSteps ==
  ASSUME TypeOK, Reconnect \/ ReconnectFails
  PROVE  TypeOK'
<1>1. CASE Reconnect
  <2>1. ConnTypeOK'
    BY <1>1, ConnectType DEF Reconnect, TypeOK
  <2>. QED BY <1>1, <2>1 DEF Reconnect, TypeOK, LoopTypeOK, PCs, Goto, JobOrNone,
              sliceVars, feeVars
<1>2. CASE ReconnectFails
  <2>1. upsets' \in Nat
    BY <1>2, UpsetType DEF ReconnectFails, TypeOK
  <2>2. ConnTypeOK'
    BY <1>2, <2>1 DEF ReconnectFails, TypeOK, ConnTypeOK, clientVars, ghostVars
  <2>. QED BY <1>2, <2>2 DEF ReconnectFails, TypeOK, LoopTypeOK, PCs, Goto, sliceVars, feeVars
<1>. QED BY <1>1, <1>2

LEMMA TypeStep == TypeOK /\ [Next]_vars => TypeOK'
<1> SUFFICES ASSUME TypeOK, [Next]_vars PROVE TypeOK'
  OBVIOUS
<1>1. CASE PoolStep
  <2>1. ConnTypeOK'
    BY <1>1, PoolType DEF PoolStep, TypeOK
  <2>. QED BY <1>1, <2>1 DEF PoolStep, TypeOK, LoopTypeOK, loopVars, sliceVars, feeVars
<1>2. CASE Slice
  BY <1>2, ScanSteps, ShareSteps, WaitSteps DEF Slice, ShareStep
<1>3. CASE UNCHANGED vars
  <2>1. ConnTypeOK'
    BY <1>3, ConnStutter DEF vars, TypeOK
  <2>. QED BY <1>3, <2>1 DEF vars, TypeOK, LoopTypeOK, loopVars, sliceVars, feeVars
<1>. QED BY <1>1, <1>2, <1>3, ReadSteps, TopSteps, CheckSteps, ReconnectSteps DEF Next, Loop

\* The types of PoolMiner are kept, and the loop never slices, polls or checks
\* without a current job.
THEOREM TypeCorrect == Spec => []TypeOK
<1>1. Init => TypeOK
  BY InitType
<1>2. TypeOK /\ [Next]_vars => TypeOK'
  BY TypeStep
<1>. QED BY <1>1, <1>2, PTL DEF Spec

-----------------------------------------------------------------------------
(* The payout identity. *)

\* The client names the dev only while a fee slice runs or a switch is still
\* to be repeated, and no slice runs while one is.
FeeInv ==
  /\ worker = "dev" => feeActive \/ feeDue
  /\ pc = "call" => worker = (IF feeActive THEN "user" ELSE "dev")
  /\ pc \in SlicePCs \cup {"check1", "poll", "check2"} => ~feeDue
  /\ DevOnlyInFeeSlice

LEMMA FeeInit == Init => FeeInv
BY Zenon DEF Init, ClientInit, FeeInv, DevOnlyInFeeSlice, SlicePCs

\* FeeInv survives a step that keeps the payout state and starts no slice.
LEMMA FeeKept ==
  ASSUME FeeInv, UNCHANGED <<worker, feeActive, feeDue, sent>>,
         \/ pc' \notin SlicePCs \cup {"call", "check1", "poll", "check2"}
         \/ pc' = "call" /\ pc = "call"
         \/ pc \in SlicePCs \cup {"check1", "poll", "check2"} /\ pc' # "call"
  PROVE  FeeInv'
BY DEF FeeInv, DevOnlyInFeeSlice, SlicePCs

\* A reconnected client is the user's, and has submitted nothing.
LEMMA FeeReset ==
  ASSUME FeeInv, Reconnect
  PROVE  FeeInv'
BY DEF FeeInv, DevOnlyInFeeSlice, SlicePCs, Reconnect, Connect, Goto

\* A share submitted in a slice carries the identity of the slice.
LEMMA FeeSubmit ==
  ASSUME FeeInv, NEW nonce, Submit(nonce) \/ SubmitRaises(nonce)
  PROVE  FeeInv'
<1>1. /\ pc = "submit" /\ pc' \in {"submit", "wait", "offline"}
      /\ SendSubmit(solveJob, nonce, feeActive)
      /\ UNCHANGED <<worker, feeActive, feeDue>>
  BY DEF Submit, SubmitRaises, SendSubmit, Submittable, ShareReady, MoreShares, Goto, feeVars
<1>2. ~feeDue /\ (worker = "dev" => feeActive)
  BY <1>1 DEF FeeInv, SlicePCs
<1>3. ASSUME NEW s \in sent', s.worker = "dev" PROVE s.fee
  <2>1. CASE s \in sent
    BY <1>3, <2>1, Zenon DEF FeeInv, DevOnlyInFeeSlice
  <2>2. CASE s \notin sent
    <3>1. s.worker = worker /\ s.fee = feeActive
      BY <1>1, <2>2 DEF SendSubmit
    <3>. QED BY <1>2, <1>3, <3>1, Zenon
  <2>. QED BY <2>1, <2>2
<1>4. DevOnlyInFeeSlice'
  BY <1>3, Zenon DEF DevOnlyInFeeSlice
<1>. QED BY <1>1, <1>2, <1>4 DEF FeeInv, SlicePCs

\* A switch names the new identity first; feeDue stays until it is granted.
LEMMA FeeSwitchStep ==
  ASSUME TypeOK, FeeInv, FeeSwitch \/ CallReply
  PROVE  FeeInv'
<1>1. CASE FeeSwitch
  <2>1. worker' = (IF feeActive THEN "user" ELSE "dev") /\ sent' = sent
    BY <1>1, Zenon DEF FeeSwitch, SendAuthorize
  <2>2. feeActive' = feeActive /\ feeDue' = TRUE /\ pc' \in {"call", "offline"}
    BY <1>1 DEF FeeSwitch, Goto
  <2>. QED BY <2>1, <2>2 DEF FeeInv, DevOnlyInFeeSlice, SlicePCs
<1>2. CASE CallReply
  <2>1. worker' = worker /\ sent' = sent /\ worker = (IF feeActive THEN "user" ELSE "dev")
    BY <1>2 DEF CallReply, clientVars, ghostVars, FeeInv
  <2>2. CASE SwitchGranted(Head(wire).verdict)
    <3>1. feeActive' = ~feeActive /\ feeDue' = FALSE /\ pc' = "slice"
      BY <1>2, <2>2, Zenon DEF CallReply, StartSlice, Goto
    <3>. QED BY <2>1, <3>1 DEF FeeInv, DevOnlyInFeeSlice, SlicePCs
  <2>3. CASE ~SwitchGranted(Head(wire).verdict)
    <3>1. feeActive' = feeActive /\ feeDue' = feeDue /\ pc' = "top"
      BY <1>2, <2>3, Zenon DEF CallReply, Goto
    <3>. QED BY <2>1, <3>1 DEF FeeInv, DevOnlyInFeeSlice, SlicePCs
  <2>. QED BY <2>2, <2>3
<1>. QED BY <1>1, <1>2

LEMMA FeeStep == TypeOK /\ FeeInv /\ [Next]_vars => FeeInv'
<1> SUFFICES ASSUME TypeOK, FeeInv, [Next]_vars PROVE FeeInv'
  OBVIOUS
<1>1. CASE PoolStep
  <2>1. UNCHANGED <<worker, sent, pc, feeActive, feeDue>>
    BY <1>1 DEF PoolStep, Pool, Announce, AnnounceSparse, Repeat, SendGarbage, Reply, Close,
       clientVars, ghostVars, loopVars, feeVars
  <2>. QED BY <2>1 DEF FeeInv, DevOnlyInFeeSlice, SlicePCs
<1>2. CASE HandshakeDone \/ Read \/ BadLine \/ LoseConnection \/ GetJob \/ CallRead
  <2>1. UNCHANGED <<worker, sent, feeActive, feeDue>>
    BY <1>2 DEF HandshakeDone, Read, BadLine, LoseConnection, GetJob, CallRead, ReadLine,
       ReadGarbage, Abort, connVars, clientVars, ghostVars, loopVars, feeVars
  <2>2. pc' = pc \/ pc' \in {"top", "offline"}
    BY <1>2 DEF HandshakeDone, Read, BadLine, LoseConnection, GetJob, CallRead, Abort, Goto,
       loopVars
  <2>. QED BY <2>1, <2>2, FeeKept DEF FeeInv, DevOnlyInFeeSlice, SlicePCs
<1>3. CASE FeeSwitch \/ CallReply
  BY <1>3, FeeSwitchStep
<1>4. CASE BeginSlice
  <2>1. UNCHANGED <<worker, sent, feeActive, feeDue>> /\ ~feeDue /\ pc' = "slice"
    BY <1>4 DEF BeginSlice, StartSlice, Goto, connVars, clientVars, ghostVars, feeVars
  <2>. QED BY <2>1 DEF FeeInv, DevOnlyInFeeSlice, SlicePCs
<1>5. CASE Slice
  <2>1. ASSUME NEW nonce \in found, Submit(nonce) \/ SubmitRaises(nonce) PROVE FeeInv'
    BY <2>1, FeeSubmit
  <2>2. ASSUME \/ SliceDrained \/ EndSlice \/ EndShares \/ WaitRead \/ WaitTimesOut
               \/ \E last \in cursor..(cursor + budget - 1) : last <= NonceCap /\ Scan(last)
               \/ \E nonce \in found : SkipShare(nonce) \/ DropStale(nonce)
        PROVE  FeeInv'
    <3>1. UNCHANGED <<worker, sent, feeActive, feeDue>>
      BY <2>2 DEF SliceDrained, EndSlice, EndShares, WaitRead, WaitTimesOut, Scan, SkipShare,
         DropStale, ReadLine, ExpireSubmit, connVars, clientVars, ghostVars, feeVars
    <3>2. pc \in SlicePCs /\ pc' # "call"
      BY <2>2 DEF SliceDrained, EndSlice, EndShares, WaitRead, WaitTimesOut, Scan, SkipShare,
         DropStale, Submittable, ShareReady, MoreShares, Goto, SlicePCs
    <3>. QED BY <3>1, <3>2, FeeKept
  <2>. QED BY <1>5, <2>1, <2>2 DEF Slice, ShareStep
<1>6. CASE TakeReplacement \/ CheckJob \/ Polled \/ Advance \/ ReconnectFails
  <2>1. UNCHANGED <<worker, sent, feeActive, feeDue>>
    BY <1>6 DEF TakeReplacement, CheckJob, Polled, Advance, ReconnectFails, connVars,
       clientVars, ghostVars, feeVars
  <2>2. pc \in {"check1", "check2", "poll", "offline"} /\ pc' # "call"
        /\ (pc = "offline" => pc' = "top")
    BY <1>6 DEF TakeReplacement, CheckJob, Polled, Advance, ReconnectFails, Goto
  <2>. QED BY <2>1, <2>2, FeeKept DEF SlicePCs
<1>7. CASE Reconnect
  BY <1>7, FeeReset
<1>8. CASE UNCHANGED vars
  BY <1>8 DEF vars, connVars, clientVars, ghostVars, loopVars, feeVars, FeeInv,
     DevOnlyInFeeSlice, SlicePCs
<1>. QED BY <1>1, <1>2, <1>3, <1>4, <1>5, <1>6, <1>7, <1>8 DEF Next, Loop

\* Whatever fails during a payout switch, a share goes out under the dev
\* address only inside a dev-fee slice.
THEOREM FeeCorrect == Spec => []DevOnlyInFeeSlice
<1>1. TypeOK /\ FeeInv /\ [Next]_vars => FeeInv'
  BY FeeStep
<1>2. FeeInv => DevOnlyInFeeSlice
  BY DEF FeeInv
<1>. QED BY <1>1, <1>2, FeeInit, TypeCorrect, PTL DEF Spec

-----------------------------------------------------------------------------
(* The share accounting. *)

CountInv ==
  /\ IsFiniteSet(sent) /\ IsFiniteSet(pending)
  /\ \A s \in sent : s.id <= lastId
  /\ \A id \in pending : id <= lastId
  /\ pc = "wait" => lastId \in pending
  /\ Accounting

countVars == <<sent, pending, lastId, accepted, rejected, expired>>

LEMMA CountInit == Init => CountInv
BY FS_EmptySet DEF Init, ClientInit, CountInv, Accounting

\* CountInv survives a step that counts nothing and starts no wait.
LEMMA CountKept ==
  ASSUME CountInv, UNCHANGED countVars, pc' = "wait" => pc = "wait"
  PROVE  CountInv'
BY DEF CountInv, Accounting, countVars

\* Reading a line counts an answer to a pending submit once.
LEMMA CountRead ==
  ASSUME TypeOK, CountInv, ReadLine,
         pc' = "wait" => pc = "wait" /\ ~AnswersPending(Head(wire))
  PROVE  CountInv'
<1>1. UNCHANGED <<sent, lastId, expired>>
  BY DEF ReadLine
<1>2. CASE AnswersPending(Head(wire)) /\ CompleteSubmit(Head(wire))
  <2> DEFINE id == Head(wire).id
  <2>1. id \in pending /\ pending' = pending \ {id}
    BY <1>2 DEF AnswersPending, CompleteSubmit
  <2>2. IsFiniteSet(pending') /\ Cardinality(pending') = Cardinality(pending) - 1
    BY <2>1, FS_RemoveElement DEF CountInv
  <2>3. accepted \in Nat /\ rejected \in Nat /\ expired \in Nat
    BY DEF TypeOK, ConnTypeOK
  <2>a. \/ accepted' = accepted + 1 /\ rejected' = rejected
        \/ accepted' = accepted /\ rejected' = rejected + 1
    BY <1>2 DEF CompleteSubmit
  <2>6. Cardinality(pending) \in Nat /\ Cardinality(sent) \in Nat
    BY FS_CardinalityType DEF CountInv
  <2>7. Accounting'
    BY <1>1, <2>2, <2>3, <2>6, <2>a DEF CountInv, Accounting
  <2>. QED BY <1>1, <1>2, <2>1, <2>2, <2>7 DEF CountInv, Accounting
<1>3. CASE UNCHANGED <<pending, accepted, rejected>>
  BY <1>1, <1>3, CountKept DEF countVars
<1>. QED BY <1>2, <1>3 DEF ReadLine, Dispatch, HandleJob

\* A submit adds one share and one pending id, both new.
LEMMA CountSubmit ==
  ASSUME TypeOK, CountInv, NEW nonce, Submit(nonce) \/ SubmitRaises(nonce)
  PROVE  CountInv'
<1>1. SendSubmit(solveJob, nonce, feeActive)
  BY DEF Submit, SubmitRaises
<1>2. /\ lastId' = lastId + 1 /\ lastId \in Nat
      /\ pending' = pending \cup {lastId + 1}
      /\ UNCHANGED <<accepted, rejected, expired>>
  BY <1>1 DEF SendSubmit, Transmit, TypeOK, ConnTypeOK
<1>3. PICK share : share.id = lastId + 1 /\ sent' = sent \cup {share}
  BY <1>1 DEF SendSubmit
<1>4. lastId + 1 \notin pending /\ share \notin sent
  BY <1>2, <1>3 DEF CountInv
<1>5. /\ IsFiniteSet(pending') /\ Cardinality(pending') = Cardinality(pending) + 1
      /\ IsFiniteSet(sent') /\ Cardinality(sent') = Cardinality(sent) + 1
  BY <1>2, <1>3, <1>4, FS_AddElement DEF CountInv
<1>6. /\ accepted \in Nat /\ rejected \in Nat /\ expired \in Nat
      /\ Cardinality(pending) \in Nat /\ Cardinality(sent) \in Nat
  BY FS_CardinalityType DEF CountInv, TypeOK, ConnTypeOK
<1>7. Accounting'
  BY <1>2, <1>5, <1>6 DEF CountInv, Accounting
<1>8. \A id \in pending' : id <= lastId'
  BY <1>2 DEF CountInv, TypeOK, ConnTypeOK
<1>9. \A s \in sent' : s.id <= lastId'
  BY <1>2, <1>3 DEF CountInv, TypeOK, ConnTypeOK, Share
<1>. QED BY <1>2, <1>5, <1>7, <1>8, <1>9 DEF CountInv

\* Giving up the awaited submit moves it from pending to expired.
LEMMA CountExpire ==
  ASSUME TypeOK, CountInv, WaitTimesOut
  PROVE  CountInv'
<1>1. /\ pc = "wait" /\ pc' = "submit"
      /\ pending' = pending \ {lastId} /\ expired' = expired + 1
      /\ UNCHANGED <<sent, lastId, accepted, rejected>>
  BY DEF WaitTimesOut, ExpireSubmit, Goto
<1>2. lastId \in pending
  BY <1>1 DEF CountInv
<1>3. IsFiniteSet(pending') /\ Cardinality(pending') = Cardinality(pending) - 1
  BY <1>1, <1>2, FS_RemoveElement DEF CountInv
<1>4. /\ accepted \in Nat /\ rejected \in Nat /\ expired \in Nat
      /\ Cardinality(pending) \in Nat /\ Cardinality(sent) \in Nat
  BY FS_CardinalityType DEF CountInv, TypeOK, ConnTypeOK
<1>5. Accounting'
  BY <1>1, <1>3, <1>4 DEF CountInv, Accounting
<1>. QED BY <1>1, <1>3, <1>5 DEF CountInv

LEMMA CountSwitch ==
  ASSUME TypeOK, CountInv, FeeSwitch
  PROVE  CountInv'
<1>1. /\ lastId' = lastId + 1 /\ lastId \in Nat /\ pc' # "wait"
      /\ UNCHANGED <<sent, pending, accepted, rejected, expired>>
  BY DEF FeeSwitch, SendAuthorize, Transmit, Goto, TypeOK, ConnTypeOK
<1>2. \A id \in pending : id <= lastId'
  BY <1>1 DEF CountInv, TypeOK, ConnTypeOK
<1>3. \A s \in sent : s.id <= lastId'
  BY <1>1 DEF CountInv, TypeOK, ConnTypeOK, Share
<1>. QED BY <1>1, <1>2, <1>3 DEF CountInv, Accounting

LEMMA CountReset ==
  ASSUME CountInv, Reconnect
  PROVE  CountInv'
BY FS_EmptySet DEF CountInv, Accounting, Reconnect, Connect, Goto

LEMMA CountStep == TypeOK /\ CountInv /\ [Next]_vars => CountInv'
<1> SUFFICES ASSUME TypeOK, CountInv, [Next]_vars PROVE CountInv'
  OBVIOUS
<1>1. CASE PoolStep
  <2>1. UNCHANGED countVars /\ pc' = pc
    BY <1>1 DEF PoolStep, Pool, Announce, AnnounceSparse, Repeat, SendGarbage, Reply, Close,
       clientVars, ghostVars, loopVars, countVars
  <2>. QED BY <2>1, CountKept
<1>2. CASE Read \/ CallRead \/ WaitRead
  <2>1. ReadLine /\ (pc' = "wait" => pc = "wait" /\ ~AnswersPending(Head(wire)))
    BY <1>2 DEF Read, CallRead, WaitRead, Draining, MoreShares, WantsJob, Abort, Goto, loopVars
  <2>. QED BY <2>1, CountRead
<1>3. CASE HandshakeDone \/ BadLine \/ LoseConnection \/ GetJob \/ CallReply \/ BeginSlice
  <2>1. UNCHANGED countVars /\ pc' # "wait"
    BY <1>3 DEF HandshakeDone, BadLine, LoseConnection, GetJob, CallReply, BeginSlice,
       StartSlice, ReadGarbage, Abort, Goto, connVars, clientVars, ghostVars, countVars
  <2>. QED BY <2>1, CountKept
<1>4. CASE FeeSwitch
  BY <1>4, CountSwitch
<1>5. CASE Slice
  <2>1. ASSUME NEW nonce \in found, Submit(nonce) \/ SubmitRaises(nonce) PROVE CountInv'
    BY <2>1, CountSubmit
  <2>2. ASSUME \/ SliceDrained \/ EndSlice \/ EndShares
               \/ \E last \in cursor..(cursor + budget - 1) : last <= NonceCap /\ Scan(last)
               \/ \E nonce \in found : SkipShare(nonce) \/ DropStale(nonce)
        PROVE  CountInv'
    <3>1. UNCHANGED countVars /\ (pc' = "wait" => pc = "wait")
      BY <2>2 DEF SliceDrained, EndSlice, EndShares, Scan, SkipShare, DropStale, Goto,
         connVars, clientVars, ghostVars, countVars
    <3>. QED BY <3>1, CountKept
  <2>3. CASE WaitTimesOut
    BY <2>3, CountExpire
  <2>. QED BY <1>2, <1>5, <2>1, <2>2, <2>3 DEF Slice, ShareStep
<1>6. CASE TakeReplacement \/ CheckJob \/ Polled \/ Advance \/ ReconnectFails
  <2>1. UNCHANGED countVars /\ pc' # "wait"
    BY <1>6 DEF TakeReplacement, CheckJob, Polled, Advance, ReconnectFails, Goto, connVars,
       clientVars, ghostVars, countVars
  <2>. QED BY <2>1, CountKept
<1>7. CASE Reconnect
  BY <1>7, CountReset
<1>8. CASE UNCHANGED vars
  BY <1>8, CountKept DEF vars, connVars, clientVars, ghostVars, loopVars, countVars
<1>. QED BY <1>1, <1>2, <1>3, <1>4, <1>5, <1>6, <1>7, <1>8 DEF Next, Loop

\* accepted + rejected + given up + pending is the number of shares submitted.
THEOREM CountCorrect == Spec => []Accounting
<1>1. TypeOK /\ CountInv /\ [Next]_vars => CountInv'
  BY CountStep
<1>2. CountInv => Accounting
  BY DEF CountInv
<1>. QED BY <1>1, <1>2, CountInit, TypeCorrect, PTL DEF Spec

-----------------------------------------------------------------------------
(* Answers. *)

Answered(id) == \E i \in 1..Len(wire) : wire[i].kind = "answer" /\ wire[i].id = id

AnswerInv ==
  /\ \A id \in pending : id <= lastId
  /\ pc = "call" => callId \notin pending
  /\ NoAnswerLost

Submitted(id) == [id |-> id, kind |-> "submit"] \in atPool

LEMMA AnswerInit == Init => AnswerInv
BY DEF Init, ClientInit, AnswerInv, NoAnswerLost

LEMMA AnswerForms ==
  ASSUME AnswerInv, open, NEW id \in pending
  PROVE  Submitted(id) \/ Answered(id)
BY DEF AnswerInv, NoAnswerLost, Submitted, Answered

\* AnswerInv survives a step that neither submits nor reads.
LEMMA AnswerKept ==
  ASSUME TypeOK, AnswerInv, pending' \subseteq pending, lastId <= lastId',
         open' => open,
         \A id \in pending' : Submitted(id) => Submitted(id)' \/ Answered(id)',
         \A id \in pending' : Answered(id) => Answered(id)',
         pc' = "call" => (pc = "call" /\ callId' = callId) \/ callId' \notin pending,
         lastId' \in Nat
  PROVE  AnswerInv'
<1>1. \A id \in pending' : id <= lastId'
  BY DEF AnswerInv, TypeOK, ConnTypeOK
<1>2. ASSUME open', NEW id \in pending' PROVE Submitted(id)' \/ Answered(id)'
  BY <1>2, AnswerForms
<1>3. NoAnswerLost'
  BY <1>2 DEF NoAnswerLost, Submitted, Answered
<1>. QED BY <1>1, <1>3 DEF AnswerInv

\* A line that is appended hides no answer.
LEMMA AnswerAppend ==
  ASSUME TypeOK, NEW line, wire' = Append(wire, line), NEW id, Answered(id)
  PROVE  Answered(id)'
<1>1. PICK i \in 1..Len(wire) : wire[i].kind = "answer" /\ wire[i].id = id
  BY DEF Answered
<1>2. i \in 1..Len(wire') /\ wire'[i] = wire[i]
  BY <1>1 DEF TypeOK, ConnTypeOK
<1>. QED BY <1>1, <1>2 DEF Answered

\* A line that is read hides no answer but its own.
LEMMA AnswerTail ==
  ASSUME TypeOK, wire # <<>>, wire' = Tail(wire), NEW id, Answered(id),
         ~(Head(wire).kind = "answer" /\ Head(wire).id = id)
  PROVE  Answered(id)'
<1>1. PICK i \in 1..Len(wire) : wire[i].kind = "answer" /\ wire[i].id = id
  BY DEF Answered
<1>2. i # 1
  BY <1>1 DEF TypeOK, ConnTypeOK
<1>3. i - 1 \in 1..Len(wire') /\ wire'[i - 1] = wire[i]
  BY <1>1, <1>2 DEF TypeOK, ConnTypeOK
<1>. QED BY <1>1, <1>3 DEF Answered

LEMMA AnswerPool ==
  ASSUME TypeOK, AnswerInv, PoolStep
  PROVE  AnswerInv'
<1>1. /\ pc' = pc /\ callId' = callId /\ pending' = pending /\ lastId' = lastId
      /\ lastId \in Nat
  BY DEF PoolStep, Pool, Announce, AnnounceSparse, Repeat, SendGarbage, Reply, Close,
     clientVars, loopVars, feeVars, TypeOK, ConnTypeOK
<1>2. CASE Close
  <2>1. open' = FALSE /\ wire' = wire
    BY <1>2 DEF Close
  <2>2. NoAnswerLost'
    BY <2>1, Zenon DEF NoAnswerLost
  <2>. QED BY <1>1, <2>2 DEF AnswerInv
<1>3. ASSUME NEW r \in atPool, NEW v \in Verdicts, Reply(r, v) PROVE AnswerInv'
  <2>1. open' = open /\ wire' = Append(wire, Answer(r.id, v)) /\ atPool' = atPool \ {r}
    BY <1>3 DEF Reply, Deliver
  <2>2. ASSUME NEW id \in pending, Submitted(id) PROVE Submitted(id)' \/ Answered(id)'
    <3>1. CASE r = [id |-> id, kind |-> "submit"]
      <4>1. Len(wire') = Len(wire) + 1 /\ Len(wire) \in Nat
            /\ wire'[Len(wire) + 1] = Answer(id, v)
        BY <2>1, <3>1 DEF TypeOK, ConnTypeOK
      <4>. QED BY <4>1 DEF Answered, Answer
    <3>2. CASE r # [id |-> id, kind |-> "submit"]
      BY <2>1, <2>2, <3>2 DEF Submitted
    <3>. QED BY <3>1, <3>2
  <2>3. \A id \in pending : Answered(id) => Answered(id)'
    BY <2>1, AnswerAppend
  <2>. QED BY <1>1, <2>1, <2>2, <2>3, AnswerKept
<1>4. CASE \E line : wire' = Append(wire, line) /\ open' = open /\ atPool' = atPool
  <2>1. \A id \in pending : Answered(id) => Answered(id)'
    BY <1>4, AnswerAppend
  <2>2. \A id \in pending : Submitted(id) => Submitted(id)'
    BY <1>4 DEF Submitted
  <2>. QED BY <1>1, <1>4, <2>1, <2>2, AnswerKept
<1>5. \/ Close
      \/ \E r \in atPool, v \in Verdicts : Reply(r, v)
      \/ \E line : wire' = Append(wire, line) /\ open' = open /\ atPool' = atPool
  <2>1. CASE Pool
    BY <2>1, Zenon DEF Pool, Announce, AnnounceSparse, Repeat, Deliver
  <2>2. CASE SendGarbage
    BY <2>2, Zenon DEF SendGarbage, Deliver
  <2>. QED BY <2>1, <2>2 DEF PoolStep
<1>. QED BY <1>2, <1>3, <1>4, <1>5

\* Whoever reads the stream, the answer to a pending submit is completed.
LEMMA AnswerRead ==
  ASSUME TypeOK, AnswerInv, ReadLine, pc' = "call" => pc = "call" /\ callId' = callId
  PROVE  AnswerInv'
<1>1. /\ UNCHANGED <<open, atPool, lastId>> /\ wire' = Tail(wire) /\ wire # <<>>
      /\ lastId \in Nat
  BY DEF ReadLine, Readable, TypeOK, ConnTypeOK
<1>2. /\ pending' \subseteq pending
      /\ AnswersPending(Head(wire)) => Head(wire).id \notin pending'
  BY DEF ReadLine, Dispatch, CompleteSubmit, HandleJob, AnswersPending, TypeOK, ConnTypeOK, Line
<1>3. ASSUME NEW id \in pending', Answered(id) PROVE Answered(id)'
  <2>1. ~(Head(wire).kind = "answer" /\ Head(wire).id = id)
    BY <1>2 DEF AnswersPending
  <2>. QED BY <1>1, <1>3, <2>1, AnswerTail
<1>4. \A id \in pending' : Submitted(id) => Submitted(id)'
  BY <1>1 DEF Submitted
<1>. QED BY <1>1, <1>2, <1>3, <1>4, AnswerKept

\* AnswerInv survives a step that leaves requests and answers where they are.
LEMMA AnswerStutter ==
  ASSUME TypeOK, AnswerInv, UNCHANGED <<open, wire, atPool, lastId>>,
         pending' \subseteq pending, pc' # "call" \/ (pc = "call" /\ callId' = callId)
  PROVE  AnswerInv'
<1>1. \A id \in pending' : (Submitted(id) => Submitted(id)') /\ (Answered(id) => Answered(id)')
  BY DEF Submitted, Answered
<1>2. lastId \in Nat
  BY DEF TypeOK, ConnTypeOK
<1>. QED BY <1>1, <1>2, AnswerKept

\* A request is added to those at the pool, under a fresh id.
LEMMA AnswerSend ==
  ASSUME TypeOK, AnswerInv, FeeSwitch \/ \E nonce : Submit(nonce)
  PROVE  AnswerInv'
<1>1. /\ open' = open /\ wire' = wire /\ lastId' = lastId + 1 /\ lastId \in Nat
      /\ open => atPool \subseteq atPool'
  BY DEF FeeSwitch, SendAuthorize, Submit, SendSubmit, Transmit, TypeOK, ConnTypeOK
<1>2. \A id \in pending : id <= lastId' /\ id # lastId + 1
  BY <1>1 DEF AnswerInv, TypeOK, ConnTypeOK
<1>3. \A id \in pending : open => (Submitted(id) => Submitted(id)') /\ (Answered(id) => Answered(id)')
  BY <1>1 DEF Submitted, Answered
<1>4. CASE FeeSwitch
  <2>1. pending' = pending /\ callId' = lastId + 1
    BY <1>4 DEF FeeSwitch, SendAuthorize
  <2>2. ASSUME open', NEW id \in pending' PROVE Submitted(id)' \/ Answered(id)'
    BY <1>1, <1>3, <2>1, <2>2, AnswerForms
  <2>3. NoAnswerLost'
    BY <2>2 DEF NoAnswerLost, Submitted, Answered
  <2>. QED BY <1>2, <2>1, <2>3 DEF AnswerInv
<1>5. ASSUME NEW nonce, Submit(nonce) PROVE AnswerInv'
  <2>1. /\ pending' = pending \cup {lastId + 1} /\ pc' # "call"
        /\ open => [id |-> lastId + 1, kind |-> "submit"] \in atPool'
    BY <1>5 DEF Submit, SendSubmit, Transmit, Submittable, ShareReady, MoreShares, Goto
  <2>2. ASSUME open', NEW id \in pending' PROVE Submitted(id)' \/ Answered(id)'
    <3>1. CASE id \in pending
      BY <1>1, <1>3, <2>2, <3>1, AnswerForms
    <3>2. CASE id = lastId + 1
      BY <1>1, <2>1, <2>2, <3>2 DEF Submitted
    <3>. QED BY <2>1, <3>1, <3>2
  <2>3. NoAnswerLost'
    BY <2>2 DEF NoAnswerLost, Submitted, Answered
  <2>. QED BY <1>1, <1>2, <2>1, <2>3 DEF AnswerInv
<1>. QED BY <1>4, <1>5

\* The write that fails closes the stream.
LEMMA AnswerRaise ==
  ASSUME TypeOK, AnswerInv, NEW nonce, SubmitRaises(nonce)
  PROVE  AnswerInv'
<1>1. /\ open' = FALSE /\ lastId' = lastId + 1 /\ lastId \in Nat /\ pc' # "call"
      /\ pending' = pending \cup {lastId + 1}
  BY DEF SubmitRaises, SendSubmit, Transmit, Goto, TypeOK, ConnTypeOK
<1>2. \A id \in pending' : id <= lastId'
  BY <1>1 DEF AnswerInv, TypeOK, ConnTypeOK
<1>3. NoAnswerLost'
  BY <1>1, Zenon DEF NoAnswerLost
<1>. QED BY <1>1, <1>2, <1>3 DEF AnswerInv

\* A line nobody completes: the reply of the switch, or garbage.
LEMMA AnswerDiscard ==
  ASSUME TypeOK, AnswerInv, CallReply \/ BadLine
  PROVE  AnswerInv'
<1>1. /\ wire # <<>> /\ wire' = Tail(wire) /\ lastId \in Nat
      /\ UNCHANGED <<open, atPool, pending, lastId>> /\ pc' # "call"
  BY DEF CallReply, StartSlice, BadLine, ReadGarbage, Abort, Goto, clientVars, TypeOK, ConnTypeOK
<1>2. ASSUME NEW id \in pending PROVE ~(Head(wire).kind = "answer" /\ Head(wire).id = id)
  BY <1>2 DEF AnswerInv, CallReply, IsReply, BadLine, ReadGarbage
<1>3. \A id \in pending : Answered(id) => Answered(id)'
  BY <1>1, <1>2, AnswerTail
<1>4. \A id \in pending : Submitted(id) => Submitted(id)'
  BY <1>1 DEF Submitted
<1>. QED BY <1>1, <1>3, <1>4, AnswerKept

LEMMA AnswerStep == TypeOK /\ AnswerInv /\ [Next]_vars => AnswerInv'
<1> SUFFICES ASSUME TypeOK, AnswerInv, [Next]_vars PROVE AnswerInv'
  OBVIOUS
<1>1. CASE PoolStep
  BY <1>1, AnswerPool
<1>2. CASE Read \/ CallRead \/ WaitRead
  <2>1. ReadLine /\ (pc' = "call" => pc = "call" /\ callId' = callId)
    BY <1>2 DEF Read, CallRead, WaitRead, Abort, Goto, loopVars, feeVars
  <2>. QED BY <2>1, AnswerRead
<1>3. CASE CallReply \/ BadLine
  BY <1>3, AnswerDiscard
<1>4. CASE FeeSwitch
  BY <1>4, AnswerSend
<1>5. CASE HandshakeDone \/ LoseConnection \/ GetJob \/ BeginSlice
  <2>1. UNCHANGED <<open, wire, atPool, lastId, pending>> /\ pc' # "call"
    BY <1>5 DEF HandshakeDone, LoseConnection, GetJob, BeginSlice, StartSlice, Goto, connVars,
       poolVars, clientVars
  <2>. QED BY <2>1, AnswerStutter
<1>6. CASE Slice
  <2>1. ASSUME NEW nonce \in found, Submit(nonce) \/ SubmitRaises(nonce) PROVE AnswerInv'
    BY <2>1, AnswerSend, AnswerRaise
  <2>2. ASSUME \/ SliceDrained \/ EndSlice \/ EndShares \/ WaitTimesOut
               \/ \E last \in cursor..(cursor + budget - 1) : last <= NonceCap /\ Scan(last)
               \/ \E nonce \in found : SkipShare(nonce) \/ DropStale(nonce)
        PROVE  AnswerInv'
    <3>1. /\ UNCHANGED <<open, wire, atPool, lastId>> /\ pending' \subseteq pending
          /\ pc' # "call"
      BY <2>2 DEF SliceDrained, EndSlice, EndShares, WaitTimesOut, ExpireSubmit, Scan, SkipShare,
         DropStale, Submittable, ShareReady, MoreShares, Goto, connVars, poolVars, clientVars
    <3>. QED BY <3>1, AnswerStutter
  <2>. QED BY <1>2, <1>6, <2>1, <2>2 DEF Slice, ShareStep
<1>7. CASE TakeReplacement \/ CheckJob \/ Polled \/ Advance \/ ReconnectFails
  <2>1. UNCHANGED <<open, wire, atPool, lastId, pending>> /\ pc' # "call"
    BY <1>7 DEF TakeReplacement, CheckJob, Polled, Advance, ReconnectFails, Goto, connVars,
       poolVars, clientVars
  <2>. QED BY <2>1, AnswerStutter
<1>8. CASE Reconnect
  BY <1>8 DEF AnswerInv, NoAnswerLost, Reconnect, Connect, Goto
<1>9. CASE UNCHANGED vars
  <2>1. /\ UNCHANGED <<open, wire, atPool, lastId, pending, pc, callId>>
    BY <1>9 DEF vars, connVars, poolVars, clientVars, loopVars, feeVars
  <2>. QED BY <2>1, AnswerStutter
<1>. QED BY <1>1, <1>2, <1>3, <1>4, <1>5, <1>6, <1>7, <1>8, <1>9 DEF Next, Loop

\* A pending submit is at the pool or its answer is on the wire: neither the
\* drain nor get_job nor _call loses it.
THEOREM AnswerCorrect == Spec => []NoAnswerLost
<1>1. TypeOK /\ AnswerInv /\ [Next]_vars => AnswerInv'
  BY AnswerStep
<1>2. AnswerInv => NoAnswerLost
  BY DEF AnswerInv
<1>. QED BY <1>1, <1>2, AnswerInit, TypeCorrect, PTL DEF Spec

=============================================================================

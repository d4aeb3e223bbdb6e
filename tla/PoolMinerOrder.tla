--------------------------- MODULE PoolMinerOrder ---------------------------
(***************************************************************************)
(* Machine-checked proofs that rest on the order of jobs: the miner never  *)
(* goes back to an older job of the connection, so that no connection      *)
(* submits a share twice, and LuckyPool gets no share for a superseded     *)
(* parent.                                                                 *)
(***************************************************************************)
EXTENDS PoolMinerProofs

\* A job under the id and parent it has among the announced ones.
Genuine(jobs, job) ==
  job.id \in 1..Len(jobs) /\ SameParent(job, jobs[job.id])

\* Job a comes after job number n of the connection; a repeat may equal it.
Later(n, a) == n < a \/ (Repeats /\ n = a)

Numbered == \A i \in 1..Len(announced) : announced[i].id = i

\* The jobs on the wire come after those read, in their order.
WireOrder ==
  \A i \in 1..Len(wire) : wire[i].kind = "job" =>
    /\ Genuine(announced, wire[i].job)
    /\ Later(newest, wire[i].job.id)
    /\ \A j \in 1..(i - 1) : wire[j].kind = "job" => Later(wire[j].job.id, wire[i].job.id)

\* The unread job is the last one read, and the job mined is that or an
\* earlier one.
ReadOrder ==
  /\ newest \in 0..Len(announced)
  /\ clientJob # NoJob => Genuine(announced, clientJob) /\ clientJob.id = newest
  /\ currentJob # NoJob =>
       /\ Genuine(announced, currentJob)
       /\ clientJob = NoJob => currentJob.id = newest
       /\ clientJob # NoJob => Later(currentJob.id, newest)

LoopOrder ==
  /\ pc \in SlicePCs => solveJob = currentJob
  /\ pc = "handshake" => currentJob = NoJob

OrderInv == Numbered /\ WireOrder /\ ReadOrder /\ LoopOrder

-----------------------------------------------------------------------------

LEMMA LaterTrans ==
  ASSUME NEW a \in Nat, NEW b \in Nat, NEW c \in Nat, Later(a, b), Later(b, c)
  PROVE  Later(a, c)
BY DEF Later

\* Routing and merging a job keep its id and parent.
LEMMA RoutedParent ==
  ASSUME ConnTypeOK, NEW job \in Job
  PROVE  Routed(job).id = job.id /\ SameParent(Routed(job), job)
BY DEF ConnTypeOK, Routed, AfterLuckyJob, AfterNotify, InheritSparse, SameParent, JobOrNone, Job

LEMMA MergedParent ==
  ASSUME NEW a \in Job, NEW b \in Job
  PROVE  MergeFrom(a, b).id = b.id /\ SameParent(MergeFrom(a, b), b)
BY DEF MergeFrom, SameParent, Job

LEMMA GenuineParent ==
  ASSUME NEW a, NEW b, Genuine(announced, b), a.id = b.id, SameParent(a, b)
  PROVE  Genuine(announced, a)
BY DEF Genuine, SameParent

\* The pool only adds jobs.
LEMMA GenuineKept ==
  ASSUME TypeOK, NEW job, Genuine(announced, job),
         announced' = announced \/ \E x : announced' = Append(announced, x)
  PROVE  Genuine(announced', job)
BY DEF Genuine, TypeOK, ConnTypeOK

LEMMA OrderInit == Init => OrderInv
<1> SUFFICES ASSUME Init PROVE OrderInv
  OBVIOUS
<1> USE PoolAssumption, LaneSizeAssumption
<1>1. /\ Len(announced) = 1 /\ announced[1].id = 1
      /\ wire = <<JobLine(announced[1])>> /\ newest = 0
      /\ clientJob = NoJob /\ currentJob = NoJob /\ pc = "handshake"
  BY DEF Init, ClientInit
<1>2. Len(wire) = 1 /\ wire[1].job = announced[1]
  BY <1>1 DEF JobLine
<1>3. Genuine(announced, announced[1])
  BY <1>1 DEF Genuine, SameParent
<1>4. WireOrder
  BY <1>1, <1>2, <1>3 DEF WireOrder, Later
<1>. QED BY <1>1, <1>4 DEF OrderInv, Numbered, ReadOrder, LoopOrder, SlicePCs

-----------------------------------------------------------------------------
(* One lemma per way the stream changes. *)

\* The pool adds a line; a job it adds is its newest.
LEMMA OrderAppend ==
  ASSUME TypeOK, OrderInv, UNCHANGED <<newest, clientJob, loopVars>>, Numbered',
         announced' = announced \/ \E x : announced' = Append(announced, x),
         NEW line, wire' = Append(wire, line),
         line.kind = "job" =>
           /\ Genuine(announced', line.job)
           /\ Later(newest, line.job.id)
           /\ \A j \in 1..Len(wire) : wire[j].kind = "job" => Later(wire[j].job.id, line.job.id)
  PROVE  OrderInv'
<1>1. /\ wire \in Seq(Line) /\ Len(wire') = Len(wire) + 1 /\ Len(wire) \in Nat
      /\ wire'[Len(wire) + 1] = line
      /\ \A i \in 1..Len(wire) : wire'[i] = wire[i]
  BY DEF TypeOK, ConnTypeOK
<1>2. ASSUME NEW i \in 1..Len(wire'), wire'[i].kind = "job"
      PROVE  /\ Genuine(announced', wire'[i].job)
             /\ Later(newest, wire'[i].job.id)
             /\ \A j \in 1..(i - 1) :
                  wire'[j].kind = "job" => Later(wire'[j].job.id, wire'[i].job.id)
  <2>1. CASE i = Len(wire) + 1
    <3>1. \A j \in 1..(i - 1) : wire'[j] = wire[j] /\ j \in 1..Len(wire)
      BY <1>1, <2>1
    <3>. QED BY <1>1, <1>2, <2>1, <3>1
  <2>2. CASE i \in 1..Len(wire)
    <3>1. \A j \in 1..(i - 1) : wire'[j] = wire[j]
      BY <1>1, <2>2
    <3>2. Genuine(announced, wire[i].job) /\ Genuine(announced', wire[i].job)
      BY <1>1, <1>2, <2>2, GenuineKept DEF OrderInv, WireOrder
    <3>. QED BY <1>1, <1>2, <2>2, <3>1, <3>2 DEF OrderInv, WireOrder
  <2>. QED BY <1>1, <2>1, <2>2
<1>3. WireOrder'
  BY <1>2, Zenon DEF WireOrder, Later
<1>4. Len(announced) \in Nat /\ Len(announced') \in Nat /\ Len(announced) <= Len(announced')
  BY DEF TypeOK, ConnTypeOK
<1>5. ReadOrder'
  <2>1. newest' \in 0..Len(announced')
    BY <1>4 DEF OrderInv, ReadOrder
  <2>2. clientJob # NoJob => Genuine(announced', clientJob)
    BY GenuineKept DEF OrderInv, ReadOrder
  <2>3. currentJob # NoJob => Genuine(announced', currentJob)
    BY GenuineKept DEF OrderInv, ReadOrder
  <2>4. currentJob' = currentJob
    BY DEF loopVars
  <2>. QED BY <2>1, <2>2, <2>3, <2>4 DEF OrderInv, ReadOrder, Later, Genuine
<1>6. LoopOrder'
  BY DEF OrderInv, LoopOrder, loopVars, sliceVars
<1>. QED BY <1>3, <1>5, <1>6 DEF OrderInv

\* A line leaves the wire; n is the last job read after it.
LEMMA WireTail ==
  ASSUME TypeOK, WireOrder, wire # <<>>, wire' = Tail(wire), announced' = announced,
         newest' = (IF Head(wire).kind = "job" THEN Head(wire).job.id ELSE newest)
  PROVE  WireOrder'
<1>1. /\ wire \in Seq(Line) /\ Len(wire) \in Nat \ {0} /\ Len(wire') = Len(wire) - 1
      /\ Head(wire) = wire[1]
      /\ \A i \in 1..Len(wire') : wire'[i] = wire[i + 1] /\ i + 1 \in 1..Len(wire)
  BY DEF TypeOK, ConnTypeOK
<1>2. ASSUME NEW i \in 1..Len(wire'), wire'[i].kind = "job"
      PROVE  /\ Genuine(announced', wire'[i].job)
             /\ Later(newest', wire'[i].job.id)
             /\ \A j \in 1..(i - 1) :
                  wire'[j].kind = "job" => Later(wire'[j].job.id, wire'[i].job.id)
  <2>1. /\ wire'[i] = wire[i + 1] /\ i + 1 \in 1..Len(wire) /\ 1 \in 1..i
        /\ \A j \in 1..(i - 1) : wire'[j] = wire[j + 1] /\ j + 1 \in 1..i
    BY <1>1
  <2>2. /\ Genuine(announced, wire[i + 1].job)
        /\ Later(newest, wire[i + 1].job.id)
        /\ \A j \in 1..i : wire[j].kind = "job" => Later(wire[j].job.id, wire[i + 1].job.id)
    BY <1>2, <2>1 DEF WireOrder
  <2>3. Genuine(announced', wire'[i].job)
    BY <2>1, <2>2
  <2>4. Later(newest', wire'[i].job.id)
    BY <1>1, <2>1, <2>2
  <2>. QED BY <2>1, <2>2, <2>3, <2>4
<1>. QED BY <1>2, Zenon DEF WireOrder, Later

LEMMA OrderPool ==
  ASSUME TypeOK, OrderInv, PoolStep
  PROVE  OrderInv'
<1>n. /\ announced \in Seq(Job) /\ Len(announced) \in Nat \ {0} /\ newest <= Len(announced)
      /\ newest \in Nat /\ Numbered /\ Newest \in Job
  BY NewestType DEF TypeOK, ConnTypeOK, OrderInv, ReadOrder
<1>w. \A j \in 1..Len(wire) : wire[j].kind = "job" => wire[j].job.id \in 1..Len(announced)
  BY DEF OrderInv, WireOrder, Genuine
<1>l. UNCHANGED <<newest, clientJob, loopVars>>
  BY DEF PoolStep, Pool, Announce, AnnounceSparse, Repeat, SendGarbage, Reply, Close,
     clientVars, ghostVars
\* The line of a job just numbered comes after every other.
<1>a. ASSUME NEW job \in Job, NEW shown \in Job, job.id = Len(announced) + 1,
             shown.id = job.id, SameParent(shown, job),
             announced' = Append(announced, job), wire' = Append(wire, JobLine(shown))
      PROVE  OrderInv'
  <2>1. /\ Len(announced') = Len(announced) + 1 /\ announced'[Len(announced) + 1] = job
        /\ \A i \in 1..Len(announced) : announced'[i] = announced[i]
    BY <1>a, <1>n
  <2>2. Numbered'
    BY <1>a, <1>n, <2>1 DEF Numbered
  <2>3. Genuine(announced', shown)
    BY <1>a, <1>n, <2>1 DEF Genuine
  <2>4. Later(newest, shown.id)
    BY <1>a, <1>n DEF Later
  <2>5. \A j \in 1..Len(wire) : wire[j].kind = "job" => Later(wire[j].job.id, shown.id)
    BY <1>a, <1>n, <1>w DEF Later
  <2>6. JobLine(shown).kind = "job" /\ JobLine(shown).job = shown
    BY DEF JobLine
  <2>. QED BY <1>a, <1>l, <2>2, <2>3, <2>4, <2>5, <2>6, OrderAppend
<1>1. ASSUME NEW h \in {Newest.height, Newest.height + 1}, NEW b \in Branches,
             NEW s \in Starts, Announce(h, b, s)
      PROVE  OrderInv'
  <2>1. FullJob(h, b, s) \in Job /\ FullJob(h, b, s).id = Len(announced) + 1
    <3>1. h \in Nat /\ ConnTypeOK
      <4>1. Newest.height \in Nat
        BY <1>n DEF Job
      <4>2. h \in Nat
        BY <4>1
      <4>. QED BY <4>2 DEF TypeOK
    <3>. QED BY <3>1, FullJobType
  <2>2. announced' = Append(announced, FullJob(h, b, s)) /\ wire' = Append(wire, JobLine(FullJob(h, b, s)))
    BY <1>1 DEF Announce, Deliver
  <2>. QED BY <1>a, <2>1, <2>2 DEF SameParent
<1>o. ASSUME NEW job \in Job, NEW fields
      PROVE  Omit(job, fields) \in Job /\ Omit(job, fields).id = job.id
             /\ SameParent(Omit(job, fields), job)
  BY OmitType DEF SameParent
<1>2. ASSUME NEW fields \in Sparse, AnnounceSparse(fields) PROVE OrderInv'
  <2> DEFINE job == [Newest EXCEPT !.id = Len(announced) + 1]
  <2>a. Newest \in Job /\ Len(announced) + 1 \in Nat
    BY <1>n
  <2>b. job \in Job
    BY <2>a DEF Job
  <2>1. job \in Job /\ job.id = Len(announced) + 1
    BY <2>a, <2>b DEF Job
  <2> HIDE DEF job
  <2>2. Omit(job, fields) \in Job /\ Omit(job, fields).id = job.id
        /\ SameParent(Omit(job, fields), job)
    BY <2>1, <1>o
  <2>3. announced' = Append(announced, job) /\ wire' = Append(wire, JobLine(Omit(job, fields)))
    BY <1>2 DEF AnnounceSparse, Deliver, job
  <2>. QED BY <1>a, <2>1, <2>2, <2>3
<1>3. CASE Repeat
  <2>1. /\ announced' = announced /\ wire' = Append(wire, JobLine(Newest)) /\ Repeats
        /\ Newest.id = Len(announced)
    BY <1>3, <1>n DEF Repeat, Deliver, Newest, Numbered
  <2>2. Genuine(announced', Newest)
    BY <1>n, <2>1 DEF Genuine, SameParent, Newest
  <2>3. Later(newest, Newest.id)
    BY <1>n, <2>1 DEF Later
  <2>4. \A j \in 1..Len(wire) : wire[j].kind = "job" => Later(wire[j].job.id, Newest.id)
    BY <1>n, <1>w, <2>1 DEF Later
  <2>5. JobLine(Newest).kind = "job" /\ JobLine(Newest).job = Newest
    BY DEF JobLine
  <2>6. Numbered'
    BY <1>n, <2>1 DEF Numbered
  <2>. QED BY <1>l, <2>1, <2>2, <2>3, <2>4, <2>5, <2>6, OrderAppend
<1>4. ASSUME NEW line, line.kind # "job", announced' = announced, wire' = Append(wire, line)
      PROVE  OrderInv'
  <2>1. Numbered'
    BY <1>4, <1>n DEF Numbered
  <2>. QED BY <1>4, <1>l, <2>1, OrderAppend
<1>5. CASE SendGarbage
  BY <1>5, <1>4 DEF SendGarbage, Deliver, Garbage
<1>6. ASSUME NEW r \in atPool, NEW v \in Verdicts, Reply(r, v) PROVE OrderInv'
  BY <1>6, <1>4 DEF Reply, Deliver, Answer
<1>7. CASE Close
  <2>1. UNCHANGED <<announced, wire>>
    BY <1>7 DEF Close
  <2>. QED BY <1>l, <2>1 DEF OrderInv, Numbered, WireOrder, ReadOrder, LoopOrder, Later,
              loopVars, sliceVars
<1>. QED BY <1>1, <1>2, <1>3, <1>5, <1>6, <1>7 DEF PoolStep, Pool

\* Reading a line: a job read is later than the one being mined.
LEMMA OrderRead ==
  ASSUME TypeOK, OrderInv, ReadLine, currentJob' = currentJob, LoopOrder'
  PROVE  OrderInv'
<1>1. /\ wire # <<>> /\ wire' = Tail(wire) /\ announced' = announced
      /\ wire \in Seq(Line) /\ Len(wire) \in Nat \ {0} /\ Head(wire) = wire[1] /\ 1 \in 1..Len(wire)
      /\ Head(wire) \in Line
  BY DEF ReadLine, Readable, TypeOK, ConnTypeOK
<1>2. Numbered'
  BY <1>1 DEF OrderInv, Numbered
<1>3. CASE Head(wire).kind = "job" /\ HandleJob(Head(wire))
  <2> DEFINE job == Head(wire).job
  <2>1. clientJob' = Routed(job) /\ newest' = job.id
    BY <1>3 DEF HandleJob
  <2>2. job \in Job /\ Genuine(announced, job) /\ Later(newest, job.id)
    BY <1>1, <1>3, LineType DEF OrderInv, WireOrder
  <2>3. Routed(job) \in Job /\ Routed(job).id = job.id /\ SameParent(Routed(job), job)
    BY <2>2, RoutedType, RoutedParent DEF TypeOK, ConnTypeOK
  <2>4. Genuine(announced, Routed(job))
    BY <2>2, <2>3, GenuineParent
  <2>5. WireOrder'
    BY <1>1, <1>3, <2>1, WireTail DEF OrderInv
  <2>6. currentJob # NoJob => Later(currentJob.id, job.id)
    <3>1. CASE clientJob = NoJob
      BY <2>2, <3>1 DEF OrderInv, ReadOrder
    <3>2. CASE clientJob # NoJob
      BY <2>2, <3>2, LaterTrans DEF OrderInv, ReadOrder, Genuine, TypeOK, ConnTypeOK,
         LoopTypeOK, JobOrNone, Job
    <3>. QED BY <3>1, <3>2
  <2>7. ReadOrder'
    BY <1>1, <2>1, <2>2, <2>3, <2>4, <2>6, NoJobAssumption
       DEF OrderInv, ReadOrder, Genuine, Later
  <2>. QED BY <1>2, <2>5, <2>7 DEF OrderInv
<1>4. CASE Head(wire).kind # "job" /\ UNCHANGED <<clientJob, newest>>
  <2>1. WireOrder'
    BY <1>1, <1>4, WireTail DEF OrderInv
  <2>2. ReadOrder'
    BY <1>1, <1>4 DEF OrderInv, ReadOrder, Genuine, Later
  <2>. QED BY <1>2, <2>1, <2>2 DEF OrderInv
<1>. QED BY <1>3, <1>4 DEF ReadLine, Dispatch, CompleteSubmit, AnswersPending

\* Taking the unread job, whole or merged, makes the last job read current.
LEMMA OrderTake ==
  ASSUME TypeOK, OrderInv, UNCHANGED <<announced, wire, newest>>, clientJob' = NoJob,
         currentJob' \in Job, Genuine(announced, currentJob'), currentJob'.id = newest, LoopOrder'
  PROVE  OrderInv'
<1>1. Numbered' /\ WireOrder'
  BY DEF OrderInv, Numbered, WireOrder, Later
<1>2. ReadOrder'
  BY DEF OrderInv, ReadOrder, Genuine, Later
<1>. QED BY <1>1, <1>2 DEF OrderInv

LEMMA MergedOrder ==
  ASSUME TypeOK, OrderInv, currentJob # NoJob
  PROVE  /\ Merged \in Job /\ Genuine(announced, Merged) /\ Merged.id = newest
         /\ currentJob.id <= Merged.id
<1>1. currentJob \in Job /\ (clientJob # NoJob => clientJob \in Job)
  BY DEF TypeOK, ConnTypeOK, LoopTypeOK, JobOrNone
<1>2. CASE clientJob = NoJob
  BY <1>1, <1>2 DEF Merged, OrderInv, ReadOrder, Genuine, Job
<1>3. CASE clientJob # NoJob
  <2>1. Merged = MergeFrom(currentJob, clientJob)
    BY <1>3 DEF Merged
  <2>2. Merged.id = clientJob.id /\ SameParent(Merged, clientJob)
    BY <1>1, <1>3, <2>1, MergedParent
  <2>3. Genuine(announced, Merged) /\ Merged.id = newest
    BY <1>3, <2>2, GenuineParent DEF OrderInv, ReadOrder
  <2>4. currentJob.id \in Nat /\ newest \in Nat
    BY <1>1 DEF Job, TypeOK, ConnTypeOK
  <2>5. Later(currentJob.id, newest)
    BY <1>3 DEF OrderInv, ReadOrder
  <2>6. currentJob.id <= newest
    BY <2>4, <2>5 DEF Later
  <2>. QED BY <2>3, <2>6, MergedType
<1>. QED BY <1>2, <1>3

\* Steps that leave jobs and lines alone.
LEMMA OrderKept ==
  ASSUME OrderInv, UNCHANGED <<announced, wire, newest, clientJob, currentJob>>, LoopOrder'
  PROVE  OrderInv'
BY DEF OrderInv, Numbered, WireOrder, ReadOrder, Genuine, Later

LEMMA OrderDiscard ==
  ASSUME TypeOK, OrderInv, wire # <<>>, wire' = Tail(wire), Head(wire).kind # "job",
         UNCHANGED <<announced, newest, clientJob, currentJob>>, LoopOrder'
  PROVE  OrderInv'
<1>1. WireOrder'
  BY WireTail DEF OrderInv
<1>. QED BY <1>1 DEF OrderInv, Numbered, ReadOrder, Genuine, Later

LEMMA OrderStep == TypeOK /\ OrderInv /\ [Next]_vars => OrderInv'
<1> SUFFICES ASSUME TypeOK, OrderInv, [Next]_vars PROVE OrderInv'
  OBVIOUS
<1>1. CASE PoolStep
  BY <1>1, OrderPool
<1>2. CASE Read \/ CallRead \/ WaitRead
  <2>1. ReadLine /\ currentJob' = currentJob
    BY <1>2 DEF Read, CallRead, WaitRead, Abort, loopVars
  <2>2. pc' = "top" \/ (solveJob' = solveJob /\ (pc' = pc \/ (pc = "wait" /\ pc' = "submit")))
    BY <1>2 DEF Read, CallRead, WaitRead, Abort, Goto, loopVars, sliceVars
  <2>3. LoopOrder'
    BY <2>1, <2>2 DEF OrderInv, LoopOrder, SlicePCs
  <2>. QED BY <2>1, <2>3, OrderRead
<1>3. CASE CallReply \/ BadLine
  <2>1. /\ wire # <<>> /\ wire' = Tail(wire) /\ Head(wire).kind # "job"
        /\ UNCHANGED <<announced, newest, clientJob, currentJob>>
    BY <1>3 DEF CallReply, IsReply, BadLine, ReadGarbage, Abort, clientVars, ghostVars
  <2>2. pc' = "top" \/ (pc' = "slice" /\ solveJob' = currentJob')
    BY <1>3 DEF CallReply, StartSlice, BadLine, Abort, Goto
  <2>3. LoopOrder'
    BY <2>2 DEF LoopOrder, SlicePCs
  <2>. QED BY <2>1, <2>3, OrderDiscard
<1>4. CASE HandshakeDone \/ LoseConnection \/ FeeSwitch \/ BeginSlice
  <2>1. UNCHANGED <<announced, wire, newest, clientJob, currentJob>>
    BY <1>4 DEF HandshakeDone, LoseConnection, FeeSwitch, SendAuthorize, BeginSlice, connVars,
       poolVars, clientVars, ghostVars
  <2>2. pc' \in {"top", "offline", "call"} \/ (pc' = "slice" /\ solveJob' = currentJob')
    BY <1>4 DEF HandshakeDone, LoseConnection, FeeSwitch, BeginSlice, StartSlice, Goto
  <2>3. LoopOrder'
    BY <2>2 DEF LoopOrder, SlicePCs
  <2>. QED BY <2>1, <2>3, OrderKept
<1>5. CASE GetJob \/ TakeReplacement
  <2>1. /\ clientJob \in Job /\ currentJob' = clientJob /\ clientJob' = NoJob
        /\ UNCHANGED <<announced, wire, newest>> /\ pc' = "top"
    BY <1>5 DEF GetJob, TakeReplacement, Replaced, Goto, poolVars, ghostVars, TypeOK, ConnTypeOK,
       JobOrNone
  <2>2. LoopOrder'
    BY <2>1 DEF LoopOrder, SlicePCs
  <2>3. Genuine(announced, clientJob) /\ clientJob.id = newest
    BY <2>1, NoJobAssumption DEF OrderInv, ReadOrder
  <2>. QED BY <2>1, <2>2, <2>3, OrderTake
<1>6. CASE CheckJob \/ Advance
  <2>1. /\ Merged \in Job /\ Genuine(announced, Merged) /\ Merged.id = newest
        /\ NextStart \in Nat
    BY <1>6, MergedOrder, NextStartType DEF CheckJob, Advance, TypeOK
  <2>2. currentJob' = Merged \/ currentJob' = [Merged EXCEPT !.nonce = NextStart]
    BY <1>6 DEF CheckJob, Advance, Advanced
  <2>3. currentJob' \in Job /\ currentJob'.id = newest /\ Genuine(announced, currentJob')
    BY <2>1, <2>2 DEF Genuine, SameParent, Job
  <2>4. /\ clientJob' = NoJob /\ UNCHANGED <<announced, wire, newest>> /\ pc' \in {"top", "poll"}
    BY <1>6 DEF CheckJob, Advance, Goto, poolVars, ghostVars
  <2>5. LoopOrder'
    BY <2>4 DEF LoopOrder, SlicePCs
  <2>. QED BY <2>3, <2>4, <2>5, OrderTake
<1>7. CASE Polled \/ ReconnectFails
  <2>1. UNCHANGED <<announced, wire, newest, clientJob, currentJob>> /\ pc' \in {"check2", "top"}
    BY <1>7 DEF Polled, ReconnectFails, Goto, connVars, poolVars, clientVars, ghostVars
  <2>2. LoopOrder'
    BY <2>1 DEF LoopOrder, SlicePCs
  <2>. QED BY <2>1, <2>2, OrderKept
<1>8. CASE Slice
  <2>1. CASE WaitRead
    BY <1>2, <2>1
  <2>2. CASE \/ SliceDrained \/ EndSlice \/ EndShares \/ WaitTimesOut \/ ShareStep
             \/ \E last \in cursor..(cursor + budget - 1) : last <= NonceCap /\ Scan(last)
    <3>1. /\ UNCHANGED <<announced, wire, newest, clientJob, currentJob>> /\ pc \in SlicePCs
          /\ pc' \in {"check1", "offline"} \/ (pc' \in SlicePCs /\ solveJob' = solveJob)
      BY <2>2 DEF SliceDrained, EndSlice, EndShares, WaitTimesOut, ExpireSubmit, Scan, ShareStep,
         SkipShare, DropStale, Submit, SubmitRaises, SendSubmit, Submittable, ShareReady,
         MoreShares, Goto, SlicePCs, connVars, poolVars, clientVars, ghostVars, sliceVars
    <3>2. LoopOrder'
      BY <3>1 DEF OrderInv, LoopOrder, SlicePCs
    <3>. QED BY <3>1, <3>2, OrderKept
  <2>. QED BY <1>8, <2>1, <2>2 DEF Slice
<1>9. CASE Reconnect
  <2>1. /\ announced' = announced /\ wire' = <<JobLine(Newest)>> /\ newest' = 0
        /\ clientJob' = NoJob /\ currentJob' = NoJob /\ pc' = "handshake"
    BY <1>9 DEF Reconnect, Connect, Goto
  <2>2. /\ Newest \in Job /\ Newest.id = Len(announced) /\ Genuine(announced, Newest)
        /\ Len(announced) \in Nat \ {0}
    BY NewestType DEF OrderInv, Numbered, Newest, Genuine, SameParent, TypeOK, ConnTypeOK
  <2>3. WireOrder'
    BY <2>1, <2>2 DEF WireOrder, JobLine, Later
  <2>. QED BY <2>1, <2>2, <2>3 DEF OrderInv, Numbered, ReadOrder, LoopOrder, SlicePCs
<1>10. CASE UNCHANGED vars
  <2>1. UNCHANGED <<announced, wire, newest, clientJob, currentJob, solveJob, pc>>
    BY <1>10 DEF vars, connVars, poolVars, clientVars, ghostVars, loopVars, sliceVars
  <2>. QED BY <2>1, OrderKept DEF OrderInv, LoopOrder
<1>. QED BY <1>1, <1>2, <1>3, <1>4, <1>5, <1>6, <1>7, <1>8, <1>9, <1>10 DEF Next, Loop

\* The miner never goes back to an older job of a connection.
THEOREM OrderCorrect == Spec => []OrderInv
BY OrderInit, OrderStep, TypeCorrect, PTL DEF Spec

-----------------------------------------------------------------------------
(* No share for a superseded parent. *)

\* The check of _submit_pool_share against the unread job is enough: a
\* LuckyPool share is always for the parent of the last job read.
LEMMA FreshStep == TypeOK /\ OrderInv /\ [Next]_vars =>
  [ Lucky => \A s \in sent' \ sent : s.prev = announced[newest].prev ]_vars
<1> SUFFICES ASSUME TypeOK, OrderInv, [Next]_vars, Lucky, NEW s \in sent' \ sent
             PROVE  s.prev = announced[newest].prev
  OBVIOUS
<1>1. CASE ShareStep
  <2>1. PICK nonce \in found : Submit(nonce) \/ SubmitRaises(nonce)
    BY <1>1 DEF ShareStep, SkipShare, DropStale, connVars, ghostVars
  <2>2. s.prev = solveJob.prev /\ pc = "submit" /\ ~Stale
    BY <2>1 DEF Submit, SubmitRaises, SendSubmit, Submittable, ShareReady, MoreShares
  <2>3. solveJob = currentJob /\ currentJob # NoJob
    BY <2>2 DEF OrderInv, LoopOrder, SlicePCs, TypeOK
  <2>4. currentJob.prev = announced[currentJob.id].prev
    BY <2>3 DEF OrderInv, ReadOrder, Genuine, SameParent
  <2>5. CASE clientJob = NoJob
    BY <2>2, <2>3, <2>4, <2>5 DEF OrderInv, ReadOrder
  <2>6. CASE clientJob # NoJob
    <3>1. clientJob.prev = announced[newest].prev /\ clientJob.id = newest
      BY <2>6 DEF OrderInv, ReadOrder, Genuine, SameParent
    <3>2. clientJob.id = solveJob.id \/ SameParent(clientJob, solveJob)
      BY <2>2, <2>6 DEF Stale
    <3>. QED BY <2>2, <2>3, <2>4, <3>1, <3>2 DEF SameParent
  <2>. QED BY <2>5, <2>6
<1>2. CASE ~ShareStep
  <2>1. sent' = sent \/ sent' = {}
    BY <1>2 DEF Next, Loop, PoolStep, Pool, Announce, AnnounceSparse, Repeat, SendGarbage,
       Reply, Close, HandshakeDone, Read, BadLine, LoseConnection, GetJob, FeeSwitch, CallRead,
       CallReply, BeginSlice, Slice, SliceDrained, EndSlice, EndShares, Scan, WaitRead,
       WaitTimesOut, TakeReplacement, CheckJob, Polled, Advance, Reconnect, ReconnectFails,
       ReadLine, ReadGarbage, SendAuthorize, ExpireSubmit, Connect, connVars, ghostVars, vars
  <2>. QED BY <2>1
<1>. QED BY <1>1, <1>2

THEOREM FreshCorrect == Spec => NeverSubmitsStale
BY FreshStep, OrderCorrect, TypeCorrect, PTL DEF Spec, NeverSubmitsStale

-----------------------------------------------------------------------------
(* No share twice. *)

\* What the connection submitted is remembered, or belongs to an older job.
KeyInv ==
  /\ \A s \in sent :
       /\ currentJob # NoJob
       /\ <<s.job, s.nonce>> \in keys \/ s.job < currentJob.id
       /\ s.job <= currentJob.id
  /\ AtMostOnce

LEMMA KeyInit == Init => KeyInv
BY DEF Init, ClientInit, KeyInv, AtMostOnce

LEMMA KeyKept ==
  ASSUME KeyInv, UNCHANGED <<sent, currentJob>>, keys \subseteq keys'
  PROVE  KeyInv'
BY DEF KeyInv, AtMostOnce

LEMMA KeyEmpty ==
  ASSUME sent' = {}
  PROVE  KeyInv'
BY DEF KeyInv, AtMostOnce

LEMMA KeySubmit ==
  ASSUME TypeOK, OrderInv, KeyInv, NEW nonce \in found, Submit(nonce) \/ SubmitRaises(nonce)
  PROVE  KeyInv'
<1>1. /\ pc = "submit" /\ currentJob' = currentJob /\ keys' = keys \cup {Key(solveJob, nonce)}
      /\ Key(solveJob, nonce) \notin keys
  BY DEF Submit, SubmitRaises, Submittable, ShareReady, MoreShares, Duplicate
<1>2. solveJob = currentJob /\ currentJob \in Job
  BY <1>1 DEF OrderInv, LoopOrder, SlicePCs, TypeOK, LoopTypeOK, JobOrNone
<1> DEFINE share == [ id |-> lastId + 1, job |-> solveJob.id, prev |-> solveJob.prev,
                      nonce |-> nonce, worker |-> worker, fee |-> feeActive ]
<1>3. /\ sent' = sent \cup {share}
      /\ share.job = currentJob.id /\ share.nonce = nonce
  BY <1>2 DEF Submit, SubmitRaises, SendSubmit
<1> HIDE DEF share
<1>4. \A t \in sent : ~(t.job = share.job /\ t.nonce = share.nonce)
  BY <1>1, <1>2, <1>3 DEF KeyInv, Key, Job
<1>5. AtMostOnce'
  BY <1>3, <1>4 DEF KeyInv, AtMostOnce
<1>6. <<share.job, share.nonce>> \in keys' /\ share.job <= currentJob.id
  BY <1>1, <1>2, <1>3 DEF Key, Job
<1>7. \A s \in sent' : /\ currentJob # NoJob
                       /\ <<s.job, s.nonce>> \in keys' \/ s.job < currentJob.id
                       /\ s.job <= currentJob.id
  BY <1>1, <1>2, <1>3, <1>6, NoJobAssumption DEF KeyInv
<1>. QED BY <1>1, <1>5, <1>7 DEF KeyInv

\* A job that takes over without clearing the keys is at least as new.
LEMMA KeyAdvance ==
  ASSUME TypeOK, OrderInv, KeyInv, CheckJob \/ Advance
  PROVE  KeyInv'
<1>1. /\ currentJob # NoJob /\ Merged \in Job /\ currentJob.id <= Merged.id /\ currentJob \in Job
  BY MergedOrder DEF CheckJob, Advance, TypeOK, LoopTypeOK, JobOrNone
<1>2. /\ NextStart \in Nat
      /\ currentJob' = Merged \/ currentJob' = [Merged EXCEPT !.nonce = NextStart]
  BY NextStartType DEF CheckJob, Advance, Advanced, TypeOK
<1>3. currentJob' \in Job /\ currentJob'.id = Merged.id
  BY <1>1, <1>2 DEF Job
<1>4. sent' = sent /\ keys' = keys
  BY DEF CheckJob, Advance, ghostVars
<1>5. \A s \in sent : s.job \in Nat
  BY DEF TypeOK, ConnTypeOK, Share
<1>. QED BY <1>1, <1>3, <1>4, <1>5, NoJobAssumption DEF KeyInv, AtMostOnce, Job

\* A job that takes over and clears the keys is newer.  LuckyPool sends none
\* twice; a Stratum job that replaces another has another height.
LEMMA KeyReplace ==
  ASSUME TypeOK, OrderInv, KeyInv, ~(Lucky /\ Repeats), TakeReplacement
  PROVE  KeyInv'
<1>1. /\ clientJob \in Job /\ currentJob \in Job /\ currentJob' = clientJob /\ sent' = sent
      /\ clientJob # NoJob /\ currentJob # NoJob
      /\ Lucky \/ clientJob.height # currentJob.height
  BY DEF TakeReplacement, Replaced, ghostVars, TypeOK, ConnTypeOK, LoopTypeOK, JobOrNone
<1>2. Later(currentJob.id, clientJob.id)
  BY <1>1 DEF OrderInv, ReadOrder
<1>3. currentJob.id < clientJob.id
  <2>1. CASE ~Repeats
    BY <1>2, <2>1 DEF Later
  <2>2. CASE ~Lucky
    <3>1. /\ clientJob.height = announced[clientJob.id].height
          /\ currentJob.height = announced[currentJob.id].height
      BY <1>1 DEF OrderInv, ReadOrder, Genuine, SameParent
    <3>. QED BY <1>1, <1>2, <2>2, <3>1 DEF Later
  <2>. QED BY <2>1, <2>2
<1>4. \A s \in sent : s.job \in Nat
  BY DEF TypeOK, ConnTypeOK, Share
<1>. QED BY <1>1, <1>3, <1>4 DEF KeyInv, AtMostOnce, Job

LEMMA KeyStep ==
  ASSUME ~(Lucky /\ Repeats)
  PROVE  TypeOK /\ OrderInv /\ KeyInv /\ [Next]_vars => KeyInv'
<1> SUFFICES ASSUME TypeOK, OrderInv, KeyInv, [Next]_vars PROVE KeyInv'
  OBVIOUS
<1>1. CASE PoolStep
  <2>1. UNCHANGED <<sent, currentJob, keys>>
    BY <1>1 DEF PoolStep, Pool, Announce, AnnounceSparse, Repeat, SendGarbage, Reply, Close,
       ghostVars, loopVars
  <2>. QED BY <2>1, KeyKept
<1>2. CASE \/ HandshakeDone \/ Read \/ BadLine \/ LoseConnection \/ FeeSwitch \/ CallRead
           \/ CallReply \/ BeginSlice \/ Polled \/ ReconnectFails
  <2>1. UNCHANGED <<sent, currentJob, keys>>
    BY <1>2 DEF HandshakeDone, Read, BadLine, LoseConnection, FeeSwitch, CallRead, CallReply,
       BeginSlice, Polled, ReconnectFails, ReadLine, ReadGarbage, Abort, SendAuthorize,
       connVars, ghostVars, loopVars
  <2>. QED BY <2>1, KeyKept
<1>3. CASE GetJob
  <2>1. sent' = sent /\ currentJob = NoJob
    BY <1>3 DEF GetJob, ghostVars
  <2>2. sent = {}
    BY <2>1 DEF KeyInv
  <2>. QED BY <2>1, <2>2, KeyEmpty
<1>4. CASE Slice
  <2>1. ASSUME NEW nonce \in found, Submit(nonce) \/ SubmitRaises(nonce) PROVE KeyInv'
    BY <2>1, KeySubmit
  <2>2. ASSUME \/ SliceDrained \/ EndSlice \/ EndShares \/ WaitRead \/ WaitTimesOut
               \/ \E last \in cursor..(cursor + budget - 1) : last <= NonceCap /\ Scan(last)
               \/ \E nonce \in found : SkipShare(nonce) \/ DropStale(nonce)
        PROVE  KeyInv'
    <3>1. UNCHANGED <<sent, currentJob>> /\ keys \subseteq keys'
      BY <2>2 DEF SliceDrained, EndSlice, EndShares, WaitRead, WaitTimesOut, ReadLine,
         ExpireSubmit, Scan, SkipShare, DropStale, connVars, ghostVars
    <3>. QED BY <3>1, KeyKept
  <2>. QED BY <1>4, <2>1, <2>2 DEF Slice, ShareStep
<1>5. CASE TakeReplacement
  BY <1>5, KeyReplace
<1>6. CASE CheckJob \/ Advance
  BY <1>6, KeyAdvance
<1>7. CASE Reconnect
  BY <1>7, KeyEmpty DEF Reconnect, Connect
<1>8. CASE UNCHANGED vars
  BY <1>8, KeyKept DEF vars, connVars, ghostVars, loopVars
<1>. QED BY <1>1, <1>2, <1>3, <1>4, <1>5, <1>6, <1>7, <1>8 DEF Next, Loop

\* No connection submits a share twice, provided the pool does not send a
\* LuckyPool job a second time under the same id.
THEOREM OnceCorrect ==
  ASSUME ~(Lucky /\ Repeats)
  PROVE  Spec => []AtMostOnce
<1>1. TypeOK /\ OrderInv /\ KeyInv /\ [Next]_vars => KeyInv'
  BY KeyStep
<1>2. KeyInv => AtMostOnce
  BY DEF KeyInv
<1>. QED BY <1>1, <1>2, KeyInit, OrderCorrect, TypeCorrect, PTL DEF Spec

-----------------------------------------------------------------------------
(* No nonce twice under a parent, on a Stratum connection that stays calm.  *)

\* A parent has one height.
ParentInv ==
  \A i \in 1..Len(announced) :
    announced[i].prev \in {2 * announced[i].height, 2 * announced[i].height + 1}

\* No upset, so nothing an upset brings about.
Undisturbed ==
  /\ open /\ pc # "offline"
  /\ \A i \in 1..Len(wire) : wire[i].kind # "garbage"

SentInv ==
  \A s \in sent : /\ s.job \in 1..Len(announced) /\ s.prev = announced[s.job].prev
                  /\ s.nonce <= NonceCap

InBody == pc \in SlicePCs \cup {"check1", "poll", "check2"}

\* Under the slice's parent, everything submitted lies before the cursor and
\* is not waiting to be submitted once more.
SliceInv ==
  /\ Genuine(announced, solveJob) /\ solveJob.id <= currentJob.id
  /\ cursor \in Nat /\ found \subseteq {n \in 0..NonceCap : n < cursor}
  /\ \A s \in sent : /\ s.job <= solveJob.id
                     /\ s.prev = solveJob.prev => s.nonce < cursor /\ s.nonce \notin found

BodyInv == InBody => SliceInv

\* Between slices, everything submitted under the job's parent lies before the
\* nonce the next slice starts from.
TopInv ==
  pc \in {"top", "call"} /\ currentJob # NoJob =>
    \A s \in sent : s.prev = currentJob.prev => s.nonce < currentJob.nonce

OncePerParent == \A s, t \in sent : s.prev = t.prev /\ s.nonce = t.nonce => s = t

OnceInv == SentInv /\ BodyInv /\ TopInv /\ OncePerParent

CalmInv ==
  upsets = 0 /\ NoReturn =>
    Undisturbed /\ OnceInv

\* The pool only adds jobs, each under the newest height or the next.
LEMMA AnnouncedStep ==
  ASSUME TypeOK, ParentInv, ~Lucky, [Next]_vars
  PROVE  \/ announced' = announced
         \/ \E job \in Job : /\ announced' = Append(announced, job)
                             /\ \E x \in Branches : job.prev = 2 * job.height + x
                             /\ job.height >= Newest.height
<1>1. ASSUME NEW h \in {Newest.height, Newest.height + 1}, NEW b \in Branches,
             NEW s \in Starts, Announce(h, b, s)
      PROVE  \E job \in Job : /\ announced' = Append(announced, job)
                              /\ \E x \in Branches : job.prev = 2 * job.height + x
                              /\ job.height >= Newest.height
  <2>1. Newest \in Job /\ Newest.height \in Nat
    BY NewestType DEF TypeOK, ConnTypeOK, Job
  <2>2. h \in Nat /\ h >= Newest.height /\ b \in {0, 1}
    BY <2>1, PoolAssumption
  <2>3. FullJob(h, b, s) \in Job
    BY <2>2, FullJobType DEF TypeOK
  <2>4. FullJob(h, b, s).prev = 2 * h + b /\ FullJob(h, b, s).height = h
    BY DEF FullJob
  <2>6. announced' = Append(announced, FullJob(h, b, s))
    BY <1>1 DEF Announce
  <2>. QED BY <2>2, <2>3, <2>4, <2>6
<1>2. CASE ~\E h \in {Newest.height, Newest.height + 1}, b \in Branches, s \in Starts : Announce(h, b, s)
  BY <1>2 DEF Next, Loop, PoolStep, Pool, AnnounceSparse, Repeat, SendGarbage, Reply, Close,
     HandshakeDone, Read, BadLine, LoseConnection, GetJob, FeeSwitch, CallRead, CallReply,
     BeginSlice, Slice, ShareStep, SkipShare, DropStale, Submit, SubmitRaises, SendSubmit,
     SliceDrained, EndSlice, EndShares, Scan, WaitRead, WaitTimesOut, TakeReplacement, CheckJob,
     Polled, Advance, Reconnect, ReconnectFails, ReadLine, ReadGarbage, SendAuthorize,
     ExpireSubmit, Connect, connVars, poolVars, vars
<1>. QED BY <1>1, <1>2

LEMMA ParentInit == Init => ParentInv
BY PoolAssumption DEF Init, ClientInit, ParentInv

LEMMA ParentStep ==
  ASSUME TypeOK, ParentInv, ~Lucky, [Next]_vars
  PROVE  ParentInv'
<1>1. CASE announced' = announced
  BY <1>1 DEF ParentInv
<1>2. ASSUME NEW job \in Job, announced' = Append(announced, job),
             \E x \in Branches : job.prev = 2 * job.height + x
      PROVE  ParentInv'
  <2>1. job.prev \in {2 * job.height, 2 * job.height + 1}
    BY <1>2, PoolAssumption DEF Job
  <2>. QED BY <1>2, <2>1 DEF ParentInv, TypeOK, ConnTypeOK
<1>. QED BY <1>1, <1>2, AnnouncedStep

\* If the pool has not returned to a parent, it had not before.
LEMMA NoReturnBefore ==
  ASSUME TypeOK, NoReturn', announced' = announced \/ \E x : announced' = Append(announced, x)
  PROVE  NoReturn
<1>1. /\ Len(announced) <= Len(announced') /\ Len(announced') \in Nat /\ Len(announced) \in Nat
      /\ \A i \in 1..Len(announced) : announced'[i] = announced[i]
  BY DEF TypeOK, ConnTypeOK
<1>. QED BY <1>1 DEF NoReturn

\* What was submitted under the parent of a later job was so under that of
\* every job between.
LEMMA ParentBetween ==
  ASSUME TypeOK, OrderInv, NoReturn, SentInv, NEW s \in sent, NEW a \in Job, NEW b \in Job,
         Genuine(announced, a), Genuine(announced, b), s.job <= a.id, a.id <= b.id,
         s.prev = b.prev
  PROVE  s.prev = a.prev
BY DEF NoReturn, SentInv, Genuine, SameParent

-----------------------------------------------------------------------------

\* No step but an upset closes the stream, brings garbage or loses the client.
LEMMA CalmStream ==
  ASSUME TypeOK, Undisturbed, upsets = 0, upsets' = 0, [Next]_vars
  PROVE  Undisturbed'
<1>1. ~Upset /\ ~BadLine /\ ~LoseConnection /\ ~Reconnect /\ ~ReconnectFails
  <2>1. ~Upset
    BY DEF Upset
  <2>2. ~BadLine
    <3>1. wire # <<>> => 1 \in 1..Len(wire) /\ Head(wire) = wire[1]
      BY DEF TypeOK, ConnTypeOK
    <3>. QED BY <3>1 DEF BadLine, ReadGarbage, Undisturbed
  <2>3. ~LoseConnection
    BY Zenon DEF LoseConnection, EndOfStream, Undisturbed
  <2>4. ~Reconnect /\ ~ReconnectFails
    BY Zenon DEF Reconnect, ReconnectFails, Undisturbed
  <2>. QED BY <2>1, <2>2, <2>3, <2>4
<1>2. wire \in Seq(Line)
  BY DEF TypeOK, ConnTypeOK
<1>3. PoolStep => /\ open' = open /\ pc' = pc
                  /\ \/ wire' = wire
                     \/ \E line : line.kind # "garbage" /\ wire' = Append(wire, line)
  BY <1>1 DEF PoolStep, Pool, Announce, AnnounceSparse, Repeat, SendGarbage, Reply, Close,
     Deliver, JobLine, Answer, loopVars
<1>4. Loop => open' = open /\ pc' # "offline" /\ (wire' = wire \/ (wire # <<>> /\ wire' = Tail(wire)))
  BY <1>1 DEF Undisturbed, Loop, HandshakeDone, Read, GetJob, FeeSwitch, CallRead, CallReply,
     BeginSlice, StartSlice, Slice, ShareStep, SkipShare, DropStale, Submit, SubmitRaises,
     SendSubmit, SliceDrained, EndSlice, EndShares, Scan, WaitRead, WaitTimesOut,
     TakeReplacement, CheckJob, Polled, Advance, ReadLine, Readable, SendAuthorize, ExpireSubmit,
     Goto, Abort, connVars, poolVars, loopVars
<1>5. UNCHANGED vars => open' = open /\ pc' = pc /\ wire' = wire
  BY DEF vars, connVars, poolVars, loopVars
<1>6. open' /\ pc' # "offline"
  BY <1>3, <1>4, <1>5 DEF Next, Undisturbed
<1>7. CASE wire' = wire
  BY <1>6, <1>7 DEF Undisturbed
<1>8. CASE wire # <<>> /\ wire' = Tail(wire)
  BY <1>2, <1>6, <1>8 DEF Undisturbed
<1>9. ASSUME NEW line, line.kind # "garbage", wire' = Append(wire, line) PROVE Undisturbed'
  <2>1. Len(wire') = Len(wire) + 1 /\ wire'[Len(wire) + 1] = line
        /\ \A i \in 1..Len(wire) : wire'[i] = wire[i]
    BY <1>2, <1>9
  <2>2. \A i \in 1..Len(wire') : wire'[i].kind # "garbage"
    BY <1>2, <1>9, <2>1 DEF Undisturbed
  <2>. QED BY <1>6, <2>2 DEF Undisturbed
<1>. QED BY <1>3, <1>4, <1>5, <1>7, <1>8, <1>9 DEF Next

\* Steps that submit nothing and leave the jobs alone.
LEMMA OnceKept ==
  ASSUME TypeOK, OnceInv, UNCHANGED <<sent, currentJob, solveJob, cursor>>, found' \subseteq found,
         announced' = announced \/ \E x : announced' = Append(announced, x),
         InBody' => InBody,
         pc' \in {"top", "call"} /\ currentJob # NoJob => pc \in {"top", "call"}
  PROVE  OnceInv'
<1>1. /\ Len(announced) <= Len(announced') /\ Len(announced') \in Nat /\ Len(announced) \in Nat
      /\ \A i \in 1..Len(announced) : announced'[i] = announced[i]
  BY DEF TypeOK, ConnTypeOK
<1>2. SentInv'
  BY <1>1 DEF OnceInv, SentInv
<1>3. BodyInv'
  <2>1. SUFFICES ASSUME SliceInv PROVE SliceInv'
    BY DEF OnceInv, BodyInv
  <2>2. Genuine(announced, solveJob)'
    BY <1>1, <2>1 DEF SliceInv, Genuine, SameParent
  <2>. QED BY <2>1, <2>2 DEF SliceInv
<1>4. TopInv' /\ OncePerParent'
  BY DEF OnceInv, TopInv, OncePerParent
<1>. QED BY <1>2, <1>3, <1>4 DEF OnceInv

LEMMA OnceStart ==
  ASSUME TypeOK, OrderInv, KeyInv, OnceInv, BeginSlice \/ (CallReply /\ StartSlice)
  PROVE  OnceInv'
<1>1. /\ pc \in {"top", "call"} /\ pc' = "slice" /\ currentJob # NoJob
      /\ solveJob' = currentJob /\ cursor' = currentJob.nonce /\ found' = {}
      /\ UNCHANGED <<announced, sent, currentJob>>
  BY DEF BeginSlice, CallReply, StartSlice, Goto, TypeOK, connVars, poolVars, ghostVars
<1>2. currentJob \in Job /\ Genuine(announced, currentJob)
  BY <1>1 DEF TypeOK, LoopTypeOK, JobOrNone, OrderInv, ReadOrder
<1>3. \A s \in sent : /\ s.job <= currentJob.id
                      /\ s.prev = currentJob.prev => s.nonce < currentJob.nonce
  BY <1>1 DEF KeyInv, OnceInv, TopInv
<1>4. currentJob.id \in Nat /\ currentJob.nonce \in Nat
  BY <1>2 DEF Job
<1>5. SliceInv'
  <2>1. (Genuine(announced, solveJob) /\ solveJob.id <= currentJob.id)'
    BY <1>1, <1>2, <1>4 DEF Genuine, SameParent
  <2>2. (cursor \in Nat /\ found \subseteq {n \in 0..NonceCap : n < cursor})'
    BY <1>1, <1>4
  <2>3. (\A s \in sent : /\ s.job <= solveJob.id
                         /\ s.prev = solveJob.prev => s.nonce < cursor /\ s.nonce \notin found)'
    BY <1>1, <1>3
  <2>. QED BY <2>1, <2>2, <2>3 DEF SliceInv
<1>. QED BY <1>1, <1>5 DEF OnceInv, SentInv, BodyInv, TopInv, OncePerParent

LEMMA OnceScan ==
  ASSUME TypeOK, OnceInv, NEW last \in cursor..(cursor + budget - 1), last <= NonceCap, Scan(last)
  PROVE  OnceInv'
<1>1. /\ pc = "solve" /\ pc' \in {"check1", "submit"} /\ cursor' = last + 1
      /\ UNCHANGED <<announced, sent, currentJob, solveJob>>
      /\ found' \subseteq ShareNonces \cap cursor..last
  BY DEF Scan, LeaveSlice, Goto, connVars, poolVars, ghostVars
<1>2. InBody
  BY <1>1 DEF InBody, SlicePCs
<1>3. cursor \in Nat /\ last \in Nat /\ cursor <= last /\ NonceCap \in Nat
  BY LoopAssumption DEF TypeOK, LoopTypeOK
<1>4. found' \subseteq {n \in 0..NonceCap : n < last + 1} /\ \A n \in found' : n >= cursor
  BY <1>1, <1>3
<1>5. \A s \in sent : s.nonce \in Nat
  BY DEF TypeOK, ConnTypeOK, Share
<1>6. BodyInv'
  BY <1>1, <1>2, <1>3, <1>4, <1>5 DEF OnceInv, BodyInv, SliceInv, Genuine, SameParent
<1>. QED BY <1>1, <1>6 DEF OnceInv, SentInv, TopInv, OncePerParent

LEMMA OnceSubmit ==
  ASSUME TypeOK, OrderInv, OnceInv, NEW nonce \in found, Submit(nonce)
  PROVE  OnceInv'
<1> DEFINE share == [ id |-> lastId + 1, job |-> solveJob.id, prev |-> solveJob.prev,
                      nonce |-> nonce, worker |-> worker, fee |-> feeActive ]
<1>1. /\ pc = "submit" /\ pc' \in {"submit", "wait"} /\ found' = found \ {nonce}
      /\ sent' = sent \cup {share}
      /\ UNCHANGED <<announced, currentJob, solveJob, cursor>>
  BY DEF Submit, Submittable, ShareReady, MoreShares, SendSubmit, Goto
<1>2. share.job = solveJob.id /\ share.prev = solveJob.prev /\ share.nonce = nonce
  OBVIOUS
<1> HIDE DEF share
<1>3. InBody /\ InBody'
  BY <1>1 DEF InBody, SlicePCs
<1>4. /\ Genuine(announced, solveJob) /\ nonce \in 0..NonceCap /\ nonce < cursor
      /\ \A s \in sent : s.prev = solveJob.prev => s.nonce \notin found
  BY <1>3 DEF OnceInv, BodyInv, SliceInv
<1>5. solveJob.id \in Nat /\ solveJob # NoJob
  BY <1>1, <1>4 DEF Genuine, TypeOK, LoopTypeOK, ConnTypeOK
<1>6. SentInv'
  BY <1>1, <1>2, <1>4 DEF OnceInv, SentInv, Genuine, SameParent
<1>7. BodyInv'
  <2>1. SliceInv
    BY <1>3 DEF OnceInv, BodyInv
  <2>2. (Genuine(announced, solveJob) /\ solveJob.id <= currentJob.id)'
    BY <1>1, <2>1 DEF SliceInv, Genuine, SameParent
  <2>3. (cursor \in Nat /\ found \subseteq {n \in 0..NonceCap : n < cursor})'
    BY <1>1, <2>1 DEF SliceInv
  <2>4. share.job <= solveJob.id /\ share.nonce < cursor /\ share.nonce \notin found'
    BY <1>1, <1>2, <1>4, <1>5
  <2>5. \A s \in sent : /\ s.job <= solveJob.id
                        /\ s.prev = solveJob.prev => s.nonce < cursor /\ s.nonce \notin found'
    BY <1>1, <2>1 DEF SliceInv
  <2>6. (\A s \in sent : /\ s.job <= solveJob.id
                         /\ s.prev = solveJob.prev => s.nonce < cursor /\ s.nonce \notin found)'
    BY <1>1, <2>4, <2>5
  <2>. QED BY <2>2, <2>3, <2>6 DEF BodyInv, SliceInv
<1>8. OncePerParent'
  BY <1>1, <1>2, <1>4 DEF OnceInv, OncePerParent
<1>. QED BY <1>1, <1>6, <1>7, <1>8 DEF OnceInv, TopInv

\* A job of another height has another parent, under which nothing was sent.
LEMMA OnceReplace ==
  ASSUME TypeOK, OrderInv, KeyInv, ParentInv, NoReturn, OnceInv, ~Lucky, TakeReplacement
  PROVE  OnceInv'
<1>1. /\ clientJob \in Job /\ currentJob \in Job /\ currentJob' = clientJob /\ currentJob # NoJob
      /\ clientJob # NoJob /\ clientJob.height # currentJob.height /\ pc' = "top"
      /\ UNCHANGED <<announced, sent>>
  BY DEF TakeReplacement, Replaced, Goto, poolVars, ghostVars, TypeOK, ConnTypeOK, LoopTypeOK, JobOrNone
<1>2. Genuine(announced, clientJob) /\ Genuine(announced, currentJob)
  BY <1>1 DEF OrderInv, ReadOrder
<1>3. currentJob.id \in Nat /\ clientJob.id \in Nat /\ currentJob.height \in Nat /\ clientJob.height \in Nat
  BY <1>1 DEF Job
<1>4. currentJob.id <= clientJob.id
  BY <1>1, <1>3 DEF OrderInv, ReadOrder, Later
<1>p. ASSUME NEW job \in Job, Genuine(announced, job)
      PROVE  job.prev \in {2 * job.height, 2 * job.height + 1}
  BY <1>p DEF ParentInv, Genuine, SameParent
<1>5. clientJob.prev # currentJob.prev
  <2>1. /\ clientJob.prev \in {2 * clientJob.height, 2 * clientJob.height + 1}
        /\ currentJob.prev \in {2 * currentJob.height, 2 * currentJob.height + 1}
    BY <1>1, <1>2, <1>p
  <2>. QED BY <1>1, <1>3, <2>1
<1>6. \A s \in sent : s.prev # clientJob.prev
  BY <1>1, <1>2, <1>4, <1>5, ParentBetween DEF KeyInv, OnceInv
<1>7. ~InBody'
  BY <1>1 DEF InBody, SlicePCs
<1>. QED BY <1>1, <1>6, <1>7 DEF OnceInv, SentInv, BodyInv, TopInv, OncePerParent

LEMMA OnceCheck ==
  ASSUME TypeOK, OrderInv, OnceInv, CheckJob
  PROVE  OnceInv'
<1>1. /\ pc = "check1" /\ pc' = "poll" /\ currentJob' = Merged /\ currentJob # NoJob
      /\ UNCHANGED <<announced, sent, solveJob, cursor, found>>
  BY DEF CheckJob, Goto, poolVars, ghostVars, sliceVars, TypeOK
<1>2. Merged \in Job /\ currentJob.id <= Merged.id
  BY <1>1, MergedOrder
<1>3. InBody
  BY <1>1 DEF InBody
<1>4. solveJob.id <= currentJob.id /\ solveJob.id \in Nat /\ currentJob.id \in Nat
  BY <1>1, <1>3 DEF OnceInv, BodyInv, SliceInv, Genuine, TypeOK, LoopTypeOK, JobOrNone, Job
<1>5. solveJob.id <= Merged.id
  BY <1>2, <1>4 DEF Job
<1>6. BodyInv'
  BY <1>1, <1>3, <1>5 DEF OnceInv, BodyInv, SliceInv, Genuine, SameParent
<1>. QED BY <1>1, <1>6 DEF OnceInv, SentInv, TopInv, OncePerParent

\* The advance leaves behind whatever the slice has submitted.
LEMMA NextStartBeyond ==
  ASSUME TypeOK, OnceInv, InBody, solveJob # NoJob, NEW s \in sent, s.prev = solveJob.prev
  PROVE  s.nonce < NextStart
<1>1. s.nonce \in Nat /\ s.nonce < cursor /\ s.nonce <= NonceCap
  BY DEF TypeOK, ConnTypeOK, Share, OnceInv, BodyInv, SliceInv, SentInv
<1>2. cursor \in Nat /\ solveJob.nonce \in Nat
  BY DEF TypeOK, LoopTypeOK, JobOrNone, Job
<1>. QED BY <1>1, <1>2, LoopAssumption DEF NextStart

LEMMA OnceAdvance ==
  ASSUME TypeOK, OrderInv, NoReturn, OnceInv, Advance
  PROVE  OnceInv'
<1>1. /\ pc = "check2" /\ pc' = "top" /\ currentJob' = Advanced(Merged) /\ currentJob # NoJob
      /\ solveJob # NoJob /\ UNCHANGED <<announced, sent>>
  BY DEF Advance, Goto, poolVars, ghostVars, TypeOK
<1>2. Merged \in Job /\ Genuine(announced, Merged) /\ currentJob.id <= Merged.id
  BY <1>1, MergedOrder
<1>3. InBody /\ ~InBody'
  BY <1>1 DEF InBody, SlicePCs
<1>4. /\ solveJob \in Job /\ Genuine(announced, solveJob) /\ solveJob.id <= currentJob.id
      /\ \A s \in sent : s.job <= solveJob.id
  BY <1>1, <1>3 DEF OnceInv, BodyInv, SliceInv, TypeOK, LoopTypeOK, JobOrNone
<1>5. solveJob.id <= Merged.id
  BY <1>1, <1>2, <1>4 DEF TypeOK, LoopTypeOK, JobOrNone, Job
<1>6. CASE Merged.prev = solveJob.prev
  <2>1. currentJob'.prev = solveJob.prev /\ currentJob'.nonce = NextStart
    BY <1>1, <1>2, <1>6 DEF Advanced, Job
  <2>2. \A s \in sent : s.prev = solveJob.prev => s.nonce < NextStart
    BY <1>1, <1>3, NextStartBeyond
  <2>3. TopInv'
    BY <1>1, <2>1, <2>2 DEF TopInv
  <2>. QED BY <1>1, <1>3, <2>3 DEF OnceInv, SentInv, BodyInv, OncePerParent
<1>7. CASE Merged.prev # solveJob.prev
  <2>1. currentJob' = Merged
    BY <1>1, <1>7 DEF Advanced
  <2>2. \A s \in sent : s.prev # Merged.prev
    BY <1>2, <1>4, <1>5, <1>7, ParentBetween DEF OnceInv
  <2>3. TopInv'
    BY <1>1, <2>1, <2>2 DEF TopInv
  <2>. QED BY <1>1, <1>3, <2>3 DEF OnceInv, SentInv, BodyInv, OncePerParent
<1>. QED BY <1>6, <1>7

LEMMA OnceStep ==
  ASSUME TypeOK, OrderInv, KeyInv, ParentInv, NoReturn, Undisturbed, OnceInv, ~Lucky,
         upsets = 0, upsets' = 0, [Next]_vars,
         announced' = announced \/ \E x : announced' = Append(announced, x)
  PROVE  OnceInv'
<1>0. ~Upset /\ ~BadLine /\ ~LoseConnection /\ ~Reconnect /\ ~ReconnectFails
  <2>1. ~Upset
    BY DEF Upset
  <2>2. ~BadLine
    <3>1. wire # <<>> => 1 \in 1..Len(wire) /\ Head(wire) = wire[1]
      BY DEF TypeOK, ConnTypeOK
    <3>. QED BY <3>1 DEF BadLine, ReadGarbage, Undisturbed
  <2>3. ~LoseConnection
    BY Zenon DEF LoseConnection, EndOfStream, Undisturbed
  <2>4. ~Reconnect /\ ~ReconnectFails
    BY Zenon DEF Reconnect, ReconnectFails, Undisturbed
  <2>. QED BY <2>1, <2>2, <2>3, <2>4
<1>1. CASE PoolStep \/ UNCHANGED vars
  <2>1. UNCHANGED <<sent, currentJob, solveJob, cursor, found, pc>>
    BY <1>1 DEF PoolStep, Pool, Announce, AnnounceSparse, Repeat, SendGarbage, Reply, Close,
       ghostVars, loopVars, sliceVars, vars, connVars
  <2>. QED BY <2>1, OnceKept DEF InBody
<1>2. CASE HandshakeDone \/ Read \/ FeeSwitch \/ CallRead \/ (CallReply /\ ~StartSlice) \/ Polled
  <2>1. UNCHANGED <<sent, currentJob, solveJob, cursor, found>>
    BY <1>0, <1>2 DEF HandshakeDone, Read, FeeSwitch, CallRead, CallReply, Polled, ReadLine,
       SendAuthorize, ghostVars, loopVars, sliceVars, connVars
  <2>2. \/ pc' = pc
        \/ pc \in {"handshake", "call"} /\ pc' = "top"
        \/ pc = "top" /\ pc' = "call"
        \/ pc = "poll" /\ pc' = "check2"
    <3>1. FeeSwitch => pc = "top" /\ pc' = "call"
      BY Zenon DEF FeeSwitch, Goto, Undisturbed
    <3>2. CallReply /\ ~StartSlice => pc = "call" /\ pc' = "top"
      BY Zenon DEF CallReply, Goto
    <3>. QED BY <1>0, <1>2, <3>1, <3>2 DEF HandshakeDone, Read, CallRead, Polled, Goto, loopVars
  <2>3. pc = "handshake" => currentJob = NoJob
    BY DEF OrderInv, LoopOrder
  <2>. QED BY <2>1, <2>2, <2>3, OnceKept DEF InBody, SlicePCs
<1>3. CASE BeginSlice \/ (CallReply /\ StartSlice)
  BY <1>3, OnceStart
<1>4. CASE GetJob
  <2>1. currentJob = NoJob /\ UNCHANGED sent /\ pc' = "top"
    BY <1>4 DEF GetJob, ghostVars
  <2>2. sent' = {}
    BY <2>1 DEF KeyInv
  <2>. QED BY <2>1, <2>2 DEF OnceInv, SentInv, BodyInv, TopInv, OncePerParent, InBody, SlicePCs
<1>5. CASE Slice
  <2>1. ASSUME NEW last \in cursor..(cursor + budget - 1), last <= NonceCap, Scan(last) PROVE OnceInv'
    BY <2>1, OnceScan
  <2>2. ASSUME NEW nonce \in found, Submit(nonce) PROVE OnceInv'
    BY <2>2, OnceSubmit
  <2>3. CASE \/ SliceDrained \/ EndSlice \/ EndShares \/ WaitRead
             \/ \E nonce \in found : SkipShare(nonce) \/ DropStale(nonce)
    <3>1. UNCHANGED <<sent, currentJob, solveJob, cursor>> /\ found' \subseteq found
      BY <2>3 DEF SliceDrained, EndSlice, EndShares, WaitRead, SkipShare, DropStale, ReadLine,
         LeaveSlice, ghostVars, sliceVars, connVars
    <3>2. pc \in SlicePCs /\ pc' \in SlicePCs \cup {"check1"}
      BY <2>3 DEF SliceDrained, EndSlice, EndShares, WaitRead, SkipShare, DropStale, Submittable,
         ShareReady, MoreShares, Goto, SlicePCs
    <3>. QED BY <3>1, <3>2, OnceKept DEF InBody, SlicePCs
  <2>4. ~WaitTimesOut /\ \A nonce \in found : ~SubmitRaises(nonce)
    BY <1>0 DEF WaitTimesOut, ExpireSubmit, SubmitRaises
  <2>. QED BY <1>5, <2>1, <2>2, <2>3, <2>4 DEF Slice, ShareStep
<1>6. CASE TakeReplacement
  BY <1>6, OnceReplace
<1>7. CASE CheckJob
  BY <1>7, OnceCheck
<1>8. CASE Advance
  BY <1>8, OnceAdvance
<1>. QED BY <1>0, <1>1, <1>2, <1>3, <1>4, <1>5, <1>6, <1>7, <1>8 DEF Next, Loop

LEMMA CalmInit == Init => CalmInv
<1> SUFFICES ASSUME Init PROVE CalmInv
  OBVIOUS
<1>1. /\ open /\ pc = "handshake" /\ sent = {} /\ currentJob = NoJob
      /\ wire = <<JobLine(announced[1])>>
  BY DEF Init, ClientInit
<1>2. Undisturbed
  BY <1>1 DEF Undisturbed, JobLine
<1>. QED BY <1>1, <1>2 DEF CalmInv, OnceInv, SentInv, BodyInv, InBody, SlicePCs, TopInv, OncePerParent

LEMMA CalmStep ==
  ASSUME ~Lucky, TypeOK, OrderInv, KeyInv, ParentInv, CalmInv, [Next]_vars
  PROVE  CalmInv'
<1>1. SUFFICES ASSUME upsets' = 0, NoReturn' PROVE Undisturbed' /\ OnceInv'
  BY DEF CalmInv
<1>2. announced' = announced \/ \E x : announced' = Append(announced, x)
  BY AnnouncedStep
<1>3. NoReturn
  BY <1>1, <1>2, NoReturnBefore
<1>4. upsets = 0
  <2>1. upsets' = upsets \/ upsets' = upsets + 1
    BY DEF Next, Loop, PoolStep, Pool, Announce, AnnounceSparse, Repeat, SendGarbage, Reply, Close,
       HandshakeDone, Read, BadLine, LoseConnection, GetJob, FeeSwitch, CallRead, CallReply,
       BeginSlice, Slice, ShareStep, SkipShare, DropStale, Submit, SubmitRaises, SliceDrained,
       EndSlice, EndShares, Scan, WaitRead, WaitTimesOut, TakeReplacement, CheckJob, Polled,
       Advance, Reconnect, ReconnectFails, ReadLine, ReadGarbage, SendAuthorize, ExpireSubmit,
       Connect, Upset, connVars, poolVars, vars
  <2>2. upsets \in Nat
    BY DEF TypeOK, ConnTypeOK
  <2>. QED BY <1>1, <2>1, <2>2
<1>5. Undisturbed /\ OnceInv
  BY <1>3, <1>4 DEF CalmInv
<1>. QED BY <1>1, <1>2, <1>3, <1>4, <1>5, CalmStream, OnceStep

LEMMA CalmInvariant == ASSUME ~Lucky PROVE Spec => [](ParentInv /\ CalmInv)
<1>1. TypeOK /\ OrderInv /\ KeyInv /\ [Next]_vars => KeyInv'
  BY KeyStep
<1>2. TypeOK /\ ParentInv /\ [Next]_vars => ParentInv'
  BY ParentStep
<1>3. TypeOK /\ OrderInv /\ KeyInv /\ ParentInv /\ CalmInv /\ [Next]_vars => CalmInv'
  BY CalmStep
<1>. QED BY <1>1, <1>2, <1>3, KeyInit, ParentInit, CalmInit, OrderCorrect, TypeCorrect, PTL DEF Spec

\* A Stratum pool may rotate jobs, extend the chain and switch to a competing
\* parent: unless it goes back to a parent it has left, a calm connection
\* submits a nonce once under a parent.
THEOREM CalmCorrect ==
  ASSUME ~Lucky
  PROVE  Spec => []OnceWhenCalm
<1>1. CalmInv => OnceWhenCalm
  BY DEF CalmInv, OnceInv, OncePerParent, OnceWhenCalm
<1>. QED BY <1>1, CalmInvariant, PTL

\* The heights of the announced jobs, where a height has one parent.
HeightInv ==
  /\ \A i, j \in 1..Len(announced) : i <= j => announced[i].height <= announced[j].height
  /\ \A i, j \in 1..Len(announced) :
       announced[i].height = announced[j].height => announced[i].prev = announced[j].prev
  /\ \A i \in 1..Len(announced) : \E b \in Branches : announced[i].prev = 2 * announced[i].height + b

LEMMA SameHalf ==
  ASSUME NEW x \in Nat, NEW y \in Nat, NEW b \in Nat, 2 * x + b = 2 * y + b
  PROVE  x = y
OBVIOUS

\* A pool with one parent per height never goes back, so the property needs no
\* condition on the jobs announced.
THEOREM OneParentCorrect ==
  ASSUME ~Lucky, \A b, c \in Branches : b = c
  PROVE  Spec => [](upsets = 0 => OncePerParent)
<1>1. Init => HeightInv
  BY DEF Init, ClientInit, HeightInv
<1>2. ASSUME TypeOK, ParentInv, HeightInv, [Next]_vars PROVE HeightInv'
  <2>1. CASE announced' = announced
    BY <1>2, <2>1 DEF HeightInv
  <2>2. ASSUME NEW job \in Job, announced' = Append(announced, job), job.height >= Newest.height,
               \E x \in Branches : job.prev = 2 * job.height + x
        PROVE  HeightInv'
    <3>1. /\ Len(announced) \in Nat \ {0} /\ Len(announced') = Len(announced) + 1
          /\ announced'[Len(announced) + 1] = job
          /\ \A i \in 1..Len(announced) : announced'[i] = announced[i] /\ announced[i] \in Job
      BY <1>2, <2>2 DEF TypeOK, ConnTypeOK
    <3>2. \A i \in 1..Len(announced) : announced[i].height \in Nat
      BY <3>1 DEF Job
    <3>3. job.height \in Nat /\ \A i \in 1..Len(announced) : announced[i].height <= job.height
      <4>1. Len(announced) \in 1..Len(announced) /\ \A i \in 1..Len(announced) : i <= Len(announced)
        BY <3>1
      <4>2. \A i \in 1..Len(announced) : announced[i].height <= announced[Len(announced)].height
        BY <1>2, <4>1 DEF HeightInv
      <4>3. job.height \in Nat /\ job.height >= announced[Len(announced)].height
        BY <2>2 DEF Newest, Job
      <4>. QED BY <3>2, <4>1, <4>2, <4>3
    <3>4. \A i \in 1..Len(announced') : \E b \in Branches :
            announced'[i].prev = 2 * announced'[i].height + b
      BY <1>2, <2>2, <3>1 DEF HeightInv
    <3>5. \A i, j \in 1..Len(announced') : i <= j => announced'[i].height <= announced'[j].height
      BY <1>2, <3>1, <3>2, <3>3 DEF HeightInv
    <3>6. \A i, j \in 1..Len(announced') :
            announced'[i].height = announced'[j].height => announced'[i].prev = announced'[j].prev
      BY <3>4
    <3>. QED BY <3>4, <3>5, <3>6 DEF HeightInv
  <2>. QED BY <1>2, <2>1, <2>2, AnnouncedStep
<1>3. ASSUME TypeOK, HeightInv PROVE NoReturn
  <2>1. ASSUME NEW i \in 1..Len(announced), NEW j \in 1..Len(announced), NEW k \in 1..Len(announced),
               i <= j, j <= k, announced[i].prev = announced[k].prev
        PROVE  announced[j].prev = announced[i].prev
    <3>1. \A n \in 1..Len(announced) : announced[n].height \in Nat
      <4>1. \A n \in 1..Len(announced) : announced[n] \in Job
        BY <1>3 DEF TypeOK, ConnTypeOK
      <4>. QED BY <4>1 DEF Job
    <3>2. announced[i].height <= announced[j].height /\ announced[j].height <= announced[k].height
      BY <1>3, <2>1 DEF HeightInv
    <3>3. announced[i].height = announced[k].height
      <4>1. PICK b \in Branches : announced[i].prev = 2 * announced[i].height + b
        BY <1>3 DEF HeightInv
      <4>2. PICK c \in Branches : announced[k].prev = 2 * announced[k].height + c
        BY <1>3 DEF HeightInv
      <4>3. b = c /\ b \in Nat
        BY PoolAssumption
      <4>4. 2 * announced[i].height + b = 2 * announced[k].height + b
        BY <2>1, <4>1, <4>2, <4>3
      <4>5. announced[i].height \in Nat /\ announced[k].height \in Nat
        BY <3>1
      <4>. QED BY <4>3, <4>4, <4>5, SameHalf, Zenon
    <3>4. announced[j].height = announced[i].height
      BY <3>1, <3>2, <3>3
    <3>. QED BY <1>3, <3>4 DEF HeightInv
  <2>. QED BY <2>1 DEF NoReturn
<1>4. TypeOK /\ ParentInv /\ HeightInv /\ [Next]_vars => HeightInv'
  BY <1>2
<1>5. TypeOK /\ HeightInv => NoReturn
  BY <1>3
<1>6. CalmInv /\ NoReturn => (upsets = 0 => OncePerParent)
  BY DEF CalmInv, OnceInv
<1>. QED BY <1>1, <1>4, <1>5, <1>6, CalmInvariant, TypeCorrect, PTL DEF Spec

=============================================================================

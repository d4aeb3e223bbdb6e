------------------------------ MODULE Session ------------------------------
(***************************************************************************)
(* The life of a pool session: the handshake of StratumClient with its     *)
(* fallbacks, reconnects that build a new client, and the metrics thread   *)
(* of each client, which writes to the same socket as the mining loop      *)
(* without a lock.  A line is two parts of the byte stream, the second     *)
(* ends it; a socket buffer that runs full takes a part of a line.  What   *)
(* the loop does with jobs and shares is in PoolMiner.  The pool is        *)
(* external.                                                               *)
(***************************************************************************)
EXTENDS Integers, Sequences, FiniteSets

CONSTANTS
  Room,         \* parts of lines a socket buffer holds
  MaxUpsets,    \* bound: closes, refusals, silences and failed connects
  MaxReports,   \* bound: metrics reports begun
  Switches      \* calls of the loop for a payout switch, named after their ids; a bound

ASSUME SessionAssumption ==
  Room \in Nat \ {0} /\ MaxUpsets \in Nat /\ MaxReports \in Nat

\* Sockets are numbered as they are opened; only an upset makes a new one.
Streams == 1..MaxUpsets + 1

VARIABLES
  pc,          \* where the main thread is, see PCs
  client,      \* client of run_mining_loop
  making,      \* the StratumClient whose constructor runs, NoClient if none
  currentJob,  \* current_job: the stream it came on, 0 for None
  writing,     \* parts of a line the main thread has still to send
  calls,       \* calls for a payout switch that have been begun
  reporter,    \* metrics thread of the client on a stream, see Threads
  reports,     \* reports begun
  allowed,     \* pool_allows_luckypool_protocol
  lucky,       \* the pool speaks LuckyPool only
  opened,      \* sockets opened
  up,          \* neither side has closed the stream
  silent,      \* the pool neither reads nor writes nor closes
  out,         \* parts sent, not yet read by the pool
  part,        \* parts of an unfinished line the pool has read
  known,       \* what the pool knows of the session
  inbox,       \* lines for the client
  upsets,      \* how many of the MaxUpsets have happened
  short,       \* history: streams whose buffer could not take a line at once
  spoiled      \* history: lines lost in the text of another, with their stream

mainVars   == <<pc, client, making, currentJob, writing, calls>>
threadVars == <<reporter, reports>>
linkVars   == <<opened, up, silent, upsets>>
byteVars   == <<out, part>>
poolVars   == <<known, inbox, spoiled>>
vars == <<mainVars, threadVars, allowed, lucky, linkVars, byteVars, poolVars, short>>

Handshake == {"subscribe", "minimal", "login", "authorize", "drain"}
PCs == Handshake \cup {"start", "loop", "poll", "send", "offline", "exit"} \cup Switches

Kinds == {"subscribe", "minimal", "login", "authorize", "submit", "report"} \cup Switches
ASSUME SwitchAssumption ==
  Switches \cap (Handshake \cup {"start", "loop", "poll", "send", "offline", "exit",
                                 "submit", "report", "job", "answer"}) = {}

Parts(kind) == << <<kind, 1>>, <<kind, 2>> >>
Threads == {"none", "idle", "half"}   \* half: a part of its report is left

\* stream is its socket, first the first one its constructor opened, job the
\* stream of _current_job.
Client == [stream : Streams, first : Streams, protocol : {"stratum", "luckypool"},
           job : 0..MaxUpsets + 1]
NoClient == [stream |-> 0, first |-> 0, protocol |-> "stratum", job |-> 0]

Cur == IF pc \in Handshake THEN making.stream ELSE client.stream

Init ==
  /\ pc = "start"
  /\ client = NoClient /\ making = NoClient
  /\ currentJob = 0 /\ writing = <<>> /\ calls = {}
  /\ reporter = [s \in Streams |-> "none"] /\ reports = 0
  /\ allowed \in BOOLEAN /\ lucky \in BOOLEAN
  /\ opened = 0
  /\ up = [s \in Streams |-> FALSE] /\ silent = [s \in Streams |-> FALSE]
  /\ out = [s \in Streams |-> <<>>] /\ part = [s \in Streams |-> <<>>]
  /\ known = [s \in Streams |-> "nothing"]
  /\ inbox = [s \in Streams |-> <<>>]
  /\ upsets = 0 /\ short = {} /\ spoiled = {}

Upset == upsets < MaxUpsets /\ upsets' = upsets + 1

-----------------------------------------------------------------------------
(* Writing to a socket. *)

Space(s) == Room - Len(out[s])

\* The socket of the loop while process_available_messages reads it.
NonBlocking(s) == pc = "poll" /\ s = client.stream

\* One send of the kernel: as much of the parts as fit.
Taken(s, parts) == IF Len(parts) <= Space(s) THEN Len(parts) ELSE Space(s)

Put(s, parts) ==
  LET n == Taken(s, parts) IN
    /\ out' = [out EXCEPT ![s] = @ \o SubSeq(parts, 1, n)]
    /\ short' = IF n < Len(parts) THEN short \cup {s} ELSE short

Rest(s, parts) == SubSeq(parts, Taken(s, parts) + 1, Len(parts))

\* sendall of the main thread, in blocking mode: what does not fit waits.  On a
\* stream the peer has closed a line is lost, or raises ConnectionError.
Write ==
  /\ writing # <<>>
  /\ IF up[Cur]
     THEN /\ Space(Cur) > 0
          /\ Put(Cur, writing)
          /\ writing' = Rest(Cur, writing)
     ELSE writing' = <<>> /\ UNCHANGED <<out, short>>
  /\ UNCHANGED part
  /\ UNCHANGED <<pc, client, making, currentJob, calls, threadVars, allowed,
                 lucky, linkVars, poolVars>>

-----------------------------------------------------------------------------
(* The constructor: _connect and _handshake. *)

\* A stream that is closed takes the bytes on it along.
Shut(s) ==
  /\ up' = [up EXCEPT ![s] = FALSE]
  /\ out' = [out EXCEPT ![s] = <<>>] /\ part' = [part EXCEPT ![s] = <<>>]

\* _open_socket: a new socket, and nothing read from it; its predecessor has ended.
OpenSocket(newClient) ==
  /\ opened' = opened + 1
  /\ up' = [up EXCEPT ![opened + 1] = TRUE]
  /\ making' = [newClient EXCEPT !.stream = opened + 1,
                                 !.first = IF @ = 0 THEN opened + 1 ELSE @]

Send(kind) == pc' = kind /\ writing' = Parts(kind)

\* Mutant: the constructor starts the metrics thread, before its handshake.
ConnectReporting ==
  /\ pc \in {"start", "offline"}
  /\ OpenSocket(NoClient)
  /\ Send("subscribe")
  /\ reporter' = [reporter EXCEPT ![opened + 1] = "idle"]
  /\ UNCHANGED <<client, currentJob, calls, reports, allowed, lucky, silent,
                 upsets, byteVars, poolVars, short>>

\* StratumClient(...) at the start, or five seconds after a lost connection.
Connect ==
  /\ pc \in {"start", "offline"}
  /\ OpenSocket(NoClient)
  /\ Send("subscribe")
  /\ UNCHANGED <<client, currentJob, calls, threadVars, allowed, lucky, silent,
                 upsets, byteVars, poolVars, short>>

\* Mutant: the first failure is logged too.
LoopAnyway == "loop"

\* Mutant: no failure is.
ExitAlways == "exit"

\* After an exception in the constructor: the program ends, or logs it and goes on
\* with the client it has.
AfterFailure == IF client = NoClient THEN "exit" ELSE "loop"

\* The exception leaves the constructor; the socket is closed with the object.
GiveUp ==
  /\ pc' = AfterFailure
  /\ Shut(making.stream)
  /\ making' = NoClient
  /\ writing' = <<>>
  /\ UNCHANGED <<client, currentJob, calls, threadVars, allowed, lucky, opened,
                 silent, short>>

\* create_connection fails.
ConnectFails ==
  /\ pc \in {"start", "offline"}
  /\ Upset
  /\ pc' = AfterFailure
  /\ UNCHANGED <<client, making, currentJob, writing, calls, threadVars, allowed,
                 lucky, opened, up, silent, byteVars, poolVars, short>>

Waiting == pc \in Handshake /\ writing = <<>>

Reads(kind) ==
  /\ inbox[Cur] # <<>> /\ Head(inbox[Cur]).kind = kind
  /\ inbox' = [inbox EXCEPT ![Cur] = Tail(@)]
  /\ UNCHANGED <<known, spoiled>>

EndOfStream == ~up[Cur] /\ inbox[Cur] = <<>>

Answered(verdict) == Head(inbox[Cur]).verdict = verdict

\* _call: the answer it waits for.
Subscribed ==
  /\ Waiting /\ pc \in {"subscribe", "minimal"}
  /\ Reads("answer") /\ Answered("ok")
  /\ Send("authorize")
  /\ UNCHANGED <<client, making, currentJob, calls, threadVars, allowed, lucky,
                 linkVars, byteVars, short>>

\* "Method not found" and LuckyPool allowed.
TryLogin ==
  /\ Waiting /\ pc \in {"subscribe", "minimal"}
  /\ Reads("answer") /\ Answered("unknown") /\ allowed
  /\ making' = [making EXCEPT !.protocol = "luckypool"]
  /\ Send("login")
  /\ UNCHANGED <<client, currentJob, calls, threadVars, allowed, lucky, linkVars,
                 byteVars, short>>

\* Any other answer is raised.
Refused ==
  /\ Waiting
  /\ Reads("answer")
  /\ ~Answered("ok") /\ ~(Answered("unknown") /\ allowed)
  /\ GiveUp
  /\ UNCHANGED upsets

\* _dispatch_message; the 30 s of _call are only looked at after a line.
ReadJob ==
  /\ Waiting
  /\ Reads("job")
  /\ \/ /\ making' = [making EXCEPT !.job = making.stream]
        /\ UNCHANGED <<pc, client, currentJob, writing, calls, threadVars,
                       allowed, lucky, linkVars, byteVars, short>>
     \/ pc # "drain" /\ Upset /\ GiveUp

\* ConnectionError during mining.subscribe: the next variant on a new socket.
NextVariant ==
  /\ Waiting /\ pc = "subscribe"
  /\ EndOfStream
  /\ OpenSocket(making)
  /\ Send("minimal")
  /\ UNCHANGED <<client, currentJob, calls, threadVars, allowed, lucky, silent,
                 upsets, byteVars, poolVars, short>>

\* The new socket does not open.
VariantFails ==
  /\ Waiting /\ pc = "subscribe"
  /\ EndOfStream
  /\ Upset
  /\ GiveUp
  /\ UNCHANGED poolVars

HandshakeLost ==
  /\ Waiting /\ pc # "subscribe"
  /\ EndOfStream
  /\ GiveUp
  /\ UNCHANGED <<upsets, poolVars>>

\* _drain_handshake_messages, for three seconds.
Authorized ==
  /\ Waiting /\ pc = "authorize"
  /\ Reads("answer") /\ Answered("ok")
  /\ pc' = "drain"
  /\ UNCHANGED <<client, making, currentJob, writing, calls, threadVars, allowed,
                 lucky, linkVars, byteVars, short>>

\* Mutant: the job of the last session is kept.
ReadyKeepsJob ==
  /\ client' = making
  /\ making' = NoClient
  /\ pc' = "loop"
  /\ reporter' = IF making.protocol = "luckypool" THEN reporter
                 ELSE [reporter EXCEPT ![making.stream] = "idle"]
  /\ UNCHANGED <<currentJob, writing, calls, reports, allowed, lucky, linkVars,
                 byteVars, short>>

\* The constructor returns: the loop has a client, start_metrics_reporter gives it
\* a thread unless it speaks LuckyPool, and forgets the job of the last one.
Ready ==
  /\ client' = making
  /\ making' = NoClient
  /\ currentJob' = 0
  /\ pc' = "loop"
  /\ reporter' = IF making.protocol = "luckypool" THEN reporter
                 ELSE [reporter EXCEPT ![making.stream] = "idle"]
  /\ UNCHANGED <<writing, calls, reports, allowed, lucky, linkVars, byteVars, short>>

LoggedIn ==
  /\ Waiting /\ pc = "login"
  /\ Reads("answer") /\ Answered("ok")
  /\ Ready

Drained ==
  /\ Waiting /\ pc = "drain"
  /\ Ready
  /\ UNCHANGED poolVars

-----------------------------------------------------------------------------
(* The mining loop, as far as it uses the connection. *)

\* get_job hands over a job read before.
TakeJob ==
  /\ pc = "loop" /\ currentJob = 0 /\ client.job # 0
  /\ currentJob' = client.job
  /\ client' = [client EXCEPT !.job = 0]
  /\ UNCHANGED <<pc, making, writing, calls, threadVars, allowed, lucky, linkVars,
                 byteVars, poolVars, short>>

\* _dispatch_message: a job is kept for the loop; the answer to a call that is no
\* longer waited for is dropped.
Dispatched(kind) ==
  client' = IF kind = "job" THEN [client EXCEPT !.job = client.stream] ELSE client

\* get_job and process_available_messages: a line.
ReadLine ==
  /\ pc = "poll" \/ (pc = "loop" /\ currentJob = 0 /\ client.job = 0)
  /\ \E kind \in {"job"} \cup Switches : Reads(kind) /\ Dispatched(kind)
  /\ UNCHANGED <<pc, making, currentJob, writing, calls, threadVars, allowed,
                 lucky, linkVars, byteVars, short>>

\* fee_check, as time goes by: mining.authorize, or login, for the other address.
StartSwitch ==
  /\ pc = "loop" /\ currentJob # 0
  /\ \E call \in Switches \ calls : Send(call) /\ calls' = calls \cup {call}
  /\ UNCHANGED <<client, making, currentJob, threadVars, allowed, lucky, linkVars,
                 byteVars, poolVars, short>>

Calling == pc \in Switches /\ writing = <<>>

\* _call of send_authorize: the answer it waits for.  A refusal is raised, logged by
\* the loop, and the switch is due again.
Switched ==
  /\ Calling
  /\ Reads(pc)
  /\ pc' = "loop"
  /\ UNCHANGED <<client, making, currentJob, writing, calls, threadVars, allowed,
                 lucky, linkVars, byteVars, short>>

\* Any other line.  The 30 s of _call are only looked at after one; when they are over
\* the loop goes on, and the switch is due again.
CallReads ==
  /\ Calling
  /\ \E kind \in {"job"} \cup (Switches \ {pc}) : Reads(kind) /\ Dispatched(kind)
  /\ pc' \in {pc, "loop"}
  /\ UNCHANGED <<making, currentJob, writing, calls, threadVars, allowed, lucky,
                 linkVars, byteVars, short>>

\* process_available_messages switches the socket to non-blocking until EndPoll.
StartPoll ==
  /\ pc = "loop" /\ currentJob # 0
  /\ pc' = "poll"
  /\ UNCHANGED <<client, making, currentJob, writing, calls, threadVars, allowed, lucky,
                 linkVars, byteVars, poolVars, short>>

\* Nothing to read: the socket is blocking again, a fresh job is taken, and there
\* is a share to submit or not.
EndPoll ==
  /\ pc = "poll"
  /\ inbox[Cur] = <<>> /\ up[Cur]
  /\ currentJob' = IF client.job # 0 THEN client.job ELSE currentJob
  /\ client' = [client EXCEPT !.job = 0]
  /\ \/ pc' = "loop" /\ UNCHANGED writing
     \/ pc' = "send" /\ writing' = Parts("submit")
  /\ UNCHANGED <<making, calls, threadVars, allowed, lucky, linkVars, byteVars, poolVars,
                 short>>

Submitted ==
  /\ pc = "send" /\ writing = <<>>
  /\ pc' = "loop"
  /\ UNCHANGED <<client, making, currentJob, writing, calls, threadVars, allowed,
                 lucky, linkVars, byteVars, poolVars, short>>

\* Mutant: any error makes the loop reconnect, on an open stream too.
ReconnectOnError ==
  /\ pc = "poll"
  /\ Upset
  /\ pc' = "offline"
  /\ UNCHANGED <<client, making, currentJob, writing, calls, threadVars, allowed, lucky,
                 opened, up, silent, byteVars, poolVars, short>>

\* ConnectionError in the loop, while reading or while sending.
LoseConnection ==
  /\ \/ pc \in {"poll"} \cup Switches
     \/ pc = "loop" /\ currentJob = 0 /\ client.job = 0
     \/ pc = "send" /\ writing # <<>>
  /\ ~up[Cur]
  /\ writing = <<>> => inbox[Cur] = <<>>
  /\ pc' = "offline"
  /\ writing' = <<>>
  /\ UNCHANGED <<client, making, currentJob, calls, threadVars, allowed, lucky, linkVars,
                 byteVars, poolVars, short>>

-----------------------------------------------------------------------------
(* The metrics threads: one per client that was ever made, never stopped. *)

\* report_metrics: sendall, in the mode the loop has left the socket in.
Report(s) ==
  /\ reporter[s] = "idle" /\ reports < MaxReports
  /\ up[s] /\ Space(s) > 0
  /\ reports' = reports + 1
  /\ Put(s, Parts("report"))
  /\ reporter' = [reporter EXCEPT ![s] =
                     IF Rest(s, Parts("report")) = <<>> THEN "idle" ELSE "half"]
  /\ UNCHANGED <<mainVars, allowed, lucky, linkVars, part, poolVars>>

FinishReport(s) ==
  /\ reporter[s] = "half"
  /\ up[s] /\ Space(s) > 0
  /\ Put(s, << <<"report", 2>> >>)
  /\ reporter' = [reporter EXCEPT ![s] = "idle"]
  /\ UNCHANGED <<mainVars, reports, allowed, lucky, linkVars, part, poolVars>>

\* A closed stream, or BlockingIOError in the middle of the line: "metrics report
\* failed (non-fatal)", and the next one is due in its turn.
FailReport(s) ==
  /\ reporter[s] = "half"
  /\ ~up[s] \/ (Space(s) = 0 /\ NonBlocking(s))
  /\ reporter' = [reporter EXCEPT ![s] = "idle"]
  /\ UNCHANGED <<mainVars, reports, allowed, lucky, linkVars, byteVars, poolVars,
                 short>>

-----------------------------------------------------------------------------
(* The pool. *)

Answer(s, verdict) ==
  inbox' = [inbox EXCEPT ![s] = Append(@, [kind |-> "answer", verdict |-> verdict])]

Grant(s, knows) ==
  \/ Answer(s, "ok") /\ known' = [known EXCEPT ![s] = knows] /\ UNCHANGED upsets
  \/ Answer(s, "refused") /\ Upset /\ UNCHANGED known

\* A request that arrived whole.  The answer to a switch carries its id, and whether
\* it is granted changes nothing here.
Receive(s, kind) ==
  CASE kind \in {"subscribe", "minimal"} /\ lucky ->
         Answer(s, "unknown") /\ UNCHANGED <<known, upsets>>
    [] kind \in {"subscribe", "minimal"} /\ ~lucky -> Grant(s, "subscribed")
    [] kind \in {"login", "authorize"} -> Grant(s, "in")
    [] kind \in Switches ->
         /\ inbox' = [inbox EXCEPT ![s] = Append(@, [kind |-> kind])]
         /\ UNCHANGED <<known, upsets>>
    [] OTHER -> UNCHANGED <<inbox, known, upsets>>

\* The pool reads a part; at the end of a line it has a request, or a text it
\* cannot make sense of.
Take(s) ==
  /\ up[s] /\ ~silent[s] /\ out[s] # <<>>
  /\ out' = [out EXCEPT ![s] = Tail(@)]
  /\ LET kind == Head(out[s])[1] IN
       IF Head(out[s])[2] = 1
       THEN /\ part' = [part EXCEPT ![s] = Append(@, kind)]
            /\ UNCHANGED <<known, inbox, upsets, spoiled>>
       ELSE /\ part' = [part EXCEPT ![s] = <<>>]
            /\ IF part[s] = <<kind>>
               THEN Receive(s, kind) /\ UNCHANGED spoiled
               ELSE /\ LET lost == {kind} \cup {part[s][i] : i \in 1..Len(part[s])}
                       IN spoiled' = spoiled \cup {<<s, k>> : k \in lost}
                    /\ UNCHANGED <<known, inbox, upsets>>
  /\ UNCHANGED <<mainVars, threadVars, allowed, lucky, opened, up, silent, short>>

\* One unread job at a time, from the first moment on.
SendJob(s) ==
  /\ up[s] /\ ~silent[s]
  /\ \A i \in 1..Len(inbox[s]) : inbox[s][i].kind # "job"
  /\ inbox' = [inbox EXCEPT ![s] = Append(@, [kind |-> "job"])]
  /\ UNCHANGED <<mainVars, threadVars, allowed, lucky, linkVars, byteVars, known,
                 short, spoiled>>

Close(s) ==
  /\ up[s] /\ Upset
  /\ Shut(s)
  /\ UNCHANGED <<mainVars, threadVars, allowed, lucky, opened, silent, poolVars, short>>

FallSilent(s) ==
  /\ up[s] /\ ~silent[s] /\ Upset
  /\ silent' = [silent EXCEPT ![s] = TRUE]
  /\ UNCHANGED <<mainVars, threadVars, allowed, lucky, opened, up, byteVars, poolVars,
                 short>>

-----------------------------------------------------------------------------

Main ==
  \/ Write \/ Connect \/ Subscribed \/ TryLogin \/ Refused \/ ReadJob \/ NextVariant
  \/ HandshakeLost \/ Authorized \/ LoggedIn \/ Drained
  \/ TakeJob \/ ReadLine \/ StartSwitch \/ Switched \/ CallReads
  \/ StartPoll \/ EndPoll \/ Submitted \/ LoseConnection

Next ==
  \/ Main \/ ConnectFails \/ VariantFails
  \/ \E s \in Streams :
       \/ Report(s) \/ FinishReport(s) \/ FailReport(s)
       \/ Take(s) \/ SendJob(s) \/ Close(s) \/ FallSilent(s)

Spec == Init /\ [][Next]_vars

\* The main thread runs on, and the three seconds of a drain pass; there are
\* moments in which nothing is left to read.  A pool that has not fallen silent
\* reads and answers, and sends a job to a client that has none.
FairSpec ==
  /\ Spec
  /\ WF_vars(Main) /\ WF_vars(Drained) /\ SF_vars(EndPoll)
  /\ \A s \in Streams : WF_vars(Take(s)) /\ WF_vars(SendJob(s))

-----------------------------------------------------------------------------
(* Properties. *)

InLoop == pc \in {"loop", "poll", "send"} \cup Switches

TypeOK ==
  /\ pc \in PCs
  /\ client \in Client \cup {NoClient}
  /\ making \in Client \cup {NoClient}
  /\ (making # NoClient) = (pc \in Handshake)
  /\ InLoop => client # NoClient
  /\ opened <= MaxUpsets + 1
  /\ \A s \in Streams :
       /\ reporter[s] \in Threads
       /\ Len(out[s]) <= Room
       /\ \A i \in 1..Len(inbox[s]) : inbox[s][i].kind \in {"job", "answer"} \cup Switches
       /\ up[s] => s <= opened

\* A line is only lost in the text of another on a connection whose buffer ran
\* full, and it is one of the loop or of a metrics thread: a share, the call of a
\* payout switch, a report.  The lines of a handshake always arrive whole, also while
\* the threads of earlier clients go on.
HandshakeWhole ==
  \A line \in spoiled :
    line[1] \in short /\ line[2] \in {"submit", "report"} \cup Switches

\* The loop mines on a session the pool has admitted, in the pool's protocol, and
\* on a job this client has read: after a reconnect none of the last session.
SessionAgreed ==
  InLoop =>
    /\ known[client.stream] = "in"
    /\ (client.protocol = "luckypool") = lucky
    /\ currentJob # 0 => currentJob \in client.first..client.stream

\* A report arrives on the connection the loop mines on, or on none: those of
\* earlier clients' threads no longer get through.
ReportsCurrent ==
  [][\A s \in Streams :
       (Take(s) /\ Head(out[s]) = <<"report", 2>> /\ part[s] = <<"report">>) =>
         s = client.stream]_vars

\* A lost or refused connection is followed by a session that is up; the program
\* only ends, or waits for ever, if the first handshake fails or the pool is
\* silent without closing.
BackInLoop ==
  (pc = "offline") ~>
    \/ InLoop /\ up[client.stream]
    \/ \E s \in Streams : up[s] /\ silent[s]
=============================================================================

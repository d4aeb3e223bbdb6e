--------------------------- MODULE SessionProofs ---------------------------
(***************************************************************************)
(* Theorems of Session, for any size of the socket buffers and any number  *)
(* of upsets, reports and payout switches: type correctness, that the      *)
(* lines of a handshake arrive whole, that the loop mines on a session     *)
(* both sides agree on, and that only the metrics thread of the current    *)
(* client gets through.  All rest on one inductive invariant about the     *)
(* sockets, the bytes on them and the lines in the inboxes.                *)
(***************************************************************************)
EXTENDS Session, SequenceTheorems, TLAPS

-----------------------------------------------------------------------------
(* The inductive invariant. *)

Piece == Kinds \X {1, 2}
Reply == [kind : {"job"} \cup Switches] \cup [kind : {"answer"}, verdict : {"ok", "refused", "unknown"}]
Knows == {"nothing", "subscribed", "in"}

MainTypes ==
  /\ pc \in PCs
  /\ client \in Client \cup {NoClient} /\ making \in Client \cup {NoClient}
  /\ making # NoClient <=> pc \in Handshake
  /\ InLoop => client # NoClient
  /\ currentJob \in 0..MaxUpsets + 1
  /\ writing \in Seq(Piece)
  /\ allowed \in BOOLEAN /\ lucky \in BOOLEAN

LinkTypes ==
  /\ opened \in 0..MaxUpsets + 1 /\ upsets \in 0..MaxUpsets
  /\ up \in [Streams -> BOOLEAN] /\ silent \in [Streams -> BOOLEAN]
  /\ reporter \in [Streams -> Threads] /\ reports \in Nat

ByteTypes ==
  /\ out \in [Streams -> Seq(Piece)] /\ part \in [Streams -> Seq(Kinds)]
  /\ short \subseteq Streams /\ spoiled \subseteq Streams \X Kinds
  /\ known \in [Streams -> Knows] /\ inbox \in [Streams -> Seq(Reply)]
  /\ \A s \in Streams : Len(out[s]) <= Room

\* Only the newest socket can be open, and nothing has been done with one that
\* is not opened yet.
UpInv ==
  /\ \A s \in Streams : up[s] => s = opened /\ s = Cur /\ pc \notin {"start", "offline", "exit"}
  /\ \A s \in Streams : ~up[s] => out[s] = <<>> /\ part[s] = <<>>
  /\ \A s \in Streams : s > opened =>
       /\ reporter[s] = "none" /\ s \notin short /\ inbox[s] = <<>> /\ known[s] = "nothing"

\* Each socket but an open one has cost an upset.
CountInv ==
  /\ pc = "start" => opened = 0
  /\ opened <= upsets + 1
  /\ pc # "exit" /\ opened > 0 => up[opened] \/ opened <= upsets

\* An inbox never has two jobs, or two answers to the handshake.
OneEach(lines) ==
  \A i, j \in 1..Len(lines) :
    lines[i].kind = lines[j].kind /\ lines[i].kind \in {"job", "answer"} => i = j
Answers(lines) == { lines[i] : i \in { j \in 1..Len(lines) : lines[j].kind = "answer" } }

InboxInv == \A s \in Streams : OneEach(inbox[s])

Quiet(s) == writing = <<>> /\ out[s] = <<>> /\ part[s] = <<>>

\* The line of the handshake, between the main thread, the socket and the pool.
InFlight(s, kind) ==
  \/ writing = Parts(kind) /\ out[s] = <<>> /\ part[s] = <<>>
  \/ /\ writing = << <<kind, 2>> >>
     /\ \/ out[s] = << <<kind, 1>> >> /\ part[s] = <<>>
        \/ out[s] = <<>> /\ part[s] = <<kind>>
  \/ writing = <<>> /\ out[s] = Parts(kind) /\ part[s] = <<>>
  \/ writing = <<>> /\ out[s] = << <<kind, 2>> >> /\ part[s] = <<kind>>
  \/ Quiet(s)

\* What an answer says of the pool.
AnswerTrue(s, verdict) ==
  /\ verdict = "ok" => IF pc \in {"subscribe", "minimal"} THEN ~lucky ELSE known[s] = "in"
  /\ verdict = "unknown" => lucky /\ pc \in {"subscribe", "minimal"}
  /\ verdict = "refused" => opened <= upsets

HandshakeInv ==
  pc \in Handshake => LET s == making.stream IN
    /\ s = opened /\ reporter[s] = "none"
    /\ writing \in {<<>>, Parts(pc), << <<pc, 2>> >>}
    /\ up[s] => InFlight(s, pc)
    /\ Answers(inbox[s]) # {} => Quiet(s)
    /\ \A a \in Answers(inbox[s]) : AnswerTrue(s, a.verdict)
    /\ pc = "drain" => Quiet(s) /\ Answers(inbox[s]) = {} /\ known[s] = "in"
    /\ making.protocol = (IF pc = "login" THEN "luckypool" ELSE "stratum")
    /\ pc = "login" => lucky /\ allowed
    /\ pc \in {"authorize", "drain"} => ~lucky
    /\ making.first <= s /\ (making.job # 0 => making.job \in making.first..s)

ClientInv ==
  client # NoClient =>
    /\ client.stream <= opened /\ client.stream # making.stream
    /\ known[client.stream] = "in"
    /\ (client.protocol = "luckypool") <=> lucky
    /\ lucky => allowed
    /\ client.first <= client.stream
    /\ client.job # 0 => client.job \in client.first..client.stream
    /\ currentJob # 0 => currentJob \in client.first..client.stream

\* Lines follow each other whole, the first perhaps begun.
Whole(begun, rest) ==
  /\ begun # <<>> => rest # <<>> /\ rest[1][2] = 2 /\ begun = <<rest[1][1]>>
  /\ rest # <<>> /\ rest[1][2] = 2 => begun # <<>>
  /\ \A i \in 1..Len(rest) : rest[i][2] = 1 =>
       i < Len(rest) /\ rest[i + 1] = <<rest[i][1], 2>>
  /\ \A i \in 2..Len(rest) : rest[i][2] = 2 => rest[i - 1][2] = 1

LoopLines == {"submit", "report"} \cup Switches

\* The line the loop writes where it writes one.
Sends == {"send"} \cup Switches
Line == IF pc = "send" THEN "submit" ELSE pc

\* After the handshake, only shares, calls of switches and reports are written, and
\* they arrive whole unless the buffer once was too small for a line.
LoopInv ==
  /\ pc \notin Handshake \cup Sends => writing = <<>>
  /\ pc \in Sends => /\ writing \in {<<>>, Parts(Line), << <<Line, 2>> >>}
                     /\ writing = << <<Line, 2>> >> => client.stream \in short
  /\ \A s \in Streams : s # making.stream =>
       /\ \A i \in 1..Len(out[s]) : out[s][i][1] \in LoopLines
       /\ \A i \in 1..Len(part[s]) : part[s][i] \in LoopLines
       /\ s \notin short => Whole(part[s], out[s])
  /\ \A s \in Streams : reporter[s] = "half" => s \in short

SessionInv ==
  /\ MainTypes /\ LinkTypes /\ ByteTypes
  /\ UpInv /\ CountInv /\ InboxInv /\ HandshakeInv /\ ClientInv /\ LoopInv
  /\ HandshakeWhole

\* A switch is no other place of the main thread, nor another kind of line.
LEMMA SwitchesApart ==
  \A c \in Switches :
    /\ c \notin Handshake
    /\ c \notin {"subscribe", "minimal", "login", "authorize", "drain"}
    /\ c \notin {"start", "loop", "poll", "send", "offline", "exit"}
    /\ c \notin {"submit", "report", "job", "answer"}
BY SwitchAssumption DEF Handshake

-----------------------------------------------------------------------------
(* Lines in an inbox and parts on a stream. *)

LEMMA PopLine ==
  ASSUME NEW q \in Seq(Reply), q # <<>>, OneEach(q)
  PROVE  /\ Tail(q) \in Seq(Reply) /\ OneEach(Tail(q))
         /\ Answers(Tail(q)) \subseteq Answers(q)
         /\ Head(q).kind = "answer" => Head(q) \in Answers(q) /\ Answers(Tail(q)) = {}
<1>1. /\ Tail(q) \in Seq(Reply) /\ Len(Tail(q)) = Len(q) - 1 /\ Len(q) \in Nat \ {0}
      /\ \A i \in 1..Len(Tail(q)) : Tail(q)[i] = q[i + 1]
      /\ Head(q) = q[1]
  BY HeadTailProperties, EmptySeq, LenProperties
<1>2. \A i \in 1..Len(Tail(q)) : i + 1 \in 1..Len(q) /\ i \in Nat /\ i + 1 # 1
  BY <1>1
<1>3. OneEach(Tail(q))
  <2> SUFFICES ASSUME NEW i \in 1..Len(Tail(q)), NEW j \in 1..Len(Tail(q)),
                      Tail(q)[i].kind = Tail(q)[j].kind,
                      Tail(q)[i].kind \in {"job", "answer"}
               PROVE  i = j
    BY DEF OneEach
  <2>1. i + 1 = j + 1
    BY <1>1, <1>2 DEF OneEach
  <2> QED BY <1>2, <2>1
<1>4. Answers(Tail(q)) \subseteq Answers(q)
  <2> SUFFICES ASSUME NEW i \in 1..Len(Tail(q)), Tail(q)[i].kind = "answer"
               PROVE  Tail(q)[i] \in Answers(q)
    BY DEF Answers
  <2> QED BY <1>1, <1>2 DEF Answers
<1>5. ASSUME Head(q).kind = "answer"
      PROVE  Head(q) \in Answers(q) /\ Answers(Tail(q)) = {}
  <2>1. 1 \in 1..Len(q)
    BY <1>1
  <2>2. Head(q) \in Answers(q)
    BY <1>1, <1>5, <2>1 DEF Answers
  <2>3. ASSUME NEW i \in 1..Len(Tail(q)), Tail(q)[i].kind = "answer" PROVE FALSE
    BY <1>1, <1>2, <1>5, <2>1, <2>3 DEF OneEach
  <2> QED BY <2>2, <2>3 DEF Answers
<1> QED BY <1>1, <1>3, <1>4, <1>5

LEMMA PushJob ==
  ASSUME NEW q \in Seq(Reply), OneEach(q), \A i \in 1..Len(q) : q[i].kind # "job"
  PROVE  LET r == Append(q, [kind |-> "job"])
         IN r \in Seq(Reply) /\ OneEach(r) /\ Answers(r) = Answers(q)
<1> DEFINE line == [kind |-> "job"]
           r == Append(q, line)
<1>1. line \in Reply /\ line.kind = "job"
  BY DEF Reply
<1> HIDE DEF line
<1>2. /\ r \in Seq(Reply) /\ Len(r) = Len(q) + 1 /\ Len(q) \in Nat
      /\ \A i \in 1..Len(q) : r[i] = q[i]
      /\ r[Len(q) + 1] = line
  BY <1>1, AppendProperties, LenProperties
<1> HIDE DEF r
<1>3. \A i \in 1..Len(r) : i \in 1..Len(q) \/ i = Len(q) + 1
  BY <1>2
<1>4. OneEach(r)
  BY <1>1, <1>2, <1>3 DEF OneEach
<1>5. Answers(r) = Answers(q)
  <2>1. \A i \in 1..Len(q) : i \in 1..Len(r)
    BY <1>2
  <2> QED BY <1>1, <1>2, <1>3, <2>1 DEF Answers
<1> QED BY <1>2, <1>4, <1>5 DEF r, line

LEMMA PushAnswer ==
  ASSUME NEW q \in Seq(Reply), OneEach(q), Answers(q) = {},
         NEW verdict \in {"ok", "refused", "unknown"}
  PROVE  LET a == [kind |-> "answer", verdict |-> verdict]
             r == Append(q, a)
         IN r \in Seq(Reply) /\ OneEach(r) /\ Answers(r) = {a} /\ a.verdict = verdict
<1> DEFINE a == [kind |-> "answer", verdict |-> verdict]
           r == Append(q, a)
<1>1. a \in Reply /\ a.kind = "answer" /\ a.verdict = verdict
  BY DEF Reply
<1> HIDE DEF a
<1>2. /\ r \in Seq(Reply) /\ Len(r) = Len(q) + 1 /\ Len(q) \in Nat
      /\ \A i \in 1..Len(q) : r[i] = q[i]
      /\ r[Len(q) + 1] = a
  BY <1>1, AppendProperties, LenProperties
<1> HIDE DEF r
<1>3. \A i \in 1..Len(r) : i \in 1..Len(q) \/ i = Len(q) + 1
  BY <1>2
<1>4. \A i \in 1..Len(q) : q[i].kind # "answer"
  BY DEF Answers
<1>5. OneEach(r)
  BY <1>1, <1>2, <1>3, <1>4 DEF OneEach
<1>6. Answers(r) = {a}
  <2>1. Len(q) + 1 \in 1..Len(r)
    BY <1>2
  <2> QED BY <1>1, <1>2, <1>3, <1>4, <2>1 DEF Answers
<1> QED BY <1>1, <1>2, <1>5, <1>6 DEF r, a

LEMMA PushSwitch ==
  ASSUME NEW q \in Seq(Reply), OneEach(q), NEW c \in Switches
  PROVE  LET r == Append(q, [kind |-> c])
         IN r \in Seq(Reply) /\ OneEach(r) /\ Answers(r) = Answers(q)
<1> DEFINE line == [kind |-> c]
           r == Append(q, line)
<1>1. line \in Reply /\ line.kind = c /\ c # "job" /\ c # "answer"
  BY SwitchesApart DEF Reply
<1> HIDE DEF line
<1>2. /\ r \in Seq(Reply) /\ Len(r) = Len(q) + 1 /\ Len(q) \in Nat
      /\ \A i \in 1..Len(q) : r[i] = q[i]
      /\ r[Len(q) + 1] = line
  BY <1>1, AppendProperties, LenProperties
<1> HIDE DEF r
<1>3. \A i \in 1..Len(r) : i \in 1..Len(q) \/ i = Len(q) + 1
  BY <1>2
<1>4. OneEach(r)
  BY <1>1, <1>2, <1>3 DEF OneEach
<1>5. Answers(r) = Answers(q)
  <2>1. \A i \in 1..Len(q) : i \in 1..Len(r)
    BY <1>2
  <2> QED BY <1>1, <1>2, <1>3, <2>1 DEF Answers
<1> QED BY <1>2, <1>4, <1>5 DEF r, line

LEMMA WholeAppend ==
  ASSUME NEW begun \in Seq(Kinds), NEW rest \in Seq(Piece), NEW kind \in Kinds,
         Whole(begun, rest)
  PROVE  Whole(begun, rest \o Parts(kind))
<1> DEFINE all == rest \o Parts(kind)
<1>1. /\ Parts(kind) \in Seq(Piece) /\ Len(Parts(kind)) = 2
      /\ Parts(kind)[1] = <<kind, 1>> /\ Parts(kind)[2] = <<kind, 2>>
  BY DEF Parts, Piece
<1>2. /\ Len(all) = Len(rest) + 2 /\ Len(rest) \in Nat
      /\ \A i \in 1..Len(rest) : all[i] = rest[i]
      /\ all[Len(rest) + 1] = <<kind, 1>> /\ all[Len(rest) + 2] = <<kind, 2>>
  <2>1. /\ Len(all) = Len(rest) + Len(Parts(kind))
        /\ \A i \in 1..Len(rest) + Len(Parts(kind)) :
             all[i] = IF i <= Len(rest) THEN rest[i] ELSE Parts(kind)[i - Len(rest)]
    BY <1>1, ConcatProperties
  <2>2. Len(rest) \in Nat
    BY LenProperties
  <2> HIDE DEF all
  <2>3. \A i \in 1..Len(rest) : all[i] = rest[i]
    BY <1>1, <2>1, <2>2
  <2>4. Len(all) = Len(rest) + 2
    BY <1>1, <2>1
  <2>5. /\ Len(rest) + 1 \in 1..Len(rest) + Len(Parts(kind)) /\ ~(Len(rest) + 1 <= Len(rest))
        /\ Len(rest) + 2 \in 1..Len(rest) + Len(Parts(kind)) /\ ~(Len(rest) + 2 <= Len(rest))
        /\ Len(rest) + 1 - Len(rest) = 1 /\ Len(rest) + 2 - Len(rest) = 2
    BY <1>1, <2>2
  <2>6. all[Len(rest) + 1] = Parts(kind)[1] /\ all[Len(rest) + 2] = Parts(kind)[2]
    <3>1. all[Len(rest) + 1] = Parts(kind)[Len(rest) + 1 - Len(rest)]
      BY <2>1, <2>5
    <3>2. all[Len(rest) + 2] = Parts(kind)[Len(rest) + 2 - Len(rest)]
      BY <2>1, <2>5
    <3> QED BY <2>5, <3>1, <3>2
  <2>7. all[Len(rest) + 1] = <<kind, 1>> /\ all[Len(rest) + 2] = <<kind, 2>>
    BY <1>1, <2>6, Zenon
  <2> QED BY <2>2, <2>3, <2>4, <2>7, Zenon
<1>3. all # <<>>
  BY <1>2, EmptySeq
<1>4. rest = <<>> => begun = <<>>
  BY DEF Whole
<1>5. rest # <<>> => Len(rest) > 0 /\ 1 \in 1..Len(rest)
  BY <1>2, EmptySeq
<1>6. rest = <<>> => Len(rest) = 0
  BY EmptySeq
<1> HIDE DEF all
<1>7. \A i \in 1..Len(all) : i \in 1..Len(rest) \/ i = Len(rest) + 1 \/ i = Len(rest) + 2
  BY <1>2
<1>8. ASSUME NEW i \in 1..Len(all), all[i][2] = 1
      PROVE  i < Len(all) /\ all[i + 1] = <<all[i][1], 2>>
  <2>1. CASE i \in 1..Len(rest)
    <3>1. i < Len(rest) /\ rest[i + 1] = <<rest[i][1], 2>>
      BY <1>2, <1>8, <2>1 DEF Whole
    <3>2. i + 1 \in 1..Len(rest) /\ i < Len(all)
      BY <1>2, <3>1, <2>1
    <3> QED BY <1>2, <2>1, <3>1, <3>2
  <2>2. CASE i = Len(rest) + 1
    BY <1>2, <2>2
  <2>3. CASE i = Len(rest) + 2
    BY <1>2, <1>8, <2>3
  <2> QED BY <1>7, <2>1, <2>2, <2>3
<1>9. ASSUME NEW i \in 2..Len(all), all[i][2] = 2
      PROVE  all[i - 1][2] = 1
  <2>1. CASE i \in 1..Len(rest)
    <3>1. i \in 2..Len(rest) /\ i - 1 \in 1..Len(rest)
      BY <2>1
    <3> QED BY <1>2, <1>9, <2>1, <3>1 DEF Whole
  <2>2. CASE i = Len(rest) + 1
    BY <1>2, <1>9, <2>2
  <2>3. CASE i = Len(rest) + 2
    BY <1>2, <2>3
  <2> QED BY <1>7, <2>1, <2>2, <2>3
<1>10. (begun # <<>> => all[1][2] = 2 /\ begun = <<all[1][1]>>) /\ (all[1][2] = 2 => begun # <<>>)
  <2>1. CASE rest = <<>>
    BY <1>2, <1>4, <1>6, <2>1
  <2>2. CASE rest # <<>>
    BY <1>2, <1>5, <2>2 DEF Whole
  <2> QED BY <2>1, <2>2
<1> QED BY <1>3, <1>8, <1>9, <1>10 DEF Whole, all

LEMMA WholeTail ==
  ASSUME NEW begun \in Seq(Kinds), NEW rest \in Seq(Piece), rest # <<>>,
         Whole(begun, rest)
  PROVE  /\ Head(rest)[2] = 1 => begun = <<>> /\ Whole(<<Head(rest)[1]>>, Tail(rest))
         /\ Head(rest)[2] # 1 => begun = <<Head(rest)[1]>> /\ Whole(<<>>, Tail(rest))
<1> DEFINE tail == Tail(rest)
<1>1. /\ tail \in Seq(Piece) /\ Len(tail) = Len(rest) - 1 /\ Len(rest) \in Nat \ {0}
      /\ \A i \in 1..Len(tail) : tail[i] = rest[i + 1]
      /\ Head(rest) = rest[1] /\ rest[1] \in Piece
  BY HeadTailProperties, EmptySeq, LenProperties
<1> HIDE DEF tail
<1>2. rest[1][2] \in {1, 2} /\ 1 \in 1..Len(rest)
  BY <1>1 DEF Piece
<1>3. ASSUME NEW i \in 1..Len(tail), tail[i][2] = 1
      PROVE  i < Len(tail) /\ tail[i + 1] = <<tail[i][1], 2>>
  <2>1. i + 1 \in 1..Len(rest) /\ tail[i] = rest[i + 1] /\ i \in Nat
    BY <1>1
  <2>2. i + 1 < Len(rest) /\ rest[(i + 1) + 1] = <<rest[i + 1][1], 2>>
    BY <1>3, <2>1 DEF Whole
  <2>3. i + 1 \in 1..Len(tail) /\ i < Len(tail)
    BY <1>1, <2>1, <2>2
  <2>4. tail[i + 1] = rest[(i + 1) + 1]
    BY <1>1, <2>3
  <2> QED BY <2>1, <2>2, <2>3, <2>4
<1>4. ASSUME NEW i \in 2..Len(tail), tail[i][2] = 2
      PROVE  tail[i - 1][2] = 1
  <2>1. i \in 1..Len(tail) /\ i - 1 \in 1..Len(tail) /\ i + 1 \in 2..Len(rest)
    BY <1>1
  <2>2. tail[i] = rest[i + 1] /\ tail[i - 1] = rest[(i - 1) + 1]
    BY <1>1, <2>1
  <2>3. (i - 1) + 1 = i /\ (i + 1) - 1 = i
    OBVIOUS
  <2> QED BY <1>4, <2>1, <2>2, <2>3 DEF Whole
<1>5. tail # <<>> => Len(tail) > 0 /\ 1 \in 1..Len(tail) /\ 2 \in 2..Len(rest) /\ tail[1] = rest[2]
  BY <1>1, EmptySeq
<1>6. ASSUME rest[1][2] = 1
      PROVE  begun = <<>> /\ Whole(<<rest[1][1]>>, tail)
  <2>1. begun = <<>>
    BY <1>6 DEF Whole
  <2>2. 1 < Len(rest) /\ rest[2] = <<rest[1][1], 2>>
    BY <1>2, <1>6 DEF Whole
  <2>3. 1 \in 1..Len(tail) /\ tail # <<>>
    BY <1>1, <2>2, EmptySeq
  <2>4. tail[1] = <<rest[1][1], 2>>
    BY <1>5, <2>2, <2>3
  <2> QED BY <2>1, <2>3, <2>4, <1>3, <1>4 DEF Whole
<1>7. ASSUME rest[1][2] # 1
      PROVE  begun = <<rest[1][1]>> /\ Whole(<<>>, tail)
  <2>1. rest[1][2] = 2 /\ begun = <<rest[1][1]>>
    BY <1>2, <1>7 DEF Whole
  <2>2. tail # <<>> => tail[1][2] # 2
    BY <1>5, <2>1 DEF Whole
  <2> QED BY <2>1, <2>2, <1>3, <1>4 DEF Whole
<1> QED BY <1>1, <1>6, <1>7 DEF tail

-----------------------------------------------------------------------------
(* One send. *)

Begin(kind) == << <<kind, 1>> >>
End(kind) == << <<kind, 2>> >>

LEMMA OnePart ==
  ASSUME NEW p \in Seq(Piece), NEW i \in 1..Len(p)
  PROVE  SubSeq(p, i, i) = <<p[i]>>
<1>1. /\ SubSeq(p, i, i) \in Seq(Piece) /\ Len(SubSeq(p, i, i)) = 1
      /\ SubSeq(p, i, i)[1] = p[i]
  <2>1. /\ SubSeq(p, i, i) \in Seq(Piece)
        /\ Len(SubSeq(p, i, i)) = IF i <= i THEN i - i + 1 ELSE 0
        /\ \A j \in 1..(i - i + 1) : SubSeq(p, i, i)[j] = p[i + j - 1]
    BY SubSeqProperties
  <2>2. i - i + 1 = 1 /\ i + 1 - 1 = i
    OBVIOUS
  <2> QED BY <2>1, <2>2
<1> HIDE DEF Piece
<1> DEFINE q == SubSeq(p, i, i)
<1> HIDE DEF q
<1>2. q \in Seq(Piece) /\ Len(q) = 1 /\ q[1] = p[i]
  BY <1>1 DEF q
<1>3. q = <<q[1]>>
  BY <1>2
<1> QED BY <1>2, <1>3 DEF q

LEMMA PartsType ==
  ASSUME NEW kind \in Kinds
  PROVE  /\ Parts(kind) \in Seq(Piece) /\ Begin(kind) \in Seq(Piece) /\ End(kind) \in Seq(Piece)
         /\ Len(Parts(kind)) = 2 /\ Len(Begin(kind)) = 1 /\ Len(End(kind)) = 1
         /\ SubSeq(Parts(kind), 1, 2) = Parts(kind) /\ SubSeq(Parts(kind), 3, 2) = <<>>
         /\ SubSeq(Parts(kind), 1, 1) = Begin(kind) /\ SubSeq(Parts(kind), 2, 2) = End(kind)
         /\ SubSeq(End(kind), 1, 1) = End(kind) /\ SubSeq(End(kind), 2, 1) = <<>>
<1>1. /\ Parts(kind) \in Seq(Piece) /\ Begin(kind) \in Seq(Piece) /\ End(kind) \in Seq(Piece)
      /\ Len(Parts(kind)) = 2 /\ Len(Begin(kind)) = 1 /\ Len(End(kind)) = 1
      /\ Parts(kind)[1] = <<kind, 1>> /\ Parts(kind)[2] = <<kind, 2>>
      /\ End(kind)[1] = <<kind, 2>>
  BY DEF Parts, Begin, End, Piece
<1>2. SubSeq(Parts(kind), 1, 1) = Begin(kind) /\ SubSeq(Parts(kind), 2, 2) = End(kind)
  BY <1>1, OnePart DEF Begin, End
<1>3. SubSeq(End(kind), 1, 1) = End(kind)
  <2> DEFINE p == End(kind)
  <2>1. p \in Seq(Piece) /\ Len(p) = 1
    BY <1>1
  <2> HIDE DEF p
  <2>2. SubSeq(p, 1, Len(p)) = p
    BY <2>1, SubSeqFull
  <2> QED BY <2>1, <2>2 DEF p
<1>4. SubSeq(Parts(kind), 1, 2) = Parts(kind)
  BY <1>1, SubSeqFull
<1>5. SubSeq(Parts(kind), 3, 2) = <<>> /\ SubSeq(End(kind), 2, 1) = <<>>
  BY <1>1, SubSeqEmpty
<1> QED BY <1>1, <1>2, <1>3, <1>4, <1>5

LEMMA TwoParts ==
  ASSUME NEW kind \in Kinds
  PROVE  Begin(kind) \o End(kind) = Parts(kind)
<1> DEFINE all == Begin(kind) \o End(kind)
<1>1. /\ Begin(kind) \in Seq(Piece) /\ End(kind) \in Seq(Piece)
      /\ Len(Begin(kind)) = 1 /\ Len(End(kind)) = 1
      /\ Begin(kind)[1] = <<kind, 1>> /\ End(kind)[1] = <<kind, 2>>
  BY PartsType DEF Begin, End
<1>2. /\ all \in Seq(Piece) /\ Len(all) = 2
      /\ all[1] = Begin(kind)[1] /\ all[2] = End(kind)[1]
  BY <1>1, ConcatProperties
<1> HIDE DEF all, Piece
<1>3. all = <<all[1], all[2]>>
  BY <1>2
<1>4. all = << <<kind, 1>>, <<kind, 2>> >>
  BY <1>1, <1>2, <1>3
<1> QED BY <1>4 DEF all, Parts

LEMMA Grown ==
  ASSUME ByteTypes, NEW s \in Streams, NEW more \in Seq(Piece), Len(more) <= Space(s),
         out' = [out EXCEPT ![s] = @ \o more]
  PROVE  /\ out' \in [Streams -> Seq(Piece)] /\ out'[s] = out[s] \o more
         /\ \A t \in Streams : t # s => out'[t] = out[t]
         /\ \A t \in Streams : Len(out'[t]) <= Room
<1>1. out[s] \in Seq(Piece) /\ out \in [Streams -> Seq(Piece)]
  BY DEF ByteTypes
<1>2. out[s] \o more \in Seq(Piece) /\ Len(out[s] \o more) = Len(out[s]) + Len(more)
  BY <1>1, ConcatProperties
<1>3. Len(out[s]) \in Nat /\ Len(more) \in Nat /\ Room \in Nat
  BY <1>1, LenProperties, SessionAssumption
<1>4. Len(out[s]) + Len(more) <= Room
  BY <1>3 DEF Space
<1> QED BY <1>1, <1>2, <1>4 DEF ByteTypes

LEMMA PutParts ==
  ASSUME ByteTypes, NEW s \in Streams, NEW kind \in Kinds, Space(s) > 0, Put(s, Parts(kind))
  PROVE  \/ /\ out' = [out EXCEPT ![s] = @ \o Parts(kind)] /\ short' = short
            /\ Rest(s, Parts(kind)) = <<>> /\ Len(Parts(kind)) <= Space(s)
         \/ /\ out' = [out EXCEPT ![s] = @ \o Begin(kind)] /\ short' = short \cup {s}
            /\ Rest(s, Parts(kind)) = End(kind) /\ Len(Begin(kind)) <= Space(s)
<1>1. Space(s) \in Int
  BY SessionAssumption, LenProperties DEF ByteTypes, Space
<1>2. CASE Space(s) >= 2
  <2>1. Taken(s, Parts(kind)) = 2
    BY <1>1, <1>2, PartsType DEF Taken
  <2>2. /\ Len(Parts(kind)) = 2 /\ SubSeq(Parts(kind), 1, 2) = Parts(kind)
        /\ SubSeq(Parts(kind), 2 + 1, 2) = <<>>
    BY PartsType
  <2> DEFINE p == Parts(kind)
             n == Taken(s, p)
  <2>3. SubSeq(p, 1, n) = p /\ SubSeq(p, n + 1, Len(p)) = <<>> /\ ~(n < Len(p))
    BY <2>1, <2>2
  <2>4. /\ out' = [out EXCEPT ![s] = @ \o SubSeq(p, 1, n)]
        /\ short' = IF n < Len(p) THEN short \cup {s} ELSE short
        /\ Rest(s, p) = SubSeq(p, n + 1, Len(p))
    BY DEF Put, Rest
  <2>5. Len(p) <= Space(s)
    BY <1>1, <1>2, <2>2
  <2> HIDE DEF p, n
  <2>6. out' = [out EXCEPT ![s] = @ \o p] /\ short' = short /\ Rest(s, p) = <<>>
    BY <2>3, <2>4
  <2> QED BY <2>5, <2>6 DEF p
<1>3. CASE Space(s) = 1
  <2>1. Taken(s, Parts(kind)) = 1
    BY <1>3, PartsType DEF Taken
  <2>2. /\ Len(Parts(kind)) = 2 /\ SubSeq(Parts(kind), 1, 1) = Begin(kind)
        /\ SubSeq(Parts(kind), 1 + 1, 2) = End(kind) /\ Len(Begin(kind)) = 1
    BY PartsType
  <2> DEFINE p == Parts(kind)
             n == Taken(s, p)
  <2>3. SubSeq(p, 1, n) = Begin(kind) /\ SubSeq(p, n + 1, Len(p)) = End(kind) /\ n < Len(p)
    BY <2>1, <2>2
  <2>4. /\ out' = [out EXCEPT ![s] = @ \o SubSeq(p, 1, n)]
        /\ short' = IF n < Len(p) THEN short \cup {s} ELSE short
        /\ Rest(s, p) = SubSeq(p, n + 1, Len(p))
    BY DEF Put, Rest
  <2>5. Len(Begin(kind)) <= Space(s)
    BY <1>3, <2>2
  <2> HIDE DEF p, n
  <2>6. /\ out' = [out EXCEPT ![s] = @ \o Begin(kind)] /\ short' = short \cup {s}
        /\ Rest(s, p) = End(kind)
    BY <2>3, <2>4
  <2> QED BY <2>5, <2>6 DEF p
<1> QED BY <1>1, <1>2, <1>3

LEMMA PutEnd ==
  ASSUME ByteTypes, NEW s \in Streams, NEW kind \in Kinds, Space(s) > 0, Put(s, End(kind))
  PROVE  /\ out' = [out EXCEPT ![s] = @ \o End(kind)] /\ short' = short
         /\ Rest(s, End(kind)) = <<>> /\ Len(End(kind)) <= Space(s)
<1>1. Space(s) \in Int
  BY SessionAssumption, LenProperties DEF ByteTypes, Space
<1>2. Taken(s, End(kind)) = 1
  BY <1>1, PartsType DEF Taken
<1>3. /\ Len(End(kind)) = 1 /\ SubSeq(End(kind), 1, 1) = End(kind)
      /\ SubSeq(End(kind), 1 + 1, 1) = <<>>
  BY PartsType
<1> DEFINE p == End(kind)
           n == Taken(s, p)
<1>4. SubSeq(p, 1, n) = p /\ SubSeq(p, n + 1, Len(p)) = <<>> /\ ~(n < Len(p))
  BY <1>2, <1>3
<1>5. /\ out' = [out EXCEPT ![s] = @ \o SubSeq(p, 1, n)]
      /\ short' = IF n < Len(p) THEN short \cup {s} ELSE short
      /\ Rest(s, p) = SubSeq(p, n + 1, Len(p))
  BY DEF Put, Rest
<1>6. Len(p) <= Space(s)
  BY <1>1, <1>3
<1> HIDE DEF p, n
<1>7. out' = [out EXCEPT ![s] = @ \o p] /\ short' = short /\ Rest(s, p) = <<>>
  BY <1>4, <1>5
<1> QED BY <1>6, <1>7 DEF p

LEMMA Popped ==
  ASSUME ByteTypes, InboxInv, NEW s \in Streams, inbox[s] # <<>>,
         inbox' = [inbox EXCEPT ![s] = Tail(@)]
  PROVE  /\ inbox' \in [Streams -> Seq(Reply)] /\ InboxInv'
         /\ \A t \in Streams : inbox[t] = <<>> => inbox'[t] = <<>>
         /\ \A t \in Streams : t # s => inbox'[t] = inbox[t]
         /\ Answers(inbox'[s]) \subseteq Answers(inbox[s])
         /\ Head(inbox[s]).kind = "answer" =>
              Head(inbox[s]) \in Answers(inbox[s]) /\ Answers(inbox'[s]) = {}
<1>1. inbox \in [Streams -> Seq(Reply)] /\ inbox[s] \in Seq(Reply) /\ OneEach(inbox[s])
  BY DEF ByteTypes, InboxInv
<1>2. /\ inbox'[s] = Tail(inbox[s])
      /\ \A t \in Streams : t # s => inbox'[t] = inbox[t]
  BY <1>1
<1>3. /\ Tail(inbox[s]) \in Seq(Reply) /\ OneEach(Tail(inbox[s]))
      /\ Answers(Tail(inbox[s])) \subseteq Answers(inbox[s])
      /\ Head(inbox[s]).kind = "answer" =>
           Head(inbox[s]) \in Answers(inbox[s]) /\ Answers(Tail(inbox[s])) = {}
  BY <1>1, PopLine
<1>4. inbox' \in [Streams -> Seq(Reply)]
  BY <1>1, <1>3
<1>5. InboxInv'
  <2> SUFFICES ASSUME NEW t \in Streams PROVE OneEach(inbox'[t])
    BY DEF InboxInv
  <2>1. CASE t = s
    BY <2>1, <1>2, <1>3
  <2>2. CASE t # s
    BY <2>2, <1>2 DEF InboxInv
  <2> QED BY <2>1, <2>2
<1> QED BY <1>2, <1>3, <1>4, <1>5

-----------------------------------------------------------------------------
(* The constructor's client and the loop's. *)

LEMMA ClientJob ==
  ASSUME NEW c \in Client, NEW j \in 0..MaxUpsets + 1
  PROVE  /\ [c EXCEPT !.job = j] \in Client
         /\ [c EXCEPT !.job = j].stream = c.stream /\ [c EXCEPT !.job = j].first = c.first
         /\ [c EXCEPT !.job = j].protocol = c.protocol /\ [c EXCEPT !.job = j].job = j
BY DEF Client

LEMMA ClientFields ==
  ASSUME NEW c \in Client
  PROVE  /\ c # NoClient /\ c.stream \in Streams /\ c.first \in Streams
         /\ c.protocol \in {"stratum", "luckypool"} /\ c.job \in 0..MaxUpsets + 1
         /\ c.stream \in Nat /\ c.stream # 0 /\ c.stream \in 0..MaxUpsets + 1
BY SessionAssumption DEF Client, NoClient, Streams

LEMMA EmptyIsWhole ==
  /\ Whole(<<>>, <<>>) /\ \A i \in 1..Len(<<>>) : FALSE
  /\ <<>> \in Seq(Piece) /\ <<>> \in Seq(Kinds) /\ Len(<<>>) <= Room /\ Len(<<>>) = 0
BY SessionAssumption DEF Whole

LEMMA SessionInit ==
  Init => SessionInv
<1> SUFFICES ASSUME Init PROVE SessionInv
  OBVIOUS
<1>1. <<>> \in Seq(Piece) /\ <<>> \in Seq(Kinds) /\ <<>> \in Seq(Reply) /\ Len(<<>>) = 0
  OBVIOUS
<1>2. MainTypes
  BY <1>1, SessionAssumption, SwitchesApart DEF Init, MainTypes, PCs, Handshake, InLoop
<1>3. LinkTypes
  BY SessionAssumption DEF Init, LinkTypes, Threads
<1>4. ByteTypes
  BY <1>1, SessionAssumption DEF Init, ByteTypes, Knows
<1>5. UpInv /\ CountInv
  BY DEF Init, UpInv, CountInv
<1>6. InboxInv
  BY <1>1 DEF Init, InboxInv, OneEach
<1>7. HandshakeInv /\ ClientInv
  BY DEF Init, HandshakeInv, ClientInv, Handshake
<1>8. Whole(<<>>, <<>>)
  BY <1>1 DEF Whole
<1>9. LoopInv /\ HandshakeWhole
  BY <1>1, <1>8 DEF Init, LoopInv, HandshakeWhole
<1> QED BY <1>2, <1>3, <1>4, <1>5, <1>6, <1>7, <1>9 DEF SessionInv

-----------------------------------------------------------------------------
(* The loop's own steps. *)

LoopStep ==
  \/ TakeJob \/ ReadLine \/ StartSwitch \/ Switched \/ CallReads
  \/ StartPoll \/ EndPoll \/ Submitted \/ LoseConnection

LEMMA LoopStepKeeps ==
  ASSUME SessionInv, LoopStep
  PROVE  SessionInv'
<1> USE DEF SessionInv
<1>1. /\ InLoop /\ pc \notin Handshake
      /\ pc' \in {"loop", "poll", "offline"} \cup Sends
      /\ pc' = "offline" => ~up[client.stream]
      /\ making' = making /\ making = NoClient /\ client \in Client
  <2>1. InLoop
    BY DEF LoopStep, TakeJob, ReadLine, StartSwitch, Switched, CallReads, Calling, StartPoll,
           EndPoll, Submitted, LoseConnection, InLoop
  <2>2. pc \notin Handshake
    BY <2>1, SwitchesApart DEF InLoop, Handshake
  <2>3. pc' \in {"loop", "poll", "offline"} \cup Sends /\ making' = making
    BY DEF LoopStep, TakeJob, ReadLine, StartSwitch, Switched, CallReads, Calling, StartPoll,
           EndPoll, Submitted, LoseConnection, Send, Sends
  <2>4. pc' = "offline" => ~up[client.stream]
    <3>1. LoseConnection => ~up[client.stream]
      BY <2>2 DEF LoseConnection, Cur
    <3>2. LoopStep /\ ~LoseConnection => pc' # "offline"
      BY SwitchesApart DEF LoopStep, TakeJob, ReadLine, StartSwitch, Switched, CallReads, Calling,
         StartPoll, EndPoll, Submitted, Send
    <3> QED BY <3>1, <3>2
  <2> QED BY <2>1, <2>2, <2>3, <2>4 DEF MainTypes
<1>2. /\ client.stream \in Streams /\ Cur = client.stream /\ client.stream \in 0..MaxUpsets + 1
      /\ client.job \in 0..MaxUpsets + 1 /\ client # NoClient
  BY <1>1, ClientFields DEF Cur
<1>3. /\ UNCHANGED <<reporter, reports, allowed, lucky, opened, up, silent, upsets>>
      /\ UNCHANGED <<out, part, short, spoiled, known>>
  BY DEF LoopStep, TakeJob, ReadLine, StartSwitch, Switched, CallReads, StartPoll, EndPoll,
         Submitted, LoseConnection, Reads, threadVars, linkVars, byteVars, poolVars
<1>4. /\ client' \in Client /\ client'.stream = client.stream /\ client'.first = client.first
      /\ client'.protocol = client.protocol /\ client'.job \in {0, client.job, client.stream}
  <2>1. \/ client' = client
        \/ client' = [client EXCEPT !.job = 0] \/ client' = [client EXCEPT !.job = client.stream]
    BY DEF LoopStep, TakeJob, ReadLine, StartSwitch, Switched, CallReads, Dispatched, StartPoll,
           EndPoll, Submitted, LoseConnection
  <2>2. \A j \in 0..MaxUpsets + 1 :
          /\ [client EXCEPT !.job = j] \in Client
          /\ [client EXCEPT !.job = j].stream = client.stream
          /\ [client EXCEPT !.job = j].first = client.first
          /\ [client EXCEPT !.job = j].protocol = client.protocol
          /\ [client EXCEPT !.job = j].job = j
    BY <1>1, ClientJob
  <2>3. 0 \in 0..MaxUpsets + 1
    BY SessionAssumption
  <2>4. CASE client' = client
    BY <1>1, <2>4
  <2>5. CASE client' = [client EXCEPT !.job = 0]
    BY <2>2, <2>3, <2>5
  <2>6. CASE client' = [client EXCEPT !.job = client.stream]
    BY <1>2, <2>2, <2>6
  <2> QED BY <2>1, <2>4, <2>5, <2>6
<1>5. currentJob' \in {currentJob, client.job}
  <2>1. TakeJob \/ EndPoll => currentJob' \in {currentJob, client.job}
    BY DEF TakeJob, EndPoll
  <2>2. LoopStep /\ ~TakeJob /\ ~EndPoll => currentJob' = currentJob
    BY DEF LoopStep, ReadLine, StartSwitch, Switched, CallReads, StartPoll, Submitted,
           LoseConnection
  <2> QED BY <2>1, <2>2 DEF LoopStep
<1>6. /\ inbox' \in [Streams -> Seq(Reply)] /\ InboxInv'
      /\ \A t \in Streams : inbox[t] = <<>> => inbox'[t] = <<>>
  <2>1. CASE UNCHANGED inbox
    BY <2>1 DEF ByteTypes, InboxInv
  <2>2. CASE ReadLine \/ Switched \/ CallReads
    <3>1. inbox[client.stream] # <<>> /\ inbox' = [inbox EXCEPT ![client.stream] = Tail(@)]
      BY <1>2, <2>2 DEF ReadLine, Switched, CallReads, Reads
    <3> QED BY <1>2, <3>1, Popped
  <2> QED BY <2>1, <2>2 DEF LoopStep, TakeJob, StartSwitch, StartPoll, EndPoll, Submitted,
             LoseConnection, poolVars
<1>7. /\ pc' \notin Sends => writing' = <<>>
      /\ pc' \in Sends => writing' \in {<<>>, Parts(Line')}
  <2>1. CASE StartSwitch
    BY <2>1, SwitchesApart DEF StartSwitch, Send, Sends, Line
  <2>2. CASE EndPoll
    <3>1. writing = <<>>
      BY <2>2, SwitchesApart DEF EndPoll, LoopInv, Handshake, Sends
    <3> QED BY <2>2, <3>1, SwitchesApart DEF EndPoll, Sends, Line
  <2>3. CASE TakeJob \/ ReadLine \/ StartPoll
    <3>1. pc \in {"loop", "poll"}
      BY <2>3 DEF TakeJob, ReadLine, StartPoll
    <3>2. writing = <<>>
      BY <3>1, SwitchesApart DEF LoopInv, Handshake, Sends
    <3> QED BY <2>3, <3>2 DEF TakeJob, ReadLine, StartPoll
  <2>4. CASE Switched \/ CallReads \/ Submitted \/ LoseConnection
    BY <2>4 DEF Switched, CallReads, Calling, Submitted, LoseConnection
  <2> QED BY <2>1, <2>2, <2>3, <2>4 DEF LoopStep
<1>8. client' # NoClient /\ Cur' = client.stream /\ pc' \notin Handshake
  BY <1>1, <1>4, ClientFields, SwitchesApart DEF Cur, Handshake, Sends
<1>9. MainTypes'
  <2>1. pc' \in PCs
    BY <1>1 DEF PCs, Sends
  <2>2. currentJob' \in 0..MaxUpsets + 1
    BY <1>2, <1>5 DEF MainTypes
  <2>3. allowed' \in BOOLEAN /\ lucky' \in BOOLEAN
    BY <1>3 DEF MainTypes
  <2>4. writing' \in Seq(Piece)
    <3>1. pc' \in Sends => Line' \in Kinds
      BY DEF Sends, Line, Kinds
    <3> QED BY <1>7, <3>1, PartsType, EmptyIsWhole
  <2> QED BY <1>1, <1>4, <1>8, <2>1, <2>2, <2>3, <2>4 DEF MainTypes
<1>10. LinkTypes'
  BY <1>3 DEF LinkTypes
<1>11. ByteTypes'
  BY <1>3, <1>6 DEF ByteTypes
<1>12. UpInv'
  <2>1. ASSUME NEW s \in Streams, up'[s]
        PROVE  s = opened' /\ s = Cur' /\ pc' \notin {"start", "offline", "exit"}
    <3>1. pc' \notin {"start", "offline", "exit"}
      <4>1. pc' # "offline"
        BY <1>1, <1>2, <1>3, <2>1 DEF UpInv
      <4> QED BY <1>1, <4>1, SwitchesApart DEF Sends
    <3> QED BY <1>2, <1>3, <1>8, <2>1, <3>1 DEF UpInv
  <2>2. ASSUME NEW s \in Streams
        PROVE  ~up'[s] => out'[s] = <<>> /\ part'[s] = <<>>
    BY <1>3 DEF UpInv
  <2>3. ASSUME NEW s \in Streams, s > opened'
        PROVE  reporter'[s] = "none" /\ s \notin short' /\ inbox'[s] = <<>> /\ known'[s] = "nothing"
    BY <1>3, <1>6, <2>3 DEF UpInv
  <2> QED BY <2>1, <2>2, <2>3 DEF UpInv
<1>13. CountInv'
  <2>1. pc # "exit" /\ pc' # "start"
    BY <1>1, SwitchesApart DEF InLoop, Sends
  <2> QED BY <1>3, <2>1 DEF CountInv
<1>14. HandshakeInv'
  BY <1>8 DEF HandshakeInv
<1>15. ClientInv'
  <2>1. /\ client.stream \in Nat /\ client.first \in Nat /\ client.first <= client.stream
        /\ client.stream \in client.first..client.stream
    BY <1>1, <1>2, ClientFields DEF ClientInv, Client, Streams
  <2> QED BY <1>1, <1>2, <1>3, <1>4, <1>5, <2>1 DEF ClientInv
<1>16. LoopInv'
  <2>1. \A kind : Parts(kind) # << <<kind, 2>> >> /\ <<>> # << <<kind, 2>> >>
    BY DEF Parts
  <2>2. ASSUME NEW s \in Streams, s # making'.stream
        PROVE  /\ \A i \in 1..Len(out'[s]) : out'[s][i][1] \in LoopLines
               /\ \A i \in 1..Len(part'[s]) : part'[s][i] \in LoopLines
               /\ s \notin short' => Whole(part'[s], out'[s])
    BY <1>1, <1>3, <2>2 DEF LoopInv
  <2>3. \A s \in Streams : reporter'[s] = "half" => s \in short'
    BY <1>3 DEF LoopInv
  <2> QED BY <1>7, <1>8, <2>1, <2>2, <2>3 DEF LoopInv
<1>17. HandshakeWhole'
  BY <1>3 DEF HandshakeWhole
<1> QED BY <1>6, <1>9, <1>10, <1>11, <1>12, <1>13, <1>14, <1>15, <1>16, <1>17

-----------------------------------------------------------------------------
(* The steps of the constructor. *)

\* What holds wherever the constructor runs.
LEMMA Constructing ==
  ASSUME SessionInv, pc \in Handshake
  PROVE  /\ making \in Client /\ making # NoClient /\ making.stream \in Streams
         /\ making.stream = opened /\ Cur = making.stream /\ opened > 0
         /\ making.stream \in Nat /\ making.stream # 0 /\ making.job \in 0..MaxUpsets + 1
         /\ making.first \in Nat /\ making.first # 0 /\ making.first <= making.stream
         /\ making.protocol \in {"stratum", "luckypool"}
BY ClientFields DEF SessionInv, MainTypes, HandshakeInv, Cur, Streams

\* A line is read and the constructor goes on.
Progress ==
  \/ Subscribed \/ TryLogin \/ Authorized
  \/ /\ Waiting /\ Reads("job") /\ making' = [making EXCEPT !.job = making.stream]
     /\ UNCHANGED <<pc, client, currentJob, writing, threadVars, allowed, lucky, linkVars,
                    byteVars, short>>

LEMMA ProgressKeeps ==
  ASSUME SessionInv, Progress
  PROVE  SessionInv'
<1> USE DEF SessionInv
<1> PICK s : s = making.stream
  OBVIOUS
<1>1. pc \in Handshake /\ writing = <<>>
  BY DEF Progress, Subscribed, TryLogin, Authorized, Waiting
<1>2. /\ making \in Client /\ making # NoClient /\ s \in Streams
      /\ s = opened /\ Cur = s /\ s \in Nat /\ s # 0 /\ s \in 0..MaxUpsets + 1
      /\ making.first \in Nat /\ making.first <= s
  BY <1>1, Constructing, ClientFields
<1>3. /\ UNCHANGED <<client, currentJob, reporter, reports, allowed, lucky, opened, up,
                     silent, upsets>>
      /\ UNCHANGED <<out, part, short, spoiled, known>>
  BY DEF Progress, Subscribed, TryLogin, Authorized, Reads, threadVars, linkVars, byteVars
<1>4. inbox[s] # <<>> /\ inbox' = [inbox EXCEPT ![s] = Tail(@)]
  BY <1>2 DEF Progress, Subscribed, TryLogin, Authorized, Reads
<1>5. /\ inbox' \in [Streams -> Seq(Reply)] /\ InboxInv'
      /\ \A t \in Streams : inbox[t] = <<>> => inbox'[t] = <<>>
      /\ Answers(inbox'[s]) \subseteq Answers(inbox[s])
      /\ Head(inbox[s]).kind = "answer" =>
           Head(inbox[s]) \in Answers(inbox[s]) /\ Answers(inbox'[s]) = {}
  BY <1>2, <1>4, Popped
<1>6. /\ making' \in Client /\ making'.stream = s /\ making'.first = making.first
      /\ making'.job \in {making.job, s}
      /\ TryLogin => making'.protocol = "luckypool"
      /\ ~TryLogin => making'.protocol = making.protocol
  <2>1. /\ [making EXCEPT !.protocol = "luckypool"] \in Client
        /\ [making EXCEPT !.protocol = "luckypool"].stream = s
        /\ [making EXCEPT !.protocol = "luckypool"].first = making.first
        /\ [making EXCEPT !.protocol = "luckypool"].job = making.job
        /\ [making EXCEPT !.protocol = "luckypool"].protocol = "luckypool"
    BY <1>2 DEF Client
  <2>2. TryLogin => making' = [making EXCEPT !.protocol = "luckypool"]
    BY DEF TryLogin
  <2>3. Subscribed \/ Authorized => making' = making
    BY DEF Subscribed, Authorized
  <2>4. ~(Subscribed \/ Authorized \/ TryLogin) => making' = [making EXCEPT !.job = s]
    BY DEF Progress
  <2>5. /\ [making EXCEPT !.job = s] \in Client /\ [making EXCEPT !.job = s].stream = s
        /\ [making EXCEPT !.job = s].first = making.first
        /\ [making EXCEPT !.job = s].protocol = making.protocol
        /\ [making EXCEPT !.job = s].job = s
    BY <1>2, ClientJob
  <2>6. CASE TryLogin
    BY <1>2, <2>1, <2>2, <2>6
  <2>7. CASE ~TryLogin /\ (Subscribed \/ Authorized)
    BY <1>2, <2>3, <2>7
  <2>8. CASE ~(Subscribed \/ Authorized \/ TryLogin)
    BY <1>2, <2>4, <2>5, <2>8
  <2> QED BY <2>6, <2>7, <2>8
<1>7. /\ pc' \in Handshake /\ pc' \in {"login", "authorize", "drain", pc}
      /\ pc' # "start" /\ pc' # "exit" /\ pc' # "offline" /\ pc' \notin Sends
  <2>1. pc' \in Handshake /\ pc' \in {"login", "authorize", "drain", pc}
    BY <1>1 DEF Progress, Subscribed, TryLogin, Authorized, Handshake, Send
  <2> QED BY <2>1, SwitchesApart DEF Handshake, Sends
<1>8. making' # NoClient /\ Cur' = s
  BY <1>6, <1>7, ClientFields DEF Cur
<1>9. HandshakeInv'
  <2>1. /\ reporter[s] = "none" /\ (up[s] => InFlight(s, pc))
        /\ Answers(inbox[s]) # {} => Quiet(s)
        /\ \A a \in Answers(inbox[s]) : AnswerTrue(s, a.verdict)
        /\ pc = "drain" => Quiet(s) /\ Answers(inbox[s]) = {} /\ known[s] = "in"
        /\ making.protocol = (IF pc = "login" THEN "luckypool" ELSE "stratum")
        /\ pc = "login" => lucky /\ allowed
        /\ pc \in {"authorize", "drain"} => ~lucky
        /\ making.job # 0 => making.job \in making.first..s
    BY <1>1 DEF HandshakeInv
  <2>2. making'.job # 0 => making'.job \in making.first..s
    BY <1>2, <1>6, <2>1
  <2>3. CASE Subscribed \/ TryLogin
    <3>1. Head(inbox[s]).kind = "answer"
      BY <1>2, <2>3 DEF Subscribed, TryLogin, Reads
    <3>2. out[s] = <<>> /\ part[s] = <<>> /\ Answers(inbox'[s]) = {}
      BY <1>5, <2>1, <3>1 DEF Quiet
    <3>3. AnswerTrue(s, Head(inbox[s]).verdict)
      BY <1>5, <2>1, <3>1
    <3>4. writing' = Parts(pc') /\ pc' = (IF TryLogin THEN "login" ELSE "authorize")
      BY <2>3 DEF Subscribed, TryLogin, Send, Answered
    <3>5. InFlight(s, pc)'
      BY <1>3, <3>2, <3>4 DEF InFlight
    <3>6. CASE TryLogin
      <4>1. pc' = "login" /\ lucky /\ allowed /\ making'.protocol = "luckypool"
        BY <1>2, <1>6, <3>3, <3>6 DEF TryLogin, Answered, AnswerTrue, Send
      <4> QED BY <1>2, <1>3, <1>6, <2>1, <2>2, <3>2, <3>4, <3>5, <4>1 DEF HandshakeInv
    <3>7. CASE Subscribed /\ ~TryLogin
      <4>1. pc' = "authorize" /\ ~lucky
        BY <1>2, <3>3, <3>7 DEF Subscribed, Answered, AnswerTrue, Send
      <4>2. making'.protocol = "stratum"
        BY <1>6, <2>1, <3>7 DEF Subscribed
      <4> QED BY <1>2, <1>3, <1>6, <2>1, <2>2, <3>2, <3>4, <3>5, <4>1, <4>2 DEF HandshakeInv
    <3> QED BY <2>3, <3>6, <3>7
  <2>4. CASE Authorized
    <3>1. Head(inbox[s]).kind = "answer"
      BY <1>2, <2>4 DEF Authorized, Reads
    <3>2. out[s] = <<>> /\ part[s] = <<>> /\ Answers(inbox'[s]) = {}
      BY <1>5, <2>1, <3>1 DEF Quiet
    <3>3. AnswerTrue(s, Head(inbox[s]).verdict)
      BY <1>5, <2>1, <3>1
    <3>4. writing' = <<>> /\ pc' = "drain" /\ pc = "authorize" /\ ~TryLogin
      BY <1>1, <2>4 DEF Authorized, TryLogin
    <3>5. known[s] = "in" /\ ~lucky /\ making'.protocol = "stratum"
      BY <1>2, <1>6, <2>1, <2>4, <3>3, <3>4 DEF Authorized, Answered, AnswerTrue
    <3>6. Quiet(s)' /\ InFlight(s, pc)'
      BY <1>3, <3>2, <3>4 DEF InFlight, Quiet
    <3> QED BY <1>2, <1>3, <1>6, <2>1, <2>2, <3>2, <3>4, <3>5, <3>6 DEF HandshakeInv
  <2>5. CASE ~(Subscribed \/ TryLogin \/ Authorized)
    <3>1. pc' = pc /\ writing' = writing /\ ~TryLogin
      BY <2>5 DEF Progress
    <3>2. /\ up'[s] => InFlight(s, pc)'
          /\ Quiet(s) => Quiet(s)'
          /\ \A a \in Answers(inbox'[s]) : AnswerTrue(s, a.verdict)'
      BY <1>3, <1>5, <2>1, <3>1 DEF InFlight, Quiet, AnswerTrue
    <3>3. Answers(inbox'[s]) # {} => Answers(inbox[s]) # {}
      BY <1>5
    <3>4. making'.protocol = making.protocol
      BY <1>6, <3>1
    <3> QED BY <1>1, <1>2, <1>3, <1>5, <1>6, <2>1, <2>2, <3>1, <3>2, <3>3, <3>4 DEF HandshakeInv
  <2> QED BY <2>3, <2>4, <2>5
<1>10. MainTypes'
  <2>1. writing' \in Seq(Piece)
    <3>1. <<>> \in Seq(Piece)
      OBVIOUS
    <3>2. writing' \in {<<>>, Parts("login"), Parts("authorize")}
      BY <1>1 DEF Progress, Subscribed, TryLogin, Authorized, Send
    <3> QED BY <3>1, <3>2, PartsType DEF Kinds
  <2>2. pc' \in PCs /\ ~InLoop'
    BY <1>7 DEF PCs, InLoop, Handshake, Sends
  <2> QED BY <1>3, <1>6, <1>7, <1>8, <2>1, <2>2 DEF MainTypes
<1>11. LinkTypes'
  BY <1>3 DEF LinkTypes
<1>12. ByteTypes'
  BY <1>3, <1>5 DEF ByteTypes
<1>13. UpInv'
  <2>1. ASSUME NEW t \in Streams, up'[t]
        PROVE  t = opened' /\ t = Cur' /\ pc' \notin {"start", "offline", "exit"}
    BY <1>2, <1>3, <1>7, <1>8, <2>1 DEF UpInv
  <2>2. ASSUME NEW t \in Streams
        PROVE  ~up'[t] => out'[t] = <<>> /\ part'[t] = <<>>
    BY <1>3 DEF UpInv
  <2>3. ASSUME NEW t \in Streams, t > opened'
        PROVE  reporter'[t] = "none" /\ t \notin short' /\ inbox'[t] = <<>> /\ known'[t] = "nothing"
    BY <1>3, <1>5, <2>3 DEF UpInv
  <2> QED BY <2>1, <2>2, <2>3 DEF UpInv
<1>14. CountInv'
  BY <1>1, <1>3, <1>7 DEF CountInv, Handshake
<1>15. ClientInv'
  BY <1>2, <1>3, <1>6 DEF ClientInv
<1>16. LoopInv'
  <2>1. ASSUME NEW t \in Streams, t # making'.stream
        PROVE  /\ \A i \in 1..Len(out'[t]) : out'[t][i][1] \in LoopLines
               /\ \A i \in 1..Len(part'[t]) : part'[t][i] \in LoopLines
               /\ t \notin short' => Whole(part'[t], out'[t])
    BY <1>3, <1>6, <2>1 DEF LoopInv
  <2>2. \A t \in Streams : reporter'[t] = "half" => t \in short'
    BY <1>3 DEF LoopInv
  <2> QED BY <1>7, <2>1, <2>2 DEF LoopInv
<1>17. HandshakeWhole'
  BY <1>3 DEF HandshakeWhole
<1> QED BY <1>5, <1>9, <1>10, <1>11, <1>12, <1>13, <1>14, <1>15, <1>16, <1>17

\* Whatever makes the constructor give up: the socket goes with it, and if there
\* is a client to go on with, the socket has cost an upset.
LEMMA GivingUp ==
  ASSUME SessionInv, pc \in Handshake, GiveUp,
         upsets' \in {upsets, upsets + 1} \cap 0..MaxUpsets, client # NoClient => opened <= upsets',
         UNCHANGED <<known, spoiled>>, inbox' \in [Streams -> Seq(Reply)], InboxInv',
         \A t \in Streams : inbox[t] = <<>> => inbox'[t] = <<>>
  PROVE  SessionInv'
<1> USE DEF SessionInv
<1> PICK s : s = making.stream
  OBVIOUS
<1>1. making \in Client /\ s \in Streams /\ s = opened /\ Cur = s /\ s # 0
  BY Constructing
<1>2. /\ pc' = (IF client = NoClient THEN "exit" ELSE "loop")
      /\ making' = NoClient /\ writing' = <<>>
      /\ UNCHANGED <<client, currentJob, reporter, reports, allowed, lucky, opened, silent, short>>
      /\ up' = [up EXCEPT ![s] = FALSE]
      /\ out' = [out EXCEPT ![s] = <<>>] /\ part' = [part EXCEPT ![s] = <<>>]
  BY DEF GiveUp, AfterFailure, Shut, threadVars
<1>3. /\ pc' \notin Handshake /\ pc' \in {"exit", "loop"} /\ making'.stream = 0
      /\ InLoop' => client # NoClient
  BY <1>2, SwitchesApart DEF Handshake, NoClient, InLoop
<1>4. /\ up \in [Streams -> BOOLEAN] /\ out \in [Streams -> Seq(Piece)]
      /\ part \in [Streams -> Seq(Kinds)]
  BY DEF LinkTypes, ByteTypes
<1>5. \A t \in Streams : ~up'[t]
  BY <1>1, <1>2, <1>4 DEF UpInv
<1>6. \A t \in Streams : IF t = s THEN out'[t] = <<>> /\ part'[t] = <<>>
                         ELSE out'[t] = out[t] /\ part'[t] = part[t]
  BY <1>2, <1>4
<1>7. MainTypes'
  <2>1. pc' \in PCs /\ making' = NoClient /\ writing' \in Seq(Piece)
    BY <1>2, <1>3, EmptyIsWhole DEF PCs
  <2>2. UNCHANGED <<client, currentJob, allowed, lucky>>
    BY <1>2
  <2> QED BY <1>3, <2>1, <2>2 DEF MainTypes
<1>8. LinkTypes'
  <2>1. upsets' \in 0..MaxUpsets /\ up' \in [Streams -> BOOLEAN]
    <3>1. up' = [up EXCEPT ![s] = FALSE]
      BY <1>2
    <3>2. up' \in [Streams -> BOOLEAN]
      BY <1>4, <3>1
    <3> QED BY <3>2, SessionAssumption
  <2> QED BY <1>2, <2>1 DEF LinkTypes
<1>9. ByteTypes'
  <2>1. out' \in [Streams -> Seq(Piece)] /\ part' \in [Streams -> Seq(Kinds)]
    BY <1>2, <1>4, EmptyIsWhole
  <2>2. \A t \in Streams : Len(out'[t]) <= Room
    BY <1>6, EmptyIsWhole DEF ByteTypes
  <2> QED BY <1>2, <2>1, <2>2 DEF ByteTypes
<1>10. UpInv'
  <2>1. ASSUME NEW t \in Streams PROVE out'[t] = <<>> /\ part'[t] = <<>>
    <3>1. t # s => ~up[t]
      BY <1>1 DEF UpInv
    <3> QED BY <1>6, <3>1 DEF UpInv
  <2>2. ASSUME NEW t \in Streams, t > opened'
        PROVE  reporter'[t] = "none" /\ t \notin short' /\ inbox'[t] = <<>> /\ known'[t] = "nothing"
    BY <1>2, <2>2 DEF UpInv
  <2>3. \A t \in Streams :
          up'[t] => t = opened' /\ t = Cur' /\ pc' \notin {"start", "offline", "exit"}
    BY <1>5
  <2> QED BY <2>1, <2>2, <2>3 DEF UpInv
<1>11. CountInv'
  <2>1. \A o, u, v \in Int : o <= u + 1 /\ v \in {u, u + 1} => o <= v + 1
    OBVIOUS
  <2>2. opened <= upsets + 1
    BY Zenon DEF CountInv
  <2>3. opened \in Int /\ upsets \in Int /\ upsets' \in Int /\ upsets' \in {upsets, upsets + 1}
    BY SessionAssumption DEF LinkTypes
  <2>4. opened <= upsets' + 1
    BY <2>1, <2>2, <2>3, Zenon
  <2>5. opened' <= upsets' + 1
    BY <1>2, <2>4, Zenon
  <2> QED BY <1>2, <2>5 DEF CountInv
<1>12. HandshakeInv'
  BY <1>3 DEF HandshakeInv
<1>13. ClientInv'
  <2>1. client # NoClient => client.stream # 0
    BY ClientFields DEF MainTypes
  <2> QED BY <1>2, <1>3, <2>1 DEF ClientInv
<1>14. LoopInv'
  <2>1. ASSUME NEW t \in Streams
        PROVE  /\ \A i \in 1..Len(out'[t]) : out'[t][i][1] \in LoopLines
               /\ \A i \in 1..Len(part'[t]) : part'[t][i] \in LoopLines
               /\ t \notin short' => Whole(part'[t], out'[t])
    <3>1. CASE t = s
      BY <1>6, <3>1, EmptyIsWhole
    <3>2. CASE t # s
      BY <1>2, <1>6, <3>2 DEF LoopInv
    <3> QED BY <3>1, <3>2
  <2>2. \A t \in Streams : reporter'[t] = "half" => t \in short'
    BY <1>2 DEF LoopInv
  <2>3. pc' \notin Sends
    BY <1>3, SwitchesApart DEF Sends
  <2> QED BY <1>2, <1>3, <2>1, <2>2, <2>3 DEF LoopInv
<1>15. HandshakeWhole'
  BY <1>2 DEF HandshakeWhole
<1> QED BY <1>7, <1>8, <1>9, <1>10, <1>11, <1>12, <1>13, <1>14, <1>15

Failure ==
  \/ Refused \/ VariantFails \/ HandshakeLost
  \/ Waiting /\ Reads("job") /\ pc # "drain" /\ Upset /\ GiveUp

LEMMA FailureKeeps ==
  ASSUME SessionInv, Failure
  PROVE  SessionInv'
<1> USE DEF SessionInv
<1> PICK s : s = making.stream
  OBVIOUS
<1>1. pc \in Handshake /\ GiveUp
  BY DEF Failure, Refused, VariantFails, HandshakeLost, Waiting
<1>2. /\ making \in Client /\ s \in Streams /\ s = opened /\ Cur = s /\ s > 0
      /\ upsets \in 0..MaxUpsets
  BY <1>1, Constructing DEF LinkTypes
<1>3. UNCHANGED <<known, spoiled>>
  BY DEF Failure, Refused, VariantFails, HandshakeLost, Reads, poolVars
<1>4. /\ inbox' \in [Streams -> Seq(Reply)] /\ InboxInv'
      /\ \A t \in Streams : inbox[t] = <<>> => inbox'[t] = <<>>
  <2>1. CASE UNCHANGED inbox
    BY <2>1 DEF ByteTypes, InboxInv
  <2>2. CASE inbox[s] # <<>> /\ inbox' = [inbox EXCEPT ![s] = Tail(@)]
    BY <1>2, <2>2, Popped
  <2>3. VariantFails \/ HandshakeLost => UNCHANGED inbox
    BY DEF VariantFails, HandshakeLost, poolVars
  <2>4. (\E kind \in {"job", "answer"} : Reads(kind)) =>
          inbox[s] # <<>> /\ inbox' = [inbox EXCEPT ![s] = Tail(@)]
    BY <1>2 DEF Reads
  <2>5. Failure => VariantFails \/ HandshakeLost \/ Reads("answer") \/ Reads("job")
    BY DEF Failure, Refused
  <2> QED BY <2>1, <2>2, <2>3, <2>4, <2>5
<1>5. upsets' \in {upsets, upsets + 1} \cap 0..MaxUpsets
  BY <1>2, SessionAssumption DEF Failure, Refused, VariantFails, HandshakeLost, Upset
<1>6. ASSUME client # NoClient PROVE opened <= upsets'
  <2>1. CASE Refused
    <3>1. inbox[s] # <<>> /\ Head(inbox[s]).kind = "answer" /\ upsets' = upsets
      BY <1>2, <2>1 DEF Refused, Reads
    <3>2. inbox[s] \in Seq(Reply) /\ OneEach(inbox[s])
      BY <1>2 DEF ByteTypes, InboxInv
    <3>3. Head(inbox[s]) \in Answers(inbox[s])
      BY <3>1, <3>2, PopLine
    <3>4. AnswerTrue(s, Head(inbox[s]).verdict)
      BY <1>1, <3>3 DEF HandshakeInv
    <3>5. Head(inbox[s]) \in Reply
      BY <3>1, <3>2, HeadTailProperties
    <3>6. Head(inbox[s]).verdict \in {"ok", "refused", "unknown"}
      BY <3>1, <3>5, SwitchesApart DEF Reply
    <3>7. Head(inbox[s]).verdict # "ok"
      BY <1>2, <2>1 DEF Refused, Answered
    <3>8. Head(inbox[s]).verdict # "unknown"
      BY <1>2, <1>6, <2>1, <3>4 DEF Refused, Answered, AnswerTrue, ClientInv
    <3> QED BY <3>1, <3>4, <3>6, <3>7, <3>8 DEF AnswerTrue
  <2>2. CASE HandshakeLost
    <3>1. ~up[opened] /\ upsets' = upsets
      BY <1>2, <2>2 DEF HandshakeLost, EndOfStream
    <3> QED BY <1>1, <1>2, <3>1 DEF CountInv, Handshake
  <2>3. CASE VariantFails \/ Upset
    <3>1. upsets' = upsets + 1
      BY <2>3 DEF VariantFails, Upset
    <3> QED BY <3>1 DEF CountInv
  <2> QED BY <2>1, <2>2, <2>3 DEF Failure
<1> QED BY <1>1, <1>3, <1>4, <1>5, <1>6, GivingUp

-----------------------------------------------------------------------------
(* A new socket, and a session that stands. *)

LEMMA OpeningKeeps ==
  ASSUME SessionInv, Connect \/ NextVariant
  PROVE  SessionInv'
<1> USE DEF SessionInv
<1> PICK n : n = opened + 1
  OBVIOUS
<1>1. /\ pc \in {"start", "offline", "subscribe"} /\ pc # "exit"
      /\ pc' = (IF Connect THEN "subscribe" ELSE "minimal")
      /\ writing' = Parts(pc') /\ writing' \in Seq(Piece)
  BY PartsType DEF Connect, NextVariant, Send, Kinds
<1>2. \A t \in Streams : ~up[t]
  <2>1. CASE pc \in {"start", "offline"}
    BY <2>1 DEF UpInv
  <2>2. CASE NextVariant
    BY <2>2 DEF NextVariant, EndOfStream, UpInv
  <2> QED BY <2>1, <2>2 DEF Connect
<1>3. opened <= upsets /\ opened \in Nat /\ n \in Nat /\ n > opened /\ n # 0
  <2>1. opened \in 0..MaxUpsets + 1 /\ upsets \in 0..MaxUpsets
    BY DEF LinkTypes
  <2>2. CASE opened = 0
    BY <2>1, <2>2, SessionAssumption
  <2>3. CASE opened > 0
    <3>1. opened \in Streams /\ pc # "exit"
      <4>1. opened \in Streams
        BY <2>1, <2>3, SessionAssumption DEF Streams
      <4> QED BY <1>1, <4>1
    <3>2. opened <= upsets
      BY <1>2, <2>3, <3>1 DEF CountInv
    <3> QED BY <2>1, <3>2, SessionAssumption
  <2> QED BY <2>1, <2>2, <2>3
<1>4. n \in Streams /\ n <= MaxUpsets + 1
  BY <1>3, SessionAssumption DEF LinkTypes, Streams
<1>5. /\ UNCHANGED <<client, currentJob, reporter, reports, allowed, lucky, silent, upsets>>
      /\ UNCHANGED <<out, part, known, inbox, spoiled, short>>
      /\ opened' = n /\ up' = [up EXCEPT ![n] = TRUE]
  BY DEF Connect, NextVariant, OpenSocket, threadVars, byteVars, poolVars
<1>6. up \in [Streams -> BOOLEAN]
  BY DEF LinkTypes
<1>7. up'[n] /\ \A t \in Streams : up'[t] => t = n
  BY <1>2, <1>4, <1>5, <1>6
<1>8. /\ making' \in Client /\ making'.stream = n /\ making'.first \in Nat
      /\ making'.first <= n /\ making'.protocol = "stratum"
      /\ making'.job # 0 => making'.job \in making'.first..n
  <2>1. CASE Connect
    <3>1. making' = [stream |-> n, first |-> n, protocol |-> "stratum", job |-> 0]
      BY <2>1 DEF Connect, OpenSocket, NoClient
    <3> QED BY <1>3, <1>4, <3>1, SessionAssumption DEF Client
  <2>2. CASE NextVariant
    <3>1. /\ pc = "subscribe" /\ making \in Client /\ making.first \in Nat /\ making.first # 0
          /\ making.first <= opened
      BY <2>2, Constructing DEF NextVariant, Handshake
    <3>2. making.protocol = "stratum" /\ (making.job # 0 => making.job \in making.first..opened)
      BY <3>1 DEF HandshakeInv, Handshake
    <3>3. making' = [making EXCEPT !.stream = n, !.first = making.first]
      BY <2>2, <3>1 DEF NextVariant, OpenSocket
    <3>4. /\ making' \in Client /\ making'.stream = n /\ making'.first = making.first
          /\ making'.protocol = making.protocol /\ making'.job = making.job
      BY <1>4, <3>1, <3>3 DEF Client
    <3> QED BY <1>3, <3>1, <3>2, <3>4
  <2> QED BY <2>1, <2>2
<1>9. /\ pc' \in Handshake /\ Cur' = n /\ making' # NoClient /\ pc' \in PCs /\ ~InLoop'
      /\ pc' \in {"subscribe", "minimal"} /\ pc' \notin Sends
  BY <1>1, <1>8, ClientFields, SwitchesApart DEF Handshake, Cur, PCs, InLoop, Sends
<1>10. MainTypes'
  BY <1>1, <1>5, <1>8, <1>9 DEF MainTypes
<1>11. LinkTypes'
  BY <1>3, <1>4, <1>5, <1>6 DEF LinkTypes
<1>12. ByteTypes'
  BY <1>5 DEF ByteTypes
<1>13. UpInv'
  <2>1. ASSUME NEW t \in Streams, up'[t]
        PROVE  t = opened' /\ t = Cur' /\ pc' \notin {"start", "offline", "exit"}
    BY <1>5, <1>7, <1>9, <2>1
  <2>2. ASSUME NEW t \in Streams
        PROVE  ~up'[t] => out'[t] = <<>> /\ part'[t] = <<>>
    BY <1>2, <1>5 DEF UpInv
  <2>3. ASSUME NEW t \in Streams, t > opened'
        PROVE  reporter'[t] = "none" /\ t \notin short' /\ inbox'[t] = <<>> /\ known'[t] = "nothing"
    <3>1. t > opened
      BY <1>3, <1>5, <2>3 DEF Streams
    <3> QED BY <1>5, <3>1 DEF UpInv
  <2> QED BY <2>1, <2>2, <2>3 DEF UpInv
<1>14. CountInv'
  BY <1>3, <1>5, <1>7, <1>9 DEF CountInv, LinkTypes
<1>15. HandshakeInv'
  <2>1. reporter[n] = "none" /\ inbox[n] = <<>> /\ out[n] = <<>> /\ part[n] = <<>>
    BY <1>2, <1>3, <1>4 DEF UpInv
  <2>2. Answers(<<>>) = {}
    BY EmptyIsWhole DEF Answers
  <2>3. InFlight(n, pc)'
    BY <1>1, <1>5, <2>1 DEF InFlight
  <2> QED BY <1>1, <1>5, <1>8, <1>9, <2>1, <2>2, <2>3 DEF HandshakeInv
<1>16. ClientInv'
  BY <1>3, <1>5, <1>8, ClientFields DEF ClientInv, MainTypes
<1>17. LoopInv'
  <2>1. ASSUME NEW t \in Streams, t # n
        PROVE  /\ \A i \in 1..Len(out'[t]) : out'[t][i][1] \in LoopLines
               /\ \A i \in 1..Len(part'[t]) : part'[t][i] \in LoopLines
               /\ t \notin short' => Whole(part'[t], out'[t])
    BY <1>2, <1>5, EmptyIsWhole DEF UpInv
  <2>2. \A t \in Streams : reporter'[t] = "half" => t \in short'
    BY <1>5 DEF LoopInv
  <2> QED BY <1>8, <1>9, <2>1, <2>2 DEF LoopInv
<1>18. HandshakeWhole' /\ InboxInv'
  BY <1>5 DEF HandshakeWhole, InboxInv
<1> QED BY <1>10, <1>11, <1>12, <1>13, <1>14, <1>15, <1>16, <1>17, <1>18

LEMMA ReadyKeeps ==
  ASSUME SessionInv, LoggedIn \/ Drained
  PROVE  SessionInv'
<1> USE DEF SessionInv
<1> PICK s : s = making.stream
  OBVIOUS
<1>1. /\ pc \in {"login", "drain"} /\ pc \in Handshake /\ writing = <<>>
      /\ LoggedIn => pc = "login"
      /\ ~LoggedIn => pc = "drain"
  BY DEF LoggedIn, Drained, Waiting
<1>2. /\ making \in Client /\ making # NoClient /\ s \in Streams
      /\ s = opened /\ Cur = s /\ s \in Nat /\ s # 0 /\ s > 0
      /\ making.first \in Nat /\ making.first <= s
  BY <1>1, Constructing
<1>3. /\ client' = making /\ making' = NoClient /\ currentJob' = 0 /\ pc' = "loop"
      /\ reporter' = IF making.protocol = "luckypool" THEN reporter
                     ELSE [reporter EXCEPT ![s] = "idle"]
      /\ UNCHANGED <<writing, reports, allowed, lucky, opened, up, silent, upsets>>
      /\ UNCHANGED <<out, part, short>>
  BY DEF LoggedIn, Drained, Ready, linkVars, byteVars
<1>4. /\ inbox' \in [Streams -> Seq(Reply)] /\ InboxInv' /\ UNCHANGED <<known, spoiled>>
      /\ \A t \in Streams : inbox[t] = <<>> => inbox'[t] = <<>>
  <2>1. CASE Drained
    BY <2>1 DEF Drained, poolVars, ByteTypes, InboxInv
  <2>2. CASE LoggedIn
    <3>1. inbox[s] # <<>> /\ inbox' = [inbox EXCEPT ![s] = Tail(@)] /\ UNCHANGED <<known, spoiled>>
      BY <1>2, <2>2 DEF LoggedIn, Reads
    <3> QED BY <1>2, <3>1, Popped
  <2> QED BY <2>1, <2>2
<1>5. /\ Quiet(s) /\ known[s] = "in"
      /\ (making.protocol = "luckypool") <=> lucky
      /\ lucky => allowed
      /\ making.job # 0 => making.job \in making.first..s
  <2>1. CASE LoggedIn
    <3>1. inbox[s] # <<>> /\ Head(inbox[s]).kind = "answer" /\ Head(inbox[s]).verdict = "ok"
      BY <1>2, <2>1 DEF LoggedIn, Reads, Answered
    <3>2. Head(inbox[s]) \in Answers(inbox[s])
      BY <1>2, <3>1, PopLine DEF ByteTypes, InboxInv
    <3>3. AnswerTrue(s, "ok") /\ Quiet(s)
      BY <1>1, <3>1, <3>2 DEF HandshakeInv
    <3>4. known[s] = "in"
      BY <1>1, <2>1, <3>3 DEF AnswerTrue
    <3> QED BY <1>1, <2>1, <3>3, <3>4 DEF HandshakeInv
  <2>2. CASE ~LoggedIn
    <3>1. pc = "drain"
      BY <1>1, <2>2
    <3> QED BY <1>1, <3>1 DEF HandshakeInv
  <2> QED BY <2>1, <2>2
<1>6. /\ reporter' \in [Streams -> Threads]
      /\ \A t \in Streams : t # s => reporter'[t] = reporter[t]
      /\ reporter'[s] # "half"
  <2>1. reporter \in [Streams -> Threads] /\ reporter[s] = "none"
    BY <1>1 DEF LinkTypes, HandshakeInv
  <2> QED BY <1>2, <1>3, <2>1 DEF Threads
<1>7. /\ pc' \notin Handshake /\ Cur' = s /\ client' # NoClient /\ making'.stream = 0
      /\ pc' \in PCs /\ pc' \notin Sends
  BY <1>2, <1>3, SwitchesApart DEF Handshake, Cur, NoClient, PCs, Sends
<1>8. MainTypes'
  <2>1. currentJob' \in 0..MaxUpsets + 1
    BY <1>3, SessionAssumption
  <2> QED BY <1>2, <1>3, <1>7, <2>1 DEF MainTypes
<1>9. LinkTypes'
  BY <1>3, <1>6 DEF LinkTypes
<1>10. ByteTypes'
  BY <1>3, <1>4 DEF ByteTypes
<1>11. UpInv'
  <2>1. ASSUME NEW t \in Streams, up'[t]
        PROVE  t = opened' /\ t = Cur' /\ pc' \notin {"start", "offline", "exit"}
    BY <1>2, <1>3, <1>7, <2>1 DEF UpInv
  <2>2. ASSUME NEW t \in Streams
        PROVE  ~up'[t] => out'[t] = <<>> /\ part'[t] = <<>>
    BY <1>3 DEF UpInv
  <2>3. ASSUME NEW t \in Streams, t > opened'
        PROVE  reporter'[t] = "none" /\ t \notin short' /\ inbox'[t] = <<>> /\ known'[t] = "nothing"
    <3>1. t # s
      BY <1>2, <1>3, <2>3
    <3> QED BY <1>3, <1>4, <1>6, <2>3, <3>1 DEF UpInv
  <2> QED BY <2>1, <2>2, <2>3 DEF UpInv
<1>12. CountInv'
  <2>1. UNCHANGED <<opened, up, upsets>> /\ pc' = "loop"
    BY <1>3
  <2> QED BY <1>1, <2>1 DEF CountInv
<1>13. HandshakeInv'
  BY <1>7 DEF HandshakeInv
<1>14. ClientInv'
  <2>1. UNCHANGED <<allowed, lucky, opened, known>> /\ client' = making /\ currentJob' = 0
    BY <1>3, <1>4
  <2>2. /\ client'.stream = s /\ client'.first = making.first /\ client'.job = making.job
        /\ client'.protocol = making.protocol
    BY <2>1
  <2>3. known'[s] = "in" /\ opened' = s
    BY <1>2, <1>5, <2>1
  <2>4. ((client'.protocol = "luckypool") <=> lucky') /\ (lucky' => allowed')
    BY <1>5, <2>1, <2>2
  <2>5. s <= opened' /\ s # making'.stream /\ making.first <= s
    BY <1>2, <1>7, <2>3
  <2> QED BY <1>5, <2>1, <2>2, <2>3, <2>4, <2>5 DEF ClientInv
<1>15. LoopInv'
  <2>1. ASSUME NEW t \in Streams
        PROVE  /\ \A i \in 1..Len(out'[t]) : out'[t][i][1] \in LoopLines
               /\ \A i \in 1..Len(part'[t]) : part'[t][i] \in LoopLines
               /\ t \notin short' => Whole(part'[t], out'[t])
    <3>1. CASE t = s
      BY <1>3, <1>5, <3>1, EmptyIsWhole DEF Quiet
    <3>2. CASE t # s
      BY <1>3, <3>2 DEF LoopInv
    <3> QED BY <3>1, <3>2
  <2>2. \A t \in Streams : reporter'[t] = "half" => t \in short'
    BY <1>3, <1>6 DEF LoopInv
  <2> QED BY <1>1, <1>3, <1>7, <2>1, <2>2 DEF LoopInv
<1>16. HandshakeWhole'
  BY <1>3, <1>4 DEF HandshakeWhole
<1> QED BY <1>4, <1>8, <1>9, <1>10, <1>11, <1>12, <1>13, <1>14, <1>15, <1>16

-----------------------------------------------------------------------------
(* Sending on the stream of the loop. *)

LEMMA MoreLines ==
  ASSUME NEW rest \in Seq(Piece), NEW kind \in LoopLines,
         NEW more \in {Parts(kind), Begin(kind), End(kind)},
         \A i \in 1..Len(rest) : rest[i][1] \in LoopLines
  PROVE  \A i \in 1..Len(rest \o more) : (rest \o more)[i][1] \in LoopLines
<1> DEFINE all == rest \o more
<1>1. kind \in Kinds
  BY DEF LoopLines, Kinds
<1>2. more \in Seq(Piece) /\ \A i \in 1..Len(more) : more[i][1] = kind
  <2>1. CASE more = Parts(kind)
    <3>1. more \in Seq(Piece) /\ Len(more) = 2
      BY <1>1, <2>1, PartsType
    <3>2. more[1][1] = kind /\ more[2][1] = kind
      BY <2>1 DEF Parts
    <3> QED BY <3>1, <3>2
  <2>2. CASE more = Begin(kind)
    <3>1. more \in Seq(Piece) /\ Len(more) = 1
      BY <1>1, <2>2, PartsType
    <3>2. more[1][1] = kind
      BY <2>2 DEF Begin
    <3> QED BY <3>1, <3>2
  <2>3. CASE more = End(kind)
    <3>1. more \in Seq(Piece) /\ Len(more) = 1
      BY <1>1, <2>3, PartsType
    <3>2. more[1][1] = kind
      BY <2>3 DEF End
    <3> QED BY <3>1, <3>2
  <2> QED BY <2>1, <2>2, <2>3
<1>3. /\ Len(all) = Len(rest) + Len(more) /\ Len(rest) \in Nat /\ Len(more) \in Nat
      /\ \A i \in 1..Len(rest) + Len(more) :
           all[i] = IF i <= Len(rest) THEN rest[i] ELSE more[i - Len(rest)]
  BY <1>2, ConcatProperties, LenProperties
<1> HIDE DEF all
<1>4. ASSUME NEW i \in 1..Len(all) PROVE all[i][1] \in LoopLines
  <2>1. CASE i <= Len(rest)
    BY <1>3, <2>1
  <2>2. CASE i > Len(rest)
    <3>1. i - Len(rest) \in 1..Len(more) /\ all[i] = more[i - Len(rest)]
      BY <1>3, <2>2
    <3> QED BY <1>2, <3>1
  <2> QED BY <1>3, <2>1, <2>2
<1> QED BY <1>4 DEF all

LEMMA LoopPut ==
  ASSUME SessionInv, NEW s \in Streams, s # making.stream, NEW kind \in LoopLines, Space(s) > 0,
         Put(s, Parts(kind)) \/ (s \in short /\ Put(s, End(kind)))
  PROVE  /\ out' \in [Streams -> Seq(Piece)] /\ \A t \in Streams : Len(out'[t]) <= Room
         /\ \A t \in Streams : t # s => out'[t] = out[t]
         /\ short \subseteq short' /\ short' \subseteq short \cup {s}
         /\ \A i \in 1..Len(out'[s]) : out'[s][i][1] \in LoopLines
         /\ s \notin short' => Whole(part[s], out'[s])
         /\ Put(s, Parts(kind)) => \/ Rest(s, Parts(kind)) = <<>>
                                   \/ Rest(s, Parts(kind)) = End(kind) /\ s \in short'
<1> USE DEF SessionInv
<1>1. kind \in Kinds
  BY DEF LoopLines, Kinds
<1>2. /\ out[s] \in Seq(Piece) /\ part[s] \in Seq(Kinds)
      /\ \A i \in 1..Len(out[s]) : out[s][i][1] \in LoopLines
      /\ s \notin short => Whole(part[s], out[s])
  BY DEF ByteTypes, LoopInv
<1>3. /\ Parts(kind) \in Seq(Piece) /\ Begin(kind) \in Seq(Piece) /\ End(kind) \in Seq(Piece)
  BY <1>1, PartsType
<1>4. CASE Put(s, Parts(kind))
  <2>1. CASE /\ out' = [out EXCEPT ![s] = @ \o Parts(kind)] /\ short' = short
             /\ Rest(s, Parts(kind)) = <<>> /\ Len(Parts(kind)) <= Space(s)
    <3>1. /\ out' \in [Streams -> Seq(Piece)] /\ \A t \in Streams : Len(out'[t]) <= Room
          /\ \A t \in Streams : t # s => out'[t] = out[t]
          /\ out'[s] = out[s] \o Parts(kind)
      BY <1>3, <2>1, Grown
    <3>2. \A i \in 1..Len(out'[s]) : out'[s][i][1] \in LoopLines
      BY <1>2, <3>1, MoreLines
    <3>3. s \notin short' => Whole(part[s], out'[s])
      BY <1>1, <1>2, <2>1, <3>1, WholeAppend
    <3> QED BY <2>1, <3>1, <3>2, <3>3
  <2>2. CASE /\ out' = [out EXCEPT ![s] = @ \o Begin(kind)] /\ short' = short \cup {s}
             /\ Rest(s, Parts(kind)) = End(kind) /\ Len(Begin(kind)) <= Space(s)
    <3>1. /\ out' \in [Streams -> Seq(Piece)] /\ \A t \in Streams : Len(out'[t]) <= Room
          /\ \A t \in Streams : t # s => out'[t] = out[t]
          /\ out'[s] = out[s] \o Begin(kind)
      BY <1>3, <2>2, Grown
    <3>2. \A i \in 1..Len(out'[s]) : out'[s][i][1] \in LoopLines
      BY <1>2, <3>1, MoreLines
    <3> QED BY <2>2, <3>1, <3>2
  <2> QED BY <1>1, <1>4, <2>1, <2>2, PutParts
<1>5. CASE ~Put(s, Parts(kind)) /\ s \in short /\ Put(s, End(kind))
  <2>1. /\ out' = [out EXCEPT ![s] = @ \o End(kind)] /\ short' = short
        /\ Len(End(kind)) <= Space(s)
    BY <1>1, <1>5, PutEnd
  <2>2. /\ out' \in [Streams -> Seq(Piece)] /\ \A t \in Streams : Len(out'[t]) <= Room
        /\ \A t \in Streams : t # s => out'[t] = out[t]
        /\ out'[s] = out[s] \o End(kind)
    BY <1>3, <2>1, Grown
  <2>3. \A i \in 1..Len(out'[s]) : out'[s][i][1] \in LoopLines
    BY <1>2, <2>2, MoreLines
  <2> QED BY <1>5, <2>1, <2>2, <2>3
<1> QED BY <1>4, <1>5

\* A line, or a part of one, sent on the stream of the loop.
LEMMA LoopSends ==
  ASSUME SessionInv, NEW s \in Streams, up[s], s # making.stream, NEW kind \in LoopLines,
         Space(s) > 0, Put(s, Parts(kind)) \/ (s \in short /\ Put(s, End(kind))),
         UNCHANGED <<pc, client, making, currentJob, allowed, lucky, linkVars, part, poolVars>>,
         writing' \in Seq(Piece), pc \notin Sends => writing' = <<>>,
         pc \in Sends => /\ writing' \in {<<>>, Parts(Line), End(Line)}
                         /\ writing' = End(Line) => client.stream \in short',
         reporter' \in [Streams -> Threads], reports' \in Nat,
         \A t \in Streams : t # s => reporter'[t] = reporter[t],
         reporter'[s] = "half" => s \in short'
  PROVE  SessionInv'
<1> USE DEF SessionInv
<1>1. /\ out' \in [Streams -> Seq(Piece)] /\ \A t \in Streams : Len(out'[t]) <= Room
      /\ \A t \in Streams : t # s => out'[t] = out[t]
      /\ short \subseteq short' /\ short' \subseteq short \cup {s}
      /\ \A i \in 1..Len(out'[s]) : out'[s][i][1] \in LoopLines
      /\ s \notin short' => Whole(part[s], out'[s])
  BY LoopPut
<1>2. s = opened /\ s = Cur /\ pc \notin Handshake
  <2>1. s = opened /\ s = Cur
    BY DEF UpInv
  <2> QED BY <2>1 DEF Cur
<1>3. /\ UNCHANGED <<pc, client, making, currentJob, allowed, lucky, opened, up, silent, upsets>>
      /\ UNCHANGED <<part, known, inbox, spoiled>>
  BY DEF linkVars, poolVars
<1>4. MainTypes'
  BY <1>3 DEF MainTypes, InLoop
<1>5. LinkTypes'
  BY <1>3 DEF LinkTypes
<1>6. ByteTypes'
  <2>1. short' \subseteq Streams
    BY <1>1 DEF ByteTypes
  <2> QED BY <1>1, <1>3, <2>1 DEF ByteTypes
<1>7. UpInv'
  <2>1. ASSUME NEW t \in Streams, up'[t]
        PROVE  t = opened' /\ t = Cur' /\ pc' \notin {"start", "offline", "exit"}
    BY <1>3, <2>1 DEF UpInv, Cur
  <2>2. ASSUME NEW t \in Streams
        PROVE  ~up'[t] => out'[t] = <<>> /\ part'[t] = <<>>
    BY <1>1, <1>3 DEF UpInv
  <2>3. ASSUME NEW t \in Streams, t > opened'
        PROVE  reporter'[t] = "none" /\ t \notin short' /\ inbox'[t] = <<>> /\ known'[t] = "nothing"
    <3>1. t # s
      <4>1. t > s
        BY <1>2, <1>3, <2>3, Zenon
      <4> QED BY <4>1 DEF Streams
    <3> QED BY <1>1, <1>3, <2>3, <3>1 DEF UpInv
  <2> QED BY <2>1, <2>2, <2>3 DEF UpInv
<1>8. CountInv' /\ InboxInv'
  BY <1>3 DEF CountInv, InboxInv
<1>9. HandshakeInv'
  BY <1>2, <1>3 DEF HandshakeInv
<1>10. ClientInv'
  BY <1>3 DEF ClientInv
<1>11. LoopInv'
  <2>1. ASSUME NEW t \in Streams, t # making'.stream
        PROVE  /\ \A i \in 1..Len(out'[t]) : out'[t][i][1] \in LoopLines
               /\ \A i \in 1..Len(part'[t]) : part'[t][i] \in LoopLines
               /\ t \notin short' => Whole(part'[t], out'[t])
    <3>1. /\ \A i \in 1..Len(part[t]) : part[t][i] \in LoopLines
          /\ \A i \in 1..Len(out[t]) : out[t][i][1] \in LoopLines
          /\ t \notin short => Whole(part[t], out[t])
      BY <1>3, <2>1 DEF LoopInv
    <3>2. part'[t] = part[t]
      BY <1>3
    <3>3. CASE t = s
      BY <1>1, <3>1, <3>2, <3>3
    <3>4. CASE t # s
      <4>1. out'[t] = out[t] /\ (t \notin short' => t \notin short)
        BY <1>1, <3>4
      <4> QED BY <3>1, <3>2, <4>1
    <3> QED BY <3>3, <3>4
  <2>2. \A t \in Streams : reporter'[t] = "half" => t \in short'
    BY <1>1 DEF LoopInv
  <2>3. Line' = Line /\ UNCHANGED <<pc, client>>
    BY <1>3 DEF Line
  <2> QED BY <1>2, <2>1, <2>2, <2>3 DEF LoopInv, End
<1>12. HandshakeWhole'
  BY <1>1, <1>3 DEF HandshakeWhole
<1> QED BY <1>4, <1>5, <1>6, <1>7, <1>8, <1>9, <1>10, <1>11, <1>12

LEMMA WriteKeeps ==
  ASSUME SessionInv, Write
  PROVE  SessionInv'
<1> USE DEF SessionInv
<1>1. /\ writing # <<>>
      /\ UNCHANGED <<pc, client, making, currentJob, reporter, reports, allowed, lucky, linkVars,
                     part, poolVars>>
      /\ UNCHANGED <<opened, up, silent, upsets, known, inbox, spoiled>>
  BY DEF Write, threadVars, linkVars, poolVars
<1>2. pc \in Handshake \/ pc \in Sends
  BY <1>1 DEF LoopInv
<1> PICK s : s = Cur
  OBVIOUS
<1>3. /\ s \in Streams
      /\ pc \in Sends => s = client.stream /\ s # making.stream
      /\ pc \in Handshake => s = making.stream
  <2>1. CASE pc \in Handshake
    BY <2>1, SwitchesApart, Constructing DEF Handshake, Sends
  <2>2. CASE pc \in Sends
    <3>1. InLoop /\ pc \notin Handshake
      BY <2>2, SwitchesApart DEF InLoop, Sends, Handshake
    <3>2. client \in Client /\ s = client.stream
      BY <3>1 DEF MainTypes, Cur
    <3> QED BY <3>1, <3>2, ClientFields DEF ClientInv
  <2> QED BY <1>2, <2>1, <2>2
<1>4. CASE pc \in Sends /\ up[s]
  <2>1. Space(s) > 0 /\ Put(s, writing) /\ writing' = Rest(s, writing)
    BY <1>4 DEF Write
  <2>2. writing = Parts(Line) \/ (writing = End(Line) /\ s \in short)
    BY <1>1, <1>3, <1>4 DEF LoopInv, End
  <2>3. Line \in LoopLines /\ Line \in Kinds
    BY <1>4 DEF LoopLines, Kinds, Sends, Line
  <2>4. Put(s, Parts(Line)) \/ (s \in short /\ Put(s, End(Line)))
    BY <2>1, <2>2
  <2>5. writing' = <<>> \/ (writing' = End(Line) /\ s \in short')
    <3>1. CASE writing = Parts(Line)
      <4>1. \/ short' = short /\ Rest(s, Parts(Line)) = <<>>
            \/ short' = short \cup {s} /\ Rest(s, Parts(Line)) = End(Line)
        <5>1. Put(s, Parts(Line))
          BY <2>1, <3>1
        <5> QED BY <1>3, <2>1, <2>3, <5>1, PutParts
      <4>2. writing' = Rest(s, Parts(Line)) /\ s \in short \cup {s}
        BY <2>1, <3>1
      <4> QED BY <4>1, <4>2
    <3>2. CASE writing = End(Line)
      <4>1. Put(s, End(Line)) /\ writing' = Rest(s, End(Line))
        BY <2>1, <3>2
      <4> QED BY <1>3, <2>1, <2>3, <4>1, PutEnd
    <3> QED BY <2>2, <3>1, <3>2
  <2>6. writing' \in Seq(Piece)
    BY <2>3, <2>5, PartsType, EmptyIsWhole
  <2>7. reporter' \in [Streams -> Threads] /\ reports' \in Nat
    BY <1>1 DEF LinkTypes
  <2>8. reporter'[s] = "half" => s \in short'
    <3>1. short \subseteq short'
      BY <1>3, <1>4, <2>1, <2>3, <2>4, LoopPut
    <3> QED BY <1>1, <1>3, <3>1 DEF LoopInv
  <2>9. pc \in Sends => /\ writing' \in {<<>>, Parts(Line), End(Line)}
                        /\ writing' = End(Line) => client.stream \in short'
    BY <1>3, <2>5, EmptyIsWhole DEF End
  <2>10. pc \notin Sends => writing' = <<>>
    BY <1>4
  <2> QED BY <1>1, <1>3, <1>4, <2>1, <2>3, <2>4, <2>6, <2>7, <2>8, <2>9, <2>10, LoopSends
<1>5. CASE pc \in Handshake /\ up[s]
  <2>1. Space(s) > 0 /\ Put(s, writing) /\ writing' = Rest(s, writing)
    BY <1>5 DEF Write
  <2>2. /\ s = opened /\ reporter[s] = "none" /\ InFlight(s, pc)
        /\ writing \in {Parts(pc), End(pc)}
        /\ Answers(inbox[s]) = {} /\ pc # "drain"
    <3>1. ~Quiet(s)
      BY <1>1 DEF Quiet
    <3> QED BY <1>1, <1>3, <1>5, <3>1 DEF HandshakeInv, End
  <2>3. pc \in Kinds
    BY <1>5, <2>2 DEF Handshake, Kinds
  <2>4. part[s] = <<>> \/ part[s] = <<pc>>
    BY <2>2 DEF InFlight, Quiet
  <2>5. /\ out' \in [Streams -> Seq(Piece)] /\ \A t \in Streams : Len(out'[t]) <= Room
        /\ \A t \in Streams : t # s => out'[t] = out[t]
        /\ short \subseteq short' /\ short' \subseteq short \cup {s}
        /\ InFlight(s, pc)' /\ writing' \in {<<>>, End(pc)}
    <3>1. Parts(pc) \in Seq(Piece) /\ Begin(pc) \in Seq(Piece) /\ End(pc) \in Seq(Piece)
      BY <2>3, PartsType
    <3>2. part'[s] = part[s] /\ pc' = pc
      BY <1>1
    <3>3. CASE writing = Parts(pc)
      <4>1. writing # End(pc) /\ out[s] = <<>> /\ part[s] = <<>>
        <5>1. Len(Parts(pc)) = 2 /\ Len(End(pc)) = 1
          BY <2>3, PartsType
        <5>2. writing # End(pc)
          BY <3>3, <5>1
        <5> QED BY <1>1, <2>2, <5>2 DEF InFlight, Quiet, End
      <4>2. CASE /\ out' = [out EXCEPT ![s] = @ \o Parts(pc)] /\ short' = short
                 /\ Rest(s, Parts(pc)) = <<>> /\ Len(Parts(pc)) <= Space(s)
        <5>1. /\ out' \in [Streams -> Seq(Piece)] /\ \A t \in Streams : Len(out'[t]) <= Room
              /\ \A t \in Streams : t # s => out'[t] = out[t]
              /\ out'[s] = out[s] \o Parts(pc)
          BY <1>3, <3>1, <4>2, Grown
        <5>2. out'[s] = Parts(pc)
          BY <3>1, <4>1, <5>1, ConcatEmptySeq
        <5>3. writing' = <<>>
          BY <2>1, <3>3, <4>2
        <5>4. InFlight(s, pc)'
          BY <3>2, <4>1, <5>2, <5>3 DEF InFlight
        <5> QED BY <4>2, <5>1, <5>3, <5>4
      <4>3. CASE /\ out' = [out EXCEPT ![s] = @ \o Begin(pc)] /\ short' = short \cup {s}
                 /\ Rest(s, Parts(pc)) = End(pc) /\ Len(Begin(pc)) <= Space(s)
        <5>1. /\ out' \in [Streams -> Seq(Piece)] /\ \A t \in Streams : Len(out'[t]) <= Room
              /\ \A t \in Streams : t # s => out'[t] = out[t]
              /\ out'[s] = out[s] \o Begin(pc)
          BY <1>3, <3>1, <4>3, Grown
        <5>2. out'[s] = Begin(pc)
          BY <3>1, <4>1, <5>1, ConcatEmptySeq
        <5>3. writing' = End(pc)
          BY <2>1, <3>3, <4>3
        <5>4. InFlight(s, pc)'
          BY <3>2, <4>1, <5>2, <5>3 DEF InFlight, Begin, End
        <5> QED BY <4>3, <5>1, <5>3, <5>4
      <4> QED BY <1>3, <2>1, <2>3, <3>3, <4>2, <4>3, PutParts
    <3>4. CASE writing = End(pc)
      <4>1. /\ out' = [out EXCEPT ![s] = @ \o End(pc)] /\ short' = short
            /\ Rest(s, End(pc)) = <<>> /\ Len(End(pc)) <= Space(s)
        BY <1>3, <2>1, <2>3, <3>4, PutEnd
      <4>2. /\ out' \in [Streams -> Seq(Piece)] /\ \A t \in Streams : Len(out'[t]) <= Room
            /\ \A t \in Streams : t # s => out'[t] = out[t]
            /\ out'[s] = out[s] \o End(pc)
        BY <1>3, <3>1, <4>1, Grown
      <4>3. writing' = <<>>
        BY <2>1, <3>4, <4>1
      <4>4. writing # Parts(pc)
        <5>1. Len(Parts(pc)) = 2 /\ Len(End(pc)) = 1
          BY <2>3, PartsType
        <5> QED BY <3>4, <5>1
      <4>5. \/ out[s] = Begin(pc) /\ part[s] = <<>>
            \/ out[s] = <<>> /\ part[s] = <<pc>>
        BY <1>1, <2>2, <4>4 DEF InFlight, Quiet, Begin
      <4>6. CASE out[s] = Begin(pc) /\ part[s] = <<>>
        <5>1. out'[s] = Parts(pc)
          BY <2>3, <4>2, <4>6, TwoParts
        <5> QED BY <3>2, <4>1, <4>2, <4>3, <4>6, <5>1 DEF InFlight
      <4>7. CASE out[s] = <<>> /\ part[s] = <<pc>>
        <5>1. out'[s] = End(pc)
          BY <3>1, <4>2, <4>7, ConcatEmptySeq
        <5> QED BY <3>2, <4>1, <4>2, <4>3, <4>7, <5>1 DEF InFlight, End
      <4> QED BY <4>5, <4>6, <4>7
    <3> QED BY <2>2, <3>3, <3>4
  <2>6. MainTypes'
    <3>1. writing' \in Seq(Piece)
      BY <2>3, <2>5, PartsType, EmptyIsWhole
    <3> QED BY <1>1, <3>1 DEF MainTypes, InLoop
  <2>7. LinkTypes'
    BY <1>1 DEF LinkTypes
  <2>8. ByteTypes'
    <3>1. short' \subseteq Streams
      BY <1>3, <2>5 DEF ByteTypes
    <3> QED BY <1>1, <2>5, <3>1 DEF ByteTypes
  <2>9. UpInv'
    <3>1. ASSUME NEW t \in Streams, up'[t]
          PROVE  t = opened' /\ t = Cur' /\ pc' \notin {"start", "offline", "exit"}
      BY <1>1, <3>1 DEF UpInv, Cur
    <3>2. ASSUME NEW t \in Streams
          PROVE  ~up'[t] => out'[t] = <<>> /\ part'[t] = <<>>
      BY <1>1, <1>5, <2>5 DEF UpInv
    <3>3. ASSUME NEW t \in Streams, t > opened'
          PROVE  reporter'[t] = "none" /\ t \notin short' /\ inbox'[t] = <<>> /\ known'[t] = "nothing"
      <4>1. t # s
        BY <1>1, <2>2, <3>3 DEF Streams
      <4> QED BY <1>1, <2>5, <3>3, <4>1 DEF UpInv
    <3> QED BY <3>1, <3>2, <3>3 DEF UpInv
  <2>10. CountInv' /\ InboxInv'
    BY <1>1 DEF CountInv, InboxInv
  <2>11. HandshakeInv'
    BY <1>1, <1>3, <1>5, <2>2, <2>5 DEF HandshakeInv, End
  <2>12. ClientInv'
    BY <1>1 DEF ClientInv
  <2>13. LoopInv'
    <3>1. ASSUME NEW t \in Streams, t # making'.stream
          PROVE  /\ \A i \in 1..Len(out'[t]) : out'[t][i][1] \in LoopLines
                 /\ \A i \in 1..Len(part'[t]) : part'[t][i] \in LoopLines
                 /\ t \notin short' => Whole(part'[t], out'[t])
      <4>1. t # s /\ t # making.stream
        BY <1>1, <1>3, <1>5, <3>1
      <4>2. out'[t] = out[t] /\ part'[t] = part[t] /\ (t \notin short' => t \notin short)
        BY <1>1, <2>5, <4>1
      <4> QED BY <4>1, <4>2 DEF LoopInv
    <3>2. \A t \in Streams : reporter'[t] = "half" => t \in short'
      BY <1>1, <2>5 DEF LoopInv
    <3>3. pc' \in Handshake /\ pc' \notin Sends
      BY <1>1, <1>5, SwitchesApart DEF Handshake, Sends
    <3> QED BY <3>1, <3>2, <3>3 DEF LoopInv
  <2>14. HandshakeWhole'
    BY <1>1, <2>5 DEF HandshakeWhole
  <2> QED BY <2>6, <2>7, <2>8, <2>9, <2>10, <2>11, <2>12, <2>13, <2>14
<1>6. CASE ~up[s]
  <2>1. writing' = <<>> /\ UNCHANGED <<out, short>>
    BY <1>6 DEF Write
  <2>2. MainTypes'
    BY <1>1, <2>1, EmptyIsWhole DEF MainTypes, InLoop
  <2>3. LinkTypes' /\ ByteTypes' /\ CountInv' /\ InboxInv' /\ ClientInv' /\ HandshakeWhole'
    BY <1>1, <2>1 DEF LinkTypes, ByteTypes, CountInv, InboxInv, ClientInv, HandshakeWhole
  <2>4. UpInv'
    BY <1>1, <2>1 DEF UpInv, Cur
  <2>5. HandshakeInv'
    <3> SUFFICES ASSUME pc \in Handshake PROVE HandshakeInv'
      BY <1>1 DEF HandshakeInv
    <3>1. ~Quiet(s) /\ s = making.stream
      BY <1>1, <1>3 DEF Quiet
    <3>2. Answers(inbox[s]) = {} /\ pc # "drain"
      BY <3>1 DEF HandshakeInv
    <3> QED BY <1>1, <1>6, <2>1, <3>1, <3>2 DEF HandshakeInv
  <2>6. LoopInv'
    <3>1. <<>> # << <<Line', 2>> >>
      OBVIOUS
    <3> QED BY <1>1, <2>1, <3>1 DEF LoopInv
  <2> QED BY <2>2, <2>3, <2>4, <2>5, <2>6
<1> QED BY <1>2, <1>4, <1>5, <1>6

-----------------------------------------------------------------------------
(* The metrics threads. *)

LEMMA ReporterKeeps ==
  ASSUME SessionInv, NEW s \in Streams, Report(s) \/ FinishReport(s)
  PROVE  SessionInv'
<1> USE DEF SessionInv
<1>1. /\ up[s] /\ Space(s) > 0 /\ reporter[s] # "none"
      /\ UNCHANGED <<pc, client, making, currentJob, allowed, lucky, linkVars, part, poolVars>>
      /\ UNCHANGED writing
  BY DEF Report, FinishReport, mainVars
<1>2. s = Cur
  BY <1>1 DEF UpInv
<1>3. s # making.stream
  <2>1. CASE pc \in Handshake
    BY <1>1, <2>1 DEF HandshakeInv
  <2>2. CASE pc \notin Handshake
    <3>1. making = NoClient
      BY <2>2 DEF MainTypes
    <3> QED BY <3>1 DEF NoClient, Streams
  <2> QED BY <2>1, <2>2
<1>4. "report" \in LoopLines /\ "report" \in Kinds
  BY DEF LoopLines, Kinds
<1>5. FinishReport(s) => s \in short
  BY DEF FinishReport, LoopInv
<1>6. Report(s) => Put(s, Parts("report"))
  BY DEF Report
<1>7. FinishReport(s) => Put(s, End("report"))
  BY DEF FinishReport, End
<1>8. Put(s, Parts("report")) \/ (s \in short /\ Put(s, End("report")))
  BY <1>5, <1>6, <1>7
<1>9. short \subseteq short' /\ (Put(s, Parts("report")) =>
        \/ Rest(s, Parts("report")) = <<>>
        \/ Rest(s, Parts("report")) = End("report") /\ s \in short')
  BY <1>1, <1>3, <1>4, <1>8, LoopPut
<1>10. /\ reporter' \in [Streams -> Threads] /\ reports' \in Nat
       /\ \A t \in Streams : t # s => reporter'[t] = reporter[t]
       /\ reporter'[s] = "half" => s \in short'
  <2>1. reporter \in [Streams -> Threads] /\ reports \in Nat
    BY DEF LinkTypes
  <2>2. CASE Report(s)
    <3>1. \/ reporter' = [reporter EXCEPT ![s] = "idle"] /\ reports' = reports + 1
          \/ reporter' = [reporter EXCEPT ![s] = "half"] /\ reports' = reports + 1 /\ s \in short'
      <4>1. CASE Rest(s, Parts("report")) = <<>>
        BY <2>2, <4>1 DEF Report
      <4>2. CASE Rest(s, Parts("report")) # <<>>
        <5>1. s \in short'
          BY <1>6, <1>9, <2>2, <4>2
        <5>2. reporter' = [reporter EXCEPT ![s] = "half"] /\ reports' = reports + 1
          BY <2>2, <4>2 DEF Report
        <5> QED BY <5>1, <5>2
      <4> QED BY <4>1, <4>2
    <3> QED BY <2>1, <3>1 DEF Threads
  <2>3. CASE FinishReport(s)
    <3>1. reporter' = [reporter EXCEPT ![s] = "idle"] /\ reports' = reports
      BY <2>3 DEF FinishReport
    <3> QED BY <2>1, <3>1 DEF Threads
  <2> QED BY <2>2, <2>3
<1>11. /\ writing' \in Seq(Piece) /\ (pc \notin Sends => writing' = <<>>)
       /\ (pc \in Sends => /\ writing' \in {<<>>, Parts(Line), End(Line)}
                           /\ writing' = End(Line) => client.stream \in short')
  <2>1. pc \notin Handshake
    BY <1>2, <1>3 DEF Cur
  <2>2. writing \in Seq(Piece)
    BY DEF MainTypes
  <2> QED BY <1>1, <1>9, <2>1, <2>2 DEF LoopInv, End
<1> QED BY <1>1, <1>3, <1>4, <1>8, <1>10, <1>11, LoopSends

LEMMA FailReportKeeps ==
  ASSUME SessionInv, NEW s \in Streams, FailReport(s)
  PROVE  SessionInv'
<1> USE DEF SessionInv
<1>1. /\ UNCHANGED <<pc, client, making, currentJob, writing, reports, allowed, lucky, opened, up,
                     silent, upsets>>
      /\ UNCHANGED <<out, part, known, inbox, spoiled, short>>
      /\ reporter[s] = "half" /\ reporter' = [reporter EXCEPT ![s] = "idle"]
  BY DEF FailReport, mainVars, linkVars, byteVars, poolVars
<1>2. /\ reporter' \in [Streams -> Threads] /\ reporter'[s] = "idle"
      /\ \A t \in Streams : t # s => reporter'[t] = reporter[t]
  BY <1>1 DEF LinkTypes, Threads
<1>3. /\ MainTypes' /\ ByteTypes' /\ CountInv' /\ InboxInv' /\ ClientInv' /\ HandshakeWhole'
  BY <1>1 DEF MainTypes, InLoop, ByteTypes, CountInv, InboxInv, ClientInv, HandshakeWhole
<1>4. LinkTypes'
  BY <1>1, <1>2 DEF LinkTypes
<1>5. UpInv'
  <2>1. \A t \in Streams : reporter[t] = "none" => reporter'[t] = "none"
    BY <1>1, <1>2
  <2> QED BY <1>1, <2>1 DEF UpInv, Cur
<1>6. HandshakeInv'
  <2> SUFFICES ASSUME pc \in Handshake PROVE HandshakeInv'
    BY <1>1 DEF HandshakeInv
  <2>1. reporter'[making.stream] = "none"
    BY <1>1, <1>2, Constructing DEF HandshakeInv
  <2>2. /\ UNCHANGED <<pc, making, writing, allowed, lucky, opened, up, upsets, out, part, known, inbox>>
    BY <1>1
  <2> QED BY <2>1, <2>2 DEF HandshakeInv, InFlight, Quiet, AnswerTrue
<1>7. LoopInv'
  <2>1. \A t \in Streams : reporter'[t] = "half" => reporter[t] = "half"
    BY <1>2
  <2> QED BY <1>1, <2>1 DEF LoopInv, Line
<1> QED BY <1>3, <1>4, <1>5, <1>6, <1>7

-----------------------------------------------------------------------------
(* The pool. *)

LEMMA SendJobKeeps ==
  ASSUME SessionInv, NEW s \in Streams, SendJob(s)
  PROVE  SessionInv'
<1> USE DEF SessionInv
<1>1. /\ UNCHANGED <<pc, client, making, currentJob, writing, reporter, reports, allowed, lucky,
                     opened, up, silent, upsets>>
      /\ UNCHANGED <<out, part, known, spoiled, short>>
      /\ up[s] /\ \A i \in 1..Len(inbox[s]) : inbox[s][i].kind # "job"
      /\ inbox' = [inbox EXCEPT ![s] = Append(@, [kind |-> "job"])]
  BY DEF SendJob, mainVars, threadVars, linkVars, byteVars
<1>2. /\ Append(inbox[s], [kind |-> "job"]) \in Seq(Reply)
      /\ OneEach(Append(inbox[s], [kind |-> "job"]))
      /\ Answers(Append(inbox[s], [kind |-> "job"])) = Answers(inbox[s])
  BY <1>1, PushJob DEF ByteTypes, InboxInv
<1>3. /\ inbox' \in [Streams -> Seq(Reply)]
      /\ \A t \in Streams : t # s => inbox'[t] = inbox[t]
      /\ OneEach(inbox'[s]) /\ Answers(inbox'[s]) = Answers(inbox[s])
  BY <1>1, <1>2 DEF ByteTypes
<1>4. InboxInv' /\ \A t \in Streams : Answers(inbox'[t]) = Answers(inbox[t])
  <2>1. ASSUME NEW t \in Streams PROVE OneEach(inbox'[t]) /\ Answers(inbox'[t]) = Answers(inbox[t])
    <3>1. CASE t = s
      BY <1>3, <3>1
    <3>2. CASE t # s
      BY <1>3, <3>2 DEF InboxInv
    <3> QED BY <3>1, <3>2
  <2> QED BY <2>1 DEF InboxInv
<1>5. /\ MainTypes' /\ LinkTypes' /\ CountInv' /\ ClientInv' /\ LoopInv' /\ HandshakeWhole'
  BY <1>1 DEF MainTypes, InLoop, LinkTypes, CountInv, ClientInv, LoopInv, Line, HandshakeWhole
<1>6. ByteTypes'
  BY <1>1, <1>3 DEF ByteTypes
<1>7. UpInv'
  <2>1. s = opened /\ \A t \in Streams : t > opened => t # s
    BY <1>1 DEF UpInv, Streams
  <2> QED BY <1>1, <1>3, <2>1 DEF UpInv, Cur
<1>8. HandshakeInv'
  <2> SUFFICES ASSUME pc \in Handshake PROVE HandshakeInv'
    BY <1>1 DEF HandshakeInv
  <2>1. Answers(inbox'[making.stream]) = Answers(inbox[making.stream])
    BY <1>4, Constructing
  <2>2. UNCHANGED <<pc, making, writing, allowed, lucky, opened, up, upsets, out, part, known, reporter>>
    BY <1>1
  <2> QED BY <2>1, <2>2 DEF HandshakeInv, InFlight, Quiet, AnswerTrue
<1> QED BY <1>4, <1>5, <1>6, <1>7, <1>8

LEMMA FallSilentKeeps ==
  ASSUME SessionInv, NEW s \in Streams, FallSilent(s)
  PROVE  SessionInv'
<1> USE DEF SessionInv
<1>1. /\ UNCHANGED <<pc, client, making, currentJob, writing, reporter, reports, allowed, lucky,
                     opened, up>>
      /\ UNCHANGED <<out, part, known, inbox, spoiled, short>>
      /\ silent' = [silent EXCEPT ![s] = TRUE]
      /\ upsets < MaxUpsets /\ upsets' = upsets + 1
  BY DEF FallSilent, Upset, mainVars, threadVars, byteVars, poolVars
<1>2. upsets \in Nat /\ opened \in Nat /\ upsets' \in 0..MaxUpsets
      /\ \A n \in Nat : n <= upsets => n <= upsets'
  BY <1>1, SessionAssumption DEF LinkTypes
<1>3. /\ MainTypes' /\ ByteTypes' /\ InboxInv' /\ ClientInv' /\ LoopInv' /\ HandshakeWhole'
  BY <1>1 DEF MainTypes, InLoop, ByteTypes, InboxInv, ClientInv, LoopInv, Line, HandshakeWhole
<1>4. LinkTypes'
  BY <1>1, <1>2 DEF LinkTypes
<1>5. UpInv'
  BY <1>1 DEF UpInv, Cur
<1>6. CountInv'
  <2>1. opened <= upsets'
    BY <1>1, <1>2 DEF CountInv
  <2>2. opened' <= upsets' /\ opened' <= upsets' + 1
    BY <1>1, <1>2, <2>1
  <2> QED BY <1>1, <2>2 DEF CountInv
<1>7. HandshakeInv'
  <2> SUFFICES ASSUME pc \in Handshake PROVE HandshakeInv'
    BY <1>1 DEF HandshakeInv
  <2>1. opened <= upsets => opened <= upsets'
    BY <1>2
  <2>2. UNCHANGED <<pc, making, writing, allowed, lucky, opened, up, inbox, out, part, known, reporter>>
    BY <1>1
  <2> QED BY <2>1, <2>2 DEF HandshakeInv, InFlight, Quiet, AnswerTrue
<1> QED BY <1>3, <1>4, <1>5, <1>6, <1>7

LEMMA CloseKeeps ==
  ASSUME SessionInv, NEW s \in Streams, Close(s)
  PROVE  SessionInv'
<1> USE DEF SessionInv
<1>1. /\ UNCHANGED <<pc, client, making, currentJob, writing, reporter, reports, allowed, lucky,
                     opened, silent>>
      /\ UNCHANGED <<known, inbox, spoiled, short>>
      /\ up' = [up EXCEPT ![s] = FALSE]
      /\ out' = [out EXCEPT ![s] = <<>>] /\ part' = [part EXCEPT ![s] = <<>>]
      /\ up[s] /\ upsets < MaxUpsets /\ upsets' = upsets + 1
  BY DEF Close, Shut, Upset, mainVars, threadVars, poolVars
<1>2. /\ upsets \in Nat /\ opened \in Nat /\ upsets' \in 0..MaxUpsets
      /\ \A n \in Nat : n <= upsets + 1 => n <= upsets'
  BY <1>1, SessionAssumption DEF LinkTypes
<1>3. /\ up' \in [Streams -> BOOLEAN] /\ out' \in [Streams -> Seq(Piece)]
      /\ part' \in [Streams -> Seq(Kinds)]
      /\ ~up'[s] /\ out'[s] = <<>> /\ part'[s] = <<>>
  BY <1>1, EmptyIsWhole DEF LinkTypes, ByteTypes
<1>4. \A t \in Streams : t # s => /\ up'[t] <=> up[t]
                                  /\ out'[t] = out[t] /\ part'[t] = part[t]
  BY <1>1 DEF LinkTypes, ByteTypes
<1>5. /\ MainTypes' /\ InboxInv' /\ ClientInv' /\ HandshakeWhole'
  BY <1>1 DEF MainTypes, InLoop, InboxInv, ClientInv, HandshakeWhole
<1>6. LinkTypes'
  BY <1>1, <1>2, <1>3 DEF LinkTypes
<1>7. ByteTypes'
  <2>1. ASSUME NEW t \in Streams PROVE Len(out'[t]) <= Room
    <3>1. CASE t = s
      BY <1>3, <3>1, EmptyIsWhole
    <3>2. CASE t # s
      BY <1>4, <3>2 DEF ByteTypes
    <3> QED BY <3>1, <3>2
  <2> QED BY <1>1, <1>3, <2>1 DEF ByteTypes
<1>8. UpInv'
  <2>1. ASSUME NEW t \in Streams, up'[t]
        PROVE  t = opened' /\ t = Cur' /\ pc' \notin {"start", "offline", "exit"}
    <3>1. up[t]
      BY <1>3, <1>4, <2>1
    <3> QED BY <1>1, <3>1 DEF UpInv, Cur
  <2>2. ASSUME NEW t \in Streams
        PROVE  ~up'[t] => out'[t] = <<>> /\ part'[t] = <<>>
    BY <1>3, <1>4 DEF UpInv
  <2>3. ASSUME NEW t \in Streams, t > opened'
        PROVE  reporter'[t] = "none" /\ t \notin short' /\ inbox'[t] = <<>> /\ known'[t] = "nothing"
    BY <1>1, <2>3 DEF UpInv
  <2> QED BY <2>1, <2>2, <2>3 DEF UpInv
<1>9. opened <= upsets'
  BY <1>2 DEF CountInv
<1>10. CountInv'
  <2>1. opened' <= upsets' /\ opened' <= upsets' + 1
    BY <1>1, <1>2, <1>9
  <2> QED BY <1>1, <2>1 DEF CountInv
<1>11. HandshakeInv'
  <2> SUFFICES ASSUME pc \in Handshake PROVE HandshakeInv'
    BY <1>1 DEF HandshakeInv
  <2> PICK m : m = making.stream
    OBVIOUS
  <2>1. m \in Streams /\ m = s /\ Cur = m
    BY <1>1, Constructing DEF UpInv
  <2>2. UNCHANGED <<pc, making, writing, allowed, lucky, opened, inbox, known, reporter>>
    BY <1>1
  <2>3. ~up'[m] /\ (Quiet(m) => Quiet(m)')
    BY <1>3, <2>1, <2>2 DEF Quiet
  <2>4. \A verdict : AnswerTrue(m, verdict) => AnswerTrue(m, verdict)'
    BY <1>1, <1>9, <2>2 DEF AnswerTrue
  <2> QED BY <2>2, <2>3, <2>4 DEF HandshakeInv
<1>12. LoopInv'
  <2>1. ASSUME NEW t \in Streams, t # making'.stream
        PROVE  /\ \A i \in 1..Len(out'[t]) : out'[t][i][1] \in LoopLines
               /\ \A i \in 1..Len(part'[t]) : part'[t][i] \in LoopLines
               /\ t \notin short' => Whole(part'[t], out'[t])
    <3>1. CASE t = s
      BY <1>3, <3>1, EmptyIsWhole
    <3>2. CASE t # s
      BY <1>1, <1>4, <2>1, <3>2 DEF LoopInv
    <3> QED BY <3>1, <3>2
  <2> QED BY <1>1, <2>1 DEF LoopInv, Line
<1> QED BY <1>5, <1>6, <1>7, <1>8, <1>10, <1>11, <1>12

\* What the pool does with a line of the loop.
LEMMA LoopReceived ==
  ASSUME NEW s, NEW kind \in LoopLines, Receive(s, kind)
  PROVE  /\ UNCHANGED <<known, upsets>>
         /\ \/ UNCHANGED inbox
            \/ /\ kind \in Switches
               /\ inbox' = [inbox EXCEPT ![s] = Append(@, [kind |-> kind])]
<1>1. ~(kind \in {"subscribe", "minimal"} /\ lucky) /\ ~(kind \in {"subscribe", "minimal"} /\ ~lucky)
      /\ ~(kind \in {"login", "authorize"})
  BY SwitchesApart DEF LoopLines
<1>2. CASE kind \in Switches
  BY <1>1, <1>2, Zenon DEF Receive
<1>3. CASE kind \notin Switches
  BY <1>1, <1>3, Zenon DEF Receive
<1> QED BY <1>2, <1>3

LEMMA Received ==
  ASSUME NEW s, NEW kind \in {"subscribe", "minimal", "login", "authorize"}, Receive(s, kind)
  PROVE  \/ /\ kind \in {"subscribe", "minimal"} /\ lucky
            /\ Answer(s, "unknown") /\ UNCHANGED <<known, upsets>>
         \/ /\ kind \in {"subscribe", "minimal"} /\ ~lucky
            /\ Answer(s, "ok") /\ known' = [known EXCEPT ![s] = "subscribed"] /\ UNCHANGED upsets
         \/ /\ kind \in {"login", "authorize"}
            /\ Answer(s, "ok") /\ known' = [known EXCEPT ![s] = "in"] /\ UNCHANGED upsets
         \/ Answer(s, "refused") /\ Upset /\ UNCHANGED known
<1>0. kind \notin Switches
  BY SwitchesApart
<1>1. CASE kind \in {"subscribe", "minimal"} /\ lucky
  <2>1. ~(kind \in {"subscribe", "minimal"} /\ ~lucky) /\ ~(kind \in {"login", "authorize"})
    BY <1>1
  <2>2. Answer(s, "unknown") /\ UNCHANGED <<known, upsets>>
    BY <1>0, <1>1, <2>1, Zenon DEF Receive
  <2> QED BY <1>1, <2>2
<1>2. CASE kind \in {"subscribe", "minimal"} /\ ~lucky
  <2>1. ~(kind \in {"subscribe", "minimal"} /\ lucky) /\ ~(kind \in {"login", "authorize"})
    BY <1>2
  <2>2. Grant(s, "subscribed")
    BY <1>0, <1>2, <2>1, Zenon DEF Receive
  <2> QED BY <1>2, <2>2 DEF Grant
<1>3. CASE kind \in {"login", "authorize"}
  <2>1. ~(kind \in {"subscribe", "minimal"} /\ lucky) /\ ~(kind \in {"subscribe", "minimal"} /\ ~lucky)
    BY <1>3
  <2>2. Grant(s, "in")
    BY <1>0, <1>3, <2>1, Zenon DEF Receive
  <2> QED BY <1>3, <2>2 DEF Grant
<1> QED BY <1>1, <1>2, <1>3

LEMMA AppendFirst ==
  ASSUME NEW kind \in Kinds, NEW q, q = <<>>
  PROVE  Append(q, kind) = <<kind>>
OBVIOUS

LEMMA FrontParts ==
  ASSUME NEW kind \in Kinds
  PROVE  /\ Head(Parts(kind)) = <<kind, 1>> /\ Tail(Parts(kind)) = End(kind)
         /\ Head(Begin(kind)) = <<kind, 1>> /\ Tail(Begin(kind)) = <<>>
         /\ Head(End(kind)) = <<kind, 2>> /\ Tail(End(kind)) = <<>>
BY DEF Parts, Begin, End

\* The pool reads a part off the stream.
LEMMA Taking ==
  ASSUME SessionInv, NEW s \in Streams, Take(s)
  PROVE  /\ out[s] \in Seq(Piece) /\ out[s] # <<>> /\ part[s] \in Seq(Kinds)
         /\ Head(out[s])[1] \in Kinds /\ Head(out[s])[2] \in {1, 2} /\ Head(out[s]) = out[s][1]
         /\ out' \in [Streams -> Seq(Piece)] /\ out'[s] = Tail(out[s])
         /\ part' \in [Streams -> Seq(Kinds)]
         /\ part'[s] = IF Head(out[s])[2] = 1 THEN Append(part[s], Head(out[s])[1]) ELSE <<>>
         /\ \A t \in Streams : t # s => out'[t] = out[t] /\ part'[t] = part[t]
         /\ \A t \in Streams : Len(out'[t]) <= Room
         /\ \A i \in 1..Len(Tail(out[s])) : i + 1 \in 1..Len(out[s]) /\ Tail(out[s])[i] = out[s][i + 1]
<1> USE DEF SessionInv
<1>1. /\ out \in [Streams -> Seq(Piece)] /\ part \in [Streams -> Seq(Kinds)]
      /\ out[s] \in Seq(Piece) /\ part[s] \in Seq(Kinds) /\ Len(out[s]) <= Room
  BY DEF ByteTypes
<1>2. out[s] # <<>> /\ out' = [out EXCEPT ![s] = Tail(out[s])]
  BY <1>1 DEF Take
<1> DEFINE q == out[s]
           head == Head(q)
<1>3. /\ Tail(q) \in Seq(Piece) /\ Len(Tail(q)) = Len(q) - 1 /\ Len(q) \in Nat \ {0}
      /\ \A i \in 1..Len(Tail(q)) : Tail(q)[i] = q[i + 1]
      /\ head = q[1] /\ q[1] \in Piece
  BY <1>1, <1>2, HeadTailProperties, EmptySeq, LenProperties
<1>4. head[1] \in Kinds /\ head[2] \in {1, 2}
  BY <1>3 DEF Piece
<1>5. out' \in [Streams -> Seq(Piece)] /\ out'[s] = Tail(q)
  BY <1>1, <1>2, <1>3
<1>6. /\ part' = [part EXCEPT ![s] = IF head[2] = 1 THEN Append(part[s], head[1]) ELSE <<>>]
      /\ (IF head[2] = 1 THEN Append(part[s], head[1]) ELSE <<>>) \in Seq(Kinds)
  <2>1. CASE head[2] = 1
    <3>1. part' = [part EXCEPT ![s] = Append(part[s], head[1])]
      BY <1>1, <2>1 DEF Take
    <3>2. Append(part[s], head[1]) \in Seq(Kinds)
      BY <1>1, <1>4, AppendProperties
    <3> QED BY <2>1, <3>1, <3>2
  <2>2. CASE head[2] # 1
    <3>1. part' = [part EXCEPT ![s] = <<>>]
      BY <2>2 DEF Take
    <3> QED BY <2>2, <3>1, EmptyIsWhole
  <2> QED BY <2>1, <2>2
<1>7. \A t \in Streams : t # s => out'[t] = out[t] /\ part'[t] = part[t]
  BY <1>1, <1>2, <1>6
<1>8. Len(Tail(q)) <= Room
  BY <1>1, <1>3, SessionAssumption
<1>9. \A t \in Streams : Len(out'[t]) <= Room
  BY <1>5, <1>7, <1>8 DEF ByteTypes
<1>10. \A i \in 1..Len(Tail(q)) : i + 1 \in 1..Len(q)
  BY <1>3
<1> HIDE DEF q, head
<1>11. /\ part' \in [Streams -> Seq(Kinds)]
       /\ part'[s] = IF head[2] = 1 THEN Append(part[s], head[1]) ELSE <<>>
  BY <1>1, <1>6
<1> QED BY <1>1, <1>2, <1>3, <1>4, <1>5, <1>7, <1>9, <1>10, <1>11 DEF q, head

LEMMA TakeLoopKeeps ==
  ASSUME SessionInv, NEW s \in Streams, Take(s), s # making.stream
  PROVE  SessionInv'
<1> USE DEF SessionInv
<1> DEFINE kind == Head(out[s])[1]
           rest == Tail(out[s])
           lost == {kind} \cup {part[s][i] : i \in 1..Len(part[s])}
<1>1. /\ UNCHANGED <<pc, client, making, currentJob, writing, reporter, reports, allowed, lucky,
                     opened, up, silent, short>>
      /\ up[s]
  BY DEF Take, mainVars, threadVars
<1>2. s = Cur /\ pc \notin Handshake
  BY <1>1 DEF UpInv, Cur
<1>3. /\ out[s] \in Seq(Piece) /\ out[s] # <<>> /\ part[s] \in Seq(Kinds)
      /\ kind \in Kinds /\ Head(out[s]) = out[s][1]
      /\ out' \in [Streams -> Seq(Piece)] /\ out'[s] = rest
      /\ part' \in [Streams -> Seq(Kinds)]
      /\ part'[s] = IF Head(out[s])[2] = 1 THEN Append(part[s], kind) ELSE <<>>
      /\ \A t \in Streams : t # s => out'[t] = out[t] /\ part'[t] = part[t]
      /\ \A t \in Streams : Len(out'[t]) <= Room
      /\ \A i \in 1..Len(rest) : i + 1 \in 1..Len(out[s]) /\ rest[i] = out[s][i + 1]
  BY Taking
<1>4. /\ \A i \in 1..Len(out[s]) : out[s][i][1] \in LoopLines
      /\ \A i \in 1..Len(part[s]) : part[s][i] \in LoopLines
      /\ s \notin short => Whole(part[s], out[s])
  BY DEF LoopInv
<1>5. kind \in LoopLines
  <2>1. 1 \in 1..Len(out[s])
    BY <1>3, EmptySeq, LenProperties
  <2> QED BY <1>3, <1>4, <2>1
<1>6. \A i \in 1..Len(rest) : rest[i][1] \in LoopLines
  BY <1>3, <1>4
<1>7. s \notin short => /\ Head(out[s])[2] = 1 => part[s] = <<>> /\ Whole(<<kind>>, rest)
                        /\ Head(out[s])[2] # 1 => part[s] = <<kind>> /\ Whole(<<>>, rest)
  BY <1>3, <1>4, WholeTail
<1>8. /\ UNCHANGED <<known, upsets>>
      /\ \/ UNCHANGED inbox
         \/ \E c \in Switches : inbox' = [inbox EXCEPT ![s] = Append(@, [kind |-> c])]
      /\ spoiled' = spoiled \/ (s \in short /\ spoiled' = spoiled \cup {<<s, k>> : k \in lost})
  <2>1. CASE Head(out[s])[2] = 1
    BY <2>1 DEF Take
  <2>2. CASE Head(out[s])[2] # 1 /\ part[s] = <<kind>>
    <3>1. Receive(s, kind) /\ UNCHANGED spoiled
      BY <2>2 DEF Take
    <3> QED BY <1>5, <3>1, LoopReceived
  <2>3. CASE Head(out[s])[2] # 1 /\ part[s] # <<kind>>
    <3>1. UNCHANGED <<known, inbox, upsets>> /\ spoiled' = spoiled \cup {<<s, k>> : k \in lost}
      BY <2>3 DEF Take
    <3>2. s \in short
      BY <1>7, <2>3
    <3> QED BY <3>1, <3>2
  <2> QED BY <2>1, <2>2, <2>3
<1>9. lost \subseteq LoopLines /\ LoopLines \subseteq Kinds
  BY <1>4, <1>5 DEF LoopLines, Kinds
<1> HIDE DEF kind, rest, lost
<1>10. /\ inbox' \in [Streams -> Seq(Reply)] /\ InboxInv'
       /\ \A t \in Streams : t # s => inbox'[t] = inbox[t]
  <2>1. inbox \in [Streams -> Seq(Reply)] /\ inbox[s] \in Seq(Reply) /\ OneEach(inbox[s])
    BY DEF ByteTypes, InboxInv
  <2>2. CASE UNCHANGED inbox
    BY <2>1, <2>2 DEF InboxInv
  <2>3. ASSUME NEW c \in Switches, inbox' = [inbox EXCEPT ![s] = Append(@, [kind |-> c])]
        PROVE  /\ inbox' \in [Streams -> Seq(Reply)] /\ InboxInv'
               /\ \A t \in Streams : t # s => inbox'[t] = inbox[t]
    <3> DEFINE longer == Append(inbox[s], [kind |-> c])
    <3>1. longer \in Seq(Reply) /\ OneEach(longer)
      BY <2>1, PushSwitch
    <3>2. inbox' = [inbox EXCEPT ![s] = longer]
      BY <2>3
    <3> HIDE DEF longer
    <3>3. /\ inbox' \in [Streams -> Seq(Reply)] /\ inbox'[s] = longer
          /\ \A t \in Streams : t # s => inbox'[t] = inbox[t]
      BY <2>1, <3>1, <3>2
    <3>4. ASSUME NEW t \in Streams PROVE OneEach(inbox'[t])
      <4>1. CASE t = s
        BY <3>1, <3>3, <4>1
      <4>2. CASE t # s
        BY <3>3, <4>2 DEF InboxInv
      <4> QED BY <4>1, <4>2
    <3> QED BY <3>3, <3>4 DEF InboxInv
  <2> QED BY <1>8, <2>2, <2>3
<1>11. /\ MainTypes' /\ LinkTypes' /\ CountInv' /\ ClientInv'
  BY <1>1, <1>8 DEF MainTypes, InLoop, LinkTypes, CountInv, ClientInv
<1>12. ByteTypes'
  <2>1. spoiled' \subseteq Streams \X Kinds
    BY <1>8, <1>9 DEF ByteTypes
  <2> QED BY <1>1, <1>3, <1>8, <1>10, <2>1 DEF ByteTypes
<1>13. UpInv'
  <2>1. ASSUME NEW t \in Streams
        PROVE  ~up'[t] => out'[t] = <<>> /\ part'[t] = <<>>
    BY <1>1, <1>3 DEF UpInv
  <2>2. ASSUME NEW t \in Streams, up'[t]
        PROVE  t = opened' /\ t = Cur' /\ pc' \notin {"start", "offline", "exit"}
    BY <1>1, <2>2 DEF UpInv, Cur
  <2>3. ASSUME NEW t \in Streams, t > opened'
        PROVE  reporter'[t] = "none" /\ t \notin short' /\ inbox'[t] = <<>> /\ known'[t] = "nothing"
    <3>1. t # s
      <4>1. t > s
        BY <1>1, <2>3, Zenon DEF UpInv
      <4> QED BY <4>1 DEF Streams
    <3> QED BY <1>1, <1>8, <1>10, <2>3, <3>1 DEF UpInv
  <2> QED BY <2>1, <2>2, <2>3 DEF UpInv
<1>14. HandshakeInv'
  BY <1>1, <1>2 DEF HandshakeInv
<1>15. LoopInv'
  <2>1. ASSUME NEW t \in Streams, t # making'.stream
        PROVE  /\ \A i \in 1..Len(out'[t]) : out'[t][i][1] \in LoopLines
               /\ \A i \in 1..Len(part'[t]) : part'[t][i] \in LoopLines
               /\ t \notin short' => Whole(part'[t], out'[t])
    <3>1. CASE t = s /\ Head(out[s])[2] = 1
      <4>1. part'[s] = Append(part[s], kind)
        BY <1>3, <3>1
      <4>2. \A i \in 1..Len(Append(part[s], kind)) : Append(part[s], kind)[i] \in LoopLines
        <5>1. /\ Len(Append(part[s], kind)) = Len(part[s]) + 1 /\ Len(part[s]) \in Nat
              /\ \A i \in 1..Len(part[s]) : Append(part[s], kind)[i] = part[s][i]
              /\ Append(part[s], kind)[Len(part[s]) + 1] = kind
          BY <1>3, AppendProperties, LenProperties
        <5>2. \A i \in 1..Len(part[s]) + 1 : i \in 1..Len(part[s]) \/ i = Len(part[s]) + 1
          BY <5>1
        <5> QED BY <1>4, <1>5, <5>1, <5>2
      <4>3. s \notin short => Append(part[s], kind) = <<kind>>
        <5>1. s \notin short => part[s] = <<>>
          BY <1>7, <3>1
        <5> QED BY <1>3, <5>1, AppendFirst
      <4> QED BY <1>1, <1>3, <1>6, <1>7, <3>1, <4>1, <4>2, <4>3
    <3>2. CASE t = s /\ Head(out[s])[2] # 1
      <4>1. part'[s] = <<>>
        BY <1>3, <3>2
      <4> QED BY <1>1, <1>3, <1>6, <1>7, <3>2, <4>1, EmptyIsWhole
    <3>3. CASE t # s
      BY <1>1, <1>3, <2>1, <3>3 DEF LoopInv
    <3> QED BY <3>1, <3>2, <3>3
  <2>2. Line' = Line
    BY <1>1 DEF Line
  <2> QED BY <1>1, <2>1, <2>2 DEF LoopInv
<1>16. HandshakeWhole'
  <2>1. ASSUME NEW line \in spoiled' PROVE line[1] \in short' /\ line[2] \in LoopLines
    <3>1. CASE line \in spoiled
      BY <1>1, <3>1 DEF HandshakeWhole, LoopLines
    <3>2. CASE line \notin spoiled
      <4>1. s \in short /\ \E k \in lost : line = <<s, k>>
        BY <1>8, <3>2
      <4> QED BY <1>1, <1>9, <4>1
    <3> QED BY <3>1, <3>2
  <2> QED BY <2>1 DEF HandshakeWhole, LoopLines
<1> QED BY <1>11, <1>12, <1>13, <1>14, <1>15, <1>16, <1>10

LEMMA TakeHandshakeKeeps ==
  ASSUME SessionInv, NEW s \in Streams, Take(s), s = making.stream
  PROVE  SessionInv'
<1> USE DEF SessionInv
<1>1. /\ UNCHANGED <<pc, client, making, currentJob, writing, reporter, reports, allowed, lucky,
                     opened, up, silent, short>>
      /\ up[s] /\ out[s] # <<>>
  BY DEF Take, mainVars, threadVars
<1>2. s = Cur /\ s = opened /\ pc \in Handshake
  <2>1. making # NoClient
    BY DEF NoClient, Streams
  <2> QED BY <1>1, <2>1 DEF UpInv, MainTypes
<1>3. /\ InFlight(s, pc) /\ ~Quiet(s) /\ pc # "drain" /\ Answers(inbox[s]) = {}
      /\ pc \in {"subscribe", "minimal", "login", "authorize"} /\ pc \in Kinds
  <2>1. InFlight(s, pc) /\ ~Quiet(s)
    BY <1>1, <1>2 DEF HandshakeInv, Quiet
  <2>2. pc # "drain" /\ Answers(inbox[s]) = {}
    BY <1>2, <2>1 DEF HandshakeInv
  <2> QED BY <1>2, <2>1, <2>2 DEF Handshake, Kinds
<1>4. /\ out' \in [Streams -> Seq(Piece)] /\ out'[s] = Tail(out[s])
      /\ part' \in [Streams -> Seq(Kinds)]
      /\ part'[s] = IF Head(out[s])[2] = 1 THEN Append(part[s], Head(out[s])[1]) ELSE <<>>
      /\ \A t \in Streams : t # s => out'[t] = out[t] /\ part'[t] = part[t]
      /\ \A t \in Streams : Len(out'[t]) <= Room
  BY Taking
<1>5. \/ /\ Head(out[s]) = <<pc, 1>> /\ part[s] = <<>>
         /\ \/ writing = <<>> /\ Tail(out[s]) = End(pc)
            \/ writing = End(pc) /\ Tail(out[s]) = <<>>
      \/ /\ Head(out[s]) = <<pc, 2>> /\ part[s] = <<pc>>
         /\ writing = <<>> /\ Tail(out[s]) = <<>>
  <2>1. CASE writing = End(pc) /\ out[s] = Begin(pc) /\ part[s] = <<>>
    BY <1>3, <2>1, FrontParts
  <2>2. CASE writing = <<>> /\ out[s] = Parts(pc) /\ part[s] = <<>>
    BY <1>3, <2>2, FrontParts
  <2>3. CASE writing = <<>> /\ out[s] = End(pc) /\ part[s] = <<pc>>
    BY <1>3, <2>3, FrontParts
  <2> QED BY <1>1, <1>3, <2>1, <2>2, <2>3 DEF InFlight, Begin, End
<1>6. /\ inbox' \in [Streams -> Seq(Reply)] /\ InboxInv'
      /\ \A t \in Streams : t # s => inbox'[t] = inbox[t] /\ known'[t] = known[t]
      /\ known' \in [Streams -> Knows] /\ upsets' \in {upsets, upsets + 1} \cap 0..MaxUpsets
      /\ Answers(inbox'[s]) # {} => Quiet(s)'
      /\ \A a \in Answers(inbox'[s]) : AnswerTrue(s, a.verdict)'
      /\ InFlight(s, pc)' /\ UNCHANGED spoiled
  <2>1. CASE Head(out[s])[2] = 1
    <3>1. Head(out[s]) = <<pc, 1>> /\ part[s] = <<>>
      BY <1>5, <2>1
    <3>2. \/ writing = <<>> /\ out'[s] = End(pc)
          \/ writing = End(pc) /\ out'[s] = <<>>
      BY <1>4, <1>5, <3>1
    <3>3. part'[s] = <<pc>>
      <4>1. Append(part[s], pc) = <<pc>>
        BY <1>3, <3>1, AppendFirst
      <4> QED BY <1>4, <2>1, <3>1, <4>1
    <3>4. UNCHANGED <<known, inbox, upsets, spoiled>>
      BY <2>1 DEF Take
    <3>5. InFlight(s, pc)'
      BY <1>1, <3>2, <3>3 DEF InFlight, End
    <3>6. upsets' \in {upsets, upsets + 1} \cap 0..MaxUpsets
      BY <3>4 DEF LinkTypes
    <3> QED BY <1>3, <3>4, <3>5, <3>6 DEF ByteTypes, InboxInv
  <2>2. CASE Head(out[s])[2] # 1
    <3>1. Head(out[s]) = <<pc, 2>> /\ part[s] = <<pc>> /\ writing = <<>> /\ Tail(out[s]) = <<>>
      BY <1>5, <2>2
    <3>2. Quiet(s)' /\ InFlight(s, pc)'
      BY <1>1, <1>4, <2>2, <3>1 DEF Quiet, InFlight
    <3>3. Receive(s, pc) /\ UNCHANGED spoiled
      <4>1. Head(out[s])[1] = pc
        BY <3>1
      <4> QED BY <2>2, <3>1, <4>1 DEF Take
    <3>4. /\ inbox[s] \in Seq(Reply) /\ OneEach(inbox[s]) /\ inbox \in [Streams -> Seq(Reply)]
          /\ known \in [Streams -> Knows] /\ upsets \in 0..MaxUpsets
      BY DEF ByteTypes, InboxInv, LinkTypes
    <3>5. ASSUME NEW verdict \in {"ok", "refused", "unknown"}, Answer(s, verdict)
          PROVE  /\ inbox' \in [Streams -> Seq(Reply)] /\ InboxInv'
                 /\ \A t \in Streams : t # s => inbox'[t] = inbox[t]
                 /\ \A a \in Answers(inbox'[s]) : a.verdict = verdict
      <4> DEFINE line == [kind |-> "answer", verdict |-> verdict]
      <4>1. /\ Append(inbox[s], line) \in Seq(Reply) /\ OneEach(Append(inbox[s], line))
            /\ Answers(Append(inbox[s], line)) = {line} /\ line.verdict = verdict
        BY <1>3, <3>4, PushAnswer
      <4>2. inbox' = [inbox EXCEPT ![s] = Append(inbox[s], line)]
        BY <3>5 DEF Answer
      <4> HIDE DEF line
      <4>3. /\ inbox'[s] = Append(inbox[s], line) /\ inbox' \in [Streams -> Seq(Reply)]
            /\ \A t \in Streams : t # s => inbox'[t] = inbox[t]
        BY <3>4, <4>1, <4>2
      <4>4. InboxInv'
        <5>1. ASSUME NEW t \in Streams PROVE OneEach(inbox'[t])
          <6>1. CASE t = s
            BY <4>1, <4>3, <6>1
          <6>2. CASE t # s
            BY <4>3, <6>2 DEF InboxInv
          <6> QED BY <6>1, <6>2
        <5> QED BY <5>1 DEF InboxInv
      <4> QED BY <4>1, <4>3, <4>4
    <3>6. PICK verdict \in {"ok", "refused", "unknown"} :
            /\ Answer(s, verdict)
            /\ verdict = "ok" => IF pc \in {"subscribe", "minimal"} THEN ~lucky
                                 ELSE known' = [known EXCEPT ![s] = "in"]
            /\ verdict = "unknown" => lucky /\ pc \in {"subscribe", "minimal"}
            /\ verdict = "refused" => upsets' = upsets + 1 /\ upsets < MaxUpsets
            /\ verdict # "refused" => upsets' = upsets
            /\ \/ known' = known \/ known' = [known EXCEPT ![s] = "subscribed"]
               \/ known' = [known EXCEPT ![s] = "in"]
      BY <1>3, <3>3, Received DEF Upset
    <3>7. known' \in [Streams -> Knows] /\ \A t \in Streams : t # s => known'[t] = known[t]
      BY <3>4, <3>6 DEF Knows
    <3>8. upsets' \in {upsets, upsets + 1} \cap 0..MaxUpsets
      BY <3>4, <3>6, SessionAssumption
    <3>9. AnswerTrue(s, verdict)'
      <4>1. verdict = "ok" => IF pc \in {"subscribe", "minimal"} THEN ~lucky ELSE known'[s] = "in"
        BY <3>4, <3>6
      <4>2. verdict = "refused" => opened <= upsets'
        BY <3>6 DEF CountInv
      <4> QED BY <1>1, <3>6, <4>1, <4>2 DEF AnswerTrue
    <3> QED BY <3>2, <3>3, <3>5, <3>6, <3>7, <3>8, <3>9
  <2> QED BY <2>1, <2>2
<1>7. MainTypes'
  BY <1>1 DEF MainTypes, InLoop
<1>8. LinkTypes'
  BY <1>1, <1>6 DEF LinkTypes
<1>9. ByteTypes'
  BY <1>1, <1>4, <1>6 DEF ByteTypes
<1>10. UpInv'
  <2>1. ASSUME NEW t \in Streams
        PROVE  ~up'[t] => out'[t] = <<>> /\ part'[t] = <<>>
    BY <1>1, <1>4 DEF UpInv
  <2>2. ASSUME NEW t \in Streams, up'[t]
        PROVE  t = opened' /\ t = Cur' /\ pc' \notin {"start", "offline", "exit"}
    BY <1>1, <2>2 DEF UpInv, Cur
  <2>3. ASSUME NEW t \in Streams, t > opened'
        PROVE  reporter'[t] = "none" /\ t \notin short' /\ inbox'[t] = <<>> /\ known'[t] = "nothing"
    <3>1. t # s
      <4>1. t > s
        BY <1>1, <1>2, <2>3, Zenon
      <4> QED BY <4>1 DEF Streams
    <3> QED BY <1>1, <1>6, <2>3, <3>1 DEF UpInv
  <2> QED BY <2>1, <2>2, <2>3 DEF UpInv
<1>11. CountInv'
  <2>1. \A o, u, v \in Int : v \in {u, u + 1} => (o <= u + 1 => o <= v + 1) /\ (o <= u => o <= v)
    OBVIOUS
  <2>2. opened \in Int /\ upsets \in Int /\ upsets' \in Int /\ upsets' \in {upsets, upsets + 1}
    BY <1>6, SessionAssumption DEF LinkTypes
  <2>3. (opened <= upsets + 1 => opened <= upsets' + 1) /\ (opened <= upsets => opened <= upsets')
    BY <2>1, <2>2, Zenon
  <2> QED BY <1>1, <2>3, Zenon DEF CountInv
<1>12. HandshakeInv'
  BY <1>1, <1>2, <1>3, <1>6 DEF HandshakeInv
<1>13. ClientInv'
  <2>1. client # NoClient => known'[client.stream] = known[client.stream]
    BY <1>6, ClientFields DEF ClientInv, MainTypes
  <2> QED BY <1>1, <2>1 DEF ClientInv
<1>14. LoopInv'
  <2>1. ASSUME NEW t \in Streams, t # making'.stream
        PROVE  /\ \A i \in 1..Len(out'[t]) : out'[t][i][1] \in LoopLines
               /\ \A i \in 1..Len(part'[t]) : part'[t][i] \in LoopLines
               /\ t \notin short' => Whole(part'[t], out'[t])
    BY <1>1, <1>4, <2>1 DEF LoopInv
  <2> QED BY <1>1, <2>1 DEF LoopInv, Line
<1>15. HandshakeWhole'
  BY <1>1, <1>6 DEF HandshakeWhole
<1> QED BY <1>6, <1>7, <1>8, <1>9, <1>10, <1>11, <1>12, <1>13, <1>14, <1>15

-----------------------------------------------------------------------------
(* Every step. *)

LEMMA ConnectFailsKeeps ==
  ASSUME SessionInv, ConnectFails
  PROVE  SessionInv'
<1> USE DEF SessionInv
<1>1. /\ UNCHANGED <<client, making, currentJob, writing, reporter, reports, allowed, lucky,
                     opened, up, silent>>
      /\ UNCHANGED <<out, part, known, inbox, spoiled, short>>
      /\ pc \in {"start", "offline"} /\ upsets < MaxUpsets /\ upsets' = upsets + 1
      /\ pc' = IF client = NoClient THEN "exit" ELSE "loop"
  BY DEF ConnectFails, Upset, AfterFailure, threadVars, byteVars, poolVars
<1>2. /\ upsets \in Nat /\ opened \in Nat /\ upsets' \in 0..MaxUpsets
      /\ \A n \in Nat : n <= upsets + 1 => n <= upsets'
  BY <1>1, SessionAssumption DEF LinkTypes
<1>3. /\ pc \notin Handshake /\ pc' \notin Handshake /\ pc' \in PCs /\ pc' \notin Sends /\ pc' # "start"
      /\ InLoop' => client # NoClient
      /\ making = NoClient /\ writing = <<>>
  BY <1>1, SwitchesApart DEF Handshake, Sends, PCs, InLoop, MainTypes, LoopInv
<1>4. MainTypes'
  BY <1>1, <1>3 DEF MainTypes
<1>5. /\ ByteTypes' /\ InboxInv' /\ ClientInv' /\ HandshakeWhole'
  BY <1>1 DEF ByteTypes, InboxInv, ClientInv, HandshakeWhole
<1>6. LinkTypes'
  BY <1>1, <1>2 DEF LinkTypes
<1>7. UpInv'
  <2>1. \A t \in Streams : ~up[t]
    BY <1>1 DEF UpInv
  <2> QED BY <1>1, <2>1 DEF UpInv
<1>8. CountInv'
  <2>1. opened <= upsets'
    BY <1>2 DEF CountInv
  <2>2. opened' <= upsets' /\ opened' <= upsets' + 1
    BY <1>1, <1>2, <2>1
  <2> QED BY <1>3, <2>2 DEF CountInv
<1>9. HandshakeInv'
  BY <1>3 DEF HandshakeInv
<1>10. LoopInv'
  BY <1>1, <1>3 DEF LoopInv
<1> QED BY <1>4, <1>5, <1>6, <1>7, <1>8, <1>9, <1>10

LEMMA SessionStep ==
  SessionInv /\ [Next]_vars => SessionInv'
<1> SUFFICES ASSUME SessionInv, [Next]_vars PROVE SessionInv'
  OBVIOUS
<1>1. CASE LoopStep
  BY <1>1, LoopStepKeeps
<1>2. CASE Progress
  BY <1>2, ProgressKeeps
<1>3. CASE Failure
  BY <1>3, FailureKeeps
<1>4. CASE Connect \/ NextVariant
  BY <1>4, OpeningKeeps
<1>5. CASE LoggedIn \/ Drained
  BY <1>5, ReadyKeeps
<1>6. CASE Write \/ ConnectFails
  BY <1>6, WriteKeeps, ConnectFailsKeeps
<1>7. ASSUME NEW s \in Streams, Report(s) \/ FinishReport(s) \/ FailReport(s)
      PROVE  SessionInv'
  BY <1>7, ReporterKeeps, FailReportKeeps
<1>8. ASSUME NEW s \in Streams, Take(s) PROVE SessionInv'
  BY <1>8, TakeLoopKeeps, TakeHandshakeKeeps
<1>9. ASSUME NEW s \in Streams, SendJob(s) \/ Close(s) \/ FallSilent(s)
      PROVE  SessionInv'
  BY <1>9, SendJobKeeps, CloseKeeps, FallSilentKeeps
<1>10. ReadJob => Progress \/ Failure
  BY DEF ReadJob, Progress, Failure
<1>11. CASE UNCHANGED vars
  <2>1. /\ UNCHANGED <<pc, client, making, currentJob, writing, reporter, reports, allowed, lucky,
                       opened, up, silent, upsets>>
        /\ UNCHANGED <<out, part, known, inbox, spoiled, short>>
    BY <1>11 DEF vars, mainVars, threadVars, linkVars, byteVars, poolVars
  <2>2. /\ MainTypes' /\ LinkTypes' /\ ByteTypes' /\ UpInv' /\ CountInv' /\ InboxInv'
        /\ ClientInv' /\ LoopInv' /\ HandshakeWhole'
    BY <2>1 DEF SessionInv, MainTypes, InLoop, LinkTypes, ByteTypes, UpInv, Cur, CountInv,
                InboxInv, ClientInv, LoopInv, Line, HandshakeWhole
  <2>3. HandshakeInv'
    BY <2>1 DEF SessionInv, HandshakeInv, InFlight, Quiet, AnswerTrue
  <2> QED BY <2>2, <2>3 DEF SessionInv
<1> QED BY <1>1, <1>2, <1>3, <1>4, <1>5, <1>6, <1>7, <1>8, <1>9, <1>10, <1>11
        DEF Next, Main, LoopStep, Progress, Failure

LEMMA SessionInvariant ==
  Spec => []SessionInv
BY SessionInit, SessionStep, PTL DEF Spec

-----------------------------------------------------------------------------
(* Theorems. *)

\* Types, for every buffer and any number of upsets: buffers keep their bound, a
\* constructor runs exactly during a handshake, the loop always has a client, and
\* only opened sockets are up.
THEOREM SessionTypeCorrect ==
  Spec => []TypeOK
<1>1. SessionInv => TypeOK
  <2> SUFFICES ASSUME SessionInv PROVE TypeOK
    OBVIOUS
  <2>1. /\ pc \in PCs /\ client \in Client \cup {NoClient} /\ making \in Client \cup {NoClient}
        /\ (making # NoClient) = (pc \in Handshake)
        /\ InLoop => client # NoClient
    BY DEF SessionInv, MainTypes
  <2>2. opened <= MaxUpsets + 1
    BY DEF SessionInv, LinkTypes
  <2>3. ASSUME NEW s \in Streams
        PROVE  /\ reporter[s] \in Threads /\ Len(out[s]) <= Room
               /\ \A i \in 1..Len(inbox[s]) : inbox[s][i].kind \in {"job", "answer"} \cup Switches
               /\ up[s] => s <= opened
    <3>1. \A i \in 1..Len(inbox[s]) : inbox[s][i].kind \in {"job", "answer"} \cup Switches
      <4>1. inbox[s] \in Seq(Reply)
        BY DEF SessionInv, ByteTypes
      <4> QED BY <4>1 DEF Reply
    <3>2. up[s] => s <= opened
      BY DEF SessionInv, UpInv, Streams
    <3> QED BY <3>1, <3>2 DEF SessionInv, LinkTypes, ByteTypes
  <2> QED BY <2>1, <2>2, <2>3 DEF TypeOK
<1> QED BY <1>1, SessionInvariant, PTL

\* _handshake, fee_check, submit and report_metrics on one socket without a lock: a
\* line is only lost in the text of another on a connection whose buffer ran full,
\* and it is a share, the call of a payout switch or a report, never a line of a
\* handshake.
THEOREM HandshakeCorrect ==
  Spec => []HandshakeWhole
<1>1. SessionInv => HandshakeWhole
  BY DEF SessionInv
<1> QED BY <1>1, SessionInvariant, PTL

\* run_mining_loop after any number of reconnects, fallbacks and refusals: the
\* loop mines on a session the pool has admitted, in the pool's protocol, and on
\* a job this client has read.
THEOREM AgreedCorrect ==
  Spec => []SessionAgreed
<1>1. SessionInv => SessionAgreed
  <2> SUFFICES ASSUME SessionInv, InLoop
               PROVE  /\ known[client.stream] = "in"
                      /\ (client.protocol = "luckypool") = lucky
                      /\ currentJob # 0 => currentJob \in client.first..client.stream
    BY DEF SessionAgreed
  <2>1. client # NoClient
    BY DEF SessionInv, MainTypes
  <2>2. lucky \in BOOLEAN
    BY DEF SessionInv, MainTypes
  <2>3. /\ known[client.stream] = "in"
        /\ (client.protocol = "luckypool") <=> lucky
        /\ currentJob # 0 => currentJob \in client.first..client.stream
    BY <2>1 DEF SessionInv, ClientInv
  <2> QED BY <2>2, <2>3
<1> QED BY <1>1, SessionInvariant, PTL

\* The metrics threads of earlier clients are never stopped, but no report of
\* theirs gets through: the pool reads one only on the stream of the loop.
THEOREM ReportsCorrect ==
  Spec => ReportsCurrent
<1>1. ASSUME SessionInv, NEW s \in Streams,
             Take(s) /\ Head(out[s]) = <<"report", 2>> /\ part[s] = <<"report">>
      PROVE  s = client.stream
  <2>1. s = Cur /\ out[s] # <<>>
    BY <1>1 DEF SessionInv, UpInv, Take
  <2>2. pc \notin Handshake
    <3> SUFFICES ASSUME pc \in Handshake PROVE FALSE
      OBVIOUS
    <3>1. s = making.stream
      BY <2>1, Constructing, <1>1
    <3>2. InFlight(s, pc) /\ part[s] # <<>>
      BY <1>1, <3>1 DEF SessionInv, HandshakeInv, Take
    <3>3. <<pc>> = <<"report">>
      BY <1>1, <2>1, <3>2 DEF InFlight, Quiet
    <3> QED BY <3>3 DEF Handshake
  <2> QED BY <2>1, <2>2 DEF Cur
<1>2. SessionInv /\ [Next]_vars =>
        [\A s \in Streams :
           (Take(s) /\ Head(out[s]) = <<"report", 2>> /\ part[s] = <<"report">>) =>
             s = client.stream]_vars
  BY <1>1
<1> QED BY <1>2, SessionInvariant, PTL DEF Spec, ReportsCurrent
=============================================================================
